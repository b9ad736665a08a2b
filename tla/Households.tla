------------------------------ MODULE Households ------------------------------
(***************************************************************************)
(* The tables that AddressRequestsService and ImportsService share: the    *)
(* turfs, the households of the organization, and the addresses that place *)
(* a household on a turf.  Both services find a household or create it in  *)
(* ensureHousehold, and both keep the requests they are handling in slots: *)
(* a handler looks rows up, awaits, and writes, and others run between.    *)
(*                                                                         *)
(* A text is an address as it was written, up to case; buildNormalizedAd-  *)
(* dressKey maps texts that differ in spacing and punctuation to one key.  *)
(***************************************************************************)
EXTENDS Naturals, Sequences, FiniteSets

CONSTANTS Texts, KeyOf,        \* buildNormalizedAddressKey, a function on Texts
          Names,               \* names of turfs
          VanHouses, VanPersons,   \* external ids of households and persons
          Turfs, Homes, Places,    \* ids of turfs, households and addresses: bounds
          Slots, Loaders,      \* field requests, and imports, handled at once
          TurfsBefore,         \* the turfs that exist at first, by name
          None

Keys == {KeyOf[x] : x \in Texts}
OrNone(S) == S \cup {None}

\* A row of a file, its columns resolved by the mapping.
Rows == [name : Names, text : OrNone(Texts),      \* None: a required column is empty
         house : OrNone(VanHouses), person : OrNone(VanPersons), located : BOOLEAN]
HomeRows == [key : Keys, house : OrNone(VanHouses), person : OrNone(VanPersons),
             located : BOOLEAN]
PlaceRows == [turf : Turfs, home : Homes, key : Keys, live : BOOLEAN, field : BOOLEAN]

ASSUME TextsAssumption == DOMAIN KeyOf = Texts
ASSUME TurfsAssumption == TurfsBefore \in [Turfs -> OrNone(Names)]
ASSUME NoneAssumption == None \notin Names \cup HomeRows \cup PlaceRows \cup Texts \cup Places

VARIABLES turfs,      \* the name of each turf that exists
          homes,      \* households
          places,     \* addresses
          handling    \* what each slot is doing

tables == <<turfs, homes, places>>

Idle == [at |-> "idle"]
Send(s, r) == handling[s] = Idle /\ handling' = [handling EXCEPT ![s] = r]
Done(s) == handling' = [handling EXCEPT ![s] = Idle]

TablesOK == /\ turfs \in [Turfs -> OrNone(Names)]
            /\ homes \in [Homes -> OrNone(HomeRows)]
            /\ places \in [Places -> OrNone(PlaceRows)]

Existing == {h \in Homes : homes[h] # None}
On(table, t) == {a \in Places : table[a] # None /\ table[a].turf = t /\ table[a].live}
LiveOn(t) == On(places, t)

\* findMatchingHousehold: only the first identifier that the row has counts.
Matches(row) ==
  {h \in Existing : IF row.house # None THEN homes[h].house = row.house
                    ELSE IF row.person # None THEN homes[h].person = row.person
                    ELSE homes[h].key = KeyOf[row.text]}

Learns(home, row) == \/ row.located /\ ~home.located
                     \/ row.house # None /\ home.house = None
                     \/ row.person # None /\ home.person = None

OrElse(new, old) == IF new # None THEN new ELSE old

\* A household that learns something also takes the key of the row.
Learned(home, row) == [key |-> KeyOf[row.text],
                       house |-> OrElse(row.house, home.house),
                       person |-> OrElse(row.person, home.person),
                       located |-> row.located \/ home.located]

\* h is the household that ensureHousehold returns.
EnsureHousehold(row, h) ==
  IF Matches(row) # {}
  THEN /\ h \in Matches(row)
       /\ homes' = IF Learns(homes[h], row) THEN [homes EXCEPT ![h] = Learned(@, row)] ELSE homes
  ELSE /\ h \notin Existing
       /\ homes' = [homes EXCEPT ![h] = [key |-> KeyOf[row.text], house |-> row.house,
                                         person |-> row.person, located |-> row.located]]

\* The table with a new address at the unused id a.
Placed(a, t, h, x, field) ==
  [places EXCEPT ![a] = [turf |-> t, home |-> h, key |-> KeyOf[x], live |-> TRUE, field |-> field]]
Vacant == {a \in Places : places[a] = None}
=============================================================================
