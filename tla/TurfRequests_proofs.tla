------------------------ MODULE TurfRequests_proofs ------------------------
(***************************************************************************)
(* Proofs about TurfRequests: served one at a time, the handlers that read *)
(* and write rows are the steps of TurfLifecycle, for any turfs,           *)
(* canvassers and any history of rows.                                     *)
(***************************************************************************)
EXTENDS TurfRequests, SequenceTheorems, WellFoundedInduction, TLAPS

----------------------------------------------------------------------------
(* Tables of rows, and the newest row of a turf and a canvasser.           *)

Pair(table, t, c) == {i \in DOMAIN table : table[i].turf = t /\ table[i].canvasser = c}

Latest(table, t, c) ==
  IF Pair(table, t, c) = {} THEN "none" ELSE table[Newest(Pair(table, t, c))].status

\* Only the newest row of a turf and a canvasser is in one of the states.
Settled(table, states) ==
  \A i, j \in DOMAIN table :
    /\ table[i].turf = table[j].turf /\ table[i].canvasser = table[j].canvasser
    /\ i < j
    => table[i].status \notin states

\* Some row of the turf and the canvasser is in one of the states.
Has(table, t, c, states) == \E i \in Pair(table, t, c) : table[i].status \in states

LEMMA LeastOf ==
  ASSUME NEW T, T \subseteq Nat, T # {} PROVE \E x \in T : \A y \in T : x <= y
<1>1. PICK x \in T : \A y \in T : ~(<<y, x>> \in OpToRel(<, Nat))
  BY NatLessThanWellFounded, WFMin
<1>2. \A y \in T : ~(y < x)
  BY <1>1 DEF OpToRel
<1> QED
  BY <1>2

\* Rows that exist have a newest.
LEMMA NewestOf ==
  ASSUME NEW n \in Nat, NEW S, S \subseteq 1 .. n, S # {}
  PROVE  Newest(S) \in S /\ \A j \in S : j <= Newest(S)
<1> DEFINE T == {d \in Nat : \E i \in S : i + d = n}
<1>1. T \subseteq Nat /\ T # {}
  <2>1. PICK i \in S : TRUE
    OBVIOUS
  <2>2. n - i \in Nat /\ i + (n - i) = n
    OBVIOUS
  <2> QED BY <2>1, <2>2
<1>2. PICK x \in T : \A y \in T : x <= y
  BY <1>1, LeastOf
<1>3. PICK i \in S : i + x = n
  BY <1>2
<1>4. \A j \in S : j <= i
  <2> TAKE j \in S
  <2>1. n - j \in T
    OBVIOUS
  <2>2. x <= n - j
    BY <1>2, <2>1
  <2> QED
    BY <1>3, <2>2
<1> QED
  BY <1>4 DEF Newest

LEMMA LatestOf ==
  ASSUME NEW n \in Nat, NEW table, DOMAIN table = 1 .. n, NEW t, NEW c,
         NEW i \in Pair(table, t, c), \A j \in Pair(table, t, c) : j <= i
  PROVE  Latest(table, t, c) = table[i].status
<1> DEFINE S == Pair(table, t, c)
<1>1. S \subseteq 1 .. n /\ S # {}
  BY DEF Pair
<1>2. Newest(S) \in S /\ \A j \in S : j <= Newest(S)
  BY <1>1, NewestOf
<1>3. Newest(S) = i
  BY <1>1, <1>2
<1> QED
  BY <1>1, <1>3 DEF Latest

\* What is latest comes from a row, unless there is none.
LEMMA LatestFrom ==
  ASSUME NEW n \in Nat, NEW table, DOMAIN table = 1 .. n, NEW t, NEW c
  PROVE  \/ Pair(table, t, c) = {} /\ Latest(table, t, c) = "none"
         \/ \E i \in Pair(table, t, c) : /\ \A j \in Pair(table, t, c) : j <= i
                                         /\ Latest(table, t, c) = table[i].status
<1>1. CASE Pair(table, t, c) = {}
  BY <1>1 DEF Latest
<1>2. CASE Pair(table, t, c) # {}
  <2>1. Pair(table, t, c) \subseteq 1 .. n
    BY DEF Pair
  <2>2. /\ Newest(Pair(table, t, c)) \in Pair(table, t, c)
        /\ \A j \in Pair(table, t, c) : j <= Newest(Pair(table, t, c))
    BY <1>2, <2>1, NewestOf
  <2> QED BY <1>2, <2>2 DEF Latest
<1> QED BY <1>1, <1>2

\* In a settled table the row in one of the states is the newest.
LEMMA OpenIsLatest ==
  ASSUME NEW n \in Nat, NEW table, DOMAIN table = 1 .. n, NEW states, Settled(table, states),
         NEW t, NEW c, NEW i \in Pair(table, t, c), table[i].status \in states
  PROVE  /\ Latest(table, t, c) = table[i].status
         /\ \A j \in Pair(table, t, c) : table[j].status \in states => j = i
<1>1. \A j \in Pair(table, t, c) : ~(i < j)
  BY DEF Pair, Settled
<1>2. \A j \in Pair(table, t, c) : j \in 1 .. n
  BY DEF Pair
<1>3. \A j \in Pair(table, t, c) : j <= i
  BY <1>1, <1>2
<1>4. \A j \in Pair(table, t, c) : j < i => table[j].status \notin states
  BY DEF Pair, Settled
<1> QED BY <1>2, <1>3, <1>4, LatestOf

LEMMA HasIsLatest ==
  ASSUME NEW n \in Nat, NEW table, DOMAIN table = 1 .. n, NEW states, Settled(table, states),
         "none" \notin states, NEW t, NEW c
  PROVE  Has(table, t, c, states) <=> Latest(table, t, c) \in states
<1>1. ASSUME Has(table, t, c, states) PROVE Latest(table, t, c) \in states
  BY <1>1, OpenIsLatest DEF Has
<1>2. ASSUME Latest(table, t, c) \in states PROVE Has(table, t, c, states)
  BY <1>2, LatestFrom DEF Has
<1> QED BY <1>1, <1>2

\* Rows are rewritten in place.
SameRows(table, new) ==
  /\ DOMAIN new = DOMAIN table
  /\ \A i \in DOMAIN table : new[i].turf = table[i].turf /\ new[i].canvasser = table[i].canvasser

LEMMA Rewritten ==
  ASSUME NEW n \in Nat, NEW table, DOMAIN table = 1 .. n, NEW new, SameRows(table, new),
         NEW t, NEW c
  PROVE  \/ Pair(table, t, c) = {} /\ Latest(table, t, c) = "none" /\ Latest(new, t, c) = "none"
         \/ \E i \in Pair(table, t, c) : /\ \A j \in Pair(table, t, c) : j <= i
                                         /\ Latest(table, t, c) = table[i].status
                                         /\ Latest(new, t, c) = new[i].status
<1>1. Pair(new, t, c) = Pair(table, t, c)
  BY DEF SameRows, Pair
<1>2. CASE Pair(table, t, c) = {}
  BY <1>1, <1>2 DEF Latest
<1>3. CASE Pair(table, t, c) # {}
  <2>1. PICK i \in Pair(table, t, c) : /\ \A j \in Pair(table, t, c) : j <= i
                                       /\ Latest(table, t, c) = table[i].status
    BY <1>3, LatestFrom
  <2>2. DOMAIN new = 1 .. n
    BY DEF SameRows
  <2>3. Latest(new, t, c) = new[i].status
    BY <1>1, <2>1, <2>2, LatestOf
  <2> QED BY <2>1, <2>3
<1> QED BY <1>2, <1>3

\* A row is added.
Added(table, new, n, row) ==
  /\ DOMAIN new = 1 .. n + 1
  /\ \A i \in 1 .. n : new[i] = table[i]
  /\ new[n + 1] = row

LEMMA AddedLatest ==
  ASSUME NEW n \in Nat, NEW table, DOMAIN table = 1 .. n, NEW new, NEW row,
         Added(table, new, n, row), NEW t, NEW c
  PROVE  Latest(new, t, c) = IF row.turf = t /\ row.canvasser = c THEN row.status
                                                                 ELSE Latest(table, t, c)
<1> DEFINE m == n + 1
<1>1. m \in Nat /\ DOMAIN new = 1 .. m /\ new[m] = row
  BY DEF Added
<1>2. CASE row.turf = t /\ row.canvasser = c
  <2>1. m \in Pair(new, t, c) /\ \A j \in Pair(new, t, c) : j <= m
    BY <1>1, <1>2 DEF Pair
  <2> QED BY <1>1, <1>2, <2>1, LatestOf
<1>3. CASE ~(row.turf = t /\ row.canvasser = c)
  <2>1. Pair(new, t, c) = Pair(table, t, c)
    <3>1. \A i \in DOMAIN new : i \in 1 .. n \/ i = m
      BY <1>1
    <3> QED BY <1>1, <1>3, <3>1 DEF Pair, Added
  <2>2. CASE Pair(table, t, c) = {}
    BY <1>3, <2>1, <2>2 DEF Latest
  <2>3. CASE Pair(table, t, c) # {}
    <3>1. PICK i \in Pair(table, t, c) : /\ \A j \in Pair(table, t, c) : j <= i
                                         /\ Latest(table, t, c) = table[i].status
      BY <2>3, LatestFrom
    <3>2. new[i] = table[i]
      BY <3>1 DEF Pair, Added
    <3>3. Latest(new, t, c) = new[i].status
      BY <1>1, <2>1, <3>1, LatestOf
    <3> QED BY <1>3, <3>1, <3>2, <3>3
  <2> QED BY <2>2, <2>3
<1> QED BY <1>2, <1>3

\* Tables stay settled when rows are rewritten and none gets into a state anew,
\* and when a row is added for a turf and a canvasser with no row in a state.
LEMMA RewrittenSettled ==
  ASSUME NEW table, NEW new, SameRows(table, new), NEW states, Settled(table, states),
         \A i \in DOMAIN table : new[i].status \in states => table[i].status \in states
  PROVE  Settled(new, states)
BY DEF Settled, SameRows

LEMMA AddedSettled ==
  ASSUME NEW n \in Nat, NEW table, DOMAIN table = 1 .. n, NEW new, NEW row,
         Added(table, new, n, row), NEW states, Settled(table, states),
         ~Has(table, row.turf, row.canvasser, states)
  PROVE  Settled(new, states)
<1>1. \A i, j \in DOMAIN new : i < j => i \in 1 .. n /\ (j \in 1 .. n \/ j = n + 1)
  BY DEF Added
<1> QED BY <1>1 DEF Settled, Added, Has, Pair

Replaced(table, new, row, next) ==
  /\ DOMAIN new = DOMAIN table
  /\ new[row] = next
  /\ \A i \in DOMAIN table \ {row} : new[i] = table[i]

\* A row in one of the states is rewritten: only its turf and canvasser see it.
LEMMA RowSet ==
  ASSUME NEW n \in Nat, NEW table, DOMAIN table = 1 .. n, NEW states, Settled(table, states),
         NEW t, NEW c, NEW row \in Pair(table, t, c), table[row].status \in states,
         NEW next, next.turf = t, next.canvasser = c, NEW new, Replaced(table, new, row, next)
  PROVE  /\ SameRows(table, new)
         /\ Settled(new, states)
         /\ \A u, d : Latest(new, u, d) = IF u = t /\ d = c THEN next.status
                                                          ELSE Latest(table, u, d)
<1>1. row \in DOMAIN table /\ table[row].turf = t /\ table[row].canvasser = c
  BY DEF Pair
<1>2. SameRows(table, new)
  BY <1>1 DEF SameRows, Replaced
<1>3. \A i \in DOMAIN table : i # row => new[i] = table[i]
  BY DEF Replaced
<1>4. new[row] = next
  BY DEF Replaced
<1>5. Settled(new, states)
  <2>1. \A i \in DOMAIN table : new[i].status \in states => table[i].status \in states
    BY <1>3
  <2> QED BY <1>2, <2>1, RewrittenSettled
<1>6. ASSUME NEW u, NEW d
      PROVE  Latest(new, u, d) = IF u = t /\ d = c THEN next.status ELSE Latest(table, u, d)
  <2>1. CASE u = t /\ d = c
    <3>1. \A j \in Pair(table, t, c) : j <= row
      <4>1. \A j \in Pair(table, t, c) : ~(row < j)
        BY DEF Pair, Settled
      <4> QED BY <1>1, <4>1 DEF Pair
    <3>2. Pair(new, t, c) = Pair(table, t, c)
      BY <1>2 DEF SameRows, Pair
    <3>3. DOMAIN new = 1 .. n
      BY <1>2 DEF SameRows
    <3>4. row \in Pair(new, t, c) /\ \A j \in Pair(new, t, c) : j <= row
      BY <3>1, <3>2
    <3>5. Latest(new, t, c) = new[row].status
      BY <3>3, <3>4, LatestOf
    <3> QED BY <1>4, <2>1, <3>5
  <2>2. CASE ~(u = t /\ d = c)
    <3>1. row \notin Pair(table, u, d)
      BY <1>1, <2>2 DEF Pair
    <3>2. \A i \in Pair(table, u, d) : new[i] = table[i]
      BY <1>3, <3>1 DEF Pair
    <3>3. Latest(new, u, d) = Latest(table, u, d)
      BY <1>2, <3>2, Rewritten
    <3> QED BY <2>2, <3>3
  <2> QED BY <2>1, <2>2
<1> QED BY <1>2, <1>5, <1>6

\* Rows of some turfs and canvassers that are in one of the states are closed.
Closed(table, new, states, pairs, closed) ==
  /\ DOMAIN new = DOMAIN table
  /\ \A i \in DOMAIN table :
       IF <<table[i].turf, table[i].canvasser>> \in pairs /\ table[i].status \in states
       THEN /\ new[i].turf = table[i].turf /\ new[i].canvasser = table[i].canvasser
            /\ new[i].status = closed
       ELSE new[i] = table[i]

LEMMA ClosedLatest ==
  ASSUME NEW n \in Nat, NEW table, DOMAIN table = 1 .. n, NEW states, Settled(table, states),
         NEW new, NEW pairs, NEW closed, closed \notin states, "none" \notin states,
         Closed(table, new, states, pairs, closed)
  PROVE  /\ SameRows(table, new)
         /\ Settled(new, states)
         /\ \A u, d : Latest(new, u, d) =
              IF <<u, d>> \in pairs /\ Latest(table, u, d) \in states THEN closed
                                                                     ELSE Latest(table, u, d)
         /\ \A u, d : <<u, d>> \in pairs => ~Has(new, u, d, states)
<1>1. SameRows(table, new)
  BY DEF SameRows, Closed
<1>2. Settled(new, states)
  <2>1. \A i \in DOMAIN table : new[i].status \in states => table[i].status \in states
    BY DEF Closed
  <2> QED BY <1>1, <2>1, RewrittenSettled
<1>3. ASSUME NEW u, NEW d
      PROVE  Latest(new, u, d) = IF <<u, d>> \in pairs /\ Latest(table, u, d) \in states
                                 THEN closed ELSE Latest(table, u, d)
  <2>1. CASE Latest(table, u, d) = "none" /\ Latest(new, u, d) = "none"
    BY <2>1
  <2>2. ASSUME NEW i \in Pair(table, u, d), Latest(table, u, d) = table[i].status,
               Latest(new, u, d) = new[i].status
        PROVE  Latest(new, u, d) = IF <<u, d>> \in pairs /\ Latest(table, u, d) \in states
                                   THEN closed ELSE Latest(table, u, d)
    <3>1. i \in DOMAIN table /\ table[i].turf = u /\ table[i].canvasser = d
      BY DEF Pair
    <3>2. IF <<u, d>> \in pairs /\ table[i].status \in states
          THEN new[i].status = closed ELSE new[i] = table[i]
      BY <3>1 DEF Closed
    <3> QED BY <2>2, <3>2
  <2> QED BY <1>1, <2>1, <2>2, Rewritten
<1>4. \A u, d : <<u, d>> \in pairs => ~Has(new, u, d, states)
  BY DEF Closed, Has, Pair
<1> QED BY <1>1, <1>2, <1>3, <1>4

----------------------------------------------------------------------------
(* The tables, whatever is being worked on.                                *)

Held == {"assigned", "active"}
Live == {"active", "paused"}

AssignmentRow == [turf : Turfs, canvasser : Canvassers, status : Lifecycle!AssignmentStatus]
SessionRow == [turf : Turfs, canvasser : Canvassers, status : Lifecycle!SessionStatus,
               open : BOOLEAN]

\* Of a turf and a canvasser only the newest assignment and the newest session
\* can be open, and a session is open as long as it is active or paused.
Tables ==
  /\ status \in [Turfs -> Lifecycle!TurfStatus]
  /\ deleted \subseteq Turfs
  /\ account \in [Canvassers -> Lifecycle!AccountStatus]
  /\ assignments \in Seq(AssignmentRow) /\ sessions \in Seq(SessionRow)
  /\ Settled(assignments, Held)
  /\ Settled(sessions, Live)
  /\ \A i \in DOMAIN sessions : sessions[i].open <=> sessions[i].status \in Live

LEMMA Ranges ==
  ASSUME Tables
  PROVE  /\ Len(assignments) \in Nat /\ DOMAIN assignments = 1 .. Len(assignments)
         /\ Len(sessions) \in Nat /\ DOMAIN sessions = 1 .. Len(sessions)
         /\ \A i \in DOMAIN assignments : assignments[i] \in AssignmentRow
         /\ \A i \in DOMAIN sessions : sessions[i] \in SessionRow
BY DEF Tables

\* What TurfLifecycle sees of the tables.
LEMMA Shown ==
  \A t \in Turfs, c \in Canvassers :
    /\ LatestAssignment(t, c) = Latest(assignments, t, c)
    /\ LatestSession(t, c) = Latest(sessions, t, c)
BY DEF LatestAssignment, LatestSession, Latest, Pair, Rows

LEMMA SameView ==
  ASSUME Tables, NEW t \in Turfs, NEW c \in Canvassers
  PROVE  /\ Lifecycle!Holds(t, c) <=> OpenAssignments(t, c) # {}
         /\ Lifecycle!Working(t, c) <=> OpenSessions(t, c) # {}
         /\ Lifecycle!Holds(t, c) <=> Latest(assignments, t, c) \in Held
         /\ Lifecycle!Working(t, c) <=> Latest(sessions, t, c) \in Live
<1>1. Has(assignments, t, c, Held) <=> Latest(assignments, t, c) \in Held
  <2>1. "none" \notin Held
    BY DEF Held
  <2> QED BY <2>1, Ranges, HasIsLatest DEF Tables
<1>2. Has(sessions, t, c, Live) <=> Latest(sessions, t, c) \in Live
  <2>1. "none" \notin Live
    BY DEF Live
  <2> QED BY <2>1, Ranges, HasIsLatest DEF Tables
<1>3. Has(assignments, t, c, Held) <=> OpenAssignments(t, c) # {}
  BY DEF Has, Pair, OpenAssignments, Rows, Held
<1>4. Has(sessions, t, c, Live) <=> OpenSessions(t, c) # {}
  BY DEF Has, Pair, OpenSessions, Rows, Live, Tables
<1>5. Lifecycle!Holds(t, c) <=> Latest(assignments, t, c) \in Held
  BY Shown DEF Lifecycle!Holds, Held
<1>6. Lifecycle!Working(t, c) <=> Latest(sessions, t, c) \in Live
  BY Shown DEF Lifecycle!Working, Live
<1> QED BY <1>1, <1>2, <1>3, <1>4, <1>5, <1>6

LEMMA SameGuards ==
  ASSUME Tables
  PROVE  /\ \A t \in Turfs : Lifecycle!InUse(t) <=> InUse(t)
         /\ \A t \in Turfs : Lifecycle!Scoped(t) <=> Scoped(t)
         /\ \A t \in Turfs, c \in Canvassers :
              /\ Lifecycle!NoCrossTurfOpenSession(t, c) <=> NoCrossTurfOpenSession(t, c)
              /\ Lifecycle!NoCrossTurfOpenSession(t, c) /\ Lifecycle!TurfSessionAvailable(t, c)
                   <=> SessionAvailable(t, c)
         /\ \A c \in Canvassers : Lifecycle!Idle(c) <=> Idle(c)
<1>1. \A t \in Turfs : Lifecycle!InUse(t) <=> InUse(t)
  BY SameView DEF Lifecycle!InUse, InUse
<1>2. \A t \in Turfs : Lifecycle!Scoped(t) <=> Scoped(t)
  BY DEF Lifecycle!Scoped, Scoped
<1>3. \A t \in Turfs, c \in Canvassers :
        Lifecycle!NoCrossTurfOpenSession(t, c) <=> NoCrossTurfOpenSession(t, c)
  BY SameView DEF Lifecycle!NoCrossTurfOpenSession, NoCrossTurfOpenSession
<1>4. \A t \in Turfs, c \in Canvassers :
        Lifecycle!TurfSessionAvailable(t, c)
          <=> t \in SharedTurfs \/ \A d \in Canvassers \ {c} : OpenSessions(t, d) = {}
  BY SameView DEF Lifecycle!TurfSessionAvailable
<1>5. \A c \in Canvassers : Lifecycle!Idle(c) <=> Idle(c)
  BY SameView DEF Lifecycle!Idle, Idle
<1> QED BY <1>1, <1>2, <1>3, <1>4, <1>5 DEF SessionAvailable

\* What TurfLifecycle keeps of a table.
View(table) == [t \in Turfs |-> [c \in Canvassers |-> Latest(table, t, c)]]

LEMMA Views ==
  /\ [t \in Turfs |-> [c \in Canvassers |-> LatestAssignment(t, c)]] = View(assignments)
  /\ [t \in Turfs |-> [c \in Canvassers |-> LatestSession(t, c)]] = View(sessions)
BY Shown DEF View

LEMMA ViewsNext ==
  /\ [t \in Turfs |-> [c \in Canvassers |-> LatestAssignment(t, c)]]' = View(assignments')
  /\ [t \in Turfs |-> [c \in Canvassers |-> LatestSession(t, c)]]' = View(sessions')
BY DEF LatestAssignment, LatestSession, Latest, Pair, Rows, View

\* One cell of it changes.
Cell(table, t, c, value) == [View(table) EXCEPT ![t][c] = value]

LEMMA OneCell ==
  ASSUME NEW table, NEW new, NEW t \in Turfs, NEW c \in Canvassers, NEW value,
         \A u \in Turfs, d \in Canvassers :
           Latest(new, u, d) = IF u = t /\ d = c THEN value ELSE Latest(table, u, d)
  PROVE  View(new) = Cell(table, t, c, value)
BY DEF View, Cell

LEMMA RowSetView ==
  ASSUME NEW n \in Nat, NEW table, DOMAIN table = 1 .. n, NEW states, Settled(table, states),
         NEW t \in Turfs, NEW c \in Canvassers, NEW row \in Pair(table, t, c),
         table[row].status \in states, NEW next, next.turf = t, next.canvasser = c,
         NEW new, Replaced(table, new, row, next)
  PROVE  Settled(new, states) /\ View(new) = Cell(table, t, c, next.status)
<1>1. /\ Settled(new, states)
      /\ \A u, d : Latest(new, u, d) = IF u = t /\ d = c THEN next.status ELSE Latest(table, u, d)
  BY RowSet
<1> QED BY <1>1, OneCell

----------------------------------------------------------------------------
(* The commits. *)

\* An open assignment becomes active.
LEMMA AssignmentActive ==
  ASSUME Tables, NEW t \in Turfs, NEW c \in Canvassers, NEW row \in OpenAssignments(t, c),
         assignments' = [assignments EXCEPT ![row].status = "active"]
  PROVE  /\ assignments' \in Seq(AssignmentRow) /\ Settled(assignments', Held)
         /\ View(assignments') = Cell(assignments, t, c, "active")
<1> DEFINE active == [assignments[row] EXCEPT !.status = "active"]
<1>1. /\ row \in DOMAIN assignments /\ assignments[row] \in AssignmentRow
      /\ assignments[row].turf = t /\ assignments[row].canvasser = c
      /\ assignments[row].status \in Held /\ row \in Pair(assignments, t, c)
  BY Ranges DEF OpenAssignments, Rows, Held, Pair
<1>2. active \in AssignmentRow /\ active.turf = t /\ active.canvasser = c /\ active.status = "active"
  BY <1>1 DEF AssignmentRow, Lifecycle!AssignmentStatus
<1>3. assignments' = [assignments EXCEPT ![row] = active]
  OBVIOUS
<1> HIDE DEF active
<1>4. assignments' \in Seq(AssignmentRow)
  BY <1>1, <1>2, <1>3 DEF Tables
<1>5. Replaced(assignments, assignments', row, active)
  BY <1>1, <1>3 DEF Replaced
<1>6. Settled(assignments, Held) /\ Len(assignments) \in Nat /\ DOMAIN assignments = 1 .. Len(assignments)
  BY Ranges DEF Tables
<1>7. ASSUME NEW new, Replaced(assignments, new, row, active)
      PROVE  Settled(new, Held) /\ View(new) = Cell(assignments, t, c, "active")
  BY <1>1, <1>2, <1>6, <1>7, RowSetView
<1> QED BY <1>4, <1>5, <1>7

\* An open session is rewritten.
LEMMA SessionSet ==
  ASSUME Tables, NEW t \in Turfs, NEW c \in Canvassers, NEW sess \in OpenSessions(t, c),
         NEW next \in SessionRow, next.turf = t, next.canvasser = c,
         next.open <=> next.status \in Live,
         sessions' = [sessions EXCEPT ![sess] = next]
  PROVE  /\ sessions' \in Seq(SessionRow) /\ Settled(sessions', Live)
         /\ \A i \in DOMAIN sessions' : sessions'[i].open <=> sessions'[i].status \in Live
         /\ View(sessions') = Cell(sessions, t, c, next.status)
<1>1. /\ sess \in DOMAIN sessions /\ sessions[sess] \in SessionRow
      /\ sess \in Pair(sessions, t, c) /\ sessions[sess].status \in Live
  BY Ranges DEF OpenSessions, Rows, Pair, Tables
<1>2. sessions' \in Seq(SessionRow)
  BY <1>1 DEF Tables
<1>3. Replaced(sessions, sessions', sess, next)
  BY <1>1 DEF Replaced
<1>4. Settled(sessions, Live) /\ Len(sessions) \in Nat /\ DOMAIN sessions = 1 .. Len(sessions)
  BY Ranges DEF Tables
<1>5. ASSUME NEW new, Replaced(sessions, new, sess, next)
      PROVE  Settled(new, Live) /\ View(new) = Cell(sessions, t, c, next.status)
  BY <1>1, <1>4, <1>5, RowSetView
<1>6. \A i \in DOMAIN sessions' : sessions'[i].open <=> sessions'[i].status \in Live
  <2>1. \A i \in DOMAIN sessions : sessions[i].open <=> sessions[i].status \in Live
    BY DEF Tables
  <2> QED BY <1>3, <2>1 DEF Replaced
<1> QED BY <1>2, <1>3, <1>5, <1>6

\* The open assignments of some turfs and canvassers are closed.
Chosen(rows, pairs) ==
  \A i \in DOMAIN assignments :
    i \in rows <=> <<assignments[i].turf, assignments[i].canvasser>> \in pairs

WithoutOpen(new, pairs, closed) ==
  /\ new \in Seq(AssignmentRow) /\ Settled(new, Held)
  /\ DOMAIN new = DOMAIN assignments /\ Len(new) = Len(assignments)
  /\ \A u, d : Latest(new, u, d) =
       IF <<u, d>> \in pairs /\ Latest(assignments, u, d) \in Held THEN closed
                                                          ELSE Latest(assignments, u, d)
  /\ \A u, d : <<u, d>> \in pairs => ~Has(new, u, d, Held)

LEMMA AssignmentsClosed ==
  ASSUME Tables, NEW rows, NEW pairs, Chosen(rows, pairs),
         NEW closed \in Lifecycle!AssignmentStatus, closed \notin Held
  PROVE  WithoutOpen(Close(rows, closed), pairs, closed)
<1> DEFINE new == Close(rows, closed)
           n == Len(assignments)
<1>1. n \in Nat /\ DOMAIN assignments = 1 .. n /\ \A i \in DOMAIN assignments : assignments[i] \in AssignmentRow
  BY Ranges
<1>2. new = [i \in 1 .. n |-> IF i \in rows /\ assignments[i].status \in Held
                              THEN [assignments[i] EXCEPT !.status = closed] ELSE assignments[i]]
  BY <1>1 DEF Close, Rows, Held
<1>3. \A i \in 1 .. n : [assignments[i] EXCEPT !.status = closed] \in AssignmentRow
  BY <1>1 DEF AssignmentRow
<1>4. \A i \in 1 .. n : new[i] \in AssignmentRow
  BY <1>1, <1>2, <1>3
<1>5. new \in Seq(AssignmentRow) /\ DOMAIN new = 1 .. n
  BY <1>1, <1>2, <1>4
<1>6. Len(new) = n
  BY <1>1, <1>5
<1>7. Closed(assignments, new, Held, pairs, closed)
  <2> SUFFICES ASSUME NEW i \in DOMAIN assignments
               PROVE  IF <<assignments[i].turf, assignments[i].canvasser>> \in pairs
                         /\ assignments[i].status \in Held
                      THEN /\ new[i].turf = assignments[i].turf
                           /\ new[i].canvasser = assignments[i].canvasser
                           /\ new[i].status = closed
                      ELSE new[i] = assignments[i]
    BY <1>1, <1>5 DEF Closed
  <2>1. new[i] = IF i \in rows /\ assignments[i].status \in Held
                 THEN [assignments[i] EXCEPT !.status = closed] ELSE assignments[i]
    BY <1>1, <1>2
  <2> HIDE DEF new
  <2> QED BY <1>1, <2>1 DEF AssignmentRow, Chosen
<1>8. Settled(assignments, Held) /\ "none" \notin Held
  BY DEF Tables, Held
<1> HIDE DEF new
<1>9. WithoutOpen(new, pairs, closed)
  BY <1>1, <1>5, <1>6, <1>7, <1>8, ClosedLatest DEF WithoutOpen
<1> QED BY <1>9 DEF new

----------------------------------------------------------------------------
(* Each commit, after its checks, is a step of TurfLifecycle and keeps the *)
(* tables.                                                                 *)

StartChecked(t, c, row) ==
  SessionAvailable(t, c) /\ OpenSessions(t, c) = {} /\ row \in OpenAssignments(t, c)

LEMMA StartSteps ==
  ASSUME Tables, NEW t \in Turfs, NEW c \in Canvassers, NEW row, StartChecked(t, c, row),
         CommitStart(t, c, row)
  PROVE  Tables' /\ Lifecycle!StartSession(t, c)
<1> DEFINE next == [turf |-> t, canvasser |-> c, status |-> "active", open |-> TRUE]
           n == Len(sessions)
<1>1. /\ assignments' \in Seq(AssignmentRow) /\ Settled(assignments', Held)
      /\ View(assignments') = Cell(assignments, t, c, "active")
  BY AssignmentActive DEF StartChecked, CommitStart
<1>2. next \in SessionRow /\ next.turf = t /\ next.canvasser = c /\ next.status = "active" /\ next.open = TRUE
  BY DEF SessionRow, Lifecycle!SessionStatus
<1>3. sessions' = Append(sessions, next)
  BY DEF CommitStart
<1> HIDE DEF next
<1>4. sessions' \in Seq(SessionRow) /\ Added(sessions, sessions', n, next)
  BY <1>2, <1>3 DEF Added, Tables
<1>5. ~Has(sessions, t, c, Live)
  BY DEF StartChecked, Has, Pair, OpenSessions, Rows, Tables
<1>6. /\ Settled(sessions', Live)
      /\ \A u, d : Latest(sessions', u, d) = IF t = u /\ c = d THEN "active" ELSE Latest(sessions, u, d)
  <2>1. Settled(sessions, Live) /\ n \in Nat /\ DOMAIN sessions = 1 .. n
    BY Ranges DEF Tables
  <2> HIDE DEF n
  <2>2. \A new : Added(sessions, new, n, next) =>
          /\ Settled(new, Live)
          /\ \A u, d : Latest(new, u, d) = IF t = u /\ c = d THEN "active" ELSE Latest(sessions, u, d)
    BY <1>2, <1>5, <2>1, AddedSettled, AddedLatest
  <2> QED BY <1>4, <2>2
<1>7. View(sessions') = Cell(sessions, t, c, "active")
  BY <1>6, OneCell
<1>8. \A i \in DOMAIN sessions' : sessions'[i].open <=> sessions'[i].status \in Live
  <2>1. "active" \in Live
    BY DEF Live
  <2>2. \A i \in DOMAIN sessions' : i \in DOMAIN sessions \/ i = n + 1
    BY <1>4, Ranges DEF Added
  <2>3. \A i \in DOMAIN sessions : sessions'[i] = sessions[i]
    BY <1>4, Ranges DEF Added
  <2> QED BY <1>2, <1>4, <2>1, <2>2, <2>3 DEF Added, Tables
<1>9. Tables'
  <2>1. UNCHANGED <<deleted, account>> /\ status' \in [Turfs -> Lifecycle!TurfStatus]
    BY DEF CommitStart, SetTurf, Tables, Lifecycle!TurfStatus
  <2> QED BY <1>1, <1>4, <1>6, <1>8, <2>1 DEF Tables
<1>10. Lifecycle!StartSession(t, c)
  <2>1. /\ Lifecycle!HasAssignment(t, c) /\ Lifecycle!NoCrossTurfOpenSession(t, c)
        /\ Lifecycle!TurfSessionAvailable(t, c) /\ ~Lifecycle!Working(t, c)
    BY SameView, SameGuards DEF StartChecked, Lifecycle!HasAssignment
  <2>2. status' = [status EXCEPT ![t] = "in_progress"] /\ UNCHANGED <<deleted, account>>
    BY DEF CommitStart, SetTurf
  <2> QED BY <1>1, <1>7, <2>1, <2>2, Views, ViewsNext DEF Lifecycle!StartSession, Cell
<1> QED BY <1>9, <1>10

LEMMA PauseSteps ==
  ASSUME Tables, NEW t \in Turfs, NEW c \in Canvassers,
         NEW sess \in OpenSessionsIn(t, c, "active"), CommitPause(t, sess)
  PROVE  Tables' /\ Lifecycle!PauseSession(t, c)
<1> DEFINE next == [sessions[sess] EXCEPT !.status = "paused"]
<1>1. /\ sess \in DOMAIN sessions /\ sess \in Pair(sessions, t, c) /\ sess \in OpenSessions(t, c)
      /\ sessions[sess] \in SessionRow /\ sessions[sess].status = "active" /\ sessions[sess].open = TRUE
      /\ sessions[sess].turf = t /\ sessions[sess].canvasser = c
  BY Ranges DEF OpenSessionsIn, OpenSessions, Rows, Pair, Tables, SessionRow
<1>2. next \in SessionRow /\ next.turf = t /\ next.canvasser = c /\ next.status = "paused" /\ next.open = TRUE
  BY <1>1 DEF SessionRow, Lifecycle!SessionStatus
<1>3. sessions' = [sessions EXCEPT ![sess] = next]
  BY DEF CommitPause
<1> HIDE DEF next
<1>4. next.open <=> next.status \in Live
  BY <1>2 DEF Live
<1>5. /\ sessions' \in Seq(SessionRow) /\ Settled(sessions', Live)
      /\ \A i \in DOMAIN sessions' : sessions'[i].open <=> sessions'[i].status \in Live
      /\ View(sessions') = Cell(sessions, t, c, next.status)
  BY <1>1, <1>2, <1>3, <1>4, SessionSet
<1>6. Tables'
  <2>1. UNCHANGED <<deleted, account, assignments>> /\ status' \in [Turfs -> Lifecycle!TurfStatus]
    BY DEF CommitPause, SetTurf, Tables, Lifecycle!TurfStatus
  <2> QED BY <1>5, <2>1 DEF Tables
<1>7. Lifecycle!PauseSession(t, c)
  <2>1. LatestSession(t, c) = "active"
    <3>1. Settled(sessions, Live) /\ sessions[sess].status \in Live
      BY <1>1 DEF Tables, Live
    <3>2. Latest(sessions, t, c) = sessions[sess].status
      BY <1>1, <3>1, Ranges, OpenIsLatest
    <3> QED BY <1>1, <3>2, Shown
  <2>2. status' = [status EXCEPT ![t] = "paused"] /\ UNCHANGED <<deleted, account, assignments>>
    BY DEF CommitPause, SetTurf
  <2>3. View(assignments') = View(assignments)
    BY <2>2
  <2> QED BY <1>2, <1>5, <2>1, <2>2, <2>3, Views, ViewsNext DEF Lifecycle!PauseSession, Cell
<1> QED BY <1>6, <1>7

ResumeChecked(t, c, row, sess) ==
  /\ SessionAvailable(t, c)
  /\ row \in OpenAssignments(t, c) /\ sess \in OpenSessionsIn(t, c, "paused")

LEMMA ResumeSteps ==
  ASSUME Tables, NEW t \in Turfs, NEW c \in Canvassers, NEW row, NEW sess,
         ResumeChecked(t, c, row, sess), CommitResume(t, row, sess)
  PROVE  Tables' /\ Lifecycle!ResumeSession(t, c)
<1> DEFINE next == [sessions[sess] EXCEPT !.status = "active"]
<1>1. /\ sess \in DOMAIN sessions /\ sess \in Pair(sessions, t, c) /\ sess \in OpenSessions(t, c)
      /\ sessions[sess] \in SessionRow /\ sessions[sess].status = "paused" /\ sessions[sess].open = TRUE
      /\ sessions[sess].turf = t /\ sessions[sess].canvasser = c
  BY Ranges DEF ResumeChecked, OpenSessionsIn, OpenSessions, Rows, Pair, Tables, SessionRow
<1>2. next \in SessionRow /\ next.turf = t /\ next.canvasser = c /\ next.status = "active" /\ next.open = TRUE
  BY <1>1 DEF SessionRow, Lifecycle!SessionStatus
<1>3. sessions' = [sessions EXCEPT ![sess] = next]
  BY DEF CommitResume
<1> HIDE DEF next
<1>4. next.open <=> next.status \in Live
  BY <1>2 DEF Live
<1>5. /\ sessions' \in Seq(SessionRow) /\ Settled(sessions', Live)
      /\ \A i \in DOMAIN sessions' : sessions'[i].open <=> sessions'[i].status \in Live
      /\ View(sessions') = Cell(sessions, t, c, next.status)
  BY <1>1, <1>2, <1>3, <1>4, SessionSet
<1>6. /\ assignments' \in Seq(AssignmentRow) /\ Settled(assignments', Held)
      /\ View(assignments') = Cell(assignments, t, c, "active")
  BY AssignmentActive DEF ResumeChecked, CommitResume
<1>7. Tables'
  <2>1. UNCHANGED <<deleted, account>> /\ status' \in [Turfs -> Lifecycle!TurfStatus]
    BY DEF CommitResume, SetTurf, Tables, Lifecycle!TurfStatus
  <2> QED BY <1>5, <1>6, <2>1 DEF Tables
<1>8. Lifecycle!ResumeSession(t, c)
  <2>1. LatestSession(t, c) = "paused"
    <3>1. Settled(sessions, Live) /\ sessions[sess].status \in Live
      BY <1>1 DEF Tables, Live
    <3>2. Latest(sessions, t, c) = sessions[sess].status
      BY <1>1, <3>1, Ranges, OpenIsLatest
    <3> QED BY <1>1, <3>2, Shown
  <2>2. /\ Lifecycle!HasAssignment(t, c) /\ Lifecycle!NoCrossTurfOpenSession(t, c)
        /\ Lifecycle!TurfSessionAvailable(t, c)
    BY SameView, SameGuards DEF ResumeChecked, Lifecycle!HasAssignment
  <2>3. status' = [status EXCEPT ![t] = "in_progress"] /\ UNCHANGED <<deleted, account>>
    BY DEF CommitResume, SetTurf
  <2> QED BY <1>2, <1>5, <1>6, <2>1, <2>2, <2>3, Views, ViewsNext DEF Lifecycle!ResumeSession, Cell
<1> QED BY <1>7, <1>8

AssignChecked(t, c) ==
  /\ Scoped(t) /\ account[c] = "active"
  /\ NoCrossTurfOpenSession(t, c)
  /\ InUse(t) => OpenSessions(t, c) # {}

LEMMA AssignSteps ==
  ASSUME Tables, NEW t \in Turfs, NEW c \in Canvassers, AssignChecked(t, c), CommitAssign(t, c)
  PROVE  Tables' /\ Lifecycle!AssignTurf(t, c)
<1> DEFINE next == [turf |-> t, canvasser |-> c, status |-> "assigned"]
           rows == TurfRows(t) \cup CanvasserRows(c)
           pairs == {p \in Turfs \X Canvassers : p[1] = t \/ p[2] = c}
           kept == Close(rows, "removed")
           n == Len(assignments)
<1>1. Chosen(rows, pairs)
  BY Ranges DEF Chosen, TurfRows, CanvasserRows, Rows, AssignmentRow
<1>2. \A u \in Turfs, d \in Canvassers : <<u, d>> \in pairs <=> u = t \/ d = c
  OBVIOUS
<1>3. assignments' = Append(kept, next)
  BY DEF CommitAssign
<1>4. next \in AssignmentRow /\ next.turf = t /\ next.canvasser = c /\ next.status = "assigned"
  BY DEF AssignmentRow, Lifecycle!AssignmentStatus
<1> HIDE DEF rows, pairs, next
<1>5. WithoutOpen(kept, pairs, "removed")
  <2>1. "removed" \in Lifecycle!AssignmentStatus /\ "removed" \notin Held
    BY DEF Lifecycle!AssignmentStatus, Held
  <2> QED BY <1>1, <2>1, AssignmentsClosed
<1> HIDE DEF kept
<1>6. n \in Nat /\ DOMAIN kept = 1 .. n
  BY <1>5, Ranges DEF WithoutOpen
<1>7. assignments' \in Seq(AssignmentRow) /\ Added(kept, assignments', n, next)
  BY <1>3, <1>4, <1>5, <1>6 DEF Added, WithoutOpen
<1> HIDE DEF n
<1>8. \A new : Added(kept, new, n, next) =>
        /\ Settled(new, Held)
        /\ \A u, d : Latest(new, u, d) = IF t = u /\ c = d THEN "assigned" ELSE Latest(kept, u, d)
  <2>1. Settled(kept, Held) /\ ~Has(kept, next.turf, next.canvasser, Held)
    BY <1>2, <1>4, <1>5 DEF WithoutOpen
  <2> QED BY <1>4, <1>6, <2>1, AddedSettled, AddedLatest
<1>9. Tables'
  <2>1. UNCHANGED <<deleted, account, sessions>> /\ status' \in [Turfs -> Lifecycle!TurfStatus]
    BY DEF CommitAssign, SetTurf, Tables, Lifecycle!TurfStatus
  <2> QED BY <1>7, <1>8, <2>1 DEF Tables
<1>10. Lifecycle!AssignTurf(t, c)
  <2>1. /\ Lifecycle!Scoped(t) /\ account[c] = "active" /\ Lifecycle!NoCrossTurfOpenSession(t, c)
        /\ Lifecycle!OpenSessionAllows(t, c)
    BY SameView, SameGuards DEF AssignChecked, Lifecycle!OpenSessionAllows
  <2>2. status' = [status EXCEPT ![t] = "assigned"] /\ UNCHANGED <<deleted, account, sessions>>
    BY DEF CommitAssign, SetTurf
  <2>3. \A u \in Turfs, d \in Canvassers :
          Lifecycle!Superseded(t, c, u, d) <=> <<u, d>> \in pairs /\ Latest(assignments, u, d) \in Held
    BY <1>2, SameView DEF Lifecycle!Superseded
  <2>4. \A u \in Turfs, d \in Canvassers :
          Latest(assignments', u, d) = IF u = t /\ d = c THEN "assigned"
                                       ELSE IF Lifecycle!Superseded(t, c, u, d) THEN "removed"
                                       ELSE View(assignments)[u][d]
    <3>1. \A u \in Turfs, d \in Canvassers : View(assignments)[u][d] = Latest(assignments, u, d)
      BY DEF View
    <3>2. \A u, d : Latest(assignments', u, d) = IF t = u /\ c = d THEN "assigned" ELSE Latest(kept, u, d)
      BY <1>7, <1>8
    <3>3. \A u, d : Latest(kept, u, d) =
            IF <<u, d>> \in pairs /\ Latest(assignments, u, d) \in Held THEN "removed"
                                                               ELSE Latest(assignments, u, d)
      BY <1>5 DEF WithoutOpen
    <3> SUFFICES ASSUME NEW u \in Turfs, NEW d \in Canvassers
                 PROVE  Latest(assignments', u, d) = IF u = t /\ d = c THEN "assigned"
                                       ELSE IF Lifecycle!Superseded(t, c, u, d) THEN "removed"
                                       ELSE View(assignments)[u][d]
      OBVIOUS
    <3>4. CASE u = t /\ d = c
      BY <3>2, <3>4
    <3>5. CASE ~(u = t /\ d = c)
      <4>1. Latest(assignments', u, d) = Latest(kept, u, d)
        BY <3>2, <3>5
      <4>2. View(assignments)[u][d] = Latest(assignments, u, d)
        BY <3>1
      <4>3. CASE Lifecycle!Superseded(t, c, u, d)
        BY <2>3, <3>3, <3>5, <4>1, <4>3
      <4>4. CASE ~Lifecycle!Superseded(t, c, u, d)
        BY <2>3, <3>3, <3>5, <4>1, <4>2, <4>4
      <4> QED BY <4>3, <4>4
    <3> QED BY <3>4, <3>5
  <2>5. View(assignments') = [u \in Turfs |-> [d \in Canvassers |->
                                IF u = t /\ d = c THEN "assigned"
                                ELSE IF Lifecycle!Superseded(t, c, u, d) THEN "removed"
                                ELSE View(assignments)[u][d]]]
    BY <2>4 DEF View
  <2>6. View(sessions') = View(sessions)
    BY <2>2
  <2> QED BY <2>1, <2>2, <2>5, <2>6, Views, ViewsNext DEF Lifecycle!AssignTurf
<1> QED BY <1>9, <1>10

\* A turf has open work when TurfLifecycle finds some among its canvassers.
OpenWork(asg, ses, t) ==
  \/ \E i \in DOMAIN ses : ses[i].turf = t /\ ses[i].open
  \/ \E i \in DOMAIN asg : asg[i].turf = t /\ asg[i].status \in Held

LEMMA OpenWorkShown ==
  ASSUME NEW asg \in Seq(AssignmentRow), NEW ses \in Seq(SessionRow), NEW t \in Turfs,
         Settled(asg, Held), Settled(ses, Live),
         \A i \in DOMAIN ses : ses[i].open <=> ses[i].status \in Live
  PROVE  OpenWork(asg, ses, t)
           <=> \E d \in Canvassers : Latest(ses, t, d) \in Live \/ Latest(asg, t, d) \in Held
<1>1. /\ \A i \in DOMAIN asg : asg[i] \in AssignmentRow
      /\ \A i \in DOMAIN ses : ses[i] \in SessionRow
  OBVIOUS
<1>2. /\ Len(asg) \in Nat /\ DOMAIN asg = 1 .. Len(asg)
      /\ Len(ses) \in Nat /\ DOMAIN ses = 1 .. Len(ses)
      /\ "none" \notin Held /\ "none" \notin Live
  BY DEF Held, Live
<1>3. \A d \in Canvassers : /\ Has(asg, t, d, Held) <=> Latest(asg, t, d) \in Held
                            /\ Has(ses, t, d, Live) <=> Latest(ses, t, d) \in Live
  BY <1>2, HasIsLatest
<1>4. (\E i \in DOMAIN ses : ses[i].turf = t /\ ses[i].open) <=> \E d \in Canvassers : Has(ses, t, d, Live)
  BY <1>1 DEF Has, Pair, SessionRow
<1>5. (\E i \in DOMAIN asg : asg[i].turf = t /\ asg[i].status \in Held)
        <=> \E d \in Canvassers : Has(asg, t, d, Held)
  BY <1>1 DEF Has, Pair, AssignmentRow
<1> QED BY <1>3, <1>4, <1>5 DEF OpenWork

LEMMA CompleteSteps ==
  ASSUME Tables, NEW t \in Turfs, NEW c \in Canvassers, NEW sess \in OpenSessions(t, c),
         CommitComplete(t, c, sess)
  PROVE  Tables' /\ Lifecycle!CompleteSession(t, c)
<1> DEFINE next == [sessions[sess] EXCEPT !.status = "ended", !.open = FALSE]
           rows == TurfRows(t) \cap CanvasserRows(c)
           pairs == {<<t, c>>}
<1>1. /\ sess \in DOMAIN sessions /\ sessions[sess] \in SessionRow
      /\ sessions[sess].turf = t /\ sessions[sess].canvasser = c
  BY Ranges DEF OpenSessions, Rows
<1>2. next \in SessionRow /\ next.turf = t /\ next.canvasser = c /\ next.status = "ended" /\ next.open = FALSE
  BY <1>1 DEF SessionRow, Lifecycle!SessionStatus
<1>3. sessions' = [sessions EXCEPT ![sess] = next]
  BY <1>1 DEF CommitComplete, Ended, SessionRow
<1> HIDE DEF next
<1>4. next.open <=> next.status \in Live
  BY <1>2 DEF Live
<1>5. /\ sessions' \in Seq(SessionRow) /\ Settled(sessions', Live)
      /\ \A i \in DOMAIN sessions' : sessions'[i].open <=> sessions'[i].status \in Live
      /\ View(sessions') = Cell(sessions, t, c, next.status)
  BY <1>1, <1>2, <1>3, <1>4, SessionSet
<1>6. Chosen(rows, pairs)
  BY DEF Chosen, TurfRows, CanvasserRows, Rows
<1> HIDE DEF rows
<1>7. WithoutOpen(assignments', pairs, "completed")
  <2>1. "completed" \in Lifecycle!AssignmentStatus /\ "completed" \notin Held
    BY DEF Lifecycle!AssignmentStatus, Held
  <2>2. assignments' = Close(rows, "completed")
    BY DEF CommitComplete, rows
  <2> HIDE DEF pairs
  <2> QED BY <1>6, <2>1, <2>2, AssignmentsClosed
<1>8. assignments' \in Seq(AssignmentRow) /\ Settled(assignments', Held)
  BY <1>7 DEF WithoutOpen
<1> DEFINE left == IF Lifecycle!Holds(t, c) THEN "completed" ELSE LatestAssignment(t, c)
<1>9. View(assignments') = Cell(assignments, t, c, left)
  <2>1. \A u, d : Latest(assignments', u, d) =
          IF u = t /\ d = c /\ Latest(assignments, u, d) \in Held THEN "completed"
                                                        ELSE Latest(assignments, u, d)
    BY <1>7 DEF WithoutOpen
  <2>2. left = IF Latest(assignments, t, c) \in Held THEN "completed" ELSE Latest(assignments, t, c)
    BY SameView, Shown
  <2> HIDE DEF left
  <2>3. \A u \in Turfs, d \in Canvassers :
          Latest(assignments', u, d) = IF u = t /\ d = c THEN left ELSE Latest(assignments, u, d)
    BY <2>1, <2>2
  <2> QED BY <2>3, OneCell
<1>10. status' = [status EXCEPT ![t] = IF OpenWork(assignments', sessions', t) THEN "in_progress"
                                                                    ELSE "completed"]
  BY DEF CommitComplete, SetTurf, OpenWork, Held
<1>11. Tables'
  <2>1. UNCHANGED <<deleted, account>> /\ status' \in [Turfs -> Lifecycle!TurfStatus]
    BY <1>10 DEF CommitComplete, Tables, Lifecycle!TurfStatus
  <2> QED BY <1>5, <1>8, <2>1 DEF Tables
<1>12. Lifecycle!CompleteSession(t, c)
  <2>1. Lifecycle!Working(t, c)
    BY SameView
  <2>2. Lifecycle!StatusAfterCompletion(View(assignments')[t], View(sessions')[t])
          = IF OpenWork(assignments', sessions', t) THEN "in_progress" ELSE "completed"
    <3>1. OpenWork(assignments', sessions', t)
            <=> \E d \in Canvassers : Latest(sessions', t, d) \in Live \/ Latest(assignments', t, d) \in Held
      BY <1>5, <1>8, OpenWorkShown
    <3>2. /\ DOMAIN (View(sessions')[t]) = Canvassers
          /\ \A d \in Canvassers : /\ View(sessions')[t][d] = Latest(sessions', t, d)
                                   /\ View(assignments')[t][d] = Latest(assignments', t, d)
      BY DEF View
    <3> QED BY <3>1, <3>2 DEF Lifecycle!StatusAfterCompletion, Live, Held
  <2>3. View(sessions') = Cell(sessions, t, c, "ended") /\ UNCHANGED <<deleted, account>>
    BY <1>2, <1>5 DEF CommitComplete
  <2>4. View(assignments)[t][c] = LatestAssignment(t, c)
    BY Shown DEF View
  <2> QED BY <1>9, <1>10, <2>1, <2>2, <2>3, <2>4, Views, ViewsNext DEF Lifecycle!CompleteSession, Lifecycle!Ended, Cell
<1> QED BY <1>11, <1>12

LEMMA TurfOpSteps ==
  ASSUME Tables, NEW t \in Turfs, NEW op \in TurfOps, Scoped(t), ~InUse(t), CommitTurfOp(op, t)
  PROVE  Tables' /\ Lifecycle!TurfStep(t)
<1> DEFINE pairs == {p \in Turfs \X Canvassers : p[1] = t}
<1>1. Lifecycle!Scoped(t) /\ ~Lifecycle!InUse(t)
  BY SameGuards
<1>2. /\ UNCHANGED <<account, sessions>> /\ View(sessions') = View(sessions)
      /\ status' \in [Turfs -> Lifecycle!TurfStatus] /\ deleted' \subseteq Turfs
  BY DEF CommitTurfOp, SetTurf, Tables, Lifecycle!TurfStatus
<1>3. CASE op = "reopen"
  <2>1. /\ status' = [status EXCEPT ![t] = "reopened"]
        /\ assignments' = assignments /\ deleted' = deleted /\ View(assignments') = View(assignments)
    BY <1>3 DEF CommitTurfOp, SetTurf
  <2>2. Lifecycle!ReopenTurf(t)
    BY <1>1, <1>2, <2>1, Views, ViewsNext DEF Lifecycle!ReopenTurf
  <2> QED BY <1>2, <2>1, <2>2 DEF Tables, Lifecycle!TurfStep
<1>4. CASE op \in {"archive", "delete"}
  <2>1. /\ status' = [status EXCEPT ![t] = "archived"] /\ assignments' = Close(TurfRows(t), "removed")
        /\ deleted' = IF op = "delete" THEN deleted \cup {t} ELSE deleted
    BY <1>4 DEF CommitTurfOp, SetTurf
  <2>2. Chosen(TurfRows(t), pairs)
    BY Ranges DEF Chosen, TurfRows, Rows, AssignmentRow
  <2>3. \A u \in Turfs, d \in Canvassers : <<u, d>> \in pairs <=> u = t
    OBVIOUS
  <2> HIDE DEF pairs
  <2>4. WithoutOpen(assignments', pairs, "removed")
    <3>1. "removed" \in Lifecycle!AssignmentStatus /\ "removed" \notin Held
      BY DEF Lifecycle!AssignmentStatus, Held
    <3> QED BY <2>1, <2>2, <3>1, AssignmentsClosed
  <2>5. Tables'
    BY <1>2, <2>4 DEF Tables, WithoutOpen
  <2>6. \A u \in Turfs, d \in Canvassers :
          Latest(assignments', u, d) = IF u = t /\ Lifecycle!Holds(t, d) THEN "removed"
                                       ELSE Latest(assignments, u, d)
    <3> SUFFICES ASSUME NEW u \in Turfs, NEW d \in Canvassers
                 PROVE  Latest(assignments', u, d) = IF u = t /\ Lifecycle!Holds(t, d) THEN "removed"
                                                     ELSE Latest(assignments, u, d)
      OBVIOUS
    <3>1. Latest(assignments', u, d) =
            IF <<u, d>> \in pairs /\ Latest(assignments, u, d) \in Held THEN "removed"
                                                               ELSE Latest(assignments, u, d)
      BY <2>4 DEF WithoutOpen
    <3>2. Lifecycle!Holds(t, d) <=> Latest(assignments, t, d) \in Held
      BY SameView
    <3> QED BY <2>3, <3>1, <3>2
  <2>7. View(assignments') = [View(assignments) EXCEPT ![t] =
          [d \in Canvassers |-> IF Lifecycle!Holds(t, d) THEN "removed" ELSE View(assignments)[t][d]]]
    BY <2>6 DEF View
  <2>8. Lifecycle!RemoveAssignments(t)
    BY <2>7, Views, ViewsNext DEF Lifecycle!RemoveAssignments
  <2>9. Lifecycle!ArchiveTurf(t) \/ Lifecycle!DeleteTurf(t)
    BY <1>1, <1>2, <1>4, <2>1, <2>8, Views, ViewsNext DEF Lifecycle!ArchiveTurf, Lifecycle!DeleteTurf
  <2> QED BY <2>5, <2>9 DEF Lifecycle!TurfStep
<1> QED BY <1>3, <1>4 DEF TurfOps

LEMMA AccountOpSteps ==
  ASSUME Tables, NEW c \in Canvassers, NEW op \in AccountOps, account[c] # "deleted", Idle(c),
         CommitAccountOp(op, c)
  PROVE  Tables' /\ Lifecycle!AccountStep(c)
<1>1. /\ account' = [account EXCEPT ![c] = IF op = "archiveUser" THEN "archived" ELSE "deleted"]
      /\ UNCHANGED <<status, deleted, assignments, sessions>>
  BY DEF CommitAccountOp
<1>2. View(assignments') = View(assignments) /\ View(sessions') = View(sessions)
  BY <1>1
<1>3. Lifecycle!Idle(c)
  BY SameGuards
<1>4. Lifecycle!ArchiveFieldUser(c) \/ Lifecycle!DeleteFieldUser(c)
  BY <1>1, <1>2, <1>3, Views, ViewsNext
     DEF Lifecycle!ArchiveFieldUser, Lifecycle!DeleteFieldUser, Lifecycle!CloseFieldUser, AccountOps
<1>5. account' \in [Canvassers -> Lifecycle!AccountStatus]
  BY <1>1 DEF Tables, Lifecycle!AccountStatus
<1> QED BY <1>1, <1>4, <1>5 DEF Tables, Lifecycle!AccountStep

\* createTurf and updateCanvasser.
LEMMA PlainSteps ==
  ASSUME Tables
  PROVE  /\ \A t \in Turfs : CreateTurf(t) => Tables' /\ Lifecycle!CreateTurf(t)
         /\ \A c \in Canvassers, isActive \in BOOLEAN :
              UpdateCanvasser(c, isActive) => Tables' /\ Lifecycle!UpdateCanvasser(c, isActive)
<1>1. ASSUME NEW t \in Turfs, CreateTurf(t) PROVE Tables' /\ Lifecycle!CreateTurf(t)
  <2>1. /\ status[t] = "absent" /\ status' = [status EXCEPT ![t] = "unassigned"]
        /\ UNCHANGED <<deleted, account, assignments, sessions>>
    BY <1>1 DEF CreateTurf, SetTurf
  <2>2. View(assignments') = View(assignments) /\ View(sessions') = View(sessions)
    BY <2>1
  <2>3. status' \in [Turfs -> Lifecycle!TurfStatus]
    BY <2>1 DEF Tables, Lifecycle!TurfStatus
  <2>4. Lifecycle!CreateTurf(t)
    BY <2>1, <2>2, Views, ViewsNext DEF Lifecycle!CreateTurf
  <2> QED BY <2>1, <2>3, <2>4 DEF Tables
<1>2. ASSUME NEW c \in Canvassers, NEW isActive \in BOOLEAN, UpdateCanvasser(c, isActive)
      PROVE  Tables' /\ Lifecycle!UpdateCanvasser(c, isActive)
  <2>1. /\ account[c] # "deleted"
        /\ account' = [account EXCEPT ![c] = IF isActive THEN "active" ELSE "inactive"]
        /\ UNCHANGED <<status, deleted, assignments, sessions>>
    BY <1>2 DEF UpdateCanvasser
  <2>2. View(assignments') = View(assignments) /\ View(sessions') = View(sessions)
    BY <2>1
  <2>3. account' \in [Canvassers -> Lifecycle!AccountStatus]
    BY <2>1 DEF Tables, Lifecycle!AccountStatus
  <2>4. Lifecycle!UpdateCanvasser(c, isActive)
    BY <2>1, <2>2, Views, ViewsNext DEF Lifecycle!UpdateCanvasser
  <2> QED BY <2>1, <2>3, <2>4 DEF Tables
<1> QED BY <1>1, <1>2

----------------------------------------------------------------------------
(* One request at a time.  Between its reads and its writes nothing else   *)
(* happens, so what it checked is still so when it commits.                *)

\* What the reads of a request found.
Checked(r) ==
  \/ /\ r.op \in TurfOps /\ r.turf \in Turfs
     /\ Scoped(r.turf) /\ ~InUse(r.turf)
  \/ /\ r.op \in AccountOps /\ r.canvasser \in Canvassers
     /\ account[r.canvasser] # "deleted" /\ Idle(r.canvasser)
  \/ /\ r.turf \in Turfs /\ r.canvasser \in Canvassers
     /\ \/ r.op = "assign" /\ AssignChecked(r.turf, r.canvasser)
        \/ r.op = "start" /\ StartChecked(r.turf, r.canvasser, r.row)
        \/ r.op = "pause" /\ r.session \in OpenSessionsIn(r.turf, r.canvasser, "active")
        \/ r.op = "resume" /\ ResumeChecked(r.turf, r.canvasser, r.row, r.session)
        \/ r.op = "complete" /\ r.session \in OpenSessions(r.turf, r.canvasser)

Inv ==
  /\ Tables
  /\ DOMAIN request = Slots
  /\ \A s \in Slots : request[s] = NoRequest \/ Checked(request[s])

LEMMA NewestSession ==
  ASSUME Tables, NEW t, NEW c, NEW state
  PROVE  /\ OpenSessionsIn(t, c, state) # {}
              => Newest(OpenSessionsIn(t, c, state)) \in OpenSessionsIn(t, c, state)
         /\ OpenSessions(t, c) # {} => Newest(OpenSessions(t, c)) \in OpenSessions(t, c)
<1>1. OpenSessions(t, c) \subseteq 1 .. Len(sessions) /\ OpenSessionsIn(t, c, state) \subseteq 1 .. Len(sessions)
  BY Ranges DEF OpenSessions, OpenSessionsIn, Rows
<1> QED BY <1>1, Ranges, NewestOf

\* Reading changes nothing, and finds what Checked says.
LEMMA BeginSteps ==
  ASSUME Inv, NEW s \in Slots, Begin(s)
  PROVE  /\ UNCHANGED <<status, deleted, account, assignments, sessions>>
         /\ \E r : Checked(r) /\ request' = [request EXCEPT ![s] = r]
<1> DEFINE Good(r) == Checked(r) /\ Send(s, r)
<1>1. ASSUME NEW t \in Turfs, NEW op \in TurfOps, BeginTurfOp(s, op, t) PROVE \E r : Good(r)
  <2>1. Good(Request(op, t, Anyone, 0, 0))
    BY <1>1 DEF BeginTurfOp, Checked, Request
  <2> QED BY <2>1
<1>2. ASSUME NEW c \in Canvassers, NEW op \in AccountOps, BeginAccountOp(s, op, c) PROVE \E r : Good(r)
  <2>1. Good(Request(op, Anywhere, c, 0, 0))
    BY <1>2 DEF BeginAccountOp, Checked, Request
  <2> QED BY <2>1
<1>3. ASSUME NEW t \in Turfs, NEW c \in Canvassers,
             \/ BeginAssign(s, t, c) \/ BeginStart(s, t, c) \/ BeginPause(s, t, c)
             \/ BeginResume(s, t, c) \/ BeginComplete(s, t, c)
      PROVE  \E r : Good(r)
  <2>1. CASE BeginAssign(s, t, c)
    <3>1. Good(Request("assign", t, c, 0, 0))
      BY <2>1 DEF BeginAssign, Checked, Request, AssignChecked
    <3> QED BY <3>1
  <2>2. CASE BeginStart(s, t, c)
    <3>1. PICK row \in OpenAssignments(t, c) : Send(s, Request("start", t, c, row, 0))
      BY <2>2 DEF BeginStart
    <3>2. Good(Request("start", t, c, row, 0))
      BY <2>2, <3>1 DEF BeginStart, Checked, Request, StartChecked
    <3> QED BY <3>2
  <2>3. CASE BeginPause(s, t, c)
    <3> DEFINE sess == Newest(OpenSessionsIn(t, c, "active"))
    <3>1. sess \in OpenSessionsIn(t, c, "active") /\ Send(s, Request("pause", t, c, 0, sess))
      BY <2>3, NewestSession DEF BeginPause, Inv
    <3> HIDE DEF sess
    <3>2. Good(Request("pause", t, c, 0, sess))
      BY <3>1 DEF Checked, Request
    <3> QED BY <3>2
  <2>4. CASE BeginResume(s, t, c)
    <3> DEFINE sess == Newest(OpenSessionsIn(t, c, "paused"))
    <3>1. sess \in OpenSessionsIn(t, c, "paused")
      BY <2>4, NewestSession DEF BeginResume, Inv
    <3>2. PICK row \in OpenAssignments(t, c) : Send(s, Request("resume", t, c, row, sess))
      BY <2>4 DEF BeginResume
    <3>3. SessionAvailable(t, c)
      BY <2>4 DEF BeginResume
    <3> HIDE DEF sess
    <3>4. Good(Request("resume", t, c, row, sess))
      BY <3>1, <3>2, <3>3 DEF Checked, Request, ResumeChecked
    <3> QED BY <3>4
  <2>5. CASE BeginComplete(s, t, c)
    <3> DEFINE sess == Newest(OpenSessions(t, c))
    <3>1. sess \in OpenSessions(t, c) /\ Send(s, Request("complete", t, c, 0, sess))
      BY <2>5, NewestSession DEF BeginComplete, Inv
    <3> HIDE DEF sess
    <3>2. Good(Request("complete", t, c, 0, sess))
      BY <3>1 DEF Checked, Request
    <3> QED BY <3>2
  <2> QED BY <1>3, <2>1, <2>2, <2>3, <2>4, <2>5
<1>4. PICK r : Good(r)
  BY <1>1, <1>2, <1>3 DEF Begin
<1> QED BY <1>4 DEF Send

\* A commit of what was checked is a step of TurfLifecycle.
LEMMA CommitSteps ==
  ASSUME Inv, NEW s \in Slots, Commit(s)
  PROVE  Tables' /\ Lifecycle!Next /\ request' = [request EXCEPT ![s] = NoRequest]
<1> DEFINE r == request[s]
<1>1. Tables /\ Checked(r) /\ request' = [request EXCEPT ![s] = NoRequest]
  BY DEF Inv, Commit
<1>2. CASE r.op \in TurfOps
  <2>1. r.turf \in Turfs /\ Scoped(r.turf) /\ ~InUse(r.turf)
    BY <1>1, <1>2 DEF Checked, TurfOps, AccountOps
  <2>2. CommitTurfOp(r.op, r.turf)
    BY <1>2 DEF Commit, TurfOps, AccountOps
  <2> QED BY <1>1, <1>2, <2>1, <2>2, TurfOpSteps DEF Lifecycle!Next
<1>3. CASE r.op \in AccountOps
  <2>1. r.canvasser \in Canvassers /\ account[r.canvasser] # "deleted" /\ Idle(r.canvasser)
    BY <1>1, <1>3 DEF Checked, TurfOps, AccountOps
  <2>2. CommitAccountOp(r.op, r.canvasser)
    BY <1>3 DEF Commit, TurfOps, AccountOps
  <2> QED BY <1>1, <1>3, <2>1, <2>2, AccountOpSteps DEF Lifecycle!Next
<1>4. CASE r.op \notin TurfOps \cup AccountOps
  <2>1. r.turf \in Turfs /\ r.canvasser \in Canvassers
    BY <1>1, <1>4 DEF Checked
  <2>2. ASSUME Lifecycle!WorkStep(r.turf, r.canvasser) PROVE Lifecycle!Next
    BY <2>1, <2>2 DEF Lifecycle!Next
  <2>3. CASE r.op = "assign"
    <3>1. AssignChecked(r.turf, r.canvasser) /\ CommitAssign(r.turf, r.canvasser)
      BY <1>1, <1>4, <2>3 DEF Checked, Commit
    <3>2. Tables' /\ Lifecycle!AssignTurf(r.turf, r.canvasser)
      BY <1>1, <2>1, <3>1, AssignSteps
    <3> QED BY <1>1, <2>2, <3>2 DEF Lifecycle!WorkStep
  <2>4. CASE r.op = "start"
    <3>1. StartChecked(r.turf, r.canvasser, r.row) /\ CommitStart(r.turf, r.canvasser, r.row)
      BY <1>1, <1>4, <2>4 DEF Checked, Commit
    <3>2. Tables' /\ Lifecycle!StartSession(r.turf, r.canvasser)
      BY <1>1, <2>1, <3>1, StartSteps
    <3> QED BY <1>1, <2>2, <3>2 DEF Lifecycle!WorkStep
  <2>5. CASE r.op = "pause"
    <3>1. r.session \in OpenSessionsIn(r.turf, r.canvasser, "active") /\ CommitPause(r.turf, r.session)
      BY <1>1, <1>4, <2>5 DEF Checked, Commit
    <3>2. Tables' /\ Lifecycle!PauseSession(r.turf, r.canvasser)
      BY <1>1, <2>1, <3>1, PauseSteps
    <3> QED BY <1>1, <2>2, <3>2 DEF Lifecycle!WorkStep
  <2>6. CASE r.op = "resume"
    <3>1. /\ ResumeChecked(r.turf, r.canvasser, r.row, r.session)
          /\ CommitResume(r.turf, r.row, r.session)
      BY <1>1, <1>4, <2>6 DEF Checked, Commit
    <3>2. Tables' /\ Lifecycle!ResumeSession(r.turf, r.canvasser)
      BY <1>1, <2>1, <3>1, ResumeSteps
    <3> QED BY <1>1, <2>2, <3>2 DEF Lifecycle!WorkStep
  <2>7. CASE r.op = "complete"
    <3>1. /\ r.session \in OpenSessions(r.turf, r.canvasser)
          /\ CommitComplete(r.turf, r.canvasser, r.session)
      BY <1>1, <1>4, <2>7 DEF Checked, Commit
    <3>2. Tables' /\ Lifecycle!CompleteSession(r.turf, r.canvasser)
      BY <1>1, <2>1, <3>1, CompleteSteps
    <3> QED BY <1>1, <2>2, <3>2 DEF Lifecycle!WorkStep
  <2>8. r.op \in {"assign", "start", "pause", "resume", "complete"}
    BY <1>1, <1>4 DEF Checked
  <2> QED BY <2>3, <2>4, <2>5, <2>6, <2>7, <2>8
<1> QED BY <1>2, <1>3, <1>4

LEMMA SerialInit == Init => Inv /\ Lifecycle!Init
<1> SUFFICES ASSUME Init PROVE Inv /\ Lifecycle!Init
  OBVIOUS
<1>1. Tables
  BY DEF Init, Tables, Settled, Lifecycle!TurfStatus, Lifecycle!AccountStatus
<1>2. \A t \in Turfs, c \in Canvassers : LatestAssignment(t, c) = "none" /\ LatestSession(t, c) = "none"
  BY Shown DEF Init, Latest, Pair
<1> QED BY <1>1, <1>2 DEF Init, Inv, Lifecycle!Init

LEMMA SerialStep ==
  ASSUME NEW only, Slots = {only}
  PROVE  Inv /\ [Next]_vars => Inv' /\ [Lifecycle!Next]_(Lifecycle!vars)
<1> SUFFICES ASSUME Inv, [Next]_vars PROVE Inv' /\ [Lifecycle!Next]_(Lifecycle!vars)
  OBVIOUS
\* Whatever leaves the tables alone is nothing to TurfLifecycle.
<1>1. ASSUME UNCHANGED <<status, deleted, account, assignments, sessions>>
      PROVE  /\ Tables' /\ UNCHANGED Lifecycle!vars
             /\ \A r : Checked(r) => Checked(r)'
  <2>1. View(assignments') = View(assignments) /\ View(sessions') = View(sessions)
    BY <1>1
  <2>2. UNCHANGED Lifecycle!vars
    BY <1>1, <2>1, Views, ViewsNext DEF Lifecycle!vars
  <2>3. \A r : Checked(r) => Checked(r)'
    BY <1>1 DEF Checked, AssignChecked, StartChecked, ResumeChecked, Scoped, InUse, Idle, OpenSessionsIn,
       OpenSessions, OpenAssignments, Rows, SessionAvailable, NoCrossTurfOpenSession
  <2>4. Tables'
    BY <1>1 DEF Inv, Tables
  <2> QED BY <2>2, <2>3, <2>4
<1>2. CASE UNCHANGED vars
  BY <1>1, <1>2 DEF vars, Inv
<1>3. CASE Begin(only)
  <2>1. /\ UNCHANGED <<status, deleted, account, assignments, sessions>>
        /\ \E r : Checked(r) /\ request' = [request EXCEPT ![only] = r]
    BY <1>3, BeginSteps
  <2>2. PICK r : Checked(r) /\ request' = [request EXCEPT ![only] = r]
    BY <2>1
  <2>3. request'[only] = r /\ DOMAIN request' = Slots
    BY <2>2 DEF Inv
  <2>4. Checked(r)'
    BY <1>1, <2>1, <2>2
  <2>5. Checked(request[only])'
    BY <2>3, <2>4 DEF Checked
  <2> QED BY <1>1, <2>1, <2>3, <2>5 DEF Inv
<1>4. CASE Commit(only)
  <2>1. Tables' /\ Lifecycle!Next /\ request' = [request EXCEPT ![only] = NoRequest]
    BY <1>4, CommitSteps
  <2> QED BY <2>1 DEF Inv
<1>5. ASSUME request[only] = NoRequest, UNCHANGED request, Tables', Lifecycle!Next
      PROVE  Inv' /\ [Lifecycle!Next]_(Lifecycle!vars)
  BY <1>5 DEF Inv
<1>6. ASSUME NEW t \in Turfs, CreateTurf(t) PROVE Inv' /\ [Lifecycle!Next]_(Lifecycle!vars)
  <2>1. request[only] = NoRequest /\ UNCHANGED request
    BY <1>6 DEF CreateTurf
  <2>2. Tables' /\ Lifecycle!Next
    BY <1>6, PlainSteps DEF Inv, Lifecycle!Next, Lifecycle!TurfStep
  <2> QED BY <1>5, <2>1, <2>2
<1>7. ASSUME NEW c \in Canvassers, NEW isActive \in BOOLEAN, UpdateCanvasser(c, isActive)
      PROVE  Inv' /\ [Lifecycle!Next]_(Lifecycle!vars)
  <2>1. request[only] = NoRequest /\ UNCHANGED request
    BY <1>7 DEF UpdateCanvasser
  <2>2. Tables' /\ Lifecycle!Next
    BY <1>7, PlainSteps DEF Inv, Lifecycle!Next, Lifecycle!AccountStep
  <2> QED BY <1>5, <2>1, <2>2
<1> QED BY <1>2, <1>3, <1>4, <1>6, <1>7 DEF Next

(* Served one request at a time, the handlers over rows, which read before *)
(* they write and update rows by id, implement TurfLifecycle: for any      *)
(* turfs and canvassers and however many rows their tables hold.           *)
THEOREM HandlersAreSteps ==
  ASSUME NEW only, Slots = {only}
  PROVE  Spec => ImplementsLifecycle
<1> QED BY SerialInit, SerialStep, PTL DEF Spec, ImplementsLifecycle, Lifecycle!Spec
----------------------------------------------------------------------------
(* What is proved of TurfLifecycle holds of the rows.                      *)

Proved == INSTANCE TurfLifecycle_proofs WITH
  assignment <- [t \in Turfs |-> [c \in Canvassers |-> LatestAssignment(t, c)]],
  session <- [t \in Turfs |-> [c \in Canvassers |-> LatestSession(t, c)]]

LEMMA SameSpec == ImplementsLifecycle => Proved!Spec
<1>1. Lifecycle!Init => Proved!Init
  BY DEF Lifecycle!Init, Proved!Init
<1>2. [Lifecycle!Next]_(Lifecycle!vars) => [Proved!Next]_(Proved!vars)
  BY DEF Lifecycle!Next, Proved!Next, Lifecycle!vars, Proved!vars,
         Lifecycle!TurfStep, Proved!TurfStep, Lifecycle!AccountStep, Proved!AccountStep,
         Lifecycle!WorkStep, Proved!WorkStep, Lifecycle!CreateTurf, Proved!CreateTurf,
         Lifecycle!ReopenTurf, Proved!ReopenTurf, Lifecycle!ArchiveTurf, Proved!ArchiveTurf,
         Lifecycle!DeleteTurf, Proved!DeleteTurf,
         Lifecycle!RemoveAssignments, Proved!RemoveAssignments, Lifecycle!Scoped, Proved!Scoped,
         Lifecycle!InUse, Proved!InUse, Lifecycle!Working, Proved!Working,
         Lifecycle!Holds, Proved!Holds, Lifecycle!ArchiveFieldUser, Proved!ArchiveFieldUser,
         Lifecycle!DeleteFieldUser, Proved!DeleteFieldUser,
         Lifecycle!CloseFieldUser, Proved!CloseFieldUser, Lifecycle!Idle, Proved!Idle,
         Lifecycle!UpdateCanvasser, Proved!UpdateCanvasser,
         Lifecycle!AssignTurf, Proved!AssignTurf,
         Lifecycle!NoCrossTurfOpenSession, Proved!NoCrossTurfOpenSession,
         Lifecycle!OpenSessionAllows, Proved!OpenSessionAllows,
         Lifecycle!Superseded, Proved!Superseded, Lifecycle!StartSession, Proved!StartSession,
         Lifecycle!HasAssignment, Proved!HasAssignment,
         Lifecycle!TurfSessionAvailable, Proved!TurfSessionAvailable,
         Lifecycle!PauseSession, Proved!PauseSession,
         Lifecycle!ResumeSession, Proved!ResumeSession,
         Lifecycle!CompleteSession, Proved!CompleteSession,
         Lifecycle!StatusAfterCompletion, Proved!StatusAfterCompletion,
         Lifecycle!Ended, Proved!Ended
<1> QED BY <1>1, <1>2, PTL DEF ImplementsLifecycle, Lifecycle!Spec, Proved!Spec

\* The rows in the words of TurfLifecycle.
LEMMA SameWork ==
  ASSUME Inv, NEW t \in Turfs, NEW c \in Canvassers
  PROVE  /\ Proved!Holds(t, c) <=> OpenAssignments(t, c) # {}
         /\ Proved!Working(t, c) <=> OpenSessions(t, c) # {}
<1>1. /\ Proved!Holds(t, c) <=> Lifecycle!Holds(t, c)
      /\ Proved!Working(t, c) <=> Lifecycle!Working(t, c)
  BY DEF Proved!Holds, Proved!Working, Lifecycle!Holds, Lifecycle!Working
<1> QED BY <1>1, SameView DEF Inv

LEMMA SessionsOfOne == Inv /\ Proved!OneOpenSession => OneSessionPerCanvasser
<1> SUFFICES ASSUME Inv, Proved!OneOpenSession, NEW i \in DOMAIN sessions, NEW j \in DOMAIN sessions,
                    sessions[i].open, sessions[j].open,
                    sessions[i].canvasser = sessions[j].canvasser
             PROVE  i = j
  BY DEF OneSessionPerCanvasser, Rows
<1> DEFINE c == sessions[i].canvasser
           t == sessions[i].turf
           u == sessions[j].turf
<1>1. c \in Canvassers /\ t \in Turfs /\ u \in Turfs
  BY Ranges DEF Inv, SessionRow
<1>2. i \in OpenSessions(t, c) /\ j \in OpenSessions(u, c)
  BY DEF OpenSessions, Rows
<1>3. Proved!Working(t, c) /\ Proved!Working(u, c)
  BY <1>1, <1>2, SameWork
<1>4. t = u
  BY <1>1, <1>3 DEF Proved!OneOpenSession
<1>5. sessions[i].status \in Live /\ sessions[j].status \in Live /\ Settled(sessions, Live)
  BY DEF Inv, Tables
<1>6. ~(i < j) /\ ~(j < i)
  BY <1>4, <1>5 DEF Settled
<1>7. i \in Nat /\ j \in Nat
  BY Ranges DEF Inv
<1> QED BY <1>6, <1>7

LEMMA ClosedHasNoWork ==
  ASSUME Inv, Proved!ClosedTurfIsFree, NEW s \in Slots, request[s] # NoRequest,
         request[s].op \in WorkOps \ {"assign"}
  PROVE  status[request[s].turf] \notin {"completed", "archived"}
<1> DEFINE t == request[s].turf
           c == request[s].canvasser
<1>1. Checked(request[s]) /\ request[s].op \notin TurfOps \cup AccountOps
  BY DEF Inv, WorkOps, TurfOps, AccountOps
<1>2. /\ t \in Turfs /\ c \in Canvassers
      /\ OpenAssignments(t, c) # {} \/ OpenSessions(t, c) # {}
  BY <1>1 DEF Checked, StartChecked, ResumeChecked, OpenSessionsIn, WorkOps
<1>3. Proved!Holds(t, c) \/ Proved!Working(t, c)
  BY <1>2, SameWork
<1> QED BY <1>2, <1>3 DEF Proved!ClosedTurfIsFree

(* What the documentation says of sessions, assignees and archived users,  *)
(* and of turfs that are closed, which two requests that overlap can break *)
(* is kept by requests that are served one at a time: one session for each *)
(* canvasser, one primary assignee, no open work of an archived user, and  *)
(* no request of a canvasser that changes the status of a closed turf.     *)
THEOREM RulesServed ==
  ASSUME NEW only, Slots = {only}
  PROVE  Spec => /\ [](OneSessionPerCanvasser /\ OnePrimaryAssignee /\ ArchivedUserIsIdle)
                 /\ ClosedTurfReadOnly
<1>1. Spec => Proved!Spec
  <2>1. Spec => ImplementsLifecycle
    BY HandlersAreSteps
  <2> QED BY <2>1, SameSpec, PTL
<1>2. /\ Proved!Spec => []Proved!OneOpenSession
      /\ Proved!Spec => []Proved!OneAssignee
      /\ Proved!Spec => []Proved!ClosedUserIsIdle
      /\ Proved!Spec => []Proved!ClosedTurfIsFree
  BY Proved!SessionUnique, Proved!AssigneeUnique, Proved!ClosedUsers, Proved!ClosedTurfs,
     TurfRequestsAssumption
<1>3. Inv /\ [Next]_vars => Inv'
  BY SerialStep
<1>4. Inv /\ Proved!OneAssignee => OnePrimaryAssignee
  BY SameWork, TurfRequestsAssumption DEF Proved!OneAssignee, OnePrimaryAssignee
<1>5. Inv /\ Proved!ClosedUserIsIdle => ArchivedUserIsIdle
  BY SameWork DEF Proved!ClosedUserIsIdle, ArchivedUserIsIdle, Idle
<1>6. Inv /\ Proved!ClosedTurfIsFree /\ [Next]_vars
        => [\A s \in Slots :
              /\ request[s] # NoRequest /\ request'[s] = NoRequest
              /\ request[s].op \in WorkOps \ {"assign"}
              /\ status[request[s].turf] \in {"completed", "archived"}
              => status'[request[s].turf] = status[request[s].turf]]_vars
  BY ClosedHasNoWork
<1> QED BY <1>1, <1>2, <1>3, <1>4, <1>5, <1>6, SerialInit, SessionsOfOne, PTL
        DEF Spec, ClosedTurfReadOnly
=============================================================================
