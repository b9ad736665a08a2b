------------------------- MODULE OfflineQueue_proofs -------------------------
(***************************************************************************)
(* The phone's queue, proved for any number of visits and of crashes.      *)
(* What the memory, the store and the answers on their way claim of a      *)
(* visit is true of the service's record: that is the invariant.           *)
(***************************************************************************)
EXTENDS OfflineQueue, FiniteSetTheorems, SequenceTheorems, TLAPS

(* Queues. *)

Distinct(q) == \A i, j \in DOMAIN q : q[i].visit = q[j].visit => i = j

LEMMA QueueType ==
    ASSUME NEW q \in Seq(Items)
    PROVE  /\ Len(q) \in Nat /\ DOMAIN q = 1 .. Len(q)
           /\ \A i \in DOMAIN q : q[i] \in Items /\ q[i].visit \in Visits /\ q[i].status \in Statuses
           /\ VisitsIn(q) \subseteq Visits
<1>1. Len(q) \in Nat /\ DOMAIN q = 1 .. Len(q)
  BY LenProperties
<1>2. \A i \in DOMAIN q : q[i] \in Items
  BY <1>1, ElementOfSeq
<1> QED BY <1>1, <1>2 DEF Items, VisitsIn

\* The places of the kept items are 1, 2, ... up to their number, each once.
LEMMA Places ==
    ASSUME NEW n \in Nat, NEW kept \in SUBSET (1 .. n)
    PROVE  LET place == [i \in kept |-> Cardinality({j \in kept : j <= i})]
           IN  /\ Cardinality(kept) \in Nat
               /\ place \in [kept -> 1 .. Cardinality(kept)]
               /\ \A i, j \in kept : place[i] = place[j] => i = j
               /\ \A m \in 1 .. Cardinality(kept) : \E i \in kept : place[i] = m
<1> DEFINE below(i) == {j \in kept : j <= i}
           place == [i \in kept |-> Cardinality(below(i))]
           size == Cardinality(kept)
<1>1. IsFiniteSet(kept) /\ size \in Nat
  <2>1. IsFiniteSet(1 .. n)
    BY FS_Interval
  <2>2. IsFiniteSet(kept)
    BY <2>1, FS_Subset
  <2> QED BY <2>2, FS_CardinalityType
<1>2. ASSUME NEW i \in kept
      PROVE  /\ IsFiniteSet(below(i)) /\ Cardinality(below(i)) \in 1 .. size
             /\ below(i) \subseteq kept /\ i \in below(i)
  <2>1. below(i) \subseteq kept /\ i \in below(i)
    OBVIOUS
  <2>2. IsFiniteSet(below(i)) /\ Cardinality(below(i)) <= size
    BY <1>1, <2>1, FS_Subset
  <2>3. Cardinality(below(i)) \in Nat /\ Cardinality(below(i)) # 0
    BY <2>1, <2>2, FS_EmptySet, FS_CardinalityType
  <2> QED BY <1>1, <2>1, <2>2, <2>3
<1>3. ASSUME NEW i \in kept, NEW j \in kept, i < j
      PROVE  Cardinality(below(i)) # Cardinality(below(j))
  <2>1. below(i) \subseteq below(j) /\ j \notin below(i) /\ j \in below(j)
    <3>1. i \in Nat /\ j \in Nat /\ \A k \in kept : k \in Nat
      OBVIOUS
    <3>2. \A k \in kept : k <= i => k <= j
      BY <1>3, <3>1
    <3>3. ~(j <= i) /\ j <= j
      BY <1>3, <3>1
    <3> QED BY <3>2, <3>3
  <2> QED BY <1>2, <2>1, FS_Subset
<1> HIDE DEF below
<1>4. place \in [kept -> 1 .. size]
  BY <1>2
<1>5. \A i, j \in kept : place[i] = place[j] => i = j
  BY <1>3
<1>6. \A m \in 1 .. size : \E i \in kept : place[i] = m
  <2>1. place \in Injection(kept, 1 .. size)
    BY <1>4, <1>5 DEF Injection, IsInjective
  <2>2. IsFiniteSet(1 .. size) /\ Cardinality(1 .. size) = size
    BY <1>1, FS_Interval
  <2>3. place \in Surjection(kept, 1 .. size)
    BY <1>1, <2>1, <2>2, FS_Injection
  <2> QED BY <2>3 DEF Surjection
<1> QED BY <1>1, <1>4, <1>5, <1>6 DEF below

\* Filtering a queue takes the items about one visit from it and no other.
LEMMA Filtering ==
    ASSUME NEW q \in Seq(Items), NEW v
    PROVE  /\ Without(q, v) \in Seq(Items)
           /\ VisitsIn(Without(q, v)) = VisitsIn(q) \ {v}
           /\ Distinct(q) => Distinct(Without(q, v))
<1> DEFINE kept == {i \in DOMAIN q : q[i].visit # v}
           place == [i \in kept |-> Cardinality({j \in kept : j <= i})]
           size == Cardinality(kept)
           item(m) == CHOOSE i \in kept : place[i] = m
<1>1. /\ Len(q) \in Nat /\ kept \subseteq 1 .. Len(q)
      /\ DOMAIN q = 1 .. Len(q) /\ \A i \in kept : q[i] \in Items
  BY QueueType
<1>2. /\ size \in Nat /\ place \in [kept -> 1 .. size]
      /\ \A i, j \in kept : place[i] = place[j] => i = j
      /\ \A m \in 1 .. size : \E i \in kept : place[i] = m
  BY <1>1, Places
<1>3. Without(q, v) = [m \in 1 .. size |-> q[item(m)]]
  BY DEF Without
<1>4. \A m \in 1 .. size : item(m) \in kept /\ place[item(m)] = m
  <2> HIDE DEF place
  <2> QED BY <1>2
<1>5. \A i \in kept : place[i] \in 1 .. size /\ item(place[i]) = i
  <2> HIDE DEF place
  <2> QED BY <1>2
<1> HIDE DEF place, item, size
<1>6. /\ DOMAIN Without(q, v) = 1 .. size
      /\ \A m \in 1 .. size : Without(q, v)[m] = q[item(m)]
  BY <1>3
<1>7. Without(q, v) \in Seq(Items)
  BY <1>1, <1>2, <1>3, <1>4
<1>8. VisitsIn(Without(q, v)) = VisitsIn(q) \ {v}
  <2>1. VisitsIn(Without(q, v)) \subseteq VisitsIn(q) \ {v}
    BY <1>4, <1>6 DEF VisitsIn
  <2>2. ASSUME NEW i \in DOMAIN q, q[i].visit # v PROVE q[i].visit \in VisitsIn(Without(q, v))
    <3>1. i \in kept
      BY <2>2
    <3> QED BY <1>5, <1>6, <3>1 DEF VisitsIn
  <2> QED BY <2>1, <2>2 DEF VisitsIn
<1>9. Distinct(q) => Distinct(Without(q, v))
  BY <1>4, <1>6 DEF Distinct
<1> QED BY <1>7, <1>8, <1>9

LEMMA Restating ==
    ASSUME NEW q \in Seq(Items), NEW v, NEW status \in Statuses
    PROVE  /\ SetStatus(q, v, status) \in Seq(Items)
           /\ VisitsIn(SetStatus(q, v, status)) = VisitsIn(q)
           /\ Distinct(q) => Distinct(SetStatus(q, v, status))
<1> DEFINE new == SetStatus(q, v, status)
<1>1. /\ DOMAIN q = 1 .. Len(q) /\ Len(q) \in Nat
      /\ \A i \in DOMAIN q : q[i] \in Items
  BY QueueType
<1>2. /\ new = [i \in DOMAIN q |-> new[i]] /\ DOMAIN new = DOMAIN q
      /\ \A i \in DOMAIN q : new[i] \in Items /\ new[i].visit = q[i].visit
  BY <1>1 DEF SetStatus, Items
<1>3. new \in Seq(Items)
  BY <1>1, <1>2
<1> HIDE DEF new
<1> QED BY <1>2, <1>3 DEF VisitsIn, Distinct, new

LEMMA Appending ==
    ASSUME NEW q \in Seq(Items), NEW item \in Items
    PROVE  /\ Append(q, item) \in Seq(Items)
           /\ VisitsIn(Append(q, item)) = VisitsIn(q) \cup {item.visit}
           /\ Distinct(q) /\ item.visit \notin VisitsIn(q) => Distinct(Append(q, item))
<1> DEFINE new == Append(q, item)
           n == Len(q)
<1>1. n \in Nat /\ DOMAIN q = 1 .. n
  BY QueueType
<1>2. new \in Seq(Items) /\ Len(new) = n + 1 /\ new[n + 1] = item
      /\ \A i \in 1 .. n : new[i] = q[i]
  BY AppendProperties
<1>3. DOMAIN new = 1 .. n + 1
  BY <1>2, LenProperties
<1> HIDE DEF new, n
<1>4. VisitsIn(new) = VisitsIn(q) \cup {item.visit}
  <2>1. \A i \in 1 .. n + 1 : i \in 1 .. n \/ i = n + 1
    BY <1>1
  <2>2. n + 1 \in 1 .. n + 1 /\ \A i \in 1 .. n : i \in 1 .. n + 1
    BY <1>1
  <2> QED BY <1>1, <1>2, <1>3, <2>1, <2>2 DEF VisitsIn
<1>5. Distinct(q) /\ item.visit \notin VisitsIn(q) => Distinct(new)
  BY <1>1, <1>2, <1>3 DEF Distinct, VisitsIn
<1> QED BY <1>2, <1>4, <1>5 DEF new

-----------------------------------------------------------------------------
(* The invariant. *)

OnRecord(v) == ledger[v] # "absent"

\* A queue, in memory or stored, holds each visit once, and only visits whose
\* submission is over: it will not be queued a second time.
Known(q) == Distinct(q) /\ \A v \in VisitsIn(q) : locating[v] = "done"

\* What a household shows as synced is on record.
Backed(b) == \A v \in Visits : b[v] = "synced" => OnRecord(v)

\* So is a visit of which an answer on its way says that it is stored.
AnswersBacked == /\ \A v \in Visits : direct[v] = "stored" => OnRecord(v)
                 /\ loop.call = "stored" => OnRecord(Head(loop.todo))

\* The sync loop waits for an answer about the first visit it has left.
LoopShape(l) == /\ l.call # "none" <=> l.at = "waiting"
                /\ l.at = "waiting" => l.todo # <<>>

\* Nothing is queued, located or posted before the store has been read.
Asleep == app \in {"off", "booting"} =>
            /\ queue = <<>> /\ direct = Blank /\ loop = IdleLoop
            /\ \A v \in Visits : locating[v] \in {"no", "done"}

SignedIn == app = "checking" => token

Inv == /\ TypeOK /\ LoopShape(loop) /\ Asleep /\ SignedIn
       /\ Known(queue) /\ Known(store.queue) /\ Known(loaded.queue)
       /\ Backed(badge) /\ Backed(store.badge) /\ Backed(loaded.badge)
       /\ AnswersBacked

LEMMA NothingQueued == <<>> \in Seq(Items) /\ VisitsIn(<<>>) = {} /\ Distinct(<<>>)
BY DEF VisitsIn, Distinct

LoopType == [at : {"idle", "next", "waiting", "refresh"}, todo : Seq(Visits),
             call : Calls, didChange : BOOLEAN]

LEMMA IdleLoopType == IdleLoop \in LoopType /\ LoopShape(IdleLoop) /\ IdleLoop.call = "none"
BY DEF IdleLoop, LoopType, LoopShape, Calls

LEMMA InitInv == Init => Inv
<1> SUFFICES ASSUME Init PROVE Inv
  OBVIOUS
<1>1. TypeOK
  <2>1. Service!TypeOK
    BY DEF Init, Service!Init, Service!TypeOK, Service!Holdings, Service!Replies
  <2>2. Blank \in Badges /\ Blank \in [Visits -> DirectCalls]
    BY DEF Blank, Badges, DirectCalls, Calls
  <2>3. EmptyStore \in [token : BOOLEAN, queue : Seq(Items), badge : Badges]
    BY <2>2, NothingQueued DEF EmptyStore
  <2>4. loop \in LoopType /\ crashes \in 0 .. MaxCrashes /\ queue \in Seq(Items)
    BY IdleLoopType, MaxCrashesAssumption, NothingQueued DEF Init
  <2> QED BY <2>1, <2>2, <2>3, <2>4 DEF Init, TypeOK, LoopType
<1>2. Known(queue) /\ Known(store.queue) /\ Known(loaded.queue)
  BY NothingQueued DEF Init, EmptyStore, Known
<1>3. Backed(badge) /\ Backed(store.badge) /\ Backed(loaded.badge)
  BY DEF Init, EmptyStore, Blank, Backed
<1>4. LoopShape(loop) /\ Asleep /\ SignedIn /\ AnswersBacked
  BY IdleLoopType DEF Init, Asleep, SignedIn, AnswersBacked, Blank
<1> QED BY <1>1, <1>2, <1>3, <1>4 DEF Inv

-----------------------------------------------------------------------------
(* What the service does to a visit. *)
LEMMA Serving ==
    ASSUME Service!TypeOK, NEW v \in Visits, Service!Handle(v) \/ Service!Resolve(v)
    PROVE  /\ Service!TypeOK'
           /\ \A w \in Visits : OnRecord(w) => OnRecord(w)'
BY DEF Service!TypeOK, Service!Holdings, Service!Replies, Service!Handle, Service!Store, Service!Repeat,
   Service!Hold, Service!Refuse, Service!Resolve, Service!Answer, OnRecord

LEMMA Answering ==
    ASSUME Service!TypeOK, NEW v \in Visits, Service!Handle(v)
    PROVE  /\ AnswerToCall \in {"stored", "conflict", "failed"}
           /\ AnswerToCall = "stored" => OnRecord(v)'
BY DEF Service!TypeOK, Service!Holdings, Service!Replies, Service!Handle, Service!Store, Service!Repeat,
   Service!Hold, Service!Refuse, Service!Answer, OnRecord, AnswerToCall

\* A sync starts with nothing posted yet.
LEMMA Snapshot ==
    ASSUME NEW q \in Seq(Items)
    PROVE  /\ SnapshotOf(q) \in LoopType /\ LoopShape(SnapshotOf(q))
           /\ SnapshotOf(q).call = "none"
<1> DEFINE new == SnapshotOf(q)
           todo == [i \in DOMAIN q |-> q[i].visit]
<1>1. todo \in Seq(Visits)
  <2>1. DOMAIN q = 1 .. Len(q) /\ Len(q) \in Nat /\ \A i \in DOMAIN q : q[i].visit \in Visits
    BY QueueType
  <2> QED BY <2>1
<1>2. new = [IdleLoop EXCEPT !.at = "next", !.todo = todo]
  BY DEF SnapshotOf
<1> HIDE DEF new, todo
<1>3. new \in LoopType
  BY <1>1, <1>2, IdleLoopType DEF LoopType
<1>4. new.at = "next" /\ new.call = "none"
  BY <1>2 DEF IdleLoop
<1> QED BY <1>3, <1>4 DEF LoopShape, new

\* The auto-sync effect leaves the loop as it is or starts one.
LEMMA Starting ==
    ASSUME NEW l \in LoopType, LoopShape(l), NEW isOnline, NEW tok, NEW q \in Seq(Items)
    PROVE  LET new == AutoSync(l, isOnline, tok, q)
           IN  /\ new \in LoopType /\ LoopShape(new)
               /\ new = l \/ new.call = "none"
BY Snapshot DEF AutoSync

\* What is known and backed stays so while no visit is submitted and the
\* service only adds to its record.
LEMMA Standing ==
    ASSUME UNCHANGED locating, \A v \in Visits : OnRecord(v) => OnRecord(v)'
    PROVE  /\ \A q : Known(q) => Known(q)'
           /\ \A b : Backed(b) => Backed(b)'
BY DEF Known, Backed

LEMMA LifeCycleStep == Inv /\ LifeCycle => Inv'
<1> SUFFICES ASSUME Inv, LifeCycle PROVE Inv'
  OBVIOUS
<1> USE DEF Inv
<1>0. ASSUME ServiceUnchanged PROVE Service!TypeOK' /\ \A v : OnRecord(v) = OnRecord(v)'
  BY <1>0 DEF ServiceUnchanged, TypeOK, Service!TypeOK, OnRecord
<1>1. CASE Launch
  <2>1. TypeOK' /\ Asleep' /\ SignedIn' /\ AnswersBacked'
    BY <1>0, <1>1 DEF Launch, TypeOK, Asleep, SignedIn, AnswersBacked
  <2>2. Known(queue)' /\ Known(store.queue)' /\ Known(loaded.queue)'
    BY <1>1 DEF Launch, Known
  <2>3. Backed(badge)' /\ Backed(store.badge)' /\ Backed(loaded.badge)'
    BY <1>0, <1>1 DEF Launch, Backed
  <2> QED BY <1>1, <2>1, <2>2, <2>3 DEF Launch
<1>2. CASE Restore
  <2>1. /\ loop' \in LoopType /\ LoopShape(loop') /\ (loop' = loop \/ loop'.call = "none")
        /\ loaded \in [token : BOOLEAN, queue : Seq(Items), badge : Badges]
    BY <1>2, Starting DEF Restore, TypeOK, LoopType
  <2>2. TypeOK'
    BY <1>0, <1>2, <2>1, NothingQueued DEF Restore, TypeOK, LoopType, EmptyStore, Blank, Badges
  <2>3. Asleep' /\ SignedIn' /\ AnswersBacked'
    BY <1>0, <1>2, <2>1 DEF Restore, Asleep, SignedIn, AnswersBacked
  <2>4. Known(queue)' /\ Known(store.queue)' /\ Known(loaded.queue)'
    BY <1>2, NothingQueued DEF Restore, Known, EmptyStore
  <2>5. Backed(badge)' /\ Backed(store.badge)' /\ Backed(loaded.badge)'
    BY <1>0, <1>2 DEF Restore, Backed, EmptyStore, Blank
  <2> QED BY <2>1, <2>2, <2>3, <2>4, <2>5
<1>3. CASE BootstrapLoads \/ BootstrapFails
  <2>1. TypeOK' /\ Asleep' /\ SignedIn' /\ AnswersBacked'
    BY <1>0, <1>3 DEF BootstrapLoads, BootstrapFails, TypeOK, Asleep, SignedIn, AnswersBacked
  <2>2. store'.queue = store.queue /\ store'.badge = store.badge
    BY <1>3 DEF BootstrapLoads, BootstrapFails, TypeOK
  <2>3. Known(queue)' /\ Known(store.queue)' /\ Known(loaded.queue)'
    BY <1>3, <2>2 DEF BootstrapLoads, BootstrapFails, Known
  <2>4. Backed(badge)' /\ Backed(store.badge)' /\ Backed(loaded.badge)'
    BY <1>0, <1>3, <2>2 DEF BootstrapLoads, BootstrapFails, Backed
  <2> QED BY <1>3, <2>1, <2>3, <2>4 DEF BootstrapLoads, BootstrapFails
<1>4. CASE BootstrapRejectsRole
  <2>1. TypeOK' /\ Asleep' /\ SignedIn' /\ AnswersBacked'
    BY <1>0, <1>4, NothingQueued DEF BootstrapRejectsRole, TypeOK, Asleep, SignedIn, AnswersBacked, Blank, Badges
  <2>2. store'.queue = store.queue /\ store'.badge = store.badge
    BY <1>4 DEF BootstrapRejectsRole, TypeOK
  <2>3. Known(queue)' /\ Known(store.queue)' /\ Known(loaded.queue)'
    BY <1>4, <2>2, NothingQueued DEF BootstrapRejectsRole, Known
  <2>4. Backed(badge)' /\ Backed(store.badge)' /\ Backed(loaded.badge)'
    BY <1>0, <1>4, <2>2 DEF BootstrapRejectsRole, Backed, Blank
  <2> QED BY <1>4, <2>1, <2>3, <2>4 DEF BootstrapRejectsRole
<1>5. CASE Kill
  <2>1. /\ EmptyStore \in [token : BOOLEAN, queue : Seq(Items), badge : Badges]
        /\ Blank \in Badges /\ Blank \in [Visits -> DirectCalls]
    BY NothingQueued DEF EmptyStore, Blank, Badges, DirectCalls, Calls
  <2>2. TypeOK'
    <3>1. locating' \in [Visits -> {"no", "online", "offline", "done"}] /\ orphans' \subseteq Visits
      BY <1>5 DEF Kill, TypeOK
    <3>2. crashes' \in 0 .. MaxCrashes
      BY <1>5, MaxCrashesAssumption DEF Kill, TypeOK
    <3>3. /\ app' = "off" /\ token' = FALSE /\ queue' = <<>> /\ badge' = Blank /\ direct' = Blank
          /\ loop' = IdleLoop /\ loaded' = EmptyStore /\ online' = online /\ store' = store
      BY <1>5 DEF Kill
    <3> QED BY <1>0, <1>5, <2>1, <3>1, <3>2, <3>3, NothingQueued, IdleLoopType DEF Kill, TypeOK, LoopType
  <2>3. Asleep' /\ SignedIn' /\ AnswersBacked' /\ LoopShape(loop')
    BY <1>0, <1>5, IdleLoopType DEF Kill, Asleep, SignedIn, AnswersBacked, TypeOK, Blank
  <2>4. \A v \in Visits : locating[v] = "done" => locating'[v] = "done"
    BY <1>5 DEF Kill
  <2>5. Known(queue)' /\ Known(store.queue)' /\ Known(loaded.queue)'
    BY <1>5, <2>4, NothingQueued, QueueType DEF Kill, Known, EmptyStore, TypeOK
  <2>6. Backed(badge)' /\ Backed(store.badge)' /\ Backed(loaded.badge)'
    BY <1>0, <1>5 DEF Kill, Backed, Blank, EmptyStore
  <2> QED BY <2>2, <2>3, <2>5, <2>6
<1> QED BY <1>1, <1>2, <1>3, <1>4, <1>5 DEF LifeCycle

\* Saving, signing in and out, connectivity.
LEMMA AroundStep == Inv /\ (Saving \/ Surroundings) => Inv'
<1> SUFFICES ASSUME Inv, Saving \/ Surroundings PROVE Inv'
  OBVIOUS
<1> USE DEF Inv
<1>0. /\ Service!TypeOK' /\ \A v : OnRecord(v) = OnRecord(v)'
      /\ UNCHANGED <<locating, direct, loaded>>
  BY DEF Saving, Surroundings, SaveQueue, SaveAddressState, SaveSession, Login, Logout, GoOffline, GoOnline,
     ServiceUnchanged, TypeOK, Service!TypeOK, OnRecord
<1>1. \A q : Known(q) => Known(q)'
  BY <1>0 DEF Known
<1>2. \A b : Backed(b) => Backed(b)'
  BY <1>0 DEF Backed
<1>3. CASE Saving
  <2>1. UNCHANGED <<app, token, online, queue, badge, loop>>
    BY <1>3 DEF Saving, SaveQueue, SaveAddressState, SaveSession
  <2>2. TypeOK' /\ Asleep' /\ SignedIn' /\ AnswersBacked'
    BY <1>0, <1>3, <2>1 DEF Saving, SaveQueue, SaveAddressState, SaveSession, TypeOK, Asleep, SignedIn, AnswersBacked
  <2>3. store'.queue \in {store.queue, queue} /\ store'.badge \in {store.badge, badge}
    BY <1>3 DEF Saving, SaveQueue, SaveAddressState, SaveSession, TypeOK
  <2>4. Known(queue)' /\ Known(store.queue)' /\ Known(loaded.queue)'
    BY <1>0, <1>1, <2>1, <2>3 DEF Known
  <2>5. Backed(badge)' /\ Backed(store.badge)' /\ Backed(loaded.badge)'
    BY <1>0, <1>2, <2>1, <2>3 DEF Backed
  <2> QED BY <2>1, <2>2, <2>4, <2>5
<1>4. CASE Surroundings
  <2>1. /\ loop' \in LoopType /\ LoopShape(loop') /\ (loop' = loop \/ loop'.call = "none")
        /\ app \in {"off", "booting"} => loop' = loop
    <3>1. loop \in LoopType /\ queue \in Seq(Items)
      BY DEF TypeOK, LoopType
    <3>2. CASE Logout \/ GoOffline
      BY <3>1, <3>2 DEF Logout, GoOffline
    <3>3. CASE Login
      BY <3>1, <3>3, Starting DEF Login
    <3>4. CASE GoOnline
      <4>1. app \in {"off", "booting"} => ~Syncable(queue)
        BY DEF Asleep, Syncable
      <4>2. loop' = AutoSync(loop, TRUE, token, queue)
        BY <3>4 DEF GoOnline, OnlineEffect
      <4>3. ~Syncable(queue) => loop' = loop
        BY <4>2 DEF AutoSync
      <4> QED BY <3>1, <4>1, <4>2, <4>3, Starting
    <3> QED BY <1>4, <3>2, <3>3, <3>4 DEF Surroundings
  <2>2. TypeOK'
    BY <1>0, <1>4, <2>1, NothingQueued
       DEF Surroundings, Login, Logout, GoOffline, GoOnline, TypeOK, LoopType, Blank, Badges
  <2>3. Asleep' /\ SignedIn' /\ AnswersBacked'
    BY <1>0, <1>4, <2>1
       DEF Surroundings, Login, Logout, GoOffline, GoOnline, Asleep, SignedIn, AnswersBacked
  <2>4. Known(queue)' /\ Known(store.queue)' /\ Known(loaded.queue)'
    BY <1>0, <1>4, NothingQueued DEF Surroundings, Login, Logout, GoOffline, GoOnline, Known
  <2>5. Backed(badge)' /\ Backed(store.badge)' /\ Backed(loaded.badge)'
    BY <1>0, <1>4 DEF Surroundings, Login, Logout, GoOffline, GoOnline, Backed, Blank
  <2> QED BY <2>1, <2>2, <2>3, <2>4, <2>5
<1> QED BY <1>3, <1>4

\* The submitting screen.
LEMMA QueueAnswered ==
    ASSUME queue \in Seq(Items), NEW v, NEW answer \in {"stored", "conflict", "failed"},
           queue' = QueueAfter(v, answer)
    PROVE  /\ queue' \in Seq(Items)
           /\ VisitsIn(queue') \subseteq VisitsIn(queue)
           /\ VisitsIn(queue) \ VisitsIn(queue') \subseteq (IF answer = "stored" THEN {v} ELSE {})
           /\ Distinct(queue) => Distinct(queue')
<1>1. CASE answer = "stored"
  BY <1>1, Filtering DEF QueueAfter
<1>2. CASE answer # "stored"
  BY <1>2, Restating DEF QueueAfter, Statuses
<1> QED BY <1>1, <1>2

LEMMA SubmittingStep == ASSUME Inv, NEW v \in Visits, Submitting(v) PROVE Inv'
<1> USE DEF Inv
<1>0. /\ Service!TypeOK' /\ \A w : OnRecord(w) = OnRecord(w)'
      /\ UNCHANGED <<app, token, online, store, loaded, orphans, crashes>>
  BY DEF Submitting, SubmitVisit, QueueVisit, DirectAnswer, DirectRefresh, ServiceUnchanged, TypeOK,
     Service!TypeOK, OnRecord
<1>1. /\ queue \in Seq(Items) /\ loop \in LoopType
  BY DEF TypeOK, LoopType
<1>2. ASSUME queue' \in Seq(Items), loop' = QueueLengthEffect(loop, queue')
      PROVE  loop' \in LoopType /\ LoopShape(loop') /\ (loop' = loop \/ loop'.call = "none")
  BY <1>1, <1>2, Starting DEF QueueLengthEffect
<1>3. CASE SubmitVisit(v)
  <2>1. TypeOK' /\ Asleep' /\ SignedIn' /\ AnswersBacked'
    BY <1>0, <1>3 DEF SubmitVisit, TypeOK, Asleep, SignedIn, AnswersBacked
  <2>2. \A w \in Visits : locating[w] = "done" => locating'[w] = "done"
    BY <1>3 DEF SubmitVisit, TypeOK
  <2>3. Known(queue)' /\ Known(store.queue)' /\ Known(loaded.queue)'
    BY <1>0, <1>3, <2>2, QueueType DEF SubmitVisit, Known, TypeOK
  <2>4. Backed(badge)' /\ Backed(store.badge)' /\ Backed(loaded.badge)'
    BY <1>0, <1>3 DEF SubmitVisit, Backed
  <2> QED BY <1>3, <2>1, <2>3, <2>4 DEF SubmitVisit
<1>4. CASE QueueVisit(v)
  <2>1. PICK item \in Items : item.visit = v /\ queue' = Append(queue, item)
    <3>1. PICK status \in Statuses : queue' = Append(queue, [visit |-> v, status |-> status])
      BY <1>4 DEF QueueVisit, Statuses
    <3>2. [visit |-> v, status |-> status] \in Items
      BY DEF Items
    <3> QED BY <3>1, <3>2
  <2>2. queue' \in Seq(Items) /\ VisitsIn(queue') = VisitsIn(queue) \cup {v}
    BY <1>1, <2>1, Appending
  <2>3. loop' \in LoopType /\ LoopShape(loop') /\ (loop' = loop \/ loop'.call = "none")
    BY <1>2, <1>4, <2>2 DEF QueueVisit
  <2>4. /\ locating \in [Visits -> {"no", "online", "offline", "done"}] /\ locating[v] \in {"online", "offline"}
        /\ locating' = [locating EXCEPT ![v] = "done"]
        /\ badge' = [badge EXCEPT ![v] = "pending"] /\ badge \in Badges
        /\ direct' \in {direct, [direct EXCEPT ![v] = "sent"]} /\ direct \in [Visits -> DirectCalls]
    BY <1>4 DEF QueueVisit, TypeOK
  <2>5. TypeOK'
    BY <1>0, <2>2, <2>3, <2>4 DEF TypeOK, LoopType, Badges, Statuses, DirectCalls, Calls
  <2>6. Asleep' /\ SignedIn'
    BY <1>0, <2>4 DEF Asleep, SignedIn
  <2>7. AnswersBacked'
    BY <1>0, <2>3, <2>4 DEF AnswersBacked
  <2>8. v \notin VisitsIn(queue) /\ locating'[v] = "done"
        /\ \A w \in Visits : locating[w] = "done" => locating'[w] = "done"
    BY <2>4 DEF Known
  <2>9. Known(queue)' /\ Known(store.queue)' /\ Known(loaded.queue)'
    <3>1. Distinct(queue')
      BY <1>1, <2>1, <2>8, Appending DEF Known
    <3> QED BY <1>0, <1>1, <2>2, <2>8, <3>1, QueueType DEF Known, TypeOK
  <2>10. Backed(badge)' /\ Backed(store.badge)' /\ Backed(loaded.badge)'
    BY <1>0, <2>4 DEF Backed, Badges
  <2> QED BY <2>3, <2>5, <2>6, <2>7, <2>9, <2>10
<1>5. CASE DirectAnswer(v)
  <2>1. /\ queue' \in Seq(Items) /\ VisitsIn(queue') \subseteq VisitsIn(queue)
        /\ Distinct(queue) => Distinct(queue')
    BY <1>1, <1>5, QueueAnswered DEF DirectAnswer
  <2>2. loop' \in LoopType /\ LoopShape(loop') /\ (loop' = loop \/ loop'.call = "none")
    BY <1>2, <1>5, <2>1 DEF DirectAnswer
  <2>3. /\ direct[v] \in {"stored", "conflict", "failed"} /\ direct \in [Visits -> DirectCalls]
        /\ direct' = [direct EXCEPT ![v] = IF direct[v] = "stored" THEN "refresh" ELSE "none"]
        /\ badge' = [badge EXCEPT ![v] = IF direct[v] = "stored" THEN "synced" ELSE direct[v]]
        /\ badge \in Badges /\ UNCHANGED locating
    BY <1>5 DEF DirectAnswer, BadgeAfter, TypeOK
  <2>4. TypeOK'
    BY <1>0, <2>1, <2>2, <2>3 DEF TypeOK, LoopType, Badges, Statuses, DirectCalls, Calls
  <2>5. Asleep' /\ SignedIn'
    BY <1>0, <2>3 DEF Asleep, SignedIn, Blank
  <2>6. AnswersBacked'
    BY <1>0, <2>2, <2>3 DEF AnswersBacked
  <2>7. Known(queue)' /\ Known(store.queue)' /\ Known(loaded.queue)'
    BY <1>0, <2>1, <2>3 DEF Known
  <2>8. Backed(badge)' /\ Backed(store.badge)' /\ Backed(loaded.badge)'
    BY <1>0, <2>3 DEF Backed, Badges, AnswersBacked
  <2> QED BY <2>2, <2>4, <2>5, <2>6, <2>7, <2>8
<1>6. CASE DirectRefresh(v)
  <2>1. /\ direct[v] = "refresh" /\ direct' = [direct EXCEPT ![v] = "none"] /\ direct \in [Visits -> DirectCalls]
        /\ badge' \in {badge, [badge EXCEPT ![v] = "failed"]} /\ badge \in Badges
        /\ UNCHANGED <<queue, loop, locating>>
    BY <1>6 DEF DirectRefresh, TypeOK
  <2>2. TypeOK'
    BY <1>0, <2>1 DEF TypeOK, Badges, Statuses, DirectCalls, Calls
  <2>3. Asleep' /\ SignedIn'
    BY <1>0, <2>1 DEF Asleep, SignedIn, Blank
  <2>4. AnswersBacked'
    BY <1>0, <2>1 DEF AnswersBacked
  <2>5. Known(queue)' /\ Known(store.queue)' /\ Known(loaded.queue)'
    BY <1>0, <2>1 DEF Known
  <2>6. Backed(badge)' /\ Backed(store.badge)' /\ Backed(loaded.badge)'
    BY <1>0, <2>1 DEF Backed, Badges
  <2> QED BY <2>1, <2>2, <2>3, <2>4, <2>5, <2>6
<1> QED BY <1>3, <1>4, <1>5, <1>6 DEF Submitting

\* The sync loop.
LEMMA SyncingStep == Inv /\ Syncing => Inv'
<1> SUFFICES ASSUME Inv, Syncing PROVE Inv'
  OBVIOUS
<1> USE DEF Inv
<1>0. /\ Service!TypeOK' /\ \A w : OnRecord(w) = OnRecord(w)'
      /\ UNCHANGED <<app, token, online, locating, direct, store, loaded, orphans, crashes>>
  BY DEF Syncing, SyncNow, LoopNext, LoopAnswer, LoopRefresh, ServiceUnchanged, TypeOK,
     Service!TypeOK, OnRecord
<1>1. queue \in Seq(Items) /\ loop \in LoopType /\ badge \in Badges
  BY DEF TypeOK, LoopType
<1>2. app \notin {"off", "booting"}
  BY DEF Asleep, Syncing, SyncNow, LoopNext, LoopAnswer, LoopRefresh, IdleLoop
<1>3. ASSUME /\ queue' \in Seq(Items) /\ VisitsIn(queue') \subseteq VisitsIn(queue)
             /\ Distinct(queue) => Distinct(queue')
             /\ badge' \in Badges /\ Backed(badge')
             /\ loop' \in LoopType /\ LoopShape(loop') /\ loop'.call # "stored"
      PROVE  Inv'
  <2>1. TypeOK'
    BY <1>0, <1>3 DEF TypeOK, LoopType
  <2>2. Asleep' /\ SignedIn' /\ AnswersBacked'
    BY <1>0, <1>2, <1>3 DEF Asleep, SignedIn, AnswersBacked
  <2>3. Known(queue)' /\ Known(store.queue)' /\ Known(loaded.queue)'
    BY <1>0, <1>3 DEF Known
  <2>4. Backed(badge)' /\ Backed(store.badge)' /\ Backed(loaded.badge)'
    BY <1>0, <1>3 DEF Backed
  <2> QED BY <1>3, <2>1, <2>2, <2>3, <2>4
<1>4. CASE SyncNow
  <2>1. queue' = queue /\ badge' = badge /\ loop' = SnapshotOf(queue)
    BY <1>4 DEF SyncNow
  <2> QED BY <1>1, <1>3, <2>1, Snapshot
<1>5. CASE LoopNext
  <2>1. badge' = badge /\ loop.call = "none"
    BY <1>5 DEF LoopNext, LoopShape
  <2>2. CASE /\ loop.todo # <<>> /\ queue' = SetStatus(queue, Head(loop.todo), "syncing")
             /\ loop' = [loop EXCEPT !.at = "waiting", !.call = "sent"]
    <3>1. /\ queue' \in Seq(Items) /\ VisitsIn(queue') = VisitsIn(queue)
          /\ Distinct(queue) => Distinct(queue')
      BY <1>1, <2>2, Restating DEF Statuses
    <3>2. loop' \in LoopType /\ LoopShape(loop') /\ loop'.call = "sent"
      BY <1>1, <2>2 DEF LoopType, LoopShape, Calls
    <3> QED BY <1>1, <1>3, <2>1, <3>1, <3>2
  <2>3. CASE /\ queue' = queue
             /\ loop' = IF loop.didChange THEN [loop EXCEPT !.at = "refresh"] ELSE IdleLoop
    <3>1. loop' \in LoopType /\ LoopShape(loop') /\ loop'.call = "none"
      <4>1. CASE loop' = IdleLoop
        BY <4>1, IdleLoopType
      <4>2. CASE loop' = [loop EXCEPT !.at = "refresh"]
        BY <1>1, <2>1, <4>2 DEF LoopType, LoopShape
      <4> QED BY <2>3, <4>1, <4>2
    <3> QED BY <1>1, <1>3, <2>1, <2>3, <3>1
  <2> QED BY <1>5, <2>2, <2>3 DEF LoopNext
<1>6. CASE LoopAnswer
  <2>1. /\ loop.call \in {"stored", "conflict", "failed"}
        /\ loop.todo \in Seq(Visits) /\ loop.todo # <<>>
    BY <1>1, <1>6 DEF LoopAnswer, LoopType, LoopShape, Calls
  <2>2. PICK v \in Visits : v = Head(loop.todo)
    BY <2>1, HeadTailProperties
  <2>3. /\ queue' \in Seq(Items) /\ VisitsIn(queue') \subseteq VisitsIn(queue)
        /\ Distinct(queue) => Distinct(queue')
    BY <1>1, <1>6, <2>1, <2>2, QueueAnswered DEF LoopAnswer
  <2>4. badge' = [badge EXCEPT ![v] = IF loop.call = "stored" THEN "synced" ELSE loop.call]
    BY <1>6, <2>2 DEF LoopAnswer, BadgeAfter
  <2>5. badge' \in Badges /\ Backed(badge')
    BY <1>0, <1>1, <2>1, <2>2, <2>4 DEF Badges, Statuses, Backed, AnswersBacked
  <2>6. loop' \in LoopType /\ LoopShape(loop') /\ loop'.call = "none"
    <3>1. Tail(loop.todo) \in Seq(Visits) /\ loop.didChange \in BOOLEAN
      BY <1>1, <2>1, HeadTailProperties DEF LoopType
    <3>2. (loop.didChange \/ loop.call = "stored") \in BOOLEAN
      OBVIOUS
    <3> QED BY <1>6, <3>1, <3>2 DEF LoopAnswer, LoopType, LoopShape, Calls
  <2> QED BY <1>3, <2>3, <2>5, <2>6
<1>7. CASE LoopRefresh
  <2>1. queue' = queue /\ badge' = badge /\ loop' = IdleLoop
    BY <1>7 DEF LoopRefresh, Released
  <2> QED BY <1>1, <1>3, <2>1, IdleLoopType
<1> QED BY <1>4, <1>5, <1>6, <1>7 DEF Syncing

\* The network and the service.
LEMMA NetworkStep == Inv /\ Network => Inv'
<1> SUFFICES ASSUME Inv, Network PROVE Inv'
  OBVIOUS
<1> USE DEF Inv
<1>0. UNCHANGED <<app, token, online, queue, badge, locating, store, loaded, crashes>>
  BY DEF Network, ServeLoop, LoseLoop, ServeDirect, ServeOrphan, LoseDirect, Resolve, device
<1>1. loop \in LoopType /\ direct \in [Visits -> DirectCalls] /\ Service!TypeOK /\ orphans \subseteq Visits
  BY DEF TypeOK, LoopType
<1>2. loop.call # "none" => Head(loop.todo) \in Visits /\ loop.todo # <<>> /\ loop.at = "waiting"
  BY <1>1, HeadTailProperties DEF LoopType, LoopShape
<1>3. ASSUME /\ Service!TypeOK' /\ \A v \in Visits : OnRecord(v) => OnRecord(v)'
             /\ orphans' \subseteq Visits
             /\ loop' \in LoopType /\ LoopShape(loop') /\ direct' \in [Visits -> DirectCalls]
             /\ AnswersBacked'
             /\ app \in {"off", "booting"} => loop' = loop /\ direct' = direct
      PROVE  Inv'
  <2>1. TypeOK'
    BY <1>0, <1>3 DEF TypeOK, LoopType
  <2>2. Asleep' /\ SignedIn'
    BY <1>0, <1>3 DEF Asleep, SignedIn
  <2>3. Known(queue)' /\ Known(store.queue)' /\ Known(loaded.queue)'
    BY <1>0 DEF Known
  <2>4. Backed(badge)' /\ Backed(store.badge)' /\ Backed(loaded.badge)'
    BY <1>0, <1>3 DEF Backed
  <2> QED BY <1>3, <2>1, <2>2, <2>3, <2>4
<1>4. CASE ServeLoop
  <2>1. /\ loop.call = "sent" /\ Service!Handle(Head(loop.todo)) /\ Head(loop.todo) \in Visits
        /\ loop' = [loop EXCEPT !.call = AnswerToCall] /\ direct' = direct /\ orphans' = orphans
    BY <1>2, <1>4 DEF ServeLoop
  <2>2. PICK v \in Visits : v = Head(loop.todo)
    BY <2>1
  <2>3. Service!TypeOK' /\ \A w \in Visits : OnRecord(w) => OnRecord(w)'
    BY <1>1, <2>1, <2>2, Serving
  <2>4. AnswerToCall \in {"stored", "conflict", "failed"} /\ (AnswerToCall = "stored" => OnRecord(v)')
    BY <1>1, <2>1, <2>2, Answering
  <2>5. loop' \in LoopType /\ loop'.call = AnswerToCall /\ loop'.todo = loop.todo /\ loop'.at = loop.at
    BY <1>1, <2>1, <2>4 DEF LoopType, Calls
  <2>6. LoopShape(loop')
    BY <1>2, <2>1, <2>4, <2>5 DEF LoopShape
  <2>7. AnswersBacked'
    BY <2>1, <2>2, <2>3, <2>4, <2>5 DEF AnswersBacked
  <2>8. app \notin {"off", "booting"}
    BY <2>1, IdleLoopType DEF Asleep
  <2> QED BY <1>1, <1>3, <2>1, <2>3, <2>5, <2>6, <2>7, <2>8
<1>5. CASE LoseLoop
  <2>1. /\ loop.call \in {"sent", "stored", "conflict"} /\ Head(loop.todo) \in Visits
        /\ loop' = [loop EXCEPT !.call = "failed"] /\ direct' = direct
        /\ orphans' \in {orphans, orphans \cup {Head(loop.todo)}} /\ ServiceUnchanged
    BY <1>2, <1>5 DEF LoseLoop
  <2>2. Service!TypeOK' /\ \A w : OnRecord(w) = OnRecord(w)'
    BY <1>1, <2>1 DEF ServiceUnchanged, Service!TypeOK, OnRecord
  <2>3. loop' \in LoopType /\ loop'.call = "failed" /\ LoopShape(loop')
    BY <1>1, <1>2, <2>1 DEF LoopType, Calls, LoopShape
  <2>4. AnswersBacked'
    BY <2>1, <2>2, <2>3 DEF AnswersBacked
  <2>5. app \notin {"off", "booting"}
    BY <2>1, IdleLoopType DEF Asleep
  <2> QED BY <1>1, <1>3, <2>1, <2>2, <2>3, <2>4, <2>5
<1>6. ASSUME NEW v \in Visits, ServeDirect(v) PROVE Inv'
  <2>1. /\ direct[v] = "sent" /\ Service!Handle(v)
        /\ direct' = [direct EXCEPT ![v] = AnswerToCall] /\ loop' = loop /\ orphans' = orphans
    BY <1>6 DEF ServeDirect
  <2>2. Service!TypeOK' /\ \A w \in Visits : OnRecord(w) => OnRecord(w)'
    BY <1>1, <2>1, Serving
  <2>3. AnswerToCall \in {"stored", "conflict", "failed"} /\ (AnswerToCall = "stored" => OnRecord(v)')
    BY <1>1, <2>1, Answering
  <2>4. direct' \in [Visits -> DirectCalls]
    BY <1>1, <2>1, <2>3 DEF DirectCalls, Calls
  <2>5. AnswersBacked'
    BY <1>1, <1>2, <2>1, <2>2, <2>3 DEF AnswersBacked
  <2>6. app \notin {"off", "booting"}
    BY <2>1 DEF Asleep, Blank
  <2> QED BY <1>1, <1>3, <2>1, <2>2, <2>4, <2>5, <2>6
<1>7. ASSUME NEW v \in Visits, LoseDirect(v) PROVE Inv'
  <2>1. /\ direct[v] \in {"sent", "stored", "conflict"}
        /\ direct' = [direct EXCEPT ![v] = "failed"] /\ loop' = loop
        /\ orphans' \in {orphans, orphans \cup {v}} /\ ServiceUnchanged
    BY <1>7 DEF LoseDirect
  <2>2. Service!TypeOK' /\ \A w : OnRecord(w) = OnRecord(w)'
    BY <1>1, <2>1 DEF ServiceUnchanged, Service!TypeOK, OnRecord
  <2>3. direct' \in [Visits -> DirectCalls]
    BY <1>1, <2>1 DEF DirectCalls, Calls
  <2>4. AnswersBacked'
    BY <1>1, <2>1, <2>2 DEF AnswersBacked
  <2>5. app \notin {"off", "booting"}
    BY <2>1 DEF Asleep, Blank
  <2> QED BY <1>1, <1>3, <2>1, <2>2, <2>3, <2>4, <2>5
<1>8. ASSUME NEW v \in Visits, ServeOrphan(v) \/ Resolve(v) PROVE Inv'
  <2>1. /\ Service!Handle(v) \/ Service!Resolve(v)
        /\ direct' = direct /\ loop' = loop /\ orphans' \subseteq orphans
    BY <1>8 DEF ServeOrphan, Resolve, device
  <2>2. Service!TypeOK' /\ \A w \in Visits : OnRecord(w) => OnRecord(w)'
    BY <1>1, <2>1, Serving
  <2>3. AnswersBacked'
    BY <1>2, <2>1, <2>2 DEF AnswersBacked
  <2> QED BY <1>1, <1>3, <2>1, <2>2, <2>3
<1> QED BY <1>4, <1>5, <1>6, <1>7, <1>8 DEF Network

LEMMA StutterStep == Inv /\ UNCHANGED vars => Inv'
BY DEF Inv, TypeOK, Service!TypeOK, LoopShape, Asleep, SignedIn, Known, Backed, OnRecord,
   AnswersBacked, vars, device

LEMMA Invariance == Inv /\ [Next]_vars => Inv'
BY LifeCycleStep, AroundStep, SubmittingStep, SyncingStep, NetworkStep, StutterStep DEF Next

-----------------------------------------------------------------------------
\* Every state of the phone, of the store and of the posts on their way is
\* of the type the code declares, through kills, restarts and lost answers.
THEOREM TypeCorrect == Spec => []TypeOK
<1>1. Inv => TypeOK
  BY DEF Inv
<1> QED BY <1>1, InitInv, Invariance, PTL DEF Spec

\* A household the phone shows as synced has its visit on record, whichever
\* of the two callers posted it, whatever was lost, killed and restored.
THEOREM SyncedOnRecord == Spec => []SyncedIsRecorded
<1>1. Inv => SyncedIsRecorded
  BY DEF Inv, Backed, OnRecord, SyncedIsRecorded
<1> QED BY <1>1, InitInv, Invariance, PTL DEF Spec

\* A visit is in the queue once, after any number of restarts: the saved
\* queue never fails on its primary key.
THEOREM OnceQueued == Spec => []QueuedOnce
<1>1. Inv => QueuedOnce
  BY DEF Inv, Known, Distinct, QueuedOnce
<1> QED BY <1>1, InitInv, Invariance, PTL DEF Spec

\* Who takes a visit from the queue: only an answer that it was stored, the
\* end of the process, and the end of the session.
LEMMA LeavingStep ==
    ASSUME Inv, Next, NEW v \in VisitsIn(queue) \ VisitsIn(queue')
    PROVE  OnRecord(v) \/ app' = "off" \/ (token /\ ~token')
<1> USE DEF Inv
<1>0. queue \in Seq(Items) /\ queue' # queue
  BY DEF TypeOK
<1>1. CASE LifeCycle
  <2>1. CASE Launch \/ BootstrapLoads \/ BootstrapFails
    BY <1>0, <2>1 DEF Launch, BootstrapLoads, BootstrapFails
  <2>2. CASE Restore
    BY <2>2, NothingQueued DEF Restore, Asleep
  <2>3. CASE BootstrapRejectsRole
    BY <2>3 DEF BootstrapRejectsRole, SignedIn
  <2>4. CASE Kill
    BY <2>4 DEF Kill
  <2> QED BY <1>1, <2>1, <2>2, <2>3, <2>4 DEF LifeCycle
<1>2. CASE Saving \/ Surroundings
  BY <1>0, <1>2 DEF Saving, SaveQueue, SaveAddressState, SaveSession, Surroundings, Login, Logout,
     GoOffline, GoOnline
<1>3. CASE Network
  BY <1>0, <1>3 DEF Network, ServeLoop, LoseLoop, ServeDirect, ServeOrphan, LoseDirect, Resolve, device
<1>4. CASE Syncing
  <2>1. CASE SyncNow \/ LoopRefresh
    BY <1>0, <2>1 DEF SyncNow, LoopRefresh
  <2>2. CASE LoopNext
    BY <1>0, <2>2, Restating DEF LoopNext, Statuses
  <2>3. CASE LoopAnswer
    <3>1. loop.call \in {"stored", "conflict", "failed"}
      BY <2>3 DEF LoopAnswer, TypeOK, LoopShape, Calls
    <3>2. v \in (IF loop.call = "stored" THEN {Head(loop.todo)} ELSE {})
      BY <1>0, <2>3, <3>1, QueueAnswered DEF LoopAnswer
    <3> QED BY <3>2 DEF AnswersBacked
  <2> QED BY <1>4, <2>1, <2>2, <2>3 DEF Syncing
<1>5. ASSUME NEW w \in Visits, Submitting(w) PROVE OnRecord(v)
  <2>1. CASE SubmitVisit(w) \/ DirectRefresh(w)
    BY <1>0, <2>1 DEF SubmitVisit, DirectRefresh
  <2>2. CASE QueueVisit(w)
    <3>1. PICK item \in Items : queue' = Append(queue, item)
      <4>1. PICK status \in Statuses : queue' = Append(queue, [visit |-> w, status |-> status])
        BY <2>2 DEF QueueVisit, Statuses
      <4>2. [visit |-> w, status |-> status] \in Items
        BY DEF Items
      <4> QED BY <4>1, <4>2
    <3> QED BY <1>0, <3>1, Appending
  <2>3. CASE DirectAnswer(w)
    <3>1. v \in (IF direct[w] = "stored" THEN {w} ELSE {})
      BY <1>0, <2>3, QueueAnswered DEF DirectAnswer
    <3> QED BY <3>1 DEF AnswersBacked
  <2> QED BY <1>5, <2>1, <2>2, <2>3 DEF Submitting
<1> QED BY <1>1, <1>2, <1>3, <1>4, <1>5 DEF Next

\* A visit leaves the queue only when the service has it, the app was killed
\* or the canvasser's session ended.
THEOREM LeavesRecorded == Spec => LeavesOnceRecorded
<1>1. Inv /\ [Next]_vars =>
        [\A v \in VisitsIn(queue) \ VisitsIn(queue') :
            ledger[v] # "absent" \/ app' = "off" \/ (token /\ ~token')]_vars
  BY LeavingStep DEF OnRecord
<1> QED BY <1>1, InitInv, Invariance, PTL DEF Spec, LeavesOnceRecorded
=============================================================================
