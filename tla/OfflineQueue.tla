----------------------------- MODULE OfflineQueue -----------------------------
(***************************************************************************)
(* The canvasser's phone: AppProvider (mobile-app/src/context/             *)
(* AppContext.tsx) and its SQLite store (mobile-app/src/storage.ts), with  *)
(* the service as VisitLedger.  Visits are queued in memory, saved by      *)
(* effects that lag behind, and posted by two independent callers: the     *)
(* submitting screen and the sync loop.  The app may be killed and started *)
(* again, posts and answers may be lost, connectivity and sign-in change   *)
(* at any time.                                                            *)
(*                                                                         *)
(* Each visit here is about a household of its own, so the household's     *)
(* addressState entry (its badge) is kept per visit.  React flushes the    *)
(* auto-sync effect with the values of the commit that changed one of its  *)
(* dependencies, so the effect is part of the step that changes them.      *)
(* Writes of the whole queue are issued in order; the store holds some     *)
(* recent value of the memory's queue.  Definitions named ...Mutant are    *)
(* plausible bugs in the definition that follows them.                     *)
(***************************************************************************)
EXTENDS Naturals, Sequences, FiniteSets

CONSTANTS Visits,
          MaxCrashes      \* bound: times the app is killed
ASSUME MaxCrashesAssumption == MaxCrashes \in Nat

VARIABLES app,       \* "off", "booting" (store not read), "checking", "on"
          token,     \* signed in, in memory
          online,    \* isOnline
          queue,     \* queued visits with their syncStatus, oldest first
          badge,     \* what the visit's household shows
          locating,  \* submitVisit before its GPS answer, with its isOnline
          direct,    \* the submitting screen's own post
          loop,      \* the sync loop (syncingRef is set unless "idle")
          store,     \* SQLite: token, queue, badge
          loaded,    \* what loadSession read
          orphans,   \* posts on their way whose sender was killed
          crashes,
          ledger, reply

device == <<app, token, online, queue, badge, locating, direct, loop, store,
            loaded, orphans, crashes>>
vars == <<device, ledger, reply>>

Service == INSTANCE VisitLedger

Statuses == {"pending", "syncing", "failed", "conflict"}
Items == [visit : Visits, status : Statuses]
Badges == [Visits -> {"none", "synced"} \cup Statuses]
Calls == {"none", "sent", "stored", "conflict", "failed"}
DirectCalls == Calls \cup {"refresh"}
IdleLoop == [at |-> "idle", todo |-> <<>>, call |-> "none", didChange |-> FALSE]

TypeOK ==
    /\ app \in {"off", "booting", "checking", "on"}
    /\ token \in BOOLEAN /\ online \in BOOLEAN
    /\ queue \in Seq(Items) /\ badge \in Badges
    /\ locating \in [Visits -> {"no", "online", "offline", "done"}]
    /\ direct \in [Visits -> DirectCalls]
    /\ loop \in [at : {"idle", "next", "waiting", "refresh"}, todo : Seq(Visits),
                 call : Calls, didChange : BOOLEAN]
    /\ store \in [token : BOOLEAN, queue : Seq(Items), badge : Badges]
    /\ loaded \in [token : BOOLEAN, queue : Seq(Items), badge : Badges]
    /\ orphans \subseteq Visits
    /\ crashes \in 0 .. MaxCrashes
    /\ Service!TypeOK

Blank == [v \in Visits |-> "none"]
EmptyStore == [token |-> FALSE, queue |-> <<>>, badge |-> Blank]

Init ==
    /\ app = "booting" /\ token = FALSE /\ online = TRUE
    /\ queue = <<>> /\ badge = Blank
    /\ locating = [v \in Visits |-> "no"]
    /\ direct = Blank /\ loop = IdleLoop
    /\ store = EmptyStore /\ loaded = EmptyStore
    /\ orphans = {} /\ crashes = 0
    /\ Service!Init

-----------------------------------------------------------------------------
VisitsIn(q) == {q[i].visit : i \in DOMAIN q}

\* queue.filter: the items that are not about v, in their order.
Without(q, v) ==
    LET kept == {i \in DOMAIN q : q[i].visit # v}
        place == [i \in kept |-> Cardinality({j \in kept : j <= i})]
    IN [n \in 1 .. Cardinality(kept) |-> q[CHOOSE i \in kept : place[i] = n]]

SetStatus(q, v, status) ==
    [i \in DOMAIN q |-> IF q[i].visit = v THEN [q[i] EXCEPT !.status = status] ELSE q[i]]

(* The auto-sync effect, run on the values a commit leaves behind.         *)
Syncable(q) == \E i \in DOMAIN q : q[i].status \in {"pending", "failed"}

SnapshotOf(q) == [IdleLoop EXCEPT !.at = "next", !.todo = [i \in DOMAIN q |-> q[i].visit]]

(* l is the loop without the effect: a running one is left alone. *)
AutoSync(l, isOnline, tok, q) ==
    IF l.at = "idle" /\ isOnline /\ tok /\ Syncable(q) THEN SnapshotOf(q) ELSE l

QueueLengthEffect(l, q) ==
    IF Len(q) = Len(queue) THEN l ELSE AutoSync(l, online, token, q)

Running == app \in {"checking", "on"}
ServiceUnchanged == UNCHANGED <<ledger, reply>>

-----------------------------------------------------------------------------
(* Start and stop. *)

(* bootstrap reads the store when the app mounts; the effects that save    *)
(* the empty queue of the first render are already on their way.           *)
Launch ==
    /\ app = "off"
    /\ app' = "booting" /\ loaded' = store
    /\ online' = TRUE
    /\ UNCHANGED <<token, queue, badge, locating, direct, loop, store, orphans,
                   crashes>> /\ ServiceUnchanged

(* loadSession answered: what it read replaces the memory. *)
Restore ==
    /\ app = "booting"
    /\ app' = IF loaded.token THEN "checking" ELSE "on"
    /\ token' = loaded.token /\ queue' = loaded.queue /\ badge' = loaded.badge
    /\ loop' = AutoSync(loop, online, loaded.token, loaded.queue)
    /\ loaded' = EmptyStore
    /\ UNCHANGED <<online, locating, direct, store, orphans, crashes>>
    /\ ServiceUnchanged

(* me, the turf snapshot, the outcomes and the requests were loaded, or    *)
(* one of them failed: then the session is cleared and the queue kept.     *)
BootstrapLoads ==
    /\ app = "checking"
    /\ app' = "on"
    /\ UNCHANGED <<token, online, queue, badge, locating, direct, loop, store, loaded,
                   orphans, crashes>> /\ ServiceUnchanged

BootstrapFails ==
    /\ app = "checking"
    /\ app' = "on" /\ token' = FALSE /\ store' = [store EXCEPT !.token = FALSE]
    /\ UNCHANGED <<online, queue, badge, locating, direct, loop, loaded, orphans, crashes>> /\ ServiceUnchanged

(* The account is no longer a canvasser's. *)
BootstrapRejectsRole ==
    /\ app = "checking"
    /\ app' = "on" /\ token' = FALSE /\ store' = [store EXCEPT !.token = FALSE]
    /\ queue' = <<>> /\ badge' = Blank
    /\ UNCHANGED <<online, locating, direct, loop, loaded, orphans, crashes>>
    /\ ServiceUnchanged

(* The system or the user kills the app: memory is gone, posts that were   *)
(* sent may still arrive.                                                  *)
Kill ==
    /\ app # "off" /\ crashes < MaxCrashes
    /\ crashes' = crashes + 1
    /\ app' = "off" /\ token' = FALSE /\ queue' = <<>> /\ badge' = Blank
    /\ locating' = [v \in Visits |-> IF locating[v] = "done" THEN "done" ELSE "no"]
    /\ direct' = Blank /\ loop' = IdleLoop /\ loaded' = EmptyStore
    /\ orphans' = orphans \cup {v \in Visits : direct[v] = "sent"}
                       \cup {v \in Visits : loop.call = "sent" /\ v = Head(loop.todo)}
    /\ UNCHANGED <<online, store>> /\ ServiceUnchanged

-----------------------------------------------------------------------------
(* The saving effects. *)
SaveQueue ==
    /\ app # "off" /\ store.queue # queue
    /\ store' = [store EXCEPT !.queue = queue]
    /\ UNCHANGED <<app, token, online, queue, badge, locating, direct, loop, loaded,
                   orphans, crashes>> /\ ServiceUnchanged

SaveAddressState ==
    /\ app # "off" /\ store.badge # badge
    /\ store' = [store EXCEPT !.badge = badge]
    /\ UNCHANGED <<app, token, online, queue, badge, locating, direct, loop, loaded,
                   orphans, crashes>> /\ ServiceUnchanged

(* saveSession after login, clearSession after logout. *)
SaveSession ==
    /\ app = "on" /\ store.token # token
    /\ store' = [store EXCEPT !.token = token]
    /\ UNCHANGED <<app, token, online, queue, badge, locating, direct, loop, loaded,
                   orphans, crashes>> /\ ServiceUnchanged

-----------------------------------------------------------------------------
(* Sign-in and connectivity. *)
Login ==
    /\ app = "on" /\ ~token
    /\ token' = TRUE
    /\ loop' = AutoSync(loop, online, TRUE, queue)
    /\ UNCHANGED <<app, online, queue, badge, locating, direct, store, loaded, orphans,
                   crashes>> /\ ServiceUnchanged

Logout ==
    /\ app = "on" /\ token
    /\ token' = FALSE /\ queue' = <<>> /\ badge' = Blank
    /\ UNCHANGED <<app, online, locating, direct, loop, store, loaded, orphans, crashes>>
    /\ ServiceUnchanged

GoOffline ==
    /\ app # "off" /\ online
    /\ online' = FALSE
    /\ UNCHANGED <<app, token, queue, badge, locating, direct, loop, store, loaded,
                   orphans, crashes>> /\ ServiceUnchanged

OnlineEffectMutant == loop
OnlineEffect == AutoSync(loop, TRUE, token, queue)

GoOnline ==
    /\ app # "off" /\ ~online
    /\ online' = TRUE
    /\ loop' = OnlineEffect
    /\ UNCHANGED <<app, token, queue, badge, locating, direct, store, loaded, orphans,
                   crashes>> /\ ServiceUnchanged

-----------------------------------------------------------------------------
(* submitVisit: the location is awaited with the isOnline of the render it *)
(* was called in; then the visit is queued, even if the canvasser signed   *)
(* out meanwhile, and posted at once if that render was online.            *)
SubmitVisit(v) ==
    /\ app = "on" /\ token /\ locating[v] = "no"
    /\ locating' = [locating EXCEPT ![v] = IF online THEN "online" ELSE "offline"]
    /\ UNCHANGED <<app, token, online, queue, badge, direct, loop, store, loaded, orphans,
                   crashes>> /\ ServiceUnchanged

QueueVisit(v) ==
    /\ locating[v] \in {"online", "offline"}
    /\ locating' = [locating EXCEPT ![v] = "done"]
    /\ LET posted == locating[v] = "online" IN
       /\ queue' = Append(queue, [visit |-> v,
                                  status |-> IF posted THEN "syncing" ELSE "pending"])
       /\ direct' = IF posted THEN [direct EXCEPT ![v] = "sent"] ELSE direct
    /\ badge' = [badge EXCEPT ![v] = "pending"]
    /\ loop' = QueueLengthEffect(loop, queue')
    /\ UNCHANGED <<app, token, online, store, loaded, orphans, crashes>>
    /\ ServiceUnchanged

(* What the queue and the badge become on an answer: only a stored visit   *)
(* leaves the queue.                                                       *)
QueueAfterMutant(v, answer) == Without(queue, v)
QueueAfter(v, answer) ==
    IF answer = "stored" THEN Without(queue, v) ELSE SetStatus(queue, v, answer)

BadgeAfterMutant(v, answer) == [badge EXCEPT ![v] = "synced"]
BadgeAfter(v, answer) ==
    [badge EXCEPT ![v] = IF answer = "stored" THEN "synced" ELSE answer]

DirectAnswer(v) ==
    /\ direct[v] \in {"stored", "conflict", "failed"}
    /\ queue' = QueueAfter(v, direct[v])
    /\ badge' = BadgeAfter(v, direct[v])
    /\ direct' = [direct EXCEPT ![v] = IF @ = "stored" THEN "refresh" ELSE "none"]
    /\ loop' = QueueLengthEffect(loop, queue')
    /\ UNCHANGED <<app, token, online, locating, store, loaded, orphans, crashes>>
    /\ ServiceUnchanged

(* refreshTurf after a stored visit; when it fails, submitVisit's catch    *)
(* marks the household failed although the visit is gone from the queue.   *)
DirectRefresh(v) ==
    /\ direct[v] = "refresh"
    /\ direct' = [direct EXCEPT ![v] = "none"]
    /\ badge' \in {badge, [badge EXCEPT ![v] = "failed"]}
    /\ UNCHANGED <<app, token, online, queue, locating, loop, store, loaded, orphans,
                   crashes>> /\ ServiceUnchanged

-----------------------------------------------------------------------------
(* syncQueue works through the queue of the render it was called in.       *)
SyncNow ==
    /\ app = "on" /\ token /\ loop.at = "idle" /\ queue # <<>>
    /\ loop' = SnapshotOf(queue)
    /\ UNCHANGED <<app, token, online, queue, badge, locating, direct, store, loaded,
                   orphans, crashes>> /\ ServiceUnchanged

LoopNext ==
    /\ loop.at = "next"
    /\ \/ /\ loop.todo # <<>>
          /\ queue' = SetStatus(queue, Head(loop.todo), "syncing")
          /\ loop' = [loop EXCEPT !.at = "waiting", !.call = "sent"]
       \/ /\ loop.todo = <<>>
          /\ loop' = IF loop.didChange THEN [loop EXCEPT !.at = "refresh"] ELSE IdleLoop
          /\ UNCHANGED queue
    /\ UNCHANGED <<app, token, online, badge, locating, direct, store, loaded, orphans,
                   crashes>> /\ ServiceUnchanged

LoopAnswer ==
    /\ loop.at = "waiting" /\ loop.call # "sent"
    /\ queue' = QueueAfter(Head(loop.todo), loop.call)
    /\ badge' = BadgeAfter(Head(loop.todo), loop.call)
    /\ loop' = [at |-> "next", todo |-> Tail(loop.todo), call |-> "none",
                didChange |-> loop.didChange \/ loop.call = "stored"]
    /\ UNCHANGED <<app, token, online, locating, direct, store, loaded, orphans, crashes>> /\ ServiceUnchanged

(* The turf is reloaded, or fails to; finally releases syncingRef.         *)
ReleasedMutant == [loop EXCEPT !.call = "none"]
Released == IdleLoop

LoopRefresh ==
    /\ loop.at = "refresh"
    /\ loop' = Released
    /\ UNCHANGED <<app, token, online, queue, badge, locating, direct, store, loaded,
                   orphans, crashes>> /\ ServiceUnchanged

-----------------------------------------------------------------------------
(* The network and the service. *)
AnswerToCall == IF reply'.answer = "refused" THEN "failed" ELSE reply'.answer

ServeDirect(v) ==
    /\ direct[v] = "sent"
    /\ Service!Handle(v)
    /\ direct' = [direct EXCEPT ![v] = AnswerToCall]
    /\ UNCHANGED <<app, token, online, queue, badge, locating, loop, store, loaded,
                   orphans, crashes>>

ServeLoop ==
    /\ loop.call = "sent"
    /\ Service!Handle(Head(loop.todo))
    /\ loop' = [loop EXCEPT !.call = AnswerToCall]
    /\ UNCHANGED <<app, token, online, queue, badge, locating, direct, store, loaded,
                   orphans, crashes>>

ServeOrphan(v) ==
    /\ v \in orphans
    /\ Service!Handle(v)
    /\ orphans' = orphans \ {v}
    /\ UNCHANGED <<app, token, online, queue, badge, locating, direct, loop, store,
                   loaded, crashes>>

(* A post, or the answer to it, is lost; the post may still arrive later.  *)
LoseDirect(v) ==
    /\ direct[v] \in {"sent", "stored", "conflict"}
    /\ direct' = [direct EXCEPT ![v] = "failed"]
    /\ orphans' \in {orphans} \cup (IF direct[v] = "sent" THEN {orphans \cup {v}} ELSE {})
    /\ UNCHANGED <<app, token, online, queue, badge, locating, loop, store, loaded, crashes>> /\ ServiceUnchanged

LoseLoop ==
    /\ loop.call \in {"sent", "stored", "conflict"}
    /\ loop' = [loop EXCEPT !.call = "failed"]
    /\ orphans' \in {orphans} \cup
          (IF loop.call = "sent" THEN {orphans \cup {Head(loop.todo)}} ELSE {})
    /\ UNCHANGED <<app, token, online, queue, badge, locating, direct, store, loaded,
                   crashes>> /\ ServiceUnchanged

Resolve(v) == Service!Resolve(v) /\ UNCHANGED device

-----------------------------------------------------------------------------
LifeCycle == Launch \/ Restore \/ BootstrapLoads \/ BootstrapFails \/ BootstrapRejectsRole
             \/ Kill
Saving == SaveQueue \/ SaveAddressState \/ SaveSession
Surroundings == Login \/ Logout \/ GoOffline \/ GoOnline
Submitting(v) == SubmitVisit(v) \/ QueueVisit(v) \/ DirectAnswer(v) \/ DirectRefresh(v)
Syncing == SyncNow \/ LoopNext \/ LoopAnswer \/ LoopRefresh
Network == \/ ServeLoop \/ LoseLoop
           \/ \E v \in Visits : ServeDirect(v) \/ ServeOrphan(v) \/ LoseDirect(v) \/ Resolve(v)

Next == LifeCycle \/ Saving \/ Surroundings \/ Syncing \/ Network
        \/ \E v \in Visits : Submitting(v)

Spec == Init /\ [][Next]_vars

(* The JavaScript engine keeps running pending callbacks, and every post   *)
(* is answered or fails: fetch settles.  Nothing is assumed of the user,   *)
(* the network's quality or the service's verdict.                         *)
Fairness == /\ WF_vars(Restore) /\ WF_vars(BootstrapLoads)
            /\ WF_vars(LoopNext) /\ WF_vars(LoopAnswer) /\ WF_vars(LoopRefresh)
            /\ WF_vars(ServeLoop \/ LoseLoop)
            /\ \A v \in Visits : /\ WF_vars(QueueVisit(v)) /\ WF_vars(DirectAnswer(v))
                                 /\ WF_vars(DirectRefresh(v))
                                 /\ WF_vars(ServeDirect(v) \/ LoseDirect(v))

FairSpec == Spec /\ Fairness

-----------------------------------------------------------------------------
(* A visit is in the queue once; a repeated uuid would also make every     *)
(* later save of the queue fail on the table's primary key.                *)
QueuedOnce ==
    \A i, j \in DOMAIN queue : queue[i].visit = queue[j].visit => i = j

(* Signing out, losing the role and being killed aside, a visit leaves the *)
(* queue only once the service has it, whichever caller posted it and      *)
(* whatever was lost on the way.                                           *)
LeavesOnceRecorded ==
    [][\A v \in VisitsIn(queue) \ VisitsIn(queue') :
          ledger[v] # "absent" \/ app' = "off" \/ (token /\ ~token')]_vars

(* A household is shown as synced only when its visit is on record. *)
SyncedIsRecorded == \A v \in Visits : badge[v] = "synced" => ledger[v] # "absent"

(* A sync that started comes to an end and lets the next one start. *)
SyncEnds == (loop.at # "idle") ~> (loop.at = "idle")

(* "Auto-sync on connectivity return": while connectivity keeps returning, *)
(* a pending or failed visit of a signed-in canvasser is sent again.       *)
Waiting(v) ==
    /\ app = "on" /\ token
    /\ \E i \in DOMAIN queue : queue[i].visit = v /\ queue[i].status \in {"pending", "failed"}

AutoSyncOnReturn ==
    []<>online /\ []<>(~online) => \A v \in Visits : Waiting(v) ~> ~Waiting(v)

(* "It will retry automatically", said when a post fails. *)
RetriesAutomatically ==
    \A v \in Visits :
        (\E i \in DOMAIN queue : queue[i] = [visit |-> v, status |-> "failed"])
        ~> ~(app = "on" /\ online /\ token
             /\ \E i \in DOMAIN queue : queue[i] = [visit |-> v, status |-> "failed"])

(* "Pending records must survive app close, restart, and device restart":  *)
(* what a start read from the store is in memory, in the store or on       *)
(* record whatever the next step is.                                       *)
SavedIsNotLost ==
    [][\A v \in VisitsIn(loaded.queue) :
          \/ v \in VisitsIn(queue') \cup VisitsIn(loaded'.queue) \cup VisitsIn(store'.queue)
          \/ ledger[v] # "absent"]_vars
=============================================================================
