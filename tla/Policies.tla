------------------------------- MODULE Policies -------------------------------
(***************************************************************************)
(* PoliciesService: the organization and each campaign may keep a record   *)
(* of operational settings; a campaign without one uses the organization's *)
(* and an organization without one the defaults of the server, which       *)
(* environment variables set (Environment says what they ask, Unset a       *)
(* variable that is unset or no positive number).  A save fills every      *)
(* field of the record, from the request or from what was in effect when   *)
(* the request began.  Of the fields, the two retention periods and the    *)
(* outcome fallback are kept; a period of 0 stands for no period.          *)
(***************************************************************************)
EXTENDS Naturals

CONSTANTS Campaigns, Org,     \* the scopes of records and of administrators
          ArchiveDays, PurgeDays, Environment,
          Savers,             \* requests handled at once, in several steps
          Unset

VARIABLES policy, saving

Levels == Campaigns \cup {Org}
Policy == [archive : ArchiveDays \cup {0}, purge : PurgeDays \cup {0}, fallback : BOOLEAN]
Inputs == [archive : ArchiveDays \cup {Unset}, purge : PurgeDays \cup {Unset},
           fallback : BOOLEAN \cup {Unset}]
NotSaving == [at |-> "idle"]
Saves == [at : {"save"}, by : Levels, of : Levels, next : Policy]

ASSUME PolicyAssumption ==
  /\ Org \notin Campaigns /\ Unset \notin Policy
  /\ Unset \notin Nat
  /\ ArchiveDays \cup PurgeDays \subseteq Nat /\ Environment \in Inputs

PoliciesOK == policy \in [Levels -> Policy \cup {Unset}]

PoliciesInit == /\ policy = [c \in Levels |-> Unset]
                /\ saving = [s \in Savers |-> NotSaving]

\* What the server falls back to.  Nothing checks the order of its periods.
DefaultPolicy ==
  [archive  |-> IF Environment.archive = Unset THEN 0 ELSE Environment.archive,
   purge    |-> IF Environment.purge = Unset THEN 0 ELSE Environment.purge,
   fallback |-> Environment.fallback # FALSE]

\* What is in effect for a campaign or for the organization.
EffectivePolicy(c) ==
  IF policy[c] # Unset THEN policy[c]
  ELSE IF policy[Org] # Unset THEN policy[Org]
  ELSE DefaultPolicy

\* Households and visits are to be archived before they are purged.
Ordered(p) == p.archive = 0 \/ p.purge = 0 \/ p.purge > p.archive

\* The scope an administrator may change: his campaign's, if he has one.
TargetMutant(by, requested) == requested
Target(by, requested) == IF by = Org THEN requested ELSE by

\* An administrator limited to a campaign may name it, or no campaign at all.
MayTarget(by, requested) == by = Org \/ requested \in {by, Org}

\* The record a save will write: what the request leaves out stays in effect.
Merged(c, input) ==
  [f \in DOMAIN input |-> IF input[f] = Unset THEN EffectivePolicy(c)[f] ELSE input[f]]

BeginUpsertMutant(s, by, requested, input) ==
  LET target == Target(by, requested)
  IN /\ saving[s] = NotSaving
     /\ MayTarget(by, requested)
     /\ Unset \notin {input.archive, input.purge} => Ordered(input)
     /\ saving' = [saving EXCEPT ![s] = [at |-> "save", by |-> by, of |-> target,
                                        next |-> Merged(target, input)]]
     /\ UNCHANGED policy

BeginUpsert(s, by, requested, input) ==
  LET target == Target(by, requested)
      next == Merged(target, input)
  IN /\ saving[s] = NotSaving
     /\ MayTarget(by, requested)
     /\ Ordered(next)
     /\ saving' = [saving EXCEPT ![s] = [at |-> "save", by |-> by, of |-> target, next |-> next]]
     /\ UNCHANGED policy

Upsert(s) ==
  /\ saving[s].at = "save"
  /\ policy' = [policy EXCEPT ![saving[s].of] = saving[s].next]
  /\ saving' = [saving EXCEPT ![s] = NotSaving]

ClearPolicy(by, requested) ==
  /\ MayTarget(by, requested)
  /\ policy' = [policy EXCEPT ![Target(by, requested)] = Unset]
  /\ UNCHANGED saving

PolicyRequestOf(by) ==
  \/ \E s \in Savers : \/ saving[s] # NotSaving /\ saving[s].by = by /\ Upsert(s)
                       \/ \E requested \in Levels, input \in Inputs : BeginUpsert(s, by, requested, input)
  \/ \E requested \in Levels : ClearPolicy(by, requested)
=============================================================================
