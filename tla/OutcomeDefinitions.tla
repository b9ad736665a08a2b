-------------------------- MODULE OutcomeDefinitions --------------------------
(***************************************************************************)
(* Outcome definitions of AdminService, and what a visit of a campaign may *)
(* report: VisitsService takes the campaign's active definitions, and the  *)
(* organization's too where the policy in effect falls back to them.       *)
(***************************************************************************)
EXTENDS Policies

CONSTANTS Definitions, OutcomeCodes,
          Editors     \* of the savers, those that take requests about outcomes

VARIABLE definition

Definition == [code : OutcomeCodes, of : Levels, active : BOOLEAN]

\* What upsertOutcomeDefinition keeps between its look-ups and its write; Unset
\* is the id of a definition that is to be created.
Edits == [at : {"find", "write"}, by : Levels, id : Definitions \cup {Unset},
          code : OutcomeCodes, active : BOOLEAN]

ASSUME DefinitionAssumption ==
  Unset \notin Definition /\ Unset \notin Definitions /\ Editors \subseteq Savers

OutcomesOK == definition \in [Definitions -> Definition \cup {Unset}]

OutcomesInit == definition = [d \in Definitions |-> Unset]

Known == {d \in Definitions : definition[d] # Unset}

\* scopeWhere: an administrator of the organization finds every definition.
FoundBy(by) == {d \in Known : by = Org \/ definition[d].of = by}

Free(by, code, others) == \A e \in others : ~(definition[e].code = code /\ definition[e].of = by)

\* upsertOutcomeDefinition begins: no other definition of the administrator's
\* scope may have the code.  Nothing keeps it free from here on.  (There are
\* only so many Definitions to create.)
CheckCodeMutant(s, by, id, code, active) ==
  /\ saving[s] = NotSaving
  /\ IF id = Unset THEN Known # Definitions /\ Free(by, code, Known) ELSE TRUE
  /\ saving' = [saving EXCEPT ![s] = [at |-> IF id = Unset THEN "write" ELSE "find",
                                      by |-> by, id |-> id, code |-> code, active |-> active]]
  /\ UNCHANGED definition

CheckCode(s, by, id, code, active) ==
  /\ saving[s] = NotSaving
  /\ id = Unset => Known # Definitions
  /\ Free(by, code, Known \ {id})
  /\ saving' = [saving EXCEPT ![s] = [at |-> IF id = Unset THEN "write" ELSE "find",
                                      by |-> by, id |-> id, code |-> code, active |-> active]]
  /\ UNCHANGED definition

\* An edit goes on if the administrator's scope has the definition.
FindOutcome(s) ==
  /\ saving[s].at = "find"
  /\ saving' = [saving EXCEPT ![s] = IF @.id \in FoundBy(@.by) THEN [@ EXCEPT !.at = "write"]
                                     ELSE NotSaving]
  /\ UNCHANGED definition

\* It then writes by the id: the definition belongs to the administrator's
\* scope, whatever it belonged to.
WriteOutcome(s) ==
  LET edit == saving[s]
  IN /\ edit.at = "write"
     /\ \E d \in IF edit.id = Unset THEN Definitions \ Known ELSE {edit.id} :
          definition' = [definition EXCEPT ![d] = [code |-> edit.code, of |-> edit.by, active |-> edit.active]]
     /\ saving' = [saving EXCEPT ![s] = NotSaving]

OutcomeRequestOf(by) ==
  \E s \in Editors :
    \/ \E id \in Definitions \cup {Unset}, code \in OutcomeCodes, active \in BOOLEAN :
         CheckCode(s, by, id, code, active)
    \/ saving[s] # NotSaving /\ saving[s].by = by /\ (FindOutcome(s) \/ WriteOutcome(s))

\* What a visit of c may report.  The query sorts by campaign, descending, and
\* PostgreSQL puts rows without a campaign first.
InUse(c, code) ==
  LET levels == IF c # Org /\ EffectivePolicy(c).fallback THEN {c, Org} ELSE {c}
      found == {d \in Known : /\ definition[d].code = code /\ definition[d].active
                              /\ definition[d].of \in levels}
  IN {d \in found : \A e \in found : definition[e].of = Org => definition[d].of = Org}
=============================================================================
