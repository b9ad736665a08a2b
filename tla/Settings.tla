------------------------------- MODULE Settings -------------------------------
(***************************************************************************)
(* What administrators set for an organization and its campaigns: policies *)
(* and outcome definitions, whose requests look up and then write, and CSV *)
(* profiles (each request at once: the scope of a profile never changes).  *)
(***************************************************************************)
EXTENDS OutcomeDefinitions

CONSTANTS Codes, BuiltIns     \* codes of CSV profiles

ASSUME CodeAssumption == BuiltIns \subseteq Codes

VARIABLE override

INSTANCE CsvProfiles WITH Scopes <- Levels, Wide <- Org

settled == <<policy, definition, override>>
settingsVars == <<settled, saving>>

SettingsOK == /\ PoliciesOK /\ OutcomesOK /\ CsvProfilesOK
              /\ saving \in [Savers -> Saves \cup Edits \cup {NotSaving}]

SettingsInit == PoliciesInit /\ OutcomesInit /\ CsvProfilesInit

ProfileRequestOf(by) ==
  \E requested \in Levels, code \in Codes :
    /\ MayTarget(by, requested)
    /\ \/ \E active \in BOOLEAN : UpsertProfile(Target(by, requested), code, active)
       \/ ClearProfile(Target(by, requested), code)

RequestOf(by) ==
  \/ PolicyRequestOf(by) /\ UNCHANGED <<definition, override>>
  \/ ProfileRequestOf(by) /\ UNCHANGED <<policy, saving, definition>>
  \/ OutcomeRequestOf(by) /\ UNCHANGED <<policy, override>>

SettingsNext == \E by \in Levels : RequestOf(by)

SettingsSpec == SettingsInit /\ [][SettingsNext]_settingsVars

----------------------------------------------------------------------------

(* Whatever overlapping saves, clears and inherited values lead to, the    *)
(* policy in effect never purges before it archives, in any campaign:      *)
(* upsertPolicy checks the merged record, not what the request gives.      *)
PurgeAfterArchive == \A c \in Levels : Ordered(EffectivePolicy(c))

(* No scope has two definitions of one code, whether they came by creation *)
(* or by an edit that changed the code or the scope; findFirst and the     *)
(* list a canvasser is offered agree only then.                            *)
CodesUnique ==
  \A d, e \in Known :
    definition[d].code = definition[e].code /\ definition[d].of = definition[e].of => d = e

(* listProfiles and resolveProfile apply the overrides in different ways;  *)
(* a profile the dashboard lists as active is the one an import or export  *)
(* works by, and one listed as inactive is refused.                        *)
ListedIsResolved ==
  \A c \in Levels, code \in Codes :
    Resolve(c, code) = IF \E p \in Listed(c) : p.code = code /\ p.active
                       THEN (CHOOSE p \in Listed(c) : p.code = code).from
                       ELSE "none"

\* What is in force in c.
InForce(c) == <<EffectivePolicy(c), [code \in Codes |-> Resolve(c, code)],
                [code \in OutcomeCodes |-> InUse(c, code)]>>

(* An administrator of one campaign changes nothing that is in force       *)
(* elsewhere, whichever campaign his requests name.                        *)
ConfinedToCampaign ==
  [][\A by \in Campaigns : \A c \in Levels \ {by} : InForce(c)' # InForce(c) => ~RequestOf(by)]_settled

(* A campaign's own definition goes before the organization's (the tests   *)
(* of VisitsService say so).  It does not: added to Settings.cfg it fails. *)
CampaignWins ==
  \A c \in Campaigns, d \in Known :
    definition[d].of = c /\ definition[d].active => InUse(c, definition[d].code) = {d}
=============================================================================
