------------------------------ MODULE CsvProfiles ------------------------------
(***************************************************************************)
(* CsvProfilesService: profiles of imports and exports, known by a code.   *)
(* The organization and each campaign may override a built-in code or add  *)
(* one of its own.  A profile is told by the scope it comes from.          *)
(***************************************************************************)
EXTENDS Naturals

CONSTANTS Scopes, Wide,     \* scopes of overrides; the organization's
          Codes, BuiltIns

VARIABLE override     \* "none", or the state of the scope's record

CsvProfilesOK == override \in [Scopes -> [Codes -> {"none", "active", "inactive"}]]

CsvProfilesInit == override = [c \in Scopes |-> [code \in Codes |-> "none"]]

\* resolveProfile: the profile an import or an export of c works by, or none
\* when the code is unknown or the nearest record is inactive.
ResolveMutant(c, code) ==
  IF override[c][code] = "active" THEN c
  ELSE IF override[Wide][code] = "active" THEN Wide
  ELSE IF code \in BuiltIns THEN "built-in" ELSE "none"

Resolve(c, code) ==
  LET nearest == IF override[c][code] # "none" THEN c ELSE Wide
  IN IF override[nearest][code] # "none"
     THEN IF override[nearest][code] = "active" THEN nearest ELSE "none"
     ELSE IF code \in BuiltIns THEN "built-in" ELSE "none"

\* listProfiles: one profile for each code, the later of built-in,
\* organization and campaign, each with its activity.
Listed(c) ==
  LET At(from) == {[code |-> code, from |-> from, active |-> override[from][code] = "active"] :
                     code \in {k \in Codes : override[from][k] # "none"}}
      builtIn == {[code |-> code, from |-> "built-in", active |-> TRUE] : code \in BuiltIns}
      Override(profiles, by) == by \cup {p \in profiles : \A q \in by : q.code # p.code}
  IN Override(Override(builtIn, At(Wide)), At(c))

UpsertProfile(c, code, active) ==
  override' = [override EXCEPT ![c][code] = IF active THEN "active" ELSE "inactive"]

ClearProfile(c, code) ==
  /\ override[c][code] # "none"
  /\ override' = [override EXCEPT ![c][code] = "none"]
=============================================================================
