# TLA+ models of PROACTIVE

PROACTIVE is a field canvassing system: a NestJS backend over Postgres (`backend/src`), an Expo phone
application for canvassers (`mobile-app/src`) and a Next.js dashboard for staff (`admin-dashboard`).
This directory holds TLA+ models of the parts where order, retries, failures and concurrent requests decide
whether the system is right, the TLC runs that check them on small instances, and proofs checked by TLAPS.

Contents: [1 System](#1-the-system) · [2 Modules](#2-modules-and-how-they-correspond-to-the-code) ·
[3 Runs](#3-runs-what-is-checked) · [4 Where code and documents part](#4-where-code-and-documents-part) ·
[5 Proofs](#5-proofs) · [6 Not modelled](#6-what-is-not-modelled) · [7 What could come next](#7-what-could-come-next) ·
[8 Running](#8-running)

## 1 The system

| Component | State it keeps | Operations | What is hard, and what makes it correct |
|---|---|---|---|
| Turf lifecycle (`turfs.service.ts`) | `turfs.status`, `deleted_at`, `turf_assignments`, `turf_sessions` | create, assign, reopen, archive, delete; start, pause, resume, complete | Transactions that check, then write by id. One assignee, one open session, no work without an assignment, closed turfs closed, the status earned |
| Field user accounts (`admin.service.ts`, `users.service.ts`) | `users.status` | archive, delete, (de)activate, invite, edit | Check-then-write against assignments. A closed user has no open work |
| Visit ingestion (`visits.service.ts`) | `visit_logs`, `sync_events` | log a visit, resolve a conflict, correct | Statements outside a transaction; retries and duplicates. Recorded once, never lost, acknowledged only when recorded, attributed for ever; attempt limit and cooldown |
| Mobile offline queue (`AppContext.tsx`, `storage.ts`) | token, queue, badges, `isOnline`, `syncingRef`, SQLite copy | boot, sign in and out, submit, auto-sync, sync loop, save | Two callers post one queue, effects save late, the app is killed, answers are lost. Nothing leaves the queue before it is recorded, every sync ends, what waits is sent |
| Authentication (`auth.service.ts`, guards) | refresh, reset, activation and MFA rows, backup codes, failed attempts, impersonations | login, refresh, logout, reset, activate, MFA, step-up, impersonate | Find-then-update on single-use rows, issued and superseded from many places. Single use; a reset or recovery ends what came before |
| Account recovery (`recovery.service.ts`) | `recovery_cases` | request, approve, reject, expire, notify | Decided once, by somebody else, with everything revoked |
| Dashboard session (`auth-context.tsx`) | token and user in memory and in the browser's storage, the administrator's own session kept aside | load, sign in and out, step-up, impersonate, stop | Answers that come after the page has moved on. An impersonation returns to the one who began it |
| Address requests | `address_requests`, `addresses`, `households` | submit, approve, reject | Checked outside the transaction. Decided once, adding one address |
| Imports and import review | `import_batches`, rows, addresses | import, preview, resolve review | A loop without a transaction; counters. Added once, partial failure is visible |
| Exports and corrections | `visit_logs.van_exported`, `export_batches` | VAN and internal exports, correct a visit, override GPS | Read, mark and record as separate statements. Marked once, and what a marking export said still true afterwards |
| Reports (`reports.service.ts`, `timezone-policy.util.ts`) | none | totals, productivity, trends, day ranges | Several queries that must agree, attempt numbers, days that change their length |
| Retention | rows past their `purge_at`, a timer, `running` | scheduled and manual clean-up, settings | Timers, failures, batches. The schedule follows the settings once a change of them got through, what is due is cleaned |
| Geography hierarchy | `geography_nodes`, `geography_closures` | create, move, assign, list | Moving subtrees. The closure table is the transitive closure of the tree |
| Scope propagation (`updateTeam`, `updateTurfScope`) | copies of team and region on users, turfs and rows below turfs | join, update team, update turf scope | Copies agree with their source; what came of an address request starts without any |
| Policies, CSV profiles, outcome definitions | a record for the organization or a campaign | save, clear, resolve, list | Inheritance, overlapping saves, who may change what |
| Sync diagnostics, GPS classification, audit log, screens | none, or plain rows | | No protocol of their own |

How they meet: phones post visits over an unreliable network to visit ingestion, which consults turfs (assignment,
session) and policies; staff change turfs, accounts, visits and addresses at the same time through the dashboard. All services
share the database and nothing else (the retention flag, the timer and the rate limits are per process). No table has a
constraint on open sessions, open assignments, pending cases or household addresses, so nothing but the handlers' checks
stands between overlapping requests; the unique indexes on `local_record_uuid` and `idempotency_key` are the
important exception, and visit ingestion relies on them. Hence the pattern of the runs below: what the handlers keep
when requests do not overlap, and which of it an overlap takes away.

## 2 Modules and how they correspond to the code

```
VisitLedger  <--implements--  VisitIngest      (logVisit, one step per awaited statement)
     ^------- service of ---  OfflineQueue     (the phone)
TurfLifecycle <-implements--  TurfRequests     (the handlers over rows)
Decisions    <--implements--  RecoveryCases, AddressBook
AuthTokens  -> RecoveryCases -> AccountSessions (with DashboardSession)
Households  -> AddressRequests, CsvImports -> AddressBook
VisitRecords, BucketTime -> Reports
Geographies, Teams -> Organization
Policies -> OutcomeDefinitions -> Settings (with CsvProfiles)
```

Three levels of detail occur. Where the question is what a *rule* leads to over long sequences of requests, a handler is one
step. Where requests interleave, a handler is a look-up and a write (`Begin...`, then the write, with a *slot* that remembers
what the look-up found); with one slot such a module is the service handling one request at a time. Where the order of statements
matters, each awaited statement is a step. Refused requests change nothing and are left out. A definition named `...Mutant` is a plausible bug in the
definition below it; exchanging the two makes TLC report the property that `PROJECT.json` pairs it with. `MC*` modules
give TLC its symmetry sets and small functions; `*_proofs` hold proofs.

**`TurfLifecycle`** One step per request. `status[t]` and `deleted` are columns of `turfs`;
`assignment[t][c]` and `session[t][c]` are the newest rows of a pair (older rows are closed, and only open
rows are ever selected); `account[c]` is the user row's status. Guards are the handlers' queries and exceptions.
The session handlers look neither at the turf's status nor at `deletedAt` nor at the account, and so do
the actions: that closed turfs and users are nevertheless left alone is a theorem, not a guard. `MyTurf`, `ActiveCanvassers` and
`DashboardTurfs` are what the phone's snapshot and the dashboard's queries return.

**`TurfRequests`** The same handlers as the database runs them: `Begin` is all reads of a handler, `Commit` all its
writes, with other commits in between. The tables are sequences of rows; rows read by id are written by id
(`CommitStart`, `CommitPause`), `updateMany` selects again at the write (`Close`).

**`VisitLedger`** What the endpoint promises: a visit is absent, synced or held for review; an answer that
acknowledges it is given only when it is on record; a record is never lost.

**`VisitIngest`** `VisitsService.logVisit`, one step per awaited statement (`Lookup`, `CheckAttempts`, `CheckCooldown`,
`CheckAssignment`, `CheckSession`, then one of `CreateVisit`, `CreateConflictVisit`, `RepeatVisit`,
`MarkExistingVisitConflict`), interleaved with resolution, correction, reassignment and sessions. A visit row is keyed by
its uuid; `Insert` of a uuid that exists fails as the unique index makes it (500, "refused").
Time is a bit per row, `cooling`, that ends at any moment.

**`OfflineQueue`** `AppProvider`: `queue` and `badge` are the React states `queue` and `addressState` (one
household a visit), `direct` is the post of `submitVisit`, `loop` is `syncQueue` with its snapshot of the
queue, `store` is SQLite as the saving effects leave it, `loaded` is what `loadSession` read. The auto-sync
effect runs with the values of the commit that changed `isOnline`, `token` or `queue.length`, and only then;
so it is a function (`AutoSync`) used by the actions that change one of these. `Kill` drops the memory and turns posts
on their way into `orphans`, which may still arrive. The service is `VisitLedger`.

**`AuthTokens`** `AuthService`, the account part of the user services, and what the clean-up does to credentials. Every
credential the service stores (refresh token, reset and activation link, MFA set-up and challenge, backup code, impersonation
session) is a row of one table `creds` with its kind, since the tables share one life cycle: live, rotated, used, superseded,
revoked, purged. A row counts the times it took effect (`uses`) and whether a reset or recovery came after it (`stale`); both are history that no guard reads.
Handlers find a row and then write it by id, in two steps. The writes of one handler
are one step or, where it ends between two of them, `CutShort`; no other request comes in between (section 6).

**`RecoveryCases`** extends it by `RecoveryService`: opening, rejecting, expiring and approving a case, the execution that revokes
everything the account holds, and the notification. **`Decisions`** is the abstract specification of a review: an item waits and is decided at most
once. Where decision and effect are one transaction (`Atomic`: recovery cases and address requests), the effect happens exactly when the item is accepted. An import row held for review is written to its
address first and recorded as merged afterwards; it is accepted only after the former (`Apply`), and has no effect after a decision, but a merge that stops in between leaves an effect without one.

**`DashboardSession`** `AuthProvider` of the dashboard: `stored` and `original` are the two pairs of keys in the browser's
storage, `tab` the provider's state, `call` the requests whose continuation is still to run. A continuation
(`Confirmed`, `LoggedIn`, `SteppedUp`, `Impersonating`, `Stopped`, `Fails`) runs with the token and user of the
page that made the call, at any later time, whatever has happened to the tab. The service may give any answer it can give.
**`AccountSessions`** puts it beside `RecoveryCases`; they share no state. In the run (`MCAccounts`) one of the two moves in a behaviour and the other stays in its initial state, so their
state spaces add up rather than multiply. `RowsBesideCase` bounds the credentials that coexist once a case is open; with 3 the run has 1.7 M states and the same result.

**`Households`** the tables that two services share (`turfs`, `homes`, `places`) and `ensureHousehold`; **`AddressRequests`** and **`CsvImports`** the services;
**`AddressBook`** their composition and its properties. An import goes row by row (`handling[s].at`: `"row"` finds or makes the
household, `"find"` looks for it on the turf, `"place"` writes what the strategy says), then writes its batch; a resolution writes the address, the row and the counters one after another; a stop between any two is `Abandon`.
`applied` is history: which held rows were written to their address (`MergeAddress`), whatever their status says. Texts have a key each
(`KeyOf`, which is `buildNormalizedAddressKey`), so two spellings of one address differ as texts and agree as keys.

**`VisitRecords`** `vanExported`, the lock reasons of `correctVisit`, and exports as the code runs them: load, `MarkExported`, `RecordExport`. A batch keeps what it
said of each visit. `MarkedIn(v)` are the exports that took v and marked it: only these exclude each other and lock a visit. A VAN export with `markExported` off, like an internal one, writes the same file as often as asked. **`BucketTime`** is `timezone-policy.util`: the start and end of a day in a zone whose offset changes once, found by guessing as the code does.
**`Reports`** the reports over the records of `VisitRecords`; they are pure functions, and their consistency is an invariant of the
records' behaviour.

**`RetentionCleanup`** `onModuleInit`, `refreshSchedule` in three steps (`StopTimer`, `ReadSettings`, `ArmTimer`), the interval's `Tick`, and `runCleanup`
statement by statement. `timers` counts the intervals that run and `timer` tells whether the service still refers to one, since nothing stops an interval it has lost.
`FailRead` is a failed read of the settings, before the old interval is stopped or after it; `refreshed` remembers whether the last change, or start, got through.
A timer's run that fails is a rejection nobody handles, which ends the process (`DieUnhandled`); the deployment restarts it.

**`Geographies`** nodes and the closure table, with the cycle check before and the relinking inside the transaction; **`Teams`** the copies of team and region, in `content` the
rows below a turf and in `asked` those that came of address requests, which `AskForAddress` creates without a scope;
**`Organization`** both, sharing nothing.

**`Policies`** resolution (campaign, organization, environment) and saves, each a read and a later write; **`CsvProfiles`** overrides, their resolution and
their list; **`OutcomeDefinitions`** definitions, whose requests check the code (`CheckCode`), look the definition up (`FindOutcome`) and write (`WriteOutcome`) in steps, and what a visit may report; **`Settings`** the three together, whoever the
administrator is. `saving` holds the requests under way: `Savers` are those of policies, `Editors` among them those of outcomes. A profile is saved or cleared in one step: its rows are keyed by scope and code, which no request changes.

## 3 Runs: what is checked

| Run | Question | Bounds, and why they suffice | States |
|---|---|---|---|
| `turf_lifecycle` | Do turfs, assignments, sessions and accounts stay consistent, request by request, and does the phone see the turf at work? | 2 turfs (one shared), 2 canvassers: every rule relates at most two of each. Sequences of any length: the state is finite | 80 k |
| `turf_requests_serial` | Do the handlers over rows refine `TurfLifecycle` when requests do not overlap? | the same sets, 3 rows a table (`MaxRows`): a third row supersedes one that superseded another | 0.9 M |
| `visit_ingest` | Does `logVisit` keep the ledger's promise under any interleaving? | 1 uuid (promise and index are per uuid), 2 requests at once and any number one after another, a limit of 2 so that a retry gets past the count of its own copy, 2 canvassers either of whom may hold the device, 1 session each | 1.4 M |
| `visit_ingest_serial` | Limit, cooldown and the meaning of "stored" with requests one at a time | 3 visits to one household against a limit of 2 | 380 k |
| `offline_queue` | Is nothing dropped or shown as synced before it is recorded, does every sync end, is what waits sent when connectivity returns? | 1 visit with screen and loop racing for it, 1 kill at any point; the safety properties are proved for any number of both | 0.6 M |
| `offline_saved_lost` | "Pending records must survive app close" (refuted) | 1 visit, 2 kills: one to have something stored, one in the window | |
| `accounts` | Are credentials used once and ended by resets and recoveries? Do recoveries take two people and happen once? Does an impersonation return to its actor? | 2 admins and a field user whose own requests are explored, 3 credential rows (an MFA sign-in with a backup code needs three), of which 2 at once beside the 1 case, one request at a time, cut off between any two writes; the dashboard with 2 admins, a supervisor, a canvasser, 1 tab and 2 calls under way | 0.9 M |
| `addresses` | Reviews decided once and carried out before or with the decision, replacements exact, counters honest, households added once | 2 spellings of an address and another one, 2 turfs, a file of three rows (a household twice, a second turf, a row without an address), one field request and one import or resolution at once, stopped anywhere | 1.8 M |
| `exports` | Is a visit marked by one export only, and is what that said still true? Do the reports agree? | 2 visits of two canvassers at one household, in the night the clocks change, 2 batches, filters for both visits or one, `MaxRows` 1 so that the limit of an export is met | 33 k |
| `retention` | Does the timer follow the settings, and is a backlog worked off? | 2 rows of one type against batches of 1, a third row of another type outside the administrator's scope, 2 faults, of clean-ups or of reading the settings (a second one meets what the first one left) | 0.1 M |
| `organization` | Is the closure table the tree, do copies of scope follow the team? | 4 nodes, so that a subtree of two moves under a chain of two; 2 teams, 1 region and none, 1 member, 1 turf (copies are per member and turf) | 0.2 M |
| `settings` | Periods in order, codes unique, lists honest, campaigns confined | the organization and 1 campaign, 1 request (a policy or an outcome) under way while profiles change and policies are cleared, 2 definitions, 2 outcome codes, 1 profile | 0.6 M |

"One request at a time" is an assumption, not a fact about the server. `turf_requests_serial`, `visit_ingest_serial`, `accounts`, `exports`, `organization`, `retention` (changes of the settings)
and `addresses` (field requests) make it, by giving the module one slot; the same modules with two slots are the counterexamples of section 4. `visit_ingest` and `offline_queue` do not make it, and
the proofs of `settings` make it only of requests about outcomes: they hold for any number of overlapping policy saves (`Savers`).

Deadlock is checked except in the two turf runs, where the instance, and not the system, runs out: all turfs and users deleted, or the bound on rows reached.

**Fairness.** `offline_queue` assumes of single actions that the JavaScript engine runs the continuation of
every settled promise (`LoopNext`, `LoopAnswer`, `LoopRefresh`, `QueueVisit`, `DirectAnswer`, `DirectRefresh`, `Restore`,
`BootstrapLoads`) and that a `fetch` settles, with an answer or an error (`Serve... \/ Lose...`). The client sets no time limit of its own, so the latter is an assumption about
the platform's HTTP stack (which has one); without it a hanging post would hold `syncingRef` for ever and `SyncEnds` would fail. Nothing
is assumed of the user (signing in, pressing Sync), of connectivity, of kills or of the service's verdict: `AutoSyncOnReturn` takes "connectivity keeps coming and going" as its hypothesis.
`retention` assumes that the event loop goes on with what it awaits (`Proceed`, `Refresh`), that a process that stopped is restarted
(`docker-compose.yml` says `unless-stopped`), and, strongly, that the interval fires: it is due again and again and other runs only delay it. Faults are not fair and are bounded, since a database that fails for ever cleans nothing.

### Configurations that are not runs

They are kept beside the runs; each shows, in seconds, that a definition of the same name does *not* hold.

| Configuration (module) | Refutes |
|---|---|
| `TurfRaces.cfg` (`MCTurfRequests`), with `-continue` | `OneSessionPerCanvasser`, `OnePrimaryAssignee`, `ClosedTurfReadOnly`, `ArchivedUserIsIdle` |
| `VisitRaces.cfg` (`MCVisitIngest`), with `-continue` | `CooldownKept`, `AttemptsCapped` |
| `Accounts_Refuted.cfg` (`MCAccounts`) | `LockIsTimed`, `NotReplayed` (TLC reports both with `-continue`; each also alone) |
| `VisitIngestSerial.cfg` with `RetryIsNotRefused` or with `RetryKeepsTheVisit` | that property |
| `OfflineQueue.cfg` with `RetriesAutomatically` | that property |
| `TurfLifecycle.cfg` with `ActiveSessionShowsInProgress` | that property |
| `AddressBook.cfg` with `MatchedInTurn` | that property |
| `VisitRecords.cfg` with `MarkedIsTraced` | that property |
| `Settings.cfg` with `CampaignWins` | that property |
| `Settings.cfg` with `Savers` and `Editors` both `{s1, s2}` | `CodesUnique`, `ConfinedToCampaign` (each also alone) |
| `Accounts.cfg` with `ActsAsShown`, with `ChangesHandsSignedOut`, or with a second tab | those two; `ReturnsToActor` |

## 4 Where code and documents part

The first is the run `offline_saved_lost`; the others come from the configurations above, or were read off while modelling.

**Phone**
- A start can lose the queue. The saving effect of the first render writes the empty queue over the stored one while `bootstrap` is restoring it (`AppContext.tsx:264`); a kill in that window loses the pending visits. `docs/v1-final-spec.md:240`: "Pending records must survive app close, restart, and device restart".
- No automatic retry while online. A failed post changes none of the auto-sync effect's dependencies (`AppContext.tsx:262`), though the phone said at `:506` "It will retry automatically."
- A failed bootstrap forgets the session but keeps the queue, which the next canvasser to sign in on the phone sends as his own (`AppContext.tsx:216`).
- When only the reload after a stored visit fails, the household is shown as failed although nothing is left to send (`AppContext.tsx:485`).
- The list of addresses takes statuses from the badges of an older render (`applySnapshot`).
- Signing out, on the phone and on the dashboard, never calls the service's logout; `docs/v1-final-spec.md:157`: "Refresh token invalidation is required on logout".

**Turfs and visits**
- Two overlapping `startSession` requests of one canvasser (a double tap, a retry) both find no open session (`turfs.service.ts:780`) and both create one. `docs/v1-final-spec.md:194`: "A canvasser may have only one active turf session at a time".
- A start that read its assignment before a reassignment removed it sets the row active again: two assignees. A pause, start or resume checked before the turf was completed or archived writes the status afterwards. `assignTurf` and `archiveFieldUser` pass each other and leave an archived user with an assignment.
- Assigning a turf again to the canvasser at work on it shows it as assigned while the work goes on (`turfs.service.ts:383`).
- `is_shared` never has an effect: `assignTurf` keeps a turf at one assignee, and a session needs an assignment, so the second session that the flag allows cannot be opened (`OneOpenSession` is proved for shared turfs too).
- Attempts are counted, and the cooldown read, before and outside the inserting transaction (`visits.service.ts:634`), so concurrent visits overrun both; resolving held visits consults neither. `docs/v1-final-spec.md:366`: "Max 3 attempts per household per turf cycle".
- A visit whose first answer was lost is sent again and answered 400, because limit and cooldown count its own row before the duplicate is recognised (`visits.service.ts:658`), against `docs/v1-final-spec.md:276`: "Same local record sent twice: deduplicate by idempotency key or local UUID". A retry after the visit was corrected turns the good record into a conflict.

**Accounts, recovery, dashboard**
- The wrong password that reaches the threshold sets the status `locked` with `lockedUntil`, and login refuses every status but `active` (`auth.service.ts:333`, `:302`): the lock does not end with its minutes (`docs/v1-final-spec.md:78`). Concurrent wrong passwords count once.
- Two approvals at once execute a case twice, and a rejected or expired case can still be executed (`recovery.service.ts:204`); `docs/privileged-account-recovery.md:15` excludes a replay. Two uses at once of a refresh token, challenge or backup code both succeed.
- Completing a password reset makes an archived account active (`auth.service.ts:946`); `verifyMfaChallenge` does not look at the account again; purging revoked refresh tokens ends the detection of their reuse.
- Starting an impersonation supersedes the old one and creates the new one outside a transaction: two at once leave two active.
- Dashboard: an impersonation answered after sign-out signs the tab in again, over whoever has signed in since; who signs in before the stored session is confirmed is shown under the stored name; two tabs share the storage without listening to each other, so one tab's Stop can return another tab to the wrong session; signing out during an impersonation leaves it open on the service; when it was ended elsewhere, Stop is refused and the tab stays in it until sign-out or reload; any failure of the first `/me`, a network error included, signs out.

**Addresses, exports, reports**
- `importCsv` looks for a household on the turf (`imports.service.ts:513`) and adds the address later (`:583`), outside a transaction and without a unique index: two imports at once both find none and both add it. With `Loaders = {l1, l2}` in `AddressBook.cfg`, `ImportedOnce` is refuted in eleven states.
- A household matched by external id is used without looking at its address, and one without such an id only by address, so an address can be on a turf twice (`imports.service.ts:259`, `docs/csv-contract.md:93`). Held rows whose raw data was purged can only be skipped.
- A row with both ids is matched by the household's alone (`imports.service.ts:259`), and `docs/csv-contract.md:93` puts the person's first: "Duplicate identity is evaluated by VAN person ID, VAN household ID, then normalized address".
- A merge that stops after the write to the address (`imports.service.ts:1051`) leaves the row in the queue; whoever then skips it has the batch say that nothing was merged.
- Visits are marked (`exports.service.ts:451`) before the batch is recorded (`:456`); a stop in between leaves them sent nowhere and exported by nothing. `docs/v1-final-spec.md:519`: "Re-export is allowed, but every export action must be traceable." Two marking exports at once both take a visit, and a correction that overlaps one changes what it said.
- A VAN export with `markExported` off is the same file with the same rows (`exports.service.ts:61`), before or after a marking one and as often as asked, and locks nothing (`:446`): what it said of a visit may be corrected afterwards. `MarkedOnce` and `MarkedStaysTrue` are about exports that mark. The controller always passes a value for `markExported`, so `markExportedDefault` is never used.
- Reports count held visits but number them as first attempts; attempt numbers kept in exported snapshots go stale. A zone that changes its clocks in the first or last hour of a day would lose or gain that hour in day ranges (`ZoneAssumption` excludes it).

**Organization and settings**
- The cycle check of a move runs before its transaction (`geographies.service.ts:139`), so two moves can put each node under the other. Two changes of the retention setting leave an interval that nothing stops. A scheduled clean-up that fails ends the process.
- A change of the retention setting is saved before the settings are read again (`system-settings.service.ts:138`, `:146`) and before `refreshSchedule` reads them after it stopped the old interval (`retention.service.ts:42`). If the first read fails, the old interval goes on, also when automation is now off; if the second fails, nothing ticks although it is on; until the next change or start.
- `updateTeam` gives a new region to members and turfs but not to what belongs to the turfs, and overwrites their campaign. Address requests and the addresses approved from them are created without team and region (`address-requests.service.ts:455`, `:582`), so the supervisor of the turf's team does not see them until the turf's scope is saved again (`turfs.service.ts:229`).
- An organization administrator who edits a campaign's outcome definition moves it to the organization (`admin.service.ts:837`); the list a canvasser is offered follows the user's campaign, the check of a visit the address's; `ORDER BY campaign_id DESC` puts nulls first in PostgreSQL, so the organization's definition beats the campaign's (`visits.service.ts:345`, against `visits.service.spec.ts:191`). The check for a used code (`admin.service.ts:812`) and the write (`:848`, `:854`) are not in one transaction, and the index is not unique: two requests at once give a scope two definitions of one code. Nor are the look-up of the definition (`:837`) and the update by id: a campaign's administrator can take a definition that the organization's has just moved to the organization.
- A campaign's first policy record copies every value of the organization and no longer follows it; of two overlapping saves one is lost; default profile codes are not validated; and nothing checks that the environment archives before it purges, which `ArchivedBeforePurged` therefore assumes.

## 5 Proofs

Every theorem holds for all values of the constants that satisfy the named `ASSUME`s, which TLC also evaluates on each run.

**`TurfLifecycle_proofs`**, for all turfs and canvassers and any choice of shared turfs: `OneAssignee`, `SessionCovered` (who works holds an assignment), `SnapshotShowsWork`, `OneOpenSession`,
`ClosedTurfIsFree`, `StatusEarned`, `ClosedUserIsIdle`, and the action properties `ResumeOnlyOpenTurf` and `ClosedTurfIsReadOnly`.
None of the invariants is inductive alone: a session stays covered because assignment is refused while another canvasser is at work; a completed turf is free because its
assignee was unique; a status is earned because sessions are covered. `Inv` is the conjunction that supports itself, with more parts in it than are claimed, such as `WorkStatus` (a turf with
an open session is assigned, in progress or paused). There is one lemma per group of actions; `OneOpenSession` follows from `OneAssignee` and
`SessionCovered`, the action properties from `Inv` before the step.

**`TurfRequests_proofs`**, one request at a time, any turfs and canvassers and any number of rows: `HandlersAreSteps`, that `TurfRequests` implements `TurfLifecycle`. `TurfLifecycle` knows one status for each
turf and canvasser, the handlers select rows: that is the same because only the newest row of a pair can be open (`Settled`) and a session is open as long as it is active or paused (`Tables`). What a request has
checked is still so when it commits (`Checked`), since with one slot nothing comes between. The lemmas about tables (`RowSet`, `AddedLatest`, `ClosedLatest`) say what rewriting, adding and closing rows
does to the newest one; that rows have a newest is a least counterexample again. The theorems about `TurfLifecycle` then carry over to the rows (`Proved`): `RulesServed`, that the four documented rules which overlapping
requests break (section 3, `TurfRaces.cfg`) hold when requests are served one at a time.

**`VisitIngest_proofs`**, any visits, canvassers, households, concurrent requests and sessions, any limit and any policy of who may post: `LogVisitKeepsThePromise`, that
`VisitIngest` implements `VisitLedger` under `ledger[v] = IF Recorded(v) THEN visits[v].status ELSE "absent"`, and `Attribution`, that a row keeps its canvasser and
session. The invariant needed is `FoundIsRecorded`: a request that found its visit on record still finds it there when it answers, since no step deletes a
row. Each step of a handler is a ledger step or a stutter: reads stutter, `CreateVisit` is `Store` (or `Refuse` when the index
rejects it), `CreateConflictVisit` and `MarkExistingVisitConflict` are `Hold`, `RepeatVisit` is `Repeat`. Of the ledger itself, `Acknowledged` (an acknowledged
visit is on record) and `Kept`. With requests one at a time, and without which they are false (section 4): `LimitHolds`, `CooldownHolds` and `StoredIsCounted`. What the request in
progress has read is then still so (`Established`): past the count of attempts there is room below the limit, past the cooldown no row of the household is cooling, and a visit found as a duplicate is synced.
Corrections and cooling change no count upwards (`Easing`); a resolved conflict is `reviewed` and not counted; the one new row takes the room (`OneRow`). The counts are cardinalities, so the invariant also says that
finitely many visits are recorded.

**`OfflineQueue_proofs`**, any visits, and any number of kills, of losses and of syncs: `SyncedOnRecord`, `OnceQueued`, `LeavesRecorded` and the types. No property is inductive alone: a visit shown as synced may
come from the memory, from SQLite or from an answer on its way, and a visit leaves the queue because of an answer. `Inv` says of all of them that what they claim is on record (`Backed`, `AnswersBacked`), that the queue, its
stored copy and what a start has loaded name every visit once and only visits whose position was found (`Known`), and what the memory holds while the application is off or starting (`Asleep`).
`Filtering` is the lemma about `Without`: removing a visit from a queue gives a queue, with the other items, in order and once each.

**`AccountSessions_proofs`**, any accounts, cases, credentials and calls.
*Cases.* `TwoPersons`, for any number of overlapping requests: although a case may be executed twice, the requester, the approver and the target are three people,
because what a request has checked of its case (`RequestOK`) concerns columns that are never written again. `CasesAreDecisions` and `ExecutedOnce` assume one request at a
time (`Slots = {only}`), without which they are false: then a case found pending is still pending at the write (`StillOpen`), and every step leaves all
verdicts alone, opens a case or decides one (`Kind`), which are the steps of `Decisions`.
*Credentials*, one request at a time too: `CredentialsUsedOnce`, `CutIsFinal` (what a reset or a recovery ended never takes effect again) and `AtMostOneOutstanding`. They need each other: `Sound` says of
every row that a live one has not been used and is not stale, and that an account has one live row of a kind that is superseded (`RowOK`, `Alone`); `Holds` that the row a request found is still live when it
writes. The steps of the handlers fall into a few changes of the table, each a lemma: rows are spent, revoked, superseded, cut off, issued or purged. That a handler which ends between two of its writes keeps all this too is `CutShortSound`.
*Dashboard.* `StopReturnsToActor`, for any accounts and calls, in one tab: wherever an impersonation is shown or stored, the session kept aside is that of the administrator who began it (`Kept`).
The calls under way must be part of the invariant (`CallsOK`), since a continuation writes what its call was made with. A second tab refutes the property.

**`VisitRecords_proofs`** `MarkedAtMostOnce` and `MarkedIsRight`, any visits, outcomes and filters, one request at a time: what the request in progress has read is still so
(`RequestOK`), and a visit in a marking export is marked, in no other such export, with its outcome (`InOne`). Requests may still stop anywhere. Of `RetentionCleanup`: `TimerFollows`, any rows, faults and
restarts, one change of the settings at a time: `AtStage` says what the timers are at each stage of the request that changes them. That the timer is the one the settings ask for is claimed once the last change got through
(`refreshed`); that there is at most one, always.
Of `Reports` and `BucketTime`: `DaysAreExact`, for any zone that changes its clocks once, by any amount, away from midnight: a report for certain days shows exactly what the zone puts on them. The second guess of `zonedDateTimeToUtc` is
already right (`GuessIsRight`), and around a time the clocks show once they keep the order of instants (`PlainKeepsOrder`). `NumberedOnce` (any visits, also several at one time): a visit has one number in all reports, and a
household's are numbered without gaps; the places in an order without ties are distinct and at most as many as the visits, hence all of them (`Ranks`).
`ReportsAreConsistent` is `ReportsAgree` with all its sums. `SumOfParts` says that a table which counts visits by a key (canvasser, day, outcome, GPS status) sums to their number: pairing a visit with its
key and its place among the visits of that key is a bijection onto what `Sum` counts. That one request is served at a time is needed only for the batches, whose rows are marked visits, none in two batches (`RowsAreMarked`).
The assumptions are that the days one can ask for cover those of the visits, that ids are distinct and that a visit has one of the four GPS statuses of the schema.

**`Organization_proofs`** `TreeKept`, for any nodes, moving one subtree at a time: the closure table is the transitive closure of the tree, with the right distances. The invariant `Tree` states this without paths:
the parent of a node is one level higher (`Forest`, hence no cycle), a node is linked to itself and to what its parent is linked to, and to nothing else (`Closed`). What a move found before its transaction, that the new parent is not below
the node, is in the invariant too (`Asked`); two overlapping moves break exactly that. `MoveKeeps` is the heart: the subtree's links to what was above it go, links to what is now above it come. That the table then says what `Ancestors` says
would be an induction over depth, and is a least counterexample instead (`LeastOf`: a node of least depth whose links are wrong has a parent whose links are right). `ScopeFollows` (what belongs to a turf bears its team; what came of an address request, that team or none) holds for any sequence of requests, since every handler that changes a turf's team rewrites what belongs to the turf. `TypeCorrect` needs finitely many nodes, to bound the depths.

Of `Settings`, for any campaigns, codes and definitions and any number of overlapping policy saves: `ArchivedBeforePurged` (assuming `Ordered(DefaultPolicy)`; a save in progress holds an ordered record, `SaveOK`),
`NoCodeTwice` (with `Editors = {only}`, requests about outcomes one at a time: a code found free is free when it is written), `ListsAreHonest` (about the two algorithms alone, in any state), `Confined` (with `Editors = {only}` too: a campaign administrator's step leaves the records of other scopes alone, hence what is resolved from
them: `OwnPolicy`, `OwnProfiles`, `OwnOutcomes`), and the types (`Typed`).

**`AddressBook_proofs`**, any files, households, addresses and requests, and any handler may die between two writes. `TypeCorrect` holds for any number of slots.
`Fieldwork` sorts the steps by what they do to the addresses: only an import adds an address that is not from the field, for a row whose household it did not find on the turf (`Creates`). With one import or resolution at a time:
`ImportsOnce`, since what a lookup found is still so when the row is written (`FoundOn`: approvals may come between, but add addresses from the field only; a second import takes `FoundOn` and `ImportedOnce` away, section 4);
`ReplacesExactly`, since every household that a file placed so far still has a live address on the turf (`SeenOn`) when the rest is removed;
and `CountersHold`, since the held rows of a batch, and one more while a resolution stands between its row and its counters (`Owed`), are at most those counted. That the counters fit at first is `AddUp`:
the statuses divide the rows. With one field request at a time too, `ReviewsDecide`, that `AddressBook` implements `Decisions`: a request being approved or rejected still waits (`AsksInv`), so does a
row being resolved, and every step is a `Submit`, an `Apply`, an `Accept`, a `Refuse` or a stutter. `AppliedInv` says that only held rows are ever written to their address, and that a resolution past that write has made it. `Inv` supports all of it: what a handler has found stays on record, since no step removes a row (`RowsRemain`, `Lasting`); a held row
names an address on record and nobody has decided it (`Waits`); a row is invalid exactly if it lacks an address (`Judged`).

**Only model-checked:** the liveness properties `SyncEnds`, `AutoSyncOnReturn` and `DueIsCleaned`, which rest on fairness and
ENABLED, out of the prover's reach. The library's induction theorems take operators as parameters, which the provers cannot instantiate. Where a proof here needed an induction, over the depth of a tree, it takes a least
counterexample, which the well-foundedness of the natural numbers gives; sums are counted out, not folded, so that they need none.

## 6 What is not modelled

- Payloads, names, notes, coordinates, labels and file contents: the properties do not depend on them. A visit is its uuid, a
  household a value, an outcome a model value.
- The mapping of columns in CSV files; session minutes, hours, weekdays and audit lists in reports; GPS classification (floating point, decides nothing about the record).
- Rate limits (in memory, they refuse a request before it does anything), TOTP codes as such, access tokens (nothing revokes them).
- Sync diagnostics on the phone and the audit log: written, and read only to be shown.
- The pages of the dashboard and the screens of the phone, which show what they load and send what their forms hold; `refresh` of the dashboard's provider, which no page calls; turf buttons, address requests and session notes on the phone.
- Inside one `Begin` or `Commit` of `TurfRequests`, statements are not interleaved; `ensureHousehold` is atomic; the writes of one handler of `AuthTokens` may be cut off between any two (`CutShort`), but no other request is let in between them (`auth.service.ts:444`–`457`, `:487`–`495`, `:828`–`843`); `correctVisit` is one step in `VisitIngest` and two in `VisitRecords`.
- One organization. Campaigns are followed in `Settings` only; where a handler copies a campaign beside a team, `Teams` follows the team.

`PROJECT.json` gives every component its status, with what of it is left out.

## 7 What could come next

Two accounts on one phone, for attribution; `OfflineQueue` over `VisitIngest` itself instead of its ledger, on the smallest instance.

## 8 Running

```
tlc -config TurfLifecycle.cfg MCTurfLifecycle
tlc -config OfflineQueue.cfg MCOfflineQueue      # about two minutes with two workers
tlc -config Settings.cfg MCSettings              # likewise
tlapm TurfLifecycle_proofs.tla
```

`PROJECT.json` lists, for every run, its module, configuration and properties; for every definition, the lines of
the source it models; and the hazards the properties are for.
