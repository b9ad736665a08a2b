------------------------------ MODULE BucketTime ------------------------------
(***************************************************************************)
(* The report time zone: days of instants, and instants of days.  Time is  *)
(* in whole hours of UTC and days are numbered; the zone's offset changes  *)
(* once, at the hour Change, as it does when daylight saving begins or     *)
(* ends.                                                                   *)
(***************************************************************************)
EXTENDS Integers

CONSTANTS Before, After, Change     \* the offset before and from Change on

Offset(t) == IF t < Change THEN Before ELSE After

LocalDay(t) == (t + Offset(t)) \div 24

(* The hours that the change repeats or skips are neither the first nor the*)
(* last of a day: where they are, the boundaries below lose or add an hour.*)
ASSUME ZoneAssumption ==
  /\ Before \in Int /\ After \in Int /\ Change \in Int
  /\ \A h \in (Change + Before .. Change + After - 1) \cup (Change + After .. Change + Before - 1) :
       h % 24 \notin {0, 23}

\* zonedDateTimeToUtc: the offset is looked up at a guess that is at first the
\* local time taken for UTC, and looked up again at the better guess, twice.
ZonedToUtcMutant(local) == local - Offset(local)
ZonedToUtc(local) ==
  LET Better(guess) == local - Offset(guess)
  IN Better(Better(Better(local)))

StartOf(day) == ZonedToUtc(24 * day)
EndOf(day) == ZonedToUtc(24 * day + 23)
=============================================================================
