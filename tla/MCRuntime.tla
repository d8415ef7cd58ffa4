----------------------------- MODULE MCRuntime -----------------------------
(***************************************************************************)
(* The instance of Runtime for TLC.  A day has three hours: one watched    *)
(* match is to kick off in the last hour of the first day or in the first  *)
(* of the second, and may be moved from the one to the other; two          *)
(* providers spell its teams differently; the quiet window is the last     *)
(* hour of a day, up to midnight, in a time zone an hour ahead.            *)
(***************************************************************************)
EXTENDS Runtime, FiniteSets

CONSTANTS
  MaxTroubles,  \* bound on the troubles of one behaviour
  MaxActive,    \* bound on the jobs under way at a time
  MaxWatched,   \* the world changes only while at most so many jobs are under way
  e1, m1, afd, fdo

MCWatchedBy == [e \in Events |-> Matches]
MCWants == [e \in Events |-> {"reminders", "finals"}]
MCLeadTime == [l \in Leads |-> 2]
MCRank == [p \in Providers |-> IF p = fdo THEN 1 ELSE 2]
MCNaming == [p \in Providers |-> p]
Overnight(behavior) ==
  [enabled |-> TRUE, start |-> 2, end |-> 0, behavior |-> behavior]
MCQuiets == {Overnight("defer"), Overnight("suppress")}

\* The configurations looked at, of those Init allows.
Scenario(kickoffAt, behavior) ==
  kickoff = [m \in Matches |-> kickoffAt] /\ quiet.behavior = behavior
MCInit ==
  /\ Init
  /\ \/ sender = "telegram" /\ Scenario(2, "defer")
     \/ Scenario(3, IF sender = "telegram" THEN "suppress" ELSE "defer")

\* Things going wrong: faults, events with a failover, disturbed matches.
Troubles ==
  (MaxFaults - faults) + Cardinality(failedOver)
    + Cardinality(moved \cup {m \in Matches : status[m] = "postponed"})

Active == {j \in Jobs : job[j].pc # "idle"}

\* A job with no event left to ask for goes on at once: the step changes nothing but the
\* job's own place, so whatever could come in between may as well come before or after.
GoesOn ==
  \A j \in Jobs : job[j].pc \in {"fetch", "gather"} /\ job[j].left = {} =>
    FixturesFetched \/ NotifyPlanned \/ ResultsGathered(j)

MCNext ==
  /\ Next
  /\ GoesOn
  /\ Troubles' <= MaxTroubles
  /\ Cardinality(Active') <= MaxActive
  /\ UNCHANGED worldVars \/ Cardinality(Active) <= MaxWatched

MCSpec == MCInit /\ [][MCNext]_vars /\ Fairness

=============================================================================
