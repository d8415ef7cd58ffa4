--------------------------- MODULE RuntimeProofs ---------------------------
(***************************************************************************)
(* Theorems about Runtime, for every number of events, matches, providers, *)
(* lead-times and clock values, every length of a day and every quiet      *)
(* window.                                                                 *)
(***************************************************************************)
EXTENDS Runtime, TLAPS

-----------------------------------------------------------------------------
(* Quiet hours *)

\* in_quiet_hours says of every window, overnight ones included, exactly whether the
\* time is one the window covers.
THEOREM QuietWindow ==
  ASSUME NEW qh \in QuietHoursConfig, NEW t \in TimesOfDay
  PROVE  InQuietHours(t, qh) <=> Covered(t, qh)
<1>1. /\ qh.start \in Int /\ 0 <= qh.start /\ qh.start < DayLength
      /\ qh.end \in Int /\ 0 <= qh.end /\ qh.end < DayLength
      /\ t \in Int /\ 0 <= t /\ t < DayLength
      /\ qh.enabled \in BOOLEAN
      /\ DayLength \in Int
  BY DayAssumption DEF QuietHoursConfig, TimesOfDay
<1> QED
  BY <1>1 DEF InQuietHours, Covered, Until

LEMMA LocalTimeType ==
  ASSUME NEW t \in Nat
  PROVE  LocalTime(t) \in TimesOfDay
BY DayAssumption DEF LocalTime, TimesOfDay

\* Whatever the configuration and the clock, the runtime's test for quiet hours is right.
LEMMA QuietIsCovered ==
  ASSUME NEW t \in Times, quiet \in Quiets
  PROVE  InQuietHours(LocalTime(t), quiet) <=> Quiet(t)
<1>1. t \in Nat /\ quiet \in QuietHoursConfig
  BY RuntimeAssumption DEF Times
<1> QED
  BY <1>1, LocalTimeType, QuietWindow DEF Quiet

LEMMA DivMod ==
  ASSUME NEW n \in Nat \ {0}, NEW x \in Nat
  PROVE  x \div n \in Nat /\ x % n = x - n * (x \div n)
OBVIOUS

LEMMA ModUnique ==
  ASSUME NEW n \in Int, NEW q \in Int, NEW r \in Int, 0 <= r, r < n
  PROVE  (n * q + r) % n = r
OBVIOUS

\* A quiet window is never the whole day, not even when it ends the minute it begins or
\* was entered the wrong way round: within a day there is a time at which an alert that
\* was deferred can be sent.
THEOREM QuietHoursPass ==
  ASSUME NEW qh \in QuietHoursConfig, NEW t \in Nat
  PROVE  \E d \in TimesOfDay : ~InQuietHours(LocalTime(t + d), qh)
<1> DEFINE n == DayLength
           x == t + Offset
           a == x % n
           d == Until(a, qh.end)
           q == x \div n
<1>1. /\ n \in Nat \ {0} /\ x \in Nat
      /\ a \in Int /\ 0 <= a /\ a < n
      /\ qh.end \in Int /\ 0 <= qh.end /\ qh.end < n
      /\ qh.start \in Int
  BY DayAssumption DEF QuietHoursConfig, TimesOfDay
<1>2. q \in Nat /\ a = x - n * q
  BY <1>1, DivMod
<1>3. d \in TimesOfDay
  BY <1>1 DEF Until, TimesOfDay
<1>4. (x + d) % n = qh.end
  <2> DEFINE w == n * q
  <2>1. w \in Int /\ n * (q + 1) = w + n
    BY <1>1, <1>2
  <2>2. a = x - w
    BY <1>2
  <2> HIDE DEF a, w, x, q
  <2>3. x + d = w + qh.end \/ x + d = (w + n) + qh.end
    BY <1>1, <2>1, <2>2 DEF Until
  <2>4. \A p, r \in Int : 0 <= r /\ r < n => (n * p + r) % n = r
    <3>1. n \in Int
      BY <1>1
    <3> HIDE DEF n
    <3>2. ASSUME NEW p \in Int, NEW r \in Int, 0 <= r, r < n PROVE (n * p + r) % n = r
      BY <3>1, <3>2, ModUnique, Zenon
    <3> QED
      BY <3>2
  <2>5. (n * q + qh.end) % n = qh.end
    <3>1. q \in Int
      BY <1>2
    <3> HIDE DEF q, n
    <3> QED
      BY <1>1, <3>1, <2>4
  <2>6. (n * (q + 1) + qh.end) % n = qh.end
    <3>1. q + 1 \in Int
      BY <1>2
    <3> QED
      BY <1>1, <3>1, <2>4
  <2> QED
    BY <2>1, <2>3, <2>5, <2>6 DEF w
<1>5. LocalTime(t + d) = qh.end
  <2>1. (t + d) + Offset = x + d
    BY <1>1, <1>3, DayAssumption DEF TimesOfDay
  <2> QED
    BY <1>4, <2>1 DEF LocalTime
<1>6. ~InQuietHours(qh.end, qh)
  BY <1>1 DEF InQuietHours
<1>7. d \in TimesOfDay /\ ~InQuietHours(LocalTime(t + d), qh)
  BY <1>3, <1>5, <1>6
<1> HIDE DEF d
<1> QED
  BY <1>7

-----------------------------------------------------------------------------
(* Type correctness *)

LEMMA FixturesFromType ==
  ASSUME TypeOK, NEW e \in Events, NEW p \in Providers, NEW t
  PROVE  FixturesFrom(e, p, t) \subseteq Fixtures
BY RuntimeAssumption DEF FixturesFrom, Fixtures, Namings, TypeOK

LEMMA ResultsForType ==
  ASSUME NEW e \in Events, NEW t
  PROVE  ResultsFor(e, t) \subseteq Matches
BY RuntimeAssumption DEF ResultsFor

LEMMA AlertForType ==
  ASSUME NEW e \in Events, NEW m \in Matches, NEW by \in Namings, NEW start \in Kickoffs,
         NEW label \in Labels
  PROVE  AlertFor(e, m, by, start, label) \in Alerts
BY DEF AlertFor, Alerts, Keys, Ids, StableId

LEMMA RemindersForType ==
  ASSUME NEW e \in Events, NEW fixtures \in SUBSET Fixtures, NEW t
  PROVE  RemindersFor(e, fixtures, t) \subseteq Alerts
<1> SUFFICES ASSUME NEW f \in fixtures, NEW l \in Leads
             PROVE  AlertFor(e, f.match, f.by, f.kickoff, l) \in Alerts
  BY DEF RemindersFor
<1>1. f.match \in Matches /\ f.by \in Namings /\ f.kickoff \in Kickoffs /\ l \in Labels
  BY DEF Fixtures, Labels
<1> QED
  BY <1>1, AlertForType

LEMMA ResultAlertsForType ==
  ASSUME TypeOK, NEW e \in Events, NEW p \in Providers, NEW results \in SUBSET Matches,
         NEW upsets \in SUBSET Matches
  PROVE  ResultAlertsFor(e, p, results, upsets) \subseteq Alerts
<1> SUFFICES ASSUME NEW m \in Matches, NEW l \in {"final", "shock"}
             PROVE  AlertFor(e, m, Naming[p], kickoff[m], l) \in Alerts
  BY DEF ResultAlertsFor
<1>1. Naming[p] \in Namings /\ kickoff[m] \in Kickoffs /\ l \in Labels
  BY DEF Namings, TypeOK, Labels
<1> QED
  BY <1>1, AlertForType

LEMMA InitType == Init => TypeOK
BY RuntimeAssumption
   DEF Init, TypeOK, Statuses, Times, JobState, AtRest, Steps

LEMMA AtRestType == AtRest \in JobState
BY RuntimeAssumption DEF AtRest, JobState, Steps, Times

\* Where a job may be set to, one part of its state at a time.
LEMMA JobParts ==
  ASSUME NEW state \in JobState, NEW todo \in SUBSET Alerts, NEW left \in SUBSET Events,
         NEW pc \in Steps, NEW hand \in SUBSET Marks, NEW now \in Times
  PROVE  /\ [state EXCEPT !.pc = pc] \in JobState
         /\ [state EXCEPT !.left = left] \in JobState
         /\ [state EXCEPT !.todo = todo] \in JobState
         /\ [state EXCEPT !.pc = pc, !.now = now] \in JobState
         /\ [state EXCEPT !.pc = pc, !.left = left] \in JobState
         /\ [state EXCEPT !.left = left, !.todo = todo] \in JobState
         /\ [state EXCEPT !.pc = pc, !.inHand = hand] \in JobState
         /\ [state EXCEPT !.pc = pc, !.todo = todo, !.inHand = hand] \in JobState
         /\ [state EXCEPT !.pc = pc, !.now = now, !.left = left] \in JobState
BY DEF JobState

LEMMA BecomesType ==
  ASSUME TypeOK, NEW j \in Jobs, NEW state \in JobState, Becomes(j, state)
  PROVE  job' \in [Jobs -> JobState]
BY DEF TypeOK, Becomes

LEMMA PlanType ==
  ASSUME TypeOK, NEW j \in Jobs, NEW e \in Events, NEW alerts \in SUBSET Alerts,
         Plan(j, e, alerts)
  PROVE  job' \in [Jobs -> JobState]
<1> DEFINE state == [job[j] EXCEPT !.left = job[j].left \ {e},
                                   !.todo = job[j].todo \cup Unsent(alerts)]
<1>1. job[j] \in JobState
  BY DEF TypeOK
<1>2. job[j].left \ {e} \in SUBSET Events /\ job[j].todo \cup Unsent(alerts) \in SUBSET Alerts
  BY <1>1 DEF JobState, Unsent
<1>3. state \in JobState
  BY <1>1, <1>2 DEF JobState
<1>4. Becomes(j, state)
  BY DEF Plan
<1> HIDE DEF state
<1> QED
  BY <1>3, <1>4, BecomesType

\* What provider p says of event e is taken: it is the first that is not down.
From(e, p) ==
  \E down \in SUBSET Providers : Answers(p, down) /\ NoteFailover(e, p, down)

DueReminders(e, p, t) ==
  {a \in RemindersFor(e, FixturesFrom(e, p, t), t) : a.kickoff - LeadTime[a.key.label] <= t}

\* The steps that plan the alerts of one event, by what is planned.
Planning(j, e, alerts) ==
  /\ Plan(j, e, alerts)
  /\ UNCHANGED <<worldVars, mode, ready, ledgerVars, faults>>
  /\ \/ /\ j = "sync" /\ job[j].pc \in {"fetch", "install"}
        /\ alerts = {}
     \/ /\ j = "reminders" /\ job[j].pc = "deliver" /\ job[j].todo = {}
        /\ alerts = RemindersFor(e, cache[e], job[j].now)
        /\ UNCHANGED <<fetched, cache, failedOver>>
     \/ /\ j = "notify" /\ job[j].pc = "fetch"
        /\ \/ alerts = {} /\ UNCHANGED failedOver
           \/ \E p \in Providers :
                From(e, p) /\ alerts = DueReminders(e, p, job[j].now)
        /\ UNCHANGED <<fetched, cache>>
     \/ /\ job[j].pc = "gather"
        /\ \/ alerts = {} /\ UNCHANGED failedOver
           \/ \E p \in Providers, upsets \in SUBSET ResultsFor(e, job[j].now) :
                /\ From(e, p)
                /\ alerts = ResultAlertsFor(e, p, ResultsFor(e, job[j].now), upsets)
        /\ UNCHANGED <<fetched, cache>>

LEMMA FetchFixturesPlans ==
  ASSUME NEW e, NEW down, FetchFixtures(e, down)
  PROVE  Planning("sync", e, {})
BY DEF FetchFixtures, Planning

LEMMA InstallFixturesPlans ==
  ASSUME NEW e, InstallFixtures(e)
  PROVE  Planning("sync", e, {})
BY DEF InstallFixtures, Planning

LEMMA PlanRemindersPlans ==
  ASSUME NEW e, PlanReminders(e)
  PROVE  Planning("reminders", e, RemindersFor(e, cache[e], job["reminders"].now))
BY DEF PlanReminders, Planning

LEMMA PlanNotifyPlans ==
  ASSUME NEW e, NEW down \in SUBSET Providers, PlanNotify(e, down)
  PROVE  \E alerts : Planning("notify", e, alerts)
<1>1. CASE Plan("notify", e, {}) /\ UNCHANGED failedOver
  BY <1>1 DEF PlanNotify, Planning
<1>2. CASE ~ (Plan("notify", e, {}) /\ UNCHANGED failedOver)
  <2>1. PICK p \in Providers :
          /\ Answers(p, down)
          /\ Plan("notify", e, DueReminders(e, p, job["notify"].now))
          /\ NoteFailover(e, p, down)
    BY <1>2 DEF PlanNotify, DueReminders
  <2>2. From(e, p)
    BY <2>1 DEF From
  <2> QED
    BY <2>1, <2>2 DEF PlanNotify, Planning
<1> QED
  BY <1>1, <1>2

LEMMA GatherResultsPlans ==
  ASSUME NEW j, NEW e, NEW down \in SUBSET Providers, GatherResults(j, e, down)
  PROVE  \E alerts : Planning(j, e, alerts)
<1> DEFINE results == ResultsFor(e, job[j].now)
<1>1. CASE Plan(j, e, {}) /\ UNCHANGED failedOver
  BY <1>1 DEF GatherResults, Planning
<1>2. CASE ~ (Plan(j, e, {}) /\ UNCHANGED failedOver)
  <2>1. PICK p \in Providers, upsets \in SUBSET results :
          /\ Answers(p, down)
          /\ Plan(j, e, ResultAlertsFor(e, p, results, upsets))
          /\ NoteFailover(e, p, down)
    BY <1>2 DEF GatherResults
  <2>2. From(e, p)
    BY <2>1 DEF From
  <2> QED
    BY <2>1, <2>2 DEF GatherResults, Planning
<1> QED
  BY <1>1, <1>2

LEMMA PlanningAlerts ==
  ASSUME TypeOK, NEW j \in Jobs, NEW e \in Events, NEW alerts, Planning(j, e, alerts)
  PROVE  alerts \subseteq Alerts
<1>1. CASE alerts = {}
  BY <1>1
<1>2. CASE alerts = RemindersFor(e, cache[e], job[j].now)
  BY <1>2, RemindersForType DEF TypeOK
<1>3. ASSUME NEW p \in Providers, alerts = DueReminders(e, p, job[j].now)
      PROVE  alerts \subseteq Alerts
  BY <1>3, FixturesFromType, RemindersForType DEF DueReminders
<1>4. ASSUME NEW p \in Providers, NEW upsets \in SUBSET ResultsFor(e, job[j].now),
             alerts = ResultAlertsFor(e, p, ResultsFor(e, job[j].now), upsets)
      PROVE  alerts \subseteq Alerts
  BY <1>4, ResultsForType, ResultAlertsForType
<1> QED
  BY <1>1, <1>2, <1>3, <1>4 DEF Planning

LEMMA FailoverType ==
  ASSUME TypeOK, NEW e \in Events, NEW p, From(e, p)
  PROVE  failedOver' \subseteq Events
BY DEF TypeOK, From, NoteFailover

LEMMA PlanningType ==
  ASSUME TypeOK, NEW j \in Jobs, NEW e \in Events, NEW alerts, Planning(j, e, alerts),
         j # "sync"
  PROVE  TypeOK'
<1>1. job' \in [Jobs -> JobState]
  BY PlanningAlerts, PlanType DEF Planning
<1>2. failedOver' \subseteq Events
  BY FailoverType DEF Planning, TypeOK
<1>3. job[j].pc = "gather" \/ j = "reminders" \/ j = "notify" => UNCHANGED <<fetched, cache>>
  BY DEF Planning
<1>4. UNCHANGED <<sender, quiet, clock, status, kickoff, moved, mode, ready, fetched, cache,
                  sent, pending, inbox, unmarked, dropped, faults>>
  BY <1>3 DEF Planning, worldVars, ledgerVars
<1> QED
  BY <1>1, <1>2, <1>4 DEF TypeOK

LEMMA OverType ==
  ASSUME TypeOK, NEW j \in Jobs, Over(j)
  PROVE  /\ job' \in [Jobs -> JobState]
         /\ ready' \subseteq Jobs
         /\ mode' \in {"off", "run", "once", "notify"}
         /\ cache' \in [Events -> SUBSET Fixtures]
<1>1. job' \in [Jobs -> JobState]
  BY AtRestType, BecomesType DEF Over
<1>2. ready' \subseteq Jobs
  BY DEF Over, ReadyAfter, RunJobs, Jobs
<1> QED
  BY <1>1, <1>2 DEF Over, TypeOK

\* Steps that handle one alert, and what they may do to the ledger.
LEMMA HandlingType ==
  ASSUME TypeOK, NEW j \in Jobs, NEW a \in job[j].todo,
         LeaveForLater(j, a) \/ Drop(j, a) \/ SendToConsole(j, a) \/ SendAccepted(j, a)
           \/ SendFailed(j, a)
  PROVE  TypeOK'
<1>1. job[j] \in JobState /\ a \in Alerts /\ a.key \in Keys
  BY DEF TypeOK, JobState, Alerts
<1>2. PassOver(j, a) => job' \in [Jobs -> JobState]
  <2>1. job[j].todo \ {a} \in SUBSET Alerts
    BY <1>1 DEF JobState
  <2>2. [job[j] EXCEPT !.todo = job[j].todo \ {a}] \in JobState
    BY <1>1, <2>1 DEF JobState
  <2> QED
    BY <2>2, BecomesType DEF PassOver
<1>3. ASSUME NEW how \in {"sent", "dropped"}, TakeUp(j, a, how)
      PROVE  job' \in [Jobs -> JobState]
  <2> DEFINE state == [job[j] EXCEPT !.pc = "mark", !.todo = job[j].todo \ {a},
                                     !.inHand = {[key |-> a.key, how |-> how]}]
  <2>1. job[j].todo \ {a} \in SUBSET Alerts /\ {[key |-> a.key, how |-> how]} \in SUBSET Marks
    BY <1>1 DEF JobState, Marks
  <2>2. state \in JobState
    BY <1>1, <2>1 DEF JobState, Steps
  <2>3. Becomes(j, state)
    BY <1>3 DEF TakeUp
  <2> HIDE DEF state
  <2> QED
    BY <2>2, <2>3, BecomesType
<1>4. ASSUME NEW lost \in 0..Attempts, Unanswered(a.key, lost)
      PROVE  faults' \in 0..MaxFaults /\ unmarked' \in [Keys -> Nat]
  BY <1>1, <1>4, RuntimeAssumption DEF TypeOK, Unanswered
<1>5. job' \in [Jobs -> JobState]
  <2>1. CASE LeaveForLater(j, a)
    BY <1>2, <2>1 DEF LeaveForLater
  <2>2. CASE Drop(j, a)
    BY <1>3, <2>2 DEF Drop
  <2>3. CASE SendToConsole(j, a)
    BY <1>2, <2>3 DEF SendToConsole
  <2>4. CASE SendAccepted(j, a)
    BY <1>3, <2>4 DEF SendAccepted
  <2>5. CASE SendFailed(j, a)
    BY <1>2, <2>5 DEF SendFailed
  <2> QED
    BY <2>1, <2>2, <2>3, <2>4, <2>5
<1>6. CASE LeaveForLater(j, a) \/ Drop(j, a) \/ SendToConsole(j, a)
  BY <1>5, <1>6
     DEF LeaveForLater, Drop, SendToConsole, Handling, TypeOK, worldVars
<1>7. CASE SendAccepted(j, a) \/ SendFailed(j, a)
  <2>1. inbox[a.key] \in Nat /\ Attempts \in Nat
    BY <1>1, RuntimeAssumption DEF TypeOK
  <2>2. CASE SendAccepted(j, a)
    <3>1. PICK lost \in 0..(Attempts - 1) :
            /\ Unanswered(a.key, lost)
            /\ inbox' = [inbox EXCEPT ![a.key] = @ + lost + 1]
      BY <2>2 DEF SendAccepted
    <3>2. inbox' \in [Keys -> Nat]
      BY <1>1, <2>1, <3>1 DEF TypeOK
    <3>3. faults' \in 0..MaxFaults /\ unmarked' \in [Keys -> Nat]
      BY <1>4, <2>1, <3>1
    <3> QED
      BY <1>5, <2>2, <3>2, <3>3 DEF SendAccepted, Handling, TypeOK, worldVars
  <2>3. CASE SendFailed(j, a)
    <3>1. PICK lost \in 0..Attempts :
            /\ Unanswered(a.key, lost)
            /\ inbox' = [inbox EXCEPT ![a.key] = @ + lost]
      BY <2>3 DEF SendFailed
    <3>2. inbox' \in [Keys -> Nat]
      BY <1>1, <2>1, <3>1 DEF TypeOK
    <3>3. faults' \in 0..MaxFaults /\ unmarked' \in [Keys -> Nat]
      BY <1>4, <3>1
    <3> QED
      BY <1>5, <2>3, <3>2, <3>3 DEF SendFailed, Handling, TypeOK, worldVars
  <2> QED
    BY <1>7, <2>2, <2>3
<1> QED
  BY <1>6, <1>7

LEMMA CommitType ==
  ASSUME TypeOK, CommitShared
  PROVE  /\ sent' \subseteq Keys /\ dropped' \subseteq Keys /\ pending' \subseteq Marks
         /\ UNCHANGED <<inbox, unmarked>>
BY DEF TypeOK, CommitShared, PendingKeys, Marks

LEMMA LoseMarksType ==
  ASSUME TypeOK, NEW jobs, LoseMarks(jobs)
  PROVE  /\ pending' \subseteq Marks /\ unmarked' \in [Keys -> Nat]
         /\ UNCHANGED <<sent, dropped, inbox>>
BY DEF TypeOK, LoseMarks

LEMMA AbortType ==
  ASSUME TypeOK, NEW j \in Jobs, Abort(j)
  PROVE  /\ job' \in [Jobs -> JobState]
         /\ ready' \subseteq Jobs
         /\ mode' \in {"off", "run", "once", "notify"}
         /\ cache' \in [Events -> SUBSET Fixtures]
         /\ fetched' \in [Events -> SUBSET Fixtures]
<1>1. job[j] \in JobState
  BY DEF TypeOK
<1>2. [job[j] EXCEPT !.pc = "deliver", !.todo = {}, !.inHand = {}] \in JobState
  BY <1>1 DEF JobState, Steps
<1>3. fetched' \in [Events -> SUBSET Fixtures]
  BY DEF Abort, TypeOK
<1>4. CASE j = "reminders"
  BY <1>2, <1>3, <1>4, BecomesType DEF Abort, TypeOK
<1>5. CASE j # "reminders"
  BY <1>3, <1>5, OverType DEF Abort
<1> QED
  BY <1>4, <1>5

LEMMA StepType == TypeOK /\ [Next]_vars => TypeOK'
<1> SUFFICES ASSUME TypeOK, [Next]_vars PROVE TypeOK'
  OBVIOUS
<1> USE DEF worldVars, ledgerVars
<1>0. ASSUME NEW j \in Jobs PROVE job[j] \in JobState
  BY DEF TypeOK
<1>1. ASSUME NEW program \in {"run", "once", "notify"}, Launch(program) PROVE TypeOK'
  BY <1>1 DEF Launch, TypeOK, Jobs
<1>2. ASSUME NEW j \in Jobs, Start(j) PROVE TypeOK'
  <2>1. clock \in Times /\ FirstStep[j] \in Steps
    BY DEF TypeOK, FirstStep, Steps, Jobs
  <2>2. [AtRest EXCEPT !.pc = FirstStep[j], !.now = clock, !.left = Events] \in JobState
    BY <2>1, AtRestType, JobParts
  <2> QED
    BY <1>2, <2>2, BecomesType DEF Start, TypeOK
<1>3. ASSUME NEW e \in Events, NEW down \in SUBSET Providers, FetchFixtures(e, down)
      PROVE  TypeOK'
  <2>0. "sync" \in Jobs
    BY DEF Jobs
  <2>1. job' \in [Jobs -> JobState]
    BY <1>3, <2>0, PlanType DEF FetchFixtures
  <2>2. fetched' \in [Events -> SUBSET Fixtures]
    <3>1. \/ fetched' = [fetched EXCEPT ![e] = cache[e]]
          \/ \E p \in Providers :
               fetched' = [fetched EXCEPT ![e] = FixturesFrom(e, p, job["sync"].now)]
      BY <1>3 DEF FetchFixtures
    <3>2. ASSUME NEW p \in Providers
          PROVE  FixturesFrom(e, p, job["sync"].now) \in SUBSET Fixtures
      BY FixturesFromType
    <3> QED
      BY <3>1, <3>2 DEF TypeOK
  <2>3. failedOver' \subseteq Events
    BY <1>3 DEF FetchFixtures, NoteFailover, TypeOK
  <2> QED
    BY <1>3, <2>1, <2>2, <2>3 DEF FetchFixtures, TypeOK
<1>21. ASSUME FixturesFetched PROVE TypeOK'
  <2>1. [job["sync"] EXCEPT !.pc = "install", !.now = 0, !.left = Events] \in JobState
    <3>1. job["sync"] \in JobState /\ 0 \in Times /\ "install" \in Steps
      BY <1>0, RuntimeAssumption DEF Jobs, Steps, Times
    <3> QED
      BY <3>1 DEF JobState
  <2> QED
    BY <1>21, <2>1, BecomesType DEF FixturesFetched, TypeOK, Jobs
<1>4. ASSUME NEW e \in Events, InstallFixtures(e) PROVE TypeOK'
  <2>1. job' \in [Jobs -> JobState]
    BY <1>4, PlanType DEF InstallFixtures, Jobs
  <2>2. /\ cache' \in [Events -> SUBSET Fixtures]
        /\ fetched' \in [Events -> SUBSET Fixtures]
    BY <1>4 DEF InstallFixtures, TypeOK
  <2> QED
    BY <1>4, <2>1, <2>2 DEF InstallFixtures, TypeOK
<1>5. ASSUME SetSyncTime PROVE TypeOK'
  <2>1. [job["sync"] EXCEPT !.pc = "count"] \in JobState
    BY <1>0 DEF JobState, Jobs, Steps
  <2> QED
    BY <1>5, <2>1, BecomesType, CommitType DEF SetSyncTime, TypeOK, Jobs
<1>6. ASSUME SetFixtureCount PROVE TypeOK'
  BY <1>6, OverType, CommitType DEF SetFixtureCount, TypeOK, Jobs
<1>7. ASSUME NEW e \in Events, PlanReminders(e) PROVE TypeOK'
  BY <1>7, PlanRemindersPlans, PlanningType DEF Jobs
<1>8. ASSUME NEW e \in Events, NEW down \in SUBSET Providers, PlanNotify(e, down)
      PROVE  TypeOK'
  BY <1>8, PlanNotifyPlans, PlanningType DEF Jobs
<1>9. ASSUME NotifyPlanned PROVE TypeOK'
  <2>1. [job["notify"] EXCEPT !.pc = "gather", !.left = Events] \in JobState
    BY <1>0 DEF JobState, Jobs, Steps
  <2> QED
    BY <1>9, <2>1, BecomesType DEF NotifyPlanned, TypeOK, Jobs
<1>10. ASSUME NEW j \in Jobs, NEW e \in Events, NEW down \in SUBSET Providers,
              GatherResults(j, e, down)
       PROVE  TypeOK'
  <2>1. PICK alerts : Planning(j, e, alerts)
    BY <1>10, GatherResultsPlans
  <2>2. CASE j # "sync"
    BY <2>1, <2>2, PlanningType
  <2>3. CASE j = "sync"
    <3>1. job' \in [Jobs -> JobState]
      BY <2>1, PlanningAlerts, PlanType DEF Planning
    <3>2. failedOver' \subseteq Events
      BY <1>10 DEF GatherResults, NoteFailover, TypeOK
    <3> QED
      BY <1>10, <3>1, <3>2 DEF GatherResults, TypeOK
  <2> QED
    BY <2>2, <2>3
<1>11. ASSUME NEW j \in Jobs, ResultsGathered(j) PROVE TypeOK'
  <2>1. [job[j] EXCEPT !.pc = "deliver"] \in JobState
    BY <1>0 DEF JobState, Steps
  <2> QED
    BY <1>11, <2>1, BecomesType DEF ResultsGathered, TypeOK
<1>12. ASSUME NEW j \in Jobs, Mark(j) PROVE TypeOK'
  <2>1. [job[j] EXCEPT !.pc = "commit", !.inHand = {}] \in JobState
    BY <1>0 DEF JobState, Steps
  <2>2. pending' \subseteq Marks
    BY <1>0, <1>12 DEF Mark, TypeOK, JobState
  <2> QED
    BY <1>12, <2>1, <2>2, BecomesType DEF Mark, TypeOK
<1>13. ASSUME NEW j \in Jobs, Commit(j) PROVE TypeOK'
  <2>1. [job[j] EXCEPT !.pc = "deliver"] \in JobState
    BY <1>0 DEF JobState, Steps
  <2> QED
    BY <1>13, <2>1, BecomesType, CommitType DEF Commit, TypeOK
<1>14. ASSUME NEW j \in Jobs, FinishJob(j) PROVE TypeOK'
  BY <1>14, OverType DEF FinishJob, TypeOK
<1>15. ASSUME NEW j \in Jobs, DeliveryStep(j) PROVE TypeOK'
  BY <1>12, <1>13, <1>14, <1>15, HandlingType DEF DeliveryStep
<1>16. ASSUME NEW j \in Jobs, StoreFails(j) \/ JobRaises(j) PROVE TypeOK'
  <2>1. faults' \in 0..MaxFaults
    BY <1>16, RuntimeAssumption DEF StoreFails, JobRaises, TypeOK
  <2>2. CASE StoreFails(j)
    BY <2>1, <2>2, AbortType, LoseMarksType DEF StoreFails, TypeOK
  <2>3. CASE JobRaises(j)
    BY <2>1, <2>3, AbortType DEF JobRaises, TypeOK
  <2> QED
    BY <1>16, <2>2, <2>3
<1>17. ASSUME Crash PROVE TypeOK'
  <2>1. faults' \in 0..MaxFaults
    BY <1>17, RuntimeAssumption DEF Crash, TypeOK
  <2> QED
    BY <1>17, <2>1, AtRestType, LoseMarksType DEF Crash, TypeOK
<1>18. ASSUME WorldStep PROVE TypeOK'
  <2>1. clock' \in Times
    BY <1>18, RuntimeAssumption
       DEF WorldStep, Tick, Postpone, FullTime, ScoreKnown, SetMatchStatus, Reschedule,
           Times, TypeOK
  <2>2. status' \in [Matches -> Statuses]
    BY <1>18
       DEF WorldStep, Tick, Postpone, FullTime, ScoreKnown, SetMatchStatus, Reschedule,
           Statuses, TypeOK
  <2>3. kickoff' \in [Matches -> Kickoffs] /\ moved' \subseteq Matches
    BY <1>18
       DEF WorldStep, Tick, Postpone, FullTime, ScoreKnown, SetMatchStatus, Reschedule,
           TypeOK
  <2>4. World
    BY <1>18
       DEF WorldStep, Tick, Postpone, FullTime, ScoreKnown, SetMatchStatus, Reschedule
  <2> QED
    BY <2>1, <2>2, <2>3, <2>4 DEF World, TypeOK
<1>19. CASE UNCHANGED vars
  BY <1>19 DEF vars, TypeOK
<1>20. ASSUME NEW j \in Jobs, JobStep(j) PROVE TypeOK'
  BY <1>2, <1>3, <1>4, <1>5, <1>6, <1>7, <1>8, <1>9, <1>10, <1>11, <1>15, <1>20, <1>21
     DEF JobStep, SyncStep, NotifyStep, GatherStep
<1> QED
  BY <1>1, <1>16, <1>17, <1>18, <1>19, <1>20 DEF Next

\* Type correctness of the single-user program.
THEOREM TypeCorrect == Spec => []TypeOK
<1> QED
  BY InitType, StepType, PTL DEF Spec

-----------------------------------------------------------------------------
(* The flow of the jobs: which of them may be under way together *)

StepsOf ==
  [j \in Jobs |->
     CASE j = "sync"      -> {"idle", "fetch", "install", "count"}
       [] j = "reminders" -> {"idle", "deliver", "mark", "commit"}
       [] j = "results"   -> {"idle", "gather", "deliver", "mark", "commit"}
       [] j = "notify"    -> {"idle", "fetch", "gather", "deliver", "mark", "commit"}]

\* A job is under way only while the running program may start it: the three of `run'
\* together, the three of `run --once' one at a time, and notify alone.
Flow ==
  /\ \A j \in Jobs : job[j].pc \in StepsOf[j]
  /\ \A j \in Jobs : job[j].pc = "idle" => job[j].todo = {}
  /\ \A j \in Jobs : job[j].pc # "idle" => j \in ready
  /\ \A j \in Jobs : job[j].pc # "mark" => job[j].inHand = {}
  /\ mode = "off" => ready = {}
  /\ mode = "run" => ready = {"sync"} \/ ready = RunJobs
  /\ mode = "once" => \E j \in RunJobs : ready = {j}
  /\ mode = "notify" => ready = {"notify"}

LEMMA FlowBecomes ==
  ASSUME TypeOK, Flow, NEW j \in ready, NEW state \in JobState, Becomes(j, state),
         UNCHANGED <<mode, ready>>, state.pc \in StepsOf[j], state.pc # "idle",
         state.pc # "mark" => state.inHand = {}
  PROVE  Flow'
<1>1. j \in Jobs
  BY DEF TypeOK
<1>2. \A i \in Jobs : job'[i] = IF i = j THEN state ELSE job[i]
  BY <1>1 DEF Becomes, TypeOK
<1> QED
  BY <1>1, <1>2 DEF Flow

LEMMA FlowOver ==
  ASSUME TypeOK, Flow, NEW j \in Jobs, job[j].pc # "idle", Over(j)
  PROVE  Flow'
<1>1. \A i \in Jobs : job'[i] = IF i = j THEN AtRest ELSE job[i]
  BY DEF Over, Becomes, TypeOK
<1>2. /\ \A i \in Jobs : job'[i].pc \in StepsOf[i]
      /\ \A i \in Jobs : job'[i].pc = "idle" => job'[i].todo = {}
      /\ \A i \in Jobs : job'[i].pc # "mark" => job'[i].inHand = {}
  BY <1>1 DEF Flow, AtRest, StepsOf, Jobs
<1>3. j \in ready /\ ready' = ReadyAfter(j)
  BY DEF Flow, Over
<1>4. mode # "off" /\ mode \in {"run", "once", "notify"}
  BY <1>3 DEF Flow, TypeOK
<1>5. mode' = IF ready' = {} THEN "off" ELSE mode
  BY DEF Over
<1>6. CASE mode = "run"
  <2>1. ready' = RunJobs /\ ready \subseteq RunJobs /\ RunJobs # {}
    BY <1>3, <1>6 DEF ReadyAfter, Flow, RunJobs
  <2>2. \A i \in Jobs : job'[i].pc # "idle" => i \in RunJobs
    BY <1>1, <2>1 DEF Flow, AtRest
  <2> QED
    BY <1>2, <1>5, <1>6, <2>1, <2>2 DEF Flow
<1>7. CASE mode # "run"
  <2>1. ready = {j}
    BY <1>3, <1>4, <1>7 DEF Flow
  <2>2. \A i \in Jobs : job'[i].pc = "idle"
    BY <1>1, <2>1 DEF Flow, AtRest
  <2>3. \/ ready' = {}
        \/ mode = "once" /\ \E i \in RunJobs : ready' = {i} /\ ready' # {}
    BY <1>3, <1>4, <1>7 DEF ReadyAfter, RunJobs
  <2> QED
    BY <1>2, <1>4, <1>5, <2>2, <2>3 DEF Flow
<1> QED
  BY <1>6, <1>7

LEMMA FlowAbort ==
  ASSUME TypeOK, Flow, NEW j \in Jobs, job[j].pc # "idle", Abort(j)
  PROVE  Flow'
<1>1. CASE j = "reminders"
  <2>1. [job[j] EXCEPT !.pc = "deliver", !.todo = {}, !.inHand = {}] \in JobState
    BY DEF TypeOK, JobState, Steps
  <2>2. j \in ready
    BY DEF Flow
  <2> QED
    BY <1>1, <2>1, <2>2, FlowBecomes DEF Abort, StepsOf, JobState
<1>2. CASE j # "reminders"
  BY <1>2, FlowOver DEF Abort
<1> QED
  BY <1>1, <1>2

LEMMA FlowHandling ==
  ASSUME TypeOK, Flow, NEW j \in Jobs, NEW a \in job[j].todo,
         LeaveForLater(j, a) \/ Drop(j, a) \/ SendToConsole(j, a) \/ SendAccepted(j, a)
           \/ SendFailed(j, a)
  PROVE  Flow'
<1>1. job[j].pc = "deliver" /\ UNCHANGED <<mode, ready>>
  BY DEF LeaveForLater, Drop, SendToConsole, SendAccepted, SendFailed, Handling
<1>2. job[j] \in JobState /\ a \in Alerts /\ a.key \in Keys
  BY DEF TypeOK, JobState, Alerts
<1>3. j \in ready /\ job[j].inHand = {} /\ "mark" \in StepsOf[j]
  BY <1>1 DEF Flow, StepsOf, Jobs
<1>4. CASE PassOver(j, a)
  <2> DEFINE state == [job[j] EXCEPT !.todo = job[j].todo \ {a}]
  <2>1. state \in JobState /\ state.pc = "deliver" /\ state.inHand = {}
    BY <1>1, <1>2, <1>3 DEF JobState
  <2>2. Becomes(j, state) /\ "deliver" \in StepsOf[j]
    BY <1>1, <1>4 DEF PassOver, Flow
  <2> HIDE DEF state
  <2> QED
    BY <1>1, <1>3, <2>1, <2>2, FlowBecomes
<1>5. ASSUME NEW how \in {"sent", "dropped"}, TakeUp(j, a, how)
      PROVE  Flow'
  <2> DEFINE state == [job[j] EXCEPT !.pc = "mark", !.todo = job[j].todo \ {a},
                                     !.inHand = {[key |-> a.key, how |-> how]}]
  <2>1. state \in JobState /\ state.pc = "mark"
    <3>1. job[j].todo \ {a} \in SUBSET Alerts /\ {[key |-> a.key, how |-> how]} \in SUBSET Marks
      BY <1>2 DEF JobState, Marks
    <3> QED
      BY <1>2, <3>1 DEF JobState, Steps
  <2>2. Becomes(j, state)
    BY <1>5 DEF TakeUp
  <2> HIDE DEF state
  <2> QED
    BY <1>1, <1>3, <2>1, <2>2, FlowBecomes
<1> QED
  BY <1>4, <1>5 DEF LeaveForLater, Drop, SendToConsole, SendAccepted, SendFailed

LEMMA FlowPlanning ==
  ASSUME TypeOK, Flow, NEW j \in Jobs, NEW e \in Events, NEW alerts, Planning(j, e, alerts)
  PROVE  Flow'
<1> DEFINE state == [job[j] EXCEPT !.left = job[j].left \ {e},
                                   !.todo = job[j].todo \cup Unsent(alerts)]
<1>1. job[j] \in JobState /\ alerts \subseteq Alerts
  BY PlanningAlerts DEF TypeOK
<1>2. job[j].left \ {e} \in SUBSET Events /\ job[j].todo \cup Unsent(alerts) \in SUBSET Alerts
  BY <1>1 DEF JobState, Unsent
<1>3. state \in JobState /\ state.pc = job[j].pc /\ state.inHand = job[j].inHand
  BY <1>1, <1>2 DEF JobState
<1>4. Becomes(j, state) /\ UNCHANGED <<mode, ready>> /\ job[j].pc # "idle"
  BY DEF Planning, Plan
<1>5. j \in ready /\ job[j].pc \in StepsOf[j] /\ (job[j].pc # "mark" => job[j].inHand = {})
  BY <1>4 DEF Flow
<1> HIDE DEF state
<1> QED
  BY <1>3, <1>4, <1>5, FlowBecomes

LEMMA FlowStep == TypeOK /\ Flow /\ [Next]_vars => Flow'
<1> SUFFICES ASSUME TypeOK, Flow, [Next]_vars PROVE Flow'
  OBVIOUS
<1> USE DEF worldVars, ledgerVars
<1>0. ASSUME NEW j \in Jobs PROVE job[j] \in JobState
  BY DEF TypeOK
<1>1. ASSUME NEW program \in {"run", "once", "notify"}, Launch(program) PROVE Flow'
  BY <1>1 DEF Launch, Flow, RunJobs
<1>2. ASSUME NEW j \in Jobs, Start(j) PROVE Flow'
  <2> DEFINE state == [AtRest EXCEPT !.pc = FirstStep[j], !.now = clock, !.left = Events]
  <2>1. clock \in Times /\ FirstStep[j] \in Steps
    BY DEF TypeOK, FirstStep, Steps, Jobs
  <2>2. state \in JobState
    BY <2>1, AtRestType, JobParts
  <2>3. /\ state.pc \in StepsOf[j] /\ state.pc # "idle" /\ state.inHand = {}
        /\ Becomes(j, state) /\ j \in ready
    BY <1>2 DEF Start, AtRest, FirstStep, StepsOf, Jobs
  <2> HIDE DEF state
  <2> QED
    BY <1>2, <2>2, <2>3, FlowBecomes DEF Start
<1>4. ASSUME NEW j \in Jobs, DeliveryStep(j) PROVE Flow'
  <2>1. CASE \E a \in job[j].todo : LeaveForLater(j, a) \/ Drop(j, a) \/ SendToConsole(j, a)
                                     \/ SendAccepted(j, a) \/ SendFailed(j, a)
    BY <2>1, FlowHandling
  <2>2. CASE Mark(j) \/ Commit(j)
    <3>1. PICK pc \in {"commit", "deliver"} :
            /\ Becomes(j, [job[j] EXCEPT !.pc = pc, !.inHand = {}])
            /\ pc \in StepsOf[j] /\ job[j].pc # "idle"
      <4>1. CASE Mark(j)
        BY <4>1 DEF Mark, Flow, StepsOf, Jobs
      <4>2. CASE Commit(j)
        <5>1. job[j].pc = "commit" /\ job[j].inHand = {} /\ "deliver" \in StepsOf[j]
          BY <4>2 DEF Commit, Flow, StepsOf, Jobs
        <5>2. [job[j] EXCEPT !.pc = "deliver", !.inHand = {}] = [job[j] EXCEPT !.pc = "deliver"]
          BY <1>0, <5>1 DEF JobState
        <5> QED
          BY <4>2, <5>1, <5>2 DEF Commit
      <4> QED
        BY <2>2, <4>1, <4>2
    <3> DEFINE state == [job[j] EXCEPT !.pc = pc, !.inHand = {}]
    <3>2. state \in JobState /\ state.pc = pc /\ state.inHand = {}
      BY <1>0, <3>1 DEF JobState, Steps
    <3>3. j \in ready /\ UNCHANGED <<mode, ready>>
      BY <2>2, <3>1 DEF Flow, Mark, Commit
    <3> HIDE DEF state
    <3>4. Becomes(j, state)
      BY <3>1 DEF state
    <3> QED
      BY <3>1, <3>2, <3>3, <3>4, FlowBecomes
  <2>3. CASE FinishJob(j)
    BY <2>3, FlowOver DEF FinishJob
  <2> QED
    BY <1>4, <2>1, <2>2, <2>3 DEF DeliveryStep
<1>3. ASSUME NEW j \in Jobs, NEW e \in Events, NEW alerts, Planning(j, e, alerts) PROVE Flow'
  BY <1>3, FlowPlanning
<1>5. ASSUME NEW j \in Jobs, NEW state \in JobState, Becomes(j, state), UNCHANGED <<mode, ready>>,
             job[j].pc \notin {"idle", "mark"}, state.inHand = job[j].inHand,
             state.pc \in StepsOf[j] \ {"idle"}
      PROVE  Flow'
  <2>1. j \in ready /\ state.inHand = {}
    BY <1>5 DEF Flow
  <2> QED
    BY <1>5, <2>1, FlowBecomes
<1>12. ASSUME FixturesFetched PROVE Flow'
  <2> DEFINE state == [job["sync"] EXCEPT !.pc = "install", !.now = 0, !.left = Events]
  <2>1. /\ "sync" \in Jobs /\ "install" \in Steps /\ "install" \in StepsOf["sync"]
        /\ 0 \in Times
    BY RuntimeAssumption DEF Jobs, Steps, StepsOf, Times
  <2>2. state \in JobState /\ state.pc = "install" /\ state.inHand = job["sync"].inHand
    BY <1>0, <2>1 DEF JobState
  <2>3. Becomes("sync", state) /\ job["sync"].pc = "fetch" /\ UNCHANGED <<mode, ready>>
    BY <1>12 DEF FixturesFetched
  <2> HIDE DEF state
  <2> QED
    BY <1>5, <2>1, <2>2, <2>3
<1>13. ASSUME NotifyPlanned PROVE Flow'
  <2> DEFINE state == [job["notify"] EXCEPT !.pc = "gather", !.left = Events]
  <2>1. "notify" \in Jobs /\ "gather" \in Steps /\ "gather" \in StepsOf["notify"]
    BY DEF Jobs, Steps, StepsOf
  <2>2. state \in JobState /\ state.pc = "gather" /\ state.inHand = job["notify"].inHand
    BY <1>0, <2>1 DEF JobState
  <2>3. Becomes("notify", state) /\ job["notify"].pc = "fetch" /\ UNCHANGED <<mode, ready>>
    BY <1>13 DEF NotifyPlanned
  <2> HIDE DEF state
  <2> QED
    BY <1>5, <2>1, <2>2, <2>3
<1>14. ASSUME NEW j \in Jobs, ResultsGathered(j) PROVE Flow'
  <2> DEFINE state == [job[j] EXCEPT !.pc = "deliver"]
  <2>1. job[j].pc = "gather" /\ Becomes(j, state) /\ UNCHANGED <<mode, ready>>
    BY <1>14 DEF ResultsGathered
  <2>2. "deliver" \in Steps /\ "deliver" \in StepsOf[j]
    BY <2>1 DEF Flow, Jobs, Steps, StepsOf
  <2>3. state \in JobState /\ state.pc = "deliver" /\ state.inHand = job[j].inHand
    BY <1>0, <2>2 DEF JobState
  <2> HIDE DEF state
  <2> QED
    BY <1>5, <2>1, <2>2, <2>3
<1>6. ASSUME SetSyncTime PROVE Flow'
  <2> DEFINE state == [job["sync"] EXCEPT !.pc = "count"]
  <2>0. "sync" \in Jobs
    BY DEF Jobs
  <2>1. state \in JobState /\ state.pc = "count" /\ state.inHand = job["sync"].inHand
    BY <1>0, <2>0 DEF JobState, Steps
  <2>2. Becomes("sync", state) /\ job["sync"].pc = "install" /\ UNCHANGED <<mode, ready>>
    BY <1>6 DEF SetSyncTime
  <2>3. "sync" \in ready /\ job["sync"].inHand = {} /\ "count" \in StepsOf["sync"]
    BY <2>0, <2>2 DEF Flow, StepsOf
  <2> HIDE DEF state
  <2> QED
    BY <2>1, <2>2, <2>3, FlowBecomes
<1>7. ASSUME SetFixtureCount PROVE Flow'
  BY <1>7, FlowOver DEF SetFixtureCount, Jobs
<1>8. ASSUME NEW j \in Jobs, StoreFails(j) \/ JobRaises(j) PROVE Flow'
  BY <1>8, FlowAbort DEF StoreFails, JobRaises
<1>9. ASSUME Crash PROVE Flow'
  <2>1. /\ \A j \in Jobs : job'[j] = AtRest
        /\ ready' = {} /\ mode' = "off"
    BY <1>9 DEF Crash
  <2> QED
    BY <2>1 DEF Flow, AtRest, StepsOf, Jobs
<1>10. CASE WorldStep \/ UNCHANGED vars
  <2>1. UNCHANGED <<mode, ready, job>>
    BY <1>10 DEF WorldStep, Tick, Postpone, FullTime, ScoreKnown, SetMatchStatus, Reschedule,
                 World, vars
  <2> QED
    BY <2>1 DEF Flow
<1>11. ASSUME NEW j \in Jobs, JobStep(j) PROVE Flow'
  <2>1. CASE j = "sync" /\ SyncStep
    BY <1>3, <1>6, <1>7, <1>12, <2>1, FetchFixturesPlans, InstallFixturesPlans DEF SyncStep
  <2>2. CASE j = "reminders" /\ \E e \in Events : PlanReminders(e)
    BY <1>3, <2>2, PlanRemindersPlans
  <2>3. CASE j = "notify" /\ NotifyStep
    BY <1>3, <1>13, <2>3, PlanNotifyPlans DEF NotifyStep
  <2>4. CASE GatherStep(j)
    BY <1>3, <1>14, <2>4, GatherResultsPlans DEF GatherStep
  <2> QED
    BY <1>2, <1>4, <1>11, <2>1, <2>2, <2>3, <2>4 DEF JobStep
<1> QED
  BY <1>1, <1>8, <1>9, <1>10, <1>11 DEF Next


-----------------------------------------------------------------------------
(* What the jobs are still to handle *)

OnePerMatch(fixtures) == \A f, g \in fixtures : f.match = g.match => f = g

\* Alerts a job can have in its plan or in hand: no two jobs of one program can hold
\* the same.
MayHold(j, k) ==
  \/ j = "reminders" /\ IsReminder(k)
  \/ j = "results" /\ ~ IsReminder(k)
  \/ j = "notify"

\* While job j still plans, what it has planned is of the events it is through with;
\* notify plans reminders first and results then.
Planned(state) ==
  \A a \in state.todo :
    /\ state.pc = "fetch" => IsReminder(a.key) /\ a.key.event \notin state.left
    /\ state.pc = "gather" => IsReminder(a.key) \/ a.key.event \notin state.left

Owed ==
  /\ \A e \in Events : OnePerMatch(cache[e]) /\ OnePerMatch(fetched[e])
  /\ \A j \in Jobs : \A a, b \in job[j].todo : a.key = b.key => a = b
  /\ \A j \in Jobs : \A a \in job[j].todo : MayHold(j, a.key)
  /\ \A j \in Jobs : \A r \in job[j].inHand : MayHold(j, r.key)
  /\ \A j \in Jobs : Planned(job[j])

LEMMA FixturesFromFacts ==
  ASSUME NEW e \in Events, NEW p \in Providers, NEW t
  PROVE  OnePerMatch(FixturesFrom(e, p, t))
BY DEF FixturesFrom, OnePerMatch

LEMMA ReminderParts ==
  ASSUME NEW e, NEW fixtures \in SUBSET Fixtures, NEW t,
         NEW a \in RemindersFor(e, fixtures, t)
  PROVE  \E f \in fixtures, l \in Leads :
           /\ a = AlertFor(e, f.match, f.by, f.kickoff, l)
           /\ t < f.kickoff
BY DEF RemindersFor

LEMMA ResultAlertParts ==
  ASSUME NEW e, NEW p, NEW results, NEW upsets \in SUBSET results,
         NEW a \in ResultAlertsFor(e, p, results, upsets)
  PROVE  \E m \in results, l \in {"final", "shock"} :
           a = AlertFor(e, m, Naming[p], kickoff[m], l)
BY DEF ResultAlertsFor

LEMMA ReminderFacts ==
  ASSUME NEW e \in Events, NEW fixtures \in SUBSET Fixtures, NEW t, OnePerMatch(fixtures),
         NEW a \in RemindersFor(e, fixtures, t)
  PROVE  /\ a.key.event = e /\ IsReminder(a.key)
         /\ \A b \in RemindersFor(e, fixtures, t) : a.key = b.key => a = b
<1>1. PICK f \in fixtures, l \in Leads : a = AlertFor(e, f.match, f.by, f.kickoff, l)
  BY ReminderParts
<1>2. a.key.event = e /\ a.key.label = l /\ a.key.id.match = f.match /\ a.kickoff = f.kickoff
  BY <1>1 DEF AlertFor, StableId
<1>3. ASSUME NEW b \in RemindersFor(e, fixtures, t), a.key = b.key PROVE a = b
  <2>1. PICK g \in fixtures, h \in Leads : b = AlertFor(e, g.match, g.by, g.kickoff, h)
    BY ReminderParts
  <2>2. b.key.label = h /\ b.key.id.match = g.match
    BY <2>1 DEF AlertFor, StableId
  <2>3. f = g /\ l = h
    BY <1>2, <1>3, <2>2 DEF OnePerMatch
  <2> QED
    BY <1>1, <2>1, <2>3
<1> QED
  BY <1>2, <1>3 DEF IsReminder

LEMMA ResultAlertFacts ==
  ASSUME NEW e \in Events, NEW p \in Providers, NEW results, NEW upsets \in SUBSET results,
         NEW a \in ResultAlertsFor(e, p, results, upsets)
  PROVE  /\ a.key.event = e /\ ~ IsReminder(a.key)
         /\ a.key.id.match \in results
         /\ \A b \in ResultAlertsFor(e, p, results, upsets) : a.key = b.key => a = b
<1>1. PICK m \in results, l \in {"final", "shock"} :
        a = AlertFor(e, m, Naming[p], kickoff[m], l)
  BY ResultAlertParts
<1>2. a.key.event = e /\ a.key.label = l /\ a.key.id.match = m /\ a.kickoff = kickoff[m]
  BY <1>1 DEF AlertFor, StableId
<1>3. ASSUME NEW b \in ResultAlertsFor(e, p, results, upsets), a.key = b.key PROVE a = b
  <2>1. PICK n \in results, h \in {"final", "shock"} :
          b = AlertFor(e, n, Naming[p], kickoff[n], h)
    BY ResultAlertParts
  <2>2. b.key.label = h /\ b.key.id.match = n
    BY <2>1 DEF AlertFor, StableId
  <2> QED
    BY <1>1, <1>2, <1>3, <2>1, <2>2
<1> QED
  BY <1>2, <1>3, RuntimeAssumption DEF IsReminder

\* The alerts of one planning step: of event e, of a kind the job may hold, one per key.
LEMMA PlanningFacts ==
  ASSUME TypeOK, Flow, Owed, NEW j \in Jobs, NEW e \in Events, NEW alerts,
         Planning(j, e, alerts)
  PROVE  \A a \in alerts :
           /\ a.key.event = e
           /\ MayHold(j, a.key)
           /\ job[j].pc = "fetch" => IsReminder(a.key)
           /\ job[j].pc = "gather" => ~ IsReminder(a.key)
           /\ \A b \in alerts : a.key = b.key => a = b
<1>1. CASE alerts = {}
  BY <1>1
<1>2. CASE /\ j = "reminders" /\ job[j].pc = "deliver"
           /\ alerts = RemindersFor(e, cache[e], job[j].now)
  <2>1. cache[e] \in SUBSET Fixtures /\ OnePerMatch(cache[e])
    BY DEF TypeOK, Owed
  <2> QED
    BY <1>2, <2>1, ReminderFacts DEF MayHold
<1>3. ASSUME j = "notify", job[j].pc = "fetch",
             NEW p \in Providers, alerts = DueReminders(e, p, job[j].now)
      PROVE  \A a \in alerts :
               /\ a.key.event = e
               /\ IsReminder(a.key)
               /\ \A b \in alerts : a.key = b.key => a = b
  <2>1. /\ FixturesFrom(e, p, job[j].now) \in SUBSET Fixtures
        /\ OnePerMatch(FixturesFrom(e, p, job[j].now))
    BY FixturesFromType, FixturesFromFacts
  <2> QED
    BY <1>3, <2>1, ReminderFacts DEF DueReminders
<1>4. ASSUME job[j].pc = "gather", NEW p \in Providers,
             NEW upsets \in SUBSET ResultsFor(e, job[j].now),
             alerts = ResultAlertsFor(e, p, ResultsFor(e, job[j].now), upsets)
      PROVE  \A a \in alerts :
               /\ a.key.event = e
               /\ ~ IsReminder(a.key)
               /\ \A b \in alerts : a.key = b.key => a = b
  BY <1>4, ResultAlertFacts
<1>5. job[j].pc = "gather" => j \in {"results", "notify"}
  BY DEF Flow, StepsOf, Jobs
<1> QED
  BY <1>1, <1>2, <1>3, <1>4, <1>5 DEF Planning, MayHold

\* After a planning step.
LEMMA PlanningOwed ==
  ASSUME TypeOK, Flow, Owed, NEW j \in Jobs, NEW e \in Events, NEW alerts,
         Planning(j, e, alerts),
         \A x \in Events : OnePerMatch(cache'[x]) /\ OnePerMatch(fetched'[x])
  PROVE  Owed'
<1> DEFINE new == Unsent(alerts)
<1>1. job[j] \in JobState
  BY DEF TypeOK
<1>2. /\ job'[j].todo = job[j].todo \cup new
      /\ job'[j].left = job[j].left \ {e}
      /\ job'[j].pc = job[j].pc
      /\ job'[j].inHand = job[j].inHand
      /\ e \in job[j].left
  BY <1>1 DEF Planning, Plan, Becomes, TypeOK, JobState
<1>3. \A i \in Jobs \ {j} : job'[i] = job[i]
  BY DEF Planning, Plan, Becomes, TypeOK
<1>4. \A a \in new :
        /\ a.key.event = e
        /\ MayHold(j, a.key)
        /\ job[j].pc = "fetch" => IsReminder(a.key)
        /\ job[j].pc = "gather" => ~ IsReminder(a.key)
        /\ \A b \in new : a.key = b.key => a = b
  BY PlanningFacts DEF Unsent
<1>5. job[j].pc \in {"fetch", "gather"} \/ job[j].todo = {}
  BY DEF Planning, Owed, MayHold
<1>6. \A a \in job[j].todo, b \in new : a.key # b.key
  BY <1>2, <1>4, <1>5 DEF Owed, Planned
<1> HIDE DEF new
<1>7. \A a, b \in job'[j].todo : a.key = b.key => a = b
  BY <1>2, <1>4, <1>6 DEF Owed
<1>8. Planned(job'[j])
  BY <1>2, <1>4 DEF Owed, Planned
<1>9. /\ \A a \in job'[j].todo : MayHold(j, a.key)
      /\ \A r \in job'[j].inHand : MayHold(j, r.key)
  BY <1>2, <1>4 DEF Owed
<1> QED
  BY <1>3, <1>7, <1>8, <1>9 DEF Owed, MayHold, IsReminder

\* Job i plans nothing more in this step, and has nothing in hand it may not hold.
PlansNothing(i) ==
  /\ job'[i].todo \subseteq job[i].todo
  /\ \/ job'[i].todo = {}
     \/ job'[i].pc \notin {"fetch", "gather"}
     \/ job'[i].pc = job[i].pc /\ job'[i].left = job[i].left
     \/ job[i].pc = "fetch" /\ job'[i].pc = "gather"
  /\ \A r \in job'[i].inHand : MayHold(i, r.key)

LEMMA NothingPlannedOwed ==
  ASSUME TypeOK, Owed,
         \A x \in Events : OnePerMatch(cache'[x]) /\ OnePerMatch(fetched'[x]),
         \A i \in Jobs : PlansNothing(i)
  PROVE  Owed'
<1>1. \A i \in Jobs : Planned(job'[i])
  BY DEF Owed, Planned, PlansNothing
<1>2. \A i \in Jobs : \A a, b \in job'[i].todo : a.key = b.key => a = b
  BY DEF Owed, PlansNothing
<1>3. \A i \in Jobs : \A a \in job'[i].todo : MayHold(i, a.key)
  BY DEF Owed, PlansNothing
<1> QED
  BY <1>1, <1>2, <1>3 DEF Owed, MayHold, IsReminder, PlansNothing

\* What a job that is set to `state' needs for this.
LEMMA BecomesPlansNothing ==
  ASSUME TypeOK, Owed, NEW j \in Jobs, NEW state, Becomes(j, state),
         state.todo \subseteq job[j].todo,
         \/ state.todo = {}
         \/ state.pc \notin {"fetch", "gather"}
         \/ job[j].pc = "fetch" /\ state.pc = "gather",
         \A r \in state.inHand : MayHold(j, r.key)
  PROVE  \A i \in Jobs : PlansNothing(i)
<1>1. \A i \in Jobs : job'[i] = IF i = j THEN state ELSE job[i]
  BY DEF Becomes, TypeOK
<1> QED
  BY <1>1 DEF PlansNothing, Owed

LEMMA OverPlansNothing ==
  ASSUME TypeOK, Owed, NEW j \in Jobs, Over(j)
  PROVE  /\ \A i \in Jobs : PlansNothing(i)
         /\ \A x \in Events : OnePerMatch(cache'[x])
<1>1. AtRest.todo = {} /\ AtRest.inHand = {}
  BY DEF AtRest
<1>2. \A i \in Jobs : PlansNothing(i)
  BY <1>1, BecomesPlansNothing DEF Over
<1> QED
  BY <1>2 DEF Over, Owed, OnePerMatch

LEMMA AbortPlansNothing ==
  ASSUME TypeOK, Owed, NEW j \in Jobs, Abort(j)
  PROVE  Owed'
<1>1. \A x \in Events : OnePerMatch(fetched'[x])
  BY DEF Abort, Owed, OnePerMatch
<1>2. CASE j = "reminders"
  <2> DEFINE state == [job[j] EXCEPT !.pc = "deliver", !.todo = {}, !.inHand = {}]
  <2>1. state.todo = {} /\ state.inHand = {} /\ Becomes(j, state) /\ cache' = cache
    BY <1>2 DEF Abort, TypeOK, JobState
  <2> HIDE DEF state
  <2>2. \A i \in Jobs : PlansNothing(i)
    BY <2>1, BecomesPlansNothing
  <2> QED
    BY <1>1, <2>1, <2>2, NothingPlannedOwed DEF Owed
<1>3. CASE j # "reminders"
  BY <1>1, <1>3, OverPlansNothing, NothingPlannedOwed DEF Abort
<1> QED
  BY <1>2, <1>3

LEMMA HandlingPlansNothing ==
  ASSUME TypeOK, Owed, NEW j \in Jobs, NEW a \in job[j].todo,
         LeaveForLater(j, a) \/ Drop(j, a) \/ SendToConsole(j, a) \/ SendAccepted(j, a)
           \/ SendFailed(j, a)
  PROVE  Owed'
<1>1. /\ job[j].pc = "deliver" /\ job[j] \in JobState /\ MayHold(j, a.key)
      /\ \A r \in job[j].inHand : MayHold(j, r.key)
  BY DEF LeaveForLater, Drop, SendToConsole, SendAccepted, SendFailed, Handling, TypeOK, Owed
<1>2. UNCHANGED <<cache, fetched>>
  BY DEF LeaveForLater, Drop, SendToConsole, SendAccepted, SendFailed, Handling
<1>3. CASE PassOver(j, a)
  <2> DEFINE state == [job[j] EXCEPT !.todo = job[j].todo \ {a}]
  <2>1. /\ state.todo \subseteq job[j].todo /\ state.pc = "deliver"
        /\ state.inHand = job[j].inHand /\ Becomes(j, state)
    BY <1>1, <1>3 DEF PassOver, JobState
  <2> HIDE DEF state
  <2>2. \A i \in Jobs : PlansNothing(i)
    BY <1>1, <2>1, BecomesPlansNothing
  <2> QED
    BY <1>2, <2>2, NothingPlannedOwed DEF Owed
<1>4. ASSUME NEW how, TakeUp(j, a, how) PROVE Owed'
  <2> DEFINE state == [job[j] EXCEPT !.pc = "mark", !.todo = job[j].todo \ {a},
                                     !.inHand = {[key |-> a.key, how |-> how]}]
  <2>1. /\ state.todo \subseteq job[j].todo /\ state.pc = "mark"
        /\ state.inHand = {[key |-> a.key, how |-> how]} /\ Becomes(j, state)
    BY <1>1, <1>4 DEF TakeUp, JobState
  <2> HIDE DEF state
  <2>2. \A r \in state.inHand : MayHold(j, r.key)
    BY <1>1, <2>1
  <2>3. \A i \in Jobs : PlansNothing(i)
    BY <2>1, <2>2, BecomesPlansNothing
  <2> QED
    BY <1>2, <2>3, NothingPlannedOwed DEF Owed
<1> QED
  BY <1>3, <1>4 DEF LeaveForLater, Drop, SendToConsole, SendAccepted, SendFailed

LEMMA OwedStep == TypeOK /\ Flow /\ Owed /\ [Next]_vars => Owed'
<1> SUFFICES ASSUME TypeOK, Flow, Owed, [Next]_vars PROVE Owed'
  OBVIOUS
<1> USE DEF worldVars, ledgerVars
<1>0. ASSUME NEW j \in Jobs PROVE job[j] \in JobState
  BY DEF TypeOK
<1>1. ASSUME NEW program \in {"run", "once", "notify"}, Launch(program) PROVE Owed'
  BY <1>1 DEF Launch, Owed
<1>2. ASSUME NEW j \in Jobs, NEW state, Becomes(j, state), UNCHANGED <<cache, fetched>>,
             state.todo \subseteq job[j].todo,
             \/ state.todo = {}
             \/ state.pc \notin {"fetch", "gather"}
             \/ job[j].pc = "fetch" /\ state.pc = "gather",
             state.inHand \subseteq job[j].inHand
      PROVE  Owed'
  <2>1. \A r \in state.inHand : MayHold(j, r.key)
    BY <1>2 DEF Owed
  <2>2. \A i \in Jobs : PlansNothing(i)
    BY <1>2, <2>1, BecomesPlansNothing
  <2> QED
    BY <1>2, <2>2, NothingPlannedOwed DEF Owed
<1>3. ASSUME NEW j \in Jobs, Start(j) PROVE Owed'
  <2> DEFINE state == [AtRest EXCEPT !.pc = FirstStep[j], !.now = clock, !.left = Events]
  <2>1. state.todo = {} /\ state.inHand = {}
    BY DEF AtRest
  <2>2. Becomes(j, state) /\ UNCHANGED <<cache, fetched>>
    BY <1>3 DEF Start
  <2> HIDE DEF state
  <2> QED
    BY <1>2, <2>1, <2>2
<1>4. ASSUME NEW e \in Events, NEW down \in SUBSET Providers, FetchFixtures(e, down)
      PROVE  Owed'
  <2>1. cache' = cache
    BY <1>4 DEF FetchFixtures
  <2>2. \A x \in Events : OnePerMatch(fetched'[x])
    <3>1. \/ fetched' = [fetched EXCEPT ![e] = cache[e]]
          \/ \E p \in Providers :
               fetched' = [fetched EXCEPT ![e] = FixturesFrom(e, p, job["sync"].now)]
      BY <1>4 DEF FetchFixtures
    <3> QED
      BY <3>1, FixturesFromFacts DEF Owed, TypeOK
  <2> QED
    BY <1>4, <2>1, <2>2, FetchFixturesPlans, PlanningOwed DEF Owed, Jobs
<1>5. ASSUME NEW j \in Jobs, NEW e \in Events, NEW alerts, Planning(j, e, alerts), j # "sync"
      PROVE  Owed'
  <2>1. UNCHANGED <<fetched, cache>>
    BY <1>5 DEF Planning
  <2> QED
    BY <1>5, <2>1, PlanningOwed DEF Owed
<1>21. ASSUME NEW e \in Events, InstallFixtures(e) PROVE Owed'
  <2>1. \A x \in Events : OnePerMatch(cache'[x]) /\ OnePerMatch(fetched'[x])
    BY <1>21 DEF InstallFixtures, Owed, OnePerMatch, TypeOK
  <2> QED
    BY <1>21, <2>1, InstallFixturesPlans, PlanningOwed DEF Jobs
<1>6. ASSUME FixturesFetched PROVE Owed'
  <2> DEFINE state == [job["sync"] EXCEPT !.pc = "install", !.now = 0, !.left = Events]
  <2>1. /\ state.todo = job["sync"].todo /\ state.pc = "install"
        /\ state.inHand = job["sync"].inHand
        /\ Becomes("sync", state) /\ UNCHANGED <<cache, fetched>>
    BY <1>0, <1>6 DEF FixturesFetched, JobState, Jobs
  <2> HIDE DEF state
  <2> QED
    BY <1>2, <2>1 DEF Jobs
<1>7. ASSUME SetSyncTime PROVE Owed'
  <2> DEFINE state == [job["sync"] EXCEPT !.pc = "count"]
  <2>1. /\ state.todo = job["sync"].todo /\ state.pc = "count"
        /\ state.inHand = job["sync"].inHand
        /\ Becomes("sync", state) /\ UNCHANGED <<cache, fetched>>
    BY <1>0, <1>7 DEF SetSyncTime, JobState, Jobs
  <2> HIDE DEF state
  <2> QED
    BY <1>2, <2>1 DEF Jobs
<1>8. ASSUME NEW j \in Jobs, Over(j), UNCHANGED fetched PROVE Owed'
  BY <1>8, OverPlansNothing, NothingPlannedOwed DEF Owed
<1>9. ASSUME NotifyPlanned PROVE Owed'
  <2> DEFINE state == [job["notify"] EXCEPT !.pc = "gather", !.left = Events]
  <2>1. /\ state.todo = job["notify"].todo /\ state.pc = "gather"
        /\ state.inHand = job["notify"].inHand
        /\ Becomes("notify", state) /\ UNCHANGED <<cache, fetched>>
        /\ job["notify"].pc = "fetch"
    BY <1>0, <1>9 DEF NotifyPlanned, JobState, Jobs
  <2> HIDE DEF state
  <2> QED
    BY <1>2, <2>1 DEF Jobs
<1>10. ASSUME NEW j \in Jobs, ResultsGathered(j) \/ Commit(j) PROVE Owed'
  <2> DEFINE state == [job[j] EXCEPT !.pc = "deliver"]
  <2>1. /\ state.todo = job[j].todo /\ state.pc = "deliver" /\ state.inHand = job[j].inHand
        /\ Becomes(j, state) /\ UNCHANGED <<cache, fetched>>
    BY <1>0, <1>10 DEF ResultsGathered, Commit, JobState
  <2> HIDE DEF state
  <2> QED
    BY <1>2, <2>1
<1>11. ASSUME NEW j \in Jobs, Mark(j) PROVE Owed'
  <2> DEFINE state == [job[j] EXCEPT !.pc = "commit", !.inHand = {}]
  <2>1. /\ state.todo = job[j].todo /\ state.pc = "commit" /\ state.inHand = {}
        /\ Becomes(j, state) /\ UNCHANGED <<cache, fetched>>
    BY <1>0, <1>11 DEF Mark, JobState
  <2> HIDE DEF state
  <2> QED
    BY <1>2, <2>1
<1>12. ASSUME NEW j \in Jobs, DeliveryStep(j) PROVE Owed'
  BY <1>8, <1>10, <1>11, <1>12, HandlingPlansNothing DEF DeliveryStep, FinishJob
<1>13. ASSUME NEW j \in Jobs, JobStep(j) PROVE Owed'
  <2>1. CASE j = "sync" /\ SyncStep
    BY <1>4, <1>6, <1>7, <1>8, <1>21, <2>1 DEF SyncStep, SetFixtureCount, Jobs
  <2>2. CASE j = "reminders" /\ \E e \in Events : PlanReminders(e)
    BY <1>5, <2>2, PlanRemindersPlans
  <2>3. CASE j = "notify" /\ NotifyStep
    BY <1>5, <1>9, <2>3, PlanNotifyPlans DEF NotifyStep
  <2>4. CASE GatherStep(j)
    <3>1. ASSUME NEW e \in Events, NEW down \in SUBSET Providers, GatherResults(j, e, down)
          PROVE  j # "sync"
      BY <3>1 DEF GatherResults, Flow, StepsOf, Jobs
    <3> QED
      BY <1>5, <1>10, <2>4, <3>1, GatherResultsPlans DEF GatherStep
  <2> QED
    BY <1>3, <1>12, <1>13, <2>1, <2>2, <2>3, <2>4 DEF JobStep
<1>14. ASSUME NEW j \in Jobs, StoreFails(j) \/ JobRaises(j) PROVE Owed'
  BY <1>14, AbortPlansNothing DEF StoreFails, JobRaises
<1>15. ASSUME Crash PROVE Owed'
  <2>1. /\ \A i \in Jobs : job'[i] = AtRest
        /\ \A x \in Events : cache'[x] = {} /\ fetched'[x] = {}
    BY <1>15 DEF Crash
  <2> QED
    BY <2>1 DEF Owed, AtRest, OnePerMatch, Planned
<1>16. CASE WorldStep \/ UNCHANGED vars
  <2>1. UNCHANGED <<job, cache, fetched>>
    BY <1>16 DEF WorldStep, Tick, Postpone, FullTime, ScoreKnown, SetMatchStatus, Reschedule,
                 World, vars
  <2> QED
    BY <2>1 DEF Owed
<1> QED
  BY <1>1, <1>13, <1>14, <1>15, <1>16 DEF Next


-----------------------------------------------------------------------------
(* The ledger: what is recorded, about to be, and still open *)

HandKeys(j) == {r.key : r \in job[j].inHand}
Holds(j) == TodoKeys(j) \cup HandKeys(j)

OnePerKey(marks) == \A r, q \in marks : r.key = q.key => r = q

\* Alert k is in the chat and its row is on the way into the ledger.
OnItsWay(k) ==
  \/ \E r \in pending : r.key = k /\ r.how = "sent"
  \/ \E j \in Jobs : \E r \in job[j].inHand : r.key = k /\ r.how = "sent"

Accounts(k) ==
  inbox[k] = unmarked[k] + IF k \in sent \ dropped \/ OnItsWay(k) THEN 1 ELSE 0

Ledger ==
  /\ \A j \in Jobs : Holds(j) \cap (sent \cup PendingKeys) = {}
  /\ \A j \in Jobs : TodoKeys(j) \cap HandKeys(j) = {}
  /\ \A j \in Jobs : OnePerKey(job[j].inHand)
  /\ OnePerKey(pending)
  /\ PendingKeys \cap sent = {}
  /\ dropped \subseteq sent
  /\ \A k \in Keys : Accounts(k)

LEMMA UnrecordedOnItsWay == \A k : k \in Unrecorded <=> OnItsWay(k)
BY DEF Unrecorded, AtMark, OnItsWay

\* No two jobs hold the same alert.
LEMMA HeldByOne ==
  ASSUME TypeOK, Flow, Owed, NEW i \in Jobs, NEW j \in Jobs, i # j
  PROVE  Holds(i) \cap Holds(j) = {}
<1>1. CASE i \notin ready \/ j \notin ready
  <2>1. \A x \in Jobs \ ready : job[x].todo = {} /\ job[x].inHand = {}
    BY DEF Flow
  <2> QED
    BY <1>1, <2>1 DEF Holds, TodoKeys, HandKeys
<1>2. CASE i \in ready /\ j \in ready
  <2>1. ready = RunJobs
    BY <1>2 DEF Flow, TypeOK
  <2>2. i # "notify" /\ j # "notify"
    BY <1>2, <2>1 DEF RunJobs
  <2>3. \A x \in {i, j} : \A k \in Holds(x) : MayHold(x, k)
    BY DEF Holds, TodoKeys, HandKeys, Owed
  <2> QED
    BY <2>2, <2>3 DEF MayHold
<1> QED
  BY <1>1, <1>2

\* A step that leaves the ledger alone, and in which no job gets anything new.
LEMMA LedgerAlone ==
  ASSUME Ledger, UNCHANGED ledgerVars,
         \A i \in Jobs : job'[i].todo \subseteq job[i].todo /\ job'[i].inHand = job[i].inHand
  PROVE  Ledger'
<1>1. \A i \in Jobs : TodoKeys(i)' \subseteq TodoKeys(i) /\ HandKeys(i)' = HandKeys(i)
  BY DEF TodoKeys, HandKeys
<1>2. PendingKeys' = PendingKeys
  BY DEF PendingKeys, ledgerVars
<1>3. \A k : OnItsWay(k)' <=> OnItsWay(k)
  BY DEF OnItsWay, ledgerVars
<1>4. \A k \in Keys : Accounts(k)'
  BY <1>3 DEF Accounts, Ledger, ledgerVars
<1> QED
  BY <1>1, <1>2, <1>4 DEF Ledger, Holds, OnePerKey, ledgerVars

LEMMA LedgerBecomes ==
  ASSUME TypeOK, Ledger, UNCHANGED ledgerVars, NEW j \in Jobs, NEW state, Becomes(j, state),
         state.todo \subseteq job[j].todo, state.inHand = job[j].inHand
  PROVE  Ledger'
<1>1. \A i \in Jobs : job'[i] = IF i = j THEN state ELSE job[i]
  BY DEF Becomes, TypeOK
<1> QED
  BY <1>1, LedgerAlone

LEMMA LedgerPlanning ==
  ASSUME TypeOK, Flow, Ledger, NEW j \in Jobs, NEW e \in Events, NEW alerts,
         Planning(j, e, alerts)
  PROVE  Ledger'
<1>1. job[j] \in JobState
  BY DEF TypeOK
<1>2. /\ job'[j].todo = job[j].todo \cup Unsent(alerts)
      /\ job'[j].inHand = {} /\ job[j].inHand = {}
  BY <1>1 DEF Planning, Plan, Becomes, TypeOK, JobState, Flow
<1>3. \A i \in Jobs \ {j} : job'[i] = job[i]
  BY DEF Planning, Plan, Becomes, TypeOK
<1>4. UNCHANGED <<sent, pending, inbox, unmarked, dropped>>
  BY DEF Planning, ledgerVars
<1>5. /\ TodoKeys(j)' = TodoKeys(j) \cup {a.key : a \in Unsent(alerts)}
      /\ HandKeys(j)' = {}
  BY <1>2 DEF TodoKeys, HandKeys
<1>6. \A i \in Jobs \ {j} : TodoKeys(i)' = TodoKeys(i) /\ HandKeys(i)' = HandKeys(i)
  BY <1>3 DEF TodoKeys, HandKeys
<1>7. \A a \in Unsent(alerts) : a.key \notin sent \cup PendingKeys
  BY DEF Unsent
<1>8. PendingKeys' = PendingKeys
  BY <1>4 DEF PendingKeys
<1>9. \A k : OnItsWay(k)' <=> OnItsWay(k)
  BY <1>2, <1>3, <1>4 DEF OnItsWay
<1>10. \A k \in Keys : Accounts(k)'
  BY <1>4, <1>9 DEF Accounts, Ledger
<1>11. \A i \in Jobs : Holds(i)' \cap (sent \cup PendingKeys)' = {}
  BY <1>4, <1>5, <1>6, <1>7, <1>8 DEF Ledger, Holds
<1>12. \A i \in Jobs : OnePerKey(job'[i].inHand) /\ (TodoKeys(i) \cap HandKeys(i))' = {}
  BY <1>2, <1>3, <1>5, <1>6 DEF Ledger, OnePerKey
<1> QED
  BY <1>4, <1>8, <1>10, <1>11, <1>12 DEF Ledger, OnePerKey

\* One alert leaves the plan, and is taken in hand or not.
LEMMA LedgerHandling ==
  ASSUME TypeOK, Flow, Owed, Ledger, NEW j \in Jobs, NEW a \in job[j].todo,
         LeaveForLater(j, a) \/ Drop(j, a) \/ SendToConsole(j, a) \/ SendAccepted(j, a)
           \/ SendFailed(j, a)
  PROVE  Ledger'
<1>0. job[j] \in JobState /\ a \in Alerts /\ a.key \in Keys
  BY DEF TypeOK, JobState, Alerts
<1>1. /\ job[j].pc = "deliver" /\ job[j].inHand = {}
      /\ UNCHANGED <<sent, pending, dropped>>
  BY DEF LeaveForLater, Drop, SendToConsole, SendAccepted, SendFailed, Handling, Flow
<1>2. /\ a.key \notin sent \cup PendingKeys
      /\ \A i \in Jobs \ {j} : a.key \notin Holds(i)
  BY <1>1, HeldByOne DEF Ledger, Holds, TodoKeys
<1>3. \A b \in job[j].todo \ {a} : b.key # a.key
  BY DEF Owed
<1>4. ~ OnItsWay(a.key)
  BY <1>1, <1>2 DEF OnItsWay, PendingKeys, Holds, HandKeys
<1>5. CASE PassOver(j, a) /\ UNCHANGED <<inbox, unmarked>>
  <2> DEFINE state == [job[j] EXCEPT !.todo = job[j].todo \ {a}]
  <2>1. /\ state.todo \subseteq job[j].todo /\ state.inHand = job[j].inHand
        /\ Becomes(j, state) /\ UNCHANGED ledgerVars
    BY <1>0, <1>1, <1>5 DEF PassOver, JobState, ledgerVars
  <2> HIDE DEF state
  <2> QED
    BY <2>1, LedgerBecomes
<1>6. ASSUME NEW how \in {"sent", "dropped"}, TakeUp(j, a, how),
             NEW n \in Nat,
             how = "dropped" => UNCHANGED <<inbox, unmarked>>,
             how = "sent" => /\ inbox' = [inbox EXCEPT ![a.key] = @ + n + 1]
                             /\ unmarked' = [unmarked EXCEPT ![a.key] = @ + n]
      PROVE  Ledger'
  <2>1. \A i \in Jobs :
          job'[i] = IF i = j THEN [job[j] EXCEPT !.pc = "mark", !.todo = job[j].todo \ {a},
                                                 !.inHand = {[key |-> a.key, how |-> how]}]
                             ELSE job[i]
    BY <1>6 DEF TakeUp, Becomes, TypeOK
  <2>2. /\ job'[j].todo = job[j].todo \ {a}
        /\ job'[j].inHand = {[key |-> a.key, how |-> how]}
        /\ \A i \in Jobs \ {j} : job'[i] = job[i]
    BY <1>0, <2>1 DEF JobState
  <2>3. /\ TodoKeys(j)' \subseteq TodoKeys(j) \ {a.key}
        /\ HandKeys(j)' = {a.key}
        /\ \A i \in Jobs \ {j} : TodoKeys(i)' = TodoKeys(i) /\ HandKeys(i)' = HandKeys(i)
    BY <1>3, <2>2 DEF TodoKeys, HandKeys
  <2>4. PendingKeys' = PendingKeys
    BY <1>1 DEF PendingKeys
  <2>5. a.key \in TodoKeys(j)
    BY DEF TodoKeys
  <2>6. \A k \in Keys : OnItsWay(k)' <=> OnItsWay(k) \/ (k = a.key /\ how = "sent")
    <3> SUFFICES ASSUME NEW k \in Keys
                 PROVE  OnItsWay(k)' <=> OnItsWay(k) \/ (k = a.key /\ how = "sent")
      OBVIOUS
    <3>1. (\E r \in job'[j].inHand : r.key = k /\ r.how = "sent")
            <=> k = a.key /\ how = "sent"
      BY <2>2
    <3>2. \A i \in Jobs \ {j} :
            (\E r \in job'[i].inHand : r.key = k /\ r.how = "sent")
              <=> \E r \in job[i].inHand : r.key = k /\ r.how = "sent"
      BY <2>2
    <3>3. ~ \E r \in job[j].inHand : r.key = k /\ r.how = "sent"
      BY <1>1
    <3>4. pending' = pending
      BY <1>1
    <3> QED
      BY <3>1, <3>2, <3>3, <3>4 DEF OnItsWay
  <2>7. \A k \in Keys : Accounts(k)'
    BY <1>0, <1>1, <1>2, <1>4, <1>6, <2>6 DEF Accounts, Ledger, TypeOK
  <2>8. \A i \in Jobs : Holds(i)' \cap (sent \cup PendingKeys)' = {}
    BY <1>1, <1>2, <2>3, <2>4 DEF Ledger, Holds
  <2>9. \A i \in Jobs : OnePerKey(job'[i].inHand) /\ (TodoKeys(i) \cap HandKeys(i))' = {}
    BY <2>2, <2>3 DEF Ledger, OnePerKey
  <2> QED
    BY <1>1, <2>4, <2>7, <2>8, <2>9 DEF Ledger, OnePerKey
<1>7. CASE LeaveForLater(j, a) \/ SendToConsole(j, a)
  BY <1>5, <1>7 DEF LeaveForLater, SendToConsole
<1>8. CASE Drop(j, a)
  BY <1>6, <1>8 DEF Drop
<1>9. CASE SendAccepted(j, a)
  <2>1. PICK lost \in 0..(Attempts - 1) :
          /\ Unanswered(a.key, lost)
          /\ inbox' = [inbox EXCEPT ![a.key] = @ + lost + 1]
    BY <1>9 DEF SendAccepted
  <2>2. lost \in Nat /\ TakeUp(j, a, "sent")
    BY <1>9, RuntimeAssumption DEF SendAccepted
  <2> QED
    BY <1>6, <2>1, <2>2 DEF Unanswered
<1>10. CASE SendFailed(j, a)
  <2>1. PICK lost \in 0..Attempts :
          /\ Unanswered(a.key, lost)
          /\ inbox' = [inbox EXCEPT ![a.key] = @ + lost]
    BY <1>10 DEF SendFailed
  <2>2. lost \in Nat /\ PassOver(j, a)
    BY <1>10, RuntimeAssumption DEF SendFailed
  <2>3. /\ job'[j].todo = job[j].todo \ {a} /\ job'[j].inHand = {}
        /\ \A i \in Jobs \ {j} : job'[i] = job[i]
    BY <1>0, <1>1, <2>2 DEF PassOver, Becomes, TypeOK, JobState
  <2>4. \A i \in Jobs : TodoKeys(i)' \subseteq TodoKeys(i) /\ HandKeys(i)' = HandKeys(i)
    BY <1>1, <2>3 DEF TodoKeys, HandKeys
  <2>5. \A k : OnItsWay(k)' <=> OnItsWay(k)
    BY <1>1, <2>3 DEF OnItsWay
  <2>6. \A k \in Keys : Accounts(k)'
    BY <1>0, <1>1, <2>1, <2>2, <2>5 DEF Accounts, Ledger, TypeOK, Unanswered
  <2>7. PendingKeys' = PendingKeys
    BY <1>1 DEF PendingKeys
  <2>8. \A i \in Jobs : OnePerKey(job'[i].inHand)
    BY <2>3 DEF Ledger, OnePerKey
  <2> QED
    BY <1>1, <2>4, <2>6, <2>7, <2>8 DEF Ledger, OnePerKey, Holds
<1> QED
  BY <1>7, <1>8, <1>9, <1>10


\* One job's row goes from its hand into the transaction.
LEMMA LedgerMark ==
  ASSUME TypeOK, Flow, Owed, Ledger, NEW j \in Jobs, Mark(j)
  PROVE  Ledger'
<1>0. job[j] \in JobState
  BY DEF TypeOK
<1>1. /\ job'[j].todo = job[j].todo /\ job'[j].inHand = {}
      /\ \A i \in Jobs \ {j} : job'[i] = job[i]
      /\ pending' = pending \cup job[j].inHand
      /\ UNCHANGED <<sent, inbox, unmarked, dropped>>
  BY <1>0 DEF Mark, Becomes, TypeOK, JobState
<1>2. /\ TodoKeys(j)' = TodoKeys(j) /\ HandKeys(j)' = {}
      /\ \A i \in Jobs \ {j} : TodoKeys(i)' = TodoKeys(i) /\ HandKeys(i)' = HandKeys(i)
      /\ PendingKeys' = PendingKeys \cup HandKeys(j)
  BY <1>1 DEF TodoKeys, HandKeys, PendingKeys
<1>3. \A i \in Jobs \ {j} : Holds(i) \cap Holds(j) = {}
  BY HeldByOne
<1>4. \A i \in Jobs : Holds(i)' \cap (sent \cup PendingKeys)' = {}
  BY <1>1, <1>2, <1>3 DEF Ledger, Holds
<1>5. \A i \in Jobs : OnePerKey(job'[i].inHand) /\ (TodoKeys(i) \cap HandKeys(i))' = {}
  BY <1>1, <1>2 DEF Ledger, OnePerKey
<1>6. OnePerKey(pending') /\ PendingKeys' \cap sent' = {}
  BY <1>1, <1>2 DEF Ledger, OnePerKey, Holds, HandKeys, PendingKeys
<1>7. \A k : OnItsWay(k)' <=> OnItsWay(k)
  BY <1>1 DEF OnItsWay
<1>8. \A k \in Keys : Accounts(k)'
  BY <1>1, <1>7 DEF Accounts, Ledger
<1> QED
  BY <1>1, <1>4, <1>5, <1>6, <1>8 DEF Ledger, OnePerKey

\* The transaction's rows are recorded, whichever job commits.
LEMMA LedgerCommit ==
  ASSUME TypeOK, Ledger, CommitShared,
         \A i \in Jobs : job'[i].todo \subseteq job[i].todo /\ job'[i].inHand = job[i].inHand
  PROVE  Ledger'
<1>1. \A i \in Jobs : TodoKeys(i)' \subseteq TodoKeys(i) /\ HandKeys(i)' = HandKeys(i)
  BY DEF TodoKeys, HandKeys
<1>2. /\ sent' = sent \cup PendingKeys /\ pending' = {} /\ PendingKeys' = {}
      /\ UNCHANGED <<inbox, unmarked>>
      /\ dropped' = dropped \cup {r.key : r \in {x \in pending : x.how = "dropped"}}
  BY DEF CommitShared, PendingKeys
<1>3. ASSUME NEW k \in Keys PROVE Accounts(k)'
  <2>1. CASE k \in PendingKeys
    <3>1. PICK r \in pending : r.key = k
      BY <2>1 DEF PendingKeys
    <3>2. r.how \in {"sent", "dropped"} /\ \A q \in pending : q.key = k => q = r
      BY <3>1 DEF Ledger, OnePerKey, TypeOK, Marks
    <3>3. k \notin sent /\ k \notin dropped /\ \A i \in Jobs : k \notin HandKeys(i)
      BY <2>1 DEF Ledger, Holds
    <3>4. k \in sent' \ dropped' <=> r.how = "sent"
      BY <1>2, <2>1, <3>1, <3>2, <3>3
    <3>5. OnItsWay(k) <=> r.how = "sent"
      BY <3>1, <3>2, <3>3 DEF OnItsWay, HandKeys
    <3>6. ~ OnItsWay(k)'
      BY <1>1, <1>2, <3>3 DEF OnItsWay, HandKeys
    <3> QED
      BY <1>2, <3>3, <3>4, <3>5, <3>6 DEF Accounts, Ledger
  <2>2. CASE k \notin PendingKeys
    <3>1. k \in sent' \ dropped' <=> k \in sent \ dropped
      BY <1>2, <2>2 DEF PendingKeys
    <3>2. OnItsWay(k)' <=> OnItsWay(k)
      BY <1>2, <2>2 DEF OnItsWay, PendingKeys
    <3> QED
      BY <1>2, <3>1, <3>2 DEF Accounts, Ledger
  <2> QED
    BY <2>1, <2>2
<1>4. \A i \in Jobs : Holds(i)' \cap (sent \cup PendingKeys)' = {}
  BY <1>1, <1>2 DEF Ledger, Holds
<1>5. \A i \in Jobs : OnePerKey(job'[i].inHand) /\ (TodoKeys(i) \cap HandKeys(i))' = {}
  BY <1>1 DEF Ledger, OnePerKey
<1>6. dropped' \subseteq sent'
  BY <1>2 DEF Ledger, PendingKeys
<1> QED
  BY <1>2, <1>3, <1>4, <1>5, <1>6 DEF Ledger, OnePerKey

\* The transaction's rows are taken back, and the jobs in `jobs' lose what they were
\* about to add to it.
LEMMA LedgerLose ==
  ASSUME TypeOK, Flow, Owed, Ledger, NEW jobs \in SUBSET Jobs, LoseMarks(jobs),
         \A i \in Jobs : /\ job'[i].todo \subseteq job[i].todo
                         /\ job'[i].inHand = IF i \in jobs THEN {} ELSE job[i].inHand
  PROVE  Ledger'
<1>1. \A i \in Jobs :
        /\ TodoKeys(i)' \subseteq TodoKeys(i)
        /\ HandKeys(i)' = IF i \in jobs THEN {} ELSE HandKeys(i)
  BY DEF TodoKeys, HandKeys
<1>2. /\ pending' = {} /\ PendingKeys' = {} /\ UNCHANGED <<sent, dropped, inbox>>
      /\ unmarked' = [k \in Keys |-> unmarked[k] +
           IF k \in {r.key : r \in {x \in pending \cup AtMark(jobs) : x.how = "sent"}}
             THEN 1 ELSE 0]
  BY DEF LoseMarks, PendingKeys
<1>3. ASSUME NEW k \in Keys PROVE Accounts(k)'
  <2> DEFINE lost == {r.key : r \in {x \in pending \cup AtMark(jobs) : x.how = "sent"}}
  <2>1. k \in lost <=>
          \/ \E r \in pending : r.key = k /\ r.how = "sent"
          \/ \E i \in jobs : \E r \in job[i].inHand : r.key = k /\ r.how = "sent"
    BY DEF AtMark
  <2>2. k \in lost => OnItsWay(k) /\ k \notin sent
    BY <2>1 DEF OnItsWay, Ledger, Holds, HandKeys, PendingKeys
  <2>3. OnItsWay(k)' <=> \E i \in Jobs \ jobs :
                           \E r \in job[i].inHand : r.key = k /\ r.how = "sent"
    BY <1>2 DEF OnItsWay
  <2>4. k \in lost => ~ OnItsWay(k)'
    <3> SUFFICES ASSUME k \in lost, NEW i \in Jobs \ jobs, NEW r \in job[i].inHand, r.key = k
                 PROVE  FALSE
      BY <2>3
    <3>1. k \in Holds(i)
      BY DEF Holds, HandKeys
    <3>2. k \notin PendingKeys
      BY <3>1 DEF Ledger
    <3>3. \A x \in jobs : k \notin Holds(x)
      BY <3>1, HeldByOne
    <3> QED
      BY <2>1, <3>2, <3>3 DEF PendingKeys, Holds, HandKeys
  <2>5. k \notin lost => (OnItsWay(k)' <=> OnItsWay(k))
    BY <2>1, <2>3 DEF OnItsWay
  <2>6. unmarked[k] \in Nat /\ unmarked'[k] = unmarked[k] + IF k \in lost THEN 1 ELSE 0
    BY <1>2 DEF TypeOK
  <2>7. Accounts(k)
    BY DEF Ledger
  <2> HIDE DEF lost
  <2> QED
    BY <1>2, <2>2, <2>4, <2>5, <2>6, <2>7 DEF Accounts
<1>4. \A i \in Jobs : Holds(i)' \cap (sent \cup PendingKeys)' = {}
  BY <1>1, <1>2 DEF Ledger, Holds
<1>5. \A i \in Jobs : OnePerKey(job'[i].inHand) /\ (TodoKeys(i) \cap HandKeys(i))' = {}
  BY <1>1 DEF Ledger, OnePerKey
<1> QED
  BY <1>2, <1>3, <1>4, <1>5 DEF Ledger, OnePerKey

\* What a job has in hand after an exception, and what the others have.
LEMMA AbortHands ==
  ASSUME TypeOK, NEW j \in Jobs, Abort(j)
  PROVE  \A i \in Jobs : /\ job'[i].todo \subseteq job[i].todo
                         /\ job'[i].inHand = IF i \in {j} THEN {} ELSE job[i].inHand
<1>1. CASE j = "reminders"
  <2> DEFINE state == [job[j] EXCEPT !.pc = "deliver", !.todo = {}, !.inHand = {}]
  <2>1. state.todo = {} /\ state.inHand = {} /\ Becomes(j, state)
    BY <1>1 DEF Abort, TypeOK, JobState
  <2> HIDE DEF state
  <2> QED
    BY <2>1 DEF Becomes, TypeOK
<1>2. CASE j # "reminders"
  <2>1. Becomes(j, AtRest) /\ AtRest.todo = {} /\ AtRest.inHand = {}
    BY <1>2 DEF Abort, Over, AtRest
  <2> QED
    BY <2>1 DEF Becomes, TypeOK
<1> QED
  BY <1>1, <1>2

LEMMA LedgerStep == TypeOK /\ Flow /\ Owed /\ Ledger /\ [Next]_vars => Ledger'
<1> SUFFICES ASSUME TypeOK, Flow, Owed, Ledger, [Next]_vars PROVE Ledger'
  OBVIOUS
<1>0. ASSUME NEW j \in Jobs PROVE job[j] \in JobState
  BY DEF TypeOK
<1>1. CASE \/ \E program \in {"run", "once", "notify"} : Launch(program)
           \/ WorldStep
           \/ UNCHANGED vars
  <2>1. UNCHANGED <<job, ledgerVars>>
    BY <1>1 DEF WorldStep, Tick, Postpone, FullTime, ScoreKnown, SetMatchStatus, Reschedule,
                World, vars, Launch
  <2> QED
    BY <2>1, LedgerAlone
<1>2. ASSUME NEW j \in Jobs, Start(j) PROVE Ledger'
  <2> DEFINE state == [AtRest EXCEPT !.pc = FirstStep[j], !.now = clock, !.left = Events]
  <2>1. state.todo = {} /\ state.inHand = {}
    BY DEF AtRest
  <2>2. Becomes(j, state) /\ UNCHANGED ledgerVars /\ job[j].inHand = {}
    BY <1>2 DEF Start, Flow
  <2> HIDE DEF state
  <2> QED
    BY <2>1, <2>2, LedgerBecomes
<1>3. ASSUME NEW j \in Jobs, NEW e \in Events, NEW alerts, Planning(j, e, alerts) PROVE Ledger'
  BY <1>3, LedgerPlanning
<1>4. ASSUME FixturesFetched PROVE Ledger'
  <2> DEFINE state == [job["sync"] EXCEPT !.pc = "install", !.now = 0, !.left = Events]
  <2>1. /\ state.todo = job["sync"].todo /\ state.inHand = job["sync"].inHand
        /\ Becomes("sync", state) /\ UNCHANGED ledgerVars
    BY <1>0, <1>4 DEF FixturesFetched, JobState, Jobs
  <2> HIDE DEF state
  <2> QED
    BY <2>1, LedgerBecomes DEF Jobs
<1>5. ASSUME NotifyPlanned PROVE Ledger'
  <2> DEFINE state == [job["notify"] EXCEPT !.pc = "gather", !.left = Events]
  <2>1. /\ state.todo = job["notify"].todo /\ state.inHand = job["notify"].inHand
        /\ Becomes("notify", state) /\ UNCHANGED ledgerVars
    BY <1>0, <1>5 DEF NotifyPlanned, JobState, Jobs
  <2> HIDE DEF state
  <2> QED
    BY <2>1, LedgerBecomes DEF Jobs
<1>6. ASSUME NEW j \in Jobs, ResultsGathered(j) PROVE Ledger'
  <2> DEFINE state == [job[j] EXCEPT !.pc = "deliver"]
  <2>1. /\ state.todo = job[j].todo /\ state.inHand = job[j].inHand
        /\ Becomes(j, state) /\ UNCHANGED ledgerVars
    BY <1>0, <1>6 DEF ResultsGathered, JobState
  <2> HIDE DEF state
  <2> QED
    BY <2>1, LedgerBecomes
<1>7. ASSUME NEW j \in Jobs, Over(j), job[j].pc # "mark"
      PROVE  \A i \in Jobs : /\ job'[i].todo \subseteq job[i].todo
                             /\ job'[i].inHand = job[i].inHand
  <2>1. Becomes(j, AtRest) /\ AtRest.todo = {} /\ AtRest.inHand = {}
    BY <1>7 DEF Over, AtRest
  <2>2. job[j].inHand = {}
    BY <1>7 DEF Flow
  <2> QED
    BY <2>1, <2>2 DEF Becomes, TypeOK
<1>8. ASSUME NEW j \in Jobs, NEW pc, CommitShared, Becomes(j, [job[j] EXCEPT !.pc = pc])
      PROVE  Ledger'
  <2>1. \A i \in Jobs : /\ job'[i].todo \subseteq job[i].todo
                        /\ job'[i].inHand = job[i].inHand
    BY <1>0, <1>8 DEF Becomes, TypeOK, JobState
  <2> QED
    BY <1>8, <2>1, LedgerCommit
<1>9. ASSUME NEW j \in Jobs, Commit(j) PROVE Ledger'
  BY <1>8, <1>9 DEF Commit
<1>10. ASSUME SetSyncTime PROVE Ledger'
  BY <1>8, <1>10 DEF SetSyncTime, Jobs
<1>11. ASSUME SetFixtureCount PROVE Ledger'
  BY <1>7, <1>11, LedgerCommit DEF SetFixtureCount, Jobs
<1>12. ASSUME NEW j \in Jobs, FinishJob(j) PROVE Ledger'
  BY <1>7, <1>12, LedgerAlone DEF FinishJob
<1>13. ASSUME NEW j \in Jobs, DeliveryStep(j) PROVE Ledger'
  BY <1>9, <1>12, <1>13, LedgerHandling, LedgerMark DEF DeliveryStep
<1>14. ASSUME NEW j \in Jobs, JobStep(j) PROVE Ledger'
  <2>1. CASE j = "sync" /\ SyncStep
    BY <1>3, <1>4, <1>10, <1>11, <2>1, FetchFixturesPlans, InstallFixturesPlans DEF SyncStep
  <2>2. CASE j = "reminders" /\ \E e \in Events : PlanReminders(e)
    BY <1>3, <2>2, PlanRemindersPlans
  <2>3. CASE j = "notify" /\ NotifyStep
    BY <1>3, <1>5, <2>3, PlanNotifyPlans DEF NotifyStep
  <2>4. CASE GatherStep(j)
    BY <1>3, <1>6, <2>4, GatherResultsPlans DEF GatherStep
  <2> QED
    BY <1>2, <1>13, <1>14, <2>1, <2>2, <2>3, <2>4 DEF JobStep
<1>15. ASSUME NEW j \in Jobs, StoreFails(j) PROVE Ledger'
  <2>1. LoseMarks({j}) /\ Abort(j)
    BY <1>15 DEF StoreFails
  <2> QED
    BY <2>1, AbortHands, LedgerLose
<1>16. ASSUME NEW j \in Jobs, JobRaises(j) PROVE Ledger'
  <2>1. Abort(j) /\ UNCHANGED ledgerVars /\ job[j].inHand = {}
    BY <1>16 DEF JobRaises, Flow
  <2>2. \A i \in Jobs : job'[i].todo \subseteq job[i].todo /\ job'[i].inHand = job[i].inHand
    BY <2>1, AbortHands
  <2> QED
    BY <2>1, <2>2, LedgerAlone
<1>17. ASSUME Crash PROVE Ledger'
  <2>1. LoseMarks(Jobs) /\ \A i \in Jobs : job'[i].todo = {} /\ job'[i].inHand = {}
    BY <1>17 DEF Crash, AtRest
  <2> QED
    BY <2>1, LedgerLose
<1> QED
  BY <1>1, <1>14, <1>15, <1>16, <1>17 DEF Next

Inductive == TypeOK /\ Flow /\ Owed /\ Ledger

LEMMA InitInductive == Init => Inductive
<1> SUFFICES ASSUME Init PROVE Flow /\ Owed /\ Ledger
  BY InitType DEF Inductive
<1>1. /\ \A j \in Jobs : job[j] = AtRest
      /\ \A e \in Events : cache[e] = {} /\ fetched[e] = {}
      /\ mode = "off" /\ ready = {} /\ sent = {} /\ pending = {} /\ dropped = {}
      /\ \A k \in Keys : inbox[k] = 0 /\ unmarked[k] = 0
  BY DEF Init
<1>2. AtRest.pc = "idle" /\ AtRest.todo = {} /\ AtRest.inHand = {}
  BY DEF AtRest
<1>3. Flow
  BY <1>1, <1>2 DEF Flow, StepsOf, Jobs
<1>4. Owed
  BY <1>1, <1>2 DEF Owed, OnePerMatch, Planned
<1>5. \A j \in Jobs : TodoKeys(j) = {} /\ HandKeys(j) = {}
  BY <1>1, <1>2 DEF TodoKeys, HandKeys
<1>6. \A k : ~ OnItsWay(k)
  BY <1>1, <1>2 DEF OnItsWay
<1>7. \A k \in Keys : Accounts(k)
  BY <1>1, <1>6 DEF Accounts
<1>8. Ledger
  BY <1>1, <1>2, <1>5, <1>7 DEF Ledger, Holds, OnePerKey, PendingKeys
<1> QED
  BY <1>3, <1>4, <1>8

LEMMA StepInductive == Inductive /\ [Next]_vars => Inductive'
BY StepType, FlowStep, OwedStep, LedgerStep DEF Inductive

LEMMA AlwaysInductive == Spec => []Inductive
BY InitInductive, StepInductive, PTL DEF Spec

\* An alert a job still has to handle is nobody else's, and neither recorded nor about
\* to be: the look at sent_alerts before a fan-out stays good to its end.
THEOREM NothingOwed == Spec => []NothingOwedIsSettled
<1>1. Inductive => NothingOwedIsSettled
  <2> SUFFICES ASSUME Inductive PROVE NothingOwedIsSettled
    OBVIOUS
  <2> USE DEF Inductive
  <2>1. ASSUME NEW j \in Jobs, NEW k \in TodoKeys(j) PROVE k \notin {r.key : r \in AtMark(Jobs)}
    <3> SUFFICES ASSUME NEW i \in Jobs, k \in HandKeys(i) PROVE FALSE
      BY DEF AtMark, HandKeys
    <3>1. i # j
      BY <2>1 DEF Ledger
    <3> QED
      BY <2>1, <3>1, HeldByOne DEF Holds
  <2>2. \A i, j \in Jobs : i # j => TodoKeys(i) \cap TodoKeys(j) = {}
    BY HeldByOne DEF Holds
  <2> QED
    BY <2>1, <2>2 DEF NothingOwedIsSettled, Ledger, Holds
<1> QED
  BY <1>1, AlwaysInductive, PTL

\* Every copy in the chat is the recorded one, the one still to be recorded, or one whose
\* acknowledgement or record was lost, be it to another thread's failed transaction.
THEOREM CopiesAlwaysAccounted == Spec => []CopiesAccounted
<1>1. Inductive => CopiesAccounted
  BY UnrecordedOnItsWay DEF Inductive, Ledger, Accounts, CopiesAccounted
<1> QED
  BY <1>1, AlwaysInductive, PTL

LEMMA CommitRecords ==
  ASSUME Inductive, CommitShared
  PROVE  Outbox!Record
<1>1. /\ sent' = sent \cup PendingKeys /\ PendingKeys \cap sent = {} /\ dropped \subseteq sent
      /\ dropped' = dropped \cup {r.key : r \in {x \in pending : x.how = "dropped"}}
      /\ UNCHANGED inbox
  BY DEF CommitShared, Inductive, Ledger
<1>2. sent' \ sent = PendingKeys
  BY <1>1
<1>3. PendingKeys \cap dropped' = {r.key : r \in {x \in pending : x.how = "dropped"}}
  BY <1>1 DEF PendingKeys
<1>4. ASSUME NEW k \in PendingKeys \ (PendingKeys \cap dropped') PROVE inbox[k] > 0
  <2>1. PICK r \in pending : r.key = k
    BY <1>4 DEF PendingKeys
  <2>2. r.how = "sent" /\ k \in Keys
    BY <1>3, <1>4, <2>1 DEF Inductive, TypeOK, Marks
  <2>3. Accounts(k) /\ unmarked[k] \in Nat /\ OnItsWay(k)
    BY <2>1, <2>2 DEF Inductive, TypeOK, Ledger, OnItsWay
  <2> QED
    BY <2>3 DEF Accounts
<1> QED
  BY <1>1, <1>2, <1>3, <1>4 DEF Outbox!Record

LEMMA HandlingReaches ==
  ASSUME Inductive, NEW j \in Jobs, NEW a \in job[j].todo,
         LeaveForLater(j, a) \/ Drop(j, a) \/ SendToConsole(j, a) \/ SendAccepted(j, a)
           \/ SendFailed(j, a)
  PROVE  Outbox!Reach(a.key) \/ UNCHANGED <<inbox, sent, dropped>>
<1>1. a.key \in Keys /\ a.key \notin sent /\ UNCHANGED <<sent, dropped>>
  BY DEF Inductive, TypeOK, JobState, Alerts, Ledger, Holds, TodoKeys, LeaveForLater, Drop,
         SendToConsole, SendAccepted, SendFailed, Handling
<1>2. CASE SendAccepted(j, a)
  <2>1. PICK lost \in 0..(Attempts - 1) : inbox' = [inbox EXCEPT ![a.key] = @ + lost + 1]
    BY <1>2 DEF SendAccepted
  <2>2. lost + 1 \in 1..Attempts
    BY RuntimeAssumption
  <2>3. inbox' = [inbox EXCEPT ![a.key] = @ + (lost + 1)]
    <3>1. inbox[a.key] \in Nat /\ lost \in Nat
      BY <1>1, RuntimeAssumption DEF Inductive, TypeOK
    <3>2. inbox[a.key] + lost + 1 = inbox[a.key] + (lost + 1)
      BY <3>1
    <3> QED
      BY <2>1, <3>2
  <2> QED
    BY <1>1, <2>2, <2>3 DEF Outbox!Reach
<1>3. CASE SendFailed(j, a)
  <2>1. PICK lost \in 0..Attempts : inbox' = [inbox EXCEPT ![a.key] = @ + lost]
    BY <1>3 DEF SendFailed
  <2>2. CASE lost = 0
    BY <1>1, <2>1, <2>2 DEF Inductive, TypeOK
  <2>3. CASE lost \in 1..Attempts
    BY <1>1, <2>1, <2>3 DEF Outbox!Reach
  <2> QED
    BY <2>1, <2>2, <2>3, RuntimeAssumption
<1> QED
  BY <1>1, <1>2, <1>3 DEF LeaveForLater, Drop, SendToConsole

LEMMA StepRefines == Inductive /\ [Next]_vars => [Outbox!OutboxNext]_<<inbox, sent, dropped>>
<1> SUFFICES ASSUME Inductive, [Next]_vars
             PROVE  Outbox!OutboxNext \/ UNCHANGED <<inbox, sent, dropped>>
  OBVIOUS
<1> USE DEF ledgerVars
<1>1. CASE (\E program \in {"run", "once", "notify"} : Launch(program)) \/ WorldStep \/ Crash
            \/ UNCHANGED vars \/ \E j \in Jobs : StoreFails(j) \/ JobRaises(j) \/ Start(j)
  BY <1>1 DEF Launch, WorldStep, Tick, Postpone, FullTime, ScoreKnown, SetMatchStatus,
              Reschedule, World, Crash, vars, StoreFails, JobRaises, LoseMarks, Start
<1>2. ASSUME NEW j \in Jobs, DeliveryStep(j)
      PROVE  Outbox!OutboxNext \/ UNCHANGED <<inbox, sent, dropped>>
  <2>1. CASE \E a \in job[j].todo : LeaveForLater(j, a) \/ Drop(j, a) \/ SendToConsole(j, a)
                                     \/ SendAccepted(j, a) \/ SendFailed(j, a)
    <3>1. PICK a \in job[j].todo :
            LeaveForLater(j, a) \/ Drop(j, a) \/ SendToConsole(j, a) \/ SendAccepted(j, a)
              \/ SendFailed(j, a)
      BY <2>1
    <3>2. a.key \in Keys
      BY DEF Inductive, TypeOK, JobState, Alerts
    <3> QED
      BY <3>1, <3>2, HandlingReaches DEF Outbox!OutboxNext
  <2>2. CASE Mark(j) \/ FinishJob(j)
    BY <2>2 DEF Mark, FinishJob
  <2>3. CASE Commit(j)
    BY <2>3, CommitRecords DEF Commit, Outbox!OutboxNext
  <2> QED
    BY <1>2, <2>1, <2>2, <2>3 DEF DeliveryStep
<1>3. ASSUME SyncStep PROVE Outbox!OutboxNext \/ UNCHANGED <<inbox, sent, dropped>>
  <2>1. CASE SetSyncTime \/ SetFixtureCount
    BY <2>1, CommitRecords DEF SetSyncTime, SetFixtureCount, Outbox!OutboxNext
  <2> QED
    BY <1>3, <2>1 DEF SyncStep, FetchFixtures, FixturesFetched, InstallFixtures
<1>4. ASSUME NEW j \in Jobs,
             (\E e \in Events : PlanReminders(e)) \/ NotifyStep \/ GatherStep(j)
      PROVE  UNCHANGED <<inbox, sent, dropped>>
  BY <1>4 DEF PlanReminders, NotifyStep, PlanNotify, NotifyPlanned, GatherStep, GatherResults,
              ResultsGathered
<1>5. ASSUME NEW j \in Jobs, JobStep(j)
      PROVE  Outbox!OutboxNext \/ UNCHANGED <<inbox, sent, dropped>>
  BY <1>1, <1>2, <1>3, <1>4, <1>5 DEF JobStep
<1> QED
  BY <1>1, <1>5 DEF Next

\* Three jobs on one connection deliver at least once all the same: nothing is recorded
\* unsent except on purpose, and nothing is sent once it is recorded.
THEOREM Refinement == Spec => ImplementsOutbox
<1>1. Init => Outbox!OutboxInit
  BY DEF Init, Outbox!OutboxInit
<1>2. Inductive /\ [Next]_vars => [Outbox!OutboxNext]_Outbox!outboxVars
  BY StepRefines DEF Outbox!outboxVars
<1> QED
  BY <1>1, <1>2, AlwaysInductive, PTL DEF Spec, ImplementsOutbox, Outbox!OutboxSpec

-----------------------------------------------------------------------------
(* Faults pay for duplicates *)

FaultsPay == \A k \in Keys : unmarked[k] <= MaxFaults - faults

LEMMA HandlingPaid ==
  ASSUME TypeOK, FaultsPay, NEW j \in Jobs, NEW a \in job[j].todo,
         SendAccepted(j, a) \/ SendFailed(j, a)
  PROVE  FaultsPay'
<1>1. a.key \in Keys
  BY DEF TypeOK, JobState, Alerts
<1>2. PICK lost \in Nat : Unanswered(a.key, lost)
  BY RuntimeAssumption DEF SendAccepted, SendFailed
<1>3. /\ unmarked \in [Keys -> Nat] /\ faults \in Nat /\ MaxFaults \in Nat
      /\ unmarked' = [unmarked EXCEPT ![a.key] = @ + lost]
      /\ faults' = faults - lost
  BY <1>2, RuntimeAssumption DEF TypeOK, Unanswered
<1> QED
  BY <1>1, <1>3 DEF FaultsPay

\* One failed transaction may take back the records of several jobs, but at most one
\* copy of each alert with it.
LEMMA LosePaid ==
  ASSUME TypeOK, FaultsPay, NEW jobs, LoseMarks(jobs), faults' = faults - 1
  PROVE  FaultsPay'
<1>1. /\ \A k \in Keys : unmarked[k] \in Nat
      /\ faults \in Nat /\ MaxFaults \in Nat
  BY RuntimeAssumption DEF TypeOK
<1>2. \A k \in Keys : unmarked'[k] \in {unmarked[k], unmarked[k] + 1}
  BY <1>1 DEF LoseMarks
<1> QED
  BY <1>1, <1>2 DEF FaultsPay

LEMMA PaidStep == TypeOK /\ FaultsPay /\ [Next]_vars => FaultsPay'
<1> SUFFICES ASSUME TypeOK, FaultsPay, [Next]_vars PROVE FaultsPay'
  OBVIOUS
<1>1. ASSUME UNCHANGED <<unmarked, faults>> PROVE FaultsPay'
  BY <1>1 DEF FaultsPay
<1>2. CASE \/ \E program \in {"run", "once", "notify"} : Launch(program)
           \/ WorldStep
           \/ UNCHANGED vars
  <2>1. UNCHANGED <<unmarked, faults>>
    BY <1>2 DEF WorldStep, Tick, Postpone, FullTime, ScoreKnown, SetMatchStatus, Reschedule,
                World, vars, ledgerVars, Launch
  <2> QED
    BY <1>1, <2>1
<1>3. CASE Crash \/ \E j \in Jobs : StoreFails(j)
  BY <1>3, LosePaid DEF Crash, StoreFails
<1>4. ASSUME NEW j \in Jobs, JobRaises(j) PROVE FaultsPay'
  <2>1. /\ unmarked' = unmarked /\ faults' = faults - 1
        /\ \A k \in Keys : unmarked[k] \in Nat
        /\ faults \in Nat /\ MaxFaults \in Nat
    BY <1>4, RuntimeAssumption DEF JobRaises, ledgerVars, TypeOK
  <2> QED
    BY <2>1 DEF FaultsPay
<1>5. ASSUME NEW j \in Jobs, JobStep(j) PROVE FaultsPay'
  <2>1. CASE \E a \in job[j].todo : SendAccepted(j, a) \/ SendFailed(j, a)
    BY <2>1, HandlingPaid
  <2>2. CASE ~(\E a \in job[j].todo : SendAccepted(j, a) \/ SendFailed(j, a))
    <3>1. UNCHANGED <<unmarked, faults>>
      BY <1>5, <2>2
         DEF JobStep, Start, SyncStep, FetchFixtures, FixturesFetched, InstallFixtures, SetSyncTime,
             SetFixtureCount, CommitShared, PlanReminders, NotifyStep, PlanNotify,
             NotifyPlanned, GatherStep, GatherResults, ResultsGathered, DeliveryStep,
             LeaveForLater, Drop, SendToConsole, Mark, Commit, FinishJob, ledgerVars
    <3> QED
      BY <1>1, <3>1
  <2> QED
    BY <2>1, <2>2
<1> QED
  BY <1>2, <1>3, <1>4, <1>5 DEF Next

\* Each copy of an alert beyond the first has cost a fault: as long as no acknowledgement
\* is lost and no transaction or process fails, three jobs that share a connection tell
\* the user of an alert once.
THEOREM DuplicatesArePaidFor == Spec => []CopiesBounded
<1>1. Init => FaultsPay
  BY RuntimeAssumption DEF Init, FaultsPay
<1>2. Inductive /\ FaultsPay => CopiesBounded
  <2> SUFFICES ASSUME Inductive, FaultsPay, NEW k \in Keys
               PROVE  inbox[k] <= 1 + (MaxFaults - faults)
    BY DEF CopiesBounded
  <2>1. /\ unmarked[k] \in Nat /\ faults \in Int /\ MaxFaults \in Int
        /\ unmarked[k] <= MaxFaults - faults
        /\ inbox[k] = unmarked[k] \/ inbox[k] = unmarked[k] + 1
    BY RuntimeAssumption DEF Inductive, TypeOK, FaultsPay, Ledger, Accounts
  <2> QED
    BY <2>1
<1> QED
  BY <1>1, <1>2, PaidStep, TypeCorrect, AlwaysInductive, PTL DEF Spec

=============================================================================
