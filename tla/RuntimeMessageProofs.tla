------------------------ MODULE RuntimeMessageProofs ------------------------
(***************************************************************************)
(* What the messages of Runtime say: that none is early or in quiet hours, *)
(* that drops are chosen, and why the same thing can be told under two     *)
(* keys.  This follows from what fixtures, alerts and rows carry along     *)
(* from the data they were made of (Honest).  Then the safety half of      *)
(* OnTime: only an alert's own setbacks delay it (Behind), and the work of *)
(* a job only shrinks.                                                     *)
(***************************************************************************)
EXTENDS RuntimeProofs

\* The provider that is asked first spells teams this way.
FirstNaming(by) ==
  \E p \in Providers : Naming[p] = by /\ \A q \in Providers : Rank[p] <= Rank[q]

TrueName(e, by) == e \in failedOver \/ FirstNaming(by)

TrueFixture(e, f) ==
  /\ TrueName(e, f.by)
  /\ f.match \in moved \/ f.kickoff = kickoff[f.match]

TrueKey(k) ==
  /\ TrueName(k.event, k.id.by)
  /\ k.id.match \in moved \/ k.id.day = Day(kickoff[k.id.match])

\* What an alert says is true, as far as its match was not moved.
TrueAlert(a) ==
  /\ TrueKey(a.key)
  /\ a.key.id.match \in moved \/ a.kickoff = kickoff[a.key.id.match]
  /\ ~ IsReminder(a.key) => status[a.key.id.match] = "scored"

\* What the plan of job j may contain, by the clock the job looked at.
Plannable(j, a, now) ==
  /\ j = "reminders" => now < a.kickoff
  /\ j = "notify" /\ IsReminder(a.key) => a.kickoff - LeadTime[a.key.label] <= now

Suppressing(now) == quiet.behavior = "suppress" /\ Quiet(now)

Honest ==
  /\ \A e \in Events : \A f \in cache[e] \cup fetched[e] : TrueFixture(e, f)
  /\ \A j \in Jobs : job[j].now <= clock
  /\ \A j \in Jobs : \A a \in job[j].todo : TrueAlert(a) /\ Plannable(j, a, job[j].now)
  /\ \A j \in Jobs : \A r \in job[j].inHand :
       r.how = "dropped" => j # "notify" /\ Suppressing(job[j].now)
  /\ \A r \in pending :
       r.how = "dropped" =>
         job[Owner(r.key.label)].pc = "commit" /\ Suppressing(job[Owner(r.key.label)].now)
  /\ \A k \in Keys : inbox[k] > 0 => TrueKey(k)

LEMMA Instants == \A t \in Times \cup Kickoffs : t \in Int /\ 0 <= t
<1>1. MaxTime \in Nat /\ Kickoffs \subseteq Times
  BY RuntimeAssumption
<1> QED
  BY <1>1 DEF Times

-----------------------------------------------------------------------------
(* What every step leaves true *)

Onward ==
  /\ failedOver \subseteq failedOver'
  /\ moved \subseteq moved'
  /\ clock <= clock'
  /\ quiet' = quiet
  /\ \A m \in Matches : m \in moved' \/ kickoff'[m] = kickoff[m]
  /\ \A m \in Matches : status[m] = "scored" => status'[m] = "scored"

LEMMA WorldOnward ==
  ASSUME TypeOK, WorldStep
  PROVE  Onward
<1>1. clock \in Int /\ failedOver' = failedOver /\ quiet' = quiet
  BY RuntimeAssumption DEF TypeOK, Times, WorldStep, Tick, Postpone, FullTime, ScoreKnown,
                           SetMatchStatus, Reschedule, World
<1>2. CASE Tick
  BY <1>1, <1>2 DEF Onward, Tick, World
<1>3. ASSUME NEW m \in Matches, NEW from, NEW to, SetMatchStatus(m, from, to), from # "scored"
      PROVE  Onward
  BY <1>1, <1>3 DEF Onward, SetMatchStatus, TypeOK
<1>4. ASSUME NEW m \in Matches, NEW t \in Kickoffs, Reschedule(m, t) PROVE Onward
  BY <1>1, <1>4 DEF Onward, Reschedule, TypeOK
<1> QED
  BY <1>2, <1>3, <1>4 DEF WorldStep, Postpone, FullTime, ScoreKnown

LEMMA PlanningOnward ==
  ASSUME TypeOK, NEW j \in Jobs, NEW e \in Events, NEW alerts, Planning(j, e, alerts), j # "sync"
  PROVE  Onward
<1>1. UNCHANGED worldVars /\ clock \in Int
  BY RuntimeAssumption DEF Planning, TypeOK, Times
<1>2. failedOver \subseteq failedOver'
  BY DEF Planning, From, NoteFailover
<1> QED
  BY <1>1, <1>2 DEF Onward, worldVars

LEMMA StillOnward ==
  ASSUME TypeOK, UNCHANGED <<worldVars, failedOver>>
  PROVE  Onward
<1>1. clock \in Int
  BY RuntimeAssumption DEF TypeOK, Times
<1> QED
  BY <1>1 DEF Onward, worldVars

LEMMA FetchOnward ==
  ASSUME TypeOK, NEW e \in Events, NEW down \in SUBSET Providers, FetchFixtures(e, down)
  PROVE  Onward
<1>1. UNCHANGED worldVars /\ clock \in Int /\ failedOver \subseteq failedOver'
  BY RuntimeAssumption DEF FetchFixtures, NoteFailover, TypeOK, Times
<1> QED
  BY <1>1 DEF Onward, worldVars

LEMMA TruthStays ==
  ASSUME Onward
  PROVE  /\ \A e, by : TrueName(e, by) => TrueName(e, by)'
         /\ \A e, f : TrueFixture(e, f) /\ f.match \in Matches => TrueFixture(e, f)'
         /\ \A k \in Keys : TrueKey(k) => TrueKey(k)'
         /\ \A a \in Alerts : TrueAlert(a) => TrueAlert(a)'
<1>1. \A e, by : TrueName(e, by) => TrueName(e, by)'
  BY DEF TrueName, Onward
<1>2. \A e, f : TrueFixture(e, f) /\ f.match \in Matches => TrueFixture(e, f)'
  BY <1>1 DEF TrueFixture, Onward
<1>3. \A k \in Keys : TrueKey(k) => TrueKey(k)'
  BY <1>1 DEF TrueKey, Onward, Keys, Ids
<1>4. \A a \in Alerts : a.key \in Keys /\ a.key.id.match \in Matches
  BY DEF Alerts, Keys, Ids
<1>5. \A a \in Alerts : TrueAlert(a) => TrueAlert(a)'
  BY <1>3, <1>4 DEF TrueAlert, Onward
<1> QED
  BY <1>1, <1>2, <1>3, <1>5

-----------------------------------------------------------------------------
(* What is fetched and planned is true *)

LEMMA TrueAnswer ==
  ASSUME NEW e \in Events, NEW p \in Providers, From(e, p)
  PROVE  TrueName(e, Naming[p])'
<1>1. PICK down \in SUBSET Providers : Answers(p, down) /\ NoteFailover(e, p, down)
  BY DEF From
<1>2. \A q \in Providers : Rank[q] \in Int
  BY RuntimeAssumption
<1>3. CASE \E q \in down : Rank[q] < Rank[p]
  BY <1>1, <1>3 DEF NoteFailover, TrueName
<1>4. CASE ~ \E q \in down : Rank[q] < Rank[p]
  <2>1. \A q \in Providers : Rank[p] <= Rank[q]
    BY <1>1, <1>2, <1>4 DEF Answers
  <2> QED
    BY <2>1 DEF TrueName, FirstNaming
<1> QED
  BY <1>3, <1>4

LEMMA TrueFixturesFrom ==
  ASSUME NEW e \in Events, NEW p \in Providers, NEW t, TrueName(e, Naming[p])',
         UNCHANGED <<kickoff, moved>>,
         NEW f \in FixturesFrom(e, p, t)
  PROVE  TrueFixture(e, f)'
<1>1. f.by = Naming[p] /\ f.kickoff = kickoff[f.match]
  BY DEF FixturesFrom
<1> QED
  BY <1>1 DEF TrueFixture

LEMMA TrueReminders ==
  ASSUME NEW e \in Events, NEW fixtures \in SUBSET Fixtures, NEW t,
         \A f \in fixtures : TrueFixture(e, f)',
         NEW a \in RemindersFor(e, fixtures, t)
  PROVE  TrueAlert(a)' /\ IsReminder(a.key) /\ t < a.kickoff
<1>1. PICK f \in fixtures, l \in Leads :
        a = AlertFor(e, f.match, f.by, f.kickoff, l) /\ t < f.kickoff
  BY ReminderParts
<1>2. /\ a.key.event = e /\ a.key.label = l /\ a.key.id.match = f.match /\ a.key.id.by = f.by
      /\ a.key.id.day = Day(f.kickoff) /\ a.kickoff = f.kickoff
  BY <1>1 DEF AlertFor, StableId
<1>3. TrueFixture(e, f)'
  OBVIOUS
<1>4. IsReminder(a.key)
  BY <1>2 DEF IsReminder
<1>5. TrueKey(a.key)'
  BY <1>2, <1>3 DEF TrueKey, TrueFixture
<1> QED
  BY <1>1, <1>2, <1>3, <1>4, <1>5 DEF TrueAlert, TrueFixture

LEMMA TrueResultAlerts ==
  ASSUME NEW e \in Events, NEW p \in Providers, NEW t, NEW upsets \in SUBSET ResultsFor(e, t),
         TrueName(e, Naming[p])', UNCHANGED <<kickoff, moved, status>>,
         NEW a \in ResultAlertsFor(e, p, ResultsFor(e, t), upsets)
  PROVE  TrueAlert(a)' /\ ~ IsReminder(a.key)
<1>1. PICK m \in ResultsFor(e, t), l \in {"final", "shock"} :
        a = AlertFor(e, m, Naming[p], kickoff[m], l)
  BY ResultAlertParts
<1>2. /\ a.key.event = e /\ a.key.label = l /\ a.key.id.match = m /\ a.key.id.by = Naming[p]
      /\ a.key.id.day = Day(kickoff[m]) /\ a.kickoff = kickoff[m]
  BY <1>1 DEF AlertFor, StableId
<1>3. status[m] = "scored"
  BY DEF ResultsFor
<1>4. ~ IsReminder(a.key)
  BY <1>2, RuntimeAssumption DEF IsReminder
<1> QED
  BY <1>2, <1>3, <1>4 DEF TrueAlert, TrueKey

LEMMA TruePlanning ==
  ASSUME TypeOK, Honest, Flow, NEW j \in Jobs, NEW e \in Events, NEW alerts,
         Planning(j, e, alerts)
  PROVE  \A a \in alerts : TrueAlert(a)' /\ Plannable(j, a, job[j].now)
<1>1. UNCHANGED <<kickoff, moved, status>>
  BY DEF Planning, worldVars
<1>2. CASE /\ j = "reminders"
           /\ alerts = RemindersFor(e, cache[e], job[j].now)
           /\ UNCHANGED failedOver
  <2>1. cache[e] \in SUBSET Fixtures
    BY DEF TypeOK
  <2>2. \A f \in cache[e] : TrueFixture(e, f)'
    BY <1>1, <1>2 DEF Honest, TrueFixture, TrueName
  <2> QED
    BY <1>2, <2>1, <2>2, TrueReminders DEF Plannable
<1>3. ASSUME j = "notify", NEW p \in Providers, From(e, p),
             alerts = DueReminders(e, p, job[j].now)
      PROVE  \A a \in alerts : TrueAlert(a)' /\ Plannable(j, a, job[j].now)
  <2>1. FixturesFrom(e, p, job[j].now) \in SUBSET Fixtures
    BY FixturesFromType
  <2>2. \A f \in FixturesFrom(e, p, job[j].now) : TrueFixture(e, f)'
    BY <1>1, <1>3, TrueAnswer, TrueFixturesFrom
  <2> QED
    BY <1>3, <2>1, <2>2, TrueReminders DEF DueReminders, Plannable
<1>4. ASSUME j \in {"results", "notify"}, NEW p \in Providers, From(e, p),
             NEW upsets \in SUBSET ResultsFor(e, job[j].now),
             alerts = ResultAlertsFor(e, p, ResultsFor(e, job[j].now), upsets)
      PROVE  \A a \in alerts : TrueAlert(a)' /\ Plannable(j, a, job[j].now)
  BY <1>1, <1>4, TrueAnswer, TrueResultAlerts DEF Plannable
<1>5. job[j].pc = "gather" => j \in {"results", "notify"}
  BY DEF Flow, StepsOf, Jobs
<1> QED
  BY <1>2, <1>3, <1>4, <1>5 DEF Planning

-----------------------------------------------------------------------------
(* The shape of a step *)

\* Job i keeps its clock, or has nothing planned or in hand; it plans, or plans nothing
\* more; what it takes in hand it sends or drops.
JobShape(i) ==
  /\ job'[i].now \in {job[i].now, clock, 0}
  /\ \/ job'[i].todo = {}
     \/ job'[i].now = job[i].now /\ job'[i].todo \subseteq job[i].todo
     \/ \E e \in Events : \E alerts :
          /\ Planning(i, e, alerts)
          /\ job'[i].now = job[i].now
          /\ job'[i].todo \subseteq job[i].todo \cup alerts
  /\ \A r \in job'[i].inHand :
       /\ job'[i].now = job[i].now
       /\ \/ r.how = "sent"
          \/ r \in job[i].inHand
          \/ \E a \in job[i].todo : Handling(i, a, "drop")

\* A copy reaches the chat by a send.
InboxShape ==
  \/ inbox' = inbox
  \/ \E j \in Jobs : \E a \in job[j].todo :
       /\ Handling(j, a, "send")
       /\ \A k \in Keys \ {a.key} : inbox'[k] = inbox[k]

\* The open transaction ends or grows by a row; a job with a row in it waits.
PendingShape ==
  \/ pending' = {}
  \/ \E j \in Jobs : Mark(j)
  \/ pending' = pending /\ \A i \in Jobs : job[i].pc = "commit" => job'[i] = job[i]

FixtureShape ==
  \A e \in Events : \A f \in cache'[e] \cup fetched'[e] :
    f \in cache[e] \cup fetched[e] \/ TrueFixture(e, f)'

Shape ==
  /\ Onward
  /\ \A i \in Jobs : JobShape(i)
  /\ InboxShape
  /\ PendingShape
  /\ FixtureShape
  /\ dropped' = dropped \/ CommitShared

LEMMA OneJobShape ==
  ASSUME TypeOK, NEW j \in Jobs, NEW state, Becomes(j, state),
         state.now \in {job[j].now, clock, 0},
         state.todo = {} \/ (state.now = job[j].now /\ state.todo \subseteq job[j].todo),
         \A r \in state.inHand :
           /\ state.now = job[j].now
           /\ \/ r.how = "sent"
              \/ r \in job[j].inHand
              \/ \E a \in job[j].todo : Handling(j, a, "drop")
  PROVE  /\ \A i \in Jobs : JobShape(i)
         /\ \A i \in Jobs \ {j} : job'[i] = job[i]
<1>1. \A i \in Jobs : job'[i] = IF i = j THEN state ELSE job[i]
  BY DEF Becomes, TypeOK
<1> QED
  BY <1>1 DEF JobShape

LEMMA JobsAloneShape ==
  ASSUME UNCHANGED job
  PROVE  \A i \in Jobs : JobShape(i)
BY DEF JobShape

LEMMA OverShape ==
  ASSUME TypeOK, NEW j \in Jobs, Over(j)
  PROVE  /\ \A i \in Jobs : JobShape(i)
         /\ \A i \in Jobs \ {j} : job'[i] = job[i]
         /\ \A e \in Events : cache'[e] \subseteq cache[e]
<1>1. AtRest.todo = {} /\ AtRest.inHand = {} /\ AtRest.now = 0
  BY DEF AtRest
<1>2. Becomes(j, AtRest)
  BY DEF Over
<1>3. /\ \A i \in Jobs : JobShape(i)
      /\ \A i \in Jobs \ {j} : job'[i] = job[i]
  BY <1>1, <1>2, OneJobShape
<1>4. \A e \in Events : cache'[e] \subseteq cache[e]
  BY DEF Over
<1> QED
  BY <1>3, <1>4

LEMMA AbortShape ==
  ASSUME TypeOK, NEW j \in Jobs, Abort(j)
  PROVE  /\ \A i \in Jobs : JobShape(i)
         /\ \A i \in Jobs \ {j} : job'[i] = job[i]
         /\ FixtureShape
<1>1. \A e \in Events : fetched'[e] \subseteq fetched[e]
  BY DEF Abort
<1>2. CASE j = "reminders"
  <2> DEFINE state == [job[j] EXCEPT !.pc = "deliver", !.todo = {}, !.inHand = {}]
  <2>1. /\ state.todo = {} /\ state.inHand = {} /\ state.now = job[j].now
        /\ Becomes(j, state) /\ cache' = cache
    BY <1>2 DEF Abort, TypeOK, JobState
  <2> HIDE DEF state
  <2>2. /\ \A i \in Jobs : JobShape(i)
        /\ \A i \in Jobs \ {j} : job'[i] = job[i]
    BY <2>1, OneJobShape
  <2> QED
    BY <1>1, <2>1, <2>2 DEF FixtureShape
<1>3. CASE j # "reminders"
  BY <1>1, <1>3, OverShape DEF Abort, FixtureShape
<1> QED
  BY <1>2, <1>3

LEMMA PlanShape ==
  ASSUME TypeOK, NEW j \in Jobs, NEW e \in Events, NEW alerts, Planning(j, e, alerts), Flow
  PROVE  /\ \A i \in Jobs : JobShape(i)
         /\ InboxShape /\ PendingShape
         /\ UNCHANGED dropped
<1>1. job[j] \in JobState
  BY DEF TypeOK
<1>2. /\ job'[j].todo \subseteq job[j].todo \cup alerts
      /\ job'[j].now = job[j].now
      /\ job'[j].inHand = job[j].inHand
  BY <1>1 DEF Planning, Plan, Becomes, TypeOK, JobState, Unsent
<1>3. \A i \in Jobs \ {j} : job'[i] = job[i]
  BY DEF Planning, Plan, Becomes, TypeOK
<1>4. \A i \in Jobs : JobShape(i)
  BY <1>2, <1>3 DEF JobShape
<1>5. job[j].pc # "commit"
  BY DEF Planning
<1> QED
  BY <1>3, <1>4, <1>5 DEF InboxShape, PendingShape, Planning, ledgerVars

LEMMA HandlingShape ==
  ASSUME TypeOK, NEW j \in Jobs, NEW a \in job[j].todo,
         LeaveForLater(j, a) \/ Drop(j, a) \/ SendToConsole(j, a) \/ SendAccepted(j, a)
           \/ SendFailed(j, a)
  PROVE  Shape
<1>1. /\ job[j].pc = "deliver" /\ job[j] \in JobState /\ a.key \in Keys
      /\ UNCHANGED <<worldVars, failedOver, cache, fetched, pending, dropped>>
  BY DEF LeaveForLater, Drop, SendToConsole, SendAccepted, SendFailed, Handling, TypeOK,
         JobState, Alerts
<1>2. InboxShape
  <2>1. CASE SendAccepted(j, a) \/ SendFailed(j, a)
    BY <1>1, <2>1 DEF InboxShape, SendAccepted, SendFailed, TypeOK
  <2>2. CASE LeaveForLater(j, a) \/ Drop(j, a) \/ SendToConsole(j, a)
    BY <2>2 DEF InboxShape, LeaveForLater, Drop, SendToConsole
  <2> QED
    BY <2>1, <2>2
<1>3. /\ \A i \in Jobs : JobShape(i)
      /\ \A i \in Jobs \ {j} : job'[i] = job[i]
  <2>1. CASE PassOver(j, a)
    <3> DEFINE state == [job[j] EXCEPT !.todo = job[j].todo \ {a}]
    <3>1. /\ state.todo \subseteq job[j].todo /\ state.now = job[j].now
          /\ state.inHand = job[j].inHand /\ Becomes(j, state)
      BY <1>1, <2>1 DEF PassOver, JobState
    <3> HIDE DEF state
    <3> QED
      BY <3>1, OneJobShape
  <2>2. ASSUME NEW how, TakeUp(j, a, how), how = "sent" \/ Handling(j, a, "drop")
        PROVE  /\ \A i \in Jobs : JobShape(i)
               /\ \A i \in Jobs \ {j} : job'[i] = job[i]
    <3> DEFINE state == [job[j] EXCEPT !.pc = "mark", !.todo = job[j].todo \ {a},
                                       !.inHand = {[key |-> a.key, how |-> how]}]
    <3>1. /\ state.todo \subseteq job[j].todo /\ state.now = job[j].now
          /\ state.inHand = {[key |-> a.key, how |-> how]} /\ Becomes(j, state)
      BY <1>1, <2>2 DEF TakeUp, JobState
    <3> HIDE DEF state
    <3>2. \A r \in state.inHand : r.how = how
      BY <3>1
    <3> QED
      BY <2>2, <3>1, <3>2, OneJobShape
  <2> QED
    BY <2>1, <2>2 DEF LeaveForLater, Drop, SendToConsole, SendAccepted, SendFailed
<1>4. Onward
  BY <1>1, StillOnward
<1> QED
  BY <1>1, <1>2, <1>3, <1>4 DEF Shape, PendingShape, FixtureShape

LEMMA StepShape == Inductive /\ [Next]_vars => Shape
<1> SUFFICES ASSUME TypeOK, Flow, Owed, [Next]_vars PROVE Shape
  BY DEF Inductive
<1> USE DEF ledgerVars
<1>0. ASSUME NEW j \in Jobs PROVE job[j] \in JobState
  BY DEF TypeOK
<1>1. CASE (\E program \in {"run", "once", "notify"} : Launch(program)) \/ UNCHANGED vars
  <2>1. UNCHANGED <<worldVars, failedOver, job, cache, fetched, inbox, pending, dropped>>
    BY <1>1 DEF Launch, vars
  <2> QED
    BY <2>1, StillOnward, JobsAloneShape DEF Shape, InboxShape, PendingShape, FixtureShape
<1>2. CASE WorldStep
  <2>1. UNCHANGED <<failedOver, job, cache, fetched, inbox, pending, dropped>>
    BY <1>2 DEF WorldStep, Tick, Postpone, FullTime, ScoreKnown, SetMatchStatus, Reschedule,
                World
  <2> QED
    BY <1>2, <2>1, WorldOnward, JobsAloneShape DEF Shape, InboxShape, PendingShape, FixtureShape
<1>3. ASSUME NEW j \in Jobs, Start(j) PROVE Shape
  <2> DEFINE state == [AtRest EXCEPT !.pc = FirstStep[j], !.now = clock, !.left = Events]
  <2>1. state.todo = {} /\ state.inHand = {} /\ state.now = clock
    BY DEF AtRest
  <2>2. /\ Becomes(j, state) /\ job[j].pc = "idle"
        /\ UNCHANGED <<worldVars, failedOver, cache, fetched, inbox, pending, dropped>>
    BY <1>3 DEF Start
  <2> HIDE DEF state
  <2>3. /\ \A i \in Jobs : JobShape(i)
        /\ \A i \in Jobs \ {j} : job'[i] = job[i]
    BY <2>1, <2>2, OneJobShape
  <2> QED
    BY <2>2, <2>3, StillOnward DEF Shape, InboxShape, PendingShape, FixtureShape
<1>4. ASSUME NEW e \in Events, NEW down \in SUBSET Providers, FetchFixtures(e, down)
      PROVE  Shape
  <2>1. Onward /\ cache' = cache /\ UNCHANGED <<kickoff, moved>>
    BY <1>4, FetchOnward DEF FetchFixtures, worldVars
  <2>2. FixtureShape
    <3>1. \/ fetched' = [fetched EXCEPT ![e] = cache[e]]
          \/ \E p \in Providers :
               /\ From(e, p)
               /\ fetched' = [fetched EXCEPT ![e] = FixturesFrom(e, p, job["sync"].now)]
      BY <1>4 DEF FetchFixtures, From
    <3>2. ASSUME NEW p \in Providers, From(e, p)
          PROVE  \A f \in FixturesFrom(e, p, job["sync"].now) : TrueFixture(e, f)'
      BY <2>1, <3>2, TrueAnswer, TrueFixturesFrom
    <3> QED
      BY <2>1, <3>1, <3>2 DEF FixtureShape, TypeOK
  <2>3. "sync" \in Jobs
    BY DEF Jobs
  <2> QED
    BY <1>4, <2>1, <2>2, <2>3, FetchFixturesPlans, PlanShape DEF Shape
<1>5. ASSUME NEW j \in Jobs, NEW e \in Events, NEW alerts, Planning(j, e, alerts), j # "sync"
      PROVE  Shape
  <2>1. UNCHANGED <<fetched, cache>>
    BY <1>5 DEF Planning
  <2> QED
    BY <1>5, <2>1, PlanShape, PlanningOnward DEF Shape, FixtureShape
<1>6. ASSUME NEW j \in Jobs, NEW state, Becomes(j, state), job[j].pc # "commit",
             state.now \in {job[j].now, 0}, state.todo = {} \/ state.now = job[j].now,
             state.inHand = {} \/ state.now = job[j].now,
             state.todo = job[j].todo, state.inHand = job[j].inHand,
             FixtureShape, UNCHANGED <<worldVars, failedOver, inbox, pending, dropped>>
      PROVE  Shape
  <2>1. /\ \A i \in Jobs : JobShape(i)
        /\ \A i \in Jobs \ {j} : job'[i] = job[i]
    BY <1>6, OneJobShape
  <2> QED
    BY <1>6, <2>1, StillOnward DEF Shape, InboxShape, PendingShape
<1>21. ASSUME NEW e \in Events, InstallFixtures(e) PROVE Shape
  <2>1. Onward
    BY <1>21, StillOnward DEF InstallFixtures
  <2>2. FixtureShape
    BY <1>21 DEF InstallFixtures, FixtureShape, TypeOK
  <2>3. Planning("sync", e, {}) /\ "sync" \in Jobs
    BY <1>21, InstallFixturesPlans DEF Jobs
  <2> QED
    BY <2>1, <2>2, <2>3, PlanShape DEF Shape
<1>7. ASSUME FixturesFetched PROVE Shape
  <2> DEFINE state == [job["sync"] EXCEPT !.pc = "install", !.now = 0, !.left = Events]
  <2>1. /\ state.todo = job["sync"].todo /\ state.inHand = job["sync"].inHand
        /\ state.now = 0 /\ Becomes("sync", state) /\ job["sync"].pc = "fetch"
        /\ UNCHANGED <<worldVars, failedOver, inbox, pending, dropped>>
    BY <1>0, <1>7 DEF FixturesFetched, JobState, Jobs
  <2> HIDE DEF state
  <2>2. job["sync"].inHand = {} /\ "sync" \in Jobs
    BY <2>1 DEF Flow, Jobs
  <2>3. FixtureShape
    BY <1>7 DEF FixturesFetched, FixtureShape
  <2>4. job["sync"].todo = {}
    BY <2>2 DEF Owed, MayHold
  <2> QED
    BY <1>6, <2>1, <2>2, <2>3, <2>4
<1>8. ASSUME NotifyPlanned PROVE Shape
  <2> DEFINE state == [job["notify"] EXCEPT !.pc = "gather", !.left = Events]
  <2>1. /\ state.todo = job["notify"].todo /\ state.inHand = job["notify"].inHand
        /\ state.now = job["notify"].now /\ Becomes("notify", state)
        /\ job["notify"].pc = "fetch"
        /\ UNCHANGED <<worldVars, failedOver, cache, fetched, inbox, pending, dropped>>
    BY <1>0, <1>8 DEF NotifyPlanned, JobState, Jobs
  <2> HIDE DEF state
  <2> QED
    BY <1>6, <2>1 DEF FixtureShape, Jobs
<1>9. ASSUME NEW j \in Jobs, ResultsGathered(j) PROVE Shape
  <2> DEFINE state == [job[j] EXCEPT !.pc = "deliver"]
  <2>1. /\ state.todo = job[j].todo /\ state.inHand = job[j].inHand
        /\ state.now = job[j].now /\ Becomes(j, state) /\ job[j].pc = "gather"
        /\ UNCHANGED <<worldVars, failedOver, cache, fetched, inbox, pending, dropped>>
    BY <1>0, <1>9 DEF ResultsGathered, JobState
  <2> HIDE DEF state
  <2> QED
    BY <1>6, <2>1 DEF FixtureShape
<1>10. ASSUME NEW j \in Jobs, NEW pc, Becomes(j, [job[j] EXCEPT !.pc = pc]), CommitShared,
              UNCHANGED <<worldVars, failedOver, cache, fetched>>
       PROVE  Shape
  <2> DEFINE state == [job[j] EXCEPT !.pc = pc]
  <2>1. /\ state.todo = job[j].todo /\ state.inHand = job[j].inHand
        /\ state.now = job[j].now /\ Becomes(j, state)
    BY <1>0, <1>10 DEF JobState
  <2> HIDE DEF state
  <2>2. \A i \in Jobs : JobShape(i)
    BY <2>1, OneJobShape
  <2> QED
    BY <1>10, <2>2, StillOnward DEF Shape, InboxShape, PendingShape, FixtureShape, CommitShared
<1>11. ASSUME NEW j \in Jobs, Mark(j) PROVE Shape
  <2> DEFINE state == [job[j] EXCEPT !.pc = "commit", !.inHand = {}]
  <2>1. /\ state.todo = job[j].todo /\ state.inHand = {}
        /\ state.now = job[j].now /\ Becomes(j, state)
        /\ UNCHANGED <<worldVars, failedOver, cache, fetched, inbox, dropped>>
    BY <1>0, <1>11 DEF Mark, JobState
  <2> HIDE DEF state
  <2>2. \A i \in Jobs : JobShape(i)
    BY <2>1, OneJobShape
  <2> QED
    BY <1>11, <2>1, <2>2, StillOnward DEF Shape, InboxShape, PendingShape, FixtureShape
<1>12. ASSUME SetFixtureCount PROVE Shape
  <2>1. Over("sync") /\ CommitShared /\ UNCHANGED <<worldVars, failedOver, fetched>>
    BY <1>12 DEF SetFixtureCount
  <2> QED
    BY <2>1, StillOnward, OverShape DEF Shape, InboxShape, PendingShape, FixtureShape,
                                        CommitShared, Jobs
<1>13. ASSUME NEW j \in Jobs, FinishJob(j) PROVE Shape
  <2>1. /\ Over(j) /\ job[j].pc = "deliver"
        /\ UNCHANGED <<worldVars, failedOver, fetched, inbox, pending, dropped>>
    BY <1>13 DEF FinishJob
  <2> QED
    BY <2>1, StillOnward, OverShape DEF Shape, InboxShape, PendingShape, FixtureShape
<1>14. ASSUME NEW j \in Jobs, StoreFails(j) \/ JobRaises(j) PROVE Shape
  <2>1. /\ Abort(j) /\ UNCHANGED <<worldVars, failedOver, inbox, dropped>>
        /\ pending' = {} \/ (pending' = pending /\ job[j].pc # "commit")
    BY <1>14 DEF StoreFails, JobRaises, LoseMarks
  <2> QED
    BY <2>1, StillOnward, AbortShape DEF Shape, InboxShape, PendingShape
<1>15. ASSUME Crash PROVE Shape
  <2>1. /\ UNCHANGED <<worldVars, failedOver, inbox, dropped>> /\ pending' = {}
        /\ \A i \in Jobs : job'[i] = AtRest
        /\ \A e \in Events : cache'[e] = {} /\ fetched'[e] = {}
    BY <1>15 DEF Crash, LoseMarks
  <2>2. \A i \in Jobs : JobShape(i)
    BY <2>1 DEF JobShape, AtRest
  <2> QED
    BY <2>1, <2>2, StillOnward DEF Shape, InboxShape, PendingShape, FixtureShape
<1>16. ASSUME NEW j \in Jobs, JobStep(j) PROVE Shape
  <2>1. CASE j = "sync" /\ SyncStep
    <3>1. CASE SetSyncTime
      BY <1>10, <3>1 DEF SetSyncTime, Jobs
    <3> QED
      BY <1>4, <1>7, <1>12, <1>21, <2>1, <3>1 DEF SyncStep
  <2>2. CASE j = "reminders" /\ \E e \in Events : PlanReminders(e)
    BY <1>5, <2>2, PlanRemindersPlans
  <2>3. CASE j = "notify" /\ NotifyStep
    BY <1>5, <1>8, <2>3, PlanNotifyPlans DEF NotifyStep
  <2>4. CASE GatherStep(j)
    <3>1. ASSUME NEW e \in Events, NEW down \in SUBSET Providers, GatherResults(j, e, down)
          PROVE  j # "sync"
      BY <3>1 DEF GatherResults, Flow, StepsOf, Jobs
    <3> QED
      BY <1>5, <1>9, <2>4, <3>1, GatherResultsPlans DEF GatherStep
  <2>5. CASE DeliveryStep(j)
    <3>1. CASE Commit(j)
      BY <1>10, <3>1 DEF Commit
    <3> QED
      BY <1>11, <1>13, <2>5, <3>1, HandlingShape DEF DeliveryStep
  <2> QED
    BY <1>3, <1>16, <2>1, <2>2, <2>3, <2>4, <2>5 DEF JobStep
<1> QED
  BY <1>1, <1>2, <1>14, <1>15, <1>16 DEF Next

-----------------------------------------------------------------------------
(* Honest is an invariant *)

\* What is dropped is dropped during quiet hours, for a user who suppresses.
LEMMA DropIsChosen ==
  ASSUME TypeOK, Honest, NEW j \in Jobs, NEW a \in job[j].todo, Handling(j, a, "drop")
  PROVE  j # "notify" /\ Suppressing(job[j].now)
<1>1. job[j].now \in Times /\ quiet \in Quiets /\ quiet.behavior \in {"defer", "suppress"}
  BY RuntimeAssumption DEF TypeOK, JobState, QuietHoursConfig
<1>2. a.kickoff \in Int /\ job[j].now \in Int
  <2>1. job[j] \in JobState
    BY DEF TypeOK
  <2>2. a \in Alerts /\ job[j].now \in Times
    BY <2>1 DEF JobState
  <2>3. a.kickoff \in Kickoffs
    BY <2>2 DEF Alerts
  <2> QED
    BY <2>2, <2>3, Instants
<1>3. ~ (j = "reminders" /\ a.kickoff <= job[j].now)
  BY <1>2 DEF Honest, Plannable
<1>4. /\ j # "notify"
      /\ InQuietHours(LocalTime(job[j].now), quiet)
      /\ quiet.behavior # "defer"
  BY <1>3 DEF Handling, Classify
<1> QED
  BY <1>1, <1>4, QuietIsCovered DEF Suppressing

LEMMA HonestPending ==
  ASSUME Inductive, Honest, Shape
  PROVE  \A r \in pending' :
           r.how = "dropped" =>
             job'[Owner(r.key.label)].pc = "commit" /\ Suppressing(job[Owner(r.key.label)].now)'
<1> USE DEF Inductive
<1>0. /\ \A now : Suppressing(now)' = Suppressing(now)
      /\ \A k : Owner(k.label) \in Jobs
  BY DEF Shape, Onward, Suppressing, Quiet, Owner, Jobs
<1>1. ASSUME NEW j \in Jobs, Mark(j), NEW r \in pending', r.how = "dropped"
      PROVE  job'[Owner(r.key.label)].pc = "commit" /\ Suppressing(job'[Owner(r.key.label)].now)
  <2> DEFINE state == [job[j] EXCEPT !.pc = "commit", !.inHand = {}]
  <2>1. /\ pending' = pending \cup job[j].inHand
        /\ job[j].pc = "mark"
        /\ \A i \in Jobs : job'[i] = IF i = j THEN state ELSE job[i]
        /\ state.pc = "commit" /\ state.now = job[j].now
    BY <1>1 DEF Mark, Becomes, TypeOK, JobState
  <2> HIDE DEF state
  <2>2. CASE r \in pending
    BY <1>0, <1>1, <2>1, <2>2 DEF Honest
  <2>3. CASE r \in job[j].inHand
    <3>1. j # "notify" /\ Suppressing(job[j].now) /\ MayHold(j, r.key)
      BY <1>1, <2>3 DEF Honest, Owed
    <3>2. Owner(r.key.label) = j
      BY <3>1 DEF MayHold, Owner, IsReminder
    <3> QED
      BY <2>1, <3>1, <3>2
  <2> QED
    BY <1>1, <2>1, <2>2, <2>3
<1>2. ASSUME pending' = pending, \A i \in Jobs : job[i].pc = "commit" => job'[i] = job[i],
             NEW r \in pending', r.how = "dropped"
      PROVE  job'[Owner(r.key.label)].pc = "commit" /\ Suppressing(job'[Owner(r.key.label)].now)
  BY <1>0, <1>2 DEF Honest
<1> QED
  BY <1>0, <1>1, <1>2 DEF Shape, PendingShape

LEMMA HonestStep == Inductive /\ Honest /\ [Next]_vars => Honest'
<1> SUFFICES ASSUME Inductive, Honest, [Next]_vars PROVE Honest'
  OBVIOUS
<1>1. Shape /\ Onward /\ TypeOK /\ Flow /\ TypeOK'
  BY StepShape, StepInductive DEF Shape, Inductive
<1>2. /\ \A e, f : TrueFixture(e, f) /\ f.match \in Matches => TrueFixture(e, f)'
      /\ \A k \in Keys : TrueKey(k) => TrueKey(k)'
      /\ \A a \in Alerts : TrueAlert(a) => TrueAlert(a)'
  BY <1>1, TruthStays
<1>3. \A now : Suppressing(now)' = Suppressing(now)
  BY <1>1 DEF Onward, Suppressing, Quiet
<1>4. ASSUME NEW e \in Events, NEW f \in cache'[e] \cup fetched'[e] PROVE TrueFixture(e, f)'
  <2>1. CASE f \in cache[e] \cup fetched[e]
    <3>1. f.match \in Matches
      BY <1>1, <2>1 DEF TypeOK, Fixtures
    <3> QED
      BY <1>2, <2>1, <3>1 DEF Honest
  <2> QED
    BY <1>1, <2>1 DEF Shape, FixtureShape
<1>5. ASSUME NEW j \in Jobs PROVE job'[j].now <= clock'
  <2>1. /\ clock \in Int /\ clock' \in Int /\ 0 <= clock /\ clock <= clock'
        /\ job[j].now \in Int /\ job[j].now <= clock
    BY <1>1, RuntimeAssumption DEF TypeOK, JobState, Times, Onward, Honest
  <2> QED
    BY <1>1, <2>1 DEF Shape, JobShape
<1>6. ASSUME NEW j \in Jobs, NEW a \in job'[j].todo
      PROVE  TrueAlert(a)' /\ Plannable(j, a, job'[j].now)
  <2>1. CASE a \in job[j].todo /\ job'[j].now = job[j].now
    <3>1. a \in Alerts
      BY <1>1, <2>1 DEF TypeOK, JobState
    <3> QED
      BY <1>2, <2>1, <3>1 DEF Honest
  <2>2. ASSUME NEW e \in Events, NEW alerts, Planning(j, e, alerts), a \in alerts,
               job'[j].now = job[j].now
        PROVE  TrueAlert(a)' /\ Plannable(j, a, job'[j].now)
    BY <1>1, <2>2, TruePlanning
  <2> QED
    BY <1>1, <1>6, <2>1, <2>2 DEF Shape, JobShape
<1>7. ASSUME NEW j \in Jobs, NEW r \in job'[j].inHand, r.how = "dropped"
      PROVE  j # "notify" /\ Suppressing(job'[j].now)
  <2>1. /\ job'[j].now = job[j].now
        /\ r \in job[j].inHand \/ \E a \in job[j].todo : Handling(j, a, "drop")
    BY <1>1, <1>7 DEF Shape, JobShape
  <2> QED
    BY <1>1, <1>7, <2>1, DropIsChosen DEF Honest
<1>8. ASSUME NEW k \in Keys, inbox'[k] > 0 PROVE TrueKey(k)'
  <2>1. CASE inbox'[k] = inbox[k]
    BY <1>2, <1>8, <2>1 DEF Honest
  <2>2. CASE \E j \in Jobs : \E a \in job[j].todo : k = a.key
    BY <1>2, <2>2 DEF Honest, TrueAlert
  <2> QED
    BY <1>1, <2>1, <2>2 DEF Shape, InboxShape
<1>9. \A r \in pending' :
        r.how = "dropped" =>
          job'[Owner(r.key.label)].pc = "commit" /\ Suppressing(job[Owner(r.key.label)].now)'
  BY <1>1, HonestPending
<1>10. /\ \A e \in Events : \A f \in cache'[e] \cup fetched'[e] : TrueFixture(e, f)'
       /\ \A j \in Jobs : \A a \in job'[j].todo : TrueAlert(a)' /\ Plannable(j, a, job'[j].now)
       /\ \A j \in Jobs : \A r \in job'[j].inHand :
            r.how = "dropped" => j # "notify" /\ Suppressing(job[j].now)'
  BY <1>3, <1>4, <1>6, <1>7
<1> QED
  BY <1>5, <1>8, <1>9, <1>10 DEF Honest, Plannable, Owner, IsReminder

LEMMA InitHonest == Init => Honest
<1> SUFFICES ASSUME Init PROVE Honest
  OBVIOUS
<1>1. /\ \A j \in Jobs : job[j].now = 0 /\ job[j].todo = {} /\ job[j].inHand = {}
      /\ \A e \in Events : cache[e] = {} /\ fetched[e] = {}
      /\ pending = {} /\ clock = 0
      /\ \A k \in Keys : inbox[k] = 0
  BY DEF Init, AtRest
<1> QED
  BY <1>1 DEF Honest

LEMMA AlwaysHonest == Spec => [](Inductive /\ Honest)
BY InitInductive, InitHonest, StepInductive, HonestStep, PTL DEF Spec

-----------------------------------------------------------------------------
(* The properties *)

\* Two keys for the same thing come of a failover or of another date, and of nothing
\* else: not of a cache that is out of date, a restart, or another thread.
THEOREM RepeatsAreExplained == Spec => []RepeatsExplained
<1>1. ASSUME NEW by, NEW other, FirstNaming(by), FirstNaming(other) PROVE by = other
  <2>1. PICK p \in Providers : Naming[p] = by /\ \A q \in Providers : Rank[p] <= Rank[q]
    BY <1>1 DEF FirstNaming
  <2>2. PICK o \in Providers : Naming[o] = other /\ \A q \in Providers : Rank[o] <= Rank[q]
    BY <1>1 DEF FirstNaming
  <2>3. Rank[p] \in Int /\ Rank[o] \in Int
    BY RuntimeAssumption
  <2>4. Rank[p] = Rank[o]
    BY <2>1, <2>2, <2>3
  <2> QED
    BY <2>1, <2>2, <2>4, RuntimeAssumption
<1>2. Inductive /\ Honest => RepeatsExplained
  <2> SUFFICES ASSUME Honest, NEW k \in Keys, NEW i \in Keys, inbox[k] > 0, inbox[i] > 0,
                      Told(k, i.event, i.id.match, i.label),
                      k.event \notin failedOver, k.id.match \notin moved
               PROVE  k = i
    BY DEF RepeatsExplained
  <2>1. /\ k.event = i.event /\ k.id.match = i.id.match /\ k.label = i.label
        /\ TrueKey(k) /\ TrueKey(i)
    BY DEF Told, Honest
  <2>2. k.id.by = i.id.by
    BY <1>1, <2>1 DEF TrueKey, TrueName
  <2>3. k.id.day = i.id.day
    BY <2>1 DEF TrueKey
  <2>4. k.id = i.id
    BY <2>1, <2>2, <2>3 DEF Keys, Ids
  <2> QED
    BY <2>1, <2>4 DEF Keys
<1> QED
  BY <1>2, AlwaysHonest, PTL

\* Reminders wait for their lead window and results for their score, though the jobs plan
\* from caches and clocks of the past; only a moved match can be reminded of early.
THEOREM NoMessageIsEarly == Spec => NeverEarly
<1> DEFINE Early(k) ==
      IF IsReminder(k)
        THEN k.id.match \in moved \/ clock >= kickoff[k.id.match] - LeadTime[k.label]
        ELSE status[k.id.match] = "scored"
<1>1. Inductive /\ Honest /\ [Next]_vars => [\A k \in Keys : Reaches(k) => Early(k)]_vars
  <2> SUFFICES ASSUME Inductive, Honest, [Next]_vars, NEW k \in Keys, Reaches(k)
               PROVE  Early(k)
    OBVIOUS
  <2>0. TypeOK /\ Owed
    BY DEF Inductive
  <2>1. PICK j \in Jobs : \E a \in job[j].todo : Handling(j, a, "send") /\ a.key = k
    <3>1. inbox[k] \in Nat
      BY <2>0 DEF TypeOK
    <3> QED
      BY <3>1, StepShape DEF Shape, InboxShape, Reaches
  <2>2. PICK a \in job[j].todo : Handling(j, a, "send") /\ a.key = k
    BY <2>1
  <2>3. TrueAlert(a) /\ Plannable(j, a, job[j].now) /\ job[j].now <= clock /\ MayHold(j, k)
    BY <2>0, <2>2 DEF Honest, Owed
  <2>4. CASE ~ IsReminder(k)
    BY <2>2, <2>3, <2>4 DEF TrueAlert
  <2>5. CASE IsReminder(k) /\ k.id.match \notin moved
    <3>1. a.kickoff = kickoff[k.id.match]
      BY <2>2, <2>3, <2>5 DEF TrueAlert
    <3>2. /\ a.kickoff \in Int /\ job[j].now \in Int /\ clock \in Int
          /\ LeadTime[k.label] \in Int
      <4>1. job[j] \in JobState /\ clock \in Times
        BY <2>0 DEF TypeOK
      <4>2. a \in Alerts /\ job[j].now \in Times
        BY <4>1 DEF JobState
      <4>3. a.kickoff \in Kickoffs
        BY <4>2 DEF Alerts
      <4>4. LeadTime[k.label] \in Int
        BY <2>5, RuntimeAssumption DEF IsReminder
      <4> QED
        BY <4>1, <4>2, <4>3, <4>4, Instants
    <3>3. a.kickoff - LeadTime[k.label] <= job[j].now
      <4>1. CASE j = "notify"
        BY <2>2, <2>3, <2>5, <4>1 DEF Plannable
      <4>2. CASE j = "reminders"
        BY <2>2, <3>2, <4>2 DEF Handling, Classify
      <4> QED
        BY <2>3, <2>5, <4>1, <4>2 DEF MayHold
    <3> QED
      BY <2>3, <2>5, <3>1, <3>2, <3>3
  <2> QED
    BY <2>4, <2>5
<1>2. Spec => [][\A k \in Keys : Reaches(k) => Early(k)]_vars
  BY <1>1, AlwaysHonest, PTL DEF Spec
<1> QED
  BY <1>2 DEF NeverEarly

\* Nothing is sent in quiet hours and nothing dropped outside them, whichever thread
\* commits the row of the drop.
THEOREM QuietIsKept == Spec => QuietKept
<1> DEFINE Kept(k) ==
      /\ Reaches(k) /\ mode # "notify" => ~Quiet(job[Owner(k.label)].now)
      /\ k \in dropped' \ dropped =>
           quiet.behavior = "suppress" /\ Quiet(job[Owner(k.label)].now)
<1>1. Inductive /\ Honest /\ [Next]_vars => [\A k \in Keys : Kept(k)]_vars
  <2> SUFFICES ASSUME Inductive, Honest, [Next]_vars, NEW k \in Keys PROVE Kept(k)
    OBVIOUS
  <2>0. TypeOK /\ Owed /\ Flow /\ Shape
    BY StepShape DEF Inductive
  <2>1. ASSUME Reaches(k), mode # "notify" PROVE ~Quiet(job[Owner(k.label)].now)
    <3>1. inbox[k] \in Nat
      BY <2>0 DEF TypeOK
    <3>2. PICK j \in Jobs : \E a \in job[j].todo : Handling(j, a, "send") /\ a.key = k
      BY <2>0, <2>1, <3>1 DEF Shape, InboxShape, Reaches
    <3>3. PICK a \in job[j].todo : Handling(j, a, "send") /\ a.key = k
      BY <3>2
    <3>4. job[j].pc = "deliver" /\ MayHold(j, k)
      BY <2>0, <3>3 DEF Handling, Owed
    <3>5. j # "notify"
      BY <2>0, <2>1, <3>4 DEF Flow, TypeOK, RunJobs
    <3>6. Owner(k.label) = j
      BY <3>4, <3>5 DEF MayHold, Owner, IsReminder
    <3>7. ~ InQuietHours(LocalTime(job[j].now), quiet)
      BY <3>3, <3>5 DEF Handling, Classify
    <3>8. job[j].now \in Times /\ quiet \in Quiets
      BY <2>0 DEF TypeOK, JobState
    <3> QED
      BY <3>6, <3>7, <3>8, QuietIsCovered
  <2>2. ASSUME k \in dropped' \ dropped PROVE Suppressing(job[Owner(k.label)].now)
    <3>1. PICK r \in pending : r.key = k /\ r.how = "dropped"
      BY <2>0, <2>2 DEF Shape, CommitShared
    <3> QED
      BY <3>1 DEF Honest
  <2> QED
    BY <2>1, <2>2 DEF Suppressing
<1>2. Spec => [][\A k \in Keys : Kept(k)]_vars
  BY <1>1, AlwaysHonest, PTL DEF Spec
<1> QED
  BY <1>2 DEF QuietKept

-----------------------------------------------------------------------------
(* Only setbacks of its own delay an alert *)

\* The two ways an alert can be under way.
AtWork(e, m, l) ==
  LET mine == job[Owner(l)]
  IN  /\ mine.pc # "idle"
      /\ Timely(e, m, l, mine.now)
      /\ \/ e \in mine.left /\ IF l \in Leads THEN Cached(e, m) ELSE mine.pc = "gather"
         \/ \E a \in mine.todo : TellsOf(a.key, e, m, l) /\ a.kickoff = kickoff[m]
         \/ \E r \in mine.inHand : TellsOf(r.key, e, m, l)

InRow(e, m, l) == \E r \in pending : TellsOf(r.key, e, m, l)

LEMMA UnderwayParts == \A e, m, l : Underway(e, m, l) <=> AtWork(e, m, l) \/ InRow(e, m, l)
BY DEF Underway, AtWork, InRow

LEMMA OwnerJobs ==
  /\ \A l : Owner(l) \in {"reminders", "results"}
  /\ {"reminders", "results"} \subseteq Jobs
BY DEF Owner, Jobs

\* A step of one job leaves the others where they are.
LEMMA OneJobMoves ==
  ASSUME TypeOK, NEW i \in Jobs, JobStep(i) \/ StoreFails(i) \/ JobRaises(i)
  PROVE  \A j \in Jobs \ {i} : job'[j] = job[j]
<1>1. ASSUME NEW state, Becomes(i, state) PROVE \A j \in Jobs \ {i} : job'[j] = job[j]
  BY <1>1 DEF Becomes, TypeOK
<1>2. \E state : Becomes(i, state)
  <2>1. CASE StoreFails(i) \/ JobRaises(i)
    BY <2>1 DEF StoreFails, JobRaises, Abort, Over
  <2>2. CASE Start(i)
    BY <2>2 DEF Start
  <2>3. CASE i = "sync" /\ SyncStep
    BY <2>3 DEF SyncStep, FetchFixtures, FixturesFetched, InstallFixtures, SetSyncTime,
                SetFixtureCount, Plan, Over
  <2>4. CASE \/ i = "reminders" /\ \E e \in Events : PlanReminders(e)
             \/ i = "notify" /\ NotifyStep
             \/ GatherStep(i)
    BY <2>4 DEF PlanReminders, NotifyStep, PlanNotify, NotifyPlanned, GatherStep,
                GatherResults, ResultsGathered, Plan
  <2>5. CASE DeliveryStep(i)
    BY <2>5 DEF DeliveryStep, LeaveForLater, Drop, SendToConsole, SendAccepted, SendFailed,
                PassOver, TakeUp, Mark, Commit, FinishJob, Over
  <2> QED
    BY <2>1, <2>2, <2>3, <2>4, <2>5 DEF JobStep
<1> QED
  BY <1>1, <1>2

\* A sync installs what it fetched for some event.
Installs == \E e \in Events : InstallFixtures(e)

\* With another job under way, only a sync that installs touches the cache: a job that
\* ends does not take the program, and the cache, with it.
LEMMA CacheOutlives ==
  ASSUME Inductive, NEW i \in Jobs, NEW j \in Jobs \ {i}, job[j].pc # "idle",
         JobStep(i) \/ StoreFails(i) \/ JobRaises(i)
  PROVE  cache' = cache \/ Installs
<1>1. ASSUME Over(i), job[i].pc # "idle" PROVE cache' = cache
  <2>1. i \in ready /\ j \in ready
    BY <1>1 DEF Inductive, Flow
  <2>2. mode = "run"
    BY <2>1 DEF Inductive, Flow, TypeOK
  <2>3. ready' # {}
    BY <1>1, <2>2 DEF Over, ReadyAfter, RunJobs
  <2> QED
    BY <1>1, <2>3 DEF Over
<1>2. CASE StoreFails(i) \/ JobRaises(i)
  BY <1>1, <1>2 DEF StoreFails, JobRaises, Abort
<1>3. CASE JobStep(i)
  BY <1>1, <1>3
     DEF JobStep, Start, SyncStep, Installs, FetchFixtures, FixturesFetched, SetSyncTime,
         SetFixtureCount, PlanReminders, NotifyStep, PlanNotify, NotifyPlanned, GatherStep,
         GatherResults, ResultsGathered, DeliveryStep, LeaveForLater, Drop, SendToConsole,
         SendAccepted, SendFailed, Handling, Mark, Commit, FinishJob
<1> QED
  BY <1>2, <1>3

\* A row that was written stays in the open transaction until that is committed or fails.
LEMMA RowFate ==
  ASSUME Inductive, [Next]_vars
  PROVE  pending \subseteq pending' \/ CommitShared \/ Crash \/ \E i \in Jobs : StoreFails(i)
<1>1. CASE WorldStep \/ (\E program \in {"run", "once", "notify"} : Launch(program))
             \/ UNCHANGED vars
  BY <1>1 DEF WorldStep, Tick, Postpone, FullTime, ScoreKnown, SetMatchStatus, Reschedule,
              World, Launch, vars, ledgerVars
<1>2. ASSUME NEW j \in Jobs, JobRaises(j) PROVE pending \subseteq pending'
  BY <1>2 DEF JobRaises, ledgerVars
<1>3. ASSUME NEW j \in Jobs, JobStep(j) PROVE pending \subseteq pending' \/ CommitShared
  BY <1>3
     DEF JobStep, Start, SyncStep, FetchFixtures, FixturesFetched, InstallFixtures,
         SetSyncTime, SetFixtureCount, PlanReminders, NotifyStep, PlanNotify, NotifyPlanned,
         GatherStep, GatherResults, ResultsGathered, DeliveryStep, LeaveForLater, Drop,
         SendToConsole, SendAccepted, SendFailed, Handling, Mark, Commit, FinishJob,
         ledgerVars
<1> QED
  BY <1>1, <1>2, <1>3 DEF Next

LEMMA RowSettles ==
  ASSUME Inductive, [Next]_vars, NEW e \in Events, NEW m \in Matches, NEW l \in Labels,
         InRow(e, m, l), kickoff'[m] = kickoff[m]
  PROVE  InRow(e, m, l)' \/ Recorded(e, m, l)' \/ Setback(e, m, l)
<1>1. \A k : TellsOf(k, e, m, l) => TellsOf(k, e, m, l)'
  BY DEF TellsOf, Told
<1>2. CASE pending \subseteq pending'
  BY <1>1, <1>2 DEF InRow
<1>3. CASE CommitShared
  BY <1>1, <1>3 DEF InRow, CommitShared, PendingKeys, Recorded
<1>4. CASE Crash \/ \E i \in Jobs : StoreFails(i)
  BY <1>4 DEF InRow, Setback
<1> QED
  BY <1>2, <1>3, <1>4, RowFate

\* What the reminders job has planned is of events it is through with.
Behind ==
  LET mine == job["reminders"]
  IN  /\ \A a \in mine.todo : a.key.event \notin mine.left
      /\ \A r \in mine.inHand : r.key.event \notin mine.left

LEMMA BehindStep == Inductive /\ Behind /\ [Next]_vars => Behind'
<1> SUFFICES ASSUME Inductive, Behind, [Next]_vars PROVE Behind'
  OBVIOUS
<1> DEFINE j == "reminders"
           mine == job[j]
<1>0. j \in Jobs /\ mine \in JobState /\ TypeOK
  BY DEF Jobs, Inductive, TypeOK
<1>1. ASSUME job'[j] = mine PROVE Behind'
  BY <1>1 DEF Behind
<1>2. ASSUME job'[j].todo = {}, job'[j].inHand = {} PROVE Behind'
  BY <1>2 DEF Behind
<1>3. ASSUME NEW state, Becomes(j, state) PROVE job'[j] = state
  BY <1>0, <1>3 DEF Becomes, TypeOK
<1>4. CASE WorldStep \/ (\E program \in {"run", "once", "notify"} : Launch(program))
             \/ UNCHANGED vars
  BY <1>1, <1>4 DEF WorldStep, Tick, Postpone, FullTime, ScoreKnown, SetMatchStatus,
                    Reschedule, World, Launch, vars
<1>5. ASSUME NEW i \in Jobs, i # j, JobStep(i) \/ StoreFails(i) \/ JobRaises(i)
      PROVE  Behind'
  BY <1>0, <1>1, <1>5, OneJobMoves
<1>6. CASE Crash
  BY <1>0, <1>2, <1>6 DEF Crash, AtRest
<1>7. CASE StoreFails(j) \/ JobRaises(j)
  <2>1. Becomes(j, [mine EXCEPT !.pc = "deliver", !.todo = {}, !.inHand = {}])
    BY <1>7 DEF StoreFails, JobRaises, Abort
  <2> QED
    BY <1>0, <1>2, <1>3, <2>1 DEF JobState
<1>8. CASE JobStep(j)
  <2>1. CASE Start(j)
    BY <1>2, <1>3, <2>1 DEF Start, AtRest
  <2>2. ASSUME NEW e \in Events, PlanReminders(e) PROVE Behind'
    <3> DEFINE alerts == RemindersFor(e, cache[e], mine.now)
    <3>1. Planning(j, e, alerts) /\ mine.pc = "deliver" /\ mine.todo = {}
      BY <2>2, PlanRemindersPlans DEF PlanReminders
    <3>2. \A a \in alerts : a.key.event = e
      BY <1>0, <3>1, PlanningFacts DEF Inductive
    <3>3. mine.inHand = {}
      BY <1>0, <3>1 DEF Inductive, Flow
    <3>4. job'[j] = [mine EXCEPT !.left = mine.left \ {e}, !.todo = mine.todo \cup Unsent(alerts)]
      BY <1>3, <3>1 DEF Planning, Plan
    <3>5. job'[j].todo = Unsent(alerts) /\ job'[j].left = mine.left \ {e} /\ job'[j].inHand = {}
      <4> DEFINE new == Unsent(alerts)
      <4> HIDE DEF new
      <4>1. job'[j] = [mine EXCEPT !.left = mine.left \ {e}, !.todo = mine.todo \cup new]
        BY <3>4 DEF new
      <4> QED
        BY <1>0, <3>1, <3>3, <4>1 DEF JobState, new
    <3> HIDE DEF alerts
    <3> QED
      BY <3>2, <3>5 DEF Behind, Unsent
  <2>3. CASE DeliveryStep(j)
    <3>1. ASSUME job'[j].left = mine.left, job'[j].todo \subseteq mine.todo,
                 \A r \in job'[j].inHand :
                   r \in mine.inHand \/ \E a \in mine.todo : r.key = a.key
          PROVE  Behind'
      BY <3>1 DEF Behind
    <3>2. ASSUME NEW a \in mine.todo, PassOver(j, a) PROVE Behind'
      <4>1. Becomes(j, [mine EXCEPT !.todo = mine.todo \ {a}])
        BY <3>2 DEF PassOver
      <4> QED
        BY <1>0, <1>3, <3>1, <4>1 DEF JobState
    <3>3. ASSUME NEW a \in mine.todo, NEW how, TakeUp(j, a, how) PROVE Behind'
      <4> DEFINE state == [mine EXCEPT !.pc = "mark", !.todo = mine.todo \ {a},
                                       !.inHand = {[key |-> a.key, how |-> how]}]
      <4>1. job'[j] = state
        BY <1>3, <3>3 DEF TakeUp
      <4>2. /\ state.left = mine.left /\ state.todo = mine.todo \ {a}
            /\ state.inHand = {[key |-> a.key, how |-> how]}
        BY <1>0 DEF JobState
      <4> HIDE DEF state
      <4>3. \A r \in state.inHand : r.key = a.key
        BY <4>2
      <4> QED
        BY <3>1, <4>1, <4>2, <4>3
    <3>4. CASE Mark(j)
      <4>1. Becomes(j, [mine EXCEPT !.pc = "commit", !.inHand = {}])
        BY <3>4 DEF Mark
      <4> QED
        BY <1>0, <1>3, <3>1, <4>1 DEF JobState
    <3>5. CASE Commit(j)
      <4>1. Becomes(j, [mine EXCEPT !.pc = "deliver"])
        BY <3>5 DEF Commit
      <4> QED
        BY <1>0, <1>3, <3>1, <4>1 DEF JobState
    <3>6. CASE FinishJob(j)
      BY <1>2, <1>3, <3>6 DEF FinishJob, Over, AtRest
    <3> QED
      BY <2>3, <3>2, <3>3, <3>4, <3>5, <3>6
         DEF DeliveryStep, LeaveForLater, Drop, SendToConsole, SendAccepted, SendFailed
  <2>4. ~GatherStep(j)
    BY <1>0 DEF Inductive, Flow, StepsOf, GatherStep, GatherResults, ResultsGathered
  <2> QED
    BY <1>8, <2>1, <2>2, <2>3, <2>4 DEF JobStep
<1> QED
  BY <1>4, <1>5, <1>6, <1>7, <1>8 DEF Next

\* A watched match, the alert of it that is looked at, and a step that leaves its kickoff.
\* As long as the job keeps the alert in sight it stays at work on it.
LEMMA StaysAtWork ==
  ASSUME Onward, NEW e \in Events, NEW m \in Matches, NEW l \in Labels,
         AtWork(e, m, l), kickoff'[m] = kickoff[m],
         job'[Owner(l)].pc # "idle", job'[Owner(l)].now = job[Owner(l)].now,
         \/ e \in job'[Owner(l)].left
            /\ IF l \in Leads THEN Cached(e, m)' ELSE job'[Owner(l)].pc = "gather"
         \/ \E a \in job'[Owner(l)].todo : TellsOf(a.key, e, m, l) /\ a.kickoff = kickoff[m]
         \/ \E r \in job'[Owner(l)].inHand : TellsOf(r.key, e, m, l)
  PROVE  AtWork(e, m, l)'
<1>1. \A t : Timely(e, m, l, t) => Timely(e, m, l, t)'
  BY DEF Timely, Onward, Quiet
<1>2. \A k : TellsOf(k, e, m, l) => TellsOf(k, e, m, l)'
  BY DEF TellsOf, Told
<1> QED
  BY <1>1, <1>2 DEF AtWork

\* The job is not disturbed by a step that leaves it and the cache alone.
LEMMA Undisturbed ==
  ASSUME Inductive, Onward, NEW e \in Events, NEW m \in Matches, NEW l \in Labels,
         AtWork(e, m, l), kickoff'[m] = kickoff[m], job'[Owner(l)] = job[Owner(l)],
         cache' = cache \/ Installs
  PROVE  AtWork(e, m, l)' \/ Setback(e, m, l)
<1>1. CASE l \in Leads /\ InstallFixtures(e) /\ ~Cached(e, m)'
  BY <1>1 DEF Setback
<1>2. CASE ~(l \in Leads /\ InstallFixtures(e) /\ ~Cached(e, m)')
  <2>1. InstallFixtures(e) \/ cache'[e] = cache[e]
    BY DEF Installs, InstallFixtures, Inductive, TypeOK
  <2>2. l \in Leads /\ Cached(e, m) => Cached(e, m)'
    BY <1>2, <2>1 DEF Cached
  <2> QED
    BY <2>2, StaysAtWork DEF AtWork
<1> QED
  BY <1>1, <1>2

\* An alert that is timely is sent when the job comes to it.
LEMMA TimelyIsSent ==
  ASSUME Inductive, NEW e \in Events, NEW m \in Matches, NEW l \in Labels \ {"shock"},
         Timely(e, m, l, job[Owner(l)].now), NEW a \in job[Owner(l)].todo,
         TellsOf(a.key, e, m, l), a.kickoff = kickoff[m]
  PROVE  Classify(Owner(l), a) = "send"
<1> DEFINE now == job[Owner(l)].now
<1>1. now \in Times /\ quiet \in Quiets
  BY OwnerJobs DEF Inductive, TypeOK, JobState
<1>2. ~InQuietHours(LocalTime(now), quiet)
  BY <1>1, QuietIsCovered DEF Timely
<1>3. CASE l \in Leads
  <2>1. Owner(l) = "reminders" /\ a.key.label = l
    BY <1>3 DEF Owner, TellsOf, Told
  <2>2. now \in kickoff[m] - LeadTime[l] .. kickoff[m] - 1
    BY <1>3, RuntimeAssumption DEF Timely
  <2>3. now \in Int /\ kickoff[m] \in Int /\ LeadTime[l] \in Int
    BY <1>1, <1>3, Instants, RuntimeAssumption DEF Inductive, TypeOK
  <2>4. ~(a.kickoff <= now) /\ ~(a.kickoff - LeadTime[a.key.label] > now)
    BY <2>1, <2>2, <2>3
  <2> QED
    BY <1>2, <2>1, <2>4 DEF Classify
<1>4. CASE l \notin Leads
  BY <1>2, <1>4 DEF Owner, Classify
<1> QED
  BY <1>3, <1>4

\* ... and it is among the alerts that are planned for its event.
LEMMA TimelyIsPlanned ==
  ASSUME Inductive, NEW e \in Events, NEW m \in Matches, NEW l \in Labels \ {"shock"},
         NEW alerts,
         Timely(e, m, l, job[Owner(l)].now),
         \/ /\ l \in Leads /\ Cached(e, m)
            /\ alerts = RemindersFor(e, cache[e], job[Owner(l)].now)
         \/ /\ l \notin Leads
            /\ \E p \in Providers : \E upsets :
                 alerts = ResultAlertsFor(e, p, ResultsFor(e, job[Owner(l)].now), upsets)
  PROVE  \E a \in alerts : TellsOf(a.key, e, m, l) /\ a.kickoff = kickoff[m]
<1> DEFINE now == job[Owner(l)].now
<1>1. \A by : LET a == AlertFor(e, m, by, kickoff[m], l)
              IN  TellsOf(a.key, e, m, l) /\ a.kickoff = kickoff[m]
  BY DEF AlertFor, StableId, TellsOf, Told
<1>2. now \in Int /\ kickoff[m] \in Int
  BY Instants, OwnerJobs, RuntimeAssumption DEF Inductive, TypeOK, JobState
<1>3. CASE l \in Leads
  <2>1. PICK f \in cache[e] : f.match = m /\ f.kickoff = kickoff[m]
    BY <1>3 DEF Cached
  <2>2. now < kickoff[m] /\ "reminders" \in Wants[e]
    <3>1. now \in kickoff[m] - LeadTime[l] .. kickoff[m] - 1 /\ "reminders" \in Wants[e]
      BY <1>3, RuntimeAssumption DEF Timely
    <3>2. LeadTime[l] \in Int
      BY <1>3, RuntimeAssumption
    <3> QED
      BY <1>2, <3>1, <3>2
  <2>3. AlertFor(e, f.match, f.by, f.kickoff, l) \in alerts
    BY <1>3, <2>1, <2>2 DEF RemindersFor
  <2> QED
    BY <1>1, <2>1, <2>3
<1>4. CASE l \notin Leads
  <2>1. l = "final"
    BY <1>4 DEF Labels
  <2>2. PICK p \in Providers : \E upsets :
          alerts = ResultAlertsFor(e, p, ResultsFor(e, now), upsets)
    BY <1>4
  <2>3. m \in ResultsFor(e, now) /\ "finals" \in Wants[e]
    BY <1>4, <2>1 DEF Timely, ResultsFor
  <2>4. AlertFor(e, m, Naming[p], kickoff[m], "final") \in alerts
    BY <2>2, <2>3 DEF ResultAlertsFor
  <2> QED
    BY <1>1, <2>1, <2>4
<1> QED
  BY <1>3, <1>4

LEMMA HandlingSettles ==
  ASSUME Inductive, Onward, NEW e \in Events, NEW m \in Matches, NEW l \in Labels \ {"shock"},
         AtWork(e, m, l), kickoff'[m] = kickoff[m], NEW a \in job[Owner(l)].todo,
         \/ LeaveForLater(Owner(l), a) \/ Drop(Owner(l), a) \/ SendToConsole(Owner(l), a)
         \/ SendAccepted(Owner(l), a) \/ SendFailed(Owner(l), a)
  PROVE  AtWork(e, m, l)' \/ Setback(e, m, l)
<1> DEFINE j == Owner(l)
           mine == job[j]
           Tells(b) == TellsOf(b.key, e, m, l) /\ b.kickoff = kickoff[m]
<1>1. /\ j \in Jobs /\ mine \in JobState /\ mine.pc = "deliver" /\ cache' = cache
      /\ j = "reminders" <=> l \in Leads
  BY OwnerJobs DEF Inductive, TypeOK, LeaveForLater, Drop, SendToConsole, SendAccepted,
                   SendFailed, Handling, Owner
<1>2. mine.inHand = {}
  BY <1>1 DEF Inductive, Flow
<1>3. PICK how : PassOver(j, a) \/ TakeUp(j, a, how)
  BY DEF LeaveForLater, Drop, SendToConsole, SendAccepted, SendFailed
<1>4. /\ job'[j].now = mine.now /\ job'[j].left = mine.left
      /\ job'[j].todo = mine.todo \ {a} /\ job'[j].pc # "idle"
  <2>1. CASE PassOver(j, a)
    BY <1>1, <2>1 DEF PassOver, Becomes, Inductive, TypeOK, JobState
  <2>2. CASE TakeUp(j, a, how)
    BY <1>1, <2>2 DEF TakeUp, Becomes, Inductive, TypeOK, JobState
  <2> QED
    BY <1>3, <2>1, <2>2
<1>5. CASE l \in Leads /\ e \in mine.left /\ Cached(e, m)
  BY <1>1, <1>4, <1>5, StaysAtWork DEF Cached
<1>6. CASE \E b \in mine.todo \ {a} : Tells(b)
  BY <1>4, <1>6, StaysAtWork
<1>7. CASE Tells(a)
  <2>1. Classify(j, a) = "send"
    BY <1>7, TimelyIsSent DEF AtWork
  <2>2. CASE SendToConsole(j, a) \/ SendFailed(j, a)
    BY <1>7, <2>2 DEF Setback
  <2>3. CASE SendAccepted(j, a)
    <3>1. job'[j].inHand = {[key |-> a.key, how |-> "sent"]}
      BY <1>1, <2>3 DEF SendAccepted, TakeUp, Becomes, Inductive, TypeOK, JobState
    <3>2. \E r \in job'[j].inHand : TellsOf(r.key, e, m, l)
      BY <1>7, <3>1
    <3> QED
      BY <1>4, <3>2, StaysAtWork
  <2> QED
    BY <2>1, <2>2, <2>3 DEF LeaveForLater, Drop, Handling
<1> QED
  BY <1>1, <1>2, <1>5, <1>6, <1>7 DEF AtWork

LEMMA PlanningSettles ==
  ASSUME Inductive, Onward, NEW e \in Events, NEW m \in Matches, NEW l \in Labels \ {"shock"},
         AtWork(e, m, l), kickoff'[m] = kickoff[m], NEW x \in Events,
         \/ Owner(l) = "reminders" /\ PlanReminders(x)
         \/ \E down \in SUBSET Providers : GatherResults(Owner(l), x, down)
  PROVE  AtWork(e, m, l)' \/ InRow(e, m, l)' \/ Recorded(e, m, l)' \/ Setback(e, m, l)
<1> DEFINE j == Owner(l)
           mine == job[j]
           Tells(b) == TellsOf(b.key, e, m, l) /\ b.kickoff = kickoff[m]
           Answered(alerts) ==
             \/ l \in Leads /\ alerts = RemindersFor(x, cache[x], mine.now)
             \/ /\ l \notin Leads
                /\ \E p \in Providers : \E upsets :
                     alerts = ResultAlertsFor(x, p, ResultsFor(x, mine.now), upsets)
<1>1. /\ j \in Jobs /\ mine \in JobState
      /\ UNCHANGED <<cache, ledgerVars>>
      /\ j = "reminders" <=> l \in Leads
      /\ j = "reminders" => mine.pc # "gather"
      /\ mine.pc # "idle"
  BY OwnerJobs DEF Inductive, TypeOK, PlanReminders, GatherResults, Owner, Flow, StepsOf, Jobs
<1>2. PICK alerts :
        /\ Plan(j, x, alerts)
        /\ \/ Answered(alerts)
           \/ l \notin Leads /\ GatherResults(j, x, Providers)
  BY <1>1 DEF PlanReminders, GatherResults
<1> DEFINE new == Unsent(alerts)
<1>3. /\ job'[j].now = mine.now /\ job'[j].left = mine.left \ {x} /\ job'[j].pc = mine.pc
      /\ job'[j].todo = mine.todo \cup new /\ job'[j].inHand = mine.inHand
  <2> HIDE DEF new
  <2>1. job'[j] = [mine EXCEPT !.left = mine.left \ {x}, !.todo = mine.todo \cup new]
    BY <1>1, <1>2 DEF Plan, Becomes, Inductive, TypeOK, new
  <2> QED
    BY <1>1, <2>1 DEF JobState
<1>4. CASE (\E b \in mine.todo : Tells(b)) \/ \E r \in mine.inHand : TellsOf(r.key, e, m, l)
  BY <1>1, <1>3, <1>4, StaysAtWork
<1>5. CASE e \in mine.left /\ IF l \in Leads THEN Cached(e, m) ELSE mine.pc = "gather"
  <2>1. CASE x # e
    BY <1>1, <1>3, <1>5, <2>1, StaysAtWork DEF Cached
  <2>2. CASE x = e /\ l \notin Leads /\ GatherResults(j, x, Providers)
    BY <2>2 DEF Setback
  <2>3. CASE x = e /\ Answered(alerts)
    <3>1. PICK a \in alerts : Tells(a)
      BY <1>5, <2>3, TimelyIsPlanned DEF AtWork
    <3>2. CASE a.key \in sent
      BY <1>1, <3>1, <3>2 DEF Recorded, TellsOf, Told, ledgerVars
    <3>3. CASE a.key \in PendingKeys
      BY <1>1, <3>1, <3>3 DEF InRow, PendingKeys, TellsOf, Told, ledgerVars
    <3>4. CASE a.key \notin sent \cup PendingKeys
      <4>1. a \in job'[j].todo
        BY <1>3, <3>4 DEF Unsent
      <4> QED
        BY <1>1, <1>3, <3>1, <4>1, StaysAtWork
    <3> QED
      BY <3>2, <3>3, <3>4
  <2> QED
    BY <1>2, <2>1, <2>2, <2>3
<1> QED
  BY <1>4, <1>5 DEF AtWork

LEMMA OwnStepSettles ==
  ASSUME Inductive, Onward, NEW e \in Events, NEW m \in Matches, NEW l \in Labels \ {"shock"},
         AtWork(e, m, l), kickoff'[m] = kickoff[m], JobStep(Owner(l))
  PROVE  AtWork(e, m, l)' \/ InRow(e, m, l)' \/ Recorded(e, m, l)' \/ Setback(e, m, l)
<1> DEFINE j == Owner(l)
           mine == job[j]
<1>1. /\ j \in Jobs /\ mine \in JobState /\ mine.pc # "idle" /\ j \notin {"sync", "notify"}
      /\ j = "reminders" <=> l \in Leads
      /\ mine.pc # "mark" => mine.inHand = {}
  BY OwnerJobs DEF Inductive, TypeOK, AtWork, Owner, Flow
<1>2. \A k : TellsOf(k, e, m, l) => TellsOf(k, e, m, l)'
  BY DEF TellsOf, Told
<1>3. ASSUME NEW state, Becomes(j, state) PROVE job'[j] = state
  BY <1>1, <1>3 DEF Becomes, Inductive, TypeOK
<1>4. CASE \/ j = "reminders" /\ \E x \in Events : PlanReminders(x)
           \/ \E x \in Events, down \in SUBSET Providers : GatherResults(j, x, down)
  BY <1>4, PlanningSettles
<1>5. CASE ResultsGathered(j)
  <2>1. /\ mine.left = {} /\ cache' = cache
        /\ job'[j] = [mine EXCEPT !.pc = "deliver"]
    BY <1>3, <1>5 DEF ResultsGathered
  <2>2. /\ job'[j].now = mine.now /\ job'[j].pc = "deliver"
        /\ job'[j].todo = mine.todo /\ job'[j].inHand = mine.inHand
    BY <1>1, <2>1 DEF JobState
  <2>3. \/ \E a \in mine.todo : TellsOf(a.key, e, m, l) /\ a.kickoff = kickoff[m]
        \/ \E r \in mine.inHand : TellsOf(r.key, e, m, l)
    BY <2>1 DEF AtWork
  <2> QED
    BY <2>2, <2>3, StaysAtWork
<1>6. CASE \E a \in mine.todo : LeaveForLater(j, a) \/ Drop(j, a) \/ SendToConsole(j, a)
                                \/ SendAccepted(j, a) \/ SendFailed(j, a)
  BY <1>6, HandlingSettles
<1>7. CASE Mark(j)
  <2>1. /\ job'[j] = [mine EXCEPT !.pc = "commit", !.inHand = {}] /\ mine.pc = "mark"
        /\ pending' = pending \cup mine.inHand /\ cache' = cache
    BY <1>3, <1>7 DEF Mark
  <2>2. /\ job'[j].now = mine.now /\ job'[j].left = mine.left /\ job'[j].todo = mine.todo
        /\ job'[j].pc = "commit"
    BY <1>1, <2>1 DEF JobState
  <2>3. CASE \E r \in mine.inHand : TellsOf(r.key, e, m, l)
    BY <1>2, <2>1, <2>3 DEF InRow
  <2>4. CASE ~(\E r \in mine.inHand : TellsOf(r.key, e, m, l))
    BY <2>1, <2>2, <2>4, StaysAtWork DEF AtWork, Cached
  <2> QED
    BY <2>3, <2>4
<1>8. CASE Commit(j)
  <2>1. /\ job'[j] = [mine EXCEPT !.pc = "deliver"] /\ mine.pc = "commit" /\ cache' = cache
    BY <1>3, <1>8 DEF Commit
  <2>2. /\ job'[j].now = mine.now /\ job'[j].left = mine.left /\ job'[j].todo = mine.todo
        /\ job'[j].pc = "deliver" /\ mine.inHand = {}
    BY <1>1, <2>1 DEF JobState
  <2> QED
    BY <2>1, <2>2, StaysAtWork DEF AtWork, Cached
<1>9. ~FinishJob(j) /\ ~Start(j)
  BY <1>1 DEF FinishJob, Start, AtWork
<1> QED
  BY <1>1, <1>4, <1>5, <1>6, <1>7, <1>8, <1>9 DEF JobStep, GatherStep, DeliveryStep

LEMMA AbortSettles ==
  ASSUME Inductive, Behind, Onward, NEW e \in Events, NEW m \in Matches,
         NEW l \in Labels \ {"shock"}, AtWork(e, m, l), kickoff'[m] = kickoff[m],
         StoreFails(Owner(l)) \/ JobRaises(Owner(l))
  PROVE  AtWork(e, m, l)' \/ Setback(e, m, l)
<1> DEFINE mine == job["reminders"]
<1>1. CASE ~(l \in Leads /\ e \in mine.left)
  BY <1>1 DEF Setback, Owner
<1>2. CASE l \in Leads /\ e \in mine.left
  <2>1. Owner(l) = "reminders" /\ mine \in JobState /\ "reminders" \in Jobs
    BY <1>2 DEF Owner, Inductive, TypeOK, Jobs
  <2>2. /\ job'["reminders"] = [mine EXCEPT !.pc = "deliver", !.todo = {}, !.inHand = {}]
        /\ cache' = cache
    BY <2>1 DEF StoreFails, JobRaises, Abort, Becomes, Inductive, TypeOK
  <2>3. job'["reminders"].pc = "deliver" /\ job'["reminders"].left = mine.left
        /\ job'["reminders"].now = mine.now
    BY <2>1, <2>2 DEF JobState
  <2>4. Cached(e, m)
    BY <1>2, <2>1 DEF AtWork, Behind, TellsOf, Told
  <2> QED
    BY <1>2, <2>1, <2>2, <2>3, <2>4, StaysAtWork DEF Cached
<1> QED
  BY <1>1, <1>2

LEMMA WorkSettles ==
  ASSUME Inductive, Behind, [Next]_vars, NEW e \in Events, NEW m \in Matches,
         NEW l \in Labels \ {"shock"}, AtWork(e, m, l), kickoff'[m] = kickoff[m]
  PROVE  AtWork(e, m, l)' \/ InRow(e, m, l)' \/ Recorded(e, m, l)' \/ Setback(e, m, l)
<1> DEFINE j == Owner(l)
<1>0. Onward /\ j \in Jobs /\ job[j].pc # "idle" /\ TypeOK
  BY StepShape, OwnerJobs DEF Shape, AtWork, Inductive
<1>1. CASE WorldStep \/ (\E program \in {"run", "once", "notify"} : Launch(program))
             \/ UNCHANGED vars
  <2>1. UNCHANGED <<job, cache>>
    BY <1>1 DEF WorldStep, Tick, Postpone, FullTime, ScoreKnown, SetMatchStatus, Reschedule,
                World, Launch, vars
  <2> QED
    BY <1>0, <2>1, Undisturbed
<1>2. CASE Crash
  BY <1>2 DEF Setback
<1>3. ASSUME NEW i \in Jobs \ {j}, JobStep(i) \/ StoreFails(i) \/ JobRaises(i)
      PROVE  AtWork(e, m, l)' \/ Setback(e, m, l)
  <2>1. job'[j] = job[j]
    BY <1>0, <1>3, OneJobMoves
  <2>2. cache' = cache \/ Installs
    BY <1>0, <1>3, CacheOutlives
  <2> QED
    BY <1>0, <2>1, <2>2, Undisturbed
<1>4. CASE JobStep(j)
  BY <1>0, <1>4, OwnStepSettles
<1>5. CASE StoreFails(j) \/ JobRaises(j)
  BY <1>0, <1>5, AbortSettles
<1> QED
  BY <1>1, <1>2, <1>3, <1>4, <1>5 DEF Next

\* A job that begins looks at the clock and has every event before it.
LEMMA BeginsAtWork ==
  ASSUME Inductive, [Next]_vars, NEW e \in Events, NEW m \in Matches,
         NEW l \in Labels \ {"shock"},
         job[Owner(l)].pc = "idle", job'[Owner(l)].pc # "idle",
         Due(e, m, l), l \in Leads => Cached(e, m)
  PROVE  AtWork(e, m, l)'
<1> DEFINE j == Owner(l)
<1>0. j \in Jobs /\ TypeOK /\ (j = "reminders" <=> l \in Leads) /\ j \notin {"sync", "notify"}
  BY OwnerJobs DEF Inductive, Owner
<1>1. Start(j)
  <2>1. ~ \/ WorldStep
          \/ \E program \in {"run", "once", "notify"} : Launch(program)
          \/ Crash
          \/ UNCHANGED vars
    BY <1>0 DEF WorldStep, Tick, Postpone, FullTime, ScoreKnown, SetMatchStatus, Reschedule,
                World, Launch, vars, Crash, AtRest
  <2>2. PICK i \in Jobs : JobStep(i) \/ StoreFails(i) \/ JobRaises(i)
    BY <2>1 DEF Next
  <2>3. i = j
    BY <1>0, <2>2, OneJobMoves
  <2>4. ~StoreFails(j) /\ ~JobRaises(j)
    BY DEF StoreFails, JobRaises
  <2>5. job[j].todo = {}
    BY <1>0 DEF Inductive, Flow
  <2> QED
    BY <1>0, <2>2, <2>3, <2>4, <2>5
       DEF JobStep, PlanReminders, GatherStep, GatherResults, ResultsGathered, DeliveryStep,
           Mark, Commit, FinishJob
<1>2. /\ job'[j] = [AtRest EXCEPT !.pc = FirstStep[j], !.now = clock, !.left = Events]
      /\ UNCHANGED <<worldVars, cache>>
  BY <1>0, <1>1 DEF Start, Becomes, TypeOK
<1>3. /\ job'[j].now = clock /\ job'[j].left = Events
      /\ l \notin Leads => job'[j].pc = "gather"
  BY <1>0, <1>2, OwnerJobs DEF AtRest, FirstStep
<1>4. Timely(e, m, l, clock) /\ \A t : Timely(e, m, l, t) => Timely(e, m, l, t)'
  BY <1>2 DEF Due, Timely, Quiet, worldVars
<1>5. l \in Leads => Cached(e, m)'
  BY <1>2 DEF Cached, worldVars
<1> QED
  BY <1>3, <1>4, <1>5 DEF AtWork

\* The safety half of OnTime, for any numbers of events, matches, providers and faults:
\* what a job has begun it carries to the ledger, unless one of the named setbacks of the
\* very alert comes between.
THEOREM OnlyOwnSetbacksDelay == Spec => OnlySetbacksDelay
<1> DEFINE Settles ==
      \A e \in Events, m \in Matches, l \in Labels \ {"shock"} :
        \/ Underway(e, m, l)
        \/ /\ job[Owner(l)].pc = "idle" /\ job'[Owner(l)].pc # "idle"
           /\ Due(e, m, l)
           /\ l \in Leads => Cached(e, m)
        => Underway(e, m, l)' \/ Recorded(e, m, l)' \/ Setback(e, m, l)
<1>1. Init => Behind
  BY DEF Init, Behind, AtRest, Jobs
<1>2. ASSUME Inductive, Behind, [Next]_vars PROVE Settles
  <2> SUFFICES ASSUME NEW e \in Events, NEW m \in Matches, NEW l \in Labels \ {"shock"},
                      \/ Underway(e, m, l)
                      \/ /\ job[Owner(l)].pc = "idle" /\ job'[Owner(l)].pc # "idle"
                         /\ Due(e, m, l)
                         /\ l \in Leads => Cached(e, m)
               PROVE  Underway(e, m, l)' \/ Recorded(e, m, l)' \/ Setback(e, m, l)
    OBVIOUS
  <2>1. Underway(e, m, l)' <=> AtWork(e, m, l)' \/ InRow(e, m, l)'
    BY DEF Underway, AtWork, InRow
  <2>2. CASE kickoff'[m] # kickoff[m]
    BY <2>2 DEF Setback
  <2>3. CASE kickoff'[m] = kickoff[m] /\ AtWork(e, m, l)
    BY <1>2, <2>1, <2>3, WorkSettles
  <2>4. CASE kickoff'[m] = kickoff[m] /\ InRow(e, m, l)
    BY <1>2, <2>1, <2>4, RowSettles
  <2>5. CASE /\ job[Owner(l)].pc = "idle" /\ job'[Owner(l)].pc # "idle"
             /\ Due(e, m, l)
             /\ l \in Leads => Cached(e, m)
    BY <1>2, <2>1, <2>5, BeginsAtWork
  <2> QED
    BY <2>2, <2>3, <2>4, <2>5, UnderwayParts
<1>3. Inductive /\ Behind /\ [Next]_vars => [Settles]_vars
  BY <1>2
<1> QED
  BY <1>1, <1>3, BehindStep, AlwaysInductive, PTL DEF Spec, OnlySetbacksDelay


-----------------------------------------------------------------------------
(* Why the jobs end: their remaining work only shrinks *)

Shrinks(rest, before) == rest \subseteq before /\ rest # before

Stage(pc) ==
  CASE pc = "fetch" -> 1 [] pc = "gather" -> 2 [] pc = "install" -> 4 [] pc = "count" -> 5
    [] OTHER -> 3
Settling(pc) == CASE pc = "mark" -> 1 [] pc = "commit" -> 2 [] OTHER -> 3

\* Of two states of a job, `after' has less before it: it is in a later stage, or has fewer
\* events left, or as many and fewer alerts to handle, or is further with recording one.
LessToDo(after, before) ==
  \/ Stage(before.pc) < Stage(after.pc)
  \/ /\ Stage(before.pc) = Stage(after.pc)
     /\ \/ Shrinks(after.left, before.left)
        \/ after.left = before.left /\ Shrinks(after.todo, before.todo)
        \/ /\ after.left = before.left /\ after.todo = before.todo
           /\ Settling(before.pc) < Settling(after.pc)

\* A step of a job that is under way, other than its last, leaves it less to do, and only
\* a fault moves a job otherwise; nothing the other jobs or the world do adds to it.
WorkShrinks ==
  [][\A j \in Jobs : job[j].pc # "idle" /\ job'[j].pc # "idle" =>
       \/ job'[j] = job[j]
       \/ faults' < faults
       \/ LessToDo(job'[j], job[j])]_vars

LEMMA JobStepShrinks ==
  ASSUME Inductive, NEW j \in Jobs, JobStep(j), job[j].pc # "idle", job'[j].pc # "idle"
  PROVE  \/ faults' < faults
         \/ LessToDo(job'[j], job[j])
<1> DEFINE mine == job[j]
<1>0. /\ TypeOK /\ mine \in JobState /\ mine.pc \in StepsOf[j]
      /\ \A a : a \in mine.todo => Shrinks(mine.todo \ {a}, mine.todo)
      /\ \A x : x \in mine.left => Shrinks(mine.left \ {x}, mine.left)
  BY DEF Inductive, TypeOK, Flow, Shrinks
<1>1. ASSUME NEW state, Becomes(j, state) PROVE job'[j] = state
  BY <1>0, <1>1 DEF Becomes, TypeOK
<1>2. ASSUME NEW e \in Events, NEW alerts, Planning(j, e, alerts)
      PROVE  LessToDo(job'[j], mine)
  <2> DEFINE new == Unsent(alerts)
  <2> HIDE DEF new
  <2>1. /\ job'[j] = [mine EXCEPT !.left = mine.left \ {e}, !.todo = mine.todo \cup new]
        /\ e \in mine.left
    BY <1>1, <1>2 DEF Planning, Plan, new
  <2>2. job'[j].left = mine.left \ {e} /\ job'[j].pc = mine.pc
    BY <1>0, <2>1 DEF JobState
  <2> QED
    BY <1>0, <2>1, <2>2 DEF LessToDo
<1>3. ASSUME NEW pc, NEW state, Becomes(j, state), state.pc = pc, Stage(mine.pc) < Stage(pc)
      PROVE  LessToDo(job'[j], mine)
  BY <1>1, <1>3 DEF LessToDo
<1>4. CASE j = "sync" /\ SyncStep
  <2>1. ASSUME FixturesFetched PROVE LessToDo(job'[j], mine)
    <3>1. job'[j].pc = "install" /\ mine.pc = "fetch"
      BY <1>0, <1>1, <1>4, <2>1 DEF FixturesFetched, JobState
    <3> QED
      BY <3>1 DEF LessToDo, Stage
  <2>2. ASSUME SetSyncTime PROVE LessToDo(job'[j], mine)
    <3>1. job'[j].pc = "count" /\ mine.pc = "install"
      BY <1>0, <1>1, <1>4, <2>2 DEF SetSyncTime, JobState
    <3> QED
      BY <3>1 DEF LessToDo, Stage
  <2>3. ~SetFixtureCount
    BY <1>1, <1>4 DEF SetFixtureCount, Over, AtRest
  <2> QED
    BY <1>2, <1>4, <2>1, <2>2, <2>3, FetchFixturesPlans, InstallFixturesPlans DEF SyncStep
<1>5. CASE j = "reminders" /\ \E e \in Events : PlanReminders(e)
  BY <1>2, <1>5, PlanRemindersPlans
<1>6. CASE j = "notify" /\ NotifyStep
  <2>1. ASSUME NotifyPlanned PROVE LessToDo(job'[j], mine)
    <3>1. job'[j].pc = "gather" /\ mine.pc = "fetch"
      BY <1>0, <1>1, <1>6, <2>1 DEF NotifyPlanned, JobState
    <3> QED
      BY <3>1 DEF LessToDo, Stage
  <2> QED
    BY <1>2, <1>6, <2>1, PlanNotifyPlans DEF NotifyStep
<1>7. CASE GatherStep(j)
  <2>1. ASSUME ResultsGathered(j) PROVE LessToDo(job'[j], mine)
    <3>1. job'[j].pc = "deliver" /\ mine.pc = "gather"
      BY <1>0, <1>1, <2>1 DEF ResultsGathered, JobState
    <3> QED
      BY <3>1 DEF LessToDo, Stage
  <2> QED
    BY <1>2, <1>7, <2>1, GatherResultsPlans DEF GatherStep
<1>8. CASE DeliveryStep(j)
  <2>1. ASSUME NEW a \in mine.todo, mine.pc = "deliver", PassOver(j, a)
        PROVE  LessToDo(job'[j], mine)
    <3>1. /\ job'[j].todo = mine.todo \ {a} /\ job'[j].left = mine.left
          /\ job'[j].pc = mine.pc
      BY <1>0, <1>1, <2>1 DEF PassOver, JobState
    <3> QED
      BY <1>0, <3>1 DEF LessToDo
  <2>2. ASSUME NEW a \in mine.todo, mine.pc = "deliver", NEW how, TakeUp(j, a, how)
        PROVE  LessToDo(job'[j], mine)
    <3> DEFINE state == [mine EXCEPT !.pc = "mark", !.todo = mine.todo \ {a},
                                     !.inHand = {[key |-> a.key, how |-> how]}]
    <3>1. job'[j] = state
      BY <1>1, <2>2 DEF TakeUp
    <3>2. state.pc = "mark" /\ state.todo = mine.todo \ {a} /\ state.left = mine.left
      BY <1>0 DEF JobState
    <3> HIDE DEF state
    <3> QED
      BY <1>0, <2>2, <3>1, <3>2 DEF LessToDo, Stage
  <2>3. CASE Mark(j)
    <3>1. /\ job'[j].pc = "commit" /\ mine.pc = "mark"
          /\ job'[j].todo = mine.todo /\ job'[j].left = mine.left
      BY <1>0, <1>1, <2>3 DEF Mark, JobState
    <3> QED
      BY <3>1 DEF LessToDo, Stage, Settling
  <2>4. CASE Commit(j)
    <3>1. /\ job'[j].pc = "deliver" /\ mine.pc = "commit"
          /\ job'[j].todo = mine.todo /\ job'[j].left = mine.left
      BY <1>0, <1>1, <2>4 DEF Commit, JobState
    <3> QED
      BY <3>1 DEF LessToDo, Stage, Settling
  <2>5. ~FinishJob(j)
    BY <1>1 DEF FinishJob, Over, AtRest
  <2> QED
    BY <1>8, <2>1, <2>2, <2>3, <2>4, <2>5
       DEF DeliveryStep, LeaveForLater, Drop, SendToConsole, SendAccepted, SendFailed, Handling
<1>9. ~Start(j)
  BY DEF Start
<1> QED
  BY <1>4, <1>5, <1>6, <1>7, <1>8, <1>9 DEF JobStep

\* With finitely many events and alerts no job works for ever, and no job keeps another
\* one from its end: this leaves only the scheduling of the threads to fairness.
THEOREM WorkOnlyShrinks == Spec => WorkShrinks
<1> DEFINE Progress ==
      \A j \in Jobs : job[j].pc # "idle" /\ job'[j].pc # "idle" =>
        \/ job'[j] = job[j]
        \/ faults' < faults
        \/ LessToDo(job'[j], job[j])
<1>1. ASSUME Inductive, [Next]_vars PROVE Progress
  <2> SUFFICES ASSUME NEW j \in Jobs, job[j].pc # "idle", job'[j].pc # "idle"
               PROVE  \/ job'[j] = job[j]
                      \/ faults' < faults
                      \/ LessToDo(job'[j], job[j])
    OBVIOUS
  <2>0. TypeOK
    BY <1>1 DEF Inductive
  <2>1. CASE WorldStep \/ (\E program \in {"run", "once", "notify"} : Launch(program))
               \/ UNCHANGED vars
    BY <2>1 DEF WorldStep, Tick, Postpone, FullTime, ScoreKnown, SetMatchStatus, Reschedule,
                World, Launch, vars
  <2>2. ASSUME NEW i \in Jobs, StoreFails(i) \/ JobRaises(i) PROVE faults' < faults
    BY <2>0, <2>2, RuntimeAssumption DEF StoreFails, JobRaises, TypeOK
  <2>3. ASSUME NEW i \in Jobs, JobStep(i)
        PROVE  \/ job'[j] = job[j]
               \/ faults' < faults
               \/ LessToDo(job'[j], job[j])
    BY <1>1, <2>0, <2>3, OneJobMoves, JobStepShrinks
  <2>4. ~Crash
    BY DEF Crash, AtRest
  <2> QED
    BY <1>1, <2>1, <2>2, <2>3, <2>4 DEF Next
<1>2. Inductive /\ [Next]_vars => [Progress]_vars
  BY <1>1
<1> QED
  BY <1>2, AlwaysInductive, PTL DEF Spec, WorkShrinks

=============================================================================
