------------------------------ MODULE Runtime ------------------------------
(***************************************************************************)
(* The single-user program: runtime.py with the fetching of sync.py and    *)
(* pipeline.py behind it.  `run' keeps three jobs going, each in a thread  *)
(* of its own, over one cache of fixtures and one database connection;     *)
(* `run --once' does the three in a row; `notify' is a pass of its own.    *)
(* Fixtures and results come through a chain of providers that name teams  *)
(* differently.                                                            *)
(*                                                                         *)
(* The dedup key of an alert is its event, the match's stable_id and a     *)
(* label: a lead-time for a reminder, "final" or "shock".                  *)
(***************************************************************************)
EXTENDS QuietHours

CONSTANTS
  Events,       \* enabled events of config.yaml
  Matches,      \* a competition and two teams, however these are spelled
  WatchedBy,    \* WatchedBy[e]: matches of e's competition with a team e watches
  Wants,        \* Wants[e]: alert switches of e: "reminders", "finals", "shocks"
  Leads,        \* configured reminder lead-times
  LeadTime,     \* LeadTime[l]: clock units before kickoff
  Lookahead,    \* clock units ahead for which fixtures are fetched
  Lookback,     \* clock units back for which results are fetched
  Providers,    \* data providers with credentials
  Rank,         \* Rank[p]: place of p in the order of registration
  Naming,       \* Naming[p]: what p's stable ids spell teams with
  Kickoffs,     \* clock values at which a match may be set to kick off
  Quiets,       \* quiet hours the program may be configured with
  Senders,      \* senders the program may be configured with
  Attempts,     \* requests one send may issue (HttpClient.max_retries)
  MaxTime,      \* bound on the clock
  MaxFaults     \* bound on crashes, exceptions and lost acknowledgements

Times == 0..MaxTime
Labels == Leads \cup {"final", "shock"}
Namings == {Naming[p] : p \in Providers}

\* Fixture.stable_id: competition and teams, as spelled, and the date.
Ids == [match : Matches, by : Namings, day : {Day(t) : t \in Kickoffs}]
Keys == [event : Events, id : Ids, label : Labels]

\* A fixture as one provider gave it.
Fixtures == [match : Matches, by : Namings, kickoff : Kickoffs]
Alerts == [key : Keys, kickoff : Kickoffs]
Marks == [key : Keys, how : {"sent", "dropped"}]

Statuses == {"scheduled", "postponed", "ended", "scored"}
Jobs == {"sync", "reminders", "results", "notify"}
Steps == {"idle", "fetch", "install", "count", "gather", "deliver", "mark", "commit"}
JobState ==
  [pc : Steps, now : Times, left : SUBSET Events, todo : SUBSET Alerts,
   inHand : SUBSET Marks]
AtRest == [pc |-> "idle", now |-> 0, left |-> {}, todo |-> {}, inHand |-> {}]

ASSUME RuntimeAssumption ==
  /\ WatchedBy \in [Events -> SUBSET Matches]
  /\ Wants \in [Events -> SUBSET {"reminders", "finals", "shocks"}]
  /\ LeadTime \in [Leads -> Nat]
  /\ {"final", "shock"} \cap Leads = {}
  /\ Lookahead \in Nat /\ Lookback \in Nat
  /\ Rank \in [Providers -> Int]
  /\ \A p, q \in Providers : Rank[p] = Rank[q] => p = q
  /\ Kickoffs \subseteq Times
  /\ Quiets \subseteq QuietHoursConfig
  /\ Senders \subseteq {"telegram", "console"}
  /\ Attempts \in Nat \ {0}
  /\ MaxTime \in Nat /\ MaxFaults \in Nat

VARIABLES
  sender,     \* the configured sender
  quiet,      \* the configured quiet hours
  clock,      \* wall clock, UTC
  status,     \* status[m]: the match as the providers report it
  kickoff,    \* kickoff[m]: when it is to kick off, as the providers report it
  moved,      \* matches whose kickoff has been changed
  mode,       \* the running program: "off", "run", "once" or "notify"
  ready,      \* jobs the program may start
  job,        \* job[j]: where job j is, and its locals
  fetched,    \* fetched[e]: what the sync under way is to put into the cache
  cache,      \* cache[e]: the fixtures reminders are planned from
  sent,       \* sent_alerts: the recorded dedup keys
  pending,    \* rows inserted on the connection and not committed yet
  faults,     \* faults that may still happen
  inbox,      \* history: copies of each alert that reached the chat
  unmarked,   \* history: copies that reached the chat and were never recorded
  dropped,    \* history: keys recorded without a send
  failedOver  \* history: events for which not the first provider answered

worldVars == <<sender, quiet, clock, status, kickoff, moved>>
ledgerVars == <<sent, pending, inbox, unmarked, dropped>>
vars == <<worldVars, mode, ready, job, fetched, cache, ledgerVars, faults, failedOver>>

TypeOK ==
  /\ sender \in Senders
  /\ quiet \in Quiets
  /\ clock \in Times
  /\ status \in [Matches -> Statuses]
  /\ kickoff \in [Matches -> Kickoffs]
  /\ moved \subseteq Matches
  /\ mode \in {"off", "run", "once", "notify"}
  /\ ready \subseteq Jobs
  /\ job \in [Jobs -> JobState]
  /\ fetched \in [Events -> SUBSET Fixtures]
  /\ cache \in [Events -> SUBSET Fixtures]
  /\ sent \subseteq Keys
  /\ pending \subseteq Marks
  /\ faults \in 0..MaxFaults
  /\ inbox \in [Keys -> Nat]
  /\ unmarked \in [Keys -> Nat]
  /\ dropped \subseteq Keys
  /\ failedOver \subseteq Events

Init ==
  /\ sender \in Senders
  /\ quiet \in Quiets
  /\ clock = 0
  /\ status = [m \in Matches |-> "scheduled"]
  /\ kickoff \in [Matches -> Kickoffs]
  /\ moved = {}
  /\ mode = "off"
  /\ ready = {}
  /\ job = [j \in Jobs |-> AtRest]
  /\ fetched = [e \in Events |-> {}]
  /\ cache = [e \in Events |-> {}]
  /\ sent = {}
  /\ pending = {}
  /\ faults = MaxFaults
  /\ inbox = [k \in Keys |-> 0]
  /\ unmarked = [k \in Keys |-> 0]
  /\ dropped = {}
  /\ failedOver = {}

-----------------------------------------------------------------------------
(* The program and its jobs *)

RunJobs == {"sync", "reminders", "results"}

FirstStep ==
  [j \in Jobs |-> CASE j = "sync"      -> "fetch"
                    [] j = "reminders" -> "deliver"
                    [] j = "results"   -> "gather"
                    [] j = "notify"    -> "fetch"]

Becomes(j, state) == job' = [job EXCEPT ![j] = state]

PendingKeys == {r.key : r \in pending}

\* Mutant: the planner forgets to ask what was sent.
UnsentOrNot(alerts) == alerts

\* AlertEngine.unsent, through the connection that has the uncommitted rows.
Unsent(alerts) == {a \in alerts : a.key \notin sent \cup PendingKeys}

\* Job j is through with event e, and those of the alerts that are unsent are to be
\* handled.
Plan(j, e, alerts) ==
  /\ e \in job[j].left
  /\ Becomes(j, [job[j] EXCEPT !.left = job[j].left \ {e},
                               !.todo = job[j].todo \cup Unsent(alerts)])

\* `run' and `run --once' begin with a sync.
Launch(program) ==
  /\ mode = "off"
  /\ mode' = program
  /\ ready' = IF program = "notify" THEN {"notify"} ELSE {"sync"}
  /\ UNCHANGED <<worldVars, job, fetched, cache, ledgerVars, faults, failedOver>>

\* A job looks at the clock once.  The scheduler never runs two of the same job.
Start(j) ==
  /\ j \in ready
  /\ job[j].pc = "idle"
  /\ Becomes(j, [AtRest EXCEPT !.pc = FirstStep[j], !.now = clock, !.left = Events])
  /\ UNCHANGED <<worldVars, mode, ready, fetched, cache, ledgerVars, faults, failedOver>>

\* What may be started when job j is over: in `run' everything, once the first sync
\* is through; in `run --once' the next of the three.
ReadyAfter(j) ==
  CASE mode = "run"                        -> RunJobs
    [] mode = "once" /\ j = "sync"         -> {"reminders"}
    [] mode = "once" /\ j = "reminders"    -> {"results"}
    [] OTHER                               -> {}

\* Job j is over; with nothing left to do the program exits, and its cache goes.
Over(j) ==
  /\ Becomes(j, AtRest)
  /\ ready' = ReadyAfter(j)
  /\ IF ready' = {}
       THEN mode' = "off" /\ cache' = [e \in Events |-> {}]
       ELSE UNCHANGED <<mode, cache>>

-----------------------------------------------------------------------------
(* Fetching.  Every request goes along the chain of providers.             *)

\* Mutant: any provider that is up will do.
AnswersAnyone(p, down) == p \in Providers \ down

\* ProviderRouter: the first provider in the chain that is not down answers.
Answers(p, down) ==
  /\ p \in Providers \ down
  /\ \A q \in Providers \ down : Rank[p] <= Rank[q]

\* With some provider down, what p answers for e is a failover unless p is the first.
NoteFailover(e, p, down) ==
  failedOver' = IF \E q \in down : Rank[q] < Rank[p] THEN failedOver \cup {e} ELSE failedOver

\* Mutant: the id carries the time of the kickoff.
StableIdToTheHour(m, by, start) == [match |-> m, by |-> by, day |-> start]

\* Fixture.stable_id
StableId(m, by, start) == [match |-> m, by |-> by, day |-> Day(start)]

\* Watched fixtures of the fetched days.  The cache also holds the ones that are not
\* upcoming; the planner passes them over whenever it looks.
FixturesFrom(e, p, t) ==
  {[match |-> m, by |-> Naming[p], kickoff |-> kickoff[m]] :
     m \in {n \in WatchedBy[e] : /\ status[n] = "scheduled"
                                 /\ Day(kickoff[n]) \in Day(t)..Day(t + Lookahead)}}

\* Watched results of the fetched days, finished and with a score.
ResultsFor(e, t) ==
  {m \in WatchedBy[e] : /\ status[m] = "scored"
                        /\ Day(kickoff[m]) \in Day(t - Lookback)..Day(t)}

\* collect_watched_fixtures for one event, in the sync job; an event that cannot be
\* fetched keeps what is cached.
FetchFixtures(e, down) ==
  /\ job["sync"].pc = "fetch"
  /\ Plan("sync", e, {})
  /\ \/ /\ Providers \subseteq down
        /\ fetched' = [fetched EXCEPT ![e] = cache[e]]
        /\ UNCHANGED failedOver
     \/ \E p \in Providers :
          /\ Answers(p, down)
          /\ fetched' = [fetched EXCEPT ![e] = FixturesFrom(e, p, job["sync"].now)]
          /\ NoteFailover(e, p, down)
  /\ UNCHANGED <<worldVars, mode, ready, cache, ledgerVars, faults>>

\* Every event has been asked for.
FixturesFetched ==
  LET mine == job["sync"]
  IN  /\ mine.pc = "fetch"
      /\ mine.left = {}
      /\ Becomes("sync", [mine EXCEPT !.pc = "install", !.now = 0, !.left = Events])
      /\ UNCHANGED <<worldVars, mode, ready, fetched, cache, ledgerVars, faults, failedOver>>

\* sync_fixtures installs what it got, event by event; other jobs may read in between.
InstallFixtures(e) ==
  /\ job["sync"].pc = "install"
  /\ Plan("sync", e, {})
  /\ cache' = [cache EXCEPT ![e] = fetched[e]]
  /\ fetched' = [fetched EXCEPT ![e] = {}]
  /\ UNCHANGED <<worldVars, mode, ready, ledgerVars, faults, failedOver>>

-----------------------------------------------------------------------------
(* Planning *)

AlertFor(e, m, by, start, label) ==
  [key |-> [event |-> e, id |-> StableId(m, by, start), label |-> label], kickoff |-> start]

IsReminder(k) == k.label \in Leads

\* plan_reminders with include_past.
RemindersFor(e, fixtures, t) ==
  {AlertFor(e, f.match, f.by, f.kickoff, l) :
     f \in {g \in fixtures : t < g.kickoff},
     l \in IF "reminders" \in Wants[e] THEN Leads ELSE {}}

\* evaluate_results; which results are upsets is Odds' subject and left open here.
ResultAlertsFor(e, p, results, upsets) ==
  LET Told(matches, label) ==
        {AlertFor(e, m, Naming[p], kickoff[m], label) : m \in matches}
  IN  (IF "finals" \in Wants[e] THEN Told(results, "final") ELSE {})
      \cup (IF "shocks" \in Wants[e] THEN Told(upsets, "shock") ELSE {})

\* fire_reminders, for the next event, from whatever the cache holds.
PlanReminders(e) ==
  /\ job["reminders"].pc = "deliver"
  /\ job["reminders"].todo = {}
  /\ Plan("reminders", e, RemindersFor(e, cache[e], job["reminders"].now))
  /\ UNCHANGED <<worldVars, mode, ready, fetched, cache, ledgerVars, faults, failedOver>>

\* plan_all_reminders for one event, and cmd_notify's choice of what is due.
PlanNotify(e, down) ==
  LET now == job["notify"].now
      Due(alerts) == {a \in alerts : a.kickoff - LeadTime[a.key.label] <= now}
  IN  /\ job["notify"].pc = "fetch"
      /\ \/ /\ Providers \subseteq down
            /\ Plan("notify", e, {})
            /\ UNCHANGED failedOver
         \/ \E p \in Providers :
              /\ Answers(p, down)
              /\ Plan("notify", e, Due(RemindersFor(e, FixturesFrom(e, p, now), now)))
              /\ NoteFailover(e, p, down)
      /\ UNCHANGED <<worldVars, mode, ready, fetched, cache, ledgerVars, faults>>

NotifyPlanned ==
  LET mine == job["notify"]
  IN  /\ mine.pc = "fetch"
      /\ mine.left = {}
      /\ Becomes("notify", [mine EXCEPT !.pc = "gather", !.left = Events])
      /\ UNCHANGED <<worldVars, mode, ready, fetched, cache, ledgerVars, faults, failedOver>>

\* gather_result_alerts for one event.
GatherResults(j, e, down) ==
  LET results == ResultsFor(e, job[j].now)
  IN  /\ job[j].pc = "gather"
      /\ \/ /\ Providers \subseteq down
            /\ Plan(j, e, {})
            /\ UNCHANGED failedOver
         \/ \E p \in Providers, upsets \in SUBSET results :
              /\ Answers(p, down)
              /\ Plan(j, e, ResultAlertsFor(e, p, results, upsets))
              /\ NoteFailover(e, p, down)
      /\ UNCHANGED <<worldVars, mode, ready, fetched, cache, ledgerVars, faults>>

ResultsGathered(j) ==
  LET mine == job[j]
  IN  /\ mine.pc = "gather"
      /\ mine.left = {}
      /\ Becomes(j, [mine EXCEPT !.pc = "deliver"])
      /\ UNCHANGED <<worldVars, mode, ready, fetched, cache, ledgerVars, faults, failedOver>>

-----------------------------------------------------------------------------
(* Delivery *)

\* Mutant: the lead window is not waited for.
ClassifyWithoutWait(j, a) ==
  IF j # "notify" /\ InQuietHours(LocalTime(job[j].now), quiet)
    THEN IF quiet.behavior = "defer" THEN "defer" ELSE "drop"
    ELSE "send"

\* classify_reminder and classify_result; cmd_notify sends whatever is due.
Classify(j, a) ==
  LET now == job[j].now
  IN  IF j = "notify" THEN "send"
      ELSE IF j = "reminders" /\ a.kickoff <= now THEN "drop"
      ELSE IF j = "reminders" /\ a.kickoff - LeadTime[a.key.label] > now THEN "wait"
      ELSE IF InQuietHours(LocalTime(now), quiet)
             THEN IF quiet.behavior = "defer" THEN "defer" ELSE "drop"
      ELSE "send"

\* Job j comes to alert a.
Handling(j, a, action) ==
  /\ job[j].pc = "deliver"
  /\ a \in job[j].todo
  /\ Classify(j, a) = action
  /\ UNCHANGED <<worldVars, mode, ready, fetched, cache, sent, pending, dropped, failedOver>>

\* Alert a is done with.
PassOver(j, a) == Becomes(j, [job[j] EXCEPT !.todo = job[j].todo \ {a}])

\* Alert a is done with, but for recording it.
TakeUp(j, a, how) ==
  Becomes(j, [job[j] EXCEPT !.pc = "mark", !.todo = job[j].todo \ {a},
                            !.inHand = {[key |-> a.key, how |-> how]}])

\* Mutant: a deferred alert is tried again until it goes through.
LeaveForLaterAndRetry(j, a) ==
  /\ Handling(j, a, "defer") \/ Handling(j, a, "wait")
  /\ UNCHANGED <<job, inbox, unmarked, faults>>

LeaveForLater(j, a) ==
  /\ Handling(j, a, "defer") \/ Handling(j, a, "wait")
  /\ PassOver(j, a)
  /\ UNCHANGED <<inbox, unmarked, faults>>

Drop(j, a) ==
  /\ Handling(j, a, "drop")
  /\ TakeUp(j, a, "dropped")
  /\ UNCHANGED <<inbox, unmarked, faults>>

SendToConsole(j, a) ==
  /\ sender = "console"
  /\ Handling(j, a, "send")
  /\ PassOver(j, a)
  /\ UNCHANGED <<inbox, unmarked, faults>>

\* Of the requests of one send, `lost' reached Telegram with no answer coming back.
Unanswered(k, lost) ==
  /\ lost <= faults
  /\ faults' = faults - lost
  /\ unmarked' = [unmarked EXCEPT ![k] = @ + lost]

SendAccepted(j, a) ==
  /\ sender = "telegram"
  /\ Handling(j, a, "send")
  /\ \E lost \in 0..(Attempts - 1) :
       /\ Unanswered(a.key, lost)
       /\ inbox' = [inbox EXCEPT ![a.key] = @ + lost + 1]
  /\ TakeUp(j, a, "sent")

\* Mutant: an alert is recorded whatever the send reported.
SendFailedButMarked(j, a) ==
  /\ sender = "telegram"
  /\ Handling(j, a, "send")
  /\ TakeUp(j, a, "sent")
  /\ UNCHANGED <<inbox, unmarked, faults>>

SendFailed(j, a) ==
  /\ sender = "telegram"
  /\ Handling(j, a, "send")
  /\ \E lost \in 0..Attempts :
       /\ Unanswered(a.key, lost)
       /\ inbox' = [inbox EXCEPT ![a.key] = @ + lost]
  /\ PassOver(j, a)

-----------------------------------------------------------------------------
(* The ledger.  The three jobs of `run' share one connection, and with it one  *)
(* transaction: whoever commits commits the rows of all, and whoever fails     *)
(* takes the rows of all back.                                                 *)

\* mark_sent, up to the commit.
Mark(j) ==
  /\ job[j].pc = "mark"
  /\ pending' = pending \cup job[j].inHand
  /\ Becomes(j, [job[j] EXCEPT !.pc = "commit", !.inHand = {}])
  /\ UNCHANGED <<worldVars, mode, ready, fetched, cache, sent, inbox, unmarked, dropped,
                 faults, failedOver>>

CommitShared ==
  /\ sent' = sent \cup PendingKeys
  /\ dropped' = dropped \cup {r.key : r \in {x \in pending : x.how = "dropped"}}
  /\ pending' = {}
  /\ UNCHANGED <<inbox, unmarked>>

Commit(j) ==
  /\ job[j].pc = "commit"
  /\ CommitShared
  /\ Becomes(j, [job[j] EXCEPT !.pc = "deliver"])
  /\ UNCHANGED <<worldVars, mode, ready, fetched, cache, faults, failedOver>>

\* The two set_meta calls a sync ends with, each a transaction of its own.
SetSyncTime ==
  /\ job["sync"].pc = "install"
  /\ job["sync"].left = {}
  /\ CommitShared
  /\ Becomes("sync", [job["sync"] EXCEPT !.pc = "count"])
  /\ UNCHANGED <<worldVars, mode, ready, fetched, cache, faults, failedOver>>

SetFixtureCount ==
  /\ job["sync"].pc = "count"
  /\ CommitShared
  /\ Over("sync")
  /\ UNCHANGED <<worldVars, fetched, faults, failedOver>>

FinishJob(j) ==
  /\ job[j].pc = "deliver"
  /\ job[j].todo = {}
  /\ j = "reminders" => job[j].left = {}
  /\ Over(j)
  /\ UNCHANGED <<worldVars, fetched, ledgerVars, faults, failedOver>>

\* The alerts about to be recorded by the jobs in `jobs'.
AtMark(jobs) == UNION {job[j].inHand : j \in jobs}

\* Mutant: a failed transaction takes back nothing but what its own job wrote.
LoseMarksOfOne(jobs) ==
  LET lost == {r.key : r \in {x \in AtMark(jobs) : x.how = "sent"}}
  IN  /\ pending' = {}
      /\ unmarked' = [k \in Keys |-> unmarked[k] + IF k \in lost THEN 1 ELSE 0]
      /\ UNCHANGED <<sent, dropped, inbox>>

\* The connection's transaction is taken back, with what the jobs `jobs' were about
\* to record.
LoseMarks(jobs) ==
  LET lost == {r.key : r \in {x \in pending \cup AtMark(jobs) : x.how = "sent"}}
  IN  /\ pending' = {}
      /\ unmarked' = [k \in Keys |-> unmarked[k] + IF k \in lost THEN 1 ELSE 0]
      /\ UNCHANGED <<sent, dropped, inbox>>

\* Mutant: an exception ends the whole pass over the events.
AbortPass(j) ==
  /\ Over(j)
  /\ fetched' = IF j = "sync" THEN [e \in Events |-> {}] ELSE fetched

\* An exception in job j: fire_reminders goes on with the next event, and everything
\* else ends there.  A failed sync leaves the cache as it is.
Abort(j) ==
  /\ IF j = "reminders"
       THEN /\ Becomes(j, [job[j] EXCEPT !.pc = "deliver", !.todo = {}, !.inHand = {}])
            /\ UNCHANGED <<ready, mode, cache>>
       ELSE Over(j)
  /\ fetched' = IF j = "sync" THEN [e \in Events |-> {}] ELSE fetched

\* An exception in a transaction: the disk is full, the database stays locked, or
\* two threads begin a transaction at once and one of them is refused.
StoreFails(j) ==
  /\ faults > 0
  /\ faults' = faults - 1
  /\ \/ job[j].pc \in {"mark", "commit", "count"}
     \/ job[j].pc = "install" /\ job[j].left = {}
  /\ LoseMarks({j})
  /\ Abort(j)
  /\ UNCHANGED <<worldVars, failedOver>>

\* Any other exception: a malformed answer, a failed query.
JobRaises(j) ==
  /\ faults > 0
  /\ faults' = faults - 1
  /\ job[j].pc \in {"fetch", "gather", "deliver"}
  /\ Abort(j)
  /\ UNCHANGED <<worldVars, ledgerVars, failedOver>>

\* The process ends, by a crash or a signal: only the database survives.
Crash ==
  /\ mode # "off"
  /\ faults > 0
  /\ faults' = faults - 1
  /\ mode' = "off"
  /\ ready' = {}
  /\ job' = [j \in Jobs |-> AtRest]
  /\ fetched' = [e \in Events |-> {}]
  /\ cache' = [e \in Events |-> {}]
  /\ LoseMarks(Jobs)
  /\ UNCHANGED <<worldVars, failedOver>>

-----------------------------------------------------------------------------
(* The world *)

World ==
  UNCHANGED <<sender, quiet, mode, ready, job, fetched, cache, ledgerVars, faults,
              failedOver>>

Tick ==
  /\ World
  /\ clock < MaxTime
  /\ clock' = clock + 1
  /\ UNCHANGED <<status, kickoff, moved>>

SetMatchStatus(m, from, to) ==
  /\ World
  /\ status[m] = from
  /\ status' = [status EXCEPT ![m] = to]
  /\ UNCHANGED <<clock, kickoff, moved>>

Postpone(m) == clock < kickoff[m] /\ SetMatchStatus(m, "scheduled", "postponed")
FullTime(m) == clock > kickoff[m] /\ SetMatchStatus(m, "scheduled", "ended")
ScoreKnown(m) == SetMatchStatus(m, "ended", "scored")

\* A match that has not begun is given another kickoff, once.
Reschedule(m, t) ==
  /\ World
  /\ m \notin moved
  /\ status[m] = "postponed" \/ (status[m] = "scheduled" /\ clock < kickoff[m])
  /\ clock < t
  /\ status' = [status EXCEPT ![m] = "scheduled"]
  /\ kickoff' = [kickoff EXCEPT ![m] = t]
  /\ moved' = moved \cup {m}
  /\ UNCHANGED clock

WorldStep ==
  \/ Tick
  \/ \E m \in Matches :
       \/ Postpone(m)
       \/ FullTime(m)
       \/ ScoreKnown(m)
       \/ \E t \in Kickoffs : Reschedule(m, t)

SyncStep ==
  \/ \E e \in Events, down \in SUBSET Providers : FetchFixtures(e, down)
  \/ FixturesFetched
  \/ \E e \in Events : InstallFixtures(e)
  \/ SetSyncTime
  \/ SetFixtureCount

GatherStep(j) ==
  \/ \E e \in Events, down \in SUBSET Providers : GatherResults(j, e, down)
  \/ ResultsGathered(j)

NotifyStep ==
  \/ \E e \in Events, down \in SUBSET Providers : PlanNotify(e, down)
  \/ NotifyPlanned

DeliveryStep(j) ==
  \/ \E a \in job[j].todo : \/ LeaveForLater(j, a)
                            \/ Drop(j, a)
                            \/ SendToConsole(j, a)
                            \/ SendAccepted(j, a)
                            \/ SendFailed(j, a)
  \/ Mark(j)
  \/ Commit(j)
  \/ FinishJob(j)

\* What job j does next.
JobStep(j) ==
  \/ Start(j)
  \/ j = "sync" /\ SyncStep
  \/ j = "reminders" /\ \E e \in Events : PlanReminders(e)
  \/ j = "notify" /\ NotifyStep
  \/ GatherStep(j)
  \/ DeliveryStep(j)

Next ==
  \/ \E program \in {"run", "once", "notify"} : Launch(program)
  \/ \E j \in Jobs : JobStep(j) \/ StoreFails(j) \/ JobRaises(j)
  \/ Crash
  \/ WorldStep

Spec == Init /\ [][Next]_vars

Told(k, e, m, l) == k.event = e /\ k.id.match = m /\ k.label = l

\* What the deployment justifies: docker-compose restarts `run', its jobs come up
\* again and again and each goes on to its end; from time to time the providers
\* answer for an event, and the chat accepts an alert of each job, however often they
\* fail.
Fairness ==
  /\ SF_vars(Launch("run"))
  /\ \A j \in Jobs : WF_vars(JobStep(j))
  /\ \A e \in Events : /\ SF_vars(FetchFixtures(e, {}))
                       /\ SF_vars(GatherResults("results", e, {}))
  /\ \A j \in RunJobs \ {"sync"} : SF_vars(\E a \in job[j].todo : SendAccepted(j, a))

FairSpec == Spec /\ Fairness

-----------------------------------------------------------------------------
(* Properties *)

TodoKeys(j) == {a.key : a \in job[j].todo}

\* Keys of messages that are in the chat and still to be recorded.
Unrecorded == {r.key : r \in {x \in pending \cup AtMark(Jobs) : x.how = "sent"}}

\* An alert a job still has to handle is neither recorded nor about to be, by this job
\* or by another one on the shared connection, and no other job has it.  This is what
\* makes one look at sent_alerts, long before the send, enough.
NothingOwedIsSettled ==
  /\ \A j \in Jobs :
       TodoKeys(j) \cap (sent \cup PendingKeys \cup {r.key : r \in AtMark(Jobs)}) = {}
  /\ \A i, j \in Jobs : i # j => TodoKeys(i) \cap TodoKeys(j) = {}

\* Exact bookkeeping of duplicates: beyond the copy that is recorded, or still to be,
\* every copy of an alert is one whose acknowledgement was lost, whose record was lost
\* with its process, or whose record was taken back by a transaction that failed,
\* another thread's included.
CopiesAccounted ==
  \A k \in Keys :
    inbox[k] = unmarked[k] + IF k \in (sent \ dropped) \cup Unrecorded THEN 1 ELSE 0

\* Duplicates are paid for: each copy of an alert beyond the first has cost a fault of
\* its own, although one failed transaction takes back the records of several jobs.
CopiesBounded == \A k \in Keys : inbox[k] <= 1 + (MaxFaults - faults)

\* With three jobs on one connection and commits that carry each other's rows, delivery
\* is at-least-once all the same: no alert is recorded unsent except on purpose, and
\* none is sent once it is recorded.
Outbox == INSTANCE AlertOutbox
            WITH settled <- sent, suppressed <- dropped, Copies <- Attempts

ImplementsOutbox == Outbox!OutboxSpec

\* The user is told the same thing twice under different dedup keys only if the data
\* came from another provider than the first at some time, which spells teams its own
\* way, or if the match was given another date.
RepeatsExplained ==
  \A k, i \in Keys :
    /\ inbox[k] > 0 /\ inbox[i] > 0
    /\ Told(k, i.event, i.id.match, i.label)
    /\ k # i
    => k.event \in failedOver \/ k.id.match \in moved

Reaches(k) == inbox'[k] > inbox[k]

\* The job of `run' that alerts with label l belong to.
Owner(l) == IF l \in Leads THEN "reminders" ELSE "results"

Quiet(t) == Covered(LocalTime(t), quiet)

\* No job of `run' sends anything during quiet hours, and it records an alert without a
\* send only during quiet hours, for a user who suppresses: in local time, on overnight
\* windows too, by the clock the job looked at when it began.
QuietKept ==
  [][\A k \in Keys :
       /\ Reaches(k) /\ mode # "notify" => ~Quiet(job[Owner(k.label)].now)
       /\ k \in dropped' \ dropped =>
            quiet.behavior = "suppress" /\ Quiet(job[Owner(k.label)].now)]_vars

\* No message is early: a reminder waits for its lead window, unless the match has been
\* given another kickoff since the fixtures were fetched, and a result for its score.
NeverEarly ==
  [][\A k \in Keys : Reaches(k) =>
       IF IsReminder(k)
         THEN k.id.match \in moved
              \/ clock >= kickoff[k.id.match] - LeadTime[k.label]
         ELSE status[k.id.match] = "scored"]_vars

\* At time t it is the time to tell the user of m: its lead window or its score has come,
\* and it is not in quiet hours.
Timely(e, m, l, t) ==
  /\ m \in WatchedBy[e]
  /\ ~Quiet(t)
  /\ \/ /\ l \in Leads
        /\ "reminders" \in Wants[e]
        /\ t \in kickoff[m] - LeadTime[l] .. kickoff[m] - 1
     \/ /\ l = "final"
        /\ "finals" \in Wants[e]
        /\ status[m] = "scored"
        /\ Day(kickoff[m]) \in Day(t - Lookback)..Day(t)

\* The user can be told now, by the real clock and the real match.
Due(e, m, l) ==
  /\ Timely(e, m, l, clock)
  /\ l \in Leads => status[m] = "scheduled" /\ Day(kickoff[m]) <= Day(clock + Lookahead)

\* Key k tells of m, for the date the match has now.
TellsOf(k, e, m, l) == Told(k, e, m, l) /\ k.id.day = Day(kickoff[m])

Recorded(e, m, l) == \E k \in sent : TellsOf(k, e, m, l)

Cached(e, m) == \E f \in cache[e] : f.match = m /\ f.kickoff = kickoff[m]

\* The job that owns the alert is on its way to sending it, or its row is to be committed.
Underway(e, m, l) ==
  LET mine == job[Owner(l)]
  IN  \/ /\ mine.pc # "idle"
         /\ Timely(e, m, l, mine.now)
         /\ \/ e \in mine.left /\ IF l \in Leads THEN Cached(e, m) ELSE mine.pc = "gather"
            \/ \E a \in mine.todo : TellsOf(a.key, e, m, l) /\ a.kickoff = kickoff[m]
            \/ \E r \in mine.inHand : TellsOf(r.key, e, m, l)
      \/ \E r \in pending : TellsOf(r.key, e, m, l)

\* A step the alert may be put off by: the process dies; its own job raises, reminders of
\* events still to come excepted; any job's transaction fails with its row in it; a sync
\* no longer finds the fixture, or no provider answers for the results; its own send
\* fails or only prints; the match is given another kickoff.
Setback(e, m, l) ==
  LET j == Owner(l)
  IN  \/ Crash
      \/ (JobRaises(j) \/ StoreFails(j)) /\ (l \in Leads => e \notin job[j].left)
      \/ (\E i \in Jobs : StoreFails(i)) /\ \E r \in pending : TellsOf(r.key, e, m, l)
      \/ l \in Leads /\ InstallFixtures(e) /\ ~Cached(e, m)'
      \/ l \notin Leads /\ GatherResults(j, e, Providers)
      \/ \E a \in job[j].todo :
           TellsOf(a.key, e, m, l) /\ (SendFailed(j, a) \/ SendToConsole(j, a))
      \/ kickoff'[m] # kickoff[m]

\* The safety half of OnTime: a job of `run' that begins while an alert is due, and for a
\* reminder in the cache, keeps at it, and only a setback of its own stops it short of
\* being recorded.  The other two jobs, their exceptions, a cache replaced under a pass,
\* and other events and matches never do.
OnlySetbacksDelay ==
  [][\A e \in Events, m \in Matches, l \in Labels \ {"shock"} :
       \/ Underway(e, m, l)
       \/ /\ job[Owner(l)].pc = "idle" /\ job'[Owner(l)].pc # "idle"
          /\ Due(e, m, l)
          /\ l \in Leads => Cached(e, m)
       => Underway(e, m, l)' \/ Recorded(e, m, l)' \/ Setback(e, m, l)]_vars

\* Nothing is lost: what stays due is recorded in the end, for the date the match has
\* now, across failed fetches and sends, rolled back records, crashes, failovers, and a
\* fixture cache that is out of date.
OnTime ==
  sender = "telegram" =>
    \A e \in Events, m \in Matches, l \in Labels \ {"shock"} :
      []<>(~Due(e, m, l) \/ Recorded(e, m, l))

=============================================================================
