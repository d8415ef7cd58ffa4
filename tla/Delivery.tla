------------------------------ MODULE Delivery ------------------------------
(***************************************************************************)
(* The multi-user alert service: the delivery cycle of mux_delivery.py     *)
(* with the fan-out planner of fanout.py and the alert engine behind it,   *)
(* running in a worker thread beside the Telegram handlers that change the *)
(* same database, against a clock, data providers and a chat network that  *)
(* can be slow, fail or answer late, and a process that can die and be     *)
(* restarted between any two steps.                                        *)
(*                                                                         *)
(* An alert is named by its dedup key <<chat, match, label>>, where label  *)
(* is a lead-time label for a reminder, "final" or "shock".                *)
(***************************************************************************)
EXTENDS SubscriberStore

CONSTANTS
  Matches,      \* matches, identified by Fixture.stable_id
  CompOf,       \* CompOf[m]: the competition of match m
  Sides,        \* Sides[m]: the two teams of match m
  Kickoff,      \* Kickoff[m]: clock value of the kickoff
  LeadTime,     \* LeadTime[l]: clock units before kickoff of reminder label l
  MaxTime,      \* bound on the clock
  Lookahead,    \* clock units ahead for which fixtures are fetched
  Lookback,     \* clock units back for which results are fetched
  Senders,      \* senders the service may be configured with
  Attempts,     \* requests one HTTP call may issue (HttpClient.max_retries)
  MaxFaults,    \* bound on crashes, raised cycles and lost acknowledgements
  Picks,        \* sets of (competition, team) a user may confirm in onboarding
  AlertPrefs,   \* alert switches and lead-times a user may choose
  InitialStores, \* databases an earlier run may have left
  None          \* no value

Times == 0..MaxTime

Labels == Leads \cup {"final", "shock"}
Keys == Chats \X Matches \X Labels

ChatOf(k) == k[1]
MatchOf(k) == k[2]
LabelOf(k) == k[3]
IsReminder(k) == LabelOf(k) \in Leads

\* What one fetch of a competition brings back (CompetitionData).
Fetched ==
  [error    : BOOLEAN,
   fixtures : SUBSET Matches,
   results  : SUBSET Matches,
   upsets   : SUBSET Matches]

Statuses == {"scheduled", "postponed", "ended", "scored"}

ASSUME DeliveryAssumption ==
  /\ CompOf \in [Matches -> Comps]
  /\ Sides \in [Matches -> SUBSET Teams]
  /\ Kickoff \in [Matches -> Int]
  /\ LeadTime \in [Leads -> Nat]
  /\ {"final", "shock"} \cap Leads = {}
  /\ MaxTime \in Nat
  /\ Lookahead \in Nat
  /\ Lookback \in Nat
  /\ Senders \subseteq {"telegram", "console"}
  /\ Attempts \in Nat \ {0}
  /\ MaxFaults \in Nat
  /\ Picks \subseteq SUBSET Pick
  /\ {} \notin Picks
  /\ AlertPrefs \subseteq Prefs
  /\ InitialStores \subseteq
       [users : [Chats -> Subscriber \cup {Absent}], rows : SUBSET Row]
  /\ \A db \in InitialStores : \A r \in db.rows : db.users[r.chat] # Absent
  /\ None \notin Keys
  /\ None \notin Fetched
  /\ None \notin [chat : Chats, picks : SUBSET Pick]

VARIABLES
  sender,   \* the configured sender: "telegram", or "console" for a dry run
  clock,    \* wall clock
  status,   \* status[m]: the match as the providers report it
  adding,   \* the onboarding commit in progress: its chat and rows still to add
  pc,       \* where the delivery worker is
  now,      \* the cycle's timestamp, taken once when it starts
  roster,   \* the cycle's copy of the active subscribers
  toFetch,  \* competitions this cycle has still to fetch
  data,     \* data[x]: what this cycle fetched for competition x
  toPlan,   \* chats this cycle has still to plan
  owed,     \* planned alerts this cycle has still to handle
  inHand,   \* the alert Telegram accepted and the store does not know of yet
  sent,     \* sent_alerts: the recorded dedup keys
  reported, \* meta: whether a completed cycle has been recorded
  faults,   \* faults that may still happen
  inbox,    \* history: copies of each alert that reached its chat
  unmarked, \* history: copies that reached the chat and were never recorded
  dropped   \* history: keys recorded without a send

workVars == <<now, roster, toFetch, data, toPlan, owed, inHand>>
ledgerVars == <<sent, inbox, unmarked, dropped>>
worldVars == <<sender, clock, status>>
vars == <<users, rows, adding, pc, workVars, ledgerVars, worldVars, reported, faults>>

\* The type invariant.  Only users active in the cycle's copy are planned for and
\* delivered to.
TypeOK ==
  /\ StoreTypeOK
  /\ sender \in Senders
  /\ clock \in Times
  /\ status \in [Matches -> Statuses]
  /\ adding \in [chat : Chats, picks : SUBSET Pick] \cup {None}
  /\ pc \in {"idle", "competitions", "fetch", "plan", "deliver", "mark"}
  /\ now \in Times
  /\ roster \in [Chats -> Subscriber \cup {Absent}]
  /\ toFetch \subseteq Comps
  /\ data \in [Comps -> Fetched \cup {None}]
  /\ toPlan \subseteq {c \in Chats : roster[c] # Absent}
  /\ owed \subseteq {k \in Keys : roster[ChatOf(k)] # Absent}
  /\ inHand \in Keys \cup {None}
  /\ sent \subseteq Keys
  /\ reported \in BOOLEAN
  /\ faults \in 0..MaxFaults
  /\ inbox \in [Keys -> Nat]
  /\ unmarked \in [Keys -> Nat]
  /\ dropped \subseteq Keys

Init ==
  /\ \E db \in InitialStores : users = db.users /\ rows = db.rows
  /\ adding = None
  /\ sender \in Senders
  /\ clock = 0
  /\ status = [m \in Matches |-> "scheduled"]
  /\ pc = "idle"
  /\ now = 0
  /\ roster = [c \in Chats |-> Absent]
  /\ toFetch = {}
  /\ data = [x \in Comps |-> None]
  /\ toPlan = {}
  /\ owed = {}
  /\ inHand = None
  /\ sent = {}
  /\ reported = FALSE
  /\ faults = MaxFaults
  /\ inbox = [k \in Keys |-> 0]
  /\ unmarked = [k \in Keys |-> 0]
  /\ dropped = {}

\* The worker's locals go when a cycle ends, however it ends.
DiscardWork ==
  /\ pc' = "idle"
  /\ now' = 0
  /\ roster' = [c \in Chats |-> Absent]
  /\ toFetch' = {}
  /\ data' = [x \in Comps |-> None]
  /\ toPlan' = {}
  /\ owed' = {}
  /\ inHand' = None

-----------------------------------------------------------------------------
(* The Telegram handlers.  Updates are handled one at a time, so no        *)
(* handler runs while an onboarding commit is still adding its rows; the   *)
(* delivery worker has its own connection and runs in between.             *)

Handler ==
  /\ adding = None
  /\ UNCHANGED <<pc, workVars, ledgerVars, worldVars, reported, faults>>

\* /start: ensure_subscriber; an existing subscriber is left untouched.
Start(c) ==
  /\ Handler
  /\ ~Registered(c)
  /\ UpsertSubscriber(c, NewSubscriber)
  /\ UNCHANGED adding

\* The onboarding Confirm button: commit_onboarding writes the preferences over
\* the existing row (or a new one), then adds the picked rows one by one.
ConfirmOnboarding(c, prefs, picks) ==
  /\ Handler
  /\ UpsertSubscriber(c,
       WithPrefs(IF Registered(c) THEN users[c] ELSE NewSubscriber, prefs))
  /\ adding' = [chat |-> c, picks |-> picks]

AddPicked ==
  /\ adding # None
  /\ \E p \in adding.picks :
       /\ AddSubscription([chat |-> adding.chat, comp |-> p[1], team |-> p[2]])
       /\ adding' = IF adding.picks = {p}
                      THEN None
                      ELSE [adding EXCEPT !.picks = @ \ {p}]
  /\ UNCHANGED <<pc, workVars, ledgerVars, worldVars, reported, faults>>

Pause(c) ==
  /\ Handler
  /\ Registered(c) /\ users[c].status = "active"
  /\ SetStatus(c, "paused")
  /\ UNCHANGED adding

Resume(c) ==
  /\ Handler
  /\ Registered(c) /\ users[c].status # "active"
  /\ SetStatus(c, "active")
  /\ UNCHANGED adding

\* /edit, Save: the alert switches and lead-times of an existing subscriber.
SaveEdit(c, prefs) ==
  /\ Handler
  /\ Registered(c)
  /\ UpsertSubscriber(c, WithPrefs(users[c], prefs))
  /\ UNCHANGED adding

\* /settings: a quiet-hours preset, quiet hours off, or a new timezone.
SetQuiet(c, window) ==
  /\ Handler
  /\ Registered(c)
  /\ UpsertSubscriber(c, [users[c] EXCEPT !.quiet = window])
  /\ UNCHANGED adding

\* /unsubscribe: one team, or everything in a competition.
Unsubscribe(c) ==
  /\ Handler
  /\ \E x \in {r.comp : r \in ListSubscriptions(c)} :
       LET there == {r \in ListSubscriptions(c) : r.comp = x}
       IN  \E gone \in {there} \cup {{r} : r \in there} : RemoveSubscriptions(gone)
  /\ UNCHANGED adding

\* /stop, confirmed.  sent_alerts is left alone.
Stop(c) ==
  /\ Handler
  /\ Registered(c)
  /\ DeleteSubscriber(c)
  /\ UNCHANGED adding

BotStep ==
  \/ AddPicked
  \/ \E c \in Chats :
       \/ Start(c)
       \/ \E prefs \in AlertPrefs, picks \in Picks : ConfirmOnboarding(c, prefs, picks)
       \/ Pause(c)
       \/ Resume(c)
       \/ \E prefs \in AlertPrefs : SaveEdit(c, prefs)
       \/ \E window \in Windows : SetQuiet(c, window)
       \/ Unsubscribe(c)
       \/ Stop(c)

-----------------------------------------------------------------------------
(* The delivery worker: one call of run_delivery_cycle *)

Worker(here) ==
  /\ pc = here
  /\ UNCHANGED <<users, rows, adding, worldVars>>

\* The cycle's only look at the clock, and its copy of the active subscribers.
StartCycle ==
  /\ Worker("idle")
  /\ pc' = "competitions"
  /\ now' = clock
  /\ roster' = ActiveRoster
  /\ UNCHANGED <<toFetch, data, toPlan, owed, inHand, ledgerVars, reported, faults>>

ReadCompetitions ==
  /\ Worker("competitions")
  /\ pc' = "fetch"
  /\ toFetch' = ActiveCompetitions
  /\ UNCHANGED <<now, roster, data, toPlan, owed, inHand, ledgerVars, reported, faults>>

\* Fixtures of x the reminder planner would consider: in the fetched range, not
\* yet kicked off, and upcoming at the moment they are fetched.
UpcomingIn(x) ==
  {m \in Matches : /\ CompOf[m] = x
                   /\ now < Kickoff[m] /\ Kickoff[m] <= now + Lookahead
                   /\ status[m] = "scheduled"}

\* Results of x the evaluation would consider: finished, with a score.
ResultsIn(x) ==
  {m \in Matches : /\ CompOf[m] = x
                   /\ now - Lookback <= Kickoff[m] /\ Kickoff[m] <= now
                   /\ status[m] = "scored"}

\* Mutant: when the fixtures of a competition fail, the loop starts over.
FetchUntilItWorks(x, fixturesOk, resultsOk) ==
  /\ Worker("fetch")
  /\ x \in toFetch
  /\ toFetch' = toFetch \ {x}
  /\ pc' = IF fixturesOk THEN "fetch" ELSE "competitions"
  /\ data' = [data EXCEPT ![x] =
                 [error    |-> ~fixturesOk,
                  fixtures |-> IF fixturesOk THEN UpcomingIn(x) ELSE {},
                  results  |-> IF resultsOk THEN ResultsIn(x) ELSE {},
                  upsets   |-> {}]]
  /\ UNCHANGED <<now, roster, toPlan, owed, inHand, ledgerVars, reported, faults>>

\* Mutant: one try for both requests, so that results go with the fixtures.
FetchBothOrNothing(x, fixturesOk, resultsOk) ==
  /\ Worker("fetch")
  /\ x \in toFetch
  /\ toFetch' = toFetch \ {x}
  /\ data' = [data EXCEPT ![x] =
                [error    |-> ~fixturesOk,
                 fixtures |-> IF fixturesOk THEN UpcomingIn(x) ELSE {},
                 results  |-> IF fixturesOk /\ resultsOk THEN ResultsIn(x) ELSE {},
                 upsets   |-> {}]]
  /\ UNCHANGED <<pc, now, roster, toPlan, owed, inHand, ledgerVars, reported, faults>>

\* One round of fetch_competition_data.  A provider error on fixtures, on results
\* or on both is recorded and does not end the loop.  Which results are upsets is
\* decided once per match and cycle, from odds or standings this module leaves open.
FetchCompetition(x, fixturesOk, resultsOk) ==
  /\ Worker("fetch")
  /\ x \in toFetch
  /\ toFetch' = toFetch \ {x}
  /\ LET results == IF resultsOk THEN ResultsIn(x) ELSE {}
     IN  \E upsets \in SUBSET results :
           data' = [data EXCEPT ![x] =
                      [error    |-> ~fixturesOk,
                       fixtures |-> IF fixturesOk THEN UpcomingIn(x) ELSE {},
                       results  |-> results,
                       upsets   |-> upsets]]
  /\ UNCHANGED <<pc, now, roster, toPlan, owed, inHand, ledgerVars, reported, faults>>

\* Mutant: paused subscribers are planned as well.
FinishFetchingForAll ==
  /\ Worker("fetch")
  /\ toFetch = {}
  /\ pc' = "plan"
  /\ toPlan' = {c \in Chats : Registered(c)}
  /\ UNCHANGED <<now, roster, toFetch, data, owed, inHand, ledgerVars, reported, faults>>

FinishFetching ==
  /\ Worker("fetch")
  /\ toFetch = {}
  /\ pc' = "plan"
  /\ toPlan' = {c \in Chats : roster[c] # Absent}
  /\ UNCHANGED <<now, roster, toFetch, data, owed, inHand, ledgerVars, reported, faults>>

Watched(matches, watchlist) ==
  {m \in matches : watchlist = {} \/ Sides[m] \cap watchlist # {}}

\* effective_config falls back to the default lead-times.
EffectiveLeads(sub) == IF sub.leads = {} THEN DefaultLeads ELSE sub.leads

\* Mutant: include_past=False, so a reminder whose lead window has come is not made up.
AlertsWithoutCatchUp(c, sub, fetched, watchlist) ==
  LET upcoming == Watched(fetched.fixtures, watchlist)
      results  == Watched(fetched.results, watchlist)
      ahead(l) == {f \in upcoming : Kickoff[f] - LeadTime[l] >= now}
  IN  {k \in {c} \X upcoming \X EffectiveLeads(sub) :
         sub.reminders /\ ~fetched.error /\ MatchOf(k) \in ahead(LabelOf(k))}
      \cup {<<c, r, "final">> : r \in IF sub.finals THEN results ELSE {}}

\* Mutant: the upset switch of the subscriber is not looked at.
AlertsWithUnwantedUpsets(c, sub, fetched, watchlist) ==
  LET upcoming == Watched(fetched.fixtures, watchlist)
      results  == Watched(fetched.results, watchlist)
      Asked(wanted, matches, labels) == IF wanted THEN {c} \X matches \X labels ELSE {}
  IN  Asked(sub.reminders /\ ~fetched.error, upcoming, EffectiveLeads(sub))
      \cup Asked(sub.finals, results, {"final"})
      \cup Asked(TRUE, results \cap fetched.upsets, {"shock"})

\* plan_for_subscriber for one competition: reminders whose lead window has already
\* come are included (include_past), then finals and upsets.
AlertsFor(c, sub, fetched, watchlist) ==
  LET upcoming == Watched(fetched.fixtures, watchlist)
      results  == Watched(fetched.results, watchlist)
      Asked(wanted, matches, labels) == IF wanted THEN {c} \X matches \X labels ELSE {}
  IN  Asked(sub.reminders /\ ~fetched.error, upcoming, EffectiveLeads(sub))
      \cup Asked(sub.finals, results, {"final"})
      \cup Asked(sub.upsets, results \cap fetched.upsets, {"shock"})

\* Mutant: the planner forgets engine.unsent.
PlanWithoutDedup(c) ==
  /\ Worker("plan")
  /\ c \in toPlan
  /\ toPlan' = toPlan \ {c}
  /\ LET mine    == ListSubscriptions(c)
         fetched == {x \in {r.comp : r \in mine} : data[x] # None}
     IN  owed' = owed \cup
           UNION {AlertsFor(c, roster[c], data[x], Watchlist(mine, x)) : x \in fetched}
  /\ UNCHANGED <<pc, now, roster, toFetch, data, inHand, ledgerVars, reported, faults>>

\* The subscriptions are read now, the preferences were read when the cycle began,
\* and a competition that was not fetched is passed over.
PlanSubscriber(c) ==
  /\ Worker("plan")
  /\ c \in toPlan
  /\ toPlan' = toPlan \ {c}
  /\ LET mine    == ListSubscriptions(c)
         fetched == {x \in {r.comp : r \in mine} : data[x] # None}
         alerts  == UNION {AlertsFor(c, roster[c], data[x], Watchlist(mine, x)) :
                             x \in fetched}
     IN  owed' = owed \cup (alerts \ sent)
  /\ UNCHANGED <<pc, now, roster, toFetch, data, inHand, ledgerVars, reported, faults>>

\* The fetched data is the planner's own and goes when it returns.
FinishPlanning ==
  /\ Worker("plan")
  /\ toPlan = {}
  /\ pc' = "deliver"
  /\ data' = [x \in Comps |-> None]
  /\ UNCHANGED <<now, roster, toFetch, toPlan, owed, inHand, ledgerVars, reported, faults>>

InQuietHours(sub, t) == t \in sub.quiet

\* Mutant: the lead window is not waited for.
ClassifyWithoutWait(k) ==
  LET sub == roster[ChatOf(k)]
  IN  IF IsReminder(k) /\ Kickoff[MatchOf(k)] <= now THEN "drop"
      ELSE IF InQuietHours(sub, now)
             THEN IF sub.behavior = "defer" THEN "defer" ELSE "drop"
      ELSE "send"

\* Mutant: the clock is looked at again, and a reminder that got late is dropped.
ClassifyByClock(k) ==
  LET sub   == roster[ChatOf(k)]
      start == Kickoff[MatchOf(k)]
  IN  IF IsReminder(k) /\ start <= clock THEN "drop"
      ELSE IF IsReminder(k) /\ start - LeadTime[LabelOf(k)] > clock THEN "wait"
      ELSE IF InQuietHours(sub, clock)
             THEN IF sub.behavior = "defer" THEN "defer" ELSE "drop"
      ELSE "send"

\* classify_reminder and classify_result, with the cycle's timestamp.
Classify(k) ==
  LET sub   == roster[ChatOf(k)]
      start == Kickoff[MatchOf(k)]
  IN  IF IsReminder(k) /\ start <= now THEN "drop"
      ELSE IF IsReminder(k) /\ start - LeadTime[LabelOf(k)] > now THEN "wait"
      ELSE IF InQuietHours(sub, now)
             THEN IF sub.behavior = "defer" THEN "defer" ELSE "drop"
      ELSE "send"

\* The next alert of the plan, taken off it whatever becomes of it.
Handle(k, action) ==
  /\ Worker("deliver")
  /\ k \in owed
  /\ Classify(k) = action
  /\ owed' = owed \ {k}
  /\ UNCHANGED <<now, roster, toFetch, data, toPlan, reported>>

\* Quiet-hours defer, or the lead window has not come: left for a later cycle.
LeaveForLater(k) ==
  /\ Handle(k, "defer") \/ Handle(k, "wait")
  /\ UNCHANGED <<pc, inHand, ledgerVars, faults>>

\* Recorded without a send, so that it never resurfaces.
Drop(k) ==
  /\ Handle(k, "drop")
  /\ sent' = sent \cup {k}
  /\ dropped' = dropped \cup {k}
  /\ UNCHANGED <<pc, inHand, inbox, unmarked, faults>>

\* A dry run prints the alert; the printed alert is not recorded.
SendToConsole(k) ==
  /\ sender = "console"
  /\ Handle(k, "send")
  /\ UNCHANGED <<pc, inHand, ledgerVars, faults>>

\* Of the requests of one send, `lost' reached Telegram with no answer coming back.
Unanswered(k, lost) ==
  /\ lost <= faults
  /\ faults' = faults - lost
  /\ unmarked' = [unmarked EXCEPT ![k] = @ + lost]

\* A send Telegram answered with ok, after at most Attempts-1 unanswered requests.
SendAccepted(k) ==
  /\ sender = "telegram"
  /\ Handle(k, "send")
  /\ \E lost \in 0..(Attempts - 1) :
       /\ Unanswered(k, lost)
       /\ inbox' = [inbox EXCEPT ![k] = @ + lost + 1]
  /\ pc' = "mark"
  /\ inHand' = k
  /\ UNCHANGED <<sent, dropped>>

\* Mutant: an alert is recorded whatever the send reported.
SendFailedButMarked(k) ==
  /\ sender = "telegram"
  /\ Handle(k, "send")
  /\ sent' = sent \cup {k}
  /\ UNCHANGED <<pc, inHand, inbox, unmarked, dropped, faults>>

\* Mutant: an alert whose send failed is put back and tried again in the same cycle.
SendFailedAndRetried(k) ==
  /\ Worker("deliver")
  /\ k \in owed
  /\ sender = "telegram"
  /\ Classify(k) = "send"
  /\ \E lost \in 0..Attempts :
       /\ Unanswered(k, lost)
       /\ inbox' = [inbox EXCEPT ![k] = @ + lost]
  /\ UNCHANGED <<pc, workVars, sent, dropped, reported>>

\* A send reported as failed: refused, unreachable, or never answered.
SendFailed(k) ==
  /\ sender = "telegram"
  /\ Handle(k, "send")
  /\ \E lost \in 0..Attempts :
       /\ Unanswered(k, lost)
       /\ inbox' = [inbox EXCEPT ![k] = @ + lost]
  /\ UNCHANGED <<pc, inHand, sent, dropped>>

\* Mutant: the dry-run test of _deliver is the wrong way round.
MarkInDryRunOnly ==
  /\ Worker("mark")
  /\ pc' = "deliver"
  /\ inHand' = None
  /\ UNCHANGED <<now, roster, toFetch, data, toPlan, owed, ledgerVars, reported, faults>>

\* mark_sent: a transaction of its own, after the send.
MarkSent ==
  /\ Worker("mark")
  /\ pc' = "deliver"
  /\ sent' = sent \cup {inHand}
  /\ inHand' = None
  /\ UNCHANGED <<now, roster, toFetch, data, toPlan, owed, inbox, unmarked, dropped,
                 reported, faults>>

FinishCycle ==
  /\ Worker("deliver")
  /\ owed = {}
  /\ reported' = TRUE
  /\ DiscardWork
  /\ UNCHANGED <<ledgerVars, faults>>

WorkerStep ==
  \/ StartCycle
  \/ ReadCompetitions
  \/ \E x \in Comps, fixturesOk, resultsOk \in BOOLEAN :
       FetchCompetition(x, fixturesOk, resultsOk)
  \/ FinishFetching
  \/ \E c \in Chats : PlanSubscriber(c)
  \/ FinishPlanning
  \/ \E k \in owed : \/ LeaveForLater(k)
                     \/ Drop(k)
                     \/ SendToConsole(k)
                     \/ SendAccepted(k)
                     \/ SendFailed(k)
  \/ MarkSent
  \/ FinishCycle

-----------------------------------------------------------------------------
(* Faults and the world *)

\* The cycle is lost; a copy that was accepted but not recorded stays unrecorded.
LoseCycle ==
  /\ faults > 0
  /\ faults' = faults - 1
  /\ DiscardWork
  /\ unmarked' = IF pc = "mark" THEN [unmarked EXCEPT ![inHand] = @ + 1] ELSE unmarked
  /\ UNCHANGED <<users, rows, sent, inbox, dropped, worldVars, reported>>

\* An exception other than ProviderError (a malformed answer while fetching or
\* evaluating, a database still locked after the busy timeout) ends the cycle; the
\* bot's job logs it and waits for the next interval.
CycleRaises ==
  /\ pc # "idle"
  /\ LoseCycle
  /\ UNCHANGED adding

\* The process dies and is restarted: only the database survives.
Crash ==
  /\ pc # "idle" \/ adding # None
  /\ LoseCycle
  /\ adding' = None

World ==
  UNCHANGED <<users, rows, adding, pc, workVars, ledgerVars, reported, faults, sender>>

Tick ==
  /\ World
  /\ clock < MaxTime
  /\ clock' = clock + 1
  /\ UNCHANGED status

SetMatchStatus(m, from, to) ==
  /\ World
  /\ status[m] = from
  /\ status' = [status EXCEPT ![m] = to]
  /\ UNCHANGED clock

Postpone(m) == clock < Kickoff[m] /\ SetMatchStatus(m, "scheduled", "postponed")
Reinstate(m) == clock < Kickoff[m] /\ SetMatchStatus(m, "postponed", "scheduled")
FullTime(m) == clock > Kickoff[m] /\ SetMatchStatus(m, "scheduled", "ended")
ScoreKnown(m) == SetMatchStatus(m, "ended", "scored")

WorldStep ==
  \/ Tick
  \/ \E m \in Matches : Postpone(m) \/ Reinstate(m) \/ FullTime(m) \/ ScoreKnown(m)

Next ==
  \/ BotStep
  \/ WorkerStep
  \/ CycleRaises
  \/ Crash
  \/ WorldStep

Spec == Init /\ [][Next]_vars

\* What the scheduling justifies: the worker thread keeps running and the job keeps
\* being repeated; a competition in `answering' is sometimes fetched in full and a
\* chat in `reachable' sometimes accepts a message, however often each fails.
Fairness(answering, reachable) ==
  /\ WF_vars(WorkerStep)
  /\ \A x \in answering : SF_vars(FetchCompetition(x, TRUE, TRUE))
  /\ \A k \in {j \in Keys : ChatOf(j) \in reachable} : SF_vars(SendAccepted(k))

-----------------------------------------------------------------------------
(* Properties *)

\* The foreign key of subscriptions, and what an unfinished onboarding commit needs
\* of it: every row, written or still to be written, belongs to a subscriber.
ForeignKey ==
  /\ \A r \in rows : Registered(r.chat)
  /\ adding # None => Registered(adding.chat)

\* An alert the cycle still owes, or has just sent, is not recorded as sent, and it
\* is in one place only.  This is what makes the planner's one look at sent_alerts
\* enough for the whole cycle.
NothingOwedIsSettled ==
  /\ owed \cap sent = {}
  /\ pc = "mark" => inHand \in Keys \ (sent \cup owed)
  /\ pc \notin {"plan", "deliver", "mark"} => owed = {}

\* Exact bookkeeping of duplicates: beyond the copy that is recorded (or about to
\* be), every copy of an alert in a chat is one whose acknowledgement or record was
\* lost.  Without faults an alert reaches its chat at most once.
CopiesAccounted ==
  \A k \in Keys :
    inbox[k] = unmarked[k] + IF k \in sent \ dropped \/ inHand = k THEN 1 ELSE 0

\* Duplicates are paid for: each copy beyond the first has cost a fault of its own, a
\* lost acknowledgement or a lost cycle, whatever else went wrong (failed fetches,
\* refused sends, users stopping and coming back).
CopiesBounded == \A k \in Keys : inbox[k] <= 1 + (MaxFaults - faults)

\* Delivery is at-least-once: no alert is recorded unsent except on purpose, and
\* none is sent once it is recorded.
Outbox == INSTANCE AlertOutbox
            WITH settled <- sent, suppressed <- dropped, Copies <- Attempts

ImplementsOutbox == Outbox!OutboxSpec

Reaches(k) == inbox'[k] > inbox[k]

\* No message is early, by the real clock and the real match: a reminder only once
\* its lead window has come, a result only once the score is out.
NeverEarly ==
  [][\A k \in Keys : Reaches(k) =>
       IF IsReminder(k) THEN clock >= Kickoff[MatchOf(k)] - LeadTime[LabelOf(k)]
                        ELSE status[MatchOf(k)] = "scored"]_vars

\* An alert is recorded without a send only for a user who chose to suppress during
\* quiet hours: the "stale" drop of classify_reminder is never what decides.
OnlySuppressedAreDropped ==
  [][\A k \in dropped' \ dropped :
       /\ roster[ChatOf(k)].behavior = "suppress"
       /\ now \in roster[ChatOf(k)].quiet]_vars

\* The remaining work of a cycle only shrinks: a worker step moves to a later stage or
\* takes something off what the stage has left, and nothing the users or the world do
\* meanwhile adds to it.  With finitely many competitions, chats and alerts no cycle
\* takes steps for ever, however many fetches and sends fail.
Stage(p) ==
  CASE p = "competitions" -> 1 [] p = "fetch" -> 2 [] p = "plan" -> 3 [] OTHER -> 4

Shrinks(left, before) == left \subseteq before /\ left # before

WorkShrinks ==
  [][pc # "idle" /\ pc' # "idle" =>
       \/ UNCHANGED <<pc, workVars, ledgerVars, reported, faults>>
       \/ Stage(pc) < Stage(pc')
       \/ /\ Stage(pc) = Stage(pc')
          /\ CASE pc = "fetch" -> Shrinks(toFetch', toFetch)
               [] pc = "plan" -> Shrinks(toPlan', toPlan)
               [] pc = "deliver" -> Shrinks(owed', owed)
               [] pc = "mark" -> pc' = "deliver" /\ owed' = owed
               [] OTHER -> FALSE]_vars

\* A cycle always comes to its end, whatever fails inside it.
CyclesEnd == pc # "idle" ~> pc = "idle"

\* The switches and lead-times of sub ask for alert k.
Asks(sub, k) ==
  /\ IsReminder(k) => sub.reminders /\ LabelOf(k) \in EffectiveLeads(sub)
  /\ LabelOf(k) = "final" => sub.finals
  /\ LabelOf(k) = "shock" => sub.upsets

\* At time t a reminder or a final is asked for by sub, wanted now and not in quiet hours.
Timely(k, sub, t) ==
  LET start == Kickoff[MatchOf(k)]
  IN  /\ Asks(sub, k)
      /\ ~InQuietHours(sub, t)
      /\ \/ /\ IsReminder(k)
            /\ t \in start - LeadTime[LabelOf(k)] .. start - 1
            /\ start <= t + Lookahead
         \/ LabelOf(k) = "final" /\ t \in start .. start + Lookback

\* A message goes by the cycle's copy of the preferences: it reaches a chat that was
\* active, had asked for its kind and lead-time and was not in quiet hours when the
\* cycle began.  What the chat changes later counts from the next cycle on.
OnlyWhatWasAsked ==
  [][\A k \in Keys : Reaches(k) =>
       LET sub == roster[ChatOf(k)]
       IN  /\ sub # Absent
           /\ sub.status = "active"
           /\ Asks(sub, k)
           /\ ~InQuietHours(sub, now)]_vars

\* The alert can be sent now, by the real clock, database and match.
Due(k) ==
  LET chat == ChatOf(k)
      match == MatchOf(k)
      mine == ListSubscriptions(chat)
  IN  /\ ActiveRoster[chat] # Absent
      /\ CompOf[match] \in {r.comp : r \in mine}
      /\ match \in Watched({match}, Watchlist(mine, CompOf[match]))
      /\ Timely(k, users[chat], clock)
      /\ status[match] = IF IsReminder(k) THEN "scheduled" ELSE "scored"

\* What the cycle has fetched is enough to plan alert k from.
InData(k) ==
  LET got == data[CompOf[MatchOf(k)]]
  IN  /\ got # None
      /\ IF IsReminder(k) THEN ~got.error /\ MatchOf(k) \in got.fixtures
                          ELSE MatchOf(k) \in got.results

\* The cycle is on its way to settling alert k.
Pursued(k) ==
  /\ k \notin sent
  /\ roster[ChatOf(k)] # Absent
  /\ Timely(k, roster[ChatOf(k)], now)
  /\ \/ pc = "competitions"
     \/ pc = "fetch" /\ (CompOf[MatchOf(k)] \in toFetch \/ InData(k))
     \/ pc = "plan" /\ ChatOf(k) \in toPlan /\ InData(k)
     \/ k \in owed
     \/ inHand = k

\* A step the alert may be put off by: the cycle is lost, a provider withholds its
\* competition's fixtures (or results), its send fails, or this is a dry run.
Setback(k) ==
  LET comp == CompOf[MatchOf(k)]
  IN  \/ CycleRaises \/ Crash
      \/ /\ IsReminder(k)
         /\ \E ok \in BOOLEAN :
              FetchCompetition(comp, FALSE, ok) /\ ~FetchCompetition(comp, TRUE, ok)
      \/ /\ ~IsReminder(k)
         /\ \E ok \in BOOLEAN :
              FetchCompetition(comp, ok, FALSE) /\ ~FetchCompetition(comp, ok, TRUE)
      \/ SendFailed(k) \/ SendToConsole(k)

\* The safety half of DueAlertsSettle: a cycle that begins while an alert is due pursues
\* it, and as long as the alert stays due only a setback of its own stops the cycle
\* short of delivering and recording it; other users' alerts, other competitions and the handlers
\* never do.
OnlySetbacksDelay ==
  [][\A k \in Keys :
       Due(k) /\ (Pursued(k) \/ (pc = "idle" /\ pc' # "idle" /\ k \notin sent))
         => Pursued(k)' \/ k \in sent' \ dropped' \/ Setback(k)]_vars

\* Nothing is lost: an alert that stays due is recorded in the end, across failed
\* fetches, failed sends, crashes and restarts.  Only answering competitions and
\* reachable chats are promised this, and the others do not get in their way.
DueAlertsSettle(answering, reachable) ==
  \A k \in Keys :
    ChatOf(k) \in reachable /\ CompOf[MatchOf(k)] \in answering
      => (<>[]Due(k) => <>(k \in sent))

\* What the documents promise and the code does not (each has a run of its own).

\* An alert reaches its chat at most once (README: "exactly-once alerts that survive
\* restarts").
ExactlyOnce == \A k \in Keys : inbox[k] <= 1

\* No alert reaches a chat that has stopped or paused (the texts of /stop and /pause).
SilentWhenOff ==
  [][\A k \in Keys : Reaches(k) => ActiveRoster[ChatOf(k)] # Absent]_vars

\* No reminder reaches a chat after the kickoff (PLAN: "stale reminders (match already
\* started) never fire").
NoStaleReminder ==
  [][\A k \in Keys : Reaches(k) /\ IsReminder(k) => clock < Kickoff[MatchOf(k)]]_vars

\* A dry run records nothing, so it can be repeated (the comment in _deliver: "Persist
\* dedup only on a real delivery so dry-runs stay repeatable").
DryRunRecordsNothing == sender = "console" => sent = {}

=============================================================================
