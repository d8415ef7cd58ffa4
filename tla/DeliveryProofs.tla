--------------------------- MODULE DeliveryProofs ---------------------------
(***************************************************************************)
(* Theorems about Delivery, for every number of users, competitions,       *)
(* matches, lead-times, clock values and faults.                           *)
(***************************************************************************)
EXTENDS Delivery, TLAPS

\* An idle worker has no work left, and an accepted alert is in hand until it is
\* recorded.
WorkInv ==
  /\ pc = "idle" => toPlan = {} /\ owed = {}
  /\ pc = "mark" => inHand \in Keys
  /\ pc # "mark" => inHand = None
  /\ dropped \subseteq sent

TypeInv == TypeOK /\ WorkInv

-----------------------------------------------------------------------------
(* The parts of a key, and what the store's operations return *)

LEMMA KeyParts ==
  ASSUME NEW k \in Keys
  PROVE  ChatOf(k) \in Chats /\ MatchOf(k) \in Matches /\ LabelOf(k) \in Labels
BY DEF Keys, ChatOf, MatchOf, LabelOf

LEMMA NewSubscriberType == NewSubscriber \in Subscriber
BY StoreAssumption DEF NewSubscriber, Subscriber, Behaviors

\* Saving preferences gives a subscriber row again.
LEMMA SavedPrefsType ==
  ASSUME NEW sub \in Subscriber, NEW prefs \in AlertPrefs
  PROVE  WithPrefs(sub, prefs) \in Subscriber
<1>1. prefs \in Prefs
  BY DeliveryAssumption
<1>2. DefaultLeads \subseteq Leads
  BY StoreAssumption
<1> QED
  BY <1>1, <1>2 DEF WithPrefs, Prefs, Subscriber

LEMMA UpsertType ==
  ASSUME StoreTypeOK, NEW c \in Chats, NEW sub \in Subscriber, UpsertSubscriber(c, sub)
  PROVE  StoreTypeOK'
BY DEF StoreTypeOK, UpsertSubscriber

LEMMA RosterType ==
  ASSUME StoreTypeOK
  PROVE  ActiveRoster \in [Chats -> Subscriber \cup {Absent}]
BY DEF StoreTypeOK, ActiveRoster, Registered

LEMMA AlertsForType ==
  ASSUME NEW c \in Chats, NEW sub \in Subscriber, NEW fetched \in Fetched,
         NEW watchlist
  PROVE  \A k \in AlertsFor(c, sub, fetched, watchlist) : k \in Keys /\ ChatOf(k) = c
<1>1. EffectiveLeads(sub) \subseteq Leads
  BY StoreAssumption DEF EffectiveLeads, Subscriber
<1>2. /\ Watched(fetched.fixtures, watchlist) \subseteq Matches
      /\ Watched(fetched.results, watchlist) \subseteq Matches
  BY DEF Watched, Fetched
<1> QED
  BY <1>1, <1>2 DEF AlertsFor, Keys, Labels, ChatOf

-----------------------------------------------------------------------------
(* Type correctness *)

LEMMA InitType == Init => TypeInv
<1> SUFFICES ASSUME Init PROVE TypeInv
  OBVIOUS
<1>1. StoreTypeOK
  <2>1. PICK db \in InitialStores : users = db.users /\ rows = db.rows
    BY DEF Init
  <2>2. db \in [users : [Chats -> Subscriber \cup {Absent}], rows : SUBSET Row]
    BY DeliveryAssumption
  <2> QED
    BY <2>1, <2>2 DEF StoreTypeOK
<1>2. sender \in Senders /\ clock \in Times /\ now \in Times /\ faults \in 0..MaxFaults
  BY DeliveryAssumption DEF Init, Times
<1> QED
  BY <1>1, <1>2 DEF Init, TypeInv, TypeOK, WorkInv, Statuses

\* The handlers leave the worker, the ledger and the world alone.
LEMMA HandlerType ==
  ASSUME TypeInv,
         UNCHANGED <<pc, workVars, ledgerVars, worldVars, reported, faults>>,
         StoreTypeOK',
         (adding \in [chat : Chats, picks : SUBSET Pick] \cup {None})'
  PROVE  TypeInv'
BY DEF TypeInv, TypeOK, WorkInv, workVars, ledgerVars, worldVars

LEMMA BotType ==
  ASSUME TypeInv, BotStep
  PROVE  TypeInv'
<1> USE DEF TypeInv, TypeOK
<1>1. CASE AddPicked
  <2>1. PICK p \in adding.picks :
          /\ AddSubscription([chat |-> adding.chat, comp |-> p[1], team |-> p[2]])
          /\ adding' = IF adding.picks = {p} THEN None
                                           ELSE [adding EXCEPT !.picks = @ \ {p}]
    BY <1>1 DEF AddPicked
  <2>2. adding \in [chat : Chats, picks : SUBSET Pick]
    BY <1>1 DEF AddPicked
  <2>3. [chat |-> adding.chat, comp |-> p[1], team |-> p[2]] \in Row
    BY <2>2 DEF Row, Pick
  <2>4. StoreTypeOK'
    BY <2>1, <2>3 DEF AddSubscription, StoreTypeOK
  <2>5. adding' \in [chat : Chats, picks : SUBSET Pick] \cup {None}
    BY <2>1, <2>2
  <2> QED
    BY <1>1, <2>4, <2>5, HandlerType DEF AddPicked
<1>2. ASSUME NEW c \in Chats, Start(c)
      PROVE  TypeInv'
  <2>1. StoreTypeOK'
    BY <1>2, NewSubscriberType, UpsertType DEF Start
  <2> QED
    BY <1>2, <2>1, HandlerType DEF Start, Handler
<1>3. ASSUME NEW c \in Chats, NEW prefs \in AlertPrefs, NEW picks \in Picks,
             ConfirmOnboarding(c, prefs, picks)
      PROVE  TypeInv'
  <2>1. (IF Registered(c) THEN users[c] ELSE NewSubscriber) \in Subscriber
    BY NewSubscriberType DEF StoreTypeOK, Registered
  <2>2. StoreTypeOK'
    BY <1>3, <2>1, SavedPrefsType, UpsertType DEF ConfirmOnboarding
  <2>3. adding' \in [chat : Chats, picks : SUBSET Pick]
    BY <1>3, DeliveryAssumption DEF ConfirmOnboarding
  <2> QED
    BY <1>3, <2>2, <2>3, HandlerType DEF ConfirmOnboarding, Handler
<1>4. ASSUME NEW c \in Chats, Pause(c) \/ Resume(c)
      PROVE  TypeInv'
  <2>1. StoreTypeOK'
    BY <1>4 DEF Pause, Resume, SetStatus, StoreTypeOK, Registered, Subscriber
  <2> QED
    BY <1>4, <2>1, HandlerType DEF Pause, Resume, Handler
<1>5. ASSUME NEW c \in Chats, NEW prefs \in AlertPrefs, SaveEdit(c, prefs)
      PROVE  TypeInv'
  <2>1. users[c] \in Subscriber
    BY <1>5 DEF SaveEdit, StoreTypeOK, Registered
  <2>2. StoreTypeOK'
    BY <1>5, <2>1, SavedPrefsType, UpsertType DEF SaveEdit
  <2> QED
    BY <1>5, <2>2, HandlerType DEF SaveEdit, Handler
<1>6. ASSUME NEW c \in Chats, NEW window \in Windows, SetQuiet(c, window)
      PROVE  TypeInv'
  <2>1. [users[c] EXCEPT !.quiet = window] \in Subscriber
    BY <1>6 DEF SetQuiet, StoreTypeOK, Registered, Subscriber
  <2>2. StoreTypeOK'
    BY <1>6, <2>1, UpsertType DEF SetQuiet
  <2> QED
    BY <1>6, <2>2, HandlerType DEF SetQuiet, Handler
<1>7. ASSUME NEW c \in Chats, Unsubscribe(c)
      PROVE  TypeInv'
  <2>1. StoreTypeOK'
    BY <1>7 DEF Unsubscribe, RemoveSubscriptions, StoreTypeOK
  <2> QED
    BY <1>7, <2>1, HandlerType DEF Unsubscribe, Handler
<1>8. ASSUME NEW c \in Chats, Stop(c)
      PROVE  TypeInv'
  <2>1. StoreTypeOK'
    BY <1>8 DEF Stop, DeleteSubscriber, StoreTypeOK
  <2> QED
    BY <1>8, <2>1, HandlerType DEF Stop, Handler
<1> QED
  BY <1>1, <1>2, <1>3, <1>4, <1>5, <1>6, <1>7, <1>8 DEF BotStep

LEMMA FetchedType ==
  ASSUME NEW x, NEW fixturesOk \in BOOLEAN, NEW resultsOk \in BOOLEAN,
         FetchCompetition(x, fixturesOk, resultsOk), TypeInv
  PROVE  data' \in [Comps -> Fetched \cup {None}]
<1> DEFINE results == IF resultsOk THEN ResultsIn(x) ELSE {}
<1>1. PICK upsets \in SUBSET results :
        data' = [data EXCEPT ![x] =
                   [error    |-> ~fixturesOk,
                    fixtures |-> IF fixturesOk THEN UpcomingIn(x) ELSE {},
                    results  |-> results,
                    upsets   |-> upsets]]
  BY DEF FetchCompetition
<1>2. UpcomingIn(x) \subseteq Matches /\ results \subseteq Matches
  BY DEF UpcomingIn, ResultsIn
<1>3. [error    |-> ~fixturesOk,
       fixtures |-> IF fixturesOk THEN UpcomingIn(x) ELSE {},
       results  |-> results,
       upsets   |-> upsets] \in Fetched
  <2> HIDE DEF results
  <2> QED
    BY <1>2 DEF Fetched
<1> QED
  BY <1>1, <1>3 DEF TypeInv, TypeOK

\* What planning a chat adds to the work: keys of that chat.
LEMMA PlannedType ==
  ASSUME TypeInv, NEW c \in toPlan, PlanSubscriber(c)
  PROVE  /\ c \in Chats /\ roster[c] \in Subscriber
         /\ owed \subseteq owed'
         /\ \A k \in owed' \ owed : k \in Keys /\ ChatOf(k) = c /\ k \notin sent
<1>1. c \in Chats /\ roster[c] \in Subscriber
  BY DEF TypeInv, TypeOK
<1> DEFINE mine == ListSubscriptions(c)
           fetched == {x \in {r.comp : r \in mine} : data[x] # None}
           alerts == UNION {AlertsFor(c, roster[c], data[x], Watchlist(mine, x)) :
                              x \in fetched}
<1>2. owed' = owed \cup (alerts \ sent)
  BY DEF PlanSubscriber
<1>3. \A x \in fetched : data[x] \in Fetched
  BY DEF ListSubscriptions, TypeInv, TypeOK, StoreTypeOK, Row
<1>4. \A k \in alerts : k \in Keys /\ ChatOf(k) = c
  BY <1>1, <1>3, AlertsForType
<1> HIDE DEF alerts
<1> QED
  BY <1>1, <1>2, <1>4

LEMMA DiscardType ==
  ASSUME TypeInv, DiscardWork,
         UNCHANGED <<users, rows, worldVars, sent, dropped>>,
         adding' \in {adding, None}, reported' \in BOOLEAN,
         faults' \in 0..MaxFaults,
         inbox' \in [Keys -> Nat], unmarked' \in [Keys -> Nat]
  PROVE  TypeInv'
<1>1. now' \in Times
  BY DeliveryAssumption DEF DiscardWork, Times
<1> QED
  BY <1>1 DEF TypeInv, TypeOK, StoreTypeOK, WorkInv, DiscardWork, worldVars

LEMMA WorkerType ==
  ASSUME TypeInv, WorkerStep
  PROVE  TypeInv'
<1> USE DEF TypeInv, TypeOK, WorkInv, StoreTypeOK, Worker, workVars, ledgerVars, worldVars
<1>1. CASE StartCycle
  BY <1>1, RosterType DEF StartCycle
<1>2. CASE ReadCompetitions
  <2>1. ActiveCompetitions \subseteq Comps
    BY DEF ActiveCompetitions, Row
  <2> QED
    BY <1>2, <2>1 DEF ReadCompetitions
<1>3. ASSUME NEW x \in Comps, NEW fixturesOk \in BOOLEAN, NEW resultsOk \in BOOLEAN,
             FetchCompetition(x, fixturesOk, resultsOk)
      PROVE  TypeInv'
  <2>1. data' \in [Comps -> Fetched \cup {None}]
    BY <1>3, FetchedType
  <2> QED
    BY <1>3, <2>1 DEF FetchCompetition
<1>4. CASE FinishFetching
  BY <1>4 DEF FinishFetching
<1>5. ASSUME NEW c \in Chats, PlanSubscriber(c)
      PROVE  TypeInv'
  <2>1. c \in toPlan
    BY <1>5 DEF PlanSubscriber
  <2>2. \A k \in owed' : k \in Keys /\ roster[ChatOf(k)] # Absent
    BY <1>5, <2>1, PlannedType, StoreAssumption
  <2> QED
    BY <1>5, <2>2 DEF PlanSubscriber
<1>6. CASE FinishPlanning
  BY <1>6 DEF FinishPlanning
<1>7. ASSUME NEW k \in owed,
             LeaveForLater(k) \/ Drop(k) \/ SendToConsole(k)
      PROVE  TypeInv'
  BY <1>7 DEF LeaveForLater, Drop, SendToConsole, Handle
<1>8. ASSUME NEW k \in owed, SendAccepted(k) \/ SendFailed(k)
      PROVE  TypeInv'
  <2>1. PICK lost \in 0..Attempts :
          /\ Unanswered(k, lost)
          /\ \/ inbox' = [inbox EXCEPT ![k] = @ + lost + 1]
             \/ inbox' = [inbox EXCEPT ![k] = @ + lost]
    BY <1>8, DeliveryAssumption DEF SendAccepted, SendFailed
  <2>2. inbox' \in [Keys -> Nat] /\ unmarked' \in [Keys -> Nat]
    BY <2>1, DeliveryAssumption DEF Unanswered
  <2>3. faults' \in 0..MaxFaults
    BY <2>1, DeliveryAssumption DEF Unanswered
  <2> QED
    BY <1>8, <2>2, <2>3 DEF SendAccepted, SendFailed, Handle
<1>9. CASE MarkSent
  BY <1>9 DEF MarkSent
<1>10. CASE FinishCycle
  BY <1>10, DiscardType DEF FinishCycle
<1> QED
  BY <1>1, <1>2, <1>3, <1>4, <1>5, <1>6, <1>7, <1>8, <1>9, <1>10 DEF WorkerStep

LEMMA LoseCycleType ==
  ASSUME TypeInv, LoseCycle, adding' \in {adding, None}
  PROVE  TypeInv'
<1>1. faults' \in 0..MaxFaults
  BY DeliveryAssumption DEF LoseCycle, TypeInv, TypeOK
<1>2. unmarked' \in [Keys -> Nat]
  BY DEF LoseCycle, TypeInv, TypeOK, WorkInv
<1> QED
  BY <1>1, <1>2, DiscardType DEF LoseCycle, TypeInv, TypeOK

LEMMA WorldType ==
  ASSUME TypeInv, WorldStep
  PROVE  TypeInv'
<1> USE DEF TypeInv, TypeOK, WorkInv, StoreTypeOK, World, workVars, ledgerVars
<1>1. CASE Tick
  BY <1>1, DeliveryAssumption DEF Tick, Times
<1>2. ASSUME NEW m \in Matches, NEW from, NEW to \in Statuses, SetMatchStatus(m, from, to)
      PROVE  TypeInv'
  BY <1>2 DEF SetMatchStatus
<1> QED
  BY <1>1, <1>2 DEF WorldStep, Postpone, Reinstate, FullTime, ScoreKnown, Statuses

LEMMA StepType ==
  ASSUME TypeInv, [Next]_vars
  PROVE  TypeInv'
<1>1. CASE CycleRaises
  BY <1>1, LoseCycleType DEF CycleRaises
<1>2. CASE Crash
  BY <1>2, LoseCycleType DEF Crash
<1>3. CASE UNCHANGED vars
  BY <1>3 DEF TypeInv, TypeOK, WorkInv, StoreTypeOK, vars, workVars, ledgerVars,
              worldVars
<1> QED
  BY <1>1, <1>2, <1>3, BotType, WorkerType, WorldType DEF Next

LEMMA TypeInvariance == Spec => []TypeInv
<1>1. Init => TypeInv
  BY InitType
<1>2. TypeInv /\ [Next]_vars => TypeInv'
  BY StepType
<1> QED
  BY <1>1, <1>2, PTL DEF Spec

\* Every variable keeps its type in every reachable state; in particular a cycle only
\* plans and delivers for users that were active when it took its snapshot.
THEOREM TypeCorrect == Spec => []TypeOK
BY TypeInvariance, PTL DEF TypeInv

-----------------------------------------------------------------------------
(* What happens between planning an alert and recording it *)

\* The bot and the world leave the worker's part of the state alone.
LEMMA OthersFrame ==
  ASSUME BotStep \/ WorldStep
  PROVE  UNCHANGED <<pc, workVars, ledgerVars>>
BY DEF BotStep, AddPicked, Start, ConfirmOnboarding, Pause, Resume, SaveEdit, SetQuiet,
       Unsubscribe, Stop, Handler, WorldStep, Tick, Postpone, Reinstate, FullTime,
       ScoreKnown, SetMatchStatus, World

LEMMA OwedStep ==
  ASSUME TypeInv, NothingOwedIsSettled, [Next]_vars
  PROVE  NothingOwedIsSettled'
<1> USE DEF NothingOwedIsSettled, Worker, workVars, ledgerVars
<1>1. CASE BotStep \/ WorldStep \/ UNCHANGED vars
  BY <1>1, OthersFrame DEF vars
<1>2. CASE StartCycle \/ ReadCompetitions \/ FinishFetching
  BY <1>2 DEF StartCycle, ReadCompetitions, FinishFetching
<1>3. ASSUME NEW x \in Comps, NEW fixturesOk \in BOOLEAN, NEW resultsOk \in BOOLEAN,
             FetchCompetition(x, fixturesOk, resultsOk)
      PROVE  NothingOwedIsSettled'
  BY <1>3 DEF FetchCompetition
<1>4. ASSUME NEW c \in Chats, PlanSubscriber(c)
      PROVE  NothingOwedIsSettled'
  <2>1. c \in toPlan
    BY <1>4 DEF PlanSubscriber
  <2>2. \A k \in owed' : k \in owed \/ k \notin sent
    BY <1>4, <2>1, PlannedType
  <2> QED
    BY <1>4, <2>2 DEF PlanSubscriber
<1>5. CASE FinishPlanning
  BY <1>5 DEF FinishPlanning
<1>6. ASSUME NEW k \in owed,
             \/ LeaveForLater(k) \/ Drop(k) \/ SendToConsole(k)
             \/ SendAccepted(k) \/ SendFailed(k)
      PROVE  NothingOwedIsSettled'
  <2>1. k \in Keys
    BY DEF TypeInv, TypeOK
  <2> QED
    BY <1>6, <2>1
       DEF LeaveForLater, Drop, SendToConsole, SendAccepted, SendFailed, Handle
<1>7. CASE MarkSent
  BY <1>7 DEF MarkSent
<1>8. CASE FinishCycle \/ CycleRaises \/ Crash
  BY <1>8 DEF FinishCycle, CycleRaises, Crash, LoseCycle, DiscardWork
<1> QED
  BY <1>1, <1>2, <1>3, <1>4, <1>5, <1>6, <1>7, <1>8 DEF Next, WorkerStep

\* A step that neither sends nor records keeps the balance of copies.
LEMMA CopiesFrame ==
  ASSUME CopiesAccounted, UNCHANGED <<sent, dropped, inbox, unmarked, inHand>>
  PROVE  CopiesAccounted'
BY DEF CopiesAccounted

LEMMA CopiesStep ==
  ASSUME TypeInv, NothingOwedIsSettled, CopiesAccounted, [Next]_vars
  PROVE  CopiesAccounted'
<1> USE DEF Worker, workVars, ledgerVars
<1> None \notin Keys
  BY DeliveryAssumption
<1>1. CASE BotStep \/ WorldStep \/ UNCHANGED vars
  BY <1>1, OthersFrame, CopiesFrame DEF vars
<1>2. CASE StartCycle \/ ReadCompetitions \/ FinishFetching \/ FinishPlanning
  BY <1>2, CopiesFrame DEF StartCycle, ReadCompetitions, FinishFetching, FinishPlanning
<1>3. CASE \/ \E x \in Comps, fixturesOk, resultsOk \in BOOLEAN :
                FetchCompetition(x, fixturesOk, resultsOk)
           \/ \E c \in Chats : PlanSubscriber(c)
           \/ \E k \in owed : LeaveForLater(k) \/ SendToConsole(k)
  BY <1>3, CopiesFrame
     DEF FetchCompetition, PlanSubscriber, LeaveForLater, SendToConsole, Handle
<1>4. ASSUME NEW k \in owed, Drop(k)
      PROVE  CopiesAccounted'
  BY <1>4 DEF Drop, Handle, CopiesAccounted, NothingOwedIsSettled, TypeInv, WorkInv
<1>5. ASSUME NEW k \in owed, SendAccepted(k) \/ SendFailed(k)
      PROVE  CopiesAccounted'
  <2>1. /\ k \in Keys \ sent
        /\ inHand = None
        /\ inbox \in [Keys -> Nat] /\ unmarked \in [Keys -> Nat]
    BY <1>5 DEF SendAccepted, SendFailed, Handle, NothingOwedIsSettled, TypeInv, TypeOK,
                WorkInv
  <2>2. inbox[k] = unmarked[k]
    BY <2>1 DEF CopiesAccounted
  <2>3. CASE SendAccepted(k)
    <3>1. PICK lost \in 0..(Attempts - 1) :
            /\ unmarked' = [unmarked EXCEPT ![k] = @ + lost]
            /\ inbox' = [inbox EXCEPT ![k] = @ + lost + 1]
      BY <2>3 DEF SendAccepted, Unanswered
    <3>2. inbox'[k] = unmarked'[k] + 1
      BY <2>1, <2>2, <3>1, DeliveryAssumption
    <3> QED
      BY <2>1, <2>3, <3>1, <3>2 DEF SendAccepted, Handle, CopiesAccounted
  <2>4. CASE SendFailed(k)
    <3>1. PICK lost \in 0..Attempts :
            /\ unmarked' = [unmarked EXCEPT ![k] = @ + lost]
            /\ inbox' = [inbox EXCEPT ![k] = @ + lost]
      BY <2>4 DEF SendFailed, Unanswered
    <3>2. inbox'[k] = unmarked'[k]
      BY <2>1, <2>2, <3>1, DeliveryAssumption
    <3> QED
      BY <2>1, <2>2, <2>4, <3>1, <3>2 DEF SendFailed, Handle, CopiesAccounted
  <2> QED
    BY <1>5, <2>3, <2>4
<1>6. CASE MarkSent
  BY <1>6 DEF MarkSent, CopiesAccounted, NothingOwedIsSettled, TypeInv, WorkInv
<1>7. CASE FinishCycle
  <2>1. inHand = None /\ inHand' = None
    BY <1>7 DEF FinishCycle, DiscardWork, TypeInv, WorkInv
  <2> QED
    BY <1>7, <2>1, CopiesFrame DEF FinishCycle
<1>8. CASE CycleRaises \/ Crash
  <2>1. LoseCycle /\ inHand' = None
    BY <1>8 DEF CycleRaises, Crash, LoseCycle, DiscardWork
  <2>2. CASE pc = "mark"
    <3>1. /\ inHand \in Keys \ sent
          /\ unmarked' = [unmarked EXCEPT ![inHand] = @ + 1]
          /\ unmarked \in [Keys -> Nat]
      BY <2>1, <2>2 DEF LoseCycle, NothingOwedIsSettled, TypeInv, TypeOK
    <3> QED
      BY <2>1, <3>1 DEF LoseCycle, CopiesAccounted
  <2>3. CASE pc # "mark"
    <3>1. inHand = None /\ unmarked' = unmarked
      BY <2>1, <2>3 DEF LoseCycle, TypeInv, WorkInv
    <3> QED
      BY <2>1, <3>1, CopiesFrame DEF LoseCycle
  <2> QED
    BY <2>2, <2>3
<1> QED
  BY <1>1, <1>2, <1>3, <1>4, <1>5, <1>6, <1>7, <1>8 DEF Next, WorkerStep

IInv == TypeInv /\ NothingOwedIsSettled /\ CopiesAccounted

\* The inductive invariant behind the theorems on delivery.
LEMMA Invariance == Spec => []IInv
<1>1. Init => IInv
  <2>1. Init => NothingOwedIsSettled
    BY DEF Init, NothingOwedIsSettled
  <2>2. Init => CopiesAccounted
    BY DeliveryAssumption DEF Init, CopiesAccounted
  <2> QED
    BY <2>1, <2>2, InitType DEF IInv
<1>2. IInv /\ [Next]_vars => IInv'
  BY StepType, OwedStep, CopiesStep DEF IInv
<1> QED
  BY <1>1, <1>2, PTL DEF Spec

\* An alert the cycle still owes, or has sent and not recorded yet, is not in
\* sent_alerts: one look at the dedup store per user and cycle is enough.
THEOREM OwedIsUnsettled == Spec => []NothingOwedIsSettled
BY Invariance, PTL DEF IInv

\* Every copy in a chat beyond the recorded one is due to a lost acknowledgement or
\* a cycle that died before mark_sent: without faults no user is told anything twice.
THEOREM DuplicatesAreFaults == Spec => []CopiesAccounted
BY Invariance, PTL DEF IInv

-----------------------------------------------------------------------------
(* Delivery implements the at-least-once outbox *)

LEMMA OutboxStep ==
  ASSUME IInv, [Next]_vars
  PROVE  [Outbox!OutboxNext]_(Outbox!outboxVars)
<1> USE DEF Worker, workVars, ledgerVars, Outbox!outboxVars
<1>1. CASE BotStep \/ WorldStep \/ UNCHANGED vars
  BY <1>1, OthersFrame DEF vars
<1>2. CASE \/ StartCycle \/ ReadCompetitions \/ FinishFetching \/ FinishPlanning
           \/ FinishCycle \/ CycleRaises \/ Crash
  BY <1>2 DEF StartCycle, ReadCompetitions, FinishFetching, FinishPlanning, FinishCycle,
              CycleRaises, Crash, LoseCycle
<1>3. CASE \/ \E x \in Comps, fixturesOk, resultsOk \in BOOLEAN :
                FetchCompetition(x, fixturesOk, resultsOk)
           \/ \E c \in Chats : PlanSubscriber(c)
           \/ \E k \in owed : LeaveForLater(k) \/ SendToConsole(k)
  BY <1>3 DEF FetchCompetition, PlanSubscriber, LeaveForLater, SendToConsole, Handle
<1>4. ASSUME NEW k \in owed,
             Drop(k) \/ SendAccepted(k) \/ SendFailed(k)
      PROVE  [Outbox!OutboxNext]_(Outbox!outboxVars)
  <2>1. k \in Keys \ sent
    BY DEF IInv, TypeInv, TypeOK, NothingOwedIsSettled
  <2>2. CASE Drop(k)
    <3>1. Outbox!Record
      BY <2>1, <2>2 DEF Drop, Outbox!Record
    <3> QED
      BY <3>1 DEF Outbox!OutboxNext
  <2>3. CASE SendAccepted(k)
    <3>1. PICK lost \in 0..(Attempts - 1) : inbox' = [inbox EXCEPT ![k] = @ + lost + 1]
      BY <2>3 DEF SendAccepted
    <3>2. lost + 1 \in 1..Attempts /\ inbox[k] + lost + 1 = inbox[k] + (lost + 1)
      BY <2>1, DeliveryAssumption DEF IInv, TypeInv, TypeOK
    <3>3. Outbox!Reach(k)
      BY <2>1, <2>3, <3>1, <3>2 DEF SendAccepted, Outbox!Reach
    <3> QED
      BY <2>1, <3>3 DEF Outbox!OutboxNext
  <2>4. CASE SendFailed(k)
    <3>1. PICK lost \in 0..Attempts : inbox' = [inbox EXCEPT ![k] = @ + lost]
      BY <2>4 DEF SendFailed
    <3>2. CASE lost = 0
      <4>1. inbox' = inbox
        BY <2>1, <3>1, <3>2 DEF IInv, TypeInv, TypeOK
      <4> QED
        BY <2>4, <4>1 DEF SendFailed
    <3>3. CASE lost # 0
      <4>1. lost \in 1..Attempts
        BY <3>1, <3>3, DeliveryAssumption
      <4>2. Outbox!Reach(k)
        BY <2>1, <2>4, <3>1, <4>1 DEF SendFailed, Outbox!Reach
      <4> QED
        BY <2>1, <4>2 DEF Outbox!OutboxNext
    <3> QED
      BY <3>2, <3>3
  <2> QED
    BY <1>4, <2>2, <2>3, <2>4
<1>5. CASE MarkSent
  <2>1. inHand \in Keys \ sent
    BY <1>5 DEF MarkSent, IInv, NothingOwedIsSettled
  <2>2. inbox[inHand] > 0
    BY <2>1 DEF IInv, TypeInv, TypeOK, CopiesAccounted
  <2>3. Outbox!Record
    BY <1>5, <2>1, <2>2 DEF MarkSent, Outbox!Record
  <2> QED
    BY <2>3 DEF Outbox!OutboxNext
<1> QED
  BY <1>1, <1>2, <1>3, <1>4, <1>5 DEF Next, WorkerStep

\* The service is an at-least-once outbox: an alert is recorded only after a copy has
\* reached its chat or on purpose, and no copy follows the record, whatever crashes,
\* failures and user commands come in between.
THEOREM Refinement == Spec => ImplementsOutbox
<1>1. Init => Outbox!OutboxInit
  BY DEF Init, Outbox!OutboxInit
<1>2. IInv /\ [Next]_vars => [Outbox!OutboxNext]_(Outbox!outboxVars)
  BY OutboxStep
<1> QED
  BY <1>1, <1>2, Invariance, PTL DEF Spec, ImplementsOutbox, Outbox!OutboxSpec

-----------------------------------------------------------------------------
(* Timing: what the cycle's one timestamp and its stale data still guarantee *)

CycleData ==
  /\ now <= clock
  /\ pc \in {"idle", "competitions"} => \A x \in Comps : data[x] = None
  /\ \A x \in Comps : data[x] # None =>
       /\ \A m \in data[x].fixtures : now < Kickoff[m]
       /\ \A m \in data[x].results : status[m] = "scored"
  /\ \A k \in owed : IF IsReminder(k) THEN now < Kickoff[MatchOf(k)]
                                      ELSE status[MatchOf(k)] = "scored"

\* A reminder is planned from a fixture, a final or a shock from a result.
LEMMA AlertSource ==
  ASSUME NEW c \in Chats, NEW sub \in Subscriber, NEW fetched \in Fetched,
         NEW watchlist, NEW k \in AlertsFor(c, sub, fetched, watchlist)
  PROVE  IF IsReminder(k) THEN MatchOf(k) \in fetched.fixtures
                          ELSE MatchOf(k) \in fetched.results
<1>1. EffectiveLeads(sub) \subseteq Leads /\ "final" \notin Leads /\ "shock" \notin Leads
  BY StoreAssumption, DeliveryAssumption DEF EffectiveLeads, Subscriber
<1>2. /\ Watched(fetched.fixtures, watchlist) \subseteq fetched.fixtures
      /\ Watched(fetched.results, watchlist) \subseteq fetched.results
  BY DEF Watched
<1> QED
  BY <1>1, <1>2 DEF AlertsFor, MatchOf, LabelOf, IsReminder

\* A score, once known, stays.
LEMMA ScoredStays ==
  ASSUME TypeInv, [Next]_vars, NEW m \in Matches, status[m] = "scored"
  PROVE  status'[m] = "scored"
<1> USE DEF worldVars
<1>1. CASE BotStep
  BY <1>1 DEF BotStep, AddPicked, Start, ConfirmOnboarding, Pause, Resume, SaveEdit,
              SetQuiet, Unsubscribe, Stop, Handler
<1>2. CASE WorkerStep
  BY <1>2 DEF WorkerStep, StartCycle, ReadCompetitions, FetchCompetition, FinishFetching,
              PlanSubscriber, FinishPlanning, LeaveForLater, Drop, SendToConsole,
              SendAccepted, SendFailed, MarkSent, FinishCycle, Handle, Worker
<1>3. CASE CycleRaises \/ Crash \/ UNCHANGED vars
  BY <1>3 DEF CycleRaises, Crash, LoseCycle, vars
<1>4. CASE WorldStep
  BY <1>4 DEF WorldStep, Tick, Postpone, Reinstate, FullTime, ScoreKnown, SetMatchStatus,
              TypeInv, TypeOK
<1> QED
  BY <1>1, <1>2, <1>3, <1>4 DEF Next

\* The clock does not go back, and a worker step does not move it.
LEMMA ClockStep ==
  ASSUME TypeInv, [Next]_vars
  PROVE  /\ clock \in Nat /\ clock' \in Nat /\ now \in Nat
         /\ clock <= clock'
         /\ WorkerStep => clock' = clock
<1> USE DEF worldVars
<1>0. clock \in Nat /\ now \in Nat
  BY DeliveryAssumption DEF TypeInv, TypeOK, Times
<1>1. BotStep => clock' = clock
  BY DEF BotStep, AddPicked, Start, ConfirmOnboarding, Pause, Resume, SaveEdit,
         SetQuiet, Unsubscribe, Stop, Handler
<1>2. WorkerStep => clock' = clock
  BY DEF WorkerStep, StartCycle, ReadCompetitions, FetchCompetition, FinishFetching,
         PlanSubscriber, FinishPlanning, LeaveForLater, Drop, SendToConsole,
         SendAccepted, SendFailed, MarkSent, FinishCycle, Handle, Worker
<1>3. CycleRaises \/ Crash \/ UNCHANGED vars => clock' = clock
  BY DEF CycleRaises, Crash, LoseCycle, vars
<1>4. WorldStep => clock' \in {clock, clock + 1}
  BY DEF WorldStep, Tick, Postpone, Reinstate, FullTime, ScoreKnown,
              SetMatchStatus
<1>5. clock' \in Nat /\ clock <= clock'
  BY <1>0, <1>1, <1>2, <1>3, <1>4 DEF Next
<1> QED
  BY <1>0, <1>2, <1>5

\* Planning and delivering within a cycle keep the cycle's data true of the world,
\* because kickoffs and scores do not change under it.
LEMMA CycleDataStep ==
  ASSUME TypeInv, CycleData, [Next]_vars
  PROVE  CycleData'
<1>0. /\ now' = now => now' <= clock'
      /\ \A m \in Matches : status[m] = "scored" => status'[m] = "scored"
      /\ \A x \in Comps : data[x] # None => data[x] \in Fetched
      /\ \A k \in owed : k \in Keys /\ MatchOf(k) \in Matches
  BY ClockStep, ScoredStays, KeyParts DEF CycleData, TypeInv, TypeOK
<1>1. ASSUME UNCHANGED <<pc, now, data>>, owed' \subseteq owed
      PROVE  CycleData'
  BY <1>0, <1>1 DEF CycleData, Fetched
<1> USE DEF Worker, workVars, ledgerVars, worldVars
<1>2. CASE BotStep \/ WorldStep \/ UNCHANGED vars
  BY <1>1, <1>2, OthersFrame DEF vars
<1>3. CASE StartCycle
  BY <1>3, ClockStep DEF StartCycle, CycleData, TypeInv, WorkInv
<1>4. CASE ReadCompetitions \/ FinishFetching
  BY <1>0, <1>4 DEF ReadCompetitions, FinishFetching, CycleData, Fetched
<1>5. ASSUME NEW x \in Comps, NEW fixturesOk \in BOOLEAN, NEW resultsOk \in BOOLEAN,
             FetchCompetition(x, fixturesOk, resultsOk)
      PROVE  CycleData'
  <2>1. PICK upsets :
          data' = [data EXCEPT ![x] =
                     [error    |-> ~fixturesOk,
                      fixtures |-> IF fixturesOk THEN UpcomingIn(x) ELSE {},
                      results  |-> IF resultsOk THEN ResultsIn(x) ELSE {},
                      upsets   |-> upsets]]
    BY <1>5 DEF FetchCompetition
  <2>2. /\ \A m \in data'[x].fixtures : now < Kickoff[m]
        /\ \A m \in data'[x].results : status[m] = "scored"
    BY <2>1 DEF UpcomingIn, ResultsIn, TypeInv, TypeOK
  <2>3. \A z \in Comps \ {x} : data'[z] = data[z]
    BY <2>1 DEF TypeInv, TypeOK
  <2> QED
    BY <1>0, <1>5, <2>2, <2>3 DEF FetchCompetition, CycleData
<1>6. ASSUME NEW c \in Chats, PlanSubscriber(c)
      PROVE  CycleData'
  <2>1. roster[c] \in Subscriber
    BY <1>6, PlannedType DEF PlanSubscriber
  <2>2. ASSUME NEW k \in owed' \ owed
        PROVE  IF IsReminder(k) THEN now < Kickoff[MatchOf(k)]
                                ELSE status[MatchOf(k)] = "scored"
    <3> DEFINE mine == ListSubscriptions(c)
               fetched == {x \in {r.comp : r \in mine} : data[x] # None}
               alerts == UNION {AlertsFor(c, roster[c], data[x], Watchlist(mine, x)) :
                                  x \in fetched}
    <3>1. k \in alerts
      <4>1. owed' = owed \cup (alerts \ sent)
        BY <1>6 DEF PlanSubscriber
      <4> HIDE DEF alerts
      <4> QED
        BY <2>2, <4>1
    <3>2. PICK x \in fetched :
            k \in AlertsFor(c, roster[c], data[x], Watchlist(mine, x))
      BY <3>1
    <3>3. x \in Comps /\ data[x] # None
      BY DEF ListSubscriptions, TypeInv, TypeOK, StoreTypeOK, Row
    <3> QED
      BY <1>0, <2>1, <3>2, <3>3, AlertSource DEF CycleData
  <2> QED
    BY <1>0, <1>6, <2>2 DEF PlanSubscriber, CycleData
<1>7. CASE FinishPlanning
  BY <1>0, <1>7 DEF FinishPlanning, CycleData
<1>8. ASSUME NEW k \in owed,
             \/ LeaveForLater(k) \/ Drop(k) \/ SendToConsole(k)
             \/ SendAccepted(k) \/ SendFailed(k)
      PROVE  CycleData'
  <2>1. /\ UNCHANGED <<now, data>> /\ owed' \subseteq owed
        /\ pc' \in {pc, "mark"}
        /\ UNCHANGED <<clock, status>>
    BY <1>8 DEF LeaveForLater, Drop, SendToConsole, SendAccepted, SendFailed, Handle
  <2> QED
    BY <2>1 DEF CycleData
<1>9. CASE MarkSent
  BY <1>0, <1>9 DEF MarkSent, CycleData
<1>10. CASE FinishCycle \/ CycleRaises \/ Crash
  BY <1>10, ClockStep
     DEF FinishCycle, CycleRaises, Crash, LoseCycle, DiscardWork, CycleData
<1> QED
  BY <1>2, <1>3, <1>4, <1>5, <1>6, <1>7, <1>8, <1>9, <1>10 DEF Next, WorkerStep

TimingInv == TypeInv /\ CycleData

LEMMA TimingInvariance == Spec => []TimingInv
<1>1. Init => TimingInv
  BY InitType DEF Init, TimingInv, CycleData
<1>2. TimingInv /\ [Next]_vars => TimingInv'
  BY StepType, CycleDataStep DEF TimingInv
<1> QED
  BY <1>1, <1>2, PTL DEF Spec

\* Only a send changes an inbox, and only Drop records a key as dropped.
LEMMA InboxStep ==
  ASSUME TypeInv, [Next]_vars, NEW k \in Keys, Reaches(k)
  PROVE  k \in owed /\ Classify(k) = "send"
<1> USE DEF Worker, workVars, ledgerVars, Reaches
<1>0. inbox[k] \in Nat
  BY DEF TypeInv, TypeOK
<1>1. inbox' # inbox
  BY <1>0
<1>2. PICK j \in owed : SendAccepted(j) \/ SendFailed(j)
  <2>1. ~(BotStep \/ WorldStep \/ UNCHANGED vars)
    BY <1>1, OthersFrame DEF vars
  <2> QED
    BY <1>1, <2>1 DEF Next, WorkerStep, StartCycle, ReadCompetitions, FetchCompetition,
       FinishFetching, PlanSubscriber, FinishPlanning, LeaveForLater, Drop,
       SendToConsole, MarkSent, FinishCycle, CycleRaises, Crash, LoseCycle
<1>3. PICK n : inbox' = [inbox EXCEPT ![j] = n]
  BY <1>2 DEF SendAccepted, SendFailed
<1>4. j = k
  BY <1>0, <1>3 DEF TypeInv, TypeOK
<1> QED
  BY <1>2, <1>4 DEF SendAccepted, SendFailed, Handle

LEMMA DroppedStep ==
  ASSUME [Next]_vars, NEW k \in dropped' \ dropped
  PROVE  k \in owed /\ Classify(k) = "drop"
<1> USE DEF Worker, workVars, ledgerVars
<1>1. ~(BotStep \/ WorldStep \/ UNCHANGED vars)
  BY OthersFrame DEF vars
<1>2. PICK j \in owed : Drop(j)
  BY <1>1 DEF Next, WorkerStep, StartCycle, ReadCompetitions, FetchCompetition,
     FinishFetching, PlanSubscriber, FinishPlanning, LeaveForLater, SendToConsole,
     SendAccepted, SendFailed, MarkSent, FinishCycle, CycleRaises, Crash, LoseCycle
<1> QED
  BY <1>2 DEF Drop, Handle

\* No message is early by the real clock and the real match, although the cycle looks
\* at the clock once and plans from data it fetched before.
THEOREM NoMessageIsEarly == Spec => NeverEarly
<1>1. ASSUME TimingInv, [Next]_vars, NEW k \in Keys, Reaches(k)
      PROVE  IF IsReminder(k) THEN clock >= Kickoff[MatchOf(k)] - LeadTime[LabelOf(k)]
                              ELSE status[MatchOf(k)] = "scored"
  <2>1. k \in owed /\ Classify(k) = "send"
    BY <1>1, InboxStep DEF TimingInv
  <2>2. CASE IsReminder(k)
    <3>1. /\ Kickoff[MatchOf(k)] \in Int /\ LeadTime[LabelOf(k)] \in Nat
          /\ now \in Nat /\ clock \in Nat /\ now <= clock
      BY <1>1, <2>2, KeyParts, ClockStep, DeliveryAssumption
         DEF TimingInv, CycleData, IsReminder
    <3>2. ~(Kickoff[MatchOf(k)] - LeadTime[LabelOf(k)] > now)
      BY <2>1, <2>2 DEF Classify
    <3> QED
      BY <2>2, <3>1, <3>2
  <2>3. CASE ~IsReminder(k)
    BY <1>1, <2>1, <2>3 DEF TimingInv, CycleData
  <2> QED
    BY <2>2, <2>3
<1>2. TimingInv /\ [Next]_vars =>
        [\A k \in Keys : Reaches(k) =>
           IF IsReminder(k) THEN clock >= Kickoff[MatchOf(k)] - LeadTime[LabelOf(k)]
                            ELSE status[MatchOf(k)] = "scored"]_vars
  BY <1>1
<1> QED
  BY <1>2, TimingInvariance, PTL DEF Spec, NeverEarly

\* The stale branch of classify_reminder never decides: what is recorded without a
\* send is what its user chose to have suppressed in quiet hours.
THEOREM DropsAreChosen == Spec => OnlySuppressedAreDropped
<1>1. ASSUME TimingInv, [Next]_vars, NEW k \in dropped' \ dropped
      PROVE  /\ roster[ChatOf(k)].behavior = "suppress"
             /\ now \in roster[ChatOf(k)].quiet
  <2>1. k \in owed /\ Classify(k) = "drop"
    BY <1>1, DroppedStep
  <2>2. /\ roster[ChatOf(k)].behavior \in Behaviors
        /\ Kickoff[MatchOf(k)] \in Int /\ now \in Nat
    BY <1>1, <2>1, KeyParts, ClockStep, DeliveryAssumption
       DEF TimingInv, TypeInv, TypeOK, Subscriber
  <2>3. ~(IsReminder(k) /\ Kickoff[MatchOf(k)] <= now)
    BY <1>1, <2>1, <2>2 DEF TimingInv, CycleData
  <2>4. /\ InQuietHours(roster[ChatOf(k)], now)
        /\ roster[ChatOf(k)].behavior # "defer"
    BY <2>1, <2>3 DEF Classify
  <2> QED
    BY <2>2, <2>4 DEF InQuietHours, Behaviors
<1>2. TimingInv /\ [Next]_vars =>
        [\A k \in dropped' \ dropped :
           /\ roster[ChatOf(k)].behavior = "suppress"
           /\ now \in roster[ChatOf(k)].quiet]_vars
  BY <1>1
<1> QED
  BY <1>2, TimingInvariance, PTL DEF Spec, OnlySuppressedAreDropped

-----------------------------------------------------------------------------
(* Faults pay for duplicates *)

FaultsPay == \A k \in Keys : unmarked[k] <= MaxFaults - faults

LEMMA UnansweredPaid ==
  ASSUME TypeInv, FaultsPay, NEW k \in Keys, NEW lost \in Nat, Unanswered(k, lost)
  PROVE  FaultsPay'
<1>1. /\ unmarked \in [Keys -> Nat] /\ faults \in Nat /\ MaxFaults \in Nat
      /\ unmarked' = [unmarked EXCEPT ![k] = @ + lost]
      /\ faults' = faults - lost
  BY DeliveryAssumption DEF TypeInv, TypeOK, Unanswered
<1>2. SUFFICES ASSUME NEW j \in Keys PROVE unmarked'[j] <= MaxFaults - faults'
  BY DEF FaultsPay
<1>3. unmarked[j] <= MaxFaults - faults
  BY DEF FaultsPay
<1> QED
  BY <1>1, <1>3

LEMMA PaidStep ==
  ASSUME TypeInv, FaultsPay, [Next]_vars
  PROVE  FaultsPay'
<1> USE DEF Worker, workVars, ledgerVars
<1>1. ASSUME UNCHANGED <<unmarked, faults>>
      PROVE  FaultsPay'
  BY <1>1 DEF FaultsPay
<1>2. CASE BotStep \/ WorldStep \/ UNCHANGED vars
  <2>1. UNCHANGED <<unmarked, faults>>
    BY <1>2 DEF BotStep, AddPicked, Start, ConfirmOnboarding, Pause, Resume, SaveEdit,
       SetQuiet, Unsubscribe, Stop, Handler, WorldStep, Tick, Postpone, Reinstate,
       FullTime, ScoreKnown, SetMatchStatus, World, vars
  <2> QED
    BY <1>1, <2>1
<1>3. CASE CycleRaises \/ Crash
  <2>1. LoseCycle
    BY <1>3 DEF CycleRaises, Crash
  <2>2. /\ unmarked \in [Keys -> Nat] /\ faults \in Nat /\ MaxFaults \in Nat
        /\ faults' = faults - 1
        /\ pc = "mark" => inHand \in Keys
    BY <2>1, DeliveryAssumption DEF TypeInv, TypeOK, WorkInv, LoseCycle
  <2>3. \A k \in Keys : unmarked'[k] \in {unmarked[k], unmarked[k] + 1}
    BY <2>1, <2>2 DEF LoseCycle
  <2> QED
    BY <2>2, <2>3 DEF FaultsPay
<1>4. ASSUME NEW k \in owed, SendAccepted(k) \/ SendFailed(k)
      PROVE  FaultsPay'
  <2>1. k \in Keys
    BY DEF TypeInv, TypeOK
  <2>2. PICK lost \in Nat : Unanswered(k, lost)
    BY <1>4, DeliveryAssumption DEF SendAccepted, SendFailed
  <2> QED
    BY <2>1, <2>2, UnansweredPaid
<1>5. CASE WorkerStep /\ ~(\E k \in owed : SendAccepted(k) \/ SendFailed(k))
  <2>1. UNCHANGED <<unmarked, faults>>
    BY <1>5 DEF WorkerStep, StartCycle, ReadCompetitions, FetchCompetition,
       FinishFetching, PlanSubscriber, FinishPlanning, LeaveForLater, Drop,
       SendToConsole, MarkSent, FinishCycle
  <2> QED
    BY <1>1, <2>1
<1> QED
  BY <1>2, <1>3, <1>4, <1>5 DEF Next

\* Each copy of an alert beyond the first has cost a fault of its own: a run without
\* lost acknowledgements, crashes and raised cycles is exactly-once.
THEOREM DuplicatesArePaidFor == Spec => []CopiesBounded
<1>1. Init => FaultsPay
  BY DeliveryAssumption DEF Init, FaultsPay
<1>2. TypeInv /\ FaultsPay /\ [Next]_vars => FaultsPay'
  BY PaidStep
<1>3. IInv /\ FaultsPay => CopiesBounded
  <2> SUFFICES ASSUME IInv, FaultsPay, NEW k \in Keys
               PROVE  inbox[k] <= 1 + (MaxFaults - faults)
    BY DEF CopiesBounded
  <2>1. /\ unmarked[k] \in Nat /\ faults \in Int /\ MaxFaults \in Int
        /\ unmarked[k] <= MaxFaults - faults
        /\ inbox[k] = unmarked[k] \/ inbox[k] = unmarked[k] + 1
    BY DeliveryAssumption DEF IInv, TypeInv, TypeOK, FaultsPay, CopiesAccounted
  <2> QED
    BY <2>1
<1> QED
  BY <1>1, <1>2, <1>3, TypeInvariance, Invariance, PTL DEF Spec

-----------------------------------------------------------------------------
(* What goes out is what the cycle's copy asks for *)

RosterSpeaks ==
  /\ \A c \in Chats : roster[c] # Absent => roster[c].status = "active"
  /\ \A k \in owed : Asks(roster[ChatOf(k)], k)

\* The planner makes only alerts the subscriber's switches and lead-times ask for.
LEMMA PlannedIsAsked ==
  ASSUME NEW c \in Chats, NEW sub \in Subscriber, NEW fetched, NEW watchlist,
         NEW k \in AlertsFor(c, sub, fetched, watchlist)
  PROVE  Asks(sub, k)
<1>1. EffectiveLeads(sub) \subseteq Leads /\ "final" \notin Leads /\ "shock" \notin Leads
  BY StoreAssumption, DeliveryAssumption DEF EffectiveLeads, Subscriber
<1> QED
  BY <1>1 DEF AlertsFor, Asks, LabelOf, IsReminder

LEMMA SpeaksStep ==
  ASSUME TypeInv, RosterSpeaks, [Next]_vars
  PROVE  RosterSpeaks'
<1> USE DEF Worker, workVars, ledgerVars
<1>0. ASSUME roster' = roster, owed' \subseteq owed
      PROVE  RosterSpeaks'
  BY <1>0 DEF RosterSpeaks, Asks, IsReminder, LabelOf, EffectiveLeads, ChatOf
<1>1. CASE BotStep \/ WorldStep \/ UNCHANGED vars
  BY <1>0, <1>1, OthersFrame DEF vars
<1>2. CASE StartCycle
  BY <1>2 DEF StartCycle, ActiveRoster, RosterSpeaks, TypeInv, WorkInv
<1>3. ASSUME NEW c \in Chats, PlanSubscriber(c)
      PROVE  RosterSpeaks'
  <2>1. c \in toPlan /\ roster' = roster
    BY <1>3 DEF PlanSubscriber
  <2>2. /\ roster[c] \in Subscriber
        /\ \A k \in owed' \ owed : ChatOf(k) = c
    BY <1>3, <2>1, PlannedType
  <2>3. ASSUME NEW k \in owed' \ owed
        PROVE  Asks(roster[c], k)
    <3> DEFINE mine == ListSubscriptions(c)
               fetched == {x \in {r.comp : r \in mine} : data[x] # None}
               alerts == UNION {AlertsFor(c, roster[c], data[x], Watchlist(mine, x)) :
                                  x \in fetched}
    <3>1. owed' = owed \cup (alerts \ sent)
      BY <1>3 DEF PlanSubscriber
    <3>2. k \in alerts
      <4> HIDE DEF alerts
      <4> QED
        BY <2>3, <3>1
    <3>3. PICK x \in fetched :
            k \in AlertsFor(c, roster[c], data[x], Watchlist(mine, x))
      BY <3>2
    <3> QED
      BY <2>2, <3>3, PlannedIsAsked
  <2>4. \A k \in owed : Asks(roster[ChatOf(k)], k)
    BY DEF RosterSpeaks
  <2> QED
    BY <2>1, <2>2, <2>3, <2>4
       DEF RosterSpeaks, Asks, IsReminder, LabelOf, EffectiveLeads, ChatOf
<1>4. CASE FinishCycle \/ CycleRaises \/ Crash
  BY <1>4 DEF FinishCycle, CycleRaises, Crash, LoseCycle, DiscardWork, RosterSpeaks
<1>5. CASE \/ ReadCompetitions \/ FinishFetching \/ FinishPlanning \/ MarkSent
           \/ \E x \in Comps, fixturesOk, resultsOk \in BOOLEAN :
                FetchCompetition(x, fixturesOk, resultsOk)
           \/ \E k \in owed : \/ LeaveForLater(k) \/ Drop(k) \/ SendToConsole(k)
                              \/ SendAccepted(k) \/ SendFailed(k)
  <2>1. roster' = roster /\ owed' \subseteq owed
    BY <1>5 DEF ReadCompetitions, FinishFetching, FinishPlanning, MarkSent,
       FetchCompetition, LeaveForLater, Drop, SendToConsole, SendAccepted, SendFailed,
       Handle
  <2> QED
    BY <1>0, <2>1
<1> QED
  BY <1>1, <1>2, <1>3, <1>4, <1>5 DEF Next, WorkerStep

\* What reaches a chat is what its preferences asked for when the cycle began, outside
\* the quiet hours it had then, and only if it was active then: this is what /pause,
\* /stop and /edit can rely on, and no more than this.
THEOREM OnlyTheAskedForIsSent == Spec => OnlyWhatWasAsked
<1>1. Init => RosterSpeaks
  BY DEF Init, RosterSpeaks
<1>2. TypeInv /\ RosterSpeaks /\ [Next]_vars => RosterSpeaks'
  BY SpeaksStep
<1>3. ASSUME TypeInv, RosterSpeaks, [Next]_vars, NEW k \in Keys, Reaches(k)
      PROVE  LET sub == roster[ChatOf(k)]
             IN  /\ sub # Absent
                 /\ sub.status = "active"
                 /\ Asks(sub, k)
                 /\ ~InQuietHours(sub, now)
  <2>1. k \in owed /\ Classify(k) = "send"
    BY <1>3, InboxStep
  <2>2. roster[ChatOf(k)] # Absent /\ ChatOf(k) \in Chats
    BY <1>3, <2>1, KeyParts DEF TypeInv, TypeOK
  <2>3. ~InQuietHours(roster[ChatOf(k)], now)
    BY <2>1 DEF Classify
  <2> QED
    BY <1>3, <2>1, <2>2, <2>3 DEF RosterSpeaks
<1>4. TypeInv /\ RosterSpeaks /\ [Next]_vars =>
        [\A k \in Keys : Reaches(k) =>
           LET sub == roster[ChatOf(k)]
           IN  /\ sub # Absent
               /\ sub.status = "active"
               /\ Asks(sub, k)
               /\ ~InQuietHours(sub, now)]_vars
  BY <1>3
<1> QED
  BY <1>1, <1>2, <1>4, TypeInvariance, PTL DEF Spec, OnlyWhatWasAsked

-----------------------------------------------------------------------------
(* Why a cycle ends: its remaining work only shrinks *)

\* No cycle repeats work: every step of the worker moves it to a later stage or takes
\* a competition, a chat or an alert off what the stage has left, and neither users
\* nor the world add any.  With CyclesEnd this leaves only the worker's own fairness
\* to TLC.
THEOREM WorkOnlyShrinks == Spec => WorkShrinks
<1> DEFINE Progress ==
      \/ UNCHANGED <<pc, workVars, ledgerVars, reported, faults>>
      \/ Stage(pc) < Stage(pc')
      \/ /\ Stage(pc) = Stage(pc')
         /\ CASE pc = "fetch" -> Shrinks(toFetch', toFetch)
              [] pc = "plan" -> Shrinks(toPlan', toPlan)
              [] pc = "deliver" -> Shrinks(owed', owed)
              [] pc = "mark" -> pc' = "deliver" /\ owed' = owed
              [] OTHER -> FALSE
<1>1. ASSUME [Next]_vars, pc # "idle", pc' # "idle"
      PROVE  Progress
  <2> USE DEF Worker, Stage, Shrinks
  <2>1. CASE BotStep \/ WorldStep \/ UNCHANGED vars
    BY <2>1 DEF BotStep, AddPicked, Start, ConfirmOnboarding, Pause, Resume, SaveEdit,
       SetQuiet, Unsubscribe, Stop, Handler, WorldStep, Tick, Postpone, Reinstate,
       FullTime, ScoreKnown, SetMatchStatus, World, vars
  <2>2. CASE StartCycle \/ FinishCycle \/ CycleRaises \/ Crash
    BY <1>1, <2>2 DEF StartCycle, FinishCycle, CycleRaises, Crash, LoseCycle, DiscardWork
  <2>3. CASE ReadCompetitions \/ FinishFetching \/ FinishPlanning
    BY <2>3 DEF ReadCompetitions, FinishFetching, FinishPlanning
  <2>4. CASE \E x \in Comps, fixturesOk, resultsOk \in BOOLEAN :
               FetchCompetition(x, fixturesOk, resultsOk)
    BY <2>4 DEF FetchCompetition
  <2>5. CASE \E c \in Chats : PlanSubscriber(c)
    BY <2>5 DEF PlanSubscriber
  <2>6. CASE \E k \in owed : \/ LeaveForLater(k) \/ Drop(k) \/ SendToConsole(k)
                             \/ SendAccepted(k) \/ SendFailed(k)
    <3>1. /\ pc = "deliver" /\ pc' \in {"deliver", "mark"}
          /\ Shrinks(owed', owed)
      BY <2>6 DEF LeaveForLater, Drop, SendToConsole, SendAccepted, SendFailed, Handle
    <3> QED
      BY <3>1
  <2>7. CASE MarkSent
    BY <2>7 DEF MarkSent
  <2> QED
    BY <1>1, <2>1, <2>2, <2>3, <2>4, <2>5, <2>6, <2>7 DEF Next, WorkerStep
<1>2. [Next]_vars => [pc # "idle" /\ pc' # "idle" => Progress]_vars
  BY <1>1
<1> QED
  BY <1>2, PTL DEF Spec, WorkShrinks

-----------------------------------------------------------------------------
(* Why a due alert is settled: only a setback of its own stops the cycle *)

\* An alert that is timely by the cycle's copy and timestamp is sent, not put off.
LEMMA TimelyIsSent ==
  ASSUME TypeInv, NEW k \in Keys, Timely(k, roster[ChatOf(k)], now)
  PROVE  Classify(k) = "send" /\ LabelOf(k) # "shock"
<1>1. /\ Kickoff[MatchOf(k)] \in Int /\ now \in Int
      /\ IsReminder(k) => LeadTime[LabelOf(k)] \in Int
      /\ "final" \notin Leads /\ "shock" \notin Leads
  BY KeyParts, DeliveryAssumption DEF TypeInv, TypeOK, Times, IsReminder
<1> QED
  BY <1>1 DEF Timely, Classify, IsReminder

\* The planner makes every reminder and final the subscriber asks for of what it has.
LEMMA AskedIsPlanned ==
  ASSUME NEW c, NEW sub, NEW fetched, NEW watchlist, NEW m, NEW l
  PROVE  /\ /\ sub.reminders /\ l \in EffectiveLeads(sub)
            /\ ~fetched.error /\ m \in Watched(fetched.fixtures, watchlist)
            => <<c, m, l>> \in AlertsFor(c, sub, fetched, watchlist)
         /\ /\ sub.finals /\ l = "final"
            /\ m \in Watched(fetched.results, watchlist)
            => <<c, m, l>> \in AlertsFor(c, sub, fetched, watchlist)
BY DEF AlertsFor

\* The planner takes up an alert it has the data for and its chat follows.
LEMMA TimelyIsPlanned ==
  ASSUME TypeInv, NEW k \in Keys, Due(k), InData(k),
         Timely(k, roster[ChatOf(k)], now), k \notin sent, PlanSubscriber(ChatOf(k))
  PROVE  k \in owed'
<1> DEFINE c == ChatOf(k)
           z == CompOf[MatchOf(k)]
           mine == ListSubscriptions(c)
           fetched == {x \in {r.comp : r \in mine} : data[x] # None}
           Alerts(x) == AlertsFor(c, roster[c], data[x], Watchlist(mine, x))
           alerts == UNION {Alerts(x) : x \in fetched}
<1>1. owed' = owed \cup (alerts \ sent)
  BY DEF PlanSubscriber
<1>2. z \in fetched
  BY DEF Due, InData
<1>3. MatchOf(k) \in Watched({MatchOf(k)}, Watchlist(mine, z))
  BY DEF Due
<1>4. \A S : MatchOf(k) \in S => MatchOf(k) \in Watched(S, Watchlist(mine, z))
  BY <1>3 DEF Watched
<1>5. k = <<c, MatchOf(k), LabelOf(k)>>
  BY DEF Keys, ChatOf, MatchOf, LabelOf
<1>6. k \in Alerts(z)
  <2> DEFINE wl == Watchlist(mine, z)
  <2>1. CASE IsReminder(k)
    <3>1. ~data[z].error /\ MatchOf(k) \in data[z].fixtures
      BY <2>1 DEF InData
    <3>2. MatchOf(k) \in Watched(data[z].fixtures, wl)
      BY <1>4, <3>1
    <3>3. roster[c].reminders /\ LabelOf(k) \in EffectiveLeads(roster[c])
      BY <2>1 DEF Timely, Asks
    <3> QED
      BY <1>5, <3>1, <3>2, <3>3, AskedIsPlanned
  <2>2. CASE ~IsReminder(k)
    <3>1. /\ LabelOf(k) = "final"
          /\ MatchOf(k) \in Watched(data[z].results, wl)
      BY <1>4, <2>2 DEF InData, Timely
    <3>2. roster[c].finals
      BY <2>2, <3>1 DEF Timely, Asks
    <3> QED
      BY <1>5, <3>1, <3>2, AskedIsPlanned
  <2> QED
    BY <2>1, <2>2
<1>7. k \in alerts
  BY <1>2, <1>6
<1> HIDE DEF alerts
<1> QED
  BY <1>1, <1>7

\* One fetch of the competition of a due alert brings it in, or is a setback for it.
LEMMA TimelyIsFetched ==
  ASSUME TypeInv, NEW k \in Keys, Due(k), Timely(k, roster[ChatOf(k)], now),
         NEW f \in BOOLEAN, NEW g \in BOOLEAN, FetchCompetition(CompOf[MatchOf(k)], f, g)
  PROVE  InData(k)' \/ Setback(k)
<1> DEFINE z == CompOf[MatchOf(k)]
<1>0. /\ z \in Comps /\ MatchOf(k) \in Matches
      /\ Kickoff[MatchOf(k)] \in Int /\ now \in Int /\ Lookahead \in Int /\ Lookback \in Int
      /\ data \in [Comps -> Fetched \cup {None}]
      /\ IsReminder(k) => LeadTime[LabelOf(k)] \in Int
      /\ "final" \notin Leads
      /\ None \notin Fetched
  BY KeyParts, DeliveryAssumption DEF TypeInv, TypeOK, Times, IsReminder
<1> DEFINE results(ok) == IF ok THEN ResultsIn(z) ELSE {}
           got(ok, back, u) == [error    |-> ~ok,
                                fixtures |-> IF ok THEN UpcomingIn(z) ELSE {},
                                results  |-> results(back),
                                upsets   |-> u]
<1>1. PICK u \in SUBSET results(g) : data' = [data EXCEPT ![z] = got(f, g, u)]
  BY DEF FetchCompetition
<1>2. /\ data'[z] = got(f, g, u)
      /\ data'[z].error = ~f
      /\ data'[z].fixtures = IF f THEN UpcomingIn(z) ELSE {}
      /\ data'[z].results = IF g THEN ResultsIn(z) ELSE {}
  BY <1>0, <1>1
<1>3. data'[z] # None
  <2>1. data' \in [Comps -> Fetched \cup {None}]
    BY FetchedType
  <2>2. got(f, g, u) \in Fetched
    BY <1>0 DEF Fetched, UpcomingIn, ResultsIn
  <2> QED
    BY <1>0, <1>2, <2>2
<1>4. CASE IsReminder(k) /\ f
  <2>1. MatchOf(k) \in UpcomingIn(z)
    BY <1>0, <1>4 DEF Due, Timely, UpcomingIn, IsReminder
  <2> QED
    BY <1>2, <1>3, <1>4, <2>1 DEF InData, IsReminder, LabelOf, MatchOf
<1>5. CASE ~IsReminder(k) /\ g
  <2>1. MatchOf(k) \in ResultsIn(z)
    BY <1>0, <1>5 DEF Due, Timely, ResultsIn, IsReminder
  <2> QED
    BY <1>2, <1>3, <1>5, <2>1 DEF InData, IsReminder, LabelOf, MatchOf
<1>6. CASE IsReminder(k) /\ ~f
  <2>1. ~FetchCompetition(z, TRUE, g)
    <3>1. ASSUME FetchCompetition(z, TRUE, g)
          PROVE  FALSE
      <4>1. PICK v : data' = [data EXCEPT ![z] = got(TRUE, g, v)]
        BY <3>1 DEF FetchCompetition
      <4>2. data'[z].error = FALSE
        BY <1>0, <4>1
      <4> QED
        BY <1>2, <1>6, <4>2
    <3> QED
      BY <3>1
  <2>2. FetchCompetition(z, FALSE, g)
    BY <1>6
  <2> QED
    BY <1>6, <2>1, <2>2 DEF Setback
<1>7. CASE ~IsReminder(k) /\ ~g
  <2>1. ~FetchCompetition(z, f, TRUE)
    <3>1. ASSUME FetchCompetition(z, f, TRUE)
          PROVE  FALSE
      <4>1. PICK v : data' = [data EXCEPT ![z] = got(f, TRUE, v)]
        BY <3>1 DEF FetchCompetition
      <4>2. data'[z].results = ResultsIn(z)
        BY <1>0, <4>1
      <4>3. MatchOf(k) \in ResultsIn(z)
        BY <1>0, <1>7 DEF Due, Timely, ResultsIn, IsReminder
      <4> QED
        BY <1>2, <1>7, <4>2, <4>3
    <3> QED
      BY <3>1
  <2>2. FetchCompetition(z, f, FALSE)
    BY <1>7
  <2> QED
    BY <1>7, <2>1, <2>2 DEF Setback
<1> QED
  BY <1>4, <1>5, <1>6, <1>7

\* A step that leaves the cycle's copy and timestamp alone keeps pursuing the alert
\* if it keeps the place where the alert is.
LEMMA PursuitKept ==
  ASSUME NEW k \in Keys, Pursued(k), UNCHANGED <<now, roster>>, k \notin sent',
         \/ pc' = "fetch" /\ (CompOf[MatchOf(k)] \in toFetch' \/ InData(k)')
         \/ pc' = "plan" /\ ChatOf(k) \in toPlan' /\ InData(k)'
         \/ k \in owed'
         \/ inHand' = k
  PROVE  Pursued(k)'
<1>1. Timely(k, roster'[ChatOf(k)], now') /\ roster'[ChatOf(k)] # Absent
  BY DEF Pursued
<1> QED
  BY <1>1 DEF Pursued, ChatOf, MatchOf

LEMMA PursuitStep ==
  ASSUME IInv, [Next]_vars, NEW k \in Keys, Due(k),
         Pursued(k) \/ (pc = "idle" /\ pc' # "idle" /\ k \notin sent)
  PROVE  Pursued(k)' \/ k \in sent' \ dropped' \/ Setback(k)
<1> DEFINE c == ChatOf(k)
           z == CompOf[MatchOf(k)]
<1> USE DEF Worker, workVars, ledgerVars
<1>0. /\ c \in Chats /\ z \in Comps /\ k # None /\ k \notin sent
      /\ TypeInv /\ NothingOwedIsSettled
      /\ pc # "mark" => inHand = None
      /\ pc \notin {"plan", "deliver", "mark"} => k \notin owed
      /\ pc # "idle" => Pursued(k)
  BY KeyParts, DeliveryAssumption
     DEF IInv, Pursued, TypeInv, WorkInv, NothingOwedIsSettled
<1>1. CASE CycleRaises \/ Crash
  BY <1>1 DEF Setback
<1>2. CASE BotStep \/ WorldStep \/ UNCHANGED vars
  <2>1. UNCHANGED <<pc, workVars, ledgerVars>>
    BY <1>2, OthersFrame DEF vars
  <2>2. Pursued(k)
    BY <2>1
  <2> QED
    BY <2>1, <2>2, <1>0 DEF Pursued, InData, ChatOf, MatchOf
<1>3. CASE StartCycle
  <2>1. /\ pc' = "competitions" /\ now' = clock /\ roster' = ActiveRoster /\ sent' = sent
    BY <1>3 DEF StartCycle
  <2>2. ActiveRoster[c] # Absent /\ Timely(k, users[c], clock)
    BY DEF Due
  <2>3. ActiveRoster[c] = users[c]
    BY <1>0, <2>2 DEF ActiveRoster
  <2> QED
    BY <1>0, <2>1, <2>2, <2>3 DEF Pursued
<1>4. CASE ReadCompetitions
  <2>1. z \in ActiveCompetitions
    BY <1>0 DEF Due, ActiveCompetitions, ListSubscriptions
  <2> QED
    BY <1>0, <1>4, <2>1, PursuitKept DEF ReadCompetitions
<1>5. ASSUME NEW x \in Comps, NEW f \in BOOLEAN, NEW g \in BOOLEAN,
             FetchCompetition(x, f, g)
      PROVE  Pursued(k)' \/ Setback(k)
  <2>1. /\ pc = "fetch" /\ pc' = "fetch" /\ UNCHANGED <<now, roster, sent>>
        /\ toFetch' = toFetch \ {x}
    BY <1>5 DEF FetchCompetition
  <2>2. /\ Pursued(k) /\ Timely(k, roster[c], now)
        /\ z \in toFetch \/ InData(k)
    BY <1>0, <2>1 DEF Pursued
  <2>3. CASE x = z
    <3>1. InData(k)' \/ Setback(k)
      BY <1>0, <1>5, <2>2, <2>3, TimelyIsFetched
    <3> QED
      BY <1>0, <2>1, <2>2, <3>1, PursuitKept
  <2>4. CASE x # z
    <3>1. data'[z] = data[z]
      BY <1>5, <1>0, <2>4 DEF FetchCompetition, TypeInv, TypeOK
    <3>2. z \in toFetch' \/ InData(k)'
      BY <2>1, <2>2, <2>4, <3>1 DEF InData, MatchOf, LabelOf, IsReminder
    <3> QED
      BY <1>0, <2>1, <2>2, <3>2, PursuitKept
  <2> QED
    BY <2>3, <2>4
<1>6. CASE FinishFetching
  <2>1. /\ pc = "fetch" /\ toFetch = {} /\ pc' = "plan"
        /\ UNCHANGED <<now, roster, sent, data>>
        /\ toPlan' = {d \in Chats : roster[d] # Absent}
    BY <1>6 DEF FinishFetching
  <2>2. Pursued(k) /\ InData(k) /\ roster[c] # Absent
    BY <1>0, <2>1 DEF Pursued
  <2>3. c \in toPlan' /\ InData(k)'
    BY <1>0, <2>1, <2>2 DEF InData, MatchOf, LabelOf, IsReminder
  <2> QED
    BY <1>0, <2>1, <2>2, <2>3, PursuitKept
<1>7. ASSUME NEW d \in Chats, PlanSubscriber(d)
      PROVE  Pursued(k)'
  <2>1. /\ pc = "plan" /\ pc' = "plan" /\ UNCHANGED <<now, roster, sent, data>>
        /\ d \in toPlan /\ toPlan' = toPlan \ {d} /\ owed \subseteq owed'
    BY <1>7 DEF PlanSubscriber
  <2>2. Pursued(k) /\ Timely(k, roster[c], now) /\ ((c \in toPlan /\ InData(k)) \/ k \in owed)
    BY <1>0, <2>1 DEF Pursued
  <2>3. CASE k \in owed
    BY <1>0, <2>1, <2>2, <2>3, PursuitKept
  <2>4. CASE k \notin owed /\ d = c
    <3>1. k \in owed'
      BY <1>0, <1>7, <2>2, <2>4, TimelyIsPlanned
    <3> QED
      BY <1>0, <2>1, <2>2, <3>1, PursuitKept
  <2>5. CASE k \notin owed /\ d # c
    <3>1. c \in toPlan' /\ InData(k)'
      BY <2>1, <2>2, <2>5 DEF InData, MatchOf, LabelOf, IsReminder
    <3> QED
      BY <1>0, <2>1, <2>2, <3>1, PursuitKept
  <2> QED
    BY <2>3, <2>4, <2>5
<1>8. CASE FinishPlanning
  <2>1. /\ pc = "plan" /\ toPlan = {} /\ UNCHANGED <<now, roster, sent, owed>>
    BY <1>8 DEF FinishPlanning
  <2>2. Pursued(k) /\ k \in owed
    BY <1>0, <2>1 DEF Pursued
  <2> QED
    BY <1>0, <2>1, <2>2, PursuitKept
<1>9. ASSUME NEW j \in owed,
             \/ LeaveForLater(j) \/ Drop(j) \/ SendToConsole(j)
             \/ SendAccepted(j) \/ SendFailed(j)
      PROVE  Pursued(k)' \/ Setback(k)
  <2>1. /\ pc = "deliver" /\ owed' = owed \ {j} /\ UNCHANGED <<now, roster>>
        /\ sent' \subseteq sent \cup {j}
    BY <1>9 DEF LeaveForLater, Drop, SendToConsole, SendAccepted, SendFailed, Handle
  <2>2. Pursued(k) /\ k \in owed /\ Timely(k, roster[c], now)
    BY <1>0, <2>1 DEF Pursued
  <2>3. CASE j # k
    BY <1>0, <2>1, <2>2, <2>3, PursuitKept
  <2>4. CASE j = k
    <3>1. Classify(k) = "send"
      BY <1>0, <2>2, TimelyIsSent
    <3>2. SendToConsole(k) \/ SendAccepted(k) \/ SendFailed(k)
      BY <1>9, <2>4, <3>1 DEF LeaveForLater, Drop, Handle
    <3>3. CASE SendToConsole(k) \/ SendFailed(k)
      BY <3>3 DEF Setback
    <3>4. CASE SendAccepted(k)
      <4>1. inHand' = k /\ sent' = sent
        BY <3>4 DEF SendAccepted
      <4> QED
        BY <1>0, <2>1, <2>2, <4>1, PursuitKept
    <3> QED
      BY <3>2, <3>3, <3>4
  <2> QED
    BY <2>3, <2>4
<1>10. CASE MarkSent
  <2>1. /\ pc = "mark" /\ UNCHANGED <<now, roster, owed, dropped>>
        /\ sent' = sent \cup {inHand}
    BY <1>10 DEF MarkSent
  <2>2. Pursued(k) /\ (k \in owed \/ inHand = k)
    BY <1>0, <2>1 DEF Pursued
  <2>3. inHand \notin owed /\ k \notin dropped
    BY <1>0, <2>1 DEF NothingOwedIsSettled, TypeInv, WorkInv
  <2>4. CASE inHand = k
    BY <2>1, <2>3, <2>4
  <2>5. CASE inHand # k
    BY <1>0, <2>1, <2>2, <2>5, PursuitKept
  <2> QED
    BY <2>4, <2>5
<1>11. CASE FinishCycle
  <2>1. pc = "deliver" /\ owed = {}
    BY <1>11 DEF FinishCycle
  <2> QED
    BY <1>0, <2>1 DEF Pursued
<1> QED
  BY <1>1, <1>2, <1>3, <1>4, <1>5, <1>6, <1>7, <1>8, <1>9, <1>10, <1>11
     DEF Next, WorkerStep

\* A cycle that begins while an alert is due delivers and records it unless the alert
\* meets a setback of its own or stops being due: the safety half of "nothing is lost".
\* No other user, competition or failed send, and no handler, can keep it from its chat.
THEOREM OnlyOwnSetbacksDelay == Spec => OnlySetbacksDelay
<1>1. IInv /\ [Next]_vars =>
        [\A k \in Keys :
           Due(k) /\ (Pursued(k) \/ (pc = "idle" /\ pc' # "idle" /\ k \notin sent))
             => Pursued(k)' \/ k \in sent' \ dropped' \/ Setback(k)]_vars
  BY PursuitStep
<1> QED
  BY <1>1, Invariance, PTL DEF Spec, OnlySetbacksDelay

-----------------------------------------------------------------------------
(* The store *)

LEMMA ForeignKeyStep ==
  ASSUME TypeInv, ForeignKey, [Next]_vars
  PROVE  ForeignKey'
<1> USE DEF ForeignKey, Registered
<1>1. CASE WorkerStep \/ CycleRaises \/ Crash \/ WorldStep \/ UNCHANGED vars
  <2>1. UNCHANGED <<users, rows>> /\ adding' \in {adding, None}
    BY <1>1 DEF WorkerStep, StartCycle, ReadCompetitions, FetchCompetition,
       FinishFetching, PlanSubscriber, FinishPlanning, LeaveForLater, Drop,
       SendToConsole, SendAccepted, SendFailed, MarkSent, FinishCycle, Handle, Worker,
       CycleRaises, Crash, LoseCycle, WorldStep, Tick, Postpone, Reinstate, FullTime,
       ScoreKnown, SetMatchStatus, World, vars
  <2> QED
    BY <2>1
<1>2. CASE AddPicked
  <2>1. PICK p :
          /\ rows' = rows \cup {[chat |-> adding.chat, comp |-> p[1], team |-> p[2]]}
          /\ adding' \in {None, [adding EXCEPT !.picks = @ \ {p}]}
          /\ users' = users
    BY <1>2 DEF AddPicked, AddSubscription
  <2>2. adding \in [chat : Chats, picks : SUBSET Pick]
    BY <1>2 DEF AddPicked, TypeInv, TypeOK
  <2> QED
    BY <1>2, <2>1, <2>2 DEF AddPicked
<1>3. ASSUME NEW c \in Chats, NEW sub \in Subscriber, UpsertSubscriber(c, sub),
             adding' # None => adding'.chat = c \/ adding' = adding
      PROVE  ForeignKey'
  BY <1>3, StoreAssumption
     DEF UpsertSubscriber, TypeInv, TypeOK, StoreTypeOK, Row
<1>4. ASSUME NEW c \in Chats, Start(c)
      PROVE  ForeignKey'
  BY <1>3, <1>4, NewSubscriberType DEF Start
<1>5. ASSUME NEW c \in Chats, NEW prefs \in AlertPrefs, NEW picks \in Picks,
             ConfirmOnboarding(c, prefs, picks)
      PROVE  ForeignKey'
  <2>1. (IF Registered(c) THEN users[c] ELSE NewSubscriber) \in Subscriber
    BY NewSubscriberType DEF TypeInv, TypeOK, StoreTypeOK
  <2> QED
    BY <1>3, <1>5, <2>1, SavedPrefsType DEF ConfirmOnboarding
<1>6. ASSUME NEW c \in Chats, Pause(c) \/ Resume(c)
      PROVE  ForeignKey'
  <2>1. PICK s \in {"active", "paused"} : users' = [users EXCEPT ![c].status = s]
    BY <1>6 DEF Pause, Resume, SetStatus
  <2>2. [users[c] EXCEPT !.status = s] \in Subscriber
    BY <1>6, <2>1 DEF Pause, Resume, TypeInv, TypeOK, StoreTypeOK, Subscriber
  <2>3. UpsertSubscriber(c, [users[c] EXCEPT !.status = s])
    BY <1>6, <2>1 DEF Pause, Resume, SetStatus, UpsertSubscriber
  <2> QED
    BY <1>3, <1>6, <2>2, <2>3 DEF Pause, Resume
<1>7. ASSUME NEW c \in Chats, NEW prefs \in AlertPrefs, SaveEdit(c, prefs)
      PROVE  ForeignKey'
  <2>1. users[c] \in Subscriber
    BY <1>7 DEF SaveEdit, TypeInv, TypeOK, StoreTypeOK
  <2> QED
    BY <1>3, <1>7, <2>1, SavedPrefsType DEF SaveEdit
<1>8. ASSUME NEW c \in Chats, NEW window \in Windows, SetQuiet(c, window)
      PROVE  ForeignKey'
  <2>1. [users[c] EXCEPT !.quiet = window] \in Subscriber
    BY <1>8 DEF SetQuiet, TypeInv, TypeOK, StoreTypeOK, Subscriber
  <2> QED
    BY <1>3, <1>8, <2>1 DEF SetQuiet
<1>9. ASSUME NEW c \in Chats, Unsubscribe(c)
      PROVE  ForeignKey'
  BY <1>9 DEF Unsubscribe, RemoveSubscriptions, Handler
<1>10. ASSUME NEW c \in Chats, Stop(c)
      PROVE  ForeignKey'
  BY <1>10 DEF Stop, DeleteSubscriber, Handler, TypeInv, TypeOK, StoreTypeOK, Row
<1> QED
  BY <1>1, <1>2, <1>4, <1>5, <1>6, <1>7, <1>8, <1>9, <1>10 DEF Next, BotStep

\* A subscription never outlives its subscriber, not even when /stop, a crash in the
\* middle of an onboarding commit and a new /start follow each other.
THEOREM RowsHaveOwners == Spec => []ForeignKey
<1>1. Init => ForeignKey
  BY DeliveryAssumption DEF Init, ForeignKey, Registered
<1>2. TypeInv /\ ForeignKey /\ [Next]_vars => ForeignKey'
  BY ForeignKeyStep
<1> QED
  BY <1>1, <1>2, TypeInvariance, PTL DEF Spec

=============================================================================
