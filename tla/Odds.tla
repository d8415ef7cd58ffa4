--------------------------------- MODULE Odds ---------------------------------
(***************************************************************************)
(* Upsets in the multi-user service: the verdict of shock.py over odds,    *)
(* standings and form, the odds cache of one delivery cycle (fanout.py)    *)
(* and the daily budget in the database (odds_budget.py), for the results  *)
(* of one competition and the users who want to hear of upsets.            *)
(*                                                                         *)
(* Delivery leaves open which results are upsets; this module is what is   *)
(* behind that choice.  What was already sent is looked up after the       *)
(* verdict, so it plays no part here: every cycle judges every result.     *)
(***************************************************************************)
EXTENDS Integers, FiniteSets, Sequences

CONSTANTS
  Users,           \* active subscribers with upsets switched on
  Matches,         \* matches of the competition, by stable_id
  Follows,         \* Follows[u]: matches with a team u watches
  Score,           \* Score[m]: the final score
  Teams,
  Team,            \* Team[m]: the teams at "HOME" and "AWAY"
  Quotes,          \* odds API-Football may answer with
  Tables,          \* standings a provider may return
  SignalPriority,  \* shock_detection.signal_priority
  Sensitivity,     \* shock_detection.sensitivity, in percent
  MinPositionGap,  \* shock_detection.min_position_gap
  FormWindow,      \* shock_detection.form_window
  DailyCap,        \* odds lookups a day
  Attempts,        \* requests one HTTP call may issue (HttpClient.max_retries)
  DayLength,       \* clock units of a day
  MaxTime,         \* bound on the clock
  MaxFaults,       \* bound on crashes and raised cycles
  NoOdds, Unasked, NoMatch   \* no odds; not looked up in this cycle; no match

Times == 0..MaxTime
Day(t) == t \div DayLength
Days == {Day(t) : t \in Times}
Pairs == {p \in Users \X Matches : p[2] \in Follows[p[1]]}

\* Decimal 1X2 odds (MatchOdds), in hundredths.
Odds == [{"HOME", "DRAW", "AWAY"} -> Nat \ {0}]

\* Standing: the place, and the recent results as a provider spells them, where
\* anything but W, D and L is punctuation.
Row == [position : Nat, form : Seq({"W", "D", "L", "other"})]
NoTable == [t \in {} |-> 0]

ASSUME OddsAssumption ==
  /\ Follows \in [Users -> SUBSET Matches]
  /\ IsFiniteSet(Matches)
  /\ Score \in [Matches -> [home : Nat, away : Nat]]
  /\ Team \in [Matches -> [{"HOME", "AWAY"} -> Teams]]
  /\ Quotes \subseteq Odds
  /\ \A t \in Tables : DOMAIN t \subseteq Teams /\ \A x \in DOMAIN t : t[x] \in Row
  /\ SignalPriority \in Seq({"odds", "standings", "form"})
  /\ Sensitivity \in 0..100
  /\ MinPositionGap \in Nat \ {0} /\ FormWindow \in Nat \ {0}
  /\ DailyCap \in Nat
  /\ Attempts \in Nat \ {0} /\ DayLength \in Nat \ {0}
  /\ MaxTime \in Nat /\ MaxFaults \in Nat
  /\ NoOdds \notin Odds /\ Unasked \notin Odds /\ NoOdds # Unasked
  /\ NoMatch \notin Matches

-----------------------------------------------------------------------------
(* evaluate_upset *)

\* MatchResult.from_fixture
Winner(m) ==
  IF Score[m].home > Score[m].away THEN "HOME"
  ELSE IF Score[m].away > Score[m].home THEN "AWAY"
  ELSE "DRAW"

Loser(winner) == IF winner = "HOME" THEN "AWAY" ELSE "HOME"

\* Mutant: level odds make both sides outsiders.
NoFavourite(odds, w, l) ==
  LET draw == odds["DRAW"]
      whole == draw * odds[l] + draw * odds[w] + odds[w] * odds[l]
  IN  100 * draw * odds[l] <= (100 - Sensitivity) * whole /\ odds[w] >= odds[l]

\* The winner's implied probability, without the bookmaker's margin, is
\* 1/w / (1/w + 1/draw + 1/l), compared with 1 - sensitivity and with the loser's.
Outsider(odds, w, l) ==
  LET draw == odds["DRAW"]
      whole == draw * odds[l] + draw * odds[w] + odds[w] * odds[l]
  IN  100 * draw * odds[l] <= (100 - Sensitivity) * whole /\ odds[w] > odds[l]

\* _form_points: three for a win and one for a draw in the last results that count.
Counted(form) == {i \in DOMAIN form : form[i] \in {"W", "D", "L"}}
Recent(form) ==
  {i \in Counted(form) : Cardinality({k \in Counted(form) : k > i}) < FormWindow}
FormPoints(form) ==
  3 * Cardinality({i \in Recent(form) : form[i] = "W"})
    + Cardinality({i \in Recent(form) : form[i] = "D"})

HasData(signal, m, odds, table) ==
  \/ signal = "odds" /\ odds # NoOdds
  \/ signal \in {"standings", "form"} /\ \A side \in {"HOME", "AWAY"} :
       /\ Team[m][side] \in DOMAIN table
       /\ signal = "form" => Counted(table[Team[m][side]].form) # {}

\* What one signal with data says of a win of side w over side l.
SaysUpset(signal, m, w, l, odds, table) ==
  \/ signal = "odds" /\ Outsider(odds, w, l)
  \/ signal = "standings" /\ table[Team[m][w]].position - table[Team[m][l]].position
                               >= MinPositionGap
  \/ signal = "form" /\ FormPoints(table[Team[m][l]].form) - FormPoints(table[Team[m][w]].form)
                          >= FormWindow

\* evaluate_upset: the first signal that has data decides.
EvaluateUpset(m, winner, odds, table) ==
  LET usable == {i \in DOMAIN SignalPriority : HasData(SignalPriority[i], m, odds, table)}
      signal == SignalPriority[CHOOSE i \in usable : \A k \in usable : i <= k]
  IN  IF winner = "DRAW" \/ usable = {}
        THEN [signal |-> "none", upset |-> FALSE]
        ELSE [signal |-> signal,
              upset  |-> SaysUpset(signal, m, winner, Loser(winner), odds, table)]

Verdicts == [signal : {"odds", "standings", "form", "none"}, upset : BOOLEAN]

-----------------------------------------------------------------------------
VARIABLES
  clock,     \* wall clock, UTC
  used,      \* meta: used[d] is odds_calls of day d
  pc,        \* where the cycle is
  now,       \* the cycle's timestamp
  left,      \* users and results still to be judged
  table,     \* the standings this cycle fetched
  cache,     \* CompetitionData._odds
  subject,   \* the match being looked up
  seen,      \* the counter as try_consume read it
  faults,    \* faults that may still happen
  requests,  \* history: requests[d], odds requests of the cycles that began on day d
  late,      \* history: late[d], requests made on day d by a cycle that began earlier
  charged,   \* history: charged[m], budget units this cycle took for m
  told,      \* history: told[m], verdicts this cycle gave on m
  begun      \* history: begun[d], cycles that began on day d

cycleVars == <<now, left, table, cache, subject, seen, charged, told>>
vars == <<clock, used, pc, cycleVars, faults, requests, late, begun>>

TypeOK ==
  /\ clock \in Times
  /\ used \in [Days -> Nat]
  /\ pc \in {"idle", "results", "standings", "plan", "budget", "charge", "fixture", "odds"}
  /\ now \in Times
  /\ left \subseteq Pairs
  /\ table \in Tables \cup {NoTable}
  /\ cache \in [Matches -> Quotes \cup {NoOdds, Unasked}]
  /\ subject \in Matches \cup {NoMatch}
  /\ seen \in Nat
  /\ faults \in 0..MaxFaults
  /\ requests \in [Days -> Nat]
  /\ late \in [Days -> Nat]
  /\ charged \in [Matches -> Nat]
  /\ told \in [Matches -> SUBSET Verdicts]
  /\ begun \in [Days -> Nat]

Init ==
  /\ clock = 0
  /\ used = [d \in Days |-> 0]
  /\ pc = "idle"
  /\ now = 0
  /\ left = {}
  /\ table = NoTable
  /\ cache = [m \in Matches |-> Unasked]
  /\ subject = NoMatch
  /\ seen = 0
  /\ faults = MaxFaults
  /\ requests = [d \in Days |-> 0]
  /\ late = [d \in Days |-> 0]
  /\ charged = [m \in Matches |-> 0]
  /\ told = [m \in Matches |-> {}]
  /\ begun = [d \in Days |-> 0]

-----------------------------------------------------------------------------
(* One cycle *)

Begin ==
  /\ pc = "idle"
  /\ pc' = "results"
  /\ now' = clock
  /\ begun' = [begun EXCEPT ![Day(clock)] = @ + 1]
  /\ UNCHANGED <<clock, used, left, table, cache, subject, seen, faults, requests, late,
                 charged, told>>

\* Mutant: every user is asked about every result.
FetchResultsForAll ==
  /\ pc = "results"
  /\ \E results \in SUBSET Matches :
       /\ left' = Users \X results
       /\ pc' = IF results = {} THEN "plan" ELSE "standings"
  /\ UNCHANGED <<clock, used, now, table, cache, subject, seen, faults, requests,
                 late, charged, told, begun>>

\* Finished matches of the last days with their score, or none when the fetch fails;
\* with no result there is nothing to ask the standings for.
FetchResults ==
  /\ pc = "results"
  /\ \E results \in SUBSET Matches :
       /\ left' = {p \in Pairs : p[2] \in results}
       /\ pc' = IF results = {} THEN "plan" ELSE "standings"
  /\ UNCHANGED <<clock, used, now, table, cache, subject, seen, faults, requests,
                 late, charged, told, begun>>

FetchStandings ==
  /\ pc = "standings"
  /\ pc' = "plan"
  /\ table' \in Tables \cup {NoTable}
  /\ UNCHANGED <<clock, used, now, left, cache, subject, seen, faults, requests,
                 late, charged, told, begun>>

\* Mutant: every user asks for herself.
LookUpForEachUser(m) ==
  /\ pc = "plan"
  /\ \E u \in Users : <<u, m>> \in left
  /\ subject' = m
  /\ pc' = "budget"
  /\ UNCHANGED <<clock, used, now, left, table, cache, seen, faults, requests,
                 late, charged, told, begun>>

\* odds_lookup for a match nobody has asked for in this cycle.
LookUp(m) ==
  /\ pc = "plan"
  /\ \E u \in Users : <<u, m>> \in left
  /\ cache[m] = Unasked
  /\ subject' = m
  /\ pc' = "budget"
  /\ UNCHANGED <<clock, used, now, left, table, cache, seen, faults, requests,
                 late, charged, told, begun>>

\* The lookup ends with these odds, or with none.
Answer(odds) ==
  /\ cache' = [cache EXCEPT ![subject] = odds]
  /\ subject' = NoMatch
  /\ pc' = "plan"

\* Mutant: the counter is not by day, so that it does not start again at midnight.
TryConsumeOfAllDays ==
  /\ pc = "budget"
  /\ LET spent == \E d \in Days : used[d] >= DailyCap
     IN  \/ spent /\ Answer(NoOdds) /\ UNCHANGED seen
         \/ /\ ~spent
            /\ pc' = "charge" /\ seen' = used[Day(now)]
            /\ UNCHANGED <<cache, subject>>
  /\ UNCHANGED <<clock, used, now, left, table, faults, requests, late, charged, told, begun>>

\* Mutant: with the budget spent, wait for more.
TryConsumeOrWait ==
  /\ pc = "budget"
  /\ used[Day(now)] < DailyCap
  /\ pc' = "charge" /\ seen' = used[Day(now)]
  /\ UNCHANGED <<clock, used, now, left, table, cache, subject, faults, requests,
                 late, charged, told, begun>>

\* try_consume reads the counter of the day on which the cycle began.
TryConsume ==
  /\ pc = "budget"
  /\ \/ /\ used[Day(now)] >= DailyCap
        /\ Answer(NoOdds)
        /\ UNCHANGED seen
     \/ /\ used[Day(now)] < DailyCap
        /\ pc' = "charge"
        /\ seen' = used[Day(now)]
        /\ UNCHANGED <<cache, subject>>
  /\ UNCHANGED <<clock, used, now, left, table, faults, requests, late, charged,
                 told, begun>>

\* Mutant: the unit is charged to the day it is.
ChargeToday ==
  /\ pc = "charge"
  /\ pc' = "fixture"
  /\ used' = [used EXCEPT ![Day(clock)] = seen + 1]
  /\ seen' = 0
  /\ charged' = [charged EXCEPT ![subject] = @ + 1]
  /\ UNCHANGED <<clock, now, left, table, cache, subject, faults, requests, late,
                 told, begun>>

\* ... and writes it back, before any request.
Charge ==
  /\ pc = "charge"
  /\ pc' = "fixture"
  /\ used' = [used EXCEPT ![Day(now)] = seen + 1]
  /\ seen' = 0
  /\ charged' = [charged EXCEPT ![subject] = @ + 1]
  /\ UNCHANGED <<clock, now, left, table, cache, subject, faults, requests, late,
                 told, begun>>

Send(n) ==
  /\ requests' = [requests EXCEPT ![Day(now)] = @ + n]
  /\ late' = IF Day(now) < Day(clock) THEN [late EXCEPT ![Day(clock)] = @ + n] ELSE late

\* _find_fixture_id: no request at all when no provider has odds or the competition is
\* not mapped; a failure and an unknown fixture both end the lookup.
FindFixture ==
  /\ pc = "fixture"
  /\ \E n \in 0..Attempts :
       /\ Send(n)
       /\ \/ n > 0 /\ pc' = "odds" /\ UNCHANGED <<cache, subject>>
          \/ Answer(NoOdds)
  /\ UNCHANGED <<clock, used, now, left, table, seen, faults, charged, told, begun>>

\* Mutant: a failure is not remembered.
FetchOddsAgain ==
  /\ pc = "odds"
  /\ \E n \in 1..Attempts : Send(n)
  /\ \E odds \in Quotes \cup {NoOdds, Unasked} : Answer(odds)
  /\ UNCHANGED <<clock, used, now, left, table, seen, faults, charged, told, begun>>

\* The rest of get_match_odds: the odds of the first bookmaker in this response that has
\* all three, which need not be the one of the last response; or none, or a failure.
FetchOdds ==
  /\ pc = "odds"
  /\ \E n \in 1..Attempts : Send(n)
  /\ \E odds \in Quotes \cup {NoOdds} : Answer(odds)
  /\ UNCHANGED <<clock, used, now, left, table, seen, faults, charged, told, begun>>

\* Mutant: the standings are fetched for each user.
JudgeByNewTable(u, m) ==
  \E t \in {table, NoTable} :
    LET verdict == EvaluateUpset(m, Winner(m), cache[m], t)
    IN  /\ pc = "plan"
        /\ <<u, m>> \in left
        /\ cache[m] # Unasked
        /\ left' = left \ {<<u, m>>}
        /\ told' = [told EXCEPT ![m] = @ \cup {verdict}]
        /\ UNCHANGED <<clock, used, pc, now, table, cache, subject, seen, faults,
                       requests, late, charged, begun>>

\* evaluate_results of one user and one result.
Judge(u, m) ==
  LET verdict == EvaluateUpset(m, Winner(m), cache[m], table)
  IN  /\ pc = "plan"
      /\ <<u, m>> \in left
      /\ cache[m] # Unasked
      /\ left' = left \ {<<u, m>>}
      /\ told' = [told EXCEPT ![m] = @ \cup {verdict}]
      /\ UNCHANGED <<clock, used, pc, now, table, cache, subject, seen, faults,
                     requests, late, charged, begun>>

\* All that survives a cycle is in the database.
Forget ==
  /\ pc' = "idle"
  /\ now' = 0
  /\ left' = {}
  /\ table' = NoTable
  /\ cache' = [m \in Matches |-> Unasked]
  /\ subject' = NoMatch
  /\ seen' = 0
  /\ charged' = [m \in Matches |-> 0]
  /\ told' = [m \in Matches |-> {}]
  /\ UNCHANGED <<clock, used, requests, late, begun>>

Finish ==
  /\ pc = "plan"
  /\ left = {}
  /\ Forget
  /\ UNCHANGED faults

\* The cycle raises, or its process dies.
Die ==
  /\ pc # "idle"
  /\ faults > 0
  /\ faults' = faults - 1
  /\ Forget

Tick ==
  /\ clock < MaxTime
  /\ clock' = clock + 1
  /\ UNCHANGED <<used, pc, cycleVars, faults, requests, late, begun>>

Worker ==
  \/ Begin
  \/ FetchResults
  \/ FetchStandings
  \/ \E m \in Matches : LookUp(m)
  \/ TryConsume
  \/ Charge
  \/ FindFixture
  \/ FetchOdds
  \/ \E u \in Users, m \in Matches : Judge(u, m)
  \/ Finish

Next == Worker \/ Die \/ Tick

Spec == Init /\ [][Next]_vars

\* The job is repeated for ever, and its thread is scheduled.
FairSpec == Spec /\ WF_vars(Worker)

-----------------------------------------------------------------------------
(* Properties *)

\* The budget bounds what is spent, across crashes and midnight: every odds request was
\* paid for before it was made, from the day on which its cycle began; a unit pays for
\* two calls and their retries, and a day has no more units than the cap.
RequestsPaid ==
  \A d \in Days : /\ used[d] <= DailyCap
                  /\ requests[d] <= 2 * Attempts * used[d]

\* What the provider's own day can get on top of its budget: one cycle that began the
\* day before and asks once for each match.
LateRequests == \A d \in Days : late[d] <= 2 * Attempts * Cardinality(Matches)

\* However many users follow a match, a cycle pays for it at most once, failures and
\* spent budgets included, and never for a match nobody follows.
OneUnitPerMatch ==
  \A m \in Matches : charged[m] <= IF \E u \in Users : m \in Follows[u] THEN 1 ELSE 0

\* The users of a cycle hear the same of a match, although the budget runs out and
\* requests fail between them.
SameVerdict == \A m \in Matches : \A v, w \in told[m] : v = w

\* The budget lasts: a cycle goes without odds for want of budget only on a day with
\* enough cycles to have used it up at one unit per followed match and cycle.  Neither
\* the number of users nor failures, crashes, and what was spent the day before or is
\* still spent by a cycle that began then, take anything off it.
FollowedMatches == {m \in Matches : \E u \in Users : m \in Follows[u]}

BudgetLasts ==
  \A m \in Matches : cache[m] = NoOdds /\ charged[m] = 0 =>
    DailyCap <= begun[Day(now)] * Cardinality(FollowedMatches)

\* Whatever was fetched: a win of one side and a win of the other are never both upsets.
OneSided ==
  \A m \in Matches : cache[m] # Unasked =>
    ~ /\ EvaluateUpset(m, "HOME", cache[m], table).upset
      /\ EvaluateUpset(m, "AWAY", cache[m], table).upset

\* The remaining work of a cycle only shrinks: a step of the cycle moves to a later stage,
\* brings the lookup under way further, answers for a match nobody asks for again, or
\* judges a result; a spent budget and a failed request count as answers.  With finitely
\* many users and results no cycle takes steps for ever.
Stage(p) == CASE p = "results" -> 1 [] p = "standings" -> 2 [] OTHER -> 3
Progress(p) ==
  CASE p = "budget" -> 1 [] p = "charge" -> 2 [] p = "fixture" -> 3 [] p = "odds" -> 4
    [] OTHER -> 0
ToAsk == {m \in Matches : cache[m] = Unasked}
Shrinks(rest, before) == rest \subseteq before /\ rest # before

WorkShrinks ==
  [][pc # "idle" /\ pc' # "idle" =>
       \/ UNCHANGED <<pc, cycleVars, used, requests, faults>>
       \/ Stage(pc) < Stage(pc')
       \/ /\ Stage(pc) = Stage(pc')
          /\ \/ Progress(pc) < Progress(pc') /\ UNCHANGED <<cache, left>>
             \/ Shrinks(ToAsk', ToAsk) /\ UNCHANGED left
             \/ Shrinks(left', left) /\ UNCHANGED cache]_vars

\* Running out degrades, it does not block: every cycle comes to its end.
PlanningEnds == []<>(pc = "idle")

=============================================================================
