------------------------------ MODULE OddsProofs ------------------------------
(***************************************************************************)
(* Proofs about Odds for any users, results, signals, thresholds, cap and  *)
(* length of a day.                                                        *)
(***************************************************************************)
EXTENDS Odds, FiniteSetTheorems, WellFoundedInduction, TLAPS

-----------------------------------------------------------------------------
(* The verdict *)

LEMMA LeastExists ==
  ASSUME NEW S \in SUBSET Nat, S # {}
  PROVE  \E i \in S : \A k \in S : i <= k
<1>1. PICK i \in S : \A k \in S : ~ (<<k, i>> \in OpToRel(<, Nat))
  BY NatLessThanWellFounded, WFMin
<1>2. \A k \in S : ~ (k < i)
  BY <1>1 DEF OpToRel
<1> QED
  BY <1>2

LEMMA FormPointsType ==
  ASSUME NEW form \in Seq({"W", "D", "L", "other"})
  PROVE  FormPoints(form) \in Nat
<1>1. Len(form) \in Nat /\ DOMAIN form = 1..Len(form)
  OBVIOUS
<1>2. IsFiniteSet(DOMAIN form)
  BY <1>1, FS_Interval
<1>3. \A c : {i \in Recent(form) : form[i] = c} \subseteq DOMAIN form
  BY DEF Recent, Counted
<1>4. \A c : Cardinality({i \in Recent(form) : form[i] = c}) \in Nat
  BY <1>2, <1>3, FS_Subset, FS_CardinalityType
<1>5. \A w, d \in Nat : 3 * w + d \in Nat
  OBVIOUS
<1> QED
  BY <1>4, <1>5 DEF FormPoints

\* The signals with data, by their place in the configured order, whoever won.
Usable(m, odds, standings) ==
  {i \in DOMAIN SignalPriority : HasData(SignalPriority[i], m, odds, standings)}
First(S) == CHOOSE i \in S : \A k \in S : i <= k
Deciding(m, odds, standings) == SignalPriority[First(Usable(m, odds, standings))]

LEMMA DecidingFacts ==
  ASSUME NEW m, NEW odds, NEW standings, Usable(m, odds, standings) # {}
  PROVE  /\ Deciding(m, odds, standings) \in {"odds", "standings", "form"}
         /\ HasData(Deciding(m, odds, standings), m, odds, standings)
<1> DEFINE S == Usable(m, odds, standings)
<1>1. S \subseteq DOMAIN SignalPriority
  BY DEF Usable
<1>2. DOMAIN SignalPriority \subseteq Nat
  BY OddsAssumption
<1>3. First(S) \in S
  BY <1>1, <1>2, LeastExists DEF First
<1>4. \A i \in DOMAIN SignalPriority : SignalPriority[i] \in {"odds", "standings", "form"}
  BY OddsAssumption
<1> QED
  BY <1>1, <1>3, <1>4 DEF Deciding, Usable

LEMMA EvaluateFacts ==
  ASSUME NEW m, NEW winner \in {"HOME", "AWAY", "DRAW"}, NEW odds, NEW standings
  PROVE  EvaluateUpset(m, winner, odds, standings) =
           IF winner = "DRAW" \/ Usable(m, odds, standings) = {}
             THEN [signal |-> "none", upset |-> FALSE]
             ELSE [signal |-> Deciding(m, odds, standings),
                   upset |-> SaysUpset(Deciding(m, odds, standings), m, winner, Loser(winner),
                                       odds, standings)]
BY DEF EvaluateUpset, Usable, Deciding, First

LEMMA EvaluateType ==
  ASSUME NEW m, NEW winner \in {"HOME", "AWAY", "DRAW"}, NEW odds, NEW standings
  PROVE  EvaluateUpset(m, winner, odds, standings) \in Verdicts
<1>1. SaysUpset(Deciding(m, odds, standings), m, winner, Loser(winner), odds, standings) \in BOOLEAN
  BY DEF SaysUpset
<1>2. CASE winner = "DRAW" \/ Usable(m, odds, standings) = {}
  <2>1. EvaluateUpset(m, winner, odds, standings) = [signal |-> "none", upset |-> FALSE]
    BY <1>2, EvaluateFacts
  <2> QED
    BY <2>1 DEF Verdicts
<1>3. CASE ~ (winner = "DRAW" \/ Usable(m, odds, standings) = {})
  <2>1. Deciding(m, odds, standings) \in {"odds", "standings", "form"}
    BY <1>3, DecidingFacts
  <2>2. EvaluateUpset(m, winner, odds, standings) =
          [signal |-> Deciding(m, odds, standings),
           upset |-> SaysUpset(Deciding(m, odds, standings), m, winner, Loser(winner),
                               odds, standings)]
    BY <1>3, EvaluateFacts
  <2> QED
    BY <1>1, <2>1, <2>2 DEF Verdicts
<1> QED
  BY <1>2, <1>3

TableType(standings) ==
  DOMAIN standings \subseteq Teams /\ \A t \in DOMAIN standings : standings[t] \in Row

\* Whatever the data: a win of one side and a win of the other are never both upsets.
LEMMA NeverBothUpsets ==
  ASSUME NEW m \in Matches, NEW odds \in Odds \cup {NoOdds}, NEW standings,
         TableType(standings)
  PROVE  ~ /\ EvaluateUpset(m, "HOME", odds, standings).upset
           /\ EvaluateUpset(m, "AWAY", odds, standings).upset
<1> SUFFICES ASSUME Usable(m, odds, standings) # {},
                    SaysUpset(Deciding(m, odds, standings), m, "HOME", "AWAY", odds, standings),
                    SaysUpset(Deciding(m, odds, standings), m, "AWAY", "HOME", odds, standings)
             PROVE  FALSE
  BY EvaluateFacts DEF Loser
<1> DEFINE signal == Deciding(m, odds, standings)
           home == standings[Team[m]["HOME"]]
           away == standings[Team[m]["AWAY"]]
<1>1. signal \in {"odds", "standings", "form"} /\ HasData(signal, m, odds, standings)
  BY DecidingFacts
<1>2. CASE signal = "odds"
  <2>1. odds \in Odds
    BY <1>1, <1>2 DEF HasData
  <2>2. odds["HOME"] \in Nat /\ odds["AWAY"] \in Nat
    BY <2>1 DEF Odds
  <2>3. odds["HOME"] > odds["AWAY"] /\ odds["AWAY"] > odds["HOME"]
    BY <1>2 DEF SaysUpset, Outsider
  <2> QED
    BY <2>2, <2>3
<1>3. CASE signal \in {"standings", "form"}
  <2>1. home \in Row /\ away \in Row
    BY <1>1, <1>3 DEF HasData, TableType
  <2>2. home.position \in Nat /\ away.position \in Nat
        /\ FormPoints(home.form) \in Nat /\ FormPoints(away.form) \in Nat
    BY <2>1, FormPointsType DEF Row
  <2>3. CASE signal = "standings"
    BY <2>2, <2>3, OddsAssumption DEF SaysUpset
  <2>4. CASE signal = "form"
    BY <2>2, <2>4, OddsAssumption DEF SaysUpset
  <2> QED
    BY <1>3, <2>3, <2>4
<1> QED
  BY <1>1, <1>2, <1>3

-----------------------------------------------------------------------------
(* Which signals can decide *)

\* With "standings" before "form" in signal_priority, as config.py and config.example.yaml
\* have it, the form never decides: whoever has a form to count has a place in the same
\* table, so the place has already decided.  The form is a fallback only for a
\* configuration that puts it first.
THEOREM FormNeverDecides ==
  ASSUME NEW i \in DOMAIN SignalPriority, SignalPriority[i] = "standings",
         \A k \in DOMAIN SignalPriority : SignalPriority[k] = "form" => i < k,
         NEW m, NEW winner \in {"HOME", "AWAY", "DRAW"}, NEW odds, NEW standings
  PROVE  EvaluateUpset(m, winner, odds, standings).signal # "form"
<1> DEFINE usable == Usable(m, odds, standings)
<1> SUFFICES ASSUME EvaluateUpset(m, winner, odds, standings).signal = "form"
             PROVE  FALSE
  OBVIOUS
<1>1. usable # {} /\ Deciding(m, odds, standings) = "form"
  BY EvaluateFacts
<1>2. usable \subseteq DOMAIN SignalPriority /\ DOMAIN SignalPriority \subseteq Nat
  BY OddsAssumption DEF Usable
<1>3. First(usable) \in usable /\ \A k \in usable : First(usable) <= k
  BY <1>1, <1>2, LeastExists DEF First
<1>4. HasData("form", m, odds, standings)
  BY <1>1, DecidingFacts
<1>5. i \in usable
  BY <1>4 DEF HasData, Usable
<1>6. First(usable) <= i /\ i < First(usable)
  BY <1>1, <1>2, <1>3, <1>5 DEF Deciding
<1> QED
  BY <1>2, <1>3, <1>6

-----------------------------------------------------------------------------
(* Types *)

LEMMA TablesTyped == \A t \in Tables \cup {NoTable} : TableType(t)
BY OddsAssumption DEF TableType, NoTable

LEMMA WinnerType == \A m : Winner(m) \in {"HOME", "AWAY", "DRAW"}
BY DEF Winner

LEMMA Quotients ==
  ASSUME NEW n \in Nat \ {0}, NEW t \in Nat
  PROVE  /\ t \div n \in Nat
         /\ \A s \in Nat : t <= s => t \div n <= s \div n
OBVIOUS

LEMMA DayType ==
  /\ \A t \in Times : Day(t) \in Days
  /\ \A d \in Days : d \in Nat
<1>1. ASSUME NEW t \in Times PROVE Day(t) \in Nat
  <2>1. t \in Nat /\ DayLength \in Nat \ {0}
    BY OddsAssumption DEF Times
  <2>2. t \div DayLength \in Nat
    BY <2>1, Quotients
  <2> QED
    BY <2>2 DEF Day
<1> QED
  BY <1>1 DEF Days

LEMMA DaysGoOn ==
  ASSUME NEW t \in Times, NEW s \in Times, t <= s
  PROVE  Day(t) <= Day(s)
<1>1. t \in Nat /\ s \in Nat /\ DayLength \in Nat \ {0}
  BY OddsAssumption DEF Times
<1>2. t \div DayLength <= s \div DayLength
  BY <1>1, Quotients
<1> QED
  BY <1>2 DEF Day

LEMMA SendType ==
  ASSUME NEW n \in Nat, requests \in [Days -> Nat], late \in [Days -> Nat],
         now \in Times, clock \in Times, Send(n)
  PROVE  requests' \in [Days -> Nat] /\ late' \in [Days -> Nat]
<1>1. Day(now) \in Days /\ Day(clock) \in Days
  BY DayType
<1>2. requests[Day(now)] + n \in Nat /\ late[Day(clock)] + n \in Nat
  BY <1>1
<1> QED
  BY <1>1, <1>2 DEF Send

LEMMA StepType == TypeOK /\ [Next]_vars => TypeOK'
<1> SUFFICES ASSUME TypeOK, [Next]_vars PROVE TypeOK'
  OBVIOUS
<1> USE DEF TypeOK
<1>1. CASE Begin
  <2>1. begun' \in [Days -> Nat]
    BY <1>1, DayType DEF Begin
  <2> QED
    BY <1>1, <2>1 DEF Begin
<1>2. CASE FetchResults
  BY <1>2 DEF FetchResults
<1>3. CASE FetchStandings
  BY <1>3 DEF FetchStandings
<1>4. ASSUME NEW m \in Matches, LookUp(m) PROVE TypeOK'
  BY <1>4 DEF LookUp
<1>5. CASE TryConsume
  BY <1>5, DayType DEF TryConsume, Answer
<1>6. CASE Charge
  <2>1. used' \in [Days -> Nat]
    BY <1>6, DayType DEF Charge
  <2>2. charged' \in [Matches -> Nat]
    <3>1. CASE subject \in Matches
      BY <1>6, <3>1 DEF Charge
    <3>2. CASE subject \notin Matches
      BY <1>6, <3>2 DEF Charge
    <3> QED
      BY <3>1, <3>2
  <2> QED
    BY <1>6, <2>1, <2>2 DEF Charge
<1>7. CASE FindFixture
  <2>0. PICK n \in 0..Attempts : Send(n) /\ n \in Nat
    BY <1>7, OddsAssumption DEF FindFixture
  <2>1. requests' \in [Days -> Nat] /\ late' \in [Days -> Nat]
    BY <2>0, SendType
  <2> QED
    BY <1>7, <2>1 DEF FindFixture, Answer
<1>8. CASE FetchOdds
  <2>0. PICK n \in 1..Attempts : Send(n) /\ n \in Nat
    BY <1>8, OddsAssumption DEF FetchOdds
  <2>1. requests' \in [Days -> Nat] /\ late' \in [Days -> Nat]
    BY <2>0, SendType
  <2> QED
    BY <1>8, <2>1 DEF FetchOdds, Answer
<1>9. ASSUME NEW u \in Users, NEW m \in Matches, Judge(u, m) PROVE TypeOK'
  <2>1. EvaluateUpset(m, Winner(m), cache[m], table) \in Verdicts
    BY EvaluateType, WinnerType
  <2> QED
    BY <1>9, <2>1 DEF Judge
<1>10. CASE Finish \/ Die
  <2>1. faults' \in 0..MaxFaults
    BY <1>10, OddsAssumption DEF Finish, Die
  <2>2. Forget
    BY <1>10 DEF Finish, Die
  <2>3. 0 \in Times
    BY OddsAssumption DEF Times
  <2> QED
    BY <2>1, <2>2, <2>3 DEF Forget
<1>11. CASE Tick
  <2>1. clock' \in Times
    BY <1>11, OddsAssumption DEF Tick, Times
  <2> QED
    BY <1>11, <2>1 DEF Tick, cycleVars
<1>12. CASE UNCHANGED vars
  BY <1>12 DEF vars, cycleVars
<1> QED
  BY <1>1, <1>2, <1>3, <1>4, <1>5, <1>6, <1>7, <1>8, <1>9, <1>10, <1>11, <1>12
     DEF Next, Worker

LEMMA InitType == Init => TypeOK
BY OddsAssumption DEF Init, TypeOK, Times

\* Type correctness of the odds lookups and the verdicts.
THEOREM TypeCorrect == Spec => []TypeOK
<1> QED
  BY InitType, StepType, PTL DEF Spec

\* Whatever odds and standings a cycle has: a win of one side and a win of the other are
\* never both upsets.
THEOREM AlwaysOneSided == Spec => []OneSided
<1>1. TypeOK => OneSided
  <2> SUFFICES ASSUME TypeOK, NEW m \in Matches, cache[m] # Unasked
               PROVE  ~ /\ EvaluateUpset(m, "HOME", cache[m], table).upset
                        /\ EvaluateUpset(m, "AWAY", cache[m], table).upset
    BY DEF OneSided
  <2>1. cache[m] \in Odds \cup {NoOdds}
    BY OddsAssumption DEF TypeOK
  <2>2. TableType(table)
    BY TablesTyped DEF TypeOK
  <2> QED
    BY <2>1, <2>2, NeverBothUpsets
<1> QED
  BY <1>1, TypeCorrect, PTL

-----------------------------------------------------------------------------
(* The flow of a cycle *)

LookingUp == pc \in {"budget", "charge", "fixture", "odds"}
Followed(m) == \E u \in Users : m \in Follows[u]

Flow ==
  /\ now <= clock
  /\ LookingUp => subject \in Matches /\ cache[subject] = Unasked /\ Followed(subject)
  /\ pc = "charge" => seen = used[Day(now)] /\ seen < DailyCap
  /\ pc \in {"idle", "results", "standings"} =>
       \A m \in Matches : cache[m] = Unasked /\ charged[m] = 0 /\ told[m] = {}

LEMMA InitFlow == Init => Flow
BY DEF Init, Flow, LookingUp

LEMMA StepFlow == TypeOK /\ Flow /\ [Next]_vars => Flow'
<1> SUFFICES ASSUME TypeOK, Flow, [Next]_vars PROVE Flow'
  OBVIOUS
<1> USE DEF Flow, LookingUp, Followed
<1>0. now \in Nat /\ clock \in Nat /\ 0 <= clock
  BY OddsAssumption DEF TypeOK, Times
<1>1. CASE Begin
  BY <1>0, <1>1 DEF Begin
<1>2. CASE FetchResults
  BY <1>2 DEF FetchResults
<1>3. CASE FetchStandings
  BY <1>3 DEF FetchStandings
<1>4. ASSUME NEW m \in Matches, LookUp(m) PROVE Flow'
  <2>1. Followed(m)
    BY <1>4 DEF LookUp, TypeOK, Pairs
  <2> QED
    BY <1>4, <2>1 DEF LookUp
<1>5. CASE TryConsume
  BY <1>5 DEF TryConsume, Answer
<1>6. CASE Charge
  BY <1>6 DEF Charge
<1>7. CASE FindFixture
  BY <1>7 DEF FindFixture, Answer
<1>8. CASE FetchOdds
  BY <1>8 DEF FetchOdds, Answer
<1>9. ASSUME NEW u \in Users, NEW m \in Matches, Judge(u, m) PROVE Flow'
  BY <1>9 DEF Judge
<1>10. CASE Finish \/ Die
  <2>1. Forget
    BY <1>10 DEF Finish, Die
  <2> QED
    BY <1>0, <2>1 DEF Forget
<1>11. CASE Tick
  BY <1>0, <1>11 DEF Tick, cycleVars
<1>12. CASE UNCHANGED vars
  BY <1>12 DEF vars, cycleVars
<1> QED
  BY <1>1, <1>2, <1>3, <1>4, <1>5, <1>6, <1>7, <1>8, <1>9, <1>10, <1>11, <1>12
     DEF Next, Worker

THEOREM AlwaysInFlow == Spec => [](TypeOK /\ Flow)
<1> QED
  BY InitType, StepType, InitFlow, StepFlow, PTL DEF Spec

-----------------------------------------------------------------------------
(* One verdict in a cycle *)

Consistent ==
  \A m \in Matches :
    /\ told[m] \subseteq {EvaluateUpset(m, Winner(m), cache[m], table)}
    /\ told[m] # {} => cache[m] # Unasked

LEMMA StepConsistent == TypeOK /\ Flow /\ Consistent /\ [Next]_vars => Consistent'
<1> SUFFICES ASSUME TypeOK, Flow, Consistent, [Next]_vars PROVE Consistent'
  OBVIOUS
<1> USE DEF Consistent
<1>1. CASE Begin
  BY <1>1 DEF Begin
<1>2. CASE FetchResults
  BY <1>2 DEF FetchResults
<1>3. CASE FetchStandings
  <2>1. \A m \in Matches : told'[m] = {}
    BY <1>3 DEF FetchStandings, Flow
  <2> QED
    BY <2>1
<1>4. ASSUME NEW m \in Matches, LookUp(m) PROVE Consistent'
  BY <1>4 DEF LookUp
<1>5. ASSUME NEW odds, Answer(odds), LookingUp, UNCHANGED <<told, table>> PROVE Consistent'
  <2>1. subject \in Matches /\ told[subject] = {}
    BY <1>5 DEF Flow
  <2>2. \A m \in Matches : m # subject => cache'[m] = cache[m]
    BY <1>5 DEF Answer, TypeOK
  <2> QED
    BY <1>5, <2>1, <2>2
<1>6. CASE TryConsume
  BY <1>5, <1>6 DEF TryConsume, LookingUp
<1>7. CASE Charge
  BY <1>7 DEF Charge
<1>8. CASE FindFixture
  BY <1>5, <1>8 DEF FindFixture, LookingUp
<1>9. CASE FetchOdds
  BY <1>5, <1>9 DEF FetchOdds, LookingUp
<1>10. ASSUME NEW u \in Users, NEW m \in Matches, Judge(u, m) PROVE Consistent'
  BY <1>10 DEF Judge, TypeOK
<1>11. CASE Finish \/ Die
  <2>1. Forget
    BY <1>11 DEF Finish, Die
  <2> QED
    BY <2>1 DEF Forget
<1>12. CASE Tick \/ UNCHANGED vars
  BY <1>12 DEF Tick, vars, cycleVars
<1> QED
  BY <1>1, <1>2, <1>3, <1>4, <1>6, <1>7, <1>8, <1>9, <1>10, <1>11, <1>12 DEF Next, Worker

\* The users of a cycle hear the same of a match.
THEOREM AlwaysSameVerdict == Spec => []SameVerdict
<1>1. Init => Consistent
  BY DEF Init, Consistent
<1>2. Consistent => SameVerdict
  BY DEF Consistent, SameVerdict
<1> QED
  BY <1>1, <1>2, AlwaysInFlow, StepConsistent, PTL DEF Spec

-----------------------------------------------------------------------------
(* One budget unit for a match *)

Charged ==
  \A m \in Matches :
    /\ charged[m] <= (IF cache[m] # Unasked \/ (m = subject /\ pc \in {"fixture", "odds"})
                        THEN 1 ELSE 0)
    /\ charged[m] > 0 => Followed(m)

LEMMA StepCharged == TypeOK /\ Flow /\ Charged /\ [Next]_vars => Charged'
<1> SUFFICES ASSUME TypeOK, Flow, Charged, [Next]_vars PROVE Charged'
  OBVIOUS
<1> USE DEF Charged, Followed
<1>1. CASE Begin \/ FetchResults \/ FetchStandings
  BY <1>1 DEF Begin, FetchResults, FetchStandings
<1>2. ASSUME NEW m \in Matches, LookUp(m) PROVE Charged'
  BY <1>2 DEF LookUp
<1>3. ASSUME NEW odds, odds # Unasked, Answer(odds), LookingUp, UNCHANGED charged
      PROVE  Charged'
  <2>1. \A m \in Matches : cache'[m] = IF m = subject THEN odds ELSE cache[m]
    BY <1>3 DEF Answer, TypeOK
  <2>2. \A m \in Matches : charged[m] <= 1
    BY DEF TypeOK
  <2> QED
    BY <1>3, <2>1, <2>2
<1>4. CASE TryConsume
  <2>1. NoOdds # Unasked
    BY OddsAssumption
  <2> QED
    BY <1>3, <1>4, <2>1 DEF TryConsume, LookingUp
<1>5. CASE Charge
  <2>1. subject \in Matches /\ cache[subject] = Unasked /\ Followed(subject)
    BY <1>5 DEF Charge, Flow, LookingUp
  <2>2. charged[subject] = 0
    BY <1>5, <2>1 DEF TypeOK, Charge
  <2>3. \A m \in Matches : charged'[m] = IF m = subject THEN 1 ELSE charged[m]
    BY <1>5, <2>1, <2>2 DEF Charge, TypeOK
  <2>4. pc' = "fixture" /\ UNCHANGED <<cache, subject>>
    BY <1>5 DEF Charge
  <2> QED
    BY <2>1, <2>3, <2>4, <1>5 DEF Charge
<1>6. CASE FindFixture
  <2>1. NoOdds # Unasked
    BY OddsAssumption
  <2> QED
    BY <1>3, <1>6, <2>1 DEF FindFixture, LookingUp
<1>7. CASE FetchOdds
  <2>1. Unasked \notin Quotes \cup {NoOdds}
    BY OddsAssumption
  <2> QED
    BY <1>3, <1>7, <2>1 DEF FetchOdds, LookingUp
<1>8. ASSUME NEW u \in Users, NEW m \in Matches, Judge(u, m) PROVE Charged'
  BY <1>8 DEF Judge
<1>9. CASE Finish \/ Die
  <2>1. Forget
    BY <1>9 DEF Finish, Die
  <2> QED
    BY <2>1 DEF Forget
<1>10. CASE Tick \/ UNCHANGED vars
  BY <1>10 DEF Tick, vars, cycleVars
<1> QED
  BY <1>1, <1>2, <1>4, <1>5, <1>6, <1>7, <1>8, <1>9, <1>10 DEF Next, Worker

\* However many users follow a match, a cycle pays for it at most once.
THEOREM AlwaysOneUnit == Spec => []OneUnitPerMatch
<1>1. Init => Charged
  BY DEF Init, Charged
<1>2. TypeOK /\ Charged => OneUnitPerMatch
  BY DEF TypeOK, Charged, OneUnitPerMatch, Followed
<1> QED
  BY <1>1, <1>2, AlwaysInFlow, StepCharged, PTL DEF Spec

-----------------------------------------------------------------------------
(* The budget lasts *)

PaidFor == {m \in Matches : charged[m] > 0}
MatchCount == Cardinality(FollowedMatches)

\* The cycles of a day that are over have spent no more than a unit per followed match
\* each, the one under way what it has paid for; and a match that goes without odds
\* unpaid has met a spent budget.
Spending ==
  /\ \A d \in Days : pc = "idle" \/ d # Day(now) => used[d] <= begun[d] * MatchCount
  /\ pc # "idle" =>
       used[Day(now)] + MatchCount <= begun[Day(now)] * MatchCount + Cardinality(PaidFor)
  /\ pc \in {"fixture", "odds"} => charged[subject] > 0
  /\ \A m \in Matches : cache[m] = NoOdds /\ charged[m] = 0 => DailyCap <= used[Day(now)]

LEMMA PaidForFacts ==
  ASSUME TypeOK, Charged
  PROVE  /\ IsFiniteSet(PaidFor)
         /\ MatchCount \in Nat /\ Cardinality(PaidFor) \in Nat
         /\ Cardinality(PaidFor) <= MatchCount
<1>1. PaidFor \subseteq FollowedMatches /\ FollowedMatches \subseteq Matches
  BY DEF PaidFor, FollowedMatches, Charged, Followed
<1>2. IsFiniteSet(FollowedMatches)
  BY <1>1, OddsAssumption, FS_Subset
<1> QED
  BY <1>1, <1>2, FS_Subset, FS_CardinalityType DEF MatchCount

LEMMA AnotherCycle ==
  ASSUME NEW n \in Nat, NEW k \in Nat
  PROVE  (n + 1) * k = n * k + k /\ n * k \in Nat
OBVIOUS

\* A step that neither takes a unit nor answers, begins or ends anything.
LEMMA SpendingStays ==
  ASSUME Spending, UNCHANGED <<used, begun, charged, now, cache>>,
         (pc' = "idle") <=> (pc = "idle"),
         pc' \in {"fixture", "odds"} => pc \in {"fixture", "odds"} /\ subject' = subject
  PROVE  Spending'
BY DEF Spending, PaidFor, MatchCount

\* A lookup ends: with no odds only if it was paid for, or there is nothing to pay with.
LEMMA SpendingAnswers ==
  ASSUME TypeOK, Flow, Spending, LookingUp, UNCHANGED <<used, begun, charged, now>>,
         NEW odds, Answer(odds),
         charged[subject] > 0 \/ DailyCap <= used[Day(now)]
  PROVE  Spending'
<1>1. \A m \in Matches : cache'[m] = IF m = subject THEN odds ELSE cache[m]
  BY DEF Answer, TypeOK
<1>2. ASSUME NEW m \in Matches, cache'[m] = NoOdds, charged'[m] = 0
      PROVE  DailyCap <= used'[Day(now')]
  <2>1. CASE m = subject
    BY <1>2, <2>1
  <2>2. CASE m # subject
    BY <1>1, <1>2, <2>2 DEF Spending
  <2> QED
    BY <2>1, <2>2
<1>3. pc' = "plan" /\ pc # "idle"
  BY DEF Answer, LookingUp
<1> QED
  BY <1>2, <1>3 DEF Spending, PaidFor, MatchCount

LEMMA StepSpending == TypeOK /\ Flow /\ Charged /\ Spending /\ [Next]_vars => Spending'
<1> SUFFICES ASSUME TypeOK, Flow, Charged, Spending, [Next]_vars PROVE Spending'
  OBVIOUS
<1>0. /\ used \in [Days -> Nat] /\ begun \in [Days -> Nat] /\ charged \in [Matches -> Nat]
      /\ Day(now) \in Days /\ Day(clock) \in Days
      /\ NoOdds # Unasked /\ DailyCap \in Nat
  BY DayType, OddsAssumption DEF TypeOK
<1>1. CASE Begin
  <2>1. /\ pc = "idle" /\ pc' = "results" /\ now' = clock
        /\ begun' = [begun EXCEPT ![Day(clock)] = @ + 1]
        /\ UNCHANGED <<used, charged, cache>>
    BY <1>1 DEF Begin
  <2>2. \A d \in Days : used[d] <= begun[d] * MatchCount
    BY <2>1 DEF Spending
  <2>3. begun'[Day(clock)] * MatchCount = begun[Day(clock)] * MatchCount + MatchCount
        /\ begun[Day(clock)] * MatchCount \in Nat
    BY <1>0, <2>1, PaidForFacts, AnotherCycle
  <2>4. PaidFor' = PaidFor /\ MatchCount' = MatchCount
    BY <2>1 DEF PaidFor, MatchCount
  <2> DEFINE before == begun[Day(clock)] * MatchCount
             after == begun'[Day(clock)] * MatchCount
  <2>5. used[Day(clock)] + MatchCount <= after + Cardinality(PaidFor)
    <3>1. used[Day(clock)] <= before /\ after = before + MatchCount /\ before \in Nat
      BY <1>0, <2>2, <2>3
    <3> HIDE DEF before, after
    <3> QED
      BY <1>0, <3>1, PaidForFacts
  <2>6. \A d \in Days : d # Day(now') => used'[d] <= begun'[d] * MatchCount
    BY <1>0, <2>1, <2>2
  <2>7. \A m \in Matches : cache'[m] # NoOdds
    BY <1>0, <2>1 DEF Flow
  <2> QED
    BY <2>1, <2>4, <2>5, <2>6, <2>7 DEF Spending
<1>2. CASE \/ FetchResults \/ FetchStandings \/ Tick \/ UNCHANGED vars
           \/ (\E m \in Matches : LookUp(m)) \/ (\E u \in Users, m \in Matches : Judge(u, m))
  BY <1>2, SpendingStays
     DEF FetchResults, FetchStandings, Tick, LookUp, Judge, vars, cycleVars
<1>3. CASE TryConsume
  <2>1. CASE used[Day(now)] >= DailyCap
    BY <1>0, <1>3, <2>1, SpendingAnswers DEF TryConsume, LookingUp
  <2>2. CASE ~ (used[Day(now)] >= DailyCap)
    BY <1>3, <2>2, SpendingStays DEF TryConsume
  <2> QED
    BY <2>1, <2>2
<1>4. CASE Charge
  <2>1. /\ pc = "charge" /\ pc' = "fixture" /\ UNCHANGED <<begun, now, cache, subject>>
        /\ used' = [used EXCEPT ![Day(now)] = used[Day(now)] + 1]
        /\ charged' = [charged EXCEPT ![subject] = charged[subject] + 1]
    BY <1>4 DEF Charge, Flow
  <2>2. subject \in Matches /\ charged[subject] = 0
    BY <1>0, <2>1 DEF Flow, LookingUp, Charged
  <2>3. PaidFor' = PaidFor \cup {subject} /\ subject \notin PaidFor
    BY <1>0, <2>1, <2>2 DEF PaidFor
  <2>4. Cardinality(PaidFor') = Cardinality(PaidFor) + 1
    BY <2>3, PaidForFacts, FS_AddElement
  <2>5. used'[Day(now)] = used[Day(now)] + 1
        /\ \A d \in Days : d # Day(now) => used'[d] = used[d]
    BY <1>0, <2>1
  <2> DEFINE bound == begun[Day(now)] * MatchCount
  <2>6. bound \in Nat
    BY <1>0, PaidForFacts, AnotherCycle
  <2>7. used[Day(now)] + MatchCount <= bound + Cardinality(PaidFor)
    BY <2>1 DEF Spending
  <2> HIDE DEF bound
  <2>8. used'[Day(now)] + MatchCount <= bound + Cardinality(PaidFor')
    BY <1>0, <2>4, <2>5, <2>6, <2>7, PaidForFacts
  <2>9. charged'[subject] > 0
    BY <1>0, <2>1, <2>2
  <2>10. ASSUME NEW m \in Matches, cache'[m] = NoOdds, charged'[m] = 0
         PROVE  DailyCap <= used'[Day(now)]
    <3>1. m # subject /\ charged[m] = 0
      BY <1>0, <2>1, <2>9, <2>10
    <3>2. DailyCap <= used[Day(now)]
      BY <2>1, <2>10, <3>1 DEF Spending
    <3> QED
      BY <1>0, <2>5, <3>2
  <2>11. \A d \in Days : d # Day(now) => used'[d] <= begun[d] * MatchCount
    BY <2>5 DEF Spending
  <2>12. MatchCount' = MatchCount
    BY DEF MatchCount
  <2> QED
    BY <2>1, <2>8, <2>9, <2>10, <2>11, <2>12 DEF Spending, bound
<1>5. CASE FindFixture
  <2>1. charged[subject] > 0 /\ LookingUp
    BY <1>5 DEF FindFixture, Spending, LookingUp
  <2>2. CASE Answer(NoOdds)
    BY <1>5, <2>1, <2>2, SpendingAnswers DEF FindFixture
  <2>3. CASE ~ Answer(NoOdds)
    BY <1>5, <2>3, SpendingStays DEF FindFixture
  <2> QED
    BY <2>2, <2>3
<1>6. CASE FetchOdds
  <2>1. charged[subject] > 0 /\ LookingUp
    BY <1>6 DEF FetchOdds, Spending, LookingUp
  <2> QED
    BY <1>6, <2>1, SpendingAnswers DEF FetchOdds
<1>7. CASE Finish \/ Die
  <2>1. /\ pc # "idle" /\ pc' = "idle" /\ UNCHANGED <<used, begun>>
        /\ \A m \in Matches : cache'[m] = Unasked
    BY <1>7 DEF Finish, Die, Forget
  <2>2. ASSUME NEW d \in Days PROVE used[d] <= begun[d] * MatchCount
    <3>1. CASE d # Day(now)
      BY <3>1 DEF Spending
    <3>2. CASE d = Day(now)
      <4> DEFINE bound == begun[d] * MatchCount
      <4>1. used[d] + MatchCount <= bound + Cardinality(PaidFor)
        BY <2>1, <3>2 DEF Spending
      <4>2. bound \in Nat
        BY <1>0, PaidForFacts, AnotherCycle
      <4> HIDE DEF bound
      <4>3. used[d] <= bound
        BY <1>0, <4>1, <4>2, PaidForFacts
      <4> QED
        BY <4>3 DEF bound
    <3> QED
      BY <3>1, <3>2
  <2> QED
    BY <1>0, <2>1, <2>2 DEF Spending, MatchCount
<1> QED
  BY <1>1, <1>2, <1>3, <1>4, <1>5, <1>6, <1>7 DEF Next, Worker

\* A match goes without odds for want of budget only on a day with enough cycles to have
\* used the budget up at one unit per followed match, whatever the cap, the users, the
\* failures and the cycles of other days.
THEOREM BudgetAlwaysLasts == Spec => []BudgetLasts
<1>1. Init => Charged /\ Spending
  <2>1. ASSUME Init PROVE Charged
    BY <2>1 DEF Init, Charged
  <2>2. ASSUME Init PROVE Spending
    <3>1. TypeOK
      BY <2>2, InitType
    <3>2. \A d \in Days : used[d] <= begun[d] * MatchCount
      BY <2>1, <2>2, <3>1, PaidForFacts DEF Init
    <3> QED
      BY <2>2, <3>2, OddsAssumption DEF Init, Spending
  <2> QED
    BY <2>1, <2>2
<1>2. TypeOK /\ Flow /\ Charged /\ Spending => BudgetLasts
  <2> SUFFICES ASSUME TypeOK, Flow, Charged, Spending, NEW m \in Matches,
                      cache[m] = NoOdds, charged[m] = 0
               PROVE  DailyCap <= begun[Day(now)] * MatchCount
    BY DEF BudgetLasts, MatchCount
  <2>1. pc # "idle"
    BY OddsAssumption DEF Flow
  <2> DEFINE bound == begun[Day(now)] * MatchCount
  <2>2. /\ DailyCap <= used[Day(now)]
        /\ used[Day(now)] + MatchCount <= bound + Cardinality(PaidFor)
    BY <2>1 DEF Spending
  <2>3. used[Day(now)] \in Nat /\ begun[Day(now)] \in Nat /\ DailyCap \in Nat
    BY DayType, OddsAssumption DEF TypeOK
  <2>4. bound \in Nat
    BY <2>3, PaidForFacts, AnotherCycle
  <2> HIDE DEF bound
  <2>5. DailyCap <= bound
    BY <2>2, <2>3, <2>4, PaidForFacts
  <2> QED
    BY <2>5 DEF bound
<1> QED
  BY <1>1, <1>2, AlwaysInFlow, StepCharged, StepSpending, PTL DEF Spec

-----------------------------------------------------------------------------
(* Every request is paid for *)

\* What the cycle may still spend of the unit it has taken.
Unspent == IF pc = "fixture" THEN 2 * Attempts ELSE IF pc = "odds" THEN Attempts ELSE 0

Paid ==
  \A d \in Days :
    /\ used[d] <= DailyCap
    /\ requests[d] + (IF d = Day(now) THEN Unspent ELSE 0) <= 2 * Attempts * used[d]

LEMMA Unit ==
  ASSUME NEW a \in Nat, NEW k \in Nat
  PROVE  2 * a * (k + 1) = 2 * a * k + 2 * a /\ 2 * a * k \in Nat
OBVIOUS

\* Steps that only lower what may still be spent.
LEMMA PaidStays ==
  ASSUME TypeOK, Paid, Unspent' \in Nat, Unspent' <= Unspent \/ Unspent' = 0,
         UNCHANGED <<used, requests>>, now' = now \/ Unspent' = 0
  PROVE  Paid'
<1>1. Unspent \in Nat
  BY OddsAssumption DEF Unspent
<1>2. ASSUME NEW d \in Days PROVE used'[d] <= DailyCap
  BY <1>2 DEF Paid
<1>3. ASSUME NEW d \in Days
      PROVE  requests'[d] + (IF d = Day(now') THEN Unspent' ELSE 0) <= 2 * Attempts * used'[d]
  <2>1. requests[d] \in Nat /\ used[d] \in Nat /\ Attempts \in Nat
    BY OddsAssumption DEF TypeOK
  <2> DEFINE bound == 2 * Attempts * used[d]
  <2>2. bound \in Nat
    BY <2>1, Unit
  <2>3. requests[d] + (IF d = Day(now) THEN Unspent ELSE 0) <= bound
    BY DEF Paid
  <2>4. requests'[d] = requests[d] /\ 2 * Attempts * used'[d] = bound
    OBVIOUS
  <2> HIDE DEF bound
  <2>5. CASE Unspent' = 0
    BY <1>1, <2>1, <2>2, <2>3, <2>4, <2>5
  <2>6. CASE Unspent' <= Unspent /\ now' = now
    BY <1>1, <2>1, <2>2, <2>3, <2>4, <2>6
  <2> QED
    BY <2>5, <2>6
<1> QED
  BY <1>2, <1>3 DEF Paid

\* A call spends what was set aside for it.
LEMMA PaidSends ==
  ASSUME TypeOK, Paid, UNCHANGED <<used, now>>, NEW n \in 0..Attempts, Send(n),
         Unspent' \in Nat, Unspent' + Attempts <= Unspent
  PROVE  Paid'
<1>1. Unspent \in Nat /\ Attempts \in Nat
  BY OddsAssumption DEF Unspent
<1>2. ASSUME NEW d \in Days PROVE used'[d] <= DailyCap
  BY <1>2 DEF Paid
<1>3. ASSUME NEW d \in Days
      PROVE  requests'[d] + (IF d = Day(now') THEN Unspent' ELSE 0) <= 2 * Attempts * used'[d]
  <2>1. requests[d] \in Nat /\ used[d] \in Nat
    BY DEF TypeOK
  <2> DEFINE bound == 2 * Attempts * used[d]
  <2>2. bound \in Nat
    BY <1>1, <2>1, Unit
  <2>3. requests[d] + (IF d = Day(now) THEN Unspent ELSE 0) <= bound
    BY DEF Paid
  <2>4. 2 * Attempts * used'[d] = bound
    OBVIOUS
  <2>5. requests'[d] = IF d = Day(now) THEN requests[d] + n ELSE requests[d]
    BY DEF Send, TypeOK
  <2> HIDE DEF bound
  <2> QED
    BY <1>1, <2>1, <2>2, <2>3, <2>4, <2>5
<1> QED
  BY <1>2, <1>3 DEF Paid

LEMMA StepPaid == TypeOK /\ Flow /\ Paid /\ [Next]_vars => Paid'
<1> SUFFICES ASSUME TypeOK, Flow, Paid, [Next]_vars PROVE Paid'
  OBVIOUS
<1>0. Attempts \in Nat /\ Unspent \in Nat
  BY OddsAssumption DEF Unspent
<1>1. ASSUME pc' \notin {"fixture", "odds"}, UNCHANGED <<used, requests>> PROVE Paid'
  <2>1. Unspent' = 0
    BY <1>1 DEF Unspent
  <2> QED
    BY <1>1, <2>1, PaidStays
<1>2. CASE Begin \/ FetchResults \/ FetchStandings \/ TryConsume \/ Finish \/ Die
           \/ (\E m \in Matches : LookUp(m)) \/ (\E u \in Users, m \in Matches : Judge(u, m))
  BY <1>1, <1>2 DEF Begin, FetchResults, FetchStandings, TryConsume, Answer, Finish, Die,
                    Forget, LookUp, Judge
<1>3. CASE Charge
  <2>1. pc' = "fixture" /\ UNCHANGED <<requests, now>> /\ used' = [used EXCEPT ![Day(now)] = seen + 1]
        /\ pc = "charge"
    BY <1>3 DEF Charge
  <2>2. seen = used[Day(now)] /\ seen < DailyCap
    BY <2>1 DEF Flow
  <2>3. Unspent' = 2 * Attempts /\ Unspent = 0
    BY <2>1 DEF Unspent
  <2>4. Day(now) \in Days
    BY DayType DEF TypeOK
  <2>5. ASSUME NEW d \in Days
        PROVE  /\ used'[d] <= DailyCap
               /\ requests'[d] + (IF d = Day(now') THEN Unspent' ELSE 0) <= 2 * Attempts * used'[d]
    <3>1. requests[d] \in Nat /\ used[d] \in Nat /\ DailyCap \in Nat
      BY OddsAssumption DEF TypeOK
    <3>2. used'[d] = IF d = Day(now) THEN used[d] + 1 ELSE used[d]
      BY <2>1, <2>2, <2>4 DEF TypeOK
    <3>3. used[d] <= DailyCap /\ requests[d] <= 2 * Attempts * used[d]
      <4>1. used[d] <= DailyCap
            /\ requests[d] + (IF d = Day(now) THEN 0 ELSE 0) <= 2 * Attempts * used[d]
        BY <2>3 DEF Paid
      <4> QED
        BY <3>1, <4>1
    <3>4. used'[d] <= DailyCap
      BY <2>2, <3>1, <3>2, <3>3
    <3>5. 2 * Attempts * (used[d] + 1) = 2 * Attempts * used[d] + 2 * Attempts
          /\ 2 * Attempts * used[d] \in Nat
      BY <1>0, <3>1, Unit
    <3> DEFINE bound == 2 * Attempts * used[d]
               more == 2 * Attempts
    <3>6. more \in Nat /\ bound \in Nat /\ requests[d] <= bound
      BY <1>0, <3>3, <3>5
    <3>7. 2 * Attempts * used'[d] = IF d = Day(now) THEN bound + more ELSE bound
      BY <3>2, <3>5
    <3>8. requests'[d] = requests[d] /\ now' = now /\ Unspent' = more
      BY <2>1, <2>3
    <3> HIDE DEF bound, more
    <3> QED
      BY <3>1, <3>4, <3>6, <3>7, <3>8
  <2> QED
    BY <2>5 DEF Paid
<1>4. CASE FindFixture
  <2>1. PICK n \in 0..Attempts : Send(n)
    BY <1>4 DEF FindFixture
  <2>2. Unspent = 2 * Attempts /\ Unspent' \in {0, Attempts} /\ UNCHANGED <<used, now>>
    BY <1>4 DEF FindFixture, Answer, Unspent
  <2>3. Unspent' \in Nat /\ Unspent' + Attempts <= Unspent
    <3>1. \A a \in Nat : \A v \in {0, a} : v \in Nat /\ v + a <= 2 * a
      OBVIOUS
    <3>2. Unspent' \in Nat /\ Unspent' + Attempts <= 2 * Attempts
      BY <1>0, <2>2, <3>1
    <3> QED
      BY <2>2, <3>2
  <2> QED
    BY <2>1, <2>2, <2>3, PaidSends
<1>5. CASE FetchOdds
  <2>1. PICK n \in 0..Attempts : Send(n)
    BY <1>5 DEF FetchOdds
  <2>2. Unspent = Attempts /\ Unspent' = 0 /\ UNCHANGED <<used, now>>
    BY <1>5 DEF FetchOdds, Answer, Unspent
  <2>3. Unspent' \in Nat /\ Unspent' + Attempts <= Unspent
    BY <1>0, <2>2
  <2> QED
    BY <2>1, <2>2, <2>3, PaidSends
<1>6. CASE Tick \/ UNCHANGED vars
  <2>1. UNCHANGED <<used, requests, now, pc>>
    BY <1>6 DEF Tick, vars, cycleVars
  <2>2. Unspent' = Unspent
    BY <2>1 DEF Unspent
  <2> QED
    BY <1>0, <2>1, <2>2, PaidStays
<1> QED
  BY <1>2, <1>3, <1>4, <1>5, <1>6 DEF Next, Worker

\* Every odds request was paid for before it was made, whatever the cap, the retries and
\* the length of a day.
THEOREM AlwaysPaid == Spec => []RequestsPaid
<1>1. Init => Paid
  BY OddsAssumption DEF Init, Paid, Unspent
<1>2. TypeOK /\ Paid => RequestsPaid
  <2> SUFFICES ASSUME TypeOK, Paid, NEW d \in Days
               PROVE  used[d] <= DailyCap /\ requests[d] <= 2 * Attempts * used[d]
    BY DEF RequestsPaid
  <2>1. requests[d] \in Nat /\ used[d] \in Nat /\ Attempts \in Nat /\ Unspent \in Nat
    BY OddsAssumption DEF TypeOK, Unspent
  <2> DEFINE bound == 2 * Attempts * used[d]
  <2>2. bound \in Nat
    BY <2>1, Unit
  <2>3. used[d] <= DailyCap /\ requests[d] + (IF d = Day(now) THEN Unspent ELSE 0) <= bound
    BY DEF Paid
  <2> HIDE DEF bound
  <2>4. requests[d] <= bound
    BY <2>1, <2>2, <2>3
  <2> QED
    BY <2>3, <2>4 DEF bound
<1> QED
  BY <1>1, <1>2, AlwaysInFlow, StepPaid, PTL DEF Spec

-----------------------------------------------------------------------------
(* Requests after midnight *)

Asked == {m \in Matches : cache[m] # Unasked}
\* The most that the lookups of this cycle can have requested so far.
Requested == 2 * Attempts * Cardinality(Asked) + IF pc = "odds" THEN Attempts ELSE 0
Limit == 2 * Attempts * Cardinality(Matches)

Overhang ==
  /\ \A d \in Days : d > Day(clock) => late[d] = 0
  /\ \A d \in Days : pc # "idle" /\ Day(now) < d => late[d] <= Requested
  /\ \A d \in Days : late[d] <= Limit

LEMMA AskedFacts ==
  /\ Cardinality(Asked) \in Nat
  /\ Cardinality(Matches) \in Nat
  /\ Cardinality(Asked) <= Cardinality(Matches)
  /\ \A m \in Matches : cache[m] = Unasked =>
       /\ Cardinality(Asked \cup {m}) = Cardinality(Asked) + 1
       /\ Cardinality(Asked) + 1 <= Cardinality(Matches)
<1>1. IsFiniteSet(Matches) /\ Asked \subseteq Matches
  BY OddsAssumption DEF Asked
<1>2. IsFiniteSet(Asked) /\ Cardinality(Asked) <= Cardinality(Matches)
  BY <1>1, FS_Subset
<1>3. Cardinality(Asked) \in Nat /\ Cardinality(Matches) \in Nat
  BY <1>1, <1>2, FS_CardinalityType
<1>4. ASSUME NEW m \in Matches, cache[m] = Unasked
      PROVE  /\ Cardinality(Asked \cup {m}) = Cardinality(Asked) + 1
             /\ Cardinality(Asked) + 1 <= Cardinality(Matches)
  <2>1. m \notin Asked /\ Asked \cup {m} \subseteq Matches
    BY <1>1, <1>4 DEF Asked
  <2>2. Cardinality(Asked \cup {m}) = Cardinality(Asked) + 1
    BY <1>2, <2>1, FS_AddElement
  <2>3. Cardinality(Asked \cup {m}) <= Cardinality(Matches)
    BY <1>1, <2>1, FS_Subset
  <2> QED
    BY <2>2, <2>3
<1> QED
  BY <1>2, <1>3, <1>4

LEMMA AnswerAsks ==
  ASSUME TypeOK, Flow, LookingUp, NEW odds, odds # Unasked, Answer(odds)
  PROVE  /\ Cardinality(Asked') = Cardinality(Asked) + 1
         /\ Cardinality(Asked') <= Cardinality(Matches)
         /\ pc' = "plan"
<1>1. subject \in Matches /\ cache[subject] = Unasked
  BY DEF Flow
<1>2. \A m \in Matches : cache'[m] = IF m = subject THEN odds ELSE cache[m]
  BY DEF Answer, TypeOK
<1>3. Asked' = Asked \cup {subject}
  BY <1>1, <1>2 DEF Asked
<1> QED
  BY <1>1, <1>3, AskedFacts DEF Answer

LEMMA Products ==
  ASSUME NEW a \in Nat, NEW i \in Nat, NEW j \in Nat, i <= j
  PROVE  2 * a * i \in Nat /\ 2 * a * j \in Nat /\ 2 * a * i <= 2 * a * j
<1>1. PICK k \in Nat : j = i + k
  <2>1. j - i \in Nat /\ j = i + (j - i)
    OBVIOUS
  <2> QED
    BY <2>1
<1>2. \A b \in Nat : b * (i + k) = b * i + b * k /\ b * i \in Nat /\ b * k \in Nat
  OBVIOUS
<1>3. 2 * a \in Nat
  OBVIOUS
<1>4. 2 * a * j = 2 * a * i + 2 * a * k /\ 2 * a * i \in Nat /\ 2 * a * k \in Nat
  BY <1>1, <1>2, <1>3
<1> QED
  BY <1>4

LEMMA RequestedType == Requested \in Nat /\ Limit \in Nat /\ Attempts \in Nat
<1>1. Attempts \in Nat
  BY OddsAssumption
<1>2. 2 * Attempts * Cardinality(Asked) \in Nat /\ 2 * Attempts * Cardinality(Matches) \in Nat
  BY <1>1, AskedFacts, Products
<1> QED
  BY <1>1, <1>2 DEF Requested, Limit

\* A step that makes no request.
LEMMA OverhangStays ==
  ASSUME TypeOK, Overhang, UNCHANGED <<clock, late>>,
         pc' = "idle" \/ (pc # "idle" /\ now' = now /\ Requested <= Requested' /\ Requested' \in Nat)
  PROVE  Overhang'
<1>1. ASSUME NEW d \in Days, pc' # "idle", Day(now') < d PROVE late'[d] <= Requested'
  <2>1. late[d] <= Requested /\ late[d] \in Nat
    BY <1>1 DEF Overhang, TypeOK
  <2> QED
    BY <1>1, <2>1, RequestedType
<1> QED
  BY <1>1 DEF Overhang, Limit

\* A step that makes the requests of one call.
LEMMA OverhangGrows ==
  ASSUME TypeOK, Flow, Overhang, UNCHANGED <<clock, now>>, pc # "idle",
         NEW n \in 0..Attempts, Send(n),
         Requested' \in Nat, Requested + Attempts <= Requested', Requested' <= Limit
  PROVE  Overhang'
<1>0. Day(now) \in Nat /\ Day(clock) \in Nat /\ Day(clock) \in Days /\ \A d \in Days : d \in Nat
  BY DayType DEF TypeOK
<1>1. ASSUME NEW d \in Days
      PROVE  late'[d] = IF d = Day(clock) /\ Day(now) < d THEN late[d] + n ELSE late[d]
  BY <1>0 DEF Send, TypeOK
<1>2. ASSUME NEW d \in Days PROVE late[d] \in Nat
  BY <1>2 DEF TypeOK
<1>3. ASSUME NEW d \in Days, d > Day(clock') PROVE late'[d] = 0
  BY <1>0, <1>1, <1>3 DEF Overhang
<1>4. ASSUME NEW d \in Days, Day(now') < d PROVE late'[d] <= Requested'
  <2>1. late[d] <= Requested
    BY <1>4 DEF Overhang
  <2> QED
    BY <1>1, <1>2, <2>1, RequestedType
<1>5. ASSUME NEW d \in Days PROVE late'[d] <= Limit
  <2>1. CASE Day(now) < d
    BY <1>2, <1>4, <2>1, RequestedType, <1>1
  <2>2. CASE ~ (Day(now) < d)
    BY <1>1, <2>2 DEF Overhang
  <2> QED
    BY <2>1, <2>2
<1> QED
  BY <1>3, <1>4, <1>5 DEF Overhang, Limit

LEMMA StepOverhang == TypeOK /\ Flow /\ Overhang /\ [Next]_vars => Overhang'
<1> SUFFICES ASSUME TypeOK, Flow, Overhang, [Next]_vars PROVE Overhang'
  OBVIOUS
<1>0. Attempts \in Nat /\ Requested \in Nat /\ NoOdds # Unasked
  BY RequestedType, OddsAssumption
<1>1. CASE Begin
  <2>1. now' = clock /\ pc' = "results" /\ UNCHANGED <<clock, late, cache>>
    BY <1>1 DEF Begin
  <2>2. Requested' \in Nat
    <3>1. Asked' = Asked
      BY <2>1 DEF Asked
    <3>2. Requested' = 2 * Attempts * Cardinality(Asked)
      <4>1. Requested' = 2 * Attempts * Cardinality(Asked) + 0
        BY <2>1, <3>1 DEF Requested
      <4>2. 2 * Attempts * Cardinality(Asked) \in Nat
        BY <1>0, AskedFacts, Products
      <4> QED
        BY <4>1, <4>2
    <3> QED
      BY <1>0, <3>2, AskedFacts, Products
  <2>3. ASSUME NEW d \in Days, Day(now') < d PROVE late'[d] <= Requested'
    <3>1. d \in Nat /\ Day(clock) \in Nat
      BY DayType DEF TypeOK
    <3>2. late'[d] = 0
      BY <2>1, <2>3, <3>1 DEF Overhang
    <3> QED
      BY <2>2, <3>2
  <2> QED
    BY <2>1, <2>3 DEF Overhang, Limit
<1>2. ASSUME pc # "idle", pc # "odds", pc' # "odds", UNCHANGED <<clock, late, now, cache>>
      PROVE  Overhang'
  <2>1. Requested' = Requested
    BY <1>2 DEF Requested, Asked
  <2> QED
    BY <1>0, <1>2, <2>1, OverhangStays
<1>3. CASE \/ FetchResults \/ FetchStandings \/ Charge
           \/ (\E m \in Matches : LookUp(m)) \/ (\E u \in Users, m \in Matches : Judge(u, m))
  BY <1>2, <1>3 DEF FetchResults, FetchStandings, Charge, LookUp, Judge
<1>4. ASSUME LookingUp, NEW odds, odds # Unasked, Answer(odds)
      PROVE  /\ Requested' \in Nat /\ Requested' <= Limit
             /\ Requested' = 2 * Attempts * Cardinality(Asked) + 2 * Attempts
  <2>1. Cardinality(Asked') = Cardinality(Asked) + 1
        /\ Cardinality(Asked') <= Cardinality(Matches) /\ pc' = "plan"
    BY <1>4, AnswerAsks
  <2>2. Requested' = 2 * Attempts * (Cardinality(Asked) + 1) + 0
    BY <2>1 DEF Requested
  <2>3. 2 * Attempts * (Cardinality(Asked) + 1) = 2 * Attempts * Cardinality(Asked) + 2 * Attempts
    BY <1>0, AskedFacts, Unit
  <2>4. 2 * Attempts * (Cardinality(Asked) + 1) \in Nat
        /\ 2 * Attempts * (Cardinality(Asked) + 1) <= Limit
    <3>1. Cardinality(Asked) + 1 \in Nat /\ Cardinality(Asked) + 1 <= Cardinality(Matches)
      BY <2>1, AskedFacts
    <3> QED
      BY <1>0, <3>1, AskedFacts, Products DEF Limit
  <2>5. Requested' = 2 * Attempts * (Cardinality(Asked) + 1)
    BY <2>2, <2>4
  <2> QED
    BY <2>3, <2>4, <2>5
<1> DEFINE paid == 2 * Attempts * Cardinality(Asked)
           unit == 2 * Attempts
<1>5. paid \in Nat /\ unit \in Nat /\ unit = Attempts + Attempts
  BY <1>0, AskedFacts, Products
<1>6. pc # "odds" => Requested = paid
  BY <1>5 DEF Requested
<1>7. pc = "odds" => Requested = paid + Attempts
  BY DEF Requested
<1>8. \A odds : LookingUp /\ odds # Unasked /\ Answer(odds) =>
        Requested' \in Nat /\ Requested' <= Limit /\ Requested' = paid + unit
  BY <1>4
<1> HIDE DEF paid, unit
<1>9. CASE TryConsume
  <2>1. CASE Answer(NoOdds)
    <3>1. UNCHANGED <<clock, late, now>> /\ pc = "budget"
      BY <1>9 DEF TryConsume
    <3>2. Requested' \in Nat /\ Requested <= Requested'
      BY <1>0, <1>5, <1>6, <1>8, <2>1, <3>1 DEF LookingUp
    <3> QED
      BY <3>1, <3>2, OverhangStays
  <2>2. CASE ~ Answer(NoOdds)
    BY <1>2, <1>9, <2>2 DEF TryConsume
  <2> QED
    BY <2>1, <2>2
<1>10. CASE FindFixture
  <2>1. PICK n \in 0..Attempts :
          /\ Send(n)
          /\ Answer(NoOdds) \/ (pc' = "odds" /\ UNCHANGED <<cache, subject>>)
    BY <1>10 DEF FindFixture
  <2>2. UNCHANGED <<clock, now>> /\ pc = "fixture"
    BY <1>10 DEF FindFixture
  <2>3. CASE Answer(NoOdds)
    <3>1. Requested' \in Nat /\ Requested' <= Limit /\ Requested + Attempts <= Requested'
      BY <1>0, <1>5, <1>6, <1>8, <2>2, <2>3 DEF LookingUp
    <3> QED
      BY <2>1, <2>2, <3>1, OverhangGrows
  <2>4. CASE pc' = "odds" /\ UNCHANGED <<cache, subject>>
    <3>1. Requested' = paid + Attempts
      BY <2>4 DEF Requested, Asked, paid
    <3>2. paid + Attempts <= Limit
      <4>1. subject \in Matches /\ cache[subject] = Unasked
        BY <2>2 DEF Flow, LookingUp
      <4>2. Cardinality(Asked) + 1 <= Cardinality(Matches) /\ Cardinality(Asked) + 1 \in Nat
        <5>1. \A m \in Matches : cache[m] = Unasked => Cardinality(Asked) + 1 <= Cardinality(Matches)
          BY AskedFacts
        <5>2. Cardinality(Asked) \in Nat
          BY AskedFacts
        <5> QED
          BY <4>1, <5>1, <5>2
      <4>3. 2 * Attempts * (Cardinality(Asked) + 1) <= Limit
        BY <1>0, <4>2, AskedFacts, Products DEF Limit
      <4>4. 2 * Attempts * (Cardinality(Asked) + 1) = paid + unit
        BY <1>0, AskedFacts, Unit DEF paid, unit
      <4> QED
        BY <1>0, <1>5, <4>3, <4>4, RequestedType
    <3>3. Requested' \in Nat /\ Requested' <= Limit /\ Requested + Attempts <= Requested'
      BY <1>0, <1>5, <1>6, <2>2, <3>1, <3>2
    <3> QED
      BY <2>1, <2>2, <3>3, OverhangGrows
  <2> QED
    BY <2>1, <2>3, <2>4
<1>11. CASE FetchOdds
  <2>1. PICK n \in 0..Attempts : Send(n)
    BY <1>11 DEF FetchOdds
  <2>2. UNCHANGED <<clock, now>> /\ pc = "odds"
    BY <1>11 DEF FetchOdds
  <2>3. Unasked \notin Quotes \cup {NoOdds}
    BY OddsAssumption
  <2>4. Requested' \in Nat /\ Requested' <= Limit /\ Requested' = paid + unit
    BY <1>0, <1>8, <1>11, <2>2, <2>3 DEF FetchOdds, LookingUp
  <2>5. Requested + Attempts <= Requested'
    BY <1>0, <1>5, <1>7, <2>2, <2>4
  <2> QED
    BY <2>1, <2>2, <2>4, <2>5, OverhangGrows
<1>12. CASE Finish \/ Die
  <2>1. pc' = "idle" /\ UNCHANGED <<clock, late>>
    BY <1>12 DEF Finish, Die, Forget
  <2> QED
    BY <2>1, OverhangStays
<1>13. CASE Tick
  <2>1. UNCHANGED <<late, now, cache, pc>> /\ clock' = clock + 1 /\ clock < MaxTime
    BY <1>13 DEF Tick, cycleVars
  <2>2. clock' \in Times /\ clock \in Times /\ clock <= clock'
    BY <2>1, OddsAssumption DEF TypeOK, Times
  <2>3. Day(clock) <= Day(clock') /\ Day(clock) \in Nat /\ Day(clock') \in Nat
        /\ \A d \in Days : d \in Nat
    BY <2>2, DaysGoOn, DayType
  <2>4. ASSUME NEW d \in Days, d > Day(clock') PROVE late'[d] = 0
    BY <2>1, <2>3, <2>4 DEF Overhang
  <2>5. Requested' = Requested
    BY <2>1 DEF Requested, Asked
  <2> QED
    BY <2>1, <2>4, <2>5 DEF Overhang, Limit
<1>14. CASE UNCHANGED vars
  <2>1. UNCHANGED <<late, now, cache, pc, clock>>
    BY <1>14 DEF vars, cycleVars
  <2> QED
    BY <2>1 DEF Overhang, Requested, Asked, Limit
<1> QED
  BY <1>1, <1>3, <1>9, <1>10, <1>11, <1>12, <1>13, <1>14 DEF Next, Worker

\* What the provider's own day can get on top of its budget is one cycle's lookups.
THEOREM OneCycleLate == Spec => []LateRequests
<1>1. Init => Overhang
  BY RequestedType DEF Init, Overhang
<1>2. Overhang => LateRequests
  BY DEF Overhang, LateRequests, Limit
<1> QED
  BY <1>1, <1>2, AlwaysInFlow, StepOverhang, PTL DEF Spec

-----------------------------------------------------------------------------
(* The work of a cycle shrinks *)

\* The answer to a lookup takes its match off those still to be asked for.
LEMMA AnswerShrinks ==
  ASSUME TypeOK, Flow, LookingUp, NEW odds \in Quotes \cup {NoOdds}, Answer(odds)
  PROVE  Shrinks(ToAsk', ToAsk)
<1>1. subject \in Matches /\ cache[subject] = Unasked
  BY DEF Flow
<1>2. odds # Unasked
  BY OddsAssumption
<1>3. cache \in [Matches -> Quotes \cup {NoOdds, Unasked}]
      /\ cache' = [cache EXCEPT ![subject] = odds]
  BY DEF TypeOK, Answer
<1>4. ToAsk' = ToAsk \ {subject} /\ subject \in ToAsk
  BY <1>1, <1>2, <1>3 DEF ToAsk
<1> QED
  BY <1>4 DEF Shrinks

\* The safety half of PlanningEnds: what is left of a cycle's work is well-founded and
\* every step of the cycle makes it less, whatever the provider answers and the budget has.
THEOREM WorkOnlyShrinks == Spec => WorkShrinks
<1> DEFINE Less ==
      \/ UNCHANGED <<pc, cycleVars, used, requests, faults>>
      \/ Stage(pc) < Stage(pc')
      \/ /\ Stage(pc) = Stage(pc')
         /\ \/ Progress(pc) < Progress(pc') /\ UNCHANGED <<cache, left>>
            \/ Shrinks(ToAsk', ToAsk) /\ UNCHANGED left
            \/ Shrinks(left', left) /\ UNCHANGED cache
<1>1. TypeOK /\ Flow /\ [Next]_vars => [pc # "idle" /\ pc' # "idle" => Less]_vars
  <2> SUFFICES ASSUME TypeOK, Flow, [Next]_vars, pc # "idle", pc' # "idle"
               PROVE  Less
    OBVIOUS
  <2>1. CASE FetchResults \/ FetchStandings
    BY <2>1 DEF FetchResults, FetchStandings, Stage
  <2>2. ASSUME NEW m \in Matches, LookUp(m) PROVE Less
    BY <2>2 DEF LookUp, Stage, Progress
  <2>3. CASE TryConsume
    <3>1. ASSUME Answer(NoOdds) PROVE Less
      BY <2>3, <3>1, AnswerShrinks DEF TryConsume, LookingUp, Answer, Stage
    <3>2. ASSUME pc' = "charge", UNCHANGED <<cache, subject>> PROVE Less
      BY <2>3, <3>2 DEF TryConsume, Stage, Progress
    <3> QED
      BY <2>3, <3>1, <3>2 DEF TryConsume
  <2>4. CASE Charge
    BY <2>4 DEF Charge, Stage, Progress
  <2>5. CASE FindFixture
    <3>1. ASSUME Answer(NoOdds) PROVE Less
      BY <2>5, <3>1, AnswerShrinks DEF FindFixture, LookingUp, Answer, Stage
    <3>2. ASSUME pc' = "odds", UNCHANGED <<cache, subject>> PROVE Less
      BY <2>5, <3>2 DEF FindFixture, Stage, Progress
    <3> QED
      BY <2>5, <3>1, <3>2 DEF FindFixture
  <2>6. CASE FetchOdds
    <3>1. Shrinks(ToAsk', ToAsk)
      BY <2>6, AnswerShrinks DEF FetchOdds, LookingUp
    <3> QED
      BY <2>6, <3>1 DEF FetchOdds, Answer, Stage
  <2>7. ASSUME NEW u \in Users, NEW m \in Matches, Judge(u, m) PROVE Less
    <3>1. Shrinks(left', left)
      BY <2>7 DEF Judge, Shrinks
    <3> QED
      BY <2>7, <3>1 DEF Judge, Stage
  <2>8. CASE Tick \/ UNCHANGED vars
    BY <2>8 DEF Tick, vars, cycleVars
  <2>9. ~Begin /\ ~Finish /\ ~Die
    BY DEF Begin, Finish, Die, Forget
  <2> QED
    BY <2>1, <2>2, <2>3, <2>4, <2>5, <2>6, <2>7, <2>8, <2>9 DEF Next, Worker
<1> QED
  BY <1>1, AlwaysInFlow, PTL DEF Spec, WorkShrinks

=============================================================================
