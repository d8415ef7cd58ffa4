-------------------------- MODULE RateLimiterProofs --------------------------
(***************************************************************************)
(* Theorems about RateLimiter, for every limit, window length and number   *)
(* of chats.                                                               *)
(***************************************************************************)
EXTENDS RateLimiter, FiniteSetTheorems, FunctionTheorems, TLAPS

Same(e, f) == e.chat = f.chat /\ e.start = f.start

\* What an entry says of itself.
EntryInv ==
  \A e \in log :
    /\ e.nth > 0
    /\ e.start <= e.time /\ e.time < e.start + Window /\ e.time <= now
    /\ e.nth = 1 => e.time = e.start
    /\ e.outcome \in Fates([start |-> e.start, count |-> e.nth])

\* How the entries of a chat relate to its current window.
WindowInv ==
  /\ \A c \in Chats : window[c].start <= now
  /\ \A e \in log :
       LET w == window[e.chat]
       IN  /\ w.count > 0
           /\ e.start = w.start => e.nth <= w.count
           /\ e.start # w.start => e.start + Window <= w.start
  /\ \A c \in Chats : \A n \in 1..window[c].count :
       \E e \in log : e.chat = c /\ e.start = window[c].start /\ e.nth = n

\* How the entries of a chat relate to each other.
OrderInv ==
  /\ \A e, f \in log : Same(e, f) /\ e.nth = f.nth => e = f
  /\ \A e, f \in log : e.chat = f.chat /\ e.start < f.start => e.start + Window <= f.start
  /\ \A e \in log : \A n \in 1..e.nth :
       \E f \in log : Same(e, f) /\ f.nth = n /\ f.time <= e.time

LogInv == TypeOK /\ EntryInv /\ WindowInv /\ OrderInv /\ IsFiniteSet(log)

LEMMA CheckType ==
  ASSUME now \in Nat, NEW w \in WindowState
  PROVE  /\ Check(w) \in WindowState
         /\ Check(w).count > 0
         /\ \/ Check(w).start = now /\ Check(w).count = 1
               /\ (w.count = 0 \/ w.start + Window <= now)
            \/ Check(w).start = w.start /\ Check(w).count = w.count + 1
               /\ w.count > 0 /\ now < w.start + Window
BY LimiterAssumption DEF Check, WindowState

LEMMA GuardStep ==
  ASSUME LogInv, NEW c \in Chats, Guard(c)
  PROVE  LogInv'
<1> DEFINE w == Check(window[c])
<1>1. PICK outcome \in Fates(w) :
        /\ now \in Nat /\ now' = now
        /\ window \in [Chats -> WindowState] /\ log \subseteq Entry
        /\ window' = [window EXCEPT ![c] = w]
        /\ log' = log \cup {[chat |-> c, start |-> w.start, nth |-> w.count,
                             time |-> now, outcome |-> outcome]}
  BY DEF Guard, LogInv, TypeOK
<1> DEFINE x == [chat |-> c, start |-> w.start, nth |-> w.count, time |-> now,
                 outcome |-> outcome]
<1>2. /\ w \in WindowState /\ w.count > 0
      /\ \/ w.start = now /\ w.count = 1
            /\ (window[c].count = 0 \/ window[c].start + Window <= now)
         \/ w.start = window[c].start /\ w.count = window[c].count + 1
            /\ window[c].count > 0 /\ now < window[c].start + Window
  BY <1>1, CheckType
<1>3. x \in Entry
  BY <1>1, <1>2 DEF Entry, WindowState, Outcomes, Fates
<1>4. TypeOK'
  BY <1>1, <1>2, <1>3 DEF TypeOK
<1>5. Fates(w) = Fates([start |-> w.start, count |-> w.count])
  BY DEF Fates, Allowed, JustTripped
<1>6. /\ x.chat = c /\ x.start = w.start /\ x.nth = w.count /\ x.time = now
      /\ x.outcome \in Fates(w) /\ log' = log \cup {x}
  BY <1>1
<1> HIDE DEF w, x
<1>7. EntryInv'
  <2>1. window[c].start <= now
    BY <1>1 DEF LogInv, WindowInv
  <2> QED
    BY <1>1, <1>2, <1>5, <1>6, <2>1, LimiterAssumption
       DEF LogInv, EntryInv, Fates, Allowed, JustTripped, WindowState
<1>8. \A e \in log : e.chat = c =>
        /\ e.start = w.start => e.nth < w.count
        /\ e.start # w.start => e.start + Window <= w.start
  BY <1>1, <1>2, LimiterAssumption DEF LogInv, WindowInv, EntryInv, WindowState, Entry
<1>9. \A n \in 1..w.count : \E f \in log' : Same(x, f) /\ f.nth = n /\ f.time <= now
  <2> SUFFICES ASSUME NEW n \in 1..w.count
               PROVE  \E f \in log' : Same(x, f) /\ f.nth = n /\ f.time <= now
    OBVIOUS
  <2>1. CASE n = w.count
    BY <1>1, <1>6, <2>1 DEF Same
  <2>2. CASE n # w.count
    <3>1. w.start = window[c].start /\ n \in 1..window[c].count
      BY <1>1, <1>2, <2>2 DEF WindowState
    <3>2. PICK f \in log : f.chat = c /\ f.start = window[c].start /\ f.nth = n
      BY <3>1 DEF LogInv, WindowInv
    <3>3. f.time <= now
      BY DEF LogInv, EntryInv
    <3> QED
      BY <1>1, <1>6, <3>1, <3>2, <3>3 DEF Same
  <2> QED
    BY <2>1, <2>2
<1>10. WindowInv'
  <2>1. \A d \in Chats : window'[d].start <= now'
    BY <1>1, <1>2 DEF LogInv, WindowInv, WindowState
  <2>2. ASSUME NEW e \in log'
        PROVE  LET v == window'[e.chat]
               IN  /\ v.count > 0
                   /\ e.start = v.start => e.nth <= v.count
                   /\ e.start # v.start => e.start + Window <= v.start
    <3>1. CASE e = x
      BY <1>1, <1>2, <1>6, <3>1 DEF WindowState
    <3>2. CASE e \in log /\ e.chat = c
      BY <1>1, <1>2, <1>8, <3>2 DEF WindowState, Entry
    <3>3. CASE e \in log /\ e.chat # c
      BY <1>1, <3>3 DEF LogInv, WindowInv, Entry
    <3> QED
      BY <1>6, <3>1, <3>2, <3>3
  <2>3. ASSUME NEW d \in Chats, NEW n \in 1..window'[d].count
        PROVE  \E e \in log' : e.chat = d /\ e.start = window'[d].start /\ e.nth = n
    <3>1. CASE d = c
      BY <1>1, <1>6, <1>9, <3>1 DEF Same
    <3>2. CASE d # c
      BY <1>1, <3>2 DEF LogInv, WindowInv
    <3> QED
      BY <3>1, <3>2
  <2> QED
    BY <2>1, <2>2, <2>3 DEF WindowInv
<1>11. OrderInv'
  BY <1>1, <1>2, <1>3, <1>6, <1>8, <1>9, LimiterAssumption
     DEF LogInv, OrderInv, WindowState, Entry, Same
<1>12. IsFiniteSet(log')
  BY <1>1, FS_AddElement DEF LogInv
<1> QED
  BY <1>4, <1>7, <1>10, <1>11, <1>12 DEF LogInv

LEMMA LogInvariance == Spec => []LogInv
<1>1. Init => LogInv
  BY FS_EmptySet
     DEF Init, LogInv, TypeOK, EntryInv, WindowInv, OrderInv, WindowState
<1>2. LogInv /\ [Next]_vars => LogInv'
  <2> SUFFICES ASSUME LogInv, [Next]_vars PROVE LogInv'
    OBVIOUS
  <2>1. CASE Tick
    <3>1. /\ now \in Nat /\ now' = now + 1 /\ window' = window /\ log' = log
          /\ window \in [Chats -> WindowState] /\ log \subseteq Entry
      BY <2>1 DEF Tick, LogInv, TypeOK
    <3>2. TypeOK'
      BY <3>1 DEF TypeOK
    <3>3. EntryInv'
      <4>1. ASSUME NEW e \in log
            PROVE  /\ e.nth > 0
                   /\ e.start <= e.time /\ e.time < e.start + Window
                   /\ e.nth = 1 => e.time = e.start
                   /\ e.outcome \in Fates([start |-> e.start, count |-> e.nth])
        BY DEF LogInv, EntryInv
      <4>2. ASSUME NEW e \in log PROVE e.time <= now + 1
        <5>1. e.time \in Nat
          BY <3>1 DEF Entry
        <5>2. e.time <= now
          BY DEF LogInv, EntryInv
        <5> QED
          BY <3>1, <5>1, <5>2
      <4> QED
        BY <3>1, <4>1, <4>2 DEF EntryInv
    <3>4. WindowInv'
      BY <3>1 DEF LogInv, WindowInv, WindowState
    <3>5. OrderInv' /\ IsFiniteSet(log')
      BY <3>1 DEF LogInv, OrderInv, Same
    <3> QED
      BY <3>2, <3>3, <3>4, <3>5 DEF LogInv
  <2>2. ASSUME NEW c \in Chats, Guard(c) PROVE LogInv'
    BY <2>2, GuardStep
  <2>3. CASE UNCHANGED vars
    BY <2>3 DEF vars, LogInv, TypeOK, EntryInv, WindowInv, OrderInv, Same
  <2> QED
    BY <2>1, <2>2, <2>3 DEF Next
<1> QED
  BY <1>1, <1>2, PTL DEF Spec

-----------------------------------------------------------------------------
(* Counting *)

\* Entries of one window with numbers in lo..hi are no more than hi - lo + 1.
LEMMA OneWindow ==
  ASSUME LogInv, NEW X \in SUBSET log, NEW lo \in Nat, NEW hi \in Nat, lo <= hi,
         \A e \in X : e.nth \in lo..hi,
         \A e, f \in X : Same(e, f)
  PROVE  IsFiniteSet(X) /\ Cardinality(X) \in Nat /\ Cardinality(X) <= hi - lo + 1
<1> DEFINE num == [e \in X |-> e.nth]
<1>1. num \in [X -> lo..hi]
  OBVIOUS
<1>2. \A e, f \in X : num[e] = num[f] => e = f
  BY DEF LogInv, OrderInv
<1>3. num \in Injection(X, lo..hi)
  BY <1>1, <1>2, Fun_IsInj
<1>4. IsFiniteSet(lo..hi) /\ Cardinality(lo..hi) = hi - lo + 1
  BY FS_Interval
<1> QED
  BY <1>3, <1>4, FS_Injection, FS_CardinalityType

\* What the invariant says of one entry, in numbers.
LEMMA EntryFacts ==
  ASSUME LogInv, NEW e \in log
  PROVE  /\ e.start \in Nat /\ e.time \in Nat /\ e.nth \in Nat /\ e.nth > 0
         /\ e.start <= e.time /\ e.time < e.start + Window
         /\ e.nth = 1 => e.time = e.start
         /\ e.outcome = "passed" <=> e.nth <= Max
         /\ e.outcome = "dropped" <=> e.nth > Max + 1
         /\ e.outcome \in {"noticed", "leaked", "mute"} <=> e.nth = Max + 1
         /\ e.outcome \in {"passed", "leaked"} => e.nth <= Max + 1
<1>1. e.start \in Nat /\ e.time \in Nat /\ e.nth \in Nat
  BY DEF LogInv, TypeOK, Entry
<1>2. /\ e.nth > 0 /\ e.start <= e.time /\ e.time < e.start + Window
      /\ e.nth = 1 => e.time = e.start
      /\ e.outcome \in Fates([start |-> e.start, count |-> e.nth])
  BY DEF LogInv, EntryInv
<1>3. /\ e.outcome = "passed" <=> e.nth <= Max
      /\ e.outcome = "dropped" <=> e.nth > Max + 1
      /\ e.outcome \in {"noticed", "leaked", "mute"} <=> e.nth = Max + 1
      /\ e.outcome \in {"passed", "leaked"} => e.nth <= Max + 1
  <2>1. CASE e.nth <= Max
    BY <1>1, <1>2, <2>1, LimiterAssumption DEF Fates, Allowed
  <2>2. CASE e.nth = Max + 1
    BY <1>1, <1>2, <2>2, LimiterAssumption DEF Fates, Allowed, JustTripped
  <2>3. CASE e.nth > Max + 1
    BY <1>1, <1>2, <2>3, LimiterAssumption DEF Fates, Allowed, JustTripped
  <2> QED
    BY <1>1, <2>1, <2>2, <2>3, LimiterAssumption
<1> QED
  BY <1>1, <1>2, <1>3

\* What the invariant says of two entries, in numbers.
LEMMA PairFacts ==
  ASSUME LogInv
  PROVE  /\ \A e, f \in log :
              e.chat = f.chat /\ e.start = f.start /\ e.nth = f.nth => e = f
         /\ \A e, f \in log : e.chat = f.chat /\ e.start < f.start => e.start + Window <= f.start
         /\ \A e \in log : \A n \in 1..e.nth :
              \E f \in log : f.chat = e.chat /\ f.start = e.start /\ f.nth = n
                             /\ f.time <= e.time
BY DEF LogInv, OrderInv, Same

\* A fixed window lets less than twice what one window may handle through in any stretch
\* of a window's length.
THEOREM LessThanTwoWindows == Spec => []Capped
<1>1. LogInv => Capped
  <2> SUFFICES ASSUME LogInv, NEW f \in log
               PROVE  Cardinality({e \in Handled(f.chat) :
                        f.time <= e.time /\ e.time < f.time + Window}) <= 2 * Max + 1
    BY DEF Capped
  <2> DEFINE S == {e \in Handled(f.chat) : f.time <= e.time /\ e.time < f.time + Window}
  <2>1. Max \in Nat /\ Max >= 1 /\ Window \in Nat /\ f.time \in Nat
    BY LimiterAssumption, EntryFacts
  <2>2. S \in SUBSET log
    BY DEF Handled
  <2>3. ASSUME NEW e \in S
        PROVE  /\ e.chat = f.chat
               /\ e.start \in Nat /\ e.time \in Nat /\ e.nth \in 1..(Max + 1)
               /\ f.time <= e.time /\ e.time < f.time + Window
               /\ e.start <= e.time /\ e.time < e.start + Window
               /\ e.nth = 1 => e.time = e.start
    <3>1. /\ e \in log /\ e.chat = f.chat /\ e.outcome \in {"passed", "leaked"}
          /\ f.time <= e.time /\ e.time < f.time + Window
      BY DEF Handled
    <3>2. /\ e.start \in Nat /\ e.time \in Nat /\ e.nth \in Nat /\ e.nth > 0 /\ e.nth <= Max + 1
          /\ e.start <= e.time /\ e.time < e.start + Window
          /\ e.nth = 1 => e.time = e.start
      BY <3>1, EntryFacts
    <3> QED
      BY <2>1, <3>1, <3>2
  <2> HIDE DEF S
  <2>4. ASSUME NEW X \in SUBSET S, NEW lo \in Nat, lo <= Max + 1,
               \A e \in X : e.nth >= lo,
               \A d, e \in X : d.start = e.start
        PROVE  IsFiniteSet(X) /\ Cardinality(X) \in Nat /\ Cardinality(X) <= Max + 1 - lo + 1
    <3>1. X \in SUBSET log
      BY <2>2
    <3>2. \A e \in X : e.nth \in lo..(Max + 1)
      BY <2>1, <2>3, <2>4
    <3>3. \A d, e \in X : Same(d, e)
      BY <2>3, <2>4 DEF Same
    <3> QED
      BY <2>1, <2>4, <3>1, <3>2, <3>3, OneWindow
  <2>5. ASSUME \A d, e \in S : d.start = e.start
        PROVE  Cardinality(S) <= 2 * Max + 1
    <3>1. \A e \in S : e.nth >= 1
      BY <2>1, <2>3
    <3>2. Cardinality(S) \in Nat /\ Cardinality(S) <= Max + 1 - 1 + 1
      BY <2>1, <2>4, <2>5, <3>1
    <3> QED
      BY <2>1, <3>2
  <2>6. ASSUME NEW d \in S, NEW e \in S, d.start < e.start
        PROVE  Cardinality(S) <= 2 * Max + 1
    <3> DEFINE D == {g \in S : g.start = d.start}
               E == {g \in S : g.start = e.start}
    <3>1. d.start + Window <= e.start
      BY <2>2, <2>3, <2>6, PairFacts
    <3>2. \A g \in S : g.start < d.start => g.start + Window <= d.start
      BY <2>2, <2>3, PairFacts
    <3>3. \A g \in S : d.start < g.start /\ g.start < e.start =>
            d.start + Window <= g.start /\ g.start + Window <= e.start
      BY <2>2, <2>3, PairFacts
    <3>4. \A g \in S : e.start < g.start => e.start + Window <= g.start
      BY <2>2, <2>3, PairFacts
    <3>5. ASSUME NEW g \in S PROVE g.start = d.start \/ g.start = e.start
      <4>1. /\ d.start \in Nat /\ d.time \in Nat /\ f.time <= d.time
            /\ d.time < d.start + Window
            /\ e.start \in Nat /\ e.time \in Nat /\ e.time < f.time + Window
            /\ e.start <= e.time
            /\ g.start \in Nat /\ g.time \in Nat /\ f.time <= g.time
            /\ g.time < f.time + Window /\ g.start <= g.time /\ g.time < g.start + Window
        BY <2>3
      <4> QED
        BY <2>1, <3>1, <3>2, <3>3, <3>4, <4>1
    <3>6. S = D \cup E
      BY <3>5
    <3>7. ASSUME NEW g \in D PROVE g.nth >= 2
      <4>1. /\ g \in S /\ g.start = d.start /\ e.start \in Nat /\ e.time \in Nat
            /\ g.start \in Nat /\ g.time \in Nat /\ g.nth \in 1..(Max + 1)
            /\ f.time <= g.time /\ e.time < f.time + Window /\ e.start <= e.time
            /\ g.nth = 1 => g.time = g.start
        BY <2>3
      <4> QED
        BY <2>1, <3>1, <4>1
    <3>8. D \in SUBSET S /\ d \in D /\ E \in SUBSET S
      OBVIOUS
    <3>9. (\A g, h \in D : g.start = h.start) /\ (\A g, h \in E : g.start = h.start)
      OBVIOUS
    <3> HIDE DEF D, E
    <3>10. 2 <= Max + 1
      BY <2>1, <2>3, <3>7, <3>8
    <3>11. IsFiniteSet(D) /\ Cardinality(D) \in Nat /\ Cardinality(D) <= Max + 1 - 2 + 1
      BY <2>4, <3>7, <3>8, <3>9, <3>10
    <3>12. \A g \in E : g.nth >= 1
      BY <2>1, <2>3, <3>8
    <3>13. IsFiniteSet(E) /\ Cardinality(E) \in Nat /\ Cardinality(E) <= Max + 1 - 1 + 1
      BY <2>1, <2>4, <3>8, <3>9, <3>12
    <3>14. IsFiniteSet(D \cap E) /\ Cardinality(D \cap E) \in Nat
      BY <3>11, FS_Intersection, FS_CardinalityType
    <3>15. Cardinality(S) = Cardinality(D) + Cardinality(E) - Cardinality(D \cap E)
      BY <3>6, <3>11, <3>13, FS_Union
    <3> QED
      BY <2>1, <3>11, <3>13, <3>14, <3>15
  <2>7. ASSUME NEW d \in S, NEW e \in S, d.start # e.start
        PROVE  Cardinality(S) <= 2 * Max + 1
    <3>1. d.start < e.start \/ e.start < d.start
      BY <2>3, <2>7
    <3> QED
      BY <2>6, <3>1
  <2> QED
    BY <2>5, <2>7 DEF S
<1> QED
  BY <1>1, LogInvariance, PTL

\* Nobody is blocked without having used up the limit within a window's length.
THEOREM BlocksAreEarned == Spec => []BlockedOnlyWhenBusy
<1>1. LogInv => BlockedOnlyWhenBusy
  <2> SUFFICES ASSUME LogInv, NEW e \in log, e.outcome # "passed"
               PROVE  Cardinality({p \in Passed(e.chat) :
                        e.time - Window < p.time /\ p.time <= e.time}) >= Max
    BY DEF BlockedOnlyWhenBusy
  <2> DEFINE S == {p \in Passed(e.chat) : e.time - Window < p.time /\ p.time <= e.time}
             Nth(n) == CHOOSE p \in S : p.nth = n
             nth == [n \in 1..Max |-> Nth(n)]
  <2>1. Max \in Nat /\ Window \in Nat
    BY LimiterAssumption
  <2>2. e.nth \in Nat /\ e.nth > Max
    BY <2>1, EntryFacts
  <2>3. \A n \in 1..Max : \E p \in S : p.nth = n
    <3> SUFFICES ASSUME NEW n \in 1..Max PROVE \E p \in S : p.nth = n
      OBVIOUS
    <3>1. PICK p \in log : /\ p.chat = e.chat /\ p.start = e.start
                            /\ p.nth = n /\ p.time <= e.time
      BY <2>1, <2>2, PairFacts
    <3>2. p.outcome = "passed"
      BY <2>1, <3>1, EntryFacts
    <3>3. e.time - Window < p.time
      <4>1. /\ e.time \in Nat /\ e.start \in Nat /\ e.time < e.start + Window
            /\ p.time \in Nat /\ p.start <= p.time
        BY EntryFacts
      <4> QED
        BY <2>1, <3>1, <4>1
    <3> QED
      BY <3>1, <3>2, <3>3 DEF Passed
  <2>4. \A n \in 1..Max : Nth(n) \in S /\ Nth(n).nth = n
    BY <2>3
  <2>5. nth \in Injection(1..Max, S)
    <3> HIDE DEF S, Nth
    <3>1. nth \in [1..Max -> S]
      BY <2>4
    <3>2. \A i, j \in 1..Max : nth[i] = nth[j] => i = j
      BY <2>4
    <3> HIDE DEF nth
    <3> QED
      BY <3>1, <3>2, Fun_IsInj
  <2>6. IsFiniteSet(S)
    BY FS_Subset DEF LogInv, Passed
  <2>7. Cardinality(1..Max) = Max /\ Cardinality(1..Max) <= Cardinality(S)
    <3> HIDE DEF S, nth
    <3> QED
      BY <2>1, <2>5, <2>6, FS_Injection, FS_Interval
  <2> QED
    BY <2>1, <2>7
<1> QED
  BY <1>1, LogInvariance, PTL

\* Whoever is blocked is told so, once per window.
THEOREM OneNoticePerWindow == Spec => []OneNotice
<1>1. LogInv => OneNotice
  <2> SUFFICES ASSUME LogInv, NEW e \in log, e.outcome # "passed"
               PROVE  \E n \in log :
                        /\ n.chat = e.chat /\ n.start = e.start /\ n.nth <= e.nth
                        /\ n.outcome \in {"noticed", "leaked", "mute"}
                        /\ \A o \in log : o.chat = e.chat /\ o.start = e.start =>
                             /\ o.nth < n.nth => o.outcome = "passed"
                             /\ o.nth > n.nth => o.outcome = "dropped"
    BY DEF OneNotice
  <2>1. Max \in Nat /\ e.nth \in Nat /\ Max + 1 \in 1..e.nth
    BY LimiterAssumption, EntryFacts
  <2>2. PICK n \in log : n.chat = e.chat /\ n.start = e.start /\ n.nth = Max + 1
    BY <2>1, PairFacts
  <2>3. n.outcome \in {"noticed", "leaked", "mute"} /\ n.nth <= e.nth
    BY <2>1, <2>2, EntryFacts
  <2>4. ASSUME NEW o \in log
        PROVE  /\ o.nth < n.nth => o.outcome = "passed"
               /\ o.nth > n.nth => o.outcome = "dropped"
    BY <2>1, <2>2, EntryFacts
  <2> QED
    BY <2>2, <2>3, <2>4
<1> QED
  BY <1>1, LogInvariance, PTL

=============================================================================
