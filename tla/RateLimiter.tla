----------------------------- MODULE RateLimiter -----------------------------
(***************************************************************************)
(* The inbound rate limiter (bot/ratelimit.py) as rate_guard               *)
(* (bot/handlers.py) uses it: every update of a chat is checked first, and *)
(* passed on, answered with one "slow down" notice, or dropped silently.   *)
(* The limiter lives in memory; a behavior is one life of the process.     *)
(***************************************************************************)
EXTENDS Integers, FiniteSets

CONSTANTS
  Chats,
  Max,      \* max_per_window
  Window,   \* window_seconds, in clock units
  MaxTime,  \* bound on the clock
  Burst     \* bound on the updates of one chat in one window

ASSUME LimiterAssumption ==
  /\ Max \in Nat \ {0}
  /\ Window \in Nat \ {0}
  /\ MaxTime \in Nat
  /\ Burst \in Nat

Times == 0..MaxTime

\* _state[chat]: start and count of the chat's window; count 0 is "no entry".
WindowState == [start : Nat, count : Nat]

\* "noticed", "leaked" and "mute" are the fates of the update that trips the limit: it is
\* answered; the answer cannot be sent, and rate_guard ends with that error instead of
\* ApplicationHandlerStop, so the update goes on to the other handlers; or the update has
\* no message that could be answered.
Outcomes == {"passed", "noticed", "leaked", "mute", "dropped"}

\* What became of an update: the nth of its chat in the window begun at start.
Entry == [chat : Chats, start : Nat, nth : Nat, time : Nat, outcome : Outcomes]

VARIABLES
  now,     \* time.monotonic()
  window,  \* _state
  log      \* history: every update so far

vars == <<now, window, log>>

\* The type invariant.
TypeOK ==
  /\ now \in Nat
  /\ window \in [Chats -> WindowState]
  /\ log \subseteq Entry

Init ==
  /\ now = 0
  /\ window = [c \in Chats |-> [start |-> 0, count |-> 0]]
  /\ log = {}

\* Mutant: the window is moved along by every update, blocked ones included.
CheckSliding(w) ==
  IF w.count = 0 \/ now - w.start >= Window
    THEN [start |-> now, count |-> 1]
    ELSE [start |-> now, count |-> w.count + 1]

\* Mutant: the window rolls over one unit early.
CheckEarly(w) ==
  IF w.count = 0 \/ now - w.start >= Window - 1
    THEN [start |-> now, count |-> 1]
    ELSE [w EXCEPT !.count = @ + 1]

\* check: the chat's window after one more update.
Check(w) ==
  IF w.count = 0 \/ now - w.start >= Window
    THEN [start |-> now, count |-> 1]
    ELSE [w EXCEPT !.count = @ + 1]

Allowed(w) == w.count <= Max

\* Mutant: the notice is sent for everything over the limit.
AlwaysTripped(w) == w.count > Max

JustTripped(w) == w.count = Max + 1

\* What rate_guard may do with the update that brought a window to w.
Fates(w) ==
  IF Allowed(w) THEN {"passed"}
  ELSE IF JustTripped(w) THEN {"noticed", "leaked", "mute"}
  ELSE {"dropped"}

\* rate_guard, for one update of chat c.
Guard(c) ==
  LET w == Check(window[c])
  IN  /\ w.count <= Burst
      /\ window' = [window EXCEPT ![c] = w]
      /\ \E outcome \in Fates(w) :
           log' = log \cup {[chat |-> c, start |-> w.start, nth |-> w.count,
                             time |-> now, outcome |-> outcome]}
      /\ UNCHANGED now

Tick ==
  /\ now < MaxTime
  /\ now' = now + 1
  /\ UNCHANGED <<window, log>>

Next == Tick \/ \E c \in Chats : Guard(c)

Spec == Init /\ [][Next]_vars

-----------------------------------------------------------------------------
(* Properties *)

Passed(c) == {e \in log : e.chat = c /\ e.outcome = "passed"}

Handled(c) == {e \in log : e.chat = c /\ e.outcome \in {"passed", "leaked"}}

\* The guard's real bound: one update per window may get through on a failed notice, and
\* still a fixed window lets less than twice as many through in any stretch of a window's
\* length, wherever it begins.
Capped ==
  \A f \in log :
    Cardinality({e \in Handled(f.chat) : f.time <= e.time /\ e.time < f.time + Window})
      <= 2 * Max + 1

\* No chat is blocked for another chat's updates, for its own blocked ones or for old
\* ones: a blocked update has the limit's worth of passed ones within a window's length
\* before it.
BlockedOnlyWhenBusy ==
  \A e \in log : e.outcome # "passed" =>
    Cardinality({p \in Passed(e.chat) : e.time - Window < p.time /\ p.time <= e.time})
      >= Max

\* Whoever is blocked is told so, or would be if it could be, once per window, at the
\* window's first blocked update; before it all pass, after it all are dropped silently.
OneNotice ==
  \A e \in log : e.outcome # "passed" =>
    \E n \in log :
      /\ n.chat = e.chat /\ n.start = e.start /\ n.nth <= e.nth
      /\ n.outcome \in {"noticed", "leaked", "mute"}
      /\ \A o \in log : o.chat = e.chat /\ o.start = e.start =>
           /\ o.nth < n.nth => o.outcome = "passed"
           /\ o.nth > n.nth => o.outcome = "dropped"

=============================================================================
