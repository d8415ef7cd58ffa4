----------------------------- MODULE AlertOutbox -----------------------------
(***************************************************************************)
(* What alert delivery promises, with everything about fetching, planning, *)
(* users and time left out.  An alert is named by its dedup key.  It is    *)
(* open until it is settled; while it is open copies of it may reach its   *)
(* chat; it is settled only once a copy has reached the chat or it has     *)
(* been suppressed on purpose; and once settled it is silent for ever.     *)
(* One transaction may settle several alerts.                              *)
(*                                                                         *)
(* This is at-least-once delivery: nothing is settled unsent, and nothing  *)
(* settled is sent.  Exactly-once would also forbid a second Reach of an   *)
(* open alert, which the code does not.                                    *)
(***************************************************************************)
EXTENDS Integers

CONSTANTS
  Keys,     \* dedup keys
  Copies    \* most copies one send operation can put in a chat

VARIABLES
  inbox,       \* inbox[k]: copies of alert k that reached the chat
  settled,     \* keys recorded in sent_alerts
  suppressed   \* keys recorded without a send

outboxVars == <<inbox, settled, suppressed>>

OutboxInit ==
  /\ inbox = [k \in Keys |-> 0]
  /\ settled = {}
  /\ suppressed = {}

Reach(k) ==
  /\ k \notin settled
  /\ \E n \in 1..Copies : inbox' = [inbox EXCEPT ![k] = @ + n]
  /\ UNCHANGED <<settled, suppressed>>

\* One transaction records alerts: those of `silent' are suppressed on purpose, every
\* other one has reached the chat.
Record ==
  LET new    == settled' \ settled
      silent == new \cap suppressed'
  IN  /\ \A k \in new \ silent : inbox[k] > 0
      /\ settled' = settled \cup new
      /\ suppressed' = suppressed \cup silent
      /\ UNCHANGED inbox

OutboxNext == (\E k \in Keys : Reach(k)) \/ Record

OutboxSpec == OutboxInit /\ [][OutboxNext]_outboxVars

=============================================================================
