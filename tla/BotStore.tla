------------------------------- MODULE BotStore -------------------------------
(***************************************************************************)
(* What the bot's dialogs may do to the two tables, whoever presses        *)
(* whichever button in whatever order: register a chat with defaults;      *)
(* commit a wizard that has picked something; change one aspect of one     *)
(* registered chat; drop one subscription or all of one competition; and   *)
(* delete a chat with everything it has.  Onboarding and Management        *)
(* implement it, and each stands for its counterpart in it.                *)
(*                                                                         *)
(* A handler runs to its end before the next update is handled, so a       *)
(* commit is one step here; what a crash or the delivery worker sees in    *)
(* the middle of one is in module Delivery.                                *)
(***************************************************************************)
EXTENDS SubscriberStore

\* The store has its type and no subscription without its subscriber.
StoreInit ==
  /\ StoreTypeOK
  /\ \A r \in rows : Registered(r.chat)

\* ensure_subscriber: an existing subscriber is left untouched.
Register(c) ==
  /\ ~Registered(c)
  /\ UpsertSubscriber(c, NewSubscriber)

\* commit_onboarding: preferences over the row the chat has, or a new one, and at
\* least one subscription.
Commit(c, prefs, picks) ==
  /\ users' = [users EXCEPT ![c] =
                 WithPrefs(IF Registered(c) THEN users[c] ELSE NewSubscriber, prefs)]
  /\ rows' = rows \cup {[chat |-> c, comp |-> q[1], team |-> q[2]] : q \in picks}

\* The same, seen from its result.
Committed(c) ==
  /\ \E prefs \in Prefs :
       users' = [users EXCEPT ![c] =
                   WithPrefs(IF Registered(c) THEN users[c] ELSE NewSubscriber, prefs)]
  /\ rows \subseteq rows'
  /\ \A r \in rows' \ rows : r \in Row /\ r.chat = c
  /\ \E r \in rows' : r.chat = c

ChangeStatus(c, status) ==
  /\ Registered(c) /\ users[c].status # status
  /\ SetStatus(c, status)

ChangePrefs(c, prefs) ==
  /\ Registered(c)
  /\ UpsertSubscriber(c, WithPrefs(users[c], prefs))

ChangeQuiet(c, window) ==
  /\ Registered(c)
  /\ UpsertSubscriber(c, [users[c] EXCEPT !.quiet = window])

Drop(r) ==
  \/ RemoveSubscriptions({r})
  \/ RemoveSubscriptions({s \in rows : s.chat = r.chat /\ s.comp = r.comp})

Leave(c) ==
  /\ Registered(c)
  /\ DeleteSubscriber(c)

Manage(c) ==
  \/ \E status \in {"active", "paused"} : ChangeStatus(c, status)
  \/ \E prefs \in Prefs : ChangePrefs(c, prefs)
  \/ \E window \in Windows : ChangeQuiet(c, window)
  \/ \E r \in ListSubscriptions(c) : Drop(r)

StoreNext == \E c \in Chats : Register(c) \/ Committed(c) \/ Manage(c) \/ Leave(c)

StoreSpec == StoreInit /\ [][StoreNext]_storeVars

=============================================================================
