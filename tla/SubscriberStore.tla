--------------------------- MODULE SubscriberStore ---------------------------
(***************************************************************************)
(* The subscribers and subscriptions tables of state.py, and the           *)
(* operations SubscriberStore (subscribers.py) offers on them.  Each       *)
(* operation is one SQLite transaction, hence one atomic change of the two *)
(* variables.  The bot's handlers and the delivery cycle are built from    *)
(* these operations in module Delivery.                                    *)
(*                                                                         *)
(* A quiet-hours window (enabled flag, start, end and timezone) is         *)
(* abstracted to the set of clock values it covers; {} is "disabled".      *)
(* A season is fixed per competition, so a competition stands for the      *)
(* (competition_code, season) pair of the code.                            *)
(***************************************************************************)
EXTENDS FiniteSets, Integers

CONSTANTS
  Chats,          \* Telegram chat ids
  Comps,          \* competitions: (competition_code, season)
  Teams,          \* canonical team names
  AllTeams,       \* the sentinel '*' of subscriptions.team
  Leads,          \* reminder lead-time labels: "1d", "1h", ...
  DefaultLeads,   \* the labels used when a user has none
  Windows,        \* quiet-hours windows: sets of clock values, {} is off
  DefaultWindow,  \* the window a new subscriber starts with
  Absent          \* "no row" in subscribers

Behaviors == {"defer", "suppress"}

Subscriber ==
  [status    : {"active", "paused"},
   quiet     : Windows,
   behavior  : Behaviors,
   reminders : BOOLEAN,
   upsets    : BOOLEAN,
   finals    : BOOLEAN,
   leads     : SUBSET Leads]

\* What the wizard and /edit choose: alert switches and lead-times.
Prefs == [reminders : BOOLEAN, upsets : BOOLEAN, finals : BOOLEAN,
          leads : SUBSET Leads]

Pick == Comps \X (Teams \cup {AllTeams})

Row == [chat : Chats, comp : Comps, team : Teams \cup {AllTeams}]

ASSUME StoreAssumption ==
  /\ AllTeams \notin Teams
  /\ Absent \notin Subscriber
  /\ DefaultLeads \subseteq Leads
  /\ DefaultWindow \in Windows
  /\ {} \in Windows

VARIABLES
  users,   \* users[c]: the row of chat c in subscribers, or Absent
  rows     \* the rows of subscriptions

storeVars == <<users, rows>>

StoreTypeOK ==
  /\ users \in [Chats -> Subscriber \cup {Absent}]
  /\ rows \subseteq Row

\* Subscriber's field defaults: what /start writes for a chat it has not seen.
NewSubscriber ==
  [status |-> "active", quiet |-> DefaultWindow, behavior |-> "defer",
   reminders |-> TRUE, upsets |-> TRUE, finals |-> FALSE, leads |-> DefaultLeads]

DefaultPrefs ==
  [reminders |-> TRUE, upsets |-> TRUE, finals |-> FALSE, leads |-> DefaultLeads]

\* Chosen preferences over a subscriber; no lead-times means the default ones.
WithPrefs(sub, prefs) ==
  [sub EXCEPT !.reminders = prefs.reminders,
              !.upsets = prefs.upsets,
              !.finals = prefs.finals,
              !.leads = IF prefs.leads = {} THEN DefaultLeads ELSE prefs.leads]

-----------------------------------------------------------------------------
(* Queries *)

Registered(c) == users[c] # Absent

\* list_subscribers(status="active"): the whole row of every active chat.
ActiveRoster ==
  [c \in Chats |-> IF Registered(c) /\ users[c].status = "active"
                     THEN users[c] ELSE Absent]

ListSubscriptions(c) == {r \in rows : r.chat = c}

ActiveCompetitions ==
  {r.comp : r \in {x \in rows : ActiveRoster[x.chat] # Absent}}

\* watchlist_for: {} means "every team", and one '*' row wins over explicit rows.
Watchlist(mine, comp) ==
  LET teams == {r.team : r \in {x \in mine : x.comp = comp}}
  IN  IF AllTeams \in teams THEN {} ELSE teams

-----------------------------------------------------------------------------
(* Updates *)

UpsertSubscriber(c, sub) ==
  /\ users' = [users EXCEPT ![c] = sub]
  /\ UNCHANGED rows

SetStatus(c, status) ==
  /\ users' = [users EXCEPT ![c].status = status]
  /\ UNCHANGED rows

\* Mutant: foreign_keys=OFF, so nothing cascades.
DeleteSubscriberNoCascade(c) ==
  /\ users' = [users EXCEPT ![c] = Absent]
  /\ UNCHANGED rows

\* The foreign key cascades: a deleted subscriber takes its subscriptions along.
DeleteSubscriber(c) ==
  /\ users' = [users EXCEPT ![c] = Absent]
  /\ rows' = {r \in rows : r.chat # c}

AddSubscription(r) ==
  /\ rows' = rows \cup {r}
  /\ UNCHANGED users

RemoveSubscriptions(gone) ==
  /\ rows' = rows \ gone
  /\ UNCHANGED users

=============================================================================
