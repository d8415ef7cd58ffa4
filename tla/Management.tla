------------------------------ MODULE Management ------------------------------
(***************************************************************************)
(* The dialogs over an existing subscription (bot/management.py,           *)
(* bot/settings_flow.py): /edit with its copy of the preferences,          *)
(* /unsubscribe with its list of teams, /settings with its pending         *)
(* timezone, /pause, /resume and /stop.  Their memory is per person, their *)
(* effect on the chat in which a button is pressed, and a button stays on  *)
(* its message after the dialog has moved on.  A message to Telegram may   *)
(* fail, and what the handler would have done after it is not done.        *)
(***************************************************************************)
EXTENDS BotStore

CONSTANTS
  People,        \* who presses the buttons
  Rank,          \* the alphabetical order of team names, the sentinel first
  Picks,         \* bound: sets of (competition, team) the wizard may commit
  AlertPrefs,    \* bound: alert preferences that may be chosen
  InitialStores, \* databases an earlier run may have left
  None           \* no dialog in user_data

\* user_data["unsub"]: the teams listed for a competition.
View == [comp : Comps, teams : SUBSET (Teams \cup {AllTeams})]

\* A team button of /unsubscribe: it names a team and carries its place in the list.
Button == [chat : Chats, comp : Comps, team : Teams, place : Nat]

ASSUME ManagementAssumption ==
  /\ IsFiniteSet(Teams)
  /\ Rank \in [Teams \cup {AllTeams} -> Nat]
  /\ \A t, u \in Teams \cup {AllTeams} : Rank[t] = Rank[u] => t = u
  /\ \A t \in Teams : Rank[AllTeams] < Rank[t]
  /\ Picks \subseteq SUBSET Pick
  /\ {} \notin Picks
  /\ AlertPrefs \subseteq Prefs
  /\ InitialStores \subseteq
       [users : [Chats -> Subscriber \cup {Absent}], rows : SUBSET Row]
  /\ \A db \in InitialStores : \A r \in db.rows : db.users[r.chat] # Absent
  /\ None \notin Prefs
  /\ None \notin View

VARIABLES
  edit,      \* edit[p]: user_data["edit"], the preferences being edited
  view,      \* view[p]: user_data["unsub"]
  awaiting,  \* people whose next text is taken for a timezone
  shown      \* history: the team buttons that have been on a message

dialogVars == <<edit, view, awaiting, shown>>
vars == <<storeVars, dialogVars>>

\* The type invariant.
TypeOK ==
  /\ StoreTypeOK
  /\ edit \in [People -> Prefs \cup {None}]
  /\ view \in [People -> View \cup {None}]
  /\ awaiting \subseteq People
  /\ shown \subseteq Button

Init ==
  /\ \E db \in InitialStores : users = db.users /\ rows = db.rows
  /\ edit = [p \in People |-> None]
  /\ view = [p \in People |-> None]
  /\ awaiting = {}
  /\ shown = {}

-----------------------------------------------------------------------------
(* /edit *)

Edit(p, c) ==
  /\ Registered(c)
  /\ edit' = [edit EXCEPT ![p] = [reminders |-> users[c].reminders,
                                  upsets    |-> users[c].upsets,
                                  finals    |-> users[c].finals,
                                  leads     |-> users[c].leads]]
  /\ UNCHANGED <<storeVars, view, awaiting, shown>>

\* Any button of the options keyboard.
PressOption(p) ==
  /\ edit[p] # None
  /\ \E prefs \in AlertPrefs : edit' = [edit EXCEPT ![p] = prefs]
  /\ UNCHANGED <<storeVars, view, awaiting, shown>>

CancelEdit(p) ==
  /\ edit[p] # None
  /\ edit' = [edit EXCEPT ![p] = None]
  /\ UNCHANGED <<storeVars, view, awaiting, shown>>

\* Mutant: the subscriber is not looked up again before it is written.
SaveUnseen(p, c) ==
  /\ edit[p] # None
  /\ UpsertSubscriber(c, WithPrefs(NewSubscriber, edit[p]))
  /\ edit' = [edit EXCEPT ![p] = None]
  /\ UNCHANGED <<view, awaiting, shown>>

\* The chat's row is read again, and only its preferences change; a chat that has
\* left in the meantime stays away.
SaveEdit(p, c) ==
  /\ edit[p] # None
  /\ IF Registered(c) THEN ChangePrefs(c, edit[p]) ELSE UNCHANGED storeVars
  /\ edit' = [edit EXCEPT ![p] = None]
  /\ UNCHANGED <<view, awaiting, shown>>

-----------------------------------------------------------------------------
(* /unsubscribe *)

TeamsIn(someRows, c, x) == {r.team : r \in {s \in someRows : s.chat = c /\ s.comp = x}}

Place(teams, t) == Cardinality({u \in teams : Rank[u] < Rank[t]})

\* Mutant: places are counted from one.
AtFromOne(teams, place) == {t \in teams : Place(teams, t) + 1 = place}

\* The team at a place of a list, or none beyond its end.
At(teams, place) == {t \in teams : Place(teams, t) = place}

\* Whoever follows all teams gets no team buttons.
ButtonsFor(c, x, teams) ==
  IF AllTeams \in teams
    THEN {}
    ELSE {[chat |-> c, comp |-> x, team |-> t, place |-> Place(teams, t)] : t \in teams}

\* _comp_view: the list is remembered, then shown, which may fail.
CompView(p, c, x, teams) ==
  /\ view' = [view EXCEPT ![p] = [comp |-> x, teams |-> teams]]
  /\ shown' \in {shown, shown \cup ButtonsFor(c, x, teams)}

\* _show_list_or_empty
ShowListOrEmpty(p, c, left) ==
  /\ view' = IF \E r \in left : r.chat = c THEN view ELSE [view EXCEPT ![p] = None]
  /\ UNCHANGED shown

\* Any competition's button may still be on a message.
OpenCompetition(p, c, x) ==
  /\ CompView(p, c, x, TeamsIn(rows, c, x))
  /\ UNCHANGED <<storeVars, edit, awaiting>>

RemoveCompetition(p, c, x) ==
  /\ rows' = {r \in rows : ~ (r.chat = c /\ r.comp = x)}
  /\ \/ ShowListOrEmpty(p, c, rows')
     \/ UNCHANGED <<view, shown>>
  /\ UNCHANGED <<users, edit, awaiting>>

\* A tap on a team: the button's place counts in the list the person saw last.  Then
\* the shorter list is shown, unless the answer to the tap fails before that.
TapTeam(p, b) ==
  /\ view[p] # None
  /\ LET c == b.chat
         x == view[p].comp
         meant == At(view[p].teams, b.place)
     IN  /\ rows' = {r \in rows : ~ (r.chat = c /\ r.comp = x /\ r.team \in meant)}
         /\ \/ UNCHANGED <<view, shown>>
            \/ IF TeamsIn(rows', c, x) = {}
                 THEN ShowListOrEmpty(p, c, rows')
                 ELSE CompView(p, c, x, TeamsIn(rows', c, x))
  /\ UNCHANGED <<users, edit, awaiting>>

Back(p, c) ==
  /\ ShowListOrEmpty(p, c, rows)
  /\ UNCHANGED <<storeVars, edit, awaiting>>

DoneUnsubscribing(p) ==
  /\ view' = [view EXCEPT ![p] = None]
  /\ UNCHANGED <<storeVars, edit, awaiting, shown>>

-----------------------------------------------------------------------------
(* /settings *)

\* A preset, or quiet hours off.
PickQuiet(c) ==
  /\ \E window \in Windows : ChangeQuiet(c, window)
  /\ UNCHANGED dialogVars

AskTimezone(p, c) ==
  /\ Registered(c)
  /\ awaiting' = awaiting \cup {p}
  /\ UNCHANGED <<storeVars, edit, view, shown>>

\* A valid timezone moves the window, if there is one; the prompt is over even when
\* the chat has left.
ReceiveTimezone(p, c) ==
  /\ p \in awaiting
  /\ IF Registered(c)
       THEN \E window \in IF users[c].quiet = {} THEN {{}} ELSE Windows \ {{}} :
              ChangeQuiet(c, window)
       ELSE UNCHANGED storeVars
  /\ awaiting' = awaiting \ {p}
  /\ UNCHANGED <<edit, view, shown>>

DoneSettings(p, c) ==
  /\ Registered(c)
  /\ awaiting' = awaiting \ {p}
  /\ UNCHANGED <<storeVars, edit, view, shown>>

-----------------------------------------------------------------------------
(* The other commands *)

PauseOrResume(c) ==
  /\ \E status \in {"active", "paused"} : ChangeStatus(c, status)
  /\ UNCHANGED dialogVars

\* /stop, confirmed: dialogs stay open.
Stop(c) ==
  /\ Leave(c)
  /\ UNCHANGED dialogVars

\* /start and the wizard.
Elsewhere(c) ==
  /\ \/ Register(c)
     \/ \E prefs \in AlertPrefs, picks \in Picks : Commit(c, prefs, picks)
  /\ UNCHANGED dialogVars

\* The process restarts: dialogs are in memory only, messages are not.
Restart ==
  /\ edit' = [p \in People |-> None]
  /\ view' = [p \in People |-> None]
  /\ awaiting' = {}
  /\ UNCHANGED <<storeVars, shown>>

Next ==
  \/ \E p \in People :
       \/ PressOption(p)
       \/ CancelEdit(p)
       \/ DoneUnsubscribing(p)
       \/ \E b \in shown : TapTeam(p, b)
       \/ \E c \in Chats :
            \/ Edit(p, c)
            \/ SaveEdit(p, c)
            \/ Back(p, c)
            \/ AskTimezone(p, c)
            \/ ReceiveTimezone(p, c)
            \/ DoneSettings(p, c)
            \/ \E x \in Comps : OpenCompetition(p, c, x) \/ RemoveCompetition(p, c, x)
  \/ \E c \in Chats : PickQuiet(c) \/ PauseOrResume(c) \/ Stop(c) \/ Elsewhere(c)
  \/ Restart

Spec == Init /\ [][Next]_vars

-----------------------------------------------------------------------------
(* Properties *)

\* The dialogs do to the tables what BotStore allows.  Whatever copies, lists and
\* prompts are left over from earlier, none of them brings back a chat that left, and
\* no press changes more than one aspect of one chat or removes more than one
\* subscription, unless all of one competition.
ImplementsBotStore == StoreSpec

\* A tap on the list that was remembered last removes the team on the button.
TapInLastList ==
  [][\A p \in People : \A b \in shown :
       /\ view[p] # None
       /\ b \in ButtonsFor(b.chat, view[p].comp, view[p].teams)
       /\ TapTeam(p, b)
       => rows \ rows' \subseteq {[chat |-> b.chat, comp |-> b.comp, team |-> b.team]}]_vars

\* management.py:184, "tap a team to remove it": the team on the button, and no other.
TapRemovesWhatItNames ==
  [][\A p \in People : \A b \in shown : TapTeam(p, b) =>
       rows \ rows' \subseteq {[chat |-> b.chat, comp |-> b.comp, team |-> b.team]}]_vars

=============================================================================
