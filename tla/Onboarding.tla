------------------------------ MODULE Onboarding ------------------------------
(***************************************************************************)
(* The /subscribe wizard (bot/onboarding.py over OnboardingState): what a  *)
(* person has picked so far lives in memory, per person, and is written    *)
(* for the chat in which Confirm is pressed.  A keyboard stays on its      *)
(* message and can be pressed when the wizard has moved on, so every       *)
(* button can be pressed at every step.  The page of the team list is      *)
(* layout and left out.                                                    *)
(***************************************************************************)
EXTENDS BotStore, Sequences

CONSTANTS
  People,        \* who presses the buttons
  Rosters,       \* Rosters[x]: the team lists providers may give for x
  AlertPrefs,    \* bound: alert preferences that may be chosen
  MaxIndex,      \* bound on team_index
  InitialStores, \* databases an earlier run may have left
  NotLoaded,     \* no roster fetched yet
  NoWizard       \* no wizard in user_data

Steps == {"tournaments", "teams", "options", "confirm"}

\* OnboardingState
Wizard ==
  [tournaments : Seq(Comps),
   rosters     : [Comps -> Seq(Teams) \cup {NotLoaded}],
   teams       : [Comps -> SUBSET Teams],
   all         : SUBSET Comps,
   prefs       : Prefs,
   step        : Steps,
   index       : Nat]

Listed(roster) == {roster[i] : i \in DOMAIN roster}

\* Teams some provider lists for a competition, and the sentinel.
Real(r) == r.team = AllTeams \/ \E roster \in Rosters[r.comp] : r.team \in Listed(roster)

ASSUME OnboardingAssumption ==
  /\ Rosters \in [Comps -> SUBSET Seq(Teams)]
  /\ AlertPrefs \subseteq Prefs
  /\ MaxIndex \in Nat
  /\ NotLoaded \notin Seq(Teams)
  /\ NoWizard \notin Wizard
  /\ InitialStores \subseteq
       [users : [Chats -> Subscriber \cup {Absent}], rows : SUBSET Row]
  /\ \A db \in InitialStores : \A r \in db.rows : db.users[r.chat] # Absent /\ Real(r)

VARIABLE wizard  \* wizard[p]: user_data["onb"]

vars == <<users, rows, wizard>>

Open(p) == wizard[p] # NoWizard

\* The type invariant.
TypeOK ==
  /\ StoreTypeOK
  /\ wizard \in [People -> Wizard \cup {NoWizard}]

Fresh ==
  [tournaments |-> <<>>,
   rosters     |-> [x \in Comps |-> NotLoaded],
   teams       |-> [x \in Comps |-> {}],
   all         |-> {},
   prefs       |-> DefaultPrefs,
   step        |-> "tournaments",
   index       |-> 0]

Init ==
  /\ \E db \in InitialStores : users = db.users /\ rows = db.rows
  /\ wizard = [p \in People |-> NoWizard]

-----------------------------------------------------------------------------
(* OnboardingState *)

Chosen(w) == Listed(w.tournaments)

\* current_code: the tournament whose teams are being picked, or none.
Current(w) == {w.tournaments[i] : i \in {w.index + 1} \cap DOMAIN w.tournaments}

Roster(w, x) == IF w.rosters[x] = NotLoaded THEN <<>> ELSE w.rosters[x]

Without(s, x) ==
  LET at == CHOOSE i \in DOMAIN s : s[i] = x
  IN  [i \in 1..(Len(s) - 1) |-> IF i < at THEN s[i] ELSE s[i + 1]]

\* Mutant: unticking a tournament keeps what was picked in it.
ToggleTournamentOnly(w, x) ==
  [w EXCEPT !.tournaments = IF x \in Chosen(w) THEN Without(@, x) ELSE Append(@, x)]

ToggleTournament(w, x) ==
  IF x \in Chosen(w)
    THEN [w EXCEPT !.tournaments = Without(@, x),
                   !.teams[x] = {},
                   !.all = @ \ {x}]
    ELSE [w EXCEPT !.tournaments = Append(@, x)]

ToggleAllTeams(w, x) ==
  IF x \in w.all
    THEN [w EXCEPT !.all = @ \ {x}]
    ELSE [w EXCEPT !.all = @ \cup {x}, !.teams[x] = {}]

ToggleTeam(w, x, t) ==
  [w EXCEPT !.all = @ \ {x},
            !.teams[x] = (@ \ {t}) \cup ({t} \ @)]

\* The preferences one press on the options screen leads to.
Toggled(prefs) ==
  {[prefs EXCEPT !.reminders = ~@], [prefs EXCEPT !.upsets = ~@],
   [prefs EXCEPT !.finals = ~@], DefaultPrefs}
  \cup {[prefs EXCEPT !.leads = (@ \ {l}) \cup ({l} \ @)] : l \in Leads}

HasSelectionFor(w, x) == x \in w.all \/ w.teams[x] # {}

HasAnySubscription(w) == \E x \in Chosen(w) : HasSelectionFor(w, x)

\* The rows commit_onboarding adds, and the recap lists.
Picked(w) ==
  {q \in Pick : /\ q[1] \in Chosen(w)
                /\ IF q[1] \in w.all THEN q[2] = AllTeams ELSE q[2] \in w.teams[q[1]]}

-----------------------------------------------------------------------------
(* on_callback *)

Becomes(p, w) ==
  /\ wizard' = [wizard EXCEPT ![p] = w]
  /\ UNCHANGED storeVars

\* _ensure_roster: the current tournament's team list is fetched once; a failure
\* leaves it empty.
Ensured(w) ==
  LET missing == {x \in Current(w) : w.rosters[x] = NotLoaded}
  IN  IF missing = {}
        THEN {w}
        ELSE {[w EXCEPT !.rosters[x] = roster] :
                x \in missing, roster \in {<<>>} \cup UNION {Rosters[y] : y \in missing}}

PressTournament(p) == \E x \in Comps : Becomes(p, ToggleTournament(wizard[p], x))

PressNext(p) ==
  /\ wizard[p].tournaments # <<>>
  /\ \E w \in Ensured([wizard[p] EXCEPT !.step = "teams", !.index = 0]) : Becomes(p, w)

PressAllTeams(p) == \E x \in Current(wizard[p]) : Becomes(p, ToggleAllTeams(wizard[p], x))

\* Mutant: the button's index is looked up in any list fetched so far.
PressTeamOfAnyRoster(p) ==
  \E x \in Current(wizard[p]), y \in Comps : \E t \in Listed(Roster(wizard[p], y)) :
    Becomes(p, ToggleTeam(wizard[p], x, t))

\* The button carries an index into the roster; it counts for the tournament that is
\* current now, and not at all beyond its list.
PressTeam(p) ==
  \E x \in Current(wizard[p]) : \E t \in Listed(Roster(wizard[p], x)) :
    Becomes(p, ToggleTeam(wizard[p], x, t))

PressDone(p) ==
  LET w == [wizard[p] EXCEPT !.index = @ + 1]
  IN  /\ w.index <= MaxIndex
      /\ IF Current(w) = {}
           THEN Becomes(p, [w EXCEPT !.step = "options"])
           ELSE \E v \in Ensured(w) : Becomes(p, v)

PressOption(p) ==
  \E prefs \in Toggled(wizard[p].prefs) \cap AlertPrefs :
    Becomes(p, [wizard[p] EXCEPT !.prefs = prefs])

PressReview(p) == Becomes(p, [wizard[p] EXCEPT !.step = "confirm"])

Cancel(p) == Becomes(p, NoWizard)

\* Mutant: Confirm does not ask whether anything was picked.
ConfirmAnyway(p, c) ==
  /\ Commit(c, wizard[p].prefs, Picked(wizard[p]))
  /\ wizard' = [wizard EXCEPT ![p] = NoWizard]

Confirm(p, c) ==
  /\ HasAnySubscription(wizard[p])
  /\ Commit(c, wizard[p].prefs, Picked(wizard[p]))
  /\ wizard' = [wizard EXCEPT ![p] = NoWizard]

Callback(p) ==
  /\ Open(p)
  /\ \/ PressTournament(p)
     \/ PressNext(p)
     \/ PressAllTeams(p)
     \/ PressTeam(p)
     \/ PressDone(p)
     \/ PressOption(p)
     \/ PressReview(p)
     \/ Cancel(p)
     \/ \E c \in Chats : Confirm(p, c)

-----------------------------------------------------------------------------
(* Commands, and the rest of the bot *)

\* /subscribe: a new wizard takes the place of the one there was.
Subscribe(p) == Becomes(p, Fresh)

\* /start of a new chat opens the wizard, unless the welcome could not be sent.
Start(p, c) ==
  /\ Register(c)
  /\ wizard' \in {wizard, [wizard EXCEPT ![p] = Fresh]}

\* The other dialogs change the tables only; not even /stop closes a wizard.
Elsewhere(c) ==
  /\ \/ \E r \in ListSubscriptions(c) : Drop(r)
     \/ \E prefs \in AlertPrefs : ChangePrefs(c, prefs)
     \/ Leave(c)
  /\ UNCHANGED wizard

\* The process restarts: dialogs are in memory only.
Restart ==
  /\ wizard' = [p \in People |-> NoWizard]
  /\ UNCHANGED storeVars

Next ==
  \/ \E p \in People : Callback(p) \/ Subscribe(p) \/ \E c \in Chats : Start(p, c)
  \/ \E c \in Chats : Elsewhere(c)
  \/ Restart

Spec == Init /\ [][Next]_vars

-----------------------------------------------------------------------------
(* Properties *)

\* Whatever is picked belongs to a ticked tournament, is either "all teams" or single
\* ones, and was on that tournament's list; so the recap shows all that Confirm saves.
PicksBelong ==
  \A p \in People : Open(p) =>
    \A x \in Comps :
      LET w == wizard[p]
      IN  /\ HasSelectionFor(w, x) => x \in Chosen(w)
          /\ ~ (x \in w.all /\ w.teams[x] # {})
          /\ w.teams[x] \subseteq Listed(Roster(w, x))

\* Nobody ends up following a team in a competition that no provider lists it for,
\* whichever keyboard, of whichever tournament, was pressed when.
OnlyRealTeams == \A r \in rows : Real(r)

\* The wizard does to the tables what BotStore allows: a chat it creates follows
\* something, and one it finds keeps its status, its quiet hours and its rows.
ImplementsBotStore == StoreSpec

=============================================================================
