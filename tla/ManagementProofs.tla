-------------------------- MODULE ManagementProofs --------------------------
(***************************************************************************)
(* Theorems about Management, for any people, chats, competitions and      *)
(* preferences, and any finite set of teams.                               *)
(***************************************************************************)
EXTENDS Management, BotStoreProofs, FiniteSetTheorems, TLAPS

\* Two teams of a list have different places.
LEMMA OnePlaceEach ==
  ASSUME NEW S \in SUBSET (Teams \cup {AllTeams}), NEW t \in S, NEW u \in S,
         Place(S, t) = Place(S, u)
  PROVE  t = u
<1> DEFINE Before(v) == {w \in S : Rank[w] < Rank[v]}
<1>1. IsFiniteSet(S)
  <2>1. IsFiniteSet(Teams \cup {AllTeams})
    BY ManagementAssumption, FS_AddElement
  <2> QED
    BY <2>1, FS_Subset
<1>2. /\ \A v \in S : Rank[v] \in Nat
      /\ \A v, w \in S : Rank[v] = Rank[w] => v = w
  BY ManagementAssumption
<1>3. ASSUME NEW v \in S, NEW w \in S, Rank[v] < Rank[w]
      PROVE  Place(S, v) # Place(S, w)
  <2>1. Before(v) \subseteq Before(w)
    BY <1>2, <1>3
  <2>2. v \in Before(w) /\ v \notin Before(v)
    BY <1>2, <1>3
  <2>3. IsFiniteSet(Before(w))
    BY <1>1, FS_Subset
  <2>4. Before(v) # Before(w)
    BY <2>2
  <2> HIDE DEF Before
  <2>5. Cardinality(Before(v)) # Cardinality(Before(w))
    BY <2>1, <2>3, <2>4, FS_Subset
  <2> QED
    BY <2>5 DEF Place, Before
<1> QED
  BY <1>2, <1>3

-----------------------------------------------------------------------------
(* Types *)

LEMMA CompViewType ==
  ASSUME TypeOK, NEW p \in People, NEW c \in Chats, NEW x \in Comps,
         NEW teams \in SUBSET (Teams \cup {AllTeams}), CompView(p, c, x, teams)
  PROVE  view' \in [People -> View \cup {None}] /\ shown' \subseteq Button
<1>1. [comp |-> x, teams |-> teams] \in View
  BY DEF View
<1>2. ButtonsFor(c, x, teams) \subseteq Button
  <2> SUFFICES ASSUME NEW t \in teams, AllTeams \notin teams
               PROVE  [chat |-> c, comp |-> x, team |-> t, place |-> Place(teams, t)]
                        \in Button
    BY DEF ButtonsFor
  <2>1. IsFiniteSet(teams)
    <3>1. IsFiniteSet(Teams \cup {AllTeams})
      BY ManagementAssumption, FS_AddElement
    <3> QED
      BY <3>1, FS_Subset
  <2>2. Place(teams, t) \in Nat
    BY <2>1, FS_Subset, FS_CardinalityType DEF Place
  <2> QED
    BY <2>2 DEF Button
<1> QED
  BY <1>1, <1>2 DEF CompView, TypeOK

LEMMA ShowListType ==
  ASSUME TypeOK, NEW p \in People, NEW c, NEW left, ShowListOrEmpty(p, c, left)
  PROVE  view' \in [People -> View \cup {None}] /\ shown' \subseteq Button
BY DEF ShowListOrEmpty, TypeOK

LEMMA TeamsInType ==
  ASSUME NEW S \in SUBSET Row, NEW c, NEW x
  PROVE  TeamsIn(S, c, x) \in SUBSET (Teams \cup {AllTeams})
BY DEF TeamsIn, Row

-----------------------------------------------------------------------------
(* Refinement *)

LEMMA TapStep ==
  ASSUME TypeOK, NEW p \in People, NEW b \in shown, TapTeam(p, b)
  PROVE  \/ UNCHANGED storeVars
         \/ \E r \in ListSubscriptions(b.chat) : Drop(r)
<1> DEFINE c == b.chat
           x == view[p].comp
           S == view[p].teams
           meant == At(S, b.place)
<1>1. view[p] \in View /\ b \in Button
  BY DEF TapTeam, TypeOK
<1>2. /\ users' = users
      /\ rows' = {r \in rows : ~ (r.chat = c /\ r.comp = x /\ r.team \in meant)}
  BY DEF TapTeam
<1>3. S \in SUBSET (Teams \cup {AllTeams})
  BY <1>1 DEF View
<1>4. \A t, u \in meant : t = u
  BY <1>3, OnePlaceEach DEF At
<1> HIDE DEF meant
<1>5. CASE \E r \in rows : r.chat = c /\ r.comp = x /\ r.team \in meant
  <2>1. PICK r \in rows : r.chat = c /\ r.comp = x /\ r.team \in meant
    BY <1>5
  <2>2. ASSUME NEW s \in rows, s.chat = c, s.comp = x, s.team \in meant
        PROVE  s = r
    <3>1. s \in Row /\ r \in Row
      BY DEF TypeOK, StoreTypeOK
    <3>2. s.team = r.team
      BY <1>4, <2>1, <2>2
    <3> QED
      BY <2>1, <2>2, <3>1, <3>2 DEF Row
  <2>3. rows' = rows \ {r}
    BY <1>2, <2>1, <2>2
  <2> QED
    BY <1>2, <2>1, <2>3 DEF Drop, RemoveSubscriptions, ListSubscriptions
<1>6. CASE ~ \E r \in rows : r.chat = c /\ r.comp = x /\ r.team \in meant
  BY <1>2, <1>6 DEF storeVars
<1> QED
  BY <1>5, <1>6

LEMMA NextRefines ==
  ASSUME TypeOK, [Next]_vars
  PROVE  [StoreNext]_storeVars
<1>1. CASE \E p \in People : PressOption(p) \/ CancelEdit(p) \/ DoneUnsubscribing(p)
  BY <1>1 DEF PressOption, CancelEdit, DoneUnsubscribing, storeVars
<1>2. ASSUME NEW p \in People, NEW b \in shown, TapTeam(p, b)
      PROVE  [StoreNext]_storeVars
  <2>1. b.chat \in Chats
    BY DEF TypeOK, Button
  <2> QED
    BY <1>2, <2>1, TapStep DEF StoreNext, Manage
<1>3. ASSUME NEW p \in People, NEW c \in Chats,
             \/ Edit(p, c) \/ Back(p, c) \/ AskTimezone(p, c) \/ DoneSettings(p, c)
      PROVE  [StoreNext]_storeVars
  BY <1>3 DEF Edit, Back, AskTimezone, DoneSettings, storeVars
<1>4. ASSUME NEW p \in People, NEW c \in Chats, SaveEdit(p, c)
      PROVE  [StoreNext]_storeVars
  <2>1. edit[p] \in Prefs
    BY <1>4 DEF SaveEdit, TypeOK
  <2> QED
    BY <1>4, <2>1 DEF SaveEdit, StoreNext, Manage
<1>5. ASSUME NEW p \in People, NEW c \in Chats, ReceiveTimezone(p, c)
      PROVE  [StoreNext]_storeVars
  <2>1. CASE Registered(c)
    <3>1. PICK window \in Windows : ChangeQuiet(c, window)
      BY <1>5, <2>1, StoreAssumption DEF ReceiveTimezone
    <3> QED
      BY <3>1 DEF StoreNext, Manage
  <2>2. CASE ~Registered(c)
    BY <1>5, <2>2 DEF ReceiveTimezone
  <2> QED
    BY <2>1, <2>2
<1>6. ASSUME NEW p \in People, NEW c \in Chats, NEW x \in Comps, OpenCompetition(p, c, x)
      PROVE  [StoreNext]_storeVars
  BY <1>6 DEF OpenCompetition
<1>7. ASSUME NEW p \in People, NEW c \in Chats, NEW x \in Comps, RemoveCompetition(p, c, x)
      PROVE  [StoreNext]_storeVars
  <2>1. /\ users' = users
        /\ rows' = {r \in rows : ~ (r.chat = c /\ r.comp = x)}
    BY <1>7 DEF RemoveCompetition
  <2>2. CASE \E r \in rows : r.chat = c /\ r.comp = x
    <3>1. PICK r \in rows : r.chat = c /\ r.comp = x
      BY <2>2
    <3>2. rows' = rows \ {s \in rows : s.chat = r.chat /\ s.comp = r.comp}
      BY <2>1, <3>1
    <3>3. Drop(r) /\ r \in ListSubscriptions(c)
      BY <2>1, <3>1, <3>2 DEF Drop, RemoveSubscriptions, ListSubscriptions
    <3> QED
      BY <3>3 DEF StoreNext, Manage
  <2>3. CASE ~ \E r \in rows : r.chat = c /\ r.comp = x
    BY <2>1, <2>3 DEF storeVars
  <2> QED
    BY <2>2, <2>3
<1>8. ASSUME NEW c \in Chats, PickQuiet(c) \/ PauseOrResume(c) \/ Stop(c)
      PROVE  [StoreNext]_storeVars
  BY <1>8 DEF PickQuiet, PauseOrResume, Stop, StoreNext, Manage
<1>9. ASSUME NEW c \in Chats, Elsewhere(c)
      PROVE  [StoreNext]_storeVars
  <2>1. CASE Register(c)
    BY <2>1 DEF StoreNext
  <2>2. ASSUME NEW prefs \in AlertPrefs, NEW picks \in Picks, Commit(c, prefs, picks)
        PROVE  [StoreNext]_storeVars
    <3>1. prefs \in Prefs /\ picks \in SUBSET Pick /\ picks # {}
      BY ManagementAssumption
    <3>2. Committed(c)
      BY <2>2, <3>1, CommitStep
    <3> QED
      BY <3>2 DEF StoreNext
  <2> QED
    BY <1>9, <2>1, <2>2 DEF Elsewhere
<1>10. CASE Restart
  BY <1>10 DEF Restart
<1>11. CASE UNCHANGED vars
  BY <1>11 DEF vars
<1> QED
  BY <1>1, <1>2, <1>3, <1>4, <1>5, <1>6, <1>7, <1>8, <1>9, <1>10, <1>11 DEF Next

LEMMA DialogTypes ==
  ASSUME TypeOK, [Next]_vars
  PROVE  /\ edit' \in [People -> Prefs \cup {None}]
         /\ view' \in [People -> View \cup {None}]
         /\ awaiting' \subseteq People
         /\ shown' \subseteq Button
<1> DEFINE Goal == /\ edit' \in [People -> Prefs \cup {None}]
                   /\ view' \in [People -> View \cup {None}]
                   /\ awaiting' \subseteq People
                   /\ shown' \subseteq Button
<1>1. rows \in SUBSET Row
  BY DEF TypeOK, StoreTypeOK
<1>2. ASSUME NEW p \in People,
             PressOption(p) \/ CancelEdit(p) \/ DoneUnsubscribing(p)
      PROVE  Goal
  BY <1>2, ManagementAssumption DEF PressOption, CancelEdit, DoneUnsubscribing, TypeOK
<1>3. ASSUME NEW p \in People, NEW b \in shown, TapTeam(p, b)
      PROVE  Goal
  <2>1. b.chat \in Chats /\ view[p].comp \in Comps
    BY <1>3 DEF TapTeam, TypeOK, Button, View
  <2>2. rows' \in SUBSET Row
    BY <1>1, <1>3 DEF TapTeam
  <2>3. TeamsIn(rows', b.chat, view[p].comp) \in SUBSET (Teams \cup {AllTeams})
    BY <2>2, TeamsInType
  <2>4. \/ UNCHANGED <<view, shown>>
        \/ ShowListOrEmpty(p, b.chat, rows')
        \/ CompView(p, b.chat, view[p].comp, TeamsIn(rows', b.chat, view[p].comp))
    BY <1>3 DEF TapTeam
  <2>5. view' \in [People -> View \cup {None}] /\ shown' \subseteq Button
    BY <2>1, <2>3, <2>4, CompViewType, ShowListType DEF TypeOK
  <2> QED
    BY <1>3, <2>5 DEF TapTeam, TypeOK
<1>4. ASSUME NEW p \in People, NEW c \in Chats, Edit(p, c)
      PROVE  Goal
  <2>1. users[c] \in Subscriber
    BY <1>4, RegisteredType DEF Edit, TypeOK
  <2>2. [reminders |-> users[c].reminders, upsets |-> users[c].upsets,
         finals |-> users[c].finals, leads |-> users[c].leads] \in Prefs
    BY <2>1 DEF Subscriber, Prefs
  <2> QED
    BY <1>4, <2>2 DEF Edit, TypeOK
<1>5. ASSUME NEW p \in People, NEW c \in Chats,
             \/ SaveEdit(p, c) \/ AskTimezone(p, c)
             \/ ReceiveTimezone(p, c) \/ DoneSettings(p, c)
      PROVE  Goal
  BY <1>5 DEF SaveEdit, AskTimezone, ReceiveTimezone, DoneSettings, TypeOK
<1>6. ASSUME NEW p \in People, NEW c \in Chats, Back(p, c)
      PROVE  Goal
  BY <1>6, ShowListType DEF Back, TypeOK
<1>7. ASSUME NEW p \in People, NEW c \in Chats, NEW x \in Comps, OpenCompetition(p, c, x)
      PROVE  Goal
  BY <1>1, <1>7, TeamsInType, CompViewType DEF OpenCompetition, TypeOK
<1>8. ASSUME NEW p \in People, NEW c \in Chats, NEW x \in Comps, RemoveCompetition(p, c, x)
      PROVE  Goal
  <2>1. view' \in [People -> View \cup {None}] /\ shown' \subseteq Button
    BY <1>8, ShowListType DEF RemoveCompetition, TypeOK
  <2> QED
    BY <1>8, <2>1 DEF RemoveCompetition, TypeOK
<1>9. ASSUME NEW c \in Chats,
             PickQuiet(c) \/ PauseOrResume(c) \/ Stop(c) \/ Elsewhere(c)
      PROVE  Goal
  BY <1>9 DEF PickQuiet, PauseOrResume, Stop, Elsewhere, dialogVars, TypeOK
<1>10. CASE Restart
  BY <1>10 DEF Restart, TypeOK
<1>11. CASE UNCHANGED vars
  BY <1>11 DEF vars, dialogVars, TypeOK
<1> QED
  BY <1>2, <1>3, <1>4, <1>5, <1>6, <1>7, <1>8, <1>9, <1>10, <1>11 DEF Next

LEMMA TypeInvariance == Spec => []TypeOK
<1>1. Init => TypeOK
  BY ManagementAssumption DEF Init, TypeOK, StoreTypeOK
<1>2. TypeOK /\ [Next]_vars => TypeOK'
  <2> SUFFICES ASSUME TypeOK, [Next]_vars PROVE TypeOK'
    OBVIOUS
  <2>1. StoreTypeOK'
    <3>1. StoreTypeOK
      BY DEF TypeOK
    <3>2. [StoreNext]_storeVars
      BY NextRefines
    <3> QED
      BY <3>1, <3>2, StoreStep DEF storeVars, StoreTypeOK
  <2> QED
    BY <2>1, DialogTypes DEF TypeOK
<1> QED
  BY <1>1, <1>2, PTL DEF Spec

\* The dialogs, with all their left-over buttons, copies and prompts, do to the tables
\* only what BotStore allows.
THEOREM DialogsImplementBotStore == Spec => ImplementsBotStore
<1>1. Init => StoreInit
  BY ManagementAssumption DEF Init, StoreInit, StoreTypeOK, Registered
<1>2. TypeOK /\ [Next]_vars => [StoreNext]_storeVars
  BY NextRefines
<1> QED
  BY <1>1, <1>2, TypeInvariance, PTL DEF Spec, ImplementsBotStore, StoreSpec

\* A tap on the list remembered last removes the team on the button and no other.
THEOREM LastListIsRight == Spec => TapInLastList
<1> DEFINE Right == \A p \in People : \A b \in shown :
             /\ view[p] # None
             /\ b \in ButtonsFor(b.chat, view[p].comp, view[p].teams)
             /\ TapTeam(p, b)
             => rows \ rows' \subseteq {[chat |-> b.chat, comp |-> b.comp, team |-> b.team]}
<1>1. TypeOK => Right
  <2> SUFFICES ASSUME TypeOK, NEW p \in People, NEW b \in shown, view[p] # None,
                      b \in ButtonsFor(b.chat, view[p].comp, view[p].teams),
                      TapTeam(p, b), NEW r \in rows \ rows'
               PROVE  r = [chat |-> b.chat, comp |-> b.comp, team |-> b.team]
    OBVIOUS
  <2>1. PICK t \in view[p].teams :
          b = [chat |-> b.chat, comp |-> view[p].comp, team |-> t,
               place |-> Place(view[p].teams, t)]
    BY DEF ButtonsFor
  <2>2. b.comp = view[p].comp /\ b.team = t /\ b.place = Place(view[p].teams, t)
    BY <2>1
  <2>3. view[p].teams \in SUBSET (Teams \cup {AllTeams})
    BY DEF TypeOK, View
  <2>4. At(view[p].teams, b.place) = {t}
    BY <2>2, <2>3, OnePlaceEach DEF At
  <2>5. r.chat = b.chat /\ r.comp = b.comp /\ r.team = b.team
    BY <2>2, <2>4 DEF TapTeam
  <2>6. r \in Row
    BY DEF TypeOK, StoreTypeOK
  <2> QED
    BY <2>5, <2>6 DEF Row
<1> QED
  BY <1>1, TypeInvariance, PTL DEF TapInLastList

=============================================================================
