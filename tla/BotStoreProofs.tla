--------------------------- MODULE BotStoreProofs ---------------------------
(***************************************************************************)
(* Theorems about BotStore, and the lemmas its implementations use.        *)
(***************************************************************************)
EXTENDS BotStore, TLAPS

LEMMA NewSubscriberType == NewSubscriber \in Subscriber
BY StoreAssumption DEF NewSubscriber, Subscriber, Behaviors

LEMMA WithPrefsType ==
  ASSUME NEW sub \in Subscriber, NEW prefs \in Prefs
  PROVE  WithPrefs(sub, prefs) \in Subscriber
BY StoreAssumption DEF WithPrefs, Prefs, Subscriber

LEMMA RegisteredType ==
  ASSUME StoreTypeOK, NEW c \in Chats, Registered(c)
  PROVE  users[c] \in Subscriber
BY DEF StoreTypeOK, Registered

\* A commit of at least one pick is what Committed says of it.
LEMMA CommitStep ==
  ASSUME NEW c \in Chats, NEW prefs \in Prefs, NEW picks \in SUBSET Pick, picks # {},
         Commit(c, prefs, picks)
  PROVE  Committed(c)
<1>2. PICK q \in picks : q \in Pick
  OBVIOUS
<1> DEFINE RowOf(s) == [chat |-> c, comp |-> s[1], team |-> s[2]]
<1>3. ASSUME NEW s \in picks PROVE RowOf(s) \in Row /\ RowOf(s).chat = c
  BY DEF Pick, Row
<1>4. rows' = rows \cup {RowOf(s) : s \in picks}
  BY DEF Commit
<1>5. RowOf(q) \in rows'
  BY <1>2, <1>4
<1> HIDE DEF RowOf
<1>6. /\ rows \subseteq rows'
      /\ \A r \in rows' \ rows : r \in Row /\ r.chat = c
      /\ \E r \in rows' : r.chat = c
  BY <1>2, <1>3, <1>4, <1>5
<1>7. \E p \in Prefs :
        users' = [users EXCEPT ![c] =
                    WithPrefs(IF Registered(c) THEN users[c] ELSE NewSubscriber, p)]
  BY DEF Commit
<1> QED
  BY <1>6, <1>7 DEF Committed

\* Every step keeps the tables' type.
LEMMA StoreStep ==
  ASSUME StoreTypeOK, StoreNext
  PROVE  StoreTypeOK'
<1> SUFFICES ASSUME NEW c \in Chats, Register(c) \/ Committed(c) \/ Manage(c) \/ Leave(c)
             PROVE  StoreTypeOK'
  BY DEF StoreNext
<1>1. CASE Register(c)
  BY <1>1, NewSubscriberType DEF Register, UpsertSubscriber, StoreTypeOK
<1>2. CASE Committed(c)
  <2>1. PICK prefs \in Prefs :
          users' = [users EXCEPT ![c] =
                      WithPrefs(IF Registered(c) THEN users[c] ELSE NewSubscriber, prefs)]
    BY <1>2 DEF Committed
  <2>2. WithPrefs(IF Registered(c) THEN users[c] ELSE NewSubscriber, prefs) \in Subscriber
    BY RegisteredType, NewSubscriberType, WithPrefsType
  <2> QED
    BY <1>2, <2>1, <2>2 DEF Committed, StoreTypeOK
<1>3. CASE Manage(c)
  <2>1. ASSUME NEW status \in {"active", "paused"}, ChangeStatus(c, status)
        PROVE  StoreTypeOK'
    <3>1. [users[c] EXCEPT !.status = status] \in Subscriber
      BY <2>1, RegisteredType DEF ChangeStatus, Subscriber
    <3> QED
      BY <2>1, <3>1 DEF ChangeStatus, SetStatus, StoreTypeOK
  <2>2. ASSUME NEW prefs \in Prefs, ChangePrefs(c, prefs) PROVE StoreTypeOK'
    <3>1. WithPrefs(users[c], prefs) \in Subscriber
      BY <2>2, RegisteredType, WithPrefsType DEF ChangePrefs
    <3> QED
      BY <2>2, <3>1 DEF ChangePrefs, UpsertSubscriber, StoreTypeOK
  <2>3. ASSUME NEW window \in Windows, ChangeQuiet(c, window) PROVE StoreTypeOK'
    <3>1. [users[c] EXCEPT !.quiet = window] \in Subscriber
      BY <2>3, RegisteredType DEF ChangeQuiet, Subscriber
    <3> QED
      BY <2>3, <3>1 DEF ChangeQuiet, UpsertSubscriber, StoreTypeOK
  <2>4. ASSUME NEW r, Drop(r) PROVE StoreTypeOK'
    BY <2>4 DEF Drop, RemoveSubscriptions, StoreTypeOK
  <2> QED
    BY <1>3, <2>1, <2>2, <2>3, <2>4 DEF Manage
<1>4. CASE Leave(c)
  BY <1>4 DEF Leave, DeleteSubscriber, StoreTypeOK
<1> QED
  BY <1>1, <1>2, <1>3, <1>4

-----------------------------------------------------------------------------
(* The tables *)

\* Every subscription has its subscriber.
NoOrphans == \A r \in rows : Registered(r.chat)

\* The foreign key: whatever the dialogs do, a subscription has its subscriber, with
\* all of a subscriber's fields.
THEOREM StoreKeepsRows == StoreSpec => [](StoreTypeOK /\ NoOrphans)
<1> DEFINE Inv == StoreTypeOK /\ NoOrphans
<1>1. StoreInit => Inv
  BY DEF StoreInit, NoOrphans
<1>2. Inv /\ [StoreNext]_storeVars => Inv'
  <2> SUFFICES ASSUME StoreTypeOK, NoOrphans, [StoreNext]_storeVars PROVE Inv'
    OBVIOUS
  <2>1. StoreTypeOK'
    BY StoreStep DEF storeVars, StoreTypeOK
  <2>2. CASE UNCHANGED storeVars
    BY <2>1, <2>2 DEF storeVars, NoOrphans, Registered
  <2>3. ASSUME NEW c \in Chats, Register(c) PROVE NoOrphans'
    BY <2>3, NewSubscriberType, StoreAssumption
       DEF Register, UpsertSubscriber, NoOrphans, Registered, StoreTypeOK
  <2>4. ASSUME NEW c \in Chats, Committed(c) PROVE NoOrphans'
    <3>1. PICK prefs \in Prefs :
            users' = [users EXCEPT ![c] =
                        WithPrefs(IF Registered(c) THEN users[c] ELSE NewSubscriber, prefs)]
      BY <2>4 DEF Committed
    <3>2. WithPrefs(IF Registered(c) THEN users[c] ELSE NewSubscriber, prefs) \in Subscriber
      BY RegisteredType, NewSubscriberType, WithPrefsType
    <3>3. users'[c] # Absent
      BY <3>1, <3>2, StoreAssumption DEF StoreTypeOK
    <3>4. \A d \in Chats : d # c => users'[d] = users[d]
      BY <3>1 DEF StoreTypeOK
    <3>5. \A r \in rows' : r.chat = c \/ r \in rows
      BY <2>4 DEF Committed
    <3>6. \A r \in rows : r.chat \in Chats
      BY DEF StoreTypeOK, Row
    <3> QED
      BY <3>3, <3>4, <3>5, <3>6 DEF NoOrphans, Registered
  <2>5. ASSUME NEW c \in Chats, NEW sub \in Subscriber, UpsertSubscriber(c, sub)
        PROVE  NoOrphans'
    BY <2>5, StoreAssumption DEF UpsertSubscriber, NoOrphans, Registered, StoreTypeOK
  <2>6. ASSUME NEW c \in Chats, Manage(c) PROVE NoOrphans'
    <3>1. ASSUME NEW status \in {"active", "paused"}, ChangeStatus(c, status)
          PROVE  NoOrphans'
      <4>1. [users[c] EXCEPT !.status = status] \in Subscriber
        BY <3>1, RegisteredType DEF ChangeStatus, Subscriber
      <4> QED
        BY <3>1, <4>1, <2>5 DEF ChangeStatus, SetStatus, UpsertSubscriber
    <3>2. ASSUME NEW prefs \in Prefs, ChangePrefs(c, prefs) PROVE NoOrphans'
      BY <3>2, <2>5, RegisteredType, WithPrefsType DEF ChangePrefs
    <3>3. ASSUME NEW window \in Windows, ChangeQuiet(c, window) PROVE NoOrphans'
      <4>1. [users[c] EXCEPT !.quiet = window] \in Subscriber
        BY <3>3, RegisteredType DEF ChangeQuiet, Subscriber
      <4> QED
        BY <3>3, <4>1, <2>5 DEF ChangeQuiet
    <3>4. ASSUME NEW r, Drop(r) PROVE NoOrphans'
      BY <3>4 DEF Drop, RemoveSubscriptions, NoOrphans, Registered
    <3> QED
      BY <2>6, <3>1, <3>2, <3>3, <3>4 DEF Manage
  <2>7. ASSUME NEW c \in Chats, Leave(c) PROVE NoOrphans'
    BY <2>7 DEF Leave, DeleteSubscriber, NoOrphans, Registered, StoreTypeOK, Row
  <2> QED
    BY <2>1, <2>2, <2>3, <2>4, <2>6, <2>7 DEF StoreNext
<1> QED
  BY <1>1, <1>2, PTL DEF StoreSpec

=============================================================================
