---------------------------- MODULE MCOnboarding ----------------------------
(***************************************************************************)
(* An instance of Onboarding for TLC: one person in one chat, two          *)
(* competitions with one team in common.                                   *)
(***************************************************************************)
EXTENDS Onboarding

CONSTANTS league, cup, arsenal, chelsea

MCRosters == [z \in Comps |-> IF z = league THEN {<<arsenal, chelsea>>} ELSE {<<arsenal>>}]
MCPrefs == {DefaultPrefs, [DefaultPrefs EXCEPT !.finals = TRUE]}
MCStores ==
  {[users |-> [c \in Chats |-> Absent], rows |-> {}],
   [users |-> [c \in Chats |-> [NewSubscriber EXCEPT !.status = "paused"]],
    rows |-> {[chat |-> c, comp |-> cup, team |-> arsenal] : c \in Chats}]}

=============================================================================
