---------------------------- MODULE MCManagement ----------------------------
(***************************************************************************)
(* An instance of Management for TLC: one chat that may follow two teams   *)
(* of one competition, or all of it, and a team of another.                *)
(***************************************************************************)
EXTENDS Management

CONSTANTS league, cup, arsenal, chelsea

MCRank ==
  [t \in Teams \cup {AllTeams} |->
     CASE t = AllTeams -> 0 [] t = arsenal -> 1 [] t = chelsea -> 2]
MCPicks ==
  {{<<league, AllTeams>>}, {<<league, arsenal>>, <<league, chelsea>>, <<cup, chelsea>>}}
MCPrefs ==
  {[reminders |-> TRUE, upsets |-> FALSE, finals |-> TRUE, leads |-> {}]}
MCStores == {[users |-> [c \in Chats |-> Absent], rows |-> {}]}

=============================================================================
