----------------------------- MODULE MCDelivery -----------------------------
(***************************************************************************)
(* Instances of Delivery for TLC.  The clock is coarse: one unit stands    *)
(* for a stretch of time in which nothing changes for the model.           *)
(***************************************************************************)
EXTENDS Delivery

CONSTANTS a, b, x, y, m, arsenal, chelsea

AllOf(z) == {<<z, AllTeams>>}

MCCompOf == [z \in Matches |-> x]
MCSides == [z \in Matches |-> {arsenal, chelsea}]
MCKickoff == [z \in Matches |-> 2]
MCLeadTime == [z \in Leads |-> 1]

MCQuiet == {{}, {1}}
MCPicks == {AllOf(x)}
MCPrefs ==
  {[reminders |-> TRUE, upsets |-> FALSE, finals |-> TRUE, leads |-> {"1d"}]}

\* For safety: one user, imported from config.yaml, who suppresses in quiet hours.
Imported ==
  [NewSubscriber EXCEPT !.behavior = "suppress", !.finals = TRUE, !.upsets = FALSE]
MCStores ==
  {[users |-> [c \in Chats |-> IF c = a THEN Imported ELSE Absent],
    rows |-> {[chat |-> a, comp |-> x, team |-> AllTeams]}]}

\* For liveness: two users and two competitions, and nobody but a and x can be
\* relied on.
Follower == [NewSubscriber EXCEPT !.upsets = FALSE, !.finals = TRUE]
MCLiveStores ==
  {[users |-> [c \in Chats |-> Follower],
    rows |-> {[chat |-> c, comp |-> x, team |-> AllTeams] : c \in Chats}]}
MCLateKickoff == [z \in Matches |-> 3]
MCLongLead == [z \in Leads |-> 2]

\* User c subscribes to competition z.
TakesUp(c, z) ==
  /\ AllOf(z) \cap {<<r.comp, r.team>> : r \in ListSubscriptions(c)} = {}
  /\ \E prefs \in AlertPrefs : ConfirmOnboarding(c, prefs, AllOf(z))

\* Of the handlers, only a's pause, resume and subscribing to y: at any moment, and so
\* also after a cycle has listed the competitions it fetches.
LiveNext ==
  \/ WorkerStep \/ CycleRaises \/ Crash \/ WorldStep \/ Pause(a) \/ Resume(a)
  \/ TakesUp(a, y) \/ AddPicked
LiveSpec == Init /\ [][LiveNext]_vars /\ Fairness({x}, {a})

\* Nothing that stays due is lost (DueAlertsSettle): the alerts of the reachable chat
\* a from the answering competition x are recorded in the end, even with chat b
\* unreachable and competition y down for good.
OnTime == DueAlertsSettle({x}, {a})

=============================================================================
