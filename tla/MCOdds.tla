-------------------------------- MODULE MCOdds --------------------------------
(***************************************************************************)
(* The instance of Odds for TLC: two users, one of whom follows both       *)
(* matches and the other one of them; odds that make the home side an      *)
(* outsider and odds without a favourite; standings with the recent form   *)
(* and without it, neither of which has the away side of the second match. *)
(***************************************************************************)
EXTENDS Odds, FiniteSetsExt, TLC

CONSTANTS
  MaxCycles,  \* bound on the cycles of one behavior
  u1, u2, m1, m2, reds, blues, greens

MCFollows == [u \in Users |-> IF u = u1 THEN Matches ELSE {m1}]
MCScore == [m \in Matches |-> [home |-> IF m = m1 THEN 2 ELSE 1, away |-> 1]]
MCTeam ==
  [m \in Matches |->
     [side \in {"HOME", "AWAY"} |->
        IF side = "HOME" THEN reds ELSE IF m = m1 THEN blues ELSE greens]]
Priced(home, draw, away) == "HOME" :> home @@ "DRAW" :> draw @@ "AWAY" :> away
HomeOutsider == Priced(600, 400, 150)
NoFavourites == Priced(300, 300, 300)
MCQuotes == {HomeOutsider, NoFavourites}
Standings(redsForm, bluesForm) ==
  reds :> [position |-> 10, form |-> redsForm] @@ blues :> [position |-> 1, form |-> bluesForm]
WithForm ==
  Standings(<<"W", "other", "W", "other", "L", "other", "D">>,
            <<"D", "other", "W", "other", "W", "other", "W">>)
WithoutForm == Standings(<<>>, <<>>)
MCTables == {WithForm, WithoutForm}
MCSignalPriority == <<"odds", "form", "standings">>

\* At most so many cycles; results come for both matches or not at all.
Bounds ==
  /\ MapThenSumSet(LAMBDA d : begun'[d], Days) <= MaxCycles
  /\ pc = "results" => left' = {} \/ Pairs \subseteq left'

MCSpec ==
  /\ Init
  /\ [][Next /\ Bounds]_vars
  /\ WF_vars(Worker /\ Bounds)

=============================================================================
