-------------------------- MODULE OnboardingProofs --------------------------
(***************************************************************************)
(* Theorems about Onboarding, for any people, chats, competitions, team    *)
(* lists and preferences.                                                  *)
(***************************************************************************)
EXTENDS Onboarding, BotStoreProofs

\* PicksBelong, of one wizard.
Belong(w) ==
  \A x \in Comps :
    /\ HasSelectionFor(w, x) => x \in Chosen(w)
    /\ ~ (x \in w.all /\ w.teams[x] # {})
    /\ w.teams[x] \subseteq Listed(Roster(w, x))

\* A list in memory is one some provider gave for that competition, or empty.
Provided(w) == \A x \in Comps : w.rosters[x] \in Rosters[x] \cup {<<>>, NotLoaded}

Good(w) == w \in Wizard /\ Belong(w) /\ Provided(w)

Inv ==
  /\ StoreTypeOK
  /\ OnlyRealTeams
  /\ wizard \in [People -> Wizard \cup {NoWizard}]
  /\ \A p \in People : Open(p) => Good(wizard[p])

-----------------------------------------------------------------------------
(* Sequences *)

LEMMA NothingListed == Listed(<<>>) = {}
BY DEF Listed

LEMMA AppendListed ==
  ASSUME NEW S, NEW s \in Seq(S), NEW e \in S
  PROVE  Append(s, e) \in Seq(S) /\ Listed(s) \subseteq Listed(Append(s, e))
<1>1. \A i \in DOMAIN s : i \in DOMAIN Append(s, e) /\ Append(s, e)[i] = s[i]
  OBVIOUS
<1> QED
  BY <1>1 DEF Listed

\* Taking one element out leaves all the others in.
LEMMA WithoutListed ==
  ASSUME NEW S, NEW s \in Seq(S), NEW e \in Listed(s)
  PROVE  Without(s, e) \in Seq(S) /\ Listed(s) \ {e} \subseteq Listed(Without(s, e))
<1> DEFINE at == CHOOSE i \in DOMAIN s : s[i] = e
           n == Len(s) - 1
           rest == [i \in 1..n |-> IF i < at THEN s[i] ELSE s[i + 1]]
<1>1. at \in DOMAIN s /\ s[at] = e
  BY DEF Listed
<1>2. /\ DOMAIN s = 1..Len(s) /\ Len(s) \in Nat
      /\ \A i \in 1..Len(s) : s[i] \in S
  OBVIOUS
<1> HIDE DEF at
<1>3. n \in Nat /\ at \in 1..(n + 1)
  BY <1>1, <1>2
<1>4. \A i \in 1..n : i \in 1..Len(s) /\ i + 1 \in 1..Len(s)
  BY <1>2
<1>5. rest \in Seq(S)
  BY <1>2, <1>3, <1>4
<1>6. ASSUME NEW i \in DOMAIN s, s[i] # e
      PROVE  \E j \in 1..n : rest[j] = s[i]
  <2>1. i # at /\ i \in 1..(n + 1)
    BY <1>1, <1>2, <1>6
  <2>2. CASE i < at
    <3>1. i \in 1..n /\ rest[i] = s[i]
      BY <1>3, <2>1, <2>2
    <3> QED
      BY <3>1
  <2>3. CASE i > at
    <3>1. i - 1 \in 1..n /\ ~ (i - 1 < at) /\ (i - 1) + 1 = i
      BY <1>3, <2>1, <2>3
    <3>2. rest[i - 1] = s[i]
      BY <3>1
    <3> QED
      BY <3>1, <3>2
  <2> QED
    BY <1>3, <2>1, <2>2, <2>3
<1>7. DOMAIN rest = 1..n /\ Without(s, e) = rest
  BY DEF Without, at
<1> HIDE DEF rest
<1>8. Listed(s) \ {e} \subseteq Listed(rest)
  BY <1>6, <1>7 DEF Listed
<1> QED
  BY <1>5, <1>7, <1>8

-----------------------------------------------------------------------------
(* OnboardingState's operations keep a wizard good *)

LEMMA WizardParts ==
  ASSUME NEW w \in Wizard
  PROVE  /\ w.tournaments \in Seq(Comps)
         /\ w.rosters \in [Comps -> Seq(Teams) \cup {NotLoaded}]
         /\ w.teams \in [Comps -> SUBSET Teams]
         /\ w.all \in SUBSET Comps
         /\ w.prefs \in Prefs
         /\ w.step \in Steps
         /\ w.index \in Nat
BY DEF Wizard

\* What of a wizard its goodness depends on.
LEMMA GoodParts ==
  ASSUME NEW w, NEW v, Good(w), v \in Wizard,
         v.tournaments = w.tournaments, v.rosters = w.rosters,
         v.teams = w.teams, v.all = w.all
  PROVE  Good(v)
BY DEF Good, Belong, Provided, HasSelectionFor, Chosen, Roster

LEMMA CurrentChosen ==
  ASSUME NEW w \in Wizard, NEW x \in Current(w)
  PROVE  x \in Comps /\ x \in Chosen(w) /\ Current(w) = {x}
<1>1. w.tournaments \in Seq(Comps)
  BY WizardParts
<1>2. \A i \in DOMAIN w.tournaments : w.tournaments[i] \in Comps
  BY <1>1
<1>3. w.index + 1 \in DOMAIN w.tournaments /\ x = w.tournaments[w.index + 1]
  BY DEF Current
<1> QED
  BY <1>2, <1>3 DEF Current, Chosen, Listed

LEMMA FreshGood == Good(Fresh)
<1>1. Fresh \in Wizard
  <2>1. DefaultPrefs \in Prefs
    BY StoreAssumption DEF DefaultPrefs, Prefs
  <2>2. <<>> \in Seq(Comps)
    OBVIOUS
  <2> QED
    BY <2>1, <2>2 DEF Fresh, Wizard, Steps
<1>2. /\ Fresh.all = {}
      /\ \A x \in Comps : Fresh.teams[x] = {} /\ Fresh.rosters[x] = NotLoaded
  BY DEF Fresh
<1> QED
  BY <1>1, <1>2 DEF Good, Belong, Provided, HasSelectionFor

LEMMA ToggleTournamentGood ==
  ASSUME NEW w, Good(w), NEW x \in Comps
  PROVE  Good(ToggleTournament(w, x))
<1> DEFINE v == ToggleTournament(w, x)
<1>1. w \in Wizard
  BY DEF Good
<1>2. CASE x \in Chosen(w)
  <2>1. v = [w EXCEPT !.tournaments = Without(w.tournaments, x),
                      !.teams = [w.teams EXCEPT ![x] = {}],
                      !.all = w.all \ {x}]
    BY <1>2 DEF ToggleTournament
  <2>2. /\ Without(w.tournaments, x) \in Seq(Comps)
        /\ Chosen(w) \ {x} \subseteq Listed(Without(w.tournaments, x))
    BY <1>1, <1>2, WizardParts, WithoutListed DEF Chosen
  <2>3. [w.teams EXCEPT ![x] = {}] \in [Comps -> SUBSET Teams]
    BY <1>1, WizardParts
  <2>4. v \in Wizard
    BY <1>1, <2>1, <2>2, <2>3, WizardParts DEF Wizard
  <2>5. /\ v.tournaments = Without(w.tournaments, x) /\ v.rosters = w.rosters
        /\ v.teams = [w.teams EXCEPT ![x] = {}] /\ v.all = w.all \ {x}
    BY <1>1, <2>1 DEF Wizard
  <2>6. \A z \in Comps : v.teams[z] = IF z = x THEN {} ELSE w.teams[z]
    BY <1>1, <2>5, WizardParts
  <2> HIDE DEF v
  <2>7. Chosen(w) \ {x} \subseteq Chosen(v)
    BY <2>2, <2>5 DEF Chosen
  <2>8. Belong(v)
    <3> SUFFICES ASSUME NEW z \in Comps
                 PROVE  /\ HasSelectionFor(v, z) => z \in Chosen(v)
                        /\ ~ (z \in v.all /\ v.teams[z] # {})
                        /\ v.teams[z] \subseteq Listed(Roster(v, z))
      BY DEF Belong
    <3>1. Roster(v, z) = Roster(w, z)
      BY <2>5 DEF Roster
    <3> QED
      BY <2>5, <2>6, <2>7, <3>1 DEF Good, Belong, HasSelectionFor
  <2>9. Provided(v)
    BY <2>5 DEF Good, Provided
  <2> QED
    BY <2>4, <2>8, <2>9 DEF Good, v
<1>3. CASE x \notin Chosen(w)
  <2>1. v = [w EXCEPT !.tournaments = Append(w.tournaments, x)]
    BY <1>3 DEF ToggleTournament
  <2>2. /\ Append(w.tournaments, x) \in Seq(Comps)
        /\ Chosen(w) \subseteq Listed(Append(w.tournaments, x))
    BY <1>1, WizardParts, AppendListed DEF Chosen
  <2>3. v \in Wizard
    BY <1>1, <2>1, <2>2, WizardParts DEF Wizard
  <2>4. /\ v.tournaments = Append(w.tournaments, x) /\ v.rosters = w.rosters
        /\ v.teams = w.teams /\ v.all = w.all
    BY <1>1, <2>1 DEF Wizard
  <2> HIDE DEF v
  <2>5. Chosen(w) \subseteq Chosen(v)
    BY <2>2, <2>4 DEF Chosen
  <2>6. Belong(v) /\ Provided(v)
    BY <2>4, <2>5 DEF Good, Belong, Provided, HasSelectionFor, Roster
  <2> QED
    BY <2>3, <2>6 DEF Good, v
<1> QED
  BY <1>2, <1>3

\* A change of one competition's teams or sentinel, in a ticked tournament, to either
\* the sentinel or listed teams.
LEMMA PickGood ==
  ASSUME NEW w, Good(w), NEW x \in Chosen(w), x \in Comps,
         NEW all \in SUBSET Comps, NEW some \in SUBSET Teams,
         all \ {x} = w.all \ {x}, ~ (x \in all /\ some # {}),
         some \subseteq Listed(Roster(w, x))
  PROVE  Good([w EXCEPT !.all = all, !.teams = [w.teams EXCEPT ![x] = some]])
<1> DEFINE v == [w EXCEPT !.all = all, !.teams = [w.teams EXCEPT ![x] = some]]
<1>1. w \in Wizard /\ w.teams \in [Comps -> SUBSET Teams]
  BY WizardParts DEF Good
<1>2. v \in Wizard
  BY <1>1, WizardParts DEF Wizard
<1>3. /\ v.tournaments = w.tournaments /\ v.rosters = w.rosters
      /\ v.teams = [w.teams EXCEPT ![x] = some] /\ v.all = all
  BY <1>1 DEF Wizard
<1>4. \A z \in Comps : v.teams[z] = IF z = x THEN some ELSE w.teams[z]
  BY <1>1, <1>3
<1> HIDE DEF v
<1>5. Belong(v)
  <2> SUFFICES ASSUME NEW z \in Comps
               PROVE  /\ HasSelectionFor(v, z) => z \in Chosen(v)
                      /\ ~ (z \in v.all /\ v.teams[z] # {})
                      /\ v.teams[z] \subseteq Listed(Roster(v, z))
    BY DEF Belong
  <2>1. Roster(v, z) = Roster(w, z) /\ Chosen(v) = Chosen(w)
    BY <1>3 DEF Roster, Chosen
  <2>2. CASE z = x
    BY <1>3, <1>4, <2>1, <2>2
  <2>3. CASE z # x
    <3>1. (z \in v.all <=> z \in w.all) /\ v.teams[z] = w.teams[z]
      BY <1>3, <1>4, <2>3
    <3> QED
      BY <2>1, <3>1 DEF Good, Belong, HasSelectionFor
  <2> QED
    BY <2>2, <2>3
<1>6. Provided(v)
  BY <1>3 DEF Good, Provided
<1> QED
  BY <1>2, <1>5, <1>6 DEF Good, v

LEMMA ToggleAllTeamsGood ==
  ASSUME NEW w, Good(w), NEW x \in Current(w)
  PROVE  Good(ToggleAllTeams(w, x))
<1>1. w \in Wizard
  BY DEF Good
<1>2. x \in Comps /\ x \in Chosen(w)
  BY <1>1, CurrentChosen
<1>3. w.all \in SUBSET Comps /\ w.teams \in [Comps -> SUBSET Teams]
  BY <1>1, WizardParts
<1>4. CASE x \in w.all
  <2>1. w.teams[x] = {}
    BY <1>2, <1>4 DEF Good, Belong
  <2>2. Good([w EXCEPT !.all = w.all \ {x}, !.teams = [w.teams EXCEPT ![x] = {}]])
    BY <1>2, <1>3, PickGood
  <2>3. [w.teams EXCEPT ![x] = {}] = w.teams
    BY <1>2, <1>3, <2>1
  <2>4. [w EXCEPT !.all = w.all \ {x}, !.teams = w.teams] = ToggleAllTeams(w, x)
    BY <1>1, <1>4 DEF ToggleAllTeams, Wizard
  <2> QED
    BY <2>2, <2>3, <2>4
<1>5. CASE x \notin w.all
  <2>1. w.all \cup {x} \in SUBSET Comps
    BY <1>2, <1>3
  <2>2. (w.all \cup {x}) \ {x} = w.all \ {x}
    OBVIOUS
  <2>3. Good([w EXCEPT !.all = w.all \cup {x}, !.teams = [w.teams EXCEPT ![x] = {}]])
    BY <1>2, <2>1, <2>2, PickGood
  <2> QED
    BY <1>5, <2>3 DEF ToggleAllTeams
<1> QED
  BY <1>4, <1>5

LEMMA ToggleTeamGood ==
  ASSUME NEW w, Good(w), NEW x \in Current(w), NEW t \in Listed(Roster(w, x))
  PROVE  Good(ToggleTeam(w, x, t))
<1>1. w \in Wizard
  BY DEF Good
<1>2. x \in Comps /\ x \in Chosen(w)
  BY <1>1, CurrentChosen
<1>3. w.all \in SUBSET Comps /\ w.teams \in [Comps -> SUBSET Teams]
  BY <1>1, WizardParts
<1>4. w.rosters[x] \in Seq(Teams) \cup {NotLoaded}
  BY <1>1, <1>2, WizardParts
<1>5. Roster(w, x) \in Seq(Teams)
  BY <1>4 DEF Roster
<1>6. t \in Teams
  <2>1. \A s \in Seq(Teams) : \A i \in DOMAIN s : s[i] \in Teams
    OBVIOUS
  <2> QED
    BY <1>5, <2>1 DEF Listed
<1> DEFINE some == (w.teams[x] \ {t}) \cup ({t} \ w.teams[x])
<1>7. some \in SUBSET Teams
  BY <1>2, <1>3, <1>6
<1>8. some \subseteq Listed(Roster(w, x))
  BY <1>2 DEF Good, Belong
<1> HIDE DEF some
<1>9. Good([w EXCEPT !.all = w.all \ {x}, !.teams = [w.teams EXCEPT ![x] = some]])
  BY <1>2, <1>3, <1>7, <1>8, PickGood
<1>10. ToggleTeam(w, x, t)
         = [w EXCEPT !.all = w.all \ {x}, !.teams = [w.teams EXCEPT ![x] = some]]
  BY <1>1, <1>3 DEF ToggleTeam, some, Wizard
<1> QED
  BY <1>9, <1>10

LEMMA EnsuredGood ==
  ASSUME NEW w, Good(w), NEW v \in Ensured(w)
  PROVE  Good(v)
<1> DEFINE missing == {x \in Current(w) : w.rosters[x] = NotLoaded}
<1>1. w \in Wizard
  BY DEF Good
<1>2. CASE missing = {}
  BY <1>2 DEF Ensured
<1>3. CASE missing # {}
  <2>1. PICK x \in missing, roster \in {<<>>} \cup UNION {Rosters[y] : y \in missing} :
          v = [w EXCEPT !.rosters = [w.rosters EXCEPT ![x] = roster]]
    <3>1. missing \in SUBSET Current(w)
      OBVIOUS
    <3>2. v \in {[w EXCEPT !.rosters = [w.rosters EXCEPT ![x] = roster]] :
                   x \in missing, roster \in {<<>>} \cup UNION {Rosters[y] : y \in missing}}
      BY <1>3 DEF Ensured
    <3> HIDE DEF missing
    <3> QED
      BY <3>2
  <2>2. x \in Comps /\ missing = {x} /\ w.rosters[x] = NotLoaded
    BY <1>1, CurrentChosen
  <2> HIDE DEF missing
  <2>3. roster \in Rosters[x] \cup {<<>>}
    <3>1. CASE roster \in UNION {Rosters[y] : y \in missing}
      <4>1. PICK y \in missing : roster \in Rosters[y]
        BY <3>1
      <4> QED
        BY <2>2, <4>1
    <3> QED
      BY <3>1
  <2>4. roster \in Seq(Teams)
    <3>1. Rosters[x] \in SUBSET Seq(Teams)
      BY <2>2, OnboardingAssumption
    <3>2. <<>> \in Seq(Teams)
      OBVIOUS
    <3> QED
      BY <2>3, <3>1, <3>2
  <2>5. w.rosters \in [Comps -> Seq(Teams) \cup {NotLoaded}]
    BY <1>1, WizardParts
  <2>6. v \in Wizard
    BY <1>1, <2>1, <2>2, <2>4, <2>5, WizardParts DEF Wizard
  <2>7. /\ v.tournaments = w.tournaments /\ v.teams = w.teams /\ v.all = w.all
        /\ v.rosters = [w.rosters EXCEPT ![x] = roster]
    BY <1>1, <2>1 DEF Wizard
  <2>8. \A z \in Comps : v.rosters[z] = IF z = x THEN roster ELSE w.rosters[z]
    BY <2>5, <2>7
  <2>9. w.teams[x] = {}
    <3>1. Roster(w, x) = <<>>
      BY <2>2 DEF Roster
    <3> QED
      BY <2>2, <3>1, NothingListed DEF Good, Belong
  <2>10. Belong(v)
    <3> SUFFICES ASSUME NEW z \in Comps
                 PROVE  /\ HasSelectionFor(v, z) => z \in Chosen(v)
                        /\ ~ (z \in v.all /\ v.teams[z] # {})
                        /\ v.teams[z] \subseteq Listed(Roster(v, z))
      BY DEF Belong
    <3>1. /\ HasSelectionFor(v, z) <=> HasSelectionFor(w, z)
          /\ Chosen(v) = Chosen(w)
      BY <2>7 DEF HasSelectionFor, Chosen
    <3>2. z # x => Roster(v, z) = Roster(w, z)
      BY <2>8 DEF Roster
    <3> QED
      BY <2>7, <2>9, <3>1, <3>2 DEF Good, Belong
  <2>11. Provided(v)
    BY <2>3, <2>8 DEF Good, Provided
  <2> QED
    BY <2>6, <2>10, <2>11 DEF Good
<1> QED
  BY <1>2, <1>3

-----------------------------------------------------------------------------
(* Steps *)

LEMMA BecomesInv ==
  ASSUME Inv, NEW p \in People, NEW w, Good(w) \/ w = NoWizard, Becomes(p, w)
  PROVE  Inv'
<1>1. wizard' \in [People -> Wizard \cup {NoWizard}]
  BY DEF Inv, Becomes, Good
<1>2. \A q \in People : wizard'[q] = IF q = p THEN w ELSE wizard[q]
  BY DEF Inv, Becomes
<1>3. \A q \in People : wizard'[q] # NoWizard => Good(wizard'[q])
  BY <1>2 DEF Inv, Open
<1>4. StoreTypeOK' /\ OnlyRealTeams'
  BY DEF Inv, Becomes, storeVars, StoreTypeOK, OnlyRealTeams
<1> QED
  BY <1>1, <1>3, <1>4 DEF Inv, Open, Good, Belong, Provided

\* The rows a confirmed wizard adds.
LEMMA PickedReal ==
  ASSUME NEW w, Good(w), NEW q \in Picked(w), NEW c \in Chats
  PROVE  Real([chat |-> c, comp |-> q[1], team |-> q[2]])
<1>1. q \in Pick /\ q[1] \in Comps
  BY DEF Picked, Pick
<1>2. CASE q[2] = AllTeams
  BY <1>2 DEF Real
<1>3. CASE q[2] # AllTeams
  <2>1. q[2] \in w.teams[q[1]]
    BY <1>3 DEF Picked
  <2>2. q[2] \in Listed(Roster(w, q[1]))
    BY <1>1, <2>1 DEF Good, Belong
  <2>3. w.rosters[q[1]] \notin {<<>>, NotLoaded}
    BY <2>2, NothingListed DEF Roster
  <2>4. w.rosters[q[1]] \in Rosters[q[1]] /\ q[2] \in Listed(w.rosters[q[1]])
    BY <1>1, <2>2, <2>3 DEF Good, Provided, Roster
  <2> QED
    BY <2>4 DEF Real
<1> QED
  BY <1>2, <1>3

LEMMA ConfirmStep ==
  ASSUME Inv, NEW p \in People, NEW c \in Chats, Open(p), Confirm(p, c)
  PROVE  Committed(c) /\ OnlyRealTeams'
<1> DEFINE w == wizard[p]
           picks == Picked(w)
<1>1. Good(w) /\ w \in Wizard /\ w.prefs \in Prefs
  BY WizardParts DEF Inv, Good
<1>2. picks \in SUBSET Pick
  BY DEF Picked
<1>3. picks # {}
  <2>1. PICK x \in Chosen(w) : HasSelectionFor(w, x)
    BY DEF Confirm, HasAnySubscription
  <2>2. x \in Comps
    <3>1. w.tournaments \in Seq(Comps)
      BY <1>1, WizardParts
    <3>2. \A i \in DOMAIN w.tournaments : w.tournaments[i] \in Comps
      BY <3>1
    <3> QED
      BY <3>2 DEF Chosen, Listed
  <2>3. CASE x \in w.all
    <3>1. <<x, AllTeams>> \in Pick
      BY <2>2 DEF Pick
    <3>2. <<x, AllTeams>>[1] = x /\ <<x, AllTeams>>[2] = AllTeams
      OBVIOUS
    <3>3. <<x, AllTeams>> \in picks
      BY <2>1, <2>3, <3>1, <3>2 DEF Picked
    <3> QED
      BY <3>3
  <2>4. CASE x \notin w.all
    <3>1. PICK t \in w.teams[x] : TRUE
      BY <2>1, <2>4 DEF HasSelectionFor
    <3>2. t \in Teams
      BY <1>1, <2>2, WizardParts
    <3>3. <<x, t>> \in Pick
      BY <2>2, <3>2 DEF Pick
    <3>4. <<x, t>>[1] = x /\ <<x, t>>[2] = t
      OBVIOUS
    <3>5. <<x, t>> \in picks
      BY <2>1, <2>4, <3>1, <3>3, <3>4 DEF Picked
    <3> QED
      BY <3>5
  <2> QED
    BY <2>3, <2>4
<1>4. Commit(c, w.prefs, picks)
  BY DEF Confirm
<1> HIDE DEF w
<1>5. \A q \in picks : Real([chat |-> c, comp |-> q[1], team |-> q[2]])
  BY <1>1, PickedReal
<1> HIDE DEF picks
<1>6. Committed(c)
  BY <1>1, <1>2, <1>3, <1>4, CommitStep
<1>7. OnlyRealTeams'
  <2>1. rows' = rows \cup {[chat |-> c, comp |-> q[1], team |-> q[2]] : q \in picks}
    BY <1>4 DEF Commit
  <2> QED
    BY <1>5, <2>1 DEF Inv, OnlyRealTeams
<1> QED
  BY <1>6, <1>7

\* A press that only touches the wizard leads to a good one, or closes it.
LEMMA PressStep ==
  ASSUME Inv, NEW p \in People, Open(p),
         \/ PressTournament(p) \/ PressNext(p) \/ PressAllTeams(p) \/ PressTeam(p)
         \/ PressDone(p) \/ PressOption(p) \/ PressReview(p) \/ Cancel(p)
  PROVE  Inv' /\ UNCHANGED storeVars
<1> DEFINE Moved(v) == (Good(v) \/ v = NoWizard) /\ Becomes(p, v)
<1> SUFFICES \E v : Moved(v)
  BY BecomesInv DEF Becomes
<1>1. Good(wizard[p]) /\ wizard[p] \in Wizard
  BY DEF Inv, Good
<1>2. CASE PressTournament(p)
  <2>1. PICK x \in Comps : Becomes(p, ToggleTournament(wizard[p], x))
    BY <1>2 DEF PressTournament
  <2>2. Moved(ToggleTournament(wizard[p], x))
    BY <1>1, <2>1, ToggleTournamentGood
  <2> QED
    BY <2>2
<1>3. CASE PressNext(p)
  <2> DEFINE w == [wizard[p] EXCEPT !.step = "teams", !.index = 0]
  <2>1. Good(w)
    <3>1. w \in Wizard
      BY <1>1, WizardParts DEF Wizard, Steps
    <3>2. /\ w.tournaments = wizard[p].tournaments /\ w.rosters = wizard[p].rosters
          /\ w.teams = wizard[p].teams /\ w.all = wizard[p].all
      BY <1>1 DEF Wizard
    <3> HIDE DEF w
    <3> QED
      BY <1>1, <3>1, <3>2, GoodParts
  <2>2. PICK v \in Ensured(w) : Becomes(p, v)
    BY <1>3 DEF PressNext
  <2> HIDE DEF w
  <2>3. Moved(v)
    BY <2>1, <2>2, EnsuredGood
  <2> QED
    BY <2>3
<1>4. CASE PressAllTeams(p)
  <2>1. PICK x \in Current(wizard[p]) : Becomes(p, ToggleAllTeams(wizard[p], x))
    BY <1>4 DEF PressAllTeams
  <2>2. Moved(ToggleAllTeams(wizard[p], x))
    BY <1>1, <2>1, ToggleAllTeamsGood
  <2> QED
    BY <2>2
<1>5. CASE PressTeam(p)
  <2>1. PICK x \in Current(wizard[p]) : \E t \in Listed(Roster(wizard[p], x)) :
          Becomes(p, ToggleTeam(wizard[p], x, t))
    BY <1>5 DEF PressTeam
  <2>2. PICK t \in Listed(Roster(wizard[p], x)) : Becomes(p, ToggleTeam(wizard[p], x, t))
    BY <2>1
  <2>3. Moved(ToggleTeam(wizard[p], x, t))
    BY <1>1, <2>2, ToggleTeamGood
  <2> QED
    BY <2>3
<1>6. CASE PressDone(p)
  <2> DEFINE w == [wizard[p] EXCEPT !.index = wizard[p].index + 1]
             done == [w EXCEPT !.step = "options"]
  <2>1. Good(w) /\ Good(done)
    <3>1. wizard[p].index + 1 \in Nat
      BY <1>1, WizardParts
    <3>2. w \in Wizard /\ done \in Wizard
      BY <1>1, <3>1, WizardParts DEF Wizard, Steps
    <3>3. /\ w.tournaments = wizard[p].tournaments /\ w.rosters = wizard[p].rosters
          /\ w.teams = wizard[p].teams /\ w.all = wizard[p].all
          /\ done.tournaments = wizard[p].tournaments
          /\ done.rosters = wizard[p].rosters
          /\ done.teams = wizard[p].teams /\ done.all = wizard[p].all
      BY <1>1 DEF Wizard
    <3> HIDE DEF w, done
    <3> QED
      BY <1>1, <3>2, <3>3, GoodParts
  <2>2. Becomes(p, done) \/ \E v \in Ensured(w) : Becomes(p, v)
    BY <1>6 DEF PressDone
  <2> HIDE DEF w, done
  <2>3. CASE Becomes(p, done)
    <3>1. Moved(done)
      BY <2>1, <2>3
    <3> QED
      BY <3>1
  <2>4. ASSUME NEW v \in Ensured(w), Becomes(p, v) PROVE Moved(v)
    BY <2>1, <2>4, EnsuredGood
  <2> QED
    BY <2>2, <2>3, <2>4
<1>7. CASE PressOption(p)
  <2>1. PICK prefs \in AlertPrefs : Becomes(p, [wizard[p] EXCEPT !.prefs = prefs])
    BY <1>7 DEF PressOption
  <2> DEFINE w == [wizard[p] EXCEPT !.prefs = prefs]
  <2>2. Good(w)
    <3>1. w \in Wizard
      BY <1>1, WizardParts, OnboardingAssumption DEF Wizard
    <3>2. /\ w.tournaments = wizard[p].tournaments /\ w.rosters = wizard[p].rosters
          /\ w.teams = wizard[p].teams /\ w.all = wizard[p].all
      BY <1>1 DEF Wizard
    <3> HIDE DEF w
    <3> QED
      BY <1>1, <3>1, <3>2, GoodParts
  <2>3. Moved(w)
    BY <2>1, <2>2
  <2> QED
    BY <2>3
<1>8. CASE PressReview(p)
  <2> DEFINE w == [wizard[p] EXCEPT !.step = "confirm"]
  <2>1. Good(w)
    <3>1. w \in Wizard
      BY <1>1, WizardParts DEF Wizard, Steps
    <3>2. /\ w.tournaments = wizard[p].tournaments /\ w.rosters = wizard[p].rosters
          /\ w.teams = wizard[p].teams /\ w.all = wizard[p].all
      BY <1>1 DEF Wizard
    <3> HIDE DEF w
    <3> QED
      BY <1>1, <3>1, <3>2, GoodParts
  <2>2. Moved(w)
    BY <1>8, <2>1 DEF PressReview
  <2> QED
    BY <2>2
<1>9. CASE Cancel(p)
  BY <1>9 DEF Cancel
<1> QED
  BY <1>2, <1>3, <1>4, <1>5, <1>6, <1>7, <1>8, <1>9

\* Closing or renewing wizards never makes a bad one.
LEMMA WizardsStep ==
  ASSUME Inv,
         \A p \in People : wizard'[p] \in {wizard[p], NoWizard, Fresh},
         DOMAIN wizard' = People, wizard' = [p \in People |-> wizard'[p]]
  PROVE  /\ wizard' \in [People -> Wizard \cup {NoWizard}]
         /\ \A p \in People : wizard'[p] # NoWizard => Good(wizard'[p])
<1>1. \A p \in People : wizard[p] # NoWizard => Good(wizard[p])
  BY DEF Inv, Open
<1>2. \A p \in People : wizard'[p] # NoWizard => Good(wizard'[p])
  BY <1>1, FreshGood
<1> QED
  BY <1>2 DEF Good

LEMMA NextInv ==
  ASSUME Inv, [Next]_vars
  PROVE  Inv' /\ [StoreNext]_storeVars
<1> DEFINE WizardsGood == /\ wizard' \in [People -> Wizard \cup {NoWizard}]
                          /\ \A p \in People : wizard'[p] # NoWizard => Good(wizard'[p])
<1>1. ASSUME StoreTypeOK', OnlyRealTeams', WizardsGood PROVE Inv'
  BY <1>1 DEF Inv, Open, Good, Belong, Provided
<1>2. ASSUME NEW p \in People, Callback(p)
      PROVE  Inv' /\ [StoreNext]_storeVars
  <2>1. ASSUME NEW c \in Chats, Confirm(p, c)
        PROVE  Inv' /\ [StoreNext]_storeVars
    <3>1. Committed(c) /\ OnlyRealTeams'
      BY <1>2, <2>1, ConfirmStep DEF Callback
    <3>2. StoreNext
      BY <3>1 DEF StoreNext
    <3>3. StoreTypeOK'
      BY <3>2, StoreStep DEF Inv
    <3>4. wizard' = [wizard EXCEPT ![p] = NoWizard]
      BY <2>1 DEF Confirm
    <3>5. WizardsGood
      BY <3>4, WizardsStep DEF Inv
    <3> QED
      BY <1>1, <3>1, <3>2, <3>3, <3>5
  <2> QED
    BY <1>2, <2>1, PressStep DEF Callback
<1>3. ASSUME NEW p \in People, Subscribe(p)
      PROVE  Inv' /\ [StoreNext]_storeVars
  BY <1>3, BecomesInv, FreshGood DEF Subscribe, Becomes
<1>4. ASSUME NEW p \in People, NEW c \in Chats, Start(p, c)
      PROVE  Inv' /\ [StoreNext]_storeVars
  <2>1. StoreNext
    BY <1>4 DEF Start, StoreNext
  <2>2. StoreTypeOK'
    BY <2>1, StoreStep DEF Inv
  <2>3. OnlyRealTeams'
    BY <1>4 DEF Start, Register, UpsertSubscriber, Inv, OnlyRealTeams
  <2>4. WizardsGood
    BY <1>4, WizardsStep DEF Start, Inv
  <2> QED
    BY <1>1, <2>1, <2>2, <2>3, <2>4
<1>5. ASSUME NEW c \in Chats, Elsewhere(c)
      PROVE  Inv' /\ [StoreNext]_storeVars
  <2>1. Manage(c) \/ Leave(c)
    BY <1>5, OnboardingAssumption DEF Elsewhere, Manage
  <2>2. StoreNext
    BY <2>1 DEF StoreNext
  <2>3. StoreTypeOK'
    BY <2>2, StoreStep DEF Inv
  <2>4. rows' \subseteq rows
    BY <1>5 DEF Elsewhere, Drop, RemoveSubscriptions, ChangePrefs, UpsertSubscriber,
                Leave, DeleteSubscriber
  <2>5. OnlyRealTeams'
    BY <2>4 DEF Inv, OnlyRealTeams
  <2>6. WizardsGood
    BY <1>5, WizardsStep DEF Elsewhere, Inv
  <2> QED
    BY <1>1, <2>2, <2>3, <2>5, <2>6
<1>6. CASE Restart
  <2>1. WizardsGood
    BY <1>6, WizardsStep DEF Restart, Inv
  <2> QED
    BY <1>1, <1>6, <2>1 DEF Restart, storeVars, Inv, StoreTypeOK, OnlyRealTeams
<1>7. CASE UNCHANGED vars
  <2>1. WizardsGood
    BY <1>7, WizardsStep DEF vars, Inv
  <2> QED
    BY <1>1, <1>7, <2>1 DEF vars, storeVars, Inv, StoreTypeOK, OnlyRealTeams
<1> QED
  BY <1>2, <1>3, <1>4, <1>5, <1>6, <1>7 DEF Next

LEMMA InitInv == Init => Inv
<1> SUFFICES ASSUME Init PROVE Inv
  OBVIOUS
<1>1. StoreTypeOK /\ OnlyRealTeams
  BY OnboardingAssumption DEF Init, StoreTypeOK, OnlyRealTeams
<1> QED
  BY <1>1 DEF Init, Inv, Open

LEMMA Invariance == Spec => []Inv
BY InitInv, NextInv, PTL DEF Spec

-----------------------------------------------------------------------------
(* Theorems *)

\* OnboardingState stays coherent: picks belong to ticked tournaments, and were listed.
THEOREM WizardIsCoherent == Spec => []PicksBelong
<1>1. Inv => PicksBelong
  BY DEF Inv, Good, Belong, PicksBelong
<1> QED
  BY <1>1, Invariance, PTL

\* commit_onboarding writes only teams that some provider lists in that competition.
THEOREM TeamsAreReal == Spec => []OnlyRealTeams
<1>1. Inv => OnlyRealTeams
  BY DEF Inv
<1> QED
  BY <1>1, Invariance, PTL

\* The wizard does to the tables only what BotStore allows.
THEOREM WizardImplementsBotStore == Spec => ImplementsBotStore
<1>1. Init => StoreInit
  BY OnboardingAssumption DEF Init, StoreInit, StoreTypeOK, Registered
<1>2. Inv /\ [Next]_vars => [StoreNext]_storeVars
  BY NextInv
<1> QED
  BY <1>1, <1>2, Invariance, PTL DEF Spec, ImplementsBotStore, StoreSpec

=============================================================================
