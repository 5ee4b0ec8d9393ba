------------------------- MODULE PlayerSlots_proofs -------------------------
(***************************************************************************)
(* The safety properties of PlayerSlotsProps that hold whatever names,     *)
(* rules and slots there are.                                              *)
(***************************************************************************)
EXTENDS PlayerSlotsProps, FiniteSetTheorems, WellFoundedInduction, TLAPS

\* A score a game can end with, and the ratio it gives.
Sound(p) ==
  /\ p.kdr = CalculateKDR(p.score.frags, p.score.deaths)
  /\ p.score.suicides <= p.score.deaths
  /\ p.score.frags >= -p.score.suicides

\* No two players share a row, none has a row not asked for yet.
RowsDistinct ==
  /\ \A s \in Used : players[s].row <= rows
  /\ \A s, t \in Used : players[s].row = players[t].row /\ players[s].row # 0 => s = t

\* Statistics are written for rows that no slot holds any more.
StatsInv ==
  status = "up" =>
    /\ \A r \in 1..MaxRows : stat[r] <= 1 /\ (r > rows => stat[r] = 0)
    /\ \A s \in Used : players[s].row # 0 => stat[players[s].row] = 0

-----------------------------------------------------------------------------
LEMMA SlotsFinite == IsFiniteSet(Slots) /\ 0 \in Slots
BY FS_Interval, SlotsAssumption DEF Slots

LEMMA EmptyType == Empty \in Player /\ Zero \in Score /\ Sound(Empty)
BY DEF Empty, Zero, Player, Score, Ratio, Sound, CalculateKDR, Quotient, Abs

LEMMA PlusType ==
  ASSUME NEW a \in Score, NEW b \in Score PROVE Plus(a, b) \in Score
BY DEF Plus, Score

LEMMA KDRType ==
  ASSUME NEW f \in Int, NEW d \in Nat PROVE CalculateKDR(f, d) \in Ratio
BY DEF CalculateKDR, Quotient, Abs, Ratio

\* What one death does to a score.
LEMMA DeathType ==
  ASSUME NEW sc \in Score
  PROVE  /\ Dies(sc) \in Score /\ Frags(sc) \in Score /\ KillsSelf(sc) \in Score
         /\ Dies(sc).suicides = sc.suicides /\ Dies(sc).deaths = sc.deaths + 1
         /\ Dies(sc).frags = sc.frags
         /\ Frags(sc).suicides = sc.suicides /\ Frags(sc).deaths = sc.deaths
         /\ Frags(sc).frags = sc.frags + 1
         /\ KillsSelf(sc).suicides = sc.suicides + 1
         /\ KillsSelf(sc).deaths = sc.deaths + 1
         /\ KillsSelf(sc).frags = sc.frags - 1
<1>1. sc.frags \in Int /\ sc.deaths \in Nat /\ sc.suicides \in Nat
  BY DEF Score
<1>2. Dies(sc) \in Score
  BY <1>1 DEF Score, Dies
<1>3. Frags(sc) \in Score
  BY <1>1 DEF Score, Frags
<1>4. KillsSelf(sc) \in Score
  BY <1>1 DEF Score, KillsSelf
<1> QED
  BY <1>1, <1>2, <1>3, <1>4 DEF Score, Dies, Frags, KillsSelf

LEMMA ScoredType ==
  ASSUME NEW sc \in Score, NEW s, NEW v, NEW m PROVE Scored(sc, s, v, m) \in Score
<1>1. Dies(sc) \in Score /\ Frags(sc) \in Score /\ KillsSelf(sc) \in Score
  BY DeathType
<1>2. Frags(Dies(sc)) \in Score
  BY <1>1, DeathType
<1> QED
  BY <1>1, <1>2 DEF Scored

\* Any obituary keeps a score one that a game can end with.
LEMMA ScoredSound ==
  ASSUME NEW sc \in Score, NEW s, NEW v, NEW m,
         sc.suicides <= sc.deaths, sc.frags >= -sc.suicides
  PROVE  LET new == Scored(sc, s, v, m) IN
         new.suicides <= new.deaths /\ new.frags >= -new.suicides
<1>1. sc.frags \in Int /\ sc.deaths \in Nat /\ sc.suicides \in Nat
  BY DEF Score
<1>2. Dies(sc) \in Score
  BY DeathType
<1>3. CASE s = v /\ m = None
  BY <1>1, <1>3, DeathType DEF Scored
<1>4. CASE s = v /\ m # None /\ s = m
  <2>1. Scored(sc, s, v, m) = Frags(Dies(sc))
    BY <1>4 DEF Scored
  <2> QED
    BY <1>1, <1>2, <2>1, DeathType
<1>5. CASE s = v /\ m # None /\ s # m
  BY <1>1, <1>5, DeathType DEF Scored
<1>6. CASE s # v /\ s = m
  BY <1>1, <1>6, DeathType DEF Scored
<1>7. CASE s # v /\ s # m
  BY <1>7 DEF Scored
<1> QED
  BY <1>3, <1>4, <1>5, <1>6, <1>7

LEMMA RecordedType ==
  ASSUME TypeOK, NEW s \in Slots, NEW v, NEW m
  PROVE  /\ Recorded(s, v, m) \in Player
         /\ Recorded(s, v, m).used = players[s].used
         /\ Recorded(s, v, m).row = players[s].row
         /\ Sound(players[s]) => Sound(Recorded(s, v, m))
<1>1. players[s] \in Player /\ players[s].score \in Score
  BY DEF TypeOK, Player
<1> DEFINE sc == Scored(players[s].score, s, v, m)
<1>2. sc \in Score
  BY <1>1, ScoredType
<1>3. CalculateKDR(sc.frags, sc.deaths) \in Ratio
  BY <1>2, KDRType DEF Score
<1>4. CASE s \notin {v, m}
  BY <1>1, <1>4 DEF Recorded
<1>5. CASE s \in {v, m}
  <2>1. Recorded(s, v, m)
          = [players[s] EXCEPT !.score = sc, !.kdr = CalculateKDR(sc.frags, sc.deaths)]
    BY <1>5 DEF Recorded
  <2>2. Sound(players[s]) => sc.suicides <= sc.deaths /\ sc.frags >= -sc.suicides
    BY <1>1, ScoredSound DEF Sound
  <2> HIDE DEF sc
  <2> QED
    BY <1>1, <1>2, <1>3, <2>1, <2>2 DEF Player, Sound
<1> QED
  BY <1>4, <1>5

LEMMA NewPlayerType ==
  ASSUME TypeOK, NEW s \in Slots, roster[s] # None, NEW row \in Nat
  PROVE  /\ NewPlayer(s, row) \in Player
         /\ NewPlayer(s, row).used /\ NewPlayer(s, row).row = row
         /\ Sound(NewPlayer(s, row))
<1>1. roster[s] \in Seat
  BY DEF TypeOK
<1> QED
  BY <1>1, EmptyType DEF NewPlayer, Empty, Player, Seat, Sound

LEMMA WritesType ==
  ASSUME TypeOK, NEW r, NEW n PROVE Writes(r, n) \in Nat
BY SlotsFinite, FS_Subset, FS_CardinalityType DEF Writes

\* What an obituary leaves alone.
Keeps(old, new) ==
  new.used = old.used /\ new.row = old.row /\ (Sound(old) => Sound(new))

LEMMA ObituaryType ==
  ASSUME TypeOK, NEW v, NEW m, ParseObituary(v, m)
  PROVE  /\ players' \in [Slots -> Player]
         /\ \A s \in Slots : Keeps(players[s], players'[s])
<1>1. CASE v = None
  BY <1>1 DEF ParseObituary, TypeOK, Keeps
<1>2. CASE v # None
  <2>1. players' = [s \in Slots |-> Recorded(s, v, m)]
    BY <1>2 DEF ParseObituary
  <2> QED
    BY <2>1, RecordedType DEF Keeps
<1> QED
  BY <1>1, <1>2

\* One step of the whole system, named by its action.
StepCases ==
  \/ \E s \in Slots, n \in Names :
       ParsePlayerUpdate(s, n) \/ \E p \in Persons : Enter(s, p, n)
  \/ \E s \in Slots : ParsePlayer(s) /\ (ParseConnect(s) \/ ParsePlayerlist(s))
  \/ \E s \in Slots : ParseDisconnect(s)
  \/ \E v, m \in Slots : Kill(v, m) \/ Suicide(v)
  \/ \E t \in tasks : HostResolved(t) \/ ApplyRules(t) \/ ApplyRulesToOld(t)
  \/ PlayerBeyondSlots \/ Reconnect \/ Shutdown \/ Exit

LEMMA NextIsStepCases == Next => StepCases
BY DEF Next, StepCases, ParseConnect, ParsePlayerlist

LEMMA DeathIsObituary ==
  ASSUME NEW v \in Slots, NEW m \in Slots, Kill(v, m) \/ Suicide(v)
  PROVE  \E x, y : ParseObituary(x, y)
<1>1. CASE Kill(v, m)
  <2>1. ParseObituary(FindPlayerByName(roster[v].name), FindPlayerByName(roster[m].name))
    BY <1>1 DEF Kill
  <2> QED
    BY <2>1
<1>2. CASE Suicide(v)
  <2>1. ParseObituary(FindPlayerByName(roster[v].name), None)
    BY <1>2 DEF Suicide
  <2> QED
    BY <2>1
<1> QED
  BY <1>1, <1>2

-----------------------------------------------------------------------------
\* The types of the variables (PlayerSlots!TypeOK) hold in every reachable state.
THEOREM TypeCorrect == Spec => []TypeOK
<1>1. Init => TypeOK
  <2> SUFFICES ASSUME Init PROVE TypeOK
    OBVIOUS
  <2>1. /\ players \in [Slots -> Player] /\ truth \in [Slots -> Score]
        /\ gone \in [Slots -> Score]
    BY EmptyType DEF Init
  <2>2. rows \in 0..MaxRows /\ obits \in 0..MaxObits
    BY BoundsAssumption DEF Init
  <2>3. /\ stat \in [0..MaxRows -> Nat] /\ roster \in [Slots -> Seat \cup {None}]
        /\ tasks \in SUBSET Task
    BY DEF Init
  <2>4. /\ status \in {"up", "stopping", "down", "badNumber", "emptySlot"}
        /\ count \in Int
    BY DEF Init
  <2>5. unclear \in BOOLEAN
    BY DEF Init
  <2> QED
    BY <2>1, <2>2, <2>3, <2>4, <2>5 DEF TypeOK
<1>2. TypeOK /\ [Next]_vars => TypeOK'
  <2> SUFFICES ASSUME TypeOK, [Next]_vars PROVE TypeOK'
    OBVIOUS
  <2>1. ASSUME NEW s \in Slots, NEW n \in Names, ParsePlayerUpdate(s, n)
        PROVE  TypeOK'
    <3>1. players' \in [Slots -> Player]
      <4>1. [players[s] EXCEPT !.name = n] \in Player
        <5>1. players[s] \in Player
          BY DEF TypeOK
        <5> QED
          BY <5>1 DEF Player
      <4> QED
        BY <2>1, <4>1 DEF ParsePlayerUpdate, TypeOK
    <3>2. roster' \in [Slots -> Seat \cup {None}]
      <4>1. [roster[s] EXCEPT !.name = n] \in Seat
        BY <2>1 DEF ParsePlayerUpdate, TypeOK, Seat
      <4> QED
        BY <2>1, <4>1 DEF ParsePlayerUpdate, TypeOK
    <3> QED
      BY <2>1, <3>1, <3>2 DEF ParsePlayerUpdate, TypeOK, dataVars
  <2>2. ASSUME NEW s \in Slots, NEW p \in Persons, NEW n \in Names, Enter(s, p, n)
        PROVE  TypeOK'
    BY <2>2 DEF Enter, TypeOK, Seat, recordVars, dataVars
  <2>3. ASSUME NEW s \in Slots, ParsePlayer(s), ParseConnect(s) \/ ParsePlayerlist(s)
        PROVE  TypeOK'
    <3>1. players' \in [Slots -> Player]
      BY <2>3, NewPlayerType DEF ParsePlayer, TypeOK
    <3>2. gone' \in [Slots -> Score]
      <4>1. Plus(gone[s], players[s].score) \in Score
        BY PlusType DEF TypeOK, Player
      <4> QED
        BY <2>3, <4>1 DEF ParsePlayer, Given, TypeOK
    <3>3. tasks' \in SUBSET Task
      <4>1. roster[s].person \in Persons
        BY <2>3 DEF ParsePlayer, TypeOK, Seat
      <4> QED
        BY <2>3, <4>1 DEF ParseConnect, ParsePlayerlist, TypeOK, Task
    <3>4. rows' \in 0..MaxRows /\ count' \in Int
      BY <2>3, BoundsAssumption DEF ParsePlayer, TypeOK
    <3> QED
      BY <2>3, <3>1, <3>2, <3>3, <3>4, EmptyType DEF ParsePlayer, TypeOK
  <2>4. ASSUME NEW s \in Slots, ParseDisconnect(s) PROVE TypeOK'
    <3>1. CASE RemovePlayer(s)
      <4>1. players' \in [Slots -> Player] /\ count' \in Int
        BY <3>1, EmptyType DEF RemovePlayer, TypeOK
      <4>2. gone' \in [Slots -> Score]
        <5>1. Plus(gone[s], players[s].score) \in Score
          BY PlusType DEF TypeOK, Player
        <5> QED
          BY <3>1, <5>1 DEF RemovePlayer, Given, TypeOK
      <4>3. stat' \in [0..MaxRows -> Nat]
        BY <3>1 DEF RemovePlayer, WritePlayer, TypeOK
      <4> QED
        BY <2>4, <4>1, <4>2, <4>3 DEF ParseDisconnect, TypeOK
    <3>2. CASE UNCHANGED <<recordVars, stat, gone>>
      BY <2>4, <3>2 DEF ParseDisconnect, TypeOK, recordVars
    <3> QED
      BY <2>4, <3>1, <3>2 DEF ParseDisconnect
  <2>5. ASSUME NEW v \in Slots, NEW m \in Slots, Kill(v, m) \/ Suicide(v)
        PROVE  TypeOK'
    <3>1. players' \in [Slots -> Player]
      <4>1. PICK x, y : ParseObituary(x, y)
        BY <2>5, DeathIsObituary
      <4> QED
        BY <4>1, ObituaryType
    <3>2. truth' \in [Slots -> Score]
      BY <2>5, ScoredType, DeathType DEF Kill, Suicide, Obituary, TypeOK
    <3>3. obits' \in 0..MaxObits
      BY <2>5, BoundsAssumption DEF Kill, Suicide, Obituary, TypeOK
    <3> QED
      BY <2>5, <3>1, <3>2, <3>3 DEF Kill, Suicide, Obituary, TypeOK, dataVars
  <2>6. ASSUME NEW t \in tasks,
               HostResolved(t) \/ ApplyRules(t) \/ ApplyRulesToOld(t)
        PROVE  TypeOK'
    <3>1. t \in Task /\ t.slot \in Slots /\ t.person \in Persons
      BY DEF TypeOK, Task
    <3>2. players' \in [Slots -> Player]
      <4>1. /\ [players[t.slot] EXCEPT !.host = t.person] \in Player
            /\ [players[t.slot] EXCEPT !.muted = TRUE] \in Player
        <5>1. players[t.slot] \in Player
          BY <3>1 DEF TypeOK
        <5> QED
          BY <3>1, <5>1 DEF Player
      <4> QED
        BY <2>6, <3>1, <4>1
           DEF HostResolved, ApplyRules, ApplyRulesToOld, TypeOK, recordVars
    <3>3. tasks' \in SUBSET Task
      <4>1. [t EXCEPT !.stage = "rules"] \in Task
        BY <3>1 DEF Task
      <4> QED
        BY <2>6, <4>1 DEF HostResolved, ApplyRules, ApplyRulesToOld, TypeOK
    <3> QED
      BY <2>6, <3>2, <3>3
         DEF HostResolved, ApplyRules, ApplyRulesToOld, TypeOK,
             recordVars, dataVars, gameVars
  <2>7. CASE Reconnect
    <3>1. gone' \in [Slots -> Score]
      BY <2>7, PlusType DEF Reconnect, TypeOK, Player
    <3>2. tasks' \in SUBSET Task
      BY <2>7 DEF Reconnect, TypeOK, Task
    <3> QED
      BY <2>7, <3>1, <3>2, EmptyType DEF Reconnect, TypeOK, dataVars
  <2>8. CASE Shutdown
    BY <2>8, WritesType DEF Shutdown, TypeOK, recordVars, gameVars
  <2>9. CASE PlayerBeyondSlots \/ Exit \/ UNCHANGED vars
    BY <2>9 DEF PlayerBeyondSlots, Exit, TypeOK, vars, recordVars, dataVars, gameVars
  <2> QED
    BY <2>1, <2>2, <2>3, <2>4, <2>5, <2>6, <2>7, <2>8, <2>9, NextIsStepCases DEF StepCases
<1> QED
  BY <1>1, <1>2, PTL DEF Spec

\* Scores and ratios are consistent (PlayerSlotsProps!ScoreConsistent) after any
\* obituaries, whomever their names are taken for.
THEOREM ScoreConsistentCorrect == Spec => []ScoreConsistent
<1> DEFINE AllSound == \A s \in Slots : Sound(players[s])
<1>1. Init => AllSound
  BY EmptyType DEF Init
<1>2. TypeOK /\ AllSound /\ [Next]_vars => AllSound'
  <2> SUFFICES ASSUME TypeOK, AllSound, [Next]_vars, NEW q \in Slots
               PROVE  Sound(players'[q])
    BY DEF Sound
  <2> USE DEF recordVars
  <2>1. ASSUME NEW s \in Slots, NEW n \in Names,
               ParsePlayerUpdate(s, n) \/ \E p \in Persons : Enter(s, p, n)
        PROVE  Sound(players'[q])
    <3>1. players[s] \in Player
      BY DEF TypeOK
    <3>2. Sound([players[s] EXCEPT !.name = n])
      BY <3>1 DEF Player, Sound
    <3> QED
      BY <2>1, <3>2 DEF ParsePlayerUpdate, Enter, TypeOK
  <2>2. ASSUME NEW s \in Slots, ParsePlayer(s) PROVE Sound(players'[q])
    BY <2>2, NewPlayerType DEF ParsePlayer, TypeOK
  <2>3. ASSUME NEW s \in Slots, ParseDisconnect(s) PROVE Sound(players'[q])
    BY <2>3, EmptyType DEF ParseDisconnect, RemovePlayer, TypeOK
  <2>4. ASSUME NEW v \in Slots, NEW m \in Slots, Kill(v, m) \/ Suicide(v)
        PROVE  Sound(players'[q])
    <3>1. PICK x, y : ParseObituary(x, y)
      BY <2>4, DeathIsObituary
    <3>2. Keeps(players[q], players'[q])
      BY <3>1, ObituaryType
    <3> QED
      BY <3>2 DEF Keeps
  <2>5. ASSUME NEW t \in tasks,
               HostResolved(t) \/ ApplyRules(t) \/ ApplyRulesToOld(t)
        PROVE  Sound(players'[q])
    <3>1. t.slot \in Slots /\ players[t.slot] \in Player
      BY DEF TypeOK, Task
    <3>2. /\ Sound([players[t.slot] EXCEPT !.host = t.person])
          /\ Sound([players[t.slot] EXCEPT !.muted = TRUE])
      BY <3>1 DEF Player, Sound
    <3> QED
      BY <2>5, <3>1, <3>2 DEF HostResolved, ApplyRules, ApplyRulesToOld, TypeOK
  <2>6. CASE Reconnect
    BY <2>6, EmptyType DEF Reconnect
  <2>7. CASE PlayerBeyondSlots \/ Shutdown \/ Exit \/ UNCHANGED vars
    BY <2>7 DEF PlayerBeyondSlots, Shutdown, Exit, vars
  <2> QED
    BY <2>1, <2>2, <2>3, <2>4, <2>5, <2>6, <2>7, NextIsStepCases DEF StepCases
<1>3. AllSound => ScoreConsistent
  BY DEF ScoreConsistent, Sound
<1> QED
  BY <1>1, <1>2, <1>3, TypeCorrect, PTL DEF Spec

-----------------------------------------------------------------------------
\* Which slots are in use changes in three ways only.
UsedStays == Used' = Used /\ count' = count /\ rows' = rows

LEMMA UsedSteps ==
  ASSUME TypeOK, [Next]_vars
  PROVE  \/ /\ UsedStays /\ \A s \in Slots : players'[s].row = players[s].row
            /\ stat' = stat \/ status' # "up"
            /\ status' = "up" => status = "up"
         \/ \E s \in Slots : ParsePlayer(s)
         \/ \E s \in Slots : ParseDisconnect(s) /\ RemovePlayer(s)
         \/ Reconnect
<1> USE DEF recordVars, dataVars, gameVars, UsedStays, Used
<1>1. ASSUME NEW s \in Slots, NEW n \in Names,
             ParsePlayerUpdate(s, n) \/ \E p \in Persons : Enter(s, p, n)
      PROVE  UsedStays /\ (\A q \in Slots : players'[q].row = players[q].row)
             /\ stat' = stat /\ status' = status
  <2>1. players[s] \in Player
    BY DEF TypeOK
  <2>2. /\ [players[s] EXCEPT !.name = n].used = players[s].used
        /\ [players[s] EXCEPT !.name = n].row = players[s].row
    BY <2>1 DEF Player
  <2> QED
    BY <1>1, <2>2 DEF ParsePlayerUpdate, Enter, TypeOK
<1>2. ASSUME NEW s \in Slots, ParseDisconnect(s), ~RemovePlayer(s)
      PROVE  UsedStays /\ players' = players /\ stat' = stat /\ status' = status
  BY <1>2 DEF ParseDisconnect
<1>3. ASSUME NEW v \in Slots, NEW m \in Slots, Kill(v, m) \/ Suicide(v)
      PROVE  UsedStays /\ (\A q \in Slots : players'[q].row = players[q].row)
             /\ stat' = stat /\ status' = status
  <2>1. PICK x, y : ParseObituary(x, y)
    BY <1>3, DeathIsObituary
  <2>2. \A q \in Slots : Keeps(players[q], players'[q])
    BY <2>1, ObituaryType
  <2> QED
    BY <1>3, <2>2 DEF Kill, Suicide, Obituary, Keeps
<1>4. ASSUME NEW t \in tasks, HostResolved(t) \/ ApplyRules(t) \/ ApplyRulesToOld(t)
      PROVE  /\ UsedStays /\ (\A q \in Slots : players'[q].row = players[q].row)
             /\ stat' = stat /\ (status' = "up" => status = "up")
  <2>1. t.slot \in Slots /\ players[t.slot] \in Player
    BY DEF TypeOK, Task
  <2>2. /\ [players[t.slot] EXCEPT !.host = t.person].used = players[t.slot].used
        /\ [players[t.slot] EXCEPT !.host = t.person].row = players[t.slot].row
        /\ [players[t.slot] EXCEPT !.muted = TRUE].used = players[t.slot].used
        /\ [players[t.slot] EXCEPT !.muted = TRUE].row = players[t.slot].row
    BY <2>1 DEF Player
  <2> QED
    BY <1>4, <2>1, <2>2 DEF HostResolved, ApplyRules, ApplyRulesToOld, TypeOK
<1>5. CASE PlayerBeyondSlots \/ Exit \/ Shutdown \/ UNCHANGED vars
  BY <1>5 DEF PlayerBeyondSlots, Exit, Shutdown, vars
<1> QED
  BY <1>1, <1>2, <1>3, <1>4, <1>5, NextIsStepCases DEF StepCases

\* The counter covers the slots in use (PlayerSlotsProps!CountCoversSlots).
THEOREM CountCoversSlotsCorrect == Spec => []CountCoversSlots
<1>1. Init => CountCoversSlots
  <2> SUFFICES ASSUME Init PROVE CountCoversSlots
    OBVIOUS
  <2>1. Used = {}
    BY DEF Init, Used, Empty
  <2> QED
    BY <2>1, FS_EmptySet DEF Init, CountCoversSlots
<1>2. TypeOK /\ CountCoversSlots /\ [Next]_vars => CountCoversSlots'
  <2> SUFFICES ASSUME TypeOK, CountCoversSlots, [Next]_vars PROVE CountCoversSlots'
    OBVIOUS
  <2>1. IsFiniteSet(Used) /\ Cardinality(Used) \in Nat
    BY SlotsFinite, FS_Subset, FS_CardinalityType DEF Used
  <2>2. count \in Int
    BY DEF TypeOK
  <2>3. CASE UsedStays
    BY <2>3 DEF UsedStays, CountCoversSlots
  <2>4. ASSUME NEW s \in Slots, ParsePlayer(s) PROVE CountCoversSlots'
    <3>1. Used' = Used \cup {s} /\ count' = count + 1
      BY <2>4, NewPlayerType DEF ParsePlayer, TypeOK, Used
    <3>2. Cardinality(Used') <= Cardinality(Used) + 1
      BY <2>1, <3>1, FS_AddElement
    <3>3. Cardinality(Used') \in Nat
      BY <2>1, <3>1, FS_AddElement, FS_CardinalityType
    <3> QED
      BY <2>1, <2>2, <3>1, <3>2, <3>3 DEF CountCoversSlots
  <2>5. ASSUME NEW s \in Slots, RemovePlayer(s) PROVE CountCoversSlots'
    <3>1. s \in Used /\ Used' = Used \ {s} /\ count' = count - 1
      BY <2>5 DEF RemovePlayer, TypeOK, Used, Empty
    <3>2. Cardinality(Used') = Cardinality(Used) - 1
      BY <2>1, <3>1, FS_RemoveElement
    <3> QED
      BY <2>1, <2>2, <3>1, <3>2 DEF CountCoversSlots
  <2>6. CASE Reconnect
    <3>1. Used' = {} /\ count' = count
      BY <2>6 DEF Reconnect, Used, Empty
    <3> QED
      BY <2>1, <2>2, <3>1, FS_EmptySet DEF CountCoversSlots
  <2> QED
    BY <2>3, <2>4, <2>5, <2>6, UsedSteps
<1> QED
  BY <1>1, <1>2, TypeCorrect, PTL DEF Spec

\* Until Shutdown statistics are written once, after the player has left
\* (PlayerSlotsProps!StatsOnce).
THEOREM StatsOnceCorrect == Spec => []StatsOnce
<1> DEFINE RowsInv == RowsDistinct /\ StatsInv
<1>1. Init => RowsInv
  <2> SUFFICES ASSUME Init PROVE RowsInv
    OBVIOUS
  <2>1. Used = {}
    BY DEF Init, Used, Empty
  <2> QED
    BY <2>1, BoundsAssumption DEF Init, RowsDistinct, StatsInv
<1>2. TypeOK /\ RowsInv /\ [Next]_vars => RowsInv'
  <2> SUFFICES ASSUME TypeOK, RowsInv, [Next]_vars PROVE RowsInv'
    OBVIOUS
  <2>0. /\ rows \in Nat /\ stat \in [0..MaxRows -> Nat] /\ MaxRows \in Nat
        /\ \A s \in Slots : players[s].row \in Nat /\ players[s].used \in BOOLEAN
    BY BoundsAssumption DEF TypeOK, Player
  <2>1. ASSUME UsedStays, \A s \in Slots : players'[s].row = players[s].row,
               stat' = stat \/ status' # "up", status' = "up" => status = "up"
        PROVE  RowsInv'
    BY <2>0, <2>1 DEF UsedStays, RowsDistinct, StatsInv, Used
  <2>2. ASSUME NEW s \in Slots, ParsePlayer(s) PROVE RowsInv'
    <3>1. PICK row \in {0, rows + 1} : players' = [players EXCEPT ![s] = NewPlayer(s, row)]
      BY <2>2 DEF ParsePlayer
    <3>2. /\ rows' = rows + 1 /\ rows < MaxRows /\ stat' = stat /\ status' = status
          /\ roster[s] # None /\ row \in Nat
      BY <2>0, <2>2, <3>1 DEF ParsePlayer
    <3>3. players'[s].row = row /\ players'[s].used
      BY <3>1, <3>2, NewPlayerType DEF TypeOK
    <3>4. \A q \in Slots : q # s => players'[q] = players[q]
      BY <3>1 DEF TypeOK
    <3>5. RowsDistinct'
      BY <2>0, <3>1, <3>2, <3>3, <3>4 DEF RowsDistinct, Used
    <3>6. StatsInv'
      BY <2>0, <3>1, <3>2, <3>3, <3>4 DEF StatsInv, Used
    <3> QED
      BY <3>5, <3>6
  <2>3. ASSUME NEW s \in Slots, ParseDisconnect(s), RemovePlayer(s) PROVE RowsInv'
    <3>1. /\ players[s].used /\ rows' = rows /\ status' = status
          /\ players' = [players EXCEPT ![s] = Empty]
          /\ stat' = stat \/ stat' = [stat EXCEPT ![players[s].row] = @ + 1]
      BY <2>3 DEF ParseDisconnect, RemovePlayer, WritePlayer
    <3>2. ~players'[s].used /\ \A q \in Slots : q # s => players'[q] = players[q]
      BY <3>1 DEF TypeOK, Empty
    <3>3. RowsDistinct'
      BY <3>1, <3>2 DEF RowsDistinct, Used
    <3>4. StatsInv'
      <4> SUFFICES ASSUME status = "up" PROVE StatsInv'
        BY <3>1 DEF StatsInv
      <4>1. s \in Used /\ s \in Slots
        BY <3>1 DEF Used
      <4> DEFINE old == players[s].row
      <4>2. old \in Nat /\ old <= rows
        BY <2>0, <4>1 DEF RowsDistinct
      <4>3. old # 0 => stat[old] = 0
        BY <4>1 DEF StatsInv
      <4>4. \A r \in 1..MaxRows : stat'[r] = stat[r] \/ (r = old /\ stat'[r] = stat[r] + 1)
        BY <2>0, <3>1
      <4>5. \A r \in 1..MaxRows : stat'[r] <= 1 /\ (r > rows' => stat'[r] = 0)
        <5> SUFFICES ASSUME NEW r \in 1..MaxRows
                     PROVE  stat'[r] <= 1 /\ (r > rows' => stat'[r] = 0)
          OBVIOUS
        <5>1. stat[r] \in Nat /\ stat[r] <= 1 /\ (r > rows => stat[r] = 0)
          BY <2>0 DEF StatsInv
        <5>2. CASE stat'[r] = stat[r]
          BY <3>1, <5>1, <5>2
        <5>3. CASE r = old /\ stat'[r] = stat[r] + 1
          BY <2>0, <3>1, <4>2, <4>3, <5>3
        <5> QED
          BY <4>4, <5>2, <5>3
      <4>6. ASSUME NEW q \in Used', players'[q].row # 0 PROVE stat'[players'[q].row] = 0
        <5>1. q # s /\ q \in Used /\ players'[q] = players[q]
          BY <3>2, <4>6 DEF Used
        <5>2. players[q].row # old /\ stat[players[q].row] = 0
          BY <4>1, <4>6, <5>1 DEF RowsDistinct, StatsInv
        <5>3. players[q].row \in 0..MaxRows
          BY <2>0, <5>1 DEF RowsDistinct, Used, TypeOK
        <5> QED
          BY <2>0, <3>1, <5>1, <5>2, <5>3
      <4> HIDE DEF old
      <4> QED
        BY <4>5, <4>6 DEF StatsInv
    <3> QED
      BY <3>3, <3>4
  <2>4. CASE Reconnect
    <3>1. Used' = {} /\ rows' = rows /\ stat' = stat /\ status' = status
      BY <2>4 DEF Reconnect, Used, Empty, dataVars
    <3> QED
      BY <3>1 DEF RowsDistinct, StatsInv
  <2> QED
    BY <2>1, <2>2, <2>3, <2>4, UsedSteps
<1>3. TypeOK /\ RowsInv => StatsOnce
  BY BoundsAssumption DEF TypeOK, RowsDistinct, StatsInv, StatsOnce, Used
<1> QED
  BY <1>1, <1>2, <1>3, TypeCorrect, PTL DEF Spec

-----------------------------------------------------------------------------
(* The backend's scores are the game's.                                    *)

\* A slot in use is that of somebody who plays, under the name they have; the
\* others have no name.
NamesInv ==
  \A s \in Slots :
    /\ players[s].used => roster[s] # None /\ players[s].name = roster[s].name
    /\ ~players[s].used => players[s].name = None

\* What a step that is about something else leaves of a record.
SameScore(old, new) ==
  new.used = old.used /\ new.name = old.name /\ new.score = old.score

\* Such a step.
LEMMA ScoresStand ==
  ASSUME NamesInv, ScoresAgree, roster' = roster, truth' = truth, unclear' = unclear,
         \A s \in Slots : SameScore(players[s], players'[s])
  PROVE  NamesInv' /\ ScoresAgree'
BY DEF NamesInv, ScoresAgree, SameScore, Used

\* An obituary finds whom it is about, when all are announced and no two share
\* a name (player.go:87-97).
LEMMA FoundIsTheOne ==
  ASSUME TypeOK, NamesInv, NamesClear, NEW v \in Slots, roster[v] # None
  PROVE  FindPlayerByName(roster[v].name) = v
<1> DEFINE n == roster[v].name
           holders == {s \in Slots : players[s].name = n}
<1>1. n \in Names /\ n # None
  BY NoneAssumption DEF TypeOK, Seat
<1>2. players[v].name = n
  BY DEF NamesInv, NamesClear, Used
<1>3. ASSUME NEW s \in Slots, players[s].name = n PROVE s = v
  <2>1. players[s].used /\ roster[s] # None /\ roster[s].name = n
    BY <1>1, <1>3 DEF NamesInv
  <2> QED
    BY <2>1 DEF NamesClear
<1>4. holders = {v}
  BY <1>2, <1>3
<1>5. v <= v
  BY SlotsAssumption DEF Slots
<1> QED
  BY <1>4, <1>5 DEF FindPlayerByName

LEMMA RecordedScore ==
  ASSUME TypeOK, NEW s \in Slots, NEW v, NEW m
  PROVE  /\ Recorded(s, v, m).used = players[s].used
         /\ Recorded(s, v, m).name = players[s].name
         /\ Recorded(s, v, m).score = Scored(players[s].score, s, v, m)
<1> DEFINE sc == Scored(players[s].score, s, v, m)
<1>1. players[s] \in Player
  BY DEF TypeOK
<1>2. CASE s \notin {v, m}
  <2>1. sc = players[s].score
    BY <1>2 DEF Scored
  <2> QED
    BY <1>2, <2>1 DEF Recorded
<1>3. CASE s \in {v, m}
  <2> DEFINE p == players[s]
             k == CalculateKDR(sc.frags, sc.deaths)
  <2>1. Recorded(s, v, m) = [p EXCEPT !.score = sc, !.kdr = k]
    BY <1>3 DEF Recorded
  <2>2. p \in Player
    BY <1>1
  <2> HIDE DEF p, k, sc
  <2>3. /\ [p EXCEPT !.score = sc, !.kdr = k].used = p.used
        /\ [p EXCEPT !.score = sc, !.kdr = k].name = p.name
        /\ [p EXCEPT !.score = sc, !.kdr = k].score = sc
    BY <2>2 DEF Player
  <2> QED
    BY <2>1, <2>3 DEF p, sc
<1> QED
  BY <1>2, <1>3

\* A death counts in the records as it does in the game.
LEMMA DeathAgrees ==
  ASSUME TypeOK, NamesInv, ScoresAgree, NEW v \in Slots, NEW m \in Slots \cup {None},
         ParseObituary(v, m), roster' = roster, ~unclear,
         \A s \in Slots : truth'[s] = Scored(truth[s], s, v, m)
  PROVE  NamesInv' /\ ScoresAgree'
<1>1. v # None
  BY NoneAssumption
<1>2. players' = [s \in Slots |-> Recorded(s, v, m)]
  BY <1>1 DEF ParseObituary
<1>3. \A s \in Slots : /\ players'[s].used = players[s].used
                       /\ players'[s].name = players[s].name
                       /\ players'[s].score = Scored(players[s].score, s, v, m)
  BY <1>2, RecordedScore
<1>4. NamesInv'
  BY <1>3 DEF NamesInv
<1>5. ASSUME NEW s \in Slots, players'[s].used, roster[s] # None
      PROVE  players'[s].score = truth'[s]
  <2>1. players[s].score = truth[s]
    BY <1>3, <1>5 DEF ScoresAgree, Used
  <2> QED
    BY <1>3, <2>1
<1>6. ScoresAgree'
  BY <1>5 DEF ScoresAgree, Used
<1> QED
  BY <1>4, <1>6

\* Any other death leaves the names.
LEMMA DeathKeepsNames ==
  ASSUME TypeOK, NamesInv, NEW v, NEW m, ParseObituary(v, m), roster' = roster
  PROVE  NamesInv'
<1>1. CASE v = None
  BY <1>1 DEF ParseObituary, NamesInv
<1>2. CASE v # None
  <2>1. players' = [s \in Slots |-> Recorded(s, v, m)]
    BY <1>2 DEF ParseObituary
  <2>2. \A s \in Slots : players'[s].used = players[s].used /\ players'[s].name = players[s].name
    BY <2>1, RecordedScore
  <2> QED
    BY <2>2 DEF NamesInv
<1> QED
  BY <1>1, <1>2

\* While obituaries come when every player is announced and has a name of their
\* own, the scores are the game's (PlayerSlotsProps!ScoresAgree; parse.go:318-359).
THEOREM ScoresAgreeCorrect == Spec => []ScoresAgree
<1> DEFINE AgreeInv == NamesInv /\ ScoresAgree
<1>1. Init => AgreeInv
  BY DEF Init, Empty, NamesInv, ScoresAgree, Used
<1>2. TypeOK /\ AgreeInv /\ [Next]_vars => AgreeInv'
  <2> SUFFICES ASSUME TypeOK, NamesInv, ScoresAgree, [Next]_vars
               PROVE  NamesInv' /\ ScoresAgree'
    OBVIOUS
  <2> USE DEF recordVars, dataVars, gameVars
  <2>1. ASSUME NEW s \in Slots, NEW n \in Names, ParsePlayerUpdate(s, n)
        PROVE  NamesInv' /\ ScoresAgree'
    <3>1. /\ roster' = [roster EXCEPT ![s].name = n] /\ roster[s] # None
          /\ truth' = truth /\ unclear' = unclear
          /\ players' = IF players[s].used THEN [players EXCEPT ![s].name = n] ELSE players
      BY <2>1 DEF ParsePlayerUpdate
    <3>2. roster'[s] # None /\ roster'[s].name = n
      <4>1. roster[s] \in Seat
        BY <3>1 DEF TypeOK
      <4>2. [roster[s] EXCEPT !.name = n] \in Seat /\ [roster[s] EXCEPT !.name = n].name = n
        BY <4>1 DEF Seat
      <4>3. roster'[s] = [roster[s] EXCEPT !.name = n]
        BY <3>1 DEF TypeOK
      <4> QED
        BY <4>2, <4>3, NoneAssumption
    <3>3. \A q \in Slots \ {s} : roster'[q] = roster[q] /\ players'[q] = players[q]
      BY <3>1 DEF TypeOK
    <3>4. /\ players'[s].used = players[s].used /\ players'[s].score = players[s].score
          /\ players'[s].name = IF players[s].used THEN n ELSE players[s].name
      <4>1. players[s] \in Player
        BY DEF TypeOK
      <4>2. CASE players[s].used
        <5>1. players'[s] = [players[s] EXCEPT !.name = n]
          BY <3>1, <4>2 DEF TypeOK
        <5> QED
          BY <4>1, <4>2, <5>1 DEF Player
      <4>3. CASE ~players[s].used
        BY <3>1, <4>3
      <4> QED
        BY <4>2, <4>3
    <3>5. NamesInv'
      BY <3>2, <3>3, <3>4 DEF NamesInv
    <3>6. ASSUME ~unclear, NEW q \in Slots, players'[q].used
          PROVE  players'[q].score = truth'[q]
      <4>1. players[q].used /\ roster[q] # None
        BY <3>3, <3>4, <3>6 DEF NamesInv
      <4> QED
        BY <3>1, <3>3, <3>4, <3>6, <4>1 DEF ScoresAgree, Used
    <3> QED
      BY <3>1, <3>5, <3>6 DEF ScoresAgree, Used
  <2>2. ASSUME NEW s \in Slots, NEW n \in Names, NEW p \in Persons, Enter(s, p, n)
        PROVE  NamesInv' /\ ScoresAgree'
    <3>1. /\ roster[s] = None /\ players' = players /\ truth' = truth /\ unclear' = unclear
          /\ \A q \in Slots \ {s} : roster'[q] = roster[q]
      BY <2>2 DEF Enter, TypeOK
    <3>2. ~players[s].used
      BY <3>1 DEF NamesInv
    <3> QED
      BY <3>1, <3>2 DEF NamesInv, ScoresAgree, Used
  <2>3. ASSUME NEW s \in Slots, ParsePlayer(s)
        PROVE  NamesInv' /\ ScoresAgree'
    <3>1. /\ roster' = roster /\ roster[s] # None /\ unclear' = unclear
          /\ truth' = [truth EXCEPT ![s] = Zero]
      BY <2>3 DEF ParsePlayer
    <3>2. PICK row : players' = [players EXCEPT ![s] = NewPlayer(s, row)]
      BY <2>3 DEF ParsePlayer
    <3>3. /\ players'[s] = NewPlayer(s, row) /\ truth'[s] = Zero
          /\ \A q \in Slots \ {s} : players'[q] = players[q] /\ truth'[q] = truth[q]
      BY <3>1, <3>2 DEF TypeOK
    <3>4. /\ NewPlayer(s, row).name = roster[s].name /\ NewPlayer(s, row).score = Zero
          /\ NewPlayer(s, row).used
      BY DEF NewPlayer, Empty
    <3> QED
      BY <3>1, <3>3, <3>4 DEF NamesInv, ScoresAgree, Used
  <2>4. ASSUME NEW s \in Slots, ParseDisconnect(s)
        PROVE  NamesInv' /\ ScoresAgree'
    <3>1. /\ \A q \in Slots \ {s} : roster'[q] = roster[q]
          /\ truth' = truth /\ unclear' = unclear
      BY <2>4 DEF ParseDisconnect, TypeOK
    <3>2. \/ players' = [players EXCEPT ![s] = Empty]
          \/ players' = players /\ ~players[s].used
      BY <2>4 DEF ParseDisconnect, RemovePlayer
    <3>3. /\ \A q \in Slots \ {s} : players'[q] = players[q]
          /\ ~players'[s].used /\ players'[s].name = None
      BY <3>2 DEF TypeOK, Empty, NamesInv
    <3> QED
      BY <3>1, <3>3 DEF NamesInv, ScoresAgree, Used
  <2>5. ASSUME NEW v \in Slots, NEW m \in Slots, Kill(v, m)
        PROVE  NamesInv' /\ ScoresAgree'
    <3> DEFINE fv == FindPlayerByName(roster[v].name)
               fm == FindPlayerByName(roster[m].name)
    <3>1. /\ v # m /\ roster[v] # None /\ roster[m] # None /\ ParseObituary(fv, fm)
          /\ truth' = [s \in Slots |-> Scored(truth[s], s, v, m)]
          /\ roster' = roster /\ unclear' = (unclear \/ ~NamesClear)
      BY <2>5 DEF Kill, Obituary
    <3> HIDE DEF fv, fm
    <3>2. CASE unclear'
      <4>1. NamesInv'
        BY <3>1, DeathKeepsNames
      <4> QED
        BY <3>2, <4>1 DEF ScoresAgree
    <3>3. CASE ~unclear'
      <4>1. fv = v /\ fm = m
        BY <3>1, <3>3, FoundIsTheOne DEF fv, fm
      <4>2. ParseObituary(v, m) /\ \A s \in Slots : truth'[s] = Scored(truth[s], s, v, m)
        BY <3>1, <4>1
      <4> QED
        BY <3>1, <3>3, <4>2, DeathAgrees
    <3> QED
      BY <3>2, <3>3
  <2>6. ASSUME NEW v \in Slots, Suicide(v)
        PROVE  NamesInv' /\ ScoresAgree'
    <3> DEFINE fv == FindPlayerByName(roster[v].name)
    <3>1. /\ roster[v] # None /\ ParseObituary(fv, None)
          /\ truth' = [truth EXCEPT ![v] = KillsSelf(@)]
          /\ roster' = roster /\ unclear' = (unclear \/ ~NamesClear)
      BY <2>6 DEF Suicide, Obituary
    <3> HIDE DEF fv
    <3>2. CASE unclear'
      <4>1. NamesInv'
        BY <3>1, DeathKeepsNames
      <4> QED
        BY <3>2, <4>1 DEF ScoresAgree
    <3>3. CASE ~unclear'
      <4>1. fv = v
        BY <3>1, <3>3, FoundIsTheOne DEF fv
      <4>2. \A s \in Slots : truth'[s] = Scored(truth[s], s, v, None)
        BY <3>1, NoneAssumption DEF TypeOK, Scored
      <4> QED
        BY <3>1, <3>3, <4>1, <4>2, DeathAgrees
    <3> QED
      BY <3>2, <3>3
  <2>7. ASSUME NEW t \in tasks, HostResolved(t) \/ ApplyRules(t) \/ ApplyRulesToOld(t)
        PROVE  NamesInv' /\ ScoresAgree'
    <3>1. t.slot \in Slots /\ players[t.slot] \in Player
      BY DEF TypeOK, Task
    <3>2. /\ SameScore(players[t.slot], [players[t.slot] EXCEPT !.host = t.person])
          /\ SameScore(players[t.slot], [players[t.slot] EXCEPT !.muted = TRUE])
      BY <3>1 DEF Player, SameScore
    <3>3. \/ players' = players
          \/ players' = [players EXCEPT ![t.slot] = [players[t.slot] EXCEPT !.host = t.person]]
          \/ players' = [players EXCEPT ![t.slot] = [players[t.slot] EXCEPT !.muted = TRUE]]
      BY <2>7 DEF HostResolved, ApplyRules, ApplyRulesToOld
    <3>4. \A s \in Slots : SameScore(players[s], players'[s])
      BY <3>1, <3>2, <3>3 DEF TypeOK, SameScore
    <3>5. roster' = roster /\ truth' = truth /\ unclear' = unclear
      BY <2>7 DEF HostResolved, ApplyRules, ApplyRulesToOld
    <3> QED
      BY <3>4, <3>5, ScoresStand
  <2>8. CASE Reconnect
    BY <2>8 DEF Reconnect, Empty, NamesInv, ScoresAgree, Used
  <2>9. CASE PlayerBeyondSlots \/ Shutdown \/ Exit \/ UNCHANGED vars
    BY <2>9, ScoresStand DEF PlayerBeyondSlots, Shutdown, Exit, vars, SameScore
  <2> QED
    BY <2>1, <2>2, <2>3, <2>4, <2>5, <2>6, <2>7, <2>8, <2>9, NextIsStepCases DEF StepCases
<1> QED
  BY <1>1, <1>2, TypeCorrect, PTL DEF Spec

-----------------------------------------------------------------------------
(* Induction.  The rule of the library takes a predicate; this one takes a *)
(* set.                                                                    *)

LEMMA LeastElement ==
  ASSUME NEW T, T \subseteq Nat, T # {}
  PROVE  \E x \in T : \A y \in T : x <= y
<1> PICK N \in T : TRUE
  OBVIOUS
<1> DEFINE S == 0..N
           U == {Y \in SUBSET S : \E k \in T : k <= N /\ Y = 0..k}
           R == StrictSubsetOrdering(S)
<1>1. IsWellFoundedOn(R, SUBSET S)
  <2>1. IsFiniteSet(S)
    BY FS_Interval
  <2> QED
    BY <2>1, FS_StrictSubsetOrderingWellFounded, FS_FiniteSubsetsOfFinite
<1>2. U \subseteq SUBSET S /\ S \in U
  OBVIOUS
<1>3. PICK x \in U : \A y \in U : ~(<<y, x>> \in R)
  <2> HIDE DEF R, U, S
  <2> QED
    BY <1>1, <1>2, WFMin
<1>4. PICK k \in T : k <= N /\ x = 0..k
  BY <1>3
<1>5. ASSUME NEW y \in T, y < k PROVE FALSE
  <2>1. 0..y \in U
    BY <1>4, <1>5
  <2>2. 0..y \subseteq x /\ 0..y # x /\ x \in SUBSET S
    BY <1>4, <1>5
  <2>3. <<0..y, x>> \in R
    BY <2>1, <2>2, <1>2 DEF StrictSubsetOrdering
  <2> QED
    BY <1>3, <2>1, <2>3
<1>6. \A y \in T : k <= y
  BY <1>5
<1> QED
  BY <1>6

LEMMA Induction ==
  ASSUME NEW N \in Nat, NEW T, 0 \in T, \A n \in 0..(N - 1) : n \in T => n + 1 \in T
  PROVE  \A n \in 0..N : n \in T
<1>1. SUFFICES ASSUME NEW m \in 0..N, m \notin T PROVE FALSE
  OBVIOUS
<1> DEFINE U == (0..N) \ T
<1>2. U \subseteq Nat /\ U # {}
  BY <1>1
<1> HIDE DEF U
<1>3. PICK x \in U : \A y \in U : x <= y
  BY <1>2, LeastElement
<1> USE DEF U
<1>4. x - 1 \in T /\ x - 1 \in 0..(N - 1)
  BY <1>3
<1> QED
  BY <1>3, <1>4

-----------------------------------------------------------------------------
(* Sums of scores.                                                         *)

\* g holds the sums of the first scores of f, up to the first n.
Sums(f, n, g) ==
  /\ g \in [0..n -> Score] /\ g[0] = Zero
  /\ \A k \in 1..n : g[k] = Plus(g[k - 1], f[k - 1])

LEMMA SumsExist ==
  ASSUME NEW f \in [Slots -> Score], NEW N \in 0..MaxPlayers
  PROVE  \E g : Sums(f, N, g)
<1> DEFINE T == {n \in 0..MaxPlayers : \E g : Sums(f, n, g)}
<1>1. 0 \in T
  <2>1. Sums(f, 0, [k \in 0..0 |-> Zero])
    BY EmptyType DEF Sums
  <2> QED
    BY <2>1, SlotsAssumption
<1>2. ASSUME NEW n \in 0..(MaxPlayers - 1), n \in T PROVE n + 1 \in T
  <2>1. PICK g : Sums(f, n, g)
    BY <1>2
  <2>2. /\ n \in Nat /\ n \in Slots /\ f[n] \in Score
        /\ g \in [0..n -> Score] /\ g[n] \in Score
    BY <1>2, <2>1, SlotsAssumption DEF Sums, Slots
  <2> DEFINE h == [k \in 0..(n + 1) |-> IF k = n + 1 THEN Plus(g[n], f[n]) ELSE g[k]]
  <2>3. Plus(g[n], f[n]) \in Score
    BY <2>2, PlusType
  <2>4. h \in [0..(n + 1) -> Score] /\ h[0] = Zero
    BY <2>1, <2>2, <2>3 DEF Sums
  <2>5. \A k \in 1..(n + 1) : h[k] = Plus(h[k - 1], f[k - 1])
    <3> SUFFICES ASSUME NEW k \in 1..(n + 1) PROVE h[k] = Plus(h[k - 1], f[k - 1])
      OBVIOUS
    <3>1. CASE k = n + 1
      BY <2>2, <3>1
    <3>2. CASE k # n + 1
      <4>1. k \in 1..n /\ h[k] = g[k] /\ h[k - 1] = g[k - 1]
        BY <2>2, <3>2
      <4> QED
        BY <2>1, <4>1 DEF Sums
    <3> QED
      BY <3>1, <3>2
  <2> HIDE DEF h
  <2>6. Sums(f, n + 1, h)
    BY <2>4, <2>5 DEF Sums
  <2>7. n + 1 \in 0..MaxPlayers
    BY <1>2, SlotsAssumption
  <2> QED
    BY <2>6, <2>7
<1> HIDE DEF T
<1>3. N \in T
  BY <1>1, <1>2, SlotsAssumption, Induction
<1> QED
  BY <1>3 DEF T

LEMMA TotalIsSum ==
  ASSUME NEW f \in [Slots -> Score]
  PROVE  \E g : Sums(f, MaxPlayers, g) /\ Total(f) = g[MaxPlayers]
<1> DEFINE Eqn(g) == g = [n \in 0..MaxPlayers |->
                            IF n = 0 THEN Zero ELSE Plus(g[n - 1], f[n - 1])]
           sum == CHOOSE g : Eqn(g)
<1>1. PICK g : Sums(f, MaxPlayers, g)
  BY SumsExist, SlotsAssumption
<1>2. Eqn(g)
  <2>1. \A n \in 0..MaxPlayers :
          g[n] = IF n = 0 THEN Zero ELSE Plus(g[n - 1], f[n - 1])
    BY <1>1, SlotsAssumption DEF Sums
  <2>2. g = [n \in 0..MaxPlayers |-> g[n]]
    BY <1>1 DEF Sums
  <2> QED
    BY <2>1, <2>2
<1>3. Eqn(sum)
  <2> HIDE DEF Eqn
  <2> QED
    BY <1>2
<1>4. Total(f) = sum[MaxPlayers]
  BY DEF Total
<1> HIDE DEF sum
<1>5. /\ DOMAIN sum = 0..MaxPlayers /\ sum[0] = Zero
      /\ \A n \in 1..MaxPlayers : sum[n] = Plus(sum[n - 1], f[n - 1])
  <2>1. DOMAIN sum = 0..MaxPlayers
    BY <1>3
  <2>2. \A n \in 0..MaxPlayers :
          sum[n] = IF n = 0 THEN Zero ELSE Plus(sum[n - 1], f[n - 1])
    BY <1>3
  <2> QED
    BY <2>1, <2>2, SlotsAssumption
<1> DEFINE T == {n \in 0..MaxPlayers : sum[n] \in Score}
<1>6. \A n \in 0..MaxPlayers : n \in T
  <2>1. 0 \in T
    BY <1>5, EmptyType, SlotsAssumption
  <2>2. ASSUME NEW n \in 0..(MaxPlayers - 1), n \in T PROVE n + 1 \in T
    <3>1. n + 1 \in 1..MaxPlayers /\ n \in Slots /\ (n + 1) - 1 = n
      BY SlotsAssumption DEF Slots
    <3>2. sum[n + 1] = Plus(sum[n], f[n])
      BY <1>5, <3>1
    <3> QED
      BY <2>2, <3>1, <3>2, PlusType
  <2> HIDE DEF T
  <2> QED
    BY <2>1, <2>2, SlotsAssumption, Induction
<1>7. sum \in [0..MaxPlayers -> Score]
  <2>1. sum = [n \in 0..MaxPlayers |-> sum[n]]
    BY <1>3, <1>5
  <2> QED
    BY <2>1, <1>6
<1> QED
  BY <1>4, <1>5, <1>7 DEF Sums

\* What a score says of the books: nothing, if they balance.
Balance(sc) == sc.frags - sc.deaths + 2 * sc.suicides

LEMMA BalanceOfPlus ==
  ASSUME NEW a \in Score, NEW b \in Score
  PROVE  Balance(Plus(a, b)) = Balance(a) + Balance(b)
BY DEF Balance, Plus, Score

LEMMA BalanceType ==
  ASSUME NEW a \in Score PROVE Balance(a) \in Int
BY DEF Balance, Score

LEMMA TotalType ==
  ASSUME NEW f \in [Slots -> Score] PROVE Total(f) \in Score
<1>1. PICK g : Sums(f, MaxPlayers, g) /\ Total(f) = g[MaxPlayers]
  BY TotalIsSum
<1> QED
  BY <1>1, SlotsAssumption DEF Sums

\* A change of one score, as far as the balance goes, is a change of the total.
LEMMA OneChange ==
  ASSUME NEW f \in [Slots -> Score], NEW h \in [Slots -> Score], NEW i \in Slots, NEW d \in Int,
         \A s \in Slots \ {i} : Balance(h[s]) = Balance(f[s]),
         Balance(h[i]) = Balance(f[i]) + d
  PROVE  Balance(Total(h)) = Balance(Total(f)) + d
<1>1. PICK sf : Sums(f, MaxPlayers, sf) /\ Total(f) = sf[MaxPlayers]
  BY TotalIsSum
<1>2. PICK sh : Sums(h, MaxPlayers, sh) /\ Total(h) = sh[MaxPlayers]
  BY TotalIsSum
<1> DEFINE Due(n) == IF i < n THEN d ELSE 0
           T == {n \in 0..MaxPlayers : Balance(sh[n]) = Balance(sf[n]) + Due(n)}
<1>3. 0 \in T
  BY <1>1, <1>2, EmptyType, BalanceType, SlotsAssumption DEF Sums, Slots
<1>4. ASSUME NEW n \in 0..(MaxPlayers - 1), n \in T PROVE n + 1 \in T
  <2>1. n + 1 \in 1..MaxPlayers /\ n \in Slots /\ (n + 1) - 1 = n /\ n \in 0..MaxPlayers
    BY SlotsAssumption DEF Slots
  <2>2. /\ sf[n] \in Score /\ sh[n] \in Score /\ f[n] \in Score /\ h[n] \in Score
        /\ sf[n + 1] = Plus(sf[n], f[n]) /\ sh[n + 1] = Plus(sh[n], h[n])
    BY <1>1, <1>2, <2>1 DEF Sums
  <2>3. /\ Balance(sf[n + 1]) = Balance(sf[n]) + Balance(f[n])
        /\ Balance(sh[n + 1]) = Balance(sh[n]) + Balance(h[n])
    BY <2>2, BalanceOfPlus
  <2>4. /\ Balance(sf[n]) \in Int /\ Balance(sh[n]) \in Int
        /\ Balance(f[n]) \in Int /\ Balance(h[n]) \in Int
    BY <2>2, BalanceType
  <2>5. Balance(sh[n]) = Balance(sf[n]) + Due(n)
    BY <1>4
  <2>6. Balance(h[n]) = Balance(f[n]) + IF n = i THEN d ELSE 0
    BY <2>1, <2>4
  <2>7. Due(n + 1) = Due(n) + (IF n = i THEN d ELSE 0)
    BY <2>1 DEF Slots
  <2> HIDE DEF Due
  <2>8. Due(n) \in Int
    BY DEF Due
  <2> QED
    BY <2>1, <2>3, <2>4, <2>5, <2>6, <2>7, <2>8
<1> HIDE DEF T
<1>5. MaxPlayers \in T
  BY <1>3, <1>4, SlotsAssumption, Induction
<1> QED
  BY <1>1, <1>2, <1>5, SlotsAssumption DEF T, Slots

LEMMA NoChange ==
  ASSUME NEW f \in [Slots -> Score], NEW h \in [Slots -> Score],
         \A s \in Slots : Balance(h[s]) = Balance(f[s])
  PROVE  Balance(Total(h)) = Balance(Total(f))
<1>1. Balance(f[0]) \in Int /\ Balance(Total(f)) \in Int
  BY SlotsFinite, BalanceType, TotalType
<1>2. Balance(Total(h)) = Balance(Total(f)) + 0
  BY <1>1, SlotsFinite, OneChange
<1> QED
  BY <1>1, <1>2

LEMMA TotalAdds ==
  ASSUME NEW f \in [Slots -> Score], NEW h \in [Slots -> Score]
  PROVE  Balance(Total([s \in Slots |-> Plus(f[s], h[s])]))
           = Balance(Total(f)) + Balance(Total(h))
<1> DEFINE e == [s \in Slots |-> Plus(f[s], h[s])]
<1>1. e \in [Slots -> Score]
  BY PlusType
<1>2. \A s \in Slots : e[s] = Plus(f[s], h[s])
  OBVIOUS
<1> HIDE DEF e
<1>3. PICK sf : Sums(f, MaxPlayers, sf) /\ Total(f) = sf[MaxPlayers]
  BY TotalIsSum
<1>4. PICK sh : Sums(h, MaxPlayers, sh) /\ Total(h) = sh[MaxPlayers]
  BY TotalIsSum
<1>5. PICK se : Sums(e, MaxPlayers, se) /\ Total(e) = se[MaxPlayers]
  BY <1>1, TotalIsSum
<1> DEFINE T == {n \in 0..MaxPlayers : Balance(se[n]) = Balance(sf[n]) + Balance(sh[n])}
<1>6. 0 \in T
  BY <1>3, <1>4, <1>5, SlotsAssumption DEF Sums, Zero, Balance
<1>7. ASSUME NEW n \in 0..(MaxPlayers - 1), n \in T PROVE n + 1 \in T
  <2>1. n + 1 \in 1..MaxPlayers /\ n \in Slots /\ (n + 1) - 1 = n /\ n \in 0..MaxPlayers
    BY SlotsAssumption DEF Slots
  <2>2. /\ sf[n] \in Score /\ sh[n] \in Score /\ se[n] \in Score
        /\ f[n] \in Score /\ h[n] \in Score /\ e[n] \in Score
        /\ sf[n + 1] = Plus(sf[n], f[n]) /\ sh[n + 1] = Plus(sh[n], h[n])
        /\ se[n + 1] = Plus(se[n], e[n])
    BY <1>1, <1>3, <1>4, <1>5, <2>1 DEF Sums
  <2>3. /\ Balance(sf[n + 1]) = Balance(sf[n]) + Balance(f[n])
        /\ Balance(sh[n + 1]) = Balance(sh[n]) + Balance(h[n])
        /\ Balance(se[n + 1]) = Balance(se[n]) + Balance(e[n])
        /\ Balance(e[n]) = Balance(f[n]) + Balance(h[n])
    BY <1>2, <2>1, <2>2, BalanceOfPlus
  <2>4. /\ Balance(sf[n]) \in Int /\ Balance(sh[n]) \in Int
        /\ Balance(f[n]) \in Int /\ Balance(h[n]) \in Int
    BY <2>2, BalanceType
  <2>5. Balance(se[n]) = Balance(sf[n]) + Balance(sh[n])
    BY <1>7
  <2> QED
    BY <2>1, <2>3, <2>4, <2>5
<1> HIDE DEF T
<1>8. MaxPlayers \in T
  BY <1>6, <1>7, SlotsAssumption, Induction
<1> QED
  BY <1>3, <1>4, <1>5, <1>8 DEF T, e

LEMMA NothingBalances == Balance(Total([s \in Slots |-> Zero])) = 0
<1> DEFINE z == [s \in Slots |-> Zero]
<1>1. z \in [Slots -> Score]
  BY EmptyType
<1>2. [s \in Slots |-> Plus(z[s], z[s])] = z
  BY DEF Plus, Zero
<1> HIDE DEF z
<1>3. Balance(Total(z)) \in Int
  BY <1>1, TotalType, BalanceType
<1>4. Balance(Total(z)) = Balance(Total(z)) + Balance(Total(z))
  BY <1>1, <1>2, TotalAdds
<1>5. \A b \in Int : b = b + b => b = 0
  OBVIOUS
<1>6. Balance(Total(z)) = 0
  BY <1>3, <1>4, <1>5, Zenon
<1> QED
  BY <1>6 DEF z

-----------------------------------------------------------------------------
\* The scores in the slots, and what the totals say.
ScoreOf == [s \in Slots |-> players[s].score]
Balanced == Balance(Total(gone)) + Balance(Total(ScoreOf)) = 0

LEMMA ScoreOfType ==
  ASSUME TypeOK
  PROVE  ScoreOf \in [Slots -> Score] /\ gone \in [Slots -> Score]
BY DEF TypeOK, ScoreOf, Player

LEMMA BalancedBooks ==
  ASSUME TypeOK, Balanced PROVE BooksBalance
<1> DEFINE g == Total(gone)
           t == Total(ScoreOf)
<1>1. g \in Score /\ t \in Score
  BY ScoreOfType, TotalType
<1>2. Balance(g) + Balance(t) = 0
  BY DEF Balanced
<1>3. BooksBalance <=> Plus(g, t).frags = Plus(g, t).deaths - 2 * Plus(g, t).suicides
  BY DEF BooksBalance, ScoreOf
<1> HIDE DEF g, t
<1> QED
  BY <1>1, <1>2, <1>3 DEF Balance, Plus, Score

\* A record that is given up takes its score to the scores gone.
LEMMA RecordGivenUp ==
  ASSUME TypeOK, TypeOK', Balanced, NEW s \in Slots, NEW p,
         players' = [players EXCEPT ![s] = p], p.score = Zero, gone' = Given(s)
  PROVE  Balanced'
<1> DEFINE d == Balance(players[s].score)
<1>1. players[s].score \in Score /\ d \in Int
  BY BalanceType DEF TypeOK, Player
<1>2. /\ ScoreOf \in [Slots -> Score] /\ gone \in [Slots -> Score]
      /\ ScoreOf' \in [Slots -> Score] /\ gone' \in [Slots -> Score]
  BY ScoreOfType DEF TypeOK, ScoreOf, Player
<1>3. /\ \A q \in Slots \ {s} : ScoreOf'[q] = ScoreOf[q] /\ gone'[q] = gone[q]
      /\ ScoreOf'[s] = Zero /\ ScoreOf[s] = players[s].score
      /\ gone'[s] = Plus(gone[s], players[s].score)
  BY DEF TypeOK, ScoreOf, Given
<1>4. Balance(ScoreOf[s]) = d /\ Balance(ScoreOf'[s]) = 0 /\ Balance(gone'[s]) = Balance(gone[s]) + d
  <2>1. Balance(Zero) = 0
    BY DEF Balance, Zero
  <2> QED
    BY <1>1, <1>2, <1>3, <2>1, BalanceOfPlus
<1> HIDE DEF d
<1>5. Balance(Total(gone')) = Balance(Total(gone)) + d
  BY <1>1, <1>2, <1>3, <1>4, OneChange
<1>6. Balance(Total(ScoreOf')) = Balance(Total(ScoreOf)) + (-d)
  <2>1. Balance(ScoreOf'[s]) = Balance(ScoreOf[s]) + (-d) /\ -d \in Int
    BY <1>1, <1>4
  <2> QED
    BY <1>2, <1>3, <2>1, OneChange
<1>7. Balance(Total(gone)) \in Int /\ Balance(Total(ScoreOf)) \in Int
  BY <1>2, TotalType, BalanceType
<1> QED
  BY <1>1, <1>5, <1>6, <1>7 DEF Balanced

\* Scores that keep the total keep the balance.
LEMMA ScoresKeepBalance ==
  ASSUME TypeOK, TypeOK', Balanced, gone' = gone,
         Balance(Total(ScoreOf')) = Balance(Total(ScoreOf))
  PROVE  Balanced'
BY DEF Balanced

\* A kill costs the victim what it brings the murderer; a suicide is even.
LEMMA DeathBalance ==
  ASSUME NEW sc \in Score
  PROVE  /\ Balance(KillsSelf(sc)) = Balance(sc)
         /\ Balance(Frags(sc)) = Balance(sc) + 1
         /\ Balance(Dies(sc)) = Balance(sc) - 1
         /\ Balance(Frags(Dies(sc))) = Balance(sc)
<1>1. ASSUME NEW x \in Score
      PROVE  /\ x.frags \in Int /\ x.deaths \in Int /\ x.suicides \in Int
             /\ Dies(x) \in Score /\ Balance(x) \in Int
  BY DeathType, BalanceType DEF Score
<1>2. ASSUME NEW x \in Score PROVE Balance(KillsSelf(x)) = Balance(x)
  <2>1. /\ KillsSelf(x).frags = x.frags - 1 /\ KillsSelf(x).deaths = x.deaths + 1
        /\ KillsSelf(x).suicides = x.suicides + 1
    BY DeathType
  <2> QED
    BY <1>1, <2>1 DEF Balance
<1>3. ASSUME NEW x \in Score PROVE Balance(Frags(x)) = Balance(x) + 1
  <2>1. /\ Frags(x).frags = x.frags + 1 /\ Frags(x).deaths = x.deaths
        /\ Frags(x).suicides = x.suicides
    BY DeathType
  <2> QED
    BY <1>1, <2>1 DEF Balance
<1>4. ASSUME NEW x \in Score PROVE Balance(Dies(x)) = Balance(x) - 1
  <2>1. /\ Dies(x).frags = x.frags /\ Dies(x).deaths = x.deaths + 1
        /\ Dies(x).suicides = x.suicides
    BY DeathType
  <2> QED
    BY <1>1, <2>1 DEF Balance
<1>5. Balance(Frags(Dies(sc))) = (Balance(sc) - 1) + 1
  BY <1>1, <1>3, <1>4
<1> QED
  BY <1>1, <1>2, <1>3, <1>4, <1>5

LEMMA ObituaryBalances ==
  ASSUME TypeOK, TypeOK', Balanced, gone' = gone, NEW v \in Slots \cup {None}, NEW m \in Slots \cup {None},
         ParseObituary(v, m)
  PROVE  Balanced'
<1>1. CASE v = None
  BY <1>1 DEF ParseObituary, Balanced, ScoreOf
<1>2. CASE v # None
  <2>1. v \in Slots
    BY <1>2
  <2>2. players' = [s \in Slots |-> Recorded(s, v, m)]
    BY <1>2 DEF ParseObituary
  <2>3. /\ ScoreOf \in [Slots -> Score] /\ ScoreOf' \in [Slots -> Score]
    BY ScoreOfType DEF TypeOK, ScoreOf, Player
  <2>4. \A s \in Slots : ScoreOf'[s] = Scored(ScoreOf[s], s, v, m)
    BY <2>2, RecordedScore DEF ScoreOf
  <2> DEFINE Bal(s) == Balance(ScoreOf[s])
             New(s) == Balance(ScoreOf'[s])
  <2>5. \A s \in Slots : Bal(s) \in Int
    BY <2>3, BalanceType
  <2>6. \A sc \in Score : /\ Balance(KillsSelf(sc)) = Balance(sc)
                          /\ Balance(Frags(sc)) = Balance(sc) + 1
                          /\ Balance(Dies(sc)) = Balance(sc) - 1
                          /\ Balance(Frags(Dies(sc))) = Balance(sc)
    BY DeathBalance
  <2>7. CASE m \notin Slots \/ m = v
    <3>1. \A s \in Slots : New(s) = Bal(s)
      <4> SUFFICES ASSUME NEW s \in Slots PROVE New(s) = Bal(s)
        OBVIOUS
      <4>1. ScoreOf[s] \in Score /\ ScoreOf'[s] = Scored(ScoreOf[s], s, v, m)
        BY <2>3, <2>4
      <4>2. CASE s = v
        <5>1. Scored(ScoreOf[s], s, v, m) \in {KillsSelf(ScoreOf[s]), Frags(Dies(ScoreOf[s]))}
          BY <2>7, <4>2 DEF Scored
        <5> QED
          BY <2>6, <4>1, <5>1
      <4>3. CASE s # v
        <5>1. Scored(ScoreOf[s], s, v, m) = ScoreOf[s]
          BY <2>7, <4>3 DEF Scored
        <5> QED
          BY <4>1, <5>1
      <4> QED
        BY <4>2, <4>3
    <3>2. Balance(Total(ScoreOf')) = Balance(Total(ScoreOf))
      BY <2>3, <3>1, NoChange
    <3> QED
      BY <3>2, ScoresKeepBalance
  <2>8. CASE m \in Slots /\ m # v
    <3>1. m # None
      BY <2>8, NoneAssumption
    <3> DEFINE mid == [ScoreOf EXCEPT ![v] = Dies(@)]
    <3>2. mid \in [Slots -> Score] /\ mid[v] = Dies(ScoreOf[v]) /\ \A s \in Slots \ {v} : mid[s] = ScoreOf[s]
      BY <2>1, <2>3, DeathType
    <3>3. /\ ScoreOf'[v] = Dies(ScoreOf[v]) /\ ScoreOf'[m] = Frags(ScoreOf[m])
          /\ \A s \in Slots \ {v, m} : ScoreOf'[s] = ScoreOf[s]
      BY <2>1, <2>4, <2>8, <3>1 DEF Scored
    <3> HIDE DEF mid
    <3>4. Balance(Total(mid)) = Balance(Total(ScoreOf)) + (-1)
      <4>1. Balance(mid[v]) = Balance(ScoreOf[v]) + (-1)
        BY <2>1, <2>3, <2>5, <2>6, <3>2
      <4> QED
        BY <2>1, <2>3, <3>2, <4>1, OneChange
    <3>5. Balance(Total(ScoreOf')) = Balance(Total(mid)) + 1
      <4>1. Balance(ScoreOf'[m]) = Balance(mid[m]) + 1
        BY <2>3, <2>6, <2>8, <3>2, <3>3
      <4>2. \A s \in Slots \ {m} : ScoreOf'[s] = mid[s]
        BY <3>2, <3>3
      <4> QED
        BY <2>3, <2>8, <3>2, <4>1, <4>2, OneChange
    <3>6. Balance(Total(ScoreOf)) \in Int
      BY <2>3, TotalType, BalanceType
    <3>7. Balance(Total(ScoreOf')) = Balance(Total(ScoreOf))
      BY <3>4, <3>5, <3>6
    <3> QED
      BY <3>7, ScoresKeepBalance
  <2> QED
    BY <2>7, <2>8
<1> QED
  BY <1>1, <1>2

\* Somebody, or nobody, has the name.
LEMMA FoundType ==
  ASSUME NEW n PROVE FindPlayerByName(n) \in Slots \cup {None}
<1> DEFINE holders == {s \in Slots : players[s].name = n}
<1>1. CASE holders = {}
  BY <1>1 DEF FindPlayerByName
<1>2. CASE holders # {}
  <2>1. holders \subseteq Nat
    BY DEF Slots
  <2>2. \E s \in holders : \A t \in holders : s <= t
    <3> HIDE DEF holders
    <3> QED
      BY <1>2, <2>1, LeastElement
  <2>3. (CHOOSE s \in holders : \A t \in holders : s <= t) \in holders
    BY <2>2
  <2> QED
    BY <1>2, <2>3 DEF FindPlayerByName
<1> QED
  BY <1>1, <1>2

\* Over all records, past and present, frags are deaths less two for each
\* suicide, whomever the names in the obituaries are taken for
\* (PlayerSlotsProps!BooksBalance; parse.go:318-359).
THEOREM BooksBalanceCorrect == Spec => []BooksBalance
<1>1. Init => Balanced
  <2> SUFFICES ASSUME Init PROVE Balanced
    OBVIOUS
  <2>1. gone = [s \in Slots |-> Zero] /\ ScoreOf = [s \in Slots |-> Zero]
    BY DEF Init, ScoreOf, Empty
  <2> QED
    BY <2>1, NothingBalances DEF Balanced
<1>2. TypeOK /\ TypeOK' /\ Balanced /\ [Next]_vars => Balanced'
  <2> SUFFICES ASSUME TypeOK, TypeOK', Balanced, [Next]_vars PROVE Balanced'
    OBVIOUS
  <2> USE DEF recordVars, dataVars, gameVars
  <2>1. ASSUME gone' = gone, \A s \in Slots : players'[s].score = players[s].score
        PROVE  Balanced'
    <3>1. ScoreOf' = ScoreOf
      BY <2>1 DEF ScoreOf
    <3> QED
      BY <2>1, <3>1 DEF Balanced
  <2>2. ASSUME NEW s \in Slots, NEW n \in Names, ParsePlayerUpdate(s, n)
        PROVE  Balanced'
    <3>1. gone' = gone /\ players' = IF players[s].used THEN [players EXCEPT ![s].name = n] ELSE players
      BY <2>2 DEF ParsePlayerUpdate
    <3>2. \A q \in Slots : players'[q].score = players[q].score
      BY <3>1 DEF TypeOK, Player
    <3> QED
      BY <2>1, <3>1, <3>2
  <2>3. ASSUME NEW s \in Slots, NEW n \in Names, NEW p \in Persons, Enter(s, p, n)
        PROVE  Balanced'
    BY <2>1, <2>3 DEF Enter
  <2>4. ASSUME NEW s \in Slots, ParsePlayer(s)
        PROVE  Balanced'
    <3>1. PICK row : players' = [players EXCEPT ![s] = NewPlayer(s, row)] /\ gone' = Given(s)
      BY <2>4 DEF ParsePlayer
    <3>2. NewPlayer(s, row).score = Zero
      BY DEF NewPlayer, Empty
    <3> QED
      BY <3>1, <3>2, RecordGivenUp
  <2>5. ASSUME NEW s \in Slots, ParseDisconnect(s)
        PROVE  Balanced'
    <3>1. \/ players' = [players EXCEPT ![s] = Empty] /\ gone' = Given(s)
          \/ players' = players /\ gone' = gone
      BY <2>5 DEF ParseDisconnect, RemovePlayer
    <3>2. Empty.score = Zero
      BY DEF Empty
    <3> QED
      BY <2>1, <3>1, <3>2, RecordGivenUp
  <2>6. ASSUME NEW v \in Slots, NEW m \in Slots, Kill(v, m) \/ Suicide(v)
        PROVE  Balanced'
    <3>1. gone' = gone
      BY <2>6 DEF Kill, Suicide, Obituary
    <3>2. \/ ParseObituary(FindPlayerByName(roster[v].name), FindPlayerByName(roster[m].name))
          \/ ParseObituary(FindPlayerByName(roster[v].name), None)
      BY <2>6 DEF Kill, Suicide
    <3> QED
      BY <3>1, <3>2, FoundType, ObituaryBalances
  <2>7. ASSUME NEW t \in tasks, HostResolved(t) \/ ApplyRules(t) \/ ApplyRulesToOld(t)
        PROVE  Balanced'
    <3>1. gone' = gone
      BY <2>7 DEF HostResolved, ApplyRules, ApplyRulesToOld
    <3>2. \/ players' = players
          \/ players' = [players EXCEPT ![t.slot].host = t.person]
          \/ players' = [players EXCEPT ![t.slot].muted = TRUE]
      BY <2>7 DEF HostResolved, ApplyRules, ApplyRulesToOld
    <3>3. \A q \in Slots : players'[q].score = players[q].score
      <4>1. CASE players' = players
        BY <4>1
      <4>2. CASE players' = [players EXCEPT ![t.slot].host = t.person]
        BY <4>2 DEF TypeOK, Player
      <4>3. CASE players' = [players EXCEPT ![t.slot].muted = TRUE]
        BY <4>3 DEF TypeOK, Player
      <4> QED
        BY <3>2, <4>1, <4>2, <4>3
    <3> QED
      BY <2>1, <3>1, <3>3
  <2>8. CASE Reconnect
    <3> DEFINE none == [s \in Slots |-> Zero]
    <3>1. /\ gone' = [s \in Slots |-> Plus(gone[s], ScoreOf[s])]
          /\ ScoreOf' = none
      BY <2>8 DEF Reconnect, ScoreOf, Empty
    <3>2. ScoreOf \in [Slots -> Score] /\ gone \in [Slots -> Score]
      BY ScoreOfType
    <3>3. Balance(Total(gone')) = Balance(Total(gone)) + Balance(Total(ScoreOf))
      BY <3>1, <3>2, TotalAdds
    <3>4. Balance(Total(ScoreOf')) = 0
      BY <3>1, NothingBalances
    <3> QED
      BY <3>3, <3>4 DEF Balanced
  <2>9. CASE PlayerBeyondSlots \/ Shutdown \/ Exit \/ UNCHANGED vars
    BY <2>1, <2>9 DEF PlayerBeyondSlots, Shutdown, Exit, vars
  <2> QED
    BY <2>2, <2>3, <2>4, <2>5, <2>6, <2>7, <2>8, <2>9, NextIsStepCases DEF StepCases
<1>3. TypeOK /\ Balanced => BooksBalance
  BY BalancedBooks
<1> QED
  BY <1>1, <1>2, <1>3, TypeCorrect, PTL DEF Spec
=============================================================================
