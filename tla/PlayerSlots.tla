---------------------------- MODULE PlayerSlots ----------------------------
(***************************************************************************)
(* The players of one frontend: the slots fe.Players, the counter          *)
(* fe.PlayerCount, the scores parsed from obituaries, the statistics       *)
(* written when a player leaves, and the goroutines ParseConnect starts,   *)
(* which look up a host name and apply the rules a second later through a  *)
(* pointer into the slice.                                                 *)
(*                                                                         *)
(* The game server (external) is the roster of who really plays under      *)
(* which name and the true score of each player since the backend last     *)
(* made a record for them.  It tells the backend of every event in order,  *)
(* except that a join waits for version and VPN checks (parse.go:455-458). *)
(* Every person has a host of their own, which stands for what DNS says of *)
(* their address.                                                          *)
(***************************************************************************)
EXTENDS Integers, FiniteSets

CONSTANTS
  MaxPlayers,          \* fe.MaxPlayers
  Persons, None,
  Names, NamesOf,      \* the names each person may take
  BadHosts, BadNames,  \* hosts and names some mute rule matches
  TimeRule,            \* some rule asks only for a time or a play time
  MaxRows, MaxObits,   \* bounds: rows of table player, deaths
  MaxTasks             \* bound: goroutines of ParseConnect at a time

ASSUME SlotsAssumption == MaxPlayers \in Nat \ {0}
ASSUME RulesAssumption ==
  /\ NamesOf \in [Persons -> SUBSET Names]
  /\ BadHosts \subseteq Persons /\ BadNames \subseteq Names
  /\ TimeRule \in BOOLEAN
ASSUME BoundsAssumption == MaxRows \in Nat /\ MaxObits \in Nat /\ MaxTasks \in Nat

Slots == 0..(MaxPlayers - 1)
Seat == [person : Persons, name : Names]

ASSUME NoneAssumption == None \notin Persons \cup Names \cup Slots \cup Seat

VARIABLES
  status,   \* "up", "stopping" (Shutdown has run) or what ended the process
  players,  \* fe.Players
  count,    \* fe.PlayerCount
  tasks,    \* goroutines of ParseConnect
  rows,     \* rows of table player asked for so far, inserted or refused
  stat,     \* how many rows of player_stat name each row of player
  roster,   \* game server: who plays in each slot, under which name
  truth,    \* game server: the score of each slot since its record was made
  gone,     \* history: sum of the scores of a slot's former records
  obits,    \* obituaries so far
  unclear   \* history: an obituary came while two players shared a name or one
            \* was not announced yet

recordVars == <<players, count>>
dataVars == <<rows, stat>>
gameVars == <<roster, truth, obits, unclear>>
vars == <<status, recordVars, tasks, dataVars, gameVars, gone>>

Score == [frags : Int, deaths : Nat, suicides : Nat]
Zero  == [frags |-> 0, deaths |-> 0, suicides |-> 0]

\* A kill:death ratio is a pair: numerator and positive denominator.
Ratio == Int \X (Nat \ {0})

Player == [used : BOOLEAN, person : Persons \cup {None}, name : Names \cup {None},
           host : Persons \cup {None}, muted : BOOLEAN, row : Nat,
           score : Score, kdr : Ratio]

\* Player{}; host None is the address itself, not resolved yet.
Empty == [used |-> FALSE, person |-> None, name |-> None, host |-> None,
          muted |-> FALSE, row |-> 0, score |-> Zero, kdr |-> <<0, 1>>]

\* slot: the slot pointed to; person: whose address is looked up; stage: what
\* is left to do; array: the current slice, or an older one in which the slot
\* was used ("old") or not ("emptied").
Task == [slot : Slots, person : Persons, stage : {"lookup", "rules"},
         array : {"current", "old", "emptied"}]

TypeOK ==
  /\ status \in {"up", "stopping", "down", "badNumber", "emptySlot"}
  /\ players \in [Slots -> Player]
  /\ count \in Int
  /\ tasks \in SUBSET Task
  /\ rows \in 0..MaxRows
  /\ stat \in [0..MaxRows -> Nat]
  /\ roster \in [Slots -> Seat \cup {None}]
  /\ truth \in [Slots -> Score]
  /\ gone \in [Slots -> Score]
  /\ obits \in 0..MaxObits /\ unclear \in BOOLEAN

Init ==
  /\ status = "up"
  /\ players = [s \in Slots |-> Empty] /\ count = 0
  /\ tasks = {}
  /\ rows = 0 /\ stat = [r \in 0..MaxRows |-> 0]
  /\ roster = [s \in Slots |-> None] /\ truth = [s \in Slots |-> Zero]
  /\ gone = [s \in Slots |-> Zero] /\ obits = 0 /\ unclear = FALSE

Running == status \in {"up", "stopping"}

\* The slots in use.
Used == {s \in Slots : players[s].used}

Plus(a, b) == [frags |-> a.frags + b.frags, deaths |-> a.deaths + b.deaths,
               suicides |-> a.suicides + b.suicides]

\* The scores a slot has lost so far, once the record in it is given up too.
Given(s) == [gone EXCEPT ![s] = Plus(@, players[s].score)]

-----------------------------------------------------------------------------
(* Joining and leaving.                                                    *)

\* Somebody starts to play; the backend has not heard of it.
Enter(s, p, n) ==
  /\ Running /\ roster[s] = None
  /\ \A t \in Slots : roster[t] # None => roster[t].person # p
  /\ n \in NamesOf[p]
  /\ roster' = [roster EXCEPT ![s] = [person |-> p, name |-> n]]
  /\ UNCHANGED <<status, recordVars, tasks, dataVars, truth, obits, unclear, gone>>

\* The new record of ParsePlayer; row 0 when AddPlayer failed.
NewPlayer(s, row) ==
  [Empty EXCEPT !.used = TRUE, !.person = roster[s].person,
                !.name = roster[s].name, !.row = row]

\* A player message: the slot is overwritten whether or not it was in use.
ParsePlayer(s) ==
  /\ Running /\ roster[s] # None /\ rows < MaxRows
  /\ rows' = rows + 1
  /\ \E row \in {0, rows + 1} : players' = [players EXCEPT ![s] = NewPlayer(s, row)]
  /\ count' = count + 1
  /\ truth' = [truth EXCEPT ![s] = Zero]
  /\ gone' = Given(s)
  /\ UNCHANGED <<status, stat, roster, obits, unclear>>

\* Announced to the backend: a goroutine goes on with the slot.
ParseConnect(s) ==
  /\ Cardinality(tasks) < MaxTasks
  /\ ParsePlayer(s)
  /\ tasks' = tasks \cup {[slot |-> s, person |-> roster[s].person,
                           stage |-> "lookup", array |-> "current"]}

\* One entry of a player list, sent on a new map and after a reconnect.
ParsePlayerlist(s) == ParsePlayer(s) /\ UNCHANGED tasks

\* Client number MaxPlayers passes the test and indexes beyond the slice.
PlayerBeyondSlots ==
  /\ Running
  /\ status' = "badNumber"
  /\ UNCHANGED <<recordVars, tasks, dataVars, gameVars, gone>>

\* One row of player_stat for the player in slot s; nothing for a slot not used.
WritePlayer(st, s) ==
  IF players[s].used THEN [st EXCEPT ![players[s].row] = @ + 1] ELSE st

\* Mutant of RemovePlayer: the slot is kept for the next map.
RemoveKeeps(s) ==
  /\ players[s].used
  /\ stat' \in {WritePlayer(stat, s), stat}
  /\ players' = players /\ count' = count - 1
  /\ gone' = gone

\* RemovePlayer: the row is written unless the database refuses it.
RemovePlayer(s) ==
  /\ players[s].used
  /\ stat' \in {WritePlayer(stat, s), stat}
  /\ players' = [players EXCEPT ![s] = Empty] /\ count' = count - 1
  /\ gone' = Given(s)

\* A player leaves; the backend may never have heard of them.
ParseDisconnect(s) ==
  /\ Running /\ roster[s] # None
  /\ roster' = [roster EXCEPT ![s] = None]
  /\ \/ RemovePlayer(s)
     \/ ~players[s].used /\ UNCHANGED <<recordVars, stat, gone>>
  /\ UNCHANGED <<status, tasks, rows, truth, obits, unclear>>

\* A new name reaches the record, if there is one.  Rules are not applied.
ParsePlayerUpdate(s, n) ==
  /\ Running /\ roster[s] # None /\ n \in NamesOf[roster[s].person]
  /\ n # roster[s].name
  /\ roster' = [roster EXCEPT ![s].name = n]
  /\ players' = IF players[s].used THEN [players EXCEPT ![s].name = n] ELSE players
  /\ UNCHANGED <<status, count, tasks, dataVars, truth, obits, unclear, gone>>

\* The frontend authenticates again: new slots, the old counter.
Reconnect ==
  /\ Running
  /\ players' = [s \in Slots |-> Empty]
  /\ tasks' = {[t EXCEPT !.array =
                  IF @ # "current" THEN @
                  ELSE IF players[t.slot].used THEN "old" ELSE "emptied"] : t \in tasks}
  /\ truth' = [s \in Slots |-> Zero]
  /\ gone' = [s \in Slots |-> Plus(gone[s], players[s].score)]
  /\ UNCHANGED <<status, count, dataVars, roster, obits, unclear>>

-----------------------------------------------------------------------------
(* Obituaries.                                                             *)

\* |a / b|, and a for b = 0.
Abs(x) == IF x < 0 THEN -x ELSE x
Quotient(a, b) == IF b = 0 THEN <<Abs(a), 1>> ELSE <<Abs(a), Abs(b)>>

\* More deaths than frags: turned over and negative.
CalculateKDR(f, d) ==
  IF d > f THEN <<-Quotient(d, f)[1], Quotient(d, f)[2]>> ELSE Quotient(f, d)

\* FindPlayerByName: the first slot that holds the name, None if there is none.
FindPlayerByName(n) ==
  LET holders == {s \in Slots : players[s].name = n} IN
  IF holders = {} THEN None
  ELSE CHOOSE s \in holders : \A t \in holders : s <= t

Dies(sc)  == [sc EXCEPT !.deaths = @ + 1]
Frags(sc) == [sc EXCEPT !.frags = @ + 1]
KillsSelf(sc) == [frags |-> sc.frags - 1, deaths |-> sc.deaths + 1,
                  suicides |-> sc.suicides + 1]

\* The score of slot s after an obituary that names v and m; m is None when
\* there is no murderer.
Scored(sc, s, v, m) ==
  IF s = v /\ m = None THEN KillsSelf(sc)
  ELSE IF s = v /\ s = m THEN Frags(Dies(sc))
  ELSE IF s = v THEN Dies(sc)
  ELSE IF s = m THEN Frags(sc)
  ELSE sc

\* Mutant of Recorded: the murderer's ratio is left as it was.
RecordedVictim(s, v, m) ==
  LET sc == Scored(players[s].score, s, v, m) IN
  IF s # v THEN [players[s] EXCEPT !.score = sc]
  ELSE [players[s] EXCEPT !.score = sc, !.kdr = CalculateKDR(sc.frags, sc.deaths)]

\* The record of slot s after such an obituary.
Recorded(s, v, m) ==
  LET sc == Scored(players[s].score, s, v, m) IN
  IF s \notin {v, m} THEN players[s]
  ELSE [players[s] EXCEPT !.score = sc, !.kdr = CalculateKDR(sc.frags, sc.deaths)]

\* Mutant of ParseObituary: the victim of an unknown murderer is left alone,
\* but the murderer of an unknown victim is not.
ParseObituaryAnyVictim(v, m) ==
  IF v = None /\ m = None THEN UNCHANGED players
  ELSE players' = [s \in Slots |-> Recorded(s, v, m)]

\* Mutant of ParseObituary: murderer and victim are confused.
ParseObituarySwapped(v, m) ==
  IF v = None THEN UNCHANGED players
  ELSE IF m = None THEN players' = [s \in Slots |-> Recorded(s, v, m)]
  ELSE players' = [s \in Slots |-> Recorded(s, m, v)]

\* ParseObituary: nothing without a victim; a murderer nobody knows is none.
ParseObituary(v, m) ==
  IF v = None THEN UNCHANGED players
  ELSE players' = [s \in Slots |-> Recorded(s, v, m)]

\* Everybody who plays is announced, under a name of their own.
NamesClear ==
  LET playing == {s \in Slots : roster[s] # None} IN
  /\ playing \subseteq Used
  /\ \A s, t \in playing : roster[s].name = roster[t].name => s = t

Obituary ==
  /\ Running /\ obits < MaxObits
  /\ obits' = obits + 1
  /\ unclear' = (unclear \/ ~NamesClear)
  /\ UNCHANGED <<status, count, tasks, dataVars, roster, gone>>

\* m kills v in the game, and the print names both.
Kill(v, m) ==
  /\ v # m /\ roster[v] # None /\ roster[m] # None
  /\ truth' = [s \in Slots |-> Scored(truth[s], s, v, m)]
  /\ ParseObituary(FindPlayerByName(roster[v].name), FindPlayerByName(roster[m].name))
  /\ Obituary

\* v dies alone.
Suicide(v) ==
  /\ roster[v] # None
  /\ truth' = [truth EXCEPT ![v] = KillsSelf(@)]
  /\ ParseObituary(FindPlayerByName(roster[v].name), None)
  /\ Obituary

-----------------------------------------------------------------------------
(* The goroutine ParseConnect starts.                                      *)

\* The look-up answers, or fails; the name it found goes to whoever has the
\* slot by now.
HostResolved(t) ==
  /\ Running /\ t \in tasks /\ t.stage = "lookup"
  /\ tasks' = (tasks \ {t}) \cup {[t EXCEPT !.stage = "rules"]}
  /\ \/ t.array = "current" /\ players' = [players EXCEPT ![t.slot].host = t.person]
     \/ UNCHANGED players
  /\ UNCHANGED <<status, count, dataVars, gameVars, gone>>

\* Mutant of Matches: host names are not looked at.
MatchesNoHost(p) == TimeRule \/ p.name \in BadNames

\* CheckRules, by what the record says now.
Matches(p) == TimeRule \/ p.host \in BadHosts \/ p.name \in BadNames

\* CheckRules and ApplyMatchedRules a second later.  A record of no player has
\* no Frontend, and ApplyMatchedRules fails on it.
ApplyRules(t) ==
  /\ Running /\ t \in tasks /\ t.stage = "rules" /\ t.array = "current"
  /\ tasks' = tasks \ {t}
  /\ IF Matches(players[t.slot])
       THEN /\ players' = [players EXCEPT ![t.slot].muted = TRUE]
            /\ status' = IF players[t.slot].used THEN status ELSE "emptySlot"
       ELSE UNCHANGED <<players, status>>
  /\ UNCHANGED <<count, dataVars, gameVars, gone>>

\* The same with a pointer into a slice that is no longer the frontend's: no
\* player changes.
ApplyRulesToOld(t) ==
  /\ Running /\ t \in tasks /\ t.stage = "rules" /\ t.array # "current"
  /\ tasks' = tasks \ {t}
  /\ \/ UNCHANGED status
     \/ /\ t.array = "emptied" /\ (TimeRule \/ t.person \in BadHosts)
        /\ status' = "emptySlot"
  /\ UNCHANGED <<recordVars, dataVars, gameVars, gone>>

-----------------------------------------------------------------------------
(* The end.                                                                *)

\* The slot WritePlayers writes for entry s: a record of no player has client
\* number 0.
ClientID(s) == IF players[s].used THEN s ELSE 0

\* How often WritePlayers writes row r when it gets through the first n slots.
Writes(r, n) ==
  Cardinality({s \in Slots : s < n /\ players[ClientID(s)].used
                                   /\ players[ClientID(s)].row = r})

\* Shutdown, with or without an error of the database on the way.
Shutdown ==
  /\ status = "up"
  /\ status' = "stopping"
  /\ \E n \in 0..MaxPlayers : stat' = [r \in 0..MaxRows |-> stat[r] + Writes(r, n)]
  /\ UNCHANGED <<recordVars, tasks, rows, gameVars, gone>>

\* The handlers go on until the process exits.
Exit ==
  /\ status = "stopping"
  /\ status' = "down"
  /\ UNCHANGED <<recordVars, tasks, dataVars, gameVars, gone>>

-----------------------------------------------------------------------------
Next ==
  \/ \E s \in Slots, n \in Names :
       ParsePlayerUpdate(s, n) \/ \E p \in Persons : Enter(s, p, n)
  \/ \E s \in Slots :
       ParseConnect(s) \/ ParsePlayerlist(s) \/ ParseDisconnect(s) \/ Suicide(s)
  \/ \E v, m \in Slots : Kill(v, m)
  \/ \E t \in tasks : HostResolved(t) \/ ApplyRules(t) \/ ApplyRulesToOld(t)
  \/ PlayerBeyondSlots \/ Reconnect \/ Shutdown \/ Exit

Spec == Init /\ [][Next]_vars

\* A goroutine gets its answer from DNS, or none, and its second passes.
FairSpec ==
  /\ Spec
  /\ \A t \in Task : WF_vars(HostResolved(t)) /\ WF_vars(ApplyRules(t))
=============================================================================
