------------------------------- MODULE Invites -------------------------------
(***************************************************************************)
(* Invites, what limits them, and teleports.  Each connected frontend has  *)
(* a bucket of tokens, from which the invite command takes and to which    *)
(* maintenance adds, and each player has a few invites and must wait when  *)
(* they are used up.  Handler and maintenance share the bucket with no     *)
(* lock, so a decrement and an increment are a read and a write each.      *)
(*                                                                         *)
(* Maintenance goes by index through the list of frontends as it was at    *)
(* the start of its round, and adds at the same index of the list as it is *)
(* by then.  A deletion makes a new array of copies; module Registry has   *)
(* the steps of that, and what else replaces arrays.                       *)
(*                                                                         *)
(* Times are ages in seconds, counted up to the first at which no test in  *)
(* the code tells them apart any more.                                     *)
(***************************************************************************)
EXTENDS Integers, Sequences, FiniteSets

CONSTANTS
  Frontends, Clients,
  AtStart,         \* be.frontends at first
  Live,            \* bound: the frontends whose game servers run
  MaxArrays,       \* bound: arrays of be.frontends
  MaxInviteTokens, \* of a bucket
  Freq,            \* seconds between additions to it
  PlayerTokens,    \* invites of a player
  PlayerWait,      \* seconds until a player gets them back
  PlayerGap        \* seconds between two of them

ASSUME ListAssumption == AtStart \in Seq(Frontends) /\ Live \subseteq Frontends
ASSUME ArraysAssumption == MaxArrays \in Nat \ {0}
ASSUME BucketAssumption == MaxInviteTokens \in Nat \ {0} /\ Freq \in Nat
ASSUME PlayerAssumption == PlayerTokens \in Nat \ {0} /\ PlayerWait \in Nat /\ PlayerGap \in 0..PlayerWait

VARIABLES
  arrays,  \* be.frontends, the last, and what it was before
  record,  \* the record of each frontend in each array
  handler, \* the array a frontend's handler points into, or 0
  player,  \* the slots of each frontend
  taking,  \* what the handler of each frontend is doing
  round,   \* what maintenance is doing
  down,    \* the process has died of a panic
  uses,    \* history: the ages of the last invites of each connection
  sent,    \* history: the ages of the last invites of each player
  raced    \* history: frontends whose bucket handler and maintenance have
           \* written at once since they connected

history == <<uses, sent, raced>>
vars == <<arrays, record, handler, player, taking, round, down, history>>

Arrays == 1..MaxArrays
BucketAge == 0..(Freq + 1)
PlayerAge == 0..(PlayerWait + 1)

Older(age, ages) == IF age + 1 \in ages THEN age + 1 ELSE age

\* connected: Connected and Trusted; tokens and age: Invites.Tokens and the age
\* of Invites.LastAddition.
Record == [connected : BOOLEAN, tokens : Nat, age : BucketAge]
Player == [here : BOOLEAN, available : 0..PlayerTokens, age : PlayerAge]

Taking == [phase : {"idle", "inviting"}] \cup [phase : {"taking"}, saw : Nat]
          \cup [phase : {"teleporting"}, at : Nat]

\* over: the array of the round; at: the index; into, of: the record it adds to.
Round == [phase : {"asleep"}]
         \cup [phase : {"visiting"}, over : Arrays, at : Nat]
         \cup [phase : {"adding"}, over : Arrays, at : Nat, into : Arrays,
               of : Frontends, age : BucketAge]
         \cup [phase : {"writing"}, over : Arrays, at : Nat, into : Arrays,
               of : Frontends, age : BucketAge, saw : Nat]

TypeOK ==
  /\ arrays \in Seq(Seq(Frontends)) /\ Len(arrays) \in Arrays
  /\ record \in [Arrays -> [Frontends -> Record]]
  /\ handler \in [Frontends -> 0..Len(arrays)]
  /\ player \in [Frontends -> [Clients -> Player]]
  /\ taking \in [Frontends -> Taking]
  /\ round \in Round
  /\ down \in BOOLEAN
  /\ uses \in [Frontends -> Seq(BucketAge)]
  /\ sent \in [Frontends -> [Clients -> Seq(PlayerAge)]]
  /\ raced \subseteq Frontends

Now == Len(arrays)
List == arrays[Now]

\* LastAddition and LastInvite are zero at first, which is long ago.
NoRecord == [connected |-> FALSE, tokens |-> 0, age |-> Freq + 1]
NoPlayer == [here |-> FALSE, available |-> 0, age |-> PlayerWait + 1]
Idle == [phase |-> "idle"]
Asleep == [phase |-> "asleep"]

Init ==
  /\ arrays = <<AtStart>>
  /\ record = [n \in Arrays |-> [f \in Frontends |-> NoRecord]]
  /\ handler = [f \in Frontends |-> 0]
  /\ player = [f \in Frontends |-> [c \in Clients |-> NoPlayer]]
  /\ taking = [f \in Frontends |-> Idle]
  /\ round = Asleep /\ down = FALSE
  /\ uses = [f \in Frontends |-> <<>>]
  /\ sent = [f \in Frontends |-> [c \in Clients |-> <<>>]]
  /\ raced = {}

\* A handler that reads the next message.
Reading(f) == ~down /\ handler[f] # 0 /\ taking[f] = Idle

-----------------------------------------------------------------------------
(* Connections, players.                                                   *)

\* Maintenance is adding to a record.
AddingTo(n, f) == round.phase \in {"adding", "writing"} /\ round.into = n /\ round.of = f

\* The record of the list gets a full bucket and empty slots.
Connect(f) ==
  /\ ~down /\ f \in Live /\ handler[f] = 0
  /\ \E i \in DOMAIN List : List[i] = f
  /\ handler' = [handler EXCEPT ![f] = Now]
  /\ record' = [record EXCEPT ![Now][f] =
                  [connected |-> TRUE, tokens |-> MaxInviteTokens, age |-> Freq + 1]]
  /\ player' = [player EXCEPT ![f] = [c \in Clients |-> NoPlayer]]
  /\ uses' = [uses EXCEPT ![f] = <<>>]
  /\ sent' = [sent EXCEPT ![f] = [c \in Clients |-> <<>>]]
  /\ raced' = (raced \ {f}) \cup {g \in {f} : AddingTo(Now, g)}
  /\ UNCHANGED <<arrays, taking, round, down>>

Disconnect(f) ==
  /\ Reading(f)
  /\ handler' = [handler EXCEPT ![f] = 0]
  /\ record' = [record EXCEPT ![handler[f]][f].connected = FALSE]
  /\ UNCHANGED <<arrays, player, taking, round, down, history>>

\* A join or a new list of players makes the slot anew.
Join(f, c) ==
  /\ Reading(f)
  /\ player' = [player EXCEPT ![f][c] = [NoPlayer EXCEPT !.here = TRUE]]
  /\ sent' = [sent EXCEPT ![f][c] = <<>>]
  /\ UNCHANGED <<arrays, record, handler, taking, round, down, uses, raced>>

Leave(f, c) ==
  /\ Reading(f) /\ player[f][c].here
  /\ player' = [player EXCEPT ![f][c] = NoPlayer]
  /\ UNCHANGED <<arrays, record, handler, taking, round, down, history>>

-----------------------------------------------------------------------------
(* The invite command of a frontend that allows it.                        *)

Tokens(f) == record[handler[f]][f].tokens

\* What a player has left when the command is given: with none left, the first
\* ones again, for then the wait is over.
Left(p) == IF p.available = 0 THEN PlayerTokens ELSE p.available

\* Mutant of MayInvite: the pause between two invites is all there is.
MayInviteAlways(p) == p.age >= PlayerGap

MayInvite(p) ==
  IF p.available = 0 THEN p.age > PlayerWait ELSE p.age >= PlayerGap

\* The newest of at most n ages.
Newest(age, ages, n) == <<age>> \o (IF Len(ages) < n THEN ages ELSE SubSeq(ages, 1, n - 1))

\* Everything up to the tokens of the server; what is refused changes nothing.
\* The message goes to copies of the frontends and reaches nobody.
Invite(f, c) ==
  LET p == player[f][c] IN
  /\ Reading(f) /\ p.here /\ Tokens(f) # 0 /\ MayInvite(p)
  /\ player' = [player EXCEPT ![f][c].available = Left(p) - 1, ![f][c].age = 0]
  /\ taking' = [taking EXCEPT ![f] = [phase |-> "inviting"]]
  /\ uses' = [uses EXCEPT ![f] = Newest(0, @, MaxInviteTokens + 1)]
  /\ sent' = [sent EXCEPT ![f][c] = Newest(0, @, PlayerTokens)]
  /\ UNCHANGED <<arrays, record, handler, round, down, raced>>

\* The player is not found, and the handler goes on all the same.
InviteOfNobody(f, c) ==
  /\ Reading(f) /\ ~player[f][c].here /\ Tokens(f) # 0
  /\ down' = TRUE
  /\ UNCHANGED <<arrays, record, handler, player, taking, round, history>>

\* Tokens--
ReadTokens(f) ==
  /\ ~down /\ taking[f].phase = "inviting"
  /\ taking' = [taking EXCEPT ![f] = [phase |-> "taking", saw |-> Tokens(f)]]
  /\ UNCHANGED <<arrays, record, handler, player, round, down, history>>

\* Mutant of Taken: tokens are counted and not taken.
TakenNot(n) == n

Taken(n) == n - 1

TakeToken(f) ==
  LET saw == taking[f].saw IN
  /\ ~down /\ taking[f].phase = "taking"
  /\ record' = [record EXCEPT ![handler[f]][f].tokens = Taken(saw)]
  /\ taking' = [taking EXCEPT ![f] = Idle]
  /\ raced' = raced \cup {g \in {f} : Tokens(g) # saw}
  /\ UNCHANGED <<arrays, handler, player, round, down, uses, sent>>

-----------------------------------------------------------------------------
(* The teleport command with the name of a frontend g that is listed.      *)

\* The player is told to connect there.  The list of frontends it sends without
\* a name is no state.
Teleport(f, c, g) ==
  /\ Reading(f) /\ player[f][c].here
  /\ \E i \in DOMAIN List :
       List[i] = g /\ taking' = [taking EXCEPT ![f] = [phase |-> "teleporting", at |-> i]]
  /\ UNCHANGED <<arrays, record, handler, player, round, down, history>>

\* It is counted at the index, in the list as it is by then.
CountTeleport(f) ==
  /\ ~down /\ taking[f].phase = "teleporting"
  /\ IF taking[f].at <= Len(List)
       THEN taking' = [taking EXCEPT ![f] = Idle] /\ UNCHANGED down
       ELSE down' = TRUE /\ UNCHANGED taking
  /\ UNCHANGED <<arrays, record, handler, player, round, history>>

-----------------------------------------------------------------------------
(* Maintenance.                                                            *)

StartRound ==
  /\ ~down /\ round = Asleep
  /\ round' = [phase |-> "visiting", over |-> Now, at |-> 1]
  /\ UNCHANGED <<arrays, record, handler, player, taking, down, history>>

Visited == arrays[round.over][round.at]
Visiting == ~down /\ round.phase = "visiting" /\ round.at <= Len(arrays[round.over])
Onward == [phase |-> "visiting", over |-> round.over, at |-> round.at + 1]

\* Mutant of MayAdd: a bucket that has had to wait is overfilled.
MayAddLate(r) == r.age > Freq

\* Mutant of MayAdd: no wait between additions.
MayAddSoon(r) == r.tokens < MaxInviteTokens

\* Mutant of MayAdd: the ages are compared the wrong way round.
MayAddSwapped(r) == r.tokens < MaxInviteTokens /\ r.age < Freq

\* InviteBucketAdd adds to this record.
MayAdd(r) == r.tokens < MaxInviteTokens /\ r.age > Freq

\* The frontend of the old list is online, and nothing is added to the one that
\* has its index by now.
VisitSkips ==
  /\ Visiting
  /\ \/ ~record[round.over][Visited].connected
     \/ round.at <= Len(List) /\ ~MayAdd(record[Now][List[round.at]])
  /\ round' = Onward
  /\ UNCHANGED <<arrays, record, handler, player, taking, down, history>>

VisitAdds ==
  /\ Visiting /\ record[round.over][Visited].connected
  /\ round.at <= Len(List) /\ MayAdd(record[Now][List[round.at]])
  /\ round' = [phase |-> "adding", over |-> round.over, at |-> round.at,
               into |-> Now, of |-> List[round.at], age |-> 0]
  /\ UNCHANGED <<arrays, record, handler, player, taking, down, history>>

\* The list has no such index any more.
VisitPanics ==
  /\ Visiting /\ record[round.over][Visited].connected /\ round.at > Len(List)
  /\ down' = TRUE
  /\ UNCHANGED <<arrays, record, handler, player, taking, round, history>>

\* Tokens++
ReadBucket ==
  /\ ~down /\ round.phase = "adding"
  /\ round' = [phase |-> "writing", over |-> round.over, at |-> round.at,
               into |-> round.into, of |-> round.of, age |-> round.age,
               saw |-> record[round.into][round.of].tokens]
  /\ UNCHANGED <<arrays, record, handler, player, taking, down, history>>

AddToken ==
  /\ ~down /\ round.phase = "writing"
  /\ record' = [record EXCEPT ![round.into][round.of].tokens = round.saw + 1,
                              ![round.into][round.of].age = round.age]
  /\ round' = Onward
  /\ raced' = raced \cup {g \in {round.of} : record[round.into][g].tokens # round.saw}
  /\ UNCHANGED <<arrays, handler, player, taking, down, uses, sent>>

EndRound ==
  /\ ~down /\ round.phase = "visiting" /\ round.at > Len(arrays[round.over])
  /\ round' = Asleep
  /\ UNCHANGED <<arrays, record, handler, player, taking, down, history>>

-----------------------------------------------------------------------------
(* Everything else.                                                        *)

\* What a list has left without f, in its order.
Without(list, f) ==
  LET kept == {i \in DOMAIN list : list[i] # f} IN
  {[i \in DOMAIN q |-> list[q[i]]] :
     q \in {o \in [1..Cardinality(kept) -> kept] : \A i, j \in DOMAIN o : i < j => o[i] < o[j]}}

\* Copies of the other records take the place of be.frontends.
DeleteFrontend(f) ==
  /\ ~down /\ Now < MaxArrays /\ \E i \in DOMAIN List : List[i] = f
  /\ \E rest \in Without(List, f) : arrays' = Append(arrays, rest)
  /\ record' = [record EXCEPT ![Now + 1] = record[Now]]
  /\ UNCHANGED <<handler, player, taking, round, down, history>>

\* A second passes.
Tick ==
  /\ ~down
  /\ record' = [n \in Arrays |-> [f \in Frontends |->
                 [record[n][f] EXCEPT !.age = Older(@, BucketAge)]]]
  /\ player' = [f \in Frontends |-> [c \in Clients |->
                 [player[f][c] EXCEPT !.age = Older(@, PlayerAge)]]]
  /\ round' = IF round.phase \in {"adding", "writing"}
                THEN [round EXCEPT !.age = Older(@, BucketAge)] ELSE round
  /\ uses' = [f \in Frontends |-> [i \in DOMAIN uses[f] |-> Older(uses[f][i], BucketAge)]]
  /\ sent' = [f \in Frontends |-> [c \in Clients |->
               [i \in DOMAIN sent[f][c] |-> Older(sent[f][c][i], PlayerAge)]]]
  /\ UNCHANGED <<arrays, handler, taking, down, raced>>

\* The process is started again, with the frontends that are left.
Restart ==
  /\ down /\ down' = FALSE
  /\ arrays' = <<List>>
  /\ record' = [n \in Arrays |-> [f \in Frontends |-> NoRecord]]
  /\ handler' = [f \in Frontends |-> 0]
  /\ player' = [f \in Frontends |-> [c \in Clients |-> NoPlayer]]
  /\ taking' = [f \in Frontends |-> Idle]
  /\ round' = Asleep
  /\ uses' = [f \in Frontends |-> <<>>]
  /\ sent' = [f \in Frontends |-> [c \in Clients |-> <<>>]]
  /\ raced' = {}

-----------------------------------------------------------------------------
Maintenance ==
  \/ StartRound \/ VisitSkips \/ VisitAdds \/ VisitPanics
  \/ ReadBucket \/ AddToken \/ EndRound

Next ==
  \/ \E f \in Frontends :
       \/ Connect(f) \/ Disconnect(f) \/ DeleteFrontend(f)
       \/ ReadTokens(f) \/ TakeToken(f) \/ CountTeleport(f)
       \/ \E c \in Clients :
            \/ Join(f, c) \/ Leave(f, c) \/ Invite(f, c) \/ InviteOfNobody(f, c)
            \/ \E g \in Frontends : Teleport(f, c, g)
  \/ Maintenance
  \/ Tick
  \/ Restart

Spec == Init /\ [][Next]_vars

\* Maintenance runs for ever in a goroutine of its own, time passes, and an
\* invite that is under way is finished.
FairSpec ==
  /\ Spec /\ WF_vars(Maintenance) /\ WF_vars(Tick)
  /\ \A f \in Live : WF_vars(ReadTokens(f) \/ TakeToken(f))
=============================================================================
