--------------------------- MODULE Invites_proofs ---------------------------
(***************************************************************************)
(* For every number of frontends, players, tokens and arrays: buckets keep *)
(* their bounds (BoundInv), a player has to wait for more invites than the *)
(* slot counts (PlayerInv), and a server for more than its bucket holds    *)
(* and an interval adds (Rated).                                           *)
(***************************************************************************)
EXTENDS InvitesProps, FiniteSetTheorems, TLAPS

-----------------------------------------------------------------------------
(* The invariants.                                                         *)

\* An index of a list.
AtSomewhere == round.phase # "asleep" => round.at # 0

\* An invite under way belongs to a connection.
Held == \A f \in Frontends : taking[f].phase \in {"inviting", "taking"} => handler[f] # 0

\* And it has a token to take, whatever maintenance has done meanwhile.
Covered ==
  \A f \in Frontends :
    /\ taking[f].phase = "inviting" => Tokens(f) # 0
    /\ taking[f].phase = "taking" => taking[f].saw # 0

TypeInv == TypeOK /\ AtSomewhere /\ Held /\ Covered

\* A bucket that is being added to has room, but for a race.
Bounded ==
  \A f \in Frontends : handler[f] # 0 /\ f \notin raced =>
    /\ Tokens(f) <= MaxInviteTokens
    /\ AddingTo(handler[f], f) => Tokens(f) < MaxInviteTokens

BoundInv == TypeInv /\ Bounded

-----------------------------------------------------------------------------
(* Records and what is done to them.                                       *)

LEMMA RecordParts ==
  ASSUME NEW r \in Record
  PROVE  r.connected \in BOOLEAN /\ r.tokens \in Nat /\ r.age \in BucketAge
BY DEF Record

LEMMA RecordAdded ==
  ASSUME NEW r \in Record, NEW k \in Nat, NEW a \in BucketAge
  PROVE  [r EXCEPT !.tokens = k, !.age = a] \in Record
         /\ [r EXCEPT !.tokens = k, !.age = a].tokens = k
BY DEF Record

LEMMA NewRecords ==
  /\ NoRecord \in Record
  /\ [connected |-> TRUE, tokens |-> MaxInviteTokens, age |-> Freq + 1] \in Record
<1>1. 0 \in Nat /\ MaxInviteTokens \in Nat /\ Freq + 1 \in BucketAge
  BY BucketAssumption DEF BucketAge
<1> QED
  BY <1>1 DEF NoRecord, Record

LEMMA NewPlayers ==
  /\ NoPlayer \in Player
  /\ [NoPlayer EXCEPT !.here = TRUE] \in Player
<1>1. 0 \in 0..PlayerTokens /\ PlayerWait + 1 \in PlayerAge
  BY PlayerAssumption DEF PlayerAge
<1> QED
  BY <1>1 DEF NoPlayer, Player

\* One record changes.
LEMMA OneRecord ==
  ASSUME record \in [Arrays -> [Frontends -> Record]],
         NEW n \in Arrays, NEW f \in Frontends, NEW r \in Record,
         record' = [record EXCEPT ![n][f] = r]
  PROVE  /\ record' \in [Arrays -> [Frontends -> Record]]
         /\ record'[n][f] = r
         /\ \A m \in Arrays, g \in Frontends : m # n \/ g # f => record'[m][g] = record[m][g]
OBVIOUS

\* The list is one of the arrays, and handlers point into one.
LEMMA NowParts ==
  ASSUME TypeOK
  PROVE  /\ Now \in Arrays /\ Now \in DOMAIN arrays /\ List \in Seq(Frontends)
         /\ \A f \in Frontends : handler[f] # 0 => handler[f] \in Arrays
<1>1. Len(arrays) \in 1..MaxArrays /\ DOMAIN arrays = 1..Len(arrays)
  BY DEF TypeOK, Arrays
<1>2. \A f \in Frontends : handler[f] \in 0..Len(arrays)
  BY DEF TypeOK
<1>3. \A f \in Frontends : handler[f] # 0 => handler[f] \in Arrays
  BY <1>1, <1>2, ArraysAssumption DEF Arrays
<1>4. Now \in Arrays /\ Now \in DOMAIN arrays
  BY <1>1 DEF Now, Arrays
<1>5. List \in Seq(Frontends)
  BY <1>4 DEF List, TypeOK
<1> QED
  BY <1>3, <1>4, <1>5

LEMMA TokensAreNat ==
  ASSUME TypeOK, NEW f \in Frontends, handler[f] # 0
  PROVE  Tokens(f) \in Nat /\ record[handler[f]][f] \in Record
<1>1. handler[f] \in Arrays
  BY NowParts
<1>2. record[handler[f]][f] \in Record
  BY <1>1 DEF TypeOK
<1> QED
  BY <1>2, RecordParts DEF Tokens

LEMMA TakingParts ==
  ASSUME NEW t \in Taking
  PROVE  t.phase \in {"idle", "inviting", "taking", "teleporting"}
         /\ (t.phase = "taking" => t.saw \in Nat)
BY DEF Taking

\* One handler takes a step.
LEMMA OneTaking ==
  ASSUME taking \in [Frontends -> Taking], NEW f \in Frontends, NEW t \in Taking,
         taking' = [taking EXCEPT ![f] = t]
  PROVE  /\ taking' \in [Frontends -> Taking] /\ taking'[f] = t
         /\ \A g \in Frontends : g # f => taking'[g] = taking[g]
OBVIOUS

LEMMA RoundParts ==
  ASSUME NEW r \in Round
  PROVE  /\ r.phase \in {"asleep", "visiting", "adding", "writing"}
         /\ r.phase # "asleep" => r.over \in Arrays /\ r.at \in Nat
         /\ r.phase \in {"adding", "writing"} =>
              r.into \in Arrays /\ r.of \in Frontends /\ r.age \in BucketAge
         /\ r.phase = "writing" => r.saw \in Nat
BY DEF Round

LEMMA OlderAge ==
  ASSUME NEW ages, NEW a \in ages
  PROVE  Older(a, ages) \in ages
BY DEF Older

LEMMA OlderAges ==
  ASSUME NEW ages, NEW s \in Seq(ages)
  PROVE  [i \in DOMAIN s |-> Older(s[i], ages)] \in Seq(ages)
<1>1. \A i \in 1..Len(s) : Older(s[i], ages) \in ages
  BY OlderAge
<1>2. DOMAIN s = 1..Len(s) /\ Len(s) \in Nat
  OBVIOUS
<1>3. [i \in 1..Len(s) |-> Older(s[i], ages)] \in Seq(ages)
  BY <1>1, <1>2
<1> QED
  BY <1>2, <1>3

LEMMA NewestAges ==
  ASSUME NEW ages, NEW a \in ages, NEW s \in Seq(ages), NEW n \in Nat \ {0}
  PROVE  Newest(a, s, n) \in Seq(ages)
<1>1. <<a>> \in Seq(ages)
  OBVIOUS
<1>2. CASE Len(s) < n
  BY <1>1, <1>2 DEF Newest
<1>3. CASE ~(Len(s) < n)
  <2>1. n - 1 \in 0..Len(s)
    BY <1>3
  <2>2. SubSeq(s, 1, n - 1) \in Seq(ages)
    BY <2>1
  <2> QED
    BY <1>1, <1>3, <2>2 DEF Newest
<1> QED
  BY <1>2, <1>3

\* What a list has left is a list.
LEMMA WithoutIsList ==
  ASSUME NEW list \in Seq(Frontends), NEW f
  PROVE  Without(list, f) \subseteq Seq(Frontends)
<1> DEFINE K == {i \in DOMAIN list : list[i] # f}
<1>1. IsFiniteSet(K)
  <2>1. DOMAIN list = 1..Len(list) /\ 1 \in Int /\ Len(list) \in Int
    OBVIOUS
  <2>2. IsFiniteSet(1..Len(list)) /\ K \in SUBSET (1..Len(list))
    BY <2>1, FS_Interval
  <2> QED
    BY <2>2, FS_Subset
<1>2. Cardinality(K) \in Nat
  BY <1>1, FS_CardinalityType
<1>3. \A k \in K : list[k] \in Frontends
  OBVIOUS
<1> SUFFICES ASSUME NEW q \in [1..Cardinality(K) -> K]
             PROVE  [i \in DOMAIN q |-> list[q[i]]] \in Seq(Frontends)
  BY DEF Without
<1> HIDE DEF K
<1>4. DOMAIN q = 1..Cardinality(K) /\ \A i \in 1..Cardinality(K) : list[q[i]] \in Frontends
  BY <1>3
<1>5. [i \in 1..Cardinality(K) |-> list[q[i]]] \in Seq(Frontends)
  BY <1>2, <1>4
<1> QED
  BY <1>4, <1>5

-----------------------------------------------------------------------------
(* Each step keeps the invariants.                                         *)

LEMMA InitBound == Init => BoundInv
<1> SUFFICES ASSUME Init PROVE BoundInv
  OBVIOUS
<1>1. arrays \in Seq(Seq(Frontends)) /\ Len(arrays) \in Arrays
  BY ListAssumption, ArraysAssumption DEF Init, Arrays
<1>2. record \in [Arrays -> [Frontends -> Record]] /\ player \in [Frontends -> [Clients -> Player]]
  BY NewRecords, NewPlayers DEF Init
<1>3. handler \in [Frontends -> 0..Len(arrays)]
  BY DEF Init
<1>4. taking \in [Frontends -> Taking] /\ round \in Round
  BY DEF Init, Idle, Taking, Asleep, Round
<1>5. /\ uses \in [Frontends -> Seq(BucketAge)]
      /\ sent \in [Frontends -> [Clients -> Seq(PlayerAge)]]
  BY DEF Init
<1>6. TypeOK
  BY <1>1, <1>2, <1>3, <1>4, <1>5 DEF Init, TypeOK
<1>7. AtSomewhere /\ Held /\ Covered /\ Bounded
  BY DEF Init, AtSomewhere, Held, Covered, Bounded, Idle, Asleep
<1> QED
  BY <1>6, <1>7 DEF BoundInv, TypeInv

LEMMA ConnectBound ==
  ASSUME BoundInv, NEW f \in Frontends, Connect(f)
  PROVE  BoundInv'
<1>1. TypeOK /\ AtSomewhere /\ Held /\ Covered /\ Bounded
  BY DEF BoundInv, TypeInv
<1> DEFINE r == [connected |-> TRUE, tokens |-> MaxInviteTokens, age |-> Freq + 1]
<1>2. r \in Record /\ r.tokens = MaxInviteTokens
  BY NewRecords
<1>3. /\ handler[f] = 0 /\ handler' = [handler EXCEPT ![f] = Now]
      /\ record' = [record EXCEPT ![Now][f] = r]
      /\ player' = [player EXCEPT ![f] = [c \in Clients |-> NoPlayer]]
      /\ uses' = [uses EXCEPT ![f] = <<>>]
      /\ sent' = [sent EXCEPT ![f] = [c \in Clients |-> <<>>]]
      /\ raced' = (raced \ {f}) \cup {g \in {f} : AddingTo(Now, g)}
      /\ UNCHANGED <<arrays, taking, round, down>>
  BY DEF Connect
<1> HIDE DEF r
<1>4. /\ record' \in [Arrays -> [Frontends -> Record]]
      /\ record'[Now][f] = r
      /\ \A m \in Arrays, g \in Frontends : m # Now \/ g # f => record'[m][g] = record[m][g]
  BY <1>1, <1>2, <1>3, NowParts, OneRecord DEF TypeOK
<1>5. handler' \in [Frontends -> 0..Len(arrays')]
  BY <1>1, <1>3 DEF TypeOK, Now, Arrays
<1>6. TypeOK'
  <2>1. player' \in [Frontends -> [Clients -> Player]]
    BY <1>1, <1>3, NewPlayers DEF TypeOK
  <2>2. uses' \in [Frontends -> Seq(BucketAge)]
    BY <1>1, <1>3 DEF TypeOK
  <2>3. sent' \in [Frontends -> [Clients -> Seq(PlayerAge)]]
    <3>1. [c \in Clients |-> <<>>] \in [Clients -> Seq(PlayerAge)]
      OBVIOUS
    <3> QED
      BY <1>1, <1>3, <3>1 DEF TypeOK
  <2>4. raced' \subseteq Frontends
    BY <1>1, <1>3 DEF TypeOK
  <2> QED
    BY <1>1, <1>3, <1>4, <1>5, <2>1, <2>2, <2>3, <2>4 DEF TypeOK
<1>7. Now # 0 /\ Now \in Arrays
  BY <1>1, NowParts DEF Arrays
<1>8. handler'[f] = Now /\ \A g \in Frontends : g # f => handler'[g] = handler[g]
  BY <1>1, <1>3 DEF TypeOK
<1>9. \A g \in Frontends : g # f /\ handler[g] # 0 => Tokens(g)' = Tokens(g)
  BY <1>1, <1>4, <1>8, NowParts DEF Tokens
<1>10. AtSomewhere' /\ Held'
  BY <1>1, <1>3, <1>7, <1>8 DEF AtSomewhere, Held
<1>11. Covered'
  <2>1. taking[f].phase \notin {"inviting", "taking"}
    BY <1>1, <1>3 DEF Held
  <2> QED
    BY <1>1, <1>3, <1>9, <2>1 DEF Covered, Held
<1>12. Bounded'
  <2>1. ASSUME NEW g \in Frontends, g # f, handler'[g] # 0, g \notin raced'
        PROVE  /\ Tokens(g)' <= MaxInviteTokens
               /\ AddingTo(handler[g], g)' => Tokens(g)' < MaxInviteTokens
    <3>1. g \notin raced /\ handler[g] # 0 /\ handler'[g] = handler[g]
      BY <1>3, <1>8, <2>1
    <3>2. AddingTo(handler[g], g)' => AddingTo(handler[g], g)
      BY <1>3, <3>1 DEF AddingTo
    <3> QED
      BY <1>1, <1>9, <2>1, <3>1, <3>2 DEF Bounded
  <2>2. ASSUME f \notin raced'
        PROVE  /\ Tokens(f)' <= MaxInviteTokens
               /\ AddingTo(handler[f], f)' => Tokens(f)' < MaxInviteTokens
    <3>1. Tokens(f)' = MaxInviteTokens
      BY <1>2, <1>4, <1>8 DEF Tokens
    <3>2. ~AddingTo(handler[f], f)'
      BY <1>3, <1>8, <2>2 DEF AddingTo
    <3> QED
      BY <3>1, <3>2, BucketAssumption
  <2> QED
    BY <2>1, <2>2 DEF Bounded
<1> QED
  BY <1>6, <1>10, <1>11, <1>12 DEF BoundInv, TypeInv

LEMMA DisconnectBound ==
  ASSUME BoundInv, NEW f \in Frontends, Disconnect(f)
  PROVE  BoundInv'
<1>1. TypeOK /\ AtSomewhere /\ Held /\ Covered /\ Bounded
  BY DEF BoundInv, TypeInv
<1> DEFINE n == handler[f]
           r == [record[n][f] EXCEPT !.connected = FALSE]
<1>2. /\ handler[f] # 0 /\ taking[f] = Idle /\ handler' = [handler EXCEPT ![f] = 0]
      /\ record' = [record EXCEPT ![n][f] = r]
      /\ UNCHANGED <<arrays, player, taking, round, down, uses, sent, raced>>
  BY DEF Disconnect, Reading, history
<1>3. r \in Record
  <2>1. record[n][f] \in Record /\ FALSE \in BOOLEAN
    BY <1>1, <1>2, TokensAreNat
  <2> QED
    BY <2>1 DEF Record
<1>4. n \in Arrays
  BY <1>1, <1>2, NowParts
<1> HIDE DEF r
<1>5. /\ record' \in [Arrays -> [Frontends -> Record]]
      /\ \A m \in Arrays, g \in Frontends : m # n \/ g # f => record'[m][g] = record[m][g]
  BY <1>1, <1>2, <1>3, <1>4, OneRecord DEF TypeOK
<1>6. handler' \in [Frontends -> 0..Len(arrays')]
  BY <1>1, <1>2 DEF TypeOK, Arrays
<1>7. TypeOK'
  BY <1>1, <1>2, <1>5, <1>6 DEF TypeOK
<1>8. handler'[f] = 0 /\ \A g \in Frontends : g # f => handler'[g] = handler[g]
  BY <1>1, <1>2 DEF TypeOK
<1>9. \A g \in Frontends : g # f /\ handler[g] # 0 => Tokens(g)' = Tokens(g)
  BY <1>1, <1>5, <1>8, NowParts DEF Tokens
<1>10. AtSomewhere' /\ Held' /\ Covered'
  BY <1>1, <1>2, <1>8, <1>9 DEF AtSomewhere, Held, Covered, Idle
<1>11. Bounded'
  BY <1>1, <1>2, <1>8, <1>9 DEF Bounded, AddingTo
<1> QED
  BY <1>7, <1>10, <1>11 DEF BoundInv, TypeInv

\* A slot changes.
LEMMA PlayerBound ==
  ASSUME BoundInv, player' \in [Frontends -> [Clients -> Player]],
         sent' \in [Frontends -> [Clients -> Seq(PlayerAge)]],
         UNCHANGED <<arrays, record, handler, taking, round, down, uses, raced>>
  PROVE  BoundInv'
<1>1. TypeOK'
  BY DEF BoundInv, TypeInv, TypeOK
<1> QED
  BY <1>1 DEF BoundInv, TypeInv, AtSomewhere, Held, Covered, Bounded, Tokens, AddingTo

LEMMA JoinLeaveBound ==
  ASSUME BoundInv, NEW f \in Frontends, NEW c \in Clients, Join(f, c) \/ Leave(f, c)
  PROVE  BoundInv'
<1>1. TypeOK
  BY DEF BoundInv, TypeInv
<1>2. player' \in [Frontends -> [Clients -> Player]]
  <2>1. \E p \in Player : player' = [player EXCEPT ![f][c] = p]
    BY NewPlayers DEF Join, Leave
  <2> QED
    BY <1>1, <2>1 DEF TypeOK
<1>3. sent' \in [Frontends -> [Clients -> Seq(PlayerAge)]]
  <2>1. CASE Join(f, c)
    <3>1. sent' = [sent EXCEPT ![f][c] = <<>>] /\ <<>> \in Seq(PlayerAge)
      BY <2>1 DEF Join
    <3> QED
      BY <1>1, <3>1 DEF TypeOK
  <2>2. CASE Leave(f, c)
    BY <1>1, <2>2 DEF Leave, TypeOK, history
  <2> QED
    BY <2>1, <2>2
<1> QED
  BY <1>2, <1>3, PlayerBound DEF Join, Leave, history

LEMMA PlayerUsed ==
  ASSUME NEW p \in Player
  PROVE  [p EXCEPT !.available = Left(p) - 1, !.age = 0] \in Player
<1>1. p.available \in 0..PlayerTokens
  BY DEF Player
<1>2. Left(p) - 1 \in 0..PlayerTokens /\ 0 \in PlayerAge
  BY <1>1, PlayerAssumption DEF Left, PlayerAge
<1> QED
  BY <1>2 DEF Player

LEMMA InviteBound ==
  ASSUME BoundInv, NEW f \in Frontends, NEW c \in Clients, Invite(f, c)
  PROVE  BoundInv'
<1>1. TypeOK /\ AtSomewhere /\ Held /\ Covered /\ Bounded
  BY DEF BoundInv, TypeInv
<1> DEFINE p == player[f][c]
           x == [p EXCEPT !.available = Left(p) - 1, !.age = 0]
           u == Newest(0, uses[f], MaxInviteTokens + 1)
           v == Newest(0, sent[f][c], PlayerTokens)
           q == [phase |-> "inviting"]
<1>2. /\ handler[f] # 0 /\ Tokens(f) # 0
      /\ player' = [player EXCEPT ![f][c] = x]
      /\ taking' = [taking EXCEPT ![f] = q]
      /\ uses' = [uses EXCEPT ![f] = u]
      /\ sent' = [sent EXCEPT ![f][c] = v]
      /\ UNCHANGED <<arrays, record, handler, round, down, raced>>
  BY <1>1 DEF Invite, Reading, TypeOK
<1>3. x \in Player
  <2>1. p \in Player
    BY <1>1 DEF TypeOK
  <2> HIDE DEF p
  <2> QED
    BY <2>1, PlayerUsed
<1>4. u \in Seq(BucketAge)
  <2>1. uses[f] \in Seq(BucketAge) /\ 0 \in BucketAge /\ MaxInviteTokens + 1 \in Nat \ {0}
    BY <1>1, BucketAssumption DEF TypeOK, BucketAge
  <2> QED
    BY <2>1, NewestAges
<1>5. v \in Seq(PlayerAge)
  <2>1. sent[f][c] \in Seq(PlayerAge) /\ 0 \in PlayerAge /\ PlayerTokens \in Nat \ {0}
    BY <1>1, PlayerAssumption DEF TypeOK, PlayerAge
  <2> QED
    BY <2>1, NewestAges
<1>6. q \in Taking /\ q.phase = "inviting"
  BY DEF Taking
<1> HIDE DEF x, u, v, q
<1>7. /\ taking' \in [Frontends -> Taking] /\ taking'[f] = q
      /\ \A g \in Frontends : g # f => taking'[g] = taking[g]
  BY <1>1, <1>2, <1>6, OneTaking DEF TypeOK
<1>8. TypeOK'
  <2>1. player' \in [Frontends -> [Clients -> Player]]
    BY <1>1, <1>2, <1>3 DEF TypeOK
  <2>2. uses' \in [Frontends -> Seq(BucketAge)]
    BY <1>1, <1>2, <1>4 DEF TypeOK
  <2>3. sent' \in [Frontends -> [Clients -> Seq(PlayerAge)]]
    BY <1>1, <1>2, <1>5 DEF TypeOK
  <2> QED
    BY <1>1, <1>2, <1>7, <2>1, <2>2, <2>3 DEF TypeOK
<1>9. AtSomewhere' /\ Held' /\ Covered' /\ Bounded'
  BY <1>1, <1>2, <1>6, <1>7 DEF AtSomewhere, Held, Covered, Bounded, Tokens, AddingTo
<1> QED
  BY <1>8, <1>9 DEF BoundInv, TypeInv

\* The process dies, and nothing else changes.
LEMMA PanicBound ==
  ASSUME BoundInv, down' = TRUE,
         UNCHANGED <<arrays, record, handler, player, taking, round, uses, sent, raced>>
  PROVE  BoundInv'
<1>1. TypeOK'
  BY DEF BoundInv, TypeInv, TypeOK
<1> QED
  BY <1>1 DEF BoundInv, TypeInv, AtSomewhere, Held, Covered, Bounded, Tokens, AddingTo

\* A handler gets on, and no record changes.
LEMMA TakingBound ==
  ASSUME BoundInv, NEW f \in Frontends, NEW q \in Taking,
         taking' = [taking EXCEPT ![f] = q],
         q.phase # "inviting",
         q.phase = "taking" => q.saw # 0 /\ handler[f] # 0,
         UNCHANGED <<arrays, record, handler, player, round, down, uses, sent, raced>>
  PROVE  BoundInv'
<1>1. TypeOK /\ AtSomewhere /\ Held /\ Covered /\ Bounded
  BY DEF BoundInv, TypeInv
<1>2. /\ taking' \in [Frontends -> Taking] /\ taking'[f] = q
      /\ \A g \in Frontends : g # f => taking'[g] = taking[g]
  BY <1>1, OneTaking DEF TypeOK
<1>3. TypeOK'
  BY <1>1, <1>2 DEF TypeOK
<1>4. AtSomewhere' /\ Held' /\ Covered' /\ Bounded'
  BY <1>1, <1>2 DEF AtSomewhere, Held, Covered, Bounded, Tokens, AddingTo
<1> QED
  BY <1>3, <1>4 DEF BoundInv, TypeInv

LEMMA ReadTokensBound ==
  ASSUME BoundInv, NEW f \in Frontends, ReadTokens(f)
  PROVE  BoundInv'
<1>1. TypeOK /\ Held /\ Covered
  BY DEF BoundInv, TypeInv
<1> DEFINE q == [phase |-> "taking", saw |-> Tokens(f)]
<1>2. taking[f].phase = "inviting" /\ taking' = [taking EXCEPT ![f] = q]
      /\ UNCHANGED <<arrays, record, handler, player, round, down, uses, sent, raced>>
  BY DEF ReadTokens, history
<1>3. handler[f] # 0 /\ Tokens(f) # 0
  BY <1>1, <1>2 DEF Held, Covered
<1>4. q \in Taking /\ q.phase = "taking" /\ q.saw = Tokens(f)
  <2>1. Tokens(f) \in Nat
    BY <1>1, <1>3, TokensAreNat
  <2> QED
    BY <2>1 DEF Taking
<1> HIDE DEF q
<1> QED
  BY <1>2, <1>3, <1>4, TakingBound

LEMMA TeleportBound ==
  ASSUME BoundInv, NEW f \in Frontends, NEW c \in Clients, NEW g \in Frontends, Teleport(f, c, g)
  PROVE  BoundInv'
<1>1. PICK i \in DOMAIN List : taking' = [taking EXCEPT ![f] = [phase |-> "teleporting", at |-> i]]
  BY DEF Teleport
<1>2. i \in Nat
  BY NowParts DEF BoundInv, TypeInv
<1>3. [phase |-> "teleporting", at |-> i] \in Taking
  BY <1>2 DEF Taking
<1> QED
  BY <1>1, <1>3, TakingBound DEF Teleport, history

LEMMA CountTeleportBound ==
  ASSUME BoundInv, NEW f \in Frontends, CountTeleport(f)
  PROVE  BoundInv'
<1>1. CASE taking[f].at <= Len(List)
  <2>1. taking' = [taking EXCEPT ![f] = Idle]
        /\ UNCHANGED <<arrays, record, handler, player, round, down, uses, sent, raced>>
    BY <1>1 DEF CountTeleport, history
  <2>2. Idle \in Taking /\ Idle.phase = "idle"
    BY DEF Idle, Taking
  <2> QED
    BY <2>1, <2>2, TakingBound
<1>2. CASE ~(taking[f].at <= Len(List))
  BY <1>2, PanicBound DEF CountTeleport, history
<1> QED
  BY <1>1, <1>2

LEMMA TakeTokenBound ==
  ASSUME BoundInv, NEW f \in Frontends, TakeToken(f)
  PROVE  BoundInv'
<1>1. TypeOK /\ AtSomewhere /\ Held /\ Covered /\ Bounded
  BY DEF BoundInv, TypeInv
<1> DEFINE n == handler[f]
           saw == taking[f].saw
           r == [record[n][f] EXCEPT !.tokens = saw - 1]
<1>2. /\ taking[f].phase = "taking"
      /\ record' = [record EXCEPT ![n][f] = r]
      /\ taking' = [taking EXCEPT ![f] = Idle]
      /\ raced' = raced \cup {g \in {f} : Tokens(g) # saw}
      /\ UNCHANGED <<arrays, handler, player, round, down, uses, sent>>
  BY DEF TakeToken, Taken
<1>3. n # 0 /\ n \in Arrays /\ saw \in Nat /\ saw # 0
  BY <1>1, <1>2, NowParts, TakingParts DEF Held, Covered, TypeOK
<1>4. r \in Record /\ r.tokens = saw - 1
  <2>1. record[n][f] \in Record /\ saw - 1 \in Nat
    BY <1>1, <1>3, TokensAreNat
  <2> QED
    BY <2>1 DEF Record
<1>5. Idle \in Taking /\ Idle.phase = "idle"
  BY DEF Idle, Taking
<1> HIDE DEF r
<1>6. /\ record' \in [Arrays -> [Frontends -> Record]] /\ record'[n][f] = r
      /\ \A m \in Arrays, g \in Frontends : m # n \/ g # f => record'[m][g] = record[m][g]
  BY <1>1, <1>2, <1>3, <1>4, OneRecord DEF TypeOK
<1>7. /\ taking' \in [Frontends -> Taking] /\ taking'[f] = Idle
      /\ \A g \in Frontends : g # f => taking'[g] = taking[g]
  BY <1>1, <1>2, <1>5, OneTaking DEF TypeOK
<1>8. TypeOK'
  BY <1>1, <1>2, <1>6, <1>7 DEF TypeOK
<1>9. \A g \in Frontends : g # f /\ handler[g] # 0 => Tokens(g)' = Tokens(g)
  BY <1>1, <1>2, <1>6, NowParts DEF Tokens
<1>10. AtSomewhere' /\ Held' /\ Covered'
  BY <1>1, <1>2, <1>5, <1>7, <1>9 DEF AtSomewhere, Held, Covered
<1>11. Bounded'
  <2>1. ASSUME NEW g \in Frontends, g # f, handler'[g] # 0, g \notin raced'
        PROVE  /\ Tokens(g)' <= MaxInviteTokens
               /\ AddingTo(handler[g], g)' => Tokens(g)' < MaxInviteTokens
    BY <1>1, <1>2, <1>9, <2>1 DEF Bounded, AddingTo
  <2>2. ASSUME f \notin raced'
        PROVE  Tokens(f)' < MaxInviteTokens
    <3>1. f \notin raced /\ Tokens(f) = saw
      BY <1>2, <2>2
    <3>2. saw <= MaxInviteTokens
      BY <1>1, <1>3, <3>1 DEF Bounded
    <3>3. Tokens(f)' = saw - 1
      BY <1>2, <1>4, <1>6 DEF Tokens
    <3> QED
      BY <1>3, <3>2, <3>3, BucketAssumption
  <2> QED
    BY <1>4, <1>2, <1>6, <2>1, <2>2, BucketAssumption, <1>3 DEF Bounded, Tokens
<1> QED
  BY <1>8, <1>10, <1>11 DEF BoundInv, TypeInv

-----------------------------------------------------------------------------
(* Maintenance.                                                            *)

\* Maintenance goes on, and no record changes.
LEMMA RoundBound ==
  ASSUME BoundInv, round' \in Round, AtSomewhere',
         \A f \in Frontends : handler[f] # 0 /\ AddingTo(handler[f], f)' =>
            AddingTo(handler[f], f) \/ Tokens(f) < MaxInviteTokens,
         UNCHANGED <<arrays, record, handler, player, taking, down, uses, sent, raced>>
  PROVE  BoundInv'
<1>1. TypeOK /\ AtSomewhere /\ Held /\ Covered /\ Bounded
  BY DEF BoundInv, TypeInv
<1>2. TypeOK'
  BY <1>1 DEF TypeOK
<1>3. Held' /\ Covered' /\ Bounded'
  BY <1>1 DEF Held, Covered, Bounded, Tokens
<1> QED
  BY <1>2, <1>3 DEF BoundInv, TypeInv

\* The next index.
LEMMA OnwardRound ==
  ASSUME TypeOK, round.phase # "asleep", AtSomewhere
  PROVE  Onward \in Round /\ Onward.phase = "visiting" /\ Onward.at # 0
<1>1. round.over \in Arrays /\ round.at \in Nat
  BY RoundParts DEF TypeOK
<1> QED
  BY <1>1 DEF Onward, Round

LEMMA QuietMaintenance ==
  ASSUME BoundInv, StartRound \/ VisitSkips \/ EndRound
  PROVE  BoundInv'
<1>1. TypeOK /\ AtSomewhere
  BY DEF BoundInv, TypeInv
<1>2. UNCHANGED <<arrays, record, handler, player, taking, down, uses, sent, raced>>
  BY DEF StartRound, VisitSkips, EndRound, history
<1>3. round' \in Round /\ round'.phase \in {"asleep", "visiting"} /\ AtSomewhere'
  <2>1. CASE StartRound
    BY <1>1, <2>1, NowParts DEF StartRound, Round, AtSomewhere
  <2>2. CASE VisitSkips
    BY <1>1, <2>2, OnwardRound DEF VisitSkips, Visiting, AtSomewhere
  <2>3. CASE EndRound
    BY <2>3 DEF EndRound, Asleep, Round, AtSomewhere
  <2> QED
    BY <2>1, <2>2, <2>3
<1> QED
  BY <1>2, <1>3, RoundBound DEF AddingTo

LEMMA VisitAddsBound ==
  ASSUME BoundInv, VisitAdds
  PROVE  BoundInv'
<1>1. TypeOK /\ AtSomewhere
  BY DEF BoundInv, TypeInv
<1> DEFINE g == List[round.at]
           q == [phase |-> "adding", over |-> round.over, at |-> round.at,
                 into |-> Now, of |-> g, age |-> 0]
<1>2. /\ round.phase = "visiting" /\ round.at <= Len(List)
      /\ MayAdd(record[Now][g]) /\ round' = q
      /\ UNCHANGED <<arrays, record, handler, player, taking, down, uses, sent, raced>>
  BY DEF VisitAdds, Visiting, history
<1>3. round.over \in Arrays /\ round.at \in Nat /\ round.at # 0
  BY <1>1, <1>2, RoundParts DEF TypeOK, AtSomewhere
<1>4. g \in Frontends /\ Now \in Arrays
  <2>1. List \in Seq(Frontends) /\ Now \in Arrays
    BY <1>1, NowParts
  <2> QED
    BY <1>2, <1>3, <2>1
<1>5. q \in Round /\ q.into = Now /\ q.of = g /\ q.at = round.at
  <2>1. 0 \in BucketAge
    BY BucketAssumption DEF BucketAge
  <2> QED
    BY <1>3, <1>4, <2>1 DEF Round
<1>6. record[Now][g].tokens < MaxInviteTokens
  BY <1>2 DEF MayAdd
<1> HIDE DEF q, g
<1>7. \A f \in Frontends : AddingTo(handler[f], f)' => handler[f] = Now /\ f = g
  BY <1>2, <1>5 DEF AddingTo
<1>8. AtSomewhere'
  BY <1>2, <1>3, <1>5 DEF AtSomewhere
<1> QED
  BY <1>2, <1>5, <1>6, <1>7, <1>8, RoundBound DEF Tokens

LEMMA ReadBucketBound ==
  ASSUME BoundInv, ReadBucket
  PROVE  BoundInv'
<1>1. TypeOK /\ AtSomewhere
  BY DEF BoundInv, TypeInv
<1> DEFINE v == record[round.into][round.of].tokens
           q == [phase |-> "writing", over |-> round.over, at |-> round.at,
                 into |-> round.into, of |-> round.of, age |-> round.age, saw |-> v]
<1>2. /\ round.phase = "adding" /\ round' = q
      /\ UNCHANGED <<arrays, record, handler, player, taking, down, uses, sent, raced>>
  BY DEF ReadBucket, history
<1>3. /\ round.over \in Arrays /\ round.at \in Nat /\ round.at # 0
      /\ round.into \in Arrays /\ round.of \in Frontends /\ round.age \in BucketAge
  BY <1>1, <1>2, RoundParts DEF TypeOK, AtSomewhere
<1>4. v \in Nat
  <2>1. record[round.into][round.of] \in Record
    BY <1>1, <1>3 DEF TypeOK
  <2> QED
    BY <2>1, RecordParts
<1>5. /\ q \in Round /\ q.phase = "writing" /\ q.into = round.into /\ q.of = round.of
      /\ q.at = round.at
  BY <1>3, <1>4 DEF Round
<1> HIDE DEF q, v
<1>6. \A f \in Frontends : AddingTo(handler[f], f)' => AddingTo(handler[f], f)
  BY <1>2, <1>5 DEF AddingTo
<1>7. AtSomewhere'
  BY <1>2, <1>3, <1>5 DEF AtSomewhere
<1> QED
  BY <1>2, <1>5, <1>6, <1>7, RoundBound

LEMMA AddTokenBound ==
  ASSUME BoundInv, AddToken
  PROVE  BoundInv'
<1>1. TypeOK /\ AtSomewhere /\ Held /\ Covered /\ Bounded
  BY DEF BoundInv, TypeInv
<1>p. PICK n, g, k, a : n = round.into /\ g = round.of /\ k = round.saw /\ a = round.age
  OBVIOUS
<1> DEFINE r == [record[n][g] EXCEPT !.tokens = k + 1, !.age = a]
<1>2. /\ round.phase = "writing"
      /\ record' = [record EXCEPT ![n][g].tokens = k + 1, ![n][g].age = a]
      /\ round' = Onward
      /\ raced' = raced \cup {h \in {g} : record[n][h].tokens # k}
      /\ UNCHANGED <<arrays, handler, player, taking, down, uses, sent>>
  BY <1>p DEF AddToken
<1>3. /\ n \in Arrays /\ g \in Frontends /\ a \in BucketAge /\ k \in Nat
  BY <1>p, <1>1, <1>2, RoundParts DEF TypeOK
<1>4. r \in Record /\ r.tokens = k + 1
  <2>1. PICK d : d = record[n][g]
    OBVIOUS
  <2>2. d \in Record /\ k + 1 \in Nat
    BY <1>1, <1>3, <2>1 DEF TypeOK
  <2>3. r = [d EXCEPT !.tokens = k + 1, !.age = a]
    BY <2>1
  <2>4. [d EXCEPT !.tokens = k + 1, !.age = a] \in Record
        /\ [d EXCEPT !.tokens = k + 1, !.age = a].tokens = k + 1
    <3>1. PICK v : v = k + 1
      OBVIOUS
    <3> QED
      BY <1>3, <2>2, <3>1, RecordAdded
  <2> QED
    BY <2>3, <2>4, Zenon
<1>5. record' = [record EXCEPT ![n][g] = r]
  BY <1>1, <1>2, <1>3 DEF TypeOK, Record
<1> HIDE DEF r
<1>6. /\ record' \in [Arrays -> [Frontends -> Record]] /\ record'[n][g] = r
      /\ \A m \in Arrays, h \in Frontends : m # n \/ h # g => record'[m][h] = record[m][h]
  BY <1>1, <1>3, <1>4, <1>5, OneRecord DEF TypeOK
<1>7. Onward \in Round /\ Onward.phase = "visiting" /\ Onward.at # 0
  BY <1>1, <1>2, OnwardRound
<1>8. TypeOK'
  <2>1. raced' \subseteq Frontends
    BY <1>1, <1>2, <1>3 DEF TypeOK
  <2> QED
    BY <1>1, <1>2, <1>6, <1>7, <2>1 DEF TypeOK
<1>9. \A f \in Frontends : handler[f] # 0 /\ (handler[f] # n \/ f # g) => Tokens(f)' = Tokens(f)
  BY <1>1, <1>2, <1>6, NowParts DEF Tokens
<1>10. handler[g] = n => Tokens(g)' = k + 1
  BY <1>2, <1>4, <1>6 DEF Tokens
<1>11. AtSomewhere' /\ Held'
  BY <1>1, <1>2, <1>7 DEF AtSomewhere, Held
<1>12. Covered'
  <2>1. ASSUME NEW f \in Frontends, taking[f].phase = "inviting"
        PROVE  Tokens(f)' # 0
    <3>1. handler[f] # 0 /\ Tokens(f) # 0
      BY <1>1, <2>1 DEF Held, Covered
    <3> QED
      BY <1>3, <1>9, <1>10, <3>1
  <2> QED
    BY <1>1, <1>2, <2>1 DEF Covered
<1>13. Bounded'
  <2>1. \A f \in Frontends : ~AddingTo(handler[f], f)'
    BY <1>2, <1>7 DEF AddingTo
  <2>2. ASSUME NEW f \in Frontends, handler[f] # 0, f \notin raced'
        PROVE  Tokens(f)' <= MaxInviteTokens
    <3>1. f \notin raced
      BY <1>2, <2>2
    <3>2. CASE handler[f] # n \/ f # g
      BY <1>1, <1>9, <2>2, <3>1, <3>2 DEF Bounded
    <3>3. CASE handler[f] = n /\ f = g
      <4>1. Tokens(f) = k
        BY <1>2, <2>2, <3>3 DEF Tokens
      <4>2. Tokens(f) < MaxInviteTokens
        BY <1>p, <1>1, <1>2, <2>2, <3>1, <3>3 DEF Bounded, AddingTo
      <4> QED
        BY <1>3, <1>10, <3>3, <4>1, <4>2, BucketAssumption
    <3> QED
      BY <3>2, <3>3
  <2> QED
    BY <1>2, <2>1, <2>2 DEF Bounded
<1> QED
  BY <1>8, <1>11, <1>12, <1>13 DEF BoundInv, TypeInv

-----------------------------------------------------------------------------
(* Everything else.                                                        *)

\* A new array takes no record away from a handler.
LEMMA DeleteFrontendBound ==
  ASSUME BoundInv, NEW f \in Frontends, DeleteFrontend(f)
  PROVE  BoundInv'
<1>1. TypeOK /\ AtSomewhere /\ Held /\ Covered /\ Bounded
  BY DEF BoundInv, TypeInv
<1>2. PICK rest \in Without(List, f) : arrays' = Append(arrays, rest)
  BY DEF DeleteFrontend
<1>3. /\ Now < MaxArrays
      /\ record' = [record EXCEPT ![Now + 1] = record[Now]]
      /\ UNCHANGED <<handler, player, taking, round, down, uses, sent, raced>>
  BY DEF DeleteFrontend, history
<1>4. rest \in Seq(Frontends)
  BY <1>1, <1>2, NowParts, WithoutIsList
<1>5. arrays' \in Seq(Seq(Frontends)) /\ Len(arrays') = Len(arrays) + 1
  BY <1>1, <1>2, <1>4 DEF TypeOK
<1>6. Now \in Nat /\ Now = Len(arrays) /\ Now \in Arrays /\ Now + 1 \in Arrays
  <2>1. Len(arrays) \in 1..MaxArrays
    BY <1>1 DEF TypeOK, Arrays
  <2> QED
    BY <1>3, <2>1, ArraysAssumption DEF Now, Arrays
<1>7. record' \in [Arrays -> [Frontends -> Record]]
  BY <1>1, <1>3, <1>6 DEF TypeOK
<1>8. TypeOK'
  <2>1. Len(arrays') \in Arrays
    BY <1>5, <1>6
  <2>2. handler' \in [Frontends -> 0..Len(arrays')]
    BY <1>1, <1>3, <1>5, <1>6 DEF TypeOK
  <2> QED
    BY <1>1, <1>3, <1>5, <1>7, <2>1, <2>2 DEF TypeOK
<1>9. \A g \in Frontends : handler[g] # 0 => Tokens(g)' = Tokens(g)
  <2> SUFFICES ASSUME NEW g \in Frontends, handler[g] # 0 PROVE Tokens(g)' = Tokens(g)
    OBVIOUS
  <2>1. handler[g] \in Arrays /\ handler[g] # Now + 1
    BY <1>1, <1>6, NowParts DEF TypeOK
  <2>2. record'[handler[g]] = record[handler[g]]
    BY <1>1, <1>3, <2>1 DEF TypeOK
  <2> QED
    BY <1>3, <2>2 DEF Tokens
<1>10. AtSomewhere' /\ Held' /\ Covered'
  BY <1>1, <1>3, <1>9 DEF AtSomewhere, Held, Covered
<1>11. Bounded'
  BY <1>1, <1>3, <1>9 DEF Bounded, AddingTo
<1> QED
  BY <1>8, <1>10, <1>11 DEF BoundInv, TypeInv

\* A second changes no tokens.
LEMMA TickBound ==
  ASSUME BoundInv, Tick
  PROVE  BoundInv'
<1>1. TypeOK /\ AtSomewhere /\ Held /\ Covered /\ Bounded
  BY DEF BoundInv, TypeInv
<1>2. UNCHANGED <<arrays, handler, taking, down, raced>>
  BY DEF Tick
<1>3. \A n \in Arrays, f \in Frontends :
         record'[n][f] \in Record /\ record'[n][f].tokens = record[n][f].tokens
  <2> SUFFICES ASSUME NEW n \in Arrays, NEW f \in Frontends
               PROVE  record'[n][f] \in Record /\ record'[n][f].tokens = record[n][f].tokens
    OBVIOUS
  <2>1. record'[n][f] = [record[n][f] EXCEPT !.age = Older(record[n][f].age, BucketAge)]
    BY DEF Tick
  <2>2. record[n][f] \in Record
    BY <1>1 DEF TypeOK
  <2>3. Older(record[n][f].age, BucketAge) \in BucketAge
    BY <2>2, RecordParts, OlderAge
  <2> QED
    BY <2>1, <2>2, <2>3 DEF Record
<1>4. record' \in [Arrays -> [Frontends -> Record]]
  BY <1>3 DEF Tick
<1>5. player' \in [Frontends -> [Clients -> Player]]
  <2>1. ASSUME NEW f \in Frontends, NEW c \in Clients
        PROVE  [player[f][c] EXCEPT !.age = Older(player[f][c].age, PlayerAge)] \in Player
    <3>1. player[f][c] \in Player
      BY <1>1 DEF TypeOK
    <3>2. Older(player[f][c].age, PlayerAge) \in PlayerAge
      BY <3>1, OlderAge DEF Player
    <3> QED
      BY <3>1, <3>2 DEF Player
  <2> QED
    BY <2>1 DEF Tick
<1>6. round' \in Round /\ AtSomewhere' /\ \A f \in Frontends, n \in Arrays :
        AddingTo(n, f)' => AddingTo(n, f)
  <2>1. CASE round.phase \in {"adding", "writing"}
    <3>1. /\ round.over \in Arrays /\ round.at \in Nat /\ round.at # 0
          /\ round.into \in Arrays /\ round.of \in Frontends /\ round.age \in BucketAge
          /\ round.phase = "writing" => round.saw \in Nat
      BY <1>1, <2>1, RoundParts DEF TypeOK, AtSomewhere
    <3>2. Older(round.age, BucketAge) \in BucketAge
      BY <3>1, OlderAge
    <3>3. round' = [round EXCEPT !.age = Older(round.age, BucketAge)]
      BY <2>1 DEF Tick
    <3>4. CASE round.phase = "adding"
      BY <1>1, <3>1, <3>2, <3>3, <3>4 DEF TypeOK, Round, AtSomewhere, AddingTo
    <3>5. CASE round.phase = "writing"
      BY <1>1, <3>1, <3>2, <3>3, <3>5 DEF TypeOK, Round, AtSomewhere, AddingTo
    <3> QED
      BY <2>1, <3>4, <3>5
  <2>2. CASE round.phase \notin {"adding", "writing"}
    BY <1>1, <2>2 DEF Tick, TypeOK, AtSomewhere, AddingTo
  <2> QED
    BY <2>1, <2>2
<1>7. uses' \in [Frontends -> Seq(BucketAge)]
  BY <1>1, OlderAges DEF Tick, TypeOK
<1>8. sent' \in [Frontends -> [Clients -> Seq(PlayerAge)]]
  BY <1>1, OlderAges DEF Tick, TypeOK
<1>9. TypeOK'
  BY <1>1, <1>2, <1>4, <1>5, <1>6, <1>7, <1>8 DEF TypeOK
<1>10. \A f \in Frontends : handler[f] # 0 => Tokens(f)' = Tokens(f)
  BY <1>1, <1>2, <1>3, NowParts DEF Tokens
<1>11. Held' /\ Covered'
  BY <1>1, <1>2, <1>10 DEF Held, Covered
<1>12. Bounded'
  <2>1. \A f \in Frontends : handler[f] # 0 /\ AddingTo(handler[f], f)' => AddingTo(handler[f], f)
    BY <1>1, <1>2, <1>6, NowParts DEF AddingTo
  <2> QED
    BY <1>1, <1>2, <1>10, <2>1 DEF Bounded
<1> QED
  BY <1>6, <1>9, <1>11, <1>12 DEF BoundInv, TypeInv

LEMMA RestartBound ==
  ASSUME BoundInv, Restart
  PROVE  BoundInv'
<1>1. TypeOK
  BY DEF BoundInv, TypeInv
<1>2. arrays' \in Seq(Seq(Frontends)) /\ Len(arrays') \in Arrays /\ Len(arrays') = 1
  <2>1. List \in Seq(Frontends)
    BY <1>1, NowParts
  <2> QED
    BY <2>1, ArraysAssumption DEF Restart, Arrays
<1>3. /\ record' \in [Arrays -> [Frontends -> Record]]
      /\ player' \in [Frontends -> [Clients -> Player]]
  BY NewRecords, NewPlayers DEF Restart
<1>4. handler' \in [Frontends -> 0..Len(arrays')]
  BY <1>2 DEF Restart
<1>5. taking' \in [Frontends -> Taking] /\ round' \in Round
  BY DEF Restart, Idle, Taking, Asleep, Round
<1>6. uses' \in [Frontends -> Seq(BucketAge)] /\ sent' \in [Frontends -> [Clients -> Seq(PlayerAge)]]
  BY DEF Restart
<1>7. TypeOK'
  BY <1>2, <1>3, <1>4, <1>5, <1>6 DEF Restart, TypeOK
<1>8. AtSomewhere' /\ Held' /\ Covered' /\ Bounded'
  BY DEF Restart, AtSomewhere, Held, Covered, Bounded, Idle, Asleep
<1> QED
  BY <1>7, <1>8 DEF BoundInv, TypeInv

LEMMA StepBound == BoundInv /\ [Next]_vars => BoundInv'
<1> SUFFICES ASSUME BoundInv, [Next]_vars PROVE BoundInv'
  OBVIOUS
<1>1. ASSUME NEW f \in Frontends, Connect(f) \/ Disconnect(f) \/ DeleteFrontend(f) PROVE BoundInv'
  BY <1>1, ConnectBound, DisconnectBound, DeleteFrontendBound
<1>2. ASSUME NEW f \in Frontends, ReadTokens(f) \/ TakeToken(f) \/ CountTeleport(f) PROVE BoundInv'
  BY <1>2, ReadTokensBound, TakeTokenBound, CountTeleportBound
<1>3. ASSUME NEW f \in Frontends, NEW c \in Clients,
             Join(f, c) \/ Leave(f, c) \/ Invite(f, c) \/ InviteOfNobody(f, c)
      PROVE  BoundInv'
  <2>1. InviteOfNobody(f, c) => BoundInv'
    BY PanicBound DEF InviteOfNobody, history
  <2> QED
    BY <1>3, <2>1, JoinLeaveBound, InviteBound
<1>4. ASSUME NEW f \in Frontends, NEW c \in Clients, NEW g \in Frontends, Teleport(f, c, g)
      PROVE  BoundInv'
  BY <1>4, TeleportBound
<1>5. ASSUME Maintenance PROVE BoundInv'
  <2>1. VisitPanics => BoundInv'
    BY PanicBound DEF VisitPanics, history
  <2> QED
    BY <1>5, <2>1, QuietMaintenance, VisitAddsBound, ReadBucketBound, AddTokenBound DEF Maintenance
<1>6. ASSUME UNCHANGED vars PROVE BoundInv'
  <2>1. TypeOK'
    BY <1>6 DEF vars, history, BoundInv, TypeInv, TypeOK
  <2> QED
    BY <1>6, <2>1 DEF vars, history, BoundInv, TypeInv, AtSomewhere, Held, Covered, Bounded,
       Tokens, AddingTo
<1> QED
  BY <1>1, <1>2, <1>3, <1>4, <1>5, <1>6, TickBound, RestartBound DEF Next

\* Buckets, slots, rounds and ages have the shapes the code gives them; above
\* all no bucket ever owes a token, though invites and maintenance write it
\* with no lock (invite.go:29-64, frontend.go:97-109, maintenance.go:21-25).
THEOREM TypeCorrect == Spec => []TypeOK
<1>1. BoundInv => TypeOK
  BY DEF BoundInv, TypeInv
<1> QED
  BY <1>1, InitBound, StepBound, PTL DEF Spec

\* A bucket holds at most its maximum until handler and maintenance have written
\* it at once, and never less than nothing (invite.go:29, 64,
\* frontend.go:97-105).
THEOREM BucketsBounded == Spec => []BucketBounded
<1>1. BoundInv => BucketBounded
  <2> SUFFICES ASSUME BoundInv, NEW f \in Frontends, handler[f] # 0
               PROVE  (Tokens(f) <= MaxInviteTokens \/ f \in raced) /\ Tokens(f) >= 0
    BY DEF BucketBounded
  <2>1. Tokens(f) \in Nat
    BY TokensAreNat DEF BoundInv, TypeInv
  <2> QED
    BY <2>1 DEF BoundInv, Bounded
<1> QED
  BY <1>1, InitBound, StepBound, PTL DEF Spec

-----------------------------------------------------------------------------
(* Ages.                                                                   *)

LEMMA OlderOrder ==
  ASSUME NEW n \in Nat, NEW a \in 0..n, NEW b \in 0..n, a <= b
  PROVE  /\ a <= Older(a, 0..n) /\ Older(a, 0..n) \in 0..n
         /\ Older(a, 0..n) <= Older(b, 0..n)
BY DEF Older

LEMMA NewestParts ==
  ASSUME NEW ages, NEW a \in ages, NEW s \in Seq(ages), NEW n \in Nat \ {0}
  PROVE  /\ 1 \in DOMAIN Newest(a, s, n) /\ Newest(a, s, n)[1] = a
         /\ \A i \in DOMAIN Newest(a, s, n) : i # 1 =>
              i - 1 \in DOMAIN s /\ Newest(a, s, n)[i] = s[i - 1]
<1>1. CASE Len(s) < n
  BY <1>1 DEF Newest
<1>2. CASE ~(Len(s) < n)
  <2>1. n - 1 \in 0..Len(s)
    BY <1>2
  <2> DEFINE t == SubSeq(s, 1, n - 1)
  <2>2. t \in Seq(ages) /\ Len(t) = n - 1 /\ \A i \in 1..(n - 1) : t[i] = s[i]
    BY <2>1
  <2>3. Newest(a, s, n) = <<a>> \o t
    BY <1>2 DEF Newest
  <2> HIDE DEF t
  <2>4. /\ Len(<<a>> \o t) = n /\ (<<a>> \o t)[1] = a
        /\ \A i \in 2..n : (<<a>> \o t)[i] = t[i - 1]
    BY <2>2
  <2> QED
    BY <2>1, <2>2, <2>3, <2>4
<1> QED
  BY <1>1, <1>2

-----------------------------------------------------------------------------
(* The rate of a player's invites.                                         *)

\* The invites since the player last had all of them.
Spent(p) == PlayerTokens - p.available

\* A slot p and the ages s of its invites: the newest is as old as the slot says,
\* and at the first of those that count the one before it was older than the wait.
SlotAges(p, s) ==
  /\ \A i, j \in DOMAIN s : i <= j => s[i] <= s[j]
  /\ 1 \in DOMAIN s => s[1] = p.age
  /\ \A i \in DOMAIN s : i > Spent(p) => s[i] > PlayerWait

PlayerInv ==
  \A f \in Frontends, c \in Clients :
    player[f][c].here => SlotAges(player[f][c], sent[f][c])

LEMMA PlayerParts ==
  ASSUME NEW p \in Player
  PROVE  p.available \in 0..PlayerTokens /\ p.age \in PlayerAge
BY DEF Player

LEMMA PlayerFields ==
  ASSUME NEW p \in Player, NEW k, NEW a
  PROVE  /\ [p EXCEPT !.available = k, !.age = a].available = k
         /\ [p EXCEPT !.available = k, !.age = a].age = a
         /\ [p EXCEPT !.age = a].available = p.available
         /\ [p EXCEPT !.age = a].age = a
         /\ [p EXCEPT !.age = a].here = p.here
BY DEF Player

LEMMA NothingSent ==
  ASSUME NEW p
  PROVE  SlotAges(p, <<>>)
BY DEF SlotAges

\* One invite more (invite.go:36-52, 66-69).
LEMMA SlotUsed ==
  ASSUME NEW p \in Player, NEW s \in Seq(PlayerAge), SlotAges(p, s), MayInvite(p),
         NEW x, x.available = Left(p) - 1, x.age = 0
  PROVE  SlotAges(x, Newest(0, s, PlayerTokens))
<1> DEFINE t == Newest(0, s, PlayerTokens)
<1>0. PlayerTokens \in Nat \ {0} /\ PlayerWait \in Nat /\ 0 \in PlayerAge
  BY PlayerAssumption DEF PlayerAge
<1>1. /\ 1 \in DOMAIN t /\ t[1] = 0
      /\ \A i \in DOMAIN t : i # 1 => i - 1 \in DOMAIN s /\ t[i] = s[i - 1]
  BY <1>0, NewestParts
<1>2. t \in Seq(PlayerAge)
  BY <1>0, NewestAges
<1> HIDE DEF t
<1>3. /\ \A i \in DOMAIN t : i \in Nat /\ t[i] \in PlayerAge
      /\ \A i \in DOMAIN s : i \in Nat /\ i >= 1 /\ s[i] \in PlayerAge /\ 1 \in DOMAIN s
  BY <1>2
<1>4. PlayerAge \subseteq Nat
  BY DEF PlayerAge
<1>5. \A i, j \in DOMAIN t : i <= j => t[i] <= t[j]
  <2> SUFFICES ASSUME NEW i \in DOMAIN t, NEW j \in DOMAIN t, i <= j PROVE t[i] <= t[j]
    OBVIOUS
  <2>1. CASE i = 1
    <3>1. t[j] \in Nat
      BY <1>3, <1>4
    <3> QED
      BY <1>1, <2>1, <3>1
  <2>2. CASE i # 1
    <3>1. i \in Nat /\ i # 0 /\ j \in Nat
      BY <1>2
    <3>2. j # 1 /\ i - 1 <= j - 1
      BY <2>2, <3>1
    <3>3. s[i - 1] <= s[j - 1]
      BY <1>1, <2>2, <3>2 DEF SlotAges
    <3> QED
      BY <1>1, <2>2, <3>2, <3>3
  <2> QED
    BY <2>1, <2>2
<1>6. ASSUME NEW i \in DOMAIN t, i > Spent(x) PROVE t[i] > PlayerWait
  <2>1. p.available \in 0..PlayerTokens /\ i \in Nat
    BY <1>3, PlayerParts
  <2>2. CASE p.available = 0
    <3>1. i # 1 /\ p.age > PlayerWait
      BY <1>0, <1>6, <2>1, <2>2 DEF Spent, Left, MayInvite
    <3>2. i - 1 \in DOMAIN s /\ t[i] = s[i - 1]
      BY <1>1, <3>1
    <3>3. s[1] <= s[i - 1] /\ s[1] = p.age
      BY <1>3, <3>2 DEF SlotAges
    <3>4. s[1] \in Nat /\ s[i - 1] \in Nat
      BY <1>3, <1>4, <3>2
    <3> QED
      BY <1>0, <3>1, <3>2, <3>3, <3>4
  <2>3. CASE p.available # 0
    <3>1. i # 1 /\ i - 1 > Spent(p)
      BY <1>0, <1>6, <2>1, <2>3 DEF Spent, Left
    <3> QED
      BY <1>1, <3>1 DEF SlotAges
  <2> QED
    BY <2>2, <2>3
<1> QED
  BY <1>1, <1>5, <1>6 DEF SlotAges, t

\* A second later.
LEMMA SlotOlder ==
  ASSUME NEW p \in Player, NEW s \in Seq(PlayerAge), SlotAges(p, s),
         NEW x, x.available = p.available, x.age = Older(p.age, PlayerAge)
  PROVE  SlotAges(x, [i \in DOMAIN s |-> Older(s[i], PlayerAge)])
<1> DEFINE t == [i \in DOMAIN s |-> Older(s[i], PlayerAge)]
<1>1. DOMAIN t = DOMAIN s /\ \A i \in DOMAIN s : t[i] = Older(s[i], PlayerAge) /\ s[i] \in PlayerAge
  OBVIOUS
<1> HIDE DEF t
<1>2. PlayerWait + 1 \in Nat /\ PlayerAge = 0..(PlayerWait + 1)
  BY PlayerAssumption DEF PlayerAge
<1>3. \A a, b \in PlayerAge : a <= b =>
        /\ a <= Older(a, PlayerAge) /\ Older(a, PlayerAge) \in PlayerAge
        /\ Older(a, PlayerAge) <= Older(b, PlayerAge)
  BY <1>2, OlderOrder
<1>4. \A i, j \in DOMAIN t : i <= j => t[i] <= t[j]
  BY <1>1, <1>3 DEF SlotAges
<1>5. 1 \in DOMAIN t => t[1] = x.age
  BY <1>1 DEF SlotAges
<1>6. ASSUME NEW i \in DOMAIN t, i > Spent(x) PROVE t[i] > PlayerWait
  <2>1. s[i] > PlayerWait /\ s[i] \in PlayerAge
    BY <1>1, <1>6 DEF SlotAges, Spent
  <2>2. s[i] <= t[i] /\ t[i] \in PlayerAge
    <3>1. s[i] <= s[i]
      BY <1>2, <2>1
    <3> QED
      BY <1>1, <1>3, <1>6, <2>1, <3>1
  <2> QED
    BY <1>2, <2>1, <2>2, PlayerAssumption
<1> QED
  BY <1>4, <1>5, <1>6 DEF SlotAges, t

LEMMA NextPlayers == TypeOK /\ PlayerInv /\ [Next]_vars => PlayerInv'
<1> SUFFICES ASSUME TypeOK, PlayerInv, [Next]_vars PROVE PlayerInv'
  OBVIOUS
<1>0. /\ player \in [Frontends -> [Clients -> Player]]
      /\ sent \in [Frontends -> [Clients -> Seq(PlayerAge)]]
  BY DEF TypeOK
<1>a. ASSUME UNCHANGED <<player, sent>> PROVE PlayerInv'
  BY <1>a DEF PlayerInv
<1>1. ASSUME NEW f \in Frontends, Connect(f) PROVE PlayerInv'
  <2>1. /\ sent' = [sent EXCEPT ![f] = [c \in Clients |-> <<>>]]
        /\ player' = [player EXCEPT ![f] = [c \in Clients |-> NoPlayer]]
    BY <1>1 DEF Connect
  <2>2. \A c \in Clients : sent'[f][c] = <<>>
    BY <1>0, <2>1
  <2>3. \A g \in Frontends : g # f => sent'[g] = sent[g] /\ player'[g] = player[g]
    BY <1>0, <2>1
  <2> QED
    BY <2>2, <2>3, NothingSent DEF PlayerInv
<1>2. ASSUME NEW f \in Frontends, NEW c \in Clients, Join(f, c) PROVE PlayerInv'
  <2>1. /\ sent' = [sent EXCEPT ![f][c] = <<>>]
        /\ player' = [player EXCEPT ![f][c] = [NoPlayer EXCEPT !.here = TRUE]]
    BY <1>2 DEF Join
  <2>2. sent'[f][c] = <<>>
    BY <1>0, <2>1
  <2>3. \A g \in Frontends, d \in Clients : g # f \/ d # c =>
          sent'[g][d] = sent[g][d] /\ player'[g][d] = player[g][d]
    BY <1>0, <2>1
  <2> QED
    BY <2>2, <2>3, NothingSent DEF PlayerInv
<1>3. ASSUME NEW f \in Frontends, NEW c \in Clients, Leave(f, c) PROVE PlayerInv'
  <2>1. sent' = sent /\ player' = [player EXCEPT ![f][c] = NoPlayer]
    BY <1>3 DEF Leave, history
  <2>2. ~player'[f][c].here
    BY <1>0, <2>1 DEF NoPlayer
  <2>3. \A g \in Frontends, d \in Clients : g # f \/ d # c => player'[g][d] = player[g][d]
    BY <1>0, <2>1
  <2> QED
    BY <2>1, <2>2, <2>3 DEF PlayerInv
<1>4. ASSUME NEW f \in Frontends, NEW c \in Clients, Invite(f, c) PROVE PlayerInv'
  <2> DEFINE p == player[f][c]
             s == sent[f][c]
             x == [p EXCEPT !.available = Left(p) - 1, !.age = 0]
             t == Newest(0, s, PlayerTokens)
  <2>1. p.here /\ MayInvite(p) /\ p \in Player /\ s \in Seq(PlayerAge) /\ SlotAges(p, s)
    BY <1>0, <1>4 DEF Invite, PlayerInv
  <2>2. sent' = [sent EXCEPT ![f][c] = t] /\ player' = [player EXCEPT ![f][c] = x]
    BY <1>0, <1>4 DEF Invite
  <2> HIDE DEF p, s
  <2>3. x.available = Left(p) - 1 /\ x.age = 0
    BY <2>1, PlayerFields
  <2> HIDE DEF x
  <2>4. SlotAges(x, t)
    BY <2>1, <2>3, SlotUsed
  <2> HIDE DEF t
  <2>5. sent'[f][c] = t /\ player'[f][c] = x
    BY <1>0, <2>2
  <2>6. \A g \in Frontends, d \in Clients : g # f \/ d # c =>
          sent'[g][d] = sent[g][d] /\ player'[g][d] = player[g][d]
    BY <1>0, <2>2
  <2> QED
    BY <2>4, <2>5, <2>6 DEF PlayerInv
<1>5. CASE Tick
  <2> SUFFICES ASSUME NEW f \in Frontends, NEW c \in Clients, player'[f][c].here
               PROVE  SlotAges(player'[f][c], sent'[f][c])
    BY DEF PlayerInv
  <2> DEFINE p == player[f][c]
             s == sent[f][c]
             x == [p EXCEPT !.age = Older(p.age, PlayerAge)]
  <2>1. player'[f][c] = x /\ sent'[f][c] = [i \in DOMAIN s |-> Older(s[i], PlayerAge)]
    BY <1>5 DEF Tick
  <2>2. p \in Player /\ s \in Seq(PlayerAge) /\ p.here => SlotAges(p, s)
    BY <1>0 DEF PlayerInv
  <2>3. p \in Player /\ s \in Seq(PlayerAge)
    BY <1>0
  <2> HIDE DEF p, s
  <2>4. x.available = p.available /\ x.age = Older(p.age, PlayerAge) /\ x.here = p.here
    BY <2>3, PlayerFields
  <2> HIDE DEF x
  <2> QED
    BY <2>1, <2>2, <2>3, <2>4, SlotOlder
<1>6. CASE Restart
  BY <1>6, NothingSent DEF Restart, PlayerInv
<1>7. ASSUME NEW f \in Frontends,
             \/ Disconnect(f) \/ DeleteFrontend(f)
             \/ ReadTokens(f) \/ TakeToken(f) \/ CountTeleport(f)
      PROVE  PlayerInv'
  BY <1>7, <1>a DEF Disconnect, DeleteFrontend, ReadTokens, TakeToken, CountTeleport, history
<1>8. ASSUME NEW f \in Frontends, NEW c \in Clients,
             InviteOfNobody(f, c) \/ \E g \in Frontends : Teleport(f, c, g)
      PROVE  PlayerInv'
  BY <1>8, <1>a DEF InviteOfNobody, Teleport, history
<1>9. CASE Maintenance
  BY <1>9, <1>a DEF Maintenance, StartRound, VisitSkips, VisitAdds, VisitPanics, ReadBucket,
     AddToken, EndRound, history
<1>10. CASE UNCHANGED vars
  BY <1>10, <1>a DEF vars, history
<1> QED
  BY <1>1, <1>2, <1>3, <1>4, <1>5, <1>6, <1>7, <1>8, <1>9, <1>10 DEF Next

\* Only the command gives invites, and one step of it one.
LEMMA GivesParts ==
  ASSUME TypeOK, [Next]_vars, NEW f \in Frontends, NEW c \in Clients, GivesInvite(f, c)
  PROVE  Invite(f, c)
<1>0. /\ taking \in [Frontends -> Taking] /\ sent \in [Frontends -> [Clients -> Seq(PlayerAge)]]
      /\ taking'[f] # taking[f] /\ taking'[f].phase = "inviting" /\ sent'[f][c] # sent[f][c]
  BY DEF TypeOK, GivesInvite, Idle
<1>a. UNCHANGED taking => FALSE
  BY <1>0
<1>b. UNCHANGED sent => FALSE
  BY <1>0
<1>1. ASSUME NEW g \in Frontends, NEW d \in Clients, Invite(g, d) PROVE Invite(f, c)
  <2>1. sent' = [sent EXCEPT ![g][d] = Newest(0, sent[g][d], PlayerTokens)]
    BY <1>0, <1>1 DEF Invite
  <2>2. g = f /\ d = c
    BY <1>0, <2>1
  <2> QED
    BY <1>1, <2>2
<1>2. ASSUME NEW g \in Frontends, ReadTokens(g) \/ TakeToken(g) \/ CountTeleport(g) PROVE FALSE
  BY <1>2, <1>b DEF ReadTokens, TakeToken, CountTeleport, history
<1>3. ASSUME NEW g \in Frontends, Connect(g) \/ Disconnect(g) \/ DeleteFrontend(g) PROVE FALSE
  BY <1>3, <1>a DEF Connect, Disconnect, DeleteFrontend
<1>4. ASSUME NEW g \in Frontends, NEW d \in Clients,
             \/ Join(g, d) \/ Leave(g, d) \/ InviteOfNobody(g, d)
             \/ \E h \in Frontends : Teleport(g, d, h)
      PROVE  FALSE
  BY <1>4, <1>a, <1>b DEF Join, Leave, InviteOfNobody, Teleport, history
<1>5. CASE Maintenance
  BY <1>5, <1>a DEF Maintenance, StartRound, VisitSkips, VisitAdds, VisitPanics, ReadBucket,
     AddToken, EndRound
<1>6. CASE Tick
  BY <1>6, <1>a DEF Tick
<1>7. CASE Restart
  <2>1. taking'[f].phase = "idle"
    BY <1>7 DEF Restart, Idle
  <2> QED
    BY <1>0, <2>1
<1>8. CASE UNCHANGED vars
  BY <1>8, <1>a DEF vars
<1> QED
  BY <1>1, <1>2, <1>3, <1>4, <1>5, <1>6, <1>7, <1>8 DEF Next

\* PlayerTokens + 1 invites of one player on one connection take longer than the
\* wait, whatever the pauses between them (InvitesProps!PlayerRate;
\* invite.go:36-52).
THEOREM PlayerRateCorrect == Spec => PlayerRate
<1> DEFINE Waited == \A f \in Frontends, c \in Clients :
                       GivesInvite(f, c) /\ Len(sent[f][c]) = PlayerTokens
                         => sent[f][c][PlayerTokens] > PlayerWait
<1>1. Init => PlayerInv
  BY NothingSent DEF Init, PlayerInv
<1>2. TypeOK /\ PlayerInv /\ [Next]_vars => Waited
  <2> SUFFICES ASSUME TypeOK, PlayerInv, [Next]_vars,
                      NEW f \in Frontends, NEW c \in Clients,
                      GivesInvite(f, c), Len(sent[f][c]) = PlayerTokens
               PROVE  sent[f][c][PlayerTokens] > PlayerWait
    OBVIOUS
  <2> DEFINE p == player[f][c]
             s == sent[f][c]
  <2>1. Invite(f, c)
    BY GivesParts
  <2>2. p \in Player /\ s \in Seq(PlayerAge) /\ SlotAges(p, s) /\ MayInvite(p)
    BY <2>1 DEF Invite, TypeOK, PlayerInv
  <2>3. PlayerTokens \in Nat \ {0} /\ PlayerWait \in Nat
    BY PlayerAssumption
  <2>4. PlayerTokens \in DOMAIN s /\ 1 \in DOMAIN s
    BY <2>2, <2>3
  <2> HIDE DEF p, s
  <2>5. p.available \in 0..PlayerTokens
    BY <2>2, PlayerParts
  <2>6. CASE p.available = 0
    <3>1. s[1] > PlayerWait /\ s[1] <= s[PlayerTokens]
      BY <2>2, <2>3, <2>4, <2>6 DEF SlotAges, MayInvite
    <3>2. s[1] \in PlayerAge /\ s[PlayerTokens] \in PlayerAge /\ PlayerAge \subseteq Nat
      <4>1. PlayerAge \subseteq Nat
        BY DEF PlayerAge
      <4> QED
        BY <2>2, <2>4, <4>1
    <3>3. s[1] \in Nat /\ s[PlayerTokens] \in Nat
      BY <3>2
    <3>4. \A x, y, w \in Nat : x > w /\ x <= y => y > w
      OBVIOUS
    <3> QED
      BY <2>3, <3>1, <3>3, <3>4, Zenon DEF s
  <2>7. CASE p.available # 0
    <3>1. PlayerTokens > Spent(p)
      BY <2>3, <2>5, <2>7 DEF Spent
    <3> QED
      BY <2>2, <2>4, <3>1 DEF SlotAges, s
  <2> QED
    BY <2>6, <2>7
<1>3. BoundInv => TypeOK
  BY DEF BoundInv, TypeInv
<1>4. BoundInv /\ PlayerInv /\ [Next]_vars => [Waited]_vars
  BY <1>2, <1>3
<1> QED
  BY <1>1, <1>3, <1>4, InitBound, StepBound, NextPlayers, PTL DEF Spec, PlayerRate

-----------------------------------------------------------------------------
(* The rate of a server's invites.                                         *)

\* A token that an invite has not taken yet.
Pending(f) == IF taking[f].phase \in {"inviting", "taking"} THEN 1 ELSE 0

\* What a bucket lacks, and so how many of the newest invites no addition has
\* made up for.
Owed(f) == MaxInviteTokens - Tokens(f) + Pending(f)

\* With o owed and the last addition of age a, the ages u of the invites: those
\* made up for are as old as the addition, and all but one of them older than an
\* interval.  An addition is as old as maintenance's look at the bucket.
AddedAges(o, a, u) ==
  \A i \in DOMAIN u : (i > o + 1 => u[i] > Freq) /\ (i > o => u[i] >= a)

\* While maintenance adds to a bucket it looked at an age a ago, all of them are
\* older than an interval, and what it adds makes up for one as old as the look.
AddingAges(o, a, u) ==
  \A i \in DOMAIN u : (i > o => u[i] > Freq) /\ (i >= o => u[i] >= a)

RatedAges(f) ==
  IF AddingTo(handler[f], f) THEN AddingAges(Owed(f), round.age, uses[f])
  ELSE AddedAges(Owed(f), record[handler[f]][f].age, uses[f])

Rated == \A f \in Frontends : handler[f] # 0 /\ f \notin raced => RatedAges(f)

LEMMA RatedParts ==
  ASSUME BoundInv, NEW f \in Frontends, handler[f] # 0, f \notin raced
  PROVE  /\ Owed(f) \in Nat /\ (AddingTo(handler[f], f) => Owed(f) >= 1)
         /\ record[handler[f]][f].age \in BucketAge
         /\ AddingTo(handler[f], f) => round.age \in BucketAge
         /\ uses[f] \in Seq(BucketAge)
<1>1. TypeOK /\ Bounded
  BY DEF BoundInv, TypeInv
<1>2. Tokens(f) \in Nat /\ record[handler[f]][f] \in Record
  BY <1>1, TokensAreNat
<1>3. /\ Tokens(f) <= MaxInviteTokens
      /\ AddingTo(handler[f], f) => Tokens(f) < MaxInviteTokens
  BY <1>1 DEF Bounded
<1>4. Pending(f) \in {0, 1}
  BY DEF Pending
<1>5. Owed(f) \in Nat /\ (AddingTo(handler[f], f) => Owed(f) >= 1)
  BY <1>2, <1>3, <1>4, BucketAssumption DEF Owed
<1>6. AddingTo(handler[f], f) => round.age \in BucketAge
  BY <1>1, RoundParts DEF TypeOK, AddingTo
<1> QED
  BY <1>1, <1>2, <1>5, <1>6, RecordParts DEF TypeOK

\* One invite more, and one token.
LEMMA OneMore ==
  ASSUME NEW o \in Nat, NEW a \in BucketAge, NEW u \in Seq(BucketAge)
  PROVE  LET v == Newest(0, u, MaxInviteTokens + 1) IN
         /\ AddedAges(o, a, u) => AddedAges(o + 1, a, v)
         /\ o >= 1 /\ AddingAges(o, a, u) => AddingAges(o + 1, a, v)
<1> DEFINE v == Newest(0, u, MaxInviteTokens + 1)
<1>0. MaxInviteTokens + 1 \in Nat \ {0} /\ 0 \in BucketAge
  BY BucketAssumption DEF BucketAge
<1>1. \A i \in DOMAIN v : i # 1 => i - 1 \in DOMAIN u /\ v[i] = u[i - 1]
  BY <1>0, NewestParts
<1>2. v \in Seq(BucketAge)
  BY <1>0, NewestAges
<1> HIDE DEF v
<1>3. \A i \in DOMAIN v : i \in Nat
  BY <1>2
<1>4. AddedAges(o, a, u) => AddedAges(o + 1, a, v)
  <2> SUFFICES ASSUME AddedAges(o, a, u), NEW i \in DOMAIN v, i > o + 1
               PROVE  (i > o + 1 + 1 => v[i] > Freq) /\ v[i] >= a
    <3>1. \A i \in DOMAIN v : i > o + 1 + 1 => i > o + 1
      BY <1>3
    <3> QED
      BY <3>1 DEF AddedAges
  <2>1. i \in Nat /\ i # 1
    BY <1>3
  <2>2. i - 1 \in DOMAIN u /\ v[i] = u[i - 1] /\ i - 1 > o
    BY <1>1, <2>1
  <2> QED
    BY <2>1, <2>2 DEF AddedAges
<1>5. ASSUME o >= 1, AddingAges(o, a, u) PROVE AddingAges(o + 1, a, v)
  <2> SUFFICES ASSUME NEW i \in DOMAIN v, i >= o + 1
               PROVE  (i > o + 1 => v[i] > Freq) /\ v[i] >= a
    <3>1. \A i \in DOMAIN v : i > o + 1 => i >= o + 1
      BY <1>3
    <3> QED
      BY <3>1 DEF AddingAges
  <2>1. i \in Nat /\ i # 1
    BY <1>3, <1>5
  <2>2. i - 1 \in DOMAIN u /\ v[i] = u[i - 1] /\ i - 1 >= o
    BY <1>1, <2>1
  <2> QED
    BY <1>5, <2>1, <2>2 DEF AddingAges
<1> QED
  BY <1>4, <1>5 DEF v

\* A look at a bucket whose last addition is old enough.
LEMMA LooksAge ==
  ASSUME NEW o \in Nat, NEW a \in BucketAge, NEW u \in Seq(BucketAge),
         AddedAges(o, a, u), a > Freq
  PROVE  AddingAges(o, 0, u)
<1>1. \A i \in DOMAIN u : i \in Nat /\ u[i] \in Nat /\ Freq \in Nat /\ a \in Nat
  <2>1. BucketAge \subseteq Nat /\ Freq \in Nat
    BY BucketAssumption DEF BucketAge
  <2>2. \A i \in DOMAIN u : i \in Nat /\ u[i] \in BucketAge
    OBVIOUS
  <2> QED
    BY <2>1, <2>2
<1> QED
  BY <1>1 DEF AddedAges, AddingAges

\* The addition that follows.
LEMMA AddsAge ==
  ASSUME NEW o \in Nat, o >= 1, NEW a \in BucketAge, NEW u \in Seq(BucketAge),
         AddingAges(o, a, u)
  PROVE  AddedAges(o - 1, a, u)
<1>1. \A i \in DOMAIN u : i \in Nat
  OBVIOUS
<1> QED
  BY <1>1 DEF AddedAges, AddingAges

\* A second later.
LEMMA AgesOlder ==
  ASSUME NEW o \in Nat, NEW a \in BucketAge, NEW u \in Seq(BucketAge)
  PROVE  LET b == Older(a, BucketAge)
             v == [i \in DOMAIN u |-> Older(u[i], BucketAge)] IN
         /\ AddedAges(o, a, u) => AddedAges(o, b, v)
         /\ AddingAges(o, a, u) => AddingAges(o, b, v)
<1> DEFINE b == Older(a, BucketAge)
           v == [i \in DOMAIN u |-> Older(u[i], BucketAge)]
<1>1. DOMAIN v = DOMAIN u /\ \A i \in DOMAIN u : v[i] = Older(u[i], BucketAge) /\ u[i] \in BucketAge
  OBVIOUS
<1>2. Freq + 1 \in Nat /\ Freq \in Nat /\ BucketAge = 0..(Freq + 1)
  BY BucketAssumption DEF BucketAge
<1> HIDE DEF v, b
<1>3. \A x, y \in BucketAge : x <= y =>
        /\ x <= Older(x, BucketAge) /\ Older(x, BucketAge) \in BucketAge
        /\ Older(x, BucketAge) <= Older(y, BucketAge)
  BY <1>2, OlderOrder
<1>4. \A x \in BucketAge : x \in Nat /\ x <= x
  BY <1>2
<1>5. \A i \in DOMAIN u : /\ u[i] > Freq => v[i] > Freq
                          /\ u[i] >= a => v[i] >= b
  <2> SUFFICES ASSUME NEW i \in DOMAIN u
               PROVE  (u[i] > Freq => v[i] > Freq) /\ (u[i] >= a => v[i] >= b)
    OBVIOUS
  <2>1. u[i] \in BucketAge /\ u[i] <= v[i] /\ v[i] \in BucketAge
    BY <1>1, <1>3, <1>4
  <2>2. u[i] >= a => a <= u[i]
    BY <1>4, <2>1
  <2>3. b \in BucketAge /\ (u[i] >= a => b <= v[i])
    BY <1>1, <1>3, <1>4, <2>1, <2>2 DEF b
  <2> QED
    BY <1>2, <1>4, <2>1, <2>3
<1> QED
  BY <1>1, <1>5 DEF AddedAges, AddingAges, v, b

-----------------------------------------------------------------------------
(* The steps.                                                              *)

\* Nothing happens to a bucket.
LEMMA RatedStands ==
  ASSUME Rated, NEW f \in Frontends, handler[f] # 0, f \notin raced,
         handler'[f] = handler[f], uses'[f] = uses[f],
         record'[handler[f]][f].tokens = record[handler[f]][f].tokens,
         record'[handler[f]][f].age = record[handler[f]][f].age,
         Pending(f)' = Pending(f),
         AddingTo(handler[f], f)' <=> AddingTo(handler[f], f),
         AddingTo(handler[f], f) => round'.age = round.age
  PROVE  RatedAges(f)'
<1>1. Owed(f)' = Owed(f)
  BY DEF Owed, Tokens
<1>2. RatedAges(f)
  BY DEF Rated
<1> QED
  BY <1>1, <1>2 DEF RatedAges

\* The record of one frontend in one array changes.
LEMMA OthersRated ==
  ASSUME TypeOK, Rated, UNCHANGED <<uses, round>>, raced \subseteq raced',
         NEW f \in Frontends,
         \A g \in Frontends : g # f => handler'[g] = handler[g] /\ Pending(g)' = Pending(g),
         \A n \in Arrays, g \in Frontends : g # f => record'[n][g] = record[n][g]
  PROVE  \A g \in Frontends : g # f /\ handler'[g] # 0 /\ g \notin raced' => RatedAges(g)'
<1> SUFFICES ASSUME NEW g \in Frontends, g # f, handler'[g] # 0, g \notin raced'
             PROVE  RatedAges(g)'
  OBVIOUS
<1>1. /\ g \notin raced /\ handler'[g] = handler[g] /\ handler[g] # 0
      /\ Pending(g)' = Pending(g) /\ uses'[g] = uses[g] /\ round' = round
  OBVIOUS
<1>2. handler[g] \in Arrays
  BY <1>1, NowParts
<1>3. record'[handler[g]][g] = record[handler[g]][g]
  BY <1>2
<1>4. AddingTo(handler[g], g)' <=> AddingTo(handler[g], g)
  BY <1>1 DEF AddingTo
<1> QED
  BY <1>1, <1>3, <1>4, RatedStands

LEMMA ConnectRated ==
  ASSUME BoundInv, BoundInv', Rated, NEW f \in Frontends, Connect(f)
  PROVE  Rated'
<1>1. TypeOK
  BY DEF BoundInv, TypeInv
<1> DEFINE r == [connected |-> TRUE, tokens |-> MaxInviteTokens, age |-> Freq + 1]
<1>2. /\ handler' = [handler EXCEPT ![f] = Now]
      /\ record' = [record EXCEPT ![Now][f] = r]
      /\ uses' = [uses EXCEPT ![f] = <<>>]
      /\ raced' = (raced \ {f}) \cup {g \in {f} : AddingTo(Now, g)}
      /\ UNCHANGED <<taking, round>>
  BY DEF Connect
<1>3. /\ handler' \in [Frontends -> 0..Len(arrays')] /\ uses'[f] = <<>>
      /\ \A g \in Frontends : g # f =>
           handler'[g] = handler[g] /\ uses'[g] = uses[g] /\ Pending(g)' = Pending(g)
  BY <1>1, <1>2 DEF TypeOK, BoundInv, TypeInv, Pending
<1> HIDE DEF r
<1>4. \A n \in Arrays, g \in Frontends : g # f => record'[n][g] = record[n][g]
  BY <1>1, <1>2 DEF TypeOK
<1>5. RatedAges(f)'
  BY <1>3 DEF RatedAges, AddingAges, AddedAges
<1>6. ASSUME NEW g \in Frontends, g # f, handler'[g] # 0, g \notin raced' PROVE RatedAges(g)'
  <2>1. /\ g \notin raced /\ handler'[g] = handler[g] /\ handler[g] # 0
        /\ Pending(g)' = Pending(g) /\ uses'[g] = uses[g] /\ round' = round
    BY <1>2, <1>3, <1>6
  <2>2. handler[g] \in Arrays
    BY <1>1, <2>1, NowParts
  <2>3. record'[handler[g]][g] = record[handler[g]][g]
    BY <1>4, <1>6, <2>2
  <2>4. AddingTo(handler[g], g)' <=> AddingTo(handler[g], g)
    BY <2>1 DEF AddingTo
  <2> QED
    BY <2>1, <2>3, <2>4, RatedStands
<1> QED
  BY <1>5, <1>6 DEF Rated

LEMMA DisconnectRated ==
  ASSUME BoundInv, Rated, NEW f \in Frontends, Disconnect(f)
  PROVE  Rated'
<1>1. TypeOK
  BY DEF BoundInv, TypeInv
<1>2. /\ handler' = [handler EXCEPT ![f] = 0] /\ handler[f] # 0
      /\ record' = [record EXCEPT ![handler[f]][f].connected = FALSE]
      /\ UNCHANGED <<taking, round, uses, raced>>
  BY DEF Disconnect, Reading, history
<1>3. handler'[f] = 0 /\ \A g \in Frontends : g # f => handler'[g] = handler[g] /\ Pending(g)' = Pending(g)
  BY <1>1, <1>2 DEF TypeOK, Pending
<1>4. \A n \in Arrays, g \in Frontends : g # f => record'[n][g] = record[n][g]
  BY <1>1, <1>2 DEF TypeOK
<1>5. \A g \in Frontends : g # f /\ handler'[g] # 0 /\ g \notin raced' => RatedAges(g)'
  BY <1>1, <1>2, <1>3, <1>4, OthersRated
<1> QED
  BY <1>3, <1>5 DEF Rated

LEMMA InviteRated ==
  ASSUME BoundInv, Rated, NEW f \in Frontends, NEW c \in Clients, Invite(f, c)
  PROVE  Rated'
<1>1. TypeOK
  BY DEF BoundInv, TypeInv
<1> DEFINE v == Newest(0, uses[f], MaxInviteTokens + 1)
<1>2. /\ handler[f] # 0 /\ taking[f] = Idle
      /\ taking' = [taking EXCEPT ![f] = [phase |-> "inviting"]]
      /\ uses' = [uses EXCEPT ![f] = v]
      /\ UNCHANGED <<record, handler, round, raced>>
  BY <1>1 DEF Invite, Reading, TypeOK
<1> HIDE DEF v
<1>3. /\ uses'[f] = v /\ Pending(f) = 0 /\ Pending(f)' = 1
      /\ \A g \in Frontends : g # f => uses'[g] = uses[g] /\ Pending(g)' = Pending(g)
  BY <1>1, <1>2 DEF TypeOK, Pending, Idle
<1>4. ASSUME f \notin raced PROVE RatedAges(f)'
  <2>1. /\ Owed(f) \in Nat /\ (AddingTo(handler[f], f) => Owed(f) >= 1)
        /\ record[handler[f]][f].age \in BucketAge
        /\ AddingTo(handler[f], f) => round.age \in BucketAge
        /\ uses[f] \in Seq(BucketAge)
    BY <1>2, <1>4, RatedParts
  <2>2. Tokens(f) \in Nat /\ Tokens(f)' = Tokens(f)
    BY <1>1, <1>2, TokensAreNat DEF Tokens
  <2>3. Owed(f)' = Owed(f) + 1
    BY <1>3, <2>2, BucketAssumption DEF Owed
  <2>4. AddingTo(handler[f], f)' <=> AddingTo(handler[f], f)
    BY <1>2 DEF AddingTo
  <2>5. RatedAges(f)
    BY <1>2, <1>4 DEF Rated
  <2>6. CASE AddingTo(handler[f], f)
    <3>1. AddingAges(Owed(f), round.age, uses[f])
      BY <2>5, <2>6 DEF RatedAges
    <3>2. AddingAges(Owed(f) + 1, round.age, v)
      BY <2>1, <2>6, <3>1, OneMore DEF v
    <3> QED
      BY <1>2, <1>3, <2>3, <2>4, <2>6, <3>2 DEF RatedAges
  <2>7. CASE ~AddingTo(handler[f], f)
    <3>1. AddedAges(Owed(f), record[handler[f]][f].age, uses[f])
      BY <2>5, <2>7 DEF RatedAges
    <3>2. AddedAges(Owed(f) + 1, record[handler[f]][f].age, v)
      BY <2>1, <3>1, OneMore DEF v
    <3> QED
      BY <1>2, <1>3, <2>3, <2>4, <2>7, <3>2 DEF RatedAges
  <2> QED
    BY <2>6, <2>7
<1>5. ASSUME NEW g \in Frontends, g # f, handler'[g] # 0, g \notin raced' PROVE RatedAges(g)'
  <2>1. AddingTo(handler[g], g)' <=> AddingTo(handler[g], g)
    BY <1>2 DEF AddingTo
  <2> QED
    BY <1>2, <1>3, <1>5, <2>1, RatedStands
<1> QED
  BY <1>2, <1>4, <1>5 DEF Rated

\* The invite takes its token.
LEMMA TakeTokenRated ==
  ASSUME BoundInv, Rated, NEW f \in Frontends, TakeToken(f)
  PROVE  Rated'
<1>1. TypeOK /\ Held
  BY DEF BoundInv, TypeInv
<1> DEFINE n == handler[f]
           saw == taking[f].saw
<1>2. /\ taking[f].phase = "taking"
      /\ record' = [record EXCEPT ![n][f].tokens = saw - 1]
      /\ taking' = [taking EXCEPT ![f] = Idle]
      /\ raced' = raced \cup {g \in {f} : Tokens(g) # saw}
      /\ UNCHANGED <<handler, round, uses>>
  BY DEF TakeToken, Taken
<1>3. n # 0 /\ n \in Arrays
  BY <1>1, <1>2, NowParts DEF Held
<1>4. /\ Pending(f) = 1 /\ Pending(f)' = 0
      /\ \A g \in Frontends : g # f => handler'[g] = handler[g] /\ Pending(g)' = Pending(g)
  BY <1>1, <1>2 DEF TypeOK, Pending, Idle
<1>5. \A m \in Arrays, g \in Frontends : g # f => record'[m][g] = record[m][g]
  BY <1>1, <1>2 DEF TypeOK
<1>6. \A g \in Frontends : g # f /\ handler'[g] # 0 /\ g \notin raced' => RatedAges(g)'
  BY <1>1, <1>2, <1>4, <1>5, OthersRated
<1>7. ASSUME f \notin raced' PROVE RatedAges(f)'
  <2>1. f \notin raced /\ Tokens(f) = saw
    BY <1>2, <1>7
  <2>2. Tokens(f) \in Nat /\ record[n][f] \in Record
    BY <1>1, <1>3, TokensAreNat
  <2>3. record'[n][f] = [record[n][f] EXCEPT !.tokens = saw - 1]
    BY <1>1, <1>2, <1>3 DEF TypeOK
  <2>4. record'[n][f].tokens = saw - 1 /\ record'[n][f].age = record[n][f].age
    BY <2>2, <2>3 DEF Record
  <2>5. Tokens(f)' = Tokens(f) - 1
    BY <1>2, <2>1, <2>4 DEF Tokens
  <2>6. Owed(f)' = Owed(f)
    BY <1>4, <2>2, <2>5, BucketAssumption DEF Owed
  <2>7. AddingTo(handler[f], f)' <=> AddingTo(handler[f], f)
    BY <1>2 DEF AddingTo
  <2>8. RatedAges(f)
    BY <1>3, <2>1 DEF Rated
  <2> QED
    BY <1>2, <2>4, <2>6, <2>7, <2>8 DEF RatedAges
<1> QED
  BY <1>6, <1>7 DEF Rated

\* Other steps of handlers, and of maintenance that adds nothing.
LEMMA QuietRated ==
  ASSUME Rated, UNCHANGED <<record, handler, uses, raced>>,
         \A f \in Frontends : Pending(f)' = Pending(f),
         \A n \in Arrays, f \in Frontends : AddingTo(n, f)' <=> AddingTo(n, f),
         \A n \in Arrays, f \in Frontends : AddingTo(n, f) => round'.age = round.age,
         TypeOK
  PROVE  Rated'
<1>1. \A f \in Frontends : handler[f] # 0 => handler[f] \in Arrays
  BY NowParts
<1> SUFFICES ASSUME NEW f \in Frontends, handler[f] # 0, f \notin raced PROVE RatedAges(f)'
  BY DEF Rated
<1>2. handler[f] \in Arrays /\ handler' = handler
  BY <1>1
<1>3. AddingTo(handler[f], f)' <=> AddingTo(handler[f], f)
  BY <1>2 DEF AddingTo
<1> QED
  BY <1>2, <1>3, RatedStands

\* Maintenance looks at a bucket, and finds it time to add.
LEMMA VisitAddsRated ==
  ASSUME BoundInv, Rated, VisitAdds
  PROVE  Rated'
<1>1. TypeOK
  BY DEF BoundInv, TypeInv
<1>2. /\ round.phase = "visiting"
      /\ round'.phase = "adding" /\ round'.into = Now /\ round'.of = List[round.at] /\ round'.age = 0
      /\ MayAdd(record[Now][List[round.at]])
      /\ UNCHANGED <<record, handler, taking, uses, raced>>
  BY DEF VisitAdds, Visiting, history
<1> SUFFICES ASSUME NEW f \in Frontends, handler[f] # 0, f \notin raced PROVE RatedAges(f)'
  BY <1>2 DEF Rated
<1>3. Pending(f)' = Pending(f) /\ ~AddingTo(handler[f], f)
  BY <1>2 DEF Pending, AddingTo
<1>4. CASE AddingTo(handler[f], f)'
  <2>1. handler[f] = Now /\ f = List[round.at]
    BY <1>2, <1>4 DEF AddingTo
  <2> DEFINE a == record[handler[f]][f].age
  <2>2. a > Freq
    BY <1>2, <2>1 DEF MayAdd
  <2>3. Owed(f)' = Owed(f)
    BY <1>2, <1>3 DEF Owed, Tokens
  <2>4. Owed(f) \in Nat /\ a \in BucketAge /\ uses[f] \in Seq(BucketAge)
    BY RatedParts
  <2>5. AddedAges(Owed(f), a, uses[f])
    BY <1>3 DEF Rated, RatedAges
  <2> HIDE DEF a
  <2>6. AddingAges(Owed(f), 0, uses[f])
    BY <2>2, <2>4, <2>5, LooksAge
  <2> QED
    BY <1>2, <1>4, <2>3, <2>6 DEF RatedAges
<1>5. CASE ~AddingTo(handler[f], f)'
  BY <1>2, <1>3, <1>5, RatedStands
<1> QED
  BY <1>4, <1>5

\* It adds.
LEMMA AddTokenRated ==
  ASSUME BoundInv, Rated, AddToken
  PROVE  Rated'
<1>1. TypeOK
  BY DEF BoundInv, TypeInv
<1>p. PICK n, g, k, a : n = round.into /\ g = round.of /\ k = round.saw /\ a = round.age
  OBVIOUS
<1>2. /\ round.phase = "writing"
      /\ record' = [record EXCEPT ![n][g].tokens = k + 1, ![n][g].age = a]
      /\ round' = Onward
      /\ raced' = raced \cup {h \in {g} : record[n][h].tokens # k}
      /\ UNCHANGED <<handler, taking, uses>>
  BY <1>p DEF AddToken
<1>3. n \in Arrays /\ g \in Frontends /\ a \in BucketAge /\ k \in Nat
  BY <1>p, <1>1, <1>2, RoundParts DEF TypeOK
<1>4. /\ record'[n][g].tokens = k + 1 /\ record'[n][g].age = a
      /\ \A m \in Arrays, h \in Frontends : m # n \/ h # g => record'[m][h] = record[m][h]
  <2>1. record[n][g] \in Record
    BY <1>1, <1>3 DEF TypeOK
  <2>2. record'[n][g] = [record[n][g] EXCEPT !.tokens = k + 1, !.age = a]
    BY <1>1, <1>2, <1>3 DEF TypeOK
  <2>3. \A m \in Arrays, h \in Frontends : m # n \/ h # g => record'[m][h] = record[m][h]
    BY <1>1, <1>2, <1>3 DEF TypeOK
  <2> QED
    BY <2>1, <2>2, <2>3 DEF Record
<1>5. \A m, h : ~AddingTo(m, h)'
  BY <1>2 DEF AddingTo, Onward
<1> SUFFICES ASSUME NEW f \in Frontends, handler[f] # 0, f \notin raced' PROVE RatedAges(f)'
  BY <1>2 DEF Rated
<1>6. f \notin raced /\ handler' = handler /\ uses' = uses /\ Pending(f)' = Pending(f)
  BY <1>2 DEF Pending
<1>7. handler[f] \in Arrays
  BY <1>1, NowParts
<1>8. CASE handler[f] # n \/ f # g
  <2>1. record'[handler[f]][f] = record[handler[f]][f]
    BY <1>4, <1>7, <1>8
  <2>2. ~AddingTo(handler[f], f)
    BY <1>p, <1>8 DEF AddingTo
  <2>3. ~AddingTo(handler[f], f)'
    BY <1>5, <1>6 DEF AddingTo
  <2> QED
    BY <1>6, <2>1, <2>2, <2>3, RatedStands
<1>9. CASE handler[f] = n /\ f = g
  <2>1. AddingTo(handler[f], f)
    BY <1>p, <1>2, <1>9 DEF AddingTo
  <2>2. Tokens(f) = k /\ Tokens(f)' = k + 1
    BY <1>2, <1>4, <1>6, <1>9 DEF Tokens
  <2>3. Owed(f) \in Nat /\ Owed(f) >= 1 /\ uses[f] \in Seq(BucketAge)
    BY <1>6, <2>1, RatedParts
  <2>4. Owed(f)' = Owed(f) - 1
    <3>1. Pending(f) \in {0, 1}
      BY DEF Pending
    <3> QED
      BY <1>3, <1>6, <2>2, <3>1, BucketAssumption DEF Owed
  <2>5. AddingAges(Owed(f), a, uses[f])
    BY <1>p, <1>6, <2>1 DEF Rated, RatedAges
  <2>6. AddedAges(Owed(f) - 1, a, uses[f])
    BY <1>3, <2>3, <2>5, AddsAge
  <2>7. ~AddingTo(handler[f], f)'
    BY <1>5, <1>6 DEF AddingTo
  <2> QED
    BY <1>4, <1>6, <1>9, <2>4, <2>6, <2>7 DEF RatedAges
<1> QED
  BY <1>8, <1>9

LEMMA DeleteFrontendRated ==
  ASSUME BoundInv, Rated, NEW f \in Frontends, DeleteFrontend(f)
  PROVE  Rated'
<1>1. TypeOK
  BY DEF BoundInv, TypeInv
<1>2. /\ record' = [record EXCEPT ![Now + 1] = record[Now]]
      /\ UNCHANGED <<handler, taking, round, uses, raced>>
  BY DEF DeleteFrontend, history
<1> SUFFICES ASSUME NEW g \in Frontends, handler[g] # 0, g \notin raced PROVE RatedAges(g)'
  BY <1>2 DEF Rated
<1>3. handler[g] \in Arrays /\ handler[g] # Now + 1
  BY <1>1, NowParts DEF TypeOK, Now, Arrays
<1>4. record'[handler[g]] = record[handler[g]]
  BY <1>1, <1>2, <1>3 DEF TypeOK
<1>5. Pending(g)' = Pending(g) /\ (AddingTo(handler[g], g)' <=> AddingTo(handler[g], g))
  BY <1>2 DEF Pending, AddingTo
<1> QED
  BY <1>2, <1>4, <1>5, RatedStands

LEMMA TickRated ==
  ASSUME BoundInv, Rated, Tick
  PROVE  Rated'
<1>1. TypeOK
  BY DEF BoundInv, TypeInv
<1>2. UNCHANGED <<handler, taking, raced>>
  BY DEF Tick
<1> SUFFICES ASSUME NEW f \in Frontends, handler[f] # 0, f \notin raced PROVE RatedAges(f)'
  BY <1>2 DEF Rated
<1>3. /\ Owed(f) \in Nat /\ record[handler[f]][f].age \in BucketAge
      /\ AddingTo(handler[f], f) => round.age \in BucketAge
      /\ uses[f] \in Seq(BucketAge)
  BY RatedParts
<1>4. handler[f] \in Arrays
  BY <1>1, NowParts
<1>5. /\ record'[handler[f]][f].tokens = record[handler[f]][f].tokens
      /\ record'[handler[f]][f].age = Older(record[handler[f]][f].age, BucketAge)
  <2>1. record'[handler[f]][f] =
          [record[handler[f]][f] EXCEPT !.age = Older(record[handler[f]][f].age, BucketAge)]
    BY <1>4 DEF Tick
  <2>2. record[handler[f]][f] \in Record
    BY <1>1, <1>4 DEF TypeOK
  <2> QED
    BY <2>1, <2>2 DEF Record
<1>6. uses'[f] = [i \in DOMAIN uses[f] |-> Older(uses[f][i], BucketAge)]
  BY DEF Tick
<1>7. Owed(f)' = Owed(f)
  BY <1>2, <1>5 DEF Owed, Tokens, Pending
<1>8. RatedAges(f)
  BY DEF Rated
<1>9. CASE AddingTo(handler[f], f)
  <2>1. round' = [round EXCEPT !.age = Older(round.age, BucketAge)]
    BY <1>9 DEF Tick, AddingTo
  <2>2. /\ round'.age = Older(round.age, BucketAge) /\ round'.phase = round.phase
        /\ round'.into = round.into /\ round'.of = round.of
    BY <1>1, <1>9, <2>1 DEF TypeOK, Round, AddingTo
  <2>3. AddingTo(handler[f], f)'
    BY <1>2, <1>9, <2>2 DEF AddingTo
  <2>4. AddingAges(Owed(f), Older(round.age, BucketAge), uses'[f])
    BY <1>3, <1>6, <1>8, <1>9, AgesOlder DEF RatedAges
  <2> QED
    BY <1>7, <2>2, <2>3, <2>4 DEF RatedAges
<1>10. CASE ~AddingTo(handler[f], f)
  <2>1. ~AddingTo(handler[f], f)'
    BY <1>1, <1>2, <1>10 DEF Tick, AddingTo, TypeOK, Round
  <2>2. AddedAges(Owed(f), Older(record[handler[f]][f].age, BucketAge), uses'[f])
    BY <1>3, <1>6, <1>8, <1>10, AgesOlder DEF RatedAges
  <2> QED
    BY <1>2, <1>5, <1>7, <2>1, <2>2 DEF RatedAges
<1> QED
  BY <1>9, <1>10

LEMMA NextRated == BoundInv /\ BoundInv' /\ Rated /\ [Next]_vars => Rated'
<1> SUFFICES ASSUME BoundInv, BoundInv', Rated, [Next]_vars PROVE Rated'
  OBVIOUS
<1>0. TypeOK
  BY DEF BoundInv, TypeInv
<1>a. ASSUME UNCHANGED <<record, handler, round, uses, raced>>,
             \A f \in Frontends : Pending(f)' = Pending(f)
      PROVE  Rated'
  <2>1. \A n \in Arrays, f \in Frontends : AddingTo(n, f)' <=> AddingTo(n, f)
    BY <1>a DEF AddingTo
  <2> QED
    BY <1>0, <1>a, <2>1, QuietRated
<1>b. UNCHANGED taking => \A f \in Frontends : Pending(f)' = Pending(f)
  BY DEF Pending
<1>1. ASSUME NEW f \in Frontends, NEW c \in Clients,
             Join(f, c) \/ Leave(f, c) \/ InviteOfNobody(f, c)
      PROVE  Rated'
  BY <1>1, <1>a, <1>b DEF Join, Leave, InviteOfNobody, history
<1>2. ASSUME NEW f \in Frontends, NEW t,
             UNCHANGED <<record, handler, round, uses, raced>>,
             taking' = [taking EXCEPT ![f] = t],
             t.phase \in {"inviting", "taking"} <=> taking[f].phase \in {"inviting", "taking"}
      PROVE  Rated'
  <2>1. \A g \in Frontends : Pending(g)' = Pending(g)
    BY <1>0, <1>2 DEF Pending, TypeOK
  <2> QED
    BY <1>2, <1>a, <2>1
<1>3. ASSUME NEW f \in Frontends, ReadTokens(f) PROVE Rated'
  <2> DEFINE t == [phase |-> "taking", saw |-> Tokens(f)]
  <2>1. t.phase = "taking" /\ taking[f].phase = "inviting" /\ taking' = [taking EXCEPT ![f] = t]
    BY <1>3 DEF ReadTokens
  <2>2. UNCHANGED <<record, handler, round, uses, raced>>
    BY <1>3 DEF ReadTokens, history
  <2> QED
    BY <1>2, <2>1, <2>2
<1>4. ASSUME NEW f \in Frontends, NEW c \in Clients, NEW g \in Frontends, Teleport(f, c, g) PROVE Rated'
  <2>1. PICK i \in DOMAIN List : taking' = [taking EXCEPT ![f] = [phase |-> "teleporting", at |-> i]]
    BY <1>4 DEF Teleport
  <2>2. taking[f].phase = "idle" /\ UNCHANGED <<record, handler, round, uses, raced>>
    BY <1>4 DEF Teleport, Reading, Idle, history
  <2> QED
    BY <1>2, <2>1, <2>2
<1>5. ASSUME NEW f \in Frontends, CountTeleport(f) PROVE Rated'
  <2>1. taking[f].phase = "teleporting" /\ UNCHANGED <<record, handler, round, uses, raced>>
    BY <1>5 DEF CountTeleport, history
  <2>2. taking' = [taking EXCEPT ![f] = Idle] \/ UNCHANGED taking
    BY <1>5 DEF CountTeleport
  <2>3. Idle.phase = "idle"
    BY DEF Idle
  <2> QED
    BY <1>2, <1>a, <1>b, <2>1, <2>2, <2>3
<1>6. CASE StartRound \/ VisitSkips \/ VisitPanics \/ EndRound
  <2>1. UNCHANGED <<record, handler, taking, uses, raced>>
    BY <1>6 DEF StartRound, VisitSkips, VisitPanics, EndRound, history
  <2>2. \A n, f : ~AddingTo(n, f) /\ ~AddingTo(n, f)'
    BY <1>6 DEF StartRound, VisitSkips, VisitPanics, EndRound, Visiting, Onward, Asleep, AddingTo
  <2> QED
    BY <1>0, <1>b, <2>1, <2>2, QuietRated
<1>7. CASE ReadBucket
  <2>1. /\ UNCHANGED <<record, handler, taking, uses, raced>>
        /\ round.phase = "adding" /\ round'.phase = "writing" /\ round'.into = round.into
        /\ round'.of = round.of /\ round'.age = round.age
    BY <1>7 DEF ReadBucket, history
  <2>2. \A n, f : AddingTo(n, f)' <=> AddingTo(n, f)
    BY <2>1 DEF AddingTo
  <2> QED
    BY <1>0, <1>b, <2>1, <2>2, QuietRated
<1>8. CASE Restart
  BY <1>8 DEF Restart, Rated
<1>9. CASE UNCHANGED vars
  BY <1>9, <1>a, <1>b DEF vars, history
<1>10. ASSUME Maintenance PROVE Rated'
  BY <1>6, <1>7, <1>10, VisitAddsRated, AddTokenRated DEF Maintenance
<1> QED
  BY <1>1, <1>3, <1>4, <1>5, <1>8, <1>9, <1>10, ConnectRated, DisconnectRated, InviteRated,
     TakeTokenRated, DeleteFrontendRated, TickRated DEF Next

\* A full bucket and the additions of one interval are all the invites a server's
\* players give in an interval, but for a race (InvitesProps!ServerRate;
\* invite.go:29, 64, frontend.go:97-105).
THEOREM ServerRateCorrect == Spec => ServerRate
<1> DEFINE Waited ==
             \A f \in Frontends :
               (\E c \in Clients : GivesInvite(f, c)) /\ f \notin raced /\ Len(uses[f]) = MaxInviteTokens + 1
                 => uses[f][MaxInviteTokens + 1] > Freq
<1>1. Init => Rated
  BY DEF Init, Rated
<1>2. BoundInv /\ Rated /\ [Next]_vars => Waited
  <2> SUFFICES ASSUME BoundInv, Rated, [Next]_vars,
                      NEW f \in Frontends, NEW c \in Clients, GivesInvite(f, c),
                      f \notin raced, Len(uses[f]) = MaxInviteTokens + 1
               PROVE  uses[f][MaxInviteTokens + 1] > Freq
    OBVIOUS
  <2>1. TypeOK
    BY DEF BoundInv, TypeInv
  <2>2. Invite(f, c)
    BY <2>1, GivesParts
  <2>3. handler[f] # 0 /\ Tokens(f) # 0 /\ taking[f].phase = "idle"
    BY <2>1, <2>2 DEF Invite, Reading, Idle
  <2>4. Tokens(f) \in Nat
    BY <2>1, <2>3, TokensAreNat
  <2>5. Owed(f) \in Nat /\ MaxInviteTokens + 1 > Owed(f) + 1
    <3>1. Pending(f) = 0
      BY <2>3 DEF Pending
    <3> QED
      BY <2>3, <2>4, <3>1, RatedParts, BucketAssumption DEF Owed
  <2>6. uses[f] \in Seq(BucketAge)
    BY <2>1 DEF TypeOK
  <2>7. MaxInviteTokens + 1 \in DOMAIN uses[f]
    BY <2>6, BucketAssumption
  <2>8. MaxInviteTokens + 1 > Owed(f)
    BY <2>5, BucketAssumption
  <2>9. RatedAges(f)
    BY <2>3 DEF Rated
  <2> QED
    BY <2>5, <2>7, <2>8, <2>9 DEF RatedAges, AddingAges, AddedAges
<1>3. BoundInv /\ Rated /\ [Next]_vars => [Waited]_vars
  BY <1>2
<1> QED
  BY <1>1, <1>3, InitBound, StepBound, NextRated, PTL DEF Spec, ServerRate
=============================================================================
