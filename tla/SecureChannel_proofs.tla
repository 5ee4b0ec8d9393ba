------------------------ MODULE SecureChannel_proofs ------------------------
(***************************************************************************)
(* The link implements OrderedDelivery, for every set of sending           *)
(* goroutines and every bound on messages, draws and packets: the client   *)
(* acts on no whole message twice even if goroutines meet in SendMessages  *)
(* or in a message, and it can read every packet, across every rotation of *)
(* keys, if they do not.                                                   *)
(***************************************************************************)
EXTENDS SecureChannelProps, SequenceTheorems, TLAPS

\* The steps, one disjunct per action.
StepCases ==
  \/ \E p \in Procs :
         \/ Begin(p) \/ GoesOn(p) \/ End(p) \/ Leaves(p)
         \/ NothingToSend(p) \/ Tests(p) \/ Encrypt(p)
         \/ Store(p) \/ Write(p) \/ Reset(p)
  \/ RotateKeys \/ AssignKeys
  \/ \E n \in 1..2 : ServerReads(n)
  \/ ServerReadsPart \/ ClientReceives \/ ClientSends

LEMMA NextIsStepCases == Next <=> StepCases
BY HandlerAssumption DEF Next, Ending, Sending, Reading, StepCases

-----------------------------------------------------------------------------
LEMMA EmptiedIsPacket ==
  ASSUME NEW n \in Nat
  PROVE  Emptied(n) \in Packet
BY DEF Emptied, Packet

\* The changes the steps make to the buffer keep it a packet.
LEMMA PacketFlags ==
  ASSUME NEW p \in Packet
  PROVE  p.sealed \in BOOLEAN
BY DEF Packet

LEMMA PacketWithKey ==
  ASSUME NEW p \in Packet, NEW b \in BOOLEAN, NEW k \in Nat
  PROVE  [p EXCEPT !.rekey = k, !.mangled = b] \in Packet
BY DEF Packet

LEMMA PacketWithMessages ==
  ASSUME NEW p \in Packet, NEW b \in BOOLEAN, NEW n \in Nat
  PROVE  [p EXCEPT !.to = n, !.mangled = b] \in Packet
BY DEF Packet

LEMMA PacketMangled ==
  ASSUME NEW p \in Packet, NEW b \in BOOLEAN
  PROVE  [p EXCEPT !.mangled = b] \in Packet
BY DEF Packet

LEMMA PacketSealed ==
  ASSUME NEW p \in Packet, NEW b \in BOOLEAN,
         NEW k \in Nat, NEW m \in Nat, NEW n \in Nat
  PROVE  [p EXCEPT !.sealed = TRUE, !.mangled = b,
                   !.key = k, !.iv = m, !.next = n] \in Packet
BY DEF Packet

LEMMA CipherParts ==
  ASSUME TypeOK, NEW p \in Procs
  PROVE  cipher[p] \in Packet /\ cipher[p].next \in Nat
<1>1. cipher[p] \in Packet
  BY DEF TypeOK
<1> QED
  BY <1>1 DEF Packet

\* What the writes make of the parts.
LEMMA PartTypes ==
  ASSUME TypeOK, NEW p \in Procs, NEW s \in {"none", "begun", "torn"}
  PROVE  /\ PartsAfter(p, s) \in [Procs -> {"none", "begun", "torn"}]
         /\ CutOff \in [Procs -> {"none", "begun", "torn"}]
BY DEF TypeOK, PartsAfter, CutOff

\* A packet's messages are a sequence of numbers.
LEMMA MessagesType ==
  ASSUME NEW p \in Packet
  PROVE  Messages(p) \in Seq(Nat)
<1>1. CASE p.from <= p.to
  <2> DEFINE n == p.to - p.from + 1
  <2>1. n \in Nat
    BY <1>1 DEF Packet
  <2>2. Messages(p) \in [1..n -> Nat]
    BY DEF Messages, Packet
  <2> QED
    BY <2>1, <2>2
<1>2. CASE ~(p.from <= p.to)
  <2>1. 1..(p.to - p.from + 1) = {}
    BY <1>2 DEF Packet
  <2>2. Messages(p) = <<>>
    BY <2>1 DEF Messages
  <2> QED
    BY <2>2
<1> QED
  BY <1>1, <1>2

LEMMA MessagesParts ==
  ASSUME NEW p \in Packet
  PROVE  /\ ~HasMessages(p) => Messages(p) = <<>>
         /\ HasMessages(p) => Len(Messages(p)) = p.to - p.from + 1
         /\ \A i \in 1..Len(Messages(p)) :
              HasMessages(p) /\ Messages(p)[i] = p.from + i - 1 /\ Messages(p)[i] <= p.to
<1> DEFINE n == p.to - p.from + 1
<1>1. p.from \in Nat /\ p.to \in Nat /\ n \in Int
  BY DEF Packet
<1>2. Messages(p) = [i \in 1..n |-> p.from + i - 1]
  BY DEF Messages
<1>3. CASE HasMessages(p)
  <2>1. n \in Nat /\ p.from <= p.to
    BY <1>1, <1>3 DEF HasMessages
  <2>2. Len(Messages(p)) = n
    <3> HIDE DEF n
    <3> QED
      BY <1>2, <2>1
  <2> QED
    BY <1>1, <1>2, <1>3, <2>1, <2>2
<1>4. CASE ~HasMessages(p)
  <2>1. 1..n = {}
    BY <1>1, <1>4 DEF HasMessages
  <2>2. Messages(p) = <<>>
    BY <1>2, <2>1
  <2> QED
    BY <1>4, <2>2
<1> QED
  BY <1>3, <1>4

\* The types of the variables (SecureChannel!TypeOK) hold in every reachable
\* state, whatever goroutines send.
THEOREM TypeCorrect == Spec => []TypeOK
<1>1. Init => TypeOK
  <2>1. Emptied(0) \in Packet
    BY EmptiedIsPacket
  <2>2. SUFFICES ASSUME Init PROVE TypeOK
    OBVIOUS
  <2>3. out \in Packet /\ cipher \in [Procs -> Packet]
    BY <2>1, <2>2 DEF Init
  <2>4. /\ wire \in Seq(Packet) /\ got \in Seq(Nat) /\ up \in Seq([key : Nat, iv : Nat])
        /\ taken \in 0..Len(wire)
    BY <2>2 DEF Init
  <2>5. /\ appended \in Nat /\ torn \in BOOLEAN
        /\ part \in [Procs -> {"none", "begun", "torn"}]
        /\ phase \in [Procs -> {"idle", "appended", "tested", "sealed", "write",
                                "reset", "assign"}]
    BY <2>2, BoundsAssumption DEF Init
  <2>6. /\ skey \in Nat /\ siv \in Nat /\ previv \in Nat /\ rotating \in Nat
        /\ drawn \in Nat /\ ckey \in Nat /\ civ \in Nat
        /\ status \in {"serving", "abandoned", "panicked"}
        /\ broken \subseteq {"oldKey", "undecipherable"} /\ crossed \in BOOLEAN
    BY <2>2 DEF Init
  <2> QED
    BY <2>3, <2>4, <2>5, <2>6 DEF TypeOK
<1>2. TypeOK /\ [Next]_vars => TypeOK'
  <2> SUFFICES ASSUME TypeOK, [Next]_vars PROVE TypeOK'
    OBVIOUS
  <2> USE HandlerAssumption, BoundsAssumption, EmptiedIsPacket
      DEF TypeOK, At, Goto, AfterSend, serverVars, clientVars
  <2>1. ASSUME NEW p \in Procs, Begin(p) PROVE TypeOK'
    <3>1. out' \in Packet
      BY <2>1, PacketFlags, PacketMangled DEF Begin
    <3>2. part' \in [Procs -> {"none", "begun", "torn"}]
      BY <2>1, PartTypes DEF Begin
    <3>3. crossed' \in BOOLEAN /\ torn' \in BOOLEAN
      BY <2>1 DEF Begin, InSend, Amid
    <3> QED
      BY <2>1, <3>1, <3>2, <3>3 DEF Begin
  <2>16. ASSUME NEW p \in Procs, GoesOn(p) PROVE TypeOK'
    <3>1. out' \in Packet
      BY <2>16, PacketFlags, PacketMangled DEF GoesOn
    <3>2. part' \in [Procs -> {"none", "begun", "torn"}]
      BY <2>16, PartTypes DEF GoesOn
    <3> QED
      BY <2>16, <3>1, <3>2 DEF GoesOn
  <2>17. ASSUME NEW p \in Procs, End(p) PROVE TypeOK'
    <3>1. PICK n : n = IF Whole(p) THEN appended + 1 ELSE out.to
      OBVIOUS
    <3>2. n \in Nat /\ appended + 1 \in Nat
      BY <3>1 DEF Packet
    <3>3. out' = [out EXCEPT !.to = n, !.mangled = out.sealed]
      BY <2>17, <3>1 DEF End
    <3>4. out' \in Packet
      BY <3>2, <3>3, PacketFlags, PacketWithMessages
    <3>5. part' \in [Procs -> {"none", "begun", "torn"}] /\ torn' \in BOOLEAN
      BY <2>17, PartTypes DEF End
    <3> QED
      BY <2>17, <3>2, <3>4, <3>5 DEF End
  <2>18. ASSUME NEW p \in Procs, Leaves(p) PROVE TypeOK'
    BY <2>18 DEF Leaves
  <2>2. ASSUME NEW p \in Procs, NothingToSend(p) PROVE TypeOK'
    BY <2>2 DEF NothingToSend
  <2>13. ASSUME NEW p \in Procs, Tests(p) PROVE TypeOK'
    <3>1. crossed' \in BOOLEAN
      BY <2>13 DEF Tests, Crosses, InSend
    <3> QED
      BY <2>13, <3>1 DEF Tests
  <2>14. ASSUME NEW p \in Procs, Encrypt(p) PROVE TypeOK'
    <3>1. PICK n \in NextIvs :
            cipher' = [cipher EXCEPT ![p] =
                        [out EXCEPT !.sealed = TRUE, !.mangled = out.sealed,
                                    !.key = skey, !.iv = siv, !.next = n]]
      BY <2>14 DEF Encrypt
    <3>2. n \in Nat
      <4>1. n = drawn + 1 \/ \E q \in Procs : n = cipher[q].next
        BY <3>1 DEF NextIvs
      <4> QED
        BY <4>1, CipherParts
    <3>3. [out EXCEPT !.sealed = TRUE, !.mangled = out.sealed,
                      !.key = skey, !.iv = siv, !.next = n] \in Packet
      BY <3>2, PacketFlags, PacketSealed
    <3>4. cipher' \in [Procs -> Packet]
      BY <3>1, <3>3
    <3>5. drawn' \in Nat
      <4>1. drawn \in Nat
        OBVIOUS
      <4> HIDE DEF TypeOK
      <4>2. drawn' = drawn + 1
        BY <2>14 DEF Encrypt
      <4> QED
        BY <4>1, <4>2
    <3>6. /\ Goto(p, "sealed")
          /\ UNCHANGED <<skey, siv, previv, out, torn, part, rotating, appended,
                         status, wire, clientVars, up>>
      BY <2>14 DEF Encrypt
    <3>7. crossed' \in BOOLEAN
      BY <2>14 DEF Encrypt, Amid
    <3> QED
      BY <3>4, <3>5, <3>6, <3>7
  <2>15. ASSUME NEW p \in Procs, Store(p) PROVE TypeOK'
    <3>1. cipher[p] \in Packet /\ cipher[p].next \in Nat
      BY CipherParts
    <3>2. cipher' \in [Procs -> Packet]
      BY <2>15 DEF Store
    <3>3. part' \in [Procs -> {"none", "begun", "torn"}]
      BY <2>15, PartTypes DEF Store
    <3> QED
      BY <2>15, <3>1, <3>2, <3>3 DEF Store, IvAfterSend
  <2>4. ASSUME NEW p \in Procs, Write(p) PROVE TypeOK'
    BY <2>4 DEF Write
  <2>5. ASSUME NEW p \in Procs, Reset(p) PROVE TypeOK'
    <3>1. part' \in [Procs -> {"none", "begun", "torn"}]
      BY <2>5, PartTypes DEF Reset
    <3> QED
      BY <2>5, <3>1 DEF Reset
  <2>6. CASE RotateKeys
    <3>1. drawn + 1 \in Nat
      OBVIOUS
    <3>2. PICK k : /\ k = drawn + 1 \/ k = out.rekey
                   /\ out' = [out EXCEPT !.rekey = k, !.mangled = out.sealed]
      BY <2>6 DEF RotateKeys, WithKey
    <3>3. k \in Nat
      BY <3>1, <3>2 DEF Packet
    <3>4. out' \in Packet
      BY <3>2, <3>3, PacketFlags, PacketWithKey
    <3>5. part' \in [Procs -> {"none", "begun", "torn"}] /\ torn' \in BOOLEAN
      BY <2>6, PartTypes DEF RotateKeys
    <3> QED
      BY <2>6, <3>1, <3>4, <3>5 DEF RotateKeys
  <2>7. CASE AssignKeys
    BY <2>7 DEF AssignKeys
  <2>8. ASSUME NEW n \in 1..2, ServerReads(n) PROVE TypeOK'
    <3>1. up' \in Seq([key : Nat, iv : Nat])
      <4> DEFINE Sent == [key : Nat, iv : Nat]
      <4>1. up \in Seq(Sent) /\ Len(up) \in Nat /\ n + 1 \in 1..3
        OBVIOUS
      <4> HIDE DEF Sent
      <4>2. \A i \in (n + 1)..Len(up) : up[i] \in Sent
        BY <4>1
      <4>3. SubSeq(up, n + 1, Len(up)) \in Seq(Sent)
        BY <4>1, <4>2, SubSeqProperties
      <4> QED
        BY <2>8, <4>3 DEF ServerReads, Sent
    <3> QED
      BY <2>8, <3>1 DEF ServerReads, AfterParsing
  <2>9. CASE ServerReadsPart
    BY <2>9 DEF ServerReadsPart
  <2>10. CASE ClientReceives
    <3> DEFINE p == wire[taken + 1]
    <3>1. p \in Packet /\ taken' \in 0..Len(wire)
      BY <2>10 DEF ClientReceives
    <3>2. got \o Messages(p) \in Seq(Nat)
      <4>1. Messages(p) \in Seq(Nat) /\ got \in Seq(Nat)
        BY <3>1, MessagesType
      <4> QED
        BY <4>1, ConcatProperties
    <3>3. KeyAfter(p) \in Nat /\ IvAfter(p) \in Nat
      BY <3>1 DEF KeyAfter, IvAfter, Packet
    <3>4. got' \in Seq(Nat) /\ ckey' \in Nat /\ civ' \in Nat
      BY <2>10, <3>2, <3>3 DEF ClientReceives
    <3>5. broken' \subseteq {"oldKey", "undecipherable"}
      BY <2>10 DEF ClientReceives
    <3> QED
      BY <2>10, <3>1, <3>4, <3>5 DEF ClientReceives
  <2>11. CASE ClientSends
    BY <2>11 DEF ClientSends
  <2>12. CASE UNCHANGED vars
    BY <2>12 DEF vars
  <2> QED
    BY <2>1, <2>2, <2>4, <2>5, <2>6, <2>7, <2>8, <2>9, <2>10, <2>11,
       <2>12, <2>13, <2>14, <2>15, <2>16, <2>17, <2>18, NextIsStepCases DEF StepCases
<1> QED
  BY <1>1, <1>2, PTL DEF Spec

-----------------------------------------------------------------------------
(* Nothing is acted on twice, whichever goroutines meet.                   *)

Good(c) == c.sealed /\ ~c.mangled

\* The ciphertexts that the client may still read: held by a goroutine, in the
\* buffer or on the wire.
Flying ==
  {c \in Packet :
     /\ Good(c)
     /\ \/ c = out
        \/ \E p \in Procs : phase[p] = "sealed" /\ c = cipher[p]
        \/ \E i \in (taken + 1)..Len(wire) : c = wire[i]}

\* What is encrypted under IV v, from message f on, comes too late for the client
\* or brings only messages it has not got; and the same will be so when it has
\* read any packet that flies.
Above(v, f) ==
  /\ v >= civ => \A i \in 1..Len(got) : got[i] < f
  /\ \A a \in Flying : HasMessages(a) /\ v >= IvAfter(a) => a.to < f

\* An IV that is later than all that is in use.
Below(v) == siv < v /\ \A a \in Flying : a.iv < v

Past ==
  /\ \A i \in 1..Len(got) : got[i] <= appended
  /\ \A c \in Flying :
       /\ c.iv < c.next /\ c.iv < IvAfter(c) /\ c.iv <= drawn
       /\ c.to <= appended /\ Above(c.iv, c.from)

Drawn ==
  /\ siv <= drawn /\ rotating <= drawn /\ out.rekey <= drawn
  /\ \A p \in Procs : phase[p] = "sealed" =>
       cipher[p].sealed /\ cipher[p].next <= drawn /\ cipher[p].rekey <= drawn

\* Ciphertext c is of what the buffer still holds.
Within(c) ==
  /\ ~c.mangled /\ c.from = out.from
  /\ \/ HasMessages(c) /\ HasMessages(out)
     \/ c.rekey # 0 /\ c.rekey = out.rekey

Held(p) == phase[p] = "sealed" /\ Within(cipher[p])

\* Every message appended since the last Reset is in the buffer, unless one is torn.
Counted == out.to <= appended /\ (torn \/ out.to = appended)

\* The buffer as long as it is no ciphertext.
Open ==
  ~out.sealed =>
    /\ Counted /\ Above(siv, out.from)
    /\ out.rekey # 0 => Below(out.rekey)
    /\ \A p \in Procs : Held(p) => Below(cipher[p].next)
    /\ phase[Handler] = "assign" =>
         /\ out.rekey = 0 /\ Above(rotating, out.from)
         /\ \A p \in Procs : Held(p) => rotating < cipher[p].next

FreshInv == Past /\ Drawn /\ Open

LEMMA Parts ==
  ASSUME TypeOK
  PROVE  /\ skey \in Nat /\ siv \in Nat /\ civ \in Nat /\ rotating \in Nat
         /\ drawn \in Nat /\ appended \in Nat
         /\ out \in Packet /\ wire \in Seq(Packet) /\ taken \in 0..Len(wire)
         /\ got \in Seq(Nat) /\ \A i \in 1..Len(got) : got[i] \in Nat
         /\ \A p \in Procs : cipher[p] \in Packet
BY BoundsAssumption DEF TypeOK

LEMMA PacketParts ==
  ASSUME NEW c \in Packet
  PROVE  /\ c.sealed \in BOOLEAN /\ c.mangled \in BOOLEAN /\ c.iv \in Nat /\ c.next \in Nat
         /\ c.rekey \in Nat /\ c.from \in Nat /\ c.to \in Nat /\ IvAfter(c) \in Nat
BY DEF Packet, IvAfter

LEMMA AboveStands ==
  ASSUME NEW v, NEW f, Above(v, f), Flying' \subseteq Flying,
         civ' = civ, got' = got
  PROVE  Above(v, f)'
BY DEF Above, HasMessages, IvAfter

\* From the next message on everything is new.
LEMMA AboveAll ==
  ASSUME TypeOK, Past, NEW v \in Nat, NEW f \in Nat, f > appended
  PROVE  Above(v, f)
<1>1. \A i \in 1..Len(got) : got[i] < f
  BY Parts DEF Past
<1>2. \A a \in Flying : a.to < f
  <2> TAKE a \in Flying
  <2>1. a \in Packet
    BY DEF Flying
  <2> QED
    BY <2>1, Parts, PacketParts DEF Past
<1> QED
  BY <1>1, <1>2 DEF Above

LEMMA PastStands ==
  ASSUME TypeOK, TypeOK', Past, Flying' \subseteq Flying, civ' = civ, got' = got,
         appended <= appended', drawn <= drawn'
  PROVE  Past'
<1>1. ASSUME NEW i \in 1..Len(got') PROVE got'[i] <= appended'
  <2>1. appended \in Nat /\ appended' \in Nat
    BY BoundsAssumption DEF TypeOK
  <2>2. got[i] <= appended /\ got[i] \in Nat
    BY Parts DEF Past
  <2> QED
    BY <2>1, <2>2
<1>2. ASSUME NEW c \in Flying'
      PROVE  /\ c.iv < c.next /\ c.iv < IvAfter(c) /\ c.iv <= drawn'
             /\ c.to <= appended' /\ Above(c.iv, c.from)'
  <2>1. c \in Flying /\ c \in Packet
    BY DEF Flying
  <2>2. drawn \in Nat /\ drawn' \in Nat /\ appended \in Nat /\ appended' \in Nat
    BY BoundsAssumption DEF TypeOK
  <2>3. Above(c.iv, c.from)
    BY <2>1 DEF Past
  <2>4. Above(c.iv, c.from)'
    BY <2>3, AboveStands
  <2> QED
    BY <2>1, <2>2, <2>4, PacketParts DEF Past
<1> QED
  BY <1>1, <1>2 DEF Past, IvAfter

\* A step by which nothing new flies and the client does not read.
LEMMA FreshStands ==
  ASSUME TypeOK, TypeOK', FreshInv, Flying' \subseteq Flying, civ' = civ, got' = got,
         appended <= appended', drawn <= drawn', Drawn', Open'
  PROVE  FreshInv'
BY PastStands DEF FreshInv

LEMMA BelowStands ==
  ASSUME NEW v, Below(v), Flying' \subseteq Flying, siv' = siv
  PROVE  Below(v)'
BY DEF Below

\* While the buffer is no ciphertext and keeps its contents, and the IVs stay,
\* what is known of it stays.
LEMMA OpenStands ==
  ASSUME TypeOK, Open, Flying' \subseteq Flying, civ' = civ, got' = got, siv' = siv,
         rotating' = rotating, appended' = appended,
         out'.sealed = out.sealed, out'.from = out.from, out'.to = out.to,
         out'.rekey = out.rekey, torn => torn', torn' \in BOOLEAN,
         \A p \in Procs : Held(p)' => Held(p) /\ cipher'[p] = cipher[p],
         phase'[Handler] = "assign" => phase[Handler] = "assign"
  PROVE  Open'
<1> SUFFICES ASSUME ~out.sealed PROVE Open'
  BY DEF Open
<1>1. Counted' /\ Above(siv, out.from)'
  <2>1. Above(siv, out.from)
    BY DEF Open
  <2>2. Above(siv, out.from)'
    BY <2>1 DEF Above, HasMessages, IvAfter
  <2> QED
    BY <2>2 DEF Open, Counted
<1>2. out.rekey # 0 => Below(out.rekey)'
  BY BelowStands DEF Open
<1>3. ASSUME NEW p \in Procs, Held(p)' PROVE Below(cipher[p].next)'
  BY <1>3, BelowStands DEF Open
<1>4. ASSUME phase'[Handler] = "assign"
      PROVE  /\ out.rekey = 0 /\ Above(rotating, out.from)'
             /\ \A p \in Procs : Held(p)' => rotating < cipher[p].next
  <2>1. out.rekey = 0 /\ Above(rotating, out.from)
    BY <1>4 DEF Open
  <2>2. Above(rotating, out.from)'
    BY <2>1 DEF Above, HasMessages, IvAfter
  <2> QED
    BY <1>4, <2>1, <2>2 DEF Open
<1> QED
  BY <1>1, <1>2, <1>3, <1>4 DEF Open, Above, Below

\* Where the other goroutines are.
LEMMA PhaseAfter ==
  ASSUME TypeOK, NEW p \in Procs, NEW ph, Goto(p, ph)
  PROVE  phase'[p] = ph /\ \A q \in Procs \ {p} : phase'[q] = phase[q]
BY DEF Goto, TypeOK

LEMMA FlyingStands ==
  ASSUME TypeOK, taken' = taken, wire' = wire,
         Good(out') => out' \in Flying,
         \A p \in Procs : phase'[p] = "sealed" => phase[p] = "sealed" /\ cipher'[p] = cipher[p]
  PROVE  Flying' \subseteq Flying
<1> SUFFICES ASSUME NEW c \in Flying' PROVE c \in Flying
  OBVIOUS
<1>1. c \in Packet /\ Good(c)
  BY DEF Flying, Good
<1>2. CASE c = out'
  BY <1>1, <1>2
<1>3. CASE \E p \in Procs : phase'[p] = "sealed" /\ c = cipher'[p]
  BY <1>1, <1>3 DEF Flying
<1>4. CASE \E i \in (taken + 1)..Len(wire) : c = wire[i]
  BY <1>1, <1>4 DEF Flying
<1> QED
  BY <1>2, <1>3, <1>4 DEF Flying

\* Reading a packet makes nothing late that was in time.
LEMMA AboveRead ==
  ASSUME TypeOK, FreshInv, ClientReceives, Readable(wire[taken + 1]),
         NEW v \in Nat, NEW f \in Nat, Above(v, f), Flying' \subseteq Flying
  PROVE  Above(v, f)'
<1> DEFINE pk == wire[taken + 1]
<1>1. taken < Len(wire) /\ pk \in Packet /\ pk \in Flying
  <2>1. taken < Len(wire) /\ taken + 1 \in (taken + 1)..Len(wire) /\ taken + 1 \in 1..Len(wire)
    <3>1. taken < Len(wire) /\ taken \in Nat /\ Len(wire) \in Nat
      BY Parts DEF ClientReceives
    <3> QED
      BY <3>1
  <2>2. pk \in Packet
    BY <2>1, Parts
  <2> QED
    BY <2>1, <2>2 DEF Flying, Good, Readable
<1>2. civ' = IvAfter(pk) /\ got' = got \o Messages(pk) /\ pk.iv = civ
  BY DEF ClientReceives, Readable
<1>3. civ < IvAfter(pk) /\ IvAfter(pk) \in Nat /\ civ \in Nat
  BY <1>1, <1>2, Parts, PacketParts DEF FreshInv, Past
<1>4. ASSUME v >= IvAfter(pk), NEW i \in 1..Len(got') PROVE got'[i] < f
  <2>1. Messages(pk) \in Seq(Nat) /\ got \in Seq(Nat)
    BY <1>1, MessagesType, Parts
  <2>2. CASE i <= Len(got)
    <3>1. v >= civ /\ i \in 1..Len(got)
      BY <1>3, <1>4, <2>1, <2>2
    <3>2. got'[i] = got[i]
      BY <1>2, <2>1, <3>1, ConcatProperties
    <3> QED
      BY <3>1, <3>2 DEF Above
  <2>3. CASE i > Len(got)
    <3>1. i - Len(got) \in 1..Len(Messages(pk)) /\ got'[i] = Messages(pk)[i - Len(got)]
      BY <1>2, <2>1, <2>3, ConcatProperties
    <3>2. HasMessages(pk) /\ got'[i] <= pk.to
      BY <1>1, <3>1, MessagesParts
    <3>3. pk.to < f
      BY <1>1, <1>4, <3>2 DEF Above
    <3>4. got'[i] \in Nat
      BY <2>1, <3>1
    <3> QED
      BY <1>1, <3>2, <3>3, <3>4, PacketParts
  <2> QED
    BY <2>1, <2>2, <2>3
<1>5. \A a \in Flying' : HasMessages(a) /\ v >= IvAfter(a) => a.to < f
  BY DEF Above
<1> QED
  BY <1>2, <1>4, <1>5 DEF Above, HasMessages, IvAfter

\* A goroutine encrypts what the buffer holds.
LEMMA EncryptFresh ==
  ASSUME TypeOK, TypeOK', FreshInv, NEW p \in Procs, Encrypt(p)
  PROVE  FreshInv'
<1>1. PICK n \in NextIvs :
        cipher' = [cipher EXCEPT ![p] =
                    [out EXCEPT !.sealed = TRUE, !.mangled = out.sealed,
                                !.key = skey, !.iv = siv, !.next = n]]
  BY DEF Encrypt
<1>2. /\ phase[p] = "tested" /\ phase'[p] = "sealed"
      /\ \A q \in Procs \ {p} : phase'[q] = phase[q] /\ cipher'[q] = cipher[q]
      /\ phase'[Handler] = "assign" => phase[Handler] = "assign"
  <2>1. cipher \in [Procs -> Packet]
    BY DEF TypeOK
  <2>2. phase[p] = "tested" /\ Goto(p, "sealed")
    BY DEF Encrypt, At
  <2>3. phase'[p] = "sealed" /\ \A q \in Procs \ {p} : phase'[q] = phase[q]
    BY <2>2, PhaseAfter
  <2>4. \A q \in Procs \ {p} : cipher'[q] = cipher[q]
    BY <1>1, <2>1
  <2> QED
    BY <2>2, <2>3, <2>4, HandlerAssumption
<1>3. /\ drawn' = drawn + 1
      /\ UNCHANGED <<siv, civ, got, appended, rotating, out, torn, taken, wire>>
  BY DEF Encrypt, clientVars
<1>c. PICK c : c = cipher'[p]
  OBVIOUS
<1>4. /\ c \in Packet /\ c.sealed /\ c.mangled = out.sealed
      /\ c.iv = siv /\ c.next = n /\ c.rekey = out.rekey
      /\ c.from = out.from /\ c.to = out.to
  <2>1. cipher \in [Procs -> Packet] /\ cipher' \in [Procs -> Packet] /\ out \in Packet
    BY DEF TypeOK
  <2>2. cipher'[p] = [out EXCEPT !.sealed = TRUE, !.mangled = out.sealed,
                                 !.key = skey, !.iv = siv, !.next = n]
    BY <1>1, <2>1
  <2> QED
    BY <1>c, <2>1, <2>2 DEF Packet
<1>5. \A a \in Flying' : a \in Flying \/ a = c
  <2> TAKE a \in Flying'
  <2>1. a \in Packet /\ Good(a)
    BY DEF Flying, Good
  <2>2. \/ a = out
        \/ \E q \in Procs : phase'[q] = "sealed" /\ a = cipher'[q]
        \/ \E i \in (taken + 1)..Len(wire) : a = wire[i]
    BY <1>3 DEF Flying
  <2> QED
    BY <1>2, <1>c, <2>1, <2>2 DEF Flying
\* The IV it draws is later than all, or that of a ciphertext like it.
<1>6. n \in Nat /\ n <= drawn + 1 /\ (out.sealed \/ siv < n)
  <2>1. CASE n = drawn + 1
    BY <2>1, Parts DEF FreshInv, Drawn
  <2>2. ASSUME NEW q \in Procs, phase[q] = "sealed", n = cipher[q].next,
               cipher[q].iv = siv, BeginsAs(cipher[q])
        PROVE  n \in Nat /\ n <= drawn + 1 /\ (out.sealed \/ siv < n)
    <3>1. cipher[q] \in Packet /\ n \in Nat /\ n <= drawn /\ cipher[q].sealed
      BY <2>2, Parts, PacketParts DEF FreshInv, Drawn
    <3>2. ~out.sealed => cipher[q] \in Flying
      BY <2>2, <3>1 DEF Flying, Good, BeginsAs
    <3>3. ~out.sealed => siv < n
      BY <2>2, <3>2 DEF FreshInv, Past
    <3> QED
      BY <3>1, <3>3, Parts
  <2> QED
    BY <2>1, <2>2 DEF NextIvs
<1>7. ASSUME ~out.sealed, HasMessages(out) \/ out.rekey # 0
      PROVE  /\ Below(n)
             /\ phase[Handler] = "assign" => rotating < n
  <2>1. CASE n = drawn + 1
    <3>1. \A a \in Flying : a.iv < n
      <4> TAKE a \in Flying
      <4>1. a \in Packet /\ a.iv <= drawn
        BY DEF FreshInv, Past, Flying
      <4> QED
        BY <2>1, <4>1, Parts, PacketParts
    <3>2. siv < n /\ rotating < n
      BY <2>1, Parts DEF FreshInv, Drawn
    <3> QED
      BY <3>1, <3>2 DEF Below
  <2>2. ASSUME NEW q \in Procs, phase[q] = "sealed", n = cipher[q].next,
               BeginsAs(cipher[q])
        PROVE  Below(n) /\ (phase[Handler] = "assign" => rotating < n)
    <3>1. Held(q)
      BY <1>7, <2>2 DEF Held, Within, BeginsAs, HasMessages
    <3> QED
      BY <1>7, <2>2, <3>1 DEF FreshInv, Open
  <2> QED
    BY <2>1, <2>2 DEF NextIvs
<1>8. Drawn'
  <2>1. siv' <= drawn' /\ rotating' <= drawn' /\ out'.rekey <= drawn'
    BY <1>3, Parts, PacketParts DEF FreshInv, Drawn
  <2>2. ASSUME NEW q \in Procs, phase'[q] = "sealed"
        PROVE  cipher'[q].sealed /\ cipher'[q].next <= drawn' /\ cipher'[q].rekey <= drawn'
    <3>1. CASE q = p
      BY <1>3, <1>4, <1>6, <1>c, <2>1, <3>1
    <3>2. CASE q # p
      <4>1. /\ cipher[q].sealed /\ cipher[q].next <= drawn /\ cipher[q].rekey <= drawn
            /\ cipher'[q] = cipher[q] /\ cipher[q] \in Packet
        BY <1>2, <2>2, <3>2, Parts DEF FreshInv, Drawn
      <4>2. cipher[q].next \in Nat /\ cipher[q].rekey \in Nat
        BY <4>1, PacketParts
      <4>3. drawn \in Nat /\ drawn' \in Nat /\ drawn <= drawn'
        BY <1>3, Parts
      <4> QED
        BY <4>1, <4>2, <4>3
    <3> QED
      BY <3>1, <3>2
  <2> QED
    BY <2>1, <2>2 DEF Drawn
<1>9. CASE out.sealed
  <2>1. Flying' \subseteq Flying
    BY <1>4, <1>5, <1>9 DEF Flying, Good
  <2>2. Open'
    BY <1>3, <1>9 DEF Open
  <2> QED
    BY <1>3, <1>8, <2>1, <2>2, FreshStands, Parts
<1>10. CASE ~out.sealed
  <2>1. /\ c.to <= appended /\ Above(siv, out.from) /\ siv < n /\ siv <= drawn
        /\ out.rekey # 0 => Below(out.rekey)
    BY <1>4, <1>6, <1>10, Parts DEF FreshInv, Open, Counted, Drawn
  <2>2. siv < IvAfter(c)
    BY <1>4, <2>1 DEF IvAfter, Below
  <2>3. ASSUME HasMessages(c)
        PROVE  /\ \A a \in Flying : a.iv < IvAfter(c)
               /\ phase[Handler] = "assign" => rotating < IvAfter(c)
    <3>1. CASE out.rekey = 0
      <4>1. HasMessages(out)
        BY <1>4, <2>3 DEF HasMessages
      <4>2. Below(n) /\ (phase[Handler] = "assign" => rotating < n)
        BY <1>7, <1>10, <4>1
      <4> QED
        BY <1>4, <3>1, <4>2 DEF IvAfter, Below
    <3>2. CASE out.rekey # 0
      BY <1>4, <1>10, <2>1, <3>2 DEF IvAfter, Below, FreshInv, Open
    <3> QED
      BY <3>1, <3>2
  \* A new packet does not come between those that fly and the client.
  <2>4. ASSUME NEW v \in Nat, NEW f, Above(v, f), HasMessages(c) => v < IvAfter(c)
        PROVE  Above(v, f)'
    <3>1. \A a \in Flying' : HasMessages(a) /\ v >= IvAfter(a) => a.to < f
      <4> TAKE a \in Flying'
      <4>1. CASE a \in Flying
        BY <2>4, <4>1 DEF Above
      <4>2. CASE a = c
        BY <1>4, <2>4, <4>2, PacketParts
      <4> QED
        BY <1>5, <4>1, <4>2
    <3> QED
      BY <1>3, <2>4, <3>1 DEF Above, HasMessages, IvAfter
  <2>5. Past'
    <3>1. \A i \in 1..Len(got') : got'[i] <= appended'
      BY <1>3 DEF FreshInv, Past
    <3>2. ASSUME NEW a \in Flying'
          PROVE  /\ a.iv < a.next /\ a.iv < IvAfter(a) /\ a.iv <= drawn'
                 /\ a.to <= appended' /\ Above(a.iv, a.from)'
      <4>1. CASE a \in Flying
        <5>1. a \in Packet /\ Above(a.iv, a.from) /\ a.iv <= drawn
          BY <4>1 DEF FreshInv, Past, Flying
        <5>2. Above(a.iv, a.from)'
          BY <2>3, <2>4, <4>1, <5>1, PacketParts
        <5>3. a.iv <= drawn'
          BY <1>3, <5>1, Parts, PacketParts
        <5> QED
          BY <1>3, <4>1, <5>2, <5>3 DEF FreshInv, Past
      <4>2. CASE a = c
        <5>1. Above(a.iv, a.from)'
          BY <1>4, <2>1, <2>2, <2>4, <4>2, PacketParts
        <5>2. siv <= drawn'
          BY <1>3, <2>1, Parts
        <5> QED
          BY <1>3, <1>4, <2>1, <2>2, <4>2, <5>1, <5>2
      <4> QED
        BY <1>5, <4>1, <4>2
    <3> QED
      BY <3>1, <3>2 DEF Past, IvAfter
  <2>6. ASSUME NEW v, Below(v) PROVE Below(v)'
    BY <1>3, <1>4, <1>5, <2>6 DEF Below
  <2>7. Open'
    <3>1. Counted' /\ Above(siv, out.from)'
      <4>1. PICK v \in Nat, f \in Nat : v = siv /\ f = out.from
        BY Parts, PacketParts
      <4>2. Above(v, f)'
        BY <2>1, <2>2, <2>4, <4>1
      <4> QED
        BY <1>3, <1>10, <4>1, <4>2 DEF FreshInv, Open, Counted, Above
    <3>2. out'.rekey # 0 => Below(out.rekey)'
      <4>1. PICK k : k = out.rekey
        OBVIOUS
      <4>2. k # 0 => Below(k)'
        BY <2>1, <2>6, <4>1
      <4> QED
        BY <1>3, <4>1, <4>2 DEF Below
    <3>3. ASSUME NEW q \in Procs, Held(q)'
          PROVE  /\ Below(cipher[q].next)'
                 /\ phase[Handler] = "assign" => rotating < cipher'[q].next
      <4>1. CASE q = p
        <5>1. HasMessages(out) \/ out.rekey # 0
          BY <1>3, <3>3 DEF Held, Within, HasMessages
        <5>2. Below(n)' /\ (phase[Handler] = "assign" => rotating < n)
          BY <1>7, <1>10, <2>6, <5>1
        <5> QED
          BY <1>4, <1>c, <4>1, <5>2 DEF Below
      <4>2. CASE q # p
        <5>1. Held(q) /\ cipher'[q] = cipher[q]
          BY <1>2, <1>3, <3>3, <4>2 DEF Held, Within, HasMessages
        <5>2. PICK k : k = cipher[q].next
          OBVIOUS
        <5>3. Below(k)' /\ (phase[Handler] = "assign" => rotating < k)
          BY <1>10, <2>6, <5>1, <5>2 DEF FreshInv, Open
        <5> QED
          BY <5>1, <5>2, <5>3 DEF Below
      <4> QED
        BY <4>1, <4>2
    <3>4. ASSUME phase'[Handler] = "assign"
          PROVE  out.rekey = 0 /\ Above(rotating, out.from)'
      <4>1. phase[Handler] = "assign" /\ out.rekey = 0 /\ Above(rotating, out.from)
        BY <1>2, <1>10, <3>4 DEF FreshInv, Open
      <4>2. PICK v \in Nat, f \in Nat : v = rotating /\ f = out.from
        BY Parts, PacketParts
      <4>3. Above(v, f)'
        BY <2>3, <2>4, <4>1, <4>2
      <4> QED
        BY <1>3, <4>1, <4>2, <4>3 DEF Above
    <3> QED
      BY <1>2, <1>3, <3>1, <3>2, <3>3, <3>4 DEF Open, Above, Below
  <2> QED
    BY <1>8, <2>5, <2>7 DEF FreshInv
<1> QED
  BY <1>9, <1>10

\* Once the buffer is empty, no ciphertext held is of what it holds, and what is
\* put into it will be new.
NothingIn == out.to = appended /\ out.from > appended /\ out.rekey = 0

LEMMA OpenWhenEmpty == TypeOK /\ Past /\ Drawn /\ NothingIn => Open
<1> SUFFICES ASSUME TypeOK, Past, Drawn, NothingIn PROVE Open
  OBVIOUS
<1>1. \A v \in Nat : Above(v, out.from)
  BY AboveAll, Parts, PacketParts DEF NothingIn
<1>2. ~HasMessages(out)
  BY Parts, PacketParts DEF NothingIn, HasMessages
<1>3. \A p \in Procs : ~Held(p)
  BY <1>2 DEF Held, Within, NothingIn
<1> QED
  BY <1>1, <1>3, Parts, PacketParts DEF Open, Counted, NothingIn

LEMMA FreshStep ==
  ASSUME TypeOK, TypeOK', FreshInv, [Next]_vars
  PROVE  FreshInv'
<1>0. Past /\ Drawn /\ Open
  BY DEF FreshInv
<1>1. ASSUME NEW p \in Procs, End(p) PROVE FreshInv'
  <2>1. /\ UNCHANGED <<siv, civ, got, taken, wire, cipher, phase, drawn, rotating>>
        /\ appended' = appended + 1
    BY <1>1 DEF End, clientVars
  <2>n. PICK n : n = IF Whole(p) THEN appended + 1 ELSE out.to
    OBVIOUS
  <2>4. /\ out'.sealed = out.sealed /\ out'.mangled = out.sealed
        /\ out'.from = out.from /\ out'.to = n /\ out'.rekey = out.rekey
    <3>1. out' = [out EXCEPT !.to = n, !.mangled = out.sealed]
      BY <1>1, <2>n DEF End
    <3> QED
      BY <3>1, Parts DEF Packet
  <2>5. Flying' \subseteq Flying
    BY <2>1, <2>4, FlyingStands DEF Good
  <2>6. Drawn'
    BY <1>0, <2>1, <2>4 DEF Drawn
  <2>7. Open'
    <3> SUFFICES ASSUME ~out.sealed PROVE Open'
      BY <2>4 DEF Open
    <3>0. appended \in Nat /\ out.to \in Nat /\ out.from \in Nat /\ n \in Nat /\ Counted
      BY <1>0, <2>n, Parts, PacketParts DEF Open
    <3>k. Counted'
      <4>1. part[p] \in {"begun", "torn"} /\ torn' = (torn \/ part[p] = "torn")
        BY <1>1 DEF End, TypeOK
      <4>2. Whole(p) \/ torn'
        BY <4>1 DEF Whole
      <4> QED
        BY <2>1, <2>4, <2>n, <3>0, <4>2 DEF Counted
    <3>1. \A q \in Procs : Held(q)' => Held(q)
      <4> TAKE q \in Procs
      <4> HAVE Held(q)'
      <4>1. phase[q] = "sealed" /\ ~cipher[q].mangled /\ cipher[q].from = out.from
        BY <2>1, <2>4 DEF Held, Within
      <4>2. cipher[q] \in Flying /\ cipher[q] \in Packet
        BY <1>0, <4>1, Parts DEF Flying, Good, Drawn
      <4>3. cipher[q].to <= appended /\ cipher[q].to \in Nat
        BY <1>0, <4>2, PacketParts DEF Past
      <4>4. Whole(p) => out.to = appended
        BY <3>0 DEF Counted, Whole
      <4>5. HasMessages(cipher[q]) /\ HasMessages(out)' => HasMessages(out)
        BY <2>4, <2>n, <3>0, <4>1, <4>3, <4>4 DEF HasMessages
      <4> QED
        BY <2>1, <2>4, <4>1, <4>5 DEF Held, Within, HasMessages
    <3>2. ASSUME Above(siv, out.from), Above(rotating, out.from) \/ phase[Handler] # "assign"
          PROVE  /\ Above(siv, out.from)'
                 /\ phase[Handler] = "assign" => Above(rotating, out.from)'
      BY <2>1, <2>4, <2>5, <3>2 DEF Above, HasMessages, IvAfter
    <3>3. \A v : Below(v) => Below(v)'
      BY <2>1, <2>5, BelowStands
    <3>4. out.rekey # 0 => Below(out.rekey)'
      BY <1>0, <2>1, <2>4, <2>5 DEF Open, Below
    <3>5. \A q \in Procs : Held(q)' => Below(cipher[q].next)'
      BY <1>0, <2>1, <2>5, <3>1 DEF Open, Below
    <3> QED
      BY <1>0, <2>1, <2>4, <3>k, <3>1, <3>2, <3>4, <3>5, HandlerAssumption DEF Open
  <2> QED
    BY <2>1, <2>5, <2>6, <2>7, FreshStands, Parts
<1>12. ASSUME NEW p \in Procs, Begin(p) \/ GoesOn(p) PROVE FreshInv'
  <2>1. UNCHANGED <<siv, civ, got, taken, wire, cipher, drawn, rotating, appended>>
    BY <1>12 DEF Begin, GoesOn, clientVars
  <2>2. /\ torn => torn'
        /\ torn' \in BOOLEAN
    BY <1>12 DEF Begin, GoesOn, TypeOK
  <2>3. \A q \in Procs : /\ phase'[q] = "sealed" => phase[q] = "sealed"
                         /\ phase'[q] = "assign" => phase[q] = "assign"
    <3>1. CASE Begin(p)
      BY <3>1, PhaseAfter DEF Begin
    <3>2. CASE GoesOn(p)
      BY <3>2 DEF GoesOn
    <3> QED
      BY <1>12, <3>1, <3>2
  <2>4. /\ out'.sealed = out.sealed /\ out'.mangled = out.sealed
        /\ out'.from = out.from /\ out'.to = out.to /\ out'.rekey = out.rekey
    BY <1>12, Parts DEF Begin, GoesOn, Packet
  <2>5. Flying' \subseteq Flying
    BY <2>1, <2>3, <2>4, FlyingStands DEF Good
  <2>6. Drawn'
    BY <1>0, <2>1, <2>3, <2>4 DEF Drawn
  <2>7. \A q \in Procs : Held(q)' => Held(q) /\ cipher'[q] = cipher[q]
    BY <2>1, <2>3, <2>4 DEF Held, Within, HasMessages
  <2>8. Open'
    BY <1>0, <2>1, <2>2, <2>3, <2>4, <2>5, <2>7, OpenStands, HandlerAssumption
  <2> QED
    BY <2>1, <2>5, <2>6, <2>8, FreshStands, Parts
<1>2. ASSUME NEW p \in Procs, NothingToSend(p) PROVE FreshInv'
  <2>1. /\ UNCHANGED <<siv, civ, got, taken, wire, out, cipher, drawn, rotating, appended>>
        /\ phase[p] = "appended" /\ IsEmpty(out) /\ ~torn /\ Goto(p, AfterSend(p))
    BY <1>2 DEF NothingToSend, HasBytes, At, clientVars
  <2>2. \A q \in Procs : phase'[q] = "sealed" => phase[q] = "sealed"
    BY <2>1, PhaseAfter DEF AfterSend
  <2>3. Flying' \subseteq Flying
    BY <2>1, <2>2, FlyingStands DEF Flying
  <2>4. Drawn'
    BY <1>0, <2>1, <2>2 DEF Drawn
  <2>5. Past'
    BY <1>0, <2>1, <2>3, PastStands, Parts
  <2>6. out.to = appended /\ out.from > appended /\ out.rekey = 0
    BY <1>0, <2>1, Parts, PacketParts DEF IsEmpty, HasMessages, Open, Counted
  <2>7. Open'
    <3>1. NothingIn'
      BY <2>1, <2>6 DEF NothingIn
    <3>2. (TypeOK /\ Past /\ Drawn /\ NothingIn => Open)'
      BY OpenWhenEmpty, PTL
    <3> QED
      BY <2>4, <2>5, <3>1, <3>2
  <2> QED
    BY <2>4, <2>5, <2>7 DEF FreshInv
<1>3. ASSUME NEW p \in Procs, Tests(p) PROVE FreshInv'
  <2>1. /\ UNCHANGED <<siv, civ, got, taken, wire, out, torn, cipher, drawn, rotating,
                       appended>>
        /\ phase[p] = "appended" /\ Goto(p, "tested") /\ torn' \in BOOLEAN
    BY <1>3 DEF Tests, At, clientVars, TypeOK
  <2>2. \A q \in Procs : /\ phase'[q] = "sealed" => phase[q] = "sealed"
                         /\ phase'[q] = "assign" => phase[q] = "assign"
    BY <2>1, PhaseAfter
  <2>3. Flying' \subseteq Flying
    BY <2>1, <2>2, FlyingStands DEF Flying
  <2>4. Drawn'
    BY <1>0, <2>1, <2>2 DEF Drawn
  <2>5. Open'
    BY <1>0, <2>1, <2>2, <2>3, OpenStands, HandlerAssumption DEF Held, Within, HasMessages
  <2> QED
    BY <2>1, <2>3, <2>4, <2>5, FreshStands, Parts
<1>4. ASSUME NEW p \in Procs, Encrypt(p) PROVE FreshInv'
  BY <1>4, EncryptFresh
<1>5. ASSUME NEW p \in Procs, Store(p) PROVE FreshInv'
  <2>1. /\ UNCHANGED <<civ, got, taken, wire, drawn, rotating, appended>>
        /\ phase[p] = "sealed" /\ Goto(p, "write") /\ out' = cipher[p]
        /\ siv' = cipher[p].next
    BY <1>5 DEF Store, At, IvAfterSend, clientVars
  <2>2. \A q \in Procs : phase'[q] = "sealed" => phase[q] = "sealed" /\ q # p
    BY <2>1, PhaseAfter
  <2>3. \A q \in Procs \ {p} : cipher'[q] = cipher[q]
    BY <1>5 DEF Store, TypeOK
  <2>4. Good(out') => out' \in Flying
    BY <2>1, Parts DEF Flying
  <2>5. Flying' \subseteq Flying
    BY <2>1, <2>2, <2>3, <2>4, FlyingStands
  <2>6. Drawn'
    BY <1>0, <2>1, <2>2, <2>3 DEF Drawn
  <2>7. Open'
    BY <1>0, <2>1 DEF Open, Drawn
  <2> QED
    BY <2>1, <2>5, <2>6, <2>7, FreshStands, Parts
<1>6. ASSUME NEW p \in Procs, Write(p) PROVE FreshInv'
  <2>1. /\ UNCHANGED <<siv, civ, got, taken, out, torn, cipher, drawn, rotating, appended>>
        /\ phase[p] = "write" /\ Goto(p, "reset") /\ torn' \in BOOLEAN
        /\ wire' = wire \/ wire' = Append(wire, out)
    BY <1>6 DEF Write, At, clientVars, TypeOK
  <2>2. \A q \in Procs : /\ phase'[q] = "sealed" => phase[q] = "sealed"
                         /\ phase'[q] = "assign" => phase[q] = "assign"
    BY <2>1, PhaseAfter
  <2>3. Flying' \subseteq Flying
    <3> SUFFICES ASSUME NEW c \in Flying' PROVE c \in Flying
      OBVIOUS
    <3>1. /\ c \in Packet /\ Good(c)
          /\ \/ c = out
             \/ \E q \in Procs : phase'[q] = "sealed" /\ c = cipher[q]
             \/ \E i \in (taken + 1)..Len(wire') : c = wire'[i]
      BY <2>1 DEF Flying, Good
    <3>2. ASSUME NEW i \in (taken + 1)..Len(wire'), c = wire'[i] PROVE c \in Flying
      <4>1. CASE i \in (taken + 1)..Len(wire)
        <5>1. wire'[i] = wire[i]
          <6>1. wire \in Seq(Packet) /\ out \in Packet /\ i \in 1..Len(wire)
            BY <4>1, Parts
          <6> QED
            BY <2>1, <6>1
        <5> QED
          BY <3>1, <3>2, <4>1, <5>1 DEF Flying
      <4>2. CASE i \notin (taken + 1)..Len(wire)
        <5>1. wire'[i] = out
          BY <2>1, <3>2, <4>2, Parts
        <5> QED
          BY <3>1, <3>2, <5>1 DEF Flying
      <4> QED
        BY <4>1, <4>2
    <3> QED
      BY <2>2, <3>1, <3>2 DEF Flying
  <2>4. Drawn'
    BY <1>0, <2>1, <2>2 DEF Drawn
  <2>5. Open'
    BY <1>0, <2>1, <2>2, <2>3, OpenStands, HandlerAssumption DEF Held, Within, HasMessages
  <2> QED
    BY <2>1, <2>3, <2>4, <2>5, FreshStands, Parts
<1>7. ASSUME NEW p \in Procs, Reset(p) PROVE FreshInv'
  <2>1. /\ UNCHANGED <<siv, civ, got, taken, wire, cipher, drawn, rotating, appended>>
        /\ phase[p] = "reset" /\ Goto(p, AfterSend(p)) /\ out' = Emptied(appended)
    BY <1>7 DEF Reset, At, clientVars
  <2>2. \A q \in Procs : phase'[q] = "sealed" => phase[q] = "sealed"
    BY <2>1, PhaseAfter DEF AfterSend
  <2>3. /\ ~out'.sealed /\ out'.to = appended /\ out'.from = appended + 1 /\ out'.rekey = 0
    BY <2>1 DEF Emptied
  <2>4. Flying' \subseteq Flying
    BY <2>1, <2>2, <2>3, FlyingStands DEF Good
  <2>5. Drawn'
    BY <1>0, <2>1, <2>2, <2>3, Parts DEF Drawn
  <2>6. Past'
    BY <1>0, <2>1, <2>4, PastStands, Parts
  <2>7. NothingIn'
    BY <2>1, <2>3, Parts DEF NothingIn
  <2>8. (TypeOK /\ Past /\ Drawn /\ NothingIn => Open)'
    BY OpenWhenEmpty, PTL
  <2> QED
    BY <2>5, <2>6, <2>7, <2>8 DEF FreshInv
<1>8. CASE RotateKeys
  <2>1. /\ UNCHANGED <<siv, civ, got, taken, wire, cipher, phase, appended>>
        /\ drawn' = drawn + 1 /\ rotating' = drawn + 1 /\ phase[Handler] = "appended"
        /\ (torn => torn') /\ torn' \in BOOLEAN
    BY <1>8 DEF RotateKeys, At, clientVars, TypeOK
  <2>k. PICK k : /\ k = drawn + 1 \/ k = out.rekey
                 /\ out' = [out EXCEPT !.rekey = k, !.mangled = out.sealed]
    BY <1>8 DEF RotateKeys, WithKey
  <2>2. /\ out'.sealed = out.sealed /\ out'.mangled = out.sealed
        /\ out'.from = out.from /\ out'.to = out.to /\ out'.rekey = k
    BY <2>k, Parts DEF Packet
  <2>3. Flying' \subseteq Flying
    BY <2>1, <2>2, FlyingStands DEF Good
  <2>4. Drawn'
    <3>1. siv' <= drawn' /\ rotating' <= drawn' /\ out'.rekey <= drawn'
      BY <1>0, <2>1, <2>2, <2>k, Parts, PacketParts DEF Drawn
    <3>2. ASSUME NEW q \in Procs, phase[q] = "sealed"
          PROVE  cipher[q].sealed /\ cipher[q].next <= drawn' /\ cipher[q].rekey <= drawn'
      <4>1. cipher[q].next \in Nat /\ cipher[q].rekey \in Nat
        BY Parts, PacketParts
      <4>2. cipher[q].sealed /\ cipher[q].next <= drawn /\ cipher[q].rekey <= drawn
        BY <1>0, <3>2 DEF Drawn
      <4>3. drawn \in Nat /\ drawn' = drawn + 1
        BY <2>1, Parts
      <4> QED
        BY <4>1, <4>2, <4>3
    <3> QED
      BY <2>1, <3>1, <3>2 DEF Drawn
  <2>5. Open'
    <3> SUFFICES ASSUME ~out.sealed PROVE Open'
      BY <2>2 DEF Open
    <3>1. \A q \in Procs : Held(q)' => Held(q)
      <4> TAKE q \in Procs
      <4> HAVE Held(q)'
      <4>1. phase[q] = "sealed" /\ cipher[q].rekey <= drawn /\ cipher[q].rekey \in Nat
        BY <1>0, <2>1, Parts, PacketParts DEF Held, Drawn
      <4>2. cipher[q].rekey # drawn + 1
        BY <4>1, Parts
      <4> QED
        BY <2>1, <2>2, <2>k, <4>1, <4>2 DEF Held, Within, HasMessages
    <3>2. \A a \in Flying : a.iv < drawn + 1
      <4> TAKE a \in Flying
      <4>1. a \in Packet /\ a.iv <= drawn
        BY <1>0 DEF Past, Flying
      <4> QED
        BY <4>1, Parts, PacketParts
    <3>3. siv < drawn + 1
      BY <1>0, Parts DEF Drawn
    <3>4. k # 0 => Below(k)'
      <4>1. CASE k = drawn + 1
        BY <2>1, <2>3, <3>2, <3>3, <4>1 DEF Below
      <4>2. CASE k = out.rekey
        BY <1>0, <2>1, <2>3, <4>2 DEF Open, Below
      <4> QED
        BY <2>k, <4>1, <4>2
    <3>5. \A q \in Procs : Held(q)' => Below(cipher[q].next)'
      BY <1>0, <2>1, <2>3, <3>1 DEF Open, Below
    <3>6. Above(siv, out.from)'
      BY <1>0, <2>1, <2>2, <2>3 DEF Open, Above, HasMessages, IvAfter
    <3>7. Counted'
      BY <1>0, <2>1, <2>2 DEF Open, Counted
    <3>8. out'.rekey # 0 => Below(out.rekey)'
      BY <2>2, <3>4 DEF Below
    <3> QED
      BY <2>1, <3>5, <3>6, <3>7, <3>8 DEF Open
  <2> QED
    BY <2>1, <2>3, <2>4, <2>5, FreshStands, Parts
<1>9. CASE AssignKeys
  <2>1. /\ UNCHANGED <<civ, got, taken, wire, out, torn, cipher, drawn, appended>>
        /\ siv' = rotating /\ rotating' = 0 /\ phase[Handler] = "assign"
        /\ Goto(Handler, "idle")
    BY <1>9 DEF AssignKeys, At, clientVars
  <2>2. phase'[Handler] = "idle" /\ \A q \in Procs : phase'[q] = "sealed" => phase[q] = "sealed"
    BY <2>1, PhaseAfter, HandlerAssumption
  <2>3. Flying' \subseteq Flying
    BY <2>1, <2>2, FlyingStands DEF Flying
  <2>4. Drawn'
    BY <1>0, <2>1, <2>2, Parts DEF Drawn
  <2>5. Open'
    <3> SUFFICES ASSUME ~out.sealed PROVE Open'
      BY <2>1 DEF Open
    <3>1. /\ out.rekey = 0 /\ Above(rotating, out.from) /\ Counted
          /\ \A q \in Procs : Held(q) => rotating < cipher[q].next /\ Below(cipher[q].next)
      BY <1>0, <2>1 DEF Open
    <3>2. Above(siv, out.from)'
      BY <2>1, <2>3, <3>1 DEF Above, HasMessages, IvAfter
    <3>3. \A q \in Procs : Held(q)' => Held(q)
      BY <2>1, <2>2 DEF Held, Within, HasMessages
    <3>4. \A q \in Procs : Held(q)' => Below(cipher[q].next)'
      BY <2>1, <2>3, <3>1, <3>3 DEF Below
    <3> QED
      BY <2>1, <2>2, <3>1, <3>2, <3>4 DEF Open, Counted
  <2> QED
    BY <2>1, <2>3, <2>4, <2>5, FreshStands, Parts
<1>10. CASE ClientReceives
  <2> DEFINE pk == wire[taken + 1]
  <2>1. /\ UNCHANGED <<siv, out, torn, cipher, phase, drawn, rotating, appended, wire>>
        /\ taken < Len(wire) /\ taken' = taken + 1 /\ torn' \in BOOLEAN
    BY <1>10 DEF ClientReceives, serverVars, TypeOK
  <2>2. Flying' \subseteq Flying
    <3> SUFFICES ASSUME NEW c \in Flying' PROVE c \in Flying
      OBVIOUS
    <3>1. /\ c \in Packet /\ Good(c)
          /\ \/ c = out
             \/ \E q \in Procs : phase[q] = "sealed" /\ c = cipher[q]
             \/ \E i \in (taken + 2)..Len(wire) : c = wire[i]
      <4>1. (taken + 1) + 1 = taken + 2
        BY Parts
      <4> QED
        BY <2>1, <4>1 DEF Flying, Good
    <3>2. (taken + 2)..Len(wire) \subseteq (taken + 1)..Len(wire)
      BY Parts
    <3> QED
      BY <3>1, <3>2 DEF Flying
  <2>3. Drawn'
    BY <1>0, <2>1 DEF Drawn
  <2>4. CASE ~Readable(pk)
    <3>1. civ' = civ /\ got' = got
      BY <1>10, <2>4 DEF ClientReceives
    <3>2. Open'
      BY <1>0, <2>1, <2>2, <3>1, OpenStands DEF Held, Within, HasMessages
    <3> QED
      BY <2>1, <2>2, <2>3, <3>1, <3>2, FreshStands, Parts
  <2>5. CASE Readable(pk)
    <3>1. \A v \in Nat, f \in Nat : Above(v, f) => Above(v, f)'
      BY <1>10, <2>2, <2>5, AboveRead
    <3>2. Past'
      <4>1. ASSUME NEW i \in 1..Len(got') PROVE got'[i] <= appended
        <5>1. pk \in Packet /\ pk \in Flying
          <6>1. taken + 1 \in (taken + 1)..Len(wire) /\ pk \in Packet
            BY <2>1, Parts
          <6> QED
            BY <2>5, <6>1 DEF Flying, Good, Readable
        <5>2. got' = got \o Messages(pk) /\ Messages(pk) \in Seq(Nat) /\ got \in Seq(Nat)
          BY <1>10, <2>5, <5>1, MessagesType, Parts DEF ClientReceives
        <5>3. CASE i <= Len(got)
          BY <1>0, <5>2, <5>3, ConcatProperties DEF Past
        <5>4. CASE i > Len(got)
          <6>1. i - Len(got) \in 1..Len(Messages(pk)) /\ got'[i] = Messages(pk)[i - Len(got)]
            BY <5>2, <5>4, ConcatProperties
          <6>2. Messages(pk)[i - Len(got)] <= pk.to /\ Messages(pk)[i - Len(got)] \in Nat
            <7>1. Messages(pk)[i - Len(got)] <= pk.to
              BY <5>1, <6>1, MessagesParts
            <7>2. Messages(pk)[i - Len(got)] \in Nat
              BY <5>2, <6>1
            <7> QED
              BY <7>1, <7>2
          <6>3. pk.to <= appended
            BY <1>0, <5>1 DEF Past
          <6>4. pk.to \in Nat /\ appended \in Nat
            BY <5>1, Parts, PacketParts
          <6> QED
            BY <6>1, <6>2, <6>3, <6>4
        <5> QED
          BY <5>2, <5>3, <5>4, ConcatProperties
      <4>2. ASSUME NEW c \in Flying'
            PROVE  /\ c.iv < c.next /\ c.iv < IvAfter(c) /\ c.iv <= drawn
                   /\ c.to <= appended /\ Above(c.iv, c.from)'
        <5>1. c \in Flying /\ c \in Packet
          BY <2>2 DEF Flying
        <5> QED
          BY <1>0, <3>1, <5>1, PacketParts DEF Past
      <4> QED
        BY <2>1, <4>1, <4>2 DEF Past, IvAfter
    <3>3. Open'
      <4> SUFFICES ASSUME ~out.sealed PROVE Open'
        BY <2>1 DEF Open
      <4>1. PICK v \in Nat, r \in Nat, f \in Nat : v = siv /\ r = rotating /\ f = out.from
        BY Parts, PacketParts
      <4>2. Above(v, f)' /\ (phase[Handler] = "assign" => Above(r, f)')
        BY <1>0, <3>1, <4>1 DEF Open
      <4>3. Above(siv, out.from)' /\ (phase[Handler] = "assign" => Above(rotating, out.from)')
        BY <2>1, <4>1, <4>2 DEF Above
      <4>4. \A q \in Procs : Held(q)' => Held(q)
        BY <2>1 DEF Held, Within, HasMessages
      <4>5. \A q \in Procs : Held(q)' => Below(cipher[q].next)'
        BY <1>0, <2>1, <2>2, <4>4 DEF Open, Below
      <4>6. out.rekey # 0 => Below(out.rekey)'
        BY <1>0, <2>1, <2>2 DEF Open, Below
      <4> QED
        BY <1>0, <2>1, <4>3, <4>4, <4>5, <4>6 DEF Open, Counted
    <3> QED
      BY <2>3, <3>2, <3>3 DEF FreshInv
  <2> QED
    BY <2>4, <2>5
<1>11. ASSUME \/ \E p \in Procs : Leaves(p)
              \/ \E n \in 1..2 : ServerReads(n)
              \/ ServerReadsPart \/ ClientSends \/ UNCHANGED vars
       PROVE  FreshInv'
  <2>1. /\ UNCHANGED <<siv, civ, got, taken, wire, out, torn, cipher, drawn, rotating,
                       appended>>
        /\ torn' \in BOOLEAN
        /\ \/ \E p \in Procs : Goto(p, "idle") \/ Goto(p, "appended")
           \/ phase' = phase
    BY <1>11, HandlerAssumption DEF Leaves, ServerReads, AfterParsing, ServerReadsPart,
       ClientSends, vars, serverVars, clientVars, TypeOK
  <2>2. \A q \in Procs : /\ phase'[q] = "sealed" => phase[q] = "sealed"
                         /\ phase'[q] = "assign" => phase[q] = "assign"
    BY <2>1, PhaseAfter
  <2>3. Flying' \subseteq Flying
    BY <2>1, <2>2, FlyingStands DEF Flying
  <2>4. Drawn'
    BY <1>0, <2>1, <2>2 DEF Drawn
  <2>5. Open'
    BY <1>0, <2>1, <2>2, <2>3, OpenStands, HandlerAssumption DEF Held, Within, HasMessages
  <2> QED
    BY <2>1, <2>3, <2>4, <2>5, FreshStands, Parts
<1> QED
  BY <1>1, <1>2, <1>3, <1>4, <1>5, <1>6, <1>7, <1>8, <1>9, <1>10, <1>11, <1>12,
     NextIsStepCases DEF StepCases

LEMMA FreshInit == Init => FreshInv
<1> SUFFICES ASSUME Init PROVE FreshInv
  OBVIOUS
<1>1. ~out.sealed /\ out.rekey = 0 /\ out.from = 1 /\ out.to = 0
  BY DEF Init, Emptied
<1>2. Flying = {}
  <2>1. Len(wire) = 0 /\ taken = 0
    BY DEF Init
  <2> QED
    BY <1>1, <2>1 DEF Init, Flying, Good
<1>3. Len(got) = 0
  BY DEF Init
<1>4. \A p \in Procs : ~Held(p)
  BY DEF Init, Held
<1> QED
  BY <1>1, <1>2, <1>3, <1>4, HandlerAssumption
  DEF Init, FreshInv, Past, Drawn, Open, Counted, Above

-----------------------------------------------------------------------------
(* Without a meeting the packets form a chain of keys, IVs and messages.   *)

\* What the client will hold after reading all that is on the wire.
LastKey == IF taken < Len(wire) THEN KeyAfter(wire[Len(wire)]) ELSE ckey
LastIv  == IF taken < Len(wire) THEN IvAfter(wire[Len(wire)]) ELSE civ
LastMsg == IF taken < Len(wire) THEN wire[Len(wire)].to ELSE Len(got)

\* What the client will hold when packet i is the next to be read.
KeyBefore(i) == IF i = taken + 1 THEN ckey ELSE KeyAfter(wire[i - 1])
IvBefore(i)  == IF i = taken + 1 THEN civ ELSE IvAfter(wire[i - 1])
MsgBefore(i) == IF i = taken + 1 THEN Len(got) ELSE wire[i - 1].to

\* Packet c is what a client with this key, IV and last message expects; a packet
\* that only brings a key has no message.
Follows(c, key, iv, msg) ==
  /\ c.sealed /\ ~c.mangled
  /\ c.key = key /\ c.iv = iv
  /\ c.from = msg + 1 /\ c.from <= c.to + 1 /\ c.to <= appended

Chain ==
  \A i \in (taken + 1)..Len(wire) :
    Follows(wire[i], KeyBefore(i), IvBefore(i), MsgBefore(i))

Carrying(p) == phase[p] \in {"sealed", "write", "reset"}

OneBusy == \A p, q \in Procs : Busy(p) /\ Busy(q) => p = q

\* The backend holds what the client will hold.
Agrees == LastKey = skey /\ LastIv = siv

\* The buffer holds what has been appended since the last packet.
Fits ==
  /\ ~out.sealed /\ ~out.mangled
  /\ out.from = LastMsg + 1 /\ out.from <= out.to + 1 /\ out.to = appended

\* The key that RotateKeys holds waits in the buffer, or has been sent.
Current == Agrees /\ out.rekey = rotating
Rekeyed == rotating # 0 /\ LastKey = rotating /\ LastIv = rotating

\* Ciphertext c is the next packet and brings all there is.
NextPacket(c) ==
  /\ Follows(c, LastKey, LastIv, LastMsg)
  /\ c.to = appended /\ c.rekey = rotating /\ c.key = skey

Writing(p) == part[p] # "none"

\* Each message is written with nothing of others between, and not sent before its
\* end.
Undisturbed ==
  /\ ~torn
  /\ \A p \in Procs : Writing(p) =>
       /\ part[p] = "begun" /\ phase[p] = "appended" /\ (p = Handler => rotating = 0)
       /\ \A q \in Procs \ {p} : ~Writing(q) /\ ~Carrying(q)

\* What the buffer holds at each place of the goroutine that sends.
Buffer ==
  /\ (\A p \in Procs : ~Carrying(p)) => Fits /\ (Current \/ (out.rekey = 0 /\ Rekeyed))
  /\ \A p \in Procs :
       /\ phase[p] \in {"tested", "sealed"} => Fits /\ Current
       /\ phase[p] = "tested" => ~IsEmpty(out) \/ \E q \in Procs : Writing(q)
       /\ phase[p] = "sealed" => NextPacket(cipher[p]) /\ ~IsEmpty(out)
       /\ phase[p] = "write" => NextPacket(out) /\ out.next = siv
       /\ phase[p] = "reset" =>
            /\ out.sealed /\ LastMsg = appended
            /\ IF rotating = 0 THEN Agrees ELSE Rekeyed
  /\ phase[Handler] = "assign" =>
       rotating # 0 /\ out.rekey = 0 /\ \A p \in Procs : ~Busy(p)

InOrder == \A i \in 1..Len(got) : got[i] = i

Orderly ==
  /\ Chain /\ OneBusy /\ Undisturbed /\ Buffer /\ InOrder
  /\ broken = {} /\ Len(got) <= appended

ChannelInv == ~crossed => Orderly

\* As long as the wire and the client do not move, the chain stands, and what
\* the client will hold is what it was.
LEMMA ChainStands ==
  ASSUME TypeOK, Chain, UNCHANGED <<wire, taken, ckey, civ, got>>,
         appended' \in Nat, appended <= appended'
  PROVE  /\ Chain'
         /\ LastKey' = LastKey /\ LastIv' = LastIv /\ LastMsg' = LastMsg
<1>1. LastKey' = LastKey /\ LastIv' = LastIv /\ LastMsg' = LastMsg
  BY DEF LastKey, LastIv, LastMsg, KeyAfter, IvAfter
<1>2. ASSUME NEW i \in (taken + 1)..Len(wire)
      PROVE  Follows(wire[i], KeyBefore(i), IvBefore(i), MsgBefore(i))'
  <2>1. KeyBefore(i)' = KeyBefore(i) /\ IvBefore(i)' = IvBefore(i)
        /\ MsgBefore(i)' = MsgBefore(i)
    BY DEF KeyBefore, IvBefore, MsgBefore, KeyAfter, IvAfter
  <2>2. wire[i] \in Packet /\ appended \in Nat
    BY DEF TypeOK
  <2>3. Follows(wire[i], KeyBefore(i), IvBefore(i), MsgBefore(i))
    BY DEF Chain
  <2>4. wire[i].to \in Nat
    BY <2>2 DEF Packet
  <2> QED
    BY <2>1, <2>2, <2>3, <2>4 DEF Follows
<1> QED
  BY <1>1, <1>2 DEF Chain

\* A step by which the wire and the client do not move.
LEMMA OrderStands ==
  ASSUME TypeOK, TypeOK', Orderly, UNCHANGED <<wire, taken, ckey, civ, got, broken>>,
         appended <= appended', OneBusy', Undisturbed', Buffer'
  PROVE  Orderly'
<1>1. appended \in Nat /\ appended' \in Nat /\ Len(got) \in Nat
  BY BoundsAssumption DEF TypeOK
<1>2. Chain'
  BY <1>1, ChainStands DEF Orderly
<1> QED
  BY <1>1, <1>2 DEF Orderly, InOrder

\* Only the goroutine that moves becomes busy, or carries a ciphertext.
LEMMA BusyAfter ==
  ASSUME TypeOK, NEW p \in Procs, NEW ph, Goto(p, ph)
  PROVE  /\ \A q \in Procs \ {p} : /\ phase'[q] = phase[q]
                                   /\ Busy(q)' <=> Busy(q)
                                   /\ Carrying(q)' <=> Carrying(q)
         /\ phase'[p] = ph
         /\ Busy(p)' <=> ph \in {"tested", "sealed", "write", "reset"}
         /\ Carrying(p)' <=> ph \in {"sealed", "write", "reset"}
BY PhaseAfter DEF Busy, Carrying

\* A goroutine that is not in the midst of a message moves.
LEMMA UndisturbedStands ==
  ASSUME TypeOK, Undisturbed, NEW p \in Procs, NEW ph, Goto(p, ph), ~Writing(p),
         part' = part, torn' = torn, rotating' \in {rotating, 0},
         ph \in {"sealed", "write", "reset"} => \A q \in Procs : ~Writing(q)
  PROVE  Undisturbed'
<1>1. \A q \in Procs : Writing(q)' <=> Writing(q)
  BY DEF Writing
<1>2. \A q \in Procs \ {p} : phase'[q] = phase[q] /\ (Carrying(q)' <=> Carrying(q))
  BY BusyAfter
<1>3. Carrying(p)' <=> ph \in {"sealed", "write", "reset"}
  BY BusyAfter
<1> QED
  BY <1>1, <1>2, <1>3 DEF Undisturbed

\* Nothing is cut off when the buffer is replaced.
LEMMA NothingCutOff ==
  ASSUME TypeOK, Undisturbed, NEW p \in Procs, Carrying(p)
  PROVE  CutOff = part /\ \A q \in Procs : part[q] = "none"
<1>1. ASSUME NEW q \in Procs PROVE part[q] = "none"
  <2>1. Writing(q) => p = q
    BY DEF Undisturbed
  <2>2. ~Writing(p)
    BY DEF Undisturbed, Carrying
  <2> QED
    BY <2>1, <2>2 DEF Writing
<1>2. CutOff = [q \in Procs |-> part[q]]
  BY <1>1 DEF CutOff
<1> QED
  BY <1>1, <1>2 DEF TypeOK

\* One step of one goroutine.
LEMMA SenderOrder ==
  ASSUME TypeOK, TypeOK', Orderly, ~crossed', NEW p \in Procs,
         \/ Begin(p) \/ GoesOn(p) \/ End(p)
         \/ NothingToSend(p) \/ Tests(p) \/ Encrypt(p)
         \/ Store(p) \/ Reset(p)
  PROVE  Orderly'
<1> USE HandlerAssumption
<1>0. Chain /\ OneBusy /\ Undisturbed /\ Buffer
  BY DEF Orderly
<1>A. appended \in Nat /\ appended' \in Nat /\ out \in Packet /\ cipher[p] \in Packet
  BY Parts, BoundsAssumption DEF TypeOK
<1>S. /\ UNCHANGED <<wire, taken, ckey, civ, got, broken, skey, rotating>>
      /\ appended <= appended'
  <2>1. UNCHANGED <<wire, taken, ckey, civ, got, broken, skey, rotating>>
    BY DEF Begin, GoesOn, End, NothingToSend, Tests, Encrypt, Store, Reset, clientVars
  <2>2. appended' = appended \/ appended' = appended + 1
    BY DEF Begin, GoesOn, End, NothingToSend, Tests, Encrypt, Store, Reset
  <2> QED
    BY <1>A, <2>1, <2>2
<1>L. LastKey' = LastKey /\ LastIv' = LastIv /\ LastMsg' = LastMsg
  BY <1>0, <1>A, <1>S, ChainStands
<1>O. ASSUME OneBusy', Undisturbed', Buffer' PROVE Orderly'
  BY <1>S, <1>O, OrderStands
<1>1. CASE Begin(p)
  <2>1. /\ ~Busy(p) /\ Goto(p, "appended") /\ phase[p] \in {"idle", "appended"}
        /\ UNCHANGED <<appended, siv, cipher>> /\ part' = PartsAfter(p, "begun")
        /\ torn' = (torn \/ \E q \in Procs : part[q] = "begun")
        /\ part[p] = "none" /\ (p = Handler => rotating = 0)
        /\ \A q \in Procs : ~Carrying(q)
        /\ \A q \in Procs \ {p} : part[q] = "none"
    BY <1>1 DEF Begin, InSend, Amid, Busy, Carrying
  <2>2. /\ out'.sealed = out.sealed /\ out'.mangled = out.sealed
        /\ out'.rekey = out.rekey /\ out'.to = out.to /\ out'.from = out.from
    BY <1>1, <1>A DEF Begin, Packet
  <2>3. /\ \A q \in Procs \ {p} : phase'[q] = phase[q]
        /\ \A q \in Procs : ~Carrying(q)' /\ (Busy(q)' <=> Busy(q))
        /\ phase'[p] = "appended"
    BY <2>1, BusyAfter
  <2>4. Fits /\ (Current \/ (out.rekey = 0 /\ Rekeyed))
    BY <1>0, <2>1 DEF Buffer
  <2>5. Fits'
    BY <1>L, <2>1, <2>2, <2>4 DEF Fits
  <2>6. (Current => Current') /\ (Rekeyed => Rekeyed')
    BY <1>S, <1>L, <2>1, <2>2 DEF Current, Rekeyed, Agrees
  <2>7. OneBusy'
    BY <1>0, <2>3 DEF OneBusy
  <2>9. /\ part'[p] = "begun" /\ \A q \in Procs \ {p} : part'[q] = "none"
        /\ ~torn'
    BY <1>0, <2>1 DEF PartsAfter, Undisturbed
  <2>10. Undisturbed'
    BY <1>S, <2>1, <2>3, <2>9 DEF Undisturbed, Writing
  <2>8. Buffer'
    <3>1. ASSUME NEW q \in Procs, phase'[q] \in {"tested", "sealed", "write", "reset"}
          PROVE  phase'[q] = "tested" /\ Current'
      <4>1. q # p /\ phase[q] = phase'[q] /\ ~Carrying(q)
        BY <2>1, <2>3, <3>1
      <4> QED
        BY <1>0, <2>6, <3>1, <4>1 DEF Buffer, Carrying
    <3>2. phase'[Handler] = "assign" => phase[Handler] = "assign"
      BY <2>3, HandlerAssumption
    <3>3. \E q \in Procs : Writing(q)'
      BY <2>9 DEF Writing
    <3> QED
      BY <1>0, <1>S, <2>2, <2>3, <2>4, <2>5, <2>6, <3>1, <3>2, <3>3 DEF Buffer
  <2> QED
    BY <1>O, <2>7, <2>8, <2>10
<1>7. CASE GoesOn(p)
  BY <1>0, <1>7 DEF GoesOn, Undisturbed, Writing
<1>8. CASE End(p)
  <2>1. /\ phase[p] = "appended" /\ Writing(p)
        /\ appended' = appended + 1 /\ UNCHANGED <<siv, cipher, phase>>
        /\ part' = PartsAfter(p, "none") /\ torn' = (torn \/ part[p] = "torn")
    BY <1>8 DEF End, At, Writing
  <2>9. /\ part[p] = "begun" /\ ~torn
        /\ \A q \in Procs : ~Carrying(q)
        /\ \A q \in Procs \ {p} : part[q] = "none"
    BY <1>0, <2>1 DEF Undisturbed, Writing, Carrying
  <2>2. /\ out'.sealed = out.sealed /\ out'.mangled = out.sealed
        /\ out'.rekey = out.rekey /\ out'.to = appended + 1 /\ out'.from = out.from
    <3>1. out' = [out EXCEPT !.to = appended + 1, !.mangled = out.sealed]
      BY <1>8, <2>9 DEF End, Whole
    <3> QED
      BY <1>A, <3>1 DEF Packet
  <2>4. Fits /\ (Current \/ (out.rekey = 0 /\ Rekeyed))
    BY <1>0, <2>9 DEF Buffer
  <2>5. Fits' /\ ~IsEmpty(out)'
    BY <1>A, <1>L, <2>1, <2>2, <2>4, PacketParts DEF Fits, IsEmpty, HasMessages
  <2>6. (Current => Current') /\ (Rekeyed => Rekeyed')
    BY <1>S, <1>L, <2>1, <2>2 DEF Current, Rekeyed, Agrees
  <2>7. OneBusy'
    BY <1>0, <2>1 DEF OneBusy, Busy
  <2>10. Undisturbed'
    <3>1. ~torn' /\ \A q \in Procs : part'[q] = "none"
      BY <2>1, <2>9 DEF PartsAfter
    <3> QED
      BY <3>1 DEF Undisturbed, Writing
  <2>8. Buffer'
    <3>1. ASSUME NEW q \in Procs, phase'[q] \in {"tested", "sealed", "write", "reset"}
          PROVE  phase'[q] = "tested" /\ Current'
      BY <1>0, <2>1, <2>6, <2>9, <3>1 DEF Buffer, Carrying
    <3> QED
      BY <1>0, <1>S, <2>1, <2>2, <2>4, <2>5, <2>6, <3>1 DEF Buffer, Busy
  <2> QED
    BY <1>O, <2>7, <2>8, <2>10
<1>2. CASE NothingToSend(p)
  <2>1. /\ phase[p] = "appended" /\ IsEmpty(out) /\ Goto(p, AfterSend(p))
        /\ UNCHANGED <<siv, cipher, out, torn, part, appended>>
        /\ \A q \in Procs : part[q] # "begun"
    BY <1>2 DEF NothingToSend, HasBytes, At
  <2>9. \A q \in Procs : ~Writing(q)
    BY <1>0, <2>1 DEF Undisturbed
  <2>2. \A q \in Procs : ~Busy(q)
    <3> TAKE q \in Procs
    <3> SUFFICES ASSUME Busy(q) PROVE FALSE
      OBVIOUS
    <3>1. ~IsEmpty(out)
      BY <1>0, <2>9 DEF Buffer, Busy, NextPacket, Follows, IsEmpty
    <3> QED
      BY <2>1, <3>1
  <2>3. /\ AfterSend(p) \in {"idle", "assign"}
        /\ \A q \in Procs : ~Carrying(q)' /\ ~Busy(q)'
        /\ \A q \in Procs : phase'[q] \notin {"tested", "sealed", "write", "reset"}
        /\ phase'[p] = AfterSend(p) /\ \A q \in Procs \ {p} : phase'[q] = phase[q]
    <3>1. AfterSend(p) \in {"idle", "assign"}
      BY DEF AfterSend
    <3>2. \A q \in Procs : ~Carrying(q)' /\ ~Busy(q)'
      BY <2>1, <2>2, <3>1, BusyAfter DEF Busy, Carrying
    <3> QED
      BY <2>1, <3>1, <3>2, BusyAfter DEF Busy
  <2>4. Fits /\ (Current \/ (out.rekey = 0 /\ Rekeyed))
    BY <1>0, <2>2 DEF Buffer, Busy, Carrying
  <2>5. Fits' /\ (Current' \/ (out'.rekey = 0 /\ Rekeyed'))
    BY <1>S, <1>L, <2>1, <2>4 DEF Fits, Current, Rekeyed, Agrees
  <2>6. phase'[Handler] = "assign" => rotating # 0 /\ out.rekey = 0
    BY <1>0, <2>1, <2>3 DEF AfterSend, IsEmpty, Buffer
  <2>7. OneBusy'
    BY <2>3 DEF OneBusy
  <2>8. Buffer'
    BY <1>S, <2>1, <2>3, <2>5, <2>6 DEF Buffer
  <2>10. Undisturbed'
    <3>1. \A q \in Procs : ~Writing(q)'
      BY <2>1, <2>9 DEF Writing
    <3> QED
      BY <1>0, <2>1, <3>1 DEF Undisturbed
  <2> QED
    BY <1>O, <2>7, <2>8, <2>10
<1>3. CASE Tests(p)
  <2>1. /\ phase[p] = "appended" /\ HasBytes /\ Goto(p, "tested") /\ ~Crosses(p)
        /\ ~Writing(p) /\ UNCHANGED <<siv, cipher, out, torn, part, appended>>
    BY <1>3 DEF Tests, At, Writing
  <2>9. ~IsEmpty(out) \/ \E q \in Procs : Writing(q)
    BY <1>0, <2>1 DEF HasBytes, Undisturbed, Writing
  <2>10. Undisturbed'
    BY <1>0, <1>S, <2>1, UndisturbedStands
  <2>2. \A q \in Procs : ~Busy(q) /\ ~Carrying(q)
    BY <2>1 DEF Crosses, InSend, Busy, Carrying
  <2>3. /\ phase'[p] = "tested" /\ \A q \in Procs \ {p} : phase'[q] = phase[q]
        /\ \A q \in Procs \ {p} : ~Busy(q)'
        /\ \A q \in Procs : ~Carrying(q)'
    BY <2>1, <2>2, BusyAfter
  <2>4. Fits /\ Current
    BY <1>0, <2>1, <2>2 DEF Buffer, Crosses, Rekeyed, Current
  <2>5. Fits' /\ Current'
    BY <1>S, <1>L, <2>1, <2>4 DEF Fits, Current, Agrees
  <2>6. phase'[Handler] # "assign"
    BY <1>0, <2>1, <2>3 DEF Buffer, Crosses
  <2>7. OneBusy'
    BY <2>3 DEF OneBusy
  <2>8. Buffer'
    <3>1. ASSUME NEW q \in Procs PROVE phase'[q] \notin {"sealed", "write", "reset"}
      BY <2>3 DEF Carrying
    <3>2. (~IsEmpty(out) \/ \E q \in Procs : Writing(q))'
      BY <2>1, <2>9 DEF IsEmpty, HasMessages, Writing
    <3> QED
      BY <2>5, <2>6, <3>1, <3>2 DEF Buffer
  <2> QED
    BY <1>O, <2>7, <2>8, <2>10
<1>4. CASE Encrypt(p)
  <2>1. /\ phase[p] = "tested" /\ Goto(p, "sealed") /\ ~Amid(p)
        /\ UNCHANGED <<siv, out, torn, part, appended>>
    BY <1>4 DEF Encrypt, At
  <2>11. \A q \in Procs : ~Writing(q)
    BY <1>0, <2>1 DEF Undisturbed, Writing, Amid
  <2>12. Undisturbed'
    BY <1>0, <1>S, <2>1, <2>11, UndisturbedStands
  <2>2. PICK n \in NextIvs :
          cipher' = [cipher EXCEPT ![p] =
                      [out EXCEPT !.sealed = TRUE, !.mangled = out.sealed,
                                  !.key = skey, !.iv = siv, !.next = n]]
    BY <1>4 DEF Encrypt
  <2>3. /\ cipher'[p].sealed /\ cipher'[p].mangled = out.sealed
        /\ cipher'[p].key = skey /\ cipher'[p].iv = siv
        /\ cipher'[p].rekey = out.rekey /\ cipher'[p].from = out.from
        /\ cipher'[p].to = out.to
    <3>1. cipher'[p] = [out EXCEPT !.sealed = TRUE, !.mangled = out.sealed,
                                   !.key = skey, !.iv = siv, !.next = n]
      BY <2>2 DEF TypeOK
    <3> QED
      BY <1>A, <3>1 DEF Packet
  <2>4. Fits /\ Current /\ ~IsEmpty(out)
    BY <1>0, <2>1, <2>11 DEF Buffer
  <2>5. NextPacket(cipher[p])'
    BY <1>A, <1>S, <1>L, <2>1, <2>3, <2>4
    DEF NextPacket, Follows, Fits, Current, Agrees
  <2>6. /\ phase'[p] = "sealed" /\ \A q \in Procs \ {p} : phase'[q] = phase[q]
        /\ \A q \in Procs \ {p} : ~Busy(q) /\ ~Busy(q)'
        /\ Carrying(p)'
    BY <1>0, <2>1, BusyAfter DEF OneBusy, Busy
  <2>7. (Fits /\ Current /\ ~IsEmpty(out))'
    BY <1>S, <1>L, <2>1, <2>4 DEF Fits, Current, Agrees, IsEmpty, HasMessages
  <2>8. phase'[Handler] # "assign"
    BY <1>0, <2>1, <2>6 DEF Buffer, Busy
  <2>9. OneBusy'
    BY <2>6 DEF OneBusy
  <2>10. Buffer'
    <3>1. ASSUME NEW q \in Procs, q # p
          PROVE  phase'[q] \notin {"tested", "sealed", "write", "reset"}
      BY <2>6, <3>1 DEF Busy
    <3> QED
      BY <2>5, <2>6, <2>7, <2>8, <3>1 DEF Buffer
  <2> QED
    BY <1>O, <2>9, <2>10, <2>12
<1>5. CASE Store(p)
  <2>1. /\ phase[p] = "sealed" /\ Goto(p, "write") /\ appended' = appended
        /\ out' = cipher[p] /\ siv' = cipher[p].next
        /\ part' = CutOff /\ torn' = torn
    BY <1>5 DEF Store, At, IvAfterSend
  <2>8. part' = part /\ \A q \in Procs : ~Writing(q)
    BY <1>0, <2>1, NothingCutOff DEF Carrying, Writing
  <2>9. Undisturbed'
    BY <1>0, <1>S, <2>1, <2>8, UndisturbedStands
  <2>2. NextPacket(cipher[p])
    BY <1>0, <2>1 DEF Buffer
  <2>3. NextPacket(out)' /\ out'.next = siv'
    BY <1>A, <1>S, <1>L, <2>1, <2>2 DEF NextPacket, Follows
  <2>4. /\ phase'[p] = "write" /\ \A q \in Procs \ {p} : phase'[q] = phase[q]
        /\ \A q \in Procs \ {p} : ~Busy(q) /\ ~Busy(q)'
        /\ Carrying(p)'
    BY <1>0, <2>1, BusyAfter DEF OneBusy, Busy
  <2>5. phase'[Handler] # "assign"
    BY <1>0, <2>1, <2>4 DEF Buffer, Busy
  <2>6. OneBusy'
    BY <2>4 DEF OneBusy
  <2>7. Buffer'
    <3>1. ASSUME NEW q \in Procs, q # p
          PROVE  phase'[q] \notin {"tested", "sealed", "write", "reset"}
      BY <2>4, <3>1 DEF Busy
    <3> QED
      BY <2>3, <2>4, <2>5, <3>1 DEF Buffer
  <2> QED
    BY <1>O, <2>6, <2>7, <2>9
<1>6. CASE Reset(p)
  <2>1. /\ phase[p] = "reset" /\ Goto(p, AfterSend(p)) /\ appended' = appended
        /\ out' = Emptied(appended) /\ siv' = siv /\ part' = CutOff /\ ~torn'
    BY <1>6 DEF Reset, At
  <2>9. part' = part /\ \A q \in Procs : ~Writing(q)
    BY <1>0, <2>1, NothingCutOff DEF Carrying, Writing
  <2>10. Undisturbed'
    BY <2>1, <2>9 DEF Undisturbed, Writing
  <2>2. LastMsg = appended /\ IF rotating = 0 THEN Agrees ELSE Rekeyed
    BY <1>0, <2>1 DEF Buffer
  <2>3. /\ ~out'.sealed /\ ~out'.mangled /\ out'.from = appended + 1
        /\ out'.to = appended /\ out'.rekey = 0
    BY <2>1 DEF Emptied
  <2>4. Fits' /\ (Current' \/ (out'.rekey = 0 /\ Rekeyed'))
    <3>1. Fits'
      BY <1>A, <1>L, <2>1, <2>2, <2>3 DEF Fits
    <3>2. rotating = 0 => Current'
      BY <1>S, <1>L, <2>1, <2>2, <2>3 DEF Current, Agrees
    <3>3. rotating # 0 => Rekeyed'
      BY <1>S, <1>L, <2>2 DEF Rekeyed
    <3> QED
      BY <2>3, <3>1, <3>2, <3>3
  <2>5. /\ AfterSend(p) \in {"idle", "assign"} /\ phase'[p] = AfterSend(p)
        /\ \A q \in Procs \ {p} : phase'[q] = phase[q]
        /\ \A q \in Procs : ~Busy(q)'
    <3>1. AfterSend(p) \in {"idle", "assign"}
      BY DEF AfterSend
    <3>2. \A q \in Procs \ {p} : ~Busy(q)
      BY <1>0, <2>1 DEF OneBusy, Busy
    <3> QED
      BY <2>1, <3>1, <3>2, BusyAfter
  <2>6. phase'[Handler] = "assign" => rotating # 0
    BY <1>0, <2>1, <2>5 DEF Buffer, AfterSend
  <2>7. OneBusy'
    BY <2>5 DEF OneBusy
  <2>8. Buffer'
    <3>1. \A q \in Procs : phase'[q] \notin {"tested", "sealed", "write", "reset"}
      BY <2>5 DEF Busy
    <3> QED
      BY <1>S, <2>3, <2>4, <2>5, <2>6, <3>1 DEF Buffer
  <2> QED
    BY <1>O, <2>7, <2>8, <2>10
<1> QED
  BY <1>1, <1>2, <1>3, <1>4, <1>5, <1>6, <1>7, <1>8

LEMMA OrderStep ==
  ASSUME TypeOK, TypeOK', ChannelInv, [Next]_vars
  PROVE  ChannelInv'
<1> SUFFICES ASSUME ~crossed' PROVE Orderly'
  BY DEF ChannelInv
<1> USE HandlerAssumption
<1>0. /\ Orderly /\ Chain /\ OneBusy /\ Undisturbed /\ Buffer
      /\ broken = {} /\ Len(got) <= appended
  <2>1. ~crossed
    BY NextIsStepCases DEF StepCases, Begin, GoesOn, End, Leaves, NothingToSend, Tests, Encrypt, Store, Write,
       Reset, RotateKeys, AssignKeys, ServerReads, ServerReadsPart, ClientReceives,
       ClientSends, vars
  <2> QED
    BY <2>1 DEF ChannelInv, Orderly
<1>A. appended \in Nat /\ appended' \in Nat /\ Len(got) \in Nat
  BY BoundsAssumption DEF TypeOK
<1>1. ASSUME NEW p \in Procs,
             \/ Begin(p) \/ GoesOn(p) \/ End(p)
             \/ NothingToSend(p) \/ Tests(p) \/ Encrypt(p)
             \/ Store(p) \/ Reset(p)
      PROVE  Orderly'
  BY <1>0, <1>1, SenderOrder
<1>2. ASSUME NEW p \in Procs, Write(p) PROVE Orderly'
  <2>1. /\ phase[p] = "write" /\ Goto(p, "reset")
        /\ UNCHANGED <<taken, ckey, civ, got, broken, out, torn, part, rotating, skey, siv,
                       appended>>
    BY <1>2 DEF Write, At, clientVars
  <2>11. Undisturbed'
    <3>1. \A q \in Procs : ~Writing(q)
      BY <1>0, <2>1, NothingCutOff DEF Carrying, Writing
    <3> QED
      BY <1>0, <2>1, <3>1, UndisturbedStands
  <2>2. NextPacket(out) /\ out.next = siv
    BY <1>0, <2>1 DEF Buffer
  <2>3. wire' = Append(wire, out)
    BY <1>2, <2>2 DEF Write, HasBytes, NextPacket, Follows, IsEmpty
  <2>4. wire \in Seq(Packet) /\ taken \in 0..Len(wire) /\ out \in Packet
    BY Parts
  <2>5. /\ Len(wire') = Len(wire) + 1 /\ wire'[Len(wire) + 1] = out
        /\ \A i \in 1..Len(wire) : wire'[i] = wire[i]
    BY <2>3, <2>4
  <2>6. Chain'
    <3> SUFFICES ASSUME NEW i \in (taken + 1)..(Len(wire) + 1)
                 PROVE  Follows(wire[i], KeyBefore(i), IvBefore(i), MsgBefore(i))'
      BY <2>1, <2>5 DEF Chain
    <3>1. CASE i = Len(wire) + 1
      <4>1. KeyBefore(i)' = LastKey /\ IvBefore(i)' = LastIv /\ MsgBefore(i)' = LastMsg
        BY <2>1, <2>4, <2>5, <3>1
        DEF KeyBefore, IvBefore, MsgBefore, LastKey, LastIv, LastMsg, KeyAfter, IvAfter
      <4> QED
        BY <2>1, <2>2, <2>5, <3>1, <4>1 DEF NextPacket, Follows
    <3>2. CASE i # Len(wire) + 1
      <4>1. i \in (taken + 1)..Len(wire)
        BY <2>4, <3>2
      <4>2. KeyBefore(i)' = KeyBefore(i) /\ IvBefore(i)' = IvBefore(i)
            /\ MsgBefore(i)' = MsgBefore(i)
        <5>1. i # taken + 1 => i - 1 \in 1..Len(wire)
          BY <2>4, <4>1
        <5>2. i # taken + 1 => wire'[i - 1] = wire[i - 1]
          BY <2>5, <5>1
        <5> QED
          BY <2>1, <5>2 DEF KeyBefore, IvBefore, MsgBefore, KeyAfter, IvAfter
      <4>3. wire'[i] = wire[i]
        BY <2>4, <2>5, <4>1
      <4> QED
        BY <1>0, <2>1, <4>1, <4>2, <4>3 DEF Chain, Follows
    <3> QED
      BY <3>1, <3>2
  <2>7. LastKey' = KeyAfter(out) /\ LastIv' = IvAfter(out) /\ LastMsg' = out.to
    BY <2>1, <2>4, <2>5 DEF LastKey, LastIv, LastMsg, KeyAfter, IvAfter
  <2>8. /\ phase'[p] = "reset" /\ \A q \in Procs \ {p} : phase'[q] = phase[q]
        /\ \A q \in Procs \ {p} : ~Busy(q) /\ ~Busy(q)'
        /\ Carrying(p)'
    BY <1>0, <2>1, BusyAfter DEF OneBusy, Busy
  <2>9. OneBusy'
    BY <2>8 DEF OneBusy
  <2>10. Buffer'
    <3>1. ASSUME NEW q \in Procs, q # p
          PROVE  phase'[q] \notin {"tested", "sealed", "write", "reset"}
      BY <2>8, <3>1 DEF Busy
    <3>2. out'.sealed /\ LastMsg' = appended'
      BY <2>1, <2>2, <2>7 DEF NextPacket, Follows
    <3>3. IF rotating = 0 THEN Agrees' ELSE Rekeyed'
      BY <2>1, <2>2, <2>7 DEF NextPacket, Agrees, Rekeyed, KeyAfter, IvAfter
    <3>4. phase'[Handler] # "assign"
      BY <1>0, <2>1, <2>8 DEF Buffer, Busy
    <3> QED
      BY <2>1, <2>8, <3>1, <3>2, <3>3, <3>4 DEF Buffer
  <2> QED
    BY <1>0, <2>1, <2>6, <2>9, <2>10, <2>11 DEF Orderly, InOrder
<1>3. CASE RotateKeys
  <2>1. /\ UNCHANGED <<wire, taken, ckey, civ, got, broken, skey, siv, phase, appended, cipher>>
        /\ phase[Handler] = "appended" /\ Writing(Handler) /\ rotating' = drawn + 1
        /\ part' = PartsAfter(Handler, "none") /\ torn' = (torn \/ part[Handler] = "torn")
    BY <1>3 DEF RotateKeys, At, Writing, clientVars
  <2>8. /\ part[Handler] = "begun" /\ ~torn /\ rotating = 0
        /\ \A q \in Procs \ {Handler} : part[q] = "none" /\ ~Carrying(q)
    BY <1>0, <2>1 DEF Undisturbed, Writing
  <2>2. LastKey' = LastKey /\ LastIv' = LastIv /\ LastMsg' = LastMsg
    BY <1>0, <1>A, <2>1, ChainStands
  <2>3. /\ out'.rekey = drawn + 1 /\ out'.mangled = out.sealed
        /\ out'.sealed = out.sealed /\ out'.from = out.from /\ out'.to = out.to
    BY <1>3, <2>8, Parts DEF RotateKeys, WithKey, Whole, Packet
  <2>4. \A q \in Procs : phase[q] \notin {"sealed", "write", "reset"}
    BY <2>1, <2>8 DEF Carrying
  <2>5. Fits /\ Current
    BY <1>0, <2>4, <2>8 DEF Buffer, Rekeyed, Carrying
  <2>9. Undisturbed'
    <3>1. ~torn' /\ \A q \in Procs : part'[q] = "none"
      BY <2>1, <2>8 DEF PartsAfter
    <3> QED
      BY <3>1 DEF Undisturbed, Writing
  <2>6. Fits' /\ Current' /\ ~IsEmpty(out)'
    <3>1. drawn + 1 # 0
      BY Parts
    <3> QED
      BY <2>1, <2>2, <2>3, <2>5, <3>1 DEF Fits, Current, Agrees, IsEmpty
  <2>7. OneBusy' /\ Buffer'
    BY <1>0, <2>1, <2>4, <2>6 DEF OneBusy, Buffer, Busy, Carrying
  <2> QED
    BY <1>0, <1>A, <2>1, <2>7, <2>9, OrderStands
<1>4. CASE AssignKeys
  <2>1. /\ UNCHANGED <<wire, taken, ckey, civ, got, broken, appended, out, torn, part>>
        /\ phase[Handler] = "assign" /\ Goto(Handler, "idle")
        /\ skey' = rotating /\ siv' = rotating /\ rotating' = 0
    BY <1>4 DEF AssignKeys, At, clientVars
  <2>2. LastKey' = LastKey /\ LastIv' = LastIv /\ LastMsg' = LastMsg
    BY <1>0, <1>A, <2>1, ChainStands
  <2>3. rotating # 0 /\ out.rekey = 0 /\ \A q \in Procs : ~Busy(q)
    BY <1>0, <2>1 DEF Buffer
  <2>4. Fits /\ Rekeyed
    BY <1>0, <2>3 DEF Buffer, Current, Busy, Carrying
  <2>5. Fits' /\ Current'
    BY <2>1, <2>2, <2>3, <2>4 DEF Fits, Current, Agrees, Rekeyed
  <2>6. phase'[Handler] = "idle" /\ \A q \in Procs : ~Busy(q)'
    BY <2>1, <2>3, BusyAfter
  <2>7. OneBusy' /\ Buffer'
    BY <2>5, <2>6 DEF OneBusy, Buffer, Busy
  <2>8. Undisturbed'
    <3>1. ~Writing(Handler)
      BY <1>0, <2>1 DEF Undisturbed
    <3> QED
      BY <1>0, <2>1, <3>1, UndisturbedStands
  <2> QED
    BY <1>0, <1>A, <2>1, <2>7, <2>8, OrderStands
<1>5. ASSUME \/ \E p \in Procs : Leaves(p)
             \/ \E n \in 1..2 : ServerReads(n)
             \/ ServerReadsPart \/ ClientSends \/ UNCHANGED vars
      PROVE  Orderly'
  <2>1. UNCHANGED <<wire, taken, ckey, civ, got, broken, skey, siv, out, torn, part, cipher,
                    rotating, appended>>
    BY <1>5 DEF Leaves, ServerReads, ServerReadsPart, ClientSends, vars, serverVars, clientVars
  <2>2. LastKey' = LastKey /\ LastIv' = LastIv /\ LastMsg' = LastMsg
    BY <1>0, <1>A, <2>1, ChainStands
  <2>p. \/ phase' = phase
        \/ \E p \in Procs, ph \in {"idle", "appended"} :
             Goto(p, ph) /\ part[p] = "none" /\ phase[p] \in {"idle", "appended"}
    <3>1. ASSUME NEW p \in Procs, Leaves(p)
          PROVE  Goto(p, "idle") /\ part[p] = "none" /\ phase[p] \in {"idle", "appended"}
      BY <3>1 DEF Leaves, At
    <3>2. ASSUME NEW n \in 1..2, ServerReads(n)
          PROVE  Goto(Handler, "appended") /\ part[Handler] = "none" /\ phase[Handler] = "idle"
      BY <1>0, <3>2 DEF ServerReads, AfterParsing, At, Undisturbed, Writing
    <3>3. ASSUME ServerReadsPart \/ ClientSends \/ UNCHANGED vars PROVE phase' = phase
      BY <3>3 DEF ServerReadsPart, ClientSends, vars, serverVars
    <3> QED
      BY <1>5, <3>1, <3>2, <3>3
  <2>q. /\ \A q \in Procs : (Busy(q)' <=> Busy(q)) /\ (Carrying(q)' <=> Carrying(q))
        /\ \A q \in Procs : phase'[q] \in {"tested", "sealed", "write", "reset", "assign"}
                              => phase'[q] = phase[q]
        /\ Undisturbed'
    <3> DEFINE Same ==
          /\ \A q \in Procs : (Busy(q)' <=> Busy(q)) /\ (Carrying(q)' <=> Carrying(q))
          /\ \A q \in Procs : phase'[q] \in {"tested", "sealed", "write", "reset", "assign"}
                                => phase'[q] = phase[q]
          /\ Undisturbed'
    <3>1. ASSUME phase' = phase PROVE Same
      BY <1>0, <2>1, <3>1 DEF Busy, Carrying, Undisturbed, Writing
    <3>2. ASSUME NEW p \in Procs, NEW ph \in {"idle", "appended"}, Goto(p, ph),
                 part[p] = "none", phase[p] \in {"idle", "appended"}
          PROVE  Same
      <4>1. ~Busy(p) /\ ~Carrying(p) /\ ~Writing(p)
        BY <3>2 DEF Busy, Carrying, Writing
      <4>2. Undisturbed'
        BY <1>0, <2>1, <3>2, <4>1, UndisturbedStands
      <4> QED
        BY <3>2, <4>1, <4>2, BusyAfter
    <3>3. Same
      <4> HIDE DEF Same
      <4> QED
        BY <2>p, <3>1, <3>2
    <3> QED
      BY <3>3
  <2>3. OneBusy'
    BY <1>0, <2>q DEF OneBusy
  <2>4. (Fits' <=> Fits) /\ (Current' <=> Current) /\ (Rekeyed' <=> Rekeyed) /\ (Agrees' <=> Agrees)
    BY <2>1, <2>2 DEF Fits, Current, Rekeyed, Agrees
  <2>5. Buffer'
    BY <1>0, <2>1, <2>2, <2>4, <2>q
    DEF Buffer, NextPacket, Follows, IsEmpty, HasMessages, Writing
  <2> QED
    BY <1>0, <1>A, <2>1, <2>3, <2>5, <2>q, OrderStands
<1>6. CASE ClientReceives
  <2> DEFINE pk == wire[taken + 1]
  <2>0. wire \in Seq(Packet) /\ taken \in 0..Len(wire) /\ got \in Seq(Nat)
    BY Parts
  <2>1. /\ taken < Len(wire) /\ taken' = taken + 1
        /\ UNCHANGED <<skey, siv, out, torn, part, cipher, phase, rotating, appended, wire>>
    BY <1>6 DEF ClientReceives, serverVars
  <2>2. pk \in Packet /\ Follows(pk, ckey, civ, Len(got))
    BY <1>0, <2>0, <2>1 DEF Chain, KeyBefore, IvBefore, MsgBefore
  <2>3. /\ ckey' = KeyAfter(pk) /\ civ' = IvAfter(pk)
        /\ got' = got \o Messages(pk) /\ broken' = broken
    BY <1>6, <2>2 DEF ClientReceives, Readable, Follows
  <2>4. /\ pk.from \in Nat /\ pk.to \in Nat
        /\ pk.from = Len(got) + 1 /\ pk.from <= pk.to + 1 /\ pk.to <= appended
    BY <2>2, PacketParts DEF Follows
  <2>5. Messages(pk) \in Seq(Nat)
    BY <2>2, MessagesType
  <2>6. Len(Messages(pk)) = pk.to - pk.from + 1
    <3>1. CASE HasMessages(pk)
      BY <2>2, <3>1, MessagesParts
    <3>2. CASE ~HasMessages(pk)
      <4>1. pk.from = pk.to + 1
        BY <2>4, <3>2 DEF HasMessages
      <4>2. Len(Messages(pk)) = 0
        BY <2>2, <3>2, MessagesParts
      <4> QED
        BY <2>4, <4>1, <4>2
    <3> QED
      BY <3>1, <3>2
  <2>7. Len(got') = pk.to
    <3>1. Len(got') = Len(got) + Len(Messages(pk))
      BY <2>0, <2>3, <2>5, ConcatProperties
    <3> QED
      BY <1>A, <2>4, <2>6, <3>1
  <2>8. InOrder'
    <3> SUFFICES ASSUME NEW i \in 1..Len(got') PROVE got'[i] = i
      BY DEF InOrder
    <3>1. CASE i <= Len(got)
      <4>1. got'[i] = got[i] /\ i \in 1..Len(got)
        BY <2>0, <2>3, <2>5, <3>1, ConcatProperties
      <4> QED
        BY <1>0, <4>1 DEF Orderly, InOrder
    <3>2. CASE i > Len(got)
      <4>1. i - Len(got) \in 1..Len(Messages(pk)) /\ got'[i] = Messages(pk)[i - Len(got)]
        BY <2>0, <2>3, <2>5, <3>2, ConcatProperties
      <4>2. got'[i] = pk.from + (i - Len(got)) - 1
        BY <2>2, <4>1, MessagesParts
      <4> QED
        BY <1>A, <2>4, <4>2
    <3> QED
      BY <1>A, <3>1, <3>2
  <2>9. LastKey' = LastKey /\ LastIv' = LastIv /\ LastMsg' = LastMsg
    BY <2>0, <2>1, <2>3, <2>7 DEF LastKey, LastIv, LastMsg, KeyAfter, IvAfter
  <2>10. Chain'
    <3> SUFFICES ASSUME NEW i \in (taken + 2)..Len(wire)
                 PROVE  Follows(wire[i], KeyBefore(i), IvBefore(i), MsgBefore(i))'
      BY <2>0, <2>1 DEF Chain
    <3>1. KeyBefore(i)' = KeyBefore(i) /\ IvBefore(i)' = IvBefore(i)
          /\ MsgBefore(i)' = MsgBefore(i)
      BY <2>0, <2>1, <2>3, <2>7
      DEF KeyBefore, IvBefore, MsgBefore, KeyAfter, IvAfter
    <3>2. i \in (taken + 1)..Len(wire)
      BY <2>0
    <3> QED
      BY <1>0, <2>1, <3>1, <3>2 DEF Chain, Follows
  <2>11. OneBusy'
    BY <1>0, <2>1 DEF OneBusy, Busy
  <2>12. (Fits' <=> Fits) /\ (Current' <=> Current) /\ (Rekeyed' <=> Rekeyed) /\ (Agrees' <=> Agrees)
    BY <2>1, <2>9 DEF Fits, Current, Rekeyed, Agrees
  <2>13. Buffer'
    BY <1>0, <2>1, <2>9, <2>12
    DEF Buffer, NextPacket, Follows, IsEmpty, HasMessages, Busy, Carrying, Writing
  <2>14. Undisturbed'
    BY <1>0, <2>1 DEF Undisturbed, Writing, Carrying
  <2> QED
    BY <1>0, <2>1, <2>3, <2>4, <2>7, <2>8, <2>10, <2>11, <2>13, <2>14 DEF Orderly
<1> QED
  BY <1>1, <1>2, <1>3, <1>4, <1>5, <1>6, NextIsStepCases DEF StepCases

LEMMA OrderInit == Init => ChannelInv
<1> SUFFICES ASSUME Init PROVE Orderly
  BY DEF ChannelInv
<1>1. /\ ~out.sealed /\ ~out.mangled /\ out.rekey = 0 /\ out.from = 1 /\ out.to = 0
  BY DEF Init, Emptied
<1>2. \A p \in Procs : phase[p] = "idle"
  BY DEF Init
<1>3. Len(wire) = 0 /\ taken = 0 /\ Len(got) = 0
  BY DEF Init
<1>4. Fits /\ Current
  BY <1>1, <1>3 DEF Init, Fits, Current, Agrees, LastKey, LastIv, LastMsg
<1>5. Chain /\ InOrder
  BY <1>3 DEF Chain, InOrder
<1>6. OneBusy /\ Buffer
  BY <1>2, <1>4, HandlerAssumption DEF OneBusy, Buffer, Busy
<1>7. Undisturbed
  BY DEF Init, Undisturbed, Writing
<1> QED
  BY <1>3, <1>5, <1>6, <1>7 DEF Init, Orderly

LEMMA InvariantsHold == Spec => [](TypeOK /\ FreshInv /\ ChannelInv)
<1>1. TypeOK /\ TypeOK' /\ FreshInv /\ ChannelInv /\ [Next]_vars
        => FreshInv' /\ ChannelInv'
  BY FreshStep, OrderStep
<1> QED
  BY <1>1, FreshInit, OrderInit, TypeCorrect, PTL DEF Spec

\* Unless goroutines meet in SendMessages or in a message, the client can read every packet
\* (SecureChannelProps!ClientFollows; backend.go:252-269, 627-640).
THEOREM ClientFollowsCorrect == Spec => []ClientFollows
<1>1. ChannelInv => ClientFollows
  BY DEF ChannelInv, Orderly, ClientFollows
<1> QED
  BY <1>1, InvariantsHold, PTL

\* Unless goroutines have met, both ends hold the same key and IV when nothing
\* is under way (SecureChannelProps!QuietMeansSynchronised; backend.go:594-596).
THEOREM QuietMeansSynchronisedCorrect == Spec => []QuietMeansSynchronised
<1>1. ChannelInv => QuietMeansSynchronised
  <2> SUFFICES ASSUME Orderly, taken = Len(wire), rotating = 0, \A p \in Procs : ~Busy(p)
               PROVE  ckey = skey /\ civ = siv
    BY DEF ChannelInv, QuietMeansSynchronised
  <2>1. Agrees
    BY DEF Orderly, Buffer, Busy, Carrying, Current, Rekeyed
  <2> QED
    BY <2>1 DEF Agrees, LastKey, LastIv
<1> QED
  BY <1>1, InvariantsHold, PTL

-----------------------------------------------------------------------------
(* The link implements OrderedDelivery.                                    *)

LEMMA DeliveryStep ==
  ASSUME TypeOK, FreshInv, ChannelInv, [Next]_vars
  PROVE  [Delivery!Next]_<<appended, got, crossed>>
<1>0. crossed \in BOOLEAN
  BY DEF TypeOK
<1>1. ASSUME NEW p \in Procs, End(p) PROVE Delivery!Submit
  BY <1>0, <1>1 DEF End, clientVars, Delivery!Submit
<1>2. ASSUME NEW p \in Procs, Begin(p) \/ Tests(p) \/ Encrypt(p)
      PROVE  Delivery!Fault \/ UNCHANGED <<appended, got, crossed>>
  <2>1. UNCHANGED <<appended, got>>
    BY <1>2 DEF Begin, Tests, Encrypt, clientVars
  <2>2. crossed' = TRUE \/ crossed' = crossed
    BY <1>0, <1>2 DEF Begin, Tests, Encrypt
  <2> QED
    BY <2>1, <2>2 DEF Delivery!Fault
<1>4. CASE ClientReceives
  <2> DEFINE pk == wire[taken + 1]
             m == pk.from - 1
             n == pk.to - pk.from + 1
  <2>1. taken < Len(wire) /\ UNCHANGED <<appended, crossed>>
    BY <1>4 DEF ClientReceives, serverVars
  <2>2. CASE ~Readable(pk)
    BY <1>4, <2>1, <2>2 DEF ClientReceives
  <2>3. CASE Readable(pk) /\ ~HasMessages(pk)
    <3>1. pk \in Packet /\ got \in Seq(Nat)
      BY <2>1, Parts
    <3>2. Messages(pk) = <<>>
      BY <2>3, <3>1, MessagesParts
    <3>3. got' = got \o <<>>
      BY <1>4, <2>3, <3>2 DEF ClientReceives
    <3>4. got' = got
      BY <3>1, <3>3
    <3> QED
      BY <2>1, <3>4
  <2>4. CASE Readable(pk) /\ HasMessages(pk)
    <3>1. pk \in Packet /\ taken + 1 \in (taken + 1)..Len(wire)
      BY <2>1, Parts
    <3>2. pk \in Flying
      BY <2>4, <3>1 DEF Flying, Good, Readable
    <3>3. pk.from \in Nat \ {0} /\ pk.to \in Nat /\ appended \in Nat /\ civ \in Nat
      BY <3>1, Parts DEF Packet
    <3>4. pk.to <= appended /\ pk.iv = civ /\ Above(pk.iv, pk.from)
      BY <2>4, <3>2 DEF FreshInv, Past, Readable
    <3>5. m \in 0..appended /\ n \in 1..appended /\ m + n <= appended
      BY <2>4, <3>3, <3>4 DEF HasMessages
    <3>6. \A i \in 1..Len(got) : got[i] <= m
      <4> TAKE i \in 1..Len(got)
      <4>1. got[i] < pk.from /\ got[i] \in Nat
        BY <3>3, <3>4, Parts DEF Above
      <4> QED
        BY <3>3, <4>1
    <3>7. crossed \/ m = Len(got)
      <4>1. ~crossed => Follows(pk, ckey, civ, Len(got))
        BY <3>1 DEF ChannelInv, Orderly, Chain, KeyBefore, IvBefore, MsgBefore
      <4>2. Len(got) \in Nat
        BY Parts
      <4> QED
        BY <3>3, <4>1, <4>2 DEF Follows
    <3>8. got' = got \o [i \in 1..n |-> m + i]
      <4>1. \A i \in 1..n : pk.from + i - 1 = m + i
        BY <3>3
      <4>2. Messages(pk) = [i \in 1..n |-> m + i]
        BY <4>1 DEF Messages
      <4> QED
        BY <1>4, <2>4, <4>2 DEF ClientReceives
    <3>9. Delivery!Deliver(m, n)
      BY <2>1, <3>5, <3>6, <3>7, <3>8 DEF Delivery!Deliver
    <3> QED
      BY <3>5, <3>9 DEF Delivery!Next
  <2> QED
    BY <2>2, <2>3, <2>4
<1>5. ASSUME \/ \E p \in Procs : \/ GoesOn(p) \/ Leaves(p) \/ NothingToSend(p)
                                 \/ Store(p) \/ Write(p) \/ Reset(p)
             \/ RotateKeys \/ AssignKeys
             \/ \E n \in 1..2 : ServerReads(n)
             \/ ServerReadsPart \/ ClientSends \/ UNCHANGED vars
      PROVE  UNCHANGED <<appended, got, crossed>>
  BY <1>5 DEF GoesOn, Leaves, NothingToSend, Store, Write, Reset, RotateKeys, AssignKeys,
              ServerReads, ServerReadsPart, ClientSends, vars, serverVars, clientVars
<1> QED
  BY <1>1, <1>2, <1>4, <1>5, NextIsStepCases DEF StepCases, Delivery!Next

\* For any number of goroutines, with no lock between them: messages arrive in
\* order, none twice and, unless goroutines meet, none lost
\* (SecureChannelProps!InOrderDelivery; backend.go:627-640).
THEOREM InOrderDeliveryCorrect == Spec => InOrderDelivery
<1>1. Init => Delivery!Init
  BY DEF Init, Delivery!Init
<1>2. TypeOK /\ FreshInv /\ ChannelInv /\ [Next]_vars
        => [Delivery!Next]_<<appended, got, crossed>>
  BY DeliveryStep
<1> QED
  BY <1>1, <1>2, InvariantsHold, PTL DEF Spec, InOrderDelivery, Delivery!Spec

=============================================================================
