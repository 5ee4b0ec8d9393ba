--------------------------- MODULE SecureChannel ---------------------------
(***************************************************************************)
(* The encrypted link between the backend and one game server: the shared  *)
(* outgoing buffer fe.MessageOut, SendMessages, RotateKeys, and the chain  *)
(* of initialisation vectors both ends advance.  Every packet is encrypted *)
(* under the last key and the IV the packet before it produced; the client *)
(* (external) follows the chain and encrypts what it sends under the last  *)
(* IV it learnt.                                                           *)
(*                                                                         *)
(* A message goes into the buffer by several writes.  Messages are         *)
(* numbered in the order of their last writes, and no two begin alike; a   *)
(* packet carries, whole, the messages from `from' to `to'.  Bytes behind  *)
(* a cut message, or where several are mixed, carry none: what the client  *)
(* makes of them is not modelled, unless they are a key.                   *)
(* Keys and IVs are numbers drawn from one counter: two draws never agree, *)
(* as with random bytes.  Procs are the goroutines that call SendMessages  *)
(* for this frontend, with no lock; only Handler, the one that reads its   *)
(* socket, rotates keys.                                                   *)
(***************************************************************************)
EXTENDS Integers, Sequences

CONSTANTS Procs, Handler,
          MaxMessages,  \* bound: no message begins when so many are appended
          MaxDraws,     \* bound: keys and IVs drawn
          MaxUp         \* bound: packets of the client in flight

ASSUME HandlerAssumption == Handler \in Procs
ASSUME BoundsAssumption == MaxMessages \in Nat /\ MaxDraws \in Nat /\ MaxUp \in Nat

VARIABLES
  skey, siv, previv,  \* fe.SymmetricKey, fe.InitVector, fe.PreviousIV
  out,                \* fe.MessageOut
  torn,               \* out holds bytes of cut or mixed messages
  part,               \* what each goroutine has written of a message: "none", "begun",
                      \* or "torn" when those bytes are cut off from the rest
  cipher,             \* the ciphertext each goroutine holds before it is in out
  phase,              \* where each goroutine is between append and Reset
  rotating,           \* the new key RotateKeys holds, 0 outside it
  status,             \* the serving loop: "serving", "abandoned", "panicked"
  appended, drawn,    \* messages appended, keys and IVs drawn
  wire, taken,        \* packets written, and how many the client has read
  ckey, civ, got,     \* client: key, IV, the messages it got
  broken,             \* history: what has gone wrong at the client
  crossed,            \* history: two goroutines met in SendMessages or in a message
  up                  \* packets of the client in flight

serverVars == <<skey, siv, previv, out, torn, part, cipher, phase, rotating, appended, drawn>>
clientVars == <<taken, ckey, civ, got, broken>>
vars == <<serverVars, crossed, status, wire, clientVars, up>>

Packet == [sealed : BOOLEAN, mangled : BOOLEAN, key : Nat, iv : Nat,
           next : Nat, rekey : Nat, from : Nat \ {0}, to : Nat]

\* MessageOut after Reset, when n messages have been appended.
Emptied(n) == [sealed |-> FALSE, mangled |-> FALSE, key |-> 0, iv |-> 0,
               next |-> 0, rekey |-> 0, from |-> n + 1, to |-> n]

HasMessages(p) == p.from <= p.to
Messages(p) == [i \in 1..(p.to - p.from + 1) |-> p.from + i - 1]

\* Mutant of IsEmpty: only messages count as contents.
HasNoMessages(p) == ~p.sealed /\ ~HasMessages(p)

IsEmpty(p) == ~p.sealed /\ ~HasMessages(p) /\ p.rekey = 0

TypeOK ==
  /\ skey \in Nat /\ siv \in Nat /\ previv \in Nat
  /\ out \in Packet /\ torn \in BOOLEAN
  /\ part \in [Procs -> {"none", "begun", "torn"}]
  /\ cipher \in [Procs -> Packet]
  /\ phase \in [Procs -> {"idle", "appended", "tested", "sealed", "write",
                          "reset", "assign"}]
  /\ rotating \in Nat
  /\ status \in {"serving", "abandoned", "panicked"}
  /\ appended \in Nat /\ drawn \in Nat
  /\ wire \in Seq(Packet) /\ taken \in 0..Len(wire)
  /\ ckey \in Nat /\ civ \in Nat /\ got \in Seq(Nat)
  /\ broken \subseteq {"oldKey", "undecipherable"} /\ crossed \in BOOLEAN
  /\ up \in Seq([key : Nat, iv : Nat])

\* A handshake has given both ends key 1 and IV 1.
Init ==
  /\ skey = 1 /\ siv = 1 /\ previv = 0
  /\ out = Emptied(0) /\ torn = FALSE /\ part = [p \in Procs |-> "none"]
  /\ cipher = [p \in Procs |-> Emptied(0)]
  /\ phase = [p \in Procs |-> "idle"]
  /\ rotating = 0 /\ status = "serving"
  /\ appended = 0 /\ drawn = 1
  /\ wire = <<>> /\ taken = 0
  /\ ckey = 1 /\ civ = 1 /\ got = <<>> /\ broken = {} /\ crossed = FALSE
  /\ up = <<>>

At(p, ph) == status = "serving" /\ phase[p] = ph

Goto(p, ph) == phase' = [phase EXCEPT ![p] = ph]

\* Another goroutine than p has its ciphertext and has not emptied the buffer.
InSend(p) == \E q \in Procs \ {p} : phase[q] \in {"sealed", "write", "reset"}

\* Another goroutine than p has written part of a message.
Amid(p) == \E q \in Procs \ {p} : part[q] # "none"

\* The buffer has bytes: MessageOut.Size() is not 0.
HasBytes == ~IsEmpty(out) \/ torn \/ \E q \in Procs : part[q] = "begun"

-----------------------------------------------------------------------------
(* The backend.                                                            *)

\* What each has written of a message, after a write of p that leaves its own in
\* state s: the rest of what another has begun will be apart from its beginning.
PartsAfter(p, s) ==
  [q \in Procs |-> IF q = p THEN s
                   ELSE IF part[q] = "begun" THEN "torn" ELSE part[q]]

\* What has been begun is cut off when the buffer is replaced or emptied.
CutOff == [q \in Procs |-> IF part[q] = "begun" THEN "torn" ELSE part[q]]

\* The last write of p makes a whole message, behind whole ones.
Whole(p) == part[p] = "begun" /\ ~torn

\* A handler, a console command or a rule makes the first write of a message, or
\* RotateKeys that of a new key.  Bytes that land behind a ciphertext make the
\* packet unreadable.
Begin(p) ==
  /\ status = "serving" /\ phase[p] \in {"idle", "appended"} /\ part[p] = "none"
  /\ p = Handler => rotating = 0
  /\ appended < MaxMessages
  /\ part' = PartsAfter(p, "begun")
  /\ torn' = (torn \/ \E q \in Procs : part[q] = "begun")
  /\ out' = [out EXCEPT !.mangled = out.sealed]
  /\ crossed' = (crossed \/ InSend(p) \/ Amid(p))
  /\ Goto(p, "appended")
  /\ UNCHANGED <<skey, siv, previv, cipher, rotating, appended, drawn, status, wire,
                 clientVars, up>>

\* A write between the first and the last, when what came before is cut off.
GoesOn(p) ==
  /\ At(p, "appended") /\ part[p] = "torn"
  /\ part' = PartsAfter(p, "torn") /\ torn' = TRUE
  /\ out' = [out EXCEPT !.mangled = out.sealed]
  /\ UNCHANGED <<skey, siv, previv, cipher, phase, rotating, appended, drawn,
                 crossed, status, wire, clientVars, up>>

\* The last write of a message.
End(p) ==
  /\ At(p, "appended") /\ part[p] # "none"
  /\ appended' = appended + 1
  /\ out' = [out EXCEPT !.to = IF Whole(p) THEN appended + 1 ELSE out.to,
                        !.mangled = out.sealed]
  /\ part' = PartsAfter(p, "none") /\ torn' = (torn \/ part[p] = "torn")
  /\ UNCHANGED <<skey, siv, previv, cipher, phase, rotating, drawn,
                 crossed, status, wire, clientVars, up>>

\* The buffer with SCMDKey and a new key behind what is queued.
WithKey(k) == [out EXCEPT !.rekey = k, !.mangled = out.sealed]

\* Pong, every 64th ping: RotateKeys writes the new key and IV behind SCMDKey.
\* The client may take a key for one that stands behind torn bytes, or not.
RotateKeys ==
  /\ At(Handler, "appended") /\ part[Handler] # "none"
  /\ drawn < MaxDraws
  /\ drawn' = drawn + 1
  /\ rotating' = drawn + 1
  /\ \/ out' = WithKey(drawn + 1)
     \/ ~Whole(Handler) /\ out' = WithKey(out.rekey)
  /\ part' = PartsAfter(Handler, "none") /\ torn' = (torn \/ part[Handler] = "torn")
  /\ UNCHANGED <<skey, siv, previv, cipher, phase, appended,
                 crossed, status, wire, clientVars, up>>

\* A console command leaves what it appended: rcon writes to the frontend the
\* session manages, and SendMessages goes to the one `server' looked up last, even
\* if it refused it.
Leaves(p) ==
  /\ p # Handler /\ At(p, "appended") /\ part[p] = "none"
  /\ Goto(p, "idle")
  /\ UNCHANGED <<skey, siv, previv, out, torn, part, cipher, rotating, appended, drawn,
                 crossed, status, wire, clientVars, up>>

\* What a call of SendMessages returns to.
AfterSend(p) == IF p = Handler /\ rotating # 0 THEN "assign" ELSE "idle"

\* SendMessages with nothing in the buffer.
NothingToSend(p) ==
  /\ At(p, "appended") /\ part[p] = "none" /\ ~HasBytes
  /\ Goto(p, AfterSend(p))
  /\ UNCHANGED <<skey, siv, previv, out, torn, part, cipher, rotating, appended, drawn,
                 crossed, status, wire, clientVars, up>>

\* p will send something while another goroutine does, or under a key whose
\* successor has been sent.
Crosses(p) ==
  \/ InSend(p) \/ \E q \in Procs \ {p} : phase[q] = "tested"
  \/ rotating # 0 /\ out.rekey = 0

\* SendMessages finds something in the buffer, and logs it.
Tests(p) ==
  /\ At(p, "appended") /\ part[p] = "none" /\ HasBytes
  /\ crossed' = (crossed \/ Crosses(p))
  /\ Goto(p, "tested")
  /\ UNCHANGED <<skey, siv, previv, out, torn, part, cipher, rotating, appended, drawn,
                 status, wire, clientVars, up>>

\* The contents of the buffer are those of c, or begin as c does.
BeginsAs(c) ==
  /\ c.mangled = out.sealed /\ c.from = out.from
  /\ \/ HasMessages(c) /\ HasMessages(out)
     \/ c.rekey = out.rekey /\ (c.rekey # 0 \/ c.to = out.to)

\* The IV after encrypting, the first block of the ciphertext: what is alike under
\* one key and IV gives the same.
NextIvs ==
  {drawn + 1} \cup
    {cipher[q].next : q \in {r \in Procs : /\ phase[r] = "sealed"
                                           /\ cipher[r].key = skey /\ cipher[r].iv = siv
                                           /\ BeginsAs(cipher[r])}}

\* SymmetricEncrypt of what the buffer holds by now, the beginning of a message that
\* another writes included; of nothing it makes a block of padding.
Encrypt(p) ==
  /\ At(p, "tested")
  /\ drawn < MaxDraws
  /\ drawn' = drawn + 1
  /\ \E n \in NextIvs :
       cipher' = [cipher EXCEPT ![p] =
                    [out EXCEPT !.sealed = TRUE, !.mangled = out.sealed,
                                !.key = skey, !.iv = siv, !.next = n]]
  /\ crossed' = (crossed \/ Amid(p))
  /\ Goto(p, "sealed")
  /\ UNCHANGED <<skey, siv, previv, out, torn, part, rotating, appended,
                 status, wire, clientVars, up>>

\* Mutant of IvAfterSend: the IV is left as it was.
SameIv(c) == siv

\* The next packet goes under the IV that this one produced.
IvAfterSend(c) == c.next

\* The ciphertext takes the place of what the buffer holds by now.
Store(p) ==
  /\ At(p, "sealed")
  /\ out' = cipher[p] /\ cipher' = [cipher EXCEPT ![p] = Emptied(0)]
  /\ part' = CutOff
  /\ previv' = siv /\ siv' = IvAfterSend(cipher[p])
  /\ Goto(p, "write")
  /\ UNCHANGED <<skey, torn, rotating, appended, drawn,
                 crossed, status, wire, clientVars, up>>

\* SendMessages writes whatever the buffer holds by now.
Write(p) ==
  /\ At(p, "write")
  /\ wire' = IF HasBytes THEN Append(wire, out) ELSE wire
  /\ Goto(p, "reset")
  /\ UNCHANGED <<skey, siv, previv, out, torn, part, cipher, rotating, appended, drawn,
                 crossed, status, clientVars, up>>

\* Mutant of Reset: the buffer is no longer a ciphertext, but not emptied.
ResetForgets(p) ==
  /\ At(p, "reset")
  /\ out' = [out EXCEPT !.sealed = FALSE, !.rekey = 0] /\ torn' = FALSE /\ part' = CutOff
  /\ Goto(p, AfterSend(p))
  /\ UNCHANGED <<skey, siv, previv, cipher, rotating, appended, drawn,
                 crossed, status, wire, clientVars, up>>

\* SendMessages empties the buffer.
Reset(p) ==
  /\ At(p, "reset")
  /\ out' = Emptied(appended) /\ torn' = FALSE /\ part' = CutOff
  /\ Goto(p, AfterSend(p))
  /\ UNCHANGED <<skey, siv, previv, cipher, rotating, appended, drawn,
                 crossed, status, wire, clientVars, up>>

\* RotateKeys switches to the new key and IV after SendMessages.
AssignKeys ==
  /\ At(Handler, "assign")
  /\ skey' = rotating /\ siv' = rotating
  /\ rotating' = 0
  /\ Goto(Handler, "idle")
  /\ UNCHANGED <<previv, out, torn, part, cipher, appended, drawn,
                 crossed, status, wire, clientVars, up>>

\* Mutant of AfterParsing: the handler goes back to reading.
ReadsAgain == "idle"

\* With a packet parsed, the handler calls SendMessages.
AfterParsing == "appended"

\* The bytes of the first n packets of the client arrive in one Read.  When
\* they do not decrypt to a message the loop either parses garbage or gets no
\* bytes at all; the retry with PreviousIV starts from those no bytes, so it
\* always fails and the handler returns.  What it parses may make it append, and
\* SendMessages follows in any case.
ServerReads(n) ==
  /\ At(Handler, "idle") /\ Len(up) >= n
  /\ up' = SubSeq(up, n + 1, Len(up))
  /\ \/ n = 1 /\ Head(up) = [key |-> skey, iv |-> siv] /\ UNCHANGED status
     \/ /\ n > 1 \/ Head(up) # [key |-> skey, iv |-> siv]
        /\ status' \in {"serving", "abandoned"}
  /\ Goto(Handler, AfterParsing)
  /\ UNCHANGED <<skey, siv, previv, out, torn, part, cipher, rotating, appended, drawn,
                 crossed, wire, clientVars>>

\* A Read that returns part of a packet: SymmetricDecrypt panics unless the
\* part is a multiple of the block length, and then it is a message cut short.
ServerReadsPart ==
  /\ At(Handler, "idle") /\ up # <<>>
  /\ status' = "panicked"
  /\ UNCHANGED <<serverVars, crossed, wire, clientVars, up>>

-----------------------------------------------------------------------------
(* The game server (external).                                             *)

Readable(p) == p.sealed /\ ~p.mangled /\ p.key = ckey /\ p.iv = civ

\* Key and IV the client uses after a packet.
KeyAfter(p) == IF p.rekey # 0 THEN p.rekey ELSE p.key
IvAfter(p)  == IF p.rekey # 0 THEN p.rekey ELSE p.next

ClientReceives ==
  /\ taken < Len(wire)
  /\ taken' = taken + 1
  /\ LET p == wire[taken + 1] IN
       IF Readable(p)
         THEN /\ ckey' = KeyAfter(p) /\ civ' = IvAfter(p)
              /\ got' = got \o Messages(p)
              /\ UNCHANGED broken
         ELSE /\ broken' = broken \cup
                   {IF p.sealed /\ ~p.mangled /\ p.key < ckey
                      THEN "oldKey" ELSE "undecipherable"}
              /\ UNCHANGED <<ckey, civ, got>>
  /\ UNCHANGED <<serverVars, crossed, status, wire, up>>

ClientSends ==
  /\ broken = {} /\ Len(up) < MaxUp
  /\ up' = Append(up, [key |-> ckey, iv |-> civ])
  /\ UNCHANGED <<serverVars, crossed, status, wire, clientVars>>

-----------------------------------------------------------------------------
\* What p writes behind its first write, up to its last.
Ending(p) == End(p) \/ (p = Handler /\ RotateKeys)

Sending(p) ==
  \/ NothingToSend(p) \/ Tests(p) \/ Encrypt(p) \/ Store(p) \/ Write(p) \/ Reset(p)

Reading == \E n \in 1..2 : ServerReads(n)

Next ==
  \/ \E p \in Procs : Begin(p) \/ GoesOn(p) \/ Ending(p) \/ Leaves(p) \/ Sending(p)
  \/ AssignKeys
  \/ Reading \/ ServerReadsPart
  \/ ClientReceives \/ ClientSends

Spec == Init /\ [][Next]_vars

\* A goroutine ends what it began to write and goes through with its call of
\* SendMessages, which it need not make.  What is written arrives, and the game
\* server, which pings, never stays silent for good.
Continues(p) == Ending(p) \/ Sending(p) \/ (p = Handler /\ AssignKeys)

FairSpec ==
  /\ Spec
  /\ \A p \in Procs : WF_vars(Continues(p))
  /\ WF_vars(ClientReceives) /\ WF_vars(Reading) /\ WF_vars(ClientSends)
=============================================================================
