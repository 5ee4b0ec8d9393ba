-------------------------- MODULE FrontendSession --------------------------
(***************************************************************************)
(* The life of one Frontend record (a game server known to the backend):   *)
(* backend.go starts one goroutine, HandleConnection, for every accepted   *)
(* TCP connection, and every goroutine that presents this frontend's uuid  *)
(* works on the same *Frontend with no lock.  Three more kinds of          *)
(* goroutine write to it: the delayed rule check ParseConnect starts, the  *)
(* maintenance loop and the SSH sessions that manage it.                   *)
(*                                                                         *)
(* A step is what a goroutine does between two places where it can be      *)
(* held up for long: a socket Read, the public-key encryption of the       *)
(* hello-ack, the pause between testing Connected and writing.  A panic in *)
(* any goroutine ends the process: writing through a nil Connection is     *)
(* such a panic.                                                           *)
(***************************************************************************)
EXTENDS FiniteSets

CONSTANTS Conns,    \* TCP connections that present this frontend's uuid
          Senders,  \* goroutines other than the handlers that send to it
          None      \* the nil Connection and the absent challenge

ASSUME NoneAssumption == None \notin Conns

VARIABLES
  status,      \* "up", or what ended the process
  pc,          \* where each connection's handler is
  closed,      \* connections whose peer is gone
  connected,   \* fe.Connected
  trusted,     \* fe.Trusted
  encrypted,   \* fe.Encrypted
  connection,  \* fe.Connection
  challenge,   \* fe.Challenge, named by the handler that drew it
  acks,        \* challenges each peer has been able to read
  proved,      \* history: the challenge each handler accepted an answer to
  garbled,     \* history: handlers whose hello-ack went out under a session key
  sender,      \* "idle", or "ready": about to call SendMessages
  overlapped,  \* history: the last greeting came while another handler was live
  dangling,    \* history: a handler left after its greeting without cleaning up
  lostServe    \* history: a serving handler left without cleaning up

procVars   == <<status, sender>>
recordVars == <<connected, trusted, encrypted, connection, challenge>>
peerVars   == <<closed, acks>>
history    == <<proved, garbled, overlapped, dangling, lostServe>>
vars == <<procVars, pc, recordVars, peerVars, history>>

Phases == {"new", "hello", "ack", "auth", "serve", "done"}

TypeOK ==
  /\ status \in {"up", "stopped", "handlerPanic", "senderPanic"}
  /\ pc \in [Conns -> Phases]
  /\ closed \subseteq Conns
  /\ connected \in BOOLEAN /\ trusted \in BOOLEAN /\ encrypted \in BOOLEAN
  /\ connection \in Conns \cup {None}
  /\ challenge \in Conns \cup {None}
  /\ acks \in [Conns -> SUBSET Conns]
  /\ proved \in [Conns -> Conns \cup {None}]
  /\ garbled \subseteq Conns
  /\ sender \in [Senders -> {"idle", "ready"}]
  /\ overlapped \in BOOLEAN /\ dangling \in BOOLEAN /\ lostServe \in BOOLEAN

\* A handler past its greeting: it owns a share of the record.
Live(c) == pc[c] \in {"ack", "auth", "serve"}

Init ==
  /\ status = "up"
  /\ pc = [c \in Conns |-> "new"]
  /\ closed = {}
  /\ connected = FALSE /\ trusted = FALSE /\ encrypted = FALSE
  /\ connection = None /\ challenge = None
  /\ acks = [c \in Conns |-> {}]
  /\ proved = [c \in Conns |-> None]
  /\ garbled = {}
  /\ sender = [s \in Senders |-> "idle"]
  /\ overlapped = FALSE /\ dangling = FALSE /\ lostServe = FALSE

At(c, phase) == status = "up" /\ pc[c] = phase

Goto(c, phase) == pc' = [pc EXCEPT ![c] = phase]

\* Mutant of Leave: continue where the code breaks or returns.
Continue(c) == UNCHANGED pc

Leave(c) == Goto(c, "done")

-----------------------------------------------------------------------------
(* The handler, HandleConnection.                                          *)

\* The accept loop of Startup.
Accept(c) ==
  /\ At(c, "new") /\ Goto(c, "hello")
  /\ UNCHANGED <<procVars, recordVars, peerVars, history>>

\* The peer hangs up, or the network does it for it.
PeerCloses(c) ==
  /\ pc[c] \notin {"new", "done"} /\ c \notin closed
  /\ closed' = closed \cup {c}
  /\ UNCHANGED <<procVars, pc, recordVars, acks, history>>

\* Mutant of RejectHello: the clean-up deferred to every return.
RejectHelloCleansUp(c) ==
  /\ At(c, "hello") /\ Leave(c)
  /\ connection' = None /\ connected' = FALSE /\ trusted' = FALSE
  /\ UNCHANGED <<procVars, encrypted, challenge, peerVars, history>>

\* Read error, bad magic, not a hello, unknown uuid, old version: every return
\* before the record is touched.
RejectHello(c) ==
  /\ At(c, "hello") /\ Leave(c)
  /\ UNCHANGED <<procVars, recordVars, peerVars, history>>

\* Fields taken over from the greeting.
TakeOver(c, enc) ==
  /\ At(c, "hello")
  /\ connected' = TRUE /\ connection' = c /\ encrypted' = enc
  /\ UNCHANGED trusted

\* The greeting is accepted: record taken over, challenge and keys drawn.
Greet(c, enc) ==
  /\ TakeOver(c, enc)
  /\ challenge' = c
  /\ Goto(c, "ack")
  /\ overlapped' = (\E d \in Conns \ {c} : Live(d))
  /\ UNCHANGED <<procVars, peerVars, proved, garbled, dangling, lostServe>>

\* The greeting is accepted but the public key does not load, or does not
\* encrypt the answer: return, with the record already taken over.
GreetWithoutKey(c, enc) ==
  /\ TakeOver(c, enc)
  /\ challenge' \in {challenge, c}
  /\ Leave(c)
  /\ overlapped' = (\E d \in Conns \ {c} : Live(d))
  /\ dangling' = TRUE
  /\ UNCHANGED <<procVars, peerVars, proved, garbled, lostServe>>

\* SendMessages encrypts whatever it sends when both flags are set.
Ciphered == trusted /\ encrypted

\* The hello-ack goes to whatever connection the record holds by now.
SendAck(c) ==
  /\ At(c, "ack") /\ connection # None
  /\ Goto(c, "auth")
  /\ IF Ciphered
       THEN garbled' = garbled \cup {c} /\ UNCHANGED acks
       ELSE /\ acks' = IF connection \in closed THEN acks
                    ELSE [acks EXCEPT ![connection] = @ \cup {c}]
            /\ UNCHANGED garbled
  /\ UNCHANGED <<procVars, recordVars, closed,
                 proved, overlapped, dangling, lostServe>>

\* Second read fails, or its contents are not the digest: return.
AuthFails(c) ==
  /\ At(c, "auth") /\ Leave(c)
  /\ dangling' = TRUE
  /\ UNCHANGED <<procVars, recordVars, peerVars,
                 proved, garbled, overlapped, lostServe>>

\* Mutant of Answers: any answer to any challenge will do.
AnswersAny(c) == acks[c] # {}

\* The peer has read the challenge that is in the record now, and answers it.
Answers(c) == challenge \in acks[c]

\* The answer is right: SCMDTrusted goes out, trust is granted.
AuthSucceeds(c) ==
  /\ At(c, "auth") /\ connection # None
  /\ Answers(c)
  /\ trusted' = TRUE
  /\ proved' = [proved EXCEPT ![c] = challenge]
  /\ Goto(c, "serve")
  /\ UNCHANGED <<procVars, connected, encrypted, connection, challenge,
                 peerVars, garbled, overlapped, dangling, lostServe>>

\* Decryption yields nothing, the retry yields nothing either: return.
Undecipherable(c) ==
  /\ At(c, "serve") /\ Ciphered
  /\ Leave(c)
  /\ dangling' = TRUE /\ lostServe' = TRUE
  /\ UNCHANGED <<procVars, recordVars, peerVars, proved, garbled, overlapped>>

\* Mutants of CleanUp: one of the fields is forgotten.
CleanUpKeepsTrust == connection' = None /\ connected' = FALSE /\ UNCHANGED trusted
CleanUpKeepsConnection == connected' = FALSE /\ trusted' = FALSE /\ UNCHANGED connection

CleanUp == connection' = None /\ connected' = FALSE /\ trusted' = FALSE

\* A read error breaks the loop; this is the only exit that cleans up.
Disconnect(c) ==
  /\ At(c, "serve") /\ c \in closed
  /\ Leave(c) /\ CleanUp
  /\ dangling' = FALSE /\ lostServe' = FALSE
  /\ UNCHANGED <<procVars, encrypted, challenge, peerVars,
                 proved, garbled, overlapped>>

\* A packet with a player's connect: ParseConnect starts a goroutine that will
\* apply the rules a second or more later.
ServeConnect(c, s) ==
  /\ At(c, "serve") /\ connection # None
  /\ sender[s] = "idle" /\ sender' = [sender EXCEPT ![s] = "ready"]
  /\ UNCHANGED <<status, pc, recordVars, peerVars, history>>

\* A handler's own SendMessages finds the Connection nil.
HandlerPanics(c) ==
  /\ status = "up" /\ Live(c) /\ connection = None
  /\ status' = "handlerPanic"
  /\ UNCHANGED <<sender, pc, recordVars, peerVars, history>>

-----------------------------------------------------------------------------
(* The other senders, the process.                                         *)

\* The maintenance loop skips a frontend that is neither connected nor
\* trusted; an SSH session drops one that is not connected.
SenderChecks(s) ==
  /\ status = "up" /\ sender[s] = "idle"
  /\ connected \/ trusted
  /\ sender' = [sender EXCEPT ![s] = "ready"]
  /\ UNCHANGED <<status, pc, recordVars, peerVars, history>>

SenderSends(s) ==
  /\ status = "up" /\ sender[s] = "ready"
  /\ sender' = [sender EXCEPT ![s] = "idle"]
  /\ status' = IF connection = None THEN "senderPanic" ELSE "up"
  /\ UNCHANGED <<pc, recordVars, peerVars, history>>

\* main.go: an interrupt ends the process.
Stop ==
  /\ status = "up" /\ status' = "stopped"
  /\ UNCHANGED <<sender, pc, recordVars, peerVars, history>>

\* Startup: LoadFrontends reads the record back without its runtime fields.
Restart ==
  /\ status # "up" /\ status' = "up"
  /\ pc' = [c \in Conns |-> IF pc[c] = "new" THEN "new" ELSE "done"]
  /\ connected' = FALSE /\ trusted' = FALSE /\ encrypted' = FALSE
  /\ connection' = None /\ challenge' = None
  /\ sender' = [s \in Senders |-> "idle"]
  /\ overlapped' = FALSE /\ dangling' = FALSE /\ lostServe' = FALSE
  /\ UNCHANGED <<peerVars, proved, garbled>>

-----------------------------------------------------------------------------
Handler(c) ==
  \/ Accept(c) \/ RejectHello(c)
  \/ \E enc \in BOOLEAN : Greet(c, enc) \/ GreetWithoutKey(c, enc)
  \/ SendAck(c) \/ AuthFails(c) \/ AuthSucceeds(c)
  \/ Undecipherable(c) \/ Disconnect(c) \/ HandlerPanics(c)
  \/ \E s \in Senders : ServeConnect(c, s)

Next ==
  \/ \E c \in Conns : Handler(c) \/ PeerCloses(c)
  \/ \E s \in Senders : SenderChecks(s) \/ SenderSends(s)
  \/ Stop \/ Restart

Spec == Init /\ [][Next]_vars

\* A handler the scheduler runs reaches its next Read, and a Read on a
\* connection whose peer is gone returns.
ReadFails(c) ==
  /\ c \in closed
  /\ RejectHello(c) \/ AuthFails(c) \/ Disconnect(c)

FairSpec ==
  /\ Spec
  /\ \A c \in Conns : WF_vars(SendAck(c)) /\ WF_vars(ReadFails(c))
=============================================================================
