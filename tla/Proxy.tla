------------------------------- MODULE Proxy -------------------------------
(***************************************************************************)
(* The proxy that stands between game servers and the backend: for each    *)
(* connection it accepts a goroutine that dials the backend, starts two    *)
(* copying goroutines, waits for the first of them to end and closes both  *)
(* sockets.  Connections share nothing but the process, so there is one    *)
(* here, and a panic of the accepting loop.                                *)
(*                                                                         *)
(* The two ends and the network (external) are sockets: what an end sends  *)
(* waits in a pipe of limited size, an orderly close comes behind it, and  *)
(* a reset destroys what waits.  Chunks of bytes are numbered from 1 in    *)
(* each direction.                                                         *)
(***************************************************************************)
EXTENDS Integers, Sequences

CONSTANTS
  Window,   \* chunks that fit between an end and the proxy
  MaxSent   \* bound: chunks an end sends

ASSUME WindowAssumption == Window \in Nat \ {0} /\ MaxSent \in Nat

Ends == {"client", "backend"}
Other(e) == IF e = "client" THEN "backend" ELSE "client"

VARIABLES
  main,     \* the goroutine of the connection
  open,     \* the proxy's sockets, conn and conn2
  copying,  \* the copy that reads from each end
  held,     \* the chunk it has read and not written, 0 for none
  signals,  \* what is in channel closer
  down,     \* the process has died
  inq,      \* from each end, not yet read by the proxy
  outq,     \* to each end, not yet read by it
  peer,     \* each end: "open", "closed" or "reset"
  sent, got,\* chunks sent by each end; those it has read
  clean     \* history: ends that closed when they had read everything and
            \* that the other end has sent nothing since

goVars == <<main, open, copying, held, signals, down>>
endVars == <<peer, sent, got, clean>>
proxyVars == <<goVars, inq, outq, endVars>>

ProxyTypeOK ==
  /\ main \in {"dialing", "waiting", "closing", "closingClient", "ended"}
  /\ open \in [Ends -> BOOLEAN]
  /\ copying \in [Ends -> {"none", "reading", "writing", "signalling", "done"}]
  /\ held \in [Ends -> 0..MaxSent] /\ signals \in 0..2 /\ down \in BOOLEAN
  /\ inq \in [Ends -> Seq(1..MaxSent)] /\ outq \in [Ends -> Seq(1..MaxSent)]
  /\ peer \in [Ends -> {"open", "closed", "reset"}]
  /\ sent \in [Ends -> 0..MaxSent] /\ got \in [Ends -> Seq(1..MaxSent)]
  /\ clean \subseteq Ends

\* The client's connection has been accepted.
ProxyInit ==
  /\ main = "dialing" /\ open = [e \in Ends |-> e = "client"]
  /\ copying = [e \in Ends |-> "none"] /\ held = [e \in Ends |-> 0]
  /\ signals = 0 /\ down = FALSE
  /\ inq = [e \in Ends |-> <<>>] /\ outq = [e \in Ends |-> <<>>]
  /\ peer = [e \in Ends |-> "open"]
  /\ sent = [e \in Ends |-> 0] /\ got = [e \in Ends |-> <<>>] /\ clean = {}

-----------------------------------------------------------------------------
(* The goroutine of the connection.                                        *)

Dial ==
  /\ ~down /\ main = "dialing"
  /\ main' = "waiting" /\ open' = [open EXCEPT !["backend"] = TRUE]
  /\ copying' = [e \in Ends |-> "reading"]
  /\ UNCHANGED <<held, signals, down, inq, outq, endVars>>

DialFails ==
  /\ ~down /\ main = "dialing" /\ main' = "closingClient"
  /\ UNCHANGED <<open, copying, held, signals, down, inq, outq, endVars>>

\* The first copy that ends is enough.
StopWaiting ==
  /\ ~down /\ main = "waiting" /\ signals > 0
  /\ main' = "closing" /\ signals' = signals - 1
  /\ UNCHANGED <<open, copying, held, down, inq, outq, endVars>>

\* Closing a socket that holds unread chunks resets it: some of what was
\* written may not arrive.
CloseSocket(e) ==
  /\ open' = [open EXCEPT ![e] = FALSE]
  /\ inq' = [inq EXCEPT ![e] = <<>>]
  /\ \E n \in 0..Len(outq[e]) :
       /\ inq[e] = <<>> => n = Len(outq[e])
       /\ outq' = [outq EXCEPT ![e] = SubSeq(@, 1, n)]

\* The deferred calls, the last one first.
CloseBackend ==
  /\ ~down /\ main = "closing" /\ main' = "closingClient"
  /\ CloseSocket("backend")
  /\ UNCHANGED <<copying, held, signals, down, endVars>>

CloseClient ==
  /\ ~down /\ main = "closingClient" /\ main' = "ended"
  /\ CloseSocket("client")
  /\ UNCHANGED <<copying, held, signals, down, endVars>>

\* The loop logs the address of a connection that Accept did not return: the
\* process dies, and all its sockets with it.
AcceptFails ==
  /\ ~down /\ down' = TRUE
  /\ open' = [e \in Ends |-> FALSE] /\ inq' = [e \in Ends |-> <<>>]
  /\ UNCHANGED <<main, copying, held, signals, outq, endVars>>

-----------------------------------------------------------------------------
(* copy: io.Copy from end e to the other one, and the signal.              *)

CopyAt(e, step) == ~down /\ copying[e] = step
CopyGoto(e, step) == copying' = [copying EXCEPT ![e] = step]

ReadChunk(e) ==
  /\ CopyAt(e, "reading") /\ open[e] /\ inq[e] # <<>>
  /\ held' = [held EXCEPT ![e] = Head(inq[e])]
  /\ inq' = [inq EXCEPT ![e] = Tail(@)]
  /\ CopyGoto(e, "writing")
  /\ UNCHANGED <<main, open, signals, down, outq, endVars>>

\* Mutant of AtEnd: the end is noticed before what was sent has been read.
AtEndEarly(e) == peer[e] # "open" \/ ~open[e]

\* Read returns the end of the stream, or an error.
AtEnd(e) == \/ peer[e] = "closed" /\ inq[e] = <<>>
            \/ peer[e] = "reset" \/ ~open[e]

ReadEnds(e) ==
  /\ CopyAt(e, "reading") /\ AtEnd(e)
  /\ CopyGoto(e, "signalling")
  /\ UNCHANGED <<main, open, held, signals, down, inq, outq, endVars>>

Release(e) == held' = [held EXCEPT ![e] = 0]

\* Mutant of Written: the chunk may be written again.
WrittenTwice(e) == \/ CopyGoto(e, "reading") /\ Release(e)
                   \/ UNCHANGED <<copying, held>>

\* What Write leaves once it has succeeded.
Written(e) == CopyGoto(e, "reading") /\ Release(e)

\* Write waits for room.
WriteChunk(e) ==
  LET t == Other(e) IN
  /\ CopyAt(e, "writing") /\ open[t] /\ peer[t] = "open" /\ Len(outq[t]) < Window
  /\ outq' = [outq EXCEPT ![t] = Append(@, held[e])]
  /\ Written(e)
  /\ UNCHANGED <<main, open, signals, down, inq, endVars>>

\* An end that has closed answers with a reset, which destroys what it sent
\* and the proxy has not read.
WriteLost(e) ==
  LET t == Other(e) IN
  /\ CopyAt(e, "writing") /\ open[t] /\ peer[t] = "closed"
  /\ peer' = [peer EXCEPT ![t] = "reset"] /\ inq' = [inq EXCEPT ![t] = <<>>]
  /\ CopyGoto(e, "reading") /\ Release(e)
  /\ UNCHANGED <<main, open, signals, down, outq, sent, got, clean>>

WriteFails(e) ==
  LET t == Other(e) IN
  /\ CopyAt(e, "writing") /\ (~open[t] \/ peer[t] = "reset")
  /\ CopyGoto(e, "signalling") /\ Release(e)
  /\ UNCHANGED <<main, open, signals, down, inq, outq, endVars>>

\* Mutant of MaySignal: the channel has no room of its own.
MaySignalWaiting == main = "waiting" /\ signals = 0

\* The channel has room for both.
MaySignal == signals < 2

Signal(e) ==
  /\ CopyAt(e, "signalling") /\ MaySignal
  /\ signals' = signals + 1
  /\ CopyGoto(e, "done")
  /\ UNCHANGED <<main, open, held, down, inq, outq, endVars>>

-----------------------------------------------------------------------------
(* The ends (external).                                                    *)

\* The backend's end exists once it has been dialed.
Takes(e) == peer[e] = "open" /\ (e = "backend" => main # "dialing" /\ copying[e] # "none")

\* What is sent to a socket that is closed is lost.
Send(e) ==
  /\ Takes(e) /\ sent[e] < MaxSent /\ Len(inq[e]) < Window
  /\ sent' = [sent EXCEPT ![e] = @ + 1]
  /\ inq' = IF open[e] THEN [inq EXCEPT ![e] = Append(@, sent[e] + 1)] ELSE inq
  /\ clean' = clean \ {Other(e)}
  /\ UNCHANGED <<goVars, outq, peer, got>>

Receive(e) ==
  /\ Takes(e) /\ outq[e] # <<>>
  /\ got' = [got EXCEPT ![e] = Append(@, Head(outq[e]))]
  /\ outq' = [outq EXCEPT ![e] = Tail(@)]
  /\ UNCHANGED <<goVars, inq, peer, sent, clean>>

\* An end that has read all that arrived closes in order.
Close(e) ==
  /\ Takes(e) /\ outq[e] = <<>>
  /\ peer' = [peer EXCEPT ![e] = "closed"]
  /\ clean' = IF Len(got[e]) = sent[Other(e)] THEN clean \cup {e} ELSE clean
  /\ UNCHANGED <<goVars, inq, outq, sent, got>>

\* The connection breaks.
Reset(e) ==
  /\ Takes(e)
  /\ peer' = [peer EXCEPT ![e] = "reset"]
  /\ inq' = [inq EXCEPT ![e] = <<>>] /\ outq' = [outq EXCEPT ![e] = <<>>]
  /\ UNCHANGED <<goVars, sent, got, clean>>

-----------------------------------------------------------------------------
Copy(e) ==
  \/ ReadChunk(e) \/ ReadEnds(e) \/ WriteChunk(e) \/ WriteLost(e)
  \/ WriteFails(e) \/ Signal(e)

Main == Dial \/ DialFails \/ StopWaiting \/ CloseBackend \/ CloseClient

ProxyNext ==
  \/ Main \/ AcceptFails
  \/ \E e \in Ends : Copy(e) \/ Send(e) \/ Receive(e) \/ Close(e) \/ Reset(e)

ProxySpec == ProxyInit /\ [][ProxyNext]_proxyVars

\* Goroutines go on when they can, and dialing ends one way or the other.
\* Nothing obliges an end to read, to send or to close.
ProxyFairSpec == ProxySpec /\ WF_proxyVars(Main) /\ \A e \in Ends : WF_proxyVars(Copy(e))
=============================================================================
