------------------------- MODULE Connections_proofs -------------------------
(***************************************************************************)
(* The safety properties of FrontendSessionProps, for every set of         *)
(* connections and of senders, and those of ProxyProps, for every window   *)
(* and number of chunks.                                                   *)
(***************************************************************************)
EXTENDS FrontendSessionProps, ProxyProps, SequenceTheorems, TLAPS

-----------------------------------------------------------------------------
(* The session of a frontend.                                              *)

\* The handler of a session with no overlap is the only live one and the
\* record is its own from the greeting on.
SoleOwner ==
  \A c \in Conns : Live(c) /\ ~overlapped =>
    /\ connected /\ connection = c /\ challenge = c
    /\ Serving(c) => trusted
    /\ \A d \in Conns : Live(d) => d = c

\* A challenge is sent once, by the handler that drew it.
SentOnce ==
  /\ \A c, x \in Conns : x \in acks[c] => pc[x] \notin {"new", "hello", "ack"}
  /\ \A c, d, x \in Conns : x \in acks[c] /\ x \in acks[d] => c = d

\* What a handler accepted, its peer had read.
ProvedWasRead == \A c \in Conns : proved[c] # None => proved[c] \in acks[c]

\* One step of the whole system, named by its action.
StepCases ==
  \/ \E c \in Conns :
       \/ Accept(c) \/ RejectHello(c)
       \/ SendAck(c) \/ AuthFails(c) \/ AuthSucceeds(c)
       \/ Undecipherable(c) \/ Disconnect(c) \/ HandlerPanics(c)
       \/ PeerCloses(c)
  \/ \E c \in Conns, enc \in BOOLEAN : Greet(c, enc) \/ GreetWithoutKey(c, enc)
  \/ \E c \in Conns, s \in Senders : ServeConnect(c, s)
  \/ \E s \in Senders : SenderChecks(s) \/ SenderSends(s)
  \/ Stop \/ Restart

LEMMA NextIsStepCases == Next <=> StepCases
BY DEF Next, Handler, StepCases

-----------------------------------------------------------------------------
\* The types of the variables (FrontendSession!TypeOK) hold in every reachable
\* state.
THEOREM TypeCorrect == Spec => []TypeOK
<1>1. Init => TypeOK
  BY DEF Init, TypeOK, Phases
<1>2. TypeOK /\ [Next]_vars => TypeOK'
  <2> SUFFICES ASSUME TypeOK, [Next]_vars PROVE TypeOK'
    OBVIOUS
  <2> USE DEF TypeOK, Phases, At, Goto, Leave, procVars, recordVars, peerVars, history
  <2>1. ASSUME NEW c \in Conns,
               Accept(c) \/ RejectHello(c) \/ PeerCloses(c) \/ HandlerPanics(c)
        PROVE  TypeOK'
    BY <2>1 DEF Accept, RejectHello, PeerCloses, HandlerPanics
  <2>2. ASSUME NEW c \in Conns, NEW enc \in BOOLEAN, Greet(c, enc)
        PROVE  TypeOK'
    BY <2>2 DEF Greet, TakeOver
  <2>3. ASSUME NEW c \in Conns, NEW enc \in BOOLEAN, GreetWithoutKey(c, enc)
        PROVE  TypeOK'
    BY <2>3 DEF GreetWithoutKey, TakeOver
  <2>4. ASSUME NEW c \in Conns, SendAck(c) PROVE TypeOK'
    BY <2>4 DEF SendAck
  <2>5. ASSUME NEW c \in Conns, AuthFails(c) \/ Undecipherable(c) PROVE TypeOK'
    BY <2>5 DEF AuthFails, Undecipherable
  <2>6. ASSUME NEW c \in Conns, AuthSucceeds(c) PROVE TypeOK'
    BY <2>6 DEF AuthSucceeds
  <2>7. ASSUME NEW c \in Conns, Disconnect(c) PROVE TypeOK'
    BY <2>7 DEF Disconnect, CleanUp
  <2>8. ASSUME NEW c \in Conns, NEW s \in Senders, ServeConnect(c, s)
        PROVE  TypeOK'
    BY <2>8 DEF ServeConnect
  <2>9. ASSUME NEW s \in Senders, SenderChecks(s) \/ SenderSends(s)
        PROVE  TypeOK'
    BY <2>9 DEF SenderChecks, SenderSends
  <2>10. CASE Stop
    BY <2>10 DEF Stop
  <2>11. CASE Restart
    BY <2>11 DEF Restart
  <2>12. CASE UNCHANGED vars
    BY <2>12 DEF vars
  <2> QED
    BY <2>1, <2>2, <2>3, <2>4, <2>5, <2>6, <2>7, <2>8, <2>9, <2>10, <2>11,
       <2>12, NextIsStepCases DEF StepCases
<1> QED
  BY <1>1, <1>2, PTL DEF Spec

-----------------------------------------------------------------------------
(* One handler alone, and what the record says about it.                   *)

SessionInv ==
  /\ SoleOwner
  /\ ConnectedIsExplained
  /\ TrustedIsExplained
  /\ HandlerPanicNeedsOverlap

LEMMA SessionStep == TypeOK /\ SessionInv /\ [Next]_vars => SessionInv'
<1> SUFFICES ASSUME TypeOK, SessionInv, [Next]_vars PROVE SessionInv'
  OBVIOUS
<1> USE NoneAssumption
    DEF TypeOK, Phases, SessionInv, SoleOwner, ConnectedIsExplained,
        TrustedIsExplained, HandlerPanicNeedsOverlap, Live, Serving, At, Goto,
        Leave, procVars, recordVars, peerVars, history
<1>1. ASSUME NEW c \in Conns, Accept(c) \/ RejectHello(c) \/ PeerCloses(c)
      PROVE  SessionInv'
  BY <1>1 DEF Accept, RejectHello, PeerCloses
<1>2. ASSUME NEW c \in Conns, HandlerPanics(c) PROVE SessionInv'
  BY <1>2 DEF HandlerPanics
<1>3. ASSUME NEW c \in Conns, NEW enc \in BOOLEAN, Greet(c, enc)
      PROVE  SessionInv'
  BY <1>3 DEF Greet, TakeOver
<1>4. ASSUME NEW c \in Conns, NEW enc \in BOOLEAN, GreetWithoutKey(c, enc)
      PROVE  SessionInv'
  BY <1>4 DEF GreetWithoutKey, TakeOver
<1>5. ASSUME NEW c \in Conns, SendAck(c) PROVE SessionInv'
  BY <1>5 DEF SendAck
<1>6. ASSUME NEW c \in Conns, AuthFails(c) PROVE SessionInv'
  BY <1>6 DEF AuthFails
<1>7. ASSUME NEW c \in Conns, AuthSucceeds(c) PROVE SessionInv'
  BY <1>7 DEF AuthSucceeds
<1>8. ASSUME NEW c \in Conns, Undecipherable(c) PROVE SessionInv'
  BY <1>8 DEF Undecipherable
<1>9. ASSUME NEW c \in Conns, Disconnect(c) PROVE SessionInv'
  BY <1>9 DEF Disconnect, CleanUp
<1>10. ASSUME NEW c \in Conns, NEW s \in Senders, ServeConnect(c, s)
       PROVE  SessionInv'
  BY <1>10 DEF ServeConnect
<1>11. ASSUME NEW s \in Senders, SenderChecks(s) \/ SenderSends(s)
       PROVE  SessionInv'
  BY <1>11 DEF SenderChecks, SenderSends
<1>12. CASE Stop
  BY <1>12 DEF Stop
<1>13. CASE Restart
  BY <1>13 DEF Restart
<1>14. CASE UNCHANGED vars
  BY <1>14 DEF vars
<1> QED
  BY <1>1, <1>2, <1>3, <1>4, <1>5, <1>6, <1>7, <1>8, <1>9, <1>10, <1>11,
     <1>12, <1>13, <1>14, NextIsStepCases DEF StepCases

THEOREM SessionCorrect == Spec => []SessionInv
<1>1. Init => SessionInv
  BY DEF Init, SessionInv, SoleOwner, ConnectedIsExplained, TrustedIsExplained,
         HandlerPanicNeedsOverlap, Live, Serving
<1> QED
  BY <1>1, SessionStep, TypeCorrect, PTL DEF Spec

-----------------------------------------------------------------------------
(* A challenge authenticates one connection.                               *)

ChallengeInv == SentOnce /\ ProvedWasRead

LEMMA ChallengeStep == TypeOK /\ ChallengeInv /\ [Next]_vars => ChallengeInv'
<1> SUFFICES ASSUME TypeOK, ChallengeInv, [Next]_vars PROVE ChallengeInv'
  OBVIOUS
<1> USE NoneAssumption
    DEF TypeOK, Phases, ChallengeInv, SentOnce, ProvedWasRead, At, Goto, Leave,
        procVars, recordVars, peerVars, history
<1>1. ASSUME NEW c \in Conns,
             Accept(c) \/ RejectHello(c) \/ PeerCloses(c) \/ HandlerPanics(c)
      PROVE  ChallengeInv'
  BY <1>1 DEF Accept, RejectHello, PeerCloses, HandlerPanics
<1>2. ASSUME NEW c \in Conns, NEW enc \in BOOLEAN,
             Greet(c, enc) \/ GreetWithoutKey(c, enc)
      PROVE  ChallengeInv'
  BY <1>2, ZenonT(40) DEF Greet, GreetWithoutKey, TakeOver
<1>3. ASSUME NEW c \in Conns, SendAck(c) PROVE ChallengeInv'
  BY <1>3 DEF SendAck
<1>4. ASSUME NEW c \in Conns, AuthFails(c) \/ Undecipherable(c)
      PROVE  ChallengeInv'
  BY <1>4 DEF AuthFails, Undecipherable
<1>5. ASSUME NEW c \in Conns, AuthSucceeds(c) PROVE ChallengeInv'
  BY <1>5 DEF AuthSucceeds, Answers
<1>6. ASSUME NEW c \in Conns, Disconnect(c) PROVE ChallengeInv'
  BY <1>6 DEF Disconnect
<1>7. ASSUME NEW c \in Conns, NEW s \in Senders, ServeConnect(c, s)
      PROVE  ChallengeInv'
  BY <1>7 DEF ServeConnect
<1>8. ASSUME NEW s \in Senders, SenderChecks(s) \/ SenderSends(s)
      PROVE  ChallengeInv'
  BY <1>8 DEF SenderChecks, SenderSends
<1>9. CASE Stop
  BY <1>9 DEF Stop
<1>10. CASE Restart
  BY <1>10 DEF Restart
<1>11. CASE UNCHANGED vars
  BY <1>11 DEF vars
<1> QED
  BY <1>1, <1>2, <1>3, <1>4, <1>5, <1>6, <1>7, <1>8, <1>9, <1>10, <1>11,
     NextIsStepCases DEF StepCases

\* Each challenge authenticates at most one connection
\* (FrontendSessionProps!ChallengeProvesOne; backend.go:513-547).
THEOREM ChallengeProvesOneCorrect == Spec => []ChallengeProvesOne
<1>1. Init => ChallengeInv
  BY DEF Init, ChallengeInv, SentOnce, ProvedWasRead
<1>2. TypeOK /\ ChallengeInv => ChallengeProvesOne
  BY NoneAssumption DEF TypeOK, ChallengeInv, SentOnce, ProvedWasRead, ChallengeProvesOne
<1> QED
  BY <1>1, <1>2, ChallengeStep, TypeCorrect, PTL DEF Spec

-----------------------------------------------------------------------------
\* A handler that serves alone owns the shared record
\* (FrontendSessionProps!ServedOwnsRecord; backend.go:499-621).
THEOREM ServedOwnsRecordCorrect == Spec => []ServedOwnsRecord
<1>1. SessionInv => ServedOwnsRecord
  BY DEF SessionInv, SoleOwner, ServedOwnsRecord, Live, Serving
<1> QED
  BY <1>1, SessionCorrect, PTL

\* Connected is set only while a handler is past its greeting or one left
\* without cleaning up, Trusted only while a handler serves or one was abandoned
\* by the return at backend.go:607 (FrontendSessionProps!FlagsAreExplained).
THEOREM FlagsAreExplainedCorrect == Spec => []FlagsAreExplained
<1>1. SessionInv => FlagsAreExplained
  BY DEF SessionInv, FlagsAreExplained
<1> QED
  BY <1>1, SessionCorrect, PTL

\* A handler's own write panics only after a second greeting met a live
\* handler (FrontendSessionProps!HandlerPanicNeedsOverlap).
THEOREM HandlerPanicNeedsOverlapCorrect == Spec => []HandlerPanicNeedsOverlap
<1>1. SessionInv => HandlerPanicNeedsOverlap
  BY DEF SessionInv
<1> QED
  BY <1>1, SessionCorrect, PTL

\* A session that is served alone is not taken away by any other goroutine
\* (FrontendSessionProps!SessionIsStable; backend.go:582-621): after a step
\* that keeps it alone, the invariant speaks of the same handler again.
THEOREM SessionIsStableCorrect == Spec => SessionIsStable
<1> DEFINE Kept(c) ==
      \/ connection' = c /\ trusted' /\ connected' /\ status' # "handlerPanic"
      \/ pc'[c] = "done"
    Stable ==
      \A c \in Conns : Serving(c) /\ ~overlapped /\ ~overlapped' => Kept(c)
<1>1. ASSUME TypeOK, SessionInv, SessionInv', [Next]_vars PROVE [Stable]_vars
  <2>1. ASSUME NEW c \in Conns, Serving(c), ~overlapped, ~overlapped'
        PROVE  Kept(c)
    <3>1. pc'[c] = "serve" \/ pc'[c] = "done"
      <4> USE <1>1, <2>1 DEF Serving, TypeOK, At, Goto, Leave, procVars, recordVars,
                       peerVars, history
      <4>1. ASSUME NEW d \in Conns,
                   \/ Accept(d) \/ RejectHello(d) \/ PeerCloses(d)
                   \/ HandlerPanics(d) \/ SendAck(d) \/ AuthFails(d)
            PROVE  pc'[c] \in {"serve", "done"}
        BY <4>1 DEF Accept, RejectHello, PeerCloses, HandlerPanics, SendAck, AuthFails
      <4>2. ASSUME NEW d \in Conns,
                   AuthSucceeds(d) \/ Undecipherable(d) \/ Disconnect(d)
            PROVE  pc'[c] \in {"serve", "done"}
        BY <4>2 DEF AuthSucceeds, Undecipherable, Disconnect
      <4>3. ASSUME NEW d \in Conns, NEW enc \in BOOLEAN,
                   Greet(d, enc) \/ GreetWithoutKey(d, enc)
            PROVE  pc'[c] \in {"serve", "done"}
        BY <4>3 DEF Greet, GreetWithoutKey, TakeOver
      <4>4. ASSUME NEW d \in Conns, NEW s \in Senders, ServeConnect(d, s)
            PROVE  pc'[c] \in {"serve", "done"}
        BY <4>4 DEF ServeConnect
      <4>5. ASSUME NEW s \in Senders, SenderChecks(s) \/ SenderSends(s)
            PROVE  pc'[c] \in {"serve", "done"}
        BY <4>5 DEF SenderChecks, SenderSends
      <4>6. CASE Stop \/ Restart \/ UNCHANGED vars
        BY <4>6 DEF Stop, Restart, vars
      <4> QED
        BY <1>1, <4>1, <4>2, <4>3, <4>4, <4>5, <4>6, NextIsStepCases DEF StepCases
    <3>2. CASE pc'[c] = "serve"
      BY <1>1, <2>1, <3>2
      DEF SessionInv, SoleOwner, HandlerPanicNeedsOverlap, Live, Serving
    <3> QED
      BY <3>1, <3>2
  <2> QED
    BY <2>1
<1>2. TypeOK /\ SessionInv /\ SessionInv' /\ [Next]_vars => [Stable]_vars
  BY <1>1
<1> QED
  BY <1>2, SessionCorrect, TypeCorrect, PTL DEF Spec, SessionIsStable

-----------------------------------------------------------------------------
(* The proxy: what a direction holds.                                      *)

Chunks == Seq(1..MaxSent)

\* Chunks that were delivered, got, and those that wait behind them, out.
Arrival(n, g, o) ==
  /\ \A i \in 1..Len(g) : g[i] = i
  /\ \A i \in 1..Len(o) : o[i] = Len(g) + i
  /\ Len(g) + Len(o) <= n

LEMMA TailOf ==
  ASSUME NEW S, NEW s \in Seq(S), s # <<>>
  PROVE  /\ Head(s) = s[1] /\ Head(s) \in S /\ Tail(s) \in Seq(S)
         /\ Len(s) \in Nat \ {0} /\ Len(Tail(s)) = Len(s) - 1
         /\ \A i \in 1..(Len(s) - 1) : Tail(s)[i] = s[i + 1]
<1>1. Len(s) \in Nat /\ Len(s) # 0
  BY LenProperties, EmptySeq
<1> QED
  BY <1>1, HeadTailProperties

LEMMA FrontOf ==
  ASSUME NEW S, NEW s \in Seq(S), NEW m \in 0..Len(s)
  PROVE  /\ SubSeq(s, 1, m) \in Seq(S) /\ Len(SubSeq(s, 1, m)) = m
         /\ \A i \in 1..m : SubSeq(s, 1, m)[i] = s[i]
OBVIOUS

LEMMA AppendParts ==
  ASSUME NEW s \in Chunks, NEW e \in 1..MaxSent
  PROVE  /\ Append(s, e) \in Chunks /\ Len(s) \in Nat /\ Len(Append(s, e)) = Len(s) + 1
         /\ Append(s, e)[Len(s) + 1] = e
         /\ \A i \in 1..Len(s) : Append(s, e)[i] = s[i]
BY AppendProperties, LenProperties DEF Chunks

LEMMA TailParts ==
  ASSUME NEW s \in Chunks, s # <<>>
  PROVE  /\ Head(s) = s[1] /\ Head(s) \in 1..MaxSent /\ Tail(s) \in Chunks
         /\ Len(s) \in Nat \ {0} /\ Len(Tail(s)) = Len(s) - 1
         /\ \A i \in 1..(Len(s) - 1) : Tail(s)[i] = s[i + 1]
BY TailOf, Zenon DEF Chunks

LEMMA FrontParts ==
  ASSUME NEW s \in Chunks, NEW m \in 0..Len(s)
  PROVE  /\ SubSeq(s, 1, m) \in Chunks /\ Len(SubSeq(s, 1, m)) = m
         /\ \A i \in 1..m : SubSeq(s, 1, m)[i] = s[i]
BY FrontOf, Zenon DEF Chunks

InHand(h) == IF h = 0 THEN 0 ELSE 1

\* Chunks that follow the first k: the one in hand, h, and those that wait, q.
\* They are all of the n that were sent, if the way behind is whole.
Following(n, k, h, q, whole) ==
  /\ h \in {0, k + 1}
  /\ \A i \in 1..Len(q) : q[i] = k + InHand(h) + i
  /\ k + InHand(h) + Len(q) <= n
  /\ whole => k + InHand(h) + Len(q) = n

LEMMA HeadIsRead ==
  ASSUME NEW n \in Nat, NEW k \in Nat, NEW q \in Chunks, q # <<>>, NEW whole \in BOOLEAN,
         Following(n, k, 0, q, whole)
  PROVE  Following(n, k, Head(q), Tail(q), whole) /\ Head(q) = k + 1 /\ Head(q) \in 1..MaxSent
         /\ Tail(q) \in Chunks
<1>1. PICK m \in Nat : m = Len(q) /\ m > 0
  BY DEF Chunks
<1>2. q[1] = k + 1 /\ \A i \in 1..m : q[i] = k + i
  BY <1>1 DEF Following, InHand
<1>3. PICK r \in Chunks : r = Tail(q) /\ Len(r) = m - 1 /\ \A i \in 1..(m - 1) : r[i] = q[i + 1]
  BY <1>1, TailParts
<1>4. Head(q) = q[1] /\ Head(q) \in 1..MaxSent
  BY TailParts
<1>5. \A i \in 1..Len(r) : r[i] = k + 1 + i
  BY <1>1, <1>2, <1>3
<1>6. k + 1 # 0
  OBVIOUS
<1> QED
  BY <1>1, <1>2, <1>3, <1>4, <1>5, <1>6 DEF Following, InHand

LEMMA LineIsWritten ==
  ASSUME NEW n \in Nat, NEW g \in Chunks, NEW o \in Chunks, NEW h \in 1..MaxSent, NEW q \in Chunks,
         NEW whole \in BOOLEAN, Arrival(n, g, o), Following(n, Len(g) + Len(o), h, q, whole)
  PROVE  /\ Append(o, h) \in Chunks
         /\ Arrival(n, g, Append(o, h))
         /\ Following(n, Len(g) + Len(Append(o, h)), 0, q, whole)
<1>1. PICK a \in Nat, b \in Nat, c \in Nat : a = Len(g) /\ b = Len(o) /\ c = Len(q)
  BY DEF Chunks
<1>2. PICK r \in Chunks : /\ r = Append(o, h) /\ Len(r) = b + 1 /\ r[b + 1] = h
                          /\ \A i \in 1..b : r[i] = o[i]
  BY <1>1, AppendParts
<1>3. h = a + b + 1
  BY <1>1 DEF Following
<1>4. \A i \in 1..(b + 1) : r[i] = a + i
  <2>1. \A i \in 1..b : o[i] = a + i
    BY <1>1 DEF Arrival
  <2>2. r[b + 1] = a + (b + 1)
    BY <1>2, <1>3
  <2>3. \A i \in 1..(b + 1) : i \in 1..b \/ i = b + 1
    OBVIOUS
  <2> QED
    BY <1>2, <2>1, <2>2, <2>3
<1>5. a + (b + 1) + c <= n /\ (whole => a + (b + 1) + c = n) /\ a + (b + 1) <= n
  <2>1. h # 0
    OBVIOUS
  <2>2. a + b + 1 + c <= n /\ (whole => a + b + 1 + c = n)
    BY <1>1, <2>1 DEF Following, InHand
  <2> QED
    BY <2>2
<1>6. \A i \in 1..c : q[i] = a + (b + 1) + i
  <2>1. h # 0
    OBVIOUS
  <2>2. \A i \in 1..c : q[i] = a + b + 1 + i
    BY <1>1, <2>1 DEF Following, InHand
  <2> QED
    BY <2>2
<1>7. Arrival(n, g, r)
  BY <1>1, <1>2, <1>4, <1>5 DEF Arrival
<1>8. Following(n, a + (b + 1), 0, q, whole)
  BY <1>1, <1>5, <1>6 DEF Following, InHand
<1> QED
  BY <1>1, <1>2, <1>7, <1>8

LEMMA ChunkIsSent ==
  ASSUME NEW n \in Nat, n < MaxSent, NEW k \in Nat, NEW h \in Nat, NEW q \in Chunks,
         Following(n, k, h, q, TRUE)
  PROVE  Append(q, n + 1) \in Chunks /\ Following(n + 1, k, h, Append(q, n + 1), TRUE)
<1>1. PICK c \in Nat, j \in Nat : c = Len(q) /\ j = InHand(h)
  BY DEF Chunks, InHand
<1>2. n + 1 \in 1..MaxSent
  BY WindowAssumption
<1>3. PICK r \in Chunks : /\ r = Append(q, n + 1) /\ Len(r) = c + 1 /\ r[c + 1] = n + 1
                          /\ \A i \in 1..c : r[i] = q[i]
  BY <1>1, <1>2, AppendParts
<1>4. k + j + c = n /\ h \in {0, k + 1} /\ \A i \in 1..c : q[i] = k + j + i
  BY <1>1, Zenon DEF Following
<1>5. \A i \in 1..(c + 1) : r[i] = k + j + i
  <2>1. \A i \in 1..(c + 1) : i \in 1..c \/ i = c + 1
    OBVIOUS
  <2>2. r[c + 1] = k + j + (c + 1)
    BY <1>3, <1>4
  <2> QED
    BY <1>3, <1>4, <2>1, <2>2
<1>6. k + j + (c + 1) = n + 1
  BY <1>4
<1>7. Following(n + 1, k, h, r, TRUE)
  <2>1. \A i \in 1..Len(r) : r[i] = k + InHand(h) + i
    BY <1>1, <1>3, <1>5
  <2>2. k + InHand(h) + Len(r) = n + 1
    BY <1>1, <1>3, <1>6
  <2>3. n + 1 <= n + 1
    OBVIOUS
  <2> QED
    BY <1>4, <2>1, <2>2, <2>3, Zenon DEF Following
<1> QED
  BY <1>3, <1>7

LEMMA MoreSent ==
  ASSUME NEW n \in Nat, NEW k \in Nat, NEW g \in Chunks, NEW o \in Chunks, NEW h \in Nat,
         NEW q \in Chunks, NEW whole
  PROVE  /\ Arrival(n, g, o) => Arrival(n + 1, g, o)
         /\ Following(n, k, h, q, whole) => Following(n + 1, k, h, q, FALSE)
<1>1. Len(g) \in Nat /\ Len(o) \in Nat /\ Len(q) \in Nat /\ InHand(h) \in Nat
  BY DEF Chunks, InHand
<1> QED
  BY <1>1 DEF Arrival, Following

LEMMA HeadIsReceived ==
  ASSUME NEW n \in Nat, NEW g \in Chunks, NEW o \in Chunks, o # <<>>, Arrival(n, g, o)
  PROVE  /\ Append(g, Head(o)) \in Chunks /\ Tail(o) \in Chunks
         /\ Arrival(n, Append(g, Head(o)), Tail(o))
         /\ Len(Append(g, Head(o))) + Len(Tail(o)) = Len(g) + Len(o)
         /\ Head(o) = Len(g) + 1 /\ Len(g) + 1 <= n
<1>1. PICK a \in Nat, b \in Nat : a = Len(g) /\ b = Len(o) /\ b > 0
  BY DEF Chunks
<1>2. Head(o) = o[1] /\ o[1] = a + 1 /\ Head(o) \in 1..MaxSent
  <2>1. o[1] = a + 1
    BY <1>1 DEF Arrival
  <2> QED
    BY <2>1, TailParts
<1> DEFINE u == Append(g, Head(o))
<1>3. /\ u \in Chunks /\ Len(u) = a + 1 /\ u[a + 1] = a + 1
      /\ \A i \in 1..a : u[i] = g[i]
  <2>1. PICK e \in 1..MaxSent : e = Head(o) /\ e = a + 1
    BY <1>2
  <2> QED
    BY <1>1, <2>1, AppendParts
<1> HIDE DEF u
<1>4. PICK r \in Chunks : r = Tail(o) /\ Len(r) = b - 1 /\ \A i \in 1..(b - 1) : r[i] = o[i + 1]
  BY <1>1, TailParts
<1>5. \A i \in 1..(a + 1) : u[i] = i
  BY <1>1, <1>3 DEF Arrival
<1>6. \A i \in 1..(b - 1) : r[i] = (a + 1) + i
  BY <1>1, <1>4 DEF Arrival
<1>7. a + b <= n /\ (a + 1) + (b - 1) = a + b /\ a + 1 <= n
  BY <1>1 DEF Arrival
<1> QED
  BY <1>1, <1>2, <1>3, <1>4, <1>5, <1>6, <1>7 DEF Arrival, u

LEMMA EndIsCutOff ==
  ASSUME NEW n \in Nat, NEW g \in Chunks, NEW o \in Chunks, NEW m \in 0..Len(o), Arrival(n, g, o)
  PROVE  /\ SubSeq(o, 1, m) \in Chunks /\ Arrival(n, g, SubSeq(o, 1, m))
         /\ m = Len(o) => SubSeq(o, 1, m) = o
<1>1. PICK a \in Nat, b \in Nat : a = Len(g) /\ b = Len(o)
  BY DEF Chunks
<1>2. PICK r \in Chunks : r = SubSeq(o, 1, m) /\ Len(r) = m /\ \A i \in 1..m : r[i] = o[i]
  BY <1>1, FrontParts
<1>3. \A i \in 1..m : r[i] = a + i
  BY <1>1, <1>2 DEF Arrival
<1>4. a + m <= n
  BY <1>1 DEF Arrival
<1>5. m = b => r = o
  BY <1>1, <1>2, SeqEqual DEF Chunks
<1> QED
  BY <1>1, <1>2, <1>3, <1>4, <1>5 DEF Arrival

LEMMA NothingFollows ==
  ASSUME NEW n \in Nat, NEW g \in Chunks, NEW k \in Nat, NEW h \in Nat, NEW q \in Chunks, NEW whole
  PROVE  /\ <<>> \in Chunks
         /\ Following(n, k, h, q, whole) => Following(n, k, h, <<>>, FALSE)
<1>1. <<>> \in Chunks /\ Len(<<>>) = 0 /\ Len(q) \in Nat /\ InHand(h) \in Nat
  BY DEF Chunks, InHand
<1> QED
  BY <1>1 DEF Following

-----------------------------------------------------------------------------
(* The proxy: each direction is still a connection.                        *)

\* Chunks that have left the proxy.
Past(e) == Len(got[Other(e)]) + Len(outq[Other(e)])

\* There is a way to end t, and the way from end e is whole.
WayTo(t) == peer[t] = "open" /\ (open[t] \/ main = "dialing")
Whole(e) == open[e] /\ peer[e] # "reset"

Carried(e) ==
  /\ Arrival(sent[e], got[Other(e)], outq[Other(e)])
  /\ WayTo(Other(e)) => Following(sent[e], Past(e), held[e], inq[e], Whole(e))

\* A chunk is in hand while it is written, and nothing runs before the dialing ends.
Paced ==
  /\ \A e \in Ends : held[e] # 0 <=> copying[e] = "writing"
  /\ main = "dialing" =>
       signals = 0 /\ sent["backend"] = 0 /\ \A e \in Ends : copying[e] = "none"

CarryInv == ProxyTypeOK /\ Paced /\ \A e \in Ends : Carried(e)

LEMMA BothEnds ==
  /\ \A e \in Ends : Other(e) \in Ends /\ Other(e) # e /\ Other(Other(e)) = e
  /\ \A e, x \in Ends : x = e \/ x = Other(e)
BY DEF Ends, Other

LEMMA PartsOf ==
  ASSUME ProxyTypeOK, NEW e \in Ends
  PROVE  /\ held[e] \in 0..MaxSent /\ held[e] \in Nat
         /\ inq[e] \in Chunks /\ outq[e] \in Chunks /\ got[e] \in Chunks
         /\ sent[e] \in 0..MaxSent /\ sent[e] \in Nat /\ Past(e) \in Nat
         /\ open[e] \in BOOLEAN /\ Whole(e) \in BOOLEAN
<1>1. /\ held[e] \in 0..MaxSent /\ held[e] \in Nat /\ inq[e] \in Chunks
      /\ \A x \in Ends : outq[x] \in Chunks /\ got[x] \in Chunks
      /\ sent[e] \in 0..MaxSent /\ sent[e] \in Nat /\ open[e] \in BOOLEAN
  BY WindowAssumption DEF ProxyTypeOK, Chunks
<1>2. Len(got[Other(e)]) \in Nat /\ Len(outq[Other(e)]) \in Nat
  BY <1>1, BothEnds DEF Chunks
<1>3. Past(e) \in Nat
  <2>1. PICK a \in Nat, b \in Nat : a = Len(got[Other(e)]) /\ b = Len(outq[Other(e)])
    BY <1>2
  <2>2. a + b \in Nat
    OBVIOUS
  <2> QED
    BY <2>1, <2>2, Zenon DEF Past
<1>4. Whole(e) \in BOOLEAN
  BY DEF Whole
<1> QED
  BY <1>1, <1>3, <1>4

\* A direction whose last part is as it was, and of which chunks may have been
\* lost on the way to the proxy.
LEMMA SameWay ==
  ASSUME CarryInv, NEW x \in Ends, sent'[x] = sent[x],
         got'[Other(x)] = got[Other(x)], outq'[Other(x)] = outq[Other(x)],
         WayTo(Other(x))' => WayTo(Other(x)) /\ held'[x] = held[x],
         \/ inq'[x] = inq[x] /\ (Whole(x)' => Whole(x))
         \/ inq'[x] = <<>> /\ ~Whole(x)'
  PROVE  Carried(x)'
<1>1. Carried(x) /\ ProxyTypeOK
  BY DEF CarryInv
<1>2. Past(x)' = Past(x)
  BY DEF Past
<1>3. Arrival(sent[x], got[Other(x)], outq[Other(x)])'
  BY <1>1 DEF Carried
<1>4. ASSUME WayTo(Other(x))'
      PROVE  Following(sent[x], Past(x), held[x], inq[x], Whole(x))'
  <2>1. Following(sent[x], Past(x), held[x], inq[x], Whole(x)) /\ held'[x] = held[x]
    BY <1>1, <1>4 DEF Carried
  <2>2. CASE inq'[x] = inq[x] /\ (Whole(x)' => Whole(x))
    BY <1>2, <2>1, <2>2 DEF Following
  <2>3. CASE inq'[x] = <<>> /\ ~Whole(x)'
    <3>1. Following(sent[x], Past(x), held[x], <<>>, FALSE)
      BY <1>1, <2>1, PartsOf, NothingFollows
    <3> QED
      BY <1>2, <2>1, <2>3, <3>1 DEF Following
  <2> QED
    BY <2>2, <2>3
<1> QED
  BY <1>3, <1>4 DEF Carried

LEMMA DialCarries ==
  ASSUME CarryInv, Dial
  PROVE  CarryInv'
<1>1. ProxyTypeOK /\ main = "dialing" /\ \A e \in Ends : copying[e] = "none" /\ held[e] = 0
  BY DEF CarryInv, Dial, Paced
<1>2. /\ main' = "waiting" /\ open' = [open EXCEPT !["backend"] = TRUE]
      /\ copying' = [e \in Ends |-> "reading"]
      /\ UNCHANGED <<held, signals, down, inq, outq, peer, sent, got, clean>>
  BY DEF Dial, endVars
<1>3. ProxyTypeOK'
  BY <1>1, <1>2 DEF ProxyTypeOK, Ends
<1>4. Paced'
  BY <1>1, <1>2 DEF Paced
<1>5. ASSUME NEW x \in Ends PROVE Carried(x)'
  <2>1. WayTo(Other(x))' => WayTo(Other(x))
    BY <1>1, <1>2 DEF WayTo
  <2>2. CASE x = "client"
    <3>1. Whole(x)' = Whole(x)
      BY <1>1, <1>2, <2>2 DEF Whole, ProxyTypeOK
    <3> QED
      BY <1>2, <2>1, <3>1, SameWay
  <2>3. CASE x = "backend"
    <3>1. Carried(x) /\ sent[x] = 0 /\ held[x] = 0
      BY <1>1, <2>3 DEF CarryInv, Paced
    <3>2. PICK k \in Nat, c \in Nat : k = Past(x) /\ c = Len(inq[x])
      BY <1>1, PartsOf DEF Chunks
    <3>3. ASSUME WayTo(Other(x))' PROVE Following(0, k, 0, inq[x], Whole(x)')
      <4>1. Following(0, k, 0, inq[x], Whole(x))
        BY <2>1, <3>1, <3>2, <3>3 DEF Carried
      <4>2. k + 0 + c <= 0
        BY <3>2, <4>1 DEF Following, InHand
      <4>3. k + 0 + c = 0
        BY <4>2
      <4> QED
        BY <3>2, <4>1, <4>3 DEF Following, InHand
    <3>4. Past(x)' = k
      BY <1>2, <3>2 DEF Past
    <3> QED
      BY <1>2, <3>1, <3>3, <3>4 DEF Carried
  <2> QED
    BY <2>2, <2>3 DEF Ends
<1> QED
  BY <1>3, <1>4, <1>5 DEF CarryInv

\* Steps that move no chunk, and leave the way as it is or cut it.
LEMMA StillCarries ==
  ASSUME CarryInv, ProxyTypeOK', Paced', UNCHANGED <<sent, got, outq>>,
         \A x \in Ends :
           /\ WayTo(Other(x))' => WayTo(Other(x)) /\ held'[x] = held[x]
           /\ \/ inq'[x] = inq[x] /\ (Whole(x)' => Whole(x))
              \/ inq'[x] = <<>> /\ ~Whole(x)'
  PROVE  CarryInv'
<1>1. ASSUME NEW x \in Ends PROVE Carried(x)'
  BY SameWay
<1> QED
  BY <1>1 DEF CarryInv

LEMMA MainCarries ==
  ASSUME CarryInv, DialFails \/ StopWaiting \/ AcceptFails
  PROVE  CarryInv'
<1>1. ProxyTypeOK /\ Paced
  BY DEF CarryInv
<1>2. CASE DialFails
  <2>1. UNCHANGED <<open, copying, held, signals, down, inq, outq, peer, sent, got, clean>>
        /\ main' = "closingClient"
    BY <1>2 DEF DialFails, endVars
  <2>2. ProxyTypeOK' /\ Paced'
    BY <1>1, <2>1 DEF ProxyTypeOK, Paced
  <2>3. \A x \in Ends : (WayTo(Other(x))' => WayTo(Other(x))) /\ Whole(x)' = Whole(x)
    BY <2>1 DEF WayTo, Whole
  <2> QED
    BY <2>1, <2>2, <2>3, StillCarries
<1>3. CASE StopWaiting
  <2>1. UNCHANGED <<open, copying, held, down, inq, outq, peer, sent, got, clean>>
        /\ main = "waiting" /\ main' = "closing" /\ signals > 0 /\ signals' = signals - 1
    BY <1>3 DEF StopWaiting, endVars
  <2>2. ProxyTypeOK' /\ Paced'
    BY <1>1, <2>1 DEF ProxyTypeOK, Paced
  <2>3. \A x \in Ends : (WayTo(Other(x))' => WayTo(Other(x))) /\ Whole(x)' = Whole(x)
    BY <2>1 DEF WayTo, Whole
  <2> QED
    BY <2>1, <2>2, <2>3, StillCarries
<1>4. CASE AcceptFails
  <2>1. UNCHANGED <<main, copying, held, signals, outq, peer, sent, got, clean>>
        /\ down' = TRUE /\ open' = [e \in Ends |-> FALSE] /\ inq' = [e \in Ends |-> <<>>]
    BY <1>4 DEF AcceptFails, endVars
  <2>2. ProxyTypeOK' /\ Paced'
    BY <1>1, <2>1 DEF ProxyTypeOK, Paced
  <2>3. \A x \in Ends : (WayTo(Other(x))' => WayTo(Other(x))) /\ ~Whole(x)' /\ inq'[x] = <<>>
    BY <2>1, BothEnds DEF WayTo, Whole
  <2> QED
    BY <2>1, <2>2, <2>3, StillCarries
<1> QED
  BY <1>2, <1>3, <1>4

\* A socket is closed: what is cut off was last on its way.
LEMMA CloseCarries ==
  ASSUME CarryInv, NEW e \in Ends, CloseSocket(e), main \notin {"dialing", "waiting"},
         main' \in {"closingClient", "ended"},
         UNCHANGED <<copying, held, signals, down, peer, sent, got, clean>>
  PROVE  CarryInv'
<1>1. ProxyTypeOK /\ Paced
  BY DEF CarryInv
<1>2. PICK n \in 0..Len(outq[e]) : outq' = [outq EXCEPT ![e] = SubSeq(outq[e], 1, n)]
  BY DEF CloseSocket
<1>3. open' = [open EXCEPT ![e] = FALSE] /\ inq' = [inq EXCEPT ![e] = <<>>]
  BY DEF CloseSocket
<1>4. PICK t \in Ends : t = Other(e) /\ t # e /\ Other(t) = e
  BY BothEnds
<1>5. Arrival(sent[t], got[e], outq[e]) /\ Carried(e)
  BY <1>4 DEF CarryInv, Carried
<1>6. /\ SubSeq(outq[e], 1, n) \in Chunks
      /\ Arrival(sent[t], got[e], SubSeq(outq[e], 1, n))
  BY <1>1, <1>5, PartsOf, EndIsCutOff
<1>7. /\ outq'[e] = SubSeq(outq[e], 1, n) /\ outq'[t] = outq[t]
      /\ inq'[e] = <<>> /\ ~open'[e] /\ open'[t] = open[t]
  BY <1>1, <1>2, <1>3, <1>4 DEF ProxyTypeOK
<1>8. ProxyTypeOK'
  <2>1. outq' \in [Ends -> Chunks]
    BY <1>1, <1>2, <1>6 DEF ProxyTypeOK, Chunks
  <2>2. inq' \in [Ends -> Chunks]
    BY <1>1, <1>3 DEF ProxyTypeOK, Chunks
  <2>3. open' \in [Ends -> BOOLEAN]
    BY <1>1, <1>3 DEF ProxyTypeOK
  <2> QED
    BY <1>1, <2>1, <2>2, <2>3 DEF ProxyTypeOK, Chunks
<1>9. Paced'
  BY <1>1 DEF Paced
<1>10. Carried(t)'
  <2>1. ~WayTo(e)'
    BY <1>7 DEF WayTo
  <2> QED
    BY <1>4, <1>6, <1>7, <2>1 DEF Carried
<1>11. Carried(e)'
  <2>1. WayTo(t)' => WayTo(t)
    BY <1>7 DEF WayTo
  <2>2. ~Whole(e)'
    BY <1>7 DEF Whole
  <2> QED
    BY <1>4, <1>7, <2>1, <2>2, SameWay
<1> QED
  BY <1>4, <1>8, <1>9, <1>10, <1>11, BothEnds DEF CarryInv

LEMMA ReadCarries ==
  ASSUME CarryInv, NEW e \in Ends, ReadChunk(e)
  PROVE  CarryInv'
<1>1. ProxyTypeOK /\ Paced
  BY DEF CarryInv
<1>2. /\ copying[e] = "reading" /\ inq[e] # <<>>
      /\ held' = [held EXCEPT ![e] = Head(inq[e])] /\ inq' = [inq EXCEPT ![e] = Tail(inq[e])]
      /\ copying' = [copying EXCEPT ![e] = "writing"]
      /\ UNCHANGED <<main, open, signals, down, outq, peer, sent, got, clean>>
  BY DEF ReadChunk, CopyAt, CopyGoto, endVars
<1>3. Head(inq[e]) \in 1..MaxSent /\ Tail(inq[e]) \in Chunks
  BY <1>1, <1>2, PartsOf, TailParts
<1>4. /\ held'[e] = Head(inq[e]) /\ inq'[e] = Tail(inq[e])
      /\ \A x \in Ends : x # e => held'[x] = held[x] /\ inq'[x] = inq[x]
  BY <1>1, <1>2 DEF ProxyTypeOK
<1>5. ProxyTypeOK'
  <2>1. held' \in [Ends -> 0..MaxSent] /\ inq' \in [Ends -> Chunks]
    BY <1>1, <1>2, <1>3 DEF ProxyTypeOK, Chunks
  <2>2. copying' \in [Ends -> {"none", "reading", "writing", "signalling", "done"}]
    BY <1>1, <1>2 DEF ProxyTypeOK
  <2> QED
    BY <1>1, <1>2, <2>1, <2>2 DEF ProxyTypeOK, Chunks
<1>6. Paced'
  <2>1. copying'[e] = "writing" /\ \A x \in Ends : x # e => copying'[x] = copying[x]
    BY <1>1, <1>2 DEF ProxyTypeOK
  <2>2. held'[e] # 0 /\ main # "dialing"
    BY <1>1, <1>2, <1>3, <1>4 DEF Paced
  <2> QED
    BY <1>1, <1>2, <1>4, <2>1, <2>2 DEF Paced
<1>7. Carried(e)'
  <2>1. Carried(e) /\ held[e] = 0
    BY <1>1, <1>2 DEF CarryInv, Paced
  <2>2. PICK n \in Nat, k \in Nat, w \in BOOLEAN, q \in Chunks :
          n = sent[e] /\ k = Past(e) /\ w = Whole(e) /\ q = inq[e]
    BY <1>1, PartsOf
  <2>3. Past(e)' = k /\ Whole(e)' = w /\ sent'[e] = n
    BY <1>2, <2>2 DEF Past, Whole
  <2>4. ASSUME WayTo(Other(e))' PROVE Following(n, k, Head(q), Tail(q), w)
    <3>1. Following(n, k, 0, q, w)
      BY <1>2, <2>1, <2>2, <2>4 DEF Carried, WayTo
    <3> QED
      BY <1>2, <2>2, <3>1, HeadIsRead
  <2> QED
    BY <1>2, <1>4, <2>1, <2>2, <2>3, <2>4 DEF Carried
<1>8. ASSUME NEW x \in Ends, x # e PROVE Carried(x)'
  <2>1. (WayTo(Other(x))' => WayTo(Other(x))) /\ Whole(x)' = Whole(x)
    BY <1>2 DEF WayTo, Whole
  <2> QED
    BY <1>2, <1>4, <1>8, <2>1, SameWay
<1> QED
  BY <1>5, <1>6, <1>7, <1>8 DEF CarryInv

LEMMA WriteCarries ==
  ASSUME CarryInv, NEW e \in Ends, WriteChunk(e)
  PROVE  CarryInv'
<1>1. ProxyTypeOK /\ Paced
  BY DEF CarryInv
<1>2. PICK t \in Ends : t = Other(e) /\ t # e /\ Other(t) = e
  BY BothEnds
<1>3. /\ copying[e] = "writing" /\ open[t] /\ peer[t] = "open"
      /\ outq' = [outq EXCEPT ![t] = Append(outq[t], held[e])]
      /\ held' = [held EXCEPT ![e] = 0]
      /\ copying' = [copying EXCEPT ![e] = "reading"]
      /\ UNCHANGED <<main, open, signals, down, inq, peer, sent, got, clean>>
  BY <1>2 DEF WriteChunk, Written, CopyAt, CopyGoto, Release, endVars
<1>4. /\ held'[e] = 0 /\ held'[t] = held[t]
      /\ outq'[t] = Append(outq[t], held[e]) /\ outq'[e] = outq[e]
      /\ copying'[e] = "reading" /\ copying'[t] = copying[t]
  BY <1>1, <1>2, <1>3 DEF ProxyTypeOK
<1>5. PICK h \in 1..MaxSent : h = held[e]
  BY <1>1, <1>3, PartsOf DEF Paced
<1>6. PICK n \in Nat, g \in Chunks, o \in Chunks, q \in Chunks, w \in BOOLEAN :
        n = sent[e] /\ g = got[t] /\ o = outq[t] /\ q = inq[e] /\ w = Whole(e)
  BY <1>1, PartsOf
<1>7. Arrival(n, g, o) /\ Following(n, Len(g) + Len(o), h, q, w)
  <2>1. Carried(e)
    BY DEF CarryInv
  <2> QED
    BY <1>2, <1>3, <1>5, <1>6, <2>1 DEF Carried, Past, WayTo
<1>8. /\ Append(o, h) \in Chunks /\ Arrival(n, g, Append(o, h))
      /\ Following(n, Len(g) + Len(Append(o, h)), 0, q, w)
  BY <1>7, LineIsWritten
<1>9. ProxyTypeOK'
  <2>1. outq' \in [Ends -> Chunks]
    BY <1>1, <1>3, <1>5, <1>6, <1>8 DEF ProxyTypeOK, Chunks
  <2>2. held' \in [Ends -> 0..MaxSent]
        /\ copying' \in [Ends -> {"none", "reading", "writing", "signalling", "done"}]
    BY <1>1, <1>3, WindowAssumption DEF ProxyTypeOK
  <2> QED
    BY <1>1, <1>3, <2>1, <2>2 DEF ProxyTypeOK, Chunks
<1>10. Paced'
  BY <1>1, <1>2, <1>3, <1>4, BothEnds DEF Paced
<1>11. Carried(e)'
  <2>1. Whole(e)' = w /\ Past(e)' = Len(g) + Len(Append(o, h))
    BY <1>2, <1>3, <1>4, <1>5, <1>6 DEF Whole, Past
  <2> QED
    BY <1>2, <1>3, <1>4, <1>5, <1>6, <1>8, <2>1 DEF Carried
<1>12. Carried(t)'
  <2>1. (WayTo(e)' => WayTo(e)) /\ Whole(t)' = Whole(t)
    BY <1>3 DEF WayTo, Whole
  <2> QED
    BY <1>2, <1>3, <1>4, <2>1, SameWay
<1> QED
  BY <1>2, <1>9, <1>10, <1>11, <1>12, BothEnds DEF CarryInv

LEMMA CopyCarries ==
  ASSUME CarryInv, NEW e \in Ends, ReadEnds(e) \/ WriteFails(e) \/ Signal(e)
  PROVE  CarryInv'
<1>1. ProxyTypeOK /\ Paced
  BY DEF CarryInv
<1>2. /\ UNCHANGED <<main, open, down, inq, outq, peer, sent, got, clean>>
      /\ \A x \in Ends : (WayTo(x)' <=> WayTo(x)) /\ (Whole(x)' <=> Whole(x))
  BY DEF ReadEnds, WriteFails, Signal, endVars, WayTo, Whole
<1>3. main # "dialing"
  BY <1>1 DEF ReadEnds, WriteFails, Signal, CopyAt, Paced
<1>4. CASE ReadEnds(e) \/ Signal(e)
  <2>1. /\ copying[e] \in {"reading", "signalling"} /\ held' = held
        /\ copying' \in [Ends -> {"none", "reading", "writing", "signalling", "done"}]
        /\ copying'[e] \in {"signalling", "done"}
        /\ \A x \in Ends : x # e => copying'[x] = copying[x]
    BY <1>1, <1>4 DEF ReadEnds, Signal, CopyAt, CopyGoto, ProxyTypeOK
  <2>2. signals' \in 0..2
    BY <1>1, <1>4 DEF ReadEnds, Signal, MaySignal, ProxyTypeOK
  <2>3. ProxyTypeOK'
    BY <1>1, <1>2, <2>1, <2>2 DEF ProxyTypeOK
  <2>4. Paced'
    BY <1>1, <1>2, <1>3, <2>1 DEF Paced
  <2> QED
    BY <1>2, <2>1, <2>3, <2>4, BothEnds, StillCarries
<1>5. CASE WriteFails(e)
  <2>1. /\ copying[e] = "writing" /\ ~WayTo(Other(e)) /\ signals' = signals
        /\ held' = [held EXCEPT ![e] = 0] /\ copying' = [copying EXCEPT ![e] = "signalling"]
    BY <1>3, <1>5 DEF WriteFails, CopyAt, CopyGoto, Release, WayTo
  <2>2. /\ held'[e] = 0 /\ copying'[e] = "signalling"
        /\ \A x \in Ends : x # e => held'[x] = held[x] /\ copying'[x] = copying[x]
    BY <1>1, <2>1 DEF ProxyTypeOK
  <2>3. ProxyTypeOK'
    <3>1. held' \in [Ends -> 0..MaxSent]
          /\ copying' \in [Ends -> {"none", "reading", "writing", "signalling", "done"}]
      BY <1>1, <2>1, WindowAssumption DEF ProxyTypeOK
    <3> QED
      BY <1>1, <1>2, <2>1, <3>1 DEF ProxyTypeOK
  <2>4. Paced'
    BY <1>1, <1>2, <1>3, <2>2 DEF Paced
  <2> QED
    BY <1>2, <2>1, <2>2, <2>3, <2>4, BothEnds, StillCarries
<1> QED
  BY <1>4, <1>5

LEMMA LostCarries ==
  ASSUME CarryInv, NEW e \in Ends, WriteLost(e)
  PROVE  CarryInv'
<1>1. ProxyTypeOK /\ Paced
  BY DEF CarryInv
<1>2. PICK t \in Ends : t = Other(e) /\ t # e /\ Other(t) = e /\ \A x \in Ends : x = e \/ x = t
  BY BothEnds
<1>3. /\ copying[e] = "writing" /\ peer[t] = "closed"
      /\ peer' = [peer EXCEPT ![t] = "reset"] /\ inq' = [inq EXCEPT ![t] = <<>>]
      /\ held' = [held EXCEPT ![e] = 0] /\ copying' = [copying EXCEPT ![e] = "reading"]
      /\ UNCHANGED <<main, open, signals, down, outq, sent, got, clean>>
  BY <1>2 DEF WriteLost, CopyAt, CopyGoto, Release
<1>4. /\ held'[e] = 0 /\ held'[t] = held[t] /\ copying'[e] = "reading" /\ copying'[t] = copying[t]
      /\ inq'[t] = <<>> /\ inq'[e] = inq[e] /\ peer'[t] = "reset" /\ peer'[e] = peer[e]
  BY <1>1, <1>2, <1>3 DEF ProxyTypeOK
<1>5. ProxyTypeOK'
  <2>1. inq' \in [Ends -> Chunks]
    BY <1>1, <1>3 DEF ProxyTypeOK, Chunks
  <2>2. held' \in [Ends -> 0..MaxSent] /\ peer' \in [Ends -> {"open", "closed", "reset"}]
        /\ copying' \in [Ends -> {"none", "reading", "writing", "signalling", "done"}]
    BY <1>1, <1>3, WindowAssumption DEF ProxyTypeOK
  <2> QED
    BY <1>1, <1>3, <2>1, <2>2 DEF ProxyTypeOK, Chunks
<1>6. Paced'
  BY <1>1, <1>2, <1>3, <1>4 DEF Paced
<1>7. Carried(e)'
  <2>1. ~WayTo(Other(e))'
    BY <1>2, <1>4 DEF WayTo
  <2>2. (Whole(e)' <=> Whole(e)) /\ inq'[e] = inq[e]
    BY <1>3, <1>4 DEF Whole
  <2> QED
    BY <1>3, <2>1, <2>2, SameWay
<1>8. Carried(t)'
  <2>1. (WayTo(Other(t))' => WayTo(Other(t))) /\ held'[t] = held[t]
    BY <1>2, <1>3, <1>4 DEF WayTo
  <2>2. ~Whole(t)' /\ inq'[t] = <<>>
    BY <1>4 DEF Whole
  <2> QED
    BY <1>3, <2>1, <2>2, SameWay
<1> QED
  BY <1>2, <1>5, <1>6, <1>7, <1>8 DEF CarryInv

LEMMA SendCarries ==
  ASSUME CarryInv, NEW e \in Ends, Send(e)
  PROVE  CarryInv'
<1>1. ProxyTypeOK /\ Paced
  BY DEF CarryInv
<1>2. /\ peer[e] = "open" /\ (e = "backend" => main # "dialing") /\ sent[e] < MaxSent
      /\ sent' = [sent EXCEPT ![e] = sent[e] + 1]
      /\ inq' = IF open[e] THEN [inq EXCEPT ![e] = Append(inq[e], sent[e] + 1)] ELSE inq
      /\ clean' = clean \ {Other(e)}
      /\ UNCHANGED <<main, open, copying, held, signals, down, outq, peer, got>>
  BY DEF Send, Takes, goVars
<1>3. PICK n \in Nat, h \in Nat, q \in Chunks, g \in Chunks, o \in Chunks :
        n = sent[e] /\ h = held[e] /\ q = inq[e] /\ g = got[Other(e)] /\ o = outq[Other(e)]
  BY <1>1, PartsOf, BothEnds
<1>4. PICK k \in Nat : k = Past(e) /\ Past(e)' = k
  BY <1>1, <1>2, PartsOf DEF Past
<1>5. /\ sent'[e] = n + 1 /\ n < MaxSent /\ \A x \in Ends : x # e => sent'[x] = sent[x]
      /\ open[e] => inq'[e] = Append(q, n + 1) /\ \A x \in Ends : x # e => inq'[x] = inq[x]
      /\ ~open[e] => inq' = inq
  BY <1>1, <1>2, <1>3 DEF ProxyTypeOK
<1>6. Append(q, n + 1) \in Chunks
  <2>1. n + 1 \in 1..MaxSent
    BY <1>3, <1>5, WindowAssumption
  <2> QED
    BY <2>1, AppendParts
<1>7. ProxyTypeOK'
  <2>1. inq' \in [Ends -> Chunks]
    BY <1>1, <1>2, <1>3, <1>6 DEF ProxyTypeOK, Chunks
  <2>2. sent' \in [Ends -> 0..MaxSent]
    BY <1>1, <1>2, WindowAssumption DEF ProxyTypeOK
  <2>3. clean' \subseteq Ends
    BY <1>1, <1>2 DEF ProxyTypeOK
  <2> QED
    BY <1>1, <1>2, <2>1, <2>2, <2>3 DEF ProxyTypeOK, Chunks
<1>8. Paced'
  <2>1. main = "dialing" => sent'["backend"] = sent["backend"]
    BY <1>2, <1>5 DEF Ends
  <2> QED
    BY <1>1, <1>2, <2>1 DEF Paced
<1>9. Carried(e)'
  <2>1. Carried(e)
    BY DEF CarryInv
  <2>2. Arrival(n + 1, g, o)
    BY <1>3, <2>1, MoreSent DEF Carried
  <2>3. ASSUME WayTo(Other(e))'
        PROVE  Following(n + 1, k, h, inq'[e], Whole(e)')
    <3>1. Following(n, k, h, q, Whole(e))
      BY <1>2, <1>3, <1>4, <2>1, <2>3 DEF Carried, WayTo
    <3>2. open[e] \in BOOLEAN /\ (Whole(e)' <=> open[e]) /\ (Whole(e) <=> open[e])
      BY <1>1, <1>2, PartsOf DEF Whole
    <3>3. CASE open[e]
      <4>1. Following(n + 1, k, h, Append(q, n + 1), TRUE)
        BY <1>5, <3>1, <3>2, <3>3, ChunkIsSent DEF Following
      <4> QED
        BY <1>5, <3>2, <3>3, <4>1 DEF Following
    <3>4. CASE ~open[e]
      <4>1. Following(n + 1, k, h, q, FALSE)
        BY <1>3, <3>1, MoreSent
      <4> QED
        BY <1>3, <1>5, <3>2, <3>4, <4>1 DEF Following
    <3> QED
      BY <3>3, <3>4
  <2> QED
    BY <1>2, <1>3, <1>4, <1>5, <2>2, <2>3 DEF Carried
<1>10. ASSUME NEW x \in Ends, x # e PROVE Carried(x)'
  <2>1. (WayTo(Other(x))' => WayTo(Other(x))) /\ (Whole(x)' => Whole(x)) /\ inq'[x] = inq[x]
    BY <1>2, <1>5, <1>10 DEF WayTo, Whole
  <2> QED
    BY <1>2, <1>5, <1>10, <2>1, SameWay
<1> QED
  BY <1>7, <1>8, <1>9, <1>10 DEF CarryInv

LEMMA ReceiveCarries ==
  ASSUME CarryInv, NEW t \in Ends, Receive(t)
  PROVE  /\ CarryInv'
         /\ Head(outq[t]) = Len(got[t]) + 1 /\ Len(got[t]) + 1 <= sent[Other(t)]
<1>1. ProxyTypeOK /\ Paced
  BY DEF CarryInv
<1>2. PICK e \in Ends : e = Other(t) /\ t # e /\ Other(e) = t /\ \A x \in Ends : x = e \/ x = t
  BY BothEnds
<1>3. /\ outq[t] # <<>>
      /\ got' = [got EXCEPT ![t] = Append(got[t], Head(outq[t]))]
      /\ outq' = [outq EXCEPT ![t] = Tail(outq[t])]
      /\ UNCHANGED <<main, open, copying, held, signals, down, inq, peer, sent, clean>>
  BY DEF Receive, goVars
<1>4. /\ got'[t] = Append(got[t], Head(outq[t])) /\ outq'[t] = Tail(outq[t])
      /\ got'[e] = got[e] /\ outq'[e] = outq[e]
  BY <1>1, <1>2, <1>3 DEF ProxyTypeOK
<1>5. PICK n \in Nat, g \in Chunks, o \in Chunks : n = sent[e] /\ g = got[t] /\ o = outq[t]
  BY <1>1, <1>2, PartsOf
<1>6. Carried(e) /\ Arrival(n, g, o)
  BY <1>2, <1>5 DEF CarryInv, Carried
<1>7. /\ Append(g, Head(o)) \in Chunks /\ Tail(o) \in Chunks
      /\ Arrival(n, Append(g, Head(o)), Tail(o))
      /\ Len(Append(g, Head(o))) + Len(Tail(o)) = Len(g) + Len(o)
      /\ Head(o) = Len(g) + 1 /\ Len(g) + 1 <= n
  <2>1. o # <<>>
    BY <1>3, <1>5
  <2> QED
    BY <1>6, <2>1, HeadIsReceived, Zenon
<1>8. ProxyTypeOK'
  <2>1. got' \in [Ends -> Chunks]
    BY <1>1, <1>3, <1>5, <1>7 DEF ProxyTypeOK, Chunks
  <2>2. outq' \in [Ends -> Chunks]
    BY <1>1, <1>3, <1>5, <1>7 DEF ProxyTypeOK, Chunks
  <2> QED
    BY <1>1, <1>3, <2>1, <2>2 DEF ProxyTypeOK, Chunks
<1>9. Paced'
  BY <1>1, <1>3 DEF Paced
<1>10. Carried(e)'
  <2>1. Past(e)' = Past(e)
    BY <1>2, <1>4, <1>5, <1>7 DEF Past
  <2>2. WayTo(t)' = WayTo(t) /\ Whole(e)' = Whole(e)
    BY <1>3 DEF WayTo, Whole
  <2>3. WayTo(t) => Following(sent[e], Past(e), held[e], inq[e], Whole(e))
    BY <1>2, <1>6 DEF Carried
  <2> QED
    BY <1>2, <1>3, <1>4, <1>5, <1>7, <2>1, <2>2, <2>3 DEF Carried
<1>11. Carried(t)'
  <2>1. (WayTo(Other(t))' => WayTo(Other(t))) /\ (Whole(t)' => Whole(t))
    BY <1>3 DEF WayTo, Whole
  <2> QED
    BY <1>2, <1>3, <1>4, <2>1, SameWay
<1>12. CarryInv'
  BY <1>2, <1>8, <1>9, <1>10, <1>11 DEF CarryInv
<1> QED
  BY <1>2, <1>5, <1>7, <1>12

LEMMA EndCarries ==
  ASSUME CarryInv, NEW e \in Ends, Close(e) \/ Reset(e)
  PROVE  CarryInv'
<1>1. ProxyTypeOK /\ Paced
  BY DEF CarryInv
<1>2. PICK t \in Ends : t = Other(e) /\ t # e /\ Other(t) = e /\ \A x \in Ends : x = e \/ x = t
  BY BothEnds
<1>3. peer[e] = "open" /\ UNCHANGED <<main, open, copying, held, signals, down, sent, got>>
  BY DEF Close, Reset, Takes, goVars
<1>4. CASE Close(e)
  <2>1. /\ peer' = [peer EXCEPT ![e] = "closed"] /\ UNCHANGED <<inq, outq>>
        /\ clean' \in {clean, clean \cup {e}}
    BY <1>4 DEF Close
  <2>2. ProxyTypeOK'
    BY <1>1, <1>3, <2>1 DEF ProxyTypeOK
  <2>3. Paced'
    BY <1>1, <1>3 DEF Paced
  <2>4. ASSUME NEW x \in Ends
        PROVE  (WayTo(x)' => WayTo(x)) /\ (Whole(x)' => Whole(x))
    BY <1>1, <1>3, <2>1 DEF WayTo, Whole, ProxyTypeOK
  <2> QED
    BY <1>3, <2>1, <2>2, <2>3, <2>4, BothEnds, StillCarries
<1>5. CASE Reset(e)
  <2>1. /\ peer' = [peer EXCEPT ![e] = "reset"] /\ clean' = clean
        /\ inq' = [inq EXCEPT ![e] = <<>>] /\ outq' = [outq EXCEPT ![e] = <<>>]
    BY <1>5 DEF Reset
  <2>2. /\ peer'[e] = "reset" /\ peer'[t] = peer[t]
        /\ inq'[e] = <<>> /\ inq'[t] = inq[t] /\ outq'[e] = <<>> /\ outq'[t] = outq[t]
    BY <1>1, <1>2, <2>1 DEF ProxyTypeOK
  <2>3. ProxyTypeOK'
    <3>1. inq' \in [Ends -> Chunks] /\ outq' \in [Ends -> Chunks]
      BY <1>1, <2>1 DEF ProxyTypeOK, Chunks
    <3>2. peer' \in [Ends -> {"open", "closed", "reset"}]
      BY <1>1, <2>1 DEF ProxyTypeOK
    <3> QED
      BY <1>1, <1>3, <2>1, <3>1, <3>2 DEF ProxyTypeOK, Chunks
  <2>4. Paced'
    BY <1>1, <1>3 DEF Paced
  <2>5. Carried(e)'
    <3>1. (WayTo(t)' => WayTo(t)) /\ ~Whole(e)'
      BY <1>3, <2>2 DEF WayTo, Whole
    <3> QED
      BY <1>2, <1>3, <2>2, <3>1, SameWay
  <2>6. Carried(t)'
    <3>1. ~WayTo(e)'
      BY <2>2 DEF WayTo
    <3>2. Arrival(sent[t], got[e], outq[e])
      BY <1>2 DEF CarryInv, Carried
    <3>3. PICK n \in Nat, g \in Chunks, o \in Chunks :
            n = sent[t] /\ g = got[e] /\ o = outq[e]
      BY <1>1, <1>2, PartsOf
    <3>4. Arrival(n, g, <<>>)
      <4>1. Len(<<>>) = 0 /\ Len(g) \in Nat /\ Len(o) \in Nat
        BY DEF Chunks
      <4>2. (\A i \in 1..Len(g) : g[i] = i) /\ Len(g) + Len(o) <= n
        BY <3>2, <3>3 DEF Arrival
      <4>3. Len(g) + 0 <= n /\ 1..0 = {}
        BY <4>1, <4>2
      <4> QED
        BY <4>1, <4>2, <4>3 DEF Arrival
    <3> QED
      BY <1>2, <1>3, <2>2, <3>1, <3>3, <3>4 DEF Carried
  <2> QED
    BY <1>2, <2>3, <2>4, <2>5, <2>6 DEF CarryInv
<1> QED
  BY <1>4, <1>5

LEMMA CarryStep == CarryInv /\ [ProxyNext]_proxyVars => CarryInv'
<1> SUFFICES ASSUME CarryInv, [ProxyNext]_proxyVars PROVE CarryInv'
  OBVIOUS
<1>1. CASE Dial
  BY <1>1, DialCarries
<1>2. CASE DialFails \/ StopWaiting \/ AcceptFails
  BY <1>2, MainCarries
<1>3. CASE CloseBackend
  <2>1. CloseSocket("backend") /\ main = "closing" /\ main' = "closingClient" /\ "backend" \in Ends
    BY <1>3 DEF CloseBackend, Ends
  <2>2. UNCHANGED <<copying, held, signals, down, peer, sent, got, clean>>
    BY <1>3 DEF CloseBackend, endVars
  <2> QED
    BY <2>1, <2>2, CloseCarries
<1>4. CASE CloseClient
  <2>1. CloseSocket("client") /\ main = "closingClient" /\ main' = "ended" /\ "client" \in Ends
    BY <1>4 DEF CloseClient, Ends
  <2>2. UNCHANGED <<copying, held, signals, down, peer, sent, got, clean>>
    BY <1>4 DEF CloseClient, endVars
  <2> QED
    BY <2>1, <2>2, CloseCarries
<1>5. ASSUME NEW e \in Ends, Copy(e) PROVE CarryInv'
  BY <1>5, ReadCarries, CopyCarries, WriteCarries, LostCarries DEF Copy
<1>6. ASSUME NEW e \in Ends, Send(e) \/ Receive(e) \/ Close(e) \/ Reset(e) PROVE CarryInv'
  BY <1>6, SendCarries, ReceiveCarries, EndCarries
<1>7. CASE UNCHANGED proxyVars
  <2>1. UNCHANGED <<main, open, copying, held, signals, down, inq, outq, peer, sent, got, clean>>
    BY <1>7 DEF proxyVars, goVars, endVars
  <2>2. ProxyTypeOK' /\ Paced'
    BY <2>1 DEF CarryInv, ProxyTypeOK, Paced
  <2>3. \A x \in Ends : (WayTo(x)' => WayTo(x)) /\ (Whole(x)' => Whole(x))
    BY <2>1 DEF WayTo, Whole
  <2> QED
    BY <2>1, <2>2, <2>3, BothEnds, StillCarries
<1> QED
  BY <1>1, <1>2, <1>3, <1>4, <1>5, <1>6, <1>7 DEF ProxyNext, Main

LEMMA CarryStart == ProxyInit => CarryInv
<1> SUFFICES ASSUME ProxyInit PROVE CarryInv
  OBVIOUS
<1>1. <<>> \in Chunks /\ Len(<<>>) = 0 /\ 1..0 = {} /\ 0 \in 0..MaxSent
  BY WindowAssumption DEF Chunks
<1>2. ProxyTypeOK
  <2>1. inq \in [Ends -> Chunks] /\ outq \in [Ends -> Chunks] /\ got \in [Ends -> Chunks]
    BY <1>1 DEF ProxyInit
  <2>2. sent \in [Ends -> 0..MaxSent] /\ held \in [Ends -> 0..MaxSent]
    BY <1>1 DEF ProxyInit
  <2>3. open \in [Ends -> BOOLEAN] /\ peer \in [Ends -> {"open", "closed", "reset"}]
        /\ copying \in [Ends -> {"none", "reading", "writing", "signalling", "done"}]
    BY DEF ProxyInit
  <2>4. main \in {"dialing", "waiting", "closing", "closingClient", "ended"}
    BY DEF ProxyInit
  <2>5. signals \in 0..2 /\ down \in BOOLEAN /\ clean \subseteq Ends
    <3>1. signals = 0 /\ down = FALSE /\ clean = {}
      BY DEF ProxyInit
    <3>2. signals \in 0..2
      BY <3>1
    <3>3. down \in BOOLEAN
      BY <3>1
    <3>4. clean \subseteq Ends
      BY <3>1
    <3> QED
      BY <3>2, <3>3, <3>4
  <2> QED
    BY <2>1, <2>2, <2>3, <2>4, <2>5 DEF ProxyTypeOK, Chunks
<1>3. Paced
  BY DEF ProxyInit, Paced, Ends
<1>4. ASSUME NEW e \in Ends PROVE Carried(e)
  <2>1. /\ sent[e] = 0 /\ held[e] = 0 /\ inq[e] = <<>>
        /\ got[Other(e)] = <<>> /\ outq[Other(e)] = <<>>
    BY BothEnds DEF ProxyInit
  <2>2. Past(e) = 0
    BY <1>1, <2>1 DEF Past
  <2> QED
    BY <1>1, <2>1, <2>2 DEF Carried, Arrival, Following, InHand
<1> QED
  BY <1>2, <1>3, <1>4 DEF CarryInv

LEMMA CarryCorrect == ProxySpec => []CarryInv
BY CarryStart, CarryStep, PTL DEF ProxySpec

\* The type invariant of the proxy.
THEOREM ProxyTypeCorrect == ProxySpec => []ProxyTypeOK
<1>1. CarryInv => ProxyTypeOK
  BY DEF CarryInv
<1> QED
  BY <1>1, CarryCorrect, PTL

\* What a step does to a direction, from e to t: nothing, or a chunk is sent, or
\* the chunk that is next is delivered.
LEMMA DirectionStep ==
  ASSUME CarryInv, [ProxyNext]_proxyVars, NEW e \in Ends, NEW t \in Ends, t = Other(e)
  PROVE  \/ UNCHANGED <<sent[e], got[t]>>
         \/ sent'[e] = sent[e] + 1 /\ got'[t] = got[t]
         \/ /\ sent'[e] = sent[e] /\ got'[t] = Append(got[t], Len(got[t]) + 1)
            /\ Len(got[t]) + 1 <= sent[e]
<1>0. ProxyTypeOK /\ Other(t) = e /\ t # e /\ \A x \in Ends : x = e \/ x = t
  BY BothEnds DEF CarryInv
<1>1. CASE UNCHANGED <<sent, got>>
  BY <1>1
<1>2. ASSUME NEW x \in Ends, Send(x)
      PROVE  (UNCHANGED <<sent[e], got[t]>>) \/ (sent'[e] = sent[e] + 1 /\ got'[t] = got[t])
  <2>1. sent' = [sent EXCEPT ![x] = sent[x] + 1] /\ got' = got
    BY <1>2 DEF Send
  <2> QED
    BY <1>0, <2>1 DEF ProxyTypeOK
<1>3. ASSUME NEW x \in Ends, Receive(x)
      PROVE  \/ UNCHANGED <<sent[e], got[t]>>
             \/ /\ sent'[e] = sent[e] /\ got'[t] = Append(got[t], Len(got[t]) + 1)
                /\ Len(got[t]) + 1 <= sent[e]
  <2>1. got' = [got EXCEPT ![x] = Append(got[x], Head(outq[x]))] /\ sent' = sent
    BY <1>3 DEF Receive
  <2>2. Head(outq[x]) = Len(got[x]) + 1 /\ Len(got[x]) + 1 <= sent[Other(x)]
    BY <1>3, ReceiveCarries
  <2>3. CASE x = t
    BY <1>0, <2>1, <2>2, <2>3 DEF ProxyTypeOK
  <2>4. CASE x # t
    BY <1>0, <2>1, <2>4 DEF ProxyTypeOK
  <2> QED
    BY <2>3, <2>4
<1>4. (Main \/ AcceptFails \/ (UNCHANGED proxyVars)) => UNCHANGED <<sent, got>>
  BY DEF Main, Dial, DialFails, StopWaiting, CloseBackend, CloseClient, AcceptFails, proxyVars,
         endVars
<1>5. ASSUME NEW x \in Ends, Copy(x) \/ Close(x) \/ Reset(x)
      PROVE  UNCHANGED <<sent, got>>
  <2>1. (Close(x) \/ Reset(x)) => UNCHANGED <<sent, got>>
    BY DEF Close, Reset
  <2>2. Copy(x) => UNCHANGED <<sent, got>>
    BY DEF Copy, ReadChunk, ReadEnds, WriteChunk, WriteLost, WriteFails, Signal, endVars
  <2> QED
    BY <1>5, <2>1, <2>2
<1> QED
  BY <1>1, <1>2, <1>3, <1>4, <1>5 DEF ProxyNext

LEMMA NextIsDelivered ==
  ASSUME NEW g \in Chunks
  PROVE  Append(g, Len(g) + 1) = g \o [i \in 1..1 |-> Len(g) + i]
<1>1. Len(g) \in Nat
  BY DEF Chunks
<1>2. [i \in 1..1 |-> Len(g) + i] = <<Len(g) + 1>>
  BY <1>1
<1>3. g \in Seq(Nat)
  BY WindowAssumption DEF Chunks
<1> QED
  BY <1>1, <1>2, <1>3

LEMMA DeliveredParts ==
  ASSUME CarryInv, NEW e \in Ends, NEW t \in Ends, t = Other(e)
  PROVE  /\ got[t] \in Chunks /\ sent[e] \in Nat /\ Len(got[t]) \in Nat
         /\ \A i \in 1..Len(got[t]) : got[t][i] <= Len(got[t])
<1>1. got[t] \in Chunks /\ sent[e] \in Nat
  BY PartsOf DEF CarryInv
<1>2. Len(got[t]) \in Nat
  BY <1>1 DEF Chunks
<1>3. \A i \in 1..Len(got[t]) : got[t][i] = i
  BY DEF CarryInv, Carried, Arrival
<1> QED
  BY <1>1, <1>2, <1>3

LEMMA UpwardStep ==
  CarryInv /\ [ProxyNext]_proxyVars
    => [Upward!Next]_<<sent["client"], got["backend"], FALSE>>
<1> SUFFICES ASSUME CarryInv, [ProxyNext]_proxyVars
             PROVE  [Upward!Next]_<<sent["client"], got["backend"], FALSE>>
  OBVIOUS
<1>1. "client" \in Ends /\ "backend" \in Ends /\ "backend" = Other("client")
  BY DEF Ends, Other
<1> DEFINE g == got["backend"]
           n == sent["client"]
<1>2. /\ g \in Chunks /\ n \in Nat /\ Len(g) \in Nat
      /\ \A i \in 1..Len(g) : g[i] <= Len(g)
  BY <1>1, DeliveredParts
<1>3. CASE n' = n + 1 /\ g' = g
  BY <1>3 DEF Upward!Next, Upward!Submit
<1>4. CASE n' = n /\ g' = Append(g, Len(g) + 1) /\ Len(g) + 1 <= n
  <2>1. Len(g) \in 0..n /\ 1 \in 1..n
    BY <1>2, <1>4
  <2>2. g' = g \o [i \in 1..1 |-> Len(g) + i]
    BY <1>2, <1>4, NextIsDelivered
  <2>3. Upward!Deliver(Len(g), 1)
    BY <1>2, <1>4, <2>2 DEF Upward!Deliver
  <2> QED
    BY <2>1, <2>3 DEF Upward!Next
<1>5. CASE n' = n /\ g' = g
  BY <1>5
<1> QED
  BY <1>1, <1>3, <1>4, <1>5, DirectionStep

LEMMA DownwardStep ==
  CarryInv /\ [ProxyNext]_proxyVars
    => [Downward!Next]_<<sent["backend"], got["client"], FALSE>>
<1> SUFFICES ASSUME CarryInv, [ProxyNext]_proxyVars
             PROVE  [Downward!Next]_<<sent["backend"], got["client"], FALSE>>
  OBVIOUS
<1>1. "client" \in Ends /\ "backend" \in Ends /\ "client" = Other("backend")
  BY DEF Ends, Other
<1> DEFINE g == got["client"]
           n == sent["backend"]
<1>2. /\ g \in Chunks /\ n \in Nat /\ Len(g) \in Nat
      /\ \A i \in 1..Len(g) : g[i] <= Len(g)
  BY <1>1, DeliveredParts
<1>3. CASE n' = n + 1 /\ g' = g
  BY <1>3 DEF Downward!Next, Downward!Submit
<1>4. CASE n' = n /\ g' = Append(g, Len(g) + 1) /\ Len(g) + 1 <= n
  <2>1. Len(g) \in 0..n /\ 1 \in 1..n
    BY <1>2, <1>4
  <2>2. g' = g \o [i \in 1..1 |-> Len(g) + i]
    BY <1>2, <1>4, NextIsDelivered
  <2>3. Downward!Deliver(Len(g), 1)
    BY <1>2, <1>4, <2>2 DEF Downward!Deliver
  <2> QED
    BY <2>1, <2>3 DEF Downward!Next
<1>5. CASE n' = n /\ g' = g
  BY <1>5
<1> QED
  BY <1>1, <1>3, <1>4, <1>5, DirectionStep

\* Through the proxy each direction is a connection, as OrderedDelivery says it
\* for one that never becomes faulty: what arrives is what was sent, in order,
\* nothing left out and nothing twice, whatever is closed or cut off.
THEOREM LikeDirectCorrect == ProxySpec => LikeDirect
<1>1. ProxyInit => Upward!Init /\ Downward!Init
  BY DEF ProxyInit, Upward!Init, Downward!Init, Ends
<1> QED
  BY <1>1, CarryCorrect, UpwardStep, DownwardStep, PTL
  DEF ProxySpec, LikeDirect, Upward!Spec, Downward!Spec

-----------------------------------------------------------------------------
(* The proxy: last words arrive.                                           *)

Early == main \in {"dialing", "waiting"} /\ ~down
Late == main \notin {"dialing", "waiting"} /\ ~down

\* The copy from end e has seen one of the ends go.
Gone(e) == \/ peer[e] = "closed" /\ inq[e] = <<>>
           \/ peer[e] = "reset" \/ peer[Other(e)] = "reset"

\* A copy ends, and the goroutine of the connection with it, because an end has gone.
Signalled ==
  /\ main = "waiting" /\ ~down => \A e \in Ends : open[e] /\ copying[e] # "none"
  /\ main = "dialing" /\ ~down => open["client"]
  /\ signals > 0 => \E e \in Ends : copying[e] = "done"
  /\ main = "waiting" /\ ~down =>
       \A e \in Ends : copying[e] \in {"signalling", "done"} => Gone(e)
  /\ Late /\ (\E e \in Ends : copying[e] # "none") => \E e \in Ends : peer[e] # "open"

\* Of an end that has closed after it had read everything, and whose other end, t,
\* has not gone: nothing of t is on its way, and once the proxy closes its sockets
\* all that was sent to t has left it.
Said(e) ==
  LET t == Other(e) IN
  e \in clean /\ peer[t] = "open" =>
    /\ Early => peer[e] = "closed" /\ inq[t] = <<>> /\ held[t] = 0 /\ outq[e] = <<>>
    /\ Late /\ copying[e] # "none" =>
         /\ peer[e] = "closed" /\ inq[t] = <<>> /\ held[t] = 0
         /\ held[e] = 0 /\ inq[e] = <<>> /\ Past(e) = sent[e]

WordInv == Signalled /\ \A e \in Ends : Said(e)

LEMMA MainIsSignalled ==
  ASSUME CarryInv, Signalled, Main \/ AcceptFails
  PROVE  Signalled'
<1>1. ProxyTypeOK /\ Paced /\ \A x \in Ends : Other(x) \in Ends
  BY BothEnds DEF CarryInv
<1>2. CASE Dial
  <2>1. /\ main = "dialing" /\ ~down /\ main' = "waiting" /\ down' = down /\ signals' = 0
        /\ open' = [open EXCEPT !["backend"] = TRUE] /\ copying' = [e \in Ends |-> "reading"]
    BY <1>1, <1>2 DEF Dial, Paced
  <2>2. open["client"] /\ \A e \in Ends : open'[e] /\ copying'[e] = "reading"
    BY <1>1, <2>1 DEF Signalled, Ends, ProxyTypeOK
  <2> QED
    BY <2>1, <2>2 DEF Signalled, Late
<1>3. CASE DialFails
  <2>1. /\ main = "dialing" /\ main' = "closingClient" /\ UNCHANGED <<copying, signals>>
    BY <1>3 DEF DialFails
  <2>2. \A e \in Ends : copying[e] = "none"
    BY <1>1, <2>1 DEF Paced
  <2> QED
    BY <1>1, <2>1, <2>2 DEF Signalled, Paced
<1>4. CASE StopWaiting
  <2>1. /\ main = "waiting" /\ ~down /\ main' = "closing" /\ signals > 0 /\ signals' = signals - 1
        /\ UNCHANGED <<copying, peer>>
    BY <1>4 DEF StopWaiting, endVars
  <2>2. PICK e \in Ends : copying[e] = "done" /\ Gone(e)
    BY <2>1 DEF Signalled
  <2>3. \E x \in Ends : peer[x] # "open"
    BY <1>1, <2>2 DEF Gone
  <2> QED
    BY <2>1, <2>2, <2>3 DEF Signalled
<1>5. CASE CloseBackend \/ CloseClient
  <2>1. /\ main \notin {"dialing", "waiting"} /\ main' \in {"closingClient", "ended"}
        /\ UNCHANGED <<copying, signals, down, peer>>
    BY <1>5 DEF CloseBackend, CloseClient, endVars
  <2> QED
    BY <2>1 DEF Signalled, Late
<1>6. CASE AcceptFails
  <2>1. down' = TRUE /\ UNCHANGED <<copying, signals>>
    BY <1>6 DEF AcceptFails
  <2> QED
    BY <2>1 DEF Signalled, Late
<1> QED
  BY <1>2, <1>3, <1>4, <1>5, <1>6 DEF Main

\* Steps of a copy and of an end: the goroutine of the connection is where it was.
LEMMA StillSignalled ==
  ASSUME Signalled, UNCHANGED <<main, open, down>>,
         \A e \in Ends : copying'[e] = "none" <=> copying[e] = "none",
         signals' > 0 => \E e \in Ends : copying'[e] = "done",
         main = "waiting" /\ ~down =>
           \A e \in Ends : copying'[e] \in {"signalling", "done"} => Gone(e)',
         \A e \in Ends : peer[e] # "open" => peer'[e] # "open"
  PROVE  Signalled'
<1>1. Late' <=> Late
  BY DEF Late
<1> QED
  BY <1>1 DEF Signalled

LEMMA CopyIsSignalled ==
  ASSUME CarryInv, Signalled, NEW e \in Ends, Copy(e)
  PROVE  Signalled'
<1>1. ProxyTypeOK /\ Paced
  BY DEF CarryInv
<1>2. PICK t \in Ends : t = Other(e) /\ t # e /\ Other(t) = e /\ \A x \in Ends : x = e \/ x = t
  BY BothEnds
<1>3. UNCHANGED <<main, open, down>>
  BY DEF Copy, ReadChunk, ReadEnds, WriteChunk, WriteLost, WriteFails, Signal
<1>4. copying'[t] = copying[t] /\ copying[e] # "none"
  BY <1>1, <1>2 DEF Copy, ReadChunk, ReadEnds, WriteChunk, WriteLost, WriteFails, Signal,
     Written, CopyAt, CopyGoto, ProxyTypeOK
<1>5. CASE ReadChunk(e)
  <2>1. /\ copying[e] = "reading" /\ copying'[e] = "writing" /\ UNCHANGED <<signals, peer>>
        /\ inq'[t] = inq[t]
    BY <1>1, <1>2, <1>5 DEF ReadChunk, CopyAt, CopyGoto, ProxyTypeOK, endVars
  <2>2. \A x \in Ends : copying'[x] \in {"signalling", "done"} =>
                          x = t /\ copying[t] = copying'[t] /\ (Gone(t) => Gone(t)')
    BY <1>2, <1>4, <2>1 DEF Gone
  <2> QED
    BY <1>2, <1>3, <1>4, <2>1, <2>2, StillSignalled DEF Signalled
<1>6. CASE ReadEnds(e)
  <2>1. /\ copying[e] = "reading" /\ copying'[e] = "signalling" /\ UNCHANGED <<signals, peer, inq>>
    BY <1>1, <1>6 DEF ReadEnds, CopyAt, CopyGoto, ProxyTypeOK, endVars
  <2>2. \A x \in Ends : Gone(x)' <=> Gone(x)
    BY <2>1 DEF Gone
  <2>3. main = "waiting" /\ ~down => Gone(e)
    BY <1>6 DEF ReadEnds, AtEnd, Gone, Signalled
  <2> QED
    BY <1>2, <1>3, <1>4, <2>1, <2>2, <2>3, StillSignalled DEF Signalled
<1>7. CASE WriteChunk(e)
  <2>1. /\ copying[e] = "writing" /\ copying'[e] = "reading" /\ UNCHANGED <<signals, peer, inq>>
    BY <1>1, <1>7 DEF WriteChunk, Written, CopyAt, CopyGoto, ProxyTypeOK, endVars
  <2>2. \A x \in Ends : Gone(x)' <=> Gone(x)
    BY <2>1 DEF Gone
  <2> QED
    BY <1>2, <1>3, <1>4, <2>1, <2>2, StillSignalled DEF Signalled
<1>8. CASE WriteLost(e)
  <2>1. /\ copying[e] = "writing" /\ copying'[e] = "reading" /\ signals' = signals
        /\ peer'[t] = "reset" /\ peer'[e] = peer[e]
    BY <1>1, <1>2, <1>8 DEF WriteLost, CopyAt, CopyGoto, ProxyTypeOK
  <2>2. \A x \in Ends : Gone(x)'
    BY <1>2, <2>1 DEF Gone
  <2> QED
    BY <1>2, <1>3, <1>4, <2>1, <2>2, StillSignalled DEF Signalled
<1>9. CASE WriteFails(e)
  <2>1. /\ copying[e] = "writing" /\ copying'[e] = "signalling"
        /\ UNCHANGED <<signals, peer, inq>>
    BY <1>1, <1>9 DEF WriteFails, CopyAt, CopyGoto, ProxyTypeOK, endVars
  <2>2. \A x \in Ends : Gone(x)' <=> Gone(x)
    BY <2>1 DEF Gone
  <2>3. main = "waiting" /\ ~down => Gone(e)
    BY <1>2, <1>9 DEF WriteFails, Gone, Signalled
  <2> QED
    BY <1>2, <1>3, <1>4, <2>1, <2>2, <2>3, StillSignalled DEF Signalled
<1>10. CASE Signal(e)
  <2>1. /\ copying[e] = "signalling" /\ copying'[e] = "done" /\ UNCHANGED <<peer, inq>>
    BY <1>1, <1>10 DEF Signal, CopyAt, CopyGoto, ProxyTypeOK, endVars
  <2>2. \A x \in Ends : Gone(x)' <=> Gone(x)
    BY <2>1 DEF Gone
  <2> QED
    BY <1>2, <1>3, <1>4, <2>1, <2>2, StillSignalled DEF Signalled
<1> QED
  BY <1>5, <1>6, <1>7, <1>8, <1>9, <1>10 DEF Copy

LEMMA EndIsSignalled ==
  ASSUME CarryInv, Signalled, NEW e \in Ends, Send(e) \/ Receive(e) \/ Close(e) \/ Reset(e)
  PROVE  Signalled'
<1>1. ProxyTypeOK
  BY DEF CarryInv
<1>2. PICK t \in Ends : t = Other(e) /\ t # e /\ Other(t) = e /\ \A x \in Ends : x = e \/ x = t
  BY BothEnds
<1>3. /\ peer[e] = "open" /\ UNCHANGED <<main, open, copying, signals, down>>
      /\ peer'[t] = peer[t] /\ inq'[t] = inq[t]
  BY <1>1, <1>2 DEF Send, Receive, Close, Reset, Takes, goVars, ProxyTypeOK
<1>4. peer'[e] \in {"open", "reset"} \/ (peer'[e] = "closed" /\ inq' = inq)
  BY <1>1, <1>3 DEF Send, Receive, Close, Reset, ProxyTypeOK
<1>5. \A x \in Ends : Gone(x) => Gone(x)'
  <2>1. Gone(t) => Gone(t)'
    BY <1>2, <1>3, <1>4 DEF Gone
  <2>2. Gone(e) => Gone(e)'
    BY <1>2, <1>3, <1>4 DEF Gone
  <2> QED
    BY <1>2, <2>1, <2>2
<1> QED
  BY <1>2, <1>3, <1>5, StillSignalled DEF Signalled

LEMMA MainIsSaid ==
  ASSUME CarryInv, WordInv, Main \/ AcceptFails, NEW e \in Ends
  PROVE  Said(e)'
<1>1. ProxyTypeOK /\ Paced /\ Signalled /\ Said(e)
  BY DEF CarryInv, WordInv
<1>2. PICK t \in Ends : t = Other(e) /\ t # e /\ Other(t) = e /\ \A x \in Ends : x = e \/ x = t
  BY BothEnds
<1>3. UNCHANGED <<held, peer, sent, got, clean>>
  BY DEF Main, Dial, DialFails, StopWaiting, CloseBackend, CloseClient, AcceptFails, endVars
<1> SUFFICES ASSUME e \in clean, peer[t] = "open"
             PROVE  /\ Early' => /\ peer[e] = "closed" /\ inq'[t] = <<>>
                                 /\ held[t] = 0 /\ outq'[e] = <<>>
                    /\ Late' /\ copying'[e] # "none" =>
                         /\ peer[e] = "closed" /\ inq'[t] = <<>> /\ held[t] = 0
                         /\ held[e] = 0 /\ inq'[e] = <<>> /\ Past(e)' = sent[e]
  BY <1>2, <1>3 DEF Said
<1>4. CASE Dial
  <2>1. main = "dialing" /\ ~down /\ main' = "waiting" /\ UNCHANGED <<inq, outq>>
    BY <1>4 DEF Dial
  <2> QED
    BY <1>1, <1>2, <2>1 DEF Said, Early, Late
<1>5. CASE DialFails
  <2>1. /\ main = "dialing" /\ main' = "closingClient" /\ copying' = copying
    BY <1>5 DEF DialFails
  <2> QED
    BY <1>1, <2>1 DEF Paced, Early
<1>6. CASE StopWaiting
  <2>1. /\ main = "waiting" /\ ~down /\ main' = "closing" /\ signals > 0
        /\ UNCHANGED <<copying, inq, outq>>
    BY <1>6 DEF StopWaiting
  <2>2. peer[e] = "closed" /\ inq[t] = <<>> /\ held[t] = 0
    BY <1>1, <1>2, <2>1 DEF Said, Early
  <2>3. inq[e] = <<>> /\ copying[e] = "done" /\ open[e] /\ open[t]
    <3>1. PICK x \in Ends : copying[x] = "done" /\ Gone(x)
      BY <1>1, <2>1 DEF Signalled
    <3>2. x = e
      BY <1>2, <2>2, <3>1 DEF Gone
    <3> QED
      BY <1>1, <1>2, <2>1, <2>2, <3>1, <3>2 DEF Gone, Signalled
  <2>4. held[e] = 0
    BY <1>1, <2>3 DEF Paced
  <2>5. Past(e) = sent[e]
    <3>1. Following(sent[e], Past(e), 0, <<>>, TRUE)
      BY <1>2, <2>2, <2>3, <2>4 DEF CarryInv, Carried, WayTo, Whole
    <3>2. PICK k \in Nat : k = Past(e)
      BY <1>1, PartsOf
    <3>3. Len(<<>>) = 0
      OBVIOUS
    <3> QED
      BY <3>1, <3>2, <3>3 DEF Following, InHand
  <2>6. Past(e)' = Past(e)
    BY <1>3, <2>1 DEF Past
  <2> QED
    BY <1>2, <2>1, <2>2, <2>3, <2>4, <2>5, <2>6 DEF Early
<1>7. ASSUME NEW x \in Ends, CloseSocket(x), main \notin {"dialing", "waiting"},
             main' \in {"closingClient", "ended"}, UNCHANGED <<copying, down>>
      PROVE  /\ ~Early'
             /\ Late' /\ copying'[e] # "none" =>
                  /\ peer[e] = "closed" /\ inq'[t] = <<>> /\ held[t] = 0
                  /\ held[e] = 0 /\ inq'[e] = <<>> /\ Past(e)' = sent[e]
  <2>1. ~Early'
    BY <1>7 DEF Early
  <2>2. ASSUME Late', copying'[e] # "none"
        PROVE  /\ peer[e] = "closed" /\ inq'[t] = <<>> /\ held[t] = 0
               /\ held[e] = 0 /\ inq'[e] = <<>> /\ Past(e)' = sent[e]
    <3>1. /\ peer[e] = "closed" /\ inq[t] = <<>> /\ held[t] = 0
          /\ held[e] = 0 /\ inq[e] = <<>> /\ Past(e) = sent[e]
      BY <1>1, <1>2, <1>7, <2>2 DEF Said, Late
    <3>2. inq'[e] = <<>> /\ inq'[t] = <<>>
      BY <1>1, <1>7, <3>1 DEF CloseSocket, ProxyTypeOK
    <3>3. outq'[t] = outq[t]
      <4>1. PICK n \in 0..Len(outq[x]) :
              /\ inq[x] = <<>> => n = Len(outq[x])
              /\ outq' = [outq EXCEPT ![x] = SubSeq(outq[x], 1, n)]
        BY <1>7 DEF CloseSocket
      <4>2. CASE x = t
        <5>1. n = Len(outq[t]) /\ outq'[t] = SubSeq(outq[t], 1, n)
          BY <1>1, <3>1, <4>1, <4>2 DEF ProxyTypeOK
        <5>2. outq[t] \in Chunks
          BY <1>1, PartsOf
        <5>3. SubSeq(outq[t], 1, Len(outq[t])) = outq[t]
          BY <5>2, FrontParts, SeqEqual DEF Chunks
        <5> QED
          BY <5>1, <5>3
      <4>3. CASE x # t
        BY <1>1, <4>1, <4>3 DEF ProxyTypeOK
      <4> QED
        BY <4>2, <4>3
    <3>4. Past(e)' = Past(e)
      BY <1>2, <1>3, <3>3 DEF Past
    <3> QED
      BY <3>1, <3>2, <3>4
  <2> QED
    BY <2>1, <2>2
<1>8. CASE CloseBackend
  <2>1. /\ CloseSocket("backend") /\ main = "closing" /\ main' = "closingClient"
        /\ "backend" \in Ends /\ UNCHANGED <<copying, down>>
    BY <1>8 DEF CloseBackend, Ends
  <2> QED
    BY <1>7, <2>1
<1>9. CASE CloseClient
  <2>1. /\ CloseSocket("client") /\ main = "closingClient" /\ main' = "ended"
        /\ "client" \in Ends /\ UNCHANGED <<copying, down>>
    BY <1>9 DEF CloseClient, Ends
  <2> QED
    BY <1>7, <2>1
<1>10. CASE AcceptFails
  BY <1>10 DEF AcceptFails, Early, Late
<1> QED
  BY <1>4, <1>5, <1>6, <1>8, <1>9, <1>10 DEF Main

\* Steps of a copy and of an end: nothing of what has been said changes.
LEMMA StillSaid ==
  ASSUME NEW e \in Ends, NEW t \in Ends, t = Other(e), Said(e),
         UNCHANGED <<main, down>>, e \in clean' => e \in clean,
         peer'[t] = "open" => peer[t] = "open",
         copying'[e] # "none" => copying[e] # "none",
         Early /\ peer[e] = "closed" /\ inq[t] = <<>> /\ held[t] = 0 /\ outq[e] = <<>>
           /\ peer'[t] = "open"
           => peer'[e] = "closed" /\ inq'[t] = <<>> /\ held'[t] = 0 /\ outq'[e] = <<>>,
         Late /\ peer[e] = "closed" /\ inq[t] = <<>> /\ held[t] = 0 /\ held[e] = 0
           /\ inq[e] = <<>> /\ peer'[t] = "open"
           => /\ peer'[e] = "closed" /\ inq'[t] = <<>> /\ held'[t] = 0 /\ held'[e] = 0
              /\ inq'[e] = <<>> /\ sent'[e] = sent[e] /\ Past(e)' = Past(e)
  PROVE  Said(e)'
<1>1. (Late' <=> Late) /\ (Early' <=> Early)
  BY DEF Late, Early
<1> SUFFICES ASSUME (e \in clean)', peer'[t] = "open"
             PROVE  /\ Early' => /\ peer'[e] = "closed" /\ inq'[t] = <<>>
                                 /\ held'[t] = 0 /\ outq'[e] = <<>>
                    /\ Late' /\ copying'[e] # "none" =>
                         /\ peer'[e] = "closed" /\ inq'[t] = <<>> /\ held'[t] = 0
                         /\ held'[e] = 0 /\ inq'[e] = <<>> /\ Past(e)' = sent'[e]
  BY DEF Said
<1>2. e \in clean /\ peer[t] = "open"
  OBVIOUS
<1>3. CASE Early
  BY <1>1, <1>2, <1>3 DEF Said, Early, Late
<1>4. CASE Late
  BY <1>1, <1>2, <1>4 DEF Said, Early, Late
<1> QED
  BY <1>1, <1>3, <1>4

LEMMA CopyIsSaid ==
  ASSUME CarryInv, WordInv, NEW x \in Ends, Copy(x), NEW e \in Ends
  PROVE  Said(e)'
<1>1. ProxyTypeOK /\ Paced /\ Signalled /\ Said(e)
  BY DEF CarryInv, WordInv
<1>2. PICK t \in Ends : t = Other(e) /\ t # e /\ Other(t) = e /\ x \in {e, t}
  BY BothEnds
<1>3. UNCHANGED <<main, down, sent, got, clean>> /\ copying[x] # "none"
  BY DEF Copy, ReadChunk, ReadEnds, WriteChunk, WriteLost, WriteFails, Signal, CopyAt, endVars
<1>4. copying'[e] # "none" => copying[e] # "none"
  <2>1. \A y \in Ends : y # x => copying'[y] = copying[y]
    BY <1>1 DEF Copy, ReadChunk, ReadEnds, WriteChunk, WriteLost, WriteFails, Signal,
       Written, CopyGoto, ProxyTypeOK
  <2> QED
    BY <1>3, <2>1
<1>5. CASE ReadChunk(x)
  <2>1. /\ inq[x] # <<>> /\ UNCHANGED <<peer, outq>>
        /\ \A y \in Ends : y # x => inq'[y] = inq[y] /\ held'[y] = held[y]
    BY <1>1, <1>5 DEF ReadChunk, endVars, ProxyTypeOK
  <2>2. Past(e)' = Past(e)
    BY <1>3, <2>1 DEF Past
  <2> QED
    BY <1>1, <1>2, <1>3, <1>4, <2>1, <2>2, StillSaid
<1>6. CASE ReadEnds(x) \/ Signal(x)
  <2>1. UNCHANGED <<peer, inq, outq, held>>
    BY <1>6 DEF ReadEnds, Signal, endVars
  <2>2. Past(e)' = Past(e)
    BY <1>3, <2>1 DEF Past
  <2> QED
    BY <1>1, <1>2, <1>3, <1>4, <2>1, <2>2, StillSaid
<1>7. CASE WriteChunk(x)
  <2>1. /\ held[x] # 0 /\ UNCHANGED <<peer, inq>>
        /\ \A y \in Ends : y # Other(x) => outq'[y] = outq[y]
        /\ \A y \in Ends : held'[y] \in {0, held[y]}
    <3>1. copying[x] = "writing" /\ UNCHANGED <<peer, inq>>
      BY <1>7 DEF WriteChunk, CopyAt, endVars
    <3>2. /\ \A y \in Ends : y # Other(x) => outq'[y] = outq[y]
          /\ \A y \in Ends : held'[y] \in {0, held[y]}
      BY <1>1, <1>7, BothEnds DEF WriteChunk, Written, Release, ProxyTypeOK
    <3> QED
      BY <1>1, <3>1, <3>2 DEF Paced
  <2>2. x = e => outq'[e] = outq[e]
    BY <1>2, <2>1
  <2> QED
    BY <1>1, <1>2, <1>3, <1>4, <2>1, <2>2, StillSaid
<1>8. CASE WriteLost(x)
  <2>1. held[x] # 0 /\ peer'[Other(x)] = "reset"
    <3>1. copying[x] = "writing" /\ peer' = [peer EXCEPT ![Other(x)] = "reset"]
      BY <1>8 DEF WriteLost, CopyAt
    <3> QED
      BY <1>1, <3>1, BothEnds DEF Paced, ProxyTypeOK
  <2>2. CASE x = e
    <3>1. peer'[t] # "open"
      BY <1>2, <2>1, <2>2
    <3> QED
      BY <1>2, <3>1 DEF Said
  <2>3. CASE x = t
    <3>1. peer'[t] = peer[t]
      BY <1>1, <1>2, <1>8, <2>3, BothEnds DEF WriteLost, ProxyTypeOK
    <3> QED
      BY <1>1, <1>2, <1>3, <1>4, <2>1, <2>3, <3>1, StillSaid
  <2> QED
    BY <1>2, <2>2, <2>3
<1>9. CASE WriteFails(x)
  <2>1. UNCHANGED <<peer, inq, outq>> /\ \A y \in Ends : held'[y] \in {0, held[y]}
    BY <1>1, <1>9 DEF WriteFails, Release, endVars, ProxyTypeOK
  <2>2. Past(e)' = Past(e)
    BY <1>3, <2>1 DEF Past
  <2> QED
    BY <1>1, <1>2, <1>3, <1>4, <2>1, <2>2, StillSaid
<1> QED
  BY <1>5, <1>6, <1>7, <1>8, <1>9 DEF Copy

LEMMA EndIsSaid ==
  ASSUME CarryInv, WordInv, NEW x \in Ends, Send(x) \/ Receive(x) \/ Close(x) \/ Reset(x),
         NEW e \in Ends
  PROVE  Said(e)'
<1>1. ProxyTypeOK /\ Paced /\ Signalled /\ Said(e)
  BY DEF CarryInv, WordInv
<1>2. PICK t \in Ends : t = Other(e) /\ t # e /\ Other(t) = e /\ x \in {e, t}
  BY BothEnds
<1>3. UNCHANGED <<main, open, copying, held, signals, down>> /\ peer[x] = "open"
  BY DEF Send, Receive, Close, Reset, goVars, Takes
<1>4. CASE Send(x)
  <2>1. /\ peer' = peer /\ clean' = clean \ {Other(x)} /\ outq' = outq
    BY <1>4 DEF Send
  <2>2. CASE x = e
    BY <1>1, <1>2, <1>3, <2>1, <2>2, StillSaid
  <2>3. CASE x = t
    <3>1. e \notin clean'
      BY <1>2, <2>1, <2>3
    <3> QED
      BY <3>1 DEF Said
  <2> QED
    BY <1>2, <2>2, <2>3
<1>5. CASE Receive(x)
  <2>1. UNCHANGED <<peer, inq, sent, clean>> /\ outq' = [outq EXCEPT ![x] = Tail(outq[x])]
    BY <1>5 DEF Receive
  <2>2. CASE x = e
    BY <1>1, <1>2, <1>3, <2>1, <2>2, StillSaid
  <2>3. CASE x = t
    <3>1. Past(e)' = Past(e)
      <4>1. /\ got' = [got EXCEPT ![t] = Append(got[t], Head(outq[t]))]
            /\ outq' = [outq EXCEPT ![t] = Tail(outq[t])] /\ outq[t] # <<>>
        BY <1>5, <2>3 DEF Receive
      <4>2. got'[t] = Append(got[t], Head(outq[t])) /\ outq'[t] = Tail(outq[t])
        BY <1>1, <4>1 DEF ProxyTypeOK
      <4>3. PICK n \in Nat, g \in Chunks, o \in Chunks : n = sent[e] /\ g = got[t] /\ o = outq[t]
        BY <1>1, PartsOf
      <4>4. Arrival(n, g, o)
        BY <1>2, <4>3 DEF CarryInv, Carried
      <4>5. o # <<>>
        BY <4>1, <4>3
      <4>6. Len(Append(g, Head(o))) + Len(Tail(o)) = Len(g) + Len(o)
        BY <4>4, <4>5, HeadIsReceived, Zenon
      <4> QED
        BY <1>2, <4>2, <4>3, <4>6 DEF Past
    <3>2. outq'[e] = outq[e]
      BY <1>1, <1>2, <2>1, <2>3 DEF ProxyTypeOK
    <3> QED
      BY <1>1, <1>2, <1>3, <2>1, <3>1, <3>2, StillSaid
  <2> QED
    BY <1>2, <2>2, <2>3
<1>6. CASE Close(x)
  <2>1. /\ UNCHANGED <<inq, outq, sent, got>> /\ outq[x] = <<>>
        /\ peer' = [peer EXCEPT ![x] = "closed"]
        /\ clean' = IF Len(got[x]) = sent[Other(x)] THEN clean \cup {x} ELSE clean
    BY <1>6 DEF Close
  <2>2. peer'[x] = "closed" /\ \A y \in Ends : y # x => peer'[y] = peer[y]
    BY <1>1, <2>1 DEF ProxyTypeOK
  <2>3. CASE x = t
    BY <1>2, <2>2, <2>3 DEF Said
  <2>4. CASE x = e /\ Len(got[e]) # sent[t]
    <3>1. clean' = clean
      BY <1>2, <2>1, <2>4
    <3> QED
      BY <1>1, <1>2, <1>3, <2>1, <2>2, <2>4, <3>1, StillSaid
  <2>5. CASE x = e /\ Len(got[e]) = sent[t]
    <3> SUFFICES ASSUME peer'[t] = "open"
                 PROVE  /\ Early' => /\ peer'[e] = "closed" /\ inq'[t] = <<>>
                                     /\ held'[t] = 0 /\ outq'[e] = <<>>
                        /\ ~(Late' /\ copying'[e] # "none")
      BY <1>2 DEF Said
    <3>1. peer[t] = "open" /\ peer[e] = "open" /\ \A y \in Ends : y = e \/ y = t
      BY <1>2, <1>3, <2>2, <2>5, BothEnds
    <3>2. ~(Late' /\ copying'[e] # "none")
      BY <1>1, <1>3, <3>1 DEF Signalled, Late
    <3>3. ASSUME Early PROVE inq[t] = <<>> /\ held[t] = 0
      <4>1. WayTo(e)
        BY <1>1, <1>3, <3>1, <3>3 DEF WayTo, Early, Signalled
      <4>2. Following(sent[t], Past(t), held[t], inq[t], Whole(t))
        BY <1>2, <4>1 DEF CarryInv, Carried
      <4>3. PICK n \in Nat, h \in Nat, q \in Chunks : n = sent[t] /\ h = held[t] /\ q = inq[t]
        BY <1>1, PartsOf
      <4>4. Past(t) = n
        <5>1. Past(t) = Len(got[e]) + Len(outq[e])
          BY <1>2 DEF Past
        <5>2. Len(outq[e]) = 0
          BY <2>1, <2>5
        <5> QED
          BY <2>5, <4>3, <5>1, <5>2
      <4>5. PICK c \in Nat : c = Len(q)
        BY DEF Chunks
      <4>6. n + InHand(h) + c <= n
        BY <4>2, <4>3, <4>4, <4>5 DEF Following
      <4>7. c = 0 /\ h = 0
        BY <4>6 DEF InHand
      <4> QED
        BY <4>3, <4>5, <4>7, EmptySeq DEF Chunks
    <3>4. Early' <=> Early
      BY <1>3 DEF Early
    <3> QED
      BY <1>3, <2>1, <2>2, <2>5, <3>2, <3>3, <3>4
  <2> QED
    BY <1>2, <2>3, <2>4, <2>5
<1>7. CASE Reset(x)
  <2>1. /\ UNCHANGED <<sent, got, clean>> /\ peer' = [peer EXCEPT ![x] = "reset"]
        /\ inq' = [inq EXCEPT ![x] = <<>>] /\ outq' = [outq EXCEPT ![x] = <<>>]
    BY <1>7 DEF Reset
  <2>2. CASE x = t
    <3>1. peer'[t] # "open"
      BY <1>1, <2>1, <2>2 DEF ProxyTypeOK
    <3> QED
      BY <1>2, <3>1 DEF Said
  <2>3. CASE x = e
    <3>1. peer'[t] = peer[t]
      BY <1>1, <1>2, <2>1, <2>3 DEF ProxyTypeOK
    <3> QED
      BY <1>1, <1>2, <1>3, <2>1, <2>3, <3>1, StillSaid
  <2> QED
    BY <1>2, <2>2, <2>3
<1> QED
  BY <1>4, <1>5, <1>6, <1>7

LEMMA WordStep == CarryInv /\ WordInv /\ [ProxyNext]_proxyVars => WordInv'
<1> SUFFICES ASSUME CarryInv, WordInv, [ProxyNext]_proxyVars PROVE WordInv'
  OBVIOUS
<1>0. Signalled
  BY DEF WordInv
<1>1. CASE Main \/ AcceptFails
  BY <1>0, <1>1, MainIsSignalled, MainIsSaid DEF WordInv
<1>2. ASSUME NEW x \in Ends, Copy(x) PROVE WordInv'
  BY <1>0, <1>2, CopyIsSignalled, CopyIsSaid DEF WordInv
<1>3. ASSUME NEW x \in Ends, Send(x) \/ Receive(x) \/ Close(x) \/ Reset(x) PROVE WordInv'
  BY <1>0, <1>3, EndIsSignalled, EndIsSaid DEF WordInv
<1>4. CASE UNCHANGED proxyVars
  <2>1. UNCHANGED <<main, open, copying, held, signals, down, inq, outq, peer, sent, got, clean>>
    BY <1>4 DEF proxyVars, goVars, endVars
  <2>2. Signalled'
    BY <1>0, <2>1 DEF Signalled, Late, Gone
  <2>3. ASSUME NEW e \in Ends PROVE Said(e)'
    <3>1. Said(e)
      BY DEF WordInv
    <3> QED
      BY <2>1, <3>1 DEF Said, Early, Late, Past
  <2> QED
    BY <2>2, <2>3 DEF WordInv
<1> QED
  BY <1>1, <1>2, <1>3, <1>4 DEF ProxyNext

LEMMA WordStart == ProxyInit => WordInv
<1> SUFFICES ASSUME ProxyInit PROVE WordInv
  OBVIOUS
<1>1. main = "dialing" /\ signals = 0 /\ clean = {}
  BY DEF ProxyInit
<1>2. open["client"]
  BY DEF ProxyInit, Ends
<1>3. ~(signals > 0) /\ ~Late
  BY <1>1 DEF Late
<1>4. Signalled
  BY <1>1, <1>2, <1>3 DEF Signalled
<1>5. \A e \in Ends : Said(e)
  BY <1>1 DEF Said
<1> QED
  BY <1>4, <1>5 DEF WordInv

\* What an end says before it closes in order reaches the other end, if the first
\* had read everything and the other has kept quiet: the copy that sees the end has
\* written all it read, and closing a socket from which nothing waits resets nothing.
THEOREM LastWordsCorrect == ProxySpec => []LastWords
<1>1. ProxyInit => CarryInv /\ WordInv
  BY CarryStart, WordStart
<1>2. CarryInv /\ WordInv /\ [ProxyNext]_proxyVars => (CarryInv /\ WordInv)'
  BY CarryStep, WordStep
<1>3. CarryInv /\ WordInv => LastWords
  <2> SUFFICES ASSUME CarryInv, WordInv, NEW e \in clean, main = "ended", ~down,
                      copying[e] # "none", peer[Other(e)] = "open"
               PROVE  Past(e) = sent[e]
    BY DEF LastWords, Past
  <2>1. e \in Ends
    BY DEF CarryInv, ProxyTypeOK
  <2> QED
    BY <2>1 DEF WordInv, Said, Late
<1> QED
  BY <1>1, <1>2, <1>3, PTL DEF ProxySpec
=============================================================================
