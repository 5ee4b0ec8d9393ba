----------------------- MODULE FrontendSessionProps -----------------------
(***************************************************************************)
(* What the session of a frontend promises, and what its comments claim.   *)
(***************************************************************************)
EXTENDS FrontendSession

Serving(c) == pc[c] = "serve"

\* As long as a client opens its next connection after the handler of the
\* previous one has left, a handler that authenticated its peer finds its own
\* connection and the trust it earned in the shared record, whatever failed
\* handshakes and abandoned sessions came before (backend.go:499-621).
ServedOwnsRecord ==
  \A c \in Conns : Serving(c) /\ ~overlapped =>
    connected /\ trusted /\ connection = c /\ challenge = c

\* The record says connected only while some handler is past its greeting, or
\* after one left by a return that does not clean up (backend.go:499-621).
ConnectedIsExplained == connected => dangling \/ \E c \in Conns : Live(c)

\* The record says trusted only while some handler serves an authenticated
\* peer, or after the return at backend.go:607 abandoned one.
TrustedIsExplained == trusted => lostServe \/ \E c \in Conns : Serving(c)

\* What either flag may be taken to mean, through failed handshakes, abandoned
\* sessions and overlapping handlers.
FlagsAreExplained == ConnectedIsExplained /\ TrustedIsExplained

\* No two connections are ever authenticated by the same challenge, however
\* greetings, hello-acks and answers of several handlers interleave on the one
\* Challenge field (backend.go:513-547).
ChallengeProvesOne ==
  \A c, d \in Conns : proved[c] = proved[d] /\ proved[c] # None => c = d

\* A handler panics on a nil Connection only if a second greeting was accepted
\* while another handler was live (backend.go:501, 619, 638).
HandlerPanicNeedsOverlap == status = "handlerPanic" => overlapped

\* While a handler serves alone, nothing another goroutine does takes the
\* session away: it ends by that handler leaving, by the process ending, or
\* by another greeting (backend.go:582-621).
SessionIsStable ==
  [][\A c \in Conns : Serving(c) /\ ~overlapped /\ ~overlapped' =>
       \/ connection' = c /\ trusted' /\ connected' /\ status' # "handlerPanic"
       \/ pc'[c] = "done"]_vars

\* Once the peer of a served connection is gone, the record stops naming that
\* connection, unless the session was abandoned or the process ends
\* (backend.go:584-591, 615-621).
ClosedIsReleased ==
  \A c \in Conns :
    (Serving(c) /\ c \in closed)
      ~> (connection # c \/ lostServe \/ status # "up")

-----------------------------------------------------------------------------
(* Claims the code does not keep.                                          *)

\* frontend.go:36, "is it currently connected to us?": Connected is true only
\* while some handler reads from the frontend.
ConnectedIsCurrent ==
  status = "up" /\ connected => \E c \in Conns : Live(c)

\* backend.go:418-419, "If auth succeeds, connection persists in a goroutine":
\* while a handler serves, the record keeps a connection to send on.
AuthenticatedPersists ==
  status = "up" /\ (\E c \in Conns : Serving(c)) => connection # None

\* backend.go:427-429, "Client will decrypt and compare": the answer to a
\* greeting is encrypted with the client's public key only, so its peer can
\* read it.
HelloAckReadable == garbled = {}

=============================================================================
