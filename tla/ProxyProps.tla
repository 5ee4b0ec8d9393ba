----------------------------- MODULE ProxyProps -----------------------------
(***************************************************************************)
(* What an end may expect of a connection through the proxy.               *)
(***************************************************************************)
EXTENDS Proxy

\* Through the proxy each direction still is a connection: what arrives is what
\* was sent, in order, nothing left out and nothing twice, whichever end closes
\* or breaks first and whatever is cut off then (proxy/main.go:46-47, 54-57).
Upward   == INSTANCE OrderedDelivery
              WITH submitted <- sent["client"], delivered <- got["backend"], faulty <- FALSE
Downward == INSTANCE OrderedDelivery
              WITH submitted <- sent["backend"], delivered <- got["client"], faulty <- FALSE

LikeDirect == Upward!Spec /\ Downward!Spec

\* What an end sends before it closes in order reaches the other end, or waits
\* for it there, when the proxy is done, if the first had read all the other had
\* sent and the other has kept quiet since: an error message before a connection is
\* refused is not lost (proxy/main.go:38-49).
LastWords ==
  \A e \in clean : LET t == Other(e) IN
    main = "ended" /\ ~down /\ copying[e] # "none" /\ peer[t] = "open"
      => Len(got[t]) + Len(outq[t]) = sent[e]

\* When one end has gone the connection to the other is closed too, and neither
\* goroutine is left behind, unless the other end for ever stops reading
\* (proxy/main.go:38-49, 56).
Stalled(e) == copying[e] = "writing" /\ Len(outq[Other(e)]) = Window
Over == /\ main = "ended" /\ ~open["client"] /\ ~open["backend"]
        /\ \A e \in Ends : copying[e] \in {"none", "done"}
EndsTogether ==
  (\A e \in Ends : []<>~Stalled(e)) => \A e \in Ends : peer[e] # "open" ~> (Over \/ down)

-----------------------------------------------------------------------------
(* Claims the code does not keep.                                          *)

\* proxy/main.go:33-35, "error accepting connection" and continue: a connection
\* that cannot be accepted does no harm to those that have been.
SurvivesAccept == ~down
=============================================================================
