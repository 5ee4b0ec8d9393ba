------------------------ MODULE SecureChannelProps ------------------------
(***************************************************************************)
(* What the link promises while its goroutines do not meet in SendMessages *)
(* or in a message, and when they do, and what its comments claim beyond   *)
(* that.                                                                   *)
(***************************************************************************)
EXTENDS SecureChannel

\* Across every rotation of keys the client can read each packet, whichever
\* goroutine sends it, as long as two do not meet in SendMessages and none writes
\* or sends in the midst of another's message (backend.go:252-269, 627-640).
ClientFollows == crossed \/ broken = {}

\* When nothing is being sent and no key is being changed both ends hold the same
\* key and IV, so what the client sends next can be decrypted
\* (backend.go:594-596, 632-637).
Busy(p) == phase[p] \in {"tested", "sealed", "write", "reset"}
QuietMeansSynchronised ==
  taken = Len(wire) /\ rotating = 0 /\ (\A p \in Procs : ~Busy(p))
    => crossed \/ (ckey = skey /\ civ = siv)

\* The client comes to have all that was appended, also what its appender does not
\* send, unless goroutines meet, the session ends or the bound on draws is reached
\* (backend.go:612-613: the loop sends after it parses, whether it appended anything
\* or not; ssh.go:295, 697).
EverythingArrives ==
  Len(got) < appended
    ~> (Len(got) = appended \/ crossed \/ status # "serving" \/ drawn >= MaxDraws)

\* The link delivers each message once and in order; when goroutines meet
\* messages may be lost or torn, and even then the client acts on no whole one
\* twice or out of order: what two goroutines encrypt at once it cannot read
\* (backend.go:627-640; command.go:74-79).
Delivery == INSTANCE OrderedDelivery
              WITH submitted <- appended, delivered <- got, faulty <- crossed

InOrderDelivery == Delivery!Spec

-----------------------------------------------------------------------------
(* Claims the code does not keep.                                          *)

\* backend.go:249-250, "so that all messages from this point on can be
\* decrypted on the client": no packet under the old key follows the packet
\* that carries the new one.
RotationIsClean == "oldKey" \notin broken

\* backend.go:624, "Send all messages in the outgoing queue to the frontend":
\* a message put in the queue is not dropped from it.
NothingSkipped == \A i \in 1..Len(got) : got[i] = i

\* backend.go:600-601, "try again with the previous IV in case this message was
\* sent prior to receiving our last": such a message does not end the session.
PreviousIvIsTried ==
  [][ up # <<>> /\ up' = Tail(up) /\ Head(up) = [key |-> skey, iv |-> previv]
        => status' = "serving" ]_vars
=============================================================================
