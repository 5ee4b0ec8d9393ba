-------------------------- MODULE OrderedDelivery --------------------------
(***************************************************************************)
(* What a connection promises, for the messages appended to a frontend's   *)
(* outgoing buffer or for the bytes sent through the proxy: they arrive in *)
(* the order in which they were submitted, several at a time, none twice,  *)
(* and, until the connection becomes faulty, none left out.  They are      *)
(* numbered from 1.                                                        *)
(***************************************************************************)
EXTENDS Naturals, Sequences

VARIABLES submitted,  \* messages submitted so far
          delivered,  \* the messages delivered, in the order of delivery
          faulty      \* messages may be left out from now on

Init == submitted = 0 /\ delivered = <<>> /\ faulty = FALSE

Submit ==
  /\ submitted' = submitted + 1 /\ faulty' \in {faulty, TRUE}
  /\ UNCHANGED delivered

Fault == faulty' = TRUE /\ UNCHANGED <<submitted, delivered>>

\* Of the messages submitted, n behind message m.
Deliver(m, n) ==
  /\ \A i \in 1..Len(delivered) : delivered[i] <= m
  /\ faulty \/ m = Len(delivered)
  /\ m + n <= submitted
  /\ delivered' = delivered \o [i \in 1..n |-> m + i]
  /\ UNCHANGED <<submitted, faulty>>

Next == Submit \/ Fault \/ \E m \in 0..submitted, n \in 1..submitted : Deliver(m, n)

Spec == Init /\ [][Next]_<<submitted, delivered, faulty>>
=============================================================================
