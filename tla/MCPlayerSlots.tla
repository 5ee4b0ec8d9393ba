--------------------------- MODULE MCPlayerSlots ---------------------------
EXTENDS PlayerSlotsProps, TLC

CONSTANTS p1, p2, n1, n2

\* Both persons may take both names; each has one of their own; one may take
\* the other's.
AnyName == [p \in Persons |-> Names]
OwnName == p1 :> {n1} @@ p2 :> {n2}
SharedName == p1 :> {n1} @@ p2 :> {n1, n2}
=============================================================================
