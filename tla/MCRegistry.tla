----------------------------- MODULE MCRegistry -----------------------------
EXTENDS RegistryProps, TLC

\* Neither the requests nor the names are told apart.
Alikes == Permutations(Requests) \cup Permutations(Names)
=============================================================================
