----------------------------- MODULE MCAccounts -----------------------------
EXTENDS AccountsProps, TLC

CONSTANTS a

\* The file has one user.
OneUser == <<[email |-> a, session |-> NoSession]>>

\* Sign-ins are not told apart, nor are people the file does not name.
Alikes == Permutations(SignIns) \cup Permutations(Emails \ {a})
=============================================================================
