------------------------------ MODULE MCInvites ------------------------------
EXTENDS InvitesProps

CONSTANTS A, B

\* The frontend that may be deleted comes first.
Sorted == <<B, A>>
=============================================================================
