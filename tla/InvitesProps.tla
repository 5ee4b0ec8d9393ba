---------------------------- MODULE InvitesProps ----------------------------
(***************************************************************************)
(* What the limits promise, and what the comments on them claim.           *)
(***************************************************************************)
EXTENDS Invites

\* A bucket never holds more than its maximum, and never owes a token, which
\* would lift the limit: the command tests for zero.  The exception: handler and
\* maintenance have written it at once (invite.go:29, 64, frontend.go:97-105).
BucketBounded ==
  \A f \in Frontends : handler[f] # 0 =>
    /\ Tokens(f) <= MaxInviteTokens \/ f \in raced
    /\ Tokens(f) >= 0

\* Player c of frontend f gives an invite in this step.
GivesInvite(f, c) ==
  /\ taking[f] = Idle /\ taking'[f].phase = "inviting"
  /\ sent'[f][c] # sent[f][c]

\* PlayerTokens + 1 invites of one player on one connection take longer than the
\* wait of a player who has none left, whatever the pauses between them, as long
\* as the slot is not listed anew (invite.go:36-52).
PlayerRate ==
  [][\A f \in Frontends, c \in Clients :
       GivesInvite(f, c) /\ Len(sent[f][c]) = PlayerTokens
         => sent[f][c][PlayerTokens] > PlayerWait]_vars

\* A full bucket and the additions in one interval are all the invites a
\* server's players can give in an interval (invite.go:29, frontend.go:97-105).
ServerRate ==
  [][\A f \in Frontends :
       (\E c \in Clients : GivesInvite(f, c)) /\ f \notin raced /\ Len(uses[f]) = MaxInviteTokens + 1
         => uses[f][MaxInviteTokens + 1] > Freq]_vars

\* An empty bucket is refilled while its frontend stays connected, unless an
\* array of copies takes the place of the list (maintenance.go:21-25).
RefillArrives ==
  \A f \in Live :
    (handler[f] = Now /\ Tokens(f) = 0)
      ~> (down \/ handler[f] # Now \/ Tokens(f) > 0)

-----------------------------------------------------------------------------
(* Claims the code does not keep.                                          *)

\* frontend.go:82-83, "The bucket is refilled by the maintenance thread": also
\* when another frontend has been deleted.
RefillAlways ==
  \A f \in Live :
    (handler[f] # 0 /\ Tokens(f) = 0) ~> (down \/ handler[f] = 0 \/ Tokens(f) > 0)

\* frontend.go:96-98, "A token will only be added if it's appropriate: below max
\* level".
NeverOverfilled == \A f \in Frontends : handler[f] # 0 => Tokens(f) <= MaxInviteTokens

\* maintenance.go:9-10, "Maintenance is run concurrently to the rest of the
\* program": for as long as the program does.
StaysUp == ~down
=============================================================================
