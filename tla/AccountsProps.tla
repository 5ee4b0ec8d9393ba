--------------------------- MODULE AccountsProps ---------------------------
(***************************************************************************)
(* What the website promises its users, and what its comments claim.       *)
(***************************************************************************)
EXTENDS Accounts

\* Two users never have the same address, however sign-ins follow each other,
\* fail half way or are cut off by a restart, unless one ran into another that
\* was making a user (oauth.go:376-388).
UsersDistinct ==
  ~crossed => \A i, j \in DOMAIN users :
                user[users[i]].email = user[users[j]].email => i = j

\* Whoever has been given a cookie is recognised by it until it expires, through
\* the sign-ins of others and, if a secret is configured, through restarts;
\* without one, until the next start.  Unless sign-ins ran into each other or the
\* file could not be written (oauth.go:387-423, website.go:240-257,
\* backend.go:758-763, 795-798).
SignInLasts ==
  ~crossed /\ ~spoiled =>
    \A c \in cookies : configured \/ c \notin outdated => Accepted(c)

-----------------------------------------------------------------------------
(* Claims the code does not keep.                                          *)

\* website.go:537, "Remove any active sessions": a session that was signed out is
\* not accepted any more.
SignedOutIsOut == \A c \in signedOut : ~Accepted(c)

\* identity.go:25, "there is either an active session (cookie-based)": the
\* cookie of the last sign-in of a user is such a session for the API.
SessionsReachTheAPI ==
  \A c \in cookies : (\E i \in DOMAIN users : user[users[i]].session = c.id) => ValidateSession(c)
=============================================================================
