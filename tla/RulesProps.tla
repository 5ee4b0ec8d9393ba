----------------------------- MODULE RulesProps -----------------------------
(***************************************************************************)
(* What the rules promise, and what their comments claim.                  *)
(***************************************************************************)
EXTENDS Rules

\* At every time of day, date and play time the count of needs and haves applies
\* a rule to exactly those who meet everything it asks for, unless it asks for a
\* client or an interval, which no code reads (ClientIsAsked, below), two of its
\* name patterns match at once, or it names a time inside an hour
\* (rules.go:50-216).
CheckRuleExact == \A r \in Catalog : Exact(r) => (CheckRule(r) <=> Required(r))

\* As long as no odd rule was checked: nobody is thrown out without a ban that
\* applied to them, or silenced for good or for a time without a mute or a
\* stifle that did, through relisting, restarts and edited rules
\* (rules.go:474-507, parse.go:219-231, maintenance.go:26-47).
NothingUncalled ==
  ~odd => /\ voice = "kicked" => "BAN" \in called
          /\ voice = "mute" => called \cap {"MUTE", "STIFLE"} # {}
          /\ voice = "timed" => "STIFLE" \in called

\* Once a ban has applied the person is out or gone, and once a mute has, and
\* no stifle besides it, they never talk again before they leave, whatever is
\* checked, listed, edited or restarted afterwards (rules.go:484-503).
SeverestHolds ==
  ~odd /\ voice # "absent" =>
    /\ "BAN" \in called => voice = "kicked"
    /\ "MUTE" \in called /\ "STIFLE" \notin called => voice \in {"mute", "kicked"}

-----------------------------------------------------------------------------
(* Claims the code does not keep.                                          *)

\* rule.proto:74-75, "If an exception matches as part of a rule that matches,
\* the rule will be considered to have not matched"; rules.go:39-40, "all of
\* them have to match": nobody is silenced or thrown out when no rule applies.
OnlyWhenRequired == voice \in {"timed", "mute", "kicked"} => called # {}

\* rule.proto:99, "string client = 5;        // game client/version (regex)", and
\* rules.go:39-40, "if multiple critera are specified in the rule, all of them
\* have to match, not just any single one": a ban that names a client throws out
\* nobody who plays with another.
ClientIsAsked ==
  voice = "kicked" =>
    \E r \in Catalog : r.type = "BAN" /\ ("client" \in r.asks => "client" \in r.met)

\* ssh.go:677, "persistent storage", and frontend.go:111, "Read rules from
\* disk": what was saved is in force, unless the console said that it could not
\* be written.
SavedIsInForce == disk \subseteq own \/ refused

\* rule.proto:63-64, "After, every and play_time will also be checked during
\* maintenance intervals": a mute that asks only for play time reaches everybody
\* who has played that long, unless it runs out or is removed, or they leave or
\* are listed again.
PlaytimeMutes == {r \in Catalog : r.type = "MUTE" /\ r.asks = {"playtime"}}
Due(r) == r \in own \cup wide /\ Required(r) /\ player.here
TimeRulesBite ==
  \A r \in PlaytimeMutes : Due(r) ~> (voice \in {"mute", "kicked"} \/ ~Due(r))

\* rules.go:236-239, "it doesn't matter if a mute or stifle also match them",
\* and 495, "no point stifling an already muted player": a mute outweighs every
\* stifle.
MuteOutweighsStifle ==
  ~odd /\ "MUTE" \in called => voice \in {"mute", "kicked", "absent"}

\* rule.proto:64-66, 'An "after 10:02AM" rule will match the next time
\* maintenance runs': a rule with a time of day inside an hour is read as one.
TimesAreTimes ==
  \A r \in Catalog : r.hits <= 1 => (CheckRule(r) <=> Required(r))

\* rule.proto:13, "they can talk, but only once per amount of time": a stifle
\* silences nobody for good.
StiflesEnd == ~odd /\ voice = "mute" => "MUTE" \in called
=============================================================================
