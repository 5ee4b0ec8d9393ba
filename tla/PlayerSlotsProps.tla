-------------------------- MODULE PlayerSlotsProps --------------------------
(***************************************************************************)
(* What the records of players promise, and what their comments claim.     *)
(***************************************************************************)
EXTENDS PlayerSlots

\* The sum of the scores of all slots.
Total(scores) ==
  LET sum[n \in 0..MaxPlayers] ==
        IF n = 0 THEN Zero ELSE Plus(sum[n - 1], scores[n - 1])
  IN sum[MaxPlayers]

\* Players that join, are listed again, leave or are dropped by a reconnect:
\* the counter never falls below the slots in use, so it is positive whenever
\* there is somebody to show (parse.go:419-420, player.go:128, backend.go:565).
CountCoversSlots == count >= Cardinality(Used)

\* Every frag is somebody's death: over all records, past and present, frags
\* are deaths less two for each suicide, whomever the names in the obituaries
\* are taken for (parse.go:318-359).
BooksBalance ==
  LET all == Plus(Total(gone), Total([s \in Slots |-> players[s].score])) IN
  all.frags = all.deaths - 2 * all.suicides

\* The ratio stored with a record is the one its score gives, and no score is
\* one a game cannot end with (parse.go:331-356).
ScoreConsistent ==
  \A s \in Slots : LET p == players[s] IN
    /\ p.kdr = CalculateKDR(p.score.frags, p.score.deaths)
    /\ p.score.suicides <= p.score.deaths
    /\ p.score.frags >= -p.score.suicides

\* Until Shutdown the statistics of a player are written at most once, and not
\* before the player has left, in whatever order slots are reused, listed again
\* and reset (player.go:117-130).
StatsOnce ==
  status = "up" =>
    \A r \in 1..MaxRows :
      stat[r] <= IF \E s \in Used : players[s].row = r THEN 0 ELSE 1

\* As long as obituaries come when every player is announced and has a name of
\* their own, the backend's score of each player is the game's, through
\* renames, new maps, reconnects and reused slots (parse.go:318-359).
ScoresAgree == ~unclear => \A s \in Used : roster[s] # None => players[s].score = truth[s]

\* A player whose host a mute rule names is muted in the end, unless the record
\* is replaced, the look-up for somebody who had the slot before puts another
\* host in it, or the process ends (parse.go:252-272).
Joined(r) ==
  \E t \in tasks : /\ t.stage = "rules" /\ t.array = "current"
                   /\ players[t.slot].used /\ players[t.slot].row = r
                   /\ players[t.slot].host \in BadHosts
Resolved(r) ==
  \/ \E s \in Used : players[s].row = r /\ players[s].muted
  \/ ~ \E s \in Used : players[s].row = r /\ players[s].host \in BadHosts
  \/ ~Running
BadHostIsMuted == \A r \in 1..MaxRows : Joined(r) ~> Resolved(r)

-----------------------------------------------------------------------------
(* Claims the code does not keep.                                          *)

Leq(a, b) == a[1] * b[2] <= b[1] * a[2]
SameRecord(s) == players[s].used /\ players'[s].used /\ rows' = rows

\* frontend.go:59-60, "len(Players)", "all the connected players": the counter
\* is the number of players.
CountIsUsed == Running => count = Cardinality(Used)

\* frontend.go:562, "Write player data to the database for all players": for
\* each of them, once.
WrittenOnce == \A r \in 1..MaxRows : stat[r] <= 1

\* parse.go:238, "Apply any rules that match them": nobody is muted whom no
\* rule matches.
MutesMatch ==
  \A s \in Used : players[s].muted => players[s].person \in BadHosts \/ TimeRule

\* parse.go:249-251, "we need to wait for a PTR before processing rules": the
\* wait does not depend on the player staying.
LeaverIsHarmless == status # "emptySlot"

\* parse.go:387, "WARN: invalid client number": such a number is refused.
BadNumberIsRefused == status # "badNumber"

\* parse.go:444, "A player changed their userinfo, reparse it and re-apply
\* rules": a record that takes a name some rule matches is checked.
RenameIsRechecked ==
  [][\A s \in Slots :
       /\ SameRecord(s)
       /\ players[s].name \notin BadNames /\ players'[s].name \in BadNames
       => players'[s].muted \/ \E t \in tasks' : t.slot = s]_vars

\* frontend.go:505-508, "a larger negative number instead of an increasingly
\* smaller number as deaths increase".
DeathNeverHelps ==
  [][\A s \in Slots :
       /\ SameRecord(s)
       /\ players[s].score.deaths < players'[s].score.deaths
       /\ players'[s].score.frags <= players[s].score.frags
       => Leq(players'[s].kdr, players[s].kdr)]_vars

\* meansofdeath.go:56, "Figure out who killed who and how": deaths are counted
\* for the one who died.
DeathsAreTheirs ==
  \A s \in Used : players[s].score.deaths = truth[s].deaths

\* parse.go:330, "single-sided frag": only deaths without a murderer count as
\* suicides.
SuicidesAreOwn ==
  \A s \in Used : players[s].score.suicides <= truth[s].suicides
=============================================================================
