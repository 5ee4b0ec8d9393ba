---------------------------- MODULE ConsoleProps ----------------------------
(***************************************************************************)
(* What the console promises, and what its comments claim.                 *)
(***************************************************************************)
EXTENDS Console

\* A frontend's Terminals are the channels of the links to it that have begun
\* and have not ended, each once, and in the order they were opened, as long as
\* no two links opened or closed there at the same time and none closed while a
\* line was printed; so a line is sent on no closed channel and at no index that
\* is gone, which would end the process (ssh.go:308-311, 730,
\* frontend.go:359-384).
TerminalsKept ==
  /\ status \in {"closedChannel", "beyondSlice"} => overlap # {}
  /\ \A f \in Frontends \ overlap :
       /\ \A i, j \in DOMAIN terminals[f] : i < j => terminals[f][i] < terminals[f][j]
       /\ {terminals[f][i] : i \in DOMAIN terminals[f]} =
            {l \in At(f) : link[l].phase \notin {"opening", "ended"}}

\* The lines of one link on a terminal, then those kept back for it, are those
\* the link received, none lost, none twice, in order, through every pause, as
\* long as no line arrived while another was being kept or those kept were
\* shown (ssh.go:579-598, 718-726).
LinesOf(entries, l) ==
  LET of[n \in 0..Len(entries)] ==
        IF n = 0 THEN <<>>
        ELSE IF entries[n][1] = l THEN Append(of[n - 1], entries[n][2]) ELSE of[n - 1] IN
  of[Len(entries)]
Kept(s) == IF session[s].phase = "unpausing" THEN session[s].todo ELSE buffer[s]
Shown(l, received) ==
  IF l \in Busy(link[l].of) THEN SubSeq(received, 1, Len(received) - 1) ELSE received
StreamExact ==
  \A s \in Sessions \ mixed : \A l \in Of(s) :
    Shown(l, taken[l]) = LinesOf(screen[s] \o Kept(s), l)

\* A session that is over leaves no link behind: each ends and gives up its
\* channel, those of frontends that were left or lost included
\* (ssh.go:311, 729-731).
Lingering == \E l \in Opened : session[link[l].of].phase = "over" /\ link[l].phase # "ended"
StreamsEnd == Lingering ~> (~Lingering \/ ~Up)

-----------------------------------------------------------------------------
(* Claims the code does not keep.                                          *)

\* frontend.go:369-370, "so the frontend can close the console stream channel":
\* that is safe.
ClosingIsSafe == status \notin {"closedChannel", "beyondSlice"}

\* ssh.go:706-707, "and is stopped when the user switches frontends": a session
\* has one link that is not told to stop.
SwitchStopsLink ==
  \A l \in Opened : l # session[link[l].of].latest => link[l].cancelled

\* frontend.go:71, "pointers to the console streams": every link that waits for
\* lines has its channel in the list.
EveryStreamListed ==
  \A l \in Opened :
    link[l].phase = "waiting" =>
      \E i \in DOMAIN terminals[link[l].fe] : terminals[link[l].fe][i] = l

\* ssh.go:154-155, "When the terminal is resumed, these messages are sent to the
\* terminal and the structure set to nil": no line is shown twice on a terminal.
ShownOnce ==
  \A s \in Sessions : \A i, j \in DOMAIN screen[s] :
    i # j => screen[s][i] # screen[s][j]

\* ssh.go:304-313 and the prompt set there: commands reach the frontend the
\* session watches.
CommandsFollowPrompt ==
  \A s \in Sessions :
    session[s].active # NoFrontend => session[s].fe = session[s].active
=============================================================================
