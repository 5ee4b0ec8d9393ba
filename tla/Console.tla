------------------------------ MODULE Console ------------------------------
(***************************************************************************)
(* The console that admins reach by SSH: sessions that choose a frontend,  *)
(* the goroutines that link a frontend's stream of lines to a terminal     *)
(* (linkFrontendToTerminal), the channels of those links in fe.Terminals,  *)
(* and the goroutines that print a line on all of them (SSHPrintln).       *)
(*                                                                         *)
(* No lock guards any of it: a step here is a read or a write of a shared  *)
(* slice.  A line is sent only to a link that waits for one at that        *)
(* moment; a channel has no buffer.  What commands do to a frontend is not *)
(* modelled here, only which frontend they reach.                          *)
(***************************************************************************)
EXTENDS Integers, Sequences, FiniteSets

CONSTANTS
  Sessions, Frontends, Printers, NoFrontend,
  MaxLinks, MaxLines     \* bounds: links opened, lines printed in all

ASSUME NoFrontendAssumption == NoFrontend \notin Frontends
ASSUME FrontendsAssumption == Frontends # {}
ASSUME BoundsAssumption == MaxLinks \in Nat /\ MaxLines \in Nat

Links == 1..MaxLinks
Lines == 1..MaxLines

VARIABLES
  status,     \* "up", or what ended the process
  online,     \* frontends connected and trusted
  terminals,  \* fe.Terminals
  session,    \* per session of sessionHandler
  buffer,     \* sshterm.buffer
  screen,     \* what a terminal shows, the stream's lines only
  link,       \* per call of linkFrontendToTerminal
  opened,     \* how many links were opened
  printer,    \* per goroutine that prints
  lines,      \* how many lines were printed
  taken,      \* history: lines each link received
  overlap,    \* history: frontends at which two links opened or closed at the
              \* same time, or one closed while a line was printed
  mixed       \* history: sessions in which a line arrived while another was
              \* kept back or while those kept back were shown

history == <<taken, overlap, mixed>>
termVars == <<session, buffer, screen>>
printVars == <<printer, lines>>
vars == <<status, online, terminals, termVars, link, opened, printVars, history>>

Entry == Links \X Lines

\* phase "idle": waits for a command; "linking": opens a link; todo: lines
\* "unpause" has still to show; latest: the link whose cancel function the
\* session holds, 0 for none.
Session == [phase : {"out", "idle", "linking", "unpausing", "over"},
            fe : Frontends \cup {NoFrontend}, active : Frontends \cup {NoFrontend},
            paused : BOOLEAN, latest : 0..MaxLinks, todo : Seq(Entry)]

\* phase "opening": its session is about to set Terminals, its goroutine has
\* not begun; line: the one in hand; kept: the buffer as it was read; rest: the
\* list that Terminals are to be, while the link opens or closes.
Link == [of : Sessions, fe : Frontends,
         phase : {"opening", "starting", "waiting", "got", "keeping", "closing", "ended"},
         line : 0..MaxLines, cancelled : BOOLEAN, closed : BOOLEAN,
         kept : Seq(Entry), rest : Seq(Links)]

\* next, last: index of the loop and the length the loop began with; last 0 is
\* a goroutine that prints nothing.
Printer == [fe : Frontends, line : 0..MaxLines, next : Links \cup {1},
            last : 0..MaxLinks]

TypeOK ==
  /\ status \in {"up", "closedChannel", "beyondSlice", "nilFrontend"}
  /\ online \subseteq Frontends
  /\ terminals \in [Frontends -> Seq(Links)]
  /\ session \in [Sessions -> Session]
  /\ buffer \in [Sessions -> Seq(Entry)] /\ screen \in [Sessions -> Seq(Entry)]
  /\ opened \in 0..MaxLinks /\ link \in [1..opened -> Link]
  /\ printer \in [Printers -> Printer] /\ lines \in 0..MaxLines
  /\ taken \in [1..opened -> Seq(Lines)]
  /\ overlap \subseteq Frontends /\ mixed \subseteq Sessions

Init ==
  /\ status = "up" /\ online = Frontends
  /\ terminals = [f \in Frontends |-> <<>>]
  /\ session = [s \in Sessions |->
       [phase |-> "out", fe |-> NoFrontend, active |-> NoFrontend,
        paused |-> FALSE, latest |-> 0, todo |-> <<>>]]
  /\ buffer = [s \in Sessions |-> <<>>] /\ screen = [s \in Sessions |-> <<>>]
  /\ opened = 0 /\ link = <<>>
  /\ printer \in [Printers -> {[fe |-> f, line |-> 0, next |-> 1, last |-> 0] :
                                 f \in {CHOOSE f \in Frontends : TRUE}}]
  /\ lines = 0 /\ taken = <<>> /\ overlap = {} /\ mixed = {}

Up == status = "up"

Opened == 1..opened
At(f) == {l \in Opened : link[l].fe = f}
Of(s) == {l \in Opened : link[l].of = s}

Closing(f) == \E l \in At(f) : link[l].phase = "closing"
Changing(f) == \E l \in At(f) : link[l].phase \in {"opening", "closing"}
Printing(f) == \E p \in Printers : printer[p].last > 0 /\ printer[p].fe = f
Overlaps(f, bad) == overlap' = IF bad THEN overlap \cup {f} ELSE overlap

-----------------------------------------------------------------------------
(* The session.                                                            *)

Login(s) ==
  /\ Up /\ session[s].phase = "out"
  /\ session' = [session EXCEPT ![s].phase = "idle"]
  /\ UNCHANGED <<status, online, terminals, buffer, screen, link, opened,
                 printVars, history>>

\* A command is looked at only if the frontend watched is still connected.
Attends(s) ==
  /\ Up /\ session[s].phase = "idle"
  /\ session[s].active \in online \cup {NoFrontend}

\* "server <name>" reads Terminals to add a channel.  The link to the frontend
\* watched so far is not cancelled.
Server(s, f) ==
  /\ Attends(s) /\ f \in online /\ opened < MaxLinks
  /\ opened' = opened + 1
  /\ link' = Append(link, [of |-> s, fe |-> f, phase |-> "opening", line |-> 0,
                           cancelled |-> FALSE, closed |-> FALSE, kept |-> <<>>,
                           rest |-> Append(terminals[f], opened + 1)])
  /\ session' = [session EXCEPT ![s].phase = "linking", ![s].fe = f, ![s].active = f,
                                ![s].latest = opened + 1]
  /\ taken' = Append(taken, <<>>)
  /\ Overlaps(f, Changing(f))
  /\ UNCHANGED <<status, online, terminals, buffer, screen, printVars, mixed>>

\* The lists that may come of adding the channel of l: append writes it in the
\* array it read if that has room, and so does another append that read the
\* same list, or did and has set Terminals since.  How much room there is, is
\* not modelled.
Extended(f, l) ==
  {link[l].rest} \cup
  {list \in {link[k].rest : k \in {k \in At(f) : link[k].phase = "opening"}} \cup {terminals[f]} :
     /\ Len(list) = Len(link[l].rest)
     /\ \A i \in DOMAIN list : i # Len(list) => list[i] = link[l].rest[i]}

\* It sets Terminals, and the goroutine of the link begins.
Linked(s, l) ==
  /\ Up /\ session[s].phase = "linking" /\ link[l].phase = "opening"
  /\ \E list \in Extended(link[l].fe, l) : terminals' = [terminals EXCEPT ![link[l].fe] = list]
  /\ link' = [link EXCEPT ![l].phase = "starting", ![l].rest = <<>>]
  /\ session' = [session EXCEPT ![s].phase = "idle"]
  /\ UNCHANGED <<status, online, buffer, screen, opened, printVars, history>>

\* "server <name>" for a frontend that is offline or, NoFrontend, unknown: the
\* session's own variable has it all the same.
ServerRefused(s, f) ==
  /\ Attends(s) /\ f \notin online
  /\ session' = [session EXCEPT ![s].fe = f]
  /\ UNCHANGED <<status, online, terminals, buffer, screen, link, opened,
                 printVars, history>>

\* The next line typed after the frontend watched has gone.
ServerDropped(s) ==
  /\ Up /\ session[s].phase = "idle"
  /\ session[s].active \notin online \cup {NoFrontend}
  /\ link' = IF session[s].latest = 0 THEN link
             ELSE [link EXCEPT ![session[s].latest].cancelled = TRUE]
  /\ session' = [session EXCEPT ![s].active = NoFrontend]
  /\ UNCHANGED <<status, online, terminals, buffer, screen, opened, printVars, history>>

\* "consolesay" or "rules": the frontend watched allows the command, the one
\* looked up last gets it, and there may be none.
CommandToNone(s) ==
  /\ Attends(s) /\ session[s].active # NoFrontend /\ session[s].fe = NoFrontend
  /\ status' = "nilFrontend"
  /\ UNCHANGED <<online, terminals, termVars, link, opened, printVars, history>>

Pause(s) ==
  /\ Attends(s) /\ session[s].active # NoFrontend /\ ~session[s].paused
  /\ session' = [session EXCEPT ![s].paused = TRUE]
  /\ UNCHANGED <<status, online, terminals, buffer, screen, link, opened,
                 printVars, history>>

\* Links of s with a line in hand.
Busy(s) == {l \in Of(s) : link[l].phase \in {"got", "keeping"}}

\* "unpause" stops keeping lines, then shows those kept, then forgets them.
Unpause(s) ==
  /\ Attends(s) /\ session[s].active # NoFrontend /\ session[s].paused
  /\ session' = [session EXCEPT ![s].paused = FALSE, ![s].phase = "unpausing",
                                ![s].todo = buffer[s]]
  /\ mixed' = IF Busy(s) # {} THEN mixed \cup {s} ELSE mixed
  /\ UNCHANGED <<status, online, terminals, buffer, screen, link, opened,
                 printVars, taken, overlap>>

UnpauseLine(s) ==
  /\ Up /\ session[s].phase = "unpausing" /\ session[s].todo # <<>>
  /\ screen' = [screen EXCEPT ![s] = Append(@, Head(session[s].todo))]
  /\ session' = [session EXCEPT ![s].todo = Tail(@)]
  /\ UNCHANGED <<status, online, terminals, buffer, link, opened, printVars, history>>

\* Mutant of Forget: the lines shown stay in the buffer.
ForgetNothing(s) == buffer' = buffer

Forget(s) == buffer' = [buffer EXCEPT ![s] = <<>>]

UnpauseEnd(s) ==
  /\ Up /\ session[s].phase = "unpausing" /\ session[s].todo = <<>>
  /\ Forget(s)
  /\ session' = [session EXCEPT ![s].phase = "idle"]
  /\ UNCHANGED <<status, online, terminals, screen, link, opened, printVars, history>>

\* Mutant of Deferred: only the function of the last "server" is called.
DeferredLast(s) == Of(s) \cap {session[s].latest}

\* The links whose cancel functions a session that ends calls: each was
\* deferred.
Deferred(s) == Of(s)

\* "quit", or the user's connection is lost.
Quit(s) ==
  /\ Up /\ session[s].phase = "idle"
  /\ session' = [session EXCEPT ![s].phase = "over"]
  /\ link' = [l \in Opened |-> [link[l] EXCEPT !.cancelled = @ \/ l \in Deferred(s)]]
  /\ UNCHANGED <<status, online, terminals, buffer, screen, opened, printVars, history>>

-----------------------------------------------------------------------------
(* The frontend: it comes and goes, and lines are printed.                 *)

GoesOrComes(f) ==
  /\ Up
  /\ online' = IF f \in online THEN online \ {f} ELSE online \cup {f}
  /\ UNCHANGED <<status, terminals, termVars, link, opened, printVars, history>>

\* SSHPrintln begins.
PrintLine(p, f) ==
  /\ Up /\ printer[p].last = 0 /\ terminals[f] # <<>> /\ lines < MaxLines
  /\ lines' = lines + 1
  /\ printer' = [printer EXCEPT ![p] =
       [fe |-> f, line |-> lines + 1, next |-> 1, last |-> Len(terminals[f])]]
  /\ Overlaps(f, Closing(f))
  /\ UNCHANGED <<status, online, terminals, termVars, link, opened, taken, mixed>>

\* The next turn of the loop, or its end.
Turn(q) ==
  IF q.next = q.last THEN [q EXCEPT !.next = 1, !.last = 0] ELSE [q EXCEPT !.next = @ + 1]

\* One turn of the loop reads Terminals again.
PrintTo(p) ==
  LET q == printer[p]  ts == terminals[q.fe]  l == ts[q.next] IN
  /\ Up /\ q.last > 0
  /\ \/ /\ q.next > Len(ts)
        /\ status' = "beyondSlice" /\ UNCHANGED <<link, printer, taken, mixed>>
     \/ /\ q.next <= Len(ts) /\ link[l].closed
        /\ status' = "closedChannel" /\ UNCHANGED <<link, printer, taken, mixed>>
     \/ /\ q.next <= Len(ts) /\ ~link[l].closed
        /\ printer' = [printer EXCEPT ![p] = Turn(q)]
        /\ IF link[l].phase = "waiting" /\ ~link[l].cancelled
             THEN /\ link' = [link EXCEPT ![l].phase = "got", ![l].line = q.line]
                  /\ taken' = [taken EXCEPT ![l] = Append(@, q.line)]
                  /\ mixed' = IF \/ session[link[l].of].phase = "unpausing"
                                 \/ Busy(link[l].of) # {}
                                THEN mixed \cup {link[l].of} ELSE mixed
             ELSE UNCHANGED <<link, taken, mixed>>
        /\ UNCHANGED status
  /\ UNCHANGED <<online, terminals, termVars, opened, lines, overlap>>

-----------------------------------------------------------------------------
(* A link.                                                                 *)

\* It greets the user before it waits for lines.
Connects(l) ==
  /\ Up /\ link[l].phase = "starting"
  /\ link' = [link EXCEPT ![l].phase = "waiting"]
  /\ UNCHANGED <<status, online, terminals, termVars, opened, printVars, history>>

\* A line is shown, or the buffer is read so that it can be kept.
Show(l) ==
  LET s == link[l].of IN
  /\ Up /\ link[l].phase = "got"
  /\ IF session[s].paused
       THEN /\ link' = [link EXCEPT ![l].phase = "keeping", ![l].kept = buffer[s]]
            /\ UNCHANGED screen
       ELSE /\ link' = [link EXCEPT ![l].phase = "waiting", ![l].line = 0]
            /\ screen' = [screen EXCEPT ![s] = Append(@, <<l, link[l].line>>)]
  /\ UNCHANGED <<status, online, terminals, session, buffer, opened, printVars, history>>

\* The buffer is what was read, and the line.
Keep(l) ==
  LET s == link[l].of IN
  /\ Up /\ link[l].phase = "keeping"
  /\ buffer' = [buffer EXCEPT ![s] = Append(link[l].kept, <<l, link[l].line>>)]
  /\ link' = [link EXCEPT ![l].phase = "waiting", ![l].line = 0, ![l].kept = <<>>]
  /\ UNCHANGED <<status, online, terminals, session, screen, opened, printVars, history>>

\* Mutant of TerminalDisconnected: the closed channel stays.
TerminalStays(f, l) == {terminals[f]}

\* TerminalDisconnected: the channels of fe.Terminals but this one, in order.
TerminalDisconnected(f, l) ==
  LET kept == {i \in DOMAIN terminals[f] : terminals[f][i] # l} IN
  {[i \in DOMAIN q |-> terminals[f][q[i]]] :
     q \in {o \in [1..Cardinality(kept) -> kept] : \A i, j \in DOMAIN o : i < j => o[i] < o[j]}}

\* The link is cancelled: it closes its channel if that is still in Terminals.
Cancelled(l) ==
  LET f == link[l].fe IN
  /\ Up /\ link[l].phase = "waiting" /\ link[l].cancelled
  /\ \E rest \in TerminalDisconnected(f, l) :
       link' = [link EXCEPT ![l].phase = "closing",
                  ![l].closed = \E i \in DOMAIN terminals[f] : terminals[f][i] = l,
                  ![l].rest = rest]
  /\ Overlaps(f, Changing(f) \/ Printing(f))
  /\ UNCHANGED <<status, online, terminals, termVars, opened, printVars, taken, mixed>>

\* It sets Terminals to what it found before.
Ends(l) ==
  /\ Up /\ link[l].phase = "closing"
  /\ terminals' = [terminals EXCEPT ![link[l].fe] = link[l].rest]
  /\ link' = [link EXCEPT ![l].phase = "ended", ![l].rest = <<>>]
  /\ UNCHANGED <<status, online, termVars, opened, printVars, history>>

-----------------------------------------------------------------------------
LinkSteps(l) == Connects(l) \/ Show(l) \/ Keep(l) \/ Cancelled(l) \/ Ends(l)

Next ==
  \/ \E s \in Sessions :
       \/ Login(s) \/ ServerDropped(s) \/ CommandToNone(s) \/ Pause(s)
       \/ Unpause(s) \/ UnpauseLine(s) \/ UnpauseEnd(s) \/ Quit(s)
       \/ \E f \in Frontends : Server(s, f)
       \/ \E l \in Of(s) : Linked(s, l)
       \/ \E f \in Frontends \cup {NoFrontend} : ServerRefused(s, f)
  \/ \E f \in Frontends : GoesOrComes(f) \/ \E p \in Printers : PrintLine(p, f)
  \/ \E p \in Printers : PrintTo(p)
  \/ \E l \in Opened : LinkSteps(l)

Spec == Init /\ [][Next]_vars

\* Every goroutine that can go on does.
FairSpec == Spec /\ \A l \in Links : WF_vars(l \in Opened /\ LinkSteps(l))
=============================================================================
