--------------------------- MODULE Console_proofs ---------------------------
(***************************************************************************)
(* For every number of sessions, frontends, printing goroutines, links and *)
(* lines: a frontend's Terminals keep to its links (KeptInv), and a        *)
(* terminal shows what its links received (StreamInv).                     *)
(***************************************************************************)
EXTENDS ConsoleProps, FiniteSetTheorems, FunctionTheorems, SequenceTheorems,
        WellFoundedInduction, TLAPS

-----------------------------------------------------------------------------
(* The invariants.                                                         *)

Ascending(links) == \A i, j \in DOMAIN links : i < j => links[i] < links[j]
Members(links) == {links[i] : i \in DOMAIN links}

\* Terminals, and what is to become of them, are links in the order they were
\* opened, races or not.
InOrder ==
  /\ \A f \in Frontends : Ascending(terminals[f]) /\ Members(terminals[f]) \subseteq Opened
  /\ \A l \in Opened : Ascending(link[l].rest) /\ Members(link[l].rest) \subseteq Opened

\* The loop of a goroutine that prints a line.
LoopRuns ==
  \A p \in Printers : printer[p].last > 0 =>
    printer[p].next <= printer[p].last /\ printer[p].line # 0

\* A link that was sent a line has it.
HandsFull == \A l \in Opened : link[l].phase \in {"got", "keeping"} => link[l].line # 0

TypeInv == TypeOK /\ InOrder /\ LoopRuns /\ HandsFull

\* The links of a frontend that have begun and have not ended.
Open(f) == {l \in At(f) : link[l].phase \notin {"opening", "ended"}}

\* A channel that is closed belongs to a link that is on its way out.
ClosedLeaves == \A l \in Opened : link[l].closed => link[l].phase \in {"closing", "ended"}

\* Where no steps overlapped: one link opens or closes at a time, and nobody
\* prints while one closes, so what it found is what is there when it sets
\* Terminals.
Exact(f) ==
  /\ Members(terminals[f]) = Open(f)
  /\ \A l \in At(f) : link[l].phase = "closing" => Members(link[l].rest) = Open(f) \ {l}
  /\ \A l \in At(f) : link[l].phase = "opening" => link[l].rest = Append(terminals[f], l)
  /\ \A k, l \in At(f) :
       link[k].phase \in {"opening", "closing"} /\ link[l].phase \in {"opening", "closing"} => k = l
  /\ \A p \in Printers : printer[p].last > 0 /\ printer[p].fe = f =>
       ~Closing(f) /\ printer[p].last <= Len(terminals[f])

KeptInv ==
  /\ TypeInv /\ ClosedLeaves
  /\ status \in {"closedChannel", "beyondSlice"} => overlap # {}
  /\ \A f \in Frontends \ overlap : Exact(f)

-----------------------------------------------------------------------------
(* Lists of links.                                                         *)

\* What TerminalDisconnected leaves: the others, in order.
LEMMA WithoutLink ==
  ASSUME NEW f \in Frontends, NEW l, terminals[f] \in Seq(Links), Ascending(terminals[f]),
         NEW rest \in TerminalDisconnected(f, l)
  PROVE  /\ rest \in Seq(Links) /\ Ascending(rest)
         /\ Members(rest) = Members(terminals[f]) \ {l}
<1> DEFINE ts == terminals[f]
           K == {i \in DOMAIN ts : ts[i] # l}
           n == Cardinality(K)
<1>1. IsFiniteSet(K) /\ n \in Nat /\ K \subseteq 1..Len(ts)
  <2>1. DOMAIN ts = 1..Len(ts) /\ 1 \in Int /\ Len(ts) \in Int
    OBVIOUS
  <2>2. IsFiniteSet(1..Len(ts)) /\ K \in SUBSET (1..Len(ts))
    BY <2>1, FS_Interval
  <2> QED
    BY <2>2, FS_Subset, FS_CardinalityType
<1>2. PICK q \in [1..n -> K] : /\ rest = [i \in DOMAIN q |-> ts[q[i]]]
                               /\ \A i, j \in DOMAIN q : i < j => q[i] < q[j]
  BY DEF TerminalDisconnected
<1>3. \A k \in K : ts[k] \in Links /\ ts[k] # l /\ k \in Nat
  OBVIOUS
<1>4. \A i \in DOMAIN ts : ts[i] # l => i \in K
  OBVIOUS
<1>5. K \subseteq DOMAIN ts
  OBVIOUS
<1> HIDE DEF K, n
<1>6. DOMAIN q = 1..n /\ \A i \in 1..n : q[i] \in K
  BY <1>2
<1>7. [i \in 1..n |-> ts[q[i]]] \in Seq(Links)
  <2>1. \A i \in 1..n : ts[q[i]] \in Links
    BY <1>3, <1>6
  <2> HIDE DEF ts
  <2> QED
    BY <1>1, <2>1
<1>8. rest \in Seq(Links) /\ DOMAIN rest = 1..n /\ \A i \in 1..n : rest[i] = ts[q[i]]
  BY <1>2, <1>6, <1>7
<1>9. Ascending(rest)
  <2> SUFFICES ASSUME NEW i \in 1..n, NEW j \in 1..n, i < j PROVE rest[i] < rest[j]
    BY <1>8 DEF Ascending
  <2>1. q[i] < q[j] /\ q[i] \in DOMAIN ts /\ q[j] \in DOMAIN ts
    BY <1>2, <1>5, <1>6
  <2> QED
    BY <1>8, <2>1 DEF Ascending
<1>10. \A k \in K : \E i \in 1..n : q[i] = k
  <2>1. q \in Injection(1..n, K)
    <3>1. \A i, j \in 1..n : q[i] = q[j] => i = j
      <4> SUFFICES ASSUME NEW i \in 1..n, NEW j \in 1..n, q[i] = q[j], i # j PROVE FALSE
        OBVIOUS
      <4>1. i < j \/ j < i
        BY <1>1
      <4>2. q[i] \in Nat
        BY <1>3, <1>6
      <4> QED
        BY <1>2, <1>6, <4>1, <4>2
    <3> QED
      BY <3>1, Fun_IsInj
  <2>2. Cardinality(1..n) = n
    BY <1>1, FS_Interval
  <2>3. n = Cardinality(K)
    BY DEF n
  <2>4. q \in Surjection(1..n, K)
    BY <1>1, <2>1, <2>2, <2>3, FS_Injection
  <2> QED
    BY <2>4 DEF Surjection
<1>11. Members(rest) = Members(ts) \ {l}
  <2>1. ASSUME NEW x \in Members(rest) PROVE x \in Members(ts) \ {l}
    <3>1. PICK i \in 1..n : x = ts[q[i]]
      BY <1>8, <2>1 DEF Members
    <3> QED
      BY <1>3, <1>5, <1>6, <3>1 DEF Members
  <2>2. ASSUME NEW x \in Members(ts) \ {l} PROVE x \in Members(rest)
    <3>1. PICK k \in DOMAIN ts : x = ts[k]
      BY <2>2 DEF Members
    <3>2. k \in K
      BY <1>4, <2>2, <3>1
    <3>3. PICK i \in 1..n : q[i] = k
      BY <1>10, <3>2
    <3>4. rest[i] = x
      BY <1>8, <3>1, <3>3
    <3> QED
      BY <1>8, <3>4 DEF Members
  <2> QED
    BY <2>1, <2>2
<1> QED
  BY <1>8, <1>9, <1>11

\* A list of links has room for each of them once.
LEMMA NoLonger ==
  ASSUME NEW ts \in Seq(Links), Ascending(ts), NEW n \in Nat, Members(ts) \subseteq 1..n
  PROVE  Len(ts) <= n
<1>1. DOMAIN ts = 1..Len(ts) /\ Len(ts) \in Nat
  OBVIOUS
<1>2. \A i, j \in 1..Len(ts) : ts[i] = ts[j] => i = j
  <2> SUFFICES ASSUME NEW i \in 1..Len(ts), NEW j \in 1..Len(ts), ts[i] = ts[j], i # j
               PROVE  FALSE
    OBVIOUS
  <2>1. i < j \/ j < i
    BY <1>1
  <2>2. ts[i] \in Nat
    <3>1. ts[i] \in Links
      BY <1>1
    <3> QED
      BY <3>1, BoundsAssumption DEF Links
  <2> QED
    BY <1>1, <2>1, <2>2 DEF Ascending
<1>3. ts \in [1..Len(ts) -> 1..n]
  BY <1>1 DEF Members
<1>4. ts \in Injection(1..Len(ts), 1..n)
  BY <1>2, <1>3, Fun_IsInj
<1>5. /\ IsFiniteSet(1..n) /\ Cardinality(1..n) = n
      /\ Cardinality(1..Len(ts)) = Len(ts)
  <2>1. \A m \in Nat : IsFiniteSet(1..m) /\ Cardinality(1..m) = m
    <3> SUFFICES ASSUME NEW m \in Nat PROVE IsFiniteSet(1..m) /\ Cardinality(1..m) = m
      OBVIOUS
    <3>1. 1 \in Int /\ m \in Int
      OBVIOUS
    <3> QED
      BY <3>1, FS_Interval
  <2> QED
    BY <1>1, <2>1
<1> QED
  BY <1>4, <1>5, FS_Injection

LEMMA AppendedMembers ==
  ASSUME NEW ts \in Seq(Links), NEW l \in Links
  PROVE  /\ Members(Append(ts, l)) = Members(ts) \cup {l}
         /\ Len(Append(ts, l)) = Len(ts) + 1 /\ Len(ts) \in Nat
<1> DEFINE us == Append(ts, l)
<1>1. /\ us \in Seq(Links) /\ Len(us) = Len(ts) + 1 /\ Len(ts) \in Nat
      /\ DOMAIN us = 1..(Len(ts) + 1) /\ DOMAIN ts = 1..Len(ts)
      /\ us[Len(ts) + 1] = l /\ \A i \in 1..Len(ts) : us[i] = ts[i]
  OBVIOUS
<1> HIDE DEF us
<1>2. ASSUME NEW x \in Members(us) PROVE x \in Members(ts) \cup {l}
  <2>1. PICK i \in 1..(Len(ts) + 1) : x = us[i]
    BY <1>1, <1>2 DEF Members
  <2>2. i \in 1..Len(ts) \/ i = Len(ts) + 1
    BY <1>1
  <2> QED
    BY <1>1, <2>1, <2>2 DEF Members
<1>3. ASSUME NEW x \in Members(ts) PROVE x \in Members(us)
  <2>1. PICK i \in 1..Len(ts) : x = ts[i]
    BY <1>1, <1>3 DEF Members
  <2>2. i \in DOMAIN us /\ us[i] = x
    BY <1>1, <2>1
  <2> QED
    BY <2>2 DEF Members
<1>4. l \in Members(us)
  <2>1. Len(ts) + 1 \in DOMAIN us
    BY <1>1
  <2> QED
    BY <1>1, <2>1 DEF Members
<1> QED
  BY <1>1, <1>2, <1>3, <1>4 DEF us

\* A list grows at its end by a link just opened.
LEMMA GrowsInOrder ==
  ASSUME NEW ts \in Seq(Links), Ascending(ts), NEW n \in Nat, Members(ts) \subseteq 1..n,
         n + 1 \in Links
  PROVE  /\ Append(ts, n + 1) \in Seq(Links) /\ Ascending(Append(ts, n + 1))
         /\ Members(Append(ts, n + 1)) = Members(ts) \cup {n + 1}
         /\ Len(Append(ts, n + 1)) = Len(ts) + 1
<1> DEFINE us == Append(ts, n + 1)
<1>1. /\ us \in Seq(Links) /\ Len(us) = Len(ts) + 1 /\ Len(ts) \in Nat
      /\ DOMAIN us = 1..(Len(ts) + 1) /\ DOMAIN ts = 1..Len(ts)
      /\ us[Len(ts) + 1] = n + 1 /\ \A i \in 1..Len(ts) : us[i] = ts[i]
  OBVIOUS
<1> HIDE DEF us
<1>2. \A i \in 1..Len(ts) : ts[i] \in 1..n
  BY <1>1 DEF Members
<1>3. Ascending(us)
  <2> SUFFICES ASSUME NEW i \in 1..(Len(ts) + 1), NEW j \in 1..(Len(ts) + 1), i < j
               PROVE  us[i] < us[j]
    BY <1>1 DEF Ascending
  <2>1. i \in 1..Len(ts) /\ us[i] \in 1..n
    BY <1>1, <1>2
  <2>2. CASE j = Len(ts) + 1
    BY <1>1, <2>1, <2>2
  <2>3. CASE j \in 1..Len(ts)
    BY <1>1, <2>1, <2>3 DEF Ascending
  <2> QED
    BY <1>1, <2>2, <2>3
<1>4. Members(us) = Members(ts) \cup {n + 1}
  BY AppendedMembers DEF us
<1> QED
  BY <1>1, <1>3, <1>4 DEF us

-----------------------------------------------------------------------------
(* Sessions and links change one at a time.                                *)

LEMMA SessionParts ==
  ASSUME NEW r \in Session
  PROVE  /\ r.phase \in {"out", "idle", "linking", "unpausing", "over"}
         /\ r.fe \in Frontends \cup {NoFrontend} /\ r.active \in Frontends \cup {NoFrontend}
         /\ r.paused \in BOOLEAN /\ r.latest \in 0..MaxLinks /\ r.todo \in Seq(Entry)
BY DEF Session

LEMMA LinkParts ==
  ASSUME NEW r \in Link
  PROVE  /\ r.of \in Sessions /\ r.fe \in Frontends
         /\ r.phase \in {"opening", "starting", "waiting", "got", "keeping", "closing", "ended"}
         /\ r.line \in 0..MaxLines /\ r.cancelled \in BOOLEAN /\ r.closed \in BOOLEAN
         /\ r.kept \in Seq(Entry) /\ r.rest \in Seq(Links)
BY DEF Link

LEMMA PrinterParts ==
  ASSUME NEW r \in Printer
  PROVE  /\ r.fe \in Frontends /\ r.line \in 0..MaxLines
         /\ r.next \in Links \cup {1} /\ r.last \in 0..MaxLinks
BY DEF Printer

LEMMA OneSession ==
  ASSUME TypeOK, NEW s \in Sessions, NEW r \in Session, session' = [session EXCEPT ![s] = r]
  PROVE  session' \in [Sessions -> Session]
BY DEF TypeOK

LEMMA OneLink ==
  ASSUME TypeOK, NEW l \in Opened, NEW r \in Link, link' = [link EXCEPT ![l] = r]
  PROVE  /\ link' \in [Opened -> Link] /\ link'[l] = r
         /\ \A k \in Opened : k # l => link'[k] = link[k]
BY DEF TypeOK, Opened

\* What the invariants say of links depends on this much of them.
SameLinks ==
  /\ opened' = opened
  /\ \A l \in Opened :
       /\ link'[l].fe = link[l].fe /\ link'[l].rest = link[l].rest
       /\ link'[l].closed = link[l].closed
       /\ link'[l].phase = "ended" <=> link[l].phase = "ended"
       /\ link'[l].phase = "closing" <=> link[l].phase = "closing"
       /\ link'[l].phase = "opening" <=> link[l].phase = "opening"

\* No loop begins, and none goes too far.
SamePrinters ==
  \A p \in Printers : printer'[p].last > 0 =>
    /\ printer[p].last > 0 /\ printer'[p].fe = printer[p].fe
    /\ printer'[p].last = printer[p].last /\ printer'[p].next <= printer'[p].last
    /\ printer'[p].line = printer[p].line

LEMMA SameKept ==
  ASSUME KeptInv, TypeOK', terminals' = terminals, overlap' = overlap, SameLinks, SamePrinters,
         HandsFull',
         status' \in {"closedChannel", "beyondSlice"} => overlap # {}
  PROVE  KeptInv'
<1>1. TypeOK /\ InOrder /\ LoopRuns /\ ClosedLeaves
  BY DEF KeptInv, TypeInv
<1>2. Opened' = Opened /\ \A f : At(f)' = At(f)
  BY DEF SameLinks, Opened, At
<1>3. \A f : Open(f)' = Open(f) /\ (Closing(f)' <=> Closing(f))
  BY <1>2 DEF SameLinks, Open, Closing, At
<1>4. InOrder' /\ LoopRuns'
  BY <1>1, <1>2 DEF InOrder, LoopRuns, SameLinks, SamePrinters, Ascending, Members
<1>5. ClosedLeaves'
  BY <1>1, <1>2 DEF ClosedLeaves, SameLinks
<1>6. ASSUME NEW f \in Frontends, f \notin overlap PROVE Exact(f)'
  <2>1. Exact(f)
    BY <1>6 DEF KeptInv
  <2>2. At(f) \subseteq Opened
    BY DEF At
  <2>3. Members(terminals[f])' = Open(f)'
    BY <1>3, <2>1 DEF Exact, Members
  <2>4. ASSUME NEW l \in At(f), link'[l].phase = "closing"
        PROVE  Members(link[l].rest)' = Open(f)' \ {l}
    <3>1. link[l].phase = "closing" /\ link'[l].rest = link[l].rest
      BY <2>2, <2>4 DEF SameLinks
    <3> QED
      BY <1>3, <2>1, <3>1 DEF Exact, Members
  <2>5. ASSUME NEW k \in At(f), NEW l \in At(f), link'[k].phase \in {"opening", "closing"},
               link'[l].phase \in {"opening", "closing"}
        PROVE  k = l
    BY <2>1, <2>2, <2>5 DEF Exact, SameLinks
  <2>7. ASSUME NEW l \in At(f), link'[l].phase = "opening"
        PROVE  link'[l].rest = Append(terminals'[f], l)
    BY <2>1, <2>2, <2>7 DEF Exact, SameLinks
  <2>6. ASSUME NEW p \in Printers, printer'[p].last > 0, printer'[p].fe = f
        PROVE  ~Closing(f)' /\ printer'[p].last <= Len(terminals'[f])
    BY <1>3, <2>1, <2>6 DEF Exact, SamePrinters
  <2> QED
    BY <1>2, <2>3, <2>4, <2>5, <2>6, <2>7 DEF Exact
<1> QED
  BY <1>4, <1>5, <1>6 DEF KeptInv, TypeInv

\* A step of a session that touches nothing it shares.
LEMMA SessionKept ==
  ASSUME KeptInv, NEW s \in Sessions, NEW r \in Session, session' = [session EXCEPT ![s] = r],
         buffer' \in [Sessions -> Seq(Entry)], screen' \in [Sessions -> Seq(Entry)],
         mixed' \subseteq Sessions,
         UNCHANGED <<status, online, terminals, link, opened, printer, lines, taken, overlap>>
  PROVE  KeptInv'
<1>1. TypeOK /\ LoopRuns /\ HandsFull
  BY DEF KeptInv, TypeInv
<1>2. TypeOK'
  <2>1. session' \in [Sessions -> Session]
    BY <1>1, OneSession
  <2> QED
    BY <1>1, <2>1 DEF TypeOK
<1>3. SameLinks /\ SamePrinters /\ HandsFull'
  BY <1>1 DEF SameLinks, SamePrinters, LoopRuns, HandsFull, Opened
<1> QED
  BY <1>2, <1>3, SameKept DEF KeptInv

LEMMA TypesOf ==
  ASSUME KeptInv
  PROVE  /\ TypeOK
         /\ \A s \in Sessions : session[s] \in Session /\ buffer[s] \in Seq(Entry) /\ screen[s] \in Seq(Entry)
         /\ \A l \in Opened : link[l] \in Link
         /\ \A p \in Printers : printer[p] \in Printer
         /\ \A f \in Frontends : terminals[f] \in Seq(Links) /\ Len(terminals[f]) <= opened
         /\ opened \in Nat /\ Opened \subseteq Links /\ opened <= MaxLinks
<1>1. TypeOK /\ InOrder
  BY DEF KeptInv, TypeInv
<1>2. opened \in Nat /\ opened <= MaxLinks /\ Opened \subseteq Links
  BY <1>1, BoundsAssumption DEF TypeOK, Opened, Links
<1>3. ASSUME NEW f \in Frontends PROVE terminals[f] \in Seq(Links) /\ Len(terminals[f]) <= opened
  <2>1. terminals[f] \in Seq(Links) /\ Ascending(terminals[f]) /\ Members(terminals[f]) \subseteq 1..opened
    BY <1>1 DEF TypeOK, InOrder, Opened
  <2> QED
    BY <1>2, <2>1, NoLonger
<1> QED
  BY <1>1, <1>2, <1>3 DEF TypeOK, Opened

LEMMA LoginKept ==
  ASSUME KeptInv, NEW s \in Sessions, Login(s) \/ Pause(s)
  PROVE  KeptInv'
<1>1. session[s] \in Session /\ TypeOK
  BY TypesOf
<1>2. \E r \in Session : session' = [session EXCEPT ![s] = r]
  <2>1. [session[s] EXCEPT !.phase = "idle"] \in Session
        /\ [session[s] EXCEPT !.paused = TRUE] \in Session
    BY <1>1 DEF Session
  <2>2. CASE Login(s)
    BY <2>1, <2>2 DEF Login
  <2>3. CASE Pause(s)
    BY <2>1, <2>3 DEF Pause
  <2> QED
    BY <2>2, <2>3
<1>3. UNCHANGED <<status, online, terminals, buffer, screen, link, opened, printer, lines,
                  taken, overlap, mixed>>
  BY DEF Login, Pause, printVars, history
<1> QED
  BY <1>1, <1>2, <1>3, SessionKept DEF TypeOK

LEMMA ServerRefusedKept ==
  ASSUME KeptInv, NEW s \in Sessions, NEW f \in Frontends \cup {NoFrontend}, ServerRefused(s, f)
  PROVE  KeptInv'
<1>1. session[s] \in Session /\ TypeOK
  BY TypesOf
<1>2. [session[s] EXCEPT !.fe = f] \in Session
  BY <1>1 DEF Session
<1>3. session' = [session EXCEPT ![s] = [session[s] EXCEPT !.fe = f]]
  BY DEF ServerRefused
<1> QED
  BY <1>1, <1>2, <1>3, SessionKept DEF ServerRefused, printVars, history, TypeOK

LEMMA UnpauseKept ==
  ASSUME KeptInv, NEW s \in Sessions, Unpause(s) \/ UnpauseLine(s) \/ UnpauseEnd(s)
  PROVE  KeptInv'
<1>1. session[s] \in Session /\ buffer[s] \in Seq(Entry) /\ screen[s] \in Seq(Entry) /\ TypeOK
  BY TypesOf
<1>2. UNCHANGED <<status, online, terminals, link, opened, printer, lines, taken, overlap>>
  BY DEF Unpause, UnpauseLine, UnpauseEnd, printVars, history
<1>3. CASE Unpause(s)
  <2> DEFINE r == [session[s] EXCEPT !.paused = FALSE, !.phase = "unpausing", !.todo = buffer[s]]
  <2>1. r \in Session
    BY <1>1 DEF Session
  <2>2. session' = [session EXCEPT ![s] = r]
    BY <1>3 DEF Unpause
  <2>3. mixed' \subseteq Sessions /\ UNCHANGED <<buffer, screen>>
    BY <1>1, <1>3 DEF Unpause, TypeOK
  <2> HIDE DEF r
  <2> QED
    BY <1>1, <1>2, <2>1, <2>2, <2>3, SessionKept DEF TypeOK
<1>4. CASE UnpauseLine(s)
  <2> DEFINE todo == session[s].todo
             r == [session[s] EXCEPT !.todo = Tail(todo)]
  <2>1. todo \in Seq(Entry) /\ todo # <<>>
    BY <1>1, <1>4, SessionParts DEF UnpauseLine
  <2>2. Tail(todo) \in Seq(Entry) /\ Head(todo) \in Entry
    BY <2>1
  <2>3. r \in Session
    <3> HIDE DEF todo
    <3> QED
      BY <1>1, <2>2 DEF Session
  <2>4. session' = [session EXCEPT ![s] = r]
    BY <1>4 DEF UnpauseLine
  <2>5. screen' \in [Sessions -> Seq(Entry)]
    <3>1. screen' = [screen EXCEPT ![s] = Append(screen[s], Head(todo))]
      BY <1>4 DEF UnpauseLine
    <3>2. Append(screen[s], Head(todo)) \in Seq(Entry)
      BY <1>1, <2>2
    <3> QED
      BY <1>1, <3>1, <3>2 DEF TypeOK
  <2>6. UNCHANGED <<buffer, mixed>>
    BY <1>4 DEF UnpauseLine, history
  <2> HIDE DEF r
  <2> QED
    BY <1>1, <1>2, <2>3, <2>4, <2>5, <2>6, SessionKept DEF TypeOK
<1>5. CASE UnpauseEnd(s)
  <2> DEFINE r == [session[s] EXCEPT !.phase = "idle"]
  <2>1. r \in Session
    BY <1>1 DEF Session
  <2>2. session' = [session EXCEPT ![s] = r] /\ UNCHANGED <<screen, mixed>>
    BY <1>5 DEF UnpauseEnd, history
  <2>3. buffer' \in [Sessions -> Seq(Entry)]
    <3>1. buffer' = [buffer EXCEPT ![s] = <<>>] /\ <<>> \in Seq(Entry)
      BY <1>5 DEF UnpauseEnd, Forget
    <3> QED
      BY <1>1, <3>1 DEF TypeOK
  <2> HIDE DEF r
  <2> QED
    BY <1>1, <1>2, <2>1, <2>2, <2>3, SessionKept DEF TypeOK
<1> QED
  BY <1>3, <1>4, <1>5

\* Nothing but who is connected, or that the process has died, changes.
LEMMA OutsideKept ==
  ASSUME KeptInv, status' \in {"up", "closedChannel", "beyondSlice", "nilFrontend"},
         status' \in {"closedChannel", "beyondSlice"} => overlap # {},
         online' \subseteq Frontends,
         UNCHANGED <<terminals, session, buffer, screen, link, opened, printer, lines, taken,
                     overlap, mixed>>
  PROVE  KeptInv'
<1>1. TypeOK /\ LoopRuns /\ HandsFull
  BY DEF KeptInv, TypeInv
<1>2. TypeOK'
  BY <1>1 DEF TypeOK
<1>3. SameLinks /\ SamePrinters /\ HandsFull'
  BY <1>1 DEF SameLinks, SamePrinters, LoopRuns, HandsFull, Opened
<1> QED
  BY <1>2, <1>3, SameKept

LEMMA GoesOrComesKept ==
  ASSUME KeptInv, NEW f \in Frontends, GoesOrComes(f)
  PROVE  KeptInv'
<1>1. TypeOK
  BY TypesOf
<1>2. online' \subseteq Frontends
  BY <1>1 DEF GoesOrComes, TypeOK
<1> QED
  BY <1>1, <1>2, OutsideKept DEF GoesOrComes, Up, termVars, printVars, history

LEMMA CommandToNoneKept ==
  ASSUME KeptInv, NEW s \in Sessions, CommandToNone(s)
  PROVE  KeptInv'
<1>1. TypeOK
  BY TypesOf
<1> QED
  BY <1>1, OutsideKept DEF CommandToNone, termVars, printVars, history, TypeOK

\* Links are told to end.
LEMMA CancelKept ==
  ASSUME KeptInv, NEW s \in Sessions, NEW r \in Session, session' = [session EXCEPT ![s] = r],
         DOMAIN link' = Opened, link' \in [Opened -> Link],
         \A l \in Opened : \E b \in BOOLEAN : link'[l] = [link[l] EXCEPT !.cancelled = b],
         UNCHANGED <<status, online, terminals, buffer, screen, opened, printer, lines, taken,
                     overlap, mixed>>
  PROVE  KeptInv'
<1>1. TypeOK /\ LoopRuns /\ HandsFull
  BY DEF KeptInv, TypeInv
<1>2. TypeOK'
  <2>1. session' \in [Sessions -> Session]
    BY <1>1, OneSession
  <2> QED
    BY <1>1, <2>1 DEF TypeOK, Opened
<1>3. SameLinks /\ HandsFull'
  <2> SUFFICES ASSUME NEW l \in Opened
               PROVE  /\ link'[l].fe = link[l].fe /\ link'[l].rest = link[l].rest
                      /\ link'[l].closed = link[l].closed /\ link'[l].phase = link[l].phase
                      /\ link'[l].line = link[l].line
    BY <1>1 DEF SameLinks, HandsFull, Opened
  <2>1. link[l] \in Link
    BY <1>1 DEF TypeOK, Opened
  <2> QED
    BY <2>1 DEF Link
<1>4. SamePrinters
  BY <1>1 DEF SamePrinters, LoopRuns
<1> QED
  BY <1>2, <1>3, <1>4, SameKept DEF KeptInv

LEMMA CancelledLink ==
  ASSUME NEW r \in Link, NEW b \in BOOLEAN
  PROVE  [r EXCEPT !.cancelled = b] \in Link
BY DEF Link

LEMMA ServerDroppedKept ==
  ASSUME KeptInv, NEW s \in Sessions, ServerDropped(s)
  PROVE  KeptInv'
<1>1. TypeOK /\ session[s] \in Session /\ \A l \in Opened : link[l] \in Link
  BY TypesOf
<1> DEFINE r == [session[s] EXCEPT !.active = NoFrontend]
<1>2. r \in Session
  BY <1>1 DEF Session
<1>3. session' = [session EXCEPT ![s] = r]
  BY DEF ServerDropped
<1>4. PICK m : m = session[s].latest
  OBVIOUS
<1>5. DOMAIN link = Opened /\ link \in [Opened -> Link]
  BY <1>1 DEF TypeOK, Opened
<1>6. \/ link' = link
      \/ link' = [link EXCEPT ![m] = [link[m] EXCEPT !.cancelled = TRUE]]
  BY <1>4 DEF ServerDropped
<1>7. DOMAIN link' = Opened
  BY <1>5, <1>6
<1>8. \A l \in Opened : \/ link'[l] = link[l]
                        \/ link'[l] = [link[l] EXCEPT !.cancelled = TRUE]
  BY <1>5, <1>6
<1>9. \A l \in Opened : link[l] = [link[l] EXCEPT !.cancelled = link[l].cancelled]
                        /\ link[l].cancelled \in BOOLEAN
  BY <1>1 DEF Link
<1>10. \A l \in Opened : \E b \in BOOLEAN : link'[l] = [link[l] EXCEPT !.cancelled = b]
  <2> SUFFICES ASSUME NEW l \in Opened
               PROVE  \E b \in BOOLEAN : link'[l] = [link[l] EXCEPT !.cancelled = b]
    OBVIOUS
  <2>1. CASE link'[l] = link[l]
    BY <1>9, <2>1
  <2>2. CASE link'[l] = [link[l] EXCEPT !.cancelled = TRUE]
    BY <2>2
  <2> QED
    BY <1>8, <2>1, <2>2
<1>11. link' \in [Opened -> Link]
  <2>1. \A l \in Opened : link'[l] \in Link
    BY <1>1, <1>8, CancelledLink
  <2>2. link' = [l \in Opened |-> link'[l]]
    BY <1>5, <1>6
  <2> QED
    BY <2>1, <2>2
<1>12. UNCHANGED <<status, online, terminals, buffer, screen, opened, printer, lines, taken,
                   overlap, mixed>>
  BY DEF ServerDropped, printVars, history
<1> HIDE DEF r
<1> QED
  BY <1>2, <1>3, <1>7, <1>10, <1>11, <1>12, CancelKept

LEMMA QuitKept ==
  ASSUME KeptInv, NEW s \in Sessions, Quit(s)
  PROVE  KeptInv'
<1>1. TypeOK /\ session[s] \in Session /\ \A l \in Opened : link[l] \in Link
  BY TypesOf
<1> DEFINE r == [session[s] EXCEPT !.phase = "over"]
<1>2. r \in Session
  BY <1>1 DEF Session
<1>3. session' = [session EXCEPT ![s] = r]
      /\ UNCHANGED <<status, online, terminals, buffer, screen, opened, printer, lines, taken,
                     overlap, mixed>>
  BY DEF Quit, printVars, history
<1> DEFINE b(l) == link[l].cancelled \/ l \in Deferred(s)
<1>4. link' = [l \in Opened |-> [link[l] EXCEPT !.cancelled = b(l)]]
  BY DEF Quit
<1>5. \A l \in Opened : b(l) \in BOOLEAN
  OBVIOUS
<1> HIDE DEF b, r
<1>6. DOMAIN link' = Opened /\ \A l \in Opened : link'[l] = [link[l] EXCEPT !.cancelled = b(l)]
  BY <1>4
<1>7. \A l \in Opened : [link[l] EXCEPT !.cancelled = b(l)] \in Link
  BY <1>1, <1>5, CancelledLink
<1>8. link' \in [Opened -> Link]
  BY <1>4, <1>7
<1>9. \A l \in Opened : \E c \in BOOLEAN : link'[l] = [link[l] EXCEPT !.cancelled = c]
  BY <1>5, <1>6
<1> QED
  BY <1>2, <1>3, <1>6, <1>8, <1>9, CancelKept

\* A link gets on without closing or ending.
LEMMA LinkKept ==
  ASSUME KeptInv, NEW l \in Opened, NEW r \in Link, link' = [link EXCEPT ![l] = r],
         r.fe = link[l].fe, r.rest = link[l].rest, r.closed = link[l].closed,
         r.phase \in {"got", "keeping"} => r.line # 0,
         r.phase \notin {"opening", "closing", "ended"},
         link[l].phase \notin {"opening", "closing", "ended"},
         buffer' \in [Sessions -> Seq(Entry)], screen' \in [Sessions -> Seq(Entry)],
         UNCHANGED <<status, online, terminals, session, opened, printer, lines, taken, overlap,
                     mixed>>
  PROVE  KeptInv'
<1>1. TypeOK /\ LoopRuns /\ HandsFull
  BY DEF KeptInv, TypeInv
<1>2. /\ link' \in [Opened -> Link] /\ link'[l] = r
      /\ \A k \in Opened : k # l => link'[k] = link[k]
  BY <1>1, OneLink
<1>3. TypeOK'
  BY <1>1, <1>2 DEF TypeOK, Opened
<1>4. SameLinks /\ HandsFull'
  BY <1>1, <1>2 DEF SameLinks, HandsFull, Opened
<1>5. SamePrinters
  BY <1>1 DEF SamePrinters, LoopRuns
<1> QED
  BY <1>3, <1>4, <1>5, SameKept DEF KeptInv

LEMMA ConnectsKept ==
  ASSUME KeptInv, NEW l \in Opened, Connects(l)
  PROVE  KeptInv'
<1>1. TypeOK /\ link[l] \in Link
  BY TypesOf
<1> DEFINE r == [link[l] EXCEPT !.phase = "waiting"]
<1>2. /\ r \in Link /\ r.fe = link[l].fe /\ r.rest = link[l].rest /\ r.closed = link[l].closed
      /\ r.phase = "waiting"
  BY <1>1 DEF Link
<1>3. /\ link[l].phase = "starting" /\ link' = [link EXCEPT ![l] = r]
      /\ UNCHANGED <<status, online, terminals, session, buffer, screen, opened, printer, lines,
                     taken, overlap, mixed>>
  BY DEF Connects, termVars, printVars, history
<1> HIDE DEF r
<1> QED
  BY <1>1, <1>2, <1>3, LinkKept DEF TypeOK

LEMMA EntryOf ==
  ASSUME KeptInv, NEW l \in Opened, link[l].phase \in {"got", "keeping"}
  PROVE  <<l, link[l].line>> \in Entry
<1>1. l \in Links /\ link[l].line \in 0..MaxLines
  BY TypesOf, LinkParts
<1>2. link[l].line \in Lines
  BY <1>1, BoundsAssumption DEF Lines, KeptInv, TypeInv, HandsFull
<1> QED
  BY <1>1, <1>2 DEF Entry

LEMMA ShowKept ==
  ASSUME KeptInv, NEW l \in Opened, Show(l)
  PROVE  KeptInv'
<1>1. TypeOK /\ link[l] \in Link /\ \A s \in Sessions : buffer[s] \in Seq(Entry) /\ screen[s] \in Seq(Entry)
  BY TypesOf
<1>2. PICK s \in Sessions : s = link[l].of
  BY <1>1, LinkParts
<1>3. /\ link[l].phase = "got"
      /\ UNCHANGED <<status, online, terminals, session, buffer, opened, printer, lines, taken,
                     overlap, mixed>>
  BY DEF Show, printVars, history
<1>4. CASE session[s].paused
  <2> DEFINE r == [link[l] EXCEPT !.phase = "keeping", !.kept = buffer[s]]
  <2>1. /\ r \in Link /\ r.fe = link[l].fe /\ r.rest = link[l].rest /\ r.closed = link[l].closed
        /\ r.phase = "keeping" /\ r.line = link[l].line
    BY <1>1 DEF Link
  <2>2. link' = [link EXCEPT ![l] = r] /\ screen' = screen
    BY <1>2, <1>4 DEF Show
  <2>3. r.line # 0
    BY <1>3, <2>1 DEF KeptInv, TypeInv, HandsFull
  <2> HIDE DEF r
  <2> QED
    BY <1>1, <1>3, <2>1, <2>2, <2>3, LinkKept DEF TypeOK
<1>5. CASE ~session[s].paused
  <2> DEFINE r == [link[l] EXCEPT !.phase = "waiting", !.line = 0]
  <2>1. 0 \in 0..MaxLines
    BY BoundsAssumption
  <2>2. /\ r \in Link /\ r.fe = link[l].fe /\ r.rest = link[l].rest /\ r.closed = link[l].closed
        /\ r.phase = "waiting"
    BY <1>1, <2>1 DEF Link
  <2>3. link' = [link EXCEPT ![l] = r]
        /\ screen' = [screen EXCEPT ![s] = Append(screen[s], <<l, link[l].line>>)]
    BY <1>2, <1>5 DEF Show
  <2>4. screen' \in [Sessions -> Seq(Entry)]
    <3>1. PICK e \in Entry : e = <<l, link[l].line>>
      BY <1>3, EntryOf
    <3>2. Append(screen[s], e) \in Seq(Entry)
      BY <1>1
    <3> QED
      BY <1>1, <2>3, <3>1, <3>2 DEF TypeOK
  <2> HIDE DEF r
  <2> QED
    BY <1>1, <1>3, <2>2, <2>3, <2>4, LinkKept DEF TypeOK
<1> QED
  BY <1>4, <1>5

LEMMA KeepKept ==
  ASSUME KeptInv, NEW l \in Opened, Keep(l)
  PROVE  KeptInv'
<1>1. TypeOK /\ link[l] \in Link
  BY TypesOf
<1>2. PICK s \in Sessions : s = link[l].of
  BY <1>1, LinkParts
<1> DEFINE r == [link[l] EXCEPT !.phase = "waiting", !.line = 0, !.kept = <<>>]
<1>3. /\ link[l].phase = "keeping" /\ link' = [link EXCEPT ![l] = r]
      /\ buffer' = [buffer EXCEPT ![s] = Append(link[l].kept, <<l, link[l].line>>)]
      /\ UNCHANGED <<status, online, terminals, session, screen, opened, printer, lines, taken,
                     overlap, mixed>>
  BY <1>2 DEF Keep, printVars, history
<1>4. /\ r \in Link /\ r.fe = link[l].fe /\ r.rest = link[l].rest /\ r.closed = link[l].closed
      /\ r.phase = "waiting"
  <2>1. 0 \in 0..MaxLines /\ <<>> \in Seq(Entry)
    BY BoundsAssumption
  <2> QED
    BY <1>1, <2>1 DEF Link
<1>5. buffer' \in [Sessions -> Seq(Entry)]
  <2>1. PICK e \in Entry : e = <<l, link[l].line>>
    BY <1>3, EntryOf
  <2>2. Append(link[l].kept, e) \in Seq(Entry)
    BY <1>1, LinkParts
  <2> QED
    BY <1>1, <1>3, <2>1, <2>2 DEF TypeOK
<1> HIDE DEF r
<1> QED
  BY <1>1, <1>3, <1>4, <1>5, LinkKept DEF TypeOK

-----------------------------------------------------------------------------
(* Lines are printed.                                                      *)

\* The loop begins with the length of Terminals.
LEMMA PrintLineKept ==
  ASSUME KeptInv, NEW p \in Printers, NEW f \in Frontends, PrintLine(p, f)
  PROVE  KeptInv'
<1>1. TypeOK /\ InOrder /\ LoopRuns /\ HandsFull /\ ClosedLeaves
  BY DEF KeptInv, TypeInv
<1> DEFINE n == Len(terminals[f])
           r == [fe |-> f, line |-> lines + 1, next |-> 1, last |-> n]
<1>2. /\ status = "up" /\ terminals[f] # <<>> /\ lines < MaxLines /\ lines' = lines + 1
      /\ printer' = [printer EXCEPT ![p] = r]
      /\ overlap' = IF Closing(f) THEN overlap \cup {f} ELSE overlap
      /\ UNCHANGED <<status, online, terminals, session, buffer, screen, link, opened, taken, mixed>>
  BY DEF PrintLine, Up, Overlaps, termVars
<1>3. n \in 1..MaxLinks /\ n <= opened
  <2>1. terminals[f] \in Seq(Links) /\ n <= opened /\ opened <= MaxLinks /\ opened \in Nat
    BY TypesOf
  <2>2. n # 0 /\ n \in Nat
    BY <1>2, <2>1
  <2> QED
    BY <2>1, <2>2, BoundsAssumption
<1>4. lines' \in 0..MaxLines /\ lines + 1 # 0
  BY <1>1, <1>2, BoundsAssumption DEF TypeOK
<1>5. r \in Printer /\ r.fe = f /\ r.last = n /\ r.next = 1 /\ r.line # 0
  <2>1. n \in 0..MaxLinks
    BY <1>3, BoundsAssumption
  <2> HIDE DEF n
  <2> QED
    BY <1>2, <1>4, <2>1 DEF Printer
<1> HIDE DEF r
<1>6. /\ printer' \in [Printers -> Printer] /\ printer'[p] = r
      /\ \A q \in Printers : q # p => printer'[q] = printer[q]
  BY <1>1, <1>2, <1>5 DEF TypeOK
<1>7. TypeOK'
  BY <1>1, <1>2, <1>4, <1>6 DEF TypeOK
<1>8. InOrder' /\ HandsFull' /\ ClosedLeaves'
  BY <1>1, <1>2 DEF InOrder, HandsFull, ClosedLeaves, Opened, Ascending, Members
<1>9. LoopRuns'
  BY <1>1, <1>3, <1>5, <1>6, BoundsAssumption DEF LoopRuns
<1>10. ASSUME NEW g \in Frontends, g \notin overlap' PROVE Exact(g)'
  <2>1. Exact(g) /\ (g = f => ~Closing(f))
    BY <1>2, <1>10 DEF KeptInv
  <2>2. Closing(g)' <=> Closing(g)
    BY <1>2 DEF Closing, At, Opened
  <2>3. ASSUME NEW q \in Printers, printer'[q].last > 0, printer'[q].fe = g
        PROVE  ~Closing(g)' /\ printer'[q].last <= Len(terminals'[g])
    <3>1. CASE q = p
      BY <1>2, <1>3, <1>5, <1>6, <2>1, <2>2, <2>3, <3>1
    <3>2. CASE q # p
      BY <1>2, <1>6, <2>1, <2>2, <2>3, <3>2 DEF Exact
    <3> QED
      BY <3>1, <3>2
  <2> QED
    BY <1>2, <2>1, <2>3 DEF Exact, Members, Open, At, Opened
<1>11. status' \notin {"closedChannel", "beyondSlice"}
  BY <1>2
<1> QED
  BY <1>7, <1>8, <1>9, <1>10, <1>11 DEF KeptInv, TypeInv

\* Where no steps overlapped the loop finds an open channel at its index.
LEMMA FindsOpenChannel ==
  ASSUME KeptInv, NEW p \in Printers, printer[p].last > 0, printer[p].fe \notin overlap
  PROVE  /\ printer[p].next <= Len(terminals[printer[p].fe])
         /\ ~link[terminals[printer[p].fe][printer[p].next]].closed
<1>1. PICK f \in Frontends : f = printer[p].fe
  BY TypesOf, PrinterParts
<1>2. PICK i : i = printer[p].next
  OBVIOUS
<1>3. Exact(f) /\ LoopRuns /\ ClosedLeaves
  BY <1>1 DEF KeptInv, TypeInv
<1>4. ~Closing(f) /\ printer[p].last <= Len(terminals[f])
  BY <1>1, <1>3 DEF Exact
<1>5. i \in Nat \ {0} /\ i <= printer[p].last /\ printer[p].last \in Nat
  <2>1. printer[p].next \in Links \cup {1} /\ printer[p].last \in 0..MaxLinks
    BY TypesOf, PrinterParts
  <2> QED
    BY <1>2, <1>3, <2>1, BoundsAssumption DEF LoopRuns, Links
<1>6. i \in DOMAIN terminals[f] /\ i <= Len(terminals[f])
  <2>1. terminals[f] \in Seq(Links)
    BY TypesOf
  <2> QED
    BY <1>4, <1>5, <2>1
<1>7. terminals[f][i] \in Open(f)
  BY <1>3, <1>6 DEF Exact, Members
<1>8. link[terminals[f][i]].phase \notin {"ended", "closing"} /\ terminals[f][i] \in Opened
  BY <1>4, <1>7 DEF Open, Closing, At
<1> QED
  BY <1>1, <1>2, <1>3, <1>6, <1>8 DEF ClosedLeaves

\* The next turn of a loop.
LEMMA TurnParts ==
  ASSUME NEW q \in Printer, q.last > 0, q.next <= q.last, q.line # 0
  PROVE  /\ Turn(q) \in Printer
         /\ Turn(q).last > 0 =>
              /\ Turn(q).fe = q.fe /\ Turn(q).last = q.last /\ Turn(q).line = q.line
              /\ Turn(q).next <= q.last
<1>1. q.next \in Nat /\ q.last \in 1..MaxLinks
  BY PrinterParts, BoundsAssumption DEF Links
<1>2. CASE q.next = q.last
  <2>1. 0 \in 0..MaxLinks
    BY BoundsAssumption
  <2> DEFINE r == [q EXCEPT !.next = 1, !.last = 0]
  <2>2. Turn(q) = r
    BY <1>2 DEF Turn
  <2>3. r \in Printer
    BY <2>1 DEF Printer
  <2>4. r.last = 0
    BY DEF Printer
  <2> HIDE DEF r
  <2> QED
    BY <2>2, <2>3, <2>4
<1>3. CASE q.next # q.last
  <2>1. q.next + 1 \in Links /\ q.next + 1 <= q.last
    BY <1>1, <1>3, BoundsAssumption DEF Links
  <2>2. Turn(q) = [q EXCEPT !.next = q.next + 1]
    BY <1>3 DEF Turn
  <2> QED
    BY <2>1, <2>2 DEF Printer
<1> QED
  BY <1>2, <1>3

LEMMA PrintToKept ==
  ASSUME KeptInv, NEW p \in Printers, PrintTo(p)
  PROVE  KeptInv'
<1>1. TypeOK /\ InOrder /\ LoopRuns /\ HandsFull /\ ClosedLeaves
  BY DEF KeptInv, TypeInv
<1>2. PICK q \in Printer : q = printer[p]
  BY TypesOf
<1>3. PICK ts \in Seq(Links) : ts = terminals[q.fe]
  BY TypesOf, PrinterParts
<1>4. PICK l : l = ts[q.next]
  OBVIOUS
<1>5. /\ q.last > 0
      /\ UNCHANGED <<online, terminals, session, buffer, screen, opened, lines, overlap>>
  BY <1>2 DEF PrintTo, termVars
<1>6. CASE status' \in {"beyondSlice", "closedChannel"} /\ UNCHANGED <<link, printer, taken, mixed>>
           /\ (q.next > Len(ts) \/ link[l].closed)
  <2>1. overlap # {}
    <3>1. ASSUME q.fe \notin overlap PROVE FALSE
      <4>1. q.next <= Len(ts) /\ ~link[l].closed
        BY <1>2, <1>3, <1>4, <1>5, <3>1, FindsOpenChannel
      <4>2. q.next \in Int /\ Len(ts) \in Int
        BY PrinterParts, BoundsAssumption DEF Links
      <4> QED
        BY <1>6, <4>1, <4>2
    <3> QED
      BY <3>1
  <2>2. online' \subseteq Frontends
    BY <1>1, <1>5 DEF TypeOK
  <2> QED
    BY <1>5, <1>6, <2>1, <2>2, OutsideKept
<1>7. CASE /\ status' = status /\ q.next <= Len(ts) /\ printer' = [printer EXCEPT ![p] = Turn(q)]
           /\ \/ UNCHANGED <<link, taken, mixed>>
              \/ /\ link[l].phase = "waiting"
                 /\ link' = [link EXCEPT ![l].phase = "got", ![l].line = q.line]
                 /\ taken' = [taken EXCEPT ![l] = Append(@, q.line)]
                 /\ mixed' \in {mixed, mixed \cup {link[l].of}}
  <2>1. q.next <= q.last /\ q.line # 0 /\ q.next \in Nat \ {0}
    <3>1. q.next \in Links \cup {1}
      BY PrinterParts
    <3> QED
      BY <1>1, <1>2, <1>5, <3>1, BoundsAssumption DEF LoopRuns, Links
  <2>2. /\ Turn(q) \in Printer
        /\ Turn(q).last > 0 =>
              /\ Turn(q).fe = q.fe /\ Turn(q).last = q.last /\ Turn(q).line = q.line
              /\ Turn(q).next <= q.last
    BY <1>5, <2>1, TurnParts
  <2>3. /\ printer' \in [Printers -> Printer] /\ printer'[p] = Turn(q)
        /\ \A o \in Printers : o # p => printer'[o] = printer[o]
    BY <1>1, <1>7, <2>2 DEF TypeOK
  <2>4. SamePrinters
    BY <1>1, <1>2, <1>5, <2>2, <2>3 DEF SamePrinters, LoopRuns
  <2>5. l \in Opened
    <3>1. q.fe \in Frontends /\ q.next \in DOMAIN ts
      BY <1>7, <2>1, PrinterParts
    <3> QED
      BY <1>1, <1>3, <1>4, <3>1 DEF InOrder, Members
  <2>6. /\ link' \in [Opened -> Link] /\ taken' \in [Opened -> Seq(Lines)] /\ mixed' \subseteq Sessions
        /\ SameLinks /\ HandsFull'
    <3>1. CASE UNCHANGED <<link, taken, mixed>>
      BY <1>1, <1>5, <3>1 DEF TypeOK, SameLinks, HandsFull, Opened
    <3>2. CASE /\ link[l].phase = "waiting"
               /\ link' = [link EXCEPT ![l].phase = "got", ![l].line = q.line]
               /\ taken' = [taken EXCEPT ![l] = Append(@, q.line)]
               /\ mixed' \in {mixed, mixed \cup {link[l].of}}
      <4> DEFINE r == [link[l] EXCEPT !.phase = "got", !.line = q.line]
      <4>1. link[l] \in Link /\ q.line \in 0..MaxLines
        BY <2>5, TypesOf, PrinterParts
      <4>2. /\ r \in Link /\ r.fe = link[l].fe /\ r.rest = link[l].rest
            /\ r.closed = link[l].closed /\ r.phase = "got" /\ r.line = q.line
        BY <4>1 DEF Link
      <4>3. link' = [link EXCEPT ![l] = r]
        BY <3>2
      <4> HIDE DEF r
      <4>4. /\ link' \in [Opened -> Link] /\ link'[l] = r
            /\ \A k \in Opened : k # l => link'[k] = link[k]
        BY <1>1, <2>5, <4>2, <4>3, OneLink
      <4>5. SameLinks
        BY <1>5, <3>2, <4>2, <4>4 DEF SameLinks
      <4>6. HandsFull'
        BY <1>1, <1>5, <2>1, <4>2, <4>4 DEF HandsFull, Opened
      <4>7. taken' \in [Opened -> Seq(Lines)]
        <5>1. q.line \in Lines
          BY <2>1, <4>1, BoundsAssumption DEF Lines
        <5>2. taken \in [Opened -> Seq(Lines)]
          BY <1>1 DEF TypeOK, Opened
        <5>3. Append(taken[l], q.line) \in Seq(Lines)
          BY <2>5, <5>1, <5>2
        <5> QED
          BY <2>5, <3>2, <5>2, <5>3
      <4>8. mixed' \subseteq Sessions
        BY <1>1, <3>2, <4>1, LinkParts, ZenonT(40) DEF TypeOK
      <4> QED
        BY <4>4, <4>5, <4>6, <4>7, <4>8
    <3> QED
      BY <1>7, <3>1, <3>2
  <2>7. TypeOK'
    BY <1>1, <1>5, <1>7, <2>3, <2>6 DEF TypeOK, Opened
  <2> QED
    BY <1>5, <1>7, <2>4, <2>6, <2>7, SameKept DEF KeptInv
<1>8. \/ /\ status' = "beyondSlice" /\ q.next > Len(ts) /\ UNCHANGED <<link, printer, taken, mixed>>
      \/ /\ status' = "closedChannel" /\ link[l].closed /\ UNCHANGED <<link, printer, taken, mixed>>
      \/ /\ status' = status /\ q.next <= Len(ts) /\ printer' = [printer EXCEPT ![p] = Turn(q)]
         /\ \/ UNCHANGED <<link, taken, mixed>>
            \/ /\ link[l].phase = "waiting"
               /\ link' = [link EXCEPT ![l].phase = "got", ![l].line = q.line]
               /\ taken' = [taken EXCEPT ![l] = Append(@, q.line)]
               /\ mixed' \in {mixed, mixed \cup {link[l].of}}
  BY <1>2, <1>3, <1>4 DEF PrintTo
<1> QED
  BY <1>6, <1>7, <1>8

-----------------------------------------------------------------------------
(* Links open, close and end.                                              *)

LEMMA GrowsByOne ==
  ASSUME NEW S, NEW q \in Seq(S), NEW e \in S, NEW n \in Nat, n = Len(q)
  PROVE  /\ Append(q, e) \in [1..(n + 1) -> S] /\ Append(q, e)[n + 1] = e
         /\ \A k \in 1..n : Append(q, e)[k] = q[k]
<1>1. Append(q, e) \in Seq(S) /\ Len(Append(q, e)) = n + 1
  OBVIOUS
<1>2. Append(q, e) \in [1..(n + 1) -> S]
  BY <1>1, LenProperties
<1> QED
  BY <1>2, AppendProperties

LEMMA ServerKept ==
  ASSUME KeptInv, NEW s \in Sessions, NEW f \in Frontends, Server(s, f)
  PROVE  KeptInv'
<1>1. /\ TypeOK /\ InOrder /\ LoopRuns /\ HandsFull /\ ClosedLeaves
      /\ session[s] \in Session /\ opened \in Nat /\ terminals[f] \in Seq(Links)
  BY TypesOf DEF KeptInv, TypeInv
<1>2. PICK n \in Nat : n = opened
  BY <1>1
<1>3. PICK ts \in Seq(Links) : ts = terminals[f]
  BY <1>1
<1> DEFINE us == Append(ts, n + 1)
           r == [of |-> s, fe |-> f, phase |-> "opening", line |-> 0, cancelled |-> FALSE,
                 closed |-> FALSE, kept |-> <<>>, rest |-> us]
           u == [session[s] EXCEPT !.phase = "linking", !.fe = f, !.active = f,
                                   !.latest = n + 1]
<1>4. /\ status = "up" /\ n < MaxLinks /\ opened' = n + 1 /\ link' = Append(link, r)
      /\ session' = [session EXCEPT ![s] = u]
      /\ taken' = Append(taken, <<>>)
      /\ overlap' = IF Changing(f) THEN overlap \cup {f} ELSE overlap
      /\ UNCHANGED <<status, online, terminals, buffer, screen, printer, lines, mixed>>
  BY <1>2, <1>3 DEF Server, Attends, Up, Overlaps, printVars
<1>5. n + 1 \in Links /\ n + 1 \in 0..MaxLinks /\ Opened = 1..n /\ Opened' = 1..(n + 1)
  BY <1>2, <1>4, BoundsAssumption DEF Links, Opened
<1>7. /\ us \in Seq(Links) /\ Ascending(us) /\ Members(us) = Members(ts) \cup {n + 1}
      /\ Len(us) = Len(ts) + 1 /\ Len(ts) \in Nat
  <2>1. Ascending(ts) /\ Members(ts) \subseteq 1..n
    BY <1>1, <1>3, <1>5 DEF InOrder
  <2>2. Len(ts) \in Nat
    OBVIOUS
  <2> QED
    BY <1>5, <2>1, <2>2, GrowsInOrder
<1> HIDE DEF us
<1>6. /\ r \in Link /\ r.fe = f /\ r.phase = "opening" /\ r.closed = FALSE
      /\ r.rest = us
  <2>1. 0 \in 0..MaxLines /\ <<>> \in Seq(Entry)
    BY BoundsAssumption
  <2> QED
    BY <1>7, <2>1 DEF Link
<1>10. u \in Session
  BY <1>1, <1>5 DEF Session
<1> HIDE DEF r, u
<1>8. /\ link' \in [1..(n + 1) -> Link] /\ link'[n + 1] = r
      /\ \A k \in 1..n : link'[k] = link[k]
  <2>1. link \in Seq(Link) /\ Len(link) = n
    BY <1>1, <1>2 DEF TypeOK
  <2> QED
    BY <1>4, <1>6, <2>1, GrowsByOne
<1>9. taken' \in [1..(n + 1) -> Seq(Lines)]
  <2>1. taken \in Seq(Seq(Lines)) /\ Len(taken) = n /\ <<>> \in Seq(Lines)
    BY <1>1, <1>2 DEF TypeOK
  <2> QED
    BY <1>4, <2>1, GrowsByOne
<1>11. TypeOK'
  <2>2. session' \in [Sessions -> Session]
    BY <1>1, <1>4, <1>10, OneSession
  <2>3. overlap' \subseteq Frontends
    BY <1>1, <1>4 DEF TypeOK
  <2>4. opened' \in 0..MaxLinks /\ link' \in [1..opened' -> Link] /\ taken' \in [1..opened' -> Seq(Lines)]
    BY <1>4, <1>5, <1>8, <1>9
  <2>5. UNCHANGED <<status, online, terminals, buffer, screen, printer, lines, mixed>>
    BY <1>4
  <2> QED
    BY <1>1, <2>2, <2>3, <2>4, <2>5 DEF TypeOK
<1>12. \A k \in 1..(n + 1) : k \in 1..n \/ k = n + 1
  OBVIOUS
<1>13. n + 1 \notin 1..n /\ 1..n \subseteq 1..(n + 1) /\ n + 1 \in 1..(n + 1)
  OBVIOUS
<1>14. InOrder'
  <2>1. ASSUME NEW g \in Frontends
        PROVE  Ascending(terminals'[g]) /\ Members(terminals'[g]) \subseteq 1..(n + 1)
    <3>1. Members(terminals[g]) \subseteq 1..n /\ Ascending(terminals[g])
      BY <1>1, <1>5 DEF InOrder
    <3> QED
      BY <1>4, <1>13, <3>1
  <2>2. ASSUME NEW k \in 1..(n + 1)
        PROVE  Ascending(link'[k].rest) /\ Members(link'[k].rest) \subseteq 1..(n + 1)
    <3>1. CASE k \in 1..n
      <4>1. Ascending(link[k].rest) /\ Members(link[k].rest) \subseteq 1..n
        BY <1>1, <1>5, <3>1 DEF InOrder
      <4> QED
        BY <1>8, <1>13, <3>1, <4>1
    <3>2. CASE k = n + 1
      <4>1. Members(ts) \subseteq 1..n
        BY <1>1, <1>3, <1>5 DEF InOrder
      <4> QED
        BY <1>6, <1>7, <1>8, <1>13, <3>2, <4>1
    <3> QED
      BY <1>12, <3>1, <3>2
  <2> QED
    BY <1>5, <2>1, <2>2 DEF InOrder, Ascending, Members
<1>15. LoopRuns' /\ HandsFull' /\ ClosedLeaves'
  <2>1. LoopRuns'
    BY <1>1, <1>4 DEF LoopRuns
  <2>2. ASSUME NEW k \in 1..(n + 1)
        PROVE  /\ link'[k].phase \in {"got", "keeping"} => link'[k].line # 0
               /\ link'[k].closed => link'[k].phase \in {"closing", "ended"}
    <3>1. CASE k \in 1..n
      BY <1>1, <1>5, <1>8, <3>1 DEF HandsFull, ClosedLeaves
    <3>2. CASE k = n + 1
      BY <1>6, <1>8, <3>2
    <3> QED
      BY <1>12, <3>1, <3>2
  <2> QED
    BY <1>5, <2>1, <2>2 DEF HandsFull, ClosedLeaves
<1>16. ASSUME NEW g \in Frontends, g # f, Exact(g) PROVE Exact(g)'
  <2>1. At(g)' = At(g)
    BY <1>5, <1>6, <1>8, <1>12, <1>13, <1>16 DEF At
  <2>2. \A k \in At(g) : link'[k] = link[k]
    BY <1>5, <1>8 DEF At
  <2>3. terminals'[g] = terminals[g] /\ printer' = printer
    BY <1>4
  <2>4. Open(g)' = Open(g) /\ (Closing(g)' <=> Closing(g))
    BY <2>1, <2>2 DEF Open, Closing
  <2>5. Members(terminals[g])' = Open(g)'
    BY <1>16, <2>3, <2>4 DEF Exact, Members
  <2>6. ASSUME NEW k \in At(g)
        PROVE  /\ link'[k].phase = "closing" => Members(link[k].rest)' = Open(g)' \ {k}
               /\ link'[k].phase = "opening" => link'[k].rest = Append(terminals'[g], k)
    BY <1>16, <2>2, <2>3, <2>4 DEF Exact, Members
  <2>7. ASSUME NEW k \in At(g), NEW l \in At(g), link'[k].phase \in {"opening", "closing"},
               link'[l].phase \in {"opening", "closing"}
        PROVE  k = l
    BY <1>16, <2>2, <2>7 DEF Exact
  <2>8. \A p \in Printers : printer'[p].last > 0 /\ printer'[p].fe = g =>
          ~Closing(g)' /\ printer'[p].last <= Len(terminals'[g])
    BY <1>16, <2>3, <2>4 DEF Exact
  <2> QED
    BY <2>1, <2>5, <2>6, <2>7, <2>8 DEF Exact
<1>17. ASSUME Exact(f), ~Changing(f) PROVE Exact(f)'
  <2>1. At(f)' = At(f) \cup {n + 1}
    BY <1>5, <1>6, <1>8, <1>12, <1>13 DEF At
  <2>2. \A k \in At(f) : link'[k] = link[k]
    BY <1>5, <1>8 DEF At
  <2>3. Open(f)' = Open(f)
    BY <1>6, <1>8, <2>1, <2>2 DEF Open
  <2>4. \A k \in At(f)' : link'[k].phase \in {"opening", "closing"} => k = n + 1
    BY <1>17, <2>1, <2>2 DEF Changing
  <2>5. Members(terminals'[f]) = Open(f)'
    BY <1>4, <1>17, <2>3 DEF Exact
  <2>6. link'[n + 1].rest = Append(terminals'[f], n + 1) /\ link'[n + 1].phase = "opening"
    BY <1>3, <1>4, <1>6, <1>8 DEF us
  <2>7. ~Closing(f)'
    BY <2>4, <2>6 DEF Closing
  <2>8. ASSUME NEW p \in Printers, printer'[p].last > 0, printer'[p].fe = f
        PROVE  printer'[p].last <= Len(terminals'[f])
    BY <1>4, <1>17, <2>8 DEF Exact
  <2> QED
    BY <2>4, <2>5, <2>6, <2>7, <2>8 DEF Exact, Closing, Members
<1>18. \A g \in Frontends \ overlap' : Exact(g)'
  BY <1>4, <1>16, <1>17 DEF KeptInv
<1>19. status' \notin {"closedChannel", "beyondSlice"}
  BY <1>4
<1> QED
  BY <1>11, <1>14, <1>15, <1>18, <1>19 DEF KeptInv, TypeInv

\* Whatever append makes of the array, Terminals are set to a list that some
\* session was to set them to, or that they had.
LEMMA ExtendedIsAList ==
  ASSUME KeptInv, NEW l \in Opened, NEW f \in Frontends, NEW list \in Extended(f, l)
  PROVE  list \in Seq(Links) /\ Ascending(list) /\ Members(list) \subseteq Opened
<1>1. TypeOK /\ InOrder
  BY DEF KeptInv, TypeInv
<1>2. \A k \in Opened : /\ link[k].rest \in Seq(Links) /\ Ascending(link[k].rest)
                        /\ Members(link[k].rest) \subseteq Opened
  BY <1>1, TypesOf, LinkParts DEF InOrder
<1>3. \/ \E k \in Opened : list = link[k].rest
      \/ list = terminals[f]
  BY DEF Extended, At
<1> QED
  BY <1>1, <1>2, <1>3 DEF InOrder, TypeOK

\* Where no steps overlapped it is the one that was to be.
LEMMA ExtendedAlone ==
  ASSUME KeptInv, NEW f \in Frontends, Exact(f), NEW l \in At(f), link[l].phase = "opening",
         NEW list \in Extended(f, l)
  PROVE  list = Append(terminals[f], l)
<1>1. terminals[f] \in Seq(Links) /\ l \in Links
  BY TypesOf DEF At
<1>2. link[l].rest = Append(terminals[f], l)
  BY DEF Exact
<1>3. \A k \in At(f) : link[k].phase = "opening" => k = l
  BY DEF Exact
<1>4. Len(Append(terminals[f], l)) # Len(terminals[f])
  BY <1>1
<1> QED
  BY <1>2, <1>3, <1>4 DEF Extended

LEMMA LinkedKept ==
  ASSUME KeptInv, NEW s \in Sessions, NEW l \in Opened, Linked(s, l)
  PROVE  KeptInv'
<1>1. /\ TypeOK /\ InOrder /\ LoopRuns /\ HandsFull /\ ClosedLeaves /\ link[l] \in Link
      /\ session[s] \in Session
  BY TypesOf DEF KeptInv, TypeInv
<1>2. PICK f \in Frontends : f = link[l].fe
  BY <1>1, LinkParts
<1>3. PICK list \in Extended(f, l) : terminals' = [terminals EXCEPT ![f] = list]
  BY <1>2 DEF Linked
<1> DEFINE r == [link[l] EXCEPT !.phase = "starting", !.rest = <<>>]
           u == [session[s] EXCEPT !.phase = "idle"]
<1>4. /\ status = "up" /\ link[l].phase = "opening" /\ link' = [link EXCEPT ![l] = r]
      /\ session' = [session EXCEPT ![s] = u]
      /\ UNCHANGED <<status, online, buffer, screen, opened, printer, lines, taken,
                     overlap, mixed>>
  BY DEF Linked, Up, printVars, history
<1>5. list \in Seq(Links) /\ Ascending(list) /\ Members(list) \subseteq Opened
  BY ExtendedIsAList
<1>6. /\ r \in Link /\ r.fe = f /\ r.phase = "starting" /\ r.rest = <<>>
      /\ r.closed = link[l].closed
  <2>1. <<>> \in Seq(Links)
    OBVIOUS
  <2> QED
    BY <1>1, <1>2, <2>1 DEF Link
<1>7. u \in Session
  BY <1>1 DEF Session
<1> HIDE DEF r, u
<1>8. /\ link' \in [Opened -> Link] /\ link'[l] = r
      /\ \A k \in Opened : k # l => link'[k] = link[k]
  BY <1>1, <1>4, <1>6, OneLink
<1>9. /\ terminals' \in [Frontends -> Seq(Links)] /\ terminals'[f] = list
      /\ \A g \in Frontends : g # f => terminals'[g] = terminals[g]
  BY <1>1, <1>3, <1>5 DEF TypeOK
<1>10. TypeOK'
  <2>1. session' \in [Sessions -> Session]
    BY <1>1, <1>4, <1>7, OneSession
  <2> QED
    BY <1>1, <1>4, <1>8, <1>9, <2>1 DEF TypeOK, Opened
<1>11. Opened' = Opened
  BY <1>4 DEF Opened
<1>12. InOrder'
  <2>1. ASSUME NEW k \in Opened
        PROVE  Ascending(link'[k].rest) /\ Members(link'[k].rest) \subseteq Opened
    <3>1. CASE k = l
      BY <1>6, <1>8, <3>1 DEF Ascending, Members
    <3>2. CASE k # l
      BY <1>1, <1>8, <3>2 DEF InOrder
    <3> QED
      BY <3>1, <3>2
  <2>2. ASSUME NEW g \in Frontends
        PROVE  Ascending(terminals'[g]) /\ Members(terminals'[g]) \subseteq Opened
    BY <1>1, <1>5, <1>9 DEF InOrder
  <2> QED
    BY <1>11, <2>1, <2>2 DEF InOrder, Ascending, Members
<1>13. LoopRuns' /\ HandsFull' /\ ClosedLeaves'
  BY <1>1, <1>4, <1>6, <1>8, <1>11 DEF LoopRuns, HandsFull, ClosedLeaves
<1>14. \A g : At(g)' = At(g)
  BY <1>2, <1>6, <1>8, <1>11 DEF At
<1>15. ASSUME NEW g \in Frontends, g # f, Exact(g) PROVE Exact(g)'
  <2>1. \A k \in At(g) : link'[k] = link[k]
    BY <1>2, <1>8, <1>15 DEF At
  <2>2. terminals'[g] = terminals[g] /\ printer' = printer
    BY <1>4, <1>9, <1>15
  <2> QED
    BY <1>14, <1>15, <2>1, <2>2 DEF Exact, Open, Closing, Members
<1>16. ASSUME Exact(f) PROVE Exact(f)'
  <2>1. At(f) \subseteq Opened /\ l \in At(f)
    BY <1>2 DEF At
  <2>2. Open(f)' = Open(f) \cup {l}
    BY <1>4, <1>6, <1>8, <1>14, <2>1 DEF Open
  <2>3. PICK ts \in Seq(Links) : ts = terminals[f]
    BY TypesOf
  <2>4. list = Append(ts, l) /\ \A k \in At(f) : link[k].phase \in {"opening", "closing"} => k = l
    BY <1>4, <1>16, <2>1, <2>3, ExtendedAlone DEF Exact
  <2>5. \A k \in At(f) : link'[k].phase \notin {"opening", "closing"}
    BY <1>6, <1>8, <2>1, <2>4
  <2>6. Members(list) = Members(ts) \cup {l} /\ Len(list) = Len(ts) + 1 /\ Len(ts) \in Nat
    <3>1. l \in Links
      BY TypesOf
    <3> QED
      BY <2>3, <2>4, <3>1, AppendedMembers
  <2>7. Members(terminals[f])' = Open(f)'
    <3>1. Members(terminals[f]) = Open(f)
      BY <1>16 DEF Exact
    <3>2. Members(terminals[f])' = Members(list)
      BY <1>9 DEF Members
    <3> QED
      BY <2>2, <2>3, <2>6, <3>1, <3>2
  <2>8. ASSUME NEW p \in Printers, printer'[p].last > 0, printer'[p].fe = f
        PROVE  ~Closing(f)' /\ printer'[p].last <= Len(terminals'[f])
    <3>1. printer[p].last <= Len(ts) /\ printer[p].last \in 0..MaxLinks
      BY <1>4, <1>16, <2>3, <2>8, TypesOf, PrinterParts DEF Exact
    <3>2. ~Closing(f)'
      BY <1>14, <2>5 DEF Closing
    <3> QED
      BY <1>4, <1>9, <2>6, <3>1, <3>2, BoundsAssumption
  <2> QED
    BY <1>14, <2>5, <2>7, <2>8 DEF Exact
<1>17. \A g \in Frontends \ overlap' : Exact(g)'
  BY <1>4, <1>15, <1>16 DEF KeptInv
<1>18. status' \notin {"closedChannel", "beyondSlice"}
  BY <1>4
<1> QED
  BY <1>10, <1>12, <1>13, <1>17, <1>18 DEF KeptInv, TypeInv

LEMMA CancelledKept ==
  ASSUME KeptInv, NEW l \in Opened, Cancelled(l)
  PROVE  KeptInv'
<1>1. /\ TypeOK /\ InOrder /\ LoopRuns /\ HandsFull /\ ClosedLeaves /\ link[l] \in Link
  BY TypesOf DEF KeptInv, TypeInv
<1>2. PICK f \in Frontends : f = link[l].fe
  BY <1>1, LinkParts
<1>3. PICK rest \in TerminalDisconnected(f, l) :
        link' = [link EXCEPT ![l].phase = "closing",
                   ![l].closed = \E i \in DOMAIN terminals[f] : terminals[f][i] = l,
                   ![l].rest = rest]
  BY <1>2 DEF Cancelled
<1>4. PICK c \in BOOLEAN : c = \E i \in DOMAIN terminals[f] : terminals[f][i] = l
  OBVIOUS
<1> DEFINE r == [link[l] EXCEPT !.phase = "closing", !.closed = c, !.rest = rest]
<1>5. link' = [link EXCEPT ![l] = r]
  BY <1>3, <1>4
<1>6. /\ status = "up" /\ link[l].phase = "waiting"
      /\ overlap' = IF Changing(f) \/ Printing(f) THEN overlap \cup {f} ELSE overlap
      /\ UNCHANGED <<status, online, terminals, session, buffer, screen, opened, printer, lines,
                     taken, mixed>>
  BY <1>2 DEF Cancelled, Up, Overlaps, termVars, printVars
<1>7. /\ rest \in Seq(Links) /\ Ascending(rest)
      /\ Members(rest) = Members(terminals[f]) \ {l}
      /\ Members(terminals[f]) \subseteq Opened
  <2>1. terminals[f] \in Seq(Links) /\ Ascending(terminals[f]) /\ Members(terminals[f]) \subseteq Opened
    BY <1>1 DEF TypeOK, InOrder
  <2> QED
    BY <2>1, WithoutLink
<1>8. r \in Link /\ r.fe = f /\ r.phase = "closing" /\ r.rest = rest
  BY <1>1, <1>2, <1>7 DEF Link
<1> HIDE DEF r
<1>9. /\ link' \in [Opened -> Link] /\ link'[l] = r
      /\ \A k \in Opened : k # l => link'[k] = link[k]
  BY <1>1, <1>5, <1>8, OneLink
<1>10. TypeOK'
  <2>1. overlap' \subseteq Frontends
    BY <1>1, <1>6 DEF TypeOK
  <2> QED
    BY <1>1, <1>6, <1>9, <2>1 DEF TypeOK, Opened
<1>11. Opened' = Opened
  BY <1>6 DEF Opened
<1>12. InOrder'
  <2>1. ASSUME NEW k \in Opened
        PROVE  Ascending(link'[k].rest) /\ Members(link'[k].rest) \subseteq Opened
    BY <1>1, <1>7, <1>8, <1>9 DEF InOrder
  <2>2. ASSUME NEW g \in Frontends
        PROVE  Ascending(terminals'[g]) /\ Members(terminals'[g]) \subseteq Opened
    BY <1>1, <1>6 DEF InOrder
  <2> QED
    BY <1>11, <2>1, <2>2 DEF InOrder, Ascending, Members
<1>13. LoopRuns' /\ HandsFull' /\ ClosedLeaves'
  BY <1>1, <1>6, <1>8, <1>9, <1>11 DEF LoopRuns, HandsFull, ClosedLeaves
<1>14. \A g : At(g)' = At(g)
  BY <1>2, <1>8, <1>9, <1>11 DEF At
<1>15. ASSUME NEW g \in Frontends, g # f, Exact(g) PROVE Exact(g)'
  <2>1. \A k \in At(g) : link'[k] = link[k]
    BY <1>2, <1>9, <1>15 DEF At
  <2>2. terminals'[g] = terminals[g] /\ printer' = printer
    BY <1>6
  <2> QED
    BY <1>14, <1>15, <2>1, <2>2 DEF Exact, Open, Closing, Members
<1>16. ASSUME Exact(f), ~Changing(f), ~Printing(f) PROVE Exact(f)'
  <2>1. At(f) \subseteq Opened /\ l \in At(f)
    BY <1>2 DEF At
  <2>2. Open(f)' = Open(f)
    BY <1>6, <1>8, <1>9, <1>14, <2>1 DEF Open
  <2>3. \A k \in At(f) : link'[k].phase \in {"opening", "closing"} => k = l
    BY <1>9, <1>16, <2>1 DEF Changing
  <2>4. Members(rest) = Open(f) \ {l}
    BY <1>7, <1>16 DEF Exact
  <2>5. \A p \in Printers : ~(printer'[p].last > 0 /\ printer'[p].fe = f)
    BY <1>6, <1>16 DEF Printing
  <2>6. Members(terminals[f])' = Open(f)
    BY <1>6, <1>16 DEF Exact, Members
  <2>7. \A k \in At(f) : link'[k].phase = "closing" => Members(link'[k].rest) = Open(f) \ {k}
    BY <1>8, <1>9, <2>3, <2>4
  <2>8. \A k \in At(f) : link'[k].phase # "opening"
    BY <1>8, <1>9, <2>3
  <2> QED
    BY <1>14, <2>2, <2>3, <2>5, <2>6, <2>7, <2>8 DEF Exact, Members
<1>17. \A g \in Frontends \ overlap' : Exact(g)'
  BY <1>6, <1>15, <1>16 DEF KeptInv
<1>18. status' \notin {"closedChannel", "beyondSlice"}
  BY <1>6
<1> QED
  BY <1>10, <1>12, <1>13, <1>17, <1>18 DEF KeptInv, TypeInv

LEMMA EndsKept ==
  ASSUME KeptInv, NEW l \in Opened, Ends(l)
  PROVE  KeptInv'
<1>1. /\ TypeOK /\ InOrder /\ LoopRuns /\ HandsFull /\ ClosedLeaves /\ link[l] \in Link
  BY TypesOf DEF KeptInv, TypeInv
<1>2. PICK f \in Frontends : f = link[l].fe
  BY <1>1, LinkParts
<1>3. PICK rest \in Seq(Links) : rest = link[l].rest
  BY <1>1, LinkParts
<1> DEFINE r == [link[l] EXCEPT !.phase = "ended", !.rest = <<>>]
<1>4. /\ status = "up" /\ link[l].phase = "closing" /\ link' = [link EXCEPT ![l] = r]
      /\ terminals' = [terminals EXCEPT ![f] = rest]
      /\ UNCHANGED <<status, online, session, buffer, screen, opened, printer, lines, taken,
                     overlap, mixed>>
  BY <1>2, <1>3 DEF Ends, Up, termVars, printVars, history
<1>5. r \in Link /\ r.fe = f /\ r.phase = "ended" /\ r.rest = <<>>
  <2>1. <<>> \in Seq(Links)
    OBVIOUS
  <2> QED
    BY <1>1, <1>2, <2>1 DEF Link
<1> HIDE DEF r
<1>6. /\ link' \in [Opened -> Link] /\ link'[l] = r
      /\ \A k \in Opened : k # l => link'[k] = link[k]
  BY <1>1, <1>4, <1>5, OneLink
<1>7. /\ terminals' \in [Frontends -> Seq(Links)] /\ terminals'[f] = rest
      /\ \A g \in Frontends : g # f => terminals'[g] = terminals[g]
  BY <1>1, <1>4 DEF TypeOK
<1>8. TypeOK'
  BY <1>1, <1>4, <1>6, <1>7 DEF TypeOK, Opened
<1>9. Opened' = Opened
  BY <1>4 DEF Opened
<1>10. InOrder'
  <2>1. ASSUME NEW k \in Opened
        PROVE  Ascending(link'[k].rest) /\ Members(link'[k].rest) \subseteq Opened
    <3>1. CASE k = l
      BY <1>5, <1>6, <3>1 DEF Ascending, Members
    <3>2. CASE k # l
      BY <1>1, <1>6, <3>2 DEF InOrder
    <3> QED
      BY <3>1, <3>2
  <2>2. ASSUME NEW g \in Frontends
        PROVE  Ascending(terminals'[g]) /\ Members(terminals'[g]) \subseteq Opened
    BY <1>1, <1>3, <1>7 DEF InOrder
  <2> QED
    BY <1>9, <2>1, <2>2 DEF InOrder, Ascending, Members
<1>11. LoopRuns' /\ HandsFull' /\ ClosedLeaves'
  BY <1>1, <1>4, <1>5, <1>6, <1>9 DEF LoopRuns, HandsFull, ClosedLeaves
<1>12. \A g : At(g)' = At(g)
  BY <1>2, <1>5, <1>6, <1>9 DEF At
<1>13. ASSUME NEW g \in Frontends, g # f, Exact(g) PROVE Exact(g)'
  <2>1. \A k \in At(g) : link'[k] = link[k]
    BY <1>2, <1>6, <1>13 DEF At
  <2>2. terminals'[g] = terminals[g] /\ printer' = printer
    BY <1>4, <1>7, <1>13
  <2> QED
    BY <1>12, <1>13, <2>1, <2>2 DEF Exact, Open, Closing, Members
<1>14. ASSUME Exact(f) PROVE Exact(f)'
  <2>1. At(f) \subseteq Opened /\ l \in At(f)
    BY <1>2 DEF At
  <2>2. Open(f)' = Open(f) \ {l}
    BY <1>5, <1>6, <1>12, <2>1 DEF Open
  <2>3. Members(rest) = Open(f) \ {l} /\ \A k \in At(f) : link[k].phase \in {"opening", "closing"} => k = l
    BY <1>3, <1>4, <1>14, <2>1 DEF Exact
  <2>4. \A k \in At(f) : link'[k].phase \notin {"opening", "closing"}
    BY <1>5, <1>6, <2>1, <2>3
  <2>5. \A p \in Printers : ~(printer'[p].last > 0 /\ printer'[p].fe = f)
    BY <1>4, <1>14, <2>1 DEF Exact, Closing
  <2> QED
    BY <1>7, <1>12, <2>2, <2>3, <2>4, <2>5 DEF Exact, Members
<1>15. \A g \in Frontends \ overlap' : Exact(g)'
  BY <1>4, <1>13, <1>14 DEF KeptInv
<1>16. status' \notin {"closedChannel", "beyondSlice"}
  BY <1>4
<1> QED
  BY <1>8, <1>10, <1>11, <1>15, <1>16 DEF KeptInv, TypeInv

-----------------------------------------------------------------------------
(* The specification.                                                      *)

LEMMA InitKept ==
  ASSUME Init
  PROVE  KeptInv
<1>1. Opened = {} /\ \A f : At(f) = {} /\ Open(f) = {}
  BY DEF Init, Opened, At, Open
<1>2. PICK f0 \in Frontends : f0 = CHOOSE f \in Frontends : TRUE
  BY FrontendsAssumption
<1>3. \A p \in Printers : printer[p] = [fe |-> f0, line |-> 0, next |-> 1, last |-> 0]
  BY <1>2 DEF Init
<1>4. printer \in [Printers -> Printer]
  <2>1. 0 \in 0..MaxLines /\ 0 \in 0..MaxLinks
    BY BoundsAssumption
  <2>2. [fe |-> f0, line |-> 0, next |-> 1, last |-> 0] \in Printer
    BY <2>1 DEF Printer
  <2> QED
    BY <1>2, <2>2 DEF Init
<1>5. TypeOK
  <2>1. 0 \in 0..MaxLines /\ 0 \in 0..MaxLinks
    BY BoundsAssumption
  <2>2. session \in [Sessions -> Session]
    <3>1. [phase |-> "out", fe |-> NoFrontend, active |-> NoFrontend, paused |-> FALSE,
           latest |-> 0, todo |-> <<>>] \in Session
      BY <2>1 DEF Session
    <3> QED
      BY <3>1 DEF Init
  <2>3. link \in [1..opened -> Link] /\ taken \in [1..opened -> Seq(Lines)]
    BY DEF Init
  <2>4. buffer \in [Sessions -> Seq(Entry)] /\ screen \in [Sessions -> Seq(Entry)]
    BY DEF Init
  <2>5. terminals \in [Frontends -> Seq(Links)]
    BY DEF Init
  <2> QED
    BY <1>4, <2>1, <2>2, <2>3, <2>4, <2>5 DEF Init, TypeOK
<1>6. \A f \in Frontends : Ascending(terminals[f]) /\ Members(terminals[f]) = {}
  BY DEF Init, Ascending, Members
<1>7. \A p \in Printers : ~(printer[p].last > 0)
  BY <1>3
<1>8. TypeInv /\ ClosedLeaves
  BY <1>1, <1>5, <1>6, <1>7 DEF TypeInv, InOrder, LoopRuns, HandsFull, ClosedLeaves
<1>9. \A f \in Frontends : Exact(f)
  BY <1>1, <1>6, <1>7 DEF Exact
<1> QED
  BY <1>8, <1>9 DEF KeptInv, Init

LEMMA StepKept ==
  ASSUME KeptInv, [Next]_vars
  PROVE  KeptInv'
<1>1. CASE UNCHANGED vars
  <2>1. TypeOK /\ LoopRuns /\ HandsFull
    BY DEF KeptInv, TypeInv
  <2>2. UNCHANGED <<status, online, terminals, session, buffer, screen, link, opened, printer,
                    lines, taken, overlap, mixed>>
    BY <1>1 DEF vars, termVars, printVars, history
  <2>3. SameLinks /\ SamePrinters /\ HandsFull'
    BY <2>1, <2>2 DEF SameLinks, SamePrinters, LoopRuns, HandsFull, Opened
  <2> QED
    BY <2>1, <2>2, <2>3, SameKept DEF TypeOK, KeptInv
<1>2. ASSUME NEW s \in Sessions,
             \/ Login(s) \/ ServerDropped(s) \/ CommandToNone(s) \/ Pause(s)
             \/ Unpause(s) \/ UnpauseLine(s) \/ UnpauseEnd(s) \/ Quit(s)
             \/ \E f \in Frontends : Server(s, f)
             \/ \E l \in Of(s) : Linked(s, l)
             \/ \E f \in Frontends \cup {NoFrontend} : ServerRefused(s, f)
      PROVE  KeptInv'
  <2>1. \A l \in Of(s) : l \in Opened
    BY DEF Of
  <2> QED
    BY <1>2, <2>1, LoginKept, ServerDroppedKept, CommandToNoneKept, UnpauseKept, QuitKept,
       ServerKept, LinkedKept, ServerRefusedKept
<1>3. ASSUME NEW f \in Frontends, GoesOrComes(f) \/ \E p \in Printers : PrintLine(p, f)
      PROVE  KeptInv'
  BY <1>3, GoesOrComesKept, PrintLineKept
<1>4. ASSUME NEW p \in Printers, PrintTo(p) PROVE KeptInv'
  BY <1>4, PrintToKept
<1>5. ASSUME NEW l \in Opened, LinkSteps(l) PROVE KeptInv'
  BY <1>5, ConnectsKept, ShowKept, KeepKept, CancelledKept, EndsKept DEF LinkSteps
<1> QED
  BY <1>1, <1>2, <1>3, <1>4, <1>5 DEF Next

\* Every variable keeps its type: a printing goroutine's index stays within the
\* length its loop began with, and a list of channels, however two goroutines
\* overwrite it, holds links that were opened (ssh.go:695-733,
\* frontend.go:359-384).
THEOREM TypeCorrect == Spec => []TypeOK
<1>1. KeptInv => TypeOK
  BY DEF KeptInv, TypeInv
<1> QED
  BY <1>1, InitKept, StepKept, PTL DEF Spec

\* Where no two links came or went at the same time and none closed while a line
\* was printed, Terminals is exactly the links that have begun and not ended, in
\* the order they were opened; so no process ends by a closed channel or a
\* missing index unless such steps overlapped (ssh.go:308-311, 730,
\* frontend.go:359-384).
THEOREM TerminalsAreKept == Spec => []TerminalsKept
<1>1. KeptInv => TerminalsKept
  <2> SUFFICES ASSUME KeptInv PROVE TerminalsKept
    OBVIOUS
  <2>1. status \in {"closedChannel", "beyondSlice"} => overlap # {}
    BY DEF KeptInv
  <2>2. ASSUME NEW f \in Frontends \ overlap
        PROVE  /\ \A i, j \in DOMAIN terminals[f] : i < j => terminals[f][i] < terminals[f][j]
               /\ {terminals[f][i] : i \in DOMAIN terminals[f]} =
                    {l \in At(f) : link[l].phase \notin {"opening", "ended"}}
    BY <2>2 DEF KeptInv, TypeInv, InOrder, Ascending, Exact, Members, Open
  <2> QED
    BY <2>1, <2>2 DEF TerminalsKept
<1> QED
  BY <1>1, InitKept, StepKept, PTL DEF Spec

-----------------------------------------------------------------------------
(* Induction.  The rule of the library takes a predicate; this one takes a *)
(* set.                                                                    *)

LEMMA LeastElement ==
  ASSUME NEW T, T \subseteq Nat, T # {}
  PROVE  \E x \in T : \A y \in T : x <= y
<1> PICK N \in T : TRUE
  OBVIOUS
<1> DEFINE S == 0..N
           U == {Y \in SUBSET S : \E k \in T : k <= N /\ Y = 0..k}
           R == StrictSubsetOrdering(S)
<1>1. IsWellFoundedOn(R, SUBSET S)
  <2>1. IsFiniteSet(S)
    BY FS_Interval
  <2> QED
    BY <2>1, FS_StrictSubsetOrderingWellFounded, FS_FiniteSubsetsOfFinite
<1>2. U \subseteq SUBSET S /\ S \in U
  OBVIOUS
<1>3. PICK x \in U : \A y \in U : ~(<<y, x>> \in R)
  <2> HIDE DEF R, U, S
  <2> QED
    BY <1>1, <1>2, WFMin
<1>4. PICK k \in T : k <= N /\ x = 0..k
  BY <1>3
<1>5. ASSUME NEW y \in T, y < k PROVE FALSE
  <2>1. 0..y \in U
    BY <1>4, <1>5
  <2>2. 0..y \subseteq x /\ 0..y # x /\ x \in SUBSET S
    BY <1>4, <1>5
  <2>3. <<0..y, x>> \in R
    BY <2>1, <2>2, <1>2 DEF StrictSubsetOrdering
  <2> QED
    BY <1>3, <2>1, <2>3
<1>6. \A y \in T : k <= y
  BY <1>5
<1> QED
  BY <1>6

LEMMA Induction ==
  ASSUME NEW N \in Nat, NEW T, 0 \in T, \A n \in 0..(N - 1) : n \in T => n + 1 \in T
  PROVE  \A n \in 0..N : n \in T
<1>1. SUFFICES ASSUME NEW m \in 0..N, m \notin T PROVE FALSE
  OBVIOUS
<1> DEFINE U == (0..N) \ T
<1>2. U \subseteq Nat /\ U # {}
  BY <1>1
<1> HIDE DEF U
<1>3. PICK x \in U : \A y \in U : x <= y
  BY <1>2, LeastElement
<1> USE DEF U
<1>4. x - 1 \in T /\ x - 1 \in 0..(N - 1)
  BY <1>3
<1> QED
  BY <1>3, <1>4

-----------------------------------------------------------------------------
(* The lines of a link among entries.                                      *)

Picked(s, e, l) == IF e[1] = l THEN Append(s, e[2]) ELSE s

\* g has the lines of link l among the first entries, up to the first n.
Picks(entries, l, n, g) ==
  /\ g \in [0..n -> Seq(Lines)] /\ g[0] = <<>>
  /\ \A k \in 1..n : g[k] = Picked(g[k - 1], entries[k], l)

LEMMA PickedType ==
  ASSUME NEW s \in Seq(Lines), NEW e \in Entry, NEW l
  PROVE  Picked(s, e, l) \in Seq(Lines)
<1>1. e[2] \in Lines
  BY DEF Entry
<1> QED
  BY <1>1 DEF Picked

LEMMA PicksExist ==
  ASSUME NEW entries \in Seq(Entry), NEW l
  PROVE  \E g : Picks(entries, l, Len(entries), g)
<1>0. PICK N \in Nat : N = Len(entries)
  OBVIOUS
<1> DEFINE T == {n \in 0..N : \E g : Picks(entries, l, n, g)}
<1>1. 0 \in T
  <2>1. Picks(entries, l, 0, [k \in 0..0 |-> <<>>])
    BY DEF Picks
  <2> QED
    BY <1>0, <2>1
<1>2. ASSUME NEW n \in 0..(N - 1), n \in T PROVE n + 1 \in T
  <2>1. PICK g : Picks(entries, l, n, g)
    BY <1>2
  <2>0. n \in Nat /\ n + 1 \in 1..N
    OBVIOUS
  <2>2. /\ n \in Nat /\ n + 1 \in DOMAIN entries /\ entries[n + 1] \in Entry
        /\ g \in [0..n -> Seq(Lines)] /\ g[n] \in Seq(Lines)
    <3>1. n + 1 \in DOMAIN entries /\ entries[n + 1] \in Entry
      BY <1>0, <2>0
    <3>2. n \in 0..n
      BY <2>0
    <3> QED
      BY <2>0, <2>1, <3>1, <3>2 DEF Picks
  <2> DEFINE x == Picked(g[n], entries[n + 1], l)
             h == [k \in 0..(n + 1) |-> IF k = n + 1 THEN x ELSE g[k]]
  <2>3. x \in Seq(Lines)
    BY <2>2, PickedType
  <2> HIDE DEF x
  <2>4. h \in [0..(n + 1) -> Seq(Lines)] /\ h[0] = <<>>
    BY <2>1, <2>2, <2>3 DEF Picks
  <2>5. \A k \in 1..(n + 1) : h[k] = Picked(h[k - 1], entries[k], l)
    <3> SUFFICES ASSUME NEW k \in 1..(n + 1) PROVE h[k] = Picked(h[k - 1], entries[k], l)
      OBVIOUS
    <3>1. CASE k = n + 1
      <4>1. h[k] = x /\ h[k - 1] = g[n]
        BY <2>2, <3>1
      <4> QED
        BY <3>1, <4>1 DEF x
    <3>2. CASE k # n + 1
      <4>1. k \in 1..n /\ h[k] = g[k] /\ h[k - 1] = g[k - 1]
        BY <2>2, <3>2
      <4> QED
        BY <2>1, <4>1 DEF Picks
    <3> QED
      BY <3>1, <3>2
  <2> HIDE DEF h
  <2>6. Picks(entries, l, n + 1, h)
    BY <2>4, <2>5 DEF Picks
  <2>7. n + 1 \in 0..N
    BY <1>0, <1>2
  <2> QED
    BY <2>6, <2>7
<1> HIDE DEF T
<1>3. \A n \in 0..N : n \in T
  BY <1>1, <1>2, Induction
<1>4. N \in 0..N
  OBVIOUS
<1> QED
  BY <1>0, <1>3, <1>4 DEF T

\* Whatever has the lines has those that LinesOf returns.
LEMMA LinesArePicks ==
  ASSUME NEW entries \in Seq(Entry), NEW l, NEW g, Picks(entries, l, Len(entries), g)
  PROVE  LinesOf(entries, l) = g[Len(entries)]
<1>0. PICK N \in Nat : N = Len(entries)
  OBVIOUS
<1> DEFINE Eqn(f) == f = [n \in 0..N |->
                            IF n = 0 THEN <<>>
                            ELSE IF entries[n][1] = l THEN Append(f[n - 1], entries[n][2])
                            ELSE f[n - 1]]
           of == CHOOSE f : Eqn(f)
<1>1. LinesOf(entries, l) = of[N]
  BY <1>0 DEF LinesOf
<1>9. /\ g \in [0..N -> Seq(Lines)] /\ g[0] = <<>>
      /\ \A k \in 1..N : g[k] = Picked(g[k - 1], entries[k], l)
  BY <1>0 DEF Picks
<1>2. Eqn(g)
  <2>1. ASSUME NEW n \in 0..N
        PROVE  g[n] = IF n = 0 THEN <<>>
                      ELSE IF entries[n][1] = l THEN Append(g[n - 1], entries[n][2])
                      ELSE g[n - 1]
    <3>1. CASE n = 0
      BY <1>9, <3>1
    <3>2. CASE n # 0
      <4>1. n \in 1..N
        BY <3>2
      <4> QED
        BY <1>9, <3>2, <4>1 DEF Picked
    <3> QED
      BY <3>1, <3>2
  <2>2. g = [n \in 0..N |-> g[n]]
    BY <1>9
  <2> QED
    BY <2>1, <2>2
<1>3. Eqn(of)
  <2> HIDE DEF Eqn
  <2> QED
    BY <1>2
<1> HIDE DEF of
<1>4. /\ of[0] = <<>>
      /\ \A n \in 1..N : of[n] = Picked(of[n - 1], entries[n], l)
  <2>1. \A n \in 0..N : of[n] = IF n = 0 THEN <<>>
                               ELSE IF entries[n][1] = l THEN Append(of[n - 1], entries[n][2])
                               ELSE of[n - 1]
    BY <1>3
  <2> QED
    BY <1>0, <2>1 DEF Picked
<1> DEFINE T == {n \in 0..N : of[n] = g[n]}
<1>5. 0 \in T
  BY <1>4, <1>9
<1>6. ASSUME NEW n \in 0..(N - 1), n \in T PROVE n + 1 \in T
  <2>1. n + 1 \in 1..N /\ n + 1 \in 0..N /\ (n + 1) - 1 = n
    BY <1>6
  <2>2. of[n + 1] = Picked(of[n], entries[n + 1], l)
    BY <1>4, <2>1
  <2>3. g[n + 1] = Picked(g[n], entries[n + 1], l)
    BY <1>9, <2>1
  <2> QED
    BY <1>6, <2>1, <2>2, <2>3
<1> HIDE DEF T
<1>7. \A n \in 0..N : n \in T
  BY <1>5, <1>6, Induction
<1>8. N \in 0..N
  OBVIOUS
<1> QED
  BY <1>0, <1>1, <1>7, <1>8 DEF T

LEMMA LinesType ==
  ASSUME NEW entries \in Seq(Entry), NEW l
  PROVE  LinesOf(entries, l) \in Seq(Lines)
<1>1. PICK g : Picks(entries, l, Len(entries), g)
  BY PicksExist
<1>2. Len(entries) \in 0..Len(entries)
  OBVIOUS
<1> QED
  BY <1>1, <1>2, LinesArePicks DEF Picks

\* One entry more.
LEMMA LinesMore ==
  ASSUME NEW entries \in Seq(Entry), NEW e \in Entry, NEW l
  PROVE  LinesOf(Append(entries, e), l) = Picked(LinesOf(entries, l), e, l)
<1> DEFINE more == Append(entries, e)
<1>1. PICK n \in Nat : n = Len(entries)
  OBVIOUS
<1>2. /\ more \in Seq(Entry) /\ Len(more) = n + 1 /\ more[n + 1] = e
      /\ \A k \in 1..n : more[k] = entries[k]
  BY <1>1
<1> HIDE DEF more
<1>3. PICK g : Picks(more, l, n + 1, g)
  BY <1>2, PicksExist
<1> DEFINE h == [k \in 0..n |-> g[k]]
<1>4. /\ g \in [0..(n + 1) -> Seq(Lines)] /\ g[0] = <<>>
      /\ \A k \in 1..(n + 1) : g[k] = Picked(g[k - 1], more[k], l)
  BY <1>3 DEF Picks
<1>5. Picks(entries, l, n, h)
  <2>1. h \in [0..n -> Seq(Lines)] /\ h[0] = <<>>
    BY <1>4
  <2>2. ASSUME NEW k \in 1..n PROVE h[k] = Picked(h[k - 1], entries[k], l)
    <3>1. h[k] = g[k] /\ h[k - 1] = g[k - 1] /\ k \in 1..(n + 1)
      OBVIOUS
    <3> QED
      BY <1>2, <1>4, <3>1
  <2> HIDE DEF h
  <2> QED
    BY <2>1, <2>2 DEF Picks
<1>6. LinesOf(entries, l) = g[n]
  <2>1. h[n] = g[n]
    OBVIOUS
  <2> HIDE DEF h
  <2> QED
    BY <1>1, <1>5, <2>1, LinesArePicks
<1>7. LinesOf(more, l) = g[n + 1]
  BY <1>2, <1>3, LinesArePicks
<1>8. g[n + 1] = Picked(g[n], e, l)
  <2>1. n + 1 \in 1..(n + 1) /\ (n + 1) - 1 = n
    OBVIOUS
  <2> QED
    BY <1>2, <1>4, <2>1
<1> QED
  BY <1>6, <1>7, <1>8 DEF more

\* No entries of this link.
LEMMA LinesNone ==
  ASSUME NEW entries \in Seq(Entry), NEW l, \A i \in DOMAIN entries : entries[i][1] # l
  PROVE  LinesOf(entries, l) = <<>>
<1>1. PICK n \in Nat : n = Len(entries)
  OBVIOUS
<1>2. PICK g : Picks(entries, l, n, g)
  BY <1>1, PicksExist
<1> DEFINE T == {k \in 0..n : g[k] = <<>>}
<1>3. 0 \in T
  BY <1>2 DEF Picks
<1>4. ASSUME NEW k \in 0..(n - 1), k \in T PROVE k + 1 \in T
  <2>1. k + 1 \in 1..n /\ k + 1 \in 0..n /\ (k + 1) - 1 = k /\ k + 1 \in DOMAIN entries
    BY <1>1, <1>4
  <2>2. g[k + 1] = Picked(g[k], entries[k + 1], l)
    BY <1>2, <2>1 DEF Picks
  <2> QED
    BY <1>4, <2>1, <2>2 DEF Picked
<1> HIDE DEF T
<1>5. \A k \in 0..(n - 1) : k \in T => k + 1 \in T
  BY <1>4
<1>6. \A k \in 0..n : k \in T
  BY <1>3, <1>5, Induction
<1>7. n \in 0..n
  OBVIOUS
<1>8. n \in T
  BY <1>6, <1>7
<1> QED
  BY <1>1, <1>2, <1>8, LinesArePicks DEF T

-----------------------------------------------------------------------------
(* What a terminal shows.                                                  *)

\* What is shown and what will be when the session goes on.
Stream(s) == screen[s] \o Kept(s)

\* One line at a time is in hand, none while lines kept back are shown; a line
\* that is being kept goes to the end of the buffer as it is; and the stream has,
\* of each link, what it received, but for the line in hand.
Streamed(s) ==
  /\ \A l, k \in Busy(s) : l = k
  /\ Busy(s) # {} => session[s].phase # "unpausing"
  /\ ~session[s].paused /\ session[s].phase # "unpausing" => buffer[s] = <<>>
  /\ \A l \in Busy(s) : link[l].phase = "keeping" => session[s].paused /\ link[l].kept = buffer[s]
  /\ \A i \in DOMAIN Stream(s) : Stream(s)[i][1] \in Opened
  /\ \A l \in Busy(s) : taken[l] = Append(LinesOf(Stream(s), l), link[l].line)
  /\ \A l \in Of(s) \ Busy(s) : taken[l] = LinesOf(Stream(s), l)

StreamInv == \A s \in Sessions \ mixed : Streamed(s)

LEMMA StreamType ==
  ASSUME KeptInv, NEW s \in Sessions
  PROVE  /\ screen[s] \in Seq(Entry) /\ buffer[s] \in Seq(Entry) /\ session[s].todo \in Seq(Entry)
         /\ Kept(s) \in Seq(Entry) /\ Stream(s) \in Seq(Entry)
<1>1. screen[s] \in Seq(Entry) /\ buffer[s] \in Seq(Entry) /\ session[s].todo \in Seq(Entry)
  BY TypesOf, SessionParts
<1>2. Kept(s) \in Seq(Entry)
  BY <1>1 DEF Kept
<1> QED
  BY <1>1, <1>2 DEF Stream

\* A step that neither moves a line of the session's links nor a line kept back.
SameLines(s) ==
  /\ Opened \subseteq Opened' /\ Of(s)' = Of(s)
  /\ \A l \in Of(s) :
       /\ taken'[l] = taken[l]
       /\ \/ link'[l].phase = link[l].phase
          \/ link[l].phase \notin {"got", "keeping"} /\ link'[l].phase \notin {"got", "keeping"}
       /\ link'[l].line = link[l].line /\ link'[l].kept = link[l].kept

SameBuffer(s) ==
  /\ session'[s].phase = "unpausing" <=> session[s].phase = "unpausing"
  /\ session[s].paused => session'[s].paused
  /\ session'[s].todo = session[s].todo
  /\ buffer'[s] = buffer[s] /\ screen'[s] = screen[s]

LEMMA SameStream ==
  ASSUME NEW s \in Sessions, Streamed(s), SameLines(s), SameBuffer(s),
         session'[s].paused \in BOOLEAN
  PROVE  Streamed(s)'
<1>1. Stream(s)' = Stream(s)
  BY DEF Stream, Kept, SameBuffer
<1>2. Of(s)' = Of(s) /\ Busy(s)' = Busy(s) /\ Busy(s) \subseteq Of(s)
  BY DEF SameLines, Busy
<1>3. \A l \in Busy(s) : link'[l].phase = link[l].phase
  BY DEF SameLines, Busy
<1>4. /\ \A l, k \in Busy(s) : l = k
      /\ Busy(s) # {} => session'[s].phase # "unpausing"
      /\ ~session'[s].paused /\ session'[s].phase # "unpausing" => buffer'[s] = <<>>
  BY DEF Streamed, SameBuffer
<1>5. \A l \in Busy(s) :
        link'[l].phase = "keeping" => session'[s].paused /\ link'[l].kept = buffer'[s]
  BY <1>2, <1>3 DEF Streamed, SameBuffer, SameLines
<1>6. \A i \in DOMAIN Stream(s) : Stream(s)[i][1] \in Opened'
  BY DEF Streamed, SameLines
<1>7. /\ \A l \in Busy(s) : taken'[l] = Append(LinesOf(Stream(s), l), link'[l].line)
      /\ \A l \in Of(s) \ Busy(s) : taken'[l] = LinesOf(Stream(s), l)
  BY <1>2 DEF Streamed, SameLines
<1> QED
  BY <1>1, <1>2, <1>4, <1>5, <1>6, <1>7 DEF Streamed

\* Links that are as they were.
LEMMA LinksUnchanged ==
  ASSUME UNCHANGED <<link, opened, taken>>, NEW s
  PROVE  SameLines(s)
BY DEF SameLines, Of, Opened

\* One link takes a step: those of other sessions do not.
LEMMA OneLinkSteps ==
  ASSUME TypeOK, NEW l \in Opened, NEW r \in Link, link' = [link EXCEPT ![l] = r],
         r.of = link[l].of, opened' = opened, \A k \in Opened : k # l => taken'[k] = taken[k]
  PROVE  /\ \A s : Of(s)' = Of(s)
         /\ \A s : s # link[l].of => SameLines(s)
         /\ \A s : Busy(s)' = IF s = link[l].of /\ r.phase \in {"got", "keeping"}
                              THEN Busy(s) \cup {l} ELSE Busy(s) \ {l}
<1>1. /\ Opened' = Opened /\ link'[l] = r
      /\ \A k \in Opened : k # l => link'[k] = link[k]
  BY OneLink DEF Opened
<1>2. \A s : Of(s)' = Of(s)
  BY <1>1 DEF Of
<1>3. ASSUME NEW s, s # link[l].of PROVE SameLines(s)
  <2>1. \A k \in Of(s) : k \in Opened /\ k # l
    BY <1>3 DEF Of
  <2> QED
    BY <1>1, <1>2, <2>1 DEF SameLines
<1>4. ASSUME NEW s PROVE Busy(s)' = IF s = link[l].of /\ r.phase \in {"got", "keeping"}
                                    THEN Busy(s) \cup {l} ELSE Busy(s) \ {l}
  <2>1. \A k \in Of(s) : k \in Opened
    BY DEF Of
  <2>2. l \in Of(s) <=> s = link[l].of
    BY DEF Of
  <2> QED
    BY <1>1, <1>2, <2>1, <2>2 DEF Busy
<1> QED
  BY <1>2, <1>3, <1>4

\* What is to be shown for one terminal, when nothing happens at the others.
LEMMA OneTerminal ==
  ASSUME KeptInv', StreamInv, mixed \subseteq mixed', NEW s,
         \A t \in Sessions : t # s => SameLines(t) /\ SameBuffer(t),
         s \in Sessions \ mixed' => Streamed(s)'
  PROVE  StreamInv'
<1> SUFFICES ASSUME NEW t \in Sessions, t \notin mixed' PROVE Streamed(t)'
  BY DEF StreamInv
<1>1. CASE t = s
  BY <1>1
<1>2. CASE t # s
  <2>1. Streamed(t)
    BY DEF StreamInv
  <2>2. session'[t].paused \in BOOLEAN
    BY SessionParts DEF KeptInv, TypeInv, TypeOK
  <2> QED
    BY <1>2, <2>1, <2>2, SameStream
<1> QED
  BY <1>1, <1>2

LEMMA NoTerminal ==
  ASSUME KeptInv', StreamInv, mixed \subseteq mixed',
         \A t \in Sessions : SameLines(t) /\ SameBuffer(t)
  PROVE  StreamInv'
<1> SUFFICES ASSUME NEW t \in Sessions, t \notin mixed' PROVE Streamed(t)'
  BY DEF StreamInv
<1>1. Streamed(t)
  BY DEF StreamInv
<1>2. session'[t].paused \in BOOLEAN
  BY SessionParts DEF KeptInv, TypeInv, TypeOK
<1> QED
  BY <1>1, <1>2, SameStream

\* One session takes a step: the others do not.
LEMMA OthersSame ==
  ASSUME TypeOK, NEW s \in Sessions, NEW r, session' = [session EXCEPT ![s] = r],
         \A t \in Sessions : t # s => buffer'[t] = buffer[t] /\ screen'[t] = screen[t]
  PROVE  /\ \A t \in Sessions : t # s => SameBuffer(t)
         /\ session'[s] = r
BY DEF TypeOK, SameBuffer

-----------------------------------------------------------------------------
(* The session's steps.                                                    *)

LEMMA QuietSession ==
  ASSUME KeptInv, KeptInv', StreamInv, NEW s \in Sessions, NEW r,
         session' = [session EXCEPT ![s] = r],
         r.phase = "unpausing" <=> session[s].phase = "unpausing",
         session[s].paused => r.paused, r.todo = session[s].todo,
         \A t \in Sessions : SameLines(t), UNCHANGED <<buffer, screen, mixed>>
  PROVE  StreamInv'
<1>1. TypeOK
  BY TypesOf
<1>2. session'[s] = r /\ \A t \in Sessions : t # s => SameBuffer(t)
  BY <1>1, OthersSame
<1>3. SameBuffer(s)
  BY <1>2 DEF SameBuffer
<1> QED
  BY <1>2, <1>3, NoTerminal

LEMMA LoginStream ==
  ASSUME KeptInv, KeptInv', StreamInv, NEW s \in Sessions, Login(s) \/ Pause(s)
  PROVE  StreamInv'
<1>1. session[s] \in Session
  BY TypesOf
<1>2. /\ \A t \in Sessions : SameLines(t)
      /\ UNCHANGED <<buffer, screen, mixed>>
  BY LinksUnchanged DEF Login, Pause, history
<1>3. CASE Login(s)
  <2> DEFINE r == [session[s] EXCEPT !.phase = "idle"]
  <2>1. r.phase = "idle" /\ r.paused = session[s].paused /\ r.todo = session[s].todo
    BY <1>1 DEF Session
  <2>2. session' = [session EXCEPT ![s] = r] /\ session[s].phase = "out"
    BY <1>3 DEF Login
  <2> HIDE DEF r
  <2> QED
    BY <1>2, <2>1, <2>2, QuietSession
<1>4. CASE Pause(s)
  <2> DEFINE r == [session[s] EXCEPT !.paused = TRUE]
  <2>1. r.phase = session[s].phase /\ r.paused /\ r.todo = session[s].todo
    BY <1>1 DEF Session
  <2>2. session' = [session EXCEPT ![s] = r]
    BY <1>4 DEF Pause
  <2> HIDE DEF r
  <2> QED
    BY <1>2, <2>1, <2>2, QuietSession
<1> QED
  BY <1>3, <1>4

LEMMA ServerRefusedStream ==
  ASSUME KeptInv, KeptInv', StreamInv, NEW s \in Sessions, NEW f, ServerRefused(s, f)
  PROVE  StreamInv'
<1>1. session[s] \in Session
  BY TypesOf
<1> DEFINE r == [session[s] EXCEPT !.fe = f]
<1>2. r.phase = session[s].phase /\ r.paused = session[s].paused /\ r.todo = session[s].todo
  BY <1>1 DEF Session
<1>3. /\ session' = [session EXCEPT ![s] = r]
      /\ \A t \in Sessions : SameLines(t)
      /\ UNCHANGED <<buffer, screen, mixed>>
  BY LinksUnchanged DEF ServerRefused, history
<1> HIDE DEF r
<1> QED
  BY <1>2, <1>3, QuietSession

\* Links that are told to stop keep the lines they have.
LEMMA OnlyCancelled ==
  ASSUME KeptInv, UNCHANGED <<opened, taken>>,
         \A l \in Opened : \/ link'[l] = link[l]
                           \/ \E b \in BOOLEAN : link'[l] = [link[l] EXCEPT !.cancelled = b]
  PROVE  \A t \in Sessions : SameLines(t)
<1>1. \A l \in Opened : link[l] \in Link
  BY TypesOf
<1>2. \A l \in Opened : /\ link'[l].of = link[l].of /\ link'[l].phase = link[l].phase
                        /\ link'[l].line = link[l].line /\ link'[l].kept = link[l].kept
  BY <1>1 DEF Link
<1>3. Opened' = Opened
  BY DEF Opened
<1>4. \A t : Of(t)' = Of(t) /\ \A l \in Of(t) : l \in Opened
  BY <1>2, <1>3 DEF Of
<1> QED
  BY <1>2, <1>3, <1>4 DEF SameLines

LEMMA ServerDroppedStream ==
  ASSUME KeptInv, KeptInv', StreamInv, NEW s \in Sessions, ServerDropped(s)
  PROVE  StreamInv'
<1>1. session[s] \in Session /\ TypeOK
  BY TypesOf
<1> DEFINE r == [session[s] EXCEPT !.active = NoFrontend]
<1>2. r.phase = session[s].phase /\ r.paused = session[s].paused /\ r.todo = session[s].todo
  BY <1>1 DEF Session
<1>3. PICK m : m = session[s].latest
  OBVIOUS
<1>4. \A l \in Opened : \/ link'[l] = link[l]
                        \/ \E b \in BOOLEAN : link'[l] = [link[l] EXCEPT !.cancelled = b]
  <2>1. DOMAIN link = Opened
    BY <1>1 DEF TypeOK, Opened
  <2>2. \/ link' = link
        \/ link' = [link EXCEPT ![m] = [link[m] EXCEPT !.cancelled = TRUE]]
    BY <1>3 DEF ServerDropped
  <2> QED
    BY <2>1, <2>2
<1>5. /\ session' = [session EXCEPT ![s] = r]
      /\ UNCHANGED <<buffer, screen, mixed, opened, taken>>
  BY DEF ServerDropped, history
<1>6. \A t \in Sessions : SameLines(t)
  BY <1>4, <1>5, OnlyCancelled
<1> HIDE DEF r
<1> QED
  BY <1>2, <1>5, <1>6, QuietSession

LEMMA QuitStream ==
  ASSUME KeptInv, KeptInv', StreamInv, NEW s \in Sessions, Quit(s)
  PROVE  StreamInv'
<1>1. session[s] \in Session /\ TypeOK
  BY TypesOf
<1> DEFINE r == [session[s] EXCEPT !.phase = "over"]
<1>2. r.phase = "over" /\ r.paused = session[s].paused /\ r.todo = session[s].todo
  BY <1>1 DEF Session
<1> DEFINE b(l) == link[l].cancelled \/ l \in Deferred(s)
<1>3. link' = [l \in Opened |-> [link[l] EXCEPT !.cancelled = b(l)]]
  BY DEF Quit
<1>4. \A l \in Opened : b(l) \in BOOLEAN
  OBVIOUS
<1> HIDE DEF b
<1>5. \A l \in Opened : \E c \in BOOLEAN : link'[l] = [link[l] EXCEPT !.cancelled = c]
  BY <1>3, <1>4
<1>6. /\ session' = [session EXCEPT ![s] = r] /\ session[s].phase = "idle"
      /\ UNCHANGED <<buffer, screen, mixed, opened, taken>>
  BY DEF Quit, history
<1>7. \A t \in Sessions : SameLines(t)
  BY <1>5, <1>6, OnlyCancelled
<1> HIDE DEF r
<1> QED
  BY <1>2, <1>6, <1>7, QuietSession

-----------------------------------------------------------------------------
(* The lines kept back are shown.                                          *)

LEMMA HeadMoves ==
  ASSUME NEW S, NEW a \in Seq(S), NEW b \in Seq(S), b # <<>>
  PROVE  Append(a, Head(b)) \o Tail(b) = a \o b
<1>1. PICK n \in Nat : n = Len(b)
  OBVIOUS
<1>2. /\ n > 0 /\ Tail(b) \in Seq(S) /\ Len(Tail(b)) = n - 1 /\ Head(b) = b[1] /\ Head(b) \in S
      /\ \A i \in 1..(n - 1) : Tail(b)[i] = b[i + 1]
  BY <1>1
<1> DEFINE c == Append(a, Head(b))
<1>3. PICK m \in Nat : m = Len(a)
  OBVIOUS
<1>4. /\ c \in Seq(S) /\ Len(c) = m + 1 /\ c[m + 1] = b[1]
      /\ \A i \in 1..m : c[i] = a[i]
  BY <1>2, <1>3
<1> HIDE DEF c
<1> DEFINE d == Tail(b)
<1>5. d \in Seq(S) /\ Len(d) = n - 1 /\ \A i \in 1..(n - 1) : d[i] = b[i + 1]
  BY <1>2
<1> HIDE DEF d
<1>6. /\ c \o d \in Seq(S) /\ a \o b \in Seq(S) /\ Len(c \o d) = m + n /\ Len(a \o b) = m + n
  <2>1. c \o d \in Seq(S) /\ Len(c \o d) = (m + 1) + (n - 1)
    <3>1. c \o d \in Seq(S) /\ Len(c \o d) = Len(c) + Len(d)
      BY <1>4, <1>5, ConcatProperties
    <3> QED
      BY <1>4, <1>5, <3>1
  <2>2. a \o b \in Seq(S) /\ Len(a \o b) = m + n
    BY <1>1, <1>3, ConcatProperties
  <2>3. (m + 1) + (n - 1) = m + n
    OBVIOUS
  <2> QED
    BY <2>1, <2>2, <2>3
<1>7. ASSUME NEW i \in 1..(m + n) PROVE (c \o d)[i] = (a \o b)[i]
  <2>1. CASE i \in 1..m
    BY <1>1, <1>3, <1>4, <1>5, <2>1
  <2>2. CASE i = m + 1
    BY <1>1, <1>2, <1>3, <1>4, <1>5, <2>2
  <2>3. CASE i > m + 1
    <3>1. i - (m + 1) \in 1..(n - 1) /\ (i - (m + 1)) + 1 = i - m
      BY <2>3
    <3>2. (c \o d)[i] = d[i - (m + 1)]
      BY <1>4, <1>5, <2>3, <3>1
    <3>3. (a \o b)[i] = b[i - m]
      BY <1>1, <1>3, <2>3
    <3> QED
      BY <1>5, <3>1, <3>2, <3>3
  <2>4. i \in 1..m \/ i = m + 1 \/ i > m + 1
    OBVIOUS
  <2> QED
    BY <2>1, <2>2, <2>3, <2>4
<1> QED
  BY <1>6, <1>7, SeqEqual DEF c, d

LEMMA AppendGoesLast ==
  ASSUME NEW a \in Seq(Entry), NEW b \in Seq(Entry), NEW e \in Entry
  PROVE  a \o Append(b, e) = Append(a \o b, e)
<1>1. Append(b, e) = b \o <<e>> /\ <<e>> \in Seq(Entry) /\ a \o b \in Seq(Entry)
  BY AppendIsConcat, ConcatProperties
<1>2. Append(a \o b, e) = (a \o b) \o <<e>>
  BY <1>1, AppendIsConcat
<1>3. a \o (b \o <<e>>) = (a \o b) \o <<e>>
  BY <1>1, ConcatAssociative
<1> QED
  BY <1>1, <1>2, <1>3

\* No line is in hand, before and after.
LEMMA NothingInHand ==
  ASSUME NEW s, Streamed(s), Busy(s) = {}, UNCHANGED <<link, opened, taken>>,
         Stream(s)' = Stream(s),
         ~session'[s].paused /\ session'[s].phase # "unpausing" => buffer'[s] = <<>>
  PROVE  Streamed(s)'
<1>1. Opened' = Opened /\ Of(s)' = Of(s) /\ Busy(s)' = {}
  BY DEF Opened, Of, Busy
<1> QED
  BY <1>1 DEF Streamed

LEMMA UnpauseStream ==
  ASSUME KeptInv, KeptInv', StreamInv, NEW s \in Sessions, Unpause(s)
  PROVE  StreamInv'
<1>1. TypeOK /\ session[s] \in Session
  BY TypesOf
<1> DEFINE r == [session[s] EXCEPT !.paused = FALSE, !.phase = "unpausing", !.todo = buffer[s]]
<1>2. r.phase = "unpausing" /\ r.paused = FALSE /\ r.todo = buffer[s]
  BY <1>1 DEF Session
<1>3. /\ session' = [session EXCEPT ![s] = r] /\ session[s].phase = "idle"
      /\ mixed' = IF Busy(s) # {} THEN mixed \cup {s} ELSE mixed
      /\ UNCHANGED <<buffer, screen, link, opened, taken>>
  BY DEF Unpause, Attends
<1> HIDE DEF r
<1>4. session'[s] = r /\ \A t \in Sessions : t # s => SameLines(t) /\ SameBuffer(t)
  BY <1>1, <1>3, LinksUnchanged, OthersSame
<1>5. ASSUME s \notin mixed' PROVE Streamed(s)'
  <2>1. Busy(s) = {} /\ Streamed(s)
    BY <1>3, <1>5 DEF StreamInv
  <2>2. Stream(s)' = Stream(s)
    BY <1>2, <1>3, <1>4 DEF Stream, Kept
  <2> QED
    BY <1>2, <1>3, <1>4, <2>1, <2>2, NothingInHand
<1> QED
  BY <1>3, <1>4, <1>5, OneTerminal

LEMMA UnpauseLineStream ==
  ASSUME KeptInv, KeptInv', StreamInv, NEW s \in Sessions, UnpauseLine(s)
  PROVE  StreamInv'
<1>1. TypeOK /\ session[s] \in Session /\ screen[s] \in Seq(Entry)
  BY TypesOf
<1>2. PICK todo \in Seq(Entry) : todo = session[s].todo
  BY <1>1, SessionParts
<1> DEFINE r == [session[s] EXCEPT !.todo = Tail(todo)]
<1>3. r.phase = session[s].phase /\ r.paused = session[s].paused /\ r.todo = Tail(todo)
  BY <1>1 DEF Session
<1>4. /\ session' = [session EXCEPT ![s] = r] /\ session[s].phase = "unpausing" /\ todo # <<>>
      /\ screen' = [screen EXCEPT ![s] = Append(screen[s], Head(todo))]
      /\ UNCHANGED <<buffer, link, opened, taken, mixed>>
  BY <1>2 DEF UnpauseLine, history
<1> HIDE DEF r
<1>5. /\ screen'[s] = Append(screen[s], Head(todo))
      /\ \A t \in Sessions : t # s => screen'[t] = screen[t]
  BY <1>1, <1>4 DEF TypeOK
<1>6. session'[s] = r /\ \A t \in Sessions : t # s => SameLines(t) /\ SameBuffer(t)
  BY <1>1, <1>4, <1>5, LinksUnchanged, OthersSame
<1>7. ASSUME s \notin mixed' PROVE Streamed(s)'
  <2>1. Streamed(s) /\ Busy(s) = {}
    BY <1>4, <1>7 DEF StreamInv, Streamed
  <2>2. Stream(s) = screen[s] \o todo /\ Stream(s)' = Append(screen[s], Head(todo)) \o Tail(todo)
    BY <1>2, <1>3, <1>4, <1>5, <1>6 DEF Stream, Kept
  <2>3. Stream(s)' = Stream(s)
    BY <1>1, <1>4, <2>2, HeadMoves
  <2> QED
    BY <1>3, <1>4, <1>6, <2>1, <2>3, NothingInHand
<1> QED
  BY <1>4, <1>6, <1>7, OneTerminal

LEMMA UnpauseEndStream ==
  ASSUME KeptInv, KeptInv', StreamInv, NEW s \in Sessions, UnpauseEnd(s)
  PROVE  StreamInv'
<1>1. TypeOK /\ session[s] \in Session
  BY TypesOf
<1> DEFINE r == [session[s] EXCEPT !.phase = "idle"]
<1>2. r.phase = "idle" /\ r.paused = session[s].paused /\ r.todo = session[s].todo
  BY <1>1 DEF Session
<1>3. /\ session' = [session EXCEPT ![s] = r] /\ session[s].phase = "unpausing"
      /\ session[s].todo = <<>> /\ buffer' = [buffer EXCEPT ![s] = <<>>]
      /\ UNCHANGED <<screen, link, opened, taken, mixed>>
  BY DEF UnpauseEnd, Forget, history
<1> HIDE DEF r
<1>4. buffer'[s] = <<>> /\ \A t \in Sessions : t # s => buffer'[t] = buffer[t]
  BY <1>1, <1>3 DEF TypeOK
<1>5. session'[s] = r /\ \A t \in Sessions : t # s => SameLines(t) /\ SameBuffer(t)
  BY <1>1, <1>3, <1>4, LinksUnchanged, OthersSame
<1>6. ASSUME s \notin mixed' PROVE Streamed(s)'
  <2>1. Streamed(s) /\ Busy(s) = {}
    BY <1>3, <1>6 DEF StreamInv, Streamed
  <2>2. Stream(s)' = Stream(s)
    BY <1>2, <1>3, <1>4, <1>5 DEF Stream, Kept
  <2> QED
    BY <1>3, <1>4, <2>1, <2>2, NothingInHand
<1> QED
  BY <1>3, <1>5, <1>6, OneTerminal

-----------------------------------------------------------------------------
(* Links.                                                                  *)

LEMMA HeldLinks ==
  ASSUME KeptInv, NEW s, NEW l \in Busy(s)
  PROVE  l \in Opened /\ link[l].of = s /\ link[l].phase \in {"got", "keeping"}
BY DEF Busy, Of

\* A link gets on that has no line in hand before or after.
LEMMA HandsEmpty ==
  ASSUME KeptInv, KeptInv', StreamInv, NEW l \in Opened, NEW r \in Link,
         link' = [link EXCEPT ![l] = r], r.of = link[l].of, r.line = link[l].line,
         r.kept = link[l].kept,
         link[l].phase \notin {"got", "keeping"}, r.phase \notin {"got", "keeping"},
         UNCHANGED <<session, buffer, screen, opened, taken, mixed>>
  PROVE  StreamInv'
<1>1. TypeOK
  BY TypesOf
<1>2. /\ link'[l] = r /\ Opened' = Opened
      /\ \A k \in Opened : k # l => link'[k] = link[k]
  BY <1>1, OneLink DEF Opened
<1>3. \A t : Of(t)' = Of(t) /\ \A k \in Of(t) : k \in Opened
  BY <1>2 DEF Of
<1>4. \A t \in Sessions : SameLines(t)
  BY <1>2, <1>3 DEF SameLines
<1>5. \A t \in Sessions : SameBuffer(t)
  BY DEF SameBuffer
<1> QED
  BY <1>4, <1>5, NoTerminal

LEMMA LinkedStream ==
  ASSUME KeptInv, KeptInv', StreamInv, NEW s \in Sessions, NEW l \in Opened, Linked(s, l)
  PROVE  StreamInv'
<1>1. TypeOK /\ link[l] \in Link /\ session[s] \in Session
  BY TypesOf
<1> DEFINE r == [link[l] EXCEPT !.phase = "starting", !.rest = <<>>]
           u == [session[s] EXCEPT !.phase = "idle"]
<1>2. /\ r \in Link /\ r.of = link[l].of /\ r.line = link[l].line /\ r.kept = link[l].kept
      /\ r.phase = "starting"
  <2>1. <<>> \in Seq(Links)
    OBVIOUS
  <2> QED
    BY <1>1, <2>1 DEF Link
<1>3. u.phase = "idle" /\ u.paused = session[s].paused /\ u.todo = session[s].todo
  BY <1>1 DEF Session
<1>4. /\ link[l].phase = "opening" /\ link' = [link EXCEPT ![l] = r]
      /\ session[s].phase = "linking" /\ session' = [session EXCEPT ![s] = u]
      /\ UNCHANGED <<buffer, screen, opened, taken, mixed>>
  BY DEF Linked, history
<1> HIDE DEF r, u
<1>5. /\ link'[l] = r /\ Opened' = Opened
      /\ \A k \in Opened : k # l => link'[k] = link[k]
  BY <1>1, <1>2, <1>4, OneLink DEF Opened
<1>6. \A t : Of(t)' = Of(t) /\ \A k \in Of(t) : k \in Opened
  BY <1>2, <1>5 DEF Of
<1>7. \A t \in Sessions : SameLines(t)
  BY <1>2, <1>4, <1>5, <1>6 DEF SameLines
<1> QED
  BY <1>3, <1>4, <1>7, QuietSession

LEMMA ConnectsStream ==
  ASSUME KeptInv, KeptInv', StreamInv, NEW l \in Opened, Connects(l)
  PROVE  StreamInv'
<1>1. TypeOK /\ link[l] \in Link
  BY TypesOf
<1> DEFINE r == [link[l] EXCEPT !.phase = "waiting"]
<1>2. /\ r \in Link /\ r.of = link[l].of /\ r.line = link[l].line /\ r.kept = link[l].kept
      /\ r.phase = "waiting"
  BY <1>1 DEF Link
<1>3. /\ link[l].phase = "starting" /\ link' = [link EXCEPT ![l] = r]
      /\ UNCHANGED <<session, buffer, screen, opened, taken, mixed>>
  BY DEF Connects, termVars, history
<1> HIDE DEF r
<1>4. link[l].phase \notin {"got", "keeping"} /\ r.phase \notin {"got", "keeping"}
  BY <1>2, <1>3
<1> QED
  BY <1>2, <1>3, <1>4, HandsEmpty

LEMMA CancelledStream ==
  ASSUME KeptInv, KeptInv', StreamInv, NEW l \in Opened, Cancelled(l)
  PROVE  StreamInv'
<1>1. TypeOK /\ InOrder /\ link[l] \in Link
  BY TypesOf DEF KeptInv, TypeInv
<1>2. PICK f \in Frontends : f = link[l].fe
  BY <1>1, LinkParts
<1>3. PICK rest \in TerminalDisconnected(f, l) :
        link' = [link EXCEPT ![l].phase = "closing",
                   ![l].closed = \E i \in DOMAIN terminals[f] : terminals[f][i] = l,
                   ![l].rest = rest]
  BY <1>2 DEF Cancelled
<1>4. PICK c \in BOOLEAN : c = \E i \in DOMAIN terminals[f] : terminals[f][i] = l
  OBVIOUS
<1> DEFINE r == [link[l] EXCEPT !.phase = "closing", !.closed = c, !.rest = rest]
<1>5. rest \in Seq(Links)
  <2>1. terminals[f] \in Seq(Links) /\ Ascending(terminals[f])
    BY <1>1 DEF TypeOK, InOrder
  <2> QED
    BY <2>1, WithoutLink
<1>6. /\ r \in Link /\ r.of = link[l].of /\ r.line = link[l].line /\ r.kept = link[l].kept
      /\ r.phase = "closing"
  BY <1>1, <1>5 DEF Link
<1>7. /\ link[l].phase = "waiting" /\ link' = [link EXCEPT ![l] = r]
      /\ UNCHANGED <<session, buffer, screen, opened, taken, mixed>>
  <2>1. link' = [link EXCEPT ![l] = r]
    BY <1>3, <1>4
  <2>2. link[l].phase = "waiting" /\ UNCHANGED <<session, buffer, screen, opened, taken, mixed>>
    BY DEF Cancelled, termVars
  <2> QED
    BY <2>1, <2>2
<1> HIDE DEF r
<1>8. link[l].phase \notin {"got", "keeping"} /\ r.phase \notin {"got", "keeping"}
  BY <1>6, <1>7
<1> QED
  BY <1>6, <1>7, <1>8, HandsEmpty

LEMMA EndsStream ==
  ASSUME KeptInv, KeptInv', StreamInv, NEW l \in Opened, Ends(l)
  PROVE  StreamInv'
<1>1. TypeOK /\ link[l] \in Link
  BY TypesOf
<1> DEFINE r == [link[l] EXCEPT !.phase = "ended", !.rest = <<>>]
<1>2. /\ r \in Link /\ r.of = link[l].of /\ r.line = link[l].line /\ r.kept = link[l].kept
      /\ r.phase = "ended"
  <2>1. <<>> \in Seq(Links)
    OBVIOUS
  <2> QED
    BY <1>1, <2>1 DEF Link
<1>3. /\ link[l].phase = "closing" /\ link' = [link EXCEPT ![l] = r]
      /\ UNCHANGED <<session, buffer, screen, opened, taken, mixed>>
  BY DEF Ends, termVars, history
<1> HIDE DEF r
<1>4. link[l].phase \notin {"got", "keeping"} /\ r.phase \notin {"got", "keeping"}
  BY <1>2, <1>3
<1> QED
  BY <1>2, <1>3, <1>4, HandsEmpty

\* The line in hand becomes the last of the stream.
LEMMA LineGoesOut ==
  ASSUME KeptInv, NEW s \in Sessions, Streamed(s), NEW l \in Busy(s), Busy(s)' = {},
         Of(s)' = Of(s), UNCHANGED <<opened, taken>>,
         Stream(s)' = Append(Stream(s), <<l, link[l].line>>),
         ~session'[s].paused /\ session'[s].phase # "unpausing" => buffer'[s] = <<>>
  PROVE  Streamed(s)'
<1>1. l \in Opened /\ \A k \in Busy(s) : k = l
  BY HeldLinks DEF Streamed
<1>2. PICK e \in Entry : e = <<l, link[l].line>>
  BY HeldLinks, EntryOf
<1>3. PICK q \in Seq(Entry) : q = Stream(s)
  BY StreamType
<1>4. Stream(s)' = Append(q, e) /\ Opened' = Opened
  BY <1>2, <1>3 DEF Opened
<1>5. \A k : LinesOf(Append(q, e), k) = Picked(LinesOf(q, k), e, k)
  BY LinesMore
<1>6. ASSUME NEW k \in Of(s) PROVE taken[k] = LinesOf(Append(q, e), k)
  <2>1. CASE k = l
    <3>1. taken[l] = Append(LinesOf(q, l), link[l].line)
      BY <1>3 DEF Streamed
    <3> QED
      BY <1>2, <1>5, <2>1, <3>1 DEF Picked
  <2>2. CASE k # l
    <3>1. taken[k] = LinesOf(q, k)
      BY <1>1, <1>3, <2>2 DEF Streamed
    <3>2. e[1] # k
      BY <1>2, <2>2
    <3> QED
      BY <1>5, <3>1, <3>2 DEF Picked
  <2> QED
    BY <2>1, <2>2
<1>7. \A i \in DOMAIN Append(q, e) : Append(q, e)[i][1] \in Opened
  <2>1. \A i \in DOMAIN q : q[i][1] \in Opened
    BY <1>3 DEF Streamed
  <2>2. e[1] \in Opened
    BY <1>1, <1>2
  <2>3. PICK n \in Nat : n = Len(q)
    OBVIOUS
  <2>4. /\ DOMAIN Append(q, e) = 1..(n + 1) /\ Append(q, e)[n + 1] = e
        /\ \A i \in 1..n : Append(q, e)[i] = q[i]
    BY <2>3, GrowsByOne
  <2> QED
    BY <2>1, <2>2, <2>3, <2>4
<1> QED
  BY <1>4, <1>6, <1>7 DEF Streamed

LEMMA ShowStream ==
  ASSUME KeptInv, KeptInv', StreamInv, NEW l \in Opened, Show(l)
  PROVE  StreamInv'
<1>1. /\ TypeOK /\ link[l] \in Link
      /\ \A s \in Sessions : buffer[s] \in Seq(Entry) /\ screen[s] \in Seq(Entry)
  BY TypesOf
<1>2. PICK s \in Sessions : s = link[l].of
  BY <1>1, LinkParts
<1>3. /\ link[l].phase = "got" /\ l \in Busy(s)
      /\ UNCHANGED <<session, buffer, opened, taken, mixed>>
  BY <1>2 DEF Show, history, Busy, Of
<1>4. CASE session[s].paused
  <2> DEFINE r == [link[l] EXCEPT !.phase = "keeping", !.kept = buffer[s]]
  <2>1. /\ r \in Link /\ r.of = link[l].of /\ r.phase = "keeping" /\ r.line = link[l].line
        /\ r.kept = buffer[s]
    BY <1>1, <1>2 DEF Link
  <2>2. link' = [link EXCEPT ![l] = r] /\ screen' = screen
    BY <1>2, <1>4 DEF Show
  <2> HIDE DEF r
  <2>3. /\ \A t : Of(t)' = Of(t)
        /\ \A t : t # s => SameLines(t)
        /\ Busy(s)' = Busy(s) \cup {l}
    BY <1>1, <1>2, <1>3, <2>1, <2>2, OneLinkSteps
  <2>4. /\ link'[l] = r /\ Opened' = Opened
        /\ \A k \in Opened : k # l => link'[k] = link[k]
    BY <1>1, <1>3, <2>1, <2>2, OneLink DEF Opened
  <2>5. \A t : SameBuffer(t)
    BY <1>3, <2>2 DEF SameBuffer
  <2>6. ASSUME s \notin mixed' PROVE Streamed(s)'
    <3>1. Streamed(s)
      BY <1>3, <2>6 DEF StreamInv
    <3>2. Busy(s)' = Busy(s) /\ Stream(s)' = Stream(s) /\ \A k \in Busy(s) : k = l
      BY <1>3, <2>2, <2>3, <3>1 DEF Streamed, Stream, Kept
    <3>3. link'[l].line = link[l].line /\ link'[l].kept = buffer[s]
      BY <2>1, <2>4
    <3> QED
      BY <1>3, <1>4, <2>3, <2>4, <3>1, <3>2, <3>3 DEF Streamed
  <2> QED
    BY <1>3, <2>3, <2>5, <2>6, OneTerminal
<1>5. CASE ~session[s].paused
  <2> DEFINE r == [link[l] EXCEPT !.phase = "waiting", !.line = 0]
  <2>1. r \in Link /\ r.of = link[l].of /\ r.phase = "waiting"
    <3>1. 0 \in 0..MaxLines
      BY BoundsAssumption
    <3> QED
      BY <1>1, <3>1 DEF Link
  <2>2. link' = [link EXCEPT ![l] = r]
        /\ screen' = [screen EXCEPT ![s] = Append(screen[s], <<l, link[l].line>>)]
    BY <1>2, <1>5 DEF Show
  <2> HIDE DEF r
  <2>3. /\ \A t : Of(t)' = Of(t)
        /\ \A t : t # s => SameLines(t)
        /\ Busy(s)' = Busy(s) \ {l}
    BY <1>1, <1>2, <1>3, <2>1, <2>2, OneLinkSteps
  <2>4. /\ screen'[s] = Append(screen[s], <<l, link[l].line>>)
        /\ \A t \in Sessions : t # s => SameBuffer(t)
    BY <1>1, <1>3, <2>2 DEF TypeOK, SameBuffer
  <2>5. ASSUME s \notin mixed' PROVE Streamed(s)'
    <3>1. Streamed(s)
      BY <1>3, <2>5 DEF StreamInv
    <3>2. session[s].phase # "unpausing" /\ buffer[s] = <<>> /\ Busy(s)' = {}
      BY <1>3, <1>5, <2>3, <3>1 DEF Streamed
    <3>3. PICK e \in Entry : e = <<l, link[l].line>>
      BY <1>3, EntryOf
    <3>4. Stream(s) = screen[s] \o <<>> /\ Stream(s)' = Append(screen[s], e) \o <<>>
      BY <1>3, <2>4, <3>2, <3>3 DEF Stream, Kept
    <3>5. Stream(s)' = Append(Stream(s), <<l, link[l].line>>)
      <4>1. screen[s] \o <<>> = screen[s]
        BY <1>1, ConcatEmptySeq
      <4>2. Append(screen[s], e) \in Seq(Entry)
        BY <1>1
      <4>3. Append(screen[s], e) \o <<>> = Append(screen[s], e)
        BY <4>2, ConcatEmptySeq
      <4> QED
        BY <3>3, <3>4, <4>1, <4>3
    <3> QED
      BY <1>3, <2>3, <3>1, <3>2, <3>5, LineGoesOut
  <2> QED
    BY <1>3, <2>3, <2>4, <2>5, OneTerminal
<1> QED
  BY <1>4, <1>5

LEMMA KeepStream ==
  ASSUME KeptInv, KeptInv', StreamInv, NEW l \in Opened, Keep(l)
  PROVE  StreamInv'
<1>1. /\ TypeOK /\ link[l] \in Link
      /\ \A s \in Sessions : buffer[s] \in Seq(Entry) /\ screen[s] \in Seq(Entry)
  BY TypesOf
<1>2. PICK s \in Sessions : s = link[l].of
  BY <1>1, LinkParts
<1> DEFINE r == [link[l] EXCEPT !.phase = "waiting", !.line = 0, !.kept = <<>>]
<1>3. /\ link[l].phase = "keeping" /\ l \in Busy(s) /\ link' = [link EXCEPT ![l] = r]
      /\ buffer' = [buffer EXCEPT ![s] = Append(link[l].kept, <<l, link[l].line>>)]
      /\ UNCHANGED <<session, screen, opened, taken, mixed>>
  BY <1>2 DEF Keep, history, Busy, Of
<1>4. r \in Link /\ r.of = link[l].of /\ r.phase = "waiting"
  <2>1. 0 \in 0..MaxLines /\ <<>> \in Seq(Entry)
    BY BoundsAssumption
  <2> QED
    BY <1>1, <2>1 DEF Link
<1> HIDE DEF r
<1>5. /\ \A t : Of(t)' = Of(t)
      /\ \A t : t # s => SameLines(t)
      /\ Busy(s)' = Busy(s) \ {l}
  BY <1>1, <1>2, <1>3, <1>4, OneLinkSteps
<1>6. /\ buffer'[s] = Append(link[l].kept, <<l, link[l].line>>)
      /\ \A t \in Sessions : t # s => SameBuffer(t)
  BY <1>1, <1>3 DEF TypeOK, SameBuffer
<1>7. ASSUME s \notin mixed' PROVE Streamed(s)'
  <2>1. Streamed(s)
    BY <1>3, <1>7 DEF StreamInv
  <2>2. /\ session[s].paused /\ session[s].phase # "unpausing" /\ link[l].kept = buffer[s]
        /\ Busy(s)' = {}
    BY <1>3, <1>5, <2>1 DEF Streamed
  <2>3. PICK e \in Entry : e = <<l, link[l].line>>
    BY <1>3, EntryOf
  <2>4. Stream(s) = screen[s] \o buffer[s] /\ Stream(s)' = screen[s] \o Append(buffer[s], e)
    BY <1>3, <1>6, <2>2, <2>3 DEF Stream, Kept
  <2>5. Stream(s)' = Append(Stream(s), <<l, link[l].line>>)
    <3>1. screen[s] \o Append(buffer[s], e) = Append(screen[s] \o buffer[s], e)
      <4> PICK a \in Seq(Entry), b \in Seq(Entry) : a = screen[s] /\ b = buffer[s]
        BY <1>1
      <4>1. a \o Append(b, e) = Append(a \o b, e)
        BY AppendGoesLast
      <4> QED
        BY <4>1
    <3> QED
      BY <2>3, <2>4, <3>1
  <2> QED
    BY <1>3, <1>5, <2>1, <2>2, <2>5, LineGoesOut
<1> QED
  BY <1>3, <1>5, <1>6, <1>7, OneTerminal

-----------------------------------------------------------------------------
(* What happens outside the sessions.                                      *)

LEMMA OutsideStream ==
  ASSUME KeptInv, KeptInv', StreamInv,
         UNCHANGED <<session, buffer, screen, link, opened, taken, mixed>>
  PROVE  StreamInv'
<1>1. \A t \in Sessions : SameLines(t) /\ SameBuffer(t)
  BY LinksUnchanged DEF SameBuffer
<1> QED
  BY <1>1, NoTerminal

LEMMA PrintToStream ==
  ASSUME KeptInv, KeptInv', StreamInv, NEW p \in Printers, PrintTo(p)
  PROVE  StreamInv'
<1>1. TypeOK /\ InOrder /\ LoopRuns
  BY DEF KeptInv, TypeInv
<1>2. PICK q \in Printer : q = printer[p]
  BY TypesOf
<1>3. PICK ts \in Seq(Links) : ts = terminals[q.fe]
  BY TypesOf, PrinterParts
<1>4. PICK l : l = ts[q.next]
  OBVIOUS
<1>5. q.last > 0 /\ UNCHANGED <<session, buffer, screen, opened>>
  BY <1>2 DEF PrintTo, termVars
<1>6. \/ UNCHANGED <<link, taken, mixed>>
      \/ /\ q.next <= Len(ts) /\ link[l].phase = "waiting"
         /\ link' = [link EXCEPT ![l].phase = "got", ![l].line = q.line]
         /\ taken' = [taken EXCEPT ![l] = Append(@, q.line)]
         /\ mixed' = IF session[link[l].of].phase = "unpausing" \/ Busy(link[l].of) # {}
                       THEN mixed \cup {link[l].of} ELSE mixed
  BY <1>2, <1>3, <1>4 DEF PrintTo
<1>7. CASE UNCHANGED <<link, taken, mixed>>
  BY <1>5, <1>7, OutsideStream
<1>8. CASE /\ q.next <= Len(ts) /\ link[l].phase = "waiting"
           /\ link' = [link EXCEPT ![l].phase = "got", ![l].line = q.line]
           /\ taken' = [taken EXCEPT ![l] = Append(@, q.line)]
           /\ mixed' = IF session[link[l].of].phase = "unpausing" \/ Busy(link[l].of) # {}
                         THEN mixed \cup {link[l].of} ELSE mixed
  <2>1. l \in Opened
    <3>1. q.next \in Links \cup {1} /\ q.fe \in Frontends
      BY PrinterParts
    <3>2. q.next \in DOMAIN ts
      BY <1>8, <3>1, BoundsAssumption DEF Links
    <3> QED
      BY <1>1, <1>3, <1>4, <3>1, <3>2 DEF InOrder, Members
  <2>2. link[l] \in Link
    BY <2>1, TypesOf
  <2>3. PICK s \in Sessions : s = link[l].of
    BY <2>2, LinkParts
  <2> DEFINE r == [link[l] EXCEPT !.phase = "got", !.line = q.line]
  <2>4. r \in Link /\ r.of = link[l].of /\ r.phase = "got" /\ r.line = q.line
    BY <2>2, PrinterParts DEF Link
  <2>5. link' = [link EXCEPT ![l] = r]
    BY <1>8
  <2> HIDE DEF r
  <2>6. taken'[l] = Append(taken[l], q.line) /\ \A k \in Opened : k # l => taken'[k] = taken[k]
    BY <1>1, <1>8, <2>1 DEF TypeOK, Opened
  <2>7. /\ \A t : Of(t)' = Of(t)
        /\ \A t : t # s => SameLines(t)
        /\ Busy(s)' = Busy(s) \cup {l}
    BY <1>1, <1>5, <2>1, <2>3, <2>4, <2>5, <2>6, OneLinkSteps
  <2>8. link'[l] = r /\ Opened' = Opened
    BY <1>1, <1>5, <2>1, <2>4, <2>5, OneLink DEF Opened
  <2>9. (\A t : SameBuffer(t)) /\ mixed \subseteq mixed'
    BY <1>5, <1>8 DEF SameBuffer
  <2>10. ASSUME s \notin mixed' PROVE Streamed(s)'
    <3>1. Streamed(s) /\ session[s].phase # "unpausing" /\ Busy(s) = {}
      BY <1>8, <2>3, <2>10 DEF StreamInv
    <3>2. Busy(s)' = {l} /\ Stream(s)' = Stream(s)
      BY <1>5, <2>7, <3>1 DEF Stream, Kept
    <3>3. l \in Of(s) /\ \A k \in Of(s) : k \in Opened
      BY <2>1, <2>3 DEF Of
    <3>4. taken'[l] = Append(LinesOf(Stream(s), l), link'[l].line)
      BY <2>4, <2>6, <2>8, <3>1, <3>3 DEF Streamed
    <3>5. \A k \in Of(s) \ {l} : taken'[k] = LinesOf(Stream(s), k)
      BY <2>6, <3>1, <3>3 DEF Streamed
    <3>6. link'[l].phase # "keeping"
      BY <2>4, <2>8
    <3> QED
      BY <1>5, <2>7, <2>8, <3>1, <3>2, <3>4, <3>5, <3>6 DEF Streamed
  <2> QED
    BY <2>7, <2>9, <2>10, OneTerminal
<1> QED
  BY <1>6, <1>7, <1>8

\* A link that is new has received nothing, and no line shown is its.
LEMMA ServerStream ==
  ASSUME KeptInv, KeptInv', StreamInv, NEW s \in Sessions, NEW f \in Frontends, Server(s, f)
  PROVE  StreamInv'
<1>1. TypeOK /\ session[s] \in Session
  BY TypesOf
<1>2. PICK n \in Nat : n = opened
  BY TypesOf
<1> DEFINE r == [of |-> s, fe |-> f, phase |-> "opening", line |-> 0, cancelled |-> FALSE,
                 closed |-> FALSE, kept |-> <<>>, rest |-> Append(terminals[f], n + 1)]
           u == [session[s] EXCEPT !.phase = "linking", !.fe = f, !.active = f,
                                   !.latest = n + 1]
<1>3. /\ opened' = n + 1 /\ link' = Append(link, r) /\ session' = [session EXCEPT ![s] = u]
      /\ taken' = Append(taken, <<>>) /\ UNCHANGED <<buffer, screen, mixed>>
  BY <1>2 DEF Server
<1>0. n + 1 \in Links /\ session[s].phase = "idle"
  BY <1>2, BoundsAssumption DEF Server, Attends, Links
<1>4. Opened = 1..n /\ Opened' = 1..(n + 1)
  BY <1>2, <1>3 DEF Opened
<1>5. r \in Link /\ r.of = s /\ r.phase = "opening"
  <2>1. /\ 0 \in 0..MaxLines /\ <<>> \in Seq(Entry)
        /\ Append(terminals[f], n + 1) \in Seq(Links)
    BY <1>0, TypesOf, BoundsAssumption
  <2> QED
    BY <2>1 DEF Link
<1>6. u.phase = "linking" /\ u.paused = session[s].paused /\ u.todo = session[s].todo
  BY <1>1 DEF Session
<1> HIDE DEF r, u
<1>7. link'[n + 1] = r /\ \A k \in 1..n : link'[k] = link[k]
  <2>1. link \in Seq(Link) /\ Len(link) = n
    BY <1>1, <1>2 DEF TypeOK
  <2> QED
    BY <1>3, <1>5, <2>1, GrowsByOne
<1>8. taken'[n + 1] = <<>> /\ \A k \in 1..n : taken'[k] = taken[k]
  <2>1. taken \in Seq(Seq(Lines)) /\ Len(taken) = n /\ <<>> \in Seq(Lines)
    BY <1>1, <1>2 DEF TypeOK
  <2> QED
    BY <1>3, <2>1, GrowsByOne
<1>9. \A t : /\ \A k \in 1..n : k \in Of(t)' <=> k \in Of(t)
             /\ n + 1 \in Of(t)' <=> t = s
             /\ Of(t) \subseteq 1..n /\ Of(t)' \subseteq 1..(n + 1)
  BY <1>4, <1>5, <1>7 DEF Of
<1>10. \A t : Busy(t)' = Busy(t)
  <2> SUFFICES ASSUME NEW t PROVE Busy(t)' = Busy(t)
    OBVIOUS
  <2>1. \A k \in 1..n : k \in Busy(t)' <=> k \in Busy(t)
    BY <1>7, <1>9 DEF Busy
  <2>2. n + 1 \notin Busy(t)' /\ n + 1 \notin Busy(t)
    BY <1>5, <1>7, <1>9 DEF Busy
  <2>3. Busy(t)' \subseteq 1..(n + 1) /\ Busy(t) \subseteq 1..(n + 1)
    BY <1>9 DEF Busy
  <2>4. 1..(n + 1) = (1..n) \cup {n + 1}
    OBVIOUS
  <2> QED
    BY <2>1, <2>2, <2>3, <2>4
<1>11. session'[s] = u /\ \A t \in Sessions : t # s => SameBuffer(t)
  BY <1>1, <1>3, OthersSame
<1>12. 1..(n + 1) = (1..n) \cup {n + 1}
  OBVIOUS
<1>13. \A t \in Sessions : t # s => SameLines(t)
  <2> SUFFICES ASSUME NEW t \in Sessions, t # s PROVE SameLines(t)
    OBVIOUS
  <2>1. Of(t)' = Of(t)
    BY <1>9, <1>12
  <2> QED
    BY <1>4, <1>7, <1>8, <1>9, <1>12, <2>1 DEF SameLines
<1>14. ASSUME s \notin mixed' PROVE Streamed(s)'
  <2>1. Streamed(s)
    BY <1>3, <1>14 DEF StreamInv
  <2>2. PICK q \in Seq(Entry) : q = Stream(s)
    BY StreamType
  <2>3. Stream(s)' = q
    BY <1>0, <1>3, <1>6, <1>11, <2>2 DEF Stream, Kept
  <2>4. \A i \in DOMAIN q : q[i][1] \in 1..n
    BY <1>4, <2>1, <2>2 DEF Streamed
  <2>5. LinesOf(q, n + 1) = <<>>
    <3>1. \A i \in DOMAIN q : q[i][1] # n + 1
      BY <2>4
    <3> QED
      BY <3>1, LinesNone
  <2>6. \A l \in Busy(s) : l \in 1..n /\ link'[l] = link[l] /\ taken'[l] = taken[l]
    BY <1>7, <1>8, <1>9 DEF Busy
  <2>7. /\ \A l, k \in Busy(s) : l = k
        /\ Busy(s) # {} => session'[s].phase # "unpausing"
        /\ ~session'[s].paused /\ session'[s].phase # "unpausing" => buffer'[s] = <<>>
    BY <1>0, <1>3, <1>6, <1>11, <2>1 DEF Streamed
  <2>8. \A l \in Busy(s) :
          link'[l].phase = "keeping" => session'[s].paused /\ link'[l].kept = buffer'[s]
    BY <1>3, <1>6, <1>11, <2>1, <2>6 DEF Streamed
  <2>9. \A i \in DOMAIN q : q[i][1] \in Opened'
    BY <1>4, <1>12, <2>4
  <2>10. \A l \in Busy(s) : taken'[l] = Append(LinesOf(q, l), link'[l].line)
    BY <2>1, <2>2, <2>6 DEF Streamed
  <2>11. ASSUME NEW l \in Of(s)' \ Busy(s) PROVE taken'[l] = LinesOf(q, l)
    <3>1. CASE l = n + 1
      BY <1>8, <2>5, <3>1
    <3>2. CASE l # n + 1
      <4>1. l \in 1..n /\ l \in Of(s)
        BY <1>9, <1>12, <3>2
      <4> QED
        BY <1>8, <2>1, <2>2, <4>1 DEF Streamed
    <3> QED
      BY <3>1, <3>2
  <2> QED
    BY <1>10, <2>3, <2>7, <2>8, <2>9, <2>10, <2>11 DEF Streamed
<1> QED
  BY <1>3, <1>11, <1>13, <1>14, OneTerminal

-----------------------------------------------------------------------------
LEMMA InitStream == Init => StreamInv
<1> SUFFICES ASSUME Init PROVE StreamInv
  OBVIOUS
<1>1. Opened = {}
  BY DEF Init, Opened
<1>2. \A s : Of(s) = {} /\ Busy(s) = {}
  BY <1>1 DEF Of, Busy
<1>3. \A s \in Sessions : screen[s] = <<>> /\ buffer[s] = <<>> /\ session[s].todo = <<>>
                          /\ session[s].phase = "out"
  BY DEF Init
<1>4. \A s \in Sessions : Stream(s) = <<>> \o <<>>
  BY <1>3 DEF Stream, Kept
<1>5. \A s \in Sessions : DOMAIN Stream(s) = {}
  BY <1>4
<1> QED
  BY <1>2, <1>3, <1>5 DEF StreamInv, Streamed

LEMMA StepStream ==
  ASSUME KeptInv, StreamInv, [Next]_vars
  PROVE  StreamInv'
<1>0. KeptInv'
  BY StepKept
<1>1. CASE UNCHANGED vars
  BY <1>0, <1>1, OutsideStream DEF vars, termVars, history
<1>2. ASSUME NEW s \in Sessions,
             \/ Login(s) \/ ServerDropped(s) \/ CommandToNone(s) \/ Pause(s)
             \/ Unpause(s) \/ UnpauseLine(s) \/ UnpauseEnd(s) \/ Quit(s)
             \/ \E f \in Frontends : Server(s, f)
             \/ \E l \in Of(s) : Linked(s, l)
             \/ \E f \in Frontends \cup {NoFrontend} : ServerRefused(s, f)
      PROVE  StreamInv'
  <2>2. \A l \in Of(s) : l \in Opened
    BY DEF Of
  <2>1. CASE CommandToNone(s)
    BY <1>0, <2>1, OutsideStream DEF CommandToNone, termVars, history
  <2> QED
    BY <1>0, <1>2, <2>1, <2>2, LoginStream, ServerDroppedStream, UnpauseStream, UnpauseLineStream,
       UnpauseEndStream, QuitStream, ServerStream, LinkedStream, ServerRefusedStream
<1>3. ASSUME NEW f \in Frontends, GoesOrComes(f) \/ \E p \in Printers : PrintLine(p, f)
      PROVE  StreamInv'
  <2>1. UNCHANGED <<session, buffer, screen, link, opened, taken, mixed>>
    BY <1>3 DEF GoesOrComes, PrintLine, termVars, history
  <2> QED
    BY <1>0, <2>1, OutsideStream
<1>4. ASSUME NEW p \in Printers, PrintTo(p) PROVE StreamInv'
  BY <1>0, <1>4, PrintToStream
<1>5. ASSUME NEW l \in Opened, LinkSteps(l) PROVE StreamInv'
  BY <1>0, <1>5, ConnectsStream, ShowStream, KeepStream, CancelledStream, EndsStream DEF LinkSteps
<1> QED
  BY <1>1, <1>2, <1>3, <1>4, <1>5 DEF Next

\* Through every pause, a terminal shows of each link what the link received,
\* none lost, none twice and in order, and the lines kept back are the rest, as
\* long as no line arrived while another was being kept or those kept were
\* shown (ssh.go:579-598, 718-726).
THEOREM StreamsAreExact == Spec => []StreamExact
<1>1. KeptInv /\ StreamInv => StreamExact
  <2> SUFFICES ASSUME KeptInv, StreamInv, NEW s \in Sessions \ mixed, NEW l \in Of(s)
               PROVE  Shown(l, taken[l]) = LinesOf(screen[s] \o Kept(s), l)
    BY DEF StreamExact
  <2>1. Streamed(s) /\ link[l].of = s
    BY DEF StreamInv, Of
  <2>2. PICK shown \in Seq(Lines) : shown = LinesOf(Stream(s), l)
    BY StreamType, LinesType
  <2>3. CASE l \in Busy(s)
    <3>1. taken[l] = Append(shown, link[l].line)
      BY <2>1, <2>2, <2>3 DEF Streamed
    <3>2. link[l].line \in Lines
      BY <2>3, HeldLinks, EntryOf DEF Entry
    <3>3. SubSeq(Append(shown, link[l].line), 1, Len(Append(shown, link[l].line)) - 1) = shown
      BY <3>2
    <3> QED
      BY <2>1, <2>2, <2>3, <3>1, <3>3 DEF Shown, Stream
  <2>4. CASE l \notin Busy(s)
    BY <2>1, <2>2, <2>4 DEF Streamed, Shown, Stream
  <2> QED
    BY <2>3, <2>4
<1>2. Spec => [](KeptInv /\ StreamInv)
  BY InitKept, InitStream, StepKept, StepStream, PTL DEF Spec
<1> QED
  BY <1>1, <1>2, PTL
=============================================================================
