------------------------------ MODULE Registry ------------------------------
(***************************************************************************)
(* The backend's list of frontends, be.frontends: a slice of records, to   *)
(* which the handlers of connected frontends point.  Pages of the website  *)
(* create, edit and delete frontends, each in a goroutine of its own and   *)
(* with no lock, in the list and in table frontend; a start reads the      *)
(* table.                                                                  *)
(*                                                                         *)
(* A slice is an array with a capacity.  An append beyond it, and every    *)
(* deletion, makes a new array of copies; a pointer stays with the record  *)
(* of the old one, and all that is kept of that record here is what is     *)
(* still read through the pointer.  A frontend is its ID; its UUID is as   *)
(* unique.  At most one handler serves a frontend here; FrontendSession    *)
(* has the case of more.                                                   *)
(***************************************************************************)
EXTENDS Integers, Sequences, FiniteSets

CONSTANTS
  Names,
  Requests,     \* goroutines of the website
  AtStart,      \* frontends in the table at first
  MaxIds,       \* bound: frontends ever created
  Live          \* bound: those of them whose game servers run

ASSUME IdsAssumption == AtStart \in Nat /\ MaxIds \in Nat /\ AtStart <= MaxIds
ASSUME LiveAssumption == Live \subseteq 1..MaxIds

Ids == 1..MaxIds

VARIABLES
  rows,     \* table frontend: the name of each frontend in it
  created,  \* IDs given out so far
  list,     \* be.frontends
  cap,      \* the capacity of its array
  handler,  \* the pointer of the handler of each frontend
  request,  \* what each request still has to do
  marred,   \* history: since the start two requests ran into each other, a name
            \* was given twice or the database refused an edit
  moved,    \* history: frontends whose record was copied while they were
            \* connected, or connecting, or shown so, and that have not come back
  left      \* history: frontends whose handler returned without clearing their
            \* record, and that have not come back since

slice == <<list, cap>>
history == <<marred, moved, left>>
vars == <<rows, created, slice, handler, request, history>>

\* connected: Connected and Connection are set, and Trusted from when they have
\* authenticated.
Cell == [id : Ids, name : Names, connected : BOOLEAN]

\* A pointer into the array of the list, at an index; to a record of an older
\* array, with that record's ID; or none.
Listed  == [in : {"list"}, at : Nat]
Old     == [in : {"old"}, id : Ids]
Nowhere == [in |-> "nowhere"]
Pointer == Listed \cup Old \cup {Nowhere}

Idle == [op |-> "none"]
Request == {Idle}
           \cup [op : {"inserted"}, id : Ids, name : Names]
           \cup [op : {"unlisted"}, name : Names]
           \cup [op : {"copied"}, list : Seq(Cell)]
           \cup [op : {"edited"}, at : Nat]
           \cup [op : {"editedOld"}, id : Ids, name : Names]

TypeOK ==
  /\ DOMAIN rows \subseteq Ids /\ rows \in [DOMAIN rows -> Names]
  /\ created \in 0..MaxIds
  /\ list \in Seq(Cell) /\ cap \in Nat /\ Len(list) <= cap
  /\ handler \in [Ids -> Pointer]
  /\ request \in [Requests -> Request]
  /\ marred \in BOOLEAN /\ moved \subseteq Ids /\ left \subseteq Ids

\* append doubles a capacity that is used up.
Grown(n) == IF n = 0 THEN 1 ELSE 2 * n

\* The capacity after n appends to nothing.
Capacity[n \in Nat] ==
  IF n = 0 THEN 0
  ELSE IF Capacity[n - 1] < n THEN Grown(Capacity[n - 1]) ELSE Capacity[n - 1]

Serving == {i \in Ids : handler[i] # Nowhere}

Alike(name) == \E i, j \in DOMAIN name : i # j /\ name[i] = name[j]

\* LoadFrontends and the sorting after it: the order is that of the names, which
\* is any order of IDs.
Orders(S) == {q \in [1..Cardinality(S) -> S] : \A i, j \in DOMAIN q : q[i] = q[j] => i = j}

Loaded(table) ==
  {[i \in DOMAIN q |-> [id |-> q[i], name |-> table[q[i]], connected |-> FALSE]] :
     q \in Orders(DOMAIN table)}

Init ==
  /\ created = AtStart
  /\ rows \in [1..AtStart -> Names] /\ ~Alike(rows)
  /\ list \in Loaded(rows) /\ cap = Capacity[AtStart]
  /\ handler = [i \in Ids |-> Nowhere]
  /\ request = [r \in Requests |-> Idle]
  /\ marred = FALSE /\ moved = {} /\ left = {}

-----------------------------------------------------------------------------
(* Arrays.                                                                 *)

\* Records that are copied from now on are no longer those handlers write.
Moves(cells) ==
  moved' = moved \cup Serving \cup left
           \cup {cells[i].id : i \in {j \in DOMAIN cells : cells[j].connected}}

\* What a pointer becomes when the list gets a new array.
Left(p) == IF p \in Listed THEN [in |-> "old", id |-> list[p.at].id] ELSE p

LeftBy(q) ==
  IF q.op = "edited"
    THEN [op |-> "editedOld", id |-> list[q.at].id, name |-> list[q.at].name]
    ELSE q

\* The list is cells in a new array, and request r is done.
NewArray(r, cells) ==
  /\ handler' = [i \in Ids |-> Left(handler[i])]
  /\ request' = [q \in Requests |-> IF q = r THEN Idle ELSE LeftBy(request[q])]
  /\ list' = cells
  /\ Moves(cells) /\ UNCHANGED left

SameArray(r, cells) ==
  /\ request' = [request EXCEPT ![r] = Idle]
  /\ list' = cells
  /\ UNCHANGED <<handler, moved, left>>

-----------------------------------------------------------------------------
(* The pages.                                                              *)

\* A request begins; twice: it gives a name twice.
Begins(r, what, twice) ==
  /\ request[r] = Idle
  /\ request' = [request EXCEPT ![r] = what]
  /\ marred' = (marred \/ twice \/ \E q \in Requests : request[q] # Idle)

\* Mutant of NewId: numbers of deleted rows are given again.
NewIdCount == Cardinality(DOMAIN rows) + 1

\* The table's AUTOINCREMENT.
NewId == created + 1

\* WebAddServer: CreateFrontend inserts a row, with a name that may be taken.
InsertRow(r, n) ==
  /\ created < MaxIds /\ created' = created + 1
  /\ rows' = [i \in DOMAIN rows \cup {NewId} |-> IF i = NewId THEN n ELSE rows[i]]
  /\ Begins(r, [op |-> "inserted", id |-> NewId, name |-> n], Alike(rows'))
  /\ UNCHANGED <<slice, handler, moved, left>>

\* Then the record: in place if there is room, else in a copy.
AppendFrontend(r) ==
  /\ request[r].op = "inserted"
  /\ LET cells == Append(list, [id |-> request[r].id, name |-> request[r].name,
                                connected |-> FALSE]) IN
     IF Len(list) < cap THEN SameArray(r, cells) /\ UNCHANGED cap
     ELSE NewArray(r, cells) /\ cap' = Grown(cap)
  /\ UNCHANGED <<rows, created, marred>>

\* FindFrontendByName: the first.
First(n) ==
  CHOOSE i \in DOMAIN list : /\ list[i].name = n
                             /\ \A j \in DOMAIN list : list[j].name = n => i <= j

\* WebDelServer finds a frontend by UUID, DeleteFrontend another by its name:
\* that one's row is deleted.
DeleteRow(r, i) ==
  /\ i \in DOMAIN list
  /\ rows' = [j \in DOMAIN rows \ {list[First(list[i].name)].id} |-> rows[j]]
  /\ Begins(r, [op |-> "unlisted", name |-> list[i].name], FALSE)
  /\ UNCHANGED <<created, slice, handler, moved, left>>

\* The records that have another name, in their order.
Others(n) ==
  LET kept == {i \in DOMAIN list : list[i].name # n} IN
  {[i \in DOMAIN q |-> list[q[i]]] :
     q \in {o \in Orders(kept) : \A i, j \in DOMAIN o : i < j => o[i] < o[j]}}

CopyOthers(r) ==
  /\ request[r].op = "unlisted"
  /\ \E cells \in Others(request[r].name) :
       request' = [request EXCEPT ![r] = [op |-> "copied", list |-> cells]]
  /\ UNCHANGED <<rows, created, slice, handler, history>>

\* Mutant of Replaces: the list is closed up in place.
ReplacesInPlace(r, cells) == SameArray(r, cells)

Replaces(r, cells) == NewArray(r, cells)

\* The copies take the place of be.frontends.
ReplaceList(r) ==
  /\ request[r].op = "copied"
  /\ Replaces(r, request[r].list) /\ cap' = Capacity[Len(request[r].list)]
  /\ UNCHANGED <<rows, created, marred>>

\* WebEditServer: the record first, by a pointer that the row is written from.
EditRecord(r, i, n) ==
  /\ i \in DOMAIN list
  /\ list' = [list EXCEPT ![i].name = n]
  /\ Begins(r, [op |-> "edited", at |-> i], \E j \in DOMAIN list \ {i} : list[j].name = n)
  /\ UNCHANGED <<rows, created, cap, handler, moved, left>>

\* Mutant of Updated: the row is looked for by its name.
UpdatedByName(id, n) == [j \in DOMAIN rows |-> IF rows[j] = n THEN n ELSE rows[j]]

\* The table once the row of a record is written; there may be none.
Updated(id, n) == [j \in DOMAIN rows |-> IF j = id THEN n ELSE rows[j]]

EditRow(r) ==
  LET q == request[r] IN
  /\ \/ /\ q.op = "edited" /\ marred' = marred
        /\ rows' = Updated(list[q.at].id, list[q.at].name)
     \/ /\ q.op = "editedOld" /\ marred' = marred
        /\ rows' = Updated(q.id, q.name)
     \/ /\ q.op \in {"edited", "editedOld"} /\ marred' = TRUE
        /\ rows' = rows
  /\ request' = [request EXCEPT ![r] = Idle]
  /\ UNCHANGED <<created, slice, handler, moved, left>>

-----------------------------------------------------------------------------
(* Connections.                                                            *)

\* A greeting with the UUID of the frontend at index i; whether it is enabled
\* is not asked.
Connect(i) ==
  /\ i \in DOMAIN list /\ list[i].id \in Live /\ handler[list[i].id] = Nowhere
  /\ handler' = [handler EXCEPT ![list[i].id] = [in |-> "list", at |-> i]]
  /\ list' = [list EXCEPT ![i].connected = TRUE]
  /\ moved' = moved \ {list[i].id} /\ left' = left \ {list[i].id}
  /\ UNCHANGED <<rows, created, cap, request, marred>>

\* Mutant of Cleared: the record keeps its connection.
ClearedNot(p) == list

\* What a handler leaves of the list when it gets to its end.
Cleared(p) == IF p \in Listed THEN [list EXCEPT ![p.at].connected = FALSE] ELSE list

\* The serving loop ends with a read error.
Disconnect(i) ==
  /\ handler[i] # Nowhere
  /\ list' = Cleared(handler[i])
  /\ handler' = [handler EXCEPT ![i] = Nowhere]
  /\ UNCHANGED <<rows, created, cap, request, history>>

\* No public key, no second packet, a wrong answer, a packet that cannot be
\* decrypted: the handler returns, and the record stays as it is.
Abandon(i) ==
  /\ handler[i] # Nowhere
  /\ handler' = [handler EXCEPT ![i] = Nowhere]
  /\ left' = left \cup {i}
  /\ UNCHANGED <<rows, created, slice, request, marred, moved>>

Restart ==
  /\ list' \in Loaded(rows) /\ cap' = Capacity[Cardinality(DOMAIN rows)]
  /\ handler' = [i \in Ids |-> Nowhere]
  /\ request' = [r \in Requests |-> Idle]
  /\ marred' = Alike(rows) /\ moved' = {} /\ left' = {}
  /\ UNCHANGED <<rows, created>>

-----------------------------------------------------------------------------
Next ==
  \/ \E r \in Requests :
       \/ AppendFrontend(r) \/ CopyOthers(r) \/ ReplaceList(r) \/ EditRow(r)
       \/ \E n \in Names : InsertRow(r, n)
       \/ \E i \in DOMAIN list : DeleteRow(r, i) \/ \E n \in Names : EditRecord(r, i, n)
  \/ \E i \in DOMAIN list : Connect(i)
  \/ \E i \in Ids : Disconnect(i) \/ Abandon(i)
  \/ Restart

Spec == Init /\ [][Next]_vars
=============================================================================
