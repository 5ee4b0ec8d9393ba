--------------------------- MODULE Registry_proofs ---------------------------
(***************************************************************************)
(* For every number of frontends, names and requests: a handler keeps the  *)
(* record of the frontend that greeted it (KeepInv); nothing is listed     *)
(* twice (OnceInv); the flags of the records agree with the handlers       *)
(* (FlagInv); and so do list and table between requests (MatchInv, which   *)
(* says what is true midway); the list never outgrows its array (RoomInv). *)
(* Each invariant rests on those before it.                                *)
(***************************************************************************)
EXTENDS RegistryProps, FiniteSetTheorems, WellFoundedInduction, TLAPS

\* The types the handlers and requests depend on; the array follows at the end.
Types ==
  /\ DOMAIN rows \subseteq Ids /\ rows \in [DOMAIN rows -> Names]
  /\ created \in 0..MaxIds
  /\ list \in Seq(Cell)
  /\ handler \in [Ids -> Pointer]
  /\ request \in [Requests -> Request]

\* The record a request has edited is still where it was in the list.
EditedListed ==
  \A r \in Requests : request[r].op = "edited" => request[r].at \in DOMAIN list

KeepInv == Types /\ HandlerKeepsFrontend /\ EditedListed

\* What is read from a table is a list of records (backend.go:272-290).
LEMMA LoadedIsList ==
  ASSUME NEW table, DOMAIN table \subseteq Ids, table \in [DOMAIN table -> Names]
  PROVE  Loaded(table) \subseteq Seq(Cell)
<1> DEFINE S == DOMAIN table
<1>1. IsFiniteSet(S)
  <2>1. IsFiniteSet(1..MaxIds)
    <3>1. 1 \in Int /\ MaxIds \in Int
      BY IdsAssumption
    <3> QED
      BY <3>1, FS_Interval
  <2>2. S \subseteq 1..MaxIds
    BY DEF Ids
  <2> QED
    BY <2>1, <2>2, FS_Subset
<1>2. Cardinality(S) \in Nat
  BY <1>1, FS_CardinalityType
<1> SUFFICES ASSUME NEW q \in Orders(S)
             PROVE  [i \in DOMAIN q |-> [id |-> q[i], name |-> table[q[i]],
                                         connected |-> FALSE]] \in Seq(Cell)
  BY DEF Loaded
<1>3. q \in [1..Cardinality(S) -> S]
  BY DEF Orders
<1> DEFINE c(i) == [id |-> q[i], name |-> table[q[i]], connected |-> FALSE]
<1>4. \A i \in 1..Cardinality(S) : c(i) \in Cell
  BY <1>3 DEF Cell
<1>5. DOMAIN q = 1..Cardinality(S)
  BY <1>3
<1> HIDE DEF c, S
<1>6. [i \in 1..Cardinality(S) |-> c(i)] \in Seq(Cell)
  BY <1>2, <1>4
<1>7. [i \in DOMAIN q |-> c(i)] \in Seq(Cell)
  BY <1>5, <1>6
<1> QED
  BY <1>7 DEF c

\* What requests have still to do, each kind by itself.
LEMMA RequestKinds ==
  ASSUME NEW i \in Ids, NEW n \in Names, NEW l \in Seq(Cell), NEW k \in Nat
  PROVE  /\ Idle \in Request
         /\ [op |-> "inserted", id |-> i, name |-> n] \in Request
         /\ [op |-> "unlisted", name |-> n] \in Request
         /\ [op |-> "copied", list |-> l] \in Request
         /\ [op |-> "edited", at |-> k] \in Request
         /\ [op |-> "editedOld", id |-> i, name |-> n] \in Request
BY DEF Request

LEMMA RequestParts ==
  ASSUME NEW q \in Request
  PROVE  /\ q.op = "inserted" => q.id \in Ids /\ q.name \in Names
         /\ q.op = "copied" => q.list \in Seq(Cell)
         /\ q.op = "editedOld" => q.id \in Ids /\ q.name \in Names
BY DEF Request, Idle

LEMMA CellParts ==
  ASSUME list \in Seq(Cell), NEW i \in DOMAIN list
  PROVE  i \in Nat /\ list[i] \in Cell /\ list[i].id \in Ids /\ list[i].name \in Names
<1>1. i \in Nat /\ list[i] \in Cell
  OBVIOUS
<1> QED
  BY <1>1 DEF Cell

LEMMA CellFlagged ==
  ASSUME NEW d \in Cell, NEW b \in BOOLEAN
  PROVE  [d EXCEPT !.connected = b] \in Cell /\ [d EXCEPT !.connected = b].id = d.id
<1> DEFINE e == [d EXCEPT !.connected = b]
<1>1. d = [id |-> d.id, name |-> d.name, connected |-> d.connected]
      /\ d.id \in Ids /\ d.name \in Names
  BY DEF Cell
<1>2. e.id = d.id /\ e.name = d.name /\ e.connected = b
  BY <1>1
<1>3. e = [id |-> d.id, name |-> d.name, connected |-> b]
  BY <1>1
<1> QED
  BY <1>1, <1>2, <1>3 DEF Cell

\* A record changes and keeps its ID.
LEMMA OneCell ==
  ASSUME list \in Seq(Cell), NEW i \in DOMAIN list, NEW c \in Cell, c.id = list[i].id,
         list' = [list EXCEPT ![i] = c]
  PROVE  /\ list' \in Seq(Cell) /\ Len(list') = Len(list) /\ DOMAIN list' = DOMAIN list
         /\ \A j \in DOMAIN list : list'[j].id = list[j].id
<1>1. list' \in Seq(Cell) /\ Len(list') = Len(list) /\ DOMAIN list' = DOMAIN list
  OBVIOUS
<1>2. \A j \in DOMAIN list : list'[j] = IF j = i THEN c ELSE list[j]
  OBVIOUS
<1> QED
  BY <1>1, <1>2

\* What is copied is a list of records.
LEMMA OthersAreCells ==
  ASSUME list \in Seq(Cell), NEW n PROVE Others(n) \subseteq Seq(Cell)
<1> DEFINE K == {i \in DOMAIN list : list[i].name # n}
<1>1. IsFiniteSet(K)
  <2>1. DOMAIN list = 1..Len(list) /\ 1 \in Int /\ Len(list) \in Int
    OBVIOUS
  <2>2. IsFiniteSet(1..Len(list)) /\ K \subseteq 1..Len(list)
    BY <2>1, FS_Interval
  <2> QED
    BY <2>2, FS_Subset
<1>2. Cardinality(K) \in Nat
  BY <1>1, FS_CardinalityType
<1> SUFFICES ASSUME NEW q \in Orders(K)
             PROVE  [i \in DOMAIN q |-> list[q[i]]] \in Seq(Cell)
  BY DEF Others
<1>3. q \in [1..Cardinality(K) -> K]
  BY DEF Orders
<1>4. K \subseteq DOMAIN list
  OBVIOUS
<1> HIDE DEF K
<1>5. \A i \in 1..Cardinality(K) : list[q[i]] \in Cell
  BY <1>3, <1>4, CellParts
<1>6. [i \in 1..Cardinality(K) |-> list[q[i]]] \in Seq(Cell)
  BY <1>2, <1>5
<1> QED
  BY <1>3, <1>6

\* One request takes its next step; the list loses none of its places.
LEMMA OneRequest ==
  ASSUME request \in [Requests -> Request], EditedListed, list \in Seq(Cell),
         NEW r \in Requests, NEW q \in Request, request' = [request EXCEPT ![r] = q],
         q.op = "edited" => q.at \in DOMAIN list, DOMAIN list \subseteq DOMAIN list'
  PROVE  request' \in [Requests -> Request] /\ EditedListed'
<1>1. request' \in [Requests -> Request]
  OBVIOUS
<1>2. \A p \in Requests : request'[p] = IF p = r THEN q ELSE request[p]
  OBVIOUS
<1> QED
  BY <1>1, <1>2 DEF EditedListed

\* Requests left behind with an old array still know their record: one that
\* was edited is in the list.
LEMMA LeftByKeeps ==
  ASSUME NEW q \in Request, q.op = "edited" => q.at \in DOMAIN list, list \in Seq(Cell)
  PROVE  LeftBy(q) \in Request
<1>1. CASE q.op = "edited"
  <2>1. list[q.at].id \in Ids /\ list[q.at].name \in Names
    BY <1>1, CellParts
  <2>2. LeftBy(q) = [op |-> "editedOld", id |-> list[q.at].id, name |-> list[q.at].name]
    BY <1>1 DEF LeftBy
  <2> QED
    BY <2>1, <2>2 DEF Request
<1>2. CASE q.op # "edited"
  BY <1>2 DEF LeftBy
<1> QED
  BY <1>1, <1>2

\* After a new array no request is left with a place in the list.
LEMMA NewArrayRequests ==
  ASSUME request \in [Requests -> Request], EditedListed, list \in Seq(Cell),
         NEW r \in Requests,
         request' = [q \in Requests |-> IF q = r THEN Idle ELSE LeftBy(request[q])]
  PROVE  request' \in [Requests -> Request] /\ EditedListed'
<1>1. Idle \in Request /\ Idle.op # "edited"
  BY DEF Request, Idle
<1>2. \A q \in Requests : LeftBy(request[q]) \in Request
  BY LeftByKeeps DEF EditedListed
<1>3. \A q \in Requests : LeftBy(request[q]).op # "edited"
  BY DEF LeftBy
<1>4. request' \in [Requests -> Request]
  BY <1>1, <1>2
<1>5. \A q \in Requests : request'[q].op # "edited"
  BY <1>1, <1>3
<1> QED
  BY <1>4, <1>5 DEF EditedListed

\* The first state has no handlers.
LEMMA InitKeeps == Init => KeepInv
<1> SUFFICES ASSUME Init PROVE KeepInv
  OBVIOUS
<1>1. DOMAIN rows \subseteq Ids /\ rows \in [DOMAIN rows -> Names] /\ created \in 0..MaxIds
  BY IdsAssumption DEF Init, Ids
<1>2. list \in Seq(Cell)
  BY <1>1, LoadedIsList DEF Init
<1>3. handler \in [Ids -> Pointer] /\ request \in [Requests -> Request]
  BY DEF Init, Pointer, Request
<1>4. HandlerKeepsFrontend /\ EditedListed
  BY DEF Init, HandlerKeepsFrontend, Serving, EditedListed, Idle
<1> QED
  BY <1>1, <1>2, <1>3, <1>4 DEF KeepInv, Types

\* A change of names or connections in place, or at the end, leaves every
\* handler where it was (backend.go:147, 502, 620, website.go:770).
LEMMA InPlaceKeeps ==
  ASSUME KeepInv, list' \in Seq(Cell), handler' = handler,
         Len(list) <= Len(list'), \A i \in DOMAIN list : list'[i].id = list[i].id
  PROVE  HandlerKeepsFrontend'
<1> SUFFICES ASSUME NEW i \in Serving
             PROVE  /\ handler[i] \in Listed => handler[i].at \in DOMAIN list'
                    /\ handler[i] \in Listed => list'[handler[i].at].id = i
                    /\ handler[i] \notin Listed => handler[i].id = i
  BY DEF HandlerKeepsFrontend, Serving, Record
<1>1. /\ handler[i] \in Listed => handler[i].at \in DOMAIN list
      /\ handler[i] \in Listed => list[handler[i].at].id = i
      /\ handler[i] \notin Listed => handler[i].id = i
  BY DEF KeepInv, HandlerKeepsFrontend, Record
<1>2. DOMAIN list \subseteq DOMAIN list'
  BY DEF KeepInv, Types
<1> QED
  BY <1>1, <1>2

\* A new array leaves every handler with a record of the same frontend
\* (backend.go:147, 171).
LEMMA NewArrayKeeps ==
  ASSUME KeepInv, handler' = [i \in Ids |-> Left(handler[i])]
  PROVE  handler' \in [Ids -> Pointer] /\ HandlerKeepsFrontend'
<1>1. \A i \in Ids : \/ handler[i] = Nowhere /\ handler'[i] = Nowhere
                     \/ i \in Serving /\ handler'[i] = [in |-> "old", id |-> i]
  <2> TAKE i \in Ids
  <2>1. CASE handler[i] \in Listed
    <3>1. handler[i] # Nowhere
      BY <2>1 DEF Listed, Nowhere
    <3> QED
      BY <2>1, <3>1 DEF KeepInv, HandlerKeepsFrontend, Record, Left, Serving
  <2>2. CASE handler[i] \in Old
    <3>1. handler[i] \notin Listed /\ handler[i] # Nowhere
      BY <2>2 DEF Listed, Old, Nowhere
    <3>2. handler[i].id = i
      BY <3>1 DEF KeepInv, HandlerKeepsFrontend, Record, Serving
    <3>3. handler[i] = [in |-> "old", id |-> i]
      BY <2>2, <3>2 DEF Old
    <3> QED
      BY <3>1, <3>3 DEF Left, Serving
  <2>3. CASE handler[i] = Nowhere
    <3>1. handler[i] \notin Listed
      BY <2>3 DEF Listed, Nowhere
    <3> QED
      BY <2>3, <3>1 DEF Left
  <2> QED
    BY <2>1, <2>2, <2>3 DEF KeepInv, Types, Pointer
<1>2. \A i \in Ids : /\ [in |-> "old", id |-> i] \in Pointer
                     /\ [in |-> "old", id |-> i] \notin Listed
  BY DEF Pointer, Old, Listed
<1>3. handler' \in [Ids -> Pointer]
  <2>1. \A i \in Ids : handler'[i] \in Pointer
    BY <1>1, <1>2, ZenonT(40) DEF Pointer
  <2> QED
    BY <2>1
<1>4. ASSUME NEW i \in Ids, handler'[i] # Nowhere
      PROVE  handler'[i] \notin Listed /\ handler'[i].id = i
  <2>1. handler'[i] = [in |-> "old", id |-> i]
    BY <1>1, <1>4
  <2> QED
    BY <1>2, <2>1
<1> QED
  BY <1>3, <1>4 DEF HandlerKeepsFrontend, Serving, Record

\* Every step keeps it.
LEMMA NextKeeps == KeepInv /\ [Next]_vars => KeepInv'
<1> SUFFICES ASSUME KeepInv, [Next]_vars PROVE KeepInv'
  OBVIOUS
<1> USE DEF KeepInv, Types
<1>1. ASSUME NEW r \in Requests, NEW n \in Names, InsertRow(r, n)
      PROVE  KeepInv'
  <2> DEFINE q == [op |-> "inserted", id |-> NewId, name |-> n]
  <2>1. NewId \in Ids /\ created' \in 0..MaxIds
    BY <1>1, IdsAssumption DEF InsertRow, NewId, Ids
  <2>2. DOMAIN rows' \subseteq Ids /\ rows' \in [DOMAIN rows' -> Names]
    <3>1. DOMAIN rows' = DOMAIN rows \cup {NewId}
      BY <1>1 DEF InsertRow
    <3>2. rows' \in [DOMAIN rows \cup {NewId} -> Names]
      BY <1>1 DEF InsertRow
    <3> QED
      BY <2>1, <3>1, <3>2
  <2>3. q \in Request /\ q.op # "edited"
    BY <2>1 DEF Request
  <2>4. request' = [request EXCEPT ![r] = q] /\ list' = list /\ handler' = handler
    BY <1>1 DEF InsertRow, Begins, slice
  <2>5. request' \in [Requests -> Request] /\ EditedListed'
    BY <2>3, <2>4, OneRequest
  <2>6. HandlerKeepsFrontend'
    BY <2>4, InPlaceKeeps
  <2> QED
    BY <2>1, <2>2, <2>4, <2>5, <2>6
<1>2. ASSUME NEW r \in Requests, AppendFrontend(r)
      PROVE  KeepInv'
  <2> DEFINE c == [id |-> request[r].id, name |-> request[r].name, connected |-> FALSE]
  <2>1. request[r].id \in Ids /\ request[r].name \in Names
    BY <1>2, RequestParts DEF AppendFrontend
  <2>2. c \in Cell
    BY <2>1 DEF Cell
  <2>3. SameArray(r, Append(list, c)) \/ NewArray(r, Append(list, c))
    BY <1>2 DEF AppendFrontend
  <2>4. list' = Append(list, c) /\ rows' = rows /\ created' = created
    BY <1>2, <2>3 DEF AppendFrontend, SameArray, NewArray
  <2> HIDE DEF c
  <2>5. /\ list' \in Seq(Cell) /\ Len(list) <= Len(list')
        /\ DOMAIN list \subseteq DOMAIN list'
        /\ \A i \in DOMAIN list : list'[i] = list[i]
    BY <2>2, <2>4
  <2>6. CASE SameArray(r, Append(list, c))
    <3>1. request' = [request EXCEPT ![r] = Idle] /\ handler' = handler
      BY <2>6 DEF SameArray
    <3>2. Idle \in Request /\ Idle.op # "edited"
      BY DEF Request, Idle
    <3>3. request' \in [Requests -> Request] /\ EditedListed'
      BY <2>5, <3>1, <3>2, OneRequest
    <3>4. HandlerKeepsFrontend'
      BY <2>5, <3>1, InPlaceKeeps
    <3> QED
      BY <2>4, <2>5, <3>1, <3>3, <3>4
  <2>7. CASE NewArray(r, Append(list, c))
    <3>1. /\ handler' = [i \in Ids |-> Left(handler[i])]
          /\ request' = [q \in Requests |-> IF q = r THEN Idle ELSE LeftBy(request[q])]
      BY <2>7 DEF NewArray
    <3> QED
      BY <2>4, <2>5, <3>1, NewArrayKeeps, NewArrayRequests
  <2> QED
    BY <2>3, <2>6, <2>7
<1>3. ASSUME NEW r \in Requests, NEW i \in DOMAIN list, DeleteRow(r, i)
      PROVE  KeepInv'
  <2> DEFINE q == [op |-> "unlisted", name |-> list[i].name]
  <2>1. q \in Request /\ q.op # "edited"
    BY CellParts DEF Request
  <2>2. /\ request' = [request EXCEPT ![r] = q]
        /\ list' = list /\ handler' = handler /\ created' = created
    BY <1>3 DEF DeleteRow, Begins, slice
  <2>3. request' \in [Requests -> Request] /\ EditedListed'
    BY <2>1, <2>2, OneRequest
  <2>4. DOMAIN rows' \subseteq Ids /\ rows' \in [DOMAIN rows' -> Names]
    BY <1>3 DEF DeleteRow
  <2>5. HandlerKeepsFrontend'
    BY <2>2, InPlaceKeeps
  <2> QED
    BY <2>2, <2>3, <2>4, <2>5
<1>4. ASSUME NEW r \in Requests, CopyOthers(r)
      PROVE  KeepInv'
  <2>1. PICK cells \in Others(request[r].name) :
          request' = [request EXCEPT ![r] = [op |-> "copied", list |-> cells]]
    BY <1>4 DEF CopyOthers
  <2> DEFINE q == [op |-> "copied", list |-> cells]
  <2>2. q \in Request /\ q.op # "edited"
    BY OthersAreCells DEF Request
  <2>3. /\ request' = [request EXCEPT ![r] = q] /\ rows' = rows
        /\ list' = list /\ handler' = handler /\ created' = created
    BY <1>4, <2>1 DEF CopyOthers, slice
  <2> HIDE DEF q
  <2>4. request' \in [Requests -> Request] /\ EditedListed'
    BY <2>2, <2>3, OneRequest
  <2>5. HandlerKeepsFrontend'
    BY <2>3, InPlaceKeeps
  <2> QED
    BY <2>3, <2>4, <2>5
<1>5. ASSUME NEW r \in Requests, ReplaceList(r)
      PROVE  KeepInv'
  <2>1. request[r].list \in Seq(Cell)
    BY <1>5, RequestParts DEF ReplaceList
  <2>2. /\ handler' = [i \in Ids |-> Left(handler[i])]
        /\ request' = [q \in Requests |-> IF q = r THEN Idle ELSE LeftBy(request[q])]
        /\ list' = request[r].list /\ rows' = rows /\ created' = created
    BY <1>5 DEF ReplaceList, Replaces, NewArray
  <2> QED
    BY <2>1, <2>2, NewArrayKeeps, NewArrayRequests
<1>6. ASSUME NEW r \in Requests, NEW i \in DOMAIN list, NEW n \in Names, EditRecord(r, i, n)
      PROVE  KeepInv'
  <2> DEFINE q == [op |-> "edited", at |-> i]
  <2>1. q \in Request /\ q.at \in DOMAIN list
    BY CellParts DEF Request
  <2>2. /\ request' = [request EXCEPT ![r] = q] /\ rows' = rows
        /\ list' = [list EXCEPT ![i].name = n] /\ handler' = handler /\ created' = created
    BY <1>6 DEF EditRecord, Begins
  <2>3. /\ list' \in Seq(Cell) /\ Len(list') = Len(list) /\ DOMAIN list \subseteq DOMAIN list'
        /\ \A j \in DOMAIN list : list'[j].id = list[j].id
    <3> DEFINE c == [id |-> list[i].id, name |-> n, connected |-> list[i].connected]
    <3>1. list[i] \in Cell /\ c \in Cell
      BY CellParts DEF Cell
    <3>2. [list[i] EXCEPT !.name = n] = c
      BY <3>1 DEF Cell
    <3>3. list' = [list EXCEPT ![i] = [list[i] EXCEPT !.name = n]]
      BY <2>2
    <3>4. list' = [list EXCEPT ![i] = c]
      BY <3>2, <3>3
    <3> QED
      BY <3>1, <3>4, OneCell
  <2>4. request' \in [Requests -> Request] /\ EditedListed'
    BY <2>1, <2>2, <2>3, OneRequest
  <2>5. HandlerKeepsFrontend'
    BY <2>2, <2>3, InPlaceKeeps
  <2> QED
    BY <2>2, <2>3, <2>4, <2>5
<1>7. ASSUME NEW r \in Requests, EditRow(r)
      PROVE  KeepInv'
  <2>1. /\ request' = [request EXCEPT ![r] = Idle]
        /\ list' = list /\ handler' = handler /\ created' = created
    BY <1>7 DEF EditRow, slice
  <2>2. Idle \in Request /\ Idle.op # "edited"
    BY DEF Request, Idle
  <2>3. request' \in [Requests -> Request] /\ EditedListed'
    BY <2>1, <2>2, OneRequest
  <2>4. HandlerKeepsFrontend'
    BY <2>1, InPlaceKeeps
  <2>5. DOMAIN rows' = DOMAIN rows /\ rows' \in [DOMAIN rows -> Names]
    <3>1. ASSUME NEW id, NEW n \in Names
          PROVE  Updated(id, n) \in [DOMAIN rows -> Names]
      BY DEF Updated
    <3>2. CASE /\ request[r].op = "edited"
               /\ rows' = Updated(list[request[r].at].id, list[request[r].at].name)
      <4>1. list[request[r].at].name \in Names
        BY <3>2, CellParts DEF EditedListed
      <4> QED
        BY <3>1, <3>2, <4>1
    <3>3. CASE request[r].op = "editedOld" /\ rows' = Updated(request[r].id, request[r].name)
      <4>1. request[r].name \in Names
        BY <3>3, RequestParts
      <4> QED
        BY <3>1, <3>3, <4>1
    <3>4. CASE rows' = rows
      BY <3>4
    <3> QED
      BY <1>7, <3>2, <3>3, <3>4 DEF EditRow
  <2> QED
    BY <2>1, <2>3, <2>4, <2>5
<1>8. ASSUME NEW i \in DOMAIN list, Connect(i)
      PROVE  KeepInv'
  <2> DEFINE me == list[i].id
             p == [in |-> "list", at |-> i]
  <2>1. me \in Ids /\ i \in Nat
    BY CellParts
  <2>2. /\ rows' = rows /\ created' = created /\ request' = request
        /\ handler' = [handler EXCEPT ![me] = p]
        /\ list' = [list EXCEPT ![i].connected = TRUE]
    BY <1>8 DEF Connect
  <2>3. /\ list' \in Seq(Cell) /\ DOMAIN list' = DOMAIN list
        /\ \A j \in DOMAIN list : list'[j].id = list[j].id
    <3> DEFINE c == [list[i] EXCEPT !.connected = TRUE]
    <3>1. c \in Cell /\ c.id = list[i].id
      BY CellParts, CellFlagged
    <3>2. list' = [list EXCEPT ![i] = c]
      BY <2>2
    <3> QED
      BY <3>1, <3>2, OneCell
  <2>4. p \in Listed /\ p \in Pointer
    BY <2>1 DEF Pointer, Listed
  <2>5. handler' \in [Ids -> Pointer]
    BY <2>1, <2>2, <2>4
  <2>6. ASSUME NEW j \in Ids, handler'[j] # Nowhere
        PROVE  /\ handler'[j] \in Listed => handler'[j].at \in DOMAIN list'
               /\ handler'[j] \in Listed => list'[handler'[j].at].id = j
               /\ handler'[j] \notin Listed => handler'[j].id = j
    <3>1. CASE j = me
      <4>1. handler'[j] = p /\ p.at = i
        BY <2>1, <2>2, <3>1
      <4> QED
        BY <2>3, <2>4, <3>1, <4>1
    <3>2. CASE j # me
      <4>1. handler'[j] = handler[j] /\ j \in Serving
        BY <2>2, <2>6, <3>2 DEF Serving
      <4> QED
        BY <2>3, <4>1 DEF HandlerKeepsFrontend, Record
    <3> QED
      BY <3>1, <3>2
  <2>7. HandlerKeepsFrontend'
    BY <2>6 DEF HandlerKeepsFrontend, Serving, Record
  <2>8. EditedListed'
    BY <2>2, <2>3 DEF EditedListed
  <2> QED
    BY <2>2, <2>3, <2>5, <2>7, <2>8
<1>9. ASSUME NEW i \in Ids, Disconnect(i)
      PROVE  KeepInv'
  <2>1. /\ rows' = rows /\ created' = created /\ request' = request
        /\ handler' = [handler EXCEPT ![i] = Nowhere] /\ list' = Cleared(handler[i])
    BY <1>9 DEF Disconnect
  <2>2. /\ list' \in Seq(Cell) /\ DOMAIN list' = DOMAIN list
        /\ \A j \in DOMAIN list : list'[j].id = list[j].id
    <3>1. CASE handler[i] \in Listed
      <4>1. handler[i].at \in DOMAIN list
        BY <1>9, <3>1 DEF HandlerKeepsFrontend, Disconnect, Serving
      <4> DEFINE c == [list[handler[i].at] EXCEPT !.connected = FALSE]
      <4>2. c \in Cell /\ c.id = list[handler[i].at].id
        BY <4>1, CellParts, CellFlagged
      <4>3. list' = [list EXCEPT ![handler[i].at] = c]
        BY <2>1, <3>1 DEF Cleared
      <4> QED
        BY <4>1, <4>2, <4>3, OneCell
    <3>2. CASE handler[i] \notin Listed
      BY <2>1, <3>2 DEF Cleared
    <3> QED
      BY <3>1, <3>2
  <2>3. handler' \in [Ids -> Pointer]
    BY <2>1 DEF Pointer
  <2>4. \A j \in Ids : handler'[j] # Nowhere => handler'[j] = handler[j] /\ j \in Serving
    BY <2>1 DEF Serving
  <2>5. HandlerKeepsFrontend'
    BY <2>2, <2>4 DEF HandlerKeepsFrontend, Serving, Record
  <2>6. EditedListed'
    BY <2>1, <2>2 DEF EditedListed
  <2> QED
    BY <2>1, <2>2, <2>3, <2>5, <2>6
<1>10. CASE Restart
  <2>1. list' \in Seq(Cell) /\ rows' = rows /\ created' = created
    BY <1>10, LoadedIsList DEF Restart
  <2>2. handler' \in [Ids -> Pointer] /\ request' \in [Requests -> Request]
    BY <1>10 DEF Restart, Pointer, Request
  <2>3. HandlerKeepsFrontend' /\ EditedListed'
    BY <1>10 DEF Restart, HandlerKeepsFrontend, Serving, EditedListed, Idle
  <2> QED
    BY <2>1, <2>2, <2>3
<1>11. CASE UNCHANGED vars
  BY <1>11 DEF vars, slice, HandlerKeepsFrontend, Serving, Record, EditedListed
<1>12. ASSUME NEW i \in Ids, Abandon(i)
       PROVE  KeepInv'
  <2>1. /\ rows' = rows /\ created' = created /\ request' = request
        /\ handler' = [handler EXCEPT ![i] = Nowhere] /\ list' = list
    BY <1>12 DEF Abandon, slice
  <2>2. handler' \in [Ids -> Pointer]
    BY <2>1 DEF Pointer
  <2>3. \A j \in Ids : handler'[j] # Nowhere => handler'[j] = handler[j] /\ j \in Serving
    BY <2>1 DEF Serving
  <2>4. HandlerKeepsFrontend'
    BY <2>1, <2>3 DEF HandlerKeepsFrontend, Serving, Record
  <2>5. EditedListed'
    BY <2>1 DEF EditedListed
  <2> QED
    BY <2>1, <2>2, <2>4, <2>5
<1> QED
  BY <1>1, <1>2, <1>3, <1>4, <1>5, <1>6, <1>7, <1>8, <1>9, <1>10, <1>11, <1>12 DEF Next

\* A handler never works on the record of another frontend than the one that
\* greeted it (backend.go:147, 164-171, 176-186).
THEOREM HandlerKeepsFrontendCorrect == Spec => []HandlerKeepsFrontend
<1>1. KeepInv => HandlerKeepsFrontend
  BY DEF KeepInv
<1> QED
  BY <1>1, InitKeeps, NextKeeps, PTL DEF Spec
-----------------------------------------------------------------------------
(* What reading the table and copying the list give.                       *)

\* An order of a finite set has each of its elements, once.
LEMMA OrdersParts ==
  ASSUME NEW S, IsFiniteSet(S), NEW q \in Orders(S)
  PROVE  /\ Cardinality(S) \in Nat /\ q \in [1..Cardinality(S) -> S]
         /\ \A i, j \in DOMAIN q : q[i] = q[j] => i = j
         /\ \A s \in S : \E i \in DOMAIN q : q[i] = s
<1> DEFINE I == 1..Cardinality(S)
<1>1. Cardinality(S) \in Nat
  BY FS_CardinalityType
<1>2. q \in [I -> S] /\ \A i, j \in DOMAIN q : q[i] = q[j] => i = j
  BY DEF Orders
<1>3. Cardinality(I) = Cardinality(S)
  BY <1>1, FS_Interval
<1> HIDE DEF I
<1>4. q \in Injection(I, S)
  BY <1>2 DEF Injection, IsInjective
<1>5. q \in Surjection(I, S)
  BY <1>3, <1>4, FS_Injection
<1> QED
  BY <1>1, <1>2, <1>5 DEF I, Surjection

\* The list that is read has a record for each row (backend.go:272-290).
LEMMA LoadedParts ==
  ASSUME NEW table, DOMAIN table \subseteq Ids, table \in [DOMAIN table -> Names],
         NEW cells \in Loaded(table)
  PROVE  /\ \A i, j \in DOMAIN cells : cells[i].id = cells[j].id => i = j
         /\ \A i \in DOMAIN cells : /\ cells[i].id \in DOMAIN table
                                    /\ cells[i].name = table[cells[i].id]
                                    /\ ~cells[i].connected
         /\ \A k \in DOMAIN table : \E i \in DOMAIN cells : cells[i].id = k
<1>1. IsFiniteSet(DOMAIN table)
  <2>1. IsFiniteSet(Ids)
    BY IdsAssumption, FS_Interval DEF Ids
  <2> QED
    BY <2>1, FS_Subset
<1>2. PICK q \in Orders(DOMAIN table) :
        cells = [i \in DOMAIN q |-> [id |-> q[i], name |-> table[q[i]], connected |-> FALSE]]
  BY DEF Loaded
<1>3. DOMAIN cells = DOMAIN q
  BY <1>2
<1>4. \A i \in DOMAIN q : /\ cells[i].id = q[i] /\ cells[i].name = table[q[i]]
                          /\ ~cells[i].connected
  BY <1>2
<1>5. \A i \in DOMAIN q : q[i] \in DOMAIN table
  BY <1>1, OrdersParts
<1>6. /\ \A i, j \in DOMAIN q : q[i] = q[j] => i = j
      /\ \A s \in DOMAIN table : \E i \in DOMAIN q : q[i] = s
  BY <1>1, OrdersParts
<1> QED
  BY <1>3, <1>4, <1>5, <1>6

\* The copies are those of the records with another name (backend.go:164-170).
LEMMA OthersParts ==
  ASSUME list \in Seq(Cell), NEW n, NEW cells \in Others(n)
  PROVE  /\ \A i \in DOMAIN cells : \E k \in DOMAIN list :
              list[k].name # n /\ cells[i] = list[k]
         /\ \A k \in DOMAIN list : list[k].name # n =>
              \E i \in DOMAIN cells : cells[i] = list[k]
         /\ (\A i, j \in DOMAIN list : list[i].id = list[j].id => i = j) =>
              \A i, j \in DOMAIN cells : cells[i].id = cells[j].id => i = j
<1> DEFINE K == {i \in DOMAIN list : list[i].name # n}
<1>1. IsFiniteSet(K)
  <2>1. DOMAIN list = 1..Len(list) /\ 1 \in Int /\ Len(list) \in Int
    OBVIOUS
  <2>2. IsFiniteSet(1..Len(list)) /\ K \subseteq 1..Len(list)
    BY <2>1, FS_Interval
  <2> QED
    BY <2>2, FS_Subset
<1>2. PICK q \in Orders(K) : cells = [i \in DOMAIN q |-> list[q[i]]]
  BY DEF Others
<1>3. DOMAIN cells = DOMAIN q /\ \A i \in DOMAIN q : cells[i] = list[q[i]]
  BY <1>2
<1>4. \A k : k \in K <=> k \in DOMAIN list /\ list[k].name # n
  OBVIOUS
<1> HIDE DEF K
<1>5. /\ \A i \in DOMAIN q : q[i] \in K
      /\ \A i, j \in DOMAIN q : q[i] = q[j] => i = j
      /\ \A s \in K : \E i \in DOMAIN q : q[i] = s
  BY <1>1, OrdersParts
<1> QED
  BY <1>3, <1>4, <1>5

-----------------------------------------------------------------------------
(* What the steps do to requests and handlers, once for all arguments.     *)

\* Request r is done; others are as they were, but for an edit whose record
\* was left behind.
Done(r) ==
  /\ request'[r] = Idle
  /\ \A s \in Requests \ {r} :
       \/ request'[s] = request[s]
       \/ request[s].op = "edited" /\ request'[s].op = "editedOld"

LEMMA SameArrayDone ==
  ASSUME request \in [Requests -> Request], NEW r \in Requests, NEW cells,
         SameArray(r, cells)
  PROVE  /\ Done(r) /\ list' = cells
         /\ handler' = handler /\ moved' = moved /\ left' = left
BY DEF SameArray, Done

LEMMA NewArrayDone ==
  ASSUME KeepInv, NEW r \in Requests, NEW cells, NewArray(r, cells)
  PROVE  /\ Done(r) /\ list' = cells /\ Serving' = Serving
         /\ moved \cup Serving \cup left \subseteq moved' /\ left' = left
         /\ \A i \in DOMAIN cells : cells[i].connected => cells[i].id \in moved'
<1>1. /\ handler' = [i \in Ids |-> Left(handler[i])] /\ list' = cells
      /\ request' = [q \in Requests |-> IF q = r THEN Idle ELSE LeftBy(request[q])]
      /\ Moves(cells) /\ left' = left
  BY DEF NewArray
<1>2. Done(r)
  <2>1. ASSUME NEW s \in Requests \ {r}
        PROVE  \/ request'[s] = request[s]
               \/ request[s].op = "edited" /\ request'[s].op = "editedOld"
    <3>1. request'[s] = LeftBy(request[s])
      BY <1>1
    <3> QED
      BY <3>1 DEF LeftBy
  <2>2. request'[r] = Idle
    BY <1>1
  <2> QED
    BY <2>1, <2>2 DEF Done
<1>3. Serving' = Serving
  <2>1. \A i \in Ids : handler'[i] = Left(handler[i])
    BY <1>1
  <2>2. Nowhere \notin Listed /\ \A id : [in |-> "old", id |-> id] # Nowhere
    BY DEF Listed, Nowhere
  <2>3. \A p : Left(p) = Nowhere <=> p = Nowhere
    BY <2>2 DEF Left
  <2> QED
    BY <2>1, <2>3 DEF Serving
<1> QED
  BY <1>1, <1>2, <1>3 DEF Moves

\* A request begins.
LEMMA Begun ==
  ASSUME request \in [Requests -> Request], NEW r \in Requests, NEW what, NEW twice,
         Begins(r, what, twice)
  PROVE  /\ request[r] = Idle /\ request'[r] = what
         /\ \A s \in Requests \ {r} : request'[s] = request[s]
BY DEF Begins
-----------------------------------------------------------------------------
(* Nothing is listed twice.                                                *)

\* An ID that a request is about to list.
Coming(id) == \E r \in Requests : request[r].op = "inserted" /\ request[r].id = id

\* Records of different frontends, all of them created and none still to come.
Sound(cells) ==
  /\ \A i, j \in DOMAIN cells : cells[i].id = cells[j].id => i = j
  /\ \A i \in DOMAIN cells : cells[i].id \in 1..created /\ ~Coming(cells[i].id)

\* The list is sound, and so is what may take its place; what is still to come
\* comes once, and is not served.
OnceInv ==
  /\ DOMAIN rows \subseteq 1..created /\ Serving \subseteq 1..created
  /\ Sound(list)
  /\ \A r \in Requests : request[r].op = "copied" => Sound(request[r].list)
  /\ \A r \in Requests : request[r].op = "inserted" =>
       /\ request[r].id \in 1..created /\ request[r].id \notin Serving
       /\ \A s \in Requests :
            request[s].op = "inserted" /\ request[s].id = request[r].id => s = r

\* What is sound stays so while nothing is inserted.
LEMMA SoundStands ==
  ASSUME NEW cells, Sound(cells), created' = created,
         \A s \in Requests : request'[s].op = "inserted" => request'[s] = request[s]
  PROVE  /\ \A i, j \in DOMAIN cells : cells[i].id = cells[j].id => i = j
         /\ \A i \in DOMAIN cells :
              /\ cells[i].id \in 1..created'
              /\ ~\E s \in Requests : request'[s].op = "inserted" /\ request'[s].id = cells[i].id
BY DEF Sound, Coming

\* A step that inserts nothing.
LEMMA OnceStands ==
  ASSUME OnceInv, created' = created, DOMAIN rows' \subseteq DOMAIN rows, Sound(list)',
         \A s \in Requests : request'[s].op = "inserted" => request'[s] = request[s],
         \A s \in Requests : request'[s].op = "copied" =>
            request'[s] = request[s] \/ Sound(request'[s].list),
         \A i \in Serving' : i \in 1..created /\ ~\E s \in Requests :
            request'[s].op = "inserted" /\ request'[s].id = i
  PROVE  OnceInv'
<1>1. ASSUME NEW s \in Requests, request'[s].op = "copied"
      PROVE  Sound(request[s].list)'
  <2>1. Sound(request'[s].list)
    BY <1>1 DEF OnceInv
  <2> DEFINE cells == request'[s].list
  <2>2. Sound(cells)
    BY <2>1
  <2> HIDE DEF cells
  <2>3. /\ \A i, j \in DOMAIN cells : cells[i].id = cells[j].id => i = j
        /\ \A i \in DOMAIN cells :
              /\ cells[i].id \in 1..created'
              /\ ~\E t \in Requests : request'[t].op = "inserted" /\ request'[t].id = cells[i].id
    BY <2>2, SoundStands
  <2> QED
    BY <2>3 DEF cells, Sound, Coming
<1>2. ASSUME NEW s \in Requests, request'[s].op = "inserted"
      PROVE  /\ request'[s].id \in 1..created' /\ request'[s].id \notin Serving'
             /\ \A t \in Requests :
                  request'[t].op = "inserted" /\ request'[t].id = request'[s].id => t = s
  BY <1>2 DEF OnceInv
<1> QED
  BY <1>1, <1>2 DEF OnceInv

LEMMA InitOnce == Init => OnceInv
<1> SUFFICES ASSUME Init PROVE OnceInv
  OBVIOUS
<1>1. /\ created = AtStart /\ DOMAIN rows = 1..AtStart
      /\ rows \in [DOMAIN rows -> Names] /\ list \in Loaded(rows)
  BY DEF Init
<1>2. DOMAIN rows \subseteq Ids
  BY <1>1, IdsAssumption DEF Ids
<1>3. \A r \in Requests : request[r].op = "none"
  BY DEF Init, Idle
<1>4. Sound(list)
  BY <1>1, <1>2, <1>3, LoadedParts DEF Sound, Coming
<1>5. Serving = {}
  BY DEF Init, Serving
<1> QED
  BY <1>1, <1>3, <1>4, <1>5 DEF OnceInv

\* A record is put at the end of the list.
LEMMA Appended ==
  ASSUME list \in Seq(Cell), NEW c \in Cell, list' = Append(list, c)
  PROVE  /\ DOMAIN list' = DOMAIN list \cup {Len(list) + 1} /\ Len(list) + 1 \notin DOMAIN list
         /\ list'[Len(list) + 1] = c
         /\ \A i \in DOMAIN list : list'[i] = list[i]
OBVIOUS

\* Appending what was inserted (backend.go:147).
LEMMA AppendEffect ==
  ASSUME KeepInv, NEW r \in Requests, AppendFrontend(r)
  PROVE  /\ rows' = rows /\ created' = created /\ marred' = marred
         /\ request[r].op = "inserted" /\ Done(r) /\ Serving' = Serving
         /\ DOMAIN list' = DOMAIN list \cup {Len(list) + 1} /\ Len(list) + 1 \notin DOMAIN list
         /\ list'[Len(list) + 1].id = request[r].id
         /\ list'[Len(list) + 1].name = request[r].name
         /\ list'[Len(list) + 1].connected = FALSE
         /\ \A i \in DOMAIN list : list'[i] = list[i]
         /\ \/ handler' = handler /\ moved' = moved
            \/ NewArray(r, list')
         /\ left' = left
<1> DEFINE c == [id |-> request[r].id, name |-> request[r].name, connected |-> FALSE]
<1>1. request[r].op = "inserted" /\ request[r] \in Request
  BY DEF AppendFrontend, KeepInv, Types
<1>2. /\ c \in Cell
      /\ c.id = request[r].id /\ c.name = request[r].name /\ c.connected = FALSE
  BY <1>1, RequestParts DEF Cell
<1>3. SameArray(r, Append(list, c)) \/ NewArray(r, Append(list, c))
  BY DEF AppendFrontend
<1>4. list' = Append(list, c) /\ rows' = rows /\ created' = created /\ marred' = marred
  BY <1>3 DEF AppendFrontend, SameArray, NewArray
<1> HIDE DEF c
<1>5. /\ DOMAIN list' = DOMAIN list \cup {Len(list) + 1} /\ Len(list) + 1 \notin DOMAIN list
      /\ list'[Len(list) + 1] = c
      /\ \A i \in DOMAIN list : list'[i] = list[i]
  BY <1>2, <1>4, Appended DEF KeepInv, Types
<1>6. CASE SameArray(r, Append(list, c))
  <2>1. Done(r) /\ handler' = handler /\ moved' = moved /\ left' = left
    BY <1>6, SameArrayDone DEF KeepInv, Types
  <2>2. Serving' = Serving
    BY <2>1 DEF Serving
  <2> QED
    BY <1>1, <1>2, <1>4, <1>5, <2>1, <2>2
<1>7. CASE NewArray(r, Append(list, c))
  <2>1. Done(r) /\ Serving' = Serving /\ left' = left
    BY <1>7, NewArrayDone
  <2>2. NewArray(r, list')
    BY <1>4, <1>7
  <2> QED
    BY <1>1, <1>2, <1>4, <1>5, <2>1, <2>2
<1> QED
  BY <1>3, <1>6, <1>7

\* The list changes in place and keeps its IDs.
LEMMA SameIdsSound ==
  ASSUME Sound(list), created' = created, DOMAIN list' = DOMAIN list,
         \A i \in DOMAIN list : list'[i].id = list[i].id,
         \A s \in Requests : request'[s].op = "inserted" => request'[s] = request[s]
  PROVE  Sound(list)'
BY DEF Sound, Coming

\* An edit of a record changes its name (website.go:770).
LEMMA EditedParts ==
  ASSUME list \in Seq(Cell), NEW i \in DOMAIN list, NEW n \in Names,
         list' = [list EXCEPT ![i].name = n]
  PROVE  /\ DOMAIN list' = DOMAIN list
         /\ \A j \in DOMAIN list : /\ list'[j].id = list[j].id
                                   /\ list'[j].connected = list[j].connected
                                   /\ list'[j].name = IF j = i THEN n ELSE list[j].name
<1> DEFINE d == [list[i] EXCEPT !.name = n]
<1>1. list[i] \in Cell
  BY CellParts
<1>2. d.id = list[i].id /\ d.connected = list[i].connected /\ d.name = n
  BY <1>1 DEF Cell
<1>3. list' = [list EXCEPT ![i] = d]
  OBVIOUS
<1> HIDE DEF d
<1>4. DOMAIN list' = DOMAIN list /\ \A j \in DOMAIN list : list'[j] = IF j = i THEN d ELSE list[j]
  BY <1>3
<1> QED
  BY <1>2, <1>4

LEMMA FlaggedParts ==
  ASSUME list \in Seq(Cell), NEW i \in DOMAIN list, NEW b \in BOOLEAN,
         list' = [list EXCEPT ![i].connected = b]
  PROVE  /\ DOMAIN list' = DOMAIN list
         /\ \A j \in DOMAIN list : /\ list'[j].id = list[j].id
                                   /\ list'[j].name = list[j].name
                                   /\ j # i => list'[j].connected = list[j].connected
         /\ list'[i].connected = b
<1> DEFINE d == [list[i] EXCEPT !.connected = b]
<1>1. list[i] \in Cell
  BY CellParts
<1>2. d.id = list[i].id /\ d.name = list[i].name /\ d.connected = b
  BY <1>1 DEF Cell
<1>3. list' = [list EXCEPT ![i] = d]
  OBVIOUS
<1> HIDE DEF d
<1>4. DOMAIN list' = DOMAIN list /\ \A j \in DOMAIN list : list'[j] = IF j = i THEN d ELSE list[j]
  BY <1>3
<1> QED
  BY <1>2, <1>4

\* A game server connects (backend.go:477-503).
LEMMA ConnectEffect ==
  ASSUME KeepInv, NEW i \in DOMAIN list, Connect(i)
  PROVE  /\ DOMAIN list' = DOMAIN list
         /\ \A j \in DOMAIN list : /\ list'[j].id = list[j].id
                                   /\ list'[j].name = list[j].name
                                   /\ j # i => list'[j].connected = list[j].connected
         /\ list'[i].connected /\ list[i].id \in Ids
         /\ Serving' = Serving \cup {list[i].id}
         /\ \A k \in Ids : handler'[k] \in Old => handler'[k] = handler[k] /\ k # list[i].id
<1> DEFINE me == list[i].id
           p == [in |-> "list", at |-> i]
<1>1. list \in Seq(Cell) /\ handler \in [Ids -> Pointer] /\ me \in Ids
  BY CellParts DEF KeepInv, Types
<1>2. handler' = [handler EXCEPT ![me] = p] /\ list' = [list EXCEPT ![i].connected = TRUE]
  BY DEF Connect
<1>3. p # Nowhere /\ p \notin Old
  BY DEF Nowhere, Old
<1> HIDE DEF p, me
<1>4. \A k \in Ids : handler'[k] = IF k = me THEN p ELSE handler[k]
  BY <1>1, <1>2
<1>5. Serving' = Serving \cup {me}
  BY <1>1, <1>3, <1>4 DEF Serving
<1>6. \A k \in Ids : handler'[k] \in Old => handler'[k] = handler[k] /\ k # me
  BY <1>3, <1>4
<1> QED
  BY <1>1, <1>2, <1>5, <1>6, FlaggedParts DEF me

\* A handler ends (backend.go:619-621).
LEMMA DisconnectEffect ==
  ASSUME KeepInv, NEW i \in Ids, Disconnect(i)
  PROVE  /\ DOMAIN list' = DOMAIN list
         /\ \A j \in DOMAIN list : /\ list'[j].id = list[j].id
                                   /\ list'[j].name = list[j].name
         /\ Serving' = Serving \ {i} /\ i \in Serving
         /\ \A k \in Ids : handler'[k] \in Old => handler'[k] = handler[k]
         /\ \/ /\ handler[i] \in Old /\ list' = list
            \/ \E at \in DOMAIN list :
                 /\ list[at].id = i /\ list'[at].connected = FALSE
                 /\ \A j \in DOMAIN list \ {at} : list'[j].connected = list[j].connected
<1>1. list \in Seq(Cell) /\ handler \in [Ids -> Pointer]
  BY DEF KeepInv, Types
<1>2. /\ handler[i] # Nowhere /\ list' = Cleared(handler[i])
      /\ handler' = [handler EXCEPT ![i] = Nowhere]
  BY DEF Disconnect
<1>3. \A k \in Ids : handler'[k] = IF k = i THEN Nowhere ELSE handler[k]
  BY <1>1, <1>2
<1>4. Serving' = Serving \ {i} /\ i \in Serving
  BY <1>2, <1>3 DEF Serving
<1>5. \A k \in Ids : handler'[k] \in Old => handler'[k] = handler[k]
  BY <1>3 DEF Old, Nowhere
<1>6. CASE handler[i] \in Listed
  <2> DEFINE at == handler[i].at
  <2>1. at \in DOMAIN list /\ list[at].id = i
    BY <1>4, <1>6 DEF KeepInv, HandlerKeepsFrontend, Record
  <2>2. list' = [list EXCEPT ![at].connected = FALSE]
    BY <1>2, <1>6 DEF Cleared
  <2> HIDE DEF at
  <2>3. /\ DOMAIN list' = DOMAIN list
        /\ \A j \in DOMAIN list : /\ list'[j].id = list[j].id
                                  /\ list'[j].name = list[j].name
                                  /\ j # at => list'[j].connected = list[j].connected
        /\ list'[at].connected = FALSE
    BY <1>1, <2>1, <2>2, FlaggedParts
  <2> QED
    BY <1>4, <1>5, <2>1, <2>3
<1>7. CASE handler[i] \notin Listed
  <2>1. list' = list /\ handler[i] \in Old
    BY <1>1, <1>2, <1>7 DEF Cleared, Pointer
  <2> QED
    BY <1>4, <1>5, <2>1
<1> QED
  BY <1>6, <1>7

\* A handler returns in the middle (backend.go:510, 529, 542, 555, 607).
LEMMA AbandonEffect ==
  ASSUME KeepInv, NEW i \in Ids, Abandon(i)
  PROVE  /\ Serving' = Serving \ {i} /\ i \in Serving
         /\ \A k \in Ids : handler'[k] \in Old => handler'[k] = handler[k]
<1>1. handler \in [Ids -> Pointer]
  BY DEF KeepInv, Types
<1>2. handler[i] # Nowhere /\ handler' = [handler EXCEPT ![i] = Nowhere]
  BY DEF Abandon
<1>3. \A k \in Ids : handler'[k] = IF k = i THEN Nowhere ELSE handler[k]
  BY <1>1, <1>2
<1> QED
  BY <1>2, <1>3 DEF Serving, Old, Nowhere

LEMMA NextOnce == KeepInv /\ OnceInv /\ [Next]_vars => OnceInv'
<1> SUFFICES ASSUME KeepInv, OnceInv, [Next]_vars PROVE OnceInv'
  OBVIOUS
<1>0. /\ request \in [Requests -> Request] /\ list \in Seq(Cell) /\ created \in Nat
      /\ DOMAIN rows \subseteq Ids /\ rows \in [DOMAIN rows -> Names]
  BY IdsAssumption DEF KeepInv, Types
<1>s. \A i \in Serving : i \in 1..created /\ ~Coming(i)
  BY DEF OnceInv, Coming
<1>1. ASSUME NEW r \in Requests, NEW n \in Names, InsertRow(r, n)
      PROVE  OnceInv'
  <2> DEFINE new == created + 1
             q == [op |-> "inserted", id |-> new, name |-> n]
  <2>1. created' = new /\ DOMAIN rows' = DOMAIN rows \cup {new}
        /\ list' = list /\ handler' = handler /\ Begins(r, q, Alike(rows'))
    BY <1>1 DEF InsertRow, NewId, slice
  <2>2. /\ request[r] = Idle /\ request'[r] = q
        /\ \A s \in Requests \ {r} : request'[s] = request[s]
    BY <1>0, <2>1, Begun
  <2>3. 1..created \subseteq 1..new /\ new \in 1..new /\ new \notin 1..created
    BY <1>0
  <2>4. q.op = "inserted" /\ q.id = new
    OBVIOUS
  <2>5. Serving' = Serving
    BY <2>1 DEF Serving
  <2> HIDE DEF new, q
  <2>6. \A s \in Requests : request'[s].op = "inserted" =>
          \/ s = r /\ request'[s].id = new
          \/ s # r /\ request'[s] = request[s] /\ request[s].id \in 1..created
    BY <2>2, <2>4 DEF OnceInv
  <2>7. ASSUME NEW cells, Sound(cells)
        PROVE  /\ \A i, j \in DOMAIN cells : cells[i].id = cells[j].id => i = j
               /\ \A i \in DOMAIN cells :
                    /\ cells[i].id \in 1..created'
                    /\ ~\E s \in Requests :
                          request'[s].op = "inserted" /\ request'[s].id = cells[i].id
    BY <2>1, <2>3, <2>6, <2>7 DEF Sound, Coming
  <2>8. Sound(list)'
    BY <2>1, <2>7 DEF OnceInv, Sound, Coming
  <2>9. ASSUME NEW s \in Requests, request'[s].op = "copied"
        PROVE  Sound(request[s].list)'
    <3>1. request'[s] = request[s]
      BY <2>2, <2>4, <2>9
    <3>2. Sound(request'[s].list)
      BY <2>9, <3>1 DEF OnceInv
    <3> DEFINE cells == request'[s].list
    <3>3. Sound(cells)
      BY <3>2
    <3> HIDE DEF cells
    <3>4. /\ \A i, j \in DOMAIN cells : cells[i].id = cells[j].id => i = j
          /\ \A i \in DOMAIN cells :
               /\ cells[i].id \in 1..created'
               /\ ~\E t \in Requests :
                     request'[t].op = "inserted" /\ request'[t].id = cells[i].id
      BY <2>7, <3>3
    <3> QED
      BY <3>4 DEF cells, Sound, Coming
  <2>10. ASSUME NEW s \in Requests, request'[s].op = "inserted"
         PROVE  /\ request'[s].id \in 1..created' /\ request'[s].id \notin Serving'
                /\ \A t \in Requests :
                     request'[t].op = "inserted" /\ request'[t].id = request'[s].id => t = s
    BY <2>1, <2>3, <2>5, <2>6, <2>10 DEF OnceInv
  <2> QED
    BY <2>1, <2>3, <2>5, <2>8, <2>9, <2>10 DEF OnceInv
<1>2. ASSUME NEW r \in Requests, AppendFrontend(r)
      PROVE  OnceInv'
  <2> DEFINE new == Len(list) + 1
             id == request[r].id
  <2>0. /\ rows' = rows /\ created' = created /\ request[r].op = "inserted" /\ Done(r)
        /\ Serving' = Serving
    BY <1>2, AppendEffect
  <2>1. /\ DOMAIN list' = DOMAIN list \cup {new}
        /\ list'[new].id = id
        /\ \A i \in DOMAIN list : list'[i] = list[i]
    BY <1>2, AppendEffect
  <2> HIDE DEF new
  <2>2. \A s \in Requests : request'[s].op = "inserted" => s # r /\ request'[s] = request[s]
    BY <2>0 DEF Done, Idle
  <2>3. \A s \in Requests : request'[s].op = "copied" => s # r /\ request'[s] = request[s]
    BY <2>0 DEF Done, Idle
  <2>4. id \in 1..created /\ \A s \in Requests \ {r} : request[s].op = "inserted" => request[s].id # id
    BY <2>0 DEF OnceInv
  <2>5. \A i \in DOMAIN list : list[i].id # id
    BY <2>0 DEF OnceInv, Sound, Coming
  <2>6. Sound(list)'
    <3>1. \A i, j \in DOMAIN list' : list'[i].id = list'[j].id => i = j
      BY <2>1, <2>5 DEF OnceInv, Sound
    <3>2. ASSUME NEW i \in DOMAIN list' PROVE list'[i].id \in 1..created' /\ ~Coming(list[i].id)'
      <4>1. CASE i = new
        BY <2>0, <2>1, <2>2, <2>4, <4>1 DEF Coming
      <4>2. CASE i \in DOMAIN list
        BY <2>0, <2>1, <2>2, <4>2 DEF OnceInv, Sound, Coming
      <4> QED
        BY <2>1, <4>1, <4>2
    <3> QED
      BY <3>1, <3>2 DEF Sound
  <2>7. \A i \in Serving' : i \in 1..created /\ ~\E s \in Requests :
          request'[s].op = "inserted" /\ request'[s].id = i
    BY <1>s, <2>0, <2>2 DEF Coming
  <2> QED
    BY <2>0, <2>2, <2>3, <2>6, <2>7, OnceStands
<1>3. ASSUME NEW r \in Requests, NEW i \in DOMAIN list, DeleteRow(r, i)
      PROVE  OnceInv'
  <2> DEFINE q == [op |-> "unlisted", name |-> list[i].name]
  <2>1. created' = created /\ DOMAIN rows' \subseteq DOMAIN rows
        /\ list' = list /\ handler' = handler /\ Begins(r, q, FALSE)
    BY <1>3 DEF DeleteRow, slice
  <2>2. \A s \in Requests : request'[s] = request[s] \/ request'[s] = q
    BY <1>0, <2>1, Begun
  <2>3. q.op = "unlisted"
    OBVIOUS
  <2> HIDE DEF q
  <2>4. \A s \in Requests : request'[s].op \in {"inserted", "copied"} => request'[s] = request[s]
    BY <2>2, <2>3
  <2>5. Sound(list)'
    BY <2>1, <2>4, SameIdsSound DEF OnceInv
  <2>6. \A j \in Serving' : j \in 1..created /\ ~\E s \in Requests :
          request'[s].op = "inserted" /\ request'[s].id = j
    BY <1>s, <2>1, <2>4 DEF Coming, Serving
  <2> QED
    BY <2>1, <2>4, <2>5, <2>6, OnceStands
<1>4. ASSUME NEW r \in Requests, CopyOthers(r)
      PROVE  OnceInv'
  <2>1. PICK cells \in Others(request[r].name) :
          request' = [request EXCEPT ![r] = [op |-> "copied", list |-> cells]]
    BY <1>4 DEF CopyOthers
  <2>2. rows' = rows /\ created' = created /\ list' = list /\ handler' = handler
    BY <1>4 DEF CopyOthers, slice
  <2>3. /\ request'[r].op = "copied" /\ request'[r].list = cells
        /\ \A s \in Requests \ {r} : request'[s] = request[s]
    BY <1>0, <2>1
  <2>4. Sound(cells)
    BY <1>0, OthersParts DEF OnceInv, Sound
  <2>5. \A s \in Requests : request'[s].op = "inserted" => request'[s] = request[s]
    BY <2>3
  <2>6. Sound(list)'
    BY <2>2, <2>5, SameIdsSound DEF OnceInv
  <2>7. \A j \in Serving' : j \in 1..created /\ ~\E s \in Requests :
          request'[s].op = "inserted" /\ request'[s].id = j
    BY <1>s, <2>2, <2>5 DEF Coming, Serving
  <2> QED
    BY <2>2, <2>3, <2>4, <2>5, <2>6, <2>7, OnceStands
<1>5. ASSUME NEW r \in Requests, ReplaceList(r)
      PROVE  OnceInv'
  <2>1. /\ request[r].op = "copied" /\ NewArray(r, request[r].list)
        /\ rows' = rows /\ created' = created
    BY <1>5 DEF ReplaceList, Replaces
  <2>2. Done(r) /\ list' = request[r].list /\ Serving' = Serving
    BY <2>1, NewArrayDone
  <2>3. \A s \in Requests : request'[s].op \in {"inserted", "copied"} => request'[s] = request[s]
    BY <2>2 DEF Done, Idle
  <2>4. Sound(list)'
    <3>1. Sound(list')
      BY <2>1, <2>2 DEF OnceInv
    <3> QED
      BY <2>1, <2>3, <3>1 DEF Sound, Coming
  <2>5. \A j \in Serving' : j \in 1..created /\ ~\E s \in Requests :
          request'[s].op = "inserted" /\ request'[s].id = j
    BY <1>s, <2>2, <2>3 DEF Coming
  <2> QED
    BY <2>1, <2>3, <2>4, <2>5, OnceStands
<1>6. ASSUME NEW r \in Requests, NEW i \in DOMAIN list, NEW n \in Names, EditRecord(r, i, n)
      PROVE  OnceInv'
  <2> DEFINE q == [op |-> "edited", at |-> i]
  <2>1. PICK twice : Begins(r, q, twice)
    BY <1>6 DEF EditRecord
  <2>2. rows' = rows /\ created' = created /\ handler' = handler
    BY <1>6 DEF EditRecord
  <2>3. q.op = "edited"
    OBVIOUS
  <2>4. \A s \in Requests : request'[s] = request[s] \/ request'[s] = q
    BY <1>0, <2>1, Begun
  <2>5. DOMAIN list' = DOMAIN list /\ \A j \in DOMAIN list : list'[j].id = list[j].id
    BY <1>0, <1>6, EditedParts DEF EditRecord
  <2> HIDE DEF q
  <2>6. \A s \in Requests : request'[s].op \in {"inserted", "copied"} => request'[s] = request[s]
    BY <2>3, <2>4
  <2>7. Sound(list)'
    BY <2>2, <2>5, <2>6, SameIdsSound DEF OnceInv
  <2>8. \A j \in Serving' : j \in 1..created /\ ~\E s \in Requests :
          request'[s].op = "inserted" /\ request'[s].id = j
    BY <1>s, <2>2, <2>6 DEF Coming, Serving
  <2> QED
    BY <2>2, <2>6, <2>7, <2>8, OnceStands
<1>7. ASSUME NEW r \in Requests, EditRow(r)
      PROVE  OnceInv'
  <2>1. /\ request' = [request EXCEPT ![r] = Idle]
        /\ list' = list /\ handler' = handler /\ created' = created
    BY <1>7 DEF EditRow, slice
  <2>2. DOMAIN rows' = DOMAIN rows
    BY <1>7 DEF EditRow, Updated
  <2>3. \A s \in Requests : request'[s].op \in {"inserted", "copied"} => request'[s] = request[s]
    BY <1>0, <2>1 DEF Idle
  <2>4. Sound(list)'
    BY <2>1, <2>3, SameIdsSound DEF OnceInv
  <2>5. \A j \in Serving' : j \in 1..created /\ ~\E s \in Requests :
          request'[s].op = "inserted" /\ request'[s].id = j
    BY <1>s, <2>1, <2>3 DEF Coming, Serving
  <2> QED
    BY <2>1, <2>2, <2>3, <2>4, <2>5, OnceStands
<1>8. ASSUME NEW i \in DOMAIN list, Connect(i)
      PROVE  OnceInv'
  <2>1. rows' = rows /\ created' = created /\ request' = request
    BY <1>8 DEF Connect
  <2>2. /\ DOMAIN list' = DOMAIN list /\ \A j \in DOMAIN list : list'[j].id = list[j].id
        /\ Serving' = Serving \cup {list[i].id}
    BY <1>8, ConnectEffect
  <2>3. Sound(list)'
    BY <2>1, <2>2, SameIdsSound DEF OnceInv
  <2>4. \A j \in Serving' : j \in 1..created /\ ~\E s \in Requests :
          request'[s].op = "inserted" /\ request'[s].id = j
    BY <1>s, <2>1, <2>2 DEF OnceInv, Sound, Coming
  <2> QED
    BY <2>1, <2>3, <2>4, OnceStands
<1>9. ASSUME NEW i \in Ids, Disconnect(i)
      PROVE  OnceInv'
  <2>1. rows' = rows /\ created' = created /\ request' = request
    BY <1>9 DEF Disconnect
  <2>2. /\ DOMAIN list' = DOMAIN list /\ \A j \in DOMAIN list : list'[j].id = list[j].id
        /\ Serving' = Serving \ {i}
    BY <1>9, DisconnectEffect
  <2>3. Sound(list)'
    BY <2>1, <2>2, SameIdsSound DEF OnceInv
  <2>4. \A j \in Serving' : j \in 1..created /\ ~\E s \in Requests :
          request'[s].op = "inserted" /\ request'[s].id = j
    BY <1>s, <2>1, <2>2 DEF Coming
  <2> QED
    BY <2>1, <2>3, <2>4, OnceStands
<1>10. CASE Restart
  <2>1. /\ list' \in Loaded(rows) /\ rows' = rows /\ created' = created
        /\ request' = [r \in Requests |-> Idle] /\ handler' = [i \in Ids |-> Nowhere]
    BY <1>10 DEF Restart
  <2>2. \A r \in Requests : request'[r].op = "none"
    BY <2>1 DEF Idle
  <2>3. /\ \A i, j \in DOMAIN list' : list'[i].id = list'[j].id => i = j
        /\ \A i \in DOMAIN list' : list'[i].id \in DOMAIN rows
    BY <1>0, <2>1, LoadedParts
  <2>4. Sound(list)'
    BY <2>1, <2>2, <2>3 DEF Sound, Coming, OnceInv
  <2>5. Serving' = {}
    BY <2>1 DEF Serving
  <2> QED
    BY <2>1, <2>2, <2>4, <2>5, OnceStands
<1>11. CASE UNCHANGED vars
  <2>1. UNCHANGED <<rows, created, list, handler, request>>
    BY <1>11 DEF vars, slice
  <2>2. Sound(list)'
    BY <2>1, SameIdsSound DEF OnceInv
  <2>3. \A j \in Serving' : j \in 1..created /\ ~\E s \in Requests :
          request'[s].op = "inserted" /\ request'[s].id = j
    BY <1>s, <2>1 DEF Coming, Serving
  <2> QED
    BY <2>1, <2>2, <2>3, OnceStands
<1>12. ASSUME NEW i \in Ids, Abandon(i)
       PROVE  OnceInv'
  <2>1. rows' = rows /\ created' = created /\ request' = request /\ list' = list
    BY <1>12 DEF Abandon, slice
  <2>2. Serving' = Serving \ {i}
    BY <1>12, AbandonEffect
  <2>3. Sound(list)'
    BY <2>1, SameIdsSound DEF OnceInv
  <2>4. \A j \in Serving' : j \in 1..created /\ ~\E s \in Requests :
          request'[s].op = "inserted" /\ request'[s].id = j
    BY <1>s, <2>1, <2>2 DEF Coming
  <2> QED
    BY <2>1, <2>3, <2>4, OnceStands
<1> QED
  BY <1>1, <1>2, <1>3, <1>4, <1>5, <1>6, <1>7, <1>8, <1>9, <1>10, <1>11, <1>12 DEF Next

\* No frontend is listed twice (RegistryProps!ListedOnce), whatever requests
\* run into each other (backend.go:131-173).
THEOREM ListedOnceCorrect == Spec => []ListedOnce
<1>1. OnceInv => ListedOnce
  BY DEF OnceInv, Sound, ListedOnce
<1> QED
  BY <1>1, InitKeeps, NextKeeps, InitOnce, NextOnce, PTL DEF Spec

-----------------------------------------------------------------------------
(* The flags of the records agree with the handlers.                       *)

\* A frontend whose record was left as it was is not served, and not still to be
\* listed.
LeftInv == left \cap Serving = {} /\ \A i \in left : i \in 1..created /\ ~Coming(i)

\* A step that inserts nothing.
LEMMA LeftStands ==
  ASSUME OnceInv, LeftInv, created' = created,
         left' \subseteq left \cup Serving, left' \cap Serving' = {},
         \A s \in Requests : request'[s].op = "inserted" => request'[s] = request[s]
  PROVE  LeftInv'
BY DEF OnceInv, LeftInv, Coming

\* A request that ends inserts nothing.
LEMMA DoneInserts ==
  ASSUME NEW r \in Requests, Done(r)
  PROVE  \A s \in Requests : request'[s].op = "inserted" => request'[s] = request[s]
BY DEF Done, Idle

LEMMA InitLeft == Init => LeftInv
BY DEF Init, LeftInv

LEMMA NextLeft == KeepInv /\ OnceInv /\ LeftInv /\ [Next]_vars => LeftInv'
<1> SUFFICES ASSUME KeepInv, OnceInv, LeftInv, [Next]_vars PROVE LeftInv'
  OBVIOUS
<1>0. request \in [Requests -> Request] /\ created \in Nat /\ left \cap Serving = {}
  BY IdsAssumption DEF KeepInv, Types, LeftInv
<1>a. ASSUME NEW r \in Requests, NEW what, NEW twice, Begins(r, what, twice),
             what.op # "inserted"
      PROVE  \A s \in Requests : request'[s].op = "inserted" => request'[s] = request[s]
  BY <1>0, <1>a, Begun
<1>1. ASSUME NEW r \in Requests, NEW n \in Names, InsertRow(r, n)
      PROVE  LeftInv'
  <2> DEFINE q == [op |-> "inserted", id |-> created + 1, name |-> n]
  <2>1. /\ created' = created + 1 /\ left' = left /\ handler' = handler
        /\ Begins(r, q, Alike(rows'))
    BY <1>1 DEF InsertRow, NewId
  <2>2. request'[r] = q /\ \A s \in Requests \ {r} : request'[s] = request[s]
    BY <1>0, <2>1, Begun
  <2>3. \A i \in left : i \in 1..created' /\ i # created + 1
    BY <1>0, <2>1 DEF LeftInv
  <2>4. q.id = created + 1
    OBVIOUS
  <2> HIDE DEF q
  <2> QED
    BY <1>0, <2>1, <2>2, <2>3, <2>4 DEF LeftInv, Coming, Serving
<1>2. ASSUME NEW r \in Requests, AppendFrontend(r)
      PROVE  LeftInv'
  <2>1. created' = created /\ left' = left /\ Serving' = Serving /\ Done(r)
    BY <1>2, AppendEffect
  <2> QED
    BY <1>0, <2>1, DoneInserts, LeftStands
<1>3. ASSUME NEW r \in Requests, NEW i \in DOMAIN list, DeleteRow(r, i)
      PROVE  LeftInv'
  <2>1. /\ created' = created /\ left' = left /\ handler' = handler
        /\ Begins(r, [op |-> "unlisted", name |-> list[i].name], FALSE)
    BY <1>3 DEF DeleteRow
  <2>2. \A s \in Requests : request'[s].op = "inserted" => request'[s] = request[s]
    BY <1>a, <2>1
  <2> QED
    BY <1>0, <2>1, <2>2, LeftStands DEF Serving
<1>4. ASSUME NEW r \in Requests, CopyOthers(r)
      PROVE  LeftInv'
  <2>1. created' = created /\ left' = left /\ handler' = handler
    BY <1>4 DEF CopyOthers, history
  <2>2. PICK cells :
          request' = [request EXCEPT ![r] = [op |-> "copied", list |-> cells]]
    BY <1>4 DEF CopyOthers
  <2>3. \A s \in Requests : request'[s].op = "inserted" => request'[s] = request[s]
    BY <1>0, <2>2
  <2> QED
    BY <1>0, <2>1, <2>3, LeftStands DEF Serving
<1>5. ASSUME NEW r \in Requests, ReplaceList(r)
      PROVE  LeftInv'
  <2>1. created' = created /\ NewArray(r, request[r].list)
    BY <1>5 DEF ReplaceList, Replaces
  <2>2. left' = left /\ Serving' = Serving /\ Done(r)
    BY <2>1, NewArrayDone
  <2> QED
    BY <1>0, <2>1, <2>2, DoneInserts, LeftStands
<1>6. ASSUME NEW r \in Requests, NEW i \in DOMAIN list, NEW n \in Names, EditRecord(r, i, n)
      PROVE  LeftInv'
  <2>1. /\ created' = created /\ left' = left /\ handler' = handler
        /\ \E twice : Begins(r, [op |-> "edited", at |-> i], twice)
    BY <1>6 DEF EditRecord
  <2>2. \A s \in Requests : request'[s].op = "inserted" => request'[s] = request[s]
    BY <1>a, <2>1
  <2> QED
    BY <1>0, <2>1, <2>2, LeftStands DEF Serving
<1>7. ASSUME NEW r \in Requests, EditRow(r)
      PROVE  LeftInv'
  <2>1. /\ created' = created /\ left' = left /\ handler' = handler
        /\ request' = [request EXCEPT ![r] = Idle]
    BY <1>7 DEF EditRow
  <2>2. \A s \in Requests : request'[s].op = "inserted" => request'[s] = request[s]
    BY <1>0, <2>1 DEF Idle
  <2> QED
    BY <1>0, <2>1, <2>2, LeftStands DEF Serving
<1>8. ASSUME NEW i \in DOMAIN list, Connect(i)
      PROVE  LeftInv'
  <2>1. created' = created /\ left' = left \ {list[i].id} /\ request' = request
    BY <1>8 DEF Connect
  <2>2. Serving' = Serving \cup {list[i].id}
    BY <1>8, ConnectEffect
  <2> QED
    BY <1>0, <2>1, <2>2, LeftStands
<1>9. ASSUME NEW i \in Ids, Disconnect(i)
      PROVE  LeftInv'
  <2>1. created' = created /\ left' = left /\ request' = request
    BY <1>9 DEF Disconnect, history
  <2>2. Serving' = Serving \ {i}
    BY <1>9, DisconnectEffect
  <2> QED
    BY <1>0, <2>1, <2>2, LeftStands
<1>10. CASE Restart
  BY <1>10 DEF Restart, LeftInv
<1>11. CASE UNCHANGED vars
  BY <1>0, <1>11, LeftStands DEF vars, history, Serving
<1>12. ASSUME NEW i \in Ids, Abandon(i)
       PROVE  LeftInv'
  <2>1. created' = created /\ left' = left \cup {i} /\ request' = request
    BY <1>12 DEF Abandon
  <2>2. Serving' = Serving \ {i} /\ i \in Serving
    BY <1>12, AbandonEffect
  <2> QED
    BY <1>0, <2>1, <2>2, LeftStands
<1> QED
  BY <1>1, <1>2, <1>3, <1>4, <1>5, <1>6, <1>7, <1>8, <1>9, <1>10, <1>11, <1>12 DEF Next

\* A handler whose pointer was left behind is known to have moved.
FlagInv == FlagsAgree /\ \A i \in Ids : handler[i] \in Old => i \in moved

\* A step by which the flags, the IDs and the handlers do not move.
LEMMA FlagsStand ==
  ASSUME FlagInv, handler' = handler, moved' = moved, left' = left, DOMAIN list' = DOMAIN list,
         \A i \in DOMAIN list : /\ list'[i].id = list[i].id
                                /\ list'[i].connected = list[i].connected
  PROVE  FlagInv'
BY DEF FlagInv, FlagsAgree, Serving

\* All that is copied into a new array is known to have moved.
LEMMA NewArrayFlags ==
  ASSUME KeepInv, NEW r \in Requests, NewArray(r, list')
  PROVE  FlagInv'
<1>1. /\ Serving' = Serving /\ left' = left /\ moved \cup Serving \cup left \subseteq moved'
      /\ \A i \in DOMAIN list' : list'[i].connected => list'[i].id \in moved'
  BY NewArrayDone
<1>2. \A i \in Ids : handler'[i] \in Old => i \in Serving'
  BY DEF Old, Nowhere, Serving
<1> QED
  BY <1>1, <1>2 DEF FlagInv, FlagsAgree

\* After a start nobody is connected.
LEMMA StartFlags ==
  ASSUME NEW table, DOMAIN table \subseteq Ids, table \in [DOMAIN table -> Names],
         list \in Loaded(table), handler = [i \in Ids |-> Nowhere], left = {}
  PROVE  FlagInv
<1>1. \A i \in DOMAIN list : ~list[i].connected
  BY LoadedParts
<1>2. Serving = {} /\ \A i \in Ids : handler[i] \notin Old
  BY DEF Serving, Old, Nowhere
<1> QED
  BY <1>1, <1>2 DEF FlagInv, FlagsAgree

LEMMA InitFlags == Init => FlagInv
<1> SUFFICES ASSUME Init PROVE FlagInv
  OBVIOUS
<1>1. /\ DOMAIN rows = 1..AtStart /\ rows \in [DOMAIN rows -> Names]
      /\ list \in Loaded(rows) /\ handler = [i \in Ids |-> Nowhere] /\ left = {}
  BY DEF Init
<1>2. DOMAIN rows \subseteq Ids
  BY <1>1, IdsAssumption DEF Ids
<1> QED
  BY <1>1, <1>2, StartFlags

LEMMA NextFlags == KeepInv /\ OnceInv /\ LeftInv /\ FlagInv /\ [Next]_vars => FlagInv'
<1> SUFFICES ASSUME KeepInv, OnceInv, LeftInv, FlagInv, [Next]_vars PROVE FlagInv'
  OBVIOUS
<1>0. /\ list \in Seq(Cell) /\ DOMAIN rows \subseteq Ids /\ rows \in [DOMAIN rows -> Names]
  BY DEF KeepInv, Types
<1>d. \A i, j \in DOMAIN list : list[i].id = list[j].id => i = j
  BY DEF OnceInv, Sound
<1>1. ASSUME NEW r \in Requests, NEW n \in Names, InsertRow(r, n)
      PROVE  FlagInv'
  BY <1>1, FlagsStand DEF InsertRow, slice
<1>2. ASSUME NEW r \in Requests, AppendFrontend(r)
      PROVE  FlagInv'
  <2> DEFINE new == Len(list) + 1
  <2>1. request[r].op = "inserted" /\ Serving' = Serving
        /\ ((handler' = handler /\ moved' = moved) \/ NewArray(r, list')) /\ left' = left
    BY <1>2, AppendEffect
  <2>2. /\ DOMAIN list' = DOMAIN list \cup {new}
        /\ list'[new].id = request[r].id /\ list'[new].connected = FALSE
        /\ \A i \in DOMAIN list : list'[i] = list[i]
    BY <1>2, AppendEffect
  <2> HIDE DEF new
  <2>3. request[r].id \notin Serving /\ request[r].id \notin left
    BY <2>1 DEF OnceInv, LeftInv, Coming
  <2>4. CASE handler' = handler /\ moved' = moved
    BY <2>1, <2>2, <2>3, <2>4 DEF FlagInv, FlagsAgree
  <2>5. CASE NewArray(r, list')
    BY <2>5, NewArrayFlags
  <2> QED
    BY <2>1, <2>4, <2>5
<1>3. ASSUME NEW r \in Requests, NEW i \in DOMAIN list, DeleteRow(r, i)
      PROVE  FlagInv'
  BY <1>3, FlagsStand DEF DeleteRow, slice
<1>4. ASSUME NEW r \in Requests, CopyOthers(r)
      PROVE  FlagInv'
  BY <1>4, FlagsStand DEF CopyOthers, slice, history
<1>5. ASSUME NEW r \in Requests, ReplaceList(r)
      PROVE  FlagInv'
  <2>1. NewArray(r, request[r].list)
    BY <1>5 DEF ReplaceList, Replaces
  <2>2. list' = request[r].list
    BY <2>1 DEF NewArray
  <2>3. NewArray(r, list')
    BY <2>1, <2>2
  <2> QED
    BY <2>3, NewArrayFlags
<1>6. ASSUME NEW r \in Requests, NEW i \in DOMAIN list, NEW n \in Names, EditRecord(r, i, n)
      PROVE  FlagInv'
  <2>1. /\ handler' = handler /\ moved' = moved /\ left' = left
        /\ list' = [list EXCEPT ![i].name = n]
    BY <1>6 DEF EditRecord
  <2>2. /\ DOMAIN list' = DOMAIN list
        /\ \A j \in DOMAIN list : /\ list'[j].id = list[j].id
                                  /\ list'[j].connected = list[j].connected
    BY <1>0, <2>1, EditedParts
  <2> QED
    BY <2>1, <2>2, FlagsStand
<1>7. ASSUME NEW r \in Requests, EditRow(r)
      PROVE  FlagInv'
  BY <1>7, FlagsStand DEF EditRow, slice
<1>8. ASSUME NEW i \in DOMAIN list, Connect(i)
      PROVE  FlagInv'
  <2>1. moved' = moved \ {list[i].id} /\ left' = left \ {list[i].id}
    BY <1>8 DEF Connect
  <2>2. /\ DOMAIN list' = DOMAIN list
        /\ \A j \in DOMAIN list : /\ list'[j].id = list[j].id
                                  /\ j # i => list'[j].connected = list[j].connected
    BY <1>8, ConnectEffect
  <2>3. /\ list'[i].connected /\ Serving' = Serving \cup {list[i].id}
        /\ \A k \in Ids : handler'[k] \in Old => handler'[k] = handler[k] /\ k # list[i].id
    BY <1>8, ConnectEffect
  <2>4. FlagsAgree'
    BY <1>d, <2>1, <2>2, <2>3 DEF FlagInv, FlagsAgree
  <2> QED
    BY <2>1, <2>3, <2>4 DEF FlagInv
<1>9. ASSUME NEW i \in Ids, Disconnect(i)
      PROVE  FlagInv'
  <2>1. moved' = moved /\ left' = left /\ i \notin left
    BY <1>9 DEF Disconnect, history, LeftInv, Serving
  <2>2. /\ DOMAIN list' = DOMAIN list
        /\ \A j \in DOMAIN list : list'[j].id = list[j].id
        /\ Serving' = Serving \ {i}
    BY <1>9, DisconnectEffect
  <2>3. \A k \in Ids : handler'[k] \in Old => handler'[k] = handler[k]
    BY <1>9, DisconnectEffect
  <2>4. \/ /\ handler[i] \in Old /\ list' = list
        \/ \E at \in DOMAIN list :
             /\ list[at].id = i /\ list'[at].connected = FALSE
             /\ \A j \in DOMAIN list \ {at} : list'[j].connected = list[j].connected
    BY <1>9, DisconnectEffect
  <2>5. ASSUME handler[i] \in Old, list' = list PROVE FlagsAgree'
    BY <2>1, <2>2, <2>5 DEF FlagInv, FlagsAgree
  <2>6. ASSUME NEW at \in DOMAIN list, list[at].id = i, list'[at].connected = FALSE,
               \A j \in DOMAIN list \ {at} : list'[j].connected = list[j].connected
        PROVE  FlagsAgree'
    BY <1>d, <2>1, <2>2, <2>6 DEF FlagInv, FlagsAgree
  <2>7. FlagsAgree'
    BY <2>4, <2>5, <2>6 DEF FlagInv
  <2> QED
    BY <2>1, <2>3, <2>7 DEF FlagInv
<1>10. CASE Restart
  <2>1. list' \in Loaded(rows) /\ handler' = [i \in Ids |-> Nowhere] /\ left' = {}
    BY <1>10 DEF Restart
  <2>2. \A i \in DOMAIN list' : ~list'[i].connected
    BY <1>0, <2>1, LoadedParts
  <2>3. Serving' = {} /\ \A i \in Ids : handler'[i] \notin Old
    BY <2>1 DEF Serving, Old, Nowhere
  <2> QED
    BY <2>1, <2>2, <2>3 DEF FlagInv, FlagsAgree
<1>11. CASE UNCHANGED vars
  BY <1>11, FlagsStand DEF vars, slice, history
<1>12. ASSUME NEW i \in Ids, Abandon(i)
       PROVE  FlagInv'
  <2>1. moved' = moved /\ list' = list /\ left' = left \cup {i}
    BY <1>12 DEF Abandon, slice
  <2>2. /\ Serving' = Serving \ {i} /\ i \in Serving
        /\ \A k \in Ids : handler'[k] \in Old => handler'[k] = handler[k]
    BY <1>12, AbandonEffect
  <2>3. (Serving \cup left)' = Serving \cup left
    BY <2>1, <2>2
  <2>4. FlagsAgree'
    BY <2>1, <2>3 DEF FlagInv, FlagsAgree
  <2> QED
    BY <2>1, <2>2, <2>4 DEF FlagInv
<1> QED
  BY <1>1, <1>2, <1>3, <1>4, <1>5, <1>6, <1>7, <1>8, <1>9, <1>10, <1>11, <1>12 DEF Next

\* A record shows its frontend as connected just when a handler serves it or has
\* returned in the middle, unless it was copied meanwhile
\* (RegistryProps!FlagsAgree; backend.go:502, 510, 529, 542, 555, 607, 619-621).
THEOREM FlagsAgreeCorrect == Spec => []FlagsAgree
<1>1. FlagInv => FlagsAgree
  BY DEF FlagInv
<1> QED
  BY <1>1, InitKeeps, NextKeeps, InitOnce, NextOnce, InitLeft, NextLeft,
     InitFlags, NextFlags, PTL DEF Spec

-----------------------------------------------------------------------------
(* Between requests list and table agree.                                  *)

\* A table has the records at the places S of a list, and no others.
Agree(table, cells, S) ==
  /\ \A i \in S : cells[i].id \in DOMAIN table /\ table[cells[i].id] = cells[i].name
  /\ \A j \in DOMAIN table : \E i \in S : cells[i].id = j

\* How list and table differ while a request q is at work alone.
InsertedOnly(q) ==
  /\ q.id \in DOMAIN rows /\ rows[q.id] = q.name
  /\ \A i \in DOMAIN list : list[i].id \in DOMAIN rows /\ rows[list[i].id] = list[i].name
  /\ \A j \in DOMAIN rows \ {q.id} : \E i \in DOMAIN list : list[i].id = j

EditedOnly(q) ==
  /\ \A i \in DOMAIN list : list[i].id \in DOMAIN rows
  /\ \A i \in DOMAIN list \ {q.at} : /\ rows[list[i].id] = list[i].name
                                     /\ list[i].name # list[q.at].name
  /\ \A j \in DOMAIN rows : \E i \in DOMAIN list : list[i].id = j

Midway(q) ==
  /\ q.op = "inserted" => InsertedOnly(q)
  /\ q.op = "unlisted" => Agree(rows, list, {i \in DOMAIN list : list[i].name # q.name})
  /\ q.op = "copied" => Agree(rows, q.list, DOMAIN q.list)
  /\ q.op = "edited" => EditedOnly(q)
  /\ q.op # "editedOld"

MatchInv ==
  ~marred =>
    /\ ~Alike(rows)
    /\ Quiet => Agree(rows, list, DOMAIN list)
    /\ \A r, s \in Requests : request[r] # Idle /\ request[s] # Idle => r = s
    /\ \A r \in Requests : Midway(request[r])

\* A request that begins and mars nothing is alone.
LEMMA BeginsAlone ==
  ASSUME KeepInv, MatchInv, NEW r \in Requests, NEW what, NEW twice,
         Begins(r, what, twice), ~marred'
  PROVE  /\ ~marred /\ ~twice /\ ~Alike(rows) /\ Agree(rows, list, DOMAIN list)
         /\ request'[r] = what
         /\ \A s \in Requests \ {r} : request'[s] = Idle
<1>1. /\ request[r] = Idle /\ request'[r] = what
      /\ \A s \in Requests \ {r} : request'[s] = request[s]
  BY Begun DEF KeepInv, Types
<1>2. ~marred /\ ~twice /\ \A q \in Requests : request[q] = Idle
  BY DEF Begins
<1>3. Quiet
  BY <1>2 DEF Quiet
<1> QED
  BY <1>1, <1>2, <1>3 DEF MatchInv

\* What one request at work leaves agrees with MatchInv.
LEMMA AloneMatches ==
  ASSUME NEW r \in Requests, request'[r].op # "none",
         \A s \in Requests \ {r} : request'[s] = Idle,
         ~Alike(rows)', Midway(request[r])'
  PROVE  MatchInv'
<1>1. request'[r] # Idle
  BY DEF Idle
<1>2. \A s \in Requests \ {r} : request'[s].op = "none"
  BY DEF Idle
<1>3. \A s \in Requests : Midway(request[s])'
  BY <1>2 DEF Midway
<1>4. ~Quiet'
  BY <1>1 DEF Quiet
<1> QED
  BY <1>1, <1>3, <1>4 DEF MatchInv

LEMMA QuietMatches ==
  ASSUME \A s \in Requests : request'[s] = Idle, ~Alike(rows)',
         Agree(rows, list, DOMAIN list)'
  PROVE  MatchInv'
<1>1. \A s \in Requests : request'[s].op = "none"
  BY DEF Idle
<1>2. \A s \in Requests : Midway(request[s])'
  BY <1>1 DEF Midway
<1> QED
  BY <1>2 DEF MatchInv

\* A request that goes on, while nothing is marred, is alone.
LEMMA WorksAlone ==
  ASSUME MatchInv, ~marred, NEW r \in Requests, request[r].op # "none"
  PROVE  /\ ~Alike(rows) /\ Midway(request[r])
         /\ \A s \in Requests \ {r} : request[s] = Idle
         /\ Done(r) => \A s \in Requests : request'[s] = Idle
<1>1. request[r] # Idle
  BY DEF Idle
<1>2. \A s \in Requests \ {r} : request[s] = Idle /\ request[s].op = "none"
  BY <1>1 DEF MatchInv, Idle
<1> QED
  BY <1>2 DEF MatchInv, Done

\* Names are as distinct in a list as they are in the table.
LEMMA NamesDiffer ==
  ASSUME NEW cells, Agree(rows, cells, DOMAIN cells), ~Alike(rows),
         \A i, j \in DOMAIN cells : cells[i].id = cells[j].id => i = j
  PROVE  \A i, j \in DOMAIN cells : cells[i].name = cells[j].name => i = j
BY DEF Agree, Alike

\* Then the first of a name is the one.
LEMMA FirstIsIt ==
  ASSUME list \in Seq(Cell), NEW i \in DOMAIN list,
         \A k, j \in DOMAIN list : list[k].name = list[j].name => k = j
  PROVE  First(list[i].name) = i
<1>1. i \in Nat /\ i <= i
  OBVIOUS
<1>2. \A j \in DOMAIN list : list[j].name = list[i].name => i <= j
  BY <1>1
<1> QED
  BY <1>2 DEF First

\* A step by which requests, rows and names do not move.
LEMMA MatchStands ==
  ASSUME MatchInv, marred' = marred, rows' = rows, request' = request,
         DOMAIN list' = DOMAIN list,
         \A i \in DOMAIN list : list'[i].id = list[i].id /\ list'[i].name = list[i].name,
         EditedListed
  PROVE  MatchInv'
<1> SUFFICES ASSUME ~marred PROVE MatchInv'
  BY DEF MatchInv
<1>1. \A i \in DOMAIN list : list'[i].id = list[i].id /\ list'[i].name = list[i].name
  OBVIOUS
<1>2. ASSUME NEW S, S \subseteq DOMAIN list, Agree(rows, list, S)
      PROVE  Agree(rows, list', S)
  BY <1>1, <1>2 DEF Agree
<1>3. Quiet' => Agree(rows, list, DOMAIN list)'
  BY <1>2 DEF MatchInv, Quiet
<1>4. ASSUME NEW r \in Requests PROVE Midway(request[r])'
  <2> DEFINE q == request[r]
  <2>1. Midway(q) /\ q' = q
    BY DEF MatchInv
  <2>2. q.op = "edited" => q.at \in DOMAIN list
    BY DEF EditedListed
  <2> HIDE DEF q
  <2>3. q.op = "inserted" => InsertedOnly(q)'
    BY <1>1, <2>1 DEF Midway, InsertedOnly
  <2>4. q.op = "edited" => EditedOnly(q)'
    BY <1>1, <2>1, <2>2 DEF Midway, EditedOnly
  <2>5. q.op = "unlisted" => Agree(rows, list, {i \in DOMAIN list : list[i].name # q.name})'
    <3> DEFINE S == {i \in DOMAIN list : list[i].name # q.name}
    <3>1. S' = S
      BY <1>1, <2>1
    <3>2. q.op = "unlisted" => Agree(rows, list, S)
      BY <2>1 DEF Midway
    <3>3. S \subseteq DOMAIN list
      OBVIOUS
    <3> HIDE DEF S
    <3>4. q.op = "unlisted" => Agree(rows, list', S)
      BY <1>2, <3>2, <3>3
    <3>5. q.op = "unlisted" => Agree(rows, list, S)'
      BY <3>1, <3>4
    <3> QED
      BY <3>5 DEF S
  <2>6. q.op = "copied" => Agree(rows, q.list, DOMAIN q.list)'
    BY <2>1 DEF Midway
  <2>7. Midway(q)'
    BY <2>1, <2>3, <2>4, <2>5, <2>6 DEF Midway
  <2> QED
    BY <2>7 DEF q
<1> QED
  BY <1>3, <1>4 DEF MatchInv

LEMMA InitMatches == Init => MatchInv
<1> SUFFICES ASSUME Init PROVE MatchInv
  OBVIOUS
<1>1. /\ DOMAIN rows = 1..AtStart /\ rows \in [DOMAIN rows -> Names] /\ ~Alike(rows)
      /\ list \in Loaded(rows) /\ \A r \in Requests : request[r] = Idle
  BY DEF Init
<1>2. DOMAIN rows \subseteq Ids
  BY <1>1, IdsAssumption DEF Ids
<1>3. Agree(rows, list, DOMAIN list)
  <2>0. rows \in [DOMAIN rows -> Names] /\ list \in Loaded(rows)
    BY <1>1
  <2>1. \A i \in DOMAIN list : list[i].id \in DOMAIN rows /\ list[i].name = rows[list[i].id]
    BY <2>0, <1>2, LoadedParts
  <2>2. \A k \in DOMAIN rows : \E i \in DOMAIN list : list[i].id = k
    BY <2>0, <1>2, LoadedParts
  <2> QED
    BY <2>1, <2>2 DEF Agree
<1>4. \A r \in Requests : Midway(request[r])
  BY <1>1 DEF Midway, Idle
<1> QED
  BY <1>1, <1>3, <1>4 DEF MatchInv

LEMMA NextMatches == KeepInv /\ OnceInv /\ MatchInv /\ [Next]_vars => MatchInv'
<1> SUFFICES ASSUME KeepInv, OnceInv, MatchInv, [Next]_vars, ~marred' PROVE MatchInv'
  BY DEF MatchInv
<1>0. /\ list \in Seq(Cell) /\ DOMAIN rows \subseteq Ids /\ rows \in [DOMAIN rows -> Names]
      /\ request \in [Requests -> Request] /\ created \in Nat /\ EditedListed
  BY IdsAssumption DEF KeepInv, Types
<1>d. /\ \A i, j \in DOMAIN list : list[i].id = list[j].id => i = j
      /\ \A i \in DOMAIN list : list[i].id # created + 1
  BY <1>0 DEF OnceInv, Sound
<1>1. ASSUME NEW r \in Requests, NEW n \in Names, InsertRow(r, n)
      PROVE  MatchInv'
  <2> DEFINE new == created + 1
             q == [op |-> "inserted", id |-> new, name |-> n]
  <2>1. /\ rows' = [i \in DOMAIN rows \cup {new} |-> IF i = new THEN n ELSE rows[i]]
        /\ list' = list /\ Begins(r, q, Alike(rows'))
    BY <1>1 DEF InsertRow, NewId, slice
  <2>2. /\ ~Alike(rows)' /\ Agree(rows, list, DOMAIN list) /\ request'[r] = q
        /\ \A s \in Requests \ {r} : request'[s] = Idle
    BY <2>1, BeginsAlone
  <2>3. q.op = "inserted" /\ q.id = new /\ q.name = n
    OBVIOUS
  <2>4. \A i \in DOMAIN list : list[i].id # new
    BY <1>d
  <2> HIDE DEF q, new
  <2>5. /\ DOMAIN rows' = DOMAIN rows \cup {new} /\ rows'[new] = n
        /\ \A i \in DOMAIN rows : i # new => rows'[i] = rows[i]
    BY <2>1
  <2>6. InsertedOnly(request[r])'
    BY <2>1, <2>2, <2>3, <2>4, <2>5 DEF InsertedOnly, Agree
  <2>7. Midway(request[r])'
    BY <2>2, <2>3, <2>6 DEF Midway
  <2> QED
    BY <2>2, <2>3, <2>7, AloneMatches
<1>2. ASSUME NEW r \in Requests, AppendFrontend(r)
      PROVE  MatchInv'
  <2> DEFINE new == Len(list) + 1
  <2>1. rows' = rows /\ marred' = marred /\ request[r].op = "inserted" /\ Done(r)
    BY <1>2, AppendEffect
  <2>2. /\ DOMAIN list' = DOMAIN list \cup {new}
        /\ list'[new].id = request[r].id /\ list'[new].name = request[r].name
        /\ \A i \in DOMAIN list : list'[i] = list[i]
    BY <1>2, AppendEffect
  <2> HIDE DEF new
  <2>3. /\ ~Alike(rows) /\ Midway(request[r])
        /\ \A s \in Requests : request'[s] = Idle
    BY <2>1, WorksAlone
  <2>4. InsertedOnly(request[r])
    BY <2>1, <2>3 DEF Midway
  <2>5. Agree(rows, list, DOMAIN list)'
    BY <2>1, <2>2, <2>4 DEF InsertedOnly, Agree
  <2> QED
    BY <2>1, <2>3, <2>5, QuietMatches
<1>3. ASSUME NEW r \in Requests, NEW i \in DOMAIN list, DeleteRow(r, i)
      PROVE  MatchInv'
  <2> DEFINE q == [op |-> "unlisted", name |-> list[i].name]
             id == list[i].id
  <2>1. list' = list /\ Begins(r, q, FALSE)
        /\ rows' = [j \in DOMAIN rows \ {list[First(list[i].name)].id} |-> rows[j]]
    BY <1>3 DEF DeleteRow, slice
  <2>2. /\ ~Alike(rows) /\ Agree(rows, list, DOMAIN list) /\ request'[r] = q
        /\ \A s \in Requests \ {r} : request'[s] = Idle
    BY <2>1, BeginsAlone
  <2>3. \A k, j \in DOMAIN list : list[k].name = list[j].name => k = j
    BY <1>d, <2>2, NamesDiffer
  <2>4. First(list[i].name) = i
    BY <1>0, <2>3, FirstIsIt
  <2>5. q.op = "unlisted" /\ q.name = list[i].name
    OBVIOUS
  <2> HIDE DEF q
  <2>6. DOMAIN rows' = DOMAIN rows \ {id} /\ \A j \in DOMAIN rows \ {id} : rows'[j] = rows[j]
    BY <2>1, <2>4
  <2>7. ~Alike(rows)'
    BY <2>2, <2>6 DEF Alike
  <2>8. \A k \in DOMAIN list : k # i <=> list[k].id # id
    BY <1>d
  <2>9. {k \in DOMAIN list : list[k].name # q.name} = DOMAIN list \ {i}
    BY <2>3, <2>5
  <2>10. Agree(rows', list, DOMAIN list \ {i})
    BY <2>2, <2>6, <2>8 DEF Agree
  <2>11. Midway(request[r])'
    BY <2>1, <2>2, <2>5, <2>9, <2>10 DEF Midway
  <2> QED
    BY <2>2, <2>5, <2>7, <2>11, AloneMatches
<1>4. ASSUME NEW r \in Requests, CopyOthers(r)
      PROVE  MatchInv'
  <2>1. PICK cells \in Others(request[r].name) :
          request' = [request EXCEPT ![r] = [op |-> "copied", list |-> cells]]
    BY <1>4 DEF CopyOthers
  <2>2. /\ rows' = rows /\ list' = list /\ marred' = marred /\ request[r].op = "unlisted"
    BY <1>4 DEF CopyOthers, slice, history
  <2>3. /\ request'[r].op = "copied" /\ request'[r].list = cells
        /\ \A s \in Requests \ {r} : request'[s] = request[s]
    BY <1>0, <2>1
  <2>4. /\ ~Alike(rows) /\ Midway(request[r]) /\ \A s \in Requests \ {r} : request[s] = Idle
    BY <2>2, WorksAlone
  <2>5. Agree(rows, list, {i \in DOMAIN list : list[i].name # request[r].name})
    BY <2>2, <2>4 DEF Midway
  <2>6. /\ \A i \in DOMAIN cells : \E k \in DOMAIN list :
             list[k].name # request[r].name /\ cells[i] = list[k]
        /\ \A k \in DOMAIN list : list[k].name # request[r].name =>
             \E i \in DOMAIN cells : cells[i] = list[k]
    BY <1>0, OthersParts
  <2>7. Agree(rows, cells, DOMAIN cells)
    BY <2>5, <2>6 DEF Agree
  <2>8. Midway(request[r])'
    BY <2>2, <2>3, <2>7 DEF Midway
  <2> QED
    BY <2>2, <2>3, <2>4, <2>8, AloneMatches
<1>5. ASSUME NEW r \in Requests, ReplaceList(r)
      PROVE  MatchInv'
  <2>1. /\ request[r].op = "copied" /\ NewArray(r, request[r].list)
        /\ rows' = rows /\ marred' = marred
    BY <1>5 DEF ReplaceList, Replaces
  <2>2. Done(r) /\ list' = request[r].list
    BY <2>1, NewArrayDone
  <2>3. /\ ~Alike(rows) /\ Midway(request[r])
        /\ \A s \in Requests : request'[s] = Idle
    BY <2>1, <2>2, WorksAlone
  <2>4. Agree(rows, list, DOMAIN list)'
    BY <2>1, <2>2, <2>3 DEF Midway
  <2> QED
    BY <2>1, <2>3, <2>4, QuietMatches
<1>6. ASSUME NEW r \in Requests, NEW i \in DOMAIN list, NEW n \in Names, EditRecord(r, i, n)
      PROVE  MatchInv'
  <2> DEFINE q == [op |-> "edited", at |-> i]
             twice == \E j \in DOMAIN list \ {i} : list[j].name = n
  <2>1. Begins(r, q, twice) /\ rows' = rows /\ list' = [list EXCEPT ![i].name = n]
    BY <1>6 DEF EditRecord
  <2>2. /\ ~twice /\ ~Alike(rows) /\ Agree(rows, list, DOMAIN list) /\ request'[r] = q
        /\ \A s \in Requests \ {r} : request'[s] = Idle
    BY <2>1, BeginsAlone
  <2>3. q.op = "edited" /\ q.at = i
    OBVIOUS
  <2>4. /\ DOMAIN list' = DOMAIN list
        /\ \A j \in DOMAIN list : /\ list'[j].id = list[j].id
                                  /\ list'[j].name = IF j = i THEN n ELSE list[j].name
    BY <1>0, <2>1, EditedParts
  <2> HIDE DEF q
  <2>5. EditedOnly(request[r])'
    <3>1. \A j \in DOMAIN list : list'[j].id \in DOMAIN rows
      BY <2>2, <2>4 DEF Agree
    <3>2. list'[i].name = n
      BY <2>4
    <3>3. \A j \in DOMAIN list \ {i} : /\ rows[list'[j].id] = list'[j].name
                                       /\ list'[j].name # list'[i].name
      BY <2>2, <2>4, <3>2 DEF Agree
    <3>4. \A k \in DOMAIN rows : \E j \in DOMAIN list : list'[j].id = k
      BY <2>2, <2>4 DEF Agree
    <3>5. rows' = rows /\ DOMAIN list' = DOMAIN list /\ request'[r].at = i
      BY <2>1, <2>2, <2>3, <2>4
    <3> QED
      BY <3>1, <3>3, <3>4, <3>5 DEF EditedOnly
  <2>6. Midway(request[r])'
    BY <2>2, <2>3, <2>5 DEF Midway
  <2> QED
    BY <2>1, <2>2, <2>3, <2>6, AloneMatches
<1>7. ASSUME NEW r \in Requests, EditRow(r)
      PROVE  MatchInv'
  <2> DEFINE q == request[r]
             at == q.at
  <2>1. /\ request' = [request EXCEPT ![r] = Idle] /\ list' = list
        /\ q.op \in {"edited", "editedOld"}
    BY <1>7 DEF EditRow, slice
  <2>2. ~marred
    BY <1>7 DEF EditRow
  <2>3. /\ ~Alike(rows) /\ Midway(q) /\ \A s \in Requests \ {r} : request[s] = Idle
    BY <2>1, <2>2, WorksAlone
  <2>4. q.op = "edited" /\ EditedOnly(q) /\ at \in DOMAIN list
    BY <1>0, <2>1, <2>3 DEF Midway, EditedListed
  <2>5. rows' = Updated(list[at].id, list[at].name)
    BY <1>7, <2>4 DEF EditRow
  <2>6. \A s \in Requests : request'[s] = Idle
    BY <1>0, <2>1, <2>3
  <2> HIDE DEF q, at
  <2>7. /\ DOMAIN rows' = DOMAIN rows
        /\ \A j \in DOMAIN rows :
             rows'[j] = IF j = list[at].id THEN list[at].name ELSE rows[j]
    BY <2>5 DEF Updated
  <2>8. /\ \A i \in DOMAIN list : list[i].id \in DOMAIN rows /\ rows'[list[i].id] = list[i].name
        /\ \A j \in DOMAIN rows : \E i \in DOMAIN list : list[i].id = j
    BY <1>d, <2>4, <2>7 DEF EditedOnly, at
  <2>9. Agree(rows, list, DOMAIN list)'
    BY <2>1, <2>7, <2>8 DEF Agree
  <2>10. \A i \in DOMAIN list \ {at} : list[i].name # list[at].name
    BY <2>4 DEF EditedOnly, at
  <2>11. ASSUME NEW j \in DOMAIN rows, NEW k \in DOMAIN rows, j # k
         PROVE  rows'[j] # rows'[k]
    <3>1. PICK a \in DOMAIN list, b \in DOMAIN list : list[a].id = j /\ list[b].id = k
      BY <2>8
    <3>2. rows'[j] = list[a].name /\ rows'[k] = list[b].name /\ a # b
      BY <2>8, <2>11, <3>1
    <3>3. CASE a = at \/ b = at
      BY <2>10, <3>2, <3>3
    <3>4. CASE a # at /\ b # at
      <4>1. rows'[j] = rows[j] /\ rows'[k] = rows[k]
        BY <1>d, <2>4, <2>7, <3>1, <3>4
      <4> QED
        BY <2>3, <2>11, <4>1 DEF Alike
    <3> QED
      BY <3>3, <3>4
  <2>12. ~Alike(rows)'
    BY <2>7, <2>11 DEF Alike
  <2> QED
    BY <2>6, <2>9, <2>12, QuietMatches
<1>8. ASSUME NEW i \in DOMAIN list, Connect(i)
      PROVE  MatchInv'
  <2>1. rows' = rows /\ marred' = marred /\ request' = request
    BY <1>8 DEF Connect
  <2>2. /\ DOMAIN list' = DOMAIN list
        /\ \A j \in DOMAIN list : list'[j].id = list[j].id /\ list'[j].name = list[j].name
    BY <1>8, ConnectEffect
  <2> QED
    BY <1>0, <2>1, <2>2, MatchStands
<1>9. ASSUME NEW i \in Ids, Disconnect(i)
      PROVE  MatchInv'
  <2>1. rows' = rows /\ marred' = marred /\ request' = request
    BY <1>9 DEF Disconnect, history
  <2>2. /\ DOMAIN list' = DOMAIN list
        /\ \A j \in DOMAIN list : list'[j].id = list[j].id /\ list'[j].name = list[j].name
    BY <1>9, DisconnectEffect
  <2> QED
    BY <1>0, <2>1, <2>2, MatchStands
<1>10. CASE Restart
  <2>1. /\ list' \in Loaded(rows) /\ rows' = rows /\ ~Alike(rows)
        /\ \A r \in Requests : request'[r] = Idle
    BY <1>10 DEF Restart
  <2>2. Agree(rows, list, DOMAIN list)'
    BY <1>0, <2>1, LoadedParts DEF Agree
  <2> QED
    BY <2>1, <2>2, QuietMatches
<1>11. CASE UNCHANGED vars
  BY <1>0, <1>11, MatchStands DEF vars, slice, history
<1>12. ASSUME NEW i \in Ids, Abandon(i)
       PROVE  MatchInv'
  BY <1>0, <1>12, MatchStands DEF Abandon, slice
<1> QED
  BY <1>1, <1>2, <1>3, <1>4, <1>5, <1>6, <1>7, <1>8, <1>9, <1>10, <1>11, <1>12 DEF Next

\* While no request is at work list and table agree, unless requests ran into
\* each other, a name was given twice or an edit was refused
\* (RegistryProps!MatchesTable; backend.go:129-173, website.go:728-774).
THEOREM MatchesTableCorrect == Spec => []MatchesTable
<1>1. MatchInv => MatchesTable
  BY DEF MatchInv, MatchesTable, Agree
<1> QED
  BY <1>1, InitKeeps, NextKeeps, InitOnce, NextOnce, InitMatches, NextMatches, PTL DEF Spec

-----------------------------------------------------------------------------
(* Induction.  The rule of the library takes a predicate; this one takes a *)
(* set.                                                                    *)

LEMMA LeastElement ==
  ASSUME NEW T, T \subseteq Nat, T # {}
  PROVE  \E x \in T : \A y \in T : x <= y
<1> PICK N \in T : TRUE
  OBVIOUS
<1> DEFINE S == 0..N
           U == {Y \in SUBSET S : \E k \in T : k <= N /\ Y = 0..k}
           R == StrictSubsetOrdering(S)
<1>1. IsWellFoundedOn(R, SUBSET S)
  <2>1. IsFiniteSet(S)
    BY FS_Interval
  <2> QED
    BY <2>1, FS_StrictSubsetOrderingWellFounded, FS_FiniteSubsetsOfFinite
<1>2. U \subseteq SUBSET S /\ S \in U
  OBVIOUS
<1>3. PICK x \in U : \A y \in U : ~(<<y, x>> \in R)
  <2> HIDE DEF R, U, S
  <2> QED
    BY <1>1, <1>2, WFMin
<1>4. PICK k \in T : k <= N /\ x = 0..k
  BY <1>3
<1>5. ASSUME NEW y \in T, y < k PROVE FALSE
  <2>1. 0..y \in U
    BY <1>4, <1>5
  <2>2. 0..y \subseteq x /\ 0..y # x /\ x \in SUBSET S
    BY <1>4, <1>5
  <2>3. <<0..y, x>> \in R
    BY <2>1, <2>2, <1>2 DEF StrictSubsetOrdering
  <2> QED
    BY <1>3, <2>1, <2>3
<1>6. \A y \in T : k <= y
  BY <1>5
<1> QED
  BY <1>6

LEMMA Induction ==
  ASSUME NEW N \in Nat, NEW T, 0 \in T, \A n \in 0..(N - 1) : n \in T => n + 1 \in T
  PROVE  \A n \in 0..N : n \in T
<1>1. SUFFICES ASSUME NEW m \in 0..N, m \notin T PROVE FALSE
  OBVIOUS
<1> DEFINE U == (0..N) \ T
<1>2. U \subseteq Nat /\ U # {}
  BY <1>1
<1> HIDE DEF U
<1>3. PICK x \in U : \A y \in U : x <= y
  BY <1>2, LeastElement
<1> USE DEF U
<1>4. x - 1 \in T /\ x - 1 \in 0..(N - 1)
  BY <1>3
<1> QED
  BY <1>3, <1>4

-----------------------------------------------------------------------------
(* The capacity of the array.                                              *)

\* The capacity once there are k records, of an array of capacity c before.
Room(c, k) == IF c < k THEN Grown(c) ELSE c

\* g holds the capacities after the first n appends.
Rooms(g, n) ==
  /\ g \in [0..n -> Nat] /\ g[0] = 0
  /\ \A k \in 1..n : g[k] = Room(g[k - 1], k)
  /\ \A k \in 0..n : g[k] >= k

LEMMA RoomEnough ==
  ASSUME NEW c \in Nat, NEW k \in Nat, c >= k
  PROVE  Room(c, k + 1) \in Nat /\ Room(c, k + 1) >= k + 1
BY DEF Room, Grown

LEMMA RoomsExist ==
  ASSUME NEW N \in Nat
  PROVE  \E g : Rooms(g, N)
<1> DEFINE T == {n \in 0..N : \E g : Rooms(g, n)}
<1>1. 0 \in T
  <2>1. Rooms([k \in 0..0 |-> 0], 0)
    BY DEF Rooms
  <2> QED
    BY <2>1
<1>2. ASSUME NEW n \in 0..(N - 1), n \in T PROVE n + 1 \in T
  <2>1. PICK g : Rooms(g, n)
    BY <1>2
  <2>2. n \in Nat /\ g \in [0..n -> Nat] /\ g[n] \in Nat /\ g[n] >= n
    BY <2>1 DEF Rooms
  <2> DEFINE h == [k \in 0..(n + 1) |-> IF k = n + 1 THEN Room(g[n], n + 1) ELSE g[k]]
  <2>3. Room(g[n], n + 1) \in Nat /\ Room(g[n], n + 1) >= n + 1
    BY <2>2, RoomEnough
  <2>4. h \in [0..(n + 1) -> Nat] /\ h[0] = 0
    BY <2>1, <2>2, <2>3 DEF Rooms
  <2>5. \A k \in 0..(n + 1) : h[k] >= k
    BY <2>1, <2>2, <2>3 DEF Rooms
  <2>6. \A k \in 1..(n + 1) : h[k] = Room(h[k - 1], k)
    <3> SUFFICES ASSUME NEW k \in 1..(n + 1) PROVE h[k] = Room(h[k - 1], k)
      OBVIOUS
    <3>1. CASE k = n + 1
      BY <2>2, <3>1
    <3>2. CASE k # n + 1
      <4>1. k \in 1..n /\ h[k] = g[k] /\ h[k - 1] = g[k - 1]
        BY <2>2, <3>2
      <4> QED
        BY <2>1, <4>1 DEF Rooms
    <3> QED
      BY <3>1, <3>2
  <2> HIDE DEF h
  <2>7. Rooms(h, n + 1)
    BY <2>4, <2>5, <2>6 DEF Rooms
  <2>8. n + 1 \in 0..N
    BY <1>2
  <2> QED
    BY <2>7, <2>8
<1> HIDE DEF T
<1>3. N \in T
  BY <1>1, <1>2, Induction
<1> QED
  BY <1>3 DEF T

LEMMA RoomsAgree ==
  ASSUME NEW n \in Nat, NEW m \in Nat, n <= m, NEW g, Rooms(g, n), NEW h, Rooms(h, m)
  PROVE  \A k \in 0..n : g[k] = h[k]
<1> DEFINE T == {k \in 0..n : g[k] = h[k]}
<1>1. 0 \in T
  BY DEF Rooms
<1>2. ASSUME NEW k \in 0..(n - 1), k \in T PROVE k + 1 \in T
  <2>1. k + 1 \in 1..n /\ k + 1 \in 1..m /\ (k + 1) - 1 = k /\ k + 1 \in 0..n
    BY <1>2
  <2>2. g[k + 1] = Room(g[k], k + 1) /\ h[k + 1] = Room(h[k], k + 1)
    BY <2>1 DEF Rooms
  <2> QED
    BY <1>2, <2>1, <2>2
<1> HIDE DEF T
<1>3. \A k \in 0..n : k \in T
  BY <1>1, <1>2, Induction
<1> QED
  BY <1>3 DEF T

\* However many records an array of the runtime is made for, it has room for
\* them (backend.go:147, 168).
LEMMA CapacityEnough ==
  \A n \in Nat : Capacity[n] \in Nat /\ Capacity[n] >= n
<1> DEFINE Eqn(c) == c = [n \in Nat |->
                            IF n = 0 THEN 0
                            ELSE IF c[n - 1] < n THEN Grown(c[n - 1]) ELSE c[n - 1]]
           G(n) == CHOOSE g : Rooms(g, n)
           F == [n \in Nat |-> G(n)[n]]
           C == CHOOSE c : Eqn(c)
<1>1. \A n \in Nat : Rooms(G(n), n)
  BY RoomsExist
<1>2. \A n \in Nat : F[n] = G(n)[n]
  OBVIOUS
<1> HIDE DEF G
<1>3. \A n \in Nat : n # 0 => F[n] = Room(F[n - 1], n)
  <2> SUFFICES ASSUME NEW n \in Nat, n # 0 PROVE F[n] = Room(F[n - 1], n)
    OBVIOUS
  <2>1. n - 1 \in Nat /\ n - 1 <= n /\ n - 1 \in 0..(n - 1) /\ n \in 1..n
    OBVIOUS
  <2>2. G(n)[n] = Room(G(n)[n - 1], n)
    BY <1>1, <2>1 DEF Rooms
  <2>3. G(n - 1)[n - 1] = G(n)[n - 1]
    BY <1>1, <2>1, RoomsAgree
  <2> QED
    BY <1>2, <2>1, <2>2, <2>3
<1>4. F[0] = 0
  BY <1>1, <1>2 DEF Rooms
<1>5. Eqn(F)
  <2>1. F = [n \in Nat |-> F[n]]
    OBVIOUS
  <2> HIDE DEF F
  <2>2. \A n \in Nat : F[n] = IF n = 0 THEN 0
                            ELSE IF F[n - 1] < n THEN Grown(F[n - 1]) ELSE F[n - 1]
    BY <1>3, <1>4 DEF Room
  <2> QED
    BY <2>1, <2>2
<1>6. Eqn(C)
  <2> HIDE DEF Eqn, F
  <2> QED
    BY <1>5
<1>7. Capacity = C
  BY DEF Capacity
<1> HIDE DEF F, C
<1>8. \A n \in Nat : C[n] = IF n = 0 THEN 0 ELSE Room(C[n - 1], n)
  BY <1>6 DEF Room
<1>9. ASSUME NEW N \in Nat PROVE C[N] \in Nat /\ C[N] >= N
  <2> DEFINE T == {n \in 0..N : C[n] \in Nat /\ C[n] >= n}
  <2>1. 0 \in T
    BY <1>8
  <2>2. ASSUME NEW n \in 0..(N - 1), n \in T PROVE n + 1 \in T
    <3>1. n \in Nat /\ n + 1 \in Nat /\ (n + 1) - 1 = n /\ n + 1 # 0 /\ n + 1 \in 0..N
      BY <2>2
    <3>2. C[n + 1] = Room(C[n], n + 1)
      BY <1>8, <3>1
    <3>3. Room(C[n], n + 1) \in Nat /\ Room(C[n], n + 1) >= n + 1
      BY <2>2, <3>1, RoomEnough
    <3> QED
      BY <3>1, <3>2, <3>3
  <2> HIDE DEF T
  <2>3. N \in T
    BY <2>1, <2>2, Induction
  <2> QED
    BY <2>3 DEF T
<1> QED
  BY <1>7, <1>9

\* A list that is read has one record for each row.
LEMMA LoadedLength ==
  ASSUME NEW table, DOMAIN table \subseteq Ids, NEW l \in Loaded(table)
  PROVE  Cardinality(DOMAIN table) \in Nat /\ Len(l) = Cardinality(DOMAIN table)
<1> DEFINE S == DOMAIN table
<1>1. IsFiniteSet(S)
  <2>1. IsFiniteSet(1..MaxIds)
    <3>1. 1 \in Int /\ MaxIds \in Int
      BY IdsAssumption
    <3> QED
      BY <3>1, FS_Interval
  <2>2. S \subseteq 1..MaxIds
    BY DEF Ids
  <2> QED
    BY <2>1, <2>2, FS_Subset
<1>2. Cardinality(S) \in Nat
  BY <1>1, FS_CardinalityType
<1> DEFINE c(q, i) == [id |-> q[i], name |-> table[q[i]], connected |-> FALSE]
<1>3. PICK q \in Orders(S) : l = [i \in DOMAIN q |-> c(q, i)]
  BY DEF Loaded
<1> HIDE DEF c
<1>4. DOMAIN q = 1..Cardinality(S)
  BY DEF Orders
<1> HIDE DEF S
<1> DEFINE d(i) == c(q, i)
<1>5. l = [i \in 1..Cardinality(S) |-> d(i)]
  BY <1>3, <1>4
<1> HIDE DEF d
<1>6. Len(l) = Cardinality(S)
  BY <1>2, <1>5
<1> QED
  BY <1>2, <1>6 DEF S

\* What is left of the types.
RoomInv == /\ cap \in Nat /\ Len(list) <= cap /\ marred \in BOOLEAN
           /\ moved \subseteq Ids /\ left \subseteq Ids

LEMMA InitRoom == Init => RoomInv
<1> SUFFICES ASSUME Init PROVE RoomInv
  OBVIOUS
<1>1. DOMAIN rows = 1..AtStart /\ DOMAIN rows \subseteq Ids
  BY IdsAssumption DEF Init, Ids
<1>2. Cardinality(1..AtStart) = AtStart
  <2>1. 1 \in Int /\ AtStart \in Int /\ AtStart >= 0
    BY IdsAssumption
  <2>2. Cardinality(1..AtStart) = IF 1 > AtStart THEN 0 ELSE AtStart - 1 + 1
    BY <2>1, FS_Interval
  <2> QED
    BY <2>1, <2>2
<1>3. Len(list) = AtStart
  BY <1>1, <1>2, LoadedLength DEF Init
<1>4. cap \in Nat /\ Len(list) <= cap
  <2>1. cap = Capacity[AtStart] /\ AtStart \in Nat
    BY IdsAssumption DEF Init
  <2>2. Capacity[AtStart] \in Nat /\ Capacity[AtStart] >= AtStart
    BY <2>1, CapacityEnough
  <2> QED
    BY <1>3, <2>1, <2>2
<1>5. marred \in BOOLEAN /\ moved \subseteq Ids /\ left \subseteq Ids
  BY DEF Init
<1> QED
  BY <1>4, <1>5 DEF RoomInv

LEMMA NextRoom == KeepInv /\ RoomInv /\ [Next]_vars => RoomInv'
<1> SUFFICES ASSUME KeepInv, RoomInv, [Next]_vars PROVE RoomInv'
  OBVIOUS
<1>0. /\ list \in Seq(Cell) /\ cap \in Nat /\ Len(list) \in Nat /\ Len(list) <= cap
      /\ moved \subseteq Ids /\ left \subseteq Ids /\ marred \in BOOLEAN
  BY DEF KeepInv, Types, RoomInv
<1>a. ASSUME NEW r \in Requests, NEW what, NEW twice, Begins(r, what, twice)
      PROVE  marred' \in BOOLEAN
  BY <1>a DEF Begins
<1>b. ASSUME NEW r \in Requests, NEW l \in Seq(Cell), SameArray(r, l) \/ NewArray(r, l)
      PROVE  list' = l /\ moved' \subseteq Ids /\ left' \subseteq Ids
  <2>1. CASE SameArray(r, l)
    BY <1>0, <2>1 DEF SameArray
  <2>2. CASE NewArray(r, l)
    <3>1. \A i \in DOMAIN l : l[i].id \in Ids
      <4>1. \A i \in DOMAIN l : l[i] \in Cell
        OBVIOUS
      <4> QED
        BY <4>1 DEF Cell
    <3> QED
      BY <1>0, <2>2, <3>1 DEF NewArray, Moves, Serving
  <2> QED
    BY <1>b, <2>1, <2>2
<1>1. ASSUME NEW r \in Requests, NEW n \in Names, InsertRow(r, n)
      PROVE  RoomInv'
  BY <1>0, <1>1, <1>a DEF InsertRow, slice, RoomInv
<1>2. ASSUME NEW r \in Requests, AppendFrontend(r)
      PROVE  RoomInv'
  <2> DEFINE c == [id |-> request[r].id, name |-> request[r].name, connected |-> FALSE]
             l == Append(list, c)
  <2>1. c \in Cell
    <3>1. request[r] \in Request /\ request[r].op = "inserted"
      BY <1>2 DEF AppendFrontend, KeepInv, Types
    <3> QED
      BY <3>1, RequestParts DEF Cell
  <2>2. marred' = marred
    BY <1>2 DEF AppendFrontend
  <2>3. \/ Len(list) < cap /\ SameArray(r, l) /\ cap' = cap
        \/ ~(Len(list) < cap) /\ NewArray(r, l) /\ cap' = Grown(cap)
    BY <1>2 DEF AppendFrontend
  <2> HIDE DEF c
  <2>4. l \in Seq(Cell) /\ Len(l) = Len(list) + 1
    BY <1>0, <2>1
  <2> HIDE DEF l
  <2>5. list' = l /\ moved' \subseteq Ids /\ left' \subseteq Ids
    BY <1>b, <2>3, <2>4
  <2>6. cap' \in Nat /\ Len(l) <= cap'
    BY <1>0, <2>3, <2>4 DEF Grown
  <2> QED
    BY <1>0, <2>2, <2>5, <2>6 DEF RoomInv
<1>3. ASSUME NEW r \in Requests, NEW i \in DOMAIN list, DeleteRow(r, i)
      PROVE  RoomInv'
  BY <1>0, <1>3, <1>a DEF DeleteRow, slice, RoomInv
<1>4. ASSUME NEW r \in Requests, CopyOthers(r)
      PROVE  RoomInv'
  BY <1>0, <1>4 DEF CopyOthers, slice, history, RoomInv
<1>5. ASSUME NEW r \in Requests, ReplaceList(r)
      PROVE  RoomInv'
  <2> DEFINE l == request[r].list
  <2>1. l \in Seq(Cell)
    <3>1. request[r] \in Request /\ request[r].op = "copied"
      BY <1>5 DEF ReplaceList, KeepInv, Types
    <3> QED
      BY <3>1, RequestParts
  <2>2. NewArray(r, l) /\ cap' = Capacity[Len(l)] /\ marred' = marred
    BY <1>5 DEF ReplaceList, Replaces
  <2> HIDE DEF l
  <2>3. list' = l /\ moved' \subseteq Ids /\ left' \subseteq Ids
    BY <1>b, <2>1, <2>2
  <2>4. Len(l) \in Nat
    BY <2>1
  <2>5. Capacity[Len(l)] \in Nat /\ Capacity[Len(l)] >= Len(l)
    BY <2>4, CapacityEnough
  <2> QED
    BY <1>0, <2>2, <2>3, <2>4, <2>5 DEF RoomInv
<1>6. ASSUME NEW r \in Requests, NEW i \in DOMAIN list, NEW n \in Names, EditRecord(r, i, n)
      PROVE  RoomInv'
  <2>1. /\ list' = [list EXCEPT ![i].name = n] /\ cap' = cap /\ moved' = moved
        /\ marred' \in BOOLEAN /\ left' = left
    BY <1>6, <1>a DEF EditRecord
  <2>2. Len(list') = Len(list)
    BY <1>0, <2>1
  <2> QED
    BY <1>0, <2>1, <2>2 DEF RoomInv
<1>7. ASSUME NEW r \in Requests, EditRow(r)
      PROVE  RoomInv'
  BY <1>0, <1>7 DEF EditRow, slice, RoomInv
<1>8. ASSUME NEW i \in DOMAIN list, Connect(i)
      PROVE  RoomInv'
  <2>1. /\ list' = [list EXCEPT ![i].connected = TRUE] /\ cap' = cap
        /\ moved' \subseteq moved /\ left' \subseteq left /\ marred' = marred
    BY <1>8 DEF Connect
  <2>2. Len(list') = Len(list)
    BY <1>0, <2>1
  <2> QED
    BY <1>0, <2>1, <2>2 DEF RoomInv
<1>9. ASSUME NEW i \in Ids, Disconnect(i)
      PROVE  RoomInv'
  <2>1. /\ list' = Cleared(handler[i]) /\ cap' = cap
        /\ moved' = moved /\ left' = left /\ marred' = marred
    BY <1>9 DEF Disconnect, history
  <2>2. Len(list') = Len(list)
    BY <1>0, <2>1 DEF Cleared
  <2> QED
    BY <1>0, <2>1, <2>2 DEF RoomInv
<1>10. CASE Restart
  <2>1. /\ list' \in Loaded(rows) /\ cap' = Capacity[Cardinality(DOMAIN rows)]
        /\ marred' \in BOOLEAN /\ moved' = {} /\ left' = {}
    BY <1>10 DEF Restart, Alike
  <2>2. Cardinality(DOMAIN rows) \in Nat /\ Len(list') = Cardinality(DOMAIN rows)
    BY <2>1, LoadedLength DEF KeepInv, Types
  <2>3. cap' \in Nat /\ Len(list') <= cap'
    BY <2>1, <2>2, CapacityEnough
  <2> QED
    BY <2>1, <2>3 DEF RoomInv
<1>11. CASE UNCHANGED vars
  BY <1>11 DEF vars, slice, history, RoomInv
<1>12. ASSUME NEW i \in Ids, Abandon(i)
       PROVE  RoomInv'
  BY <1>0, <1>12 DEF Abandon, slice, RoomInv
<1> QED
  BY <1>1, <1>2, <1>3, <1>4, <1>5, <1>6, <1>7, <1>8, <1>9, <1>10, <1>11, <1>12 DEF Next

\* The list, its array, the table, the handlers and the requests keep their
\* types, and the list never outgrows its array (Registry!TypeOK;
\* backend.go:53, 147, 168, 272-290).
THEOREM TypeCorrect == Spec => []TypeOK
<1>1. KeepInv /\ RoomInv => TypeOK
  BY DEF KeepInv, Types, RoomInv, TypeOK
<1> QED
  BY <1>1, InitKeeps, NextKeeps, InitRoom, NextRoom, PTL DEF Spec
=============================================================================
