--------------------------- MODULE RegistryProps ---------------------------
(***************************************************************************)
(* What the list of frontends promises, and what its comments claim.       *)
(***************************************************************************)
EXTENDS Registry

\* A handler never works on the record of another frontend than the one that
\* greeted it, however the list grows, shrinks and is copied (backend.go:147,
\* 164-171, 176-186).
Record(p) == IF p \in Listed THEN list[p.at].id ELSE p.id
HandlerKeepsFrontend ==
  \A i \in Serving : /\ handler[i] \in Listed => handler[i].at \in DOMAIN list
                     /\ Record(handler[i]) = i

\* No frontend is listed twice, even when requests run into each other
\* (backend.go:131-173).
ListedOnce == \A i, j \in DOMAIN list : list[i].id = list[j].id => i = j

\* Between requests list and table agree, unless since the start two requests
\* ran into each other, a name was given twice or the database refused an edit
\* (backend.go:129-173, website.go:728-774).
Quiet == \A r \in Requests : request[r] = Idle
MatchesTable ==
  Quiet /\ ~marred =>
    /\ {list[i].id : i \in DOMAIN list} = DOMAIN rows
    /\ \A i \in DOMAIN list : list[i].id \in DOMAIN rows => rows[list[i].id] = list[i].name

\* The list shows a frontend as connected just when a handler serves it, or its
\* last handler returned in the middle, which leaves the record as it is until the
\* frontend comes back and leaves in order; unless the record was copied meanwhile
\* (backend.go:502, 510, 529, 542, 555, 607, 619-621).
FlagsAgree ==
  \A i \in DOMAIN list : list[i].id \notin moved =>
    (list[i].connected <=> list[i].id \in Serving \cup left)

-----------------------------------------------------------------------------
(* Claims the code does not keep.                                          *)

\* backend.go:151-153, "If the frontend is connected at the time it'll
\* immediately be disconnected": a frontend that is not listed is not served.
DeleteDisconnects == Quiet => Serving \subseteq {list[i].id : i \in DOMAIN list}

\* routes.go:66, "/api/GetConnectedServers", which lists those whose record says
\* so (website.go:420-421): a handler serves them.
ConnectedIsServed ==
  \A i \in DOMAIN list : list[i].connected => list[i].id \in Serving

\* backend.go:175, "get a pointer to it": the record in the list, for as long as
\* the pointer is used.
PointsToList == \A i \in Serving : handler[i] \in Listed
=============================================================================
