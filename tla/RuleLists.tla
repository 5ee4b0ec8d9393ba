----------------------------- MODULE RuleLists ----------------------------
(***************************************************************************)
(* The memory behind one frontend's rules.  fe.Rules is a slice: an array  *)
(* and a length.  Console sessions append to it ("rules add": in place     *)
(* while the array has room) or replace it ("rules del"), and save it to   *)
(* rules.pb.  The delayed check of a player who joined, and "rules show",  *)
(* append the backend's rules behind it: in place too, if there is room.   *)
(* No lock is taken.                                                       *)
(*                                                                         *)
(* A slice is stored and loaded word by word: whoever loads it during a    *)
(* store may find the old array with the new length, or the other way      *)
(* round, and a slot may be stored before or after the length that covers  *)
(* it.  An array and its capacity are one word here.  Going past the end   *)
(* of an array ends the process.  Which rule applies to whom is modelled   *)
(* in Rules.                                                               *)
(***************************************************************************)
EXTENDS Integers, Sequences

CONSTANTS Sessions,   \* console sessions that work on this frontend
          Checks,     \* delayed checks, and sessions that show a rule
          WideCount,  \* number of the backend's rules
          Started,    \* rules there are at the beginning
          Prefixes,   \* for each beginning of an ID that no rule of the backend
                      \* has, the rules that have it
          MaxAdded,   \* bound: these and the rules added
          MaxChanges  \* bound: rules added and deletions begun

ASSUME ListBoundsAssumption ==
  /\ Sessions \cap Checks = {}
  /\ WideCount \in Nat /\ Started \in Nat \ {0}
  /\ MaxAdded \in Nat /\ MaxAdded >= Started /\ MaxChanges \in Nat

\* Of two beginnings one begins the other, or no ID has both.
ASSUME PrefixesAssumption ==
  /\ Prefixes \subseteq SUBSET (1..MaxAdded)
  /\ \A p, q \in Prefixes : p \cap q \in {p, q, {}}

VARIABLES
  heap,     \* the arrays, in the order in which they were made
  rules,    \* fe.Rules
  op,       \* what each session is doing
  check,    \* what each check is doing
  added,    \* the number of rules ever added
  file,     \* the rules in rules.pb
  changes,  \* the number of rules added and deletions begun
  panicked, \* the process has ended
  due,      \* history: the rules when each check loaded the list
  met,      \* history: sessions and checks that met another at work
  unsaved   \* history: the last save failed, or some have met since

listHistory == <<due, met, unsaved>>
listVars == <<heap, rules, op, check, added, file, changes, panicked, listHistory>>

\* A rule with its scope, and nil, which is in a slot where none was stored.
Own(n) == [scope |-> "client", id |-> n]
Wide   == [i \in 1..WideCount |-> [scope |-> "server", id |-> i]]
Empty  == [scope |-> "none", id |-> 0]

SlotRule == {Own(n) : n \in 1..MaxAdded} \cup {Wide[i] : i \in 1..WideCount} \cup {Empty}

\* The rules "rules del" may be given, by what their IDs begin with.
Given == {{Own(n) : n \in p} : p \in Prefixes}

Slice == [array : 1..(MaxChanges + 2), len : Nat]

\* A slice without an array.
NoRules == [array |-> 1, len |-> 0]

Cap(s)   == Len(heap[s.array])
Sound(s) == s.len <= Cap(s)

\* The rules of a slice, as far as it has an array.
Contents(s) == SubSeq(heap[s.array], 1, IF Sound(s) THEN s.len ELSE Cap(s))

\* base: the slice loaded; new: the slice to store; rule: the one to add; gone:
\* those to delete; late: the rule is yet to be stored in its slot.
Op == [phase : {"idle", "adding", "deleting", "assigning", "saving"},
       base : Slice, new : Slice, rule : SlotRule, gone : Given \cup {{}}, late : BOOLEAN]

NoOp == [phase |-> "idle", base |-> NoRules, new |-> NoRules,
         rule |-> Empty, gone |-> {}, late |-> FALSE]

\* base: the slice loaded; seen: the rules gone by.
Check == [phase : {"idle", "loaded", "appended", "done"}, base : Slice, seen : Seq(SlotRule)]

NoCheck == [phase |-> "idle", base |-> NoRules, seen |-> <<>>]

ListTypeOK ==
  /\ heap \in Seq(Seq(SlotRule)) /\ Len(heap) \in 1..(MaxChanges + 2)
  /\ rules \in Slice
  /\ op \in [Sessions -> Op] /\ check \in [Checks -> Check]
  /\ added \in Started..MaxAdded /\ changes \in 0..MaxChanges
  /\ file \in Seq(SlotRule) /\ panicked \in BOOLEAN
  /\ due \in [Checks -> Seq(SlotRule)]
  /\ met \subseteq Sessions \cup Checks /\ unsaved \in BOOLEAN

\* The capacity append gives an array that was full.
Grown(cap) == IF cap = 0 THEN 1 ELSE 2 * cap

\* The capacity n appends come to, one by one.
CapFor[n \in Nat] ==
  IF n = 0 THEN 0
  ELSE IF CapFor[n - 1] < n THEN Grown(CapFor[n - 1]) ELSE CapFor[n - 1]

\* An array with room behind a list.
Padded(list, cap) == [i \in 1..cap |-> IF i <= Len(list) THEN list[i] ELSE Empty]

\* The console has added some rules, one by one, and saved them.
ListInit ==
  /\ file = [i \in 1..Started |-> Own(i)]
  /\ heap = << <<>>, Padded(file, CapFor[Started]) >>
  /\ rules = [array |-> 2, len |-> Started]
  /\ op = [s \in Sessions |-> NoOp] /\ check = [k \in Checks |-> NoCheck]
  /\ added = Started /\ changes = 0 /\ panicked = FALSE
  /\ due = [k \in Checks |-> <<>>] /\ met = {} /\ unsaved = FALSE

-----------------------------------------------------------------------------
(* Loads and stores of the slice.                                          *)

Busy(s) == op[s].phase # "idle"
Storing == {s \in Sessions : op[s].phase = "assigning"}

Mixed(slices) == {[array |-> a.array, len |-> l.len] : a \in slices, l \in slices}

\* What a load of fe.Rules may find.
Loads == Mixed({rules} \cup {op[s].new : s \in Storing})

\* What fe.Rules may be once s has stored it.
Stores(s) == Mixed({op[q].new : q \in Storing \cup {s}})

\* Whether append puts the backend's rules in place.
HasRoom(base) == base.len + WideCount <= Cap(base)

\* Checks that use the slots of an array behind the list.
Borrowers(array) ==
  {k \in Checks : /\ check[k].phase \in {"loaded", "appended"}
                  /\ check[k].base.array = array /\ HasRoom(check[k].base)}

\* Those who meet at this step, and from now on until each has done.
Meet(who) ==
  /\ met' = met \cup who
  /\ unsaved' = (unsaved \/ who # {})

\* p has met the others, if there are any.
Joins(p, others) == Meet(IF others = {} THEN {} ELSE others \cup {p})

Parts(p) == met' = met \ {p}

AtWork == {s \in Sessions : Busy(s)} \cup
          {k \in Checks : check[k].phase \in {"loaded", "appended"}}

\* Slots that somebody who has met stores may be in use by all at work.
Reached(p) == IF p \in met THEN AtWork \ {p} ELSE {}

Running == ~panicked

Crash ==
  /\ panicked' = TRUE
  /\ UNCHANGED <<heap, rules, op, check, added, file, changes, listHistory>>

-----------------------------------------------------------------------------
(* The console.                                                            *)

OthersBusy(s) == {q \in Sessions \ {s} : Busy(q)}

\* A session with a slice, and what it is to do to it.
Loaded(what, base, rule, gone) ==
  [NoOp EXCEPT !.phase = what, !.base = base, !.rule = rule, !.gone = gone]

\* The wizard has made a rule; the slice is loaded, to be appended to.
AddLoads(s) ==
  /\ Running /\ ~Busy(s) /\ added < MaxAdded /\ changes < MaxChanges
  /\ added' = added + 1 /\ changes' = changes + 1
  /\ \E base \in Loads :
       op' = [op EXCEPT ![s] = Loaded("adding", base, Own(added + 1), {})]
  /\ Joins(s, OthersBusy(s))
  /\ UNCHANGED <<heap, rules, check, file, panicked, due>>

\* The slot of the last rule of a slice.
PutLast(slice, r) == [heap EXCEPT ![slice.array][slice.len] = r]

Tramples(s, array) == Joins(s, Borrowers(array) \cup Reached(s))

\* append, with room: the slot is stored before the slice, or after.
AddInPlace(s) ==
  /\ Running /\ op[s].phase = "adding" /\ op[s].base.len < Cap(op[s].base)
  /\ LET new == [op[s].base EXCEPT !.len = @ + 1] IN
     \E late \in BOOLEAN :
       /\ op' = [op EXCEPT ![s].phase = "assigning", ![s].new = new, ![s].late = late]
       /\ IF late THEN UNCHANGED <<heap, met, unsaved>>
          ELSE heap' = PutLast(new, op[s].rule) /\ Tramples(s, new.array)
  /\ UNCHANGED <<rules, check, added, file, panicked, changes, due>>

\* append, without: a larger array.
AddGrows(s) ==
  /\ Running /\ op[s].phase = "adding" /\ op[s].base.len >= Cap(op[s].base)
  /\ LET base == op[s].base
         list == Append(Contents(base), op[s].rule)
     IN
     IF ~Sound(base) THEN Crash
     ELSE /\ heap' = Append(heap, Padded(list, Grown(base.len)))
          /\ op' = [op EXCEPT ![s].phase = "assigning",
                              ![s].new = [array |-> Len(heap) + 1, len |-> Len(list)]]
          /\ UNCHANGED <<rules, check, added, file, panicked, changes, listHistory>>

\* "rules del" with a beginning that no rule of the backend has: the loop begins.
DeleteLoads(s) ==
  /\ Running /\ ~Busy(s) /\ changes < MaxChanges
  /\ \E base \in Loads, gone \in Given :
       op' = [op EXCEPT ![s] = Loaded("deleting", base, Empty, gone)]
  /\ changes' = changes + 1
  /\ Joins(s, OthersBusy(s))
  /\ UNCHANGED <<heap, rules, check, added, file, panicked, due>>

\* Mutant of Kept: the loop breaks off at the first rule it finds.
KeptBefore(base, gone) ==
  LET kept[n \in 0..base.len] ==
        IF n = 0 THEN <<>>
        ELSE IF heap[base.array][n] \notin gone /\ Len(kept[n - 1]) = n - 1
          THEN Append(kept[n - 1], n)
        ELSE kept[n - 1]
  IN kept[base.len]

\* Places in a slice that hold none of the rules in gone.
Kept(base, gone) ==
  LET kept[n \in 0..base.len] ==
        IF n = 0 THEN <<>>
        ELSE IF heap[base.array][n] \notin gone THEN Append(kept[n - 1], n)
        ELSE kept[n - 1]
  IN kept[base.len]

\* The loop asks every rule of the slice for its ID, which a nil has not.
MeetsNil(base) == \E i \in 1..base.len : heap[base.array][i] = Empty

\* Mutant of DeleteCopies: the rules behind those gone move up, in the same array.
DeleteShifts(s) ==
  /\ Running /\ op[s].phase = "deleting"
  /\ LET base == op[s].base
         kept == Kept(base, op[s].gone)
     IN
     IF ~Sound(base) \/ MeetsNil(base) THEN Crash
     ELSE IF Len(kept) = base.len
       THEN /\ op' = [op EXCEPT ![s] = NoOp] /\ Parts(s)
            /\ UNCHANGED <<heap, rules, check, added, file, changes, panicked, due, unsaved>>
     ELSE /\ heap' = [heap EXCEPT ![base.array] =
                        [i \in DOMAIN @ |-> IF i <= Len(kept) THEN @[kept[i]] ELSE @[i]]]
          /\ op' = [op EXCEPT ![s].phase = "assigning",
                              ![s].new = [base EXCEPT !.len = Len(kept)]]
          /\ UNCHANGED <<rules, check, added, file, changes, panicked, listHistory>>

\* The loop goes through the slice it loaded, and takes what it keeps from the
\* list as it is by then.
DeleteCopies(s) ==
  /\ Running /\ op[s].phase = "deleting"
  /\ \E now \in Loads :
     LET base == op[s].base
         kept == Kept(base, op[s].gone)
         list == [j \in 1..Len(kept) |-> heap[now.array][kept[j]]]
     IN
     IF \/ ~Sound(base) \/ ~Sound(now)
        \/ MeetsNil(base) \/ \E j \in 1..Len(kept) : kept[j] > now.len
       THEN Crash
     ELSE IF Len(kept) = base.len
       THEN /\ op' = [op EXCEPT ![s] = NoOp] /\ Parts(s)
            /\ UNCHANGED <<heap, rules, check, added, file, panicked, changes, due, unsaved>>
     ELSE /\ heap' = IF list = <<>> THEN heap
                     ELSE Append(heap, Padded(list, CapFor[Len(list)]))
          /\ op' = [op EXCEPT ![s].phase = "assigning",
                              ![s].new = IF list = <<>> THEN NoRules
                                         ELSE [array |-> Len(heap) + 1, len |-> Len(list)]]
          /\ UNCHANGED <<rules, check, added, file, panicked, changes, listHistory>>

\* Mutant of Assign: the change is not saved.
AssignOnly(s) ==
  /\ Running /\ op[s].phase = "assigning"
  /\ rules' \in Stores(s)
  /\ IF op[s].late
       THEN heap' = PutLast(op[s].new, op[s].rule)
       ELSE UNCHANGED heap
  /\ op' = [op EXCEPT ![s] = NoOp] /\ Parts(s)
  /\ UNCHANGED <<check, added, file, changes, panicked, due, unsaved>>

\* fe.Rules = ...
Assign(s) ==
  /\ Running /\ op[s].phase = "assigning"
  /\ rules' \in Stores(s)
  /\ IF op[s].late
       THEN heap' = PutLast(op[s].new, op[s].rule) /\ Tramples(s, op[s].new.array)
       ELSE UNCHANGED <<heap, met, unsaved>>
  /\ op' = [op EXCEPT ![s].phase = "saving"]
  /\ UNCHANGED <<check, added, file, panicked, changes, due>>

\* MaterializeRules(fe.Rules): an empty list is not written, and a write may fail.
Save(s) ==
  /\ Running /\ op[s].phase = "saving"
  /\ \E now \in Loads :
       IF ~Sound(now) THEN Crash
       ELSE /\ \/ now.len = 0 /\ UNCHANGED <<file, unsaved>>
               \/ /\ now.len > 0
                  /\ file' = Contents(now)
                  /\ unsaved' = (unsaved /\ met # {})
               \/ now.len > 0 /\ unsaved' = TRUE /\ UNCHANGED file
            /\ op' = [op EXCEPT ![s] = NoOp] /\ Parts(s)
            /\ UNCHANGED <<heap, rules, check, added, panicked, changes, due>>

-----------------------------------------------------------------------------
(* The delayed checks.                                                     *)

\* The list is loaded, to append the backend's rules to it.
CheckLoads(k) ==
  /\ Running /\ check[k].phase = "idle"
  /\ \E base \in Loads :
       check' = [check EXCEPT ![k] = [NoCheck EXCEPT !.phase = "loaded", !.base = base]]
  /\ due' = [due EXCEPT ![k] = Contents(rules)]
  /\ Joins(k, Storing)
  /\ UNCHANGED <<heap, rules, op, added, file, panicked, changes>>

\* append(fe.Rules, be.rules...) in place.
CheckAppendsInPlace(k) ==
  /\ Running /\ check[k].phase = "loaded" /\ HasRoom(check[k].base)
  /\ LET base == check[k].base IN
     heap' = [heap EXCEPT ![base.array] =
                [i \in DOMAIN @ |-> IF i \in (base.len + 1)..(base.len + WideCount)
                                      THEN Wide[i - base.len] ELSE @[i]]]
  /\ check' = [check EXCEPT ![k].phase = "appended"]
  /\ Joins(k, Reached(k))
  /\ UNCHANGED <<rules, op, added, file, panicked, changes, due>>

\* The same without room: a new array, which nobody else has.
CheckAppends(k) ==
  /\ Running /\ check[k].phase = "loaded" /\ ~HasRoom(check[k].base)
  /\ IF ~Sound(check[k].base) THEN Crash
     ELSE /\ check' = [check EXCEPT ![k].phase = "done",
                                    ![k].seen = Contents(check[k].base) \o Wide]
          /\ UNCHANGED <<heap, rules, op, added, file, panicked, changes, listHistory>>

\* SortRules copies what it was given.
CheckSorts(k) ==
  /\ Running /\ check[k].phase = "appended"
  /\ LET base == check[k].base IN
     check' = [check EXCEPT ![k].phase = "done",
                            ![k].seen = Contents([base EXCEPT !.len = @ + WideCount])]
  /\ UNCHANGED <<heap, rules, op, added, file, panicked, changes, listHistory>>

\* The next player joins.
CheckEnds(k) ==
  /\ Running /\ check[k].phase = "done"
  /\ check' = [check EXCEPT ![k] = NoCheck]
  /\ due' = [due EXCEPT ![k] = <<>>] /\ Parts(k)
  /\ UNCHANGED <<heap, rules, op, added, file, panicked, changes, unsaved>>

-----------------------------------------------------------------------------
ListNext ==
  \/ \E s \in Sessions : \/ AddLoads(s) \/ AddInPlace(s) \/ AddGrows(s)
                         \/ DeleteLoads(s) \/ DeleteCopies(s) \/ Assign(s) \/ Save(s)
  \/ \E k \in Checks : \/ CheckLoads(k) \/ CheckAppendsInPlace(k) \/ CheckAppends(k)
                       \/ CheckSorts(k) \/ CheckEnds(k)

ListSpec == ListInit /\ [][ListNext]_listVars
=============================================================================
