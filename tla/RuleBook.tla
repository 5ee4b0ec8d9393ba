----------------------------- MODULE RuleBook -----------------------------
(***************************************************************************)
(* What a frontend's list of rules promises the console: rules come to its *)
(* end one at a time, those whose ID begins as the console says are taken  *)
(* out together, and nothing else touches it, unless those who work on it  *)
(* meet.                                                                   *)
(***************************************************************************)
EXTENDS Naturals, Sequences

CONSTANTS RuleSet, First,
          Families  \* the sets of rules that go together

VARIABLES book,  \* the rules, in order
          torn   \* some have met, and nothing is promised until they part

Add(r) == book' = Append(book, r)

\* A list without the rules in gone.
Without(list, gone) ==
  LET others[n \in 0..Len(list)] ==
        IF n = 0 THEN <<>>
        ELSE IF list[n] \notin gone THEN Append(others[n - 1], list[n])
        ELSE others[n - 1]
  IN others[Len(list)]

Remove(gone) ==
  /\ \E i \in 1..Len(book) : book[i] \in gone
  /\ book' = Without(book, gone)

Init == book = First /\ torn = FALSE

Next ==
  \/ torn \/ torn'
  \/ \E r \in RuleSet : Add(r)
  \/ \E gone \in Families : Remove(gone)

Spec == Init /\ [][Next]_book
=============================================================================
