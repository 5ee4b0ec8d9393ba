-------------------------- MODULE RuleListsProps --------------------------
(***************************************************************************)
(* What the list of rules promises to those who work on it alone, or meet  *)
(* others where that does no harm, and what it does not promise when they  *)
(* meet.  Checks meet each other and the growth of the array harmlessly;   *)
(* those in met have met another while one of them stored something the    *)
(* other used.                                                             *)
(***************************************************************************)
EXTENDS RuleLists

\* A player is checked against the list as it was when the check loaded it, and
\* all rules of the backend, whatever is added, deleted or checked meanwhile,
\* although all append to one array (parse.go:268, ssh.go:673, 688).
CheckGoesByTheList ==
  \A k \in Checks \ met : check[k].phase = "done" => check[k].seen = due[k] \o Wide

\* The list changes by one rule added at its end, or by taking out all rules, and
\* only those, whose ID begins as "rules del" was told; a check or a look at a rule
\* does not change it (parse.go:268, ssh.go:636-692).
Book == INSTANCE RuleBook
          WITH RuleSet <- SlotRule, First <- [i \in 1..Started |-> Own(i)],
               Families <- Given, book <- Contents(rules), torn <- met # {}

ListIsABook == Book!Spec

\* When no session is at work the file holds the list, unless the last save
\* failed, sessions have met since, or the list is empty (frontend.go:146-166,
\* ssh.go:674, 689).
FileFollows ==
  (\A s \in Sessions : ~Busy(s)) => unsaved \/ rules.len = 0 \/ file = Contents(rules)

-----------------------------------------------------------------------------
(* What fails when they meet.                                              *)

\* The rules of the list are rules that were added: fails when a check meets
\* "rules add", and puts a rule of the backend over the one just added.
ListIsOwn ==
  \A i \in 1..Len(Contents(rules)) : Contents(rules)[i].scope = "client"

\* The process survives: fails when two sessions delete at the same time, and the
\* loop of one runs into the shorter list of the other, and when a session deletes
\* while another's new rule is not in its slot yet.
NobodyPanics == ~panicked
=============================================================================
