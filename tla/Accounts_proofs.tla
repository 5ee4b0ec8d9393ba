-------------------------- MODULE Accounts_proofs --------------------------
(***************************************************************************)
(* That users stay distinct and sign-ins last, outside the races that are  *)
(* named, for every number of sign-ins, users and cookies.                 *)
(***************************************************************************)
EXTENDS AccountsProps, FiniteSetTheorems, WellFoundedInduction, TLAPS

-----------------------------------------------------------------------------
(* The invariants.                                                         *)

\* The pointers and texts that sign-ins carry.
Parts ==
  \A s \in SignIns :
    /\ signIn[s].phase # "idle" => signIn[s].at \in DOMAIN user
    /\ At(s, "appending") => signIn[s].saw \in Seq(DOMAIN user)
    /\ At(s, "writing") => Len(signIn[s].text) <= MaxUsers

\* Those whose user is not listed yet.
Pending == {s \in SignIns : signIn[s].phase \in {"made", "appending"}}

\* Each of them makes the list longer by one at most, whichever list it read.
Room ==
  /\ Len(users) + Cardinality(Pending) <= Len(user)
  /\ \A s \in SignIns :
       At(s, "appending") => Len(signIn[s].saw) + Cardinality(Pending) <= Len(user)
  /\ Len(file) <= MaxUsers

TypeInv == TypeOK /\ Parts /\ Room

Distinct(text) == \A i, j \in DOMAIN text : text[i].email = text[j].email => i = j

\* Without a race one sign-in makes a user at a time: it appends to the list as
\* it is, a user that is not in it.
OneMaker == \A s, t \in SignIns : Making(s) /\ Making(t) => s = t
NewIsNew == \A s \in Pending : ~HasUser(user[signIn[s].at].email)
SawAll == \A s \in SignIns : At(s, "appending") => signIn[s].saw = users
NewIsListed ==
  \A s \in SignIns : signIn[s].phase \in {"listed", "writing"} =>
    \E i \in DOMAIN users : users[i] = signIn[s].at
ListDistinct ==
  \A i, j \in DOMAIN users : user[users[i]].email = user[users[j]].email => i = j
TextsDistinct ==
  /\ Distinct(file)
  /\ \A s \in SignIns : At(s, "writing") => Distinct(signIn[s].text)

Orderly ==
  /\ OneMaker /\ NewIsNew /\ SawAll /\ NewIsListed
  /\ ListDistinct /\ TextsDistinct

DistinctInv == TypeInv /\ (~crossed => Orderly)

InText(text, e) == \E i \in DOMAIN text : text[i].email = e

\* What is listed is in the file, or is being written, but for the user that is
\* to be written next.
Written ==
  /\ \A s \in SignIns : At(s, "writing") =>
       \A i \in DOMAIN users : InText(signIn[s].text, user[users[i]].email)
  /\ (\A s \in SignIns : ~At(s, "writing")) =>
       \A i \in DOMAIN users :
         \/ InText(file, user[users[i]].email)
         \/ \E s \in SignIns : At(s, "listed") /\ signIn[s].at = users[i]

\* An address that has, or is about to have, a cookie: listed, and nobody is
\* making it.
Settled(e) ==
  /\ HasUser(e)
  /\ \A t \in SignIns : Making(t) => user[signIn[t].at].email # e

SignedIn ==
  /\ \A c \in cookies : Settled(c.email)
  /\ \A s \in SignIns : At(s, "saved") => Settled(user[signIn[s].at].email)

LastInv == DistinctInv /\ (~crossed /\ ~spoiled => Written /\ SignedIn)

-----------------------------------------------------------------------------
(* Types.                                                                  *)

\* What a sign-in carries in each phase.
LEMMA Phases ==
  ASSUME TypeOK, NEW s \in SignIns
  PROVE  /\ signIn[s].phase \in {"idle", "made", "appending", "listed", "writing", "saved"}
         /\ signIn[s].phase # "idle" => signIn[s].at \in Pointer
         /\ At(s, "writing") => signIn[s].text \in Seq(User)
         /\ At(s, "appending") => signIn[s].saw \in Seq(Pointer)
BY DEF TypeOK, SignIn, Idle, At

\* One sign-in takes a step.
LEMMA OneStep ==
  ASSUME TypeOK, NEW s \in SignIns, NEW q \in SignIn, Goto(s, q)
  PROVE  /\ signIn' \in [SignIns -> SignIn]
         /\ signIn'[s] = q
         /\ \A t \in SignIns \ {s} : signIn'[t] = signIn[t]
BY DEF TypeOK, Goto

LEMMA UserParts ==
  ASSUME NEW u \in User
  PROVE  u.email \in Emails /\ u.session \in Sessions \cup {NoSession}
BY DEF User

\* A list of pointers, and what it points to.
LEMMA ListParts ==
  ASSUME TypeOK
  PROVE  /\ DOMAIN user \subseteq Pointer /\ DOMAIN user = 1..Len(user) /\ Len(user) \in Nat
         /\ DOMAIN users = 1..Len(users) /\ Len(users) \in Nat
         /\ \A i \in DOMAIN users : users[i] \in DOMAIN user
         /\ \A p \in DOMAIN user : user[p] \in User
<1>1. Len(user) \in Nat /\ Len(user) <= MaxUsers /\ DOMAIN user = 1..Len(user)
  BY DEF TypeOK
<1>2. DOMAIN user \subseteq Pointer
  BY <1>1, BoundsAssumption DEF Pointer
<1>3. \A p \in DOMAIN user : user[p] \in User
  BY DEF TypeOK
<1>4. DOMAIN users = 1..Len(users) /\ Len(users) \in Nat
      /\ \A i \in DOMAIN users : users[i] \in DOMAIN user
  BY DEF TypeOK
<1> QED
  BY <1>1, <1>2, <1>3, <1>4

\* The order of the naturals, written out.
LEMMA NatOrder == IsWellFoundedOn({d \in Nat \X Nat : d[1] < d[2]}, Nat)
<1>1. OpToRel(<, Nat) = {d \in Nat \X Nat : d[1] < d[2]}
  BY DEF OpToRel
<1> QED
  BY <1>1, NatLessThanWellFounded

LEMMA HasLeast ==
  ASSUME NEW S, S \subseteq Nat, S # {}
  PROVE  \E i \in S : \A j \in S : i <= j
<1> DEFINE R == {d \in Nat \X Nat : d[1] < d[2]}
<1>1. IsWellFoundedOn(R, Nat)
  BY NatOrder
<1>2. \A x, y \in Nat : x < y => <<x, y>> \in R
  OBVIOUS
<1> HIDE DEF R
<1>3. PICK i \in S : \A j \in S : <<j, i>> \notin R
  BY <1>1, WFMin
<1>4. i \in Nat /\ \A j \in S : j \in Nat
  OBVIOUS
<1>5. ASSUME NEW j \in S PROVE i <= j
  <2>1. ~(j < i)
    BY <1>2, <1>3, <1>4, Zenon
  <2> QED
    BY <2>1, <1>4
<1> QED
  BY <1>5

\* FirstUser points to a user with that address.
LEMMA FirstUserFound ==
  ASSUME TypeOK, NEW e, HasUser(e)
  PROVE  \E i \in DOMAIN users : users[i] = FirstUser(e) /\ user[users[i]].email = e
<1> DEFINE P(k) == k \in DOMAIN users /\ user[users[k]].email = e
           S == {k \in DOMAIN users : user[users[k]].email = e}
           First(i) == /\ user[users[i]].email = e
                       /\ \A j \in DOMAIN users : user[users[j]].email = e => i <= j
<1>1. \E i \in DOMAIN users : First(i)
  <2>1. S # {}
    BY DEF HasUser
  <2>2. S \subseteq Nat
    BY ListParts
  <2>3. PICK i \in S : \A j \in S : i <= j
    BY <2>1, <2>2, HasLeast
  <2> QED
    BY <2>3
<1>2. PICK i : i = CHOOSE k \in DOMAIN users : First(k)
  OBVIOUS
<1>3. i \in DOMAIN users /\ First(i)
  BY <1>1, <1>2
<1>4. FirstUser(e) = users[i]
  BY <1>2 DEF FirstUser
<1> QED
  BY <1>3, <1>4

\* Those that are pending are finitely many.
LEMMA PendingFinite == IsFiniteSet(Pending) /\ Cardinality(Pending) \in Nat
<1>1. Pending \in SUBSET SignIns
  BY DEF Pending
<1> QED
  BY <1>1, SignInsAssumption, FS_Subset, FS_CardinalityType

\* A step within or outside the pending phases.
LEMMA PendingSame ==
  ASSUME TypeOK, NEW s \in SignIns, NEW q \in SignIn, Goto(s, q),
         q.phase \in {"made", "appending"} <=> signIn[s].phase \in {"made", "appending"}
  PROVE  Pending' = Pending
<1>1. \A t \in SignIns : signIn'[t] = IF t = s THEN q ELSE signIn[t]
  BY OneStep
<1> QED
  BY <1>1 DEF Pending

LEMMA InitTypes == Init => TypeInv
<1> SUFFICES ASSUME Init PROVE TypeInv
  OBVIOUS
<1>1. Len(AtStart) \in Nat /\ DOMAIN AtStart = 1..Len(AtStart)
  BY StartAssumption
<1>2. [i \in 1..Len(AtStart) |-> i] \in Seq(1..Len(AtStart))
  BY <1>1
<1>3. users \in Seq(DOMAIN user) /\ Len(users) = Len(user)
  BY <1>1, <1>2 DEF Init
<1>4. TypeOK
  <2>1. user \in Seq(User) /\ Len(user) <= MaxUsers /\ file \in Seq(User)
    BY StartAssumption DEF Init
  <2>2. signIn \in [SignIns -> SignIn]
    BY DEF Init, SignIn
  <2>3. given \in 0..MaxSessions
    BY BoundsAssumption DEF Init
  <2>4. /\ cookies \subseteq Cookie /\ signedOut \subseteq cookies
        /\ outdated \subseteq cookies /\ configured \in BOOLEAN
        /\ crossed \in BOOLEAN /\ spoiled \in BOOLEAN
    BY DEF Init
  <2> QED
    BY <1>3, <2>1, <2>2, <2>3, <2>4 DEF TypeOK
<1>5. Parts
  BY DEF Init, Parts, Idle, At
<1>6. Room
  <2>1. Pending = {}
    BY DEF Init, Pending, Idle
  <2>2. Cardinality(Pending) = 0
    BY <2>1, FS_EmptySet
  <2> QED
    BY <1>1, <1>3, <2>2, StartAssumption DEF Init, Room, At, Idle
<1> QED
  BY <1>4, <1>5, <1>6 DEF TypeInv

\* What all steps but a first sign-in's and a restart have in common: the list
\* stays, and the sign-in carries what it may.
LEMMA StepTypes ==
  ASSUME TypeInv, NEW s \in SignIns, NEW q \in SignIn, Goto(s, q),
         UNCHANGED <<users, given, configured, cookies, outdated, signedOut>>,
         user' \in Seq(User), Len(user') = Len(user),
         file' \in Seq(User), Len(file') <= MaxUsers,
         crossed' \in BOOLEAN, spoiled' \in BOOLEAN,
         q.phase \in {"made", "appending"} <=> signIn[s].phase \in {"made", "appending"},
         q.phase # "idle" => q.at \in DOMAIN user,
         q.phase = "appending" => q.saw = users,
         q.phase = "writing" => Len(q.text) <= MaxUsers
  PROVE  TypeInv'
<1>1. TypeOK /\ Parts /\ Room
  BY DEF TypeInv
<1>2. DOMAIN user' = DOMAIN user
  BY <1>1, ListParts
<1>3. \A t \in SignIns : signIn'[t] = IF t = s THEN q ELSE signIn[t]
  BY <1>1, OneStep
<1>4. TypeOK'
  <2>1. signIn' \in [SignIns -> SignIn]
    BY <1>1, OneStep
  <2> QED
    BY <1>1, <1>2, <2>1 DEF TypeOK
<1>5. Parts'
  BY <1>1, <1>2, <1>3 DEF Parts, At, TypeOK
<1>6. Room'
  <2>1. Pending' = Pending
    BY <1>1, PendingSame
  <2> QED
    BY <1>1, <1>3, <2>1 DEF Room, At
<1> QED
  BY <1>4, <1>5, <1>6 DEF TypeInv

LEMMA KnownTypes ==
  ASSUME TypeInv, NEW s \in SignIns, NEW e \in Emails, Known(s, e)
  PROVE  TypeInv'
<1>1. TypeOK /\ Parts /\ Room
  BY DEF TypeInv
<1>2. FirstUser(e) \in DOMAIN user
  BY <1>1, FirstUserFound, ListParts DEF Known
<1>3. FirstUser(e) \in Pointer
  BY <1>1, <1>2, ListParts
<1> DEFINE q == [phase |-> "saved", at |-> FirstUser(e)]
<1>4. q \in SignIn
  BY <1>3 DEF SignIn
<1>5. signIn[s].phase = "idle" /\ Goto(s, q)
      /\ UNCHANGED <<users, user, file, given, configured, cookies, outdated, signedOut, spoiled>>
      /\ crossed' \in BOOLEAN
  BY <1>1 DEF Known, At, listVars, cookieVars, TypeOK
<1>6. q.phase = "saved" /\ q.at = FirstUser(e)
  OBVIOUS
<1> HIDE DEF q
<1> QED
  BY <1>1, <1>2, <1>4, <1>5, <1>6, StepTypes DEF TypeOK, Room

LEMMA UnknownTypes ==
  ASSUME TypeInv, NEW s \in SignIns, NEW e \in Emails, Unknown(s, e)
  PROVE  TypeInv'
<1>1. TypeOK /\ Parts /\ Room
  BY DEF TypeInv
<1> DEFINE u == [email |-> e, session |-> NoSession]
           q == [phase |-> "made", at |-> Len(user) + 1]
<1>2. u \in User
  BY DEF User
<1>3. q \in SignIn
  <2>1. Len(user) + 1 \in Pointer
    BY <1>1, BoundsAssumption, ListParts DEF Unknown, Pointer
  <2> QED
    BY <2>1 DEF SignIn
<1>4. signIn[s].phase = "idle" /\ Goto(s, q) /\ user' = Append(user, u)
      /\ Len(user) < MaxUsers
      /\ UNCHANGED <<users, file, given, configured, cookies, outdated, signedOut, spoiled>>
      /\ crossed' \in BOOLEAN
  BY <1>1 DEF Unknown, At, cookieVars, TypeOK
<1>5. q.phase = "made" /\ q.at = Len(user) + 1
  OBVIOUS
<1> HIDE DEF q, u
<1>6. user' \in Seq(User) /\ Len(user') = Len(user) + 1
      /\ DOMAIN user' = 1..(Len(user) + 1) /\ DOMAIN user \subseteq DOMAIN user'
  BY <1>1, <1>2, <1>4 DEF TypeOK
<1>7. \A t \in SignIns : signIn'[t] = IF t = s THEN q ELSE signIn[t]
  BY <1>1, <1>3, <1>4, OneStep
<1>8. TypeOK'
  <2>1. signIn' \in [SignIns -> SignIn]
    BY <1>1, <1>3, <1>4, OneStep
  <2>2. users' \in Seq(DOMAIN user')
    BY <1>1, <1>4, <1>6 DEF TypeOK
  <2>3. Len(user') <= MaxUsers
    BY <1>1, <1>4, <1>6, BoundsAssumption DEF TypeOK
  <2> QED
    BY <1>1, <1>4, <1>6, <2>1, <2>2, <2>3 DEF TypeOK
<1>9. Parts'
  <2> SUFFICES ASSUME NEW t \in SignIns
               PROVE  /\ signIn'[t].phase # "idle" => signIn'[t].at \in DOMAIN user'
                      /\ signIn'[t].phase = "appending" => signIn'[t].saw \in Seq(DOMAIN user')
                      /\ signIn'[t].phase = "writing" => Len(signIn'[t].text) <= MaxUsers
    BY DEF Parts, At
  <2>1. CASE t = s
    <3>1. q.at \in DOMAIN user'
      BY <1>5, <1>6, <1>1, ListParts
    <3> QED
      BY <2>1, <1>5, <1>7, <3>1
  <2>2. CASE t # s
    <3>1. signIn'[t] = signIn[t]
      BY <2>2, <1>7
    <3>2. signIn[t].phase = "appending" => signIn[t].saw \in Seq(DOMAIN user')
      BY <1>1, <1>6 DEF Parts, At
    <3> QED
      BY <1>1, <1>6, <3>1, <3>2 DEF Parts, At
  <2> QED
    BY <2>1, <2>2
<1>10. Room'
  <2>1. Pending' = Pending \cup {s}
    BY <1>5, <1>7 DEF Pending
  <2>2. Cardinality(Pending') = Cardinality(Pending) + 1
    BY <1>4, <2>1, PendingFinite, FS_AddElement DEF Pending
  <2>3. \A t \in SignIns : signIn'[t].phase = "appending" =>
           signIn'[t] = signIn[t] /\ Len(signIn[t].saw) \in Nat
    BY <1>1, <1>5, <1>7 DEF Parts, At
  <2>4. Len(users) \in Nat /\ Len(user) \in Nat
    BY <1>1, ListParts
  <2>5. Len(users') + Cardinality(Pending') <= Len(user')
    BY <1>1, <1>4, <1>6, <2>2, <2>4, PendingFinite DEF Room
  <2>6. ASSUME NEW t \in SignIns, signIn'[t].phase = "appending"
        PROVE  Len(signIn'[t].saw) + Cardinality(Pending') <= Len(user')
    <3>1. Len(signIn[t].saw) \in Nat /\ signIn'[t] = signIn[t]
      BY <2>3, <2>6
    <3>2. Len(signIn[t].saw) + Cardinality(Pending) <= Len(user)
      BY <1>1, <2>6, <3>1 DEF Room, At
    <3> QED
      BY <1>6, <2>2, <2>4, <3>1, <3>2, PendingFinite
  <2>7. Len(file') <= MaxUsers
    BY <1>1, <1>4 DEF Room
  <2> QED
    BY <2>5, <2>6, <2>7 DEF Room, At
<1> QED
  BY <1>8, <1>9, <1>10 DEF TypeInv

LEMMA ReadUsersTypes ==
  ASSUME TypeInv, NEW s \in SignIns, ReadUsers(s)
  PROVE  TypeInv'
<1>1. TypeOK /\ Parts /\ Room
  BY DEF TypeInv
<1> DEFINE q == [phase |-> "appending", at |-> signIn[s].at, saw |-> users]
<1>2. signIn[s].phase = "made" /\ Goto(s, q)
      /\ UNCHANGED <<users, user, file, given, configured, cookies, outdated, signedOut, spoiled, crossed>>
  BY DEF ReadUsers, At, listVars, cookieVars, history
<1>3. signIn[s].at \in DOMAIN user
  BY <1>1, <1>2 DEF Parts
<1>4. q \in SignIn
  <2>1. users \in Seq(Pointer)
    <3>1. DOMAIN user \subseteq Pointer
      BY <1>1, ListParts
    <3> QED
      BY <1>1, <3>1 DEF TypeOK
  <2>2. signIn[s].at \in Pointer
    BY <1>1, <1>3, ListParts
  <2> QED
    BY <2>1, <2>2 DEF SignIn
<1>5. q.phase = "appending" /\ q.at = signIn[s].at /\ q.saw = users
  OBVIOUS
<1> HIDE DEF q
<1> QED
  BY <1>1, <1>2, <1>3, <1>4, <1>5, StepTypes DEF TypeOK, Room

LEMMA AppendUserTypes ==
  ASSUME TypeInv, NEW s \in SignIns, AppendUser(s)
  PROVE  TypeInv'
<1>1. TypeOK /\ Parts /\ Room
  BY DEF TypeInv
<1> DEFINE saw == signIn[s].saw
           q == [phase |-> "listed", at |-> signIn[s].at]
<1>2. signIn[s].phase = "appending" /\ Goto(s, q)
      /\ UNCHANGED <<user, file, given, configured, cookies, outdated, signedOut, spoiled, crossed>>
  BY DEF AppendUser, At, cookieVars, history
<1>3. PICK p \in {signIn[s].at} \cup {users[i] : i \in DOMAIN users \cap {Len(saw) + 1}} :
        users' = Append(saw, p)
  BY DEF AppendUser
<1>4. saw \in Seq(DOMAIN user) /\ signIn[s].at \in DOMAIN user
  BY <1>1, <1>2 DEF Parts, At
<1>5. p \in DOMAIN user
  BY <1>1, <1>4, ListParts
<1>6. q \in SignIn /\ q.phase = "listed" /\ q.at = signIn[s].at
  <2>1. signIn[s].at \in Pointer
    BY <1>1, <1>4, ListParts
  <2> QED
    BY <2>1 DEF SignIn
<1>7. \A t \in SignIns : signIn'[t] = IF t = s THEN q ELSE signIn[t]
  BY <1>1, <1>2, <1>6, OneStep
<1> HIDE DEF q
<1>8. users' \in Seq(DOMAIN user) /\ Len(users') = Len(saw) + 1 /\ Len(saw) \in Nat
  BY <1>3, <1>4, <1>5
<1> HIDE DEF saw
<1>9. TypeOK'
  <2>1. signIn' \in [SignIns -> SignIn]
    BY <1>1, <1>2, <1>6, OneStep
  <2> QED
    BY <1>1, <1>2, <1>8, <2>1 DEF TypeOK
<1>10. Parts'
  BY <1>1, <1>2, <1>4, <1>6, <1>7 DEF Parts, At
<1>11. Room'
  <2>1. Pending' = Pending \ {s} /\ s \in Pending
    BY <1>2, <1>6, <1>7 DEF Pending
  <2>2. Cardinality(Pending') = Cardinality(Pending) - 1
    BY <2>1, PendingFinite, FS_RemoveElement
  <2>3. Len(users) \in Nat /\ Len(user) \in Nat
    BY <1>1, ListParts
  <2>4. Len(users') + Cardinality(Pending') <= Len(user')
    <3>1. Len(saw) + Cardinality(Pending) <= Len(user)
      BY <1>1, <1>2 DEF Room, At, saw
    <3> QED
      BY <1>2, <1>8, <2>2, <2>3, <3>1, PendingFinite
  <2>5. ASSUME NEW t \in SignIns, signIn'[t].phase = "appending"
        PROVE  Len(signIn'[t].saw) + Cardinality(Pending') <= Len(user')
    <3>1. signIn'[t] = signIn[t]
      BY <1>6, <1>7, <2>5
    <3>2. Len(signIn[t].saw) \in Nat
      BY <1>1, <2>5, <3>1 DEF Parts, At
    <3>3. Len(signIn[t].saw) + Cardinality(Pending) <= Len(user)
      BY <1>1, <2>5, <3>1 DEF Room, At
    <3> QED
      BY <1>2, <2>2, <2>3, <3>1, <3>2, <3>3, PendingFinite
  <2>6. Len(file') <= MaxUsers
    BY <1>1, <1>2 DEF Room
  <2> QED
    BY <2>4, <2>5, <2>6 DEF Room, At
<1> QED
  BY <1>9, <1>10, <1>11 DEF TypeInv

\* What is written is one user for each pointer.
LEMMA TextTypes ==
  ASSUME TypeInv
  PROVE  /\ Text \in Seq(User) /\ Len(Text) = Len(users) /\ Len(users) <= MaxUsers
         /\ DOMAIN Text = DOMAIN users
         /\ \A i \in DOMAIN users : Text[i] = user[users[i]]
<1>1. TypeOK /\ Parts /\ Room
  BY DEF TypeInv
<1>2. Len(users) <= MaxUsers
  BY <1>1, ListParts, PendingFinite, BoundsAssumption DEF Room, TypeOK
<1>3. \A i \in 1..Len(users) : user[users[i]] \in User
  BY <1>1, ListParts
<1>4. DOMAIN users = 1..Len(users) /\ Len(users) \in Nat
  BY <1>1, ListParts
<1>5. [i \in 1..Len(users) |-> user[users[i]]] \in Seq(User)
  BY <1>3, <1>4
<1> QED
  BY <1>2, <1>4, <1>5 DEF Text

LEMMA OpenFileTypes ==
  ASSUME TypeInv, NEW s \in SignIns, OpenFile(s)
  PROVE  TypeInv'
<1>1. TypeOK /\ Parts /\ Room
  BY DEF TypeInv
<1> DEFINE q == [phase |-> "writing", at |-> signIn[s].at, text |-> Text]
<1>2. signIn[s].phase = "listed" /\ Goto(s, q) /\ file' = <<>>
      /\ UNCHANGED <<users, user, given, configured, cookies, outdated, signedOut, spoiled, crossed>>
  BY DEF OpenFile, At, listVars, cookieVars, history
<1>3. signIn[s].at \in DOMAIN user
  BY <1>1, <1>2 DEF Parts
<1>4. q \in SignIn
  <2>1. signIn[s].at \in Pointer
    BY <1>1, <1>3, ListParts
  <2> QED
    BY <2>1, TextTypes DEF SignIn
<1>5. q.phase = "writing" /\ q.at = signIn[s].at /\ Len(q.text) <= MaxUsers
  BY TextTypes
<1> HIDE DEF q
<1>6. file' \in Seq(User) /\ Len(file') <= MaxUsers
  BY <1>2, BoundsAssumption
<1> QED
  BY <1>1, <1>2, <1>3, <1>4, <1>5, <1>6, StepTypes DEF TypeOK

LEMMA WriteFileTypes ==
  ASSUME TypeInv, NEW s \in SignIns, WriteFile(s)
  PROVE  TypeInv'
<1>1. TypeOK /\ Parts /\ Room
  BY DEF TypeInv
<1> DEFINE q == [phase |-> "saved", at |-> signIn[s].at]
<1>2. signIn[s].phase = "writing" /\ Goto(s, q) /\ file' = signIn[s].text
      /\ UNCHANGED <<users, user, given, configured, cookies, outdated, signedOut, spoiled, crossed>>
  BY DEF WriteFile, At, listVars, cookieVars, history
<1>3. signIn[s].at \in DOMAIN user
  BY <1>1, <1>2 DEF Parts
<1>4. q \in SignIn /\ q.phase = "saved" /\ q.at = signIn[s].at
  <2>1. signIn[s].at \in Pointer
    BY <1>1, <1>3, ListParts
  <2> QED
    BY <2>1 DEF SignIn
<1> HIDE DEF q
<1>5. file' \in Seq(User) /\ Len(file') <= MaxUsers
  BY <1>1, <1>2, Phases DEF Parts, At
<1> QED
  BY <1>1, <1>2, <1>3, <1>4, <1>5, StepTypes DEF TypeOK

LEMMA WriteFailsTypes ==
  ASSUME TypeInv, NEW s \in SignIns, WriteFails(s)
  PROVE  TypeInv'
<1>1. TypeOK /\ Parts /\ Room
  BY DEF TypeInv
<1> DEFINE q == [phase |-> "saved", at |-> signIn[s].at]
<1>2. signIn[s].phase \in {"listed", "writing"} /\ Goto(s, q) /\ spoiled' \in BOOLEAN
      /\ UNCHANGED <<users, user, file, given, configured, cookies, outdated, signedOut, crossed>>
  BY DEF WriteFails, listVars, cookieVars
<1>3. signIn[s].at \in DOMAIN user
  BY <1>1, <1>2 DEF Parts
<1>4. q \in SignIn /\ q.phase = "saved" /\ q.at = signIn[s].at
  <2>1. signIn[s].at \in Pointer
    BY <1>1, <1>3, ListParts
  <2> QED
    BY <2>1 DEF SignIn
<1> HIDE DEF q
<1> QED
  BY <1>1, <1>2, <1>3, <1>4, StepTypes DEF TypeOK, Room

LEMMA GiveCookieTypes ==
  ASSUME TypeInv, NEW s \in SignIns, GiveCookie(s)
  PROVE  TypeInv'
<1>1. TypeOK /\ Parts /\ Room
  BY DEF TypeInv
<1> DEFINE p == signIn[s].at
           c == [id |-> given + 1, email |-> user[p].email]
<1>2. signIn[s].phase = "saved" /\ Goto(s, Idle) /\ given < MaxSessions
      /\ given' = given + 1 /\ user' = [user EXCEPT ![p].session = given + 1]
      /\ cookies' = cookies \cup {c}
      /\ UNCHANGED <<users, file, configured, outdated, signedOut, crossed, spoiled>>
  BY DEF GiveCookie, MayGive, At, history
<1>3. p \in DOMAIN user /\ user[p] \in User
  BY <1>1, <1>2, ListParts DEF Parts
<1>4. given' \in 0..MaxSessions /\ given + 1 \in Sessions
  BY <1>1, <1>2, BoundsAssumption DEF TypeOK, Sessions
<1>5. [user[p] EXCEPT !.session = given + 1] \in User
  BY <1>3, <1>4 DEF User
<1>6. user' \in Seq(User) /\ Len(user') = Len(user) /\ DOMAIN user' = DOMAIN user
  <2>1. user' = [user EXCEPT ![p] = [user[p] EXCEPT !.session = given + 1]]
    BY <1>2
  <2> QED
    BY <1>1, <1>3, <1>5, <2>1 DEF TypeOK
<1>7. c \in Cookie
  BY <1>3, <1>4, UserParts DEF Cookie
<1>8. Idle \in SignIn /\ Idle.phase = "idle"
  BY DEF SignIn, Idle
<1>9. \A t \in SignIns : signIn'[t] = IF t = s THEN Idle ELSE signIn[t]
  BY <1>1, <1>2, <1>8, OneStep
<1> HIDE DEF c, p
<1>10. TypeOK'
  <2>1. signIn' \in [SignIns -> SignIn]
    BY <1>1, <1>2, <1>8, OneStep
  <2>2. /\ cookies' \subseteq Cookie /\ signedOut' \subseteq cookies'
        /\ outdated' \subseteq cookies' /\ configured' \in BOOLEAN
    BY <1>1, <1>2, <1>7 DEF TypeOK
  <2> QED
    BY <1>1, <1>2, <1>4, <1>6, <2>1, <2>2 DEF TypeOK
<1>11. Parts'
  BY <1>1, <1>6, <1>8, <1>9 DEF Parts, At
<1>12. Room'
  <2>1. Pending' = Pending
    BY <1>1, <1>2, <1>8, PendingSame
  <2> QED
    BY <1>1, <1>2, <1>6, <1>8, <1>9, <2>1 DEF Room, At
<1> QED
  BY <1>10, <1>11, <1>12 DEF TypeInv

LEMMA AuthLogoutTypes ==
  ASSUME TypeInv, NEW c \in cookies, AuthLogout(c)
  PROVE  TypeInv'
<1>1. TypeOK /\ Parts /\ Room
  BY DEF TypeInv
<1> DEFINE p == FirstUser(c.email)
<1>2. /\ HasUser(c.email) /\ user' = [user EXCEPT ![p].session = NoSession]
      /\ signedOut' = signedOut \cup {c}
      /\ UNCHANGED <<users, file, signIn, given, configured, cookies, outdated, crossed,
                   spoiled>>
  BY DEF AuthLogout, Accepted, history
<1>3. p \in DOMAIN user /\ user[p] \in User
  BY <1>1, <1>2, FirstUserFound, ListParts
<1>4. [user[p] EXCEPT !.session = NoSession] \in User
  BY <1>3 DEF User
<1>5. user' \in Seq(User) /\ Len(user') = Len(user) /\ DOMAIN user' = DOMAIN user
  <2>1. user' = [user EXCEPT ![p] = [user[p] EXCEPT !.session = NoSession]]
    BY <1>2
  <2> QED
    BY <1>1, <1>3, <1>4, <2>1 DEF TypeOK
<1>6. TypeOK'
  BY <1>1, <1>2, <1>5 DEF TypeOK
<1>7. Parts' /\ Room'
  BY <1>1, <1>2, <1>5 DEF Parts, Room, At, Pending
<1> QED
  BY <1>6, <1>7 DEF TypeInv

LEMMA ExpireTypes ==
  ASSUME TypeInv, NEW c \in cookies, Expire(c)
  PROVE  TypeInv'
<1>1. UNCHANGED <<users, user, file, signIn, given, configured, crossed, spoiled>>
  BY DEF Expire, listVars, history
<1>2. /\ cookies' \subseteq cookies /\ signedOut' \subseteq cookies'
      /\ outdated' \subseteq cookies'
  BY DEF Expire, TypeInv, TypeOK
<1> QED
  BY <1>1, <1>2 DEF TypeInv, TypeOK, Parts, Room, At, Pending

LEMMA RestartTypes ==
  ASSUME TypeInv, Restart
  PROVE  TypeInv'
<1>1. TypeOK /\ Parts /\ Room
  BY DEF TypeInv
<1>2. user' = file /\ users' = [i \in DOMAIN file |-> i] /\ file' = file
      /\ signIn' = [s \in SignIns |-> Idle] /\ spoiled' \in BOOLEAN
      /\ given' = given /\ crossed' = crossed
  BY <1>1 DEF Restart, Read, TypeOK
<1>3. /\ cookies' \subseteq Cookie /\ signedOut' \subseteq cookies'
      /\ outdated' \subseteq cookies' /\ configured' \in BOOLEAN
  BY <1>1 DEF Restart, Outdated, TypeOK
<1>4. file \in Seq(User) /\ Len(file) \in Nat /\ DOMAIN file = 1..Len(file)
      /\ Len(file) <= MaxUsers
  BY <1>1 DEF TypeOK, Room
<1>5. [i \in 1..Len(file) |-> i] \in Seq(1..Len(file))
  BY <1>4
<1>6. users' \in Seq(DOMAIN user') /\ Len(users') = Len(user')
  BY <1>2, <1>4, <1>5
<1>7. TypeOK'
  <2>1. signIn' \in [SignIns -> SignIn]
    BY <1>2 DEF SignIn
  <2> QED
    BY <1>1, <1>2, <1>3, <1>4, <1>6, <2>1 DEF TypeOK
<1>8. Parts'
  BY <1>2 DEF Parts, Idle, At
<1>9. Room'
  <2>1. Pending' = {}
    BY <1>2 DEF Pending, Idle
  <2>2. Cardinality(Pending') = 0
    BY <2>1, FS_EmptySet
  <2> QED
    BY <1>2, <1>4, <1>6, <2>2 DEF Room, At, Idle
<1> QED
  BY <1>7, <1>8, <1>9 DEF TypeInv

LEMMA StepKeepsTypes == TypeInv /\ [Next]_vars => TypeInv'
<1> SUFFICES ASSUME TypeInv, [Next]_vars PROVE TypeInv'
  OBVIOUS
<1>1. CASE Next
  <2>1. ASSUME NEW s \in SignIns, NEW e \in Emails, Known(s, e) \/ Unknown(s, e) PROVE TypeInv'
    BY <2>1, KnownTypes, UnknownTypes
  <2>2. ASSUME NEW s \in SignIns, ReadUsers(s) \/ AppendUser(s) PROVE TypeInv'
    BY <2>2, ReadUsersTypes, AppendUserTypes
  <2>3. ASSUME NEW s \in SignIns, OpenFile(s) \/ WriteFile(s) \/ WriteFails(s) PROVE TypeInv'
    BY <2>3, OpenFileTypes, WriteFileTypes, WriteFailsTypes
  <2>4. ASSUME NEW s \in SignIns, GiveCookie(s) PROVE TypeInv'
    BY <2>4, GiveCookieTypes
  <2>5. ASSUME NEW c \in cookies, AuthLogout(c) \/ Expire(c) PROVE TypeInv'
    BY <2>5, AuthLogoutTypes, ExpireTypes
  <2> QED
    BY <1>1, <2>1, <2>2, <2>3, <2>4, <2>5, RestartTypes DEF Next
<1>2. CASE UNCHANGED vars
  BY <1>2 DEF vars, listVars, cookieVars, history, TypeInv, TypeOK, Parts, Room, Pending, At
<1> QED
  BY <1>1, <1>2

\* The users, the list, the file and the sign-ins have the shapes the code gives
\* them, and the list never grows past the users that were made, whichever way
\* appends cross (oauth.go:376-388, user.go:33-66).
THEOREM TypeCorrect == Spec => []TypeOK
<1>1. TypeInv => TypeOK
  BY DEF TypeInv
<1> QED
  BY <1>1, InitTypes, StepKeepsTypes, PTL DEF Spec

-----------------------------------------------------------------------------
(* Users stay distinct.                                                    *)

\* Addresses never change, but at a restart.
EmailsKept ==
  /\ DOMAIN user \subseteq DOMAIN user'
  /\ \A p \in DOMAIN user : user'[p].email = user[p].email

\* The same list, of users whose addresses stay.
LEMMA SameListed ==
  ASSUME TypeOK, users' = users, EmailsKept
  PROVE  /\ \A i \in DOMAIN users : user'[users'[i]].email = user[users[i]].email
         /\ \A e : HasUser(e)' <=> HasUser(e)
         /\ ListDistinct => ListDistinct'
<1>1. \A i \in DOMAIN users : user'[users'[i]].email = user[users[i]].email
  BY ListParts DEF EmailsKept
<1> QED
  BY <1>1 DEF HasUser, ListDistinct

\* A step that leaves the list as it is, and makes no user.
LEMMA StepOrderly ==
  ASSUME TypeInv, Orderly, NEW s \in SignIns, NEW q \in SignIn, Goto(s, q),
         users' = users, EmailsKept, Distinct(file'),
         q.phase \in {"made", "appending"} =>
           signIn[s].phase = "made" /\ q.at = signIn[s].at,
         q.phase \in {"listed", "writing"} =>
           signIn[s].phase = "listed" /\ q.at = signIn[s].at,
         q.phase = "appending" => q.saw = users,
         q.phase = "writing" => Distinct(q.text)
  PROVE  Orderly'
<1>1. TypeOK /\ Parts
  BY DEF TypeInv
<1>2. \A t \in SignIns : signIn'[t] = IF t = s THEN q ELSE signIn[t]
  BY <1>1, OneStep
<1>3. OneMaker'
  BY <1>2 DEF Orderly, OneMaker, Making
<1>4. NewIsNew'
  <2> SUFFICES ASSUME NEW t \in SignIns, signIn'[t].phase \in {"made", "appending"}
               PROVE  \A i \in DOMAIN users' : user'[users'[i]].email # user'[signIn'[t].at].email
    BY DEF NewIsNew, Pending, HasUser
  <2>1. t \in Pending /\ signIn'[t].at = signIn[t].at
    BY <1>2 DEF Pending
  <2>2. signIn[t].at \in DOMAIN user
    BY <1>1, <2>1 DEF Parts, Pending
  <2>3. user'[signIn'[t].at].email = user[signIn[t].at].email
    BY <2>1, <2>2 DEF EmailsKept
  <2>4. ~HasUser(user[signIn[t].at].email)
    BY <2>1 DEF Orderly, NewIsNew
  <2> QED
    BY <1>1, <2>3, <2>4, SameListed DEF HasUser
<1>5. SawAll'
  BY <1>2 DEF Orderly, SawAll, At
<1>6. NewIsListed'
  BY <1>2 DEF Orderly, NewIsListed
<1>7. ListDistinct'
  BY <1>1, SameListed DEF Orderly
<1>8. TextsDistinct'
  BY <1>2 DEF Orderly, TextsDistinct, At, Distinct
<1> QED
  BY <1>3, <1>4, <1>5, <1>6, <1>7, <1>8 DEF Orderly

LEMMA InitOrderly == Init => DistinctInv
<1> SUFFICES ASSUME Init PROVE Orderly
  BY InitTypes DEF DistinctInv
<1>1. \A s \in SignIns : signIn[s].phase = "idle"
  BY DEF Init, Idle
<1>2. ListDistinct /\ Distinct(file)
  BY StartDistinct DEF Init, ListDistinct, Distinct
<1> QED
  BY <1>1, <1>2 DEF Orderly, OneMaker, Making, NewIsNew, Pending, SawAll, NewIsListed,
     TextsDistinct, At

LEMMA KnownOrderly ==
  ASSUME TypeInv, Orderly, NEW s \in SignIns, NEW e \in Emails, Known(s, e)
  PROVE  Orderly'
<1> DEFINE q == [phase |-> "saved", at |-> FirstUser(e)]
<1>1. TypeOK
  BY DEF TypeInv
<1>2. FirstUser(e) \in Pointer
  BY <1>1, FirstUserFound, ListParts DEF Known
<1>3. q \in SignIn /\ q.phase = "saved"
  BY <1>2 DEF SignIn
<1>4. Goto(s, q) /\ UNCHANGED <<users, user, file>>
  BY DEF Known, listVars
<1> HIDE DEF q
<1> QED
  BY <1>3, <1>4, StepOrderly DEF EmailsKept, Orderly, TextsDistinct, Distinct

\* The only one that makes a user, when nobody ran into anybody.
LEMMA UnknownOrderly ==
  ASSUME TypeInv, Orderly, NEW s \in SignIns, NEW e \in Emails, Unknown(s, e), ~crossed'
  PROVE  Orderly'
<1> DEFINE q == [phase |-> "made", at |-> Len(user) + 1]
<1>1. TypeOK /\ Parts
  BY DEF TypeInv
<1>2. user' = Append(user, [email |-> e, session |-> NoSession]) /\ Goto(s, q)
      /\ ~HasUser(e) /\ UNCHANGED <<users, file>>
  BY DEF Unknown
<1>3. \A t \in SignIns : ~Making(t)
  BY DEF Unknown
<1>4. q \in SignIn
  <2>1. Len(user) + 1 \in Pointer
    BY <1>1, BoundsAssumption, ListParts DEF Unknown, Pointer
  <2> QED
    BY <2>1 DEF SignIn
<1>5. q.phase = "made" /\ q.at = Len(user) + 1
  OBVIOUS
<1> HIDE DEF q
<1>6. \A t \in SignIns : signIn'[t] = IF t = s THEN q ELSE signIn[t]
  BY <1>1, <1>2, <1>4, OneStep
<1>7. EmailsKept /\ user'[q.at].email = e
  BY <1>1, <1>2, <1>5, ListParts DEF EmailsKept, TypeOK
<1>8. NewIsNew'
  <2> SUFFICES ASSUME NEW t \in SignIns, signIn'[t].phase \in {"made", "appending"}
               PROVE  \A i \in DOMAIN users' : user'[users'[i]].email # user'[signIn'[t].at].email
    BY DEF NewIsNew, Pending, HasUser
  <2>1. t = s
    BY <1>3, <1>6 DEF Making
  <2>2. user'[signIn'[t].at].email = e
    BY <1>6, <1>7, <2>1
  <2> QED
    BY <1>1, <1>2, <1>7, <2>2, SameListed DEF HasUser
<1>9. OneMaker' /\ SawAll' /\ NewIsListed'
  BY <1>3, <1>5, <1>6 DEF OneMaker, SawAll, NewIsListed, Making, At
<1>10. ListDistinct'
  BY <1>1, <1>2, <1>7, SameListed DEF Orderly
<1>11. TextsDistinct'
  BY <1>2, <1>5, <1>6 DEF Orderly, TextsDistinct, At, Distinct
<1> QED
  BY <1>8, <1>9, <1>10, <1>11 DEF Orderly

LEMMA ReadUsersOrderly ==
  ASSUME TypeInv, Orderly, NEW s \in SignIns, ReadUsers(s)
  PROVE  Orderly'
<1> DEFINE q == [phase |-> "appending", at |-> signIn[s].at, saw |-> users]
<1>1. TypeOK
  BY DEF TypeInv
<1>2. signIn[s].phase = "made" /\ Goto(s, q) /\ UNCHANGED <<users, user, file>>
  BY DEF ReadUsers, At, listVars
<1>3. q \in SignIn
  <2>1. users \in Seq(Pointer)
    <3>1. DOMAIN user \subseteq Pointer
      BY <1>1, ListParts
    <3> QED
      BY <1>1, <3>1 DEF TypeOK
  <2>2. signIn[s].at \in Pointer
    BY <1>1, <1>2, Phases
  <2> QED
    BY <2>1, <2>2 DEF SignIn
<1>4. q.phase = "appending" /\ q.at = signIn[s].at /\ q.saw = users
  OBVIOUS
<1> HIDE DEF q
<1> QED
  BY <1>2, <1>3, <1>4, StepOrderly DEF EmailsKept, Orderly, TextsDistinct, Distinct

\* What was read is what is there, so the new user comes last and nobody is lost.
LEMMA Appended ==
  ASSUME TypeInv, Orderly, NEW s \in SignIns, AppendUser(s)
  PROVE  /\ users' = Append(users, signIn[s].at) /\ user' = user
         /\ Len(users') = Len(users) + 1 /\ DOMAIN users' = 1..(Len(users) + 1)
         /\ \A i \in DOMAIN users : users'[i] = users[i]
         /\ users'[Len(users) + 1] = signIn[s].at
<1>1. signIn[s].saw = users
  BY DEF AppendUser, Orderly, SawAll, At
<1>2. users \in Seq(DOMAIN user) /\ DOMAIN users = 1..Len(users) /\ Len(users) \in Nat
  BY ListParts DEF TypeInv, TypeOK
<1>3. DOMAIN users \cap {Len(users) + 1} = {}
  BY <1>2
<1>4. users' = Append(users, signIn[s].at)
  BY <1>1, <1>3 DEF AppendUser
<1> QED
  BY <1>2, <1>4 DEF AppendUser

LEMMA AppendUserOrderly ==
  ASSUME TypeInv, Orderly, NEW s \in SignIns, AppendUser(s)
  PROVE  Orderly'
<1> DEFINE q == [phase |-> "listed", at |-> signIn[s].at]
<1>1. TypeOK
  BY DEF TypeInv
<1>2. signIn[s].phase = "appending" /\ Goto(s, q) /\ file' = file
  BY DEF AppendUser, At
<1>3. q \in SignIn /\ q.phase = "listed" /\ q.at = signIn[s].at
  <2>1. signIn[s].at \in Pointer
    BY <1>1, <1>2, Phases
  <2> QED
    BY <2>1 DEF SignIn
<1> HIDE DEF q
<1>4. \A t \in SignIns : signIn'[t] = IF t = s THEN q ELSE signIn[t]
  BY <1>1, <1>2, <1>3, OneStep
<1>5. \A t \in SignIns \ {s} : ~Making(t)
  BY <1>2 DEF Orderly, OneMaker, Making
<1>6. OneMaker' /\ SawAll' /\ NewIsNew'
  BY <1>3, <1>4, <1>5 DEF OneMaker, SawAll, NewIsNew, Pending, Making, At
<1>7. Len(users) \in Nat /\ DOMAIN users = 1..Len(users)
  BY <1>1, ListParts
<1>8. NewIsListed'
  <2>1. Len(users) + 1 \in DOMAIN users' /\ users'[Len(users) + 1] = signIn[s].at
    BY <1>7, Appended
  <2> QED
    BY <1>3, <1>4, <1>5, <2>1 DEF NewIsListed, Making
<1>9. ListDistinct'
  <2>1. \A i \in DOMAIN users : user[users[i]].email # user[signIn[s].at].email
    BY <1>2 DEF Orderly, NewIsNew, Pending, HasUser
  <2>2. \A i \in DOMAIN users' : i \in DOMAIN users \/ i = Len(users) + 1
    BY <1>7, Appended
  <2>3. \A i \in DOMAIN users : user'[users'[i]].email = user[users[i]].email
    BY Appended
  <2>4. user'[users'[Len(users) + 1]].email = user[signIn[s].at].email
    BY Appended
  <2> QED
    BY <2>1, <2>2, <2>3, <2>4 DEF ListDistinct, Orderly
<1>10. TextsDistinct'
  BY <1>2, <1>3, <1>4 DEF Orderly, TextsDistinct, At, Distinct
<1> QED
  BY <1>6, <1>8, <1>9, <1>10 DEF Orderly

LEMMA OpenFileOrderly ==
  ASSUME TypeInv, Orderly, NEW s \in SignIns, OpenFile(s)
  PROVE  Orderly'
<1> DEFINE q == [phase |-> "writing", at |-> signIn[s].at, text |-> Text]
<1>1. TypeOK
  BY DEF TypeInv
<1>2. signIn[s].phase = "listed" /\ Goto(s, q) /\ UNCHANGED <<users, user>> /\ file' = <<>>
  BY DEF OpenFile, At, listVars
<1>3. q \in SignIn
  <2>1. signIn[s].at \in Pointer
    BY <1>1, <1>2, Phases
  <2> QED
    BY <2>1, TextTypes DEF SignIn
<1>4. q.phase = "writing" /\ q.at = signIn[s].at /\ q.text = Text
  OBVIOUS
<1> HIDE DEF q
<1>5. Distinct(Text)
  BY TextTypes DEF Distinct, Orderly, ListDistinct
<1>6. Distinct(file')
  BY <1>2 DEF Distinct
<1> QED
  BY <1>2, <1>3, <1>4, <1>5, <1>6, StepOrderly DEF EmailsKept

LEMMA WriteEndsOrderly ==
  ASSUME TypeInv, Orderly, NEW s \in SignIns, WriteFile(s) \/ WriteFails(s)
  PROVE  Orderly'
<1> DEFINE q == [phase |-> "saved", at |-> signIn[s].at]
<1>1. TypeOK
  BY DEF TypeInv
<1>2. signIn[s].phase \in {"listed", "writing"} /\ Goto(s, q) /\ UNCHANGED <<users, user>>
  BY DEF WriteFile, WriteFails, At, listVars
<1>3. q \in SignIn /\ q.phase = "saved" /\ q.at = signIn[s].at
  <2>1. signIn[s].at \in Pointer
    BY <1>1, <1>2, Phases
  <2> QED
    BY <2>1 DEF SignIn
<1> HIDE DEF q
<1>4. Distinct(file')
  BY DEF WriteFile, WriteFails, Orderly, TextsDistinct, Distinct, At
<1> QED
  BY <1>2, <1>3, <1>4, StepOrderly DEF EmailsKept

\* A session changes, and no address.
LEMMA SessionSet ==
  ASSUME TypeOK, NEW p \in DOMAIN user, NEW n, user' = [user EXCEPT ![p].session = n]
  PROVE  EmailsKept
<1>1. \A i \in DOMAIN user : user[i] \in [email : Emails, session : Sessions \cup {NoSession}]
  BY ListParts DEF User
<1> QED
  BY <1>1 DEF EmailsKept

LEMMA GiveCookieOrderly ==
  ASSUME TypeInv, Orderly, NEW s \in SignIns, GiveCookie(s)
  PROVE  Orderly' /\ EmailsKept
<1>1. TypeOK /\ Parts
  BY DEF TypeInv
<1>2. signIn[s].phase = "saved" /\ Goto(s, Idle) /\ UNCHANGED <<users, file>>
      /\ user' = [user EXCEPT ![signIn[s].at].session = given + 1]
  BY DEF GiveCookie, MayGive, At
<1>3. signIn[s].at \in DOMAIN user
  BY <1>1, <1>2 DEF Parts
<1>4. EmailsKept
  BY <1>1, <1>2, <1>3, SessionSet
<1>5. Idle \in SignIn /\ Idle.phase = "idle"
  BY DEF SignIn, Idle
<1> QED
  BY <1>2, <1>4, <1>5, StepOrderly DEF Orderly, TextsDistinct, Distinct

LEMMA AuthLogoutOrderly ==
  ASSUME TypeInv, Orderly, NEW c \in cookies, AuthLogout(c)
  PROVE  Orderly' /\ EmailsKept
<1>1. TypeOK /\ Parts
  BY DEF TypeInv
<1>2. HasUser(c.email) /\ UNCHANGED <<users, file, signIn>>
      /\ user' = [user EXCEPT ![FirstUser(c.email)].session = NoSession]
  BY DEF AuthLogout, Accepted
<1>3. FirstUser(c.email) \in DOMAIN user
  BY <1>1, <1>2, FirstUserFound, ListParts
<1>4. EmailsKept
  BY <1>1, <1>2, <1>3, SessionSet
<1>5. NewIsNew'
  <2> SUFFICES ASSUME NEW t \in Pending
               PROVE  \A i \in DOMAIN users' : user'[users'[i]].email # user'[signIn[t].at].email
    BY <1>2 DEF NewIsNew, Pending, HasUser
  <2>1. user'[signIn[t].at].email = user[signIn[t].at].email
    BY <1>1, <1>4 DEF Parts, EmailsKept, Pending
  <2> QED
    BY <1>1, <1>2, <1>4, <2>1, SameListed DEF Orderly, NewIsNew, HasUser
<1>6. ListDistinct'
  BY <1>1, <1>2, <1>4, SameListed DEF Orderly
<1> QED
  BY <1>2, <1>4, <1>5, <1>6 DEF Orderly, OneMaker, Making, SawAll, NewIsListed, TextsDistinct,
     Distinct, At

LEMMA RestartOrderly ==
  ASSUME TypeInv, Orderly, Restart
  PROVE  Orderly'
<1>1. user' = file /\ users' = [i \in DOMAIN file |-> i] /\ file' = file
      /\ signIn' = [s \in SignIns |-> Idle]
  BY DEF Restart, Read
<1>2. \A s \in SignIns : signIn'[s].phase = "idle"
  BY <1>1 DEF Idle
<1>3. ListDistinct' /\ Distinct(file')
  BY <1>1 DEF ListDistinct, Distinct, Orderly, TextsDistinct
<1> QED
  BY <1>2, <1>3 DEF Orderly, OneMaker, Making, NewIsNew, Pending, SawAll, NewIsListed,
     TextsDistinct, At

LEMMA StepKeepsDistinct == DistinctInv /\ [Next]_vars => DistinctInv'
<1> SUFFICES ASSUME DistinctInv, [Next]_vars, ~crossed' PROVE Orderly'
  BY StepKeepsTypes DEF DistinctInv
<1>1. TypeInv
  BY DEF DistinctInv
<1>2. ~crossed
  <2>1. crossed => crossed'
    BY DEF Next, vars, history, Known, Unknown, ReadUsers, AppendUser, OpenFile, WriteFile,
       WriteFails, GiveCookie, AuthLogout, Expire, Restart
  <2> QED
    BY <2>1
<1>3. Orderly
  BY <1>2 DEF DistinctInv
<1>4. CASE Next
  <2>1. ASSUME NEW s \in SignIns, NEW e \in Emails, Known(s, e) \/ Unknown(s, e) PROVE Orderly'
    BY <1>1, <1>3, <2>1, KnownOrderly, UnknownOrderly
  <2>2. ASSUME NEW s \in SignIns, ReadUsers(s) \/ AppendUser(s) PROVE Orderly'
    BY <1>1, <1>3, <2>2, ReadUsersOrderly, AppendUserOrderly
  <2>3. ASSUME NEW s \in SignIns, OpenFile(s) \/ WriteFile(s) \/ WriteFails(s) PROVE Orderly'
    BY <1>1, <1>3, <2>3, OpenFileOrderly, WriteEndsOrderly
  <2>4. ASSUME NEW s \in SignIns, GiveCookie(s) PROVE Orderly'
    BY <1>1, <1>3, <2>4, GiveCookieOrderly
  <2>5. ASSUME NEW c \in cookies, AuthLogout(c) PROVE Orderly'
    BY <1>1, <1>3, <2>5, AuthLogoutOrderly
  <2>6. ASSUME NEW c \in cookies, Expire(c) PROVE Orderly'
    BY <1>3, <2>6 DEF Expire, listVars, Orderly, OneMaker, Making, NewIsNew, Pending, SawAll,
       NewIsListed, ListDistinct, TextsDistinct, Distinct, At, HasUser
  <2>7. ASSUME Restart PROVE Orderly'
    BY <1>1, <1>3, <2>7, RestartOrderly
  <2> QED
    BY <1>4, <2>1, <2>2, <2>3, <2>4, <2>5, <2>6, <2>7 DEF Next
<1>5. CASE UNCHANGED vars
  BY <1>3, <1>5 DEF vars, listVars, Orderly, OneMaker, Making, NewIsNew, Pending, SawAll,
     NewIsListed, ListDistinct, TextsDistinct, Distinct, At, HasUser
<1> QED
  BY <1>4, <1>5

\* Two users never have the same address unless a sign-in ran into one that was
\* making a user (oauth.go:376-388).
THEOREM UsersAreDistinct == Spec => []UsersDistinct
<1>1. DistinctInv => UsersDistinct
  BY DEF DistinctInv, Orderly, ListDistinct, UsersDistinct
<1> QED
  BY <1>1, InitOrderly, StepKeepsDistinct, PTL DEF Spec

-----------------------------------------------------------------------------
(* Sign-ins last.                                                          *)

\* The list loses nobody, and no address changes.
ListKept ==
  /\ EmailsKept
  /\ \A i \in DOMAIN users : i \in DOMAIN users' /\ users'[i] = users[i]

LEMMA SameListKept ==
  ASSUME users' = users, EmailsKept
  PROVE  ListKept
BY DEF ListKept

\* An address stays settled as long as nobody starts making a user.
LEMMA StaysSettled ==
  ASSUME TypeInv, ListKept, NEW e, Settled(e),
         \A t \in SignIns : Making(t)' => Making(t) /\ signIn'[t].at = signIn[t].at
  PROVE  Settled(e)'
<1>1. TypeOK /\ Parts
  BY DEF TypeInv
<1>2. HasUser(e)'
  <2>1. PICK i \in DOMAIN users : user[users[i]].email = e
    BY DEF Settled, HasUser
  <2>2. i \in DOMAIN users' /\ user'[users'[i]].email = e
    BY <1>1, <2>1, ListParts DEF ListKept, EmailsKept
  <2> QED
    BY <2>2 DEF HasUser
<1>3. ASSUME NEW t \in SignIns, Making(t)'
      PROVE  user'[signIn'[t].at].email # e
  <2>1. Making(t) /\ signIn'[t].at = signIn[t].at
    BY <1>3
  <2>2. signIn[t].at \in DOMAIN user
    BY <1>1, <2>1 DEF Parts, Making
  <2>3. user'[signIn'[t].at].email = user[signIn[t].at].email
    BY <2>1, <2>2 DEF ListKept, EmailsKept
  <2> QED
    BY <2>1, <2>3 DEF Settled
<1> QED
  BY <1>2, <1>3 DEF Settled

\* A step of one sign-in, whose user is settled when it becomes "saved".
LEMMA StepSignedIn ==
  ASSUME TypeInv, SignedIn, ListKept, cookies' = cookies,
         NEW s \in SignIns, NEW q \in SignIn, Goto(s, q),
         q.phase \in {"made", "appending", "listed", "writing"} =>
           Making(s) /\ q.at = signIn[s].at,
         q.phase = "saved" => Settled(user[q.at].email)' /\ q.at \in DOMAIN user
  PROVE  SignedIn'
<1>1. TypeOK /\ Parts
  BY DEF TypeInv
<1>2. \A t \in SignIns : signIn'[t] = IF t = s THEN q ELSE signIn[t]
  BY <1>1, OneStep
<1>3. \A t \in SignIns : Making(t)' => Making(t) /\ signIn'[t].at = signIn[t].at
  BY <1>2 DEF Making
<1>4. ASSUME NEW c \in cookies' PROVE Settled(c.email)'
  <2>1. Settled(c.email)
    BY <1>4 DEF SignedIn
  <2> QED
    BY <1>3, <2>1, StaysSettled
<1>5. ASSUME NEW t \in SignIns, signIn'[t].phase = "saved"
      PROVE  Settled(user[signIn[t].at].email)'
  <2>1. CASE t = s
    <3>1. signIn'[t] = q
      BY <1>2, <2>1
    <3> QED
      BY <1>5, <3>1
  <2>2. CASE t # s
    <3>1. signIn'[t] = signIn[t]
      BY <1>2, <2>2
    <3>2. PICK e : e = user[signIn[t].at].email
      OBVIOUS
    <3>3. Settled(e)
      BY <1>5, <3>1, <3>2 DEF SignedIn, At
    <3>4. Settled(e)'
      BY <1>3, <3>3, StaysSettled
    <3>5. user'[signIn'[t].at].email = e
      BY <1>1, <1>5, <3>1, <3>2 DEF Parts, ListKept, EmailsKept
    <3> QED
      BY <3>4, <3>5
  <2> QED
    BY <2>1, <2>2
<1> QED
  BY <1>4, <1>5 DEF SignedIn, At

\* A user somebody is making has an address of its own.
LEMMA MadeIsOther ==
  ASSUME TypeInv, Orderly, NEW e, HasUser(e),
         NEW t \in SignIns, Making(t), signIn[t].at # FirstUser(e)
  PROVE  user[signIn[t].at].email # e
<1>1. TypeOK
  BY DEF TypeInv
<1>2. CASE t \in Pending
  BY <1>2 DEF Orderly, NewIsNew
<1>3. CASE signIn[t].phase \in {"listed", "writing"}
  <2>1. PICK i \in DOMAIN users : users[i] = signIn[t].at
    BY <1>3 DEF Orderly, NewIsListed
  <2>2. PICK j \in DOMAIN users : users[j] = FirstUser(e) /\ user[users[j]].email = e
    BY <1>1, FirstUserFound
  <2> QED
    BY <2>1, <2>2 DEF Orderly, ListDistinct
<1> QED
  BY <1>2, <1>3 DEF Making, Pending

LEMMA KnownLasts ==
  ASSUME TypeInv, Orderly, Written, SignedIn, NEW s \in SignIns, NEW e \in Emails,
         Known(s, e), ~crossed'
  PROVE  Written' /\ SignedIn'
<1>1. TypeOK /\ Parts
  BY DEF TypeInv
<1>2. HasUser(e) /\ signIn[s].phase = "idle" /\ UNCHANGED <<users, user, file, cookies>>
  BY DEF Known, At, listVars, cookieVars
<1>3. PICK q : q = [phase |-> "saved", at |-> FirstUser(e)]
  OBVIOUS
<1>4. q \in SignIn /\ q.phase = "saved" /\ q.at = FirstUser(e) /\ Goto(s, q)
  <2>1. FirstUser(e) \in Pointer
    BY <1>1, <1>2, FirstUserFound, ListParts
  <2> QED
    BY <1>3, <2>1 DEF SignIn, Known
<1>5. \A t \in SignIns : signIn'[t] = IF t = s THEN q ELSE signIn[t]
  BY <1>1, <1>4, OneStep
<1>6. Written'
  BY <1>2, <1>4, <1>5 DEF Written, InText, At
<1>7. \A t \in SignIns : Making(t) => signIn[t].at # FirstUser(e)
  BY DEF Known
<1>8. Settled(e)
  BY <1>2, <1>7, MadeIsOther DEF Settled
<1>9. ListKept
  BY <1>2 DEF ListKept, EmailsKept
<1>10. Settled(e)'
  <2>1. \A t \in SignIns : Making(t)' => Making(t) /\ signIn'[t].at = signIn[t].at
    BY <1>4, <1>5 DEF Making
  <2> QED
    BY <1>8, <1>9, <2>1, StaysSettled
<1>11. q.at \in DOMAIN user /\ user'[q.at].email = e
  BY <1>1, <1>2, <1>4, FirstUserFound, ListParts
<1>12. Settled(user[q.at].email)'
  BY <1>10, <1>11
<1> QED
  BY <1>2, <1>4, <1>6, <1>9, <1>11, <1>12, StepSignedIn

LEMMA UnknownLasts ==
  ASSUME TypeInv, Orderly, Written, SignedIn, NEW s \in SignIns, NEW e \in Emails,
         Unknown(s, e), ~crossed'
  PROVE  Written' /\ SignedIn'
<1>1. TypeOK /\ Parts
  BY DEF TypeInv
<1>2. user' = Append(user, [email |-> e, session |-> NoSession]) /\ ~HasUser(e)
      /\ signIn[s].phase = "idle" /\ UNCHANGED <<users, file, cookies>>
  BY DEF Unknown, At, cookieVars
<1>3. \A t \in SignIns : ~Making(t)
  BY DEF Unknown
<1>4. PICK q : q = [phase |-> "made", at |-> Len(user) + 1]
  OBVIOUS
<1>5. q \in SignIn /\ q.phase = "made" /\ q.at = Len(user) + 1 /\ Goto(s, q)
  <2>1. Len(user) + 1 \in Pointer
    BY <1>1, BoundsAssumption, ListParts DEF Unknown, Pointer
  <2> QED
    BY <1>4, <2>1 DEF SignIn, Unknown
<1>6. \A t \in SignIns : signIn'[t] = IF t = s THEN q ELSE signIn[t]
  BY <1>1, <1>5, OneStep
<1>7. EmailsKept /\ user'[q.at].email = e
  BY <1>1, <1>2, <1>5, ListParts DEF EmailsKept, TypeOK
<1>8. \A i \in DOMAIN users : user'[users'[i]].email = user[users[i]].email
  BY <1>1, <1>2, <1>7, SameListed
<1>9. Written'
  <2>1. \A i \in DOMAIN users : InText(file, user[users[i]].email)
    BY <1>3 DEF Written, At, Making
  <2>2. \A t \in SignIns : signIn'[t].phase # "writing"
    BY <1>3, <1>5, <1>6 DEF Making
  <2>3. \A i \in DOMAIN users' : InText(file', user'[users'[i]].email)
    BY <1>2, <1>8, <2>1
  <2> QED
    BY <2>2, <2>3 DEF Written, At, InText
<1>10. ASSUME NEW d, Settled(d) PROVE Settled(d)'
  <2>1. HasUser(d)'
    BY <1>1, <1>2, <1>7, <1>10, SameListed DEF Settled
  <2>2. d # e
    BY <1>2, <1>10 DEF Settled
  <2> QED
    BY <1>3, <1>5, <1>6, <1>7, <2>1, <2>2 DEF Settled, Making
<1>11. ASSUME NEW c \in cookies' PROVE Settled(c.email)'
  <2>1. Settled(c.email)
    BY <1>2, <1>11 DEF SignedIn
  <2> QED
    BY <1>10, <2>1
<1>12. ASSUME NEW t \in SignIns, signIn'[t].phase = "saved"
       PROVE  Settled(user[signIn[t].at].email)'
  <2>1. signIn'[t] = signIn[t]
    BY <1>5, <1>6, <1>12
  <2>2. PICK d : d = user[signIn[t].at].email
    OBVIOUS
  <2>3. Settled(d)
    BY <1>12, <2>1, <2>2 DEF SignedIn, At
  <2>4. Settled(d)'
    BY <1>10, <2>3
  <2>5. user'[signIn'[t].at].email = d
    BY <1>1, <1>7, <1>12, <2>1, <2>2 DEF Parts, EmailsKept
  <2> QED
    BY <2>4, <2>5
<1> QED
  BY <1>9, <1>11, <1>12 DEF SignedIn, At

LEMMA ReadUsersLasts ==
  ASSUME TypeInv, Orderly, Written, SignedIn, NEW s \in SignIns, ReadUsers(s)
  PROVE  Written' /\ SignedIn'
<1>1. TypeOK
  BY DEF TypeInv
<1>2. signIn[s].phase = "made" /\ UNCHANGED <<users, user, file, cookies>>
  BY DEF ReadUsers, At, listVars, cookieVars
<1>3. PICK q : q = [phase |-> "appending", at |-> signIn[s].at, saw |-> users]
  OBVIOUS
<1>4. q \in SignIn /\ q.phase = "appending" /\ q.at = signIn[s].at /\ Goto(s, q)
  <2>1. users \in Seq(Pointer)
    <3>1. DOMAIN user \subseteq Pointer
      BY <1>1, ListParts
    <3> QED
      BY <1>1, <3>1 DEF TypeOK
  <2>2. signIn[s].at \in Pointer
    BY <1>1, <1>2, Phases
  <2> QED
    BY <1>3, <2>1, <2>2 DEF SignIn, ReadUsers
<1>5. \A t \in SignIns : signIn'[t] = IF t = s THEN q ELSE signIn[t]
  BY <1>1, <1>4, OneStep
<1>6. Written'
  BY <1>2, <1>4, <1>5 DEF Written, InText, At
<1>7. ListKept
  BY <1>2 DEF ListKept, EmailsKept
<1> QED
  BY <1>2, <1>4, <1>6, <1>7, StepSignedIn DEF Making

LEMMA AppendUserLasts ==
  ASSUME TypeInv, Orderly, Written, SignedIn, NEW s \in SignIns, AppendUser(s)
  PROVE  Written' /\ SignedIn'
<1>1. TypeOK
  BY DEF TypeInv
<1>2. signIn[s].phase = "appending" /\ UNCHANGED <<user, file, cookies>>
  BY DEF AppendUser, At, cookieVars
<1>3. PICK q : q = [phase |-> "listed", at |-> signIn[s].at]
  OBVIOUS
<1>4. q \in SignIn /\ q.phase = "listed" /\ q.at = signIn[s].at /\ Goto(s, q)
  <2>1. signIn[s].at \in Pointer
    BY <1>1, <1>2, Phases
  <2> QED
    BY <1>3, <2>1 DEF SignIn, AppendUser
<1>5. \A t \in SignIns : signIn'[t] = IF t = s THEN q ELSE signIn[t]
  BY <1>1, <1>4, OneStep
<1>6. \A t \in SignIns \ {s} : ~Making(t)
  BY <1>2 DEF Orderly, OneMaker, Making
<1>7. Len(users) \in Nat /\ DOMAIN users = 1..Len(users)
  BY <1>1, ListParts
<1>8. \A t \in SignIns : ~At(t, "writing") /\ ~At(t, "listed") /\ ~At(t, "writing")'
  BY <1>2, <1>4, <1>5, <1>6 DEF Making, At
<1>9. \A i \in DOMAIN users' :
         \/ i \in DOMAIN users /\ users'[i] = users[i]
         \/ users'[i] = signIn[s].at
  BY <1>7, Appended
<1>10. Written'
  BY <1>2, <1>4, <1>5, <1>8, <1>9 DEF Written, InText, At
<1>11. ListKept
  BY <1>2, <1>7, Appended DEF ListKept, EmailsKept
<1> QED
  BY <1>2, <1>4, <1>10, <1>11, StepSignedIn DEF Making

LEMMA OpenFileLasts ==
  ASSUME TypeInv, Orderly, Written, SignedIn, NEW s \in SignIns, OpenFile(s)
  PROVE  Written' /\ SignedIn'
<1>1. TypeOK
  BY DEF TypeInv
<1>2. signIn[s].phase = "listed" /\ UNCHANGED <<users, user, cookies>>
  BY DEF OpenFile, At, listVars, cookieVars
<1>3. PICK q : q = [phase |-> "writing", at |-> signIn[s].at, text |-> Text]
  OBVIOUS
<1>4. q \in SignIn /\ q.phase = "writing" /\ q.at = signIn[s].at /\ q.text = Text /\ Goto(s, q)
  <2>1. signIn[s].at \in Pointer
    BY <1>1, <1>2, Phases
  <2> QED
    BY <1>3, <2>1, TextTypes DEF SignIn, OpenFile
<1>5. \A t \in SignIns : signIn'[t] = IF t = s THEN q ELSE signIn[t]
  BY <1>1, <1>4, OneStep
<1>6. \A t \in SignIns \ {s} : ~Making(t)
  BY <1>2 DEF Orderly, OneMaker, Making
<1>7. \A i \in DOMAIN users : InText(Text, user[users[i]].email)
  BY TextTypes DEF InText
<1>8. Written'
  <2>1. ASSUME NEW t \in SignIns, signIn'[t].phase = "writing", NEW i \in DOMAIN users'
        PROVE  InText(signIn'[t].text, user'[users'[i]].email)
    <3>1. t = s
      BY <1>5, <1>6, <2>1 DEF Making
    <3> QED
      BY <1>2, <1>4, <1>5, <1>7, <2>1, <3>1
  <2>2. signIn'[s].phase = "writing"
    BY <1>4, <1>5
  <2> QED
    BY <2>1, <2>2 DEF Written, At, InText
<1>9. ListKept
  BY <1>2 DEF ListKept, EmailsKept
<1> QED
  BY <1>2, <1>4, <1>8, <1>9, StepSignedIn DEF Making

LEMMA WriteFileLasts ==
  ASSUME TypeInv, Orderly, Written, SignedIn, NEW s \in SignIns, WriteFile(s)
  PROVE  Written' /\ SignedIn'
<1>1. TypeOK /\ Parts
  BY DEF TypeInv
<1>2. signIn[s].phase = "writing" /\ file' = signIn[s].text
      /\ UNCHANGED <<users, user, cookies>>
  BY DEF WriteFile, At, listVars, cookieVars
<1>3. PICK q : q = [phase |-> "saved", at |-> signIn[s].at]
  OBVIOUS
<1>4. q \in SignIn /\ q.phase = "saved" /\ q.at = signIn[s].at /\ Goto(s, q)
  <2>1. signIn[s].at \in Pointer
    BY <1>1, <1>2, Phases
  <2> QED
    BY <1>3, <2>1 DEF SignIn, WriteFile
<1>5. \A t \in SignIns : signIn'[t] = IF t = s THEN q ELSE signIn[t]
  BY <1>1, <1>4, OneStep
<1>6. \A t \in SignIns \ {s} : ~Making(t)
  BY <1>2 DEF Orderly, OneMaker, Making
<1>7. \A t \in SignIns : ~Making(t)'
  BY <1>4, <1>5, <1>6 DEF Making
<1>8. Written'
  <2>1. \A i \in DOMAIN users : InText(file', user[users[i]].email)
    BY <1>2 DEF Written, At
  <2> QED
    BY <1>2, <1>7, <2>1 DEF Written, Making, At, InText
<1>9. ListKept
  BY <1>2 DEF ListKept, EmailsKept
<1>10. Settled(user[q.at].email)'
  <2>1. \E i \in DOMAIN users : users[i] = signIn[s].at
    BY <1>2 DEF Orderly, NewIsListed
  <2>2. HasUser(user[q.at].email)'
    BY <1>2, <1>4, <2>1 DEF HasUser
  <2> QED
    BY <1>7, <2>2 DEF Settled
<1>11. q.at \in DOMAIN user
  BY <1>1, <1>2, <1>4 DEF Parts
<1> QED
  BY <1>2, <1>4, <1>8, <1>9, <1>10, <1>11, StepSignedIn

LEMMA GiveCookieLasts ==
  ASSUME TypeInv, Orderly, Written, SignedIn, NEW s \in SignIns, GiveCookie(s)
  PROVE  Written' /\ SignedIn'
<1>1. TypeOK /\ Parts
  BY DEF TypeInv
<1>2. signIn[s].phase = "saved" /\ UNCHANGED <<users, file>> /\ Goto(s, Idle)
      /\ cookies' = cookies \cup {[id |-> given + 1, email |-> user[signIn[s].at].email]}
  BY DEF GiveCookie, MayGive, At
<1>3. EmailsKept
  BY GiveCookieOrderly
<1>4. Idle \in SignIn /\ Idle.phase = "idle"
  BY DEF SignIn, Idle
<1>5. \A t \in SignIns : signIn'[t] = IF t = s THEN Idle ELSE signIn[t]
  BY <1>1, <1>2, <1>4, OneStep
<1>6. \A i \in DOMAIN users : user'[users'[i]].email = user[users[i]].email
  BY <1>1, <1>2, <1>3, SameListed
<1>7. Written'
  BY <1>2, <1>4, <1>5, <1>6 DEF Written, InText, At
<1>8. ListKept
  BY <1>2, <1>3 DEF ListKept
<1>9. \A t \in SignIns : Making(t)' => Making(t) /\ signIn'[t].at = signIn[t].at
  BY <1>4, <1>5 DEF Making
<1>10. ASSUME NEW c \in cookies' PROVE Settled(c.email)'
  <2>1. Settled(c.email)
    BY <1>2, <1>10 DEF SignedIn, At
  <2> QED
    BY <1>8, <1>9, <2>1, StaysSettled
<1>11. ASSUME NEW t \in SignIns, signIn'[t].phase = "saved"
       PROVE  Settled(user[signIn[t].at].email)'
  <2>1. signIn'[t] = signIn[t]
    BY <1>4, <1>5, <1>11
  <2>2. PICK e : e = user[signIn[t].at].email
    OBVIOUS
  <2>3. Settled(e)
    BY <1>11, <2>1, <2>2 DEF SignedIn, At
  <2>4. Settled(e)'
    BY <1>8, <1>9, <2>3, StaysSettled
  <2>5. user'[signIn'[t].at].email = e
    BY <1>1, <1>3, <1>11, <2>1, <2>2 DEF Parts, EmailsKept
  <2> QED
    BY <2>4, <2>5
<1> QED
  BY <1>7, <1>10, <1>11 DEF SignedIn, At

\* The steps that leave the list and the sign-ins alone.
LEMMA CookieLasts ==
  ASSUME TypeInv, Orderly, Written, SignedIn, EmailsKept,
         UNCHANGED <<users, file, signIn>>, cookies' \subseteq cookies
  PROVE  Written' /\ SignedIn'
<1>1. TypeOK /\ Parts
  BY DEF TypeInv
<1>2. \A i \in DOMAIN users : user'[users'[i]].email = user[users[i]].email
  BY <1>1, SameListed
<1>3. Written'
  BY <1>2 DEF Written, InText, At
<1>4. ListKept
  BY DEF ListKept
<1>5. ASSUME NEW e, Settled(e) PROVE Settled(e)'
  BY <1>4, <1>5, StaysSettled DEF Making
<1>6. \A c \in cookies' : Settled(c.email)'
  BY <1>5 DEF SignedIn
<1>7. ASSUME NEW t \in SignIns, signIn[t].phase = "saved"
      PROVE  Settled(user[signIn[t].at].email)'
  <2>1. PICK e : e = user[signIn[t].at].email
    OBVIOUS
  <2>2. Settled(e)'
    BY <1>5, <1>7, <2>1 DEF SignedIn, At
  <2>3. user'[signIn'[t].at].email = e
    BY <1>1, <1>7, <2>1 DEF Parts, EmailsKept
  <2> QED
    BY <2>2, <2>3
<1> QED
  BY <1>3, <1>6, <1>7 DEF SignedIn, At

\* Nothing is lost at a restart when nobody is writing the file.
LEMMA RestartLasts ==
  ASSUME TypeInv, Orderly, Written, SignedIn, Restart, ~spoiled'
  PROVE  Written' /\ SignedIn'
<1>1. user' = file /\ users' = [i \in DOMAIN file |-> i] /\ file' = file
      /\ signIn' = [s \in SignIns |-> Idle] /\ cookies' \subseteq cookies
  BY DEF Restart, Read
<1>2. \A s \in SignIns : signIn'[s].phase = "idle"
  BY <1>1 DEF Idle
<1>3. \A s \in SignIns : ~At(s, "writing")
  BY DEF Restart
<1>4. Written'
  BY <1>1, <1>2 DEF Written, At, InText
<1>5. ASSUME NEW c \in cookies' PROVE Settled(c.email)'
  <2>1. Settled(c.email)
    BY <1>1, <1>5 DEF SignedIn
  <2>2. PICK i \in DOMAIN users : user[users[i]].email = c.email
    BY <2>1 DEF Settled, HasUser
  <2>3. ~\E s \in SignIns : At(s, "listed") /\ signIn[s].at = users[i]
    BY <2>1, <2>2 DEF Settled, At, Making
  <2>4. InText(file, c.email)
    BY <1>3, <2>2, <2>3 DEF Written
  <2>5. HasUser(c.email)'
    BY <1>1, <2>4 DEF InText, HasUser
  <2> QED
    BY <1>2, <2>5 DEF Settled, Making
<1> QED
  BY <1>2, <1>4, <1>5 DEF SignedIn, At

LEMMA InitLasts == Init => LastInv
<1> SUFFICES ASSUME Init PROVE Written /\ SignedIn
  BY InitOrderly DEF LastInv
<1>1. \A s \in SignIns : signIn[s].phase = "idle"
  BY DEF Init, Idle
<1>2. cookies = {} /\ user = file /\ users = [i \in DOMAIN file |-> i]
  BY DEF Init
<1> QED
  BY <1>1, <1>2 DEF Written, SignedIn, At, InText

LEMMA StepKeepsLast == LastInv /\ [Next]_vars => LastInv'
<1> SUFFICES ASSUME LastInv, [Next]_vars, ~crossed', ~spoiled' PROVE Written' /\ SignedIn'
  BY StepKeepsDistinct DEF LastInv
<1>1. ~crossed /\ ~spoiled
  <2>1. crossed => crossed'
    BY DEF Next, vars, history, Known, Unknown, ReadUsers, AppendUser, OpenFile, WriteFile,
       WriteFails, GiveCookie, AuthLogout, Expire, Restart
  <2>2. spoiled => spoiled'
    <3>1. CASE Restart
      BY <3>1 DEF Restart
    <3>2. CASE \E s \in SignIns : WriteFails(s)
      BY <3>2 DEF WriteFails
    <3>3. CASE ~Restart /\ ~\E s \in SignIns : WriteFails(s)
      BY <3>3 DEF Next, vars, history, Known, Unknown, ReadUsers, AppendUser, OpenFile,
         WriteFile, GiveCookie, AuthLogout, Expire
    <3> QED
      BY <3>1, <3>2, <3>3
  <2> QED
    BY <2>1, <2>2
<1>2. TypeInv /\ Orderly /\ Written /\ SignedIn
  BY <1>1 DEF LastInv, DistinctInv
<1>3. CASE Next
  <2>1. ASSUME NEW s \in SignIns, NEW e \in Emails, Known(s, e) \/ Unknown(s, e)
        PROVE  Written' /\ SignedIn'
    BY <1>2, <2>1, KnownLasts, UnknownLasts
  <2>2. ASSUME NEW s \in SignIns, ReadUsers(s) \/ AppendUser(s) PROVE Written' /\ SignedIn'
    BY <1>2, <2>2, ReadUsersLasts, AppendUserLasts
  <2>3. ASSUME NEW s \in SignIns, OpenFile(s) \/ WriteFile(s) PROVE Written' /\ SignedIn'
    BY <1>2, <2>3, OpenFileLasts, WriteFileLasts
  <2>4. \A s \in SignIns : ~WriteFails(s)
    BY DEF WriteFails
  <2>5. ASSUME NEW s \in SignIns, GiveCookie(s) PROVE Written' /\ SignedIn'
    BY <1>2, <2>5, GiveCookieLasts
  <2>6. ASSUME NEW c \in cookies, AuthLogout(c) PROVE Written' /\ SignedIn'
    <3>1. EmailsKept
      BY <1>2, <2>6, AuthLogoutOrderly
    <3>2. UNCHANGED <<users, file, signIn, cookies>>
      BY <2>6 DEF AuthLogout
    <3> QED
      BY <1>2, <3>1, <3>2, CookieLasts
  <2>7. ASSUME NEW c \in cookies, Expire(c) PROVE Written' /\ SignedIn'
    <3>1. UNCHANGED <<users, user, file, signIn>> /\ cookies' \subseteq cookies
      BY <2>7 DEF Expire, listVars
    <3> QED
      BY <1>2, <3>1, CookieLasts DEF EmailsKept
  <2>8. ASSUME Restart PROVE Written' /\ SignedIn'
    BY <1>2, <2>8, RestartLasts
  <2> QED
    BY <1>3, <2>1, <2>2, <2>3, <2>4, <2>5, <2>6, <2>7, <2>8 DEF Next
<1>4. CASE UNCHANGED vars
  <2>1. UNCHANGED <<users, user, file, signIn, cookies>>
    BY <1>4 DEF vars, listVars, cookieVars
  <2> QED
    BY <1>2, <2>1, CookieLasts DEF EmailsKept
<1> QED
  BY <1>3, <1>4

\* With a secret that is configured no cookie is outdated.
SecretKept == configured => outdated = {}

LEMMA StepKeepsSecret == SecretKept /\ [Next]_vars => SecretKept'
<1> SUFFICES ASSUME SecretKept, [Next]_vars PROVE SecretKept'
  OBVIOUS
<1>1. CASE Next
  <2>1. ASSUME NEW s \in SignIns, NEW e \in Emails, Known(s, e) \/ Unknown(s, e)
        PROVE  SecretKept'
    BY <2>1 DEF Known, Unknown, cookieVars, SecretKept
  <2>2. ASSUME NEW s \in SignIns, ReadUsers(s) \/ AppendUser(s) \/ OpenFile(s)
        PROVE  SecretKept'
    BY <2>2 DEF ReadUsers, AppendUser, OpenFile, cookieVars, SecretKept
  <2>3. ASSUME NEW s \in SignIns, WriteFile(s) \/ WriteFails(s) \/ GiveCookie(s)
        PROVE  SecretKept'
    BY <2>3 DEF WriteFile, WriteFails, GiveCookie, cookieVars, SecretKept
  <2>4. ASSUME NEW c \in cookies, AuthLogout(c) \/ Expire(c) PROVE SecretKept'
    BY <2>4 DEF AuthLogout, Expire, SecretKept
  <2>5. CASE Restart
    BY <2>5 DEF Restart, Outdated, SecretKept
  <2> QED
    BY <1>1, <2>1, <2>2, <2>3, <2>4, <2>5 DEF Next
<1>2. CASE UNCHANGED vars
  BY <1>2 DEF vars, cookieVars, SecretKept
<1> QED
  BY <1>1, <1>2

\* Whoever has been given a cookie is recognised by it until it expires, through
\* restarts if a secret is configured and until the next start if none is, unless
\* sign-ins ran into each other or the file could not be written
\* (AccountsProps!SignInLasts; oauth.go:387-423, website.go:240-257,
\* backend.go:758-763, 795-798).
THEOREM SignInsLast == Spec => []SignInLasts
<1>1. LastInv /\ SecretKept => SignInLasts
  BY DEF LastInv, SignedIn, Settled, SignInLasts, Accepted, SecretKept
<1>2. Init => SecretKept
  BY DEF Init, SecretKept
<1> QED
  BY <1>1, <1>2, InitLasts, StepKeepsLast, StepKeepsSecret, PTL DEF Spec
=============================================================================
