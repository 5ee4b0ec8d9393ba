------------------------------ MODULE Accounts ------------------------------
(***************************************************************************)
(* The users of the website: be.users, a slice of pointers, the file they  *)
(* are kept in, and the sign-ins that providers send back, each in a       *)
(* goroutine of its own and with no lock.  A first sign-in through Google  *)
(* makes a user and writes the file; every sign-in gives the browser a     *)
(* cookie, a signed token that names an e-mail address and nothing else    *)
(* that is checked later.                                                  *)
(*                                                                         *)
(* What the providers answer is external; an answer that is an error ends  *)
(* the sign-in before it reads any of this.                                *)
(***************************************************************************)
EXTENDS Integers, Sequences, FiniteSets

CONSTANTS
  Emails,
  SignIns,      \* goroutines of the callbacks
  AtStart,      \* the users in the file at first
  MaxUsers,     \* bound: users ever made, those read from the file included
  MaxSessions   \* bound: cookies ever given

ASSUME BoundsAssumption == MaxUsers \in Nat /\ MaxSessions \in Nat
ASSUME SignInsAssumption == IsFiniteSet(SignIns)

NoSession == 0
Sessions == 1..MaxSessions
User == [email : Emails, session : Sessions \cup {NoSession}]

ASSUME StartAssumption == AtStart \in Seq(User) /\ Len(AtStart) <= MaxUsers

\* The file at first is one the program could have written.
ASSUME StartDistinct ==
  \A i, j \in DOMAIN AtStart : AtStart[i].email = AtStart[j].email => i = j

VARIABLES
  users,     \* be.users: pointers
  user,      \* what they point to, and pointers no longer in the list
  file,      \* the user file
  signIn,    \* where each sign-in is
  given,     \* sessions given so far
  configured,\* api_secret is set, and long enough to sign tokens with
  cookies,   \* the tokens that have not expired
  outdated,  \* those of them signed with the secret of an earlier start
  signedOut, \* those of them whose browser signed out
  crossed,   \* history: a sign-in ran into one that was making a user
  spoiled    \* history: a write of the file failed or was cut short

listVars == <<users, user>>
cookieVars == <<given, configured, cookies, outdated, signedOut>>
history == <<crossed, spoiled>>
vars == <<listVars, file, signIn, cookieVars, history>>

Pointer == 1..MaxUsers
Cookie == [id : Sessions, email : Emails]

\* at: the user it found or made; saw: be.users as it read it; text: the users
\* it is writing.
Idle == [phase |-> "idle"]
SignIn == {Idle}
          \cup [phase : {"made", "listed", "saved"}, at : Pointer]
          \cup [phase : {"appending"}, at : Pointer, saw : Seq(Pointer)]
          \cup [phase : {"writing"}, at : Pointer, text : Seq(User)]

TypeOK ==
  /\ user \in Seq(User) /\ Len(user) <= MaxUsers
  /\ users \in Seq(DOMAIN user)
  /\ file \in Seq(User)
  /\ signIn \in [SignIns -> SignIn]
  /\ given \in 0..MaxSessions /\ configured \in BOOLEAN
  /\ cookies \subseteq Cookie /\ signedOut \subseteq cookies /\ outdated \subseteq cookies
  /\ crossed \in BOOLEAN /\ spoiled \in BOOLEAN

Init ==
  /\ user = AtStart /\ file = AtStart
  /\ users = [i \in DOMAIN AtStart |-> i]
  /\ signIn = [s \in SignIns |-> Idle]
  /\ given = 0 /\ configured \in BOOLEAN
  /\ cookies = {} /\ outdated = {} /\ signedOut = {}
  /\ crossed = FALSE /\ spoiled = FALSE

At(s, phase) == signIn[s].phase = phase
Goto(s, step) == signIn' = [signIn EXCEPT ![s] = step]

-----------------------------------------------------------------------------
(* Sign-ins.                                                               *)

\* Mutant of HasUser: the users in the file count.
HasUserInFile(e) == \E i \in DOMAIN file : file[i].email = e

\* GetUserByEmail finds somebody.
HasUser(e) == \E i \in DOMAIN users : user[users[i]].email = e

\* GetUserByEmail: the first of them.
FirstUser(e) ==
  LET i == CHOOSE i \in DOMAIN users :
             /\ user[users[i]].email = e
             /\ \A j \in DOMAIN users : user[users[j]].email = e => i <= j
  IN users[i]

\* A sign-in that is making a user.
Making(s) == signIn[s].phase \in {"made", "appending", "listed", "writing"}

\* The provider says who signs in, and the user exists.
Known(s, e) ==
  /\ At(s, "idle") /\ HasUser(e)
  /\ Goto(s, [phase |-> "saved", at |-> FirstUser(e)])
  /\ crossed' = (crossed \/ \E t \in SignIns : Making(t) /\ signIn[t].at = FirstUser(e))
  /\ UNCHANGED <<listVars, file, cookieVars, spoiled>>

\* The user does not exist.  Only Google's callback makes one.
Unknown(s, e) ==
  /\ At(s, "idle") /\ ~HasUser(e) /\ Len(user) < MaxUsers
  /\ user' = Append(user, [email |-> e, session |-> NoSession])
  /\ Goto(s, [phase |-> "made", at |-> Len(user) + 1])
  /\ crossed' = (crossed \/ \E t \in SignIns : Making(t))
  /\ UNCHANGED <<users, file, cookieVars, spoiled>>

\* append reads be.users, and the result is assigned.  What another append has
\* put in the same place of the same array meanwhile may be what stays there.
ReadUsers(s) ==
  /\ At(s, "made")
  /\ Goto(s, [phase |-> "appending", at |-> signIn[s].at, saw |-> users])
  /\ UNCHANGED <<listVars, file, cookieVars, history>>

AppendUser(s) ==
  /\ At(s, "appending")
  /\ LET saw == signIn[s].saw IN
       \E p \in {signIn[s].at} \cup {users[i] : i \in DOMAIN users \cap {Len(saw) + 1}} :
         users' = Append(saw, p)
  /\ Goto(s, [phase |-> "listed", at |-> signIn[s].at])
  /\ UNCHANGED <<user, file, cookieVars, history>>

\* Mutant of Text: the user just made is left out.
TextWithoutLast == [i \in 1..(Len(users) - 1) |-> user[users[i]]]

\* WriteUsers marshals the users that are listed by now.
Text == [i \in DOMAIN users |-> user[users[i]]]

\* The file is cut to nothing before it is written.
OpenFile(s) ==
  /\ At(s, "listed")
  /\ file' = <<>>
  /\ Goto(s, [phase |-> "writing", at |-> signIn[s].at, text |-> Text])
  /\ UNCHANGED <<listVars, cookieVars, history>>

WriteFile(s) ==
  /\ At(s, "writing")
  /\ file' = signIn[s].text
  /\ Goto(s, [phase |-> "saved", at |-> signIn[s].at])
  /\ UNCHANGED <<listVars, cookieVars, history>>

\* Opening or writing fails: that is logged, and the sign-in goes on.
WriteFails(s) ==
  /\ signIn[s].phase \in {"listed", "writing"}
  /\ spoiled' = TRUE
  /\ Goto(s, [phase |-> "saved", at |-> signIn[s].at])
  /\ UNCHANGED <<listVars, file, cookieVars, crossed>>

\* Mutant of MayGive: the cookie is given while the file is written.
MayGiveEarly(s) == signIn[s].phase \in {"listed", "writing", "saved"}

MayGive(s) == At(s, "saved")

\* The token, the session of the user, the cookie.
GiveCookie(s) ==
  /\ MayGive(s) /\ given < MaxSessions
  /\ given' = given + 1
  /\ LET p == signIn[s].at IN
       /\ user' = [user EXCEPT ![p].session = given + 1]
       /\ cookies' = cookies \cup {[id |-> given + 1, email |-> user[p].email]}
  /\ Goto(s, Idle)
  /\ UNCHANGED <<users, file, configured, outdated, signedOut, history>>

-----------------------------------------------------------------------------
(* Cookies.                                                                *)

\* ValidateSessionToken accepts the token: the signature is right, and the
\* address is that of a user.
Accepted(c) == c \in cookies \ outdated /\ HasUser(c.email)

\* ValidateSession, for the API: the whole token is compared with the ID of the
\* session of a user.
Token(c) == <<"signed", c.id, c.email>>
ValidateSession(c) ==
  Accepted(c) /\ \E i \in DOMAIN users : <<user[users[i]].session>> = Token(c)

\* AuthLogout.  The browser forgets the cookie; the token stays what it is.
AuthLogout(c) ==
  /\ Accepted(c) /\ c \notin signedOut
  /\ user' = [user EXCEPT ![FirstUser(c.email)].session = NoSession]
  /\ signedOut' = signedOut \cup {c}
  /\ UNCHANGED <<users, file, signIn, given, configured, cookies, outdated, history>>

Expire(c) ==
  /\ cookies' = cookies \ {c}
  /\ outdated' = outdated \ {c} /\ signedOut' = signedOut \ {c}
  /\ UNCHANGED <<listVars, file, signIn, given, configured, history>>

\* ReadUsersFromDisk: pointers to what is read.
Read(text) == [i \in DOMAIN text |-> i]

\* A secret that is not configured is drawn anew at each start, and the tokens
\* given so far are no longer signed with it.
Outdated == IF configured THEN outdated ELSE cookies

\* A start reads the file.
Restart ==
  /\ user' = file /\ users' = Read(file)
  /\ signIn' = [s \in SignIns |-> Idle]
  /\ outdated' = Outdated
  /\ spoiled' = (spoiled \/ \E s \in SignIns : At(s, "writing"))
  /\ UNCHANGED <<file, given, configured, cookies, signedOut, crossed>>

-----------------------------------------------------------------------------
Next ==
  \/ \E s \in SignIns :
       \/ \E e \in Emails : Known(s, e) \/ Unknown(s, e)
       \/ ReadUsers(s) \/ AppendUser(s) \/ OpenFile(s) \/ WriteFile(s)
       \/ WriteFails(s) \/ GiveCookie(s)
  \/ \E c \in cookies : AuthLogout(c) \/ Expire(c)
  \/ Restart

Spec == Init /\ [][Next]_vars
=============================================================================
