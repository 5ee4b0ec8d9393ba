# A formal model of q2admin-cloud

q2admin-cloud is a service that game servers of Quake 2 ("frontends"), running
the q2admin game library, keep a TCP connection to.  The backend authenticates
each of them, logs their players, applies rules (bans, mutes, stifles, messages)
and lets their owners manage them over SSH and a website.

This directory holds TLA+ modules that model the parts of the backend where
order, sharing and failure matter, TLC configurations that check them on small
instances, and proofs that TLAPS checks for every value of the constants.

## Inventory

All state lives in one `Backend` value and, above all, in its slice of
`Frontend` records.  Nothing locks them: the connection handlers, the
maintenance loop, the SSH sessions, the delayed rule checks and the website all
read and write the same records.

```
 game server --TCP--> HandleConnection --parse--> Frontend record, Players, MessageOut
                        | one goroutine per connection    ^        ^        ^
                        |  `-- delayed rule check --------'        |        |
 maintenance loop ------|------ rules, invite buckets -------------'        |
 SSH sessions ----------|------ commands, rules, streams -------------------'
 website ---------------'------ list of frontends, users, sessions
```

| component | state | operations | what makes it correct | module |
|---|---|---|---|---|
| connection handler (`backend.go` `HandleConnection`) | `Connected`, `Trusted`, `Encrypted`, `Connection`, `Challenge` of the record; its place in the handshake | accept, greeting, hello-ack, authentication, serving loop, clean-up | a session that authenticated keeps its record; flags tell the truth; one challenge, one connection | FrontendSession |
| secure channel (`SendMessages`, `RotateKeys`, `crypto.Symmetric*`) | `MessageOut`, `SymmetricKey`, `InitVector`, `PreviousIV` | append, encrypt and send, rotate keys, decrypt | what one side sends the other can decrypt, in order | SecureChannel, OrderedDelivery |
| player slots (`parse.go`, `frontend/player.go`, `WritePlayers`) | `Players`, `PlayerCount`, the `player` and `player_stat` tables | connect, player list, update, disconnect, obituary, reconnect, shutdown | a counter that covers the slots; scores that are the game's; statistics written once, and not before the player left | PlayerSlots |
| rules (`rules.go`) | rules of a server and of the backend, `Muted`, `Stifled` of a player | `CheckRule`, `CheckRules`, `SortRules`, `ApplyMatchedRules`, add, remove, save | a rule applies exactly when all it asks for holds; the most severe prevails | Rules |
| maintenance (`maintenance.go`) | its place in the list | tick over frontends and players | time-based rules and new tokens reach whom they are for | Rules, Invites |
| invites, teleports (`invite.go`, `teleport.go`, `InviteBucket`) | tokens, times of last use | refill, invite, teleport | never more invites than bucket and player allow | Invites |
| SSH console (`ssh.go`) | `fe`, `activeFE`, the links to console streams, `paused`, `buffer`, `Terminals` | login, `server`, commands, pause, unpause, quit, print | a terminal shows what its link received; no link outlives its session | Console |
| registry (`CreateFrontend`, `DeleteFrontend`, `FindFrontend`, website pages) | the slice of records, the `frontend` table | create, edit, delete, look up, load | memory and database agree; a handler's pointer names the record others see | Registry |
| web users and sessions (`website.go`, `oauth.go`, `api/user.go`) | `be.users`, the user file, cookies | sign in, make a user, sign out, validate | users are distinct and survive a restart; a cookie is recognised until it expires or is signed out | Accounts |
| memory of the rules (`fe.Rules` in `ssh.go`, `parse.go`, `frontend.go`) | the slice, its array, `rules.pb` | "rules add", "del", "show", the append before each check, save | a check sees the list and nothing else; a change adds one rule or takes out those it names | RuleLists, RuleBook |
| proxy (`proxy/main.go`) | two sockets and two copying goroutines per connection, a channel | accept, dial, copy, signal, close | each direction is still a connection; both ends are closed, nothing leaks | Proxy, OrderedDelivery |
| commands (`command.go`) | appends to `MessageOut` | say, mute, kick, ... | "append a message" to the models above | SecureChannel, Rules |
| map rotation, VPN cache, flood control | | none that the program calls | dead code | none |
| configuration, logging, identity, search, e-mail, language model, RPC | | | input and output | none |

What is hard in it: several handlers of one record at a time; goroutines that
use a player or a connection a second after they looked at it; slices that share
arrays; returns in the
middle of a handler that skip its clean-up; a chain of initialisation vectors
that both ends must advance alike while messages cross; counters and tables that
must agree with slots.

## How the project is laid out

| kind | modules |
|---|---|
| one component each: constants, variables, actions, `Spec`, fairness (in `Proxy` and `RuleLists`, which share a module of proofs with another component, `ProxySpec` and `ListSpec`) | `FrontendSession`, `SecureChannel`, `PlayerSlots`, `Rules`, `Console`, `RuleLists`, `Registry`, `Accounts`, `Invites`, `Proxy` |
| what a component promises, as a specification | `OrderedDelivery` (the channel, the proxy), `RuleBook` (the memory of the rules) |
| what is claimed of a component: first what holds, then the claims of comments and docs that the code does not keep | `<Component>Props` |
| instances for TLC | `MC<Component>` with its `.cfg` files |
| proofs | `<Component>_proofs`; those of `FrontendSession` and `Proxy` are in `Connections_proofs`, those of `Rules` and `RuleLists` in `Rules_proofs` |

Definitions keep the names of the code they translate (`ParseConnect`,
`CheckRule`, `SendMessages` split into `Tests`, `Encrypt`, `Store`, `Write`, `Reset`, ...).  A name
that ends in what differs (`CleanUpKeepsTrust`, `MayAddSwapped`) and is commented
"Mutant of" is a plausible mistake in the definition that follows it; no action
uses it.  Put in its place, it breaks the property it is listed with in
`PROJECT.json`.  History variables (`overlapped`, `dangling`, `odd`, `crossed`,
`met`, `raced`, ...) record which known hazard a behaviour has met.  No guard reads
them; properties use them to say exactly under which condition they hold.

The order in which the modules were written is the order of importance: the
session and its channel first, since nothing works without them; then players and
rules, which the program is for; then the console, the registry, accounts and
invites, which share their records.

## The modules

### FrontendSession

One `Frontend` record and all goroutines that write to it.  `Accept`,
`RejectHello`, `Greet`, `GreetWithoutKey`, `SendAck`, `AuthFails`,
`AuthSucceeds`, `Undecipherable`, `Disconnect`, `ServeConnect` and
`HandlerPanics` are the pieces of `HandleConnection` between two places where it
waits; `pc` is where each handler is.  `SenderChecks` and `SenderSends` are any
goroutine that tests `Connected` and then sends (delayed rule checks, maintenance,
SSH).  `Stop` and `Restart` end and start the process.  `PeerCloses` is external.
The cipher is abstracted to who can read what: a hello-ack is in `acks` of the
peer that could open it.

Properties.  `ServedOwnsRecord`: without a second greeting during a live handler,
a serving handler finds its own connection, challenge and trust.
`FlagsAreExplained`: `Connected` without a handler means a return that skipped the
clean-up, `Trusted` without one means the return at `backend.go:607`.
`ChallengeProvesOne`: no challenge authenticates two connections, in spite of the
one shared field.  `SessionIsStable` (action property): nothing but its handler
ends a session served alone.  `ClosedIsReleased` (liveness): a session whose peer
is gone lets go of the record.

Bounds: three connections, so that a third greeting can meet the leftovers of two
handlers in different stages; one sender, since senders share no state of their
own.  Fairness: a running handler sends its hello-ack (`WF SendAck`), and a read on
a dead connection returns an error (`WF ReadFails`); nothing obliges a peer to
speak.

### SecureChannel and OrderedDelivery

A message goes into `MessageOut` by two to four writes with nothing to hold them
together (`command.go:18-19, 74-79`): `Begin` is the first write, `End` the last,
`GoesOn` one between, and `part` says for each goroutine whether its beginning is
still in front of what it writes.  When two write at once, or somebody sends or
resets between two writes, bytes are cut off or mixed (`torn`); whole messages in
front of them still count, and what the client makes of the rest is left open, but
for a key there.  `SendMessages` has a step for each thing another goroutine can
come between: `Tests` (or `NothingToSend`), `Encrypt`, `Store` (the ciphertext into
the buffer, the two IVs), `Write` and `Reset`.  `RotateKeys` writes the key, has its
own send in the middle, and `AssignKeys`.  Every goroutine of `Procs` may send: the
handler after each packet, a delayed check, a console session, maintenance; none
takes a lock.  `Leaves` is a goroutine that appends and does not send: `rcon` writes
to the frontend the session manages (`ssh.go:441`), while `SendMessages` at
`ssh.go:697` gets the one that `server` looked up last (`ssh.go:295`).
`ServerReads` decrypts one or two packets that one read returned, and
`ServerReadsPart` one that is not whole.  `ClientReceives` and `ClientSends` are the
game library (external), as the backend uses it: it follows the chain of IVs and
takes new keys from the packet that carries them.  Keys and IVs are numbers from one
counter, so no two agree; two encryptions of the same beginning under one key and IV
may give the same first block, and so the same next IV (`NextIvs`).

`crossed` is set when a goroutine is in `SendMessages` with a ciphertext while
another begins to write or sends, when one begins to write or encrypts in the midst
of another's message, or when something is sent between the announcement of a key
and its use.  Until then `ClientFollows`, `QuietMeansSynchronised` and
`EverythingArrives` hold.  The last assumes that a goroutine ends what it has begun,
that the network delivers, that the game server is never silent for good (it pings)
and that the handler reads on; it does not assume that whoever appends also sends.
Afterwards packets are spoiled and messages lost, and still the client acts on no
whole message twice or out of order: `OrderedDelivery` is the abstract
specification, in which a fault lets messages be left out and nothing else, and
`InOrderDelivery` states that the channel implements it, with `crossed` for the
fault.  This is not plain: two goroutines can encrypt the same bytes, and what saves
the client is that the IVs have moved on.

Bounds: two goroutines, two messages and four draws: a rotation with a message
before it, in the same packet or behind it, and every overlap of two sends and of
two messages.  More messages, draws and goroutines were tried, one of them at a time;
the proofs are for any number.  Two packets of the client in flight are what it takes
for one to cross a packet of ours.

Abstractions: each write to the buffer, a call into a library
(external), is one step; the loads of key, IV and buffer in one call of
`SymmetricEncrypt` are one step, so are the three assignments after it; padding is
appended to a copy of the buffer, not to its spare memory; two distinct messages
never begin alike.

### PlayerSlots

The slots, the counter, the scores and the rows of one frontend: `ParseConnect`
with the goroutine it starts (`HostResolved`, `ApplyRules`, `ApplyRulesToOld` when
the array has been replaced meanwhile), `ParsePlayerlist`, `ParsePlayerUpdate`,
`ParseDisconnect`, obituaries (`Kill`, `Suicide`, through `FindPlayerByName` and
`ParseObituary`), `PlayerBeyondSlots`, `Reconnect`, `Shutdown`, `Exit`.  `Enter`,
`roster` and `truth` are the game server (external): who really plays and their
true score.  Every insert may fail.

Runs: `slots` checks `CountCoversSlots`, `StatsOnce` and the liveness property
`BadHostIsMuted`, under fairness of the two steps of the delayed check (DNS
answers or fails, a second passes).  `slots_scores` checks `BooksBalance` (frags
are deaths less two for each suicide, over all records there ever were),
`ScoreConsistent` and `ScoresAgree` (the score is the game's while names are
clear).  Bounds: two slots and two persons are enough for every reuse of a slot,
every pair of names that are alike, and a task that outlives its player; two rows,
two obituaries or two tasks allow a second event after the first has changed
the record.

### Rules

One person on one server.  A rule is what it asks for and which of that the person
meets; patterns are data.  `CheckRule` counts `Need` and `Have` as the code does,
marks the record (`Flagged`, `Lengths`) before it looks at exceptions, as the
code does; `Outcome` is `ApplyMatchedRules`.  Actions: `Join` and the later
`CheckRules`, `Relist`, `Leave`, `Chat` (renews a stifle), `NamesakeChats`,
`TimerEnds`, `Maintain`, `AddRule`, `DeleteRules`, `Restart`, `Tick`, `DatePasses`.
Times of day are pairs of a small day, so that the comparison of hours and
minutes in `rules.go` is modelled as it is.

Properties: `CheckRuleExact` compares needs and haves with `Required`, the meaning of
a rule, in which all it asks for counts.  It holds of the rules that `Exact` describes:
those that ask for a client or an interval are not among them, since no code reads
these two.  `ClientIsAsked`, below, says what becomes of a ban that names a client.
`NothingUncalled` and `SeverestHolds` say what may happen to a person and
what must.  Bounds: two hours and two minutes have every order of two times;
play time up to 1 has "not yet" and "long enough"; the catalogue has one rule of
each shape the code treats differently, in five files that combine a severe rule
with a milder one.

### RuleLists and RuleBook

The slice `fe.Rules` as an array in `heap` and a length.  "rules add" appends: in
place while the array has room (`AddInPlace`), else into one twice as large
(`AddGrows`). "rules del" is given the beginning of an ID and deletes every rule
whose ID begins so: `Prefixes` has, for each beginning, the rules it fits.  The loop
(`DeleteLoads`, `DeleteCopies`) walks the list it loaded and takes what it keeps
from the list as it is by then; a slot whose rule has not been stored yet ends the
process (`MeetsNil`).  `Assign` stores the slice, `Save` is `MaterializeRules`.  A
delayed check, or "rules show", appends the backend's rules behind the list
(`CheckAppendsInPlace`, `CheckAppends`) and copies the result (`CheckSorts`). A
store is not atomic: a load during it may find one word old and one new (`Loads`,
`Stores`), and a slot may be stored before or after the slice that covers it.

`met` holds the sessions and checks that have met another at a store: two sessions
with a change under way, a rule stored in a slot that a check has borrowed, a slice
loaded while it is stored, and whoever such a slot reaches.  `CheckGoesByTheList`
holds for all others, so two checks at once do no harm, nor does a check during a
deletion or during an addition that grows the array, although they share memory.
`ListIsABook`: while nobody is in `met`, memory implements `RuleBook`: rules come
to the end of a list one at a time, and a deletion takes out exactly the rules it
names. `FileFollows` relates it to `rules.pb`.  Bounds: three rules at first, which
leave one slot free, and one rule of the backend, which fits it; beginnings of IDs
that fit one rule, two, or one that is not there; two sessions, two changes, any
number of checks one after another.  Two checks at a time, five changes and arrays
with more room were tried by simulation.

### Console

`fe.Terminals` and a terminal's buffer are read in one step and set in a later one:
`Server` and `Linked` open a link, `Cancelled` and `Ends` close it (the loop of
`TerminalDisconnected` is part of the first of these), `Show` and `Keep` keep a line.
What two appends in the same array make of it is a choice (`Extended`).  The other steps
of a session are `Login`, `ServerRefused`, `ServerDropped`, `CommandToNone`, `Pause`,
`Unpause` (line by line) and `Quit`, of a link `Connects`; `PrintLine` and `PrintTo` are
`SSHPrintln`.  `TerminalsKept` (the list holds the links that have begun, in order, and
printing is safe), `StreamExact` (a terminal shows what its link received) and
`StreamsEnd` (liveness: a session that is over leaves no link behind), each
outside the overlaps that history variables name.  Bounds: two
sessions, and two links that one of them opens after another or each opens one, so that
any two steps on the list of channels meet; one line, which two links of a session can
keep or show at once.  One session with two lines was tried too; what is said of lists
and terminals is proved for any number of each.  Fairness: each link takes its next step.

### Registry

`be.frontends` as a slice: an array, a capacity, and pointers into arrays that may
be stale.  `InsertRow` and `AppendFrontend` are `CreateFrontend`, `DeleteRow`,
`CopyOthers` and `ReplaceList` are `DeleteFrontend`, `EditRecord` and `EditRow` are
`WebEditServer`; `Connect`, `Disconnect`, which clears the record, `Abandon`, the
returns that do not (`backend.go:510, 529, 542, 555, 607`), and `Restart`.
`HandlerKeepsFrontend`: a handler works on the record of the frontend that greeted
it, through every copy. `ListedOnce`, `MatchesTable`: list and table agree outside
the cases named. `FlagsAgree`: a record that was not copied shows its frontend as
connected just when a handler serves it or has abandoned it (`left`).  Bounds: three
frontends, so that one can be deleted before, at and after the one that is connected
and an append can exceed the capacity; two requests. One game server runs, and
requests and names are symmetric.

### Accounts

`be.users` as a slice of pointers, the user file and cookies.  A sign-in is
`Known` (Discord, the mock, or a known user), or `Unknown` followed by `ReadUsers`,
`AppendUser`, `OpenFile` (which truncates), `WriteFile` or `WriteFails`, and
`GiveCookie`.  `AuthLogout`, `Expire`, `Restart`.  `UsersDistinct`, and
`SignInLasts`: whoever was given a cookie is recognised by it until it expires, through
restarts if `api_secret` is configured.  Without one, as in the sample configuration,
every start draws a new secret, the cookies given before are `outdated`, and the
promise is for the time until then.  Without the condition on sign-ins that crossed
TLC refutes both, and without the one on failed writes the second.
Bounds: two sign-ins at a time of three people, one of them known, up to three
users and two cookies: enough for two to make a user each, the same user, or one
during the other's write.  What providers answer is external.

### Invites

`Invite` with its unlocked decrement (`ReadTokens`, `TakeToken`),
`InviteOfNobody`, `Teleport` and `CountTeleport`, and maintenance by index over the
list as it was when the round began (`StartRound`, `VisitSkips`, `VisitAdds`,
`VisitPanics`, `ReadBucket`, `AddToken`, `EndRound`).  `BucketBounded`,
`PlayerRate`, `ServerRate` and, with fairness of maintenance, of time and of an
invite under way, `RefillArrives`.  Times are ages, counted only as far as some
test distinguishes them.  A deletion is one step here and a reset of the bucket
on connecting is one step; Registry has the steps of the former.  Bounds: two
frontends, the first of which may be deleted; one player; two tokens each; the
waits are 1 and 2 instead of 30 and 600 seconds, which keeps their order.

### Proxy

One connection: the goroutine that dials, starts two copies, waits for a signal and
closes both sockets; the copies, chunk by chunk; the channel they signal on; the
panic of the accepting loop.  The two ends and the network (external) are sockets with
a limited window, which are closed in order or reset.  `LikeDirect`: each direction
implements `OrderedDelivery` through every close and reset.  `LastWords`: what an end
sends before it closes is not cut off, if the other had nothing to say.
`EndsTogether` (liveness): when one end has gone, so have the other connection and both
goroutines in the end.  Bounds: three chunks, more than the window of two, so that
a copy is blocked in a write.  Fairness: `WF` of the connection's goroutine and of each
copy; no end is obliged to read, send or close, and `EndsTogether` excludes an end that
never reads again.

## What the runs show

| run | kind | distinct states | question |
|---|---|---|---|
| `session` | pass | 388 000 | may a session be trusted, and does it end |
| `channel` | pass | 1 062 000 | does the link deliver, and what is left of that when senders meet |
| `channel_previv` | violation | | is a packet that crossed ours accepted |
| `slots` | pass | 305 000 | counter, statistics, delayed check |
| `slots_scores` | pass | 1 313 000 | scores |
| `rules` | pass | 108 000 | does a rule mean what it says; who is silenced |
| `rule_lists` | pass | 1 899 000 | does a check see the list, do changes keep it |
| `console` | pass | 625 000 | channels and streams of two sessions |
| `registry` | pass | 1 055 000 | list, table, pointers |
| `accounts` | pass | 2 233 000 | users, file, cookies |
| `invites` | pass | 689 000 | limits and their refill |
| `proxy` | pass | 57 000 | does the proxy change what a connection promises |

In `channel` and `console` TLC tells states apart by a view, which leaves out what no
step and no checked property looks at any more: the packets the client has read, and the
variables of a session that has returned.

Runs with `CHECK_DEADLOCK FALSE` are of systems that may stop: the process has
exited, a session is over, or a bound of the model is used up.  `session` and
`invites` are checked for deadlock: there something can always go on.

## Where code and comments disagree

One run ends in a counterexample, `channel_previv`, `PreviousIvIsTried`:
`backend.go:600-601` says that a packet sent before the game server received our last
is tried again with the previous IV.  The first attempt has assigned its empty result
to the same variables, so the second decrypts nothing and the handler returns at
`backend.go:607`.

Other claims of comments are stated in the second part of each `Props` module.
TLC finds each of them violated in the configuration named; they are described
here and have no run, as most are consequences of working on shared records
without a lock.

| claim | configuration | what happens |
|---|---|---|
| `ConnectedIsCurrent` | FrontendSession | a failed handshake leaves `Connected` and `Connection` set |
| `AuthenticatedPersists` | FrontendSession | the clean-up of an older handler clears the record of the session that followed it |
| `HelloAckReadable` | FrontendSession | with `Trusted` left over from an abandoned session the hello-ack goes out under a session key |
| `RotationIsClean`, `NothingSkipped` | SecureChannel | a second sender uses the old key after the new one was announced; a reset drops what was appended meanwhile |
| `CountIsUsed` | PlayerSlots | a relisted player is counted again |
| `WrittenOnce` | PlayerSlots | `Shutdown` goes by `ClientID`, which is 0 in an empty slot, and the handlers go on |
| `MutesMatch`, `LeaverIsHarmless` | PlayerSlots | the delayed check goes through a pointer to a slot that has a new player, or none: then `p.Frontend` is nil (`parse.go:271`, `rules.go:478`) |
| `BadNumberIsRefused` | PlayerSlots | number `MaxPlayers` passes the test at `parse.go:386` and is beyond the slice |
| `RenameIsRechecked` | PlayerSlotsScores, `BadNames = {n2}` | an update applies no rules |
| `DeathsAreTheirs`, `SuicidesAreOwn` | PlayerSlotsScores | the first slot with the name is taken; an unknown murderer makes a suicide |
| `DeathNeverHelps` | PlayerSlotsScores, `MaxObits = 3`, `NamesOf <- OwnName` | with negative frags a further suicide raises the ratio |
| `OnlyWhenRequired` | Rules, `Catalog <- ExceptedOnly`, `DiskSets <- NoFile`, `WideSets <- OneExcepted` | `rule.proto:74-75`: a rule with a matching exception does not match; but `CheckRule` marks the player as stifled as soon as one criterion matches (`rules.go:206`), and `ParsePrint` mutes whoever is marked after their next line |
| `ClientIsAsked` | Rules, `Catalog <- ClientOnly`, `DiskSets <- NoFile`, `WideSets <- OneClient` | `rule.proto:99` documents the client among the criteria of a rule, and `rules.go:39-40` says that all of them have to match; no code reads it, so a ban of an address and a client throws out everybody from the address, and one of a client alone nobody |
| `SavedIsInForce` | Rules | a start does not read what was saved |
| `MuteOutweighsStifle`, `StiflesEnd` | Rules | a stifle renewed replaces a mute; a stifle of length 0 is a mute for good |
| `TimesAreTimes` | Rules, with a rule "before 1:00" | hours and minutes are compared one by one |
| `TimeRulesBite` | Rules, `SPECIFICATION FairSpec`, `Catalog <- PlayedOnly`, `DiskSets <- NoFile`, `WideSets <- OnePlayed` | maintenance looks only at the server's own rules |
| `ListIsOwn`, `NobodyPanics` | RuleLists | a check puts a rule of the backend over one just added, and the next save makes that last; two deletions at once run past the end of a list, and a deletion during an addition meets a slot that is still nil |
| `ClosingIsSafe`, `EveryStreamListed`, `SwitchStopsLink`, `ShownOnce`, `CommandsFollowPrompt` | Console | a line is sent on a channel just closed; of two sessions that link at once, one has no channel in the list; the previous link is not cancelled by "server"; lines kept twice by two links; a refused "server" has already replaced `fe` (`ssh.go:295`) |
| `DeleteDisconnects`, `PointsToList`, `ConnectedIsServed` | Registry | a deleted server is served on; a copy of the slice leaves handlers with the old record; a handler that returns in the middle leaves a record that the website lists as connected |
| `SignedOutIsOut`, `SessionsReachTheAPI` | Accounts, without symmetry | signing out changes nothing a token is checked against; no session is stored for the API to compare |
| `NeverOverfilled`, `RefillAlways`, `StaysUp` | Invites | an addition across a reconnect; a deletion moves indexes; maintenance or `Invite` ends the process |
| `SurvivesAccept` | Proxy | a connection that cannot be accepted is asked for its address before the error is tested (`proxy/main.go:31-33`): the process ends |

Seen while reading, not stated as properties:

* `main.go` waits for an interrupt only; other signals end the process without `Shutdown`.
* `MaterializeRules` returns early for an empty list, so removing the last rule leaves it in the file (`frontend.go:150`).
* `every` and the time and client of an exception are read by no code, like the `client` of a rule; names in exceptions are matched with regard to case.
* A list of players after a new map makes all records anew: `Stifled`, `Muted`, `ConnectTime` and invites start over.
* A bucket is refilled every 30 seconds (`backend.go:569`); `frontend.go:80-84` says every 5 minutes.
* Maintenance applies rules to copies of players and looks only at rules with a play time or an `after` (`maintenance.go:27-46`).
* The announcement of an invite and the variables that maintenance fetches go to copies of the records (`invite.go:55-57`, `maintenance.go:54`).
* `DeleteProtect` is never consulted.
* An expired entry of the VPN cache answers "no" and is not looked up again (`vpn.go:59-65`); `ReadVPNConfig` unmarshals into a nil message.
* The pause of a terminal does not expire (`ssh.go:580-582`).
* `GetUserByEmail` returns nil and no error for an unknown address, and the Discord callback uses what it returns (`backend.go:211`, `oauth.go:235-240`).
* The life of a Discord sign-in is a day in nanoseconds where seconds are expected (`oauth.go:245`).
* Without an `api_secret` of 16 bytes every start signs all users out: their cookies are good for as long as the process runs (`backend.go:795-798`; `config.proto:34` says only that it is generated).
* `WriteUsers` logs the error of the write and returns nil (`user.go:62-66`).
* `MapList.Shuffle` shuffles the list it was called on as well as the one it returns.

## What is proved

TLAPS proves the following for every value of the constants, from the assumptions
named in the modules: `None` is no connection, player, name, slot or seat, bounds are naturals, the handler is one
of the goroutines, sign-ins are finitely many, the users of the first file are distinct,
there is a frontend, no session is a check, there is a rule at first, of two beginnings
of IDs one begins the other or no ID has both.

| module | theorems | the argument |
|---|---|---|
| `Connections_proofs` | `TypeCorrect`, `ServedOwnsRecordCorrect`, `FlagsAreExplainedCorrect`, `HandlerPanicNeedsOverlapCorrect`, `SessionIsStableCorrect`, `ChallengeProvesOneCorrect`; `ProxyTypeCorrect`, `LikeDirectCorrect`, `LastWordsCorrect` | `ServedOwnsRecord` is not inductive: a handler that has only greeted must own the record too, and be the only live one.  `SoleOwner` says so.  For challenges: a challenge is in the hands of at most one peer (`SentOnce`), and what was accepted had been read (`ProvedWasRead`).  For the proxy, `CarryInv`: as long as the way to an end is not cut, the chunks it has read, those waiting for it, the one in hand and those not yet read follow one another without a gap, and they are all that was sent if the way behind is whole too; so a socket that is closed cuts off the last chunks and no others.  From this each step of `Proxy` is a step of `OrderedDelivery` in both directions.  `LastWords` needs why a copy ends: one of the ends has gone (`Signalled`), and what holds of an end that closed after it had read everything (`Said`) |
| `SecureChannel_proofs` | `TypeCorrect`, `ClientFollowsCorrect`, `QuietMeansSynchronisedCorrect`, `InOrderDeliveryCorrect`, for any number of goroutines | two invariants.  `ChannelInv`, until goroutines cross: the packets on the wire form a chain, each encrypted under what the one before it leaves (`Chain`); the buffer continues the chain, in a way that depends on where the sender is (`Buffer`); one message is written at a time, and while nobody has a ciphertext (`Undisturbed`).  `FreshInv`, always: of all ciphertexts under way (`Flying`), those the client could read under a later IV carry later messages, and what it has read is behind it (`Past`); so a packet encrypted twice is readable once.  The messages of the buffer are those since the last reset, or those in front of a tear (`Counted`).  The last theorem is the refinement: `Init` and every step map to `OrderedDelivery`, given both |
| `PlayerSlots_proofs` | `TypeCorrect`, `CountCoversSlotsCorrect`, `ScoreConsistentCorrect`, `StatsOnceCorrect`, `ScoresAgreeCorrect`, `BooksBalanceCorrect` | the slots in use grow by at most one when the counter grows by one, and shrink when it shrinks (cardinalities); `Sound` is kept by every death; `RowsDistinct` and `StatsInv`: a row held by a slot has no statistics yet, and no two slots hold one row; `NamesInv`: a slot in use is played in by somebody of the record's name, so that while names are clear the name in an obituary finds that player and no other (`FoundIsTheOne`); `Balanced`: the totals over former and present scores of frags − deaths + 2·suicides cancel, since a death changes one score or two at once (`OneChange`); that a total changes as one of its terms does (`TotalAdds`) unfolds the recursive function `Total` by induction over the slots |
| `Rules_proofs` | `TypeCorrect`, `CheckRuleExactCorrect`, `NothingUncalledCorrect`, `SeverestHoldsCorrect`, `MutedStaysMutedCorrect`; `ListTypeCorrect`, `CheckGoesByTheListCorrect`, `ListIsABookCorrect`, `FileFollowsCorrect` | `NeedIsHave`: counting needs and haves compares cardinalities of the criteria asked for and met, which are equal just when the sets are.  `RulesInv` adds to the two invariants that a marked record was called for (`StifledIsCalled`) and belongs to somebody who plays (`Present`).  For the memory of the rules, `ListInv`, see below |
| `Console_proofs` | `TypeCorrect`, `TerminalsAreKept`, `StreamsAreExact` | `KeptInv`: but for overlaps the list of a frontend holds exactly the links that have begun and not ended, in order, and a link that opens is to add its own to it (`Exact`), a closed channel belongs to a link on its way out (`ClosedLeaves`), and a printer is within the list it reads; without these a printer could find a channel that is closed.  `StreamInv`: what a terminal shows and keeps back is, link by link, what the link received but for a line in hand (`Streamed`), wherever a printer, the pause and its end are; what `LinesOf` finds in a longer screen unfolds by induction |
| `Accounts_proofs` | `TypeCorrect`, `UsersAreDistinct`, `SignInsLast` | `DistinctInv`: without a race one sign-in at a time makes a user (`OneMaker`), who is not in the list (`NewIsNew`).  `LastInv`: what is listed is in the file or about to be (`Written`), and whoever has a cookie is listed (`SignedIn`); with a configured secret no cookie is outdated (`SecretKept`) |
| `Invites_proofs` | `TypeCorrect`, `BucketsBounded`, `PlayerRateCorrect`, `ServerRateCorrect` | `BoundInv`: an invite under way belongs to a connection (`Held`) and has a token to take, whatever maintenance does (`Covered`); a bucket that is being added to has room (`Bounded`).  `PlayerInv`: of a player's invites all but as many as there are tokens missing are older than the wait.  `Rated` says the same of a server's invites and the tokens its bucket lacks (`Owed`), with the interval for the wait, and how old the others are compared with the last addition, or the one being made |
| `Registry_proofs` | `TypeCorrect`, `HandlerKeepsFrontendCorrect`, `ListedOnceCorrect`, `FlagsAgreeCorrect`, `MatchesTableCorrect` | `KeepInv`: types, the property, and that a record being edited is still at its index (`EditedListed`); one lemma for the steps that keep the array and one for those that make a new one.  `OnceInv`: an ID still to be listed (`Coming`) is in no list and in no copy under construction.  `FlagInv`: a pointer that was left behind belongs to a frontend that has moved; a record that was left as it was (`LeftInv`) is not served.  `MatchInv`: how list and table differ while one request is at work (`Midway`).  `RoomInv`: what is left of the types, and that the array behind the list never has less room than the list is long; that `Capacity(n)` is at least `n` is by induction |

The properties these theorems name are also checked by a run, with two exceptions:
`MutedStaysMuted` (an action property: whoever is recorded as muted and not as
stifled, and is silenced for good, is not given their voice back) and `HandlerPanicNeedsOverlap` are
proved only.

Type invariants are proved and in no run.

The memory of the rules takes the longest argument.  That a check has read the list
(`Reads`) is not inductive: others append to its array.  `CleanInv` says what keeps them
apart without a lock, for those who have not met:

* a session's slice is the list it started from, and the one it is about to store is the
  list with a rule more or without those that go (`Clean`);
* the list is no longer than the slice of a check that has room behind it, and no shorter
  than that of any check (`Behind`), so nothing a check stores is within the list; this is
  asked while nobody who has met is about to store a slice (`Calm`);
* the same holds of a slice that a session is about to store (`Beside`) and of the slices
  of two checks (`Apart`), which therefore store the same rules in the same slots.

`MeetInv`: two sessions at work have met, and then the file is not counted on.
`ShapeInv`: slices name arrays that are there, and the number of arrays keeps within the
changes left (`Budget`), which is the part of the type that is not inductive by itself.
Each action has a lemma for the shape and one for `CleanInv`; `SessionClean` and
`CheckClean` reduce these to the slots it stores.  `FileInv` adds that the file holds the
list unless a save lies ahead.  For `ListIsABook` the loop that copies what a deletion keeps
is shown to leave the list without those rules (`CopyIsWithout`): both are recursive functions,
which unfold by induction on the length.

Induction here is `Induction`, a rule about sets of numbers that `LeastElement` derives
from the well-foundedness of finite sets under strict inclusion; the library's rule for
predicates is out of the prover's reach.  For the same reason `Kept`, `CapFor`, `Without`,
`Capacity` and `Total` are recursive functions.

Only model-checked: liveness (`ClosedIsReleased`, `EverythingArrives`, `BadHostIsMuted`,
`StreamsEnd`, `RefillArrives`, `EndsTogether`), which this prover does not reach under
fairness, and of course the counterexamples.

## What is left out

* Wording, colours, templates, patterns: data, as far as no property tells them apart.
* `ChangeUUIDHandler`, settings of a server other than its name, player commands of the console other than those on rules.
* The exchange with OAuth providers, the API and the WebSocket.
* Map rotation: `Maplist` is assigned in a comment only (`backend.go:330-365`).  VPN cache: `IsVPN` is called by tests only.  Flood control is called by nobody.  None has a behaviour in this program.
* RPC: one request that reads.  Search, e-mail, the language model, logging, command-line flags: input and output.
* Generated code, vendored scripts (the only JavaScript here are minified bundles of libraries; the program is Go) and the schema, except for its keys.
* Memory orders weaker than interleaving: a data race is modelled as some order of its reads and writes, and in RuleLists as a load that mixes the words of two stores.

## Plan

1. Depth: `ChangeUUIDHandler` in Registry; the commands of the console on
   players; Registry composed with FrontendSession, so that several
   handlers meet a replaced slice; Discord's and the mock's sign-ins with sessions of
   the API; times and lengths of `rules.go` (`stringToTime`, `durationToSeconds`) as
   functions against a reference.
2. Abstract specifications: a stream of lines that Console implements for each link;
   a rate limiter that Invites implements; a table of records that Registry
   implements when requests do not overlap.
3. Proofs: the safety properties of all runs are proved; what items 1 and 2 add comes next.
