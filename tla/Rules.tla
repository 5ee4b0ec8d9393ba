------------------------------- MODULE Rules -------------------------------
(***************************************************************************)
(* The rules (bans, mutes, stifles, messages) of one frontend and of the   *)
(* whole backend, and what becomes of one person who plays there: the      *)
(* check when they join, the periodic check of the maintenance loop, the   *)
(* silence renewed after every line a stifled player says, and rules added *)
(* and removed at the console.                                             *)
(*                                                                         *)
(* A rule says which criteria it asks for and which of them this person    *)
(* meets; patterns and addresses are not spelled out.  Rules form sets:    *)
(* the order SortRules gives them is the order of their types, and among   *)
(* rules of one type it only decides which stifle's length stays.          *)
(*                                                                         *)
(* The game server (external) keeps the person's voice and the clock.      *)
(***************************************************************************)
EXTENDS Integers, FiniteSets

CONSTANTS
  Hours, Minutes,     \* of a day; both are small in an instance
  PlayCap,            \* bound: play time is counted up to here
  Catalog,            \* the rules that may exist
  DiskSets, WideSets, \* rules of the frontend's and of the backend's file
  MaxOwn              \* bound: rules the frontend has at a time

Types == {"BAN", "MUTE", "STIFLE", "MESSAGE"}

\* Criteria settled when the person joins, those that depend on time, and the
\* two of rule.proto that no code reads: the game client and version, and the
\* interval at which a rule applies.
Facts   == {"address", "hostname", "vpn"}
Timed   == {"before", "after", "playtime"}
Unread  == {"client", "every"}

TimeOfDay == [hour : 0..(Hours - 1), minute : 0..(Minutes - 1)]

\* met: facts this person meets, those no code looks at among them; names, hits: name patterns and how many of them
\* their name matches; infos, infoHits: the same for user info; dated: before
\* and after name a date and not a time of day; exception: one this person
\* matches, and which may have an expiration; length: of a stifle, in seconds.
Rule == [type : Types, disabled : BOOLEAN, expires : BOOLEAN,
         asks : SUBSET (Facts \cup Timed \cup Unread), met : SUBSET (Facts \cup Unread),
         names : Nat, hits : Nat, infos : Nat, infoHits : Nat,
         dated : BOOLEAN, when : TimeOfDay, limit : Nat,
         exception : {"none", "lasting", "expiring"}, length : Int]

ASSUME DayAssumption == Hours \in Nat \ {0} /\ Minutes \in Nat \ {0}
ASSUME RuleAssumption ==
  /\ Catalog \subseteq Rule
  /\ \A r \in Catalog : /\ r.met \subseteq r.asks /\ r.hits <= r.names
                        /\ r.infoHits <= r.infos
ASSUME SetsAssumption ==
  DiskSets \subseteq SUBSET Catalog /\ WideSets \subseteq SUBSET Catalog
ASSUME BoundsAssumption == PlayCap \in Nat /\ MaxOwn \in Nat

VARIABLES
  clock,    \* time of day
  late,     \* the date that dated and expiring rules name is past
  own,      \* fe.Rules
  wide,     \* be.rules
  disk,     \* the frontend's rules.pb
  refused,  \* the last write of rules.pb failed, and the console said so
  player,   \* the record of this person
  pending,  \* ParseConnect's goroutine has yet to check the rules
  voice,    \* game server: whether the person plays, and may talk
  called,   \* history: types of the rules that ought to have applied to them
  odd       \* history: a rule was checked that is not read as it is documented

timeVars == <<clock, late>>
ruleVars == <<own, wide, disk, refused>>
history  == <<called, odd>>
vars == <<timeVars, ruleVars, player, pending, voice, history>>

\* here: ConnectTime is set; played: time since then.
Player == [here : BOOLEAN, played : 0..PlayCap,
           muted : BOOLEAN, stifled : BOOLEAN, length : Int]

NoPlayer == [here |-> FALSE, played |-> 0, muted |-> FALSE,
             stifled |-> FALSE, length |-> 0]

NewPlayer == [here |-> TRUE, played |-> 0, muted |-> FALSE,
              stifled |-> FALSE, length |-> 0]

TypeOK ==
  /\ clock \in TimeOfDay /\ late \in BOOLEAN
  /\ own \subseteq Catalog /\ wide \subseteq Catalog /\ disk \subseteq Catalog
  /\ refused \in BOOLEAN
  /\ player \in Player /\ pending \in BOOLEAN
  /\ voice \in {"absent", "free", "timed", "mute", "kicked"}
  /\ called \subseteq Types /\ odd \in BOOLEAN

\* A start loads the backend's rules; LoadFrontends has no rules to load.
Init ==
  /\ clock \in TimeOfDay /\ late = FALSE
  /\ own = {} /\ wide \in WideSets /\ disk \in DiskSets /\ refused = FALSE
  /\ player = NoPlayer /\ pending = FALSE /\ voice = "absent"
  /\ called = {} /\ odd = FALSE

-----------------------------------------------------------------------------
(* CheckRule.                                                              *)

Active(r) == ~r.disabled /\ ~(r.expires /\ late)

\* Hours and minutes are compared one by one.
BeforeMet(r) ==
  IF r.dated THEN ~late
  ELSE clock.hour <= r.when.hour /\ clock.minute <= r.when.minute

AfterMet(r) ==
  IF r.dated THEN late
  ELSE clock.hour >= r.when.hour /\ clock.minute >= r.when.minute

PlaytimeMet(r) == player.played >= r.limit

\* The single criteria the person meets, of those CheckRule reads.
Met(r) ==
  (r.met \cap Facts) \cup {c \in r.asks \cap Timed :
                            \/ c = "before" /\ BeforeMet(r)
                            \/ c = "after" /\ AfterMet(r)
                            \/ c = "playtime" /\ PlaytimeMet(r)}

\* All name patterns are one criterion to need; each that matches is had.
Need(r) == Cardinality(r.asks \ Unread) + (IF r.names > 0 THEN 1 ELSE 0) + r.infos
Have(r) == Cardinality(Met(r)) + r.hits + r.infoHits

Matches(r) == Met(r) # {} \/ r.hits > 0 \/ (r.infos > 0 /\ r.infoHits = r.infos)

\* An exception that has expired is ignored.
RuleExceptionMatch(r) == r.exception = "lasting" \/ (r.exception = "expiring" /\ ~late)

\* Mutant of CheckRule: one criterion is enough.
CheckRuleAny(r) == Active(r) /\ Matches(r) /\ ~RuleExceptionMatch(r)

CheckRule(r) ==
  Active(r) /\ Matches(r) /\ Need(r) <= Have(r) /\ ~RuleExceptionMatch(r)

\* Record p with other marks.
Marked(p, muted, stifled, length) ==
  [here |-> p.here, played |-> p.played,
   muted |-> muted, stifled |-> stifled, length |-> length]

\* What CheckRule leaves in the record on the way, whether or not the rule
\* applies; l is the length of the last such stifle.
Marks(type, rules) == {r \in rules : r.type = type /\ Active(r) /\ Matches(r)}

Flagged(p, rules, l) ==
  Marked(p, p.muted \/ Marks("MUTE", rules) # {},
         p.stifled \/ Marks("STIFLE", rules) # {},
         IF Marks("STIFLE", rules) = {} THEN p.length ELSE l)

\* The lengths the record may be left with by stifles of a set.
Lengths(p, stifles) ==
  IF stifles = {} THEN {p.length} ELSE {r.length : r \in stifles}

-----------------------------------------------------------------------------
(* ApplyMatchedRules.                                                      *)

Of(type, rules) == {r \in rules : r.type = type /\ CheckRule(r)}

\* Mutant of MutePlayer: only no time is for good.
MutePlayerAbs(seconds) == IF seconds # 0 THEN "timed" ELSE "mute"

\* MutePlayer: no time or a negative one is for good.
MutePlayer(seconds) == IF seconds > 0 THEN "timed" ELSE "mute"

\* The game server does as it is told with those it has not thrown out.
Told(v) == IF voice = "kicked" THEN "kicked" ELSE v

\* A ban and nothing else; else every mute, and every stifle of a person not
\* muted; l is the length of the last stifle.
Outcome(p, rules, l) ==
  IF Of("BAN", rules) # {} THEN [player |-> p, voice |-> "kicked"]
  ELSE IF Of("MUTE", rules) # {}
    THEN [player |-> Marked(p, TRUE, p.stifled, p.length), voice |-> Told(MutePlayer(-1))]
  ELSE IF Of("STIFLE", rules) # {} /\ ~p.muted
    THEN [player |-> Marked(p, p.muted, TRUE, l),
          voice |-> Told(MutePlayer(l))]
  ELSE [player |-> p, voice |-> voice]

-----------------------------------------------------------------------------
(* What a rule is documented to ask for.                                   *)

NotLater(a, b) == a.hour < b.hour \/ (a.hour = b.hour /\ a.minute <= b.minute)

\* Every criterion is met, also those that CheckRule does not read, there is one,
\* and no exception is.
Required(r) ==
  /\ Active(r) /\ ~RuleExceptionMatch(r)
  /\ r.asks # {} \/ r.names > 0 \/ r.infos > 0
  /\ r.asks \cap (Facts \cup Unread) \subseteq r.met
  /\ "before" \in r.asks => IF r.dated THEN ~late ELSE NotLater(clock, r.when)
  /\ "after" \in r.asks => IF r.dated THEN late ELSE NotLater(r.when, clock)
  /\ "playtime" \in r.asks => PlaytimeMet(r)
  /\ r.names > 0 => r.hits > 0
  /\ r.infoHits = r.infos

\* Rules the code reads as they are documented: no client and no interval, which
\* it does not read, no two name patterns that match at once, and times of day at
\* the end or the beginning of an hour.
Exact(r) ==
  /\ r.asks \cap Unread = {}
  /\ r.hits <= 1
  /\ ~r.dated => /\ "before" \in r.asks => r.when.minute = Minutes - 1
                 /\ "after" \in r.asks => r.when.minute = 0

\* A rule that does not apply, but leaves its mark.
Half(r) == r.type \in {"MUTE", "STIFLE"} /\ Active(r) /\ Matches(r) /\ ~CheckRule(r)

Recall(rules) ==
  /\ called' = called \cup {r.type : r \in {q \in rules : Required(q)}}
  /\ odd' = (odd \/ \E r \in rules : ~Exact(r) \/ Half(r))

-----------------------------------------------------------------------------
(* The person.                                                             *)

\* ParsePlayer, from a connect message.
Join ==
  /\ voice = "absent" /\ voice' = "free"
  /\ player' = NewPlayer /\ pending' = TRUE
  /\ called' = {} /\ odd' = FALSE
  /\ UNCHANGED <<timeVars, ruleVars>>

\* The game server lists them again, on a new map or when it has reconnected.
\* No rule is checked.
Relist ==
  /\ voice # "absent" /\ player' = NewPlayer
  /\ UNCHANGED <<timeVars, ruleVars, pending, voice, history>>

\* They leave, kicked or not.  The check of a record left behind is not
\* modelled here but in PlayerSlots.
Leave ==
  /\ voice # "absent" /\ voice' = "absent"
  /\ player' = NoPlayer /\ pending' = FALSE
  /\ UNCHANGED <<timeVars, ruleVars, history>>

\* The line is taken for that of every player with the name in front of it, and
\* those who are stifled are silenced again.
Hears == IF player.here /\ player.stifled THEN Told(MutePlayer(player.length)) ELSE voice

\* They say something.
Chat ==
  /\ voice = "free" /\ voice' = Hears
  /\ UNCHANGED <<timeVars, ruleVars, player, pending, history>>

\* Somebody else of the same name does.
NamesakeChats ==
  /\ voice # "absent" /\ voice' = Hears
  /\ UNCHANGED <<timeVars, ruleVars, player, pending, history>>

\* The game server's timer.
TimerEnds ==
  /\ voice = "timed" /\ voice' = "free"
  /\ UNCHANGED <<timeVars, ruleVars, player, pending, history>>

-----------------------------------------------------------------------------
(* The checks.                                                             *)

\* The end of ParseConnect's goroutine: all rules, by a pointer to the record.
CheckRules ==
  /\ pending /\ pending' = FALSE
  /\ LET all == own \cup wide IN
     /\ \E f \in Lengths(player, Marks("STIFLE", all)) :
          LET p == Flagged(player, all, f) IN
          \E l \in Lengths(p, Of("STIFLE", all)) :
             /\ player' = Outcome(p, all, l).player
             /\ voice' = Outcome(p, all, l).voice
     /\ Recall(all)
  /\ UNCHANGED <<timeVars, ruleVars>>

\* The rules the maintenance loop looks at: none of the backend's.
TimeRules == {r \in own : r.asks \cap {"playtime", "after"} # {}}

\* One round of the maintenance loop: what it does to the record, it does to a
\* copy.
Maintain ==
  /\ player.here
  /\ \E f \in Lengths(player, Marks("STIFLE", TimeRules)) :
       LET p == Flagged(player, TimeRules, f) IN
       \E l \in Lengths(p, Of("STIFLE", TimeRules)) :
          voice' = Outcome(p, TimeRules, l).voice
  /\ Recall(TimeRules)
  /\ UNCHANGED <<timeVars, ruleVars, player, pending>>

-----------------------------------------------------------------------------
(* The rules and the clock.                                                *)

\* MaterializeRules: an empty list is not written.
MaterializeRules(rules) ==
  \/ disk' = (IF rules = {} THEN disk ELSE rules) /\ refused' = FALSE
  \/ rules # {} /\ disk' = disk /\ refused' = TRUE

\* Rules the console's wizard makes: they ask for an address and nothing else.
AddRuleWizard ==
  {r \in Catalog : /\ r.asks = {"address"} /\ r.names = 0 /\ r.infos = 0
                   /\ ~r.disabled /\ ~r.expires /\ r.exception = "none" /\ r.length = 0}

\* "rules add" at the console.
AddRule(r) ==
  /\ r \notin own /\ Cardinality(own) < MaxOwn
  /\ own' = own \cup {r} /\ MaterializeRules(own')
  /\ UNCHANGED <<timeVars, wide, player, pending, voice, history>>

\* "rules del": every rule whose ID begins with what is given, unless the ID of a
\* rule of the backend does too.  Any rules may have IDs that begin alike.
DeleteRules(gone) ==
  /\ gone \cap wide = {}
  /\ own' = own \ gone /\ MaterializeRules(own')
  /\ UNCHANGED <<timeVars, wide, player, pending, voice, history>>

\* The backend starts again, and does not read rules.pb; the game server plays
\* on.
Restart ==
  /\ own' = {} /\ refused' = FALSE
  /\ player' = NoPlayer /\ pending' = FALSE
  /\ UNCHANGED <<timeVars, wide, disk, voice, history>>

Tick ==
  /\ clock' = IF clock.minute < Minutes - 1
                THEN [hour |-> clock.hour, minute |-> clock.minute + 1]
              ELSE IF clock.hour < Hours - 1
                THEN [hour |-> clock.hour + 1, minute |-> 0]
              ELSE [hour |-> 0, minute |-> 0]
  /\ player' = IF player.here /\ player.played < PlayCap
                 THEN [player EXCEPT !.played = @ + 1] ELSE player
  /\ UNCHANGED <<late, ruleVars, pending, voice, history>>

DatePasses ==
  /\ ~late /\ late' = TRUE
  /\ UNCHANGED <<clock, ruleVars, player, pending, voice, history>>

-----------------------------------------------------------------------------
Next ==
  \/ Join \/ Relist \/ Leave \/ Chat \/ NamesakeChats \/ TimerEnds
  \/ CheckRules \/ Maintain
  \/ \E r \in AddRuleWizard : AddRule(r)
  \/ \E gone \in SUBSET own \ {{}} : DeleteRules(gone)
  \/ Restart \/ Tick \/ DatePasses

Spec == Init /\ [][Next]_vars

\* The maintenance loop runs for ever, and sleeps in between.
FairSpec == Spec /\ WF_vars(Maintain)
=============================================================================
