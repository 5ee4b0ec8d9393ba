---------------------------- MODULE Rules_proofs ----------------------------
(***************************************************************************)
(* The safety properties of RulesProps, for every set of rules, every      *)
(* length of a day and every bound; and those of RuleListsProps, for every *)
(* number of sessions, checks, rules and changes.  The two modules share   *)
(* no variable.                                                            *)
(***************************************************************************)
EXTENDS RulesProps, RuleListsProps, FiniteSetTheorems, SequenceTheorems,
        WellFoundedInduction, TLAPS

\* A check and the record of a person exist only while they play.
Present == (player.here \/ pending) => voice # "absent"

\* A person marked as stifled was called to be.
StifledIsCalled == ~odd /\ player.stifled => "STIFLE" \in called

RulesInv == Present /\ StifledIsCalled /\ NothingUncalled /\ SeverestHolds

-----------------------------------------------------------------------------
(* Needs and haves.                                                        *)

\* The single criteria of a rule are finitely many.
LEMMA CriteriaFinite ==
  ASSUME NEW r \in Rule
  PROVE  IsFiniteSet(r.asks \ Unread) /\ r.asks \ Unread \subseteq Facts \cup Timed
<1>1. IsFiniteSet({"address"} \cup {"hostname"} \cup {"vpn"}
                   \cup {"before"} \cup {"after"} \cup {"playtime"})
  BY FS_Singleton, FS_Union
<1>2. {"address"} \cup {"hostname"} \cup {"vpn"}
        \cup {"before"} \cup {"after"} \cup {"playtime"} = Facts \cup Timed
  BY DEF Facts, Timed
<1>3. r.asks \ Unread \subseteq Facts \cup Timed
  BY DEF Rule
<1> QED
  BY <1>1, <1>2, <1>3, FS_Subset

\* The criteria met are among those asked for and read.
LEMMA MetIsAsked ==
  ASSUME NEW r \in Catalog
  PROVE  Met(r) \subseteq r.asks \ Unread
<1>1. r.met \subseteq r.asks /\ r.asks \subseteq Facts \cup Timed \cup Unread
  BY RuleAssumption DEF Rule
<1> QED
  BY <1>1 DEF Met, Facts, Timed, Unread

\* Two sums of three are equal term by term when no term is larger.
LEMMA TermByTerm ==
  ASSUME NEW a \in Nat, NEW b \in Nat, NEW c \in Nat,
         NEW x \in Nat, NEW y \in Nat, NEW z \in Nat,
         x <= a, y <= b, z <= c
  PROVE  a + b + c <= x + y + z <=> x = a /\ y = b /\ z = c
OBVIOUS

\* When at most one name pattern matches, the count of needs and haves is even
\* exactly if everything asked for is met.
LEMMA NeedIsHave ==
  ASSUME NEW r \in Catalog, r.hits <= 1
  PROVE  Need(r) <= Have(r) <=> /\ Met(r) = r.asks \ Unread
                                /\ r.names > 0 => r.hits > 0
                                /\ r.infoHits = r.infos
<1> DEFINE single == r.asks \ Unread
           name == IF r.names > 0 THEN 1 ELSE 0
<1>1. /\ r \in Rule /\ r.names \in Nat /\ r.hits \in Nat
      /\ r.infos \in Nat /\ r.infoHits \in Nat
      /\ r.hits <= r.names /\ r.infoHits <= r.infos
  BY RuleAssumption DEF Rule
<1>2. IsFiniteSet(single)
  BY <1>1, CriteriaFinite
<1>3. Met(r) \in SUBSET single
  BY MetIsAsked
<1>4. /\ IsFiniteSet(Met(r)) /\ Cardinality(Met(r)) <= Cardinality(single)
      /\ Cardinality(single) = Cardinality(Met(r)) => single = Met(r)
  BY <1>2, <1>3, FS_Subset
<1>5. Cardinality(single) \in Nat /\ Cardinality(Met(r)) \in Nat
  BY <1>2, <1>4, FS_CardinalityType
<1>6. name \in Nat /\ r.hits <= name /\ (r.hits = name <=> (r.names > 0 => r.hits > 0))
  BY <1>1
<1> HIDE DEF single, name
<1>7. Cardinality(single) + name + r.infos <= Cardinality(Met(r)) + r.hits + r.infoHits
        <=> /\ Cardinality(Met(r)) = Cardinality(single)
            /\ r.hits = name /\ r.infoHits = r.infos
  BY <1>1, <1>4, <1>5, <1>6, TermByTerm
<1>8. Need(r) <= Have(r)
        <=> Cardinality(single) + name + r.infos <= Cardinality(Met(r)) + r.hits + r.infoHits
  BY DEF Need, Have, single, name
<1> QED
  BY <1>4, <1>6, <1>7, <1>8 DEF single

\* A time of day at the end of an hour is compared as a time is, and so is one
\* at the beginning.
LEMMA TimesExact ==
  ASSUME NEW r \in Rule, TypeOK, ~r.dated
  PROVE  /\ r.when.minute = Minutes - 1 => (BeforeMet(r) <=> NotLater(clock, r.when))
         /\ r.when.minute = 0 => (AfterMet(r) <=> NotLater(r.when, clock))
<1>1. /\ r.when.hour \in 0..(Hours - 1) /\ r.when.minute \in 0..(Minutes - 1)
      /\ clock.hour \in 0..(Hours - 1) /\ clock.minute \in 0..(Minutes - 1)
  BY DEF Rule, TypeOK, TimeOfDay
<1> QED
  BY <1>1, DayAssumption DEF BeforeMet, AfterMet, NotLater

\* What it means that every single criterion is met.
LEMMA MetIsRequired ==
  ASSUME NEW r \in Catalog, TypeOK, Exact(r)
  PROVE  Met(r) = r.asks \ Unread
           <=> /\ r.asks \cap (Facts \cup Unread) \subseteq r.met
               /\ "before" \in r.asks
                    => IF r.dated THEN ~late ELSE NotLater(clock, r.when)
               /\ "after" \in r.asks
                    => IF r.dated THEN late ELSE NotLater(r.when, clock)
               /\ "playtime" \in r.asks => PlaytimeMet(r)
<1>1. /\ r \in Rule /\ r.met \subseteq r.asks /\ r.asks \cap Unread = {}
      /\ r.asks \ Unread \subseteq Facts \cup Timed
  BY RuleAssumption, CriteriaFinite DEF Rule, Exact
<1>2. Met(r) = r.asks \ Unread
        <=> /\ r.asks \cap (Facts \cup Unread) \subseteq r.met
            /\ "before" \in r.asks => BeforeMet(r)
            /\ "after" \in r.asks => AfterMet(r)
            /\ "playtime" \in r.asks => PlaytimeMet(r)
  BY <1>1 DEF Met, Facts, Timed, Unread
<1>3. "before" \in r.asks
        => (BeforeMet(r) <=> IF r.dated THEN ~late ELSE NotLater(clock, r.when))
  <2>1. CASE r.dated
    BY <2>1 DEF BeforeMet
  <2>2. CASE ~r.dated
    BY <2>2, <1>1, TimesExact DEF Exact
  <2> QED
    BY <2>1, <2>2
<1>4. "after" \in r.asks
        => (AfterMet(r) <=> IF r.dated THEN late ELSE NotLater(r.when, clock))
  <2>1. CASE r.dated
    BY <2>1 DEF AfterMet
  <2>2. CASE ~r.dated
    BY <2>2, <1>1, TimesExact DEF Exact
  <2> QED
    BY <2>1, <2>2
<1> QED
  BY <1>2, <1>3, <1>4

\* CheckRule applies a rule to exactly those it is documented to apply to.
LEMMA Exactness ==
  ASSUME NEW r \in Catalog, TypeOK, Exact(r)
  PROVE  CheckRule(r) <=> Required(r)
<1>1. /\ r.hits <= 1 /\ r.names \in Nat /\ r.hits \in Nat
      /\ r.infos \in Nat /\ r.infoHits \in Nat /\ r.hits <= r.names
      /\ r.asks \cap Unread = {}
  BY RuleAssumption DEF Exact, Rule
<1>2. Need(r) <= Have(r) <=> /\ Met(r) = r.asks \ Unread
                             /\ r.names > 0 => r.hits > 0
                             /\ r.infoHits = r.infos
  BY <1>1, NeedIsHave
<1>3. ASSUME Met(r) = r.asks \ Unread, r.names > 0 => r.hits > 0, r.infoHits = r.infos
      PROVE  Matches(r) <=> r.asks # {} \/ r.names > 0 \/ r.infos > 0
  BY <1>1, <1>3 DEF Matches
<1> QED
  BY <1>2, <1>3, MetIsRequired DEF CheckRule, Required

-----------------------------------------------------------------------------
(* Types.                                                                  *)

LEMMA LengthsType ==
  ASSUME NEW p, p.length \in Int, NEW S \in SUBSET Catalog, NEW l \in Lengths(p, S)
  PROVE  l \in Int
<1>1. \A r \in S : r.length \in Int
  BY RuleAssumption DEF Rule
<1> QED
  BY <1>1 DEF Lengths

LEMMA MarkedType ==
  ASSUME NEW p \in Player, NEW mu \in BOOLEAN, NEW st \in BOOLEAN, NEW le \in Int
  PROVE  /\ Marked(p, mu, st, le) \in Player
         /\ Marked(p, mu, st, le).here = p.here
         /\ Marked(p, mu, st, le).muted = mu
         /\ Marked(p, mu, st, le).stifled = st
BY DEF Marked, Player

LEMMA FlaggedType ==
  ASSUME NEW p \in Player, NEW R, NEW l \in Int
  PROVE  /\ Flagged(p, R, l) \in Player
         /\ Flagged(p, R, l).here = p.here
         /\ Flagged(p, R, l).muted = (p.muted \/ Marks("MUTE", R) # {})
         /\ Flagged(p, R, l).stifled = (p.stifled \/ Marks("STIFLE", R) # {})
<1> DEFINE mu == p.muted \/ Marks("MUTE", R) # {}
           st == p.stifled \/ Marks("STIFLE", R) # {}
           le == IF Marks("STIFLE", R) = {} THEN p.length ELSE l
<1>1. mu \in BOOLEAN /\ st \in BOOLEAN
  OBVIOUS
<1>2. le \in Int
  BY DEF Player
<1>3. Flagged(p, R, l) = Marked(p, mu, st, le)
  BY Zenon DEF Flagged
<1> HIDE DEF mu, st, le
<1>4. /\ Marked(p, mu, st, le) \in Player /\ Marked(p, mu, st, le).here = p.here
      /\ Marked(p, mu, st, le).muted = mu /\ Marked(p, mu, st, le).stifled = st
  BY <1>1, <1>2, MarkedType
<1> QED
  BY <1>3, <1>4, Zenon DEF mu, st

LEMMA OutcomeType ==
  ASSUME NEW p \in Player, NEW R, NEW l \in Int,
         voice \in {"absent", "free", "timed", "mute", "kicked"}
  PROVE  /\ Outcome(p, R, l).player \in Player
         /\ Outcome(p, R, l).voice \in {"absent", "free", "timed", "mute", "kicked"}
         /\ Outcome(p, R, l).player.here = p.here
         /\ Outcome(p, R, l).player.stifled => p.stifled \/ Of("STIFLE", R) # {}
<1>1. p.muted \in BOOLEAN /\ p.stifled \in BOOLEAN /\ p.length \in Int
  BY DEF Player
<1>2. /\ Marked(p, TRUE, p.stifled, p.length) \in Player
      /\ Marked(p, TRUE, p.stifled, p.length).here = p.here
      /\ Marked(p, TRUE, p.stifled, p.length).stifled = p.stifled
  BY <1>1, MarkedType, ZenonT(40)
<1>3. /\ Marked(p, p.muted, TRUE, l) \in Player
      /\ Marked(p, p.muted, TRUE, l).here = p.here
  BY <1>1, MarkedType, ZenonT(40)
<1>4. CASE Of("BAN", R) # {}
  BY <1>4 DEF Outcome
<1>5. CASE Of("BAN", R) = {} /\ Of("MUTE", R) # {}
  BY <1>2, <1>5 DEF Outcome, Told, MutePlayer
<1>6. CASE Of("BAN", R) = {} /\ Of("MUTE", R) = {} /\ Of("STIFLE", R) # {} /\ ~p.muted
  BY <1>3, <1>6 DEF Outcome, Told, MutePlayer
<1>7. CASE Of("BAN", R) = {} /\ Of("MUTE", R) = {} /\ ~(Of("STIFLE", R) # {} /\ ~p.muted)
  BY <1>7 DEF Outcome
<1> QED
  BY <1>4, <1>5, <1>6, <1>7

\* What ApplyMatchedRules makes of a voice.
LEMMA OutcomeVoice ==
  ASSUME NEW p, NEW R, NEW l, NEW v, v = Outcome(p, R, l).voice
  PROVE  /\ Of("BAN", R) # {} => v = "kicked"
         /\ Of("BAN", R) = {} /\ Of("MUTE", R) # {} => v = Told("mute")
         /\ Of("BAN", R) = {} /\ Of("MUTE", R) = {} /\ Of("STIFLE", R) # {}
              => v = voice \/ (~p.muted /\ v = Told(MutePlayer(l)))
         /\ Of("BAN", R) = {} /\ Of("MUTE", R) = {} /\ Of("STIFLE", R) = {}
              => v = voice
BY DEF Outcome, MutePlayer

LEMMA HearsType ==
  ASSUME TypeOK PROVE Hears \in {"absent", "free", "timed", "mute", "kicked"}
BY DEF TypeOK, Hears, Told, MutePlayer

LEMMA RecallType ==
  ASSUME TypeOK, NEW R \in SUBSET Catalog, Recall(R)
  PROVE  called' \subseteq Types /\ odd' \in BOOLEAN
<1>1. \A r \in R : r.type \in Types
  BY RuleAssumption DEF Rule
<1>2. called' \subseteq Types
  BY <1>1 DEF Recall, TypeOK
<1>3. odd' = (odd \/ \E r \in R : ~Exact(r) \/ Half(r))
  BY DEF Recall
<1>4. odd' \in BOOLEAN
  BY <1>3, Zenon
<1> QED
  BY <1>2, <1>4

\* The rules of a check, taken from the definitions of the two checks.
Rounds(all, p, v) ==
  \E f \in Lengths(player, Marks("STIFLE", all)) :
     \E l \in Lengths(Flagged(player, all, f), Of("STIFLE", all)) :
        /\ p = Outcome(Flagged(player, all, f), all, l).player
        /\ v = Outcome(Flagged(player, all, f), all, l).voice

LEMMA CheckRulesRounds ==
  CheckRules => /\ pending /\ pending' = FALSE
                /\ Rounds(own \cup wide, player', voice')
                /\ Recall(own \cup wide)
                /\ UNCHANGED <<timeVars, ruleVars>>
BY Zenon DEF CheckRules, Rounds

LEMMA MaintainRounds ==
  Maintain => /\ player.here
              /\ \E p : Rounds(TimeRules, p, voice')
              /\ Recall(TimeRules)
              /\ UNCHANGED <<timeVars, ruleVars, player, pending>>
BY Zenon DEF Maintain, Rounds

\* A check of any rules leaves a record and a voice behind.
LEMMA RoundsType ==
  ASSUME TypeOK, NEW R \in SUBSET Catalog, NEW p, NEW v, Rounds(R, p, v)
  PROVE  /\ p \in Player /\ p.here = player.here
         /\ v \in {"absent", "free", "timed", "mute", "kicked"}
         /\ p.stifled => player.stifled \/ Marks("STIFLE", R) # {} \/ Of("STIFLE", R) # {}
<1>1. player \in Player /\ player.length \in Int
      /\ voice \in {"absent", "free", "timed", "mute", "kicked"}
  BY DEF TypeOK, Player
<1>2. Marks("STIFLE", R) \in SUBSET Catalog /\ Of("STIFLE", R) \in SUBSET Catalog
  BY DEF Marks, Of
<1>3. PICK f \in Lengths(player, Marks("STIFLE", R)) :
        \E l \in Lengths(Flagged(player, R, f), Of("STIFLE", R)) :
           /\ p = Outcome(Flagged(player, R, f), R, l).player
           /\ v = Outcome(Flagged(player, R, f), R, l).voice
  BY DEF Rounds
<1> DEFINE q == Flagged(player, R, f)
<1>4. f \in Int
  BY <1>1, <1>2, <1>3, LengthsType
<1>5. q \in Player /\ q.here = player.here
      /\ q.stifled = (player.stifled \/ Marks("STIFLE", R) # {})
  BY <1>1, <1>4, FlaggedType
<1>6. PICK l \in Lengths(q, Of("STIFLE", R)) :
        p = Outcome(q, R, l).player /\ v = Outcome(q, R, l).voice
  BY <1>3
<1> HIDE DEF q
<1>7. l \in Int
  <2>1. q.length \in Int
    BY <1>5 DEF Player
  <2> QED
    BY <2>1, <1>2, <1>6, LengthsType
<1>8. /\ Outcome(q, R, l).player \in Player
      /\ Outcome(q, R, l).voice \in {"absent", "free", "timed", "mute", "kicked"}
      /\ Outcome(q, R, l).player.here = q.here
      /\ Outcome(q, R, l).player.stifled => q.stifled \/ Of("STIFLE", R) # {}
  BY <1>1, <1>5, <1>7, OutcomeType
<1> QED
  BY <1>5, <1>6, <1>8

\* The voice a check leaves behind: a ban, a mute or a stifle that applies
\* decides it, and a stifle only that of somebody not marked as muted.
LEMMA RoundsVoice ==
  ASSUME TypeOK, NEW R \in SUBSET Catalog, NEW p, NEW v, Rounds(R, p, v)
  PROVE  /\ Of("BAN", R) # {} => v = "kicked"
         /\ Of("BAN", R) = {} /\ Of("MUTE", R) # {} => v = Told("mute")
         /\ Of("BAN", R) = {} /\ Of("MUTE", R) = {} /\ Of("STIFLE", R) # {}
              => v = voice \/ (~player.muted /\ v \in {Told("mute"), Told("timed")})
         /\ Of("BAN", R) = {} /\ Of("MUTE", R) = {} /\ Of("STIFLE", R) = {} => v = voice
<1>1. player \in Player /\ player.length \in Int
  BY DEF TypeOK, Player
<1>2. Marks("STIFLE", R) \in SUBSET Catalog
  BY DEF Marks
<1>3. PICK f \in Lengths(player, Marks("STIFLE", R)) :
        \E l \in Lengths(Flagged(player, R, f), Of("STIFLE", R)) :
           /\ p = Outcome(Flagged(player, R, f), R, l).player
           /\ v = Outcome(Flagged(player, R, f), R, l).voice
  BY DEF Rounds
<1> DEFINE q == Flagged(player, R, f)
<1>4. f \in Int
  BY <1>1, <1>2, <1>3, LengthsType
<1>5. q.muted = (player.muted \/ Marks("MUTE", R) # {})
  BY <1>1, <1>4, FlaggedType
<1>6. PICK l \in Lengths(q, Of("STIFLE", R)) : v = Outcome(q, R, l).voice
  BY <1>3
<1> HIDE DEF q
<1>7. /\ Of("BAN", R) # {} => v = "kicked"
      /\ Of("BAN", R) = {} /\ Of("MUTE", R) # {} => v = Told("mute")
      /\ Of("BAN", R) = {} /\ Of("MUTE", R) = {} /\ Of("STIFLE", R) # {}
           => v = voice \/ (~q.muted /\ v = Told(MutePlayer(l)))
      /\ Of("BAN", R) = {} /\ Of("MUTE", R) = {} /\ Of("STIFLE", R) = {} => v = voice
  BY <1>6, OutcomeVoice
<1>8. Told(MutePlayer(l)) \in {Told("mute"), Told("timed")}
  BY DEF MutePlayer
<1>9. ~q.muted => ~player.muted
  BY <1>5
<1> QED
  BY <1>7, <1>8, <1>9

\* Type correctness.
THEOREM TypeCorrect == Spec => []TypeOK
<1>1. Init => TypeOK
  <2>1. NoPlayer \in Player
    BY BoundsAssumption DEF NoPlayer, Player
  <2>2. Init => own \subseteq Catalog /\ wide \subseteq Catalog /\ disk \subseteq Catalog
    BY SetsAssumption DEF Init
  <2> QED
    BY <2>1, <2>2 DEF Init, TypeOK
<1>2. TypeOK /\ [Next]_vars => TypeOK'
  <2> SUFFICES ASSUME TypeOK, [Next]_vars PROVE TypeOK'
    OBVIOUS
  <2> USE DEF timeVars, ruleVars, history
  <2>0. NewPlayer \in Player /\ NoPlayer \in Player
    BY BoundsAssumption DEF NewPlayer, NoPlayer, Player
  <2>1. CASE Join \/ Relist \/ Leave
    BY <2>0, <2>1 DEF Join, Relist, Leave, TypeOK
  <2>2. CASE Chat \/ NamesakeChats
    BY <2>2, HearsType DEF Chat, NamesakeChats, TypeOK
  <2>3. CASE TimerEnds
    BY <2>3 DEF TimerEnds, TypeOK
  <2>4. CASE CheckRules
    <3>1. own \cup wide \in SUBSET Catalog
      BY DEF TypeOK
    <3>2. /\ pending' = FALSE /\ Recall(own \cup wide)
          /\ Rounds(own \cup wide, player', voice') /\ UNCHANGED <<timeVars, ruleVars>>
      BY <2>4, CheckRulesRounds
    <3>3. player' \in Player /\ voice' \in {"absent", "free", "timed", "mute", "kicked"}
      BY <3>1, <3>2, RoundsType
    <3>4. called' \subseteq Types /\ odd' \in BOOLEAN
      BY <3>1, <3>2, RecallType
    <3> QED
      BY <3>2, <3>3, <3>4 DEF TypeOK
  <2>5. CASE Maintain
    <3>1. TimeRules \in SUBSET Catalog
      BY DEF TypeOK, TimeRules
    <3>2. Recall(TimeRules) /\ UNCHANGED <<timeVars, ruleVars, player, pending>>
      BY <2>5, MaintainRounds
    <3>3. PICK p : Rounds(TimeRules, p, voice')
      BY <2>5, MaintainRounds
    <3>4. voice' \in {"absent", "free", "timed", "mute", "kicked"}
      BY <3>1, <3>3, RoundsType
    <3>5. called' \subseteq Types /\ odd' \in BOOLEAN
      BY <3>1, <3>2, RecallType
    <3> QED
      BY <3>2, <3>4, <3>5 DEF TypeOK
  <2>6. ASSUME NEW r \in AddRuleWizard, AddRule(r) PROVE TypeOK'
    BY <2>6 DEF AddRule, AddRuleWizard, MaterializeRules, TypeOK
  <2>7. ASSUME NEW gone \in SUBSET own, DeleteRules(gone) PROVE TypeOK'
    BY <2>7 DEF DeleteRules, MaterializeRules, TypeOK
  <2>8. CASE Restart
    BY <2>0, <2>8 DEF Restart, TypeOK
  <2>9. CASE Tick
    <3>1. clock' \in TimeOfDay
      <4>1. clock.hour \in 0..(Hours - 1) /\ clock.minute \in 0..(Minutes - 1)
        BY DEF TypeOK, TimeOfDay
      <4> QED
        BY <2>9, <4>1, DayAssumption DEF Tick, TimeOfDay
    <3>2. player' \in Player
      <4>1. player \in Player
        BY DEF TypeOK
      <4>2. player.played \in 0..PlayCap
        BY <4>1 DEF Player
      <4>3. player.played < PlayCap => player.played + 1 \in 0..PlayCap
        BY <4>2, BoundsAssumption
      <4>4. ASSUME NEW n \in 0..PlayCap PROVE [player EXCEPT !.played = n] \in Player
        BY <4>1 DEF Player
      <4> QED
        BY <2>9, <4>1, <4>3, <4>4 DEF Tick
    <3> QED
      BY <2>9, <3>1, <3>2 DEF Tick, TypeOK
  <2>10. CASE DatePasses
    BY <2>10 DEF DatePasses, TypeOK
  <2>11. CASE UNCHANGED vars
    BY <2>11 DEF vars, TypeOK
  <2> QED
    BY <2>1, <2>2, <2>3, <2>4, <2>5, <2>6, <2>7, <2>8, <2>9, <2>10, <2>11 DEF Next
<1> QED
  BY <1>1, <1>2, PTL DEF Spec

\* Needs and haves are what a rule asks for, for every rule read as documented.
THEOREM CheckRuleExactCorrect == Spec => []CheckRuleExact
<1>1. TypeOK => CheckRuleExact
  BY Exactness DEF CheckRuleExact
<1> QED
  BY <1>1, TypeCorrect, PTL

-----------------------------------------------------------------------------
(* Bans, mutes and stifles.                                                *)

\* As long as nothing odd is checked, a rule that applies or leaves its mark
\* has been called for, and one called for applies.
LEMMA CalledApplies ==
  ASSUME TypeOK, NEW R \in SUBSET Catalog, Recall(R), ~odd'
  PROVE  /\ ~odd /\ called \subseteq called'
         /\ \A type \in Types : Of(type, R) # {} => type \in called'
         /\ \A type \in called' : type \in called \/ Of(type, R) # {}
         /\ Marks("STIFLE", R) # {} => "STIFLE" \in called'
<1>1. ~odd /\ called \subseteq called' /\ \A r \in R : Exact(r) /\ ~Half(r)
  BY DEF Recall
<1>2. \A r \in R : CheckRule(r) <=> Required(r)
  BY <1>1, Exactness
<1>3. \A r \in R : Required(r) => r.type \in called'
  BY DEF Recall
<1>4. \A type \in Types : Of(type, R) # {} => type \in called'
  BY <1>2, <1>3 DEF Of
<1>5. \A type \in called' : type \in called \/ Of(type, R) # {}
  BY <1>2 DEF Recall, Of
<1>6. \A r \in Marks("STIFLE", R) : CheckRule(r) /\ r \in R /\ r.type = "STIFLE"
  BY <1>1 DEF Marks, Half
<1>7. Marks("STIFLE", R) # {} => "STIFLE" \in called'
  BY <1>2, <1>3, <1>6
<1> QED
  BY <1>1, <1>4, <1>5, <1>7

\* A check keeps the invariant, whatever becomes of the record.
LEMMA CheckKeeps ==
  ASSUME TypeOK, RulesInv, voice # "absent",
         NEW R \in SUBSET Catalog, Recall(R), NEW p, Rounds(R, p, voice')
  PROVE  /\ voice' # "absent"
         /\ ~odd' /\ p.stifled => "STIFLE" \in called'
         /\ ~odd' /\ player.stifled => "STIFLE" \in called'
         /\ NothingUncalled' /\ SeverestHolds'
<1>1. /\ Of("BAN", R) # {} => voice' = "kicked"
      /\ Of("BAN", R) = {} /\ Of("MUTE", R) # {} => voice' = Told("mute")
      /\ Of("BAN", R) = {} /\ Of("MUTE", R) = {} /\ Of("STIFLE", R) # {}
           => voice' = voice \/ (~player.muted /\ voice' \in {Told("mute"), Told("timed")})
      /\ Of("BAN", R) = {} /\ Of("MUTE", R) = {} /\ Of("STIFLE", R) = {} => voice' = voice
  BY RoundsVoice
<1>2. p.stifled => player.stifled \/ Marks("STIFLE", R) # {} \/ Of("STIFLE", R) # {}
  BY RoundsType
<1>3. voice' # "absent"
  BY <1>1 DEF Told
<1>4. CASE odd'
  BY <1>3, <1>4 DEF NothingUncalled, SeverestHolds
<1>5. CASE ~odd'
  <2>1. /\ ~odd /\ called \subseteq called'
        /\ Of("BAN", R) # {} => "BAN" \in called'
        /\ Of("MUTE", R) # {} => "MUTE" \in called'
        /\ Of("STIFLE", R) # {} => "STIFLE" \in called'
        /\ "BAN" \in called' => "BAN" \in called \/ Of("BAN", R) # {}
        /\ "MUTE" \in called' => "MUTE" \in called \/ Of("MUTE", R) # {}
        /\ Marks("STIFLE", R) # {} => "STIFLE" \in called'
    BY <1>5, CalledApplies DEF Types
  <2>2. p.stifled \/ player.stifled => "STIFLE" \in called'
    BY <1>2, <2>1 DEF RulesInv, StifledIsCalled
  <2>3. NothingUncalled'
    BY <1>1, <2>1 DEF RulesInv, NothingUncalled, Told
  <2>4. SeverestHolds'
    BY <1>1, <2>1 DEF RulesInv, SeverestHolds, Told
  <2> QED
    BY <1>3, <2>2, <2>3, <2>4
<1> QED
  BY <1>4, <1>5

LEMMA RulesInvHolds == Spec => []RulesInv
<1>1. Init => RulesInv
  BY DEF Init, RulesInv, Present, StifledIsCalled, NothingUncalled, SeverestHolds, NoPlayer
<1>2. TypeOK /\ RulesInv /\ [Next]_vars => RulesInv'
  <2> SUFFICES ASSUME TypeOK, RulesInv, [Next]_vars PROVE RulesInv'
    OBVIOUS
  <2> USE DEF timeVars, ruleVars, history
  <2>0. Present /\ StifledIsCalled /\ NothingUncalled /\ SeverestHolds
    BY DEF RulesInv
  <2>1. CASE Join \/ Relist \/ Leave
    BY <2>0, <2>1 DEF Join, Relist, Leave, NewPlayer, NoPlayer,
                      RulesInv, Present, StifledIsCalled, NothingUncalled, SeverestHolds
  <2>2. CASE Chat \/ NamesakeChats
    <3>1. voice' \in {voice, "kicked", "mute", "timed"}
          /\ (voice' # voice => player.stifled /\ voice # "kicked" /\ voice' # "kicked")
      BY <2>2 DEF Chat, NamesakeChats, Hears, Told, MutePlayer
    <3>2. UNCHANGED <<player, pending, called, odd>> /\ voice # "absent"
      BY <2>2 DEF Chat, NamesakeChats
    <3> QED
      BY <2>0, <3>1, <3>2 DEF RulesInv, Present, StifledIsCalled, NothingUncalled, SeverestHolds
  <2>3. CASE TimerEnds
    BY <2>0, <2>3 DEF TimerEnds, RulesInv, Present, StifledIsCalled, NothingUncalled, SeverestHolds
  <2>4. CASE CheckRules
    <3>1. own \cup wide \in SUBSET Catalog
      BY DEF TypeOK
    <3>2. /\ pending /\ pending' = FALSE /\ Recall(own \cup wide)
          /\ Rounds(own \cup wide, player', voice')
      BY <2>4, CheckRulesRounds
    <3>3. voice # "absent"
      BY <2>0, <3>2 DEF Present
    <3>4. /\ voice' # "absent" /\ ~odd' /\ player'.stifled => "STIFLE" \in called'
          /\ NothingUncalled' /\ SeverestHolds'
      BY <3>1, <3>2, <3>3, CheckKeeps
    <3> QED
      BY <3>4, CheckKeeps, <3>1, <3>2, <3>3 DEF RulesInv, Present, StifledIsCalled
  <2>5. CASE Maintain
    <3>1. TimeRules \in SUBSET Catalog
      BY DEF TypeOK, TimeRules
    <3>2. player.here /\ Recall(TimeRules) /\ UNCHANGED <<player, pending>>
      BY <2>5, MaintainRounds
    <3>3. PICK p : Rounds(TimeRules, p, voice')
      BY <2>5, MaintainRounds
    <3>4. voice # "absent"
      BY <2>0, <3>2 DEF Present
    <3>5. /\ voice' # "absent"
          /\ ~odd' /\ player.stifled => "STIFLE" \in called'
          /\ NothingUncalled' /\ SeverestHolds'
      BY <3>1, <3>2, <3>3, <3>4, CheckKeeps
    <3> QED
      BY <3>2, <3>5 DEF RulesInv, Present, StifledIsCalled
  <2>6. ASSUME NEW r, AddRule(r) \/ DeleteRules(r) PROVE RulesInv'
    BY <2>0, <2>6 DEF AddRule, DeleteRules, RulesInv, Present, StifledIsCalled,
                      NothingUncalled, SeverestHolds
  <2>7. CASE Restart
    BY <2>0, <2>7 DEF Restart, NoPlayer, RulesInv, Present, StifledIsCalled,
                      NothingUncalled, SeverestHolds
  <2>8. CASE Tick
    <3>1. UNCHANGED <<pending, voice, called, odd>>
      BY <2>8 DEF Tick
    <3>2. player'.here = player.here /\ player'.stifled = player.stifled
      <4>1. player \in Player
        BY DEF TypeOK
      <4>2. \A n : /\ [player EXCEPT !.played = n].here = player.here
                   /\ [player EXCEPT !.played = n].stifled = player.stifled
        BY <4>1 DEF Player
      <4> QED
        BY <2>8, <4>2 DEF Tick
    <3> QED
      BY <2>0, <3>1, <3>2 DEF RulesInv, Present, StifledIsCalled, NothingUncalled, SeverestHolds
  <2>9. CASE DatePasses
    BY <2>0, <2>9 DEF DatePasses, RulesInv, Present, StifledIsCalled, NothingUncalled, SeverestHolds
  <2>10. CASE UNCHANGED vars
    BY <2>0, <2>10 DEF vars, RulesInv, Present, StifledIsCalled, NothingUncalled, SeverestHolds
  <2> QED
    BY <2>1, <2>2, <2>3, <2>4, <2>5, <2>6, <2>7, <2>8, <2>9, <2>10 DEF Next
<1> QED
  BY <1>1, <1>2, TypeCorrect, PTL DEF Spec

\* Nobody is thrown out or silenced without a rule that applies to them.
THEOREM NothingUncalledCorrect == Spec => []NothingUncalled
<1>1. RulesInv => NothingUncalled
  BY DEF RulesInv
<1> QED
  BY <1>1, RulesInvHolds, PTL

\* Bans, and mutes without stifles, outlast all that follows.
THEOREM SeverestHoldsCorrect == Spec => []SeverestHolds
<1>1. RulesInv => SeverestHolds
  BY DEF RulesInv
<1> QED
  BY <1>1, RulesInvHolds, PTL

\* Who is recorded as muted and not as stifled, and is silenced for good, stays
\* so: no stifle, maintenance round, line of a namesake or timer gives them
\* their voice back (rules.go:494-496).
MutedStaysMuted ==
  [][voice = "mute" /\ player.muted /\ ~player.stifled
       => voice' \in {"mute", "kicked", "absent"}]_vars

\* A player marked as muted and not as stifled stays silenced, whatever rules
\* the frontend has.
THEOREM MutedStaysMutedCorrect == Spec => MutedStaysMuted
<1> DEFINE Silent == voice = "mute" /\ player.muted /\ ~player.stifled
                       => voice' \in {"mute", "kicked", "absent"}
<1>1. TypeOK /\ [Next]_vars => [Silent]_vars
  <2> SUFFICES ASSUME TypeOK, Next, voice = "mute", player.muted, ~player.stifled
               PROVE  voice' \in {"mute", "kicked", "absent"}
    BY DEF vars
  <2>1. ASSUME NEW R \in SUBSET Catalog, NEW p, Rounds(R, p, voice')
        PROVE  voice' \in {"mute", "kicked", "absent"}
    BY <2>1, RoundsVoice DEF Told
  <2>2. CASE CheckRules
    <3>1. own \cup wide \in SUBSET Catalog
      BY DEF TypeOK
    <3> QED
      BY <2>1, <2>2, <3>1, CheckRulesRounds
  <2>3. CASE Maintain
    <3>1. TimeRules \in SUBSET Catalog
      BY DEF TypeOK, TimeRules
    <3> QED
      BY <2>1, <2>3, <3>1, MaintainRounds
  <2>4. CASE ~CheckRules /\ ~Maintain
    BY <2>4 DEF Next, Join, Relist, Leave, Chat, NamesakeChats, Hears, TimerEnds,
                AddRule, DeleteRules, Restart, Tick, DatePasses
  <2> QED
    BY <2>2, <2>3, <2>4
<1> QED
  BY <1>1, TypeCorrect, PTL DEF Spec, MutedStaysMuted

-----------------------------------------------------------------------------
(* The memory behind the rules: slices.                                    *)

LEMMA OwnRules ==
  ASSUME NEW n \in 1..MaxAdded
  PROVE  Own(n) \in SlotRule
BY DEF SlotRule

LEMMA WideRules ==
  /\ Wide \in Seq(SlotRule) /\ Len(Wide) = WideCount
  /\ \A i \in 1..WideCount : Wide[i] \in SlotRule
<1>1. \A i \in 1..WideCount : Wide[i] \in SlotRule
  BY DEF SlotRule
<1>2. WideCount \in Nat
  BY ListBoundsAssumption
<1>3. Wide = [i \in 1..WideCount |-> Wide[i]]
  BY DEF Wide
<1> QED
  BY <1>1, <1>2, <1>3

LEMMA EmptyRule == Empty \in SlotRule
BY DEF SlotRule

LEMMA NoRulesType == NoRules \in Slice /\ NoRules.array = 1 /\ NoRules.len = 0
BY ListBoundsAssumption DEF NoRules, Slice

LEMMA SliceParts ==
  ASSUME NEW s \in Slice
  PROVE  /\ s.array \in 1..(MaxChanges + 2) /\ s.array \in Nat /\ s.len \in Nat
         /\ s = [array |-> s.array, len |-> s.len]
BY ListBoundsAssumption DEF Slice

LEMMA MixedSlices ==
  ASSUME NEW slices, slices \subseteq Slice, NEW m \in Mixed(slices)
  PROVE  m \in Slice /\ \E a \in slices : m.array = a.array
<1>1. PICK a \in slices, l \in slices : m = [array |-> a.array, len |-> l.len]
  BY DEF Mixed
<1>2. a \in Slice /\ l \in Slice
  BY <1>1
<1> QED
  BY <1>1, <1>2, SliceParts DEF Slice

LEMMA MixedWithNone ==
  ASSUME NEW s \in Slice
  PROVE  Mixed({s}) = {s}
<1>1. s = [array |-> s.array, len |-> s.len]
  BY SliceParts
<1> QED
  BY <1>1 DEF Mixed

-----------------------------------------------------------------------------
(* What each session and each check has in its hands is an array that is   *)
(* there, and each session is good for at most one array more.             *)

Pending == {s \in Sessions : op[s].phase \in {"adding", "deleting"}}

Arrays ==
  /\ heap[1] = <<>>
  /\ rules.array \in DOMAIN heap
  /\ \A s \in Sessions : op[s].base.array \in DOMAIN heap /\ op[s].new.array \in DOMAIN heap
  /\ \A k \in Checks : check[k].base.array \in DOMAIN heap

Budget == IsFiniteSet(Pending) /\ Len(heap) + Cardinality(Pending) <= changes + 2

LateOps == \A s \in Sessions : op[s].late => op[s].phase \in {"assigning", "saving"}

ShapeInv == ListTypeOK /\ Arrays /\ Budget /\ LateOps

LEMMA OpParts ==
  ASSUME ListTypeOK, NEW s \in Sessions
  PROVE  /\ op[s] \in Op /\ op[s].base \in Slice /\ op[s].new \in Slice
         /\ op[s].rule \in SlotRule /\ op[s].gone \in Given \cup {{}} /\ op[s].late \in BOOLEAN
         /\ op[s].phase \in {"idle", "adding", "deleting", "assigning", "saving"}
<1>1. op[s] \in Op
  BY DEF ListTypeOK
<1> QED
  BY <1>1 DEF Op

LEMMA CheckParts ==
  ASSUME ListTypeOK, NEW k \in Checks
  PROVE  /\ check[k] \in Check /\ check[k].base \in Slice /\ check[k].seen \in Seq(SlotRule)
         /\ check[k].phase \in {"idle", "loaded", "appended", "done"}
         /\ due[k] \in Seq(SlotRule)
<1>1. check[k] \in Check /\ due[k] \in Seq(SlotRule)
  BY DEF ListTypeOK
<1> QED
  BY <1>1 DEF Check

LEMMA HeapParts ==
  ASSUME ListTypeOK
  PROVE  /\ heap \in Seq(Seq(SlotRule)) /\ Len(heap) \in Nat /\ Len(heap) >= 1
         /\ DOMAIN heap = 1..Len(heap)
         /\ \A a \in DOMAIN heap : heap[a] \in Seq(SlotRule) /\ Len(heap[a]) \in Nat
<1>1. heap \in Seq(Seq(SlotRule)) /\ Len(heap) \in 1..(MaxChanges + 2)
  BY DEF ListTypeOK
<1>2. Len(heap) \in Nat /\ Len(heap) >= 1
  BY <1>1
<1>3. \A a \in DOMAIN heap : heap[a] \in Seq(SlotRule)
  BY <1>1
<1> QED
  BY <1>1, <1>2, <1>3

LEMMA LoadsShape ==
  ASSUME ListTypeOK, Arrays, NEW base \in Loads
  PROVE  base \in Slice /\ base.array \in DOMAIN heap
<1> DEFINE slices == {rules} \cup {op[s].new : s \in Storing}
<1>1. slices \subseteq Slice
  BY OpParts DEF ListTypeOK, Storing
<1>2. \A a \in slices : a.array \in DOMAIN heap
  BY DEF Arrays, Storing
<1>3. base \in Mixed(slices)
  BY DEF Loads
<1> HIDE DEF slices
<1> QED
  BY <1>1, <1>2, <1>3, MixedSlices

LEMMA StoresShape ==
  ASSUME ListTypeOK, Arrays, NEW s \in Sessions, NEW next \in Stores(s)
  PROVE  next \in Slice /\ next.array \in DOMAIN heap
<1> DEFINE slices == {op[q].new : q \in Storing \cup {s}}
<1>1. slices \subseteq Slice
  BY OpParts DEF Storing
<1>2. \A a \in slices : a.array \in DOMAIN heap
  BY DEF Arrays, Storing
<1>3. next \in Mixed(slices)
  BY DEF Stores
<1> HIDE DEF slices
<1> QED
  BY <1>1, <1>2, <1>3, MixedSlices

\* A slice is loaded whole while nobody stores one.
LEMMA CalmLoads ==
  ASSUME ListTypeOK, Storing = {}
  PROVE  Loads = {rules}
<1>1. {rules} \cup {op[s].new : s \in Storing} = {rules}
  OBVIOUS
<1>2. rules \in Slice
  BY DEF ListTypeOK
<1> QED
  BY <1>1, <1>2, MixedWithNone DEF Loads

LEMMA CalmStores ==
  ASSUME ListTypeOK, NEW s \in Sessions, Storing = {s}
  PROVE  Stores(s) = {op[s].new}
<1>1. {op[q].new : q \in Storing \cup {s}} = {op[s].new}
  OBVIOUS
<1>2. op[s].new \in Slice
  BY OpParts
<1> QED
  BY <1>1, <1>2, MixedWithNone DEF Stores

-----------------------------------------------------------------------------
(* Arrays, before and after.                                               *)

\* What Contents is, in a given memory.
Part(h, s) ==
  SubSeq(h[s.array], 1, IF s.len <= Len(h[s.array]) THEN s.len ELSE Len(h[s.array]))

LEMMA ContentsIsPart ==
  /\ \A s : Contents(s) = Part(heap, s)
  /\ \A s : (Contents(s))' = Part(heap', s')
BY DEF Contents, Part, Sound, Cap

\* The arrays of h are those of g, but for these slots of one of them.
Differs(h, g, array, slots) ==
  /\ DOMAIN h \subseteq DOMAIN g
  /\ \A a \in DOMAIN h :
       /\ Len(g[a]) = Len(h[a])
       /\ \A i \in 1..Len(h[a]) : g[a][i] = h[a][i] \/ (a = array /\ i \in slots)

Memory == Seq(Seq(SlotRule))

LEMMA PartShape ==
  ASSUME NEW h \in Memory, NEW s \in Slice, s.array \in DOMAIN h
  PROVE  /\ Part(h, s) \in Seq(SlotRule)
         /\ Len(Part(h, s)) = IF s.len <= Len(h[s.array]) THEN s.len ELSE Len(h[s.array])
         /\ \A i \in 1..Len(Part(h, s)) : Part(h, s)[i] = h[s.array][i]
<1>1. PICK a \in Seq(SlotRule) : a = h[s.array]
  BY DEF Memory
<1>2. PICK m \in Nat : m = Len(a)
  OBVIOUS
<1>3. s.len \in Nat
  BY SliceParts
<1>4. PICK n \in 0..m : n = IF s.len <= Len(h[s.array]) THEN s.len ELSE Len(h[s.array])
  BY <1>1, <1>2, <1>3
<1>5. Part(h, s) = SubSeq(a, 1, n)
  BY <1>1, <1>4 DEF Part
<1>6. \A i \in 1..n : i \in 1..m
  OBVIOUS
<1>7. SubSeq(a, 1, n) \in Seq(SlotRule) /\ Len(SubSeq(a, 1, n)) = n
      /\ \A i \in 1..n : SubSeq(a, 1, n)[i] = a[i]
  BY <1>2, <1>6
<1> QED
  BY <1>1, <1>4, <1>5, <1>7

LEMMA SamePart ==
  ASSUME NEW h \in Memory, NEW g \in Memory, NEW array, NEW slots,
         Differs(h, g, array, slots),
         NEW s \in Slice, s.array \in DOMAIN h,
         s.array = array => \A i \in 1..s.len : i \notin slots
  PROVE  Part(g, s) = Part(h, s) /\ Len(g[s.array]) = Len(h[s.array])
<1>1. s.array \in DOMAIN g /\ Len(g[s.array]) = Len(h[s.array])
  BY DEF Differs
<1>2. /\ Part(h, s) \in Seq(SlotRule) /\ Part(g, s) \in Seq(SlotRule)
      /\ Len(Part(g, s)) = Len(Part(h, s))
      /\ \A i \in 1..Len(Part(h, s)) : Part(h, s)[i] = h[s.array][i] /\ Part(g, s)[i] = g[s.array][i]
  BY <1>1, PartShape
<1>3. PICK n \in Nat : n = Len(Part(h, s))
  BY <1>2
<1>4. PICK m \in Nat : m = Len(h[s.array])
  <2>1. h[s.array] \in Seq(SlotRule)
    BY DEF Memory
  <2> QED
    BY <2>1
<1>5. s.len \in Nat /\ n <= s.len /\ n <= m
  <2>1. n = IF s.len <= m THEN s.len ELSE m
    BY <1>3, <1>4, PartShape
  <2> QED
    BY <2>1, SliceParts
<1>6. ASSUME NEW i \in 1..n PROVE g[s.array][i] = h[s.array][i]
  <2>1. i \in 1..s.len /\ i \in 1..m
    BY <1>5
  <2> QED
    BY <1>4, <2>1 DEF Differs
<1>7. \A i \in 1..n : Part(g, s)[i] = Part(h, s)[i]
  BY <1>2, <1>3, <1>6
<1> QED
  BY <1>1, <1>2, <1>3, <1>7, SeqEqual

-----------------------------------------------------------------------------
(* Induction.  The rule of the library takes a predicate; this one takes a *)
(* set.                                                                    *)

LEMMA LeastElement ==
  ASSUME NEW T, T \subseteq Nat, T # {}
  PROVE  \E x \in T : \A y \in T : x <= y
<1> PICK N \in T : TRUE
  OBVIOUS
<1> DEFINE S == 0..N
           U == {Y \in SUBSET S : \E k \in T : k <= N /\ Y = 0..k}
           R == StrictSubsetOrdering(S)
<1>1. IsWellFoundedOn(R, SUBSET S)
  <2>1. IsFiniteSet(S)
    BY FS_Interval
  <2> QED
    BY <2>1, FS_StrictSubsetOrderingWellFounded, FS_FiniteSubsetsOfFinite
<1>2. U \subseteq SUBSET S /\ S \in U
  OBVIOUS
<1>3. PICK x \in U : \A y \in U : ~(<<y, x>> \in R)
  <2> HIDE DEF R, U, S
  <2> QED
    BY <1>1, <1>2, WFMin
<1>4. PICK k \in T : k <= N /\ x = 0..k
  BY <1>3
<1>5. ASSUME NEW y \in T, y < k PROVE FALSE
  <2>1. 0..y \in U
    BY <1>4, <1>5
  <2>2. 0..y \subseteq x /\ 0..y # x /\ x \in SUBSET S
    BY <1>4, <1>5
  <2>3. <<0..y, x>> \in R
    BY <2>1, <2>2, <1>2 DEF StrictSubsetOrdering
  <2> QED
    BY <1>3, <2>1, <2>3
<1>6. \A y \in T : k <= y
  BY <1>5
<1> QED
  BY <1>6

LEMMA Induction ==
  ASSUME NEW N \in Nat, NEW T, 0 \in T, \A n \in 0..(N - 1) : n \in T => n + 1 \in T
  PROVE  \A n \in 0..N : n \in T
<1>1. SUFFICES ASSUME NEW m \in 0..N, m \notin T PROVE FALSE
  OBVIOUS
<1> DEFINE U == (0..N) \ T
<1>2. U \subseteq Nat /\ U # {}
  BY <1>1
<1> HIDE DEF U
<1>3. PICK x \in U : \A y \in U : x <= y
  BY <1>2, LeastElement
<1> USE DEF U
<1>4. x - 1 \in T /\ x - 1 \in 0..(N - 1)
  BY <1>3
<1> QED
  BY <1>3, <1>4

-----------------------------------------------------------------------------
(* The capacity of the array.                                              *)

\* The capacity once there are k rules, of an array of capacity c before.
Room(c, k) == IF c < k THEN Grown(c) ELSE c

\* g holds the capacities after the first n appends.
Rooms(g, n) ==
  /\ g \in [0..n -> Nat] /\ g[0] = 0
  /\ \A k \in 1..n : g[k] = Room(g[k - 1], k)
  /\ \A k \in 0..n : g[k] >= k

LEMMA RoomEnough ==
  ASSUME NEW c \in Nat, NEW k \in Nat, c >= k
  PROVE  Room(c, k + 1) \in Nat /\ Room(c, k + 1) >= k + 1
BY DEF Room, Grown

LEMMA RoomsExist ==
  ASSUME NEW N \in Nat
  PROVE  \E g : Rooms(g, N)
<1> DEFINE T == {n \in 0..N : \E g : Rooms(g, n)}
<1>1. 0 \in T
  <2>1. Rooms([k \in 0..0 |-> 0], 0)
    BY DEF Rooms
  <2> QED
    BY <2>1
<1>2. ASSUME NEW n \in 0..(N - 1), n \in T PROVE n + 1 \in T
  <2>1. PICK g : Rooms(g, n)
    BY <1>2
  <2>2. n \in Nat /\ g \in [0..n -> Nat] /\ g[n] \in Nat /\ g[n] >= n
    BY <2>1 DEF Rooms
  <2> DEFINE h == [k \in 0..(n + 1) |-> IF k = n + 1 THEN Room(g[n], n + 1) ELSE g[k]]
  <2>3. Room(g[n], n + 1) \in Nat /\ Room(g[n], n + 1) >= n + 1
    BY <2>2, RoomEnough
  <2>4. h \in [0..(n + 1) -> Nat] /\ h[0] = 0
    BY <2>1, <2>2, <2>3 DEF Rooms
  <2>5. \A k \in 0..(n + 1) : h[k] >= k
    BY <2>1, <2>2, <2>3 DEF Rooms
  <2>6. \A k \in 1..(n + 1) : h[k] = Room(h[k - 1], k)
    <3> SUFFICES ASSUME NEW k \in 1..(n + 1) PROVE h[k] = Room(h[k - 1], k)
      OBVIOUS
    <3>1. CASE k = n + 1
      BY <2>2, <3>1
    <3>2. CASE k # n + 1
      <4>1. k \in 1..n /\ h[k] = g[k] /\ h[k - 1] = g[k - 1]
        BY <2>2, <3>2
      <4> QED
        BY <2>1, <4>1 DEF Rooms
    <3> QED
      BY <3>1, <3>2
  <2> HIDE DEF h
  <2>7. Rooms(h, n + 1)
    BY <2>4, <2>5, <2>6 DEF Rooms
  <2>8. n + 1 \in 0..N
    BY <1>2
  <2> QED
    BY <2>7, <2>8
<1> HIDE DEF T
<1>3. N \in T
  BY <1>1, <1>2, Induction
<1> QED
  BY <1>3 DEF T

LEMMA RoomsAgree ==
  ASSUME NEW n \in Nat, NEW m \in Nat, n <= m, NEW g, Rooms(g, n), NEW h, Rooms(h, m)
  PROVE  \A k \in 0..n : g[k] = h[k]
<1> DEFINE T == {k \in 0..n : g[k] = h[k]}
<1>1. 0 \in T
  BY DEF Rooms
<1>2. ASSUME NEW k \in 0..(n - 1), k \in T PROVE k + 1 \in T
  <2>1. k + 1 \in 1..n /\ k + 1 \in 1..m /\ (k + 1) - 1 = k /\ k + 1 \in 0..n
    BY <1>2
  <2>2. g[k + 1] = Room(g[k], k + 1) /\ h[k + 1] = Room(h[k], k + 1)
    BY <2>1 DEF Rooms
  <2> QED
    BY <1>2, <2>1, <2>2
<1> HIDE DEF T
<1>3. \A k \in 0..n : k \in T
  BY <1>1, <1>2, Induction
<1> QED
  BY <1>3 DEF T

\* However many rules an array is made for, it has room for them (ssh.go:688).
LEMMA CapForEnough ==
  \A n \in Nat : CapFor[n] \in Nat /\ CapFor[n] >= n
<1> DEFINE Eqn(c) == c = [n \in Nat |->
                            IF n = 0 THEN 0
                            ELSE IF c[n - 1] < n THEN Grown(c[n - 1]) ELSE c[n - 1]]
           G(n) == CHOOSE g : Rooms(g, n)
           F == [n \in Nat |-> G(n)[n]]
           C == CHOOSE c : Eqn(c)
<1>1. \A n \in Nat : Rooms(G(n), n)
  BY RoomsExist
<1>2. \A n \in Nat : F[n] = G(n)[n]
  OBVIOUS
<1> HIDE DEF G
<1>3. \A n \in Nat : n # 0 => F[n] = Room(F[n - 1], n)
  <2> SUFFICES ASSUME NEW n \in Nat, n # 0 PROVE F[n] = Room(F[n - 1], n)
    OBVIOUS
  <2>1. n - 1 \in Nat /\ n - 1 <= n /\ n - 1 \in 0..(n - 1) /\ n \in 1..n
    OBVIOUS
  <2>2. G(n)[n] = Room(G(n)[n - 1], n)
    BY <1>1, <2>1 DEF Rooms
  <2>3. G(n - 1)[n - 1] = G(n)[n - 1]
    BY <1>1, <2>1, RoomsAgree
  <2> QED
    BY <1>2, <2>1, <2>2, <2>3
<1>4. F[0] = 0
  BY <1>1, <1>2 DEF Rooms
<1>5. Eqn(F)
  <2>1. F = [n \in Nat |-> F[n]]
    OBVIOUS
  <2> HIDE DEF F
  <2>2. \A n \in Nat : F[n] = IF n = 0 THEN 0
                            ELSE IF F[n - 1] < n THEN Grown(F[n - 1]) ELSE F[n - 1]
    BY <1>3, <1>4 DEF Room
  <2> QED
    BY <2>1, <2>2
<1>6. Eqn(C)
  <2> HIDE DEF Eqn, F
  <2> QED
    BY <1>5
<1>7. CapFor = C
  BY DEF CapFor
<1> HIDE DEF F, C
<1>8. \A n \in Nat : C[n] = IF n = 0 THEN 0 ELSE Room(C[n - 1], n)
  BY <1>6 DEF Room
<1>9. ASSUME NEW N \in Nat PROVE C[N] \in Nat /\ C[N] >= N
  <2> DEFINE T == {n \in 0..N : C[n] \in Nat /\ C[n] >= n}
  <2>1. 0 \in T
    BY <1>8
  <2>2. ASSUME NEW n \in 0..(N - 1), n \in T PROVE n + 1 \in T
    <3>1. n \in Nat /\ n + 1 \in Nat /\ (n + 1) - 1 = n /\ n + 1 # 0 /\ n + 1 \in 0..N
      BY <2>2
    <3>2. C[n + 1] = Room(C[n], n + 1)
      BY <1>8, <3>1
    <3>3. Room(C[n], n + 1) \in Nat /\ Room(C[n], n + 1) >= n + 1
      BY <2>2, <3>1, RoomEnough
    <3> QED
      BY <3>1, <3>2, <3>3
  <2> HIDE DEF T
  <2>3. N \in T
    BY <2>1, <2>2, Induction
  <2> QED
    BY <2>3 DEF T
<1> QED
  BY <1>7, <1>9

-----------------------------------------------------------------------------
(* A list without a rule.                                                  *)

\* g has the places of the first rules of a list that are not r, up to the first n.
Places(list, gone, n, g) ==
  /\ g \in [0..n -> Seq(Nat)] /\ g[0] = <<>>
  /\ \A k \in 1..n : g[k] = IF list[k] \notin gone THEN Append(g[k - 1], k) ELSE g[k - 1]

LEMMA PlacesExist ==
  ASSUME NEW list, NEW gone, NEW N \in Nat
  PROVE  \E g : Places(list, gone, N, g)
<1> DEFINE T == {n \in 0..N : \E g : Places(list, gone, n, g)}
<1>1. 0 \in T
  <2>1. Places(list, gone, 0, [k \in 0..0 |-> <<>>])
    BY DEF Places
  <2> QED
    BY <2>1
<1>2. ASSUME NEW n \in 0..(N - 1), n \in T PROVE n + 1 \in T
  <2>1. PICK g : Places(list, gone, n, g)
    BY <1>2
  <2>2. n \in Nat /\ n \in 0..n /\ g \in [0..n -> Seq(Nat)] /\ g[n] \in Seq(Nat)
    <3>1. n \in Nat /\ n \in 0..n
      OBVIOUS
    <3> QED
      BY <2>1, <3>1 DEF Places
  <2> DEFINE x == IF list[n + 1] \notin gone THEN Append(g[n], n + 1) ELSE g[n]
             h == [k \in 0..(n + 1) |-> IF k = n + 1 THEN x ELSE g[k]]
  <2>3. x \in Seq(Nat)
    BY <2>2
  <2> HIDE DEF x
  <2>4. h \in [0..(n + 1) -> Seq(Nat)] /\ h[0] = <<>>
    BY <2>1, <2>2, <2>3 DEF Places
  <2>5. \A k \in 1..(n + 1) : h[k] = IF list[k] \notin gone THEN Append(h[k - 1], k) ELSE h[k - 1]
    <3> SUFFICES ASSUME NEW k \in 1..(n + 1)
                 PROVE  h[k] = IF list[k] \notin gone THEN Append(h[k - 1], k) ELSE h[k - 1]
      OBVIOUS
    <3>1. CASE k = n + 1
      <4>1. h[k] = x /\ h[k - 1] = g[n]
        BY <2>2, <3>1
      <4> QED
        BY <3>1, <4>1 DEF x
    <3>2. CASE k # n + 1
      <4>1. k \in 1..n /\ h[k] = g[k] /\ h[k - 1] = g[k - 1]
        BY <2>2, <3>2
      <4> QED
        BY <2>1, <4>1 DEF Places
    <3> QED
      BY <3>1, <3>2
  <2> HIDE DEF h
  <2>6. Places(list, gone, n + 1, h)
    BY <2>4, <2>5 DEF Places
  <2>7. n + 1 \in 0..N
    BY <1>2
  <2> QED
    BY <2>6, <2>7
<1> HIDE DEF T
<1>3. \A n \in 0..N : n \in T
  BY <1>1, <1>2, Induction
<1>4. N \in 0..N
  OBVIOUS
<1> QED
  BY <1>3, <1>4 DEF T

\* The places are places of the list, and one is missing only for a rule in gone.
LEMMA PlacesShape ==
  ASSUME NEW list, NEW gone, NEW N \in Nat, NEW g, Places(list, gone, N, g)
  PROVE  /\ g[N] \in Seq(Nat) /\ \A j \in 1..Len(g[N]) : g[N][j] \in 1..N
         /\ Len(g[N]) # N => \E i \in 1..N : list[i] \in gone
<1> DEFINE T == {n \in 0..N : /\ \A j \in 1..Len(g[n]) : g[n][j] \in 1..n
                              /\ Len(g[n]) = n \/ \E i \in 1..n : list[i] \in gone}
<1>1. \A n \in 0..N : g[n] \in Seq(Nat) /\ Len(g[n]) \in Nat
  BY DEF Places
<1>2. 0 \in T
  BY DEF Places
<1>3. ASSUME NEW n \in 0..(N - 1), n \in T PROVE n + 1 \in T
  <2>1. n \in 0..N /\ n + 1 \in 1..N /\ n + 1 \in 0..N /\ (n + 1) - 1 = n
    OBVIOUS
  <2>2. PICK s \in Seq(Nat) : s = g[n]
    BY <1>1, <2>1
  <2>3. PICK m \in Nat : m = Len(s)
    OBVIOUS
  <2>4. g[n + 1] = IF list[n + 1] \notin gone THEN Append(s, n + 1) ELSE s
    BY <2>1, <2>2 DEF Places
  <2>5. (\A j \in 1..m : s[j] \in 1..n) /\ (m = n \/ \E i \in 1..n : list[i] \in gone)
    BY <1>3, <2>2, <2>3
  <2>6. CASE list[n + 1] \notin gone
    <3>1. Len(Append(s, n + 1)) = m + 1 /\ \A j \in 1..(m + 1) :
            Append(s, n + 1)[j] = IF j = m + 1 THEN n + 1 ELSE s[j]
      BY <2>1, <2>3
    <3>2. \A j \in 1..(m + 1) : Append(s, n + 1)[j] \in 1..(n + 1)
      <4> SUFFICES ASSUME NEW j \in 1..(m + 1) PROVE Append(s, n + 1)[j] \in 1..(n + 1)
        OBVIOUS
      <4>1. j = m + 1 \/ j \in 1..m
        OBVIOUS
      <4> QED
        BY <2>1, <2>5, <3>1, <4>1
    <3>3. m + 1 = n + 1 \/ \E i \in 1..(n + 1) : list[i] \in gone
      BY <2>5
    <3> QED
      BY <2>1, <2>4, <2>6, <3>1, <3>2, <3>3
  <2>7. CASE list[n + 1] \in gone
    <3>1. \A j \in 1..m : s[j] \in 1..(n + 1)
      BY <2>5
    <3>2. n + 1 \in 1..(n + 1)
      BY <2>1
    <3> QED
      BY <2>1, <2>3, <2>4, <2>7, <3>1, <3>2
  <2> QED
    BY <2>6, <2>7
<1>4. \A n \in 0..N : n \in T
  <2> HIDE DEF T
  <2> QED
    BY <1>2, <1>3, Induction
<1>5. N \in 0..N
  OBVIOUS
<1> QED
  BY <1>1, <1>4, <1>5

LEMMA KeptPlaces ==
  ASSUME NEW base \in Slice, NEW gone, NEW g, Places(heap[base.array], gone, base.len, g)
  PROVE  Kept(base, gone) = g[base.len]
<1> DEFINE list == heap[base.array]
<1>0. PICK N \in Nat : N = base.len
  BY SliceParts
<1> DEFINE Eqn(f) == f = [n \in 0..N |->
                            IF n = 0 THEN <<>>
                            ELSE IF list[n] \notin gone THEN Append(f[n - 1], n)
                            ELSE f[n - 1]]
           of == CHOOSE f : Eqn(f)
<1>1. Kept(base, gone) = of[N]
  BY <1>0 DEF Kept
<1> HIDE DEF list
<1>2. /\ g \in [0..N -> Seq(Nat)] /\ g[0] = <<>>
      /\ \A k \in 1..N : g[k] = IF list[k] \notin gone THEN Append(g[k - 1], k) ELSE g[k - 1]
  BY <1>0 DEF Places, list
<1>3. Eqn(g)
  <2>1. ASSUME NEW n \in 0..N
        PROVE  g[n] = IF n = 0 THEN <<>>
                      ELSE IF list[n] \notin gone THEN Append(g[n - 1], n)
                      ELSE g[n - 1]
    <3>1. CASE n = 0
      BY <1>2, <3>1
    <3>2. CASE n # 0
      <4>1. n \in 1..N
        BY <3>2
      <4> QED
        BY <1>2, <3>2, <4>1
    <3> QED
      BY <3>1, <3>2
  <2>2. g = [n \in 0..N |-> g[n]]
    BY <1>2
  <2> QED
    BY <2>1, <2>2
<1>4. Eqn(of)
  <2> HIDE DEF Eqn
  <2> QED
    BY <1>3
<1> HIDE DEF of
<1>5. /\ of[0] = <<>>
      /\ \A n \in 1..N : of[n] = IF list[n] \notin gone THEN Append(of[n - 1], n) ELSE of[n - 1]
  <2>1. \A n \in 0..N : of[n] = IF n = 0 THEN <<>>
                                ELSE IF list[n] \notin gone THEN Append(of[n - 1], n)
                                ELSE of[n - 1]
    BY <1>4
  <2> QED
    BY <1>0, <2>1
<1> DEFINE T == {n \in 0..N : of[n] = g[n]}
<1>6. 0 \in T
  BY <1>2, <1>5
<1>7. ASSUME NEW n \in 0..(N - 1), n \in T PROVE n + 1 \in T
  <2>1. n + 1 \in 1..N /\ n + 1 \in 0..N /\ (n + 1) - 1 = n
    BY <1>7
  <2>2. of[n + 1] = IF list[n + 1] \notin gone THEN Append(of[n], n + 1) ELSE of[n]
    BY <1>5, <2>1
  <2>3. g[n + 1] = IF list[n + 1] \notin gone THEN Append(g[n], n + 1) ELSE g[n]
    BY <1>2, <2>1
  <2> QED
    BY <1>7, <2>1, <2>2, <2>3
<1> HIDE DEF T
<1>8. \A n \in 0..N : n \in T
  BY <1>6, <1>7, Induction
<1>9. N \in 0..N
  OBVIOUS
<1> QED
  BY <1>0, <1>1, <1>8, <1>9 DEF T

LEMMA WithoutPlaces ==
  ASSUME NEW list \in Seq(SlotRule), NEW gone, NEW N \in Nat, N = Len(list),
         NEW g, Places(list, gone, N, g)
  PROVE  Book!Without(list, gone) = [j \in 1..Len(g[N]) |-> list[g[N][j]]]
<1> DEFINE Eqn(f) == f = [n \in 0..N |->
                            IF n = 0 THEN <<>>
                            ELSE IF list[n] \notin gone THEN Append(f[n - 1], list[n])
                            ELSE f[n - 1]]
           of == CHOOSE f : Eqn(f)
           h == [n \in 0..N |-> [j \in 1..Len(g[n]) |-> list[g[n][j]]]]
<1>1. Book!Without(list, gone) = of[N]
  BY DEF Book!Without
<1>2. /\ g[0] = <<>> /\ \A n \in 0..N : g[n] \in Seq(Nat) /\ Len(g[n]) \in Nat
      /\ \A k \in 1..N : g[k] = IF list[k] \notin gone THEN Append(g[k - 1], k) ELSE g[k - 1]
  <2>1. /\ g[0] = <<>> /\ \A n \in 0..N : g[n] \in Seq(Nat)
        /\ \A k \in 1..N : g[k] = IF list[k] \notin gone THEN Append(g[k - 1], k) ELSE g[k - 1]
    BY Zenon DEF Places
  <2>2. \A n \in 0..N : Len(g[n]) \in Nat
    <3> HIDE DEF h, of, Eqn
    <3> QED
      BY <2>1
  <2> QED
    BY <2>1, <2>2
<1>3. h[0] = <<>>
  BY <1>2
<1>4. ASSUME NEW n \in 1..N
      PROVE  h[n] = IF list[n] \notin gone THEN Append(h[n - 1], list[n]) ELSE h[n - 1]
  <2>1. n - 1 \in 0..N /\ n \in 0..N /\ n \in Nat
    OBVIOUS
  <2>2. PICK s \in Seq(Nat) : s = g[n - 1]
    BY <1>2, <2>1
  <2>3. PICK m \in Nat : m = Len(s)
    OBVIOUS
  <2>4. h[n - 1] = [j \in 1..m |-> list[s[j]]]
    BY <2>1, <2>2, <2>3
  <2>5. CASE list[n] \in gone
    <3>1. g[n] = s
      BY <1>2, <2>2, <2>5
    <3> QED
      BY <2>1, <2>3, <2>4, <2>5, <3>1
  <2>6. CASE list[n] \notin gone
    <3>1. g[n] = Append(s, n)
      BY <1>2, <2>2, <2>6
    <3>2. Len(g[n]) = m + 1 /\ \A j \in 1..(m + 1) : g[n][j] = IF j = m + 1 THEN n ELSE s[j]
      BY <2>1, <2>3, <3>1
    <3>3. h[n] = [j \in 1..(m + 1) |-> list[g[n][j]]]
      BY <2>1, <3>2
    <3>4. h[n] = [j \in 1..(m + 1) |-> IF j = m + 1 THEN list[n] ELSE list[s[j]]]
      <4> HIDE DEF h
      <4> QED
        BY <3>2, <3>3
    <3> HIDE DEF h
    <3> DEFINE e == [j \in 1..m |-> list[s[j]]]
    <3>5. Append(e, list[n]) = [j \in 1..(m + 1) |-> IF j = m + 1 THEN list[n] ELSE list[s[j]]]
      OBVIOUS
    <3> QED
      BY <2>4, <2>6, <3>4, <3>5
  <2> QED
    BY <2>5, <2>6
<1>5. Eqn(h)
  <2>1. h = [n \in 0..N |-> h[n]]
    OBVIOUS
  <2> HIDE DEF h
  <2>2. ASSUME NEW n \in 0..N
        PROVE  h[n] = IF n = 0 THEN <<>>
                      ELSE IF list[n] \notin gone THEN Append(h[n - 1], list[n])
                      ELSE h[n - 1]
    <3>1. n = 0 \/ n \in 1..N
      OBVIOUS
    <3> QED
      BY <1>3, <1>4, <3>1
  <2> QED
    BY <2>1, <2>2
<1>6. Eqn(of)
  <2> HIDE DEF Eqn, h
  <2> QED
    BY <1>5
<1>7. h[N] = [j \in 1..Len(g[N]) |-> list[g[N][j]]]
  OBVIOUS
<1> HIDE DEF of, h
<1>8. /\ of[0] = <<>>
      /\ \A n \in 1..N : of[n] = IF list[n] \notin gone THEN Append(of[n - 1], list[n]) ELSE of[n - 1]
  <2>1. \A n \in 0..N : of[n] = IF n = 0 THEN <<>>
                                ELSE IF list[n] \notin gone THEN Append(of[n - 1], list[n])
                                ELSE of[n - 1]
    BY <1>6
  <2> QED
    BY <2>1
<1> DEFINE T == {n \in 0..N : of[n] = h[n]}
<1>9. 0 \in T
  BY <1>3, <1>8
<1>10. ASSUME NEW n \in 0..(N - 1), n \in T PROVE n + 1 \in T
  <2>1. n + 1 \in 1..N /\ n + 1 \in 0..N /\ (n + 1) - 1 = n
    BY <1>10
  <2>2. of[n + 1] = IF list[n + 1] \notin gone THEN Append(of[n], list[n + 1]) ELSE of[n]
    BY <1>8, <2>1
  <2>3. h[n + 1] = IF list[n + 1] \notin gone THEN Append(h[n], list[n + 1]) ELSE h[n]
    BY <1>4, <2>1
  <2> QED
    BY <1>10, <2>1, <2>2, <2>3
<1> HIDE DEF T
<1>11. \A n \in 0..N : n \in T
  BY <1>9, <1>10, Induction
<1>12. N \in 0..N
  OBVIOUS
<1> QED
  BY <1>1, <1>7, <1>11, <1>12 DEF T

\* The loop of a session that deletes copies rules, and as many as it keeps.
LEMMA CopyType ==
  ASSUME ListTypeOK, NEW base \in Slice, NEW now \in Slice, NEW gone,
         now.array \in DOMAIN heap, Sound(now),
         \A j \in 1..Len(Kept(base, gone)) : Kept(base, gone)[j] <= now.len
  PROVE  LET list == [j \in 1..Len(Kept(base, gone)) |-> heap[now.array][Kept(base, gone)[j]]]
         IN  list \in Seq(SlotRule) /\ Len(list) = Len(Kept(base, gone))
<1>1. PICK N \in Nat : N = base.len
  BY SliceParts
<1>2. PICK g : Places(heap[base.array], gone, N, g)
  BY PlacesExist
<1>3. Kept(base, gone) = g[N]
  BY <1>1, <1>2, KeptPlaces
<1>4. PICK kept \in Seq(Nat) : kept = g[N] /\ \A j \in 1..Len(kept) : kept[j] \in 1..N
  BY <1>2, PlacesShape
<1>5. PICK m \in Nat : m = Len(kept)
  OBVIOUS
<1>6. PICK a \in Seq(SlotRule) : a = heap[now.array]
  BY HeapParts
<1>7. PICK c \in Nat : c = Len(a)
  OBVIOUS
<1>8. PICK l \in Nat : l = now.len /\ l <= c
  <2>1. now.len \in Nat /\ now.len <= c
    BY <1>6, <1>7, SliceParts DEF Sound, Cap
  <2> QED
    BY <2>1
<1>9. ASSUME NEW j \in 1..m PROVE a[kept[j]] \in SlotRule
  <2>1. kept[j] \in 1..N /\ kept[j] <= l
    BY <1>3, <1>4, <1>5, <1>8
  <2>2. PICK i \in 1..N : i = kept[j] /\ i <= l
    BY <2>1
  <2>3. i \in 1..c
    BY <1>8, <2>2
  <2> QED
    BY <1>7, <2>2, <2>3
<1> DEFINE list == [j \in 1..m |-> a[kept[j]]]
<1>10. list \in Seq(SlotRule) /\ Len(list) = m
  BY <1>9
<1> QED
  BY <1>3, <1>4, <1>5, <1>6, <1>10

\* What it copies from the slice it went through is that list without the rule.
LEMMA CopyIsWithout ==
  ASSUME ListTypeOK, NEW base \in Slice, NEW gone, base.array \in DOMAIN heap, Sound(base)
  PROVE  /\ [j \in 1..Len(Kept(base, gone)) |-> heap[base.array][Kept(base, gone)[j]]]
              = Book!Without(Contents(base), gone)
         /\ Len(Kept(base, gone)) # base.len =>
              \E i \in 1..Len(Contents(base)) : Contents(base)[i] \in gone
<1>1. PICK N \in Nat : N = base.len
  BY SliceParts
<1>2. PICK list \in Seq(SlotRule) :
        /\ list = Contents(base) /\ Len(list) = N
        /\ \A i \in 1..N : list[i] = heap[base.array][i]
  <2>1. heap \in Memory
    BY HeapParts DEF Memory
  <2>2. N <= Len(heap[base.array])
    BY <1>1 DEF Sound, Cap
  <2>3. Part(heap, base) \in Seq(SlotRule) /\ Len(Part(heap, base)) = N
    BY <1>1, <2>1, <2>2, PartShape
  <2>4. \A i \in 1..N : Part(heap, base)[i] = heap[base.array][i]
    BY <2>1, <2>3, PartShape
  <2> QED
    BY <2>3, <2>4, ContentsIsPart
<1>3. PICK g : Places(heap[base.array], gone, N, g)
  BY PlacesExist
<1>4. Kept(base, gone) = g[N]
  BY <1>1, <1>3, KeptPlaces
<1>5. Places(list, gone, N, g)
  BY <1>2, <1>3 DEF Places
<1>6. Book!Without(list, gone) = [j \in 1..Len(g[N]) |-> list[g[N][j]]]
  BY <1>2, <1>5, WithoutPlaces
<1>7. /\ \A j \in 1..Len(g[N]) : g[N][j] \in 1..N
      /\ Len(g[N]) # N => \E i \in 1..N : list[i] \in gone
  BY <1>5, PlacesShape
<1>8. \A j \in 1..Len(g[N]) : list[g[N][j]] = heap[base.array][g[N][j]]
  BY <1>2, <1>7
<1>9. [j \in 1..Len(g[N]) |-> list[g[N][j]]] = [j \in 1..Len(g[N]) |-> heap[base.array][g[N][j]]]
  BY <1>8
<1> QED
  BY <1>1, <1>2, <1>4, <1>6, <1>7, <1>9

-----------------------------------------------------------------------------
(* Stores to arrays, and new ones.                                         *)

LEMMA ExceptSequence ==
  ASSUME NEW S, NEW h \in Seq(S), NEW n \in DOMAIN h, NEW b \in S,
         NEW g, g = [h EXCEPT ![n] = b]
  PROVE  /\ g \in Seq(S) /\ DOMAIN g = DOMAIN h /\ Len(g) = Len(h) /\ g[n] = b
         /\ \A c \in DOMAIN h : c # n => g[c] = h[c]
<1>1. g \in Seq(S) /\ Len(g) = Len(h)
  OBVIOUS
<1>2. DOMAIN g = DOMAIN h /\ g[n] = b /\ \A c \in DOMAIN h : c # n => g[c] = h[c]
  BY Zenon
<1> QED
  BY <1>1, <1>2

\* Memory after a store to one slot.
Stored(h, array, n, r) == [h EXCEPT ![array][n] = r]

LEMMA StoreDiffers ==
  ASSUME NEW h \in Memory, NEW array \in DOMAIN h, NEW n \in Nat, NEW r \in SlotRule
  PROVE  /\ Stored(h, array, n, r) \in Memory /\ Len(Stored(h, array, n, r)) = Len(h)
         /\ Differs(h, Stored(h, array, n, r), array, {n})
         /\ n \in 1..Len(h[array]) => Stored(h, array, n, r)[array][n] = r
<1> SUFFICES ASSUME NEW g, g = [h EXCEPT ![array][n] = r]
             PROVE  /\ g \in Memory /\ Len(g) = Len(h)
                    /\ Differs(h, g, array, {n})
                    /\ n \in 1..Len(h[array]) => g[array][n] = r
  BY DEF Stored
<1>1. PICK a \in Seq(SlotRule) : a = h[array]
  BY DEF Memory
<1>2. PICK m \in Nat : m = Len(a) /\ DOMAIN a = 1..m
  OBVIOUS
<1> DEFINE b == [a EXCEPT ![n] = r]
<1>3. b \in Seq(SlotRule) /\ Len(b) = m
      /\ \A i \in 1..m : b[i] = IF i = n THEN r ELSE a[i]
  <2>1. CASE n \in 1..m
    <3>1. b \in Seq(SlotRule) /\ Len(b) = m /\ b[n] = r /\ \A i \in 1..m : i # n => b[i] = a[i]
      BY <1>2, <2>1, ExceptSequence
    <3> QED
      BY <3>1
  <2>2. CASE n \notin 1..m
    <3>1. a = [i \in 1..m |-> a[i]]
      BY <1>2
    <3>2. b = a
      BY <1>2, <2>2, <3>1
    <3> QED
      BY <1>2, <2>2, <3>2
  <2> QED
    BY <2>1, <2>2
<1>4. g = [h EXCEPT ![array] = b]
  BY <1>1
<1> HIDE DEF b
<1>5. g \in Memory /\ DOMAIN g = DOMAIN h /\ Len(g) = Len(h) /\ g[array] = b
      /\ \A c \in DOMAIN h : c # array => g[c] = h[c]
  <2>1. h \in Seq(Seq(SlotRule)) /\ array \in DOMAIN h /\ b \in Seq(SlotRule)
    BY <1>3 DEF Memory
  <2>2. /\ g \in Seq(Seq(SlotRule)) /\ DOMAIN g = DOMAIN h /\ Len(g) = Len(h) /\ g[array] = b
        /\ \A c \in DOMAIN h : c # array => g[c] = h[c]
    <3>1. ASSUME NEW x, x = [h EXCEPT ![array] = b]
          PROVE  /\ x \in Seq(Seq(SlotRule)) /\ DOMAIN x = DOMAIN h /\ Len(x) = Len(h)
                 /\ x[array] = b /\ \A c \in DOMAIN h : c # array => x[c] = h[c]
      BY <2>1, <3>1, ExceptSequence
    <3> QED
      BY <1>4, <3>1
  <2> QED
    BY <2>2 DEF Memory
<1>6. Differs(h, g, array, {n})
  <2>1. ASSUME NEW c \in DOMAIN h
        PROVE  /\ Len(g[c]) = Len(h[c])
               /\ \A i \in 1..Len(h[c]) : g[c][i] = h[c][i] \/ (c = array /\ i \in {n})
    <3>1. CASE c = array
      BY <1>1, <1>2, <1>3, <1>5, <3>1
    <3>2. CASE c # array
      BY <1>5, <3>2
    <3> QED
      BY <3>1, <3>2
  <2> QED
    BY <1>5, <2>1 DEF Differs
<1> QED
  BY <1>1, <1>2, <1>3, <1>5, <1>6

\* The backend's rules, stored behind a slice.
WideStored(h, base) ==
  [h EXCEPT ![base.array] =
     [i \in DOMAIN @ |-> IF i \in (base.len + 1)..(base.len + WideCount)
                           THEN Wide[i - base.len] ELSE @[i]]]

LEMMA WideDiffers ==
  ASSUME NEW h \in Memory, NEW base \in Slice, base.array \in DOMAIN h,
         base.len + WideCount <= Len(h[base.array]), NEW g, g = WideStored(h, base)
  PROVE  /\ g \in Memory /\ Len(g) = Len(h)
         /\ Differs(h, g, base.array, (base.len + 1)..(base.len + WideCount))
         /\ \A i \in 1..WideCount : g[base.array][base.len + i] = Wide[i]
<1>1. PICK a \in Seq(SlotRule) : a = h[base.array]
  BY DEF Memory
<1>2. PICK m \in Nat : m = Len(a) /\ DOMAIN a = 1..m
  OBVIOUS
<1>3. PICK l \in Nat : l = base.len
  BY SliceParts
<1>4. PICK w \in Nat : w = WideCount
  BY ListBoundsAssumption
<1> DEFINE b == [i \in 1..m |-> IF i \in (l + 1)..(l + w) THEN Wide[i - l] ELSE a[i]]
<1>5. l + w <= m
  BY <1>1, <1>2, <1>3, <1>4
<1>6. \A i \in 1..m : b[i] \in SlotRule
  <2> SUFFICES ASSUME NEW i \in 1..m PROVE b[i] \in SlotRule
    OBVIOUS
  <2>1. CASE i \in (l + 1)..(l + w)
    <3>1. i - l \in 1..w
      BY <2>1
    <3> QED
      BY <1>4, <2>1, <3>1, WideRules
  <2>2. CASE i \notin (l + 1)..(l + w)
    BY <1>2, <2>2
  <2> QED
    BY <2>1, <2>2
<1>7. b \in Seq(SlotRule) /\ Len(b) = m
  <2>1. b \in [1..m -> SlotRule]
    BY <1>6, Zenon
  <2> HIDE DEF b
  <2> QED
    BY <2>1
<1>8. \A i \in 1..w : l + i \in 1..m /\ l + i \in (l + 1)..(l + w) /\ (l + i) - l = i
  BY <1>5
<1>9. \A i \in 1..w : b[l + i] = Wide[i]
  BY <1>8
<1>10. g = [h EXCEPT ![base.array] = b]
  BY <1>1, <1>2, <1>3, <1>4 DEF WideStored
<1>11. \A i \in 1..m : b[i] = a[i] \/ i \in (l + 1)..(l + w)
  OBVIOUS
<1> HIDE DEF b
<1>12. g \in Memory /\ DOMAIN g = DOMAIN h /\ Len(g) = Len(h) /\ g[base.array] = b
       /\ \A c \in DOMAIN h : c # base.array => g[c] = h[c]
  <2>1. h \in Seq(Seq(SlotRule)) /\ base.array \in DOMAIN h /\ b \in Seq(SlotRule)
    BY <1>7 DEF Memory
  <2>2. /\ g \in Seq(Seq(SlotRule)) /\ DOMAIN g = DOMAIN h /\ Len(g) = Len(h) /\ g[base.array] = b
        /\ \A c \in DOMAIN h : c # base.array => g[c] = h[c]
    BY <1>10, <2>1, ExceptSequence
  <2> QED
    BY <2>2 DEF Memory
<1>13. Differs(h, g, base.array, (l + 1)..(l + w))
  <2>1. ASSUME NEW c \in DOMAIN h
        PROVE  /\ Len(g[c]) = Len(h[c])
               /\ \A i \in 1..Len(h[c]) :
                    g[c][i] = h[c][i] \/ (c = base.array /\ i \in (l + 1)..(l + w))
    <3>1. CASE c = base.array
      BY <1>1, <1>2, <1>7, <1>11, <1>12, <3>1
    <3>2. CASE c # base.array
      BY <1>12, <3>2
    <3> QED
      BY <3>1, <3>2
  <2> QED
    BY <1>12, <2>1 DEF Differs
<1> QED
  BY <1>3, <1>4, <1>9, <1>12, <1>13

LEMMA NewDiffers ==
  ASSUME NEW h \in Memory, NEW list \in Seq(SlotRule), NEW cap \in Nat, cap >= Len(list)
  PROVE  LET g == Append(h, Padded(list, cap))
             s == [array |-> Len(h) + 1, len |-> Len(list)]
         IN  /\ g \in Memory /\ Len(g) = Len(h) + 1
             /\ \A array, slots : Differs(h, g, array, slots)
             /\ s.array \in DOMAIN g /\ s.array \notin DOMAIN h /\ s.len \in Nat
             /\ s.len <= Len(g[s.array]) /\ Part(g, s) = list
<1> SUFFICES ASSUME NEW g, g = Append(h, Padded(list, cap)),
                    NEW s, s = [array |-> Len(h) + 1, len |-> Len(list)]
             PROVE  /\ g \in Memory /\ Len(g) = Len(h) + 1
                    /\ \A array, slots : Differs(h, g, array, slots)
                    /\ s.array \in DOMAIN g /\ s.array \notin DOMAIN h /\ s.len \in Nat
                    /\ s.len <= Len(g[s.array]) /\ Part(g, s) = list
  BY Zenon
<1>1. PICK m \in Nat : m = Len(h) /\ DOMAIN h = 1..m
  BY DEF Memory
<1>2. PICK l \in Nat : l = Len(list) /\ l <= cap
  OBVIOUS
<1> DEFINE a == Padded(list, cap)
<1>3. a = [i \in 1..cap |-> IF i <= l THEN list[i] ELSE Empty]
  BY <1>2 DEF Padded
<1>4. \A i \in 1..cap : (IF i <= l THEN list[i] ELSE Empty) \in SlotRule
  BY <1>2, EmptyRule
<1>5. a \in Seq(SlotRule) /\ Len(a) = cap /\ \A i \in 1..l : a[i] = list[i]
  BY <1>2, <1>3, <1>4
<1> HIDE DEF a
<1>6. g = Append(h, a)
  BY DEF a
<1>7. g \in Memory /\ Len(g) = m + 1 /\ DOMAIN g = 1..(m + 1) /\ g[m + 1] = a
      /\ \A c \in 1..m : g[c] = h[c]
  BY <1>1, <1>5, <1>6 DEF Memory
<1>8. \A array, slots : Differs(h, g, array, slots)
  <2>1. \A c \in DOMAIN h : g[c] = h[c]
    BY <1>1, <1>7
  <2>2. DOMAIN h \subseteq DOMAIN g
    BY <1>1, <1>7
  <2> QED
    BY <2>1, <2>2 DEF Differs
<1>9. s.array = m + 1 /\ s.len = l
  BY <1>1, <1>2
<1>10. Part(g, s) = SubSeq(a, 1, l)
  BY <1>2, <1>5, <1>7, <1>9 DEF Part
<1>11. SubSeq(a, 1, l) = list
  <2>1. SubSeq(a, 1, l) \in Seq(SlotRule) /\ Len(SubSeq(a, 1, l)) = l
        /\ \A i \in 1..l : SubSeq(a, 1, l)[i] = a[i]
    BY <1>2, <1>5
  <2> QED
    BY <1>2, <1>5, <2>1, SeqEqual
<1>12. s.array \notin DOMAIN h
  BY <1>1, <1>9
<1> QED
  BY <1>1, <1>2, <1>5, <1>7, <1>8, <1>9, <1>10, <1>11, <1>12, SMTT(30)
-----------------------------------------------------------------------------
(* The type invariant.                                                     *)

LEMMA InitShape == ListInit => ShapeInv /\ Part(heap, rules) = file
<1> SUFFICES ASSUME ListInit PROVE ShapeInv /\ Part(heap, rules) = file
  OBVIOUS
<1>1. file \in Seq(SlotRule) /\ Len(file) = Started /\ Started \in Nat
  <2>1. \A i \in 1..Started : Own(i) \in SlotRule
    BY OwnRules, ListBoundsAssumption
  <2> QED
    BY <2>1, ListBoundsAssumption DEF ListInit
<1> DEFINE h == << <<>> >>
<1>2. h \in Memory /\ Len(h) = 1 /\ h[1] = <<>>
  BY DEF Memory
<1>3. heap = Append(h, Padded(file, CapFor[Started]))
  BY DEF ListInit
<1>4. CapFor[Started] \in Nat /\ CapFor[Started] >= Len(file)
  BY <1>1, CapForEnough
<1>5. /\ heap \in Memory /\ Len(heap) = Len(h) + 1 /\ Differs(h, heap, 1, {})
      /\ Part(heap, rules) = file
  <2>1. Len(h) + 1 = 2 /\ rules = [array |-> Len(h) + 1, len |-> Len(file)]
    BY <1>1, <1>2 DEF ListInit
  <2> HIDE DEF h
  <2>2. PICK cap \in Nat : cap = CapFor[Started] /\ cap >= Len(file)
    BY <1>4
  <2>3. heap = Append(h, Padded(file, cap))
    BY <1>3, <2>2
  <2>4. file \in Seq(SlotRule) /\ h \in Memory
    BY <1>1, <1>2
  <2> HIDE DEF Memory
  <2>5. /\ heap \in Memory /\ Len(heap) = Len(h) + 1
        /\ \A array, slots : Differs(h, heap, array, slots)
        /\ Part(heap, [array |-> Len(h) + 1, len |-> Len(file)]) = file
    BY <2>2, <2>3, <2>4, NewDiffers
  <2> QED
    BY <2>1, <2>5
<1>6. heap[1] = <<>> /\ DOMAIN heap = 1..2 /\ Len(heap) = 2
  BY <1>2, <1>3, <1>5 DEF Memory
<1>7. NoOp \in Op /\ NoCheck \in Check
  BY NoRulesType, EmptyRule DEF NoOp, Op, NoCheck, Check
<1>8. ListTypeOK
  <2>1. rules \in Slice
    BY ListBoundsAssumption DEF ListInit, Slice
  <2>2. Len(heap) \in 1..(MaxChanges + 2)
    BY <1>6, ListBoundsAssumption
  <2>3. op \in [Sessions -> Op] /\ check \in [Checks -> Check]
    BY <1>7 DEF ListInit
  <2>4. added \in Started..MaxAdded /\ changes \in 0..MaxChanges
    BY ListBoundsAssumption DEF ListInit
  <2>5. due \in [Checks -> Seq(SlotRule)]
    <3>1. <<>> \in Seq(SlotRule)
      OBVIOUS
    <3> QED
      BY <3>1 DEF ListInit
  <2>6. panicked \in BOOLEAN /\ met \subseteq Sessions \cup Checks /\ unsaved \in BOOLEAN
    BY DEF ListInit
  <2> QED
    BY <1>1, <1>5, <2>1, <2>2, <2>3, <2>4, <2>5, <2>6 DEF ListTypeOK, Memory
<1>9. Arrays
  <2>1. rules.array = 2
    BY DEF ListInit
  <2>2. \A s1 \in Sessions : op[s1].base.array = 1 /\ op[s1].new.array = 1
    BY NoRulesType DEF ListInit, NoOp
  <2>3. \A k \in Checks : check[k].base.array = 1
    BY NoRulesType DEF ListInit, NoCheck
  <2> QED
    BY <1>6, <2>1, <2>2, <2>3 DEF Arrays
<1>10. Budget
  <2>1. Pending = {}
    BY DEF Pending, ListInit, NoOp
  <2> QED
    BY <1>6, <2>1, FS_EmptySet DEF Budget, ListInit
<1>11. LateOps
  BY DEF LateOps, ListInit, NoOp
<1> QED
  BY <1>5, <1>8, <1>9, <1>10, <1>11 DEF ShapeInv

LEMMA BudgetSame ==
  ASSUME ShapeInv, Pending' \subseteq Pending, Len(heap') = Len(heap), changes' = changes
  PROVE  Budget'
<1>1. IsFiniteSet(Pending) /\ Len(heap) + Cardinality(Pending) <= changes + 2
  BY DEF ShapeInv, Budget
<1>2. IsFiniteSet(Pending') /\ Cardinality(Pending') <= Cardinality(Pending)
  BY <1>1, FS_Subset
<1>3. PICK m \in Nat, n \in Nat : m = Cardinality(Pending) /\ n = Cardinality(Pending')
  BY <1>1, <1>2, FS_CardinalityType
<1>4. PICK l \in Nat, c \in Nat : l = Len(heap) /\ c = changes
  BY HeapParts, ListBoundsAssumption DEF ShapeInv, ListTypeOK
<1>5. l + n <= c + 2
  BY <1>1, <1>2, <1>3, <1>4
<1> QED
  BY <1>2, <1>3, <1>4, <1>5 DEF Budget

\* A session that was good for an array has made it.
LEMMA BudgetSpent ==
  ASSUME ShapeInv, NEW s \in Pending, Pending' \subseteq Pending \ {s},
         Len(heap') = Len(heap) + 1, changes' = changes
  PROVE  Budget'
<1>1. IsFiniteSet(Pending) /\ Len(heap) + Cardinality(Pending) <= changes + 2
  BY DEF ShapeInv, Budget
<1>2. IsFiniteSet(Pending \ {s}) /\ Cardinality(Pending \ {s}) = Cardinality(Pending) - 1
  BY <1>1, FS_RemoveElement
<1>3. IsFiniteSet(Pending') /\ Cardinality(Pending') <= Cardinality(Pending \ {s})
  BY <1>2, FS_Subset
<1>4. PICK m \in Nat, n \in Nat : m = Cardinality(Pending) /\ n = Cardinality(Pending')
  BY <1>1, <1>3, FS_CardinalityType
<1>5. PICK l \in Nat, c \in Nat : l = Len(heap) /\ c = changes
  BY HeapParts, ListBoundsAssumption DEF ShapeInv, ListTypeOK
<1>6. (l + 1) + n <= c + 2
  BY <1>1, <1>2, <1>3, <1>4, <1>5
<1> QED
  BY <1>3, <1>4, <1>5, <1>6 DEF Budget

LEMMA BudgetAdded ==
  ASSUME ShapeInv, NEW s, Pending' \subseteq Pending \cup {s},
         Len(heap') = Len(heap), changes' = changes + 1
  PROVE  Budget'
<1>1. IsFiniteSet(Pending) /\ Len(heap) + Cardinality(Pending) <= changes + 2
  BY DEF ShapeInv, Budget
<1>2. IsFiniteSet(Pending \cup {s}) /\ Cardinality(Pending \cup {s}) <= Cardinality(Pending) + 1
  <2>1. Cardinality(Pending) \in Nat
    BY <1>1, FS_CardinalityType
  <2>2. /\ IsFiniteSet(Pending \cup {s})
        /\ Cardinality(Pending \cup {s})
             = IF s \in Pending THEN Cardinality(Pending) ELSE Cardinality(Pending) + 1
    BY <1>1, FS_AddElement
  <2> QED
    BY <2>1, <2>2
<1>3. IsFiniteSet(Pending') /\ Cardinality(Pending') <= Cardinality(Pending \cup {s})
  BY <1>2, FS_Subset
<1>4. PICK m \in Nat, n \in Nat, w \in Nat :
        m = Cardinality(Pending) /\ n = Cardinality(Pending') /\ w = Cardinality(Pending \cup {s})
  BY <1>1, <1>2, <1>3, FS_CardinalityType
<1>5. PICK l \in Nat, c \in Nat : l = Len(heap) /\ c = changes
  BY HeapParts, ListBoundsAssumption DEF ShapeInv, ListTypeOK
<1>6. l + n <= (c + 1) + 2
  BY <1>1, <1>2, <1>3, <1>4, <1>5
<1> QED
  BY <1>3, <1>4, <1>5, <1>6 DEF Budget

LEMMA JoinsShape ==
  ASSUME NEW p, NEW others, Joins(p, others), unsaved \in BOOLEAN
  PROVE  /\ met \subseteq met' /\ met' \subseteq met \cup others \cup {p}
         /\ unsaved' \in BOOLEAN /\ (unsaved => unsaved')
         /\ others # {} => others \subseteq met' /\ p \in met' /\ unsaved'
         /\ others = {} => met' = met /\ unsaved' = unsaved
BY DEF Joins, Meet

LEMMA ShapeFrame ==
  ASSUME ShapeInv, heap' \in Memory, NEW array, NEW slots, Differs(heap, heap', array, slots),
         Budget', changes' \in 0..MaxChanges, added' \in Started..MaxAdded,
         rules' \in Slice, rules'.array \in DOMAIN heap',
         op' \in [Sessions -> Op], check' \in [Checks -> Check],
         \A s \in Sessions :
           \/ op'[s] = op[s]
           \/ /\ op'[s].base.array \in DOMAIN heap' /\ op'[s].new.array \in DOMAIN heap'
              /\ op'[s].late => op'[s].phase \in {"assigning", "saving"},
         \A k \in Checks : check'[k].base.array \in DOMAIN heap',
         file' \in Seq(SlotRule), panicked' \in BOOLEAN, due' \in [Checks -> Seq(SlotRule)],
         met' \subseteq Sessions \cup Checks, unsaved' \in BOOLEAN
  PROVE  ShapeInv'
<1>1. DOMAIN heap \subseteq DOMAIN heap'
  BY DEF Differs
<1>2. 1 \in DOMAIN heap /\ heap[1] = <<>>
  BY HeapParts DEF ShapeInv, Arrays
<1>3. heap'[1] = <<>>
  <2>1. heap'[1] \in Seq(SlotRule)
    BY <1>1, <1>2 DEF Memory
  <2>2. Len(heap'[1]) = 0
    BY <1>2 DEF Differs
  <2> QED
    BY <2>1, <2>2
<1>4. Len(heap') \in 1..(MaxChanges + 2)
  <2>1. PICK m \in Nat : m = Cardinality(Pending')
    BY FS_CardinalityType DEF Budget
  <2>2. PICK l \in Nat : l = Len(heap') /\ DOMAIN heap' = 1..l
    BY DEF Memory
  <2>3. l >= 1
    BY <1>1, <1>2, <2>2
  <2>4. l + m <= changes' + 2
    BY <2>1, <2>2 DEF Budget
  <2> QED
    BY <2>2, <2>3, <2>4, ListBoundsAssumption
<1>5. ListTypeOK'
  BY <1>4 DEF ListTypeOK, Memory
<1>6. Arrays'
  <2>1. \A s \in Sessions : op'[s].base.array \in DOMAIN heap' /\ op'[s].new.array \in DOMAIN heap'
    BY <1>1 DEF ShapeInv, Arrays
  <2> QED
    BY <1>3, <2>1 DEF Arrays
<1>7. LateOps'
  BY DEF ShapeInv, LateOps
<1> QED
  BY <1>5, <1>6, <1>7 DEF ShapeInv

LEMMA SameDiffers ==
  ASSUME ListTypeOK, heap' = heap
  PROVE  /\ heap' \in Memory /\ heap \in Memory
         /\ \A array, slots : Differs(heap, heap', array, slots)
BY DEF ListTypeOK, Memory, Differs

LEMMA OpSet ==
  ASSUME ListTypeOK, NEW s \in Sessions, NEW x \in Op, op' = [op EXCEPT ![s] = x]
  PROVE  /\ op' \in [Sessions -> Op] /\ op'[s] = x
         /\ \A q \in Sessions : q # s => op'[q] = op[q]
BY DEF ListTypeOK

LEMMA CheckSet ==
  ASSUME ListTypeOK, NEW k \in Checks, NEW x \in Check, check' = [check EXCEPT ![k] = x]
  PROVE  /\ check' \in [Checks -> Check] /\ check'[k] = x
         /\ \A y \in Checks : y # k => check'[y] = check[y]
BY DEF ListTypeOK

LEMMA LoadedOp ==
  ASSUME NEW b \in Slice, NEW r \in SlotRule, NEW d \in Given \cup {{}},
         NEW p \in {"adding", "deleting"}
  PROVE  /\ Loaded(p, b, r, d) \in Op
         /\ Loaded(p, b, r, d) = [phase |-> p, base |-> b, new |-> NoRules,
                                  rule |-> r, gone |-> d, late |-> FALSE]
<1> SUFFICES ASSUME NEW x, x = Loaded(p, b, r, d)
             PROVE  /\ x \in Op
                    /\ x = [phase |-> p, base |-> b, new |-> NoRules,
                            rule |-> r, gone |-> d, late |-> FALSE]
  BY Zenon
<1>1. PICK f : f = FALSE
  OBVIOUS
<1>2. x = [phase |-> p, base |-> b, new |-> NoRules, rule |-> r, gone |-> d, late |-> f]
  BY <1>1 DEF NoOp, Loaded
<1>3. p \in {"idle", "adding", "deleting", "assigning", "saving"} /\ f \in BOOLEAN
  BY <1>1
<1>4. x \in Op
  BY <1>2, <1>3, NoRulesType DEF Op
<1> QED
  BY <1>1, <1>2, <1>4, Zenon

LEMMA LoadShape ==
  ASSUME ShapeInv, NEW s \in Sessions, ~Busy(s), NEW b \in Loads, NEW r \in SlotRule,
         NEW d \in Given \cup {{}}, NEW p \in {"adding", "deleting"},
         op' = [op EXCEPT ![s] = Loaded(p, b, r, d)],
         changes < MaxChanges, changes' = changes + 1, added' \in Started..MaxAdded,
         Joins(s, OthersBusy(s)),
         UNCHANGED <<heap, rules, check, file, panicked, due>>
  PROVE  ShapeInv'
<1>1. ListTypeOK /\ Arrays /\ LateOps
  BY DEF ShapeInv
<1>2. b \in Slice /\ b.array \in DOMAIN heap
  BY <1>1, LoadsShape
<1> DEFINE x == Loaded(p, b, r, d)
<1>3. x \in Op /\ x.phase = p /\ x.base = b /\ x.new = NoRules /\ x.late = FALSE
  <2>1. b \in Slice /\ r \in SlotRule /\ d \in Given \cup {{}} /\ p \in {"adding", "deleting"}
    BY <1>2
  <2>2. x \in Op
    BY <2>1, LoadedOp
  <2>3. x = [phase |-> p, base |-> b, new |-> NoRules, rule |-> r, gone |-> d, late |-> FALSE]
    BY <2>1, LoadedOp, Zenon
  <2> HIDE DEF x
  <2> QED
    BY <2>2, <2>3
<1>4. op' = [op EXCEPT ![s] = x]
  OBVIOUS
<1> HIDE DEF x
<1>5. op' \in [Sessions -> Op] /\ op'[s] = x /\ \A q \in Sessions : q # s => op'[q] = op[q]
  BY <1>1, <1>3, <1>4, OpSet
<1>6. Budget'
  <2>1. Pending' \subseteq Pending \cup {s}
    BY <1>5 DEF Pending
  <2>2. Len(heap') = Len(heap)
    OBVIOUS
  <2> QED
    BY <2>1, <2>2, BudgetAdded
<1>7. met' \subseteq Sessions \cup Checks /\ unsaved' \in BOOLEAN
  <2>1. OthersBusy(s) \subseteq Sessions
    BY DEF OthersBusy
  <2> QED
    BY <1>1, <2>1, JoinsShape DEF ListTypeOK
<1>8. 1 \in DOMAIN heap
  BY <1>1, HeapParts
<1>9. \A q \in Sessions :
        \/ op'[q] = op[q]
        \/ /\ op'[q].base.array \in DOMAIN heap' /\ op'[q].new.array \in DOMAIN heap'
           /\ op'[q].late => op'[q].phase \in {"assigning", "saving"}
  BY <1>2, <1>3, <1>5, <1>8, NoRulesType
<1>10. changes' \in 0..MaxChanges
  BY <1>1, ListBoundsAssumption DEF ListTypeOK
<1>11. heap' \in Memory /\ Differs(heap, heap', 1, {})
  BY <1>1, SameDiffers
<1>12. /\ rules' \in Slice /\ rules'.array \in DOMAIN heap' /\ file' \in Seq(SlotRule)
       /\ check' \in [Checks -> Check] /\ due' \in [Checks -> Seq(SlotRule)]
       /\ panicked' \in BOOLEAN /\ \A k \in Checks : check'[k].base.array \in DOMAIN heap'
  BY <1>1 DEF ListTypeOK, Arrays
<1> QED
  BY <1>5, <1>6, <1>7, <1>9, <1>10, <1>11, <1>12, ShapeFrame

\* What a session does next, but for the loading of a slice, leaves the counters
\* as they are.
LEMMA SessionShape ==
  ASSUME ShapeInv, NEW s \in Sessions, NEW x \in Op, op' = [op EXCEPT ![s] = x],
         Budget', heap' \in Memory, NEW array, NEW slots, Differs(heap, heap', array, slots),
         rules' \in Slice, rules'.array \in DOMAIN heap', file' \in Seq(SlotRule),
         x.base.array \in DOMAIN heap', x.new.array \in DOMAIN heap',
         x.late => x.phase \in {"assigning", "saving"},
         met' \subseteq Sessions \cup Checks, unsaved' \in BOOLEAN,
         UNCHANGED <<check, added, panicked, changes, due>>
  PROVE  ShapeInv'
<1>1. ListTypeOK /\ Arrays
  BY DEF ShapeInv
<1>2. op' \in [Sessions -> Op] /\ op'[s] = x /\ \A q \in Sessions : q # s => op'[q] = op[q]
  BY <1>1, OpSet
<1>3. \A q \in Sessions :
        \/ op'[q] = op[q]
        \/ /\ op'[q].base.array \in DOMAIN heap' /\ op'[q].new.array \in DOMAIN heap'
           /\ op'[q].late => op'[q].phase \in {"assigning", "saving"}
  BY <1>2
<1>4. /\ check' \in [Checks -> Check] /\ due' \in [Checks -> Seq(SlotRule)]
      /\ panicked' \in BOOLEAN /\ changes' \in 0..MaxChanges /\ added' \in Started..MaxAdded
  BY <1>1 DEF ListTypeOK
<1>5. \A k \in Checks : check'[k].base.array \in DOMAIN heap'
  BY <1>1 DEF Arrays, Differs
<1> QED
  BY <1>2, <1>3, <1>4, <1>5, ShapeFrame

LEMMA CheckShape ==
  ASSUME ShapeInv, NEW k \in Checks, NEW x \in Check, check' = [check EXCEPT ![k] = x],
         heap' \in Memory, NEW array, NEW slots, Differs(heap, heap', array, slots),
         Len(heap') = Len(heap), x.base.array \in DOMAIN heap,
         due' \in [Checks -> Seq(SlotRule)],
         met' \subseteq Sessions \cup Checks, unsaved' \in BOOLEAN,
         UNCHANGED <<rules, op, added, file, panicked, changes>>
  PROVE  ShapeInv'
<1>1. ListTypeOK /\ Arrays
  BY DEF ShapeInv
<1>2. check' \in [Checks -> Check] /\ check'[k] = x /\ \A y \in Checks : y # k => check'[y] = check[y]
  BY <1>1, CheckSet
<1>3. DOMAIN heap \subseteq DOMAIN heap'
  BY DEF Differs
<1>4. \A y \in Checks : check'[y].base.array \in DOMAIN heap'
  BY <1>1, <1>2, <1>3 DEF Arrays
<1>5. Budget'
  <2>1. Pending' = Pending
    BY DEF Pending
  <2>2. changes' = changes
    OBVIOUS
  <2> QED
    BY <2>1, <2>2, BudgetSame
<1>6. /\ op' \in [Sessions -> Op] /\ file' \in Seq(SlotRule) /\ rules' \in Slice
      /\ panicked' \in BOOLEAN /\ changes' \in 0..MaxChanges /\ added' \in Started..MaxAdded
      /\ rules'.array \in DOMAIN heap'
  BY <1>1, <1>3 DEF ListTypeOK, Arrays
<1>7. \A q \in Sessions : op'[q] = op[q]
  OBVIOUS
<1> QED
  BY <1>2, <1>4, <1>5, <1>6, <1>7, ShapeFrame

\* A session moves on to store a slice, and remembers the rest.
Moved(o, p, n, l) ==
  [phase |-> p, base |-> o.base, new |-> n, rule |-> o.rule, gone |-> o.gone, late |-> l]

LEMMA MovedOp ==
  ASSUME NEW o \in Op, NEW n \in Slice, NEW l \in BOOLEAN,
         NEW p \in {"idle", "adding", "deleting", "assigning", "saving"}
  PROVE  /\ Moved(o, p, n, l) \in Op /\ Moved(o, p, n, l).phase = p
         /\ Moved(o, p, n, l).base = o.base /\ Moved(o, p, n, l).new = n
         /\ Moved(o, p, n, l).rule = o.rule /\ Moved(o, p, n, l).gone = o.gone
         /\ Moved(o, p, n, l).late = l
BY DEF Moved, Op

Assigning(s, n, l) == [op EXCEPT ![s].phase = "assigning", ![s].new = n, ![s].late = l]

LEMMA ToAssigning ==
  ASSUME ListTypeOK, NEW s \in Sessions, NEW n, NEW l
  PROVE  Assigning(s, n, l) = [op EXCEPT ![s] = Moved(op[s], "assigning", n, l)]
<1>1. op[s] \in Op /\ op \in [Sessions -> Op]
  BY DEF ListTypeOK
<1>2. ASSUME NEW x, x = [[[op[s] EXCEPT !.phase = "assigning"] EXCEPT !.new = n] EXCEPT !.late = l]
      PROVE  x = Moved(op[s], "assigning", n, l)
  BY <1>1, <1>2 DEF Moved, Op
<1> DEFINE x == [[[op[s] EXCEPT !.phase = "assigning"] EXCEPT !.new = n] EXCEPT !.late = l]
<1>3. Assigning(s, n, l) = [op EXCEPT ![s] = x]
  BY <1>1 DEF Assigning
<1> QED
  BY <1>2, <1>3

LEMMA ToAssigningOnly ==
  ASSUME ListTypeOK, NEW s \in Sessions, NEW n,
         op' = [op EXCEPT ![s].phase = "assigning", ![s].new = n]
  PROVE  op' = [op EXCEPT ![s] = Moved(op[s], "assigning", n, op[s].late)]
<1>1. op[s] \in Op /\ op \in [Sessions -> Op]
  BY DEF ListTypeOK
<1>2. ASSUME NEW x, x = [[op[s] EXCEPT !.phase = "assigning"] EXCEPT !.new = n]
      PROVE  x = Moved(op[s], "assigning", n, op[s].late)
  BY <1>1, <1>2 DEF Moved, Op
<1> DEFINE x == [[op[s] EXCEPT !.phase = "assigning"] EXCEPT !.new = n]
<1>3. op' = [op EXCEPT ![s] = x]
  BY <1>1
<1> QED
  BY <1>2, <1>3

LEMMA ToSaving ==
  ASSUME ListTypeOK, NEW s \in Sessions, op' = [op EXCEPT ![s].phase = "saving"]
  PROVE  op' = [op EXCEPT ![s] = Moved(op[s], "saving", op[s].new, op[s].late)]
<1>1. op[s] \in Op /\ op \in [Sessions -> Op]
  BY DEF ListTypeOK
<1>2. ASSUME NEW x, x = [op[s] EXCEPT !.phase = "saving"]
      PROVE  x = Moved(op[s], "saving", op[s].new, op[s].late)
  BY <1>1, <1>2 DEF Moved, Op
<1> DEFINE x == [op[s] EXCEPT !.phase = "saving"]
<1>3. op' = [op EXCEPT ![s] = x]
  BY <1>1
<1> QED
  BY <1>2, <1>3

LEMMA NoOpType ==
  /\ NoOp \in Op /\ NoOp.phase = "idle" /\ NoOp.base = NoRules /\ NoOp.new = NoRules
  /\ ~NoOp.late
BY NoRulesType, EmptyRule DEF NoOp, Op

LEMMA NoCheckType ==
  NoCheck \in Check /\ NoCheck.phase = "idle" /\ NoCheck.base = NoRules /\ NoCheck.seen = <<>>
BY NoRulesType DEF NoCheck, Check

\* A check at its next phase.
MovedCheck(c, p, l) == [phase |-> p, base |-> c.base, seen |-> l]

LEMMA MovedCheckType ==
  ASSUME NEW c \in Check, NEW l \in Seq(SlotRule), NEW p \in {"idle", "loaded", "appended", "done"}
  PROVE  /\ MovedCheck(c, p, l) \in Check /\ MovedCheck(c, p, l).phase = p
         /\ MovedCheck(c, p, l).base = c.base /\ MovedCheck(c, p, l).seen = l
BY DEF MovedCheck, Check

LEMMA ToAppended ==
  ASSUME ListTypeOK, NEW k \in Checks, check' = [check EXCEPT ![k].phase = "appended"]
  PROVE  check' = [check EXCEPT ![k] = MovedCheck(check[k], "appended", check[k].seen)]
<1>1. check[k] \in Check /\ check \in [Checks -> Check]
  BY DEF ListTypeOK
<1>2. ASSUME NEW x, x = [check[k] EXCEPT !.phase = "appended"]
      PROVE  x = MovedCheck(check[k], "appended", check[k].seen)
  BY <1>1, <1>2 DEF MovedCheck, Check
<1> DEFINE x == [check[k] EXCEPT !.phase = "appended"]
<1>3. check' = [check EXCEPT ![k] = x]
  BY <1>1
<1> QED
  BY <1>2, <1>3

LEMMA ToDone ==
  ASSUME ListTypeOK, NEW k \in Checks, NEW l,
         check' = [check EXCEPT ![k].phase = "done", ![k].seen = l]
  PROVE  check' = [check EXCEPT ![k] = MovedCheck(check[k], "done", l)]
<1>1. check[k] \in Check /\ check \in [Checks -> Check]
  BY DEF ListTypeOK
<1>2. ASSUME NEW x, x = [[check[k] EXCEPT !.phase = "done"] EXCEPT !.seen = l]
      PROVE  x = MovedCheck(check[k], "done", l)
  BY <1>1, <1>2 DEF MovedCheck, Check
<1> DEFINE x == [[check[k] EXCEPT !.phase = "done"] EXCEPT !.seen = l]
<1>3. check' = [check EXCEPT ![k] = x]
  BY <1>1
<1> QED
  BY <1>2, <1>3

LEMMA LoadedCheck ==
  ASSUME NEW b \in Slice, NEW x, x = [NoCheck EXCEPT !.phase = "loaded", !.base = b]
  PROVE  x \in Check /\ x = [phase |-> "loaded", base |-> b, seen |-> <<>>]
<1>1. x = [phase |-> "loaded", base |-> b, seen |-> <<>>]
  BY DEF NoCheck
<1>2. <<>> \in Seq(SlotRule)
  OBVIOUS
<1> QED
  BY <1>1, <1>2 DEF Check, NoCheck

LEMMA Longer ==
  ASSUME NEW b \in Slice, NEW n \in Nat, NEW x, x = [b EXCEPT !.len = @ + n]
  PROVE  x \in Slice /\ x.array = b.array /\ x.len = b.len + n
BY DEF Slice

\* What a session is good for when it moves on.
LEMMA PendingAfter ==
  ASSUME ListTypeOK, NEW s \in Sessions, NEW x \in Op, op' = [op EXCEPT ![s] = x],
         x.phase \notin {"adding", "deleting"}
  PROVE  Pending' \subseteq Pending \ {s}
BY OpSet DEF Pending

LEMMA TramplesShape ==
  ASSUME ListTypeOK, NEW s \in Sessions, NEW array, Tramples(s, array)
  PROVE  met' \subseteq Sessions \cup Checks /\ unsaved' \in BOOLEAN
<1>1. Borrowers(array) \cup Reached(s) \subseteq Sessions \cup Checks
  BY DEF Borrowers, Reached, AtWork
<1>2. unsaved \in BOOLEAN /\ met \subseteq Sessions \cup Checks
  BY DEF ListTypeOK
<1>3. met' \subseteq met \cup (Borrowers(array) \cup Reached(s)) \cup {s} /\ unsaved' \in BOOLEAN
  BY <1>2, JoinsShape DEF Tramples
<1> QED
  BY <1>1, <1>2, <1>3

LEMMA AddInPlaceShape ==
  ASSUME ShapeInv, NEW s \in Sessions, AddInPlace(s)
  PROVE  ShapeInv'
<1>1. ListTypeOK /\ Arrays
  BY DEF ShapeInv
<1>2. op[s] \in Op /\ op[s].base \in Slice /\ op[s].rule \in SlotRule
      /\ op[s].base.array \in DOMAIN heap
  BY <1>1, OpParts DEF Arrays
<1> DEFINE new == [op[s].base EXCEPT !.len = @ + 1]
<1>3. new \in Slice /\ new.array = op[s].base.array /\ new.len \in Nat
  BY <1>2, Longer, SliceParts
<1>4. PICK after \in BOOLEAN :
        /\ op' = [op EXCEPT ![s].phase = "assigning", ![s].new = new, ![s].late = after]
        /\ IF after THEN UNCHANGED <<heap, met, unsaved>>
           ELSE heap' = PutLast(new, op[s].rule) /\ Tramples(s, new.array)
  BY Zenon DEF AddInPlace
<1>5. UNCHANGED <<rules, check, added, file, panicked, changes, due>>
  BY DEF AddInPlace
<1> HIDE DEF new
<1> DEFINE x == Moved(op[s], "assigning", new, after)
<1>6. op' = [op EXCEPT ![s] = x]
  <2>1. op' = Assigning(s, new, after)
    BY <1>4, Zenon DEF Assigning
  <2> QED
    BY <1>1, <2>1, ToAssigning
<1>7. x \in Op /\ x.phase = "assigning" /\ x.base = op[s].base /\ x.new = new
  <2>1. after \in BOOLEAN
    BY <1>4
  <2>2. x.phase = "assigning" /\ x.base = op[s].base /\ x.new = new
    BY DEF Moved
  <2> QED
    BY <1>2, <1>3, <2>1, <2>2 DEF Moved, Op
<1> HIDE DEF x
<1>8. heap' \in Memory /\ Len(heap') = Len(heap) /\ Differs(heap, heap', new.array, {new.len})
  <2>1. CASE after
    BY <1>1, <1>4, <2>1, SameDiffers
  <2>2. CASE ~after
    <3>1. heap' = Stored(heap, new.array, new.len, op[s].rule)
      BY <1>4, <2>2 DEF PutLast, Stored
    <3>2. heap \in Memory
      BY <1>1, HeapParts DEF Memory
    <3>3. new.array \in DOMAIN heap /\ new.len \in Nat /\ op[s].rule \in SlotRule
      BY <1>2, <1>3
    <3> QED
      BY <3>1, <3>2, <3>3, StoreDiffers
  <2> QED
    BY <2>1, <2>2
<1>9. Budget'
  <2>1. Pending' \subseteq Pending
    BY <1>1, <1>6, <1>7, PendingAfter
  <2>2. changes' = changes
    BY <1>5
  <2> QED
    BY <1>8, <2>1, <2>2, BudgetSame
<1>10. met' \subseteq Sessions \cup Checks /\ unsaved' \in BOOLEAN
  <2>1. CASE after
    BY <1>1, <1>4, <2>1 DEF ListTypeOK
  <2>2. CASE ~after
    BY <1>1, <1>4, <2>2, TramplesShape
  <2> QED
    BY <2>1, <2>2
<1>11. DOMAIN heap \subseteq DOMAIN heap'
  BY <1>8 DEF Differs
<1>12. /\ rules' \in Slice /\ rules'.array \in DOMAIN heap' /\ file' \in Seq(SlotRule)
       /\ x.base.array \in DOMAIN heap' /\ x.new.array \in DOMAIN heap'
       /\ x.late => x.phase \in {"assigning", "saving"}
  BY <1>1, <1>2, <1>3, <1>5, <1>7, <1>11 DEF ListTypeOK, Arrays
<1> QED
  BY <1>5, <1>6, <1>7, <1>8, <1>9, <1>10, <1>12, SessionShape

\* A new array and a slice that is all of it that is used.
LEMMA NewArrayShape ==
  ASSUME ShapeInv, NEW s \in Pending, NEW list \in Seq(SlotRule), NEW cap \in Nat, cap >= Len(list),
         heap' = Append(heap, Padded(list, cap)),
         op' = [op EXCEPT ![s].phase = "assigning",
                          ![s].new = [array |-> Len(heap) + 1, len |-> Len(list)]],
         UNCHANGED <<rules, check, added, file, panicked, changes, listHistory>>
  PROVE  ShapeInv'
<1>1. ListTypeOK /\ Arrays
  BY DEF ShapeInv
<1>2. s \in Sessions /\ op[s] \in Op /\ op[s].base.array \in DOMAIN heap /\ op[s].late \in BOOLEAN
  BY <1>1, OpParts DEF Arrays, Pending
<1>3. PICK new : new = [array |-> Len(heap) + 1, len |-> Len(list)]
  OBVIOUS
<1>4. /\ heap' \in Memory /\ Len(heap') = Len(heap) + 1 /\ Differs(heap, heap', 1, {})
      /\ new.array \in DOMAIN heap' /\ new.len \in Nat
  <2>1. heap \in Memory
    BY <1>1, HeapParts DEF Memory
  <2> QED
    BY <1>3, <2>1, NewDiffers
<1>5. new \in Slice
  <2>1. new = [array |-> new.array, len |-> new.len] /\ new.array = Len(heap) + 1
    BY <1>3
  <2>2. Len(heap) + 1 \in 1..(MaxChanges + 2)
    <3>1. IsFiniteSet(Pending) /\ Len(heap) + Cardinality(Pending) <= changes + 2
      BY DEF ShapeInv, Budget
    <3>2. Cardinality(Pending) # 0
      BY <3>1, FS_EmptySet
    <3>3. PICK m \in Nat : m = Cardinality(Pending)
      BY <3>1, FS_CardinalityType
    <3>4. Len(heap) \in Nat /\ changes \in 0..MaxChanges
      BY <1>1, HeapParts DEF ListTypeOK
    <3> QED
      BY <3>1, <3>2, <3>3, <3>4, ListBoundsAssumption, SMTT(30)
  <2> QED
    BY <1>4, <2>1, <2>2 DEF Slice
<1> DEFINE x == Moved(op[s], "assigning", new, op[s].late)
<1>6. op' = [op EXCEPT ![s] = x]
  BY <1>1, <1>2, <1>3, ToAssigningOnly
<1>7. x \in Op /\ x.phase = "assigning" /\ x.base = op[s].base /\ x.new = new
  BY <1>2, <1>5, MovedOp
<1> HIDE DEF x
<1>8. Budget'
  <2>1. Pending' \subseteq Pending \ {s}
    BY <1>1, <1>2, <1>6, <1>7, PendingAfter
  <2> QED
    BY <1>4, <2>1, BudgetSpent
<1>9. met' \subseteq Sessions \cup Checks /\ unsaved' \in BOOLEAN
  BY <1>1 DEF ListTypeOK, listHistory
<1>10. DOMAIN heap \subseteq DOMAIN heap'
  BY <1>4 DEF Differs
<1>11. /\ rules' \in Slice /\ rules'.array \in DOMAIN heap' /\ file' \in Seq(SlotRule)
       /\ x.base.array \in DOMAIN heap' /\ x.new.array \in DOMAIN heap'
       /\ x.late => x.phase \in {"assigning", "saving"}
  BY <1>1, <1>2, <1>4, <1>7, <1>10 DEF ListTypeOK, Arrays
<1>12. UNCHANGED <<check, added, panicked, changes, due>>
  BY DEF listHistory
<1> QED
  BY <1>2, <1>4, <1>6, <1>7, <1>8, <1>9, <1>11, <1>12, SessionShape

\* Steps of a session that store to no array and have it wait again.
LEMMA IdleShape ==
  ASSUME ShapeInv, NEW s \in Sessions, op' = [op EXCEPT ![s] = NoOp],
         file' \in Seq(SlotRule), met' = met \ {s}, unsaved' \in BOOLEAN,
         UNCHANGED <<heap, rules, check, added, panicked, changes, due>>
  PROVE  ShapeInv'
<1>1. ListTypeOK /\ Arrays
  BY DEF ShapeInv
<1>2. NoOp.base.array \in DOMAIN heap /\ NoOp.new.array \in DOMAIN heap
  BY <1>1, NoOpType, NoRulesType, HeapParts
<1>3. Budget'
  <2>1. Pending' \subseteq Pending
    BY <1>1, NoOpType, PendingAfter
  <2>2. Len(heap') = Len(heap) /\ changes' = changes
    OBVIOUS
  <2> QED
    BY <2>1, <2>2, BudgetSame
<1>4. met' \subseteq Sessions \cup Checks /\ rules' \in Slice /\ rules'.array \in DOMAIN heap'
  BY <1>1 DEF ListTypeOK, Arrays
<1>5. heap' \in Memory /\ Differs(heap, heap', 1, {})
  BY <1>1, SameDiffers
<1>6. NoOp.base.array \in DOMAIN heap' /\ NoOp.new.array \in DOMAIN heap'
  BY <1>2
<1> QED
  BY <1>3, <1>4, <1>5, <1>6, NoOpType, SessionShape

LEMMA AddGrowsShape ==
  ASSUME ShapeInv, NEW s \in Sessions, AddGrows(s), Sound(op[s].base)
  PROVE  /\ ShapeInv'
         /\ s \in Pending
         /\ Append(Contents(op[s].base), op[s].rule) \in Seq(SlotRule)
         /\ Len(Append(Contents(op[s].base), op[s].rule)) = op[s].base.len + 1
         /\ Grown(op[s].base.len) \in Nat /\ Grown(op[s].base.len) >= op[s].base.len + 1
<1>1. ListTypeOK /\ Arrays
  BY DEF ShapeInv
<1>2. PICK base \in Slice : base = op[s].base /\ base.array \in DOMAIN heap
  BY <1>1, OpParts DEF Arrays
<1>3. op[s].rule \in SlotRule /\ base.len \in Nat
  BY <1>1, <1>2, OpParts, SliceParts
<1>4. Contents(base) \in Seq(SlotRule) /\ Len(Contents(base)) = base.len
  <2>1. heap \in Memory
    BY <1>1, HeapParts DEF Memory
  <2>2. base.len <= Len(heap[base.array])
    BY <1>2 DEF Sound, Cap
  <2>3. Part(heap, base) \in Seq(SlotRule) /\ Len(Part(heap, base)) = base.len
    BY <1>2, <2>1, <2>2, PartShape
  <2> QED
    BY <2>3, ContentsIsPart
<1>5. PICK list \in Seq(SlotRule) :
        list = Append(Contents(base), op[s].rule) /\ Len(list) = base.len + 1
  <2>1. PICK c \in Seq(SlotRule) : c = Contents(base) /\ Len(c) = base.len
    BY <1>4
  <2>2. Append(c, op[s].rule) \in Seq(SlotRule) /\ Len(Append(c, op[s].rule)) = Len(c) + 1
    BY <1>3
  <2> QED
    BY <2>1, <2>2
<1>6. PICK cap \in Nat : cap = Grown(base.len) /\ cap >= Len(list)
  BY <1>3, <1>5 DEF Grown
<1>7. s \in Pending
  BY DEF Pending, AddGrows
<1>8. /\ heap' = Append(heap, Padded(list, cap))
      /\ op' = [op EXCEPT ![s].phase = "assigning",
                          ![s].new = [array |-> Len(heap) + 1, len |-> Len(list)]]
      /\ UNCHANGED <<rules, check, added, file, panicked, changes, listHistory>>
  BY <1>2, <1>5, <1>6, Zenon DEF AddGrows
<1>9. ShapeInv'
  BY <1>6, <1>7, <1>8, NewArrayShape
<1> QED
  BY <1>2, <1>5, <1>6, <1>7, <1>9

\* What DeleteCopies does, the panics aside.
LEMMA DeleteCases ==
  ASSUME ShapeInv, NEW s \in Sessions, DeleteCopies(s)
  PROVE  \/ Crash
         \/ /\ op' = [op EXCEPT ![s] = NoOp] /\ Parts(s)
            /\ UNCHANGED <<heap, rules, check, added, file, panicked, changes, due, unsaved>>
         \/ \E now \in Loads :
              LET base == op[s].base
                  kept == Kept(base, op[s].gone)
                  list == [j \in 1..Len(kept) |-> heap[now.array][kept[j]]]
              IN  /\ Sound(base) /\ Sound(now) /\ Len(kept) # base.len
                  /\ list \in Seq(SlotRule)
                  /\ heap' = IF list = <<>> THEN heap
                             ELSE Append(heap, Padded(list, CapFor[Len(list)]))
                  /\ op' = [op EXCEPT ![s].phase = "assigning",
                              ![s].new = IF list = <<>> THEN NoRules
                                         ELSE [array |-> Len(heap) + 1, len |-> Len(list)]]
                  /\ UNCHANGED <<rules, check, added, file, panicked, changes, listHistory>>
<1>1. ListTypeOK /\ Arrays
  BY DEF ShapeInv
<1>2. PICK now \in Loads :
        LET base == op[s].base
            kept == Kept(base, op[s].gone)
            list == [j \in 1..Len(kept) |-> heap[now.array][kept[j]]]
        IN
        IF \/ ~Sound(base) \/ ~Sound(now)
           \/ MeetsNil(base) \/ \E j \in 1..Len(kept) : kept[j] > now.len
          THEN Crash
        ELSE IF Len(kept) = base.len
          THEN /\ op' = [op EXCEPT ![s] = NoOp] /\ Parts(s)
               /\ UNCHANGED <<heap, rules, check, added, file, panicked, changes, due, unsaved>>
        ELSE /\ heap' = IF list = <<>> THEN heap
                        ELSE Append(heap, Padded(list, CapFor[Len(list)]))
             /\ op' = [op EXCEPT ![s].phase = "assigning",
                                 ![s].new = IF list = <<>> THEN NoRules
                                            ELSE [array |-> Len(heap) + 1, len |-> Len(list)]]
             /\ UNCHANGED <<rules, check, added, file, panicked, changes, listHistory>>
  BY Zenon DEF DeleteCopies
<1> DEFINE base == op[s].base
           kept == Kept(base, op[s].gone)
           list == [j \in 1..Len(kept) |-> heap[now.array][kept[j]]]
<1>3. now \in Slice /\ now.array \in DOMAIN heap /\ base \in Slice
  BY <1>1, LoadsShape, OpParts
<1>4. SUFFICES ASSUME Sound(base), Sound(now), \A j \in 1..Len(kept) : ~(kept[j] > now.len),
                      Len(kept) # base.len
               PROVE  list \in Seq(SlotRule)
  BY <1>2, Zenon
<1>5. PICK c \in Nat, m \in Nat : c = now.len /\ m = Len(kept)
        /\ \A j \in 1..m : kept[j] \in Nat
  <2>1. PICK N \in Nat : N = base.len
    BY <1>3, SliceParts
  <2>2. PICK g : Places(heap[base.array], op[s].gone, N, g)
    BY PlacesExist
  <2>3. kept = g[N]
    BY <1>3, <2>1, <2>2, KeptPlaces
  <2>4. kept \in Seq(Nat)
    BY <2>2, <2>3, PlacesShape
  <2>5. now.len \in Nat
    BY <1>3, SliceParts
  <2> HIDE DEF kept
  <2> QED
    BY <2>4, <2>5
<1>6. \A j \in 1..Len(kept) : kept[j] <= now.len
  <2> HIDE DEF kept
  <2> QED
    BY <1>4, <1>5
<1> QED
  BY <1>1, <1>3, <1>4, <1>6, CopyType

LEMMA DeleteShape ==
  ASSUME ShapeInv, NEW s \in Sessions, DeleteCopies(s), ~Crash
  PROVE  ShapeInv'
<1>1. ListTypeOK /\ Arrays
  BY DEF ShapeInv
<1>2. CASE /\ op' = [op EXCEPT ![s] = NoOp] /\ Parts(s)
           /\ UNCHANGED <<heap, rules, check, added, file, panicked, changes, due, unsaved>>
  <2>1. file' \in Seq(SlotRule) /\ unsaved' \in BOOLEAN /\ met' = met \ {s}
    BY <1>1, <1>2 DEF ListTypeOK, Parts
  <2> QED
    BY <1>2, <2>1, IdleShape
<1>3. ASSUME NEW list \in Seq(SlotRule),
             heap' = IF list = <<>> THEN heap ELSE Append(heap, Padded(list, CapFor[Len(list)])),
             op' = [op EXCEPT ![s].phase = "assigning",
                              ![s].new = IF list = <<>> THEN NoRules
                                         ELSE [array |-> Len(heap) + 1, len |-> Len(list)]],
             UNCHANGED <<rules, check, added, file, panicked, changes, listHistory>>
      PROVE  ShapeInv'
  <2>1. s \in Pending
    BY DEF Pending, DeleteCopies
  <2>2. CASE list = <<>>
    <3> DEFINE x == Moved(op[s], "assigning", NoRules, op[s].late)
    <3>1. op' = [op EXCEPT ![s].phase = "assigning", ![s].new = NoRules]
      BY <1>3, <2>2
    <3>2. op' = [op EXCEPT ![s] = x]
      BY <1>1, <3>1, ToAssigningOnly
    <3>3. op[s] \in Op /\ op[s].late \in BOOLEAN /\ op[s].base.array \in DOMAIN heap
      BY <1>1, OpParts DEF Arrays
    <3>4. x \in Op /\ x.phase = "assigning" /\ x.base = op[s].base /\ x.new = NoRules
      BY <3>3, NoRulesType, MovedOp
    <3> HIDE DEF x
    <3>5. heap' = heap /\ Len(heap') = Len(heap) /\ changes' = changes
      BY <1>3, <2>2
    <3>6. Budget'
      <4>1. Pending' \subseteq Pending
        BY <1>1, <3>2, <3>4, PendingAfter
      <4> QED
        BY <3>5, <4>1, BudgetSame
    <3>7. met' \subseteq Sessions \cup Checks /\ unsaved' \in BOOLEAN
      BY <1>1, <1>3 DEF ListTypeOK, listHistory
    <3>8. heap' \in Memory /\ Differs(heap, heap', 1, {})
      BY <1>1, <3>5, SameDiffers
    <3>9. /\ rules' \in Slice /\ rules'.array \in DOMAIN heap' /\ file' \in Seq(SlotRule)
          /\ x.base.array \in DOMAIN heap' /\ x.new.array \in DOMAIN heap'
          /\ x.late => x.phase \in {"assigning", "saving"}
      <4>1. 1 \in DOMAIN heap
        BY <1>1, HeapParts
      <4>2. x.base.array \in DOMAIN heap' /\ x.new.array \in DOMAIN heap'
        BY <3>3, <3>4, <3>5, <4>1, NoRulesType
      <4>3. rules' \in Slice /\ rules'.array \in DOMAIN heap' /\ file' \in Seq(SlotRule)
        BY <1>1, <1>3, <3>5 DEF ListTypeOK, Arrays
      <4> QED
        BY <3>4, <4>2, <4>3
    <3>10. UNCHANGED <<check, added, panicked, changes, due>>
      BY <1>3 DEF listHistory
    <3> QED
      BY <3>2, <3>4, <3>6, <3>7, <3>8, <3>9, <3>10, SessionShape
  <2>3. CASE list # <<>>
    <3>1. PICK cap \in Nat : cap = CapFor[Len(list)] /\ cap >= Len(list)
      <4>1. Len(list) \in Nat
        OBVIOUS
      <4> QED
        BY <4>1, CapForEnough
    <3>2. heap' = Append(heap, Padded(list, cap))
      BY <1>3, <2>3, <3>1
    <3>3. op' = [op EXCEPT ![s].phase = "assigning",
                           ![s].new = [array |-> Len(heap) + 1, len |-> Len(list)]]
      BY <1>3, <2>3
    <3> QED
      BY <1>3, <2>1, <3>1, <3>2, <3>3, NewArrayShape
  <2> QED
    BY <2>2, <2>3
<1>4. \/ /\ op' = [op EXCEPT ![s] = NoOp] /\ Parts(s)
         /\ UNCHANGED <<heap, rules, check, added, file, panicked, changes, due, unsaved>>
      \/ \E list \in Seq(SlotRule) :
           /\ heap' = IF list = <<>> THEN heap ELSE Append(heap, Padded(list, CapFor[Len(list)]))
           /\ op' = [op EXCEPT ![s].phase = "assigning",
                               ![s].new = IF list = <<>> THEN NoRules
                                          ELSE [array |-> Len(heap) + 1, len |-> Len(list)]]
           /\ UNCHANGED <<rules, check, added, file, panicked, changes, listHistory>>
  BY DeleteCases, Zenon
<1> QED
  BY <1>2, <1>3, <1>4, Zenon

LEMMA AssignShape ==
  ASSUME ShapeInv, NEW s \in Sessions, Assign(s)
  PROVE  ShapeInv'
<1>1. ListTypeOK /\ Arrays
  BY DEF ShapeInv
<1>2. op[s] \in Op /\ op[s].base.array \in DOMAIN heap /\ op[s].new \in Slice
      /\ op[s].new.array \in DOMAIN heap /\ op[s].rule \in SlotRule /\ op[s].late \in BOOLEAN
  BY <1>1, OpParts DEF Arrays
<1>3. rules' \in Slice /\ rules'.array \in DOMAIN heap
  BY <1>1, StoresShape DEF Assign
<1> DEFINE x == Moved(op[s], "saving", op[s].new, op[s].late)
<1>4. op' = [op EXCEPT ![s] = x]
  BY <1>1, ToSaving DEF Assign
<1>5. x \in Op /\ x.phase = "saving" /\ x.base = op[s].base /\ x.new = op[s].new
  <2>1. op[s] \in Op /\ op[s].new \in Slice /\ op[s].late \in BOOLEAN
    BY <1>2
  <2>2. x.phase = "saving" /\ x.base = op[s].base /\ x.new = op[s].new
    BY DEF Moved
  <2> QED
    BY <2>1, <2>2 DEF Moved, Op
<1> HIDE DEF x
<1>6. heap' \in Memory /\ Len(heap') = Len(heap)
      /\ Differs(heap, heap', op[s].new.array, {op[s].new.len})
  <2>1. CASE op[s].late
    <3>1. heap' = Stored(heap, op[s].new.array, op[s].new.len, op[s].rule)
      BY <2>1 DEF Assign, PutLast, Stored
    <3>2. heap \in Memory /\ op[s].new.len \in Nat
      BY <1>1, <1>2, HeapParts, SliceParts DEF Memory
    <3> QED
      <4>1. PICK a \in DOMAIN heap, n \in Nat, r \in SlotRule :
              a = op[s].new.array /\ n = op[s].new.len /\ r = op[s].rule
        BY <1>2, <3>2
      <4>2. heap' = Stored(heap, a, n, r)
        BY <3>1, <4>1
      <4>3. heap' \in Memory /\ Len(heap') = Len(heap) /\ Differs(heap, heap', a, {n})
        BY <3>2, <4>2, StoreDiffers
      <4> QED
        BY <4>1, <4>3
  <2>2. CASE ~op[s].late
    <3>1. heap' = heap
      BY <2>2 DEF Assign
    <3> QED
      BY <1>1, <3>1, SameDiffers
  <2> QED
    BY <2>1, <2>2
<1>7. changes' = changes /\ file' = file /\ UNCHANGED <<check, added, panicked, changes, due>>
  BY DEF Assign
<1>8. Budget'
  <2>1. Pending' \subseteq Pending
    BY <1>1, <1>4, <1>5, PendingAfter
  <2> QED
    BY <1>6, <1>7, <2>1, BudgetSame
<1>9. met' \subseteq Sessions \cup Checks /\ unsaved' \in BOOLEAN
  <2>1. CASE op[s].late
    <3>1. Tramples(s, op[s].new.array)
      BY <2>1 DEF Assign
    <3> QED
      BY <1>1, <3>1, TramplesShape
  <2>2. CASE ~op[s].late
    <3>1. met' = met /\ unsaved' = unsaved
      BY <2>2 DEF Assign
    <3> QED
      BY <1>1, <3>1 DEF ListTypeOK
  <2> QED
    BY <2>1, <2>2
<1>10. DOMAIN heap \subseteq DOMAIN heap'
  BY <1>6 DEF Differs
<1>11. rules'.array \in DOMAIN heap' /\ x.base.array \in DOMAIN heap' /\ x.new.array \in DOMAIN heap'
  BY <1>2, <1>3, <1>5, <1>10
<1>12. file' \in Seq(SlotRule)
  BY <1>1, <1>7 DEF ListTypeOK
<1> QED
  BY <1>3, <1>4, <1>5, <1>6, <1>7, <1>8, <1>9, <1>11, <1>12, SessionShape

LEMMA SaveShape ==
  ASSUME ShapeInv, NEW s \in Sessions, Save(s), ~Crash
  PROVE  ShapeInv'
<1>1. ListTypeOK /\ Arrays
  BY DEF ShapeInv
<1>2. PICK now \in Loads :
        /\ \/ now.len = 0 /\ UNCHANGED <<file, unsaved>>
           \/ now.len > 0 /\ file' = Contents(now) /\ unsaved' = (unsaved /\ met # {})
           \/ now.len > 0 /\ unsaved' = TRUE /\ UNCHANGED file
        /\ op' = [op EXCEPT ![s] = NoOp] /\ Parts(s)
        /\ UNCHANGED <<heap, rules, check, added, panicked, changes, due>>
  BY DEF Save
<1>3. Contents(now) \in Seq(SlotRule)
  <2>1. now \in Slice /\ now.array \in DOMAIN heap
    BY <1>1, LoadsShape
  <2>2. heap \in Memory
    BY <1>1, HeapParts DEF Memory
  <2>3. Part(heap, now) \in Seq(SlotRule)
    BY <2>1, <2>2, PartShape
  <2> QED
    BY <2>3, ContentsIsPart
<1>4. file' \in Seq(SlotRule) /\ unsaved' \in BOOLEAN /\ met' = met \ {s}
  BY <1>1, <1>2, <1>3 DEF ListTypeOK, Parts
<1> QED
  BY <1>2, <1>4, IdleShape

LEMMA CheckLoadsShape ==
  ASSUME ShapeInv, NEW k \in Checks, CheckLoads(k)
  PROVE  ShapeInv'
<1>1. ListTypeOK /\ Arrays
  BY DEF ShapeInv
<1>2. PICK b \in Loads :
        check' = [check EXCEPT ![k] = [NoCheck EXCEPT !.phase = "loaded", !.base = b]]
  BY DEF CheckLoads
<1>3. b \in Slice /\ b.array \in DOMAIN heap
  BY <1>1, LoadsShape
<1>4. PICK x : x = [NoCheck EXCEPT !.phase = "loaded", !.base = b]
  OBVIOUS
<1>5. x \in Check /\ x.base = b
  <2>1. x \in Check /\ x = [phase |-> "loaded", base |-> b, seen |-> <<>>]
    BY <1>3, <1>4, LoadedCheck, Zenon
  <2> QED
    BY <2>1
<1>6. check' = [check EXCEPT ![k] = x]
  BY <1>2, <1>4
<1>7. UNCHANGED <<heap, rules, op, added, file, panicked, changes>>
  BY DEF CheckLoads
<1>8. due' \in [Checks -> Seq(SlotRule)]
  <2>1. heap \in Memory /\ rules \in Slice /\ rules.array \in DOMAIN heap
    BY <1>1, HeapParts DEF ListTypeOK, Arrays, Memory
  <2>2. Contents(rules) \in Seq(SlotRule)
    BY <2>1, PartShape, ContentsIsPart
  <2>3. due' = [due EXCEPT ![k] = Contents(rules)] /\ due \in [Checks -> Seq(SlotRule)]
    BY <1>1 DEF CheckLoads, ListTypeOK
  <2> QED
    BY <2>2, <2>3
<1>9. met' \subseteq Sessions \cup Checks /\ unsaved' \in BOOLEAN
  <2>1. Joins(k, Storing) /\ Storing \subseteq Sessions
    BY DEF CheckLoads, Storing
  <2> QED
    BY <1>1, <2>1, JoinsShape DEF ListTypeOK
<1>10. heap' \in Memory /\ Differs(heap, heap', 1, {}) /\ Len(heap') = Len(heap)
  BY <1>1, <1>7, SameDiffers
<1>11. x.base.array \in DOMAIN heap
  BY <1>3, <1>5
<1> QED
  BY <1>5, <1>6, <1>7, <1>8, <1>9, <1>10, <1>11, CheckShape

LEMMA CheckInPlaceShape ==
  ASSUME ShapeInv, NEW k \in Checks, CheckAppendsInPlace(k)
  PROVE  /\ ShapeInv'
         /\ heap' \in Memory /\ Len(heap') = Len(heap)
         /\ Differs(heap, heap', check[k].base.array,
                    (check[k].base.len + 1)..(check[k].base.len + WideCount))
         /\ \A i \in 1..WideCount : heap'[check[k].base.array][check[k].base.len + i] = Wide[i]
<1>1. ListTypeOK /\ Arrays
  BY DEF ShapeInv
<1>2. PICK base \in Slice : base = check[k].base
  BY <1>1, CheckParts
<1>3. base.array \in DOMAIN heap /\ heap \in Memory
  BY <1>1, <1>2, HeapParts DEF Arrays, Memory
<1>4. base.len + WideCount <= Len(heap[base.array])
  BY <1>2 DEF CheckAppendsInPlace, HasRoom, Cap
<1>5. heap' = WideStored(heap, base)
  BY <1>2 DEF CheckAppendsInPlace, WideStored
<1>6. /\ heap' \in Memory /\ Len(heap') = Len(heap)
      /\ Differs(heap, heap', base.array, (base.len + 1)..(base.len + WideCount))
      /\ \A i \in 1..WideCount : heap'[base.array][base.len + i] = Wide[i]
  BY <1>3, <1>4, <1>5, WideDiffers
<1> DEFINE x == MovedCheck(check[k], "appended", check[k].seen)
<1>7. check' = [check EXCEPT ![k] = x]
  BY <1>1, ToAppended DEF CheckAppendsInPlace
<1>8. x \in Check /\ x.base = base
  BY <1>1, <1>2, CheckParts, MovedCheckType
<1> HIDE DEF x
<1>9. UNCHANGED <<rules, op, added, file, panicked, changes, due>>
  BY DEF CheckAppendsInPlace
<1>10. met' \subseteq Sessions \cup Checks /\ unsaved' \in BOOLEAN
  <2>1. Joins(k, Reached(k)) /\ Reached(k) \subseteq Sessions \cup Checks
    BY DEF CheckAppendsInPlace, Reached, AtWork
  <2> QED
    BY <1>1, <2>1, JoinsShape DEF ListTypeOK
<1>11. due' \in [Checks -> Seq(SlotRule)] /\ x.base.array \in DOMAIN heap
  BY <1>1, <1>3, <1>8, <1>9 DEF ListTypeOK
<1>12. ShapeInv'
  BY <1>6, <1>7, <1>8, <1>9, <1>10, <1>11, CheckShape
<1> QED
  BY <1>2, <1>6, <1>12

LEMMA CheckDoneShape ==
  ASSUME ShapeInv, NEW k \in Checks, NEW l \in Seq(SlotRule),
         check' = [check EXCEPT ![k].phase = "done", ![k].seen = l],
         UNCHANGED <<heap, rules, op, added, file, panicked, changes, listHistory>>
  PROVE  ShapeInv'
<1>1. ListTypeOK /\ Arrays
  BY DEF ShapeInv
<1> DEFINE x == MovedCheck(check[k], "done", l)
<1>2. check' = [check EXCEPT ![k] = x]
  BY <1>1, ToDone
<1>3. x \in Check /\ x.base.array \in DOMAIN heap
  <2>1. check[k] \in Check /\ check[k].base.array \in DOMAIN heap
    BY <1>1, CheckParts DEF Arrays
  <2>2. x \in Check /\ x.base = check[k].base
    BY <2>1, MovedCheckType
  <2> QED
    BY <2>1, <2>2
<1> HIDE DEF x
<1>4. heap' \in Memory /\ Differs(heap, heap', 1, {}) /\ Len(heap') = Len(heap)
  BY <1>1, SameDiffers
<1>5. /\ due' \in [Checks -> Seq(SlotRule)] /\ met' \subseteq Sessions \cup Checks
      /\ unsaved' \in BOOLEAN
  BY <1>1 DEF ListTypeOK, listHistory
<1> QED
  BY <1>2, <1>3, <1>4, <1>5, CheckShape

LEMMA CheckEndsShape ==
  ASSUME ShapeInv, NEW k \in Checks, CheckEnds(k)
  PROVE  ShapeInv'
<1>1. ListTypeOK /\ Arrays
  BY DEF ShapeInv
<1>2. check' = [check EXCEPT ![k] = NoCheck]
  BY DEF CheckEnds
<1>3. NoCheck.base.array \in DOMAIN heap
  BY <1>1, NoCheckType, NoRulesType, HeapParts
<1>4. UNCHANGED <<heap, rules, op, added, file, panicked, changes>> /\ unsaved' = unsaved
  BY DEF CheckEnds
<1>5. heap' \in Memory /\ Differs(heap, heap', 1, {}) /\ Len(heap') = Len(heap)
  BY <1>1, <1>4, SameDiffers
<1>6. /\ due' \in [Checks -> Seq(SlotRule)] /\ met' \subseteq Sessions \cup Checks
      /\ unsaved' \in BOOLEAN
  <2>1. <<>> \in Seq(SlotRule)
    OBVIOUS
  <2> QED
    BY <1>1, <1>4, <2>1 DEF CheckEnds, Parts, ListTypeOK
<1> QED
  BY <1>2, <1>3, <1>4, <1>5, <1>6, NoCheckType, CheckShape

LEMMA StillShape ==
  ASSUME ShapeInv, UNCHANGED <<heap, rules, op, check, added, file, changes, listHistory>>,
         panicked' \in BOOLEAN
  PROVE  ShapeInv'
<1>1. ListTypeOK /\ Arrays
  BY DEF ShapeInv
<1>2. UNCHANGED <<heap, rules, op, check, added, file, changes, due, met, unsaved>>
  BY DEF listHistory
<1>3. Pending' = Pending /\ Budget'
  BY <1>2 DEF Pending, Budget, ShapeInv
<1>4. ListTypeOK' /\ Arrays' /\ LateOps'
  BY <1>2 DEF ShapeInv, ListTypeOK, Arrays, LateOps
<1> QED
  BY <1>3, <1>4 DEF ShapeInv

\* What the steps are, but for one that ends the process.
ListStep ==
  \/ \E s \in Sessions : \/ AddLoads(s) \/ AddInPlace(s) \/ (AddGrows(s) /\ Sound(op[s].base))
                         \/ DeleteLoads(s) \/ DeleteCopies(s) \/ Assign(s) \/ Save(s)
  \/ \E k \in Checks : \/ CheckLoads(k) \/ CheckAppendsInPlace(k)
                       \/ (CheckAppends(k) /\ Sound(check[k].base))
                       \/ CheckSorts(k) \/ CheckEnds(k)

LEMMA StepCases ==
  ASSUME [ListNext]_listVars
  PROVE  Crash \/ UNCHANGED listVars \/ ListStep
<1>1. \A s \in Sessions : AddGrows(s) => Crash \/ Sound(op[s].base)
  BY DEF AddGrows
<1>2. \A k \in Checks : CheckAppends(k) => Crash \/ Sound(check[k].base)
  BY DEF CheckAppends
<1> QED
  BY <1>1, <1>2 DEF ListNext, ListStep

LEMMA StepShape == ShapeInv /\ [ListNext]_listVars => ShapeInv'
<1> SUFFICES ASSUME ShapeInv, [ListNext]_listVars PROVE ShapeInv'
  OBVIOUS
<1>1. ListTypeOK /\ Arrays
  BY DEF ShapeInv
<1>2. CASE Crash
  BY <1>2, StillShape DEF Crash
<1>3. CASE UNCHANGED listVars
  <2>1. UNCHANGED <<heap, rules, op, check, added, file, changes, listHistory>>
        /\ panicked' = panicked
    BY <1>3 DEF listVars
  <2>2. panicked' \in BOOLEAN
    BY <1>1, <2>1 DEF ListTypeOK
  <2> QED
    BY <2>1, <2>2, StillShape
<1>4. ASSUME NEW s \in Sessions, AddLoads(s) PROVE ShapeInv'
  <2>1. PICK b \in Loads : op' = [op EXCEPT ![s] = Loaded("adding", b, Own(added + 1), {})]
    BY <1>4, Zenon DEF AddLoads
  <2>2. added + 1 \in 1..MaxAdded /\ added' \in Started..MaxAdded /\ changes < MaxChanges
        /\ changes' = changes + 1
    BY <1>1, <1>4, ListBoundsAssumption DEF ListTypeOK, AddLoads
  <2>3. Own(added + 1) \in SlotRule
    BY <2>2, OwnRules
  <2>4. ~Busy(s) /\ Joins(s, OthersBusy(s)) /\ UNCHANGED <<heap, rules, check, file, panicked, due>>
    BY <1>4 DEF AddLoads
  <2> QED
    BY <2>1, <2>2, <2>3, <2>4, LoadShape
<1>5. ASSUME NEW s \in Sessions, DeleteLoads(s) PROVE ShapeInv'
  <2>1. PICK b \in Loads, d \in Given : op' = [op EXCEPT ![s] = Loaded("deleting", b, Empty, d)]
    BY <1>5, Zenon DEF DeleteLoads
  <2>2. added' \in Started..MaxAdded /\ changes < MaxChanges /\ changes' = changes + 1
    BY <1>1, <1>5, ListBoundsAssumption DEF ListTypeOK, DeleteLoads
  <2>3. Empty \in SlotRule
    BY EmptyRule
  <2>4. ~Busy(s) /\ Joins(s, OthersBusy(s)) /\ UNCHANGED <<heap, rules, check, file, panicked, due>>
    BY <1>5 DEF DeleteLoads
  <2> QED
    BY <2>1, <2>2, <2>3, <2>4, LoadShape
<1>6. ASSUME NEW k \in Checks, CheckAppends(k), Sound(check[k].base) PROVE ShapeInv'
  <2>1. check' = [check EXCEPT ![k].phase = "done", ![k].seen = Contents(check[k].base) \o Wide]
        /\ UNCHANGED <<heap, rules, op, added, file, panicked, changes, listHistory>>
    BY <1>6 DEF CheckAppends
  <2>2. check[k].base \in Slice /\ check[k].base.array \in DOMAIN heap /\ heap \in Memory
    BY <1>1, CheckParts, HeapParts DEF Arrays, Memory
  <2>3. Contents(check[k].base) \in Seq(SlotRule)
    BY <2>2, PartShape, ContentsIsPart
  <2>4. Contents(check[k].base) \o Wide \in Seq(SlotRule)
    BY <2>3, WideRules
  <2> QED
    BY <2>1, <2>4, CheckDoneShape
<1>7. ASSUME NEW k \in Checks, CheckSorts(k) PROVE ShapeInv'
  <2>1. PICK all : all = [check[k].base EXCEPT !.len = @ + WideCount]
    OBVIOUS
  <2>2. check' = [check EXCEPT ![k].phase = "done", ![k].seen = Contents(all)]
        /\ UNCHANGED <<heap, rules, op, added, file, panicked, changes, listHistory>>
    BY <1>7, <2>1 DEF CheckSorts
  <2>3. check[k].base \in Slice /\ check[k].base.array \in DOMAIN heap /\ heap \in Memory
    BY <1>1, CheckParts, HeapParts DEF Arrays, Memory
  <2>4. all \in Slice /\ all.array = check[k].base.array
    BY <2>1, <2>3, Longer, ListBoundsAssumption
  <2>5. Contents(all) \in Seq(SlotRule)
    BY <2>3, <2>4, PartShape, ContentsIsPart
  <2> QED
    BY <2>2, <2>5, CheckDoneShape
<1>8. ASSUME ListStep, ~Crash PROVE ShapeInv'
  <2>1. ASSUME NEW s \in Sessions,
               AddInPlace(s) \/ (AddGrows(s) /\ Sound(op[s].base)) \/ DeleteCopies(s)
                 \/ Assign(s) \/ Save(s)
        PROVE  ShapeInv'
    BY <1>8, <2>1, AddInPlaceShape, AddGrowsShape, DeleteShape, AssignShape, SaveShape
  <2>2. ASSUME NEW k \in Checks, CheckLoads(k) \/ CheckAppendsInPlace(k) \/ CheckEnds(k)
        PROVE  ShapeInv'
    BY <2>2, CheckLoadsShape, CheckInPlaceShape, CheckEndsShape
  <2> QED
    BY <1>4, <1>5, <1>6, <1>7, <1>8, <2>1, <2>2 DEF ListStep
<1> QED
  BY <1>2, <1>3, <1>8, StepCases

\* Slices name arrays that are there, and there are never more arrays than rules
\* added and deletions begun allow, whatever sessions and checks do at a time.
THEOREM ListTypeCorrect == ListSpec => [](ListTypeOK /\ Arrays)
<1>1. ShapeInv => ListTypeOK /\ Arrays
  BY DEF ShapeInv
<1> QED
  BY <1>1, InitShape, StepShape, PTL DEF ListSpec
-----------------------------------------------------------------------------
(* What those who have not met can rely on.                                *)

SoundIn(h, b) == b.len <= Len(h[b.array])
RoomIn(h, b)  == b.len + WideCount <= Len(h[b.array])

At(c) == c.phase \in {"loaded", "appended"}

\* A check c has read the list d it is due to go by.
Reads(h, c, d) ==
  /\ At(c) /\ SoundIn(h, c.base) => Part(h, c.base) = d
  /\ c.phase = "appended" =>
       RoomIn(h, c.base) /\ \A i \in 1..WideCount : h[c.base.array][c.base.len + i] = Wide[i]
  /\ c.phase = "done" => c.seen = d \o Wide

\* Of two slices of one array, low does not reach further than high.
Fits(h, low, high) == low.array = high.array /\ SoundIn(h, low) => low.len <= high.len

\* A slice r of the array a check uses is as long as the check's slice, if the
\* check uses the slots behind that, and may be longer if not.
Behind(h, c, r) ==
  At(c) => /\ Fits(h, c.base, r)
           /\ RoomIn(h, c.base) /\ r.array = c.base.array => r.len <= c.base.len

\* The same for a slice of another check.
Apart(h, c, d) == At(c) /\ At(d) /\ RoomIn(h, d.base) => Fits(h, c.base, d.base)

\* And for one that a session is about to store.
Beside(h, o, c) == o.phase = "assigning" /\ ~o.late => Behind(h, c, o.new)

\* A session that works on the list r does what it was asked to.
Clean(h, o, r) ==
  /\ o.phase \in {"adding", "deleting"} => o.base = r
  /\ o.phase = "assigning" =>
       /\ SoundIn(h, o.new)
       /\ o.late => o.new.array = r.array /\ o.new.len = r.len + 1
       /\ ~o.late =>
            \/ Part(h, o.new) = Append(Part(h, r), o.rule)
            \/ /\ Part(h, o.new) = Book!Without(Part(h, r), o.gone)
               /\ \E i \in 1..Len(Part(h, r)) : Part(h, r)[i] \in o.gone

\* Nobody who has met another is about to store a slice.
Calm == Storing \cap met = {}

MeetInv ==
  /\ \A s, q \in Sessions : Busy(s) /\ Busy(q) /\ s # q => s \in met
  /\ met # {} => unsaved

CleanInv ==
  /\ \A s \in Sessions \ met : Clean(heap, op[s], rules)
  /\ \A k \in Checks \ met : Reads(heap, check[k], due[k])
  /\ Calm => \A k \in Checks \ met : Behind(heap, check[k], rules)
  /\ \A k, x \in Checks \ met : Apart(heap, check[k], check[x])
  /\ \A s \in Sessions, k \in Checks \ met : Beside(heap, op[s], check[k])

LEMMA BehindKept ==
  ASSUME NEW h, NEW g, NEW array, NEW slots, Differs(h, g, array, slots), NEW c, NEW r,
         c.base.array \in DOMAIN h, Behind(h, c, r)
  PROVE  Behind(g, c, r)
BY DEF Differs, Behind, Fits, SoundIn, RoomIn

LEMMA ApartKept ==
  ASSUME NEW h, NEW g, NEW array, NEW slots, Differs(h, g, array, slots), NEW c, NEW d,
         c.base.array \in DOMAIN h, d.base.array \in DOMAIN h, Apart(h, c, d)
  PROVE  Apart(g, c, d)
BY DEF Differs, Apart, Fits, SoundIn, RoomIn

LEMMA BesideKept ==
  ASSUME NEW h, NEW g, NEW array, NEW slots, Differs(h, g, array, slots), NEW c, NEW o,
         c.base.array \in DOMAIN h, Beside(h, o, c)
  PROVE  Beside(g, o, c)
BY BehindKept DEF Beside

LEMMA ReadsKept ==
  ASSUME NEW h \in Memory, NEW g \in Memory, NEW array, NEW slots, Differs(h, g, array, slots),
         NEW c \in Check, NEW d, c.base.array \in DOMAIN h, Reads(h, c, d),
         At(c) /\ SoundIn(h, c.base) /\ c.base.array = array =>
           \A i \in 1..c.base.len : i \notin slots,
         c.phase = "appended" =>
           \A i \in 1..WideCount : g[c.base.array][c.base.len + i] = Wide[i]
  PROVE  Reads(g, c, d)
<1>1. c.base \in Slice
  BY DEF Check
<1>2. Len(g[c.base.array]) = Len(h[c.base.array])
  BY DEF Differs
<1>3. ASSUME At(c), SoundIn(g, c.base) PROVE Part(g, c.base) = d
  <2>1. SoundIn(h, c.base)
    BY <1>2, <1>3 DEF SoundIn
  <2>2. c.base.array = array => \A i \in 1..c.base.len : i \notin slots
    BY <1>3, <2>1
  <2>3. Part(g, c.base) = Part(h, c.base)
    BY <1>1, <2>2, SamePart
  <2> QED
    BY <1>3, <2>1, <2>3 DEF Reads
<1>4. c.phase = "appended" => RoomIn(g, c.base)
  BY <1>2 DEF Reads, RoomIn
<1>5. c.phase = "done" => c.seen = d \o Wide
  BY DEF Reads
<1> QED
  BY <1>3, <1>4, <1>5 DEF Reads

LEMMA CleanKept ==
  ASSUME NEW h, NEW g, NEW array, NEW slots, Differs(h, g, array, slots), NEW o, NEW r,
         o.new.array \in DOMAIN h, Clean(h, o, r),
         o.phase = "assigning" /\ ~o.late =>
           Part(g, o.new) = Part(h, o.new) /\ Part(g, r) = Part(h, r)
  PROVE  Clean(g, o, r)
<1>1. Len(g[o.new.array]) = Len(h[o.new.array])
  BY DEF Differs
<1>2. SoundIn(h, o.new) => SoundIn(g, o.new)
  BY <1>1 DEF SoundIn
<1> QED
  BY <1>2 DEF Clean
-----------------------------------------------------------------------------
(* Those who are at work together have met.                                *)

LEMMA MeetKept ==
  ASSUME MeetInv, \A q \in Sessions : op'[q].phase # "idle" => Busy(q) /\ (q \in met => q \in met'),
         met' # {} => unsaved'
  PROVE  MeetInv'
BY DEF MeetInv, Busy

\* Those who have met are known to have, until they part.
LEMMA JoinsKeeps ==
  ASSUME ListTypeOK, MeetInv, NEW p, NEW others, Joins(p, others)
  PROVE  met \subseteq met' /\ (met' # {} => unsaved') /\ (unsaved => unsaved')
BY JoinsShape DEF ListTypeOK, MeetInv

LEMMA LoadMeets ==
  ASSUME ListTypeOK, MeetInv, NEW s \in Sessions, ~Busy(s), Joins(s, OthersBusy(s)),
         \A q \in Sessions : q # s => op'[q] = op[q]
  PROVE  MeetInv'
<1>1. unsaved \in BOOLEAN
  BY DEF ListTypeOK
<1>2. /\ met \subseteq met' /\ unsaved' \in BOOLEAN
      /\ OthersBusy(s) # {} => OthersBusy(s) \subseteq met' /\ s \in met' /\ unsaved'
      /\ OthersBusy(s) = {} => met' = met /\ unsaved' = unsaved
  BY <1>1, JoinsShape
<1>3. \A p, q \in Sessions : (Busy(p))' /\ (Busy(q))' /\ p # q => p \in met'
  <2> SUFFICES ASSUME NEW p \in Sessions, NEW q \in Sessions, (Busy(p))', (Busy(q))', p # q
               PROVE  p \in met'
    OBVIOUS
  <2>1. CASE p = s
    <3>1. q \in OthersBusy(s)
      BY <2>1 DEF OthersBusy, Busy
    <3> QED
      BY <1>2, <2>1, <3>1
  <2>2. CASE p # s
    <3>1. p \in OthersBusy(s)
      BY <2>2 DEF OthersBusy, Busy
    <3> QED
      BY <1>2, <3>1
  <2> QED
    BY <2>1, <2>2
<1>4. met' # {} => unsaved'
  BY <1>2 DEF MeetInv
<1> QED
  BY <1>3, <1>4 DEF MeetInv

\* The phases a session comes to, step by step.
LEMMA PhaseAfter ==
  ASSUME ListTypeOK, NEW s \in Sessions
  PROVE  /\ AddInPlace(s) \/ (AddGrows(s) /\ Sound(op[s].base)) => op'[s].phase = "assigning"
         /\ Assign(s) => op'[s].phase = "saving"
         /\ Save(s) /\ ~Crash => op'[s] = NoOp
         /\ AddInPlace(s) \/ (AddGrows(s) /\ Sound(op[s].base)) \/ Assign(s) \/ (Save(s) /\ ~Crash) =>
              /\ op[s].phase # "idle"
              /\ \A q \in Sessions : q # s => op'[q] = op[q]
<1>1. op \in [Sessions -> Op] /\ op[s] \in Op
  BY DEF ListTypeOK
<1>2. ASSUME AddInPlace(s)
      PROVE  /\ op'[s].phase = "assigning" /\ op[s].phase # "idle"
             /\ \A q \in Sessions : q # s => op'[q] = op[q]
  <2>1. PICK n, l :
          op' = [op EXCEPT ![s].phase = "assigning", ![s].new = n, ![s].late = l]
    BY <1>2, Zenon DEF AddInPlace
  <2>2. op[s].phase # "idle"
    BY <1>2 DEF AddInPlace
  <2> QED
    BY <1>1, <2>1, <2>2
<1>3. ASSUME AddGrows(s), Sound(op[s].base)
      PROVE  /\ op'[s].phase = "assigning" /\ op[s].phase # "idle"
             /\ \A q \in Sessions : q # s => op'[q] = op[q]
  <2>1. PICK n : op' = [op EXCEPT ![s].phase = "assigning", ![s].new = n]
    BY <1>3 DEF AddGrows
  <2>2. op[s].phase # "idle"
    BY <1>3 DEF AddGrows
  <2> QED
    BY <1>1, <2>1, <2>2
<1>4. ASSUME Assign(s)
      PROVE  /\ op'[s].phase = "saving" /\ op[s].phase # "idle"
             /\ \A q \in Sessions : q # s => op'[q] = op[q]
  BY <1>1, <1>4 DEF Assign
<1>5. ASSUME Save(s), ~Crash
      PROVE  /\ op'[s] = NoOp /\ op[s].phase # "idle"
             /\ \A q \in Sessions : q # s => op'[q] = op[q]
  BY <1>1, <1>5 DEF Save
<1> QED
  BY <1>2, <1>3, <1>4, <1>5

LEMMA StepMeets ==
  ASSUME ShapeInv, MeetInv, ListStep, ~Crash
  PROVE  MeetInv'
<1>1. ListTypeOK /\ unsaved \in BOOLEAN /\ (met # {} => unsaved)
  BY DEF ShapeInv, ListTypeOK, MeetInv
<1>2. ASSUME NEW s \in Sessions, AddLoads(s) \/ DeleteLoads(s) PROVE MeetInv'
  <2>1. PICK x : op' = [op EXCEPT ![s] = x]
    <3>1. CASE AddLoads(s)
      BY <3>1, Zenon DEF AddLoads
    <3>2. CASE DeleteLoads(s)
      BY <3>2, Zenon DEF DeleteLoads
    <3> QED
      BY <1>2, <3>1, <3>2
  <2>2. \A q \in Sessions : q # s => op'[q] = op[q]
    BY <1>1, <2>1 DEF ListTypeOK
  <2>3. ~Busy(s) /\ Joins(s, OthersBusy(s))
    BY <1>2 DEF AddLoads, DeleteLoads
  <2> QED
    BY <1>1, <2>2, <2>3, LoadMeets
<1>3. ASSUME NEW s \in Sessions, AddInPlace(s) \/ Assign(s) PROVE MeetInv'
  <2>1. UNCHANGED <<met, unsaved>> \/ \E array : Tramples(s, array)
    BY <1>3 DEF AddInPlace, Assign
  <2>2. met \subseteq met' /\ (met' # {} => unsaved')
    BY <1>1, <2>1, JoinsKeeps DEF Tramples
  <2>3. \A q \in Sessions : op'[q].phase # "idle" => Busy(q)
    BY <1>1, <1>3, PhaseAfter DEF Busy
  <2> QED
    BY <2>2, <2>3, MeetKept
<1>4. ASSUME NEW s \in Sessions, AddGrows(s), Sound(op[s].base) PROVE MeetInv'
  <2>1. met' = met /\ unsaved' = unsaved
    BY <1>4 DEF AddGrows, listHistory
  <2>2. \A q \in Sessions : op'[q].phase # "idle" => Busy(q)
    BY <1>1, <1>4, PhaseAfter DEF Busy
  <2> QED
    BY <1>1, <2>1, <2>2, MeetKept
<1>5. ASSUME NEW s \in Sessions, Save(s) PROVE MeetInv'
  <2>1. met' = met \ {s}
    BY <1>5 DEF Save, Crash, Parts
  <2>2. met' # {} => unsaved'
    BY <1>1, <1>5, <2>1 DEF Save
  <2>3. \A q \in Sessions : op'[q].phase # "idle" => Busy(q) /\ q # s
    BY <1>1, <1>5, PhaseAfter, NoOpType DEF Busy
  <2> QED
    BY <2>1, <2>2, <2>3, MeetKept
<1>6. ASSUME NEW s \in Sessions, DeleteCopies(s) PROVE MeetInv'
  <2>0. op \in [Sessions -> Op] /\ op[s].phase # "idle"
    BY <1>1, <1>6 DEF ListTypeOK, DeleteCopies
  <2>1. CASE /\ op' = [op EXCEPT ![s] = NoOp] /\ Parts(s) /\ unsaved' = unsaved
    <3>1. \A q \in Sessions : op'[q].phase # "idle" => Busy(q) /\ q # s
      BY <2>0, <2>1, NoOpType DEF Busy
    <3> QED
      BY <1>1, <2>1, <3>1, MeetKept DEF Parts
  <2>2. CASE /\ \E n : op' = [op EXCEPT ![s].phase = "assigning", ![s].new = n]
             /\ UNCHANGED listHistory
    <3>1. met' = met /\ unsaved' = unsaved
      BY <2>2 DEF listHistory
    <3>2. \A q \in Sessions : op'[q].phase # "idle" => Busy(q)
      BY <2>0, <2>2 DEF Busy
    <3> QED
      BY <1>1, <3>1, <3>2, MeetKept
  <2> QED
    BY <1>6, <2>1, <2>2, DeleteCases, Zenon
<1>7. ASSUME NEW k \in Checks, CheckLoads(k) \/ CheckAppendsInPlace(k) PROVE MeetInv'
  <2>1. op' = op /\ \E others : Joins(k, others)
    BY <1>7 DEF CheckLoads, CheckAppendsInPlace
  <2>2. met \subseteq met' /\ (met' # {} => unsaved')
    BY <1>1, <2>1, JoinsKeeps
  <2> QED
    BY <2>1, <2>2, MeetKept DEF Busy
<1>8. ASSUME NEW k \in Checks, (CheckAppends(k) /\ Sound(check[k].base)) \/ CheckSorts(k)
      PROVE  MeetInv'
  <2>1. op' = op /\ met' = met /\ unsaved' = unsaved
    BY <1>8 DEF CheckAppends, CheckSorts, listHistory
  <2> QED
    BY <1>1, <2>1, MeetKept DEF Busy
<1>9. ASSUME NEW k \in Checks, CheckEnds(k) PROVE MeetInv'
  <2>1. op' = op /\ met' = met \ {k} /\ unsaved' = unsaved
    BY <1>9 DEF CheckEnds, Parts
  <2>2. k \notin Sessions
    BY ListBoundsAssumption
  <2> QED
    BY <1>1, <2>1, <2>2, MeetKept DEF Busy
<1> QED
  BY <1>2, <1>3, <1>4, <1>5, <1>6, <1>7, <1>8, <1>9 DEF ListStep
-----------------------------------------------------------------------------
(* Those who have not met stay clean.                                      *)

ListInv == ShapeInv /\ MeetInv /\ CleanInv

\* A session stores to these slots at most, and the checks it has not met use none
\* of them.
LEMMA SessionClean ==
  ASSUME ShapeInv, CleanInv, NEW s \in Sessions, \A q \in Sessions : q # s => op'[q] = op[q],
         check' = check, due' = due, heap' \in Memory, met \ {s} \subseteq met',
         NEW array, NEW slots, Differs(heap, heap', array, slots),
         \A k \in Checks \ met' : At(check[k]) /\ check[k].base.array = array =>
           /\ SoundIn(heap, check[k].base) => \A i \in 1..check[k].base.len : i \notin slots
           /\ check[k].phase = "appended" =>
                \A i \in 1..WideCount : check[k].base.len + i \notin slots,
         Calm' => \A k \in Checks \ met' : Behind(heap, check[k], rules'),
         \A k \in Checks \ met' : Beside(heap, op'[s], check[k]),
         \A q \in Sessions \ met' : q # s => op[q].phase = "idle",
         s \notin met' => Clean(heap', op'[s], rules')
  PROVE  CleanInv'
<1>1. ListTypeOK /\ Arrays
  BY DEF ShapeInv
<1>2. \A k \in Checks \ met' : k \in Checks \ met
  BY ListBoundsAssumption
<1>3. \A k \in Checks : check[k] \in Check /\ check[k].base \in Slice
                        /\ check[k].base.array \in DOMAIN heap
  BY <1>1, CheckParts DEF Arrays
<1>4. heap \in Memory
  BY <1>1, HeapParts DEF Memory
<1>5. ASSUME NEW q \in Sessions \ met' PROVE Clean(heap', op'[q], rules')
  <2>1. CASE q = s
    BY <1>5, <2>1
  <2>2. CASE q # s
    <3>1. op'[q].phase = "idle"
      BY <1>5, <2>2
    <3> QED
      BY <3>1 DEF Clean
  <2> QED
    BY <2>1, <2>2
<1>6. ASSUME NEW k \in Checks \ met' PROVE Reads(heap', check[k], due[k])
  <2>1. Reads(heap, check[k], due[k])
    BY <1>2, <1>6 DEF CleanInv
  <2>2. At(check[k]) /\ SoundIn(heap, check[k].base) /\ check[k].base.array = array =>
          \A i \in 1..check[k].base.len : i \notin slots
    BY <1>6
  <2>3. ASSUME check[k].phase = "appended", NEW i \in 1..WideCount
        PROVE  heap'[check[k].base.array][check[k].base.len + i] = Wide[i]
    <3>1. /\ RoomIn(heap, check[k].base)
          /\ heap[check[k].base.array][check[k].base.len + i] = Wide[i]
      BY <2>1, <2>3 DEF Reads
    <3>2. PICK a \in DOMAIN heap, n \in Nat : a = check[k].base.array /\ n = check[k].base.len
      BY <1>3, SliceParts
    <3>3. PICK m \in Nat : m = Len(heap[a])
      BY <1>1, HeapParts
    <3>4. n + i \in 1..Len(heap[a])
      <4>1. PICK w \in Nat : w = WideCount
        BY ListBoundsAssumption
      <4>2. n + w <= m
        BY <3>1, <3>2, <3>3, <4>1 DEF RoomIn
      <4> QED
        BY <3>3, <4>1, <4>2
    <3>5. ~(a = array /\ n + i \in slots)
      BY <1>6, <2>3, <3>2 DEF At
    <3>6. heap'[a][n + i] = heap[a][n + i]
      BY <3>4, <3>5 DEF Differs
    <3> QED
      BY <3>1, <3>2, <3>6
  <2> QED
    BY <1>3, <1>4, <1>6, <2>1, <2>2, <2>3, ReadsKept
<1>7. ASSUME Calm', NEW k \in Checks \ met' PROVE Behind(heap', check[k], rules')
  <2>1. Behind(heap, check[k], rules')
    BY <1>7
  <2> QED
    BY <1>3, <1>7, <2>1, BehindKept
<1>8. ASSUME NEW k \in Checks \ met', NEW x \in Checks \ met'
      PROVE  Apart(heap', check[k], check[x])
  <2>1. Apart(heap, check[k], check[x])
    BY <1>2, <1>8 DEF CleanInv
  <2> QED
    BY <1>3, <1>8, <2>1, ApartKept
<1>9. ASSUME NEW q \in Sessions, NEW k \in Checks \ met' PROVE Beside(heap', op'[q], check[k])
  <2>1. Beside(heap, op'[q], check[k])
    <3>1. CASE q = s
      BY <1>9, <3>1
    <3>2. CASE q # s
      <4>1. op'[q] = op[q]
        BY <3>2
      <4> QED
        BY <1>2, <1>9, <4>1 DEF CleanInv
    <3> QED
      BY <3>1, <3>2
  <2> QED
    BY <1>3, <1>9, <2>1, BesideKept
<1> QED
  BY <1>5, <1>6, <1>7, <1>8, <1>9 DEF CleanInv

\* A check goes on, and the others read what they read.
LEMMA CheckClean ==
  ASSUME ShapeInv, CleanInv, NEW k \in Checks, op' = op, rules' = rules,
         \A y \in Checks : y # k => check'[y] = check[y] /\ due'[y] = due[y],
         check'[k] \in Check, check'[k].base.array \in DOMAIN heap,
         heap' \in Memory, met \ {k} \subseteq met',
         NEW array, NEW slots, Differs(heap, heap', array, slots),
         \A y \in Checks \ met' : y # k => Reads(heap', check[y], due[y]),
         k \notin met' =>
           /\ Reads(heap', check'[k], due'[k])
           /\ Calm => Behind(heap, check'[k], rules)
           /\ \A y \in Checks \ met' : y # k => Apart(heap, check'[k], check[y])
                                               /\ Apart(heap, check[y], check'[k])
           /\ \A s \in Sessions : Beside(heap, op[s], check'[k]),
         \A s \in Sessions \ met' : Clean(heap', op[s], rules)
  PROVE  CleanInv'
<1>1. ListTypeOK /\ Arrays
  BY DEF ShapeInv
<1>2. \A y \in Checks \ met' : y # k => y \in Checks \ met
  OBVIOUS
<1>3. \A y \in Checks : check[y].base.array \in DOMAIN heap /\ check'[y].base.array \in DOMAIN heap
  BY <1>1 DEF Arrays
<1>4. Calm' => Calm
  <2>1. Storing' = Storing /\ k \notin Storing
    BY ListBoundsAssumption DEF Storing
  <2> QED
    BY <2>1 DEF Calm
<1>5. \A s \in Sessions \ met' : Clean(heap', op'[s], rules')
  OBVIOUS
<1>6. \A y \in Checks \ met' : Reads(heap', check'[y], due'[y])
  OBVIOUS
<1>7. ASSUME Calm', NEW y \in Checks \ met' PROVE Behind(heap', check'[y], rules')
  <2>1. Behind(heap, check'[y], rules)
    <3>1. CASE y = k
      BY <1>4, <1>7, <3>1
    <3>2. CASE y # k
      BY <1>2, <1>4, <1>7, <3>2 DEF CleanInv
    <3> QED
      BY <3>1, <3>2
  <2> QED
    BY <1>3, <1>7, <2>1, BehindKept
<1>8. ASSUME NEW y \in Checks \ met', NEW x \in Checks \ met'
      PROVE  Apart(heap', check'[y], check'[x])
  <2>1. CASE y = x
    <3>1. check'[y] \in Check
      BY <1>1, CheckParts
    <3>2. check'[y].base \in Slice
      BY <3>1 DEF Check
    <3>3. check'[y].base.len <= check'[y].base.len
      BY <3>2, SliceParts
    <3> QED
      BY <2>1, <3>3 DEF Apart, Fits
  <2>2. CASE y # x
    <3>1. Apart(heap, check'[y], check'[x])
      <4>1. CASE y = k
        BY <1>8, <2>2, <4>1
      <4>2. CASE x = k
        BY <1>8, <2>2, <4>2
      <4>3. CASE y # k /\ x # k
        BY <1>2, <1>8, <4>3 DEF CleanInv
      <4> QED
        BY <4>1, <4>2, <4>3
    <3> QED
      BY <1>3, <1>8, <3>1, ApartKept
  <2> QED
    BY <2>1, <2>2
<1>9. ASSUME NEW s \in Sessions, NEW y \in Checks \ met' PROVE Beside(heap', op'[s], check'[y])
  <2>1. Beside(heap, op[s], check'[y])
    <3>1. CASE y = k
      BY <1>9, <3>1
    <3>2. CASE y # k
      BY <1>2, <1>9, <3>2 DEF CleanInv
    <3> QED
      BY <3>1, <3>2
  <2> QED
    BY <1>3, <1>9, <2>1, BesideKept
<1> QED
  BY <1>5, <1>6, <1>7, <1>8, <1>9 DEF CleanInv

\* Who is at work and has met nobody is the only session at work.
LEMMA Alone ==
  ASSUME MeetInv, NEW s \in Sessions, s \notin met, Busy(s)
  PROVE  (\A q \in Sessions : q # s => ~Busy(q)) /\ Storing \subseteq {s} /\ Calm
<1>1. \A q \in Sessions : q # s => ~Busy(q)
  BY DEF MeetInv
<1>2. Storing \subseteq {s}
  BY <1>1 DEF Storing, Busy
<1> QED
  BY <1>1, <1>2 DEF Calm

LEMMA OthersIdle ==
  ASSUME MeetInv, NEW s \in Sessions, Busy(s), met \ {s} \subseteq met'
  PROVE  \A q \in Sessions \ met' : q # s => op[q].phase = "idle"
BY DEF MeetInv, Busy

\* A step that is not the start of a store leaves those calm who were.
LEMMA CalmBefore ==
  ASSUME Calm', met \subseteq met', NEW s \in Sessions, op[s].phase # "assigning",
         \A q \in Sessions : q # s => op'[q] = op[q]
  PROVE  Calm
<1>1. Storing \subseteq Storing'
  BY DEF Storing
<1> QED
  BY <1>1 DEF Calm

LEMMA LoadClean ==
  ASSUME ListInv, NEW s \in Sessions, ~Busy(s), NEW b \in Loads, NEW r \in SlotRule,
         NEW d \in Given \cup {{}}, NEW p \in {"adding", "deleting"},
         op' = [op EXCEPT ![s] = Loaded(p, b, r, d)],
         Joins(s, OthersBusy(s)), UNCHANGED <<heap, rules, check, due>>
  PROVE  CleanInv'
<1>1. ShapeInv /\ MeetInv /\ CleanInv /\ ListTypeOK /\ Arrays
  BY DEF ListInv, ShapeInv
<1>2. b \in Slice
  BY <1>1, LoadsShape
<1> DEFINE x == Loaded(p, b, r, d)
<1>3. x \in Op /\ x = [phase |-> p, base |-> b, new |-> NoRules, rule |-> r, gone |-> d, late |-> FALSE]
  BY <1>2, LoadedOp
<1>4. op' = [op EXCEPT ![s] = x]
  OBVIOUS
<1> HIDE DEF x
<1>5. x.phase = p /\ x.base = b
  BY <1>3
<1>6. op'[s] = x /\ \A q \in Sessions : q # s => op'[q] = op[q]
  BY <1>1, <1>3, <1>4, OpSet
<1>7. /\ met \subseteq met'
      /\ OthersBusy(s) # {} => OthersBusy(s) \subseteq met' /\ s \in met'
  BY <1>1, JoinsShape DEF ListTypeOK
<1>8. \A q \in Sessions \ met' : q # s => op[q].phase = "idle"
  BY <1>7 DEF OthersBusy, Busy
<1>9. ASSUME Calm', NEW k \in Checks \ met' PROVE Behind(heap, check[k], rules')
  <2>1. op[s].phase # "assigning"
    BY DEF Busy
  <2>2. Calm
    BY <1>6, <1>7, <1>9, <2>1, CalmBefore
  <2> QED
    BY <1>1, <1>7, <1>9, <2>2 DEF CleanInv
<1>10. \A k \in Checks \ met' : Beside(heap, op'[s], check[k])
  BY <1>5, <1>6 DEF Beside
<1>11. ASSUME s \notin met' PROVE Clean(heap', op'[s], rules')
  <2>1. OthersBusy(s) = {}
    BY <1>7, <1>11
  <2>2. Storing = {}
    BY <2>1 DEF Storing, OthersBusy, Busy
  <2>3. b = rules
    BY <1>1, <2>2, CalmLoads
  <2> QED
    BY <1>5, <1>6, <2>3 DEF Clean
<1>12. heap' \in Memory /\ Differs(heap, heap', 1, {})
  BY <1>1, SameDiffers
<1>13. check' = check /\ due' = due /\ met \ {s} \subseteq met'
  BY <1>7
<1> QED
  BY <1>1, <1>6, <1>8, <1>9, <1>10, <1>11, <1>12, <1>13, SessionClean

\* A session that goes idle, or saves, leaves all as it was.
LEMMA IdleClean ==
  ASSUME ListInv, NEW s \in Sessions, Busy(s), op[s].phase # "assigning",
         op' = [op EXCEPT ![s] = NoOp], met' = met \ {s}, UNCHANGED <<heap, rules, check, due>>
  PROVE  CleanInv'
<1>1. ShapeInv /\ MeetInv /\ CleanInv /\ ListTypeOK /\ Arrays
  BY DEF ListInv, ShapeInv
<1>2. op'[s] = NoOp /\ \A q \in Sessions : q # s => op'[q] = op[q]
  BY <1>1, NoOpType, OpSet
<1>3. op'[s].phase = "idle"
  BY <1>2, NoOpType
<1>4. \A q \in Sessions \ met' : q # s => op[q].phase = "idle"
  BY <1>1, OthersIdle
<1>5. Calm' => Calm
  <2>1. Storing' = Storing /\ s \notin Storing
    BY <1>2, <1>3 DEF Storing
  <2> QED
    BY <2>1 DEF Calm
<1>6. \A k \in Checks \ met' : k \in Checks \ met
  BY ListBoundsAssumption
<1>7. Calm' => \A k \in Checks \ met' : Behind(heap, check[k], rules')
  BY <1>1, <1>5, <1>6 DEF CleanInv
<1>8. \A k \in Checks \ met' : Beside(heap, op'[s], check[k])
  BY <1>3 DEF Beside
<1>9. Clean(heap', op'[s], rules')
  BY <1>3 DEF Clean
<1>10. heap' \in Memory /\ Differs(heap, heap', 1, {})
  BY <1>1, SameDiffers
<1>11. check' = check /\ due' = due /\ met \ {s} \subseteq met'
  OBVIOUS
<1> QED
  BY <1>1, <1>2, <1>4, <1>7, <1>8, <1>9, <1>10, <1>11, SessionClean

\* One slot more, stored.
LEMMA StoredPart ==
  ASSUME NEW h \in Memory, NEW b \in Slice, b.array \in DOMAIN h, NEW r \in SlotRule,
         NEW n \in Slice, n.array = b.array, n.len = b.len + 1, SoundIn(h, n),
         NEW g, g = Stored(h, n.array, n.len, r)
  PROVE  Part(g, b) = Part(h, b) /\ Part(g, n) = Append(Part(h, b), r)
<1>1. n.len \in Nat /\ b.len \in Nat
  BY SliceParts
<1>2. /\ g \in Memory /\ Len(g) = Len(h) /\ Differs(h, g, n.array, {n.len})
      /\ n.len \in 1..Len(h[n.array]) => g[n.array][n.len] = r
  <2>1. PICK a \in DOMAIN h, l \in Nat : a = n.array /\ l = n.len
    BY <1>1
  <2>2. g = Stored(h, a, l, r)
    BY <2>1
  <2>3. /\ g \in Memory /\ Len(g) = Len(h) /\ Differs(h, g, a, {l})
        /\ l \in 1..Len(h[a]) => g[a][l] = r
    BY <2>2, StoreDiffers
  <2> QED
    BY <2>1, <2>3
<1>3. PICK m \in Nat : m = Len(h[b.array])
  <2>1. h[b.array] \in Seq(SlotRule)
    BY DEF Memory
  <2> QED
    BY <2>1
<1>4. b.len + 1 <= m
  BY <1>3 DEF SoundIn
<1>5. Part(g, b) = Part(h, b)
  <2>1. \A i \in 1..b.len : i \notin {n.len}
    BY <1>1
  <2> QED
    BY <1>2, <2>1, SamePart
<1>6. b.array \in DOMAIN g /\ Len(g[b.array]) = m /\ g[n.array][n.len] = r
  <2>1. b.array \in DOMAIN g /\ Len(g[b.array]) = m
    BY <1>2, <1>3 DEF Differs
  <2>2. n.len \in 1..Len(h[n.array])
    BY <1>1, <1>3, <1>4
  <2> QED
    BY <1>2, <2>1, <2>2
<1>7. /\ Part(g, n) \in Seq(SlotRule) /\ Len(Part(g, n)) = b.len + 1
      /\ \A i \in 1..(b.len + 1) : Part(g, n)[i] = g[b.array][i]
  <2>1. n.array \in DOMAIN g /\ n.len <= Len(g[n.array])
    BY <1>1, <1>4, <1>6
  <2>2. Part(g, n) \in Seq(SlotRule) /\ Len(Part(g, n)) = n.len
        /\ \A i \in 1..Len(Part(g, n)) : Part(g, n)[i] = g[n.array][i]
    BY <1>2, <2>1, PartShape
  <2> QED
    BY <2>2
<1>8. /\ Part(g, b) \in Seq(SlotRule) /\ Len(Part(g, b)) = b.len
      /\ \A i \in 1..b.len : Part(g, b)[i] = g[b.array][i]
  <2>1. b.len <= Len(g[b.array])
    BY <1>1, <1>4, <1>6
  <2>2. Part(g, b) \in Seq(SlotRule) /\ Len(Part(g, b)) = b.len
        /\ \A i \in 1..Len(Part(g, b)) : Part(g, b)[i] = g[b.array][i]
    BY <1>2, <1>6, <2>1, PartShape
  <2> QED
    BY <2>2
<1>9. PICK p \in Seq(SlotRule) : p = Part(g, b)
  BY <1>8
<1>10. PICK l \in Nat : l = b.len /\ Len(p) = l
  BY <1>1, <1>8, <1>9
<1>11. /\ Append(p, r) \in Seq(SlotRule) /\ Len(Append(p, r)) = l + 1
       /\ \A i \in 1..(l + 1) : Append(p, r)[i] = IF i = l + 1 THEN r ELSE p[i]
  BY <1>10
<1>12. \A i \in 1..(l + 1) : Part(g, n)[i] = Append(p, r)[i]
  <2> SUFFICES ASSUME NEW i \in 1..(l + 1) PROVE Part(g, n)[i] = Append(p, r)[i]
    OBVIOUS
  <2>1. CASE i = l + 1
    BY <1>6, <1>7, <1>10, <1>11, <2>1
  <2>2. CASE i # l + 1
    <3>1. i \in 1..l
      BY <2>2
    <3> QED
      BY <1>7, <1>8, <1>9, <1>10, <1>11, <2>2, <3>1
  <2> QED
    BY <2>1, <2>2
<1>13. Part(g, n) = Append(p, r)
  <2>1. Part(g, n) \in Seq(SlotRule) /\ Append(p, r) \in Seq(SlotRule)
        /\ Len(Part(g, n)) = l + 1 /\ Len(Append(p, r)) = l + 1
    BY <1>7, <1>10, <1>11
  <2> QED
    BY <1>12, <2>1, SeqEqual
<1> QED
  BY <1>5, <1>9, <1>13

\* Whoever uses the slot that is stored to has met the one who stores.
LEMMA Spared ==
  ASSUME ListInv, NEW s \in Sessions, Busy(s), NEW n \in Slice, Tramples(s, n.array),
         s \notin met => n.array = rules.array /\ n.len = rules.len + 1,
         NEW k \in Checks \ met', At(check[k])
  PROVE  /\ k \notin met
         /\ check[k].base.array = n.array =>
              /\ SoundIn(heap, check[k].base) => check[k].base.len < n.len
              /\ ~RoomIn(heap, check[k].base)
<1>1. ShapeInv /\ MeetInv /\ CleanInv /\ ListTypeOK /\ Arrays
  BY DEF ListInv, ShapeInv
<1>2. /\ met \subseteq met'
      /\ Borrowers(n.array) \cup Reached(s) # {} => Borrowers(n.array) \cup Reached(s) \subseteq met'
  <2>1. unsaved \in BOOLEAN /\ Joins(s, Borrowers(n.array) \cup Reached(s))
    BY <1>1 DEF ListTypeOK, Tramples
  <2> QED
    BY <2>1, JoinsShape
<1>3. k \notin Borrowers(n.array) /\ k \notin Reached(s) /\ k \notin met
  BY <1>2
<1>4. k \in AtWork \ {s}
  BY ListBoundsAssumption DEF AtWork, At
<1>5. s \notin met
  BY <1>3, <1>4 DEF Reached
<1>6. Calm
  BY <1>1, <1>5, Alone
<1>7. Behind(heap, check[k], rules)
  BY <1>1, <1>3, <1>6 DEF CleanInv
<1>8. ASSUME check[k].base.array = n.array
      PROVE  /\ SoundIn(heap, check[k].base) => check[k].base.len < n.len
             /\ ~RoomIn(heap, check[k].base)
  <2>1. ~RoomIn(heap, check[k].base)
    BY <1>3, <1>8 DEF Borrowers, At, HasRoom, RoomIn, Cap
  <2>2. SoundIn(heap, check[k].base) => check[k].base.len <= rules.len
    BY <1>5, <1>7, <1>8 DEF Behind, Fits
  <2>3. PICK l \in Nat, m \in Nat : l = check[k].base.len /\ m = rules.len
    BY <1>1, CheckParts, SliceParts DEF ListTypeOK
  <2>4. n.len = m + 1
    BY <1>5, <2>3
  <2>5. SoundIn(heap, check[k].base) => l < m + 1
    BY <2>2, <2>3
  <2> QED
    BY <2>1, <2>3, <2>4, <2>5
<1> QED
  BY <1>3, <1>8

LEMMA AddInPlaceClean ==
  ASSUME ListInv, NEW s \in Sessions, AddInPlace(s)
  PROVE  CleanInv'
<1>1. ShapeInv /\ MeetInv /\ CleanInv /\ ListTypeOK /\ Arrays
  BY DEF ListInv, ShapeInv
<1>2. op[s] \in Op /\ op[s].base \in Slice /\ op[s].rule \in SlotRule
      /\ op[s].base.array \in DOMAIN heap
  BY <1>1, OpParts DEF Arrays
<1> DEFINE new == [op[s].base EXCEPT !.len = @ + 1]
<1>3. /\ new \in Slice /\ new.array = op[s].base.array /\ new.len = op[s].base.len + 1
      /\ new.len \in Nat
  BY <1>2, Longer, SliceParts
<1>4. PICK after \in BOOLEAN :
        /\ op' = [op EXCEPT ![s].phase = "assigning", ![s].new = new, ![s].late = after]
        /\ IF after THEN UNCHANGED <<heap, met, unsaved>>
           ELSE heap' = PutLast(new, op[s].rule) /\ Tramples(s, new.array)
  BY Zenon DEF AddInPlace
<1>5. /\ op[s].phase = "adding" /\ Busy(s) /\ op[s].base.len < Cap(op[s].base)
      /\ check' = check /\ due' = due /\ rules' = rules
  BY DEF AddInPlace, Busy
<1> HIDE DEF new
<1> DEFINE x == Moved(op[s], "assigning", new, after)
<1>6. op' = [op EXCEPT ![s] = x]
  <2>1. op' = Assigning(s, new, after)
    BY <1>4, Zenon DEF Assigning
  <2> QED
    BY <1>1, <2>1, ToAssigning
<1>7. x \in Op /\ x.phase = "assigning" /\ x.new = new /\ x.rule = op[s].rule
  <2>1. x.phase = "assigning" /\ x.base = op[s].base /\ x.new = new /\ x.rule = op[s].rule
    BY DEF Moved
  <2> QED
    BY <1>2, <1>3, <1>4, <2>1 DEF Moved, Op
<1>8. x.late = after
  BY DEF Moved
<1> HIDE DEF x
<1>9. op'[s] = x /\ \A q \in Sessions : q # s => op'[q] = op[q]
  BY <1>1, <1>6, <1>7, OpSet
<1>10. heap \in Memory
  BY <1>1, HeapParts DEF Memory
<1>11. SoundIn(heap, new)
  <2>1. PICK l \in Nat, m \in Nat : l = op[s].base.len /\ m = Len(heap[op[s].base.array])
    BY <1>1, <1>2, SliceParts, HeapParts
  <2>2. l < m
    BY <1>5, <2>1 DEF Cap
  <2> QED
    BY <1>3, <2>1, <2>2 DEF SoundIn
<1>12. s \notin met => op[s].base = rules
  BY <1>1, <1>5 DEF CleanInv, Clean
<1>13. met \subseteq met'
  <2>1. CASE after
    BY <1>4, <2>1
  <2>2. CASE ~after
    BY <1>1, <1>4, <2>2, JoinsShape DEF Tramples, ListTypeOK
  <2> QED
    BY <2>1, <2>2
<1>14. \A q \in Sessions \ met' : q # s => op[q].phase = "idle"
  BY <1>1, <1>5, <1>13, OthersIdle
<1>15. ASSUME Calm', NEW k \in Checks \ met' PROVE Behind(heap, check[k], rules')
  <2>1. Calm
    BY <1>5, <1>9, <1>13, <1>15, CalmBefore
  <2> QED
    BY <1>1, <1>5, <1>13, <1>15, <2>1 DEF CleanInv
<1>16. CASE after
  <2>1. heap' = heap /\ met' = met
    BY <1>4, <1>16
  <2>2. heap' \in Memory /\ Differs(heap, heap', 1, {})
    BY <1>1, <2>1, SameDiffers
  <2>3. \A k \in Checks \ met' : Beside(heap, op'[s], check[k])
    BY <1>8, <1>9, <1>16 DEF Beside
  <2>4. ASSUME s \notin met' PROVE Clean(heap', op'[s], rules')
    <3>1. new.array = rules.array /\ new.len = rules.len + 1
      BY <1>3, <1>12, <2>1, <2>4
    <3> QED
      BY <1>5, <1>7, <1>8, <1>9, <1>11, <1>16, <2>1, <3>1 DEF Clean
  <2> QED
    BY <1>1, <1>5, <1>9, <1>13, <1>14, <1>15, <2>2, <2>3, <2>4, SessionClean
<1>17. CASE ~after
  <2>1. Tramples(s, new.array) /\ heap' = Stored(heap, new.array, new.len, op[s].rule)
    BY <1>4, <1>17 DEF PutLast, Stored
  <2>2. heap' \in Memory /\ Differs(heap, heap', new.array, {new.len})
    <3>1. new.array \in DOMAIN heap
      BY <1>2, <1>3
    <3> QED
      BY <1>2, <1>3, <1>10, <2>1, <3>1, StoreDiffers
  <2>3. s \notin met => new.array = rules.array /\ new.len = rules.len + 1
    BY <1>3, <1>12
  <2>4. ASSUME NEW k \in Checks \ met', At(check[k]), check[k].base.array = new.array
        PROVE  /\ SoundIn(heap, check[k].base) => check[k].base.len < new.len
               /\ ~RoomIn(heap, check[k].base) /\ check[k].phase # "appended"
    <3>1. /\ k \notin met /\ ~RoomIn(heap, check[k].base)
          /\ SoundIn(heap, check[k].base) => check[k].base.len < new.len
      BY <1>3, <1>5, <2>1, <2>3, <2>4, Spared
    <3>2. Reads(heap, check[k], due[k])
      BY <1>1, <3>1 DEF CleanInv
    <3> QED
      BY <3>1, <3>2 DEF Reads
  <2>5. \A k \in Checks \ met' : At(check[k]) /\ check[k].base.array = new.array =>
          /\ SoundIn(heap, check[k].base) => \A i \in 1..check[k].base.len : i \notin {new.len}
          /\ check[k].phase = "appended" =>
               \A i \in 1..WideCount : check[k].base.len + i \notin {new.len}
    <3> SUFFICES ASSUME NEW k \in Checks \ met', At(check[k]), check[k].base.array = new.array
                 PROVE  /\ SoundIn(heap, check[k].base) =>
                             \A i \in 1..check[k].base.len : i \notin {new.len}
                        /\ check[k].phase # "appended"
      OBVIOUS
    <3>1. PICK l \in Nat : l = check[k].base.len
      BY <1>1, CheckParts, SliceParts
    <3>2. SoundIn(heap, check[k].base) => l < new.len
      BY <2>4, <3>1
    <3>3. SoundIn(heap, check[k].base) => \A i \in 1..l : i # new.len
      BY <1>3, <3>2
    <3> QED
      BY <2>4, <3>1, <3>3
  <2>6. ASSUME NEW k \in Checks \ met' PROVE Beside(heap, op'[s], check[k])
    <3>1. ASSUME At(check[k]), check[k].base.array = new.array, SoundIn(heap, check[k].base)
          PROVE  check[k].base.len <= new.len
      <4>1. PICK l \in Nat : l = check[k].base.len
        BY <1>1, CheckParts, SliceParts
      <4>2. l < new.len
        BY <2>4, <3>1, <4>1
      <4> QED
        BY <1>3, <4>1, <4>2
    <3> QED
      BY <1>7, <1>9, <2>4, <3>1 DEF Beside, Behind, Fits
  <2>7. ASSUME s \notin met' PROVE Clean(heap', op'[s], rules')
    <3>1. rules = op[s].base /\ s \notin met
      BY <1>12, <1>13, <2>7
    <3>2. Part(heap', rules) = Part(heap, rules)
          /\ Part(heap', new) = Append(Part(heap, rules), op[s].rule)
      BY <1>2, <1>3, <1>10, <1>11, <2>1, <3>1, StoredPart
    <3>3. SoundIn(heap', new)
      BY <1>2, <1>3, <1>11, <2>2 DEF SoundIn, Differs
    <3> QED
      BY <1>5, <1>7, <1>8, <1>9, <1>17, <3>2, <3>3 DEF Clean
  <2> QED
    BY <1>1, <1>5, <1>9, <1>13, <1>14, <1>15, <2>2, <2>5, <2>6, <2>7, SessionClean
<1> QED
  BY <1>16, <1>17

\* What the list of a clean session is to become.
Meant(s, list) ==
  \/ list = Append(Part(heap, rules), op[s].rule)
  \/ /\ list = Book!Without(Part(heap, rules), op[s].gone)
     /\ \E i \in 1..Len(Part(heap, rules)) : Part(heap, rules)[i] \in op[s].gone

\* A session comes to store, and has not touched what was there.
LEMMA AssigningClean ==
  ASSUME ShapeInv, MeetInv, CleanInv, NEW s \in Sessions, op[s].phase \in {"adding", "deleting"},
         \A q \in Sessions : q # s => op'[q] = op[q],
         check' = check, due' = due, met' = met, rules' = rules,
         heap' \in Memory, Differs(heap, heap', 1, {}),
         \A k \in Checks \ met : Beside(heap, op'[s], check[k]),
         s \notin met => Clean(heap', op'[s], rules)
  PROVE  CleanInv'
<1>1. Busy(s) /\ met \ {s} \subseteq met'
  BY DEF Busy
<1>2. \A q \in Sessions \ met' : q # s => op[q].phase = "idle"
  BY <1>1, OthersIdle
<1>3. ASSUME Calm', NEW k \in Checks \ met' PROVE Behind(heap, check[k], rules')
  <2>1. Calm
    BY <1>3, CalmBefore
  <2> QED
    BY <1>3, <2>1 DEF CleanInv
<1>4. \A k \in Checks \ met' : Beside(heap, op'[s], check[k])
  OBVIOUS
<1>5. s \notin met' => Clean(heap', op'[s], rules')
  OBVIOUS
<1> QED
  BY <1>1, <1>2, <1>3, <1>4, <1>5, SessionClean

LEMMA NewArrayClean ==
  ASSUME ListInv, NEW s \in Pending, NEW list \in Seq(SlotRule), NEW cap \in Nat, cap >= Len(list),
         heap' = Append(heap, Padded(list, cap)),
         op' = [op EXCEPT ![s].phase = "assigning",
                          ![s].new = [array |-> Len(heap) + 1, len |-> Len(list)]],
         UNCHANGED <<rules, check, added, file, panicked, changes, listHistory>>,
         s \notin met => Meant(s, list)
  PROVE  CleanInv'
<1>1. ShapeInv /\ MeetInv /\ CleanInv /\ ListTypeOK /\ Arrays /\ LateOps
  BY DEF ListInv, ShapeInv
<1>2. s \in Sessions /\ op[s] \in Op /\ op[s].phase \in {"adding", "deleting"} /\ ~op[s].late
  BY <1>1, OpParts DEF Pending, LateOps
<1>3. PICK new : new = [array |-> Len(heap) + 1, len |-> Len(list)]
  OBVIOUS
<1>4. /\ heap \in Memory /\ heap' \in Memory /\ Differs(heap, heap', 1, {})
      /\ new.array \notin DOMAIN heap /\ new.len <= Len(heap'[new.array])
      /\ Part(heap', new) = list
  <2>1. heap \in Memory
    BY <1>1, HeapParts DEF Memory
  <2> QED
    BY <1>3, <2>1, NewDiffers
<1> DEFINE x == Moved(op[s], "assigning", new, op[s].late)
<1>5. op' = [op EXCEPT ![s] = x]
  BY <1>1, <1>2, <1>3, ToAssigningOnly
<1>6. x.phase = "assigning" /\ x.new = new /\ x.rule = op[s].rule /\ x.gone = op[s].gone /\ ~x.late
  BY <1>2 DEF Moved
<1> HIDE DEF x
<1>7. op'[s] = x /\ \A q \in Sessions : q # s => op'[q] = op[q]
  BY <1>1, <1>2, <1>5 DEF ListTypeOK
<1>8. UNCHANGED <<check, due, met, rules>>
  BY DEF listHistory
<1>11. ASSUME NEW k \in Checks \ met' PROVE Beside(heap, op'[s], check[k])
  <2>1. check[k].base.array # new.array
    BY <1>1, <1>4 DEF Arrays
  <2> QED
    BY <1>6, <1>7, <2>1 DEF Beside, Behind, Fits
<1>12. ASSUME s \notin met' PROVE Clean(heap', op'[s], rules')
  <2>1. Part(heap', rules) = Part(heap, rules)
    <3>1. rules \in Slice /\ rules.array \in DOMAIN heap
      BY <1>1 DEF ListTypeOK, Arrays
    <3> QED
      BY <1>4, <3>1, SamePart
  <2>2. Meant(s, list)
    BY <1>8, <1>12
  <2>3. \/ Part(heap', new) = Append(Part(heap', rules), x.rule)
        \/ /\ Part(heap', new) = Book!Without(Part(heap', rules), x.gone)
           /\ \E i \in 1..Len(Part(heap', rules)) : Part(heap', rules)[i] \in x.gone
    BY <1>4, <1>6, <2>1, <2>2 DEF Meant
  <2>4. SoundIn(heap', new)
    BY <1>4 DEF SoundIn
  <2> QED
    BY <1>6, <1>7, <1>8, <2>3, <2>4 DEF Clean
<1>13. s \notin met => Clean(heap', op'[s], rules)
  BY <1>8, <1>12
<1>14. \A k \in Checks \ met : Beside(heap, op'[s], check[k])
  BY <1>8, <1>11
<1>15. heap' \in Memory /\ Differs(heap, heap', 1, {})
  BY <1>4
<1> QED
  BY <1>1, <1>2, <1>7, <1>8, <1>13, <1>14, <1>15, AssigningClean

\* The list has become empty.
LEMMA EmptiedClean ==
  ASSUME ListInv, NEW s \in Pending, heap' = heap,
         op' = [op EXCEPT ![s].phase = "assigning", ![s].new = NoRules],
         UNCHANGED <<rules, check, added, file, panicked, changes, listHistory>>,
         s \notin met => Meant(s, <<>>)
  PROVE  CleanInv'
<1>1. ShapeInv /\ MeetInv /\ CleanInv /\ ListTypeOK /\ Arrays /\ LateOps
  BY DEF ListInv, ShapeInv
<1>2. s \in Sessions /\ op[s] \in Op /\ op[s].phase \in {"adding", "deleting"} /\ ~op[s].late
  BY <1>1, OpParts DEF Pending, LateOps
<1>3. /\ heap \in Memory /\ heap' \in Memory /\ Differs(heap, heap', 1, {})
      /\ 1 \in DOMAIN heap /\ heap[1] = <<>> /\ Len(heap[1]) = 0
  BY <1>1, SameDiffers, HeapParts DEF Arrays
<1>4. Part(heap, NoRules) = <<>>
  <2>1. Part(heap, NoRules) \in Seq(SlotRule) /\ Len(Part(heap, NoRules)) = 0
    BY <1>3, NoRulesType, PartShape
  <2> QED
    BY <2>1
<1> DEFINE x == Moved(op[s], "assigning", NoRules, op[s].late)
<1>5. op' = [op EXCEPT ![s] = x]
  BY <1>1, <1>2, ToAssigningOnly
<1>6. x.phase = "assigning" /\ x.new = NoRules /\ x.rule = op[s].rule /\ x.gone = op[s].gone /\ ~x.late
  BY <1>2 DEF Moved
<1> HIDE DEF x
<1>7. op'[s] = x /\ \A q \in Sessions : q # s => op'[q] = op[q]
  BY <1>1, <1>2, <1>5 DEF ListTypeOK
<1>8. UNCHANGED <<check, due, met, rules>>
  BY DEF listHistory
<1>11. ASSUME NEW k \in Checks \ met' PROVE Beside(heap, op'[s], check[k])
  <2>1. check[k].base \in Slice
    BY <1>1, CheckParts
  <2>2. check[k].base.len \in Nat
    BY <2>1, SliceParts
  <2>3. ASSUME check[k].base.array = 1, SoundIn(heap, check[k].base)
        PROVE  check[k].base.len <= 0
    BY <1>3, <2>3 DEF SoundIn
  <2> QED
    BY <1>6, <1>7, <2>2, <2>3, NoRulesType DEF Beside, Behind, Fits
<1>12. ASSUME s \notin met' PROVE Clean(heap', op'[s], rules')
  <2>1. Meant(s, <<>>)
    BY <1>8, <1>12
  <2>2. SoundIn(heap', NoRules)
    BY <1>3, NoRulesType DEF SoundIn
  <2>3. \/ Part(heap', NoRules) = Append(Part(heap', rules), x.rule)
        \/ /\ Part(heap', NoRules) = Book!Without(Part(heap', rules), x.gone)
           /\ \E i \in 1..Len(Part(heap', rules)) : Part(heap', rules)[i] \in x.gone
    BY <1>4, <1>6, <2>1 DEF Meant
  <2> QED
    BY <1>6, <1>7, <1>8, <2>2, <2>3 DEF Clean
<1>13. s \notin met => Clean(heap', op'[s], rules)
  BY <1>8, <1>12
<1>14. \A k \in Checks \ met : Beside(heap, op'[s], check[k])
  BY <1>8, <1>11
<1>15. heap' \in Memory /\ Differs(heap, heap', 1, {})
  BY <1>3
<1> QED
  BY <1>1, <1>2, <1>7, <1>8, <1>13, <1>14, <1>15, AssigningClean

LEMMA AddGrowsClean ==
  ASSUME ListInv, NEW s \in Sessions, AddGrows(s), Sound(op[s].base)
  PROVE  CleanInv'
<1>1. ShapeInv /\ MeetInv /\ CleanInv
  BY DEF ListInv
<1>2. PICK list \in Seq(SlotRule), cap \in Nat :
        /\ list = Append(Contents(op[s].base), op[s].rule) /\ cap = Grown(op[s].base.len)
        /\ Len(list) = op[s].base.len + 1 /\ cap >= Len(list)
  BY <1>1, AddGrowsShape
<1>3. s \in Pending
  BY DEF Pending, AddGrows
<1>4. /\ heap' = Append(heap, Padded(list, cap))
      /\ op' = [op EXCEPT ![s].phase = "assigning",
                          ![s].new = [array |-> Len(heap) + 1, len |-> Len(list)]]
      /\ UNCHANGED <<rules, check, added, file, panicked, changes, listHistory>>
  BY <1>2, Zenon DEF AddGrows
<1>5. ASSUME s \notin met PROVE Meant(s, list)
  <2>1. op[s].phase = "adding"
    BY DEF AddGrows
  <2>2. op[s].base = rules
    BY <1>1, <1>5, <2>1 DEF CleanInv, Clean
  <2> QED
    BY <1>2, <2>2, ContentsIsPart DEF Meant
<1> QED
  BY <1>2, <1>3, <1>4, <1>5, NewArrayClean

LEMMA DeleteClean ==
  ASSUME ListInv, NEW s \in Sessions, DeleteCopies(s), ~Crash
  PROVE  CleanInv'
<1>1. ShapeInv /\ MeetInv /\ CleanInv /\ ListTypeOK /\ Arrays
  BY DEF ListInv, ShapeInv
<1>2. op[s].phase = "deleting" /\ Busy(s) /\ s \in Pending
  BY DEF DeleteCopies, Busy, Pending
<1>3. CASE /\ op' = [op EXCEPT ![s] = NoOp] /\ Parts(s)
           /\ UNCHANGED <<heap, rules, check, added, file, panicked, changes, due, unsaved>>
  <2>1. met' = met \ {s} /\ UNCHANGED <<heap, rules, check, due>>
    BY <1>3 DEF Parts
  <2> QED
    BY <1>2, <1>3, <2>1, IdleClean
<1>4. ASSUME NEW list \in Seq(SlotRule), s \notin met => Meant(s, list),
             heap' = IF list = <<>> THEN heap ELSE Append(heap, Padded(list, CapFor[Len(list)])),
             op' = [op EXCEPT ![s].phase = "assigning",
                              ![s].new = IF list = <<>> THEN NoRules
                                         ELSE [array |-> Len(heap) + 1, len |-> Len(list)]],
             UNCHANGED <<rules, check, added, file, panicked, changes, listHistory>>
      PROVE  CleanInv'
  <2>1. CASE list = <<>>
    <3>1. heap' = heap /\ op' = [op EXCEPT ![s].phase = "assigning", ![s].new = NoRules]
      BY <1>4, <2>1
    <3>2. s \notin met => Meant(s, <<>>)
      BY <1>4, <2>1
    <3> QED
      BY <1>2, <1>4, <3>1, <3>2, EmptiedClean
  <2>2. CASE list # <<>>
    <3>1. PICK cap \in Nat : cap = CapFor[Len(list)] /\ cap >= Len(list)
      <4>1. Len(list) \in Nat
        OBVIOUS
      <4> QED
        BY <4>1, CapForEnough
    <3>2. heap' = Append(heap, Padded(list, cap))
      BY <1>4, <2>2, <3>1
    <3>3. op' = [op EXCEPT ![s].phase = "assigning",
                           ![s].new = [array |-> Len(heap) + 1, len |-> Len(list)]]
      BY <1>4, <2>2
    <3> QED
      BY <1>2, <1>4, <3>1, <3>2, <3>3, NewArrayClean
  <2> QED
    BY <2>1, <2>2
<1>5. ASSUME NEW now \in Loads
      PROVE  LET base == op[s].base
                 kept == Kept(base, op[s].gone)
                 list == [j \in 1..Len(kept) |-> heap[now.array][kept[j]]]
             IN  Sound(base) /\ Len(kept) # base.len => (s \notin met => Meant(s, list))
  <2> SUFFICES ASSUME Sound(op[s].base), Len(Kept(op[s].base, op[s].gone)) # op[s].base.len,
                      s \notin met
               PROVE  Meant(s, [j \in 1..Len(Kept(op[s].base, op[s].gone)) |->
                                  heap[now.array][Kept(op[s].base, op[s].gone)[j]]])
    BY Zenon
  <2>1. op[s].base = rules
    BY <1>1, <1>2 DEF CleanInv, Clean
  <2>2. now = rules
    <3>1. Storing \subseteq {s} /\ s \notin Storing
      BY <1>1, <1>2, Alone DEF Storing
    <3>2. Storing = {}
      BY <3>1
    <3> QED
      BY <1>1, <3>2, CalmLoads
  <2>3. rules \in Slice /\ rules.array \in DOMAIN heap /\ Sound(rules)
    BY <1>1, <2>1 DEF ListTypeOK, Arrays
  <2>4. /\ [j \in 1..Len(Kept(rules, op[s].gone)) |-> heap[rules.array][Kept(rules, op[s].gone)[j]]]
              = Book!Without(Contents(rules), op[s].gone)
        /\ Len(Kept(rules, op[s].gone)) # rules.len =>
             \E i \in 1..Len(Contents(rules)) : Contents(rules)[i] \in op[s].gone
    BY <1>1, <2>3, CopyIsWithout
  <2>5. Contents(rules) = Part(heap, rules)
    BY ContentsIsPart
  <2> QED
    BY <2>1, <2>2, <2>4, <2>5 DEF Meant
<1>6. \/ /\ op' = [op EXCEPT ![s] = NoOp] /\ Parts(s)
         /\ UNCHANGED <<heap, rules, check, added, file, panicked, changes, due, unsaved>>
      \/ \E list \in Seq(SlotRule) :
           /\ s \notin met => Meant(s, list)
           /\ heap' = IF list = <<>> THEN heap ELSE Append(heap, Padded(list, CapFor[Len(list)]))
           /\ op' = [op EXCEPT ![s].phase = "assigning",
                               ![s].new = IF list = <<>> THEN NoRules
                                          ELSE [array |-> Len(heap) + 1, len |-> Len(list)]]
           /\ UNCHANGED <<rules, check, added, file, panicked, changes, listHistory>>
  <2>1. \/ /\ op' = [op EXCEPT ![s] = NoOp] /\ Parts(s)
           /\ UNCHANGED <<heap, rules, check, added, file, panicked, changes, due, unsaved>>
        \/ \E now \in Loads :
             LET base == op[s].base
                 kept == Kept(base, op[s].gone)
                 list == [j \in 1..Len(kept) |-> heap[now.array][kept[j]]]
             IN  /\ Sound(base) /\ Sound(now) /\ Len(kept) # base.len
                 /\ list \in Seq(SlotRule)
                 /\ heap' = IF list = <<>> THEN heap
                            ELSE Append(heap, Padded(list, CapFor[Len(list)]))
                 /\ op' = [op EXCEPT ![s].phase = "assigning",
                             ![s].new = IF list = <<>> THEN NoRules
                                        ELSE [array |-> Len(heap) + 1, len |-> Len(list)]]
                 /\ UNCHANGED <<rules, check, added, file, panicked, changes, listHistory>>
    BY <1>1, DeleteCases, Zenon
  <2> QED
    BY <1>5, <2>1, Zenon
<1> QED
  BY <1>3, <1>4, <1>6, Zenon

\* Sessions that store together have met: without them, the new slice is the session's own.
LEMMA OwnStore ==
  ASSUME ListTypeOK, MeetInv, NEW s \in Sessions, Assign(s), Calm', met \subseteq met'
  PROVE  rules' = op[s].new
<1>1. op[s].phase = "assigning" /\ rules' \in Stores(s)
  BY DEF Assign
<1>2. \A q \in Sessions : q # s => op'[q] = op[q]
  BY PhaseAfter
<1>3. ASSUME NEW q \in Storing, q # s PROVE FALSE
  <2>1. q \in Sessions /\ op[q].phase = "assigning"
    BY <1>3 DEF Storing
  <2>2. q \in met'
    BY <1>1, <1>3, <2>1 DEF MeetInv, Busy
  <2>3. q \in Storing'
    BY <1>2, <1>3, <2>1 DEF Storing
  <2> QED
    BY <2>2, <2>3 DEF Calm
<1>4. Storing = {s}
  BY <1>1, <1>3 DEF Storing
<1> QED
  BY <1>1, <1>4, CalmStores

LEMMA AssignClean ==
  ASSUME ListInv, NEW s \in Sessions, Assign(s)
  PROVE  CleanInv'
<1>1. ShapeInv /\ MeetInv /\ CleanInv /\ ListTypeOK /\ Arrays
  BY DEF ListInv, ShapeInv
<1>2. op[s] \in Op /\ op[s].new \in Slice /\ op[s].rule \in SlotRule
      /\ op[s].new.array \in DOMAIN heap
  BY <1>1, OpParts DEF Arrays
<1>3. op[s].phase = "assigning" /\ Busy(s) /\ check' = check /\ due' = due
  BY DEF Assign, Busy
<1>4. op'[s].phase = "saving" /\ \A q \in Sessions : q # s => op'[q] = op[q]
  BY <1>1, PhaseAfter
<1>5. heap \in Memory
  BY <1>1, HeapParts DEF Memory
<1>6. \A k \in Checks \ met' : Beside(heap, op'[s], check[k])
  BY <1>4 DEF Beside
<1>7. Clean(heap', op'[s], rules')
  BY <1>4 DEF Clean
<1>8. CASE ~op[s].late
  <2>1. heap' = heap /\ met' = met /\ met \ {s} \subseteq met' /\ met \subseteq met'
    BY <1>8 DEF Assign
  <2>2. heap' \in Memory /\ Differs(heap, heap', 1, {})
    BY <1>1, <2>1, SameDiffers
  <2>3. \A q \in Sessions \ met' : q # s => op[q].phase = "idle"
    BY <1>1, <1>3, <2>1, OthersIdle
  <2>4. ASSUME Calm', NEW k \in Checks \ met' PROVE Behind(heap, check[k], rules')
    <3>1. rules' = op[s].new
      BY <1>1, <2>1, <2>4, OwnStore
    <3>2. Beside(heap, op[s], check[k])
      BY <1>1, <2>1, <2>4 DEF CleanInv
    <3> QED
      BY <1>3, <1>8, <3>1, <3>2 DEF Beside
  <2> QED
    BY <1>1, <1>3, <1>4, <1>6, <1>7, <2>1, <2>2, <2>3, <2>4, SessionClean
<1>9. CASE op[s].late
  <2> DEFINE new == op[s].new
  <2>1. Tramples(s, new.array) /\ heap' = Stored(heap, new.array, new.len, op[s].rule)
    BY <1>9 DEF Assign, PutLast, Stored
  <2>2. new \in Slice /\ new.array \in DOMAIN heap /\ new.len \in Nat
    BY <1>2, SliceParts
  <2>3. s \notin met => new.array = rules.array /\ new.len = rules.len + 1
    BY <1>1, <1>3, <1>9 DEF CleanInv, Clean
  <2> HIDE DEF new
  <2>4. heap' \in Memory /\ Differs(heap, heap', new.array, {new.len})
    BY <1>2, <1>5, <2>1, <2>2, StoreDiffers
  <2>5. met \subseteq met' /\ met \ {s} \subseteq met'
    BY <1>1, <2>1, JoinsShape DEF Tramples, ListTypeOK
  <2>6. \A q \in Sessions \ met' : q # s => op[q].phase = "idle"
    BY <1>1, <1>3, <2>5, OthersIdle
  <2>7. ASSUME NEW k \in Checks \ met', At(check[k]), check[k].base.array = new.array
        PROVE  /\ SoundIn(heap, check[k].base) =>
                    check[k].base.len < new.len /\ check[k].base.len <= new.len
               /\ ~RoomIn(heap, check[k].base) /\ check[k].phase # "appended"
    <3>1. /\ k \notin met /\ ~RoomIn(heap, check[k].base)
          /\ SoundIn(heap, check[k].base) => check[k].base.len < new.len
      BY <1>3, <2>1, <2>2, <2>3, <2>7, Spared
    <3>2. Reads(heap, check[k], due[k])
      BY <1>1, <3>1 DEF CleanInv
    <3>3. check[k].base.len \in Nat
      BY <1>1, CheckParts, SliceParts
    <3> QED
      BY <2>2, <3>1, <3>2, <3>3 DEF Reads
  <2>8. \A k \in Checks \ met' : At(check[k]) /\ check[k].base.array = new.array =>
          /\ SoundIn(heap, check[k].base) => \A i \in 1..check[k].base.len : i \notin {new.len}
          /\ check[k].phase = "appended" =>
               \A i \in 1..WideCount : check[k].base.len + i \notin {new.len}
    <3> SUFFICES ASSUME NEW k \in Checks \ met', At(check[k]), check[k].base.array = new.array
                 PROVE  /\ SoundIn(heap, check[k].base) =>
                             \A i \in 1..check[k].base.len : i \notin {new.len}
                        /\ check[k].phase # "appended"
      OBVIOUS
    <3>1. PICK l \in Nat : l = check[k].base.len
      BY <1>1, CheckParts, SliceParts
    <3>2. SoundIn(heap, check[k].base) => l < new.len
      BY <2>7, <3>1
    <3>3. SoundIn(heap, check[k].base) => \A i \in 1..l : i # new.len
      BY <2>2, <3>2
    <3> QED
      BY <2>7, <3>1, <3>3
  <2>9. ASSUME Calm', NEW k \in Checks \ met' PROVE Behind(heap, check[k], rules')
    <3>1. rules' = new
      BY <1>1, <2>5, <2>9, OwnStore DEF new
    <3> QED
      BY <2>7, <2>9, <3>1 DEF Behind, Fits
  <2> QED
    BY <1>1, <1>3, <1>4, <1>6, <1>7, <2>4, <2>5, <2>6, <2>8, <2>9, SessionClean
<1> QED
  BY <1>8, <1>9

LEMMA SaveClean ==
  ASSUME ListInv, NEW s \in Sessions, Save(s), ~Crash
  PROVE  CleanInv'
<1>1. Busy(s) /\ op[s].phase # "assigning"
  BY DEF Save, Busy
<1>2. op' = [op EXCEPT ![s] = NoOp] /\ met' = met \ {s} /\ UNCHANGED <<heap, rules, check, due>>
  BY DEF Save, Parts
<1> QED
  BY <1>1, <1>2, IdleClean

\* A check that does not touch the memory: the others are as they were.
LEMMA CheckAsideClean ==
  ASSUME ListInv, NEW k \in Checks, op' = op, rules' = rules, heap' = heap,
         NEW x \in Check, check' = [check EXCEPT ![k] = x], x.base.array \in DOMAIN heap,
         \A y \in Checks : y # k => due'[y] = due[y],
         met \ {k} \subseteq met',
         k \notin met' =>
           /\ Reads(heap, x, due'[k])
           /\ Calm => Behind(heap, x, rules)
           /\ \A y \in Checks \ met' : y # k => Apart(heap, x, check[y]) /\ Apart(heap, check[y], x)
           /\ \A s \in Sessions : Beside(heap, op[s], x)
  PROVE  CleanInv'
<1>1. ShapeInv /\ MeetInv /\ CleanInv /\ ListTypeOK /\ Arrays
  BY DEF ListInv, ShapeInv
<1>2. check'[k] = x /\ \A y \in Checks : y # k => check'[y] = check[y] /\ due'[y] = due[y]
  BY <1>1, CheckSet
<1>3. heap' \in Memory /\ Differs(heap, heap', 1, {})
  BY <1>1, SameDiffers
<1>4. \A y \in Checks \ met' : y # k => Reads(heap', check[y], due[y])
  BY <1>1 DEF CleanInv
<1>5. \A s \in Sessions \ met' : Clean(heap', op[s], rules)
  <2>1. \A s \in Sessions \ met' : s \in Sessions \ met
    BY ListBoundsAssumption
  <2> QED
    BY <1>1, <2>1 DEF CleanInv
<1>6. k \notin met' =>
        /\ Reads(heap', check'[k], due'[k])
        /\ Calm => Behind(heap, check'[k], rules)
        /\ \A y \in Checks \ met' : y # k => Apart(heap, check'[k], check[y])
                                            /\ Apart(heap, check[y], check'[k])
        /\ \A s \in Sessions : Beside(heap, op[s], check'[k])
  BY <1>2
<1>7. check'[k] \in Check /\ check'[k].base.array \in DOMAIN heap
  BY <1>2
<1> QED
  BY <1>1, <1>2, <1>3, <1>4, <1>5, <1>6, <1>7, CheckClean

\* Of a check that has no slice nothing more is asked than what it has seen.
LEMMA CheckOffClean ==
  ASSUME ListInv, NEW k \in Checks, op' = op, rules' = rules, heap' = heap,
         NEW x \in Check, check' = [check EXCEPT ![k] = x], x.base.array \in DOMAIN heap,
         ~At(x),
         \A y \in Checks : y # k => due'[y] = due[y],
         met \ {k} \subseteq met',
         k \notin met' /\ x.phase = "done" => x.seen = due'[k] \o Wide
  PROVE  CleanInv'
<1>1. k \notin met' =>
        /\ Reads(heap, x, due'[k])
        /\ Calm => Behind(heap, x, rules)
        /\ \A y \in Checks \ met' : y # k => Apart(heap, x, check[y]) /\ Apart(heap, check[y], x)
        /\ \A s \in Sessions : Beside(heap, op[s], x)
  BY DEF Reads, Behind, Apart, Beside, At
<1> QED
  BY <1>1, CheckAsideClean

LEMMA CheckLoadsClean ==
  ASSUME ListInv, NEW k \in Checks, CheckLoads(k)
  PROVE  CleanInv'
<1>1. ShapeInv /\ MeetInv /\ CleanInv /\ ListTypeOK /\ Arrays
  BY DEF ListInv, ShapeInv
<1>2. PICK b \in Loads :
        check' = [check EXCEPT ![k] = [NoCheck EXCEPT !.phase = "loaded", !.base = b]]
  BY DEF CheckLoads
<1>3. b \in Slice /\ b.array \in DOMAIN heap
  BY <1>1, LoadsShape
<1>4. PICK x : x = [NoCheck EXCEPT !.phase = "loaded", !.base = b]
  OBVIOUS
<1>5. x \in Check /\ x.base = b /\ x.phase = "loaded"
  <2>1. x \in Check /\ x = [phase |-> "loaded", base |-> b, seen |-> <<>>]
    BY <1>3, <1>4, LoadedCheck, Zenon
  <2> QED
    BY <2>1
<1>6. check' = [check EXCEPT ![k] = x]
  BY <1>2, <1>4
<1>7. op' = op /\ rules' = rules /\ heap' = heap /\ due' = [due EXCEPT ![k] = Contents(rules)]
  BY DEF CheckLoads
<1>8. \A y \in Checks : y # k => due'[y] = due[y]
  BY <1>1, <1>7 DEF ListTypeOK
<1>9. met \subseteq met' /\ (k \notin met' => Storing = {})
  BY <1>1, JoinsShape DEF CheckLoads, ListTypeOK
<1>10. ASSUME k \notin met'
       PROVE  /\ Reads(heap, x, due'[k])
              /\ Calm => Behind(heap, x, rules)
              /\ \A y \in Checks \ met' : y # k => Apart(heap, x, check[y])
                                                  /\ Apart(heap, check[y], x)
              /\ \A s \in Sessions : Beside(heap, op[s], x)
  <2>1. Storing = {} /\ Calm
    BY <1>9, <1>10 DEF Calm
  <2>2. x.base = rules
    BY <1>1, <1>5, <2>1, CalmLoads
  <2>3. due'[k] = Part(heap, rules)
    BY <1>1, <1>7, ContentsIsPart DEF ListTypeOK
  <2>4. rules.len <= rules.len
    <3>1. rules.len \in Nat
      BY <1>1, SliceParts DEF ListTypeOK
    <3> QED
      BY <3>1
  <2>5. Reads(heap, x, due'[k]) /\ Behind(heap, x, rules)
    BY <1>5, <2>2, <2>3, <2>4 DEF Reads, Behind, Fits
  <2>6. ASSUME NEW y \in Checks \ met' PROVE Apart(heap, x, check[y]) /\ Apart(heap, check[y], x)
    <3>1. Behind(heap, check[y], rules)
      BY <1>1, <1>9, <2>1, <2>6 DEF CleanInv
    <3> QED
      BY <2>2, <3>1 DEF Behind, Apart, Fits
  <2>7. \A s \in Sessions : Beside(heap, op[s], x)
    BY <2>1 DEF Beside, Storing
  <2> QED
    BY <2>5, <2>6, <2>7
<1>11. met \ {k} \subseteq met' /\ x.base.array \in DOMAIN heap
  BY <1>3, <1>5, <1>9
<1> QED
  BY <1>5, <1>6, <1>7, <1>8, <1>10, <1>11, CheckAsideClean

LEMMA CheckAppendsClean ==
  ASSUME ListInv, NEW k \in Checks, CheckAppends(k), Sound(check[k].base)
  PROVE  CleanInv'
<1>1. ShapeInv /\ MeetInv /\ CleanInv /\ ListTypeOK /\ Arrays
  BY DEF ListInv, ShapeInv
<1>2. check[k] \in Check /\ check[k].base \in Slice /\ check[k].base.array \in DOMAIN heap
  BY <1>1, CheckParts DEF Arrays
<1>3. PICK l \in Seq(SlotRule) : l = Contents(check[k].base) \o Wide
  <2>1. Contents(check[k].base) \in Seq(SlotRule)
    <3>1. heap \in Memory
      BY <1>1, HeapParts DEF Memory
    <3> QED
      BY <1>2, <3>1, PartShape, ContentsIsPart
  <2>2. PICK p \in Seq(SlotRule), w \in Seq(SlotRule) : p = Contents(check[k].base) /\ w = Wide
    BY <2>1, WideRules
  <2>3. p \o w \in Seq(SlotRule)
    OBVIOUS
  <2> QED
    BY <2>2, <2>3
<1> DEFINE x == MovedCheck(check[k], "done", l)
<1>4. check' = [check EXCEPT ![k] = x]
  <2>1. check' = [check EXCEPT ![k].phase = "done", ![k].seen = l]
    BY <1>3 DEF CheckAppends
  <2> QED
    BY <1>1, <2>1, ToDone
<1>5. x \in Check /\ x.phase = "done" /\ x.base = check[k].base /\ x.seen = l
  <2>1. x.phase = "done" /\ x.base = check[k].base /\ x.seen = l
    BY DEF MovedCheck
  <2> QED
    BY <1>2, <2>1 DEF MovedCheck, Check
<1> HIDE DEF x
<1>6. /\ op' = op /\ rules' = rules /\ heap' = heap /\ due' = due /\ met' = met
      /\ check[k].phase = "loaded"
  BY DEF CheckAppends, listHistory
<1>7. ASSUME k \notin met' PROVE x.seen = due'[k] \o Wide
  <2>1. Reads(heap, check[k], due[k])
    BY <1>1, <1>6, <1>7 DEF CleanInv
  <2>2. SoundIn(heap, check[k].base)
    BY DEF Sound, SoundIn, Cap
  <2>3. Part(heap, check[k].base) = due[k]
    BY <1>6, <2>1, <2>2 DEF Reads, At
  <2> QED
    BY <1>3, <1>5, <1>6, <2>3, ContentsIsPart
<1>8. ~At(x) /\ x.base.array \in DOMAIN heap
  BY <1>2, <1>5 DEF At
<1> QED
  BY <1>4, <1>5, <1>6, <1>7, <1>8, CheckOffClean

LEMMA CheckEndsClean ==
  ASSUME ListInv, NEW k \in Checks, CheckEnds(k)
  PROVE  CleanInv'
<1>1. ListTypeOK /\ 1 \in DOMAIN heap
  BY HeapParts DEF ListInv, ShapeInv
<1>2. /\ op' = op /\ rules' = rules /\ heap' = heap /\ check' = [check EXCEPT ![k] = NoCheck]
      /\ met' = met \ {k} /\ \A y \in Checks : y # k => due'[y] = due[y]
  BY <1>1 DEF CheckEnds, Parts, ListTypeOK
<1>3. NoCheck \in Check /\ NoCheck.phase = "idle" /\ NoCheck.base.array \in DOMAIN heap
  BY <1>1, NoCheckType, NoRulesType
<1>4. ~At(NoCheck)
  BY <1>3 DEF At
<1> QED
  BY <1>2, <1>3, <1>4, CheckOffClean

\* A list of the memory, and some rules of a known kind behind it.
LEMMA LongerPart ==
  ASSUME NEW h \in Memory, NEW b \in Slice, b.array \in DOMAIN h, NEW n \in Slice,
         n.array = b.array, n.len = b.len + WideCount, RoomIn(h, b),
         \A i \in 1..WideCount : h[b.array][b.len + i] = Wide[i]
  PROVE  Part(h, n) = Part(h, b) \o Wide
<1>1. PICK a \in Seq(SlotRule) : a = h[b.array]
  BY DEF Memory
<1>2. PICK l \in Nat, w \in Nat, m \in Nat : l = b.len /\ w = WideCount /\ m = Len(a)
  BY SliceParts, ListBoundsAssumption
<1>3. l + w <= m
  BY <1>1, <1>2 DEF RoomIn
<1>4. PICK p \in Seq(SlotRule) : p = Part(h, b)
  BY PartShape
<1>5. Len(p) = l /\ \A i \in 1..l : p[i] = a[i]
  BY <1>1, <1>2, <1>3, <1>4, PartShape
<1>6. PICK v \in Seq(SlotRule) : v = Wide
  BY WideRules
<1>7. Len(v) = w /\ \A i \in 1..w : v[i] = a[l + i]
  BY <1>1, <1>2, <1>6, WideRules
<1>8. PICK q \in Seq(SlotRule) : q = Part(h, n)
  <2>1. n.array \in DOMAIN h
    OBVIOUS
  <2> QED
    BY <2>1, PartShape
<1>9. Len(q) = l + w /\ \A i \in 1..(l + w) : q[i] = a[i]
  <2>1. n.array \in DOMAIN h /\ h[n.array] = a /\ n.len = l + w
    BY <1>1, <1>2
  <2>2. n.len <= Len(h[n.array])
    BY <1>2, <1>3, <2>1
  <2>3. Len(q) = n.len /\ \A i \in 1..Len(q) : q[i] = h[n.array][i]
    BY <1>8, <2>1, <2>2, PartShape
  <2> QED
    BY <2>1, <2>3
<1>10. p \o v \in Seq(SlotRule) /\ Len(p \o v) = l + w
       /\ \A i \in 1..(l + w) : (p \o v)[i] = IF i <= l THEN p[i] ELSE v[i - l]
  <2>1. /\ p \o v \in Seq(SlotRule) /\ Len(p \o v) = Len(p) + Len(v)
        /\ \A i \in 1..(Len(p) + Len(v)) :
             (p \o v)[i] = IF i <= Len(p) THEN p[i] ELSE v[i - Len(p)]
    BY ConcatProperties
  <2> QED
    BY <1>5, <1>7, <2>1
<1>11. \A i \in 1..(l + w) : q[i] = (p \o v)[i]
  <2> SUFFICES ASSUME NEW i \in 1..(l + w) PROVE q[i] = (p \o v)[i]
    OBVIOUS
  <2>1. CASE i <= l
    <3>1. i \in 1..l
      BY <2>1
    <3> QED
      BY <1>5, <1>9, <1>10, <2>1, <3>1
  <2>2. CASE ~(i <= l)
    <3>1. i - l \in 1..w /\ l + (i - l) = i
      BY <2>2
    <3>2. v[i - l] = a[i]
      BY <1>7, <3>1
    <3> QED
      BY <1>9, <1>10, <2>2, <3>2
  <2> QED
    BY <2>1, <2>2
<1>12. q = p \o v
  BY <1>9, <1>10, <1>11, SeqEqual
<1> QED
  BY <1>4, <1>6, <1>8, <1>12

LEMMA CheckSortsClean ==
  ASSUME ListInv, NEW k \in Checks, CheckSorts(k)
  PROVE  CleanInv'
<1>1. ShapeInv /\ MeetInv /\ CleanInv /\ ListTypeOK /\ Arrays
  BY DEF ListInv, ShapeInv
<1>2. check[k] \in Check /\ check[k].base \in Slice /\ check[k].base.array \in DOMAIN heap
  BY <1>1, CheckParts DEF Arrays
<1>3. heap \in Memory
  BY <1>1, HeapParts DEF Memory
<1>4. PICK n : n = [check[k].base EXCEPT !.len = @ + WideCount]
  OBVIOUS
<1>5. n \in Slice /\ n.array = check[k].base.array /\ n.len = check[k].base.len + WideCount
  BY <1>2, <1>4, Longer, ListBoundsAssumption
<1>6. PICK l \in Seq(SlotRule) : l = Contents(n)
  BY <1>2, <1>3, <1>5, PartShape, ContentsIsPart
<1> DEFINE x == MovedCheck(check[k], "done", l)
<1>7. check' = [check EXCEPT ![k] = x]
  <2>1. check' = [check EXCEPT ![k].phase = "done", ![k].seen = l]
    BY <1>4, <1>6 DEF CheckSorts
  <2> QED
    BY <1>1, <2>1, ToDone
<1>8. x \in Check /\ x.phase = "done" /\ x.base = check[k].base /\ x.seen = l
  <2>1. x.phase = "done" /\ x.base = check[k].base /\ x.seen = l
    BY DEF MovedCheck
  <2> QED
    BY <1>2, <2>1 DEF MovedCheck, Check
<1> HIDE DEF x
<1>9. /\ op' = op /\ rules' = rules /\ heap' = heap /\ due' = due /\ met' = met
      /\ check[k].phase = "appended"
  BY DEF CheckSorts, listHistory
<1>10. ASSUME k \notin met' PROVE x.seen = due'[k] \o Wide
  <2>1. Reads(heap, check[k], due[k])
    BY <1>1, <1>9, <1>10 DEF CleanInv
  <2>2. /\ RoomIn(heap, check[k].base)
        /\ \A i \in 1..WideCount : heap[check[k].base.array][check[k].base.len + i] = Wide[i]
    BY <1>9, <2>1 DEF Reads
  <2>3. SoundIn(heap, check[k].base)
    <3>1. PICK a \in Nat, w \in Nat, m \in Nat :
            /\ a = check[k].base.len /\ w = WideCount
            /\ m = Len(heap[check[k].base.array])
      BY <1>1, <1>2, SliceParts, HeapParts, ListBoundsAssumption
    <3>2. a + w <= m
      BY <2>2, <3>1 DEF RoomIn
    <3>3. a <= m
      BY <3>2
    <3> QED
      BY <3>1, <3>3 DEF SoundIn
  <2>4. Part(heap, check[k].base) = due[k]
    BY <1>9, <2>1, <2>3 DEF Reads, At
  <2>5. Part(heap, n) = Part(heap, check[k].base) \o Wide
    BY <1>2, <1>3, <1>5, <2>2, LongerPart
  <2> QED
    BY <1>6, <1>8, <1>9, <2>4, <2>5, ContentsIsPart
<1>11. ~At(x) /\ x.base.array \in DOMAIN heap
  BY <1>2, <1>8 DEF At
<1> QED
  BY <1>7, <1>8, <1>9, <1>10, <1>11, CheckOffClean

\* The slots behind the list of a check that has met nobody are used by no other that has
\* met nobody: those are told apart by the lengths of their slices.
LEMMA CheckInPlaceClean ==
  ASSUME ListInv, NEW k \in Checks, CheckAppendsInPlace(k)
  PROVE  CleanInv'
<1>1. ShapeInv /\ MeetInv /\ CleanInv /\ ListTypeOK /\ Arrays
  BY DEF ListInv, ShapeInv
<1>2. PICK base \in Slice : base = check[k].base
  BY <1>1, CheckParts
<1>3. PICK b \in Nat, w \in Nat, m \in Nat :
        b = base.len /\ w = WideCount /\ m = Len(heap[base.array])
  <2>1. base.array \in DOMAIN heap
    BY <1>1, <1>2 DEF Arrays
  <2> QED
    BY <1>1, <2>1, SliceParts, HeapParts, ListBoundsAssumption
<1>4. RoomIn(heap, base) /\ b + w <= m /\ b <= m /\ SoundIn(heap, base)
  <2>1. RoomIn(heap, base)
    BY <1>2 DEF CheckAppendsInPlace, HasRoom, Cap, RoomIn
  <2>2. b + w <= m
    BY <1>3, <2>1 DEF RoomIn
  <2>3. b <= m
    BY <2>2
  <2> QED
    BY <1>3, <2>1, <2>2, <2>3 DEF SoundIn
<1> DEFINE slots == (b + 1)..(b + w)
<1>5. /\ heap \in Memory /\ heap' \in Memory /\ Differs(heap, heap', base.array, slots)
      /\ \A i \in 1..w : heap'[base.array][b + i] = Wide[i]
  <2>1. heap \in Memory
    BY <1>1, HeapParts DEF Memory
  <2> QED
    BY <1>1, <1>2, <1>3, <2>1, CheckInPlaceShape
<1>6. \A l \in Nat : l <= b => \A i \in 1..l : i \notin slots
  OBVIOUS
<1> HIDE DEF slots
<1> DEFINE x == MovedCheck(check[k], "appended", check[k].seen)
<1>7. check' = [check EXCEPT ![k] = x]
  BY <1>1, ToAppended DEF CheckAppendsInPlace
<1>8. x \in Check /\ x.base = base /\ x.phase = "appended"
  BY <1>1, <1>2, CheckParts, MovedCheckType
<1> HIDE DEF x
<1>9. check'[k] = x /\ \A y \in Checks : y # k => check'[y] = check[y]
  BY <1>1, <1>7, <1>8, CheckSet
<1>10. /\ op' = op /\ rules' = rules /\ due' = due /\ Joins(k, Reached(k))
       /\ check[k].phase = "loaded" /\ At(check[k]) /\ At(x)
  BY <1>8 DEF CheckAppendsInPlace, At
<1>11. met \subseteq met' /\ (Reached(k) # {} => Reached(k) \subseteq met')
  BY <1>1, <1>10, JoinsShape DEF ListTypeOK
<1>12. ASSUME NEW y \in AtWork \ met', y # k PROVE k \notin met
  BY <1>11, <1>12 DEF Reached
<1>13. ASSUME NEW y \in Checks \ met', y # k PROVE Reads(heap', check[y], due[y])
  <2>1. Reads(heap, check[y], due[y]) /\ y \notin met
    BY <1>1, <1>11, <1>13 DEF CleanInv
  <2>2. check[y] \in Check /\ check[y].base \in Slice /\ check[y].base.array \in DOMAIN heap
    BY <1>1, CheckParts DEF Arrays
  <2>3. PICK l \in Nat : l = check[y].base.len
    BY <2>2, SliceParts
  <2>4. ASSUME At(check[y]) PROVE Apart(heap, check[y], check[k]) /\ Apart(heap, check[k], check[y])
    <3>1. y \in AtWork
      BY <2>4 DEF At, AtWork
    <3>2. k \notin met
      BY <1>12, <1>13, <3>1
    <3> QED
      BY <1>1, <2>1, <3>2 DEF CleanInv
  <2>5. ASSUME At(check[y]), SoundIn(heap, check[y].base), check[y].base.array = base.array
        PROVE  \A i \in 1..check[y].base.len : i \notin slots
    <3>1. l <= b
      BY <1>2, <1>3, <1>4, <1>10, <2>3, <2>4, <2>5 DEF Apart, Fits
    <3> QED
      BY <1>6, <2>3, <3>1
  <2>6. ASSUME check[y].phase = "appended", NEW i \in 1..WideCount
        PROVE  heap'[check[y].base.array][check[y].base.len + i] = Wide[i]
    <3>1. /\ At(check[y]) /\ RoomIn(heap, check[y].base)
          /\ heap[check[y].base.array][check[y].base.len + i] = Wide[i]
      BY <2>1, <2>6 DEF Reads, At
    <3>2. CASE check[y].base.array = base.array
      <4>1. l + w <= m
        BY <1>3, <2>3, <3>1, <3>2 DEF RoomIn
      <4>2. l <= m /\ SoundIn(heap, check[y].base)
        <5>1. l <= m
          BY <4>1
        <5> QED
          BY <1>3, <2>3, <3>2, <5>1 DEF SoundIn
      <4>3. l <= b
        BY <1>2, <1>3, <1>4, <1>10, <2>3, <2>4, <3>1, <3>2, <4>2 DEF Apart, Fits
      <4>4. b <= l
        BY <1>2, <1>3, <1>4, <1>10, <2>3, <2>4, <3>1, <3>2 DEF Apart, Fits
      <4>5. l = b
        BY <4>3, <4>4
      <4> QED
        BY <1>3, <1>5, <2>3, <2>6, <3>2, <4>5
    <3>3. CASE check[y].base.array # base.array
      <4>1. PICK a \in DOMAIN heap : a = check[y].base.array
        BY <2>2
      <4>2. PICK n \in Nat : n = Len(heap[a])
        BY <1>1, HeapParts
      <4>3. l + w <= n
        BY <1>3, <2>3, <3>1, <4>1, <4>2 DEF RoomIn
      <4>4. PICK j \in 1..w : j = i
        BY <1>3, <2>6
      <4>5. l + j \in 1..n
        BY <4>3
      <4>6. heap'[a][l + j] = heap[a][l + j]
        BY <1>5, <3>3, <4>1, <4>2, <4>5 DEF Differs
      <4> QED
        BY <2>3, <3>1, <4>1, <4>4, <4>6
    <3> QED
      BY <3>2, <3>3
  <2> QED
    BY <1>5, <2>1, <2>2, <2>5, <2>6, ReadsKept
<1>14. ASSUME k \notin met'
       PROVE  /\ Reads(heap', check'[k], due'[k])
              /\ Calm => Behind(heap, check'[k], rules)
              /\ \A y \in Checks \ met' : y # k => Apart(heap, check'[k], check[y])
                                                  /\ Apart(heap, check[y], check'[k])
              /\ \A s \in Sessions : Beside(heap, op[s], check'[k])
  <2>1. k \notin met /\ Reads(heap, check[k], due[k])
    BY <1>1, <1>11, <1>14 DEF CleanInv
  <2>2. Part(heap, base) = due[k]
    BY <1>2, <1>4, <1>10, <2>1 DEF Reads
  <2>3. base.array \in DOMAIN heap
    BY <1>1, <1>2 DEF Arrays
  <2>4. Part(heap', base) = Part(heap, base) /\ Len(heap'[base.array]) = m
    <3>1. \A i \in 1..base.len : i \notin slots
      BY <1>3, <1>6
    <3> QED
      BY <1>3, <1>5, <2>3, <3>1, SamePart
  <2>5. RoomIn(heap', base)
    BY <1>3, <1>4, <2>4 DEF RoomIn
  <2>6. Reads(heap', x, due[k])
    BY <1>3, <1>5, <1>8, <2>2, <2>4, <2>5 DEF Reads
  <2>7. Calm => Behind(heap, x, rules)
    BY <1>1, <1>2, <1>8, <1>10, <2>1 DEF CleanInv, Behind
  <2>8. ASSUME NEW y \in Checks \ met' PROVE Apart(heap, x, check[y]) /\ Apart(heap, check[y], x)
    <3>1. Apart(heap, check[k], check[y]) /\ Apart(heap, check[y], check[k])
      BY <1>1, <1>11, <2>1, <2>8 DEF CleanInv
    <3> QED
      BY <1>2, <1>8, <1>10, <3>1 DEF Apart
  <2>9. ASSUME NEW s \in Sessions PROVE Beside(heap, op[s], x)
    <3>1. Beside(heap, op[s], check[k])
      BY <1>1, <2>1, <2>9 DEF CleanInv
    <3> QED
      BY <1>2, <1>8, <1>10, <3>1 DEF Beside, Behind
  <2> QED
    BY <1>9, <1>10, <2>6, <2>7, <2>8, <2>9
<1>15. ASSUME NEW s \in Sessions \ met' PROVE Clean(heap', op[s], rules)
  <2>1. Clean(heap, op[s], rules) /\ s \notin met
    BY <1>1, <1>11, <1>15 DEF CleanInv
  <2>2. ASSUME op[s].phase = "assigning", ~op[s].late
        PROVE  Part(heap', op[s].new) = Part(heap, op[s].new) /\ Part(heap', rules) = Part(heap, rules)
    <3>1. Busy(s) /\ s \in AtWork /\ s # k
      BY <1>15, <2>2, ListBoundsAssumption DEF Busy, AtWork
    <3>2. k \notin met
      BY <1>12, <1>15, <3>1
    <3>3. Calm
      BY <1>1, <2>1, <3>1, Alone
    <3>4. Behind(heap, check[k], rules) /\ Behind(heap, check[k], op[s].new)
      BY <1>1, <1>15, <2>2, <3>2, <3>3 DEF CleanInv, Beside
    <3>5. ASSUME NEW r \in Slice, r.array \in DOMAIN heap, Behind(heap, check[k], r)
          PROVE  Part(heap', r) = Part(heap, r)
      <4>1. r.array = base.array => r.len <= b
        BY <1>2, <1>3, <1>4, <1>10, <3>5 DEF Behind
      <4>2. r.array = base.array => \A i \in 1..r.len : i \notin slots
        BY <1>6, <4>1, SliceParts
      <4> QED
        BY <1>5, <3>5, <4>2, SamePart
    <3>6. rules \in Slice /\ rules.array \in DOMAIN heap
      BY <1>1 DEF ListTypeOK, Arrays
    <3>7. op[s].new \in Slice /\ op[s].new.array \in DOMAIN heap
      BY <1>1, OpParts DEF Arrays
    <3> QED
      BY <3>4, <3>5, <3>6, <3>7
  <2>3. op[s].new.array \in DOMAIN heap
    BY <1>1 DEF Arrays
  <2> QED
    BY <1>5, <2>1, <2>2, <2>3, CleanKept
<1>16. check'[k] \in Check /\ check'[k].base.array \in DOMAIN heap
  BY <1>1, <1>2, <1>8, <1>9 DEF Arrays
<1>17. \A y \in Checks : y # k => check'[y] = check[y] /\ due'[y] = due[y]
  BY <1>9, <1>10
<1>18. met \ {k} \subseteq met'
  BY <1>11
<1> QED
  BY <1>1, <1>5, <1>10, <1>13, <1>14, <1>15, <1>16, <1>17, <1>18, CheckClean

LEMMA StillKept ==
  ASSUME MeetInv, CleanInv, UNCHANGED <<heap, rules, op, check, listHistory>>
  PROVE  MeetInv' /\ CleanInv'
<1>1. UNCHANGED <<heap, rules, op, check, due, met, unsaved>>
  BY DEF listHistory
<1>2. Calm' <=> Calm
  BY <1>1 DEF Calm, Storing
<1>3. MeetInv'
  BY <1>1 DEF MeetInv, Busy
<1>4. CleanInv'
  BY <1>1, <1>2 DEF CleanInv
<1> QED
  BY <1>3, <1>4

LEMMA StepClean ==
  ASSUME ListInv, ListStep, ~Crash
  PROVE  CleanInv'
<1>1. ListTypeOK /\ Arrays
  BY DEF ListInv, ShapeInv
<1>2. ASSUME NEW s \in Sessions, AddLoads(s) PROVE CleanInv'
  <2>1. PICK b \in Loads : op' = [op EXCEPT ![s] = Loaded("adding", b, Own(added + 1), {})]
    BY <1>2, Zenon DEF AddLoads
  <2>2. Own(added + 1) \in SlotRule
    <3>1. added + 1 \in 1..MaxAdded
      BY <1>1, <1>2, ListBoundsAssumption DEF ListTypeOK, AddLoads
    <3> QED
      BY <3>1, OwnRules
  <2>3. ~Busy(s) /\ Joins(s, OthersBusy(s)) /\ UNCHANGED <<heap, rules, check, due>>
    BY <1>2 DEF AddLoads
  <2> QED
    BY <2>1, <2>2, <2>3, LoadClean
<1>3. ASSUME NEW s \in Sessions, DeleteLoads(s) PROVE CleanInv'
  <2>1. PICK b \in Loads, d \in Given : op' = [op EXCEPT ![s] = Loaded("deleting", b, Empty, d)]
    BY <1>3, Zenon DEF DeleteLoads
  <2>2. Empty \in SlotRule
    BY EmptyRule
  <2>3. ~Busy(s) /\ Joins(s, OthersBusy(s)) /\ UNCHANGED <<heap, rules, check, due>>
    BY <1>3 DEF DeleteLoads
  <2> QED
    BY <2>1, <2>2, <2>3, LoadClean
<1>4. ASSUME NEW s \in Sessions,
             AddInPlace(s) \/ (AddGrows(s) /\ Sound(op[s].base)) \/ DeleteCopies(s)
               \/ Assign(s) \/ Save(s)
      PROVE  CleanInv'
  BY <1>4, AddInPlaceClean, AddGrowsClean, DeleteClean, AssignClean, SaveClean
<1>5. ASSUME NEW k \in Checks,
             CheckLoads(k) \/ CheckAppendsInPlace(k)
               \/ (CheckAppends(k) /\ Sound(check[k].base)) \/ CheckSorts(k) \/ CheckEnds(k)
      PROVE  CleanInv'
  BY <1>5, CheckLoadsClean, CheckInPlaceClean, CheckAppendsClean, CheckSortsClean, CheckEndsClean
<1> QED
  BY <1>2, <1>3, <1>4, <1>5 DEF ListStep

LEMMA StepInv == ListInv /\ [ListNext]_listVars => ListInv'
<1> SUFFICES ASSUME ListInv, [ListNext]_listVars PROVE ListInv'
  OBVIOUS
<1>1. ShapeInv /\ MeetInv /\ CleanInv
  BY DEF ListInv
<1>2. ShapeInv'
  BY <1>1, StepShape
<1>3. CASE Crash \/ UNCHANGED listVars
  <2>1. UNCHANGED <<heap, rules, op, check, listHistory>>
    BY <1>3 DEF Crash, listVars
  <2> QED
    BY <1>1, <1>2, <2>1, StillKept DEF ListInv
<1>4. CASE ListStep /\ ~Crash
  BY <1>1, <1>2, <1>4, StepMeets, StepClean DEF ListInv
<1> QED
  BY <1>3, <1>4, StepCases

LEMMA InitInv == ListInit => ListInv
<1> SUFFICES ASSUME ListInit PROVE ListInv
  OBVIOUS
<1>1. ShapeInv
  BY InitShape
<1>2. met = {} /\ \A s \in Sessions : op[s].phase = "idle"
  BY NoOpType DEF ListInit
<1>3. \A k \in Checks : check[k].phase = "idle"
  BY NoCheckType DEF ListInit
<1>4. MeetInv
  BY <1>2 DEF MeetInv, Busy
<1>5. /\ \A s \in Sessions : Clean(heap, op[s], rules)
      /\ \A k \in Checks : Reads(heap, check[k], due[k]) /\ Behind(heap, check[k], rules)
      /\ \A k, x \in Checks : Apart(heap, check[k], check[x])
      /\ \A s \in Sessions, k \in Checks : Beside(heap, op[s], check[k])
  BY <1>2, <1>3 DEF Clean, Reads, Behind, Apart, Beside, At
<1>6. CleanInv
  BY <1>5 DEF CleanInv
<1> QED
  BY <1>1, <1>4, <1>6 DEF ListInv

\* A player is checked against the list as it was when the check loaded it, and all
\* rules of the backend, unless somebody stored to a slot that the check used:
\* whatever number of sessions and checks append to one array (parse.go:268, ssh.go:673, 688).
THEOREM CheckGoesByTheListCorrect == ListSpec => []CheckGoesByTheList
<1>1. ListInv => CheckGoesByTheList
  BY DEF ListInv, CleanInv, Reads, CheckGoesByTheList
<1> QED
  BY <1>1, InitInv, StepInv, PTL DEF ListSpec

-----------------------------------------------------------------------------
(* The list, while nobody has met another.                                 *)

\* A slot behind the list, and a new array, leave the list as it is.
LEMMA ListKept ==
  ASSUME ListInv, ListStep, ~Crash, met = {}, \A s \in Sessions : ~Assign(s)
  PROVE  rules' = rules /\ Part(heap', rules) = Part(heap, rules)
<1>1. ShapeInv /\ MeetInv /\ CleanInv /\ ListTypeOK /\ Arrays
  BY DEF ListInv, ShapeInv
<1>2. rules \in Slice /\ rules.array \in DOMAIN heap /\ heap \in Memory
  BY <1>1, HeapParts DEF ListTypeOK, Arrays, Memory
<1>3. ASSUME NEW list \in Seq(SlotRule), NEW cap \in Nat, cap >= Len(list),
             heap' = Append(heap, Padded(list, cap))
      PROVE  Part(heap', rules) = Part(heap, rules)
  <2>1. heap' \in Memory /\ Differs(heap, heap', 1, {})
    BY <1>2, <1>3, NewDiffers
  <2> QED
    BY <1>2, <2>1, SamePart
<1>4. ASSUME NEW s \in Sessions, AddLoads(s) \/ DeleteLoads(s) \/ Save(s)
      PROVE  rules' = rules /\ heap' = heap
  BY <1>4 DEF AddLoads, DeleteLoads, Save, Crash
<1>5. ASSUME NEW s \in Sessions, AddInPlace(s)
      PROVE  rules' = rules /\ Part(heap', rules) = Part(heap, rules)
  <2>1. op[s] \in Op /\ op[s].base \in Slice /\ op[s].rule \in SlotRule
    BY <1>1, OpParts
  <2>2. PICK new : new = [op[s].base EXCEPT !.len = @ + 1]
    OBVIOUS
  <2>3. /\ op[s].phase = "adding" /\ op[s].base.len < Cap(op[s].base) /\ rules' = rules
        /\ heap' = heap \/ heap' = Stored(heap, new.array, new.len, op[s].rule)
    BY <1>5, <2>2 DEF AddInPlace, PutLast, Stored
  <2>4. op[s].base = rules
    BY <1>1, <2>3 DEF CleanInv, Clean
  <2>5. new \in Slice /\ new.array = rules.array /\ new.len = rules.len + 1
    BY <1>2, <2>2, <2>4, Longer
  <2>6. SoundIn(heap, new)
    <3>1. PICK l \in Nat, m \in Nat : l = rules.len /\ m = Len(heap[rules.array])
      BY <1>1, <1>2, SliceParts, HeapParts
    <3>2. l < m
      BY <2>3, <2>4, <3>1 DEF Cap
    <3> QED
      BY <2>5, <3>1, <3>2 DEF SoundIn
  <2>7. CASE heap' = Stored(heap, new.array, new.len, op[s].rule)
    BY <1>2, <2>1, <2>3, <2>5, <2>6, <2>7, StoredPart
  <2> QED
    BY <2>3, <2>7
<1>6. ASSUME NEW s \in Sessions, AddGrows(s), Sound(op[s].base)
      PROVE  rules' = rules /\ Part(heap', rules) = Part(heap, rules)
  <2>1. PICK list \in Seq(SlotRule), cap \in Nat :
          /\ list = Append(Contents(op[s].base), op[s].rule) /\ cap = Grown(op[s].base.len)
          /\ cap >= Len(list)
    BY <1>1, <1>6, AddGrowsShape
  <2>2. heap' = Append(heap, Padded(list, cap)) /\ rules' = rules
    BY <1>6, <2>1, Zenon DEF AddGrows
  <2> QED
    BY <1>3, <2>1, <2>2
<1>7. ASSUME NEW s \in Sessions, DeleteCopies(s)
      PROVE  rules' = rules /\ Part(heap', rules) = Part(heap, rules)
  <2>1. \/ heap' = heap /\ rules' = rules
        \/ \E list \in Seq(SlotRule) :
             /\ rules' = rules
             /\ heap' = IF list = <<>> THEN heap ELSE Append(heap, Padded(list, CapFor[Len(list)]))
    BY <1>1, <1>7, DeleteCases, Zenon
  <2>2. ASSUME NEW list \in Seq(SlotRule), heap' = Append(heap, Padded(list, CapFor[Len(list)]))
        PROVE  Part(heap', rules) = Part(heap, rules)
    <3>1. PICK cap \in Nat : cap = CapFor[Len(list)] /\ cap >= Len(list)
      <4>1. Len(list) \in Nat
        OBVIOUS
      <4> QED
        BY <4>1, CapForEnough
    <3> QED
      BY <1>3, <2>2, <3>1
  <2> QED
    BY <2>1, <2>2
<1>8. ASSUME NEW k \in Checks,
             CheckLoads(k) \/ (CheckAppends(k) /\ Sound(check[k].base)) \/ CheckSorts(k) \/ CheckEnds(k)
      PROVE  rules' = rules /\ heap' = heap
  BY <1>8 DEF CheckLoads, CheckAppends, CheckSorts, CheckEnds
<1>9. ASSUME NEW k \in Checks, CheckAppendsInPlace(k)
      PROVE  rules' = rules /\ Part(heap', rules) = Part(heap, rules)
  <2>1. PICK base \in Slice : base = check[k].base
    BY <1>1, CheckParts
  <2>2. PICK b \in Nat, w \in Nat, r \in Nat : b = base.len /\ w = WideCount /\ r = rules.len
    BY <1>2, <2>1, SliceParts, ListBoundsAssumption
  <2>3. heap' \in Memory /\ Differs(heap, heap', base.array, (b + 1)..(b + w))
    BY <1>1, <1>9, <2>1, <2>2, CheckInPlaceShape
  <2>4. Behind(heap, check[k], rules)
    BY <1>1 DEF CleanInv, Calm
  <2>5. RoomIn(heap, base) /\ At(check[k]) /\ rules' = rules
    BY <1>9, <2>1 DEF CheckAppendsInPlace, HasRoom, Cap, RoomIn, At
  <2>6. rules.array = base.array => r <= b
    BY <2>1, <2>2, <2>4, <2>5 DEF Behind
  <2>7. rules.array = base.array => \A i \in 1..rules.len : i \notin (b + 1)..(b + w)
    BY <2>2, <2>6
  <2>8. Part(heap', rules) = Part(heap, rules)
    BY <1>2, <2>3, <2>7, SamePart
  <2> QED
    BY <2>5, <2>8
<1> QED
  BY <1>4, <1>5, <1>6, <1>7, <1>8, <1>9 DEF ListStep

\* The slice a session stores is what it was asked for.
LEMMA ListAssigned ==
  ASSUME ListInv, NEW s \in Sessions, Assign(s), met = {}
  PROVE  \/ Part(heap', rules') = Append(Part(heap, rules), op[s].rule)
         \/ /\ Part(heap', rules') = Book!Without(Part(heap, rules), op[s].gone)
            /\ \E i \in 1..Len(Part(heap, rules)) : Part(heap, rules)[i] \in op[s].gone
<1>1. ShapeInv /\ MeetInv /\ CleanInv /\ ListTypeOK /\ Arrays
  BY DEF ListInv, ShapeInv
<1>2. op[s] \in Op /\ op[s].new \in Slice /\ op[s].rule \in SlotRule
  BY <1>1, OpParts
<1>3. op[s].phase = "assigning" /\ Busy(s) /\ rules' \in Stores(s)
  BY DEF Assign, Busy
<1>4. Storing = {s}
  BY <1>1, <1>3, Alone DEF Storing
<1>5. rules' = op[s].new
  BY <1>1, <1>3, <1>4, CalmStores
<1>6. Clean(heap, op[s], rules)
  BY <1>1 DEF CleanInv
<1>7. CASE ~op[s].late
  <2>1. heap' = heap
    BY <1>7 DEF Assign
  <2> QED
    BY <1>3, <1>5, <1>6, <1>7, <2>1 DEF Clean
<1>8. CASE op[s].late
  <2>1. heap' = Stored(heap, op[s].new.array, op[s].new.len, op[s].rule)
    BY <1>8 DEF Assign, PutLast, Stored
  <2>2. op[s].new.array = rules.array /\ op[s].new.len = rules.len + 1 /\ SoundIn(heap, op[s].new)
    BY <1>3, <1>6, <1>8 DEF Clean
  <2>3. rules \in Slice /\ rules.array \in DOMAIN heap /\ heap \in Memory
    BY <1>1, HeapParts DEF ListTypeOK, Arrays, Memory
  <2>4. Part(heap', op[s].new) = Append(Part(heap, rules), op[s].rule)
    BY <1>2, <2>1, <2>2, <2>3, StoredPart
  <2> QED
    BY <1>5, <2>4
<1> QED
  BY <1>7, <1>8

\* The list changes by one rule added at its end or by taking out exactly those whose
\* ID begins as the console said, and by nothing that a check or a look at a rule does
\* to the array behind it: the memory implements the book, until two meet
\* (parse.go:268, ssh.go:636-692).
THEOREM ListIsABookCorrect == ListSpec => ListIsABook
<1>1. ListInit => Book!Init
  BY InitShape, ContentsIsPart DEF ListInit, Book!Init
<1>2. ASSUME ListInv, [ListNext]_listVars PROVE [Book!Next]_(Contents(rules))
  <2>1. CASE met # {}
    BY <2>1 DEF Book!Next
  <2>2. CASE Crash \/ UNCHANGED listVars
    <3>1. (Contents(rules))' = Contents(rules)
      <4>1. heap' = heap /\ rules' = rules
        BY <2>2 DEF Crash, listVars
      <4> QED
        BY <4>1 DEF Contents, Sound, Cap
    <3> QED
      BY <3>1
  <2>3. ASSUME ListStep, ~Crash, met = {}, NEW s \in Sessions, Assign(s)
        PROVE  Book!Next
    <3>1. op[s].rule \in SlotRule /\ op[s].gone \in Given \cup {{}}
      BY <1>2, OpParts DEF ListInv, ShapeInv
    <3>2. Book!Add(op[s].rule) \/ (op[s].gone \in Given /\ Book!Remove(op[s].gone))
      <4>1. \/ (Contents(rules))' = Append(Contents(rules), op[s].rule)
            \/ /\ (Contents(rules))' = Book!Without(Contents(rules), op[s].gone)
               /\ \E i \in 1..Len(Contents(rules)) : Contents(rules)[i] \in op[s].gone
        BY <1>2, <2>3, ListAssigned, ContentsIsPart
      <4> QED
        BY <3>1, <4>1 DEF Book!Add, Book!Remove
    <3> QED
      BY <3>1, <3>2 DEF Book!Next
  <2>4. ASSUME ListStep, ~Crash, met = {}, \A s \in Sessions : ~Assign(s)
        PROVE  (Contents(rules))' = Contents(rules)
    BY <1>2, <2>4, ListKept, ContentsIsPart
  <2> QED
    BY <1>2, <2>1, <2>2, <2>3, <2>4, StepCases
<1> QED
  BY <1>1, <1>2, InitInv, StepInv, PTL DEF ListSpec, ListIsABook, Book!Spec

-----------------------------------------------------------------------------
(* The file.                                                               *)

\* Once a session has saved, the file holds the list until the next one stores.
FileInv ==
  ~unsaved /\ (\A s \in Sessions : op[s].phase # "saving") =>
    rules.len = 0 \/ file = Part(heap, rules)

\* Whether a save lies ahead does not change, but with a store.
LEMMA SavingKept ==
  ASSUME ListTypeOK, ListStep, ~Crash, \A s \in Sessions : ~Assign(s) /\ ~Save(s),
         \A s \in Sessions : op'[s].phase # "saving"
  PROVE  /\ \A s \in Sessions : op[s].phase # "saving"
         /\ file' = file<1>1. op \in [Sessions -> Op]
  BY DEF ListTypeOK
<1>2. ASSUME NEW s \in Sessions, AddLoads(s) \/ DeleteLoads(s)
      PROVE  /\ op[s].phase # "saving" /\ file' = file
             /\ \A q \in Sessions : q # s => op'[q] = op[q]
  <2>1. PICK x : op' = [op EXCEPT ![s] = x]
    BY <1>2, Zenon DEF AddLoads, DeleteLoads
  <2>2. op[s].phase = "idle" /\ file' = file
    BY <1>2 DEF AddLoads, DeleteLoads, Busy
  <2> QED
    BY <1>1, <2>1, <2>2
<1>3. ASSUME NEW s \in Sessions, AddInPlace(s) \/ (AddGrows(s) /\ Sound(op[s].base))
      PROVE  /\ op[s].phase # "saving" /\ file' = file
             /\ \A q \in Sessions : q # s => op'[q] = op[q]
  <2>1. op[s].phase = "adding" /\ file' = file
    BY <1>3 DEF AddInPlace, AddGrows
  <2> QED
    BY <1>3, <2>1, PhaseAfter
<1>4. ASSUME NEW s \in Sessions, DeleteCopies(s)
      PROVE  /\ op[s].phase # "saving" /\ file' = file
             /\ \A q \in Sessions : q # s => op'[q] = op[q]
  <2>1. op[s].phase = "deleting"
    BY <1>4 DEF DeleteCopies
  <2>2. file' = file /\ (op' = [op EXCEPT ![s] = NoOp]
                         \/ \E n : op' = [op EXCEPT ![s].phase = "assigning", ![s].new = n])
    BY <1>4, Zenon DEF DeleteCopies, Crash
  <2> QED
    BY <1>1, <2>1, <2>2
<1>5. ASSUME NEW k \in Checks,
             CheckLoads(k) \/ CheckAppendsInPlace(k)
               \/ (CheckAppends(k) /\ Sound(check[k].base)) \/ CheckSorts(k) \/ CheckEnds(k)
      PROVE  op' = op /\ file' = file
  BY <1>5 DEF CheckLoads, CheckAppendsInPlace, CheckAppends, CheckSorts, CheckEnds
<1>6. \/ op' = op /\ file' = file
      \/ \E s \in Sessions : /\ op[s].phase # "saving" /\ file' = file
                             /\ \A q \in Sessions : q # s => op'[q] = op[q]
  BY <1>2, <1>3, <1>4, <1>5 DEF ListStep
<1> QED
  BY <1>6

\* A save that follows one that failed, or some who met, is as good as any.
LEMMA UnsavedAfter ==
  ASSUME ListInv, ListStep, ~Crash, \A s \in Sessions : ~Save(s), ~unsaved'
  PROVE  ~unsaved /\ met = {}
<1>1. ListTypeOK /\ unsaved \in BOOLEAN /\ (met # {} => unsaved)
  BY DEF ListInv, ShapeInv, ListTypeOK, MeetInv
<1>2. unsaved' = unsaved \/ \E p, others : Joins(p, others)
  <2>1. ASSUME NEW s \in Sessions, DeleteCopies(s) PROVE unsaved' = unsaved
    BY <2>1 DEF DeleteCopies, Crash, listHistory
  <2>2. ASSUME NEW s \in Sessions, AddInPlace(s) \/ Assign(s)
        PROVE  unsaved' = unsaved \/ \E others : Joins(s, others)
    BY <2>2 DEF AddInPlace, Assign, Tramples
  <2>3. ASSUME NEW s \in Sessions, AddLoads(s) \/ DeleteLoads(s)
        PROVE  Joins(s, OthersBusy(s))
    BY <2>3 DEF AddLoads, DeleteLoads
  <2>4. ASSUME NEW s \in Sessions, AddGrows(s), Sound(op[s].base) PROVE unsaved' = unsaved
    BY <2>4 DEF AddGrows, listHistory
  <2>5. ASSUME NEW k \in Checks, CheckLoads(k) \/ CheckAppendsInPlace(k)
        PROVE  \E others : Joins(k, others)
    BY <2>5 DEF CheckLoads, CheckAppendsInPlace
  <2>6. ASSUME NEW k \in Checks,
               (CheckAppends(k) /\ Sound(check[k].base)) \/ CheckSorts(k) \/ CheckEnds(k)
        PROVE  unsaved' = unsaved
    BY <2>6 DEF CheckAppends, CheckSorts, CheckEnds, listHistory
  <2> QED
    BY <2>1, <2>2, <2>3, <2>4, <2>5, <2>6 DEF ListStep
<1>3. unsaved => unsaved'
  BY <1>1, <1>2, JoinsShape
<1> QED
  BY <1>1, <1>3

LEMMA StepFile == ListInv /\ FileInv /\ [ListNext]_listVars => FileInv'
<1> SUFFICES ASSUME ListInv, FileInv, [ListNext]_listVars,
                    ~unsaved', \A s \in Sessions : op'[s].phase # "saving"
             PROVE  rules'.len = 0 \/ file' = Part(heap', rules')
  BY DEF FileInv
<1>1. ListTypeOK /\ MeetInv
  BY DEF ListInv, ShapeInv
<1>2. CASE Crash \/ UNCHANGED listVars
  <2>1. UNCHANGED <<heap, rules, op, file, unsaved>>
    BY <1>2 DEF Crash, listVars, listHistory
  <2> QED
    BY <2>1 DEF FileInv
<1>3. ASSUME ListStep, ~Crash, NEW s \in Sessions, Assign(s) PROVE FALSE
  BY <1>1, <1>3, PhaseAfter
<1>4. ASSUME ListStep, ~Crash, NEW s \in Sessions, Save(s)
      PROVE  rules'.len = 0 \/ file' = Part(heap', rules')
  <2>1. PICK now \in Loads :
          /\ \/ now.len = 0 /\ UNCHANGED <<file, unsaved>>
             \/ now.len > 0 /\ file' = Contents(now) /\ unsaved' = (unsaved /\ met # {})
             \/ now.len > 0 /\ unsaved' = TRUE /\ UNCHANGED file
          /\ UNCHANGED <<heap, rules>>
    BY <1>4 DEF Save
  <2>2. met = {}
    BY <1>1, <2>1 DEF MeetInv
  <2>3. op[s].phase = "saving" /\ Busy(s)
    BY <1>4 DEF Save, Busy
  <2>4. Storing = {}
    BY <1>1, <2>2, <2>3, Alone DEF Storing
  <2>5. now = rules
    BY <1>1, <2>4, CalmLoads
  <2> QED
    BY <2>1, <2>5, ContentsIsPart
<1>5. ASSUME ListStep, ~Crash, \A s \in Sessions : ~Assign(s) /\ ~Save(s)
      PROVE  rules'.len = 0 \/ file' = Part(heap', rules')
  <2>1. ~unsaved /\ met = {}
    BY <1>5, UnsavedAfter
  <2>2. rules' = rules /\ Part(heap', rules) = Part(heap, rules)
    BY <1>5, <2>1, ListKept
  <2>3. (\A s \in Sessions : op[s].phase # "saving") /\ file' = file
    BY <1>1, <1>5, SavingKept
  <2> QED
    BY <2>1, <2>2, <2>3 DEF FileInv
<1> QED
  BY <1>2, <1>3, <1>4, <1>5, StepCases

\* When no session is at work the file holds the list, unless it is empty, the last
\* save failed, or sessions have met since (frontend.go:146-166, ssh.go:674, 689).
THEOREM FileFollowsCorrect == ListSpec => []FileFollows
<1>1. ListInit => FileInv
  BY InitShape DEF FileInv
<1>2. FileInv => FileFollows
  BY ContentsIsPart DEF FileInv, FileFollows, Busy
<1> QED
  BY <1>1, <1>2, InitInv, StepInv, StepFile, PTL DEF ListSpec
=============================================================================
