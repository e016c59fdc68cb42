--------------------------- MODULE ProbeRounds_proofs ---------------------------
(***************************************************************************)
(* Proofs about Score and ProbeRounds, for every value of their constants  *)
(* that is no bound of a run: any agents, answers of their endpoints,      *)
(* events, sizes of a chunk and order of agent_id.                         *)
(***************************************************************************)
EXTENDS ProbeRounds, FiniteSetTheorems, SequenceTheorems, WellFoundedInduction, TLAPS

-----------------------------------------------------------------------------
(* Scores                                                                  *)

\* Rounding to the nearest does not leave a bound that is a whole number.
LEMMA RoundBound ==
    ASSUME NEW n \in Nat, NEW d \in Nat \ {0}, NEW k \in Nat, n <= k * d
    PROVE  RoundHalfEven(n, d) \in 0 .. k
  <1> DEFINE q == n \div d
             r == n % d
  <1>1. q \in Nat /\ r \in 0 .. d - 1 /\ n = d * q + r
    OBVIOUS
  <1>2. RoundHalfEven(n, d) = IF 2 * r > d \/ (2 * r = d /\ q % 2 = 1) THEN q + 1 ELSE q
    BY DEF RoundHalfEven
  <1> HIDE DEF q, r
  <1>3. q <= k
    <2> SUFFICES ASSUME q >= k + 1
                 PROVE  FALSE
      BY <1>1
    <2>1. d * q >= d * (k + 1)
      BY <1>1
    <2>2. d * (k + 1) = k * d + d
      OBVIOUS
    <2>3. d * q \in Nat /\ k * d \in Nat /\ d * (k + 1) \in Nat
      BY <1>1
    <2> QED
      BY <1>1, <2>1, <2>2, <2>3
  <1>4. CASE q = k
    <2>1. r = 0
      <3>1. d * q = k * d /\ k * d \in Nat
        BY <1>4
      <3> QED
        BY <1>1, <3>1
    <2> QED
      BY <1>1, <1>2, <1>4, <2>1
  <1>5. CASE q < k
    BY <1>1, <1>2, <1>5
  <1> QED
    BY <1>1, <1>3, <1>4, <1>5

LEMMA RoundPercent ==
    ASSUME NEW n \in Nat, NEW d \in Nat \ {0}, n <= 100 * d
    PROVE  RoundHalfEven(n, d) \in 0 .. 100
  BY RoundBound

\* Every nonempty set of natural numbers has a least member: the intervals up
\* to its members are finite sets, ordered by inclusion.
LEMMA LeastNatural ==
    ASSUME NEW T \in SUBSET Nat, T # {}
    PROVE  \E m \in T : \A n \in T : m <= n
  <1>1. PICK top \in T : TRUE
    OBVIOUS
  <1> DEFINE all == 0 .. top
             upTo == {0 .. m : m \in {n \in T : n <= top}}
  <1>2. IsFiniteSet(all) /\ FiniteSubsetsOf(all) = SUBSET all
    <2>1. IsFiniteSet(0 .. top)
      BY <1>1, FS_Interval
    <2> QED
      BY <2>1, FS_FiniteSubsetsOfFinite
  <1>3. IsWellFoundedOn(StrictSubsetOrdering(all), SUBSET all)
    BY <1>2, FS_StrictSubsetOrderingWellFounded
  <1>4. upTo \subseteq SUBSET all /\ upTo # {}
    BY <1>1
  <1>5. PICK least \in upTo : \A X \in upTo : ~(<<X, least>> \in StrictSubsetOrdering(all))
    <2> HIDE DEF upTo, all
    <2> QED
      BY <1>3, <1>4, WFMin
  <1>6. PICK m \in T : m <= top /\ least = 0 .. m
    OBVIOUS
  <1>7. ASSUME NEW n \in T, n < m
        PROVE  FALSE
    <2>1. 0 .. n \in upTo
      BY <1>1, <1>6, <1>7
    <2>2. 0 .. n \subseteq 0 .. m /\ m \in 0 .. m /\ m \notin 0 .. n
      BY <1>7
    <2>3. <<0 .. n, 0 .. m>> \in StrictSubsetOrdering(all)
      <3>1. 0 .. n \in SUBSET all /\ 0 .. m \in SUBSET all /\ 0 .. n # 0 .. m
        BY <1>4, <1>6, <2>1, <2>2
      <3> HIDE DEF all
      <3> QED
        BY <2>2, <3>1 DEF StrictSubsetOrdering
    <2> QED
      BY <1>5, <1>6, <2>1, <2>3
  <1> QED
    BY <1>6, <1>7

\* What a probe returns, and its points: all pillars are between 0 and 100.
LEMMA VerdictType ==
    ASSUME NEW a \in Agent, NEW p \in Probe(a)
    PROVE  p \in [responded : BOOLEAN, latency : Nat, online : BOOLEAN, skills : Nat]
  <1>1. PICK answer \in Answers[a] : p = Verdict(Card[a], answer[1], answer[2])
    BY DEF Probe
  <1>2. /\ Card[a].latency \in Nat /\ Card[a].skills \in Nat /\ Card[a].online \in BOOLEAN
        /\ Card[a].retryAfter \in Nat
    BY RoundsAssumption
  <1>3. Waited(Card[a], answer[1]) \in Nat
    BY <1>2 DEF Waited, RetryWait
  <1> QED
    BY <1>1, <1>2, <1>3 DEF Verdict

LEMMA ProbePillarBound ==
    ASSUME NEW a \in Agent, NEW p \in Probe(a)
    PROVE  ProbePillar(p) \in 0 .. 100
  <1>1. p.skills \in Nat /\ p.latency \in Nat
    BY VerdictType
  <1>2. RespondedPoints(p) \in 0 .. 100 /\ PresencePoints(p) \in 0 .. 100
    BY DEF RespondedPoints, PresencePoints
  <1>3. SkillsPoints(p) \in 0 .. 100
    BY <1>1 DEF SkillsPoints, AtMost
  <1>4. LatencyPoints(p.latency) \in 0 .. 100
    BY <1>1 DEF LatencyPoints
  <1>5. PROBE_WEIGHTS.responded = 5 /\ PROBE_WEIGHTS.latency = 3
        /\ PROBE_WEIGHTS.presence = 1 /\ PROBE_WEIGHTS.skills = 1
    BY DEF PROBE_WEIGHTS
  <1> DEFINE w == PROBE_WEIGHTS
             n == w.responded * RespondedPoints(p) + w.latency * LatencyPoints(p.latency)
                    + w.presence * PresencePoints(p) + w.skills * SkillsPoints(p)
  <1>6. n \in Nat /\ n <= 100 * 10
    <2> DEFINE r == RespondedPoints(p)
               l == LatencyPoints(p.latency)
               o == PresencePoints(p)
               s == SkillsPoints(p)
    <2>1. n = 5 * r + 3 * l + 1 * o + 1 * s
      BY <1>5, Zenon
    <2>2. r \in 0 .. 100 /\ l \in 0 .. 100 /\ o \in 0 .. 100 /\ s \in 0 .. 100
      BY <1>2, <1>3, <1>4
    <2> HIDE DEF n, r, l, o, s
    <2> QED
      BY <2>1, <2>2
  <1> HIDE DEF n
  <1>7. RoundHalfEven(n, 10) \in 0 .. 100
    BY <1>6, RoundPercent
  <1> QED
    BY <1>7 DEF ProbePillar, n

\* The image of a finite set of events under one of its columns.
LEMMA ColumnCount ==
    ASSUME NEW S, IsFiniteSet(S), NEW f
    PROVE  Cardinality({f[e] : e \in S}) \in Nat
  <1> DEFINE g == [e \in S |-> f[e]]
             T == {f[e] : e \in S}
  <1>1. g \in Surjection(S, T)
    BY DEF Surjection
  <1> HIDE DEF g, T
  <1>2. IsFiniteSet(T)
    BY <1>1, FS_Surjection
  <1>3. Cardinality(T) \in Nat
    BY <1>2, FS_CardinalityType
  <1> QED
    BY <1>3 DEF T

LEMMA TrackType ==
    ASSUME NEW a \in Agent, NEW t \in Track(a)
    PROVE  t.events \in Nat /\ t.buyers \in Nat /\ t.age \in Nat /\ t.recency \in Nat
  <1>1. PICK rows \in Activity : t = TrackRecord(rows, Age[a])
    BY DEF Track
  <1> DEFINE window == {e \in rows : e.days < TRACK_WINDOW_DAYS}
             sold == {x \in window : x.from # ZERO_ADDRESS}
             days == {e.days : e \in window}
             txs == [e \in rows |-> e.tx]
             tos == [e \in rows |-> e.to]
  <1>2. /\ IsFiniteSet(rows)
        /\ rows \subseteq [tx : Nat, from : Nat, to : Nat, days : Nat]
    BY RoundsAssumption
  <1>3. IsFiniteSet(window) /\ IsFiniteSet(sold)
    <2>1. window \subseteq rows /\ sold \subseteq window
      OBVIOUS
    <2> HIDE DEF window, sold
    <2> QED
      BY <1>2, <2>1, FS_Subset
  <1>4. /\ {e.tx : e \in window} = {txs[e] : e \in window}
        /\ {e.to : e \in sold} = {tos[e] : e \in sold}
    OBVIOUS
  <1>5. Cardinality({txs[e] : e \in window}) \in Nat /\ Cardinality({tos[e] : e \in sold}) \in Nat
    <2> HIDE DEF window, sold, txs, tos
    <2> QED
      BY <1>3, ColumnCount
  <1>6. days \in SUBSET Nat
    BY <1>2
  <1>7. (IF days = {} THEN 0 ELSE CHOOSE d \in days : \A o \in days : d <= o) \in Nat
    <2> HIDE DEF days
    <2>1. CASE days = {}
      BY <2>1
    <2>2. CASE days # {}
      <3>1. \E d \in days : \A o \in days : d <= o
        BY <1>6, <2>2, LeastNatural
      <3>2. (CHOOSE d \in days : \A o \in days : d <= o) \in days
        BY <3>1, Zenon
      <3> QED
        BY <1>6, <2>2, <3>2
    <2> QED
      BY <2>1, <2>2
  <1>8. t = [events |-> Cardinality({e.tx : e \in window}),
             buyers |-> Cardinality({e.to : e \in sold}), age |-> Age[a],
             recency |-> IF days = {} THEN 0 ELSE CHOOSE d \in days : \A o \in days : d <= o]
    BY <1>1 DEF TrackRecord
  <1>9. Age[a] \in Nat
    BY RoundsAssumption
  <1> HIDE DEF window, sold, days, txs, tos
  <1> QED
    BY <1>4, <1>5, <1>7, <1>8, <1>9

LEMMA TrackPillarBound ==
    ASSUME NEW a \in Agent, NEW t \in Track(a), ~Raises(t)
    PROVE  TrackPillar(t) \in 0 .. 100
  <1>1. t.events \in Nat /\ t.buyers \in Nat /\ t.age \in Nat /\ t.recency \in Nat
    BY TrackType
  <1>2. CASE t.events = 0
    BY <1>2 DEF TrackPillar
  <1>3. CASE t.events # 0
    <2> DEFINE aged == RoundHalfEven(AtMost(t.age, 12) * 100, 12)
               fresh == IF t.recency <= 30 THEN 100 ELSE RoundHalfEven(3000, t.recency)
               n == aged + AtMost(t.events, 10) * 10 + AtMost(t.buyers, 10) * 10 + fresh
    <2>1. aged \in 0 .. 100
      <3>1. AtMost(t.age, 12) * 100 \in Nat /\ AtMost(t.age, 12) * 100 <= 100 * 12
        BY <1>1 DEF AtMost
      <3> QED
        BY <3>1, RoundPercent
    <2>2. fresh \in 0 .. 100
      <3>1. CASE t.recency <= 30
        BY <3>1
      <3>2. CASE ~(t.recency <= 30)
        <4>1. t.recency \in Nat \ {0} /\ 3000 <= 100 * t.recency
          BY <1>1, <3>2
        <4>2. RoundHalfEven(3000, t.recency) \in 0 .. 100
          BY <4>1, RoundPercent
        <4> QED
          BY <3>2, <4>2
      <3> QED
        BY <3>1, <3>2
    <2>3. AtMost(t.events, 10) * 10 \in 0 .. 100 /\ AtMost(t.buyers, 10) * 10 \in 0 .. 100
      BY <1>1 DEF AtMost
    <2> HIDE DEF aged, fresh
    <2>4. n \in Nat /\ n <= 100 * 4
      <3> DEFINE x == AtMost(t.events, 10) * 10
                 y == AtMost(t.buyers, 10) * 10
      <3>1. n = aged + x + y + fresh /\ x \in 0 .. 100 /\ y \in 0 .. 100
        BY <2>3
      <3> HIDE DEF n, x, y
      <3> QED
        BY <2>1, <2>2, <3>1
    <2> HIDE DEF n
    <2>5. RoundHalfEven(n, 4) \in 0 .. 100
      BY <2>4, RoundPercent
    <2> QED
      BY <1>3, <2>5 DEF TrackPillar, n, aged, fresh
  <1> QED
    BY <1>2, <1>3

LEMMA CompositeBound ==
    ASSUME NEW x \in 0 .. 100, NEW y \in 0 .. 100
    PROVE  Composite(x, y) \in 0 .. 100
  <1>1. 6 * x + 4 * y \in Nat /\ 6 * x + 4 * y <= 100 * 10
    OBVIOUS
  <1> QED
    BY <1>1, RoundPercent DEF Composite

\* Every score is between 0 and 100: of a probe and a track record, and of a
\* track record alone.
THEOREM ScoreBound ==
    ASSUME NEW a \in Agent, NEW t \in Track(a), ~Raises(t)
    PROVE  /\ TrackPillar(t) \in 0 .. 100
           /\ \A p \in Probe(a) : Composite(ProbePillar(p), TrackPillar(t)) \in 0 .. 100
  BY TrackPillarBound, ProbePillarBound, CompositeBound

-----------------------------------------------------------------------------
(* Invariance                                                              *)

CycleType == [pc : {"idle", "running"}, chunk : Nat, todo : Seq(Agent), at : Agent \cup {None},
              probe : Verdicts \cup {None}, waiting : SUBSET Agent,
              got : [Agent -> Result \cup {None}]]

LEMMA Constants ==
    /\ MaxCycle \in Nat /\ MaxBatch \in Nat /\ Chunks \subseteq Nat /\ None \notin Agent
    /\ None \notin Row /\ None \notin ProbeRow /\ None \notin Result
    /\ Orphan \subseteq Agent
  BY RoundsAssumption, NoneAssumption

\* A cycle that has just begun or is over has nothing in its hands.
LEMMA EmptyHands ==
    ASSUME NEW c, c.got = [a \in Agent |-> None], c.at = None, cyc' = c
    PROVE  /\ Probed' = {} /\ \A a \in Agent : ~LockedByCycle(a)'
           /\ Taken' = {c.todo[i] : i \in DOMAIN c.todo}
           /\ IsFiniteSet(Probed') /\ Cardinality(Probed') = 0
  <1>1. Probed' = {}
    BY DEF Probed
  <1> QED
    BY <1>1, FS_EmptySet DEF LockedByCycle, Taken

LEMMA IdleFacts ==
    /\ IdleCycle \in CycleType
    /\ IdleCycle.got = [a \in Agent |-> None] /\ IdleCycle.at = None /\ IdleCycle.waiting = {}
    /\ IdleCycle.todo = <<>> /\ Len(IdleCycle.todo) = 0 /\ IdleCycle.chunk = 0
    /\ {IdleCycle.todo[i] : i \in DOMAIN IdleCycle.todo} = {} /\ IdleCycle.pc = "idle"
  BY DEF IdleCycle, CycleType

LEMMA InitInvariant == Init => IInv
  <1> SUFFICES ASSUME Init
               PROVE  IInv
    OBVIOUS
  <1> USE DEF Init
  <1>1. Probed = {} /\ IsFiniteSet(Probed) /\ Cardinality(Probed) = 0
    <2>1. Probed = {}
      BY DEF Probed, IdleCycle
    <2> QED
      BY <2>1, FS_EmptySet
  <1>2. TypeOK
    <2>1. IsFiniteSet(sync.wrote) /\ Cardinality(sync.wrote) = 0 /\ Len(sync.todo) = 0
      BY FS_EmptySet DEF IdleSync
    <2>2. sync \in [todo : Seq(Agent), wrote : SUBSET Agent]
      BY DEF IdleSync
    <2> QED
      BY <1>1, <2>1, <2>2, IdleFacts, Constants DEF TypeOK, CycleType
  <1>3. ClockInv /\ HealthIsLatestProbe /\ ScoreFollowsProbe
    BY IdleFacts DEF ClockInv, HealthIsLatestProbe, ScoreFollowsProbe
  <1>4. GotInv /\ OwnProbes
    BY <1>1, IdleFacts, FS_EmptySet DEF GotInv, OwnProbes, IdleSync
  <1>5. TurnInv
    BY <1>1, IdleFacts DEF TurnInv
  <1> QED
    BY <1>2, <1>3, <1>4, <1>5 DEF IInv

\* Steps of the sync before its commit, and of a request before its own.
LEMMA SyncOnly ==
    ASSUME IInv, UNCHANGED <<clock, row, last, cyc, ask, histVars>>,
           sync' \in [todo : Seq(Agent), wrote : SUBSET Agent],
           IsFiniteSet(sync'.wrote), Len(sync'.todo) + Cardinality(sync'.wrote) <= MaxBatch
    PROVE  IInv'
  <1> USE DEF histVars
  <1>1. Probed' = Probed
    BY DEF Probed
  <1>2. TypeOK'
    BY <1>1 DEF IInv, TypeOK
  <1>3. ClockInv' /\ HealthIsLatestProbe' /\ ScoreFollowsProbe'
    BY DEF IInv, ClockInv, HealthIsLatestProbe, ScoreFollowsProbe
  <1>4. GotInv' /\ OwnProbes'
    BY <1>1 DEF IInv, GotInv, OwnProbes
  <1>5. TurnInv'
    BY <1>1 DEF IInv, TurnInv, Taken
  <1> QED
    BY <1>2, <1>3, <1>4, <1>5 DEF IInv

LEMMA AskOnly ==
    ASSUME IInv, UNCHANGED <<clock, row, last, cyc, sync, histVars>>,
           ask' \in {None} \cup [agent : Agent, probe : ProbeRow \cup {None}]
    PROVE  IInv'
  <1> USE DEF histVars
  <1>1. Probed' = Probed
    BY DEF Probed
  <1>2. TypeOK'
    BY <1>1 DEF IInv, TypeOK
  <1>3. ClockInv' /\ HealthIsLatestProbe' /\ ScoreFollowsProbe'
    BY DEF IInv, ClockInv, HealthIsLatestProbe, ScoreFollowsProbe
  <1>4. GotInv' /\ OwnProbes'
    BY <1>1 DEF IInv, GotInv, OwnProbes
  <1>5. TurnInv'
    BY <1>1 DEF IInv, TurnInv, Taken
  <1> QED
    BY <1>2, <1>3, <1>4, <1>5 DEF IInv

LEMMA IdleSyncFacts ==
    /\ IdleSync \in [todo : Seq(Agent), wrote : SUBSET Agent]
    /\ IsFiniteSet(IdleSync.wrote) /\ Len(IdleSync.todo) + Cardinality(IdleSync.wrote) = 0
  <1>1. IdleSync.wrote = {} /\ IdleSync.todo = <<>> /\ Len(<<>>) = 0
    BY DEF IdleSync
  <1>2. IdleSync \in [todo : Seq(Agent), wrote : SUBSET Agent]
    BY DEF IdleSync
  <1> QED
    BY <1>1, <1>2, FS_EmptySet

LEMMA SyncSteps ==
    ASSUME IInv, UpsertAgent \/ SyncFails \/ \E s \in Batch : StartBatch(s)
    PROVE  IInv'
  <1>1. CASE SyncFails
    BY <1>1, SyncOnly, IdleSyncFacts, Constants DEF SyncFails
  <1>2. ASSUME NEW s \in Batch, StartBatch(s)
        PROVE  IInv'
    <2>1. s \in Seq(Agent) /\ Len(s) <= MaxBatch /\ Len(s) \in Nat
      <3>1. PICK n \in 1 .. MaxBatch : s \in [1 .. n -> Agent]
        BY DEF Batch
      <3>2. n \in Nat /\ n <= MaxBatch
        BY <3>1, Constants
      <3> QED
        BY <3>1, <3>2, SeqDef, LenProperties
    <2>2. sync' = [todo |-> s, wrote |-> {}]
      BY <1>2 DEF StartBatch, IdleSync
    <2>3. /\ sync' \in [todo : Seq(Agent), wrote : SUBSET Agent]
          /\ IsFiniteSet(sync'.wrote) /\ Cardinality(sync'.wrote) = 0 /\ sync'.todo = s
      BY <2>1, <2>2, FS_EmptySet
    <2> QED
      BY <1>2, <2>1, <2>3, SyncOnly, Constants DEF StartBatch
  <1>3. CASE UpsertAgent
    <2> DEFINE a == Head(sync.todo)
    <2>1. /\ sync.todo \in Seq(Agent) /\ sync.todo # <<>> /\ sync.wrote \in SUBSET Agent
          /\ IsFiniteSet(sync.wrote) /\ Len(sync.todo) + Cardinality(sync.wrote) <= MaxBatch
      BY <1>3 DEF UpsertAgent, IInv, TypeOK, GotInv
    <2>2. a \in Agent /\ Tail(sync.todo) \in Seq(Agent) /\ Len(Tail(sync.todo)) = Len(sync.todo) - 1
          /\ Len(sync.todo) \in Nat
      BY <2>1
    <2>3. /\ IsFiniteSet(sync.wrote \cup {a})
          /\ Cardinality(sync.wrote \cup {a}) <= Cardinality(sync.wrote) + 1
          /\ Cardinality(sync.wrote) \in Nat /\ Cardinality(sync.wrote \cup {a}) \in Nat
      <3> HIDE DEF a
      <3>1. /\ IsFiniteSet(sync.wrote \cup {a})
            /\ Cardinality(sync.wrote \cup {a}) =
                 IF a \in sync.wrote THEN Cardinality(sync.wrote) ELSE Cardinality(sync.wrote) + 1
        BY <2>1, FS_AddElement
      <3>2. Cardinality(sync.wrote) \in Nat
        BY <2>1, FS_CardinalityType
      <3> QED
        BY <3>1, <3>2
    <2>4. sync' = [todo |-> Tail(sync.todo), wrote |-> sync.wrote \cup {a}]
      BY <1>3 DEF UpsertAgent
    <2>5. sync'.todo = Tail(sync.todo) /\ sync'.wrote = sync.wrote \cup {a}
      BY <2>4
    <2> HIDE DEF a
    <2>6. sync' \in [todo : Seq(Agent), wrote : SUBSET Agent]
      BY <2>1, <2>2, <2>4
    <2>7. Len(sync'.todo) + Cardinality(sync'.wrote) <= MaxBatch
      BY <2>1, <2>2, <2>3, <2>5, Constants
    <2> QED
      BY <1>3, <2>3, <2>5, <2>6, <2>7, SyncOnly DEF UpsertAgent
  <1> QED
    BY <1>1, <1>2, <1>3

LEMMA AskSteps ==
    ASSUME IInv, AskFails \/ \E a \in Agent : AskScore(a)
    PROVE  IInv'
  <1>1. CASE AskFails
    BY <1>1, AskOnly DEF AskFails
  <1>2. ASSUME NEW a \in Agent, AskScore(a)
        PROVE  IInv'
    <2>1. ask' \in [agent : Agent, probe : ProbeRow \cup {None}]
      BY <1>2 DEF AskScore, LatestProbe, IInv, TypeOK
    <2> QED
      BY <1>2, <2>1, AskOnly DEF AskScore
  <1> QED
    BY <1>1, <1>2

LEMMA CycleFailsStep ==
    ASSUME IInv, CycleFails
    PROVE  IInv'
  <1> USE DEF CycleFails, histVars
  <1>1. Probed' = {} /\ IsFiniteSet(Probed') /\ Cardinality(Probed') = 0 /\ Taken' = {}
    BY EmptyHands, IdleFacts
  <1>2. TypeOK'
    BY <1>1, IdleFacts DEF IInv, TypeOK, CycleType
  <1>3. ClockInv' /\ HealthIsLatestProbe' /\ ScoreFollowsProbe'
    BY IdleFacts DEF IInv, ClockInv, HealthIsLatestProbe, ScoreFollowsProbe
  <1>4. GotInv' /\ OwnProbes'
    BY <1>1, IdleFacts DEF IInv, GotInv, OwnProbes
  <1>5. TurnInv'
    BY <1>1, IdleFacts DEF IInv, TurnInv
  <1> QED
    BY <1>2, <1>3, <1>4, <1>5 DEF IInv

-----------------------------------------------------------------------------
(* The probe cycle                                                         *)

\* A selection is a sequence of at most chunk agents that are probeable, and
\* an agent it leaves out comes after all of them.
LEMMA Selection ==
    ASSUME NEW chunk \in Nat, NEW s \in SelectProbeable(chunk)
    PROVE  /\ s \in Seq(Agent) /\ Len(s) <= chunk /\ Len(s) \in Nat
           /\ \A i \in DOMAIN s : s[i] \in Probeable
           /\ \A a \in Probeable :
                  a \in {s[i] : i \in DOMAIN s} \/ \A i \in DOMAIN s : Before(s[i], a)
  <1>1. PICK n \in 0 .. chunk : s \in [1 .. n -> Probeable]
    BY DEF SelectProbeable
  <1>2. Probeable \subseteq Agent
    BY DEF Probeable
  <1>3. s \in [1 .. n -> Agent] /\ n \in Nat
    BY <1>1, <1>2
  <1>4. s \in Seq(Agent) /\ Len(s) = n
    BY <1>3, SeqDef, LenProperties
  <1> QED
    BY <1>1, <1>4 DEF SelectProbeable

LEMMA StartCycleStep ==
    ASSUME IInv, StartCycle
    PROVE  IInv'
  <1> USE DEF histVars
  <1>0. PICK chunk \in Chunks :
            \E todo \in SelectProbeable(chunk) :
                cyc' = [IdleCycle EXCEPT !.pc = "running", !.chunk = chunk,
                                         !.todo = todo, !.waiting = Probeable]
    BY DEF StartCycle
  <1>1. PICK todo \in SelectProbeable(chunk) :
            cyc' = [IdleCycle EXCEPT !.pc = "running", !.chunk = chunk,
                                     !.todo = todo, !.waiting = Probeable]
    BY <1>0
  <1>2. cyc' = [pc |-> "running", chunk |-> chunk, todo |-> todo, at |-> None, probe |-> None,
                waiting |-> Probeable, got |-> [a \in Agent |-> None]]
    BY <1>1 DEF IdleCycle
  <1>3. chunk \in Nat
    BY Constants
  <1>4. /\ todo \in Seq(Agent) /\ Len(todo) <= chunk /\ Len(todo) \in Nat
        /\ \A i \in DOMAIN todo : todo[i] \in Probeable
        /\ \A a \in Probeable :
               a \in {todo[i] : i \in DOMAIN todo} \/ \A i \in DOMAIN todo : Before(todo[i], a)
    BY <1>3, Selection
  <1>5. /\ Probed' = {} /\ IsFiniteSet(Probed') /\ Cardinality(Probed') = 0
        /\ Taken' = {todo[i] : i \in DOMAIN todo}
    BY <1>2, EmptyHands
  <1>6. /\ clock' = clock + 1 /\ clock < MaxCycle /\ clock \in Nat
        /\ UNCHANGED <<row, last, sync, ask, since, overtaken>>
    BY Constants DEF StartCycle, IInv, TypeOK
  <1>7. \A a \in Probeable : a \in Agent /\ row[a] # None /\ row[a] \in Row
    BY DEF Probeable, IInv, TypeOK
  <1>8. TypeOK'
    <2>1. cyc' \in CycleType
      BY <1>2, <1>3, <1>4, <1>7 DEF CycleType
    <2>2. Len(cyc'.todo) + Cardinality(Probed') + (IF cyc'.at = None THEN 0 ELSE 1) <= cyc'.chunk
      BY <1>2, <1>3, <1>4, <1>5
    <2>3. clock' \in 0 .. MaxCycle
      BY <1>6, Constants
    <2> QED
      BY <1>6, <2>1, <2>2, <2>3 DEF IInv, TypeOK, CycleType
  <1>9. ClockInv'
    <2>1. \A a \in Agent : row[a] # None =>
              /\ row[a].checked \in Nat /\ row[a].checked <= clock
              /\ row[a].probe # None => row[a].checked > 0
      BY Constants DEF IInv, TypeOK, ClockInv, Row
    <2> QED
      BY <1>2, <1>6, <1>7, <2>1 DEF ClockInv
  <1>10. HealthIsLatestProbe' /\ ScoreFollowsProbe'
    BY <1>6 DEF IInv, HealthIsLatestProbe, ScoreFollowsProbe
  <1>11. GotInv' /\ OwnProbes'
    BY <1>2, <1>5, <1>6 DEF IInv, GotInv, OwnProbes
  <1>12. TurnInv'
    <2>1. ASSUME NEW a \in Taken', NEW b \in cyc'.waiting, a \in since'[b]
          PROVE  b \in Taken'
      <3>1. a \in Probeable /\ b \in Probeable /\ a \in since[b]
        BY <1>2, <1>4, <1>5, <1>6, <2>1
      <3>2. row[b].checked < row[a].checked
        BY <1>7, <3>1 DEF IInv, TurnInv
      <3>3. row[a].checked \in Nat /\ row[b].checked \in Nat
        BY <1>7, <3>1, Constants DEF Row
      <3>4. ~Before(a, b)
        BY <3>2, <3>3 DEF Before
      <3> QED
        BY <1>4, <1>5, <2>1, <3>1, <3>4
    <2> QED
      BY <1>6, <2>1 DEF IInv, TurnInv
  <1> QED
    BY <1>8, <1>9, <1>10, <1>11, <1>12 DEF IInv

\* The head of a sequence and the rest hold what the sequence holds.
LEMMA HeadAndTail ==
    ASSUME NEW S, NEW s \in Seq(S), s # <<>>
    PROVE  /\ Head(s) \in S /\ Tail(s) \in Seq(S) /\ Len(Tail(s)) = Len(s) - 1 /\ Len(s) \in Nat \ {0}
           /\ {s[i] : i \in DOMAIN s} = {Head(s)} \cup {Tail(s)[i] : i \in DOMAIN Tail(s)}
  <1>1. /\ Head(s) \in S /\ Tail(s) \in Seq(S) /\ Len(Tail(s)) = Len(s) - 1 /\ Len(s) \in Nat \ {0}
    OBVIOUS
  <1>2. DOMAIN s = 1 .. Len(s) /\ DOMAIN Tail(s) = 1 .. Len(s) - 1
    BY <1>1
  <1>3. Head(s) = s[1] /\ \A i \in 1 .. Len(s) - 1 : Tail(s)[i] = s[i + 1]
    OBVIOUS
  <1>4. ASSUME NEW i \in DOMAIN s
        PROVE  s[i] \in {Head(s)} \cup {Tail(s)[j] : j \in DOMAIN Tail(s)}
    <2>1. CASE i = 1
      BY <1>3, <2>1
    <2>2. CASE i # 1
      <3>1. i - 1 \in 1 .. Len(s) - 1 /\ (i - 1) + 1 = i
        BY <1>1, <1>2, <2>2
      <3> QED
        BY <1>2, <1>3, <3>1
    <2> QED
      BY <2>1, <2>2
  <1>5. Head(s) \in {s[i] : i \in DOMAIN s}
    BY <1>1, <1>2, <1>3
  <1>6. ASSUME NEW j \in DOMAIN Tail(s)
        PROVE  Tail(s)[j] \in {s[i] : i \in DOMAIN s}
    <2>1. j + 1 \in DOMAIN s /\ Tail(s)[j] = s[j + 1]
      BY <1>1, <1>2, <1>3
    <2> QED
      BY <2>1
  <1> QED
    BY <1>1, <1>4, <1>5, <1>6

LEMMA ProbeAgentStep ==
    ASSUME IInv, ProbeAgent
    PROVE  IInv'
  <1> USE DEF histVars
  <1> DEFINE a == Head(cyc.todo)
             rest == Tail(cyc.todo)
  <1>1. /\ cyc \in CycleType /\ cyc.todo # <<>> /\ cyc.at = None
        /\ UNCHANGED <<clock, row, last, sync, ask, since, overtaken>>
    BY DEF ProbeAgent, IInv, TypeOK, CycleType
  <1>2. cyc.todo \in Seq(Agent)
    BY <1>1 DEF CycleType
  <1>3. /\ a \in Agent /\ rest \in Seq(Agent) /\ Len(rest) = Len(cyc.todo) - 1
        /\ Len(cyc.todo) \in Nat \ {0}
        /\ {cyc.todo[i] : i \in DOMAIN cyc.todo} = {a} \cup {rest[i] : i \in DOMAIN rest}
    BY <1>1, <1>2, HeadAndTail
  <1> HIDE DEF a, rest
  <1>4. \/ row[a] = None /\ cyc' = [cyc EXCEPT !.todo = rest]
        \/ \E p \in Probe(a) : cyc' = [cyc EXCEPT !.todo = rest, !.at = a, !.probe = p]
    BY DEF ProbeAgent, a, rest
  <1>5. /\ cyc'.todo = rest /\ cyc'.got = cyc.got /\ cyc'.waiting = cyc.waiting /\ cyc'.chunk = cyc.chunk
        /\ cyc'.pc = cyc.pc
        /\ \/ row[a] = None /\ cyc'.at = None
           \/ cyc'.at = a /\ cyc'.probe \in Probe(a)
    BY <1>1, <1>4 DEF CycleType
  <1>6. Probed' = Probed
    BY <1>5 DEF Probed
  <1>7. TypeOK'
    <2>1. Probe(a) \subseteq Verdicts
      BY <1>3 DEF Verdicts
    <2>2. cyc' \in CycleType
      BY <1>1, <1>3, <1>4, <2>1 DEF CycleType
    <2>3. Cardinality(Probed) \in Nat
      BY FS_CardinalityType DEF IInv, GotInv
    <2>4. Len(cyc.todo) + Cardinality(Probed) <= cyc.chunk /\ cyc.chunk \in Nat
      BY <1>1, <1>3, <2>3 DEF IInv, TypeOK, CycleType
    <2>5. Len(cyc'.todo) + Cardinality(Probed') + (IF cyc'.at = None THEN 0 ELSE 1) <= cyc'.chunk
      BY <1>3, <1>5, <1>6, <2>3, <2>4
    <2> QED
      BY <1>1, <2>2, <2>5 DEF IInv, TypeOK, CycleType
  <1>8. ClockInv' /\ HealthIsLatestProbe' /\ ScoreFollowsProbe'
    BY <1>1, <1>5 DEF IInv, ClockInv, HealthIsLatestProbe, ScoreFollowsProbe
  <1>9. GotInv' /\ OwnProbes'
    <2>1. GotInv'
      BY <1>1, <1>5, <1>6 DEF IInv, GotInv
    <2>2. OwnProbes'
      BY <1>1, <1>5, <1>6 DEF IInv, OwnProbes
    <2> QED
      BY <2>1, <2>2
  <1>10. TurnInv'
    <2>1. Taken = {a} \cup {rest[i] : i \in DOMAIN rest} \cup Probed
      BY <1>1, <1>3 DEF Taken
    <2>2. Taken' = {rest[i] : i \in DOMAIN rest} \cup ({cyc'.at} \ {None}) \cup Probed
      BY <1>5, <1>6 DEF Taken
    <2>6. (row[a] = None /\ Taken' \cup {a} = Taken) \/ Taken' = Taken
      BY <1>3, <1>5, <2>1, <2>2, Constants
    <2>3. \A b \in cyc.waiting : row[b] # None
      BY DEF IInv, ClockInv
    <2>4. \A x \in Taken, b \in cyc.waiting : x \in since[b] => b \in Taken
      BY DEF IInv, TurnInv
    <2>5. \A x \in Taken', b \in cyc.waiting : x \in since[b] => b \in Taken'
      BY <2>3, <2>4, <2>6
    <2> QED
      BY <1>1, <1>5, <2>5 DEF IInv, TurnInv
  <1> QED
    BY <1>7, <1>8, <1>9, <1>10 DEF IInv

LEMMA WriteStep ==
    ASSUME IInv, Write
    PROVE  IInv'
  <1> USE DEF histVars
  <1> DEFINE a == cyc.at
             p == cyc.probe
  <1>1. PICK t \in Track(a) : WriteProbe(t)
    BY DEF Write
  <1> DEFINE found == [hit |-> row[a] # None, probe |-> p,
                       score |-> Composite(ProbePillar(p), TrackPillar(t))]
  <1>2. /\ cyc \in CycleType /\ a \in Agent /\ p \in Probe(a) /\ a # None /\ ~Raises(t)
        /\ UNCHANGED <<clock, row, last, sync, ask, since, overtaken>>
    BY <1>1 DEF WriteProbe, IInv, TypeOK, CycleType, OwnProbes
  <1>3. found \in Result /\ found # None
    <2>1. Composite(ProbePillar(p), TrackPillar(t)) \in 0 .. 100
      BY <1>2, ScoreBound
    <2>2. p \in Verdicts
      BY <1>2 DEF Verdicts
    <2> HIDE DEF a, p
    <2>3. found \in Result
      BY <2>1, <2>2 DEF Result
    <2> QED
      BY <2>3, Constants
  <1>4. cyc' = [cyc EXCEPT !.at = None, !.probe = None, !.got[a] = found]
    BY <1>1 DEF WriteProbe
  <1> HIDE DEF a, p, found
  <1>5. /\ cyc'.todo = cyc.todo /\ cyc'.waiting = cyc.waiting /\ cyc'.chunk = cyc.chunk
        /\ cyc'.at = None /\ cyc'.probe = None /\ cyc'.pc = cyc.pc
        /\ cyc'.got = [cyc.got EXCEPT ![a] = found]
    BY <1>2, <1>4 DEF CycleType
  <1>6. /\ cyc.got \in [Agent -> Result \cup {None}]
        /\ cyc'.got[a] = found /\ \A b \in Agent \ {a} : cyc'.got[b] = cyc.got[b]
    BY <1>2, <1>5 DEF CycleType
  <1>7. Probed' = Probed \cup {a}
    BY <1>2, <1>3, <1>6 DEF Probed
  <1>8. /\ IsFiniteSet(Probed') /\ Cardinality(Probed') <= Cardinality(Probed) + 1
        /\ Cardinality(Probed) \in Nat /\ Cardinality(Probed') \in Nat
    <2>1. IsFiniteSet(Probed)
      BY DEF IInv, GotInv
    <2>2. /\ IsFiniteSet(Probed \cup {a})
          /\ Cardinality(Probed \cup {a}) =
               IF a \in Probed THEN Cardinality(Probed) ELSE Cardinality(Probed) + 1
      BY <2>1, FS_AddElement
    <2>3. Cardinality(Probed) \in Nat
      BY <2>1, FS_CardinalityType
    <2> QED
      BY <1>7, <2>2, <2>3
  <1>9. TypeOK'
    <2>1. cyc' \in CycleType
      BY <1>2, <1>3, <1>4 DEF CycleType
    <2>2. /\ Len(cyc.todo) + Cardinality(Probed) + 1 <= cyc.chunk
          /\ cyc.chunk \in Nat /\ Len(cyc.todo) \in Nat
      BY <1>2 DEF IInv, TypeOK, CycleType, a
    <2>3. Len(cyc'.todo) + Cardinality(Probed') + (IF cyc'.at = None THEN 0 ELSE 1) <= cyc'.chunk
      BY <1>5, <1>8, <2>2
    <2> QED
      BY <1>2, <2>1, <2>3 DEF IInv, TypeOK, CycleType
  <1>10. ClockInv' /\ HealthIsLatestProbe' /\ ScoreFollowsProbe'
    BY <1>2, <1>5 DEF IInv, ClockInv, HealthIsLatestProbe, ScoreFollowsProbe
  <1>11. GotInv' /\ OwnProbes'
    <2>1. /\ found.hit => row[a] # None
          /\ ~found.hit => row[a] = None
          /\ found.probe = p /\ Earned(a, found.probe, found.score)
      BY <1>2 DEF found, Earned
    <2>2. ASSUME NEW b \in Probed'
          PROVE  /\ cyc'.got[b].hit => row[b] # None
                 /\ ~cyc'.got[b].hit => row[b] = None \/ row[b].probe = None
                 /\ Earned(b, cyc'.got[b].probe, cyc'.got[b].score)
      <3>1. CASE b = a
        BY <1>6, <2>1, <3>1
      <3>2. CASE b # a
        <4>1. b \in Probed /\ cyc'.got[b] = cyc.got[b]
          BY <1>6, <1>7, <3>2 DEF Probed
        <4> QED
          BY <4>1 DEF IInv, GotInv
      <3> QED
        BY <3>1, <3>2
    <2>4. GotInv'
      BY <1>2, <1>8, <2>2 DEF IInv, GotInv
    <2>3. OwnProbes'
      BY <1>2, <1>5, <1>6, <1>7, <2>1 DEF IInv, OwnProbes, a
    <2> QED
      BY <2>3, <2>4
  <1>12. TurnInv'
    <2>1. Taken' = Taken
      BY <1>2, <1>5, <1>7 DEF Taken, a
    <2> QED
      BY <1>2, <1>5, <2>1 DEF IInv, TurnInv
  <1> QED
    BY <1>9, <1>10, <1>11, <1>12 DEF IInv

\* Rows and probes of an agent after the commit of a cycle.
LEMMA Committed ==
    ASSUME IInv, CommitCycle, NEW a \in Agent
    PROVE  /\ row'[a] \in Row \cup {None}
           /\ LockedByCycle(a) =>
                  /\ a \in Probed /\ row'[a] # None
                  /\ row'[a].checked = clock /\ row'[a].probe = cyc.got[a].probe
                  /\ row'[a].score = cyc.got[a].score
           /\ ~LockedByCycle(a) => row'[a] = row[a]
           /\ a \in Probed =>
                  /\ cyc.got[a] \in Result
                  /\ last'[a] = [stamp |-> clock, probe |-> cyc.got[a].probe]
           /\ a \notin Probed => last'[a] = last[a]
  <1>1. ASSUME a \in Probed
        PROVE  cyc.got[a] \in Result
    BY <1>1 DEF Probed, IInv, TypeOK
  <1>2. ASSUME LockedByCycle(a)
        PROVE  /\ a \in Probed /\ row[a] \in Row
               /\ row'[a] = [row[a] EXCEPT !.checked = clock, !.probe = cyc.got[a].probe,
                                           !.score = cyc.got[a].score]
    BY <1>2 DEF LockedByCycle, CommitCycle, IInv, GotInv, TypeOK
  <1>3. ASSUME LockedByCycle(a)
        PROVE  /\ row'[a] \in Row
               /\ row'[a].checked = clock /\ row'[a].probe = cyc.got[a].probe
               /\ row'[a].score = cyc.got[a].score
    <2>1. clock \in 0 .. MaxCycle
      BY DEF IInv, TypeOK
    <2> QED
      BY <1>1, <1>2, <1>3, <2>1 DEF Row, Result
  <1>4. ~LockedByCycle(a) => row'[a] = row[a]
    BY DEF CommitCycle
  <1>5. row'[a] \in Row \cup {None} /\ (LockedByCycle(a) => row'[a] # None)
    BY <1>3, <1>4, Constants DEF IInv, TypeOK
  <1>6. last'[a] = IF a \in Probed THEN [stamp |-> clock, probe |-> cyc.got[a].probe] ELSE last[a]
    BY DEF CommitCycle
  <1> QED
    BY <1>1, <1>2, <1>3, <1>4, <1>5, <1>6

LEMMA CommitCycleStep ==
    ASSUME IInv, CommitCycle
    PROVE  IInv'
  <1>1. /\ cyc.pc = "running" /\ cyc.todo = <<>> /\ cyc.at = None /\ cyc' = IdleCycle
        /\ UNCHANGED <<clock, sync, ask>> /\ overtaken' = overtaken \ Probed
    BY DEF CommitCycle
  <1>2. Probed' = {} /\ IsFiniteSet(Probed') /\ Cardinality(Probed') = 0 /\ Taken' = {}
    BY <1>1, EmptyHands, IdleFacts
  <1>3. Taken = Probed
    BY <1>1 DEF Taken
  <1>4. clock \in Nat /\ clock <= MaxCycle
    BY Constants DEF IInv, TypeOK
  <1>5. \A a \in Probed : a \in Agent
    BY DEF Probed
  <1>6. clock \in Stamp
    BY <1>1, <1>4 DEF IInv, ClockInv, Stamp
  <1>7. TypeOK'
    <2>1. row' \in [Agent -> Row \cup {None}]
      BY Committed DEF CommitCycle, IInv, TypeOK
    <2>2. last' \in [Agent -> ProbeRow \cup {None}]
      BY <1>5, <1>6, Committed DEF CommitCycle, IInv, TypeOK, ProbeRow, Result
    <2>3. since' \in [Agent -> SUBSET Agent]
      BY <1>5 DEF CommitCycle, IInv, TypeOK
    <2> QED
      BY <1>1, <1>2, <2>1, <2>2, <2>3, IdleFacts DEF IInv, TypeOK, CycleType
  <1>8. ClockInv'
    <2>1. ASSUME NEW a \in Agent, row'[a] # None
          PROVE  row'[a].checked <= clock /\ (row'[a].probe # None => row'[a].checked > 0)
      <3>1. CASE LockedByCycle(a)
        <4>1. row'[a].checked = clock
          BY <3>1, Committed
        <4> QED
          BY <1>4, <1>6, <4>1, Constants DEF Stamp
      <3>2. CASE ~LockedByCycle(a)
        BY <2>1, <3>2, Committed DEF IInv, ClockInv
      <3> QED
        BY <3>1, <3>2
    <2> QED
      BY <1>1, <2>1, IdleFacts DEF ClockInv
  <1>9. GotInv' /\ OwnProbes'
    <2>1. GotInv'
      BY <1>1, <1>2 DEF IInv, GotInv
    <2>2. ASSUME NEW a \in Agent
          PROVE  /\ row'[a] # None => row'[a].probe \in Probe(a) \cup {None}
                 /\ last'[a] # None => last'[a].probe \in Probe(a)
      <3>1. a \in Probed => cyc.got[a].probe \in Probe(a)
        BY DEF IInv, OwnProbes
      <3>2. row[a] # None => row[a].probe \in Probe(a) \cup {None}
        BY DEF IInv, OwnProbes
      <3>3. last[a] # None => last[a].probe \in Probe(a)
        BY DEF IInv, OwnProbes
      <3>4. row'[a] # None => row'[a].probe \in Probe(a) \cup {None}
        <4>1. LockedByCycle(a) => a \in Probed /\ row'[a].probe = cyc.got[a].probe
          BY Committed
        <4>2. ~LockedByCycle(a) => row'[a] = row[a]
          BY Committed
        <4> QED
          BY <3>1, <3>2, <4>1, <4>2
      <3>5. last'[a] # None => last'[a].probe \in Probe(a)
        <4>1. a \in Probed => last'[a].probe = cyc.got[a].probe
          <5>1. a \in Probed => last'[a] = [stamp |-> clock, probe |-> cyc.got[a].probe]
            BY DEF CommitCycle
          <5> QED
            BY <5>1
        <4>2. a \notin Probed => last'[a] = last[a]
          BY Committed
        <4> QED
          BY <3>1, <3>3, <4>1, <4>2
      <3> QED
        BY <3>4, <3>5
    <2>3. cyc'.at = None
      BY <1>1, IdleFacts
    <2> QED
      BY <1>2, <2>1, <2>2, <2>3 DEF OwnProbes
  <1>10. TurnInv'
    <2>1. ASSUME NEW b \in Agent, NEW a \in since'[b]
          PROVE  row'[a] # None /\ row'[b] # None /\ row'[b].checked < row'[a].checked
      <3>1. /\ b \in cyc.waiting \cap Probeable /\ b \notin Probed
            /\ a \in since[b] \/ (a \in Probed /\ LockedByCycle(a))
        BY <2>1 DEF CommitCycle
      <3>2. row'[b] = row[b] /\ row[b] # None /\ row[b].checked < clock /\ a \in Agent
        BY <1>5, <3>1, Committed DEF LockedByCycle, IInv, ClockInv, TypeOK
      <3>3. CASE LockedByCycle(a)
        BY <3>2, <3>3, Committed, Constants
      <3>4. CASE ~LockedByCycle(a)
        BY <3>1, <3>2, <3>4, Committed DEF IInv, TurnInv
      <3> QED
        BY <3>3, <3>4
    <2> QED
      BY <1>2, <2>1 DEF TurnInv
  <1>11. HealthIsLatestProbe'
    <2>1. ASSUME NEW a \in Agent, row'[a] # None, row'[a].probe # None
          PROVE  last'[a] = [stamp |-> row'[a].checked, probe |-> row'[a].probe]
      <3>1. CASE LockedByCycle(a)
        BY <3>1, Committed
      <3>2. CASE ~LockedByCycle(a) /\ a \in Probed
        BY <2>1, <3>2, Committed DEF LockedByCycle, IInv, GotInv
      <3>3. CASE a \notin Probed
        BY <2>1, <3>3, Committed DEF LockedByCycle, IInv, HealthIsLatestProbe
      <3> QED
        BY <3>1, <3>2, <3>3
    <2> QED
      BY <2>1 DEF HealthIsLatestProbe
  <1>12. ScoreFollowsProbe'
    <2>1. ASSUME NEW a \in Agent \ overtaken', row'[a] # None, row'[a].probe # None
          PROVE  Earned(a, row'[a].probe, row'[a].score)
      <3>1. CASE LockedByCycle(a)
        BY <3>1, Committed DEF IInv, GotInv
      <3>2. CASE ~LockedByCycle(a) /\ a \in Probed
        BY <2>1, <3>2, Committed DEF LockedByCycle, IInv, GotInv
      <3>3. CASE a \notin Probed
        BY <1>1, <2>1, <3>3, Committed DEF LockedByCycle, IInv, ScoreFollowsProbe
      <3> QED
        BY <3>1, <3>2, <3>3
    <2> QED
      BY <2>1 DEF ScoreFollowsProbe
  <1> QED
    BY <1>7, <1>8, <1>9, <1>10, <1>11, <1>12 DEF IInv

-----------------------------------------------------------------------------
(* The other writers of a row                                              *)

\* A row after the commit of a batch: an upsert leaves a row that was there
\* its time, probe and score, and a new row has no probe.
LEMMA BatchCommitted ==
    ASSUME IInv, NEW up \in [sync.wrote -> Upstream], CommitBatch(up), NEW a \in Agent
    PROVE  /\ row'[a] \in Row \cup {None}
           /\ row[a] # None => /\ row'[a] # None /\ row'[a].checked = row[a].checked
                               /\ row'[a].probe = row[a].probe /\ row'[a].score = row[a].score
           /\ row[a] = None /\ row'[a] # None =>
                  row'[a].probe = None /\ row'[a].checked \in {0, clock}
  <1>1. CASE a \in sync.wrote
    <2>1. row'[a] = Upserted(row[a], up[a]) /\ up[a] \in Upstream
      BY <1>1 DEF CommitBatch
    <2>2. clock \in 0 .. MaxCycle /\ 0 \in 0 .. MaxCycle /\ row[a] \in Row \cup {None}
      BY Constants DEF IInv, TypeOK
    <2>3. /\ up[a].a2a \in BOOLEAN /\ up[a].checked \in {0, clock}
          /\ up[a].score \in 0 .. 100 \cup {NULL}
      BY <2>1 DEF Upstream
    <2>4. CASE row[a] = None
      <3>1. row'[a] = [a2a |-> up[a].a2a, checked |-> up[a].checked, probe |-> None,
                       score |-> up[a].score]
        BY <2>1, <2>4 DEF Upserted
      <3> QED
        BY <2>2, <2>3, <2>4, <3>1 DEF Row
    <2>5. CASE row[a] # None
      <3>1. row'[a] = [row[a] EXCEPT !.a2a = up[a].a2a] /\ row[a] \in Row
        BY <2>1, <2>2, <2>5 DEF Upserted
      <3>2. row'[a] \in Row
        BY <2>3, <3>1 DEF Row
      <3>3. row'[a].checked = row[a].checked /\ row'[a].probe = row[a].probe
            /\ row'[a].score = row[a].score
        BY <3>1 DEF Row
      <3> QED
        BY <2>5, <3>2, <3>3, Constants
    <2> QED
      BY <2>4, <2>5
  <1>2. CASE a \notin sync.wrote
    BY <1>2 DEF CommitBatch, IInv, TypeOK
  <1> QED
    BY <1>1, <1>2

LEMMA CommitBatchStep ==
    ASSUME IInv, NEW up \in [sync.wrote -> Upstream], CommitBatch(up)
    PROVE  IInv'
  <1> USE DEF histVars
  <1>1. sync' = IdleSync /\ UNCHANGED <<clock, last, cyc, ask, since, overtaken>>
    BY DEF CommitBatch
  <1>2. Probed' = Probed /\ Taken' = Taken
    BY <1>1 DEF Probed, Taken
  <1>3. TypeOK'
    <2>1. row' \in [Agent -> Row \cup {None}]
      BY BatchCommitted DEF CommitBatch
    <2> QED
      BY <1>1, <1>2, <2>1, IdleSyncFacts, Constants DEF IInv, TypeOK
  <1>4. ClockInv'
    <2>1. clock \in Nat
      BY Constants DEF IInv, TypeOK
    <2>2. \A a \in Agent : row'[a] # None =>
              row'[a].checked <= clock /\ (row'[a].probe # None => row'[a].checked > 0)
      BY <2>1, BatchCommitted DEF IInv, ClockInv
    <2>3. \A b \in cyc.waiting : b \in Agent /\ row[b] # None /\ row[b].checked < clock
      BY DEF IInv, ClockInv, TypeOK
    <2>4. \A b \in cyc.waiting : row'[b] # None /\ row'[b].checked < clock
      BY <2>3, BatchCommitted
    <2> QED
      BY <1>1, <2>2, <2>4 DEF IInv, ClockInv
  <1>5. GotInv' /\ OwnProbes'
    <2>1. \A a \in Probed : a \in Agent
      BY DEF Probed
    <2>2. ASSUME NEW a \in Probed
          PROVE  /\ cyc.got[a].hit => row'[a] # None
                 /\ ~cyc.got[a].hit => row'[a] = None \/ row'[a].probe = None
      BY <2>1, BatchCommitted DEF IInv, GotInv
    <2>3. GotInv'
      BY <1>1, <1>2, <2>2, IdleSyncFacts DEF IInv, GotInv
    <2>4. \A a \in Agent : row'[a] # None => row'[a].probe \in Probe(a) \cup {None}
      BY BatchCommitted DEF IInv, OwnProbes
    <2>5. OwnProbes'
      BY <1>1, <1>2, <2>4 DEF IInv, OwnProbes
    <2> QED
      BY <2>3, <2>5
  <1>6. TurnInv'
    <2>1. ASSUME NEW b \in Agent, NEW a \in since[b]
          PROVE  row'[a] # None /\ row'[b] # None /\ row'[b].checked < row'[a].checked
      <3>1. a \in Agent /\ row[a] # None /\ row[b] # None /\ row[b].checked < row[a].checked
        BY DEF IInv, TurnInv, TypeOK
      <3> QED
        BY <3>1, BatchCommitted
    <2> QED
      BY <1>1, <1>2, <2>1 DEF IInv, TurnInv
  <1>7. HealthIsLatestProbe' /\ ScoreFollowsProbe'
    <2>1. \A a \in Agent : row'[a] # None /\ row'[a].probe # None =>
              /\ row[a] # None /\ row'[a].checked = row[a].checked
              /\ row'[a].probe = row[a].probe /\ row'[a].score = row[a].score
      BY BatchCommitted
    <2> QED
      BY <1>1, <2>1 DEF IInv, HealthIsLatestProbe, ScoreFollowsProbe
  <1> QED
    BY <1>3, <1>4, <1>5, <1>6, <1>7 DEF IInv

LEMMA StoreScoreStep ==
    ASSUME IInv, ask # None, NEW t \in Track(ask.agent), StoreScore(t)
    PROVE  IInv'
  <1> USE DEF histVars
  <1> DEFINE a == ask.agent
             score == ScoreOf(ask.probe, t)
  <1>1. /\ ask \in [agent : Agent, probe : ProbeRow \cup {None}] /\ a \in Agent /\ ~Raises(t)
        /\ UNCHANGED <<clock, last, cyc, sync, since>> /\ ask' = None
        /\ overtaken' = IF last[a] # ask.probe THEN overtaken \cup {a} ELSE overtaken
    BY DEF StoreScore, IInv, TypeOK
  <1>2. row' = [row EXCEPT ![a] = IF row[a] = None THEN None ELSE [row[a] EXCEPT !.score = score]]
    BY <1>1 DEF StoreScore, IInv, TypeOK
  <1>3. Probed' = Probed /\ Taken' = Taken
    BY <1>1 DEF Probed, Taken
  <1>4. score \in 0 .. 100
    <2>1. CASE ask.probe = None
      BY <1>1, <2>1, ScoreBound DEF ScoreOf
    <2>2. CASE ask.probe # None
      <3>1. PICK b \in Agent : ask.probe.probe \in Probe(b)
        BY <1>1, <2>2 DEF ProbeRow, Verdicts
      <3>2. ProbePillar(ask.probe.probe) \in 0 .. 100 /\ TrackPillar(t) \in 0 .. 100
        BY <1>1, <3>1, ProbePillarBound, TrackPillarBound
      <3> QED
        BY <2>2, <3>2, CompositeBound DEF ScoreOf
    <2> QED
      BY <2>1, <2>2
  <1> HIDE DEF score
  <1>5. /\ \A b \in Agent : row'[b] \in Row \cup {None}
        /\ \A b \in Agent : row[b] = None => row'[b] = None
        /\ \A b \in Agent : row[b] # None =>
               /\ row'[b] # None /\ row'[b].checked = row[b].checked /\ row'[b].probe = row[b].probe
               /\ row'[b].score = IF b = a THEN score ELSE row[b].score
    <2>1. ASSUME NEW b \in Agent, b # a
          PROVE  row'[b] = row[b] /\ row[b] \in Row \cup {None}
      BY <1>2, <2>1 DEF IInv, TypeOK
    <2>2. row[a] = None => row'[a] = None
      BY <1>1, <1>2 DEF IInv, TypeOK
    <2>3. ASSUME row[a] # None
          PROVE  /\ row'[a] \in Row
                 /\ row'[a] # None /\ row'[a].checked = row[a].checked /\ row'[a].probe = row[a].probe
                 /\ row'[a].score = score
      <3>1. row'[a] = [row[a] EXCEPT !.score = score] /\ row[a] \in Row
        BY <1>1, <1>2, <2>3 DEF IInv, TypeOK
      <3>2. row'[a] \in Row
        BY <1>4, <3>1 DEF Row
      <3>3. row'[a].checked = row[a].checked /\ row'[a].probe = row[a].probe
            /\ row'[a].score = score
        BY <3>1 DEF Row
      <3> QED
        BY <3>2, <3>3, Constants
    <2> HIDE DEF a
    <2> QED
      BY <2>1, <2>2, <2>3
  <1>6. TypeOK'
    <2>1. row' \in [Agent -> Row \cup {None}]
      BY <1>2, <1>5 DEF IInv, TypeOK
    <2>2. overtaken' \subseteq Agent
      BY <1>1 DEF IInv, TypeOK
    <2> QED
      BY <1>1, <1>3, <2>1, <2>2 DEF IInv, TypeOK
  <1> HIDE DEF a
  <1>7. ClockInv' /\ TurnInv'
    <2>1. cyc.waiting \subseteq Agent /\ \A b \in Agent : since[b] \subseteq Agent
      BY DEF IInv, TypeOK
    <2>2. ClockInv'
      BY <1>1, <1>5, <2>1 DEF IInv, ClockInv
    <2>3. TurnInv'
      BY <1>1, <1>3, <1>5, <2>1 DEF IInv, TurnInv
    <2> QED
      BY <2>2, <2>3
  <1>8. GotInv' /\ OwnProbes'
    <2>1. \A b \in Probed : b \in Agent
      BY DEF Probed
    <2>2. GotInv'
      BY <1>1, <1>3, <1>5, <2>1 DEF IInv, GotInv
    <2>3. OwnProbes'
      BY <1>1, <1>3, <1>5 DEF IInv, OwnProbes
    <2> QED
      BY <2>2, <2>3
  <1>9. HealthIsLatestProbe'
    BY <1>1, <1>5 DEF IInv, HealthIsLatestProbe
  <1>10. ScoreFollowsProbe'
    <2>1. ASSUME NEW b \in Agent \ overtaken', row'[b] # None, row'[b].probe # None
          PROVE  Earned(b, row'[b].probe, row'[b].score)
      <3>1. /\ row[b] # None /\ row'[b].probe = row[b].probe /\ b \notin overtaken
            /\ row'[b].score = IF b = a THEN score ELSE row[b].score
        BY <1>1, <1>5, <2>1
      <3>2. CASE b # a
        BY <2>1, <3>1, <3>2 DEF IInv, ScoreFollowsProbe
      <3>3. CASE b = a
        <4>1. ask.probe = last[b]
          BY <1>1, <2>1, <3>3
        <4>2. last[b] = [stamp |-> row[b].checked, probe |-> row[b].probe]
          BY <2>1, <3>1 DEF IInv, HealthIsLatestProbe
        <4>3. last[b] # None
          <5>1. row[b] \in Row /\ row[b].checked > 0 /\ row[b].probe # None
            BY <2>1, <3>1 DEF IInv, TypeOK, ClockInv
          <5>2. [stamp |-> row[b].checked, probe |-> row[b].probe] \in ProbeRow
            BY <5>1, Constants DEF Row, ProbeRow, Stamp
          <5> QED
            BY <4>2, <5>2, Constants
        <4>4. score = Composite(ProbePillar(row[b].probe), TrackPillar(t))
          BY <4>1, <4>2, <4>3 DEF score, ScoreOf
        <4> QED
          BY <1>1, <3>1, <3>3, <4>4 DEF Earned, a
      <3> QED
        BY <3>2, <3>3
    <2> QED
      BY <2>1 DEF ScoreFollowsProbe
  <1> QED
    BY <1>6, <1>7, <1>8, <1>9, <1>10 DEF IInv

\* The clean-up deletes rows that nobody has locked.
LEMMA CleanOrphansStep ==
    ASSUME IInv, CleanOrphans
    PROVE  IInv'
  <1> USE DEF histVars
  <1>1. /\ UNCHANGED <<clock, last, sync, ask>> /\ overtaken' = overtaken \ Orphan
        /\ cyc' = [cyc EXCEPT !.waiting = cyc.waiting \ Orphan] /\ cyc \in CycleType
        /\ \A a \in Orphan : ~LockedByCycle(a)
        /\ row' = [a \in Agent |-> IF a \in Orphan THEN None ELSE row[a]]
        /\ since' = [b \in Agent |-> IF b \in Orphan THEN {} ELSE since[b] \ Orphan]
    BY DEF CleanOrphans, IInv, TypeOK, CycleType
  <1>2. /\ cyc'.todo = cyc.todo /\ cyc'.at = cyc.at /\ cyc'.got = cyc.got /\ cyc'.pc = cyc.pc
        /\ cyc'.probe = cyc.probe /\ cyc'.chunk = cyc.chunk /\ cyc'.waiting = cyc.waiting \ Orphan
    BY <1>1 DEF CycleType
  <1>3. Probed' = Probed /\ Taken' = Taken
    BY <1>2 DEF Probed, Taken
  <1>4. TypeOK'
    <2>1. cyc' \in CycleType
      BY <1>1 DEF CycleType
    <2>2. row' \in [Agent -> Row \cup {None}] /\ since' \in [Agent -> SUBSET Agent]
      BY <1>1 DEF IInv, TypeOK
    <2>3. overtaken' \subseteq Agent
      BY <1>1 DEF IInv, TypeOK
    <2>4. Len(cyc'.todo) + Cardinality(Probed') + (IF cyc'.at = None THEN 0 ELSE 1) <= cyc'.chunk
      BY <1>2, <1>3 DEF IInv, TypeOK
    <2> QED
      BY <1>1, <2>1, <2>2, <2>3, <2>4 DEF IInv, TypeOK, CycleType
  <1>5. /\ \A a \in Agent : row'[a] # None => a \notin Orphan
        /\ \A a \in Agent : a \notin Orphan => row'[a] = row[a]
        /\ \A a \in Agent : a \in Orphan => row'[a] = None
    BY <1>1
  <1>6. ClockInv'
    <2>1. cyc.waiting \subseteq Agent
      BY <1>1 DEF CycleType
    <2> QED
      BY <1>1, <1>2, <1>5, <2>1 DEF IInv, ClockInv
  <1>7. GotInv' /\ OwnProbes'
    <2>1. \A a \in Probed : a \in Agent
      BY DEF Probed
    <2>2. \A a \in Probed : cyc.got[a].hit => a \notin Orphan
      BY <1>1 DEF LockedByCycle
    <2>3. GotInv'
      BY <1>1, <1>2, <1>3, <1>5, <2>1, <2>2 DEF IInv, GotInv
    <2>4. OwnProbes'
      BY <1>1, <1>2, <1>3, <1>5 DEF IInv, OwnProbes
    <2> QED
      BY <2>3, <2>4
  <1>8. TurnInv'
    <2>1. ASSUME NEW b \in Agent, NEW a \in since'[b]
          PROVE  row'[a] # None /\ row'[b] # None /\ row'[b].checked < row'[a].checked
      <3>1. b \notin Orphan /\ a \notin Orphan /\ a \in since[b] /\ a \in Agent
        BY <1>1, <2>1 DEF IInv, TypeOK
      <3> QED
        BY <1>5, <3>1 DEF IInv, TurnInv
    <2>2. ASSUME NEW a \in Taken', NEW b \in cyc'.waiting, a \in since'[b]
          PROVE  b \in Taken'
      <3>1. b \in cyc.waiting /\ b \in Agent /\ b \notin Orphan
        BY <1>1, <1>2, <2>2 DEF CycleType
      <3>2. a \in since[b] /\ a \in Taken
        BY <1>1, <1>3, <2>2, <3>1
      <3> QED
        BY <1>3, <3>1, <3>2 DEF IInv, TurnInv
    <2> QED
      BY <2>1, <2>2 DEF TurnInv
  <1>9. HealthIsLatestProbe' /\ ScoreFollowsProbe'
    BY <1>1, <1>5 DEF IInv, HealthIsLatestProbe, ScoreFollowsProbe
  <1> QED
    BY <1>4, <1>6, <1>7, <1>8, <1>9 DEF IInv

LEMMA Step == IInv /\ [Next]_vars => IInv'
  <1> SUFFICES ASSUME IInv, [Next]_vars
               PROVE  IInv'
    OBVIOUS
  <1>1. CASE UNCHANGED vars
    BY <1>1, AskOnly DEF vars, IInv, TypeOK
  <1>2. CASE Next
    <2>1. CASE StartCycle \/ Cycle \/ CycleFails
      BY <2>1, StartCycleStep, ProbeAgentStep, WriteStep, CommitCycleStep, CycleFailsStep DEF Cycle
    <2>2. CASE Sync \/ SyncFails \/ \E s \in Batch : StartBatch(s)
      BY <2>2, SyncSteps, CommitBatchStep DEF Sync
    <2>3. CASE ResolveDeadlock
      BY <2>3, CycleFailsStep, SyncSteps DEF ResolveDeadlock
    <2>4. CASE AskFails \/ \E a \in Agent : AskScore(a)
      BY <2>4, AskSteps
    <2>5. CASE ask # None /\ \E t \in Track(ask.agent) : StoreScore(t)
      BY <2>5, StoreScoreStep
    <2>6. CASE CleanOrphans
      BY <2>6, CleanOrphansStep
    <2> QED
      BY <1>2, <2>1, <2>2, <2>3, <2>4, <2>5, <2>6 DEF Next
  <1> QED
    BY <1>1, <1>2

\* The inductive invariant.
THEOREM Invariance == Spec => []IInv
  BY InitInvariant, Step, PTL DEF Spec

\* What agent_cache shows of an agent's health is its newest probe.
THEOREM HealthStaysLatest == Spec => []HealthIsLatestProbe
  BY Invariance, PTL DEF IInv

\* The score of a probed agent is that of the probe it shows, but for one
\* that a slower request overwrote.
THEOREM ScoresFollow == Spec => []ScoreFollowsProbe
  BY Invariance, PTL DEF IInv

-----------------------------------------------------------------------------
(* Turns                                                                   *)

\* Only the commit of a cycle writes to agent_probes.
LEMMA OnlyCommitsProbe ==
    ASSUME [Next]_vars
    PROVE  last' = last \/ CommitCycle
  BY DEF Next, vars, StartCycle, Cycle, ProbeAgent, Write, WriteProbe, CycleFails, StartBatch, Sync,
         UpsertAgent, CommitBatch, SyncFails, ResolveDeadlock, AskScore, StoreScore, AskFails,
         CleanOrphans

\* An agent probed since b began to wait is probed again only with b: at the
\* commit all a cycle took is probed, and it took b, whose time is older.
THEOREM TurnsAreTaken == Spec => ProbesTakeTurns
  <1> DEFINE Turns == \A a, b \in Agent : last'[a] # last[a] /\ a \in since[b] => since'[b] = {}
  <1>1. IInv /\ [Next]_vars => Turns
    <2> SUFFICES ASSUME IInv, [Next]_vars, NEW a \in Agent, NEW b \in Agent,
                        last'[a] # last[a], a \in since[b]
                 PROVE  since'[b] = {}
      OBVIOUS
    <2>1. CommitCycle
      BY OnlyCommitsProbe
    <2>2. a \in Probed /\ Taken = Probed
      <3>1. a \in Probed
        BY <2>1 DEF CommitCycle
      <3>2. cyc.todo = <<>> /\ cyc.at = None
        BY <2>1 DEF CommitCycle
      <3>3. Taken = Probed
        BY <3>2 DEF Taken
      <3> QED
        BY <3>1, <3>3
    <2>3. b \in cyc.waiting => b \in Probed
      BY <2>2 DEF IInv, TurnInv
    <2> QED
      BY <2>1, <2>3 DEF CommitCycle
  <1>2. IInv /\ [Next]_vars => [Turns]_vars
    BY <1>1
  <1>3. Spec => [][Turns]_vars
    BY <1>2, Invariance, PTL DEF Spec
  <1> QED
    BY <1>3 DEF ProbesTakeTurns
==============================================================================
