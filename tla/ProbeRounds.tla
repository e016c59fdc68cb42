----------------------------- MODULE ProbeRounds -----------------------------
(***************************************************************************)
(* The probe worker of app/services/probe_worker.py and the other writers  *)
(* of the rows it works on: a sync run (app/services/sync_worker.py) and   *)
(* a request for a score that is still NULL (GET .../score of              *)
(* app/routers/agents.py).                                                 *)
(*                                                                         *)
(* A probe cycle and a batch of the sync are one transaction each: what    *)
(* they have written is in `got' and `wrote', hidden from the others until *)
(* the commit, and every agent in there is a row lock they hold.  The HTTP *)
(* calls, and so most of the time, are between these steps.                *)
(***************************************************************************)
EXTENDS Score, Sequences, FiniteSets

CONSTANTS
    Agent,
    IdOrder,        \* IdOrder[a]: the place of a's agent_id in text order
    Orphan,         \* agents the clean-up script may delete
    Card,           \* Card[a]: what a's endpoint serves, how fast, and when again
    Answers,        \* Answers[a]: what a probe's two GETs can meet
    Activity,       \* rows of onchain_agent_events an agent can have
    Age,            \* Age[a]: months since a was created
    Chunks,         \* values of probe_chunk_size, which a restart may change
    MaxCycle,       \* bound: probe cycles that start
    MaxBatch,       \* bound: agents of one sync transaction
    MaxBusy,        \* bound: cycle, batch and request at work at the same time
    None

ASSUME RoundsAssumption ==
    /\ IdOrder \in [Agent -> Nat]
    /\ \A a, b \in Agent : IdOrder[a] = IdOrder[b] => a = b
    /\ Orphan \subseteq Agent
    /\ Card \in [Agent -> [latency : Nat, retryAfter : Nat, online : BOOLEAN, skills : Nat]]
    /\ Answers \in [Agent -> SUBSET (Answer \X Answer)]
    /\ \A rows \in Activity :
           IsFiniteSet(rows) /\ rows \subseteq [tx : Nat, from : Nat, to : Nat, days : Nat]
    /\ Age \in [Agent -> Nat]
    /\ Chunks \cup {MaxCycle, MaxBatch, MaxBusy} \subseteq Nat \ {0}
    /\ None \notin Agent

NULL == -1

\* What a probe of a can return, and the track records a can have.
Probe(a) == {Verdict(Card[a], answer[1], answer[2]) : answer \in Answers[a]}
Verdicts == UNION {Probe(a) : a \in Agent}
Track(a) == {TrackRecord(rows, Age[a]) : rows \in Activity}

VARIABLES
    clock,      \* the stamp of the newest cycle
    row,        \* Agent -> its committed row of agent_cache, None without one
    last,       \* Agent -> its newest row of agent_probes, None without one
    cyc,        \* the probe cycle
    sync,       \* the open transaction of the sync
    ask,        \* a request that found activity_score NULL
    since,      \* history: Agent -> the agents probed while it waited
    overtaken   \* history: agents whose score was written by a request that
                \* read the probes before the newest one was committed

histVars == <<since, overtaken>>
vars == <<clock, row, last, cyc, sync, ask, histVars>>

Stamp == 1 .. MaxCycle

\* a2a: services has an A2A endpoint; checked: endpoint_last_checked_at, 0 when
\* NULL; probe: what health_status, health_score and health_checked_at hold of
\* a probe; score: activity_score.
Row == [a2a : BOOLEAN, checked : 0 .. MaxCycle, probe : Verdicts \cup {None},
        score : 0 .. 100 \cup {NULL}]

\* A row of agent_probes; stamp is probed_at, the time of the cycle.
ProbeRow == [stamp : Stamp, probe : Verdicts]

\* What a cycle has found out about an agent; hit: the UPDATE met its row.
Result == [hit : BOOLEAN, probe : Verdicts, score : 0 .. 100]

ASSUME NoneAssumption == None \notin Row \cup ProbeRow \cup Result

IdleCycle == [pc |-> "idle", chunk |-> 0, todo |-> <<>>, at |-> None, probe |-> None,
              waiting |-> {}, got |-> [a \in Agent |-> None]]
IdleSync == [todo |-> <<>>, wrote |-> {}]

Probed == {a \in Agent : cyc.got[a] # None}
Probeable == {a \in Agent : row[a] # None /\ row[a].a2a}

TypeOK ==
    /\ clock \in 0 .. MaxCycle
    /\ row \in [Agent -> Row \cup {None}]
    /\ last \in [Agent -> ProbeRow \cup {None}]
    /\ cyc \in [pc : {"idle", "running"}, chunk : Nat, todo : Seq(Agent), at : Agent \cup {None},
                probe : Verdicts \cup {None}, waiting : SUBSET Agent,
                got : [Agent -> Result \cup {None}]]
    /\ Len(cyc.todo) + Cardinality(Probed) + (IF cyc.at = None THEN 0 ELSE 1) <= cyc.chunk
    /\ sync \in [todo : Seq(Agent), wrote : SUBSET Agent]
    /\ Len(sync.todo) + Cardinality(sync.wrote) <= MaxBatch
    /\ ask \in {None} \cup [agent : Agent, probe : ProbeRow \cup {None}]
    /\ since \in [Agent -> SUBSET Agent]
    /\ overtaken \subseteq Agent

Init ==
    /\ clock = 0
    /\ row = [a \in Agent |-> None]
    /\ last = [a \in Agent |-> None]
    /\ cyc = IdleCycle
    /\ sync = IdleSync
    /\ ask = None
    /\ since = [a \in Agent |-> {}]
    /\ overtaken = {}

SyncIdle == sync.todo = <<>> /\ sync.wrote = {}

\* Bound: a writer starts only while fewer than MaxBusy are at work.
MayStart ==
    (IF cyc.pc = "idle" THEN 0 ELSE 1) + (IF SyncIdle THEN 0 ELSE 1)
      + (IF ask = None THEN 0 ELSE 1) < MaxBusy

\* The row locks: rows that were there when a transaction wrote to them.
LockedByCycle(a) == a \in Probed /\ cyc.got[a].hit
LockedBySync(a) == a \in sync.wrote /\ row[a] # None

-----------------------------------------------------------------------------
(* The probe cycle.                                                        *)

\* ORDER BY endpoint_last_checked_at NULLS FIRST, agent_id
BeforeNullsLast(a, b) ==   \* mutant: the order of the database, NULL after every time
    LET place(c) == IF row[c].checked = 0 THEN MaxCycle + 1 ELSE row[c].checked
    IN  \/ place(a) < place(b)
        \/ place(a) = place(b) /\ IdOrder[a] < IdOrder[b]

Before(a, b) ==
    \/ row[a].checked < row[b].checked
    \/ row[a].checked = row[b].checked /\ IdOrder[a] < IdOrder[b]

SelectUnlimited(chunk) ==   \* mutant: no LIMIT
    {s \in UNION {[1 .. n -> Probeable] : n \in {Cardinality(Probeable)}} :
        \A i, j \in DOMAIN s : i < j => Before(s[i], s[j])}

\* The first `chunk' agents in this order, or all: there is one such sequence.
SelectProbeable(chunk) ==
    {s \in UNION {[1 .. n -> Probeable] : n \in 0 .. chunk} :
        /\ \A i, j \in DOMAIN s : i < j => Before(s[i], s[j])
        /\ \A a \in Probeable :
               \/ \E i \in DOMAIN s : s[i] = a
               \/ Len(s) = chunk /\ \A i \in DOMAIN s : Before(s[i], a)}

StartCycle ==
    /\ cyc.pc = "idle" /\ MayStart
    /\ clock < MaxCycle
    /\ clock' = clock + 1
    /\ \E chunk \in Chunks : \E todo \in SelectProbeable(chunk) :
           cyc' = [IdleCycle EXCEPT !.pc = "running", !.chunk = chunk,
                                    !.todo = todo, !.waiting = Probeable]
    /\ UNCHANGED <<row, last, sync, ask, histVars>>

\* The row is read and the card fetched; an agent that vanished is skipped.
ProbeAgent ==
    LET a == Head(cyc.todo)
    IN  /\ cyc.todo # <<>> /\ cyc.at = None
        /\ IF row[a] = None
           THEN cyc' = [cyc EXCEPT !.todo = Tail(@)]
           ELSE \E p \in Probe(a) :
                    cyc' = [cyc EXCEPT !.todo = Tail(@), !.at = a, !.probe = p]
        /\ UNCHANGED <<clock, row, last, sync, ask, histVars>>

\* The UPDATE of the health columns waits for the row; then the score is
\* computed from the probe and the track record.
WriteProbe(t) ==
    LET a == cyc.at
    IN  /\ a # None
        /\ ~LockedBySync(a)
        /\ ~Raises(t)
        /\ cyc' = [cyc EXCEPT !.at = None, !.probe = None,
                      !.got[a] = [hit |-> row[a] # None, probe |-> cyc.probe,
                                  score |-> Composite(ProbePillar(cyc.probe), TrackPillar(t))]]
        /\ UNCHANGED <<clock, row, last, sync, ask, histVars>>

CommitCycle ==
    /\ cyc.pc = "running" /\ cyc.todo = <<>> /\ cyc.at = None
    /\ row' = [a \in Agent |->
                  IF LockedByCycle(a)
                  THEN [row[a] EXCEPT !.checked = clock, !.probe = cyc.got[a].probe,
                                      !.score = cyc.got[a].score]
                  ELSE row[a]]
    /\ last' = [a \in Agent |->
                   IF a \in Probed THEN [stamp |-> clock, probe |-> cyc.got[a].probe]
                   ELSE last[a]]
    /\ since' = [b \in Agent |->
                    IF b \in cyc.waiting \cap Probeable /\ b \notin Probed
                    THEN since[b] \cup {a \in Probed : LockedByCycle(a)}
                    ELSE {}]
    /\ overtaken' = overtaken \ Probed
    /\ cyc' = IdleCycle
    /\ UNCHANGED <<clock, sync, ask>>

\* An exception (a division by zero for an event of the last 24 hours, an
\* httpx error probe_termix_card does not expect, a lost database) ends the
\* cycle and rolls all of it back; the loop sleeps and starts the next one.
CycleFails ==
    /\ cyc.pc = "running"
    /\ cyc' = IdleCycle
    /\ UNCHANGED <<clock, row, last, sync, ask, histVars>>

-----------------------------------------------------------------------------
(* The sync: up to a hundred agents of a run, in upstream order, between   *)
(* two commits.                                                            *)

StartBatch(s) ==
    /\ SyncIdle /\ MayStart
    /\ sync' = [IdleSync EXCEPT !.todo = s]
    /\ UNCHANGED <<clock, row, last, cyc, ask, histVars>>

\* get_agent and the upsert, which waits for the row.  What upstream answered
\* is chosen at the commit, where others first see it.
UpsertAgent ==
    LET a == Head(sync.todo)
    IN  /\ sync.todo # <<>>
        /\ ~LockedByCycle(a)
        /\ sync' = [todo |-> Tail(sync.todo), wrote |-> sync.wrote \cup {a}]
        /\ UNCHANGED <<clock, row, last, cyc, ask, histVars>>

\* What the upsert makes of a row: an insert takes upstream's columns, a
\* conflict leaves the locally owned ones alone.
UpsertedOverwriting(old, up) ==   \* mutant: the locally owned columns are mirrored too
    [a2a |-> up.a2a, checked |-> up.checked,
     probe |-> IF old = None THEN None ELSE old.probe, score |-> up.score]

UpsertedScoreless(old, up) ==   \* mutant: activity_score is not in _LOCAL_OWNED
    IF old = None
    THEN [a2a |-> up.a2a, checked |-> up.checked, probe |-> None, score |-> up.score]
    ELSE [old EXCEPT !.a2a = up.a2a, !.score = up.score]

Upserted(old, up) ==
    IF old = None
    THEN [a2a |-> up.a2a, checked |-> up.checked, probe |-> None, score |-> up.score]
    ELSE [old EXCEPT !.a2a = up.a2a]

CommitFullBatch(up) ==   \* mutant: the rest of a run is not committed
    /\ sync.todo = <<>> /\ Cardinality(sync.wrote) = MaxBatch
    /\ row' = [a \in Agent |-> IF a \in sync.wrote THEN Upserted(row[a], up[a]) ELSE row[a]]
    /\ sync' = IdleSync
    /\ UNCHANGED <<clock, last, cyc, ask, histVars>>

\* up[a].checked and up[a].score are upstream's own time of a check and its
\* activity score, which may be missing.
CommitBatch(up) ==
    /\ sync.todo = <<>> /\ sync.wrote # {}
    /\ row' = [a \in Agent |-> IF a \in sync.wrote THEN Upserted(row[a], up[a]) ELSE row[a]]
    /\ sync' = IdleSync
    /\ UNCHANGED <<clock, last, cyc, ask, histVars>>

SyncFails ==
    /\ ~SyncIdle
    /\ sync' = IdleSync
    /\ UNCHANGED <<clock, row, last, cyc, ask, histVars>>

\* The cycle and the batch wait for each other's rows: the database ends one
\* of the two transactions.
Deadlocked ==
    /\ cyc.at # None /\ LockedBySync(cyc.at)
    /\ sync.todo # <<>> /\ LockedByCycle(Head(sync.todo))

ResolveDeadlock == Deadlocked /\ (CycleFails \/ SyncFails)

-----------------------------------------------------------------------------
(* GET /api/agents/{chain}/{token}/score while activity_score is NULL.     *)

LatestProbe(a) == last[a]

\* The pillars of a row of agent_probes, if there is one, and a track record.
ScoreOf(latest, t) ==
    IF latest = None THEN TrackPillar(t)
    ELSE Composite(ProbePillar(latest.probe), TrackPillar(t))

AskScore(a) ==
    /\ ask = None /\ MayStart
    /\ row[a] # None /\ row[a].score = NULL
    /\ ask' = [agent |-> a, probe |-> LatestProbe(a)]
    /\ UNCHANGED <<clock, row, last, cyc, sync, histVars>>

\* The UPDATE does not look at the score again.  A track record that raises
\* is an internal error of the request and writes nothing.
StoreScore(t) ==
    LET a == ask.agent
    IN  /\ ask # None
        /\ ~LockedBySync(a) /\ ~LockedByCycle(a)
        /\ ~Raises(t)
        /\ row' = [row EXCEPT ![a] =
                      IF @ = None THEN None
                      ELSE [@ EXCEPT !.score = ScoreOf(ask.probe, t)]]
        /\ overtaken' = IF last[a] # ask.probe THEN overtaken \cup {a} ELSE overtaken
        /\ ask' = None
        /\ UNCHANGED <<clock, last, cyc, sync, since>>

AskFails ==
    /\ ask # None
    /\ ask' = None
    /\ UNCHANGED <<clock, row, last, cyc, sync, histVars>>

\* DELETE FROM agent_cache WHERE token_id = 0; the probes stay.
CleanOrphans ==
    /\ \E a \in Orphan : row[a] # None
    /\ \A a \in Orphan : ~LockedBySync(a) /\ ~LockedByCycle(a)
    /\ row' = [a \in Agent |-> IF a \in Orphan THEN None ELSE row[a]]
    /\ since' = [b \in Agent |-> IF b \in Orphan THEN {} ELSE since[b] \ Orphan]
    /\ overtaken' = overtaken \ Orphan
    /\ cyc' = [cyc EXCEPT !.waiting = @ \ Orphan]
    /\ UNCHANGED <<clock, last, sync, ask>>

-----------------------------------------------------------------------------
Batch == {s \in UNION {[1 .. n -> Agent] : n \in 1 .. MaxBatch} :
             \A i, j \in DOMAIN s : i # j => s[i] # s[j]}

\* Upstream has checked and scored an agent, or has done neither.
Upstream == [a2a : BOOLEAN, checked : {0}, score : {NULL}]
              \cup [a2a : BOOLEAN, checked : {clock}, score : {100}]

Write == cyc.at # None /\ \E t \in Track(cyc.at) : WriteProbe(t)
Cycle == ProbeAgent \/ Write \/ CommitCycle
Sync ==
    \/ UpsertAgent
    \/ \E up \in [sync.wrote -> Upstream] : CommitBatch(up)

Next ==
    \/ StartCycle
    \/ Cycle
    \/ CycleFails
    \/ \E s \in Batch : StartBatch(s)
    \/ Sync
    \/ SyncFails
    \/ ResolveDeadlock
    \/ \E a \in Agent : AskScore(a)
    \/ ask # None /\ \E t \in Track(ask.agent) : StoreScore(t)
    \/ AskFails
    \/ CleanOrphans

\* Tasks of the event loop go on, every HTTP call has a timeout, the database
\* finds a deadlock after deadlock_timeout, and it gives a released row to the
\* transaction that has waited for it (so strong fairness for Write).
Spec ==
    /\ Init /\ [][Next]_vars
    /\ WF_vars(Cycle) /\ SF_vars(Write) /\ WF_vars(Sync) /\ WF_vars(ResolveDeadlock)

-----------------------------------------------------------------------------
(* Properties.                                                             *)

\* What a row shows of a probe is the newest row of agent_probes and its
\* time, whatever syncs, score requests and failed cycles came in between.
HealthIsLatestProbe ==
    \A a \in Agent :
        row[a] # None /\ row[a].probe # None =>
            last[a] = [stamp |-> row[a].checked, probe |-> row[a].probe]

Earned(a, probe, score) ==
    \E t \in Track(a) : ~Raises(t) /\ score = Composite(ProbePillar(probe), TrackPillar(t))

\* The score of a probed agent is the composite of that probe and a track
\* record.  Only a score request that read before the probe was committed
\* leaves an older score, until the next cycle.
ScoreFollowsProbe ==
    \A a \in Agent \ overtaken :
        row[a] # None /\ row[a].probe # None =>
            Earned(a, row[a].probe, row[a].score)

\* Nobody waits while another agent is probed twice: an agent that was probed
\* since b began to wait is probed again only together with b, however many
\* cycles fail and agents come and go in between.
ProbesTakeTurns ==
    [][\A a, b \in Agent : last'[a] # last[a] /\ a \in since[b] => since'[b] = {}]_vars

\* A probe cycle comes to its end, also when the sync holds its rows.
CycleEnds == cyc.pc = "running" ~> cyc.pc = "idle"

-----------------------------------------------------------------------------
(* Why they hold: the invariant the proofs use.                            *)

\* Times of a check are those of cycles that have started, and the agents a
\* cycle finds waiting were last checked before it.
ClockInv ==
    /\ cyc.pc = "running" => clock > 0
    /\ \A a \in Agent : row[a] # None =>
           row[a].checked <= clock /\ (row[a].probe # None => row[a].checked > 0)
    /\ \A b \in cyc.waiting : row[b] # None /\ row[b].checked < clock

\* What the cycle wrote to is locked and stays; what it missed, or what came
\* after it, shows no probe.  Each score is that of the cycle's probe.
GotInv ==
    /\ IsFiniteSet(Probed) /\ IsFiniteSet(sync.wrote)
    /\ \A a \in Probed :
           /\ cyc.got[a].hit => row[a] # None
           /\ ~cyc.got[a].hit => row[a] = None \/ row[a].probe = None
           /\ Earned(a, cyc.got[a].probe, cyc.got[a].score)

\* Nowhere is an agent shown with the probe of another.
OwnProbes ==
    /\ cyc.at # None => cyc.probe \in Probe(cyc.at)
    /\ \A a \in Agent :
           /\ row[a] # None => row[a].probe \in Probe(a) \cup {None}
           /\ last[a] # None => last[a].probe \in Probe(a)
           /\ a \in Probed => cyc.got[a].probe \in Probe(a)

\* An agent that was probed while b waited has the newer time, so a cycle
\* that takes it takes b as well.
Taken == {cyc.todo[i] : i \in DOMAIN cyc.todo} \cup ({cyc.at} \ {None}) \cup Probed
TurnInv ==
    /\ \A b \in Agent : \A a \in since[b] :
           row[a] # None /\ row[b] # None /\ row[b].checked < row[a].checked
    /\ \A a \in Taken, b \in cyc.waiting : a \in since[b] => b \in Taken

IInv ==
    /\ TypeOK /\ ClockInv /\ GotInv /\ OwnProbes /\ TurnInv
    /\ HealthIsLatestProbe /\ ScoreFollowsProbe
==============================================================================
