------------------------------ MODULE SyncRun ------------------------------
(***************************************************************************)
(* The agent sync: batch runs of sync_worker (discover a batch of the      *)
(* upstream listing, then per token GET the agent, upsert it, mirror its   *)
(* feedbacks, commit every ProgressEvery upserts) and the one-agent        *)
(* endpoint, all writing agent_cache; the batch runs also write the row of *)
(* sync_state (failures, checkpoint).                                      *)
(*                                                                         *)
(* Each run has one database transaction at a time. What it has written    *)
(* and not committed is in `tx`, and locks the rows it wrote: another run  *)
(* that writes the same row waits, and of runs that wait in a circle       *)
(* PostgreSQL aborts one. A failure list assigned to the ORM object stays  *)
(* in the process (`list`) until an ORM statement or a commit flushes it:  *)
(* SQLAlchemy 2.0 flushes before the upsert, but not before the textual    *)
(* SELECT of _record_failure nor for a get() of an object it holds.        *)
(***************************************************************************)
EXTENDS Integers, FiniteSets, Sequences, Functions

CONSTANTS
    Tokens,         \* token ids of BSC agents
    Batches,        \* runs of _run_sync: the API task, a CLI process, ...
    Api,            \* those of one server process, guarded by _sync_task
    Singles,        \* requests to POST /api/sync/agent
    Listings,       \* what discovery can see, in upstream order
    Batch,          \* agents per run
    ProgressEvery,  \* upserts between commits
    Cap,            \* FAILED_TOKEN_IDS_CAP
    MaxVer,         \* bound: upstream versions of an agent
    None            \* no list

Runs == Batches \cup Singles
Lists == {None} \cup {l \in Seq(Tokens) : Len(l) <= Cap}
Vers == 0..MaxVer                           \* 0: no row

ASSUME SyncConstants ==
    /\ Tokens \subseteq Nat
    /\ Api \subseteq Batches
    /\ Batches \cap Singles = {}
    /\ Listings \subseteq Seq(Tokens)
    /\ Batch \in Nat \ {0} /\ ProgressEvery \in Nat \ {0} /\ Cap \in Nat \ {0}
    /\ MaxVer \in Nat \ {0}
    /\ None \notin Seq(Tokens)

\* Where a run is suspended; at "record" and "finish" it needs the sync_state row.
Stage == {"idle", "fetch", "record", "upsert", "feedback", "commit", "finish"}

\* What a run holds in memory. `done` are the agents it has counted as upserted
\* and `count` how often it counted, `spoilt` (history) says that a feedback
\* statement failed in the database; `seen` is what its lookup of sync_state gave.
Run == [pc: Stage, todo: Seq(Tokens), got: Vers, done: SUBSET Tokens, count: Nat,
        last: Int, list: Lists, seen: {"unread", "absent", "present"}, spoilt: BOOLEAN]

NewRun == [pc |-> "idle", todo |-> <<>>, got |-> 0, done |-> {}, count |-> 0,
           last |-> -1, list |-> None, seen |-> "unread", spoilt |-> FALSE]

\* A transaction: versions upserted, failure list flushed, whether it is aborted
\* (it then holds nothing, refuses statements, and its commit is a rollback).
Tx == [rows: [Tokens -> Vers], failed: Lists, aborted: BOOLEAN]

NewTx == [rows |-> [t \in Tokens |-> 0], failed |-> None, aborted |-> FALSE]

VARIABLES
    up,       \* upstream: current version of each agent
    rows,     \* agent_cache: version stored of each agent
    failed,   \* sync_state.failed_token_ids, None while the row does not exist
    last,     \* sync_state.last_token_id
    run,      \* each run's locals
    tx,       \* each run's open transaction
    mixed     \* history: two runs have been open at once

vars == <<up, rows, failed, last, run, tx, mixed>>
db == <<rows, failed, last>>

TypeOK ==
    /\ up \in [Tokens -> 1..MaxVer]
    /\ rows \in [Tokens -> Vers]
    /\ failed \in Lists
    /\ last \in Int
    /\ run \in [Runs -> Run]
    /\ tx \in [Runs -> Tx]
    /\ mixed \in BOOLEAN

Init ==
    /\ up = [t \in Tokens |-> 1]
    /\ rows = [t \in Tokens |-> 0]
    /\ failed = None
    /\ last = -1
    /\ run = [r \in Runs |-> NewRun]
    /\ tx = [r \in Runs |-> NewTx]
    /\ mixed = FALSE

Busy(r) == run[r].pc # "idle"
Token(r) == Head(run[r].todo)

-----------------------------------------------------------------------------
(* Locks                                                                   *)

RowHolders(t) == {r \in Runs : tx[r].rows[t] # 0}
StateHolders == {r \in Runs : tx[r].failed # None}

\* The ORM holds an assigned failure list that the upsert writes first.
MustFlush(r) == run[r].pc = "upsert" /\ run[r].list # None

\* The runs whose commit or rollback the next statement of r waits for.
WaitsFor(r) ==
    IF run[r].pc = "upsert" /\ ~MustFlush(r) THEN RowHolders(Token(r)) \ {r}
    ELSE IF \/ MustFlush(r)
            \/ run[r].seen = "absent"
            \/ run[r].pc = "finish" /\ run[r].seen = "present"
         THEN StateHolders \ {r}
    ELSE {}

\* r and others wait for each other in a circle.
Deadlocked(r) ==
    \E S \in SUBSET Runs :
        /\ r \in S
        /\ \A s \in S : WaitsFor(s) \cap S # {} /\ \E w \in S : s \in WaitsFor(w)

Goes(r, stage) ==
    /\ run[r].pc = stage
    /\ WaitsFor(r) = {}

\* A statement of r reaches the database.
Executes(r, stage) ==
    /\ Goes(r, stage)
    /\ ~tx[r].aborted

-----------------------------------------------------------------------------
(* Starting and ending a run                                               *)

FirstOf(l) == SubSeq(l, 1, IF Len(l) < Batch THEN Len(l) ELSE Batch)

Starts(r, l) ==
    /\ ~Busy(r)
    /\ run' = [run EXCEPT ![r] = [NewRun EXCEPT
                 !.pc = IF l = <<>> THEN "finish" ELSE "fetch", !.todo = l]]
    /\ mixed' = (mixed \/ \E s \in Runs : Busy(s))
    /\ UNCHANGED <<up, db, tx>>

\* start_sync or the CLI, with the discovery of the batch. 409 while the
\* process's own task is running.
StartBatch(r) ==
    /\ r \in Batches
    /\ r \in Api => \A s \in Api : ~Busy(s)
    /\ \E l \in Listings : Starts(r, FirstOf(l))

StartSingle(r) ==
    /\ r \in Singles
    /\ \E t \in Tokens : Starts(r, <<t>>)

\* The session is closed: the transaction is rolled back, the run is gone.
Dies(r) ==
    /\ run' = [run EXCEPT ![r] = NewRun]
    /\ tx' = [tx EXCEPT ![r] = NewTx]
    /\ UNCHANGED <<up, db, mixed>>

\* Any error the run does not catch, or the end of its process.
RunDies(r) == Busy(r) /\ Dies(r)

\* mutant: the error is taken for one of the upstream, the agent is fetched again
RefusedIsRetried(r) ==
    /\ tx[r].aborted
    /\ run[r].pc = "upsert"
    /\ run' = [run EXCEPT ![r].pc = "fetch"]
    /\ UNCHANGED <<up, db, tx, mixed>>

\* A statement after the transaction was aborted raises.
StatementRefused(r) ==
    /\ tx[r].aborted
    /\ run[r].pc \in {"record", "upsert", "finish"}
    /\ Dies(r)

-----------------------------------------------------------------------------
(* The sync_state row: _ensure_sync_state and _record_failure              *)

\* The autoflush of the upsert writes the failure list the ORM holds.
Flush(r) ==
    /\ MustFlush(r)
    /\ Executes(r, "upsert")
    /\ tx' = [tx EXCEPT ![r].failed = run[r].list]
    /\ run' = [run EXCEPT ![r].list = None]
    /\ UNCHANGED <<up, db, mixed>>

\* The failure list as r's transaction reads it.
VisibleList(r) == IF tx[r].failed # None THEN tx[r].failed ELSE failed

LookUpState(r) ==
    /\ run[r].pc \in {"record", "finish"}
    /\ run[r].seen = "unread"
    /\ Executes(r, run[r].pc)
    /\ run' = [run EXCEPT ![r].seen =
                 IF VisibleList(r) = None THEN "absent" ELSE "present"]
    /\ UNCHANGED <<up, db, tx, mixed>>

\* INSERT of the singleton row, once no other INSERT of it is open.
InsertState(r) ==
    /\ run[r].seen = "absent"
    /\ Executes(r, run[r].pc)
    /\ failed = None
    /\ tx' = [tx EXCEPT ![r].failed = <<>>]
    /\ run' = [run EXCEPT ![r].seen = "present"]
    /\ UNCHANGED <<up, db, mixed>>

\* Another run has committed the row meanwhile: IntegrityError.
InsertConflict(r) ==
    /\ run[r].seen = "absent"
    /\ Executes(r, run[r].pc)
    /\ failed # None
    /\ Dies(r)

\* The newest Cap entries.
LastCap(l) == SubSeq(l, IF Len(l) > Cap THEN Len(l) - Cap + 1 ELSE 1, Len(l))

\* The run goes on with the next token.
Onward(x) == [x EXCEPT !.todo = Tail(@), !.got = 0,
                       !.pc = IF Len(x.todo) = 1 THEN "finish" ELSE "fetch"]

\* The whole list is read from the database, extended and assigned to the ORM
\* object, over a list assigned before and not yet flushed.
RecordFailure(r) ==
    /\ run[r].seen = "present"
    /\ Executes(r, "record")
    /\ run' = [run EXCEPT ![r] = [Onward(@) EXCEPT
                 !.list = LastCap(Append(VisibleList(r), Token(r)))]]
    /\ UNCHANGED <<up, db, tx, mixed>>

-----------------------------------------------------------------------------
(* One token: _enrich_and_upsert and sync_one_agent                        *)

\* mutant: the answer comes from a cache
GetAgentCached(r) ==
    /\ Goes(r, "fetch")
    /\ \E v \in 1..up[Token(r)] :
          run' = [run EXCEPT ![r].got = v, ![r].pc = "upsert"]
    /\ UNCHANGED <<up, db, tx, mixed>>

GetAgent(r) ==
    /\ Goes(r, "fetch")
    /\ run' = [run EXCEPT ![r].got = up[Token(r)], ![r].pc = "upsert"]
    /\ UNCHANGED <<up, db, tx, mixed>>

\* 404, rate limit or upstream error: recorded by a batch, answered by a single.
GetAgentFails(r) ==
    /\ Goes(r, "fetch")
    /\ IF r \in Batches
       THEN /\ run' = [run EXCEPT ![r].pc = "record"]
            /\ UNCHANGED <<up, db, tx, mixed>>
       ELSE Dies(r)

\* The detail names another chain: skipped without a record, or a 422.
OtherChain(r) ==
    /\ Goes(r, "fetch")
    /\ IF r \in Batches
       THEN /\ run' = [run EXCEPT ![r] = Onward(@)]
            /\ UNCHANGED <<up, db, tx, mixed>>
       ELSE Dies(r)

UpsertAgent(r) ==
    /\ ~MustFlush(r)
    /\ Executes(r, "upsert")
    /\ tx' = [tx EXCEPT ![r].rows[Token(r)] = run[r].got]
    /\ run' = [run EXCEPT ![r].pc = "feedback"]
    /\ UNCHANGED <<up, db, mixed>>

CommitLate(x) == FALSE   \* mutant: only the end of the run commits

\* upserted % PROGRESS_EVERY == 0 or idx == len(token_ids).
CommitDue(x) == x.count % ProgressEvery = 0 \/ Len(x.todo) = 1

MaxOf(m, n) == IF n > m THEN n ELSE m

\* The upsert counts, whatever became of the feedbacks.
Counted(r) ==
    LET x == [run[r] EXCEPT !.done = @ \cup {Token(r)}, !.count = @ + 1,
                              !.last = MaxOf(@, Token(r))]
    IN IF r \in Singles \/ CommitDue(x) THEN [x EXCEPT !.pc = "commit"] ELSE Onward(x)

\* mutant: the handler of a failed feedback request rolls the session back
FeedbackRollsBack(r) ==
    /\ Goes(r, "feedback")
    /\ run' = [run EXCEPT ![r] = Counted(r)]
    /\ \E kept \in BOOLEAN : tx' = IF kept THEN tx ELSE [tx EXCEPT ![r] = NewTx]
    /\ UNCHANGED <<up, db, mixed>>

\* No feedbacks, feedbacks mirrored, or an HTTP failure that is swallowed.
FeedbackDone(r) ==
    /\ Goes(r, "feedback")
    /\ run' = [run EXCEPT ![r] = Counted(r)]
    /\ UNCHANGED <<up, db, tx, mixed>>

\* A feedback statement fails in the database. The exception is swallowed, but
\* PostgreSQL has rolled back everything of the transaction and released its locks.
FeedbackStatementFails(r) ==
    /\ Goes(r, "feedback")
    /\ run' = [run EXCEPT ![r] = [Counted(r) EXCEPT !.spoilt = TRUE]]
    /\ tx' = [tx EXCEPT ![r] = [NewTx EXCEPT !.aborted = TRUE]]
    /\ UNCHANGED <<up, db, mixed>>

\* mutant: the handler of failed feedbacks covers the upsert too
UpsertErrorSwallowed(r) ==
    /\ Deadlocked(r)
    /\ run[r].pc = "upsert"
    /\ run' = [run EXCEPT ![r] = Counted(r)]
    /\ tx' = [tx EXCEPT ![r] = [NewTx EXCEPT !.aborted = TRUE]]
    /\ UNCHANGED <<up, db, mixed>>

\* The statement PostgreSQL aborts to break a circle; nothing catches its error.
DeadlockVictim(r) == Busy(r) /\ Deadlocked(r) /\ Dies(r)

-----------------------------------------------------------------------------
(* Commits                                                                 *)

\* agent_cache with r's upserts; nothing if the transaction was aborted.
RowsAfter(r) == [t \in Tokens |-> IF tx[r].rows[t] # 0 THEN tx[r].rows[t] ELSE rows[t]]

Commit(r) ==
    /\ Goes(r, "commit")
    /\ rows' = RowsAfter(r)
    /\ failed' = VisibleList(r)
    /\ tx' = [tx EXCEPT ![r] = NewTx]
    /\ run' = [run EXCEPT ![r] = IF r \in Singles THEN NewRun
                                 ELSE [Onward(@) EXCEPT !.seen = "unread"]]
    /\ UNCHANGED <<up, last, mixed>>

\* The failure list of the run: the one it holds, else what the database shows.
CurrentList(r) == IF run[r].list # None THEN run[r].list ELSE VisibleList(r)

\* The end of _run_sync: the checkpoint, with whatever is uncommitted.
Finish(r) ==
    /\ run[r].seen = "present"
    /\ Executes(r, "finish")
    /\ rows' = RowsAfter(r)
    /\ failed' = CurrentList(r)
    /\ last' = run[r].last
    /\ tx' = [tx EXCEPT ![r] = NewTx]
    /\ run' = [run EXCEPT ![r] = NewRun]
    /\ UNCHANGED <<up, mixed>>

UpstreamChanges(t) ==
    /\ up[t] < MaxVer
    /\ up' = [up EXCEPT ![t] = @ + 1]
    /\ UNCHANGED <<db, run, tx, mixed>>

-----------------------------------------------------------------------------
\* One agent: the whole of the one-agent endpoint, a batch run's loop body.
SyncAgent(r) ==
    \/ GetAgent(r) \/ GetAgentFails(r) \/ OtherChain(r)
    \/ UpsertAgent(r) \/ FeedbackDone(r) \/ FeedbackStatementFails(r)
    \/ Commit(r)

\* The steps the event loop and the database take for an open run.
Handle(r) ==
    \/ SyncAgent(r)
    \/ Flush(r) \/ LookUpState(r) \/ InsertState(r) \/ InsertConflict(r)
    \/ RecordFailure(r) \/ Finish(r)
    \/ StatementRefused(r) \/ DeadlockVictim(r)

Next ==
    \/ \E r \in Runs : StartBatch(r) \/ StartSingle(r) \/ Handle(r) \/ RunDies(r)
    \/ \E t \in Tokens : UpstreamChanges(t)

Spec == Init /\ [][Next]_vars

\* Every request has a timeout, and PostgreSQL grants locks in the order they
\* were asked for, so a run that can go on again and again does.
FairSpec == Spec /\ \A r \in Runs : SF_vars(Handle(r))

-----------------------------------------------------------------------------
(* Properties                                                              *)

\* An agent that a run has counted as upserted is stored or about to be: it is in
\* the table or in the run's transaction (sync_worker.py: "keeping the agent row"),
\* as long as no feedback statement of the run failed in the database.
CleanUpsertsAreKept ==
    \A r \in Runs : ~run[r].spoilt =>
        \A t \in run[r].done : rows[t] # 0 \/ tx[r].rows[t] # 0

\* The agents a run has upserted and not committed.
Uncommitted(r) == {t \in Tokens : tx[r].rows[t] # 0}

\* A run that is killed between two tokens loses fewer than ProgressEvery upserts.
LossIsBounded ==
    \A r \in Runs : run[r].pc \in {"fetch", "record", "upsert", "finish"} =>
        Cardinality(Uncommitted(r)) < ProgressEvery

\* While runs do not overlap, a stored agent never goes back to an older version.
RowsAdvance == [][~mixed' => \A t \in Tokens : rows'[t] >= rows[t]]_vars

\* Every run comes to its end, however many of them lock each other's rows.
RunEnds == \A r \in Runs : Busy(r) ~> ~Busy(r)

-----------------------------------------------------------------------------
(* The inductive invariant behind the safety properties                    *)

\* What goes with the stage of a run: a token to work on, an answer to upsert, a
\* lookup of sync_state; an aborted transaction holds nothing.
RunInv ==
    \A r \in Runs :
        /\ run[r].pc = "idle" => run[r] = NewRun /\ tx[r] = NewTx
        /\ run[r].pc \notin {"idle", "finish"} => run[r].todo # <<>>
        /\ run[r].pc = "upsert" => run[r].got # 0
        /\ run[r].seen = "absent" => run[r].pc \in {"record", "finish"}
        /\ run[r].seen = "present" /\ ~tx[r].aborted => VisibleList(r) # None
        /\ tx[r].aborted => run[r].spoilt /\ tx[r] = [NewTx EXCEPT !.aborted = TRUE]

\* The locks exclude: one open transaction writes an agent's row or sync_state.
LockInv ==
    /\ \A q, r \in Runs : \A t \in Tokens :
          tx[q].rows[t] # 0 /\ tx[r].rows[t] # 0 => q = r
    /\ \A q, r \in Runs : tx[q].failed # None /\ tx[r].failed # None => q = r

\* The upsert that is about to be counted is in the transaction.
KeptInv ==
    /\ CleanUpsertsAreKept
    /\ \A r \in Runs : run[r].pc = "feedback" => tx[r].rows[Token(r)] # 0

\* Since the last commit a run has upserted no more than it has counted.
CountInv ==
    \A r \in Runs :
        /\ IsFiniteSet(Uncommitted(r))
        /\ run[r].pc \in {"fetch", "record", "upsert", "finish"} =>
              Cardinality(Uncommitted(r)) <= run[r].count % ProgressEvery
        /\ run[r].pc = "feedback" =>
              Cardinality(Uncommitted(r)) <= (run[r].count % ProgressEvery) + 1

\* Nothing is newer than upstream, and as long as runs do not overlap what the
\* open one writes is at least as new as what is stored.
VersionInv ==
    /\ \A t \in Tokens : rows[t] <= up[t]
    /\ \A r \in Runs : \A t \in Tokens : tx[r].rows[t] <= up[t]
    /\ \A r \in Runs : run[r].pc = "upsert" => run[r].got <= up[Token(r)]
    /\ ~mixed =>
          /\ \A q, r \in Runs : Busy(q) /\ Busy(r) => q = r
          /\ \A r \in Runs : \A t \in Tokens :
                tx[r].rows[t] # 0 => tx[r].rows[t] >= rows[t]
          /\ \A r \in Runs : run[r].pc = "upsert" => run[r].got >= rows[Token(r)]

\* What runs, transactions and rows keep through every interleaving.
IInv == TypeOK /\ RunInv /\ LockInv /\ KeptInv /\ CountInv /\ VersionInv
=============================================================================
