--------------------------- MODULE SyncRun_proofs ---------------------------
(***************************************************************************)
(* Proofs about SyncRun, for every value of its constants.                 *)
(***************************************************************************)
EXTENDS SyncRun, SequenceTheorems, FiniteSetTheorems, TLAPS

\* What run r does in one step of its own.
Step(r) == StartBatch(r) \/ StartSingle(r) \/ Handle(r) \/ RunDies(r)

-----------------------------------------------------------------------------
(* Lists, tokens and the locals of a run                                   *)

\* Cutting a sequence to its first or last elements.
LEMMA CutTypes ==
    ASSUME NEW l \in Seq(Tokens)
    PROVE  /\ FirstOf(l) \in Seq(Tokens)
           /\ LastCap(l) \in Seq(Tokens) /\ Len(LastCap(l)) <= Cap
  <1>1. \A m, n \in Int : m >= 1 /\ n <= Len(l) =>
           /\ SubSeq(l, m, n) \in Seq(Tokens)
           /\ Len(SubSeq(l, m, n)) = IF m <= n THEN n - m + 1 ELSE 0
    <2> TAKE m, n \in Int
    <2> HAVE m >= 1 /\ n <= Len(l)
    <2>1. \A i \in m .. n : l[i] \in Tokens
      OBVIOUS
    <2> QED
      BY <2>1, SubSeqProperties
  <1> QED
    BY <1>1, SyncConstants DEF FirstOf, LastCap

\* The fields of a run, of its transaction, and of the token it works on.
LEMMA Fields ==
    ASSUME TypeOK, RunInv, NEW r \in Runs
    PROVE  /\ run[r] \in Run /\ tx[r] \in Tx
           /\ run[r].todo # <<>> =>
                Token(r) \in Tokens /\ Tail(run[r].todo) \in Seq(Tokens)
           /\ VisibleList(r) \in Lists /\ CurrentList(r) \in Lists
           /\ run[r].pc \notin {"idle", "finish"} => run[r].todo # <<>>
  <1>1. run[r] \in Run /\ tx[r] \in Tx /\ failed \in Lists
    BY DEF TypeOK
  <1>2. run[r].todo \in Seq(Tokens)
    BY <1>1 DEF Run
  <1>3. run[r].list \in Lists /\ tx[r].failed \in Lists
    BY <1>1 DEF Run, Tx
  <1>4. VisibleList(r) \in Lists /\ CurrentList(r) \in Lists
    BY <1>1, <1>3 DEF VisibleList, CurrentList
  <1> QED
    BY <1>1, <1>2, <1>4, HeadTailProperties DEF Token, RunInv

\* A fresh run and a fresh transaction.
LEMMA NewTypes == NewRun \in Run /\ NewTx \in Tx /\ [NewTx EXCEPT !.aborted = TRUE] \in Tx
  <1>1. None \in Lists /\ 0 \in Vers
    BY SyncConstants DEF Lists, Vers
  <1>2. NewRun \in Run
    <2>1. <<>> \in Seq(Tokens) /\ {} \in SUBSET Tokens /\ -1 \in Int
      OBVIOUS
    <2> QED
      BY <1>1, <2>1 DEF NewRun, Run, Stage
  <1>3. NewTx \in Tx
    BY <1>1 DEF NewTx, Tx
  <1>4. [NewTx EXCEPT !.aborted = TRUE] \in Tx
    BY <1>3 DEF Tx
  <1> QED
    BY <1>2, <1>3, <1>4

\* Going on with the next token.
LEMMA OnwardType ==
    ASSUME NEW x \in Run, x.todo # <<>>
    PROVE  /\ Onward(x) \in Run
           /\ Onward(x).pc \in {"fetch", "finish"}
           /\ Onward(x).pc = "fetch" => Onward(x).todo # <<>>
           /\ Onward(x).done = x.done /\ Onward(x).count = x.count
           /\ Onward(x).seen = x.seen /\ Onward(x).spoilt = x.spoilt
           /\ Onward(x).list = x.list /\ Onward(x).last = x.last
  <1>1. /\ x.todo \in Seq(Tokens) /\ Tail(x.todo) \in Seq(Tokens)
        /\ Len(Tail(x.todo)) = Len(x.todo) - 1 /\ Len(x.todo) \in Nat
    BY HeadTailProperties DEF Run
  <1>2. 0 \in Vers
    BY SyncConstants DEF Vers
  <1>3. Len(x.todo) # 1 => Tail(x.todo) # <<>>
    <2>1. \A s \in Seq(Tokens) : Len(s) # 0 => s # <<>>
      OBVIOUS
    <2>2. Len(x.todo) # 1 => Len(Tail(x.todo)) # 0
      BY <1>1
    <2> QED
      BY <1>1, <2>1, <2>2
  <1> QED
    BY <1>1, <1>2, <1>3 DEF Onward, Run, Stage

\* Counting an upsert: a commit, or the next token if no commit is due.
LEMMA CountedType ==
    ASSUME TypeOK, RunInv, NEW r \in Runs, run[r].pc = "feedback"
    PROVE  /\ Counted(r) \in Run
           /\ Counted(r).pc \in {"fetch", "finish", "commit"}
           /\ Counted(r).pc \in {"fetch", "commit"} => Counted(r).todo # <<>>
           /\ Counted(r).done = run[r].done \cup {Token(r)}
           /\ Counted(r).count = run[r].count + 1
           /\ Counted(r).seen = run[r].seen /\ Counted(r).spoilt = run[r].spoilt
           /\ Counted(r).pc # "commit" => (run[r].count + 1) % ProgressEvery # 0
  <1> DEFINE x == [run[r] EXCEPT !.done = @ \cup {Token(r)}, !.count = @ + 1,
                                 !.last = MaxOf(@, Token(r))]
  <1>1. /\ run[r] \in Run /\ run[r].todo # <<>> /\ Token(r) \in Tokens /\ Token(r) \in Int
    <2>1. run[r] \in Run /\ run[r].todo # <<>> /\ Token(r) \in Tokens
      BY Fields
    <2>2. Tokens \subseteq Int
      BY SyncConstants
    <2> QED
      BY <2>1, <2>2
  <1>2. /\ x \in Run /\ x.todo # <<>>
        /\ x.done = run[r].done \cup {Token(r)} /\ x.count = run[r].count + 1
        /\ x.seen = run[r].seen /\ x.spoilt = run[r].spoilt
    <2>1. MaxOf(run[r].last, Token(r)) \in Int /\ run[r].done \cup {Token(r)} \in SUBSET Tokens
          /\ run[r].count + 1 \in Nat
      BY <1>1 DEF Run, MaxOf
    <2> QED
      BY <1>1, <2>1 DEF Run
  <1>3. Counted(r) = IF r \in Singles \/ CommitDue(x) THEN [x EXCEPT !.pc = "commit"]
                     ELSE Onward(x)
    BY DEF Counted
  <1> HIDE DEF x
  <1>4. CASE r \in Singles \/ CommitDue(x)
    <2>1. Counted(r) = [x EXCEPT !.pc = "commit"]
      BY <1>3, <1>4
    <2> QED
      BY <1>2, <2>1 DEF Run, Stage
  <1>5. CASE ~(r \in Singles \/ CommitDue(x))
    <2>1. Counted(r) = Onward(x)
      BY <1>3, <1>5
    <2>2. x.count % ProgressEvery # 0
      BY <1>5 DEF CommitDue
    <2> QED
      BY <1>2, <2>1, <2>2, OnwardType
  <1> QED
    BY <1>4, <1>5

-----------------------------------------------------------------------------
(* The shape of a step                                                     *)

\* One run moves: its locals and its transaction become x and y.
Moves(r, x, y) == run' = [run EXCEPT ![r] = x] /\ tx' = [tx EXCEPT ![r] = y]

\* A start takes an idle run, with tokens to work on or straight to its end.
LEMMA StartShape ==
    ASSUME TypeOK, RunInv, NEW r \in Runs, StartBatch(r) \/ StartSingle(r)
    PROVE  /\ run[r].pc = "idle" /\ UNCHANGED <<up, db, tx>>
           /\ mixed' = (mixed \/ \E s \in Runs : Busy(s))
           /\ \E x \in Run : /\ Moves(r, x, NewTx)
                             /\ x.pc \in {"fetch", "finish"}
                             /\ x.pc = "fetch" => x.todo # <<>>
                             /\ x.done = {} /\ x.count = 0 /\ x.seen = "unread"
                             /\ x.spoilt = FALSE /\ x.list = None
  <1>1. \E l \in Seq(Tokens) : Starts(r, l)
    <2>1. CASE StartBatch(r)
      BY <2>1, CutTypes, SyncConstants DEF StartBatch
    <2>2. CASE StartSingle(r)
      <3>1. \A t \in Tokens : <<t>> \in Seq(Tokens)
        OBVIOUS
      <3> QED
        BY <2>2, <3>1 DEF StartSingle
    <2> QED
      BY <2>1, <2>2
  <1>2. PICK l \in Seq(Tokens) : Starts(r, l)
    BY <1>1
  <1>3. run[r].pc = "idle" /\ run[r] = NewRun /\ tx[r] = NewTx
    BY <1>2 DEF Starts, Busy, RunInv
  <1> DEFINE x == [NewRun EXCEPT !.pc = IF l = <<>> THEN "finish" ELSE "fetch", !.todo = l]
  <1>4. x \in Run /\ x.pc \in {"fetch", "finish"} /\ (x.pc = "fetch" => x.todo # <<>>)
        /\ x.done = {} /\ x.count = 0 /\ x.seen = "unread"
        /\ x.spoilt = FALSE /\ x.list = None
    BY NewTypes DEF NewRun, Run, Stage
  <1>5. run' = [run EXCEPT ![r] = x] /\ tx' = tx
    BY <1>2 DEF Starts
  <1>6. tx' = [tx EXCEPT ![r] = NewTx]
    BY <1>3, <1>5 DEF TypeOK
  <1> QED
    BY <1>2, <1>3, <1>4, <1>5, <1>6 DEF Starts, Moves

\* The ways a run ends without a commit.
Ends(r) ==
    \/ RunDies(r) \/ StatementRefused(r) \/ DeadlockVictim(r) \/ InsertConflict(r)
    \/ r \in Singles /\ (GetAgentFails(r) \/ OtherChain(r))

\* A run that ends without a commit leaves the tables alone and frees its locks.
LEMMA EndShape ==
    ASSUME TypeOK, RunInv, NEW r \in Runs, Ends(r)
    PROVE  /\ run[r].pc # "idle" /\ UNCHANGED <<up, db, mixed>>
           /\ Moves(r, NewRun, NewTx)
  <1>1. r \in Singles => r \notin Batches
    BY SyncConstants
  <1>2. run[r].pc # "idle" /\ Dies(r)
    <2>1. CASE RunDies(r) \/ StatementRefused(r) \/ DeadlockVictim(r)
      BY <2>1 DEF RunDies, StatementRefused, DeadlockVictim, Busy
    <2>2. CASE InsertConflict(r)
      BY <2>2 DEF InsertConflict, Executes, Goes, RunInv
    <2>3. CASE r \in Singles /\ (GetAgentFails(r) \/ OtherChain(r))
      BY <1>1, <2>3 DEF GetAgentFails, OtherChain, Goes
    <2> QED
      BY <2>1, <2>2, <2>3 DEF Ends
  <1> QED
    BY <1>2 DEF Dies, Moves

\* The ways a run goes on without touching its transaction.
GoesOn(r) ==
    \/ GetAgent(r) \/ LookUpState(r) \/ RecordFailure(r) \/ FeedbackDone(r)
    \/ r \in Batches /\ (GetAgentFails(r) \/ OtherChain(r))

\* A step that leaves the transaction alone: the next stage, and what is counted.
LEMMA GoesOnShape ==
    ASSUME TypeOK, RunInv, NEW r \in Runs, GoesOn(r)
    PROVE  /\ UNCHANGED <<up, db, mixed>>
           /\ \E x \in Run :
                /\ Moves(r, x, tx[r])
                /\ run[r].pc # "idle" /\ x.pc \notin {"idle", "feedback"}
                /\ x.pc # "finish" => x.todo # <<>>
                /\ x.pc = "upsert" => x.todo = run[r].todo /\ x.got = up[Token(r)]
                /\ x.seen = "absent" => x.pc \in {"record", "finish"}
                /\ x.seen = "present" => run[r].seen = "present" \/ VisibleList(r) # None
                /\ x.spoilt = run[r].spoilt
                /\ \/ /\ run[r].pc \in {"fetch", "record", "finish"} /\ x.pc # "commit"
                      /\ x.done = run[r].done /\ x.count = run[r].count
                   \/ /\ run[r].pc = "feedback"
                      /\ x.done = run[r].done \cup {Token(r)} /\ x.count = run[r].count + 1
                      /\ x.pc = "commit" \/ (run[r].count + 1) % ProgressEvery # 0
  <1>0. /\ run[r] \in Run /\ tx[r] \in Tx
        /\ run[r].pc \notin {"idle", "finish"} => run[r].todo # <<>> /\ Token(r) \in Tokens
        /\ VisibleList(r) \in Lists
        /\ tx = [tx EXCEPT ![r] = tx[r]]
    BY Fields DEF TypeOK
  <1>1. CASE GetAgent(r)
    <2> DEFINE x == [run[r] EXCEPT !.got = up[Token(r)], !.pc = "upsert"]
    <2>1. run[r].pc = "fetch" /\ up[Token(r)] \in Vers
      BY <1>0, <1>1 DEF GetAgent, Goes, TypeOK, Vers
    <2>2. x \in Run
      BY <1>0, <2>1 DEF Run, Stage
    <2>3. Moves(r, x, tx[r]) /\ UNCHANGED <<up, db, mixed>>
      BY <1>0, <1>1 DEF GetAgent, Moves, TypeOK
    <2>4. run[r].seen # "absent"
      BY <2>1 DEF RunInv
    <2>5. /\ x.pc = "upsert" /\ x.todo = run[r].todo /\ x.got = up[Token(r)]
          /\ x.seen = run[r].seen /\ x.spoilt = run[r].spoilt
          /\ x.done = run[r].done /\ x.count = run[r].count
      BY <1>0 DEF Run
    <2> HIDE DEF x
    <2> QED
      BY <1>0, <2>1, <2>2, <2>3, <2>4, <2>5
  <1>2. CASE r \in Batches /\ GetAgentFails(r)
    <2> DEFINE x == [run[r] EXCEPT !.pc = "record"]
    <2>1. run[r].pc = "fetch"
      BY <1>2 DEF GetAgentFails, Goes
    <2>2. x \in Run
      BY <1>0 DEF Run, Stage
    <2>3. Moves(r, x, tx[r]) /\ UNCHANGED <<up, db, mixed>>
      BY <1>0, <1>2 DEF GetAgentFails, Moves, TypeOK
    <2>4. /\ x.pc = "record" /\ x.todo = run[r].todo
          /\ x.seen = run[r].seen /\ x.spoilt = run[r].spoilt
          /\ x.done = run[r].done /\ x.count = run[r].count
      BY <1>0 DEF Run
    <2> HIDE DEF x
    <2> QED
      BY <1>0, <2>1, <2>2, <2>3, <2>4
  <1>3. CASE r \in Batches /\ OtherChain(r)
    <2>1. run[r].pc = "fetch" /\ run[r].seen # "absent"
      BY <1>3 DEF OtherChain, Goes, RunInv
    <2>2. Moves(r, Onward(run[r]), tx[r]) /\ UNCHANGED <<up, db, mixed>>
      BY <1>0, <1>3 DEF OtherChain, Moves, TypeOK
    <2> DEFINE x == Onward(run[r])
    <2>3. /\ x \in Run /\ x.pc \in {"fetch", "finish"} /\ (x.pc = "fetch" => x.todo # <<>>)
          /\ x.seen = run[r].seen /\ x.spoilt = run[r].spoilt
          /\ x.done = run[r].done /\ x.count = run[r].count
      BY <1>0, <2>1, OnwardType
    <2>4. Moves(r, x, tx[r])
      BY <2>2
    <2> HIDE DEF x
    <2> QED
      BY <1>0, <2>1, <2>2, <2>3, <2>4
  <1>4. CASE LookUpState(r)
    <2> DEFINE x == [run[r] EXCEPT !.seen = IF VisibleList(r) = None THEN "absent" ELSE "present"]
    <2>1. run[r].pc \in {"record", "finish"}
      BY <1>4 DEF LookUpState
    <2>2. x \in Run
      BY <1>0 DEF Run
    <2>3. Moves(r, x, tx[r]) /\ UNCHANGED <<up, db, mixed>>
      BY <1>0, <1>4 DEF LookUpState, Moves, TypeOK
    <2>4. /\ x.pc = run[r].pc /\ x.todo = run[r].todo
          /\ x.seen = (IF VisibleList(r) = None THEN "absent" ELSE "present")
          /\ x.spoilt = run[r].spoilt
          /\ x.done = run[r].done /\ x.count = run[r].count
      BY <1>0 DEF Run
    <2> HIDE DEF x
    <2> QED
      BY <1>0, <2>1, <2>2, <2>3, <2>4
  <1>5. CASE RecordFailure(r)
    <2> DEFINE o == Onward(run[r])
               x == [o EXCEPT !.list = LastCap(Append(VisibleList(r), Token(r)))]
    <2>1. run[r].pc = "record" /\ run[r].seen = "present" /\ ~tx[r].aborted
      BY <1>5 DEF RecordFailure, Executes, Goes
    <2>2. VisibleList(r) \in Seq(Tokens) /\ Token(r) \in Tokens
      BY <1>0, <2>1 DEF RunInv, Lists
    <2>3. LastCap(Append(VisibleList(r), Token(r))) \in Lists
      <3>1. Append(VisibleList(r), Token(r)) \in Seq(Tokens)
        BY <2>2
      <3> HIDE DEF x
      <3>2. \A l \in Seq(Tokens) : LastCap(l) \in Seq(Tokens) /\ Len(LastCap(l)) <= Cap
        BY CutTypes
      <3> QED
        BY <3>1, <3>2 DEF Lists
    <2>4. /\ o \in Run /\ o.pc \in {"fetch", "finish"}
          /\ o.pc = "fetch" => o.todo # <<>>
          /\ o.done = run[r].done /\ o.count = run[r].count
          /\ o.seen = run[r].seen /\ o.spoilt = run[r].spoilt
      BY <1>0, <2>1, OnwardType
    <2>5. Moves(r, x, tx[r]) /\ UNCHANGED <<up, db, mixed>>
      BY <1>0, <1>5 DEF RecordFailure, Moves, TypeOK
    <2> HIDE DEF o
    <2>6. /\ x \in Run /\ x.pc = o.pc /\ x.todo = o.todo /\ x.done = o.done
          /\ x.count = o.count /\ x.seen = o.seen /\ x.spoilt = o.spoilt
      BY <2>3, <2>4 DEF Run
    <2> HIDE DEF x
    <2> QED
      BY <2>1, <2>4, <2>5, <2>6
  <1>6. CASE FeedbackDone(r)
    <2>1. run[r].pc = "feedback" /\ run[r].seen # "absent"
      BY <1>6 DEF FeedbackDone, Goes, RunInv
    <2>2. Moves(r, Counted(r), tx[r]) /\ UNCHANGED <<up, db, mixed>>
      BY <1>0, <1>6 DEF FeedbackDone, Moves, TypeOK
    <2> QED
      BY <2>1, <2>2, CountedType
  <1> QED
    BY <1>1, <1>2, <1>3, <1>4, <1>5, <1>6 DEF GoesOn

\* A write of the sync_state row: nobody else has one open.
LEMMA StateWriteShape ==
    ASSUME TypeOK, RunInv, NEW r \in Runs, Flush(r) \/ InsertState(r)
    PROVE  /\ UNCHANGED <<up, db, mixed>> /\ ~tx[r].aborted
           /\ \A q \in Runs \ {r} : tx[q].failed = None
           /\ \E x \in Run, y \in Tx :
                /\ Moves(r, x, y)
                /\ x.pc = run[r].pc /\ x.pc \in {"record", "upsert", "finish"}
                /\ x.todo = run[r].todo /\ x.got = run[r].got
                /\ x.done = run[r].done /\ x.count = run[r].count
                /\ x.spoilt = run[r].spoilt /\ x.seen # "absent"
                /\ y.rows = tx[r].rows /\ ~y.aborted /\ y.failed # None
  <1>1. run[r] \in Run /\ tx[r] \in Tx
    BY Fields
  <1>2. CASE Flush(r)
    <2> DEFINE x == [run[r] EXCEPT !.list = None]
               y == [tx[r] EXCEPT !.failed = run[r].list]
    <2>1. run[r].pc = "upsert" /\ run[r].list # None /\ ~tx[r].aborted /\ WaitsFor(r) = {}
      BY <1>2 DEF Flush, MustFlush, Executes, Goes
    <2>2. run[r].seen # "absent" /\ StateHolders \ {r} = {}
      BY <2>1 DEF RunInv, WaitsFor, MustFlush
    <2>3. x \in Run /\ y \in Tx
      BY <1>1 DEF Run, Tx, Lists
    <2>4. Moves(r, x, y) /\ UNCHANGED <<up, db, mixed>>
      BY <1>1, <1>2 DEF Flush, Moves, TypeOK
    <2> QED
      BY <1>1, <2>1, <2>2, <2>3, <2>4 DEF StateHolders, Run, Tx
  <1>3. CASE InsertState(r)
    <2> DEFINE x == [run[r] EXCEPT !.seen = "present"]
               y == [tx[r] EXCEPT !.failed = <<>>]
    <2>1. run[r].seen = "absent" /\ ~tx[r].aborted /\ WaitsFor(r) = {}
      BY <1>3 DEF InsertState, Executes, Goes
    <2>2. run[r].pc \in {"record", "finish"} /\ StateHolders \ {r} = {}
      BY <2>1 DEF RunInv, WaitsFor
    <2>3. <<>> \in Lists /\ None # <<>>
      <3>1. <<>> \in Seq(Tokens) /\ Len(<<>>) = 0
        BY EmptySeq
      <3>2. Cap \in Nat /\ None \notin Seq(Tokens)
        BY SyncConstants
      <3>3. <<>> \in {l \in Seq(Tokens) : Len(l) <= Cap}
        BY <3>1, <3>2
      <3>4. None # <<>>
        BY <3>1, <3>2
      <3> QED
        BY <3>3, <3>4 DEF Lists
    <2>4. x \in Run /\ y \in Tx
      BY <1>1, <2>3 DEF Run, Tx
    <2>5. Moves(r, x, y) /\ UNCHANGED <<up, db, mixed>>
      BY <1>1, <1>3 DEF InsertState, Moves, TypeOK
    <2> QED
      BY <1>1, <2>1, <2>2, <2>3, <2>4, <2>5 DEF StateHolders, Run, Tx
  <1> QED
    BY <1>2, <1>3

\* An upsert: nobody else has an open write of the agent's row.
LEMMA UpsertShape ==
    ASSUME TypeOK, RunInv, NEW r \in Runs, UpsertAgent(r)
    PROVE  /\ UNCHANGED <<up, db, mixed>> /\ ~tx[r].aborted
           /\ run[r].pc = "upsert" /\ Token(r) \in Tokens /\ run[r].got \in Vers
           /\ \A q \in Runs \ {r} : tx[q].rows[Token(r)] = 0
           /\ \E x \in Run, y \in Tx :
                /\ Moves(r, x, y)
                /\ x.pc = "feedback" /\ x.todo = run[r].todo
                /\ x.done = run[r].done /\ x.count = run[r].count
                /\ x.spoilt = run[r].spoilt /\ x.seen = run[r].seen
                /\ y.rows = [tx[r].rows EXCEPT ![Token(r)] = run[r].got]
                /\ ~y.aborted /\ y.failed = tx[r].failed
  <1>1. run[r].pc = "upsert" /\ ~MustFlush(r) /\ ~tx[r].aborted /\ WaitsFor(r) = {}
    BY DEF UpsertAgent, Executes, Goes
  <1>2. run[r] \in Run /\ tx[r] \in Tx /\ Token(r) \in Tokens
    BY <1>1, Fields
  <1>3. RowHolders(Token(r)) \ {r} = {}
    BY <1>1 DEF WaitsFor
  <1> DEFINE x == [run[r] EXCEPT !.pc = "feedback"]
             y == [tx[r] EXCEPT !.rows[Token(r)] = run[r].got]
  <1>4. x \in Run /\ y \in Tx
    BY <1>2 DEF Run, Tx, Stage
  <1>5. Moves(r, x, y) /\ UNCHANGED <<up, db, mixed>>
    BY <1>2 DEF UpsertAgent, Moves, TypeOK
  <1>6. /\ x.pc = "feedback" /\ x.todo = run[r].todo
        /\ x.done = run[r].done /\ x.count = run[r].count
        /\ x.spoilt = run[r].spoilt /\ x.seen = run[r].seen
        /\ y.rows = [tx[r].rows EXCEPT ![Token(r)] = run[r].got]
        /\ ~y.aborted /\ y.failed = tx[r].failed /\ run[r].got \in Vers
    BY <1>1, <1>2 DEF Run, Tx
  <1>7. \A q \in Runs \ {r} : tx[q].rows[Token(r)] = 0
    BY <1>3 DEF RowHolders
  <1> QED
    BY <1>1, <1>2, <1>4, <1>5, <1>6, <1>7

\* A failed feedback statement: everything of the transaction is gone.
LEMMA AbortShape ==
    ASSUME TypeOK, RunInv, NEW r \in Runs, FeedbackStatementFails(r)
    PROVE  /\ UNCHANGED <<up, db, mixed>> /\ run[r].pc = "feedback"
           /\ \E x \in Run :
                /\ Moves(r, x, [NewTx EXCEPT !.aborted = TRUE])
                /\ x.pc \in {"fetch", "finish", "commit"}
                /\ x.pc # "finish" => x.todo # <<>>
                /\ x.count = run[r].count + 1
                /\ x.spoilt = TRUE /\ x.seen # "absent"
  <1>1. run[r].pc = "feedback" /\ run[r].seen # "absent"
    BY DEF FeedbackStatementFails, Goes, RunInv
  <1>2. /\ Counted(r) \in Run /\ Counted(r).pc \in {"fetch", "finish", "commit"}
        /\ Counted(r).pc # "finish" => Counted(r).todo # <<>>
        /\ Counted(r).count = run[r].count + 1 /\ Counted(r).seen = run[r].seen
    BY <1>1, CountedType
  <1> DEFINE x == [Counted(r) EXCEPT !.spoilt = TRUE]
  <1>3. Moves(r, x, [NewTx EXCEPT !.aborted = TRUE]) /\ UNCHANGED <<up, db, mixed>>
    BY DEF FeedbackStatementFails, Moves
  <1>4. x \in Run /\ x.spoilt = TRUE
    BY <1>2 DEF Run
  <1> QED
    BY <1>1, <1>2, <1>3, <1>4 DEF Run

\* A commit: the rows of the transaction are stored, the locks are free.
LEMMA CommitShape ==
    ASSUME TypeOK, RunInv, NEW r \in Runs, Commit(r) \/ Finish(r)
    PROVE  /\ UNCHANGED <<up, mixed>> /\ run[r].pc \in {"commit", "finish"}
           /\ rows' = RowsAfter(r) /\ last' \in Int
           /\ failed' \in Lists /\ (failed # None => failed' # None)
           /\ \E x \in Run :
                /\ Moves(r, x, NewTx)
                /\ \/ x = NewRun
                   \/ /\ x.pc \in {"fetch", "finish"}
                      /\ x.pc = "fetch" => x.todo # <<>>
                      /\ x.done = run[r].done /\ x.count = run[r].count
                      /\ x.spoilt = run[r].spoilt /\ x.seen = "unread"
  <1>1. /\ run[r] \in Run /\ VisibleList(r) \in Lists /\ CurrentList(r) \in Lists
        /\ run[r].pc \notin {"idle", "finish"} => run[r].todo # <<>>
    BY Fields
  <1>2. failed # None => VisibleList(r) # None /\ CurrentList(r) # None
    BY DEF VisibleList, CurrentList
  <1>3. NewRun \in Run
    BY NewTypes
  <1>4. CASE Commit(r)
    <2> DEFINE o == Onward(run[r])
               x == [o EXCEPT !.seen = "unread"]
    <2>1. run[r].pc = "commit" /\ rows' = RowsAfter(r) /\ failed' = VisibleList(r)
          /\ UNCHANGED <<up, last, mixed>>
      BY <1>4 DEF Commit, Goes
    <2>2. Moves(r, IF r \in Singles THEN NewRun ELSE x, NewTx)
      BY <1>4 DEF Commit, Moves
    <2>3. /\ o \in Run /\ o.pc \in {"fetch", "finish"} /\ (o.pc = "fetch" => o.todo # <<>>)
          /\ o.done = run[r].done /\ o.count = run[r].count /\ o.spoilt = run[r].spoilt
      BY <1>1, <2>1, OnwardType
    <2> HIDE DEF o
    <2>4. /\ x \in Run /\ x.pc \in {"fetch", "finish"} /\ (x.pc = "fetch" => x.todo # <<>>)
          /\ x.done = run[r].done /\ x.count = run[r].count /\ x.spoilt = run[r].spoilt
          /\ x.seen = "unread"
      BY <2>3 DEF Run
    <2>5. last' \in Int
      BY <2>1 DEF TypeOK
    <2> HIDE DEF x
    <2>6. CASE r \in Singles
      BY <1>1, <1>2, <1>3, <2>1, <2>2, <2>5, <2>6
    <2>7. CASE r \notin Singles
      BY <1>1, <1>2, <2>1, <2>2, <2>4, <2>5, <2>7
    <2> QED
      BY <2>6, <2>7
  <1>5. CASE Finish(r)
    <2>1. run[r].pc = "finish" /\ rows' = RowsAfter(r) /\ failed' = CurrentList(r)
          /\ last' = run[r].last /\ UNCHANGED <<up, mixed>> /\ Moves(r, NewRun, NewTx)
      BY <1>5 DEF Finish, Executes, Goes, Moves
    <2>2. last' \in Int
      BY <1>1, <2>1 DEF Run
    <2> QED
      BY <1>1, <1>2, <1>3, <2>1, <2>2
  <1> QED
    BY <1>4, <1>5

\* Every step of a run is one of these.
LEMMA StepCases ==
    ASSUME TypeOK, NEW r \in Runs, Step(r)
    PROVE  \/ StartBatch(r) \/ StartSingle(r) \/ Ends(r) \/ GoesOn(r)
           \/ Flush(r) \/ InsertState(r) \/ UpsertAgent(r) \/ FeedbackStatementFails(r)
           \/ Commit(r) \/ Finish(r)
  BY DEF Step, Handle, SyncAgent, Ends, GoesOn, Runs

\* A step moves one run or lets one agent change upstream.
LEMMA NextCases ==
    ASSUME [Next]_vars
    PROVE  \/ \E r \in Runs : Step(r)
           \/ \E t \in Tokens : UpstreamChanges(t)
           \/ UNCHANGED vars
  BY DEF Next, Step

-----------------------------------------------------------------------------
(* Type correctness, and what every step of a run leaves true              *)

\* The table after a commit holds versions.
LEMMA RowsAfterType ==
    ASSUME TypeOK, NEW r \in Runs
    PROVE  RowsAfter(r) \in [Tokens -> Vers]
  <1>1. \A t \in Tokens : rows[t] \in Vers /\ tx[r].rows[t] \in Vers
    BY DEF TypeOK, Tx
  <1> QED
    BY <1>1 DEF RowsAfter

\* Other runs stand still; a stored row or failure list is never removed.
LEMMA RunStep ==
    ASSUME TypeOK, RunInv, NEW r \in Runs, Step(r)
    PROVE  /\ TypeOK' /\ up' = up
           /\ \E x \in Run, y \in Tx : Moves(r, x, y)
           /\ \A s \in Runs \ {r} : run'[s] = run[s] /\ tx'[s] = tx[s]
           /\ \A t \in Tokens : rows[t] # 0 => rows'[t] # 0
           /\ failed # None => failed' # None
  <1>1. /\ up' = up /\ \E x \in Run, y \in Tx : Moves(r, x, y)
        /\ mixed' \in BOOLEAN
        /\ UNCHANGED db \/ (rows' = RowsAfter(r) /\ last' \in Int
                              /\ failed' \in Lists /\ (failed # None => failed' # None))
    <2>1. NewRun \in Run /\ NewTx \in Tx /\ [NewTx EXCEPT !.aborted = TRUE] \in Tx
          /\ tx[r] \in Tx /\ mixed \in BOOLEAN
      BY NewTypes DEF TypeOK
    <2>2. CASE StartBatch(r) \/ StartSingle(r)
      BY <2>1, <2>2, StartShape
    <2>3. CASE Ends(r)
      BY <2>1, <2>3, EndShape
    <2>4. CASE GoesOn(r)
      BY <2>1, <2>4, GoesOnShape
    <2>5. CASE Flush(r) \/ InsertState(r)
      BY <2>1, <2>5, StateWriteShape
    <2>6. CASE UpsertAgent(r)
      BY <2>1, <2>6, UpsertShape
    <2>7. CASE FeedbackStatementFails(r)
      BY <2>1, <2>7, AbortShape
    <2>8. CASE Commit(r) \/ Finish(r)
      BY <2>1, <2>8, CommitShape
    <2> QED
      BY <2>2, <2>3, <2>4, <2>5, <2>6, <2>7, <2>8, StepCases
  <1>2. rows' \in [Tokens -> Vers] /\ failed' \in Lists /\ last' \in Int
    BY <1>1, RowsAfterType DEF db, TypeOK
  <1>3. \A t \in Tokens : rows[t] # 0 => rows'[t] # 0
    BY <1>1 DEF db, RowsAfter
  <1>4. failed # None => failed' # None
    BY <1>1 DEF db
  <1>5. PICK x \in Run, y \in Tx : Moves(r, x, y)
    BY <1>1
  <1>6. run' \in [Runs -> Run] /\ tx' \in [Runs -> Tx]
        /\ \A s \in Runs \ {r} : run'[s] = run[s] /\ tx'[s] = tx[s]
    BY <1>5 DEF Moves, TypeOK
  <1>7. TypeOK'
    BY <1>1, <1>2, <1>6 DEF TypeOK
  <1> QED
    BY <1>1, <1>3, <1>4, <1>6, <1>7

\* A change upstream makes one agent newer.
LEMMA UpstreamStep ==
    ASSUME TypeOK, NEW t \in Tokens, UpstreamChanges(t)
    PROVE  /\ TypeOK' /\ UNCHANGED <<db, run, tx, mixed>>
           /\ \A s \in Tokens : up[s] <= up'[s]
  <1>1. up[t] \in 1..MaxVer /\ up[t] < MaxVer /\ up' = [up EXCEPT ![t] = @ + 1]
    BY DEF UpstreamChanges, TypeOK
  <1>2. up' \in [Tokens -> 1..MaxVer] /\ \A s \in Tokens : up[s] <= up'[s]
    BY <1>1, SyncConstants DEF TypeOK
  <1>3. UNCHANGED <<db, run, tx, mixed>>
    BY DEF UpstreamChanges
  <1> QED
    BY <1>2, <1>3 DEF TypeOK, db

-----------------------------------------------------------------------------
(* RunInv and LockInv                                                      *)

\* What RunInv says of one run x with transaction y, and failure list f stored.
Local(x, y, f) ==
    /\ x.pc = "idle" => x = NewRun /\ y = NewTx
    /\ x.pc \notin {"idle", "finish"} => x.todo # <<>>
    /\ x.pc = "upsert" => x.got # 0
    /\ x.seen = "absent" => x.pc \in {"record", "finish"}
    /\ x.seen = "present" /\ ~y.aborted => y.failed # None \/ f # None
    /\ y.aborted => x.spoilt /\ y = [NewTx EXCEPT !.aborted = TRUE]

\* RunInv speaks of each run and its transaction by themselves.
LEMMA RunInvIsLocal == RunInv <=> \A r \in Runs : Local(run[r], tx[r], failed)
  BY DEF RunInv, Local, VisibleList

\* A run that is not open holds, counts and locks nothing.
LEMMA NewIsLocal ==
    /\ \A f \in Lists : Local(NewRun, NewTx, f)
    /\ NewRun.pc = "idle" /\ NewRun.done = {} /\ ~NewRun.spoilt /\ NewRun.count = 0
    /\ NewTx.failed = None /\ ~NewTx.aborted /\ \A t \in Tokens : NewTx.rows[t] = 0
  BY DEF Local, NewRun, NewTx

\* An aborted transaction holds no row and no failure list.
LEMMA AbortedTx ==
    LET y == [NewTx EXCEPT !.aborted = TRUE] IN
    y.failed = None /\ y.aborted /\ \A t \in Tokens : y.rows[t] = 0
  BY DEF NewTx

\* RunInv is preserved: every step leaves its run in a proper shape.
LEMMA RunInvStep ==
    ASSUME TypeOK, RunInv, NEW r \in Runs, Step(r)
    PROVE  RunInv'
  <1>1. \A s \in Runs : Local(run[s], tx[s], failed)
    BY RunInvIsLocal
  <1>2. /\ \A s \in Runs \ {r} : run'[s] = run[s] /\ tx'[s] = tx[s]
        /\ failed # None => failed' # None
        /\ failed' \in Lists
    BY RunStep DEF TypeOK
  <1>3. \A s \in Runs \ {r} : Local(run'[s], tx'[s], failed')
    BY <1>1, <1>2 DEF Local
  <1>4. \E x \in Run, y \in Tx : Moves(r, x, y) /\ Local(x, y, failed')
    <2>1. CASE StartBatch(r) \/ StartSingle(r)
      <3>1. PICK x \in Run : /\ Moves(r, x, NewTx) /\ x.pc \in {"fetch", "finish"}
                             /\ x.pc = "fetch" => x.todo # <<>>
                             /\ x.seen = "unread"
        BY <2>1, StartShape
      <3> QED
        BY <3>1, NewTypes, NewIsLocal DEF Local
    <2>2. CASE Ends(r)
      BY <1>2, <2>2, EndShape, NewTypes, NewIsLocal
    <2>3. CASE GoesOn(r)
      <3>1. PICK x \in Run :
              /\ Moves(r, x, tx[r])
              /\ run[r].pc # "idle" /\ x.pc \notin {"idle", "feedback"}
              /\ x.pc # "finish" => x.todo # <<>>
              /\ x.pc = "upsert" => x.todo = run[r].todo /\ x.got = up[Token(r)]
              /\ x.seen = "absent" => x.pc \in {"record", "finish"}
              /\ x.seen = "present" => run[r].seen = "present" \/ VisibleList(r) # None
              /\ x.spoilt = run[r].spoilt
        BY <2>3, GoesOnShape
      <3>2. failed' = failed /\ tx[r] \in Tx
        BY <2>3, GoesOnShape DEF db, TypeOK
      <3>3. x.pc = "upsert" => x.got # 0
        <4> SUFFICES ASSUME x.pc = "upsert" PROVE x.got # 0
          OBVIOUS
        <4>1. run[r].todo # <<>>
          BY <3>1
        <4>2. Token(r) \in Tokens
          BY <4>1, Fields
        <4> QED
          BY <3>1, <4>2 DEF TypeOK
      <3>4. Local(run[r], tx[r], failed)
        BY <1>1
      <3>5. x.seen = "present" /\ ~tx[r].aborted => tx[r].failed # None \/ failed # None
        BY <3>1, <3>4 DEF Local, VisibleList
      <3>6. Local(x, tx[r], failed')
        BY <3>1, <3>2, <3>3, <3>4, <3>5 DEF Local
      <3> QED
        BY <3>1, <3>2, <3>6
    <2>4. CASE Flush(r) \/ InsertState(r)
      <3>1. PICK x \in Run, y \in Tx :
              /\ Moves(r, x, y)
              /\ x.pc = run[r].pc /\ x.pc \in {"record", "upsert", "finish"}
              /\ x.todo = run[r].todo /\ x.got = run[r].got
              /\ x.seen # "absent" /\ ~y.aborted /\ y.failed # None
        BY <2>4, StateWriteShape
      <3>2. Local(x, y, failed')
        BY <1>1, <3>1 DEF Local
      <3> QED
        BY <3>1, <3>2
    <2>5. CASE UpsertAgent(r)
      <3>1. PICK x \in Run, y \in Tx :
              /\ Moves(r, x, y)
              /\ x.pc = "feedback" /\ x.todo = run[r].todo /\ x.seen = run[r].seen
              /\ ~y.aborted /\ y.failed = tx[r].failed
        BY <2>5, UpsertShape
      <3>2. failed' = failed /\ run[r].pc = "upsert" /\ ~tx[r].aborted
        BY <2>5, UpsertShape DEF db
      <3>3. Local(x, y, failed')
        BY <1>1, <3>1, <3>2 DEF Local
      <3> QED
        BY <3>1, <3>3
    <2>6. CASE FeedbackStatementFails(r)
      <3>1. PICK x \in Run :
              /\ Moves(r, x, [NewTx EXCEPT !.aborted = TRUE])
              /\ x.pc \in {"fetch", "finish", "commit"}
              /\ x.pc # "finish" => x.todo # <<>>
              /\ x.spoilt = TRUE /\ x.seen # "absent"
        BY <2>6, AbortShape
      <3> QED
        BY <3>1, NewTypes, AbortedTx DEF Local
    <2>7. CASE Commit(r) \/ Finish(r)
      <3>1. PICK x \in Run :
              /\ Moves(r, x, NewTx)
              /\ \/ x = NewRun
                 \/ /\ x.pc \in {"fetch", "finish"}
                    /\ x.pc = "fetch" => x.todo # <<>>
                    /\ x.seen = "unread"
        BY <2>7, CommitShape
      <3>2. Local(x, NewTx, failed')
        BY <1>2, <3>1, NewIsLocal DEF Local
      <3> QED
        BY <3>1, <3>2, NewTypes
    <2> QED
      BY <2>1, <2>2, <2>3, <2>4, <2>5, <2>6, <2>7, StepCases
  <1>5. Local(run'[r], tx'[r], failed')
    BY <1>4 DEF Moves, TypeOK
  <1>6. \A s \in Runs : Local(run'[s], tx'[s], failed')
    BY <1>3, <1>5
  <1> QED
    BY <1>6 DEF RunInv, Local, VisibleList

\* A transaction gains a lock only if nobody else has it.
LEMMA LocksGained ==
    ASSUME TypeOK, RunInv, NEW r \in Runs, Step(r)
    PROVE  /\ \A t \in Tokens : tx'[r].rows[t] # 0 =>
                 tx[r].rows[t] # 0 \/ \A q \in Runs \ {r} : tx[q].rows[t] = 0
           /\ tx'[r].failed # None =>
                 tx[r].failed # None \/ \A q \in Runs \ {r} : tx[q].failed = None
  <1> USE DEF Moves
  <1>1. CASE StartBatch(r) \/ StartSingle(r)
    BY <1>1, StartShape, NewIsLocal DEF TypeOK
  <1>2. CASE Ends(r)
    BY <1>2, EndShape, NewIsLocal DEF TypeOK
  <1>3. CASE GoesOn(r)
    BY <1>3, GoesOnShape DEF TypeOK
  <1>4. CASE Flush(r) \/ InsertState(r)
    BY <1>4, StateWriteShape DEF TypeOK
  <1>5. CASE UpsertAgent(r)
    <2>1. PICK y \in Tx : /\ tx' = [tx EXCEPT ![r] = y]
                          /\ y.rows = [tx[r].rows EXCEPT ![Token(r)] = run[r].got]
                          /\ y.failed = tx[r].failed
      BY <1>5, UpsertShape
    <2>2. tx'[r] = y /\ tx[r].rows \in [Tokens -> Vers]
      BY <2>1 DEF TypeOK, Tx
    <2>3. \A t \in Tokens : t # Token(r) => y.rows[t] = tx[r].rows[t]
      BY <2>1, <2>2
    <2>4. \A q \in Runs \ {r} : tx[q].rows[Token(r)] = 0
      BY <1>5, UpsertShape
    <2> QED
      BY <2>1, <2>2, <2>3, <2>4
  <1>6. CASE FeedbackStatementFails(r)
    BY <1>6, AbortShape, AbortedTx DEF TypeOK
  <1>7. CASE Commit(r) \/ Finish(r)
    BY <1>7, CommitShape, NewIsLocal DEF TypeOK
  <1> QED
    BY <1>1, <1>2, <1>3, <1>4, <1>5, <1>6, <1>7, StepCases

\* LockInv is preserved: a lock is gained only when nobody has it.
LEMMA LockStep ==
    ASSUME TypeOK, RunInv, LockInv, NEW r \in Runs, Step(r)
    PROVE  LockInv'
  <1>1. \A s \in Runs \ {r} : tx'[s] = tx[s]
    BY RunStep
  <1>2. \A q, s \in Runs : \A t \in Tokens :
           tx'[q].rows[t] # 0 /\ tx'[s].rows[t] # 0 => q = s
    BY <1>1, LocksGained DEF LockInv
  <1>3. \A q, s \in Runs : tx'[q].failed # None /\ tx'[s].failed # None => q = s
    BY <1>1, LocksGained DEF LockInv
  <1> QED
    BY <1>2, <1>3 DEF LockInv

-----------------------------------------------------------------------------
(* KeptInv: counted upserts are stored or about to be                      *)

\* KeptInv is preserved: an upsert is counted from the transaction it is in, and
\* leaves the transaction only into the table, by a death, or by a failed statement.
LEMMA KeptStep ==
    ASSUME TypeOK, RunInv, KeptInv, NEW r \in Runs, Step(r)
    PROVE  KeptInv'
  <1>0. /\ \A s \in Runs \ {r} : run'[s] = run[s] /\ tx'[s] = tx[s]
        /\ \A t \in Tokens : rows[t] # 0 => rows'[t] # 0
        /\ \A s \in Runs : run[s].done \subseteq Tokens
        /\ run[r] \in Run /\ tx[r] \in Tx
    BY RunStep DEF TypeOK, Run
  <1> DEFINE Kept(s) ==
        /\ ~run[s].spoilt => \A t \in run[s].done : rows[t] # 0 \/ tx[s].rows[t] # 0
        /\ run[s].pc = "feedback" => tx[s].rows[Token(s)] # 0
  <1>1. \A s \in Runs : Kept(s)
    BY DEF KeptInv, CleanUpsertsAreKept
  <1>2. \A s \in Runs \ {r} : Kept(s)'
    BY <1>0, <1>1 DEF Token
  <1>3. Kept(r)'
    <2> USE DEF Moves
    <2>1. CASE StartBatch(r) \/ StartSingle(r)
      BY <2>1, StartShape DEF TypeOK
    <2>2. CASE Ends(r)
      BY <2>2, EndShape, NewIsLocal DEF TypeOK
    <2>3. CASE GoesOn(r)
      <3>1. PICK x \in Run :
              /\ Moves(r, x, tx[r])
              /\ x.pc # "feedback" /\ x.spoilt = run[r].spoilt
              /\ \/ x.done = run[r].done
                 \/ run[r].pc = "feedback" /\ x.done = run[r].done \cup {Token(r)}
        BY <2>3, GoesOnShape
      <3>2. run'[r] = x /\ tx'[r] = tx[r] /\ rows' = rows
        BY <2>3, <3>1, GoesOnShape DEF TypeOK, db
      <3> QED
        BY <1>1, <3>1, <3>2
    <2>4. CASE Flush(r) \/ InsertState(r)
      <3>1. PICK x \in Run, y \in Tx :
              /\ Moves(r, x, y)
              /\ x.pc \in {"record", "upsert", "finish"}
              /\ x.done = run[r].done /\ x.spoilt = run[r].spoilt
              /\ y.rows = tx[r].rows
        BY <2>4, StateWriteShape
      <3>2. run'[r] = x /\ tx'[r] = y /\ rows' = rows
        BY <2>4, <3>1, StateWriteShape DEF TypeOK, db
      <3> QED
        BY <1>1, <3>1, <3>2
    <2>5. CASE UpsertAgent(r)
      <3>1. PICK x \in Run, y \in Tx :
              /\ Moves(r, x, y)
              /\ x.pc = "feedback" /\ x.todo = run[r].todo
              /\ x.done = run[r].done /\ x.spoilt = run[r].spoilt
              /\ y.rows = [tx[r].rows EXCEPT ![Token(r)] = run[r].got]
        BY <2>5, UpsertShape
      <3>2. run'[r] = x /\ tx'[r] = y /\ rows' = rows
        BY <2>5, <3>1, UpsertShape DEF TypeOK, db
      <3>3. run[r].pc = "upsert" /\ Token(r) \in Tokens /\ run[r].got # 0
        BY <2>5, UpsertShape DEF RunInv
      <3>4. tx[r].rows \in [Tokens -> Vers]
        BY <1>0 DEF Tx
      <3>5. \A t \in Tokens : y.rows[t] = IF t = Token(r) THEN run[r].got ELSE tx[r].rows[t]
        BY <3>1, <3>3, <3>4
      <3>6. Token(r)' = Token(r)
        BY <3>1, <3>2 DEF Token
      <3>7. run'[r].pc = "feedback" => tx'[r].rows[Token(r)'] # 0
        BY <3>2, <3>3, <3>5, <3>6
      <3>8. ~run'[r].spoilt =>
               \A t \in run'[r].done : rows'[t] # 0 \/ tx'[r].rows[t] # 0
        <4>1. \A t \in Tokens : tx[r].rows[t] # 0 => y.rows[t] # 0
          BY <3>3, <3>5
        <4>2. ~run[r].spoilt => \A t \in run[r].done : rows[t] # 0 \/ tx[r].rows[t] # 0
          BY <1>1
        <4>3. run[r].done \subseteq Tokens
          BY <1>0
        <4> QED
          BY <3>1, <3>2, <4>1, <4>2, <4>3
      <3> QED
        BY <3>7, <3>8
    <2>6. CASE FeedbackStatementFails(r)
      BY <2>6, AbortShape DEF TypeOK
    <2>7. CASE Commit(r) \/ Finish(r)
      <3>1. PICK x \in Run :
              /\ Moves(r, x, NewTx)
              /\ \/ x = NewRun
                 \/ x.pc # "feedback" /\ x.done = run[r].done /\ x.spoilt = run[r].spoilt
        BY <2>7, CommitShape
      <3>2. run'[r] = x /\ rows' = RowsAfter(r)
        BY <2>7, <3>1, CommitShape DEF TypeOK
      <3>3. \A t \in Tokens : rows[t] # 0 \/ tx[r].rows[t] # 0 => rows'[t] # 0
        BY <3>2 DEF RowsAfter
      <3> QED
        BY <1>0, <1>1, <3>1, <3>2, <3>3, NewIsLocal
    <2> QED
      BY <2>1, <2>2, <2>3, <2>4, <2>5, <2>6, <2>7, StepCases
  <1>4. \A s \in Runs : Kept(s)'
    BY <1>2, <1>3
  <1> QED
    BY <1>4 DEF KeptInv, CleanUpsertsAreKept

-----------------------------------------------------------------------------
(* CountInv: what a death can lose                                         *)

\* Division with remainder by ProgressEvery.
LEMMA Remainder ==
    ASSUME NEW n \in Nat
    PROVE  /\ n % ProgressEvery \in 0 .. ProgressEvery - 1 /\ n % ProgressEvery \in Nat
           /\ (n + 1) % ProgressEvery # 0 =>
                 (n + 1) % ProgressEvery = (n % ProgressEvery) + 1
  <1> DEFINE p == ProgressEvery
  <1>1. p \in Nat /\ p > 0
    BY SyncConstants
  <1>2. n % p \in 0 .. p - 1 /\ (n + 1) % p \in 0 .. p - 1
    BY <1>1
  <1>3. n = p * (n \div p) + (n % p) /\ n + 1 = p * ((n + 1) \div p) + ((n + 1) % p)
    BY <1>1
  <1>4. n \div p \in Int /\ (n + 1) \div p \in Int
    BY <1>1
  <1> HIDE DEF p
  <1>5. ASSUME NEW a \in Int, NEW b \in Int, NEW c \in 0 .. p - 1, NEW d \in 0 .. p - 1,
               n = p * a + c, n + 1 = p * b + d, d # 0
        PROVE  d = c + 1
    <2>1. p * (b - a) = c + 1 - d
      BY <1>1, <1>5
    <2>2. c + 1 - d < p /\ c + 1 - d > -p
      BY <1>1, <1>5
    <2>3. b - a < 1 /\ b - a > -1
      BY <1>1, <2>1, <2>2
    <2> QED
      BY <1>1, <1>5, <2>1, <2>3
  <1> QED
    BY <1>2, <1>3, <1>4, <1>5 DEF p
\* What CountInv says of one run x with transaction y.
Bounded(x, y) ==
    LET open == {t \in Tokens : y.rows[t] # 0} IN
    /\ IsFiniteSet(open)
    /\ x.pc \in {"fetch", "record", "upsert", "finish"} =>
          Cardinality(open) <= x.count % ProgressEvery
    /\ x.pc = "feedback" => Cardinality(open) <= (x.count % ProgressEvery) + 1

\* CountInv speaks of each run by itself.
LEMMA CountInvIsBounded == CountInv <=> \A r \in Runs : Bounded(run[r], tx[r])
  BY DEF CountInv, Bounded, Uncommitted

\* Without uncommitted upserts there is nothing to bound.
LEMMA NothingOpen ==
    ASSUME NEW x \in Run, NEW y, \A t \in Tokens : y.rows[t] = 0
    PROVE  Bounded(x, y)
  <1> DEFINE open == {t \in Tokens : y.rows[t] # 0}
  <1>1. IsFiniteSet(open) /\ Cardinality(open) = 0
    <2>1. open = {}
      OBVIOUS
    <2> QED
      BY <2>1, FS_EmptySet
  <1>2. x.count % ProgressEvery \in Nat
    BY Remainder DEF Run
  <1>3. 0 <= x.count % ProgressEvery /\ 0 <= (x.count % ProgressEvery) + 1
    BY <1>2
  <1> QED
    BY <1>1, <1>3 DEF Bounded

\* CountInv is preserved: an upsert adds at most one agent, and the count that
\* brings it to a multiple of ProgressEvery leads to a commit.
LEMMA CountStep ==
    ASSUME TypeOK, RunInv, CountInv, NEW r \in Runs, Step(r)
    PROVE  CountInv'
  <1>1. \A s \in Runs : Bounded(run[s], tx[s])
    BY CountInvIsBounded
  <1>2. /\ \A s \in Runs \ {r} : run'[s] = run[s] /\ tx'[s] = tx[s]
        /\ run[r] \in Run /\ tx[r] \in Tx /\ run[r].count \in Nat
    BY RunStep DEF TypeOK, Run
  <1> DEFINE open == {t \in Tokens : tx[r].rows[t] # 0}
  <1>3. /\ IsFiniteSet(open) /\ Cardinality(open) \in Nat
        /\ run[r].pc \in {"fetch", "record", "upsert", "finish"} =>
              Cardinality(open) <= run[r].count % ProgressEvery
        /\ run[r].pc = "feedback" => Cardinality(open) <= (run[r].count % ProgressEvery) + 1
    BY <1>1, FS_CardinalityType DEF Bounded
  <1>4. \E x \in Run, y \in Tx : Moves(r, x, y) /\ Bounded(x, y)
    <2>1. CASE StartBatch(r) \/ StartSingle(r)
      <3>1. PICK x \in Run : Moves(r, x, NewTx)
        BY <2>1, StartShape
      <3> QED
        BY <3>1, NothingOpen, NewIsLocal, NewTypes
    <2>2. CASE Ends(r)
      BY <2>2, EndShape, NothingOpen, NewIsLocal, NewTypes
    <2>3. CASE GoesOn(r)
      <3>1. PICK x \in Run :
              /\ Moves(r, x, tx[r])
              /\ run[r].pc # "idle" /\ x.pc \notin {"idle", "feedback"}
              /\ \/ /\ run[r].pc \in {"fetch", "record", "finish"} /\ x.pc # "commit"
                    /\ x.done = run[r].done /\ x.count = run[r].count
                 \/ /\ run[r].pc = "feedback"
                    /\ x.done = run[r].done \cup {Token(r)} /\ x.count = run[r].count + 1
                    /\ x.pc = "commit" \/ (run[r].count + 1) % ProgressEvery # 0
        BY <2>3, GoesOnShape
      <3>2. x.pc # "commit" => Cardinality(open) <= x.count % ProgressEvery
        <4>1. CASE run[r].pc # "feedback"
          BY <1>3, <3>1, <4>1
        <4>2. CASE run[r].pc = "feedback"
          BY <1>2, <1>3, <3>1, <4>2, Remainder
        <4> QED
          BY <4>1, <4>2
      <3>3. Bounded(x, tx[r])
        BY <1>3, <3>1, <3>2 DEF Bounded
      <3> QED
        BY <1>2, <3>1, <3>3
    <2>4. CASE Flush(r) \/ InsertState(r)
      <3>1. PICK x \in Run, y \in Tx :
              /\ Moves(r, x, y)
              /\ x.pc = run[r].pc /\ x.count = run[r].count /\ y.rows = tx[r].rows
        BY <2>4, StateWriteShape
      <3>2. Bounded(x, y)
        BY <1>1, <3>1 DEF Bounded
      <3> QED
        BY <3>1, <3>2
    <2>5. CASE UpsertAgent(r)
      <3>1. PICK x \in Run, y \in Tx :
              /\ Moves(r, x, y)
              /\ x.pc = "feedback" /\ x.count = run[r].count
              /\ y.rows = [tx[r].rows EXCEPT ![Token(r)] = run[r].got]
        BY <2>5, UpsertShape
      <3>2. run[r].pc = "upsert" /\ Token(r) \in Tokens
        BY <2>5, UpsertShape
      <3> DEFINE more == {t \in Tokens : y.rows[t] # 0}
      <3>3. tx[r].rows \in [Tokens -> Vers]
        BY <1>2 DEF Tx
      <3>4. more \subseteq open \cup {Token(r)}
        BY <3>1, <3>3
      <3>5. IsFiniteSet(open \cup {Token(r)})
            /\ Cardinality(open \cup {Token(r)}) <= Cardinality(open) + 1
        <4> HIDE DEF open
        <4>1. IsFiniteSet(open \cup {Token(r)})
              /\ Cardinality(open \cup {Token(r)}) =
                   IF Token(r) \in open THEN Cardinality(open) ELSE Cardinality(open) + 1
          BY <1>3, FS_AddElement
        <4> QED
          BY <1>3, <4>1
      <3>6. /\ IsFiniteSet(more) /\ Cardinality(more) \in Nat
            /\ Cardinality(more) <= Cardinality(open \cup {Token(r)})
        <4> HIDE DEF open, more
        <4> QED
          BY <3>4, <3>5, FS_Subset, FS_CardinalityType
      <3>7. Cardinality(open \cup {Token(r)}) \in Nat
        BY <3>5, FS_CardinalityType
      <3>8. run[r].count % ProgressEvery \in Nat
        BY <1>2, Remainder
      <3>9. Cardinality(more) <= (run[r].count % ProgressEvery) + 1
        <4> HIDE DEF open, more
        <4> QED
          BY <1>3, <3>2, <3>5, <3>6, <3>7, <3>8
      <3>10. Bounded(x, y)
        BY <3>1, <3>6, <3>9 DEF Bounded
      <3> QED
        BY <3>1, <3>10
    <2>6. CASE FeedbackStatementFails(r)
      <3>1. PICK x \in Run : Moves(r, x, [NewTx EXCEPT !.aborted = TRUE])
        BY <2>6, AbortShape
      <3> QED
        BY <3>1, NothingOpen, AbortedTx, NewTypes
    <2>7. CASE Commit(r) \/ Finish(r)
      <3>1. PICK x \in Run : Moves(r, x, NewTx)
        BY <2>7, CommitShape
      <3> QED
        BY <3>1, NothingOpen, NewIsLocal, NewTypes
    <2> QED
      BY <2>1, <2>2, <2>3, <2>4, <2>5, <2>6, <2>7, StepCases
  <1>5. Bounded(run'[r], tx'[r])
    BY <1>4 DEF Moves, TypeOK
  <1>6. \A s \in Runs : Bounded(run'[s], tx'[s])
    BY <1>1, <1>2, <1>5
  <1> QED
    BY <1>6 DEF CountInv, Bounded, Uncommitted

-----------------------------------------------------------------------------
(* VersionInv: nothing older is written while runs do not overlap          *)

\* What a step of r may write, and whether runs overlap after it.
LEMMA WriteStep ==
    ASSUME TypeOK, RunInv, NEW r \in Runs, Step(r)
    PROVE  /\ rows' = rows \/ rows' = RowsAfter(r)
           /\ ~mixed' => ~mixed /\ (Busy(r) \/ \A s \in Runs : ~Busy(s))
           /\ \E x \in Run, y \in Tx :
                /\ Moves(r, x, y)
                /\ \A t \in Tokens :
                      \/ y.rows[t] = 0
                      \/ y.rows[t] = tx[r].rows[t] /\ rows' = rows
                      \/ /\ run[r].pc = "upsert" /\ t = Token(r)
                         /\ y.rows[t] = run[r].got /\ rows' = rows
                /\ x.pc = "upsert" =>
                      /\ rows' = rows /\ x.todo = run[r].todo /\ Token(r) \in Tokens
                      /\ \/ x.got = up[Token(r)]
                         \/ run[r].pc = "upsert" /\ x.got = run[r].got
  <1> USE DEF Busy
  <1>1. CASE StartBatch(r) \/ StartSingle(r)
    <2>1. PICK x \in Run : Moves(r, x, NewTx) /\ x.pc \in {"fetch", "finish"}
      BY <1>1, StartShape
    <2>2. rows' = rows /\ mixed' = (mixed \/ \E s \in Runs : Busy(s)) /\ mixed \in BOOLEAN
      BY <1>1, StartShape DEF db, TypeOK
    <2> QED
      BY <2>1, <2>2, NewIsLocal, NewTypes
  <1>2. CASE Ends(r)
    <2>1. Moves(r, NewRun, NewTx) /\ rows' = rows /\ mixed' = mixed /\ Busy(r)
      BY <1>2, EndShape DEF db
    <2> QED
      BY <2>1, NewIsLocal, NewTypes
  <1>3. CASE GoesOn(r)
    <2>1. PICK x \in Run :
            /\ Moves(r, x, tx[r]) /\ run[r].pc # "idle"
            /\ x.pc # "finish" => x.todo # <<>>
            /\ x.pc = "upsert" => x.todo = run[r].todo /\ x.got = up[Token(r)]
      BY <1>3, GoesOnShape
    <2>2. rows' = rows /\ mixed' = mixed /\ tx[r] \in Tx
      BY <1>3, GoesOnShape DEF db, TypeOK
    <2>3. x.pc = "upsert" => Token(r) \in Tokens
      BY <2>1, Fields
    <2> QED
      BY <2>1, <2>2, <2>3
  <1>4. CASE Flush(r) \/ InsertState(r)
    <2>1. PICK x \in Run, y \in Tx :
            /\ Moves(r, x, y)
            /\ x.pc = run[r].pc /\ x.pc \in {"record", "upsert", "finish"}
            /\ x.todo = run[r].todo /\ x.got = run[r].got /\ y.rows = tx[r].rows
      BY <1>4, StateWriteShape
    <2>2. rows' = rows /\ mixed' = mixed
      BY <1>4, StateWriteShape DEF db
    <2>3. x.pc = "upsert" => Token(r) \in Tokens
      BY <2>1, Fields
    <2> QED
      BY <2>1, <2>2, <2>3
  <1>5. CASE UpsertAgent(r)
    <2>1. PICK x \in Run, y \in Tx :
            /\ Moves(r, x, y) /\ x.pc = "feedback"
            /\ y.rows = [tx[r].rows EXCEPT ![Token(r)] = run[r].got]
      BY <1>5, UpsertShape
    <2>2. rows' = rows /\ mixed' = mixed /\ run[r].pc = "upsert" /\ Token(r) \in Tokens
          /\ tx[r].rows \in [Tokens -> Vers]
      BY <1>5, UpsertShape DEF db, TypeOK, Tx
    <2>3. \A t \in Tokens : y.rows[t] = IF t = Token(r) THEN run[r].got ELSE tx[r].rows[t]
      BY <2>1, <2>2
    <2> QED
      BY <2>1, <2>2, <2>3
  <1>6. CASE FeedbackStatementFails(r)
    <2>1. PICK x \in Run : /\ Moves(r, x, [NewTx EXCEPT !.aborted = TRUE])
                           /\ x.pc \in {"fetch", "finish", "commit"}
      BY <1>6, AbortShape
    <2>2. rows' = rows /\ mixed' = mixed /\ Busy(r)
      BY <1>6, AbortShape DEF db
    <2> QED
      BY <2>1, <2>2, AbortedTx, NewTypes
  <1>7. CASE Commit(r) \/ Finish(r)
    <2>1. PICK x \in Run : Moves(r, x, NewTx) /\ (x = NewRun \/ x.pc \in {"fetch", "finish"})
      BY <1>7, CommitShape
    <2>2. rows' = RowsAfter(r) /\ mixed' = mixed /\ Busy(r)
      BY <1>7, CommitShape
    <2>3. x.pc # "upsert"
      BY <2>1, NewIsLocal
    <2> QED
      BY <2>1, <2>2, <2>3, NewIsLocal, NewTypes
  <1> QED
    BY <1>1, <1>2, <1>3, <1>4, <1>5, <1>6, <1>7, StepCases

\* VersionInv is preserved: what is fetched is the newest, and it stays newer than
\* what is stored until it is written, because no other run is open.
LEMMA VersionStep ==
    ASSUME TypeOK, RunInv, VersionInv, NEW r \in Runs, Step(r)
    PROVE  VersionInv'
  <1>1. PICK x \in Run, y \in Tx :
          /\ Moves(r, x, y)
          /\ \A t \in Tokens :
                \/ y.rows[t] = 0
                \/ y.rows[t] = tx[r].rows[t] /\ rows' = rows
                \/ /\ run[r].pc = "upsert" /\ t = Token(r)
                   /\ y.rows[t] = run[r].got /\ rows' = rows
          /\ x.pc = "upsert" =>
                /\ rows' = rows /\ x.todo = run[r].todo /\ Token(r) \in Tokens
                /\ \/ x.got = up[Token(r)]
                   \/ run[r].pc = "upsert" /\ x.got = run[r].got
    BY WriteStep
  <1>2. /\ rows' = rows \/ rows' = RowsAfter(r)
        /\ ~mixed' => ~mixed /\ (Busy(r) \/ \A s \in Runs : ~Busy(s))
    BY WriteStep
  <1>3. /\ run'[r] = x /\ tx'[r] = y /\ up' = up
        /\ \A s \in Runs \ {r} : run'[s] = run[s] /\ tx'[s] = tx[s]
    BY <1>1, RunStep DEF Moves, TypeOK
  <1>4. /\ \A t \in Tokens : up[t] \in Nat /\ rows[t] \in Nat
        /\ \A s \in Runs : \A t \in Tokens : tx[s].rows[t] \in Nat
        /\ \A s \in Runs : run[s].got \in Nat
    <2>1. Vers \subseteq Nat /\ 1..MaxVer \subseteq Nat
      BY SyncConstants DEF Vers
    <2>2. \A s \in Runs : run[s] \in Run /\ tx[s] \in Tx
      BY DEF TypeOK
    <2>3. \A s \in Runs : run[s].got \in Nat
      BY <2>1, <2>2 DEF Run
    <2>4. \A s \in Runs : \A t \in Tokens : tx[s].rows[t] \in Nat
      BY <2>1, <2>2 DEF Tx
    <2>5. \A t \in Tokens : up[t] \in Nat /\ rows[t] \in Nat
      BY <2>1 DEF TypeOK
    <2> QED
      BY <2>3, <2>4, <2>5
  <1>5. \A t \in Tokens : rows'[t] <= up'[t]
    BY <1>2, <1>3 DEF VersionInv, RowsAfter
  <1>6. \A s \in Runs : \A t \in Tokens : tx'[s].rows[t] <= up'[t]
    BY <1>1, <1>3, <1>4 DEF VersionInv
  <1>7. \A s \in Runs : run'[s].pc = "upsert" => run'[s].got <= up'[Token(s)']
    <2>1. CASE x.pc = "upsert"
      <3>1. Token(r)' = Token(r)
        BY <1>1, <1>3, <2>1 DEF Token
      <3>2. x.got <= up[Token(r)]
        BY <1>1, <1>4, <2>1 DEF VersionInv
      <3> QED
        BY <1>3, <3>1, <3>2 DEF VersionInv, Token
    <2>2. CASE x.pc # "upsert"
      BY <1>3, <2>2 DEF VersionInv, Token
    <2> QED
      BY <2>1, <2>2
  <1>8. ~mixed' =>
          /\ \A q, s \in Runs : Busy(q)' /\ Busy(s)' => q = s
          /\ \A s \in Runs : \A t \in Tokens :
                tx'[s].rows[t] # 0 => tx'[s].rows[t] >= rows'[t]
          /\ \A s \in Runs : run'[s].pc = "upsert" => run'[s].got >= rows'[Token(s)']
    <2> SUFFICES ASSUME ~mixed'
                 PROVE  /\ \A q, s \in Runs : Busy(q)' /\ Busy(s)' => q = s
                        /\ \A s \in Runs : \A t \in Tokens :
                              tx'[s].rows[t] # 0 => tx'[s].rows[t] >= rows'[t]
                        /\ \A s \in Runs : run'[s].pc = "upsert" =>
                              run'[s].got >= rows'[Token(s)']
      OBVIOUS
    <2>1. ~mixed /\ \A s \in Runs \ {r} : ~Busy(s)
      BY <1>2 DEF VersionInv
    <2>2. \A s \in Runs \ {r} : run'[s].pc = "idle" /\ tx'[s] = NewTx
      BY <1>3, <2>1 DEF Busy, RunInv
    <2>3. \A q, s \in Runs : Busy(q)' /\ Busy(s)' => q = s
      BY <2>2 DEF Busy
    <2>4. \A t \in Tokens : y.rows[t] # 0 => y.rows[t] >= rows'[t]
      BY <1>1, <1>4, <2>1 DEF VersionInv
    <2>5. \A s \in Runs : \A t \in Tokens :
             tx'[s].rows[t] # 0 => tx'[s].rows[t] >= rows'[t]
      BY <1>3, <2>2, <2>4, NewIsLocal
    <2>6. x.pc = "upsert" => x.got >= rows'[Token(r)']
      <3> SUFFICES ASSUME x.pc = "upsert" PROVE x.got >= rows'[Token(r)']
        OBVIOUS
      <3>1. Token(r)' = Token(r) /\ rows' = rows /\ Token(r) \in Tokens
        BY <1>1, <1>3 DEF Token
      <3>2. x.got >= rows[Token(r)]
        BY <1>1, <1>4, <2>1, <3>1 DEF VersionInv
      <3> QED
        BY <3>1, <3>2
    <2> QED
      BY <1>3, <2>2, <2>3, <2>5, <2>6
  <1> QED
    BY <1>5, <1>6, <1>7, <1>8 DEF VersionInv

\* Agents changing upstream disturb no part of the invariant.
LEMMA UpstreamKeeps ==
    ASSUME IInv, NEW t \in Tokens, UpstreamChanges(t)
    PROVE  IInv'
  <1>1. /\ TypeOK' /\ rows' = rows /\ failed' = failed /\ run' = run /\ tx' = tx
        /\ mixed' = mixed /\ \A s \in Tokens : up[s] <= up'[s]
    BY UpstreamStep DEF IInv, db
  <1>2. RunInv' /\ LockInv' /\ KeptInv'
    BY <1>1 DEF IInv, RunInv, VisibleList, LockInv, KeptInv, CleanUpsertsAreKept, Token
  <1>3. CountInv'
    BY <1>1 DEF IInv, CountInv, Uncommitted
  <1>4. /\ \A s \in Tokens : up[s] \in Nat /\ up'[s] \in Nat /\ rows[s] \in Nat
        /\ \A q \in Runs : \A s \in Tokens : tx[q].rows[s] \in Nat
        /\ \A q \in Runs : run[q].got \in Nat
        /\ \A q \in Runs : run[q].pc = "upsert" => Token(q) \in Tokens
    <2>1. Vers \subseteq Nat /\ 1..MaxVer \subseteq Nat
      BY SyncConstants DEF Vers
    <2>2. \A q \in Runs : run[q] \in Run /\ tx[q] \in Tx
      BY DEF IInv, TypeOK
    <2>3. \A q \in Runs : run[q].pc = "upsert" => Token(q) \in Tokens
      BY Fields DEF IInv
    <2> QED
      BY <1>1, <2>1, <2>2, <2>3 DEF IInv, TypeOK, Run, Tx
  <1>5. VersionInv'
    <2>1. \A s \in Tokens : rows[s] <= up'[s]
      BY <1>1, <1>4 DEF IInv, VersionInv
    <2>2. \A q \in Runs : \A s \in Tokens : tx[q].rows[s] <= up'[s]
      BY <1>1, <1>4 DEF IInv, VersionInv
    <2>3. \A q \in Runs : run[q].pc = "upsert" => run[q].got <= up'[Token(q)]
      BY <1>1, <1>4 DEF IInv, VersionInv
    <2> QED
      BY <1>1, <2>1, <2>2, <2>3 DEF IInv, VersionInv, Busy, Token
  <1> QED
    BY <1>1, <1>2, <1>3, <1>5 DEF IInv

\* The invariant holds initially.
LEMMA InitInv == Init => IInv
  <1> SUFFICES ASSUME Init PROVE IInv
    OBVIOUS
  <1>1. /\ \A r \in Runs : run[r] = NewRun /\ tx[r] = NewTx
        /\ \A t \in Tokens : rows[t] = 0 /\ up[t] = 1
        /\ failed = None /\ mixed = FALSE
    BY DEF Init
  <1>2. TypeOK
    <2>1. None \in Lists /\ 0 \in Vers /\ 1 \in 1..MaxVer
      BY SyncConstants DEF Lists, Vers
    <2>2. last \in Int
      BY DEF Init
    <2> QED
      BY <2>1, <2>2, NewTypes DEF Init, TypeOK
  <1>3. RunInv
    BY <1>1, <1>2, NewIsLocal, RunInvIsLocal DEF TypeOK
  <1>4. LockInv
    BY <1>1, NewIsLocal DEF LockInv
  <1>5. KeptInv
    BY <1>1, NewIsLocal DEF KeptInv, CleanUpsertsAreKept
  <1>6. CountInv
    BY <1>1, NewIsLocal, NewTypes, NothingOpen, CountInvIsBounded
  <1>7. VersionInv
    BY <1>1, NewIsLocal DEF VersionInv, Busy
  <1> QED
    BY <1>2, <1>3, <1>4, <1>5, <1>6, <1>7 DEF IInv

-----------------------------------------------------------------------------
(* Theorems                                                                *)

\* One step of the system preserves the invariant.
LEMMA InductiveStep == IInv /\ [Next]_vars => IInv'
  <1> SUFFICES ASSUME IInv, [Next]_vars PROVE IInv'
    OBVIOUS
  <1>1. CASE \E r \in Runs : Step(r)
    <2>1. PICK r \in Runs : Step(r)
      BY <1>1
    <2>2. TypeOK /\ RunInv /\ LockInv /\ KeptInv /\ CountInv /\ VersionInv
      BY DEF IInv
    <2> QED
      BY <2>1, <2>2, RunStep, RunInvStep, LockStep, KeptStep, CountStep, VersionStep DEF IInv
  <1>2. CASE \E t \in Tokens : UpstreamChanges(t)
    BY <1>2, UpstreamKeeps
  <1>3. CASE UNCHANGED vars
    <2>1. /\ up' = up /\ rows' = rows /\ failed' = failed /\ last' = last
          /\ run' = run /\ tx' = tx /\ mixed' = mixed
      BY <1>3 DEF vars
    <2>2. TypeOK'
      BY <2>1 DEF IInv, TypeOK
    <2>3. RunInv' /\ LockInv'
      BY <2>1 DEF IInv, RunInv, VisibleList, LockInv
    <2>4. KeptInv' /\ CountInv'
      BY <2>1 DEF IInv, KeptInv, CleanUpsertsAreKept, Token, CountInv, Uncommitted
    <2>5. VersionInv'
      BY <2>1 DEF IInv, VersionInv, Busy, Token
    <2> QED
      BY <2>2, <2>3, <2>4, <2>5 DEF IInv
  <1> QED
    BY <1>1, <1>2, <1>3, NextCases

\* Runs, transactions, locks and rows stay consistent through every interleaving of
\* batch runs, single requests, deaths, database errors and upstream changes.
THEOREM Invariance == Spec => []IInv
  BY InitInv, InductiveStep, PTL DEF Spec

\* Every variable keeps its type; in particular no failure list outgrows the cap.
THEOREM TypeCorrect == Spec => []TypeOK
  <1>1. IInv => TypeOK
    BY DEF IInv
  <1> QED
    BY <1>1, Invariance, PTL

\* An agent a run counted as upserted is stored or in its transaction, unless a
\* feedback statement of that run failed in the database.
THEOREM CleanUpsertsKept == Spec => []CleanUpsertsAreKept
  <1>1. IInv => CleanUpsertsAreKept
    BY DEF IInv, KeptInv
  <1> QED
    BY <1>1, Invariance, PTL

\* A run that dies between two tokens loses fewer than ProgressEvery upserts.
THEOREM LossesAreBounded == Spec => []LossIsBounded
  <1>1. IInv => LossIsBounded
    <2> SUFFICES ASSUME IInv, NEW r \in Runs,
                        run[r].pc \in {"fetch", "record", "upsert", "finish"}
                 PROVE  Cardinality(Uncommitted(r)) < ProgressEvery
      BY DEF LossIsBounded
    <2>1. IsFiniteSet(Uncommitted(r))
          /\ Cardinality(Uncommitted(r)) <= run[r].count % ProgressEvery
      BY DEF IInv, CountInv
    <2>2. run[r].count \in Nat
      BY DEF IInv, TypeOK, Run
    <2>3. run[r].count % ProgressEvery \in 0 .. ProgressEvery - 1 /\ ProgressEvery \in Nat
      BY <2>2, Remainder, SyncConstants
    <2>4. Cardinality(Uncommitted(r)) \in Nat
      BY <2>1, FS_CardinalityType
    <2> QED
      BY <2>1, <2>3, <2>4
  <1> QED
    BY <1>1, Invariance, PTL

\* While runs have not overlapped, no stored agent goes back to an older version.
THEOREM RowsNeverGoBack == Spec => RowsAdvance
  <1>1. IInv /\ [Next]_vars => (~mixed' => \A t \in Tokens : rows'[t] >= rows[t])
    <2> SUFFICES ASSUME IInv, [Next]_vars, ~mixed', NEW t \in Tokens
                 PROVE  rows'[t] >= rows[t]
      OBVIOUS
    <2>1. rows[t] \in Nat /\ TypeOK /\ RunInv /\ VersionInv
      <3>1. Vers \subseteq Nat
        BY SyncConstants DEF Vers
      <3> QED
        BY <3>1 DEF IInv, TypeOK
    <2>2. CASE \E r \in Runs : Step(r)
      <3>1. PICK r \in Runs : Step(r)
        BY <2>2
      <3>2. ~mixed /\ (rows' = rows \/ rows' = RowsAfter(r))
        BY <2>1, <3>1, WriteStep
      <3> QED
        BY <2>1, <3>2 DEF VersionInv, RowsAfter
    <2>3. CASE \E s \in Tokens : UpstreamChanges(s)
      BY <2>1, <2>3 DEF UpstreamChanges, db
    <2>4. CASE UNCHANGED vars
      BY <2>1, <2>4 DEF vars, db
    <2> QED
      BY <2>2, <2>3, <2>4, NextCases
  <1>2. Spec => [][~mixed' => \A t \in Tokens : rows'[t] >= rows[t]]_vars
    BY <1>1, Invariance, PTL DEF Spec
  <1> QED
    BY <1>2 DEF RowsAdvance
=============================================================================
