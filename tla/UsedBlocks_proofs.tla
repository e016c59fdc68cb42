--------------------------- MODULE UsedBlocks_proofs ---------------------------
(***************************************************************************)
(* Proofs about Indexer and UsedBlocks, for every value of their constants *)
(* that is no bound of a run: any chain, any chunk and range of the        *)
(* scanners, any number of requests.                                       *)
(***************************************************************************)
EXTENDS UsedBlocks, TLAPS

-----------------------------------------------------------------------------
(* Scans                                                                   *)

\* The remainder of a difference, taken off, leaves a multiple.
LEMMA Multiple ==
    ASSUME NEW n \in Nat, NEW r \in Nat \ {0}
    PROVE  /\ n % r \in 0 .. r - 1
           /\ n % r <= n
           /\ (n - (n % r)) % r = 0
  <1> DEFINE q == n \div r
             m == n % r
  <1>1. q \in Nat /\ m \in 0 .. r - 1 /\ n = r * q + m
    OBVIOUS
  <1> HIDE DEF q, m
  <1>2. r * q \in Nat /\ n - m = r * q
    BY <1>1
  <1>3. (r * q) % r = 0
    BY <1>1
  <1> QED
    BY <1>1, <1>2, <1>3 DEF m

\* The batches of a scan leave out no block between its ends, whatever the
\* range divides.
THEOREM BatchesCover ==
    ASSUME NEW from \in Int, NEW to \in Int, NEW range \in Nat \ {0}, NEW x \in from .. to
    PROVE  \E b \in BatchStarts(from, to, range) : x \in BatchBlocks(b, to, range)
  <1> DEFINE m == (x - from) % range
             b == x - m
  <1>1. x - from \in Nat
    OBVIOUS
  <1>2. /\ m \in 0 .. range - 1 /\ m <= x - from /\ ((x - from) - m) % range = 0
    BY <1>1, Multiple
  <1> HIDE DEF m
  <1>3. b \in from .. to /\ (b - from) % range = 0
    <2>1. b - from = (x - from) - m
      BY <1>2
    <2> QED
      BY <1>2, <2>1
  <1>4. x \in BatchBlocks(b, to, range)
    BY <1>2 DEF BatchBlocks
  <1> QED
    BY <1>3, <1>4 DEF BatchStarts

\* A block that no failed batch covers is among the blocks of a scan.
LEMMA PassedIsScanned ==
    ASSUME NEW from \in Int, NEW to \in Int, NEW range \in Nat \ {0}, NEW failed,
           NEW x \in from .. to, \A f \in failed : x \notin BatchBlocks(f, to, range)
    PROVE  x \in ScannedBlocks(from, to, range, failed)
  BY BatchesCover DEF ScannedBlocks

-----------------------------------------------------------------------------
(* Type correctness                                                        *)

Planned == [pc : {"planned"}, from : 1 .. head, to : 1 .. head, map : Maps]
Filling == [pc : {"transfers", "events"}, from : Settled, to : Settled, map : Maps]
Reading == [pc : {"read"}, map : Maps, todo : SUBSET Transfer]

LEMMA Constants ==
    /\ MaxBlock \in Nat /\ MaxRows \in Nat \ {0} /\ FirstBlock \in Nat \ {0}
    /\ RealtimeChunk \in Nat \ {0} /\ BackfillChunk \in Nat \ {0} /\ StartWindow \in Nat \ {0}
    /\ BackfillRange \in Nat \ {0} /\ RealtimeRange \in Nat \ {0}
    /\ RealtimeChunk <= RealtimeRange
    /\ \A c \in Chains : c \in [Log -> 1 .. MaxBlock]
  BY IndexerAssumption DEF Block

\* Workers and requests, with the fields their stage has.
LEMMA Locals ==
    ASSUME TypeOK
    PROVE  /\ rt # Idle => rt \in Planned
           /\ bf # Idle => bf \in Filling
           /\ \A l \in Linker : link[l] # Idle => link[l] \in Reading
           /\ rt.pc # "idle" => rt \in Planned
           /\ bf.pc # "idle" => bf \in Filling
           /\ \A l \in Linker : link[l].pc # "idle" => link[l] \in Reading
           /\ head \in Nat /\ mined \in [Log -> 1 .. MaxBlock]
  BY Constants DEF TypeOK, Planned, Filling, Reading, Idle

\* What every INSERT leaves in the tables.
LEMMA TableTypes ==
    ASSUME TypeOK
    PROVE  /\ \A found : \A m \in Maps :
                  WithTransfers(found, m) \in [Transfer -> Agent \cup {NoAgent, Unstored}]
           /\ \A found : WithEvents(found) \in [Event -> 0 .. MaxRows]
  <1>1. ASSUME NEW found, NEW m \in Maps
        PROVE  WithTransfers(found, m) \in [Transfer -> Agent \cup {NoAgent, Unstored}]
    BY IndexerAssumption DEF WithTransfers, Maps, TypeOK
  <1>2. ASSUME NEW found
        PROVE  WithEvents(found) \in [Event -> 0 .. MaxRows]
    BY Constants DEF WithEvents, TypeOK
  <1> QED
    BY <1>1, <1>2

LEMMA MapTypes ==
    ASSUME NEW holders, NEW m \in WalletMaps(holders)
    PROVE  m \in Maps
  BY DEF WalletMaps

LEMMA InitType == Init => TypeOK
  <1> SUFFICES ASSUME Init
               PROVE  TypeOK
    OBVIOUS
  <1>1. wallets \in [Agent -> Wallet \cup {NoWallet}]
    BY DEF Init
  <1>2. \A a \in Dirty : wallets[a] \in Wallet
    BY IndexerAssumption DEF Init
  <1>3. held \subseteq Agent \X Wallet
    BY <1>2, IndexerAssumption DEF Init
  <1> QED
    BY <1>1, <1>3, Constants DEF Init, TypeOK

\* A planned chunk of the realtime worker lies on the chain.
LEMMA PlanRealtimeType ==
    ASSUME TypeOK, PlanRealtime
    PROVE  rt' \in Planned
  <1>1. PICK last \in 0 .. head, m \in WalletMaps(CanonHolders) :
            /\ ~CaughtUp(last)
            /\ rt' = [pc |-> "planned", from |-> RealtimeFrom(last),
                      to |-> RealtimeTo(RealtimeFrom(last)), map |-> m]
    BY DEF PlanRealtime
  <1>2. head \in Nat /\ head > RealtimeChunk /\ RealtimeChunk \in Nat \ {0}
    BY Locals, Constants DEF PlanRealtime
  <1>3. RealtimeFrom(last) \in 1 .. head
    BY <1>1, <1>2, Constants DEF RealtimeFrom, CaughtUp
  <1>4. RealtimeTo(RealtimeFrom(last)) \in 1 .. head
    BY <1>2, <1>3 DEF RealtimeTo
  <1> QED
    BY <1>1, <1>3, <1>4, MapTypes DEF Planned

\* A chunk of the backfill lies between the first transfer ever and the
\* realtime worker's zone.
LEMMA PlanBackfillType ==
    ASSUME TypeOK, PlanBackfill
    PROVE  bf' \in Filling
  <1>1. PICK b \in SampleStarts, m \in WalletMaps(CanonHolders) :
            bf' = [pc |-> "transfers", from |-> b, to |-> BackfillTo(b), map |-> m]
    BY DEF PlanBackfill
  <1>2. head \in Nat
    BY Locals
  <1>3. b \in Settled
    BY <1>2, Constants DEF SampleStarts, Window, WindowStart, Settled
  <1>4. BackfillTo(b) \in Settled
    BY <1>2, <1>3, Constants DEF BackfillTo, Settled
  <1> QED
    BY <1>1, <1>3, <1>4, MapTypes DEF Filling

\* The steps that change nothing of the index but requests of index_block.
OnlyRequests == UNCHANGED <<head, mined, wallets, stored, rows, rt, bf, link, scanned, held>>

LEMMA RequestTypes ==
    ASSUME TypeOK, OnlyRequests,
           req' = req \/ \E b \in Block, s \in {"none", "transfers", "failed", "answered", "events"} :
                             req' = [req EXCEPT ![b] = s]
    PROVE  TypeOK'
  <1>1. req' \in [Block -> {"none", "transfers", "events", "answered", "failed"}]
    BY DEF TypeOK
  <1> QED
    BY <1>1 DEF OnlyRequests, TypeOK, Settled

LEMMA SurroundingTypes ==
    ASSUME TypeOK,
           ProduceBlock \/ Restart \/ \E a \in Agent, w \in Wallet \cup {NoWallet} : SyncWallet(a, w)
    PROVE  TypeOK'
  <1>1. CASE ProduceBlock
    <2>1. head' = head + 1 /\ head' \in 0 .. MaxBlock /\ head \in Nat
      BY <1>1, Locals, Constants DEF ProduceBlock
    <2>2. 1 .. head \subseteq 1 .. head' /\ Settled \subseteq Settled'
      BY <2>1, Constants DEF Settled
    <2>3. /\ rt' \in {Idle} \cup [pc : {"planned"}, from : 1 .. head', to : 1 .. head', map : Maps]
          /\ bf' \in {Idle} \cup [pc : {"transfers", "events"}, from : Settled', to : Settled',
                                  map : Maps]
      BY <1>1, <2>2 DEF ProduceBlock, TypeOK
    <2> QED
      BY <1>1, <2>1, <2>3 DEF ProduceBlock, TypeOK, tableVars, histVars
  <1>2. CASE Restart
    <2>1. req' \in [Block -> {"none", "transfers", "events", "answered", "failed"}]
      BY <1>2 DEF Restart
    <2> QED
      BY <1>2, <2>1 DEF Restart, TypeOK, chainVars, tableVars, histVars, Settled
  <1>3. ASSUME NEW a \in Agent, NEW w \in Wallet \cup {NoWallet}, SyncWallet(a, w)
        PROVE  TypeOK'
    <2>1. held' \subseteq Agent \X Wallet
      BY <1>3 DEF SyncWallet, TypeOK
    <2> QED
      BY <1>3, <2>1 DEF SyncWallet, TypeOK, chainVars, tableVars, Settled
  <1> QED
    BY <1>1, <1>2, <1>3

LEMMA RealtimeTypes ==
    ASSUME TypeOK, Realtime
    PROVE  TypeOK'
  <1>1. CASE PlanRealtime
    BY <1>1, PlanRealtimeType
    DEF PlanRealtime, TypeOK, chainVars, tableVars, histVars, Settled, Planned
  <1>2. ASSUME NEW g \in BOOLEAN, NEW h \in BOOLEAN, ScanAndCommit(g, h)
        PROVE  TypeOK'
    <2>1. rt \in Planned
      BY <1>2, Locals DEF ScanAndCommit
    <2>2. stored' \in [Transfer -> Agent \cup {NoAgent, Unstored}]
      BY <1>2, <2>1, TableTypes DEF ScanAndCommit, Planned, TypeOK
    <2>3. rows' \in [Event -> 0 .. MaxRows]
      BY <1>2, TableTypes DEF ScanAndCommit, TypeOK
    <2>4. scanned' \subseteq Block
      BY <1>2, <2>1, Constants DEF ScanAndCommit, Planned, TypeOK, Block
    <2> QED
      BY <1>2, <2>2, <2>3, <2>4 DEF ScanAndCommit, TypeOK, chainVars, Settled
  <1>3. CASE RealtimeFails
    BY <1>3 DEF RealtimeFails, TypeOK, chainVars, tableVars, histVars, Settled
  <1> QED
    BY <1>1, <1>2, <1>3 DEF Realtime

LEMMA BackfillTypes ==
    ASSUME TypeOK, Backfill
    PROVE  TypeOK'
  <1>1. CASE PlanBackfill
    BY <1>1, PlanBackfillType
    DEF PlanBackfill, TypeOK, chainVars, tableVars, histVars, Settled, Filling
  <1>2. ASSUME NEW failed, BackfillTransfers(failed)
        PROVE  TypeOK'
    <2>1. bf \in Filling
      BY <1>2, Locals DEF BackfillTransfers
    <2>2. stored' \in [Transfer -> Agent \cup {NoAgent, Unstored}]
      BY <1>2, <2>1, TableTypes DEF BackfillTransfers, Filling
    <2>3. bf' \in Filling
      BY <1>2, <2>1 DEF BackfillTransfers, Filling
    <2>4. scanned' \subseteq Block
      <3>1. bf.from \in Int /\ bf.to \in Int /\ bf.from >= 1 /\ bf.to <= MaxBlock
        BY <2>1, Constants DEF Filling, Settled, TypeOK
      <3>2. scanned' \subseteq bf.from .. bf.to
        BY <1>2 DEF BackfillTransfers
      <3> QED
        BY <3>1, <3>2, Constants DEF Block
    <2> QED
      BY <1>2, <2>2, <2>3, <2>4 DEF BackfillTransfers, TypeOK, chainVars, Settled, Filling
  <1>3. ASSUME NEW failed, BackfillEvents(failed)
        PROVE  TypeOK'
    <2>1. rows' \in [Event -> 0 .. MaxRows]
      BY <1>3, TableTypes DEF BackfillEvents, TypeOK
    <2> QED
      BY <1>3, <2>1 DEF BackfillEvents, TypeOK, chainVars, histVars, Settled
  <1>4. CASE BackfillFails
    BY <1>4 DEF BackfillFails, TypeOK, chainVars, tableVars, histVars, Settled
  <1> QED
    BY <1>1, <1>2, <1>3, <1>4 DEF Backfill

LEMMA IndexBlockTypes ==
    ASSUME TypeOK, IndexBlock
    PROVE  TypeOK'
  <1>1. ASSUME NEW b \in Block, NEW ok \in BOOLEAN, IndexTransfers(b, ok)
        PROVE  TypeOK'
    <2>1. stored' \in [Transfer -> Agent \cup {NoAgent, Unstored}]
      BY <1>1, TableTypes, MapTypes DEF IndexTransfers, TypeOK
    <2>2. scanned' \subseteq Block /\ req' \in [Block -> {"none", "transfers", "events",
                                                          "answered", "failed"}]
      BY <1>1 DEF IndexTransfers, TypeOK
    <2> QED
      BY <1>1, <2>1, <2>2 DEF IndexTransfers, TypeOK, chainVars, Settled
  <1>2. ASSUME NEW b \in Block, NEW ok \in BOOLEAN, IndexEvents(b, ok)
        PROVE  TypeOK'
    <2>1. rows' \in [Event -> 0 .. MaxRows]
      BY <1>2, TableTypes DEF IndexEvents, TypeOK
    <2>2. req' \in [Block -> {"none", "transfers", "events", "answered", "failed"}]
      BY <1>2 DEF IndexEvents, TypeOK
    <2> QED
      BY <1>2, <2>1, <2>2 DEF IndexEvents, TypeOK, chainVars, histVars, Settled
  <1>3. ASSUME NEW b \in Block, IndexFails(b)
        PROVE  TypeOK'
    BY <1>3, RequestTypes
    DEF IndexFails, OnlyRequests, chainVars, tableVars, histVars
  <1> QED
    BY <1>1, <1>2, <1>3 DEF IndexBlock

LEMMA LinkTypes ==
    ASSUME TypeOK, LinkAgents
    PROVE  TypeOK'
  <1>1. ASSUME NEW l \in Linker, ReadUnlinked(l)
        PROVE  TypeOK'
    <2>1. PICK m \in WalletMaps(LowerHolders) :
              link' = [link EXCEPT ![l] = [pc |-> "read", map |-> m,
                                           todo |-> {t \in Transfer : stored[t] = NoAgent}]]
      BY <1>1 DEF ReadUnlinked
    <2>2. [pc |-> "read", map |-> m, todo |-> {t \in Transfer : stored[t] = NoAgent}] \in Reading
      BY MapTypes DEF Reading
    <2>3. link' \in [Linker -> {Idle} \cup Reading]
      BY <2>1, <2>2 DEF TypeOK, Reading
    <2> QED
      BY <1>1, <2>3 DEF ReadUnlinked, TypeOK, chainVars, tableVars, histVars, Settled, Reading
  <1>2. ASSUME NEW l \in Linker, WriteLinks(l)
        PROVE  TypeOK'
    <2>1. link[l] \in Reading
      BY <1>2, Locals DEF WriteLinks
    <2>2. stored' \in [Transfer -> Agent \cup {NoAgent, Unstored}]
      <3>1. \A t \in Transfer : Recipient[t] \in Wallet
        BY IndexerAssumption
      <3>2. \A w \in Wallet : link[l].map[w] \in Agent \cup {NoAgent}
        BY <2>1 DEF Reading, Maps
      <3>3. stored \in [Transfer -> Agent \cup {NoAgent, Unstored}]
        BY DEF TypeOK
      <3> QED
        BY <1>2, <3>1, <3>2, <3>3 DEF WriteLinks
    <2>3. link' \in [Linker -> {Idle} \cup Reading]
      BY <1>2 DEF WriteLinks, TypeOK, Reading
    <2> QED
      BY <1>2, <2>2, <2>3 DEF WriteLinks, TypeOK, chainVars, histVars, Settled, Reading
  <1> QED
    BY <1>1, <1>2 DEF LinkAgents

\* The script's steps leave the index alone but for a request.
LEMMA ScriptSteps ==
    ASSUME ScriptTypeOK, ScriptNext
    PROVE  /\ OnlyRequests
           /\ \/ req' = req
              \/ \E b \in Block, s \in {"none", "transfers"} : req' = [req EXCEPT ![b] = s]
  <1>1. Range \subseteq Block
    BY ScriptAssumption
  <1>2. CASE PickBlocks \/ StopMarking \/ RequestTimesOut \/ StopScript \/ ResetLedger
    BY <1>2 DEF PickBlocks, StopMarking, RequestTimesOut, StopScript, ResetLedger, OnlyRequests, vars
  <1>3. CASE RequestBlock
    BY <1>1, <1>3
    DEF RequestBlock, StartIndexBlock, ScriptTypeOK, OnlyRequests, chainVars, tableVars, histVars
  <1>4. CASE TakeAnswer
    BY <1>1, <1>4 DEF TakeAnswer, ScriptTypeOK, OnlyRequests, chainVars, tableVars, histVars
  <1>5. CASE \E b \in Block : DropAnswer(b)
    BY <1>5 DEF DropAnswer, OnlyRequests, chainVars, tableVars, histVars
  <1> QED
    BY <1>2, <1>3, <1>4, <1>5 DEF ScriptNext

LEMMA TypeStep == AllTypeOK /\ [AllNext]_allVars => TypeOK'
  <1> SUFFICES ASSUME TypeOK, ScriptTypeOK, [AllNext]_allVars
               PROVE  TypeOK'
    BY DEF AllTypeOK
  <1>1. CASE Next
    BY <1>1, SurroundingTypes, RealtimeTypes, BackfillTypes, IndexBlockTypes, LinkTypes DEF Next, RunIndexerLoop
  <1>2. CASE ScriptNext
    BY <1>2, ScriptSteps, RequestTypes
  <1>3. CASE UNCHANGED allVars
    BY <1>3, RequestTypes DEF allVars, vars, OnlyRequests
  <1> QED
    BY <1>1, <1>2, <1>3 DEF AllNext

-----------------------------------------------------------------------------
(* The script's table                                                      *)

Statuses == {"none", "pending", "used", "error"}

LEMMA MarkedTypes ==
    ASSUME ScriptTypeOK, NEW S \in SUBSET Available
    PROVE  /\ Marked(S) \in [Range -> Statuses]
           /\ \A b \in S : b \in Range /\ Marked(S)[b] = "pending" /\ ledger[b] = "none"
           /\ \A b \in Range \ S : Marked(S)[b] = ledger[b]
  BY DEF ScriptTypeOK, Marked, Available, Statuses

\* 0 is no block, so an idle script waits for none.
LEMMA NoBlock == 0 \notin Range /\ Range \subseteq Block
  BY ScriptAssumption, Constants DEF Block

LEMMA ScriptStep ==
    ASSUME ScriptTypeOK, QueueIsPending, [AllNext]_allVars
    PROVE  ScriptTypeOK' /\ QueueIsPending'
  <1>1. CASE UNCHANGED scriptVars
    BY <1>1 DEF scriptVars, ScriptTypeOK, QueueIsPending
  <1>2. CASE PickBlocks
    <2>1. PICK S \in SUBSET Available :
              ledger' = Marked(S) /\ script' = [script EXCEPT !.queue = S]
      BY <1>2 DEF PickBlocks
    <2>2. script' = [queue |-> S, waiting |-> 0]
      BY <1>2, <2>1 DEF PickBlocks, ScriptIdle, ScriptTypeOK
    <2>3. S \subseteq Range
      BY DEF Available
    <2> QED
      BY <2>1, <2>2, <2>3, MarkedTypes, NoBlock DEF ScriptTypeOK, QueueIsPending, Statuses
  <1>3. CASE StopMarking
    BY <1>3, MarkedTypes, NoBlock
    DEF StopMarking, ScriptIdle, ScriptTypeOK, QueueIsPending, Statuses
  <1>4. CASE RequestBlock
    <2>1. PICK b \in script.queue : script' = [queue |-> script.queue \ {b}, waiting |-> b]
      BY <1>4 DEF RequestBlock
    <2> QED
      BY <1>4, <2>1, NoBlock DEF RequestBlock, ScriptTypeOK, QueueIsPending
  <1>5. CASE TakeAnswer \/ RequestTimesOut
    <2>1. PICK s \in {"used", "error"} : ledger' = [ledger EXCEPT ![script.waiting] = s]
      BY <1>5 DEF TakeAnswer, RequestTimesOut
    <2>2. script' = [queue |-> script.queue, waiting |-> 0]
      BY <1>5 DEF TakeAnswer, RequestTimesOut, ScriptTypeOK
    <2> QED
      BY <2>1, <2>2, NoBlock DEF ScriptTypeOK, QueueIsPending
  <1>6. CASE StopScript
    BY <1>6, NoBlock DEF StopScript, ScriptTypeOK, QueueIsPending
  <1>7. CASE ResetLedger
    BY <1>7, NoBlock DEF ResetLedger, ScriptIdle, ScriptTypeOK, QueueIsPending
  <1> QED
    BY <1>1, <1>2, <1>3, <1>4, <1>5, <1>6, <1>7
    DEF AllNext, ScriptNext, DropAnswer, allVars

\* No step settles a block but that of the run that picked it.
LEMMA SettlesPicked ==
    ASSUME ScriptTypeOK, QueueIsPending, [AllNext]_allVars, NEW b \in Range
    PROVE  /\ ledger[b] \in {"used", "error"} => ledger'[b] \in {ledger[b], "none"}
           /\ ledger[b] = "pending" /\ b \notin script.queue \cup {script.waiting}
                 => ledger'[b] \in {"pending", "none"}
  <1>1. CASE ledger' = ledger
    BY <1>1
  <1>2. CASE PickBlocks \/ StopMarking
    <2>1. PICK S \in SUBSET Available : ledger' = Marked(S)
      BY <1>2 DEF PickBlocks, StopMarking
    <2> QED
      BY <2>1, MarkedTypes
  <1>3. CASE TakeAnswer \/ RequestTimesOut
    <2>1. PICK s \in {"used", "error"} : ledger' = [ledger EXCEPT ![script.waiting] = s]
      BY <1>3 DEF TakeAnswer, RequestTimesOut
    <2>2. script.waiting # 0
      BY <1>3 DEF TakeAnswer, RequestTimesOut
    <2> QED
      BY <2>1, <2>2 DEF ScriptTypeOK, QueueIsPending
  <1>4. CASE ResetLedger
    BY <1>4 DEF ResetLedger
  <1> QED
    BY <1>1, <1>2, <1>3, <1>4
    DEF AllNext, ScriptNext, RequestBlock, DropAnswer, StopScript, allVars, scriptVars

-----------------------------------------------------------------------------
(* What a step does to the tables, whoever takes it                        *)

\* The wallet maps a commit of this step may link with.
InUse == {m \in Maps : \/ rt # Idle /\ m = rt.map
                       \/ bf # Idle /\ m = bf.map
                       \/ m \in WalletMaps(LowerHolders)}

\* No row of a transfer is written, or the rows of found logs of the chain
\* are inserted, or the link endpoint updates rows.
NoRows == stored' = stored /\ scanned' \in {scanned, {}}

Inserts(found, m) ==
    /\ stored' = WithTransfers(found, m)
    /\ \A t \in found : mined[t] <= head
    /\ \A t \in Transfer : mined[t] \in scanned' => t \in found
    /\ UNCHANGED <<head, mined>>

Links == \E l \in Linker : WriteLinks(l)

\* A scan finds every transfer of the blocks it passes.
LEMMA ScanFinds ==
    ASSUME TypeOK, NEW from \in 1 .. head, NEW to \in 1 .. head, NEW range \in Nat \ {0},
           NEW failed, NEW t \in Transfer, mined[t] \in from .. to,
           \A f \in failed : mined[t] \notin BatchBlocks(f, to, range)
    PROVE  t \in LogsIn(Transfer, ScannedBlocks(from, to, range, failed))
  <1>1. head \in Nat /\ from \in Int /\ to \in Int
    BY Locals
  <1>2. mined[t] \in ScannedBlocks(from, to, range, failed)
    BY <1>1, PassedIsScanned
  <1>3. mined[t] <= head
    BY <1>1
  <1> QED
    BY <1>2, <1>3 DEF LogsIn

LEMMA RealtimeInserts ==
    ASSUME TypeOK, NEW g \in BOOLEAN, NEW h \in BOOLEAN, ScanAndCommit(g, h)
    PROVE  NoRows \/ \E found \in SUBSET Transfer, m \in InUse : Inserts(found, m)
  <1>1. CASE g
    <2> DEFINE found == LogsIn(Transfer, ScannedBlocks(rt.from, rt.to, RealtimeRange, {}))
    <2>1. rt \in Planned
      BY Locals DEF ScanAndCommit
    <2>2. rt.from \in 1 .. head /\ rt.to \in 1 .. head /\ rt.map \in InUse
      BY <2>1 DEF Planned, InUse, ScanAndCommit, Idle
    <2>3. ASSUME NEW t \in Transfer, mined[t] \in scanned'
          PROVE  t \in found
      BY <1>1, <2>2, <2>3, ScanFinds, Constants DEF ScanAndCommit
    <2>4. found \subseteq Transfer /\ \A t \in found : mined[t] <= head
      BY DEF LogsIn
    <2>5. stored' = WithTransfers(found, rt.map) /\ UNCHANGED <<head, mined>>
      BY <1>1 DEF ScanAndCommit, chainVars
    <2> HIDE DEF found
    <2> QED
      BY <2>2, <2>3, <2>4, <2>5 DEF Inserts
  <1>2. CASE ~g
    BY <1>2 DEF ScanAndCommit, NoRows
  <1> QED
    BY <1>1, <1>2

LEMMA BackfillInserts ==
    ASSUME TypeOK, NEW failed, BackfillTransfers(failed)
    PROVE  \E found \in SUBSET Transfer, m \in InUse : Inserts(found, m)
  <1> DEFINE found == LogsIn(Transfer, ScannedBlocks(bf.from, bf.to, BackfillRange, failed))
  <1>1. bf \in Filling
    BY Locals DEF BackfillTransfers
  <1>2. bf.from \in Settled /\ bf.to \in Settled /\ bf.map \in InUse
    BY <1>1 DEF Filling, InUse, BackfillTransfers, Idle
  <1>3. bf.from \in 1 .. head /\ bf.to \in 1 .. head
    BY <1>2, Constants, Locals DEF Settled
  <1>4. ASSUME NEW t \in Transfer, mined[t] \in scanned'
        PROVE  t \in found
    BY <1>3, <1>4, ScanFinds, Constants DEF BackfillTransfers
  <1>5. found \subseteq Transfer /\ \A t \in found : mined[t] <= head
    BY DEF LogsIn
  <1>6. stored' = WithTransfers(found, bf.map) /\ UNCHANGED <<head, mined>>
    BY DEF BackfillTransfers, chainVars
  <1> HIDE DEF found
  <1> QED
    BY <1>2, <1>4, <1>5, <1>6 DEF Inserts

LEMMA RequestInserts ==
    ASSUME TypeOK, NEW b \in Block, NEW ok \in BOOLEAN, IndexTransfers(b, ok)
    PROVE  NoRows \/ \E found \in SUBSET Transfer, m \in InUse : Inserts(found, m)
  <1>1. CASE ok
    <2> DEFINE found == LogsIn(Transfer, {b})
    <2>1. PICK m \in WalletMaps(LowerHolders) : stored' = WithTransfers(found, m)
      BY <1>1 DEF IndexTransfers
    <2>2. m \in InUse
      BY MapTypes DEF InUse
    <2>3. \A t \in Transfer : mined[t] \in scanned' => t \in found
      BY <1>1 DEF IndexTransfers, LogsIn
    <2>4. found \subseteq Transfer /\ \A t \in found : mined[t] <= head
      BY DEF LogsIn
    <2>5. UNCHANGED <<head, mined>>
      BY DEF IndexTransfers, chainVars
    <2> HIDE DEF found
    <2> QED
      BY <2>1, <2>2, <2>3, <2>4, <2>5 DEF Inserts
  <1>2. CASE ~ok
    BY <1>2 DEF IndexTransfers, NoRows
  <1> QED
    BY <1>1, <1>2

LEMMA TransferRows ==
    ASSUME TypeOK, ScriptTypeOK, [AllNext]_allVars
    PROVE  \/ NoRows
           \/ \E found \in SUBSET Transfer, m \in InUse : Inserts(found, m)
           \/ Links
  <1>1. CASE ProduceBlock \/ Restart
             \/ \E a \in Agent, w \in Wallet \cup {NoWallet} : SyncWallet(a, w)
    BY <1>1 DEF ProduceBlock, Restart, SyncWallet, NoRows, tableVars, histVars
  <1>2. CASE Realtime
    BY <1>2, RealtimeInserts
    DEF Realtime, PlanRealtime, RealtimeFails, NoRows, tableVars, histVars
  <1>3. CASE Backfill
    BY <1>3, BackfillInserts
    DEF Backfill, PlanBackfill, BackfillEvents, BackfillFails, NoRows, tableVars, histVars
  <1>4. CASE IndexBlock
    BY <1>4, RequestInserts DEF IndexBlock, IndexEvents, IndexFails, NoRows, tableVars, histVars
  <1>5. CASE LinkAgents
    BY <1>5 DEF LinkAgents, ReadUnlinked, Links, NoRows, tableVars, histVars
  <1>6. CASE ScriptNext
    BY <1>6, ScriptSteps DEF OnlyRequests, NoRows
  <1>7. CASE UNCHANGED allVars
    BY <1>7 DEF allVars, vars, NoRows
  <1> QED
    BY <1>1, <1>2, <1>3, <1>4, <1>5, <1>6, <1>7 DEF AllNext, Next, RunIndexerLoop

\* Rows of events are added for logs of the chain; the head grows and a log
\* stays where it is.
EventsAdded(found) ==
    /\ rows' = WithEvents(found)
    /\ \A e \in found : mined[e] <= head

LEMMA EventRows ==
    ASSUME TypeOK, ScriptTypeOK, [AllNext]_allVars
    PROVE  /\ rows' = rows \/ \E found \in SUBSET Event : EventsAdded(found)
           /\ mined' = mined /\ head' \in {head, head + 1}
  <1>1. \A S, blocks : /\ LogsIn(S, blocks) \subseteq S
                       /\ \A e \in LogsIn(S, blocks) : mined[e] <= head
    BY DEF LogsIn
  <1>2. CASE ProduceBlock \/ Restart
             \/ \E a \in Agent, w \in Wallet \cup {NoWallet} : SyncWallet(a, w)
    BY <1>2 DEF ProduceBlock, Restart, SyncWallet, chainVars, tableVars
  <1>3. CASE Realtime
    BY <1>1, <1>3
    DEF Realtime, PlanRealtime, ScanAndCommit, RealtimeFails, EventsAdded, chainVars, tableVars
  <1>4. CASE Backfill
    <2>1. ASSUME NEW failed, BackfillEvents(failed)
          PROVE  /\ rows' = rows \/ \E found \in SUBSET Event : EventsAdded(found)
                 /\ mined' = mined /\ head' = head
      BY <1>1, <2>1 DEF BackfillEvents, EventsAdded, chainVars
    <2> QED
      BY <1>4, <2>1
      DEF Backfill, PlanBackfill, BackfillTransfers, BackfillFails, chainVars, tableVars
  <1>5. CASE IndexBlock
    BY <1>1, <1>5
    DEF IndexBlock, IndexTransfers, IndexEvents, IndexFails, EventsAdded, chainVars, tableVars
  <1>6. CASE LinkAgents
    BY <1>6 DEF LinkAgents, ReadUnlinked, WriteLinks, chainVars, tableVars
  <1>7. CASE ScriptNext
    BY <1>7, ScriptSteps DEF OnlyRequests
  <1>8. CASE UNCHANGED allVars
    BY <1>8 DEF allVars, vars
  <1> QED
    BY <1>2, <1>3, <1>4, <1>5, <1>6, <1>7, <1>8 DEF AllNext, Next, RunIndexerLoop

-----------------------------------------------------------------------------
(* Wallet maps                                                             *)

\* A new map names holders of this moment; a worker keeps the map it has.
\* The pairs that were held once only grow, and have those of each wallet.
NewMap(map) == map \in WalletMaps(CanonHolders) \/ map \in WalletMaps(LowerHolders)

KeepsMaps ==
    /\ held \subseteq held'
    /\ \A a \in Agent : wallets'[a] \in {wallets[a], NoWallet} \/ <<a, wallets'[a]>> \in held'
    /\ rt' # Idle => (rt # Idle /\ rt'.map = rt.map) \/ NewMap(rt'.map)
    /\ bf' # Idle => (bf # Idle /\ bf'.map = bf.map) \/ NewMap(bf'.map)
    /\ \A l \in Linker : link'[l] # Idle =>
           \/ link'[l] = link[l]
           \/ NewMap(link'[l].map) /\ link'[l].todo = {t \in Transfer : stored[t] = NoAgent}

LEMMA MapSteps ==
    ASSUME TypeOK, ScriptTypeOK, [AllNext]_allVars
    PROVE  KeepsMaps
  <1>1. CASE ProduceBlock \/ Restart
    BY <1>1 DEF ProduceBlock, Restart, KeepsMaps, histVars
  <1>2. ASSUME NEW a \in Agent, NEW w \in Wallet \cup {NoWallet}, SyncWallet(a, w)
        PROVE  KeepsMaps
    <2>1. held \subseteq held' /\ UNCHANGED <<rt, bf, link>>
      BY <1>2 DEF SyncWallet
    <2>2. \A b \in Agent : wallets'[b] \in {wallets[b], NoWallet} \/ <<b, wallets'[b]>> \in held'
      BY <1>2 DEF SyncWallet, TypeOK
    <2> QED
      BY <2>1, <2>2 DEF KeepsMaps
  <1>3. CASE Realtime
    <2>1. UNCHANGED <<wallets, bf, link, held>>
      BY <1>3 DEF Realtime, PlanRealtime, ScanAndCommit, RealtimeFails, histVars
    <2>2. rt' = Idle \/ NewMap(rt'.map)
      BY <1>3 DEF Realtime, PlanRealtime, ScanAndCommit, RealtimeFails, NewMap
    <2> QED
      BY <2>1, <2>2 DEF KeepsMaps
  <1>4. CASE Backfill
    <2>1. UNCHANGED <<wallets, rt, link, held>>
      BY <1>4
      DEF Backfill, PlanBackfill, BackfillTransfers, BackfillEvents, BackfillFails, histVars
    <2>2. ASSUME NEW failed, BackfillTransfers(failed)
          PROVE  bf # Idle /\ bf'.map = bf.map
      BY <2>2, Locals DEF BackfillTransfers, Filling, Idle
    <2>3. bf' = Idle \/ (bf # Idle /\ bf'.map = bf.map) \/ NewMap(bf'.map)
      BY <1>4, <2>2 DEF Backfill, PlanBackfill, BackfillEvents, BackfillFails, NewMap
    <2> QED
      BY <2>1, <2>3 DEF KeepsMaps
  <1>5. CASE IndexBlock
    BY <1>5 DEF IndexBlock, IndexTransfers, IndexEvents, IndexFails, KeepsMaps, histVars
  <1>6. ASSUME NEW l \in Linker, ReadUnlinked(l)
        PROVE  KeepsMaps
    <2>1. PICK m \in WalletMaps(LowerHolders) :
              link' = [link EXCEPT ![l] = [pc |-> "read", map |-> m,
                                           todo |-> {t \in Transfer : stored[t] = NoAgent}]]
      BY <1>6 DEF ReadUnlinked
    <2>2. UNCHANGED <<wallets, rt, bf, held>>
      BY <1>6 DEF ReadUnlinked, histVars
    <2>3. \A k \in Linker : k # l => link'[k] = link[k]
      BY <2>1 DEF TypeOK
    <2>4. NewMap(link'[l].map) /\ link'[l].todo = {t \in Transfer : stored[t] = NoAgent}
      BY <2>1 DEF NewMap, TypeOK
    <2> QED
      BY <2>2, <2>3, <2>4 DEF KeepsMaps
  <1>7. ASSUME NEW l \in Linker, WriteLinks(l)
        PROVE  KeepsMaps
    BY <1>7 DEF WriteLinks, TypeOK, KeepsMaps, histVars
  <1>8. CASE ScriptNext
    BY <1>8, ScriptSteps DEF OnlyRequests, KeepsMaps
  <1>9. CASE UNCHANGED allVars
    BY <1>9 DEF allVars, vars, KeepsMaps
  <1> QED
    BY <1>1, <1>2, <1>3, <1>4, <1>5, <1>6, <1>7, <1>8, <1>9 DEF AllNext, Next, RunIndexerLoop, LinkAgents

\* A map that was read now names pairs that are held.
LEMMA NewMapIsHonest ==
    ASSUME TypeOK, MapsAreHonest, NEW map, NewMap(map)
    PROVE  Honest(map)
  <1>1. ASSUME NEW w \in Wallet, map[w] \in Agent
        PROVE  <<map[w], w>> \in held
    <2>1. map[w] \in CanonHolders[w]
      BY <1>1, IndexerAssumption DEF NewMap, WalletMaps, LowerHolders
    <2>2. wallets[map[w]] = w /\ w # NoWallet
      BY <2>1, IndexerAssumption DEF CanonHolders
    <2> QED
      BY <1>1, <2>2 DEF MapsAreHonest
  <1> QED
    BY <1>1 DEF Honest

LEMMA InUseIsHonest ==
    ASSUME TypeOK, MapsAreHonest, NEW m \in InUse
    PROVE  Honest(m)
  BY NewMapIsHonest DEF InUse, NewMap, MapsAreHonest

\* No row is taken out of the table of transfers.
LEMMA RowsStay ==
    ASSUME TypeOK, ScriptTypeOK, [AllNext]_allVars, NEW t \in Transfer, stored[t] # Unstored
    PROVE  stored'[t] # Unstored
  <1>1. ASSUME NEW found, NEW m \in InUse, Inserts(found, m)
        PROVE  stored'[t] # Unstored
    BY <1>1 DEF Inserts, WithTransfers
  <1>2. ASSUME NEW l \in Linker, WriteLinks(l)
        PROVE  stored'[t] # Unstored
    <2>1. link[l] \in Reading
      BY <1>2, Locals DEF WriteLinks
    <2>2. link[l].map[Recipient[t]] \in Agent \cup {NoAgent}
      BY <2>1, IndexerAssumption DEF Reading, Maps
    <2> QED
      BY <1>2, <2>2, IndexerAssumption DEF WriteLinks
  <1> QED
    BY <1>1, <1>2, TransferRows DEF NoRows, Links

-----------------------------------------------------------------------------
(* The invariant                                                           *)

\* A commit gives a row a link only to an agent that had the wallet, and a
\* scan counts a block as passed only with all its rows.
LEMMA LinkStep ==
    ASSUME IInv, [AllNext]_allVars
    PROVE  ScannedBlocksAreStored' /\ LinksAreHonest'
  <1> USE DEF IInv, AllTypeOK
  <1>1. held \subseteq held' /\ mined' = mined
    BY MapSteps, EventRows DEF KeepsMaps
  <1>2. CASE NoRows
    BY <1>1, <1>2 DEF NoRows, ScannedBlocksAreStored, LinksAreHonest
  <1>3. ASSUME NEW found, NEW m \in InUse, Inserts(found, m)
        PROVE  ScannedBlocksAreStored' /\ LinksAreHonest'
    <2>1. \A t \in Transfer : /\ Recipient[t] \in Wallet
                              /\ m[Recipient[t]] \in Agent \cup {NoAgent}
      BY IndexerAssumption DEF InUse, Maps
    <2>2. ASSUME NEW t \in Transfer, mined'[t] \in scanned'
          PROVE  stored'[t] # Unstored
      <3>1. t \in found
        BY <1>1, <1>3, <2>2 DEF Inserts
      <3> QED
        BY <1>3, <2>1, <3>1, IndexerAssumption DEF Inserts, WithTransfers
    <2>3. ASSUME NEW t \in Transfer, stored'[t] \in Agent
          PROVE  <<stored'[t], Recipient[t]>> \in held'
      <3>1. Honest(m)
        BY InUseIsHonest
      <3>2. stored'[t] = stored[t] \/ stored'[t] = m[Recipient[t]]
        BY <1>3 DEF Inserts, WithTransfers
      <3> QED
        BY <1>1, <2>1, <2>3, <3>1, <3>2 DEF Honest, LinksAreHonest
    <2> QED
      BY <2>2, <2>3 DEF ScannedBlocksAreStored, LinksAreHonest
  <1>4. ASSUME NEW l \in Linker, WriteLinks(l)
        PROVE  ScannedBlocksAreStored' /\ LinksAreHonest'
    <2>1. scanned' = scanned
      BY <1>4 DEF WriteLinks, histVars
    <2>2. ScannedBlocksAreStored'
      BY <1>1, <2>1, RowsStay DEF ScannedBlocksAreStored
    <2>3. Honest(link[l].map)
      BY <1>4 DEF WriteLinks, MapsAreHonest, Idle
    <2>4. ASSUME NEW t \in Transfer, stored'[t] \in Agent
          PROVE  <<stored'[t], Recipient[t]>> \in held'
      <3>1. stored'[t] = stored[t] \/ stored'[t] = link[l].map[Recipient[t]]
        BY <1>4 DEF WriteLinks
      <3>2. Recipient[t] \in Wallet
        BY IndexerAssumption
      <3> QED
        BY <1>1, <2>3, <2>4, <3>1, <3>2 DEF Honest, LinksAreHonest
    <2> QED
      BY <2>2, <2>4 DEF LinksAreHonest
  <1> QED
    BY <1>2, <1>3, <1>4, TransferRows DEF Links

\* Every row is that of a log the chain has.
LEMMA RowStep ==
    ASSUME IInv, [AllNext]_allVars
    PROVE  RowsAreOnChain'
  <1> USE DEF IInv, AllTypeOK
  <1>1. mined' = mined /\ head' >= head /\ \A x \in Log : mined[x] \in Int
    BY EventRows, Locals
  <1>2. ASSUME NEW t \in Transfer, stored'[t] # Unstored
        PROVE  mined'[t] <= head'
    <2>1. mined[t] \in Int /\ head \in Int /\ head' \in Int
      BY <1>1, EventRows, Locals DEF Log
    <2>2. stored[t] # Unstored \/ mined[t] <= head
      <3>1. ASSUME NEW found, NEW m \in InUse, Inserts(found, m)
            PROVE  stored[t] # Unstored \/ mined[t] <= head
        BY <1>2, <3>1 DEF Inserts, WithTransfers
      <3>2. ASSUME NEW l \in Linker, WriteLinks(l)
            PROVE  stored[t] # Unstored
        BY <1>2, <3>2 DEF WriteLinks, TodoIsStored, Idle
      <3> QED
        BY <1>2, <3>1, <3>2, TransferRows DEF NoRows, Links
    <2>3. mined[t] <= head
      BY <2>2 DEF RowsAreOnChain
    <2> QED
      BY <1>1, <2>1, <2>3
  <1>3. ASSUME NEW e \in Event, rows'[e] > 0
        PROVE  mined'[e] <= head'
    <2>1. mined[e] \in Int /\ head \in Int /\ head' \in Int
      BY <1>1, EventRows, Locals DEF Log
    <2>2. rows[e] > 0 \/ mined[e] <= head
      BY <1>3, EventRows DEF EventsAdded, WithEvents
    <2>3. mined[e] <= head
      BY <2>2 DEF RowsAreOnChain
    <2> QED
      BY <1>1, <2>1, <2>3
  <1> QED
    BY <1>2, <1>3 DEF RowsAreOnChain

LEMMA MapStep ==
    ASSUME IInv, [AllNext]_allVars
    PROVE  MapsAreHonest' /\ TodoIsStored'
  <1> USE DEF IInv, AllTypeOK
  <1>1. KeepsMaps
    BY MapSteps
  <1>2. \A map : Honest(map) \/ NewMap(map) =>
            \A w \in Wallet : map[w] \in Agent => <<map[w], w>> \in held'
    BY <1>1, NewMapIsHonest DEF Honest, KeepsMaps
  <1>3. \A a \in Agent : wallets'[a] # NoWallet => <<a, wallets'[a]>> \in held'
    BY <1>1 DEF KeepsMaps, MapsAreHonest
  <1>4. /\ rt' # Idle => (Honest(rt.map) /\ rt'.map = rt.map) \/ NewMap(rt'.map)
        /\ bf' # Idle => (Honest(bf.map) /\ bf'.map = bf.map) \/ NewMap(bf'.map)
        /\ \A l \in Linker : link'[l] # Idle =>
               (Honest(link[l].map) /\ link'[l].map = link[l].map) \/ NewMap(link'[l].map)
    BY <1>1 DEF KeepsMaps, MapsAreHonest
  <1>5. MapsAreHonest'
    BY <1>2, <1>3, <1>4 DEF MapsAreHonest, Honest
  <1>6. ASSUME NEW l \in Linker, link'[l] # Idle, NEW t \in link'[l].todo
        PROVE  stored'[t] # Unstored
    <2>1. t \in Transfer /\ stored[t] # Unstored
      <3>1. CASE link'[l] = link[l]
        BY <1>6, <3>1, Locals DEF TodoIsStored, Reading
      <3>2. CASE link'[l].todo = {u \in Transfer : stored[u] = NoAgent}
        BY <1>6, <3>2, IndexerAssumption
      <3> QED
        BY <1>1, <1>6, <3>1, <3>2 DEF KeepsMaps
    <2> QED
      BY <2>1, RowsStay
  <1> QED
    BY <1>5, <1>6 DEF TodoIsStored

LEMMA InitInvariant == AllInit => IInv
  <1> SUFFICES ASSUME AllInit
               PROVE  IInv
    OBVIOUS
  <1>1. TypeOK /\ ScriptTypeOK /\ QueueIsPending
    BY InitType, NoBlock DEF AllInit, ScriptInit, ScriptTypeOK, QueueIsPending
  <1>2. ScannedBlocksAreStored /\ RowsAreOnChain /\ LinksAreHonest /\ TodoIsStored
    BY IndexerAssumption
    DEF AllInit, Init, ScannedBlocksAreStored, RowsAreOnChain, LinksAreHonest, TodoIsStored
  <1>3. MapsAreHonest
    <2>1. \A a \in Agent : wallets[a] # NoWallet => a \in Dirty
      BY DEF AllInit, Init
    <2> QED
      BY <2>1 DEF AllInit, Init, MapsAreHonest
  <1> QED
    BY <1>1, <1>2, <1>3 DEF IInv, AllTypeOK

\* The inductive invariant.
THEOREM Invariance == Spec => []IInv
  <1>1. IInv /\ [AllNext]_allVars => IInv'
    <2> SUFFICES ASSUME IInv, [AllNext]_allVars
                 PROVE  IInv'
      OBVIOUS
    <2>1. TypeOK'
      BY TypeStep DEF IInv
    <2>2. ScriptTypeOK' /\ QueueIsPending'
      BY ScriptStep DEF IInv, AllTypeOK
    <2> QED
      BY <2>1, <2>2, LinkStep, RowStep, MapStep DEF IInv, AllTypeOK
  <1> QED
    BY <1>1, InitInvariant, PTL DEF Spec

\* A block that a scan passed without a failed query has all its transfers
\* in the table: scan_range, index_block and the batches of both.
THEOREM ScannedBlocksStored == Spec => []ScannedBlocksAreStored
  BY Invariance, PTL DEF IInv

\* Every writer, the link endpoint with an old map included, links a
\* transfer only to an agent that had the wallet at some time.
THEOREM LinksStayHonest == Spec => []LinksAreHonest
  BY Invariance, PTL DEF IInv

\* The table of random_indexer.py: blocks that are settled, and those a
\* stopped run left pending, rest until --reset.
THEOREM SettledStay == Spec => SettledBlocksRest
  <1> DEFINE Rests == \A b \in Range :
                  /\ ledger[b] \in {"used", "error"} => ledger'[b] \in {ledger[b], "none"}
                  /\ ledger[b] = "pending" /\ b \notin script.queue \cup {script.waiting}
                        => ledger'[b] \in {"pending", "none"}
  <1>1. IInv /\ [AllNext]_allVars => Rests
    BY SettlesPicked DEF IInv, AllTypeOK
  <1>2. IInv /\ [AllNext]_allVars => [Rests]_allVars
    BY <1>1
  <1>3. Spec => [][Rests]_allVars
    BY <1>2, Invariance, PTL DEF Spec
  <1> QED
    BY <1>3 DEF SettledBlocksRest

-----------------------------------------------------------------------------
(* The abstract ledger                                                     *)

LEMMA LedgerInit == AllInit => Ledger!Init
  <1> SUFFICES ASSUME AllInit
               PROVE  Ledger!Init
    OBVIOUS
  <1>1. \A x \in Log : ~(mined[x] <= head)
    BY Constants DEF AllInit, Init
  <1> QED
    BY <1>1 DEF AllInit, Init, Ledger!Init

\* A commit of rows is a Store, one of the link endpoint a Link; a new block
\* is a Produce, and no other step changes what the ledger shows.
LEMMA LedgerStep ==
    ASSUME IInv, [AllNext]_allVars
    PROVE  [Ledger!Next]_(Ledger!vars)
  <1> USE DEF IInv, AllTypeOK
  <1> DEFINE chain == {x \in Log : mined[x] <= head}
             known == {e \in Event : rows[e] > 0}
             chainNext == {x \in Log : mined'[x] <= head'}
             knownNext == {e \in Event : rows'[e] > 0}
  <1>1. /\ stored' \in [Transfer -> Agent \cup {NoAgent, Unstored}]
        /\ stored \in [Transfer -> Agent \cup {NoAgent, Unstored}]
    BY TypeStep DEF TypeOK
  <1>2. chain \subseteq chainNext
    BY EventRows, Locals
  <1>3. \E S \in SUBSET Event : S \subseteq chain /\ knownNext = known \cup S
    <2>1. ASSUME NEW found \in SUBSET Event, EventsAdded(found)
          PROVE  knownNext = known \cup (knownNext \ known) /\ knownNext \ known \subseteq chain
      BY <2>1 DEF EventsAdded, WithEvents, TypeOK, Log
    <2>2. knownNext = known \cup (knownNext \ known) /\ knownNext \ known \subseteq chain
      <3>1. CASE rows' = rows
        BY <3>1
      <3> QED
        BY <2>1, <3>1, EventRows
    <2>3. knownNext \ known \in SUBSET Event
      OBVIOUS
    <2> QED
      BY <2>2, <2>3 DEF Log
  <1>4. CASE ProduceBlock
    <2>1. stored' = stored /\ rows' = rows
      BY <1>4 DEF ProduceBlock, tableVars
    <2>2. \E S \in SUBSET (Transfer \cup Event) : chainNext = chain \cup S
      BY <1>2 DEF Log
    <2> QED
      BY <2>1, <2>2 DEF Ledger!Next, Ledger!Produce
  <1>5. CASE head' = head
    <2>1. chainNext = chain
      BY <1>5, EventRows
    <2>2. CASE NoRows
      BY <1>1, <1>3, <2>1, <2>2 DEF NoRows, Ledger!Next, Ledger!Store
    <2>3. ASSUME NEW found \in SUBSET Transfer, NEW m \in InUse, Inserts(found, m)
          PROVE  Ledger!Next
      <3>1. \A t \in Transfer : stored'[t] # stored[t] => stored[t] = Unstored /\ t \in chain
        BY <2>3 DEF Inserts, WithTransfers, Log
      <3> QED
        BY <1>1, <1>3, <2>1, <3>1 DEF Ledger!Next, Ledger!Store
    <2>4. ASSUME NEW l \in Linker, WriteLinks(l)
          PROVE  Ledger!Next
      <3>1. link[l] \in Reading /\ link[l] # Idle
        BY <2>4, Locals DEF WriteLinks, Idle
      <3>2. \A t \in Transfer :
                stored'[t] # stored[t] => stored[t] # Unstored /\ stored'[t] \in Agent
        BY <2>4, <3>1, IndexerAssumption DEF WriteLinks, TodoIsStored, Reading, Maps
      <3>3. rows' = rows
        BY <2>4 DEF WriteLinks
      <3> QED
        BY <1>1, <2>1, <3>2, <3>3 DEF Ledger!Next, Ledger!Link
    <2> QED
      BY <2>2, <2>3, <2>4, TransferRows DEF Links
  <1> QED
    <2>1. ProduceBlock \/ head' = head
      BY ScriptSteps
      DEF AllNext, Next, RunIndexerLoop, allVars, vars, OnlyRequests, Restart, SyncWallet, Realtime, PlanRealtime,
          ScanAndCommit, RealtimeFails, Backfill, PlanBackfill, BackfillTransfers, BackfillEvents,
          BackfillFails, IndexBlock, IndexTransfers, IndexEvents, IndexFails, LinkAgents,
          ReadUnlinked, WriteLinks, chainVars
    <2> QED
      BY <1>4, <1>5, <2>1

\* The workers, the endpoints and the agent sync together implement the
\* ledger: rows of the chain only, never removed, and a link is for good.
THEOREM LedgerImplemented == Spec => ImplementsIndexLedger
  <1>1. IInv /\ [AllNext]_allVars => [Ledger!Next]_(Ledger!vars)
    BY LedgerStep
  <1> QED
    BY <1>1, LedgerInit, Invariance, PTL DEF Spec, ImplementsIndexLedger, Ledger!Spec
==============================================================================
