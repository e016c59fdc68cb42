------------------------------- MODULE Indexer -------------------------------
(***************************************************************************)
(* The on-chain index: the realtime and the backfill worker of             *)
(* app/services/onchain_indexer.py, the endpoints index_block and          *)
(* backfill_link_agents of app/routers/onchain_stats.py, and the tables    *)
(* onchain_transfers and onchain_agent_events they all write.              *)
(*                                                                         *)
(* A member of Transfer stands for a (tx_hash, from, to) triple, the       *)
(* unique key of onchain_transfers; a member of Event for one NFT Transfer *)
(* log.  Every await on the network or the database that other writers can *)
(* be interleaved with is the boundary of an action; the rows a session    *)
(* has executed but not committed are in the worker's `found'.             *)
(***************************************************************************)
EXTENDS Integers, FiniteSets

CONSTANTS
    Transfer, Event,
    Agent, Dirty,       \* Dirty: agents whose agent_wallet is not the plain
                        \* lower-case form (no 0x, blanks around it)
    Recipient,          \* Recipient[t]: the wallet a transfer pays
    Wallet, NoAgent, NoWallet, Unstored,
    MaxBlock,           \* bound: blocks produced in a run
    Chains,             \* the chains to look at: which block a log is in
    MaxRows,            \* bound: rows counted per event
    FirstBlock,         \* U_FIRST_TRANSFER_BLOCK
    RealtimeChunk,      \* REALTIME_CHUNK_SIZE
    RealtimeRange,      \* CHAINSTACK_MAX_BLOCK_RANGE
    BackfillChunk,      \* BACKFILL_CHUNK_SIZE
    BackfillRange,      \* MAX_RANGE = ALCHEMY_MAX_BLOCK_RANGE
    StartWindow,        \* BACKFILL_START_WINDOW_BLOCKS
    Linker,             \* requests of the link endpoint
    MaxBusy             \* bound: writers at work at the same time

Log == Transfer \cup Event
Block == 1 .. MaxBlock

ASSUME IndexerAssumption ==
    /\ Transfer \cap Event = {}
    /\ Dirty \subseteq Agent
    /\ Recipient \in [Transfer -> Wallet]
    /\ Chains \subseteq [Log -> Block]
    /\ NoAgent \notin Agent /\ NoWallet \notin Wallet
    /\ Unstored \notin Agent \cup {NoAgent}
    /\ {MaxBlock, MaxRows, FirstBlock, RealtimeChunk, BackfillChunk, StartWindow,
        MaxBusy} \subseteq Nat \ {0}
    /\ BackfillRange \in Nat \ {0}
    /\ RealtimeRange \in Nat /\ RealtimeChunk <= RealtimeRange

VARIABLES
    head,       \* the newest block of the chain
    mined,      \* Log -> its block; the log exists once head reaches it
    wallets,    \* Agent -> agent_cache.agent_wallet
    stored,     \* Transfer -> Unstored or the linked_agent_id of its row
    rows,       \* Event -> number of its rows (the table has no unique key)
    rt,         \* the realtime worker
    bf,         \* the backfill worker
    req,        \* Block -> the index_block request for it
    link,       \* Linker -> a request of backfill_link_agents
    scanned,    \* history: the blocks the last transfer scan passed without a failed query
    held        \* history: pairs of an agent and a wallet it had

chainVars == <<head, mined>>
tableVars == <<stored, rows>>
histVars == <<scanned, held>>
vars == <<head, mined, wallets, stored, rows, rt, bf, req, link, scanned, held>>

Idle == [pc |-> "idle"]

\* A dict wallet -> agent, and the blocks behind the realtime worker's zone.
Maps == [Wallet -> Agent \cup {NoAgent}]
Settled == FirstBlock .. (head - RealtimeChunk)

TypeOK ==
    /\ head \in 0 .. MaxBlock
    /\ mined \in Chains
    /\ wallets \in [Agent -> Wallet \cup {NoWallet}]
    /\ stored \in [Transfer -> Agent \cup {NoAgent, Unstored}]
    /\ rows \in [Event -> 0 .. MaxRows]
    /\ rt \in {Idle} \cup [pc : {"planned"}, from : 1 .. head, to : 1 .. head, map : Maps]
    /\ bf \in {Idle} \cup [pc : {"transfers", "events"}, from : Settled, to : Settled, map : Maps]
    /\ req \in [Block -> {"none", "transfers", "events", "answered", "failed"}]
    /\ link \in [Linker -> {Idle} \cup [pc : {"read"}, map : Maps, todo : SUBSET Transfer]]
    /\ scanned \subseteq Block
    /\ held \subseteq Agent \X Wallet

Init ==
    /\ head = 0
    /\ mined \in Chains
    /\ \E w \in Wallet : wallets = [a \in Agent |-> IF a \in Dirty THEN w ELSE NoWallet]
    /\ stored = [t \in Transfer |-> Unstored]
    /\ rows = [e \in Event |-> 0]
    /\ rt = Idle
    /\ bf = Idle
    /\ req = [b \in Block |-> "none"]
    /\ link = [l \in Linker |-> Idle]
    /\ scanned = {}
    /\ held = {<<a, wallets[a]>> : a \in Dirty}

\* Bound: a writer starts only while fewer than MaxBusy are at work.
MayStart ==
    Cardinality({b \in Block : req[b] \in {"transfers", "events"}})
      + Cardinality({l \in Linker : link[l].pc # "idle"})
      + (IF rt.pc # "idle" THEN 1 ELSE 0) + (IF bf.pc # "idle" THEN 1 ELSE 0) < MaxBusy

-----------------------------------------------------------------------------
(* The surroundings: the chain and the agent sync.                         *)

ProduceBlock ==
    /\ head < MaxBlock
    /\ head' = head + 1
    /\ UNCHANGED <<mined, wallets, tableVars, rt, bf, req, link, histVars>>

\* The agent sync upserts agent_wallet as it came from upstream; the rows
\* with an odd spelling are old ones.
SyncWallet(a, w) ==
    /\ a \notin Dirty
    /\ wallets[a] # w
    /\ wallets' = [wallets EXCEPT ![a] = w]
    /\ held' = IF w = NoWallet THEN held ELSE held \cup {<<a, w>>}
    /\ UNCHANGED <<chainVars, tableVars, rt, bf, req, link, scanned>>

-----------------------------------------------------------------------------
(* What the writers share.                                                 *)

\* The agents a wallet resolves to: resolve_wallet_to_agent canonicalises
\* the column, the endpoints only lower-case it.
CanonHolders == [w \in Wallet |-> {a \in Agent : wallets[a] = w}]
LowerHolders == [w \in Wallet |-> CanonHolders[w] \ Dirty]

\* The dict wallet -> agent: of two holders the last row of the query wins,
\* and the query has no ORDER BY.
WalletMaps(holders) ==
    {m \in Maps :
        \A w \in Wallet : IF holders[w] = {} THEN m[w] = NoAgent ELSE m[w] \in holders[w]}

\* The scan loops: batches of at most `range' blocks from `from' to `to'.
\* A batch is named by its first block.
BatchStartsShort(from, to, range) == {b \in from .. to - 1 : (b - from) % range = 0}   \* mutant: the loop ends before the last block

BatchStarts(from, to, range) == {b \in from .. to : (b - from) % range = 0}

BatchBlocks(b, to, range) ==
    b .. (IF b + range - 1 <= to THEN b + range - 1 ELSE to)

\* The blocks whose logs a scan gets back when the queries of the batches
\* in `failed' are answered with anything but a list.
ScannedBlocks(from, to, range, failed) ==
    UNION {BatchBlocks(b, to, range) : b \in BatchStarts(from, to, range) \ failed}

LogsIn(S, blocks) == {x \in S : mined[x] <= head /\ mined[x] \in blocks}

\* INSERT ... ON CONFLICT DO NOTHING of the found transfers, each linked to
\* the agent of its recipient.
WithTransfersUpdating(found, map) ==   \* mutant: the conflict updates the link
    [t \in Transfer |-> IF t \in found THEN map[Recipient[t]] ELSE stored[t]]

WithTransfersDefault(found, map) ==   \* mutant: an unknown recipient gets some agent
    [t \in Transfer |->
        IF t \in found /\ stored[t] = Unstored
        THEN IF map[Recipient[t]] = NoAgent THEN CHOOSE a \in Agent : a \notin Dirty
             ELSE map[Recipient[t]]
        ELSE stored[t]]

WithTransfers(found, map) ==
    [t \in Transfer |->
        IF t \in found /\ stored[t] = Unstored THEN map[Recipient[t]] ELSE stored[t]]

\* The same statement on onchain_agent_events, which has no unique key but
\* its id: every scan of an event adds a row.
WithEvents(found) ==
    [e \in Event |-> IF e \in found /\ rows[e] < MaxRows THEN rows[e] + 1 ELSE rows[e]]

StoredBlocks == {mined[t] : t \in {u \in Transfer : stored[u] # Unstored}}
EventBlocks == {mined[e] : e \in {f \in Event : rows[f] > 0}}

-----------------------------------------------------------------------------
(* Realtime worker.                                                        *)

\* SELECT COALESCE(MAX(block_number), 0) FROM onchain_transfers
IsLastBlock(n) ==
    IF StoredBlocks = {} THEN n = 0
    ELSE n \in StoredBlocks /\ \A b \in StoredBlocks : b <= n

\* The first block after the newest row; the chain head minus one chunk on
\* an empty table, and when the worker is too far behind the head.
RealtimeFrom(last) ==
    LET next == IF last = 0 THEN head - RealtimeChunk ELSE last + 1
    IN  IF head - next > RealtimeRange * 2 THEN head - RealtimeChunk ELSE next

CaughtUp(last) == last # 0 /\ head - (last + 1) <= 0

RealtimeTo(from) ==
    IF from + RealtimeChunk - 1 <= head THEN from + RealtimeChunk - 1 ELSE head

\* Head, newest row and wallet map, read one after the other.  The head of
\* the real chain is far beyond one chunk.
PlanRealtime ==
    /\ rt.pc = "idle" /\ MayStart
    /\ head > RealtimeChunk
    /\ \E last \in 0 .. head, m \in WalletMaps(CanonHolders) :
           /\ IsLastBlock(last)
           /\ ~CaughtUp(last)
           /\ rt' = [pc |-> "planned", from |-> RealtimeFrom(last),
                     to |-> RealtimeTo(RealtimeFrom(last)), map |-> m]
    /\ UNCHANGED <<chainVars, wallets, tableVars, bf, req, link, histVars>>

\* _scan_and_store: the transfer query, the event query, and one commit for
\* the rows of both.  A chunk fits into the provider's range, so each is one
\* call; a call without a result counts as no logs.
ScanAndCommit(gotTransfers, gotEvents) ==
    LET blocks == ScannedBlocks(rt.from, rt.to, RealtimeRange, {})
    IN  /\ rt.pc = "planned"
        /\ stored' = IF gotTransfers
                     THEN WithTransfers(LogsIn(Transfer, blocks), rt.map) ELSE stored
        /\ rows' = IF gotEvents THEN WithEvents(LogsIn(Event, blocks)) ELSE rows
        /\ scanned' = IF gotTransfers THEN rt.from .. rt.to ELSE {}
        /\ rt' = Idle
        /\ UNCHANGED <<chainVars, wallets, bf, req, link, held>>

\* An exception in the cycle (a database error, a log that does not parse)
\* rolls the session back; the loop goes on after the interval.
RealtimeFails ==
    /\ rt.pc = "planned"
    /\ rt' = Idle
    /\ UNCHANGED <<chainVars, wallets, tableVars, bf, req, link, histVars>>

-----------------------------------------------------------------------------
(* Backfill worker.                                                        *)

WindowStart == IF head - StartWindow > FirstBlock THEN head - StartWindow ELSE FirstBlock
Window == WindowStart .. (head - RealtimeChunk)

Covered == (StoredBlocks \cup EventBlocks) \cap Window

\* A start the sampler can pick.  It gives up after fifty covered picks, so
\* a cycle may also end without one.
SampleStarts == IF Cardinality(Window) <= Cardinality(Covered) THEN {} ELSE Window \ Covered

BackfillToUnclipped(from) == from + BackfillChunk - 1   \* mutant: the chunk is not clipped

BackfillTo(from) ==
    IF from + BackfillChunk - 1 <= head - RealtimeChunk
    THEN from + BackfillChunk - 1 ELSE head - RealtimeChunk

PlanBackfill ==
    /\ bf.pc = "idle" /\ MayStart
    /\ \E b \in SampleStarts, m \in WalletMaps(CanonHolders) :
           bf' = [pc |-> "transfers", from |-> b,
                  to |-> BackfillTo(b), map |-> m]
    /\ UNCHANGED <<chainVars, wallets, tableVars, rt, req, link, histVars>>

\* All batches of the transfer scan and their commit.  The blocks are in the
\* past, so what the queries return does not depend on when they are sent.
BackfillTransfers(failed) ==
    /\ bf.pc = "transfers"
    /\ stored' = WithTransfers(
                     LogsIn(Transfer, ScannedBlocks(bf.from, bf.to, BackfillRange, failed)), bf.map)
    /\ scanned' = {b \in bf.from .. bf.to :
                      \A f \in failed : b \notin BatchBlocks(f, bf.to, BackfillRange)}
    /\ bf' = [bf EXCEPT !.pc = "events"]
    /\ UNCHANGED <<chainVars, wallets, rows, rt, req, link, held>>

\* The events have a commit of their own, and an exception among them is
\* swallowed: the cycle then ends without their rows.
BackfillEvents(failed) ==
    /\ bf.pc = "events"
    /\ \E raised \in BOOLEAN :
           rows' = IF raised THEN rows
                   ELSE WithEvents(
                       LogsIn(Event, ScannedBlocks(bf.from, bf.to, BackfillRange, failed)))
    /\ bf' = Idle
    /\ UNCHANGED <<chainVars, wallets, stored, rt, req, link, histVars>>

BackfillFails ==
    /\ bf.pc = "transfers"
    /\ bf' = Idle
    /\ UNCHANGED <<chainVars, wallets, tableVars, rt, req, link, histVars>>

-----------------------------------------------------------------------------
(* GET /api/onchain/index/{block_number}: a request per block at a time.   *)

StartIndexBlock(b) ==
    /\ req[b] = "none" /\ MayStart
    /\ req' = [req EXCEPT ![b] = "transfers"]

\* Wallet map, log query and the first commit.  A wallet that changes between
\* the first two could as well change after them.  A body that holds no list
\* of logs (an error body of the provider) counts as no logs.
IndexTransfers(b, ok) ==
    /\ req[b] = "transfers"
    /\ \E m \in WalletMaps(LowerHolders) :
           stored' = IF ok THEN WithTransfers(LogsIn(Transfer, {b}), m) ELSE stored
    /\ scanned' = IF ok /\ b <= head THEN {b} ELSE {}
    /\ req' = [req EXCEPT ![b] = "events"]
    /\ UNCHANGED <<chainVars, wallets, rows, rt, bf, link, held>>

IndexEvents(b, ok) ==
    /\ req[b] = "events"
    /\ rows' = IF ok THEN WithEvents(LogsIn(Event, {b})) ELSE rows
    /\ req' = [req EXCEPT ![b] = "answered"]
    /\ UNCHANGED <<chainVars, wallets, stored, rt, bf, link, histVars>>

\* A connection or decoding error is an internal error of the request; what
\* the first session committed stays.
IndexFails(b) ==
    /\ req[b] \in {"transfers", "events"}
    /\ req' = [req EXCEPT ![b] = "failed"]
    /\ UNCHANGED <<chainVars, wallets, tableVars, rt, bf, link, histVars>>

-----------------------------------------------------------------------------
(* GET /api/onchain/backfill-link-agents.                                  *)

ReadUnlinked(l) ==
    /\ link[l].pc = "idle" /\ MayStart
    /\ \E m \in WalletMaps(LowerHolders) :
           link' = [link EXCEPT ![l] =
                       [pc |-> "read", map |-> m,
                        todo |-> {t \in Transfer : stored[t] = NoAgent}]]
    /\ UNCHANGED <<chainVars, wallets, tableVars, rt, bf, req, histVars>>

\* The updates are by id alone: a row linked since the read is overwritten.
WriteLinks(l) ==
    /\ link[l].pc = "read"
    /\ stored' = [t \in Transfer |->
                     IF t \in link[l].todo /\ link[l].map[Recipient[t]] # NoAgent
                     THEN link[l].map[Recipient[t]] ELSE stored[t]]
    /\ link' = [link EXCEPT ![l] = Idle]
    /\ UNCHANGED <<chainVars, wallets, rows, rt, bf, req, histVars>>

-----------------------------------------------------------------------------
\* The process ends and starts again: open sessions are rolled back, open
\* requests are cut off.
Restart ==
    /\ rt' = Idle
    /\ bf' = Idle
    /\ req' = [b \in Block |-> IF req[b] = "none" THEN "none" ELSE "failed"]
    /\ link' = [l \in Linker |-> Idle]
    /\ UNCHANGED <<chainVars, wallets, tableVars, histVars>>

Realtime ==
    \/ PlanRealtime
    \/ \E gotTransfers, gotEvents \in BOOLEAN : ScanAndCommit(gotTransfers, gotEvents)
    \/ RealtimeFails

Backfill ==
    \/ PlanBackfill
    \/ /\ bf # Idle
       /\ \E failed \in SUBSET BatchStarts(bf.from, bf.to, BackfillRange) :
              BackfillTransfers(failed) \/ BackfillEvents(failed)
    \/ BackfillFails

\* The two workers the web process runs side by side.
RunIndexerLoop == Realtime \/ Backfill

IndexBlock ==
    \E b \in Block :
        \/ \E ok \in BOOLEAN : IndexTransfers(b, ok) \/ IndexEvents(b, ok)
        \/ IndexFails(b)

LinkAgents == \E l \in Linker : ReadUnlinked(l) \/ WriteLinks(l)

Next ==
    \/ ProduceBlock
    \/ \E a \in Agent, w \in Wallet \cup {NoWallet} : SyncWallet(a, w)
    \/ RunIndexerLoop
    \/ IndexBlock
    \/ LinkAgents
    \/ Restart
==============================================================================
