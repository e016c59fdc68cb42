------------------------------ MODULE UsedBlocks ------------------------------
(***************************************************************************)
(* scripts/random_indexer.py next to the indexer it drives: it draws       *)
(* blocks that are not in its own SQLite table used_blocks, marks them     *)
(* pending and requests index_block for one after the other.  A script     *)
(* that is stopped leaves its table behind.                                *)
(***************************************************************************)
EXTENDS Indexer

CONSTANTS
    Range,      \* --from .. --to
    Count       \* --count

ASSUME ScriptAssumption == Range \subseteq Block /\ Count \in Nat \ {0}

VARIABLES
    ledger,     \* Range -> the status of its row in used_blocks, "none" without one
    script      \* queue: blocks picked and not requested yet;
                \* waiting: the block whose answer it waits for, 0 if none

scriptVars == <<ledger, script>>
allVars == <<vars, scriptVars>>

ScriptTypeOK ==
    /\ ledger \in [Range -> {"none", "pending", "used", "error"}]
    /\ script \in [queue : SUBSET Range, waiting : Range \cup {0}]

ScriptInit ==
    /\ ledger = [b \in Range |-> "none"]
    /\ script = [queue |-> {}, waiting |-> 0]

ScriptIdle == script.queue = {} /\ script.waiting = 0

\* pick_random_blocks: blocks without a row, whatever the status of a row is.
AvailableUnlessUsed == {b \in Range : ledger[b] # "used"}   \* mutant: unanswered blocks are free again

Available == {b \in Range : ledger[b] = "none"}

PickSize == IF Count <= Cardinality(Available) THEN Count ELSE Cardinality(Available)

Marked(S) == [b \in Range |-> IF b \in S THEN "pending" ELSE ledger[b]]

\* The picked blocks are committed as pending before the first request, one
\* after the other.
PickBlocks ==
    /\ ScriptIdle
    /\ Available # {}
    /\ \E S \in SUBSET Available :
           /\ Cardinality(S) = PickSize
           /\ ledger' = Marked(S)
           /\ script' = [script EXCEPT !.queue = S]
    /\ UNCHANGED vars

\* The script is stopped among these commits.
StopMarking ==
    /\ ScriptIdle
    /\ \E S \in SUBSET Available :
           /\ Cardinality(S) \in 1 .. PickSize
           /\ ledger' = Marked(S)
    /\ UNCHANGED <<vars, script>>

\* for block in sorted(blocks)
RequestBlock ==
    /\ script.waiting = 0
    /\ \E b \in script.queue :
           /\ \A other \in script.queue : b <= other
           /\ StartIndexBlock(b)
           /\ script' = [queue |-> script.queue \ {b}, waiting |-> b]
    /\ UNCHANGED <<ledger, chainVars, wallets, tableVars, rt, bf, link, histVars>>

\* An answer without "error" is used, an error body or a refused connection
\* is error.
TakeAnswer ==
    LET b == script.waiting
    IN  /\ b # 0
        /\ req[b] \in {"answered", "failed"}
        /\ ledger' = [ledger EXCEPT ![b] = IF req[b] = "answered" THEN "used" ELSE "error"]
        /\ script' = [script EXCEPT !.waiting = 0]
        /\ req' = [req EXCEPT ![b] = "none"]
        /\ UNCHANGED <<chainVars, wallets, tableVars, rt, bf, link, histVars>>

\* The request takes longer than TIMEOUT; the server goes on with it.
RequestTimesOut ==
    /\ script.waiting # 0
    /\ ledger' = [ledger EXCEPT ![script.waiting] = "error"]
    /\ script' = [script EXCEPT !.waiting = 0]
    /\ UNCHANGED vars

\* Nobody reads the answer of a request that was given up.
DropAnswer(b) ==
    /\ req[b] \in {"answered", "failed"}
    /\ script.waiting # b
    /\ req' = [req EXCEPT ![b] = "none"]
    /\ UNCHANGED <<chainVars, wallets, tableVars, rt, bf, link, histVars, scriptVars>>

\* KeyboardInterrupt, or the end of the process in any other way.
StopScript ==
    /\ ~ScriptIdle
    /\ script' = [queue |-> {}, waiting |-> 0]
    /\ UNCHANGED <<vars, ledger>>

\* --reset
ResetLedger ==
    /\ ScriptIdle
    /\ ledger' = [b \in Range |-> "none"]
    /\ UNCHANGED <<vars, script>>

ScriptNext ==
    \/ PickBlocks
    \/ StopMarking
    \/ RequestBlock
    \/ TakeAnswer
    \/ RequestTimesOut
    \/ \E b \in Block : DropAnswer(b)
    \/ StopScript
    \/ ResetLedger

AllInit == Init /\ ScriptInit
AllNext == (Next /\ UNCHANGED scriptVars) \/ ScriptNext

Spec == AllInit /\ [][AllNext]_allVars

-----------------------------------------------------------------------------
(* Properties.                                                             *)

\* Type invariant of the index and of the script's table.  A planned chunk
\* lies on the chain, and one of the backfill behind the realtime worker's
\* zone, however far the head has moved since.
AllTypeOK == TypeOK /\ ScriptTypeOK

\* A block that a scan passed without a failed query has all its transfers
\* in the table: the windows, the batches of the two scanners and their
\* clipping at the end of a range leave out no block, and no stop of a cycle
\* between scan and commit counts as scanned.
ScannedBlocksAreStored ==
    \A t \in Transfer : mined[t] \in scanned => stored[t] # Unstored

\* A link of a stored transfer, made by whichever writer from a wallet map
\* that may be out of date, names an agent that did have the wallet.
LinksAreHonest ==
    \A t \in Transfer : stored[t] \in Agent => <<stored[t], Recipient[t]>> \in held

\* The index is a ledger: see IndexLedger.
Ledger == INSTANCE IndexLedger WITH
    onChain <- {x \in Log : mined[x] <= head},
    transfers <- stored,
    events <- {e \in Event : rows[e] > 0}

ImplementsIndexLedger == Ledger!Spec

\* The ledger of the script: until it is reset, an answered block keeps its
\* status, and only the run that picked a block settles it.  A stopped run
\* leaves its blocks pending for good.
SettledBlocksRest ==
    [][\A b \in Range :
          /\ ledger[b] \in {"used", "error"} => ledger'[b] \in {ledger[b], "none"}
          /\ ledger[b] = "pending" /\ b \notin script.queue \cup {script.waiting}
                => ledger'[b] \in {"pending", "none"}]_allVars

-----------------------------------------------------------------------------
(* Why they hold: the invariant the proofs use.                            *)

\* A row is there for a log of the chain only.
RowsAreOnChain ==
    /\ \A t \in Transfer : stored[t] # Unstored => mined[t] <= head
    /\ \A e \in Event : rows[e] > 0 => mined[e] <= head

\* Wallets are held, and a map in use, however old, names pairs that were.
Honest(map) == \A w \in Wallet : map[w] \in Agent => <<map[w], w>> \in held
MapsAreHonest ==
    /\ \A a \in Agent : wallets[a] # NoWallet => <<a, wallets[a]>> \in held
    /\ rt # Idle => Honest(rt.map)
    /\ bf # Idle => Honest(bf.map)
    /\ \A l \in Linker : link[l] # Idle => Honest(link[l].map)

\* The link endpoint has read rows, and rows stay.
TodoIsStored ==
    \A l \in Linker : link[l] # Idle => \A t \in link[l].todo : stored[t] # Unstored

\* What the script has still to ask and to be told is pending in its table.
QueueIsPending ==
    /\ \A b \in script.queue : ledger[b] = "pending"
    /\ script.waiting # 0 => ledger[script.waiting] = "pending"
    /\ script.waiting \notin script.queue

IInv ==
    /\ AllTypeOK
    /\ ScannedBlocksAreStored /\ RowsAreOnChain
    /\ LinksAreHonest /\ MapsAreHonest
    /\ TodoIsStored /\ QueueIsPending
==============================================================================
