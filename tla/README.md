# Verification of the BNB agent marketplace

TLA+ models of the marketplace in this repository, the TLC runs that check them
on small instances, and the theorems about them that TLAPS proves for every
value of the constants. Paths are relative to the repository root, line numbers
are those of the files under `src/`.

## 1. The system

A FastAPI application over PostgreSQL lists AI agents of the BNB chain, lets a
wallet sign in, rank, favourite and hire them, and keeps its cache of agents,
reviews, sanctions and on-chain activity fresh with background workers. Every
handler is a coroutine: it can be suspended at each `await` (a query, a commit,
an HTTP call), so requests of one process interleave there. `entrypoint.sh:51`
and the Dockerfile start one uvicorn worker, in whose lifespan the indexer and the
probe loop run; the CLI, the operator scripts and a second web worker
(`db/session.py:25` sizes the pool for two) are further processes on the same
tables. The models of the sync take other processes in; the one probe cycle of
`ProbeRounds` and the `threading.Lock`s of `AgentUpkeep` assume one web process.

| Part | Source | State it keeps | Operations that change it | Module |
|---|---|---|---|---|
| x402 hire | `app/routers/hires.py`, `app/services/payment.py`, `app/static/js/payment.js` | `hired_agents` rows of rail `eip3009`; the facilitator account on chain | create with TTL sweep, sign, pay (verify, nonce, estimate, send, poll, record) | `X402Hire`, `HireLedger` |
| escrow hire | `app/routers/escrow_hires.py`, `app/services/altana_jobs.py`, `app/static/js/escrow.js` | `hired_agents` rows of rail `erc8183`; jobs of the ERC-8183 commerce contract | create, five wallet transactions, submit, status polling | `EscrowHire` |
| sign-in | `app/services/auth.py`, `app/routers/auth.py`, `app/static/js/auth.js` | `auth_nonces`, `users`; signed session cookie, CSRF token | issue nonce, verify signature, log out | `SignIn`, `NonceLedger` |
| agent sync | `app/services/sync_worker.py`, `client_8004scan.py`, `feedback_sync.py`, `app/routers/sync.py`, `app/worker/sync.py` | `agent_cache`, `agent_feedbacks`, `sync_state` | full and incremental run, one-agent sync, walk of the listing, walk of an agent's reviews | `SyncRun`, `UpstreamCrawl` |
| on-chain index | `app/services/onchain_indexer.py`, `app/routers/onchain_stats.py`, `scripts/random_indexer.py` | `onchain_transfers`, `onchain_agent_events`; the script's SQLite table | real-time scan, backfill scan, index one block, link transfers to agents, pick and settle random blocks | `Indexer`, `UsedBlocks`, `IndexLedger` |
| probes and activity score | `app/services/probe_worker.py`, `agent_score.py`, `client_termix.py`, the score endpoint of `app/routers/agents.py` | `agent_probes`, health and score columns | probe cycle, computation of a missing score, orphan clean-up | `ProbeRounds`, `Score` |
| sanctions and compliance | `app/services/flagged_sync.py`, `compliance_refresh.py`, `app/routers/admin.py` | `flagged_addresses`, `agent_compliance_flags`, penalty column | replace one source's addresses, recompute every agent | `AgentUpkeep` |
| categories | `app/services/categories.py`, `reclassify.py`, the post-pass of the sync | category column | classify on sync, reclassify all | `AgentUpkeep`, `Classify` |
| JSON-RPC client | `app/services/rpc_client.py` | failure counters, cool-down clocks | call with fail-over | none, section 6 |
| favourites | `app/routers/favorites.py` | `favorites` | add, remove | none, section 6 |
| reading side | `app/routers/agents.py`, `pages.py`, `payments.py`, `onchain_hires.py`, `wallet_activity.py`, templates | none of its own | queries, HTML | none, section 6 |

What the parts share: the `hired_agents` table (both hire rails and the user's
pages), `agent_cache` (written by sync, probes, score requests, compliance,
reclassification and the clean-up, read by the indexer's links), the chain (the
facilitator account of the x402 rail, the wallets of the escrow rail, the logs
the indexer reads), and the session that the sign-in issues and every
state-changing request needs. Where one part writes what another works on, the
module of the second has the first as an action: `ProbeRounds` and `AgentUpkeep`
have the sync's upsert, `Indexer` its change of a wallet, all three the restart
or failure of everyone involved.

### What is hard in it

* **Settlement across awaits.** `pay_hire` reads its row, suspends in five or
  more JSON-RPC calls, and writes the outcome by primary key. Requests, the TTL
  sweep, lost answers, exhausted polls and crashes all fall in that window.
* **Check-then-write without a lock**: nonces, escrow submissions, lazily
  computed scores, links, categories.
* **Long transactions against each other**: a sync run holds up to a hundred
  agent rows, a probe cycle a chunk of the same, in other orders.
* **Locks that hold in one process, or for one endpoint only**: two sync runs,
  two replacements of one sanction list.
* **Partial failure of a run**: what a killed or failing run has committed, and
  what the next one does about the rest.
* **Walks over what changes**: pages of a listing by number, pages of reviews by
  offset, blocks by cursor and by sampling, while entries come and go.
* **The chain's order**: wallet transactions are sent one after the other
  without waiting, receipts come late.

### What makes each part correct

* x402: a hire is paid only by its own settled transfer, once, and for good; a
  failed or cancelled hire costs nothing; every accepted request is answered.
* escrow: a row is linked to one job, the link never changes, the unique
  index keeps a job with one row, and a paid row has a funded job.
* sign-in: a session rests on a timely nonce of its own address, and a nonce
  opens one session.
* sync: a run ends, what it counts as upserted is kept, a death loses a bounded
  number of upserts, a row never goes back; its walks leave out nothing that was
  there all the time.
* index: a scan leaves out no block of its range, a row is for a log of the
  chain and stays, a link names an agent that had the wallet.
* probes: what an agent shows is its newest probe and the score of that probe,
  agents take turns, a cycle ends.
* sanctions: a source holds a published list, flags are what the lists say,
  penalties are those of the flags. Categories follow what is stored.

## 2. Modules

Each proved component has its theorems in a module of its own
(`X402Hire_proofs`, ...), and each an `MC...` module with the values TLC needs.

### X402Hire: the x402 rail in detail

State: the columns of a `hired_agents` row the rail uses (`status`, `quote` for
address, pay_to, amount, network and challenge_expiry, `txHash`), the signed
EIP-3009 authorizations (`auth`), and for each pay request where its coroutine
is suspended (`pc`) with its locals (`task`, `nonce`, `price`, `polls`,
`sent`). The chain is the facilitator account only: the node's `pool`, mined
transactions with status 1 (`settled`) and 0 (`reverted`), and `chainNonce`.
`sentFor` (what was sent in the name of which hire), `losses` (a count) and
`abandoned` (the hires a lost request was paying) are history.

| Action | Code |
|---|---|
| `CreateHire` | `create_hire` with `sweep_expired` in the same commit |
| `SignPayment` | `signPayment` of `payment.js`, over the challenge of `build_challenge` (`Challenge`) |
| `PayHire` | `pay_hire` up to the first JSON-RPC call: ownership, status, expiry, `decode_envelope`, `verify_payment` |
| `GetNonce`, `EstimateGas`, `SendRaw`, `PollAgain`, `PollSettled` | the awaits of `OnchainBroadcaster.broadcast` and `_wait_for_receipt` |
| `SendRawAnswerLost`, `RpcError`, `BroadcastRefused` | every way it raises `BroadcastFailed` |
| `RecordPaid`, `RecordFailed` | the two commits after it |
| `AnswerNoObject`, `SendRawNoObject` | a JSON body or receipt that is no object: `body.get` (payment.py:497) and `receipt.get` (580) raise an AttributeError that neither payment.py:568-571 nor hires.py:229 catches, so the request is answered 500 and its row stays pending; in the second the node has taken the transaction |
| `Crash` | open requests lost: process or worker death, a failed commit |
| `MineNext`, `Tick` | the chain and the clock |

What an authorization says is kept as who signed which terms for which window;
`Signer` is what `_recover_signer` recovers. Signatures, base64 and EIP-712
hashing are not modelled, so a signature is unforgeable. `Assets` may have the member "none" for an envelope without
`accepted.asset`, which the decoder turns into the zero address; the theorems
hold with it, the runs leave it out for their size.

Assumptions about the node and chain, which are outside the repository: the
node keeps a pending transaction until it is mined or replaced at a higher
price, refuses a known one, and answers for one chain; a transfer with a used
or expired authorization reverts. The facilitator key is configured. The agent
and user rows of a hire are not deleted while a request is open (the foreign
keys cascade).

### HireLedger: the promise

The ledger of hires without requests, nodes and receipts: a hire is opened
once, money moves for it at most once, it is confirmed only after that and then
for good. When the server loses a payment request (`Lose`), the ledger stops
promising one move for that hire, and keeps the rest. `X402Hire` instantiates it
as `Ledger` with `state <- status`, `moved <- {p \in sentFor : p[2] \in settled}`
and `lost <- abandoned`; `ImplementsLedger` is its specification, a property of
`X402Hire`.

A caller that overlaps requests for one hire does not get this ledger
(section 4). `Serial` is a constant so that both worlds are checked with one
module.

### EscrowHire: the escrow rail

State: the columns `address`, `budget_wei`, `status`, `job_id` and `tx_hash` of
a row of rail `erc8183`, and beside them the account its dialog signs with
(`row[h].signer`); each open page's dialog (`stage`, `hire`, `myJob`);
each submit request between its read and its commit (`ask`, and what it read,
`seen`); each wallet's sent transactions (`queue`), the jobs of the commerce
contract, and the $U `allowance` and `balance`.

| Action | Code |
|---|---|
| `CreateEscrowHire` | `create_escrow_hire`, then the choice of the signer (`getBrowserSigner`, escrow.js:121) and the dialog's first popup |
| `Sign` | one `sendTx` of `escrow.js`: approve, createJob, registerJob, setBudget, fund (`NextStage` is their order) |
| `JobMined` | the only wait, for the createJob receipt and its `JobCreated` log |
| `GiveUp` | a rejected popup, a failed fetch, a closed page |
| `SubmitFromDialog`, `SubmitFromClient` | `submit_escrow_hire` up to its commit |
| `CommitLink`, `LoseRequest` | its commit; a failed commit or a dead process |
| `MineApprove` ... `MineFund`, `FundReverts`, `TxFails` | the chain |

Assumptions about what is outside: a wallet's transactions are mined in the
order they were signed (account nonces); `fund` reverts unless the policy and
the budget are set and the ERC-20 transfer is covered, as the comments and the
ABI in `escrow.js` and `altana_abi.py` have it; a job id comes from a
`JobCreated` log of that transaction. The signer is any account of `Wallets`:
the dialog takes the one selected in the browser (escrow.js:121-128, 241) and
compares it with nothing, so rows of one session address may be paid by different
accounts, and one account may pay for several addresses. It keeps its signer to
the end, as an ethers signer keeps its address. `AnyClient` lets a client other than the
dialog submit any job id: the server does not look at the chain.

### SignIn and NonceLedger: nonces and sessions

State: the row of each address in `auth_nonce` (`nonce`, `used`, `expires`),
the `users` with a row, and for each request its stage and locals. A session is
a signed cookie without state on the server, so a session here is a verification
that was answered. Each request of a behaviour runs once, which makes the
answered requests the history the properties speak of.

| Action | Code |
|---|---|
| `IssueNonce`, `MergeNonce`, `MergeConflict` | `issue_nonce`: the SELECT of `merge`, its write and commit, the IntegrityError of a second first INSERT |
| `VerifySignature` | `verify_signature`: select and checks |
| `LookUpUser` | the autoflush of `used = true`, which takes the row's lock, and the user lookup |
| `OpenSession` | insert or touch of the user, commit, cookie |
| `LoseRequest`, `Tick` | dead requests, the clock |

The database is PostgreSQL at READ COMMITTED: a writer of a row waits for the
transaction that wrote it, readers see what is committed. `NonceLedger` is the
promise: at most one live nonce per wallet, the one issued last, which opens
one session. It holds for the addresses in `Serial`, whose browser waits for an
answer before the next request as `auth.js` does.

### SyncRun: the writes of the agent sync

State: what upstream says (`up`), the version stored of each agent (`rows`),
the `sync_state` row (`failed`, `last`), and for each run its locals (`run`) and
its open transaction (`tx`). Runs are the background task of a server process
(`Api`, one at a time), runs of other processes (the rest of `Batches`), and
requests to the one-agent endpoint (`Singles`).

| Action | Code |
|---|---|
| `StartBatch`, `StartSingle` | `start_sync` or the CLI with `_discover_bsc_token_ids`; `sync_one_agent`, whose steps after that are `SyncAgent` |
| `GetAgent`, `GetAgentFails`, `OtherChain` | the outcomes of `client.get_agent` |
| `Flush`, `UpsertAgent` | the upsert and the autoflush before it |
| `FeedbackDone`, `FeedbackStatementFails` | `sync_agent_feedbacks` inside its `try`; the second is an error raised by the database |
| `LookUpState`, `InsertState`, `InsertConflict` | `_ensure_sync_state` |
| `RecordFailure` | `_record_failure` |
| `Commit`, `Finish` | the commit every `ProgressEvery` upserts or at the last token; the end of `_run_sync` |
| `StatementRefused`, `DeadlockVictim`, `RunDies` | errors nobody catches, and deaths: the session is closed and rolled back |

Two facts about the libraries matter. PostgreSQL aborts a transaction when one
of its statements fails: it refuses the statements after that, and answers a
COMMIT with a rollback and no error. SQLAlchemy 2.0 (2.0.51 in `uv.lock`)
flushes before ORM statements and commits, but not before a `text()` statement,
and `session.get` answers with the object it still holds. Row locks are those
of `agent_cache` and `sync_state`; the rows of `agent_feedbacks` are written
under the lock of their agent's row.

### UpstreamCrawl: the reads of the agent sync

What one run reads of the 8004scan registry while the registry changes. State:
the `listing` and each agent's `reviews` upstream, the rows of `agent_feedbacks`
(`stored`) and the same with the run's open transaction (`session`), and the
run: page, strikes, tries, the entries not yet looked at, what was found, the
agents still to do, the offset in the reviews of the first of them.

| Action | Code |
|---|---|
| `AddAgent`, `RemoveAgent`, `AddReview`, `Revoke` | the registry, external |
| `StartRun` | `sync_incremental`, `sync_full`, `_run_sync` |
| `Retry` | the retry loop of `_request_json`: any `httpx.HTTPError`, whatever its status |
| `ListingPage`, `TakeEntry` | a page of `iter_agents`; one entry of it in `_discover_bsc_token_ids`, with its limit |
| `PageCap`, `ListingMissing` | the page limit; a 404 or an unknown shape |
| `ListingFails` | what `_request_json` raises at last: a rate limit is waited out `MaxStrikes` times per page, then the run goes on with what it has; any other error ends the run |
| `DetailAnswered`, `DetailMissing`, `DetailFails` | `get_agent` and its outcomes in `_enrich_and_upsert` |
| `ReviewsPage`, `ReviewsBare`, `ReviewsRetry`, `ReviewsCut` | `sync_agent_feedbacks`: a page with a total, a bare list, a retry, a walk that ends early and is swallowed |
| `Finish`, `RunDies` | checkpoint and last commit; an error that escapes, a death |

`there` and `owed` are history: what the walks owe the reader. `RemoveAgent`
takes from `there` the one agent that a removal behind the cursor moves over it.
Assumed of the registry: but for insertions and removals the listing keeps its
order, and reviews come newest first. Of its errors, six kinds (`Failure`) are
told apart, because the client, the listing and the enrichment treat them
differently.

### Indexer, UsedBlocks and IndexLedger: the index of the chain

State: `head` and the block of each log (`mined`); `agent_wallet` of each agent;
the rows of `onchain_transfers` with their link (`stored`) and of
`onchain_agent_events` (`rows`, a count, since the table has no unique key); the
two workers, the index-block requests, the link requests with what each has
read; `ledger` and `script`, the SQLite table and the run of the random-block
script. `scanned` and `held` are history.

| Action | Code |
|---|---|
| `ProduceBlock`, `SyncWallet` | the chain; the sync's upsert of a wallet |
| `PlanRealtime`, `ScanAndCommit`, `RealtimeFails` | `_realtime_cycle` (cursor, jump, clipping), `_scan_and_store`, an exception of the cycle |
| `PlanBackfill`, `BackfillTransfers`, `BackfillEvents`, `BackfillFails` | `_backfill_window`, `_pick_sample_start`, the two commits of `_scan_and_store_direct` |
| `StartIndexBlock`, `IndexTransfers`, `IndexEvents`, `IndexFails` | `index_block` and its two commits |
| `ReadUnlinked`, `WriteLinks` | `backfill_link_agents` |
| `Restart` | the process ends with all its open sessions |
| `PickBlocks`, `StopMarking`, `RequestBlock`, `TakeAnswer`, `RequestTimesOut`, `DropAnswer`, `StopScript`, `ResetLedger` | `scripts/random_indexer.py` |

A call that gets no list of logs is answered as no logs, as `get_logs` does it;
the fail-over between the two providers is inside that call. The script commits
each `pending` mark by itself, before its first request and with nobody else at
its table, so the marks are one step (`PickBlocks`), or a part of them when the
script ends there (`StopMarking`). `IndexLedger` is
the promise: a row only for a log on the chain, never removed, and a linked
transfer never unlinked. `UsedBlocks` is the composition of script and index.

### ProbeRounds and Score: probes and the activity score

State: the committed row of each agent (`a2a`, `checked`, `probe`, `score`), the
newest row of `agent_probes` (`last`), the probe cycle and the sync's batch with
what each has written but not committed, and a score request (`ask`). A row that
one of the two transactions has written is locked for the other writers. There is
one probe cycle at a time, the loop that main.py:66-71 starts: with a second web
worker there would be a second loop, and `HealthIsLatestProbe` and
`ProbesTakeTurns` speak of one.

| Action | Code |
|---|---|
| `StartCycle`, `ProbeAgent`, `WriteProbe`, `CommitCycle`, `CycleFails` | `_select_probeable`, `_probe_agent` up to and after its HTTP call, the one commit of `_probe_cycle`, an exception in it |
| `StartBatch`, `UpsertAgent`, `CommitBatch`, `SyncFails` | the sync between two commits, with `_LOCAL_OWNED` (`Upserted`) |
| `AskScore`, `StoreScore`, `AskFails` | `get_agent_score` while the score is NULL |
| `CleanOrphans` | `app/_ops/cleanup_orphans.py` |
| `ResolveDeadlock` | PostgreSQL ends one of two transactions that wait for each other |

`Score` is the arithmetic of `agent_score.py` in whole points with Python's
rounding, the verdict of a probe with its one retry (`Verdict`; a Retry-After
header replaces the wait of 60 s, and the wait counts as latency), and the track
record of an agent's events (`TrackRecord`). `Raises` is the division by zero of
section 4: `WriteProbe` and `StoreScore` need a record that does not raise.

### AgentUpkeep and Classify: sanctions, penalties, categories

State: the rows of `agent_cache` (profile, category, penalty) and
`agent_compliance_flags`, the rows of each source in `flagged_addresses`
(`mirror`), and each request with its locals. `overlapped`, `touched`, `revived`
and `unsorted` are history. The locks of the flagged sync and the
reclassification are `threading.Lock`s, modelled as those of the one web process;
no property rests on them, since the compliance endpoint takes none.

| Action | Code |
|---|---|
| `StartFlagged`, `StartRefresh`, `StartReclassify` | the endpoints, each with its lock or without one |
| `FetchList`, `DeleteRows`, `InsertRows`, `InsertConflicts` | `refresh_flagged_addresses` and `_replace_source`, with the waits of DELETE and INSERT at READ COMMITTED |
| `ReadAgents`, `StoreFlags` | `refresh_agent_compliance_flags`: lists and agents, then one transaction |
| `UpdateCategories` | one batch of `reclassify_cached_agents` |
| `JobFails` | a failed fetch, a lost database, the end of the process |
| `SyncAgent`, `CleanOrphans` | the sync's upsert with `_maybe_enrich_category`; the clean-up |

`Classify` keeps the order in which `compute_category` tries its stages and, in
each, its hints; what the word lists make of a text is an input, the set of
categories with a hint in it.

## 3. Runs

| Run | Instance | Shows |
|---|---|---|
| `X402Concurrent` | 1 user, 2 hires, 2 terms, 1 authorization, 2 requests, 1 loss, clock to 3 | the inductive invariant `IInv`, `PaidIsSettled`, `OneTransferPaysOneHire` under overlap, sweep and loss |
| `X402Serial` | 1 user, 2 hires, 1 terms, 2 authorizations, one request at a time, 2 polls, 1 loss, clock to 3, fairness | `HireSettledOnce` for the hires without a lost request, `PaidStaysPaid`, the refinement `ImplementsLedger`, `PayIsAnswered` |
| `X402DoubleSettlement` | 2 overlapping requests, no loss | violates `HireSettledOnce` (section 4) |
| `EscrowClients` | 1 wallet, 2 hires, 2 jobs, 1 page, 2 requests, any client, 1 failed transaction; submissions for `h1` serial | `SerialLinkIsFinal` |
| `EscrowDialogs` | 1 session address, 2 accounts to sign with, 3 hires, 3 jobs, 2 pages of which an account runs one dialog at a time, 2 budgets | `IInv` (with what it says of orderly wallets, `FundInv`), `PaidRowHasOwnJob`, `PaidIsFunded` |
| `SignIn` | a serial address and one that overlaps, 3 nonces, 5 requests, TTL 1, clock to 1 | `IInv`, `SessionIsTimely`, `LookupIsCurrent`, `SerialIssueSucceeds`, `SerialNonceOpensOneSession`, the refinement `ImplementsNonceLedger` |
| `SyncOverlap` | runs of two processes over 2 agents in either order, fairness | `IInv`, `RunEnds` |
| `SyncSingle` | runs of one process beside the one-agent endpoint, listings that repeat an agent, 2 upstream versions | `CleanUpsertsAreKept`, `LossIsBounded`, `RowsAdvance` |
| `Crawl` | 2 BSC agents, a foreign one, 2 reviews of one agent of which the first may be revoked, pages of 1, at most 3 pages, 2 tries, 1 strike, fairness | `IInv`, `CrawlEnds` |
| `Index` | 1 transfer, 1 event in either order, 5 blocks, 2 agents of which one has an odd wallet spelling, 2 writers at a time, a script over one block | `IInv`, `ScannedBlocksAreStored`, `LinksAreHonest`, `SettledBlocksRest`, the refinement `ImplementsIndexLedger` |
| `Probes` | 2 agents, chunks of 1 or 2, 2 cycles, batches up to 2 agents, 2 writers at a time, fairness | `IInv`, `HealthIsLatestProbe`, `ScoreFollowsProbe`, `ProbesTakeTurns`, `CycleEnds` |
| `Upkeep` | 1 agent with 3 profiles, 2 requests, 2 sources, one of them with two lists, 2 spellings of one address | `IInv`, `PenaltyMatchesFlags`, `MirrorIsPublished`, `FlagsAreCurrent`, `CategoryFollowsSignals` |

`IInv` is the inductive invariant of section 5, checked before it was proved; the
type invariant is its first conjunct.

Bounds. Two requests, submissions, dialogs, runs or writers are the fewest that
overlap, and every conflict in the code is between two; a third adds no new kind
of step.

* x402: two authorizations let one hire settle twice, one authorization for two
  hires lets a transfer be shared. With `Timeout = 1` and the clock to 3 a
  challenge is made, lapses and is swept while its request runs. One poll is
  enough for a receipt to be late. `MaxLosses` bounds the events that lose
  requests, a crash or an answer that is no object. `X402Serial` has one request
  at a time, and requests still meet in the node: a transaction whose answer was
  lost or whose polls ran out is pending while the next hire is paid with the
  same nonce. Requests that are open together are in `X402Concurrent`, and in
  the theorems of section 5 for a serial caller as well.
* escrow: two jobs and two rows are the fewest that can be confused, and with a
  third and a second account a queue can hold the calls of one hire while another
  is funded. The balance covers every budget, so that what can go wrong is the
  order and the allowance.
* sign-in: three nonces and five requests allow issue, verify, a newer issue in
  between and a second verification of the same nonce. A TTL of 1 expires
  within the clock.
* sync: two agents, `ProgressEvery = 2` and a cap of 1 or 2 make commit, cap and
  loss happen within one run; the listing `<<1, 2, 1>>` is what discovery
  returns when a new agent shifts the pages under it.
* crawl: pages of one entry put every change of the registry between two pages;
  a foreign agent, an insertion that repeats an entry and a limit of 3 let a
  listing end by its limit, by an empty page and by the page limit of 3. Two
  reviews are enough for one to be pushed onto the next page. The theorems hold
  for every page size, limit and registry.
* index: five blocks hold a real-time zone of 1 behind the head, a backfill
  window in front of it and a chunk of 2 that is clipped at its end; with one
  transfer and one event in two blocks a scan can find one, the other, both or
  neither. `MaxRows` is 1: the properties ask whether an event has a row.
  `MaxBusy` bounds the writers at work together.
* probes: two agents and chunks of one are the fewest that take turns, chunks of
  two the fewest that deadlock; each cycle has one of the two, as a restart with
  another setting could make it. Two cycles show an agent probed again before
  the one that waits. One verdict for each agent is enough, because the time of
  a probe tells it from others: an agent that answers and one that throttles and
  then times out. Activity is none, or a sale of today, which raises.
  `MaxCycle`, `MaxBatch` and `MaxBusy` are bounds.
* upkeep: its properties speak of one agent at a time, and the jobs of two
  agents do not touch, so one agent is checked; its batches are then of one.
  The three profiles change wallets and signals, and between them leave a
  category to the default.

Deadlock is not checked: with the clock at its bound, all rows made or all
requests run, these systems are quiet. That runs and cycles do not wait on each
other for ever is `RunEnds` and `CycleEnds`.

Fairness. `X402Hire!FairSpec` has weak fairness of the steps the event loop
takes for an open request (`Handle`), because every RPC call has a client
timeout of 15 s and every sleep ends. `SyncRun!FairSpec` has strong fairness of
the same kind of steps, because a run that waits for a row lock is enabled only
between the transactions of others, and PostgreSQL hands locks out in the order
they were asked for. `ProbeRounds!Spec` is weakly fair to the steps of cycle and
sync and to the deadlock detector, and strongly fair to `Write`, the one step
that waits for a row, for the same reason. `UpstreamCrawl!Spec` is weakly fair to
the run: every GET has a timeout and every wait ends. Nothing is assumed of
clients, chain, registry, clock or faults, and the other specifications state no
fairness.

## 4. Findings

What the run marked as a violation shows, where the code disagrees with a test of
its own:

* `X402DoubleSettlement`: the status check of `pay_hire` (hires.py:175) and the
  status writes (hires.py:230 and 235) are separated by the settlement, with no lock
  and no conditional update, so two overlapping requests with different
  authorizations both settle. The test at tests/test_api_hires_pay.py:222
  promises a 409 and no second broadcast, and only tries it one after the other.
  For the same reason a broadcast can happen for a hire that is already failed
  or cancelled, which the docstring at hires.py:166 excludes.

Seen while modelling, without a run of their own. Hires and sign-in:

* An answer of the node that is no JSON object, or such a receipt, ends a payment
  with a 500 and leaves the row pending, also when the node has the transaction
  (payment.py:497, 580); the docstrings at payment.py:486 and hires.py:166-168 have
  every bad answer flip the hire to failed. A retry then settles a second time,
  which is why `HireSettledOnce` leaves out the hires of lost requests.
* The escrow dialog signs with whatever account is selected in the browser
  (escrow.js:121-128, 241). Nothing compares it with the session address, so the
  client of a job need not be the owner of the row that names it.
* A second dialog of the same wallet sets the same allowance again
  (escrow.js:245), so one `fund` can revert, and its row is paid all the same
  (`PaidIsFunded` fails with `OneTab = FALSE`); escrow.js:311 says fund succeeds
  at that point. A submission that fails after `fund` (escrow.js:323) leaves the
  budget in escrow for a job no row names. A row whose dialog was abandoned
  stays pending: the TTL sweep passes over rows without a challenge
  (escrow_hires.py:141).
* An envelope without `accepted.asset` is settled by a call to the zero address,
  which succeeds and moves nothing (payment.py:291, 407, 537). A price of 10^20
  wei or more does not fit the 20 integer digits of `amount` (hires.py:127,
  hired_agent.py:69): the request is answered 500.
* `submit_escrow_hire` compares the job id it read (escrow_hires.py:221) and
  writes by primary key (227), so the second of two overlapping submissions
  replaces the first's job; its docstring (211) and README.md:428 promise a 409 on
  overwrite. This is the overlap `SerialLinkIsFinal` leaves out.
* Two overlapping verifications of one nonce both read it unused (auth.py:134);
  the row lock delays the second but does not make it look again, and both open
  a session. auth.py:81 and README.md:28 call the nonce single-use. This is the
  overlap `SerialNonceOpensOneSession` leaves out.
* `verify_signature` marks the row used whichever nonce it holds by then, so a
  nonce issued during a verification can be used up unseen; two first requests of
  an address make one of them a 500.

Agent sync:

* The `except Exception` around the feedback sync
  (sync_worker.py:499) keeps the run going, but a database error (a NUL byte in a
  comment, a tag longer than its column) has aborted the transaction. If the next
  thing the run does is a commit, everything upserted since the last one is rolled
  back and the run reports success; otherwise the next statement ends the run. The
  comment at sync_worker.py:490 and the log line at 501 say the agent row is kept;
  the test at tests/test_feedback_sync.py:289 only tries a failed HTTP request.
  `CleanUpsertsAreKept` is about runs without such an error.
* Of two failures with no upsert between them only the second is stored, because
  the first is an unflushed assignment that the `text()` SELECT at
  sync_worker.py:118 does not see. The docstring at 113 says "append",
  README.md:218 a FIFO of 1000.
* Nothing reads the checkpoint (sync_worker.py:582) back, so an incremental run
  always takes the first 100 agents of the listing; sync_worker.py:55-57 expects
  full coverage over many runs, the CLI help and README.md:209 a resume.
* A 403 of an exhausted quota is recognised and retried
  (client_8004scan.py:235-249, 362) but then raised as an HTTPStatusError, which
  neither `iter_agents` nor `_enrich_and_upsert` catches: the run dies where a
  429 is waited out. So do timeouts of a connect or a write, which are no
  ConnectError. The comment at client_8004scan.py:366 says other 4xx surface as
  they are; they are retried like the rest, since the retry looks at the type of
  the exception only.
* Reviews that arrive as a bare list are taken for all there are
  (feedback_sync.py:122-123): the walk ends after the first hundred.

On-chain index:

* The module says that overlapping ranges leave no duplicates
  (onchain_indexer.py:18-19); `onchain_agent_events` has no key but its id, so
  `ON CONFLICT DO NOTHING` (365) never meets a conflict.
* The cursor is the newest block with a transfer (onchain_indexer.py:684): on an
  idle chain the same 75 blocks are scanned again and again until the worker is
  200 blocks behind, and then it jumps. The backfill and the block endpoint move
  it over blocks nobody scanned. An error body counts as no logs (196).
* `scripts/backfill_link_agents.py:103-114` puts a `where` behind
  `on_conflict_do_update`, which belongs to no INSERT: on PostgreSQL the script
  ends with an error before it writes.

Probes, score, sanctions, the rest:

* `agent_score.py:107` divides by the whole days since the latest event, which
  is zero for an event of the last 24 hours. The probe cycle ends there, is
  rolled back, and the next cycle takes the same agents first.
* `client_termix.py:159-161` never raises, its docstring says, and retries a 429
  only; it retries every httpx error, and one that is neither a timeout nor a
  network error (a RemoteProtocolError) ends the cycle.
* A request that computes a missing score writes by key what it read before
  (agents.py:394-401), and may replace a newer score of a probe cycle.
* "DELETE-then-INSERT makes the mirror convergent" (flagged_sync.py:105) fails for
  overlapping replacements, which leave the union of two lists or end with an
  IntegrityError: the compliance endpoint takes no lock. `MirrorIsPublished` is
  about the other ones.
* `agent_compliance_flags.agent_id` is no foreign key. The flags of a deleted
  agent stay, and when it comes back its penalty is 0 until the next refresh.
  `POST /api/sync/flagged` changes the lists and not the flags. All agents go
  into one INSERT of eight columns each (compliance_refresh.py:140), too many
  parameters above 4095 agents.
* The sync leaves an agent's category alone when its class is rebalancing or
  other (sync_worker.py:386): a class that becomes one of these keeps the old
  category until a reclassification.
* The cool-down of a provider is not cleared by a success (rpc_client.py:125).
  A repeated POST of a favourite meets `scalar_one` on no row (favorites.py:84).

## 5. Proofs

TLAPS checks the eight proof modules for every value of the constants that
satisfies the assumption named in the component's module. Each follows one
pattern: `IInv` is a conjunction of named parts, one lemma shows that a step
keeps each part, lemmas such as `WriteOnce` or `RequestsMove` collect what every
step leaves true, and the theorems follow from `Spec => []IInv`. What bounds a
run only (`MaxTime`, `MaxLosses`, `MaxBlock`, `MaxCycle`, `MaxBusy`, ...) is an
arbitrary number in the proofs.

`X402Hire_proofs` (`ConstantsAssumption`):

* `Invariance`: `Spec => []IInv`. `PaidIsSettled` is not inductive: it needs to
  know that what an open request polls for was sent for its own hire and still
  matches it (`TaskInv`, `SettleInv`). `OneTransferPaysOneHire` needs that the
  node never takes one transaction twice: a nonce once used is mined or held by
  a pending transaction of at least that price (`PoolInv`).
* `TypeCorrect`, `PaidHiresAreSettled`, `TransfersPayOneHire` follow from it.
* For serial callers `SerialInv` is invariant: a hire has one open request, which
  finds the row pending or swept, and unless a request of the hire was lost, what
  was sent for it belongs to that request or to the outcome on the row. It gives
  `SerialHiresSettleOnce`, `SerialPaidIsFinal` and the refinement
  `LedgerImplemented` (mining is the ledger's `Move`, a loss its `Lose`), lost
  requests included.

`EscrowHire_proofs` (`EscrowConstants`):

* `Invariance`, with what an open dialog and a wallet's queue refer to
  (`DialogInv`, `ChainInv`).
* `PaidRowsOwnTheirJobs`: when only dialogs submit, the job id of a row, of an
  open submission and of a dialog is the job created for that row (`LinkInv`), whatever
  accounts sign.
* `PaidJobsAreFunded`: in an orderly world (`Orderly`: an account runs one dialog
  at a time, only dialogs submit, no transaction is cancelled in the wallet, and
  the wallet's balance covers every budget for every hire) a paid row has a job
  that holds its budget. The dialog reports the job when it has signed `fund`,
  not when `fund` is mined, so the invariant is about what is still queued.
  `OrderInv`: the calls of a wallet stand in the order of the popups, and each
  finds what the one before it did when its turn comes (`Earlier`, `Prepared`,
  `InTurn`), so no `fund` meets another hire's allowance. `OnceInv`: no hire is
  funded twice, so what is left of the balance covers all the others, whatever
  their budgets (`FundCovered`, by counting). `SettledInv`: the job a dialog, a
  request or a row names is funded, or its `fund` is queued. Without `OneTab`
  TLC finds the counterexample of section 4.
* `SerialLinksAreFinal`: for hires whose submissions do not overlap, what a
  request read of `job_id` is the row's job id still (`SerialInv`).

`SignIn_proofs` (`SignInConstants`):

* `Invariance`, `TypeCorrect`, and from it `SessionsAreTimely` (a verification
  past its checks keeps the request that issued its nonce, even when the row is
  rewritten) and `LookupsAreCurrent` (only a verification of the same address
  can insert the user, and it would need the row's lock).
* For the serial addresses `SerialInv`: what the one open request has read of
  its row is still true, and the nonce of a session is used up or replaced. It
  gives `SerialNoncesOpenOneSession`, `SerialIssuesSucceed`, and the refinement
  `NonceLedgerImplemented`.

`SyncRun_proofs` (`SyncConstants`): one lemma per kind of step says what becomes
of the run, its transaction and the tables (`StartShape` ... `CommitShape`), and
the parts of the invariant follow from those.

* `Invariance`: `RunInv` ties a run's stage to its locals and makes an aborted
  transaction empty, `LockInv` says that the locks exclude, `KeptInv` that an
  upsert is in the transaction until it is counted, `CountInv` that a run has no
  more open upserts than it counted since the last multiple of `ProgressEvery`,
  `VersionInv` that what is fetched or uncommitted is no older than what is
  stored as long as runs do not overlap.
* `TypeCorrect`, `CleanUpsertsKept`, `LossesAreBounded` (with the arithmetic of
  `%` in `Remainder`) and `RowsNeverGoBack` follow from it.

`UpstreamCrawl_proofs` (`CrawlAssumption`):

* `Invariance`. `NothingHidden`: what a walk of the listing has to find is found,
  in the page at hand, or listed beyond the cursor. `ReviewsMirrored`: what a
  walk of reviews owes is in the session, at least as new, or listed beyond the
  offset. The lemmas `Insertion`, `Removal`, `Push` and `Paging` say what one
  change of a sequence does to its entries beyond a place, and what a page takes
  of them; with them each action has a lemma of its own, and `Death` and
  `CountedStep` serve the actions that end a run or an agent.
* `ListingIsCovered`: a listing that nothing cut short has found every agent
  listed all the time, but for one per removal behind the walk.
  `ReviewsAreCovered`: a walk of reviews that nothing cut short has stored all
  that was there when it began.

`UsedBlocks_proofs` (`IndexerAssumption`, `ScriptAssumption`), about `Indexer` with
the script:

* `BatchesCover`: the batches of a scan leave out no block between its ends,
  whatever the range divides.
* `Invariance`, and from it `ScannedBlocksStored` and `LinksStayHonest`. A link
  is written from a map that was read earlier, perhaps before the agent changed
  its wallet: `MapsAreHonest` says that each map in use, however old, names
  pairs that were held. `RowsAreOnChain` and `TodoIsStored` say that a planned
  scan stays behind the head and that rows stay, and give `LedgerImplemented`,
  the refinement of `IndexLedger`, step by step (`LedgerStep`).
* `SettledStay`: an answered block of the script keeps its status until a reset
  (`QueueIsPending`).

`ProbeRounds_proofs` (`RoundsAssumption`, `NoneAssumption`), about `Score` too:

* `ScoreBound`: every score is between 0 and 100, through the nested roundings
  of the pillars (`RoundBound`), for every probe and every track record that
  does not raise.
* `Invariance`, and from it `HealthStaysLatest` and `ScoresFollow`. What a row
  shows of a probe is committed with the row of `agent_probes`, but the UPDATE
  may miss an agent that was deleted, and a deleted agent may come back before
  the commit: `GotInv` says what the row looks like in each case, `OwnProbes`
  that nobody is shown with another's probe.
* `TurnsAreTaken`: `ClockInv` and `TurnInv` say that an agent probed while
  another waited has the newer time, and that a cycle that takes it takes the
  other as well, which is what `_select_probeable`'s order by time and its limit
  give (`Selection`).

`AgentUpkeep_proofs` (`UpkeepAssumption`, `NoneAssumption`), about `Classify` too:

* `Invariance`, and from it `PenaltiesMatch`, `MirrorsArePublished`,
  `FlagsStayCurrent` and `CategoriesFollow`. `ReplacementInv` is why a
  replacement that is alone leaves exactly a published list, `NoFormerFlags` why
  only a deleted agent finds flags of a former row, and `FoundInv` and `TodoInv`
  say that what a job computed before its transaction is what it would compute
  now, but for the agents that changed in between.

Only model-checked: `PayIsAnswered`, `RunEnds`, `CrawlEnds` and `CycleEnds`,
which are liveness under fairness and need ENABLED, out of the prover's reach.
Every invariant, action property and refinement of the passing runs is a
theorem; those about serial callers or orderly wallets have that as a
hypothesis, as the runs have it in their constants. No model has a recursive
operator.

## 6. Not modelled, and why

* Pages, listings, JSON schemas, templates and CSS: queries and rendering, which
  change nothing. So are `GET /stats` of the sync and the statistics of the
  index.
* The total score, wallet activity, endpoint resolver and the clients of the
  reading side: stateless functions of one request or one row.
* The JSON-RPC fail-over client: a counter and a clock per provider in memory,
  whose only effect on others is that a call may have no result; every model has
  calls that fail. Favourites: one INSERT and one DELETE of a pair of keys.
* The application shell, migrations, seed and operator scripts: run once, before
  or beside the system. The initial schema gives the models their initial states
  and constraints; the clean-up of orphans is an action of two of them.
* The ABI, EIP-712 and base64 encodings are data the properties do not look
  into. Session cookies and CSRF tokens are functions of the address and a
  secret.
* Times: how long a retry, a poll or a pause waits is left out, except where it
  is stored or compared (a challenge, a nonce, the latency of a probe with its
  Retry-After).
* Columns nobody's property is about: the profile of an agent beyond wallets and
  signals, timestamps of index rows, the merged JSON of `health_status` beyond
  the probe.

## 7. Plan

Done: `X402Hire` and `HireLedger`, `EscrowHire`, `SignIn` and `NonceLedger`,
`SyncRun`, `UpstreamCrawl`, `Indexer`, `UsedBlocks` and `IndexLedger`,
`ProbeRounds` and `Score`, `AgentUpkeep` and `Classify`, all with proofs.

Left, in this order:

1. `PaidIsFunded` for a wallet that may cancel a transaction: which calls of its
   queue a cancelled one takes with it, and what then remains true.
2. The safety half of `RunEnds` and `CycleEnds`: that whoever waits for a row
   waits for somebody who can go on, or is in a deadlock that is resolved.
3. An abstract specification of `SyncRun` and `UpstreamCrawl` as one mirror of
   the registry, with both as its parts.
4. A composition of both hire rails over one table, with the TTL sweep.
