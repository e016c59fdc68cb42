----------------------------- MODULE EscrowHire -----------------------------
(***************************************************************************)
(* The escrow hire: POST /api/hires/escrow inserts a pending row and arms  *)
(* the calls; the browser signs approve, createJob, registerJob, setBudget *)
(* and fund, one popup after the other, waiting only for createJob to be   *)
(* mined; POST /api/hires/escrow/{id}/submit links the row to the job.     *)
(*                                                                         *)
(* The wallet's transactions are mined in the order they were signed. The  *)
(* submit handler reads its row and commits in a later step, so submissions*)
(* interleave; the server never looks at the chain.                        *)
(***************************************************************************)
EXTENDS Naturals, Sequences, FiniteSets

CONSTANTS
    Users,       \* wallet addresses with a session, the owners of rows
    Wallets,     \* accounts a browser's wallet can sign with
    Hires,       \* primary keys of hired_agents
    Jobs,        \* job ids of the commerce contract
    Tabs,        \* open pages that can run the hire dialog
    Reqs,        \* submit requests the server can hold at once
    Budgets,     \* budgets a form may ask for
    Balance,     \* $U each account owns at the start
    OneTab,      \* TRUE: a wallet runs one dialog at a time
    Serial,      \* hires whose client never has two submit requests open
    AnyClient,   \* TRUE: a client may also submit a job id of its own choice
    MaxFails,    \* bound: transactions the wallet cancels or that run out of gas
    None         \* null

\* A row and, though it is no column, the account the row's one dialog signs
\* with: the one selected in the browser's wallet, which nobody compares with
\* the owner's address.
Row == [owner: Users, signer: Wallets, budget: Budgets]
Submission == [hire: Hires, job: Jobs, tx: Jobs]
Job == [client: Wallets, hire: Hires, policy: BOOLEAN, budget: Nat, funded: BOOLEAN]

ASSUME EscrowConstants ==
    /\ Budgets \subseteq Nat \ {0}
    /\ Balance \in Nat
    /\ OneTab \in BOOLEAN
    /\ Serial \subseteq Hires
    /\ AnyClient \in BOOLEAN
    /\ MaxFails \in Nat
    /\ None \notin Row \cup Submission \cup Job \cup Hires \cup Jobs

SwappedStage ==   \* mutant: fund is signed before setBudget
    [approve |-> "createJob", createJob |-> "waiting", registerJob |-> "fund",
     fund |-> "setBudget", setBudget |-> "submit"]

EarlyStage ==   \* mutant: the dialog reports its job when fund is still to be signed
    [approve |-> "createJob", createJob |-> "waiting", registerJob |-> "setBudget",
     setBudget |-> "submit", fund |-> "submit"]

\* What a dialog does after each signature. A stage is named for the popup the
\* dialog shows next; "waiting" is for the createJob receipt.
NextStage ==
    [approve |-> "createJob", createJob |-> "waiting", registerJob |-> "setBudget",
     setBudget |-> "fund", fund |-> "submit"]

Call == {"approve", "createJob", "registerJob", "setBudget", "fund"}
Stage == Call \cup {"idle", "waiting", "submit"}
WalletTx == [call: Call, hire: Hires, job: Jobs \cup {None}]

VARIABLES
    row,         \* hired_agents.address, budget_wei of rail erc8183; who signs for it
    status,      \* hired_agents.status; "absent" before the row exists
    jobId,       \* hired_agents.job_id
    txHash,      \* hired_agents.tx_hash: a createJob hash, named by its job
    stage,       \* where each page's dialog is
    hire,        \* the hire a dialog works on
    myJob,       \* the job id a dialog read from the receipt
    ask,         \* the payload of each submit request between read and commit
    seen,        \* the row's job_id and tx_hash as that request read them
    queue,       \* each wallet's sent transactions, in account order
    job,         \* the jobs of the commerce contract
    allowance,   \* $U the commerce contract may pull from each wallet
    balance,     \* $U each account owns
    fails        \* history: transactions that failed on the wallet's side

table   == <<row, status, jobId, txHash>>
dialog  == <<stage, hire, myJob>>
request == <<ask, seen>>
chain   == <<queue, job, allowance, balance>>
vars == <<table, dialog, request, chain, fails>>

\* Columns, dialogs, requests and contract state hold values of their kind: no
\* submission without a job id, no allowance or balance below zero.
TypeOK ==
    /\ row \in [Hires -> Row \cup {None}]
    /\ status \in [Hires -> {"absent", "pending", "paid"}]
    /\ jobId \in [Hires -> Jobs \cup {None}]
    /\ txHash \in [Hires -> Jobs \cup {None}]
    /\ stage \in [Tabs -> Stage]
    /\ hire \in [Tabs -> Hires \cup {None}]
    /\ myJob \in [Tabs -> Jobs \cup {None}]
    /\ ask \in [Reqs -> Submission \cup {None}]
    /\ seen \in [Reqs -> [job: Jobs \cup {None}, tx: Jobs \cup {None}]]
    /\ queue \in [Wallets -> Seq(WalletTx)]
    /\ job \in [Jobs -> Job \cup {None}]
    /\ allowance \in [Wallets -> Nat]
    /\ balance \in [Wallets -> Nat]
    /\ fails \in 0..MaxFails

Nothing == [job |-> None, tx |-> None]

Init ==
    /\ row = [h \in Hires |-> None]
    /\ status = [h \in Hires |-> "absent"]
    /\ jobId = [h \in Hires |-> None]
    /\ txHash = [h \in Hires |-> None]
    /\ stage = [t \in Tabs |-> "idle"]
    /\ hire = [t \in Tabs |-> None]
    /\ myJob = [t \in Tabs |-> None]
    /\ ask = [r \in Reqs |-> None]
    /\ seen = [r \in Reqs |-> Nothing]
    /\ queue = [u \in Wallets |-> <<>>]
    /\ job = [j \in Jobs |-> None]
    /\ allowance = [u \in Wallets |-> 0]
    /\ balance = [u \in Wallets |-> Balance]
    /\ fails = 0

-----------------------------------------------------------------------------
(* The dialog and POST /api/hires/escrow                                   *)

\* create_escrow_hire inserts the row of owner o before any transaction is
\* signed; the dialog takes the wallet's selected account u as its signer and
\* goes on to its first popup.
CreateEscrowHire(t, o, u, h, b) ==
    /\ stage[t] = "idle"
    /\ row[h] = None
    /\ OneTab => \A s \in Tabs : stage[s] # "idle" => row[hire[s]].signer # u
    /\ row' = [row EXCEPT ![h] = [owner |-> o, signer |-> u, budget |-> b]]
    /\ status' = [status EXCEPT ![h] = "pending"]
    /\ stage' = [stage EXCEPT ![t] = "approve"]
    /\ hire' = [hire EXCEPT ![t] = h]
    /\ UNCHANGED <<jobId, txHash, myJob, request, chain, fails>>

\* The popup is confirmed: the signer's wallet sends the transaction and the
\* dialog goes on without waiting for it.
Sign(t) ==
    /\ stage[t] \in Call
    /\ queue' = [queue EXCEPT ![row[hire[t]].signer] =
                   Append(@, [call |-> stage[t], hire |-> hire[t], job |-> myJob[t]])]
    /\ stage' = [stage EXCEPT ![t] = NextStage[stage[t]]]
    /\ UNCHANGED <<table, hire, myJob, request, job, allowance, balance, fails>>

ReceiptJobsOfWallet(t) ==   \* mutant: any job of the wallet, not the receipt's
    {j \in Jobs : job[j] # None /\ job[j].client = row[hire[t]].signer}

\* The job id in the JobCreated log of the dialog's own createJob receipt.
ReceiptJobs(t) == {j \in Jobs : job[j] # None /\ job[j].hire = hire[t]}

JobMined(t) ==
    /\ stage[t] = "waiting"
    /\ \E j \in ReceiptJobs(t) : myJob' = [myJob EXCEPT ![t] = j]
    /\ stage' = [stage EXCEPT ![t] = "registerJob"]
    /\ UNCHANGED <<table, hire, request, chain, fails>>

\* A rejected popup, a failed wait or fetch, or the page is closed: the dialog
\* shows the error and is ready for a new start, with a new row.
GiveUp(t) ==
    /\ stage[t] # "idle"
    /\ stage' = [stage EXCEPT ![t] = "idle"]
    /\ hire' = [hire EXCEPT ![t] = None]
    /\ myJob' = [myJob EXCEPT ![t] = None]
    /\ UNCHANGED <<table, request, chain, fails>>

-----------------------------------------------------------------------------
(* POST /api/hires/escrow/{id}/submit                                      *)

LinkableAgain(h, j) ==   \* mutant: a recorded job id is not compared
    row[h] # None /\ status[h] \in {"pending", "paid"}

\* The row can take this job id: it has none yet, or the same.
Linkable(h, j) ==
    /\ row[h] # None
    /\ status[h] \in {"pending", "paid"}
    /\ jobId[h] \in {None, j}

\* The handler reads the row and checks it; a refusal changes nothing.
ReadRow(r, h, j, x) ==
    /\ ask[r] = None
    /\ h \in Serial => \A q \in Reqs : ask[q] # None => ask[q].hire # h
    /\ Linkable(h, j)
    /\ ask' = [ask EXCEPT ![r] = [hire |-> h, job |-> j, tx |-> x]]
    /\ seen' = [seen EXCEPT ![r] = [job |-> jobId[h], tx |-> txHash[h]]]

\* The dialog reports its job and the hash of its createJob transaction.
SubmitFromDialog(t, r) ==
    /\ stage[t] = "submit"
    /\ ReadRow(r, hire[t], myJob[t], myJob[t])
    /\ stage' = [stage EXCEPT ![t] = "idle"]
    /\ hire' = [hire EXCEPT ![t] = None]
    /\ myJob' = [myJob EXCEPT ![t] = None]
    /\ UNCHANGED <<table, chain, fails>>

\* Another client of the owner submits ids of its own.
SubmitFromClient(r, h, j, x) ==
    /\ AnyClient
    /\ ReadRow(r, h, j, x)
    /\ UNCHANGED <<table, dialog, chain, fails>>

\* The unique index on (address, job_id).
IndexAllows(h, j) ==
    \A g \in Hires \ {h} : row[g] # None /\ jobId[g] = j => row[g].owner # row[h].owner

\* The commit: UPDATE by primary key of the columns that differ from what was
\* read; the row's current job id is not looked at again.
CommitLink(r) ==
    /\ ask[r] # None
    /\ LET a == ask[r] IN
        /\ IndexAllows(a.hire, a.job)
        /\ jobId' = IF seen[r].job = a.job THEN jobId
                    ELSE [jobId EXCEPT ![a.hire] = a.job]
        /\ txHash' = IF seen[r].tx = a.tx THEN txHash
                     ELSE [txHash EXCEPT ![a.hire] = a.tx]
        /\ status' = [status EXCEPT ![a.hire] = "paid"]
    /\ ask' = [ask EXCEPT ![r] = None]
    /\ seen' = [seen EXCEPT ![r] = Nothing]
    /\ UNCHANGED <<row, dialog, chain, fails>>

\* The commit fails, on the index or otherwise, or the process dies.
LoseRequest(r) ==
    /\ ask[r] # None
    /\ ask' = [ask EXCEPT ![r] = None]
    /\ seen' = [seen EXCEPT ![r] = Nothing]
    /\ UNCHANGED <<table, dialog, chain, fails>>

-----------------------------------------------------------------------------
(* The wallet and the contracts                                            *)

NextTx(u, call) == queue[u] # <<>> /\ Head(queue[u]).call = call

Mined(u) == queue' = [queue EXCEPT ![u] = Tail(@)]

\* ERC-20 approve: the allowance is set, not added to.
MineApprove(u) ==
    /\ NextTx(u, "approve")
    /\ Mined(u)
    /\ allowance' = [allowance EXCEPT ![u] = row[Head(queue[u]).hire].budget]
    /\ UNCHANGED <<table, dialog, request, job, balance, fails>>

MineCreateJob(u) ==
    /\ NextTx(u, "createJob")
    /\ Mined(u)
    /\ \E j \in Jobs :
         /\ job[j] = None
         /\ job' = [job EXCEPT ![j] = [client |-> u, hire |-> Head(queue[u]).hire,
                                       policy |-> FALSE, budget |-> 0, funded |-> FALSE]]
    /\ UNCHANGED <<table, dialog, request, allowance, balance, fails>>

MineRegisterJob(u) ==
    /\ NextTx(u, "registerJob")
    /\ Mined(u)
    /\ job' = [job EXCEPT ![Head(queue[u]).job].policy = TRUE]
    /\ UNCHANGED <<table, dialog, request, allowance, balance, fails>>

MineSetBudget(u) ==
    /\ NextTx(u, "setBudget")
    /\ Mined(u)
    /\ job' = [job EXCEPT ![Head(queue[u]).job].budget = row[Head(queue[u]).hire].budget]
    /\ UNCHANGED <<table, dialog, request, allowance, balance, fails>>

\* fund reverts with PolicyNotSet, ZeroBudget, a budget other than the expected
\* one, or an ERC-20 transfer that is not covered.
Covered(u) ==
    LET tx == Head(queue[u]) IN
    /\ job[tx.job].policy
    /\ job[tx.job].budget = row[tx.hire].budget
    /\ row[tx.hire].budget <= allowance[u]
    /\ row[tx.hire].budget <= balance[u]

MineFund(u) ==
    /\ NextTx(u, "fund")
    /\ Covered(u)
    /\ Mined(u)
    /\ job' = [job EXCEPT ![Head(queue[u]).job].funded = TRUE]
    /\ allowance' = [allowance EXCEPT ![u] = @ - row[Head(queue[u]).hire].budget]
    /\ balance' = [balance EXCEPT ![u] = @ - row[Head(queue[u]).hire].budget]
    /\ UNCHANGED <<table, dialog, request, fails>>

FundReverts(u) ==
    /\ NextTx(u, "fund")
    /\ ~Covered(u)
    /\ Mined(u)
    /\ UNCHANGED <<table, dialog, request, job, allowance, balance, fails>>

\* The signer cancels the transaction in the wallet, or it runs out of gas.
TxFails(u) ==
    /\ fails < MaxFails
    /\ fails' = fails + 1
    /\ queue[u] # <<>>
    /\ Mined(u)
    /\ UNCHANGED <<table, dialog, request, job, allowance, balance>>

-----------------------------------------------------------------------------
Dialog(t) ==
    \/ \E o \in Users, u \in Wallets, h \in Hires, b \in Budgets :
         CreateEscrowHire(t, o, u, h, b)
    \/ Sign(t) \/ JobMined(t) \/ GiveUp(t)
    \/ \E r \in Reqs : SubmitFromDialog(t, r)

Submit(r) ==
    \/ \E h \in Hires, j, x \in Jobs : SubmitFromClient(r, h, j, x)
    \/ CommitLink(r) \/ LoseRequest(r)

Mine(u) ==
    \/ MineApprove(u) \/ MineCreateJob(u) \/ MineRegisterJob(u) \/ MineSetBudget(u)
    \/ MineFund(u) \/ FundReverts(u) \/ TxFails(u)

Next ==
    \/ \E t \in Tabs : Dialog(t)
    \/ \E r \in Reqs : Submit(r)
    \/ \E u \in Wallets : Mine(u)

Spec == Init /\ [][Next]_vars

-----------------------------------------------------------------------------
(* Properties                                                              *)

\* The job of a hire whose submissions come one after the other, once recorded,
\* is never replaced by another, whatever else of the wallet overlaps with them.
SerialLinkIsFinal ==
    [][\A h \in Serial : jobId[h] # None => jobId'[h] = jobId[h]]_vars

\* A paid row is linked to the job its own dialog created, and records that
\* job's createJob transaction, even when several dialogs sign with one account
\* at once and are abandoned and restarted.
PaidRowHasOwnJob ==
    \A h \in Hires : status[h] = "paid" =>
        /\ jobId[h] # None
        /\ job[jobId[h]] # None
        /\ job[jobId[h]].hire = h
        /\ txHash[h] = jobId[h]

\* When the signer's transactions are mined, a paid row's job holds its budget:
\* registerJob, setBudget and the approval took effect before fund, whichever
\* account signed them.
PaidIsFunded ==
    \A h \in Hires : (status[h] = "paid" /\ queue[row[h].signer] = <<>>) =>
        job[jobId[h]].funded /\ job[jobId[h]].budget = row[h].budget

-----------------------------------------------------------------------------
(* The inductive invariant behind the properties                           *)

\* A row is pending until it is linked; an open dialog has a row, and from the
\* third popup on the job its own createJob opened.
DialogInv ==
    /\ \A h \in Hires : /\ (status[h] = "absent") <=> (row[h] = None)
                        /\ (status[h] = "paid") <=> (jobId[h] # None)
    /\ \A t \in Tabs : stage[t] # "idle" => hire[t] \in Hires /\ row[hire[t]] # None
    /\ \A t \in Tabs : stage[t] \in {"registerJob", "setBudget", "fund", "submit"} =>
          myJob[t] \in Jobs /\ job[myJob[t]] # None /\ job[myJob[t]].hire = hire[t]

\* What a wallet sent is for a row it signs for and, after createJob, for a job
\* that exists; a job belongs to the wallet that signed for its row.
ChainInv ==
    /\ \A u \in Wallets : \A i \in 1..Len(queue[u]) :
          /\ row[queue[u][i].hire] # None
          /\ row[queue[u][i].hire].signer = u
          /\ queue[u][i].call \in {"registerJob", "setBudget", "fund"} =>
               queue[u][i].job \in Jobs /\ job[queue[u][i].job] # None
    /\ \A j \in Jobs : job[j] # None =>
          row[job[j].hire] # None /\ job[j].client = row[job[j].hire].signer

\* An open submission is for a row that exists, and a job id once read from the
\* row means that the row is still linked.
RequestInv ==
    \A r \in Reqs : ask[r] # None =>
        /\ row[ask[r].hire] # None
        /\ seen[r].job # None => jobId[ask[r].hire] # None

\* When only dialogs submit, jobs go to the rows they were created for.
LinkInv ==
    ~AnyClient =>
    /\ \A r \in Reqs : ask[r] # None =>
          /\ job[ask[r].job] # None
          /\ job[ask[r].job].hire = ask[r].hire
          /\ ask[r].tx = ask[r].job
          /\ seen[r].tx = seen[r].job
    /\ \A h \in Hires : txHash[h] = jobId[h]
    /\ \A h \in Hires : jobId[h] # None =>
          job[jobId[h]] # None /\ job[jobId[h]].hire = h

\* The wallets of PaidIsFunded: one dialog at a time, no transaction cancelled,
\* and enough $U for every hire.
Orderly ==
    /\ OneTab /\ ~AnyClient /\ MaxFails = 0
    /\ IsFiniteSet(Hires) /\ \A b \in Budgets : b * Cardinality(Hires) <= Balance

\* The popup before a stage.
Earlier ==
    [createJob |-> "approve", waiting |-> "createJob", registerJob |-> "createJob",
     setBudget |-> "registerJob", fund |-> "setBudget"]

\* What a call finds done when it is the next one to be mined.
Prepared(u, call, h, j) ==
    /\ call # "approve" => allowance[u] = row[h].budget
    /\ call \in {"setBudget", "fund"} => job[j].policy
    /\ call = "fund" => job[j].budget = row[h].budget

\* A call at place i of a queue: the dialog's call before it has just been
\* mined, or stands right before it.
InTurn(u, i, call, h, j) ==
    /\ i = 1 => Prepared(u, call, h, j)
    /\ i # 1 /\ call # "approve" =>
          /\ queue[u][i - 1].call = Earlier[call]
          /\ queue[u][i - 1].hire = h
          /\ call \in {"setBudget", "fund"} => queue[u][i - 1].job = j

\* A wallet's calls stand in the order of the popups, one hire after the other,
\* and the open dialog's next call goes on from the last of them.
OrderInv ==
    /\ \A s, t \in Tabs :
          stage[s] # "idle" /\ stage[t] # "idle" /\ row[hire[s]].signer = row[hire[t]].signer
             => s = t
    /\ \A u \in Wallets : \A i \in 1..Len(queue[u]) :
          LET tx == queue[u][i] IN
          /\ InTurn(u, i, tx.call, tx.hire, tx.job)
          /\ tx.call \in {"registerJob", "setBudget", "fund"} => job[tx.job].hire = tx.hire
    /\ \A t \in Tabs : stage[t] \in Stage \ {"idle", "approve", "submit"} =>
          LET u == row[hire[t]].signer IN
          InTurn(u, Len(queue[u]) + 1, stage[t], hire[t], myJob[t])

\* The hires that have taken their budget from a wallet.
Spent(u) ==
    {h \in Hires : /\ row[h] # None /\ row[h].signer = u
                   /\ \E j \in Jobs : job[j] # None /\ job[j].hire = h /\ job[j].funded}

\* Each hire is funded once: not again while its fund call is queued or its
\* dialog has not signed it, so what is left covers all the others.
OnceInv ==
    /\ \A u \in Wallets : \A i \in 1..Len(queue[u]) : queue[u][i].call = "fund" =>
          /\ queue[u][i].hire \notin Spent(u)
          /\ \A k \in 1..Len(queue[u]) :
                queue[u][k].call = "fund" /\ queue[u][k].hire = queue[u][i].hire => k = i
    /\ \A t \in Tabs : stage[t] \notin {"idle", "submit"} =>
          LET u == row[hire[t]].signer IN
          /\ hire[t] \notin Spent(u)
          /\ \A i \in 1..Len(queue[u]) :
                queue[u][i].call = "fund" => queue[u][i].hire # hire[t]
    /\ \A u \in Wallets, b \in Budgets : b * Cardinality(Hires \ Spent(u)) <= balance[u]

\* The job a finished dialog reports holds the budget, or its fund call is queued.
Settled(h, j) ==
    \/ job[j].funded /\ job[j].budget = row[h].budget
    \/ LET q == queue[row[h].signer] IN
       \E i \in 1..Len(q) : q[i] = [call |-> "fund", hire |-> h, job |-> j]

SettledInv ==
    /\ \A t \in Tabs : stage[t] = "submit" => Settled(hire[t], myJob[t])
    /\ \A r \in Reqs : ask[r] # None => Settled(ask[r].hire, ask[r].job)
    /\ \A h \in Hires : jobId[h] # None => Settled(h, jobId[h])

FundInv == Orderly => OrderInv /\ OnceInv /\ SettledInv

\* What rows, dialogs, requests, wallets and jobs keep through every
\* interleaving.
IInv ==
    /\ TypeOK /\ DialogInv /\ ChainInv /\ RequestInv /\ LinkInv /\ FundInv

\* With serial submissions the job id a request read is the row's job id still.
SerialInv ==
    /\ \A r, q \in Reqs :
          (ask[r] # None /\ ask[q] # None /\ ask[r].hire = ask[q].hire
             /\ ask[r].hire \in Serial) => r = q
    /\ \A r \in Reqs : (ask[r] # None /\ ask[r].hire \in Serial) =>
          /\ seen[r].job = jobId[ask[r].hire]
          /\ seen[r].job \in {None, ask[r].job}
=============================================================================
