------------------------------ MODULE X402Hire ------------------------------
(***************************************************************************)
(* The x402 hire: POST /api/hires quotes an agent's offer and inserts a    *)
(* pending row; the browser signs an EIP-3009 authorization for the quote; *)
(* POST /api/hires/{id}/pay checks row and envelope, settles through the   *)
(* facilitator account over JSON-RPC and records the outcome.              *)
(*                                                                         *)
(* A pay request reads its row once, BEFORE the settlement, and writes the *)
(* outcome by primary key AFTER it, with five awaits or more in between:   *)
(* every await is a step here, so requests, sweeps, crashes and the chain  *)
(* interleave as they do in the program.                                   *)
(***************************************************************************)
EXTENDS Integers, FiniteSets

CONSTANTS
    Users,       \* wallet addresses with a session
    Hires,       \* primary keys of hired_agents
    Terms,       \* what an offer fixes: chain, payTo and amount in wei
    Auths,       \* 32-byte authorization nonces a wallet may sign with
    Reqs,        \* pay requests the server can hold at once
    Assets,      \* accepted.asset of an envelope: "token", or "none" if absent
    Prices,      \* answers of eth_gasPrice
    Timeout,     \* DEFAULT_TIMEOUT_SECONDS = maxTimeoutSeconds of a challenge
    MaxPolls,    \* receipt polls before the broadcaster gives up
    Serial,      \* TRUE: a caller never has two pay requests open for one hire
    MaxLosses,   \* bound: times that requests are lost in a behaviour
    MaxTime,     \* bound: the clock stops there
    None         \* null

Quote == [owner: Users, terms: Terms, expiry: Nat]
SignedAuth == [by: Users, terms: Terms, after: Int, before: Nat]

\* A facilitator transaction. Its call is transferWithAuthorization with the
\* fields and the signature of one authorization, so the authorization names it.
Tx == [nonce: Nat, price: Prices, auth: Auths, asset: Assets]
Task == [hire: Hires, auth: Auths, asset: Assets]

ASSUME ConstantsAssumption ==
    /\ Assets \subseteq {"token", "none"}
    /\ Prices \subseteq Nat
    /\ Timeout \in Nat \ {0}
    /\ MaxPolls \in Nat \ {0}
    /\ Serial \in BOOLEAN
    /\ MaxLosses \in Nat
    /\ MaxTime \in Nat
    /\ None \notin Quote \cup SignedAuth \cup Tx \cup Task

HiredStatus == {"absent", "pending", "paid", "failed", "cancelled"}

\* Where a pay request is suspended; "settled" and "refused" are the two ways
\* broadcast() ends, before the outcome is committed.
Stage == {"idle", "nonce", "estimate", "send", "poll", "settled", "refused"}

VARIABLES
    now,         \* wall clock, server and chain alike
    status,      \* hired_agents.status; "absent" before the row exists
    quote,       \* hired_agents.address, pay_to, amount, network, challenge_expiry
    txHash,      \* hired_agents.tx_hash
    auth,        \* the authorizations wallets have signed
    pc,          \* stage of each pay request
    task,        \* the hire and the decoded envelope a request works on
    nonce,       \* the facilitator nonce a request read
    price,       \* the gas price a request read
    polls,       \* receipt polls a request has made
    sent,        \* the transaction a request sent
    pool,        \* the node's pending transactions of the facilitator account
    settled,     \* mined transactions with status 1
    reverted,    \* mined transactions with status 0
    chainNonce,  \* the account's mined transaction count
    sentFor,     \* history: which transaction was sent for which hire
    losses,      \* history: how often requests were lost
    abandoned    \* history: the hires a lost request was paying

table  == <<status, quote, txHash>>
request == <<pc, task, nonce, price, polls, sent>>
chain  == <<pool, settled, reverted, chainNonce>>
faults == <<losses, abandoned>>
vars == <<now, table, auth, request, chain, sentFor, faults>>

\* Every column, every request's locals and the node's pool hold values of
\* their kind; the receipt polls of a request never pass the poll limit.
TypeOK ==
    /\ now \in Nat
    /\ status \in [Hires -> HiredStatus]
    /\ quote \in [Hires -> Quote \cup {None}]
    /\ txHash \in [Hires -> Tx \cup {None}]
    /\ auth \in [Auths -> SignedAuth \cup {None}]
    /\ pc \in [Reqs -> Stage]
    /\ task \in [Reqs -> Task \cup {None}]
    /\ nonce \in [Reqs -> Nat]
    /\ price \in [Reqs -> Prices \cup {0}]
    /\ polls \in [Reqs -> 0..MaxPolls]
    /\ sent \in [Reqs -> Tx \cup {None}]
    /\ pool \subseteq Tx
    /\ settled \subseteq Tx
    /\ reverted \subseteq Tx
    /\ chainNonce \in Nat
    /\ sentFor \subseteq Hires \X Tx
    /\ losses \in 0..MaxLosses
    /\ abandoned \subseteq Hires

Init ==
    /\ now = 1
    /\ status = [h \in Hires |-> "absent"]
    /\ quote = [h \in Hires |-> None]
    /\ txHash = [h \in Hires |-> None]
    /\ auth = [a \in Auths |-> None]
    /\ pc = [r \in Reqs |-> "idle"]
    /\ task = [r \in Reqs |-> None]
    /\ nonce = [r \in Reqs |-> 0]
    /\ price = [r \in Reqs |-> 0]
    /\ polls = [r \in Reqs |-> 0]
    /\ sent = [r \in Reqs |-> None]
    /\ pool = {}
    /\ settled = {}
    /\ reverted = {}
    /\ chainNonce = 0
    /\ sentFor = {}
    /\ losses = 0
    /\ abandoned = {}

-----------------------------------------------------------------------------
(* POST /api/hires                                                         *)

SweepAnyLapsed(u) ==   \* mutant: the status filter is missing
    {h \in Hires : /\ status[h] # "absent"
                   /\ quote[h].owner = u
                   /\ quote[h].expiry < now}

\* The rows sweep_expired cancels: the user's pending rows past their expiry.
SweepExpired(u) ==
    {h \in Hires : /\ status[h] = "pending"
                   /\ quote[h].owner = u
                   /\ quote[h].expiry < now}

\* The offer is probed before the transaction; the sweep and the INSERT share
\* one commit.
CreateHire(u, t, h) ==
    /\ status[h] = "absent"
    /\ status' = [g \in Hires |-> IF g = h THEN "pending"
                                  ELSE IF g \in SweepExpired(u) THEN "cancelled"
                                  ELSE status[g]]
    /\ quote' = [quote EXCEPT ![h] = [owner |-> u, terms |-> t,
                                      expiry |-> now + Timeout]]
    /\ UNCHANGED <<now, txHash, auth, request, chain, sentFor, faults>>

\* The 402 challenge answered for a hire: its only accept carries the row's
\* chain with that chain's token, its payTo and amount, and a time to pay.
Challenge(h) == [terms |-> quote[h].terms, maxTimeoutSeconds |-> Timeout]

\* The browser signs the challenge of one of the user's hires with a fresh nonce.
\* payment.js backdates validAfter; another client may start the window now.
SignPayment(h, a) ==
    /\ quote[h] # None
    /\ auth[a] = None
    /\ \E after \in {now - 1, now} :
         auth' = [auth EXCEPT ![a] = [by |-> quote[h].owner,
                                      terms |-> Challenge(h).terms,
                                      after |-> after,
                                      before |-> now + Challenge(h).maxTimeoutSeconds]]
    /\ UNCHANGED <<now, table, request, chain, sentFor, faults>>

-----------------------------------------------------------------------------
(* POST /api/hires/{id}/pay                                                *)

\* Who signed the authorization, recovered from the signature over its typed
\* data; a signature over any other data recovers some other address.
Signer(a) == auth[a].by

\* The authorization was signed by the row's owner for the row's terms.
Matches(a, h) ==
    /\ auth[a] # None
    /\ quote[h] # None
    /\ Signer(a) = quote[h].owner
    /\ auth[a].terms = quote[h].terms

VerifySignerOnly(a, h) ==   \* mutant: amount and payTo are not compared
    /\ auth[a] # None
    /\ Signer(a) = quote[h].owner
    /\ auth[a].before > now
    /\ auth[a].after < now

\* verify_payment: chain, token, amount, payTo, window, signer.
VerifyPayment(a, h) ==
    /\ Matches(a, h)
    /\ auth[a].before > now
    /\ auth[a].after < now

PayableAfterFailure(h) ==   \* mutant: a failed hire may be paid again
    status[h] \in {"pending", "failed"} /\ quote[h].expiry >= now

PayableTwice(h) ==   \* mutant: a paid hire is settled again
    status[h] \in {"pending", "paid"} /\ quote[h].expiry >= now

\* The row is still to be paid: pending, and its challenge has not lapsed.
Payable(h) == status[h] = "pending" /\ quote[h].expiry >= now

\* Everything pay_hire does before its first JSON-RPC call. A caller that is
\* not the owner, a row that is not pending, a lapsed challenge and a bad
\* envelope are refused without any effect, so only the accepted case steps.
PayHire(r, h, a, s) ==
    /\ pc[r] = "idle"
    /\ Serial => \A q \in Reqs : pc[q] # "idle" => task[q].hire # h
    /\ Payable(h)
    /\ VerifyPayment(a, h)
    /\ pc' = [pc EXCEPT ![r] = "nonce"]
    /\ task' = [task EXCEPT ![r] = [hire |-> h, auth |-> a, asset |-> s]]
    /\ UNCHANGED <<now, table, auth, nonce, price, polls, sent, chain, sentFor,
                   faults>>

\* eth_getTransactionCount(facilitator, "latest"): mined transactions only.
GetNonce(r) ==
    /\ pc[r] = "nonce"
    /\ nonce' = [nonce EXCEPT ![r] = chainNonce]
    /\ pc' = [pc EXCEPT ![r] = "estimate"]
    /\ UNCHANGED <<now, table, auth, task, price, polls, sent, chain, sentFor,
                   faults>>

\* transferWithAuthorization succeeds: the nonce is unused and the window open.
\* A call to the zero address (no accepted.asset) runs no code and succeeds.
Executes(a, s) ==
    \/ s = "none"
    \/ /\ \A t \in settled : t.asset = "token" => t.auth # a
       /\ auth[a].after < now
       /\ now < auth[a].before

\* eth_gasPrice then eth_estimateGas, which answers only if the call succeeds.
EstimateGas(r) ==
    /\ pc[r] = "estimate"
    /\ Executes(task[r].auth, task[r].asset)
    /\ \E p \in Prices : price' = [price EXCEPT ![r] = p]
    /\ pc' = [pc EXCEPT ![r] = "send"]
    /\ UNCHANGED <<now, table, auth, task, nonce, polls, sent, chain, sentFor,
                   faults>>

\* The transaction a request signs; equal transactions have equal hashes.
SignedTx(r) == [nonce |-> nonce[r], price |-> price[r],
                auth |-> task[r].auth, asset |-> task[r].asset]

AcceptsKnown(tx) ==   \* mutant: "already known" is taken for success
    /\ tx.nonce >= chainNonce
    /\ \A t \in pool : t.nonce = tx.nonce => t.price < tx.price \/ t = tx

\* The node takes a transaction whose nonce is not mined yet, and only at a
\* higher price when one with that nonce is pending ("already known",
\* "replacement transaction underpriced").
NodeAccepts(tx) ==
    /\ tx.nonce >= chainNonce
    /\ \A t \in pool : t.nonce = tx.nonce => t.price < tx.price

EnterPool(tx, h) ==
    /\ pool' = {t \in pool : t.nonce # tx.nonce} \cup {tx}
    /\ sentFor' = sentFor \cup {<<h, tx>>}

\* eth_sendRawTransaction answers the hash.
SendRaw(r) ==
    /\ pc[r] = "send"
    /\ NodeAccepts(SignedTx(r))
    /\ EnterPool(SignedTx(r), task[r].hire)
    /\ sent' = [sent EXCEPT ![r] = SignedTx(r)]
    /\ pc' = [pc EXCEPT ![r] = "poll"]
    /\ UNCHANGED <<now, table, auth, task, nonce, price, polls, settled,
                   reverted, chainNonce, faults>>

\* The node took the transaction but its answer is lost: BroadcastFailed.
SendRawAnswerLost(r) ==
    /\ pc[r] = "send"
    /\ NodeAccepts(SignedTx(r))
    /\ EnterPool(SignedTx(r), task[r].hire)
    /\ pc' = [pc EXCEPT ![r] = "refused"]
    /\ UNCHANGED <<now, table, auth, task, nonce, price, polls, sent, settled,
                   reverted, chainNonce, faults>>

ReceiptExists(r) == sent[r] \in settled \cup reverted   \* mutant: status ignored

\* The receipt says status 1.
ReceiptOk(r) == sent[r] \in settled

PollsLeft(r) == polls[r] < MaxPolls

PollsForever(r) == FALSE   \* mutant: the loop never gives up

PollsUsedUp(r) == polls[r] = MaxPolls

PollSettled(r) ==
    /\ pc[r] = "poll"
    /\ PollsLeft(r)
    /\ ReceiptOk(r)
    /\ pc' = [pc EXCEPT ![r] = "settled"]
    /\ UNCHANGED <<now, table, auth, task, nonce, price, polls, sent, chain,
                   sentFor, faults>>

\* No receipt yet: sleep and poll again.
PollAgain(r) ==
    /\ pc[r] = "poll"
    /\ sent[r] \notin settled \cup reverted
    /\ PollsLeft(r)
    /\ polls' = [polls EXCEPT ![r] = @ + 1]
    /\ UNCHANGED <<now, table, auth, pc, task, nonce, price, sent, chain,
                   sentFor, faults>>

\* The answers that make the broadcaster raise BroadcastFailed: estimateGas
\* reverts, the node rejects the transaction, the transaction reverted, or the
\* polls are used up.
NodeRefuses(r) ==
    \/ pc[r] = "estimate" /\ ~Executes(task[r].auth, task[r].asset)
    \/ pc[r] = "send" /\ ~NodeAccepts(SignedTx(r))
    \/ pc[r] = "poll" /\ PollsLeft(r) /\ sent[r] \in reverted
    \/ pc[r] = "poll" /\ PollsUsedUp(r)

\* So does a transport error of any of the calls (and an estimate that reverts
\* because the payer is short of tokens).
Refuse(r) ==
    /\ pc' = [pc EXCEPT ![r] = "refused"]
    /\ UNCHANGED <<now, table, auth, task, nonce, price, polls, sent, chain,
                   sentFor, faults>>

BroadcastRefused(r) == NodeRefuses(r) /\ Refuse(r)

\* The stages that wait for an answer of the node.
Calling == {"nonce", "estimate", "send", "poll"}

RpcError(r) == pc[r] \in Calling /\ Refuse(r)

\* Requests end without an outcome: no row is written, what was sent stays sent.
Abandon(lost) ==
    /\ losses < MaxLosses
    /\ losses' = losses + 1
    /\ abandoned' = abandoned \cup {task[r].hire : r \in lost}
    /\ pc' = [r \in Reqs |-> IF r \in lost THEN "idle" ELSE pc[r]]
    /\ task' = [r \in Reqs |-> IF r \in lost THEN None ELSE task[r]]
    /\ nonce' = [r \in Reqs |-> IF r \in lost THEN 0 ELSE nonce[r]]
    /\ price' = [r \in Reqs |-> IF r \in lost THEN 0 ELSE price[r]]
    /\ polls' = [r \in Reqs |-> IF r \in lost THEN 0 ELSE polls[r]]
    /\ sent' = [r \in Reqs |-> IF r \in lost THEN None ELSE sent[r]]
    /\ UNCHANGED <<now, table, auth>>

\* The answer is JSON but no object, or the receipt is not one: .get() raises
\* AttributeError, which neither broadcast() nor pay_hire catches, and the
\* caller gets a 500.
AnswerNoObject(r) ==
    /\ pc[r] \in Calling
    /\ Abandon({r})
    /\ UNCHANGED <<chain, sentFor>>

\* The same to eth_sendRawTransaction, after the node took the transaction.
SendRawNoObject(r) ==
    /\ pc[r] = "send"
    /\ NodeAccepts(SignedTx(r))
    /\ EnterPool(SignedTx(r), task[r].hire)
    /\ Abandon({r})
    /\ UNCHANGED <<settled, reverted, chainNonce>>

\* What the end of a request forgets.
EndRequest(r) ==
    /\ pc' = [pc EXCEPT ![r] = "idle"]
    /\ task' = [task EXCEPT ![r] = None]
    /\ nonce' = [nonce EXCEPT ![r] = 0]
    /\ price' = [price EXCEPT ![r] = 0]
    /\ polls' = [polls EXCEPT ![r] = 0]
    /\ sent' = [sent EXCEPT ![r] = None]

\* UPDATE ... WHERE id: neither write looks at the row's status again.
RecordPaid(r) ==
    /\ pc[r] = "settled"
    /\ status' = [status EXCEPT ![task[r].hire] = "paid"]
    /\ txHash' = [txHash EXCEPT ![task[r].hire] = sent[r]]
    /\ EndRequest(r)
    /\ UNCHANGED <<now, quote, auth, chain, sentFor, faults>>

RecordFailed(r) ==
    /\ pc[r] = "refused"
    /\ status' = [status EXCEPT ![task[r].hire] = "failed"]
    /\ EndRequest(r)
    /\ UNCHANGED <<now, quote, txHash, auth, chain, sentFor, faults>>

-----------------------------------------------------------------------------
(* The world around the handlers                                           *)

\* The process, or one of its workers, dies, or a commit fails.
Crash == \E lost \in SUBSET {r \in Reqs : pc[r] # "idle"} :
            /\ lost # {}
            /\ Abandon(lost)
            /\ UNCHANGED <<chain, sentFor>>

\* The chain mines the account's next transaction. It reverts if the call no
\* longer succeeds, or if the payer is short of tokens.
MineNext(tx) ==
    /\ tx.nonce = chainNonce
    /\ chainNonce' = chainNonce + 1
    /\ pool' = {t \in pool : t.nonce # tx.nonce}
    /\ \/ /\ Executes(tx.auth, tx.asset)
          /\ settled' = settled \cup {tx}
          /\ UNCHANGED reverted
       \/ /\ tx.asset = "token"
          /\ reverted' = reverted \cup {tx}
          /\ UNCHANGED settled
    /\ UNCHANGED <<now, table, auth, request, sentFor, faults>>

Tick ==
    /\ now < MaxTime
    /\ now' = now + 1
    /\ UNCHANGED <<table, auth, request, chain, sentFor, faults>>

-----------------------------------------------------------------------------
\* The steps the event loop takes on its own for an open request.
Handle(r) ==
    \/ GetNonce(r) \/ EstimateGas(r) \/ SendRaw(r)
    \/ PollSettled(r) \/ PollAgain(r) \/ BroadcastRefused(r)
    \/ RecordPaid(r) \/ RecordFailed(r)

Next ==
    \/ \E u \in Users, t \in Terms, h \in Hires : CreateHire(u, t, h)
    \/ \E h \in Hires, a \in Auths : SignPayment(h, a)
    \/ \E r \in Reqs, h \in Hires, a \in Auths, s \in Assets : PayHire(r, h, a, s)
    \/ \E r \in Reqs : Handle(r)
    \/ \E r \in Reqs : SendRawAnswerLost(r) \/ RpcError(r)
    \/ \E r \in Reqs : AnswerNoObject(r) \/ SendRawNoObject(r)
    \/ Crash
    \/ \E tx \in pool : MineNext(tx)
    \/ Tick

Spec == Init /\ [][Next]_vars

\* The event loop resumes every suspended handler; clients, the chain, the
\* clock and faults owe nothing.
FairSpec == Spec /\ \A r \in Reqs : WF_vars(Handle(r))

-----------------------------------------------------------------------------
(* Properties                                                              *)

\* A paid hire names a transaction the chain mined with status 1, and that
\* transaction carries an authorization its owner signed for its quoted terms:
\* no interleaving of requests, sweeps and crashes records a settlement of
\* another hire, another price or another payer.
PaidIsSettled ==
    \A h \in Hires : status[h] = "paid" =>
        /\ txHash[h] \in settled
        /\ Matches(txHash[h].auth, h)

\* Two hires are never paid by one transaction, although an authorization does
\* not name a hire and may be presented for several hires with equal terms.
OneTransferPaysOneHire ==
    \A g, h \in Hires :
        status[g] = "paid" /\ status[h] = "paid" /\ txHash[g] = txHash[h] => g = h

\* The transactions that moved money in the name of a hire.
SettledFor(h) == {t \in settled : <<h, t>> \in sentFor}

\* The money of a hire moves at most once, unless a request that was paying it
\* was lost: then the row is still pending and may be paid again.
HireSettledOnce == \A h \in Hires \ abandoned : \A t, u \in SettledFor(h) : t = u

\* A hire that was paid stays paid, whatever requests were lost before.
PaidStaysPaid == [][\A h \in Hires : status[h] = "paid" => status'[h] = "paid"]_vars

\* Every accepted pay request ends, and then its hire is not pending, or the
\* request was lost: the broadcaster's poll limit ends a request whose
\* transaction never mines.
PayIsAnswered ==
    \A r \in Reqs, h \in Hires :
        (task[r] # None /\ task[r].hire = h)
            ~> (task[r] = None /\ (status[h] # "pending" \/ h \in abandoned))

\* The ledger of hires this system implements when callers are serial: money
\* moves for a hire when a transaction sent in its name is mined with status 1.
Ledger == INSTANCE HireLedger WITH
    state <- status,
    moved <- {p \in sentFor : p[2] \in settled},
    lost <- abandoned

\* A serial caller sees exactly the ledger: no paid hire without a transfer, no
\* paid hire undone, and no second payment but for a hire whose request the
\* server lost.
ImplementsLedger == Ledger!LedgerSpec

-----------------------------------------------------------------------------
(* The inductive invariant behind the properties                           *)

\* A row exists exactly when its quote does; an open request holds a task whose
\* authorization matches its hire; a request about to send has read a price.
TaskInv ==
    /\ \A h \in Hires : status[h] = "absent" <=> quote[h] = None
    /\ \A r \in Reqs : pc[r] # "idle" => /\ task[r] \in Task
                                         /\ Matches(task[r].auth, task[r].hire)
                                         /\ status[task[r].hire] # "absent"
    /\ \A r \in Reqs : pc[r] = "send" => price[r] \in Prices

\* What a request polls for is what was sent for its hire, and what a paid row
\* names was sent for that hire and settled.
SettleInv ==
    /\ \A r \in Reqs : pc[r] \in {"poll", "settled"} =>
          /\ sent[r] \in Tx
          /\ sent[r].auth = task[r].auth
          /\ <<task[r].hire, sent[r]>> \in sentFor
    /\ \A r \in Reqs : pc[r] = "settled" => sent[r] \in settled
    /\ \A h \in Hires : status[h] = "paid" =>
          /\ txHash[h] \in settled
          /\ Matches(txHash[h].auth, h)
          /\ <<h, txHash[h]>> \in sentFor

\* A nonce once used is mined or held by a pending transaction of at least
\* that price, so no transaction is ever accepted twice.
PoolInv ==
    /\ \A p \in sentFor : \/ p[2].nonce < chainNonce
                          \/ \E t \in pool : t.nonce = p[2].nonce /\ p[2].price <= t.price
    /\ \A p, q \in sentFor : p[2] = q[2] => p[1] = q[1]
    /\ \A t \in pool : t.nonce >= chainNonce /\ \E h \in Hires : <<h, t>> \in sentFor
    /\ \A t \in settled : t.nonce < chainNonce

\* The whole of it: what stays true of rows, open requests, the node's pool
\* and the chain through every interleaving and every loss of requests.
IInv == TypeOK /\ TaskInv /\ SettleInv /\ PoolInv

\* A serial caller has one request open for a hire, which finds it pending or
\* swept; and unless a request of the hire was lost, one transaction was sent
\* for it, which belongs to that request or to the outcome on the row.
SerialInv ==
    Serial =>
    /\ \A r, q \in Reqs :
          (pc[r] # "idle" /\ pc[q] # "idle" /\ task[r].hire = task[q].hire) => r = q
    /\ \A r \in Reqs : pc[r] # "idle" => status[task[r].hire] \in {"pending", "cancelled"}
    /\ \A p, q \in sentFor : p[1] = q[1] /\ p[1] \notin abandoned => p = q
    /\ \A p \in sentFor : \/ p[1] \in abandoned
                          \/ status[p[1]] \in {"paid", "failed"}
                          \/ \E r \in Reqs : /\ pc[r] \in {"poll", "settled", "refused"}
                                             /\ task[r].hire = p[1]
=============================================================================
