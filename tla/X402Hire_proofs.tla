--------------------------- MODULE X402Hire_proofs ---------------------------
(***************************************************************************)
(* Proofs about X402Hire, for every value of its constants.                *)
(***************************************************************************)
EXTENDS X402Hire, TLAPS

-----------------------------------------------------------------------------
\* The transaction a request signs at the "send" stage is a transaction.
LEMMA SignedTxType ==
    ASSUME TypeOK, TaskInv, NEW r \in Reqs, pc[r] = "send"
    PROVE  SignedTx(r) \in Tx
  BY DEF TypeOK, TaskInv, SignedTx, Tx, Task

\* The requests a step loses are open ones.
Open == {r \in Reqs : pc[r] # "idle"}

\* What is left of lost requests has the types of idle ones.
LEMMA AbandonType ==
    ASSUME TypeOK, TaskInv, NEW lost \in SUBSET Open, Abandon(lost),
           pool' \subseteq Tx, settled' \subseteq Tx, reverted' \subseteq Tx,
           chainNonce' \in Nat, sentFor' \subseteq Hires \X Tx
    PROVE  TypeOK'
  <1>1. \A r \in lost : task[r].hire \in Hires
    BY DEF Open, TaskInv, Task
  <1>2. losses' \in 0..MaxLosses /\ abandoned' \subseteq Hires
    BY <1>1, ConstantsAssumption DEF Abandon, TypeOK
  <1>3. /\ pc' \in [Reqs -> Stage] /\ task' \in [Reqs -> Task \cup {None}]
        /\ nonce' \in [Reqs -> Nat] /\ price' \in [Reqs -> Prices \cup {0}]
        /\ polls' \in [Reqs -> 0..MaxPolls] /\ sent' \in [Reqs -> Tx \cup {None}]
    BY ConstantsAssumption DEF Abandon, TypeOK, Stage
  <1> QED
    BY <1>2, <1>3 DEF Abandon, TypeOK, table

\* Every step of the program preserves the types, given the stage invariant.
LEMMA TypeStep == TypeOK /\ TaskInv /\ [Next]_vars => TypeOK'
  <1> SUFFICES ASSUME TypeOK, TaskInv, [Next]_vars
               PROVE  TypeOK'
    OBVIOUS
  <1> USE DEF table, request, chain, faults
  <1>1. ASSUME NEW u \in Users, NEW t \in Terms, NEW h \in Hires, CreateHire(u, t, h)
        PROVE  TypeOK'
    BY <1>1, ConstantsAssumption DEF CreateHire, TypeOK, HiredStatus, Quote, SweepExpired
  <1>2. ASSUME NEW h \in Hires, NEW a \in Auths, SignPayment(h, a)
        PROVE  TypeOK'
    <2>1. PICK after \in {now - 1, now} :
             auth' = [auth EXCEPT ![a] = [by |-> quote[h].owner, terms |-> quote[h].terms,
                                          after |-> after, before |-> now + Timeout]]
      BY <1>2 DEF SignPayment, Challenge
    <2>2. quote[h] \in Quote /\ after \in Int /\ now + Timeout \in Nat
      BY <1>2, ConstantsAssumption DEF SignPayment, TypeOK
    <2>3. auth' \in [Auths -> SignedAuth \cup {None}]
      BY <2>1, <2>2 DEF TypeOK, SignedAuth, Quote
    <2> QED
      BY <1>2, <2>3 DEF SignPayment, TypeOK
  <1>3. ASSUME NEW r \in Reqs, NEW h \in Hires, NEW a \in Auths, NEW s \in Assets,
               PayHire(r, h, a, s)
        PROVE  TypeOK'
    BY <1>3 DEF PayHire, TypeOK, Stage, Task
  <1>4. ASSUME NEW r \in Reqs, GetNonce(r)
        PROVE  TypeOK'
    BY <1>4 DEF GetNonce, TypeOK, Stage
  <1>5. ASSUME NEW r \in Reqs, EstimateGas(r)
        PROVE  TypeOK'
    BY <1>5 DEF EstimateGas, TypeOK, Stage
  <1>6. ASSUME NEW r \in Reqs, SendRaw(r)
        PROVE  TypeOK'
    <2>1. SignedTx(r) \in Tx /\ task[r].hire \in Hires
      BY <1>6, SignedTxType DEF SendRaw, TaskInv, Task
    <2> QED
      BY <1>6, <2>1 DEF SendRaw, EnterPool, TypeOK, Stage
  <1>7. ASSUME NEW r \in Reqs, SendRawAnswerLost(r)
        PROVE  TypeOK'
    <2>1. SignedTx(r) \in Tx /\ task[r].hire \in Hires
      BY <1>7, SignedTxType DEF SendRawAnswerLost, TaskInv, Task
    <2> QED
      BY <1>7, <2>1 DEF SendRawAnswerLost, EnterPool, TypeOK, Stage
  <1>8. ASSUME NEW r \in Reqs, PollSettled(r)
        PROVE  TypeOK'
    BY <1>8 DEF PollSettled, TypeOK, Stage
  <1>9. ASSUME NEW r \in Reqs, PollAgain(r)
        PROVE  TypeOK'
    BY <1>9, ConstantsAssumption DEF PollAgain, PollsLeft, TypeOK
  <1>10. ASSUME NEW r \in Reqs, Refuse(r)
         PROVE  TypeOK'
    BY <1>10 DEF Refuse, TypeOK, Stage
  <1>11. ASSUME NEW r \in Reqs, RecordPaid(r)
         PROVE  TypeOK'
    <2>1. txHash' \in [Hires -> Tx \cup {None}] /\ status' \in [Hires -> HiredStatus]
      BY <1>11 DEF RecordPaid, TypeOK, HiredStatus
    <2> QED
      BY <1>11, <2>1, ConstantsAssumption DEF RecordPaid, EndRequest, TypeOK, Stage
  <1>12. ASSUME NEW r \in Reqs, RecordFailed(r)
         PROVE  TypeOK'
    <2>1. status' \in [Hires -> HiredStatus]
      BY <1>12 DEF RecordFailed, TypeOK, HiredStatus
    <2> QED
      BY <1>12, <2>1, ConstantsAssumption DEF RecordFailed, EndRequest, TypeOK, Stage
  <1>13. CASE Crash
    <2>1. PICK lost \in SUBSET Open : Abandon(lost) /\ UNCHANGED <<chain, sentFor>>
      BY <1>13 DEF Crash, Open
    <2> QED
      BY <2>1, AbandonType DEF TypeOK
  <1>17. ASSUME NEW r \in Reqs, AnswerNoObject(r)
         PROVE  TypeOK'
    <2>1. {r} \in SUBSET Open
      BY <1>17 DEF AnswerNoObject, Calling, Open
    <2> QED
      BY <1>17, <2>1, AbandonType DEF AnswerNoObject, TypeOK
  <1>18. ASSUME NEW r \in Reqs, SendRawNoObject(r)
         PROVE  TypeOK'
    <2>1. SignedTx(r) \in Tx /\ task[r].hire \in Hires
      BY <1>18, SignedTxType DEF SendRawNoObject, TaskInv, Task
    <2>2. {r} \in SUBSET Open
      BY <1>18 DEF SendRawNoObject, Open
    <2>3. pool' \subseteq Tx /\ sentFor' \subseteq Hires \X Tx
      BY <1>18, <2>1 DEF SendRawNoObject, EnterPool, TypeOK
    <2> QED
      BY <1>18, <2>2, <2>3, AbandonType DEF SendRawNoObject, TypeOK
  <1>14. ASSUME NEW tx \in pool, MineNext(tx)
         PROVE  TypeOK'
    BY <1>14 DEF MineNext, TypeOK
  <1>15. CASE Tick
    BY <1>15 DEF Tick, TypeOK
  <1>16. CASE UNCHANGED vars
    BY <1>16 DEF vars, TypeOK
  <1> QED
    BY <1>1, <1>2, <1>3, <1>4, <1>5, <1>6, <1>7, <1>8, <1>9, <1>10, <1>11,
       <1>12, <1>13, <1>14, <1>15, <1>16, <1>17, <1>18
       DEF Next, Handle, BroadcastRefused, RpcError

-----------------------------------------------------------------------------
\* What a step does to the rows and to the signed authorizations: both are
\* written once, so a match once made is kept.
LEMMA WriteOnce ==
    ASSUME TypeOK, TaskInv, [Next]_vars
    PROVE  /\ \A h \in Hires : quote[h] # None => quote'[h] = quote[h]
           /\ \A a \in Auths : auth[a] # None => auth'[a] = auth[a]
           /\ \A h \in Hires : status[h] # "absent" => status'[h] # "absent"
  <1> USE DEF table, request, chain, faults
  <1> DEFINE Kept == /\ \A h \in Hires : status[h] # "absent" =>
                                            status'[h] # "absent" /\ quote'[h] = quote[h]
                     /\ \A a \in Auths : auth[a] # None => auth'[a] = auth[a]
  <1>1. ASSUME NEW u \in Users, NEW t \in Terms, NEW h \in Hires, CreateHire(u, t, h)
        PROVE  Kept
    BY <1>1 DEF CreateHire, TypeOK
  <1>2. ASSUME NEW h \in Hires, NEW a \in Auths, SignPayment(h, a)
        PROVE  Kept
    BY <1>2 DEF SignPayment, TypeOK
  <1>3. ASSUME NEW r \in Reqs, RecordPaid(r) \/ RecordFailed(r)
        PROVE  Kept
    BY <1>3 DEF RecordPaid, RecordFailed, TypeOK
  <1>4. ASSUME UNCHANGED <<table, auth>>
        PROVE  Kept
    BY <1>4
  <1>5. Kept
    BY <1>1, <1>2, <1>3, <1>4
       DEF Next, vars, Handle, PayHire, GetNonce, EstimateGas, SendRaw, SendRawAnswerLost,
           PollSettled, PollAgain, BroadcastRefused, RpcError, Refuse, Crash,
           AnswerNoObject, SendRawNoObject, Abandon, MineNext, Tick
  <1> QED
    BY <1>5 DEF TaskInv

\* The steps that lose requests.
Loss == Crash \/ \E r \in Reqs : AnswerNoObject(r) \/ SendRawNoObject(r)

\* A loss closes a request or leaves it as it was.
LEMMA LossForgets ==
    ASSUME TypeOK, Loss
    PROVE  /\ \A r \in Reqs :
               \/ pc'[r] = "idle"
               \/ /\ pc'[r] = pc[r] /\ task'[r] = task[r]
                  /\ price'[r] = price[r] /\ sent'[r] = sent[r]
           /\ UNCHANGED <<now, table, auth>>
           /\ abandoned \subseteq abandoned'
           /\ \A r \in Reqs : pc[r] # "idle" /\ pc'[r] # pc[r] => task[r].hire \in abandoned'
  BY DEF Loss, Crash, AnswerNoObject, SendRawNoObject, Abandon, TypeOK

-----------------------------------------------------------------------------
\* The stage invariant: only PayHire opens a request, and it checks the match.
LEMMA TaskStep == TypeOK /\ TaskInv /\ [Next]_vars => TaskInv'
  <1> SUFFICES ASSUME TypeOK, TaskInv, [Next]_vars
               PROVE  TaskInv'
    OBVIOUS
  <1> USE DEF table, request, chain, faults
  <1>1. \A h \in Hires : (status[h] = "absent" <=> quote[h] = None)'
    <2>1. ASSUME NEW u \in Users, NEW t \in Terms, NEW h \in Hires, CreateHire(u, t, h)
          PROVE  \A g \in Hires : (status[g] = "absent" <=> quote[g] = None)'
      <3>1. [owner |-> u, terms |-> t, expiry |-> now + Timeout] \in Quote
        BY ConstantsAssumption DEF TypeOK, Quote
      <3> QED
        BY <2>1, <3>1, ConstantsAssumption DEF CreateHire, TypeOK, TaskInv, SweepExpired
    <2>2. ASSUME NEW r \in Reqs, RecordPaid(r) \/ RecordFailed(r)
          PROVE  \A g \in Hires : (status[g] = "absent" <=> quote[g] = None)'
      BY <2>2 DEF RecordPaid, RecordFailed, TypeOK, TaskInv
    <2>3. ASSUME UNCHANGED <<status, quote>>
          PROVE  \A g \in Hires : (status[g] = "absent" <=> quote[g] = None)'
      BY <2>3 DEF TaskInv
    <2> QED
      BY <2>1, <2>2, <2>3
         DEF Next, vars, Handle, SignPayment, PayHire, GetNonce, EstimateGas, SendRaw,
             SendRawAnswerLost, PollSettled, PollAgain, BroadcastRefused, RpcError, Refuse,
             Crash, AnswerNoObject, SendRawNoObject, Abandon, MineNext, Tick
  <1>2. \A r \in Reqs : pc'[r] # "idle" =>
            /\ task'[r] \in Task
            /\ \/ pc[r] # "idle" /\ task'[r] = task[r]
               \/ Matches(task'[r].auth, task'[r].hire) /\ status[task'[r].hire] # "absent"
    <2> DEFINE Held == \A r \in Reqs : pc'[r] # "idle" =>
                          /\ task'[r] \in Task
                          /\ \/ pc[r] # "idle" /\ task'[r] = task[r]
                             \/ /\ Matches(task'[r].auth, task'[r].hire)
                                /\ status[task'[r].hire] # "absent"
    <2>1. ASSUME NEW r \in Reqs, NEW h \in Hires, NEW a \in Auths, NEW s \in Assets,
                 PayHire(r, h, a, s)
          PROVE  Held
      BY <2>1 DEF PayHire, Payable, VerifyPayment, TypeOK, TaskInv, Task
    <2>2. ASSUME NEW r \in Reqs, RecordPaid(r) \/ RecordFailed(r)
          PROVE  Held
      BY <2>2 DEF RecordPaid, RecordFailed, EndRequest, TypeOK, TaskInv
    <2>3. ASSUME NEW r \in Reqs, pc[r] # "idle", UNCHANGED task,
                 \A q \in Reqs \ {r} : pc'[q] = pc[q]
          PROVE  Held
      BY <2>3 DEF TypeOK, TaskInv
    <2>4. ASSUME UNCHANGED <<pc, task>>
          PROVE  Held
      BY <2>4 DEF TaskInv
    <2>5. ASSUME Loss
          PROVE  Held
      BY <2>5, LossForgets DEF TaskInv
    <2>6. ASSUME NEW r \in Reqs,
                 \/ GetNonce(r) \/ EstimateGas(r) \/ SendRaw(r) \/ SendRawAnswerLost(r)
                 \/ PollSettled(r) \/ BroadcastRefused(r) \/ RpcError(r)
          PROVE  Held
      BY <2>6, <2>3
         DEF GetNonce, EstimateGas, SendRaw, SendRawAnswerLost, PollSettled,
             BroadcastRefused, NodeRefuses, RpcError, Calling, Refuse, TypeOK
    <2> QED
      BY <2>1, <2>2, <2>4, <2>5, <2>6
         DEF Next, vars, Handle, CreateHire, SignPayment, PollAgain, Loss, MineNext, Tick
  <1>3. \A r \in Reqs : (pc[r] = "send" => price[r] \in Prices)'
    <2>1. ASSUME NEW r \in Reqs, EstimateGas(r)
          PROVE  \A q \in Reqs : (pc[q] = "send" => price[q] \in Prices)'
      BY <2>1 DEF EstimateGas, TypeOK, TaskInv
    <2>2. ASSUME NEW r \in Reqs, pc'[r] # "send",
                 \A q \in Reqs \ {r} : pc'[q] = pc[q] /\ price'[q] = price[q]
          PROVE  \A q \in Reqs : (pc[q] = "send" => price[q] \in Prices)'
      BY <2>2 DEF TaskInv
    <2>3. ASSUME NEW r \in Reqs,
                 \/ GetNonce(r) \/ SendRaw(r) \/ SendRawAnswerLost(r) \/ PollSettled(r)
                 \/ BroadcastRefused(r) \/ RpcError(r) \/ RecordPaid(r) \/ RecordFailed(r)
                 \/ \E h \in Hires, a \in Auths, s \in Assets : PayHire(r, h, a, s)
          PROVE  \A q \in Reqs : (pc[q] = "send" => price[q] \in Prices)'
      BY <2>3, <2>2
         DEF GetNonce, SendRaw, SendRawAnswerLost, PollSettled, BroadcastRefused, RpcError,
             Refuse, RecordPaid, RecordFailed, EndRequest, PayHire, TypeOK
    <2>4. ASSUME UNCHANGED <<pc, price>>
          PROVE  \A q \in Reqs : (pc[q] = "send" => price[q] \in Prices)'
      BY <2>4 DEF TaskInv
    <2>5. ASSUME Loss
          PROVE  \A q \in Reqs : (pc[q] = "send" => price[q] \in Prices)'
      BY <2>5, LossForgets DEF TaskInv
    <2> QED
      BY <2>1, <2>3, <2>4, <2>5
         DEF Next, vars, Handle, CreateHire, SignPayment, PollAgain, Loss, MineNext, Tick
  <1>4. \A r \in Reqs : (pc[r] # "idle" => /\ task[r] \in Task
                                           /\ Matches(task[r].auth, task[r].hire)
                                           /\ status[task[r].hire] # "absent")'
    <2> SUFFICES ASSUME NEW r \in Reqs, pc'[r] # "idle"
                 PROVE  /\ task'[r] \in Task
                        /\ Matches(task[r].auth, task[r].hire)'
                        /\ status'[task'[r].hire] # "absent"
      OBVIOUS
    <2> DEFINE a == task'[r].auth
               h == task'[r].hire
    <2>1. task'[r] \in Task /\ a \in Auths /\ h \in Hires
      BY <1>2 DEF Task
    <2>2. Matches(a, h) /\ status[h] # "absent"
      BY <1>2 DEF TaskInv
    <2>3. auth'[a] = auth[a] /\ quote'[h] = quote[h] /\ status'[h] # "absent"
      BY <2>1, <2>2, WriteOnce DEF Matches, Signer
    <2> QED
      BY <2>1, <2>2, <2>3 DEF Matches, Signer
  <1> QED
    BY <1>1, <1>3, <1>4 DEF TaskInv

-----------------------------------------------------------------------------
\* History only grows: what settled stays settled, what was sent stays sent.
LEMMA HistoryGrows ==
    ASSUME [Next]_vars
    PROVE  settled \subseteq settled' /\ sentFor \subseteq sentFor'
  BY DEF Next, vars, table, request, chain, Handle, CreateHire, SignPayment, PayHire,
         GetNonce, EstimateGas, SendRaw, SendRawAnswerLost, EnterPool, PollSettled,
         PollAgain, BroadcastRefused, RpcError, Refuse, RecordPaid, RecordFailed, Crash,
         AnswerNoObject, SendRawNoObject, Abandon, MineNext, Tick

\* The requests that poll after a step polled before it, or have just sent.
LEMMA PollersStep ==
    ASSUME TypeOK, TaskInv, SettleInv, [Next]_vars
    PROVE  \A r \in Reqs : pc'[r] \in {"poll", "settled"} =>
               /\ sent'[r] \in Tx
               /\ sent'[r].auth = task'[r].auth
               /\ <<task'[r].hire, sent'[r]>> \in sentFor'
               /\ pc'[r] = "settled" => sent'[r] \in settled'
  <1> USE DEF table, request, chain, faults
  <1> DEFINE Held == \A r \in Reqs : pc'[r] \in {"poll", "settled"} =>
                         /\ sent'[r] \in Tx
                         /\ sent'[r].auth = task'[r].auth
                         /\ <<task'[r].hire, sent'[r]>> \in sentFor'
                         /\ pc'[r] = "settled" => sent'[r] \in settled'
  <1>1. ASSUME NEW r \in Reqs, SendRaw(r)
        PROVE  Held
    <2>1. SignedTx(r) \in Tx /\ SignedTx(r).auth = task[r].auth
      BY <1>1, SignedTxType DEF SendRaw, SignedTx
    <2> QED
      BY <1>1, <2>1, HistoryGrows DEF SendRaw, EnterPool, SettleInv, TypeOK
  <1>2. ASSUME NEW r \in Reqs, pc'[r] \notin {"poll", "settled"},
               \A q \in Reqs \ {r} : pc'[q] = pc[q] /\ task'[q] = task[q] /\ sent'[q] = sent[q]
        PROVE  Held
    BY <1>2, HistoryGrows DEF SettleInv
  <1>3. ASSUME NEW r \in Reqs,
               \/ GetNonce(r) \/ EstimateGas(r) \/ SendRawAnswerLost(r)
               \/ BroadcastRefused(r) \/ RpcError(r) \/ RecordPaid(r) \/ RecordFailed(r)
               \/ \E h \in Hires, a \in Auths, s \in Assets : PayHire(r, h, a, s)
        PROVE  Held
    BY <1>3, <1>2
       DEF GetNonce, EstimateGas, SendRawAnswerLost, BroadcastRefused, RpcError, Refuse,
           RecordPaid, RecordFailed, EndRequest, PayHire, TypeOK
  <1>4. ASSUME NEW r \in Reqs, PollSettled(r)
        PROVE  Held
    BY <1>4, HistoryGrows DEF PollSettled, ReceiptOk, SettleInv, TypeOK
  <1>5. ASSUME UNCHANGED <<pc, task, sent>>
        PROVE  Held
    BY <1>5, HistoryGrows DEF SettleInv
  <1>6. ASSUME Loss
        PROVE  Held
    BY <1>6, LossForgets, HistoryGrows DEF SettleInv
  <1> QED
    BY <1>1, <1>3, <1>4, <1>5, <1>6
       DEF Next, vars, Handle, CreateHire, SignPayment, PollAgain, Loss, MineNext, Tick

\* Every row that is paid after a step was paid before it, unchanged, or has
\* just been recorded by a request that saw its transaction settle.
LEMMA SettleStep == TypeOK /\ TaskInv /\ SettleInv /\ [Next]_vars => SettleInv'
  <1> SUFFICES ASSUME TypeOK, TaskInv, SettleInv, [Next]_vars
               PROVE  SettleInv'
    OBVIOUS
  <1> USE DEF table, request, chain, faults
  <1>1. \A h \in Hires : status'[h] = "paid" =>
            \/ status[h] = "paid" /\ txHash'[h] = txHash[h]
            \/ \E r \in Reqs : /\ pc[r] = "settled"
                               /\ task[r].hire = h
                               /\ txHash'[h] = sent[r]
    <2> DEFINE Source == \A h \in Hires : status'[h] = "paid" =>
                            \/ status[h] = "paid" /\ txHash'[h] = txHash[h]
                            \/ \E r \in Reqs : /\ pc[r] = "settled"
                                               /\ task[r].hire = h
                                               /\ txHash'[h] = sent[r]
    <2>1. ASSUME NEW u \in Users, NEW t \in Terms, NEW h \in Hires, CreateHire(u, t, h)
          PROVE  Source
      BY <2>1 DEF CreateHire, TypeOK
    <2>2. ASSUME NEW r \in Reqs, RecordPaid(r)
          PROVE  Source
      BY <2>2 DEF RecordPaid, TypeOK
    <2>3. ASSUME NEW r \in Reqs, RecordFailed(r)
          PROVE  Source
      BY <2>3 DEF RecordFailed, TypeOK
    <2>4. ASSUME UNCHANGED <<status, txHash>>
          PROVE  Source
      BY <2>4
    <2> QED
      BY <2>1, <2>2, <2>3, <2>4
         DEF Next, vars, Handle, SignPayment, PayHire, GetNonce, EstimateGas, SendRaw,
             SendRawAnswerLost, PollSettled, PollAgain, BroadcastRefused, RpcError, Refuse,
             Crash, AnswerNoObject, SendRawNoObject, Abandon, MineNext, Tick
  <1>2. ASSUME NEW h \in Hires, status'[h] = "paid"
        PROVE  /\ txHash'[h] \in settled'
               /\ Matches(txHash[h].auth, h)'
               /\ <<h, txHash'[h]>> \in sentFor'
    <2> DEFINE tx == txHash'[h]
    <2>1. tx \in settled /\ Matches(tx.auth, h) /\ <<h, tx>> \in sentFor
      <3>1. CASE status[h] = "paid" /\ tx = txHash[h]
        BY <3>1 DEF SettleInv
      <3>2. ASSUME NEW r \in Reqs, pc[r] = "settled", task[r].hire = h, tx = sent[r]
            PROVE  tx \in settled /\ Matches(tx.auth, h) /\ <<h, tx>> \in sentFor
        BY <3>2 DEF SettleInv, TaskInv
      <3> QED
        BY <1>1, <1>2, <3>1, <3>2
    <2>2. tx.auth \in Auths
      BY <2>1 DEF TypeOK, Tx
    <2>3. auth'[tx.auth] = auth[tx.auth] /\ quote'[h] = quote[h]
      BY <2>1, <2>2, WriteOnce DEF Matches, Signer
    <2> QED
      BY <2>1, <2>3, HistoryGrows DEF Matches, Signer
  <1> QED
    BY <1>2, PollersStep DEF SettleInv

-----------------------------------------------------------------------------
\* What NodeAccepts lets in was never sent before: its nonce is not mined, and
\* every transaction sent at that nonce is topped by a pending one it outbids.
LEMMA FreshTransaction ==
    ASSUME TypeOK, TaskInv, PoolInv, NEW r \in Reqs, pc[r] = "send", NodeAccepts(SignedTx(r))
    PROVE  \A p \in sentFor : p[2] # SignedTx(r)
  <1> DEFINE tx == SignedTx(r)
  <1> SUFFICES ASSUME NEW p \in sentFor, p[2] = tx
               PROVE  FALSE
    OBVIOUS
  <1>1. tx \in Tx /\ tx.nonce \in Nat /\ tx.price \in Nat
    BY SignedTxType, ConstantsAssumption DEF Tx
  <1>2. ~(p[2].nonce < chainNonce)
    BY <1>1 DEF NodeAccepts, TypeOK
  <1>3. PICK t \in pool : t.nonce = p[2].nonce /\ p[2].price <= t.price
    BY <1>2 DEF PoolInv
  <1>4. t.price \in Nat /\ t.price < tx.price
    BY <1>3, ConstantsAssumption DEF NodeAccepts, TypeOK, Tx
  <1> QED
    BY <1>1, <1>3, <1>4

\* Sending keeps the pool invariant.
LEMMA EnterPoolStep ==
    ASSUME TypeOK, TaskInv, PoolInv, NEW r \in Reqs, pc[r] = "send",
           NodeAccepts(SignedTx(r)), EnterPool(SignedTx(r), task[r].hire),
           UNCHANGED <<settled, chainNonce>>
    PROVE  PoolInv'
  <1> DEFINE tx == SignedTx(r)
             hr == task[r].hire
  <1>0. hr \in Hires /\ tx \in Tx /\ tx.nonce \in Nat /\ tx.price \in Nat
    BY SignedTxType, ConstantsAssumption DEF Tx, TaskInv, Task
  <1>1. tx \in pool' /\ <<hr, tx>>[1] = hr /\ <<hr, tx>>[2] = tx
    BY DEF EnterPool
  <1>2. ASSUME NEW p \in sentFor'
        PROVE  \/ p[2].nonce < chainNonce'
               \/ \E t \in pool' : t.nonce = p[2].nonce /\ p[2].price <= t.price
    <2>1. CASE p \in sentFor
      <3>1. CASE p[2].nonce < chainNonce
        BY <3>1
      <3>2. ASSUME NEW t \in pool, t.nonce = p[2].nonce, p[2].price <= t.price
            PROVE  \E v \in pool' : v.nonce = p[2].nonce /\ p[2].price <= v.price
        <4>1. CASE t.nonce = tx.nonce
          <5>1. t.price < tx.price /\ t.price \in Nat
            BY <4>1, ConstantsAssumption DEF NodeAccepts, TypeOK, Tx
          <5>2. p[2] \in Tx /\ p[2].price \in Nat
            BY <2>1, ConstantsAssumption DEF TypeOK, Tx
          <5> QED
            BY <1>0, <1>1, <3>2, <4>1, <5>1, <5>2
        <4>2. CASE t.nonce # tx.nonce
          BY <3>2, <4>2 DEF EnterPool
        <4> QED
          BY <4>1, <4>2
      <3> QED
        BY <2>1, <3>1, <3>2 DEF PoolInv
    <2>2. CASE p = <<hr, tx>>
      BY <1>0, <1>1, <2>2
    <2> QED
      BY <2>1, <2>2 DEF EnterPool
  <1>3. ASSUME NEW p \in sentFor', NEW q \in sentFor', p[2] = q[2]
        PROVE  p[1] = q[1]
    BY <1>1, <1>3, FreshTransaction DEF EnterPool, PoolInv
  <1>4. ASSUME NEW t \in pool'
        PROVE  t.nonce >= chainNonce' /\ \E h \in Hires : <<h, t>> \in sentFor'
    BY <1>0, <1>4 DEF EnterPool, NodeAccepts, PoolInv
  <1> QED
    BY <1>2, <1>3, <1>4 DEF PoolInv

\* Mining keeps it: the mined nonce leaves the pool and falls below the count.
LEMMA MineStep ==
    ASSUME TypeOK, PoolInv, NEW tx \in pool, MineNext(tx)
    PROVE  PoolInv'
  <1>1. chainNonce' = chainNonce + 1 /\ sentFor' = sentFor
    BY DEF MineNext
  <1>2. ASSUME NEW p \in sentFor
        PROVE  \/ p[2].nonce < chainNonce'
               \/ \E t \in pool' : t.nonce = p[2].nonce /\ p[2].price <= t.price
    <2>1. p[2] \in Tx /\ p[2].nonce \in Nat
      BY DEF TypeOK, Tx
    <2>2. CASE p[2].nonce < chainNonce
      BY <1>1, <2>1, <2>2 DEF TypeOK
    <2>3. ASSUME NEW t \in pool, t.nonce = p[2].nonce, p[2].price <= t.price
          PROVE  \/ p[2].nonce < chainNonce'
                 \/ \E v \in pool' : v.nonce = p[2].nonce /\ p[2].price <= v.price
      BY <1>1, <2>1, <2>3 DEF MineNext, TypeOK
    <2> QED
      BY <2>2, <2>3 DEF PoolInv
  <1>3. ASSUME NEW t \in pool'
        PROVE  t.nonce >= chainNonce' /\ \E h \in Hires : <<h, t>> \in sentFor'
    <2>1. t \in pool /\ t.nonce # chainNonce /\ t.nonce \in Nat
      BY DEF MineNext, TypeOK, Tx
    <2>2. t.nonce >= chainNonce /\ \E h \in Hires : <<h, t>> \in sentFor
      BY <2>1 DEF PoolInv
    <2>3. t.nonce >= chainNonce + 1
      BY <2>1, <2>2 DEF TypeOK
    <2> QED
      BY <1>1, <2>2, <2>3
  <1>4. ASSUME NEW t \in settled'
        PROVE  t.nonce < chainNonce'
    <2>1. CASE t \in settled
      BY <1>1, <2>1 DEF PoolInv, TypeOK, Tx
    <2>2. CASE t = tx
      BY <1>1, <2>2 DEF MineNext, TypeOK, Tx
    <2> QED
      BY <2>1, <2>2 DEF MineNext
  <1> QED
    BY <1>1, <1>2, <1>3, <1>4 DEF PoolInv

\* No other step touches the pool, the chain or the history of what was sent.
LEMMA PoolStep == TypeOK /\ TaskInv /\ PoolInv /\ [Next]_vars => PoolInv'
  <1> SUFFICES ASSUME TypeOK, TaskInv, PoolInv, [Next]_vars
               PROVE  PoolInv'
    OBVIOUS
  <1> USE DEF table, request, chain, faults
  <1>1. ASSUME NEW r \in Reqs, SendRaw(r) \/ SendRawAnswerLost(r) \/ SendRawNoObject(r)
        PROVE  PoolInv'
    BY <1>1, EnterPoolStep DEF SendRaw, SendRawAnswerLost, SendRawNoObject
  <1>2. ASSUME NEW tx \in pool, MineNext(tx)
        PROVE  PoolInv'
    BY <1>2, MineStep
  <1>3. ASSUME UNCHANGED <<pool, settled, chainNonce, sentFor>>
        PROVE  PoolInv'
    BY <1>3 DEF PoolInv
  <1> QED
    BY <1>1, <1>2, <1>3
       DEF Next, vars, Handle, CreateHire, SignPayment, PayHire, GetNonce, EstimateGas,
           PollSettled, PollAgain, BroadcastRefused, RpcError, Refuse, RecordPaid,
           RecordFailed, Crash, AnswerNoObject, Tick

-----------------------------------------------------------------------------
\* The inductive invariant holds in every reachable state.
THEOREM Invariance == Spec => []IInv
  <1>1. Init => IInv
    BY ConstantsAssumption
       DEF Init, IInv, TypeOK, TaskInv, SettleInv, PoolInv, HiredStatus, Stage
  <1>2. IInv /\ [Next]_vars => IInv'
    BY TypeStep, TaskStep, SettleStep, PoolStep DEF IInv
  <1> QED
    BY <1>1, <1>2, PTL DEF Spec

\* Every variable keeps its type, for any users, offers, requests and bounds.
THEOREM TypeCorrect == Spec => []TypeOK
  <1>1. IInv => TypeOK
    BY DEF IInv
  <1> QED
    BY <1>1, Invariance, PTL

\* A paid hire names a settled transfer that its own owner signed for its own
\* quote, whatever the interleaving of requests, sweeps and crashes.
THEOREM PaidHiresAreSettled == Spec => []PaidIsSettled
  <1>1. IInv => PaidIsSettled
    BY DEF IInv, SettleInv, PaidIsSettled
  <1> QED
    BY <1>1, Invariance, PTL

\* No transaction pays two hires.
THEOREM TransfersPayOneHire == Spec => []OneTransferPaysOneHire
  <1>1. IInv => OneTransferPaysOneHire
    <2> SUFFICES ASSUME IInv, NEW g \in Hires, NEW h \in Hires,
                        status[g] = "paid", status[h] = "paid", txHash[g] = txHash[h]
                 PROVE  g = h
      BY DEF OneTransferPaysOneHire
    <2>1. <<g, txHash[g]>> \in sentFor /\ <<h, txHash[h]>> \in sentFor
      BY DEF IInv, SettleInv
    <2> QED
      BY <2>1 DEF IInv, PoolInv
  <1> QED
    BY <1>1, Invariance, PTL

-----------------------------------------------------------------------------
(* A serial caller                                                         *)

\* Sending for a hire the first and only time: an earlier transaction of the
\* hire would belong to a request that is past "send", and that is this one.
LEMMA FirstSend ==
    ASSUME IInv, SerialInv, Serial, NEW r \in Reqs, pc[r] = "send",
           task[r].hire \notin abandoned
    PROVE  \A p \in sentFor : p[1] # task[r].hire
  <1> SUFFICES ASSUME NEW p \in sentFor, p[1] = task[r].hire
               PROVE  FALSE
    OBVIOUS
  <1>1. status[p[1]] \in {"pending", "cancelled"}
    BY DEF SerialInv
  <1>2. PICK q \in Reqs : pc[q] \in {"poll", "settled", "refused"} /\ task[q].hire = p[1]
    BY <1>1 DEF SerialInv
  <1>3. q = r
    BY <1>2 DEF SerialInv
  <1> QED
    BY <1>2, <1>3

\* Each action keeps the discipline of one request, one transaction per hire.
LEMMA SerialStep ==
    ASSUME IInv, SerialInv, Serial, [Next]_vars
    PROVE  SerialInv'
  <1> USE DEF table, request, chain, faults
  <1> DEFINE One == \A p, q \in sentFor : p[1] = q[1] /\ p[1] \notin abandoned => p = q
             Apart == \A r, q \in Reqs :
                 (pc[r] # "idle" /\ pc[q] # "idle" /\ task[r].hire = task[q].hire) => r = q
             Live == \A r \in Reqs :
                 pc[r] # "idle" => status[task[r].hire] \in {"pending", "cancelled"}
             Owned == \A p \in sentFor :
                 \/ p[1] \in abandoned
                 \/ status[p[1]] \in {"paid", "failed"}
                 \/ \E r \in Reqs : /\ pc[r] \in {"poll", "settled", "refused"}
                                    /\ task[r].hire = p[1]
             Parts == One /\ Apart /\ Live /\ Owned
  <1>0. Parts /\ TypeOK /\ TaskInv
    BY DEF SerialInv, IInv
  <1>1. ASSUME NEW u \in Users, NEW t \in Terms, NEW h \in Hires, CreateHire(u, t, h)
        PROVE  Parts'
    <2>1. \A r \in Reqs : pc[r] # "idle" => task[r].hire \in Hires /\ task[r].hire # h
      BY <1>0, <1>1 DEF TaskInv, Task, CreateHire
    <2>2. \A g \in Hires \ {h} : \/ status'[g] = status[g]
                                 \/ status[g] = "pending" /\ status'[g] = "cancelled"
      BY <1>0, <1>1 DEF CreateHire, SweepExpired, TypeOK
    <2>3. \A p \in sentFor : p[1] \in Hires /\ (p[1] = h => p[1] \in abandoned)
      BY <1>0, <1>1, <2>1 DEF CreateHire, TypeOK
    <2>4. UNCHANGED <<pc, task, sentFor, abandoned>>
      BY <1>1 DEF CreateHire
    <2>5. Live'
      BY <1>0, <2>1, <2>2, <2>4
    <2>6. Owned'
      BY <1>0, <2>2, <2>3, <2>4
    <2> QED
      BY <1>0, <2>4, <2>5, <2>6
  <1>2. ASSUME NEW r \in Reqs, NEW h \in Hires, NEW a \in Auths, NEW s \in Assets,
               PayHire(r, h, a, s)
        PROVE  Parts'
    <2>1. /\ pc[r] = "idle" /\ pc' = [pc EXCEPT ![r] = "nonce"]
          /\ task' = [task EXCEPT ![r] = [hire |-> h, auth |-> a, asset |-> s]]
          /\ \A q \in Reqs : pc[q] # "idle" => task[q].hire # h
          /\ status[h] = "pending"
          /\ UNCHANGED <<status, sentFor, abandoned>>
      BY <1>2 DEF PayHire, Payable
    <2>2. task'[r].hire = h /\ pc'[r] = "nonce"
          /\ \A q \in Reqs \ {r} : pc'[q] = pc[q] /\ task'[q] = task[q]
      BY <1>0, <2>1 DEF TypeOK
    <2>3. Apart'
      BY <1>0, <2>1, <2>2
    <2>4. Live'
      BY <1>0, <2>1, <2>2
    <2>5. Owned'
      BY <1>0, <2>1, <2>2
    <2> QED
      BY <1>0, <2>1, <2>3, <2>4, <2>5
  <1>3. ASSUME NEW r \in Reqs, SendRaw(r) \/ SendRawAnswerLost(r)
        PROVE  Parts'
    <2>1. /\ pc[r] = "send" /\ UNCHANGED <<status, task, abandoned>>
          /\ sentFor' = sentFor \cup {<<task[r].hire, SignedTx(r)>>}
          /\ pc'[r] \in {"poll", "refused"}
          /\ \A q \in Reqs \ {r} : pc'[q] = pc[q]
      BY <1>0, <1>3 DEF SendRaw, SendRawAnswerLost, EnterPool, TypeOK
    <2>2. One'
      BY <1>0, <2>1, FirstSend
    <2>3. Apart' /\ Live'
      BY <1>0, <2>1
    <2>4. Owned'
      BY <1>0, <2>1
    <2> QED
      BY <2>2, <2>3, <2>4
  <1>4. ASSUME NEW r \in Reqs,
               GetNonce(r) \/ EstimateGas(r) \/ PollSettled(r) \/ BroadcastRefused(r) \/ RpcError(r)
        PROVE  Parts'
    <2>1. /\ pc[r] # "idle" /\ pc'[r] # "idle" /\ UNCHANGED <<status, task, sentFor, abandoned>>
          /\ pc[r] \in {"poll", "settled", "refused"} => pc'[r] \in {"poll", "settled", "refused"}
          /\ \A q \in Reqs \ {r} : pc'[q] = pc[q]
      BY <1>0, <1>4
         DEF GetNonce, EstimateGas, PollSettled, BroadcastRefused, NodeRefuses, RpcError,
             Calling, Refuse, TypeOK
    <2>2. Apart' /\ Live'
      BY <1>0, <2>1
    <2>3. Owned'
      BY <1>0, <2>1
    <2> QED
      BY <1>0, <2>1, <2>2, <2>3
  <1>5. ASSUME NEW r \in Reqs, RecordPaid(r) \/ RecordFailed(r)
        PROVE  Parts'
    <2>1. /\ pc[r] # "idle" /\ pc'[r] = "idle" /\ UNCHANGED <<sentFor, abandoned>>
          /\ \A q \in Reqs \ {r} : pc'[q] = pc[q] /\ task'[q] = task[q]
          /\ task[r].hire \in Hires
          /\ status'[task[r].hire] \in {"paid", "failed"}
          /\ \A g \in Hires \ {task[r].hire} : status'[g] = status[g]
      BY <1>0, <1>5 DEF RecordPaid, RecordFailed, EndRequest, TypeOK, TaskInv, Task
    <2>2. \A q \in Reqs \ {r} : pc[q] # "idle" => /\ task[q].hire \in Hires
                                                  /\ task[q].hire # task[r].hire
      BY <1>0, <2>1 DEF TaskInv, Task
    <2>3. Apart' /\ Live'
      BY <1>0, <2>1, <2>2
    <2>4. Owned'
      <3> SUFFICES ASSUME NEW p \in sentFor
                   PROVE  \/ p[1] \in abandoned'
                          \/ status'[p[1]] \in {"paid", "failed"}
                          \/ \E q \in Reqs : /\ pc'[q] \in {"poll", "settled", "refused"}
                                             /\ task'[q].hire = p[1]
        BY <2>1
      <3>1. CASE p[1] = task[r].hire
        BY <2>1, <3>1
      <3>2. CASE p[1] # task[r].hire
        <4>1. p[1] \in Hires
          BY <1>0 DEF TypeOK
        <4> QED
          BY <1>0, <2>1, <3>2, <4>1
      <3> QED
        BY <3>1, <3>2
    <2> QED
      BY <1>0, <2>1, <2>3, <2>4
  <1>6. ASSUME UNCHANGED <<status, pc, task, sentFor, abandoned>>
        PROVE  Parts'
    BY <1>0, <1>6
  <1>7. ASSUME Loss
        PROVE  Parts'
    <2>1. /\ \A r \in Reqs : pc'[r] = "idle" \/ (pc'[r] = pc[r] /\ task'[r] = task[r])
          /\ \A r \in Reqs : pc[r] # "idle" /\ pc'[r] # pc[r] => task[r].hire \in abandoned'
          /\ abandoned \subseteq abandoned' /\ UNCHANGED status
      BY <1>0, <1>7, LossForgets
    <2>2. \A p \in sentFor' \ sentFor : p[1] \in abandoned'
      BY <1>7 DEF Loss, Crash, AnswerNoObject, SendRawNoObject, EnterPool, Abandon
    <2>3. Apart' /\ Live'
      BY <1>0, <2>1
    <2>4. One'
      BY <1>0, <2>1, <2>2
    <2>5. Owned'
      BY <1>0, <2>1, <2>2
    <2> QED
      BY <2>3, <2>4, <2>5
  <1>8. Parts'
    BY <1>1, <1>2, <1>3, <1>4, <1>5, <1>6, <1>7
       DEF Next, vars, Handle, SignPayment, PollAgain, Loss, MineNext, Tick
  <1> QED
    BY <1>8 DEF SerialInv

\* The discipline holds in every state a serial caller can reach.
LEMMA SerialInvariance ==
    ASSUME Serial
    PROVE  Spec => [](IInv /\ SerialInv)
  <1>1. Init => SerialInv
    BY DEF Init, SerialInv
  <1>2. IInv /\ SerialInv /\ [Next]_vars => SerialInv'
    BY SerialStep
  <1> QED
    BY <1>1, <1>2, Invariance, PTL DEF Spec

\* Without overlapping requests for one hire, its money moves at most once,
\* late receipts and exhausted polls included, unless a request of it was lost.
THEOREM SerialHiresSettleOnce ==
    ASSUME Serial
    PROVE  Spec => []HireSettledOnce
  <1>1. SerialInv => HireSettledOnce
    <2> SUFFICES ASSUME SerialInv, NEW h \in Hires \ abandoned, NEW t \in SettledFor(h),
                        NEW u \in SettledFor(h)
                 PROVE  t = u
      BY DEF HireSettledOnce
    <2>1. <<h, t>> \in sentFor /\ <<h, u>> \in sentFor
      BY DEF SettledFor
    <2>2. <<h, t>> = <<h, u>>
      BY <2>1 DEF SerialInv
    <2> QED
      BY <2>2
  <1> QED
    BY <1>1, SerialInvariance, PTL

\* And then a paid hire stays paid: no later failure overwrites it, not even
\* one of a request that follows a lost one.
THEOREM SerialPaidIsFinal ==
    ASSUME Serial
    PROVE  Spec => PaidStaysPaid
  <1>1. IInv /\ SerialInv /\ [Next]_vars =>
          [\A h \in Hires : status[h] = "paid" => status'[h] = "paid"]_vars
    <2> SUFFICES ASSUME IInv, SerialInv, [Next]_vars, NEW h \in Hires, status[h] = "paid"
                 PROVE  status'[h] = "paid"
      OBVIOUS
    <2> USE DEF table, request, chain, faults
    <2>1. TypeOK
      BY DEF IInv
    <2>2. ASSUME NEW u \in Users, NEW t \in Terms, NEW g \in Hires, CreateHire(u, t, g)
          PROVE  status'[h] = "paid"
      BY <2>1, <2>2 DEF CreateHire, SweepExpired, TypeOK
    <2>3. ASSUME NEW r \in Reqs, RecordPaid(r) \/ RecordFailed(r)
          PROVE  status'[h] = "paid"
      <3>1. task[r].hire # h
        BY <2>3 DEF SerialInv, RecordPaid, RecordFailed
      <3> QED
        BY <2>1, <2>3, <3>1 DEF RecordPaid, RecordFailed, TypeOK
    <2>4. ASSUME UNCHANGED status
          PROVE  status'[h] = "paid"
      BY <2>4
    <2> QED
      BY <2>2, <2>3, <2>4
         DEF Next, vars, Handle, SignPayment, PayHire, GetNonce, EstimateGas, SendRaw,
             SendRawAnswerLost, PollSettled, PollAgain, BroadcastRefused, RpcError, Refuse,
             Crash, AnswerNoObject, SendRawNoObject, Abandon, MineNext, Tick
  <1> QED
    BY <1>1, SerialInvariance, PTL DEF Spec, PaidStaysPaid

-----------------------------------------------------------------------------
(* The refinement                                                          *)

\* Mining a transfer is the ledger's Move for the hire it was sent for.
LEMMA MineIsMove ==
    ASSUME IInv, SerialInv, Serial, NEW tx \in pool, MineNext(tx),
           settled' = settled \cup {tx}
    PROVE  \E h \in Hires : Ledger!Move(h)
  <1> DEFINE moved == {p \in sentFor : p[2] \in settled}
             movedNext == {p \in sentFor' : p[2] \in settled'}
  <1>0. /\ TypeOK /\ tx \in Tx /\ tx.nonce = chainNonce
        /\ UNCHANGED <<status, sentFor, abandoned>>
    BY DEF IInv, TypeOK, MineNext, table, faults
  <1>1. PICK h \in Hires : <<h, tx>> \in sentFor
    BY DEF IInv, PoolInv
  <1>2. tx \notin settled
    BY <1>0 DEF IInv, PoolInv, TypeOK
  <1>3. \A p \in sentFor : p[2] = tx => p = <<h, tx>>
    <2> SUFFICES ASSUME NEW p \in sentFor, p[2] = tx PROVE p = <<h, tx>>
      OBVIOUS
    <2>1. p[1] = h
      BY <1>1 DEF IInv, PoolInv
    <2>2. p \in Hires \X Tx
      BY <1>0 DEF TypeOK
    <2> QED
      BY <2>1, <2>2
  <1>4. /\ <<h, tx>> \in movedNext \ moved
        /\ movedNext = moved \cup {<<h, tx>>}
    BY <1>0, <1>1, <1>2, <1>3
  <1>5. <<h, tx>>[1] = h
    OBVIOUS
  <1>6. h \in abandoned \/ (status[h] \in {"pending", "cancelled", "failed"} /\ ~Ledger!HasMoved(h))
    <2> SUFFICES ASSUME h \notin abandoned
                 PROVE  status[h] \in {"pending", "cancelled", "failed"} /\ ~Ledger!HasMoved(h)
      OBVIOUS
    <2>1. \A p \in sentFor : p[1] = h => p = <<h, tx>>
      BY <1>1 DEF SerialInv
    <2>2. status[h] # "paid"
      <3> SUFFICES ASSUME status[h] = "paid" PROVE FALSE
        OBVIOUS
      <3>1. <<h, txHash[h]>> \in sentFor /\ txHash[h] \in settled
        BY DEF IInv, SettleInv
      <3>2. <<h, txHash[h]>> = <<h, tx>>
        BY <2>1, <3>1
      <3> QED
        BY <1>2, <3>1, <3>2
    <2>3. status[h] # "absent"
      <3>1. CASE status[h] \in {"paid", "failed"}
        BY <3>1
      <3>2. ASSUME NEW r \in Reqs, pc[r] \in {"poll", "settled", "refused"}, task[r].hire = h
            PROVE  status[h] # "absent"
        BY <3>2 DEF IInv, TaskInv
      <3> QED
        BY <1>1, <3>1, <3>2 DEF SerialInv
    <2>4. ~Ledger!HasMoved(h)
      BY <1>2, <2>1 DEF Ledger!HasMoved
    <2> QED
      BY <1>0, <2>2, <2>3, <2>4 DEF TypeOK, HiredStatus
  <1> QED
    BY <1>0, <1>4, <1>5, <1>6 DEF Ledger!Move

\* What a loss takes away belonged to hires still to be decided: the ledger's
\* Lose. A transaction the node took with the request has not moved money yet.
LEMMA LossIsLose ==
    ASSUME IInv, SerialInv, Serial, Loss
    PROVE  Ledger!Lose
  <1> USE DEF table, request, chain, faults
  <1>0. TypeOK /\ TaskInv /\ PoolInv
    BY DEF IInv
  <1>1. PICK gone \in SUBSET Open : Abandon(gone)
    BY DEF Loss, Crash, AnswerNoObject, SendRawNoObject, Calling, Open
  <1>2. {task[r].hire : r \in gone} \in SUBSET {h \in Hires : status[h] \in {"pending", "cancelled"}}
    BY <1>0, <1>1 DEF Open, TaskInv, Task, SerialInv
  <1>3. abandoned' = abandoned \cup {task[r].hire : r \in gone} /\ UNCHANGED status
    BY <1>1 DEF Abandon
  <1>4. UNCHANGED {p \in sentFor : p[2] \in settled}
    <2>1. ASSUME NEW r \in Reqs, SendRawNoObject(r)
          PROVE  UNCHANGED {p \in sentFor : p[2] \in settled}
      <3>1. SignedTx(r) \in Tx /\ SignedTx(r) \notin settled
        BY <1>0, <2>1, SignedTxType DEF SendRawNoObject, NodeAccepts, PoolInv, TypeOK, Tx
      <3> QED
        BY <2>1, <3>1 DEF SendRawNoObject, EnterPool
    <2>2. ASSUME UNCHANGED <<sentFor, settled>>
          PROVE  UNCHANGED {p \in sentFor : p[2] \in settled}
      BY <2>2
    <2> QED
      BY <2>1, <2>2 DEF Loss, Crash, AnswerNoObject
  <1> QED
    BY <1>2, <1>3, <1>4 DEF Ledger!Lose

\* Every step of the program is a step of the ledger, or changes nothing in it.
LEMMA LedgerStep ==
    ASSUME IInv, SerialInv, Serial, [Next]_vars
    PROVE  [Ledger!LedgerNext]_(Ledger!ledgerVars)
  <1> USE DEF table, request, chain, faults
  <1>0. TypeOK /\ TaskInv /\ SettleInv /\ PoolInv
    BY DEF IInv
  <1>1. ASSUME NEW u \in Users, NEW t \in Terms, NEW h \in Hires, CreateHire(u, t, h)
        PROVE  Ledger!Open(h)
    <2>1. SweepExpired(u) \in SUBSET {g \in Hires : status[g] = "pending"}
      BY DEF SweepExpired
    <2> QED
      BY <1>1, <2>1 DEF CreateHire, Ledger!Open
  <1>2. ASSUME NEW r \in Reqs, SendRaw(r) \/ SendRawAnswerLost(r)
        PROVE  UNCHANGED <<status, {p \in sentFor : p[2] \in settled}, abandoned>>
    <2>1. SignedTx(r) \in Tx /\ SignedTx(r) \notin settled
      BY <1>0, <1>2, SignedTxType DEF SendRaw, SendRawAnswerLost, NodeAccepts, PoolInv, TypeOK, Tx
    <2> QED
      BY <1>2, <2>1 DEF SendRaw, SendRawAnswerLost, EnterPool
  <1>3. ASSUME NEW r \in Reqs, RecordPaid(r)
        PROVE  Ledger!Confirm(task[r].hire) /\ task[r].hire \in Hires
    <2>1. /\ task[r].hire \in Hires
          /\ <<task[r].hire, sent[r]>> \in sentFor
          /\ sent[r] \in settled
      BY <1>0, <1>3 DEF RecordPaid, TaskInv, Task, SettleInv
    <2>2. Ledger!HasMoved(task[r].hire)
      BY <2>1 DEF Ledger!HasMoved
    <2>3. status[task[r].hire] \in {"pending", "cancelled"}
      BY <1>3 DEF SerialInv, RecordPaid
    <2> QED
      BY <1>3, <2>1, <2>2, <2>3 DEF RecordPaid, Ledger!Confirm
  <1>4. ASSUME NEW r \in Reqs, RecordFailed(r)
        PROVE  Ledger!Fail(task[r].hire) /\ task[r].hire \in Hires
    <2>1. task[r].hire \in Hires /\ status[task[r].hire] \in {"pending", "cancelled"}
      BY <1>0, <1>4 DEF RecordFailed, TaskInv, Task, SerialInv
    <2> QED
      BY <1>4, <2>1 DEF RecordFailed, Ledger!Fail
  <1>5. ASSUME NEW tx \in pool, MineNext(tx)
        PROVE  \/ \E h \in Hires : Ledger!Move(h)
               \/ UNCHANGED <<status, {p \in sentFor : p[2] \in settled}, abandoned>>
    <2>1. CASE settled' = settled \cup {tx}
      BY <1>5, <2>1, MineIsMove
    <2>2. CASE UNCHANGED settled
      BY <1>5, <2>2 DEF MineNext
    <2> QED
      BY <1>5, <2>1, <2>2 DEF MineNext
  <1>6. ASSUME UNCHANGED <<status, sentFor, settled, abandoned>>
        PROVE  UNCHANGED <<status, {p \in sentFor : p[2] \in settled}, abandoned>>
    BY <1>6
  <1>7. ASSUME Loss
        PROVE  Ledger!Lose
    BY <1>7, LossIsLose
  <1> QED
    BY <1>1, <1>2, <1>3, <1>4, <1>5, <1>6, <1>7
       DEF Next, vars, Handle, SignPayment, PayHire, GetNonce, EstimateGas, PollSettled,
           PollAgain, BroadcastRefused, RpcError, Refuse, Loss, Tick, Ledger!LedgerNext,
           Ledger!ledgerVars

\* A serial caller sees the hire ledger, whatever requests the server loses.
THEOREM LedgerImplemented ==
    ASSUME Serial
    PROVE  Spec => ImplementsLedger
  <1>1. Init => Ledger!LedgerInit
    BY DEF Init, Ledger!LedgerInit
  <1>2. IInv /\ SerialInv /\ [Next]_vars => [Ledger!LedgerNext]_(Ledger!ledgerVars)
    BY LedgerStep
  <1> QED
    BY <1>1, <1>2, SerialInvariance, PTL DEF Spec, ImplementsLedger, Ledger!LedgerSpec
=============================================================================
