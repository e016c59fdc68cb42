-------------------------- MODULE EscrowHire_proofs --------------------------
(***************************************************************************)
(* Proofs about EscrowHire, for every value of its constants.              *)
(***************************************************************************)
EXTENDS EscrowHire, FiniteSetTheorems, TLAPS

-----------------------------------------------------------------------------
\* Sending appends to the wallet's queue, mining takes its head.
LEMMA QueueAppend ==
    ASSUME NEW q \in Seq(WalletTx), NEW x \in WalletTx
    PROVE  /\ Append(q, x) \in Seq(WalletTx)
           /\ \A i \in 1..Len(Append(q, x)) :
                \/ i \in 1..Len(q) /\ Append(q, x)[i] = q[i]
                \/ Append(q, x)[i] = x
  OBVIOUS

LEMMA QueueTail ==
    ASSUME NEW q \in Seq(WalletTx), q # <<>>
    PROVE  /\ Head(q) \in WalletTx
           /\ Head(q) = q[1] /\ 1 \in 1..Len(q)
           /\ Tail(q) \in Seq(WalletTx)
           /\ \A i \in 1..Len(Tail(q)) : i + 1 \in 1..Len(q) /\ Tail(q)[i] = q[i + 1]
  OBVIOUS

\* What the head of a wallet's queue is known to be.
LEMMA HeadFacts ==
    ASSUME TypeOK, ChainInv, NEW u \in Wallets, queue[u] # <<>>
    PROVE  /\ Head(queue[u]) \in WalletTx
           /\ Head(queue[u]).hire \in Hires
           /\ row[Head(queue[u]).hire] \in Row
           /\ row[Head(queue[u]).hire].signer = u
           /\ Head(queue[u]).call \in {"registerJob", "setBudget", "fund"} =>
                Head(queue[u]).job \in Jobs /\ job[Head(queue[u]).job] \in Job
  <1>1. queue[u] \in Seq(WalletTx)
    BY DEF TypeOK
  <1>2. Head(queue[u]) \in WalletTx /\ Head(queue[u]) = queue[u][1] /\ 1 \in 1..Len(queue[u])
    BY <1>1, QueueTail
  <1>3. Head(queue[u]).hire \in Hires
    BY <1>2 DEF WalletTx
  <1> QED
    BY <1>2, <1>3 DEF ChainInv, TypeOK

-----------------------------------------------------------------------------
\* Dialogs and requests change rows, queues and requests within their types.
LEMMA TypeDialog ==
    ASSUME TypeOK, DialogInv, NEW t \in Tabs, Dialog(t)
    PROVE  TypeOK'
  <1> USE DEF table, dialog, request, chain
  <1>1. ASSUME NEW o \in Users, NEW u \in Wallets, NEW h \in Hires,
               NEW b \in Budgets, CreateEscrowHire(t, o, u, h, b)
        PROVE  TypeOK'
    BY <1>1 DEF CreateEscrowHire, TypeOK, Row, Stage, Call
  <1>2. ASSUME Sign(t)
        PROVE  TypeOK'
    <2> DEFINE x == [call |-> stage[t], hire |-> hire[t], job |-> myJob[t]]
    <2>1. hire[t] \in Hires /\ row[hire[t]] \in Row
      BY <1>2 DEF Sign, DialogInv, TypeOK, Call
    <2>2. x \in WalletTx /\ row[hire[t]].signer \in Wallets
      BY <1>2, <2>1 DEF Sign, WalletTx, TypeOK, Row
    <2>3. queue' \in [Wallets -> Seq(WalletTx)]
      <3>1. \A u \in Wallets : Append(queue[u], x) \in Seq(WalletTx)
        BY <2>2, QueueAppend DEF TypeOK
      <3> QED
        BY <1>2, <2>2, <3>1 DEF Sign, TypeOK
    <2>4. stage' \in [Tabs -> Stage]
      BY <1>2 DEF Sign, TypeOK, NextStage, Stage, Call
    <2> QED
      BY <1>2, <2>3, <2>4 DEF Sign, TypeOK
  <1>3. ASSUME JobMined(t)
        PROVE  TypeOK'
    BY <1>3 DEF JobMined, ReceiptJobs, TypeOK, Stage, Call
  <1>4. ASSUME GiveUp(t)
        PROVE  TypeOK'
    BY <1>4 DEF GiveUp, TypeOK, Stage
  <1>5. ASSUME NEW r \in Reqs, SubmitFromDialog(t, r)
        PROVE  TypeOK'
    <2>1. hire[t] \in Hires /\ myJob[t] \in Jobs
      BY <1>5 DEF SubmitFromDialog, DialogInv
    <2> QED
      BY <1>5, <2>1 DEF SubmitFromDialog, ReadRow, TypeOK, Submission, Stage
  <1> QED
    BY <1>1, <1>2, <1>3, <1>4, <1>5 DEF Dialog

LEMMA TypeSubmit ==
    ASSUME TypeOK, NEW r \in Reqs, Submit(r)
    PROVE  TypeOK'
  <1> USE DEF table, dialog, request, chain
  <1>1. ASSUME NEW h \in Hires, NEW j \in Jobs, NEW x \in Jobs, SubmitFromClient(r, h, j, x)
        PROVE  TypeOK'
    BY <1>1 DEF SubmitFromClient, ReadRow, TypeOK, Submission
  <1>2. ASSUME CommitLink(r)
        PROVE  TypeOK'
    <2>1. ask[r] \in Submission
      BY <1>2 DEF CommitLink, TypeOK
    <2>2. jobId' \in [Hires -> Jobs \cup {None}] /\ txHash' \in [Hires -> Jobs \cup {None}]
      BY <1>2, <2>1 DEF CommitLink, TypeOK, Submission
    <2>3. status' \in [Hires -> {"absent", "pending", "paid"}]
      BY <1>2, <2>1 DEF CommitLink, TypeOK, Submission
    <2> QED
      BY <1>2, <2>2, <2>3 DEF CommitLink, TypeOK, Nothing
  <1>3. ASSUME LoseRequest(r)
        PROVE  TypeOK'
    BY <1>3 DEF LoseRequest, TypeOK, Nothing
  <1> QED
    BY <1>1, <1>2, <1>3 DEF Submit

LEMMA TypeMine ==
    ASSUME TypeOK, ChainInv, NEW u \in Wallets, Mine(u)
    PROVE  TypeOK'
  <1> USE DEF table, dialog, request, chain
  <1> DEFINE x == Head(queue[u])
  <1>1. queue[u] # <<>> /\ Mined(u)
    BY DEF Mine, MineApprove, MineCreateJob, MineRegisterJob, MineSetBudget, MineFund,
           FundReverts, TxFails, NextTx
  <1>2. queue' \in [Wallets -> Seq(WalletTx)]
    <2>1. Tail(queue[u]) \in Seq(WalletTx)
      BY <1>1, QueueTail DEF TypeOK
    <2> QED
      BY <1>1, <2>1 DEF Mined, TypeOK
  <1>3. /\ x \in WalletTx /\ x.hire \in Hires /\ row[x.hire] \in Row
        /\ x.call \in {"registerJob", "setBudget", "fund"} => x.job \in Jobs /\ job[x.job] \in Job
    BY <1>1, HeadFacts
  <1>4. row[x.hire].budget \in Nat
    BY <1>3, EscrowConstants DEF Row
  <1>5. CASE MineApprove(u)
    BY <1>5, <1>2, <1>4 DEF MineApprove, TypeOK
  <1>6. CASE MineCreateJob(u)
    <2>1. job' \in [Jobs -> Job \cup {None}]
      BY <1>6, <1>3 DEF MineCreateJob, TypeOK, Job
    <2> QED
      BY <1>6, <1>2, <2>1 DEF MineCreateJob, TypeOK
  <1>7. CASE MineRegisterJob(u)
    <2>1. job' \in [Jobs -> Job \cup {None}]
      BY <1>7, <1>3 DEF MineRegisterJob, NextTx, TypeOK, Job
    <2> QED
      BY <1>7, <1>2, <2>1 DEF MineRegisterJob, TypeOK
  <1>8. CASE MineSetBudget(u)
    <2>1. job' \in [Jobs -> Job \cup {None}]
      BY <1>8, <1>3, <1>4 DEF MineSetBudget, NextTx, TypeOK, Job
    <2> QED
      BY <1>8, <1>2, <2>1 DEF MineSetBudget, TypeOK
  <1>9. CASE MineFund(u)
    <2>1. job' \in [Jobs -> Job \cup {None}]
      BY <1>9, <1>3 DEF MineFund, NextTx, TypeOK, Job
    <2>2. /\ allowance[u] - row[x.hire].budget \in Nat
          /\ balance[u] - row[x.hire].budget \in Nat
      BY <1>9, <1>4 DEF MineFund, Covered, TypeOK
    <2>3. allowance' \in [Wallets -> Nat] /\ balance' \in [Wallets -> Nat]
      BY <1>9, <2>2 DEF MineFund, TypeOK
    <2> QED
      BY <1>9, <1>2, <2>1, <2>3 DEF MineFund, TypeOK
  <1>10. CASE FundReverts(u)
    BY <1>10, <1>2 DEF FundReverts, TypeOK
  <1>11. CASE TxFails(u)
    BY <1>11, <1>2, EscrowConstants DEF TxFails, TypeOK
  <1> QED
    BY <1>5, <1>6, <1>7, <1>8, <1>9, <1>10, <1>11 DEF Mine

LEMMA TypeStep == TypeOK /\ DialogInv /\ ChainInv /\ [Next]_vars => TypeOK'
  <1> SUFFICES ASSUME TypeOK, DialogInv, ChainInv, [Next]_vars
               PROVE  TypeOK'
    OBVIOUS
  <1>1. CASE UNCHANGED vars
    BY <1>1 DEF vars, table, dialog, request, chain, TypeOK
  <1> QED
    BY <1>1, TypeDialog, TypeSubmit, TypeMine DEF Next

-----------------------------------------------------------------------------
\* Rows, the links and the origin of jobs are written once.
LEMMA WriteOnce ==
    ASSUME TypeOK, DialogInv, ChainInv, [Next]_vars
    PROVE  /\ \A h \in Hires : row[h] # None => row'[h] = row[h]
           /\ \A j \in Jobs : job[j] # None =>
                 /\ job'[j] # None
                 /\ job'[j].hire = job[j].hire
                 /\ job'[j].client = job[j].client
           /\ \A h \in Hires : jobId[h] # None => jobId'[h] # None
  <1> USE DEF table, dialog, request, chain
  <1>1. \A h \in Hires : row[h] # None => row'[h] = row[h]
    BY DEF Next, vars, Dialog, CreateEscrowHire, Sign, JobMined, GiveUp, SubmitFromDialog,
           Submit, SubmitFromClient, CommitLink, LoseRequest, Mine, MineApprove,
           MineCreateJob, MineRegisterJob, MineSetBudget, MineFund, FundReverts, TxFails,
           TypeOK
  <1>2. \A h \in Hires : jobId[h] # None => jobId'[h] # None
    <2>1. ASSUME NEW r \in Reqs, CommitLink(r)
          PROVE  \A h \in Hires : jobId[h] # None => jobId'[h] # None
      <3>1. ask[r].job # None
        BY <2>1, EscrowConstants DEF CommitLink, TypeOK, Submission
      <3> QED
        BY <2>1, <3>1 DEF CommitLink, TypeOK
    <2>2. ASSUME UNCHANGED jobId
          PROVE  \A h \in Hires : jobId[h] # None => jobId'[h] # None
      BY <2>2
    <2> QED
      BY <2>1, <2>2
         DEF Next, vars, Dialog, CreateEscrowHire, Sign, JobMined, GiveUp, SubmitFromDialog,
             Submit, SubmitFromClient, LoseRequest, Mine, MineApprove, MineCreateJob,
             MineRegisterJob, MineSetBudget, MineFund, FundReverts, TxFails
  <1>3. \A j \in Jobs : job[j] # None => /\ job'[j] # None
                                        /\ job'[j].hire = job[j].hire
                                        /\ job'[j].client = job[j].client
    <2> DEFINE Kept == \A j \in Jobs : job[j] # None => /\ job'[j] # None
                                                       /\ job'[j].hire = job[j].hire
                                                       /\ job'[j].client = job[j].client
    <2>1. ASSUME NEW u \in Wallets, MineCreateJob(u)
          PROVE  Kept
      BY <2>1 DEF MineCreateJob, TypeOK
    <2>2. ASSUME NEW u \in Wallets, MineRegisterJob(u) \/ MineSetBudget(u) \/ MineFund(u)
          PROVE  Kept
      <3> DEFINE k == Head(queue[u]).job
                 old == job[k]
      <3>1. k \in Jobs /\ old \in Job
        BY <2>2, HeadFacts DEF MineRegisterJob, MineSetBudget, MineFund, NextTx
      <3>2. row[Head(queue[u]).hire].budget \in Nat
        BY <2>2, HeadFacts, EscrowConstants
           DEF MineRegisterJob, MineSetBudget, MineFund, NextTx, Row
      <3>3. \E new \in Job : /\ job' = [job EXCEPT ![k] = new]
                            /\ new.hire = old.hire /\ new.client = old.client
        <4>1. CASE MineRegisterJob(u)
          <5> DEFINE new == [old EXCEPT !.policy = TRUE]
          <5>1. new \in Job /\ new.hire = old.hire /\ new.client = old.client
            BY <3>1 DEF Job
          <5>2. job' = [job EXCEPT ![k] = new]
            BY <4>1, <3>1 DEF MineRegisterJob, TypeOK
          <5> QED
            BY <5>1, <5>2
        <4>2. CASE MineSetBudget(u)
          <5> DEFINE new == [old EXCEPT !.budget = row[Head(queue[u]).hire].budget]
          <5>1. new \in Job /\ new.hire = old.hire /\ new.client = old.client
            BY <3>1, <3>2 DEF Job
          <5>2. job' = [job EXCEPT ![k] = new]
            BY <4>2, <3>1 DEF MineSetBudget, TypeOK
          <5> QED
            BY <5>1, <5>2
        <4>3. CASE MineFund(u)
          <5> DEFINE new == [old EXCEPT !.funded = TRUE]
          <5>1. new \in Job /\ new.hire = old.hire /\ new.client = old.client
            BY <3>1 DEF Job
          <5>2. job' = [job EXCEPT ![k] = new]
            BY <4>3, <3>1 DEF MineFund, TypeOK
          <5> QED
            BY <5>1, <5>2
        <4> QED
          BY <2>2, <4>1, <4>2, <4>3
      <3> QED
        BY <3>1, <3>3, EscrowConstants DEF TypeOK
    <2>3. ASSUME UNCHANGED job
          PROVE  Kept
      BY <2>3
    <2> QED
      BY <2>1, <2>2, <2>3
         DEF Next, vars, Dialog, CreateEscrowHire, Sign, JobMined, GiveUp, SubmitFromDialog,
             Submit, SubmitFromClient, CommitLink, LoseRequest, Mine, MineApprove,
             FundReverts, TxFails
  <1> QED
    BY <1>1, <1>2, <1>3

-----------------------------------------------------------------------------
\* A row is absent, pending or paid together with its columns, and a dialog
\* works on a row of its own and on the job its receipt named.
LEMMA DialogStep ==
    TypeOK /\ DialogInv /\ ChainInv /\ RequestInv /\ [Next]_vars => DialogInv'
  <1> SUFFICES ASSUME TypeOK, DialogInv, ChainInv, RequestInv, [Next]_vars
               PROVE  DialogInv'
    OBVIOUS
  <1> USE DEF table, dialog, request, chain
  <1>1. \A h \in Hires : /\ ((status[h] = "absent") <=> (row[h] = None))'
                         /\ ((status[h] = "paid") <=> (jobId[h] # None))'
    <2>1. ASSUME NEW r \in Reqs, CommitLink(r)
          PROVE  \A h \in Hires : /\ ((status[h] = "absent") <=> (row[h] = None))'
                                 /\ ((status[h] = "paid") <=> (jobId[h] # None))'
      <3>1. /\ ask[r] \in Submission /\ ask[r].hire \in Hires
            /\ ask[r].job \in Jobs /\ ask[r].job # None
        BY <2>1, EscrowConstants DEF CommitLink, TypeOK, Submission
      <3>2. jobId'[ask[r].hire] # None
        BY <2>1, <3>1 DEF CommitLink, TypeOK, RequestInv
      <3> QED
        BY <2>1, <3>1, <3>2 DEF CommitLink, TypeOK, RequestInv, DialogInv
    <2>2. ASSUME NEW t \in Tabs, NEW o \in Users, NEW u \in Wallets, NEW h \in Hires,
                 NEW b \in Budgets, CreateEscrowHire(t, o, u, h, b)
          PROVE  \A g \in Hires : /\ ((status[g] = "absent") <=> (row[g] = None))'
                                 /\ ((status[g] = "paid") <=> (jobId[g] # None))'
      <3>1. [owner |-> o, signer |-> u, budget |-> b] # None
        BY EscrowConstants DEF Row
      <3> QED
        BY <2>2, <3>1 DEF CreateEscrowHire, TypeOK, DialogInv
    <2>3. ASSUME UNCHANGED table
          PROVE  \A g \in Hires : /\ ((status[g] = "absent") <=> (row[g] = None))'
                                 /\ ((status[g] = "paid") <=> (jobId[g] # None))'
      BY <2>3 DEF DialogInv
    <2> QED
      BY <2>1, <2>2, <2>3
         DEF Next, vars, Dialog, Sign, JobMined, GiveUp, SubmitFromDialog, Submit,
             SubmitFromClient, LoseRequest, Mine, MineApprove, MineCreateJob,
             MineRegisterJob, MineSetBudget, MineFund, FundReverts, TxFails
  <1> DEFINE Good(t) == /\ stage[t] # "idle" => hire[t] \in Hires /\ row[hire[t]] # None
                        /\ stage[t] \in {"registerJob", "setBudget", "fund", "submit"} =>
                             /\ myJob[t] \in Jobs
                             /\ job[myJob[t]] # None
                             /\ job[myJob[t]].hire = hire[t]
  <1>2. ASSUME NEW t \in Tabs, stage'[t] = stage[t], hire'[t] = hire[t], myJob'[t] = myJob[t]
        PROVE  Good(t)'
    <2>1. Good(t)
      BY DEF DialogInv
    <2> QED
      BY <1>2, <2>1, WriteOnce
  <1>3. ASSUME NEW t \in Tabs, Dialog(t), NEW s \in Tabs
        PROVE  Good(s)'
    <2>1. ASSUME s # t
          PROVE  Good(s)'
      <3>1. stage'[s] = stage[s] /\ hire'[s] = hire[s] /\ myJob'[s] = myJob[s]
        BY <1>3, <2>1
           DEF Dialog, CreateEscrowHire, Sign, JobMined, GiveUp, SubmitFromDialog, TypeOK
      <3> QED
        BY <3>1, <1>2
    <2>2. ASSUME NEW o \in Users, NEW u \in Wallets, NEW h \in Hires,
                 NEW b \in Budgets, CreateEscrowHire(t, o, u, h, b), s = t
          PROVE  Good(s)'
      BY <2>2, EscrowConstants DEF CreateEscrowHire, TypeOK, Row
    <2>3. ASSUME Sign(t), s = t
          PROVE  Good(s)'
      <3>1. /\ stage'[t] = NextStage[stage[t]] /\ stage[t] \in Call
            /\ UNCHANGED <<row, hire, myJob, job>>
        BY <2>3 DEF Sign, TypeOK
      <3>2. stage'[t] \in {"registerJob", "setBudget", "fund", "submit"} =>
              stage[t] \in {"registerJob", "setBudget", "fund"}
        BY <3>1 DEF NextStage, Call
      <3> QED
        BY <2>3, <3>1, <3>2 DEF DialogInv, Call
    <2>4. ASSUME JobMined(t), s = t
          PROVE  Good(s)'
      BY <2>4 DEF JobMined, ReceiptJobs, DialogInv, TypeOK
    <2>5. ASSUME GiveUp(t) \/ \E r \in Reqs : SubmitFromDialog(t, r), s = t
          PROVE  Good(s)'
      BY <2>5 DEF GiveUp, SubmitFromDialog, TypeOK
    <2> QED
      BY <1>3, <2>1, <2>2, <2>3, <2>4, <2>5 DEF Dialog
  <1>4. ASSUME UNCHANGED dialog
        PROVE  \A t \in Tabs : Good(t)'
    BY <1>4, <1>2
  <1>5. \A t \in Tabs : Good(t)'
    BY <1>3, <1>4
       DEF Next, vars, Submit, SubmitFromClient, CommitLink, LoseRequest, Mine, MineApprove,
           MineCreateJob, MineRegisterJob, MineSetBudget, MineFund, FundReverts, TxFails
  <1> QED
    BY <1>1, <1>5 DEF DialogInv

-----------------------------------------------------------------------------
\* Queued transactions stay those of their wallet's own rows and jobs.
LEMMA ChainStep == TypeOK /\ DialogInv /\ ChainInv /\ [Next]_vars => ChainInv'
  <1> SUFFICES ASSUME TypeOK, DialogInv, ChainInv, [Next]_vars
               PROVE  ChainInv'
    OBVIOUS
  <1> USE DEF table, dialog, request, chain
  <1> DEFINE Own(x, u) == /\ row[x.hire] # None
                          /\ row[x.hire].signer = u
                          /\ x.call \in {"registerJob", "setBudget", "fund"} =>
                               x.job \in Jobs /\ job[x.job] # None
             OwnNext(x, u) == /\ row'[x.hire] # None
                              /\ row'[x.hire].signer = u
                              /\ x.call \in {"registerJob", "setBudget", "fund"} =>
                                   x.job \in Jobs /\ job'[x.job] # None
  <1>1. ASSUME NEW x \in WalletTx, NEW u \in Wallets, Own(x, u)
        PROVE  OwnNext(x, u)
    BY <1>1, WriteOnce DEF WalletTx
  <1>2. ASSUME NEW u \in Wallets, NEW i \in 1..Len(queue[u])
        PROVE  queue[u][i] \in WalletTx /\ Own(queue[u][i], u) /\ OwnNext(queue[u][i], u)
    <2>1. queue[u][i] \in WalletTx
      BY <1>2 DEF TypeOK
    <2> QED
      BY <2>1, <1>1 DEF ChainInv
  <1>3. \A u \in Wallets : \A i \in 1..Len(queue'[u]) : OwnNext(queue'[u][i], u)
    <2>1. CASE UNCHANGED queue
      BY <2>1, <1>2
    <2>2. ASSUME NEW t \in Tabs, Sign(t)
          PROVE  \A u \in Wallets : \A i \in 1..Len(queue'[u]) : OwnNext(queue'[u][i], u)
      <3> DEFINE x == [call |-> stage[t], hire |-> hire[t], job |-> myJob[t]]
                 o == row[hire[t]].signer
      <3>1. /\ hire[t] \in Hires /\ row[hire[t]] # None /\ row[hire[t]] \in Row
            /\ stage[t] \in Call
        BY <2>2 DEF Sign, DialogInv, TypeOK, Call
      <3>2. x \in WalletTx /\ o \in Wallets
        BY <3>1 DEF WalletTx, TypeOK, Row
      <3>3. Own(x, o)
        BY <3>1 DEF DialogInv, Call
      <3>4. queue' = [queue EXCEPT ![o] = Append(queue[o], x)]
        BY <2>2, <3>2 DEF Sign, TypeOK
      <3>5. ASSUME NEW u \in Wallets, NEW i \in 1..Len(queue'[u])
            PROVE  OwnNext(queue'[u][i], u)
        <4>1. CASE u = o
          <5>1. queue'[u] = Append(queue[o], x) /\ queue[o] \in Seq(WalletTx)
            BY <3>4, <3>2, <4>1 DEF TypeOK
          <5>2. \/ i \in 1..Len(queue[u]) /\ queue'[u][i] = queue[u][i]
                \/ queue'[u][i] = x
            BY <5>1, <3>2, <3>5, <4>1, QueueAppend
          <5>3. OwnNext(x, u)
            BY <1>1, <3>2, <3>3, <4>1
          <5>4. i \in 1..Len(queue[u]) => OwnNext(queue[u][i], u)
            BY <1>2
          <5> HIDE DEF x, OwnNext
          <5> QED
            BY <5>2, <5>3, <5>4
        <4>2. CASE u # o
          BY <4>2, <3>4, <3>5, <1>2 DEF TypeOK
        <4> QED
          BY <4>1, <4>2
      <3> QED
        BY <3>5
    <2>3. ASSUME NEW w \in Wallets, queue[w] # <<>>, Mined(w)
          PROVE  \A u \in Wallets : \A i \in 1..Len(queue'[u]) : OwnNext(queue'[u][i], u)
      <3>1. ASSUME NEW u \in Wallets, NEW i \in 1..Len(queue'[u])
            PROVE  OwnNext(queue'[u][i], u)
        <4>1. CASE u = w
          <5>1. queue'[u] = Tail(queue[u]) /\ queue[u] \in Seq(WalletTx)
            BY <2>3, <4>1 DEF Mined, TypeOK
          <5>2. i + 1 \in 1..Len(queue[u]) /\ queue'[u][i] = queue[u][i + 1]
            BY <5>1, <2>3, <3>1, <4>1, QueueTail
          <5> QED
            BY <5>2, <1>2
        <4>2. CASE u # w
          BY <4>2, <2>3, <3>1, <1>2 DEF Mined, TypeOK
        <4> QED
          BY <4>1, <4>2
      <3> QED
        BY <3>1
    <2>4. ASSUME NEW w \in Wallets, Mine(w)
          PROVE  queue[w] # <<>> /\ Mined(w)
      BY <2>4
         DEF Mine, MineApprove, MineCreateJob, MineRegisterJob, MineSetBudget, MineFund,
             FundReverts, TxFails, NextTx
    <2> QED
      BY <2>1, <2>2, <2>3, <2>4
         DEF Next, vars, Dialog, CreateEscrowHire, JobMined, GiveUp, SubmitFromDialog, Submit,
             SubmitFromClient, CommitLink, LoseRequest
  <1>4. \A j \in Jobs : job'[j] # None =>
            row'[job'[j].hire] # None /\ job'[j].client = row'[job'[j].hire].signer
    <2>1. ASSUME NEW u \in Wallets, MineCreateJob(u)
          PROVE  \A j \in Jobs : job'[j] # None =>
                    row'[job'[j].hire] # None /\ job'[j].client = row'[job'[j].hire].signer
      <3>1. /\ Head(queue[u]).hire \in Hires /\ row[Head(queue[u]).hire] \in Row
            /\ row[Head(queue[u]).hire].signer = u
        BY <2>1, HeadFacts DEF MineCreateJob, NextTx
      <3> QED
        BY <2>1, <3>1, EscrowConstants DEF MineCreateJob, TypeOK, ChainInv
    <2>2. ASSUME \A j \in Jobs : job'[j] # None => job[j] # None
          PROVE  \A j \in Jobs : job'[j] # None =>
                    row'[job'[j].hire] # None /\ job'[j].client = row'[job'[j].hire].signer
      <3>1. \A j \in Jobs : job[j] # None => job[j].hire \in Hires
        BY DEF TypeOK, Job
      <3> QED
        BY <2>2, <3>1, WriteOnce DEF ChainInv
    <2>3. ASSUME NEW u \in Wallets, MineRegisterJob(u) \/ MineSetBudget(u) \/ MineFund(u)
          PROVE  \A j \in Jobs : job'[j] # None => job[j] # None
      <3>1. Head(queue[u]).job \in Jobs /\ job[Head(queue[u]).job] \in Job
        BY <2>3, HeadFacts DEF MineRegisterJob, MineSetBudget, MineFund, NextTx
      <3> QED
        BY <2>3, <3>1, EscrowConstants DEF MineRegisterJob, MineSetBudget, MineFund, TypeOK
    <2> QED
      BY <2>1, <2>2, <2>3
         DEF Next, vars, Dialog, CreateEscrowHire, Sign, JobMined, GiveUp, SubmitFromDialog,
             Submit, SubmitFromClient, CommitLink, LoseRequest, Mine, MineApprove,
             FundReverts, TxFails
  <1> QED
    BY <1>3, <1>4 DEF ChainInv

\* An accepted submission is for a row that exists.
LEMMA RequestStep ==
    TypeOK /\ DialogInv /\ ChainInv /\ RequestInv /\ [Next]_vars => RequestInv'
  <1> SUFFICES ASSUME TypeOK, DialogInv, ChainInv, RequestInv, [Next]_vars
               PROVE  RequestInv'
    OBVIOUS
  <1> USE DEF table, dialog, request, chain
  <1> DEFINE Good(r) == ask[r] # None => /\ row[ask[r].hire] # None
                                         /\ seen[r].job # None => jobId[ask[r].hire] # None
  <1>1. ASSUME NEW r \in Reqs, ask'[r] = ask[r], seen'[r] = seen[r]
        PROVE  Good(r)'
    <2>1. ask[r] # None => ask[r].hire \in Hires
      BY DEF TypeOK, Submission
    <2> QED
      BY <1>1, <2>1, WriteOnce DEF RequestInv
  <1>2. ASSUME NEW r \in Reqs, NEW h \in Hires, NEW j \in Jobs, NEW x \in Jobs,
               ReadRow(r, h, j, x), UNCHANGED table
        PROVE  \A q \in Reqs : Good(q)'
    BY <1>1, <1>2 DEF ReadRow, Linkable, TypeOK
  <1>3. ASSUME NEW r \in Reqs, CommitLink(r) \/ LoseRequest(r)
        PROVE  \A q \in Reqs : Good(q)'
    BY <1>1, <1>3 DEF CommitLink, LoseRequest, TypeOK
  <1>4. ASSUME UNCHANGED request
        PROVE  \A q \in Reqs : Good(q)'
    BY <1>1, <1>4
  <1>5. ASSUME NEW t \in Tabs, NEW r \in Reqs, SubmitFromDialog(t, r)
        PROVE  \A q \in Reqs : Good(q)'
    <2>1. hire[t] \in Hires /\ myJob[t] \in Jobs
      BY <1>5 DEF SubmitFromDialog, DialogInv
    <2> QED
      BY <1>2, <1>5, <2>1 DEF SubmitFromDialog
  <1>6. \A q \in Reqs : Good(q)'
    BY <1>2, <1>3, <1>4, <1>5
       DEF Next, vars, Dialog, CreateEscrowHire, Sign, JobMined, GiveUp, Submit,
           SubmitFromClient, Mine, MineApprove, MineCreateJob, MineRegisterJob,
           MineSetBudget, MineFund, FundReverts, TxFails
  <1> QED
    BY <1>6 DEF RequestInv

\* A dialog submits the job its own transaction created.
LEMMA LinkStep ==
    TypeOK /\ DialogInv /\ ChainInv /\ RequestInv /\ LinkInv /\ [Next]_vars => LinkInv'
  <1> SUFFICES ASSUME TypeOK, DialogInv, ChainInv, RequestInv, LinkInv, [Next]_vars,
                      ~AnyClient
               PROVE  LinkInv'
    BY DEF LinkInv
  <1> USE DEF table, dialog, request, chain
  <1> DEFINE Asked(r) == ask[r] # None => /\ job[ask[r].job] # None
                                          /\ job[ask[r].job].hire = ask[r].hire
                                          /\ ask[r].tx = ask[r].job
                                          /\ seen[r].tx = seen[r].job
             Linked(h) == /\ txHash[h] = jobId[h]
                          /\ jobId[h] # None =>
                               job[jobId[h]] # None /\ job[jobId[h]].hire = h
  <1>1. ASSUME NEW r \in Reqs, ask'[r] = ask[r], seen'[r] = seen[r]
        PROVE  Asked(r)'
    <2>1. ask[r] # None => ask[r].job \in Jobs
      BY DEF TypeOK, Submission
    <2> QED
      BY <1>1, <2>1, WriteOnce DEF LinkInv
  <1>2. ASSUME NEW h \in Hires, jobId'[h] = jobId[h], txHash'[h] = txHash[h]
        PROVE  Linked(h)'
    <2>1. Linked(h) /\ (jobId[h] # None => jobId[h] \in Jobs)
      BY DEF LinkInv, TypeOK
    <2> QED
      BY <1>2, <2>1, WriteOnce
  <1>3. \A r \in Reqs : Asked(r)'
    <2>1. ASSUME NEW t \in Tabs, NEW r \in Reqs, SubmitFromDialog(t, r)
          PROVE  \A q \in Reqs : Asked(q)'
      <3>1. /\ hire[t] \in Hires /\ myJob[t] \in Jobs
            /\ job[myJob[t]] # None /\ job[myJob[t]].hire = hire[t]
        BY <2>1 DEF SubmitFromDialog, DialogInv
      <3>2. txHash[hire[t]] = jobId[hire[t]]
        BY <3>1 DEF LinkInv
      <3>3. ASSUME NEW q \in Reqs, q # r
            PROVE  Asked(q)'
        BY <2>1, <3>3, <1>1 DEF SubmitFromDialog, ReadRow, TypeOK
      <3>4. Asked(r)'
        BY <2>1, <3>1, <3>2 DEF SubmitFromDialog, ReadRow, TypeOK
      <3> QED
        BY <3>3, <3>4
    <2>2. ASSUME NEW r \in Reqs, CommitLink(r) \/ LoseRequest(r)
          PROVE  \A q \in Reqs : Asked(q)'
      BY <1>1, <2>2 DEF CommitLink, LoseRequest, TypeOK
    <2>3. ASSUME UNCHANGED request
          PROVE  \A q \in Reqs : Asked(q)'
      BY <1>1, <2>3
    <2> QED
      BY <2>1, <2>2, <2>3
         DEF Next, vars, Dialog, CreateEscrowHire, Sign, JobMined, GiveUp, Submit,
             SubmitFromClient, Mine, MineApprove, MineCreateJob, MineRegisterJob,
             MineSetBudget, MineFund, FundReverts, TxFails
  <1>4. \A h \in Hires : Linked(h)'
    <2>1. ASSUME NEW r \in Reqs, CommitLink(r), NEW h \in Hires
          PROVE  Linked(h)'
      <3> DEFINE a == ask[r]
      <3>1. /\ a \in Submission /\ a.hire \in Hires /\ a.job \in Jobs /\ a.job # None
            /\ a.tx = a.job /\ seen[r].tx = seen[r].job
            /\ job[a.job] # None /\ job[a.job].hire = a.hire
        BY <2>1, EscrowConstants DEF CommitLink, TypeOK, Submission, LinkInv
      <3>2. CASE h = a.hire /\ seen[r].job # a.job
        <4>1. jobId'[h] = a.job /\ txHash'[h] = a.job /\ UNCHANGED job
          BY <2>1, <3>1, <3>2 DEF CommitLink, TypeOK
        <4> QED
          BY <4>1, <3>1, <3>2
      <3>3. CASE h # a.hire \/ seen[r].job = a.job
        <4>1. jobId'[h] = jobId[h] /\ txHash'[h] = txHash[h]
          BY <2>1, <3>1, <3>3 DEF CommitLink, TypeOK
        <4> QED
          BY <4>1, <1>2
      <3> QED
        BY <3>2, <3>3
    <2>2. ASSUME UNCHANGED <<jobId, txHash>>
          PROVE  \A h \in Hires : Linked(h)'
      BY <1>2, <2>2
    <2> QED
      BY <2>1, <2>2
         DEF Next, vars, Dialog, CreateEscrowHire, Sign, JobMined, GiveUp, SubmitFromDialog,
             Submit, SubmitFromClient, LoseRequest, Mine, MineApprove, MineCreateJob,
             MineRegisterJob, MineSetBudget, MineFund, FundReverts, TxFails
  <1> QED
    BY <1>3, <1>4 DEF LinkInv

-----------------------------------------------------------------------------
(* What a wallet pays.                                                     *)

\* A queue that appends keeps its places, one that loses its head shifts them.
LEMMA QueuePlaces ==
    ASSUME NEW q \in Seq(WalletTx), NEW x \in WalletTx
    PROVE  /\ Len(q) \in Nat
           /\ Len(Append(q, x)) = Len(q) + 1
           /\ \A i \in 1..Len(q) : Append(q, x)[i] = q[i]
           /\ Append(q, x)[Len(q) + 1] = x
           /\ q # <<>> => /\ Len(Tail(q)) = Len(q) - 1 /\ Len(q) >= 1
                          /\ \A i \in 1..Len(Tail(q)) : Tail(q)[i] = q[i + 1]
                          /\ \A i \in 1..Len(q) : i # 1 => /\ i - 1 \in 1..Len(Tail(q))
                                                           /\ Tail(q)[i - 1] = q[i]
  OBVIOUS

\* Whatever is left for one hire of C is there for C - 1 after one has paid.
LEMMA OneLess ==
    ASSUME NEW b \in Nat, NEW f \in Nat, NEW c \in Nat, NEW m \in Nat,
           c >= 1, b * c <= m, f * c <= m
    PROVE  b * (c - 1) <= m - f /\ f <= m
  <1>1. b * (c - 1) = b * c - b /\ f * (c - 1) = f * c - f /\ b * c \in Nat /\ f * c \in Nat
    OBVIOUS
  <1>2. f * (c - 1) >= 0
    BY <1>1
  <1>3. CASE b >= f
    BY <1>1, <1>2, <1>3
  <1>4. CASE b < f
    <2>1. PICK d \in Nat : f = b + d
      <3>1. f - b \in Nat /\ f = b + (f - b)
        BY <1>4
      <3> QED
        BY <3>1
    <2>2. d * (c - 1) >= 0
      OBVIOUS
    <2>3. f * (c - 1) = b * (c - 1) + d * (c - 1)
      BY <2>1
    <2> QED
      BY <1>1, <2>2, <2>3
  <1> QED
    BY <1>3, <1>4

\* A hire that has not taken its budget yet is covered.
LEMMA FundCovered ==
    ASSUME TypeOK, ChainInv, Orderly, OrderInv, OnceInv, NEW u \in Wallets, NextTx(u, "fund")
    PROVE  Covered(u)
  <1> DEFINE x == Head(queue[u])
  <1>1. /\ x \in WalletTx /\ x.hire \in Hires /\ row[x.hire] \in Row /\ row[x.hire].signer = u
        /\ x = queue[u][1] /\ 1 \in 1..Len(queue[u]) /\ x.call = "fund"
    BY HeadFacts, QueueTail DEF NextTx, TypeOK
  <1>2. Prepared(u, "fund", x.hire, x.job)
    BY <1>1 DEF OrderInv, InTurn
  <1>3. row[x.hire].budget \in Budgets /\ row[x.hire].budget \in Nat
    BY <1>1, EscrowConstants DEF Row
  <1>4. row[x.hire].budget <= balance[u]
    <2> DEFINE Due == Hires \ Spent(u)
    <2>1. x.hire \in Due
      BY <1>1 DEF OnceInv
    <2>2. IsFiniteSet(Due)
      BY FS_Subset DEF Orderly
    <2>3. Cardinality(Due) \in Nat /\ Cardinality(Due) # 0
      BY <2>1, <2>2, FS_CardinalityType, FS_EmptySet
    <2>4. row[x.hire].budget * Cardinality(Due) <= balance[u] /\ balance[u] \in Nat
      BY <1>3 DEF OnceInv, TypeOK
    <2> HIDE DEF Due
    <2> QED
      BY <1>3, <2>3, <2>4, OneLess
  <1>5. row[x.hire].budget <= allowance[u]
    BY <1>2, <1>3 DEF Prepared, TypeOK
  <1> QED
    BY <1>2, <1>4, <1>5 DEF Covered, Prepared

\* All that a mined transaction does, for wallets in order.
LEMMA Effect ==
    ASSUME TypeOK, ChainInv, Orderly, OrderInv, OnceInv, NEW u \in Wallets, Mine(u), NEW x,
           x = Head(queue[u])
    PROVE  /\ UNCHANGED <<table, dialog, request>>
           /\ queue[u] # <<>> /\ queue'[u] = Tail(queue[u])
           /\ \A w \in Wallets \ {u} :
                queue'[w] = queue[w] /\ allowance'[w] = allowance[w] /\ balance'[w] = balance[w]
           /\ x.call = "approve" => allowance'[u] = row[x.hire].budget
           /\ x.call \notin {"approve", "fund"} => allowance'[u] = allowance[u]
           /\ x.call # "fund" => balance'[u] = balance[u]
           /\ x.call = "fund" => balance'[u] = balance[u] - row[x.hire].budget
           /\ \A k \in Jobs :
                job[k] # None /\ (x.call \in {"registerJob", "setBudget", "fund"} => k # x.job)
                  => job'[k] = job[k]
           /\ \A k \in Jobs : job[k] = None /\ job'[k] # None => ~job'[k].funded
           /\ x.call \in {"registerJob", "setBudget", "fund"} =>
                /\ job'[x.job].policy = (job[x.job].policy \/ x.call = "registerJob")
                /\ job'[x.job].funded = (job[x.job].funded \/ x.call = "fund")
                /\ job'[x.job].budget = IF x.call = "setBudget" THEN row[x.hire].budget
                                        ELSE job[x.job].budget
  <1> USE DEF table, dialog, request, chain
  <1> DEFINE Late == {"registerJob", "setBudget", "fund"}
             Books ==
               /\ \A w \in Wallets \ {u} : allowance'[w] = allowance[w] /\ balance'[w] = balance[w]
               /\ x.call = "approve" => allowance'[u] = row[x.hire].budget
               /\ x.call \notin {"approve", "fund"} => allowance'[u] = allowance[u]
               /\ x.call # "fund" => balance'[u] = balance[u]
               /\ x.call = "fund" => balance'[u] = balance[u] - row[x.hire].budget
             Others ==
               /\ \A k \in Jobs : job[k] # None /\ (x.call \in Late => k # x.job) => job'[k] = job[k]
               /\ \A k \in Jobs : job[k] = None /\ job'[k] # None => ~job'[k].funded
             Own ==
               x.call \in Late =>
                 /\ job'[x.job].policy = (job[x.job].policy \/ x.call = "registerJob")
                 /\ job'[x.job].funded = (job[x.job].funded \/ x.call = "fund")
                 /\ job'[x.job].budget = IF x.call = "setBudget" THEN row[x.hire].budget
                                         ELSE job[x.job].budget
  <1>1. queue[u] # <<>> /\ Mined(u) /\ UNCHANGED <<table, dialog, request>>
    BY DEF Mine, MineApprove, MineCreateJob, MineRegisterJob, MineSetBudget, MineFund,
           FundReverts, TxFails, NextTx
  <1>2. /\ queue'[u] = Tail(queue[u])
        /\ \A w \in Wallets \ {u} : queue'[w] = queue[w]
    BY <1>1 DEF Mined, TypeOK
  <1>3. /\ x \in WalletTx /\ x.hire \in Hires /\ row[x.hire] \in Row
        /\ x.call \in Late => x.job \in Jobs /\ job[x.job] \in Job
    BY <1>1, HeadFacts
  <1>4. ~FundReverts(u) /\ ~TxFails(u)
    BY FundCovered DEF FundReverts, TxFails, Orderly, TypeOK
  <1>5. ASSUME MineApprove(u)
        PROVE  Books /\ Others /\ Own
    <2>1. x.call = "approve" /\ UNCHANGED <<job, balance>>
      BY <1>5 DEF MineApprove, NextTx
    <2>2. Books
      BY <1>5, <2>1 DEF MineApprove, TypeOK
    <2> QED
      BY <2>1, <2>2
  <1>6. ASSUME MineCreateJob(u)
        PROVE  Books /\ Others /\ Own
    <2>1. x.call = "createJob" /\ UNCHANGED <<allowance, balance>>
      BY <1>6 DEF MineCreateJob, NextTx
    <2>2. Others
      <3>1. PICK k \in Jobs : /\ job[k] = None
                              /\ job' = [job EXCEPT ![k] =
                                            [client |-> u, hire |-> x.hire, policy |-> FALSE,
                                             budget |-> 0, funded |-> FALSE]]
        BY <1>6 DEF MineCreateJob
      <3> QED
        BY <3>1 DEF TypeOK
    <2> QED
      BY <2>1, <2>2
  <1>7. ASSUME MineRegisterJob(u)
        PROVE  Books /\ Others /\ Own
    <2>1. x.call = "registerJob" /\ x.job \in Jobs /\ job[x.job] \in Job
      BY <1>3, <1>7 DEF MineRegisterJob, NextTx
    <2>2. /\ job'[x.job] = [job[x.job] EXCEPT !.policy = TRUE]
          /\ \A k \in Jobs \ {x.job} : job'[k] = job[k]
      BY <1>7, <2>1 DEF MineRegisterJob, TypeOK
    <2>3. /\ job'[x.job].policy = TRUE
          /\ job'[x.job].funded = job[x.job].funded
          /\ job'[x.job].budget = job[x.job].budget
          /\ job[x.job].policy \in BOOLEAN /\ job[x.job].funded \in BOOLEAN
      BY <2>1, <2>2 DEF Job
    <2>4. Own
      BY <2>1, <2>3
    <2>5. Others
      BY <2>1, <2>2, EscrowConstants
    <2>6. Books
      BY <1>7, <2>1 DEF MineRegisterJob, TypeOK
    <2> QED
      BY <2>4, <2>5, <2>6
  <1>8. ASSUME MineSetBudget(u)
        PROVE  Books /\ Others /\ Own
    <2>1. x.call = "setBudget" /\ x.job \in Jobs /\ job[x.job] \in Job
      BY <1>3, <1>8 DEF MineSetBudget, NextTx
    <2>2. /\ job'[x.job] = [job[x.job] EXCEPT !.budget = row[x.hire].budget]
          /\ \A k \in Jobs \ {x.job} : job'[k] = job[k]
      BY <1>8, <2>1 DEF MineSetBudget, TypeOK
    <2>3. /\ job'[x.job].policy = job[x.job].policy
          /\ job'[x.job].funded = job[x.job].funded
          /\ job'[x.job].budget = row[x.hire].budget
          /\ job[x.job].policy \in BOOLEAN /\ job[x.job].funded \in BOOLEAN
      BY <2>1, <2>2 DEF Job
    <2>4. Own
      BY <2>1, <2>3
    <2>5. Others
      BY <2>1, <2>2, EscrowConstants
    <2>6. Books
      BY <1>8, <2>1 DEF MineSetBudget, TypeOK
    <2> QED
      BY <2>4, <2>5, <2>6
  <1>9. ASSUME MineFund(u)
        PROVE  Books /\ Others /\ Own
    <2>1. x.call = "fund" /\ x.job \in Jobs /\ job[x.job] \in Job
      BY <1>3, <1>9 DEF MineFund, NextTx
    <2>2. /\ job'[x.job] = [job[x.job] EXCEPT !.funded = TRUE]
          /\ \A k \in Jobs \ {x.job} : job'[k] = job[k]
      BY <1>9, <2>1 DEF MineFund, TypeOK
    <2>3. /\ job'[x.job].policy = job[x.job].policy
          /\ job'[x.job].funded = TRUE
          /\ job'[x.job].budget = job[x.job].budget
          /\ job[x.job].policy \in BOOLEAN /\ job[x.job].funded \in BOOLEAN
      BY <2>1, <2>2 DEF Job
    <2>4. Own
      BY <2>1, <2>3
    <2>5. Others
      BY <2>1, <2>2, EscrowConstants
    <2>6. Books
      BY <1>9, <2>1 DEF MineFund, TypeOK
    <2> QED
      BY <2>4, <2>5, <2>6
  <1>10. Books /\ Others /\ Own
    BY <1>4, <1>5, <1>6, <1>7, <1>8, <1>9 DEF Mine
  <1> QED
    BY <1>1, <1>2, <1>10

\* Which hires a wallet has paid changes with the jobs that are funded only.
LEMMA SpentKept ==
    ASSUME TypeOK, DialogInv, ChainInv, [Next]_vars, NEW u \in Wallets,
           \A j \in Jobs :
              (job'[j] # None /\ job'[j].funded) <=> (job[j] # None /\ job[j].funded)
    PROVE  Spent(u)' = Spent(u)
  <1>1. ASSUME NEW h \in Hires, h \in Spent(u)'
        PROVE  h \in Spent(u)
    <2>1. PICK j \in Jobs : job'[j] # None /\ job'[j].hire = h /\ job'[j].funded
      BY <1>1 DEF Spent
    <2>2. job[j] # None /\ job[j].funded /\ job[j].hire = h
      BY <2>1, WriteOnce
    <2>3. row[h] # None
      BY <2>2 DEF ChainInv
    <2>4. row[h].signer = u
      BY <1>1, <2>3, WriteOnce DEF Spent
    <2> QED
      BY <2>2, <2>3, <2>4 DEF Spent
  <1>2. ASSUME NEW h \in Hires, h \in Spent(u)
        PROVE  h \in Spent(u)'
    <2>1. PICK j \in Jobs : job[j] # None /\ job[j].hire = h /\ job[j].funded
      BY <1>2 DEF Spent
    <2>2. job'[j] # None /\ job'[j].funded /\ job'[j].hire = h
      BY <2>1, WriteOnce
    <2>3. row'[h] # None /\ row'[h].signer = u
      BY <1>2, WriteOnce DEF Spent
    <2> QED
      BY <2>2, <2>3 DEF Spent
  <1> QED
    BY <1>1, <1>2 DEF Spent

\* A job belongs to the wallet that has calls for it in its queue.
LEMMA QueuedJobs ==
    ASSUME TypeOK, ChainInv, OrderInv, NEW u \in Wallets, NEW i \in 1..Len(queue[u])
    PROVE  /\ queue[u][i] \in WalletTx /\ queue[u][i].hire \in Hires
           /\ row[queue[u][i].hire] \in Row /\ row[queue[u][i].hire].signer = u
           /\ queue[u][i].call \in {"registerJob", "setBudget", "fund"} =>
                /\ queue[u][i].job \in Jobs /\ job[queue[u][i].job] \in Job
                /\ job[queue[u][i].job] # None
                /\ job[queue[u][i].job].hire = queue[u][i].hire
  <1>1. queue[u][i] \in WalletTx
    BY DEF TypeOK
  <1>2. queue[u][i].hire \in Hires
    BY <1>1 DEF WalletTx
  <1> QED
    BY <1>1, <1>2 DEF ChainInv, OrderInv, TypeOK

\* The call after the one that is mined finds done what it needs.
LEMMA NextPrepared ==
    ASSUME TypeOK, DialogInv, ChainInv, Orderly, OrderInv, OnceInv, NEW u \in Wallets, Mine(u),
           NEW c \in Stage \ {"idle", "submit"}, NEW h \in Hires, NEW j, row[h] # None,
           InTurn(u, 2, c, h, j), c \in {"setBudget", "fund"} => j \in Jobs
    PROVE  Prepared(u, c, h, j)'
  <1> DEFINE x == Head(queue[u])
  <1>1. queue[u] # <<>>
    BY Effect
  <1>2. x = queue[u][1] /\ 1 \in 1..Len(queue[u])
    BY <1>1, QueueTail DEF TypeOK
  <1>3. Prepared(u, x.call, x.hire, x.job)
    BY <1>2 DEF OrderInv, InTurn
  <1>4. row'[h] = row[h]
    BY Effect DEF table
  <1>5. CASE c = "approve"
    BY <1>5 DEF Prepared
  <1>6. CASE c # "approve"
    <2>1. /\ x.call = Earlier[c] /\ x.hire = h
          /\ c \in {"setBudget", "fund"} => x.job = j
      BY <1>2, <1>6 DEF InTurn
    <2>2. Earlier[c] # "fund" /\ (Earlier[c] # "approve" => allowance[u] = row[h].budget)
      BY <1>3, <1>6, <2>1 DEF Earlier, Prepared, Stage, Call
    <2>3. allowance'[u] = row[h].budget
      BY <2>1, <2>2, Effect
    <2>4. ASSUME c = "setBudget"
          PROVE  job'[j].policy
      <3>1. x.call = "registerJob" /\ x.job = j
        BY <2>1, <2>4 DEF Earlier
      <3> QED
        BY <3>1, Effect
    <2>5. ASSUME c = "fund"
          PROVE  job'[j].policy /\ job'[j].budget = row[h].budget
      <3>1. x.call = "setBudget" /\ x.job = j /\ x.hire = h
        BY <2>1, <2>5 DEF Earlier
      <3>2. job[j].policy
        BY <1>3, <3>1 DEF Prepared
      <3> QED
        BY <3>1, <3>2, Effect
    <2> QED
      BY <1>4, <2>3, <2>4, <2>5 DEF Prepared
  <1> QED
    BY <1>5, <1>6

\* When a transaction is mined everything behind it moves up a place, in its
\* own queue, and stays where it is in the others.
LEMMA MineTurns ==
    ASSUME TypeOK, DialogInv, ChainInv, Orderly, OrderInv, OnceInv, NEW u \in Wallets, Mine(u),
           NEW w \in Wallets, NEW i \in Nat, 1 <= i, i <= Len(queue[w]) + 1, w = u => i >= 2,
           NEW c \in Stage \ {"idle", "submit"}, NEW h \in Hires, NEW j,
           row[h] # None, row[h].signer = w,
           c \in {"setBudget", "fund"} => j \in Jobs /\ job[j] # None /\ job[j].hire = h,
           InTurn(w, i, c, h, j)
    PROVE  InTurn(w, IF w = u THEN i - 1 ELSE i, c, h, j)'
  <1> DEFINE x == Head(queue[u])
  <1>1. queue[u] # <<>> /\ queue'[u] = Tail(queue[u]) /\ row'[h] = row[h]
    BY Effect DEF table
  <1>2. queue[u] \in Seq(WalletTx) /\ x \in WalletTx /\ x = queue[u][1] /\ 1 \in 1..Len(queue[u])
    BY <1>1, QueueTail DEF TypeOK
  <1>3. CASE w = u
    <2>1. CASE i = 2
      <3>1. Prepared(u, c, h, j)'
        BY <1>3, <2>1, NextPrepared
      <3> QED
        BY <1>3, <2>1, <3>1 DEF InTurn
    <2>2. CASE i # 2
      <3>1. i - 2 \in 1..Len(Tail(queue[u])) /\ Tail(queue[u])[i - 2] = queue[u][i - 1]
        <4>1. i - 1 \in 1..Len(queue[u]) /\ i - 1 # 1 /\ (i - 1) - 1 = i - 2
          BY <1>2, <1>3, <2>2
        <4> HIDE DEF x
        <4> QED
          BY <1>1, <1>2, <4>1, QueuePlaces
      <3>2. queue'[u][(i - 1) - 1] = queue[u][i - 1] /\ i - 1 # 1 /\ i # 1
        BY <1>1, <2>2, <3>1, <1>3
      <3> QED
        BY <1>3, <3>2 DEF InTurn
    <2> QED
      BY <2>1, <2>2
  <1>4. CASE w # u
    <2>1. allowance'[w] = allowance[w] /\ queue'[w] = queue[w]
      BY <1>4, Effect
    <2>2. ASSUME c \in {"setBudget", "fund"}
          PROVE  job'[j] = job[j]
      <3>1. x.call \in {"registerJob", "setBudget", "fund"} => j # x.job
        BY <1>2, <1>4, <2>2, QueuedJobs
      <3> QED
        BY <2>2, <3>1, Effect
    <2>3. Prepared(w, c, h, j) => Prepared(w, c, h, j)'
      BY <1>1, <2>1, <2>2 DEF Prepared
    <2> QED
      BY <1>4, <2>1, <2>3 DEF InTurn
  <1> QED
    BY <1>3, <1>4

\* What a step that mines nothing and signs nothing leaves of a wallet's turns.
LEMMA TurnKept ==
    ASSUME NEW w \in Wallets, NEW i, NEW c, NEW h \in Hires, NEW j, row'[h] = row[h],
           UNCHANGED <<queue, allowance, job>>, InTurn(w, i, c, h, j)
    PROVE  InTurn(w, i, c, h, j)'
  BY DEF InTurn, Prepared

\* No step of the wallets, of the requests or of the giving up disturbs the
\* order of the calls; a signature adds the next one.
LEMMA OrderStep ==
    ASSUME TypeOK, DialogInv, ChainInv, Orderly, OrderInv, OnceInv, [Next]_vars
    PROVE  OrderInv'
  <1> USE DEF table, dialog, request, chain
  <1> DEFINE Late == Stage \ {"idle", "approve", "submit"}
             Call3 == {"registerJob", "setBudget", "fund"}
             Alone == \A s, t \in Tabs :
                        stage[s] # "idle" /\ stage[t] # "idle"
                          /\ row[hire[s]].signer = row[hire[t]].signer => s = t
             Queued(w, i) == /\ InTurn(w, i, queue[w][i].call, queue[w][i].hire, queue[w][i].job)
                             /\ queue[w][i].call \in Call3 =>
                                  job[queue[w][i].job].hire = queue[w][i].hire
             Goes(t) == LET w == row[hire[t]].signer IN
                        InTurn(w, Len(queue[w]) + 1, stage[t], hire[t], myJob[t])
             Parts == /\ Alone
                      /\ \A w \in Wallets : \A i \in 1..Len(queue[w]) : Queued(w, i)
                      /\ \A t \in Tabs : stage[t] \in Late => Goes(t)
  <1>1. OrderInv <=> Parts
    BY DEF OrderInv
  <1>2. OrderInv' <=> Parts'
    BY DEF OrderInv
  <1>3. \A h \in Hires : row[h] # None => row'[h] = row[h]
    BY WriteOnce
  <1>4. \A t \in Tabs : stage[t] # "idle" =>
            hire[t] \in Hires /\ row[hire[t]] # None /\ row[hire[t]].signer \in Wallets
    BY DEF DialogInv, TypeOK, Row
  <1>5. ASSUME \A t \in Tabs : stage'[t] # "idle" => stage[t] # "idle" /\ hire'[t] = hire[t]
        PROVE  Alone'
    BY <1>1, <1>3, <1>4, <1>5
  <1>6. ASSUME UNCHANGED <<queue, allowance, job>>
        PROVE  \A w \in Wallets : \A i \in 1..Len(queue'[w]) : Queued(w, i)'
    <2> SUFFICES ASSUME NEW w \in Wallets, NEW i \in 1..Len(queue[w])
                 PROVE  Queued(w, i)'
      BY <1>6
    <2> DEFINE x == queue[w][i]
    <2>1. x.hire \in Hires /\ row[x.hire] # None
      BY QueuedJobs, EscrowConstants
    <2>2. InTurn(w, i, x.call, x.hire, x.job)
      BY <1>1
    <2>3. InTurn(w, i, x.call, x.hire, x.job)'
      <3>1. row'[x.hire] = row[x.hire]
        BY <2>1, <1>3
      <3> HIDE DEF x
      <3>2. \A c, h, j : h \in Hires /\ row'[h] = row[h] /\ InTurn(w, i, c, h, j) =>
                InTurn(w, i, c, h, j)'
        BY <1>6, TurnKept
      <3>3. PICK c, h, j : c = x.call /\ h = x.hire /\ j = x.job
        OBVIOUS
      <3>4. x' = x
        BY <1>6 DEF x
      <3> QED
        BY <2>1, <2>2, <3>1, <3>2, <3>3, <3>4
    <2> QED
      BY <1>1, <1>6, <2>3
  <1>7. ASSUME UNCHANGED <<queue, allowance, job>>, NEW t \in Tabs,
               stage[t] # "idle", hire'[t] = hire[t], Goes(t),
               stage'[t] = stage[t] /\ myJob'[t] = myJob[t]
        PROVE  Goes(t)'
    <2> DEFINE w == row[hire[t]].signer
    <2>1. row'[hire[t]] = row[hire[t]] /\ hire[t] \in Hires /\ w \in Wallets
      BY <1>3, <1>4, <1>7
    <2>2. InTurn(w, Len(queue[w]) + 1, stage[t], hire[t], myJob[t])
      BY <1>7
    <2>3. w' = w /\ queue' = queue
      BY <1>7, <2>1
    <2> QED
      BY <1>7, <2>1, <2>2, <2>3 DEF InTurn, Prepared
  <1>8. ASSUME UNCHANGED <<queue, allowance, job>>,
               \A t \in Tabs : stage'[t] # "idle" =>
                  stage'[t] = stage[t] /\ hire'[t] = hire[t] /\ myJob'[t] = myJob[t]
        PROVE  Parts'
    <2>1. ASSUME NEW t \in Tabs, stage'[t] \in Late
          PROVE  Goes(t)'
      BY <1>1, <1>7, <1>8, <2>1
    <2> HIDE DEF Goes, Queued, Alone
    <2> QED
      BY <1>5, <1>6, <1>8, <2>1
  <1>9. ASSUME NEW t \in Tabs, JobMined(t)
        PROVE  Parts'
    <2>1. /\ stage[t] = "waiting" /\ stage'[t] = "registerJob"
          /\ \A s \in Tabs \ {t} : stage'[s] = stage[s] /\ myJob'[s] = myJob[s]
          /\ UNCHANGED <<hire, queue, allowance, job>>
      BY <1>9 DEF JobMined, TypeOK
    <2>2. Goes(t)'
      <3> DEFINE w == row[hire[t]].signer
      <3>1. InTurn(w, Len(queue[w]) + 1, "waiting", hire[t], myJob[t])
        BY <1>1, <2>1 DEF Stage
      <3>2. row'[hire[t]] = row[hire[t]] /\ w' = w
        BY <1>3, <1>4, <2>1
      <3> QED
        BY <2>1, <3>1, <3>2 DEF InTurn, Prepared, Earlier
    <2>3. ASSUME NEW s \in Tabs, stage'[s] \in Late
          PROVE  Goes(s)'
      BY <1>1, <1>7, <2>1, <2>2, <2>3
    <2>4. Alone'
      BY <1>5, <2>1
    <2> HIDE DEF Goes, Queued, Alone
    <2> QED
      BY <1>6, <2>1, <2>3, <2>4
  <1>10. ASSUME NEW t \in Tabs, NEW o \in Users, NEW u \in Wallets, NEW h \in Hires,
                NEW b \in Budgets, CreateEscrowHire(t, o, u, h, b)
         PROVE  Parts'
    <2>1. /\ stage'[t] = "approve" /\ hire'[t] = h /\ row'[h].signer = u /\ row[h] = None
          /\ \A s \in Tabs \ {t} : stage'[s] = stage[s] /\ hire'[s] = hire[s]
          /\ \A s \in Tabs : stage[s] # "idle" => row[hire[s]].signer # u
          /\ UNCHANGED <<myJob, queue, allowance, job>>
      BY <1>10 DEF CreateEscrowHire, TypeOK, Orderly
    <2>2. \A s \in Tabs \ {t} : stage'[s] # "idle" =>
            row'[hire'[s]].signer = row[hire[s]].signer /\ row[hire[s]].signer # u
      BY <1>3, <1>4, <2>1
    <2>3. Alone'
      BY <1>1, <2>1, <2>2
    <2>4. ASSUME NEW s \in Tabs, stage'[s] \in Late
          PROVE  Goes(s)'
      <3>1. s # t
        BY <2>1, <2>4
      <3> QED
        BY <1>1, <1>7, <2>1, <2>4, <3>1
    <2> HIDE DEF Goes, Queued, Alone
    <2> QED
      BY <1>6, <2>1, <2>3, <2>4
  <1>11. ASSUME NEW t \in Tabs, Sign(t)
         PROVE  Parts'
    <2>1. PICK c \in Call, h \in Hires, w \in Wallets, j \in Jobs \cup {None} :
            c = stage[t] /\ h = hire[t] /\ w = row[h].signer /\ j = myJob[t]
      BY <1>4, <1>11 DEF Sign, TypeOK, Call
    <2> DEFINE x == [call |-> c, hire |-> h, job |-> j]
    <2>2. PICK n : n = Len(queue[w])
      OBVIOUS
    <2>3. /\ stage'[t] = NextStage[c] /\ queue' = [queue EXCEPT ![w] = Append(queue[w], x)]
          /\ \A s \in Tabs \ {t} : stage'[s] = stage[s]
          /\ UNCHANGED <<row, hire, myJob, allowance, job>>
      BY <1>11, <2>1 DEF Sign, TypeOK
    <2>4. x \in WalletTx /\ queue[w] \in Seq(WalletTx) /\ row[h] # None
      BY <1>4, <2>1 DEF WalletTx, TypeOK, Call
    <2> HIDE DEF x
    <2>5. /\ n \in Nat /\ Len(queue'[w]) = n + 1 /\ queue'[w][n + 1] = x
          /\ \A i \in 1..n : queue'[w][i] = queue[w][i]
          /\ \A v \in Wallets \ {w} : queue'[v] = queue[v]
      BY <2>2, <2>3, <2>4, QueuePlaces DEF TypeOK
    <2>6. InTurn(w, n + 1, c, h, j)
      <3>1. CASE c = "approve"
        BY <3>1 DEF InTurn, Prepared
      <3>2. CASE c # "approve"
        BY <1>1, <2>1, <2>2, <3>2 DEF Stage, Call
      <3> QED
        BY <3>1, <3>2
    <2>7. \A v \in Wallets : \A i \in 1..Len(queue[v]) + 1 : \A d, g, k :
            InTurn(v, i, d, g, k) => InTurn(v, i, d, g, k)'
      <3> SUFFICES ASSUME NEW v \in Wallets, NEW i \in 1..Len(queue[v]) + 1, NEW d, NEW g, NEW k,
                          InTurn(v, i, d, g, k)
                   PROVE  InTurn(v, i, d, g, k)'
        OBVIOUS
      <3>1. Prepared(v, d, g, k) => Prepared(v, d, g, k)'
        BY <2>3 DEF Prepared
      <3>2. i # 1 => queue'[v][i - 1] = queue[v][i - 1]
        <4>1. queue[v] \in Seq(WalletTx) /\ Len(queue[v]) \in Nat
          BY DEF TypeOK
        <4>2. i # 1 => i - 1 \in 1..Len(queue[v])
          BY <4>1
        <4> QED
          BY <2>2, <2>5, <4>2
      <3> QED
        BY <3>1, <3>2 DEF InTurn
    <2>8. ASSUME NEW v \in Wallets, NEW i \in 1..Len(queue'[v])
          PROVE  Queued(v, i)'
      <3>1. CASE i \in 1..Len(queue[v])
        <4>1. PICK d, g, k : d = queue[v][i].call /\ g = queue[v][i].hire /\ k = queue[v][i].job
          OBVIOUS
        <4>2. queue'[v][i] = queue[v][i]
          BY <2>2, <2>5, <3>1
        <4>3. InTurn(v, i, d, g, k)
          BY <1>1, <3>1, <4>1
        <4>4. InTurn(v, i, d, g, k)'
          <5>1. i \in 1..Len(queue[v]) + 1
            BY <3>1 DEF TypeOK
          <5> QED
            BY <2>7, <4>3, <5>1
        <4>5. d \in Call3 => job[k].hire = g
          BY <1>1, <3>1, <4>1
        <4> QED
          BY <2>3, <4>1, <4>2, <4>4, <4>5 DEF InTurn, Prepared
      <3>2. CASE i \notin 1..Len(queue[v])
        <4>1. v = w /\ i = n + 1
          BY <2>2, <2>5, <3>2
        <4>2. InTurn(w, n + 1, c, h, j)'
          <5>1. n + 1 \in 1..Len(queue[w]) + 1
            BY <2>2, <2>5
          <5> QED
            BY <2>6, <2>7, <5>1
        <4>3. c \in Call3 => job[j].hire = h
          BY <2>1 DEF DialogInv
        <4>4. queue'[v][i].call = c /\ queue'[v][i].hire = h /\ queue'[v][i].job = j
          BY <2>5, <4>1 DEF x
        <4> QED
          BY <2>3, <4>1, <4>2, <4>3, <4>4 DEF InTurn, Prepared
      <3> QED
        BY <3>1, <3>2
    <2>9. stage'[t] \in Late => Goes(t)'
      <3> SUFFICES ASSUME stage'[t] \in Late
                   PROVE  Goes(t)'
        OBVIOUS
      <3>1. PICK d : d = stage'[t]
        OBVIOUS
      <3>2. c = Earlier[d] /\ d # "approve" /\ (d \in {"setBudget", "fund"} => c # "createJob")
        BY <2>3, <3>1 DEF NextStage, Earlier, Call, Stage
      <3>3. n + 2 # 1 /\ (n + 2) - 1 = n + 1
        BY <2>5
      <3>4. InTurn(w, n + 2, d, h, j)'
        BY <2>5, <3>2, <3>3 DEF InTurn, x
      <3>5. Len(queue'[w]) + 1 = n + 2
        BY <2>5
      <3>6. hire'[t] = h /\ row'[h].signer = w /\ myJob'[t] = j
        BY <2>1, <2>3
      <3> QED
        BY <3>1, <3>4, <3>5, <3>6 DEF InTurn, Prepared
    <2>10. ASSUME NEW s \in Tabs, stage'[s] \in Late, s # t
           PROVE  Goes(s)'
      <3>1. stage[s] = stage'[s] /\ stage[s] # "idle" /\ stage[t] # "idle"
        BY <2>1, <2>3, <2>10 DEF Call
      <3>2. PICK d \in Stage, g \in Hires, v \in Wallets, k \in Jobs \cup {None} :
              d = stage[s] /\ g = hire[s] /\ v = row[g].signer /\ k = myJob[s]
        BY <1>4, <3>1 DEF TypeOK
      <3>3. v # w
        BY <1>1, <2>1, <2>10, <3>1, <3>2
      <3>4. PICK m : m = Len(queue[v]) + 1
        OBVIOUS
      <3>5. InTurn(v, m, d, g, k)
        BY <1>1, <2>10, <3>1, <3>2, <3>4
      <3>6. InTurn(v, m, d, g, k)'
        <4>1. m \in 1..Len(queue[v]) + 1
          BY <3>4 DEF TypeOK
        <4> QED
          BY <2>7, <3>5, <4>1
      <3>7. queue'[v] = queue[v] /\ hire'[s] = g /\ row'[g].signer = v /\ myJob'[s] = k
        BY <2>3, <2>5, <3>2, <3>3
      <3> QED
        BY <3>1, <3>2, <3>4, <3>6, <3>7 DEF InTurn, Prepared
    <2>11. Alone'
      BY <1>5, <2>1, <2>3 DEF Call
    <2> HIDE DEF Goes, Queued, Alone
    <2> QED
      BY <2>8, <2>9, <2>10, <2>11
  <1>12. ASSUME NEW u \in Wallets, Mine(u)
         PROVE  Parts'
    <2>1. UNCHANGED <<table, dialog, request>> /\ queue[u] # <<>> /\ queue'[u] = Tail(queue[u])
      BY <1>12, Effect
    <2>2. \A w \in Wallets \ {u} : queue'[w] = queue[w]
      BY <1>12, Effect
    <2>3. /\ Len(queue[u]) \in Nat /\ Len(queue[u]) >= 1 /\ Len(queue'[u]) = Len(queue[u]) - 1
          /\ \A i \in 1..Len(queue'[u]) : queue'[u][i] = queue[u][i + 1]
      <3>1. Head(queue[u]) \in WalletTx
        BY <2>1, QueueTail DEF TypeOK
      <3> QED
        BY <2>1, <3>1, QueuePlaces DEF TypeOK
    <2>4. \A w \in Wallets : Len(queue[w]) \in Nat
      BY DEF TypeOK
    <2>5. ASSUME NEW w \in Wallets, NEW i \in 1..Len(queue'[w])
          PROVE  Queued(w, i)'
      <3>1. PICK p \in Nat : p = IF w = u THEN i + 1 ELSE i
        OBVIOUS
      <3>2. /\ 1 <= p /\ p <= Len(queue[w]) + 1 /\ p \in 1..Len(queue[w])
            /\ queue'[w][i] = queue[w][p] /\ (w = u => p >= 2) /\ i = IF w = u THEN p - 1 ELSE p
        BY <2>2, <2>3, <2>4, <3>1
      <3>3. PICK c, h, j : c = queue[w][p].call /\ h = queue[w][p].hire /\ j = queue[w][p].job
        OBVIOUS
      <3>4. /\ queue[w][p] \in WalletTx /\ h \in Hires /\ row[h] \in Row /\ row[h].signer = w
            /\ c \in Call3 => j \in Jobs /\ job[j] # None /\ job[j].hire = h
        BY <3>2, <3>3, QueuedJobs
      <3>5. c \in Stage \ {"idle", "submit"} /\ row[h] # None
        BY <3>3, <3>4, EscrowConstants DEF WalletTx, Stage, Call
      <3>6. InTurn(w, p, c, h, j)
        BY <1>1, <3>2, <3>3
      <3>7. InTurn(w, IF w = u THEN p - 1 ELSE p, c, h, j)'
        BY <1>12, <3>2, <3>4, <3>5, <3>6, MineTurns
      <3>8. InTurn(w, i, c, h, j)'
        BY <3>2, <3>7
      <3>9. c \in Call3 => job'[j].hire = h
        BY <3>4, WriteOnce
      <3> QED
        BY <3>2, <3>3, <3>8, <3>9 DEF InTurn, Prepared
    <2>6. ASSUME NEW t \in Tabs, stage'[t] \in Late
          PROVE  Goes(t)'
      <3>1. stage[t] = stage'[t] /\ stage[t] # "idle"
        BY <2>1, <2>6
      <3>2. PICK c \in Stage, h \in Hires, w \in Wallets, j \in Jobs \cup {None} :
              c = stage[t] /\ h = hire[t] /\ w = row[h].signer /\ j = myJob[t]
        BY <1>4, <3>1 DEF TypeOK
      <3>3. PICK p : p = Len(queue[w]) + 1
        OBVIOUS
      <3>4. p \in Nat /\ 1 <= p /\ p <= Len(queue[w]) + 1 /\ (w = u => p >= 2)
        BY <2>3, <2>4, <3>3
      <3>5. /\ c \in Stage \ {"idle", "submit"} /\ row[h] # None
            /\ c \in {"setBudget", "fund"} => j \in Jobs /\ job[j] # None /\ job[j].hire = h
        BY <1>4, <2>6, <3>1, <3>2 DEF DialogInv
      <3>6. InTurn(w, p, c, h, j)
        BY <1>1, <2>6, <3>1, <3>2, <3>3
      <3>7. InTurn(w, IF w = u THEN p - 1 ELSE p, c, h, j)'
        BY <1>12, <3>2, <3>4, <3>5, <3>6, MineTurns
      <3>8. Len(queue'[w]) + 1 = IF w = u THEN p - 1 ELSE p
        <4>1. CASE w = u
          BY <2>3, <3>3, <4>1
        <4>2. CASE w # u
          BY <2>2, <3>3, <4>2
        <4> QED
          BY <4>1, <4>2
      <3>9. hire'[t] = h /\ row'[h].signer = w /\ myJob'[t] = j /\ stage'[t] = c
        BY <2>1, <3>2
      <3> QED
        BY <3>7, <3>8, <3>9 DEF InTurn, Prepared
    <2>7. Alone'
      BY <1>5, <2>1
    <2> HIDE DEF Goes, Queued, Alone
    <2> QED
      BY <2>5, <2>6, <2>7
  <1>13. ASSUME NEW t \in Tabs, GiveUp(t) \/ (\E r \in Reqs : SubmitFromDialog(t, r))
         PROVE  Parts'
    BY <1>8, <1>13 DEF GiveUp, SubmitFromDialog, TypeOK
  <1>14. ASSUME \E r \in Reqs : Submit(r)
         PROVE  Parts'
    BY <1>8, <1>14 DEF Submit, SubmitFromClient, CommitLink, LoseRequest
  <1>15. ASSUME UNCHANGED vars
         PROVE  Parts'
    BY <1>8, <1>15 DEF vars
  <1> HIDE DEF Parts
  <1> QED
    BY <1>2, <1>9, <1>10, <1>11, <1>12, <1>13, <1>14, <1>15 DEF Next, Dialog

\* A mined fund call adds its hire to what the wallet has paid, nothing else does.
LEMMA SpentMined ==
    ASSUME TypeOK, DialogInv, ChainInv, Orderly, OrderInv, OnceInv, [Next]_vars,
           NEW u \in Wallets, Mine(u), NEW x, x = Head(queue[u]), NEW w \in Wallets
    PROVE  Spent(w)' = IF w = u /\ x.call = "fund" THEN Spent(w) \cup {x.hire} ELSE Spent(w)
  <1> USE DEF table, dialog, request, chain
  <1>1. queue[u] # <<>> /\ UNCHANGED row
    BY Effect
  <1>2. /\ x \in WalletTx /\ x.hire \in Hires /\ row[x.hire] # None /\ row[x.hire].signer = u
        /\ x.call \in {"registerJob", "setBudget", "fund"} =>
             /\ x.job \in Jobs /\ job[x.job] # None /\ job[x.job].hire = x.hire
             /\ job[x.job] \in Job
    <2>1. x = queue[u][1] /\ 1 \in 1..Len(queue[u])
      BY <1>1, QueueTail DEF TypeOK
    <2> QED
      BY <2>1, QueuedJobs, EscrowConstants
  <1>3. CASE x.call # "fund"
    <2>1. \A j \in Jobs :
            (job'[j] # None /\ job'[j].funded) <=> (job[j] # None /\ job[j].funded)
      <3> SUFFICES ASSUME NEW j \in Jobs
                   PROVE  (job'[j] # None /\ job'[j].funded) <=> (job[j] # None /\ job[j].funded)
        OBVIOUS
      <3>1. CASE job[j] = None
        BY <3>1, Effect
      <3>2. CASE job[j] # None /\ x.call \in {"registerJob", "setBudget", "fund"} /\ j = x.job
        <4>1. job'[j].funded = (job[j].funded \/ x.call = "fund") /\ job'[j] # None
          BY <3>2, Effect, WriteOnce
        <4>2. job[j].funded \in BOOLEAN
          BY <1>2, <3>2 DEF Job
        <4> QED
          BY <1>3, <3>2, <4>1, <4>2
      <3>3. CASE job[j] # None /\ ~(x.call \in {"registerJob", "setBudget", "fund"} /\ j = x.job)
        BY <3>3, Effect
      <3> QED
        BY <3>1, <3>2, <3>3
    <2> QED
      BY <1>3, <2>1, SpentKept
  <1>4. CASE x.call = "fund"
    <2>1. x.job \in Jobs /\ job'[x.job] # None /\ job'[x.job].funded /\ job'[x.job].hire = x.hire
      BY <1>2, <1>4, Effect, WriteOnce
    <2>2. \A j \in Jobs : j # x.job =>
            ((job'[j] # None /\ job'[j].funded) <=> (job[j] # None /\ job[j].funded))
      <3> SUFFICES ASSUME NEW j \in Jobs, j # x.job
                   PROVE  (job'[j] # None /\ job'[j].funded) <=> (job[j] # None /\ job[j].funded)
        OBVIOUS
      <3>1. CASE job[j] = None
        BY <3>1, Effect
      <3>2. CASE job[j] # None
        BY <3>2, Effect
      <3> QED
        BY <3>1, <3>2
    <2>3. \A j \in Jobs : job[j] # None => job'[j] # None /\ job'[j].hire = job[j].hire
      BY WriteOnce
    <2>4. \A h \in Hires : h \in Spent(w)' <=> h \in Spent(w) \/ (w = u /\ h = x.hire)
      <3> SUFFICES ASSUME NEW h \in Hires
                   PROVE  h \in Spent(w)' <=> h \in Spent(w) \/ (w = u /\ h = x.hire)
        OBVIOUS
      <3> DEFINE Mine1(j) == job[j] # None /\ job[j].hire = h /\ job[j].funded
      <3>1. h \in Spent(w) <=> row[h] # None /\ row[h].signer = w /\ \E j \in Jobs : Mine1(j)
        BY DEF Spent
      <3>2. h \in Spent(w)' <=> row[h] # None /\ row[h].signer = w /\ \E j \in Jobs : Mine1(j)'
        BY <1>1 DEF Spent
      <3>3. \A j \in Jobs : j # x.job => (Mine1(j)' <=> Mine1(j))
        BY <2>2, <2>3
      <3>4. Mine1(x.job)' <=> h = x.hire
        BY <2>1
      <3>5. Mine1(x.job) => h = x.hire
        BY <1>2, <1>4
      <3> HIDE DEF Mine1
      <3> QED
        BY <1>2, <2>1, <3>1, <3>2, <3>3, <3>4, <3>5
    <2>5. Spent(w)' \subseteq Hires /\ Spent(w) \subseteq Hires
      BY DEF Spent
    <2> QED
      BY <1>2, <1>4, <2>4, <2>5
  <1> QED
    BY <1>3, <1>4

\* Each hire is funded once, and what is left covers the others.
LEMMA OnceStep ==
    ASSUME TypeOK, DialogInv, ChainInv, RequestInv, Orderly, OrderInv, OnceInv, [Next]_vars
    PROVE  OnceInv'
  <1> USE DEF table, dialog, request, chain
  <1> DEFINE Fund(w, i) == queue[w][i].call = "fund"
             Early(t) == stage[t] \notin {"idle", "submit"}
             Queued(w, i) == Fund(w, i) =>
                 /\ queue[w][i].hire \notin Spent(w)
                 /\ \A k \in 1..Len(queue[w]) :
                       Fund(w, k) /\ queue[w][k].hire = queue[w][i].hire => k = i
             Open(t, w) == /\ hire[t] \notin Spent(w)
                           /\ \A i \in 1..Len(queue[w]) : Fund(w, i) => queue[w][i].hire # hire[t]
             Left(w) == \A b \in Budgets : b * Cardinality(Hires \ Spent(w)) <= balance[w]
             Parts == /\ \A w \in Wallets : \A i \in 1..Len(queue[w]) : Queued(w, i)
                      /\ \A t \in Tabs, w \in Wallets :
                            Early(t) /\ row[hire[t]].signer = w => Open(t, w)
                      /\ \A w \in Wallets : Left(w)
  <1>1. \A t \in Tabs : stage[t] # "idle" =>
            hire[t] \in Hires /\ row[hire[t]] # None /\ row[hire[t]].signer \in Wallets
    BY DEF DialogInv, TypeOK, Row
  <1>2. Parts
    BY <1>1 DEF OnceInv
  <1>3. Parts' /\ DialogInv' /\ TypeOK' => OnceInv'
    <2> SUFFICES ASSUME Parts', DialogInv', TypeOK'
                 PROVE  OnceInv'
      OBVIOUS
    <2>1. \A t \in Tabs : stage'[t] # "idle" => row'[hire'[t]].signer \in Wallets
      BY DEF DialogInv, TypeOK, Row
    <2> QED
      BY <2>1 DEF OnceInv
  <1>4. \A h \in Hires : row[h] # None => row'[h] = row[h]
    BY WriteOnce
  <1>5. ASSUME UNCHANGED <<queue, job, balance>>,
               \A t \in Tabs : Early(t)' => Early(t) /\ hire'[t] = hire[t]
        PROVE  Parts'
    <2>1. \A w \in Wallets : Spent(w)' = Spent(w)
      BY <1>5, SpentKept
    <2>2. ASSUME NEW t \in Tabs, NEW w \in Wallets, Early(t)', row'[hire'[t]].signer = w
          PROVE  Open(t, w)'
      BY <1>1, <1>2, <1>4, <1>5, <2>1, <2>2
    <2> QED
      BY <1>2, <1>5, <2>1, <2>2
  <1>6. ASSUME NEW t \in Tabs, NEW o \in Users, NEW u \in Wallets, NEW h \in Hires,
               NEW b \in Budgets, CreateEscrowHire(t, o, u, h, b)
        PROVE  Parts'
    <2>1. /\ hire'[t] = h /\ row'[h].signer = u /\ row[h] = None
          /\ \A s \in Tabs \ {t} : stage'[s] = stage[s] /\ hire'[s] = hire[s]
          /\ UNCHANGED <<queue, job, balance>>
      BY <1>6 DEF CreateEscrowHire, TypeOK
    <2>2. \A w \in Wallets : Spent(w)' = Spent(w)
      BY <2>1, SpentKept
    <2>3. \A w \in Wallets : Open(t, w)'
      <3>1. \A w \in Wallets : h \notin Spent(w) /\ \A i \in 1..Len(queue[w]) : queue[w][i].hire # h
        BY <2>1 DEF Spent, ChainInv
      <3> QED
        BY <2>1, <2>2, <3>1
    <2>4. ASSUME NEW s \in Tabs, s # t, NEW w \in Wallets, Early(s)', row'[hire'[s]].signer = w
          PROVE  Open(s, w)'
      BY <1>1, <1>2, <1>4, <2>1, <2>2, <2>4
    <2> QED
      BY <1>2, <2>1, <2>2, <2>3, <2>4
  <1>7. ASSUME NEW t \in Tabs, Sign(t)
        PROVE  Parts'
    <2>1. PICK c \in Call, h \in Hires, w \in Wallets, j \in Jobs \cup {None} :
            c = stage[t] /\ h = hire[t] /\ w = row[h].signer /\ j = myJob[t]
      BY <1>1, <1>7 DEF Sign, TypeOK, Call
    <2> DEFINE x == [call |-> c, hire |-> h, job |-> j]
    <2>2. PICK n : n = Len(queue[w])
      OBVIOUS
    <2>3. /\ stage'[t] = NextStage[c] /\ queue' = [queue EXCEPT ![w] = Append(queue[w], x)]
          /\ \A s \in Tabs \ {t} : stage'[s] = stage[s]
          /\ UNCHANGED <<row, hire, balance, job>>
      BY <1>7, <2>1 DEF Sign, TypeOK
    <2>4. x \in WalletTx /\ queue[w] \in Seq(WalletTx)
      BY <2>1 DEF WalletTx, TypeOK, Call
    <2>5. x.call = c /\ x.hire = h
      OBVIOUS
    <2> HIDE DEF x
    <2>6. /\ n \in Nat /\ Len(queue'[w]) = n + 1 /\ queue'[w][n + 1] = x
          /\ \A i \in 1..n : queue'[w][i] = queue[w][i]
          /\ \A v \in Wallets \ {w} : queue'[v] = queue[v]
      BY <2>2, <2>3, <2>4, QueuePlaces DEF TypeOK
    <2>7. \A v \in Wallets : Spent(v)' = Spent(v)
      BY <2>3, SpentKept
    <2>8. Open(t, w)
      BY <1>2, <2>1 DEF Call
    <2>9. \A i \in 1..n + 1 : i \in 1..n \/ i = n + 1
      BY <2>6
    <2>10. ASSUME NEW i \in 1..Len(queue'[w]), Fund(w, i)'
           PROVE  /\ queue'[w][i].hire \notin Spent(w)'
                  /\ \A k \in 1..Len(queue'[w]) :
                        Fund(w, k)' /\ queue'[w][k].hire = queue'[w][i].hire => k = i
      <3>1. \A k \in 1..n : Fund(w, k) => queue[w][k].hire # h
        BY <2>1, <2>2, <2>8
      <3>2. \A k \in 1..n : queue'[w][k] = queue[w][k]
        BY <2>6
      <3>3. queue'[w][n + 1].call = c /\ queue'[w][n + 1].hire = h
        BY <2>5, <2>6
      <3>4. i \in 1..n \/ i = n + 1
        BY <2>6, <2>9
      <3>5. CASE i \in 1..n
        <4>1. /\ queue[w][i].hire \notin Spent(w)
              /\ \A k \in 1..n : Fund(w, k) /\ queue[w][k].hire = queue[w][i].hire => k = i
          BY <1>2, <2>2, <2>10, <3>2, <3>5
        <4> QED
          BY <2>6, <2>7, <2>9, <2>10, <3>1, <3>2, <3>3, <3>5, <4>1
      <3>6. CASE i = n + 1
        <4>1. h \notin Spent(w)
          BY <2>1, <2>8
        <4> QED
          BY <2>6, <2>7, <2>9, <3>1, <3>2, <3>3, <3>6, <4>1
      <3> QED
        BY <3>4, <3>5, <3>6
    <2>11. \A v \in Wallets \ {w} : \A i \in 1..Len(queue'[v]) : Queued(v, i)'
      BY <1>2, <2>6, <2>7
    <2>12. ASSUME NEW s \in Tabs, NEW v \in Wallets, Early(s)', row'[hire'[s]].signer = v
           PROVE  Open(s, v)'
      <3>1. CASE s = t
        <4>1. v = w /\ c # "fund"
          BY <2>1, <2>3, <2>12, <3>1 DEF NextStage, Call
        <4> QED
          BY <2>1, <2>2, <2>3, <2>5, <2>6, <2>7, <2>8, <2>9, <3>1, <4>1
      <3>2. CASE s # t
        <4>1. Early(s) /\ row[hire[s]].signer = v
          BY <2>3, <2>12, <3>2
        <4>2. v # w
          BY <2>1, <3>2, <4>1 DEF OrderInv, Call
        <4>3. Open(s, v)
          BY <1>2, <4>1
        <4> QED
          BY <2>3, <2>6, <2>7, <4>2, <4>3
      <3> QED
        BY <3>1, <3>2
    <2>13. \A v \in Wallets : Left(v)'
      BY <1>2, <2>3, <2>7
    <2>14. \A i \in 1..Len(queue'[w]) : Queued(w, i)'
      BY <2>10
    <2> HIDE DEF Queued, Open, Left
    <2> QED
      BY <2>11, <2>12, <2>13, <2>14
  <1>8. ASSUME NEW u \in Wallets, Mine(u)
        PROVE  Parts'
    <2>1. PICK x : x = Head(queue[u])
      OBVIOUS
    <2>2. /\ UNCHANGED <<row, stage, hire>> /\ queue[u] # <<>> /\ queue'[u] = Tail(queue[u])
          /\ \A w \in Wallets \ {u} : queue'[w] = queue[w] /\ balance'[w] = balance[w]
          /\ x.call # "fund" => balance'[u] = balance[u]
          /\ x.call = "fund" => balance'[u] = balance[u] - row[x.hire].budget
      BY <1>8, <2>1, Effect
    <2>3. /\ Len(queue[u]) \in Nat /\ Len(queue[u]) >= 1 /\ Len(queue'[u]) = Len(queue[u]) - 1
          /\ \A i \in 1..Len(queue'[u]) : queue'[u][i] = queue[u][i + 1]
          /\ x \in WalletTx /\ x = queue[u][1] /\ 1 \in 1..Len(queue[u])
      <3>1. x \in WalletTx /\ x = queue[u][1] /\ 1 \in 1..Len(queue[u])
        BY <2>1, <2>2, QueueTail DEF TypeOK
      <3> QED
        BY <2>2, <3>1, QueuePlaces DEF TypeOK
    <2>4. \A i \in 1..Len(queue'[u]) : i + 1 \in 1..Len(queue[u]) /\ i + 1 # 1
      BY <2>3
    <2>5. /\ Spent(u)' = IF x.call = "fund" THEN Spent(u) \cup {x.hire} ELSE Spent(u)
          /\ \A w \in Wallets \ {u} : Spent(w)' = Spent(w)
      BY <1>8, <2>1, SpentMined
    <2>6. x.call = "fund" => /\ x.hire \notin Spent(u)
                             /\ \A k \in 1..Len(queue[u]) :
                                  Fund(u, k) /\ queue[u][k].hire = x.hire => k = 1
      BY <1>2, <2>3
    <2>7. ASSUME NEW i \in 1..Len(queue'[u]), Fund(u, i)'
          PROVE  /\ queue'[u][i].hire \notin Spent(u)'
                 /\ \A k \in 1..Len(queue'[u]) :
                       Fund(u, k)' /\ queue'[u][k].hire = queue'[u][i].hire => k = i
      <3>1. Queued(u, i + 1) /\ queue'[u][i] = queue[u][i + 1]
        BY <1>2, <2>3, <2>4
      <3>2. queue'[u][i].hire \notin Spent(u)'
        BY <2>4, <2>5, <2>6, <2>7, <3>1
      <3>3. ASSUME NEW k \in 1..Len(queue'[u]), Fund(u, k)',
                   queue'[u][k].hire = queue'[u][i].hire
            PROVE  k = i
        <4>1. k + 1 = i + 1
          BY <2>3, <2>4, <2>7, <3>1, <3>3
        <4> QED
          BY <2>3, <4>1
      <3> QED
        BY <3>2, <3>3
    <2>8. \A w \in Wallets : \A i \in 1..Len(queue'[w]) : Queued(w, i)'
      <3>1. \A w \in Wallets \ {u} : \A i \in 1..Len(queue'[w]) : Queued(w, i)'
        BY <1>2, <2>2, <2>5
      <3>2. \A i \in 1..Len(queue'[u]) : Queued(u, i)'
        BY <2>7
      <3> HIDE DEF Queued
      <3> QED
        BY <3>1, <3>2
    <2>9. ASSUME NEW t \in Tabs, NEW w \in Wallets, Early(t)', row'[hire'[t]].signer = w
          PROVE  Open(t, w)'
      <3>1. Open(t, w)
        BY <1>2, <2>2, <2>9
      <3>2. CASE w # u
        BY <2>2, <2>5, <3>1, <3>2
      <3>3. CASE w = u
        <4>1. x.call = "fund" => hire[t] # x.hire
          BY <2>3, <3>1, <3>3
        <4>2. hire'[t] \notin Spent(u)'
          BY <2>2, <2>5, <3>1, <3>3, <4>1
        <4>3. \A i \in 1..Len(queue'[u]) : Fund(u, i)' => queue'[u][i].hire # hire'[t]
          BY <2>2, <2>3, <2>4, <3>1, <3>3
        <4> QED
          BY <3>3, <4>2, <4>3
      <3> QED
        BY <3>2, <3>3
    <2>10. Left(u)'
      <3>1. CASE x.call # "fund"
        BY <1>2, <2>2, <2>5, <3>1
      <3>2. CASE x.call = "fund"
        <4> DEFINE Due == Hires \ Spent(u)
        <4>1. Hires \ Spent(u)' = Due \ {x.hire}
          BY <2>5, <3>2
        <4>2. x.hire \in Hires /\ row[x.hire].budget \in Budgets
          BY <2>3, QueuedJobs DEF Row
        <4>3. IsFiniteSet(Due) /\ x.hire \in Due
          BY <2>6, <3>2, <4>2, FS_Subset DEF Orderly
        <4>4. /\ Cardinality(Due) \in Nat /\ Cardinality(Due) # 0
              /\ Cardinality(Due \ {x.hire}) = Cardinality(Due) - 1
          BY <4>3, FS_CardinalityType, FS_EmptySet, FS_RemoveElement
        <4>5. ASSUME NEW b \in Budgets
              PROVE  b * (Cardinality(Due) - 1) <= balance[u] - row[x.hire].budget
          <5>1. /\ b * Cardinality(Due) <= balance[u]
                /\ row[x.hire].budget * Cardinality(Due) <= balance[u]
            BY <1>2, <4>2
          <5>2. b \in Nat /\ row[x.hire].budget \in Nat /\ balance[u] \in Nat
            BY <4>2, EscrowConstants DEF TypeOK
          <5> HIDE DEF Due
          <5>3. Cardinality(Due) >= 1
            BY <4>4
          <5> QED
            BY <4>4, <5>1, <5>2, <5>3, OneLess
        <4> HIDE DEF Due
        <4> QED
          BY <2>2, <3>2, <4>1, <4>4, <4>5
      <3> QED
        BY <3>1, <3>2
    <2>11. \A w \in Wallets \ {u} : Left(w)'
      BY <1>2, <2>2, <2>5
    <2> HIDE DEF Queued, Open, Left, Early
    <2> QED
      BY <2>8, <2>9, <2>10, <2>11
  <1>9. ASSUME NEW t \in Tabs,
               JobMined(t) \/ GiveUp(t) \/ (\E r \in Reqs : SubmitFromDialog(t, r))
        PROVE  Parts'
    BY <1>5, <1>9 DEF JobMined, GiveUp, SubmitFromDialog, TypeOK
  <1>10. ASSUME \E r \in Reqs : Submit(r)
         PROVE  Parts'
    BY <1>5, <1>10 DEF Submit, SubmitFromClient, CommitLink, LoseRequest
  <1>11. ASSUME UNCHANGED vars
         PROVE  Parts'
    BY <1>5, <1>11 DEF vars
  <1> HIDE DEF Parts
  <1>12. Parts'
    BY <1>6, <1>7, <1>8, <1>9, <1>10, <1>11 DEF Next, Dialog
  <1> QED
    BY <1>3, <1>12, TypeStep, DialogStep


\* What a dialog has reported stays so: its fund call moves up in the queue and
\* finds, when it is mined, everything it needs.
LEMMA SettledKept ==
    ASSUME TypeOK, DialogInv, ChainInv, Orderly, OrderInv, OnceInv, [Next]_vars,
           NEW h \in Hires, NEW j \in Jobs, row[h] # None,
           job[j] # None, job[j].hire = h, Settled(h, j)
    PROVE  Settled(h, j)'
  <1> USE DEF table, dialog, request, chain
  <1> DEFINE tx == [call |-> "fund", hire |-> h, job |-> j]
  <1>1. PICK w \in Wallets : w = row[h].signer
    BY DEF TypeOK, Row
  <1>2. row'[h] = row[h] /\ job'[j] # None /\ job'[j].hire = h
    BY WriteOnce
  <1>3. /\ tx.call = "fund" /\ tx.hire = h /\ tx.job = j
    OBVIOUS
  <1> DEFINE Holds == job[j].funded /\ job[j].budget = row[h].budget
             Waits == \E i \in 1..Len(queue[w]) : queue[w][i] = tx
  <1>4. Settled(h, j) <=> Holds \/ Waits
    BY <1>1 DEF Settled
  <1>5. Holds' \/ Waits' => Settled(h, j)'
    BY <1>1, <1>2 DEF Settled
  <1> HIDE DEF tx
  <1>6. ASSUME NEW t \in Tabs, Sign(t)
        PROVE  Settled(h, j)'
    <2>1. PICK c \in Call, g \in Hires, v \in Wallets, k \in Jobs \cup {None} :
            c = stage[t] /\ g = hire[t] /\ v = row[g].signer /\ k = myJob[t]
      BY <1>6 DEF Sign, TypeOK, Call, DialogInv, Row
    <2> DEFINE x == [call |-> c, hire |-> g, job |-> k]
    <2>2. queue' = [queue EXCEPT ![v] = Append(queue[v], x)] /\ UNCHANGED <<row, job>>
      BY <1>6, <2>1 DEF Sign
    <2>3. x \in WalletTx /\ queue[v] \in Seq(WalletTx) /\ queue[w] \in Seq(WalletTx)
      BY <2>1 DEF WalletTx, TypeOK
    <2> HIDE DEF x
    <2>4. \A i \in 1..Len(queue[w]) : i \in 1..Len(queue'[w]) /\ queue'[w][i] = queue[w][i]
      <3>1. CASE w = v
        <4>1. queue'[w] = Append(queue[w], x)
          BY <2>2, <3>1 DEF TypeOK
        <4> QED
          BY <2>3, <4>1, QueuePlaces
      <3>2. CASE w # v
        BY <2>2, <3>2 DEF TypeOK
      <3> QED
        BY <3>1, <3>2
    <2>5. Waits => Waits'
      BY <2>4 DEF tx
    <2>6. Holds => Holds'
      BY <2>2
    <2> HIDE DEF Holds, Waits
    <2> QED
      BY <1>4, <1>5, <2>5, <2>6
  <1>7. ASSUME NEW u \in Wallets, Mine(u)
        PROVE  Settled(h, j)'
    <2>1. PICK x : x = Head(queue[u])
      OBVIOUS
    <2>2. UNCHANGED row /\ queue[u] # <<>> /\ queue'[u] = Tail(queue[u])
      BY <1>7, Effect
    <2>3. /\ x \in WalletTx /\ x = queue[u][1] /\ 1 \in 1..Len(queue[u])
          /\ \A i \in 1..Len(queue[u]) : i # 1 => /\ i - 1 \in 1..Len(queue'[u])
                                                  /\ queue'[u][i - 1] = queue[u][i]
      <3>1. x \in WalletTx /\ x = queue[u][1] /\ 1 \in 1..Len(queue[u])
        BY <2>1, <2>2, QueueTail DEF TypeOK
      <3> QED
        BY <2>2, <3>1, QueuePlaces DEF TypeOK
    <2>4. /\ x.call \in {"registerJob", "setBudget", "fund"} /\ x.job = j => x.hire = h
          /\ job[j].funded \in BOOLEAN
      <3>1. x.call \in {"registerJob", "setBudget", "fund"} => job[x.job].hire = x.hire
        BY <2>3, QueuedJobs
      <3>2. job[j] \in Job
        BY DEF TypeOK
      <3> QED
        BY <3>1, <3>2 DEF Job
    <2>5. Holds => Holds'
      <3>1. CASE x.call \in {"registerJob", "setBudget", "fund"} /\ x.job = j
        <4>1. /\ job'[j].funded = (job[j].funded \/ x.call = "fund")
              /\ job'[j].budget = IF x.call = "setBudget" THEN row[x.hire].budget ELSE job[j].budget
          BY <1>7, <2>1, <3>1, Effect
        <4> QED
          BY <1>2, <2>4, <3>1, <4>1
      <3>2. CASE ~(x.call \in {"registerJob", "setBudget", "fund"} /\ x.job = j)
        <4>1. job'[j] = job[j]
          BY <1>7, <2>1, <3>2, Effect
        <4> QED
          BY <1>2, <4>1
      <3> QED
        BY <3>1, <3>2
    <2>6. ASSUME NEW i \in 1..Len(queue[w]), queue[w][i] = tx
          PROVE  Holds' \/ Waits'
      <3>1. CASE w # u
        <4>1. queue'[w] = queue[w]
          BY <1>7, <3>1, Effect
        <4> QED
          BY <2>6, <4>1 DEF tx
      <3>2. CASE w = u /\ i # 1
        BY <2>3, <2>6, <3>2 DEF tx
      <3>3. CASE w = u /\ i = 1
        <4>1. x.call = "fund" /\ x.hire = h /\ x.job = j
          BY <1>3, <2>3, <2>6, <3>3
        <4>2. InTurn(u, 1, x.call, x.hire, x.job)
          BY <2>3 DEF OrderInv
        <4>3. job[j].budget = row[h].budget
          BY <4>1, <4>2 DEF InTurn, Prepared
        <4>4. job'[j].funded /\ job'[j].budget = job[j].budget
          BY <1>7, <2>1, <4>1, Effect
        <4> QED
          BY <1>2, <4>3, <4>4
      <3> QED
        BY <3>1, <3>2, <3>3
    <2>7. Waits => Holds' \/ Waits'
      BY <2>6
    <2> HIDE DEF Holds, Waits
    <2> QED
      BY <1>4, <1>5, <2>5, <2>7
  <1>8. ASSUME UNCHANGED <<queue, job>>
        PROVE  Settled(h, j)'
    BY <1>2, <1>8 DEF Settled
  <1> QED
    BY <1>6, <1>7, <1>8
       DEF Next, vars, Dialog, CreateEscrowHire, JobMined, GiveUp, SubmitFromDialog, Submit,
           SubmitFromClient, CommitLink, LoseRequest

\* A dialog submits after its fund call, and the request and the row pass on
\* what the dialog reported.
LEMMA SettledStep ==
    ASSUME TypeOK, DialogInv, ChainInv, RequestInv, LinkInv, Orderly, OrderInv, OnceInv,
           SettledInv, [Next]_vars
    PROVE  SettledInv'
  <1> USE DEF table, dialog, request, chain
  <1> DEFINE Told(h, j) == /\ h \in Hires /\ j \in Jobs /\ row[h] # None
                           /\ job[j] # None /\ job[j].hire = h /\ Settled(h, j)
  <1>1. \A h, j : Told(h, j) => Settled(h, j)'
    BY SettledKept
  <1>2. \A t \in Tabs : stage[t] = "submit" => Told(hire[t], myJob[t])
    BY DEF DialogInv, SettledInv
  <1>3. \A r \in Reqs : ask[r] # None => Told(ask[r].hire, ask[r].job)
    BY DEF TypeOK, Submission, RequestInv, LinkInv, SettledInv, Orderly
  <1>4. \A h \in Hires : jobId[h] # None => Told(h, jobId[h])
    BY DEF TypeOK, DialogInv, LinkInv, SettledInv, Orderly
  <1> HIDE DEF Told
  <1>5. ASSUME NEW t \in Tabs, ~Dialog(t)
        PROVE  stage'[t] = stage[t] /\ hire'[t] = hire[t] /\ myJob'[t] = myJob[t]
    <2>1. ASSUME NEW s \in Tabs, Dialog(s)
          PROVE  stage'[t] = stage[t] /\ hire'[t] = hire[t] /\ myJob'[t] = myJob[t]
      <3>1. s # t
        BY <1>5, <2>1
      <3> QED
        BY <2>1, <3>1
           DEF Dialog, CreateEscrowHire, Sign, JobMined, GiveUp, SubmitFromDialog, TypeOK
    <2>2. ASSUME NEW u \in Wallets, Mine(u)
          PROVE  UNCHANGED dialog
      BY <2>2, Effect
    <2> QED
      BY <2>1, <2>2 DEF Next, vars, Submit, SubmitFromClient, CommitLink, LoseRequest
  <1>6. ASSUME NEW t \in Tabs, Dialog(t), stage'[t] = "submit"
        PROVE  Sign(t) /\ stage[t] = "fund"
    BY <1>6 DEF Dialog, CreateEscrowHire, Sign, JobMined, GiveUp, SubmitFromDialog, TypeOK, Call,
                NextStage
  <1>7. ASSUME NEW r \in Reqs, ask'[r] # None, ask'[r] # ask[r]
        PROVE  \E t \in Tabs : SubmitFromDialog(t, r)
    <2>1. ASSUME NEW t \in Tabs, Dialog(t)
          PROVE  SubmitFromDialog(t, r)
      <3>1. PICK q \in Reqs : SubmitFromDialog(t, q)
        BY <1>7, <2>1 DEF Dialog, CreateEscrowHire, Sign, JobMined, GiveUp
      <3>2. q = r
        BY <1>7, <3>1 DEF SubmitFromDialog, ReadRow, TypeOK
      <3> QED
        BY <3>1, <3>2
    <2>2. ASSUME NEW u \in Wallets, Mine(u)
          PROVE  UNCHANGED request
      BY <2>2, Effect
    <2>3. ASSUME NEW q \in Reqs, Submit(q)
          PROVE  FALSE
      BY <1>7, <2>3 DEF Submit, SubmitFromClient, CommitLink, LoseRequest, TypeOK, Orderly
    <2> QED
      BY <1>7, <2>1, <2>2, <2>3 DEF Next, vars
  <1>8. ASSUME NEW h \in Hires, jobId'[h] # jobId[h]
        PROVE  \E r \in Reqs : CommitLink(r)
    <2>1. ASSUME NEW u \in Wallets, Mine(u)
          PROVE  UNCHANGED table
      BY <2>1, Effect
    <2> QED
      BY <1>8, <2>1
         DEF Next, vars, Dialog, CreateEscrowHire, Sign, JobMined, GiveUp, SubmitFromDialog,
             Submit, SubmitFromClient, LoseRequest
  <1>9. ASSUME NEW t \in Tabs, stage'[t] = "submit"
        PROVE  Settled(hire[t], myJob[t])'
    <2>1. CASE ~Dialog(t)
      <3>1. stage[t] = "submit" /\ hire'[t] = hire[t] /\ myJob'[t] = myJob[t]
        BY <1>5, <1>9, <2>1
      <3>2. PICK h, j : h = hire[t] /\ j = myJob[t]
        OBVIOUS
      <3>3. Settled(h, j)'
        BY <1>1, <1>2, <3>1, <3>2
      <3> QED
        BY <3>1, <3>2, <3>3 DEF Settled
    <2>2. CASE Dialog(t)
      <3>1. Sign(t) /\ stage[t] = "fund"
        BY <1>6, <1>9, <2>2
      <3>2. PICK h \in Hires, w \in Wallets, j \in Jobs :
              h = hire[t] /\ w = row[h].signer /\ j = myJob[t]
        BY <3>1 DEF DialogInv, TypeOK, Row
      <3> DEFINE x == [call |-> "fund", hire |-> h, job |-> j]
      <3>3. /\ queue' = [queue EXCEPT ![w] = Append(queue[w], x)]
            /\ UNCHANGED <<row, hire, myJob>>
        BY <3>1, <3>2 DEF Sign
      <3>4. x \in WalletTx /\ queue[w] \in Seq(WalletTx)
        BY <3>2 DEF WalletTx, TypeOK, Call
      <3>5. \E i \in 1..Len(queue'[w]) : queue'[w][i] = x
        <4> HIDE DEF x
        <4>1. queue'[w] = Append(queue[w], x)
          BY <3>3 DEF TypeOK
        <4>2. /\ Len(queue[w]) \in Nat /\ Len(queue'[w]) = Len(queue[w]) + 1
              /\ queue'[w][Len(queue[w]) + 1] = x
          BY <3>4, <4>1, QueuePlaces
        <4>3. Len(queue[w]) + 1 \in 1..Len(queue'[w])
          BY <4>2
        <4> QED
          BY <4>2, <4>3
      <3>6. row'[h].signer = w /\ hire'[t] = h /\ myJob'[t] = j
        BY <3>2, <3>3
      <3> QED
        BY <3>5, <3>6 DEF Settled
    <2> QED
      BY <2>1, <2>2
  <1>10. ASSUME NEW r \in Reqs, ask'[r] # None
         PROVE  Settled(ask[r].hire, ask[r].job)'
    <2>1. PICK h, j : h = ask'[r].hire /\ j = ask'[r].job
      OBVIOUS
    <2>2. Settled(h, j)'
      <3>1. CASE ask'[r] = ask[r]
        BY <1>1, <1>3, <1>10, <2>1, <3>1
      <3>2. CASE ask'[r] # ask[r]
        <4>1. PICK t \in Tabs : SubmitFromDialog(t, r)
          BY <1>7, <1>10, <3>2
        <4>2. stage[t] = "submit" /\ h = hire[t] /\ j = myJob[t]
          BY <2>1, <4>1 DEF SubmitFromDialog, ReadRow, TypeOK
        <4> QED
          BY <1>1, <1>2, <4>2
      <3> QED
        BY <3>1, <3>2
    <2> QED
      BY <2>1, <2>2 DEF Settled
  <1>11. ASSUME NEW h \in Hires, jobId'[h] # None
         PROVE  Settled(h, jobId[h])'
    <2>1. PICK j : j = jobId'[h]
      OBVIOUS
    <2>2. Settled(h, j)'
      <3>1. CASE jobId'[h] = jobId[h]
        BY <1>1, <1>4, <1>11, <2>1, <3>1
      <3>2. CASE jobId'[h] # jobId[h]
        <4>1. PICK r \in Reqs : CommitLink(r)
          BY <1>8, <3>2
        <4>2. ask[r] # None /\ h = ask[r].hire /\ j = ask[r].job
          BY <2>1, <3>2, <4>1 DEF CommitLink, TypeOK
        <4> QED
          BY <1>1, <1>3, <4>2
      <3> QED
        BY <3>1, <3>2
    <2> QED
      BY <2>1, <2>2 DEF Settled
  <1> QED
    BY <1>9, <1>10, <1>11 DEF SettledInv, Settled

LEMMA FundStep == IInv /\ [Next]_vars => FundInv'
  <1> SUFFICES ASSUME IInv, [Next]_vars, Orderly
               PROVE  OrderInv' /\ OnceInv' /\ SettledInv'
    BY DEF FundInv, Orderly
  <1> QED
    BY OrderStep, OnceStep, SettledStep DEF IInv, FundInv

-----------------------------------------------------------------------------
\* The invariant holds at the start and through every step of dialogs,
\* requests, wallets and contracts.
THEOREM Invariance == Spec => []IInv
  <1>1. Init => IInv
    <2> SUFFICES ASSUME Init
                 PROVE  IInv
      OBVIOUS
    <2>1. TypeOK
      BY EscrowConstants DEF Init, TypeOK, Stage, Nothing
    <2>2. DialogInv /\ RequestInv /\ LinkInv
      BY DEF Init, DialogInv, RequestInv, LinkInv
    <2>3. ChainInv
      BY DEF Init, ChainInv
    <2>4. FundInv
      <3> SUFFICES ASSUME Orderly
                   PROVE  OrderInv /\ OnceInv /\ SettledInv
        BY DEF FundInv
      <3>1. \A u \in Wallets : Spent(u) = {}
        BY DEF Init, Spent
      <3>2. \A u \in Wallets : Hires \ Spent(u) = Hires
        BY <3>1
      <3>3. OrderInv
        BY DEF Init, OrderInv
      <3>4. OnceInv
        <4>1. \A u \in Wallets : 1..Len(queue[u]) = {}
          BY DEF Init
        <4>2. \A t \in Tabs : stage[t] = "idle"
          BY DEF Init
        <4>3. \A u \in Wallets, b \in Budgets : b * Cardinality(Hires \ Spent(u)) <= balance[u]
          <5> SUFFICES ASSUME NEW u \in Wallets, NEW b \in Budgets
                       PROVE  b * Cardinality(Hires \ Spent(u)) <= balance[u]
            OBVIOUS
          <5>1. Hires \ Spent(u) = Hires
            BY <3>2
          <5>2. balance[u] = Balance
            BY DEF Init
          <5> QED
            BY <5>1, <5>2 DEF Orderly
        <4> QED
          BY <4>1, <4>2, <4>3 DEF OnceInv
      <3>5. SettledInv
        BY DEF Init, SettledInv
      <3> QED
        BY <3>3, <3>4, <3>5
    <2> QED
      BY <2>1, <2>2, <2>3, <2>4 DEF IInv
  <1>2. IInv /\ [Next]_vars => IInv'
    BY TypeStep, DialogStep, ChainStep, RequestStep, LinkStep, FundStep DEF IInv
  <1> QED
    BY <1>1, <1>2, PTL DEF Spec

\* Columns, dialogs, requests and the contract's books keep their types: no
\* allowance and no balance is ever overdrawn.
THEOREM TypeCorrect == Spec => []TypeOK
  <1>1. IInv => TypeOK
    BY DEF IInv
  <1> QED
    BY <1>1, Invariance, PTL

\* With dialogs as the only clients, a paid row is linked to the job that its
\* own createJob transaction opened.
THEOREM PaidRowsOwnTheirJobs ==
    ASSUME ~AnyClient
    PROVE  Spec => []PaidRowHasOwnJob
  <1>1. IInv => PaidRowHasOwnJob
    <2> SUFFICES ASSUME IInv, NEW h \in Hires, status[h] = "paid"
                 PROVE  /\ jobId[h] # None
                        /\ job[jobId[h]] # None
                        /\ job[jobId[h]].hire = h
                        /\ txHash[h] = jobId[h]
      BY DEF PaidRowHasOwnJob
    <2>1. jobId[h] # None /\ jobId[h] \in Jobs
      BY DEF IInv, DialogInv, TypeOK
    <2>2. job[jobId[h]] # None /\ job[jobId[h]].hire = h /\ txHash[h] = jobId[h]
      BY <2>1 DEF IInv, LinkInv
    <2> QED
      BY <2>1, <2>2
  <1> QED
    BY <1>1, Invariance, PTL

\* When one dialog runs at a time and nothing is cancelled, a paid row's job holds
\* the budget as soon as the wallet's transactions are mined: whatever dialogs
\* were abandoned before, the approval a fund call takes is its own.
THEOREM PaidJobsAreFunded ==
    ASSUME Orderly
    PROVE  Spec => []PaidIsFunded
  <1>1. IInv => PaidIsFunded
    <2> SUFFICES ASSUME IInv, NEW h \in Hires, status[h] = "paid", queue[row[h].signer] = <<>>
                 PROVE  job[jobId[h]].funded /\ job[jobId[h]].budget = row[h].budget
      BY DEF PaidIsFunded
    <2>1. jobId[h] # None
      BY DEF IInv, DialogInv
    <2>2. Settled(h, jobId[h])
      BY <2>1 DEF IInv, FundInv, SettledInv
    <2>3. 1..Len(queue[row[h].signer]) = {}
      OBVIOUS
    <2> QED
      BY <2>2, <2>3 DEF Settled
  <1> QED
    BY <1>1, Invariance, PTL

-----------------------------------------------------------------------------
\* With serial submissions the row a handler commits is the row it read.
LEMMA SerialStep ==
    ASSUME IInv, SerialInv, [Next]_vars
    PROVE  SerialInv' /\ (\A h \in Serial : jobId[h] # None => jobId'[h] = jobId[h])
  <1> USE DEF table, dialog, request, chain
  <1>0. TypeOK /\ DialogInv /\ RequestInv /\ Serial \subseteq Hires
    BY EscrowConstants DEF IInv
  <1>1. ASSUME NEW r \in Reqs, NEW h \in Hires, NEW j \in Jobs, NEW x \in Jobs,
               ReadRow(r, h, j, x), UNCHANGED table
        PROVE  SerialInv' /\ (\A g \in Serial : jobId[g] # None => jobId'[g] = jobId[g])
    BY <1>0, <1>1 DEF ReadRow, Linkable, SerialInv, TypeOK
  <1>2. ASSUME NEW r \in Reqs, CommitLink(r)
        PROVE  SerialInv' /\ (\A g \in Serial : jobId[g] # None => jobId'[g] = jobId[g])
    <2>1. /\ ask[r] # None /\ ask'[r] = None
          /\ \A q \in Reqs \ {r} : ask'[q] = ask[q] /\ seen'[q] = seen[q]
      BY <1>0, <1>2 DEF CommitLink, TypeOK
    <2>2. /\ ask[r].hire \in Hires
          /\ ask[r].hire \in Serial => /\ seen[r].job = jobId[ask[r].hire]
                                       /\ seen[r].job \in {None, ask[r].job}
      BY <1>0, <2>1 DEF SerialInv, TypeOK, Submission
    <2>3. \A g \in Hires : g # ask[r].hire => jobId'[g] = jobId[g]
      BY <1>0, <1>2 DEF CommitLink, TypeOK
    <2>4. ask[r].hire \in Serial /\ jobId[ask[r].hire] # None => jobId'[ask[r].hire] = jobId[ask[r].hire]
      BY <1>2, <2>2 DEF CommitLink
    <2>5. \A q \in Reqs \ {r} : ask[q] # None =>
            ask[q].hire \in Hires /\ (ask[q].hire \in Serial => ask[q].hire # ask[r].hire)
      BY <1>0, <2>1 DEF SerialInv, TypeOK, Submission
    <2>6. SerialInv'
      BY <2>1, <2>3, <2>5 DEF SerialInv
    <2> QED
      BY <1>0, <2>3, <2>4, <2>6
  <1>3. ASSUME NEW r \in Reqs, LoseRequest(r)
        PROVE  SerialInv' /\ (\A g \in Serial : jobId[g] # None => jobId'[g] = jobId[g])
    BY <1>0, <1>3 DEF LoseRequest, SerialInv, TypeOK
  <1>4. ASSUME UNCHANGED <<jobId, request>>
        PROVE  SerialInv' /\ (\A g \in Serial : jobId[g] # None => jobId'[g] = jobId[g])
    BY <1>4 DEF SerialInv
  <1>5. ASSUME NEW t \in Tabs, NEW r \in Reqs, SubmitFromDialog(t, r)
        PROVE  SerialInv' /\ (\A g \in Serial : jobId[g] # None => jobId'[g] = jobId[g])
    <2>1. hire[t] \in Hires /\ myJob[t] \in Jobs
      BY <1>0, <1>5 DEF SubmitFromDialog, DialogInv
    <2> QED
      BY <1>1, <1>5, <2>1 DEF SubmitFromDialog
  <1> QED
    BY <1>1, <1>2, <1>3, <1>4, <1>5
       DEF Next, vars, Dialog, CreateEscrowHire, Sign, JobMined, GiveUp, Submit,
           SubmitFromClient, Mine, MineApprove, MineCreateJob, MineRegisterJob,
           MineSetBudget, MineFund, FundReverts, TxFails

\* With serial submissions a recorded job id is never replaced, whoever submits.
THEOREM SerialLinksAreFinal == Spec => SerialLinkIsFinal
  <1>1. Init => SerialInv
    BY DEF Init, SerialInv
  <1>2. IInv /\ SerialInv /\ [Next]_vars => SerialInv'
    BY SerialStep
  <1>3. IInv /\ SerialInv /\ [Next]_vars =>
          [\A h \in Serial : jobId[h] # None => jobId'[h] = jobId[h]]_vars
    BY SerialStep
  <1> QED
    BY <1>1, <1>2, <1>3, Invariance, PTL DEF Spec, SerialLinkIsFinal
=============================================================================
