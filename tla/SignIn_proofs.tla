--------------------------- MODULE SignIn_proofs ---------------------------
(***************************************************************************)
(* Proofs about SignIn, for every value of its constants.                  *)
(***************************************************************************)
EXTENDS SignIn, TLAPS

\* Beginning a request takes an idle one and leaves every other as it is.
LEMMA BeginStep ==
    ASSUME TypeOK, NEW r \in Reqs, NEW stage \in Stage, NEW t \in Task, Begin(r, stage, t)
    PROVE  /\ pc[r] = "idle" /\ pc'[r] = stage /\ task'[r] = t
           /\ \A q \in Reqs \ {r} : pc'[q] = pc[q] /\ task'[q] = task[q]
           /\ UNCHANGED <<now, row, users>>
           /\ TypeOK'
  BY DEF Begin, TypeOK

\* The two ways a request begins, as steps of Begin with a task of their kind.
LEMMA IssueBegins ==
    ASSUME TypeOK, NEW r \in Reqs, NEW a \in Addrs, NEW n \in Nonces, IssueNonce(r, a, n)
    PROVE  \E t \in Task : /\ Begin(r, "merging", t)
                           /\ t = [kind |-> "issue", addr |-> a, nonce |-> n, at |-> now,
                                   seen |-> Seen(a), isNew |-> FALSE]
  <1>1. Seen(a) \in {"none", "live", "used"}
    BY DEF Seen
  <1> QED
    BY <1>1 DEF IssueNonce, TypeOK, Task

LEMMA VerifyBegins ==
    ASSUME TypeOK, NEW r \in Reqs, NEW a \in Addrs, NEW n \in Nonces, VerifySignature(r, a, n)
    PROVE  \E t \in Task : /\ Begin(r, IF Accepts(a, n) THEN "checked" ELSE "refused", t)
                           /\ t = [kind |-> "verify", addr |-> a, nonce |-> n, at |-> now,
                                   seen |-> "live", isNew |-> FALSE]
  BY DEF VerifySignature, TypeOK, Task

\* A request past idle has its task; its fields are of their kind.
LEMMA TaskFields ==
    ASSUME TypeOK, TaskInv, NEW r \in Reqs, pc[r] # "idle"
    PROVE  /\ task[r] \in Task /\ task[r].addr \in Addrs /\ task[r].nonce \in Nonces
           /\ task[r].at \in Nat /\ task[r].isNew \in BOOLEAN
           /\ task[r].kind \in {"issue", "verify"}
  BY DEF TypeOK, TaskInv, Task

-----------------------------------------------------------------------------
\* The two actions that write a row write a whole one.
LEMMA MergedRow ==
    ASSUME TypeOK, TaskInv, RowInv, NEW r \in Reqs, MergeNonce(r)
    PROVE  \E new \in Row :
              /\ new.nonce = task[r].nonce /\ new.used = UsedAfter(task[r])
              /\ new.expires = task[r].at + TTL
              /\ row' = [row EXCEPT ![task[r].addr] = new]
  <1>1. pc[r] = "merging" /\ task[r].addr \in Addrs /\ task[r].nonce \in Nonces
        /\ task[r].at + TTL \in Nat
    BY TaskFields, SignInConstants DEF MergeNonce
  <1>2. UsedAfter(task[r]) \in BOOLEAN
    <2>1. CASE task[r].seen = "live"
      <3>1. row[task[r].addr] \in Row
        BY <1>1, <2>1 DEF RowInv, TypeOK
      <3> QED
        BY <2>1, <3>1 DEF UsedAfter, Row
    <2>2. CASE task[r].seen # "live"
      BY <2>2 DEF UsedAfter
    <2> QED
      BY <2>1, <2>2
  <1> DEFINE new == [nonce |-> task[r].nonce, used |-> UsedAfter(task[r]),
                     expires |-> task[r].at + TTL]
  <1>3. new \in Row
    BY <1>1, <1>2 DEF Row
  <1>4. row' = [row EXCEPT ![task[r].addr] = new]
    BY DEF MergeNonce
  <1> QED
    BY <1>3, <1>4

LEMMA OpenedRow ==
    ASSUME TypeOK, TaskInv, RowInv, NEW r \in Reqs, OpenSession(r)
    PROVE  /\ row[task[r].addr] \in Row
           /\ \E new \in Row :
              /\ new.nonce = row[task[r].addr].nonce /\ new.used = TRUE
              /\ new.expires = row[task[r].addr].expires
              /\ row' = [row EXCEPT ![task[r].addr] = new]
  <1>1. task[r].addr \in Addrs /\ row[task[r].addr] \in Row
    BY TaskFields DEF OpenSession, RowInv, TypeOK
  <1> DEFINE new == [row[task[r].addr] EXCEPT !.used = TRUE]
  <1>2. new \in Row /\ new.nonce = row[task[r].addr].nonce /\ new.used = TRUE
        /\ new.expires = row[task[r].addr].expires
    BY <1>1 DEF Row
  <1>3. row' = [row EXCEPT ![task[r].addr] = new]
    BY DEF OpenSession
  <1> QED
    BY <1>1, <1>2, <1>3

-----------------------------------------------------------------------------
LEMMA TypeStep ==
    ASSUME TypeOK, TaskInv, RowInv, [Next]_vars
    PROVE  TypeOK'
  <1> USE DEF Stage, Open
  <1>1. ASSUME NEW r \in Reqs, NEW a \in Addrs, NEW n \in Nonces, IssueNonce(r, a, n)
        PROVE  TypeOK'
    BY <1>1, IssueBegins, BeginStep
  <1>2. ASSUME NEW r \in Reqs, NEW a \in Addrs, NEW n \in Nonces, VerifySignature(r, a, n)
        PROVE  TypeOK'
    BY <1>2, VerifyBegins, BeginStep
  <1>3. ASSUME NEW r \in Reqs, MergeNonce(r)
        PROVE  TypeOK'
    BY <1>3, MergedRow DEF MergeNonce, TypeOK
  <1>4. ASSUME NEW r \in Reqs, MergeConflict(r)
        PROVE  TypeOK'
    BY <1>4 DEF MergeConflict, TypeOK
  <1>5. ASSUME NEW r \in Reqs, LookUpUser(r)
        PROVE  TypeOK'
    <2>1. task[r] \in Task
      BY <1>5, TaskFields DEF LookUpUser
    <2>2. [task[r] EXCEPT !.isNew = task[r].addr \notin users] \in Task
      BY <2>1 DEF Task
    <2>3. task' = [task EXCEPT ![r] = [task[r] EXCEPT !.isNew = task[r].addr \notin users]]
      BY <1>5 DEF LookUpUser
    <2> QED
      BY <1>5, <2>2, <2>3 DEF LookUpUser, TypeOK
  <1>6. ASSUME NEW r \in Reqs, OpenSession(r)
        PROVE  TypeOK'
    <2>1. task[r].addr \in Addrs
      BY <1>6, TaskFields DEF OpenSession
    <2> QED
      BY <1>6, <2>1, OpenedRow DEF OpenSession, TypeOK
  <1>7. ASSUME NEW r \in Reqs, LoseRequest(r)
        PROVE  TypeOK'
    BY <1>7 DEF LoseRequest, TypeOK
  <1>8. ASSUME Tick
        PROVE  TypeOK'
    BY <1>8 DEF Tick, TypeOK
  <1>9. ASSUME UNCHANGED vars
        PROVE  TypeOK'
    BY <1>9 DEF vars, TypeOK
  <1> QED
    BY <1>1, <1>2, <1>3, <1>4, <1>5, <1>6, <1>7, <1>8, <1>9 DEF Next

\* A request that has begun keeps what it is for and is never idle again; an
\* answer is final.
LEMMA RequestsMove ==
    ASSUME TypeOK, TaskInv, [Next]_vars, NEW q \in Reqs, pc[q] # "idle"
    PROVE  /\ pc'[q] # "idle" /\ task[q] # None /\ task'[q] # None
           /\ task'[q].kind = task[q].kind /\ task'[q].addr = task[q].addr
           /\ task'[q].nonce = task[q].nonce /\ task'[q].at = task[q].at
           /\ task'[q].seen = task[q].seen
           /\ pc[q] = "answered" => pc'[q] = "answered"
           /\ (pc'[q] = "answered" /\ pc[q] # "answered") => pc[q] \in {"merging", "locked"}
           /\ pc'[q] = "merging" => pc[q] = "merging"
           /\ pc'[q] = "checked" => pc[q] = "checked"
           /\ pc'[q] = "locked" => pc[q] \in {"checked", "locked"}
  <1> USE DEF Stage, Open
  <1>0. task[q] # None /\ task[q] \in Task
    BY DEF TypeOK, TaskInv
  <1>1. ASSUME NEW r \in Reqs, NEW a \in Addrs, NEW n \in Nonces,
               IssueNonce(r, a, n) \/ VerifySignature(r, a, n)
        PROVE  pc'[q] = pc[q] /\ task'[q] = task[q]
    <2>1. \E stage \in Stage, t \in Task : Begin(r, stage, t)
      BY <1>1, IssueBegins, VerifyBegins
    <2> QED
      BY <2>1, BeginStep
  <1>2. ASSUME NEW r \in Reqs, LookUpUser(r)
        PROVE  /\ q # r => pc'[q] = pc[q] /\ task'[q] = task[q]
               /\ q = r => /\ pc[q] = "checked" /\ pc'[q] = "locked"
                           /\ task'[q] = [task[q] EXCEPT !.isNew = task[q].addr \notin users]
    BY <1>2 DEF LookUpUser, TypeOK
  <1>3. ASSUME NEW r \in Reqs, LookUpUser(r), q = r
        PROVE  /\ task'[q] # None
               /\ task'[q].kind = task[q].kind /\ task'[q].addr = task[q].addr
               /\ task'[q].nonce = task[q].nonce /\ task'[q].at = task[q].at
               /\ task'[q].seen = task[q].seen
    <2>1. task'[q] = [task[q] EXCEPT !.isNew = task[q].addr \notin users]
      BY <1>2, <1>3
    <2>2. task'[q] \in Task
      BY <1>0, <2>1 DEF Task
    <2> QED
      BY <1>0, <2>1, <2>2, SignInConstants DEF Task
  <1>4. ASSUME NEW r \in Reqs, MergeNonce(r) \/ MergeConflict(r) \/ OpenSession(r) \/ LoseRequest(r)
        PROVE  /\ task'[q] = task[q]
               /\ q # r => pc'[q] = pc[q]
               /\ q = r => /\ pc[q] \in Open
                           /\ pc'[q] \in {"answered", "refused", "lost"}
                           /\ pc'[q] = "answered" => pc[q] \in {"merging", "locked"}
    BY <1>4 DEF MergeNonce, MergeConflict, OpenSession, LoseRequest, TypeOK
  <1>5. ASSUME Tick \/ UNCHANGED vars
        PROVE  task'[q] = task[q] /\ pc'[q] = pc[q]
    BY <1>5 DEF Tick, vars
  <1> QED
    BY <1>0, <1>1, <1>2, <1>3, <1>4, <1>5 DEF Next

-----------------------------------------------------------------------------
\* Requests that begin have the task of their stage, and a drawn nonce is fresh.
LEMMA TaskStep ==
    ASSUME TypeOK, TaskInv, [Next]_vars
    PROVE  TaskInv'
  <1> USE DEF Stage, Open
  <1> DEFINE Fits(p, t) ==
        /\ p # "idle" <=> t # None
        /\ p = "merging" => t.kind = "issue"
        /\ p \in {"checked", "locked"} => t.kind = "verify"
  <1> DEFINE Drawn(r) == task[r] # None /\ task[r].kind = "issue"
  <1> DEFINE DrawnNext(r) == task'[r] # None /\ task'[r].kind = "issue"
  <1>1. \A r \in Reqs : Fits(pc[r], task[r])
    BY DEF TaskInv
  <1>2. \A r, q \in Reqs : Drawn(r) /\ Drawn(q) /\ task[r].nonce = task[q].nonce => r = q
    BY DEF TaskInv
  <1>3. ASSUME NEW r \in Reqs, NEW a \in Addrs, NEW n \in Nonces, IssueNonce(r, a, n)
        PROVE  TaskInv'
    <2>1. PICK t \in Task : /\ Begin(r, "merging", t)
                            /\ t = [kind |-> "issue", addr |-> a, nonce |-> n, at |-> now,
                                    seen |-> Seen(a), isNew |-> FALSE]
      BY <1>3, IssueBegins
    <2>2. t.kind = "issue" /\ t.nonce = n /\ t # None
      BY <2>1, SignInConstants
    <2>3. /\ pc'[r] = "merging" /\ task'[r] = t
          /\ \A q \in Reqs \ {r} : pc'[q] = pc[q] /\ task'[q] = task[q]
      BY <2>1, BeginStep
    <2>4. \A q \in Reqs : Drawn(q) => task[q].nonce # n
      BY <1>1, <1>3 DEF IssueNonce
    <2> QED
      BY <1>1, <1>2, <2>2, <2>3, <2>4 DEF TaskInv
  <1>4. ASSUME NEW r \in Reqs, NEW a \in Addrs, NEW n \in Nonces, VerifySignature(r, a, n)
        PROVE  TaskInv'
    <2>1. PICK t \in Task : /\ Begin(r, IF Accepts(a, n) THEN "checked" ELSE "refused", t)
                            /\ t = [kind |-> "verify", addr |-> a, nonce |-> n, at |-> now,
                                    seen |-> "live", isNew |-> FALSE]
      BY <1>4, VerifyBegins
    <2>2. t.kind = "verify" /\ t # None
      BY <2>1, SignInConstants
    <2>3. /\ pc'[r] \in {"checked", "refused"} /\ task'[r] = t
          /\ \A q \in Reqs \ {r} : pc'[q] = pc[q] /\ task'[q] = task[q]
      BY <2>1, BeginStep
    <2> QED
      BY <1>1, <1>2, <2>2, <2>3 DEF TaskInv
  <1>5. ASSUME \A q \in Reqs : pc[q] = "idle" => pc'[q] = pc[q] /\ task'[q] = task[q]
        PROVE  TaskInv'
    <2>1. ASSUME NEW q \in Reqs
          PROVE  Fits(pc'[q], task'[q])
      BY <1>1, <1>5, <2>1, RequestsMove
    <2>2. ASSUME NEW q \in Reqs, DrawnNext(q)
          PROVE  Drawn(q) /\ task'[q].nonce = task[q].nonce
      BY <1>1, <1>5, <2>2, RequestsMove
    <2> QED
      BY <1>2, <2>1, <2>2 DEF TaskInv
  <1>6. ASSUME NEW r \in Reqs, \/ MergeNonce(r) \/ MergeConflict(r) \/ LookUpUser(r)
                              \/ OpenSession(r) \/ LoseRequest(r)
        PROVE  \A q \in Reqs : pc[q] = "idle" => pc'[q] = pc[q] /\ task'[q] = task[q]
    BY <1>6 DEF MergeNonce, MergeConflict, LookUpUser, OpenSession, LoseRequest, TypeOK
  <1>7. Tick \/ UNCHANGED vars => UNCHANGED <<pc, task>>
    BY DEF Tick, vars
  <1> QED
    BY <1>3, <1>4, <1>5, <1>6, <1>7 DEF Next

-----------------------------------------------------------------------------
\* The row's lock orders the verifications of an address, so what one of them
\* read of its user stays true until its commit.
LEMMA LockStep ==
    ASSUME TypeOK, TaskInv, LockInv, LookupIsCurrent, [Next]_vars
    PROVE  LockInv' /\ LookupIsCurrent'
  <1> USE DEF Stage, Open
  <1>1. ASSUME UNCHANGED users,
               \A q \in Reqs : pc'[q] = "locked" =>
                   pc[q] = "locked" /\ task'[q] = task[q]
        PROVE  LockInv' /\ LookupIsCurrent'
    BY <1>1 DEF LockInv, LookupIsCurrent
  <1>2. ASSUME NEW r \in Reqs, NEW a \in Addrs, NEW n \in Nonces,
               IssueNonce(r, a, n) \/ VerifySignature(r, a, n)
        PROVE  LockInv' /\ LookupIsCurrent'
    <2>1. \E stage \in Stage \ {"locked"}, t \in Task : Begin(r, stage, t)
      BY <1>2, IssueBegins, VerifyBegins
    <2>2. /\ UNCHANGED users
          /\ \A q \in Reqs : pc'[q] = "locked" => pc[q] = "locked" /\ task'[q] = task[q]
      BY <2>1, BeginStep
    <2> QED
      BY <1>1, <2>2
  <1>3. ASSUME NEW r \in Reqs, MergeNonce(r) \/ MergeConflict(r) \/ LoseRequest(r)
        PROVE  LockInv' /\ LookupIsCurrent'
    <2>1. /\ UNCHANGED users
          /\ \A q \in Reqs : pc'[q] = "locked" => pc[q] = "locked" /\ task'[q] = task[q]
      BY <1>3 DEF MergeNonce, MergeConflict, LoseRequest, TypeOK
    <2> QED
      BY <1>1, <2>1
  <1>4. ASSUME NEW r \in Reqs, LookUpUser(r)
        PROVE  LockInv' /\ LookupIsCurrent'
    <2>1. task[r] \in Task
      BY <1>4, TaskFields DEF LookUpUser
    <2>2. /\ task'[r].addr = task[r].addr
          /\ task'[r].isNew <=> task[r].addr \notin users
      <3>1. task'[r] = [task[r] EXCEPT !.isNew = task[r].addr \notin users]
        BY <1>4 DEF LookUpUser, TypeOK
      <3> QED
        BY <2>1, <3>1 DEF Task
    <2>3. \A q \in Reqs \ {r} : pc'[q] = pc[q] /\ task'[q] = task[q]
      BY <1>4 DEF LookUpUser, TypeOK
    <2>4. \A q \in Reqs : pc[q] = "locked" => task[q].addr # task[r].addr
      BY <1>4 DEF LookUpUser, LockFree
    <2>5. UNCHANGED users
      BY <1>4 DEF LookUpUser
    <2>6. LockInv'
      BY <2>2, <2>3, <2>4 DEF LockInv
    <2>7. LookupIsCurrent'
      BY <2>2, <2>3, <2>5 DEF LookupIsCurrent
    <2> QED
      BY <2>6, <2>7
  <1>5. ASSUME NEW r \in Reqs, OpenSession(r)
        PROVE  LockInv' /\ LookupIsCurrent'
    <2>1. /\ pc[r] = "locked" /\ pc'[r] = "answered" /\ UNCHANGED task
          /\ users' = users \cup {task[r].addr}
          /\ \A q \in Reqs \ {r} : pc'[q] = pc[q]
      BY <1>5 DEF OpenSession, TypeOK
    <2>2. \A q \in Reqs \ {r} : pc[q] = "locked" => task[q].addr # task[r].addr
      BY <2>1 DEF LockInv
    <2> QED
      BY <2>1, <2>2 DEF LockInv, LookupIsCurrent
  <1>6. ASSUME Tick \/ UNCHANGED vars
        PROVE  LockInv' /\ LookupIsCurrent'
    BY <1>1, <1>6 DEF Tick, vars
  <1> QED
    BY <1>2, <1>3, <1>4, <1>5, <1>6 DEF Next

-----------------------------------------------------------------------------
\* A nonce issued in time stays so: answers and tasks are kept.
LEMMA InTimeStays ==
    ASSUME TypeOK, TaskInv, [Next]_vars, NEW r \in Reqs, pc[r] # "idle", IssuedInTime(r)
    PROVE  IssuedInTime(r)'
  <1>1. PICK q \in Reqs : Issued(q) /\ SameNonce(r, q) /\ task[r].at < task[q].at + TTL
    BY DEF IssuedInTime
  <1>2. pc[q] # "idle" /\ pc[q] = "answered" /\ task[q].kind = "issue"
    BY <1>1 DEF Issued
  <1>3. /\ pc'[q] = "answered" /\ task'[q].kind = "issue"
        /\ task'[q].addr = task[q].addr /\ task'[q].nonce = task[q].nonce
        /\ task'[q].at = task[q].at
    BY <1>2, RequestsMove
  <1>4. /\ task'[r].addr = task[r].addr /\ task'[r].nonce = task[r].nonce
        /\ task'[r].at = task[r].at
    BY RequestsMove
  <1> QED
    BY <1>1, <1>3, <1>4 DEF IssuedInTime, Issued, SameNonce

\* A request that begins does so by one of the two handlers' first steps.
LEMMA NewRequest ==
    ASSUME TypeOK, [Next]_vars, NEW r \in Reqs, pc[r] = "idle", pc'[r] # "idle"
    PROVE  \E a \in Addrs, n \in Nonces : IssueNonce(r, a, n) \/ VerifySignature(r, a, n)
  BY DEF Next, vars, IssueNonce, VerifySignature, Begin, MergeNonce, MergeConflict,
         LookUpUser, OpenSession, LoseRequest, Tick, TypeOK, Open

-----------------------------------------------------------------------------
\* Rows come from answered issues, and a verification past its checks has a nonce
\* that its address's row held then.
LEMMA RowStep ==
    ASSUME TypeOK, TaskInv, RowInv, [Next]_vars
    PROVE  RowInv'
  <1> USE DEF Stage, Open
  <1> DEFINE From(a, q) == /\ Issued(q) /\ task[q].addr = a
                           /\ task[q].nonce = row[a].nonce
                           /\ row[a].expires = task[q].at + TTL
  <1> DEFINE Checked(r) == pc[r] \in {"checked", "locked"} \/ Session(r)
  <1>1. /\ \A a \in Addrs : row[a] # None => \E q \in Reqs : From(a, q)
        /\ \A r \in Reqs : pc[r] = "merging" /\ task[r].seen # "none" =>
              row[task[r].addr] # None
        /\ \A r \in Reqs : Checked(r) => row[task[r].addr] # None /\ IssuedInTime(r)
    BY DEF RowInv
  \* An issue that was answered stays so.
  <1>2. ASSUME NEW q \in Reqs, Issued(q)
        PROVE  Issued(q)' /\ task'[q].addr = task[q].addr
               /\ task'[q].nonce = task[q].nonce /\ task'[q].at = task[q].at
    BY <1>2, RequestsMove DEF Issued
  \* A row stays, and what it holds next is what it held or what an issue merged.
  <1>3. ASSUME NEW a \in Addrs
        PROVE  \/ row'[a] = row[a]
               \/ /\ row[a] # None /\ row'[a] # None
                  /\ row'[a].nonce = row[a].nonce /\ row'[a].expires = row[a].expires
               \/ /\ row'[a] # None
                  /\ \E r \in Reqs : /\ MergeNonce(r) /\ task[r].addr = a
                                     /\ row'[a].nonce = task[r].nonce
                                     /\ row'[a].expires = task[r].at + TTL
    <2>1. ASSUME NEW r \in Reqs, MergeNonce(r), row'[a] # row[a]
          PROVE  /\ row'[a] # None /\ task[r].addr = a
                 /\ row'[a].nonce = task[r].nonce /\ row'[a].expires = task[r].at + TTL
      BY <2>1, MergedRow, SignInConstants DEF TypeOK
    <2>2. ASSUME NEW r \in Reqs, OpenSession(r), row'[a] # row[a]
          PROVE  /\ row[a] # None /\ row'[a] # None
                 /\ row'[a].nonce = row[a].nonce /\ row'[a].expires = row[a].expires
      BY <2>2, OpenedRow, SignInConstants DEF TypeOK
    <2>3. (\E r \in Reqs : MergeNonce(r) \/ OpenSession(r)) \/ UNCHANGED row
      BY DEF Next, vars, IssueNonce, VerifySignature, Begin, MergeConflict,
             LookUpUser, LoseRequest, Tick
    <2> QED
      BY <2>1, <2>2, <2>3
  <1>4. ASSUME NEW a \in Addrs, row[a] # None
        PROVE  row'[a] # None
    BY <1>3, <1>4
  <1>5. ASSUME NEW a \in Addrs, row'[a] # None
        PROVE  \E q \in Reqs : From(a, q)'
    <2>1. CASE row[a] # None /\ row'[a].nonce = row[a].nonce /\ row'[a].expires = row[a].expires
      BY <1>1, <1>2, <2>1
    <2>2. ASSUME NEW r \in Reqs, MergeNonce(r), task[r].addr = a,
                 row'[a].nonce = task[r].nonce, row'[a].expires = task[r].at + TTL
          PROVE  From(a, r)'
      BY <2>2 DEF MergeNonce, Issued, TaskInv, TypeOK
    <2> QED
      BY <1>3, <1>5, <2>1, <2>2
  \* A merge that loaded a row finds one still.
  <1>6. ASSUME NEW r \in Reqs, pc'[r] = "merging", task'[r].seen # "none"
        PROVE  row'[task'[r].addr] # None
    <2>1. CASE pc[r] # "idle"
      BY <1>1, <1>4, <1>6, <2>1, RequestsMove, TaskFields
    <2>2. CASE pc[r] = "idle"
      <3>1. PICK a \in Addrs, n \in Nonces : IssueNonce(r, a, n) \/ VerifySignature(r, a, n)
        BY <1>6, <2>2, NewRequest
      <3>2. CASE IssueNonce(r, a, n)
        <4>1. task'[r].addr = a /\ task'[r].seen = Seen(a) /\ UNCHANGED row
          BY <3>2, IssueBegins, BeginStep
        <4> QED
          BY <1>6, <4>1 DEF Seen
      <3>3. CASE VerifySignature(r, a, n)
        <4>1. pc'[r] \in {"checked", "refused"}
          BY <3>3, VerifyBegins, BeginStep
        <4> QED
          BY <1>6, <4>1
      <3> QED
        BY <3>1, <3>2, <3>3
    <2> QED
      BY <2>1, <2>2
  \* A verification that passes its checks found its nonce in the row.
  <1>7. ASSUME NEW r \in Reqs, Checked(r)'
        PROVE  row'[task'[r].addr] # None /\ IssuedInTime(r)'
    <2>1. CASE pc[r] # "idle"
      <3>1. Checked(r)
        BY <1>7, <2>1, RequestsMove DEF Session, TaskInv
      <3>2. row[task[r].addr] # None /\ IssuedInTime(r)
        BY <1>1, <3>1
      <3> QED
        BY <1>4, <2>1, <3>2, RequestsMove, TaskFields, InTimeStays
    <2>2. CASE pc[r] = "idle"
      <3>0. pc'[r] \in {"checked", "locked", "answered"}
        BY <1>7 DEF Session
      <3>1. PICK a \in Addrs, n \in Nonces : IssueNonce(r, a, n) \/ VerifySignature(r, a, n)
        BY <2>2, <3>0, NewRequest
      <3>2. CASE IssueNonce(r, a, n)
        BY <3>0, <3>2, IssueBegins, BeginStep
      <3>3. CASE VerifySignature(r, a, n)
        <4>1. /\ pc'[r] = (IF Accepts(a, n) THEN "checked" ELSE "refused")
              /\ task'[r].addr = a /\ task'[r].nonce = n /\ task'[r].at = now
              /\ UNCHANGED row
          BY <3>3, VerifyBegins, BeginStep
        <4>2. row[a] # None /\ row[a].nonce = n /\ row[a].expires > now
          BY <3>0, <4>1 DEF Accepts
        <4>3. PICK q \in Reqs : From(a, q)
          BY <1>1, <4>2
        <4>4. Issued(q)' /\ SameNonce(r, q)' /\ task'[r].at < task'[q].at + TTL
          <5>1. task[q].at \in Nat /\ now \in Nat /\ TTL \in Nat
            BY <4>3, TaskFields, SignInConstants DEF Issued, TypeOK
          <5> QED
            BY <1>2, <4>1, <4>2, <4>3, <5>1 DEF SameNonce
        <4> QED
          BY <4>1, <4>2, <4>4 DEF IssuedInTime
      <3> QED
        BY <3>1, <3>2, <3>3
    <2> QED
      BY <2>1, <2>2
  <1> QED
    BY <1>5, <1>6, <1>7 DEF RowInv

-----------------------------------------------------------------------------
\* The inductive invariant of the sign-in holds for any number of addresses,
\* nonces and requests, whatever overlaps and whichever requests are lost.
THEOREM Invariance == Spec => []IInv
  <1>1. Init => IInv
    BY SignInConstants DEF Init, IInv, TypeOK, TaskInv, LockInv, LookupIsCurrent, RowInv,
       Stage, Open, Session
  <1>2. IInv /\ [Next]_vars => IInv'
    BY TypeStep, TaskStep, LockStep, RowStep DEF IInv
  <1> QED
    BY <1>1, <1>2, PTL DEF Spec

\* Type correctness of the sign-in.
THEOREM TypeCorrect == Spec => []TypeOK
  <1>1. IInv => TypeOK
    BY DEF IInv
  <1> QED
    BY <1>1, Invariance, PTL

\* A session rests on a nonce issued to its address less than TTL before the
\* signature was checked, under every overlap.
THEOREM SessionsAreTimely == Spec => []SessionIsTimely
  <1>1. IInv => SessionIsTimely
    BY DEF IInv, RowInv, SessionIsTimely
  <1> QED
    BY <1>1, Invariance, PTL

\* The INSERT of a user never conflicts: the auth_nonce row's lock keeps what a
\* verification read of users true until its commit.
THEOREM LookupsAreCurrent == Spec => []LookupIsCurrent
  <1>1. IInv => LookupIsCurrent
    BY DEF IInv
  <1> QED
    BY <1>1, Invariance, PTL

-----------------------------------------------------------------------------
(* Serial addresses                                                        *)

\* A step of another address's request leaves a settled request settled.
LEMMA StaysSettled ==
    ASSUME TypeOK, NEW r \in Reqs, Settled(r),
           pc'[r] = pc[r], task'[r] = task[r], row'[task[r].addr] = row[task[r].addr],
           \A q \in Reqs : pc'[q] \in Open /\ task'[q].addr = task[r].addr /\ pc[r] \in Open =>
               pc[q] \in Open /\ task[q].addr = task[r].addr
    PROVE  Settled(r)'
  BY DEF Settled, Seen, Session

LEMMA SerialStep ==
    ASSUME IInv, SerialInv, [Next]_vars
    PROVE  SerialInv'
  <1> USE DEF Open, Stage
  <1>0. TypeOK /\ TaskInv /\ RowInv /\ Serial \subseteq Addrs
    BY SignInConstants DEF IInv
  <1>1. \A r \in Reqs : task[r] # None /\ task[r].addr \in Serial => Settled(r)
    BY DEF SerialInv
  <1> SUFFICES ASSUME NEW r \in Reqs, task'[r] # None, task'[r].addr \in Serial
               PROVE  Settled(r)'
    BY DEF SerialInv
  <1>2. ASSUME NEW p \in Reqs, NEW a \in Addrs, NEW n \in Nonces, IssueNonce(p, a, n)
        PROVE  Settled(r)'
    <2>1. /\ pc'[p] = "merging" /\ pc[p] = "idle"
          /\ task'[p].addr = a /\ task'[p].seen = Seen(a) /\ task'[p].kind = "issue"
          /\ \A q \in Reqs \ {p} : pc'[q] = pc[q] /\ task'[q] = task[q]
          /\ UNCHANGED row
      BY <1>0, <1>2, IssueBegins, BeginStep
    <2>2. a \in Serial => \A q \in Reqs : pc[q] \in Open => task[q].addr # a
      BY <1>2 DEF IssueNonce, MayStart
    <2>3. CASE r = p
      BY <2>1, <2>2, <2>3 DEF Settled, Seen, Session
    <2>4. CASE r # p
      BY <1>0, <1>1, <2>1, <2>2, <2>4, StaysSettled
    <2> QED
      BY <2>3, <2>4
  <1>3. ASSUME NEW p \in Reqs, NEW a \in Addrs, NEW n \in Nonces, VerifySignature(p, a, n)
        PROVE  Settled(r)'
    <2>1. /\ pc'[p] = (IF Accepts(a, n) THEN "checked" ELSE "refused") /\ pc[p] = "idle"
          /\ task'[p].addr = a /\ task'[p].nonce = n /\ task'[p].kind = "verify"
          /\ \A q \in Reqs \ {p} : pc'[q] = pc[q] /\ task'[q] = task[q]
          /\ UNCHANGED row
      BY <1>0, <1>3, VerifyBegins, BeginStep
    <2>2. a \in Serial => \A q \in Reqs : pc[q] \in Open => task[q].addr # a
      BY <1>3 DEF VerifySignature, MayStart
    <2>3. CASE r = p
      BY <2>1, <2>2, <2>3 DEF Settled, Session, Accepts
    <2>4. CASE r # p
      BY <1>0, <1>1, <2>1, <2>2, <2>4, StaysSettled
    <2> QED
      BY <2>3, <2>4
  <1>4. ASSUME NEW p \in Reqs, MergeNonce(p)
        PROVE  Settled(r)'
    <2>1. /\ pc[p] = "merging" /\ pc'[p] = "answered" /\ UNCHANGED task
          /\ task[p].kind = "issue" /\ task[p] # None /\ task[p].addr \in Addrs
          /\ \A q \in Reqs \ {p} : pc'[q] = pc[q]
      BY <1>0, <1>4, TaskFields DEF MergeNonce, TypeOK, TaskInv
    <2>2. /\ \A a \in Addrs : a # task[p].addr => row'[a] = row[a]
          /\ row'[task[p].addr].nonce = task[p].nonce
      BY <1>0, <1>4, <2>1, MergedRow DEF TypeOK
    <2>3. CASE r = p
      BY <2>1, <2>3 DEF Settled, Session
    <2>4. CASE r # p /\ task[r].addr # task[p].addr
      BY <1>0, <1>1, <2>1, <2>2, <2>4, StaysSettled
    <2>5. CASE r # p /\ task[r].addr = task[p].addr
      <3>1. pc[r] \notin Open
        BY <1>1, <2>1, <2>5 DEF Settled
      <3>2. Session(r) => task[r].nonce # task[p].nonce
        <4>1. SUFFICES ASSUME Session(r)
                       PROVE  task[r].nonce # task[p].nonce
          OBVIOUS
        <4>2. PICK q \in Reqs : Issued(q) /\ SameNonce(r, q)
          BY <1>0, <4>1 DEF RowInv, IssuedInTime
        <4>3. q # p /\ task[q].kind = "issue" /\ task[q] # None
          BY <1>0, <2>1, <4>2 DEF Issued, TaskInv
        <4> QED
          BY <1>0, <2>1, <4>2, <4>3 DEF TaskInv, SameNonce
      <3> QED
        BY <1>1, <2>1, <2>2, <2>5, <3>1, <3>2 DEF Settled, Session
    <2> QED
      BY <2>3, <2>4, <2>5
  <1>5. ASSUME NEW p \in Reqs, MergeConflict(p)
        PROVE  Settled(r)'
    <2>1. /\ pc[p] = "merging" /\ task[p].seen = "none" /\ row[task[p].addr] # None
          /\ UNCHANGED <<task, row>> /\ \A q \in Reqs \ {p} : pc'[q] = pc[q]
          /\ pc'[p] = "refused" /\ task[p] # None
      BY <1>0, <1>5 DEF MergeConflict, TypeOK, TaskInv
    <2>2. r # p
      BY <1>1, <2>1 DEF Settled, Seen
    <2> QED
      BY <1>0, <1>1, <2>1, <2>2, StaysSettled
  <1>6. ASSUME NEW p \in Reqs, LookUpUser(p)
        PROVE  Settled(r)'
    <2>1. /\ pc[p] = "checked" /\ pc'[p] = "locked" /\ UNCHANGED row
          /\ \A q \in Reqs \ {p} : pc'[q] = pc[q] /\ task'[q] = task[q]
      BY <1>0, <1>6 DEF LookUpUser, TypeOK
    <2>2. task[p] # None /\ task'[p].addr = task[p].addr /\ task'[p].nonce = task[p].nonce
      BY <1>0, <2>1, RequestsMove
    <2>3. CASE r = p
      BY <1>1, <2>1, <2>2, <2>3 DEF Settled, Session
    <2>4. CASE r # p
      BY <1>0, <1>1, <2>1, <2>2, <2>4, StaysSettled
    <2> QED
      BY <2>3, <2>4
  <1>7. ASSUME NEW p \in Reqs, OpenSession(p)
        PROVE  Settled(r)'
    <2>1. /\ pc[p] = "locked" /\ pc'[p] = "answered" /\ UNCHANGED task
          /\ task[p] # None /\ task[p].addr \in Addrs
          /\ \A q \in Reqs \ {p} : pc'[q] = pc[q]
      BY <1>0, <1>7, TaskFields DEF OpenSession, TypeOK, TaskInv
    <2>2. /\ \A a \in Addrs : a # task[p].addr => row'[a] = row[a]
          /\ row'[task[p].addr].used = TRUE
      BY <1>0, <1>7, <2>1, OpenedRow DEF TypeOK
    <2>3. CASE r = p
      BY <2>1, <2>2, <2>3 DEF Settled, Session
    <2>4. CASE r # p /\ task[r].addr # task[p].addr
      BY <1>0, <1>1, <2>1, <2>2, <2>4, StaysSettled
    <2>5. CASE r # p /\ task[r].addr = task[p].addr
      <3>1. pc[r] \notin Open
        BY <1>1, <2>1, <2>5 DEF Settled
      <3> QED
        BY <1>1, <2>1, <2>2, <2>5, <3>1 DEF Settled, Session
    <2> QED
      BY <2>3, <2>4, <2>5
  <1>8. ASSUME NEW p \in Reqs, LoseRequest(p)
        PROVE  Settled(r)'
    <2>1. /\ pc[p] \in Open /\ pc'[p] = "lost" /\ UNCHANGED <<task, row>>
          /\ \A q \in Reqs \ {p} : pc'[q] = pc[q]
      BY <1>0, <1>8 DEF LoseRequest, TypeOK
    <2>2. CASE r = p
      BY <2>1, <2>2 DEF Settled, Session
    <2>3. CASE r # p
      BY <1>0, <1>1, <2>1, <2>3, StaysSettled
    <2> QED
      BY <2>2, <2>3
  <1>9. ASSUME Tick \/ UNCHANGED vars
        PROVE  Settled(r)'
    BY <1>0, <1>1, <1>9, StaysSettled DEF Tick, vars
  <1> QED
    BY <1>2, <1>3, <1>4, <1>5, <1>6, <1>7, <1>8, <1>9 DEF Next

\* For serial addresses the second session of a nonce would find it used.
LEMMA OneSessionStep ==
    ASSUME IInv, SerialInv, SerialNonceOpensOneSession, [Next]_vars
    PROVE  SerialNonceOpensOneSession'
  <1>0. TypeOK /\ TaskInv
    BY DEF IInv
  <1> SUFFICES ASSUME NEW r \in Reqs, NEW q \in Reqs, Session(r)', Session(q)',
                      SameNonce(r, q)', task'[r].addr \in Serial
               PROVE  r = q
    BY DEF SerialNonceOpensOneSession
  <1>1. ASSUME NEW x \in Reqs, Session(x)', ~Session(x)
        PROVE  OpenSession(x) /\ task'[x] = task[x]
    <2>1. pc'[x] = "answered" /\ task'[x].kind = "verify"
      BY <1>1 DEF Session
    <2>2. pc[x] # "idle"
      <3>1. SUFFICES ASSUME pc[x] = "idle"
                     PROVE  FALSE
        OBVIOUS
      <3>2. PICK a \in Addrs, n \in Nonces : IssueNonce(x, a, n) \/ VerifySignature(x, a, n)
        BY <1>0, <2>1, <3>1, NewRequest
      <3> QED
        BY <1>0, <2>1, <3>2, IssueBegins, VerifyBegins, BeginStep DEF Stage, Open
    <2>3. pc[x] \in {"merging", "locked"} /\ task[x].kind = "verify"
      BY <1>0, <1>1, <2>1, <2>2, RequestsMove DEF Session
    <2>4. pc[x] = "locked"
      BY <1>0, <2>3 DEF TaskInv
    <2> QED
      BY <1>0, <2>1, <2>4
         DEF Next, vars, IssueNonce, VerifySignature, Begin, MergeNonce, MergeConflict,
             LookUpUser, OpenSession, LoseRequest, Tick, TypeOK
  <1>2. ASSUME NEW x \in Reqs, Session(x)
        PROVE  /\ task[x] # None /\ task'[x].addr = task[x].addr
               /\ task'[x].nonce = task[x].nonce
    BY <1>0, <1>2, RequestsMove DEF Session
  <1>3. CASE Session(r) /\ Session(q)
    BY <1>2, <1>3 DEF SerialNonceOpensOneSession, SameNonce
  <1>4. ASSUME NEW x \in Reqs, NEW y \in Reqs, OpenSession(x), task'[x] = task[x], Session(y),
               SameNonce(x, y)', task[x].addr \in Serial
        PROVE  FALSE
    <2>1. task[x] # None /\ pc[x] = "locked"
      BY <1>0, <1>4 DEF OpenSession, TaskInv
    <2>2. task[y] # None /\ task[y].addr = task[x].addr /\ task[y].nonce = task[x].nonce
      BY <1>2, <1>4 DEF SameNonce
    <2> QED
      BY <1>4, <2>1, <2>2 DEF SerialInv, Settled
  <1>5. CASE ~Session(r) /\ Session(q)
    BY <1>1, <1>4, <1>5
  <1>6. CASE Session(r) /\ ~Session(q)
    BY <1>1, <1>4, <1>6 DEF SameNonce
  <1>7. CASE ~Session(r) /\ ~Session(q)
    BY <1>0, <1>1, <1>7 DEF OpenSession, Session, TypeOK
  <1> QED
    BY <1>3, <1>5, <1>6, <1>7

THEOREM SerialInvariance == Spec => [](IInv /\ SerialInv /\ SerialNonceOpensOneSession)
  <1>1. Init => SerialInv /\ SerialNonceOpensOneSession
    BY DEF Init, SerialInv, SerialNonceOpensOneSession, Session
  <1>2. IInv /\ SerialInv /\ SerialNonceOpensOneSession /\ [Next]_vars =>
          SerialInv' /\ SerialNonceOpensOneSession'
    BY SerialStep, OneSessionStep
  <1> QED
    BY <1>1, <1>2, Invariance, PTL DEF Spec

\* For a serial address a nonce opens one session.
THEOREM SerialNoncesOpenOneSession == Spec => []SerialNonceOpensOneSession
  BY SerialInvariance, PTL

\* A wallet whose requests do not overlap is always given a nonce.
THEOREM SerialIssuesSucceed == Spec => []SerialIssueSucceeds
  <1>1. IInv /\ SerialInv => SerialIssueSucceeds
    BY DEF IInv, TaskInv, SerialInv, Settled, SerialIssueSucceeds
  <1> QED
    BY <1>1, SerialInvariance, PTL

-----------------------------------------------------------------------------
(* Refinement                                                              *)

IssuedNonces ==
    {task[q].nonce : q \in {p \in Reqs : Issued(p) /\ task[p].addr \in Serial}}

OpenedPairs ==
    {<<task[q].addr, task[q].nonce>> :
       q \in {p \in Reqs : Session(p) /\ task[p].addr \in Serial}}

\* The mapped variables stand still when rows and answers do.
LEMMA LedgerStutters ==
    ASSUME \A q \in Reqs : Issued(q)' <=> Issued(q), \A q \in Reqs : Session(q)' <=> Session(q),
           \A q \in Reqs : pc[q] = "answered" => task'[q] = task[q],
           \A a \in Serial : row'[a] = row[a]
    PROVE  UNCHANGED Ledger!nonceVars
  <1>1. [a \in Serial |-> LiveNonce(a)]' = [a \in Serial |-> LiveNonce(a)]
    BY DEF LiveNonce
  <1>2. IssuedNonces' = IssuedNonces
    BY DEF IssuedNonces, Issued
  <1>3. OpenedPairs' = OpenedPairs
    BY DEF OpenedPairs, Session
  <1> QED
    BY <1>1, <1>2, <1>3 DEF Ledger!nonceVars, IssuedNonces, OpenedPairs

LEMMA LedgerStep ==
    ASSUME IInv, SerialInv, [Next]_vars
    PROVE  [Ledger!NonceNext]_(Ledger!nonceVars)
  <1> USE DEF Open, Stage
  <1>0. TypeOK /\ TaskInv /\ RowInv /\ Serial \subseteq Addrs
    BY SignInConstants DEF IInv
  <1>1. ASSUME UNCHANGED row,
               \A q \in Reqs : (pc[q] = "answered" \/ pc'[q] = "answered") =>
                   pc'[q] = pc[q] /\ task'[q] = task[q]
        PROVE  UNCHANGED Ledger!nonceVars
    BY <1>1, LedgerStutters DEF Issued, Session
  <1>2. ASSUME NEW p \in Reqs, NEW a \in Addrs, NEW n \in Nonces,
               IssueNonce(p, a, n) \/ VerifySignature(p, a, n)
        PROVE  UNCHANGED Ledger!nonceVars
    <2>1. \E stage \in Stage \ {"answered"}, t \in Task : Begin(p, stage, t)
      BY <1>0, <1>2, IssueBegins, VerifyBegins
    <2>2. /\ UNCHANGED row
          /\ \A q \in Reqs : (pc[q] = "answered" \/ pc'[q] = "answered") =>
                  pc'[q] = pc[q] /\ task'[q] = task[q]
      BY <1>0, <2>1, BeginStep
    <2> QED
      BY <1>1, <2>2
  <1>3. ASSUME NEW p \in Reqs, MergeConflict(p) \/ LookUpUser(p) \/ LoseRequest(p)
        PROVE  UNCHANGED Ledger!nonceVars
    <2>1. /\ UNCHANGED row
          /\ \A q \in Reqs : (pc[q] = "answered" \/ pc'[q] = "answered") =>
                  pc'[q] = pc[q] /\ task'[q] = task[q]
      BY <1>0, <1>3 DEF MergeConflict, LookUpUser, LoseRequest, TypeOK
    <2> QED
      BY <1>1, <2>1
  <1>4. ASSUME NEW p \in Reqs, NEW b \in Serial, MergeNonce(p), task[p].addr = b
        PROVE  Ledger!IssueNonce(b)
    <2>1. /\ pc[p] = "merging" /\ pc'[p] = "answered" /\ UNCHANGED task
          /\ task[p].kind = "issue" /\ task[p] # None /\ b \in Addrs
          /\ task[p].nonce \in Nonces
          /\ \A q \in Reqs \ {p} : pc'[q] = pc[q]
      BY <1>0, <1>4, TaskFields DEF MergeNonce, TypeOK, TaskInv
    <2>2. PICK new \in Row : /\ new.nonce = task[p].nonce /\ new.used = UsedAfter(task[p])
                             /\ row' = [row EXCEPT ![b] = new]
      BY <1>0, <1>4, MergedRow
    <2>3. ~UsedAfter(task[p])
      BY <1>4, <2>1 DEF SerialInv, Settled, Seen, UsedAfter
    <2>4. /\ row'[b] = new /\ new # None /\ ~new.used
          /\ \A a \in Serial : a # b => row'[a] = row[a]
      BY <1>0, <2>1, <2>2, <2>3, SignInConstants DEF TypeOK
    <2>5. [a \in Serial |-> LiveNonce(a)]' =
            [[a \in Serial |-> LiveNonce(a)] EXCEPT ![b] = task[p].nonce]
      <3>1. LiveNonce(b)' = task[p].nonce
        BY <2>2, <2>4 DEF LiveNonce
      <3>2. \A a \in Serial : a # b => LiveNonce(a)' = LiveNonce(a)
        BY <2>4 DEF LiveNonce
      <3> QED
        BY <3>1, <3>2
    <2>6. IssuedNonces' = IssuedNonces \cup {task[p].nonce}
      BY <1>4, <2>1 DEF IssuedNonces, Issued
    <2>7. task[p].nonce \notin IssuedNonces
      <3>1. SUFFICES ASSUME NEW q \in Reqs, Issued(q), task[q].nonce = task[p].nonce
                     PROVE  FALSE
        BY DEF IssuedNonces
      <3> QED
        BY <1>0, <2>1, <3>1 DEF Issued, TaskInv
    <2>8. OpenedPairs' = OpenedPairs
      BY <2>1 DEF OpenedPairs, Session
    <2> QED
      BY <1>4, <2>1, <2>5, <2>6, <2>7, <2>8
         DEF Ledger!IssueNonce, IssuedNonces, OpenedPairs
  <1>5. ASSUME NEW p \in Reqs, NEW b \in Serial, OpenSession(p), task[p].addr = b
        PROVE  Ledger!OpenSession(b)
    <2>1. /\ pc[p] = "locked" /\ pc'[p] = "answered" /\ UNCHANGED task
          /\ task[p].kind = "verify" /\ task[p] # None /\ b \in Addrs
          /\ task[p].nonce \in Nonces
          /\ \A q \in Reqs \ {p} : pc'[q] = pc[q]
      BY <1>0, <1>5, TaskFields DEF OpenSession, TypeOK, TaskInv
    <2>2. PICK new \in Row : new.used = TRUE /\ row' = [row EXCEPT ![b] = new]
      BY <1>0, <1>5, OpenedRow
    <2>3. row[b].nonce = task[p].nonce /\ ~row[b].used /\ row[b] # None
      BY <1>0, <1>5, <2>1 DEF SerialInv, Settled, RowInv
    <2>4. LiveNonce(b) = task[p].nonce /\ task[p].nonce # None
      BY <2>1, <2>3, SignInConstants DEF LiveNonce
    <2>5. /\ row'[b] = new
          /\ \A a \in Serial : a # b => row'[a] = row[a]
      BY <1>0, <2>1, <2>2 DEF TypeOK
    <2>6. [a \in Serial |-> LiveNonce(a)]' = [[a \in Serial |-> LiveNonce(a)] EXCEPT ![b] = None]
      <3>1. LiveNonce(b)' = None
        BY <2>2, <2>5 DEF LiveNonce
      <3>2. \A a \in Serial : a # b => LiveNonce(a)' = LiveNonce(a)
        BY <2>5 DEF LiveNonce
      <3> QED
        BY <3>1, <3>2
    <2>7. IssuedNonces' = IssuedNonces
      BY <2>1 DEF IssuedNonces, Issued
    <2>8. OpenedPairs' = OpenedPairs \cup {<<b, task[p].nonce>>}
      BY <1>5, <2>1 DEF OpenedPairs, Session
    <2> QED
      BY <1>5, <2>4, <2>6, <2>7, <2>8 DEF Ledger!OpenSession, IssuedNonces, OpenedPairs
  <1>6. ASSUME NEW p \in Reqs, MergeNonce(p) \/ OpenSession(p), task[p].addr \notin Serial
        PROVE  UNCHANGED Ledger!nonceVars
    <2>1. UNCHANGED task /\ \A q \in Reqs \ {p} : pc'[q] = pc[q]
      BY <1>0, <1>6 DEF MergeNonce, OpenSession, TypeOK
    <2>2. \A a \in Serial : row'[a] = row[a]
      BY <1>0, <1>6, MergedRow, OpenedRow DEF TypeOK
    <2>3. [a \in Serial |-> LiveNonce(a)]' = [a \in Serial |-> LiveNonce(a)]
      BY <2>2 DEF LiveNonce
    <2>4. IssuedNonces' = IssuedNonces
      BY <1>6, <2>1 DEF IssuedNonces, Issued
    <2>5. OpenedPairs' = OpenedPairs
      BY <1>6, <2>1 DEF OpenedPairs, Session
    <2> QED
      BY <2>3, <2>4, <2>5 DEF Ledger!nonceVars, IssuedNonces, OpenedPairs
  <1>7. ASSUME Tick \/ UNCHANGED vars
        PROVE  UNCHANGED Ledger!nonceVars
    BY <1>1, <1>7 DEF Tick, vars
  <1>8. ASSUME NEW p \in Reqs, MergeNonce(p) \/ OpenSession(p)
        PROVE  Ledger!NonceNext \/ UNCHANGED Ledger!nonceVars
    <2>1. CASE task[p].addr \in Serial
      <3>1. PICK b \in Serial : task[p].addr = b
        BY <2>1
      <3>2. MergeNonce(p) => Ledger!IssueNonce(b)
        BY <1>4, <3>1
      <3>3. OpenSession(p) => Ledger!OpenSession(b)
        BY <1>5, <3>1
      <3>4. Ledger!IssueNonce(b) \/ Ledger!OpenSession(b)
        BY <1>8, <3>2, <3>3
      <3> QED
        BY <3>4 DEF Ledger!NonceNext
    <2>2. CASE task[p].addr \notin Serial
      BY <1>6, <1>8, <2>2
    <2> QED
      BY <2>1, <2>2
  <1>9. CASE Next
    BY <1>2, <1>3, <1>7, <1>8, <1>9 DEF Next
  <1> QED
    BY <1>7, <1>9

\* The sign-in of the serial addresses implements the ledger of nonces, whatever
\* the others do and whichever requests are lost.
THEOREM NonceLedgerImplemented == Spec => ImplementsNonceLedger
  <1>1. Init => Ledger!NonceInit
    <2>1. ASSUME Init
          PROVE  \A q \in Reqs : ~Issued(q) /\ ~Session(q)
      BY <2>1 DEF Init, Issued, Session
    <2>2. ASSUME Init
          PROVE  \A a \in Serial : LiveNonce(a) = None
      BY <2>2, SignInConstants DEF Init, LiveNonce
    <2> QED
      BY <2>1, <2>2 DEF Ledger!NonceInit
  <1>2. IInv /\ SerialInv /\ [Next]_vars => [Ledger!NonceNext]_(Ledger!nonceVars)
    BY LedgerStep
  <1> QED
    BY <1>1, <1>2, SerialInvariance, PTL DEF Spec, ImplementsNonceLedger, Ledger!NonceSpec
=============================================================================
