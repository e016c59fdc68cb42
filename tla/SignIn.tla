------------------------------- MODULE SignIn -------------------------------
(***************************************************************************)
(* The wallet sign-in: GET /auth/nonce merges a fresh nonce into the       *)
(* address's row of auth_nonce; POST /auth/verify checks the signed nonce  *)
(* against that row, marks it used, creates or touches the user and        *)
(* answers with a session cookie.                                          *)
(*                                                                         *)
(* Both handlers read the row, suspend, and write it in a later step. The  *)
(* UPDATE that marks the row used is flushed before the user is looked up, *)
(* so from then to its commit a verification holds the row's lock, and     *)
(* other writers of the row wait for it; readers do not. A session is a    *)
(* signed cookie without state on the server, so a session here is a       *)
(* verification that was answered.                                         *)
(***************************************************************************)
EXTENDS Naturals

CONSTANTS
    Addrs,       \* wallet addresses
    Serial,      \* addresses that never have two requests open
    Nonces,      \* the nonces token_hex can draw, each once
    Reqs,        \* the requests of a behaviour, each run once
    TTL,         \* NONCE_TTL_SECONDS
    MaxTime,     \* bound: the clock stops there
    None         \* null

Row == [nonce: Nonces, used: BOOLEAN, expires: Nat]

\* A request's locals: what it is for, when it began, what it read.
Task == [kind: {"issue", "verify"}, addr: Addrs, nonce: Nonces, at: Nat,
         seen: {"none", "live", "used"}, isNew: BOOLEAN]

ASSUME SignInConstants ==
    /\ Serial \subseteq Addrs
    /\ TTL \in Nat \ {0}
    /\ MaxTime \in Nat
    /\ None \notin Row \cup Task \cup Nonces

\* Where a request is: "merging" has read the row it will upsert, "checked" has
\* passed the checks of verify_signature, "locked" has flushed its UPDATE.
Open == {"merging", "checked", "locked"}
Stage == Open \cup {"idle", "answered", "refused", "lost"}

VARIABLES
    now,         \* wall clock
    row,         \* auth_nonce: the row of each address
    users,       \* users: the addresses with a row
    pc,          \* stage of each request
    task         \* its locals

vars == <<now, row, users, pc, task>>

\* Rows, requests and users hold values of their kind.
TypeOK ==
    /\ now \in Nat
    /\ row \in [Addrs -> Row \cup {None}]
    /\ users \subseteq Addrs
    /\ pc \in [Reqs -> Stage]
    /\ task \in [Reqs -> Task \cup {None}]

Init ==
    /\ now = 0
    /\ row = [a \in Addrs |-> None]
    /\ users = {}
    /\ pc = [r \in Reqs |-> "idle"]
    /\ task = [r \in Reqs |-> None]

Issued(q) == pc[q] = "answered" /\ task[q].kind = "issue"
Session(q) == pc[q] = "answered" /\ task[q].kind = "verify"

\* The browser of a serial address waits for one answer before the next request.
MayStart(a) ==
    a \in Serial => \A q \in Reqs : pc[q] \in Open => task[q].addr # a

NoRowLock(a) == TRUE   \* mutant: the UPDATE is not flushed before the lookup

\* No other transaction has an uncommitted UPDATE of the address's row.
LockFree(a) == \A q \in Reqs : pc[q] = "locked" => task[q].addr # a

Begin(r, stage, t) ==
    /\ pc[r] = "idle"
    /\ pc' = [pc EXCEPT ![r] = stage]
    /\ task' = [task EXCEPT ![r] = t]
    /\ UNCHANGED <<now, row, users>>

-----------------------------------------------------------------------------
(* GET /auth/nonce                                                         *)

SeenNothing(a) == "none"   \* mutant: INSERT in place of merge

\* What merge loads for the address.
Seen(a) == IF row[a] = None THEN "none" ELSE IF row[a].used THEN "used" ELSE "live"

IssueNonce(r, a, n) ==
    /\ MayStart(a)
    /\ \A q \in Reqs : pc[q] # "idle" /\ task[q].kind = "issue" => task[q].nonce # n
    /\ Begin(r, "merging", [kind |-> "issue", addr |-> a, nonce |-> n, at |-> now,
                            seen |-> Seen(a), isNew |-> FALSE])

UsedIsKept(t) ==   \* mutant: used is never reset
    IF t.seen = "none" THEN FALSE ELSE row[t.addr].used

\* The flush writes the columns that differ from what was loaded: used is reset
\* only if it was loaded as true.
UsedAfter(t) == IF t.seen = "live" THEN row[t.addr].used ELSE FALSE

\* The commit: INSERT if no row was loaded, else UPDATE by primary key.
MergeNonce(r) ==
    /\ pc[r] = "merging"
    /\ LET t == task[r] IN
        /\ LockFree(t.addr)
        /\ t.seen = "none" => row[t.addr] = None
        /\ row' = [row EXCEPT ![t.addr] = [nonce |-> t.nonce, used |-> UsedAfter(t),
                                           expires |-> t.at + TTL]]
    /\ pc' = [pc EXCEPT ![r] = "answered"]
    /\ UNCHANGED <<now, users, task>>

\* The INSERT meets a row that another request made: an IntegrityError, 500.
MergeConflict(r) ==
    /\ pc[r] = "merging"
    /\ task[r].seen = "none" /\ row[task[r].addr] # None
    /\ pc' = [pc EXCEPT ![r] = "refused"]
    /\ UNCHANGED <<now, row, users, task>>

-----------------------------------------------------------------------------
(* POST /auth/verify                                                       *)

AcceptsUsed(a, n) ==   \* mutant: the used flag is not looked at
    row[a] # None /\ row[a].nonce = n /\ row[a].expires > now

AcceptsExpired(a, n) ==   \* mutant: expires_at is not looked at
    row[a] # None /\ row[a].nonce = n /\ ~row[a].used

\* The checks of verify_signature on the row it selected.
Accepts(a, n) ==
    /\ row[a] # None
    /\ row[a].nonce = n
    /\ ~row[a].used
    /\ row[a].expires > now

\* A wallet presents a nonce that some wallet was given, signed with its key;
\* the answer to a nonce that is unknown, used or expired is 401.
VerifySignature(r, a, n) ==
    /\ MayStart(a)
    /\ \E q \in Reqs : Issued(q) /\ task[q].nonce = n
    /\ Begin(r, IF Accepts(a, n) THEN "checked" ELSE "refused",
             [kind |-> "verify", addr |-> a, nonce |-> n, at |-> now,
              seen |-> "live", isNew |-> FALSE])

\* session.get(User) flushes used = true first, which takes the row's lock.
LookUpUser(r) ==
    /\ pc[r] = "checked"
    /\ LockFree(task[r].addr)
    /\ pc' = [pc EXCEPT ![r] = "locked"]
    /\ task' = [task EXCEPT ![r].isNew = task[r].addr \notin users]
    /\ UNCHANGED <<now, row, users>>

\* The commit: the row is marked used by primary key, whichever nonce it holds by
\* then. (LookupIsCurrent: the INSERT of a user never meets an IntegrityError.)
OpenSession(r) ==
    /\ pc[r] = "locked"
    /\ LET a == task[r].addr IN
        /\ task[r].isNew => a \notin users
        /\ row' = [row EXCEPT ![a].used = TRUE]
        /\ users' = users \cup {a}
    /\ pc' = [pc EXCEPT ![r] = "answered"]
    /\ UNCHANGED <<now, task>>

-----------------------------------------------------------------------------
\* The process or the connection dies before the commit: a rollback.
LoseRequest(r) ==
    /\ pc[r] \in Open
    /\ pc' = [pc EXCEPT ![r] = "lost"]
    /\ UNCHANGED <<now, row, users, task>>

Tick ==
    /\ now < MaxTime
    /\ now' = now + 1
    /\ UNCHANGED <<row, users, pc, task>>

Next ==
    \/ \E r \in Reqs, a \in Addrs, n \in Nonces :
          IssueNonce(r, a, n) \/ VerifySignature(r, a, n)
    \/ \E r \in Reqs : \/ MergeNonce(r) \/ MergeConflict(r)
                       \/ LookUpUser(r) \/ OpenSession(r)
                       \/ LoseRequest(r)
    \/ Tick

Spec == Init /\ [][Next]_vars

-----------------------------------------------------------------------------
(* Properties                                                              *)

SameNonce(r, q) == task[r].addr = task[q].addr /\ task[r].nonce = task[q].nonce

\* A nonce of an address whose requests come one after the other opens one
\* session.
SerialNonceOpensOneSession ==
    \A r, q \in Reqs :
        (Session(r) /\ Session(q) /\ SameNonce(r, q) /\ task[r].addr \in Serial) => r = q

\* The nonce of request r was issued to r's address less than TTL before r began.
IssuedInTime(r) ==
    \E q \in Reqs : /\ Issued(q) /\ SameNonce(r, q)
                    /\ task[r].at < task[q].at + TTL

\* A session rests on a nonce issued to its own address within the TTL, even if
\* the row was rewritten for a newer nonce while the signature was checked.
SessionIsTimely == \A r \in Reqs : Session(r) => IssuedInTime(r)

\* What a verification read of the user is true until it commits, although the
\* lookup takes no lock on users: the IntegrityError it catches never happens.
LookupIsCurrent ==
    \A r \in Reqs : pc[r] = "locked" => (task[r].isNew <=> task[r].addr \notin users)

\* A wallet whose requests do not overlap is always given a nonce.
SerialIssueSucceeds ==
    \A r \in Reqs : (pc[r] = "refused" /\ task[r].kind = "issue") =>
        task[r].addr \notin Serial

\* The ledger of nonces this system implements for the serial addresses.
LiveNonce(a) == IF row[a] = None \/ row[a].used THEN None ELSE row[a].nonce

Ledger == INSTANCE NonceLedger WITH
    Addrs <- Serial,
    live <- [a \in Serial |-> LiveNonce(a)],
    issued <- {task[q].nonce : q \in {p \in Reqs : Issued(p) /\ task[p].addr \in Serial}},
    opened <- {<<task[q].addr, task[q].nonce>> :
                 q \in {p \in Reqs : Session(p) /\ task[p].addr \in Serial}}

\* For a serial address the nonce issued last is the one that opens a session,
\* once, and a nonce just issued has not been used, whatever other addresses do
\* and whichever requests are lost.
ImplementsNonceLedger == Ledger!NonceSpec

-----------------------------------------------------------------------------
(* The inductive invariant behind the properties                           *)

\* A request's kind goes with its stage, and nonces are drawn once.
TaskInv ==
    /\ \A r \in Reqs : /\ pc[r] # "idle" <=> task[r] # None
                       /\ pc[r] = "merging" => task[r].kind = "issue"
                       /\ pc[r] \in {"checked", "locked"} => task[r].kind = "verify"
    /\ \A r, q \in Reqs :
          (/\ task[r] # None /\ task[q] # None
           /\ task[r].kind = "issue" /\ task[q].kind = "issue"
           /\ task[r].nonce = task[q].nonce) => r = q

\* One lock per row.
LockInv ==
    \A r, q \in Reqs :
        (pc[r] = "locked" /\ pc[q] = "locked" /\ task[r].addr = task[q].addr) => r = q

\* A row holds what one answered request issued, and once there it stays; a
\* verification past its checks has a nonce issued in time.
RowInv ==
    /\ \A a \in Addrs : row[a] # None =>
          \E q \in Reqs : /\ Issued(q) /\ task[q].addr = a
                          /\ task[q].nonce = row[a].nonce
                          /\ row[a].expires = task[q].at + TTL
    /\ \A r \in Reqs : pc[r] = "merging" /\ task[r].seen # "none" =>
          row[task[r].addr] # None
    /\ \A r \in Reqs : pc[r] \in {"checked", "locked"} \/ Session(r) =>
          row[task[r].addr] # None /\ IssuedInTime(r)

IInv == TypeOK /\ TaskInv /\ LockInv /\ LookupIsCurrent /\ RowInv

\* What a request of a serial address read of its row is still true: it is the
\* only open one, and the nonce of a session is used up or replaced.
Settled(r) ==
    LET t == task[r]  a == task[r].addr IN
    /\ pc[r] \in Open => \A q \in Reqs : pc[q] \in Open /\ task[q].addr = a => q = r
    /\ pc[r] = "merging" => t.seen = Seen(a)
    /\ pc[r] \in {"checked", "locked"} => row[a].nonce = t.nonce /\ ~row[a].used
    /\ Session(r) => (row[a].nonce = t.nonce => row[a].used)
    /\ pc[r] = "refused" => t.kind = "verify"

SerialInv ==
    \A r \in Reqs : task[r] # None /\ task[r].addr \in Serial => Settled(r)
=============================================================================
