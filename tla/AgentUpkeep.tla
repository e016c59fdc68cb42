------------------------------ MODULE AgentUpkeep ------------------------------
(***************************************************************************)
(* The maintenance of cached agents beside the agent sync:                 *)
(*   - the mirror of the sanction lists (app/services/flagged_sync.py),    *)
(*     run by POST /api/sync/flagged and by the compliance refresh;        *)
(*   - the flags and penalties of agents (app/services/                    *)
(*     compliance_refresh.py, POST /api/admin/compliance/refresh);         *)
(*   - the categories (app/services/reclassify.py, POST                    *)
(*     /api/sync/reclassify).                                              *)
(*                                                                         *)
(* A request is a member of Job.  Its steps are its HTTP calls, queries    *)
(* and commits; PostgreSQL is at READ COMMITTED: a DELETE looks at the     *)
(* rows committed when it begins, and waits for another transaction that   *)
(* has deleted one of them.                                                *)
(***************************************************************************)
EXTENDS Classify, Sequences, FiniteSets

CONSTANTS
    Agent,
    Orphan,         \* agents the clean-up script may delete
    Profile,        \* Profile[a]: what upstream can say of an agent
    Spelling,       \* spellings of addresses, in lists and in profiles
    Canon,          \* Canon[x]: the address x spells, lower-case and stripped
    FLAGGED_SOURCES,\* the sources, in order
    Published,      \* Published[s]: the lists upstream can have for source s
    BATCH,          \* _BATCH: categories written between two commits
    Job,
    None

Source == {FLAGGED_SOURCES[i] : i \in DOMAIN FLAGGED_SOURCES}
Address == {Canon[x] : x \in Spelling}

ASSUME UpkeepAssumption ==
    /\ Orphan \subseteq Agent
    /\ FLAGGED_SOURCES \in Seq(Source) \ {<<>>}
    /\ \A i, j \in DOMAIN FLAGGED_SOURCES : FLAGGED_SOURCES[i] = FLAGGED_SOURCES[j] => i = j
    /\ Canon \in [Spelling -> Spelling]
    /\ Profile \in [Agent -> SUBSET [creator : Spelling \cup {None},
                                     owner : Spelling \cup {None}, signals : Signals]]
    /\ Published \in [Source -> SUBSET SUBSET Spelling]
    /\ BATCH \in Nat \ {0}
    /\ None \notin Spelling

VARIABLES
    agents,     \* Agent -> its row of agent_cache, None without one
    flags,      \* Agent -> its row of agent_compliance_flags, None without one
    mirror,     \* Source -> the addresses of its rows of flagged_addresses
    job,        \* Job -> a request and its locals
    overlapped, \* history: sources whose last two replacements overlapped
    touched,    \* history: agents whose flags a refresh still has to see
    revived,    \* history: agents deleted since a refresh last wrote them
    unsorted    \* history: agents whose category nobody brought up to date

histVars == <<overlapped, touched, revived, unsorted>>
vars == <<agents, flags, mirror, job, histVars>>

IdleJob == [pc |-> "idle"]

\* creator, owner: the sources that list the address; creator_flagged and
\* owner_flagged say whether there is one.
Flags == [creator : SUBSET Source, owner : SUBSET Source]
Row == [profile : UNION {Profile[a] : a \in Agent}, category : Category, penalty : {0, 30, 50}]

ASSUME NoneAssumption == None \notin Row \cup Flags

\* The locals of a request: the source it is at; the list it puts in place of
\* the rows; the flags or categories it is going to write.
Kind == {"flagged", "admin"}
Turn == 1 .. Len(FLAGGED_SOURCES)
Fetching == [pc : {"fetch"}, kind : Kind, at : Turn]
Replacement == [pc : {"delete", "insert"}, kind : Kind, at : Turn,
                list : SUBSET Address, rows : SUBSET Address, alone : BOOLEAN]
Storing == UNION {[pc : {"store"}, missed : SUBSET Agent, found : [S -> Flags]] :
                     S \in SUBSET Agent}
Classifying == UNION {[pc : {"classify"}, missed : SUBSET Agent, todo : [S -> Category]] :
                         S \in SUBSET Agent}

TypeOK ==
    /\ agents \in [Agent -> Row \cup {None}]
    /\ flags \in [Agent -> Flags \cup {None}]
    /\ mirror \in [Source -> SUBSET Address]
    /\ job \in [Job -> {IdleJob, [pc |-> "agents"]} \cup Fetching \cup Replacement
                        \cup Storing \cup Classifying]
    /\ overlapped \subseteq Source
    /\ touched \subseteq Agent /\ revived \subseteq Agent /\ unsorted \subseteq Agent

Init ==
    /\ agents = [a \in Agent |-> None]
    /\ flags = [a \in Agent |-> None]
    /\ mirror = [s \in Source |-> {}]
    /\ job = [j \in Job |-> IdleJob]
    /\ overlapped = {}
    /\ touched = {}
    /\ revived = {}
    /\ unsorted = {}

Stored == {a \in Agent : agents[a] # None}

\* History: what a job has read is overtaken by a change of these agents.
Overtake(jobs, changed) ==
    [j \in Job |-> IF jobs[j].pc \in {"store", "classify"}
                   THEN [jobs[j] EXCEPT !.missed = @ \cup changed] ELSE jobs[j]]

-----------------------------------------------------------------------------
(* Starting a request.                                                     *)

\* The lock of POST /api/sync/flagged; the compliance refresh does not take
\* it, nor any other.
StartFlagged(j) ==
    /\ job[j] = IdleJob
    /\ \A k \in Job : job[k].pc \in {"fetch", "delete", "insert"} => job[k].kind # "flagged"
    /\ job' = [job EXCEPT ![j] = [pc |-> "fetch", kind |-> "flagged", at |-> 1]]
    /\ UNCHANGED <<agents, flags, mirror, histVars>>

StartRefresh(j) ==
    /\ job[j] = IdleJob
    /\ job' = [job EXCEPT ![j] = [pc |-> "fetch", kind |-> "admin", at |-> 1]]
    /\ UNCHANGED <<agents, flags, mirror, histVars>>

-----------------------------------------------------------------------------
(* refresh_flagged_addresses: one source after the other.                  *)

NormalizedAsWritten(raw) == raw   \* mutant: the entries are kept as upstream spells them

Normalized(raw) == {Canon[x] : x \in raw}

SourceOf(j) == FLAGGED_SOURCES[job[j].at]
Replacing(s) == {j \in Job : job[j].pc \in {"delete", "insert"} /\ SourceOf(j) = s}

\* The list has arrived and the DELETE begins.  rows: what it is going to
\* delete.
FetchList(j, raw) ==
    LET s == SourceOf(j)
        others == Replacing(s)
    IN  /\ job[j].pc = "fetch"
        /\ raw \in Published[s]
        /\ job' = [k \in Job |->
                      IF k = j
                      THEN [pc |-> "delete", kind |-> job[j].kind, at |-> job[j].at,
                            list |-> Normalized(raw), rows |-> mirror[s],
                            alone |-> others = {}]
                      ELSE IF k \in others THEN [job[k] EXCEPT !.alone = FALSE]
                      ELSE job[k]]
        /\ UNCHANGED <<agents, flags, mirror, histVars>>

\* The DELETE is done.  It waits for a transaction that has deleted one of
\* its rows; the rows which that one inserts are not its own.
DeleteRows(j) ==
    /\ job[j].pc = "delete"
    /\ \A k \in Replacing(SourceOf(j)) :
           job[k].pc = "insert" => job[k].rows \cap job[j].rows = {}
    /\ job' = [job EXCEPT ![j].pc = "insert"]
    /\ UNCHANGED <<agents, flags, mirror, histVars>>

\* The INSERT waits for a transaction that has deleted one of its keys.
KeysAreFree(j) ==
    \A k \in Replacing(SourceOf(j)) \ {j} :
        job[k].pc = "insert" => job[k].rows \cap job[j].list = {}

Conflicts(j) == (mirror[SourceOf(j)] \ job[j].rows) \cap job[j].list # {}

AfterSource(j) ==
    IF job[j].at < Len(FLAGGED_SOURCES)
    THEN [pc |-> "fetch", kind |-> job[j].kind, at |-> job[j].at + 1]
    ELSE IF job[j].kind = "admin" THEN [pc |-> "agents"] ELSE IdleJob

\* What a source holds when j has committed its rows.
ReplacedWithoutDelete(j) == mirror[SourceOf(j)] \cup job[j].list   \* mutant: nothing is deleted

Replaced(j) == (mirror[SourceOf(j)] \ job[j].rows) \cup job[j].list

InsertRows(j) ==
    LET s == SourceOf(j)
        after == [k \in Job |->
                     IF k = j THEN AfterSource(j)
                     ELSE IF k \in Replacing(s) /\ job[k].pc = "delete"
                     THEN [job[k] EXCEPT !.rows = @ \ job[j].rows]
                     ELSE job[k]]
    IN  /\ job[j].pc = "insert"
        /\ KeysAreFree(j) /\ ~Conflicts(j)
        /\ mirror' = [mirror EXCEPT ![s] = Replaced(j)]
        /\ overlapped' = IF job[j].alone THEN overlapped \ {s} ELSE overlapped \cup {s}
        /\ touched' = IF mirror' = mirror THEN touched ELSE Agent
        /\ job' = IF mirror' = mirror THEN after ELSE Overtake(after, Agent)
        /\ UNCHANGED <<agents, flags, revived, unsorted>>

\* The key is taken: IntegrityError, an internal error of the request.
InsertConflicts(j) ==
    /\ job[j].pc = "insert"
    /\ KeysAreFree(j) /\ Conflicts(j)
    /\ job' = [job EXCEPT ![j] = IdleJob]
    /\ UNCHANGED <<agents, flags, mirror, histVars>>

-----------------------------------------------------------------------------
(* refresh_agent_compliance_flags, after the mirror.                       *)

\* The sources that list the address spelt x.
ListingAsWritten(x, listed) == {s \in Source : x \in listed[s]}   \* mutant: compared as upstream spells it

Listing(x, listed) == {s \in Source : x # None /\ Canon[x] \in listed[s]}

\* The lists and then the agents.  What changes between these two queries
\* could as well have changed before or after both, so they are one step.
ReadAgents(j) ==
    /\ job[j].pc = "agents"
    /\ job' = [job EXCEPT ![j] =
                  [pc |-> "store", missed |-> {},
                   found |-> [a \in Stored |->
                       [creator |-> Listing(agents[a].profile.creator, mirror),
                        owner |-> Listing(agents[a].profile.owner, mirror)]]]]
    /\ UNCHANGED <<agents, flags, mirror, histVars>>

\* 30 points for each of the two, at most 50.
compute_penalty(f) ==
    LET raw == (IF f.creator # {} THEN 30 ELSE 0) + (IF f.owner # {} THEN 30 ELSE 0)
    IN  IF raw <= 50 THEN raw ELSE 50

PenaltyAfterFlagged(a, found) ==   \* mutant: only flagged agents are updated
    IF agents[a] = None THEN None
    ELSE IF a \in DOMAIN found /\ compute_penalty(found[a]) > 0
    THEN [agents[a] EXCEPT !.penalty = compute_penalty(found[a])] ELSE agents[a]

PenaltyAfter(a, found) ==
    IF agents[a] # None /\ a \in DOMAIN found
    THEN [agents[a] EXCEPT !.penalty = compute_penalty(found[a])] ELSE agents[a]

\* One transaction for the flags and the penalties of all agents that were
\* read.  Two of them are serialised by the row locks; an agent that is gone
\* gets flags all the same, agent_id is no foreign key.
StoreFlags(j) ==
    LET found == job[j].found
    IN  /\ job[j].pc = "store"
        /\ flags' = [a \in Agent |-> IF a \in DOMAIN found THEN found[a] ELSE flags[a]]
        /\ agents' = [a \in Agent |-> PenaltyAfter(a, found)]
        /\ touched' = (touched \ DOMAIN found) \cup job[j].missed
        /\ revived' = (revived \ DOMAIN found) \cup (DOMAIN found \ Stored)
        /\ job' = [job EXCEPT ![j] = IdleJob]
        /\ UNCHANGED <<mirror, overlapped, unsorted>>

-----------------------------------------------------------------------------
(* reclassify_cached_agents.                                               *)

Outdated == {a \in Stored : Class(agents[a].profile.signals) # agents[a].category}

\* Its own lock, and one query for all rows.  A pass that finds no row to
\* update changes nothing.
StartReclassify(j) ==
    /\ job[j] = IdleJob
    /\ \A k \in Job : job[k].pc # "classify"
    /\ Outdated # {}
    /\ job' = [job EXCEPT ![j] =
                  [pc |-> "classify", missed |-> {},
                   todo |-> [a \in Outdated |-> Class(agents[a].profile.signals)]]]
    /\ UNCHANGED <<agents, flags, mirror, histVars>>

\* The next batch and its commit.
UpdateCategories(j, batch) ==
    LET todo == job[j].todo
        rest == DOMAIN todo \ batch
    IN  /\ job[j].pc = "classify"
        /\ batch \subseteq DOMAIN todo
        /\ Cardinality(batch) = IF Cardinality(DOMAIN todo) < BATCH
                                THEN Cardinality(DOMAIN todo) ELSE BATCH
        /\ agents' = [a \in Agent |->
                         IF a \in batch /\ agents[a] # None
                         THEN [agents[a] EXCEPT !.category = todo[a]] ELSE agents[a]]
        /\ unsorted' = (unsorted \ batch) \cup (batch \cap job[j].missed)
        /\ job' = [job EXCEPT ![j] =
                      IF rest = {} THEN IdleJob
                      ELSE [@ EXCEPT !.todo = [a \in rest |-> todo[a]]]]
        /\ UNCHANGED <<flags, mirror, overlapped, touched, revived>>

-----------------------------------------------------------------------------
\* A failed fetch, a list that is none, a lost database, a deadlock, the end
\* of the process: the transaction is rolled back, earlier commits stay, and
\* the lock is released.
JobFails(j) ==
    /\ job[j] # IdleJob
    /\ job' = [job EXCEPT ![j] = IdleJob]
    /\ UNCHANGED <<agents, flags, mirror, histVars>>

(* The surroundings.                                                       *)

\* _maybe_enrich_category leaves these to the default of the column.
NotEnriched == {"rebalancing", "other"}

EnrichedOnInsert(a, p) ==   \* mutant: an upsert that conflicts keeps the category
    IF agents[a] # None THEN agents[a].category
    ELSE IF Class(p.signals) \in NotEnriched THEN "other" ELSE Class(p.signals)

Enriched(a, p) ==
    IF Class(p.signals) \notin NotEnriched THEN Class(p.signals)
    ELSE IF agents[a] = None THEN "other" ELSE agents[a].category

SameWallets(a, p) ==
    /\ agents[a] # None
    /\ agents[a].profile.creator = p.creator /\ agents[a].profile.owner = p.owner

\* The sync upserts an agent: see SyncRun.  penalty is not among the columns
\* it writes.
SyncAgent(a, p) ==
    /\ agents[a] # None => agents[a].profile # p
    /\ agents' = [agents EXCEPT ![a] =
                     [profile |-> p, category |-> Enriched(a, p),
                      penalty |-> IF agents[a] = None THEN 0 ELSE agents[a].penalty]]
    /\ touched' = IF SameWallets(a, p) THEN touched ELSE touched \cup {a}
    /\ unsorted' = IF Class(p.signals) \in NotEnriched THEN unsorted \cup {a} ELSE unsorted \ {a}
    /\ job' = Overtake(job, {a})
    /\ UNCHANGED <<flags, mirror, overlapped, revived>>

\* DELETE FROM agent_cache WHERE token_id = 0
CleanOrphans ==
    /\ Orphan \cap Stored # {}
    /\ agents' = [a \in Agent |-> IF a \in Orphan THEN None ELSE agents[a]]
    /\ revived' = revived \cup (Orphan \cap Stored)
    /\ UNCHANGED <<flags, mirror, job, overlapped, touched, unsorted>>

Next ==
    \/ \E j \in Job :
        \/ StartFlagged(j)
        \/ StartRefresh(j)
        \/ StartReclassify(j)
        \/ \E raw \in UNION {Published[s] : s \in Source} : FetchList(j, raw)
        \/ DeleteRows(j)
        \/ InsertRows(j)
        \/ InsertConflicts(j)
        \/ ReadAgents(j)
        \/ StoreFlags(j)
        \/ \E batch \in SUBSET Agent : UpdateCategories(j, batch)
        \/ JobFails(j)
    \/ \E a \in Agent : \E p \in Profile[a] : SyncAgent(a, p)
    \/ CleanOrphans

Spec == Init /\ [][Next]_vars

-----------------------------------------------------------------------------
(* Properties.                                                             *)

\* The points an agent loses are those of its flags, in every committed
\* state: 30 for one flagged wallet and 50 for two, 0 without flags.  Only an
\* agent that was deleted and comes back finds flags of its former row.
PenaltyMatchesFlags ==
    \A a \in Stored \ revived :
        LET flagged == IF flags[a] = None THEN {}
                       ELSE {w \in {"creator", "owner"} : flags[a][w] # {}}
        IN  agents[a].penalty = CASE flagged = {} -> 0
                                  [] Cardinality(flagged) = 1 -> 30
                                  [] OTHER -> 50

\* After a replacement that no other one overlapped, a source holds a list
\* that was published, entry for entry, whatever failed before.
MirrorIsPublished ==
    \A s \in Source \ overlapped :
        mirror[s] = {} \/ \E raw \in Published[s] : mirror[s] = {Canon[x] : x \in raw}

\* The flags of an agent are what the lists say of its wallets, unless the
\* lists or the agent changed after a refresh had read them.
FlagsAreCurrent ==
    \A a \in Stored \ (touched \cup revived) :
        /\ flags[a] # None
        /\ \A w \in {"creator", "owner"} :
               flags[a][w] = {s \in Source : \E x \in Spelling \ {None} :
                                  x = agents[a].profile[w] /\ Canon[x] \in mirror[s]}

\* The category of an agent is the class of what is stored of it, unless the
\* sync left it alone or it changed during a reclassification.
CategoryFollowsSignals ==
    \A a \in Stored \ unsorted : agents[a].category = Class(agents[a].profile.signals)

-----------------------------------------------------------------------------
(* Why they hold: the invariant the proofs use.                            *)

\* Flags without an agent are those of an agent that was deleted.
NoFormerFlags ==
    \A a \in Agent \ (Stored \cup revived) : flags[a] = None

\* What a replacement inserts was published; one that is alone deletes all
\* there is.
ReplacementInv ==
    \A j \in Job : job[j].pc \in {"delete", "insert"} =>
        /\ \E raw \in Published[SourceOf(j)] : job[j].list = Normalized(raw)
        /\ job[j].alone => /\ job[j].rows = mirror[SourceOf(j)]
                           /\ Replacing(SourceOf(j)) = {j}

\* What a refresh has found and a reclassification has computed is what they
\* would find now, but for agents that changed since.
FoundInv ==
    \A j \in Job : job[j].pc = "store" =>
        \A a \in (DOMAIN job[j].found \cap Stored) \ job[j].missed :
            job[j].found[a] = [creator |-> Listing(agents[a].profile.creator, mirror),
                               owner |-> Listing(agents[a].profile.owner, mirror)]
TodoInv ==
    \A j \in Job : job[j].pc = "classify" =>
        \A a \in (DOMAIN job[j].todo \cap Stored) \ job[j].missed :
            job[j].todo[a] = Class(agents[a].profile.signals)

IInv ==
    /\ TypeOK
    /\ PenaltyMatchesFlags /\ NoFormerFlags
    /\ MirrorIsPublished /\ ReplacementInv
    /\ FlagsAreCurrent /\ FoundInv
    /\ CategoryFollowsSignals /\ TodoInv
==============================================================================
