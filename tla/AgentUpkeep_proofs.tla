-------------------------- MODULE AgentUpkeep_proofs --------------------------
(***************************************************************************)
(* Proofs about AgentUpkeep and Classify, for every value of their         *)
(* constants.                                                              *)
(***************************************************************************)
EXTENDS AgentUpkeep, FiniteSetTheorems, TLAPS

Jobs == {IdleJob, [pc |-> "agents"]} \cup Fetching \cup Replacement \cup Storing \cup Classifying

-----------------------------------------------------------------------------
(* The classifier                                                          *)

\* Every candidate of a stage is a category, and the last stage has one.
LEMMA StageTypes ==
    ASSUME NEW s \in Signals
    PROVE  /\ \A i \in 1 .. 7 : Stages(s)[i] \subseteq Category
           /\ Stages(s)[7] = {"other"}
  <1>1. /\ TermixTargets \subseteq Category /\ TagHinted \subseteq Category
        /\ DescriptionHinted \subseteq Category /\ SkillHinted \subseteq Category
        /\ ProtocolHinted \subseteq Category
        /\ "rebalancing" \in Category /\ "other" \in Category
        /\ "yield_optimisation" \in Category
    <2>1. DOMAIN CATEGORIES = 1 .. 11
      BY DEF CATEGORIES
    <2>2. /\ CATEGORIES[1] = "rebalancing" /\ CATEGORIES[2] = "grid_trading"
          /\ CATEGORIES[3] = "yield_optimisation" /\ CATEGORIES[5] = "dev_automation"
          /\ CATEGORIES[6] = "creative_design" /\ CATEGORIES[7] = "marketing_content"
          /\ CATEGORIES[8] = "data_analytics" /\ CATEGORIES[9] = "security_compliance"
          /\ CATEGORIES[10] = "admin_ops" /\ CATEGORIES[11] = "other"
          /\ CATEGORIES[4] = "health_factor_monitoring"
      BY DEF CATEGORIES
    <2>3. {1, 2, 3, 4, 5, 6, 7, 8, 9, 10, 11} \subseteq DOMAIN CATEGORIES
      BY <2>1
    <2>4. {CATEGORIES[1], CATEGORIES[2], CATEGORIES[3], CATEGORIES[4], CATEGORIES[5],
           CATEGORIES[6], CATEGORIES[7], CATEGORIES[8], CATEGORIES[9], CATEGORIES[10],
           CATEGORIES[11]} \subseteq Category
      BY <2>3 DEF Category
    <2> QED
      BY <2>2, <2>4 DEF TermixTargets, TagHinted, DescriptionHinted, SkillHinted, ProtocolHinted
  <1>2. /\ s.termix = "none" \/ s.termix \in TermixTargets
        /\ s.tags \subseteq TagHinted /\ s.description \subseteq DescriptionHinted
        /\ s.skills \subseteq SkillHinted /\ s.protocols \subseteq ProtocolHinted
    BY DEF Signals
  <1> QED
    BY <1>1, <1>2 DEF Stages

\* A nonempty set of categories has a first one in CATEGORIES.
LEMMA FirstOfIsMember ==
    ASSUME NEW S \in SUBSET Category, S # {}
    PROVE  FirstOf(S) \in S /\ \A d \in S : Place(FirstOf(S)) <= Place(d)
  <1> DEFINE P == {Place(c) : c \in S}
  <1>1. P \subseteq 1 .. 11 /\ P # {}
    <2>1. DOMAIN CATEGORIES = 1 .. 11
      BY DEF CATEGORIES
    <2>2. \A c \in Category : Place(c) \in DOMAIN CATEGORIES
      BY DEF Place, Category
    <2> QED
      BY <2>1, <2>2
  <1>2. \E m \in P : \A x \in P : m <= x
    <2> SUFFICES ASSUME \A m \in P : \E x \in P : x < m
                 PROVE  FALSE
      BY <1>1
    <2> HIDE DEF P
    <2> DEFINE Above(n) == \A x \in P : x > n
    <2>1. \A n \in Nat : Above(n) => Above(n + 1)
      BY <1>1
    <2>2. Above(0)
      BY <1>1
    <2> HIDE DEF Above
    <2>3. Above(4)
      BY <2>1, <2>2
    <2>4. Above(8)
      BY <2>1, <2>3
    <2>5. Above(11)
      BY <2>1, <2>4
    <2> USE DEF Above
    <2>6. PICK x \in P : TRUE
      BY <1>1
    <2> QED
      BY <1>1, <2>5, <2>6
  <1> DEFINE First(c) == c \in S /\ \A d \in S : Place(c) <= Place(d)
  <1>3. \E c : First(c)
    BY <1>2
  <1>4. First(CHOOSE c : First(c))
    BY <1>3, Zenon
  <1>5. FirstOf(S) = CHOOSE c : First(c)
    BY Zenon DEF FirstOf
  <1> QED
    BY <1>4, <1>5

\* Some stage has a candidate, the last one at the latest, so compute_category
\* returns one of the categories.
LEMMA ClassIsCategory ==
    ASSUME NEW s \in Signals
    PROVE  Class(s) \in Category
  <1> DEFINE Decides(i) == /\ i \in 1 .. 7
                           /\ Stages(s)[i] # {}
                           /\ \A j \in 1 .. i - 1 : Stages(s)[j] = {}
             deciding == CHOOSE i \in 1 .. 7 : /\ Stages(s)[i] # {}
                                               /\ \A j \in 1 .. i - 1 : Stages(s)[j] = {}
  <1>1. \E i : Decides(i)
    <2> DEFINE Empty(n) == \A j \in 1 .. n : Stages(s)[j] = {}
    <2> SUFFICES ASSUME \A i : ~Decides(i)
                 PROVE  FALSE
      OBVIOUS
    <2>1. \A n \in 0 .. 6 : Empty(n) => Empty(n + 1)
      <3> TAKE n \in 0 .. 6
      <3> HAVE Empty(n)
      <3>1. Stages(s)[n + 1] = {}
        <4>1. ~Decides(n + 1)
          OBVIOUS
        <4>2. n + 1 \in 1 .. 7 /\ (n + 1) - 1 = n
          OBVIOUS
        <4> QED
          BY <4>1, <4>2
      <3> QED
        BY <3>1
    <2>2. Empty(0)
      OBVIOUS
    <2> HIDE DEF Empty
    <2>3. Empty(4)
      BY <2>1, <2>2
    <2>4. Empty(7)
      BY <2>1, <2>3
    <2> USE DEF Empty
    <2>5. Stages(s)[7] = {}
      BY <2>4
    <2> QED
      BY <2>5, StageTypes
  <1>2. Decides(CHOOSE i : Decides(i))
    BY <1>1, Zenon
  <1>3. deciding = CHOOSE i : Decides(i)
    BY Zenon
  <1>4. Class(s) = FirstOf(Stages(s)[deciding])
    BY DEF Class
  <1>5. Decides(deciding)
    BY <1>2, <1>3
  <1> HIDE DEF deciding
  <1>6. Stages(s)[deciding] \in SUBSET Category /\ Stages(s)[deciding] # {}
    BY <1>5, StageTypes
  <1>7. Class(s) \in Stages(s)[deciding]
    BY <1>4, <1>6, FirstOfIsMember
  <1> QED
    BY <1>6, <1>7

-----------------------------------------------------------------------------
(* Requests                                                                *)

\* What a request at each of its steps carries.
LEMMA JobFields ==
    ASSUME NEW x \in Jobs
    PROVE  /\ x.pc \in {"idle", "fetch", "delete", "insert", "agents", "store", "classify"}
           /\ x.pc = "idle" => x = IdleJob
           /\ x.pc = "agents" => x = [pc |-> "agents"]
           /\ x.pc = "fetch" => x \in Fetching
           /\ x.pc \in {"delete", "insert"} => x \in Replacement
           /\ x.pc = "store" => x \in Storing
           /\ x.pc = "classify" => x \in Classifying
  <1>1. \A y \in Storing : y.pc = "store"
    BY DEF Storing
  <1>2. \A y \in Classifying : y.pc = "classify"
    BY DEF Classifying
  <1> QED
    BY <1>1, <1>2 DEF Jobs, IdleJob, Fetching, Replacement

LEMMA StoringFields ==
    ASSUME NEW x \in Storing
    PROVE  /\ x.pc = "store" /\ x.missed \subseteq Agent /\ DOMAIN x.found \subseteq Agent
           /\ \A a \in DOMAIN x.found : x.found[a] \in Flags
           /\ \A M \in SUBSET Agent :
                  /\ [x EXCEPT !.missed = M] \in Storing
                  /\ [x EXCEPT !.missed = M].found = x.found
                  /\ [x EXCEPT !.missed = M].missed = M
                  /\ [x EXCEPT !.missed = M].pc = "store"
  <1>1. PICK S \in SUBSET Agent : x \in [pc : {"store"}, missed : SUBSET Agent, found : [S -> Flags]]
    BY DEF Storing
  <1>2. \A M \in SUBSET Agent :
            [x EXCEPT !.missed = M] \in [pc : {"store"}, missed : SUBSET Agent, found : [S -> Flags]]
    BY <1>1
  <1>3. \A M \in SUBSET Agent : [x EXCEPT !.missed = M] \in Storing
    BY <1>2 DEF Storing
  <1> QED
    BY <1>1, <1>3

LEMMA ClassifyingFields ==
    ASSUME NEW x \in Classifying
    PROVE  /\ x.pc = "classify" /\ x.missed \subseteq Agent /\ DOMAIN x.todo \subseteq Agent
           /\ \A a \in DOMAIN x.todo : x.todo[a] \in Category
           /\ \A M \in SUBSET Agent :
                  /\ [x EXCEPT !.missed = M] \in Classifying
                  /\ [x EXCEPT !.missed = M].todo = x.todo
                  /\ [x EXCEPT !.missed = M].missed = M
                  /\ [x EXCEPT !.missed = M].pc = "classify"
  <1>1. PICK S \in SUBSET Agent :
            x \in [pc : {"classify"}, missed : SUBSET Agent, todo : [S -> Category]]
    BY DEF Classifying
  <1>2. \A M \in SUBSET Agent : [x EXCEPT !.missed = M]
            \in [pc : {"classify"}, missed : SUBSET Agent, todo : [S -> Category]]
    BY <1>1
  <1>3. \A M \in SUBSET Agent : [x EXCEPT !.missed = M] \in Classifying
    BY <1>2 DEF Classifying
  <1> QED
    BY <1>1, <1>3

\* What Overtake makes of a request.
LEMMA Overtaking ==
    ASSUME NEW jobs \in [Job -> Jobs], NEW changed \in SUBSET Agent
    PROVE  /\ Overtake(jobs, changed) \in [Job -> Jobs]
           /\ \A k \in Job :
                /\ Overtake(jobs, changed)[k].pc = jobs[k].pc
                /\ jobs[k].pc \notin {"store", "classify"} => Overtake(jobs, changed)[k] = jobs[k]
                /\ jobs[k].pc = "store" =>
                     /\ Overtake(jobs, changed)[k].found = jobs[k].found
                     /\ Overtake(jobs, changed)[k].missed = jobs[k].missed \cup changed
                /\ jobs[k].pc = "classify" =>
                     /\ Overtake(jobs, changed)[k].todo = jobs[k].todo
                     /\ Overtake(jobs, changed)[k].missed = jobs[k].missed \cup changed
  <1>0. Overtake(jobs, changed) =
            [k \in Job |-> IF jobs[k].pc \in {"store", "classify"}
                           THEN [jobs[k] EXCEPT !.missed = jobs[k].missed \cup changed]
                           ELSE jobs[k]]
    BY DEF Overtake
  <1>1. ASSUME NEW k \in Job
        PROVE  /\ Overtake(jobs, changed)[k] \in Jobs
               /\ Overtake(jobs, changed)[k].pc = jobs[k].pc
               /\ jobs[k].pc \notin {"store", "classify"} => Overtake(jobs, changed)[k] = jobs[k]
               /\ jobs[k].pc = "store" =>
                     /\ Overtake(jobs, changed)[k].found = jobs[k].found
                     /\ Overtake(jobs, changed)[k].missed = jobs[k].missed \cup changed
               /\ jobs[k].pc = "classify" =>
                     /\ Overtake(jobs, changed)[k].todo = jobs[k].todo
                     /\ Overtake(jobs, changed)[k].missed = jobs[k].missed \cup changed
    <2> DEFINE x == jobs[k]
               y == [x EXCEPT !.missed = x.missed \cup changed]
    <2>1. Overtake(jobs, changed)[k] = IF x.pc \in {"store", "classify"} THEN y ELSE x
      BY <1>0
    <2>2. x \in Jobs
      OBVIOUS
    <2>3. CASE x.pc = "store"
      <3>1. x \in Storing
        BY <2>2, <2>3, JobFields
      <3>2. y \in Storing /\ y.found = x.found /\ y.missed = x.missed \cup changed /\ y.pc = "store"
        BY <3>1, StoringFields
      <3> QED
        BY <2>1, <2>3, <3>2 DEF Jobs
    <2>4. CASE x.pc = "classify"
      <3>1. x \in Classifying
        BY <2>2, <2>4, JobFields
      <3>2. /\ y \in Classifying /\ y.todo = x.todo /\ y.missed = x.missed \cup changed
            /\ y.pc = "classify"
        BY <3>1, ClassifyingFields
      <3> QED
        BY <2>1, <2>4, <3>2 DEF Jobs
    <2> QED
      BY <2>1, <2>2, <2>3, <2>4
  <1> QED
    BY <1>0, <1>1

-----------------------------------------------------------------------------
(* Rows, flags and lists                                                   *)

LEMMA RowFields ==
    ASSUME NEW x \in Row
    PROVE  /\ x # None
           /\ x.profile.signals \in Signals /\ x.category \in Category /\ x.penalty \in {0, 30, 50}
           /\ x.profile.creator \in Spelling \cup {None}
           /\ x.profile.owner \in Spelling \cup {None}
           /\ \A c \in Category : [x EXCEPT !.category = c] \in Row
           /\ \A n \in {0, 30, 50} : [x EXCEPT !.penalty = n] \in Row
  <1>1. PICK a \in Agent : x.profile \in Profile[a]
    BY DEF Row
  <1>2. x.profile \in [creator : Spelling \cup {None}, owner : Spelling \cup {None},
                       signals : Signals]
    BY <1>1, UpkeepAssumption
  <1>3. x # None
    BY NoneAssumption
  <1> QED
    BY <1>2, <1>3 DEF Row

\* A listing names sources, and a normalized list that was published addresses.
LEMMA ListTypes ==
    /\ \A x, listed : Listing(x, listed) \subseteq Source
    /\ \A s \in Source : \A raw \in Published[s] : Normalized(raw) \subseteq Address
  <1>1. \A x, listed : Listing(x, listed) \subseteq Source
    BY DEF Listing
  <1>2. ASSUME NEW s \in Source, NEW raw \in Published[s]
        PROVE  Normalized(raw) \subseteq Address
    <2>1. raw \subseteq Spelling
      BY UpkeepAssumption
    <2> QED
      BY <2>1 DEF Normalized, Address
  <1> QED
    BY <1>1, <1>2

\* The penalty in points, by the number of flagged wallets.
LEMMA PenaltyPoints ==
    ASSUME NEW f \in Flags
    PROVE  /\ compute_penalty(f) \in {0, 30, 50}
           /\ LET flagged == {w \in {"creator", "owner"} : f[w] # {}}
              IN  compute_penalty(f) = CASE flagged = {} -> 0
                                         [] Cardinality(flagged) = 1 -> 30
                                         [] OTHER -> 50
  <1> DEFINE flagged == {w \in {"creator", "owner"} : f[w] # {}}
  <1>1. f["creator"] = f.creator /\ f["owner"] = f.owner
    BY DEF Flags
  <1>2. "creator" # "owner"
    OBVIOUS
  <1>3. CASE f.creator = {} /\ f.owner = {}
    <2>1. flagged = {}
      BY <1>1, <1>3
    <2>2. Cardinality(flagged) = 0
      BY <2>1, FS_EmptySet
    <2> QED
      BY <1>3, <2>1, <2>2 DEF compute_penalty
  <1>4. CASE f.creator # {} /\ f.owner = {}
    <2>1. flagged = {"creator"}
      BY <1>1, <1>2, <1>4
    <2>2. Cardinality(flagged) = 1
      BY <2>1, FS_Singleton
    <2> QED
      BY <1>4, <2>1, <2>2 DEF compute_penalty
  <1>5. CASE f.creator = {} /\ f.owner # {}
    <2>1. flagged = {"owner"}
      BY <1>1, <1>2, <1>5
    <2>2. Cardinality(flagged) = 1
      BY <2>1, FS_Singleton
    <2> QED
      BY <1>5, <2>1, <2>2 DEF compute_penalty
  <1>6. CASE f.creator # {} /\ f.owner # {}
    <2>1. flagged = {"creator"} \cup {"owner"}
      BY <1>1, <1>6
    <2>2. Cardinality(flagged) = 2
      <3>1. IsFiniteSet({"creator"}) /\ Cardinality({"creator"}) = 1
        BY FS_Singleton
      <3>2. Cardinality({"creator"} \cup {"owner"}) = 2
        BY <1>2, <3>1, FS_AddElement
      <3> QED
        BY <2>1, <3>2
    <2> QED
      BY <1>6, <2>1, <2>2 DEF compute_penalty
  <1> QED
    BY <1>3, <1>4, <1>5, <1>6

\* The flags a profile calls for, and FlagsAreCurrent of one agent.
Found(p, m) == [creator |-> Listing(p.creator, m), owner |-> Listing(p.owner, m)]
Shows(f, p, m) ==
    /\ f # None
    /\ \A w \in {"creator", "owner"} :
           f[w] = {s \in Source : \E x \in Spelling \ {None} : x = p[w] /\ Canon[x] \in m[s]}

LEMMA FlagsMean ==
    ASSUME NEW f \in Flags \cup {None}, NEW x \in Row, NEW m
    PROVE  Shows(f, x.profile, m) <=> f = Found(x.profile, m)
  <1> DEFINE p == x.profile
  <1>0. p \in [creator : Spelling \cup {None}, owner : Spelling \cup {None}, signals : Signals]
    <2>1. PICK a \in Agent : p \in Profile[a]
      BY DEF Row
    <2> QED
      BY <2>1, UpkeepAssumption
  <1> HIDE DEF p
  <1>1. \A y \in Spelling \cup {None} :
            Listing(y, m) = {s \in Source : \E z \in Spelling \ {None} : z = y /\ Canon[z] \in m[s]}
    BY DEF Listing
  <1>2. p["creator"] = p.creator /\ p["owner"] = p.owner
    BY <1>0
  <1>3. p.creator \in Spelling \cup {None} /\ p.owner \in Spelling \cup {None}
    BY <1>0
  <1>4. (\A w \in {"creator", "owner"} :
            f[w] = {s \in Source : \E z \in Spelling \ {None} : z = p[w] /\ Canon[z] \in m[s]})
          <=> f["creator"] = Listing(p.creator, m) /\ f["owner"] = Listing(p.owner, m)
    BY <1>1, <1>2, <1>3
  <1>5. Shows(f, p, m) <=> f # None /\ f["creator"] = Listing(p.creator, m)
                                   /\ f["owner"] = Listing(p.owner, m)
    BY <1>4 DEF Shows
  <1>6. CASE f = None
    <2>1. Found(p, m) \in Flags
      BY ListTypes DEF Found, Flags
    <2> QED
      BY <1>5, <1>6, <2>1, NoneAssumption DEF p
  <1>7. CASE f \in Flags
    <2>1. f # None
      BY <1>7, NoneAssumption
    <2>2. f["creator"] = f.creator /\ f["owner"] = f.owner
      BY <1>7 DEF Flags
    <2>3. f = [creator |-> f.creator, owner |-> f.owner]
      BY <1>7 DEF Flags
    <2>4. f = Found(p, m) <=> f.creator = Listing(p.creator, m) /\ f.owner = Listing(p.owner, m)
      BY <2>3 DEF Found
    <2> QED
      BY <1>5, <2>1, <2>2, <2>4 DEF p
  <1> QED
    BY <1>6, <1>7

\* What the sync makes of an agent is a row, of which the category follows the
\* profile unless the sync leaves it alone.
LEMMA EnrichedTypes ==
    ASSUME TypeOK, NEW a \in Agent, NEW p \in Profile[a]
    PROVE  /\ Enriched(a, p) \in Category
           /\ Class(p.signals) \notin NotEnriched => Enriched(a, p) = Class(p.signals)
           /\ p \in [creator : Spelling \cup {None}, owner : Spelling \cup {None},
                     signals : Signals]
           /\ [profile |-> p, category |-> Enriched(a, p),
               penalty |-> IF agents[a] = None THEN 0 ELSE agents[a].penalty] \in Row
  <1>1. p \in [creator : Spelling \cup {None}, owner : Spelling \cup {None}, signals : Signals]
    BY UpkeepAssumption
  <1>2. Class(p.signals) \in Category /\ "other" \in Category
    <2>1. p.signals \in Signals
      BY <1>1
    <2>2. Stages(p.signals)[7] = {"other"} /\ Stages(p.signals)[7] \subseteq Category
      BY <2>1, StageTypes
    <2> QED
      BY <2>1, <2>2, ClassIsCategory
  <1>3. agents[a] # None => agents[a] \in Row
    BY DEF TypeOK
  <1>4. agents[a] # None => agents[a].category \in Category /\ agents[a].penalty \in {0, 30, 50}
    BY <1>3, RowFields
  <1>5. Enriched(a, p) \in Category
    BY <1>2, <1>4 DEF Enriched
  <1>6. Class(p.signals) \notin NotEnriched => Enriched(a, p) = Class(p.signals)
    BY DEF Enriched
  <1>7. [profile |-> p, category |-> Enriched(a, p),
         penalty |-> IF agents[a] = None THEN 0 ELSE agents[a].penalty] \in Row
    <2>1. p \in UNION {Profile[b] : b \in Agent}
      OBVIOUS
    <2>2. (IF agents[a] = None THEN 0 ELSE agents[a].penalty) \in {0, 30, 50}
      BY <1>4
    <2> QED
      BY <1>5, <2>1, <2>2 DEF Row
  <1> QED
    BY <1>1, <1>5, <1>6, <1>7

-----------------------------------------------------------------------------
(* Type correctness                                                        *)

LEMMA InitType == Init => TypeOK
  <1>1. IdleJob \in Jobs
    BY DEF Jobs
  <1> QED
    BY <1>1 DEF Init, TypeOK, Jobs

\* The common case: one request moves on, the tables stay.
LEMMA OneJobType ==
    ASSUME TypeOK, NEW j \in Job, NEW x \in Jobs, job' = [job EXCEPT ![j] = x],
           UNCHANGED <<agents, flags, mirror, histVars>>
    PROVE  TypeOK'
  BY DEF TypeOK, Jobs, histVars

LEMMA StartTypes ==
    ASSUME TypeOK, NEW j \in Job, StartFlagged(j) \/ StartRefresh(j)
    PROVE  TypeOK'
  <1>1. 1 \in Turn
    <2>1. Len(FLAGGED_SOURCES) \in Nat /\ Len(FLAGGED_SOURCES) # 0
      BY UpkeepAssumption
    <2> QED
      BY <2>1 DEF Turn
  <1>2. \A kind \in Kind : [pc |-> "fetch", kind |-> kind, at |-> 1] \in Jobs
    BY <1>1 DEF Fetching, Jobs
  <1> QED
    BY <1>2, OneJobType DEF StartFlagged, StartRefresh, Kind

LEMMA EndTypes ==
    ASSUME TypeOK, NEW j \in Job, InsertConflicts(j) \/ JobFails(j)
    PROVE  TypeOK'
  BY OneJobType DEF InsertConflicts, JobFails, Jobs

LEMMA DeleteType ==
    ASSUME TypeOK, NEW j \in Job, DeleteRows(j)
    PROVE  TypeOK'
  <1>1. job[j] \in Jobs /\ job[j].pc = "delete"
    BY DEF TypeOK, DeleteRows, Jobs
  <1>2. job[j] \in Replacement
    BY <1>1, JobFields
  <1>3. [job[j] EXCEPT !.pc = "insert"] \in Jobs
    BY <1>2 DEF Replacement, Jobs
  <1>4. job' = [job EXCEPT ![j] = [job[j] EXCEPT !.pc = "insert"]]
    BY DEF DeleteRows
  <1> QED
    BY <1>3, <1>4, OneJobType DEF DeleteRows

LEMMA ReadType ==
    ASSUME TypeOK, NEW j \in Job, ReadAgents(j)
    PROVE  TypeOK'
  <1> DEFINE found == [a \in Stored |-> [creator |-> Listing(agents[a].profile.creator, mirror),
                                         owner |-> Listing(agents[a].profile.owner, mirror)]]
             x == [pc |-> "store", missed |-> {}, found |-> found]
  <1>1. Stored \in SUBSET Agent
    BY DEF Stored
  <1>2. found \in [Stored -> Flags]
    BY ListTypes DEF Flags
  <1>3. x \in Storing
    <2>1. x \in [pc : {"store"}, missed : SUBSET Agent, found : [Stored -> Flags]]
      BY <1>2
    <2> QED
      BY <1>1, <2>1 DEF Storing
  <1>4. x \in Jobs
    BY <1>3 DEF Jobs
  <1> QED
    BY <1>4, OneJobType DEF ReadAgents

LEMMA StartReclassifyType ==
    ASSUME TypeOK, NEW j \in Job, StartReclassify(j)
    PROVE  TypeOK'
  <1> DEFINE todo == [a \in Outdated |-> Class(agents[a].profile.signals)]
             x == [pc |-> "classify", missed |-> {}, todo |-> todo]
  <1>1. Outdated \in SUBSET Agent
    BY DEF Outdated, Stored
  <1>2. todo \in [Outdated -> Category]
    <2>1. \A a \in Outdated : agents[a] \in Row
      BY DEF Outdated, Stored, TypeOK
    <2>2. \A a \in Outdated : Class(agents[a].profile.signals) \in Category
      BY <2>1, RowFields, ClassIsCategory
    <2> QED
      BY <2>2
  <1>3. x \in Classifying
    <2>1. x \in [pc : {"classify"}, missed : SUBSET Agent, todo : [Outdated -> Category]]
      BY <1>2
    <2> QED
      BY <1>1, <2>1 DEF Classifying
  <1>4. x \in Jobs
    BY <1>3 DEF Jobs
  <1> QED
    BY <1>4, OneJobType DEF StartReclassify

LEMMA FetchType ==
    ASSUME TypeOK, NEW j \in Job, NEW raw, FetchList(j, raw)
    PROVE  TypeOK'
  <1> DEFINE s == SourceOf(j)
             x == [pc |-> "delete", kind |-> job[j].kind, at |-> job[j].at,
                   list |-> Normalized(raw), rows |-> mirror[s], alone |-> Replacing(s) = {}]
  <1>1. job \in [Job -> Jobs] /\ job[j].pc = "fetch" /\ raw \in Published[s]
    BY DEF TypeOK, FetchList, Jobs
  <1>2. job[j].kind \in Kind /\ job[j].at \in Turn /\ s \in Source
    <2>1. job[j] \in Fetching
      BY <1>1, JobFields
    <2>2. DOMAIN FLAGGED_SOURCES = Turn
      BY UpkeepAssumption DEF Turn
    <2> QED
      BY <2>1, <2>2 DEF Fetching, Source, SourceOf
  <1>3. x \in Jobs
    <2>1. Normalized(raw) \subseteq Address
      BY <1>1, <1>2, ListTypes
    <2>2. mirror[s] \subseteq Address
      BY <1>2 DEF TypeOK
    <2>3. x \in Replacement
      BY <1>2, <2>1, <2>2 DEF Replacement
    <2> QED
      BY <2>3 DEF Jobs
  <1>4. \A k \in Replacing(s) : k \in Job /\ [job[k] EXCEPT !.alone = FALSE] \in Jobs
    <2> TAKE k \in Replacing(s)
    <2>1. k \in Job /\ job[k] \in Replacement
      BY <1>1, JobFields DEF Replacing
    <2>2. [job[k] EXCEPT !.alone = FALSE] \in Replacement
      BY <2>1 DEF Replacement
    <2> QED
      BY <2>1, <2>2 DEF Jobs
  <1>5. job' = [k \in Job |-> IF k = j THEN x
                              ELSE IF k \in Replacing(s) THEN [job[k] EXCEPT !.alone = FALSE]
                              ELSE job[k]]
    BY DEF FetchList
  <1> HIDE DEF x, s
  <1>6. job' \in [Job -> Jobs]
    BY <1>1, <1>3, <1>4, <1>5
  <1> QED
    BY <1>6 DEF TypeOK, Jobs, FetchList, histVars

\* The jobs after InsertRows, before any is overtaken.
AfterInsert(j) ==
    [k \in Job |->
        IF k = j THEN AfterSource(j)
        ELSE IF k \in Replacing(SourceOf(j)) /\ job[k].pc = "delete"
        THEN [job[k] EXCEPT !.rows = @ \ job[j].rows]
        ELSE job[k]]

LEMMA InsertShape ==
    ASSUME TypeOK, NEW j \in Job, InsertRows(j)
    PROVE  /\ job[j] \in Replacement /\ SourceOf(j) \in Source
           /\ AfterInsert(j) \in [Job -> Jobs]
           /\ AfterInsert(j)[j].pc \in {"fetch", "agents", "idle"}
           /\ \A k \in Job \ {j} :
                /\ AfterInsert(j)[k].pc = job[k].pc
                /\ job[k].pc \notin {"delete", "insert"} => AfterInsert(j)[k] = job[k]
                /\ job[k].pc \in {"delete", "insert"} =>
                     /\ AfterInsert(j)[k].list = job[k].list
                     /\ AfterInsert(j)[k].at = job[k].at
                     /\ AfterInsert(j)[k].alone = job[k].alone
                     /\ SourceOf(k) # SourceOf(j) => AfterInsert(j)[k] = job[k]
           /\ job' = IF mirror' = mirror THEN AfterInsert(j) ELSE Overtake(AfterInsert(j), Agent)
  <1>1. job \in [Job -> Jobs] /\ job[j].pc = "insert"
    BY DEF TypeOK, InsertRows, Jobs
  <1>2. job[j] \in Replacement
    BY <1>1, JobFields
  <1>3. SourceOf(j) \in Source
    <2>1. DOMAIN FLAGGED_SOURCES = Turn
      BY UpkeepAssumption DEF Turn
    <2> QED
      BY <1>2, <2>1 DEF Replacement, Source, SourceOf
  <1>4. AfterSource(j) \in Jobs /\ AfterSource(j).pc \in {"fetch", "agents", "idle"}
    <2>1. job[j].kind \in Kind /\ job[j].at \in Turn
      BY <1>2 DEF Replacement
    <2>2. job[j].at < Len(FLAGGED_SOURCES) => job[j].at + 1 \in Turn
      <3>1. Len(FLAGGED_SOURCES) \in Nat
        BY UpkeepAssumption
      <3> QED
        BY <2>1, <3>1 DEF Turn
    <2>3. job[j].at < Len(FLAGGED_SOURCES) =>
            [pc |-> "fetch", kind |-> job[j].kind, at |-> job[j].at + 1] \in Fetching
      BY <2>1, <2>2 DEF Fetching
    <2> QED
      BY <2>3 DEF AfterSource, Jobs, IdleJob
  <1>5. ASSUME NEW k \in Job, job[k].pc \in {"delete", "insert"}
        PROVE  /\ [job[k] EXCEPT !.rows = @ \ job[j].rows] \in Jobs
               /\ [job[k] EXCEPT !.rows = @ \ job[j].rows].pc = job[k].pc
               /\ [job[k] EXCEPT !.rows = @ \ job[j].rows].list = job[k].list
               /\ [job[k] EXCEPT !.rows = @ \ job[j].rows].at = job[k].at
               /\ [job[k] EXCEPT !.rows = @ \ job[j].rows].alone = job[k].alone
    <2>1. job[k] \in Replacement
      BY <1>1, <1>5, JobFields
    <2>2. [job[k] EXCEPT !.rows = @ \ job[j].rows] \in Replacement
      BY <2>1 DEF Replacement
    <2> QED
      BY <2>1, <2>2 DEF Jobs, Replacement
  <1>6. \A k \in Replacing(SourceOf(j)) : job[k].pc \in {"delete", "insert"} /\ k \in Job
                                          /\ SourceOf(k) = SourceOf(j)
    BY DEF Replacing
  <1>7. AfterInsert(j) \in [Job -> Jobs]
    BY <1>1, <1>4, <1>5, <1>6 DEF AfterInsert
  <1>8. ASSUME NEW k \in Job \ {j}
        PROVE  /\ AfterInsert(j)[k].pc = job[k].pc
               /\ job[k].pc \notin {"delete", "insert"} => AfterInsert(j)[k] = job[k]
               /\ job[k].pc \in {"delete", "insert"} =>
                     /\ AfterInsert(j)[k].list = job[k].list
                     /\ AfterInsert(j)[k].at = job[k].at
                     /\ AfterInsert(j)[k].alone = job[k].alone
                     /\ SourceOf(k) # SourceOf(j) => AfterInsert(j)[k] = job[k]
    BY <1>5, <1>6 DEF AfterInsert
  <1>9. job' = IF mirror' = mirror THEN AfterInsert(j) ELSE Overtake(AfterInsert(j), Agent)
    BY DEF InsertRows, AfterInsert
  <1> QED
    BY <1>2, <1>3, <1>4, <1>7, <1>8, <1>9 DEF AfterInsert

LEMMA InsertType ==
    ASSUME TypeOK, NEW j \in Job, InsertRows(j)
    PROVE  TypeOK'
  <1>1. job' \in [Job -> Jobs]
    BY InsertShape, Overtaking
  <1>2. mirror' \in [Source -> SUBSET Address]
    <2>1. Replaced(j) \subseteq Address
      BY InsertShape DEF Replaced, Replacement, TypeOK
    <2> QED
      BY <2>1 DEF InsertRows, TypeOK
  <1>3. overlapped' \subseteq Source /\ touched' \subseteq Agent
    BY InsertShape DEF InsertRows, TypeOK
  <1> QED
    BY <1>1, <1>2, <1>3 DEF InsertRows, TypeOK, Jobs

\* The rows after a refresh has stored what it found.
LEMMA PenaltyTypes ==
    ASSUME TypeOK, NEW found, \A a \in DOMAIN found : found[a] \in Flags, NEW a \in Agent
    PROVE  /\ PenaltyAfter(a, found) \in Row \cup {None}
           /\ (PenaltyAfter(a, found) # None) <=> (agents[a] # None)
           /\ agents[a] # None =>
                 /\ PenaltyAfter(a, found).profile = agents[a].profile
                 /\ PenaltyAfter(a, found).category = agents[a].category
                 /\ PenaltyAfter(a, found).penalty =
                       IF a \in DOMAIN found THEN compute_penalty(found[a]) ELSE agents[a].penalty
  <1>1. agents[a] \in Row \cup {None}
    BY DEF TypeOK
  <1>2. CASE agents[a] # None /\ a \in DOMAIN found
    <2> DEFINE n == compute_penalty(found[a])
    <2>1. n \in {0, 30, 50}
      BY <1>2, PenaltyPoints
    <2>2. agents[a] \in Row
      BY <1>1, <1>2
    <2>3. PenaltyAfter(a, found) = [agents[a] EXCEPT !.penalty = n]
      BY <1>2 DEF PenaltyAfter
    <2> HIDE DEF n
    <2>4. /\ [agents[a] EXCEPT !.penalty = n] \in Row
          /\ [agents[a] EXCEPT !.penalty = n] # None
      BY <2>1, <2>2, RowFields
    <2>5. /\ [agents[a] EXCEPT !.penalty = n].profile = agents[a].profile
          /\ [agents[a] EXCEPT !.penalty = n].category = agents[a].category
          /\ [agents[a] EXCEPT !.penalty = n].penalty = n
      BY <2>2 DEF Row
    <2> QED
      BY <1>2, <2>3, <2>4, <2>5 DEF n
  <1>3. CASE ~(agents[a] # None /\ a \in DOMAIN found)
    BY <1>1, <1>3 DEF PenaltyAfter
  <1> QED
    BY <1>2, <1>3

\* What the request that stores has found.
LEMMA StoreShape ==
    ASSUME TypeOK, NEW j \in Job, StoreFlags(j)
    PROVE  /\ job[j].pc = "store" /\ job[j].missed \subseteq Agent
           /\ DOMAIN job[j].found \subseteq Agent
           /\ \A a \in DOMAIN job[j].found : job[j].found[a] \in Flags
  <1>1. job[j] \in Jobs /\ job[j].pc = "store"
    BY DEF TypeOK, StoreFlags, Jobs
  <1> QED
    BY <1>1, JobFields, StoringFields

LEMMA StoreType ==
    ASSUME TypeOK, NEW j \in Job, StoreFlags(j)
    PROVE  TypeOK'
  <1>1. agents' \in [Agent -> Row \cup {None}]
    BY StoreShape, PenaltyTypes DEF StoreFlags
  <1>2. flags' \in [Agent -> Flags \cup {None}]
    BY StoreShape DEF StoreFlags, TypeOK
  <1>3. touched' \subseteq Agent /\ revived' \subseteq Agent
    BY StoreShape DEF StoreFlags, TypeOK
  <1>4. job' \in [Job -> Jobs]
    BY DEF StoreFlags, TypeOK, Jobs
  <1> QED
    BY <1>1, <1>2, <1>3, <1>4 DEF StoreFlags, TypeOK, Jobs

\* The rows, and the request, after a batch of categories.
LEMMA UpdateShape ==
    ASSUME TypeOK, NEW j \in Job, NEW batch, UpdateCategories(j, batch)
    PROVE  /\ job[j].pc = "classify" /\ batch \subseteq DOMAIN job[j].todo /\ batch \subseteq Agent
           /\ agents' \in [Agent -> Row \cup {None}]
           /\ \A a \in Agent :
                /\ (agents'[a] # None) <=> (agents[a] # None)
                /\ agents[a] # None =>
                     /\ agents'[a].profile = agents[a].profile
                     /\ agents'[a].penalty = agents[a].penalty
                     /\ agents'[a].category = IF a \in batch THEN job[j].todo[a]
                                              ELSE agents[a].category
           /\ job' \in [Job -> Jobs]
           /\ \A k \in Job \ {j} : job'[k] = job[k]
           /\ job'[j].pc \in {"idle", "classify"}
           /\ job'[j].pc = "classify" =>
                 /\ job'[j].missed = job[j].missed
                 /\ DOMAIN job'[j].todo \subseteq DOMAIN job[j].todo
                 /\ \A a \in DOMAIN job'[j].todo : job'[j].todo[a] = job[j].todo[a]
  <1> DEFINE todo == job[j].todo
             rest == DOMAIN todo \ batch
             x == [job[j] EXCEPT !.todo = [a \in rest |-> todo[a]]]
  <1>1. job \in [Job -> Jobs] /\ job[j].pc = "classify" /\ batch \subseteq DOMAIN todo
    BY DEF TypeOK, UpdateCategories, Jobs
  <1>2. job[j] \in Classifying
    BY <1>1, JobFields
  <1>3. DOMAIN todo \subseteq Agent /\ \A a \in DOMAIN todo : todo[a] \in Category
    BY <1>2, ClassifyingFields
  <1>4. /\ x \in Classifying /\ x.pc = "classify" /\ x.missed = job[j].missed
        /\ x.todo = [a \in rest |-> todo[a]]
    <2>1. PICK S \in SUBSET Agent :
              job[j] \in [pc : {"classify"}, missed : SUBSET Agent, todo : [S -> Category]]
      BY <1>2 DEF Classifying
    <2>2. [a \in rest |-> todo[a]] \in [rest -> Category] /\ rest \in SUBSET Agent
      BY <1>3
    <2> HIDE DEF rest, todo
    <2>3. /\ x \in [pc : {"classify"}, missed : SUBSET Agent, todo : [rest -> Category]]
          /\ x.pc = "classify" /\ x.missed = job[j].missed /\ x.todo = [a \in rest |-> todo[a]]
      BY <2>1, <2>2
    <2> QED
      BY <2>2, <2>3 DEF Classifying
  <1>5. job' = [job EXCEPT ![j] = IF rest = {} THEN IdleJob ELSE x]
    BY DEF UpdateCategories
  <1>6. ASSUME NEW a \in Agent
        PROVE  /\ agents'[a] \in Row \cup {None}
               /\ (agents'[a] # None) <=> (agents[a] # None)
               /\ agents[a] # None =>
                     /\ agents'[a].profile = agents[a].profile
                     /\ agents'[a].penalty = agents[a].penalty
                     /\ agents'[a].category = IF a \in batch THEN todo[a] ELSE agents[a].category
    <2>1. agents[a] \in Row \cup {None}
      BY DEF TypeOK
    <2>2. agents'[a] = IF a \in batch /\ agents[a] # None
                       THEN [agents[a] EXCEPT !.category = todo[a]] ELSE agents[a]
      BY DEF UpdateCategories
    <2>3. CASE a \in batch /\ agents[a] # None
      <3>1. todo[a] \in Category /\ agents[a] \in Row
        BY <1>1, <1>3, <2>1, <2>3
      <3>2. agents'[a] = [agents[a] EXCEPT !.category = todo[a]]
        BY <2>2, <2>3
      <3> HIDE DEF todo
      <3>3. /\ [agents[a] EXCEPT !.category = todo[a]] \in Row
            /\ [agents[a] EXCEPT !.category = todo[a]] # None
        BY <3>1, RowFields
      <3>4. /\ [agents[a] EXCEPT !.category = todo[a]].profile = agents[a].profile
            /\ [agents[a] EXCEPT !.category = todo[a]].penalty = agents[a].penalty
            /\ [agents[a] EXCEPT !.category = todo[a]].category = todo[a]
        BY <3>1 DEF Row
      <3> QED
        BY <2>3, <3>2, <3>3, <3>4
    <2>4. CASE ~(a \in batch /\ agents[a] # None)
      BY <2>1, <2>2, <2>4
    <2> QED
      BY <2>3, <2>4
  <1>7. agents' \in [Agent -> Row \cup {None}]
    <2>1. agents' = [a \in Agent |-> agents'[a]]
      BY DEF UpdateCategories
    <2> QED
      BY <1>6, <2>1
  <1>8. IdleJob \in Jobs /\ x \in Jobs
    BY <1>4 DEF Jobs
  <1> HIDE DEF x
  <1>9. /\ job' \in [Job -> Jobs] /\ \A k \in Job \ {j} : job'[k] = job[k]
        /\ job'[j] = IF rest = {} THEN IdleJob ELSE x
    BY <1>1, <1>5, <1>8
  <1> QED
    BY <1>1, <1>3, <1>4, <1>6, <1>7, <1>9 DEF IdleJob

LEMMA UpdateType ==
    ASSUME TypeOK, NEW j \in Job, NEW batch, UpdateCategories(j, batch)
    PROVE  TypeOK'
  <1>1. unsorted' \subseteq Agent
    BY UpdateShape DEF UpdateCategories, TypeOK
  <1> QED
    BY <1>1, UpdateShape DEF UpdateCategories, TypeOK, Jobs

LEMMA SyncType ==
    ASSUME TypeOK, NEW a \in Agent, NEW p \in Profile[a], SyncAgent(a, p)
    PROVE  TypeOK'
  <1>1. agents' \in [Agent -> Row \cup {None}]
    BY EnrichedTypes DEF SyncAgent, TypeOK
  <1>2. job' \in [Job -> Jobs]
    BY Overtaking DEF SyncAgent, TypeOK, Jobs
  <1>3. touched' \subseteq Agent /\ unsorted' \subseteq Agent
    BY DEF SyncAgent, TypeOK
  <1> QED
    BY <1>1, <1>2, <1>3 DEF SyncAgent, TypeOK, Jobs

LEMMA CleanType ==
    ASSUME TypeOK, CleanOrphans
    PROVE  TypeOK'
  BY UpkeepAssumption DEF CleanOrphans, TypeOK, Stored

LEMMA TypeStep == TypeOK /\ [Next]_vars => TypeOK'
  <1> SUFFICES ASSUME TypeOK, [Next]_vars
               PROVE  TypeOK'
    OBVIOUS
  <1>1. CASE UNCHANGED vars
    BY <1>1 DEF TypeOK, vars, histVars
  <1>2. CASE Next
    BY <1>2, StartTypes, EndTypes, DeleteType, ReadType, StartReclassifyType, FetchType,
       InsertType, StoreType, UpdateType, SyncType, CleanType DEF Next
  <1> QED
    BY <1>1, <1>2

-----------------------------------------------------------------------------
(* Penalties                                                               *)

\* The penalty of a row without flags, and of one with flags f.
Points(f) == IF f = None THEN 0 ELSE compute_penalty(f)

LEMMA PenaltyMeans ==
    /\ TypeOK =>
         (PenaltyMatchesFlags <=> \A a \in Stored \ revived : agents[a].penalty = Points(flags[a]))
    /\ TypeOK' =>
         (PenaltyMatchesFlags'
            <=> \A a \in Agent : agents'[a] # None /\ a \notin revived'
                   => agents'[a].penalty = Points(flags'[a]))
  <1> DEFINE flagged(f) == IF f = None THEN {} ELSE {w \in {"creator", "owner"} : f[w] # {}}
             points(S) == CASE S = {} -> 0 [] Cardinality(S) = 1 -> 30 [] OTHER -> 50
  <1>1. \A f \in Flags \cup {None} : Points(f) = points(flagged(f))
    <2> TAKE f \in Flags \cup {None}
    <2>1. CASE f = None
      <3>1. flagged(f) = {}
        BY <2>1
      <3>2. Cardinality({}) = 0
        BY FS_EmptySet
      <3>3. points({}) = 0
        BY <3>2
      <3> QED
        BY <2>1, <3>1, <3>3 DEF Points
    <2>2. CASE f # None
      <3>1. compute_penalty(f) = points({w \in {"creator", "owner"} : f[w] # {}})
        BY <2>2, PenaltyPoints
      <3> QED
        BY <2>2, <3>1, Zenon DEF Points
    <2> QED
      BY <2>1, <2>2
  <1>2. PenaltyMatchesFlags <=> \A a \in Stored \ revived : agents[a].penalty = points(flagged(flags[a]))
    BY Zenon DEF PenaltyMatchesFlags
  <1>3. PenaltyMatchesFlags' <=> \A a \in Agent : agents'[a] # None /\ a \notin revived'
                                    => agents'[a].penalty = points(flagged(flags'[a]))
    BY Zenon DEF PenaltyMatchesFlags, Stored
  <1> HIDE DEF flagged, points
  <1>4. TypeOK => \A a \in Stored : flags[a] \in Flags \cup {None}
    BY DEF TypeOK, Stored
  <1>5. TypeOK' => \A a \in Agent : flags'[a] \in Flags \cup {None}
    BY DEF TypeOK
  <1> QED
    BY <1>1, <1>2, <1>3, <1>4, <1>5

\* Flags and penalties are written together; a row comes without flags or with
\* those of a former one, and then revived knows.
LEMMA PenaltyStep ==
    ASSUME TypeOK, TypeOK', PenaltyMatchesFlags, NoFormerFlags, [Next]_vars
    PROVE  PenaltyMatchesFlags' /\ NoFormerFlags'
  <1>0. /\ \A a \in Agent : agents[a] # None /\ a \notin revived => agents[a].penalty = Points(flags[a])
        /\ \A a \in Agent : agents[a] = None /\ a \notin revived => flags[a] = None
    BY PenaltyMeans DEF NoFormerFlags, Stored
  <1> SUFFICES ASSUME NEW a \in Agent, a \notin revived'
               PROVE  /\ agents'[a] # None => agents'[a].penalty = Points(flags'[a])
                      /\ agents'[a] = None => flags'[a] = None
    BY PenaltyMeans DEF NoFormerFlags, Stored
  <1>1. CASE UNCHANGED <<agents, flags, revived>>
    BY <1>0, <1>1
  <1>2. ASSUME NEW j \in Job, StoreFlags(j)
        PROVE  /\ agents'[a] # None => agents'[a].penalty = Points(flags'[a])
               /\ agents'[a] = None => flags'[a] = None
    <2> DEFINE found == job[j].found
    <2>1. \A b \in DOMAIN found : found[b] \in Flags
      BY <1>2, StoreShape
    <2>2. /\ agents'[a] = PenaltyAfter(a, found)
          /\ flags'[a] = IF a \in DOMAIN found THEN found[a] ELSE flags[a]
          /\ a \in DOMAIN found => agents[a] # None
          /\ a \notin DOMAIN found => a \notin revived
      BY <1>2 DEF StoreFlags, Stored
    <2> HIDE DEF found
    <2>3. /\ (agents'[a] # None) <=> (agents[a] # None)
          /\ agents[a] # None =>
               agents'[a].penalty = IF a \in DOMAIN found THEN compute_penalty(found[a])
                                    ELSE agents[a].penalty
      BY <2>1, <2>2, PenaltyTypes
    <2>4. a \in DOMAIN found => Points(found[a]) = compute_penalty(found[a])
      BY <2>1, NoneAssumption DEF Points
    <2> QED
      BY <1>0, <2>2, <2>3, <2>4
  <1>3. ASSUME NEW j \in Job, NEW batch, UpdateCategories(j, batch)
        PROVE  /\ agents'[a] # None => agents'[a].penalty = Points(flags'[a])
               /\ agents'[a] = None => flags'[a] = None
    BY <1>0, <1>3, UpdateShape DEF UpdateCategories
  <1>4. ASSUME NEW b \in Agent, NEW p \in Profile[b], SyncAgent(b, p)
        PROVE  /\ agents'[a] # None => agents'[a].penalty = Points(flags'[a])
               /\ agents'[a] = None => flags'[a] = None
    <2>1. flags' = flags /\ revived' = revived
      BY <1>4 DEF SyncAgent
    <2>2. CASE a # b
      <3>1. agents'[a] = agents[a]
        BY <1>4, <2>2 DEF SyncAgent, TypeOK
      <3> QED
        BY <1>0, <2>1, <3>1
    <2>3. CASE a = b
      <3>1. agents'[a] = [profile |-> p, category |-> Enriched(b, p),
                          penalty |-> IF agents[b] = None THEN 0 ELSE agents[b].penalty]
        BY <1>4, <2>3 DEF SyncAgent, TypeOK
      <3>2. agents'[a].penalty = IF agents[a] = None THEN 0 ELSE agents[a].penalty
        BY <2>3, <3>1
      <3>3. agents'[a] # None
        BY <2>3, <3>1, EnrichedTypes, RowFields
      <3> QED
        BY <1>0, <2>1, <3>2, <3>3 DEF Points
    <2> QED
      BY <2>2, <2>3
  <1>5. ASSUME CleanOrphans
        PROVE  /\ agents'[a] # None => agents'[a].penalty = Points(flags'[a])
               /\ agents'[a] = None => flags'[a] = None
    BY <1>0, <1>5 DEF CleanOrphans, Stored
  <1> QED
    BY <1>1, <1>2, <1>3, <1>4, <1>5
    DEF Next, vars, histVars, StartFlagged, StartRefresh, StartReclassify, FetchList, DeleteRows,
        InsertRows, InsertConflicts, ReadAgents, JobFails

-----------------------------------------------------------------------------
(* The mirror                                                              *)

\* Steps that leave the mirror and the replacements alone.
LEMMA MirrorRests ==
    ASSUME TypeOK, MirrorIsPublished, ReplacementInv,
           UNCHANGED <<mirror, overlapped>>,
           \A k \in Job : job'[k] = job[k] \/ job'[k].pc \notin {"delete", "insert"}
    PROVE  MirrorIsPublished' /\ ReplacementInv'
  <1>1. MirrorIsPublished'
    BY DEF MirrorIsPublished
  <1>2. ASSUME NEW j \in Job, job'[j].pc \in {"delete", "insert"}
        PROVE  /\ \E raw \in Published[SourceOf(j)'] : job'[j].list = Normalized(raw)
               /\ job'[j].alone => /\ job'[j].rows = mirror'[SourceOf(j)']
                                   /\ Replacing(SourceOf(j))' = {j}
    <2>1. job'[j] = job[j] /\ SourceOf(j)' = SourceOf(j)
      BY <1>2 DEF SourceOf
    <2>2. /\ \E raw \in Published[SourceOf(j)] : job[j].list = Normalized(raw)
          /\ job[j].alone => /\ job[j].rows = mirror[SourceOf(j)]
                             /\ Replacing(SourceOf(j)) = {j}
      BY <1>2, <2>1 DEF ReplacementInv
    <2>3. Replacing(SourceOf(j))' \subseteq Replacing(SourceOf(j)) /\ j \in Replacing(SourceOf(j))'
      BY <1>2, <2>1 DEF Replacing, SourceOf
    <2> QED
      BY <2>1, <2>2, <2>3
  <1> QED
    BY <1>1, <1>2 DEF ReplacementInv

LEMMA MirrorFetch ==
    ASSUME TypeOK, MirrorIsPublished, ReplacementInv, NEW j \in Job, NEW raw, FetchList(j, raw)
    PROVE  MirrorIsPublished' /\ ReplacementInv'
  <1> DEFINE s == SourceOf(j)
             x == [pc |-> "delete", kind |-> job[j].kind, at |-> job[j].at,
                   list |-> Normalized(raw), rows |-> mirror[s], alone |-> Replacing(s) = {}]
  <1>1. MirrorIsPublished'
    BY DEF MirrorIsPublished, FetchList, histVars
  <1>2. job' = [k \in Job |-> IF k = j THEN x
                              ELSE IF k \in Replacing(s) THEN [job[k] EXCEPT !.alone = FALSE]
                              ELSE job[k]]
    BY DEF FetchList
  <1>3. raw \in Published[s] /\ job[j].pc = "fetch" /\ mirror' = mirror
    BY DEF FetchList
  <1>4. /\ x.pc = "delete" /\ x.at = job[j].at /\ x.list = Normalized(raw)
        /\ x.rows = mirror[s] /\ x.alone = (Replacing(s) = {})
    OBVIOUS
  <1>5. SourceOf(j)' = s
    BY <1>2, <1>4 DEF SourceOf
  <1> HIDE DEF x, s
  <1>6. ASSUME NEW k \in Job, k # j
        PROVE  /\ job'[k].pc = job[k].pc
               /\ job[k].pc \in {"delete", "insert"} =>
                     /\ SourceOf(k)' = SourceOf(k)
                     /\ job'[k].list = job[k].list /\ job'[k].rows = job[k].rows
                     /\ SourceOf(k) = s => ~job'[k].alone
                     /\ SourceOf(k) # s => job'[k].alone = job[k].alone
    <2>1. job[k] \in Jobs
      BY DEF TypeOK, Jobs
    <2>2. CASE k \in Replacing(s)
      <3>1. job[k].pc \in {"delete", "insert"} /\ SourceOf(k) = s
        BY <2>2 DEF Replacing
      <3>2. job[k] \in Replacement
        BY <2>1, <3>1, JobFields
      <3>3. job'[k] = [job[k] EXCEPT !.alone = FALSE]
        BY <1>2, <1>6, <2>2
      <3>4. /\ job'[k].pc = job[k].pc /\ job'[k].at = job[k].at /\ job'[k].list = job[k].list
            /\ job'[k].rows = job[k].rows /\ job'[k].alone = FALSE
        BY <3>2, <3>3 DEF Replacement
      <3> QED
        BY <3>1, <3>4 DEF SourceOf
    <2>3. CASE k \notin Replacing(s)
      <3>1. job'[k] = job[k]
        BY <1>2, <1>6, <2>3
      <3> QED
        BY <2>3, <3>1 DEF Replacing, SourceOf
    <2> QED
      BY <2>2, <2>3
  <1>7. ASSUME NEW k \in Job, job'[k].pc \in {"delete", "insert"}
        PROVE  /\ \E r \in Published[SourceOf(k)'] : job'[k].list = Normalized(r)
               /\ job'[k].alone => /\ job'[k].rows = mirror'[SourceOf(k)']
                                   /\ Replacing(SourceOf(k))' = {k}
    <2>1. CASE k = j
      <3>1. job'[j] = x
        BY <1>2
      <3>2. ASSUME Replacing(s) = {}, NEW q \in Job, q # j,
                   job'[q].pc \in {"delete", "insert"}, SourceOf(q)' = s
            PROVE  FALSE
        BY <1>6, <3>2 DEF Replacing
      <3>3. x.alone => Replacing(SourceOf(j))' = {j}
        BY <1>4, <1>5, <3>1, <3>2 DEF Replacing
      <3> QED
        BY <1>3, <1>4, <1>5, <2>1, <3>1, <3>2, <3>3
    <2>2. CASE k # j
      <3>1. job[k].pc \in {"delete", "insert"} /\ SourceOf(k)' = SourceOf(k)
        BY <1>6, <1>7, <2>2
      <3>2. /\ \E r \in Published[SourceOf(k)] : job[k].list = Normalized(r)
            /\ job[k].alone => /\ job[k].rows = mirror[SourceOf(k)]
                               /\ Replacing(SourceOf(k)) = {k}
        BY <3>1 DEF ReplacementInv
      <3>3. job'[k].alone => SourceOf(k) # s /\ job[k].alone
        BY <1>6, <2>2, <3>1
      <3>4. SourceOf(k) # s => Replacing(SourceOf(k))' \subseteq Replacing(SourceOf(k))
        <4> SUFFICES ASSUME SourceOf(k) # s, NEW q \in Job, job'[q].pc \in {"delete", "insert"},
                            SourceOf(q)' = SourceOf(k)
                     PROVE  job[q].pc \in {"delete", "insert"} /\ SourceOf(q) = SourceOf(k)
          BY <3>1 DEF Replacing
        <4>1. q # j
          BY <1>5
        <4> QED
          BY <1>6, <4>1
      <3>5. k \in Replacing(SourceOf(k))'
        BY <1>7 DEF Replacing
      <3> QED
        BY <1>3, <1>6, <2>2, <3>1, <3>2, <3>3, <3>4, <3>5
    <2> QED
      BY <2>1, <2>2
  <1> QED
    BY <1>1, <1>7 DEF ReplacementInv

LEMMA MirrorDelete ==
    ASSUME TypeOK, MirrorIsPublished, ReplacementInv, NEW j \in Job, DeleteRows(j)
    PROVE  MirrorIsPublished' /\ ReplacementInv'
  <1>1. MirrorIsPublished'
    BY DEF MirrorIsPublished, DeleteRows, histVars
  <1>2. job[j] \in Replacement /\ job[j].pc = "delete" /\ mirror' = mirror
    BY JobFields DEF TypeOK, DeleteRows, Jobs
  <1>3. ASSUME NEW k \in Job
        PROVE  /\ job'[k].pc \in {"delete", "insert"} <=> job[k].pc \in {"delete", "insert"}
               /\ SourceOf(k)' = SourceOf(k)
               /\ job[k].pc \in {"delete", "insert"} =>
                     job'[k].list = job[k].list /\ job'[k].rows = job[k].rows
                       /\ job'[k].alone = job[k].alone
    <2>1. job' = [job EXCEPT ![j] = [job[j] EXCEPT !.pc = "insert"]]
      BY DEF DeleteRows
    <2>2. CASE k = j
      <3>1. job'[k] = [job[j] EXCEPT !.pc = "insert"]
        BY <2>1, <2>2 DEF TypeOK
      <3>2. /\ job'[k].pc = "insert" /\ job'[k].at = job[k].at /\ job'[k].list = job[k].list
            /\ job'[k].rows = job[k].rows /\ job'[k].alone = job[k].alone
        BY <1>2, <2>2, <3>1 DEF Replacement
      <3> QED
        BY <1>2, <2>2, <3>2 DEF SourceOf
    <2>3. CASE k # j
      BY <2>1, <2>3 DEF SourceOf, TypeOK
    <2> QED
      BY <2>2, <2>3
  <1>4. ASSUME NEW k \in Job, job'[k].pc \in {"delete", "insert"}
        PROVE  /\ \E r \in Published[SourceOf(k)'] : job'[k].list = Normalized(r)
               /\ job'[k].alone => /\ job'[k].rows = mirror'[SourceOf(k)']
                                   /\ Replacing(SourceOf(k))' = {k}
    <2>1. Replacing(SourceOf(k))' = Replacing(SourceOf(k))
      BY <1>3 DEF Replacing
    <2> QED
      BY <1>2, <1>3, <1>4, <2>1 DEF ReplacementInv
  <1> QED
    BY <1>1, <1>4 DEF ReplacementInv

\* A replacement that is alone leaves exactly its list; any other source keeps
\* what it has.
LEMMA MirrorInsert ==
    ASSUME TypeOK, MirrorIsPublished, ReplacementInv, NEW j \in Job, InsertRows(j)
    PROVE  MirrorIsPublished' /\ ReplacementInv'
  <1> DEFINE s == SourceOf(j)
  <1>1. /\ job[j].pc = "insert" /\ s \in Source
        /\ mirror' = [mirror EXCEPT ![s] = Replaced(j)]
        /\ overlapped' = IF job[j].alone THEN overlapped \ {s} ELSE overlapped \cup {s}
    BY InsertShape DEF InsertRows
  <1>2. /\ \E raw \in Published[s] : job[j].list = Normalized(raw)
        /\ job[j].alone => job[j].rows = mirror[s] /\ Replacing(s) = {j}
    BY <1>1 DEF ReplacementInv
  <1>3. mirror \in [Source -> SUBSET Address]
    BY DEF TypeOK
  <1>4. MirrorIsPublished'
    <2> SUFFICES ASSUME NEW t \in Source, t \notin overlapped'
                 PROVE  mirror'[t] = {} \/ \E raw \in Published[t] : mirror'[t] = Normalized(raw)
      BY Zenon DEF MirrorIsPublished, Normalized
    <2>1. CASE t = s
      <3>1. job[j].alone
        BY <1>1, <2>1
      <3>2. Replaced(j) = job[j].list
        BY <1>2, <3>1 DEF Replaced
      <3>3. mirror'[t] = job[j].list
        BY <1>1, <1>3, <2>1, <3>2
      <3> QED
        BY <1>2, <2>1, <3>3
    <2>2. CASE t # s
      <3>1. mirror'[t] = mirror[t] /\ t \notin overlapped
        BY <1>1, <1>3, <2>2
      <3> QED
        BY <3>1, Zenon DEF MirrorIsPublished, Normalized
    <2> QED
      BY <2>1, <2>2
  <1>5. ASSUME NEW k \in Job
        PROVE  /\ job'[k].pc = AfterInsert(j)[k].pc
               /\ job'[k].pc \in {"delete", "insert"} => job'[k] = AfterInsert(j)[k]
    <2>1. AfterInsert(j) \in [Job -> Jobs]
      BY InsertShape
    <2>2. CASE mirror' = mirror
      BY <2>2, InsertShape
    <2>3. CASE mirror' # mirror
      <3>1. job' = Overtake(AfterInsert(j), Agent)
        BY <2>3, InsertShape
      <3>2. /\ Overtake(AfterInsert(j), Agent)[k].pc = AfterInsert(j)[k].pc
            /\ AfterInsert(j)[k].pc \notin {"store", "classify"} =>
                 Overtake(AfterInsert(j), Agent)[k] = AfterInsert(j)[k]
        BY <2>1, Overtaking
      <3> QED
        BY <3>1, <3>2
    <2> QED
      BY <2>2, <2>3
  <1>6. \A k \in Job : job'[k].pc \in {"delete", "insert"} =>
            /\ k # j /\ job[k].pc \in {"delete", "insert"}
            /\ job'[k].list = job[k].list /\ job'[k].alone = job[k].alone
            /\ SourceOf(k)' = SourceOf(k)
            /\ SourceOf(k) # s => job'[k] = job[k]
    <2> TAKE k \in Job
    <2> HAVE job'[k].pc \in {"delete", "insert"}
    <2>1. AfterInsert(j)[k] = job'[k] /\ AfterInsert(j)[k].pc \in {"delete", "insert"}
      BY <1>5
    <2>2. k # j
      BY <2>1, InsertShape
    <2>3. /\ job[k].pc \in {"delete", "insert"}
          /\ job'[k].list = job[k].list /\ job'[k].alone = job[k].alone
          /\ job'[k].at = job[k].at
          /\ SourceOf(k) # s => job'[k] = job[k]
      BY <2>1, <2>2, InsertShape
    <2> QED
      BY <2>2, <2>3 DEF SourceOf
  <1> HIDE DEF s
  <1>7. ASSUME NEW k \in Job, job'[k].pc \in {"delete", "insert"}
        PROVE  /\ \E r \in Published[SourceOf(k)'] : job'[k].list = Normalized(r)
               /\ job'[k].alone => /\ job'[k].rows = mirror'[SourceOf(k)']
                                   /\ Replacing(SourceOf(k))' = {k}
    <2>1. /\ k # j /\ job[k].pc \in {"delete", "insert"}
          /\ job'[k].list = job[k].list /\ job'[k].alone = job[k].alone
          /\ SourceOf(k)' = SourceOf(k)
          /\ SourceOf(k) # s => job'[k] = job[k]
      BY <1>6, <1>7
    <2>2. /\ \E r \in Published[SourceOf(k)] : job[k].list = Normalized(r)
          /\ job[k].alone => /\ job[k].rows = mirror[SourceOf(k)]
                             /\ Replacing(SourceOf(k)) = {k}
      BY <2>1 DEF ReplacementInv
    <2>3. job'[k].alone => SourceOf(k) # s
      BY <1>1, <2>1, <2>2 DEF Replacing, s
    <2>4. SourceOf(k) # s => mirror'[SourceOf(k)] = mirror[SourceOf(k)]
      BY <1>1, <1>3
    <2>5. Replacing(SourceOf(k))' \subseteq Replacing(SourceOf(k))
      BY <1>6, <2>1 DEF Replacing
    <2>6. k \in Replacing(SourceOf(k))'
      BY <1>7 DEF Replacing
    <2> QED
      BY <2>1, <2>2, <2>3, <2>4, <2>5, <2>6
  <1> QED
    BY <1>4, <1>7 DEF ReplacementInv

LEMMA MirrorStep ==
    ASSUME TypeOK, MirrorIsPublished, ReplacementInv, [Next]_vars
    PROVE  MirrorIsPublished' /\ ReplacementInv'
  <1>0. job \in [Job -> Jobs]
    BY DEF TypeOK, Jobs
  <1>1. ASSUME NEW j \in Job, NEW x, job' = [job EXCEPT ![j] = x],
               x.pc \notin {"delete", "insert"}, UNCHANGED <<mirror, overlapped>>
        PROVE  MirrorIsPublished' /\ ReplacementInv'
    <2>1. \A k \in Job : job'[k] = job[k] \/ job'[k].pc \notin {"delete", "insert"}
      BY <1>0, <1>1
    <2> QED
      BY <1>1, <2>1, MirrorRests
  <1>2. ASSUME NEW j \in Job,
               \/ StartFlagged(j) \/ StartRefresh(j) \/ StartReclassify(j)
               \/ InsertConflicts(j) \/ ReadAgents(j) \/ StoreFlags(j) \/ JobFails(j)
        PROVE  MirrorIsPublished' /\ ReplacementInv'
    <2>1. CASE StartFlagged(j) \/ StartRefresh(j)
      BY <1>1, <2>1 DEF StartFlagged, StartRefresh, histVars
    <2>2. CASE InsertConflicts(j) \/ StoreFlags(j) \/ JobFails(j)
      BY <1>1, <2>2 DEF InsertConflicts, StoreFlags, JobFails, histVars, IdleJob
    <2>3. CASE StartReclassify(j)
      BY <1>1, <2>3 DEF StartReclassify, histVars
    <2>4. CASE ReadAgents(j)
      BY <1>1, <2>4 DEF ReadAgents, histVars
    <2> QED
      BY <1>2, <2>1, <2>2, <2>3, <2>4
  <1>3. ASSUME NEW j \in Job, NEW batch, UpdateCategories(j, batch)
        PROVE  MirrorIsPublished' /\ ReplacementInv'
    <2>1. \A k \in Job : job'[k] = job[k] \/ job'[k].pc \notin {"delete", "insert"}
      BY <1>3, UpdateShape
    <2> QED
      BY <1>3, <2>1, MirrorRests DEF UpdateCategories
  <1>4. ASSUME NEW a \in Agent, NEW p \in Profile[a], SyncAgent(a, p)
        PROVE  MirrorIsPublished' /\ ReplacementInv'
    <2>1. \A k \in Job : job'[k] = job[k] \/ job'[k].pc \notin {"delete", "insert"}
      BY <1>0, <1>4, Overtaking DEF SyncAgent
    <2> QED
      BY <1>4, <2>1, MirrorRests DEF SyncAgent
  <1>5. CASE CleanOrphans \/ UNCHANGED vars
    BY <1>5, MirrorRests DEF CleanOrphans, vars, histVars
  <1> QED
    BY <1>2, <1>3, <1>4, <1>5, MirrorFetch, MirrorDelete, MirrorInsert DEF Next

-----------------------------------------------------------------------------
(* Flags and categories                                                    *)

\* Request k has just read the agents.
Reads(k) == ReadAgents(k) \/ StartReclassify(k)

\* A request with something to write has read it just now or before; then it
\* has missed what changed since.
LEMMA JobsMove ==
    ASSUME TypeOK, [Next]_vars, NEW k \in Job, job'[k].pc \in {"store", "classify"}, ~Reads(k)
    PROVE  /\ job'[k].pc = job[k].pc
           /\ job[k].missed \subseteq job'[k].missed
           /\ \A a \in Agent : \A p \in Profile[a] : SyncAgent(a, p) => a \in job'[k].missed
           /\ mirror' # mirror => Agent \subseteq job'[k].missed
           /\ job[k].pc = "store" => job'[k].found = job[k].found
           /\ job[k].pc = "classify" =>
                 /\ DOMAIN job'[k].todo \subseteq DOMAIN job[k].todo
                 /\ \A a \in DOMAIN job'[k].todo : job'[k].todo[a] = job[k].todo[a]
  <1>0. job \in [Job -> Jobs]
    BY DEF TypeOK, Jobs
  <1> DEFINE Kept == /\ job'[k].pc = job[k].pc
                     /\ job[k].missed \subseteq job'[k].missed
                     /\ job[k].pc = "store" => job'[k].found = job[k].found
                     /\ job[k].pc = "classify" =>
                           /\ DOMAIN job'[k].todo \subseteq DOMAIN job[k].todo
                           /\ \A a \in DOMAIN job'[k].todo : job'[k].todo[a] = job[k].todo[a]
  <1>1. ASSUME job'[k] = job[k]
        PROVE  Kept
    BY <1>1
  <1>2. ASSUME NEW jobs \in [Job -> Jobs], NEW c \in SUBSET Agent, job' = Overtake(jobs, c),
               jobs[k].pc \in {"store", "classify"} => jobs[k] = job[k]
        PROVE  Kept /\ c \subseteq job'[k].missed
    <2>1. /\ jobs[k].pc = job'[k].pc
          /\ jobs[k].pc = "store" => /\ job'[k].found = jobs[k].found
                                     /\ job'[k].missed = jobs[k].missed \cup c
          /\ jobs[k].pc = "classify" => /\ job'[k].todo = jobs[k].todo
                                        /\ job'[k].missed = jobs[k].missed \cup c
      BY <1>2, Overtaking
    <2> QED
      BY <1>2, <2>1
  <1>3. ASSUME NEW j \in Job, NEW x, job' = [job EXCEPT ![j] = x],
               x.pc \notin {"store", "classify"}
        PROVE  Kept
    <2>1. job'[k] = job[k]
      BY <1>0, <1>3
    <2> QED
      BY <1>1, <2>1
  <1>4. ASSUME NEW j \in Job, StartFlagged(j) \/ StartRefresh(j)
        PROVE  Kept /\ mirror' = mirror
    BY <1>3, <1>4 DEF StartFlagged, StartRefresh
  <1>5. ASSUME NEW j \in Job, InsertConflicts(j) \/ StoreFlags(j) \/ JobFails(j)
        PROVE  Kept /\ mirror' = mirror
    BY <1>3, <1>5 DEF InsertConflicts, StoreFlags, JobFails, IdleJob
  <1>6. ASSUME NEW j \in Job, Reads(j)
        PROVE  Kept /\ mirror' = mirror
    <2>1. j # k
      BY <1>6
    <2>2. job'[k] = job[k] /\ mirror' = mirror
      BY <1>0, <1>6, <2>1 DEF Reads, ReadAgents, StartReclassify
    <2> QED
      BY <1>1, <2>2
  <1>7. ASSUME NEW j \in Job, NEW raw, FetchList(j, raw)
        PROVE  Kept /\ mirror' = mirror
    <2> DEFINE x == [pc |-> "delete", kind |-> job[j].kind, at |-> job[j].at,
                     list |-> Normalized(raw), rows |-> mirror[SourceOf(j)],
                     alone |-> Replacing(SourceOf(j)) = {}]
    <2>1. mirror' = mirror
          /\ job'[k] = IF k = j THEN x
                       ELSE IF k \in Replacing(SourceOf(j)) THEN [job[k] EXCEPT !.alone = FALSE]
                       ELSE job[k]
      BY <1>7 DEF FetchList
    <2>2. k # j
      BY <2>1
    <2>3. k \notin Replacing(SourceOf(j))
      <3> SUFFICES ASSUME k \in Replacing(SourceOf(j))
                   PROVE  FALSE
        OBVIOUS
      <3>1. job[k] \in Replacement
        BY <1>0, JobFields DEF Replacing
      <3>2. job'[k] = [job[k] EXCEPT !.alone = FALSE]
        BY <2>1, <2>2
      <3>3. job'[k].pc = job[k].pc
        BY <3>1, <3>2 DEF Replacement
      <3> QED
        BY <3>3 DEF Replacing
    <2> QED
      BY <1>1, <2>1, <2>2, <2>3
  <1>8. ASSUME NEW j \in Job, DeleteRows(j)
        PROVE  Kept /\ mirror' = mirror
    <2>1. job' = [job EXCEPT ![j] = [job[j] EXCEPT !.pc = "insert"]] /\ mirror' = mirror
      BY <1>8 DEF DeleteRows
    <2>2. job[j] \in Replacement
      BY <1>0, <1>8, JobFields DEF DeleteRows
    <2>3. [job[j] EXCEPT !.pc = "insert"].pc = "insert"
      BY <2>2 DEF Replacement
    <2> QED
      BY <1>3, <2>1, <2>3
  <1>9. ASSUME NEW j \in Job, InsertRows(j)
        PROVE  Kept /\ (mirror' # mirror => Agent \subseteq job'[k].missed)
    <2>1. /\ AfterInsert(j) \in [Job -> Jobs]
          /\ AfterInsert(j)[k].pc \in {"store", "classify"} => AfterInsert(j)[k] = job[k]
          /\ job' = IF mirror' = mirror THEN AfterInsert(j) ELSE Overtake(AfterInsert(j), Agent)
      BY <1>9, InsertShape
    <2>2. CASE mirror' = mirror
      BY <1>1, <2>1, <2>2
    <2>3. CASE mirror' # mirror
      BY <1>2, <2>1, <2>3
    <2> QED
      BY <2>2, <2>3
  <1>10. ASSUME NEW j \in Job, NEW batch, UpdateCategories(j, batch)
         PROVE  Kept /\ mirror' = mirror
    <2>1. mirror' = mirror
      BY <1>10 DEF UpdateCategories
    <2>2. CASE k # j
      BY <1>1, <1>10, <2>1, <2>2, UpdateShape
    <2>3. CASE k = j
      BY <1>10, <2>1, <2>3, UpdateShape
    <2> QED
      BY <2>2, <2>3
  <1>11. ASSUME NEW a \in Agent, NEW p \in Profile[a], SyncAgent(a, p)
         PROVE  Kept /\ mirror' = mirror /\ a \in job'[k].missed
    <2>1. job' = Overtake(job, {a}) /\ mirror' = mirror
      BY <1>11 DEF SyncAgent
    <2> QED
      BY <1>0, <1>2, <2>1
  <1>12. ASSUME CleanOrphans \/ UNCHANGED vars
         PROVE  Kept /\ mirror' = mirror
    <2>1. job'[k] = job[k] /\ mirror' = mirror
      BY <1>12 DEF CleanOrphans, vars
    <2> QED
      BY <1>1, <2>1
  <1> HIDE DEF Kept
  <1>13. Kept /\ (mirror' # mirror => Agent \subseteq job'[k].missed)
    BY <1>4, <1>5, <1>6, <1>7, <1>8, <1>9, <1>10, <1>11, <1>12 DEF Next, Reads
  <1>14. \A a \in Agent : \A p \in Profile[a] : SyncAgent(a, p) => a \in job'[k].missed
    BY <1>11
  <1> QED
    BY <1>13, <1>14 DEF Kept

\* A row that is there was there with the same profile, or the sync has just
\* written it.
LEMMA RowsMove ==
    ASSUME TypeOK, [Next]_vars, NEW a \in Agent, agents'[a] # None
    PROVE  \/ \E p \in Profile[a] : SyncAgent(a, p)
           \/ agents[a] # None /\ agents'[a].profile = agents[a].profile
  <1>1. ASSUME NEW j \in Job, StoreFlags(j)
        PROVE  agents[a] # None /\ agents'[a].profile = agents[a].profile
    <2>1. agents'[a] = PenaltyAfter(a, job[j].found)
      BY <1>1 DEF StoreFlags
    <2> QED
      BY <1>1, <2>1, StoreShape, PenaltyTypes
  <1>2. ASSUME NEW j \in Job, NEW batch, UpdateCategories(j, batch)
        PROVE  agents[a] # None /\ agents'[a].profile = agents[a].profile
    BY <1>2, UpdateShape
  <1>3. ASSUME NEW b \in Agent, NEW p \in Profile[b], SyncAgent(b, p), a # b
        PROVE  agents[a] # None /\ agents'[a].profile = agents[a].profile
    BY <1>3 DEF SyncAgent, TypeOK
  <1>4. CASE CleanOrphans
    BY <1>4 DEF CleanOrphans
  <1>5. CASE UNCHANGED agents
    BY <1>5
  <1> QED
    BY <1>1, <1>2, <1>3, <1>4, <1>5
    DEF Next, vars, StartFlagged, StartRefresh, StartReclassify, FetchList, DeleteRows,
        InsertRows, InsertConflicts, ReadAgents, JobFails

\* What was found or computed stays true of the agents that were not missed.
LEMMA FoundStep ==
    ASSUME TypeOK, FoundInv, TodoInv, [Next]_vars
    PROVE  FoundInv' /\ TodoInv'
  <1>1. ASSUME NEW k \in Job, job'[k].pc = "store", NEW a \in DOMAIN job'[k].found,
               a \in Agent, agents'[a] # None, a \notin job'[k].missed
        PROVE  job'[k].found[a] = [creator |-> Listing(agents'[a].profile.creator, mirror'),
                                   owner |-> Listing(agents'[a].profile.owner, mirror')]
    <2>1. CASE Reads(k)
      <3>1. ReadAgents(k)
        BY <1>1, <2>1 DEF Reads, StartReclassify, TypeOK
      <3>2. /\ agents' = agents /\ mirror' = mirror
            /\ job'[k].found = [b \in Stored |->
                   [creator |-> Listing(agents[b].profile.creator, mirror),
                    owner |-> Listing(agents[b].profile.owner, mirror)]]
        BY <3>1 DEF ReadAgents, TypeOK
      <3> QED
        BY <1>1, <3>2
    <2>2. CASE ~Reads(k)
      <3>1. /\ job[k].pc = "store" /\ job[k].missed \subseteq job'[k].missed
            /\ \A p \in Profile[a] : ~SyncAgent(a, p)
            /\ mirror' = mirror /\ job'[k].found = job[k].found
        BY <1>1, <2>2, JobsMove
      <3>2. agents[a] # None /\ agents'[a].profile = agents[a].profile
        BY <1>1, <3>1, RowsMove
      <3>3. job[k].found[a] = [creator |-> Listing(agents[a].profile.creator, mirror),
                               owner |-> Listing(agents[a].profile.owner, mirror)]
        BY <1>1, <3>1, <3>2 DEF FoundInv, Stored
      <3> QED
        BY <3>1, <3>2, <3>3
    <2> QED
      BY <2>1, <2>2
  <1>2. ASSUME NEW k \in Job, job'[k].pc = "classify", NEW a \in DOMAIN job'[k].todo,
               a \in Agent, agents'[a] # None, a \notin job'[k].missed
        PROVE  job'[k].todo[a] = Class(agents'[a].profile.signals)
    <2>1. CASE Reads(k)
      <3>1. StartReclassify(k)
        BY <1>2, <2>1 DEF Reads, ReadAgents, TypeOK
      <3>2. agents' = agents
            /\ job'[k].todo = [b \in Outdated |-> Class(agents[b].profile.signals)]
        BY <3>1 DEF StartReclassify, TypeOK
      <3> QED
        BY <1>2, <3>2
    <2>2. CASE ~Reads(k)
      <3>1. /\ job[k].pc = "classify" /\ job[k].missed \subseteq job'[k].missed
            /\ \A p \in Profile[a] : ~SyncAgent(a, p)
            /\ DOMAIN job'[k].todo \subseteq DOMAIN job[k].todo
            /\ job'[k].todo[a] = job[k].todo[a]
        BY <1>2, <2>2, JobsMove
      <3>2. agents[a] # None /\ agents'[a].profile = agents[a].profile
        BY <1>2, <3>1, RowsMove
      <3>3. job[k].todo[a] = Class(agents[a].profile.signals)
        BY <1>2, <3>1, <3>2 DEF TodoInv, Stored
      <3> QED
        BY <3>1, <3>2, <3>3
    <2> QED
      BY <2>1, <2>2
  <1>3. FoundInv'
    BY <1>1 DEF FoundInv, Stored
  <1>4. TodoInv'
    BY <1>2 DEF TodoInv, Stored
  <1> QED
    BY <1>3, <1>4

\* FlagsAreCurrent, with the listings in place of their definition.
LEMMA FlagsForm ==
    /\ TypeOK =>
         (FlagsAreCurrent
            <=> \A a \in Agent : agents[a] # None /\ a \notin touched \cup revived =>
                   flags[a] = Found(agents[a].profile, mirror))
    /\ TypeOK' =>
         (FlagsAreCurrent'
            <=> \A a \in Agent : agents'[a] # None /\ a \notin touched' \cup revived' =>
                   flags'[a] = Found(agents'[a].profile, mirror'))
  <1>1. FlagsAreCurrent <=> \A a \in Agent : agents[a] # None /\ a \notin touched \cup revived =>
                                Shows(flags[a], agents[a].profile, mirror)
    BY Zenon DEF FlagsAreCurrent, Stored, Shows
  <1>2. FlagsAreCurrent' <=> \A a \in Agent : agents'[a] # None /\ a \notin touched' \cup revived' =>
                                 Shows(flags'[a], agents'[a].profile, mirror')
    BY Zenon DEF FlagsAreCurrent, Stored, Shows
  <1>3. TypeOK => \A a \in Agent : agents[a] # None =>
                     (Shows(flags[a], agents[a].profile, mirror)
                        <=> flags[a] = Found(agents[a].profile, mirror))
    BY FlagsMean DEF TypeOK
  <1>4. TypeOK' => \A a \in Agent : agents'[a] # None =>
                     (Shows(flags'[a], agents'[a].profile, mirror')
                        <=> flags'[a] = Found(agents'[a].profile, mirror'))
    BY FlagsMean DEF TypeOK
  <1> QED
    BY <1>1, <1>2, <1>3, <1>4

\* A refresh stores what is true of the agents it has not missed; what changes
\* the lists or the wallets of an agent touches it.
LEMMA FlagsStep ==
    ASSUME TypeOK, TypeOK', FlagsAreCurrent, FoundInv, [Next]_vars
    PROVE  FlagsAreCurrent'
  <1>0. \A a \in Agent : agents[a] # None /\ a \notin touched \cup revived =>
            flags[a] = Found(agents[a].profile, mirror)
    BY FlagsForm
  <1> SUFFICES ASSUME NEW a \in Agent, agents'[a] # None, a \notin touched', a \notin revived'
               PROVE  flags'[a] = Found(agents'[a].profile, mirror')
    BY FlagsForm
  <1>1. CASE UNCHANGED <<agents, flags, mirror, touched, revived>>
    BY <1>0, <1>1
  <1>2. ASSUME NEW j \in Job, InsertRows(j)
        PROVE  flags'[a] = Found(agents'[a].profile, mirror')
    <2>1. mirror' = mirror /\ UNCHANGED <<agents, flags, touched, revived>>
      BY <1>2 DEF InsertRows
    <2> QED
      BY <1>1, <2>1
  <1>3. ASSUME NEW j \in Job, StoreFlags(j)
        PROVE  flags'[a] = Found(agents'[a].profile, mirror')
    <2> DEFINE found == job[j].found
    <2>1. /\ agents'[a] = PenaltyAfter(a, found) /\ mirror' = mirror
          /\ flags'[a] = IF a \in DOMAIN found THEN found[a] ELSE flags[a]
      BY <1>3 DEF StoreFlags
    <2>2. \A b \in DOMAIN found : found[b] \in Flags
      BY <1>3, StoreShape
    <2>3. agents[a] # None /\ agents'[a].profile = agents[a].profile
      BY <2>1, <2>2, PenaltyTypes
    <2>4. CASE a \in DOMAIN found
      <3>1. a \notin job[j].missed
        BY <1>3 DEF StoreFlags
      <3>2. found[a] = Found(agents[a].profile, mirror)
        BY <1>3, <2>3, <2>4, <3>1 DEF FoundInv, Stored, StoreFlags, Found
      <3> QED
        BY <2>1, <2>3, <2>4, <3>2
    <2>5. CASE a \notin DOMAIN found
      <3>1. a \notin touched /\ a \notin revived
        BY <1>3, <2>5 DEF StoreFlags
      <3> QED
        BY <1>0, <2>1, <2>3, <2>5, <3>1
    <2> QED
      BY <2>4, <2>5
  <1>4. ASSUME NEW j \in Job, NEW batch, UpdateCategories(j, batch)
        PROVE  flags'[a] = Found(agents'[a].profile, mirror')
    <2>1. agents[a] # None /\ agents'[a].profile = agents[a].profile
      BY <1>4, UpdateShape
    <2> QED
      BY <1>0, <1>4, <2>1 DEF UpdateCategories
  <1>5. ASSUME NEW b \in Agent, NEW p \in Profile[b], SyncAgent(b, p)
        PROVE  flags'[a] = Found(agents'[a].profile, mirror')
    <2>1. flags' = flags /\ mirror' = mirror /\ revived' = revived
          /\ touched' = IF SameWallets(b, p) THEN touched ELSE touched \cup {b}
      BY <1>5 DEF SyncAgent
    <2>2. CASE a # b
      <3>1. agents'[a] = agents[a]
        BY <1>5, <2>2 DEF SyncAgent, TypeOK
      <3> QED
        BY <1>0, <2>1, <3>1
    <2>3. CASE a = b
      <3>1. SameWallets(a, p) /\ a \notin touched
        BY <2>1, <2>3
      <3>2. agents'[a].profile = p
        BY <1>5, <2>3 DEF SyncAgent, TypeOK
      <3> QED
        BY <1>0, <2>1, <3>1, <3>2 DEF SameWallets, Found
    <2> QED
      BY <2>2, <2>3
  <1>6. CASE CleanOrphans
    BY <1>0, <1>6 DEF CleanOrphans
  <1> QED
    BY <1>1, <1>2, <1>3, <1>4, <1>5, <1>6
    DEF Next, vars, histVars, StartFlagged, StartRefresh, StartReclassify, FetchList, DeleteRows,
        InsertConflicts, ReadAgents, JobFails

LEMMA CategoryStep ==
    ASSUME TypeOK, CategoryFollowsSignals, TodoInv, [Next]_vars
    PROVE  CategoryFollowsSignals'
  <1>0. \A a \in Agent : agents[a] # None /\ a \notin unsorted =>
            agents[a].category = Class(agents[a].profile.signals)
    BY DEF CategoryFollowsSignals, Stored
  <1> SUFFICES ASSUME NEW a \in Agent, agents'[a] # None, a \notin unsorted'
               PROVE  agents'[a].category = Class(agents'[a].profile.signals)
    BY DEF CategoryFollowsSignals, Stored
  <1>1. CASE UNCHANGED <<agents, unsorted>>
    BY <1>0, <1>1
  <1>2. ASSUME NEW j \in Job, StoreFlags(j)
        PROVE  agents'[a].category = Class(agents'[a].profile.signals)
    <2>1. agents'[a] = PenaltyAfter(a, job[j].found) /\ unsorted' = unsorted
      BY <1>2 DEF StoreFlags
    <2>2. /\ agents[a] # None /\ agents'[a].profile = agents[a].profile
          /\ agents'[a].category = agents[a].category
      BY <1>2, <2>1, StoreShape, PenaltyTypes
    <2> QED
      BY <1>0, <2>1, <2>2
  <1>3. ASSUME NEW j \in Job, NEW batch, UpdateCategories(j, batch)
        PROVE  agents'[a].category = Class(agents'[a].profile.signals)
    <2>1. /\ job[j].pc = "classify" /\ batch \subseteq DOMAIN job[j].todo
          /\ agents[a] # None /\ agents'[a].profile = agents[a].profile
          /\ agents'[a].category = IF a \in batch THEN job[j].todo[a] ELSE agents[a].category
      BY <1>3, UpdateShape
    <2>2. unsorted' = (unsorted \ batch) \cup (batch \cap job[j].missed)
      BY <1>3 DEF UpdateCategories
    <2>3. CASE a \in batch
      <3>1. job[j].todo[a] = Class(agents[a].profile.signals)
        BY <2>1, <2>2, <2>3 DEF TodoInv, Stored
      <3> QED
        BY <2>1, <2>3, <3>1
    <2>4. CASE a \notin batch
      BY <1>0, <2>1, <2>2, <2>4
    <2> QED
      BY <2>3, <2>4
  <1>4. ASSUME NEW b \in Agent, NEW p \in Profile[b], SyncAgent(b, p)
        PROVE  agents'[a].category = Class(agents'[a].profile.signals)
    <2>1. unsorted' = IF Class(p.signals) \in NotEnriched THEN unsorted \cup {b}
                      ELSE unsorted \ {b}
      BY <1>4 DEF SyncAgent
    <2>2. CASE a # b
      <3>1. agents'[a] = agents[a]
        BY <1>4, <2>2 DEF SyncAgent, TypeOK
      <3> QED
        BY <1>0, <2>1, <2>2, <3>1
    <2>3. CASE a = b
      <3>1. Class(p.signals) \notin NotEnriched
        BY <2>1, <2>3
      <3>2. agents'[a].profile = p /\ agents'[a].category = Enriched(a, p)
        BY <1>4, <2>3 DEF SyncAgent, TypeOK
      <3> QED
        BY <2>3, <3>1, <3>2, EnrichedTypes
    <2> QED
      BY <2>2, <2>3
  <1>5. CASE CleanOrphans
    BY <1>0, <1>5 DEF CleanOrphans
  <1> QED
    BY <1>1, <1>2, <1>3, <1>4, <1>5
    DEF Next, vars, histVars, StartFlagged, StartRefresh, StartReclassify, FetchList, DeleteRows,
        InsertRows, InsertConflicts, ReadAgents, JobFails

-----------------------------------------------------------------------------
(* The theorems                                                            *)

LEMMA InitInv == Init => IInv
  <1> SUFFICES ASSUME Init
               PROVE  IInv
    OBVIOUS
  <1>1. Stored = {} /\ \A j \in Job : job[j].pc = "idle"
    BY DEF Init, Stored, IdleJob
  <1>2. PenaltyMatchesFlags /\ FlagsAreCurrent /\ CategoryFollowsSignals
    BY <1>1 DEF PenaltyMatchesFlags, FlagsAreCurrent, CategoryFollowsSignals
  <1>3. NoFormerFlags /\ ReplacementInv /\ FoundInv /\ TodoInv
    BY <1>1 DEF Init, NoFormerFlags, ReplacementInv, FoundInv, TodoInv
  <1>4. MirrorIsPublished
    BY DEF Init, MirrorIsPublished
  <1> QED
    BY <1>2, <1>3, <1>4, InitType DEF IInv

LEMMA NextInv == IInv /\ [Next]_vars => IInv'
  <1> SUFFICES ASSUME IInv, [Next]_vars
               PROVE  IInv'
    OBVIOUS
  <1>1. TypeOK'
    BY TypeStep DEF IInv
  <1>2. PenaltyMatchesFlags' /\ NoFormerFlags'
    BY <1>1, PenaltyStep DEF IInv
  <1>3. MirrorIsPublished' /\ ReplacementInv'
    BY MirrorStep DEF IInv
  <1>4. FoundInv' /\ TodoInv'
    BY FoundStep DEF IInv
  <1>5. FlagsAreCurrent'
    BY <1>1, FlagsStep DEF IInv
  <1>6. CategoryFollowsSignals'
    BY CategoryStep DEF IInv
  <1> QED
    BY <1>1, <1>2, <1>3, <1>4, <1>5, <1>6 DEF IInv

\* However mirror refreshes, compliance refreshes, reclassifications, the sync
\* and the clean-up interleave and fail, what they read and write fits together.
THEOREM Invariance == Spec => []IInv
  BY InitInv, NextInv, PTL DEF Spec

\* The penalty of an agent is that of its flags in every committed state.
THEOREM PenaltiesMatch == Spec => []PenaltyMatchesFlags
  <1>1. IInv => PenaltyMatchesFlags
    BY DEF IInv
  <1> QED
    BY <1>1, Invariance, PTL

\* A source whose replacements do not overlap holds a list that was published.
THEOREM MirrorsArePublished == Spec => []MirrorIsPublished
  <1>1. IInv => MirrorIsPublished
    BY DEF IInv
  <1> QED
    BY <1>1, Invariance, PTL

\* Flags are what the lists say of an agent that nothing touched since.
THEOREM FlagsStayCurrent == Spec => []FlagsAreCurrent
  <1>1. IInv => FlagsAreCurrent
    BY DEF IInv
  <1> QED
    BY <1>1, Invariance, PTL

\* Categories are the class of what is stored.
THEOREM CategoriesFollow == Spec => []CategoryFollowsSignals
  <1>1. IInv => CategoryFollowsSignals
    BY DEF IInv
  <1> QED
    BY <1>1, Invariance, PTL
==============================================================================
