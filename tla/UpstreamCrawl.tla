---------------------------- MODULE UpstreamCrawl ----------------------------
(***************************************************************************)
(* What a sync run reads of the 8004scan registry, while the registry      *)
(* changes: the paged listing of client_8004scan.iter_agents, one GET per  *)
(* agent found, and the paged reviews of feedback_sync.  Every page is one *)
(* request of up to Attempts GETs; between two of them agents and reviews  *)
(* appear, are revoked and vanish, so that a page may repeat entries or    *)
(* leave some out.  What the run writes of the agents themselves, and its  *)
(* races with other runs, are in SyncRun.                                  *)
(***************************************************************************)
EXTENDS Integers, Sequences, FiniteSets

CONSTANTS
    Token,          \* agents of chain 56
    Foreign,        \* agents of other chains, which the listing may carry
    Review,         \* reviews, numbered as they are submitted
    Owner,          \* Owner[r]: the agent r is about
    Revocable,      \* bound: reviews that are ever revoked
    Limit,          \* batch: agents a run looks for
    PageSize,       \* page_size of the listing
    LastPage,       \* the page after which iter_agents stops, 10 000
    PageLimit,      \* _PAGE_LIMIT of the reviews
    MaxPages,       \* max_pages of the reviews
    ProgressEvery,  \* upserts between commits
    Attempts,       \* GETs per request, 3 for both clients
    MaxStrikes      \* _MAX_PAGE_RATE_LIMIT_RETRIES

ASSUME CrawlAssumption ==
    /\ Review \subseteq Nat
    /\ Owner \in [Review -> Token]
    /\ Revocable \subseteq Review
    /\ Token \cap Foreign = {}
    /\ {Limit, PageSize, LastPage, PageLimit, MaxPages, ProgressEvery, Attempts} \subseteq Nat \ {0}
    /\ MaxStrikes \in Nat

VARIABLES
    listing,    \* upstream: the agents in the order of its listing
    reviews,    \* upstream: Token -> its reviews, newest first
    revoked,    \* upstream: the reviews that were revoked; they stay listed
    stored,     \* committed rows of agent_feedbacks: Review -> State
    session,    \* the same with the open transaction of the run
    run,        \* the run
    there,      \* history: what the walk of the listing has to find
    owed        \* history: what the newest walk of reviews has to store

upstream == <<listing, reviews, revoked>>
vars == <<upstream, stored, session, run, there, owed>>

State == {"absent", "standing", "revoked"}

\* page, strikes and buffer belong to the listing (buffer: entries of the page
\* not yet looked at); tries counts failed GETs of the request; count the
\* upserts; offset and pages belong to the reviews of Head(todo).
Run == [pc : {"idle", "list", "detail", "reviews"}, page : Nat \ {0}, strikes : 0 .. MaxStrikes,
        tries : 0 .. Attempts - 1, buffer : Seq(Token \cup Foreign), found : Seq(Token),
        todo : Seq(Token), count : Nat, offset : Nat, pages : Nat]

IdleRun == [pc |-> "idle", page |-> 1, strikes |-> 0, tries |-> 0, buffer |-> <<>>,
            found |-> <<>>, todo |-> <<>>, count |-> 0, offset |-> 0, pages |-> 0]

Nothing == [r \in {} |-> "absent"]

Entries(s) == {s[i] : i \in DOMAIN s}
After(s, n) == {s[i] : i \in {j \in DOMAIN s : j > n}}

Init ==
    /\ listing = <<>>
    /\ reviews = [t \in Token |-> <<>>]
    /\ revoked = {}
    /\ stored = [r \in Review |-> "absent"]
    /\ session = stored
    /\ run = IdleRun
    /\ there = {}
    /\ owed = Nothing

-----------------------------------------------------------------------------
(* The registry.                                                           *)

\* Entries the walk of the listing has asked for.
Cursor == (run.page - 1) * PageSize

Inserted(s, i, e) ==
    [j \in 1 .. Len(s) + 1 |-> IF j < i THEN s[j] ELSE IF j = i THEN e ELSE s[j - 1]]

Removed(s, i) == [j \in 1 .. Len(s) - 1 |-> IF j < i THEN s[j] ELSE s[j + 1]]

AddAgent(e) ==
    /\ e \notin Entries(listing)
    /\ \E i \in 1 .. Len(listing) + 1 : listing' = Inserted(listing, i, e)
    /\ UNCHANGED <<reviews, revoked, stored, session, run, there, owed>>

\* An agent leaves the listing.  Behind the cursor of a walk its place is taken
\* by the next entry the walk would have asked for: that one is hidden from it.
RemoveAgent(i) ==
    /\ i \in DOMAIN listing
    /\ listing' = Removed(listing, i)
    /\ there' = IF run.pc # "list" THEN there
                ELSE IF i > Cursor THEN there \ {listing[i]}
                ELSE IF Cursor < Len(listing) THEN there \ {listing[Cursor + 1]}
                ELSE there
    /\ UNCHANGED <<reviews, revoked, stored, session, run, owed>>

AddReview(r) ==
    /\ \A o \in Review : o < r <=> o \in Entries(reviews[Owner[o]])
    /\ reviews' = [reviews EXCEPT ![Owner[r]] = <<r>> \o @]
    /\ UNCHANGED <<listing, revoked, stored, session, run, there, owed>>

Revoke(r) ==
    /\ r \in Revocable \ revoked
    /\ r \in Entries(reviews[Owner[r]])
    /\ revoked' = revoked \cup {r}
    /\ UNCHANGED <<listing, reviews, stored, session, run, there, owed>>

Upstream ==
    \/ \E e \in Token \cup Foreign : AddAgent(e)
    \/ \E i \in DOMAIN listing : RemoveAgent(i)
    \/ \E r \in Review : AddReview(r) \/ Revoke(r)

-----------------------------------------------------------------------------
(* One request of Client8004Scan.                                          *)

\* How a GET fails: 429, 5xx, a connection that breaks, a 403 of an exhausted
\* quota, any other 4xx, any other error of httpx (a timeout of the connect).
Failure == {"throttled", "server", "lost", "quota", "denied", "other"}

\* What _request_json raises after the last GET.  An error that escapes is one
\* neither iter_agents nor _enrich_and_upsert catches.
Raised(f) ==
    CASE f = "throttled" -> "UpstreamRateLimit"
      [] f \in {"server", "lost"} -> "UpstreamUnavailable"
      [] OTHER -> "escapes"

AsksPage == run.pc = "list" /\ run.buffer = <<>> /\ run.page <= LastPage
AsksAgent == run.pc = "detail" /\ run.todo # <<>>
LastTry == run.tries = Attempts - 1

\* Any failure is tried again, whatever its status.
Retry ==
    /\ AsksPage \/ AsksAgent
    /\ ~LastTry
    /\ run' = [run EXCEPT !.tries = @ + 1]
    /\ UNCHANGED <<upstream, stored, session, there, owed>>

\* The session is closed and rolls back.
Dies ==
    /\ run' = IdleRun
    /\ session' = stored
    /\ there' = {} /\ owed' = Nothing
    /\ UNCHANGED <<upstream, stored>>

\* Any other error, or the end of the process.
RunDies == run.pc # "idle" /\ Dies

-----------------------------------------------------------------------------
(* The listing.                                                            *)

StartRun ==
    /\ run.pc = "idle"
    /\ run' = [IdleRun EXCEPT !.pc = "list"]
    /\ there' = Entries(listing) \cap Token
    /\ owed' = Nothing
    /\ UNCHANGED <<upstream, stored, session>>

\* The walk of the listing is over: on to the agents found.
Discovered(x) == [IdleRun EXCEPT !.pc = "detail", !.found = x.found, !.todo = x.found]

PageOf(s, from, n) == SubSeq(s, from + 1, IF from + n < Len(s) THEN from + n ELSE Len(s))

ListingPage ==
    LET items == PageOf(listing, Cursor, PageSize)
    IN  /\ AsksPage
        /\ run' = IF items = <<>> THEN Discovered(run)
                  ELSE [run EXCEPT !.strikes = 0, !.tries = 0, !.buffer = items, !.page = @ + 1]
        /\ UNCHANGED <<upstream, stored, session, there, owed>>

\* The entries of the page, one by one; the loop ends at the limit.
TakeEntry ==
    LET e == Head(run.buffer)
        passed == [run EXCEPT !.buffer = Tail(@)]
        taken == [passed EXCEPT !.found = Append(@, e)]
        full == e \in Token /\ Len(taken.found) = Limit
    IN  /\ run.pc = "list" /\ run.buffer # <<>>
        /\ run' = IF full THEN Discovered(taken) ELSE IF e \in Token THEN taken ELSE passed
        /\ there' = IF full THEN {} ELSE there
        /\ UNCHANGED <<upstream, stored, session, owed>>

\* The listing ends before its end.
CutListing ==
    /\ run' = Discovered(run)
    /\ there' = {}
    /\ UNCHANGED <<upstream, stored, session, owed>>

PageCap == run.pc = "list" /\ run.buffer = <<>> /\ run.page > LastPage /\ CutListing

\* A 404 or an answer of no known shape ends the listing like an empty page
\* (and where the listing ends it is no different from one).
ListingMissing == AsksPage /\ Cursor < Len(listing) /\ CutListing

\* Rate limited: the page is asked for again a minute later, MaxStrikes times;
\* then the run goes on with what it has found.
ListingThrottledUncounted ==   \* mutant: the strikes are not counted
    /\ run' = [run EXCEPT !.tries = 0]
    /\ UNCHANGED <<upstream, stored, session, there, owed>>

ListingThrottled ==
    IF run.strikes < MaxStrikes
    THEN /\ run' = [run EXCEPT !.strikes = @ + 1, !.tries = 0]
         /\ UNCHANGED <<upstream, stored, session, there, owed>>
    ELSE CutListing

ListingFails(f) ==
    /\ AsksPage /\ LastTry
    /\ IF Raised(f) = "UpstreamRateLimit" THEN ListingThrottled ELSE Dies

-----------------------------------------------------------------------------
(* The agents found, and their reviews.                                    *)

NextAgent == [run EXCEPT !.pc = "detail", !.todo = Tail(@), !.tries = 0,
                         !.offset = 0, !.pages = 0]

\* The agent counts, and `rows' is what the session then holds; a commit
\* follows every ProgressEvery of them and the last.
Counted(rows) ==
    LET count == run.count + 1
    IN  /\ run' = [NextAgent EXCEPT !.count = count]
        /\ session' = rows
        /\ stored' = IF count % ProgressEvery = 0 \/ Len(run.todo) = 1 THEN rows ELSE stored
        /\ UNCHANGED <<upstream, there>>

\* A 404 is recorded as a failure, an agent of another chain is passed over.
DetailSkipped ==
    /\ run' = NextAgent
    /\ UNCHANGED <<upstream, stored, session, there, owed>>

DetailMissing == AsksAgent /\ DetailSkipped

DetailFails(f) ==
    /\ AsksAgent /\ LastTry
    /\ IF Raised(f) = "escapes" THEN Dies ELSE DetailSkipped

ReviewState(r) == IF r \in revoked THEN "revoked" ELSE "standing"

\* total_feedbacks says whether there are reviews to walk.
DetailAnswered ==
    LET t == Head(run.todo)
    IN  /\ AsksAgent
        /\ IF reviews[t] = <<>>
           THEN Counted(session) /\ owed' = Nothing
           ELSE /\ run' = [run EXCEPT !.pc = "reviews", !.tries = 0]
                /\ owed' = [r \in Entries(reviews[t]) |-> ReviewState(r)]
                /\ UNCHANGED <<upstream, stored, session, there>>

\* A page is upserted by feedback_id; every column is refreshed.
MirroredOnce(page) ==   \* mutant: ON CONFLICT DO NOTHING
    [r \in Review |-> IF r \in Entries(page) /\ session[r] = "absent"
                      THEN ReviewState(r) ELSE session[r]]

Mirrored(page) ==
    [r \in Review |-> IF r \in Entries(page) THEN ReviewState(r) ELSE session[r]]

\* What an answer says of the number of reviews; 0 when it does not tell.
Totals(t) == {0, Len(reviews[t])}

ReviewsPage ==
    /\ run.pc = "reviews"
    /\ \E total \in Totals(Head(run.todo)) :
        LET items == PageOf(reviews[Head(run.todo)], run.offset, PageLimit)
            next == run.offset + PageLimit
            last == items = <<>> \/ (total # 0 /\ next >= total)
        IN IF last \/ run.pages + 1 = MaxPages
           THEN /\ Counted(Mirrored(items))
                /\ owed' = IF last THEN owed ELSE Nothing
           ELSE /\ run' = [run EXCEPT !.offset = next, !.pages = @ + 1, !.tries = 0]
                /\ session' = Mirrored(items)
                /\ UNCHANGED <<upstream, stored, there, owed>>

\* A bare list of reviews is taken for all there are, however full the page.
ReviewsBare ==
    /\ run.pc = "reviews"
    /\ Counted(Mirrored(PageOf(reviews[Head(run.todo)], run.offset, PageLimit)))
    /\ owed' = Nothing

\* 429, 5xx and errors of httpx are tried again.
ReviewsRetry ==
    /\ run.pc = "reviews" /\ ~LastTry
    /\ run' = [run EXCEPT !.tries = @ + 1]
    /\ UNCHANGED <<upstream, stored, session, there, owed>>

\* The last retry fails, upstream refuses, or has no such agent any more: the
\* worker keeps what it has.
ReviewsCut ==
    /\ run.pc = "reviews"
    /\ Counted(session)
    /\ owed' = Nothing

\* The checkpoint of sync_state, and with it whatever is not yet committed.
Finish ==
    /\ run.pc = "detail" /\ run.todo = <<>>
    /\ run' = IdleRun
    /\ stored' = session
    /\ there' = {}
    /\ UNCHANGED <<upstream, session, owed>>

-----------------------------------------------------------------------------
Crawl ==
    \/ Retry
    \/ ListingPage
    \/ TakeEntry
    \/ PageCap
    \/ ListingMissing
    \/ \E f \in Failure : ListingFails(f) \/ DetailFails(f)
    \/ DetailAnswered
    \/ DetailMissing
    \/ ReviewsPage
    \/ ReviewsBare
    \/ ReviewsRetry
    \/ ReviewsCut
    \/ Finish

Next == Upstream \/ StartRun \/ Crawl \/ RunDies

\* Every GET has a timeout and every wait an end, so a run goes on.
Spec == Init /\ [][Next]_vars /\ WF_vars(Crawl)

-----------------------------------------------------------------------------
(* Properties.                                                             *)

TypeOK ==
    /\ listing \in Seq(Token \cup Foreign)
    /\ reviews \in [Token -> Seq(Review)]
    /\ revoked \subseteq Review
    /\ stored \in [Review -> State] /\ session \in [Review -> State]
    /\ run \in Run
    /\ there \subseteq Token
    /\ DOMAIN owed \subseteq Review /\ owed \in [DOMAIN owed -> State]

\* The newest walk of reviews has stored all there were when it began, in a
\* state at least as new: a review that arrives meanwhile pushes others onto
\* the next page, never past it.  Walks that upstream cut short owe nothing.
AtLeast(state, old) == state # "absent" /\ (old = "revoked" => state = "revoked")

ReviewsMirrored ==
    \A r \in DOMAIN owed :
        \/ AtLeast(session[r], owed[r])
        \/ run.pc = "reviews" /\ r \in After(reviews[Head(run.todo)], run.offset)

\* A walk of the listing that nothing cut short finds every agent that was
\* listed all the time, wherever others are inserted; one that vanishes behind
\* the walk hides one other agent from it, and no more.
NothingHidden ==
    there \subseteq Entries(run.found) \cup Entries(run.buffer)
                    \cup (IF run.pc = "list" THEN After(listing, Cursor) ELSE {})

RunInv ==
    /\ IF run.pc = "reviews" THEN run.todo # <<>> ELSE run.offset = 0
    /\ \A r \in DOMAIN owed : owed[r] = "revoked" => r \in revoked

\* The inductive invariant: both walks keep what they promise, page by page.
IInv == TypeOK /\ RunInv /\ NothingHidden /\ ReviewsMirrored

\* A run comes to its end, whatever upstream answers and however it changes.
CrawlEnds == run.pc # "idle" ~> run.pc = "idle"
==============================================================================
