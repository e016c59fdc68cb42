------------------------ MODULE UpstreamCrawl_proofs ------------------------
(***************************************************************************)
(* Proofs about UpstreamCrawl, for every value of its constants.           *)
(***************************************************************************)
EXTENDS UpstreamCrawl, SequenceTheorems, TLAPS

-----------------------------------------------------------------------------
(* What the sequences of the registry keep when they change and are cut    *)
(* into pages.                                                             *)

\* The entries of a list that grows at its end or loses its head.
LEMMA EntriesOf ==
    ASSUME NEW S, NEW s \in Seq(S)
    PROVE  /\ Entries(s) \subseteq S
           /\ \A e \in S : Entries(Append(s, e)) = Entries(s) \cup {e}
           /\ s # <<>> => Entries(s) = {Head(s)} \cup Entries(Tail(s))
  <1>1. Entries(s) \subseteq S
    BY DEF Entries
  <1>2. ASSUME NEW e \in S
        PROVE  Entries(Append(s, e)) = Entries(s) \cup {e}
    <2>1. /\ Len(Append(s, e)) = Len(s) + 1
          /\ \A i \in 1 .. Len(s) : Append(s, e)[i] = s[i]
          /\ Append(s, e)[Len(s) + 1] = e
      BY AppendProperties
    <2>2. DOMAIN Append(s, e) = 1 .. Len(s) + 1 /\ DOMAIN s = 1 .. Len(s) /\ Len(s) \in Nat
      BY <2>1, AppendProperties
    <2> QED
      BY <2>1, <2>2 DEF Entries
  <1>3. ASSUME s # <<>>
        PROVE  Entries(s) = {Head(s)} \cup Entries(Tail(s))
    <2>1. /\ Len(Tail(s)) = Len(s) - 1 /\ Len(s) \in Nat \ {0}
          /\ \A i \in 1 .. Len(Tail(s)) : Tail(s)[i] = s[i + 1]
          /\ DOMAIN Tail(s) = 1 .. Len(Tail(s)) /\ DOMAIN s = 1 .. Len(s)
      BY <1>3, HeadTailProperties, EmptySeq, LenProperties
    <2>2. Head(s) = s[1]
      BY <1>3
    <2>3. ASSUME NEW i \in DOMAIN s, i # 1
          PROVE  s[i] \in Entries(Tail(s))
      <3>1. i - 1 \in DOMAIN Tail(s) /\ Tail(s)[i - 1] = s[i]
        BY <2>1, <2>3
      <3> QED
        BY <3>1 DEF Entries
    <2>4. Entries(s) \subseteq {Head(s)} \cup Entries(Tail(s))
      BY <2>2, <2>3 DEF Entries
    <2>5. \A i \in DOMAIN Tail(s) : i + 1 \in DOMAIN s /\ Tail(s)[i] = s[i + 1]
      BY <2>1
    <2>6. Entries(Tail(s)) \subseteq Entries(s)
      BY <2>5 DEF Entries
    <2>7. Head(s) \in Entries(s)
      BY <2>1, <2>2 DEF Entries
    <2> QED
      BY <2>4, <2>6, <2>7
  <1> QED
    BY <1>1, <1>2, <1>3

\* An insertion moves entries back, never in front of a place.
LEMMA Insertion ==
    ASSUME NEW S, NEW s \in Seq(S), NEW e \in S, NEW i \in 1 .. Len(s) + 1, NEW n \in Nat
    PROVE  Inserted(s, i, e) \in Seq(S) /\ After(s, n) \subseteq After(Inserted(s, i, e), n)
  <1> DEFINE t == Inserted(s, i, e)
  <1>1. t \in [1 .. Len(s) + 1 -> S]
    <2>1. ASSUME NEW j \in 1 .. Len(s) + 1
          PROVE  (IF j < i THEN s[j] ELSE IF j = i THEN e ELSE s[j - 1]) \in S
      <3>1. (j < i => j \in 1 .. Len(s)) /\ (j > i => j - 1 \in 1 .. Len(s))
        OBVIOUS
      <3>2. \A k \in 1 .. Len(s) : s[k] \in S
        OBVIOUS
      <3> QED
        BY <3>1, <3>2
    <2> QED
      BY <2>1 DEF Inserted
  <1>2. t \in Seq(S) /\ DOMAIN t = 1 .. Len(s) + 1
    BY <1>1, IsASeq
  <1>3. ASSUME NEW j \in DOMAIN s, j > n
        PROVE  s[j] \in After(t, n)
    <2>1. CASE j < i
      BY <1>2, <1>3, <2>1 DEF After, Inserted
    <2>2. CASE j >= i
      <3>1. j + 1 \in DOMAIN t /\ t[j + 1] = s[j] /\ j + 1 > n
        BY <1>2, <1>3, <2>2 DEF Inserted
      <3> QED
        BY <3>1 DEF After
    <2> QED
      BY <1>3, <2>1, <2>2
  <1> QED
    BY <1>2, <1>3 DEF After

\* A removal in front of a place moves one entry in front of it.
LEMMA Removal ==
    ASSUME NEW S, NEW s \in Seq(S), NEW i \in DOMAIN s, NEW n \in Nat
    PROVE  /\ Removed(s, i) \in Seq(S)
           /\ i > n => After(s, n) \subseteq After(Removed(s, i), n) \cup {s[i]}
           /\ i <= n /\ n < Len(s) => After(s, n) \subseteq After(Removed(s, i), n) \cup {s[n + 1]}
           /\ n >= Len(s) => After(s, n) = {}
  <1> DEFINE t == Removed(s, i)
  <1>1. t \in [1 .. Len(s) - 1 -> S]
    BY DEF Removed
  <1>2. t \in Seq(S) /\ DOMAIN t = 1 .. Len(s) - 1
    BY <1>1, IsASeq
  <1>3. ASSUME NEW j \in DOMAIN s, j > n, j # i, i <= n => j # n + 1
        PROVE  s[j] \in After(t, n)
    <2>1. CASE j < i
      BY <1>2, <1>3, <2>1 DEF After, Removed
    <2>2. CASE j > i
      <3>1. j - 1 \in DOMAIN t /\ t[j - 1] = s[j] /\ j - 1 > n
        BY <1>2, <1>3, <2>2 DEF Removed
      <3> QED
        BY <3>1 DEF After
    <2> QED
      BY <1>3, <2>1, <2>2
  <1>4. i > n => After(s, n) \subseteq After(t, n) \cup {s[i]}
    BY <1>3 DEF After
  <1>5. i <= n /\ n < Len(s) => After(s, n) \subseteq After(t, n) \cup {s[n + 1]}
    BY <1>3 DEF After
  <1>6. n >= Len(s) => After(s, n) = {}
    BY DEF After
  <1> QED
    BY <1>2, <1>4, <1>5, <1>6

\* A new head moves everything back.
LEMMA Push ==
    ASSUME NEW S, NEW s \in Seq(S), NEW e \in S, NEW n \in Nat
    PROVE  <<e>> \o s \in Seq(S) /\ After(s, n) \subseteq After(<<e>> \o s, n)
  <1>1. /\ <<e>> \o s \in Seq(S) /\ Len(<<e>> \o s) = Len(s) + 1
        /\ \A j \in 1 .. Len(s) : (<<e>> \o s)[j + 1] = s[j]
    BY ConcatProperties
  <1>2. ASSUME NEW j \in DOMAIN s, j > n
        PROVE  s[j] \in After(<<e>> \o s, n)
    <2>1. j + 1 \in DOMAIN (<<e>> \o s) /\ (<<e>> \o s)[j + 1] = s[j] /\ j + 1 > n
      BY <1>1, <1>2
    <2> QED
      BY <2>1 DEF After
  <1> QED
    BY <1>1, <1>2 DEF After

\* A page holds what comes next.
LEMMA Paging ==
    ASSUME NEW S, NEW s \in Seq(S), NEW from \in Nat, NEW n \in Nat \ {0}
    PROVE  /\ PageOf(s, from, n) \in Seq(S)
           /\ Entries(PageOf(s, from, n)) \subseteq Entries(s)
           /\ After(s, from) \subseteq Entries(PageOf(s, from, n)) \cup After(s, from + n)
           /\ PageOf(s, from, n) = <<>> => After(s, from) = {}
           /\ After(s, from + n) \subseteq After(s, from)
           /\ from + n >= Len(s) => After(s, from + n) = {}
  <1> DEFINE upto == IF from + n < Len(s) THEN from + n ELSE Len(s)
             page == SubSeq(s, from + 1, upto)
  <1>0. PageOf(s, from, n) = page
    BY DEF PageOf
  <1>1. \A j \in from + 1 .. upto : s[j] \in S
    OBVIOUS
  <1>2. /\ page \in Seq(S)
        /\ Len(page) = IF from + 1 <= upto THEN upto - from ELSE 0
        /\ \A j \in 1 .. upto - from : page[j] = s[from + j]
    BY <1>1, SubSeqProperties
  <1>3. /\ DOMAIN s = 1 .. Len(s) /\ Len(s) \in Nat
        /\ upto \in Nat /\ upto <= Len(s)
        /\ \A j \in 1 .. Len(s) : j <= from + n => j <= upto
        /\ Len(s) <= from => upto <= from
        /\ upto <= from => Len(s) <= from
    OBVIOUS
  <1>10. DOMAIN page = 1 .. Len(page)
    BY <1>2
  <1> HIDE DEF upto, page
  <1>11. /\ \A i \in DOMAIN page : i \in Nat /\ i > 0 /\ i <= upto - from
         /\ \A i \in Nat : i > 0 /\ i <= upto - from => i \in DOMAIN page
    BY <1>2, <1>3, <1>10
  <1>4. Entries(page) \subseteq Entries(s)
    <2>1. ASSUME NEW i \in DOMAIN page
          PROVE  page[i] \in Entries(s)
      <3>1. from + i \in DOMAIN s
        BY <1>3, <1>11
      <3>2. page[i] = s[from + i]
        BY <1>2, <1>3, <1>11
      <3> QED
        BY <3>1, <3>2 DEF Entries
    <2> QED
      BY <2>1 DEF Entries
  <1>5. ASSUME NEW j \in DOMAIN s, j > from, j <= from + n
        PROVE  s[j] \in Entries(page)
    <2>1. j \in Nat /\ j <= upto /\ j - from \in Nat /\ j - from > 0 /\ j - from <= upto - from
      BY <1>3, <1>5
    <2>2. j - from \in DOMAIN page
      BY <1>11, <2>1
    <2>3. page[j - from] = s[from + (j - from)] /\ from + (j - from) = j
      BY <1>2, <1>3, <2>1
    <2> QED
      BY <2>2, <2>3 DEF Entries
  <1>6. After(s, from) \subseteq Entries(page) \cup After(s, from + n)
    BY <1>5 DEF After
  <1>7. ASSUME page = <<>>
        PROVE  After(s, from) = {}
    <2>1. Len(page) = 0
      BY <1>7
    <2>2. upto <= from
      BY <1>2, <1>3, <2>1
    <2> QED
      BY <1>3, <2>2 DEF After
  <1>8. After(s, from + n) \subseteq After(s, from)
    BY DEF After
  <1>9. from + n >= Len(s) => After(s, from + n) = {}
    BY DEF After
  <1> QED
    BY <1>0, <1>2, <1>4, <1>6, <1>7, <1>8, <1>9

-----------------------------------------------------------------------------
(* The run record.                                                         *)

LEMMA Bounds ==
    /\ Limit \in Nat \ {0} /\ PageSize \in Nat \ {0} /\ LastPage \in Nat \ {0}
    /\ PageLimit \in Nat \ {0} /\ MaxPages \in Nat \ {0}
    /\ ProgressEvery \in Nat \ {0} /\ Attempts \in Nat \ {0} /\ MaxStrikes \in Nat
  BY CrawlAssumption

\* The fields of a run.
LEMMA Fields ==
    ASSUME NEW x \in Run
    PROVE  /\ x.pc \in {"idle", "list", "detail", "reviews"} /\ x.page \in Nat \ {0}
           /\ x.strikes \in 0 .. MaxStrikes /\ x.tries \in 0 .. Attempts - 1
           /\ x.buffer \in Seq(Token \cup Foreign) /\ x.found \in Seq(Token)
           /\ x.todo \in Seq(Token) /\ x.count \in Nat /\ x.offset \in Nat /\ x.pages \in Nat
  BY DEF Run

\* A fresh run, and one whose listing has ended.
LEMMA FreshRuns ==
    ASSUME NEW x \in Run
    PROVE  /\ IdleRun \in Run /\ Discovered(x) \in Run
           /\ Discovered(x).pc = "detail" /\ Discovered(x).buffer = <<>>
           /\ Discovered(x).found = x.found /\ Discovered(x).todo = x.found
           /\ Discovered(x).offset = 0
           /\ IdleRun.pc = "idle" /\ IdleRun.page = 1 /\ IdleRun.offset = 0
  <1>1. <<>> \in Seq(Token \cup Foreign) /\ <<>> \in Seq(Token)
    OBVIOUS
  <1>2. 0 \in 0 .. MaxStrikes /\ 0 \in 0 .. Attempts - 1 /\ 1 \in Nat \ {0}
    BY Bounds
  <1>3. IdleRun \in Run
    BY <1>1, <1>2 DEF IdleRun, Run
  <1>4. x.found \in Seq(Token)
    BY DEF Run
  <1> QED
    BY <1>1, <1>2, <1>3, <1>4 DEF IdleRun, Run, Discovered

\* The cursor is a place in the listing, and a page further on it is one more
\* page of entries.
LEMMA Cursors ==
    ASSUME TypeOK
    PROVE  /\ Cursor \in Nat
           /\ (run.page + 1 - 1) * PageSize = Cursor + PageSize
  <1>1. run.page - 1 \in Nat /\ PageSize \in Nat /\ run.page \in Nat
    BY Bounds, Fields DEF TypeOK
  <1>2. \A a, b \in Nat : a * b \in Nat /\ (a + 1) * b = a * b + b
    OBVIOUS
  <1>3. Cursor \in Nat
    BY <1>1, <1>2 DEF Cursor
  <1>4. (run.page - 1 + 1) * PageSize = Cursor + PageSize
    BY <1>1, <1>2 DEF Cursor
  <1>5. run.page - 1 + 1 = run.page + 1 - 1
    BY <1>1
  <1> QED
    BY <1>3, <1>4, <1>5

\* Outside a walk of reviews only its outcome counts.
LEMMA MirrorKept ==
    ASSUME ReviewsMirrored, run.pc # "reviews", UNCHANGED <<session, owed>>
    PROVE  ReviewsMirrored'
  BY DEF ReviewsMirrored

\* A step that leaves the registry, the histories and the session alone, and
\* changes nothing of the run that the walks speak about.
LEMMA Undisturbed ==
    ASSUME IInv, UNCHANGED <<upstream, stored, session, there, owed>>, run' \in Run,
           run'.pc = run.pc, run'.page = run.page, run'.buffer = run.buffer,
           run'.found = run.found, run'.todo = run.todo, run'.offset = run.offset
    PROVE  IInv'
  <1>1. TypeOK'
    BY DEF IInv, TypeOK, upstream
  <1>2. NothingHidden'
    BY DEF IInv, NothingHidden, Cursor, upstream
  <1>3. ReviewsMirrored'
    BY DEF IInv, ReviewsMirrored, upstream
  <1>4. RunInv'
    BY DEF IInv, RunInv, upstream
  <1> QED
    BY <1>1, <1>2, <1>3, <1>4 DEF IInv

\* The end of a run that fails.
LEMMA Death ==
    ASSUME IInv, Dies
    PROVE  IInv'
  <1>1. run' \in Run /\ run'.pc = "idle" /\ run'.offset = 0
    BY FreshRuns DEF Dies, IInv, TypeOK
  <1>2. DOMAIN owed' = {} /\ owed' \in [DOMAIN owed' -> State]
    BY DEF Dies, Nothing
  <1>3. TypeOK'
    BY <1>1, <1>2 DEF IInv, TypeOK, Dies, upstream
  <1>4. NothingHidden' /\ ReviewsMirrored' /\ RunInv'
    BY <1>1, <1>2 DEF NothingHidden, ReviewsMirrored, RunInv, Dies
  <1> QED
    BY <1>3, <1>4 DEF IInv

-----------------------------------------------------------------------------
(* The registry changes.                                                   *)

LEMMA AddAgentStep ==
    ASSUME IInv, NEW e \in Token \cup Foreign, AddAgent(e)
    PROVE  IInv'
  <1>1. PICK i \in 1 .. Len(listing) + 1 : listing' = Inserted(listing, i, e)
    BY DEF AddAgent
  <1>2. listing' \in Seq(Token \cup Foreign) /\ After(listing, Cursor) \subseteq After(listing', Cursor)
    BY <1>1, Cursors, Insertion DEF IInv, TypeOK
  <1>3. TypeOK'
    BY <1>2 DEF IInv, TypeOK, AddAgent
  <1>4. NothingHidden'
    BY <1>2 DEF IInv, NothingHidden, AddAgent, Cursor
  <1>5. ReviewsMirrored' /\ RunInv'
    BY DEF IInv, ReviewsMirrored, RunInv, AddAgent
  <1> QED
    BY <1>3, <1>4, <1>5 DEF IInv

LEMMA RemoveAgentStep ==
    ASSUME IInv, NEW i \in DOMAIN listing, RemoveAgent(i)
    PROVE  IInv'
  <1>1. /\ listing' \in Seq(Token \cup Foreign)
        /\ i > Cursor => After(listing, Cursor) \subseteq After(listing', Cursor) \cup {listing[i]}
        /\ i <= Cursor /\ Cursor < Len(listing) =>
             After(listing, Cursor) \subseteq After(listing', Cursor) \cup {listing[Cursor + 1]}
        /\ Cursor >= Len(listing) => After(listing, Cursor) = {}
    BY Cursors, Removal DEF IInv, TypeOK, RemoveAgent
  <1>2. i \in Nat /\ Cursor \in Nat /\ Len(listing) \in Nat
    BY Cursors DEF IInv, TypeOK
  <1>3. there' \subseteq there
    BY DEF RemoveAgent
  <1>4. TypeOK'
    BY <1>1, <1>3 DEF IInv, TypeOK, RemoveAgent
  <1>5. NothingHidden'
    <2>1. CASE run.pc # "list"
      BY <2>1 DEF IInv, NothingHidden, RemoveAgent
    <2>2. CASE run.pc = "list" /\ i > Cursor
      BY <2>2, <1>1 DEF IInv, NothingHidden, RemoveAgent, Cursor
    <2>3. CASE run.pc = "list" /\ i <= Cursor /\ Cursor < Len(listing)
      <3>1. there' = there \ {listing[Cursor + 1]}
        BY <2>3, <1>2 DEF RemoveAgent
      <3>2. there \subseteq Entries(run.found) \cup Entries(run.buffer) \cup After(listing, Cursor)
        BY <2>3 DEF IInv, NothingHidden
      <3>3. run' = run /\ Cursor' = Cursor
        BY DEF RemoveAgent, Cursor
      <3> QED
        BY <2>3, <3>1, <3>2, <3>3, <1>1 DEF NothingHidden
    <2>4. CASE run.pc = "list" /\ i <= Cursor /\ Cursor >= Len(listing)
      BY <2>4, <1>1, <1>3 DEF IInv, NothingHidden, RemoveAgent
    <2> QED
      BY <2>1, <2>2, <2>3, <2>4, <1>2
  <1>6. ReviewsMirrored' /\ RunInv'
    BY DEF IInv, ReviewsMirrored, RunInv, RemoveAgent
  <1> QED
    BY <1>4, <1>5, <1>6 DEF IInv

LEMMA AddReviewStep ==
    ASSUME IInv, NEW r \in Review, AddReview(r)
    PROVE  IInv'
  <1> DEFINE o == Owner[r]
  <1>1. o \in Token /\ reviews[o] \in Seq(Review)
    BY CrawlAssumption DEF IInv, TypeOK
  <1>2. reviews' = [reviews EXCEPT ![o] = <<r>> \o @] /\ reviews \in [Token -> Seq(Review)]
    BY DEF AddReview, IInv, TypeOK
  <1>3. <<r>> \o reviews[o] \in Seq(Review)
    BY <1>1, Push
  <1>4. TypeOK'
    BY <1>1, <1>2, <1>3 DEF IInv, TypeOK, AddReview
  <1>5. NothingHidden' /\ RunInv'
    BY DEF IInv, NothingHidden, RunInv, AddReview, Cursor
  <1>6. ReviewsMirrored'
    <2>1. run.offset \in Nat
      BY Fields DEF IInv, TypeOK
    <2>2. \A t \in Token : After(reviews[t], run.offset) \subseteq After(reviews'[t], run.offset)
      BY <1>1, <1>2, <2>1, Push
    <2>3. run.pc = "reviews" => Head(run.todo) \in Token
      BY Fields, HeadTailProperties DEF IInv, TypeOK, RunInv
    <2> QED
      BY <2>2, <2>3 DEF IInv, ReviewsMirrored, AddReview
  <1> QED
    BY <1>4, <1>5, <1>6 DEF IInv

LEMMA RevokeStep ==
    ASSUME IInv, NEW r \in Review, Revoke(r)
    PROVE  IInv'
  BY DEF IInv, TypeOK, NothingHidden, ReviewsMirrored, RunInv, Revoke, Cursor

-----------------------------------------------------------------------------
(* The walk of the listing.                                                *)

LEMMA StartRunStep ==
    ASSUME IInv, StartRun
    PROVE  IInv'
  <1>1. run' \in Run /\ run'.pc = "list" /\ run'.page = 1 /\ run'.offset = 0
    BY FreshRuns DEF StartRun, IInv, TypeOK, Run
  <1>2. Cursor' = 0
    BY <1>1, Bounds DEF Cursor
  <1>3. After(listing, 0) = Entries(listing)
    BY DEF After, Entries, IInv, TypeOK
  <1>4. DOMAIN owed' = {} /\ owed' \in [DOMAIN owed' -> State]
    BY DEF StartRun, Nothing
  <1>5. TypeOK'
    BY <1>1, <1>4 DEF IInv, TypeOK, StartRun, upstream
  <1>6. NothingHidden'
    BY <1>1, <1>2, <1>3 DEF NothingHidden, StartRun, upstream
  <1>7. ReviewsMirrored' /\ RunInv'
    BY <1>1, <1>4 DEF ReviewsMirrored, RunInv
  <1> QED
    BY <1>5, <1>6, <1>7 DEF IInv

\* The listing ends with every agent it had to find among those found, or
\* with nothing to find.
LEMMA ListingEnds ==
    ASSUME IInv, NEW x \in Run, run' = Discovered(x), run.pc = "list",
           there' \subseteq there, there' \subseteq Entries(x.found),
           UNCHANGED <<upstream, stored, session, owed>>
    PROVE  IInv'
  <1>1. run' \in Run /\ run'.pc = "detail" /\ run'.found = x.found /\ run'.offset = 0
    BY FreshRuns
  <1>2. TypeOK'
    BY <1>1 DEF IInv, TypeOK, upstream
  <1>3. NothingHidden'
    BY <1>1 DEF NothingHidden
  <1>4. ReviewsMirrored'
    BY MirrorKept DEF IInv
  <1>5. RunInv'
    BY <1>1 DEF IInv, RunInv, upstream
  <1> QED
    BY <1>2, <1>3, <1>4, <1>5 DEF IInv

LEMMA CutListingStep ==
    ASSUME IInv, run.pc = "list", CutListing
    PROVE  IInv'
  BY ListingEnds DEF CutListing, IInv, TypeOK

LEMMA ListingPageStep ==
    ASSUME IInv, ListingPage
    PROVE  IInv'
  <1> DEFINE items == PageOf(listing, Cursor, PageSize)
  <1>1. /\ items \in Seq(Token \cup Foreign)
        /\ After(listing, Cursor) \subseteq Entries(items) \cup After(listing, Cursor + PageSize)
        /\ items = <<>> => After(listing, Cursor) = {}
    BY Paging, Cursors, Bounds DEF IInv, TypeOK
  <1>2. /\ run \in Run /\ run.pc = "list" /\ run.buffer = <<>>
        /\ UNCHANGED <<upstream, stored, session, there, owed>>
    BY DEF ListingPage, AsksPage, IInv, TypeOK
  <1>3. there \subseteq Entries(run.found) \cup After(listing, Cursor)
    BY <1>2 DEF IInv, NothingHidden, Entries
  <1>4. CASE items = <<>>
    <2>1. run' = Discovered(run)
      BY <1>4 DEF ListingPage
    <2> QED
      BY <1>1, <1>2, <1>3, <1>4, <2>1, ListingEnds
  <1>5. CASE items # <<>>
    <2>1. run' = [run EXCEPT !.strikes = 0, !.tries = 0, !.buffer = items, !.page = @ + 1]
      BY <1>5 DEF ListingPage
    <2>2. run' \in Run
      <3>1. 0 \in 0 .. MaxStrikes /\ 0 \in 0 .. Attempts - 1 /\ run.page + 1 \in Nat \ {0}
        BY Bounds, Fields, <1>2
      <3> QED
        BY <1>1, <1>2, <2>1, <3>1 DEF Run
    <2>3. /\ run'.pc = "list" /\ run'.page = run.page + 1 /\ run'.buffer = items
          /\ run'.found = run.found /\ run'.todo = run.todo /\ run'.offset = run.offset
      BY <1>2, <2>1 DEF Run
    <2>4. Cursor' = Cursor + PageSize
      <3>1. Cursor' = (run.page + 1 - 1) * PageSize
        <4>1. run'.page = run.page + 1
          BY <2>3
        <4>2. Cursor' = (run'.page - 1) * PageSize
          BY Zenon DEF Cursor
        <4>3. run.page \in Nat /\ PageSize \in Nat
          BY <1>2, Fields, Bounds
        <4>4. \A m, n \in Nat : m = n + 1 => (m - 1) * PageSize = (n + 1 - 1) * PageSize
          BY <4>3
        <4> QED
          BY <4>1, <4>2, <4>3, <4>4
      <3>2. (run.page + 1 - 1) * PageSize = Cursor + PageSize
        BY Cursors DEF IInv
      <3> QED
        BY <3>1, <3>2
    <2>5. TypeOK'
      BY <1>2, <2>2 DEF IInv, TypeOK, upstream
    <2>6. NothingHidden'
      BY <1>1, <1>2, <1>3, <2>3, <2>4 DEF NothingHidden, upstream
    <2>7. ReviewsMirrored'
      BY <1>2, MirrorKept DEF IInv
    <2>8. RunInv'
      BY <1>2, <2>3 DEF IInv, RunInv, upstream
    <2> QED
      BY <2>5, <2>6, <2>7, <2>8 DEF IInv
  <1> QED
    BY <1>4, <1>5

LEMMA TakeEntryStep ==
    ASSUME IInv, TakeEntry
    PROVE  IInv'
  <1> DEFINE e == Head(run.buffer)
             passed == [run EXCEPT !.buffer = Tail(@)]
             taken == [passed EXCEPT !.found = Append(@, e)]
             full == e \in Token /\ Len(taken.found) = Limit
  <1>1. /\ run \in Run /\ run.pc = "list" /\ run.buffer # <<>>
        /\ UNCHANGED <<upstream, stored, session, owed>>
    BY DEF TakeEntry, IInv, TypeOK
  <1>2. /\ e \in Token \cup Foreign /\ Tail(run.buffer) \in Seq(Token \cup Foreign)
        /\ Entries(run.buffer) = {e} \cup Entries(Tail(run.buffer))
    BY <1>1, Fields, HeadTailProperties, EntriesOf
  <1>3. /\ passed \in Run /\ passed.pc = "list" /\ passed.page = run.page
        /\ passed.offset = run.offset
        /\ passed.buffer = Tail(run.buffer) /\ passed.found = run.found
    BY <1>1, <1>2 DEF Run
  <1>4. ASSUME e \in Token
        PROVE  /\ taken \in Run /\ taken.pc = "list" /\ taken.page = run.page
               /\ taken.offset = run.offset
               /\ taken.buffer = Tail(run.buffer) /\ taken.found = Append(run.found, e)
               /\ Entries(taken.found) = Entries(run.found) \cup {e}
    <2>1. Append(run.found, e) \in Seq(Token)
      BY <1>1, <1>4, Fields, AppendProperties
    <2>2. /\ taken \in Run /\ taken.pc = "list" /\ taken.page = run.page
          /\ taken.offset = run.offset
          /\ taken.buffer = Tail(run.buffer) /\ taken.found = Append(run.found, e)
      BY <1>3, <2>1 DEF Run
    <2> QED
      BY <1>1, <1>4, <2>2, Fields, EntriesOf
  <1>5. there \subseteq Token
    BY DEF IInv, TypeOK
  <1>6. there \subseteq Entries(run.found) \cup Entries(run.buffer) \cup After(listing, Cursor)
    BY <1>1 DEF IInv, NothingHidden
  <1>7. CASE full
    <2>1. run' = Discovered(taken) /\ there' = {}
      BY <1>7 DEF TakeEntry
    <2> QED
      BY <1>1, <1>4, <1>7, <2>1, ListingEnds
  <1>8. CASE ~full
    <2>1. there' = there /\ run' = IF e \in Token THEN taken ELSE passed
      BY <1>8 DEF TakeEntry
    <2>2. run' \in Run /\ run'.pc = "list" /\ run'.page = run.page
          /\ run'.buffer = Tail(run.buffer) /\ run'.offset = run.offset
      BY <2>1, <1>3, <1>4
    <2>3. Entries(run.found) \cup ({e} \cap Token) \subseteq Entries(run'.found)
      BY <2>1, <1>3, <1>4
    <2>4. TypeOK'
      BY <1>1, <2>1, <2>2 DEF IInv, TypeOK, upstream
    <2>5. Cursor' = Cursor
      BY <2>2 DEF Cursor
    <2>6. NothingHidden'
      <3>1. there' \subseteq Entries(run'.found) \cup Entries(run'.buffer) \cup After(listing, Cursor)
        BY <1>2, <1>5, <1>6, <2>1, <2>2, <2>3
      <3> QED
        BY <1>1, <2>2, <2>5, <3>1 DEF NothingHidden, upstream
    <2>7. ReviewsMirrored'
      BY <1>1, MirrorKept DEF IInv
    <2>8. RunInv'
      BY <1>1, <2>2 DEF IInv, RunInv, upstream
    <2> QED
      BY <2>4, <2>6, <2>7, <2>8 DEF IInv
  <1> QED
    BY <1>7, <1>8

-----------------------------------------------------------------------------
(* Requests, agents and their reviews.                                     *)

LEMMA RetryStep ==
    ASSUME IInv, run.tries # Attempts - 1, run' = [run EXCEPT !.tries = @ + 1],
           UNCHANGED <<upstream, stored, session, there, owed>>
    PROVE  IInv'
  <1>1. run \in Run /\ run.tries + 1 \in 0 .. Attempts - 1
    BY Bounds, Fields DEF IInv, TypeOK
  <1>2. run' \in Run
    BY <1>1 DEF Run
  <1> QED
    BY <1>1, <1>2, Undisturbed DEF Run

LEMMA ListingThrottledStep ==
    ASSUME IInv, run.pc = "list", ListingThrottled
    PROVE  IInv'
  <1>1. CASE run.strikes < MaxStrikes
    <2>1. /\ run' = [run EXCEPT !.strikes = @ + 1, !.tries = 0] /\ run \in Run
          /\ UNCHANGED <<upstream, stored, session, there, owed>>
      BY <1>1 DEF ListingThrottled, IInv, TypeOK
    <2>2. run.strikes + 1 \in 0 .. MaxStrikes /\ 0 \in 0 .. Attempts - 1
      BY <1>1, <2>1, Bounds, Fields
    <2>3. run' \in Run
      BY <2>1, <2>2 DEF Run
    <2> QED
      BY <2>1, <2>3, Undisturbed DEF Run
  <1>2. CASE ~(run.strikes < MaxStrikes)
    BY <1>2, CutListingStep DEF ListingThrottled
  <1> QED
    BY <1>1, <1>2

\* The next agent.
LEMMA NextAgents ==
    ASSUME run \in Run, run.todo # <<>>
    PROVE  /\ NextAgent \in Run /\ NextAgent.pc = "detail" /\ NextAgent.offset = 0
           /\ NextAgent.buffer = run.buffer /\ NextAgent.found = run.found
           /\ [NextAgent EXCEPT !.count = run.count + 1] \in Run
           /\ [NextAgent EXCEPT !.count = run.count + 1].pc = "detail"
           /\ [NextAgent EXCEPT !.count = run.count + 1].offset = 0
           /\ [NextAgent EXCEPT !.count = run.count + 1].buffer = run.buffer
           /\ [NextAgent EXCEPT !.count = run.count + 1].found = run.found
  <1>1. Tail(run.todo) \in Seq(Token) /\ run.count + 1 \in Nat
    BY Fields, HeadTailProperties
  <1>2. 0 \in 0 .. Attempts - 1
    BY Bounds
  <1>3. NextAgent \in Run
    BY <1>1, <1>2 DEF NextAgent, Run
  <1> QED
    BY <1>1, <1>3 DEF NextAgent, Run

\* Which page the walk of the listing has reached does not matter any more.
LEMMA FoundKept ==
    ASSUME NothingHidden, run.pc \in {"detail", "reviews"}, run'.pc # "list", there' = there,
           run'.found = run.found, run'.buffer = run.buffer
    PROVE  NothingHidden'
  BY DEF NothingHidden

LEMMA DetailSkippedStep ==
    ASSUME IInv, AsksAgent, DetailSkipped
    PROVE  IInv'
  <1>1. /\ run \in Run /\ run.pc = "detail" /\ run.todo # <<>> /\ run' = NextAgent
        /\ UNCHANGED <<upstream, stored, session, there, owed>>
    BY DEF AsksAgent, DetailSkipped, IInv, TypeOK
  <1>2. TypeOK'
    BY <1>1, NextAgents DEF IInv, TypeOK, upstream
  <1>3. NothingHidden'
    BY <1>1, NextAgents, FoundKept DEF IInv
  <1>4. ReviewsMirrored'
    BY <1>1, MirrorKept DEF IInv
  <1>5. RunInv'
    BY <1>1, NextAgents DEF IInv, RunInv, upstream
  <1> QED
    BY <1>2, <1>3, <1>4, <1>5 DEF IInv

\* An agent counts when the session holds what was owed, or nothing is.
LEMMA CountedStep ==
    ASSUME IInv, run.pc \in {"detail", "reviews"}, run.todo # <<>>,
           NEW rows \in [Review -> State], Counted(rows),
           owed' = owed \/ owed' = Nothing,
           \A r \in DOMAIN owed' : AtLeast(rows[r], owed'[r])
    PROVE  IInv'
  <1>1. /\ run \in Run /\ run' = [NextAgent EXCEPT !.count = run.count + 1]
        /\ session' = rows /\ UNCHANGED <<upstream, there>>
    BY DEF Counted, IInv, TypeOK
  <1>2. /\ run' \in Run /\ run'.pc = "detail" /\ run'.offset = 0
        /\ run'.found = run.found /\ run'.buffer = run.buffer
    BY <1>1, NextAgents
  <1>3. stored' \in [Review -> State]
    BY DEF Counted, IInv, TypeOK
  <1>4. DOMAIN owed' \subseteq Review /\ owed' \in [DOMAIN owed' -> State]
    BY DEF Nothing, IInv, TypeOK
  <1>5. TypeOK'
    BY <1>1, <1>2, <1>3, <1>4 DEF IInv, TypeOK, upstream
  <1>6. NothingHidden'
    BY <1>1, <1>2, FoundKept DEF IInv
  <1>7. ReviewsMirrored'
    BY <1>1 DEF ReviewsMirrored
  <1>8. RunInv'
    BY <1>1, <1>2 DEF IInv, RunInv, Nothing, upstream
  <1> QED
    BY <1>5, <1>6, <1>7, <1>8 DEF IInv

LEMMA DetailAnsweredStep ==
    ASSUME IInv, DetailAnswered
    PROVE  IInv'
  <1> DEFINE t == Head(run.todo)
  <1>1. run \in Run /\ run.pc = "detail" /\ run.todo # <<>> /\ session \in [Review -> State]
    BY DEF DetailAnswered, AsksAgent, IInv, TypeOK
  <1>2. t \in Token /\ reviews[t] \in Seq(Review)
    BY <1>1, Fields, HeadTailProperties DEF IInv, TypeOK
  <1>3. CASE reviews[t] = <<>>
    <2>1. Counted(session) /\ owed' = Nothing /\ DOMAIN Nothing = {}
      BY <1>3 DEF DetailAnswered, Nothing
    <2> QED
      BY <1>1, <2>1, CountedStep
  <1>4. CASE reviews[t] # <<>>
    <2>1. /\ run' = [run EXCEPT !.pc = "reviews", !.tries = 0]
          /\ owed' = [r \in Entries(reviews[t]) |-> ReviewState(r)]
          /\ UNCHANGED <<upstream, stored, session, there>>
      BY <1>4 DEF DetailAnswered
    <2>2. 0 \in 0 .. Attempts - 1
      BY Bounds
    <2>3. /\ run' \in Run /\ run'.pc = "reviews" /\ run'.todo = run.todo
          /\ run'.found = run.found /\ run'.buffer = run.buffer /\ run'.offset = run.offset
      BY <1>1, <2>1, <2>2 DEF Run
    <2>4. DOMAIN owed' = Entries(reviews[t]) /\ Entries(reviews[t]) \subseteq Review
      BY <1>2, <2>1, EntriesOf
    <2>5. owed' \in [DOMAIN owed' -> State]
      BY <2>1 DEF ReviewState, State
    <2>6. TypeOK'
      BY <2>1, <2>3, <2>4, <2>5 DEF IInv, TypeOK, upstream
    <2>7. NothingHidden'
      BY <1>1, <2>1, <2>3, FoundKept DEF IInv
    <2>8. ReviewsMirrored'
      <3>1. After(reviews[t], run.offset) = Entries(reviews[t])
        BY <1>1, <1>2 DEF After, Entries, IInv, RunInv
      <3> QED
        BY <2>1, <2>3, <2>4, <3>1 DEF ReviewsMirrored, upstream
    <2>9. RunInv'
      BY <1>1, <2>1, <2>3 DEF RunInv, ReviewState, upstream
    <2> QED
      BY <2>6, <2>7, <2>8, <2>9 DEF IInv
  <1> QED
    BY <1>3, <1>4

LEMMA ReviewsPageStep ==
    ASSUME IInv, ReviewsPage
    PROVE  IInv'
  <1> DEFINE t == Head(run.todo)
             items == PageOf(reviews[t], run.offset, PageLimit)
             next == run.offset + PageLimit
             last(total) == items = <<>> \/ (total # 0 /\ next >= total)
  <1>1. run \in Run /\ run.pc = "reviews" /\ run.todo # <<>> /\ session \in [Review -> State]
    BY DEF ReviewsPage, IInv, TypeOK, RunInv
  <1>2. t \in Token /\ reviews[t] \in Seq(Review) /\ run.offset \in Nat /\ run.pages \in Nat
    BY <1>1, Fields, HeadTailProperties DEF IInv, TypeOK
  <1>3. PICK total \in {0, Len(reviews[t])} :
           IF last(total) \/ run.pages + 1 = MaxPages
           THEN /\ Counted(Mirrored(items))
                /\ owed' = IF last(total) THEN owed ELSE Nothing
           ELSE /\ run' = [run EXCEPT !.offset = next, !.pages = @ + 1, !.tries = 0]
                /\ session' = Mirrored(items)
                /\ UNCHANGED <<upstream, stored, there, owed>>
    BY DEF ReviewsPage, Totals
  <1>4. /\ items \in Seq(Review)
        /\ After(reviews[t], run.offset) \subseteq Entries(items) \cup After(reviews[t], next)
        /\ items = <<>> => After(reviews[t], run.offset) = {}
        /\ After(reviews[t], next) \subseteq After(reviews[t], run.offset)
        /\ next >= Len(reviews[t]) => After(reviews[t], next) = {}
    BY <1>2, Bounds, Paging
  <1>5. Mirrored(items) \in [Review -> State]
    BY <1>1 DEF Mirrored, ReviewState, State
  <1>6. \A r \in DOMAIN owed :
           \/ AtLeast(Mirrored(items)[r], owed[r])
           \/ r \in After(reviews[t], next)
    <2> TAKE r \in DOMAIN owed
    <2>1. r \in Review /\ (owed[r] = "revoked" => r \in revoked)
      BY DEF IInv, TypeOK, RunInv
    <2>2. CASE r \in Entries(items)
      BY <2>1, <2>2 DEF Mirrored, ReviewState, AtLeast
    <2>3. CASE r \notin Entries(items)
      <3>1. Mirrored(items)[r] = session[r]
        BY <2>1, <2>3 DEF Mirrored
      <3>2. AtLeast(session[r], owed[r]) \/ r \in After(reviews[t], run.offset)
        BY <1>1 DEF IInv, ReviewsMirrored
      <3> QED
        BY <1>4, <2>3, <3>1, <3>2
    <2> QED
      BY <2>2, <2>3
  <1>7. CASE last(total) \/ run.pages + 1 = MaxPages
    <2>1. Counted(Mirrored(items)) /\ owed' = IF last(total) THEN owed ELSE Nothing
      BY <1>3, <1>7
    <2>2. last(total) => After(reviews[t], next) = {}
      <3>1. CASE items = <<>>
        BY <1>4, <3>1
      <3>2. CASE total # 0 /\ next >= total
        BY <1>3, <1>4, <3>2
      <3> QED
        BY <3>1, <3>2
    <2>3. \A r \in DOMAIN owed' : AtLeast(Mirrored(items)[r], owed'[r])
      BY <1>6, <2>1, <2>2 DEF Nothing
    <2>4. owed' = owed \/ owed' = Nothing
      BY <2>1
    <2> QED
      BY <1>1, <1>5, <2>1, <2>3, <2>4, CountedStep
  <1>8. CASE ~(last(total) \/ run.pages + 1 = MaxPages)
    <2>1. /\ run' = [run EXCEPT !.offset = next, !.pages = @ + 1, !.tries = 0]
          /\ session' = Mirrored(items)
          /\ UNCHANGED <<upstream, stored, there, owed>>
      BY <1>3, <1>8
    <2>2. next \in Nat /\ run.pages + 1 \in Nat /\ 0 \in 0 .. Attempts - 1
      BY <1>2, Bounds
    <2>3. /\ run' \in Run /\ run'.pc = "reviews" /\ run'.todo = run.todo /\ run'.offset = next
          /\ run'.found = run.found /\ run'.buffer = run.buffer
      BY <1>1, <2>1, <2>2 DEF Run
    <2>4. TypeOK'
      BY <1>5, <2>1, <2>3 DEF IInv, TypeOK, upstream
    <2>5. NothingHidden'
      BY <1>1, <2>1, <2>3, FoundKept DEF IInv
    <2>6. ReviewsMirrored'
      BY <1>6, <2>1, <2>3 DEF ReviewsMirrored, upstream
    <2>7. RunInv'
      BY <1>1, <2>1, <2>3 DEF IInv, RunInv, upstream
    <2> QED
      BY <2>4, <2>5, <2>6, <2>7 DEF IInv
  <1> QED
    BY <1>7, <1>8

LEMMA ReviewsBareStep ==
    ASSUME IInv, ReviewsBare
    PROVE  IInv'
  <1> DEFINE items == PageOf(reviews[Head(run.todo)], run.offset, PageLimit)
  <1>1. /\ run.pc = "reviews" /\ run.todo # <<>> /\ session \in [Review -> State]
        /\ Counted(Mirrored(items)) /\ owed' = Nothing
    BY DEF ReviewsBare, IInv, RunInv, TypeOK
  <1>2. Mirrored(items) \in [Review -> State]
    BY <1>1 DEF Mirrored, ReviewState, State
  <1>3. \A r \in DOMAIN owed' : AtLeast(Mirrored(items)[r], owed'[r])
    BY <1>1 DEF Nothing
  <1> QED
    BY <1>1, <1>2, <1>3, CountedStep

LEMMA ReviewsCutStep ==
    ASSUME IInv, ReviewsCut
    PROVE  IInv'
  <1>1. /\ run.pc = "reviews" /\ run.todo # <<>> /\ session \in [Review -> State]
        /\ Counted(session) /\ owed' = Nothing
    BY DEF ReviewsCut, IInv, RunInv, TypeOK
  <1>2. \A r \in DOMAIN owed' : AtLeast(session[r], owed'[r])
    BY <1>1 DEF Nothing
  <1> QED
    BY <1>1, <1>2, CountedStep

LEMMA FinishStep ==
    ASSUME IInv, Finish
    PROVE  IInv'
  <1>1. run' = IdleRun /\ IdleRun \in Run /\ run'.pc = "idle" /\ run'.offset = 0
    BY FreshRuns DEF Finish, IInv, TypeOK
  <1>2. TypeOK'
    BY <1>1 DEF Finish, IInv, TypeOK, upstream
  <1>3. NothingHidden'
    BY DEF Finish, NothingHidden
  <1>4. ReviewsMirrored'
    BY MirrorKept DEF Finish, IInv
  <1>5. RunInv'
    BY <1>1 DEF Finish, IInv, RunInv, upstream
  <1> QED
    BY <1>2, <1>3, <1>4, <1>5 DEF IInv

-----------------------------------------------------------------------------
(* The theorems.                                                           *)

LEMMA Initially == Init => IInv
  <1> SUFFICES ASSUME Init PROVE IInv
    OBVIOUS
  <1>1. IdleRun \in Run /\ run.pc = "idle" /\ run.offset = 0
    <2>1. <<>> \in Seq(Token \cup Foreign) /\ <<>> \in Seq(Token)
      OBVIOUS
    <2>2. 0 \in 0 .. MaxStrikes /\ 0 \in 0 .. Attempts - 1
      BY Bounds
    <2> QED
      BY <2>1, <2>2 DEF Init, IdleRun, Run
  <1>2. DOMAIN owed = {} /\ owed \in [DOMAIN owed -> State]
    BY DEF Init, Nothing
  <1>3. TypeOK
    BY <1>1, <1>2 DEF Init, TypeOK, State
  <1>4. NothingHidden /\ ReviewsMirrored /\ RunInv
    BY <1>1, <1>2 DEF Init, NothingHidden, ReviewsMirrored, RunInv
  <1> QED
    BY <1>3, <1>4 DEF IInv

LEMMA Stutters == IInv /\ UNCHANGED vars => IInv'
  BY DEF vars, upstream, IInv, TypeOK, NothingHidden, ReviewsMirrored, RunInv, Cursor

\* Every step of the run, of the registry and of a failure keeps the invariant.
LEMMA Steps ==
    ASSUME IInv, [Next]_vars
    PROVE  IInv'
  <1>1. CASE Upstream
    BY <1>1, AddAgentStep, RemoveAgentStep, AddReviewStep, RevokeStep DEF Upstream
  <1>2. CASE StartRun
    BY <1>2, StartRunStep
  <1>3. CASE Retry
    BY <1>3, RetryStep DEF Retry, LastTry
  <1>4. CASE ListingPage
    BY <1>4, ListingPageStep
  <1>5. CASE TakeEntry
    BY <1>5, TakeEntryStep
  <1>6. CASE PageCap \/ ListingMissing
    BY <1>6, CutListingStep DEF PageCap, ListingMissing, AsksPage
  <1>7. CASE \E f \in Failure : ListingFails(f)
    BY <1>7, ListingThrottledStep, Death DEF ListingFails, AsksPage
  <1>8. CASE \E f \in Failure : DetailFails(f)
    BY <1>8, DetailSkippedStep, Death DEF DetailFails
  <1>9. CASE DetailAnswered
    BY <1>9, DetailAnsweredStep
  <1>10. CASE DetailMissing
    BY <1>10, DetailSkippedStep DEF DetailMissing
  <1>11. CASE ReviewsPage
    BY <1>11, ReviewsPageStep
  <1>12. CASE ReviewsRetry
    BY <1>12, RetryStep DEF ReviewsRetry, LastTry
  <1>13. CASE ReviewsCut
    BY <1>13, ReviewsCutStep
  <1>14. CASE Finish
    BY <1>14, FinishStep
  <1>15. CASE RunDies
    BY <1>15, Death DEF RunDies
  <1>16. CASE ReviewsBare
    BY <1>16, ReviewsBareStep
  <1>17. CASE UNCHANGED vars
    BY <1>17, Stutters
  <1> QED
    BY <1>1, <1>2, <1>3, <1>4, <1>5, <1>6, <1>7, <1>8, <1>9, <1>10, <1>11, <1>12, <1>13,
       <1>14, <1>15, <1>16, <1>17 DEF Next, Crawl

\* The inductive invariant: both walks hold, page by page, what they promise.
THEOREM Invariance == Spec => []IInv
  <1>1. Init => IInv
    BY Initially
  <1>2. IInv /\ [Next]_vars => IInv'
    BY Steps
  <1> QED
    BY <1>1, <1>2, PTL DEF Spec

\* A run that nothing cut short has found every agent that was listed all the
\* time, wherever the registry inserted others, but for one per removal.
THEOREM ListingIsCovered ==
    Spec => [](run.pc \in {"detail", "reviews"} => there \subseteq Entries(run.found) \cup Entries(run.buffer))
  <1>1. IInv => (run.pc \in {"detail", "reviews"} => there \subseteq Entries(run.found) \cup Entries(run.buffer))
    BY DEF IInv, NothingHidden
  <1> QED
    BY <1>1, Invariance, PTL

\* When a walk of reviews that nothing cut short is over, every review that
\* was there when it began is in the session, as it was then or newer.
THEOREM ReviewsAreCovered ==
    Spec => [](run.pc # "reviews" => \A r \in DOMAIN owed : AtLeast(session[r], owed[r]))
  <1>1. IInv => (run.pc # "reviews" => \A r \in DOMAIN owed : AtLeast(session[r], owed[r]))
    BY DEF IInv, ReviewsMirrored
  <1> QED
    BY <1>1, Invariance, PTL
=============================================================================
