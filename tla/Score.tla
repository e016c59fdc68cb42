-------------------------------- MODULE Score --------------------------------
(***************************************************************************)
(* The activity score of app/services/agent_score.py.  Scores are whole    *)
(* points; a weighted sum is kept as a fraction and rounded once, as       *)
(* Python rounds it: to the nearest, a tie to the even neighbour.          *)
(***************************************************************************)
EXTENDS Integers, FiniteSets

RoundHalfEven(n, d) ==
    LET q == n \div d
        r == n % d
    IN  IF 2 * r > d \/ (2 * r = d /\ q % 2 = 1) THEN q + 1 ELSE q

AtMost(n, limit) == IF n <= limit THEN n ELSE limit

LatencyPoints(ms) ==
    CASE ms <= 300 -> 100
      [] 300 < ms /\ ms <= 1000 -> 75
      [] 1000 < ms /\ ms <= 3000 -> 50
      [] 3000 < ms /\ ms <= 10000 -> 25
      [] OTHER -> 0

\* What the GET of a card can meet: a 2xx or 401 that is a JSON object, a 401
\* that is none, a 2xx that is none, any other status, a 429, a timeout, a
\* broken connection.
Answer == {"card", "unauthorized", "garbled", "status", "throttled", "timeout", "refused"}

\* Answers after which the GET is made once more, RetryWait milliseconds later;
\* a 429 may have another wait in its Retry-After.
Retried == {"throttled", "timeout", "refused"}
RetryWait == 60000

Waited(card, first) ==
    CASE first \notin Retried -> 0
      [] first = "throttled"  -> card.retryAfter
      [] OTHER                -> RetryWait

\* A probe as probe_termix_card returns it: responded, latency_ms since the
\* first attempt, online (presence = "online") and skills_count, 0 when the
\* card lists none.
Verdict(card, first, second) ==
    LET answer == IF first \in Retried THEN second ELSE first
    IN  [responded |-> answer \in {"card", "unauthorized"},
         latency |-> card.latency + Waited(card, first),
         online |-> answer = "card" /\ card.online,
         skills |-> IF answer = "card" THEN card.skills ELSE 0]

RespondedPoints(p) == IF p.responded THEN 100 ELSE 0
PresencePoints(p) == IF p.online THEN 100 ELSE 50
SkillsPoints(p) == AtMost(p.skills, 10) * 10

\* The weights of the probe pillar, in tenths.
PROBE_WEIGHTS == [responded |-> 5, latency |-> 3, presence |-> 1, skills |-> 1]

ProbePillar(p) ==
    LET w == PROBE_WEIGHTS
    IN  RoundHalfEven(w.responded * RespondedPoints(p) + w.latency * LatencyPoints(p.latency)
                        + w.presence * PresencePoints(p) + w.skills * SkillsPoints(p), 10)

\* The track record of an agent from its rows of onchain_agent_events: the
\* transactions and buyers of the window, its age in months (6 when it is
\* unknown: both give 50 points), and the whole days since its newest event.
TRACK_WINDOW_DAYS == 90
ZERO_ADDRESS == 0

TrackRecord(rows, age) ==
    LET window == {e \in rows : e.days < TRACK_WINDOW_DAYS}
        days == {e.days : e \in window}
    IN  [events |-> Cardinality({e.tx : e \in window}),
         buyers |-> Cardinality({e.to : e \in {x \in window : x.from # ZERO_ADDRESS}}),
         age |-> age,
         recency |-> IF days = {} THEN 0 ELSE CHOOSE d \in days : \A o \in days : d <= o]

\* recency_days is 0 in the first 24 hours after an event, and 30.0 / 0 raises.
Raises(t) == t.events > 0 /\ t.recency = 0

TrackPillar(t) ==
    IF t.events = 0 THEN 50
    ELSE RoundHalfEven(RoundHalfEven(AtMost(t.age, 12) * 100, 12)
                         + AtMost(t.events, 10) * 10
                         + AtMost(t.buyers, 10) * 10
                         + (IF t.recency <= 30 THEN 100 ELSE RoundHalfEven(3000, t.recency)), 4)

\* Without a probe the track record alone is the score.
Composite(pillar, track) == RoundHalfEven(6 * pillar + 4 * track, 10)
==============================================================================
