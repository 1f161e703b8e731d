--------------------------- MODULE SosoTransport ---------------------------
(***************************************************************************)
(* The transport every SoSoValue read goes through, request() of           *)
(* lib/api/sosovalue.ts: a cache per path, four global backoffs, a         *)
(* negative cache per path, sharing of reads in flight, a token bucket     *)
(* with a queue of dispatch slots behind it, and one retry.                *)
(*                                                                         *)
(* JavaScript runs request() without interruption up to its first await,   *)
(* which is after the read was entered in `inflight`; what follows runs in *)
(* steps between which other calls, answers and timers interleave.         *)
(*                                                                         *)
(* Instants are kept as the time left until them, 0 once they are past, so *)
(* no clock has to be bounded; one unit is the grain at which calls arrive *)
(* and timers fire, and a timer fires in the unit it is due in.  The       *)
(* bucket's level is kept in units of time too: MIN_GAP of them make one   *)
(* token, and it fills by one per unit, which is what the refill computed  *)
(* at the next call amounts to.                                            *)
(*                                                                         *)
(* A call that ends without touching the state (a cache hit, a backoff, a  *)
(* negative cache hit, a read joined, a queue too long) is a stuttering    *)
(* step.  Payloads, log lines, the browser's proxy branch and the signal    *)
(* Next.js throws while prerendering are left out.                         *)
(***************************************************************************)
EXTENDS Integers

CONSTANTS
    Paths,
    NumFlights,         \* BOUND: reads in flight at once
    MIN_GAP, BUCKET_CAPACITY, MAX_QUEUE_WAIT,
    Ttl,                \* path -> ttlFor(path)
    AUTH_BACKOFF, QUOTA_BACKOFF, RATE_LIMIT_BACKOFF, TRANSIENT_BACKOFF,
    TRANSPORT_BACKOFF, NOT_FOUND_TTL, FETCH_TIMEOUT, RETRY_DELAY,
    Window              \* how far back the calls on the wire are observed

Flights == 1..NumFlights

ASSUME TransportAssumption ==
    /\ NumFlights \in Nat \ {0}
    /\ MIN_GAP \in Nat \ {0} /\ BUCKET_CAPACITY \in Nat \ {0}
    /\ MAX_QUEUE_WAIT \in Nat
    /\ Ttl \in [Paths -> Nat]
    /\ {AUTH_BACKOFF, QUOTA_BACKOFF, RATE_LIMIT_BACKOFF, TRANSIENT_BACKOFF,
        TRANSPORT_BACKOFF, NOT_FOUND_TTL, FETCH_TIMEOUT, RETRY_DELAY} \subseteq Nat
    /\ TRANSPORT_BACKOFF <= TRANSIENT_BACKOFF
    /\ FETCH_TIMEOUT > 0
    /\ Window \in Nat \ {0}

VARIABLES
    credit,     \* state.tokens * MIN_GAP
    nextSlot,   \* state.nextSlotAt
    backoff,    \* authInvalid, quotaExhausted, rateLimited, transientError Until
    notFound,   \* state.notFoundUntil
    cache,      \* state.cache: is there an entry, and how long is it fresh
    inflight,   \* the keys of state.inflight
    flights,    \* the promises that are running
    sent,       \* age -> first attempts of the last age + 1 units (observed)
    resent      \* age -> retries of the last age + 1 units (observed)

wire == <<sent, resent>>
vars == <<credit, nextSlot, backoff, notFound, cache, inflight, flights, wire>>

\* How long after its first attempt a read retries at the latest.
RETRY_LAG == FETCH_TIMEOUT + RETRY_DELAY
Ages == 0..(Window - 1)
\* Old enough for every retry of the window.
SentAges == 0..(Window + RETRY_LAG - 1)

Backoffs == {"auth", "quota", "rate", "transient"}
NoFlight == [phase |-> "none", path |-> "none", timer |-> 0, cached |-> FALSE]
Live(f) == flights[f].phase # "none"

Init ==
    /\ credit = BUCKET_CAPACITY * MIN_GAP
    /\ nextSlot = 0
    /\ backoff = [b \in Backoffs |-> 0]
    /\ notFound = [p \in Paths |-> 0]
    /\ cache = [p \in Paths |-> [known |-> FALSE, ttl |-> 0]]
    /\ inflight = {}
    /\ flights = [f \in Flights |-> NoFlight]
    /\ sent = [age \in SentAges |-> 0]
    /\ resent = [age \in Ages |-> 0]

-----------------------------------------------------------------------------
(* request(), up to its first await *)

Fresh(p) == cache[p].ttl > 0

\* (faulty variant)
InBackoffNever == FALSE
InBackoff == \E b \in Backoffs : backoff[b] > 0

\* (faulty variant)
JoinableNever(p) == FALSE
Joinable(p) == p \in inflight

\* Nothing answers the call without the network.
MustFetch(p) == ~ Fresh(p) /\ ~ InBackoff /\ notFound[p] = 0 /\ ~ Joinable(p)

\* `cached`, read when the call starts and returned when the read fails.
\* (faulty variant)
CachedIfFresh(p) == Fresh(p)
Cached(p) == cache[p].known

\* The read is entered in flights and in inflight.
Enter(p, phase, timer) ==
    /\ \E f \in Flights :
          /\ ~ Live(f) /\ \A g \in Flights : g < f => Live(g)
          /\ flights' = [flights EXCEPT ![f] =
                 [phase |-> phase, path |-> p, timer |-> timer, cached |-> Cached(p)]]
    /\ inflight' = inflight \cup {p}

CountSent ==
    /\ sent' = [age \in SentAges |-> sent[age] + 1]
    /\ UNCHANGED resent
CountRetry ==
    /\ resent' = [age \in Ages |-> resent[age] + 1]
    /\ UNCHANGED sent

TokenAvailable == credit >= MIN_GAP

\* A token is available: the call goes out at once.
StartNow(p) ==
    /\ MustFetch(p)
    /\ TokenAvailable
    /\ credit' = credit - MIN_GAP
    /\ Enter(p, "first", FETCH_TIMEOUT)
    /\ CountSent
    /\ UNCHANGED <<nextSlot, backoff, notFound, cache>>

\* (faulty variant)
SlotWithoutClaim(slot) == nextSlot' = nextSlot
ClaimSlot(slot) == nextSlot' = slot

\* The next free slot is claimed and waited for, if it is not too far away.
StartQueued(p) ==
    LET slot == nextSlot + MIN_GAP IN
    /\ MustFetch(p)
    /\ ~ TokenAvailable
    /\ slot <= MAX_QUEUE_WAIT
    /\ ClaimSlot(slot)
    /\ Enter(p, "queued", slot)
    /\ UNCHANGED <<credit, backoff, notFound, cache, wire>>

-----------------------------------------------------------------------------
(* The promise *)

MoveTo(f, phase, timer) ==
    flights' = [flights EXCEPT ![f].phase = phase, ![f].timer = timer]

\* The slot has come.
Dispatch(f) ==
    /\ flights[f].phase = "queued" /\ flights[f].timer = 0
    /\ MoveTo(f, "first", FETCH_TIMEOUT)
    /\ CountSent
    /\ UNCHANGED <<credit, nextSlot, backoff, notFound, cache, inflight>>

\* The first fetch throws: wait and try once more.
Throw(f) ==
    /\ flights[f].phase = "first"
    /\ MoveTo(f, "pause", RETRY_DELAY)
    /\ UNCHANGED <<credit, nextSlot, backoff, notFound, cache, inflight, wire>>

\* The second fetch goes out at once, whatever the bucket and the queue hold.
Retry(f) ==
    /\ flights[f].phase = "pause" /\ flights[f].timer = 0
    /\ MoveTo(f, "second", FETCH_TIMEOUT)
    /\ CountRetry
    /\ UNCHANGED <<credit, nextSlot, backoff, notFound, cache, inflight>>

Fetching(f) == flights[f].phase \in {"first", "second"}

\* The finally block.
\* (faulty variant)
SettleUndeleted(f) ==
    /\ flights' = [flights EXCEPT ![f] = NoFlight]
    /\ UNCHANGED inflight
Settle(f) ==
    /\ flights' = [flights EXCEPT ![f] = NoFlight]
    /\ inflight' = inflight \ {flights[f].path}

\* 200 with a good envelope.
Answered(f) ==
    LET p == flights[f].path IN
    /\ Fetching(f)
    /\ cache' = [cache EXCEPT ![p] = [known |-> TRUE, ttl |-> Ttl[p]]]
    /\ Settle(f)
    /\ UNCHANGED <<credit, nextSlot, backoff, notFound, wire>>

\* How long an error answer of each class silences the transport.
BackoffOf == [auth |-> AUTH_BACKOFF, quota |-> QUOTA_BACKOFF,
              rate |-> RATE_LIMIT_BACKOFF, transient |-> TRANSIENT_BACKOFF]

Refused(f) ==
    /\ Fetching(f)
    /\ \E b \in Backoffs : backoff' = [backoff EXCEPT ![b] = BackoffOf[b]]
    /\ Settle(f)
    /\ UNCHANGED <<credit, nextSlot, notFound, cache, wire>>

PathBlocked(f) ==
    /\ Fetching(f)
    /\ notFound' = [notFound EXCEPT ![flights[f].path] = NOT_FOUND_TTL]
    /\ Settle(f)
    /\ UNCHANGED <<credit, nextSlot, backoff, cache, wire>>

\* An error of no class (a bad parameter, a body that is not JSON).
Unclassified(f) ==
    /\ Fetching(f)
    /\ Settle(f)
    /\ UNCHANGED <<credit, nextSlot, backoff, notFound, cache, wire>>

\* (faulty variant)
ShortBackoff(left) == TRANSPORT_BACKOFF
LongerBackoff(left) == IF left > TRANSPORT_BACKOFF THEN left ELSE TRANSPORT_BACKOFF

\* No complete body arrived: the second fetch threw, or a body stalled.
Unreachable(f) ==
    /\ Fetching(f)
    /\ backoff' = [backoff EXCEPT !.transient = LongerBackoff(@)]
    /\ Settle(f)
    /\ UNCHANGED <<credit, nextSlot, notFound, cache, wire>>

-----------------------------------------------------------------------------
Less(n) == IF n > 0 THEN n - 1 ELSE 0
\* (faulty variant)
RefillUncapped == credit + 1
Refill == IF credit < BUCKET_CAPACITY * MIN_GAP THEN credit + 1 ELSE credit

\* Time passes; no timer of a promise is overdue, fetches are aborted in time.
Tick ==
    /\ \A f \in Flights : Live(f) => flights[f].timer > 0
    /\ credit' = Refill
    /\ nextSlot' = Less(nextSlot)
    /\ backoff' = [b \in Backoffs |-> Less(backoff[b])]
    /\ notFound' = [p \in Paths |-> Less(notFound[p])]
    /\ cache' = [p \in Paths |-> [cache[p] EXCEPT !.ttl = Less(@)]]
    /\ flights' = [f \in Flights |-> [flights[f] EXCEPT !.timer = Less(@)]]
    /\ sent' = [age \in SentAges |-> IF age = 0 THEN 0 ELSE sent[age - 1]]
    /\ resent' = [age \in Ages |-> IF age = 0 THEN 0 ELSE resent[age - 1]]
    /\ UNCHANGED inflight

Call == \E p \in Paths : StartNow(p) \/ StartQueued(p)
Progress(f) == Dispatch(f) \/ Throw(f) \/ Retry(f) \/ Answered(f) \/ Refused(f)
                 \/ PathBlocked(f) \/ Unclassified(f) \/ Unreachable(f)

Next == Call \/ Tick \/ \E f \in Flights : Progress(f)

Spec == Init /\ [][Next]_vars

\* Time passes, and a fetch ends because it is aborted after FETCH_TIMEOUT_MS.
FairSpec == Spec /\ WF_vars(Tick) /\ \A f \in Flights : WF_vars(Progress(f))

-----------------------------------------------------------------------------
(* Properties *)

Phases == {"none", "queued", "first", "pause", "second"}
TypeOK ==
    /\ credit \in 0..(BUCKET_CAPACITY * MIN_GAP)
    /\ nextSlot \in 0..MAX_QUEUE_WAIT
    /\ backoff \in [Backoffs -> Nat]
    /\ notFound \in [Paths -> Nat]
    /\ cache \in [Paths -> [known : BOOLEAN, ttl : Nat]]
    /\ inflight \subseteq Paths
    /\ flights \in [Flights -> [phase : Phases, path : Paths \cup {"none"},
                                timer : Nat, cached : BOOLEAN]]
    /\ sent \in [SentAges -> Nat]
    /\ resent \in [Ages -> Nat]

\* Parallel reads of a path share one promise, and a path without a promise is
\* never left marked as being read (L461-463, L656-661).
OneReadPerPath ==
    /\ inflight = {flights[f].path : f \in {g \in Flights : Live(g)}}
    /\ \A f, g \in Flights :
          Live(f) /\ Live(g) /\ f # g => flights[f].path # flights[g].path

\* Stale on failure: the entry a read took from the cache before it waited is
\* still the one to fall back on when it fails, so a path that was read once is
\* never answered with synthetic data again (L234-235, L443, L645, L654).
SnapshotCurrent ==
    \A f \in Flights : Live(f) => flights[f].cached = cache[flights[f].path].known

\* The queue is what it is meant to be: no caller waits longer than the cap,
\* two callers' slots are a gap apart, and the cursor is past the last of them,
\* whatever ended, expired or was answered meanwhile (L465-495).
QueueIsSpaced ==
    \A f \in Flights :
        flights[f].phase = "queued" =>
            /\ flights[f].timer <= nextSlot /\ nextSlot <= MAX_QUEUE_WAIT
            /\ \A g \in Flights :
                  f # g /\ flights[g].phase = "queued" =>
                      \/ flights[f].timer >= flights[g].timer + MIN_GAP
                      \/ flights[g].timer >= flights[f].timer + MIN_GAP

\* What tokens and slots can pay for in age + 1 units: a bucketful, what the
\* bucket gains meanwhile, and one slot per gap beside it.
Allowance(age) == BUCKET_CAPACITY + age \div MIN_GAP + age \div MIN_GAP + 1

\* The calls on the wire in any span of time.  First attempts keep to what the
\* bucket and the queue allow.  A retry (L534) asks neither of them, so first
\* attempts and retries together may exceed that allowance (a burst that times
\* out is repeated as a burst); but a read is sent again once at most, and soon,
\* so the total is bounded by what was allowed for the span and for the span that
\* began the lag of a retry earlier (L477-495, L524-535).
RateBound ==
    \A age \in Ages :
        /\ sent[age] <= Allowance(age)
        /\ resent[age] <= sent[age + RETRY_LAG]
        /\ sent[age] + resent[age] <= Allowance(age) + Allowance(age + RETRY_LAG)

\* A late failure never shortens a backoff that another read has set: what ends
\* a backoff is the time (L575-610, L641-644).
BackoffNeverShortened ==
    [][\A b \in Backoffs :
          backoff'[b] >= backoff[b] \/ (backoff'[b] = backoff[b] - 1 /\ Tick)]_vars

\* Every read ends, however the upstream fails, and its path may be read again
\* (L504-512, L656-658).
EveryReadEnds == \A p \in Paths : p \in inflight ~> p \notin inflight

\* The backoffs expire together again and again although reads that were
\* already queued keep failing and renew them: no upstream, however broken,
\* silences the transport for ever (L448-452, L516).
BackoffsEnd == []<>(\A b \in Backoffs : backoff[b] = 0)

=============================================================================
