------------------------ MODULE SosoTransportProofs ------------------------
(***************************************************************************)
(* What holds of the transport for any number of paths and reads, any      *)
(* bucket and queue, and any backoffs and timeouts.                        *)
(*                                                                         *)
(* The inductive invariant has five parts beside the types: how flights,   *)
(* inflight and the cache fit together (OneReadPerPath, SnapshotCurrent),   *)
(* how the queue's slots are spaced (QueueIsSpaced), how long a backoff can  *)
(* be (BackoffsBounded), where every first attempt came from (SentAccounted) *)
(* and which first attempt every retry repeats (RetriesAccounted).  The last *)
(* two are what RateBound needs: tokens, slots and retries are bounded each  *)
(* by something else.                                                        *)
(***************************************************************************)
EXTENDS SosoTransport, FiniteSetTheorems, TLAPS

Flight == [phase : Phases, path : Paths \cup {"none"}, timer : Nat,
           cached : BOOLEAN]

-----------------------------------------------------------------------------
(* Arithmetic: how often a gap fits into a span *)

LEMMA ProductNat ==
    ASSUME NEW a \in Nat, NEW b \in Nat
    PROVE  a * b \in Nat
OBVIOUS

LEMMA ProductMono ==
    ASSUME NEW a \in Nat, NEW b \in Nat, NEW g \in Nat, a <= b
    PROVE  a * g <= b * g
OBVIOUS

LEMMA ProductStep ==
    ASSUME NEW a \in Nat, NEW g \in Nat
    PROVE  (a + 1) * g = a * g + g
OBVIOUS

LEMMA DivIs ==
    ASSUME NEW a \in Nat, NEW g \in Nat \ {0}
    PROVE  /\ a \div g \in Nat
           /\ (a \div g) * g <= a
           /\ a < (a \div g) * g + g
OBVIOUS

\* What fits k times into a span fits k times by division.
LEMMA DivBound ==
    ASSUME NEW a \in Nat, NEW g \in Nat \ {0}, NEW k \in Nat, k * g <= a
    PROVE  k <= a \div g
<1> DEFINE q == a \div g
<1>1. q \in Nat /\ a < q * g + g
  BY DivIs
<1>2. SUFFICES ASSUME q + 1 <= k PROVE FALSE
  BY <1>1
<1>3. (q + 1) * g <= k * g
  BY <1>1, <1>2, ProductMono
<1>4. (q + 1) * g = q * g + g
  BY <1>1, ProductStep
<1>5. k * g \in Nat /\ q * g \in Nat
  BY <1>1, ProductNat
<1> QED
  BY <1>1, <1>3, <1>4, <1>5

LEMMA DivMono ==
    ASSUME NEW a \in Nat, NEW b \in Nat, NEW g \in Nat \ {0}, a <= b
    PROVE  a \div g <= b \div g
<1>1. a \div g \in Nat /\ (a \div g) * g <= a /\ (a \div g) * g \in Nat
  BY DivIs, ProductNat
<1>2. (a \div g) * g <= b
  BY <1>1
<1> QED
  BY <1>1, <1>2, DivBound

\* A span longer by a gap holds one more of them.
LEMMA DivStep ==
    ASSUME NEW a \in Nat, NEW b \in Nat, NEW g \in Nat \ {0}, a + g <= b
    PROVE  a \div g + 1 <= b \div g
<1> DEFINE q == a \div g
<1>1. q \in Nat /\ q * g <= a /\ q * g \in Nat
  BY DivIs, ProductNat
<1>2. (q + 1) * g = q * g + g
  BY <1>1, ProductStep
<1>3. (q + 1) * g <= b /\ q + 1 \in Nat
  BY <1>1, <1>2
<1> QED
  BY <1>3, DivBound

-----------------------------------------------------------------------------
(* The values the variables take *)

LEMMA Constants ==
    /\ NumFlights \in Nat /\ MIN_GAP \in Nat \ {0} /\ BUCKET_CAPACITY \in Nat
    /\ MAX_QUEUE_WAIT \in Nat /\ Window \in Nat \ {0}
    /\ FETCH_TIMEOUT \in Nat /\ RETRY_DELAY \in Nat /\ NOT_FOUND_TTL \in Nat
    /\ Ttl \in [Paths -> Nat]
    /\ BUCKET_CAPACITY * MIN_GAP \in Nat
    /\ RETRY_LAG \in Nat
BY TransportAssumption, ProductNat DEF RETRY_LAG

LEMMA AgeFacts ==
    /\ SentAges \subseteq Nat /\ Ages \subseteq Nat /\ Ages \subseteq SentAges
    /\ \A a \in Ages : a + RETRY_LAG \in SentAges
    /\ \A m \in SentAges : m >= RETRY_LAG => m - RETRY_LAG \in Ages
    /\ \A m \in SentAges : m # 0 => m - 1 \in SentAges
    /\ \A a \in Ages : a # 0 => a - 1 \in Ages
BY Constants DEF SentAges, Ages

LEMMA BackoffTimes ==
    /\ BackoffOf \in [Backoffs -> Nat]
    /\ TRANSPORT_BACKOFF \in Nat /\ TRANSPORT_BACKOFF <= BackoffOf["transient"]
BY TransportAssumption DEF BackoffOf, Backoffs

\* A read that is started takes a free slot, and nothing else of `flights`.
LEMMA EnterTakesFreeSlot ==
    ASSUME TypeOK, NEW p \in Paths, NEW phase \in Phases, NEW timer \in Nat,
           Enter(p, phase, timer)
    PROVE  \E f \in Flights :
              /\ ~ Live(f)
              /\ flights' = [flights EXCEPT ![f] =
                     [phase |-> phase, path |-> p, timer |-> timer,
                      cached |-> Cached(p)]]
              /\ flights' \in [Flights -> Flight]
              /\ inflight' = inflight \cup {p}
              /\ inflight' \subseteq Paths
<1>1. PICK f \in Flights :
         /\ ~ Live(f)
         /\ flights' = [flights EXCEPT ![f] =
                [phase |-> phase, path |-> p, timer |-> timer,
                 cached |-> Cached(p)]]
  BY DEF Enter
<1>2. Cached(p) \in BOOLEAN
  BY DEF TypeOK, Cached
<1>3. [phase |-> phase, path |-> p, timer |-> timer, cached |-> Cached(p)]
         \in Flight
  BY <1>2 DEF Flight
<1>4. flights \in [Flights -> Flight]
  BY DEF TypeOK, Flight
<1>5. flights' \in [Flights -> Flight]
  BY <1>1, <1>3, <1>4
<1>6. inflight' = inflight \cup {p} /\ inflight' \subseteq Paths
  BY DEF Enter, TypeOK
<1> QED
  BY <1>1, <1>5, <1>6

\* The finally block frees the slot.
LEMMA SettleFreesSlot ==
    ASSUME TypeOK, NEW f \in Flights, Settle(f)
    PROVE  /\ flights' = [flights EXCEPT ![f] = NoFlight]
           /\ flights' \in [Flights -> Flight]
           /\ inflight' = inflight \ {flights[f].path}
           /\ inflight' \subseteq Paths
<1>1. NoFlight \in Flight
  BY DEF NoFlight, Flight, Phases
<1>2. flights \in [Flights -> Flight] /\ inflight \subseteq Paths
  BY DEF TypeOK, Flight
<1> QED
  BY <1>1, <1>2 DEF Settle

LEMMA MoveToTypes ==
    ASSUME TypeOK, NEW f \in Flights, NEW phase \in Phases, NEW timer \in Nat,
           MoveTo(f, phase, timer)
    PROVE  flights' \in [Flights -> Flight]
BY DEF TypeOK, MoveTo, Flight

LEMMA WireTypes ==
    ASSUME TypeOK, CountSent \/ CountRetry \/ UNCHANGED wire
    PROVE  sent' \in [SentAges -> Nat] /\ resent' \in [Ages -> Nat]
BY DEF TypeOK, CountSent, CountRetry, wire

LEMMA TypeInit == Init => TypeOK
<1> SUFFICES ASSUME Init PROVE TypeOK
  OBVIOUS
<1>1. NoFlight \in Flight
  BY DEF NoFlight, Flight, Phases
<1>2. flights \in [Flights -> Flight]
  BY <1>1 DEF Init
<1> QED
  BY <1>2, Constants DEF Init, TypeOK, Flight

LEMMA TypeCall ==
    ASSUME TypeOK, NEW p \in Paths, StartNow(p) \/ StartQueued(p)
    PROVE  TypeOK'
<1>1. CASE StartNow(p)
  <2>1. "first" \in Phases /\ FETCH_TIMEOUT \in Nat
    BY Constants DEF Phases
  <2>2. flights' \in [Flights -> Flight] /\ inflight' \subseteq Paths
    BY <1>1, <2>1, EnterTakesFreeSlot DEF StartNow
  <2>3. credit' \in 0..(BUCKET_CAPACITY * MIN_GAP)
    BY <1>1, Constants DEF StartNow, TokenAvailable, TypeOK
  <2>4. sent' \in [SentAges -> Nat] /\ resent' \in [Ages -> Nat]
    BY <1>1, WireTypes DEF StartNow
  <2> QED
    BY <1>1, <2>2, <2>3, <2>4 DEF StartNow, TypeOK, Flight
<1>2. CASE StartQueued(p)
  <2>1. "queued" \in Phases /\ nextSlot + MIN_GAP \in Nat
    BY Constants DEF Phases, TypeOK
  <2>2. flights' \in [Flights -> Flight] /\ inflight' \subseteq Paths
    BY <1>2, <2>1, EnterTakesFreeSlot DEF StartQueued
  <2>3. nextSlot' \in 0..MAX_QUEUE_WAIT
    BY <1>2, <2>1, Constants DEF StartQueued, ClaimSlot
  <2> QED
    BY <1>2, <2>2, <2>3 DEF StartQueued, TypeOK, Flight, wire
<1> QED
  BY <1>1, <1>2

LEMMA TypeTick ==
    ASSUME TypeOK, Tick
    PROVE  TypeOK'
<1>1. \A n \in Nat : Less(n) \in Nat /\ Less(n) <= n
  BY DEF Less
<1>2. credit' \in 0..(BUCKET_CAPACITY * MIN_GAP)
  BY Constants DEF Tick, Refill, TypeOK
<1>3. nextSlot' \in 0..MAX_QUEUE_WAIT
  BY <1>1, Constants DEF Tick, TypeOK
<1>4. backoff' \in [Backoffs -> Nat] /\ notFound' \in [Paths -> Nat]
  BY <1>1 DEF Tick, TypeOK
<1>5. cache' \in [Paths -> [known : BOOLEAN, ttl : Nat]]
  BY <1>1 DEF Tick, TypeOK
<1>6. flights' \in [Flights -> Flight]
  BY <1>1 DEF Tick, TypeOK, Flight
<1>7. sent' \in [SentAges -> Nat]
  BY AgeFacts DEF Tick, TypeOK
<1>8. resent' \in [Ages -> Nat]
  BY AgeFacts DEF Tick, TypeOK
<1> QED
  BY <1>2, <1>3, <1>4, <1>5, <1>6, <1>7, <1>8 DEF Tick, TypeOK, Flight

LEMMA TypeProgress ==
    ASSUME TypeOK, NEW f \in Flights, Progress(f)
    PROVE  TypeOK'
<1>1. {"first", "second", "pause"} \subseteq Phases
  BY DEF Phases
<1>2. CASE Dispatch(f)
  BY <1>1, <1>2, Constants, MoveToTypes, WireTypes DEF Dispatch, TypeOK, Flight
<1>3. CASE Throw(f)
  BY <1>1, <1>3, Constants, MoveToTypes DEF Throw, TypeOK, Flight, wire
<1>4. CASE Retry(f)
  BY <1>1, <1>4, Constants, MoveToTypes, WireTypes DEF Retry, TypeOK, Flight
<1>5. CASE Answered(f)
  <2>1. cache' \in [Paths -> [known : BOOLEAN, ttl : Nat]]
    BY <1>5, Constants DEF Answered, TypeOK
  <2> QED
    BY <1>5, <2>1, SettleFreesSlot DEF Answered, TypeOK, Flight, wire
<1>6. CASE Refused(f)
  <2>1. backoff' \in [Backoffs -> Nat]
    BY <1>6, BackoffTimes DEF Refused, TypeOK
  <2> QED
    BY <1>6, <2>1, SettleFreesSlot DEF Refused, TypeOK, Flight, wire
<1>7. CASE PathBlocked(f)
  <2>1. notFound' \in [Paths -> Nat]
    BY <1>7, Constants DEF PathBlocked, TypeOK
  <2> QED
    BY <1>7, <2>1, SettleFreesSlot DEF PathBlocked, TypeOK, Flight, wire
<1>8. CASE Unclassified(f)
  BY <1>8, SettleFreesSlot DEF Unclassified, TypeOK, Flight, wire
<1>9. CASE Unreachable(f)
  <2>1. backoff' \in [Backoffs -> Nat]
    BY <1>9, BackoffTimes DEF Unreachable, LongerBackoff, TypeOK
  <2> QED
    BY <1>9, <2>1, SettleFreesSlot DEF Unreachable, TypeOK, Flight, wire
<1> QED
  BY <1>2, <1>3, <1>4, <1>5, <1>6, <1>7, <1>8, <1>9 DEF Progress

LEMMA TypeStep == TypeOK /\ [Next]_vars => TypeOK'
<1> SUFFICES ASSUME TypeOK, [Next]_vars PROVE TypeOK'
  OBVIOUS
<1>1. CASE Call
  BY <1>1, TypeCall DEF Call
<1>2. CASE Tick
  BY <1>2, TypeTick
<1>3. CASE \E f \in Flights : Progress(f)
  BY <1>3, TypeProgress
<1>4. CASE UNCHANGED vars
  BY <1>4 DEF vars, wire, TypeOK
<1> QED
  BY <1>1, <1>2, <1>3, <1>4 DEF Next

\* The variables keep their types: in particular the bucket is never overdrawn
\* or overfilled and the cursor of the queue never passes the cap
\* (sosovalue.ts L465-495).
THEOREM Types == Spec => []TypeOK
BY TypeInit, TypeStep, PTL DEF Spec

-----------------------------------------------------------------------------
(* What a step does to the reads in flight *)

\* The three ways flights and inflight change together in a step that is not
\* a tick.
Entered(f, p, phase, timer) ==
    /\ ~ Live(f) /\ p \in Paths /\ ~ Joinable(p)
    /\ flights' = [flights EXCEPT ![f] =
           [phase |-> phase, path |-> p, timer |-> timer, cached |-> Cached(p)]]
    /\ inflight' = inflight \cup {p}
Moved(f, phase, timer) ==
    /\ Live(f)
    /\ flights' = [flights EXCEPT ![f].phase = phase, ![f].timer = timer]
    /\ inflight' = inflight
Settled(f) ==
    /\ Live(f)
    /\ flights' = [flights EXCEPT ![f] = NoFlight]
    /\ inflight' = inflight \ {flights[f].path}

LEMMA CallEnters ==
    ASSUME TypeOK, NEW p \in Paths, StartNow(p) \/ StartQueued(p)
    PROVE  \E f \in Flights :
              \/ /\ Entered(f, p, "first", FETCH_TIMEOUT)
                 /\ StartNow(p)
              \/ /\ Entered(f, p, "queued", nextSlot + MIN_GAP)
                 /\ StartQueued(p)
<1>1. ~ Joinable(p)
  BY DEF StartNow, StartQueued, MustFetch
<1>2. CASE StartNow(p)
  <2>1. "first" \in Phases /\ FETCH_TIMEOUT \in Nat
    BY Constants DEF Phases
  <2>2. Enter(p, "first", FETCH_TIMEOUT)
    BY <1>2 DEF StartNow
  <2> QED
    BY <1>1, <1>2, <2>1, <2>2, EnterTakesFreeSlot DEF Entered
<1>3. CASE StartQueued(p)
  <2>1. "queued" \in Phases /\ nextSlot + MIN_GAP \in Nat
    BY Constants DEF Phases, TypeOK
  <2>2. Enter(p, "queued", nextSlot + MIN_GAP)
    BY <1>3 DEF StartQueued
  <2> QED
    BY <1>1, <1>3, <2>1, <2>2, EnterTakesFreeSlot DEF Entered
<1> QED
  BY <1>2, <1>3

LEMMA ProgressMovesOrSettles ==
    ASSUME TypeOK, NEW f \in Flights, Progress(f)
    PROVE  \/ /\ \/ Moved(f, "first", FETCH_TIMEOUT)
                 \/ Moved(f, "pause", RETRY_DELAY)
                 \/ Moved(f, "second", FETCH_TIMEOUT)
              /\ cache' = cache
           \/ /\ Settled(f)
              /\ \/ cache' = cache
                 \/ cache' = [cache EXCEPT ![flights[f].path] =
                                  [known |-> TRUE, ttl |-> Ttl[flights[f].path]]]
<1>1. CASE Dispatch(f) \/ Throw(f) \/ Retry(f)
  BY <1>1 DEF Dispatch, Throw, Retry, MoveTo, Moved, Live
<1>2. CASE Answered(f)
  BY <1>2 DEF Answered, Fetching, Settle, Settled, Live
<1>3. CASE Refused(f) \/ PathBlocked(f) \/ Unclassified(f) \/ Unreachable(f)
  BY <1>3 DEF Refused, PathBlocked, Unclassified, Unreachable, Fetching, Settle,
              Settled, Live
<1> QED
  BY <1>1, <1>2, <1>3 DEF Progress

\* A tick changes neither which reads are in flight nor what is cached.
LEMMA TickKeepsReads ==
    ASSUME TypeOK, Tick
    PROVE  /\ flights' \in [Flights -> Flight]
           /\ \A f \in Flights : /\ flights'[f].phase = flights[f].phase
                                 /\ flights'[f].path = flights[f].path
                                 /\ flights'[f].cached = flights[f].cached
                                 /\ flights'[f].timer = Less(flights[f].timer)
           /\ \A p \in Paths : cache'[p].known = cache[p].known
           /\ inflight' = inflight
<1>1. TypeOK'
  BY TypeTick
<1> QED
  BY <1>1 DEF Tick, TypeOK, Flight

-----------------------------------------------------------------------------
(* One read per path, with the entry it can fall back on *)

ReadsInv == TypeOK /\ OneReadPerPath /\ SnapshotCurrent

LEMMA LivePath ==
    ASSUME ReadsInv, NEW f \in Flights, Live(f)
    PROVE  flights[f].path \in inflight /\ flights[f].path \in Paths
BY DEF ReadsInv, OneReadPerPath, TypeOK

LEMMA ReadsInit == Init => OneReadPerPath /\ SnapshotCurrent
<1> SUFFICES ASSUME Init PROVE OneReadPerPath /\ SnapshotCurrent
  OBVIOUS
<1>1. inflight = {} /\ \A f \in Flights : ~ Live(f)
  BY DEF Init, Live, NoFlight
<1> QED
  BY <1>1 DEF OneReadPerPath, SnapshotCurrent

LEMMA ReadsEntered ==
    ASSUME ReadsInv, NEW f \in Flights, NEW p, NEW phase, NEW timer,
           phase # "none", Entered(f, p, phase, timer), cache' = cache
    PROVE  OneReadPerPath' /\ SnapshotCurrent'
<1>1. /\ \A g \in Flights : g # f => flights'[g] = flights[g]
      /\ flights'[f] = [phase |-> phase, path |-> p, timer |-> timer,
                        cached |-> Cached(p)]
  BY DEF Entered, ReadsInv, TypeOK
<1>2. /\ \A g \in Flights : g # f => Live(g)' = Live(g)
      /\ Live(f)' /\ ~ Live(f)
  BY <1>1 DEF Live, Entered
<1>3. p \notin inflight
  BY DEF Entered, Joinable
<1>4. OneReadPerPath'
  <2>1. inflight' = {flights'[g].path : g \in {h \in Flights : Live(h)'}}
    BY <1>1, <1>2 DEF ReadsInv, OneReadPerPath, Entered
  <2>2. ASSUME NEW g \in Flights, NEW h \in Flights, Live(g)', Live(h)', g # h
        PROVE  flights'[g].path # flights'[h].path
    BY <1>1, <1>2, <1>3, <2>2, LivePath DEF ReadsInv, OneReadPerPath
  <2> QED
    BY <2>1, <2>2 DEF OneReadPerPath, Live
<1>5. SnapshotCurrent'
  BY <1>1, <1>2 DEF ReadsInv, SnapshotCurrent, Cached
<1> QED
  BY <1>4, <1>5

LEMMA ReadsMoved ==
    ASSUME ReadsInv, NEW f \in Flights, NEW phase, NEW timer,
           phase # "none", Moved(f, phase, timer), cache' = cache
    PROVE  OneReadPerPath' /\ SnapshotCurrent'
<1>1. \A g \in Flights : /\ flights'[g].path = flights[g].path
                         /\ flights'[g].cached = flights[g].cached
                         /\ Live(g)' = Live(g)
  BY DEF Moved, ReadsInv, TypeOK, Live
<1>2. {flights'[g].path : g \in {h \in Flights : Live(h)'}}
         = {flights[g].path : g \in {h \in Flights : Live(h)}}
  BY <1>1
<1>3. OneReadPerPath'
  <2>1. inflight' = {flights'[g].path : g \in {h \in Flights : Live(h)'}}
    BY <1>2 DEF ReadsInv, OneReadPerPath, Moved
  <2>2. ASSUME NEW g \in Flights, NEW h \in Flights, Live(g)', Live(h)', g # h
        PROVE  flights'[g].path # flights'[h].path
    BY <1>1, <2>2 DEF ReadsInv, OneReadPerPath
  <2> QED
    BY <2>1, <2>2 DEF OneReadPerPath, Live
<1>4. SnapshotCurrent'
  BY <1>1 DEF ReadsInv, SnapshotCurrent
<1> QED
  BY <1>3, <1>4

LEMMA ReadsSettled ==
    ASSUME ReadsInv, NEW f \in Flights, Settled(f),
           \/ cache' = cache
           \/ cache' = [cache EXCEPT ![flights[f].path] =
                            [known |-> TRUE, ttl |-> Ttl[flights[f].path]]]
    PROVE  OneReadPerPath' /\ SnapshotCurrent'
<1> DEFINE p == flights[f].path
<1>1. /\ \A g \in Flights : g # f => flights'[g] = flights[g]
      /\ flights'[f] = NoFlight
  BY DEF Settled, ReadsInv, TypeOK
<1>2. /\ \A g \in Flights : g # f => Live(g)' = Live(g)
      /\ ~ Live(f)'
  BY <1>1 DEF Live, NoFlight
<1>3. \A g \in Flights : Live(g) /\ g # f => flights[g].path # p
  BY DEF ReadsInv, OneReadPerPath, Settled
<1>4. OneReadPerPath'
  <2>1. inflight' = {flights'[g].path : g \in {h \in Flights : Live(h)'}}
    BY <1>1, <1>2, <1>3 DEF ReadsInv, OneReadPerPath, Settled
  <2>2. ASSUME NEW g \in Flights, NEW h \in Flights, Live(g)', Live(h)', g # h
        PROVE  flights'[g].path # flights'[h].path
    BY <1>1, <1>2, <2>2 DEF ReadsInv, OneReadPerPath
  <2> QED
    BY <2>1, <2>2 DEF OneReadPerPath, Live
<1>5. SnapshotCurrent'
  <2>1. \A q \in Paths : q # p => cache'[q].known = cache[q].known
    BY DEF ReadsInv, TypeOK
  <2>2. ASSUME NEW g \in Flights, Live(g)'
        PROVE  flights'[g].cached = cache'[flights'[g].path].known
    BY <1>1, <1>2, <1>3, <2>1, <2>2, LivePath DEF ReadsInv, SnapshotCurrent
  <2> QED
    BY <2>2 DEF SnapshotCurrent, Live
<1> QED
  BY <1>4, <1>5

LEMMA ReadsStep == ReadsInv /\ [Next]_vars => ReadsInv'
<1> SUFFICES ASSUME ReadsInv, [Next]_vars PROVE OneReadPerPath' /\ SnapshotCurrent'
  BY TypeStep DEF ReadsInv
<1>0. TypeOK
  BY DEF ReadsInv
<1>1. CASE Call
  <2>1. PICK p \in Paths : StartNow(p) \/ StartQueued(p)
    BY <1>1 DEF Call
  <2>2. cache' = cache
    BY <2>1 DEF StartNow, StartQueued
  <2> QED
    BY <1>0, <2>1, <2>2, CallEnters, ReadsEntered
<1>2. CASE Tick
  <2>1. /\ \A f \in Flights : /\ flights'[f].path = flights[f].path
                              /\ flights'[f].cached = flights[f].cached
                              /\ Live(f)' = Live(f)
        /\ inflight' = inflight
        /\ \A p \in Paths : cache'[p].known = cache[p].known
    BY <1>0, <1>2, TickKeepsReads DEF Live
  <2>2. \A f \in Flights : Live(f) => flights[f].path \in Paths
    BY LivePath
  <2> QED
    BY <2>1, <2>2 DEF ReadsInv, OneReadPerPath, SnapshotCurrent, Live
<1>3. CASE \E f \in Flights : Progress(f)
  BY <1>0, <1>3, ProgressMovesOrSettles, ReadsMoved, ReadsSettled
<1>4. CASE UNCHANGED vars
  BY <1>4 DEF vars, ReadsInv, OneReadPerPath, SnapshotCurrent, Live
<1> QED
  BY <1>1, <1>2, <1>3, <1>4 DEF Next

LEMMA ReadsAlways == Spec => []ReadsInv
<1>1. Init => ReadsInv
  BY TypeInit, ReadsInit DEF ReadsInv
<1> QED
  BY <1>1, ReadsStep, PTL DEF Spec

\* However many callers read however many paths, no path is read twice at a
\* time, and `inflight` names exactly the paths being read (sosovalue.ts
\* L461-463, L656-661).
THEOREM ReadsAreShared == Spec => []OneReadPerPath
BY ReadsAlways, PTL DEF ReadsInv

\* What a read saw in the cache before it waited is still what the cache holds
\* when it fails (sosovalue.ts L443, L645, L654).
THEOREM SnapshotStaysCurrent == Spec => []SnapshotCurrent
BY ReadsAlways, PTL DEF ReadsInv

-----------------------------------------------------------------------------
(* The queue *)

QueueInv == TypeOK /\ QueueIsSpaced
Queued(f) == flights[f].phase = "queued"
ApartBy(x, y, gap) == x >= y + gap \/ y >= x + gap

\* QueueIsSpaced, said of the queue after a step.
LEMMA QueueNext ==
    ASSUME \A f \in Flights : Queued(f)' =>
               /\ flights'[f].timer <= nextSlot' /\ nextSlot' <= MAX_QUEUE_WAIT
               /\ \A g \in Flights : f # g /\ Queued(g)' =>
                     ApartBy(flights'[f].timer, flights'[g].timer, MIN_GAP)
    PROVE  QueueIsSpaced'
BY DEF QueueIsSpaced, Queued, ApartBy

LEMMA QueueCalled ==
    ASSUME QueueInv, NEW p \in Paths, StartNow(p) \/ StartQueued(p)
    PROVE  QueueIsSpaced'
<1>0. TypeOK
  BY DEF QueueInv
<1>1. ASSUME NEW f \in Flights, Entered(f, p, "first", FETCH_TIMEOUT), StartNow(p)
      PROVE  QueueIsSpaced'
  <2>1. /\ \A g \in Flights : g # f => flights'[g] = flights[g]
        /\ ~ Queued(f)' /\ nextSlot' = nextSlot
    BY <1>0, <1>1 DEF Entered, TypeOK, Queued, StartNow
  <2> QED
    BY <2>1 DEF QueueInv, QueueIsSpaced, Queued
<1>2. ASSUME NEW f \in Flights, Entered(f, p, "queued", nextSlot + MIN_GAP),
             StartQueued(p)
      PROVE  QueueIsSpaced'
  <2>1. /\ \A g \in Flights : g # f => flights'[g] = flights[g]
        /\ flights'[f].timer = nextSlot + MIN_GAP
        /\ nextSlot' = nextSlot + MIN_GAP /\ nextSlot' <= MAX_QUEUE_WAIT
    BY <1>0, <1>2 DEF Entered, TypeOK, StartQueued, ClaimSlot
  <2>2. \A g \in Flights : g # f /\ Queued(g)' =>
            /\ flights'[g].timer = flights[g].timer
            /\ flights[g].timer \in Nat /\ flights[g].timer <= nextSlot
    BY <2>1 DEF QueueInv, QueueIsSpaced, Queued, TypeOK
  <2>3. nextSlot \in Nat /\ MIN_GAP \in Nat /\ MAX_QUEUE_WAIT \in Nat
    BY <1>0, Constants DEF TypeOK
  <2>4. ASSUME NEW g \in Flights, NEW h \in Flights, g # h, Queued(g)', Queued(h)'
        PROVE  ApartBy(flights'[g].timer, flights'[h].timer, MIN_GAP)
    <3>1. CASE g = f
      BY <2>1, <2>2, <2>3, <2>4, <3>1 DEF ApartBy
    <3>2. CASE h = f
      BY <2>1, <2>2, <2>3, <2>4, <3>2 DEF ApartBy
    <3>3. CASE g # f /\ h # f
      BY <2>1, <2>4, <3>3 DEF QueueInv, QueueIsSpaced, Queued, ApartBy
    <3> QED
      BY <3>1, <3>2, <3>3
  <2>5. ASSUME NEW g \in Flights, Queued(g)'
        PROVE  flights'[g].timer <= nextSlot' /\ nextSlot' <= MAX_QUEUE_WAIT
    BY <2>1, <2>2, <2>3, <2>5
  <2> QED
    BY <2>4, <2>5, QueueNext
<1> QED
  BY <1>0, <1>1, <1>2, CallEnters

LEMMA QueueTicked ==
    ASSUME QueueInv, Tick
    PROVE  QueueIsSpaced'
<1>0. TypeOK
  BY DEF QueueInv
<1>1. \A f \in Flights : Queued(f)' = Queued(f)
  BY <1>0, TickKeepsReads DEF Queued
<1>2. \A f \in Flights : Queued(f) =>
          /\ flights[f].timer \in Nat /\ flights[f].timer > 0
          /\ flights'[f].timer = flights[f].timer - 1
  BY <1>0, TickKeepsReads DEF Queued, Tick, Live, Less, TypeOK
<1>3. nextSlot \in Nat /\ MAX_QUEUE_WAIT \in Nat /\ MIN_GAP \in Nat
      /\ nextSlot' = IF nextSlot > 0 THEN nextSlot - 1 ELSE 0
  BY <1>0, Constants DEF TypeOK, Tick, Less
<1>4. ASSUME NEW f \in Flights, Queued(f)'
      PROVE  flights'[f].timer <= nextSlot' /\ nextSlot' <= MAX_QUEUE_WAIT
  BY <1>1, <1>2, <1>3, <1>4 DEF QueueInv, QueueIsSpaced, Queued
<1>5. ASSUME NEW f \in Flights, NEW g \in Flights, f # g, Queued(f)', Queued(g)'
      PROVE  ApartBy(flights'[f].timer, flights'[g].timer, MIN_GAP)
  <2>1. ApartBy(flights[f].timer, flights[g].timer, MIN_GAP)
    BY <1>1, <1>5 DEF QueueInv, QueueIsSpaced, Queued, ApartBy
  <2> QED
    BY <1>1, <1>2, <1>3, <1>5, <2>1 DEF ApartBy
<1> QED
  BY <1>4, <1>5, QueueNext

\* A read that goes on or ends leaves the queue or was not in it.
LEMMA QueueProgress ==
    ASSUME QueueInv, NEW f \in Flights, Progress(f)
    PROVE  QueueIsSpaced'
<1>0. TypeOK
  BY DEF QueueInv
<1>1. /\ \A g \in Flights : g # f => flights'[g] = flights[g]
      /\ ~ Queued(f)'
  <2>1. CASE Settled(f)
    BY <1>0, <2>1 DEF Settled, TypeOK, Queued, NoFlight
  <2>2. CASE \/ Moved(f, "first", FETCH_TIMEOUT)
             \/ Moved(f, "pause", RETRY_DELAY)
             \/ Moved(f, "second", FETCH_TIMEOUT)
    BY <1>0, <2>2 DEF Moved, TypeOK, Queued
  <2> QED
    BY <1>0, <2>1, <2>2, ProgressMovesOrSettles
<1>2. nextSlot' = nextSlot
  BY DEF Progress, Dispatch, Throw, Retry, Answered, Refused, PathBlocked,
         Unclassified, Unreachable
<1> QED
  BY <1>1, <1>2 DEF QueueInv, QueueIsSpaced, Queued

LEMMA QueueStep == QueueInv /\ [Next]_vars => QueueInv'
<1> SUFFICES ASSUME QueueInv, [Next]_vars PROVE QueueIsSpaced'
  BY TypeStep DEF QueueInv
<1>1. CASE Call
  BY <1>1, QueueCalled DEF Call
<1>2. CASE Tick
  BY <1>2, QueueTicked
<1>3. CASE \E f \in Flights : Progress(f)
  BY <1>3, QueueProgress
<1>4. CASE UNCHANGED vars
  BY <1>4 DEF vars, QueueInv, QueueIsSpaced
<1> QED
  BY <1>1, <1>2, <1>3, <1>4 DEF Next

LEMMA QueueAlways == Spec => []QueueInv
<1>1. Init => QueueIsSpaced
  BY DEF Init, QueueIsSpaced, NoFlight
<1>2. Init => QueueInv
  BY <1>1, TypeInit DEF QueueInv
<1> QED
  BY <1>2, QueueStep, PTL DEF Spec

\* Nobody in the queue waits longer than the cap, and any two slots are a gap
\* apart, however many reads were queued, ended or expired meanwhile
\* (sosovalue.ts L465-495).
THEOREM QueueStaysSpaced == Spec => []QueueIsSpaced
BY QueueAlways, PTL DEF QueueInv

-----------------------------------------------------------------------------
(* Backoffs *)

\* A backoff lasts at most as long as its class silences the transport.
BackoffsBounded == \A b \in Backoffs : backoff[b] <= BackoffOf[b]
BackoffInv == TypeOK /\ BackoffsBounded

LEMMA BackoffChanges ==
    ASSUME BackoffInv, [Next]_vars
    PROVE  \/ backoff' = backoff
           \/ Tick /\ backoff' = [b \in Backoffs |-> Less(backoff[b])]
           \/ \E b \in Backoffs : backoff' = [backoff EXCEPT ![b] = BackoffOf[b]]
           \/ backoff' = [backoff EXCEPT !["transient"] = LongerBackoff(@)]
BY DEF Next, vars, Call, StartNow, StartQueued, Tick, Progress, Dispatch, Throw,
       Retry, Answered, Refused, PathBlocked, Unclassified, Unreachable

LEMMA BackoffStep ==
    ASSUME BackoffInv, [Next]_vars
    PROVE  /\ BackoffInv'
           /\ \A b \in Backoffs :
                 backoff'[b] >= backoff[b]
                    \/ (backoff'[b] = backoff[b] - 1 /\ Tick)
<1>0. /\ backoff \in [Backoffs -> Nat]
      /\ \A b \in Backoffs : backoff[b] <= BackoffOf[b]
      /\ "transient" \in Backoffs
  BY DEF BackoffInv, TypeOK, BackoffsBounded, Backoffs
<1>1. TypeOK'
  BY TypeStep DEF BackoffInv
<1>2. CASE backoff' = backoff
  BY <1>0, <1>1, <1>2 DEF BackoffInv, BackoffsBounded
<1>3. CASE Tick /\ backoff' = [b \in Backoffs |-> Less(backoff[b])]
  BY <1>0, <1>1, <1>3, BackoffTimes DEF BackoffInv, BackoffsBounded, Less
<1>4. CASE \E b \in Backoffs : backoff' = [backoff EXCEPT ![b] = BackoffOf[b]]
  <2>1. PICK b \in Backoffs : backoff' = [backoff EXCEPT ![b] = BackoffOf[b]]
    BY <1>4
  <2>2. BackoffOf[b] \in Nat /\ backoff[b] <= BackoffOf[b]
    BY <1>0, BackoffTimes
  <2>3. /\ backoff'[b] = BackoffOf[b]
        /\ \A c \in Backoffs : c # b => backoff'[c] = backoff[c]
    BY <1>0, <2>1
  <2>4. \A c \in Backoffs : backoff'[c] <= BackoffOf[c] /\ backoff'[c] >= backoff[c]
    BY <1>0, <2>2, <2>3
  <2> QED
    BY <1>1, <2>4 DEF BackoffInv, BackoffsBounded
<1>5. CASE backoff' = [backoff EXCEPT !["transient"] = LongerBackoff(@)]
  BY <1>0, <1>1, <1>5, BackoffTimes DEF BackoffInv, BackoffsBounded, LongerBackoff
<1> QED
  BY <1>2, <1>3, <1>4, <1>5, BackoffChanges

LEMMA BackoffAlways == Spec => []BackoffInv
<1>1. Init => BackoffInv
  <2> SUFFICES ASSUME Init PROVE BackoffsBounded
    BY TypeInit DEF BackoffInv
  <2> QED
    BY BackoffTimes DEF Init, BackoffsBounded
<1>2. BackoffInv /\ [Next]_vars => BackoffInv'
  BY BackoffStep
<1> QED
  BY <1>1, <1>2, PTL DEF Spec

\* A failure that comes in late never shortens a backoff another read has set:
\* only time does (sosovalue.ts L575-610, L641-644).
THEOREM BackoffsOnlyExpire == Spec => BackoffNeverShortened
<1>1. BackoffInv /\ [Next]_vars =>
         [\A b \in Backoffs :
             backoff'[b] >= backoff[b]
                \/ (backoff'[b] = backoff[b] - 1 /\ Tick)]_vars
  BY BackoffStep
<1> QED
  BY <1>1, BackoffAlways, PTL DEF Spec, BackoffNeverShortened

-----------------------------------------------------------------------------
(* The rate *)

\* The first attempts of the last a + 1 units were paid for by tok[a] tokens or
\* waited for slots[a] slots.  Tokens come out of what the bucket held at the
\* start of the span and what it gained in it; slots are a gap apart, those
\* still to come from those in the span included.
Accounted(tok, slots) ==
    \A a \in SentAges :
        /\ sent[a] = tok[a] + slots[a]
        /\ tok[a] * MIN_GAP + credit <= BUCKET_CAPACITY * MIN_GAP + a
        /\ slots[a] <= a \div MIN_GAP + 1
        /\ \A f \in Flights :
              Queued(f) => slots[a] <= (a + flights[f].timer) \div MIN_GAP
SentAccounted ==
    \E tok \in [SentAges -> Nat] : \E slots \in [SentAges -> Nat] : Accounted(tok, slots)
RateInv == QueueInv /\ SentAccounted

LEMMA RateFacts ==
    ASSUME TypeOK
    PROVE  /\ MIN_GAP \in Nat \ {0} /\ credit \in Nat
           /\ BUCKET_CAPACITY * MIN_GAP \in Nat
           /\ credit <= BUCKET_CAPACITY * MIN_GAP
           /\ sent \in [SentAges -> Nat] /\ SentAges \subseteq Nat
           /\ \A f \in Flights : flights[f].timer \in Nat
BY Constants, AgeFacts DEF TypeOK

LEMMA RateInit == Init => SentAccounted
<1> SUFFICES ASSUME Init PROVE SentAccounted
  OBVIOUS
<1> DEFINE zero == [a \in SentAges |-> 0]
<1>1. MIN_GAP \in Nat \ {0} /\ BUCKET_CAPACITY * MIN_GAP \in Nat /\ SentAges \subseteq Nat
  BY Constants, AgeFacts
<1>2. \A a \in SentAges : a \div MIN_GAP \in Nat
  BY <1>1, DivIs
<1>3. ASSUME NEW a \in SentAges
      PROVE  /\ sent[a] = zero[a] + zero[a]
             /\ zero[a] * MIN_GAP + credit <= BUCKET_CAPACITY * MIN_GAP + a
             /\ zero[a] <= a \div MIN_GAP + 1
  <2>1. zero[a] = 0 /\ sent[a] = 0 /\ a \in Nat
        /\ credit = BUCKET_CAPACITY * MIN_GAP
    BY <1>1 DEF Init
  <2>2. zero[a] * MIN_GAP = 0
    BY <1>1, <2>1
  <2> HIDE DEF zero
  <2> QED
    BY <1>1, <1>2, <2>1, <2>2
<1>4. \A f \in Flights : ~ Queued(f)
  BY DEF Init, Queued, NoFlight
<1>5. Accounted(zero, zero)
  BY <1>3, <1>4 DEF Accounted
<1> QED
  BY <1>5 DEF SentAccounted

\* A call that takes a token.
LEMMA RateStartNow ==
    ASSUME RateInv, NEW p \in Paths, StartNow(p)
    PROVE  SentAccounted'
<1>0. TypeOK
  BY DEF RateInv, QueueInv
<1>1. PICK tok \in [SentAges -> Nat], slots \in [SentAges -> Nat] : Accounted(tok, slots)
  BY DEF RateInv, SentAccounted
<1>2. PICK f \in Flights : Entered(f, p, "first", FETCH_TIMEOUT)
  BY <1>0, CallEnters, Zenon DEF StartNow, StartQueued
<1>3. \A g \in Flights : Queued(g)' => Queued(g) /\ flights'[g] = flights[g]
  BY <1>0, <1>2 DEF Entered, TypeOK, Queued
<1> DEFINE more == [a \in SentAges |-> tok[a] + 1]
<1>4. more \in [SentAges -> Nat]
  OBVIOUS
<1>5. ASSUME NEW a \in SentAges
      PROVE  /\ sent'[a] = more[a] + slots[a]
             /\ more[a] * MIN_GAP + credit' <= BUCKET_CAPACITY * MIN_GAP + a
  <2>1. (tok[a] + 1) * MIN_GAP = tok[a] * MIN_GAP + MIN_GAP
    BY <1>0, RateFacts, ProductStep
  <2>2. tok[a] * MIN_GAP \in Nat
    BY <1>0, RateFacts, ProductNat
  <2>3. sent'[a] = sent[a] + 1 /\ credit' = credit - MIN_GAP
    BY DEF StartNow, CountSent
  <2>4. /\ sent[a] = tok[a] + slots[a]
        /\ tok[a] * MIN_GAP + credit <= BUCKET_CAPACITY * MIN_GAP + a
    BY <1>1 DEF Accounted
  <2> HIDE DEF more
  <2>5. more[a] = tok[a] + 1
    BY DEF more
  <2>6. more[a] * MIN_GAP = tok[a] * MIN_GAP + MIN_GAP
    BY <2>1, <2>5
  <2>7. a \in Nat
    BY <1>0, RateFacts
  <2> QED
    BY <1>0, <2>2, <2>3, <2>4, <2>5, <2>6, <2>7, RateFacts
<1>6. Accounted(more, slots)'
  BY <1>1, <1>3, <1>5 DEF Accounted
<1> QED
  BY <1>4, <1>6 DEF SentAccounted

\* A slot is claimed behind all that was dispatched.
LEMMA RateStartQueued ==
    ASSUME RateInv, NEW p \in Paths, StartQueued(p)
    PROVE  SentAccounted'
<1>0. TypeOK
  BY DEF RateInv, QueueInv
<1>1. PICK tok \in [SentAges -> Nat], slots \in [SentAges -> Nat] : Accounted(tok, slots)
  BY DEF RateInv, SentAccounted
<1>2. PICK f \in Flights : Entered(f, p, "queued", nextSlot + MIN_GAP)
  BY <1>0, CallEnters, Zenon DEF StartNow, StartQueued
<1>3. /\ \A g \in Flights : g # f => flights'[g] = flights[g]
      /\ flights'[f].timer = nextSlot + MIN_GAP
  BY <1>0, <1>2 DEF Entered, TypeOK
<1>4. sent' = sent /\ credit' = credit /\ nextSlot \in Nat
  BY <1>0 DEF StartQueued, TypeOK, wire
<1>5. ASSUME NEW a \in SentAges, NEW g \in Flights, Queued(g)'
      PROVE  slots[a] <= (a + flights'[g].timer) \div MIN_GAP
  <2>1. CASE g = f
    <3>1. a \div MIN_GAP + 1 <= (a + flights'[f].timer) \div MIN_GAP
      BY <1>0, <1>3, <1>4, RateFacts, DivStep
    <3>2. slots[a] <= a \div MIN_GAP + 1
      BY <1>1 DEF Accounted
    <3>3. a \div MIN_GAP \in Nat /\ (a + flights'[f].timer) \div MIN_GAP \in Nat
      BY <1>0, <1>3, <1>4, RateFacts, DivIs
    <3> QED
      BY <2>1, <3>1, <3>2, <3>3
  <2>2. CASE g # f
    BY <1>1, <1>3, <1>5, <2>2 DEF Accounted, Queued
  <2> QED
    BY <2>1, <2>2
<1>6. Accounted(tok, slots)'
  BY <1>1, <1>4, <1>5 DEF Accounted
<1> QED
  BY <1>6 DEF SentAccounted

\* A slot has come: those behind it are at least a gap away.
LEMMA RateDispatch ==
    ASSUME RateInv, NEW f \in Flights, Dispatch(f)
    PROVE  SentAccounted'
<1>0. TypeOK /\ QueueIsSpaced
  BY DEF RateInv, QueueInv
<1>1. PICK tok \in [SentAges -> Nat], slots \in [SentAges -> Nat] : Accounted(tok, slots)
  BY DEF RateInv, SentAccounted
<1>2. /\ \A g \in Flights : g # f => flights'[g] = flights[g]
      /\ ~ Queued(f)' /\ Queued(f) /\ flights[f].timer = 0
      /\ credit' = credit
  BY <1>0 DEF Dispatch, MoveTo, TypeOK, Queued
<1> DEFINE more == [a \in SentAges |-> slots[a] + 1]
<1>3. more \in [SentAges -> Nat]
  OBVIOUS
<1>4. ASSUME NEW a \in SentAges
      PROVE  slots[a] <= a \div MIN_GAP /\ a \div MIN_GAP \in Nat /\ a \in Nat
  BY <1>0, <1>1, <1>2, RateFacts, DivIs DEF Accounted
<1>5. ASSUME NEW a \in SentAges
      PROVE  /\ sent'[a] = tok[a] + more[a]
             /\ more[a] <= a \div MIN_GAP + 1
  <2>1. sent'[a] = sent[a] + 1 /\ sent[a] = tok[a] + slots[a]
    BY <1>1 DEF Dispatch, CountSent, Accounted
  <2> QED
    BY <1>4, <2>1
<1>6. ASSUME NEW a \in SentAges, NEW g \in Flights, Queued(g)'
      PROVE  more[a] <= (a + flights'[g].timer) \div MIN_GAP
  <2>1. g # f /\ Queued(g) /\ flights'[g] = flights[g]
    BY <1>2, <1>6 DEF Queued
  <2>2. flights[g].timer \in Nat /\ flights[g].timer >= MIN_GAP
    BY <1>0, <1>2, <2>1, RateFacts DEF QueueIsSpaced, Queued
  <2>3. a \div MIN_GAP + 1 <= (a + flights[g].timer) \div MIN_GAP
    BY <1>0, <1>4, <2>2, RateFacts, DivStep
  <2>4. (a + flights[g].timer) \div MIN_GAP \in Nat
    BY <1>0, <1>4, <2>2, RateFacts, DivIs
  <2> QED
    BY <1>4, <2>1, <2>3, <2>4
<1>7. Accounted(tok, more)'
  BY <1>1, <1>2, <1>5, <1>6 DEF Accounted
<1> QED
  BY <1>3, <1>7 DEF SentAccounted

\* A unit of time: the spans grow by it, and the bucket by a unit at most.
LEMMA RateTick ==
    ASSUME RateInv, Tick
    PROVE  SentAccounted'
<1>0. TypeOK /\ TypeOK'
  BY TypeTick DEF RateInv, QueueInv
<1>1. PICK tok \in [SentAges -> Nat], slots \in [SentAges -> Nat] : Accounted(tok, slots)
  BY DEF RateInv, SentAccounted
<1> DEFINE tok1 == [a \in SentAges |-> IF a = 0 THEN 0 ELSE tok[a - 1]]
           slots1 == [a \in SentAges |-> IF a = 0 THEN 0 ELSE slots[a - 1]]
<1>2. \A a \in SentAges : a # 0 => a - 1 \in SentAges
  BY AgeFacts
<1>3. tok1 \in [SentAges -> Nat] /\ slots1 \in [SentAges -> Nat]
  BY <1>2
<1>4. \A f \in Flights : Queued(f)' =>
          /\ Queued(f)
          /\ flights[f].timer \in Nat /\ flights[f].timer > 0
          /\ flights'[f].timer = flights[f].timer - 1
  BY <1>0, TickKeepsReads DEF Queued, Tick, Live, Less, TypeOK
<1>5. credit' <= credit + 1 /\ credit' \in Nat
      /\ credit' <= BUCKET_CAPACITY * MIN_GAP
  BY <1>0, RateFacts DEF Tick, Refill, TypeOK
<1>6. ASSUME NEW a \in SentAges
      PROVE  /\ sent'[a] = tok1[a] + slots1[a]
             /\ tok1[a] * MIN_GAP + credit' <= BUCKET_CAPACITY * MIN_GAP + a
             /\ slots1[a] <= a \div MIN_GAP + 1
             /\ \A f \in Flights :
                   Queued(f)' => slots1[a] <= (a + flights'[f].timer) \div MIN_GAP
  <2>1. a \in Nat /\ a \div MIN_GAP \in Nat
    BY <1>0, RateFacts, DivIs
  <2>2. CASE a = 0
    <3>1. tok1[a] = 0 /\ slots1[a] = 0 /\ sent'[a] = 0
      BY <2>2 DEF Tick
    <3>2. \A f \in Flights :
              Queued(f)' => (a + flights'[f].timer) \div MIN_GAP \in Nat
      BY <1>0, <1>4, <2>1, RateFacts, DivIs
    <3>3. tok1[a] * MIN_GAP = 0
      BY <1>0, <3>1, RateFacts
    <3> HIDE DEF tok1, slots1
    <3> QED
      BY <1>0, <1>5, <2>1, <3>1, <3>2, <3>3, RateFacts
  <2>3. CASE a # 0
    <3>1. /\ tok1[a] = tok[a - 1] /\ slots1[a] = slots[a - 1]
          /\ sent'[a] = sent[a - 1]
          /\ a - 1 \in SentAges /\ a - 1 \in Nat
      <4>1. a - 1 \in SentAges /\ a - 1 \in Nat
        BY <1>2, <2>1, <2>3
      <4> QED
        BY <2>3, <4>1 DEF Tick
    <3>2. /\ sent[a - 1] = tok[a - 1] + slots[a - 1]
          /\ tok[a - 1] * MIN_GAP + credit <= BUCKET_CAPACITY * MIN_GAP + (a - 1)
          /\ slots[a - 1] <= (a - 1) \div MIN_GAP + 1
          /\ \A f \in Flights : Queued(f) =>
                slots[a - 1] <= (a - 1 + flights[f].timer) \div MIN_GAP
      BY <1>1, <3>1 DEF Accounted
    <3>3. (a - 1) \div MIN_GAP <= a \div MIN_GAP /\ (a - 1) \div MIN_GAP \in Nat
      BY <1>0, <2>1, <3>1, RateFacts, DivMono, DivIs
    <3>4. tok[a - 1] * MIN_GAP \in Nat
      BY <1>0, <3>1, RateFacts, ProductNat
    <3>5. \A f \in Flights : Queued(f)' =>
              a - 1 + flights[f].timer = a + flights'[f].timer
      BY <1>4, <2>1
    <3> HIDE DEF tok1, slots1
    <3>6. tok1[a] * MIN_GAP = tok[a - 1] * MIN_GAP
      BY <3>1
    <3>7. tok1[a] * MIN_GAP + credit' <= BUCKET_CAPACITY * MIN_GAP + a
      BY <1>0, <1>5, <2>1, <3>2, <3>4, <3>6, RateFacts
    <3>8. slots1[a] <= a \div MIN_GAP + 1
      BY <2>1, <3>1, <3>2, <3>3
    <3>9. \A f \in Flights :
              Queued(f)' => slots1[a] <= (a + flights'[f].timer) \div MIN_GAP
      BY <1>4, <3>1, <3>2, <3>5
    <3> QED
      BY <3>1, <3>2, <3>7, <3>8, <3>9
  <2> QED
    BY <2>2, <2>3
<1> HIDE DEF tok1, slots1
<1>7. Accounted(tok1, slots1)'
  BY <1>6 DEF Accounted
<1> QED
  BY <1>3, <1>7 DEF SentAccounted

\* Whatever else happens makes no first attempt and puts nothing into the queue.
LEMMA RateUnsent ==
    ASSUME RateInv, sent' = sent, credit' = credit,
           \A f \in Flights : Queued(f)' => flights'[f] = flights[f]
    PROVE  SentAccounted'
<1>1. PICK tok \in [SentAges -> Nat], slots \in [SentAges -> Nat] : Accounted(tok, slots)
  BY DEF RateInv, SentAccounted
<1>2. Accounted(tok, slots)'
  BY <1>1 DEF Accounted, Queued
<1> QED
  BY <1>2 DEF SentAccounted

LEMMA RateProgress ==
    ASSUME RateInv, NEW f \in Flights, Progress(f), ~ Dispatch(f)
    PROVE  SentAccounted'
<1>0. TypeOK
  BY DEF RateInv, QueueInv
<1>1. sent' = sent /\ credit' = credit
  BY DEF Progress, Throw, Retry, CountRetry, Answered, Refused, PathBlocked,
         Unclassified, Unreachable, wire
<1>2. ASSUME NEW g \in Flights, Queued(g)'
      PROVE  flights'[g] = flights[g]
  <2>1. CASE Settled(f)
    BY <1>0, <1>2, <2>1 DEF Settled, TypeOK, Queued, NoFlight
  <2>2. CASE \/ Moved(f, "first", FETCH_TIMEOUT)
             \/ Moved(f, "pause", RETRY_DELAY)
             \/ Moved(f, "second", FETCH_TIMEOUT)
    BY <1>0, <1>2, <2>2 DEF Moved, TypeOK, Queued
  <2> QED
    BY <1>0, <2>1, <2>2, ProgressMovesOrSettles
<1> QED
  BY <1>1, <1>2, RateUnsent

LEMMA RateStep == RateInv /\ [Next]_vars => RateInv'
<1> SUFFICES ASSUME RateInv, [Next]_vars PROVE SentAccounted'
  BY QueueStep DEF RateInv
<1>1. CASE Call
  BY <1>1, RateStartNow, RateStartQueued DEF Call
<1>2. CASE Tick
  BY <1>2, RateTick
<1>3. CASE \E f \in Flights : Progress(f)
  BY <1>3, RateDispatch, RateProgress
<1>4. CASE UNCHANGED vars
  BY <1>4, RateUnsent DEF vars, wire
<1> QED
  BY <1>1, <1>2, <1>3, <1>4 DEF Next

\* First attempts keep to what the bucket and the queue allow.
LEMMA FirstAttemptsBounded ==
    ASSUME RateInv, NEW a \in SentAges
    PROVE  sent[a] <= Allowance(a)
<1>0. TypeOK
  BY DEF RateInv, QueueInv
<1>1. PICK tok \in [SentAges -> Nat], slots \in [SentAges -> Nat] : Accounted(tok, slots)
  BY DEF RateInv, SentAccounted
<1>2. /\ sent[a] = tok[a] + slots[a]
      /\ tok[a] * MIN_GAP + credit <= BUCKET_CAPACITY * MIN_GAP + a
      /\ slots[a] <= a \div MIN_GAP + 1
  BY <1>1 DEF Accounted
<1>3. a \in Nat /\ tok[a] * MIN_GAP \in Nat /\ a \div MIN_GAP \in Nat
  BY <1>0, RateFacts, ProductNat, DivIs
\* What the tokens beyond a bucketful take was gained within the span.
<1>4. tok[a] <= BUCKET_CAPACITY + a \div MIN_GAP
  <2>1. CASE tok[a] <= BUCKET_CAPACITY
    BY <1>3, <2>1, Constants
  <2>2. CASE tok[a] > BUCKET_CAPACITY
    <3>1. tok[a] - BUCKET_CAPACITY \in Nat
      BY <2>2, Constants
    <3>2. tok[a] * MIN_GAP = BUCKET_CAPACITY * MIN_GAP
                                + (tok[a] - BUCKET_CAPACITY) * MIN_GAP
      BY <2>2, Constants
    <3>3. (tok[a] - BUCKET_CAPACITY) * MIN_GAP \in Nat
      BY <3>1, Constants, ProductNat
    <3>4. (tok[a] - BUCKET_CAPACITY) * MIN_GAP <= a
      BY <1>0, <1>2, <1>3, <3>2, <3>3, RateFacts
    <3>5. tok[a] - BUCKET_CAPACITY <= a \div MIN_GAP
      BY <1>3, <3>1, <3>4, Constants, DivBound
    <3> QED
      BY <1>3, <3>1, <3>5, Constants
  <2> QED
    BY <2>1, <2>2, Constants
<1> QED
  BY <1>2, <1>3, <1>4, Constants DEF Allowance

\* Each retry repeats a first attempt of its own, made a lag of RETRY_LAG ago at
\* most; so does each read that may still be sent again.
Repeatable(f) == flights[f].phase \in {"first", "pause"}
\* How long ago its first attempt was made, at most.
Late(f) == IF flights[f].phase = "first" THEN FETCH_TIMEOUT - flights[f].timer
                                         ELSE RETRY_LAG - flights[f].timer
Pending(m) == {f \in Flights : Repeatable(f) /\ Late(f) <= m}
Repeats(m) == IF m >= RETRY_LAG THEN resent[m - RETRY_LAG] ELSE 0
TimersInTime ==
    \A f \in Flights :
        /\ flights[f].phase = "first" => flights[f].timer <= FETCH_TIMEOUT
        /\ flights[f].phase = "pause" => flights[f].timer <= RETRY_DELAY
RetriesAccounted ==
    \A m \in SentAges : Repeats(m) + Cardinality(Pending(m)) <= sent[m]
RetryInv == TypeOK /\ TimersInTime /\ RetriesAccounted

LEMMA FlightSets ==
    ASSUME NEW S \in SUBSET Flights
    PROVE  /\ IsFiniteSet(S) /\ Cardinality(S) \in Nat
           /\ \A T \in SUBSET S : Cardinality(T) <= Cardinality(S)
<1>1. IsFiniteSet(Flights)
  BY Constants, FS_Interval DEF Flights
<1>2. IsFiniteSet(S)
  BY <1>1, FS_Subset
<1> QED
  BY <1>2, FS_Subset, FS_CardinalityType

LEMMA RetryFacts ==
    ASSUME TypeOK, NEW m \in SentAges
    PROVE  /\ sent[m] \in Nat /\ Repeats(m) \in Nat /\ m \in Nat
           /\ Pending(m) \in SUBSET Flights /\ Cardinality(Pending(m)) \in Nat
           /\ \A f \in Flights : Late(f) \in Int
<1>1. Repeats(m) \in Nat
  BY AgeFacts DEF TypeOK, Repeats
<1>2. Pending(m) \in SUBSET Flights
  BY DEF Pending
<1>3. \A f \in Flights : Late(f) \in Int
  BY Constants DEF TypeOK, Late
<1> QED
  BY <1>1, <1>2, <1>3, AgeFacts, FlightSets DEF TypeOK

\* A step that sends nothing and makes no read repeatable, or later than it was.
LEMMA RetryUnsent ==
    ASSUME RetryInv, TypeOK', UNCHANGED wire,
           \A g \in Flights : Repeatable(g)' => Repeatable(g) /\ Late(g)' >= Late(g)
    PROVE  RetriesAccounted'
<1> SUFFICES ASSUME NEW m \in SentAges
             PROVE  (Repeats(m) + Cardinality(Pending(m)) <= sent[m])'
  BY DEF RetriesAccounted
<1>1. TypeOK
  BY DEF RetryInv
<1>2. Repeats(m)' = Repeats(m) /\ sent'[m] = sent[m]
  BY DEF Repeats, wire
<1>3. \A f \in Flights : Late(f) \in Int
  BY <1>1, RetryFacts
<1>4. \A f \in Flights : Late(f)' \in Int
  BY Constants DEF TypeOK, Late
<1>5. Pending(m)' \in SUBSET Pending(m)
  <2> SUFFICES ASSUME NEW f \in Flights, Repeatable(f)', Late(f)' <= m
               PROVE  Late(f) <= m
    BY DEF Pending
  <2>1. Late(f) \in Int /\ Late(f)' \in Int /\ m \in Int /\ Late(f)' >= Late(f)
    BY <1>1, <1>3, <1>4, AgeFacts
  <2> QED
    BY <2>1
<1>6. /\ Cardinality(Pending(m)') <= Cardinality(Pending(m))
      /\ Cardinality(Pending(m)') \in Nat
  <2>1. Pending(m)' \in SUBSET Flights /\ Pending(m) \in SUBSET Flights
    BY DEF Pending
  <2> QED
    BY <1>5, <2>1, FlightSets
<1>7. Repeats(m) + Cardinality(Pending(m)) <= sent[m]
  BY DEF RetryInv, RetriesAccounted
<1> QED
  BY <1>1, <1>2, <1>6, <1>7, RetryFacts

\* A first attempt: one more is sent, and one more may be repeated.
LEMMA RetrySent ==
    ASSUME RetryInv, TypeOK', CountSent, NEW f \in Flights,
           \A g \in Flights : g # f => flights'[g] = flights[g]
    PROVE  RetriesAccounted'
<1> SUFFICES ASSUME NEW m \in SentAges
             PROVE  (Repeats(m) + Cardinality(Pending(m)) <= sent[m])'
  BY DEF RetriesAccounted
<1>1. TypeOK
  BY DEF RetryInv
<1>2. Repeats(m)' = Repeats(m) /\ sent'[m] = sent[m] + 1
  BY DEF Repeats, CountSent
<1>3. Pending(m)' \in SUBSET (Pending(m) \cup {f})
  BY DEF Pending, Repeatable, Late
<1>4. /\ Cardinality(Pending(m)') <= Cardinality(Pending(m)) + 1
      /\ Cardinality(Pending(m)') \in Nat
  <2>1. Pending(m)' \in SUBSET Flights /\ Pending(m) \in SUBSET Flights
        /\ Pending(m) \cup {f} \in SUBSET Flights
    BY DEF Pending
  <2>2. IsFiniteSet(Pending(m)) /\ Cardinality(Pending(m)) \in Nat
    BY <2>1, FlightSets
  <2>3. Cardinality(Pending(m) \cup {f}) <= Cardinality(Pending(m)) + 1
    <3> DEFINE P == Pending(m)
    <3>1. IsFiniteSet(P) /\ Cardinality(P) \in Nat
      BY <2>2
    <3> HIDE DEF P
    <3>2. Cardinality(P \cup {f}) = IF f \in P THEN Cardinality(P)
                                              ELSE Cardinality(P) + 1
      BY <3>1, FS_AddElement
    <3>3. Cardinality(P \cup {f}) <= Cardinality(P) + 1
      BY <3>1, <3>2
    <3> QED
      BY <3>3 DEF P
  <2>4. /\ Cardinality(Pending(m)') <= Cardinality(Pending(m) \cup {f})
        /\ Cardinality(Pending(m)') \in Nat /\ Cardinality(Pending(m) \cup {f}) \in Nat
    BY <1>3, <2>1, FlightSets
  <2> QED
    BY <2>2, <2>3, <2>4
<1>5. Repeats(m) + Cardinality(Pending(m)) <= sent[m]
  BY DEF RetryInv, RetriesAccounted
<1> QED
  BY <1>1, <1>2, <1>4, <1>5, RetryFacts

\* A retry: the read is not pending any more, and counts among the retries.
LEMMA RetryRetry ==
    ASSUME RetryInv, TypeOK', NEW f \in Flights, Retry(f)
    PROVE  RetriesAccounted'
<1> SUFFICES ASSUME NEW m \in SentAges
             PROVE  (Repeats(m) + Cardinality(Pending(m)) <= sent[m])'
  BY DEF RetriesAccounted
<1>1. TypeOK
  BY DEF RetryInv
<1>2. /\ sent'[m] = sent[m]
      /\ Repeats(m)' = IF m >= RETRY_LAG THEN Repeats(m) + 1 ELSE Repeats(m)
  BY AgeFacts DEF Retry, CountRetry, Repeats
<1>3. /\ \A g \in Flights : g # f => flights'[g] = flights[g]
      /\ ~ Repeatable(f)' /\ Repeatable(f) /\ Late(f) = RETRY_LAG
  BY <1>1, Constants DEF Retry, MoveTo, TypeOK, Repeatable, Late
<1>4. Pending(m)' = Pending(m) \ {f}
  BY <1>3 DEF Pending, Repeatable, Late
<1>5. Pending(m) \in SUBSET Flights /\ IsFiniteSet(Pending(m))
      /\ Cardinality(Pending(m)) \in Nat
  BY FlightSets DEF Pending
<1>6. Repeats(m) + Cardinality(Pending(m)) <= sent[m]
  BY DEF RetryInv, RetriesAccounted
<1>7. CASE m >= RETRY_LAG
  <2>1. f \in Pending(m)
    BY <1>3, <1>7 DEF Pending
  <2>2. Cardinality(Pending(m) \ {f}) = Cardinality(Pending(m)) - 1
    BY <1>5, <2>1, FS_RemoveElement
  <2> QED
    BY <1>1, <1>2, <1>4, <1>5, <1>6, <1>7, <2>2, RetryFacts
<1>8. CASE ~ (m >= RETRY_LAG)
  <2>1. /\ Cardinality(Pending(m) \ {f}) <= Cardinality(Pending(m))
        /\ Cardinality(Pending(m) \ {f}) \in Nat
    <3>1. Pending(m) \ {f} \in SUBSET Flights
          /\ Pending(m) \ {f} \in SUBSET Pending(m)
      BY <1>5
    <3> QED
      BY <1>5, <3>1, FlightSets
  <2> QED
    BY <1>1, <1>2, <1>4, <1>5, <1>6, <1>8, <2>1, RetryFacts
<1> QED
  BY <1>7, <1>8

\* A unit of time: what is pending or sent is a unit older.
LEMMA RetryTick ==
    ASSUME RetryInv, TypeOK', Tick
    PROVE  RetriesAccounted'
<1> SUFFICES ASSUME NEW m \in SentAges
             PROVE  (Repeats(m) + Cardinality(Pending(m)) <= sent[m])'
  BY DEF RetriesAccounted
<1>1. TypeOK /\ TimersInTime
  BY DEF RetryInv
<1>2. ASSUME NEW g \in Flights, Repeatable(g)'
      PROVE  /\ Repeatable(g) /\ Late(g) \in Nat /\ Late(g)' = Late(g) + 1
  <2>1. /\ flights'[g].phase = flights[g].phase
        /\ flights'[g].timer = Less(flights[g].timer)
    BY <1>1, TickKeepsReads
  <2>2. flights[g].timer \in Nat /\ flights[g].timer > 0
    BY <1>1, <1>2, <2>1 DEF Tick, Repeatable, Live, TypeOK
  <2>3. flights'[g].timer = flights[g].timer - 1
    BY <2>1, <2>2 DEF Less
  <2>4. FETCH_TIMEOUT \in Nat /\ RETRY_DELAY \in Nat
        /\ RETRY_LAG = FETCH_TIMEOUT + RETRY_DELAY
    BY Constants DEF RETRY_LAG
  <2>5. CASE flights[g].phase = "first"
    BY <1>1, <2>1, <2>2, <2>3, <2>4, <2>5 DEF Repeatable, Late, TimersInTime
  <2>6. CASE flights[g].phase = "pause"
    BY <1>1, <2>1, <2>2, <2>3, <2>4, <2>6 DEF Repeatable, Late, TimersInTime
  <2> QED
    BY <1>2, <2>1, <2>5, <2>6 DEF Repeatable
<1>3. m \in Nat
  BY AgeFacts
<1>4. CASE m = 0
  <2>1. Pending(m)' = {}
    BY <1>2, <1>4 DEF Pending
  <2>2. sent'[m] = 0 /\ Repeats(m)' = 0
    BY <1>4, AgeFacts, Constants DEF Tick, Repeats
  <2> QED
    BY <2>1, <2>2, FS_EmptySet
<1>5. CASE m # 0
  <2>1. m - 1 \in SentAges
    BY <1>5, AgeFacts
  <2>2. Pending(m)' \in SUBSET Pending(m - 1)
    BY <1>2, <1>3 DEF Pending
  <2>3. /\ Cardinality(Pending(m)') <= Cardinality(Pending(m - 1))
        /\ Cardinality(Pending(m)') \in Nat
    <3>1. Pending(m)' \in SUBSET Flights /\ Pending(m - 1) \in SUBSET Flights
      BY DEF Pending
    <3> QED
      BY <2>2, <3>1, FlightSets
  <2>4. sent'[m] = sent[m - 1]
    BY <1>5 DEF Tick
  <2>5. Repeats(m)' <= Repeats(m - 1) /\ Repeats(m)' \in Nat
    <3>1. CASE m >= RETRY_LAG + 1
      <4>1. m - RETRY_LAG \in Ages /\ m - RETRY_LAG # 0
            /\ (m - 1) - RETRY_LAG = (m - RETRY_LAG) - 1 /\ m - 1 >= RETRY_LAG
            /\ m >= RETRY_LAG
        BY <1>3, <3>1, AgeFacts, Constants
      <4>2. resent'[m - RETRY_LAG] = resent[(m - RETRY_LAG) - 1]
        BY <4>1 DEF Tick
      <4>3. Repeats(m)' = Repeats(m - 1)
        BY <4>1, <4>2 DEF Repeats
      <4> QED
        BY <1>1, <2>1, <4>3, RetryFacts
    <3>2. CASE m = RETRY_LAG
      <4>1. Repeats(m)' = resent'[0]
        BY <1>3, <3>2, Constants DEF Repeats
      <4>2. 0 \in Ages
        BY Constants DEF Ages
      <4>3. Repeats(m)' = 0
        BY <4>1, <4>2 DEF Tick
      <4> QED
        BY <1>1, <2>1, <4>3, RetryFacts
    <3>3. CASE m < RETRY_LAG
      <4>1. Repeats(m)' = 0
        BY <1>3, <3>3, Constants DEF Repeats
      <4> QED
        BY <1>1, <2>1, <4>1, RetryFacts
    <3> QED
      BY <1>3, <3>1, <3>2, <3>3, Constants
  <2>6. Repeats(m - 1) + Cardinality(Pending(m - 1)) <= sent[m - 1]
    BY <2>1 DEF RetryInv, RetriesAccounted
  <2> QED
    BY <1>1, <2>1, <2>3, <2>4, <2>5, <2>6, RetryFacts
<1> QED
  BY <1>4, <1>5

LEMMA RetryStep == RetryInv /\ [Next]_vars => RetryInv'
<1> SUFFICES ASSUME RetryInv, [Next]_vars PROVE TimersInTime' /\ RetriesAccounted'
  BY TypeStep DEF RetryInv
<1>0. TypeOK /\ TypeOK' /\ TimersInTime
  BY TypeStep DEF RetryInv
<1>1. CASE Call
  <2>1. PICK p \in Paths : StartNow(p) \/ StartQueued(p)
    BY <1>1 DEF Call
  <2>2. PICK f \in Flights :
           \/ Entered(f, p, "first", FETCH_TIMEOUT) /\ StartNow(p)
           \/ Entered(f, p, "queued", nextSlot + MIN_GAP) /\ StartQueued(p)
    BY <1>0, <2>1, CallEnters
  <2>3. \A g \in Flights : g # f => flights'[g] = flights[g]
    BY <1>0, <2>2 DEF Entered, TypeOK
  <2>4. CASE Entered(f, p, "first", FETCH_TIMEOUT) /\ StartNow(p)
    <3>1. flights'[f].phase = "first" /\ flights'[f].timer = FETCH_TIMEOUT
      BY <1>0, <2>4 DEF Entered, TypeOK
    <3>2. TimersInTime'
      BY <1>0, <2>3, <3>1, Constants DEF TimersInTime
    <3> QED
      BY <1>0, <2>3, <2>4, <3>2, RetrySent DEF StartNow
  <2>5. CASE Entered(f, p, "queued", nextSlot + MIN_GAP) /\ StartQueued(p)
    <3>1. flights'[f].phase = "queued"
      BY <1>0, <2>5 DEF Entered, TypeOK
    <3>2. TimersInTime'
      BY <1>0, <2>3, <3>1 DEF TimersInTime
    <3>3. \A g \in Flights : Repeatable(g)' => Repeatable(g) /\ Late(g)' = Late(g)
      BY <2>3, <3>1 DEF Repeatable, Late
    <3>4. \A g \in Flights : Late(g) \in Int
      BY <1>0, Constants DEF TypeOK, Late
    <3>5. \A g \in Flights : Repeatable(g)' => Repeatable(g) /\ Late(g)' >= Late(g)
      BY <3>3, <3>4
    <3> QED
      BY <1>0, <2>5, <3>2, <3>5, RetryUnsent DEF StartQueued
  <2> QED
    BY <2>2, <2>4, <2>5
<1>2. CASE Tick
  <2>1. \A n \in Nat : Less(n) \in Nat /\ Less(n) <= n
    BY DEF Less
  <2>2. TimersInTime'
    <3> SUFFICES ASSUME NEW f \in Flights
                 PROVE  /\ flights'[f].phase = "first"
                              => flights'[f].timer <= FETCH_TIMEOUT
                        /\ flights'[f].phase = "pause"
                              => flights'[f].timer <= RETRY_DELAY
      BY DEF TimersInTime
    <3>1. flights[f].timer \in Nat
      BY <1>0 DEF TypeOK
    <3>2. flights'[f].phase = flights[f].phase /\ flights'[f].timer \in Nat
          /\ flights'[f].timer <= flights[f].timer
      BY <1>0, <1>2, <2>1, <3>1, TickKeepsReads
    <3> QED
      BY <1>0, <3>1, <3>2, Constants DEF TimersInTime
  <2> QED
    BY <1>0, <1>2, <2>2, RetryTick
<1>3. CASE \E f \in Flights : Progress(f)
  <2>1. PICK f \in Flights : Progress(f)
    BY <1>3
  <2>2. CASE Dispatch(f)
    <3>1. /\ \A g \in Flights : g # f => flights'[g] = flights[g]
          /\ flights'[f].phase = "first" /\ flights'[f].timer = FETCH_TIMEOUT
      BY <1>0, <2>2 DEF Dispatch, MoveTo, TypeOK
    <3>2. TimersInTime'
      BY <1>0, <3>1, Constants DEF TimersInTime
    <3> QED
      BY <1>0, <2>2, <3>1, <3>2, RetrySent DEF Dispatch
  <2>3. CASE Throw(f)
    <3>1. /\ \A g \in Flights : g # f => flights'[g] = flights[g]
          /\ flights'[f].phase = "pause" /\ flights'[f].timer = RETRY_DELAY
          /\ flights[f].phase = "first" /\ flights[f].timer \in Nat
      BY <1>0, <2>3 DEF Throw, MoveTo, TypeOK
    <3>2. TimersInTime'
      BY <1>0, <3>1, Constants DEF TimersInTime
    <3>3. Repeatable(f) /\ Late(f)' >= Late(f)
      BY <3>1, Constants DEF Repeatable, Late, RETRY_LAG
    <3>4. \A g \in Flights : g # f => (Repeatable(g)' => Repeatable(g))
                                       /\ Late(g)' = Late(g) /\ Late(g) \in Int
      BY <1>0, <3>1, Constants DEF Repeatable, Late, TypeOK
    <3>5. \A g \in Flights : Repeatable(g)' => Repeatable(g) /\ Late(g)' >= Late(g)
      BY <3>3, <3>4
    <3> QED
      BY <1>0, <2>3, <3>2, <3>5, RetryUnsent DEF Throw
  <2>4. CASE Retry(f)
    <3>1. /\ \A g \in Flights : g # f => flights'[g] = flights[g]
          /\ flights'[f].phase = "second"
      BY <1>0, <2>4 DEF Retry, MoveTo, TypeOK
    <3>2. TimersInTime'
      BY <1>0, <3>1 DEF TimersInTime
    <3> QED
      BY <1>0, <2>4, <3>2, RetryRetry
  <2>5. CASE Answered(f) \/ Refused(f) \/ PathBlocked(f) \/ Unclassified(f)
               \/ Unreachable(f)
    <3>1. Settle(f) /\ UNCHANGED wire
      BY <2>5 DEF Answered, Refused, PathBlocked, Unclassified, Unreachable
    <3>2. /\ \A g \in Flights : g # f => flights'[g] = flights[g]
          /\ flights'[f].phase = "none"
      BY <1>0, <3>1 DEF Settle, TypeOK, NoFlight
    <3>3. TimersInTime'
      BY <1>0, <3>2 DEF TimersInTime
    <3>4. \A g \in Flights : Repeatable(g)' =>
              Repeatable(g) /\ Late(g)' = Late(g) /\ Late(g) \in Int
      BY <1>0, <3>2, Constants DEF Repeatable, Late, TypeOK
    <3>5. \A g \in Flights : Repeatable(g)' => Repeatable(g) /\ Late(g)' >= Late(g)
      BY <3>4
    <3> QED
      BY <1>0, <3>1, <3>3, <3>5, RetryUnsent
  <2> QED
    BY <2>1, <2>2, <2>3, <2>4, <2>5 DEF Progress
<1>4. CASE UNCHANGED vars
  <2>1. UNCHANGED wire /\ flights' = flights
    BY <1>4 DEF vars, wire
  <2>2. \A g \in Flights : Late(g)' = Late(g) /\ Late(g) \in Int
                            /\ (Repeatable(g)' => Repeatable(g))
    BY <1>0, <2>1, Constants DEF Repeatable, Late, TypeOK
  <2>3. \A g \in Flights : Repeatable(g)' => Repeatable(g) /\ Late(g)' >= Late(g)
    BY <2>2
  <2>4. TimersInTime'
    BY <1>0, <2>1 DEF TimersInTime
  <2> QED
    BY <1>0, <2>1, <2>3, <2>4, RetryUnsent
<1> QED
  BY <1>1, <1>2, <1>3, <1>4 DEF Next

LEMMA RetryInit == Init => RetryInv
<1> SUFFICES ASSUME Init PROVE TimersInTime /\ RetriesAccounted
  BY TypeInit DEF RetryInv
<1>1. \A f \in Flights : flights[f].phase = "none"
  BY DEF Init, NoFlight
<1>2. TimersInTime
  BY <1>1 DEF TimersInTime
<1>3. ASSUME NEW m \in SentAges
      PROVE  Repeats(m) + Cardinality(Pending(m)) <= sent[m]
  <2>1. Pending(m) = {}
    BY <1>1 DEF Pending, Repeatable
  <2>2. Repeats(m) = 0 /\ sent[m] = 0
    BY AgeFacts DEF Init, Repeats
  <2> QED
    BY <2>1, <2>2, FS_EmptySet
<1> QED
  BY <1>2, <1>3 DEF RetriesAccounted

LEMMA RateImplied == RateInv /\ RetryInv => RateBound
<1> SUFFICES ASSUME RateInv, RetryInv, NEW a \in Ages
             PROVE  /\ sent[a] <= Allowance(a)
                    /\ resent[a] <= sent[a + RETRY_LAG]
                    /\ sent[a] + resent[a]
                          <= Allowance(a) + Allowance(a + RETRY_LAG)
  BY DEF RateBound
<1> DEFINE m == a + RETRY_LAG
<1>0. TypeOK
  BY DEF RetryInv
<1>1. a \in SentAges /\ m \in SentAges /\ a \in Nat /\ m \in Nat
      /\ MIN_GAP \in Nat \ {0}
  BY AgeFacts, Constants
<1>2. sent[a] <= Allowance(a) /\ sent[m] <= Allowance(m)
  BY <1>1, FirstAttemptsBounded
<1>3. Repeats(m) + Cardinality(Pending(m)) <= sent[m]
  BY <1>1 DEF RetryInv, RetriesAccounted
<1>4. m >= RETRY_LAG /\ m - RETRY_LAG = a
  BY <1>1, Constants
<1>5. Repeats(m) = resent[a]
  BY <1>4 DEF Repeats
<1>6. /\ sent[a] \in Nat /\ sent[m] \in Nat /\ resent[a] \in Nat
      /\ Cardinality(Pending(m)) \in Nat
  BY <1>0, <1>1, RetryFacts DEF TypeOK
<1>7. Allowance(a) \in Nat /\ Allowance(m) \in Nat
  BY <1>1, Constants, DivIs DEF Allowance
<1>8. resent[a] <= sent[m]
  BY <1>3, <1>5, <1>6
<1> HIDE DEF m
<1>9. sent[a] + resent[a] <= Allowance(a) + Allowance(m)
  BY <1>2, <1>6, <1>7, <1>8
<1> QED
  BY <1>2, <1>8, <1>9 DEF m

\* The calls on the wire in any span of time: first attempts stay within a
\* bucketful, what the bucket gains in the span and the slots that fit into it;
\* a retry passes both by, but repeats a first attempt of its own that was made
\* RETRY_LAG earlier at most, which bounds the total (sosovalue.ts L477-495,
\* L524-535).
THEOREM RateIsBounded == Spec => []RateBound
<1>1. Init => RateInv
  <2> SUFFICES ASSUME Init PROVE QueueIsSpaced /\ SentAccounted
    BY TypeInit DEF RateInv, QueueInv
  <2> QED
    BY RateInit DEF Init, QueueIsSpaced, NoFlight
<1> QED
  BY <1>1, RateStep, RetryInit, RetryStep, RateImplied, PTL DEF Spec

=============================================================================
