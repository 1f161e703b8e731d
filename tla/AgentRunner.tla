----------------------------- MODULE AgentRunner -----------------------------
(***************************************************************************)
(* The autonomous loop of agent-service: _runner of main.py, its control   *)
(* endpoints, the order placing of exec_node (graph.py, sodex_policy.py)   *)
(* and the automatic draft written after a cycle (draft.py).               *)
(*                                                                         *)
(* Everything runs on one asyncio loop: what happens between two awaits is *)
(* one step, and the endpoints are served at any await of the runner.  The *)
(* research nodes and the idempotent registration of wrap_node are behind  *)
(* the choice of Research: they keep nothing a later step depends on.      *)
(* Counters, the reasoning log and the SQLite history are left out.        *)
(***************************************************************************)
EXTENDS Integers, Sequences, FiniteSets

CONSTANTS
    SectorsCycle,           \* sectors_cycle, a sequence
    MAX_TRADE_ATTEMPTS,
    MaxBasket,              \* BOUND: assets of a basket
    MaxDay,                 \* BOUND: UTC days
    MaxRestarts,            \* BOUND: restarts of the service
    MaxInputs               \* BOUND: requests to the control endpoints

ASSUME AgentAssumption ==
    /\ SectorsCycle \in Seq(STRING) /\ SectorsCycle # <<>>
    /\ MAX_TRADE_ATTEMPTS \in Nat \ {0}
    /\ {MaxBasket, MaxDay, MaxRestarts, MaxInputs} \subseteq Nat \ {0}

Sectors == {SectorsCycle[k] : k \in DOMAIN SectorsCycle}
Days == 1..MaxDay

VARIABLES
    paused, halted, step,   \* RUN_STATE and STEP_REQUEST.is_set()
    active,                 \* a user acted within AGENT_ACTIVE_WINDOW_SEC
    age,                    \* since last_cycle_at: 0, or past AGENT_LOOP_SEC
                            \* (1), or past AGENT_IDLE_LOOP_SEC or never (2)
    i,                      \* iterations begun, modulo the sectors
    node, sector,           \* the iteration under way: its node, its sector,
    left, attempt, done,    \* the assets left, the attempts made for the
                            \* current one, the assets done,
    keyDay,                 \* and the date its draft is remembered under
    taken, placed, unsure,  \* orders the exchange took, orders the summary
                            \* counts, answers that did not tell (observed)
    draftedToday,           \* _DRAFTED_TODAY
    day,                    \* the UTC date
    drafts,                 \* rows of pb_proposals, by sector and day
    restarts,               \* restarts of the service, by day (observed)
    inputs,                 \* requests served so far
    begun, granted          \* since the pause: iterations, steps (observed)

flags == <<paused, halted, step>>
observed == <<begun, granted>>
drafting == <<draftedToday, drafts>>
outside == <<day, restarts, inputs>>
basket == <<left, attempt, done>>
books == <<taken, placed, unsure>>
run == <<node, sector, basket, keyDay, books>>
vars == <<flags, active, age, i, run, drafting, outside, observed>>

Nodes == {"none", "research", "exec", "perps", "report", "draft"}

AgentTypeOK ==
    /\ paused \in BOOLEAN /\ halted \in BOOLEAN /\ step \in BOOLEAN
    /\ active \in BOOLEAN /\ age \in 0..2 /\ i \in DOMAIN SectorsCycle
    /\ node \in Nodes /\ sector \in Sectors /\ keyDay \in Days
    /\ left \in Nat /\ (node \in {"exec", "perps"} => left > 0)
    /\ attempt \in Nat /\ done \in Nat
    /\ taken \in Nat /\ placed \in Nat /\ unsure \in Nat
    /\ draftedToday \subseteq Sectors \X Days
    /\ drafts \in [Sectors \X Days -> Nat]
    /\ day \in Days /\ restarts \in [Days -> Nat] /\ inputs \in Nat
    /\ begun \in Nat /\ granted \in Nat

\* Nothing under way, and nothing of the last iteration left.
NoRun ==
    /\ node' = "none" /\ sector' = SectorsCycle[1] /\ keyDay' = 1
    /\ left' = 0 /\ attempt' = 0 /\ done' = 0
    /\ taken' = 0 /\ placed' = 0 /\ unsure' = 0

Boot ==
    /\ paused' = FALSE /\ halted' = FALSE /\ step' = FALSE
    /\ active' = TRUE /\ age' = 2 /\ i' = 1 /\ NoRun
    /\ draftedToday' = {} /\ begun' = 0 /\ granted' = 0

AgentInit ==
    /\ paused = FALSE /\ halted = FALSE /\ step = FALSE
    /\ active = TRUE /\ age = 2 /\ i = 1
    /\ node = "none" /\ sector = SectorsCycle[1] /\ keyDay = 1
    /\ left = 0 /\ attempt = 0 /\ done = 0
    /\ taken = 0 /\ placed = 0 /\ unsure = 0
    /\ draftedToday = {} /\ begun = 0 /\ granted = 0
    /\ drafts = [k \in Sectors \X Days |-> 0]
    /\ day = 1 /\ restarts = [d \in Days |-> 0] /\ inputs = 0

------------------------------------------------------------------------------
(* The runner, up to the trades.                                           *)

Due == age = 2 \/ (active /\ age = 1)

\* From the top of the loop to ainvoke there is no await.
Begin ==
    /\ node = "none"
    /\ ~halted
    /\ paused => step
    /\ step \/ Due
    /\ node' = "research" /\ sector' = SectorsCycle[i]
    /\ i' = (i % Len(SectorsCycle)) + 1
    /\ age' = 0
    /\ begun' = IF paused THEN begun + 1 ELSE begun
    /\ UNCHANGED <<flags, active, basket, keyDay, books, drafting, outside, granted>>

\* (faulty variant) the step stays requested
FinallyKeepsStep ==
    /\ NoRun
    /\ UNCHANGED <<paused, halted, step, active, age, i, outside, observed>>

\* The finally block: the step is taken off, whenever it was asked for.  (The
\* time is taken here too; nothing reads it between Begin and this step.)
Finally ==
    /\ NoRun
    /\ step' = FALSE
    /\ UNCHANGED <<paused, halted, active, age, i, outside, observed>>

\* Signal to risk: idle (no basket), an emergency (the USSI hedge is
\* registered, nothing is traded) or a basket to buy.
Research ==
    /\ node = "research"
    /\ \E n \in 0..MaxBasket, emergency \in BOOLEAN :
         /\ left' = n
         /\ node' = IF n > 0 /\ ~emergency THEN "exec" ELSE "report"
    /\ UNCHANGED <<flags, active, age, i, sector, attempt, done, keyDay, books>>
    /\ UNCHANGED <<drafting, outside, observed>>

\* A node raised: the cycle leaves neither history nor track record.
Crashed ==
    /\ node \in {"research", "exec", "perps"}
    /\ Finally
    /\ UNCHANGED drafting

------------------------------------------------------------------------------
(* exec_node.                                                              *)

\* What execute_trade can return: "accepted" with an order id, "vague"
\* without one, an item "rejected", a "transient" error (429, a timeout, a
\* 5xx), another "error", or one of its skips.  A call that failed after it
\* was sent may have been carried out.
Skips == {"noPrice", "notTrading", "notListed"}
Results == {"accepted", "vague", "rejected", "transient", "error"} \cup Skips
Unclear == {"vague", "transient", "error"}

Taken(result) ==
    IF result = "accepted" THEN {1} ELSE IF result \in Unclear THEN {0, 1} ELSE {0}

\* classify_trade_result
Classify(result) ==
    CASE result = "accepted" -> "done"
      [] result \in {"vague", "transient", "noPrice"} -> "retry"
      [] result = "notTrading" -> "route_to_perps"
      [] OTHER -> "give_up"

\* A call gave result, and the exchange took n orders of it.
Answered(result, n) ==
    /\ taken' = taken + n
    /\ unsure' = IF result \in Unclear THEN unsure + 1 ELSE unsure
    /\ UNCHANGED <<flags, active, age, i, sector, keyDay, drafting, outside, observed>>

\* The last result of an asset goes into sodex_txs; the next asset's turn.
\* The summary counts a result as placed when its ok is set.
NextAsset(result) ==
    /\ placed' = IF result \in {"accepted", "vague"} THEN placed + 1 ELSE placed
    /\ done' = done + 1 /\ left' = left - 1 /\ attempt' = 0
    /\ node' = IF left = 1 THEN "report" ELSE "exec"

TryAgain ==
    /\ attempt' = attempt + 1
    /\ UNCHANGED <<node, left, done, placed>>

Trade(result, n) ==
    /\ node = "exec"
    /\ Answered(result, n)
    /\ CASE Classify(result) = "retry" /\ attempt < MAX_TRADE_ATTEMPTS - 1 -> TryAgain
         [] Classify(result) = "route_to_perps"
              -> node' = "perps" /\ UNCHANGED <<basket, placed>>
         [] OTHER -> NextAsset(result)

\* (faulty variant) after the perps order the retry loop goes on
PerpsRetried(result) ==
    IF Classify(result) = "done"
    THEN node' = "exec" /\ UNCHANGED <<basket, placed>> ELSE NextAsset(result)

\* The cascade to perps is a single attempt, whatever comes of it.
AfterPerps(result) == NextAsset(result)

TradePerps(result, n) ==
    /\ node = "perps"
    /\ Answered(result, n)
    /\ AfterPerps(result)

------------------------------------------------------------------------------
(* After the graph.                                                        *)

\* insert_rebalance has answered, or failed; should_draft reads the date and
\* the set.  A basket the risk gate refused is drafted like one that was bought.
Report ==
    /\ node = "report"
    /\ \/ /\ <<sector, day>> \notin draftedToday
          /\ left + done > 0
          /\ node' = "draft" /\ keyDay' = day
          /\ left' = 0 /\ attempt' = 0 /\ done' = 0    \* not read any more
          /\ taken' = 0 /\ placed' = 0 /\ unsure' = 0
          /\ UNCHANGED <<flags, active, age, i, sector, drafting, outside, observed>>
       \/ Finally /\ UNCHANGED drafting       \* or the sentiment is too low

\* insert_pb_proposal swallows every error: the row is there or not, and the
\* answer came or not.
Key == <<sector, keyDay>>

Wrote(n) == drafts' = [drafts EXCEPT ![Key] = @ + n]

\* (faulty variant) only an insert known to have worked is remembered
RememberAnswered(answered) == IF answered THEN draftedToday \cup {Key} ELSE draftedToday

Remember(answered) == draftedToday \cup {Key}

Draft ==
    /\ node = "draft"
    /\ \E n \in 0..1, answered \in BOOLEAN :
         /\ answered => n = 1
         /\ Wrote(n)
         /\ draftedToday' = Remember(answered)
    /\ Finally

------------------------------------------------------------------------------
(* The control endpoints.                                                  *)

Serve ==
    /\ inputs < MaxInputs
    /\ inputs' = inputs + 1
    /\ active' = TRUE
    /\ UNCHANGED <<age, i, run, drafting, day, restarts>>

\* A toggle, whatever the caller saw.
Pause ==
    /\ Serve
    /\ paused' = ~paused
    /\ begun' = 0
    /\ granted' = IF ~paused /\ step THEN 1 ELSE 0
    /\ UNCHANGED <<halted, step>>

Step ==
    /\ Serve
    /\ step' = (step \/ ~halted)
    /\ granted' = IF paused /\ step' /\ ~step THEN granted + 1 ELSE granted
    /\ UNCHANGED <<paused, halted, begun>>

\* Counters and log are wiped; the step, if one is pending, is not.
Reset ==
    /\ Serve
    /\ paused' = FALSE /\ halted' = FALSE
    /\ begun' = 0 /\ granted' = 0
    /\ UNCHANGED step

Halt ==
    /\ Serve
    /\ paused' = FALSE /\ halted' = TRUE
    /\ begun' = 0 /\ granted' = 0
    /\ UNCHANGED step

------------------------------------------------------------------------------
(* Time and restarts.                                                      *)

Wait ==
    /\ node = "none" /\ age < 2
    /\ age' = age + 1
    /\ UNCHANGED <<flags, active, i, run, drafting, outside, observed>>

Quieten ==
    /\ node = "none" /\ active
    /\ active' = FALSE
    /\ UNCHANGED <<flags, age, i, run, drafting, outside, observed>>

Midnight ==
    /\ day < MaxDay
    /\ day' = day + 1
    /\ UNCHANGED <<flags, active, age, i, run, drafting, restarts, inputs, observed>>

\* All of RUN_STATE is in memory, the halt too.  An insert under way may have
\* reached the table.
Restart ==
    /\ restarts[day] < MaxRestarts
    /\ restarts' = [restarts EXCEPT ![day] = @ + 1]
    /\ Boot
    /\ \/ UNCHANGED drafts
       \/ node = "draft" /\ Wrote(1)
    /\ UNCHANGED <<day, inputs>>

AgentNext ==
    \/ Begin \/ Research \/ Crashed \/ Report \/ Draft
    \/ \E result \in Results : \E n \in Taken(result) :
         Trade(result, n) \/ TradePerps(result, n)
    \/ Pause \/ Step \/ Reset \/ Halt
    \/ Wait \/ Quieten \/ Midnight \/ Restart

AgentSpec == AgentInit /\ [][AgentNext]_vars

------------------------------------------------------------------------------
(* Properties.                                                             *)

\* While the agent is paused the loop runs once for each step that was taken
\* in, never more: a request that joins a pending one, that is taken in while
\* an iteration is on its way, or that outlives a failed iteration, does not
\* make a paused agent trade on its own.
PausedRunsOnlySteps == paused => begun <= granted

\* The orders of a cycle can be explained from its summary: the exchange holds
\* as many as the summary counts as placed, give or take the answers that did
\* not tell; and together they are at most MAX_TRADE_ATTEMPTS for each asset
\* tried so far, perps orders included.  (Every attempt is a new order to the
\* exchange.)  The bound is on the sum over the basket.  The orders of a cycle
\* that a restart cut off are not counted on: there is no summary of them.
OrdersExplained ==
    /\ taken <= placed + unsure
    /\ placed <= taken + unsure
    /\ taken <= MAX_TRADE_ATTEMPTS * (done + 1)

\* A sector is proposed once a day, and once more for each restart that day,
\* though inserts fail, lose their answers and span midnight.
DraftedOncePerDay ==
    \A s \in Sectors, d \in Days : drafts[<<s, d>>] <= 1 + restarts[d]

==============================================================================
