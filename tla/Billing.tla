------------------------------ MODULE Billing ------------------------------
(***************************************************************************)
(* Quota and paid balance of one wallet: lib/billing.ts, the gate and the  *)
(* charge of app/api/chat/route.ts, and the top-up route.                  *)
(*                                                                         *)
(* The functions of billing.ts read and write the JSON file without an     *)
(* await in between, so in the one Node process they are written for each  *)
(* is a single step.  /api/chat is not: it looks at the quota, waits for   *)
(* the agent, and charges what the turn turned out to cost.  Any number of *)
(* turns (other tabs, other devices) may be between the two.               *)
(*                                                                         *)
(* Money is counted in hundredths of a price unit, which makes the cache   *)
(* factors 1.25 and 0.1 of spendFromUsage whole numbers.  Wallets share    *)
(* the file and nothing else; one of them is modelled.                     *)
(***************************************************************************)
EXTENDS Sums, FiniteSets

CONSTANTS
    Turns,              \* requests of /api/chat that may be open at once
    FREE_DAILY_SPEND, FREE_DAILY_TOKENS, FREE_DAILY_CALLS,
    PRICING,            \* model -> [input, output] price per token
    DefaultModel,       \* the model unknown ones are priced as
    Models,             \* the models the agent may report
    Usages,             \* the usage blocks it may report, with tool calls
    TopUps,             \* amounts a user may ask to pay in
    MAX_TOP_UP,
    MaxCost,            \* BOUND: what one turn can cost
    MaxDay, MaxTopUps, MaxRestarts  \* BOUNDS: days, top-ups, restarts

PriceForModel(model) ==
    IF model \in DOMAIN PRICING THEN PRICING[model] ELSE PRICING[DefaultModel]

SpendFromUsage(model, u) ==
    LET p == PriceForModel(model)
    IN  100 * u.input * p.input + 100 * u.output * p.output
          + 125 * u.cacheCreation * p.input + 10 * u.cacheRead * p.input

TotalTokens(u) == u.input + u.output + u.cacheRead + u.cacheCreation

ASSUME BillingAssumption ==
    /\ IsFiniteSet(Turns)
    /\ FREE_DAILY_SPEND \in Nat /\ FREE_DAILY_TOKENS \in Nat
    /\ FREE_DAILY_CALLS \in Nat
    /\ TopUps \subseteq Int /\ MAX_TOP_UP \in Nat
    /\ MaxCost \in Nat /\ MaxDay \in Nat \ {0} /\ MaxTopUps \in Nat
    /\ MaxRestarts \in Nat
    /\ \A m \in Models, u \in Usages :
         /\ SpendFromUsage(m, u) \in 0..MaxCost
         /\ TotalTokens(u) \in Nat /\ u.calls \in Nat

Days == 1..MaxDay

VARIABLES
    today,          \* todayKey(), a number
    account,        \* the wallet's entry of usage.json
    asked,          \* turns that passed the gate and wait for the agent
    restarts,       \* restarts of the Node process so far
    spentOn,        \* day -> what turns really cost on it (observed)
    uncovered,      \* what neither quota nor balance paid for (observed)
    paidIn          \* top-ups accepted so far (observed)

billingVars == <<today, account, asked, restarts, spentOn, uncovered, paidIn>>

EmptyDaily == [date |-> today, spend |-> 0, tokens |-> 0, calls |-> 0]
EmptyAccount == [daily |-> EmptyDaily, paid |-> 0, toppedUp |-> 0]

BillingInit ==
    /\ today = 1
    /\ account = EmptyAccount
    /\ asked = {} /\ restarts = 0
    /\ spentOn = [d \in Days |-> 0] /\ uncovered = 0 /\ paidIn = 0

-----------------------------------------------------------------------------
(* Reading the account *)

Plus(n) == IF n > 0 THEN n ELSE 0

\* An account last used on another day starts the day with nothing spent.
RolloverIfStale(a) ==
    IF a.daily.date # today THEN [a EXCEPT !.daily = EmptyDaily] ELSE a

FreeDailyLeft(a) == Plus(FREE_DAILY_SPEND - a.daily.spend)
TotalAvailable(a) == FreeDailyLeft(a) + a.paid

\* (faulty variant) money and call quota must both be exhausted
BlockedByFlag(a) ==
    /\ TotalAvailable(a) <= 0
    /\ a.daily.calls >= FREE_DAILY_CALLS

\* getSnapshot(...).blocked
BlockedAccount(a) ==
    \/ TotalAvailable(a) <= 0
    \/ a.daily.tokens >= FREE_DAILY_TOKENS /\ a.paid <= 0
    \/ a.daily.calls >= FREE_DAILY_CALLS /\ a.paid <= 0

Blocked == BlockedAccount(RolloverIfStale(account))

-----------------------------------------------------------------------------
(* Charging *)

OverCap(spend) == Plus(spend - FREE_DAILY_SPEND)

\* (faulty variant) the whole overrun of the day is deducted each time
DeductWhole(a, cost) == OverCap(a.daily.spend + cost)

\* What of a turn's cost is taken from the balance: the part of it that lies
\* beyond the daily quota.
DeductFromPaid(a, cost) ==
    OverCap(a.daily.spend + cost) - OverCap(a.daily.spend)

\* recordUsage, for a turn of the given cost, tokens and tool calls.
RecordUsage(cost, tokens, calls) ==
    LET a == RolloverIfStale(account)
        deduct == DeductFromPaid(a, cost)
    IN  /\ account' =
             [daily |-> [date |-> today, spend |-> a.daily.spend + cost,
                         tokens |-> a.daily.tokens + tokens,
                         calls |-> a.daily.calls + calls],
              paid |-> IF deduct > 0 THEN Plus(a.paid - deduct) ELSE a.paid,
              toppedUp |-> a.toppedUp]
        /\ spentOn' = [spentOn EXCEPT ![today] = @ + cost]
        /\ uncovered' = uncovered + Plus(deduct - a.paid)

-----------------------------------------------------------------------------
(* Requests *)

\* POST /api/chat up to the await: the quota is checked, nothing reserved.
PassGate(t) ==
    /\ t \notin asked
    /\ ~ Blocked
    /\ asked' = asked \union {t}
    /\ UNCHANGED <<today, account, restarts, spentOn, uncovered, paidIn>>

\* The agent answered and reported what it used.
AnswerCharged(t, model, u) ==
    /\ t \in asked
    /\ asked' = asked \ {t}
    /\ RecordUsage(SpendFromUsage(model, u), TotalTokens(u), u.calls)
    /\ UNCHANGED <<today, restarts, paidIn>>

\* The agent was unreachable, failed, or reported no usage: chat() of
\* lib/api/agent.ts turns a failure into an answer, and nothing is charged.
AnswerUncharged(t) ==
    /\ t \in asked
    /\ asked' = asked \ {t}
    /\ UNCHANGED <<today, account, restarts, spentOn, uncovered, paidIn>>

\* POST /api/billing/topup with an amount the route and topUp accept.
TopUp(amount) ==
    /\ amount > 0 /\ amount <= MAX_TOP_UP
    /\ paidIn < MaxTopUps
    /\ LET a == RolloverIfStale(account)
       IN  account' = [daily |-> a.daily, paid |-> a.paid + amount,
                      toppedUp |-> a.toppedUp + amount]
    /\ paidIn' = paidIn + 1
    /\ UNCHANGED <<today, asked, restarts, spentOn, uncovered>>

-----------------------------------------------------------------------------
(* Time and restarts *)

NextDay ==
    /\ today < MaxDay
    /\ today' = today + 1
    /\ UNCHANGED <<account, asked, restarts, spentOn, uncovered, paidIn>>

\* The process ends and is started again: open turns are lost, uncharged.
\* When it ended inside writeFileSync, or the disk of the serverless
\* function went with it, the file does not parse and loadAll starts empty.
Restart ==
    /\ restarts < MaxRestarts
    /\ restarts' = restarts + 1
    /\ asked' = {}
    /\ UNCHANGED account \/ account' = EmptyAccount
    /\ UNCHANGED <<today, spentOn, uncovered, paidIn>>

BillingNext ==
    \/ \E t \in Turns :
         \/ PassGate(t) \/ AnswerUncharged(t)
         \/ \E m \in Models, u \in Usages : AnswerCharged(t, m, u)
    \/ \E n \in TopUps : TopUp(n)
    \/ NextDay \/ Restart

BillingSpec == BillingInit /\ [][BillingNext]_billingVars

-----------------------------------------------------------------------------
(* Properties *)

\* Types of the account and of what is counted about it (lib/billing.ts
\* L77-89).  The balance never goes below zero although it is charged by
\* turns that were let in before it was used up.
BillingTypeOK ==
    /\ today \in Days
    /\ account \in [daily: [date: Days, spend: Nat, tokens: Nat, calls: Nat],
                    paid: Nat, toppedUp: Nat]
    /\ asked \subseteq Turns
    /\ restarts \in 0..MaxRestarts /\ paidIn \in 0..MaxTopUps
    /\ spentOn \in [Days -> Nat] /\ uncovered \in Nat

\* What left the paid balance is at most what turns cost beyond the free
\* quota, day by day: concurrent turns, a day that ends between the gate and
\* the charge, top-ups and a lost file never make the user pay for usage the
\* quota covers (billing.ts L221-232).
NeverOvercharged ==
    account.toppedUp - account.paid
        <= SumTo([d \in Days |-> OverCap(spentOn[d])], MaxDay)

\* What is given away: the check before the agent call and the charge after
\* it (chat route L50-71) let turns through that nothing pays for, but never
\* more than one per open request each time something became available -- a
\* day, a top-up, a restart.
Refills == today + paidIn + restarts
OverrunBounded == uncovered <= MaxCost * Cardinality(Turns) * Refills

=============================================================================
