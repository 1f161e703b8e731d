---------------------------- MODULE ChatProofs -----------------------------
(***************************************************************************)
(* What an account is charged, and where the page files a conversation.    *)
(*                                                                         *)
(* For any number of concurrent turns and any prices: the user is never    *)
(* charged for what the free quota covers, and what is given away is       *)
(* bounded.  Two arguments on top of the types:                            *)
(*                                                                         *)
(*   - the account never remembers more of a day than was really spent on  *)
(*     it, and the part of a turn that lies beyond a cap only grows with   *)
(*     what came before (Convexity), so each deduction is matched by the   *)
(*     growth of the true overrun of the day;                              *)
(*                                                                         *)
(*   - once nothing is available only the turns already let in can go      *)
(*     unpaid: their number is what can still be given away (Exposure).    *)
(*                                                                         *)
(* The page's requests are requests of Billing, so both hold of it too.    *)
(* For any number of threads, callbacks, other tabs and polls:             *)
(*                                                                         *)
(*   - a turn is saved in the thread it was written in (HomeInv): the      *)
(*     handler of a post holds a turn of the thread it writes to;          *)
(*                                                                         *)
(*   - an answer comes after its question (OrderInv): once the question's  *)
(*     save is acknowledged its row stays in the thread, and the seq its   *)
(*     answer is given is higher (there is a highest one: Topped);         *)
(*                                                                         *)
(*   - only a send that was under way mixes turns of two threads in one    *)
(*     view (ViewInv): whatever a poll or a load brings is of the thread   *)
(*     it was asked for.                                                   *)
(***************************************************************************)
EXTENDS ChatPage, SumsProofs, FiniteSetTheorems

Daily == [date: Days, spend: Nat, tokens: Nat, calls: Nat]
Accounts == [daily: Daily, paid: Nat, toppedUp: Nat]

LEMMA Costs ==
    ASSUME NEW m \in Models, NEW u \in Usages
    PROVE  /\ SpendFromUsage(m, u) \in Nat /\ SpendFromUsage(m, u) <= MaxCost
           /\ TotalTokens(u) \in Nat /\ u.calls \in Nat
<1>1. SpendFromUsage(m, u) \in 0..MaxCost
  BY BillingAssumption
<1>2. MaxCost \in Nat
  BY BillingAssumption
<1> QED
  BY <1>1, <1>2, BillingAssumption

-----------------------------------------------------------------------------
(* Types *)

LEMMA EmptyAccountType ==
    ASSUME today \in Days
    PROVE  EmptyAccount \in Accounts
BY DEF EmptyAccount, EmptyDaily, Accounts, Daily

\* The account a request works on is one of today.
LEMMA RolledOver ==
    ASSUME BillingTypeOK
    PROVE  /\ RolloverIfStale(account) \in Accounts
           /\ RolloverIfStale(account).daily.date = today
           /\ RolloverIfStale(account).paid = account.paid
           /\ RolloverIfStale(account).toppedUp = account.toppedUp
<1>1. CASE account.daily.date = today
  <2>1. RolloverIfStale(account) = account
    BY <1>1 DEF RolloverIfStale
  <2> QED
    BY <1>1, <2>1 DEF BillingTypeOK, Accounts, Daily
<1>2. CASE account.daily.date # today
  <2>1. RolloverIfStale(account) = [account EXCEPT !.daily = EmptyDaily]
    BY <1>2 DEF RolloverIfStale
  <2> QED
    BY <2>1 DEF BillingTypeOK, Accounts, Daily, EmptyDaily
<1> QED
  BY <1>1, <1>2

\* What recordUsage leaves, field by field.
LEMMA Recorded ==
    ASSUME BillingTypeOK, NEW cost \in Nat, NEW tokens \in Nat, NEW calls \in Nat,
           RecordUsage(cost, tokens, calls), UNCHANGED today
    PROVE  LET a == RolloverIfStale(account)
               deduct == DeductFromPaid(a, cost)
           IN  /\ account' \in Accounts
               /\ account'.daily.date = today
               /\ account'.daily.spend = a.daily.spend + cost
               /\ account'.toppedUp = a.toppedUp
               /\ deduct \in Nat
               /\ account'.paid = Plus(a.paid - deduct)
               /\ spentOn' = [spentOn EXCEPT ![today] = @ + cost]
               /\ uncovered' = uncovered + Plus(deduct - a.paid)
               /\ uncovered' \in Nat
<1> DEFINE a == RolloverIfStale(account)
           deduct == DeductFromPaid(a, cost)
<1>1. a \in Accounts /\ a.daily.date = today
  BY RolledOver
<1>2. deduct \in Nat
  BY <1>1, BillingAssumption DEF DeductFromPaid, OverCap, Plus, Accounts, Daily
<1>3. account' = [daily |-> [date |-> today, spend |-> a.daily.spend + cost,
                             tokens |-> a.daily.tokens + tokens,
                             calls |-> a.daily.calls + calls],
                  paid |-> IF deduct > 0 THEN Plus(a.paid - deduct) ELSE a.paid,
                  toppedUp |-> a.toppedUp]
  BY DEF RecordUsage
<1> HIDE DEF a, deduct
<1>4. account'.paid = Plus(a.paid - deduct)
  BY <1>1, <1>2, <1>3 DEF Plus, Accounts
<1>5. /\ account' \in Accounts /\ account'.daily.date = today
      /\ account'.daily.spend = a.daily.spend + cost
      /\ account'.toppedUp = a.toppedUp
  <2>1. /\ a.daily.spend \in Nat /\ a.daily.tokens \in Nat
        /\ a.daily.calls \in Nat /\ a.paid \in Nat /\ a.toppedUp \in Nat
        /\ today \in Days
    BY <1>1 DEF Accounts, Daily, BillingTypeOK
  <2>2. Plus(a.paid - deduct) \in Nat
    BY <1>2, <2>1 DEF Plus
  <2> QED
    BY <1>3, <2>1, <2>2 DEF Accounts, Daily
<1>6. uncovered' = uncovered + Plus(deduct - a.paid)
  BY DEF RecordUsage, a, deduct
<1>7. uncovered' \in Nat
  BY <1>1, <1>2, <1>6 DEF Plus, Accounts, BillingTypeOK
<1> QED
  BY <1>2, <1>4, <1>5, <1>6, <1>7 DEF RecordUsage, a, deduct

LEMMA BillingTypeInit == BillingInit => BillingTypeOK
<1> SUFFICES ASSUME BillingInit PROVE BillingTypeOK
  OBVIOUS
<1>1. 1 \in Days
  BY BillingAssumption DEF Days
<1>2. account \in Accounts
  BY <1>1, EmptyAccountType DEF BillingInit
<1> QED
  BY <1>1, <1>2, BillingAssumption DEF BillingInit, BillingTypeOK, Accounts, Daily

LEMMA BillingTypeStep ==
    BillingTypeOK /\ [BillingNext]_billingVars => BillingTypeOK'
<1> SUFFICES ASSUME BillingTypeOK, [BillingNext]_billingVars PROVE BillingTypeOK'
  OBVIOUS
<1>1. ASSUME NEW t \in Turns, PassGate(t) \/ AnswerUncharged(t)
      PROVE  BillingTypeOK'
  BY <1>1 DEF BillingTypeOK, PassGate, AnswerUncharged
<1>2. ASSUME NEW t \in Turns, NEW m \in Models, NEW u \in Usages,
             AnswerCharged(t, m, u)
      PROVE  BillingTypeOK'
  <2> DEFINE cost == SpendFromUsage(m, u)
             tokens == TotalTokens(u)
  <2>1. cost \in Nat /\ tokens \in Nat /\ u.calls \in Nat
    BY Costs
  <2>2. RecordUsage(cost, tokens, u.calls) /\ UNCHANGED today
    BY <1>2 DEF AnswerCharged
  <2> HIDE DEF cost, tokens
  <2>3. /\ account' \in Accounts /\ uncovered' \in Nat
        /\ spentOn' = [spentOn EXCEPT ![today] = @ + cost]
    BY <2>1, <2>2, Recorded
  <2>4. spentOn' \in [Days -> Nat]
    BY <2>1, <2>3 DEF BillingTypeOK
  <2> QED
    BY <1>2, <2>3, <2>4 DEF BillingTypeOK, AnswerCharged, Accounts, Daily
<1>3. ASSUME NEW n \in TopUps, TopUp(n) PROVE BillingTypeOK'
  <2> DEFINE a == RolloverIfStale(account)
  <2>1. a \in Accounts
    BY RolledOver
  <2>2. account' = [daily |-> a.daily, paid |-> a.paid + n,
                    toppedUp |-> a.toppedUp + n]
    BY <1>3 DEF TopUp
  <2>3. n \in Nat
    BY <1>3, BillingAssumption DEF TopUp
  <2> HIDE DEF a
  <2>4. account' \in Accounts
    BY <2>1, <2>2, <2>3 DEF Accounts
  <2> QED
    BY <1>3, <2>4, BillingAssumption DEF TopUp, BillingTypeOK, Accounts, Daily
<1>4. CASE NextDay
  BY <1>4, BillingAssumption DEF NextDay, BillingTypeOK, Days
<1>5. CASE Restart
  <2>1. account' \in Accounts
    BY <1>5, EmptyAccountType DEF Restart, BillingTypeOK, Accounts, Daily
  <2> QED
    BY <1>5, <2>1, BillingAssumption DEF Restart, BillingTypeOK, Accounts, Daily
<1>6. CASE UNCHANGED billingVars
  BY <1>6 DEF billingVars, BillingTypeOK
<1> QED
  BY <1>1, <1>2, <1>3, <1>4, <1>5, <1>6 DEF BillingNext

-----------------------------------------------------------------------------
(* What the user is charged *)

\* The account remembers at most what was really spent that day.
Remembered == account.daily.spend <= spentOn[account.daily.date]
ChargeInv == BillingTypeOK /\ Remembered /\ NeverOvercharged

LEMMA RememberedToday ==
    ASSUME BillingTypeOK, Remembered
    PROVE  RolloverIfStale(account).daily.spend <= spentOn[today]
<1>1. CASE account.daily.date = today
  <2>1. RolloverIfStale(account) = account
    BY <1>1 DEF RolloverIfStale
  <2> QED
    BY <1>1, <2>1 DEF Remembered
<1>2. CASE account.daily.date # today
  <2>1. RolloverIfStale(account) = [account EXCEPT !.daily = EmptyDaily]
    BY <1>2 DEF RolloverIfStale
  <2>2. RolloverIfStale(account).daily.spend = 0
    BY <2>1 DEF BillingTypeOK, EmptyDaily
  <2>3. spentOn[today] \in Nat
    BY DEF BillingTypeOK
  <2> QED
    BY <2>2, <2>3
<1> QED
  BY <1>1, <1>2

Overrun(spent) == SumTo([d \in Days |-> OverCap(spent[d])], MaxDay)

LEMMA Convexity ==
    ASSUME NEW x \in Nat, NEW y \in Nat, NEW c \in Nat, x <= y
    PROVE  OverCap(x + c) - OverCap(x) <= OverCap(y + c) - OverCap(y)
BY BillingAssumption DEF OverCap, Plus

LEMMA OverrunNat ==
    ASSUME NEW spent \in [Days -> Nat]
    PROVE  Overrun(spent) \in Nat
<1> DEFINE f == [d \in Days |-> OverCap(spent[d])]
<1>1. MaxDay \in Nat
  BY BillingAssumption
<1>2. \A i \in 1..MaxDay : f[i] \in Nat
  BY BillingAssumption DEF OverCap, Plus, Days
<1> HIDE DEF f
<1>3. SumTo(f, MaxDay) \in Nat
  BY <1>1, <1>2, SumToType
<1> QED
  BY <1>3 DEF f, Overrun

\* A turn adds to the overrun what it adds on its day.
LEMMA OverrunGrows ==
    ASSUME NEW spent \in [Days -> Nat], NEW k \in Days, NEW c \in Nat
    PROVE  Overrun([spent EXCEPT ![k] = @ + c])
             = Overrun(spent) - OverCap(spent[k]) + OverCap(spent[k] + c)
<1> DEFINE after == [spent EXCEPT ![k] = @ + c]
           f == [d \in Days |-> OverCap(spent[d])]
           g == [d \in Days |-> OverCap(after[d])]
<1>1. MaxDay \in Nat /\ k \in 1..MaxDay
  BY BillingAssumption DEF Days
<1>2. NatTerms(f, MaxDay) /\ SameBut(f, g, MaxDay, k)
  BY BillingAssumption DEF NatTerms, SameBut, OverCap, Plus, Days
<1>3. g[k] \in Nat /\ g[k] = OverCap(spent[k] + c) /\ f[k] = OverCap(spent[k])
  BY BillingAssumption DEF OverCap, Plus
<1> HIDE DEF f, g
<1>4. SumTo(g, MaxDay) = SumTo(f, MaxDay) - f[k] + g[k]
  BY ONLY <1>1, <1>2, <1>3, SumToChanged
<1> QED
  BY <1>3, <1>4 DEF f, g, Overrun

LEMMA OverchargedNow == NeverOvercharged <=>
                        account.toppedUp - account.paid <= Overrun(spentOn)
BY DEF NeverOvercharged, Overrun

LEMMA OverchargedNext == NeverOvercharged' <=>
                         account'.toppedUp - account'.paid <= Overrun(spentOn')
BY DEF NeverOvercharged, Overrun

LEMMA ChargeInit == BillingInit => ChargeInv
<1> SUFFICES ASSUME BillingInit PROVE ChargeInv
  OBVIOUS
<1>1. BillingTypeOK
  BY BillingTypeInit
<1>2. account.toppedUp = 0 /\ account.paid = 0 /\ account.daily.spend = 0
  BY DEF BillingInit, EmptyAccount, EmptyDaily
<1>3. Overrun(spentOn) \in Nat
  BY <1>1, OverrunNat DEF BillingTypeOK
<1>4. account.daily.date \in Days /\ spentOn \in [Days -> Nat]
  BY <1>1 DEF BillingTypeOK
<1>5. Remembered
  BY <1>2, <1>4 DEF Remembered
<1> QED
  BY <1>1, <1>2, <1>3, <1>5, OverchargedNow DEF ChargeInv

LEMMA ChargeAnswer ==
    ASSUME ChargeInv, NEW t \in Turns, NEW m \in Models, NEW u \in Usages,
           AnswerCharged(t, m, u)
    PROVE  Remembered' /\ NeverOvercharged'
<1> DEFINE cost == SpendFromUsage(m, u)
           tokens == TotalTokens(u)
           a == RolloverIfStale(account)
           deduct == DeductFromPaid(a, cost)
<1>0. BillingTypeOK /\ Remembered /\ NeverOvercharged
  BY DEF ChargeInv
<1>1. cost \in Nat /\ tokens \in Nat /\ u.calls \in Nat
  BY Costs
<1>2. RecordUsage(cost, tokens, u.calls) /\ UNCHANGED today
  BY DEF AnswerCharged
<1> HIDE DEF cost, tokens
<1>3. /\ account'.daily.date = today
      /\ account'.daily.spend = a.daily.spend + cost
      /\ account'.toppedUp = a.toppedUp
      /\ deduct \in Nat
      /\ account'.paid = Plus(a.paid - deduct)
      /\ spentOn' = [spentOn EXCEPT ![today] = @ + cost]
  BY <1>0, <1>1, <1>2, Recorded
<1>4. /\ a \in Accounts
      /\ a.paid = account.paid /\ a.toppedUp = account.toppedUp
  BY <1>0, RolledOver
<1>5. today \in Days /\ spentOn \in [Days -> Nat]
  BY <1>0 DEF BillingTypeOK
<1>6. a.daily.spend \in Nat /\ a.daily.spend <= spentOn[today]
  <2>1. a.daily.spend \in Nat
    BY <1>4 DEF Accounts, Daily
  <2>2. a.daily.spend <= spentOn[today]
    BY <1>0, RememberedToday
  <2> QED
    BY <2>1, <2>2
<1>7. deduct <= OverCap(spentOn[today] + cost) - OverCap(spentOn[today])
  BY <1>1, <1>5, <1>6, Convexity DEF deduct, DeductFromPaid
<1>8. Overrun(spentOn')
        = Overrun(spentOn) - OverCap(spentOn[today]) + OverCap(spentOn[today] + cost)
  BY <1>1, <1>3, <1>5, OverrunGrows
<1>9. /\ OverCap(spentOn[today]) \in Nat /\ OverCap(spentOn[today] + cost) \in Nat
      /\ Overrun(spentOn) \in Nat
  BY <1>1, <1>5, OverrunNat, BillingAssumption DEF OverCap, Plus
<1>10. a.paid \in Nat /\ a.toppedUp \in Nat
  BY <1>4 DEF Accounts
<1> HIDE DEF a, deduct
<1>11. Remembered'
  BY <1>1, <1>3, <1>5, <1>6 DEF Remembered
<1>12. account.toppedUp - account.paid <= Overrun(spentOn)
  BY <1>0, OverchargedNow
<1>13. account'.paid \in Nat /\ account'.paid >= a.paid - deduct
  BY <1>3, <1>10 DEF Plus
<1>14. account'.toppedUp - account'.paid <= Overrun(spentOn')
  BY <1>3, <1>4, <1>7, <1>8, <1>9, <1>10, <1>12, <1>13
<1> QED
  BY <1>11, <1>14, OverchargedNext

LEMMA ChargeTopUp ==
    ASSUME ChargeInv, NEW n \in TopUps, TopUp(n)
    PROVE  Remembered' /\ NeverOvercharged'
<1> DEFINE a == RolloverIfStale(account)
<1>0. BillingTypeOK /\ Remembered /\ NeverOvercharged
  BY DEF ChargeInv
<1>1. /\ account' = [daily |-> a.daily, paid |-> a.paid + n,
                     toppedUp |-> a.toppedUp + n]
      /\ UNCHANGED <<today, spentOn>> /\ n \in Nat
  BY BillingAssumption DEF TopUp
<1>2. /\ a \in Accounts /\ a.daily.date = today
      /\ a.paid = account.paid /\ a.toppedUp = account.toppedUp
      /\ a.daily.spend <= spentOn[today]
  BY <1>0, RolledOver, RememberedToday
<1>3. a.paid \in Nat /\ a.toppedUp \in Nat /\ a.daily.spend \in Nat
  BY <1>2 DEF Accounts, Daily
<1>4. today \in Days /\ spentOn \in [Days -> Nat]
  BY <1>0 DEF BillingTypeOK
<1> HIDE DEF a
<1>5. Remembered'
  BY <1>0, <1>1, <1>2, <1>4 DEF Remembered
<1>6. account'.toppedUp - account'.paid = account.toppedUp - account.paid
  BY <1>1, <1>2, <1>3
<1>7. account.toppedUp - account.paid <= Overrun(spentOn)
  BY <1>0, OverchargedNow
<1> QED
  BY <1>1, <1>5, <1>6, <1>7, OverchargedNext

LEMMA ChargeStep == ChargeInv /\ [BillingNext]_billingVars => ChargeInv'
<1> SUFFICES ASSUME ChargeInv, [BillingNext]_billingVars PROVE ChargeInv'
  OBVIOUS
<1>0. BillingTypeOK /\ BillingTypeOK' /\ Remembered /\ NeverOvercharged
  BY BillingTypeStep DEF ChargeInv
<1>1. ASSUME UNCHANGED <<account, spentOn>>
      PROVE  Remembered' /\ NeverOvercharged'
  BY <1>0, <1>1, OverchargedNow, OverchargedNext DEF Remembered
<1>2. ASSUME NEW t \in Turns, PassGate(t) \/ AnswerUncharged(t) PROVE ChargeInv'
  BY <1>0, <1>1, <1>2 DEF PassGate, AnswerUncharged, ChargeInv
<1>3. ASSUME NEW t \in Turns, NEW m \in Models, NEW u \in Usages,
             AnswerCharged(t, m, u)
      PROVE  ChargeInv'
  BY <1>0, <1>3, ChargeAnswer DEF ChargeInv
<1>4. ASSUME NEW n \in TopUps, TopUp(n) PROVE ChargeInv'
  BY <1>0, <1>4, ChargeTopUp DEF ChargeInv
<1>5. CASE NextDay
  BY <1>0, <1>1, <1>5 DEF NextDay, ChargeInv
<1>6. CASE Restart
  <2>1. CASE UNCHANGED account
    BY <1>0, <1>1, <1>6, <2>1 DEF Restart, ChargeInv
  <2>2. CASE account' = EmptyAccount
    <3>1. /\ account'.toppedUp = 0 /\ account'.paid = 0
          /\ account'.daily.spend = 0 /\ account'.daily.date = today
      BY <2>2 DEF EmptyAccount, EmptyDaily
    <3>2. UNCHANGED spentOn /\ spentOn \in [Days -> Nat] /\ today \in Days
      BY <1>0, <1>6 DEF Restart, BillingTypeOK
    <3>3. Overrun(spentOn) \in Nat
      BY <3>2, OverrunNat
    <3>4. Remembered'
      BY <3>1, <3>2 DEF Remembered
    <3>5. NeverOvercharged'
      BY <3>1, <3>2, <3>3, OverchargedNext
    <3> QED
      BY <1>0, <3>4, <3>5 DEF ChargeInv
  <2> QED
    BY <1>6, <2>1, <2>2 DEF Restart
<1>7. CASE UNCHANGED billingVars
  BY <1>0, <1>1, <1>7 DEF billingVars, ChargeInv
<1> QED
  BY <1>2, <1>3, <1>4, <1>5, <1>6, <1>7 DEF BillingNext

\* For every number of open requests, every price list and every sequence of
\* days, top-ups and restarts, the balance pays only for what lies beyond
\* the free quota (recordUsage, billing.ts L203-237).
THEOREM NeverPaysTwice == BillingSpec => []NeverOvercharged
<1>1. ChargeInv => NeverOvercharged
  BY DEF ChargeInv
<1> QED
  BY <1>1, ChargeInit, ChargeStep, PTL DEF BillingSpec

-----------------------------------------------------------------------------
(* What is given away *)

\* How many turns can still go unpaid.
Available == TotalAvailable(RolloverIfStale(account)) > 0
Outstanding == IF Available THEN Cardinality(Turns) ELSE Cardinality(asked)

\* u was given away, n more turns may follow, r refills paid for them.
Exposed(u, n, r) == u + MaxCost * n <= MaxCost * Cardinality(Turns) * r

Exposure == Exposed(uncovered, Outstanding, Refills)
OverrunInv == BillingTypeOK /\ Exposure

LEMMA TurnsCounted ==
    ASSUME NEW S \in SUBSET Turns
    PROVE  /\ Cardinality(S) \in Nat /\ Cardinality(Turns) \in Nat
           /\ Cardinality(S) <= Cardinality(Turns) /\ IsFiniteSet(S)
BY BillingAssumption, FS_Subset, FS_CardinalityType

LEMMA OutstandingCounted ==
    BillingTypeOK => Outstanding \in Nat /\ Outstanding <= Cardinality(Turns)
BY TurnsCounted DEF BillingTypeOK, Outstanding

LEMMA RefillsCounted == BillingTypeOK => Refills \in Nat
BY BillingAssumption DEF BillingTypeOK, Refills, Days

LEMMA CostsMore ==
    ASSUME NEW n \in Nat, NEW m \in Nat, n <= m
    PROVE  /\ MaxCost * n \in Nat /\ MaxCost * m \in Nat
           /\ MaxCost * n <= MaxCost * m
           /\ MaxCost * (n + 1) = MaxCost * n + MaxCost
<1>1. MaxCost \in Nat
  BY BillingAssumption
<1>2. ASSUME NEW a \in Nat PROVE a * n <= a * m /\ a * n \in Nat /\ a * m \in Nat
  BY SMTT(30)
<1>3. ASSUME NEW a \in Nat PROVE a * (n + 1) = a * n + a
  BY SMTT(30)
<1> QED
  BY <1>1, <1>2, <1>3

\* Fewer turns outstanding, less to lose.
LEMMA ExposedFewer ==
    ASSUME NEW u \in Nat, NEW n \in Nat, NEW m \in Nat, NEW r \in Nat,
           Exposed(u, n, r), m <= n
    PROVE  Exposed(u, m, r)
<1>1. MaxCost * m <= MaxCost * n /\ MaxCost * m \in Nat /\ MaxCost * n \in Nat
  BY CostsMore
<1>2. MaxCost * Cardinality(Turns) * r \in Nat
  BY TurnsCounted, BillingAssumption
<1> QED
  BY <1>1, <1>2 DEF Exposed

\* A turn that goes unpaid is one outstanding turn less.
LEMMA ExposedPays ==
    ASSUME NEW u \in Nat, NEW v \in Nat, NEW n \in Nat, NEW m \in Nat,
           NEW r \in Nat, Exposed(u, n, r), m + 1 <= n, v <= u + MaxCost
    PROVE  Exposed(v, m, r)
<1>1. /\ MaxCost * (m + 1) <= MaxCost * n /\ MaxCost * n \in Nat
      /\ MaxCost * m \in Nat /\ MaxCost * (m + 1) = MaxCost * m + MaxCost
  BY CostsMore
<1>2. MaxCost * Cardinality(Turns) * r \in Nat /\ MaxCost \in Nat
  BY TurnsCounted, BillingAssumption
<1> QED
  BY <1>1, <1>2 DEF Exposed

\* A refill allows every open request once more.
LEMMA ExposedAgain ==
    ASSUME NEW u \in Nat, NEW n \in Nat, NEW m \in Nat, NEW r \in Nat,
           Exposed(u, n, r), m <= Cardinality(Turns)
    PROVE  Exposed(u, m, r + 1)
<1> DEFINE b == MaxCost * Cardinality(Turns)
<1>1. Cardinality(Turns) \in Nat /\ MaxCost \in Nat
  BY TurnsCounted, BillingAssumption
<1>2. MaxCost * n \in Nat
  BY CostsMore
<1>3. MaxCost * m <= b /\ MaxCost * m \in Nat /\ b \in Nat
  BY <1>1, CostsMore
<1> HIDE DEF b
<1>4. b * (r + 1) = b * r + b /\ b * r \in Nat
  BY <1>3, SMTT(30)
<1>5. u + MaxCost * n <= b * r
  BY DEF Exposed, b
<1>6. u + MaxCost * m <= b * (r + 1)
  BY <1>2, <1>3, <1>4, <1>5
<1> QED
  BY <1>6 DEF Exposed, b

LEMMA OverrunInit == BillingInit => OverrunInv
<1> SUFFICES ASSUME BillingInit PROVE OverrunInv
  OBVIOUS
<1>1. BillingTypeOK
  BY BillingTypeInit
<1>2. uncovered = 0 /\ Refills = 1
  BY DEF BillingInit, Refills
<1>3. Exposed(0, 0, 0)
  BY TurnsCounted, BillingAssumption DEF Exposed
<1>4. Exposed(0, Outstanding, 0 + 1)
  BY <1>1, <1>3, OutstandingCounted, ExposedAgain
<1> QED
  BY <1>1, <1>2, <1>4 DEF OverrunInv, Exposure

\* A charge leaves something unpaid only when nothing is available after it,
\* and never makes anything available.
LEMMA ChargeExhausts ==
    ASSUME BillingTypeOK, NEW cost \in Nat, NEW tokens \in Nat, NEW calls \in Nat,
           cost <= MaxCost, RecordUsage(cost, tokens, calls), UNCHANGED today
    PROVE  /\ uncovered' \in Nat /\ uncovered' <= uncovered + MaxCost
           /\ Available' => Available /\ uncovered' = uncovered
<1> DEFINE a == RolloverIfStale(account)
           deduct == DeductFromPaid(a, cost)
<1>1. /\ a.daily.spend \in Nat /\ a.paid \in Nat
  BY RolledOver DEF Accounts, Daily
<1>2. /\ account'.daily.date = today
      /\ account'.daily.spend = a.daily.spend + cost
      /\ deduct \in Nat /\ account'.paid = Plus(a.paid - deduct)
      /\ uncovered' = uncovered + Plus(deduct - a.paid)
      /\ uncovered' \in Nat
  BY Recorded
<1>3. RolloverIfStale(account)' = account'
  BY <1>2 DEF RolloverIfStale
<1>4. Available' <=> Plus(FREE_DAILY_SPEND - (a.daily.spend + cost))
                       + Plus(a.paid - deduct) > 0
  BY <1>2, <1>3 DEF Available, TotalAvailable, FreeDailyLeft
<1>5. Available <=> Plus(FREE_DAILY_SPEND - a.daily.spend) + a.paid > 0
  BY DEF Available, TotalAvailable, FreeDailyLeft
<1>6. deduct = OverCap(a.daily.spend + cost) - OverCap(a.daily.spend)
  BY DEF DeductFromPaid
<1>7. uncovered \in Nat /\ FREE_DAILY_SPEND \in Nat /\ MaxCost \in Nat
  BY BillingAssumption DEF BillingTypeOK
<1> HIDE DEF a, deduct
<1>8. deduct <= cost
  BY <1>1, <1>6, <1>7 DEF Plus, OverCap
<1>9. uncovered' <= uncovered + MaxCost
  BY <1>1, <1>2, <1>7, <1>8 DEF Plus
<1>10. Available' => uncovered' = uncovered
  BY <1>1, <1>2, <1>4, <1>6, <1>7 DEF Plus, OverCap
<1>11. Available' => Available
  BY <1>1, <1>2, <1>4, <1>5, <1>6, <1>7 DEF Plus, OverCap
<1> QED
  BY <1>2, <1>9, <1>10, <1>11

LEMMA OverrunAnswer ==
    ASSUME OverrunInv, NEW t \in Turns, NEW m \in Models, NEW u \in Usages,
           AnswerCharged(t, m, u)
    PROVE  Exposure'
<1> DEFINE cost == SpendFromUsage(m, u)
           tokens == TotalTokens(u)
<1>0. BillingTypeOK /\ BillingTypeOK' /\ Exposed(uncovered, Outstanding, Refills)
  BY BillingTypeStep DEF OverrunInv, Exposure, BillingNext
<1>1. cost \in Nat /\ cost <= MaxCost /\ tokens \in Nat /\ u.calls \in Nat
  BY Costs
<1>2. /\ RecordUsage(cost, tokens, u.calls) /\ UNCHANGED <<today, restarts, paidIn>>
      /\ t \in asked /\ asked' = asked \ {t}
  BY DEF AnswerCharged
<1> HIDE DEF cost, tokens
<1>3. /\ uncovered' \in Nat /\ uncovered' <= uncovered + MaxCost
      /\ Available' => Available /\ uncovered' = uncovered
  BY <1>0, <1>1, <1>2, ChargeExhausts
<1>4. Refills' = Refills /\ Refills \in Nat /\ uncovered \in Nat
  BY <1>0, <1>2, RefillsCounted DEF Refills, BillingTypeOK
<1>5. /\ Outstanding \in Nat /\ Outstanding' \in Nat
  <2>1. asked \in SUBSET Turns /\ asked' \in SUBSET Turns
    BY <1>0 DEF BillingTypeOK
  <2> QED
    BY <1>0, <2>1, TurnsCounted, OutstandingCounted DEF Outstanding
<1>6. CASE Available'
  <2>1. Outstanding' = Outstanding /\ uncovered' = uncovered
    BY <1>3, <1>6 DEF Outstanding
  <2> QED
    BY <1>0, <1>4, <2>1 DEF Exposure
<1>7. CASE ~ Available'
  <2>1. asked \in SUBSET Turns
    BY <1>0 DEF BillingTypeOK
  <2>2. /\ IsFiniteSet(asked) /\ Cardinality(asked) \in Nat
        /\ Cardinality(asked) <= Cardinality(Turns)
        /\ Cardinality(Turns) \in Nat
    BY <2>1, TurnsCounted
  <2>3. Cardinality(asked') = Cardinality(asked) - 1
    BY <1>2, <2>2, FS_RemoveElement
  <2>4. Outstanding' = Cardinality(asked') /\ Cardinality(asked) <= Outstanding
    BY <1>7, <2>2 DEF Outstanding
  <2>5. Outstanding' + 1 <= Outstanding
    BY <1>5, <2>2, <2>3, <2>4
  <2>6. Exposed(uncovered', Outstanding', Refills)
    BY <1>0, <1>3, <1>4, <1>5, <2>5, ExposedPays
  <2> QED
    BY <1>4, <2>6 DEF Exposure
<1> QED
  BY <1>6, <1>7

LEMMA OverrunStep == OverrunInv /\ [BillingNext]_billingVars => OverrunInv'
<1> SUFFICES ASSUME OverrunInv, [BillingNext]_billingVars PROVE OverrunInv'
  OBVIOUS
<1>0. /\ BillingTypeOK /\ BillingTypeOK'
      /\ Exposed(uncovered, Outstanding, Refills)
  BY BillingTypeStep DEF OverrunInv, Exposure
<1>1. /\ uncovered \in Nat /\ Refills \in Nat /\ Outstanding \in Nat
      /\ asked \in SUBSET Turns /\ asked' \in SUBSET Turns
  BY <1>0, RefillsCounted, OutstandingCounted DEF BillingTypeOK
<1>2. /\ Cardinality(Turns) \in Nat
      /\ Cardinality(asked) \in Nat /\ Cardinality(asked') \in Nat
      /\ Cardinality(asked') <= Cardinality(Turns)
  BY <1>1, TurnsCounted
<1>3. Outstanding' \in Nat /\ Outstanding' <= Cardinality(Turns)
  BY <1>2 DEF Outstanding
<1>4. ASSUME uncovered' = uncovered, Refills' = Refills + 1
      PROVE  OverrunInv'
  <2>1. Exposed(uncovered, Outstanding', Refills + 1)
    BY <1>0, <1>1, <1>3, ExposedAgain
  <2> QED
    BY <1>0, <1>4, <2>1 DEF OverrunInv, Exposure
<1>5. ASSUME uncovered' = uncovered, Refills' = Refills,
             Outstanding' <= Outstanding
      PROVE  OverrunInv'
  <2>1. Exposed(uncovered, Outstanding', Refills)
    BY <1>0, <1>1, <1>3, <1>5, ExposedFewer
  <2> QED
    BY <1>0, <1>5, <2>1 DEF OverrunInv, Exposure
<1>6. ASSUME NEW t \in Turns, PassGate(t) PROVE OverrunInv'
  <2>1. TotalAvailable(RolloverIfStale(account)) \in Nat
    BY <1>0, RolledOver, BillingAssumption
    DEF TotalAvailable, FreeDailyLeft, Plus, Accounts, Daily
  <2>2. Available
    BY <1>6, <2>1 DEF PassGate, Blocked, BlockedAccount, Available
  <2>3. Available'
    BY <1>6, <2>2 DEF PassGate, Available, TotalAvailable, FreeDailyLeft,
                      RolloverIfStale, EmptyDaily
  <2> QED
    BY <1>2, <1>5, <1>6, <2>2, <2>3 DEF PassGate, Outstanding, Refills
<1>7. ASSUME NEW t \in Turns, AnswerUncharged(t) PROVE OverrunInv'
  <2>1. Available' = Available
    BY <1>7 DEF AnswerUncharged, Available, TotalAvailable, FreeDailyLeft,
                RolloverIfStale, EmptyDaily
  <2>2. IsFiniteSet(asked) /\ asked' = asked \ {t} /\ t \in asked
    BY <1>1, <1>7, TurnsCounted DEF AnswerUncharged
  <2>3. Cardinality(asked') <= Cardinality(asked)
    BY <1>2, <2>2, FS_RemoveElement
  <2>4. Outstanding' <= Outstanding
    BY <1>2, <2>1, <2>3 DEF Outstanding
  <2> QED
    BY <1>5, <1>7, <2>4 DEF AnswerUncharged, Refills
<1>8. ASSUME NEW t \in Turns, NEW m \in Models, NEW u \in Usages,
             AnswerCharged(t, m, u)
      PROVE  OverrunInv'
  BY <1>0, <1>8, OverrunAnswer DEF OverrunInv
<1>9. ASSUME NEW n \in TopUps, TopUp(n) PROVE OverrunInv'
  BY <1>0, <1>4, <1>9 DEF TopUp, Refills, BillingTypeOK, Days
<1>10. CASE NextDay
  BY <1>0, <1>4, <1>10 DEF NextDay, Refills, BillingTypeOK, Days
<1>11. CASE Restart
  BY <1>0, <1>4, <1>11 DEF Restart, Refills, BillingTypeOK, Days
<1>12. CASE UNCHANGED billingVars
  <2>1. Available' = Available
    BY <1>12 DEF billingVars, Available, TotalAvailable, FreeDailyLeft,
                 RolloverIfStale, EmptyDaily
  <2>2. Outstanding' = Outstanding
    BY <1>12, <2>1 DEF billingVars, Outstanding
  <2> QED
    BY <1>1, <1>5, <1>12, <2>2 DEF billingVars, Refills
<1> QED
  BY <1>6, <1>7, <1>8, <1>9, <1>10, <1>11, <1>12 DEF BillingNext

\* However many requests are open at once and whatever they turn out to cost,
\* what the check before the agent call lets through unpaid is at most one
\* turn per open request for each day, top-up and restart (chat route L50-71).
THEOREM GivenAwayBounded == BillingSpec => []OverrunBounded
<1>1. OverrunInv => OverrunBounded
  <2> SUFFICES ASSUME OverrunInv PROVE OverrunBounded
    OBVIOUS
  <2>1. BillingTypeOK /\ Exposed(uncovered, Outstanding, Refills)
    BY DEF OverrunInv, Exposure
  <2>2. /\ uncovered \in Nat /\ Refills \in Nat /\ Outstanding \in Nat
    BY <2>1, RefillsCounted, OutstandingCounted DEF BillingTypeOK
  <2>3. Exposed(uncovered, 0, Refills)
    BY <2>1, <2>2, ExposedFewer
  <2>4. MaxCost * 0 = 0
    BY BillingAssumption
  <2> QED
    BY <2>2, <2>3, <2>4 DEF Exposed, OverrunBounded
<1> QED
  BY <1>1, OverrunInit, OverrunStep, PTL DEF BillingSpec

-----------------------------------------------------------------------------
(* The chat page: the values its variables take *)

TurnRecords == [by : {"page", "legacy", "other"}, n : Nat,
                role : {"user", "agent"}, home : 0..MaxThreads]
Rows == [seq : Nat, turn : TurnRecords]
Posts == [to : Threads, turn : TurnRecords, seq : Nat]
Statuses == {"unused", "open", "archived", "deleted"}

\* Sequence numbers are natural, and there is a highest one.
Numbers(t) == {r.seq : r \in rows[t]} \union {0}
Topped(t) == \E m \in Numbers(t) : \A n \in Numbers(t) : n <= m

ServerTyped ==
    /\ status \in [Threads -> Statuses]
    /\ rows \in [Threads -> SUBSET Rows]
    /\ posts \in [Posters -> {NoPost} \cup Posts]
    /\ \A t \in Threads : IsFiniteSet(rows[t]) /\ Topped(t)

\* What a flow has read is left open: it is only shown.
IsCall(f) ==
    /\ {"op", "step", "id", "home", "read"} \subseteq DOMAIN f /\ f.op # "idle"
    /\ f.id \in 0..MaxThreads
    /\ f.step \in {"load", "loaded", "change", "posts"} => f.id \in Threads
PageTyped ==
    /\ activeThreadId \in 0..MaxThreads
    /\ DOMAIN flows = Slots
    /\ \A i \in Slots : flows[i] = Idle \/ IsCall(flows[i])

\* A send in progress is the last one.
IsSend(s) ==
    /\ {"step", "n", "before", "next", "home", "authed"} \subseteq DOMAIN s
    /\ s.step \in {"ask", "asked", "question", "answer"}
    /\ s.n = sends /\ s.home \in 0..MaxThreads
SendTyped ==
    /\ sends \in 0..MaxSends /\ extras \in Nat
    /\ sending = NotSending \/ (IsSend(sending) /\ sends # 0)
    /\ acked \subseteq 1..sends /\ asked \subseteq Turns

ChatTyped == ServerTyped /\ PageTyped /\ SendTyped

LEMMA ChatConstants ==
    /\ MaxThreads \in Nat /\ MaxSends \in Nat /\ Threads = 1..MaxThreads
    /\ NoThread = 0 /\ NoThread \notin Threads
    /\ \A n \in 1..MaxSends : n \in Turns
    /\ Posters = {"send", "import", "other", "stray"}
BY ChatAssumption DEF Threads, NoThread, Posters

LEMMA NextSeqAbove ==
    ASSUME ServerTyped, NEW t \in Threads
    PROVE  NextSeq(t) \in Nat /\ \A r \in rows[t] : r.seq < NextSeq(t)
<1>1. Numbers(t) \subseteq Nat
  BY DEF ServerTyped, Rows, Numbers
<1>2. Topped(t)
  BY DEF ServerTyped
<1>3. \E m \in Numbers(t) : \A n \in Numbers(t) : m >= n
  BY <1>1, <1>2 DEF Topped
<1>4. Max(Numbers(t)) \in Numbers(t) /\ \A n \in Numbers(t) : Max(Numbers(t)) >= n
  BY <1>3 DEF Max
<1>5. NextSeq(t) = Max(Numbers(t)) + 1
  BY DEF NextSeq, Numbers
<1>6. \A r \in rows[t] : r.seq \in Numbers(t)
  BY DEF Numbers
<1> HIDE DEF Numbers
<1> QED
  BY <1>1, <1>4, <1>5, <1>6

LEMMA PostFacts ==
    ASSUME ServerTyped, NEW p \in Posters, posts[p] # NoPost
    PROVE  /\ posts[p] \in Posts /\ posts[p].to \in Threads
           /\ posts[p].turn \in TurnRecords /\ posts[p].seq \in Nat
<1>1. posts[p] \in Posts
  BY DEF ServerTyped
<1> QED
  BY <1>1 DEF Posts

LEMMA SendFacts ==
    ASSUME SendTyped, sending # NotSending
    PROVE  /\ sending.step \in {"ask", "asked", "question", "answer"}
           /\ sending.n = sends /\ sending.n \in 1..MaxSends /\ sending.n \in Turns
           /\ sending.home \in 0..MaxThreads
<1>1. IsSend(sending) /\ sends \in 1..MaxSends
  BY ChatConstants DEF SendTyped
<1> QED
  BY <1>1, ChatConstants DEF IsSend

LEMMA SendIdle == sending.step \in {"ask", "asked", "question", "answer"} => sending # NotSending
BY DEF NotSending

-----------------------------------------------------------------------------
(* What a step of the page does to the server *)

\* A handler that starts, for a turn that is not the page's own.
Begun ==
    \E p \in {"import", "other"}, to \in Threads, turn \in TurnRecords :
        /\ turn.by # "page" /\ turn.home = to /\ Exists(to)
        /\ Begin(p, to, turn)

OthersPost ==
    /\ UNCHANGED <<status, acked, sending, sends>>
    /\ \/ \E p \in Posters \ {"send"} : Insert(p)
       \/ rows' = rows /\ (Begun \/ Drop("import"))

\* Threads are made, archived and deleted.
ThreadsMove ==
    /\ UNCHANGED <<posts, acked, sending, sends>>
    /\ \/ UNCHANGED <<status, rows>>
       \/ \E t \in Threads :
             /\ status[t] = "unused" /\ status' = [status EXCEPT ![t] = "open"]
             /\ rows' = rows
       \/ \E t \in Threads :
             /\ Exists(t) /\ status' = [status EXCEPT ![t] = "archived"]
             /\ rows' = rows
       \/ \E t \in Threads :
             /\ Exists(t) /\ status' = [status EXCEPT ![t] = "deleted"]
             /\ rows' = [rows EXCEPT ![t] = {}]

\* A send up to what it is to save.
Asking ==
    /\ UNCHANGED <<status, rows, posts, acked>>
    /\ \/ sending = NotSending /\ sends' = sends + 1 /\ sending'.step = "ask"
       \/ /\ sending.step \in {"ask", "asked"} /\ sends' = sends
          /\ sending' = NotSending \/ sending'.step \in {"asked", "question"}

Saving == SkipSave \/ StartSave \/ Saved \/ SaveLost

LEMMA FlowFacts ==
    ASSUME PageTyped, NEW i \in Slots, flows[i].op # "idle"
    PROVE  IsCall(flows[i])
BY DEF PageTyped, Idle

\* The first unused thread is one.
LEMMA LeastThread ==
    ASSUME NEW U, U \subseteq Threads, U # {}
    PROVE  Min(U) \in U
<1>1. U \subseteq Nat
  BY ChatConstants
<1>2. \E n \in U : \A m \in U : n =< m
  BY <1>1, LeastNatural
<1> QED
  BY <1>2 DEF Min

LEMMA FlowsMove ==
    ASSUME ChatTyped, FlowStep
    PROVE  ThreadsMove \/ OthersPost
<1> USE DEF ChatTyped
<1>1. PICK i \in Slots : \/ List(i) \/ Create(i) \/ Load(i) \/ Loaded(i) \/ Change(i)
                         \/ FlowFails(i) \/ Import(i) \/ Imported(i) \/ ImportLost(i)
  BY DEF FlowStep
<1>2. CASE List(i) \/ Load(i) \/ Loaded(i)
  BY <1>2 DEF List, Load, Loaded, FlowFrame, counters, ThreadsMove
<1>3. CASE Create(i)
  <2>1. UNCHANGED <<posts, acked, sending, sends, rows>>
    BY <1>3 DEF Create, FlowFrame, counters
  <2>2. ASSUME status' # status
        PROVE  \E t \in Threads : status[t] = "unused" /\ status' = [status EXCEPT ![t] = "open"]
    <3> DEFINE U == {u \in Threads : status[u] = "unused"}
    <3>1. U # {} /\ status' = [status EXCEPT ![Min(U)] = "open"]
      BY <1>3, <2>2 DEF Create
    <3>2. Min(U) \in U
      BY <3>1, LeastThread
    <3> QED
      BY <3>1, <3>2
  <2> QED
    BY <2>1, <2>2 DEF ThreadsMove
<1>4. CASE Change(i)
  <2>1. IsCall(flows[i]) /\ flows[i].id \in Threads
    BY <1>4, FlowFacts DEF Change, Waits, IsCall
  <2>2. UNCHANGED <<posts, acked, sending, sends>>
    BY <1>4 DEF Change, FlowFrame, counters
  <2>3. \/ UNCHANGED <<status, rows>>
        \/ /\ Exists(flows[i].id)
           /\ \/ status' = [status EXCEPT ![flows[i].id] = "archived"] /\ rows' = rows
              \/ /\ status' = [status EXCEPT ![flows[i].id] = "deleted"]
                 /\ rows' = [rows EXCEPT ![flows[i].id] = {}]
    BY <1>4 DEF Change
  <2> QED
    BY <2>1, <2>2, <2>3 DEF ThreadsMove
<1>5. CASE FlowFails(i)
  <2>1. UNCHANGED <<posts, acked, sending, sends>>
    BY <1>5 DEF FlowFails
  <2>2. \/ UNCHANGED <<status, rows>>
        \/ /\ flows[i].step = "change" /\ Exists(flows[i].id)
           /\ \/ status' = [status EXCEPT ![flows[i].id] = "archived"] /\ rows' = rows
              \/ /\ status' = [status EXCEPT ![flows[i].id] = "deleted"]
                 /\ rows' = [rows EXCEPT ![flows[i].id] = {}]
    BY <1>5 DEF FlowFails
  <2>3. flows[i].step = "change" => flows[i].id \in Threads
    BY <1>5, FlowFacts DEF FlowFails, IsCall
  <2> QED
    BY <2>1, <2>2, <2>3 DEF ThreadsMove
<1>6. CASE Import(i)
  <2>1. UNCHANGED <<status, rows, acked, sending, sends>>
    BY <1>6 DEF Import, server
  <2>2. flows[i].id \in Threads
    BY <1>6, FlowFacts DEF Import, Waits, IsCall
  <2>3. CASE Accepted(flows[i].id)
    <3> DEFINE turn == Turn("legacy", 1, "user", flows[i].id)
    <3>1. Begin("import", flows[i].id, turn) /\ Exists(flows[i].id)
      BY <1>6, <2>3 DEF Import, Accepted
    <3>2. turn \in TurnRecords /\ turn.by # "page" /\ turn.home = flows[i].id
      BY <2>2, ChatConstants DEF TurnRecords, Turn
    <3> QED
      BY <2>1, <2>2, <3>1, <3>2 DEF OthersPost, Begun
  <2>4. CASE ~ Accepted(flows[i].id)
    BY <1>6, <2>1, <2>4 DEF Import, ThreadsMove
  <2> QED
    BY <2>3, <2>4
<1>7. CASE Imported(i)
  BY <1>7 DEF Imported, OthersPost, Posters
<1>8. CASE ImportLost(i)
  BY <1>8 DEF ImportLost, OthersPost, server
<1> QED
  BY <1>1, <1>2, <1>3, <1>4, <1>5, <1>6, <1>7, <1>8

LEMMA ClicksMove ==
    ASSUME Click
    PROVE  ThreadsMove
<1>1. ASSUME NEW call, Starts(call) PROVE ThreadsMove
  BY <1>1 DEF Starts, server, ThreadsMove
<1>2. CASE EmptyView \/ TopUpDone \/ DiscardLegacyChat
  BY <1>2 DEF EmptyView, TopUpDone, DiscardLegacyChat, server, counters, ThreadsMove
<1>3. CASE NewThread \/ ClearHistory \/ ImportLegacyChat
  BY <1>1, <1>3 DEF NewThread, ClearHistory, ImportLegacyChat
<1>4. ASSUME NEW t \in Listable, PickThread(t) \/ DeleteThread(t) \/ ArchiveThread(t)
      PROVE  ThreadsMove
  BY <1>1, <1>4 DEF PickThread, DeleteThread, ArchiveThread
<1> QED
  BY <1>2, <1>3, <1>4 DEF Click

LEMMA SendsMove ==
    ASSUME ChatTyped, SendStep
    PROVE  ThreadsMove \/ Asking \/ Saving
<1>1. CASE LateAnswer
  BY <1>1 DEF LateAnswer, server, counters, ThreadsMove
<1>2. CASE Send
  BY <1>2 DEF Send, server, Asking
<1>3. CASE ChatAdmitted
  <2>1. sending # NotSending
    BY <1>3, SendIdle DEF ChatAdmitted
  <2>2. IsSend(sending)
    BY <2>1 DEF ChatTyped, SendTyped
  <2> QED
    BY <1>3, <2>2 DEF ChatAdmitted, IsSend, server, counters, Asking
<1>4. CASE ChatRefused
  BY <1>4 DEF ChatRefused, server, counters, Asking
<1>5. CASE ChatAnswered \/ ChatUnauthenticated
  <2>1. sending.step \in {"ask", "asked"} /\ ShowAnswer
    BY <1>5 DEF ChatAnswered, ChatUnauthenticated
  <2>2. IsSend(sending)
    BY <2>1, SendIdle DEF ChatTyped, SendTyped
  <2>3. UNCHANGED <<status, rows, posts, acked, sends>>
    BY <1>5 DEF ChatAnswered, ChatUnauthenticated, server, counters
  <2> QED
    BY <2>1, <2>2, <2>3 DEF ShowAnswer, IsSend, Asking
<1>6. CASE ChatLost
  BY <1>6 DEF ChatLost, server, Asking
<1> QED
  BY <1>1, <1>2, <1>3, <1>4, <1>5, <1>6 DEF SendStep, Saving

LEMMA Moves ==
    ASSUME ChatTyped, [ChatNext]_chatVars
    PROVE  ThreadsMove \/ OthersPost \/ Asking \/ Saving
<1>1. CASE SendStep
  BY <1>1, SendsMove
<1>2. CASE PostStep
  BY <1>2 DEF PostStep, InsertAlone, OthersPost
<1>3. CASE PollStep
  BY <1>3 DEF PollStep, PollTick, PollServed, PollArrives, server, counters, ThreadsMove
<1>4. CASE FlowStep
  BY <1>4, FlowsMove
<1>5. CASE Click
  BY <1>5, ClicksMove
<1>6. ASSUME NEW t \in Threads, RemotePost(t) PROVE OthersPost
  <2> DEFINE turn == Turn("other", extras, "user", t)
  <2>1. UNCHANGED <<status, rows, acked, sending, sends>> /\ Exists(t)
        /\ Begin("other", t, turn)
    BY <1>6 DEF RemotePost, server
  <2>2. turn \in TurnRecords /\ turn.by # "page" /\ turn.home = t
    BY ChatConstants DEF ChatTyped, SendTyped, TurnRecords, Turn
  <2> QED
    BY <2>1, <2>2 DEF OthersPost, Begun
<1>7. CASE UNCHANGED chatVars
  BY <1>7 DEF chatVars, server, counters, ThreadsMove
<1> QED
  BY <1>1, <1>2, <1>3, <1>4, <1>5, <1>6, <1>7 DEF ChatNext, Elsewhere

LEMMA ChatTypeInit == ChatInit => ChatTyped
<1> SUFFICES ASSUME ChatInit PROVE ChatTyped
  OBVIOUS
<1>1. ServerTyped
  <2>1. status \in [Threads -> Statuses] /\ posts \in [Posters -> {NoPost} \cup Posts]
    BY DEF ChatInit, Statuses
  <2>2. rows = [t \in Threads |-> {}]
    BY DEF ChatInit
  <2>3. ASSUME NEW t \in Threads PROVE IsFiniteSet(rows[t]) /\ Topped(t)
    BY <2>2, FS_EmptySet DEF Topped, Numbers
  <2> QED
    BY <2>1, <2>2, <2>3 DEF ServerTyped
<1>2. PageTyped
  <2>1. IsCall(Call("mount", "list", NoThread, NoThread))
    BY ChatConstants DEF IsCall, Call
  <2>2. activeThreadId = 0 /\ DOMAIN flows = Slots
        /\ \A i \in Slots : flows[i] = Idle \/ flows[i] = Call("mount", "list", NoThread, NoThread)
    BY DEF ChatInit, NoThread
  <2> QED
    BY <2>1, <2>2, ChatConstants DEF PageTyped
<1>3. SendTyped
  BY ChatConstants DEF ChatInit, BillingInit, SendTyped
<1> QED
  BY <1>1, <1>2, <1>3 DEF ChatTyped

LEMMA CallMade ==
    ASSUME NEW op, NEW step, NEW id \in 0..MaxThreads, NEW home,
           op # "idle", step \in {"load", "loaded", "change", "posts"} => id \in Threads
    PROVE  IsCall(Call(op, step, id, home))
BY DEF IsCall, Call

\* A callback that goes on, or ends.
LEMMA FlowMoves ==
    ASSUME PageTyped, NEW i \in Slots, flows[i].op # "idle",
           \/ End(i)
           \/ \E step \in {"list", "create", "load", "posts"}, id \in 0..MaxThreads :
                 Goto(i, step, id) /\ (step \in {"load", "posts"} => id \in Threads)
    PROVE  DOMAIN flows' = Slots /\ \A j \in Slots : flows'[j] = Idle \/ IsCall(flows'[j])
<1>0. IsCall(flows[i]) /\ DOMAIN flows = Slots
  BY FlowFacts DEF PageTyped
<1>1. CASE End(i)
  BY <1>0, <1>1 DEF End, PageTyped
<1>2. ASSUME NEW step \in {"list", "create", "load", "posts"}, NEW id \in 0..MaxThreads,
             Goto(i, step, id), step \in {"load", "posts"} => id \in Threads
      PROVE  DOMAIN flows' = Slots /\ \A j \in Slots : flows'[j] = Idle \/ IsCall(flows'[j])
  <2> DEFINE f == [flows[i] EXCEPT !.step = step, !.id = id]
  <2>1. DOMAIN flows' = Slots /\ \A j \in Slots \ {i} : flows'[j] = flows[j]
    BY <1>0, <1>2 DEF Goto
  <2>2. flows'[i] = f
    BY <1>0, <1>2 DEF Goto
  <2>3. DOMAIN f = DOMAIN flows[i] /\ f.op = flows[i].op /\ f.step = step /\ f.id = id
    BY <1>0 DEF IsCall
  <2>4. IsCall(f)
    <3> HIDE DEF f
    <3> QED
      BY <1>0, <1>2, <2>3 DEF IsCall
  <2> QED
    BY <2>1, <2>2, <2>4 DEF PageTyped
<1> QED
  BY <1>1, <1>2

LEMMA StartsTyped ==
    ASSUME PageTyped, NEW call, IsCall(call), Starts(call)
    PROVE  PageTyped'
<1>1. PICK i \in Slots : flows' = [flows EXCEPT ![i] = call]
  BY DEF Starts
<1>2. activeThreadId' = activeThreadId
  BY DEF Starts, page
<1>3. DOMAIN flows' = Slots /\ \A j \in Slots : flows'[j] = flows[j] \/ flows'[j] = call
  BY <1>1 DEF PageTyped
<1> QED
  BY <1>2, <1>3 DEF PageTyped, IsCall

LEMMA PageTypeStep ==
    ASSUME ChatTyped, [ChatNext]_chatVars
    PROVE  PageTyped'
<1> USE DEF ChatTyped
<1>0. ASSUME UNCHANGED <<activeThreadId, flows>> PROVE PageTyped'
  BY <1>0 DEF PageTyped, IsCall
<1>1. CASE SendStep
  BY <1>0, <1>1
     DEF SendStep, Send, ChatAdmitted, ChatRefused, ChatAnswered, ChatUnauthenticated,
         ChatLost, LateAnswer, SkipSave, StartSave, Saved, SaveLost, ShowAnswer, page
<1>2. CASE PostStep \/ PollStep
  BY <1>0, <1>2 DEF PostStep, InsertAlone, PollStep, PollTick, PollServed, PollArrives, page
<1>3. ASSUME NEW t \in Threads, RemotePost(t) PROVE PageTyped'
  BY <1>0, <1>3 DEF RemotePost, page
<1>4. CASE UNCHANGED chatVars
  BY <1>0, <1>4 DEF chatVars, page
<1>5. CASE FlowStep
  <2>1. PICK i \in Slots : \/ List(i) \/ Create(i) \/ Load(i) \/ Loaded(i) \/ Change(i)
                           \/ FlowFails(i) \/ Import(i) \/ Imported(i) \/ ImportLost(i)
    BY <1>5 DEF FlowStep
  <2>2. flows[i].op # "idle"
    BY <2>1 DEF List, Create, Load, Loaded, Change, FlowFails, Import, Imported,
                ImportLost, Waits
  <2>3. /\ IsCall(flows[i]) /\ flows[i].id \in 0..MaxThreads
        /\ flows[i].step \in {"load", "loaded", "change", "posts"} => flows[i].id \in Threads
    BY <2>2, FlowFacts DEF IsCall
  <2>4. /\ 0 \in 0..MaxThreads /\ Threads \subseteq 0..MaxThreads /\ NoThread = 0
        /\ activeThreadId \in 0..MaxThreads
    BY ChatConstants DEF PageTyped
  <2>5. ASSUME activeThreadId' \in 0..MaxThreads,
               \/ End(i)
               \/ \E step \in {"list", "create", "load", "posts"}, id \in 0..MaxThreads :
                     Goto(i, step, id) /\ (step \in {"load", "posts"} => id \in Threads)
        PROVE  PageTyped'
    BY <2>2, <2>5, FlowMoves DEF PageTyped
  <2>6. CASE List(i)
    <3>1. activeThreadId' = activeThreadId
      BY <2>6 DEF List, Render
    <3>2. End(i) \/ (\E t \in Threads : Goto(i, "load", t)) \/ Goto(i, "create", NoThread)
      BY <2>6 DEF List, OpenAnother, OpenThreads
    <3> QED
      BY <2>4, <2>5, <3>1, <3>2
  <2>7. CASE Create(i)
    <3> DEFINE U == {u \in Threads : status[u] = "unused"}
    <3>1. CASE UNCHANGED page /\ End(i)
      BY <2>4, <2>5, <3>1 DEF page
    <3>2. CASE U # {} /\ activeThreadId' = Min(U) /\ (End(i) \/ Goto(i, "posts", Min(U)))
      <4>1. Min(U) \in Threads
        BY <3>2, LeastThread
      <4> QED
        BY <2>4, <2>5, <3>2, <4>1
    <3> QED
      BY <2>7, <3>1, <3>2 DEF Create, Render, NoRender
  <2>8. CASE Load(i)
    <3>0. activeThreadId' = activeThreadId
      BY <2>8 DEF Load, NoRender, page
    <3>1. CASE End(i)
      BY <2>4, <2>5, <3>0, <3>1
    <3>2. ASSUME NEW m, flows' = [flows EXCEPT ![i].step = "loaded", ![i].read = m]
          PROVE  PageTyped'
      <4> DEFINE f == [flows[i] EXCEPT !.step = "loaded", !.read = m]
      <4>1. DOMAIN flows' = Slots /\ flows'[i] = f /\ \A j \in Slots \ {i} : flows'[j] = flows[j]
        BY <3>2 DEF PageTyped
      <4>2. DOMAIN f = DOMAIN flows[i] /\ f.op = flows[i].op /\ f.step = "loaded"
            /\ f.id = flows[i].id
        BY <2>3 DEF IsCall
      <4>3. flows[i].id \in Threads
        BY <2>3, <2>8 DEF Load, Waits
      <4>4. IsCall(f)
        <5> HIDE DEF f
        <5> QED
          BY <2>3, <4>2, <4>3 DEF IsCall
      <4> HIDE DEF f
      <4> QED
        BY <3>0, <4>1, <4>4 DEF PageTyped, IsCall
    <3> QED
      BY <2>8, <3>1, <3>2 DEF Load
  <2>9. CASE Loaded(i)
    <3>1. activeThreadId' = flows[i].id /\ End(i)
      BY <2>9 DEF Loaded, Render
    <3> QED
      BY <2>3, <2>5, <3>1
  <2>10. CASE Change(i) \/ FlowFails(i)
    <3>1. activeThreadId' = activeThreadId
      BY <2>10 DEF Change, FlowFails, NoRender, page
    <3>2. End(i) \/ Goto(i, "create", NoThread) \/ Goto(i, "list", flows[i].id)
      BY <2>10 DEF Change, FlowFails
    <3> QED
      BY <2>3, <2>4, <2>5, <3>1, <3>2
  <2>11. CASE Import(i) \/ Imported(i)
    <3>1. activeThreadId' = activeThreadId /\ flows[i].id \in Threads
      BY <2>3, <2>11 DEF Import, Imported, Waits
    <3>2. UNCHANGED flows \/ Goto(i, "load", flows[i].id)
      BY <2>11 DEF Import, Imported
    <3> QED
      BY <1>0, <2>4, <2>5, <3>1, <3>2
  <2>12. CASE ImportLost(i)
    <3>1. activeThreadId' = activeThreadId /\ End(i)
      BY <2>12 DEF ImportLost, page
    <3> QED
      BY <2>4, <2>5, <3>1
  <2> QED
    BY <2>1, <2>6, <2>7, <2>8, <2>9, <2>10, <2>11, <2>12
<1>6. CASE Click
  <2>0. NoThread \in 0..MaxThreads /\ Threads \subseteq 0..MaxThreads
        /\ Listable \subseteq Threads /\ activeThreadId \in 0..MaxThreads
        /\ (activeThreadId # NoThread => activeThreadId \in Threads)
    BY ChatConstants DEF PageTyped, Listable
  <2>1. CASE EmptyView \/ TopUpDone \/ DiscardLegacyChat
    BY <1>0, <2>1 DEF EmptyView, TopUpDone, DiscardLegacyChat
  <2>2. ASSUME NEW t \in Listable, PickThread(t) \/ DeleteThread(t) \/ ArchiveThread(t)
        PROVE  PageTyped'
    <3>1. /\ IsCall(Call("pick", "load", t, NoThread))
          /\ IsCall(Call("delete", "change", t, IfShown(t)))
          /\ IsCall(Call("archive", "change", t, IfShown(t)))
      BY <2>0, CallMade
    <3> QED
      BY <2>2, <3>1, StartsTyped DEF PickThread, DeleteThread, ArchiveThread
  <2>3. CASE NewThread \/ ImportLegacyChat
    <3>1. /\ IsCall(Call("new", "create", NoThread, NoThread))
          /\ IsCall(Call("import", "create", NoThread, NoThread))
      BY <2>0, CallMade
    <3> QED
      BY <2>3, <3>1, StartsTyped DEF NewThread, ImportLegacyChat
  <2>4. CASE ClearHistory
    <3>1. /\ activeThreadId # NoThread
               => IsCall(Call("clear", "change", activeThreadId, NoThread))
          /\ IsCall(Call("clear", "create", NoThread, NoThread))
      BY <2>0, CallMade
    <3> QED
      BY <2>4, <3>1, StartsTyped DEF ClearHistory
  <2> QED
    BY <1>6, <2>1, <2>2, <2>3, <2>4 DEF Click
<1> QED
  BY <1>1, <1>2, <1>3, <1>4, <1>5, <1>6 DEF ChatNext, Elsewhere

\* A send that goes one step on.
LEMMA SendGoesOn ==
    ASSUME IsSend(sending), NEW step \in {"ask", "asked", "question", "answer"},
           sending' = [sending EXCEPT !.step = step], sends' = sends
    PROVE  /\ IsSend(sending)' /\ sending'.step = step
           /\ sending'.n = sending.n /\ sending'.home = sending.home
BY DEF IsSend

LEMMA SendTypeStep ==
    ASSUME ChatTyped, [ChatNext]_chatVars
    PROVE  SendTyped'
<1> USE DEF ChatTyped
<1>0. /\ sends \in 0..MaxSends /\ acked \subseteq 1..sends /\ asked \subseteq Turns
      /\ extras \in Nat
      /\ sending = NotSending \/ (IsSend(sending) /\ sends # 0)
  BY DEF SendTyped
<1>1. ASSUME UNCHANGED <<sending, sends, acked>>, asked' \subseteq Turns, extras' \in Nat
      PROVE  SendTyped'
  BY <1>0, <1>1 DEF SendTyped, IsSend
<1>2. ASSUME UNCHANGED billingVars PROVE asked' \subseteq Turns
  BY <1>0, <1>2 DEF billingVars
<1>3. ASSUME Extra \/ UNCHANGED extras PROVE extras' \in Nat
  BY <1>0, <1>3 DEF Extra
<1>4. ASSUME sends' = sends, acked' \subseteq 1..sends, asked' \subseteq Turns, extras' \in Nat,
             \/ sending' = NotSending
             \/ /\ sending # NotSending
                /\ \E step \in {"ask", "asked", "question", "answer"} :
                      sending' = [sending EXCEPT !.step = step]
      PROVE  SendTyped'
  <2>1. CASE sending' = NotSending
    BY <1>0, <1>4, <2>1 DEF SendTyped, NotSending
  <2>2. CASE sending # NotSending
             /\ \E step \in {"ask", "asked", "question", "answer"} :
                   sending' = [sending EXCEPT !.step = step]
    <3>1. IsSend(sending)' /\ sends # 0
      BY <1>0, <1>4, <2>2, SendGoesOn
    <3> QED
      BY <1>0, <1>4, <3>1 DEF SendTyped
  <2> QED
    BY <1>4, <2>1, <2>2
<1>5. ASSUME NextSave, sending.step \in {"question", "answer"}
      PROVE  \/ sending' = NotSending
             \/ sending # NotSending /\ sending' = [sending EXCEPT !.step = "answer"]
  BY <1>5, SendIdle DEF NextSave
<1>6. CASE SendStep
  <2>1. CASE Send
    <3>1. sends' \in 1..MaxSends
      BY <1>0, <2>1, ChatConstants DEF Send
    <3>2. sending' = [step |-> "ask", n |-> sends + 1, before |-> turns,
                      next |-> Append(turns, Question(sends + 1, activeThreadId)),
                      home |-> activeThreadId, authed |-> persistAuthed]
          /\ sends' = sends + 1 /\ UNCHANGED <<acked, extras>>
      BY <2>1 DEF Send
    <3>3. IsSend(sending)'
      BY <3>2 DEF IsSend, PageTyped
    <3>4. acked' \subseteq 1..sends' /\ asked' \subseteq Turns
      BY <1>0, <1>2, <2>1, <3>2 DEF Send
    <3> QED
      BY <1>0, <3>1, <3>2, <3>3, <3>4 DEF SendTyped
  <2>2. CASE ChatAdmitted
    <3>1. sending # NotSending /\ sending.n \in Turns
      BY <2>2, SendIdle, SendFacts DEF ChatAdmitted
    <3>2. asked' \subseteq Turns
      BY <1>0, <2>2, <3>1 DEF ChatAdmitted, PassGate
    <3> QED
      BY <1>0, <1>4, <2>2, <3>1, <3>2 DEF ChatAdmitted, counters
  <2>3. CASE ChatRefused \/ ChatLost
    <3>1. sending' = NotSending /\ sends' = sends /\ acked' = acked
      BY <2>3 DEF ChatRefused, ChatLost, counters
    <3>2. asked' \subseteq Turns /\ extras' \in Nat
      BY <1>2, <1>3, <2>3 DEF ChatRefused, ChatLost, counters
    <3> QED
      BY <1>0, <1>4, <3>1, <3>2
  <2>4. CASE ChatAnswered \/ ChatUnauthenticated
    <3>1. sending # NotSending /\ sending' = [sending EXCEPT !.step = "question"]
      BY <2>4, SendIdle DEF ChatAnswered, ChatUnauthenticated, ShowAnswer
    <3>2. asked' \subseteq Turns
      BY <1>0, <1>2, <2>4 DEF ChatAnswered, ChatUnauthenticated, AnswerCharged, AnswerUncharged
    <3>3. UNCHANGED <<sends, extras, acked>>
      BY <2>4 DEF ChatAnswered, ChatUnauthenticated, counters
    <3> QED
      BY <1>0, <1>4, <3>1, <3>2, <3>3
  <2>5. CASE LateAnswer
    <3>1. asked' \subseteq Turns
      BY <1>0, <2>5 DEF LateAnswer, AnswerCharged, AnswerUncharged
    <3> QED
      BY <1>0, <1>1, <2>5, <3>1 DEF LateAnswer, counters
  <2>6. CASE SkipSave
    BY <1>0, <1>2, <1>4, <1>5, <2>6 DEF SkipSave, counters
  <2>7. CASE StartSave
    <3>1. asked' \subseteq Turns /\ UNCHANGED <<extras, sends, acked>>
      BY <1>2, <2>7 DEF StartSave
    <3>2. sending' = sending \/ (NextSave /\ sending.step \in {"question", "answer"})
      BY <2>7 DEF StartSave
    <3> QED
      BY <1>0, <1>1, <1>4, <1>5, <3>1, <3>2
  <2>8. CASE Saved
    <3>1. asked' \subseteq Turns /\ UNCHANGED <<extras, sends>>
      BY <1>2, <2>8 DEF Saved
    <3>2. acked' \subseteq 1..sends
      <4>1. CASE acked' = acked
        BY <1>0, <4>1
      <4>2. CASE sending.step = "question" /\ acked' = acked \union {sending.n}
        <5>1. sending.n = sends /\ sends \in 1..MaxSends
          BY <4>2, SendIdle, SendFacts
        <5> QED
          BY <1>0, <4>2, <5>1
      <4> QED
        BY <2>8, <4>1, <4>2 DEF Saved
    <3>3. \/ sending' = NotSending
          \/ sending # NotSending /\ sending' = [sending EXCEPT !.step = "answer"]
      BY <2>8, SendIdle DEF Saved, NextSave
    <3> QED
      BY <1>0, <1>4, <3>1, <3>2, <3>3
  <2>9. CASE SaveLost
    <3>1. asked' \subseteq Turns /\ extras' \in Nat /\ UNCHANGED <<sends, acked>>
      BY <1>2, <1>3, <2>9 DEF SaveLost
    <3> QED
      BY <1>0, <1>4, <1>5, <2>9, <3>1 DEF SaveLost
  <2> QED
    BY <1>6, <2>1, <2>2, <2>3, <2>4, <2>5, <2>6, <2>7, <2>8, <2>9 DEF SendStep
<1>7. CASE PostStep \/ PollStep
  BY <1>0, <1>1, <1>2, <1>7
     DEF PostStep, InsertAlone, PollStep, PollTick, PollServed, PollArrives, counters
<1>8. CASE FlowStep
  <2>1. UNCHANGED <<billingVars, sending, sends, acked>> /\ (Extra \/ UNCHANGED extras)
    BY <1>8 DEF FlowStep, List, Create, Load, Loaded, Change, FlowFails, Import, Imported,
                ImportLost, FlowFrame, counters
  <2> QED
    BY <1>1, <1>2, <1>3, <2>1
<1>9. CASE Click
  <2>1. ASSUME NEW call, Starts(call) PROVE SendTyped'
    BY <1>1, <1>2, <1>3, <2>1 DEF Starts
  <2>2. CASE TopUpDone
    BY <1>0, <1>1, <2>2 DEF TopUpDone, TopUp, counters
  <2>3. CASE EmptyView \/ DiscardLegacyChat
    BY <1>0, <1>1, <1>2, <2>3 DEF EmptyView, DiscardLegacyChat, counters
  <2> QED
    BY <1>9, <2>1, <2>2, <2>3
       DEF Click, PickThread, DeleteThread, ArchiveThread, NewThread, ClearHistory,
           ImportLegacyChat
<1>10. ASSUME NEW t \in Threads, RemotePost(t) PROVE SendTyped'
  BY <1>1, <1>2, <1>3, <1>10 DEF RemotePost
<1>11. CASE UNCHANGED chatVars
  BY <1>0, <1>1, <1>2, <1>11 DEF chatVars, counters
<1> QED
  BY <1>6, <1>7, <1>8, <1>9, <1>10, <1>11 DEF ChatNext, Elsewhere

-----------------------------------------------------------------------------
(* What a step of the page leaves of the threads *)

\* A thread that was made is not made again, and one that exists afterwards has
\* lost none of its rows.
Evolves ==
    \A t \in Threads : status[t] # "unused" =>
        /\ status'[t] # "unused"
        /\ Exists(t)' => Exists(t) /\ rows[t] \subseteq rows'[t]

\* Writing one row, in the terms of the thread it is written to.
LEMMA Inserts ==
    ASSUME ServerTyped, NEW p \in Posters, Insert(p)
    PROVE  /\ posts[p] # NoPost /\ posts' = [posts EXCEPT ![p] = NoPost]
           /\ posts' \in [Posters -> {NoPost} \cup Posts]
           /\ DOMAIN rows' = Threads /\ posts[p].to \in Threads
           /\ \A t \in Threads :
                 IF t = posts[p].to /\ Exists(t)
                 THEN rows'[t] = rows[t] \union {[seq |-> posts[p].seq, turn |-> posts[p].turn]}
                 ELSE rows'[t] = rows[t]
<1>1. posts[p] # NoPost
  BY DEF Insert
<1>2. posts[p].to \in Threads
  BY <1>1, PostFacts
<1> QED
  BY <1>1, <1>2 DEF Insert, ServerTyped

\* Starting a handler.
LEMMA Begins ==
    ASSUME ServerTyped, NEW p \in Posters, NEW to \in Threads, NEW turn \in TurnRecords,
           Begin(p, to, turn)
    PROVE  /\ posts' \in [Posters -> {NoPost} \cup Posts]
           /\ posts'[p] = [to |-> to, turn |-> turn, seq |-> NextSeq(to)]
           /\ \A q \in Posters \ {p} : posts'[q] = posts[q]
<1>1. [to |-> to, turn |-> turn, seq |-> NextSeq(to)] \in Posts
  BY NextSeqAbove DEF Posts
<1> QED
  BY <1>1 DEF Begin, ServerTyped

\* Losing a connection.
LEMMA Drops ==
    ASSUME ServerTyped, NEW p \in {"send", "import"}, Drop(p)
    PROVE  /\ posts' \in [Posters -> {NoPost} \cup Posts]
           /\ posts'[p] = NoPost
           /\ \A q \in Posters : posts'[q] \in {NoPost, posts[q], posts[p]}
           /\ \A q \in Posters : q \notin {p, "stray"} => posts'[q] = posts[q]
BY DEF Drop, ServerTyped, Posters

\* What is posted when a send saves a turn.
ToSave == IF sending.step = "question" THEN Question(sending.n, sending.home)
                                       ELSE Answer(sending.n, sending.home)

LEMMA SavedTurn ==
    ASSUME SendTyped, sending # NotSending
    PROVE  ToSave \in TurnRecords /\ ToSave.home = sending.home
<1>1. sending.n \in Nat /\ sending.home \in 0..MaxThreads
  BY SendFacts, ChatConstants
<1> QED
  BY <1>1 DEF ToSave, Question, Answer, Turn, TurnRecords

\* What the four steps that save do.
LEMMA Saves ==
    ASSUME ChatTyped, Saving
    PROVE  /\ UNCHANGED <<status, sends>>
           /\ sending # NotSending \/ Saved
           /\ \/ UNCHANGED <<rows, posts, acked>> /\ NextSave
                 /\ sending.step \in {"question", "answer"}
                 /\ (posts["send"] = NoPost \/ SaveTo = NoThread)
              \/ /\ UNCHANGED <<rows, acked, sending>> /\ posts["send"] = NoPost
                 /\ sending.step \in {"question", "answer"} /\ SaveTo # NoThread
                 /\ sending.home \in Threads /\ Exists(sending.home)
                 /\ Begin("send", sending.home, ToSave)
              \/ Saved
              \/ /\ UNCHANGED <<rows, acked>> /\ NextSave /\ Drop("send")
                 /\ posts["send"] # NoPost /\ sending.step \in {"question", "answer"}
<1>1. CASE SkipSave
  BY <1>1, SendIdle DEF SkipSave, server, counters
<1>2. CASE StartSave
  <2>1. sending.step \in {"question", "answer"} /\ sending # NotSending
        /\ UNCHANGED <<status, rows, sends, acked>> /\ SaveTo # NoThread
    BY <1>2, SendIdle DEF StartSave, server
  <2>2. SaveTo = sending.home /\ sending.home \in Threads
    BY <2>1, SendFacts, ChatConstants DEF ChatTyped, SaveTo
  <2>3. CASE Accepted(SaveTo)
    BY <1>2, <2>1, <2>2, <2>3 DEF StartSave, Accepted, ToSave
  <2>4. CASE ~ Accepted(SaveTo)
    BY <1>2, <2>1, <2>4 DEF StartSave
  <2> QED
    BY <2>3, <2>4
<1>3. CASE Saved
  BY <1>3 DEF Saved
<1>4. CASE SaveLost
  BY <1>4, SendIdle DEF SaveLost, server
<1> QED
  BY <1>1, <1>2, <1>3, <1>4 DEF Saving

\* The highest number of a thread after one row more.
LEMMA ToppedOff ==
    ASSUME ServerTyped, NEW t \in Threads, NEW row \in Rows, rows'[t] = rows[t] \union {row}
    PROVE  Topped(t)'
<1>1. PICK m \in Numbers(t) : \A n \in Numbers(t) : n <= m
  BY DEF ServerTyped, Topped
<1>2. Numbers(t) \subseteq Nat /\ row.seq \in Nat
  BY DEF ServerTyped, Rows, Numbers
<1>3. Numbers(t)' = Numbers(t) \union {row.seq}
  BY DEF Numbers
<1>4. CASE row.seq <= m
  BY <1>1, <1>2, <1>3, <1>4 DEF Topped
<1>5. CASE ~ (row.seq <= m)
  <2>1. \A n \in Numbers(t) \union {row.seq} : n <= row.seq
    BY <1>1, <1>2, <1>5
  <2> QED
    BY <1>3, <2>1 DEF Topped
<1> QED
  BY <1>4, <1>5

LEMMA InsertTyped ==
    ASSUME ServerTyped, NEW p \in Posters, Insert(p), status' = status
    PROVE  ServerTyped' /\ Evolves
<1> DEFINE row == [seq |-> posts[p].seq, turn |-> posts[p].turn]
<1>1. row \in Rows
  BY Inserts, PostFacts DEF Rows
<1>2. ASSUME NEW t \in Threads
      PROVE  /\ rows'[t] \in SUBSET Rows /\ rows[t] \subseteq rows'[t]
             /\ IsFiniteSet(rows'[t]) /\ Topped(t)'
  <2>1. CASE rows'[t] = rows[t]
    BY <2>1 DEF ServerTyped, Topped, Numbers
  <2>2. CASE rows'[t] = rows[t] \union {row}
    <3>1. rows'[t] \in SUBSET Rows /\ rows[t] \subseteq rows'[t] /\ Topped(t)'
      BY <1>1, <2>2, ToppedOff DEF ServerTyped
    <3>2. IsFiniteSet(rows[t])
      BY DEF ServerTyped
    <3>3. IsFiniteSet(rows[t] \union {row})
      BY <3>2, FS_AddElement
    <3> QED
      BY <2>2, <3>1, <3>3
  <2> QED
    BY <2>1, <2>2, Inserts
<1>3. rows' \in [Threads -> SUBSET Rows]
  BY <1>2, Inserts, PostFacts DEF Insert, ServerTyped
<1>4. status' \in [Threads -> Statuses]
  BY DEF ServerTyped
<1> QED
  BY <1>2, <1>3, <1>4, Inserts DEF ServerTyped, Evolves, Exists

LEMMA ServerTypeStep ==
    ASSUME ChatTyped, [ChatNext]_chatVars
    PROVE  ServerTyped' /\ Evolves
<1> USE DEF ChatTyped
<1>1. ASSUME UNCHANGED <<status, rows>>, posts' \in [Posters -> {NoPost} \cup Posts]
      PROVE  ServerTyped' /\ Evolves
  BY <1>1 DEF ServerTyped, Evolves, Exists, Topped, Numbers
<1>0. posts \in [Posters -> {NoPost} \cup Posts]
  BY DEF ServerTyped
<1>2. CASE OthersPost
  <2>1. ASSUME NEW p \in Posters, Insert(p), status' = status PROVE ServerTyped' /\ Evolves
    BY <2>1, InsertTyped
  <2>2. CASE rows' = rows /\ status' = status /\ Begun
    <3>1. posts' \in [Posters -> {NoPost} \cup Posts]
      BY <2>2, Begins, ChatConstants DEF Begun
    <3> QED
      BY <1>1, <2>2, <3>1
  <2>3. CASE rows' = rows /\ status' = status /\ Drop("import")
    BY <1>1, <2>3, Drops
  <2> QED
    BY <1>2, <2>1, <2>2, <2>3 DEF OthersPost
<1>3. CASE ThreadsMove
  <2>1. CASE UNCHANGED <<status, rows>>
    BY <1>0, <1>1, <1>3, <2>1 DEF ThreadsMove
  <2>2. ASSUME NEW t \in Threads, NEW s \in {"open", "archived"}, rows' = rows,
               status' = [status EXCEPT ![t] = s],
               (s = "open" /\ status[t] = "unused") \/ (s = "archived" /\ Exists(t))
        PROVE  ServerTyped' /\ Evolves
    BY <1>0, <1>3, <2>2 DEF ThreadsMove, ServerTyped, Statuses, Evolves, Exists, Topped, Numbers
  <2>3. ASSUME NEW t \in Threads, Exists(t), status' = [status EXCEPT ![t] = "deleted"],
               rows' = [rows EXCEPT ![t] = {}]
        PROVE  ServerTyped' /\ Evolves
    <3>1. status' \in [Threads -> Statuses] /\ rows' \in [Threads -> SUBSET Rows]
          /\ posts' \in [Posters -> {NoPost} \cup Posts]
      BY <1>0, <1>3, <2>3 DEF ThreadsMove, ServerTyped, Statuses
    <3>2. ASSUME NEW u \in Threads PROVE IsFiniteSet(rows'[u]) /\ Topped(u)'
      <4>1. CASE u = t
        <5>1. rows'[u] = {}
          BY <2>3, <4>1 DEF ServerTyped
        <5>2. Numbers(u)' = {0}
          BY <5>1 DEF Numbers
        <5> QED
          BY <5>1, <5>2, FS_EmptySet DEF Topped
      <4>2. CASE u # t
        BY <2>3, <4>2 DEF ServerTyped, Topped, Numbers
      <4> QED
        BY <4>1, <4>2
    <3>3. Evolves
      BY <2>3 DEF ServerTyped, Evolves, Exists
    <3> QED
      BY <3>1, <3>2, <3>3 DEF ServerTyped
  <2> QED
    BY <1>3, <2>1, <2>2, <2>3 DEF ThreadsMove
<1>4. CASE Asking
  BY <1>0, <1>1, <1>4 DEF Asking
<1>5. CASE Saving
  <2>1. CASE Saved
    BY <2>1, <1>5, Saves, InsertTyped, ChatConstants DEF Saved
  <2>2. CASE rows' = rows /\ posts' = posts
    BY <1>0, <1>1, <1>5, <2>2, Saves
  <2>3. CASE /\ rows' = rows /\ sending # NotSending /\ sending.home \in Threads
             /\ Begin("send", sending.home, ToSave)
    <3>1. posts' \in [Posters -> {NoPost} \cup Posts]
      BY <2>3, SavedTurn, Begins, ChatConstants
    <3> QED
      BY <1>1, <1>5, <2>3, <3>1, Saves
  <2>4. CASE rows' = rows /\ Drop("send")
    BY <1>1, <1>5, <2>4, Drops, Saves
  <2> QED
    BY <1>5, <2>1, <2>2, <2>3, <2>4, Saves
<1> QED
  BY <1>2, <1>3, <1>4, <1>5, Moves

LEMMA ChatTypeStep ==
    ASSUME ChatTyped, [ChatNext]_chatVars
    PROVE  ChatTyped' /\ Evolves
BY ServerTypeStep, PageTypeStep, SendTypeStep DEF ChatTyped

\* The variables of the page and of the routes take values of their types.
THEOREM ChatTypes == ChatSpec => []ChatTyped
<1>1. ChatTyped /\ [ChatNext]_chatVars => ChatTyped'
  BY ChatTypeStep
<1> QED
  BY <1>1, ChatTypeInit, PTL DEF ChatSpec
\* A post that is under way, and an answer of the page's own.
Posted(p) == posts[p] # NoPost
IsAnswer(turn) == turn.by = "page" /\ turn.role = "agent"

\* A handler writes where its turn was written, to a thread there was.
PostsAtHome ==
    \A p \in Posters :
        Posted(p) => posts[p].turn.home = posts[p].to /\ status[posts[p].to] # "unused"

HomeInv == ChatTyped /\ PostsAtHome /\ LandsWhereWritten

\* The post of a send is of what it is to save next.
SendPosts ==
    Posted("send") =>
        /\ sending.step \in {"question", "answer"}
        /\ SaveTo # NoThread /\ posts["send"].turn = ToSave

\* Before the page is done with a question, it is not acknowledged and no answer
\* to it is written or on its way.
Awaited == IF sending = NotSending \/ sending.step = "answer" THEN sends ELSE sends - 1
AnswersBehind ==
    /\ acked \subseteq 1..Awaited
    /\ \A t \in Threads : \A r \in rows[t] : IsAnswer(r.turn) => r.turn.n <= Awaited
    /\ \A p \in Posters : Posted(p) /\ IsAnswer(posts[p].turn) => posts[p].turn.n <= Awaited

\* The question of an acknowledged answer is in the thread, as long as that exists.
Kept(n, t) == \E q \in rows[t] : q.turn = Question(n, t)
QuestionKept ==
    /\ sending # NotSending /\ sending.step = "answer" /\ sending.n \in acked
         => sending.home \in Threads /\ status[sending.home] # "unused"
            /\ (Exists(sending.home) => Kept(sending.n, sending.home))
AnswersNumbered ==
    \A p \in Posters :
        LET post == posts[p] IN
        Posted(p) /\ IsAnswer(post.turn) /\ post.turn.n \in acked /\ Exists(post.to)
          => \E q \in rows[post.to] :
               q.turn = Question(post.turn.n, post.to) /\ q.seq < post.seq

OrderInv ==
    /\ HomeInv /\ SendPosts /\ AnswersBehind
    /\ QuestionKept /\ AnswersNumbered /\ AnswersFollowQuestions

-----------------------------------------------------------------------------
(* A message lands in the thread it was written in *)

\* What a handler under way became: it ended, lost its connection, or has just
\* begun, with a turn of the thread it posts to.
LEMMA PostsMove ==
    ASSUME ChatTyped, [ChatNext]_chatVars, NEW p \in Posters, posts'[p] # NoPost
    PROVE  \/ \E q \in Posters : posts[q] # NoPost /\ posts'[p] = posts[q]
           \/ /\ posts'[p].to \in Threads /\ Exists(posts'[p].to)
              /\ posts'[p].turn.home = posts'[p].to
              /\ posts'[p].seq = NextSeq(posts'[p].to)
              /\ p # "stray" /\ rows' = rows /\ acked' = acked /\ status' = status
              /\ sending' = sending /\ sends' = sends
              /\ IF p = "send" THEN /\ sending.step \in {"question", "answer"}
                                    /\ posts'[p].turn = ToSave
                                    /\ posts'[p].to = sending.home
                               ELSE posts'[p].turn.by # "page"
<1> USE DEF ChatTyped
<1>0. ASSUME posts'[p] = posts[p] PROVE \E q \in Posters : posts[q] # NoPost /\ posts'[p] = posts[q]
  BY <1>0
<1>1. CASE OthersPost
  <2>1. ASSUME NEW q \in Posters, Insert(q) PROVE posts'[p] = posts[p]
    BY <2>1, Inserts DEF ServerTyped
  <2>2. CASE Begun /\ rows' = rows
    <3>1. PICK q \in {"import", "other"}, to \in Threads, turn \in TurnRecords :
              turn.by # "page" /\ turn.home = to /\ Exists(to) /\ Begin(q, to, turn)
      BY <2>2 DEF Begun
    <3>2. posts'[q] = [to |-> to, turn |-> turn, seq |-> NextSeq(to)]
          /\ \A r \in Posters \ {q} : posts'[r] = posts[r]
      BY <3>1, Begins, ChatConstants
    <3> QED
      BY <1>0, <1>1, <2>2, <3>1, <3>2 DEF OthersPost
  <2>3. CASE Drop("import")
    BY <2>3, Drops, ChatConstants
  <2> QED
    BY <1>0, <1>1, <2>1, <2>2, <2>3 DEF OthersPost
<1>2. CASE ThreadsMove \/ Asking
  BY <1>0, <1>2 DEF ThreadsMove, Asking
<1>3. CASE Saving
  <2>1. CASE Saved
    <3>1. posts'[p] = posts[p]
      BY <2>1, Inserts, ChatConstants DEF Saved, ServerTyped
    <3> QED
      BY <1>0, <3>1
  <2>2. CASE posts' = posts
    BY <1>0, <2>2
  <2>3. CASE /\ UNCHANGED <<rows, acked, sending>> /\ sending # NotSending
             /\ sending.step \in {"question", "answer"}
             /\ sending.home \in Threads /\ Exists(sending.home)
             /\ Begin("send", sending.home, ToSave)
    <3>1. posts'["send"] = [to |-> sending.home, turn |-> ToSave, seq |-> NextSeq(sending.home)]
          /\ \A r \in Posters \ {"send"} : posts'[r] = posts[r]
      BY <2>3, SavedTurn, Begins, ChatConstants
    <3>2. ToSave.home = sending.home /\ status' = status /\ sends' = sends
      BY <1>3, <2>3, SavedTurn, Saves
    <3> QED
      BY <1>0, <2>3, <3>1, <3>2
  <2>4. CASE Drop("send")
    BY <2>4, Drops, ChatConstants
  <2> QED
    BY <1>3, <2>1, <2>2, <2>3, <2>4, Saves
<1> QED
  BY <1>1, <1>2, <1>3, Moves

\* What became of a thread's rows.
LEMMA RowsMove ==
    ASSUME ChatTyped, [ChatNext]_chatVars, NEW t \in Threads, NEW r \in rows'[t]
    PROVE  \/ r \in rows[t]
           \/ \E p \in Posters :
                 /\ posts[p] # NoPost /\ posts[p].to = t /\ Exists(t)
                 /\ r = [seq |-> posts[p].seq, turn |-> posts[p].turn]
                 /\ rows[t] \subseteq rows'[t] /\ status' = status
<1> USE DEF ChatTyped
<1>1. ASSUME NEW p \in Posters, Insert(p), status' = status
      PROVE  \/ r \in rows[t]
             \/ /\ posts[p] # NoPost /\ posts[p].to = t /\ Exists(t)
                /\ r = [seq |-> posts[p].seq, turn |-> posts[p].turn]
                /\ rows[t] \subseteq rows'[t] /\ status' = status
  BY <1>1, Inserts
<1>2. CASE OthersPost
  BY <1>1, <1>2 DEF OthersPost
<1>3. CASE ThreadsMove
  BY <1>3 DEF ThreadsMove, ServerTyped
<1>4. CASE Asking
  BY <1>4 DEF Asking
<1>5. CASE Saving
  BY <1>1, <1>5, Saves, ChatConstants DEF Saved
<1> QED
  BY <1>2, <1>3, <1>4, <1>5, Moves

LEMMA HomeInvInit == ChatInit => HomeInv
BY ChatTypeInit DEF ChatInit, HomeInv, PostsAtHome, Posted, LandsWhereWritten

LEMMA HomeInvStep ==
    ASSUME HomeInv, [ChatNext]_chatVars
    PROVE  HomeInv'
<1>0. ChatTyped /\ ChatTyped' /\ Evolves
  BY ChatTypeStep DEF HomeInv
<1>1. ASSUME NEW p \in Posters, posts[p] # NoPost
      PROVE  /\ posts[p].to \in Threads /\ posts[p].turn.home = posts[p].to
             /\ status[posts[p].to] # "unused"
  BY <1>0, <1>1, PostFacts DEF ChatTyped, HomeInv, PostsAtHome, Posted
<1>2. ASSUME NEW p \in Posters, posts'[p] # NoPost
      PROVE  posts'[p].turn.home = posts'[p].to /\ status'[posts'[p].to] # "unused"
  <2>1. ASSUME NEW q \in Posters, posts[q] # NoPost, posts'[p] = posts[q]
        PROVE  posts'[p].turn.home = posts'[p].to /\ status'[posts'[p].to] # "unused"
    BY <1>0, <1>1, <2>1 DEF Evolves
  <2> QED
    BY <1>0, <1>2, <2>1, PostsMove DEF Exists
<1>3. ASSUME NEW t \in Threads, NEW r \in rows'[t] PROVE r.turn.home = t
  BY <1>0, <1>1, RowsMove DEF HomeInv, LandsWhereWritten
<1> QED
  BY <1>0, <1>2, <1>3 DEF HomeInv, PostsAtHome, Posted, LandsWhereWritten

\* For any number of threads, sends and callbacks under way: a message is saved in
\* the thread it was written in, whatever the user opened, deleted or cleared
\* while the agent answered.
THEOREM SavedWhereWritten == ChatSpec => []LandsWhereWritten
<1>1. HomeInv => LandsWhereWritten
  BY DEF HomeInv
<1>2. HomeInv /\ [ChatNext]_chatVars => HomeInv'
  BY HomeInvStep
<1> QED
  BY <1>1, <1>2, HomeInvInit, PTL DEF ChatSpec

-----------------------------------------------------------------------------
(* An answer follows its question *)

LEMMA SendPostsStep ==
    ASSUME ChatTyped, SendPosts, [ChatNext]_chatVars
    PROVE  SendPosts'
<1> USE DEF ChatTyped
<1>0. ASSUME posts'["send"] = posts["send"], sending' = sending PROVE SendPosts'
  BY <1>0 DEF SendPosts, Posted, SaveTo, ToSave
<1>1. CASE OthersPost
  <2>1. ASSUME NEW q \in Posters \ {"send"}, Insert(q) PROVE posts'["send"] = posts["send"]
    BY <2>1, Inserts, ChatConstants DEF ServerTyped
  <2>2. ASSUME Begun PROVE posts'["send"] = posts["send"]
    <3>1. PICK q \in {"import", "other"}, to \in Threads, turn \in TurnRecords : Begin(q, to, turn)
      BY <2>2 DEF Begun
    <3> QED
      BY <3>1, Begins, ChatConstants
  <2>3. ASSUME Drop("import") PROVE posts'["send"] = posts["send"]
    BY <2>3, Drops, ChatConstants
  <2> QED
    BY <1>0, <1>1, <2>1, <2>2, <2>3 DEF OthersPost
<1>2. CASE ThreadsMove
  BY <1>0, <1>2 DEF ThreadsMove
<1>3. CASE Asking
  BY <1>3 DEF Asking, SendPosts, Posted, NotSending
<1>4. CASE Saving
  <2>1. CASE Saved
    <3>1. posts'["send"] = NoPost
      BY <2>1, Inserts, ChatConstants DEF Saved, ServerTyped
    <3> QED
      BY <3>1 DEF SendPosts, Posted
  <2>2. CASE posts' = posts /\ (posts["send"] = NoPost \/ SaveTo = NoThread)
    <3>1. posts["send"] = NoPost
      BY <2>2 DEF SendPosts, Posted
    <3> QED
      BY <2>2, <3>1 DEF SendPosts, Posted
  <2>3. CASE /\ UNCHANGED <<rows, acked, sending>> /\ sending # NotSending
             /\ sending.step \in {"question", "answer"} /\ SaveTo # NoThread
             /\ sending.home \in Threads /\ Begin("send", sending.home, ToSave)
    <3>1. posts'["send"] = [to |-> sending.home, turn |-> ToSave, seq |-> NextSeq(sending.home)]
      BY <2>3, SavedTurn, Begins, ChatConstants
    <3> QED
      BY <2>3, <3>1 DEF SendPosts, SaveTo, ToSave
  <2>4. CASE Drop("send")
    <3>1. posts'["send"] = NoPost
      BY <2>4, Drops
    <3> QED
      BY <3>1 DEF SendPosts, Posted
  <2> QED
    BY <1>4, <2>1, <2>2, <2>3, <2>4, Saves, SendIdle
<1> QED
  BY <1>1, <1>2, <1>3, <1>4, Moves

LEMMA NextSaveMoves ==
    ASSUME ChatTyped, NextSave, sends' = sends
    PROVE  /\ Awaited' = sends
           /\ sending' # NotSending /\ sending'.step = "answer"
                => /\ sending # NotSending /\ sending.step = "question"
                   /\ sending'.n = sending.n /\ sending'.home = sending.home
<1>1. CASE sending.step = "question"
  <2>1. sending # NotSending /\ IsSend(sending)
    BY <1>1, SendIdle DEF ChatTyped, SendTyped
  <2>2. sending' = [sending EXCEPT !.step = "answer"]
    BY <1>1 DEF NextSave
  <2>3. sending'.step = "answer" /\ sending'.n = sending.n /\ sending'.home = sending.home
    BY <2>1, <2>2, SendGoesOn
  <2> QED
    BY <1>1, <2>1, <2>3 DEF Awaited
<1>2. CASE sending.step # "question"
  BY <1>2 DEF NextSave, Awaited
<1> QED
  BY <1>1, <1>2

\* What is awaited is a number, and nothing is awaited again.
LEMMA AwaitedMoves ==
    ASSUME ChatTyped, [ChatNext]_chatVars
    PROVE  Awaited \in Nat /\ Awaited' \in Nat /\ Awaited <= Awaited' /\ Awaited <= sends
<1>0. ChatTyped'
  BY ChatTypeStep
<1>1. /\ sends \in Nat /\ Awaited \in Nat /\ Awaited <= sends
      /\ Awaited = sends \/ (Awaited = sends - 1 /\ sending # NotSending)
  BY ChatConstants DEF ChatTyped, SendTyped, Awaited
<1>2. sends' \in Nat /\ Awaited' \in Nat
  <2>1. sends' \in Nat /\ (sending' # NotSending => sends' # 0)
    BY <1>0, ChatConstants DEF ChatTyped, SendTyped
  <2>2. Awaited' = sends' \/ (Awaited' = sends' - 1 /\ sending' # NotSending)
    BY DEF Awaited
  <2> QED
    BY <2>1, <2>2
<1>3. CASE UNCHANGED <<sending, sends>>
  BY <1>1, <1>3 DEF Awaited
<1>4. CASE Asking
  <2>1. CASE sending = NotSending /\ sends' = sends + 1 /\ sending'.step = "ask"
    <3>1. sending' # NotSending
      BY <2>1 DEF NotSending
    <3>2. Awaited' = sends' - 1
      BY <2>1, <3>1 DEF Awaited
    <3> QED
      BY <1>1, <1>2, <2>1, <3>2
  <2>2. CASE sending.step \in {"ask", "asked"} /\ sends' = sends
    <3>1. Awaited = sends - 1
      BY <2>2, SendIdle DEF Awaited
    <3>2. Awaited' \in {sends', sends' - 1}
      BY DEF Awaited
    <3> QED
      BY <1>1, <1>2, <2>2, <3>1, <3>2
  <2> QED
    BY <1>4, <2>1, <2>2 DEF Asking
<1>5. CASE Saving
  <2>1. NextSave \/ sending' = sending
    BY <1>5, Saves DEF Saved
  <2>2. sends' = sends
    BY <1>5, Saves
  <2> QED
    BY <1>1, <1>2, <1>3, <2>1, <2>2, NextSaveMoves
<1> QED
  BY <1>1, <1>2, <1>3, <1>4, <1>5, Moves DEF OthersPost, ThreadsMove

\* The answer on its way is the one the page is at.
LEMMA FreshAnswer ==
    ASSUME ChatTyped, sending # NotSending, IsAnswer(ToSave)
    PROVE  sending.step # "question" /\ ToSave.n = sends
BY SendFacts DEF ChatTyped, ToSave, IsAnswer, Question, Answer, Turn

\* Only a saved question is acknowledged.
LEMMA AckedMoves ==
    ASSUME ChatTyped, SendPosts, [ChatNext]_chatVars, acked' # acked
    PROVE  /\ Saved /\ sending # NotSending /\ sending.step = "question"
           /\ acked' = acked \union {sends} /\ sending.n = sends
           /\ posts["send"] # NoPost /\ posts["send"].turn = Question(sends, sending.home)
           /\ Exists(posts["send"].to) /\ Awaited' = sends /\ sends' = sends
<1>1. Saved
  BY Moves, Saves DEF OthersPost, ThreadsMove, Asking
<1>2. /\ sending.step = "question" /\ Exists(posts["send"].to)
      /\ acked' = acked \union {sending.n} /\ NextSave /\ sends' = sends
      /\ posts["send"] # NoPost
  BY <1>1 DEF Saved, Insert
<1>3. sending # NotSending /\ sending.n = sends
  BY <1>2, SendIdle, SendFacts DEF ChatTyped
<1> QED
  BY <1>1, <1>2, <1>3, NextSaveMoves DEF SendPosts, Posted, ToSave

LEMMA AnswersBehindStep ==
    ASSUME ChatTyped, SendPosts, AnswersBehind, [ChatNext]_chatVars
    PROVE  AnswersBehind'
<1>0. /\ Awaited \in Nat /\ Awaited' \in Nat /\ Awaited <= Awaited' /\ Awaited <= sends
      /\ ChatTyped'
  BY AwaitedMoves, ChatTypeStep
<1>1. acked' \subseteq 1..Awaited'
  <2>1. CASE acked' = acked
    BY <1>0, <2>1 DEF AnswersBehind
  <2>2. CASE acked' # acked
    <3>1. acked' = acked \union {sends} /\ Awaited' = sends /\ sends # 0
      BY <2>2, AckedMoves DEF ChatTyped, SendTyped
    <3>2. sends \in 1..Awaited'
      BY <1>0, <3>1
    <3> QED
      BY <1>0, <3>1, <3>2 DEF AnswersBehind
  <2> QED
    BY <2>1, <2>2
<1>2. ASSUME NEW turn, turn.n \in Nat, turn.n <= Awaited PROVE turn.n <= Awaited'
  BY <1>0, <1>2
<1>3. ASSUME NEW p \in Posters, posts[p] # NoPost, IsAnswer(posts[p].turn)
      PROVE  posts[p].turn.n <= Awaited'
  <2>1. posts[p].turn.n \in Nat
    BY <1>3, PostFacts DEF ChatTyped, TurnRecords
  <2> QED
    BY <1>2, <1>3, <2>1 DEF AnswersBehind, Posted
<1>4. ASSUME NEW t \in Threads, NEW r \in rows'[t], IsAnswer(r.turn) PROVE r.turn.n <= Awaited'
  <2>1. CASE r \in rows[t]
    <3>1. r.turn.n \in Nat
      BY <2>1 DEF ChatTyped, ServerTyped, Rows, TurnRecords
    <3> QED
      BY <1>2, <1>4, <2>1, <3>1 DEF AnswersBehind
  <2>2. ASSUME NEW p \in Posters, posts[p] # NoPost,
               r = [seq |-> posts[p].seq, turn |-> posts[p].turn]
        PROVE  r.turn.n <= Awaited'
    BY <1>3, <1>4, <2>2
  <2> QED
    BY <2>1, <2>2, RowsMove
<1>5. ASSUME NEW p \in Posters, posts'[p] # NoPost, IsAnswer(posts'[p].turn)
      PROVE  posts'[p].turn.n <= Awaited'
  <2>1. CASE \E q \in Posters : posts[q] # NoPost /\ posts'[p] = posts[q]
    BY <1>3, <1>5, <2>1
  <2>2. CASE /\ sending' = sending /\ sends' = sends
             /\ sending.step \in {"question", "answer"} /\ posts'[p].turn = ToSave
    <3>1. sending # NotSending /\ sending.step # "question" /\ ToSave.n = sends
      BY <1>5, <2>2, SendIdle, FreshAnswer
    <3>2. Awaited' = sends
      BY <2>2, <3>1 DEF Awaited
    <3> QED
      BY <1>0, <2>2, <3>1, <3>2
  <2>3. CASE posts'[p].turn.by # "page"
    BY <1>5, <2>3 DEF IsAnswer
  <2> QED
    BY <1>5, <2>1, <2>2, <2>3, PostsMove
<1> QED
  BY <1>1, <1>4, <1>5 DEF AnswersBehind, Posted

LEMMA QuestionKeptStep ==
    ASSUME HomeInv, SendPosts, AnswersBehind, QuestionKept, [ChatNext]_chatVars
    PROVE  QuestionKept'
<1>0. ChatTyped /\ ChatTyped' /\ Evolves
  BY ChatTypeStep DEF HomeInv
<1> SUFFICES ASSUME sending' # NotSending, sending'.step = "answer", sending'.n \in acked'
             PROVE  /\ sending'.home \in Threads /\ status'[sending'.home] # "unused"
                    /\ status'[sending'.home] \in {"open", "archived"} =>
                          \E q \in rows'[sending'.home] :
                             q.turn = Question(sending'.n, sending'.home)
  BY DEF QuestionKept, Exists, Kept
<1>1. CASE sending' = sending /\ acked' = acked
  <2>1. /\ sending.home \in Threads /\ status[sending.home] # "unused"
        /\ Exists(sending.home) => Kept(sending.n, sending.home)
    BY <1>1 DEF QuestionKept
  <2> QED
    BY <1>0, <1>1, <2>1 DEF Evolves, Kept, Exists
<1>2. CASE Asking
  BY <1>2 DEF Asking, NotSending
<1>3. CASE Saving /\ ~ (sending' = sending /\ acked' = acked)
  <2>1. NextSave /\ sends' = sends
    BY <1>3, <1>0, Saves DEF Saved
  <2>2. /\ sending # NotSending /\ sending.step = "question"
        /\ sending'.n = sending.n /\ sending'.home = sending.home
    BY <1>0, <2>1, NextSaveMoves
  <2>3. sending.n = sends /\ sends \in Nat
    BY <1>0, <2>2, SendFacts, ChatConstants DEF ChatTyped, SendTyped
  <2>4. sending.n \notin acked
    BY <2>2, <2>3 DEF AnswersBehind, Awaited
  <2>5. /\ Saved /\ posts["send"] # NoPost /\ Exists(posts["send"].to)
        /\ posts["send"].turn = Question(sending.n, sending.home)
    BY <1>0, <2>2, <2>3, <2>4, AckedMoves
  <2>6. posts["send"].to = sending.home /\ sending.home \in Threads
    <3>1. posts["send"].turn.home = posts["send"].to /\ posts["send"].to \in Threads
      BY <1>0, <2>5, PostFacts, ChatConstants DEF HomeInv, PostsAtHome, Posted, ChatTyped
    <3> QED
      BY <2>5, <3>1 DEF Question, Turn
  <2>7. rows'[sending.home] = rows[sending.home]
            \union {[seq |-> posts["send"].seq, turn |-> posts["send"].turn]}
    BY <1>0, <2>5, <2>6, Inserts, ChatConstants DEF Saved, ChatTyped
  <2>8. \E q \in rows'[sending.home] : q.turn = Question(sending.n, sending.home)
    <3> DEFINE row == [seq |-> posts["send"].seq, turn |-> posts["send"].turn]
    <3>1. row.turn = Question(sending.n, sending.home)
      BY <2>5
    <3>2. row \in rows'[sending.home]
      BY <2>7
    <3> QED
      BY <3>1, <3>2
  <2>9. status'[sending.home] # "unused"
    BY <1>0, <2>5, <2>6 DEF Evolves, Exists
  <2> QED
    BY <2>2, <2>6, <2>8, <2>9
<1> QED
  BY <1>0, <1>1, <1>2, <1>3, Moves DEF OthersPost, ThreadsMove

\* A question among the rows of a thread is still there as long as the thread is.
LEMMA QuestionStays ==
    ASSUME Evolves, NEW t \in Threads, status[t] # "unused",
           status'[t] \in {"open", "archived"}, NEW n, NEW s,
           Exists(t) => \E q \in rows[t] : q.turn = Question(n, t) /\ q.seq < s
    PROVE  \E q \in rows'[t] : q.turn = Question(n, t) /\ q.seq < s
BY DEF Evolves, Exists

\* The answers written or on their way were so before the question of another
\* was acknowledged.
LEMMA AckedBefore ==
    ASSUME ChatTyped, SendPosts, AnswersBehind, [ChatNext]_chatVars,
           NEW n \in Nat, n <= Awaited, n \in acked'
    PROVE  n \in acked
<1>1. CASE acked' # acked
  <2>1. acked' = acked \union {sends} /\ Awaited = sends - 1 /\ sends \in Nat
    BY <1>1, AckedMoves, ChatConstants DEF Awaited, ChatTyped, SendTyped
  <2> QED
    BY <2>1
<1> QED
  BY <1>1

LEMMA AnswersNumberedStep ==
    ASSUME HomeInv, SendPosts, AnswersBehind, QuestionKept, AnswersNumbered,
           [ChatNext]_chatVars
    PROVE  AnswersNumbered'
<1>0. ChatTyped /\ ChatTyped' /\ Evolves
  BY ChatTypeStep DEF HomeInv
<1> SUFFICES ASSUME NEW p \in Posters, posts'[p] # NoPost, IsAnswer(posts'[p].turn),
                    posts'[p].turn.n \in acked',
                    status'[posts'[p].to] \in {"open", "archived"}
             PROVE  \E q \in rows'[posts'[p].to] :
                       /\ q.turn = Question(posts'[p].turn.n, posts'[p].to)
                       /\ q.seq < posts'[p].seq
  BY DEF AnswersNumbered, Posted, Exists
<1>1. ASSUME NEW o \in Posters, posts[o] # NoPost, posts'[p] = posts[o]
      PROVE  \E q \in rows'[posts'[p].to] :
                /\ q.turn = Question(posts'[p].turn.n, posts'[p].to)
                /\ q.seq < posts'[p].seq
  <2>1. posts[o].to \in Threads /\ posts[o].turn.n \in Nat /\ status[posts[o].to] # "unused"
    BY <1>0, <1>1, PostFacts DEF ChatTyped, TurnRecords, HomeInv, PostsAtHome, Posted
  <2>2. posts[o].turn.n <= Awaited
    BY <1>1 DEF AnswersBehind, Posted
  <2>3. posts[o].turn.n \in acked
    BY <1>0, <1>1, <2>1, <2>2, AckedBefore
  <2>4. Exists(posts[o].to) => \E q \in rows[posts[o].to] :
            q.turn = Question(posts[o].turn.n, posts[o].to) /\ q.seq < posts[o].seq
    BY <1>1, <2>3 DEF AnswersNumbered, Posted
  <2> QED
    BY <1>0, <1>1, <2>1, <2>4, QuestionStays
<1>2. CASE /\ posts'[p].to \in Threads /\ Exists(posts'[p].to)
           /\ posts'[p].seq = NextSeq(posts'[p].to)
           /\ rows' = rows /\ acked' = acked
           /\ sending.step \in {"question", "answer"} /\ posts'[p].turn = ToSave
           /\ posts'[p].to = sending.home
  <2>1. sending # NotSending /\ sending.step = "answer" /\ posts'[p].turn.n = sending.n
    BY <1>0, <1>2, SendIdle, FreshAnswer, SendFacts DEF ChatTyped
  <2>2. Kept(sending.n, sending.home)
    BY <1>2, <2>1 DEF QuestionKept
  <2>3. \A r \in rows[sending.home] : r.seq < NextSeq(sending.home)
    BY <1>0, <1>2, NextSeqAbove DEF ChatTyped
  <2> QED
    BY <1>2, <2>1, <2>2, <2>3 DEF Kept
<1>3. CASE posts'[p].turn.by # "page"
  BY <1>3 DEF IsAnswer
<1> QED
  BY <1>0, <1>1, <1>2, <1>3, PostsMove

\* Rows go only when all of a thread's rows do.
LEMMA RowsOrGone ==
    ASSUME ChatTyped, [ChatNext]_chatVars, NEW t \in Threads, NEW r \in rows'[t]
    PROVE  rows[t] \subseteq rows'[t]
<1>1. CASE ThreadsMove
  BY <1>1 DEF ThreadsMove, ChatTyped, ServerTyped
<1>2. ASSUME NEW p \in Posters, Insert(p) PROVE rows[t] \subseteq rows'[t]
  BY <1>2, Inserts DEF ChatTyped
<1>3. CASE OthersPost
  BY <1>2, <1>3 DEF OthersPost
<1>4. CASE Asking
  BY <1>4 DEF Asking
<1>5. CASE Saving
  BY <1>2, <1>5, Saves, ChatConstants DEF Saved
<1> QED
  BY <1>1, <1>3, <1>4, <1>5, Moves

LEMMA AnswersFollowStep ==
    ASSUME HomeInv, SendPosts, AnswersBehind, AnswersNumbered, AnswersFollowQuestions,
           [ChatNext]_chatVars
    PROVE  AnswersFollowQuestions'
<1>0. ChatTyped /\ ChatTyped' /\ Evolves
  BY ChatTypeStep DEF HomeInv
<1> SUFFICES ASSUME NEW t \in Threads, NEW r \in rows'[t], IsAnswer(r.turn),
                    r.turn.n \in acked'
             PROVE  \E q \in rows'[t] : q.turn = Question(r.turn.n, t) /\ q.seq < r.seq
  BY DEF AnswersFollowQuestions, IsAnswer
<1>1. CASE r \in rows[t]
  <2>1. r.turn.n \in Nat /\ r.turn.n <= Awaited
    BY <1>0, <1>1 DEF ChatTyped, ServerTyped, Rows, TurnRecords, AnswersBehind
  <2>2. r.turn.n \in acked
    BY <1>0, <2>1, AckedBefore
  <2>3. \E q \in rows[t] : q.turn = Question(r.turn.n, t) /\ q.seq < r.seq
    BY <1>1, <2>2 DEF AnswersFollowQuestions, IsAnswer
  <2> QED
    BY <1>0, <1>1, <2>3, RowsOrGone
<1>2. ASSUME NEW p \in Posters, posts[p] # NoPost, posts[p].to = t, Exists(t),
             r = [seq |-> posts[p].seq, turn |-> posts[p].turn],
             rows[t] \subseteq rows'[t]
      PROVE  \E q \in rows'[t] : q.turn = Question(r.turn.n, t) /\ q.seq < r.seq
  <2>1. posts[p].turn.n \in Nat /\ posts[p].turn.n <= Awaited
    BY <1>0, <1>2, PostFacts DEF ChatTyped, TurnRecords, AnswersBehind, Posted
  <2>2. posts[p].turn.n \in acked
    BY <1>0, <1>2, <2>1, AckedBefore
  <2>3. \E q \in rows[t] : q.turn = Question(posts[p].turn.n, t) /\ q.seq < posts[p].seq
    BY <1>2, <2>2 DEF AnswersNumbered, Posted
  <2> QED
    BY <1>2, <2>3
<1> QED
  BY <1>0, <1>1, <1>2, RowsMove

LEMMA OrderInvInit == ChatInit => OrderInv
<1> SUFFICES ASSUME ChatInit PROVE OrderInv
  OBVIOUS
<1>1. /\ \A p \in Posters : posts[p] = NoPost
      /\ \A t \in Threads : rows[t] = {}
      /\ acked = {} /\ sends = 0 /\ sending = NotSending
  BY DEF ChatInit
<1>2. posts["send"] = NoPost
  BY <1>1, ChatConstants
<1> QED
  BY <1>1, <1>2, HomeInvInit
     DEF OrderInv, SendPosts, AnswersBehind, QuestionKept, AnswersNumbered,
         AnswersFollowQuestions, Posted

LEMMA OrderInvStep ==
    ASSUME OrderInv, [ChatNext]_chatVars
    PROVE  OrderInv'
<1>1. HomeInv' /\ SendPosts'
  BY HomeInvStep, SendPostsStep DEF OrderInv, HomeInv
<1>2. AnswersBehind' /\ QuestionKept'
  BY AnswersBehindStep, QuestionKeptStep DEF OrderInv, HomeInv
<1>3. AnswersNumbered' /\ AnswersFollowQuestions'
  BY AnswersNumberedStep, AnswersFollowStep DEF OrderInv
<1> QED
  BY <1>1, <1>2, <1>3 DEF OrderInv

\* For any number of threads, sends, callbacks and other devices: an answer whose
\* question was acknowledged stands after it in the thread, whoever writes there
\* at the same time and whatever is lost, archived or deleted.
THEOREM AnswersInOrder == ChatSpec => []AnswersFollowQuestions
<1>1. OrderInv => AnswersFollowQuestions
  BY DEF OrderInv
<1>2. OrderInv /\ [ChatNext]_chatVars => OrderInv'
  BY OrderInvStep
<1> QED
  BY <1>1, <1>2, OrderInvInit, PTL DEF ChatSpec

-----------------------------------------------------------------------------
(* The gate and the charge *)

\* Every step of the chat page is a step of the billing or leaves it alone.
LEMMA ChatBills ==
    ASSUME ChatTyped, [ChatNext]_chatVars
    PROVE  [BillingNext]_billingVars
<1>1. CASE SendStep
  <2>1. CASE ChatAdmitted
    <3>1. sending.n \in Turns
      BY <2>1, SendIdle, SendFacts DEF ChatAdmitted, ChatTyped
    <3> QED
      BY <2>1, <3>1 DEF ChatAdmitted, BillingNext
  <2>2. CASE ChatAnswered
    <3>1. sending.n \in Turns
      BY <2>2, SendIdle, SendFacts DEF ChatAnswered, ChatTyped
    <3> QED
      BY <2>2, <3>1 DEF ChatAnswered, BillingNext
  <2>3. CASE LateAnswer
    <3>1. asked \subseteq Turns
      BY DEF ChatTyped, SendTyped
    <3> QED
      BY <2>3, <3>1 DEF LateAnswer, BillingNext
  <2>4. CASE \/ Send \/ ChatRefused \/ ChatUnauthenticated \/ ChatLost
             \/ SkipSave \/ StartSave \/ Saved \/ SaveLost
    BY <2>4 DEF Send, ChatRefused, ChatUnauthenticated, ChatLost, SkipSave, StartSave,
                Saved, SaveLost
  <2> QED
    BY <1>1, <2>1, <2>2, <2>3, <2>4 DEF SendStep
<1>2. CASE PostStep \/ PollStep
  BY <1>2 DEF PostStep, InsertAlone, PollStep, PollTick, PollServed, PollArrives
<1>3. CASE FlowStep
  BY <1>3 DEF FlowStep, List, Create, Load, Loaded, Change, FlowFails, Import, Imported,
              ImportLost, FlowFrame
<1>4. CASE Click
  <2>1. CASE TopUpDone
    BY <2>1 DEF TopUpDone, BillingNext
  <2> QED
    BY <1>4, <2>1
       DEF Click, PickThread, DeleteThread, ArchiveThread, NewThread, ClearHistory,
           ImportLegacyChat, EmptyView, DiscardLegacyChat, Starts
<1>5. ASSUME NEW t \in Threads, RemotePost(t) PROVE UNCHANGED billingVars
  BY <1>5 DEF RemotePost
<1>6. CASE UNCHANGED chatVars
  BY <1>6 DEF chatVars
<1> QED
  BY <1>1, <1>2, <1>3, <1>4, <1>5, <1>6 DEF ChatNext, Elsewhere

\* The chat page uses the billing as the billing is specified: its sends pass the
\* gate once each, answers that come after the page gave up are charged as well,
\* and nothing else touches the account.
THEOREM ChatImplementsBilling == ChatSpec => BillingSpec
<1>1. ChatInit => BillingInit
  BY DEF ChatInit
<1>2. ChatTyped /\ [ChatNext]_chatVars => [BillingNext]_billingVars
  BY ChatBills
<1> QED
  BY <1>1, <1>2, ChatTypes, PTL DEF ChatSpec, BillingSpec

\* What holds of the billing holds under the chat page: no turn is paid for twice,
\* and what is given away is bounded, however sends are lost or answered late.
THEOREM ChatChargesFairly == ChatSpec => [](NeverOvercharged /\ OverrunBounded)
BY ChatImplementsBilling, NeverPaysTwice, GivenAwayBounded, PTL

-----------------------------------------------------------------------------
(* Whose turns are in view *)

\* What the page holds of a thread's messages is of that thread.
OfThread(m, t) == m \in Seq(TurnRecords) /\ \A k \in DOMAIN m : m[k].home = t
IsPoll(p) ==
    /\ {"of", "ans"} \subseteq DOMAIN p /\ p.of \in Threads
    /\ p.ans = Unanswered \/ OfThread(p.ans.val, p.of)
ViewTyped ==
    /\ turns \in Seq(TurnRecords)
    /\ sending # NotSending =>
          sending.before \in Seq(TurnRecords) /\ sending.next \in Seq(TurnRecords)
    /\ poll = NoPoll \/ IsPoll(poll)
    /\ \A i \in Slots : flows[i] # Idle /\ flows[i].step = "loaded" =>
          OfThread(flows[i].read, flows[i].id)

ViewInv == HomeInv /\ SendPosts /\ ViewTyped

LEMMA MessagesTyped ==
    ASSUME HomeInv, NEW t \in Threads, NEW m \in MessagesOf(t)
    PROVE  OfThread(m, t)
<1>1. PICK s \in Sorted(rows[t]) : m = [k \in DOMAIN s |-> s[k].turn]
  BY DEF MessagesOf
<1>2. Cardinality(rows[t]) \in Nat
  BY FS_CardinalityType DEF HomeInv, ChatTyped, ServerTyped
<1>3. DOMAIN s = 1..Cardinality(rows[t]) /\ \A k \in DOMAIN s : s[k] \in rows[t]
  BY <1>1 DEF Sorted
<1>4. \A r \in rows[t] : r.turn \in TurnRecords /\ r.turn.home = t
  BY DEF HomeInv, ChatTyped, ServerTyped, Rows, LandsWhereWritten
<1>5. \A k \in DOMAIN s : s[k].turn \in TurnRecords /\ s[k].turn.home = t
  BY <1>3, <1>4
<1>6. m \in [1..Cardinality(rows[t]) -> TurnRecords]
  BY <1>1, <1>3, <1>5
<1>7. m \in Seq(TurnRecords)
  BY <1>2, <1>6
<1> QED
  BY <1>1, <1>5, <1>7 DEF OfThread

LEMMA ViewInit == ChatInit => ViewInv
<1> SUFFICES ASSUME ChatInit PROVE ViewInv
  OBVIOUS
<1>1. turns = <<>> /\ sending = NotSending /\ poll = NoPoll
  BY DEF ChatInit
<1>2. ASSUME NEW i \in Slots, flows[i] # Idle PROVE flows[i].step # "loaded"
  BY <1>2 DEF ChatInit, Call
<1>3. SendPosts
  BY OrderInvInit DEF OrderInv
<1> QED
  BY <1>1, <1>2, <1>3, HomeInvInit DEF ViewInv, ViewTyped

\* A poll that is restarted, and one that is not.
LEMMA PollMoves ==
    ASSUME NEW t \in 0..MaxThreads
    PROVE  Poll(t) = NoPoll \/ IsPoll(Poll(t))
BY ChatConstants DEF Poll, IsPoll, NoPoll, Unanswered

LEMMA Renders ==
    ASSUME HomeInv, ViewTyped, NEW authed, NEW t \in 0..MaxThreads, NEW local,
           Render(authed, t, local)
    PROVE  activeThreadId' = t /\ turns' = local /\ (poll' = NoPoll \/ IsPoll(poll'))
<1>1. PollUrl(authed, t) \in 0..MaxThreads
  BY ChatConstants DEF PollUrl
<1> QED
  BY <1>1, PollMoves DEF Render, ViewTyped

\* What merging does to the view.
LEMMA Merges ==
    ASSUME HomeInv, ViewTyped, PollArrives
    PROVE  /\ turns' \in Seq(TurnRecords) /\ activeThreadId' = activeThreadId
           /\ \A k \in DOMAIN turns' : \/ \E j \in DOMAIN turns : turns'[k] = turns[j]
                                       \/ turns'[k].home = activeThreadId
<1> DEFINE val == poll.ans.val
           more == SubSeq(val, Len(turns) + 1, Len(val))
<1>1. IsPoll(poll) /\ OfThread(val, poll.of)
  BY DEF PollArrives, ViewTyped, IsPoll, NoPoll
<1>2. turns \in Seq(TurnRecords) /\ val \in Seq(TurnRecords)
  BY <1>1 DEF ViewTyped, OfThread
<1>3. activeThreadId' = activeThreadId
  BY DEF PollArrives
<1>4. CASE turns' = turns
  BY <1>2, <1>3, <1>4
<1>5. CASE poll.of = activeThreadId /\ Len(val) > Len(turns) /\ turns' = turns \o more
  <2>1. Len(turns) \in Nat /\ Len(val) \in Nat
    BY <1>2
  <2>2. /\ more \in Seq(TurnRecords) /\ Len(more) = Len(val) - Len(turns)
        /\ \A k \in 1..Len(more) : more[k] = val[Len(turns) + k]
    BY <1>2, <1>5, <2>1
  <2> HIDE DEF more
  <2>3. turns' \in Seq(TurnRecords) /\ Len(turns') = Len(val)
    BY <1>2, <1>5, <2>1, <2>2
  <2>4. ASSUME NEW k \in DOMAIN turns'
        PROVE  \/ \E j \in DOMAIN turns : turns'[k] = turns[j]
               \/ turns'[k].home = activeThreadId
    <3>1. k \in 1..Len(val)
      BY <2>3
    <3>2. CASE k <= Len(turns)
      BY <1>2, <1>5, <2>1, <2>2, <3>1, <3>2
    <3>3. CASE k > Len(turns)
      <4>1. turns'[k] = more[k - Len(turns)] /\ k - Len(turns) \in 1..Len(more)
        BY <1>2, <1>5, <2>1, <2>2, <3>1, <3>3
      <4>2. turns'[k] = val[k] /\ k \in DOMAIN val
        BY <1>2, <2>1, <2>2, <3>1, <4>1
      <4> QED
        BY <1>1, <1>5, <4>2 DEF OfThread
    <3> QED
      BY <2>1, <3>1, <3>2, <3>3
  <2> QED
    BY <1>3, <2>3, <2>4
<1> QED
  BY <1>4, <1>5 DEF PollArrives, Merged, Mergeable

\* Which steps change the send in progress.
LEMMA MovesSend ==
    ASSUME [ChatNext]_chatVars
    PROVE  \/ sending' = sending \/ Send \/ Saving
           \/ ChatAdmitted \/ ChatAnswered \/ ChatUnauthenticated \/ ChatRefused \/ ChatLost
<1>1. CASE SendStep
  BY <1>1 DEF SendStep, LateAnswer, Saving
<1>2. CASE PostStep \/ PollStep \/ FlowStep \/ Elsewhere
  BY <1>2 DEF PostStep, InsertAlone, PollStep, PollTick, PollServed, PollArrives, FlowStep,
              List, Create, Load, Loaded, Change, FlowFails, Import, Imported, ImportLost,
              FlowFrame, Elsewhere, RemotePost
<1>3. CASE Click
  BY <1>3 DEF Click, PickThread, DeleteThread, ArchiveThread, NewThread, ClearHistory,
              ImportLegacyChat, EmptyView, DiscardLegacyChat, TopUpDone, Starts
<1>4. CASE UNCHANGED chatVars
  BY <1>4 DEF chatVars
<1> QED
  BY <1>1, <1>2, <1>3, <1>4 DEF ChatNext

\* The sequences a send captured.
LEMMA SendingTyped ==
    ASSUME HomeInv, ViewTyped, [ChatNext]_chatVars
    PROVE  sending' # NotSending =>
              sending'.before \in Seq(TurnRecords) /\ sending'.next \in Seq(TurnRecords)
<1>0. /\ ChatTyped /\ turns \in Seq(TurnRecords)
      /\ sending # NotSending =>
            /\ sending.before \in Seq(TurnRecords) /\ sending.next \in Seq(TurnRecords)
            /\ IsSend(sending)
  BY DEF HomeInv, ViewTyped, ChatTyped, SendTyped
<1>1. ASSUME sending # NotSending, NEW step, sending' = [sending EXCEPT !.step = step]
      PROVE  sending'.before \in Seq(TurnRecords) /\ sending'.next \in Seq(TurnRecords)
  BY <1>0, <1>1 DEF IsSend
<1>2. ASSUME NextSave PROVE \/ sending' = NotSending
                            \/ sending # NotSending /\ sending' = [sending EXCEPT !.step = "answer"]
  BY <1>2, SendIdle DEF NextSave
<1>3. CASE sending' = sending
  BY <1>0, <1>3
<1>4. CASE Send
  <2>1. Question(sends + 1, activeThreadId) \in TurnRecords
    BY <1>0, ChatConstants
       DEF ChatTyped, SendTyped, PageTyped, Question, Turn, TurnRecords
  <2>2. Append(turns, Question(sends + 1, activeThreadId)) \in Seq(TurnRecords)
    BY <1>0, <2>1
  <2>3. sending'.before = turns
        /\ sending'.next = Append(turns, Question(sends + 1, activeThreadId))
    BY <1>4 DEF Send
  <2> QED
    BY <1>0, <2>2, <2>3
<1>5. CASE ChatAdmitted \/ ChatAnswered \/ ChatUnauthenticated
  BY <1>1, <1>5, SendIdle DEF ChatAdmitted, ChatAnswered, ChatUnauthenticated, ShowAnswer
<1>6. CASE ChatRefused \/ ChatLost
  BY <1>6 DEF ChatRefused, ChatLost
<1>7. CASE Saving
  <2>1. NextSave \/ sending' = sending
    BY <1>0, <1>7, Saves DEF Saved
  <2> QED
    BY <1>0, <1>1, <1>2, <2>1
<1>8. CASE LateAnswer
  BY <1>3, <1>8 DEF LateAnswer
<1> QED
  BY <1>0, <1>3, <1>4, <1>5, <1>6, <1>7, <1>8, MovesSend

\* Who changes what a flow has loaded: its own request.
LEMMA LoadedTyped ==
    ASSUME HomeInv, ViewTyped, [ChatNext]_chatVars, NEW i \in Slots,
           flows'[i] # Idle, flows'[i].step = "loaded"
    PROVE  OfThread(flows'[i].read, flows'[i].id)
<1>0. ChatTyped /\ DOMAIN flows = Slots
  BY DEF HomeInv, ChatTyped, PageTyped
<1>1. CASE flows'[i] = flows[i]
  BY <1>1 DEF ViewTyped
<1>2. ASSUME NEW j \in Slots, flows[j].op # "idle", NEW step, NEW id, step # "loaded",
             Goto(j, step, id) \/ End(j)
      PROVE  OfThread(flows'[i].read, flows'[i].id)
  <2>1. CASE i # j
    BY <1>0, <1>1, <1>2, <2>1 DEF Goto, End
  <2>2. CASE i = j
    <3>1. IsCall(flows[j])
      BY <1>0, <1>2, FlowFacts DEF ChatTyped
    <3> QED
      BY <1>0, <1>2, <2>2, <3>1 DEF Goto, End, IsCall
  <2> QED
    BY <2>1, <2>2
<1>3. ASSUME NEW call, Starts(call), call.step # "loaded"
      PROVE  OfThread(flows'[i].read, flows'[i].id)
  <2>1. PICK j \in Slots : flows' = [flows EXCEPT ![j] = call]
    BY <1>3 DEF Starts
  <2>2. flows'[i] = flows[i] \/ flows'[i] = call
    BY <1>0, <2>1
  <2> QED
    BY <1>1, <1>3, <2>2
<1>4. CASE FlowStep
  <2>1. PICK j \in Slots : \/ List(j) \/ Create(j) \/ Load(j) \/ Loaded(j) \/ Change(j)
                           \/ FlowFails(j) \/ Import(j) \/ Imported(j) \/ ImportLost(j)
    BY <1>4 DEF FlowStep
  <2>2. flows[j].op # "idle"
    BY <2>1 DEF List, Create, Load, Loaded, Change, FlowFails, Import, Imported,
                ImportLost, Waits
  <2>3. ASSUME flows' = flows \/ End(j) \/ \E step \in {"load", "create", "posts", "list"} :
                                             \E id : Goto(j, step, id)
        PROVE  OfThread(flows'[i].read, flows'[i].id)
    BY <1>1, <1>2, <2>2, <2>3
  <2>4. CASE Load(j)
    <3>1. CASE End(j)
      BY <2>3, <3>1
    <3>2. ASSUME NEW m \in MessagesOf(flows[j].id),
                 flows' = [flows EXCEPT ![j].step = "loaded", ![j].read = m]
          PROVE  OfThread(flows'[i].read, flows'[i].id)
      <4>1. CASE i # j
        BY <1>0, <1>1, <3>2, <4>1
      <4>2. CASE i = j
        <5>1. IsCall(flows[j]) /\ flows[j].id \in Threads
          BY <1>0, <2>2, <2>4, FlowFacts DEF ChatTyped, Load, Waits, IsCall
        <5>2. flows'[i].read = m /\ flows'[i].id = flows[j].id
          BY <1>0, <3>2, <4>2, <5>1 DEF IsCall
        <5> QED
          BY <3>2, <5>1, <5>2, MessagesTyped
      <4> QED
        BY <4>1, <4>2
    <3> QED
      BY <2>4, <3>1, <3>2 DEF Load
  <2>5. CASE List(j) \/ Create(j)
    BY <2>3, <2>5 DEF List, OpenAnother, Create
  <2>6. CASE Loaded(j) \/ Change(j) \/ FlowFails(j)
    BY <2>3, <2>6 DEF Loaded, Change, FlowFails
  <2>7. CASE Import(j) \/ Imported(j) \/ ImportLost(j)
    BY <2>3, <2>7 DEF Import, Imported, ImportLost
  <2> QED
    BY <2>1, <2>4, <2>5, <2>6, <2>7
<1>5. CASE Click
  <2>1. CASE EmptyView \/ TopUpDone \/ DiscardLegacyChat
    BY <1>1, <2>1 DEF EmptyView, TopUpDone, DiscardLegacyChat
  <2>2. ASSUME NEW op, NEW step \in {"load", "create", "change"}, NEW id, NEW home,
               Starts(Call(op, step, id, home))
        PROVE  OfThread(flows'[i].read, flows'[i].id)
    <3>1. Call(op, step, id, home).step # "loaded"
      BY DEF Call
    <3> QED
      BY <1>3, <2>2, <3>1
  <2> QED
    BY <1>5, <2>1, <2>2
       DEF Click, PickThread, DeleteThread, ArchiveThread, NewThread, ClearHistory,
           ImportLegacyChat
<1>6. CASE SendStep
  BY <1>1, <1>6
     DEF SendStep, Send, ChatAdmitted, ChatRefused, ChatAnswered, ChatUnauthenticated,
         ChatLost, LateAnswer, SkipSave, StartSave, Saved, SaveLost
<1>7. CASE PostStep \/ PollStep
  BY <1>1, <1>7 DEF PostStep, InsertAlone, PollStep, PollTick, PollServed, PollArrives
<1>8. ASSUME NEW t \in Threads, RemotePost(t) PROVE flows'[i] = flows[i]
  BY <1>8 DEF RemotePost
<1>9. CASE UNCHANGED chatVars
  BY <1>1, <1>9 DEF chatVars
<1> QED
  BY <1>1, <1>4, <1>5, <1>6, <1>7, <1>8, <1>9 DEF ChatNext, Elsewhere

\* The view of one thread: each turn was there before, or is of the thread shown.
Unmixed ==
    \A k \in DOMAIN turns' :
        \/ turns'[k].home = activeThreadId'
        \/ activeThreadId' = activeThreadId /\ \E j \in DOMAIN turns : turns'[k] = turns[j]
\* What a step does to the view.
Viewed ==
    /\ turns' \in Seq(TurnRecords)
    /\ poll' = NoPoll \/ IsPoll(poll')
    /\ sending' = sending => Unmixed

LEMMA ViewSteps ==
    ASSUME ViewInv, [ChatNext]_chatVars
    PROVE  Viewed
<1> USE DEF ViewInv
<1>0. /\ ChatTyped /\ turns \in Seq(TurnRecords) /\ (poll = NoPoll \/ IsPoll(poll))
      /\ activeThreadId \in 0..MaxThreads /\ <<>> \in Seq(TurnRecords)
  BY DEF HomeInv, ViewTyped, ChatTyped, PageTyped
<1>1. ASSUME UNCHANGED <<turns, activeThreadId>>, poll' = NoPoll \/ IsPoll(poll') PROVE Viewed
  BY <1>0, <1>1 DEF Viewed, Unmixed
<1>2. ASSUME UNCHANGED <<turns, activeThreadId, poll>> PROVE Viewed
  BY <1>0, <1>1, <1>2
<1>3. ASSUME turns' = <<>>, poll' = NoPoll \/ IsPoll(poll') PROVE Viewed
  BY <1>0, <1>3 DEF Viewed, Unmixed
<1>4. ASSUME sending' # sending, turns' \in Seq(TurnRecords), poll' = NoPoll \/ IsPoll(poll')
      PROVE  Viewed
  BY <1>4 DEF Viewed
<1>5. ASSUME sending # NotSending
      PROVE  /\ sending.before \in Seq(TurnRecords) /\ IsSend(sending)
             /\ Append(sending.next, Answer(sending.n, sending.home)) \in Seq(TurnRecords)
  <2>1. sending.before \in Seq(TurnRecords) /\ sending.next \in Seq(TurnRecords)
    BY <1>5 DEF ViewTyped
  <2>2. sending.n \in Nat /\ sending.home \in 0..MaxThreads /\ IsSend(sending)
    BY <1>0, <1>5, SendFacts DEF ChatTyped, SendTyped
  <2>3. Answer(sending.n, sending.home) \in TurnRecords
    BY <2>2 DEF Answer, Turn, TurnRecords
  <2> QED
    BY <2>1, <2>2, <2>3
<1>6. CASE SendStep
  <2>1. CASE ChatAdmitted \/ LateAnswer
    BY <1>2, <2>1 DEF ChatAdmitted, LateAnswer, page
  <2>2. CASE Send
    <3>1. sending' # sending /\ poll' = poll
          /\ turns' = Append(turns, Question(sends + 1, activeThreadId))
      BY <2>2 DEF Send, NotSending
    <3>2. Question(sends + 1, activeThreadId) \in TurnRecords
      BY <1>0, ChatConstants DEF ChatTyped, SendTyped, Question, Turn, TurnRecords
    <3>3. turns' \in Seq(TurnRecords)
      BY <1>0, <3>1, <3>2
    <3> QED
      BY <1>0, <1>4, <3>1, <3>3
  <2>3. CASE ChatRefused
    <3>1. sending # NotSending /\ sending' = NotSending /\ turns' = sending.before
          /\ poll' = poll
      BY <2>3, SendIdle DEF ChatRefused
    <3> QED
      BY <1>0, <1>4, <1>5, <3>1
  <2>4. CASE ChatLost
    <3>1. sending # NotSending /\ sending' = NotSending /\ poll' = poll
          /\ turns' = Append(sending.next, Answer(sending.n, sending.home))
      BY <2>4, SendIdle DEF ChatLost
    <3> QED
      BY <1>0, <1>4, <1>5, <3>1
  <2>5. CASE ChatAnswered \/ ChatUnauthenticated
    <3>1. sending # NotSending /\ sending.step \in {"ask", "asked"} /\ poll' = poll
          /\ ShowAnswer
      BY <2>5, SendIdle DEF ChatAnswered, ChatUnauthenticated
    <3>2. sending'.step = "question"
      BY <1>5, <3>1 DEF ShowAnswer, IsSend
    <3>3. sending' # sending
      BY <3>1, <3>2
    <3> QED
      BY <1>0, <1>4, <1>5, <3>1, <3>3 DEF ShowAnswer
  <2>6. CASE SkipSave \/ StartSave \/ Saved \/ SaveLost
    <3>1. UNCHANGED <<turns, activeThreadId>> /\ (poll' = poll \/ NextSave)
          /\ (NextSave => sending.step \in {"question", "answer"} \/ Saved)
      BY <2>6 DEF SkipSave, StartSave, Saved, SaveLost, page
    <3>2. poll' = poll \/ (poll' = Poll(SaveTo) /\ SaveTo # NoThread)
      BY <3>1 DEF NextSave
    <3>3. CASE poll' = Poll(SaveTo) /\ SaveTo # NoThread
      <4>1. CASE sending # NotSending
        <5>1. SaveTo \in 0..MaxThreads
          BY <1>5, <3>3, <4>1 DEF SaveTo, IsSend
        <5> QED
          BY <1>1, <3>1, <3>3, <5>1, PollMoves
      <4>2. CASE sending = NotSending
        <5>1. Saved /\ posts["send"] # NoPost
          BY <2>6, <4>2, SendIdle DEF SkipSave, StartSave, SaveLost, Saved, Insert
        <5> QED
          BY <4>2, <5>1, SendIdle DEF SendPosts, Posted
      <4> QED
        BY <4>1, <4>2
    <3> QED
      BY <1>2, <3>1, <3>2, <3>3
  <2> QED
    BY <1>6, <2>1, <2>2, <2>3, <2>4, <2>5, <2>6 DEF SendStep
<1>7. CASE PostStep
  BY <1>2, <1>7 DEF PostStep, InsertAlone, page
<1>8. CASE PollStep
  <2>1. CASE PollTick
    BY <1>0, <1>1, <2>1, PollMoves DEF PollTick, page
  <2>2. CASE PollServed
    <3>1. UNCHANGED <<turns, activeThreadId>>
      BY <2>2 DEF PollServed, page
    <3>2. CASE poll' = NoPoll
      BY <1>1, <3>1, <3>2
    <3>3. ASSUME NEW m \in MessagesOf(poll.of),
                 poll' = [poll EXCEPT !.ans = [is |-> "ok", val |-> m]]
          PROVE  Viewed
      <4>1. IsPoll(poll)
        BY <1>0, <2>2 DEF PollServed, NoPoll
      <4>2. OfThread(m, poll.of)
        BY <3>3, <4>1, MessagesTyped DEF IsPoll
      <4>3. {"of", "ans"} \subseteq DOMAIN poll' /\ poll'.of = poll.of /\ poll'.ans.val = m
        BY <3>3, <4>1 DEF IsPoll
      <4>4. IsPoll(poll')
        BY <4>1, <4>2, <4>3 DEF IsPoll
      <4> QED
        BY <1>1, <3>1, <4>4
    <3> QED
      BY <2>2, <3>2, <3>3 DEF PollServed
  <2>3. CASE PollArrives
    <3>1. poll' = NoPoll
      BY <2>3 DEF PollArrives
    <3> QED
      BY <2>3, <3>1, Merges DEF Viewed, Unmixed
  <2> QED
    BY <1>8, <2>1, <2>2, <2>3 DEF PollStep
<1>9. CASE FlowStep
  <2>1. PICK i \in Slots : \/ List(i) \/ Create(i) \/ Load(i) \/ Loaded(i) \/ Change(i)
                           \/ FlowFails(i) \/ Import(i) \/ Imported(i) \/ ImportLost(i)
    BY <1>9 DEF FlowStep
  <2>2. CASE Load(i) \/ Change(i) \/ FlowFails(i) \/ Import(i) \/ Imported(i) \/ ImportLost(i)
    BY <1>2, <2>2 DEF Load, Change, FlowFails, NoRender, Import, Imported, ImportLost, page
  <2>3. CASE List(i)
    <3>1. PICK authed : Render(authed, activeThreadId, turns)
      BY <2>3 DEF List
    <3> QED
      BY <1>0, <1>1, <3>1, Renders
  <2>4. CASE Create(i)
    <3> DEFINE U == {u \in Threads : status[u] = "unused"}
    <3>1. CASE NoRender
      BY <1>2, <3>1 DEF NoRender, page
    <3>2. CASE U # {} /\ Render(persistAuthed, Min(U), <<>>)
      <4>1. Min(U) \in 0..MaxThreads
        BY <3>2, LeastThread, ChatConstants
      <4> QED
        BY <1>3, <3>2, <4>1, Renders
    <3> QED
      BY <2>4, <3>1, <3>2 DEF Create
  <2>5. CASE Loaded(i)
    <3>1. OfThread(flows[i].read, flows[i].id)
      BY <2>5 DEF Loaded, Waits, ViewTyped, Idle
    <3>2. flows[i].id \in 0..MaxThreads
      BY <1>0, <2>5, FlowFacts DEF Loaded, Waits, ChatTyped, IsCall
    <3>3. activeThreadId' = flows[i].id /\ turns' = flows[i].read
          /\ (poll' = NoPoll \/ IsPoll(poll'))
      BY <2>5, <3>2, Renders DEF Loaded
    <3> QED
      BY <3>1, <3>3 DEF Viewed, Unmixed, OfThread
  <2> QED
    BY <2>1, <2>2, <2>3, <2>4, <2>5
<1>10. CASE Click
  <2>1. CASE EmptyView
    BY <1>0, <1>3, <2>1 DEF EmptyView
  <2>2. CASE TopUpDone \/ DiscardLegacyChat
    BY <1>2, <2>2 DEF TopUpDone, DiscardLegacyChat
  <2>3. ASSUME NEW call, Starts(call) PROVE Viewed
    BY <1>2, <2>3 DEF Starts, page
  <2> QED
    BY <1>10, <2>1, <2>2, <2>3
       DEF Click, PickThread, DeleteThread, ArchiveThread, NewThread, ClearHistory,
           ImportLegacyChat
<1>11. ASSUME NEW t \in Threads, RemotePost(t) PROVE Viewed
  BY <1>2, <1>11 DEF RemotePost, page
<1>12. CASE UNCHANGED chatVars
  BY <1>2, <1>12 DEF chatVars, page
<1> QED
  BY <1>6, <1>7, <1>8, <1>9, <1>10, <1>11, <1>12 DEF ChatNext, Elsewhere

LEMMA ViewInvStep ==
    ASSUME ViewInv, [ChatNext]_chatVars
    PROVE  ViewInv'
<1>1. HomeInv' /\ SendPosts'
  BY HomeInvStep, SendPostsStep DEF ViewInv, HomeInv
<1>2. turns' \in Seq(TurnRecords) /\ (poll' = NoPoll \/ IsPoll(poll'))
  BY ViewSteps DEF Viewed
<1>3. ViewTyped'
  BY <1>2, SendingTyped, LoadedTyped DEF ViewInv, ViewTyped, IsPoll, OfThread
<1> QED
  BY <1>1, <1>3 DEF ViewInv

\* For any number of threads, callbacks and polls under way: turns of another
\* thread come into view only by the send that was under way; no poll and no thread
\* loaded late shows one conversation under another.
THEOREM OnlyAnswersMixIn == ChatSpec => OnlyAnswersMix
<1>1. ASSUME ViewInv, [ChatNext]_chatVars, sending' = sending PROVE Foreign' \subseteq Foreign
  <2>1. Unmixed /\ turns \in Seq(TurnRecords)
    BY <1>1, ViewSteps DEF Viewed, ViewInv, ViewTyped
  <2> QED
    BY <2>1 DEF Unmixed, Foreign, Range
<1>2. ViewInv /\ [ChatNext]_chatVars => [sending' = sending => Foreign' \subseteq Foreign]_chatVars
  BY <1>1
<1>3. ViewInv /\ [ChatNext]_chatVars => ViewInv'
  BY ViewInvStep
<1> QED
  BY <1>2, <1>3, ViewInit, PTL DEF ChatSpec, OnlyAnswersMix

=============================================================================
