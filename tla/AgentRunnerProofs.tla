------------------------- MODULE AgentRunnerProofs -------------------------
(***************************************************************************)
(* For any sectors, baskets, number of attempts, days and requests: the    *)
(* three properties of the agent's loop.  Each has a strengthening that is *)
(* inductive on top of the types:                                          *)
(*                                                                         *)
(*   - StepInv: a step still pending with no iteration under way has been  *)
(*     granted and not used;                                               *)
(*                                                                         *)
(*   - OrderInv: within an asset the orders taken stay below the attempts  *)
(*     made for it;                                                        *)
(*                                                                         *)
(*   - DraftInv: a sector not remembered today has been drafted at most    *)
(*     once per restart of today, and nothing is drafted ahead of time.    *)
(***************************************************************************)
EXTENDS AgentRunner, TLAPS

StepInv ==
    paused => begun + (IF step /\ node = "none" THEN 1 ELSE 0) <= granted

OrderInv ==
    /\ taken <= placed + unsure
    /\ placed <= taken + unsure
    /\ taken <= MAX_TRADE_ATTEMPTS * done + attempt
    /\ attempt < MAX_TRADE_ATTEMPTS

DraftInv ==
    /\ DraftedOncePerDay
    /\ \A s \in Sectors : <<s, day>> \notin draftedToday =>
         drafts[<<s, day>>] <= restarts[day]
    /\ \A s \in Sectors, d \in Days : d > day => drafts[<<s, d>>] = 0
    /\ node = "draft" => keyDay <= day /\ drafts[Key] <= restarts[keyDay]

------------------------------------------------------------------------------
(* Types                                                                      *)

LEMMA SectorsTurn ==
    /\ 1 \in DOMAIN SectorsCycle
    /\ \A k \in DOMAIN SectorsCycle :
         /\ SectorsCycle[k] \in Sectors
         /\ (k % Len(SectorsCycle)) + 1 \in DOMAIN SectorsCycle
    /\ 1 \in Days
BY AgentAssumption DEF Sectors, Days

LEMMA AgentTypeInit == AgentInit => AgentTypeOK
<1> SUFFICES ASSUME AgentInit PROVE AgentTypeOK
  OBVIOUS
<1>1. restarts \in [Days -> Nat] /\ drafts \in [Sectors \X Days -> Nat]
  BY DEF AgentInit
<1>2. i \in DOMAIN SectorsCycle /\ sector \in Sectors /\ keyDay \in Days /\ day \in Days
  BY SectorsTurn DEF AgentInit
<1>3. /\ age \in 0..2 /\ left \in Nat /\ attempt \in Nat /\ done \in Nat
      /\ taken \in Nat /\ placed \in Nat /\ unsure \in Nat
      /\ inputs \in Nat /\ begun \in Nat /\ granted \in Nat
  BY DEF AgentInit
<1>4. node \in Nodes \ {"exec", "perps"} /\ draftedToday \subseteq Sectors \X Days
  BY DEF AgentInit, Nodes
<1>5. paused \in BOOLEAN /\ halted \in BOOLEAN /\ step \in BOOLEAN /\ active \in BOOLEAN
  BY DEF AgentInit
<1> QED
  BY <1>1, <1>2, <1>3, <1>4, <1>5 DEF AgentTypeOK

LEMMA AgentTypeStep == AgentTypeOK /\ [AgentNext]_vars => AgentTypeOK'
<1> SUFFICES ASSUME AgentTypeOK, [AgentNext]_vars PROVE AgentTypeOK'
  OBVIOUS
<1> USE DEF AgentTypeOK, Nodes, flags, observed, drafting, outside, basket, books, run
<1>1. CASE Begin
  BY <1>1, SectorsTurn DEF Begin
<1>2. CASE Research
  BY <1>2, AgentAssumption DEF Research
<1>3. CASE Crashed
  BY <1>3, SectorsTurn DEF Crashed, Finally, NoRun
<1>4. ASSUME NEW result \in Results, NEW n \in Taken(result),
             Trade(result, n) \/ TradePerps(result, n)
      PROVE  AgentTypeOK'
  <2>1. taken' \in Nat /\ unsure' \in Nat
    BY <1>4 DEF Trade, TradePerps, Answered, Taken
  <2>2. CASE NextAsset(result) /\ left > 0
    BY <1>4, <2>1, <2>2 DEF NextAsset, Trade, TradePerps, Answered
  <2>3. CASE TryAgain /\ node = "exec"
    BY <1>4, <2>1, <2>3 DEF TryAgain, Trade, TradePerps, Answered
  <2>4. CASE node' = "perps" /\ left > 0 /\ UNCHANGED <<basket, placed>>
    BY <1>4, <2>1, <2>4 DEF Trade, TradePerps, Answered
  <2> QED
    BY <1>4, <2>2, <2>3, <2>4 DEF Trade, TradePerps, AfterPerps
<1>5. CASE Report
  <2>1. CASE Finally /\ UNCHANGED drafting
    BY <2>1, SectorsTurn DEF Finally, NoRun
  <2>2. CASE ~(Finally /\ UNCHANGED drafting)
    BY <1>5, <2>2 DEF Report
  <2> QED
    BY <2>1, <2>2
<1>6. CASE Draft
  <2>1. drafts' \in [Sectors \X Days -> Nat] /\ draftedToday' \subseteq Sectors \X Days
    BY <1>6 DEF Draft, Wrote, Remember, Key
  <2> QED
    BY <1>6, <2>1, SectorsTurn DEF Draft, Finally, NoRun
<1>7. CASE Pause \/ Step \/ Reset \/ Halt
  <2>1. paused' \in BOOLEAN /\ halted' \in BOOLEAN /\ step' \in BOOLEAN
    BY <1>7 DEF Pause, Step, Reset, Halt
  <2>2. begun' \in Nat /\ granted' \in Nat
    BY <1>7 DEF Pause, Step, Reset, Halt
  <2>3. Serve
    BY <1>7 DEF Pause, Step, Reset, Halt
  <2> QED
    BY <2>1, <2>2, <2>3 DEF Serve
<1>8. CASE Wait \/ Quieten \/ Midnight
  <2>1. CASE Wait
    BY <2>1 DEF Wait
  <2>2. CASE Quieten
    BY <2>2 DEF Quieten
  <2>3. CASE Midnight
    BY <2>3, AgentAssumption DEF Midnight, Days
  <2> QED
    BY <1>8, <2>1, <2>2, <2>3
<1>9. CASE Restart
  <2>1. drafts' \in [Sectors \X Days -> Nat] /\ restarts' \in [Days -> Nat]
    BY <1>9 DEF Restart, Wrote, Key
  <2>2. Boot /\ UNCHANGED <<day, inputs>>
    BY <1>9 DEF Restart
  <2>3. i' \in DOMAIN SectorsCycle /\ sector' \in Sectors /\ keyDay' \in Days
    BY <2>2, SectorsTurn DEF Boot, NoRun
  <2>4. /\ age' \in 0..2 /\ left' \in Nat /\ attempt' \in Nat /\ done' \in Nat
        /\ taken' \in Nat /\ placed' \in Nat /\ unsure' \in Nat
        /\ begun' \in Nat /\ granted' \in Nat
    BY <2>2 DEF Boot, NoRun
  <2>5. node' \in Nodes \ {"exec", "perps"} /\ draftedToday' \subseteq Sectors \X Days
    BY <2>2 DEF Boot, NoRun
  <2>6. paused' \in BOOLEAN /\ halted' \in BOOLEAN /\ step' \in BOOLEAN
        /\ active' \in BOOLEAN
    BY <2>2 DEF Boot
  <2> QED
    BY <2>1, <2>2, <2>3, <2>4, <2>5, <2>6
<1>10. CASE UNCHANGED vars
  BY <1>10 DEF vars
<1> QED
  BY <1>1, <1>2, <1>3, <1>4, <1>5, <1>6, <1>7, <1>8, <1>9, <1>10 DEF AgentNext

\* Every request, attempt and restart keeps the agent's state of its type.
THEOREM AgentTypes == AgentSpec => []AgentTypeOK
BY AgentTypeInit, AgentTypeStep, PTL DEF AgentSpec

------------------------------------------------------------------------------
(* Steps of a paused agent                                                    *)

LEMMA StepInvStep == AgentTypeOK /\ StepInv /\ [AgentNext]_vars => StepInv'
<1> SUFFICES ASSUME AgentTypeOK, StepInv, [AgentNext]_vars PROVE StepInv'
  OBVIOUS
<1> USE DEF AgentTypeOK, StepInv, flags, observed
<1>1. CASE Begin
  BY <1>1 DEF Begin
<1>2. CASE Research
  BY <1>2 DEF Research
<1>3. CASE Crashed \/ Draft
  BY <1>3 DEF Crashed, Draft, Finally, NoRun
<1>4. ASSUME NEW result \in Results, NEW n \in Taken(result),
             Trade(result, n) \/ TradePerps(result, n)
      PROVE  StepInv'
  BY <1>4 DEF Trade, TradePerps, Answered, AfterPerps, NextAsset, TryAgain
<1>5. CASE Report
  BY <1>5 DEF Report, Finally, NoRun
<1>6. CASE Pause \/ Step \/ Reset \/ Halt
  <2>1. UNCHANGED node
    BY <1>6 DEF Pause, Step, Reset, Halt, Serve, run
  <2>2. CASE Pause
    <3>1. begun' = 0 /\ (step' <=> step) /\ (paused' => granted' = IF step THEN 1 ELSE 0)
      BY <2>2 DEF Pause
    <3> QED
      BY <2>1, <3>1
  <2>3. CASE Step
    <3>1. CASE step
      BY <2>1, <2>3, <3>1 DEF Step
    <3>2. CASE ~step
      BY <2>1, <2>3, <3>2 DEF Step
    <3> QED
      BY <3>1, <3>2
  <2>4. CASE Reset \/ Halt
    BY <2>4 DEF Reset, Halt
  <2> QED
    BY <1>6, <2>2, <2>3, <2>4
<1>7. CASE Wait \/ Quieten \/ Midnight
  <2>1. UNCHANGED <<flags, node, observed>>
    BY <1>7 DEF Wait, Quieten, Midnight, run
  <2> QED
    BY <2>1
<1>8. CASE Restart
  BY <1>8 DEF Restart, Boot
<1>9. CASE UNCHANGED vars
  BY <1>9 DEF vars, run
<1> QED
  BY <1>1, <1>2, <1>3, <1>4, <1>5, <1>6, <1>7, <1>8, <1>9 DEF AgentNext

\* However requests to /pause, /step, /reset and /halt interleave with the
\* iterations, failed ones included, a paused agent runs once per step taken
\* in (the guard at the top of _runner and its finally block).
THEOREM StepsAreOneShot == AgentSpec => []PausedRunsOnlySteps
<1>1. AgentInit => StepInv
  BY DEF AgentInit, StepInv
<1>2. AgentTypeOK /\ StepInv => PausedRunsOnlySteps
  BY DEF AgentTypeOK, StepInv, PausedRunsOnlySteps
<1> QED
  BY <1>1, <1>2, AgentTypes, StepInvStep, PTL DEF AgentSpec

------------------------------------------------------------------------------
(* Orders                                                                     *)

LEMMA AnotherAsset ==
    ASSUME NEW m \in Nat, NEW k \in Nat
    PROVE  /\ m * (k + 1) = m * k + m
           /\ m * k \in Nat
           /\ m * 0 = 0
OBVIOUS

LEMMA OrderInvStep == AgentTypeOK /\ OrderInv /\ [AgentNext]_vars => OrderInv'
<1> SUFFICES ASSUME AgentTypeOK, OrderInv, [AgentNext]_vars PROVE OrderInv'
  OBVIOUS
<1>0. ASSUME /\ taken' = 0 /\ placed' = 0 /\ unsure' = 0
             /\ done' = 0 /\ attempt' = 0
      PROVE  OrderInv'
  BY <1>0, AgentAssumption, AnotherAsset DEF OrderInv
<1>1. ASSUME UNCHANGED <<taken, placed, unsure, done, attempt>> PROVE OrderInv'
  BY <1>1 DEF OrderInv
<1>2. CASE Begin \/ Research
  BY <1>1, <1>2 DEF Begin, Research, basket, books
<1>3. CASE Crashed \/ Report \/ Draft
  BY <1>0, <1>3 DEF Crashed, Report, Draft, Finally, NoRun
<1>4. ASSUME NEW result \in Results, NEW n \in Taken(result),
             Trade(result, n) \/ TradePerps(result, n)
      PROVE  OrderInv'
  <2>1. /\ taken \in Nat /\ placed \in Nat /\ unsure \in Nat /\ done \in Nat
        /\ attempt \in Nat /\ MAX_TRADE_ATTEMPTS \in Nat \ {0}
        /\ MAX_TRADE_ATTEMPTS * done \in Nat
        /\ MAX_TRADE_ATTEMPTS * (done + 1) = MAX_TRADE_ATTEMPTS * done + MAX_TRADE_ATTEMPTS
    BY AgentAssumption, AnotherAsset DEF AgentTypeOK
  <2>2. /\ taken' = taken + n /\ n \in {0, 1}
        /\ unsure' = IF result \in Unclear THEN unsure + 1 ELSE unsure
        /\ result = "accepted" => n = 1
        /\ result \notin Unclear \cup {"accepted"} => n = 0
    BY <1>4 DEF Trade, TradePerps, Answered, Taken
  <2>3. CASE NextAsset(result)
    <3>1. /\ done' = done + 1 /\ attempt' = 0
          /\ placed' = IF result \in {"accepted", "vague"} THEN placed + 1 ELSE placed
      BY <2>3 DEF NextAsset
    <3>2. taken' <= placed' + unsure' /\ placed' <= taken' + unsure'
      BY <2>1, <2>2, <3>1 DEF OrderInv, Unclear
    <3>3. taken' <= MAX_TRADE_ATTEMPTS * done + MAX_TRADE_ATTEMPTS
      BY <2>1, <2>2 DEF OrderInv
    <3> QED
      BY <2>1, <3>1, <3>2, <3>3 DEF OrderInv
  <2>4. CASE TryAgain /\ Classify(result) = "retry" /\ attempt < MAX_TRADE_ATTEMPTS - 1
    <3>1. result \notin Unclear => n = 0
      BY <2>2, <2>4 DEF Classify
    <3> QED
      BY <2>1, <2>2, <2>4, <3>1 DEF OrderInv, TryAgain
  <2>5. CASE Classify(result) = "route_to_perps" /\ UNCHANGED <<basket, placed>>
    <3>1. n = 0 /\ result \notin Unclear
      BY <2>2, <2>5 DEF Classify, Unclear
    <3> QED
      BY <2>1, <2>2, <2>5, <3>1 DEF OrderInv, basket
  <2> QED
    BY <1>4, <2>3, <2>4, <2>5 DEF Trade, TradePerps, AfterPerps
<1>5. CASE Restart
  BY <1>0, <1>5 DEF Restart, Boot, NoRun
<1>6. CASE Pause \/ Step \/ Reset \/ Halt \/ Wait \/ Quieten \/ Midnight \/ UNCHANGED vars
  BY <1>1, <1>6 DEF Pause, Step, Reset, Halt, Serve, Wait, Quieten, Midnight, vars,
                    run, basket, books
<1> QED
  BY <1>2, <1>3, <1>4, <1>5, <1>6 DEF AgentNext

\* The retry loop and the perps cascade of exec_node, for any basket: the orders
\* of a cycle are at most MAX_TRADE_ATTEMPTS for each asset tried, taken together,
\* and the summary is off by no more than the answers that did not tell.
THEOREM OrdersAccounted == AgentSpec => []OrdersExplained
<1>1. AgentInit => OrderInv
  BY AgentAssumption, AnotherAsset DEF AgentInit, OrderInv
<1>2. AgentTypeOK /\ OrderInv => OrdersExplained
  <2> SUFFICES ASSUME AgentTypeOK, OrderInv PROVE OrdersExplained
    OBVIOUS
  <2>1. /\ done \in Nat /\ taken \in Nat /\ attempt \in Nat
        /\ MAX_TRADE_ATTEMPTS \in Nat
    BY AgentAssumption DEF AgentTypeOK
  <2>2. /\ MAX_TRADE_ATTEMPTS * (done + 1)
             = MAX_TRADE_ATTEMPTS * done + MAX_TRADE_ATTEMPTS
        /\ MAX_TRADE_ATTEMPTS * done \in Nat
    BY <2>1, AnotherAsset
  <2> QED
    BY <2>1, <2>2 DEF OrderInv, OrdersExplained
<1> QED
  BY <1>1, <1>2, AgentTypes, OrderInvStep, PTL DEF AgentSpec

------------------------------------------------------------------------------
(* Drafts                                                                     *)

LEMMA DraftInvStep == AgentTypeOK /\ DraftInv /\ [AgentNext]_vars => DraftInv'
<1> SUFFICES ASSUME AgentTypeOK, DraftInv, [AgentNext]_vars PROVE DraftInv'
  OBVIOUS
<1> USE DEF drafting, outside
<1>0. ASSUME UNCHANGED <<drafts, draftedToday, day, restarts>>,
             node' # "draft" \/ UNCHANGED <<node, sector, keyDay>>
      PROVE  DraftInv'
  BY <1>0 DEF DraftInv, DraftedOncePerDay, Key
<1>1. CASE Begin \/ Research
  BY <1>0, <1>1 DEF Begin, Research
<1>2. ASSUME NEW result \in Results, NEW n \in Taken(result),
             Trade(result, n) \/ TradePerps(result, n)
      PROVE  DraftInv'
  <2>1. node' # "draft"
    BY <1>2 DEF Trade, TradePerps, AfterPerps, NextAsset, TryAgain
  <2> QED
    BY <1>0, <1>2, <2>1 DEF Trade, TradePerps, Answered
<1>3. CASE Crashed
  BY <1>0, <1>3 DEF Crashed, Finally, NoRun
<1>4. CASE Report
  <2>1. CASE Finally /\ UNCHANGED drafting
    BY <1>0, <2>1 DEF Finally, NoRun
  <2>2. CASE /\ <<sector, day>> \notin draftedToday
             /\ keyDay' = day /\ UNCHANGED <<sector, drafting, outside>>
    BY <2>2 DEF DraftInv, DraftedOncePerDay, Key, AgentTypeOK, Days
  <2> QED
    BY <1>4, <2>1, <2>2 DEF Report
<1>5. CASE Draft
  <2>1. PICK n \in 0..1 : /\ drafts' = [drafts EXCEPT ![Key] = @ + n]
                          /\ draftedToday' = draftedToday \cup {Key}
    BY <1>5 DEF Draft, Wrote, Remember
  <2>2. node = "draft" /\ node' = "none" /\ UNCHANGED <<day, restarts>>
    BY <1>5 DEF Draft, Finally, NoRun
  <2>3. /\ Key \in Sectors \X Days /\ Key = <<sector, keyDay>> /\ keyDay \in Days
        /\ keyDay <= day /\ drafts[Key] <= restarts[keyDay]
    BY <2>2 DEF Key, AgentTypeOK, DraftInv
  <2>4. \A k \in Sectors \X Days :
          drafts'[k] = IF k = Key THEN drafts[k] + n ELSE drafts[k]
    BY <2>1 DEF AgentTypeOK
  <2>5. ASSUME NEW s \in Sectors, NEW d \in Days
        PROVE  /\ drafts'[<<s, d>>] <= 1 + restarts[d]
               /\ d > day => drafts'[<<s, d>>] = 0
    <3>1. /\ <<s, d>> \in Sectors \X Days /\ drafts[<<s, d>>] \in Nat
          /\ restarts[d] \in Nat /\ day \in Nat /\ d \in Nat /\ keyDay \in Nat
          /\ drafts[<<s, d>>] <= 1 + restarts[d]
          /\ d > day => drafts[<<s, d>>] = 0
      BY DEF AgentTypeOK, Days, DraftInv, DraftedOncePerDay
    <3>2. CASE <<s, d>> = Key
      BY <2>3, <2>4, <3>1, <3>2
    <3>3. CASE <<s, d>> # Key
      BY <2>4, <3>1, <3>3
    <3> QED
      BY <3>2, <3>3
  <2>6. ASSUME NEW s \in Sectors, <<s, day>> \notin draftedToday'
        PROVE  drafts'[<<s, day>>] <= restarts[day]
    <3>1. <<s, day>> # Key /\ <<s, day>> \notin draftedToday
      BY <2>1, <2>6
    <3>2. <<s, day>> \in Sectors \X Days
      BY DEF AgentTypeOK
    <3> QED
      BY <2>4, <3>1, <3>2 DEF DraftInv
  <2> QED
    BY <2>2, <2>5, <2>6 DEF DraftInv, DraftedOncePerDay
<1>6. CASE Midnight
  <2>1. /\ day' = day + 1 /\ day' \in Days
        /\ UNCHANGED <<drafts, draftedToday, restarts, node, sector, keyDay>>
    BY <1>6, AgentAssumption DEF Midnight, AgentTypeOK, Days, run
  <2>2. \A s \in Sectors : drafts[<<s, day'>>] <= restarts[day']
    BY <2>1 DEF DraftInv, AgentTypeOK, Days
  <2> QED
    BY <2>1, <2>2 DEF DraftInv, DraftedOncePerDay, Key, AgentTypeOK, Days
<1>7. CASE Restart
  <2>1. /\ node' = "none" /\ draftedToday' = {} /\ day' = day
        /\ restarts' = [restarts EXCEPT ![day] = @ + 1]
    BY <1>7 DEF Restart, Boot, NoRun
  <2>2. /\ day \in Days /\ restarts'[day] = restarts[day] + 1
        /\ \A d \in Days : restarts[d] \in Nat /\ restarts'[d] \in Nat
                           /\ restarts[d] <= restarts'[d]
    BY <2>1 DEF AgentTypeOK
  <2>3. ASSUME NEW s \in Sectors, NEW d \in Days
        PROVE  /\ drafts'[<<s, d>>] <= 1 + restarts'[d]
               /\ d = day => drafts'[<<s, d>>] <= restarts'[d]
               /\ d > day => drafts'[<<s, d>>] = 0
    <3>1. /\ <<s, d>> \in Sectors \X Days /\ drafts[<<s, d>>] \in Nat
          /\ day \in Nat /\ d \in Nat
          /\ drafts[<<s, d>>] <= 1 + restarts[d]
          /\ d > day => drafts[<<s, d>>] = 0
      BY DEF AgentTypeOK, Days, DraftInv, DraftedOncePerDay
    <3>2. CASE UNCHANGED drafts
      BY <2>2, <3>1, <3>2
    <3>3. CASE node = "draft" /\ Wrote(1)
      <4>1. /\ Key \in Sectors \X Days /\ Key = <<sector, keyDay>>
            /\ keyDay \in Days /\ keyDay <= day
            /\ drafts[Key] <= restarts[keyDay]
        BY <3>3 DEF Key, AgentTypeOK, DraftInv
      <4>2. drafts'[<<s, d>>] = IF <<s, d>> = Key THEN drafts[<<s, d>>] + 1
                                                  ELSE drafts[<<s, d>>]
        BY <3>1, <3>3 DEF Wrote, AgentTypeOK
      <4>3. CASE <<s, d>> = Key
        <5>1. d = keyDay
          BY <4>1, <4>3
        <5> QED
          BY <2>2, <3>1, <4>1, <4>2, <4>3, <5>1
      <4>4. CASE <<s, d>> # Key
        BY <2>2, <3>1, <4>2, <4>4
      <4> QED
        BY <4>3, <4>4
    <3> QED
      BY <1>7, <3>2, <3>3 DEF Restart
  <2> QED
    BY <2>1, <2>2, <2>3 DEF DraftInv, DraftedOncePerDay
<1>8. CASE Pause \/ Step \/ Reset \/ Halt \/ Wait \/ Quieten \/ UNCHANGED vars
  BY <1>0, <1>8 DEF Pause, Step, Reset, Halt, Serve, Wait, Quieten, vars, run
<1> QED
  BY <1>1, <1>2, <1>3, <1>4, <1>5, <1>6, <1>7, <1>8 DEF AgentNext

\* The set _DRAFTED_TODAY is in memory only and is extended whatever became of
\* the insert: no sector is drafted twice a day by one process, so that each
\* restart costs at most one more.
THEOREM DraftsDeduplicated == AgentSpec => []DraftedOncePerDay
<1>1. AgentInit => DraftInv
  <2> SUFFICES ASSUME AgentInit PROVE DraftInv
    OBVIOUS
  <2>1. \A s \in Sectors, d \in Days : drafts[<<s, d>>] = 0 /\ restarts[d] = 0
    BY DEF AgentInit
  <2>2. day \in Days /\ node = "none"
    BY SectorsTurn DEF AgentInit
  <2> QED
    BY <2>1, <2>2 DEF DraftInv, DraftedOncePerDay
<1>2. DraftInv => DraftedOncePerDay
  BY DEF DraftInv
<1> QED
  BY <1>1, <1>2, AgentTypes, DraftInvStep, PTL DEF AgentSpec

=============================================================================
