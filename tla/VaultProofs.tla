----------------------------- MODULE VaultProofs -----------------------------
(***************************************************************************)
(* What holds of the vault contract, and of the keeper that drives it, for *)
(* every number of addresses, indices and requests and for every scale.    *)
(*                                                                         *)
(* First the contract: types and the fee clock together, because a fee     *)
(* would be negative if the clock could be ahead; then the ledger, which   *)
(* says who owns the shares; then where the USDC is; then what single      *)
(* calls do.  Everything is shown of calls with any arguments (AnyCall),   *)
(* so that it holds of the specification, whose calls take their arguments *)
(* from small sets, and of the keeper, which computes them.                *)
(*                                                                         *)
(* Then the keeper: its calls are calls of the contract, so all this holds *)
(* while it runs, and what it does with requests and money follows.        *)
(***************************************************************************)
EXTENDS HypeIndexVaultProperties, VaultKeeperProperties, SumsProofs,
        FiniteSetTheorems, TLAPS

-----------------------------------------------------------------------------
(* Calls with any arguments *)

AnyAttested ==
    \E c \in Accounts, nav \in Nat, signedAt \in Nat, by \in Accounts :
        \/ \E idx \in Indices : UpdateNav(c, idx, nav, signedAt, by)
        \/ \E id \in RequestIds, amount \in Nat :
              \/ SettleDeposit(c, id, nav, amount, signedAt, by)
              \/ SettleRedeem(c, id, amount, nav, signedAt, by)

AnyKeeperCalls ==
    \E c \in Accounts :
        \/ \E idx \in Indices, creator \in Accounts : OpenVault(c, idx, creator)
        \/ \E idx \in Indices : AccrueMgmt(c, idx)
        \/ \E id \in RequestIds :
              \/ PullForDeposit(c, id)
              \/ CancelHeldDeposit(c, id)
              \/ \E amount \in Nat : CancelPulledDeposit(c, id, amount)

AnyUserCalls ==
    \E a \in Accounts, idx \in Indices :
        \/ \E amount \in Nat, min \in Nat :
              \/ RequestDeposit(a, idx, amount, min)
              \/ RequestRedeem(a, idx, amount, min)
        \/ ClaimFees(a, idx)

AnyCall == Admin \/ AnyAttested \/ AnyKeeperCalls \/ AnyUserCalls \/ NextBlock

LEMMA CallsAreAny == [Next]_vars => [AnyCall]_vars
<1>0. Amounts \subseteq Nat /\ Navs \subseteq Nat /\ 0..(MaxTime + 1) \subseteq Nat
  BY InputsAssumption, CountsAssumption
<1>1. Attested => AnyAttested
  BY <1>0 DEF Attested, AnyAttested
<1>2. KeeperCalls => AnyKeeperCalls
  BY <1>0 DEF KeeperCalls, AnyKeeperCalls
<1>3. UserCalls => AnyUserCalls
  BY <1>0 DEF UserCalls, AnyUserCalls
<1> QED
  BY <1>1, <1>2, <1>3 DEF Next, AnyCall

-----------------------------------------------------------------------------
(* Types and the fee clock *)

\* Integer division of naturals by a positive number gives a natural.
LEMMA DivNat ==
    ASSUME NEW a \in Nat, NEW b \in Nat \ {0}
    PROVE  a \div b \in Nat
OBVIOUS

LEMMA ProductNat ==
    ASSUME NEW a \in Nat, NEW b \in Nat
    PROVE  a * b \in Nat
OBVIOUS

LEMMA SharesForNat ==
    ASSUME NEW value \in Nat, NEW nav \in Nat, nav # 0
    PROVE  SharesFor(value, nav) \in Nat
BY ScaleAssumption, DivNat, ProductNat DEF SharesFor

LEMMA MgmtFeeSharesNat ==
    ASSUME NEW total \in Nat, NEW dt \in Nat
    PROVE  MgmtFeeShares(total, dt) \in Nat
<1>1. total * MGMT_FEE_BPS * dt \in Nat
  BY ScaleAssumption, ProductNat
<1>2. YEAR * BPS \in Nat \ {0}
  BY ScaleAssumption
<1> QED
  BY <1>1, <1>2, DivNat DEF MgmtFeeShares

LEMMA PerfFeeNat ==
    ASSUME NEW r \in PendingRedeem, NEW nav \in Nat, NEW received \in Nat
    PROVE  /\ PerfFeeUsdc(r, nav, received) \in Nat
           /\ PerfFeeUsdc(r, nav, received) <= received
<1> DEFINE profit == ((nav - r.hwmNav) * r.shares) \div WAD
           fee == (profit * PERF_FEE_BPS) \div BPS
<1>0. r.hwmNav \in Nat /\ r.shares \in Nat
  BY DEF PendingRedeem
<1>1. CASE ~ (nav > r.hwmNav /\ r.hwmNav # 0)
  BY <1>1 DEF PerfFeeUsdc
<1>2. CASE nav > r.hwmNav /\ r.hwmNav # 0
  <2>1. nav - r.hwmNav \in Nat
    BY <1>0, <1>2
  <2>2. profit \in Nat
    BY <1>0, <2>1, ScaleAssumption, DivNat, ProductNat
  <2>3. fee \in Nat
    <3> HIDE DEF profit
    <3> QED BY <2>2, ScaleAssumption, DivNat, ProductNat
  <2>4. PerfFeeUsdc(r, nav, received) = IF fee > received THEN received ELSE fee
    BY <1>2 DEF PerfFeeUsdc
  <2> HIDE DEF fee
  <2> QED BY <2>3, <2>4
<1> QED
  BY <1>1, <1>2


-----------------------------------------------------------------------------
(* Type correctness *)

\* The types of a vault's fields, and of a vault with some of them changed.
LEMMA VaultFields ==
    ASSUME NEW v \in IndexVault
    PROVE  /\ v.active \in BOOLEAN /\ v.creator \in 0..NumAccounts
           /\ v.totalShares \in Nat /\ v.usdcReserve \in Nat
           /\ v.lastMgmtAccrualAt \in Nat /\ v.creatorFeeShares \in Nat
           /\ v.lastNav \in Nat
BY DEF IndexVault

LEMMA VaultWith ==
    ASSUME NEW v \in IndexVault, NEW n \in Nat
    PROVE  /\ [v EXCEPT !.usdcReserve = n] \in IndexVault
           /\ [v EXCEPT !.lastNav = n] \in IndexVault
           /\ [v EXCEPT !.creatorFeeShares = n] \in IndexVault
           /\ [v EXCEPT !.lastMgmtAccrualAt = n] \in IndexVault
BY DEF IndexVault

LEMMA VaultWithTwo ==
    ASSUME NEW v \in IndexVault, NEW m \in Nat, NEW n \in Nat
    PROVE  /\ [v EXCEPT !.totalShares = m, !.lastNav = n] \in IndexVault
           /\ [v EXCEPT !.creatorFeeShares = m, !.totalShares = n] \in IndexVault
           /\ [v EXCEPT !.totalShares = m, !.usdcReserve = n] \in IndexVault
BY DEF IndexVault

LEMMA VaultOpened ==
    ASSUME NEW v \in IndexVault, NEW a \in 0..NumAccounts, NEW n \in Nat
    PROVE  [v EXCEPT !.active = TRUE, !.creator = a, !.lastMgmtAccrualAt = n]
              \in IndexVault
BY DEF IndexVault

LEMMA VaultsUpdate ==
    ASSUME NEW f \in [Indices -> IndexVault], NEW idx \in Indices,
           NEW v \in IndexVault
    PROVE  [f EXCEPT ![idx] = v] \in [Indices -> IndexVault]
OBVIOUS

\* Where a request's index and owner lie.
LEMMA LiveDeposit ==
    ASSUME TypeOK, NEW id \in RequestIds, pendingDeposits[id].who # 0
    PROVE  LET d == pendingDeposits[id] IN
           /\ d.indexId \in Indices /\ d.who \in Accounts
           /\ d.usdcIn \in Nat /\ d.minSharesOut \in Nat /\ d.pulled \in BOOLEAN
           /\ vaults[d.indexId] \in IndexVault
<1>1. pendingDeposits[id] \in PendingDeposit /\ pendingDeposits[id].indexId \in Indices
  BY DEF TypeOK
<1>2. pendingDeposits[id].who \in 0..NumAccounts
  BY <1>1 DEF PendingDeposit
<1>3. vaults[pendingDeposits[id].indexId] \in IndexVault
  BY <1>1 DEF TypeOK
<1> QED
  BY <1>1, <1>2, <1>3 DEF PendingDeposit, Accounts

LEMMA LiveRedeem ==
    ASSUME TypeOK, NEW id \in RequestIds, pendingRedeems[id].who # 0
    PROVE  LET r == pendingRedeems[id] IN
           /\ r \in PendingRedeem
           /\ r.indexId \in Indices /\ r.who \in Accounts
           /\ r.shares \in Nat /\ r.hwmNav \in Nat /\ r.minUsdcOut \in Nat
           /\ vaults[r.indexId] \in IndexVault
<1>1. pendingRedeems[id] \in PendingRedeem /\ pendingRedeems[id].indexId \in Indices
  BY DEF TypeOK
<1>2. pendingRedeems[id].who \in 0..NumAccounts
  BY <1>1 DEF PendingRedeem
<1>3. vaults[pendingRedeems[id].indexId] \in IndexVault
  BY <1>1 DEF TypeOK
<1> QED
  BY <1>1, <1>2, <1>3 DEF PendingRedeem, Accounts

LEMMA EmptyRequests == NoDeposit \in PendingDeposit /\ NoRedeem \in PendingRedeem
BY CountsAssumption DEF NoDeposit, NoRedeem, PendingDeposit, PendingRedeem

\* The types of what a queue entry or a wallet is replaced by.
LEMMA DepositQueueUpdate ==
    ASSUME TypeOK, NEW id \in RequestIds, NEW d \in PendingDeposit,
           d.who # 0 => d.indexId \in Indices,
           pendingDeposits' = [pendingDeposits EXCEPT ![id] = d]
    PROVE  /\ pendingDeposits' \in [RequestIds -> PendingDeposit]
           /\ \A i \in RequestIds : pendingDeposits'[i].who # 0
                                       => pendingDeposits'[i].indexId \in Indices
BY DEF TypeOK

LEMMA RedeemQueueUpdate ==
    ASSUME TypeOK, NEW id \in RequestIds, NEW r \in PendingRedeem,
           r.who # 0 => r.indexId \in Indices,
           pendingRedeems' = [pendingRedeems EXCEPT ![id] = r]
    PROVE  /\ pendingRedeems' \in [RequestIds -> PendingRedeem]
           /\ \A i \in RequestIds : pendingRedeems'[i].who # 0
                                       => pendingRedeems'[i].indexId \in Indices
BY DEF TypeOK

LEMMA NextIdTaken ==
    ASSUME TypeOK, nextRequestId <= MaxRequestId,
           nextRequestId' = nextRequestId + 1
    PROVE  /\ nextRequestId \in RequestIds
           /\ nextRequestId' \in 1..(MaxRequestId + 1)
BY CountsAssumption DEF TypeOK, RequestIds

-----------------------------------------------------------------------------
(* Type correctness is preserved, one lemma per function of the contract *)

LEMMA TypeInit == Init => TypeOK
<1> SUFFICES ASSUME Init PROVE TypeOK
  OBVIOUS
<1>1. signer \in Accounts /\ keeper \in Accounts /\ guardian \in Accounts
      /\ paused \in BOOLEAN
  BY InputsAssumption DEF Init
<1>2. vaults \in [Indices -> IndexVault]
  BY CountsAssumption DEF Init, EmptyVault, IndexVault
<1>3. positions \in [Indices -> [Accounts -> Position]]
  BY DEF Init, Position
<1>4. /\ pendingDeposits \in [RequestIds -> PendingDeposit]
      /\ pendingRedeems \in [RequestIds -> PendingRedeem]
  BY EmptyRequests DEF Init
<1>5. \A id \in RequestIds : pendingDeposits[id].who = 0 /\ pendingRedeems[id].who = 0
  BY DEF Init, NoRedeem, NoDeposit
<1>6. nextRequestId \in 1..(MaxRequestId + 1) /\ mgmtAccruedOnDay \in [Indices -> SUBSET Nat]
  BY CountsAssumption DEF Init
<1>7. wallet \in [Accounts -> Nat] /\ held \in Nat /\ now \in Nat
  BY InputsAssumption DEF Init
<1> QED
  BY <1>1, <1>2, <1>3, <1>4, <1>5, <1>6, <1>7 DEF TypeOK

LEMMA TypeAdmin ==
    ASSUME TypeOK, Admin
    PROVE  TypeOK'
<1>1. UNCHANGED <<ledger, queue, token, now>>
  BY DEF Admin, SetSigner, SetKeeper, SetGuardian, SetPaused
<1>2. /\ signer' \in Accounts /\ keeper' \in Accounts /\ guardian' \in Accounts
      /\ paused' \in BOOLEAN
  BY InputsAssumption DEF TypeOK, Admin, SetSigner, SetKeeper, SetGuardian, SetPaused
<1> QED
  BY <1>1, <1>2 DEF TypeOK, ledger, queue, token

LEMMA TypeUpdateNav ==
    ASSUME TypeOK, NEW c, NEW idx \in Indices, NEW nav \in Nat, NEW at, NEW by,
           UpdateNav(c, idx, nav, at, by)
    PROVE  TypeOK'
<1>1. vaults' \in [Indices -> IndexVault]
  BY VaultWith, VaultsUpdate DEF TypeOK, UpdateNav
<1> QED
  BY <1>1 DEF TypeOK, UpdateNav, roles, queue, token

LEMMA TypeOpenVault ==
    ASSUME TypeOK, NEW c, NEW idx \in Indices, NEW creator \in Accounts,
           OpenVault(c, idx, creator)
    PROVE  TypeOK'
<1>1. creator \in 0..NumAccounts
  BY DEF Accounts
<1>2. vaults' \in [Indices -> IndexVault]
  BY <1>1, VaultOpened, VaultsUpdate DEF TypeOK, OpenVault
<1> QED
  BY <1>2 DEF TypeOK, OpenVault, roles, queue, token

LEMMA TypeRequestDeposit ==
    ASSUME TypeOK, NEW who \in Accounts, NEW idx \in Indices,
           NEW amount \in Nat, NEW min \in Nat,
           RequestDeposit(who, idx, amount, min)
    PROVE  TypeOK'
<1>1. wallet' \in [Accounts -> Nat] /\ held' \in Nat
  BY DEF TypeOK, RequestDeposit
<1>2. vaults' \in [Indices -> IndexVault]
  <2>1. vaults[idx] \in IndexVault /\ vaults[idx].usdcReserve + amount \in Nat
    BY VaultFields DEF TypeOK
  <2>2. AddReserve(vaults[idx], amount) \in IndexVault
    BY <2>1, VaultWith DEF AddReserve
  <2>3. vaults' = [vaults EXCEPT ![idx] = AddReserve(vaults[idx], amount)]
    BY DEF RequestDeposit
  <2> QED
    BY <2>2, <2>3, VaultsUpdate DEF TypeOK
<1>3. nextRequestId \in RequestIds /\ nextRequestId' \in 1..(MaxRequestId + 1)
  BY NextIdTaken DEF RequestDeposit
<1>4. [indexId |-> idx, who |-> who, usdcIn |-> amount, minSharesOut |-> min,
       pulled |-> FALSE] \in PendingDeposit
  BY DEF PendingDeposit, Accounts, Indices
<1>5. /\ pendingDeposits' \in [RequestIds -> PendingDeposit]
      /\ \A i \in RequestIds : pendingDeposits'[i].who # 0
                                  => pendingDeposits'[i].indexId \in Indices
  BY <1>3, <1>4, DepositQueueUpdate DEF RequestDeposit
<1> QED
  BY <1>1, <1>2, <1>3, <1>5 DEF TypeOK, RequestDeposit, roles

LEMMA TypePullForDeposit ==
    ASSUME TypeOK, NEW c \in Accounts, NEW id \in RequestIds, PullForDeposit(c, id)
    PROVE  TypeOK'
<1> DEFINE d == pendingDeposits[id]
<1>1. /\ d.indexId \in Indices /\ d.usdcIn \in Nat
      /\ vaults[d.indexId] \in IndexVault
      /\ d \in PendingDeposit
  BY LiveDeposit DEF PullForDeposit, InEscrow, TypeOK
<1>2. wallet' \in [Accounts -> Nat] /\ held' \in Nat
  BY <1>1 DEF TypeOK, PullForDeposit
<1>3. vaults' \in [Indices -> IndexVault]
  <2>1. vaults[d.indexId].usdcReserve - d.usdcIn \in Nat
    BY <1>1, VaultFields DEF PullForDeposit
  <2>2. TakeReserve(vaults[d.indexId], d.usdcIn) \in IndexVault
    BY <1>1, <2>1, VaultWith DEF TakeReserve
  <2>3. vaults' = [vaults EXCEPT ![d.indexId] =
                     TakeReserve(vaults[d.indexId], d.usdcIn)]
    BY DEF PullForDeposit
  <2> HIDE DEF d
  <2> QED
    BY <1>1, <2>2, <2>3, VaultsUpdate DEF TypeOK
<1>4. [d EXCEPT !.pulled = TRUE] \in PendingDeposit
  BY <1>1 DEF PendingDeposit
<1>5. [d EXCEPT !.pulled = TRUE].indexId \in Indices
  BY <1>1 DEF PendingDeposit
<1>6. pendingDeposits' = [pendingDeposits EXCEPT ![id] = [d EXCEPT !.pulled = TRUE]]
  BY DEF PullForDeposit
<1>7. /\ pendingDeposits' \in [RequestIds -> PendingDeposit]
      /\ \A i \in RequestIds : pendingDeposits'[i].who # 0
                                  => pendingDeposits'[i].indexId \in Indices
  BY <1>4, <1>5, <1>6, DepositQueueUpdate
<1> QED
  BY <1>2, <1>3, <1>7 DEF TypeOK, PullForDeposit, roles

LEMMA DepositClosed ==
    ASSUME TypeOK, NEW id \in RequestIds,
           pendingDeposits' = [pendingDeposits EXCEPT ![id] = NoDeposit]
    PROVE  /\ pendingDeposits' \in [RequestIds -> PendingDeposit]
           /\ \A i \in RequestIds : pendingDeposits'[i].who # 0
                                       => pendingDeposits'[i].indexId \in Indices
BY EmptyRequests DEF NoDeposit, TypeOK

LEMMA SettledShares ==
    ASSUME TypeOK, NEW c, NEW id \in RequestIds, NEW nav \in Nat,
           NEW value \in Nat, NEW at, NEW by,
           SettleDeposit(c, id, nav, value, at, by)
    PROVE  SharesFor(value, nav) \in Nat
BY SharesForNat DEF SettleDeposit, NavOK, NavSigOK

LEMMA MintType ==
    ASSUME NEW v \in IndexVault, NEW shares \in Nat, NEW nav \in Nat
    PROVE  Mint(v, shares, nav) \in IndexVault
<1>1. v.totalShares + shares + (IF v.totalShares = 0 THEN MIN_SHARES ELSE 0) \in Nat
  BY VaultFields, ScaleAssumption
<1> QED
  BY <1>1, VaultWithTwo DEF Mint

LEMMA TypeSettleDeposit ==
    ASSUME TypeOK, NEW c, NEW id \in RequestIds, NEW nav \in Nat,
           NEW value \in Nat, NEW at, NEW by,
           SettleDeposit(c, id, nav, value, at, by)
    PROVE  TypeOK'
<1> DEFINE d == pendingDeposits[id]
           v == vaults[d.indexId]
           shares == SharesFor(value, nav)
<1>1. d.indexId \in Indices /\ d.who \in Accounts /\ v \in IndexVault
  BY LiveDeposit DEF SettleDeposit, InFlight
<1>2. shares \in Nat
  BY SettledShares
<1>3. vaults' = [vaults EXCEPT ![d.indexId] = Mint(v, shares, nav)]
  BY DEF SettleDeposit
<1>4. vaults' \in [Indices -> IndexVault]
  <2> HIDE DEF shares
  <2>1. Mint(v, shares, nav) \in IndexVault
    BY <1>1, <1>2, MintType
  <2> HIDE DEF v
  <2> QED
    BY <1>1, <1>3, <2>1, VaultsUpdate DEF TypeOK
<1>5. positions' \in [Indices -> [Accounts -> Position]]
  <2>1. positions' = [positions EXCEPT ![d.indexId][d.who] =
                         Credit(positions[d.indexId][d.who], shares, nav)]
    BY DEF SettleDeposit
  <2> HIDE DEF shares
  <2>2. Credit(positions[d.indexId][d.who], shares, nav) \in Position
    BY <1>1, <1>2 DEF Credit, Position, TypeOK
  <2> HIDE DEF d
  <2> QED
    BY <1>1, <2>1, <2>2 DEF TypeOK
<1>6. /\ pendingDeposits' \in [RequestIds -> PendingDeposit]
      /\ \A i \in RequestIds : pendingDeposits'[i].who # 0
                                  => pendingDeposits'[i].indexId \in Indices
  BY DepositClosed DEF SettleDeposit
<1> QED
  BY <1>4, <1>5, <1>6 DEF TypeOK, SettleDeposit, roles, token

LEMMA TypeCancelPulledDeposit ==
    ASSUME TypeOK, NEW c, NEW id \in RequestIds, NEW amount \in Nat,
           CancelPulledDeposit(c, id, amount)
    PROVE  TypeOK'
<1>1. wallet' \in [Accounts -> Nat]
  BY DEF TypeOK, CancelPulledDeposit
<1>2. /\ pendingDeposits' \in [RequestIds -> PendingDeposit]
      /\ \A i \in RequestIds : pendingDeposits'[i].who # 0
                                  => pendingDeposits'[i].indexId \in Indices
  BY DepositClosed DEF CancelPulledDeposit
<1> QED
  BY <1>1, <1>2 DEF TypeOK, CancelPulledDeposit, roles, ledger

LEMMA TypeCancelHeldDeposit ==
    ASSUME TypeOK, NEW c, NEW id \in RequestIds, CancelHeldDeposit(c, id)
    PROVE  TypeOK'
<1> DEFINE d == pendingDeposits[id]
<1>1. /\ d.indexId \in Indices /\ d.usdcIn \in Nat /\ d.who \in Accounts
      /\ vaults[d.indexId] \in IndexVault
  BY LiveDeposit DEF CancelHeldDeposit, InEscrow
<1>2. wallet' \in [Accounts -> Nat] /\ held' \in Nat
  BY <1>1 DEF TypeOK, CancelHeldDeposit
<1>3. vaults' \in [Indices -> IndexVault]
  <2>1. vaults[d.indexId].usdcReserve - d.usdcIn \in Nat
    BY <1>1, VaultFields DEF CancelHeldDeposit
  <2>2. TakeReserve(vaults[d.indexId], d.usdcIn) \in IndexVault
    BY <1>1, <2>1, VaultWith DEF TakeReserve
  <2>3. vaults' = [vaults EXCEPT ![d.indexId] =
                     TakeReserve(vaults[d.indexId], d.usdcIn)]
    BY DEF CancelHeldDeposit
  <2> HIDE DEF d
  <2> QED
    BY <1>1, <2>2, <2>3, VaultsUpdate DEF TypeOK
<1>4. /\ pendingDeposits' \in [RequestIds -> PendingDeposit]
      /\ \A i \in RequestIds : pendingDeposits'[i].who # 0
                                  => pendingDeposits'[i].indexId \in Indices
  BY DepositClosed DEF CancelHeldDeposit
<1> QED
  BY <1>2, <1>3, <1>4 DEF TypeOK, CancelHeldDeposit, roles

LEMMA TypeAccrueMgmt ==
    ASSUME TypeOK, AccrualClockFollowsDays, NEW c, NEW idx \in Indices,
           AccrueMgmt(c, idx)
    PROVE  TypeOK'
<1> DEFINE v == vaults[idx]
           fee == MgmtFeeShares(v.totalShares, now - v.lastMgmtAccrualAt)
<1>1. v \in IndexVault /\ now \in Nat
  BY DEF TypeOK
<1>2. now - v.lastMgmtAccrualAt \in Nat /\ v.totalShares \in Nat
      /\ v.creatorFeeShares \in Nat
  BY <1>1, VaultFields DEF AccrualClockFollowsDays
<1>3. fee \in Nat
  BY <1>2, MgmtFeeSharesNat
<1>4. vaults' \in [Indices -> IndexVault]
  <2>1. vaults' = [vaults EXCEPT ![idx] = Charged(v, fee, now)]
    BY DEF AccrueMgmt
  <2> HIDE DEF fee
  <2>4. v.creatorFeeShares + fee \in Nat /\ v.totalShares + fee \in Nat
    BY <1>2, <1>3
  <2>2. MintFee(v, fee) \in IndexVault
    BY <1>1, <2>4, VaultWithTwo DEF MintFee
  <2>3. Charged(v, fee, now) \in IndexVault
    BY <1>1, <2>2, VaultWith DEF Charged
  <2> HIDE DEF v
  <2> QED
    BY <2>1, <2>3, VaultsUpdate DEF TypeOK
<1>5. mgmtAccruedOnDay' \in [Indices -> SUBSET Nat]
  <2>1. now \div DAY \in Nat
    BY <1>1, ScaleAssumption, DivNat
  <2> QED
    BY <2>1 DEF TypeOK, AccrueMgmt
<1> QED
  BY <1>4, <1>5 DEF TypeOK, AccrueMgmt, roles, queue, token

LEMMA TypeRequestRedeem ==
    ASSUME TypeOK, NEW who \in Accounts, NEW idx \in Indices,
           NEW shares \in Nat, NEW min \in Nat,
           RequestRedeem(who, idx, shares, min)
    PROVE  TypeOK'
<1> DEFINE p == positions[idx][who]
<1>1. p \in Position
  BY DEF TypeOK
<1>2. Debit(p, shares) \in Position
  BY <1>1 DEF Debit, Position, RequestRedeem
<1>3. positions' \in [Indices -> [Accounts -> Position]]
  <2>1. positions' = [positions EXCEPT ![idx][who] = Debit(p, shares)]
    BY DEF RequestRedeem
  <2> HIDE DEF p
  <2> QED
    BY <1>2, <2>1 DEF TypeOK
<1>4. nextRequestId \in RequestIds /\ nextRequestId' \in 1..(MaxRequestId + 1)
  BY NextIdTaken DEF RequestRedeem
<1>5. [indexId |-> idx, who |-> who, shares |-> shares, hwmNav |-> p.hwmNav,
       minUsdcOut |-> min] \in PendingRedeem
  BY <1>1 DEF PendingRedeem, Position, Accounts, Indices
<1>6. /\ pendingRedeems' \in [RequestIds -> PendingRedeem]
      /\ \A i \in RequestIds : pendingRedeems'[i].who # 0
                                  => pendingRedeems'[i].indexId \in Indices
  BY <1>4, <1>5, RedeemQueueUpdate DEF RequestRedeem
<1> QED
  BY <1>3, <1>4, <1>6 DEF TypeOK, RequestRedeem, roles, token

LEMMA TypeSettleRedeem ==
    ASSUME TypeOK, NEW c, NEW id \in RequestIds, NEW received \in Nat,
           NEW nav \in Nat, NEW at, NEW by,
           SettleRedeem(c, id, received, nav, at, by)
    PROVE  TypeOK'
<1> DEFINE r == pendingRedeems[id]
           v == vaults[r.indexId]
           fee == PerfFeeUsdc(r, nav, received)
           feeShares == SharesFor(fee, nav)
<1>1. /\ r \in PendingRedeem /\ r.indexId \in Indices /\ r.shares \in Nat
      /\ v \in IndexVault
  BY LiveRedeem DEF SettleRedeem
<1>2. fee \in Nat /\ fee <= received
  BY <1>1, PerfFeeNat
<1>3. feeShares \in Nat
  <2> HIDE DEF fee
  <2> QED
    BY <1>2, SharesForNat DEF SettleRedeem, NavSigOK
<1>4. /\ vaults' = [vaults EXCEPT ![r.indexId] = Burn(v, r.shares, fee, feeShares)]
      /\ r.shares <= v.totalShares + feeShares
      /\ wallet' = [a \in Accounts |->
                       wallet[a] - (IF a = keeper THEN received ELSE 0)
                                 + (IF a = r.who THEN received - fee ELSE 0)]
      /\ received <= wallet[keeper]
      /\ held' = held + fee
      /\ pendingRedeems' = [pendingRedeems EXCEPT ![id] = NoRedeem]
  BY DEF SettleRedeem
<1>5. UNCHANGED <<roles, positions, pendingDeposits, nextRequestId,
                  mgmtAccruedOnDay, now>>
  BY DEF SettleRedeem
<1> HIDE DEF fee, feeShares
<1>6. vaults' \in [Indices -> IndexVault]
  <2>1. /\ v.totalShares \in Nat /\ v.creatorFeeShares \in Nat
        /\ v.usdcReserve \in Nat
    BY <1>1, VaultFields
  <2>6. v.creatorFeeShares + feeShares \in Nat /\ v.totalShares + feeShares \in Nat
    BY <1>3, <2>1
  <2>2. MintFee(v, feeShares) \in IndexVault
    BY <1>1, <2>6, VaultWithTwo DEF MintFee
  <2>3. /\ MintFee(v, feeShares).totalShares = v.totalShares + feeShares
        /\ MintFee(v, feeShares).usdcReserve = v.usdcReserve
    BY <1>1 DEF MintFee, IndexVault
  <2>4. /\ MintFee(v, feeShares).totalShares - r.shares \in Nat
        /\ MintFee(v, feeShares).usdcReserve + fee \in Nat
    BY <1>1, <1>2, <1>3, <1>4, <2>1, <2>3
  <2>5. Burn(v, r.shares, fee, feeShares) \in IndexVault
    BY <2>2, <2>4, VaultWithTwo DEF Burn
  <2> QED
    BY <1>1, <1>4, <2>5, VaultsUpdate DEF TypeOK
<1>7. wallet' \in [Accounts -> Nat] /\ held' \in Nat
  BY <1>2, <1>4 DEF TypeOK
<1>8. /\ pendingRedeems' \in [RequestIds -> PendingRedeem]
      /\ \A i \in RequestIds : pendingRedeems'[i].who # 0
                                  => pendingRedeems'[i].indexId \in Indices
  BY <1>4, EmptyRequests DEF NoRedeem, TypeOK
<1> QED
  BY <1>5, <1>6, <1>7, <1>8 DEF TypeOK, roles

LEMMA TypeClaimFees ==
    ASSUME TypeOK, NEW c, NEW idx \in Indices, ClaimFees(c, idx)
    PROVE  TypeOK'
<1> DEFINE v == vaults[idx]
<1>1. v \in IndexVault
  BY DEF TypeOK
<1>2. vaults' \in [Indices -> IndexVault]
  BY <1>1, VaultWith, VaultsUpdate DEF TypeOK, ClaimFees, Claimed
<1>3. nextRequestId \in RequestIds /\ nextRequestId' \in 1..(MaxRequestId + 1)
  BY NextIdTaken DEF ClaimFees
<1>4. [indexId |-> idx, who |-> v.creator, shares |-> v.creatorFeeShares,
       hwmNav |-> 0, minUsdcOut |-> 0] \in PendingRedeem
  BY <1>1, VaultFields DEF PendingRedeem, Indices
<1>5. /\ pendingRedeems' \in [RequestIds -> PendingRedeem]
      /\ \A i \in RequestIds : pendingRedeems'[i].who # 0
                                  => pendingRedeems'[i].indexId \in Indices
  BY <1>3, <1>4, RedeemQueueUpdate DEF ClaimFees
<1> QED
  BY <1>2, <1>3, <1>5 DEF TypeOK, ClaimFees, roles, token

-----------------------------------------------------------------------------
(* The fee clock *)

LEMMA DivFloor ==
    ASSUME NEW a \in Nat, NEW b \in Nat \ {0}
    PROVE  (a \div b) * b <= a
OBVIOUS

\* A step that neither touches a vault's clock nor its charged days, and does
\* not move time back, keeps the clock invariant.
LEMMA ClockUntouched ==
    ASSUME TypeOK, AccrualClockFollowsDays, now' \in Nat, now <= now',
           mgmtAccruedOnDay' = mgmtAccruedOnDay,
           \A i \in Indices : vaults'[i].lastMgmtAccrualAt
                                 = vaults[i].lastMgmtAccrualAt
    PROVE  AccrualClockFollowsDays'
<1>1. ASSUME NEW i \in Indices
      PROVE  /\ vaults'[i].lastMgmtAccrualAt <= now'
             /\ \A day \in mgmtAccruedOnDay'[i] :
                   day * DAY <= vaults'[i].lastMgmtAccrualAt
  <2>1. vaults[i].lastMgmtAccrualAt \in Nat /\ now \in Nat
    BY VaultFields DEF TypeOK
  <2> QED
    BY <2>1 DEF AccrualClockFollowsDays
<1> QED
  BY <1>1 DEF AccrualClockFollowsDays

\* Setting the clock of one vault to the current time keeps the invariant if
\* the days charged so far are not in the future.
LEMMA ClockSet ==
    ASSUME TypeOK, AccrualClockFollowsDays, now' = now, NEW idx \in Indices,
           NEW days,
           mgmtAccruedOnDay' = [mgmtAccruedOnDay EXCEPT ![idx] = days],
           \A day \in days : day * DAY <= now,
           \A i \in Indices : vaults'[i].lastMgmtAccrualAt
              = IF i = idx THEN now ELSE vaults[i].lastMgmtAccrualAt
    PROVE  AccrualClockFollowsDays'
<1>1. ASSUME NEW i \in Indices
      PROVE  /\ vaults'[i].lastMgmtAccrualAt <= now'
             /\ \A day \in mgmtAccruedOnDay'[i] :
                   day * DAY <= vaults'[i].lastMgmtAccrualAt
  <2>1. now \in Nat /\ mgmtAccruedOnDay'[i] = IF i = idx THEN days ELSE mgmtAccruedOnDay[i]
    BY DEF TypeOK
  <2>2. CASE i = idx
    BY <2>1, <2>2
  <2>3. CASE i # idx
    BY <2>1, <2>3 DEF AccrualClockFollowsDays
  <2> QED
    BY <2>2, <2>3
<1> QED
  BY <1>1 DEF AccrualClockFollowsDays

LEMMA ClockAccrueMgmt ==
    ASSUME TypeOK, AccrualClockFollowsDays, NEW c, NEW idx \in Indices,
           AccrueMgmt(c, idx)
    PROVE  AccrualClockFollowsDays'
<1> DEFINE v == vaults[idx]
           fee == MgmtFeeShares(v.totalShares, now - v.lastMgmtAccrualAt)
           day == now \div DAY
<1>1. /\ vaults' = [vaults EXCEPT ![idx] = Charged(v, fee, now)]
      /\ mgmtAccruedOnDay' =
            [mgmtAccruedOnDay EXCEPT ![idx] = mgmtAccruedOnDay[idx] \cup {day}]
      /\ now' = now
  BY DEF AccrueMgmt
<1>2. v \in IndexVault /\ now \in Nat /\ v.lastMgmtAccrualAt \in Nat
  BY VaultFields DEF TypeOK
<1>3. Charged(v, fee, now).lastMgmtAccrualAt = now
  BY <1>2 DEF Charged, MintFee, IndexVault
<1>4. \A i \in Indices : vaults'[i].lastMgmtAccrualAt
              = IF i = idx THEN now ELSE vaults[i].lastMgmtAccrualAt
  <2> HIDE DEF fee, v
  <2> QED
    BY <1>1, <1>3 DEF TypeOK
<1>5. day * DAY <= now
  BY <1>2, ScaleAssumption, DivFloor
<1>6. \A d \in mgmtAccruedOnDay[idx] : d * DAY <= now
  <2>1. \A d \in mgmtAccruedOnDay[idx] : d \in Nat
    BY DEF TypeOK
  <2>2. \A d \in mgmtAccruedOnDay[idx] : d * DAY <= v.lastMgmtAccrualAt
    BY DEF AccrualClockFollowsDays
  <2>3. v.lastMgmtAccrualAt <= now
    BY DEF AccrualClockFollowsDays
  <2>4. \A d \in Nat : d * DAY \in Nat
    BY ScaleAssumption, ProductNat
  <2> HIDE DEF v
  <2> QED
    BY <1>2, <2>1, <2>2, <2>3, <2>4
<1>7. \A d \in mgmtAccruedOnDay[idx] \cup {day} : d * DAY <= now
  BY <1>5, <1>6
<1> HIDE DEF day
<1> QED
  BY <1>1, <1>4, <1>7, ClockSet

LEMMA ClockOpenVault ==
    ASSUME TypeOK, AccrualClockFollowsDays, NEW c, NEW idx \in Indices,
           NEW creator, OpenVault(c, idx, creator)
    PROVE  AccrualClockFollowsDays'
<1> DEFINE v == vaults[idx]
<1>1. /\ mgmtAccruedOnDay' = [mgmtAccruedOnDay EXCEPT ![idx] = mgmtAccruedOnDay[idx]]
      /\ now' = now
  BY DEF OpenVault, TypeOK
<1>2. \A i \in Indices : vaults'[i].lastMgmtAccrualAt
              = IF i = idx THEN now ELSE vaults[i].lastMgmtAccrualAt
  BY DEF OpenVault, TypeOK, IndexVault
<1>3. v.lastMgmtAccrualAt \in Nat /\ now \in Nat /\ v.lastMgmtAccrualAt <= now
  BY VaultFields DEF TypeOK, AccrualClockFollowsDays
<1>4. \A d \in mgmtAccruedOnDay[idx] : d \in Nat /\ d * DAY <= v.lastMgmtAccrualAt
  BY DEF AccrualClockFollowsDays, TypeOK
<1>5. \A d \in Nat : d * DAY \in Nat
  BY ScaleAssumption, ProductNat
<1>6. \A d \in mgmtAccruedOnDay[idx] : d * DAY <= now
  <2> HIDE DEF v
  <2> QED
    BY <1>3, <1>4, <1>5
<1> QED
  BY <1>1, <1>2, <1>6, ClockSet

\* Replacing one vault by one with the same clock keeps the invariant.
LEMMA ClockOneVault ==
    ASSUME TypeOK, AccrualClockFollowsDays, UNCHANGED <<now, mgmtAccruedOnDay>>,
           NEW idx \in Indices, NEW w,
           w.lastMgmtAccrualAt = vaults[idx].lastMgmtAccrualAt,
           vaults' = [vaults EXCEPT ![idx] = w]
    PROVE  AccrualClockFollowsDays'
<1>1. \A i \in Indices : vaults'[i].lastMgmtAccrualAt = vaults[i].lastMgmtAccrualAt
  BY DEF TypeOK
<1>2. now' \in Nat /\ now <= now'
  BY DEF TypeOK
<1> QED
  BY <1>1, <1>2, ClockUntouched

\* What the other functions store in a vault has the clock of the old one.
LEMMA SameClock ==
    ASSUME NEW v \in IndexVault, NEW m, NEW n, NEW k
    PROVE  /\ [v EXCEPT !.lastNav = m].lastMgmtAccrualAt = v.lastMgmtAccrualAt
           /\ [v EXCEPT !.creatorFeeShares = m].lastMgmtAccrualAt
                 = v.lastMgmtAccrualAt
           /\ AddReserve(v, m).lastMgmtAccrualAt = v.lastMgmtAccrualAt
           /\ TakeReserve(v, m).lastMgmtAccrualAt = v.lastMgmtAccrualAt
           /\ Mint(v, m, n).lastMgmtAccrualAt = v.lastMgmtAccrualAt
           /\ Burn(v, m, n, k).lastMgmtAccrualAt = v.lastMgmtAccrualAt
BY DEF IndexVault, AddReserve, TakeReserve, Mint, Burn, MintFee

LEMMA ClockUnchanged ==
    ASSUME TypeOK, AccrualClockFollowsDays, UNCHANGED ledger, now' \in Nat,
           now <= now'
    PROVE  AccrualClockFollowsDays'
BY ClockUntouched DEF ledger

-----------------------------------------------------------------------------
(* The step and the theorems *)

VaultInv == TypeOK /\ AccrualClockFollowsDays

LEMMA StepAdmin == ASSUME VaultInv, Admin PROVE VaultInv'
<1>1. UNCHANGED <<ledger, now>>
  BY DEF Admin, SetSigner, SetKeeper, SetGuardian, SetPaused
<1>2. now' \in Nat /\ now <= now'
  BY <1>1 DEF VaultInv, TypeOK
<1> QED
  BY <1>1, <1>2, TypeAdmin, ClockUnchanged DEF VaultInv

LEMMA StepNextBlock == ASSUME VaultInv, NextBlock PROVE VaultInv'
<1>1. now' \in Nat /\ now <= now' /\ UNCHANGED ledger
  BY DEF VaultInv, TypeOK, NextBlock
<1>2. TypeOK'
  BY DEF VaultInv, TypeOK, NextBlock, roles, ledger, queue, token
<1> QED
  BY <1>1, <1>2, ClockUnchanged DEF VaultInv

LEMMA StepStutter == ASSUME VaultInv, UNCHANGED vars PROVE VaultInv'
<1>1. TypeOK'
  BY DEF VaultInv, TypeOK, vars, roles, ledger, queue, token
<1>2. now' \in Nat /\ now <= now' /\ UNCHANGED ledger
  BY DEF VaultInv, TypeOK, vars
<1> QED
  BY <1>1, <1>2, ClockUnchanged DEF VaultInv

LEMMA StepAttested == ASSUME VaultInv, AnyAttested PROVE VaultInv'
<1>1. PICK c \in Accounts, nav \in Nat, at \in Nat, by \in Accounts :
        \/ \E idx \in Indices : UpdateNav(c, idx, nav, at, by)
        \/ \E id \in RequestIds, amount \in Nat :
              \/ SettleDeposit(c, id, nav, amount, at, by)
              \/ SettleRedeem(c, id, amount, nav, at, by)
  BY DEF AnyAttested
<1>2. nav \in Nat
  BY InputsAssumption
<1>3. ASSUME NEW idx \in Indices, UpdateNav(c, idx, nav, at, by)
      PROVE  VaultInv'
  <2>1. vaults' = [vaults EXCEPT ![idx] = [vaults[idx] EXCEPT !.lastNav = nav]]
        /\ UNCHANGED <<now, mgmtAccruedOnDay>>
    BY <1>3 DEF UpdateNav
  <2>2. vaults[idx] \in IndexVault
    BY DEF VaultInv, TypeOK
  <2>3. AccrualClockFollowsDays'
    BY <2>1, <2>2, SameClock, ClockOneVault DEF VaultInv
  <2> QED
    BY <1>2, <1>3, <2>3, TypeUpdateNav DEF VaultInv
<1>4. ASSUME NEW id \in RequestIds, NEW amount \in Nat,
             SettleDeposit(c, id, nav, amount, at, by)
      PROVE  VaultInv'
  <2> DEFINE idx == pendingDeposits[id].indexId
             shares == SharesFor(amount, nav)
  <2>1. amount \in Nat /\ idx \in Indices /\ vaults[idx] \in IndexVault
    BY <1>4, InputsAssumption, LiveDeposit DEF VaultInv, SettleDeposit, InFlight
  <2>2. vaults' = [vaults EXCEPT ![idx] = Mint(vaults[idx], shares, nav)]
        /\ UNCHANGED <<now, mgmtAccruedOnDay>>
    BY <1>4 DEF SettleDeposit
  <2>3. AccrualClockFollowsDays'
    <3> HIDE DEF idx, shares
    <3>1. Mint(vaults[idx], shares, nav).lastMgmtAccrualAt
             = vaults[idx].lastMgmtAccrualAt
      BY <2>1, SameClock
    <3> QED BY <2>1, <2>2, <3>1, ClockOneVault DEF VaultInv
  <2> QED
    BY <1>2, <1>4, <2>1, <2>3, TypeSettleDeposit DEF VaultInv
<1>5. ASSUME NEW id \in RequestIds, NEW amount \in Nat,
             SettleRedeem(c, id, amount, nav, at, by)
      PROVE  VaultInv'
  <2> DEFINE r == pendingRedeems[id]
             idx == r.indexId
             fee == PerfFeeUsdc(r, nav, amount)
             feeShares == SharesFor(fee, nav)
  <2>1. amount \in Nat /\ idx \in Indices /\ vaults[idx] \in IndexVault
    BY <1>5, InputsAssumption, LiveRedeem DEF VaultInv, SettleRedeem
  <2>2. vaults' = [vaults EXCEPT ![idx] = Burn(vaults[idx], r.shares, fee, feeShares)]
        /\ UNCHANGED <<now, mgmtAccruedOnDay>>
    BY <1>5 DEF SettleRedeem
  <2>3. AccrualClockFollowsDays'
    <3> HIDE DEF idx, fee, feeShares
    <3>1. Burn(vaults[idx], r.shares, fee, feeShares).lastMgmtAccrualAt
             = vaults[idx].lastMgmtAccrualAt
      BY <2>1, SameClock
    <3> QED BY <2>1, <2>2, <3>1, ClockOneVault DEF VaultInv
  <2> QED
    BY <1>2, <1>5, <2>1, <2>3, TypeSettleRedeem DEF VaultInv
<1> QED
  BY <1>1, <1>3, <1>4, <1>5

LEMMA StepKeeperCalls == ASSUME VaultInv, AnyKeeperCalls PROVE VaultInv'
<1>1. PICK c \in Accounts :
        \/ \E idx \in Indices, creator \in Accounts : OpenVault(c, idx, creator)
        \/ \E idx \in Indices : AccrueMgmt(c, idx)
        \/ \E id \in RequestIds :
              \/ PullForDeposit(c, id)
              \/ CancelHeldDeposit(c, id)
              \/ \E amount \in Nat : CancelPulledDeposit(c, id, amount)
  BY DEF AnyKeeperCalls
<1>2. ASSUME NEW idx \in Indices, NEW creator \in Accounts,
             OpenVault(c, idx, creator)
      PROVE  VaultInv'
  BY <1>2, TypeOpenVault, ClockOpenVault DEF VaultInv
<1>3. ASSUME NEW idx \in Indices, AccrueMgmt(c, idx) PROVE VaultInv'
  BY <1>3, TypeAccrueMgmt, ClockAccrueMgmt DEF VaultInv
<1>4. ASSUME NEW id \in RequestIds, PullForDeposit(c, id) PROVE VaultInv'
  <2> DEFINE d == pendingDeposits[id]
  <2>1. d.indexId \in Indices /\ vaults[d.indexId] \in IndexVault
    BY <1>4, LiveDeposit DEF VaultInv, PullForDeposit, InEscrow
  <2>2. vaults' = [vaults EXCEPT ![d.indexId] =
                     TakeReserve(vaults[d.indexId], d.usdcIn)]
        /\ UNCHANGED <<now, mgmtAccruedOnDay>>
    BY <1>4 DEF PullForDeposit
  <2>3. AccrualClockFollowsDays'
    <3> HIDE DEF d
    <3> QED BY <2>1, <2>2, SameClock, ClockOneVault DEF VaultInv
  <2> QED
    BY <1>4, <2>3, TypePullForDeposit DEF VaultInv
<1>5. ASSUME NEW id \in RequestIds, CancelHeldDeposit(c, id) PROVE VaultInv'
  <2> DEFINE d == pendingDeposits[id]
  <2>1. d.indexId \in Indices /\ vaults[d.indexId] \in IndexVault
    BY <1>5, LiveDeposit DEF VaultInv, CancelHeldDeposit, InEscrow
  <2>2. vaults' = [vaults EXCEPT ![d.indexId] =
                     TakeReserve(vaults[d.indexId], d.usdcIn)]
        /\ UNCHANGED <<now, mgmtAccruedOnDay>>
    BY <1>5 DEF CancelHeldDeposit
  <2>3. AccrualClockFollowsDays'
    <3> HIDE DEF d
    <3> QED BY <2>1, <2>2, SameClock, ClockOneVault DEF VaultInv
  <2> QED
    BY <1>5, <2>3, TypeCancelHeldDeposit DEF VaultInv
<1>6. ASSUME NEW id \in RequestIds, NEW amount \in Nat,
             CancelPulledDeposit(c, id, amount)
      PROVE  VaultInv'
  <2>1. UNCHANGED <<ledger, now>> /\ amount \in Nat
    BY <1>6, InputsAssumption DEF CancelPulledDeposit
  <2>2. now' \in Nat /\ now <= now'
    BY <2>1 DEF VaultInv, TypeOK
  <2> QED
    BY <1>6, <2>1, <2>2, TypeCancelPulledDeposit, ClockUnchanged DEF VaultInv
<1> QED
  BY <1>1, <1>2, <1>3, <1>4, <1>5, <1>6

LEMMA StepUserCalls == ASSUME VaultInv, AnyUserCalls PROVE VaultInv'
<1>1. PICK a \in Accounts, idx \in Indices :
        \/ \E amount \in Nat, min \in Nat :
              \/ RequestDeposit(a, idx, amount, min)
              \/ RequestRedeem(a, idx, amount, min)
        \/ ClaimFees(a, idx)
  BY DEF AnyUserCalls
<1>2. vaults[idx] \in IndexVault
  BY DEF VaultInv, TypeOK
<1>3. ASSUME NEW amount \in Nat, NEW min \in Nat,
             RequestDeposit(a, idx, amount, min)
      PROVE  VaultInv'
  <2>1. /\ vaults' = [vaults EXCEPT ![idx] = AddReserve(vaults[idx], amount)]
        /\ UNCHANGED <<now, mgmtAccruedOnDay>>
    BY <1>3 DEF RequestDeposit
  <2>2. AccrualClockFollowsDays'
    BY <1>2, <2>1, SameClock, ClockOneVault DEF VaultInv
  <2>3. amount \in Nat /\ min \in Nat
    BY InputsAssumption
  <2> QED
    BY <1>3, <2>2, <2>3, TypeRequestDeposit DEF VaultInv
<1>4. ASSUME NEW amount \in Nat, NEW min \in Nat,
             RequestRedeem(a, idx, amount, min)
      PROVE  VaultInv'
  <2>1. UNCHANGED <<vaults, mgmtAccruedOnDay, now>>
    BY <1>4 DEF RequestRedeem
  <2>2. now' \in Nat /\ now <= now'
    BY <2>1 DEF VaultInv, TypeOK
  <2>3. AccrualClockFollowsDays'
    BY <2>1, <2>2, ClockUntouched DEF VaultInv
  <2>4. amount \in Nat /\ min \in Nat
    BY InputsAssumption
  <2> QED
    BY <1>4, <2>3, <2>4, TypeRequestRedeem DEF VaultInv
<1>5. ASSUME ClaimFees(a, idx) PROVE VaultInv'
  <2>1. /\ vaults' = [vaults EXCEPT ![idx] = [vaults[idx] EXCEPT !.creatorFeeShares = 0]]
        /\ UNCHANGED <<now, mgmtAccruedOnDay>>
    BY <1>5 DEF ClaimFees, Claimed
  <2>2. AccrualClockFollowsDays'
    BY <1>2, <2>1, SameClock, ClockOneVault DEF VaultInv
  <2> QED
    BY <1>5, <2>2, TypeClaimFees DEF VaultInv
<1> QED
  BY <1>1, <1>3, <1>4, <1>5

LEMMA ClockInit == Init => AccrualClockFollowsDays
BY DEF Init, AccrualClockFollowsDays, EmptyVault

LEMMA VaultInvStep == VaultInv /\ [AnyCall]_vars => VaultInv'
BY StepAdmin, StepAttested, StepKeeperCalls, StepUserCalls, StepNextBlock,
   StepStutter DEF AnyCall

\* Whatever the vault's callers do, its storage keeps its types: no fee, share
\* or balance computation goes below zero and a live request always names an
\* index (HypeIndexVault.sol L39-59).  The subtractions of accrueMgmt (L262)
\* and settleRedeem (L315) are in the contract without a check of their own.
THEOREM TypeCorrect == Spec => []TypeOK
<1>1. Spec => []VaultInv
  BY TypeInit, ClockInit, VaultInvStep, CallsAreAny, PTL DEF Spec, VaultInv
<1> QED
  BY <1>1, PTL DEF VaultInv

\* The management fee is never charged twice for the same second: a vault's
\* fee clock is never in the future and never behind a day it was charged on
\* (accrueMgmt, HypeIndexVault.sol L255-271).
THEOREM FeeClockCorrect == Spec => []AccrualClockFollowsDays
<1>1. Spec => []VaultInv
  BY TypeInit, ClockInit, VaultInvStep, CallsAreAny, PTL DEF Spec, VaultInv
<1> QED
  BY <1>1, PTL DEF VaultInv

-----------------------------------------------------------------------------
(***************************************************************************)
(* Who owns the vault's shares: the request queue is well formed, what     *)
(* subscribers own has a high-water mark, and every share in totalShares   *)
(* has exactly one owner.  The three are proved together with the fact     *)
(* that only an open vault has a creator.                                  *)
(***************************************************************************)

\* A creator is set when a vault is opened, and it is opened once, so the
\* creator a fee claim was made by stays the creator (L174-181).
CreatorOpened == \A idx \in Indices : vaults[idx].creator # 0 => vaults[idx].active

-----------------------------------------------------------------------------
(* Sums over positions and open redemptions, as operators of the state's   *)
(* parts, so that they can be applied to the new state as well.            *)

SharesIn(pos, idx) == SumTo([a \in Accounts |-> pos[idx][a].shares], NumAccounts)
Redeeming(q, idx) ==
    SumTo([id \in RequestIds |-> IF q[id].indexId = idx THEN q[id].shares ELSE 0],
          MaxRequestId)
Owned(pos, v, q, idx) == SharesIn(pos, idx) + v[idx].creatorFeeShares + Redeeming(q, idx)
Balanced(pos, v, q, idx) ==
    \/ v[idx].totalShares = 0 /\ Owned(pos, v, q, idx) = 0
    \/ v[idx].totalShares = Owned(pos, v, q, idx) + MIN_SHARES

LEMMA BalancedNow ==
    ShareConservation <=>
        \A idx \in Indices : Balanced(positions, vaults, pendingRedeems, idx)
BY DEF ShareConservation, Balanced, Owned, OwnedShares, PositionShares,
       RedeemingShares, SharesIn, Redeeming

LEMMA BalancedNext ==
    ShareConservation' <=>
        \A idx \in Indices : Balanced(positions', vaults', pendingRedeems', idx)
BY DEF ShareConservation, Balanced, Owned, OwnedShares, PositionShares,
       RedeemingShares, SharesIn, Redeeming

LEMMA SharesInNat ==
    ASSUME NEW pos \in [Indices -> [Accounts -> Position]], NEW idx \in Indices
    PROVE  SharesIn(pos, idx) \in Nat
<1> DEFINE f == [a \in Accounts |-> pos[idx][a].shares]
<1>1. \A a \in 1..NumAccounts : f[a] \in Nat
  BY DEF Accounts, Position
<1> HIDE DEF f
<1>2. SumTo(f, NumAccounts) \in Nat
  BY <1>1, SumToType, CountsAssumption
<1> QED
  BY <1>2 DEF f, SharesIn

LEMMA RedeemingNat ==
    ASSUME NEW q \in [RequestIds -> PendingRedeem], NEW idx \in Indices
    PROVE  Redeeming(q, idx) \in Nat
<1> DEFINE f == [id \in RequestIds |-> IF q[id].indexId = idx THEN q[id].shares ELSE 0]
<1>1. \A id \in 1..MaxRequestId : f[id] \in Nat
  BY DEF RequestIds, PendingRedeem
<1> HIDE DEF f
<1>2. SumTo(f, MaxRequestId) \in Nat
  BY <1>1, SumToType, CountsAssumption
<1> QED
  BY <1>2 DEF f, Redeeming

\* Changing one position changes the sum of its index by the difference.
OnlyPosition(new, pos, idx, a, p) ==
    \A i \in Indices, b \in Accounts :
        new[i][b] = IF i = idx /\ b = a THEN p ELSE pos[i][b]

LEMMA PositionMoved ==
    ASSUME NEW pos \in [Indices -> [Accounts -> Position]], NEW idx \in Indices,
           NEW a \in Accounts, NEW p \in Position, NEW i \in Indices,
           NEW new, OnlyPosition(new, pos, idx, a, p)
    PROVE  SharesIn(new, i) =
              IF i = idx THEN SharesIn(pos, i) - pos[idx][a].shares + p.shares
                         ELSE SharesIn(pos, i)
<1> DEFINE f == [b \in Accounts |-> pos[i][b].shares]
           g == [b \in Accounts |-> new[i][b].shares]
<1>1. \A b \in 1..NumAccounts : f[b] \in Nat
  BY DEF Accounts, Position
<1>2. CASE i = idx
  <2>1. NatTerms(f, NumAccounts) /\ SameBut(f, g, NumAccounts, a)
    BY <1>1, <1>2 DEF NatTerms, SameBut, Accounts, OnlyPosition
  <2>2. f[a] = pos[idx][a].shares /\ g[a] = p.shares /\ g[a] \in Nat
    BY <1>2 DEF Position, OnlyPosition
  <2>3. a \in 1..NumAccounts /\ NumAccounts \in Nat
    BY CountsAssumption DEF Accounts
  <2> HIDE DEF f, g
  <2>4. SumTo(g, NumAccounts) = SumTo(f, NumAccounts) - f[a] + g[a]
    BY ONLY <2>1, <2>2, <2>3, SumToChanged
  <2> QED
    BY <1>2, <2>2, <2>4 DEF SharesIn, f, g
<1>3. CASE i # idx
  <2>1. g = f
    BY <1>3 DEF OnlyPosition
  <2> QED
    BY <1>3, <2>1 DEF SharesIn
<1> QED
  BY <1>2, <1>3

LEMMA PositionReplaced ==
    ASSUME TypeOK, NEW idx \in Indices, NEW a \in Accounts, NEW p,
           positions' = [positions EXCEPT ![idx][a] = p]
    PROVE  OnlyPosition(positions', positions, idx, a, p)
BY DEF OnlyPosition, TypeOK

\* Changing one open redemption changes the sums by what it held and holds.
LEMMA RedemptionMoved ==
    ASSUME NEW q \in [RequestIds -> PendingRedeem], NEW id \in RequestIds,
           NEW r \in PendingRedeem, NEW i \in Indices
    PROVE  Redeeming([q EXCEPT ![id] = r], i) =
              Redeeming(q, i) - (IF q[id].indexId = i THEN q[id].shares ELSE 0)
                              + (IF r.indexId = i THEN r.shares ELSE 0)
<1> DEFINE new == [q EXCEPT ![id] = r]
           f == [k \in RequestIds |-> IF q[k].indexId = i THEN q[k].shares ELSE 0]
           g == [k \in RequestIds |-> IF new[k].indexId = i THEN new[k].shares ELSE 0]
<1>1. NatTerms(f, MaxRequestId) /\ SameBut(f, g, MaxRequestId, id)
  BY DEF NatTerms, SameBut, RequestIds, PendingRedeem
<1>2. /\ f[id] = IF q[id].indexId = i THEN q[id].shares ELSE 0
      /\ g[id] = IF r.indexId = i THEN r.shares ELSE 0
      /\ g[id] \in Nat
  BY DEF PendingRedeem
<1>3. id \in 1..MaxRequestId /\ MaxRequestId \in Nat
  BY CountsAssumption DEF RequestIds
<1> HIDE DEF f, g, new
<1>4. SumTo(g, MaxRequestId) = SumTo(f, MaxRequestId) - f[id] + g[id]
  BY ONLY <1>1, <1>2, <1>3, SumToChanged
<1> QED
  BY <1>2, <1>4 DEF Redeeming, f, g, new

\* An open redemption holds no more than all of them.
LEMMA RedemptionBound ==
    ASSUME NEW q \in [RequestIds -> PendingRedeem], NEW id \in RequestIds,
           q[id].indexId \in Indices
    PROVE  q[id].shares <= Redeeming(q, q[id].indexId)
<1> DEFINE idx == q[id].indexId
           f == [k \in RequestIds |-> IF q[k].indexId = idx THEN q[k].shares ELSE 0]
<1>1. \A k \in 1..MaxRequestId : f[k] \in Nat
  BY DEF RequestIds, PendingRedeem
<1>2. f[id] = q[id].shares /\ id \in 1..MaxRequestId
  BY DEF RequestIds
<1> HIDE DEF f
<1>3. f[id] <= SumTo(f, MaxRequestId)
  BY <1>1, <1>2, SumToTermBound, CountsAssumption
<1> QED
  BY <1>2, <1>3 DEF Redeeming, f

-----------------------------------------------------------------------------
(* The inductive invariant, and what a step must do to keep its parts *)

LedgerInv ==
    /\ VaultInv
    /\ QueueWellFormed
    /\ HighWaterMarkSet
    /\ CreatorOpened
    /\ ShareConservation

\* The part of a vault that the shares depend on.
Book(v) == <<v.active, v.creator, v.totalShares, v.creatorFeeShares>>

LEMMA SameBook ==
    ASSUME NEW v \in IndexVault, NEW n
    PROVE  /\ Book([v EXCEPT !.lastNav = n]) = Book(v)
           /\ Book(AddReserve(v, n)) = Book(v)
           /\ Book(TakeReserve(v, n)) = Book(v)
BY DEF IndexVault, Book, AddReserve, TakeReserve

LEMMA OneVaultChanged ==
    ASSUME TypeOK, NEW idx \in Indices, NEW w, vaults' = [vaults EXCEPT ![idx] = w]
    PROVE  \A i \in Indices : vaults'[i] = IF i = idx THEN w ELSE vaults[i]
BY DEF TypeOK

\* A step that moves no shares and opens no vault.
LEMMA BooksKept ==
    ASSUME HighWaterMarkSet, CreatorOpened, ShareConservation, TypeOK,
           UNCHANGED <<positions, pendingRedeems>>,
           \A i \in Indices : Book(vaults'[i]) = Book(vaults[i])
    PROVE  HighWaterMarkSet' /\ CreatorOpened' /\ ShareConservation'
<1>1. \A i \in Indices : /\ vaults'[i].active = vaults[i].active
                         /\ vaults'[i].creator = vaults[i].creator
                         /\ vaults'[i].totalShares = vaults[i].totalShares
                         /\ vaults'[i].creatorFeeShares = vaults[i].creatorFeeShares
  BY DEF Book
<1>2. CreatorOpened'
  BY <1>1 DEF CreatorOpened
<1>3. HighWaterMarkSet'
  BY <1>1 DEF HighWaterMarkSet, TypeOK
<1>4. \A i \in Indices : Balanced(positions', vaults', pendingRedeems', i)
  BY <1>1, BalancedNow DEF Balanced, Owned
<1> QED
  BY <1>2, <1>3, <1>4, BalancedNext

LEMMA OneBookKept ==
    ASSUME HighWaterMarkSet, CreatorOpened, ShareConservation, TypeOK,
           UNCHANGED <<positions, pendingRedeems>>,
           NEW idx \in Indices, NEW w, vaults' = [vaults EXCEPT ![idx] = w],
           Book(w) = Book(vaults[idx])
    PROVE  HighWaterMarkSet' /\ CreatorOpened' /\ ShareConservation'
BY OneVaultChanged, BooksKept

\* A step that moves shares of one index only: the index balances after it, the
\* sums of the others are what they were.
LEMMA OneIndexMoved ==
    ASSUME ShareConservation, TypeOK, NEW idx \in Indices, NEW w,
           vaults' = [vaults EXCEPT ![idx] = w],
           \A i \in Indices \ {idx} :
              /\ SharesIn(positions', i) = SharesIn(positions, i)
              /\ Redeeming(pendingRedeems', i) = Redeeming(pendingRedeems, i),
           Balanced(positions', vaults', pendingRedeems', idx)
    PROVE  ShareConservation'
<1>1. ASSUME NEW i \in Indices \ {idx}
      PROVE  Balanced(positions', vaults', pendingRedeems', i)
  <2>1. vaults'[i] = vaults[i]
    BY OneVaultChanged
  <2>2. Balanced(positions, vaults, pendingRedeems, i)
    BY BalancedNow
  <2> QED
    BY <2>1, <2>2 DEF Balanced, Owned
<1> QED
  BY <1>1, BalancedNext

\* A step that keeps creators and lets each new position and each new
\* redemption keep the rule of the marks.
LEMMA MarksKept ==
    ASSUME HighWaterMarkSet, CreatorOpened, TypeOK, TypeOK',
           \A i \in Indices : vaults[i].active => vaults'[i].creator = vaults[i].creator,
           \A i \in Indices, a \in Accounts :
              positions'[i][a].shares > 0 => positions'[i][a].hwmNav > 0,
           \A id \in RequestIds :
              \/ pendingRedeems'[id] = pendingRedeems[id]
              \/ pendingRedeems'[id].who = 0
              \/ pendingRedeems'[id].hwmNav # 0
              \/ pendingRedeems'[id].who = vaults'[pendingRedeems'[id].indexId].creator
    PROVE  HighWaterMarkSet'
<1>1. ASSUME NEW id \in RequestIds, pendingRedeems'[id].who # 0,
             pendingRedeems'[id].hwmNav = 0
      PROVE  pendingRedeems'[id].who = vaults'[pendingRedeems'[id].indexId].creator
  <2>1. CASE pendingRedeems'[id] = pendingRedeems[id]
    <3> DEFINE r == pendingRedeems[id]
    <3>1. r.who # 0 /\ r.hwmNav = 0 /\ r.indexId \in Indices
      BY <1>1, <2>1 DEF TypeOK
    <3>2. r.who = vaults[r.indexId].creator
      BY <3>1 DEF HighWaterMarkSet
    <3>3. vaults[r.indexId].active
      BY <3>1, <3>2 DEF CreatorOpened
    <3> QED
      BY <2>1, <3>1, <3>2, <3>3
  <2> QED
    BY <1>1, <2>1
<1> QED
  BY <1>1 DEF HighWaterMarkSet

-----------------------------------------------------------------------------
(* The request queue *)

\* Opening a request uses a fresh id; changing or closing one leaves the other
\* ids alone.
LEMMA DepositChanged ==
    ASSUME QueueWellFormed, TypeOK, NEW id \in RequestIds,
           pendingDeposits[id].who # 0, NEW d,
           d = NoDeposit \/ d.who # 0,
           pendingDeposits' = [pendingDeposits EXCEPT ![id] = d],
           UNCHANGED <<pendingRedeems, nextRequestId>>
    PROVE  QueueWellFormed'
BY DEF QueueWellFormed, TypeOK, NoDeposit

LEMMA DepositOpened ==
    ASSUME QueueWellFormed, TypeOK, NEW d, d.who # 0,
           nextRequestId <= MaxRequestId,
           nextRequestId' = nextRequestId + 1,
           pendingDeposits' = [pendingDeposits EXCEPT ![nextRequestId] = d],
           UNCHANGED pendingRedeems
    PROVE  QueueWellFormed'
BY NextIdTaken, CountsAssumption DEF QueueWellFormed, TypeOK, RequestIds

LEMMA RedeemOpened ==
    ASSUME QueueWellFormed, TypeOK, NEW r, r.who # 0, r.shares > 0,
           nextRequestId <= MaxRequestId,
           nextRequestId' = nextRequestId + 1,
           pendingRedeems' = [pendingRedeems EXCEPT ![nextRequestId] = r],
           UNCHANGED pendingDeposits
    PROVE  QueueWellFormed'
BY NextIdTaken, CountsAssumption DEF QueueWellFormed, TypeOK, RequestIds

LEMMA RedeemClosed ==
    ASSUME QueueWellFormed, TypeOK, NEW id \in RequestIds,
           pendingRedeems' = [pendingRedeems EXCEPT ![id] = NoRedeem],
           UNCHANGED <<pendingDeposits, nextRequestId>>
    PROVE  QueueWellFormed'
BY DEF QueueWellFormed, TypeOK, NoRedeem

\* A fresh id is unused, so a redemption opened under it adds to its own index
\* what it redeems and nothing to the others.
LEMMA FreshRedemption ==
    ASSUME QueueWellFormed, TypeOK, nextRequestId <= MaxRequestId,
           NEW r \in PendingRedeem, NEW i \in Indices
    PROVE  Redeeming([pendingRedeems EXCEPT ![nextRequestId] = r], i) =
              Redeeming(pendingRedeems, i) + (IF r.indexId = i THEN r.shares ELSE 0)
<1>1. nextRequestId \in RequestIds
  BY CountsAssumption DEF TypeOK, RequestIds
<1>2. pendingRedeems[nextRequestId] = NoRedeem
  BY <1>1 DEF QueueWellFormed, TypeOK
<1>3. pendingRedeems[nextRequestId].indexId # i
  BY <1>2 DEF NoRedeem, Indices
<1>4. pendingRedeems \in [RequestIds -> PendingRedeem]
  BY DEF TypeOK
<1>5. Redeeming(pendingRedeems, i) \in Nat
  BY <1>4, RedeemingNat
<1>6. Redeeming([pendingRedeems EXCEPT ![nextRequestId] = r], i) =
         Redeeming(pendingRedeems, i) - 0 + (IF r.indexId = i THEN r.shares ELSE 0)
  BY <1>1, <1>3, <1>4, RedemptionMoved
<1>7. (IF r.indexId = i THEN r.shares ELSE 0) \in Nat
  BY DEF PendingRedeem
<1> QED
  BY <1>5, <1>6, <1>7

-----------------------------------------------------------------------------
(* The steps that move shares, one lemma per function of the contract.     *)
(* Each has VaultInv' from VaultInvStep.                                   *)

LEMMA LedgerOpenVault ==
    ASSUME LedgerInv, VaultInv', NEW c, NEW idx \in Indices,
           NEW creator \in Accounts, OpenVault(c, idx, creator)
    PROVE  LedgerInv'
<1> DEFINE v == vaults[idx]
           w == [v EXCEPT !.active = TRUE, !.creator = creator,
                          !.lastMgmtAccrualAt = now]
<1>0. TypeOK /\ TypeOK' /\ v \in IndexVault
  BY DEF LedgerInv, VaultInv, TypeOK
<1>1. vaults' = [vaults EXCEPT ![idx] = w] /\ ~ v.active
      /\ UNCHANGED <<positions, queue>>
  BY DEF OpenVault
<1>2. w.active /\ w.totalShares = v.totalShares
      /\ w.creatorFeeShares = v.creatorFeeShares
  BY <1>0 DEF IndexVault
<1> HIDE DEF w
<1>3. \A i \in Indices : vaults'[i] = IF i = idx THEN w ELSE vaults[i]
  BY <1>0, <1>1, OneVaultChanged
<1>4. QueueWellFormed'
  BY <1>1 DEF LedgerInv, QueueWellFormed, queue
<1>5. CreatorOpened'
  BY <1>2, <1>3 DEF LedgerInv, CreatorOpened
<1>6. HighWaterMarkSet'
  BY <1>0, <1>1, <1>3, MarksKept DEF LedgerInv, HighWaterMarkSet, queue
<1>7. ShareConservation'
  <2>1. Balanced(positions, vaults, pendingRedeems, idx)
    BY BalancedNow DEF LedgerInv
  <2>2. Balanced(positions', vaults', pendingRedeems', idx)
    BY <1>1, <1>2, <1>3, <2>1 DEF Balanced, Owned, queue
  <2> QED
    BY <1>0, <1>1, <2>2, OneIndexMoved DEF LedgerInv, queue
<1> QED
  BY <1>4, <1>5, <1>6, <1>7 DEF LedgerInv

LEMMA NoSharesNoFee == ASSUME NEW dt \in Nat PROVE MgmtFeeShares(0, dt) = 0
<1>1. YEAR * BPS \in Nat \ {0} /\ 0 * MGMT_FEE_BPS * dt = 0
  BY ScaleAssumption
<1>2. \A n \in Nat \ {0} : 0 \div n = 0
  OBVIOUS
<1> QED
  BY <1>1, <1>2 DEF MgmtFeeShares

LEMMA LedgerAccrueMgmt ==
    ASSUME LedgerInv, VaultInv', NEW c, NEW idx \in Indices, AccrueMgmt(c, idx)
    PROVE  LedgerInv'
<1> DEFINE v == vaults[idx]
           fee == MgmtFeeShares(v.totalShares, now - v.lastMgmtAccrualAt)
           w == Charged(v, fee, now)
           own == SharesIn(positions, idx)
           open == Redeeming(pendingRedeems, idx)
<1>0. TypeOK /\ TypeOK' /\ v \in IndexVault
  BY DEF LedgerInv, VaultInv, TypeOK
<1>1. vaults' = [vaults EXCEPT ![idx] = w] /\ UNCHANGED <<positions, queue>>
  BY DEF AccrueMgmt
<1>2. /\ v.totalShares \in Nat /\ v.creatorFeeShares \in Nat
      /\ now - v.lastMgmtAccrualAt \in Nat
      /\ own \in Nat /\ open \in Nat
  <2>1. now \in Nat /\ v.lastMgmtAccrualAt \in Nat /\ v.lastMgmtAccrualAt <= now
    BY <1>0, VaultFields DEF LedgerInv, VaultInv, AccrualClockFollowsDays, TypeOK
  <2>2. own \in Nat /\ open \in Nat
    BY <1>0, SharesInNat, RedeemingNat DEF TypeOK
  <2> QED
    BY <1>0, <2>1, <2>2, VaultFields
<1>3. fee \in Nat /\ (v.totalShares = 0 => fee = 0)
  BY <1>2, MgmtFeeSharesNat, NoSharesNoFee
<1> HIDE DEF fee
<1>4. /\ w.active = v.active /\ w.creator = v.creator
      /\ w.totalShares = v.totalShares + fee
      /\ w.creatorFeeShares = v.creatorFeeShares + fee
  BY <1>0 DEF IndexVault, Charged, MintFee
<1> HIDE DEF w
<1>5. \A i \in Indices : vaults'[i] = IF i = idx THEN w ELSE vaults[i]
  BY <1>0, <1>1, OneVaultChanged
<1>6. QueueWellFormed'
  BY <1>1 DEF LedgerInv, QueueWellFormed, queue
<1>7. CreatorOpened'
  BY <1>4, <1>5 DEF LedgerInv, CreatorOpened
<1>8. HighWaterMarkSet'
  BY <1>0, <1>1, <1>4, <1>5, MarksKept DEF LedgerInv, HighWaterMarkSet, queue
<1>9. ShareConservation'
  <2>1. \/ v.totalShares = 0 /\ own + v.creatorFeeShares + open = 0
        \/ v.totalShares = own + v.creatorFeeShares + open + MIN_SHARES
    BY BalancedNow DEF LedgerInv, Balanced, Owned
  <2>2. \/ w.totalShares = 0 /\ own + w.creatorFeeShares + open = 0
        \/ w.totalShares = own + w.creatorFeeShares + open + MIN_SHARES
    <3> HIDE DEF v, own, open
    <3> QED BY <1>2, <1>3, <1>4, <2>1, ScaleAssumption
  <2>3. Balanced(positions', vaults', pendingRedeems', idx)
    BY <1>1, <1>5, <2>2 DEF Balanced, Owned, queue
  <2> QED
    BY <1>0, <1>1, <2>3, OneIndexMoved DEF LedgerInv, queue
<1> QED
  BY <1>6, <1>7, <1>8, <1>9 DEF LedgerInv

LEMMA LedgerSettleDeposit ==
    ASSUME LedgerInv, VaultInv', NEW c, NEW id \in RequestIds, NEW nav \in Nat,
           NEW value \in Nat, NEW at, NEW by,
           SettleDeposit(c, id, nav, value, at, by)
    PROVE  LedgerInv'
<1> DEFINE d == pendingDeposits[id]
           idx == d.indexId
           a == d.who
           v == vaults[idx]
           p == positions[idx][a]
           shares == SharesFor(value, nav)
           w == Mint(v, shares, nav)
           q == Credit(p, shares, nav)
           own == SharesIn(positions, idx)
           open == Redeeming(pendingRedeems, idx)
<1>0. TypeOK /\ TypeOK'
  BY DEF LedgerInv, VaultInv
<1>1. /\ vaults' = [vaults EXCEPT ![idx] = w]
      /\ positions' = [positions EXCEPT ![idx][a] = q]
      /\ pendingDeposits' = [pendingDeposits EXCEPT ![id] = NoDeposit]
      /\ UNCHANGED <<pendingRedeems, nextRequestId>>
      /\ d.who # 0 /\ nav # 0
  BY DEF SettleDeposit, InFlight, NavOK, NavSigOK
<1>2. idx \in Indices /\ a \in Accounts /\ v \in IndexVault
  BY <1>0, <1>1, LiveDeposit
<1>3. shares \in Nat
  BY <1>0, SettledShares
<1>4. /\ p \in Position /\ p.shares \in Nat /\ p.hwmNav \in Nat
      /\ v.totalShares \in Nat /\ v.creatorFeeShares \in Nat
      /\ positions \in [Indices -> [Accounts -> Position]]
      /\ own \in Nat /\ open \in Nat
  <2>1. positions \in [Indices -> [Accounts -> Position]] /\ p \in Position
    BY <1>0, <1>2 DEF TypeOK
  <2>2. own \in Nat /\ open \in Nat
    BY <1>0, <1>2, SharesInNat, RedeemingNat DEF TypeOK
  <2>3. p.shares \in Nat /\ p.hwmNav \in Nat
    BY <2>1 DEF Position
  <2> QED
    BY <1>2, <2>1, <2>2, <2>3, VaultFields
<1>5. QueueWellFormed'
  BY <1>0, <1>1, DepositChanged DEF LedgerInv
<1> HIDE DEF shares
<1>6. /\ w.active = v.active /\ w.creator = v.creator
      /\ w.totalShares = v.totalShares + shares
                            + (IF v.totalShares = 0 THEN MIN_SHARES ELSE 0)
      /\ w.creatorFeeShares = v.creatorFeeShares
  BY <1>2 DEF IndexVault, Mint
<1>7. /\ q \in Position /\ q.shares = p.shares + shares
      /\ q.hwmNav = IF p.shares = 0 THEN nav ELSE p.hwmNav
  BY <1>3, <1>4 DEF Credit, Position
<1> HIDE DEF w, q
<1>8. \A i \in Indices : vaults'[i] = IF i = idx THEN w ELSE vaults[i]
  BY <1>0, <1>1, <1>2, OneVaultChanged
<1>9. CreatorOpened'
  BY <1>6, <1>8 DEF LedgerInv, CreatorOpened
<1>10. OnlyPosition(positions', positions, idx, a, q)
  <2> HIDE DEF idx, a
  <2> QED BY <1>0, <1>1, <1>2, PositionReplaced
<1>11. HighWaterMarkSet'
  <2>1. p.shares > 0 => p.hwmNav > 0
    BY <1>2 DEF LedgerInv, HighWaterMarkSet
  <2>2. q.hwmNav > 0 \/ q.shares = 0
    <3> HIDE DEF p
    <3> QED BY <1>1, <1>3, <1>4, <1>7, <2>1
  <2>4. \A i \in Indices, b \in Accounts :
           positions'[i][b].shares > 0 => positions'[i][b].hwmNav > 0
    BY <1>10, <2>2 DEF LedgerInv, HighWaterMarkSet, OnlyPosition
  <2>5. \A i \in Indices : vaults[i].active => vaults'[i].creator = vaults[i].creator
    BY <1>6, <1>8
  <2> QED
    BY <1>0, <1>1, <2>4, <2>5, MarksKept DEF LedgerInv
<1>12. ShareConservation'
  <2>1. \/ v.totalShares = 0 /\ own + v.creatorFeeShares + open = 0
        \/ v.totalShares = own + v.creatorFeeShares + open + MIN_SHARES
    BY <1>2, BalancedNow DEF LedgerInv, Balanced, Owned
  <2>2. \A i \in Indices : SharesIn(positions', i) =
           IF i = idx THEN SharesIn(positions, i) - p.shares + q.shares
                      ELSE SharesIn(positions, i)
    <3> HIDE DEF idx, a
    <3> QED BY <1>2, <1>4, <1>7, <1>10, PositionMoved
  <2>3. SharesIn(positions', idx) = own + shares
    <3>1. SharesIn(positions', idx) = own - p.shares + (p.shares + shares)
      BY <1>2, <1>7, <2>2
    <3> HIDE DEF own, p
    <3> QED BY <1>3, <1>4, <3>1
  <2>4. \/ w.totalShares = 0 /\ own + shares + w.creatorFeeShares + open = 0
        \/ w.totalShares = own + shares + w.creatorFeeShares + open + MIN_SHARES
    <3> HIDE DEF v, own, open
    <3> QED BY <1>3, <1>4, <1>6, <2>1, ScaleAssumption
  <2>5. Balanced(positions', vaults', pendingRedeems', idx)
    <3> HIDE DEF v, own
    <3> QED BY <1>1, <1>2, <1>8, <2>3, <2>4 DEF Balanced, Owned
  <2> QED
    <3> HIDE DEF idx
    <3> QED BY <1>0, <1>1, <1>2, <2>2, <2>5, OneIndexMoved DEF LedgerInv
<1> QED
  BY <1>0, <1>5, <1>9, <1>11, <1>12 DEF LedgerInv

LEMMA LedgerRequestRedeem ==
    ASSUME LedgerInv, VaultInv', NEW a \in Accounts, NEW idx \in Indices,
           NEW shares \in Nat, NEW min \in Nat,
           RequestRedeem(a, idx, shares, min)
    PROVE  LedgerInv'
<1> DEFINE p == positions[idx][a]
           q == Debit(p, shares)
           r == [indexId |-> idx, who |-> a, shares |-> shares,
                 hwmNav |-> p.hwmNav, minUsdcOut |-> min]
           own == SharesIn(positions, idx)
           open == Redeeming(pendingRedeems, idx)
           v == vaults[idx]
<1>0. TypeOK /\ TypeOK' /\ QueueWellFormed
  BY DEF LedgerInv, VaultInv
<1>1. /\ positions' = [positions EXCEPT ![idx][a] = q]
      /\ pendingRedeems' = [pendingRedeems EXCEPT ![nextRequestId] = r]
      /\ nextRequestId <= MaxRequestId
      /\ nextRequestId' = nextRequestId + 1
      /\ UNCHANGED <<vaults, pendingDeposits>>
      /\ shares # 0 /\ shares <= p.shares
  BY DEF RequestRedeem
<1>2. p \in Position /\ positions \in [Indices -> [Accounts -> Position]]
  BY <1>0 DEF TypeOK
<1>3. p.shares \in Nat /\ p.hwmNav \in Nat
  BY <1>2 DEF Position
<1>4. q \in Position /\ q.shares = p.shares - shares /\ q.hwmNav = p.hwmNav
  BY <1>1, <1>2, <1>3 DEF Debit, Position
<1>5. r \in PendingRedeem
  <2>1. idx \in 0..NumIndices /\ a \in 0..NumAccounts
    BY DEF Indices, Accounts
  <2> QED
    BY <1>3, <2>1 DEF PendingRedeem
<1>6. /\ r.who # 0 /\ r.shares = shares /\ r.indexId = idx
      /\ r.hwmNav = p.hwmNav
  BY DEF Accounts
<1>7. own \in Nat /\ open \in Nat /\ v \in IndexVault
  BY <1>0, SharesInNat, RedeemingNat DEF TypeOK
<1>8. p.hwmNav > 0
  <2>1. p.shares > 0
    <3> HIDE DEF p
    <3> QED BY <1>1, <1>3
  <2> QED
    BY <2>1 DEF LedgerInv, HighWaterMarkSet
<1> HIDE DEF q, r
<1>9. QueueWellFormed'
  <2>1. r.shares > 0
    BY <1>1, <1>6
  <2> QED
    BY <1>0, <1>1, <1>6, <2>1, RedeemOpened
<1>10. CreatorOpened'
  BY <1>1 DEF LedgerInv, CreatorOpened
<1>11. OnlyPosition(positions', positions, idx, a, q)
  BY <1>0, <1>1, PositionReplaced
<1>12. HighWaterMarkSet'
  <2>1. \A i \in Indices, b \in Accounts :
           positions'[i][b].shares > 0 => positions'[i][b].hwmNav > 0
    BY <1>4, <1>8, <1>11 DEF LedgerInv, HighWaterMarkSet, OnlyPosition
  <2>2. \A id \in RequestIds : \/ pendingRedeems'[id] = pendingRedeems[id]
                               \/ pendingRedeems'[id].hwmNav # 0
    <3> HIDE DEF p
    <3> QED BY <1>0, <1>1, <1>3, <1>6, <1>8 DEF TypeOK
  <2> QED
    BY <1>0, <1>1, <2>1, <2>2, MarksKept DEF LedgerInv
<1>13. ShareConservation'
  <2>1. \A i \in Indices : SharesIn(positions', i) =
           IF i = idx THEN SharesIn(positions, i) - p.shares + q.shares
                      ELSE SharesIn(positions, i)
    BY <1>2, <1>4, <1>11, PositionMoved
  <2>2. \A i \in Indices : Redeeming(pendingRedeems', i) =
           Redeeming(pendingRedeems, i) + (IF r.indexId = i THEN r.shares ELSE 0)
    BY <1>0, <1>1, <1>5, FreshRedemption
  <2>3. SharesIn(positions', idx) = own - p.shares + (p.shares - shares)
    BY <1>4, <2>1
  <2>4. Redeeming(pendingRedeems', idx) = open + shares
    BY <1>6, <2>2
  <2>5. \A i \in Indices \ {idx} :
           /\ SharesIn(positions', i) = SharesIn(positions, i)
           /\ Redeeming(pendingRedeems', i) = Redeeming(pendingRedeems, i)
    <3>1. \A i \in Indices : Redeeming(pendingRedeems, i) \in Nat
      BY <1>0, RedeemingNat DEF TypeOK
    <3> QED
      BY <1>6, <2>1, <2>2, <3>1
  <2>6. Balanced(positions, vaults, pendingRedeems, idx)
    BY BalancedNow DEF LedgerInv
  <2>7. Owned(positions', vaults', pendingRedeems', idx)
           = Owned(positions, vaults, pendingRedeems, idx)
    <3>1. v.creatorFeeShares \in Nat
      BY <1>7, VaultFields
    <3>2. own + v.creatorFeeShares + open =
             (own - p.shares + (p.shares - shares)) + v.creatorFeeShares + (open + shares)
      <4> HIDE DEF own, open, p, v
      <4> QED BY <1>3, <1>7, <3>1
    <3> QED
      BY <1>1, <2>3, <2>4, <3>2 DEF Owned
  <2>8. Balanced(positions', vaults', pendingRedeems', idx)
    BY <1>1, <2>6, <2>7 DEF Balanced
  <2>9. vaults' = [vaults EXCEPT ![idx] = v]
    BY <1>0, <1>1 DEF TypeOK
  <2> HIDE DEF v
  <2> QED
    BY <1>0, <2>5, <2>8, <2>9, OneIndexMoved DEF LedgerInv
<1> QED
  BY <1>9, <1>10, <1>12, <1>13 DEF LedgerInv

LEMMA BurnFields ==
    ASSUME NEW v \in IndexVault, NEW n \in Nat, NEW fee, NEW feeShares \in Nat
    PROVE  LET w == Burn(v, n, fee, feeShares) IN
           /\ w.active = v.active /\ w.creator = v.creator
           /\ w.totalShares = v.totalShares + feeShares - n
           /\ w.creatorFeeShares = v.creatorFeeShares + feeShares
<1> DEFINE m == MintFee(v, feeShares)
<1>1. /\ m.active = v.active /\ m.creator = v.creator
      /\ m.totalShares = v.totalShares + feeShares
      /\ m.creatorFeeShares = v.creatorFeeShares + feeShares
  BY DEF MintFee, IndexVault
<1>2. m \in IndexVault
  <2>1. v.creatorFeeShares + feeShares \in Nat /\ v.totalShares + feeShares \in Nat
    BY VaultFields
  <2> QED
    BY <2>1, VaultWithTwo DEF MintFee
<1>3. Burn(v, n, fee, feeShares) =
         [m EXCEPT !.totalShares = m.totalShares - n, !.usdcReserve = m.usdcReserve + fee]
  BY DEF Burn
<1> HIDE DEF m
<1>4. LET w == Burn(v, n, fee, feeShares) IN
      /\ w.active = m.active /\ w.creator = m.creator
      /\ w.totalShares = m.totalShares - n /\ w.creatorFeeShares = m.creatorFeeShares
  BY <1>2, <1>3 DEF IndexVault
<1> QED
  BY <1>1, <1>4, VaultFields

LEMMA LedgerSettleRedeem ==
    ASSUME LedgerInv, VaultInv', NEW c, NEW id \in RequestIds,
           NEW received \in Nat, NEW nav \in Nat, NEW at, NEW by,
           SettleRedeem(c, id, received, nav, at, by)
    PROVE  LedgerInv'
<1> DEFINE r == pendingRedeems[id]
           idx == r.indexId
           v == vaults[idx]
           fee == PerfFeeUsdc(r, nav, received)
           feeShares == SharesFor(fee, nav)
           w == Burn(v, r.shares, fee, feeShares)
           own == SharesIn(positions, idx)
           open == Redeeming(pendingRedeems, idx)
<1>0. TypeOK /\ TypeOK' /\ QueueWellFormed
  BY DEF LedgerInv, VaultInv
<1>1. /\ vaults' = [vaults EXCEPT ![idx] = w]
      /\ pendingRedeems' = [pendingRedeems EXCEPT ![id] = NoRedeem]
      /\ UNCHANGED <<positions, pendingDeposits, nextRequestId>>
      /\ r.who # 0 /\ nav # 0
  BY DEF SettleRedeem, NavSigOK
<1>2. /\ r \in PendingRedeem /\ idx \in Indices /\ r.shares \in Nat
      /\ v \in IndexVault
  BY <1>0, <1>1, LiveRedeem
<1>3. feeShares \in Nat
  <2>1. fee \in Nat
    BY <1>2, PerfFeeNat
  <2> HIDE DEF fee
  <2> QED
    BY <1>1, <2>1, SharesForNat
<1>4. r.shares > 0
  BY <1>0, <1>1 DEF QueueWellFormed
<1>5. own \in Nat /\ open \in Nat /\ r.shares <= open
  BY <1>0, <1>2, SharesInNat, RedeemingNat, RedemptionBound DEF TypeOK
<1>6. v.totalShares \in Nat /\ v.creatorFeeShares \in Nat
  BY <1>2, VaultFields
<1> HIDE DEF feeShares
<1>7. /\ w.active = v.active /\ w.creator = v.creator
      /\ w.totalShares = v.totalShares + feeShares - r.shares
      /\ w.creatorFeeShares = v.creatorFeeShares + feeShares
  <2> HIDE DEF v, r, fee
  <2> QED BY <1>2, <1>3, BurnFields DEF w
<1> HIDE DEF w
<1>8. \A i \in Indices : vaults'[i] = IF i = idx THEN w ELSE vaults[i]
  BY <1>0, <1>1, <1>2, OneVaultChanged
<1>9. QueueWellFormed'
  BY <1>0, <1>1, RedeemClosed
<1>10. CreatorOpened'
  BY <1>7, <1>8 DEF LedgerInv, CreatorOpened
<1>11. HighWaterMarkSet'
  <2>1. \A i \in Indices : vaults[i].active => vaults'[i].creator = vaults[i].creator
    BY <1>7, <1>8
  <2>2. \A k \in RequestIds : \/ pendingRedeems'[k] = pendingRedeems[k]
                              \/ pendingRedeems'[k].who = 0
    BY <1>0, <1>1 DEF TypeOK, NoRedeem
  <2>3. \A i \in Indices, b \in Accounts :
           positions'[i][b].shares > 0 => positions'[i][b].hwmNav > 0
    BY <1>1 DEF LedgerInv, HighWaterMarkSet
  <2> QED
    BY <1>0, <2>1, <2>2, <2>3, MarksKept DEF LedgerInv
<1>12. ShareConservation'
  <2>1. \A i \in Indices : Redeeming(pendingRedeems', i) =
           Redeeming(pendingRedeems, i) - (IF idx = i THEN r.shares ELSE 0)
    <3>1. /\ pendingRedeems \in [RequestIds -> PendingRedeem]
          /\ pendingRedeems' = [pendingRedeems EXCEPT ![id] = NoRedeem]
          /\ r.shares \in Nat
      BY <1>0, <1>1, <1>2 DEF TypeOK
    <3>2. NoRedeem.indexId \notin Indices
      BY DEF NoRedeem, Indices
    <3> SUFFICES ASSUME NEW i \in Indices
                 PROVE  Redeeming(pendingRedeems', i) =
                    Redeeming(pendingRedeems, i) - (IF idx = i THEN r.shares ELSE 0)
      OBVIOUS
    <3>3. Redeeming(pendingRedeems', i) =
             Redeeming(pendingRedeems, i) - (IF idx = i THEN r.shares ELSE 0)
                + (IF NoRedeem.indexId = i THEN NoRedeem.shares ELSE 0)
      BY <3>1, EmptyRequests, RedemptionMoved
    <3>4. Redeeming(pendingRedeems, i) \in Nat
      BY <3>1, RedeemingNat
    <3> HIDE DEF r, idx
    <3> QED
      BY <3>1, <3>2, <3>3, <3>4
  <2>2. Redeeming(pendingRedeems', idx) = open - r.shares
    BY <1>2, <2>1
  <2>3. \A i \in Indices \ {idx} :
           /\ SharesIn(positions', i) = SharesIn(positions, i)
           /\ Redeeming(pendingRedeems', i) = Redeeming(pendingRedeems, i)
    <3>1. \A i \in Indices : Redeeming(pendingRedeems, i) \in Nat
      BY <1>0, RedeemingNat DEF TypeOK
    <3>2. positions' = positions
      BY <1>1
    <3> HIDE DEF idx, r
    <3> QED
      BY <2>1, <3>1, <3>2
  <2>4. \/ v.totalShares = 0 /\ own + v.creatorFeeShares + open = 0
        \/ v.totalShares = own + v.creatorFeeShares + open + MIN_SHARES
    BY <1>2, BalancedNow DEF LedgerInv, Balanced, Owned
  <2>5. w.totalShares = own + w.creatorFeeShares + (open - r.shares) + MIN_SHARES
    <3> HIDE DEF v, own, open, r
    <3> QED BY <1>2, <1>3, <1>4, <1>5, <1>6, <1>7, <2>4, ScaleAssumption
  <2>6. Balanced(positions', vaults', pendingRedeems', idx)
    <3> HIDE DEF v, open
    <3> QED BY <1>1, <1>2, <1>8, <2>2, <2>5 DEF Balanced, Owned
  <2> QED
    <3> HIDE DEF idx
    <3> QED BY <1>0, <1>1, <1>2, <2>3, <2>6, OneIndexMoved DEF LedgerInv
<1> QED
  BY <1>9, <1>10, <1>11, <1>12 DEF LedgerInv

LEMMA LedgerClaimFees ==
    ASSUME LedgerInv, VaultInv', NEW c \in Accounts, NEW idx \in Indices,
           ClaimFees(c, idx)
    PROVE  LedgerInv'
<1> DEFINE v == vaults[idx]
           w == Claimed(v)
           r == [indexId |-> idx, who |-> v.creator, shares |-> v.creatorFeeShares,
                 hwmNav |-> 0, minUsdcOut |-> 0]
           own == SharesIn(positions, idx)
           open == Redeeming(pendingRedeems, idx)
<1>0. TypeOK /\ TypeOK' /\ QueueWellFormed
  BY DEF LedgerInv, VaultInv
<1>1. /\ vaults' = [vaults EXCEPT ![idx] = w]
      /\ pendingRedeems' = [pendingRedeems EXCEPT ![nextRequestId] = r]
      /\ nextRequestId <= MaxRequestId
      /\ nextRequestId' = nextRequestId + 1
      /\ UNCHANGED <<positions, pendingDeposits>>
      /\ v.creator = c /\ v.creatorFeeShares # 0
  BY DEF ClaimFees
<1>2. v \in IndexVault /\ own \in Nat /\ open \in Nat
  BY <1>0, SharesInNat, RedeemingNat DEF TypeOK
<1>3. v.totalShares \in Nat /\ v.creatorFeeShares \in Nat /\ v.creator \in 0..NumAccounts
  BY <1>2, VaultFields
<1>4. /\ w.active = v.active /\ w.creator = v.creator
      /\ w.totalShares = v.totalShares /\ w.creatorFeeShares = 0
  BY <1>2 DEF IndexVault, Claimed
<1>5. r \in PendingRedeem
  BY <1>3 DEF PendingRedeem, Indices
<1>6. /\ r.who = v.creator /\ r.who # 0 /\ r.shares = v.creatorFeeShares
      /\ r.shares > 0 /\ r.indexId = idx
  BY <1>1, <1>3 DEF Accounts
<1> HIDE DEF w, r
<1>7. \A i \in Indices : vaults'[i] = IF i = idx THEN w ELSE vaults[i]
  BY <1>0, <1>1, OneVaultChanged
<1>8. QueueWellFormed'
  BY <1>0, <1>1, <1>6, RedeemOpened
<1>9. CreatorOpened'
  BY <1>4, <1>7 DEF LedgerInv, CreatorOpened
<1>10. HighWaterMarkSet'
  <2>1. \A i \in Indices : vaults'[i].creator = vaults[i].creator
    BY <1>4, <1>7
  <2>2. \A id \in RequestIds :
           \/ pendingRedeems'[id] = pendingRedeems[id]
           \/ pendingRedeems'[id].who = vaults'[pendingRedeems'[id].indexId].creator
    BY <1>0, <1>1, <1>6, <2>1 DEF TypeOK
  <2>3. \A i \in Indices, b \in Accounts :
           positions'[i][b].shares > 0 => positions'[i][b].hwmNav > 0
    BY <1>1 DEF LedgerInv, HighWaterMarkSet
  <2> QED
    BY <1>0, <2>1, <2>2, <2>3, MarksKept DEF LedgerInv
<1>11. ShareConservation'
  <2>1. \A i \in Indices : Redeeming(pendingRedeems', i) =
           Redeeming(pendingRedeems, i) + (IF r.indexId = i THEN r.shares ELSE 0)
    BY <1>0, <1>1, <1>5, FreshRedemption
  <2>2. Redeeming(pendingRedeems', idx) = open + v.creatorFeeShares
    BY <1>6, <2>1
  <2>3. \A i \in Indices \ {idx} :
           /\ SharesIn(positions', i) = SharesIn(positions, i)
           /\ Redeeming(pendingRedeems', i) = Redeeming(pendingRedeems, i)
    <3>1. \A i \in Indices : Redeeming(pendingRedeems, i) \in Nat
      BY <1>0, RedeemingNat DEF TypeOK
    <3>2. positions' = positions /\ r.indexId = idx
      BY <1>1, <1>6
    <3> QED
      BY <2>1, <3>1, <3>2
  <2>4. \/ v.totalShares = 0 /\ own + v.creatorFeeShares + open = 0
        \/ v.totalShares = own + v.creatorFeeShares + open + MIN_SHARES
    BY BalancedNow DEF LedgerInv, Balanced, Owned
  <2>5. w.totalShares
           = own + w.creatorFeeShares + (open + v.creatorFeeShares) + MIN_SHARES
    <3>1. v.creatorFeeShares \in Nat \ {0} /\ own \in Nat /\ open \in Nat
      BY <1>1, <1>2, <1>3
    <3>2. w.totalShares = v.totalShares /\ w.creatorFeeShares = 0
      BY <1>4
    <3> HIDE DEF v, own, open
    <3>3. own + v.creatorFeeShares + open # 0
      BY <3>1
    <3>4. v.totalShares = own + v.creatorFeeShares + open + MIN_SHARES
      BY <2>4, <3>3
    <3> QED
      BY <3>1, <3>2, <3>4, ScaleAssumption
  <2>6. Balanced(positions', vaults', pendingRedeems', idx)
    <3> HIDE DEF v, open
    <3> QED BY <1>1, <1>7, <2>2, <2>5 DEF Balanced, Owned
  <2> QED
    BY <1>0, <1>1, <2>3, <2>6, OneIndexMoved DEF LedgerInv
<1> QED
  BY <1>8, <1>9, <1>10, <1>11 DEF LedgerInv

-----------------------------------------------------------------------------
(* The step and the theorems *)

\* A step that moves no shares keeps the invariant if it keeps the queue.
LEMMA LedgerKept ==
    ASSUME LedgerInv, VaultInv', QueueWellFormed',
           HighWaterMarkSet' /\ CreatorOpened' /\ ShareConservation'
    PROVE  LedgerInv'
BY DEF LedgerInv

LEMMA LedgerUntouched ==
    ASSUME LedgerInv, VaultInv', UNCHANGED <<ledger, queue>>
    PROVE  LedgerInv'
<1>1. QueueWellFormed'
  BY DEF LedgerInv, QueueWellFormed, queue
<1>2. HighWaterMarkSet' /\ CreatorOpened' /\ ShareConservation'
  BY BooksKept DEF LedgerInv, VaultInv, ledger, queue
<1> QED
  BY <1>1, <1>2, LedgerKept

LEMMA LedgerAttested == ASSUME LedgerInv, VaultInv', AnyAttested PROVE LedgerInv'
<1>1. PICK c \in Accounts, nav \in Nat, at \in Nat, by \in Accounts :
        \/ \E idx \in Indices : UpdateNav(c, idx, nav, at, by)
        \/ \E id \in RequestIds, amount \in Nat :
              \/ SettleDeposit(c, id, nav, amount, at, by)
              \/ SettleRedeem(c, id, amount, nav, at, by)
  BY DEF AnyAttested
<1>2. nav \in Nat /\ \A amount \in Nat : amount \in Nat
  BY InputsAssumption
<1>3. ASSUME NEW idx \in Indices, UpdateNav(c, idx, nav, at, by)
      PROVE  LedgerInv'
  <2> DEFINE w == [vaults[idx] EXCEPT !.lastNav = nav]
  <2>1. /\ vaults' = [vaults EXCEPT ![idx] = w]
        /\ UNCHANGED <<positions, pendingRedeems, queue>>
    BY <1>3 DEF UpdateNav, queue
  <2>2. TypeOK /\ vaults[idx] \in IndexVault
    BY DEF LedgerInv, VaultInv, TypeOK
  <2>3. Book(w) = Book(vaults[idx])
    BY <2>2, SameBook
  <2>4. QueueWellFormed'
    BY <2>1 DEF LedgerInv, QueueWellFormed, queue
  <2> HIDE DEF w
  <2>5. HighWaterMarkSet' /\ CreatorOpened' /\ ShareConservation'
    BY <2>1, <2>2, <2>3, OneBookKept DEF LedgerInv
  <2> QED
    BY <2>4, <2>5, LedgerKept
<1> QED
  BY <1>1, <1>2, <1>3, LedgerSettleDeposit, LedgerSettleRedeem

LEMMA LedgerPullForDeposit ==
    ASSUME LedgerInv, VaultInv', NEW c, NEW id \in RequestIds, PullForDeposit(c, id)
    PROVE  LedgerInv'
<1> DEFINE d == pendingDeposits[id]
           w == TakeReserve(vaults[d.indexId], d.usdcIn)
           e == [d EXCEPT !.pulled = TRUE]
<1>1. /\ vaults' = [vaults EXCEPT ![d.indexId] = w]
      /\ pendingDeposits' = [pendingDeposits EXCEPT ![id] = e]
      /\ UNCHANGED <<positions, pendingRedeems, nextRequestId>>
      /\ d.who # 0
  BY DEF PullForDeposit, InEscrow
<1>2. TypeOK
  BY DEF LedgerInv, VaultInv
<1>3. d.indexId \in Indices /\ vaults[d.indexId] \in IndexVault /\ d \in PendingDeposit
  BY <1>1, <1>2, LiveDeposit DEF TypeOK
<1>4. e.who # 0
  BY <1>1, <1>3 DEF PendingDeposit
<1>5. Book(w) = Book(vaults[d.indexId])
  BY <1>3, SameBook
<1> HIDE DEF w, e
<1>6. QueueWellFormed'
  BY <1>1, <1>2, <1>4, DepositChanged DEF LedgerInv
<1>7. HighWaterMarkSet' /\ CreatorOpened' /\ ShareConservation'
  <2> HIDE DEF d
  <2> QED BY <1>1, <1>2, <1>3, <1>5, OneBookKept DEF LedgerInv
<1> QED
  BY <1>6, <1>7, LedgerKept

LEMMA LedgerCancelHeldDeposit ==
    ASSUME LedgerInv, VaultInv', NEW c, NEW id \in RequestIds,
           CancelHeldDeposit(c, id)
    PROVE  LedgerInv'
<1> DEFINE d == pendingDeposits[id]
           w == TakeReserve(vaults[d.indexId], d.usdcIn)
<1>1. /\ vaults' = [vaults EXCEPT ![d.indexId] = w]
      /\ pendingDeposits' = [pendingDeposits EXCEPT ![id] = NoDeposit]
      /\ UNCHANGED <<positions, pendingRedeems, nextRequestId>>
      /\ d.who # 0
  BY DEF CancelHeldDeposit, InEscrow
<1>2. TypeOK
  BY DEF LedgerInv, VaultInv
<1>3. d.indexId \in Indices /\ vaults[d.indexId] \in IndexVault
  BY <1>1, <1>2, LiveDeposit
<1>4. Book(w) = Book(vaults[d.indexId])
  BY <1>3, SameBook
<1> HIDE DEF w
<1>5. QueueWellFormed'
  BY <1>1, <1>2, DepositChanged DEF LedgerInv
<1>6. HighWaterMarkSet' /\ CreatorOpened' /\ ShareConservation'
  <2> HIDE DEF d
  <2> QED BY <1>1, <1>2, <1>3, <1>4, OneBookKept DEF LedgerInv
<1> QED
  BY <1>5, <1>6, LedgerKept

LEMMA LedgerCancelPulledDeposit ==
    ASSUME LedgerInv, VaultInv', NEW c, NEW id \in RequestIds, NEW amount,
           CancelPulledDeposit(c, id, amount)
    PROVE  LedgerInv'
<1>1. /\ pendingDeposits' = [pendingDeposits EXCEPT ![id] = NoDeposit]
      /\ UNCHANGED <<ledger, pendingRedeems, nextRequestId>>
      /\ pendingDeposits[id].who # 0
  BY DEF CancelPulledDeposit, InFlight
<1>2. TypeOK
  BY DEF LedgerInv, VaultInv
<1>3. QueueWellFormed'
  BY <1>1, <1>2, DepositChanged DEF LedgerInv
<1>4. HighWaterMarkSet' /\ CreatorOpened' /\ ShareConservation'
  BY <1>1, <1>2, BooksKept DEF LedgerInv, ledger
<1> QED
  BY <1>3, <1>4, LedgerKept

LEMMA LedgerRequestDeposit ==
    ASSUME LedgerInv, VaultInv', NEW a \in Accounts, NEW idx \in Indices,
           NEW amount, NEW min, RequestDeposit(a, idx, amount, min)
    PROVE  LedgerInv'
<1> DEFINE w == AddReserve(vaults[idx], amount)
           d == [indexId |-> idx, who |-> a, usdcIn |-> amount,
                 minSharesOut |-> min, pulled |-> FALSE]
<1>1. /\ vaults' = [vaults EXCEPT ![idx] = w]
      /\ pendingDeposits' = [pendingDeposits EXCEPT ![nextRequestId] = d]
      /\ nextRequestId <= MaxRequestId
      /\ nextRequestId' = nextRequestId + 1
      /\ UNCHANGED <<positions, pendingRedeems>>
  BY DEF RequestDeposit
<1>2. TypeOK /\ vaults[idx] \in IndexVault
  BY DEF LedgerInv, VaultInv, TypeOK
<1>3. d.who # 0
  BY DEF Accounts
<1>4. Book(w) = Book(vaults[idx])
  BY <1>2, SameBook
<1> HIDE DEF w, d
<1>5. QueueWellFormed'
  BY <1>1, <1>2, <1>3, DepositOpened DEF LedgerInv
<1>6. HighWaterMarkSet' /\ CreatorOpened' /\ ShareConservation'
  BY <1>1, <1>2, <1>4, OneBookKept DEF LedgerInv
<1> QED
  BY <1>5, <1>6, LedgerKept

LEMMA LedgerKeeperCalls == ASSUME LedgerInv, VaultInv', AnyKeeperCalls PROVE LedgerInv'
BY LedgerOpenVault, LedgerAccrueMgmt, LedgerPullForDeposit,
   LedgerCancelHeldDeposit, LedgerCancelPulledDeposit DEF AnyKeeperCalls

LEMMA LedgerUserCalls == ASSUME LedgerInv, VaultInv', AnyUserCalls PROVE LedgerInv'
<1>1. \A amount \in Nat : amount \in Nat
  BY InputsAssumption
<1> QED
  BY <1>1, LedgerRequestDeposit, LedgerRequestRedeem, LedgerClaimFees DEF AnyUserCalls

LEMMA LedgerInvStep == LedgerInv /\ [AnyCall]_vars => LedgerInv'
<1> SUFFICES ASSUME LedgerInv, [AnyCall]_vars PROVE LedgerInv'
  OBVIOUS
<1>1. VaultInv'
  BY VaultInvStep DEF LedgerInv
<1>2. CASE Admin
  <2>1. UNCHANGED <<ledger, queue>>
    BY <1>2 DEF Admin, SetSigner, SetKeeper, SetGuardian, SetPaused
  <2> QED BY <1>1, <2>1, LedgerUntouched
<1>3. CASE AnyAttested
  BY <1>1, <1>3, LedgerAttested
<1>4. CASE AnyKeeperCalls
  BY <1>1, <1>4, LedgerKeeperCalls
<1>5. CASE AnyUserCalls
  BY <1>1, <1>5, LedgerUserCalls
<1>6. CASE NextBlock \/ UNCHANGED vars
  <2>1. UNCHANGED <<ledger, queue>>
    BY <1>6 DEF NextBlock, vars
  <2> QED BY <1>1, <2>1, LedgerUntouched
<1> QED
  BY <1>2, <1>3, <1>4, <1>5, <1>6 DEF AnyCall

LEMMA LedgerInit == Init => LedgerInv
<1> SUFFICES ASSUME Init PROVE LedgerInv
  OBVIOUS
<1>1. VaultInv
  BY TypeInit, ClockInit DEF VaultInv
<1>2. QueueWellFormed
  BY DEF Init, QueueWellFormed, NoDeposit, NoRedeem
<1>3. HighWaterMarkSet /\ CreatorOpened
  BY DEF Init, HighWaterMarkSet, CreatorOpened, EmptyVault, NoRedeem
<1>4. ASSUME NEW idx \in Indices
      PROVE  Balanced(positions, vaults, pendingRedeems, idx)
  <2>1. SharesIn(positions, idx) = 0
    <3> DEFINE f == [a \in Accounts |-> positions[idx][a].shares]
    <3>1. \A a \in 1..NumAccounts : f[a] = 0
      BY DEF Init, Accounts
    <3> HIDE DEF f
    <3>2. SumTo(f, NumAccounts) = 0
      BY <3>1, SumToZero, CountsAssumption
    <3> QED BY <3>2 DEF f, SharesIn
  <2>2. Redeeming(pendingRedeems, idx) = 0
    <3> DEFINE f == [id \in RequestIds |->
             IF pendingRedeems[id].indexId = idx THEN pendingRedeems[id].shares ELSE 0]
    <3>1. \A id \in 1..MaxRequestId : f[id] = 0
      BY DEF Init, RequestIds, NoRedeem
    <3> HIDE DEF f
    <3>2. SumTo(f, MaxRequestId) = 0
      BY <3>1, SumToZero, CountsAssumption
    <3> QED BY <3>2 DEF f, Redeeming
  <2>3. vaults[idx].totalShares = 0 /\ vaults[idx].creatorFeeShares = 0
    BY DEF Init, EmptyVault
  <2> QED
    BY <2>1, <2>2, <2>3 DEF Balanced, Owned
<1> QED
  BY <1>1, <1>2, <1>3, <1>4, BalancedNow DEF LedgerInv

LEMMA LedgerAlways == Spec => []LedgerInv
BY LedgerInit, LedgerInvStep, CallsAreAny, PTL DEF Spec

\* Every share in totalShares has exactly one owner, whatever the callers do
\* and however many requests are open: no settlement, fee mint, claim or
\* redemption of HypeIndexVault.sol (L209-336) creates or loses a share of
\* somebody's.
THEOREM SharesConserved == Spec => []ShareConservation
<1>1. LedgerInv => ShareConservation
  BY DEF LedgerInv
<1> QED
  BY <1>1, LedgerAlways, PTL

\* A request id stands for one open request at most, a closed one leaves
\* nothing behind, and no redemption is empty: the test `who == address(0)` of
\* the handlers decides what it is meant to decide (L190-195, L278-333).
THEOREM QueueCorrect == Spec => []QueueWellFormed
<1>1. LedgerInv => QueueWellFormed
  BY DEF LedgerInv
<1> QED
  BY <1>1, LedgerAlways, PTL

\* Nobody but a creator claiming fees redeems without a high-water mark, so the
\* performance fee is skipped (L300) for nobody else.
THEOREM MarksCorrect == Spec => []HighWaterMarkSet
<1>1. LedgerInv => HighWaterMarkSet
  BY DEF LedgerInv
<1> QED
  BY <1>1, LedgerAlways, PTL

-----------------------------------------------------------------------------
(* Where the USDC is                                                        *)

\* What a deposit keeps in the reserve of index i.
Holds(d, i) == IF d.indexId = i /\ ~ d.pulled THEN d.usdcIn ELSE 0

Escrow(q, i) == SumTo([id \in RequestIds |-> Holds(q[id], i)], MaxRequestId)
Reserves(v) == SumTo([i \in Indices |-> v[i].usdcReserve], NumIndices)

LEMMA CoversNow ==
    ReserveCoversEscrow <=>
        \A i \in Indices : Escrow(pendingDeposits, i) <= vaults[i].usdcReserve
BY DEF ReserveCoversEscrow, EscrowedUsdc, Escrow, Holds

LEMMA CoversNext ==
    ReserveCoversEscrow' <=>
        \A i \in Indices : Escrow(pendingDeposits', i) <= vaults'[i].usdcReserve
BY DEF ReserveCoversEscrow, EscrowedUsdc, Escrow, Holds

LEMMA HeldNow == HeldIsReserves <=> held = Reserves(vaults)
BY DEF HeldIsReserves, Reserves

LEMMA HeldNext == HeldIsReserves' <=> held' = Reserves(vaults')
BY DEF HeldIsReserves, Reserves

LEMMA HoldsNat ==
    ASSUME NEW d \in PendingDeposit, NEW i PROVE Holds(d, i) \in Nat
BY DEF PendingDeposit, Holds

LEMMA EscrowNat ==
    ASSUME NEW q \in [RequestIds -> PendingDeposit], NEW i
    PROVE  Escrow(q, i) \in Nat
<1> DEFINE f == [id \in RequestIds |-> Holds(q[id], i)]
<1>1. \A id \in 1..MaxRequestId : f[id] \in Nat
  BY HoldsNat DEF RequestIds
<1> HIDE DEF f
<1>2. SumTo(f, MaxRequestId) \in Nat
  BY <1>1, SumToType, CountsAssumption
<1> QED
  BY <1>2 DEF f, Escrow

\* Changing one deposit changes what is in escrow by what it kept and keeps.
LEMMA EscrowMoved ==
    ASSUME NEW q \in [RequestIds -> PendingDeposit], NEW id \in RequestIds,
           NEW d \in PendingDeposit, NEW i
    PROVE  Escrow([q EXCEPT ![id] = d], i) =
              Escrow(q, i) - Holds(q[id], i) + Holds(d, i)
<1> DEFINE new == [q EXCEPT ![id] = d]
           f == [k \in RequestIds |-> Holds(q[k], i)]
           g == [k \in RequestIds |-> Holds(new[k], i)]
<1>1. \A k \in RequestIds : f[k] \in Nat
  BY HoldsNat
<1>2. NatTerms(f, MaxRequestId) /\ SameBut(f, g, MaxRequestId, id)
  BY <1>1 DEF NatTerms, SameBut, RequestIds
<1>3. f[id] = Holds(q[id], i) /\ g[id] = Holds(d, i) /\ g[id] \in Nat
  BY HoldsNat
<1>4. id \in 1..MaxRequestId /\ MaxRequestId \in Nat
  BY CountsAssumption DEF RequestIds
<1> HIDE DEF f, g, new
<1>5. SumTo(g, MaxRequestId) = SumTo(f, MaxRequestId) - f[id] + g[id]
  BY ONLY <1>2, <1>3, <1>4, SumToChanged
<1> QED
  BY <1>3, <1>5 DEF Escrow, f, g, new

\* Changing one index changes the sum of the reserves by the difference.
LEMMA ReservesMoved ==
    ASSUME NEW v \in [Indices -> IndexVault], NEW idx \in Indices,
           NEW w \in IndexVault
    PROVE  Reserves([v EXCEPT ![idx] = w]) =
              Reserves(v) - v[idx].usdcReserve + w.usdcReserve
<1> DEFINE new == [v EXCEPT ![idx] = w]
           f == [i \in Indices |-> v[i].usdcReserve]
           g == [i \in Indices |-> new[i].usdcReserve]
<1>1. \A i \in Indices : f[i] \in Nat
  BY VaultFields
<1>2. NatTerms(f, NumIndices) /\ SameBut(f, g, NumIndices, idx)
  BY <1>1 DEF NatTerms, SameBut, Indices
<1>3. f[idx] = v[idx].usdcReserve /\ g[idx] = w.usdcReserve /\ g[idx] \in Nat
  BY VaultFields
<1>4. idx \in 1..NumIndices /\ NumIndices \in Nat
  BY CountsAssumption DEF Indices
<1> HIDE DEF f, g, new
<1>5. SumTo(g, NumIndices) = SumTo(f, NumIndices) - f[idx] + g[idx]
  BY ONLY <1>2, <1>3, <1>4, SumToChanged
<1> QED
  BY <1>3, <1>5 DEF Reserves, f, g, new

-----------------------------------------------------------------------------
(* The inductive invariant, and what a step must do to keep its parts *)

ReserveInv == LedgerInv /\ ReserveCoversEscrow /\ HeldIsReserves

\* A step that moves no USDC in or out and leaves the deposits alone.
LEMMA MoneyKept ==
    ASSUME ReserveInv, UNCHANGED <<pendingDeposits, held>>,
           TypeOK', \A i \in Indices : vaults'[i].usdcReserve = vaults[i].usdcReserve
    PROVE  ReserveCoversEscrow' /\ HeldIsReserves'
<1>1. ReserveCoversEscrow'
  BY CoversNow, CoversNext DEF ReserveInv
<1>2. Reserves(vaults') = Reserves(vaults)
  <2> DEFINE f == [i \in Indices |-> vaults[i].usdcReserve]
             g == [i \in Indices |-> vaults'[i].usdcReserve]
  <2>1. f = g
    OBVIOUS
  <2> QED
    BY <2>1 DEF Reserves
<1> QED
  BY <1>1, <1>2, HeldNow, HeldNext DEF ReserveInv

\* A step that replaces one index's record and the USDC held with it.
LEMMA HeldMoved ==
    ASSUME ReserveInv, NEW idx \in Indices, NEW w \in IndexVault,
           vaults' = [vaults EXCEPT ![idx] = w],
           held' = held - vaults[idx].usdcReserve + w.usdcReserve
    PROVE  HeldIsReserves'
<1>1. vaults \in [Indices -> IndexVault]
  BY DEF ReserveInv, LedgerInv, VaultInv, TypeOK
<1>2. Reserves(vaults') = Reserves(vaults) - vaults[idx].usdcReserve + w.usdcReserve
  BY <1>1, ReservesMoved
<1> QED
  BY <1>2, HeldNow, HeldNext DEF ReserveInv

\* A step that replaces one index's record and one deposit of that index: its
\* reserve does not shrink by more than the deposit releases.
LEMMA CoversMoved ==
    ASSUME ReserveInv, NEW idx \in Indices, NEW w \in IndexVault,
           NEW id \in RequestIds, NEW d \in PendingDeposit,
           vaults' = [vaults EXCEPT ![idx] = w],
           pendingDeposits' = [pendingDeposits EXCEPT ![id] = d],
           \A i \in Indices \ {idx} : Holds(d, i) <= Holds(pendingDeposits[id], i),
           vaults[idx].usdcReserve + Holds(d, idx)
              <= w.usdcReserve + Holds(pendingDeposits[id], idx)
    PROVE  ReserveCoversEscrow'
<1>1. /\ vaults \in [Indices -> IndexVault]
      /\ pendingDeposits \in [RequestIds -> PendingDeposit]
  BY DEF ReserveInv, LedgerInv, VaultInv, TypeOK
<1>2. ASSUME NEW i \in Indices
      PROVE  Escrow(pendingDeposits', i) <= vaults'[i].usdcReserve
  <2> DEFINE e == Escrow(pendingDeposits, i)
             old == Holds(pendingDeposits[id], i)
             new == Holds(d, i)
             r == vaults[i].usdcReserve
  <2>1. Escrow(pendingDeposits', i) = e - old + new
    BY <1>1, EscrowMoved
  <2>2. e \in Nat /\ old \in Nat /\ new \in Nat /\ r \in Nat /\ w.usdcReserve \in Nat
    BY <1>1, EscrowNat, HoldsNat, VaultFields
  <2>3. e <= r
    BY CoversNow DEF ReserveInv
  <2>4. CASE i = idx
    <3>1. vaults'[i].usdcReserve = w.usdcReserve
      BY <1>1, <2>4
    <3>2. r + new <= w.usdcReserve + old
      BY <2>4
    <3> HIDE DEF e, old, new, r
    <3> QED
      BY <2>1, <2>2, <2>3, <3>1, <3>2
  <2>5. CASE i # idx
    <3>1. vaults'[i].usdcReserve = r /\ new <= old
      BY <1>1, <2>5
    <3> HIDE DEF e, old, new, r
    <3> QED
      BY <2>1, <2>2, <2>3, <3>1
  <2> QED
    BY <2>4, <2>5
<1> QED
  BY <1>2, CoversNext

-----------------------------------------------------------------------------
(* The steps that move USDC, one lemma per function of the contract.       *)

LEMMA Typed ==
    ASSUME ReserveInv
    PROVE  /\ TypeOK /\ QueueWellFormed /\ held \in Nat
           /\ vaults \in [Indices -> IndexVault]
           /\ pendingDeposits \in [RequestIds -> PendingDeposit]
BY DEF ReserveInv, LedgerInv, VaultInv, TypeOK

\* A closed deposit keeps nothing in any reserve.
LEMMA NothingHeld ==
    /\ NoDeposit \in PendingDeposit
    /\ \A i \in Indices : Holds(NoDeposit, i) = 0
BY EmptyRequests DEF NoDeposit, Holds

LEMMA ReserveFields ==
    ASSUME NEW v \in IndexVault, NEW n \in Nat
    PROVE  /\ AddReserve(v, n) \in IndexVault
           /\ AddReserve(v, n).usdcReserve = v.usdcReserve + n
           /\ n <= v.usdcReserve => TakeReserve(v, n) \in IndexVault
           /\ TakeReserve(v, n).usdcReserve = v.usdcReserve - n
<1>1. v.usdcReserve \in Nat
  BY VaultFields
<1>2. v.usdcReserve + n \in Nat /\ (n <= v.usdcReserve => v.usdcReserve - n \in Nat)
  BY <1>1
<1>3. AddReserve(v, n) \in IndexVault
  BY <1>2, VaultWith DEF AddReserve
<1>4. n <= v.usdcReserve => TakeReserve(v, n) \in IndexVault
  BY <1>2, VaultWith DEF TakeReserve
<1>5. /\ AddReserve(v, n).usdcReserve = v.usdcReserve + n
      /\ TakeReserve(v, n).usdcReserve = v.usdcReserve - n
  BY DEF AddReserve, TakeReserve, IndexVault
<1> QED
  BY <1>3, <1>4, <1>5

LEMMA MoneyRequestDeposit ==
    ASSUME ReserveInv, NEW a \in Accounts, NEW idx \in Indices,
           NEW amount \in Nat, NEW min \in Nat, RequestDeposit(a, idx, amount, min)
    PROVE  ReserveCoversEscrow' /\ HeldIsReserves'
<1> DEFINE w == AddReserve(vaults[idx], amount)
           d == [indexId |-> idx, who |-> a, usdcIn |-> amount,
                 minSharesOut |-> min, pulled |-> FALSE]
<1>1. /\ vaults' = [vaults EXCEPT ![idx] = w]
      /\ pendingDeposits' = [pendingDeposits EXCEPT ![nextRequestId] = d]
      /\ held' = held + amount /\ nextRequestId <= MaxRequestId
      /\ nextRequestId' = nextRequestId + 1
  BY DEF RequestDeposit
<1>2. nextRequestId \in RequestIds /\ pendingDeposits[nextRequestId] = NoDeposit
  BY <1>1, Typed, NextIdTaken DEF QueueWellFormed, TypeOK
<1>3. w \in IndexVault /\ w.usdcReserve = vaults[idx].usdcReserve + amount
  BY Typed, ReserveFields
<1>4. vaults[idx].usdcReserve \in Nat
  BY Typed, VaultFields
<1>5. /\ d \in PendingDeposit /\ Holds(d, idx) = amount
      /\ \A i \in Indices \ {idx} : Holds(d, i) = 0
  BY DEF PendingDeposit, Holds, Indices, Accounts
<1> HIDE DEF w, d
<1>6. HeldIsReserves'
  <2>1. held' = held - vaults[idx].usdcReserve + w.usdcReserve
    BY <1>1, <1>3, <1>4, Typed
  <2> QED
    BY <1>1, <1>3, <2>1, HeldMoved
<1>7. ReserveCoversEscrow'
  <2>1. \A i \in Indices \ {idx} : Holds(d, i) <= Holds(pendingDeposits[nextRequestId], i)
    BY <1>2, <1>5, NothingHeld
  <2>2. vaults[idx].usdcReserve + Holds(d, idx)
           <= w.usdcReserve + Holds(pendingDeposits[nextRequestId], idx)
    BY <1>2, <1>3, <1>4, <1>5, NothingHeld
  <2> QED
    BY <1>1, <1>2, <1>3, <1>5, <2>1, <2>2, CoversMoved
<1> QED
  BY <1>6, <1>7

\* Both ways out of escrow take the deposit out of the reserve.
LEMMA EscrowLeft ==
    ASSUME ReserveInv, NEW id \in RequestIds, NEW d \in PendingDeposit,
           InEscrow(pendingDeposits[id]),
           pendingDeposits[id].usdcIn
              <= vaults[pendingDeposits[id].indexId].usdcReserve,
           pendingDeposits' = [pendingDeposits EXCEPT ![id] = d],
           vaults' = [vaults EXCEPT ![pendingDeposits[id].indexId] =
                         TakeReserve(@, pendingDeposits[id].usdcIn)],
           held' = held - pendingDeposits[id].usdcIn,
           \A i \in Indices : Holds(d, i) = 0
    PROVE  ReserveCoversEscrow' /\ HeldIsReserves'
<1> DEFINE p == pendingDeposits[id]
           idx == p.indexId
           w == TakeReserve(vaults[idx], p.usdcIn)
<1>1. /\ idx \in Indices /\ p.usdcIn \in Nat /\ vaults[idx] \in IndexVault
      /\ p.who # 0 /\ ~ p.pulled /\ p \in PendingDeposit
  BY Typed, LiveDeposit DEF InEscrow
<1>2. w \in IndexVault /\ w.usdcReserve = vaults[idx].usdcReserve - p.usdcIn
  BY <1>1, ReserveFields
<1>3. vaults[idx].usdcReserve \in Nat
  BY <1>1, VaultFields
<1>4. /\ Holds(p, idx) = p.usdcIn
      /\ \A i \in Indices : Holds(p, i) \in Nat
  BY <1>1, HoldsNat DEF Holds
<1>5. vaults' = [vaults EXCEPT ![idx] = w]
  BY <1>1, Typed
<1> HIDE DEF w
<1>6. HeldIsReserves'
  <2>1. held' = held - vaults[idx].usdcReserve + w.usdcReserve
    BY <1>1, <1>2, <1>3, Typed
  <2> QED
    BY <1>1, <1>2, <1>5, <2>1, HeldMoved
<1>7. ReserveCoversEscrow'
  <2>1. \A i \in Indices \ {idx} : Holds(d, i) <= Holds(p, i)
    BY <1>4
  <2>2. vaults[idx].usdcReserve + Holds(d, idx) <= w.usdcReserve + Holds(p, idx)
    BY <1>1, <1>2, <1>3, <1>4
  <2> QED
    BY <1>1, <1>2, <1>5, <2>1, <2>2, CoversMoved
<1> QED
  BY <1>6, <1>7

LEMMA MoneyPullForDeposit ==
    ASSUME ReserveInv, NEW c, NEW id \in RequestIds, PullForDeposit(c, id)
    PROVE  ReserveCoversEscrow' /\ HeldIsReserves'
<1> DEFINE d == [pendingDeposits[id] EXCEPT !.pulled = TRUE]
<1>1. d \in PendingDeposit /\ d.pulled
  BY Typed DEF PendingDeposit
<1>2. pendingDeposits' = [pendingDeposits EXCEPT ![id] = d]
  BY DEF PullForDeposit
<1> HIDE DEF d
<1>3. \A i \in Indices : Holds(d, i) = 0
  BY <1>1 DEF Holds
<1> QED
  BY <1>1, <1>2, <1>3, EscrowLeft DEF PullForDeposit

LEMMA MoneyCancelHeldDeposit ==
    ASSUME ReserveInv, NEW c, NEW id \in RequestIds, CancelHeldDeposit(c, id)
    PROVE  ReserveCoversEscrow' /\ HeldIsReserves'
BY NothingHeld, EscrowLeft DEF CancelHeldDeposit

\* A deposit that is closed after the pull keeps nothing in the reserve, so
\* the reserve needs to stay only as large as it is.
LEMMA FlightEnded ==
    ASSUME ReserveInv, NEW id \in RequestIds, InFlight(pendingDeposits[id]),
           pendingDeposits' = [pendingDeposits EXCEPT ![id] = NoDeposit],
           NEW w \in IndexVault,
           vaults' = [vaults EXCEPT ![pendingDeposits[id].indexId] = w],
           w.usdcReserve = vaults[pendingDeposits[id].indexId].usdcReserve,
           UNCHANGED held
    PROVE  ReserveCoversEscrow' /\ HeldIsReserves'
<1> DEFINE p == pendingDeposits[id]
           idx == p.indexId
<1>1. idx \in Indices /\ vaults[idx] \in IndexVault /\ p.pulled
  BY Typed, LiveDeposit DEF InFlight
<1>2. \A i \in Indices : Holds(p, i) = 0
  BY <1>1 DEF Holds
<1>3. vaults[idx].usdcReserve \in Nat
  BY <1>1, VaultFields
<1>4. HeldIsReserves'
  <2>1. held' = held - vaults[idx].usdcReserve + w.usdcReserve
    BY <1>3, Typed
  <2> QED
    BY <1>1, <2>1, HeldMoved
<1>5. ReserveCoversEscrow'
  <2>1. \A i \in Indices \ {idx} : Holds(NoDeposit, i) <= Holds(p, i)
    BY <1>2, NothingHeld
  <2>2. vaults[idx].usdcReserve + Holds(NoDeposit, idx) <= w.usdcReserve + Holds(p, idx)
    BY <1>1, <1>2, <1>3, NothingHeld
  <2> QED
    BY <1>1, <2>1, <2>2, NothingHeld, CoversMoved
<1> QED
  BY <1>4, <1>5

LEMMA MoneySettleDeposit ==
    ASSUME ReserveInv, NEW c, NEW id \in RequestIds, NEW nav \in Nat,
           NEW value \in Nat, NEW at, NEW by,
           SettleDeposit(c, id, nav, value, at, by)
    PROVE  ReserveCoversEscrow' /\ HeldIsReserves'
<1> DEFINE d == pendingDeposits[id]
           shares == SharesFor(value, nav)
           w == Mint(vaults[d.indexId], shares, nav)
<1>1. /\ InFlight(d) /\ UNCHANGED held
      /\ pendingDeposits' = [pendingDeposits EXCEPT ![id] = NoDeposit]
  BY DEF SettleDeposit, token
<1>2. d.indexId \in Indices /\ vaults[d.indexId] \in IndexVault /\ shares \in Nat
  BY <1>1, Typed, LiveDeposit, SettledShares DEF InFlight
<1>3. vaults' = [vaults EXCEPT ![d.indexId] = w]
  BY <1>2, Typed DEF SettleDeposit
<1>4. w \in IndexVault
  BY <1>2, MintType
<1>5. w.usdcReserve = vaults[d.indexId].usdcReserve
  BY <1>2 DEF Mint, IndexVault
<1> HIDE DEF w
<1> QED
  BY <1>1, <1>3, <1>4, <1>5, FlightEnded

LEMMA MoneyCancelPulledDeposit ==
    ASSUME ReserveInv, NEW c, NEW id \in RequestIds, NEW amount,
           CancelPulledDeposit(c, id, amount)
    PROVE  ReserveCoversEscrow' /\ HeldIsReserves'
<1> DEFINE idx == pendingDeposits[id].indexId
           w == vaults[idx]
<1>1. /\ InFlight(pendingDeposits[id]) /\ UNCHANGED <<vaults, held>>
      /\ pendingDeposits' = [pendingDeposits EXCEPT ![id] = NoDeposit]
  BY DEF CancelPulledDeposit, ledger
<1>2. w \in IndexVault
  BY <1>1, Typed, LiveDeposit DEF InFlight
<1>3. vaults' = [vaults EXCEPT ![idx] = w]
  BY <1>1, Typed
<1> QED
  BY <1>1, <1>2, <1>3, FlightEnded

LEMMA MoneySettleRedeem ==
    ASSUME ReserveInv, TypeOK', NEW c, NEW id \in RequestIds, NEW received \in Nat,
           NEW nav \in Nat, NEW at, NEW by,
           SettleRedeem(c, id, received, nav, at, by)
    PROVE  ReserveCoversEscrow' /\ HeldIsReserves'
<1> DEFINE r == pendingRedeems[id]
           idx == r.indexId
           fee == PerfFeeUsdc(r, nav, received)
           w == Burn(vaults[idx], r.shares, fee, SharesFor(fee, nav))
<1>1. /\ held' = held + fee /\ UNCHANGED pendingDeposits /\ r.who # 0
      /\ vaults' = [vaults EXCEPT ![r.indexId] =
                      Burn(@, r.shares, fee, SharesFor(fee, nav))]
  BY DEF SettleRedeem
<1>2. idx \in Indices /\ vaults[idx] \in IndexVault /\ r \in PendingRedeem
  BY <1>1, Typed, LiveRedeem
<1>3. fee \in Nat
  BY <1>2, PerfFeeNat
<1>4. w.usdcReserve = vaults[idx].usdcReserve + fee
  BY <1>2 DEF Burn, MintFee, IndexVault
<1>5. vaults' = [vaults EXCEPT ![idx] = w]
  BY <1>1, <1>2, Typed
<1>6. w \in IndexVault /\ vaults[idx].usdcReserve \in Nat
  <2>1. vaults'[idx] = w
    BY <1>2, <1>5, Typed
  <2>2. vaults'[idx] \in IndexVault
    BY <1>2 DEF TypeOK
  <2> QED
    BY <1>2, <2>1, <2>2, VaultFields
<1> HIDE DEF w, fee
<1>7. HeldIsReserves'
  <2>1. held' = held - vaults[idx].usdcReserve + w.usdcReserve
    BY <1>1, <1>3, <1>4, <1>6, Typed
  <2> QED
    BY <1>2, <1>5, <1>6, <2>1, HeldMoved
<1>8. ReserveCoversEscrow'
  <2>1. \A i \in Indices : vaults[i].usdcReserve <= vaults'[i].usdcReserve
    <3>1. \A i \in Indices : vaults'[i] = IF i = idx THEN w ELSE vaults[i]
      BY <1>2, <1>5, Typed
    <3>2. \A i \in Indices : vaults[i].usdcReserve \in Nat
      BY Typed, VaultFields
    <3> QED
      BY <1>3, <1>4, <3>1, <3>2
  <2>2. \A i \in Indices : /\ Escrow(pendingDeposits, i) \in Nat
                           /\ vaults[i].usdcReserve \in Nat
                           /\ vaults'[i].usdcReserve \in Nat
    BY Typed, EscrowNat, VaultFields DEF TypeOK
  <2>3. \A i \in Indices : Escrow(pendingDeposits, i) <= vaults[i].usdcReserve
    BY CoversNow DEF ReserveInv
  <2>4. \A i \in Indices : Escrow(pendingDeposits, i) <= vaults'[i].usdcReserve
    BY <2>1, <2>2, <2>3
  <2> QED
    BY <1>1, <2>4, CoversNext
<1> QED
  BY <1>7, <1>8

-----------------------------------------------------------------------------
(* The step and the theorems *)

\* The calls that leave each reserve, the deposits and the balance alone.
LEMMA MoneyUntouched ==
    ASSUME ReserveInv, TypeOK', UNCHANGED <<vaults, pendingDeposits, held>>
    PROVE  ReserveCoversEscrow' /\ HeldIsReserves'
BY MoneyKept

LEMMA MoneyOneVault ==
    ASSUME ReserveInv, TypeOK', UNCHANGED <<pendingDeposits, held>>,
           NEW idx \in Indices, NEW w, vaults' = [vaults EXCEPT ![idx] = w],
           w.usdcReserve = vaults[idx].usdcReserve
    PROVE  ReserveCoversEscrow' /\ HeldIsReserves'
<1>1. \A i \in Indices : vaults'[i].usdcReserve = vaults[i].usdcReserve
  BY Typed
<1> QED
  BY <1>1, MoneyKept

LEMMA MoneyUpdateNav ==
    ASSUME ReserveInv, TypeOK', NEW c, NEW idx \in Indices, NEW nav, NEW at, NEW by,
           UpdateNav(c, idx, nav, at, by)
    PROVE  ReserveCoversEscrow' /\ HeldIsReserves'
<1> DEFINE w == [vaults[idx] EXCEPT !.lastNav = nav]
<1>1. vaults' = [vaults EXCEPT ![idx] = w] /\ UNCHANGED <<pendingDeposits, held>>
  BY DEF UpdateNav, queue, token
<1>2. w.usdcReserve = vaults[idx].usdcReserve
  BY Typed DEF IndexVault
<1> HIDE DEF w
<1> QED
  BY <1>1, <1>2, MoneyOneVault

LEMMA MoneyOpenVault ==
    ASSUME ReserveInv, TypeOK', NEW c, NEW idx \in Indices, NEW creator,
           OpenVault(c, idx, creator)
    PROVE  ReserveCoversEscrow' /\ HeldIsReserves'
<1> DEFINE w == [vaults[idx] EXCEPT !.active = TRUE, !.creator = creator,
                                    !.lastMgmtAccrualAt = now]
<1>1. vaults' = [vaults EXCEPT ![idx] = w] /\ UNCHANGED <<pendingDeposits, held>>
  BY DEF OpenVault, queue, token
<1>2. w.usdcReserve = vaults[idx].usdcReserve
  BY Typed DEF IndexVault
<1> HIDE DEF w
<1> QED
  BY <1>1, <1>2, MoneyOneVault

LEMMA MoneyAccrueMgmt ==
    ASSUME ReserveInv, TypeOK', NEW c, NEW idx \in Indices, AccrueMgmt(c, idx)
    PROVE  ReserveCoversEscrow' /\ HeldIsReserves'
<1> DEFINE fee == MgmtFeeShares(vaults[idx].totalShares,
                                now - vaults[idx].lastMgmtAccrualAt)
           w == Charged(vaults[idx], fee, now)
<1>1. vaults' = [vaults EXCEPT ![idx] = w] /\ UNCHANGED <<pendingDeposits, held>>
  BY DEF AccrueMgmt, queue, token
<1> HIDE DEF fee
<1>2. w.usdcReserve = vaults[idx].usdcReserve
  BY Typed DEF Charged, MintFee, IndexVault
<1> HIDE DEF w
<1> QED
  BY <1>1, <1>2, MoneyOneVault

LEMMA MoneyClaimFees ==
    ASSUME ReserveInv, TypeOK', NEW c, NEW idx \in Indices, ClaimFees(c, idx)
    PROVE  ReserveCoversEscrow' /\ HeldIsReserves'
<1> DEFINE w == Claimed(vaults[idx])
<1>1. vaults' = [vaults EXCEPT ![idx] = w] /\ UNCHANGED <<pendingDeposits, held>>
  BY DEF ClaimFees, token
<1>2. w.usdcReserve = vaults[idx].usdcReserve
  BY Typed DEF Claimed, IndexVault
<1> HIDE DEF w
<1> QED
  BY <1>1, <1>2, MoneyOneVault

LEMMA ReserveInvStep == ReserveInv /\ [AnyCall]_vars => ReserveInv'
<1> SUFFICES ASSUME ReserveInv, [AnyCall]_vars PROVE ReserveInv'
  OBVIOUS
<1>1. LedgerInv' /\ TypeOK'
  BY LedgerInvStep DEF ReserveInv, LedgerInv, VaultInv
<1>2. \A amount \in Nat : amount \in Nat
  BY InputsAssumption
<1>3. CASE Admin \/ NextBlock \/ UNCHANGED vars
  <2>1. UNCHANGED <<vaults, pendingDeposits, held>>
    BY <1>3 DEF Admin, SetSigner, SetKeeper, SetGuardian, SetPaused, NextBlock,
                vars, ledger, queue, token
  <2> QED
    BY <1>1, <2>1, MoneyUntouched DEF ReserveInv
<1>4. CASE AnyAttested
  <2>1. PICK c \in Accounts, nav \in Nat, at \in Nat, by \in Accounts :
          \/ \E idx \in Indices : UpdateNav(c, idx, nav, at, by)
          \/ \E id \in RequestIds, amount \in Nat :
                \/ SettleDeposit(c, id, nav, amount, at, by)
                \/ SettleRedeem(c, id, amount, nav, at, by)
    BY <1>4 DEF AnyAttested
  <2>2. nav \in Nat
    BY InputsAssumption
  <2>3. ReserveCoversEscrow' /\ HeldIsReserves'
    BY <1>1, <1>2, <2>1, <2>2, MoneyUpdateNav, MoneySettleDeposit, MoneySettleRedeem
  <2> QED
    BY <1>1, <2>3 DEF ReserveInv
<1>5. CASE AnyKeeperCalls
  <2>1. ReserveCoversEscrow' /\ HeldIsReserves'
    BY <1>1, <1>5, MoneyOpenVault, MoneyAccrueMgmt, MoneyPullForDeposit,
       MoneyCancelHeldDeposit, MoneyCancelPulledDeposit DEF AnyKeeperCalls
  <2> QED
    BY <1>1, <2>1 DEF ReserveInv
<1>6. CASE AnyUserCalls
  <2>1. PICK a \in Accounts, idx \in Indices :
          \/ \E amount \in Nat, min \in Nat :
                \/ RequestDeposit(a, idx, amount, min)
                \/ RequestRedeem(a, idx, amount, min)
          \/ ClaimFees(a, idx)
    BY <1>6 DEF AnyUserCalls
  <2>2. ASSUME NEW amount, NEW min, RequestRedeem(a, idx, amount, min)
        PROVE  UNCHANGED <<vaults, pendingDeposits, held>>
    BY <2>2 DEF RequestRedeem, token
  <2>3. ReserveCoversEscrow' /\ HeldIsReserves'
    BY <1>1, <1>2, <2>1, <2>2, MoneyRequestDeposit, MoneyClaimFees, MoneyUntouched
  <2> QED
    BY <1>1, <2>3 DEF ReserveInv
<1> QED
  BY <1>3, <1>4, <1>5, <1>6 DEF AnyCall

LEMMA ReserveInit == Init => ReserveInv
<1> SUFFICES ASSUME Init PROVE ReserveInv
  OBVIOUS
<1>1. LedgerInv
  BY LedgerInit
<1>2. ASSUME NEW i \in Indices PROVE Escrow(pendingDeposits, i) = 0
  <2> DEFINE f == [id \in RequestIds |-> Holds(pendingDeposits[id], i)]
  <2>1. \A id \in 1..MaxRequestId : f[id] = 0
    BY NothingHeld DEF Init, RequestIds
  <2> HIDE DEF f
  <2>2. SumTo(f, MaxRequestId) = 0
    BY <2>1, SumToZero, CountsAssumption
  <2> QED
    BY <2>2 DEF f, Escrow
<1>3. Reserves(vaults) = 0
  <2> DEFINE f == [i \in Indices |-> vaults[i].usdcReserve]
  <2>1. \A i \in 1..NumIndices : f[i] = 0
    BY DEF Init, Indices, EmptyVault
  <2> HIDE DEF f
  <2>2. SumTo(f, NumIndices) = 0
    BY <2>1, SumToZero, CountsAssumption
  <2> QED
    BY <2>2 DEF f, Reserves
<1>4. \A i \in Indices : vaults[i].usdcReserve = 0
  BY DEF Init, EmptyVault
<1>5. ReserveCoversEscrow
  BY <1>2, <1>4, CoversNow
<1>6. HeldIsReserves
  BY <1>3, HeldNow DEF Init
<1> QED
  BY <1>1, <1>5, <1>6 DEF ReserveInv

LEMMA ReserveAlways == Spec => []ReserveInv
BY ReserveInit, ReserveInvStep, CallsAreAny, PTL DEF Spec

\* The reserve of every index covers the deposits of that index that are still
\* in escrow, so a refund or a pull (L204, L246) never reverts on the reserve,
\* whatever fees, settlements and cancellations came before.
THEOREM EscrowCovered == Spec => []ReserveCoversEscrow
<1>1. ReserveInv => ReserveCoversEscrow
  BY DEF ReserveInv
<1> QED
  BY <1>1, ReserveAlways, PTL

\* The USDC the contract holds is what its indices' reserves add up to: no
\* index pays out another one's money (all transfers of L184-320).
THEOREM ReservesAddUp == Spec => []HeldIsReserves
<1>1. ReserveInv => HeldIsReserves
  BY DEF ReserveInv
<1> QED
  BY <1>1, ReserveAlways, PTL

\* Both of an index's books balance in every reachable state (L184-320).
THEOREM VaultSolvent == Spec => []Solvent
<1>1. ReserveInv => Solvent
  BY DEF ReserveInv, Solvent
<1> QED
  BY <1>1, ReserveAlways, PTL

-----------------------------------------------------------------------------
(* What a call may do                                                       *)

LEMMA Before ==
    ASSUME LedgerInv
    PROVE  /\ TypeOK /\ QueueWellFormed
           /\ \A id \in RequestIds :
                /\ pendingDeposits[id] \in PendingDeposit
                /\ pendingRedeems[id] \in PendingRedeem
                /\ id >= nextRequestId =>
                     pendingDeposits[id].who = 0 /\ pendingRedeems[id].who = 0
           /\ nextRequestId \in Nat
BY DEF LedgerInv, VaultInv, TypeOK, QueueWellFormed

-----------------------------------------------------------------------------
(* The queue implements RequestLifecycle                                    *)

\* One request moves and the others stay.
LEMMA Moves ==
    ASSUME NEW id \in RequestIds, NEW from, NEW to, UNCHANGED paused,
           \A j \in RequestIds \ {id} : RequestStatus(j)' = RequestStatus(j),
           RequestStatus(id) = from, RequestStatus(id)' = to
    PROVE  Lifecycle!Move(id, from, to)
BY DEF Lifecycle!Move

LEMMA SameIds == Lifecycle!Ids = RequestIds
BY DEF Lifecycle!Ids, RequestIds

\* A step that touches one deposit, one redemption, or opens the next id.
LEMMA OtherDeposits ==
    ASSUME LedgerInv, NEW id \in RequestIds, NEW d,
           pendingDeposits' = [pendingDeposits EXCEPT ![id] = d],
           UNCHANGED <<pendingRedeems, nextRequestId>>
    PROVE  \A j \in RequestIds \ {id} : RequestStatus(j)' = RequestStatus(j)
BY Before DEF RequestStatus, TypeOK

LEMMA OtherRedeems ==
    ASSUME LedgerInv, NEW id \in RequestIds, NEW r,
           pendingRedeems' = [pendingRedeems EXCEPT ![id] = r],
           UNCHANGED <<pendingDeposits, nextRequestId>>
    PROVE  \A j \in RequestIds \ {id} : RequestStatus(j)' = RequestStatus(j)
BY Before DEF RequestStatus, TypeOK

LEMMA OthersOpened ==
    ASSUME LedgerInv, NEW id, id = nextRequestId, id <= MaxRequestId,
           nextRequestId' = id + 1,
           \A j \in RequestIds \ {id} :
             /\ pendingDeposits'[j] = pendingDeposits[j]
             /\ pendingRedeems'[j] = pendingRedeems[j]
    PROVE  /\ id \in RequestIds /\ RequestStatus(id) = "unused"
           /\ Lifecycle!IsNext(id)
           /\ \A j \in RequestIds \ {id} : RequestStatus(j)' = RequestStatus(j)
<1>1. id \in RequestIds
  BY Before, NextIdTaken
<1>2. RequestStatus(id) = "unused"
  BY Before DEF RequestStatus
<1>3. ASSUME NEW j \in RequestIds, j < id PROVE RequestStatus(j) # "unused"
  BY <1>3, Before DEF RequestStatus, RequestIds
<1>4. ASSUME NEW j \in RequestIds \ {id} PROVE RequestStatus(j)' = RequestStatus(j)
  <2>1. j >= nextRequestId' <=> j >= nextRequestId
    BY Before DEF RequestIds
  <2> QED
    BY <2>1 DEF RequestStatus
<1>5. Lifecycle!IsNext(id)
  BY <1>1, <1>2, <1>3, SameIds DEF Lifecycle!IsNext
<1> QED
  BY <1>1, <1>2, <1>4, <1>5

LEMMA QueueRequestDeposit ==
    ASSUME LedgerInv, NEW a \in Accounts, NEW idx, NEW amount, NEW min,
           RequestDeposit(a, idx, amount, min),
           NEW id, id = nextRequestId
    PROVE  id \in RequestIds /\ Lifecycle!OpenDeposit(id)
<1> DEFINE d == [indexId |-> idx, who |-> a, usdcIn |-> amount,
                 minSharesOut |-> min, pulled |-> FALSE]
<1>1. /\ pendingDeposits' = [pendingDeposits EXCEPT ![id] = d]
      /\ id <= MaxRequestId /\ nextRequestId' = id + 1
      /\ UNCHANGED <<pendingRedeems, paused>> /\ ~ paused
  BY DEF RequestDeposit, WhenNotPaused, roles
<1>2. d.who # 0 /\ ~ d.pulled
  BY DEF Accounts
<1> HIDE DEF d
<1>3. /\ id \in RequestIds /\ Lifecycle!IsNext(id) /\ RequestStatus(id) = "unused"
      /\ \A j \in RequestIds \ {id} : RequestStatus(j)' = RequestStatus(j)
  BY <1>1, Before, OthersOpened DEF TypeOK
<1>4. RequestStatus(id)' = "held"
  BY <1>1, <1>2, <1>3, Before DEF RequestStatus, TypeOK
<1> QED
  BY <1>1, <1>3, <1>4, Moves DEF Lifecycle!OpenDeposit

\* Redemptions and claims open the same way; the mark tells them apart.
LEMMA RedeemOpens ==
    ASSUME LedgerInv, NEW id, id = nextRequestId, id <= MaxRequestId,
           nextRequestId' = id + 1, NEW r, r.who # 0,
           pendingRedeems' = [pendingRedeems EXCEPT ![id] = r],
           UNCHANGED <<pendingDeposits, paused>>
    PROVE  /\ id \in RequestIds /\ Lifecycle!IsNext(id)
           /\ Lifecycle!Move(id, "unused",
                             IF r.hwmNav = 0 THEN "claiming" ELSE "redeeming")
<1>1. /\ id \in RequestIds /\ Lifecycle!IsNext(id) /\ RequestStatus(id) = "unused"
      /\ \A j \in RequestIds \ {id} : RequestStatus(j)' = RequestStatus(j)
  BY Before, OthersOpened DEF TypeOK
<1>2. pendingDeposits[id].who = 0
  BY <1>1, Before
<1>3. RequestStatus(id)' = IF r.hwmNav = 0 THEN "claiming" ELSE "redeeming"
  BY <1>1, <1>2, Before DEF RequestStatus, TypeOK
<1> QED
  BY <1>1, <1>3, Moves

LEMMA QueueRequestRedeem ==
    ASSUME LedgerInv, NEW a \in Accounts, NEW idx \in Indices, NEW shares \in Nat,
           NEW min, RequestRedeem(a, idx, shares, min),
           NEW id, id = nextRequestId
    PROVE  id \in RequestIds /\ Lifecycle!OpenRedeem(id)
<1> DEFINE p == positions[idx][a]
           r == [indexId |-> idx, who |-> a, shares |-> shares,
                 hwmNav |-> p.hwmNav, minUsdcOut |-> min]
<1>1. /\ pendingRedeems' = [pendingRedeems EXCEPT ![id] = r]
      /\ id <= MaxRequestId /\ nextRequestId' = id + 1
      /\ UNCHANGED <<pendingDeposits, paused>> /\ ~ paused
      /\ shares # 0 /\ shares <= p.shares
  BY DEF RequestRedeem, WhenNotPaused, roles
<1>2. r.who # 0 /\ r.hwmNav # 0
  <2>1. p.shares > 0 => p.hwmNav > 0
    BY DEF LedgerInv, HighWaterMarkSet
  <2>2. p.shares \in Nat /\ p.hwmNav \in Nat
    BY Before DEF TypeOK, Position
  <2> HIDE DEF p
  <2> QED
    BY <1>1, <2>1, <2>2 DEF Accounts
<1> HIDE DEF r, p
<1> QED
  BY <1>1, <1>2, RedeemOpens DEF Lifecycle!OpenRedeem

LEMMA QueueClaimFees ==
    ASSUME LedgerInv, NEW c \in Accounts, NEW idx, ClaimFees(c, idx),
           NEW id, id = nextRequestId
    PROVE  id \in RequestIds /\ Lifecycle!OpenClaim(id)
<1> DEFINE r == [indexId |-> idx, who |-> vaults[idx].creator,
                 shares |-> vaults[idx].creatorFeeShares, hwmNav |-> 0, minUsdcOut |-> 0]
<1>1. /\ pendingRedeems' = [pendingRedeems EXCEPT ![id] = r]
      /\ id <= MaxRequestId /\ nextRequestId' = id + 1
      /\ UNCHANGED <<pendingDeposits, paused>> /\ vaults[idx].creator = c
  BY DEF ClaimFees, roles
<1>2. r.who # 0 /\ r.hwmNav = 0
  BY <1>1 DEF Accounts
<1> HIDE DEF r
<1> QED
  BY <1>1, <1>2, RedeemOpens DEF Lifecycle!OpenClaim

\* A request that exists has an id that was handed out.
LEMMA HandedOut ==
    ASSUME LedgerInv, NEW id \in RequestIds,
           pendingDeposits[id].who # 0 \/ pendingRedeems[id].who # 0
    PROVE  /\ ~ (id >= nextRequestId)
           /\ pendingDeposits[id].who = 0 \/ pendingRedeems[id].who = 0
BY Before DEF QueueWellFormed

LEMMA DepositMoves ==
    ASSUME LedgerInv, NEW id \in RequestIds, NEW d, pendingDeposits[id].who # 0,
           pendingDeposits' = [pendingDeposits EXCEPT ![id] = d],
           UNCHANGED <<pendingRedeems, nextRequestId, paused>>,
           d = NoDeposit \/ (d.who # 0 /\ d.pulled)
    PROVE  Lifecycle!Move(id, IF pendingDeposits[id].pulled THEN "inflight" ELSE "held",
                          IF d = NoDeposit THEN "closed" ELSE "inflight")
<1>1. /\ ~ (id >= nextRequestId) /\ pendingRedeems[id].who = 0
      /\ pendingDeposits'[id] = d
  BY HandedOut, Before DEF TypeOK
<1>2. RequestStatus(id) = IF pendingDeposits[id].pulled THEN "inflight" ELSE "held"
  BY <1>1 DEF RequestStatus
<1>3. RequestStatus(id)' = IF d = NoDeposit THEN "closed" ELSE "inflight"
  BY <1>1 DEF RequestStatus, NoDeposit
<1> QED
  BY <1>2, <1>3, OtherDeposits, Moves

LEMMA QueuePullForDeposit ==
    ASSUME LedgerInv, NEW c, NEW id \in RequestIds, PullForDeposit(c, id)
    PROVE  Lifecycle!Take(id)
<1> DEFINE d == [pendingDeposits[id] EXCEPT !.pulled = TRUE]
<1>1. /\ pendingDeposits' = [pendingDeposits EXCEPT ![id] = d]
      /\ UNCHANGED <<pendingRedeems, nextRequestId, paused>> /\ ~ paused
      /\ pendingDeposits[id].who # 0 /\ ~ pendingDeposits[id].pulled
  BY DEF PullForDeposit, WhenNotPaused, InEscrow, roles
<1>2. d.who # 0 /\ d.pulled /\ d # NoDeposit
  BY <1>1, Before DEF PendingDeposit, NoDeposit
<1> HIDE DEF d
<1> QED
  BY <1>1, <1>2, DepositMoves DEF Lifecycle!Take

LEMMA QueueSettleDeposit ==
    ASSUME LedgerInv, NEW c, NEW id \in RequestIds, NEW nav, NEW value, NEW at, NEW by,
           SettleDeposit(c, id, nav, value, at, by)
    PROVE  Lifecycle!Mint(id)
<1>1. /\ pendingDeposits' = [pendingDeposits EXCEPT ![id] = NoDeposit]
      /\ UNCHANGED <<pendingRedeems, nextRequestId, paused>> /\ ~ paused
      /\ pendingDeposits[id].who # 0 /\ pendingDeposits[id].pulled
  BY DEF SettleDeposit, WhenNotPaused, InFlight, roles
<1> QED
  BY <1>1, DepositMoves DEF Lifecycle!Mint

LEMMA QueueCancelDeposit ==
    ASSUME LedgerInv, NEW c, NEW id \in RequestIds,
           \/ CancelHeldDeposit(c, id)
           \/ \E amount \in Nat : CancelPulledDeposit(c, id, amount)
    PROVE  Lifecycle!Refund(id)
<1>1. /\ pendingDeposits' = [pendingDeposits EXCEPT ![id] = NoDeposit]
      /\ UNCHANGED <<pendingRedeems, nextRequestId, paused>>
      /\ pendingDeposits[id].who # 0
  BY DEF CancelHeldDeposit, CancelPulledDeposit, InEscrow, InFlight, roles
<1>2. Lifecycle!Move(id, IF pendingDeposits[id].pulled THEN "inflight" ELSE "held", "closed")
  BY <1>1, DepositMoves
<1> QED
  BY <1>2 DEF Lifecycle!Refund

LEMMA QueueSettleRedeem ==
    ASSUME LedgerInv, NEW c, NEW id \in RequestIds, NEW received, NEW nav, NEW at,
           NEW by, SettleRedeem(c, id, received, nav, at, by)
    PROVE  Lifecycle!Pay(id)
<1>1. /\ pendingRedeems' = [pendingRedeems EXCEPT ![id] = NoRedeem]
      /\ UNCHANGED <<pendingDeposits, nextRequestId, paused>> /\ ~ paused
      /\ pendingRedeems[id].who # 0
  BY DEF SettleRedeem, WhenNotPaused, roles
<1>2. /\ ~ (id >= nextRequestId) /\ pendingDeposits[id].who = 0
      /\ pendingRedeems'[id] = NoRedeem
  BY <1>1, HandedOut, Before DEF TypeOK
<1>3. RequestStatus(id)' = "closed"
  BY <1>1, <1>2 DEF RequestStatus, NoRedeem
<1>4. RequestStatus(id) \in {"claiming", "redeeming"}
  BY <1>1, <1>2 DEF RequestStatus
<1> QED
  BY <1>1, <1>3, <1>4, OtherRedeems, Moves DEF Lifecycle!Pay

LEMMA QueueUntouched ==
    ASSUME UNCHANGED queue
    PROVE  [id \in RequestIds |-> RequestStatus(id)]' = [id \in RequestIds |-> RequestStatus(id)]
BY DEF queue, RequestStatus

LEMMA LifecycleStep ==
    LedgerInv /\ [AnyCall]_vars =>
      [Lifecycle!LNext]_<<[id \in RequestIds |-> RequestStatus(id)], paused>>
<1> SUFFICES ASSUME LedgerInv, [AnyCall]_vars
             PROVE  \/ Lifecycle!LNext
                    \/ UNCHANGED <<[id \in RequestIds |-> RequestStatus(id)], paused>>
  OBVIOUS
<1> DEFINE next == nextRequestId
<1>1. CASE Admin
  <2>1. UNCHANGED queue /\ paused' \in BOOLEAN
    BY <1>1, Before DEF Admin, SetSigner, SetKeeper, SetGuardian, SetPaused, TypeOK
  <2> QED
    BY <2>1, QueueUntouched DEF Lifecycle!LNext, Lifecycle!Freeze
<1>2. CASE AnyAttested
  <2>1. PICK c \in Accounts, nav \in Nat, at \in Nat, by \in Accounts :
          \/ \E idx \in Indices : UpdateNav(c, idx, nav, at, by)
          \/ \E id \in RequestIds, amount \in Nat :
                \/ SettleDeposit(c, id, nav, amount, at, by)
                \/ SettleRedeem(c, id, amount, nav, at, by)
    BY <1>2 DEF AnyAttested
  <2>2. CASE \E idx \in Indices : UpdateNav(c, idx, nav, at, by)
    BY <2>2, QueueUntouched DEF UpdateNav, roles
  <2>3. CASE \E id \in RequestIds, amount \in Nat :
                \/ SettleDeposit(c, id, nav, amount, at, by)
                \/ SettleRedeem(c, id, amount, nav, at, by)
    BY <2>3, QueueSettleDeposit, QueueSettleRedeem, SameIds DEF Lifecycle!LNext
  <2> QED
    BY <2>1, <2>2, <2>3
<1>3. CASE AnyKeeperCalls
  <2>1. PICK c \in Accounts :
          \/ \E idx \in Indices, creator \in Accounts : OpenVault(c, idx, creator)
          \/ \E idx \in Indices : AccrueMgmt(c, idx)
          \/ \E id \in RequestIds :
                \/ PullForDeposit(c, id)
                \/ CancelHeldDeposit(c, id)
                \/ \E amount \in Nat : CancelPulledDeposit(c, id, amount)
    BY <1>3 DEF AnyKeeperCalls
  <2>2. CASE \/ \E idx \in Indices, creator \in Accounts : OpenVault(c, idx, creator)
             \/ \E idx \in Indices : AccrueMgmt(c, idx)
    BY <2>2, QueueUntouched DEF OpenVault, AccrueMgmt, roles
  <2>3. CASE \E id \in RequestIds :
                \/ PullForDeposit(c, id)
                \/ CancelHeldDeposit(c, id)
                \/ \E amount \in Nat : CancelPulledDeposit(c, id, amount)
    BY <2>3, QueuePullForDeposit, QueueCancelDeposit, SameIds DEF Lifecycle!LNext
  <2> QED
    BY <2>1, <2>2, <2>3
<1>4. CASE AnyUserCalls
  <2>1. \A amount \in Nat : amount \in Nat
    BY InputsAssumption
  <2>2. \E id \in RequestIds : \/ Lifecycle!OpenDeposit(id) \/ Lifecycle!OpenRedeem(id)
                               \/ Lifecycle!OpenClaim(id)
    BY <1>4, <2>1, QueueRequestDeposit, QueueRequestRedeem, QueueClaimFees
       DEF AnyUserCalls
  <2> QED
    BY <2>2, SameIds DEF Lifecycle!LNext
<1>5. CASE NextBlock \/ UNCHANGED vars
  BY <1>5, QueueUntouched DEF NextBlock, vars, roles
<1> QED
  BY <1>1, <1>2, <1>3, <1>4, <1>5 DEF AnyCall

LEMMA LifecycleInit == Init => Lifecycle!LInit
BY SameIds DEF Init, Lifecycle!LInit, RequestStatus, RequestIds, NoDeposit, NoRedeem

\* The two mappings and the id counter of the contract behave like one request
\* queue: ids used once and in order, each request closed at most once, no
\* settlement without a pull, nothing but refunds and claims while paused.
THEOREM QueueImplementsLifecycle == Spec => ImplementsLifecycle
BY LedgerAlways, LifecycleInit, LifecycleStep, CallsAreAny, PTL
   DEF Spec, ImplementsLifecycle, Lifecycle!LSpec

-----------------------------------------------------------------------------
(* The action properties                                                    *)

\* What the calls that close a request have in common: they close one.
LEMMA ClosesDeposit ==
    ASSUME LedgerInv, NEW id \in RequestIds, NEW d, NEW k \in RequestIds,
           pendingDeposits' = [pendingDeposits EXCEPT ![k] = d],
           Closed(pendingDeposits, id)
    PROVE  id = k /\ d.who = 0
BY Before DEF Closed, TypeOK

LEMMA ClosesRedeem ==
    ASSUME LedgerInv, NEW id \in RequestIds, NEW r, NEW k \in RequestIds,
           pendingRedeems' = [pendingRedeems EXCEPT ![k] = r],
           Closed(pendingRedeems, id)
    PROVE  id = k /\ r.who = 0
BY Before DEF Closed, TypeOK

LEMMA NextInIds ==
    ASSUME LedgerInv, nextRequestId <= MaxRequestId PROVE nextRequestId \in RequestIds
BY Before DEF RequestIds, TypeOK

\* Which calls close a deposit or a redemption.
LEMMA DepositClosers ==
    ASSUME LedgerInv, AnyCall, NEW id \in RequestIds, Closed(pendingDeposits, id)
    PROVE  \E c \in Accounts :
             \/ CancelHeldDeposit(c, id)
             \/ \E amount \in Nat : CancelPulledDeposit(c, id, amount)
             \/ /\ InFlight(pendingDeposits[id])
                /\ \E nav \in Nat, at \in Nat, by \in Accounts,
                      amount \in Nat : SettleDeposit(c, id, nav, amount, at, by)
<1>1. pendingDeposits' # pendingDeposits
  BY DEF Closed
<1>2. CASE Admin \/ NextBlock
  BY <1>1, <1>2 DEF Admin, SetSigner, SetKeeper, SetGuardian, SetPaused, NextBlock, queue
<1>3. CASE AnyAttested
  <2>1. PICK c \in Accounts, nav \in Nat, at \in Nat, by \in Accounts :
          \/ \E idx \in Indices : UpdateNav(c, idx, nav, at, by)
          \/ \E k \in RequestIds, amount \in Nat :
                \/ SettleDeposit(c, k, nav, amount, at, by)
                \/ SettleRedeem(c, k, amount, nav, at, by)
    BY <1>3 DEF AnyAttested
  <2>2. PICK k \in RequestIds, amount \in Nat : SettleDeposit(c, k, nav, amount, at, by)
    BY <1>1, <2>1 DEF UpdateNav, SettleRedeem, queue
  <2>3. k = id
    BY <2>2, ClosesDeposit DEF SettleDeposit
  <2> QED
    BY <2>2, <2>3 DEF SettleDeposit
<1>4. CASE AnyKeeperCalls
  <2>1. PICK c \in Accounts :
          \/ \E idx \in Indices, creator \in Accounts : OpenVault(c, idx, creator)
          \/ \E idx \in Indices : AccrueMgmt(c, idx)
          \/ \E k \in RequestIds :
                \/ PullForDeposit(c, k)
                \/ CancelHeldDeposit(c, k)
                \/ \E amount \in Nat : CancelPulledDeposit(c, k, amount)
    BY <1>4 DEF AnyKeeperCalls
  <2>2. PICK k \in RequestIds :
                \/ PullForDeposit(c, k)
                \/ CancelHeldDeposit(c, k)
                \/ \E amount \in Nat : CancelPulledDeposit(c, k, amount)
    BY <1>1, <2>1 DEF OpenVault, AccrueMgmt, queue
  <2>3. CASE PullForDeposit(c, k)
    <3> DEFINE d == [pendingDeposits[k] EXCEPT !.pulled = TRUE]
    <3>1. pendingDeposits' = [pendingDeposits EXCEPT ![k] = d]
      BY <2>3 DEF PullForDeposit
    <3>2. d.who # 0
      BY <2>3, Before DEF PullForDeposit, InEscrow, PendingDeposit
    <3> HIDE DEF d
    <3> QED
      BY <3>1, <3>2, ClosesDeposit
  <2>4. CASE CancelHeldDeposit(c, k)
    BY <2>4, ClosesDeposit DEF CancelHeldDeposit
  <2>5. CASE \E amount \in Nat : CancelPulledDeposit(c, k, amount)
    <3>1. k = id
      BY <2>5, ClosesDeposit DEF CancelPulledDeposit
    <3> QED
      BY <2>5, <3>1
  <2> QED
    BY <2>2, <2>3, <2>4, <2>5
<1>5. CASE AnyUserCalls
  <2>1. PICK a \in Accounts, idx \in Indices, amount \in Nat, min \in Nat :
          RequestDeposit(a, idx, amount, min)
    BY <1>1, <1>5 DEF AnyUserCalls, RequestRedeem, ClaimFees
  <2> DEFINE d == [indexId |-> idx, who |-> a, usdcIn |-> amount,
                   minSharesOut |-> min, pulled |-> FALSE]
  <2>2. /\ pendingDeposits' = [pendingDeposits EXCEPT ![nextRequestId] = d]
        /\ nextRequestId \in RequestIds
    BY <2>1, NextInIds DEF RequestDeposit
  <2>3. d.who # 0
    BY DEF Accounts
  <2> HIDE DEF d
  <2> QED
    BY <2>2, <2>3, ClosesDeposit
<1> QED
  BY <1>2, <1>3, <1>4, <1>5 DEF AnyCall

LEMMA RedeemClosers ==
    ASSUME LedgerInv, AnyCall, NEW id \in RequestIds, Closed(pendingRedeems, id)
    PROVE  \E c \in Accounts, nav \in Nat, at \in Nat, by \in Accounts,
              amount \in Nat : SettleRedeem(c, id, amount, nav, at, by)
<1>1. pendingRedeems' # pendingRedeems
  BY DEF Closed
<1>2. CASE Admin \/ NextBlock \/ AnyKeeperCalls
  BY <1>1, <1>2 DEF Admin, SetSigner, SetKeeper, SetGuardian, SetPaused, NextBlock,
     AnyKeeperCalls, OpenVault, AccrueMgmt, PullForDeposit, CancelHeldDeposit,
     CancelPulledDeposit, queue
<1>3. CASE AnyAttested
  <2>1. PICK c \in Accounts, nav \in Nat, at \in Nat, by \in Accounts :
          \/ \E idx \in Indices : UpdateNav(c, idx, nav, at, by)
          \/ \E k \in RequestIds, amount \in Nat :
                \/ SettleDeposit(c, k, nav, amount, at, by)
                \/ SettleRedeem(c, k, amount, nav, at, by)
    BY <1>3 DEF AnyAttested
  <2>2. PICK k \in RequestIds, amount \in Nat : SettleRedeem(c, k, amount, nav, at, by)
    BY <1>1, <2>1 DEF UpdateNav, SettleDeposit, queue
  <2>3. k = id
    BY <2>2, ClosesRedeem DEF SettleRedeem
  <2> QED
    BY <2>2, <2>3
<1>4. CASE AnyUserCalls
  <2>1. PICK a \in Accounts, idx \in Indices :
          \/ \E amount \in Nat, min \in Nat : RequestRedeem(a, idx, amount, min)
          \/ ClaimFees(a, idx)
    BY <1>1, <1>4 DEF AnyUserCalls, RequestDeposit
  <2>2. ASSUME NEW amount, NEW min, RequestRedeem(a, idx, amount, min) PROVE FALSE
    <3> DEFINE r == [indexId |-> idx, who |-> a, shares |-> amount,
                     hwmNav |-> positions[idx][a].hwmNav, minUsdcOut |-> min]
    <3>1. /\ pendingRedeems' = [pendingRedeems EXCEPT ![nextRequestId] = r]
          /\ nextRequestId \in RequestIds
      BY <2>2, NextInIds DEF RequestRedeem
    <3>2. r.who # 0
      BY DEF Accounts
    <3> HIDE DEF r
    <3> QED
      BY <3>1, <3>2, ClosesRedeem
  <2>3. ASSUME ClaimFees(a, idx) PROVE FALSE
    <3> DEFINE v == vaults[idx]
               r == [indexId |-> idx, who |-> v.creator, shares |-> v.creatorFeeShares,
                     hwmNav |-> 0, minUsdcOut |-> 0]
    <3>1. /\ pendingRedeems' = [pendingRedeems EXCEPT ![nextRequestId] = r]
          /\ nextRequestId \in RequestIds /\ v.creator = a
      BY <2>3, NextInIds DEF ClaimFees
    <3>2. r.who # 0
      BY <3>1 DEF Accounts
    <3> HIDE DEF r
    <3> QED
      BY <3>1, <3>2, ClosesRedeem
  <2> QED
    BY <2>1, <2>2, <2>3
<1> QED
  BY <1>2, <1>3, <1>4 DEF AnyCall

\* A deposit cancelled while still in escrow gives its owner back every unit of
\* it, however many deposits and indices there are (L246-247).
THEOREM EscrowRefunded == Spec => EscrowRefundIsWhole
<1> DEFINE Whole == \A id \in RequestIds :
                       LET d == pendingDeposits[id] IN
                       Closed(pendingDeposits, id) /\ ~ d.pulled
                          => wallet'[d.who] = wallet[d.who] + d.usdcIn
<1>1. LedgerInv /\ [AnyCall]_vars => [Whole]_vars
  <2> SUFFICES ASSUME LedgerInv, AnyCall, NEW id \in RequestIds,
                      Closed(pendingDeposits, id), ~ pendingDeposits[id].pulled
               PROVE  wallet'[pendingDeposits[id].who] =
                         wallet[pendingDeposits[id].who] + pendingDeposits[id].usdcIn
    OBVIOUS
  <2>1. PICK c \in Accounts : CancelHeldDeposit(c, id)
    BY DepositClosers DEF InFlight, CancelPulledDeposit
  <2>2. pendingDeposits[id].who \in Accounts /\ wallet \in [Accounts -> Nat]
    BY <2>1, Before, LiveDeposit DEF CancelHeldDeposit, InEscrow, TypeOK
  <2> QED
    BY <2>1, <2>2 DEF CancelHeldDeposit
<1> QED
  BY <1>1, LedgerAlways, CallsAreAny, PTL DEF Spec, EscrowRefundIsWhole

\* A settled redemption pays its owner at least the minimum it was requested
\* with, after the performance fee, for every NAV and every fee (L315-318).
THEOREM MinimumPaid == Spec => RedeemPaysMinimum
<1> DEFINE Minimum == \A id \in RequestIds :
                         LET r == pendingRedeems[id] IN
                         Closed(pendingRedeems, id)
                            => wallet'[r.who] >= r.minUsdcOut
                                  + (IF r.who = keeper THEN 0 ELSE wallet[r.who])
<1>1. LedgerInv /\ [AnyCall]_vars => [Minimum]_vars
  <2> SUFFICES ASSUME LedgerInv, AnyCall, NEW id \in RequestIds,
                      Closed(pendingRedeems, id)
               PROVE  wallet'[pendingRedeems[id].who] >= pendingRedeems[id].minUsdcOut
                         + (IF pendingRedeems[id].who = keeper THEN 0
                            ELSE wallet[pendingRedeems[id].who])
    OBVIOUS
  <2> DEFINE r == pendingRedeems[id]
  <2>1. PICK c \in Accounts, nav \in Nat, at \in Nat, by \in Accounts,
             amount \in Nat : SettleRedeem(c, id, amount, nav, at, by)
    BY RedeemClosers
  <2> DEFINE fee == PerfFeeUsdc(r, nav, amount)
  <2>2. /\ r.who \in Accounts /\ r.minUsdcOut \in Nat /\ r \in PendingRedeem
        /\ wallet \in [Accounts -> Nat]
    BY <2>1, Before, LiveRedeem DEF SettleRedeem, TypeOK
  <2>3. nav \in Nat /\ amount \in Nat
    BY InputsAssumption
  <2>4. fee \in Nat /\ fee <= amount
    BY <2>2, <2>3, PerfFeeNat
  <2>5. /\ amount - fee >= r.minUsdcOut
        /\ wallet' = [a \in Accounts |->
                         wallet[a] - (IF a = keeper THEN amount ELSE 0)
                                   + (IF a = r.who THEN amount - fee ELSE 0)]
    BY <2>1 DEF SettleRedeem, MeetsMinimum
  <2> HIDE DEF fee
  <2>6. wallet'[r.who] = wallet[r.who] - (IF r.who = keeper THEN amount ELSE 0)
                                       + (amount - fee)
    BY <2>2, <2>5
  <2>7. wallet[r.who] \in Nat /\ (r.who = keeper => amount <= wallet[r.who])
    BY <2>1, <2>2 DEF SettleRedeem
  <2> QED
    BY <2>2, <2>3, <2>4, <2>5, <2>6, <2>7
<1> QED
  BY <1>1, LedgerAlways, CallsAreAny, PTL DEF Spec, RedeemPaysMinimum

\* A pulled deposit is settled for at least the shares asked for, or cancelled at
\* the expense of the keeper alone (L209-250).
THEOREM PulledEnded == Spec => PulledEndsForItsOwner
<1> DEFINE Ended == \A id \in RequestIds :
              LET d == pendingDeposits[id] IN
              Closed(pendingDeposits, id) /\ d.pulled
                 => \/ /\ positions'[d.indexId][d.who].shares
                            >= positions[d.indexId][d.who].shares + d.minSharesOut
                       /\ UNCHANGED token
                    \/ /\ UNCHANGED <<ledger, held>>
                       /\ \A a \in Accounts \ {keeper, d.who} : wallet'[a] = wallet[a]
                       /\ wallet[keeper] + wallet[d.who]
                              = wallet'[keeper] + wallet'[d.who]
                       /\ wallet'[keeper] <= wallet[keeper]
<1>1. LedgerInv /\ [AnyCall]_vars => [Ended]_vars
  <2> DEFINE Settled(d) ==
               /\ positions'[d.indexId][d.who].shares
                    >= positions[d.indexId][d.who].shares + d.minSharesOut
               /\ UNCHANGED token
             Cancelled(d) ==
               /\ UNCHANGED <<ledger, held>>
               /\ \A a \in Accounts \ {keeper, d.who} : wallet'[a] = wallet[a]
               /\ wallet[keeper] + wallet[d.who] = wallet'[keeper] + wallet'[d.who]
               /\ wallet'[keeper] <= wallet[keeper]
  <2> SUFFICES ASSUME LedgerInv, AnyCall, NEW id \in RequestIds,
                      Closed(pendingDeposits, id), pendingDeposits[id].pulled
               PROVE  Settled(pendingDeposits[id]) \/ Cancelled(pendingDeposits[id])
    OBVIOUS
  <2> DEFINE d == pendingDeposits[id]
  <2>1. PICK c \in Accounts :
          \/ \E amount \in Nat : CancelPulledDeposit(c, id, amount)
          \/ \E nav \in Nat, at \in Nat, by \in Accounts, amount \in Nat :
                SettleDeposit(c, id, nav, amount, at, by)
    BY DepositClosers DEF CancelHeldDeposit, InEscrow
  <2>2. /\ d.who \in Accounts /\ d.indexId \in Indices /\ d.minSharesOut \in Nat
        /\ positions \in [Indices -> [Accounts -> Position]]
        /\ wallet \in [Accounts -> Nat] /\ keeper \in Accounts
    BY Before, LiveDeposit DEF Closed, TypeOK, PendingDeposit
  <2>3. CASE \E nav \in Nat, at \in Nat, by \in Accounts, amount \in Nat :
               SettleDeposit(c, id, nav, amount, at, by)
    <3>1. PICK nav \in Nat, at \in Nat, by \in Accounts, amount \in Nat :
            SettleDeposit(c, id, nav, amount, at, by)
      BY <2>3
    <3> DEFINE shares == SharesFor(amount, nav)
               p == Credit(positions[d.indexId][d.who], shares, nav)
    <3>2. /\ shares >= d.minSharesOut /\ UNCHANGED token
          /\ positions' = [positions EXCEPT ![d.indexId][d.who] = p]
      BY <3>1 DEF SettleDeposit
    <3>3. shares \in Nat
      BY <3>1, Before, SettledShares
    <3>4. p.shares = positions[d.indexId][d.who].shares + shares
      BY DEF Credit
    <3>5. positions'[d.indexId][d.who] = p
      BY <2>2, <3>2
    <3>6. positions[d.indexId][d.who].shares \in Nat
      BY <2>2 DEF Position
    <3> HIDE DEF shares, p
    <3> QED
      BY <2>2, <3>2, <3>3, <3>4, <3>5, <3>6
  <2>4. CASE \E amount \in Nat : CancelPulledDeposit(c, id, amount)
    <3>1. PICK amount \in Nat : CancelPulledDeposit(c, id, amount)
      BY <2>4
    <3>2. /\ UNCHANGED <<ledger, held>> /\ amount <= wallet[keeper]
          /\ wallet' = [a \in Accounts |->
                           wallet[a] - (IF a = keeper THEN amount ELSE 0)
                                     + (IF a = d.who THEN amount ELSE 0)]
      BY <3>1 DEF CancelPulledDeposit
    <3>3. \A a \in Accounts : wallet[a] \in Nat
      BY <2>2
    <3>4. \A a \in Accounts \ {keeper, d.who} : wallet'[a] = wallet[a]
      BY <3>2, <3>3
    <3>5. CASE d.who = keeper
      <4>1. wallet'[keeper] = wallet[keeper]
        BY <2>2, <3>2, <3>3, <3>5
      <4> QED
        BY <2>2, <3>2, <3>3, <3>4, <3>5, <4>1
    <3>6. CASE d.who # keeper
      <4>1. /\ wallet'[keeper] = wallet[keeper] - amount
            /\ wallet'[d.who] = wallet[d.who] + amount
        BY <2>2, <3>2, <3>3, <3>6
      <4> QED
        BY <2>2, <3>2, <3>3, <3>4, <4>1
    <3> QED
      BY <3>5, <3>6
  <2> QED
    BY <2>1, <2>3, <2>4
<1> QED
  BY <1>1, LedgerAlways, CallsAreAny, PTL DEF Spec, PulledEndsForItsOwner

\* Every closed request ended on the terms the contract has for it, whichever
\* way it was closed and whatever the amounts (L209-250, L315-318).
THEOREM TermsKept == Spec => ClosedOnItsTerms
BY EscrowRefunded, PulledEnded, MinimumPaid DEF ClosedOnItsTerms

\* While the guardian keeps the vault paused nobody gains shares, and USDC
\* leaves the contract only to refund a deposit in escrow (L184-250, L274-288).
THEOREM PauseFreezes == Spec => PauseFreezesValue
<1> DEFINE Frozen ==
      paused =>
        /\ \A idx \in Indices, a \in Accounts :
              positions'[idx][a].shares <= positions[idx][a].shares
        /\ held' < held =>
              \E id \in RequestIds :
                 /\ Closed(pendingDeposits, id)
                 /\ held - held' = pendingDeposits[id].usdcIn
                 /\ wallet'[pendingDeposits[id].who]
                       = wallet[pendingDeposits[id].who] + held - held'
<1>1. LedgerInv /\ [AnyCall]_vars => [Frozen]_vars
  <2> SUFFICES ASSUME LedgerInv, AnyCall, paused
               PROVE  /\ \A idx \in Indices, a \in Accounts :
                            positions'[idx][a].shares <= positions[idx][a].shares
                      /\ held' < held =>
                            \E id \in RequestIds :
                               /\ Closed(pendingDeposits, id)
                               /\ held - held' = pendingDeposits[id].usdcIn
                               /\ wallet'[pendingDeposits[id].who]
                                     = wallet[pendingDeposits[id].who] + held - held'
    OBVIOUS
  <2>1. /\ \A idx \in Indices, a \in Accounts : positions[idx][a].shares \in Nat
        /\ held \in Nat
    BY Before DEF TypeOK, Position
  <2>2. CASE UNCHANGED <<positions, held>>
    BY <2>1, <2>2
  <2>3. CASE \E c \in Accounts, id \in RequestIds : CancelHeldDeposit(c, id)
    <3>1. PICK c \in Accounts, id \in RequestIds : CancelHeldDeposit(c, id)
      BY <2>3
    <3> DEFINE d == pendingDeposits[id]
    <3>2. /\ d.who \in Accounts /\ d.who # 0 /\ d.usdcIn \in Nat
          /\ wallet \in [Accounts -> Nat]
      BY <3>1, Before, LiveDeposit DEF CancelHeldDeposit, InEscrow, TypeOK
    <3>3. /\ UNCHANGED positions /\ held' = held - d.usdcIn
          /\ wallet'[d.who] = wallet[d.who] + d.usdcIn
          /\ pendingDeposits' = [pendingDeposits EXCEPT ![id] = NoDeposit]
      BY <3>1, <3>2 DEF CancelHeldDeposit
    <3>4. Closed(pendingDeposits, id)
      BY <3>2, <3>3, Before DEF Closed, NoDeposit, TypeOK
    <3>5. wallet[d.who] \in Nat
      BY <3>2
    <3>6. held - held' = d.usdcIn /\ wallet'[d.who] = wallet[d.who] + held - held'
      BY <2>1, <3>2, <3>3, <3>5
    <3> QED
      BY <2>1, <3>3, <3>4, <3>6
  <2> QED
    <3>1. CASE Admin \/ NextBlock
      BY <2>2, <3>1 DEF Admin, SetSigner, SetKeeper, SetGuardian, SetPaused,
         NextBlock, ledger, token
    <3>2. CASE AnyAttested
      BY <2>2, <3>2 DEF AnyAttested, UpdateNav, SettleDeposit, SettleRedeem,
         WhenNotPaused, token
    <3>3. CASE AnyKeeperCalls
      BY <2>2, <2>3, <3>3 DEF AnyKeeperCalls, OpenVault, AccrueMgmt, PullForDeposit,
         CancelPulledDeposit, WhenNotPaused, ledger, token
    <3>4. CASE AnyUserCalls
      BY <2>2, <3>4 DEF AnyUserCalls, RequestDeposit, RequestRedeem, ClaimFees,
         WhenNotPaused, token
    <3> QED
      BY <3>1, <3>2, <3>3, <3>4 DEF AnyCall
<1> QED
  BY <1>1, LedgerAlways, CallsAreAny, PTL DEF Spec, PauseFreezesValue

\* The calls that write an index's record without touching its last NAV.
LEMMA SameNav ==
    ASSUME NEW v \in IndexVault, NEW m, NEW n, NEW k, NEW t
    PROVE  /\ AddReserve(v, n).lastNav = v.lastNav
           /\ TakeReserve(v, n).lastNav = v.lastNav
           /\ Charged(v, n, t).lastNav = v.lastNav
           /\ Burn(v, m, n, k).lastNav = v.lastNav
           /\ Claimed(v).lastNav = v.lastNav
           /\ [v EXCEPT !.active = TRUE, !.creator = m,
                        !.lastMgmtAccrualAt = t].lastNav = v.lastNav
           /\ [v EXCEPT !.lastNav = n].lastNav = n
           /\ Mint(v, m, n).lastNav = n
BY DEF IndexVault, AddReserve, TakeReserve, Charged, MintFee, Burn, Claimed, Mint

\* The baseline of an index moves only where an attested NAV passed the guard.
Accepted(i, w) ==
    /\ vaults' = [vaults EXCEPT ![i] = w] /\ w.lastNav # vaults[i].lastNav
    /\ UNCHANGED pendingRedeems /\ WithinDeviation(vaults[i].lastNav, w.lastNav)

LEMMA NavMoves ==
    ASSUME LedgerInv, AnyCall, NEW idx \in Indices,
           vaults'[idx].lastNav # vaults[idx].lastNav
    PROVE  \E i \in Indices : Accepted(i, vaults'[idx])
<1>1. vaults \in [Indices -> IndexVault] /\ vaults' # vaults
  BY Before DEF TypeOK
<1>2. ASSUME NEW i \in Indices, NEW w, vaults' = [vaults EXCEPT ![i] = w]
      PROVE  i = idx /\ vaults'[idx] = w /\ w.lastNav # vaults[i].lastNav
  BY <1>1, <1>2
<1>3. ASSUME NEW i \in Indices, NEW w, vaults' = [vaults EXCEPT ![i] = w],
             w.lastNav = vaults[i].lastNav
      PROVE  FALSE
  BY <1>2, <1>3
<1>4. CASE Admin \/ NextBlock
  BY <1>1, <1>4 DEF Admin, SetSigner, SetKeeper, SetGuardian, SetPaused, NextBlock, ledger
<1>5. CASE AnyAttested
  <2>1. PICK c \in Accounts, nav \in Nat, at \in Nat, by \in Accounts :
          \/ \E i \in Indices : UpdateNav(c, i, nav, at, by)
          \/ \E id \in RequestIds, amount \in Nat :
                \/ SettleDeposit(c, id, nav, amount, at, by)
                \/ SettleRedeem(c, id, amount, nav, at, by)
    BY <1>5 DEF AnyAttested
  <2>2. ASSUME NEW i \in Indices, UpdateNav(c, i, nav, at, by)
        PROVE  \E j \in Indices : Accepted(j, vaults'[idx])
    <3> DEFINE w == [vaults[i] EXCEPT !.lastNav = nav]
    <3>1. /\ vaults' = [vaults EXCEPT ![i] = w] /\ UNCHANGED pendingRedeems
          /\ WithinDeviation(vaults[i].lastNav, nav)
      BY <2>2 DEF UpdateNav, NavOK, queue
    <3>2. w.lastNav = nav
      BY <1>1, SameNav
    <3> HIDE DEF w
    <3> QED
      BY <1>2, <3>1, <3>2 DEF Accepted
  <2>3. ASSUME NEW id \in RequestIds, NEW amount \in Nat,
               SettleDeposit(c, id, nav, amount, at, by)
        PROVE  \E j \in Indices : Accepted(j, vaults'[idx])
    <3> DEFINE i == pendingDeposits[id].indexId
               shares == SharesFor(amount, nav)
               w == Mint(vaults[i], shares, nav)
    <3>1. /\ UNCHANGED pendingRedeems /\ pendingDeposits[id].who # 0
          /\ WithinDeviation(vaults[i].lastNav, nav)
          /\ vaults' = [vaults EXCEPT ![i] = Mint(@, shares, nav)]
      BY <2>3 DEF SettleDeposit, NavOK, InFlight
    <3>2. i \in Indices /\ vaults[i] \in IndexVault
      BY <3>1, Before, LiveDeposit
    <3> HIDE DEF shares
    <3>3. vaults' = [vaults EXCEPT ![i] = w]
      BY <1>1, <3>1, <3>2
    <3> HIDE DEF i
    <3>4. w.lastNav = nav
      BY <3>2, SameNav
    <3> HIDE DEF w
    <3> QED
      BY <1>2, <3>1, <3>2, <3>3, <3>4 DEF Accepted
  <2>4. ASSUME NEW id \in RequestIds, NEW amount \in Nat,
               SettleRedeem(c, id, amount, nav, at, by)
        PROVE  FALSE
    <3> DEFINE r == pendingRedeems[id]
               i == r.indexId
               fee == PerfFeeUsdc(r, nav, amount)
               feeShares == SharesFor(fee, nav)
               w == Burn(vaults[i], r.shares, fee, feeShares)
    <3>1. /\ r.who # 0
          /\ vaults' = [vaults EXCEPT ![i] = Burn(@, r.shares, fee, feeShares)]
      BY <2>4 DEF SettleRedeem
    <3>2. i \in Indices /\ vaults[i] \in IndexVault
      BY <3>1, Before, LiveRedeem
    <3> HIDE DEF feeShares, fee
    <3>3. vaults' = [vaults EXCEPT ![i] = w]
      BY <1>1, <3>1, <3>2
    <3> HIDE DEF i
    <3>4. w.lastNav = vaults[i].lastNav
      BY <3>2, SameNav
    <3> HIDE DEF w
    <3> QED
      BY <1>3, <3>2, <3>3, <3>4
  <2> QED
    BY <2>1, <2>2, <2>3, <2>4
<1>6. CASE AnyKeeperCalls
  <2>1. PICK c \in Accounts :
          \/ \E i \in Indices, creator \in Accounts : OpenVault(c, i, creator)
          \/ \E i \in Indices : AccrueMgmt(c, i)
          \/ \E id \in RequestIds :
                \/ PullForDeposit(c, id)
                \/ CancelHeldDeposit(c, id)
                \/ \E amount \in Nat : CancelPulledDeposit(c, id, amount)
    BY <1>6 DEF AnyKeeperCalls
  <2>2. ASSUME NEW i \in Indices, NEW creator \in Accounts, OpenVault(c, i, creator)
        PROVE  FALSE
    <3> DEFINE w == [vaults[i] EXCEPT !.active = TRUE, !.creator = creator,
                                      !.lastMgmtAccrualAt = now]
    <3>1. vaults' = [vaults EXCEPT ![i] = w]
      BY <2>2 DEF OpenVault
    <3>2. w.lastNav = vaults[i].lastNav
      BY <1>1, SameNav
    <3> HIDE DEF w
    <3> QED
      BY <1>3, <3>1, <3>2
  <2>3. ASSUME NEW i \in Indices, AccrueMgmt(c, i) PROVE FALSE
    <3> DEFINE fee == MgmtFeeShares(vaults[i].totalShares,
                                    now - vaults[i].lastMgmtAccrualAt)
               w == Charged(vaults[i], fee, now)
    <3>1. vaults' = [vaults EXCEPT ![i] = w]
      BY <2>3 DEF AccrueMgmt
    <3> HIDE DEF fee
    <3>2. w.lastNav = vaults[i].lastNav
      BY <1>1, SameNav
    <3> HIDE DEF w
    <3> QED
      BY <1>3, <3>1, <3>2
  <2>4. ASSUME NEW id \in RequestIds, PullForDeposit(c, id) \/ CancelHeldDeposit(c, id)
        PROVE  FALSE
    <3> DEFINE d == pendingDeposits[id]
               i == d.indexId
               w == TakeReserve(vaults[i], d.usdcIn)
    <3>1. /\ d.who # 0
          /\ vaults' = [vaults EXCEPT ![i] = TakeReserve(@, d.usdcIn)]
      BY <2>4 DEF PullForDeposit, CancelHeldDeposit, InEscrow
    <3>2. i \in Indices
      BY <3>1, Before, LiveDeposit
    <3>3. vaults' = [vaults EXCEPT ![i] = w]
      BY <1>1, <3>1, <3>2
    <3>4. w.lastNav = vaults[i].lastNav
      BY <1>1, <3>2, SameNav
    <3> HIDE DEF w, i
    <3> QED
      BY <1>3, <3>2, <3>3, <3>4
  <2> QED
    BY <1>1, <2>1, <2>2, <2>3, <2>4 DEF CancelPulledDeposit, ledger
<1>7. CASE AnyUserCalls
  <2>1. PICK a \in Accounts, i \in Indices :
          \/ \E amount \in Nat, min \in Nat : RequestDeposit(a, i, amount, min)
          \/ ClaimFees(a, i)
    BY <1>1, <1>7 DEF AnyUserCalls, RequestRedeem
  <2>2. ASSUME NEW amount, NEW min, RequestDeposit(a, i, amount, min) PROVE FALSE
    <3> DEFINE w == AddReserve(vaults[i], amount)
    <3>1. vaults' = [vaults EXCEPT ![i] = w]
      BY <2>2 DEF RequestDeposit
    <3>2. w.lastNav = vaults[i].lastNav
      BY <1>1, SameNav
    <3> HIDE DEF w
    <3> QED
      BY <1>3, <3>1, <3>2
  <2>3. ASSUME ClaimFees(a, i) PROVE FALSE
    <3> DEFINE w == Claimed(vaults[i])
    <3>1. vaults' = [vaults EXCEPT ![i] = w]
      BY <2>3 DEF ClaimFees
    <3>2. w.lastNav = vaults[i].lastNav
      BY <1>1, SameNav
    <3> HIDE DEF w
    <3> QED
      BY <1>3, <3>1, <3>2
  <2> QED
    BY <2>1, <2>2, <2>3
<1> QED
  BY <1>4, <1>5, <1>6, <1>7 DEF AnyCall

\* The deviation baseline moves by at most the allowed fraction in a step, and
\* never in the step that settles a redemption (L147-171, L228, L311-313).
THEOREM BaselineSlow == Spec => BaselineMovesSlowly
<1> DEFINE Slowly ==
      \A idx \in Indices :
         LET last == vaults[idx].lastNav
             nav == vaults'[idx].lastNav
         IN  nav # last =>
                /\ WithinDeviation(last, nav)
                /\ \A id \in RequestIds : ~ Closed(pendingRedeems, id)
<1>1. LedgerInv /\ [AnyCall]_vars => [Slowly]_vars
  <2> SUFFICES ASSUME LedgerInv, AnyCall, NEW idx \in Indices,
                      vaults'[idx].lastNav # vaults[idx].lastNav
               PROVE  /\ WithinDeviation(vaults[idx].lastNav, vaults'[idx].lastNav)
                      /\ \A id \in RequestIds : ~ Closed(pendingRedeems, id)
    OBVIOUS
  <2>1. PICK i \in Indices : Accepted(i, vaults'[idx])
    BY NavMoves
  <2>2. vaults \in [Indices -> IndexVault]
    BY Before DEF TypeOK
  <2>3. i = idx
    BY <2>1, <2>2 DEF Accepted
  <2> QED
    BY <2>1, <2>3 DEF Accepted, Closed
<1> QED
  BY <1>1, LedgerAlways, CallsAreAny, PTL DEF Spec, BaselineMovesSlowly

-----------------------------------------------------------------------------
(* The keeper *)

\* The statements that work on one request.
DepositLabels == {"check", "refund", "pull", "swap", "settle", "cancel"}
RedeemLabels == {"approve", "pay"}

\* The transactions the keeper sends.
Tx == [call : {"open", "accrue"}, idx : Indices]
        \cup [call : {"pull"}, id : RequestIds]
        \cup [call : {"cancel"}, id : RequestIds, usdc : Nat]
        \cup [call : {"settle", "pay"}, id : RequestIds, job : Job]
        \cup [call : {"approve"}, usdc : Nat]

\* The keeper's variables, and: the index of a request at work exists.
KeeperTyped ==
    /\ KeeperTypeOK
    /\ mempool = {} \/ \E tx \in Tx : mempool = {tx}
    /\ pc \in DepositLabels \cup RedeemLabels => job.idx \in Indices
    /\ pc = "poll" => cur # 0
    /\ timeouts \in Nat /\ crashes \in Nat
    /\ lastId <= MaxRequestId + 1

KeeperInv == LedgerInv /\ KeeperTyped

LEMMA KeeperConstants ==
    /\ KeeperAccount \in Accounts /\ SignerAccount \in Accounts
    /\ Creator \in [Indices -> Accounts]
    /\ INITIAL_NAV \in Nat \ {0} /\ SLIPPAGE_BPS \in 0..BPS
    /\ BPS \in Nat \ {0} /\ WAD \in Nat \ {0}
    /\ MaxRequestId \in Nat /\ RequestIds = 1..MaxRequestId
    /\ Accounts = 1..NumAccounts /\ NumAccounts \in Nat
    /\ Amounts \subseteq Nat
BY KeeperAssumption, ScaleAssumption, CountsAssumption, InputsAssumption
   DEF Accounts, RequestIds

LEMMA CountSwapAdds ==
    \A n \in Nat : CountSwap(n) \in Nat /\ CountSwap(n) <= n + 1
BY DEF CountSwap

-----------------------------------------------------------------------------
(* The keeper's calls are calls of the contract *)

LEMMA TxFields ==
    ASSUME NEW tx \in Tx
    PROVE  /\ tx.call \in {"open", "accrue"} => tx.idx \in Indices
           /\ tx.call \in {"pull", "cancel", "settle", "pay"} => tx.id \in RequestIds
           /\ tx.call \in {"cancel", "approve"} => tx.usdc \in Nat
           /\ tx.call \in {"settle", "pay"} =>
                 /\ tx.job.nav \in Nat /\ tx.job.value \in Nat
                 /\ tx.job.signedAt \in Nat
BY DEF Tx, Job

LEMMA ExecuteIsCall ==
    ASSUME KeeperInv, NEW tx \in Tx, Execute(tx)
    PROVE  [AnyCall]_vars /\ allowance' \in Nat
<1>1. allowance \in Nat
  BY DEF KeeperInv, KeeperTyped, KeeperTypeOK
<1>2. CASE tx.call = "open"
  <2>1. OpenVault(KeeperAccount, tx.idx, Creator[tx.idx]) /\ UNCHANGED allowance
    BY <1>2 DEF Execute
  <2>2. tx.idx \in Indices /\ Creator[tx.idx] \in Accounts
    BY <1>2, TxFields, KeeperConstants
  <2> QED
    BY <1>1, <2>1, <2>2, KeeperConstants DEF AnyCall, AnyKeeperCalls
<1>3. CASE tx.call = "accrue"
  <2>1. AccrueMgmt(KeeperAccount, tx.idx) /\ UNCHANGED allowance
    BY <1>3 DEF Execute
  <2> QED
    BY <1>1, <1>3, <2>1, TxFields, KeeperConstants DEF AnyCall, AnyKeeperCalls
<1>4. CASE tx.call = "pull"
  <2>1. PullForDeposit(KeeperAccount, tx.id) /\ UNCHANGED allowance
    BY <1>4 DEF Execute
  <2> QED
    BY <1>1, <1>4, <2>1, TxFields, KeeperConstants DEF AnyCall, AnyKeeperCalls
<1>5. CASE tx.call = "cancel"
  <2>1. \/ /\ tx.usdc <= allowance
           /\ CancelPulledDeposit(KeeperAccount, tx.id, tx.usdc)
           /\ allowance' = allowance - tx.usdc
        \/ CancelHeldDeposit(KeeperAccount, tx.id) /\ UNCHANGED allowance
    BY <1>5 DEF Execute
  <2>2. tx.id \in RequestIds /\ tx.usdc \in Nat
    BY <1>5, TxFields
  <2> QED
    BY <1>1, <2>1, <2>2, KeeperConstants DEF AnyCall, AnyKeeperCalls
<1>6. CASE tx.call = "settle"
  <2>1. SettleDeposit(KeeperAccount, tx.id, tx.job.nav, tx.job.value,
                      tx.job.signedAt, SignerAccount)
        /\ UNCHANGED allowance
    BY <1>6 DEF Execute
  <2> QED
    BY <1>1, <1>6, <2>1, TxFields, KeeperConstants DEF AnyCall, AnyAttested
<1>7. CASE tx.call = "approve"
  <2>1. allowance' = tx.usdc /\ UNCHANGED vars
    BY <1>7 DEF Execute
  <2> QED
    BY <1>7, <2>1, TxFields
<1>8. CASE tx.call = "pay"
  <2>1. /\ tx.job.value <= allowance
        /\ SettleRedeem(KeeperAccount, tx.id, tx.job.value, tx.job.nav,
                        tx.job.signedAt, SignerAccount)
        /\ allowance' = allowance - tx.job.value
    BY <1>8 DEF Execute
  <2>2. tx.id \in RequestIds /\ tx.job.value \in Nat /\ tx.job.nav \in Nat
        /\ tx.job.signedAt \in Nat
    BY <1>8, TxFields
  <2>3. AnyCall
    BY <2>1, <2>2, KeeperConstants DEF AnyCall, AnyAttested
  <2>4. allowance' \in Nat
    BY <1>1, <2>1, <2>2
  <2> QED
    BY <2>3, <2>4
<1> QED
  BY <1>2, <1>3, <1>4, <1>5, <1>6, <1>7, <1>8 DEF Execute

LEMMA OthersCall ==
    ASSUME KeeperInv, Others
    PROVE  [AnyCall]_vars /\ allowance' \in Nat
<1>1. allowance' \in Nat
  BY DEF Others, KeeperInv, KeeperTyped, KeeperTypeOK
<1>2. ASSUME NEW a \in Accounts \ {KeeperAccount}, NEW idx \in Indices,
             \/ \E amount \in Amounts, min \in Amounts :
                   RequestDeposit(a, idx, amount, min)
             \/ \E shares \in 1..positions[idx][a].shares, min \in Amounts :
                   RequestRedeem(a, idx, shares, min)
             \/ ClaimFees(a, idx)
      PROVE  AnyCall
  <2>1. positions[idx][a].shares \in Nat
    BY DEF KeeperInv, LedgerInv, VaultInv, TypeOK, Position
  <2>2. \A shares \in 1..positions[idx][a].shares : shares \in Nat
    BY <2>1
  <2> QED
    BY <1>2, <2>2, KeeperConstants DEF AnyCall, AnyUserCalls
<1>3. ASSUME NEW b \in BOOLEAN, SetPaused(guardian, b) PROVE AnyCall
  <2>1. guardian \in Accounts /\ (b = TRUE \/ b = FALSE)
    BY DEF KeeperInv, LedgerInv, VaultInv, TypeOK
  <2> QED
    BY <1>3, <2>1 DEF AnyCall, Admin
<1>4. NextBlock => AnyCall
  BY DEF AnyCall
<1> QED
  BY <1>1, <1>2, <1>3, <1>4 DEF Others

\* What a step may do to the chain and to the mempool.
ChainStep == UNCHANGED chain \/ (\E tx \in Tx : Execute(tx)) \/ Others
PoolStep == UNCHANGED mempool \/ mempool' = {} \/ \E tx \in Tx : mempool' = {tx}

LEMMA TxMade ==
    ASSUME KeeperInv
    PROVE  /\ \A i \in Indices : OpenTx(i) \in Tx /\ AccrueTx(i) \in Tx
           /\ pc \in DepositLabels \cup RedeemLabels =>
                 /\ cur \in RequestIds /\ job \in Job
                 /\ PullTx(cur) \in Tx /\ CancelTx(cur, 0) \in Tx
                 /\ CancelTx(cur, job.usdc) \in Tx
                 /\ SettleTx(cur) \in Tx /\ PayTx(cur) \in Tx
                 /\ ApproveTx(job.value) \in Tx
<1>1. \A i \in Indices : OpenTx(i) \in Tx /\ AccrueTx(i) \in Tx
  BY DEF OpenTx, AccrueTx, Tx
<1>2. ASSUME pc \in DepositLabels \cup RedeemLabels
      PROVE  cur \in RequestIds /\ job \in Job /\ job.usdc \in Nat /\ job.value \in Nat
  BY <1>2 DEF KeeperInv, KeeperTyped, KeeperTypeOK, DepositLabels, RedeemLabels, Job
<1>3. ASSUME pc \in DepositLabels \cup RedeemLabels
      PROVE  /\ PullTx(cur) \in Tx /\ CancelTx(cur, 0) \in Tx
             /\ CancelTx(cur, job.usdc) \in Tx
             /\ SettleTx(cur) \in Tx /\ PayTx(cur) \in Tx
             /\ ApproveTx(job.value) \in Tx
  BY <1>2, <1>3 DEF PullTx, CancelTx, SettleTx, PayTx, ApproveTx, Tx
<1> QED
  BY <1>1, <1>2, <1>3

LEMMA SentOrRaised ==
    ASSUME NEW tx \in Tx, Sent(tx) \/ Raised(tx)
    PROVE  /\ UNCHANGED chain \/ Execute(tx)
           /\ PoolStep
BY DEF Sent, Raised, PoolStep

LEMMA KeeperSteps ==
    ASSUME KeeperInv, [KeeperNext]_allVars
    PROVE  ChainStep /\ PoolStep
<1>1. CASE UNCHANGED allVars
  BY <1>1 DEF allVars, ChainStep, PoolStep
<1>2. CASE Tick \/ StartPoll \/ PollNothing \/ ReadFails \/ EndPoll \/ EndTick
             \/ StartDeposit \/ CheckCancel \/ Swap \/ StartRedeem \/ Crash \/ AskCancel
  BY <1>2 DEF Tick, StartPoll, PollNothing, ReadFails, EndPoll, EndTick, StartDeposit,
     CheckCancel, Swap, StartRedeem, Crash, AskCancel, ChainStep, PoolStep
<1>3. CASE Reconcile
  <2>1. PICK i \in Indices : \/ UNCHANGED chain /\ UNCHANGED mempool
                             \/ Sent(OpenTx(i)) \/ Raised(OpenTx(i))
    BY <1>3 DEF Reconcile, KeeperInv, KeeperTyped, KeeperTypeOK
  <2> QED
    BY <2>1, TxMade, SentOrRaised DEF ChainStep, PoolStep
<1>4. CASE Accrue
  <2>1. PICK i \in Indices : \/ UNCHANGED chain /\ UNCHANGED mempool
                             \/ Sent(AccrueTx(i)) \/ Raised(AccrueTx(i))
    BY <1>4 DEF Accrue, KeeperInv, KeeperTyped, KeeperTypeOK
  <2> QED
    BY <2>1, TxMade, SentOrRaised DEF ChainStep, PoolStep
<1>5. CASE RefundBeforePull
  <2>1. \/ Sent(CancelTx(cur, 0)) \/ Raised(CancelTx(cur, 0))
        \/ Execute(CancelTx(cur, 0)) /\ mempool' = {}
    BY <1>5 DEF RefundBeforePull
  <2>2. CancelTx(cur, 0) \in Tx
    BY <1>5, TxMade DEF RefundBeforePull, DepositLabels
  <2> QED
    BY <2>1, <2>2, SentOrRaised DEF ChainStep, PoolStep
<1>6. CASE Pull
  BY <1>6, TxMade, SentOrRaised DEF Pull, DepositLabels, ChainStep
<1>7. CASE Settle
  BY <1>7, TxMade, SentOrRaised DEF Settle, DepositLabels, ChainStep
<1>8. CASE Cancel
  BY <1>8, TxMade, SentOrRaised DEF Cancel, DepositLabels, ChainStep
<1>9. CASE Approve
  BY <1>9, TxMade, SentOrRaised DEF Approve, RedeemLabels, ChainStep
<1>10. CASE Pay
  BY <1>10, TxMade, SentOrRaised DEF Pay, RedeemLabels, ChainStep
<1>11. CASE MineLate
  <2>1. PICK tx \in mempool : Execute(tx) \/ UNCHANGED chain
    BY <1>11 DEF MineLate
  <2>2. tx \in Tx
    BY <2>1 DEF KeeperInv, KeeperTyped
  <2> QED
    BY <1>11, <2>1, <2>2 DEF MineLate, ChainStep, PoolStep
<1>12. CASE Others
  BY <1>12 DEF Others, ChainStep, PoolStep
<1> QED
  BY <1>1, <1>2, <1>3, <1>4, <1>5, <1>6, <1>7, <1>8, <1>9, <1>10, <1>11, <1>12
     DEF KeeperNext, KeeperStep, DepositStep, RedeemStep

\* Whatever the keeper and everybody else do, the contract sees calls.
LEMMA KeeperCallsVault ==
    ASSUME KeeperInv, [KeeperNext]_allVars
    PROVE  /\ [AnyCall]_vars /\ allowance' \in Nat
           /\ LedgerInv'
           /\ mempool' = {} \/ \E tx \in Tx : mempool' = {tx}
<1>1. ChainStep /\ PoolStep
  BY KeeperSteps
<1>2. UNCHANGED chain => [AnyCall]_vars /\ allowance' \in Nat
  BY DEF chain, KeeperInv, KeeperTyped, KeeperTypeOK
<1>3. [AnyCall]_vars /\ allowance' \in Nat
  BY <1>1, <1>2, ExecuteIsCall, OthersCall DEF ChainStep
<1>4. LedgerInv'
  BY <1>3, LedgerInvStep DEF KeeperInv
<1> QED
  BY <1>1, <1>3, <1>4 DEF PoolStep, KeeperInv, KeeperTyped

-----------------------------------------------------------------------------
(* The keeper's variables *)

\* What slippage leaves of an amount.
LEMMA RealizedBound ==
    ASSUME NEW n \in Nat
    PROVE  Realized(n) \in Nat /\ Realized(n) <= n
<1>1. PICK s \in Nat, b \in Nat \ {0} : s = SLIPPAGE_BPS /\ b = BPS /\ s <= b
  BY KeeperConstants
<1>2. n * s \in Nat /\ n * s <= n * b
  BY <1>1
<1>3. (n * b) \div b = n
  BY <1>1
<1>4. (n * s) \div b \in Nat /\ (n * s) \div b <= n
  BY <1>1, <1>2, <1>3
<1> QED
  BY <1>1, <1>4 DEF Realized

LEMMA VaultShares ==
    ASSUME KeeperInv, NEW i \in Indices
    PROVE  vaults[i].totalShares \in Nat /\ basket[i] \in Nat
BY DEF KeeperInv, LedgerInv, VaultInv, TypeOK, IndexVault, KeeperTyped, KeeperTypeOK

LEMMA QuotesNat ==
    ASSUME KeeperInv, NEW i \in Indices
    PROVE  /\ DepositNav(i) \in Nat /\ RedeemNav(i) \in Nat
           /\ \A n \in Nat : RedeemUsdc(i, n) \in Nat
<1>1. vaults[i].totalShares \in Nat /\ basket[i] \in Nat
  BY VaultShares
<1>2. INITIAL_NAV \in Nat /\ basket[i] * WAD \in Nat
  BY <1>1, KeeperConstants, ProductNat
<1>3. \A n \in Nat : basket[i] * n \in Nat
  BY <1>1, ProductNat
<1> QED
  BY <1>1, <1>2, <1>3, DivNat DEF DepositNav, RedeemNav, RedeemUsdc

\* KeeperTyped without what the chain and the mempool decide.
Locals ==
    /\ pc \in Labels
    /\ todo \subseteq Indices
    /\ cur \in 0..(MaxRequestId + 1) /\ lastId \in 0..(MaxRequestId + 1)
    /\ job \in Job
    /\ seenDeposits \subseteq RequestIds /\ seenRedeems \subseteq RequestIds
    /\ basket \in [Indices -> Nat]
    /\ swaps \in [RequestIds -> Nat]
    /\ cancels \in [RequestIds -> {"none", "pending", "honored"}]
    /\ pc \in DepositLabels \cup RedeemLabels =>
          /\ cur \in (seenDeposits \cup seenRedeems) /\ cur < lastId
          /\ job.idx \in Indices
    /\ pc = "poll" => cur # 0
    /\ timeouts \in Nat /\ crashes \in Nat

KeeperParts == /\ Locals /\ allowance \in Nat
               /\ mempool = {} \/ \E tx \in Tx : mempool = {tx}

LEMMA LocalsAre == KeeperTyped <=> KeeperParts
<1>1. pc \in Labels =>
         (pc \notin {"idle", "reconcile", "poll", "accrue"}
             <=> pc \in DepositLabels \cup RedeemLabels)
  BY DEF Labels, DepositLabels, RedeemLabels
<1>2. mempool = {} \/ (\E tx \in Tx : mempool = {tx}) => Cardinality(mempool) <= 1
  <2>1. mempool = {} => Cardinality(mempool) = 0
    BY FS_EmptySet
  <2>2. ASSUME NEW tx \in Tx, mempool = {tx} PROVE Cardinality(mempool) = 1
    BY <2>2, FS_Singleton
  <2>3. Cardinality(mempool) = 0 \/ Cardinality(mempool) = 1 => Cardinality(mempool) <= 1
    OBVIOUS
  <2> QED
    BY <2>1, <2>2, <2>3
<1>3. lastId \in 0..(MaxRequestId + 1) => lastId <= MaxRequestId + 1
  BY KeeperConstants
<1> QED
  BY <1>1, <1>2, <1>3 DEF KeeperTyped, KeeperTypeOK, Locals, KeeperParts

LEMMA BudgetNat ==
    ASSUME KeeperInv, [KeeperNext]_allVars
    PROVE  timeouts' \in Nat /\ crashes' \in Nat /\ timeouts' >= timeouts
<1>1. timeouts \in Nat /\ crashes \in Nat
  BY DEF KeeperInv, KeeperTyped
<1>2. timeouts' = timeouts \/ timeouts' = timeouts + 1
  BY DEF KeeperNext, KeeperStep, DepositStep, RedeemStep, allVars, budget, Tick,
     Reconcile, StartPoll, PollNothing, ReadFails, EndPoll, EndTick, Accrue,
     StartDeposit, CheckCancel, RefundBeforePull, Pull, Swap, Settle, Cancel,
     StartRedeem, Approve, Pay, MineLate, Crash, AskCancel, Others, Sent, Raised, Fault
<1>3. crashes' = crashes \/ crashes' = crashes + 1
  BY DEF KeeperNext, KeeperStep, DepositStep, RedeemStep, allVars, keeperVars, Tick,
     Reconcile, StartPoll, PollNothing, ReadFails, EndPoll, EndTick, Accrue,
     StartDeposit, CheckCancel, RefundBeforePull, Pull, Swap, Settle, Cancel,
     StartRedeem, Approve, Pay, MineLate, Crash, AskCancel, Others
<1> QED
  BY <1>1, <1>2, <1>3

\* The same of the next state.
LEMMA LocalsAreNext == (KeeperTyped <=> KeeperParts)'
<1>1. KeeperTyped <=> KeeperParts
  BY LocalsAre
<1> QED
  BY <1>1, PTL

LEMMA TypesInit == KeeperInit => KeeperInv
<1> SUFFICES ASSUME KeeperInit PROVE KeeperInv
  OBVIOUS
<1>1. LedgerInv
  BY LedgerInit DEF KeeperInit
<1>2. NoJob \in Job
  BY CountsAssumption DEF NoJob, Job
<1>3. Locals
  BY <1>2, KeeperConstants DEF KeeperInit, Locals, Labels, DepositLabels, RedeemLabels
<1> QED
  BY <1>1, <1>3, LocalsAre DEF KeeperInit, KeeperInv, KeeperParts

\* A step is over, or the loop goes on.
LEMMA LoopOn ==
    ASSUME KeeperInv, [KeeperNext]_allVars, AbortTick \/ (NextId /\ cur < lastId),
           cancels' \in [RequestIds -> {"none", "pending", "honored"}],
           swaps' \in [RequestIds -> Nat], basket' \in [Indices -> Nat],
           seenDeposits' \subseteq RequestIds, seenRedeems' \subseteq RequestIds
    PROVE  Locals'
<1>1. Locals
  BY LocalsAre DEF KeeperParts, KeeperInv
<1>2. NoJob \in Job
  BY CountsAssumption DEF NoJob, Job
<1>3. timeouts' \in Nat /\ crashes' \in Nat
  BY BudgetNat
<1>4. CASE AbortTick
  BY <1>1, <1>2, <1>3, <1>4, KeeperConstants
     DEF AbortTick, Goto, Locals, Labels, DepositLabels, RedeemLabels
<1>5. CASE NextId /\ cur < lastId
  <2>1. cur' \in 0..(MaxRequestId + 1) /\ lastId' \in 0..(MaxRequestId + 1)
    BY <1>1, <1>5, KeeperConstants DEF NextId, Locals
  <2> QED
    BY <1>1, <1>2, <1>3, <1>5, <2>1
       DEF NextId, Goto, Locals, Labels, DepositLabels, RedeemLabels
<1> QED
  BY <1>4, <1>5

\* The tick between requests.
LEMMA TypesTick ==
    ASSUME KeeperInv, [KeeperNext]_allVars,
           Tick \/ Reconcile \/ StartPoll \/ PollNothing \/ ReadFails \/ EndPoll
             \/ Accrue \/ EndTick \/ MineLate \/ AskCancel \/ Others \/ UNCHANGED allVars
    PROVE  Locals'
<1>1. Locals
  BY LocalsAre DEF KeeperParts, KeeperInv
<1>2. timeouts' \in Nat /\ crashes' \in Nat
  BY BudgetNat
<1>3. CASE Tick
  BY <1>1, <1>2, <1>3 DEF Tick, Goto, memory, Locals, Labels, DepositLabels, RedeemLabels
<1>4. CASE Reconcile \/ Accrue
  BY <1>1, <1>2, <1>4 DEF Reconcile, Accrue, memory, Locals, Labels, DepositLabels, RedeemLabels
<1>5. CASE StartPoll
  <2>1. cur' \in 0..(MaxRequestId + 1) /\ lastId' \in 0..(MaxRequestId + 1)
    BY <1>5, KeeperConstants DEF StartPoll, PollBound, KeeperInv, LedgerInv, VaultInv,
       TypeOK
  <2> QED
    BY <1>1, <1>2, <1>5, <2>1
       DEF StartPoll, Goto, memory, Locals, Labels, DepositLabels, RedeemLabels
<1>6. CASE PollNothing \/ ReadFails \/ EndTick
  BY <1>1, <1>6, LoopOn DEF PollNothing, ReadFails, EndTick, memory, Locals
<1>7. CASE EndPoll
  BY <1>1, <1>2, <1>7, KeeperConstants
     DEF EndPoll, Goto, memory, Locals, Labels, DepositLabels, RedeemLabels
<1>8. CASE MineLate \/ Others \/ UNCHANGED allVars
  BY <1>1, <1>2, <1>8 DEF MineLate, Others, allVars, keeperVars, locals, memory, Locals,
     Labels, DepositLabels, RedeemLabels
<1>9. CASE AskCancel
  BY <1>1, <1>2, <1>9 DEF AskCancel, locals, memory, Locals,
     Labels, DepositLabels, RedeemLabels
<1> QED
  BY <1>3, <1>4, <1>5, <1>6, <1>7, <1>8, <1>9

\* What the locals of a request are set to is a job.
DepositLocals(p, i, n) == [NoJob EXCEPT !.pulled = p, !.idx = i, !.usdc = n]
RedeemLocals(i, p, v) == [NoJob EXCEPT !.idx = i, !.nav = p, !.value = v]

LEMMA DepositJob ==
    ASSUME NEW p \in BOOLEAN, NEW i \in Indices, NEW n \in Nat
    PROVE  LET j == DepositLocals(p, i, n)
           IN  j \in Job /\ j.pulled = p /\ j.idx = i /\ j.usdc = n
<1>1. i \in 0..NumIndices
  BY CountsAssumption DEF Indices
<1> QED
  BY <1>1 DEF DepositLocals, NoJob, Job

LEMMA QuoteJob ==
    ASSUME NEW i \in Indices, NEW p \in Nat, NEW v \in Nat
    PROVE  LET j == RedeemLocals(i, p, v)
           IN  j \in Job /\ j.idx = i /\ j.nav = p /\ j.value = v
<1>1. i \in 0..NumIndices
  BY CountsAssumption DEF Indices
<1> QED
  BY <1>1 DEF RedeemLocals, NoJob, Job

\* A deposit.
LEMMA TypesDeposit ==
    ASSUME KeeperInv, [KeeperNext]_allVars, DepositStep
    PROVE  Locals'
<1>1. Locals /\ TypeOK
  BY LocalsAre DEF KeeperParts, KeeperInv, LedgerInv, VaultInv
<1>2. timeouts' \in Nat /\ crashes' \in Nat
  BY BudgetNat
<1>3. CASE StartDeposit
  <2> DEFINE d == pendingDeposits[cur]
             j == [NoJob EXCEPT !.pulled = d.pulled, !.idx = d.indexId,
                                !.usdc = d.usdcIn]
  <2>1. pc = "poll" /\ cur < lastId /\ d.who # 0
    BY <1>3 DEF StartDeposit, NewDeposit
  <2>2. cur \in RequestIds
    <3>1. cur # 0
      BY <1>1, <2>1 DEF Locals
    <3> QED
      BY <1>1, <2>1, <3>1, KeeperConstants DEF Locals
  <2>3. d.indexId \in Indices /\ d.usdcIn \in Nat /\ d.pulled \in BOOLEAN
    BY <1>1, <2>1, <2>2, LiveDeposit
  <2>4. j \in Job /\ j.idx \in Indices
    <3>1. /\ DepositLocals(d.pulled, d.indexId, d.usdcIn) \in Job
          /\ DepositLocals(d.pulled, d.indexId, d.usdcIn).idx = d.indexId
      BY <2>3, DepositJob
    <3> QED
      BY <2>3, <3>1 DEF DepositLocals
  <2>5. seenDeposits' = seenDeposits \cup {cur}
    BY <1>3 DEF StartDeposit, Remember
  <2>6. seenDeposits' \subseteq RequestIds
    BY <1>1, <2>2, <2>5 DEF Locals
  <2>7. CASE AbortTick
    BY <1>1, <1>3, <2>6, <2>7, LoopOn DEF StartDeposit, Locals
  <2>8. CASE job' = j /\ Goto("check") /\ UNCHANGED <<todo, cur, lastId>>
    <3> HIDE DEF j
    <3> QED
      BY <1>1, <1>2, <1>3, <2>1, <2>4, <2>5, <2>6, <2>8
         DEF StartDeposit, Goto, Locals, Labels, DepositLabels, RedeemLabels
  <2> QED
    BY <1>3, <2>7, <2>8 DEF StartDeposit
<1>4. CASE CheckCancel
  BY <1>1, <1>2, <1>4
     DEF CheckCancel, locals, memory, Goto, Locals, Labels, DepositLabels, RedeemLabels
<1>5. CASE RefundBeforePull
  <2>1. cur < lastId /\ NextId
    BY <1>1, <1>5 DEF RefundBeforePull, Locals, DepositLabels
  <2>2. cancels' \in [RequestIds -> {"none", "pending", "honored"}]
    BY <1>1, <1>5 DEF RefundBeforePull, Locals
  <2> QED
    BY <1>1, <1>5, <2>1, <2>2, LoopOn DEF RefundBeforePull, memory, Locals
<1>6. CASE Pull
  BY <1>1, <1>2, <1>6
     DEF Pull, locals, memory, Goto, Locals, Labels, DepositLabels, RedeemLabels
<1>7. CASE Swap
  <2>1. job.idx \in Indices /\ job.usdc \in Nat /\ now \in Nat /\ cur \in RequestIds
    BY <1>1, <1>7 DEF Swap, Locals, TypeOK, Job, DepositLabels
  <2>2. Realized(job.usdc) \in Nat /\ DepositNav(job.idx) \in Nat
    BY <2>1, RealizedBound, QuotesNat
  <2>3. [job EXCEPT !.value = Realized(job.usdc), !.nav = DepositNav(job.idx),
                    !.signedAt = now] \in Job
    BY <1>1, <2>1, <2>2 DEF Locals, Job
  <2>4. [job EXCEPT !.value = Realized(job.usdc), !.nav = DepositNav(job.idx),
                    !.signedAt = now].idx = job.idx
    BY <1>1 DEF Locals, Job
  <2>5. job' \in Job /\ job'.idx = job.idx
    BY <1>1, <1>7, <2>3, <2>4 DEF Swap, Locals
  <2>6. swaps' \in [RequestIds -> Nat]
    BY <1>1, <1>7, <2>1, CountSwapAdds DEF Swap, Locals
  <2> QED
    BY <1>1, <1>2, <1>7, <2>1, <2>5, <2>6
       DEF Swap, memory, Goto, Locals, Labels, DepositLabels, RedeemLabels
<1>8. CASE Settle
  <2>1. cur < lastId /\ job.idx \in Indices /\ job.usdc \in Nat
    BY <1>1, <1>8 DEF Settle, Locals, DepositLabels, Job
  <2>2. CASE NextId
    <3>1. basket' \in [Indices -> Nat]
      BY <1>1, <1>8, <2>1 DEF Settle, Locals
    <3> QED
      BY <1>1, <1>8, <2>1, <2>2, <3>1, LoopOn DEF Settle, Locals
  <2>3. CASE Goto("cancel") /\ UNCHANGED <<basket, locals>>
    BY <1>1, <1>2, <1>8, <2>3
       DEF Settle, locals, Goto, Locals, Labels, DepositLabels, RedeemLabels
  <2> QED
    BY <1>8, <2>2, <2>3 DEF Settle
<1>9. CASE Cancel
  <2>1. cur < lastId /\ NextId
    BY <1>1, <1>9 DEF Cancel, Locals, DepositLabels
  <2> QED
    BY <1>1, <1>9, <2>1, LoopOn DEF Cancel, memory, Locals
<1> QED
  BY <1>3, <1>4, <1>5, <1>6, <1>7, <1>8, <1>9 DEF DepositStep

\* What StartRedeem computes is a job.
LEMMA RedeemJob ==
    ASSUME KeeperInv, cur \in RequestIds, pendingRedeems[cur].who # 0
    PROVE  LET r == pendingRedeems[cur]
               j == [NoJob EXCEPT !.idx = r.indexId, !.nav = RedeemNav(r.indexId),
                        !.value = Realized(RedeemUsdc(r.indexId, r.shares))]
           IN  /\ r.indexId \in Indices /\ r.shares \in Nat
               /\ j \in Job /\ j.idx = r.indexId /\ j.nav = RedeemNav(r.indexId)
               /\ j.value = Realized(RedeemUsdc(r.indexId, r.shares))
<1> DEFINE r == pendingRedeems[cur]
           i == r.indexId
<1>1. i \in Indices /\ r.shares \in Nat
  BY LiveRedeem DEF KeeperInv, LedgerInv, VaultInv
<1>2. RedeemNav(i) \in Nat /\ RedeemUsdc(i, r.shares) \in Nat
  BY <1>1, QuotesNat
<1>3. Realized(RedeemUsdc(i, r.shares)) \in Nat
  BY <1>2, RealizedBound
<1> DEFINE v == Realized(RedeemUsdc(i, r.shares))
           j == RedeemLocals(i, RedeemNav(i), v)
<1>4. j \in Job /\ j.idx = i /\ j.nav = RedeemNav(i) /\ j.value = v
  BY <1>1, <1>2, <1>3, QuoteJob
<1> QED
  BY <1>1, <1>4 DEF RedeemLocals

\* A redemption, and a restart.
LEMMA TypesRedeem ==
    ASSUME KeeperInv, [KeeperNext]_allVars, RedeemStep \/ Crash
    PROVE  Locals'
<1>1. Locals /\ TypeOK
  BY LocalsAre DEF KeeperParts, KeeperInv, LedgerInv, VaultInv
<1>2. timeouts' \in Nat /\ crashes' \in Nat
  BY BudgetNat
<1>3. CASE StartRedeem
  <2> DEFINE r == pendingRedeems[cur]
             j == [NoJob EXCEPT !.idx = r.indexId, !.nav = RedeemNav(r.indexId),
                        !.value = Realized(RedeemUsdc(r.indexId, r.shares))]
  <2>1. pc = "poll" /\ cur < lastId /\ r.who # 0
    BY <1>3 DEF StartRedeem, NewRedeem
  <2>2. cur \in RequestIds
    <3>1. cur # 0
      BY <1>1, <2>1 DEF Locals
    <3> QED
      BY <1>1, <2>1, <3>1, KeeperConstants DEF Locals
  <2>3. j \in Job /\ j.idx \in Indices
    BY <2>1, <2>2, RedeemJob
  <2>4. seenRedeems' = seenRedeems \cup {cur}
    BY <1>3 DEF StartRedeem, Remember
  <2>5. seenRedeems' \subseteq RequestIds
    BY <1>1, <2>2, <2>4 DEF Locals
  <2>6. CASE AbortTick /\ UNCHANGED swaps
    BY <1>1, <1>3, <2>5, <2>6, LoopOn DEF StartRedeem, Locals
  <2>7. CASE /\ swaps' = [swaps EXCEPT ![cur] = CountSwap(@)]
             /\ job' = j /\ Goto("approve") /\ UNCHANGED <<todo, cur, lastId>>
    <3>1. swaps' \in [RequestIds -> Nat]
      BY <1>1, <2>2, <2>7, CountSwapAdds DEF Locals
    <3> HIDE DEF j
    <3> QED
      BY <1>1, <1>2, <1>3, <2>1, <2>3, <2>4, <2>5, <2>7, <3>1
         DEF StartRedeem, Goto, Locals, Labels, DepositLabels, RedeemLabels
  <2> QED
    BY <1>3, <2>6, <2>7 DEF StartRedeem
<1>4. CASE Approve
  <2>1. CASE AbortTick
    BY <1>1, <1>4, <2>1, LoopOn DEF Approve, memory, Locals
  <2>2. CASE /\ job' = [job EXCEPT !.signedAt = now] /\ Goto("pay")
             /\ UNCHANGED <<todo, cur, lastId>>
    <3>1. now \in Nat
      BY <1>1 DEF TypeOK
    <3>2. job' \in Job /\ job'.idx = job.idx
      BY <1>1, <2>2, <3>1 DEF Locals, Job
    <3> QED
      BY <1>1, <1>2, <1>4, <2>2, <3>2
         DEF Approve, memory, Goto, Locals, Labels, DepositLabels, RedeemLabels
  <2> QED
    BY <1>4, <2>1, <2>2 DEF Approve
<1>5. CASE Pay
  <2>1. cur < lastId /\ job.idx \in Indices /\ job.value \in Nat
        /\ basket[job.idx] \in Nat
    BY <1>1, <1>5 DEF Pay, Locals, RedeemLabels, Job
  <2>2. PaidOut(basket[job.idx], job.value) \in Nat
    BY <2>1 DEF PaidOut
  <2>3. basket' \in [Indices -> Nat]
    BY <1>1, <1>5, <2>1, <2>2 DEF Pay, Locals
  <2> QED
    BY <1>1, <1>5, <2>1, <2>3, LoopOn DEF Pay, Locals
<1>6. CASE Crash
  BY <1>1, <1>6, LoopOn DEF Crash, Locals
<1> QED
  BY <1>3, <1>4, <1>5, <1>6 DEF RedeemStep

LEMMA KeeperInvStep == KeeperInv /\ [KeeperNext]_allVars => KeeperInv'
<1> SUFFICES ASSUME KeeperInv, [KeeperNext]_allVars PROVE KeeperInv'
  OBVIOUS
<1>1. Locals'
  BY TypesTick, TypesDeposit, TypesRedeem DEF KeeperNext, KeeperStep
<1>2. /\ LedgerInv' /\ allowance' \in Nat
      /\ mempool' = {} \/ \E tx \in Tx : mempool' = {tx}
  BY KeeperCallsVault
<1> QED
  BY <1>1, <1>2, LocalsAreNext DEF KeeperInv, KeeperParts

\* The chain as a whole, while the keeper runs: nothing it does breaks the
\* promises of the contract.
LEMMA KeeperAlways == KeeperSpec => []KeeperInv
<1>1. KeeperSpec => []KeeperInv
  BY TypesInit, KeeperInvStep, PTL DEF KeeperSpec
<1> QED
  BY <1>1

\* The attributes of Keeper and NavEngine and the locals of a tick have their
\* types, and a request at work is one the tick set out to visit
\* (keeper.py L42-44, L188-203).
THEOREM KeeperTypes == KeeperSpec => []KeeperTypeOK
<1>1. KeeperInv => KeeperTypeOK
  BY DEF KeeperInv, KeeperTyped
<1> QED
  BY <1>1, KeeperAlways, PTL

-----------------------------------------------------------------------------
(* A request is taken to the market once per life of the process *)

\* A request that was handed out stays what it was, a deposit or a redemption.
LEMMA KindKept ==
    ASSUME LedgerInv, LedgerInv', [AnyCall]_vars, NEW id \in RequestIds,
           id < nextRequestId
    PROVE  /\ id < nextRequestId'
           /\ pendingDeposits[id].who = 0 => pendingDeposits'[id].who = 0
           /\ pendingRedeems[id].who = 0 => pendingRedeems'[id].who = 0
<1> DEFINE f == [k \in RequestIds |-> RequestStatus(k)]
           deposits == {"held", "inflight"}
           redeems == {"redeeming", "claiming"}
<1>1. /\ f[id] # "unused"
      /\ pendingDeposits[id].who = 0 <=> f[id] \notin deposits
      /\ pendingRedeems[id].who = 0 <=> f[id] \notin redeems
  BY DEF RequestStatus, LedgerInv, VaultInv, TypeOK, QueueWellFormed, RequestIds
<1>2. nextRequestId' \in Nat
  BY DEF LedgerInv, VaultInv, TypeOK
<1>3. /\ f'[id] # "unused" => id < nextRequestId'
      /\ f'[id] \notin deposits /\ f'[id] # "unused" => pendingDeposits'[id].who = 0
      /\ f'[id] \notin redeems /\ f'[id] # "unused" => pendingRedeems'[id].who = 0
  BY <1>2 DEF RequestStatus, LedgerInv, QueueWellFormed, RequestIds
<1>4. [Lifecycle!LNext]_<<f, paused>>
  BY LifecycleStep
<1> HIDE DEF f
<1>5. /\ f'[id] # "unused"
      /\ f[id] \notin deposits => f'[id] \notin deposits
      /\ f[id] \notin redeems => f'[id] \notin redeems
  <2>1. ASSUME NEW k \in Lifecycle!Ids, NEW from, NEW to, Lifecycle!Move(k, from, to),
               \/ from = "unused"
               \/ from = "held" /\ to \in {"inflight", "closed"}
               \/ from \in deposits \cup redeems /\ to = "closed"
        PROVE  f'[id] # "unused" /\ (f[id] \notin deposits => f'[id] \notin deposits)
               /\ (f[id] \notin redeems => f'[id] \notin redeems)
    BY <1>1, <2>1 DEF Lifecycle!Move, f
  <2>2. ASSUME NEW k \in Lifecycle!Ids,
               \/ Lifecycle!OpenDeposit(k) \/ Lifecycle!OpenRedeem(k)
               \/ Lifecycle!OpenClaim(k) \/ Lifecycle!Take(k) \/ Lifecycle!Mint(k)
               \/ Lifecycle!Refund(k) \/ Lifecycle!Pay(k)
        PROVE  f'[id] # "unused" /\ (f[id] \notin deposits => f'[id] \notin deposits)
               /\ (f[id] \notin redeems => f'[id] \notin redeems)
    <3>1. CASE \/ Lifecycle!OpenDeposit(k) \/ Lifecycle!OpenRedeem(k)
               \/ Lifecycle!OpenClaim(k)
      BY <2>1, <3>1 DEF Lifecycle!OpenDeposit, Lifecycle!OpenRedeem, Lifecycle!OpenClaim
    <3>2. CASE Lifecycle!Take(k) \/ Lifecycle!Mint(k)
      BY <2>1, <3>2 DEF Lifecycle!Take, Lifecycle!Mint
    <3>3. CASE Lifecycle!Refund(k) \/ Lifecycle!Pay(k)
      BY <2>1, <3>3 DEF Lifecycle!Refund, Lifecycle!Pay
    <3> QED
      BY <2>2, <3>1, <3>2, <3>3
  <2>3. CASE f' = f
    BY <1>1, <2>3
  <2> QED
    BY <1>4, <2>2, <2>3 DEF Lifecycle!LNext, Lifecycle!Freeze, f
<1> QED
  BY <1>1, <1>3, <1>5

BeforeSwap == {"check", "refund", "pull", "swap"}

\* What is remembered was handed out, as what it is remembered as.
SeenSound ==
    /\ \A id \in seenDeposits : id < nextRequestId /\ pendingRedeems[id].who = 0
    /\ \A id \in seenRedeems : id < nextRequestId /\ pendingDeposits[id].who = 0

\* One swap per earlier life, and one more if this life has seen the request.
SwapsCounted ==
    \A id \in RequestIds :
        swaps[id] <= crashes + (IF id \in seenDeposits \cup seenRedeems THEN 1 ELSE 0)

\* A deposit on its way to its swap has not been swapped in this life.
SwapAhead == pc \in BeforeSwap => cur \in seenDeposits /\ swaps[cur] <= crashes

SwapInv == KeeperInv /\ SeenSound /\ SwapsCounted /\ SwapAhead

\* A step that remembers nothing and swaps nothing.
Quiet ==
    /\ UNCHANGED <<seenDeposits, seenRedeems, swaps, crashes>>
    /\ pc' \in BeforeSwap => pc \in BeforeSwap /\ cur' = cur

LEMMA QuietSteps ==
    ASSUME \/ Tick \/ Reconcile \/ StartPoll \/ PollNothing \/ ReadFails \/ EndPoll
           \/ Accrue \/ EndTick \/ CheckCancel \/ RefundBeforePull \/ Pull \/ Settle
           \/ Cancel \/ Approve \/ Pay \/ MineLate \/ AskCancel \/ Others
           \/ UNCHANGED allVars
    PROVE  Quiet
<1>1. CASE Tick \/ StartPoll \/ PollNothing \/ ReadFails \/ EndPoll \/ EndTick
  BY <1>1 DEF Tick, StartPoll, PollNothing, ReadFails, EndPoll, EndTick, Goto, NextId,
     AbortTick, memory, Quiet, BeforeSwap
<1>2. CASE Reconcile \/ Accrue \/ AskCancel
  BY <1>2 DEF Reconcile, Accrue, AskCancel, memory, locals, Quiet
<1>3. CASE CheckCancel \/ Pull
  BY <1>3 DEF CheckCancel, Pull, Goto, memory, locals, Quiet, BeforeSwap
<1>4. CASE RefundBeforePull \/ Settle \/ Cancel
  BY <1>4 DEF RefundBeforePull, Settle, Cancel, Goto, NextId, memory, Quiet, BeforeSwap
<1>5. CASE Approve \/ Pay
  BY <1>5 DEF Approve, Pay, Goto, NextId, AbortTick, memory, Quiet, BeforeSwap
<1>6. CASE MineLate \/ Others \/ UNCHANGED allVars
  BY <1>6 DEF MineLate, Others, allVars, keeperVars, memory, locals, Quiet
<1> QED
  BY <1>1, <1>2, <1>3, <1>4, <1>5, <1>6

LEMMA SwapTypes ==
    ASSUME KeeperInv
    PROVE  /\ seenDeposits \subseteq RequestIds /\ seenRedeems \subseteq RequestIds
           /\ swaps \in [RequestIds -> Nat] /\ crashes \in Nat
           /\ cur \in 0..(MaxRequestId + 1) /\ RequestIds = 1..MaxRequestId
           /\ MaxRequestId \in Nat /\ nextRequestId \in Nat
           /\ lastId <= MaxRequestId + 1 /\ lastId \in Nat
           /\ pc = "poll" => cur # 0
<1>1. nextRequestId \in Nat
  BY Before DEF KeeperInv
<1> QED
  BY <1>1, KeeperConstants DEF KeeperInv, KeeperTyped, KeeperTypeOK

LEMMA SwapInvStep == SwapInv /\ [KeeperNext]_allVars => SwapInv'
<1> SUFFICES ASSUME SwapInv, [KeeperNext]_allVars PROVE SwapInv'
  OBVIOUS
<1>1. KeeperInv' /\ [AnyCall]_vars /\ LedgerInv /\ LedgerInv'
  BY KeeperInvStep, KeeperCallsVault DEF SwapInv, KeeperInv
<1>2. KeeperInv /\ SeenSound /\ SwapsCounted /\ SwapAhead
  BY DEF SwapInv
<1>3. ASSUME NEW id \in RequestIds, id < nextRequestId
      PROVE  /\ id < nextRequestId'
             /\ pendingDeposits[id].who = 0 => pendingDeposits'[id].who = 0
             /\ pendingRedeems[id].who = 0 => pendingRedeems'[id].who = 0
  BY <1>1, <1>3, KindKept
<1>4. ASSUME UNCHANGED <<seenDeposits, seenRedeems>> PROVE SeenSound'
  BY <1>2, <1>3, <1>4, SwapTypes DEF SeenSound
<1>5. CASE Quiet
  BY <1>1, <1>2, <1>4, <1>5 DEF Quiet, SwapInv, SwapsCounted, SwapAhead
<1>6. ASSUME pc = "poll", cur < lastId,
             pendingDeposits[cur].who # 0 \/ pendingRedeems[cur].who # 0
      PROVE  /\ cur \in RequestIds /\ cur < nextRequestId
             /\ pendingDeposits[cur].who = 0 \/ pendingRedeems[cur].who = 0
  <2>1. cur \in RequestIds
    BY <1>2, <1>6, SwapTypes
  <2> QED
    BY <1>1, <1>2, <1>6, <2>1, HandedOut, SwapTypes
<1>7. CASE StartDeposit
  <2>1. /\ pc = "poll" /\ cur < lastId /\ cur \notin seenDeposits
        /\ pendingDeposits[cur].who # 0 /\ seenDeposits' = seenDeposits \cup {cur}
        /\ UNCHANGED <<seenRedeems, swaps, crashes>>
        /\ pc' \in BeforeSwap => cur' = cur
    BY <1>7 DEF StartDeposit, NewDeposit, Remember, Goto, AbortTick, BeforeSwap
  <2>2. cur \in RequestIds /\ cur < nextRequestId /\ pendingRedeems[cur].who = 0
    BY <1>6, <2>1
  <2>3. cur \notin seenRedeems /\ swaps[cur] <= crashes
    BY <1>2, <2>1, <2>2, SwapTypes DEF SeenSound, SwapsCounted
  <2>4. SeenSound'
    BY <1>2, <1>3, <2>1, <2>2, SwapTypes DEF SeenSound
  <2>5. SwapsCounted' /\ SwapAhead'
    BY <1>2, <2>1, <2>2, <2>3, SwapTypes DEF SwapsCounted, SwapAhead
  <2> QED
    BY <1>1, <2>4, <2>5 DEF SwapInv
<1>8. CASE Swap
  <2>1. /\ pc = "swap" /\ swaps' = [swaps EXCEPT ![cur] = CountSwap(@)]
        /\ UNCHANGED <<seenDeposits, seenRedeems, crashes, cur>>
        /\ pc' \notin BeforeSwap
    BY <1>8 DEF Swap, Goto, memory, BeforeSwap
  <2>2. cur \in seenDeposits /\ swaps[cur] <= crashes
    BY <1>2, <2>1 DEF SwapAhead, BeforeSwap
  <2>3. /\ swaps'[cur] <= swaps[cur] + 1 /\ swaps[cur] \in Nat /\ swaps'[cur] \in Nat
        /\ \A id \in RequestIds : id # cur => swaps'[id] = swaps[id]
    <3>1. cur \in RequestIds /\ swaps[cur] \in Nat
      BY <1>2, <2>2, SwapTypes
    <3>2. swaps'[cur] = CountSwap(swaps[cur])
      BY <1>2, <2>1, <3>1, SwapTypes
    <3> QED
      BY <1>2, <2>1, <3>1, <3>2, SwapTypes, CountSwapAdds
  <2>4. SwapsCounted' /\ SwapAhead'
    BY <1>2, <2>1, <2>2, <2>3, SwapTypes DEF SwapsCounted, SwapAhead
  <2> QED
    BY <1>1, <1>4, <2>1, <2>4 DEF SwapInv
<1>9. CASE StartRedeem
  <2>1. /\ pc = "poll" /\ cur < lastId /\ cur \notin seenRedeems
        /\ pendingRedeems[cur].who # 0 /\ seenRedeems' = seenRedeems \cup {cur}
        /\ UNCHANGED <<seenDeposits, crashes>>
        /\ swaps' = [swaps EXCEPT ![cur] = CountSwap(@)] \/ swaps' = swaps
        /\ pc' \notin BeforeSwap
    BY <1>9 DEF StartRedeem, NewRedeem, Remember, Goto, AbortTick, BeforeSwap
  <2>2. cur \in RequestIds /\ cur < nextRequestId /\ pendingDeposits[cur].who = 0
    BY <1>6, <2>1
  <2>3. cur \notin seenDeposits /\ swaps[cur] <= crashes
    BY <1>2, <2>1, <2>2, SwapTypes DEF SeenSound, SwapsCounted
  <2>4. SeenSound'
    BY <1>2, <1>3, <2>1, <2>2, SwapTypes DEF SeenSound
  <2>5. ASSUME NEW id \in RequestIds
        PROVE  swaps'[id] <= crashes' +
                  (IF id \in seenDeposits' \cup seenRedeems' THEN 1 ELSE 0)
    <3>1. CASE id = cur
      <4>1. swaps'[id] <= swaps[id] + 1 /\ swaps[id] \in Nat /\ swaps'[id] \in Nat
        <5>1. swaps[id] \in Nat
          BY <1>2, SwapTypes
        <5>2. swaps'[id] = CountSwap(swaps[id]) \/ swaps'[id] = swaps[id]
          BY <1>2, <2>1, <3>1, SwapTypes
        <5> QED
          BY <5>1, <5>2, CountSwapAdds
      <4> QED
        BY <1>2, <2>1, <2>3, <3>1, <4>1, SwapTypes
    <3>2. CASE id # cur
      <4>1. swaps'[id] = swaps[id]
        BY <1>2, <2>1, <3>2, SwapTypes
      <4> QED
        BY <1>2, <2>1, <3>2, <4>1, SwapTypes DEF SwapsCounted
    <3> QED
      BY <3>1, <3>2
  <2>6. SwapsCounted' /\ SwapAhead'
    BY <2>1, <2>5 DEF SwapsCounted, SwapAhead
  <2> QED
    BY <1>1, <2>4, <2>6 DEF SwapInv
<1>10. CASE Crash
  <2>1. /\ seenDeposits' = {} /\ seenRedeems' = {} /\ crashes' = crashes + 1
        /\ swaps' = swaps /\ pc' \notin BeforeSwap
    BY <1>10 DEF Crash, Goto, AbortTick, BeforeSwap
  <2>2. SeenSound' /\ SwapAhead'
    BY <2>1 DEF SeenSound, SwapAhead
  <2>3. SwapsCounted'
    BY <1>2, <2>1, SwapTypes DEF SwapsCounted
  <2> QED
    BY <1>1, <2>2, <2>3 DEF SwapInv
<1> QED
  BY <1>5, <1>7, <1>8, <1>9, <1>10, QuietSteps
     DEF KeeperNext, KeeperStep, DepositStep, RedeemStep

LEMMA SwapAlways == KeeperSpec => []SwapInv
<1>1. KeeperInit => SwapInv
  BY TypesInit DEF KeeperInit, SwapInv, SeenSound, SwapsCounted, SwapAhead, BeforeSwap
<1> QED
  BY <1>1, SwapInvStep, PTL DEF KeeperSpec

\* A request is taken to the market once per life of the process: neither a
\* failed settlement, nor a failed cancellation, nor a tick aborted half way,
\* nor a transaction mined late makes the keeper buy or sell for it again; only
\* a restart, which forgets what was seen, does (keeper.py L42-44, L188-203).
THEOREM SwappedOnce == KeeperSpec => []SwappedOncePerLife
<1>1. SwapInv => SwappedOncePerLife
  BY SwapTypes DEF SwapInv, SwapsCounted, SwappedOncePerLife
<1> QED
  BY <1>1, SwapAlways, PTL

-----------------------------------------------------------------------------
(* What the keeper owes, as operators of the state's parts *)

InFlightOf(d) == IF d.pulled THEN d.usdcIn ELSE 0
Flight(q) == SumTo([id \in RequestIds |-> InFlightOf(q[id])], MaxRequestId)
Baskets(b) == SumTo(b, NumIndices)

LEMMA SolventNow ==
    KeeperSolvent <=> Baskets(basket) + Flight(pendingDeposits) <= wallet[KeeperAccount]
BY DEF KeeperSolvent, InFlightUsdc, InFlightOf, Flight, Baskets

LEMMA SolventNext ==
    KeeperSolvent' <=> Baskets(basket') + Flight(pendingDeposits') <= wallet'[KeeperAccount]
BY DEF KeeperSolvent, InFlightUsdc, InFlightOf, Flight, Baskets

LEMMA InFlightNat ==
    ASSUME NEW d \in PendingDeposit PROVE InFlightOf(d) \in Nat
BY DEF PendingDeposit, InFlightOf

LEMMA FlightNat ==
    ASSUME NEW q \in [RequestIds -> PendingDeposit]
    PROVE  Flight(q) \in Nat
<1> DEFINE f == [id \in RequestIds |-> InFlightOf(q[id])]
<1>1. \A id \in 1..MaxRequestId : f[id] \in Nat
  BY InFlightNat DEF RequestIds
<1> HIDE DEF f
<1>2. SumTo(f, MaxRequestId) \in Nat
  BY <1>1, SumToType, CountsAssumption
<1> QED
  BY <1>2 DEF f, Flight

\* Changing one deposit changes what is in flight by the difference.
LEMMA FlightMoved ==
    ASSUME NEW q \in [RequestIds -> PendingDeposit], NEW id \in RequestIds,
           NEW d \in PendingDeposit
    PROVE  Flight([q EXCEPT ![id] = d]) = Flight(q) - InFlightOf(q[id]) + InFlightOf(d)
<1> DEFINE new == [q EXCEPT ![id] = d]
           f == [k \in RequestIds |-> InFlightOf(q[k])]
           g == [k \in RequestIds |-> InFlightOf(new[k])]
<1>1. \A k \in RequestIds : f[k] \in Nat
  BY InFlightNat
<1>2. NatTerms(f, MaxRequestId) /\ SameBut(f, g, MaxRequestId, id)
  BY <1>1 DEF NatTerms, SameBut, RequestIds
<1>3. f[id] = InFlightOf(q[id]) /\ g[id] = InFlightOf(d) /\ g[id] \in Nat
  BY InFlightNat
<1>4. id \in 1..MaxRequestId /\ MaxRequestId \in Nat
  BY CountsAssumption DEF RequestIds
<1> HIDE DEF f, g, new
<1>5. SumTo(g, MaxRequestId) = SumTo(f, MaxRequestId) - f[id] + g[id]
  BY ONLY <1>2, <1>3, <1>4, SumToChanged
<1> QED
  BY <1>3, <1>5 DEF Flight, f, g, new

LEMMA BasketsNat ==
    ASSUME NEW b \in [Indices -> Nat] PROVE Baskets(b) \in Nat
BY SumToType, CountsAssumption DEF Baskets, Indices

\* Changing one basket changes the sum of the baskets by the difference.
LEMMA BasketMoved ==
    ASSUME NEW b \in [Indices -> Nat], NEW i \in Indices, NEW n \in Nat
    PROVE  Baskets([b EXCEPT ![i] = n]) = Baskets(b) - b[i] + n
<1> DEFINE c == [b EXCEPT ![i] = n]
<1>1. NatTerms(b, NumIndices) /\ SameBut(b, c, NumIndices, i) /\ c[i] = n
  BY DEF NatTerms, SameBut, Indices
<1>2. i \in 1..NumIndices /\ NumIndices \in Nat
  BY CountsAssumption DEF Indices
<1> HIDE DEF c
<1>3. SumTo(c, NumIndices) = SumTo(b, NumIndices) - b[i] + c[i]
  BY <1>1, <1>2, SumToChanged
<1> QED
  BY <1>1, <1>3 DEF Baskets, c

-----------------------------------------------------------------------------
(* What each transaction of the keeper does to its money *)

\* A transaction is the call it is named after.
LEMMA Calls ==
    /\ \A i : Execute(OpenTx(i)) => OpenVault(KeeperAccount, i, Creator[i])
    /\ \A i : Execute(AccrueTx(i)) => AccrueMgmt(KeeperAccount, i)
    /\ \A id : Execute(PullTx(id)) => PullForDeposit(KeeperAccount, id)
    /\ \A id, n : Execute(CancelTx(id, n)) =>
                    \/ CancelPulledDeposit(KeeperAccount, id, n)
                    \/ CancelHeldDeposit(KeeperAccount, id)
    /\ \A id : Execute(SettleTx(id)) =>
                  SettleDeposit(KeeperAccount, id, job.nav, job.value, job.signedAt,
                                SignerAccount)
    /\ \A n : Execute(ApproveTx(n)) => UNCHANGED vars
    /\ \A id : Execute(PayTx(id)) =>
                  SettleRedeem(KeeperAccount, id, job.value, job.nav, job.signedAt,
                               SignerAccount)
<1>1. /\ \A i : Execute(OpenTx(i)) => OpenVault(KeeperAccount, i, Creator[i])
      /\ \A i : Execute(AccrueTx(i)) => AccrueMgmt(KeeperAccount, i)
  BY DEF Execute, OpenTx, AccrueTx
<1>2. \A id : Execute(PullTx(id)) => PullForDeposit(KeeperAccount, id)
  BY DEF Execute, PullTx
<1>3. \A id, n : Execute(CancelTx(id, n)) =>
                    \/ CancelPulledDeposit(KeeperAccount, id, n)
                    \/ CancelHeldDeposit(KeeperAccount, id)
  BY DEF Execute, CancelTx
<1>4. \A id : Execute(SettleTx(id)) =>
                  SettleDeposit(KeeperAccount, id, job.nav, job.value, job.signedAt,
                                SignerAccount)
  BY DEF Execute, SettleTx
<1>5. \A n : Execute(ApproveTx(n)) => UNCHANGED vars
  BY DEF Execute, ApproveTx
<1>6. \A id : Execute(PayTx(id)) =>
                  SettleRedeem(KeeperAccount, id, job.value, job.nav, job.signedAt,
                               SignerAccount)
  BY DEF Execute, PayTx
<1> QED
  BY <1>1, <1>2, <1>3, <1>4, <1>5, <1>6

LEMMA MoneyTyped ==
    ASSUME KeeperInv
    PROVE  /\ TypeOK /\ QueueWellFormed
           /\ pendingDeposits \in [RequestIds -> PendingDeposit]
           /\ wallet \in [Accounts -> Nat] /\ wallet[KeeperAccount] \in Nat
           /\ Flight(pendingDeposits) \in Nat
           /\ basket \in [Indices -> Nat] /\ Baskets(basket) \in Nat
<1>1. /\ TypeOK /\ QueueWellFormed
      /\ pendingDeposits \in [RequestIds -> PendingDeposit]
      /\ wallet \in [Accounts -> Nat] /\ basket \in [Indices -> Nat]
  BY DEF KeeperInv, LedgerInv, VaultInv, TypeOK, KeeperTyped, KeeperTypeOK
<1> QED
  BY <1>1, FlightNat, BasketsNat, KeeperConstants

\* A deposit leaves the queue.
LEMMA FlightClosed ==
    ASSUME KeeperInv, NEW id \in RequestIds,
           pendingDeposits' = [pendingDeposits EXCEPT ![id] = NoDeposit]
    PROVE  Flight(pendingDeposits')
              = Flight(pendingDeposits) - InFlightOf(pendingDeposits[id])
<1>1. InFlightOf(NoDeposit) = 0 /\ InFlightOf(pendingDeposits[id]) \in Nat
  BY MoneyTyped, InFlightNat DEF InFlightOf, NoDeposit
<1>2. Flight(pendingDeposits')
         = Flight(pendingDeposits) - InFlightOf(pendingDeposits[id]) + InFlightOf(NoDeposit)
  BY MoneyTyped, EmptyRequests, FlightMoved
<1> QED
  BY <1>1, <1>2, MoneyTyped

LEMMA PullMoney ==
    ASSUME KeeperInv, NEW id \in RequestIds, PullForDeposit(KeeperAccount, id)
    PROVE  /\ wallet'[KeeperAccount] = wallet[KeeperAccount] + pendingDeposits[id].usdcIn
           /\ Flight(pendingDeposits') = Flight(pendingDeposits) + pendingDeposits[id].usdcIn
<1> DEFINE old == pendingDeposits[id]
           d == [old EXCEPT !.pulled = TRUE]
<1>1. /\ pendingDeposits' = [pendingDeposits EXCEPT ![id] = d]
      /\ keeper = KeeperAccount /\ ~ old.pulled
      /\ wallet' = [wallet EXCEPT ![keeper] = @ + old.usdcIn]
  BY DEF PullForDeposit, InEscrow
<1>2. old \in PendingDeposit /\ old.usdcIn \in Nat
  BY MoneyTyped DEF PendingDeposit
<1>3. d \in PendingDeposit /\ InFlightOf(d) = old.usdcIn /\ InFlightOf(old) = 0
  BY <1>1, <1>2 DEF PendingDeposit, InFlightOf
<1> HIDE DEF d
<1>4. Flight(pendingDeposits') = Flight(pendingDeposits) - InFlightOf(old) + InFlightOf(d)
  BY <1>1, <1>3, MoneyTyped, FlightMoved
<1> QED
  BY <1>1, <1>2, <1>3, <1>4, MoneyTyped, KeeperConstants

LEMMA CancelHeldMoney ==
    ASSUME KeeperInv, NEW id \in RequestIds, CancelHeldDeposit(KeeperAccount, id)
    PROVE  /\ wallet'[KeeperAccount] >= wallet[KeeperAccount]
           /\ Flight(pendingDeposits') = Flight(pendingDeposits)
           /\ wallet'[pendingDeposits[id].who]
                = wallet[pendingDeposits[id].who] + pendingDeposits[id].usdcIn
           /\ pendingDeposits'[id].who = 0
<1> DEFINE d == pendingDeposits[id]
<1>1. /\ pendingDeposits' = [pendingDeposits EXCEPT ![id] = NoDeposit]
      /\ d.who # 0 /\ ~ d.pulled
      /\ wallet' = [wallet EXCEPT ![d.who] = @ + d.usdcIn]
  BY DEF CancelHeldDeposit, InEscrow
<1>2. d.usdcIn \in Nat /\ d.who \in Accounts
  BY <1>1, MoneyTyped, LiveDeposit
<1>3. InFlightOf(d) = 0
  BY <1>1 DEF InFlightOf
<1>4. Flight(pendingDeposits') = Flight(pendingDeposits)
  <2>1. Flight(pendingDeposits') = Flight(pendingDeposits) - InFlightOf(d)
    BY <1>1, FlightClosed
  <2> HIDE DEF d
  <2> QED
    BY <1>3, <2>1, MoneyTyped
<1>5. pendingDeposits'[id].who = 0
  BY <1>1, MoneyTyped DEF NoDeposit
<1> QED
  BY <1>1, <1>2, <1>4, <1>5, MoneyTyped, KeeperConstants

LEMMA CancelPulledMoney ==
    ASSUME KeeperInv, NEW id \in RequestIds, NEW n \in Nat,
           CancelPulledDeposit(KeeperAccount, id, n)
    PROVE  /\ wallet'[KeeperAccount] >= wallet[KeeperAccount] - n
           /\ Flight(pendingDeposits')
                = Flight(pendingDeposits) - pendingDeposits[id].usdcIn
<1> DEFINE d == pendingDeposits[id]
<1>1. /\ pendingDeposits' = [pendingDeposits EXCEPT ![id] = NoDeposit]
      /\ d.pulled /\ keeper = KeeperAccount
      /\ wallet' = [a \in Accounts |-> wallet[a] - (IF a = keeper THEN n ELSE 0)
                                                 + (IF a = d.who THEN n ELSE 0)]
  BY DEF CancelPulledDeposit, InFlight
<1>2. InFlightOf(d) = d.usdcIn
  BY <1>1 DEF InFlightOf
<1>3. Flight(pendingDeposits') = Flight(pendingDeposits) - d.usdcIn
  BY <1>1, <1>2, FlightClosed
<1>4. wallet'[KeeperAccount] >= wallet[KeeperAccount] - n
  BY <1>1, MoneyTyped, KeeperConstants
<1> QED
  BY <1>3, <1>4

LEMMA SettleMoney ==
    ASSUME KeeperInv, NEW id \in RequestIds, NEW nav, NEW value, NEW at,
           SettleDeposit(KeeperAccount, id, nav, value, at, SignerAccount)
    PROVE  /\ wallet' = wallet
           /\ Flight(pendingDeposits')
                = Flight(pendingDeposits) - pendingDeposits[id].usdcIn
<1>1. /\ pendingDeposits' = [pendingDeposits EXCEPT ![id] = NoDeposit]
      /\ pendingDeposits[id].pulled /\ wallet' = wallet
  BY DEF SettleDeposit, InFlight, token
<1>2. InFlightOf(pendingDeposits[id]) = pendingDeposits[id].usdcIn
  BY <1>1 DEF InFlightOf
<1> QED
  BY <1>1, <1>2, FlightClosed

LEMMA PayMoney ==
    ASSUME KeeperInv, NEW id \in RequestIds, NEW n \in Nat, NEW nav \in Nat, NEW at,
           SettleRedeem(KeeperAccount, id, n, nav, at, SignerAccount)
    PROVE  /\ pendingDeposits' = pendingDeposits
           /\ wallet'[KeeperAccount] >= wallet[KeeperAccount] - n
<1> DEFINE r == pendingRedeems[id]
           fee == PerfFeeUsdc(r, nav, n)
<1>1. /\ pendingDeposits' = pendingDeposits /\ keeper = KeeperAccount
      /\ wallet' = [a \in Accounts |-> wallet[a] - (IF a = keeper THEN n ELSE 0)
                                                 + (IF a = r.who THEN n - fee ELSE 0)]
      /\ r.who # 0
  BY DEF SettleRedeem
<1>2. r \in PendingRedeem
  BY <1>1, MoneyTyped, LiveRedeem
<1>3. fee \in Nat /\ fee <= n
  BY <1>2, PerfFeeNat
<1> HIDE DEF fee
<1> QED
  BY <1>1, <1>3, MoneyTyped, KeeperConstants

\* What the others do leaves the keeper's money, the requests that exist and
\* the supply of shares alone.
LEMMA OthersLeave ==
    ASSUME KeeperInv, Others
    PROVE  /\ wallet'[KeeperAccount] = wallet[KeeperAccount]
           /\ Flight(pendingDeposits') = Flight(pendingDeposits)
           /\ \A id \in RequestIds :
                 pendingDeposits[id].who # 0 => pendingDeposits'[id] = pendingDeposits[id]
           /\ \A i \in Indices : vaults'[i].totalShares = vaults[i].totalShares
<1>1. CASE UNCHANGED <<wallet, pendingDeposits, vaults>>
  BY <1>1
<1>2. ASSUME NEW a \in Accounts \ {KeeperAccount}, NEW idx \in Indices,
             NEW amount \in Amounts, NEW min \in Amounts,
             RequestDeposit(a, idx, amount, min)
      PROVE  /\ wallet'[KeeperAccount] = wallet[KeeperAccount]
             /\ Flight(pendingDeposits') = Flight(pendingDeposits)
             /\ \A id \in RequestIds :
                   pendingDeposits[id].who # 0 => pendingDeposits'[id] = pendingDeposits[id]
             /\ \A i \in Indices : vaults'[i].totalShares = vaults[i].totalShares
    <2> DEFINE d == [indexId |-> idx, who |-> a, usdcIn |-> amount,
                     minSharesOut |-> min, pulled |-> FALSE]
               w == AddReserve(vaults[idx], amount)
    <2>1. /\ pendingDeposits' = [pendingDeposits EXCEPT ![nextRequestId] = d]
          /\ vaults' = [vaults EXCEPT ![idx] = w]
          /\ wallet' = [wallet EXCEPT ![a] = @ - amount]
          /\ nextRequestId <= MaxRequestId /\ nextRequestId' = nextRequestId + 1
      BY <1>2 DEF RequestDeposit
    <2>2. nextRequestId \in RequestIds /\ pendingDeposits[nextRequestId] = NoDeposit
      BY <2>1, MoneyTyped, NextIdTaken DEF QueueWellFormed, TypeOK
    <2>3. d \in PendingDeposit /\ InFlightOf(d) = 0 /\ InFlightOf(NoDeposit) = 0
      BY KeeperConstants, CountsAssumption DEF PendingDeposit, InFlightOf, NoDeposit, Indices
    <2>4. w.totalShares = vaults[idx].totalShares
      BY MoneyTyped DEF AddReserve, TypeOK, IndexVault
    <2> HIDE DEF d, w
    <2>5. Flight(pendingDeposits') = Flight(pendingDeposits)
      <3>1. Flight(pendingDeposits') = Flight(pendingDeposits)
               - InFlightOf(pendingDeposits[nextRequestId]) + InFlightOf(d)
        BY <2>1, <2>2, <2>3, MoneyTyped, FlightMoved
      <3> QED
        BY <2>2, <2>3, <3>1, MoneyTyped
    <2>6. \A id \in RequestIds :
             pendingDeposits[id].who # 0 => pendingDeposits'[id] = pendingDeposits[id]
      BY <2>1, <2>2, MoneyTyped DEF NoDeposit
    <2>7. \A i \in Indices : vaults'[i].totalShares = vaults[i].totalShares
      BY <2>1, <2>4, MoneyTyped DEF TypeOK
    <2>8. wallet'[KeeperAccount] = wallet[KeeperAccount]
      BY <2>1, MoneyTyped, KeeperConstants
    <2> QED
      BY <2>5, <2>6, <2>7, <2>8
<1>3. ASSUME NEW a, NEW idx \in Indices, ClaimFees(a, idx)
      PROVE  /\ UNCHANGED <<wallet, pendingDeposits>>
             /\ \A i \in Indices : vaults'[i].totalShares = vaults[i].totalShares
  <2>1. UNCHANGED <<wallet, pendingDeposits>>
        /\ vaults' = [vaults EXCEPT ![idx] = Claimed(@)]
    BY <1>3 DEF ClaimFees, token
  <2>2. Claimed(vaults[idx]).totalShares = vaults[idx].totalShares
    BY MoneyTyped DEF Claimed, TypeOK, IndexVault
  <2> QED
    BY <2>1, <2>2, MoneyTyped DEF TypeOK
<1>4. \A a, idx, shares, min :
         RequestRedeem(a, idx, shares, min) => UNCHANGED <<wallet, pendingDeposits, vaults>>
  BY DEF RequestRedeem, token
<1>5. \A b : SetPaused(guardian, b) => UNCHANGED <<wallet, pendingDeposits, vaults>>
  BY DEF SetPaused, ledger, queue, token
<1>6. NextBlock => UNCHANGED <<wallet, pendingDeposits, vaults>>
  BY DEF NextBlock, ledger, queue, token
<1> QED
  BY <1>1, <1>2, <1>3, <1>4, <1>5, <1>6 DEF Others

\* A quote as a function of the basket and the supply of shares.
DepositPrice(b, total) ==
    IF total = 0 \/ b = 0 THEN INITIAL_NAV ELSE (b * WAD) \div total
RedeemPrice(b, total) == IF total = 0 THEN INITIAL_NAV ELSE (b * WAD) \div total

LEMMA FreshNow ==
    QuoteIsFresh <=>
        /\ pc = "settle" =>
              job.nav = DepositPrice(basket[job.idx], vaults[job.idx].totalShares)
        /\ pc \in {"approve", "pay"} =>
              job.nav = RedeemPrice(basket[job.idx], vaults[job.idx].totalShares)
BY DEF QuoteIsFresh, DepositNav, RedeemNav, DepositPrice, RedeemPrice

LEMMA FreshNext ==
    QuoteIsFresh' <=>
        /\ pc' = "settle" =>
              job'.nav = DepositPrice(basket'[job'.idx], vaults'[job'.idx].totalShares)
        /\ pc' \in {"approve", "pay"} =>
              job'.nav = RedeemPrice(basket'[job'.idx], vaults'[job'.idx].totalShares)
BY DEF QuoteIsFresh, DepositNav, RedeemNav, DepositPrice, RedeemPrice

\* A quoted redemption is worth no more than the basket it is paid from.
LEMMA QuoteBound ==
    ASSUME KeeperInv, NEW id \in RequestIds, pendingRedeems[id].who # 0
    PROVE  LET r == pendingRedeems[id]
           IN  Realized(RedeemUsdc(r.indexId, r.shares)) <= basket[r.indexId]
<1> DEFINE r == pendingRedeems[id]
           i == r.indexId
           n == r.shares
           total == vaults[i].totalShares
           b == basket[i]
<1>1. i \in Indices /\ n \in Nat
  BY MoneyTyped, LiveRedeem
<1>2. total \in Nat /\ b \in Nat
  BY <1>1, VaultShares
<1>3. n <= total
  <2>1. n <= Redeeming(pendingRedeems, i)
    BY <1>1, RedemptionBound, MoneyTyped DEF TypeOK
  <2>2. /\ SharesIn(positions, i) \in Nat /\ Redeeming(pendingRedeems, i) \in Nat
        /\ vaults[i].creatorFeeShares \in Nat /\ MIN_SHARES \in Nat
    BY <1>1, MoneyTyped, SharesInNat, RedeemingNat, ScaleAssumption DEF TypeOK, IndexVault
  <2>3. Balanced(positions, vaults, pendingRedeems, i)
    BY <1>1, BalancedNow DEF KeeperInv, LedgerInv
  <2> HIDE DEF n, i
  <2> QED
    BY <1>1, <1>2, <2>1, <2>2, <2>3 DEF Balanced, Owned
<1>4. RedeemUsdc(i, n) = IF total = 0 THEN 0 ELSE (b * n) \div total
  BY DEF RedeemUsdc
<1>5. RedeemUsdc(i, n) \in Nat /\ RedeemUsdc(i, n) <= b
  <2> HIDE DEF total, b, n, i
  <2>1. CASE total = 0
    BY <1>2, <1>4, <2>1
  <2>2. CASE total # 0
    <3>1. b * n \in Nat /\ b * n <= b * total
      BY <1>1, <1>2, <1>3
    <3>2. (b * total) \div total = b
      BY <1>2, <2>2
    <3>3. (b * n) \div total \in Nat /\ (b * n) \div total <= b
      BY <1>2, <2>2, <3>1, <3>2
    <3> QED
      BY <1>4, <2>2, <3>3
  <2> QED
    BY <2>1, <2>2
<1>6. Realized(RedeemUsdc(i, n)) \in Nat /\ Realized(RedeemUsdc(i, n)) <= RedeemUsdc(i, n)
  BY <1>5, RealizedBound
<1> HIDE DEF n, i, b
<1>7. Realized(RedeemUsdc(i, n)) <= b
  BY <1>2, <1>5, <1>6
<1> QED
  BY <1>7 DEF n, i, b

-----------------------------------------------------------------------------
(* The keeper's books, as long as no receipt has been waited for in vain *)

\* The request at work is still what was read when its work began.
DepositAtWork ==
    pc \in DepositLabels =>
        LET d == pendingDeposits[cur] IN
        /\ d.who # 0 /\ job.usdc = d.usdcIn /\ job.idx = d.indexId
        /\ pc \in {"check", "refund"} => job.pulled = d.pulled
        /\ pc = "refund" => ~ d.pulled

\* What is about to be paid out is in the basket.
PaymentBacked == pc \in RedeemLabels => job.value <= basket[job.idx]

Books == mempool = {} /\ DepositAtWork /\ PaymentBacked /\ QuoteIsFresh /\ KeeperSolvent

BooksInv == KeeperInv /\ (timeouts = 0 => Books)

\* A step from books that are in order, without a timeout.
InTime == KeeperInv /\ Books /\ [KeeperNext]_allVars /\ timeouts = 0 /\ timeouts' = 0

LEMMA RaisedInTime ==
    ASSUME InTime, NEW tx, Raised(tx)
    PROVE  UNCHANGED <<pendingDeposits, wallet, vaults>> /\ mempool' = {}
BY DEF InTime, Books, Raised, Fault, budget, chain, vars, ledger, queue, token

LEMMA SentInTime ==
    ASSUME NEW tx, Sent(tx) PROVE Execute(tx) /\ mempool' = {}
BY DEF Sent

LEMMA NothingAtWork ==
    ASSUME pc' \notin DepositLabels \cup RedeemLabels
    PROVE  DepositAtWork' /\ PaymentBacked' /\ QuoteIsFresh'
BY DEF DepositAtWork, PaymentBacked, QuoteIsFresh, DepositLabels, RedeemLabels

LEMMA MoneyStays ==
    ASSUME InTime, UNCHANGED <<basket, pendingDeposits, wallet>>
    PROVE  KeeperSolvent'
BY SolventNow, SolventNext DEF InTime, Books

\* Between requests.
LEMMA BooksTick ==
    ASSUME InTime,
           Tick \/ StartPoll \/ PollNothing \/ ReadFails \/ EndPoll \/ EndTick
    PROVE  Books'
<1>1. /\ UNCHANGED <<basket, pendingDeposits, wallet, mempool>>
      /\ pc' \notin DepositLabels \cup RedeemLabels
  BY DEF Tick, StartPoll, PollNothing, ReadFails, EndPoll, EndTick, Goto, NextId,
     AbortTick, memory, chain, vars, queue, token, DepositLabels, RedeemLabels
<1> QED
  BY <1>1, NothingAtWork, MoneyStays DEF Books, InTime

LEMMA BooksRegistry ==
    ASSUME InTime, Reconcile \/ Accrue
    PROVE  Books'
<1>1. /\ pc' = pc /\ pc \in {"reconcile", "accrue"} /\ UNCHANGED basket
      /\ \/ UNCHANGED <<chain, mempool>>
         \/ \E i : \/ Sent(OpenTx(i)) \/ Raised(OpenTx(i))
                   \/ Sent(AccrueTx(i)) \/ Raised(AccrueTx(i))
  BY DEF Reconcile, Accrue, memory
<1>2. pc' \notin DepositLabels \cup RedeemLabels
  BY <1>1 DEF DepositLabels, RedeemLabels
<1>3. UNCHANGED <<pendingDeposits, wallet>> /\ mempool' = {}
  <2>1. CASE UNCHANGED <<chain, mempool>>
    BY <2>1 DEF chain, vars, queue, token, InTime, Books
  <2>2. ASSUME NEW i, Sent(OpenTx(i)) \/ Sent(AccrueTx(i))
        PROVE  UNCHANGED <<pendingDeposits, wallet>> /\ mempool' = {}
    BY <2>2, SentInTime, Calls DEF OpenVault, AccrueMgmt, queue, token
  <2>3. ASSUME NEW i, Raised(OpenTx(i)) \/ Raised(AccrueTx(i))
        PROVE  UNCHANGED <<pendingDeposits, wallet>> /\ mempool' = {}
    BY <2>3, RaisedInTime
  <2> QED
    BY <1>1, <2>1, <2>2, <2>3
<1> QED
  BY <1>1, <1>2, <1>3, NothingAtWork, MoneyStays DEF Books

\* The world around the keeper.
LEMMA BooksOthers ==
    ASSUME InTime, MineLate \/ Crash \/ AskCancel \/ Others \/ UNCHANGED allVars
    PROVE  Books'
<1>1. ~ MineLate
  BY DEF MineLate, InTime, Books
<1>2. CASE AskCancel \/ UNCHANGED allVars
  <2>1. UNCHANGED <<pc, cur, job, basket, mempool, pendingDeposits, wallet, vaults>>
    BY <1>2 DEF AskCancel, allVars, keeperVars, locals, memory, chain, vars, ledger,
       queue, token
  <2>2. DepositAtWork' /\ PaymentBacked' /\ QuoteIsFresh'
    BY <2>1, FreshNow, FreshNext DEF InTime, Books, DepositAtWork, PaymentBacked
  <2> QED
    BY <2>1, <2>2, MoneyStays DEF Books, InTime
<1>3. CASE Others
  <2>1. UNCHANGED <<pc, cur, job, basket, mempool>>
    BY <1>3 DEF Others, keeperVars, locals, memory
  <2>2. /\ wallet'[KeeperAccount] = wallet[KeeperAccount]
        /\ Flight(pendingDeposits') = Flight(pendingDeposits)
        /\ \A id \in RequestIds :
              pendingDeposits[id].who # 0 => pendingDeposits'[id] = pendingDeposits[id]
        /\ \A i \in Indices : vaults'[i].totalShares = vaults[i].totalShares
    BY <1>3, OthersLeave DEF InTime
  <2>3. pc \in DepositLabels \cup RedeemLabels => cur \in RequestIds /\ job.idx \in Indices
    BY TxMade DEF InTime, KeeperInv, KeeperTyped
  <2>4. KeeperSolvent'
    BY <2>1, <2>2, SolventNow, SolventNext DEF InTime, Books
  <2>5. DepositAtWork' /\ PaymentBacked'
    BY <2>1, <2>2, <2>3 DEF InTime, Books, DepositAtWork, PaymentBacked
  <2>6. QuoteIsFresh'
    BY <2>1, <2>2, <2>3, FreshNow, FreshNext
       DEF InTime, Books, DepositLabels, RedeemLabels
  <2> QED
    BY <2>1, <2>4, <2>5, <2>6 DEF InTime, Books
<1>4. CASE Crash
  <2>1. /\ pc' = "idle" /\ basket' = [i \in Indices |-> 0]
        /\ UNCHANGED <<mempool, pendingDeposits, wallet>>
    BY <1>4 DEF Crash, AbortTick, Goto, chain, vars, queue, token
  <2>2. Baskets(basket') = 0
    BY <2>1, SumToZero, CountsAssumption DEF Baskets, Indices
  <2>3. KeeperSolvent'
    BY <2>1, <2>2, MoneyTyped, SolventNow, SolventNext DEF InTime, Books
  <2>4. pc' \notin DepositLabels \cup RedeemLabels
    BY <2>1 DEF DepositLabels, RedeemLabels
  <2> QED
    BY <2>1, <2>3, <2>4, NothingAtWork DEF InTime, Books
<1> QED
  BY <1>1, <1>2, <1>3, <1>4

\* A deposit, statement by statement.
LEMMA NothingQuoted ==
    ASSUME pc' \notin RedeemLabels \cup {"settle"}
    PROVE  PaymentBacked' /\ QuoteIsFresh'
BY DEF PaymentBacked, QuoteIsFresh, RedeemLabels

LEMMA ChainStays ==
    ASSUME UNCHANGED chain PROVE UNCHANGED <<pendingDeposits, wallet, vaults>>
BY DEF chain, vars, ledger, queue, token

LEMMA BooksStartDeposit == ASSUME InTime, StartDeposit PROVE Books'
<1> DEFINE d == pendingDeposits[cur]
<1>1. /\ pc = "poll" /\ cur < lastId /\ d.who # 0
      /\ UNCHANGED <<basket, pendingDeposits, wallet, mempool>>
  BY ChainStays DEF StartDeposit, NewDeposit
<1>2. KeeperSolvent' /\ mempool' = {}
  BY <1>1, MoneyStays DEF InTime, Books
<1>3. CASE AbortTick
  <2>1. pc' \notin DepositLabels \cup RedeemLabels
    BY <1>3 DEF AbortTick, Goto, DepositLabels, RedeemLabels
  <2> QED
    BY <1>2, <2>1, NothingAtWork DEF Books
<1>4. CASE /\ job' = DepositLocals(d.pulled, d.indexId, d.usdcIn)
           /\ pc' = "check" /\ cur' = cur
  <2>1. cur \in RequestIds
    BY <1>1, SwapTypes DEF InTime
  <2>2. d.indexId \in Indices /\ d.usdcIn \in Nat /\ d.pulled \in BOOLEAN
    BY <1>1, <2>1, MoneyTyped, LiveDeposit DEF InTime
  <2>3. job'.pulled = d.pulled /\ job'.idx = d.indexId /\ job'.usdc = d.usdcIn
    BY <1>4, <2>2, DepositJob
  <2>4. DepositAtWork'
    BY <1>1, <1>4, <2>3 DEF DepositAtWork
  <2>5. PaymentBacked' /\ QuoteIsFresh'
    BY <1>4, NothingQuoted DEF RedeemLabels
  <2> QED
    BY <1>2, <2>4, <2>5 DEF Books
<1> QED
  BY <1>3, <1>4 DEF StartDeposit, DepositLocals, Goto

LEMMA BooksCheckCancel == ASSUME InTime, CheckCancel PROVE Books'
<1>1. /\ pc = "check" /\ UNCHANGED <<cur, job, basket, pendingDeposits, wallet, mempool>>
      /\ pc' \in {"refund", "swap", "pull"} /\ (pc' = "refund" => ~ job.pulled)
  BY ChainStays DEF CheckCancel, CancelAsked, Goto, locals, memory
<1>2. KeeperSolvent' /\ mempool' = {}
  BY <1>1, MoneyStays DEF InTime, Books
<1>3. DepositAtWork'
  BY <1>1 DEF InTime, Books, DepositAtWork, DepositLabels
<1>4. PaymentBacked' /\ QuoteIsFresh'
  BY <1>1, NothingQuoted DEF RedeemLabels
<1> QED
  BY <1>2, <1>3, <1>4 DEF Books

\* A transaction of a step that ends the work on the request.
LEMMA BooksDone ==
    ASSUME InTime, NextId \/ AbortTick, KeeperSolvent', mempool' = {}
    PROVE  Books'
<1>1. pc' \notin DepositLabels \cup RedeemLabels
  BY DEF NextId, AbortTick, Goto, DepositLabels, RedeemLabels
<1> QED
  BY <1>1, NothingAtWork DEF Books

\* A refund gives back what is in escrow; a deposit in flight is given back
\* what was put in.
LEMMA CancelSolvent ==
    ASSUME InTime, NEW n \in Nat, Execute(CancelTx(cur, n)), cur \in RequestIds,
           UNCHANGED basket,
           pendingDeposits[cur].pulled => n <= pendingDeposits[cur].usdcIn
    PROVE  KeeperSolvent'
<1>1. CASE CancelHeldDeposit(KeeperAccount, cur)
  <2>1. wallet'[KeeperAccount] >= wallet[KeeperAccount]
        /\ Flight(pendingDeposits') = Flight(pendingDeposits)
    BY <1>1, CancelHeldMoney DEF InTime
  <2>2. KeeperInv'
    BY KeeperInvStep DEF InTime
  <2>3. wallet'[KeeperAccount] \in Nat
    BY <2>2, KeeperConstants DEF KeeperInv, LedgerInv, VaultInv, TypeOK
  <2> QED
    BY <2>1, <2>3, MoneyTyped, SolventNow, SolventNext DEF InTime, Books
<1>2. CASE CancelPulledDeposit(KeeperAccount, cur, n)
  <2>1. /\ wallet'[KeeperAccount] >= wallet[KeeperAccount] - n
        /\ Flight(pendingDeposits')
              = Flight(pendingDeposits) - pendingDeposits[cur].usdcIn
    BY <1>2, CancelPulledMoney DEF InTime
  <2>2. pendingDeposits[cur].pulled /\ pendingDeposits[cur].usdcIn \in Nat
    BY <1>2, MoneyTyped DEF CancelPulledDeposit, InFlight, InTime, PendingDeposit
  <2>3. KeeperInv'
    BY KeeperInvStep DEF InTime
  <2>4. wallet'[KeeperAccount] \in Nat
    BY <2>3, KeeperConstants DEF KeeperInv, LedgerInv, VaultInv, TypeOK
  <2> QED
    BY <2>1, <2>2, <2>4, MoneyTyped, SolventNow, SolventNext DEF InTime, Books
<1> QED
  BY <1>1, <1>2, Calls

LEMMA BooksRefund == ASSUME InTime, RefundBeforePull PROVE Books'
<1>1. /\ pc = "refund" /\ NextId /\ UNCHANGED basket
      /\ \/ Raised(CancelTx(cur, 0))
         \/ Execute(CancelTx(cur, 0)) /\ mempool' = {}
  BY DEF RefundBeforePull, Sent, memory
<1>2. cur \in RequestIds /\ ~ pendingDeposits[cur].pulled
  BY <1>1, TxMade DEF InTime, Books, DepositAtWork, DepositLabels
<1>3. KeeperSolvent' /\ mempool' = {}
  BY <1>1, <1>2, RaisedInTime, MoneyStays, CancelSolvent
<1> QED
  BY <1>1, <1>3, BooksDone

LEMMA BooksCancel == ASSUME InTime, Cancel PROVE Books'
<1>1. /\ pc = "cancel" /\ NextId /\ UNCHANGED basket
      /\ Sent(CancelTx(cur, job.usdc)) \/ Raised(CancelTx(cur, job.usdc))
  BY DEF Cancel, memory
<1>2. /\ cur \in RequestIds /\ job.usdc = pendingDeposits[cur].usdcIn /\ job.usdc \in Nat
  BY <1>1, TxMade DEF InTime, Books, DepositAtWork, DepositLabels, Job
<1>3. KeeperSolvent' /\ mempool' = {}
  BY <1>1, <1>2, SentInTime, RaisedInTime, MoneyStays, CancelSolvent
<1> QED
  BY <1>1, <1>3, BooksDone

LEMMA BooksPull == ASSUME InTime, Pull PROVE Books'
<1> DEFINE d == pendingDeposits[cur]
<1>1. /\ pc = "pull" /\ UNCHANGED <<cur, job, basket>> /\ pc' \in {"swap", "cancel"}
      /\ Sent(PullTx(cur)) \/ Raised(PullTx(cur))
  BY DEF Pull, Goto, locals, memory
<1>2. cur \in RequestIds /\ d.who # 0 /\ job.usdc = d.usdcIn /\ job.idx = d.indexId
  BY <1>1, TxMade DEF InTime, Books, DepositAtWork, DepositLabels
<1>3. PaymentBacked' /\ QuoteIsFresh'
  BY <1>1, NothingQuoted DEF RedeemLabels
<1>4. CASE Raised(PullTx(cur))
  <2>1. UNCHANGED <<pendingDeposits, wallet>> /\ mempool' = {}
    BY <1>4, RaisedInTime
  <2>2. DepositAtWork'
    BY <1>1, <1>2, <2>1 DEF DepositAtWork
  <2> QED
    BY <1>1, <1>3, <2>1, <2>2, MoneyStays DEF Books
<1>5. CASE Sent(PullTx(cur))
  <2>1. PullForDeposit(KeeperAccount, cur) /\ mempool' = {}
    BY <1>5, SentInTime, Calls
  <2>2. pendingDeposits' = [pendingDeposits EXCEPT ![cur] = [d EXCEPT !.pulled = TRUE]]
    BY <2>1 DEF PullForDeposit
  <2>3. d \in PendingDeposit /\ pendingDeposits'[cur] = [d EXCEPT !.pulled = TRUE]
    BY <1>2, <2>2, MoneyTyped DEF InTime
  <2>4. /\ pendingDeposits'[cur].who = d.who /\ pendingDeposits'[cur].usdcIn = d.usdcIn
        /\ pendingDeposits'[cur].indexId = d.indexId /\ d.usdcIn \in Nat
    BY <2>3 DEF PendingDeposit
  <2>5. DepositAtWork'
    BY <1>1, <1>2, <2>4 DEF DepositAtWork
  <2>6. KeeperSolvent'
    BY <1>1, <1>2, <2>1, <2>4, PullMoney, MoneyTyped, SolventNow, SolventNext
       DEF InTime, Books
  <2> QED
    BY <1>3, <2>1, <2>5, <2>6 DEF Books
<1> QED
  BY <1>1, <1>4, <1>5

LEMMA BooksSwap == ASSUME InTime, Swap PROVE Books'
<1>1. /\ pc = "swap" /\ UNCHANGED <<cur, basket, pendingDeposits, wallet, vaults, mempool>>
      /\ \/ /\ pc' = "settle"
            /\ job' = [job EXCEPT !.value = Realized(job.usdc),
                                  !.nav = DepositNav(job.idx), !.signedAt = now]
         \/ pc' = "cancel" /\ job' = job
  BY ChainStays DEF Swap, Goto, memory
<1>2. KeeperSolvent' /\ mempool' = {}
  BY <1>1, MoneyStays DEF InTime, Books
<1>3. job \in Job
  BY <1>1, TxMade DEF InTime, DepositLabels
<1>4. /\ job'.usdc = job.usdc /\ job'.idx = job.idx
      /\ pc' = "settle" => job'.nav = DepositNav(job.idx)
  BY <1>1, <1>3 DEF Job
<1>5. DepositAtWork'
  BY <1>1, <1>4 DEF InTime, Books, DepositAtWork, DepositLabels
<1>6. PaymentBacked'
  BY <1>1 DEF PaymentBacked, RedeemLabels
<1>7. QuoteIsFresh'
  BY <1>1, <1>4, FreshNext DEF DepositNav, DepositPrice
<1> QED
  BY <1>2, <1>5, <1>6, <1>7 DEF Books

LEMMA BooksSettle == ASSUME InTime, Settle PROVE Books'
<1> DEFINE d == pendingDeposits[cur]
<1>1. pc = "settle"
  BY DEF Settle
<1>2. /\ cur \in RequestIds /\ d.who # 0 /\ job.usdc = d.usdcIn /\ job.idx = d.indexId
      /\ job.usdc \in Nat /\ job.idx \in Indices
  BY <1>1, TxMade DEF InTime, KeeperInv, KeeperTyped, Books, DepositAtWork, DepositLabels, Job
<1>3. CASE Sent(SettleTx(cur)) /\ NextId
           /\ basket' = [basket EXCEPT ![job.idx] = @ + job.usdc]
  <2>1. /\ SettleDeposit(KeeperAccount, cur, job.nav, job.value, job.signedAt, SignerAccount)
        /\ mempool' = {}
    BY <1>3, SentInTime, Calls
  <2>2. wallet' = wallet /\ Flight(pendingDeposits') = Flight(pendingDeposits) - d.usdcIn
    BY <1>2, <2>1, SettleMoney DEF InTime
  <2>4. basket[job.idx] \in Nat /\ basket[job.idx] + job.usdc \in Nat
    BY <1>2, MoneyTyped DEF InTime
  <2>3. Baskets(basket') = Baskets(basket) - basket[job.idx] + (basket[job.idx] + job.usdc)
    <3>1. basket' = [basket EXCEPT ![job.idx] = basket[job.idx] + job.usdc]
      BY <1>3
    <3>2. basket \in [Indices -> Nat] /\ job.idx \in Indices
      BY <1>2, MoneyTyped DEF InTime
    <3> QED
      BY ONLY <2>4, <3>1, <3>2, BasketMoved
  <2>5. KeeperSolvent'
    BY <1>2, <2>2, <2>3, <2>4, MoneyTyped, SolventNow, SolventNext DEF InTime, Books
  <2> QED
    BY <1>3, <2>1, <2>5, BooksDone
<1>4. CASE Raised(SettleTx(cur)) /\ Goto("cancel") /\ UNCHANGED <<basket, locals>>
  <2>1. UNCHANGED <<pendingDeposits, wallet>> /\ mempool' = {}
    BY <1>4, RaisedInTime
  <2>2. DepositAtWork' /\ PaymentBacked' /\ QuoteIsFresh'
    BY <1>2, <1>4, <2>1, NothingQuoted DEF Goto, locals, DepositAtWork, RedeemLabels
  <2> QED
    BY <1>4, <2>1, <2>2, MoneyStays DEF Books
<1> QED
  BY <1>3, <1>4 DEF Settle

\* A redemption, statement by statement.
LEMMA BooksStartRedeem == ASSUME InTime, StartRedeem PROVE Books'
<1> DEFINE r == pendingRedeems[cur]
           i == r.indexId
           v == Realized(RedeemUsdc(i, r.shares))
<1>1. /\ pc = "poll" /\ cur < lastId /\ r.who # 0
      /\ UNCHANGED <<basket, pendingDeposits, wallet, vaults, mempool>>
  BY ChainStays DEF StartRedeem, NewRedeem
<1>2. KeeperSolvent' /\ mempool' = {}
  BY <1>1, MoneyStays DEF InTime, Books
<1>3. CASE AbortTick
  <2>1. pc' \notin DepositLabels \cup RedeemLabels
    BY <1>3 DEF AbortTick, Goto, DepositLabels, RedeemLabels
  <2> QED
    BY <1>2, <2>1, NothingAtWork DEF Books
<1>4. CASE /\ job' = [NoJob EXCEPT !.idx = r.indexId, !.nav = RedeemNav(r.indexId),
                         !.value = Realized(RedeemUsdc(r.indexId, r.shares))]
           /\ pc' = "approve"
  <2>1. cur \in RequestIds
    BY <1>1, SwapTypes DEF InTime
  <2>2. job'.idx = i /\ job'.nav = RedeemNav(i) /\ job'.value = v
    BY <1>1, <1>4, <2>1, RedeemJob DEF InTime
  <2>3. v <= basket[i]
    BY <1>1, <2>1, QuoteBound DEF InTime
  <2> HIDE DEF v
  <2>4. PaymentBacked'
    BY <1>1, <2>2, <2>3 DEF PaymentBacked
  <2>5. QuoteIsFresh'
    BY <1>1, <1>4, <2>2, FreshNext DEF RedeemNav, RedeemPrice
  <2>6. DepositAtWork'
    BY <1>4 DEF DepositAtWork, DepositLabels
  <2> QED
    BY <1>2, <2>4, <2>5, <2>6 DEF Books
<1> QED
  BY <1>3, <1>4 DEF StartRedeem, Goto

LEMMA BooksApprove == ASSUME InTime, Approve PROVE Books'
<1>1. pc = "approve" /\ UNCHANGED basket
  BY DEF Approve, memory
<1>2. CASE /\ Sent(ApproveTx(job.value)) /\ pc' = "pay"
           /\ job' = [job EXCEPT !.signedAt = now]
  <2>1. UNCHANGED <<pendingDeposits, wallet, vaults>> /\ mempool' = {}
    BY <1>2, SentInTime, Calls DEF vars, ledger, queue, token
  <2>2. job \in Job
    BY <1>1, TxMade DEF InTime, RedeemLabels
  <2>3. job'.idx = job.idx /\ job'.nav = job.nav /\ job'.value = job.value
    BY <1>2, <2>2 DEF Job
  <2>4. PaymentBacked' /\ DepositAtWork'
    BY <1>1, <1>2, <2>3 DEF InTime, Books, PaymentBacked, DepositAtWork, RedeemLabels,
       DepositLabels
  <2>5. QuoteIsFresh'
    BY <1>1, <1>2, <2>1, <2>3, FreshNow, FreshNext DEF InTime, Books
  <2> QED
    BY <1>1, <2>1, <2>4, <2>5, MoneyStays DEF Books
<1>3. CASE Raised(ApproveTx(job.value)) /\ AbortTick
  BY <1>1, <1>3, RaisedInTime, MoneyStays, BooksDone
<1> QED
  BY <1>2, <1>3 DEF Approve, Goto

LEMMA BooksPay == ASSUME InTime, Pay PROVE Books'
<1>1. pc = "pay"
  BY DEF Pay
<1>2. /\ cur \in RequestIds /\ job.idx \in Indices /\ job.value \in Nat /\ job.nav \in Nat
      /\ job.value <= basket[job.idx]
  BY <1>1, TxMade
     DEF InTime, KeeperInv, KeeperTyped, Books, PaymentBacked, RedeemLabels, Job
<1>3. basket \in [Indices -> Nat] /\ basket[job.idx] \in Nat
  BY <1>2, MoneyTyped DEF InTime
<1>4. CASE Sent(PayTx(cur)) /\ NextId
           /\ basket' = [basket EXCEPT ![job.idx] = PaidOut(@, job.value)]
  <2>1. /\ SettleRedeem(KeeperAccount, cur, job.value, job.nav, job.signedAt, SignerAccount)
        /\ mempool' = {}
    BY <1>4, SentInTime, Calls
  <2>2. /\ pendingDeposits' = pendingDeposits
        /\ wallet'[KeeperAccount] >= wallet[KeeperAccount] - job.value
    BY <1>2, <2>1, PayMoney DEF InTime
  <2>3. /\ PaidOut(basket[job.idx], job.value) = basket[job.idx] - job.value
        /\ PaidOut(basket[job.idx], job.value) \in Nat
    BY <1>2, <1>3 DEF PaidOut
  <2>4. Baskets(basket') = Baskets(basket) - basket[job.idx]
                              + PaidOut(basket[job.idx], job.value)
    <3>1. basket' = [basket EXCEPT ![job.idx] = PaidOut(basket[job.idx], job.value)]
      BY <1>4
    <3> QED
      BY ONLY <1>2, <1>3, <2>3, <3>1, BasketMoved
  <2>5. wallet'[KeeperAccount] \in Nat
    BY KeeperInvStep, KeeperConstants DEF InTime, KeeperInv, LedgerInv, VaultInv, TypeOK
  <2>6. KeeperSolvent'
    <3>1. Baskets(basket) + Flight(pendingDeposits) <= wallet[KeeperAccount]
      BY SolventNow DEF InTime, Books
    <3>2. /\ Baskets(basket) \in Nat /\ Flight(pendingDeposits) \in Nat
          /\ wallet[KeeperAccount] \in Nat
      BY MoneyTyped DEF InTime
    <3>3. Baskets(basket') = Baskets(basket) - job.value
      BY ONLY <1>2, <1>3, <2>3, <2>4, <3>2
    <3>4. Baskets(basket') + Flight(pendingDeposits) <= wallet'[KeeperAccount]
      BY ONLY <1>2, <2>2, <2>5, <3>1, <3>2, <3>3
    <3> QED
      BY <2>2, <3>4, SolventNext
  <2> QED
    BY <1>4, <2>1, <2>6, BooksDone
<1>5. CASE Raised(PayTx(cur)) /\ AbortTick /\ UNCHANGED basket
  BY <1>5, RaisedInTime, MoneyStays, BooksDone
<1> QED
  BY <1>4, <1>5 DEF Pay

LEMMA BooksStep == InTime => Books'
<1> SUFFICES ASSUME InTime PROVE Books'
  OBVIOUS
<1>1. [KeeperNext]_allVars
  BY DEF InTime
<1> QED
  BY <1>1, BooksTick, BooksRegistry, BooksOthers, BooksStartDeposit, BooksCheckCancel,
     BooksRefund, BooksCancel, BooksPull, BooksSwap, BooksSettle, BooksStartRedeem,
     BooksApprove, BooksPay
     DEF KeeperNext, KeeperStep, DepositStep, RedeemStep

LEMMA BooksInit == KeeperInit => BooksInv
<1> SUFFICES ASSUME KeeperInit PROVE BooksInv
  OBVIOUS
<1>1. KeeperInv
  BY TypesInit
<1>2. /\ pc = "idle" /\ mempool = {} /\ basket = [i \in Indices |-> 0]
      /\ pendingDeposits = [id \in RequestIds |-> NoDeposit]
  BY DEF KeeperInit, Init
<1>3. DepositAtWork /\ PaymentBacked /\ QuoteIsFresh
  BY <1>2 DEF DepositAtWork, PaymentBacked, QuoteIsFresh, DepositLabels, RedeemLabels
<1>4. Baskets(basket) = 0
  BY <1>2, SumToZero, CountsAssumption DEF Baskets, Indices
<1>5. Flight(pendingDeposits) = 0
  <2> DEFINE f == [id \in RequestIds |-> InFlightOf(pendingDeposits[id])]
  <2>1. \A id \in 1..MaxRequestId : f[id] = 0
    BY <1>2 DEF RequestIds, InFlightOf, NoDeposit
  <2> HIDE DEF f
  <2>2. SumTo(f, MaxRequestId) = 0
    BY <2>1, SumToZero, CountsAssumption
  <2> QED
    BY <2>2 DEF Flight, f
<1>6. KeeperSolvent
  BY <1>1, <1>4, <1>5, MoneyTyped, SolventNow
<1> QED
  BY <1>1, <1>2, <1>3, <1>6 DEF BooksInv, Books

LEMMA BooksAlways == KeeperSpec => []BooksInv
<1>1. BooksInv /\ [KeeperNext]_allVars => BooksInv'
  <2> SUFFICES ASSUME BooksInv, [KeeperNext]_allVars PROVE BooksInv'
    OBVIOUS
  <2>1. KeeperInv' /\ (timeouts' = 0 => timeouts = 0)
    BY KeeperInvStep, BudgetNat DEF BooksInv, KeeperInv, KeeperTyped
  <2> QED
    BY <2>1, BooksStep DEF BooksInv, InTime
<1> QED
  BY <1>1, BooksInit, PTL DEF KeeperSpec

\* The keeper can pay what it owes: as long as it has not waited in vain for a
\* receipt, its USDC covers the baskets of its ledger and every deposit it has
\* pulled and not settled or refunded, whatever fails and whenever it is
\* restarted (nav.py L25-37, keeper.py L125-165).
THEOREM KeeperStaysSolvent == KeeperSpec => [](timeouts = 0 => KeeperSolvent)
<1>1. BooksInv => (timeouts = 0 => KeeperSolvent)
  BY DEF BooksInv, Books
<1> QED
  BY <1>1, BooksAlways, PTL

\* The price a settlement is signed with is still the price of the vault when
\* the settlement is sent, as long as no transaction can be mined late: nobody
\* else changes the supply it was computed from (nav.py L17-34, keeper.py
\* L128-135, L154-164).
THEOREM QuotesStayFresh == KeeperSpec => [](timeouts = 0 => QuoteIsFresh)
<1>1. BooksInv => (timeouts = 0 => QuoteIsFresh)
  BY DEF BooksInv, Books
<1> QED
  BY <1>1, BooksAlways, PTL

\* What "honored" stands for.
Refunded(id) ==
    LET d == pendingDeposits[id] IN
    /\ d.who # 0 /\ pendingDeposits'[id].who = 0
    /\ wallet'[d.who] = wallet[d.who] + d.usdcIn

LEMMA HonoredInTime ==
    ASSUME InTime, NEW id \in RequestIds, cancels[id] # "honored", cancels'[id] = "honored"
    PROVE  Refunded(id)
<1>1. CASE RefundBeforePull
  <2>1. /\ pc = "refund" /\ cancels' # cancels
        /\ Execute(CancelTx(cur, 0)) /\ cancels' = [cancels EXCEPT ![cur] = "honored"]
    BY <1>1 DEF RefundBeforePull, Sent
  <2>2. /\ cur \in RequestIds /\ pendingDeposits[cur].who # 0
        /\ ~ pendingDeposits[cur].pulled
    BY <2>1, TxMade DEF InTime, Books, DepositAtWork, DepositLabels
  <2>3. CancelHeldDeposit(KeeperAccount, cur)
    BY <2>1, <2>2, Calls DEF CancelPulledDeposit, InFlight
  <2>4. id = cur
    BY <2>1 DEF InTime, KeeperInv, KeeperTyped, KeeperTypeOK
  <2> QED
    BY <2>2, <2>3, <2>4, CancelHeldMoney DEF InTime, Refunded
<1>2. CASE AskCancel
  BY <1>2 DEF AskCancel, InTime, KeeperInv, KeeperTyped, KeeperTypeOK
<1>3. CASE ~ RefundBeforePull /\ ~ AskCancel
  <2>1. cancels' = cancels
    BY <1>3 DEF InTime, KeeperNext, KeeperStep, DepositStep, RedeemStep, allVars,
       keeperVars, Tick, Reconcile, StartPoll, PollNothing, ReadFails, EndPoll, EndTick,
       Accrue, StartDeposit, CheckCancel, Pull, Swap, Settle, Cancel, StartRedeem,
       Approve, Pay, MineLate, Crash, Others
  <2> QED
    BY <2>1
<1> QED
  BY <1>1, <1>2, <1>3

\* A cancellation is reported as honored only in a step that gave the
\* subscriber the whole deposit back from escrow, as long as no receipt is
\* waited for in vain (keeper.py L110-117).
THEOREM HonoredIsRefunded == KeeperSpec /\ [](timeouts = 0) => HonoredMeansRefunded
<1> DEFINE A == \A id \in RequestIds :
                   LET d == pendingDeposits[id] IN
                   cancels[id] # "honored" /\ cancels'[id] = "honored"
                      => /\ d.who # 0 /\ pendingDeposits'[id].who = 0
                         /\ wallet'[d.who] = wallet[d.who] + d.usdcIn
<1>1. BooksInv /\ [KeeperNext]_allVars /\ timeouts = 0 /\ (timeouts = 0)' => [A]_allVars
  <2> SUFFICES ASSUME BooksInv, [KeeperNext]_allVars, timeouts = 0, timeouts' = 0 PROVE A
    OBVIOUS
  <2>1. InTime
    BY DEF InTime, BooksInv
  <2> QED
    BY <2>1, HonoredInTime DEF Refunded
<1> QED
  BY <1>1, BooksAlways, PTL DEF KeeperSpec, HonoredMeansRefunded

-----------------------------------------------------------------------------
(* The contract's promises hold while the keeper runs *)

LEMMA KeeperCallsOnly == KeeperInv /\ [KeeperNext]_allVars => [AnyCall]_vars
BY KeeperCallsVault

\* Whatever the keeper sends, times out on, sends again or forgets, the shares
\* add up and the contract holds the USDC of every refund it still owes
\* (HypeIndexVault.sol L184-336 as called by keeper.py L46-205).
THEOREM VaultSoundUnderKeeper == KeeperSpec => [](ShareConservation /\ Solvent)
<1>1. KeeperInit => ReserveInv
  BY ReserveInit DEF KeeperInit
<1>2. KeeperInv /\ ReserveInv /\ [KeeperNext]_allVars => ReserveInv'
  BY KeeperCallsOnly, ReserveInvStep
<1>3. ReserveInv => ShareConservation /\ Solvent
  BY DEF ReserveInv, LedgerInv, Solvent
<1> QED
  BY <1>1, <1>2, <1>3, KeeperAlways, PTL DEF KeeperSpec

\* The keeper and everybody else together still work the request queue as
\* RequestLifecycle says: ids used once and in order, each request closed at
\* most once, no settlement without a pull, whatever is retried or mined late
\* (keeper.py L106-205).
THEOREM KeeperImplementsLifecycle == KeeperSpec => ImplementsLifecycle
<1>1. KeeperInit => Lifecycle!LInit
  BY LifecycleInit DEF KeeperInit
<1>2. KeeperInv /\ [KeeperNext]_allVars =>
         [Lifecycle!LNext]_<<[id \in RequestIds |-> RequestStatus(id)], paused>>
  BY KeeperCallsOnly, LifecycleStep DEF KeeperInv
<1> QED
  BY <1>1, <1>2, KeeperAlways, PTL DEF KeeperSpec, ImplementsLifecycle, Lifecycle!LSpec

=============================================================================
