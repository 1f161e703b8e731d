------------------------- MODULE VaultIndexerProofs -------------------------
(***************************************************************************)
(* What holds of the indexer for any set of vault events, any chain and    *)
(* any number of reorganisations, faults and restarts.                     *)
(*                                                                         *)
(* Three facts carry everything.  The chain up to `final` does not change   *)
(* and every scan stays below it, if scans lag behind the head by at least  *)
(* the depth at which blocks become final (ScansFinal).  What a running     *)
(* scan still has to write is what the blocks of its range ask for, less    *)
(* what it has written (FeesPending).  And no account redeems what it does  *)
(* not own, on any prefix of the chain (Funded), so that a position read    *)
(* late differs from the position at the event only by what is being        *)
(* redeemed (Mirrored).                                                    *)
(***************************************************************************)
EXTENDS VaultIndexer, FiniteSetTheorems, TLAPS

Blocks == Events \cup {NoEvent}
WorkRow == [write : {"subscription", "earning"}, event : Blocks]
SubscriptionRow == [shares : Nat, status : {"none", "active", "redeemed"}]
Holder(e) == <<e.idx, e.who>>

LEMMA Constants ==
    /\ Confirmations \in Nat /\ MaxSpan \in Nat \ {0} /\ ReorgDepth \in Nat
    /\ MaxBlocks \in Nat /\ MaxReorgs \in Nat
    /\ MaxFaults \in Nat /\ MaxRestarts \in Nat
    /\ Stores \subseteq {"memory", "supabase"}
BY IndexerAssumption

\* An empty block is no event of any kind.
LEMMA EventKinds ==
    /\ \A e \in Events : e.kind \in Kinds
    /\ NoEvent.kind \notin Kinds
    /\ NoEvent \notin Events
BY IndexerAssumption DEF NoEvent, Kinds

LEMMA FeeBlocks ==
    ASSUME NEW e \in Blocks, IsFee(e) \/ ChangesShares(e)
    PROVE  e \in Events
BY EventKinds DEF Blocks, IsFee, ChangesShares, Kinds

-----------------------------------------------------------------------------
(* Counting events *)

BlocksOf(kind, h, n) ==
    {b \in 1..n : chain[b].kind = kind /\ Holder(chain[b]) = h}
CountTo(kind, h, n) == Cardinality(BlocksOf(kind, h, n))

LEMMA CountToType ==
    ASSUME NEW kind, NEW h, NEW n \in Nat
    PROVE  /\ IsFiniteSet(BlocksOf(kind, h, n))
           /\ CountTo(kind, h, n) \in Nat
<1>1. IsFiniteSet(1..n)
  BY FS_Interval
<1>2. BlocksOf(kind, h, n) \subseteq 1..n
  BY DEF BlocksOf
<1>3. IsFiniteSet(BlocksOf(kind, h, n))
  BY <1>1, <1>2, FS_Subset
<1> QED
  BY <1>3, FS_CardinalityType DEF CountTo

LEMMA CountIs ==
    ASSUME chain \in Seq(Blocks), NEW kind, NEW h
    PROVE  Count(kind, h) = CountTo(kind, h, Len(chain))
<1>1. DOMAIN chain = 1..Len(chain)
  OBVIOUS
<1>2. {b \in DOMAIN chain :
          chain[b].kind = kind /\ <<chain[b].idx, chain[b].who>> = h}
         = BlocksOf(kind, h, Len(chain))
  BY <1>1 DEF BlocksOf, Holder
<1> QED
  BY <1>2 DEF Count, CountTo

LEMMA PositionIs ==
    ASSUME chain \in Seq(Blocks), NEW h
    PROVE  /\ Position(h) = CountTo("Subscribed", h, Len(chain))
                               - CountTo("RedeemRequested", h, Len(chain))
           /\ Outstanding(h) = CountTo("RedeemRequested", h, Len(chain))
                               - CountTo("Redeemed", h, Len(chain))
           /\ Position(h) \in Int /\ Outstanding(h) \in Int
<1>1. Len(chain) \in Nat
  OBVIOUS
<1> QED
  BY <1>1, CountIs, CountToType DEF Position, Outstanding

\* The same of the next state.
PositionCounts ==
    chain \in Seq(Blocks) =>
        \A h : /\ Position(h) = CountTo("Subscribed", h, Len(chain))
                                   - CountTo("RedeemRequested", h, Len(chain))
               /\ Outstanding(h) = CountTo("RedeemRequested", h, Len(chain))
                                   - CountTo("Redeemed", h, Len(chain))
LEMMA PositionIsNext == PositionCounts'
<1>1. PositionCounts
  BY PositionIs DEF PositionCounts
<1> QED
  BY <1>1, PTL

\* Counts up to a height depend on the blocks up to that height.
LEMMA CountKept ==
    ASSUME NEW kind, NEW h, NEW n \in Nat, \A b \in 1..n : chain'[b] = chain[b]
    PROVE  CountTo(kind, h, n)' = CountTo(kind, h, n)
<1>1. BlocksOf(kind, h, n)' = BlocksOf(kind, h, n)
  BY DEF BlocksOf
<1> QED
  BY <1>1 DEF CountTo

\* One block more counts if it is of the kind and the holder.
LEMMA CountAppended ==
    ASSUME chain \in Seq(Blocks), NEW e \in Blocks, chain' = Append(chain, e),
           NEW kind, NEW h, NEW n, n = Len(chain)
    PROVE  CountTo(kind, h, n + 1)'
              = CountTo(kind, h, n)
                   + (IF e.kind = kind /\ Holder(e) = h THEN 1 ELSE 0)
<1> DEFINE S == BlocksOf(kind, h, n)
<1>1. /\ n \in Nat /\ chain'[n + 1] = e
      /\ \A b \in 1..n : chain'[b] = chain[b]
  OBVIOUS
<1>2. IsFiniteSet(S) /\ Cardinality(S) \in Nat
  BY <1>1, CountToType DEF CountTo
<1>3. n + 1 \notin S
  BY <1>1 DEF BlocksOf
<1>4. 1..(n + 1) = (1..n) \cup {n + 1}
  BY <1>1
<1>5. BlocksOf(kind, h, n + 1)'
         = {b \in 1..(n + 1) : chain'[b].kind = kind /\ Holder(chain'[b]) = h}
  BY DEF BlocksOf, Holder
<1>6. S = {b \in 1..n : chain'[b].kind = kind /\ Holder(chain'[b]) = h}
  BY <1>1 DEF BlocksOf
<1>7. BlocksOf(kind, h, n + 1)'
         = IF e.kind = kind /\ Holder(e) = h THEN S \cup {n + 1} ELSE S
  BY <1>1, <1>4, <1>5, <1>6
<1>8. Cardinality(S \cup {n + 1}) = Cardinality(S) + 1
  BY <1>2, <1>3, FS_AddElement
<1> QED
  BY <1>2, <1>7, <1>8 DEF CountTo

\* On every prefix of the chain, nobody has asked to redeem more than was
\* subscribed, or been paid more than was asked for.
FundedTo(h, n) ==
    /\ CountTo("RedeemRequested", h, n) <= CountTo("Subscribed", h, n)
    /\ CountTo("Redeemed", h, n) <= CountTo("RedeemRequested", h, n)
Funded == \A h \in Holders : \A n \in 0..Len(chain) : FundedTo(h, n)

LEMMA PositionNat ==
    ASSUME chain \in Seq(Blocks), Funded, NEW h \in Holders
    PROVE  Position(h) \in Nat /\ Outstanding(h) \in Nat
<1>1. Len(chain) \in Nat /\ Len(chain) \in 0..Len(chain)
  OBVIOUS
<1>2. FundedTo(h, Len(chain))
  BY <1>1 DEF Funded
<1> QED
  BY <1>1, <1>2, PositionIs, CountToType DEF FundedTo

LEMMA FundedKept ==
    ASSUME chain \in Seq(Blocks), chain' \in Seq(Blocks), Funded,
           Len(chain') <= Len(chain),
           \A b \in 1..Len(chain') : chain'[b] = chain[b]
    PROVE  Funded'
<1> SUFFICES ASSUME NEW h \in Holders, NEW n \in 0..Len(chain')
             PROVE  FundedTo(h, n)'
  BY DEF Funded
<1>1. n \in Nat /\ n \in 0..Len(chain) /\ \A b \in 1..n : chain'[b] = chain[b]
  OBVIOUS
<1>2. FundedTo(h, n)
  BY <1>1 DEF Funded
<1> QED
  BY <1>1, <1>2, CountKept DEF FundedTo

LEMMA FundedMined ==
    ASSUME chain \in Seq(Blocks), Funded, NEW e \in Blocks, CanHappen(e),
           chain' = Append(chain, e)
    PROVE  Funded'
<1> SUFFICES ASSUME NEW h \in Holders, NEW n \in 0..(Len(chain) + 1)
             PROVE  FundedTo(h, n)'
  BY DEF Funded
<1>1. /\ Len(chain) \in Nat
      /\ \A b \in 1..Len(chain) : chain'[b] = chain[b]
  OBVIOUS
<1>2. CASE n <= Len(chain)
  <2>1. FundedTo(h, n)
    BY <1>1, <1>2 DEF Funded
  <2>2. n \in Nat /\ \A b \in 1..n : chain'[b] = chain[b]
    BY <1>1, <1>2
  <2> QED
    BY <2>1, <2>2, CountKept DEF FundedTo
<1>3. CASE n = Len(chain) + 1
  <2>0. PICK m : m = Len(chain) /\ n = m + 1
    BY <1>3
  <2> DEFINE s == CountTo("Subscribed", h, m)
             q == CountTo("RedeemRequested", h, m)
             r == CountTo("Redeemed", h, m)
  <2>1. s \in Nat /\ q \in Nat /\ r \in Nat /\ q <= s /\ r <= q
    BY <1>1, <2>0, CountToType DEF Funded, FundedTo
  <2>2. /\ Holder(e) = h /\ e.kind = "RedeemRequested" => s - q > 0
        /\ Holder(e) = h /\ e.kind = "Redeemed" => q - r > 0
    BY <2>0, PositionIs DEF CanHappen, Holder
  <2>3. /\ CountTo("Subscribed", h, n)'
              = s + (IF e.kind = "Subscribed" /\ Holder(e) = h THEN 1 ELSE 0)
        /\ CountTo("RedeemRequested", h, n)'
              = q + (IF e.kind = "RedeemRequested" /\ Holder(e) = h THEN 1 ELSE 0)
        /\ CountTo("Redeemed", h, n)'
              = r + (IF e.kind = "Redeemed" /\ Holder(e) = h THEN 1 ELSE 0)
    BY <2>0, CountAppended
  <2> HIDE DEF s, q, r
  <2> QED
    BY <2>1, <2>2, <2>3 DEF FundedTo
<1> QED
  BY <1>1, <1>2, <1>3

-----------------------------------------------------------------------------
(* The rows a scan has to write *)

ToWrite(r) == \E i \in DOMAIN work : work[i] = r

\* A scan stays below the confirmed head and moves the checkpoint.
LEMMA LastBlockBounds ==
    ASSUME chain \in Seq(Blocks), checkpoint \in Nat, ConfirmedHead > checkpoint
    PROVE  /\ LastBlock \in Nat /\ LastBlock > checkpoint
           /\ LastBlock <= Len(chain) - Confirmations
           /\ LastBlock <= Len(chain)
<1>1. Len(chain) \in Nat
  OBVIOUS
<1> QED
  BY <1>1, Constants DEF LastBlock, ConfirmedHead, FromBlock

\* Rows 2 k + 1 and 2 k + 2 are of the k-th block of the range.
LEMMA Halves ==
    /\ \A n \in Nat, d \in Nat :
          1 <= n /\ n <= 2 * d => (n - 1) \div 2 \in Nat /\ (n - 1) \div 2 < d
    /\ \A k \in Nat :
          /\ ((2 * k + 1) - 1) \div 2 = k /\ (2 * k + 1) % 2 = 1
          /\ ((2 * k + 2) - 1) \div 2 = k /\ (2 * k + 2) % 2 = 0
OBVIOUS

\* The rows of a range: both rows of each of its blocks.
LEMMA RowsOfRange ==
    ASSUME NEW c \in Nat, NEW t \in Nat, c < t, c = checkpoint
    PROVE  /\ \A n \in 1..(2 * (t - c)) : \E b \in (c + 1)..t :
                 RowOf(n) = SubRow(chain[b]) \/ RowOf(n) = FeeRow(chain[b])
           /\ \A b \in (c + 1)..t :
                 /\ \E n \in 1..(2 * (t - c)) : RowOf(n) = SubRow(chain[b])
                 /\ \E n \in 1..(2 * (t - c)) : RowOf(n) = FeeRow(chain[b])
<1>0. FromBlock = c + 1
  BY DEF FromBlock
<1>1. ASSUME NEW n \in 1..(2 * (t - c))
      PROVE  \E b \in (c + 1)..t :
                 RowOf(n) = SubRow(chain[b]) \/ RowOf(n) = FeeRow(chain[b])
  <2>1. PICK k : k = (n - 1) \div 2
    OBVIOUS
  <2>2. k \in Nat /\ k < t - c
    <3>1. t - c \in Nat /\ n \in Nat /\ 1 <= n /\ n <= 2 * (t - c)
      OBVIOUS
    <3> QED
      BY <2>1, <3>1, Halves
  <2>3. c + 1 + k \in (c + 1)..t
    BY <2>2
  <2>4. RowOf(n) = SubRow(chain[c + 1 + k]) \/ RowOf(n) = FeeRow(chain[c + 1 + k])
    BY <1>0, <2>1 DEF RowOf
  <2> QED
    BY <2>3, <2>4
<1>2. ASSUME NEW b \in (c + 1)..t
      PROVE  /\ \E n \in 1..(2 * (t - c)) : RowOf(n) = SubRow(chain[b])
             /\ \E n \in 1..(2 * (t - c)) : RowOf(n) = FeeRow(chain[b])
  <2>1. PICK k \in Nat : k < t - c /\ b = c + 1 + k
    <3>1. b - (c + 1) \in Nat /\ b - (c + 1) < t - c /\ b = c + 1 + (b - (c + 1))
      OBVIOUS
    <3> QED
      BY <3>1
  <2>2. /\ ((2 * k + 1) - 1) \div 2 = k /\ (2 * k + 1) % 2 = 1
        /\ ((2 * k + 2) - 1) \div 2 = k /\ (2 * k + 2) % 2 = 0
    BY Halves
  <2>3. RowOf(2 * k + 1) = SubRow(chain[b]) /\ RowOf(2 * k + 2) = FeeRow(chain[b])
    BY <1>0, <2>1, <2>2 DEF RowOf
  <2>4. 2 * k + 1 \in 1..(2 * (t - c)) /\ 2 * k + 2 \in 1..(2 * (t - c))
    BY <2>1
  <2> QED
    BY <2>3, <2>4
<1> QED
  BY <1>1, <1>2

\* A scan that begins has to write both rows of every block of its range.
LEMMA ScanRows ==
    ASSUME chain \in Seq(Blocks), checkpoint \in Nat, BeginScan
    PROVE  /\ work' \in Seq(WorkRow)
           /\ \A i \in DOMAIN work' : \E b \in (checkpoint + 1)..to' :
                 work'[i] = SubRow(chain[b]) \/ work'[i] = FeeRow(chain[b])
           /\ \A b \in (checkpoint + 1)..to' :
                 ToWrite(SubRow(chain[b]))' /\ ToWrite(FeeRow(chain[b]))'
<1>1. PICK c \in Nat, t \in Nat : /\ c = checkpoint /\ t = LastBlock
                                  /\ c < t /\ t <= Len(chain)
  BY LastBlockBounds DEF BeginScan
<1>2. PICK len \in Nat : len = 2 * (t - c)
  BY <1>1
<1>3. to' = t /\ chain' = chain
  BY <1>1 DEF BeginScan
<1>4. work' = [n \in 1..len |-> RowOf(n)]
  <2>1. 2 * (LastBlock - FromBlock + 1) = len
    BY <1>1, <1>2 DEF FromBlock
  <2> QED
    BY <2>1 DEF BeginScan
<1>5. /\ \A n \in 1..len : \E b \in (c + 1)..t :
            RowOf(n) = SubRow(chain[b]) \/ RowOf(n) = FeeRow(chain[b])
      /\ \A b \in (c + 1)..t :
            /\ \E n \in 1..len : RowOf(n) = SubRow(chain[b])
            /\ \E n \in 1..len : RowOf(n) = FeeRow(chain[b])
  <2>1. 1..len = 1..(2 * (t - c))
    BY <1>2
  <2>2. /\ \A n \in 1..(2 * (t - c)) : \E b \in (c + 1)..t :
              RowOf(n) = SubRow(chain[b]) \/ RowOf(n) = FeeRow(chain[b])
        /\ \A b \in (c + 1)..t :
              /\ \E n \in 1..(2 * (t - c)) : RowOf(n) = SubRow(chain[b])
              /\ \E n \in 1..(2 * (t - c)) : RowOf(n) = FeeRow(chain[b])
    <3>1. c < t /\ c = checkpoint
      BY <1>1
    <3> QED
      BY <3>1, RowsOfRange
  <2> QED
    BY <2>1, <2>2, Zenon
<1>6. \A b \in (c + 1)..t : chain[b] \in Blocks
  BY <1>1
<1>7. \A n \in 1..len : RowOf(n) \in WorkRow
  <2>1. \A e \in Blocks : SubRow(e) \in WorkRow /\ FeeRow(e) \in WorkRow
    BY DEF SubRow, FeeRow, WorkRow
  <2> QED
    BY <1>5, <1>6, <2>1, Zenon
<1>8. work' \in Seq(WorkRow) /\ DOMAIN work' = 1..len
  BY <1>4, <1>7
<1>9. \A n \in 1..len : work'[n] = RowOf(n)
  BY <1>4
<1>10. \A i \in DOMAIN work' : \E b \in (checkpoint + 1)..to' :
          work'[i] = SubRow(chain[b]) \/ work'[i] = FeeRow(chain[b])
  BY <1>1, <1>3, <1>5, <1>8, <1>9
<1>11. ASSUME NEW b \in (checkpoint + 1)..to'
       PROVE  ToWrite(SubRow(chain[b]))' /\ ToWrite(FeeRow(chain[b]))'
  <2>1. b \in (c + 1)..t
    BY <1>1, <1>3
  <2>2. /\ \E i \in DOMAIN work' : work'[i] = SubRow(chain[b])
        /\ \E i \in DOMAIN work' : work'[i] = FeeRow(chain[b])
    BY <1>5, <1>8, <1>9, <2>1
  <2> QED
    BY <1>3, <2>2 DEF ToWrite, SubRow, FeeRow
<1> QED
  BY <1>8, <1>10, <1>11

\* The first row written, the others are left.
LEMMA RowsLeft ==
    ASSUME work \in Seq(WorkRow), work # <<>>, work' = Tail(work)
    PROVE  /\ work' \in Seq(WorkRow)
           /\ Head(work) \in WorkRow
           /\ ToWrite(Head(work))
           /\ \A i \in DOMAIN work' : ToWrite(work'[i])
           /\ \A r : ToWrite(r) => r = Head(work) \/ ToWrite(r)'
<1>1. /\ Len(work) \in Nat \ {0} /\ DOMAIN work = 1..Len(work)
      /\ Head(work) = work[1] /\ 1 \in DOMAIN work /\ work[1] \in WorkRow
      /\ work' \in Seq(WorkRow)
      /\ DOMAIN work' = 1..(Len(work) - 1)
      /\ \A i \in 1..(Len(work) - 1) : work'[i] = work[i + 1]
  OBVIOUS
<1>2. ASSUME NEW r, NEW i \in 1..Len(work), work[i] = r, i # 1
      PROVE  ToWrite(r)'
  <2>1. i - 1 \in 1..(Len(work) - 1) /\ work'[i - 1] = work[i]
    BY <1>1, <1>2
  <2> QED
    BY <1>1, <1>2, <2>1 DEF ToWrite
<1>3. \A i \in DOMAIN work' : ToWrite(work'[i])
  BY <1>1 DEF ToWrite
<1>4. ToWrite(Head(work))
  BY <1>1 DEF ToWrite
<1>5. \A r : ToWrite(r) => r = Head(work) \/ ToWrite(r)'
  <2> SUFFICES ASSUME NEW r, ToWrite(r), r # Head(work) PROVE ToWrite(r)'
    OBVIOUS
  <2>1. PICK i \in 1..Len(work) : work[i] = r
    BY <1>1 DEF ToWrite
  <2> QED
    BY <1>1, <1>2, <2>1
<1> QED
  BY <1>1, <1>3, <1>4, <1>5

LEMMA NothingLeft ==
    ASSUME work' = <<>>
    PROVE  work' \in Seq(WorkRow) /\ \A r : ~ ToWrite(r)'
BY DEF ToWrite

-----------------------------------------------------------------------------
(* The values the variables take *)

\* Positions are numbers because the chain is funded.
TypeInv == TypeOK /\ Funded

LEMMA Typed ==
    ASSUME TypeInv
    PROVE  /\ chain \in Seq(Blocks) /\ Len(chain) \in Nat /\ Len(chain) <= MaxBlocks
           /\ final \in Nat /\ final <= Len(chain)
           /\ checkpoint \in Nat /\ to \in Nat
           /\ earnings \in [Events -> Nat]
           /\ subscriptions \in [Holders -> SubscriptionRow]
           /\ work \in Seq(WorkRow)
           /\ Funded
BY Constants DEF TypeInv, TypeOK, Blocks, WorkRow, SubscriptionRow

LEMMA TypeInit == Init => TypeInv
<1> SUFFICES ASSUME Init PROVE TypeInv
  OBVIOUS
<1>1. NoRow \in [shares : Nat, status : {"none", "active", "redeemed"}]
  BY DEF NoRow
<1>2. chain = <<>> /\ chain \in Seq(Blocks) /\ Len(chain) = 0
  BY DEF Init
<1>3. Funded
  <2> SUFFICES ASSUME NEW h \in Holders, NEW n \in 0..0 PROVE FundedTo(h, n)
    BY <1>2 DEF Funded
  <2>1. \A kind : BlocksOf(kind, h, n) = {}
    BY DEF BlocksOf
  <2>2. \A kind : CountTo(kind, h, n) = 0
    BY <2>1, FS_EmptySet DEF CountTo
  <2> QED
    BY <2>2 DEF FundedTo
<1> QED
  BY <1>1, <1>2, <1>3, Constants DEF Init, TypeInv, TypeOK, Blocks, WorkRow

LEMMA TypeMine == TypeInv /\ Mine => TypeInv'
<1> SUFFICES ASSUME TypeInv, Mine PROVE TypeInv'
  OBVIOUS
<1>1. PICK e \in (Events \ Range(chain)) \cup {NoEvent} :
         CanHappen(e) /\ chain' = Append(chain, e)
  BY DEF Mine
<1>2. e \in Blocks
  BY <1>1 DEF Blocks
<1>3. /\ chain' \in Seq(Blocks) /\ Len(chain') = Len(chain) + 1
      /\ Len(chain') <= MaxBlocks
  BY <1>1, <1>2, Typed, Constants DEF Mine
<1>4. Funded'
  BY <1>1, <1>2, Typed, FundedMined
<1>5. final' \in 0..Len(chain')
  BY <1>3, Typed, Constants DEF Mine, Later
<1> QED
  BY <1>3, <1>4, <1>5 DEF Mine, TypeInv, TypeOK, database, scan, Blocks

LEMMA ReorgKeepsPrefix ==
    ASSUME TypeInv, Reorg
    PROVE  /\ chain' \in Seq(Blocks) /\ Len(chain') <= Len(chain)
           /\ final <= Len(chain') /\ final' = final
           /\ \A b \in 1..Len(chain') : chain'[b] = chain[b]
<1>1. PICK n \in 1..ReorgDepth :
         /\ Len(chain) - n >= final
         /\ chain' = SubSeq(chain, 1, Len(chain) - n)
  BY DEF Reorg
<1> DEFINE m == Len(chain) - n
<1>2. m \in Nat /\ m <= Len(chain) /\ final <= m
  BY <1>1, Typed, Constants
<1>3. /\ chain' \in Seq(Blocks) /\ Len(chain') = m
      /\ \A b \in 1..m : chain'[b] = chain[b]
  BY <1>1, <1>2, Typed
<1> QED
  BY <1>2, <1>3 DEF Reorg

LEMMA TypeReorg == TypeInv /\ Reorg => TypeInv'
<1> SUFFICES ASSUME TypeInv, Reorg PROVE TypeInv'
  OBVIOUS
<1>1. Len(chain') \in Nat
  BY ReorgKeepsPrefix
<1>2. Funded'
  BY Typed, ReorgKeepsPrefix, FundedKept
<1>3. final' \in 0..Len(chain') /\ Len(chain') <= MaxBlocks
  BY <1>1, Typed, ReorgKeepsPrefix, Constants
<1>4. reorgs' \in 0..MaxReorgs
  BY Constants DEF Reorg, TypeInv, TypeOK
<1> QED
  BY <1>2, <1>3, <1>4, ReorgKeepsPrefix
     DEF Reorg, TypeInv, TypeOK, database, scan, Blocks

\* The steps of the process leave the chain alone.
LEMMA FundedUnchanged ==
    ASSUME TypeInv, UNCHANGED <<chain, final>>
    PROVE  /\ Funded' /\ chain' \in Seq(Blocks) /\ Len(chain') <= MaxBlocks
           /\ final' \in 0..Len(chain')
<1>1. Funded'
  BY Typed, FundedKept
<1> QED
  BY <1>1, Typed

LEMMA TypeBeginScan == TypeInv /\ BeginScan => TypeInv'
<1> SUFFICES ASSUME TypeInv, BeginScan PROVE TypeInv'
  OBVIOUS
<1>1. work' \in Seq(WorkRow)
  BY Typed, ScanRows
<1>2. to' \in 0..MaxBlocks /\ to' > checkpoint'
  BY Typed, LastBlockBounds, Constants DEF BeginScan, database
<1> QED
  BY <1>1, <1>2, FundedUnchanged DEF BeginScan, TypeInv, TypeOK, database, Blocks,
     WorkRow

\* What a subscription row is written as.
LEMMA RowWritten ==
    ASSUME TypeInv, NEW h \in Holders, NEW s \in {"redeemed", "active"},
           subscriptions' = [subscriptions EXCEPT ![h] =
                                [shares |-> Position(h), status |-> s]]
    PROVE  subscriptions' \in [Holders -> SubscriptionRow]
<1>1. Position(h) \in Nat
  BY Typed, PositionNat
<1>2. [shares |-> Position(h), status |-> s] \in SubscriptionRow
  BY <1>1 DEF SubscriptionRow
<1> QED
  BY <1>2, Typed

\* The three things WriteRow may do to the scan, and the writes.
LEMMA WriteRowCases ==
    ASSUME TypeInv, WriteRow
    PROVE  LET w == Head(work)
               e == w.event
               h == Holder(e)
           IN  /\ w \in WorkRow /\ ToWrite(w) /\ scanning
               /\ UNCHANGED <<chain, final, store, checkpoint, reorgs, faults,
                              restarts>>
               /\ \/ \* the scan ends in an exception
                     /\ EndScan /\ UNCHANGED database
                  \/ \* the row is not asked for, or of an unknown index
                     /\ ~ Asked(w) \/ e.idx \notin Published
                     /\ work' = Tail(work) /\ UNCHANGED <<database, scanning, to>>
                  \/ \* a subscription
                     /\ w = SubRow(e) /\ ChangesShares(e) /\ e \in Events
                     /\ h \in Holders
                     /\ \E s \in {"redeemed", "active"} :
                          /\ s = "redeemed" => Position(h) = 0
                          /\ subscriptions' = [subscriptions EXCEPT ![h] =
                                 [shares |-> Position(h), status |-> s]]
                     /\ work' = Tail(work)
                     /\ UNCHANGED <<earnings, scanning, to>>
                  \/ \* a fee
                     /\ w = FeeRow(e) /\ IsFee(e) /\ e \in Events
                     /\ earnings' = [earnings EXCEPT ![e] = Inserted(@)]
                     /\ work' = Tail(work)
                     /\ UNCHANGED <<subscriptions, scanning, to>>
<1> DEFINE w == Head(work)
           e == w.event
           h == Holder(e)
<1>1. work \in Seq(WorkRow) /\ work # <<>>
  BY Typed DEF WriteRow
<1>2. w \in WorkRow /\ ToWrite(w) /\ e \in Blocks
  <2>1. 1 \in DOMAIN work /\ w = work[1] /\ work[1] \in WorkRow
    BY <1>1
  <2>2. ToWrite(w)
    BY <2>1 DEF ToWrite
  <2> QED
    BY <2>1, <2>2 DEF WorkRow
<1>3. /\ w.write = "subscription" => w = SubRow(e)
      /\ w.write = "earning" => w = FeeRow(e)
      /\ w.write \in {"subscription", "earning"}
  BY <1>2 DEF WorkRow, SubRow, FeeRow
<1> HIDE DEF w
<1>4. scanning /\ UNCHANGED <<chain, final, store, reorgs, faults, restarts>>
  BY DEF WriteRow
<1>5. \/ ~ Asked(w) /\ work' = Tail(work) /\ UNCHANGED <<database, scanning, to>>
      \/ Asked(w) /\ w.write = "subscription" /\ WriteSubscription(e)
      \/ Asked(w) /\ w.write = "earning" /\ WriteEarning(e)
  BY DEF WriteRow, w
<1>6. CASE ~ Asked(w) /\ work' = Tail(work) /\ UNCHANGED <<database, scanning, to>>
  BY <1>2, <1>4, <1>6 DEF database, w
<1>7. CASE Asked(w) /\ w.write = "subscription" /\ WriteSubscription(e)
  <2>1. ChangesShares(e) /\ e \in Events /\ h \in Holders
    BY <1>2, <1>7, FeeBlocks DEF Asked, Holders, Holder
  <2>2. CASE e.idx \notin Published /\ work' = Tail(work)
               /\ UNCHANGED <<database, scanning, to>>
    BY <1>2, <1>4, <2>2 DEF database, w
  <2>3. CASE EndScan /\ UNCHANGED database
    BY <1>2, <1>4, <2>3 DEF database, w
  <2>4. CASE /\ subscriptions' = [subscriptions EXCEPT ![h] =
                   [shares |-> Position(h),
                    status |-> IF e.kind = "Redeemed" /\ Position(h) = 0
                               THEN "redeemed" ELSE "active"]]
             /\ work' = Tail(work)
             /\ UNCHANGED <<checkpoint, earnings, scanning, to>>
    <3>1. \E s \in {"redeemed", "active"} :
             /\ s = "redeemed" => Position(h) = 0
             /\ subscriptions' = [subscriptions EXCEPT ![h] =
                                     [shares |-> Position(h), status |-> s]]
      BY <2>4
    <3> QED
      BY <1>2, <1>3, <1>4, <1>7, <2>1, <2>4, <3>1 DEF w
  <2> QED
    BY <1>7, <2>2, <2>3, <2>4 DEF WriteSubscription, Holder
<1>8. CASE Asked(w) /\ w.write = "earning" /\ WriteEarning(e)
  <2>1. IsFee(e) /\ e \in Events
    BY <1>2, <1>8, FeeBlocks DEF Asked
  <2> QED
    BY <1>2, <1>3, <1>4, <1>8, <2>1 DEF WriteEarning, database, w
<1> QED
  BY <1>5, <1>6, <1>7, <1>8

LEMMA TypeWriteRow == TypeInv /\ WriteRow => TypeInv'
<1> SUFFICES ASSUME TypeInv, WriteRow PROVE TypeInv'
  OBVIOUS
<1> DEFINE w == Head(work)
           e == w.event
           h == Holder(e)
<1>1. /\ UNCHANGED <<chain, final, store, checkpoint, reorgs, faults, restarts>>
      /\ scanning
  BY WriteRowCases
<1>2. work \in Seq(WorkRow) /\ work # <<>>
  BY Typed DEF WriteRow
<1>3. CASE EndScan /\ UNCHANGED database
  BY <1>1, <1>3, FundedUnchanged, Constants, NothingLeft
     DEF EndScan, database, TypeInv, TypeOK, Blocks, WorkRow
<1>4. CASE /\ earnings' \in [Events -> Nat]
           /\ subscriptions' \in [Holders -> SubscriptionRow]
           /\ work' = Tail(work) /\ UNCHANGED <<scanning, to>>
  <2>1. work' \in Seq(WorkRow)
    BY <1>2, <1>4, RowsLeft
  <2> QED
    BY <1>1, <1>4, <2>1, FundedUnchanged
       DEF TypeInv, TypeOK, Blocks, WorkRow, SubscriptionRow
<1>5. CASE work' = Tail(work) /\ UNCHANGED <<database, scanning, to>>
  BY <1>4, <1>5, Typed DEF database
<1>6. CASE /\ h \in Holders
           /\ \E s \in {"redeemed", "active"} :
                subscriptions' = [subscriptions EXCEPT ![h] =
                                     [shares |-> Position(h), status |-> s]]
           /\ work' = Tail(work)
           /\ UNCHANGED <<earnings, scanning, to>>
  <2>1. subscriptions' \in [Holders -> SubscriptionRow]
    BY <1>6, RowWritten
  <2> QED
    BY <1>4, <1>6, <2>1, Typed
<1>7. CASE /\ e \in Events
           /\ earnings' = [earnings EXCEPT ![e] = Inserted(@)]
           /\ work' = Tail(work)
           /\ UNCHANGED <<subscriptions, scanning, to>>
  <2>1. earnings' \in [Events -> Nat]
    BY <1>7, Typed DEF Inserted
  <2> QED
    BY <1>4, <1>7, <2>1, Typed
<1> HIDE DEF w
<1> QED
  BY <1>3, <1>5, <1>6, <1>7, WriteRowCases DEF w

LEMMA TypeAdvance == TypeInv /\ AdvanceCheckpoint => TypeInv'
<1> SUFFICES ASSUME TypeInv, AdvanceCheckpoint PROVE TypeInv'
  OBVIOUS
<1>1. checkpoint' \in 0..MaxBlocks /\ to' \in 0..MaxBlocks
  BY Constants DEF AdvanceCheckpoint, EndScan, TypeInv, TypeOK
<1> QED
  BY <1>1, FundedUnchanged, NothingLeft
     DEF AdvanceCheckpoint, EndScan, TypeInv, TypeOK, Blocks, WorkRow

LEMMA TypeScanFails == TypeInv /\ ScanFails => TypeInv'
<1> SUFFICES ASSUME TypeInv, ScanFails PROVE TypeInv'
  OBVIOUS
<1>1. faults' \in 0..MaxFaults /\ to' \in 0..MaxBlocks
  BY Constants DEF ScanFails, EndScan, TypeInv, TypeOK
<1> QED
  BY <1>1, FundedUnchanged, NothingLeft
     DEF ScanFails, EndScan, database, TypeInv, TypeOK, Blocks, WorkRow

LEMMA TypeRestart == TypeInv /\ Restart => TypeInv'
<1> SUFFICES ASSUME TypeInv, Restart PROVE TypeInv'
  OBVIOUS
<1>1. restarts' \in 0..MaxRestarts /\ to' \in 0..MaxBlocks /\ 0 \in 0..MaxBlocks
  BY Constants DEF Restart, EndScan, TypeInv, TypeOK
<1>2. /\ checkpoint' \in 0..MaxBlocks
      /\ earnings' \in [Events -> Nat]
      /\ subscriptions' \in [Holders -> SubscriptionRow]
  <2>1. CASE store = "memory"
    BY <1>1, <2>1 DEF Restart, NoRows, NoRow, SubscriptionRow
  <2>2. CASE store # "memory"
    BY <2>2 DEF Restart, database, TypeInv, TypeOK, SubscriptionRow
  <2> QED
    BY <2>1, <2>2
<1> QED
  BY <1>1, <1>2, FundedUnchanged, NothingLeft
     DEF Restart, EndScan, TypeInv, TypeOK, Blocks, WorkRow, SubscriptionRow

LEMMA TypeStep == TypeInv /\ [Next]_vars => TypeInv'
<1> SUFFICES ASSUME TypeInv, [Next]_vars PROVE TypeInv'
  OBVIOUS
<1>1. CASE UNCHANGED vars
  BY <1>1, FundedUnchanged DEF vars, database, scan, TypeInv, TypeOK
<1> QED
  BY <1>1, TypeMine, TypeReorg, TypeBeginScan, TypeWriteRow, TypeAdvance,
     TypeScanFails, TypeRestart DEF Next, ScanStep

\* The variables keep their types, and the events on the chain are ones that
\* the vault can have emitted (Funded, in TypeInv).
THEOREM Types == Spec => []TypeInv
BY TypeInit, TypeStep, PTL DEF Spec

-----------------------------------------------------------------------------
(* Fees *)

\* A fee event has one row at most.
EarningsBookedOnce == \A e \in Events : earnings[e] <= 1

LEMMA BookedOnceStep ==
    ASSUME TypeInv, EarningsBookedOnce, [Next]_vars
    PROVE  EarningsBookedOnce'
<1>1. CASE WriteRow
  <2>1. CASE UNCHANGED earnings
    BY <2>1 DEF EarningsBookedOnce
  <2>2. CASE \E e \in Events : earnings' = [earnings EXCEPT ![e] = Inserted(@)]
    BY <2>2, Typed DEF EarningsBookedOnce, Inserted
  <2> QED
    BY <1>1, <2>1, <2>2, WriteRowCases DEF database
<1>2. CASE Restart
  BY <1>2 DEF Restart, NoRows, database, EarningsBookedOnce
<1>3. CASE Mine \/ Reorg \/ BeginScan \/ AdvanceCheckpoint \/ ScanFails
             \/ UNCHANGED vars
  <2>1. UNCHANGED earnings
    BY <1>3 DEF Mine, Reorg, BeginScan, AdvanceCheckpoint, ScanFails, vars, database
  <2> QED
    BY <2>1 DEF EarningsBookedOnce
<1> QED
  BY <1>1, <1>2, <1>3 DEF Next, ScanStep

\* Scans read final blocks only.
ScansFinal ==
    /\ final + ReorgDepth >= Len(chain)
    /\ checkpoint <= final /\ to <= final

\* The rows left to write are of blocks of the range.
RangeRows ==
    \A i \in DOMAIN work : \E b \in (checkpoint + 1)..to :
        work[i] = SubRow(chain[b]) \/ work[i] = FeeRow(chain[b])

Booked(b) ==
    IsFee(chain[b]) /\ chain[b].idx \in Published => earnings[chain[b]] = 1
FeesPending ==
    scanning => \A b \in (checkpoint + 1)..to :
                    Booked(b) \/ ToWrite(FeeRow(chain[b]))
FeesBehind == \A b \in 1..checkpoint : Booked(b)

EarningsFinal ==
    \A e \in Events : earnings[e] > 0 => \E b \in 1..final : chain[b] = e

\* As many confirmations are waited for as blocks can be orphaned.
EnoughConfirmations == Confirmations >= ReorgDepth

ScanInv ==
    /\ TypeInv /\ EarningsBookedOnce
    /\ ScansFinal /\ RangeRows /\ FeesPending /\ FeesBehind /\ EarningsFinal

LEMMA ScanInit == Init => ScanInv
<1> SUFFICES ASSUME Init PROVE ScanInv
  OBVIOUS
<1>1. TypeInv
  BY TypeInit
<1>2. /\ chain = <<>> /\ final = 0 /\ checkpoint = 0 /\ to = 0 /\ work = <<>>
      /\ scanning = FALSE /\ \A e \in Events : earnings[e] = 0
  BY DEF Init
<1> QED
  BY <1>1, <1>2, Constants
     DEF ScanInv, EarningsBookedOnce, ScansFinal, RangeRows, FeesPending,
         FeesBehind, EarningsFinal

\* The chain grows, or loses blocks that are not final: what is known of final
\* blocks is kept.
LEMMA ScanChain ==
    ASSUME ScanInv, TypeInv', UNCHANGED <<database, scan>>, final <= final',
           final' + ReorgDepth >= Len(chain'),
           \A b \in 1..final : chain'[b] = chain[b]
    PROVE  ScanInv'
<1>1. /\ final \in Nat /\ final' \in Nat /\ checkpoint \in Nat /\ to \in Nat
      /\ checkpoint <= final /\ to <= final
      /\ UNCHANGED <<checkpoint, to, work, scanning, earnings>>
  BY Typed DEF ScanInv, ScansFinal, TypeInv, TypeOK, database, scan
<1>2. ScansFinal'
  BY <1>1 DEF ScansFinal
<1>3. /\ \A b \in (checkpoint + 1)..to : chain'[b] = chain[b]
      /\ \A b \in 1..checkpoint : chain'[b] = chain[b]
  BY <1>1
<1>4. RangeRows'
  BY <1>1, <1>3 DEF ScanInv, RangeRows, SubRow, FeeRow
<1>5. FeesPending' /\ FeesBehind'
  BY <1>1, <1>3 DEF ScanInv, FeesPending, FeesBehind, Booked, ToWrite, FeeRow, IsFee
<1>6. EarningsFinal'
  <2> SUFFICES ASSUME NEW e \in Events, earnings[e] > 0
               PROVE  \E b \in 1..final' : chain'[b] = e
    BY <1>1 DEF EarningsFinal
  <2>1. PICK b \in 1..final : chain[b] = e
    BY DEF ScanInv, EarningsFinal
  <2> QED
    BY <1>1, <2>1
<1>7. EarningsBookedOnce'
  BY <1>1 DEF ScanInv, EarningsBookedOnce
<1> QED
  BY <1>2, <1>4, <1>5, <1>6, <1>7 DEF ScanInv

LEMMA ScanMine == ScanInv /\ Mine => ScanInv'
<1> SUFFICES ASSUME ScanInv, Mine PROVE ScanInv'
  OBVIOUS
<1>1. TypeInv'
  BY TypeMine DEF ScanInv
<1>2. PICK e \in Blocks : chain' = Append(chain, e)
  BY DEF Mine, Blocks
<1>3. /\ chain \in Seq(Blocks) /\ final \in Nat /\ final <= Len(chain)
  BY Typed DEF ScanInv
<1>4. /\ Len(chain') = Len(chain) + 1
      /\ \A b \in 1..final : chain'[b] = chain[b]
  BY <1>2, <1>3
<1>5. final' >= final /\ final' + ReorgDepth >= Len(chain')
  BY <1>3, <1>4, Constants DEF Mine, Later
<1> QED
  BY <1>1, <1>4, <1>5, ScanChain DEF Mine

LEMMA ScanReorg == ScanInv /\ Reorg => ScanInv'
<1> SUFFICES ASSUME ScanInv, Reorg PROVE ScanInv'
  OBVIOUS
<1>1. TypeInv'
  BY TypeReorg DEF ScanInv
<1>2. /\ Len(chain') <= Len(chain) /\ final <= Len(chain') /\ final' = final
      /\ \A b \in 1..Len(chain') : chain'[b] = chain[b]
      /\ final \in Nat /\ Len(chain) \in Nat /\ Len(chain') \in Nat
  BY ReorgKeepsPrefix, Typed DEF ScanInv
<1>3. /\ final' + ReorgDepth >= Len(chain') /\ final <= final'
      /\ \A b \in 1..final : chain'[b] = chain[b]
  BY <1>2, Constants DEF ScanInv, ScansFinal
<1> QED
  BY <1>1, <1>3, ScanChain DEF Reorg

\* A scan takes up final blocks, and everything they ask for.
LEMMA ScanBegin == EnoughConfirmations /\ ScanInv /\ BeginScan => ScanInv'
<1> SUFFICES ASSUME EnoughConfirmations, ScanInv, BeginScan PROVE ScanInv'
  OBVIOUS
<1>1. TypeInv'
  BY TypeBeginScan DEF ScanInv
<1>2. UNCHANGED <<chain, final, checkpoint, earnings>>
  BY DEF BeginScan, database
<1>3. chain \in Seq(Blocks) /\ Len(chain) \in Nat /\ checkpoint \in Nat
      /\ final \in Nat
  BY Typed DEF ScanInv
<1>4. to' \in Nat /\ to' <= Len(chain) - Confirmations
  BY <1>3, LastBlockBounds DEF BeginScan
<1>5. ScansFinal'
  BY <1>2, <1>3, <1>4, Constants DEF ScanInv, ScansFinal, EnoughConfirmations
<1>6. RangeRows'
  BY <1>2, <1>3, ScanRows DEF RangeRows, SubRow, FeeRow
<1>7. FeesPending'
  BY <1>2, <1>3, ScanRows DEF FeesPending, FeeRow
<1>8. FeesBehind' /\ EarningsFinal' /\ EarningsBookedOnce'
  BY <1>2 DEF ScanInv, FeesBehind, Booked, IsFee, EarningsFinal, EarningsBookedOnce
<1> QED
  BY <1>1, <1>5, <1>6, <1>7, <1>8 DEF ScanInv

\* The scan is given up and nothing is changed, or everything is dropped.
LEMMA ScanEnds ==
    ASSUME ScanInv, TypeInv', EndScan, UNCHANGED <<chain, final>>,
           UNCHANGED database \/ NoRows
    PROVE  ScanInv'
<1>1. /\ final \in Nat /\ Len(chain) \in Nat
      /\ to' = 0 /\ work' = <<>> /\ scanning' = FALSE
  BY Typed DEF ScanInv, EndScan
<1>2. RangeRows' /\ FeesPending'
  BY <1>1 DEF RangeRows, FeesPending
<1>3. CASE UNCHANGED database
  <2>1. UNCHANGED <<checkpoint, earnings>>
    BY <1>3 DEF database
  <2> QED
    BY <1>1, <1>2, <2>1 DEF ScanInv, ScansFinal, FeesBehind, Booked, IsFee,
       EarningsFinal, EarningsBookedOnce
<1>4. CASE NoRows
  <2>1. checkpoint' = 0 /\ \A e \in Events : earnings'[e] = 0
    BY <1>4 DEF NoRows
  <2> QED
    BY <1>1, <1>2, <2>1 DEF ScanInv, ScansFinal, FeesBehind, EarningsFinal,
       EarningsBookedOnce
<1> QED
  BY <1>3, <1>4

\* One row is written: the rows that are left are of the range, and every
\* other fee is still to be written.
LEMMA RowDone ==
    ASSUME ScanInv, scanning, work # <<>>, work' = Tail(work),
           UNCHANGED <<chain, checkpoint, to>>
    PROVE  /\ RangeRows'
           /\ \E b \in (checkpoint + 1)..to :
                 Head(work) = SubRow(chain[b]) \/ Head(work) = FeeRow(chain[b])
           /\ \A b \in (checkpoint + 1)..to :
                 \/ Booked(b)
                 \/ FeeRow(chain[b]) = Head(work)
                 \/ ToWrite(FeeRow(chain[b]))'
<1>1. work \in Seq(WorkRow)
  BY Typed DEF ScanInv
<1>2. \A r : ToWrite(r) => \E b \in (checkpoint + 1)..to :
                              r = SubRow(chain[b]) \/ r = FeeRow(chain[b])
  BY DEF ScanInv, RangeRows, ToWrite
<1>3. \A i \in DOMAIN work' : ToWrite(work'[i])
  BY <1>1, RowsLeft
<1>4. RangeRows'
  BY <1>2, <1>3 DEF RangeRows, SubRow, FeeRow
<1>5. ToWrite(Head(work))
  BY <1>1, RowsLeft
<1>6. \A r : ToWrite(r) => r = Head(work) \/ ToWrite(r)'
  BY <1>1, RowsLeft
<1>7. ASSUME NEW b \in (checkpoint + 1)..to, ~ Booked(b),
             FeeRow(chain[b]) # Head(work)
      PROVE  ToWrite(FeeRow(chain[b]))'
  <2>1. ToWrite(FeeRow(chain[b]))
    BY <1>7 DEF ScanInv, FeesPending
  <2> DEFINE r == FeeRow(chain[b])
  <2>2. \E i \in DOMAIN work' : work'[i] = r
    BY <1>6, <1>7, <2>1 DEF ToWrite
  <2> QED
    BY <2>2 DEF ToWrite, FeeRow
<1> QED
  BY <1>2, <1>4, <1>5, <1>7

LEMMA ScanWriteRow == ScanInv /\ WriteRow => ScanInv'
<1> SUFFICES ASSUME ScanInv, WriteRow PROVE ScanInv'
  OBVIOUS
<1> DEFINE w == Head(work)
           e == w.event
<1>1. TypeInv /\ TypeInv' /\ EarningsBookedOnce'
  BY TypeWriteRow, BookedOnceStep DEF ScanInv, Next, ScanStep
<1>2. /\ scanning /\ work # <<>>
      /\ UNCHANGED <<chain, final, store, checkpoint>>
  BY <1>1, WriteRowCases DEF WriteRow
<1>3. earnings \in [Events -> Nat] /\ checkpoint \in Nat /\ to \in Nat /\ final \in Nat
  BY <1>1, Typed
<1>4. CASE EndScan /\ UNCHANGED database
  BY <1>1, <1>2, <1>4, ScanEnds
<1>5. ASSUME work' = Tail(work), UNCHANGED <<earnings, scanning, to>>,
             \A b \in (checkpoint + 1)..to : FeeRow(chain[b]) = w => Booked(b)
      PROVE  ScanInv'
  <2>1. RangeRows'
    BY <1>2, <1>5, RowDone
  <2>2. \A b : Booked(b)' <=> Booked(b)
    BY <1>2, <1>5 DEF Booked, IsFee
  <2>3. FeesPending'
    <3>1. \A b \in (checkpoint + 1)..to : Booked(b)' \/ ToWrite(FeeRow(chain[b]))'
      BY <1>2, <1>5, <2>2, RowDone
    <3> QED
      BY <1>2, <1>5, <3>1 DEF FeesPending, FeeRow
  <2>4. FeesBehind' /\ ScansFinal' /\ EarningsFinal'
    BY <1>2, <1>5, <2>2 DEF ScanInv, FeesBehind, ScansFinal, EarningsFinal
  <2> QED
    BY <1>1, <2>1, <2>3, <2>4 DEF ScanInv
<1>6. CASE /\ ~ Asked(w) \/ e.idx \notin Published
           /\ work' = Tail(work) /\ UNCHANGED <<database, scanning, to>>
  <2>1. \A b \in (checkpoint + 1)..to : FeeRow(chain[b]) = w => Booked(b)
    BY <1>6 DEF FeeRow, Asked, Booked
  <2> QED
    BY <1>5, <1>6, <2>1 DEF database
<1>7. CASE /\ w = SubRow(e)
           /\ work' = Tail(work) /\ UNCHANGED <<earnings, scanning, to>>
  <2>1. \A b \in (checkpoint + 1)..to : FeeRow(chain[b]) # w
    BY <1>7 DEF FeeRow, SubRow
  <2> QED
    BY <1>5, <1>7, <2>1
<1>8. CASE /\ w = FeeRow(e) /\ e \in Events
           /\ earnings' = [earnings EXCEPT ![e] = Inserted(@)]
           /\ work' = Tail(work) /\ UNCHANGED <<scanning, to>>
  <2>1. RangeRows'
    BY <1>2, <1>8, RowDone
  <2>2. earnings'[e] = 1 /\ \A f \in Events : f # e => earnings'[f] = earnings[f]
    BY <1>3, <1>8 DEF ScanInv, EarningsBookedOnce, Inserted
  <2>3. \A b : Booked(b) => Booked(b)'
    <3> SUFFICES ASSUME NEW b, Booked(b), IsFee(chain[b]), chain[b].idx \in Published
                 PROVE  earnings'[chain[b]] = 1
      BY <1>2 DEF Booked, IsFee
    <3>1. earnings[chain[b]] = 1
      BY DEF Booked
    <3> QED
      BY <1>3, <1>8, <2>2, <3>1
  <2>4. \A b : FeeRow(chain[b]) = w => Booked(b)'
    BY <1>2, <1>8, <2>2 DEF Booked, FeeRow
  <2>5. FeesPending'
    <3>1. \A b \in (checkpoint + 1)..to : Booked(b)' \/ ToWrite(FeeRow(chain[b]))'
      BY <1>2, <1>8, <2>3, <2>4, RowDone
    <3> QED
      BY <1>2, <1>8, <3>1 DEF FeesPending, FeeRow
  <2>6. FeesBehind' /\ ScansFinal'
    BY <1>2, <1>8, <2>3 DEF ScanInv, FeesBehind, ScansFinal
  <2>7. \E b \in 1..final : chain[b] = e
    <3>1. PICK b \in (checkpoint + 1)..to : w = SubRow(chain[b]) \/ w = FeeRow(chain[b])
      BY <1>2, <1>8, RowDone
    <3>2. chain[b] = e
      BY <1>8, <3>1 DEF SubRow, FeeRow
    <3> QED
      BY <1>3, <3>1, <3>2 DEF ScanInv, ScansFinal
  <2>8. EarningsFinal'
    BY <1>2, <2>2, <2>7 DEF ScanInv, EarningsFinal
  <2> QED
    BY <1>1, <2>1, <2>5, <2>6, <2>8 DEF ScanInv
<1> HIDE DEF w
<1> QED
  BY <1>1, <1>4, <1>6, <1>7, <1>8, WriteRowCases DEF w

\* The checkpoint moves when no row is left, so over booked fees only.
LEMMA ScanAdvance == ScanInv /\ AdvanceCheckpoint => ScanInv'
<1> SUFFICES ASSUME ScanInv, AdvanceCheckpoint PROVE ScanInv'
  OBVIOUS
<1>1. TypeInv'
  BY TypeAdvance DEF ScanInv
<1>2. /\ scanning /\ work = <<>> /\ checkpoint' = to
      /\ UNCHANGED <<chain, final, earnings>>
      /\ scanning' = FALSE /\ to' = 0 /\ work' = <<>>
  BY DEF AdvanceCheckpoint, EndScan
<1>3. checkpoint \in Nat /\ to \in Nat /\ final \in Nat
  BY Typed DEF ScanInv
<1>4. \A b \in (checkpoint + 1)..to : Booked(b)
  BY <1>2 DEF ScanInv, FeesPending, ToWrite
<1>5. \A b \in 1..to : Booked(b)
  BY <1>3, <1>4 DEF ScanInv, FeesBehind
<1>6. FeesBehind'
  BY <1>2, <1>5 DEF FeesBehind, Booked, IsFee
<1>7. ScansFinal'
  BY <1>2, <1>3 DEF ScanInv, ScansFinal
<1>8. RangeRows' /\ FeesPending' /\ EarningsFinal' /\ EarningsBookedOnce'
  BY <1>2 DEF ScanInv, RangeRows, FeesPending, EarningsFinal, EarningsBookedOnce
<1> QED
  BY <1>1, <1>6, <1>7, <1>8 DEF ScanInv

LEMMA ScanInvStep == EnoughConfirmations /\ ScanInv /\ [Next]_vars => ScanInv'
<1> SUFFICES ASSUME EnoughConfirmations, ScanInv, [Next]_vars PROVE ScanInv'
  OBVIOUS
<1>1. TypeInv'
  BY TypeStep DEF ScanInv
<1>2. CASE ScanFails
  BY <1>1, <1>2, ScanEnds DEF ScanFails
<1>3. CASE Restart
  BY <1>1, <1>3, ScanEnds DEF Restart
<1>4. CASE UNCHANGED vars
  <2>1. UNCHANGED <<database, scan>> /\ UNCHANGED <<chain, final>>
    BY <1>4 DEF vars
  <2> QED
    BY <1>1, <2>1, ScanChain, Typed DEF ScanInv, ScansFinal
<1> QED
  BY <1>2, <1>3, <1>4, ScanMine, ScanReorg, ScanBegin, ScanWriteRow, ScanAdvance
     DEF Next, ScanStep

\* With enough confirmations, no fee that the checkpoint has passed is missing.
THEOREM NoFeeLost == EnoughConfirmations => (Spec => []NoEarningLost)
<1> SUFFICES ASSUME EnoughConfirmations PROVE Spec => []NoEarningLost
  OBVIOUS
<1>1. ScanInv => NoEarningLost
  BY Typed DEF ScanInv, FeesBehind, Booked, NoEarningLost
<1>2. ScanInv /\ [Next]_vars => ScanInv'
  BY ScanInvStep
<1> QED
  BY <1>1, <1>2, ScanInit, PTL DEF Spec

\* With enough confirmations, every booked fee is on the chain, for good.
THEOREM FeesAreOnChain == EnoughConfirmations => (Spec => []EarningsAreOnChain)
<1> SUFFICES ASSUME EnoughConfirmations PROVE Spec => []EarningsAreOnChain
  OBVIOUS
<1>1. ScanInv => EarningsAreOnChain
  BY Typed DEF ScanInv, EarningsFinal, EarningsAreOnChain, Range
<1>2. ScanInv /\ [Next]_vars => ScanInv'
  BY ScanInvStep
<1> QED
  BY <1>1, <1>2, ScanInit, PTL DEF Spec

-----------------------------------------------------------------------------
(* Subscriptions *)

\* Some change of h's shares has not reached h's row yet.
Waiting(b, h) ==
    /\ b > checkpoint /\ ChangesShares(chain[b]) /\ Holder(chain[b]) = h
    /\ ~ scanning \/ b > to \/ ToWrite(SubRow(chain[b]))
Unwritten(h) == \E b \in 1..Len(chain) : Waiting(b, h)

\* A row was written from a position as it was after the last change of the
\* shares, when some of the requests of today were not there yet.
RowMirrors(h) ==
    /\ Position(h) <= subscriptions[h].shares
    /\ subscriptions[h].shares <= Position(h) + Outstanding(h)
    /\ subscriptions[h].status = "redeemed" => subscriptions[h].shares = 0

RowsMirror == \A h \in Holders : h[1] \in Published /\ ~ Unwritten(h) => RowMirrors(h)
WithinChain == checkpoint <= Len(chain) /\ to <= Len(chain)
Mirrored == store = "memory" /\ reorgs = 0 => WithinChain /\ RowsMirror
MirrorInv == TypeInv /\ Mirrored

LEMMA WaitingNot == \A b, h : chain[b] = NoEvent => ~ Waiting(b, h)
BY DEF Waiting, ChangesShares, NoEvent

\* A holder with no change of shares on the chain owns nothing.
LEMMA NothingOwned ==
    ASSUME chain \in Seq(Blocks), Funded, NEW h \in Holders,
           \A b \in 1..Len(chain) : ~ (ChangesShares(chain[b]) /\ Holder(chain[b]) = h)
    PROVE  Position(h) = 0 /\ Outstanding(h) = 0
<1>1. Len(chain) \in Nat
  OBVIOUS
<1>2. BlocksOf("Subscribed", h, Len(chain)) = {}
      /\ BlocksOf("Redeemed", h, Len(chain)) = {}
  BY DEF BlocksOf, ChangesShares
<1>3. CountTo("Subscribed", h, Len(chain)) = 0 /\ CountTo("Redeemed", h, Len(chain)) = 0
  BY <1>2, FS_EmptySet DEF CountTo
<1>4. CountTo("RedeemRequested", h, Len(chain)) \in Nat
  BY <1>1, CountToType
<1>5. CountTo("RedeemRequested", h, Len(chain)) <= 0
  BY <1>1, <1>3 DEF Funded, FundedTo
<1> QED
  BY <1>3, <1>4, <1>5, PositionIs

LEMMA MirrorInit == Init => MirrorInv
<1> SUFFICES ASSUME Init PROVE MirrorInv
  OBVIOUS
<1>1. TypeInv
  BY TypeInit
<1>2. chain = <<>> /\ checkpoint = 0 /\ to = 0 /\ Len(chain) = 0
      /\ \A h \in Holders : subscriptions[h] = NoRow
  BY DEF Init
<1>3. \A h \in Holders : Position(h) = 0 /\ Outstanding(h) = 0
  BY <1>1, <1>2, Typed, NothingOwned
<1>4. RowsMirror
  BY <1>2, <1>3 DEF RowsMirror, RowMirrors, NoRow
<1> QED
  BY <1>1, <1>2, <1>4 DEF MirrorInv, Mirrored, WithinChain

\* Rows and positions are left alone, and no holder's last change is
\* forgotten.
LEMMA MirrorKept ==
    ASSUME MirrorInv, TypeInv', store = "memory" /\ reorgs = 0,
           UNCHANGED <<chain, subscriptions>>, WithinChain',
           \A h \in Holders : h[1] \in Published /\ Unwritten(h) => Unwritten(h)'
    PROVE  MirrorInv'
<1>1. \A h : Position(h)' = Position(h) /\ Outstanding(h)' = Outstanding(h)
  BY DEF Position, Outstanding, Count
<1>2. RowsMirror'
  BY <1>1 DEF MirrorInv, Mirrored, RowsMirror, RowMirrors
<1> QED
  BY <1>2 DEF MirrorInv, Mirrored

LEMMA MirrorMine == MirrorInv /\ Mine => MirrorInv'
<1> SUFFICES ASSUME MirrorInv, Mine PROVE MirrorInv'
  OBVIOUS
<1>1. TypeInv /\ TypeInv'
  BY TypeMine DEF MirrorInv
<1>2. UNCHANGED <<store, checkpoint, subscriptions, scanning, to, work, reorgs>>
  BY DEF Mine, database, scan
<1> SUFFICES ASSUME store = "memory", reorgs = 0 PROVE WithinChain' /\ RowsMirror'
  BY <1>1, <1>2 DEF MirrorInv, Mirrored
<1>3. WithinChain /\ RowsMirror
  BY DEF MirrorInv, Mirrored
<1>4. PICK e \in Blocks : CanHappen(e) /\ chain' = Append(chain, e)
  BY DEF Mine, Blocks
<1>5. PICK m \in Nat : /\ m = Len(chain) /\ Len(chain') = m + 1
                       /\ chain \in Seq(Blocks) /\ chain' \in Seq(Blocks)
                       /\ \A b \in 1..m : chain'[b] = chain[b]
                       /\ chain'[m + 1] = e
                       /\ checkpoint \in Nat /\ to \in Nat
  BY <1>1, <1>4, Typed
<1>6. WithinChain'
  BY <1>2, <1>3, <1>5 DEF WithinChain
<1>7. ASSUME NEW h \in Holders, h[1] \in Published, ~ Unwritten(h)'
      PROVE  RowMirrors(h)'
  <2>1. ~ Unwritten(h)
    <3>1. \A b \in 1..m : Waiting(b, h) => Waiting(b, h)'
      BY <1>2, <1>5 DEF Waiting, ToWrite, ChangesShares, Holder, SubRow
    <3> QED
      BY <1>5, <1>7, <3>1 DEF Unwritten
  <2>2. RowMirrors(h)
    BY <1>3, <1>7, <2>1 DEF RowsMirror
  <2>3. ~ (ChangesShares(e) /\ Holder(e) = h)
    <3> SUFFICES ASSUME ChangesShares(e), Holder(e) = h PROVE FALSE
      OBVIOUS
    <3>1. m + 1 > checkpoint /\ m + 1 > to
      BY <1>3, <1>5 DEF WithinChain
    <3>2. Waiting(m + 1, h)'
      BY <1>2, <1>5, <3>1 DEF Waiting, ChangesShares, Holder
    <3> QED
      BY <1>5, <1>7, <3>2 DEF Unwritten
  <2> DEFINE s == CountTo("Subscribed", h, m)
             q == CountTo("RedeemRequested", h, m)
             r == CountTo("Redeemed", h, m)
             q1 == CountTo("RedeemRequested", h, m + 1)'
  <2>4. s \in Nat /\ q \in Nat /\ r \in Nat
    BY CountToType
  <2>5. Position(h) = s - q /\ Outstanding(h) = q - r
    BY <1>5, PositionIs
  <2>6. /\ CountTo("Subscribed", h, m + 1)' = s
        /\ CountTo("Redeemed", h, m + 1)' = r
        /\ q1 = q \/ q1 = q + 1
    BY <1>4, <1>5, <2>3, <2>4, CountAppended DEF ChangesShares
  <2>7. Position(h)' = s - q1 /\ Outstanding(h)' = q1 - r
    <3>1. Position(h)' = CountTo("Subscribed", h, m + 1)' - q1
          /\ Outstanding(h)' = q1 - CountTo("Redeemed", h, m + 1)'
      BY <1>5, PositionIsNext DEF PositionCounts
    <3> QED
      BY <2>6, <3>1
  <2>8. subscriptions[h].shares \in Nat
    BY <1>1, Typed DEF SubscriptionRow
  <2> HIDE DEF s, q, r, q1
  <2> QED
    BY <1>2, <2>2, <2>4, <2>5, <2>6, <2>7, <2>8 DEF RowMirrors
<1> QED
  BY <1>6, <1>7 DEF RowsMirror

LEMMA MirrorBegin == MirrorInv /\ BeginScan => MirrorInv'
<1> SUFFICES ASSUME MirrorInv, BeginScan PROVE MirrorInv'
  OBVIOUS
<1>1. TypeInv /\ TypeInv'
  BY TypeBeginScan DEF MirrorInv
<1>2. UNCHANGED <<chain, store, checkpoint, subscriptions, reorgs>> /\ ~ scanning
  BY DEF BeginScan, database
<1> SUFFICES ASSUME store = "memory", reorgs = 0 PROVE MirrorInv'
  BY <1>1, <1>2 DEF MirrorInv, Mirrored
<1>3. chain \in Seq(Blocks) /\ Len(chain) \in Nat /\ checkpoint \in Nat
  BY <1>1, Typed
<1>4. to' \in Nat /\ to' <= Len(chain)
  BY <1>3, LastBlockBounds DEF BeginScan
<1>5. WithinChain'
  BY <1>2, <1>4 DEF MirrorInv, Mirrored, WithinChain
<1>6. \A b \in (checkpoint + 1)..to' : ToWrite(SubRow(chain[b]))'
  BY <1>3, ScanRows
<1>7. ASSUME NEW h, Unwritten(h) PROVE Unwritten(h)'
  <2>1. PICK b \in 1..Len(chain) : Waiting(b, h)
    BY <1>7 DEF Unwritten
  <2>2. b > to' \/ ToWrite(SubRow(chain[b]))'
    BY <1>3, <1>4, <1>6, <2>1 DEF Waiting
  <2>3. Waiting(b, h)'
    BY <1>2, <2>1, <2>2 DEF Waiting, ChangesShares, Holder, SubRow
  <2> QED
    BY <1>2, <2>3 DEF Unwritten
<1> QED
  BY <1>1, <1>2, <1>5, <1>7, MirrorKept

\* A scan that ends leaves waiting what it has not written.
LEMMA WaitingLonger ==
    ASSUME UNCHANGED <<chain, checkpoint>>, scanning' = FALSE, NEW h, Unwritten(h)
    PROVE  Unwritten(h)'
<1>1. PICK b \in 1..Len(chain) : Waiting(b, h)
  BY DEF Unwritten
<1>2. Waiting(b, h)'
  BY <1>1 DEF Waiting, ChangesShares, Holder
<1> QED
  BY <1>1, <1>2 DEF Unwritten

LEMMA MirrorEnds ==
    ASSUME MirrorInv, TypeInv', EndScan,
           UNCHANGED <<chain, store, database, reorgs>>
    PROVE  MirrorInv'
<1>1. UNCHANGED <<checkpoint, subscriptions>> /\ scanning' = FALSE /\ to' = 0
  BY DEF EndScan, database
<1> SUFFICES ASSUME store = "memory", reorgs = 0 PROVE MirrorInv'
  BY DEF MirrorInv, Mirrored
<1>2. Len(chain) \in Nat
  BY Typed DEF MirrorInv
<1>3. WithinChain'
  BY <1>1, <1>2 DEF MirrorInv, Mirrored, WithinChain
<1>4. \A h \in Holders : Unwritten(h) => Unwritten(h)'
  BY <1>1, WaitingLonger
<1> QED
  BY <1>1, <1>3, <1>4, MirrorKept

\* Writing a row leaves waiting every change that is not this row's.
LEMMA WaitingOthers ==
    ASSUME TypeInv, work # <<>>, work' = Tail(work),
           UNCHANGED <<chain, checkpoint, scanning, to>>, NEW h,
           \A b \in 1..Len(chain) :
               ~ (Waiting(b, h) /\ SubRow(chain[b]) = Head(work)),
           Unwritten(h)
    PROVE  Unwritten(h)'
<1>1. PICK b \in 1..Len(chain) : Waiting(b, h)
  BY DEF Unwritten
<1>2. SubRow(chain[b]) # Head(work)
  BY <1>1
<1> DEFINE r == SubRow(chain[b])
<1>3. ToWrite(r) => \E i \in DOMAIN work' : work'[i] = r
  <2>1. \A s : ToWrite(s) => s = Head(work) \/ ToWrite(s)'
    BY Typed, RowsLeft
  <2> QED
    BY <1>2, <2>1 DEF ToWrite
<1>4. Waiting(b, h)'
  BY <1>1, <1>3 DEF Waiting, ToWrite, ChangesShares, Holder, SubRow
<1> QED
  BY <1>1, <1>4 DEF Unwritten

LEMMA MirrorWriteRow == MirrorInv /\ WriteRow => MirrorInv'
<1> SUFFICES ASSUME MirrorInv, WriteRow PROVE MirrorInv'
  OBVIOUS
<1> DEFINE w == Head(work)
           e == w.event
           g == Holder(e)
<1>1. TypeInv /\ TypeInv'
  BY TypeWriteRow DEF MirrorInv
<1>2. UNCHANGED <<chain, store, checkpoint, reorgs>> /\ work # <<>>
  BY <1>1, WriteRowCases DEF WriteRow
<1>3. CASE EndScan /\ UNCHANGED database
  BY <1>1, <1>2, <1>3, MirrorEnds
<1> SUFFICES ASSUME store = "memory", reorgs = 0,
                    ~ (EndScan /\ UNCHANGED database)
             PROVE  MirrorInv'
  BY <1>1, <1>2, <1>3 DEF MirrorInv, Mirrored
<1>4. WithinChain /\ RowsMirror
  BY DEF MirrorInv, Mirrored
<1>5. CASE /\ ~ Asked(w) \/ e.idx \notin Published
           /\ work' = Tail(work) /\ UNCHANGED <<database, scanning, to>>
  <2>1. ASSUME NEW h \in Holders, h[1] \in Published, NEW b \in 1..Len(chain),
               Waiting(b, h), SubRow(chain[b]) = w
        PROVE  FALSE
    <3>1. chain[b] = e /\ w.write = "subscription"
      BY <2>1 DEF SubRow
    <3>2. ChangesShares(e) /\ <<e.idx, e.who>> = h
      BY <2>1, <3>1 DEF Waiting, Holder
    <3>3. Asked(w)
      BY <3>1, <3>2 DEF Asked
    <3> QED
      BY <1>5, <2>1, <3>2, <3>3
  <2>2. UNCHANGED subscriptions /\ WithinChain'
    BY <1>2, <1>4, <1>5 DEF database, WithinChain
  <2>3. \A h \in Holders : h[1] \in Published /\ Unwritten(h) => Unwritten(h)'
    BY <1>1, <1>2, <1>5, <2>1, WaitingOthers
  <2> QED
    BY <1>1, <1>2, <2>2, <2>3, MirrorKept
<1>6. CASE /\ w = FeeRow(e)
           /\ work' = Tail(work) /\ UNCHANGED <<subscriptions, scanning, to>>
  <2>1. \A x : SubRow(x) # w
    BY <1>6 DEF SubRow, FeeRow
  <2>2. WithinChain'
    BY <1>2, <1>4, <1>6 DEF WithinChain
  <2>3. \A h \in Holders : Unwritten(h) => Unwritten(h)'
    BY <1>1, <1>2, <1>6, <2>1, WaitingOthers
  <2> QED
    BY <1>1, <1>2, <1>6, <2>2, <2>3, MirrorKept
<1>7. ASSUME g \in Holders, NEW s \in {"redeemed", "active"},
             s = "redeemed" => Position(g) = 0,
             subscriptions' = [subscriptions EXCEPT ![g] =
                                  [shares |-> Position(g), status |-> s]],
             work' = Tail(work), UNCHANGED <<scanning, to>>
      PROVE  MirrorInv'
  <2>1. \A h : Position(h)' = Position(h) /\ Outstanding(h)' = Outstanding(h)
    BY <1>2 DEF Position, Outstanding, Count
  <2>2. WithinChain'
    BY <1>2, <1>4, <1>7 DEF WithinChain
  <2>3. ASSUME NEW h \in Holders, h[1] \in Published, ~ Unwritten(h)'
        PROVE  RowMirrors(h)'
    <3>1. CASE h = g
      <4>1. Position(h) \in Nat /\ Outstanding(h) \in Nat
        BY <1>1, Typed, PositionNat
      <4>2. subscriptions'[h] = [shares |-> Position(h), status |-> s]
        BY <1>1, <1>7, <3>1, Typed
      <4> QED
        BY <1>7, <2>1, <3>1, <4>1, <4>2 DEF RowMirrors
    <3>2. CASE h # g
      <4>1. \A b \in 1..Len(chain) : ~ (Waiting(b, h) /\ SubRow(chain[b]) = w)
        BY <3>2 DEF Waiting, SubRow
      <4>2. ~ Unwritten(h)
        BY <1>1, <1>2, <1>7, <2>3, <4>1, WaitingOthers
      <4>3. subscriptions'[h] = subscriptions[h]
        BY <1>1, <1>7, <3>2, Typed
      <4> QED
        BY <1>4, <2>1, <2>3, <4>2, <4>3 DEF RowsMirror, RowMirrors
    <3> QED
      BY <3>1, <3>2
  <2> QED
    BY <1>1, <2>2, <2>3 DEF MirrorInv, Mirrored, RowsMirror
<1> HIDE DEF w
<1> QED
  BY <1>1, <1>3, <1>5, <1>6, <1>7, WriteRowCases DEF w

LEMMA MirrorAdvance == MirrorInv /\ AdvanceCheckpoint => MirrorInv'
<1> SUFFICES ASSUME MirrorInv, AdvanceCheckpoint PROVE MirrorInv'
  OBVIOUS
<1>1. TypeInv /\ TypeInv'
  BY TypeAdvance DEF MirrorInv
<1>2. /\ scanning /\ work = <<>> /\ checkpoint' = to /\ scanning' = FALSE /\ to' = 0
      /\ UNCHANGED <<chain, store, subscriptions, reorgs>>
  BY DEF AdvanceCheckpoint, EndScan
<1> SUFFICES ASSUME store = "memory", reorgs = 0 PROVE MirrorInv'
  BY <1>1, <1>2 DEF MirrorInv, Mirrored
<1>3. WithinChain'
  BY <1>1, <1>2, Typed DEF MirrorInv, Mirrored, WithinChain
<1>4. ASSUME NEW h, Unwritten(h) PROVE Unwritten(h)'
  <2>1. PICK b \in 1..Len(chain) : Waiting(b, h)
    BY <1>4 DEF Unwritten
  <2>2. b > to
    BY <1>2, <2>1 DEF Waiting, ToWrite
  <2>3. Waiting(b, h)'
    BY <1>2, <2>1, <2>2 DEF Waiting, ChangesShares, Holder
  <2> QED
    BY <1>2, <2>3 DEF Unwritten
<1> QED
  BY <1>1, <1>2, <1>3, <1>4, MirrorKept

\* A restart of the in-memory store starts over from nothing.
LEMMA MirrorRestart == MirrorInv /\ Restart => MirrorInv'
<1> SUFFICES ASSUME MirrorInv, Restart PROVE MirrorInv'
  OBVIOUS
<1>1. TypeInv /\ TypeInv'
  BY TypeRestart DEF MirrorInv
<1>2. UNCHANGED <<chain, store, reorgs>> /\ to' = 0 /\ scanning' = FALSE
  BY DEF Restart, EndScan
<1> SUFFICES ASSUME store = "memory", reorgs = 0 PROVE MirrorInv'
  BY <1>1, <1>2 DEF MirrorInv, Mirrored
<1>3. checkpoint' = 0 /\ \A h \in Holders : subscriptions'[h] = NoRow
  BY DEF Restart, NoRows
<1>4. /\ chain \in Seq(Blocks) /\ Len(chain) \in Nat /\ Funded
  BY <1>1, Typed
<1>5. ASSUME NEW h \in Holders, ~ Unwritten(h)'
      PROVE  RowMirrors(h)'
  <2>1. \A b \in 1..Len(chain) : ~ (ChangesShares(chain[b]) /\ Holder(chain[b]) = h)
    BY <1>2, <1>3, <1>5 DEF Unwritten, Waiting, ChangesShares, Holder
  <2>2. Position(h) = 0 /\ Outstanding(h) = 0
    BY <1>4, <2>1, NothingOwned
  <2>3. Position(h)' = 0 /\ Outstanding(h)' = 0
    BY <1>2, <2>2 DEF Position, Outstanding, Count
  <2> QED
    BY <1>3, <2>3 DEF RowMirrors, NoRow
<1> QED
  BY <1>1, <1>2, <1>3, <1>4, <1>5 DEF MirrorInv, Mirrored, RowsMirror, WithinChain

LEMMA MirrorStep == MirrorInv /\ [Next]_vars => MirrorInv'
<1> SUFFICES ASSUME MirrorInv, [Next]_vars PROVE MirrorInv'
  OBVIOUS
<1>1. TypeInv'
  BY TypeStep DEF MirrorInv
<1>2. CASE Reorg
  <2>1. reorgs' # 0
    BY <1>2 DEF Reorg, MirrorInv, TypeInv, TypeOK
  <2> QED
    BY <1>1, <2>1 DEF MirrorInv, Mirrored
<1>3. CASE ScanFails
  BY <1>1, <1>3, MirrorEnds DEF ScanFails
<1>4. CASE UNCHANGED vars
  <2>1. /\ UNCHANGED <<chain, store, checkpoint, subscriptions, scanning, to, work>>
        /\ UNCHANGED reorgs
    BY <1>4 DEF vars, database, scan
  <2>2. \A h : Unwritten(h)' <=> Unwritten(h)
    BY <2>1 DEF Unwritten, Waiting, ToWrite, ChangesShares, Holder
  <2>3. \A h : Position(h)' = Position(h) /\ Outstanding(h)' = Outstanding(h)
    BY <2>1 DEF Position, Outstanding, Count
  <2> QED
    BY <1>1, <2>1, <2>2, <2>3
       DEF MirrorInv, Mirrored, WithinChain, RowsMirror, RowMirrors
<1> QED
  BY <1>2, <1>3, <1>4, MirrorMine, MirrorBegin, MirrorWriteRow, MirrorAdvance,
     MirrorRestart DEF Next, ScanStep

\* When everything has been indexed, every row of the in-memory store shows
\* what its subscriber owns, though positions are read long after the events.
THEOREM RowsMirrorPositions == Spec => []SubscriptionsMirrorPositions
<1>1. MirrorInv => SubscriptionsMirrorPositions
  <2> SUFFICES ASSUME MirrorInv, store = "memory", CaughtUp, reorgs = 0,
                      NEW h \in Holders, h[1] \in Published, Outstanding(h) = 0
               PROVE  /\ subscriptions[h].shares = Position(h)
                      /\ subscriptions[h].status = "redeemed" => Position(h) = 0
    BY DEF SubscriptionsMirrorPositions
  <2>1. /\ chain \in Seq(Blocks) /\ Position(h) \in Nat
        /\ subscriptions[h].shares \in Nat
    BY Typed, PositionNat DEF MirrorInv, SubscriptionRow
  <2>2. ~ Unwritten(h)
    BY <2>1, WaitingNot DEF CaughtUp, Unwritten, Waiting
  <2>3. RowMirrors(h)
    BY <2>2 DEF MirrorInv, Mirrored, RowsMirror
  <2> QED
    BY <2>1, <2>3 DEF RowMirrors
<1> QED
  BY <1>1, MirrorInit, MirrorStep, PTL DEF Spec

=============================================================================
