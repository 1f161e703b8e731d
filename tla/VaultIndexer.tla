---------------------------- MODULE VaultIndexer ----------------------------
(***************************************************************************)
(* The vault's earnings indexer: index_new_blocks of daemon.py, the        *)
(* VaultIndexer of indexer.py and the two stores of store.py.              *)
(*                                                                         *)
(* The chain is a sequence of blocks holding at most one vault event each. *)
(* Blocks may be orphaned until they have been ReorgDepth deep, and an     *)
(* orphaned transaction may be mined again.  One scan reads the logs of    *)
(* a range of confirmed blocks, writes row after row, and then advances    *)
(* the checkpoint; positions are read when a row is written, not at the    *)
(* event's block.  Any call may fail, which ends the scan (the daemon      *)
(* catches the exception and scans again at the next tick), and the        *)
(* process may be restarted.                                               *)
(*                                                                         *)
(* Amounts in USD, AUM and subscriber counts are left out.  InMemoryStore  *)
(* lives in the process and dies with it; SupabaseRestStore is a database. *)
(***************************************************************************)
EXTENDS Integers, Sequences, FiniteSets, Functions

CONSTANTS
    Events,         \* vault transactions: [tx, kind, idx, who] records
    Published,      \* indices with a row in pb_proposals
    Confirmations,  \* VaultDaemon.confirmations
    MaxSpan,        \* VaultDaemon.max_block_span
    ReorgDepth,     \* how deep in the chain a block is final
    MaxBlocks,      \* BOUND: height of the chain
    MaxReorgs,      \* BOUND: reorganisations
    MaxFaults,      \* BOUND: failed RPC and store calls
    MaxRestarts,    \* BOUND: restarts of the process
    Stores          \* which of "memory" and "supabase" may be used

Kinds == {"Subscribed", "RedeemRequested", "Redeemed", "MgmtAccrued"}

ASSUME IndexerAssumption ==
    /\ \A e \in Events : e.kind \in Kinds
    /\ Confirmations \in Nat /\ MaxSpan \in Nat \ {0} /\ ReorgDepth \in Nat
    /\ MaxBlocks \in Nat /\ MaxReorgs \in Nat
    /\ MaxFaults \in Nat /\ MaxRestarts \in Nat
    /\ Stores \subseteq {"memory", "supabase"} /\ Stores # {}

NoEvent == [tx |-> 0, kind |-> "none", idx |-> 0, who |-> 0]
NoRow == [shares |-> 0, status |-> "none"]
Holders == {<<e.idx, e.who>> : e \in Events}

VARIABLES
    chain,          \* the blocks, oldest first
    final,          \* how many of them can no longer be orphaned
    store,          \* which store the daemon was started with
    checkpoint,     \* sys_indexer_state.last_block (0: none yet)
    earnings,       \* transaction -> number of rows in pb_earnings
    subscriptions,  \* <<index, subscriber>> -> row of pb_subscriptions
    scanning, to,   \* a scan is running, up to block `to`
    work,           \* the rows the scan has still to write
    reorgs, faults, restarts

database == <<checkpoint, earnings, subscriptions>>
scan == <<scanning, to, work>>
vars == <<chain, final, store, database, scan, reorgs, faults, restarts>>

NoRows == /\ checkpoint' = 0
          /\ earnings' = [e \in Events |-> 0]
          /\ subscriptions' = [h \in Holders |-> NoRow]

Init ==
    /\ chain = <<>> /\ final = 0
    /\ store \in Stores
    /\ checkpoint = 0
    /\ earnings = [e \in Events |-> 0]
    /\ subscriptions = [h \in Holders |-> NoRow]
    /\ scanning = FALSE /\ to = 0 /\ work = <<>>
    /\ reorgs = 0 /\ faults = 0 /\ restarts = 0

-----------------------------------------------------------------------------
(* The chain *)

\* How many events of a kind h's owner has on the chain.
Count(kind, h) ==
    Cardinality({b \in DOMAIN chain :
                    chain[b].kind = kind /\ <<chain[b].idx, chain[b].who>> = h})

\* vault.positions: a share per subscription, escrowed when a redemption is
\* requested.
Position(h) == Count("Subscribed", h) - Count("RedeemRequested", h)
Outstanding(h) == Count("RedeemRequested", h) - Count("Redeemed", h)

Later(m, n) == IF n > m THEN n ELSE m

CanHappen(e) ==
    LET h == <<e.idx, e.who>> IN
    /\ e.kind = "RedeemRequested" => Position(h) > 0
    /\ e.kind = "Redeemed" => Outstanding(h) > 0

Mine ==
    /\ Len(chain) < MaxBlocks
    /\ \E e \in (Events \ Range(chain)) \cup {NoEvent} :
          /\ CanHappen(e)
          /\ chain' = Append(chain, e)
    /\ final' = Later(final, Len(chain) + 1 - ReorgDepth)
    /\ UNCHANGED <<store, database, scan, reorgs, faults, restarts>>

Reorg ==
    /\ reorgs < MaxReorgs
    /\ \E n \in 1..ReorgDepth :
          /\ Len(chain) - n >= final
          /\ chain' = SubSeq(chain, 1, Len(chain) - n)
    /\ reorgs' = reorgs + 1
    /\ UNCHANGED <<final, store, database, scan, faults, restarts>>

-----------------------------------------------------------------------------
(* A scan *)

\* (faulty variant)
FromBlockSkipping == checkpoint + 2
\* (faulty variant)
FromBlockRepeating == IF checkpoint = 0 THEN 1 ELSE checkpoint
FromBlock == checkpoint + 1
\* (faulty variant)
ConfirmedHeadUnlagged == Len(chain)
ConfirmedHead == Len(chain) - Confirmations
LastBlock ==
    IF ConfirmedHead < FromBlock + MaxSpan - 1 THEN ConfirmedHead
    ELSE FromBlock + MaxSpan - 1

SubRow(e) == [write |-> "subscription", event |-> e]
FeeRow(e) == [write |-> "earning", event |-> e]

\* index_range takes the events in chain order; of an event, the subscription
\* is written before the fee.  Not every event asks for both.
RowOf(n) == LET e == chain[FromBlock + (n - 1) \div 2]
            IN  IF n % 2 = 1 THEN SubRow(e) ELSE FeeRow(e)
IsFee(e) == e.kind \in {"Redeemed", "MgmtAccrued"}
ChangesShares(e) == e.kind \in {"Subscribed", "Redeemed"}
Asked(w) == IF w.write = "subscription" THEN ChangesShares(w.event) ELSE IsFee(w.event)

\* get_logs of the range.
BeginScan ==
    /\ ~ scanning
    /\ ConfirmedHead > checkpoint
    /\ scanning' = TRUE
    /\ to' = LastBlock
    /\ work' = [n \in 1..(2 * (LastBlock - FromBlock + 1)) |-> RowOf(n)]
    /\ UNCHANGED <<chain, final, store, database, reorgs, faults, restarts>>

EndScan == scanning' = FALSE /\ to' = 0 /\ work' = <<>>

\* map_subscribed: the position is read now.  InMemoryStore replaces a row;
\* SupabaseRestStore posts without naming the (index, subscriber) conflict
\* target, so a second row for the pair violates the table's unique constraint
\* and the call raises.
WriteSubscription(e) ==
    LET h == <<e.idx, e.who>>
        row == [shares |-> Position(h),
                status |-> IF e.kind = "Redeemed" /\ Position(h) = 0
                           THEN "redeemed" ELSE "active"]
        refused == store = "supabase" /\ subscriptions[h] # NoRow
    IN  \/ /\ e.idx \notin Published
           /\ work' = Tail(work)
           /\ UNCHANGED <<database, scanning, to>>
        \/ /\ e.idx \in Published /\ ~ refused
           /\ subscriptions' = [subscriptions EXCEPT ![h] = row]
           /\ work' = Tail(work)
           /\ UNCHANGED <<checkpoint, earnings, scanning, to>>
        \/ e.idx \in Published /\ refused /\ EndScan /\ UNCHANGED database

\* Rows for one transaction, event type and proposal are inserted once.
Inserted(n) == IF n = 0 THEN 1 ELSE n

\* map_redeemed and map_mgmt_accrued.  They are given the AUM, for which the
\* store's subscriptions_for_index is called first: SupabaseRestStore has none.
WriteEarning(e) ==
    \/ store = "supabase" /\ EndScan /\ UNCHANGED database
    \/ /\ store = "memory"
       /\ earnings' = IF e.idx \in Published
                      THEN [earnings EXCEPT ![e] = Inserted(@)] ELSE earnings
       /\ work' = Tail(work)
       /\ UNCHANGED <<checkpoint, subscriptions, scanning, to>>

WriteRow ==
    /\ scanning /\ work # <<>>
    /\ LET w == Head(work) IN
          \/ ~ Asked(w) /\ work' = Tail(work) /\ UNCHANGED <<database, scanning, to>>
          \/ Asked(w) /\ w.write = "subscription" /\ WriteSubscription(w.event)
          \/ Asked(w) /\ w.write = "earning" /\ WriteEarning(w.event)
    /\ UNCHANGED <<chain, final, store, reorgs, faults, restarts>>

AdvanceCheckpoint ==
    /\ scanning /\ work = <<>>
    /\ checkpoint' = to
    /\ EndScan
    /\ UNCHANGED <<chain, final, store, earnings, subscriptions, reorgs, faults, restarts>>

\* A call of the scan fails before it has any effect.
ScanFails ==
    /\ scanning
    /\ faults < MaxFaults
    /\ faults' = faults + 1
    /\ EndScan
    /\ UNCHANGED <<chain, final, store, database, reorgs, restarts>>

Restart ==
    /\ restarts < MaxRestarts
    /\ restarts' = restarts + 1
    /\ EndScan
    /\ IF store = "memory" THEN NoRows ELSE UNCHANGED database
    /\ UNCHANGED <<chain, final, store, reorgs, faults>>

ScanStep == BeginScan \/ WriteRow \/ AdvanceCheckpoint

Next == Mine \/ Reorg \/ ScanStep \/ ScanFails \/ Restart

Spec == Init /\ [][Next]_vars

\* The daemon comes to scan again and again.  Not every tick does: a redemption
\* that fails raises out of poll_once and ends its tick before index_new_blocks
\* (keeper.py L156-165, daemon.py L168-188).  But an id is put into the seen set
\* before it is processed (keeper.py L188-203), so each redemption ends one tick
\* at most in the life of a process, and the ticks that reach the scan do not end.
FairSpec == Spec /\ WF_vars(ScanStep)

-----------------------------------------------------------------------------
\* The types, and: a running scan moves the checkpoint forward when it ends,
\* and nothing is left to write when none runs.
TypeOK ==
    /\ chain \in Seq(Events \cup {NoEvent}) /\ Len(chain) <= MaxBlocks
    /\ final \in 0..Len(chain)
    /\ store \in Stores
    /\ checkpoint \in 0..MaxBlocks /\ to \in 0..MaxBlocks
    /\ earnings \in [Events -> Nat]
    /\ subscriptions \in [Holders -> [shares : Nat,
                             status : {"none", "active", "redeemed"}]]
    /\ IF scanning THEN to > checkpoint ELSE to = 0 /\ work = <<>>
    /\ work \in Seq([write : {"subscription", "earning"}, event : Events \cup {NoEvent}])
    /\ reorgs \in 0..MaxReorgs /\ faults \in 0..MaxFaults
    /\ restarts \in 0..MaxRestarts

\* Once the checkpoint has passed a block, its fee event has been booked, and
\* once: a failure or a restart in the middle of a scan loses nothing, because
\* the checkpoint moves only after the last row (daemon.py L114-131, store.py
\* L47-55).
NoEarningLost ==
    \A b \in DOMAIN chain :
        b <= checkpoint /\ IsFee(chain[b]) /\ chain[b].idx \in Published
            => earnings[chain[b]] = 1

\* The creator is credited only with fees that are on the chain: with as many
\* confirmations as blocks can be orphaned, no booked fee is orphaned later
\* (daemon.py L116-126).
EarningsAreOnChain ==
    \A e \in Events : earnings[e] > 0 => e \in Range(chain)

CaughtUp == \A b \in DOMAIN chain : b > checkpoint => chain[b] = NoEvent

\* "Subscription shares mirror on-chain positions()" (indexer.py L10): when
\* every event has been indexed, nobody waits for a redemption and no block
\* was orphaned, each row shows the subscriber's position.  Of the in-memory
\* store, which replaces rows; the other refuses a pair's second row.
SubscriptionsMirrorPositions ==
    store = "memory" /\ CaughtUp /\ reorgs = 0 /\ ~ scanning =>
        \A h \in Holders :
            h[1] \in Published /\ Outstanding(h) = 0 =>
                /\ subscriptions[h].shares = Position(h)
                /\ subscriptions[h].status = "redeemed" => Position(h) = 0

\* A row that the next scan will ask for is refused: SupabaseRestStore books no
\* fee, and takes one subscription row of an index and a subscriber only.
Refuses(e) ==
    \/ IsFee(e)
    \/ /\ ChangesShares(e) /\ e.idx \in Published
       /\ subscriptions[<<e.idx, e.who>>] # NoRow
Blocked ==
    /\ store = "supabase"
    /\ \E b \in (checkpoint + 1)..(checkpoint + MaxSpan) :
          b <= ConfirmedHead /\ Refuses(chain[b])

\* The index keeps catching up with the confirmed chain, whichever the store,
\* through failures, restarts and orphaned blocks, unless a row that the store
\* refuses lies in the very range it would scan next: nothing else holds the
\* checkpoint back, neither what lies behind it nor what lies ahead
\* (daemon.py L114-131, store.py L103-121).
CatchesUpUnlessRefused == []<>(checkpoint >= ConfirmedHead \/ Blocked)

=============================================================================
