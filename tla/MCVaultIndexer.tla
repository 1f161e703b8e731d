--------------------------- MODULE MCVaultIndexer ---------------------------
(* Small instances of VaultIndexer for TLC. *)
EXTENDS VaultIndexer

\* Subscriber 1 of index 1 subscribes twice and redeems once, index 1 is
\* charged a management fee, and somebody subscribes to index 2, whose proposal
\* is unknown.
Tx(n, kind, i, who) == [tx |-> n, kind |-> kind, idx |-> i, who |-> who]
MCEvents == {Tx(1, "Subscribed", 1, 1), Tx(2, "Subscribed", 1, 1),
             Tx(3, "RedeemRequested", 1, 1), Tx(4, "Redeemed", 1, 1),
             Tx(5, "MgmtAccrued", 1, 0), Tx(6, "Subscribed", 2, 2)}

=============================================================================
