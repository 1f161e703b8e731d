--------------------------- MODULE MCVaultKeeper ---------------------------
(* Small instances of VaultKeeper for TLC. *)
EXTENDS VaultKeeperProperties

\* 1 subscribes and created the index, 2 is keeper, signer and guardian and
\* starts without USDC of its own.
MCWallets == [a \in Accounts |-> IF a = KeeperAccount THEN 0 ELSE 8]
MCCreator == [i \in Indices |-> 1]

=============================================================================
