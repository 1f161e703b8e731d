-------------------------- MODULE MCHypeIndexVault --------------------------
(* Small instances of HypeIndexVault for TLC. *)
EXTENDS HypeIndexVaultProperties

\* The last address is the keeper; it has USDC of its own to bring proceeds
\* and refunds from, and may subscribe like everybody else.
MCWallets == [a \in Accounts |-> IF a = NumAccounts THEN 6 ELSE 4]

=============================================================================
