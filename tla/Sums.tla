-------------------------------- MODULE Sums --------------------------------
(***************************************************************************)
(* Finite sums indexed by 1..n, written with a recursive function so that  *)
(* facts about them can be proved (see SumsProofs).  The vault's ledger    *)
(* invariants add up balances over accounts, indices and request ids.      *)
(***************************************************************************)
EXTENDS Integers

\* f[1] + ... + f[n]
SumTo(f, n) ==
    LET s[i \in 0..n] == IF i = 0 THEN 0 ELSE s[i - 1] + f[i] IN s[n]

=============================================================================
