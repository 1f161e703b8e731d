-------------------------- MODULE MCSosoTransport --------------------------
(* Small instances of SosoTransport for TLC. *)
EXTENDS SosoTransport

\* Every entry is fresh for one unit.
MCTtl == [p \in Paths |-> 1]

=============================================================================
