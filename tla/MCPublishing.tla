---------------------------- MODULE MCPublishing ----------------------------
(* Situations two tabs may find, for TLC to start from. *)
EXTENDS Publishing

CONSTANTS alice, bob

NoRows == [id \in Proposals |-> Absent]
With(id, creator, status, tx) ==
    [NoRows EXCEPT ![id] = Row(creator, "T", TRUE, status, tx)]

Opening(rs, ts, a, b) == [rows |-> rs, txs |-> ts, session |-> <<a, b>>]
Registration(id) == <<[ticker |-> "T", id |-> id, state |-> "success"]>>

MCOpenings ==
    { \* the creator on two devices, about to publish
      Opening(With(1, alice, "signed", 0), <<>>, alice, alice),
      Opening(With(1, alice, "review", 0), <<>>, alice, alice),
      \* two creators with the same ticker
      Opening([With(1, alice, "signed", 0) EXCEPT ![2] = Row(bob, "T", TRUE, "signed", 0)],
             <<>>, alice, bob),
      \* a published proposal, and one of a visitor with the same ticker
      Opening([With(1, alice, "published", 1) EXCEPT ![2] = Row(bob, "T", TRUE, "signed", 0)],
             Registration(1), alice, bob),
      \* nothing yet, a demo session beside the creator
      Opening(NoRows, <<>>, alice, "demo") }

=============================================================================
