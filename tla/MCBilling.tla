----------------------------- MODULE MCBilling -----------------------------
(* Billing with two requests, one model that is priced and one that is not.   *)
EXTENDS Billing

CONSTANTS sonnet, unlisted

PricedModels == [m \in {sonnet} |-> [input |-> 1, output |-> 2]]
ReportedModels == {sonnet, unlisted}

\* a short turn, a long one, and one served from the cache
ReportedUsages ==
    {[input |-> 1, output |-> 0, cacheCreation |-> 0, cacheRead |-> 0, calls |-> 0],
     [input |-> 1, output |-> 1, cacheCreation |-> 0, cacheRead |-> 0, calls |-> 2],
     [input |-> 0, output |-> 0, cacheCreation |-> 1, cacheRead |-> 1, calls |-> 1]}

AskedTopUps == {-50, 0, 150, 900}

=============================================================================
