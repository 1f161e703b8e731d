-------------------------- MODULE RequestLifecycle --------------------------
(***************************************************************************)
(* What the vault's request queue promises, request by request.  Ids are   *)
(* handed out in order and used once.  A deposit is held in escrow, may be *)
(* taken in flight by the keeper, and is closed once, by settlement or by  *)
(* a refund; a redemption is closed once, by settlement.  While the vault  *)
(* is frozen nothing new is opened by a subscriber, no escrow is taken in  *)
(* flight and no redemption is paid; refunds stay possible.                *)
(***************************************************************************)
EXTENDS Integers

CONSTANT MaxRequestId

VARIABLES status, frozen

Status == {"unused", "held", "inflight", "redeeming", "claiming", "closed"}
Ids == 1..MaxRequestId

\* id is the next id to hand out
IsNext(id) ==
    /\ status[id] = "unused"
    /\ \A j \in Ids : j < id => status[j] # "unused"

LInit ==
    /\ status = [id \in Ids |-> "unused"]
    /\ frozen = FALSE

Move(id, from, to) ==
    /\ status[id] = from
    /\ status' = [status EXCEPT ![id] = to]
    /\ UNCHANGED frozen

OpenDeposit(id) == ~ frozen /\ IsNext(id) /\ Move(id, "unused", "held")
OpenRedeem(id)  == ~ frozen /\ IsNext(id) /\ Move(id, "unused", "redeeming")
OpenClaim(id)   == IsNext(id) /\ Move(id, "unused", "claiming")
Take(id)        == ~ frozen /\ Move(id, "held", "inflight")
Mint(id)        == ~ frozen /\ Move(id, "inflight", "closed")
Refund(id)      == Move(id, "held", "closed") \/ Move(id, "inflight", "closed")
Pay(id)         == ~ frozen /\ (\/ Move(id, "redeeming", "closed")
                                \/ Move(id, "claiming", "closed"))
Freeze          == frozen' \in BOOLEAN /\ UNCHANGED status

LNext ==
    \/ Freeze
    \/ \E id \in Ids : \/ OpenDeposit(id) \/ OpenRedeem(id) \/ OpenClaim(id)
                       \/ Take(id) \/ Mint(id) \/ Refund(id) \/ Pay(id)

LSpec == LInit /\ [][LNext]_<<status, frozen>>

=============================================================================
