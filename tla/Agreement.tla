----------------------------- MODULE Agreement ------------------------------
(***************************************************************************)
(* What the rental service promises its users about a deal, whatever       *)
(* requests, lenders' decisions and crashes overlap.  A deal is requested  *)
(* for a slot nobody else ever had, offered when its contract is drafted,  *)
(* and then decided by the lender: an agreement may still be revoked, a    *)
(* refusal never.  Rental implements it.                                   *)
(***************************************************************************)
CONSTANTS Deals, Slots, NoSlot

VARIABLES
    deal,   \* where each deal stands
    claim   \* the slot it holds

agreementVars == <<deal, claim>>

DealState == {"none", "requested", "offered", "agreed", "refused"}

AgreementInit ==
    /\ deal = [b \in Deals |-> "none"]
    /\ claim = [b \in Deals |-> NoSlot]

Request(b, s) ==
    /\ deal[b] = "none"
    /\ \A c \in Deals : claim[c] # s
    /\ deal' = [deal EXCEPT ![b] = "requested"]
    /\ claim' = [claim EXCEPT ![b] = s]

Move(b, from, to) ==
    /\ deal[b] \in from
    /\ deal' = [deal EXCEPT ![b] = to]
    /\ UNCHANGED claim

Offer(b)  == Move(b, {"requested"}, "offered")
Accept(b) == Move(b, {"offered", "agreed"}, "agreed")
Refuse(b) == Move(b, {"offered", "agreed"}, "refused")

AgreementNext ==
    \E b \in Deals :
        \/ \E s \in Slots : Request(b, s)
        \/ Offer(b)
        \/ Accept(b)
        \/ Refuse(b)

AgreementSpec == AgreementInit /\ [][AgreementNext]_agreementVars
=============================================================================
