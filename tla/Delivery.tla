------------------------------ MODULE Delivery ------------------------------
(***************************************************************************)
(* What the chat promises about a message, whatever sends, drains,         *)
(* disconnections and crashes overlap.  It is spoken in its room once, and *)
(* only after a copy was stored if its recipient was away; the copy is     *)
(* handed over once, in the same room, or lost, and is never stored again. *)
(* Who is in the room at either moment is given it; nobody else is, and    *)
(* nothing that was given is taken back.  Chat implements it.              *)
(***************************************************************************)
EXTENDS Naturals

CONSTANTS Messages, Sessions, Rooms, NoRoom

VARIABLES
    stage,    \* how far each message's sender got
    place,    \* the room it was posted in
    stored,   \* what became of its copy
    present,  \* the rooms each session listens to
    given     \* how often each session was given each message

postVars == <<stage, place>>
deliveryVars == <<stage, place, stored, present, given>>

DeliveryInit ==
    /\ stage = [m \in Messages |-> "new"]
    /\ place = [m \in Messages |-> NoRoom]
    /\ stored = [m \in Messages |-> "none"]
    /\ present = [s \in Sessions |-> {}]
    /\ given = [s \in Sessions |-> [m \in Messages |-> 0]]

Join(s, r) ==
    /\ present' = [present EXCEPT ![s] = @ \cup {r}]
    /\ UNCHANGED <<postVars, stored, given>>

Leave(s) ==
    /\ present' = [present EXCEPT ![s] = {}]
    /\ UNCHANGED <<postVars, stored, given>>

\* "live" for a recipient who is there, "late" for one who is not.
Post(m, r, how) ==
    /\ stage[m] = "new"
    /\ stage' = [stage EXCEPT ![m] = how]
    /\ place' = [place EXCEPT ![m] = r]
    /\ UNCHANGED <<stored, present, given>>

Store(m, c) ==
    /\ stage[m] = "late" /\ stored[m] = "none"
    /\ stage' = [stage EXCEPT ![m] = "stored"]
    /\ stored' = [stored EXCEPT ![m] = c]
    /\ UNCHANGED <<place, present, given>>

GiveUp(m) ==
    /\ stage[m] = "late"
    /\ stage' = [stage EXCEPT ![m] = "over"]
    /\ UNCHANGED <<place, stored, present, given>>

GiveAround(m) ==
    given' = [s \in Sessions |->
        IF place[m] \in present[s] THEN [given[s] EXCEPT ![m] = @ + 1] ELSE given[s]]

Speak(m) ==
    /\ stage[m] \in {"live", "stored"}
    /\ stage' = [stage EXCEPT ![m] = "over"]
    /\ GiveAround(m)
    /\ UNCHANGED <<place, stored, present>>

HandOver(m) ==
    /\ stored[m] = "waiting"
    /\ stored' = [stored EXCEPT ![m] = "handed"]
    /\ GiveAround(m)
    /\ UNCHANGED <<postVars, present>>

Lose(m) ==
    /\ stored[m] = "waiting"
    /\ stored' = [stored EXCEPT ![m] = "lost"]
    /\ UNCHANGED <<postVars, present, given>>

\* Everybody is cut off, what was being sent is over, waiting copies in L are gone.
Interrupt(L) ==
    /\ \A m \in L : stored[m] = "waiting"
    /\ stage' = [m \in Messages |-> IF stage[m] = "new" THEN "new" ELSE "over"]
    /\ stored' = [m \in Messages |-> IF m \in L THEN "lost" ELSE stored[m]]
    /\ present' = [s \in Sessions |-> {}]
    /\ UNCHANGED <<place, given>>

DeliveryNext ==
    \/ \E s \in Sessions, r \in Rooms : Join(s, r)
    \/ \E s \in Sessions : Leave(s)
    \/ \E m \in Messages, r \in Rooms, how \in {"live", "late"} : Post(m, r, how)
    \/ \E m \in Messages, c \in {"waiting", "lost"} : Store(m, c)
    \/ \E m \in Messages : GiveUp(m) \/ Speak(m) \/ HandOver(m) \/ Lose(m)
    \/ \E L \in SUBSET Messages : Interrupt(L)

DeliverySpec == DeliveryInit /\ [][DeliveryNext]_deliveryVars
=============================================================================
