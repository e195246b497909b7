------------------------------ MODULE MCRental ------------------------------
(* One product and two periods on it; the owner and somebody else. *)
EXTENDS Rental, TLC

CONSTANTS p1, owner

MCOwnerOf == [p \in Products |-> owner]

Symmetry == Permutations(Bookings) \cup Permutations(Calls) \cup Permutations(Periods)
=============================================================================
