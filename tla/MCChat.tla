------------------------------- MODULE MCChat -------------------------------
(* One room and up to one session of each member. *)
EXTENDS Chat

CONSTANTS u1, u2, s1

MCUser1 == [r \in Rooms |-> u1]
MCUser2 == [r \in Rooms |-> u2]
MCSessionUser == [s \in Sessions |-> IF s = s1 THEN u1 ELSE u2]
=============================================================================
