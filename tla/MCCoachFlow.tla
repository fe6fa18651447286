----------------------------- MODULE MCCoachFlow -----------------------------
(* Small instances of CoachFlow for TLC: all requests are of one user, hence *)
(* on one partition.                                                         *)
EXTENDS CoachFlow

CONSTANT u1
MCUserOf == [r \in Req |-> u1]
=============================================================================
