----------------------- MODULE RecommendationLifecycle -----------------------
(***************************************************************************)
(* What a recommendation request promises to the user who polls it: it is  *)
(* absent until accepted, then pending, and takes one final status.        *)
(***************************************************************************)
CONSTANT Req
VARIABLE status

Init == status = [r \in Req |-> "absent"]

Accept(r) == /\ status[r] = "absent"
             /\ status' = [status EXCEPT ![r] = "PENDING"]

Finish(r) == /\ status[r] = "PENDING"
             /\ \E s \in {"COMPLETED", "FAILED"} :
                   status' = [status EXCEPT ![r] = s]

Next == \E r \in Req : Accept(r) \/ Finish(r)

Spec == Init /\ [][Next]_status
=============================================================================
