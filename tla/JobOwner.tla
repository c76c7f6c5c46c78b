---- MODULE JobOwner ----
(***************************************************************************)
(* What a job lease promises: the job has at most one owner, and changes   *)
(* hands only by being nobody's in between.                                *)
(***************************************************************************)
CONSTANT Runs
VARIABLE owner

Init == owner = "nobody"

Take(r) == owner = "nobody" /\ owner' = r
Yield == owner # "nobody" /\ owner' = "nobody"

Next == Yield \/ \E r \in Runs : Take(r)

Spec == Init /\ [][Next]_owner

====
