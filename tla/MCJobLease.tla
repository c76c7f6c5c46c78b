---- MODULE MCJobLease ----
(* A small deployment for JobLease: two processes, the first of which has  *)
(* two runs of the job going when the second tick outruns the first.       *)
EXTENDS JobLease, TLC

CONSTANTS i1, i2, r1, r2, r3

MCHome == (r1 :> i1) @@ (r2 :> i1) @@ (r3 :> i2)

====
