---- MODULE MCInterviewRoutes ----
(* Small instances of InterviewRoutes for TLC.                             *)
EXTENDS InterviewRoutes, TLC

(* Request slots are interchangeable: no definition names one.             *)
Slots == Permutations(Reqs)

====
