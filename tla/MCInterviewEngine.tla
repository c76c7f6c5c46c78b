---- MODULE MCInterviewEngine ----
(* Small instances of InterviewEngine for TLC.                             *)
EXTENDS InterviewEngine, TLC

(* Request slots are interchangeable: no definition names one.             *)
Slots == Permutations(Reqs)

====
