---- MODULE InterviewPromise ----
(***************************************************************************)
(* What the engine promises of one interview, whatever requests race for   *)
(* it: it opens once, closes once, is never live again after that, and is  *)
(* scored at most once, when it is over.                                   *)
(***************************************************************************)
EXTENDS Naturals

VARIABLES
    stage, \* "open" (not begun), "live", "closing" or "over"
    scores \* assessments stored

promiseVars == <<stage, scores>>

Init == stage = "open" /\ scores = 0

Begin == stage = "open" /\ stage' = "live" /\ UNCHANGED scores
Close == stage = "live" /\ stage' = "closing" /\ UNCHANGED scores
End == stage \in {"live", "closing"} /\ stage' = "over" /\ UNCHANGED scores
Score == stage = "over" /\ scores = 0 /\ scores' = 1 /\ UNCHANGED stage

Next == Begin \/ Close \/ End \/ Score

Spec == Init /\ [][Next]_promiseVars

====
