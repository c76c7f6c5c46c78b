---- MODULE MCPipeline ----
(* A small instance for Pipeline: a press, a review and a colleague's      *)
(* review, of which two copies reach the server.                           *)
EXTENDS Pipeline, TLC

CONSTANTS press, mine, theirs, one, two, cv, first, second

(* The default plan, and a renamed one whose CV review comes after the AI  *)
(* round, so that an event has something to run into.                      *)
MCPlans ==
    {<<[key |-> "participation", kind |-> "intake"],
       [key |-> "bronze", kind |-> "profile_review"],
       [key |-> "silver", kind |-> "ai_interview"],
       [key |-> "gold", kind |-> "human_interview"],
       [key |-> "diamond", kind |-> "human_interview"]>>,
     <<[key |-> "participation", kind |-> "intake"],
       [key |-> "ai_round", kind |-> "ai_interview"],
       [key |-> "papers", kind |-> "profile_review"],
       [key |-> "panel", kind |-> "human_interview"]>>}

Submit(o, i, s) == [outcome |-> o, on |-> i, supersede |-> s]
MCVerdicts ==
    (mine :> {Submit(o, first, FALSE) : o \in {"APPROVED", "REJECTED"}})
    @@ (theirs :> {Submit("none", first, TRUE), Submit("APPROVED", second, FALSE)})

(* Any copy may carry any request.                                        *)
Copies == Permutations({one, two})
====
