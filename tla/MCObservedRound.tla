---- MODULE MCObservedRound ----
(* Two colleagues; the round is booked with one of them, who conducts it   *)
(* while the other is HR, or with typed names only, so that both are its   *)
(* interviewers.                                                           *)
EXTENDS ObservedRound

CONSTANTS ann, bob

MCStaff == {ann, bob}
MCPanels == {{ann}, {}}
====
