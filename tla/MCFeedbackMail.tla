---- MODULE MCFeedbackMail ----
(* A small instance for FeedbackMail: one slot for the background job, one *)
(* for presses, one reviewer's desk.                                        *)
EXTENDS FeedbackMail, TLC

CONSTANTS job, press, reviewer

====
