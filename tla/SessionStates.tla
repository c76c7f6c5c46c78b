---- MODULE SessionStates ----
(***************************************************************************)
(* The states of one interview session and the moves between them that     *)
(* domain/stateMachine.ts allows, with the groups of states the engine,    *)
(* the portal, the recruiter routes and the sweep test against.            *)
(*                                                                         *)
(* The table is only consulted by the code paths that call canTransition   *)
(* or assertTransition.  Several writers set the state without asking it;  *)
(* the modules that model those writers say so.                            *)
(***************************************************************************)

SessionStateNames ==
    {"PROVISIONED", "INVITED", "ACCEPTED", "READY_CHECK", "WAITING",
     "CONNECTING", "DISCLOSURE", "CONSENTED", "WARMUP", "ASSESSING",
     "CANDIDATE_QUESTIONS", "CLOSING", "PROCESSING", "REVIEW_READY",
     "HUMAN_REVIEWED", "CLOSED"}

ExceptionStateNames ==
    {"RESCHEDULE_REQUIRED", "NO_SHOW", "CANDIDATE_WITHDREW",
     "TECHNICAL_FAILURE", "POLICY_STOP", "MANUAL_HANDOFF", "CANCELLED",
     "INCOMPLETE"}

States == SessionStateNames \cup ExceptionStateNames

(* FORWARD, as a relation.                                                 *)
Forward ==
    LET from(s, targets) == {s} \X targets IN
    UNION {
      from("PROVISIONED", {"INVITED", "CANCELLED"}),
      from("INVITED", {"ACCEPTED", "NO_SHOW", "CANCELLED", "RESCHEDULE_REQUIRED"}),
      from("ACCEPTED", {"READY_CHECK", "RESCHEDULE_REQUIRED", "CANCELLED", "NO_SHOW"}),
      from("READY_CHECK", {"WAITING", "CONNECTING", "TECHNICAL_FAILURE", "RESCHEDULE_REQUIRED"}),
      from("WAITING", {"CONNECTING", "NO_SHOW", "RESCHEDULE_REQUIRED"}),
      from("CONNECTING", {"DISCLOSURE", "TECHNICAL_FAILURE"}),
      from("DISCLOSURE", {"CONSENTED", "CANDIDATE_WITHDREW", "MANUAL_HANDOFF", "INCOMPLETE"}),
      from("CONSENTED", {"WARMUP", "CANDIDATE_WITHDREW", "TECHNICAL_FAILURE", "INCOMPLETE"}),
      from("WARMUP", {"ASSESSING", "CANDIDATE_WITHDREW", "TECHNICAL_FAILURE", "POLICY_STOP",
                      "MANUAL_HANDOFF", "INCOMPLETE", "RESCHEDULE_REQUIRED"}),
      from("ASSESSING", {"CANDIDATE_QUESTIONS", "CLOSING", "CANDIDATE_WITHDREW",
                         "TECHNICAL_FAILURE", "POLICY_STOP", "MANUAL_HANDOFF",
                         "INCOMPLETE", "RESCHEDULE_REQUIRED"}),
      from("CANDIDATE_QUESTIONS", {"CLOSING", "TECHNICAL_FAILURE", "CANDIDATE_WITHDREW",
                                   "POLICY_STOP", "MANUAL_HANDOFF", "RESCHEDULE_REQUIRED"}),
      from("CLOSING", {"PROCESSING", "TECHNICAL_FAILURE"}),
      from("PROCESSING", {"REVIEW_READY", "TECHNICAL_FAILURE"}),
      from("REVIEW_READY", {"HUMAN_REVIEWED"}),
      from("HUMAN_REVIEWED", {"CLOSED"}),
      from("RESCHEDULE_REQUIRED", {"INVITED", "ACCEPTED", "CANCELLED"}),
      from("TECHNICAL_FAILURE", {"RESCHEDULE_REQUIRED", "CONNECTING", "CANCELLED", "CLOSED"}),
      from("MANUAL_HANDOFF", {"CLOSED"}),
      from("POLICY_STOP", {"MANUAL_HANDOFF", "CLOSED"}),
      from("NO_SHOW", {"RESCHEDULE_REQUIRED", "CLOSED"}),
      from("CANDIDATE_WITHDREW", {"CLOSED"}),
      from("INCOMPLETE", {"RESCHEDULE_REQUIRED", "CLOSED", "CLOSING"})}

CanTransition(from, to) == <<from, to>> \in Forward

----
(* The groups of states each caller tests against.                         *)

(* The transcript is being written (interviewEngine LIVE_STATES).          *)
LiveStates == {"ASSESSING", "CANDIDATE_QUESTIONS"}

(* A start may converge these to ASSESSING (STARTABLE_STATES).             *)
StartableStates ==
    {"PROVISIONED", "INVITED", "ACCEPTED", "READY_CHECK", "WAITING",
     "CONNECTING", "DISCLOSURE", "CONSENTED", "WARMUP"}

(* finalizeInterview accepts these (FINALIZABLE_STATES).                   *)
FinalizableStates == LiveStates \cup {"CLOSING", "PROCESSING"}

(* withdrawInterview takes these to mean somebody already closed it.       *)
AlreadyClosedStates ==
    {"CANDIDATE_WITHDREW", "POLICY_STOP", "CLOSED", "RESCHEDULE_REQUIRED",
     "MANUAL_HANDOFF"}

(* The portal still takes a consent (portal PRE_INTERVIEW_STATES).         *)
PreInterviewStates ==
    {"PROVISIONED", "INVITED", "ACCEPTED", "READY_CHECK", "DISCLOSURE", "CONSENTED"}

(* An invitation may be sent again (interviews RESENDABLE_STATES).         *)
ResendableStates ==
    {"PROVISIONED", "INVITED", "ACCEPTED", "READY_CHECK", "WAITING", "DISCLOSURE", "CONSENTED"}

(* The sweep's own live states, its finalising states, and their union.    *)
SweepLiveStates ==
    {"DISCLOSURE", "CONSENTED", "WARMUP", "ASSESSING", "CANDIDATE_QUESTIONS"}
FinalisingStates == {"CLOSING", "PROCESSING"}
SweepableStates == SweepLiveStates \cup FinalisingStates

====
