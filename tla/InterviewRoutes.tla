---- MODULE InterviewRoutes ----
(***************************************************************************)
(* One interview session with everything that writes its state: the live   *)
(* engine (InterviewEngine), the candidate's portal before the interview   *)
(* (routes/portal.ts), the recruiter's lifecycle routes                    *)
(* (routes/interviews.ts) and the timer that closes out interrupted        *)
(* interviews (services/incompleteInterviews.ts).                          *)
(*                                                                         *)
(* They share only the database.  A route reads the session, decides, and  *)
(* writes; some writes repeat the test in their WHERE clause and some go   *)
(* by id.  Which is which is what this module keeps.                       *)
(***************************************************************************)
EXTENDS InterviewEngine

CONSTANTS
    Mixes,       \* the sets of operations, the engine's too, that may meet on one session
    MaxReopens   \* bound on how often a handed-off interview is reopened

(* The operations that are not the engine's own.                           *)
RouteOps == UNION Mixes \ Ops

ASSUME RouteOpsAssumption ==
    RouteOps \subseteq {"open", "accept", "consent", "accommodate", "invite", "resend",
                        "cancel", "reopen", "partial", "retake", "sweep"}

VARIABLES
    mix,      \* the operations that this session meets: fixed when it begins
    opened,   \* Invitation.openedAt is set
    activity, \* the last candidate turn, or startedAt: "none", "recent" or "quiet"
    retakes,  \* sessions created to replace this one
    reopens   \* how often the session was reopened after a handoff

routeVars == <<mix, opened, activity, retakes, reopens>>
allVars == <<vars, routeVars>>

RoutePCs ==
    {"openLoad", "openMark", "accept", "acceptMark", "consentLoad", "consentWrite",
     "accommodateLoad", "accommodateWrite", "inviteClose", "inviteUpsert", "inviteMark",
     "inviteState", "resendLoad", "resendMark", "cancelWrite", "reopenWrite", "partialClaim",
     "retakeCheck", "retakeClaim", "sweepCheck", "sweepNewest", "sweepWrite"}

RoutesInit ==
    /\ EngineInit
    /\ consent = (state \in {"CONSENTED", "WARMUP"})
    /\ mix \in Mixes
    /\ opened = FALSE /\ activity = "none" /\ retakes = 0 /\ reopens = 0

----
(* Arrival: the route loads the session (and, in the portal, the           *)
(* invitation) and refuses unless the state allows the operation.          *)

Admits(o, s) ==
    CASE o = "open" -> invitation # "none"
      [] o = "accept" -> TRUE
      [] o \in {"consent", "accommodate"} -> s \in PreInterviewStates
      [] o = "invite" -> s \in {"PROVISIONED", "RESCHEDULE_REQUIRED"}
      [] o = "resend" -> s \in ResendableStates
      [] o = "cancel" -> CanTransition(s, "CANCELLED")
      [] o = "reopen" -> s = "MANUAL_HANDOFF" /\ reopens < MaxReopens
      [] o = "partial" -> s = "INCOMPLETE"
      [] o = "retake" -> s \in {"INCOMPLETE", "TECHNICAL_FAILURE"}
      [] o = "sweep" -> s \in SweepableStates /\ activity = "quiet"

FirstStep(o) ==
    CASE o = "open" -> "openLoad"
      [] o = "accept" -> "accept"
      [] o = "consent" -> "consentLoad"
      [] o = "accommodate" -> "accommodateLoad"
      [] o = "invite" -> "inviteClose"
      [] o = "resend" -> "resendLoad"
      [] o = "cancel" -> "cancelWrite"
      [] o = "reopen" -> "reopenWrite"
      [] o = "partial" -> "partialClaim"
      [] o = "retake" -> "retakeCheck"
      [] o = "sweep" -> "sweepCheck"

PortalRouteOps == {"accept", "consent", "accommodate"}

RouteArrive(r, o) ==
    /\ pc[r] = "idle" /\ o \in mix
    /\ o \in PortalRouteOps => LinkWorks
    /\ Admits(o, state)
    \* the sweep runs under a job lease: one at a time
    /\ o = "sweep" => \A q \in Reqs : op[q] # "sweep"
    /\ op' = [op EXCEPT ![r] = o]
    /\ pc' = [pc EXCEPT ![r] = FirstStep(o)]
    /\ Note(r, [Nothing EXCEPT !.state = state])
    /\ UNCHANGED <<rowVars, turns, assessments, routeVars>>

----
(* The candidate's portal.                                                 *)

(* The first look at the page, through any link, the consumed one too: the *)
(* time is recorded and the status written by id, from what was loaded.    *)
OpenLoad(r) ==
    /\ pc[r] = "openLoad"
    /\ IF ~opened THEN Goto(r, "openMark") /\ Note(r, [saw[r] EXCEPT !.link = invitation])
       ELSE Finish(r)
    /\ UNCHANGED <<rowVars, turns, assessments, routeVars>>

OpenMark(r) ==
    /\ pc[r] = "openMark"
    /\ invitation' = IF saw[r].link = "sent" THEN "opened" ELSE saw[r].link
    /\ opened' = TRUE
    /\ Finish(r)
    /\ UNCHANGED <<state, consent, human, turns, assessments, mix, activity, retakes, reopens>>

(* Conditional on INVITED, then the invitation is marked by id.            *)
Accept(r) ==
    /\ pc[r] = "accept"
    /\ IF saw[r].state = "INVITED" /\ state = "INVITED"
       THEN state' = "ACCEPTED" /\ Goto(r, "acceptMark") /\ UNCHANGED saw
       ELSE UNCHANGED state /\ Finish(r)
    /\ UNCHANGED <<consent, invitation, human, turns, assessments, routeVars>>

AcceptMark(r) ==
    /\ pc[r] = "acceptMark"
    /\ invitation' = "accepted"
    /\ Finish(r)
    /\ UNCHANGED <<state, consent, human, turns, assessments, routeVars>>

(* The route loads the invitation a second time before it writes, without  *)
(* testing the state again; what it then writes back is consentJson as     *)
(* loaded, with its own fields added.                                      *)
ConsentLoad(r) ==
    /\ pc[r] \in {"consentLoad", "accommodateLoad"}
    /\ IF LinkWorks
       THEN /\ Goto(r, IF op[r] = "consent" THEN "consentWrite" ELSE "accommodateWrite")
            /\ Note(r, [saw[r] EXCEPT !.consent = consent])
       ELSE Finish(r)
    /\ UNCHANGED <<rowVars, turns, assessments, routeVars>>

ConsentWrite(r) ==
    /\ pc[r] = "consentWrite"
    /\ consent' = TRUE
    /\ Finish(r)
    /\ UNCHANGED <<state, invitation, human, turns, assessments, routeVars>>

AccommodateWrite(r) ==
    /\ pc[r] = "accommodateWrite"
    /\ state' = "MANUAL_HANDOFF"
    /\ consent' = saw[r].consent
    /\ Finish(r)
    /\ UNCHANGED <<invitation, human, turns, assessments, routeVars>>

----
(* The recruiter's routes.                                                 *)

(* inviteSession: close the postponed sitting, mint the link, send it,     *)
(* record the delivery, then move the session, by id.                      *)
InviteClose(r) ==
    /\ pc[r] = "inviteClose"
    /\ turns' = IF saw[r].state = "RESCHEDULE_REQUIRED" THEN CloseSitting(turns) ELSE turns
    /\ Goto(r, "inviteUpsert")
    /\ UNCHANGED <<rowVars, assessments, saw, routeVars>>

InviteUpsert(r) ==
    /\ pc[r] = "inviteUpsert"
    /\ invitation' = "sent"
    /\ Goto(r, "inviteMark")
    /\ UNCHANGED <<state, consent, human, turns, assessments, saw, routeVars>>

InviteMark(r) ==
    /\ pc[r] = "inviteMark"
    /\ invitation' \in {"sent", "created"}
    /\ Goto(r, "inviteState")
    /\ UNCHANGED <<state, consent, human, turns, assessments, saw, routeVars>>

InviteState(r) ==
    /\ pc[r] = "inviteState"
    /\ state' = "INVITED"
    /\ Finish(r)
    /\ UNCHANGED <<consent, invitation, human, turns, assessments, routeVars>>

(* resendInvitation: loads the link, e-mails it again, and writes the      *)
(* status by id from what was loaded.                                      *)
ResendLoad(r) ==
    /\ pc[r] = "resendLoad"
    /\ IF LinkWorks
       THEN Goto(r, "resendMark") /\ Note(r, [saw[r] EXCEPT !.link = invitation])
       ELSE Finish(r)
    /\ UNCHANGED <<rowVars, turns, assessments, routeVars>>

ResendMark(r) ==
    /\ pc[r] = "resendMark"
    /\ invitation' = IF saw[r].link = "created" THEN "sent" ELSE saw[r].link
    /\ Finish(r)
    /\ UNCHANGED <<state, consent, human, turns, assessments, routeVars>>

CancelWrite(r) ==
    /\ pc[r] = "cancelWrite"
    /\ state' = "CANCELLED"
    /\ Finish(r)
    /\ UNCHANGED <<consent, invitation, human, turns, assessments, routeVars>>

ReopenWrite(r) ==
    /\ pc[r] = "reopenWrite"
    /\ state' = "CONSENTED"
    /\ reopens' = reopens + 1
    /\ Finish(r)
    /\ UNCHANGED <<consent, invitation, human, turns, assessments, mix, opened, activity, retakes>>

(* assess-partial: claim INCOMPLETE -> CLOSING, then finalise.             *)
PartialClaim(r) ==
    /\ pc[r] = "partialClaim"
    /\ Walk("INCOMPLETE", "CLOSING")
    /\ IF state = "INCOMPLETE" THEN Goto(r, "finLoad") /\ UNCHANGED saw ELSE Finish(r)
    /\ UNCHANGED <<consent, invitation, human, turns, assessments, routeVars>>

(* Mutant: the recorded assessments are not looked at.                     *)
RetakeUnchecked(r) ==
    /\ pc[r] = "retakeCheck"
    /\ Goto(r, "retakeClaim")
    /\ UNCHANGED <<rowVars, turns, assessments, saw, routeVars>>

(* A retake replaces an interview that was never scored ...                *)
RetakeCheck(r) ==
    /\ pc[r] = "retakeCheck"
    /\ IF assessments = <<>> THEN Goto(r, "retakeClaim") /\ UNCHANGED saw ELSE Finish(r)
    /\ UNCHANGED <<rowVars, turns, assessments, routeVars>>

(* ... by closing it, in the transaction that creates its successor.       *)
RetakeClaim(r) ==
    /\ pc[r] = "retakeClaim"
    /\ IF StandsAsRead(r)
       THEN state' = "CLOSED" /\ retakes' = retakes + 1
       ELSE UNCHANGED <<state, retakes>>
    /\ Finish(r)
    /\ UNCHANGED <<consent, invitation, human, turns, assessments, mix, opened, activity, reopens>>

----
(* The sweep, for this session.  It has seen the session sweepable and     *)
(* quiet; it reads the state and then the newest candidate turn again, and *)
(* writes by id what the re-read state calls for.  startedAt, which counts *)
(* while the candidate has not spoken, is not read again.                  *)

SweepCheck(r) ==
    /\ pc[r] = "sweepCheck"
    /\ IF state \in SweepableStates
       THEN Goto(r, "sweepNewest") /\ Note(r, [saw[r] EXCEPT !.state = state])
       ELSE Finish(r)
    /\ UNCHANGED <<rowVars, turns, assessments, routeVars>>

SweepNewest(r) ==
    /\ pc[r] = "sweepNewest"
    /\ IF activity = "quiet" \/ CandidatePositions(turns) = {}
       THEN Goto(r, "sweepWrite") /\ UNCHANGED saw ELSE Finish(r)
    /\ UNCHANGED <<rowVars, turns, assessments, routeVars>>

(* Mutant: every interrupted interview is closed out as incomplete.        *)
SweepTargetIncomplete(s) == "INCOMPLETE"

SweepTarget(s) == IF s \in FinalisingStates THEN "TECHNICAL_FAILURE" ELSE "INCOMPLETE"

SweepWrite(r) ==
    /\ pc[r] = "sweepWrite"
    /\ state' = IF CanTransition(saw[r].state, SweepTarget(saw[r].state))
                THEN SweepTarget(saw[r].state) ELSE state
    /\ Finish(r)
    /\ UNCHANGED <<consent, invitation, human, turns, assessments, routeVars>>

----
(* INACTIVITY_MS passes; nothing bounds how long a request may take.       *)
GoQuiet ==
    /\ activity = "recent"
    /\ activity' = "quiet"
    /\ UNCHANGED <<vars, mix, opened, retakes, reopens>>

(* The clock the sweep reads: the newest candidate turn's creation, or     *)
(* startedAt while the candidate has not spoken.                           *)
TouchesClock(r) ==
    \/ CandidatePositions(turns') # CandidatePositions(turns)
    \/ /\ CandidatePositions(turns) = {}
       /\ pc[r] \in {"claim", "resume"} /\ pc'[r] = "produce"

EngineStep(r) ==
    /\ \/ \E o \in Ops \cap mix : Arrive(r, o)
       \/ Step(r) \/ FinalizeThrows(r) \/ Abandon(r)
    /\ activity' = IF TouchesClock(r) THEN "recent" ELSE activity
    /\ UNCHANGED <<mix, opened, retakes, reopens>>

RouteStep(r) ==
    \/ OpenLoad(r) \/ OpenMark(r) \/ Accept(r) \/ AcceptMark(r)
    \/ ConsentLoad(r) \/ ConsentWrite(r) \/ AccommodateWrite(r)
    \/ InviteClose(r) \/ InviteUpsert(r) \/ InviteMark(r) \/ InviteState(r)
    \/ ResendLoad(r) \/ ResendMark(r)
    \/ CancelWrite(r) \/ ReopenWrite(r) \/ PartialClaim(r)
    \/ RetakeCheck(r) \/ RetakeClaim(r)
    \/ SweepCheck(r) \/ SweepNewest(r) \/ SweepWrite(r)

RoutesNext ==
    \/ \E r \in Reqs :
         \/ EngineStep(r)
         \/ \E o \in RouteOps : RouteArrive(r, o)
         \/ RouteStep(r)
    \/ GoQuiet

RoutesSpec == RoutesInit /\ [][RoutesNext]_allVars

(* What the deployment gives: time passes; a request in flight moves on or *)
(* dies; and the sweep's timer fires again and again, whatever the other   *)
(* requests do, with passes that are not all cut short at the same point.  *)
MovesOn(r) == pc[r] # "idle" /\ (EngineStep(r) \/ RouteStep(r))
SweepArrives == \E r \in Reqs : RouteArrive(r, "sweep")
SweepChecks == \E r \in Reqs : SweepCheck(r)
SweepReads == \E r \in Reqs : SweepNewest(r)
SweepWrites == \E r \in Reqs : SweepWrite(r)

RoutesFairness ==
    /\ WF_allVars(GoQuiet)
    /\ \A r \in Reqs : WF_allVars(MovesOn(r))
    /\ SF_allVars(SweepArrives)
    /\ SF_allVars(SweepChecks) /\ SF_allVars(SweepReads) /\ SF_allVars(SweepWrites)

RoutesFairSpec == RoutesSpec /\ RoutesFairness

----
(* Properties.                                                             *)

(* Every variable keeps the shape of the row or request it stands for.     *)
RoutesTypeOK ==
    /\ RowsOK
    /\ op \in [Reqs -> Ops \cup RouteOps \cup {"none"}]
    /\ pc \in [Reqs -> EnginePCs \cup RoutePCs]
    /\ saw \in [Reqs -> Reading]
    /\ mix \in Mixes /\ opened \in BOOLEAN /\ activity \in {"none", "recent", "quiet"}
    /\ retakes \in Nat /\ reopens \in Nat

(* The candidate is greeted once per sitting: between two openings the     *)
(* postponement that ended the earlier sitting has been closed, whichever  *)
(* of a re-invite, a second tab and a racing start closed it.              *)
GreetedOncePerSitting ==
    \A p, q \in AgentPositions(turns) :
        p < q /\ turns[p].kind = "opening" /\ turns[q].kind = "opening" =>
            \E m \in p..q : turns[m].kind = "postponed" /\ turns[m].closed

(* Two recruiters, or one who clicks twice: at most one successor session. *)
OneSuccessor == retakes <= 1

(* A session replaced by a retake carries no score.                        *)
RetakeNeverScored == [][retakes' # retakes => assessments = <<>>]_allVars

(* The transcript starts growing only after consent was recorded.          *)
LiveOnlyWithConsent == [][state \notin LiveStates /\ state' \in LiveStates => consent]_allVars

(* A finalisation that died between two writes does not strand the         *)
(* interview in CLOSING or PROCESSING: the sweep closes it out             *)
(* (services/incompleteInterviews.ts, FINALISING_STATES).                  *)
FinalisationNeverStrands == state \in FinalisingStates ~> state \notin FinalisingStates

(* An interview nobody is sitting at is not left in a live state for ever  *)
(* (services/incompleteInterviews.ts: CANDIDATE_QUESTIONS is in            *)
(* LIVE_STATES of the sweep).                                              *)
QuietQuestionsClosedOut == ~<>[](state = "CANDIDATE_QUESTIONS" /\ activity = "quiet")

====
