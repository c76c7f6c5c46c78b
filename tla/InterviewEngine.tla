---- MODULE InterviewEngine ----
(***************************************************************************)
(* The live interview: start, answer, continue, leave, withdraw and        *)
(* finalise, as realtime/interviewEngine.ts runs them for one session.     *)
(*                                                                         *)
(* Each request is a small program.  A step is one database statement or   *)
(* transaction, or the return of one call to a paid provider; between two  *)
(* steps any other request may run.  What a request has read is kept in    *)
(* saw[r] and may be stale by the time it is used: that is the point.      *)
(* The row lock of services/sessionLock.ts makes Claim, Record and Say     *)
(* atomic, as it does under Postgres.                                      *)
(***************************************************************************)
EXTENDS SessionStates, Transcript, FiniteSets

CONSTANTS
    Reqs,       \* request slots: how many requests may be in flight at once
    Ops,        \* the operations that may arrive
    Utterances, \* what the interviewer may say in reply, besides an opening
    MaxTurns,   \* MAX_TURNS_PER_SESSION
    FirstStates \* the states the session may be in when the model begins

ASSUME ReqsAssumption == IsFiniteSet(Reqs)
ASSUME MaxTurnsAssumption == MaxTurns \in Nat \ {0}
ASSUME UtterancesAssumption == Utterances \subseteq AgentKinds \ {"opening"}
ASSUME FirstStatesAssumption == FirstStates \subseteq StartableStates
ASSUME OpsAssumption == Ops \subseteq {"start", "answer", "turn", "leave", "continue", "finalize"}

VARIABLES
    state,       \* InterviewSession.state
    consent,     \* consentJson carries consentedAt
    invitation,  \* Invitation.status
    human,       \* a CandidateHumanRequest row stands at REQUESTED
    turns,       \* the Turn rows, in index order
    assessments, \* the AssessmentVersion rows, in version order
    op, pc, saw  \* each request: operation, next step, what it has read

rowVars == <<state, consent, invitation, human>>
vars == <<state, consent, invitation, human, turns, assessments, op, pc, saw>>

(* The three ways an answer arrives: "answer" and "leave" from the room's  *)
(* HTTP route, "turn" from the socket or the recruiter's text mode, which  *)
(* settle whatever turn they are handed.  Only "answer" names the question *)
(* it replies to (inReplyTo); the Leave button does not.                   *)
AnswerOps == {"answer", "leave", "turn"}
TokenOps == {"answer", "leave", "continue"}

Nothing == [state |-> "PROVISIONED", consent |-> FALSE, tail |-> 0, need |-> 0,
            asked |-> 0, slot |-> 0, greet |-> FALSE, ending |-> "none",
            link |-> "none"]

(* Invitation.status, with "none" for a session that has no invitation;    *)
(* every link but a consumed one still opens the portal and the room.      *)
LinkStates == {"none", "created", "sent", "opened", "accepted", "consumed"}
LinkWorks == invitation \notin {"none", "consumed"}

EnginePCs ==
    {"idle", "load", "read", "resume", "claim", "join", "joinRead", "joinCurrent",
     "record", "produce", "say", "current", "outcome", "withdraw", "handoffRead",
     "withdrawWrite", "finLoad", "finRead", "questions", "closing", "processing",
     "evaluate", "store", "burn", "ready", "release", "releaseWrite"}

Live == state \in LiveStates

EngineInit ==
    /\ state \in FirstStates
    /\ consent \in BOOLEAN
    /\ invitation = IF state = "PROVISIONED" THEN "none" ELSE "sent"
    /\ human = FALSE
    /\ turns = <<>>
    /\ assessments = <<>>
    /\ op = [r \in Reqs |-> "none"]
    /\ pc = [r \in Reqs |-> "idle"]
    /\ saw = [r \in Reqs |-> Nothing]

----
(* Moving a request on.                                                    *)

Goto(r, l) == pc' = [pc EXCEPT ![r] = l] /\ UNCHANGED op

(* What r has read that it may use again; the rest is forgotten.           *)
Note(r, what) == saw' = [saw EXCEPT ![r] = what]

(* The request ends.  What it hands to its caller is left out.             *)
Finish(r) ==
    /\ pc' = [pc EXCEPT ![r] = "idle"]
    /\ op' = [op EXCEPT ![r] = "none"]
    /\ Note(r, Nothing)

(* What the kind of the turn it holds makes a request do next (settleTurn, *)
(* and the same branch in the socket and the recruiter's turn route).      *)
Settle(r, kind) ==
    IF kind \in WithdrawnKinds
    THEN Goto(r, "withdraw") /\ Note(r, [saw[r] EXCEPT !.ending = kind])
    ELSE IF kind = "signoff"
    THEN Goto(r, "finLoad") /\ UNCHANGED saw
    ELSE Finish(r)

(* Mutant: the write is keyed by id alone.                                 *)
WrittenById(r) == TRUE

(* A guarded update names the state that was read in its WHERE clause.     *)
StandsAsRead(r) == state = saw[r].state

(* Mutant: the update is keyed by id and moves the session from anywhere.  *)
WalkById(from, to) == state' = to

(* transitionIfInState: the update is the decision.                        *)
Walk(from, to) == state' = IF state = from THEN to ELSE state

----
(* Arrival and the first reads.  loadContext reads the session row and the *)
(* turns with separate queries, so they are separate steps.                *)

Arrive(r, o) ==
    /\ pc[r] = "idle" /\ o \in Ops
    /\ o \in TokenOps => LinkWorks
    /\ op' = [op EXCEPT ![r] = o]
    /\ pc' = [pc EXCEPT ![r] = IF o = "finalize" THEN "finLoad" ELSE "load"]
    /\ \E asked \in (IF o = "answer" THEN AgentPositions(turns) \cup {0} ELSE {0}) :
         Note(r, [Nothing EXCEPT !.asked = asked])
    /\ UNCHANGED <<rowVars, turns, assessments>>

Load(r) ==
    /\ pc[r] = "load"
    /\ Goto(r, "read")
    /\ Note(r, [saw[r] EXCEPT !.state = state, !.consent = consent])
    /\ UNCHANGED <<rowVars, turns, assessments>>

----
(* Starting, resuming and joining.                                         *)

(* Mutant: the consent check is left to the portal.                        *)
MayStartUnasked(r) == saw[r].state \in StartableStates

MayStart(r) == saw[r].consent /\ saw[r].state \in StartableStates

StartRead(r) ==
    /\ pc[r] = "read" /\ op[r] = "start"
    /\ LET s == saw[r].state IN
       IF s \in LiveStates
       THEN Goto(r, "resume") /\ Note(r, [saw[r] EXCEPT !.tail = Len(turns)])
       ELSE IF MayStart(r)
       THEN Goto(r, "claim") /\ Note(r, [saw[r] EXCEPT !.tail = Len(turns)])
       ELSE Finish(r)
    /\ UNCHANGED <<rowVars, turns, assessments>>

(* Live already: hand back the turn still owed an answer; with no agent    *)
(* turn on record for this sitting, produce the opening.                   *)
Resume(r) ==
    /\ pc[r] = "resume"
    /\ LET pending == PendingTurn(turns, TRUE) IN
       IF pending # 0
       THEN Finish(r)
       ELSE Goto(r, "produce") /\ Note(r, [Nothing EXCEPT !.need = saw[r].tail])
    /\ UNCHANGED <<rowVars, turns, assessments>>

(* One transaction under the session lock: move to ASSESSING if the state  *)
(* is still the one read, and close any earlier sitting.                   *)
Claim(r) ==
    /\ pc[r] = "claim"
    /\ IF StandsAsRead(r)
       THEN /\ state' = "ASSESSING"
            /\ turns' = CloseSitting(turns)
            /\ Goto(r, "produce")
            /\ Note(r, [Nothing EXCEPT !.need = saw[r].tail])
       ELSE /\ Goto(r, "join")
            /\ UNCHANGED <<state, turns, saw>>
    /\ UNCHANGED <<consent, invitation, human, assessments>>

(* joinRacingStart: the start that lost the claim.                         *)
Join(r) ==
    /\ pc[r] = "join"
    /\ IF Live THEN Goto(r, "joinRead") /\ UNCHANGED saw ELSE Finish(r)
    /\ UNCHANGED <<rowVars, turns, assessments>>

(* Mutant: the tail taken for the index of the last turn.                  *)
JoinReadFromIndex(r) ==
    /\ pc[r] = "joinRead"
    /\ Goto(r, IF SittingAgents(turns) # {} THEN "joinCurrent" ELSE "produce")
    /\ Note(r, [saw[r] EXCEPT !.need = Len(turns) - 1])
    /\ UNCHANGED <<rowVars, turns, assessments>>

JoinRead(r) ==
    /\ pc[r] = "joinRead"
    /\ Goto(r, IF SittingAgents(turns) # {} THEN "joinCurrent" ELSE "produce")
    /\ Note(r, [saw[r] EXCEPT !.need = Len(turns)])
    /\ UNCHANGED <<rowVars, turns, assessments>>

JoinCurrent(r) ==
    /\ pc[r] = "joinCurrent"
    /\ LET pending == PendingTurn(turns, TRUE) IN
       IF pending # 0 THEN Finish(r) ELSE Goto(r, "produce") /\ UNCHANGED saw
    /\ UNCHANGED <<rowVars, turns, assessments>>

----
(* Answers.                                                                *)

(* Mutant: no limit.                                                       *)
RoomAlways == TRUE

(* MAX_TURNS_PER_SESSION has not been reached.                             *)
RoomLeft == Len(turns) < MaxTurns

(* submitCandidateAnswer up to the lock.  The competency is read off the   *)
(* transcript here, before the lock is taken.  Outside the live states the *)
(* answer is refused; a Leave repeated after it worked is answered from    *)
(* the record (repeatedLeave), and neither writes anything.                *)
AnswerRead(r) ==
    /\ pc[r] = "read" /\ op[r] \in AnswerOps
    /\ IF saw[r].state \in LiveStates /\ RoomLeft
       THEN Goto(r, "record") /\ Note(r, [saw[r] EXCEPT !.slot = NewestAgent(turns)])
       ELSE Finish(r)
    /\ UNCHANGED <<rowVars, turns, assessments>>

(* Mutant: whatever was asked, the answer is taken.                        *)
AnswersAnything(r) == FALSE

(* The answer names a question that is no longer the one on the table.     *)
AnswersOldQuestion(r) == saw[r].asked # 0 /\ saw[r].asked # NewestAgent(turns)

(* recordCandidateAnswer: refuse a stale answer, fold a second answer to   *)
(* one question into the first, otherwise append.                          *)
Record(r) ==
    /\ pc[r] = "record"
    /\ LET answered == AnswersPending(turns)
           leaving == op[r] = "leave"
       IN  IF AnswersOldQuestion(r)
           THEN Finish(r) /\ UNCHANGED turns
           ELSE IF ~leaving /\ answered # {}
           THEN /\ turns' = [turns EXCEPT ![FirstAmong(answered)].folded = TRUE]
                /\ Goto(r, "produce")
                /\ Note(r, [Nothing EXCEPT !.need = FirstAmong(answered)])
           ELSE /\ turns' = Append(turns, CandidateTurn(IF leaving THEN "leave" ELSE "answer",
                                                         saw[r].asked, saw[r].slot))
                /\ Goto(r, "produce")
                /\ Note(r, [Nothing EXCEPT !.need = Len(turns) + 1])
    /\ UNCHANGED <<rowVars, assessments>>

ContinueRead(r) ==
    /\ pc[r] = "read" /\ op[r] = "continue"
    /\ IF /\ saw[r].state \in LiveStates
          /\ Len(turns) > 0 /\ turns[Len(turns)].by = "candidate"
          /\ RoomLeft
       THEN Goto(r, "produce") /\ Note(r, [Nothing EXCEPT !.need = Len(turns)])
       ELSE Finish(r)
    /\ UNCHANGED <<rowVars, turns, assessments>>

----
(* Replies.                                                                *)

(* The candidate spoke last.                                               *)
Heard(ts) == ts # <<>> /\ ts[Len(ts)].by = "candidate"

(* What the conversation runtime may answer a transcript with.  A Leave is *)
(* always answered by the withdrawal; what else the candidate said last is *)
(* tested first for an ending they ask for, before anything else is        *)
(* decided; a sitting in which no agent turn was read then opens.          *)
RepliesTo(ts, greet) ==
    IF Heard(ts) /\ ts[Len(ts)].kind = "leave" THEN {"withdrawn"}
    ELSE (IF Heard(ts) THEN Utterances \cap WithdrawnKinds ELSE {})
         \cup (IF greet THEN {"opening"} ELSE Utterances \ WithdrawnKinds)

(* produceAgentTurn up to the model call, which is given the turns of the  *)
(* sitting in progress as they are read here.                              *)
Produce(r) ==
    /\ pc[r] = "produce"
    /\ IF saw[r].need = Len(turns)
       THEN /\ Goto(r, "say")
            /\ Note(r, [Nothing EXCEPT !.tail = Len(turns),
                                       !.greet = (SittingAgents(turns) = {})])
       ELSE Goto(r, "current") /\ UNCHANGED saw
    /\ UNCHANGED <<rowVars, turns, assessments>>

(* Mutant: the reply is appended to whatever the transcript has become.    *)
TailUnchecked(r) == TRUE

TailStands(r) == saw[r].tail = Len(turns)

(* The model has replied: append the turn, under the lock, only if the     *)
(* transcript still ends where it did when it was read.                    *)
Say(r) ==
    /\ pc[r] = "say"
    /\ IF TailStands(r)
       THEN \E kind \in RepliesTo(turns, saw[r].greet) :
              /\ turns' = Append(turns, AgentTurn(kind))
              /\ IF op[r] = "start"
                 THEN Finish(r)
                 ELSE Settle(r, kind)
       ELSE /\ Goto(r, "current")
            /\ UNCHANGED <<turns, saw>>
    /\ UNCHANGED <<rowVars, assessments>>

(* produceOrCurrent, the writer that came second: read the state, then     *)
(* hand back what is now pending.  Only the socket and the recruiter's     *)
(* route settle a turn they did not produce.                               *)
Current(r) ==
    /\ pc[r] = "current"
    /\ Goto(r, "outcome")
    /\ Note(r, [saw[r] EXCEPT !.state = state])
    /\ UNCHANGED <<rowVars, turns, assessments>>

Outcome(r) ==
    /\ pc[r] = "outcome"
    /\ LET pending == PendingTurn(turns, saw[r].state \in LiveStates) IN
       IF pending # 0 /\ op[r] = "turn"
       THEN Settle(r, turns[pending].kind)
       ELSE Finish(r)
    /\ UNCHANGED <<rowVars, turns, assessments>>

----
(* Closing an interview the candidate ended: withdrawInterview,            *)
(* postponeInterview and handoffInterview.                                 *)

WithdrawRead(r) ==
    /\ pc[r] = "withdraw"
    /\ LET legal ==
             /\ saw[r].ending = "postponed" => CanTransition(state, "RESCHEDULE_REQUIRED")
             /\ saw[r].ending = "handoff" => CanTransition(state, "MANUAL_HANDOFF")
       IN  IF state \notin AlreadyClosedStates /\ legal
           THEN /\ Goto(r, IF saw[r].ending = "handoff" THEN "handoffRead" ELSE "withdrawWrite")
                /\ Note(r, [saw[r] EXCEPT !.state = state])
           ELSE Finish(r)
    /\ UNCHANGED <<rowVars, turns, assessments>>

(* A handoff adds to consentJson, so it loads it ...                       *)
HandoffRead(r) ==
    /\ pc[r] = "handoffRead"
    /\ Goto(r, "withdrawWrite")
    /\ Note(r, [saw[r] EXCEPT !.consent = consent])
    /\ UNCHANGED <<rowVars, turns, assessments>>

(* ... and writes it back as loaded.  A postponement and a handoff move    *)
(* the session only from the state read; a withdrawal and a safety stop    *)
(* write by id, whatever it is by now.                                     *)
WithdrawWrite(r) ==
    /\ pc[r] = "withdrawWrite"
    /\ \/ /\ saw[r].ending = "postponed"
          /\ state' = IF StandsAsRead(r) THEN "RESCHEDULE_REQUIRED" ELSE state
          /\ UNCHANGED <<human, consent>>
       \/ /\ saw[r].ending = "handoff"
          /\ state' = IF StandsAsRead(r) THEN "MANUAL_HANDOFF" ELSE state
          /\ human' = (human \/ StandsAsRead(r))
          /\ consent' = IF StandsAsRead(r) THEN saw[r].consent ELSE consent
       \/ /\ saw[r].ending = "withdrawn" /\ state' = "CANDIDATE_WITHDREW"
          /\ UNCHANGED <<human, consent>>
       \/ /\ saw[r].ending = "safety" /\ state' = "POLICY_STOP"
          /\ UNCHANGED <<human, consent>>
    /\ Finish(r)
    /\ UNCHANGED <<invitation, turns, assessments>>

----
(* Finalising: finalizeInterview and releaseStalledFinalisation.           *)

FinalizeLoad(r) ==
    /\ pc[r] = "finLoad"
    /\ Goto(r, "finRead")
    /\ Note(r, [saw[r] EXCEPT !.state = state])
    /\ UNCHANGED <<rowVars, turns, assessments>>

(* The turns read here are the ones that will be evaluated.                *)
FinalizeRead(r) ==
    /\ pc[r] = "finRead"
    /\ IF /\ saw[r].state \in FinalizableStates
          /\ \A p \in AgentPositions(turns) : turns[p].kind # "handoff"
       THEN Goto(r, "questions") /\ Note(r, [Nothing EXCEPT !.tail = Len(turns)])
       ELSE Finish(r)
    /\ UNCHANGED <<rowVars, turns, assessments>>

ToQuestions(r) ==
    /\ pc[r] = "questions"
    /\ Walk("ASSESSING", "CANDIDATE_QUESTIONS")
    /\ Goto(r, "closing")
    /\ UNCHANGED <<consent, invitation, human, turns, assessments, saw>>

ToClosing(r) ==
    /\ pc[r] = "closing"
    /\ Walk("CANDIDATE_QUESTIONS", "CLOSING")
    /\ Goto(r, "processing")
    /\ UNCHANGED <<consent, invitation, human, turns, assessments, saw>>

(* The mutex.  The loser is handed the assessment on record, or a 409.     *)
ToProcessing(r) ==
    /\ pc[r] = "processing"
    /\ Walk("CLOSING", "PROCESSING")
    /\ IF state = "CLOSING" THEN Goto(r, "evaluate") /\ UNCHANGED saw ELSE Finish(r)
    /\ UNCHANGED <<consent, invitation, human, turns, assessments>>

Evaluate(r) ==
    /\ pc[r] = "evaluate"
    /\ Goto(r, "store")
    /\ UNCHANGED <<rowVars, turns, assessments, saw>>

Store(r) ==
    /\ pc[r] = "store"
    /\ assessments' = Append(assessments, [upto |-> saw[r].tail])
    /\ Goto(r, "burn")
    /\ UNCHANGED <<rowVars, turns, saw>>

(* Mutant: only a link the candidate has accepted is burned.               *)
BurnAccepted(r) ==
    /\ pc[r] = "burn"
    /\ invitation' = IF invitation = "accepted" THEN "consumed" ELSE invitation
    /\ Goto(r, "ready")
    /\ UNCHANGED <<state, consent, human, turns, assessments, saw>>

(* updateMany: a session without an invitation has none to burn.           *)
Burn(r) ==
    /\ pc[r] = "burn"
    /\ invitation' = IF invitation = "none" THEN "none" ELSE "consumed"
    /\ Goto(r, "ready")
    /\ UNCHANGED <<state, consent, human, turns, assessments, saw>>

(* setState: checked against PROCESSING, written by id.                    *)
Ready(r) ==
    /\ pc[r] = "ready"
    /\ state' = "REVIEW_READY"
    /\ Finish(r)
    /\ UNCHANGED <<consent, invitation, human, turns, assessments>>

(* Any step after the claim may throw: the evaluator, the assessment       *)
(* write, the artifacts, the invitation, the last state write.             *)
FinalizeThrows(r) ==
    /\ pc[r] \in {"evaluate", "store", "burn", "ready"}
    /\ Goto(r, "release")
    /\ UNCHANGED <<rowVars, turns, assessments, saw>>

ReleaseRead(r) ==
    /\ pc[r] = "release"
    /\ IF state = "PROCESSING" THEN Goto(r, "releaseWrite") /\ UNCHANGED saw ELSE Finish(r)
    /\ UNCHANGED <<rowVars, turns, assessments>>

ReleaseWrite(r) ==
    /\ pc[r] = "releaseWrite"
    /\ state' = "TECHNICAL_FAILURE"
    /\ Finish(r)
    /\ UNCHANGED <<consent, invitation, human, turns, assessments>>

----
(* A request dies: its process stops, or a call outside finalisation's     *)
(* own try block throws.  Nothing it has written is undone.                *)
Abandon(r) ==
    /\ pc[r] # "idle"
    /\ Finish(r)
    /\ UNCHANGED <<rowVars, turns, assessments>>

(* What a request does next once it has arrived.                           *)
Step(r) ==
    \/ Load(r) \/ StartRead(r) \/ Resume(r) \/ Claim(r)
    \/ Join(r) \/ JoinRead(r) \/ JoinCurrent(r)
    \/ AnswerRead(r) \/ Record(r) \/ ContinueRead(r)
    \/ Produce(r) \/ Say(r) \/ Current(r) \/ Outcome(r)
    \/ WithdrawRead(r) \/ HandoffRead(r) \/ WithdrawWrite(r)
    \/ FinalizeLoad(r) \/ FinalizeRead(r)
    \/ ToQuestions(r) \/ ToClosing(r) \/ ToProcessing(r)
    \/ Evaluate(r) \/ Store(r) \/ Burn(r) \/ Ready(r)
    \/ ReleaseRead(r) \/ ReleaseWrite(r)

EngineNext ==
    \E r \in Reqs :
        \/ \E o \in Ops : Arrive(r, o)
        \/ Step(r)
        \/ FinalizeThrows(r)
        \/ Abandon(r)

EngineSpec == EngineInit /\ [][EngineNext]_vars

----
(* Properties.                                                             *)

Reading ==
    [state : States, consent : BOOLEAN, tail : Nat, need : Nat, asked : Nat,
     slot : Nat, greet : BOOLEAN, ending : WithdrawnKinds \cup {"none"},
     link : LinkStates]

RowsOK ==
    /\ state \in States
    /\ consent \in BOOLEAN
    /\ invitation \in LinkStates
    /\ human \in BOOLEAN
    /\ turns \in Seq(TurnRecords)
    /\ assessments \in Seq([upto : Nat])

RequestsOK ==
    /\ op \in [Reqs -> Ops \cup {"none"}]
    /\ pc \in [Reqs -> EnginePCs]
    /\ saw \in [Reqs -> Reading]

(* Every variable keeps the shape of the row or request it stands for.     *)
TypeOK == RowsOK /\ RequestsOK

(* Requests holding the finalisation claim that have not stored yet.       *)
Finalisers == {r \in Reqs : pc[r] \in {"evaluate", "store"}}

(* The states a session can be in once a finalisation has claimed it.      *)
PastClaim ==
    States \ (StartableStates \cup LiveStates \cup {"CLOSING"})

(* However many finalisations arrive, from tabs, the socket and recruiters,*)
(* and however they fail, one interview gets at most one assessment        *)
(* (finalizeInterview, the CLOSING -> PROCESSING claim).                   *)
OneAssessment == Len(assessments) <= 1

(* OneAssessment made inductive: a claim is held by at most one request,   *)
(* only while nothing is stored, and once it was taken no request can      *)
(* bring the session back to a state from which it could be taken again.   *)
ClaimInv ==
    /\ \A r, s \in Finalisers : r = s
    /\ Finalisers # {} => assessments = <<>>
    /\ (Finalisers # {} \/ assessments # <<>>) => state \in PastClaim
    /\ \A r \in Reqs : pc[r] = "claim" => saw[r].state \in StartableStates
    /\ OneAssessment

(* One question, one answer, one reply: within a sitting the speakers      *)
(* alternate, whatever tabs, retries, rejoins and Continues race, except   *)
(* that a Leave may follow an answer (recordCandidateAnswer,               *)
(* produceAgentTurn).                                                      *)
Alternates ==
    \A p \in 2..Len(turns) :
        turns[p].by = turns[p - 1].by =>
            \/ turns[p].kind = "leave"
            \/ turns[p].by = "agent" /\ turns[p - 1].closed

(* An answer that names the question it replies to is stored under that    *)
(* question and credited to its competency, though the competency was read *)
(* before the lock was taken (submitCandidateAnswer, recordCandidateAnswer).*)
CreditedToQuestionOnScreen ==
    \A p \in CandidatePositions(turns) :
        turns[p].asked # 0 =>
            /\ turns[p].asked = NewestAgent(SubSeq(turns, 1, p))
            /\ turns[p].slot = turns[p].asked

(* MAX_TURNS_PER_SESSION is tested before the lock, so answers in flight   *)
(* together may pass it; the overshoot is two rows per request slot.       *)
TranscriptBounded == Len(turns) < MaxTurns + 2 * Cardinality(Reqs)

(* An interview announced as ready for review has its assessment, and its  *)
(* link can no longer start or extend it (the order of finalizeInterview's *)
(* writes; a failure at any of them).                                      *)
ReviewReadyIsComplete ==
    state = "REVIEW_READY" => assessments # <<>> /\ invitation \in {"none", "consumed"}

(* ReviewReadyIsComplete made inductive: a finalisation past its assessment *)
(* write, or past burning the link, has really done so.                    *)
CompleteInv ==
    /\ \A r \in Reqs : pc[r] \in {"burn", "ready"} => assessments # <<>>
    /\ \A r \in Reqs : pc[r] = "ready" => invitation \in {"none", "consumed"}
    /\ ReviewReadyIsComplete

(* The session as InterviewPromise sees it.                                *)
Stage ==
    CASE state \in StartableStates -> "open"
      [] state \in LiveStates -> "live"
      [] state = "CLOSING" -> "closing"
      [] OTHER -> "over"

Promise == INSTANCE InterviewPromise WITH stage <- Stage, scores <- Len(assessments)

(* What makes it so: while the interview is open, no request has got past  *)
(* the checks that only a live, closing or closed interview passes.        *)
Conducting == EnginePCs \ {"idle", "load", "read", "claim", "join", "finLoad", "finRead"}
OpenInv ==
    state \in StartableStates =>
        \A r \in Reqs :
            /\ pc[r] \notin Conducting
            /\ pc[r] \in {"read", "finRead"} => saw[r].state \in StartableStates

(* Between them the engine's requests only ever move an interview forward: *)
(* no start, stale read or by-id write reopens one that was closed, and a  *)
(* score comes once, after the end (startOrResumeInterview's claim,        *)
(* transitionIfInState, finalizeInterview).                                *)
KeepsPromise == Promise!Spec

(* A candidate who asked for a person is either in the hiring team's queue *)
(* or scored, never both: the handoff and the finalisation decide it on    *)
(* the session's state, each in the statement that writes it               *)
(* (handoffInterview's transaction, finalizeInterview's claim).            *)
RequestExcludesScore == human => assessments = <<>>

(* RequestExcludesScore made inductive: a handoff is only written over a   *)
(* state no finalisation has claimed, and leads to one none can.           *)
RequestInv ==
    /\ human => state \in PastClaim /\ Finalisers = {} /\ assessments = <<>>
    /\ \A r \in Reqs :
         pc[r] \in {"handoffRead", "withdrawWrite"} /\ saw[r].ending = "handoff" =>
             saw[r].state \notin PastClaim

(* Once the candidate has been told that a person takes over and nothing   *)
(* said will be scored, no assessment of that interview is stored          *)
(* (finalizeInterview's check of the handoff turn).                        *)
HandoffNeverScored ==
    [][assessments' # assessments =>
         \A p \in AgentPositions(turns) : turns[p].kind # "handoff"]_vars

====
