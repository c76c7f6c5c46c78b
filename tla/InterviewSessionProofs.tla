---- MODULE InterviewSessionProofs ----
(***************************************************************************)
(* What the engine's guarantees are worth once the portal, the recruiter's *)
(* routes and the sweep write the same session: which of them hold under   *)
(* every route, and for each of the others what it needs the routes to     *)
(* leave alone.                                                            *)
(***************************************************************************)
EXTENDS InterviewRoutesProofs, InterviewTurnsProofs

----
(* Credit, under every route.                                              *)

(* No answer on record, or on its way to the record, names a question that *)
(* was not asked, or is credited to another one.                           *)
CreditInv ==
    /\ CreditedToQuestionOnScreen
    /\ \A r \in Reqs : AskedOK(r)

(* Closing a sitting takes nothing back and credits nothing anew.          *)
LEMMA ClosedExtends ==
  ASSUME NEW ts \in Seq(TurnRecords)
  PROVE  Extends(CloseSitting(ts), ts) /\ Len(CloseSitting(ts)) = Len(ts)
<1> DEFINE a == NewestAgent(ts)
           us == [ts EXCEPT ![a].closed = TRUE]
<1>1. ts \in [1..Len(ts) -> TurnRecords] /\ Len(ts) \in Nat /\ Len(CloseSitting(ts)) = Len(ts)
  BY CloseSittingType
<1>2. \A p \in 1..Len(ts) : ts[p] \in TurnRecords /\ us[p] = IF p = a THEN [ts[p] EXCEPT !.closed = TRUE] ELSE ts[p]
  BY <1>1
<1>3. \A t \in TurnRecords : LET u == [t EXCEPT !.closed = TRUE] IN
        u.by = t.by /\ u.asked = t.asked /\ u.slot = t.slot
  BY DEF TurnRecords
<1>4. CloseSitting(ts) = us \/ CloseSitting(ts) = ts
  BY DEF CloseSitting
<1> HIDE DEF us
<1>5. \A p \in 1..Len(ts) : us[p].by = ts[p].by /\ us[p].asked = ts[p].asked /\ us[p].slot = ts[p].slot
  BY <1>2, <1>3
<1> QED BY <1>1, <1>4, <1>5 DEF Extends

LEMMA SameExtends ==
  ASSUME NEW ts \in Seq(TurnRecords)
  PROVE  Extends(ts, ts)
BY DEF Extends

(* What another request has read of the questions asked stays true.        *)
LEMMA StillAsked ==
  ASSUME Shaped, Shaped', NEW r \in Reqs, AskedOK(r),
         pc'[r] = pc[r], saw'[r] = saw[r], Extends(turns', turns)
  PROVE  AskedOK(r)'
<1>1. turns \in Seq(TurnRecords) /\ turns' \in Seq(TurnRecords)
  BY DEF Shaped, RowsOK
<1>2. saw[r].slot \in Nat /\ saw[r].asked \in Nat
  BY DEF Shaped, RequestsShaped, Reading
<1>3. AgentPositions(turns) \subseteq AgentPositions(turns') /\ NewestAgent(turns) <= NewestAgent(turns')
  BY <1>1, AgentsStay
<1>4. NewestAgent(turns) \in Nat /\ NewestAgent(turns') \in Nat
  BY <1>1, NewestIs
<1> QED BY <1>2, <1>3, <1>4 DEF AskedOK

(* Nothing but an agent turn may be added by a request that records no     *)
(* answer.                                                                 *)
AddsNoAnswer(us, ts) ==
    \/ Len(us) = Len(ts)
    \/ Len(us) = Len(ts) + 1 /\ us[Len(us)].by = "agent"

LEMMA CreditQuiet ==
  ASSUME Shaped, Shaped', CreditInv, NEW r \in Reqs, Others(r), AskedOK(r)',
         Extends(turns', turns), AddsNoAnswer(turns', turns)
  PROVE  CreditInv'
<1>1. turns \in Seq(TurnRecords) /\ turns' \in Seq(TurnRecords)
  BY DEF Shaped, RowsOK
<1>2. Len(turns) \in Nat /\ Len(turns') \in Nat
  BY <1>1
<1>3. Len(turns') = Len(turns) \/ Len(turns') = Len(turns) + 1
  BY DEF AddsNoAnswer
<1>4. Len(turns') = Len(turns) \/ turns'[Len(turns')].by = "agent"
  BY DEF AddsNoAnswer
<1>5. Len(turns') <= Len(turns) + 1
  BY <1>2, <1>3
<1>6. ASSUME NEW p \in CandidatePositions(turns'), p > Len(turns) PROVE FALSE
  <2>1. p \in 1..Len(turns') /\ turns'[p].by = "candidate"
    BY <1>1 DEF CandidatePositions
  <2>2. p = Len(turns')
    BY <1>2, <1>6, <1>3, <2>1
  <2>3. turns'[Len(turns')].by = "agent"
    BY <1>2, <1>6, <1>4, <2>1
  <2> QED BY <2>1, <2>2, <2>3
<1>7. CreditedToQuestionOnScreen'
  BY <1>5, <1>6, CreditKept DEF CreditInv
<1>8. ASSUME NEW q \in Reqs PROVE AskedOK(q)'
  BY StillAsked DEF CreditInv, Others
<1> QED BY <1>7, <1>8 DEF CreditInv

(* A request arriving, loading, and reading the competency of its answer.  *)
LEMMA CreditReads ==
  ASSUME Shaped, Shaped', CreditInv, NEW r \in Reqs,
         (\E o \in Ops : Arrive(r, o)) \/ Load(r) \/ AnswerRead(r)
  PROVE  CreditInv'
<1>1. /\ RequestsShaped /\ saw[r] \in Reading /\ AskedOK(r) /\ turns' = turns
      /\ turns \in Seq(TurnRecords)
  BY DEF Shaped, RowsOK, RequestsShaped, CreditInv, Arrive, Load, AnswerRead
<1>2. Extends(turns', turns) /\ AddsNoAnswer(turns', turns)
  BY <1>1, SameExtends DEF AddsNoAnswer
<1>3. CASE \E o \in Ops : Arrive(r, o)
  <2>1. PICK o \in Ops : Arrive(r, o)
    BY <1>3
  <2>2. PICK asked \in (IF o = "answer" THEN AgentPositions(turns) \cup {0} ELSE {0}) :
          Note(r, [Nothing EXCEPT !.asked = asked])
    BY <2>1 DEF Arrive
  <2>3. pc' = [pc EXCEPT ![r] = IF o = "finalize" THEN "finLoad" ELSE "load"]
    BY <2>1 DEF Arrive
  <2>4. asked \in AgentPositions(turns) \cup {0}
    BY <2>2
  <2>5. Others(r) /\ pc'[r] \in {"finLoad", "load"}
    BY <1>1, <2>2, <2>3 DEF Others, Note, RequestsShaped
  <2>6. saw'[r] = [Nothing EXCEPT !.asked = asked]
    BY <1>1, <2>2 DEF Note, RequestsShaped
  <2>7. saw'[r].asked \in AgentPositions(turns) \cup {0}
    BY <2>4, <2>6 DEF Nothing
  <2>8. AskedOK(r)'
    BY <1>1, <2>5, <2>7 DEF AskedOK
  <2> QED BY <1>2, <2>5, <2>8, CreditQuiet
<1>4. CASE Load(r)
  <2>1. /\ Others(r) /\ pc'[r] = "read"
        /\ saw'[r] = [saw[r] EXCEPT !.state = state, !.consent = consent]
    BY <1>1, <1>4, AfterNote DEF Load
  <2>2. saw'[r].asked = saw[r].asked /\ pc[r] = "load"
    BY <1>1, <1>4, <2>1 DEF Reading, Load
  <2>3. AskedOK(r)'
    BY <1>1, <2>1, <2>2 DEF AskedOK
  <2> QED BY <1>2, <2>1, <2>3, CreditQuiet
<1>5. CASE AnswerRead(r)
  <2>1. CASE Finish(r)
    <3>1. Others(r) /\ pc'[r] = "idle"
      BY <1>1, <2>1, AfterFinish
    <3>2. AskedOK(r)'
      BY <3>1 DEF AskedOK
    <3> QED BY <1>2, <3>1, <3>2, CreditQuiet
  <2>2. CASE Goto(r, "record") /\ Note(r, [saw[r] EXCEPT !.slot = NewestAgent(turns)])
    <3>1. Others(r) /\ pc'[r] = "record" /\ saw'[r].slot = NewestAgent(turns) /\ saw'[r].asked = saw[r].asked
      BY <1>1, <2>2, AfterNote DEF Reading
    <3>2. saw[r].asked \in AgentPositions(turns) \cup {0}
      BY <1>1, <1>5 DEF AnswerRead, AskedOK
    <3>3. saw[r].asked <= NewestAgent(turns) /\ NewestAgent(turns) \in Nat
      BY <1>1, <3>2, NewestIs
    <3>4. AskedOK(r)'
      BY <1>1, <3>1, <3>2, <3>3 DEF AskedOK
    <3> QED BY <1>2, <3>1, <3>4, CreditQuiet
  <2> QED BY <1>5, <2>1, <2>2 DEF AnswerRead
<1> QED BY <1>3, <1>4, <1>5

(* The answer itself: refused, folded into an earlier one, or recorded     *)
(* under the question that is still the newest.                            *)
LEMMA CreditRecords ==
  ASSUME Shaped, Shaped', CreditInv, NEW r \in Reqs, Record(r)
  PROVE  CreditInv'
<1>1. /\ RequestsShaped /\ saw[r] \in Reading /\ AskedOK(r) /\ pc[r] = "record"
      /\ turns \in Seq(TurnRecords) /\ Len(turns) \in Nat /\ DOMAIN turns = 1..Len(turns)
  BY DEF Shaped, RowsOK, RequestsShaped, CreditInv, Record
<1> DEFINE answered == AnswersPending(turns)
           first == FirstAmong(answered)
           leaving == op[r] = "leave"
           t == CandidateTurn(IF leaving THEN "leave" ELSE "answer", saw[r].asked, saw[r].slot)
<1>2. ASSUME Others(r), pc'[r] \in {"idle", "produce"} PROVE AskedOK(r)'
  BY <1>2 DEF AskedOK
<1>3. CASE Finish(r) /\ UNCHANGED turns
  <2>1. Others(r) /\ pc'[r] = "idle"
    BY <1>1, <1>3, AfterFinish
  <2>2. Extends(turns', turns) /\ AddsNoAnswer(turns', turns)
    BY <1>1, <1>3, SameExtends DEF AddsNoAnswer
  <2> QED BY <1>2, <2>1, <2>2, CreditQuiet
<1>4. CASE /\ answered # {} /\ turns' = [turns EXCEPT ![first].folded = TRUE]
           /\ Goto(r, "produce") /\ \E what : Note(r, what)
  <2>1. answered \in SUBSET (1..Len(turns))
    BY <1>1 DEF AnswersPending, CandidatePositions
  <2>2. first \in 1..Len(turns)
    BY <1>4, <2>1, FirstIs
  <2> HIDE DEF first, answered
  <2>3. Len(turns') = Len(turns) /\ Extends(turns', turns)
    BY <1>1, <1>4, <2>2, Folded
  <2>4. Others(r) /\ pc'[r] = "produce"
    BY <1>1, <1>4, AfterGoto
  <2>5. AddsNoAnswer(turns', turns)
    BY <2>3 DEF AddsNoAnswer
  <2> QED BY <1>2, <2>3, <2>4, <2>5, CreditQuiet
<1>5. CASE /\ ~AnswersOldQuestion(r) /\ turns' = Append(turns, t)
           /\ Goto(r, "produce") /\ \E what : Note(r, what)
  <2>1. t \in TurnRecords /\ t.asked = saw[r].asked /\ t.slot = saw[r].slot
    BY <1>1, TurnsOK DEF CandidateTurn, Reading
  <2> HIDE DEF t
  <2>2. turns' = Append(turns, t)
    BY <1>5
  <2> HIDE DEF answered, first, leaving
  <2>3. turns' \in Seq(TurnRecords) /\ Len(turns') = Len(turns) + 1
    BY <1>1, <2>1, <2>2, Appended
  <2>4. turns'[Len(turns')] = t
    BY <1>1, <2>1, <2>2, Appended
  <2>5. Extends(turns', turns)
    BY <1>1, <2>1, <2>2, Appended
  <2>6. saw[r].asked # 0 => saw[r].asked = NewestAgent(turns) /\ saw[r].slot = NewestAgent(turns)
    <3>1. saw[r].asked <= saw[r].slot /\ saw[r].slot <= NewestAgent(turns)
      BY <1>1 DEF AskedOK
    <3>2. saw[r].asked # 0 => saw[r].asked = NewestAgent(turns)
      BY <1>5 DEF AnswersOldQuestion
    <3>3. saw[r].asked \in Nat /\ saw[r].slot \in Nat /\ NewestAgent(turns) \in Nat
      BY <1>1, NewestIs DEF Reading
    <3> QED BY <3>1, <3>2, <3>3
  <2>7. \A p \in CandidatePositions(turns') : p > Len(turns) => p = Len(turns')
    <3>1. \A p \in CandidatePositions(turns') : p \in 1..Len(turns')
      BY <2>3 DEF CandidatePositions
    <3> QED BY <1>1, <2>3, <3>1
  <2>8. CreditedToQuestionOnScreen'
    <3>1. Len(turns') <= Len(turns) + 1
      BY <1>1, <2>3
    <3> QED BY <2>1, <2>4, <2>5, <2>6, <2>7, <3>1, CreditKept DEF CreditInv
  <2>9. Others(r) /\ pc'[r] = "produce"
    BY <1>1, <1>5, AfterGoto
  <2>10. ASSUME NEW q \in Reqs PROVE AskedOK(q)'
    BY <1>2, <2>5, <2>9, StillAsked DEF CreditInv, Others
  <2> QED BY <2>8, <2>10 DEF CreditInv
<1> QED BY <1>3, <1>4, <1>5 DEF Record

(* Everything else the engine does adds an agent turn at most.             *)
LEMMA CreditElsewhere ==
  ASSUME Shaped, Shaped', CreditInv, NEW r \in Reqs,
         \/ StartRead(r) \/ Resume(r) \/ Claim(r) \/ Join(r) \/ JoinRead(r) \/ JoinCurrent(r)
         \/ ContinueRead(r) \/ Produce(r) \/ Say(r) \/ Current(r) \/ Outcome(r) \/ WithdrawRead(r)
         \/ HandoffRead(r) \/ WithdrawWrite(r) \/ FinalizeLoad(r) \/ FinalizeRead(r)
         \/ ToQuestions(r) \/ ToClosing(r) \/ ToProcessing(r) \/ Evaluate(r) \/ Store(r)
         \/ Burn(r) \/ Ready(r) \/ FinalizeThrows(r) \/ ReleaseRead(r) \/ ReleaseWrite(r)
         \/ Abandon(r)
  PROVE  CreditInv'
<1>1. RequestsShaped /\ turns \in Seq(TurnRecords)
  BY DEF Shaped, RowsOK
<1>2. Others(r) /\ pc'[r] \notin {"load", "read", "record"}
  <2>1. CASE \/ StartRead(r) \/ Resume(r) \/ Claim(r) \/ Join(r) \/ JoinRead(r)
             \/ JoinCurrent(r) \/ ContinueRead(r) \/ Produce(r)
    <3>1. Others(r) /\ pc'[r] \in {"resume", "claim", "join", "produce", "joinRead",
                                   "joinCurrent", "say", "current", "idle"}
      BY <2>1, <1>1, AfterGoto, AfterFinish
      DEF StartRead, Resume, Claim, Join, JoinRead, JoinCurrent, ContinueRead, Produce
    <3> QED BY <3>1
  <2>2. CASE Say(r) \/ Current(r) \/ Outcome(r)
    <3>1. Others(r) /\ pc'[r] \in {"withdraw", "finLoad", "idle", "current", "outcome"}
      BY <2>2, <1>1, AfterGoto, AfterFinish, AfterSettle DEF Say, Current, Outcome
    <3> QED BY <3>1
  <2>3. CASE \/ WithdrawRead(r) \/ HandoffRead(r) \/ WithdrawWrite(r) \/ FinalizeLoad(r)
             \/ FinalizeRead(r) \/ ToQuestions(r) \/ ToClosing(r) \/ ToProcessing(r)
             \/ Evaluate(r) \/ Store(r) \/ Burn(r) \/ Ready(r) \/ FinalizeThrows(r)
             \/ ReleaseRead(r) \/ ReleaseWrite(r) \/ Abandon(r)
    <3>1. Others(r) /\ pc'[r] \in {"handoffRead", "withdrawWrite", "finRead", "questions", "closing",
                                   "processing", "evaluate", "store", "burn", "ready",
                                   "release", "releaseWrite", "idle"}
      BY <2>3, <1>1, AfterGoto, AfterFinish
      DEF WithdrawRead, HandoffRead, WithdrawWrite, FinalizeLoad, FinalizeRead, ToQuestions,
          ToClosing, ToProcessing, Evaluate, Store, Burn, Ready, FinalizeThrows, ReleaseRead,
          ReleaseWrite, Abandon
    <3> QED BY <3>1
  <2> QED BY <2>1, <2>2, <2>3
<1>3. Extends(turns', turns) /\ AddsNoAnswer(turns', turns)
  <2>1. CASE turns' = turns \/ turns' = CloseSitting(turns)
    BY <2>1, <1>1, SameExtends, ClosedExtends DEF AddsNoAnswer
  <2>2. CASE Say(r) /\ turns' # turns
    <3>1. PICK kind \in RepliesTo(turns, saw[r].greet) : turns' = Append(turns, AgentTurn(kind))
      BY <2>2 DEF Say
    <3>2. PICK t \in TurnRecords : t = AgentTurn(kind)
      BY <3>1, RepliesAreKinds, TurnsOK
    <3>3. t.by = "agent" /\ turns' = Append(turns, t)
      BY <3>1, <3>2 DEF AgentTurn
    <3>4. Len(turns') = Len(turns) + 1 /\ turns'[Len(turns')] = t
      BY <1>1, <3>3, Appended
    <3>5. Extends(turns', turns)
      BY <1>1, <3>3, Appended
    <3> QED BY <3>3, <3>4, <3>5 DEF AddsNoAnswer
  <2>3. Say(r) \/ turns' = turns \/ turns' = CloseSitting(turns)
    BY DEF StartRead, Resume, Claim, Join, JoinRead, JoinCurrent, ContinueRead, Produce, Current,
           Outcome, WithdrawRead, HandoffRead, WithdrawWrite, FinalizeLoad, FinalizeRead,
           ToQuestions, ToClosing, ToProcessing, Evaluate, Store, Burn, Ready, FinalizeThrows,
           ReleaseRead, ReleaseWrite, Abandon
  <2> QED BY <2>1, <2>2, <2>3
<1>4. AskedOK(r)'
  BY <1>2 DEF AskedOK
<1> QED BY <1>2, <1>3, <1>4, CreditQuiet

LEMMA CreditEngine ==
  ASSUME Shaped, Shaped', CreditInv, NEW r \in Reqs,
         (\E o \in Ops : Arrive(r, o)) \/ Step(r) \/ FinalizeThrows(r) \/ Abandon(r)
  PROVE  CreditInv'
BY CreditReads, CreditRecords, CreditElsewhere DEF Step

(* The routes close sittings and say nothing.                              *)
LEMMA CreditRoute ==
  ASSUME Shaped, Shaped', CreditInv, NEW r \in Reqs,
         RouteStep(r) \/ \E o \in RouteOps : RouteArrive(r, o)
  PROVE  CreditInv'
<1>1. Others(r) /\ pc'[r] \notin {"load", "read", "record"}
  BY AfterRoute DEF RoutePCs
<1>2. turns \in Seq(TurnRecords)
  BY DEF Shaped, RowsOK
<1>3. Extends(turns', turns) /\ AddsNoAnswer(turns', turns)
  BY <1>2, AfterRoute, SameExtends, ClosedExtends DEF AddsNoAnswer
<1>4. AskedOK(r)'
  BY <1>1 DEF AskedOK
<1> QED BY <1>1, <1>3, <1>4, CreditQuiet

LEMMA CreditInit == RoutesInit => CreditInv
<1> SUFFICES ASSUME RoutesInit PROVE CreditInv
  OBVIOUS
<1>1. TurnsInv
  BY TurnsInit DEF RoutesInit
<1> QED BY <1>1 DEF TurnsInv, CreditInv

LEMMA CreditStep == Shaped /\ Shaped' /\ CreditInv /\ [RoutesNext]_allVars => CreditInv'
<1> SUFFICES ASSUME Shaped, Shaped', CreditInv, [RoutesNext]_allVars PROVE CreditInv'
  OBVIOUS
<1>1. ASSUME NEW r \in Reqs, EngineStep(r) PROVE CreditInv'
  BY <1>1, CreditEngine DEF EngineStep
<1>2. CASE GoQuiet \/ UNCHANGED allVars
  <2>1. turns' = turns /\ pc' = pc /\ saw' = saw
    BY <1>2 DEF GoQuiet, vars, allVars
  <2> QED BY <2>1 DEF CreditInv, CreditedToQuestionOnScreen, AskedOK
<1> QED BY <1>1, <1>2, CreditRoute DEF RoutesNext

(* Whoever postpones, re-invites, reopens, cancels or sweeps meanwhile, an *)
(* answer that names its question is stored under it and credited to its   *)
(* competency: no route takes a turn back or moves one, and that is all    *)
(* recordCandidateAnswer counts on.                                        *)
THEOREM RoutesCreditOnScreen == RoutesSpec => []CreditedToQuestionOnScreen
<1>1. CreditInv => CreditedToQuestionOnScreen
  BY DEF CreditInv
<1> QED BY <1>1, CreditInit, CreditStep, RoutesAlwaysShaped, PTL DEF RoutesSpec

----
(* The transcript of one sitting, under the routes that reopen nothing.    *)

(* A re-invite and a reopened handoff begin the conversation anew.  The    *)
(* other routes may end it - cancel it, hand it to a person, sweep it,     *)
(* assess what there is - at any moment.                                   *)
NothingReopens == RouteOps \cap {"reopen", "invite"} = {}

LEMMA ReopenedByNone ==
  ASSUME NothingReopens, OriginInv, NEW r \in Reqs,
         RouteStep(r) \/ \E o \in RouteOps : RouteArrive(r, o)
  PROVE  /\ turns' = turns
         /\ state' \in StartableStates => state \in StartableStates
<1>1. pc[r] \notin {"inviteClose", "inviteUpsert", "inviteMark", "inviteState", "reopenWrite"}
  <2>1. pc[r] \in {"inviteClose", "inviteUpsert", "inviteMark", "inviteState", "reopenWrite"} =>
          op[r] \in RouteOps /\ op[r] \in {"invite", "reopen"}
    BY DEF OriginInv, OriginOf, RoutePCs
  <2> QED BY <2>1 DEF NothingReopens
<1>2. ~InviteClose(r) /\ ~InviteUpsert(r) /\ ~InviteMark(r) /\ ~InviteState(r) /\ ~ReopenWrite(r)
  BY <1>1 DEF InviteClose, InviteUpsert, InviteMark, InviteState, ReopenWrite
<1>3. turns' = turns
  BY <1>2
  DEF RouteArrive, RouteStep, OpenLoad, OpenMark, ResendLoad, ResendMark, Accept, AcceptMark,
      ConsentLoad, ConsentWrite, AccommodateWrite, CancelWrite, PartialClaim, RetakeCheck,
      RetakeClaim, SweepCheck, SweepNewest, SweepWrite, rowVars
<1>4. state' \in StartableStates => state \in StartableStates
  BY <1>2
  DEF RouteArrive, RouteStep, OpenLoad, OpenMark, ResendLoad, ResendMark, Accept, AcceptMark,
      ConsentLoad, ConsentWrite, AccommodateWrite, CancelWrite, PartialClaim, RetakeCheck,
      RetakeClaim, SweepCheck, SweepNewest, SweepWrite, rowVars, Walk, SweepTarget,
      StartableStates
<1> QED BY <1>3, <1>4

LEMMA OpenRoute ==
  ASSUME NothingReopens, Shaped, OriginInv, OpenInv, NEW r \in Reqs,
         RouteStep(r) \/ \E o \in RouteOps : RouteArrive(r, o)
  PROVE  OpenInv'
<1>1. Others(r) /\ pc'[r] \notin Conducting \cup {"read", "finRead"}
  BY AfterRoute DEF RoutePCs, Conducting, EnginePCs
<1>2. state' \in StartableStates => state \in StartableStates
  BY ReopenedByNone
<1> QED BY <1>1, <1>2 DEF OpenInv, Others

LEMMA TurnsRoute ==
  ASSUME NothingReopens, Shaped, Shaped', OriginInv, TurnsInv, NEW r \in Reqs,
         RouteStep(r) \/ \E o \in RouteOps : RouteArrive(r, o)
  PROVE  TurnsInv'
<1>1. Others(r) /\ pc'[r] \in RoutePCs \cup {"finLoad", "idle"}
  BY AfterRoute
<1>2. turns' = turns /\ (state' \in StartableStates => state \in StartableStates)
  BY ReopenedByNone
<1>3. pc'[r] \notin {"load", "read", "resume", "claim", "joinCurrent", "record", "produce", "say"}
  BY <1>1 DEF RoutePCs
<1>4. SpeakerOK(r)' /\ AskedOK(r)'
  BY <1>3 DEF SpeakerOK, AskedOK
<1> QED BY <1>1, <1>2, <1>3, <1>4, Quiet

(* Consent, the open interview and the transcript, in one induction.       *)
LEMMA SittingInit == RoutesInit => ConsentInv /\ HeardInv /\ OpenInv /\ TurnsInv
<1>1. RoutesInit => ConsentInv /\ HeardInv
  <2> SUFFICES ASSUME RoutesInit PROVE ConsentInv /\ HeardInv
    OBVIOUS
  <2>1. state \in StartableStates /\ \A r \in Reqs : pc[r] = "idle"
    BY FirstStatesAssumption DEF RoutesInit, EngineInit
  <2> QED BY <2>1 DEF ConsentInv, ReadConsent, HeardInv, Talking, StartableStates, LiveStates
<1> QED BY <1>1, OpenInit, TurnsInit DEF RoutesInit

LEMMA SittingStep ==
  ASSUME NothingReopens
  PROVE  /\ Shaped /\ Shaped' /\ OriginInv /\ ConsentInv /\ HeardInv /\ OpenInv /\ TurnsInv
         /\ [RoutesNext]_allVars
         => ConsentInv' /\ HeardInv' /\ OpenInv' /\ TurnsInv'
<1> SUFFICES ASSUME Shaped, Shaped', OriginInv, ConsentInv, HeardInv, OpenInv, TurnsInv,
                    [RoutesNext]_allVars
             PROVE  ConsentInv' /\ HeardInv' /\ OpenInv' /\ TurnsInv'
  OBVIOUS
<1>1. ConsentInv' /\ HeardInv'
  BY ConsentStep, HeardStep DEF ConsentUndoneIsFinal, NothingReopens
<1>2. OpenInv' /\ TurnsInv'
  <2>1. ASSUME NEW r \in Reqs, EngineStep(r) PROVE OpenInv' /\ TurnsInv'
    <3>1. pc[r] = "claim" => saw[r].state \in StartableStates
      BY DEF ConsentInv
    <3> QED BY <2>1, <3>1, OpenStep, TurnsEngine DEF EngineStep
  <2>2. CASE GoQuiet \/ UNCHANGED allVars
    <3>1. UNCHANGED vars
      BY <2>2 DEF GoQuiet, allVars
    <3> QED BY <3>1 DEF vars, OpenInv, TurnsInv, OneSitting, CreditedToQuestionOnScreen, RoomInv,
                        SpeakerOK, AskedOK, ReplyDue, Recording, Replying
  <2> QED BY <2>1, <2>2, OpenRoute, TurnsRoute DEF RoutesNext
<1> QED BY <1>1, <1>2

LEMMA AlwaysOneSitting ==
  ASSUME NothingReopens
  PROVE  RoutesSpec => [](ConsentInv /\ HeardInv /\ OpenInv /\ TurnsInv)
BY SittingInit, SittingStep, AlwaysOrigin, RoutesAlwaysShaped, PTL DEF RoutesSpec

(* The speakers alternate to the end, whichever route ends the interview   *)
(* under the requests that still answer and reply.                         *)
THEOREM RoutesAlternate ==
  ASSUME NothingReopens
  PROVE  RoutesSpec => []Alternates
<1>1. TurnsInv => Alternates
  BY DEF TurnsInv, OneSitting, Alternates
<1> QED BY <1>1, AlwaysOneSitting, PTL

(* The routes admit nobody past MAX_TURNS_PER_SESSION: a request of theirs *)
(* in flight takes a slot, and adds no turn.                               *)
THEOREM RoutesStayBounded ==
  ASSUME NothingReopens
  PROVE  RoutesSpec => []TranscriptBounded
<1>1. Shaped /\ TurnsInv => TranscriptBounded
  BY BoundedByRoom
<1> QED BY <1>1, AlwaysOneSitting, RoutesAlwaysShaped, PTL

----
(* Ready for review means complete, as long as the link stays burned.      *)

(* The first open, the accept and a resend write the link's status by id,  *)
(* from what they have loaded, and a re-invite sends it anew: each may     *)
(* bring back a link that a finalisation has burned meanwhile.  No other   *)
(* route touches it.                                                       *)
LinkStaysBurned == RouteOps \cap {"open", "accept", "invite", "resend"} = {}

LEMMA CompleteRoute ==
  ASSUME LinkStaysBurned, Shaped, OriginInv, CompleteInv, NEW r \in Reqs,
         RouteStep(r) \/ \E o \in RouteOps : RouteArrive(r, o)
  PROVE  CompleteInv'
<1>1. Others(r) /\ pc'[r] \notin {"burn", "ready"} /\ assessments' = assessments
  BY AfterRoute DEF RoutePCs
<1>2. pc[r] \notin {"openMark", "acceptMark", "inviteUpsert", "inviteMark", "resendMark"}
  <2>1. pc[r] \in {"openMark", "acceptMark", "inviteUpsert", "inviteMark", "resendMark"} =>
          op[r] \in RouteOps /\ op[r] \in {"open", "accept", "invite", "resend"}
    BY DEF OriginInv, OriginOf, RoutePCs
  <2> QED BY <2>1 DEF LinkStaysBurned
<1>3. ~OpenMark(r) /\ ~AcceptMark(r) /\ ~InviteUpsert(r) /\ ~InviteMark(r) /\ ~ResendMark(r)
  BY <1>2 DEF OpenMark, AcceptMark, InviteUpsert, InviteMark, ResendMark
<1>4. invitation' = invitation
  BY <1>3
  DEF RouteArrive, RouteStep, OpenLoad, Accept, ConsentLoad, ConsentWrite, AccommodateWrite,
      InviteClose, InviteState, ResendLoad, CancelWrite, ReopenWrite, PartialClaim, RetakeCheck,
      RetakeClaim, SweepCheck, SweepNewest, SweepWrite, rowVars
<1>5. state' = "REVIEW_READY" => state = "REVIEW_READY"
  BY DEF RouteArrive, RouteStep, OpenLoad, OpenMark, ResendLoad, ResendMark, Accept, AcceptMark,
         ConsentLoad, ConsentWrite, AccommodateWrite, InviteClose, InviteUpsert, InviteMark,
         InviteState, CancelWrite, ReopenWrite, PartialClaim, RetakeCheck, RetakeClaim,
         SweepCheck, SweepNewest, SweepWrite, rowVars, Walk, SweepTarget
<1> QED BY <1>1, <1>4, <1>5, CompleteKept

LEMMA CompleteRoutesStep ==
  ASSUME LinkStaysBurned
  PROVE  Shaped /\ OriginInv /\ CompleteInv /\ [RoutesNext]_allVars => CompleteInv'
<1> SUFFICES ASSUME Shaped, OriginInv, CompleteInv, [RoutesNext]_allVars PROVE CompleteInv'
  OBVIOUS
<1>1. ASSUME NEW r \in Reqs, EngineStep(r) PROVE CompleteInv'
  BY <1>1, CompleteStores, CompleteElsewhere DEF EngineStep
<1>2. CASE GoQuiet \/ UNCHANGED allVars
  <2>1. UNCHANGED vars
    BY <1>2 DEF GoQuiet, allVars
  <2> QED BY <2>1 DEF vars, CompleteInv, ReviewReadyIsComplete
<1> QED BY <1>1, <1>2, CompleteRoute DEF RoutesNext

(* An interview announced as ready for review has its assessment and a     *)
(* spent link, though it may have been reopened, swept, assessed in part   *)
(* or retaken while the finalisation that announces it was under way.      *)
THEOREM RoutesReviewReadyComplete ==
  ASSUME LinkStaysBurned
  PROVE  RoutesSpec => []ReviewReadyIsComplete
<1>1. RoutesInit => CompleteInv
  BY CompleteInit DEF RoutesInit
<1>2. CompleteInv => ReviewReadyIsComplete
  BY DEF CompleteInv
<1> QED BY <1>1, <1>2, CompleteRoutesStep, AlwaysOrigin, RoutesAlwaysShaped, PTL DEF RoutesSpec

----
(* The claim, taken once.                                                  *)

(* What undoes a finalisation's claim: a re-invite or a reopened handoff   *)
(* lets the interview start again, and a sweep that writes INCOMPLETE over *)
(* a claimed interview lets assess-partial close and claim it again.       *)
ClaimIsFinal ==
    /\ RouteOps \cap {"reopen", "invite"} = {}
    /\ ~({"sweep", "partial"} \subseteq RouteOps)

(* Without the sweep nothing is ever incomplete.                           *)
SweptInv == "partial" \in RouteOps => state # "INCOMPLETE"

FinalInv == ClaimInv /\ SweptInv /\ RequestInv

(* What the routes that are left write.                                    *)
LEMMA FinalWrites ==
  ASSUME ClaimIsFinal, OriginInv, SweptInv, NEW r \in Reqs,
         RouteStep(r) \/ \E o \in RouteOps : RouteArrive(r, o)
  PROVE  \/ state' = state
         \/ Accept(r) /\ state = "INVITED" /\ state' = "ACCEPTED"
         \/ AccommodateWrite(r) /\ state' = "MANUAL_HANDOFF"
         \/ CancelWrite(r) /\ state' = "CANCELLED"
         \/ RetakeClaim(r) /\ StandsAsRead(r) /\ state' = "CLOSED"
         \/ SweepWrite(r) /\ state' \in {"TECHNICAL_FAILURE", "INCOMPLETE"}
<1>1. pc[r] \notin {"inviteState", "reopenWrite"}
  <2>1. pc[r] \in {"inviteState", "reopenWrite"} =>
          op[r] \in RouteOps /\ op[r] \in {"invite", "reopen"}
    BY DEF OriginInv, OriginOf, RoutePCs
  <2> QED BY <2>1 DEF ClaimIsFinal
<1>2. pc[r] = "partialClaim" => state # "INCOMPLETE"
  BY DEF OriginInv, OriginOf, RoutePCs, SweptInv
<1>3. CASE \E o \in RouteOps : RouteArrive(r, o)
  BY <1>3 DEF RouteArrive, rowVars
<1>4. CASE RouteStep(r)
  <2>1. CASE \/ OpenLoad(r) \/ OpenMark(r) \/ AcceptMark(r) \/ ConsentLoad(r) \/ ConsentWrite(r)
             \/ InviteClose(r) \/ InviteUpsert(r) \/ InviteMark(r) \/ ResendLoad(r) \/ ResendMark(r)
             \/ RetakeCheck(r) \/ SweepCheck(r) \/ SweepNewest(r)
    BY <2>1 DEF OpenLoad, OpenMark, AcceptMark, ConsentLoad, ConsentWrite, InviteClose,
                InviteUpsert, InviteMark, ResendLoad, ResendMark, RetakeCheck, SweepCheck,
                SweepNewest, rowVars
  <2>2. CASE Accept(r)
    BY <2>2 DEF Accept
  <2>3. CASE AccommodateWrite(r) \/ CancelWrite(r)
    BY <2>3 DEF AccommodateWrite, CancelWrite
  <2>4. CASE PartialClaim(r)
    BY <2>4, <1>2 DEF PartialClaim, Walk
  <2>5. CASE RetakeClaim(r)
    BY <2>5 DEF RetakeClaim
  <2>6. CASE SweepWrite(r)
    BY <2>6 DEF SweepWrite, SweepTarget
  <2>7. ~InviteState(r) /\ ~ReopenWrite(r)
    BY <1>1 DEF InviteState, ReopenWrite
  <2> QED BY <1>4, <2>1, <2>2, <2>3, <2>4, <2>5, <2>6, <2>7 DEF RouteStep
<1> QED BY <1>3, <1>4

LEMMA FinalStates ==
  {"MANUAL_HANDOFF", "CANCELLED", "CLOSED", "TECHNICAL_FAILURE", "INCOMPLETE"} \subseteq PastClaim
  /\ "INVITED" \notin PastClaim
BY DEF PastClaim, States, SessionStateNames, ExceptionStateNames, StartableStates, LiveStates

LEMMA FinalRoute ==
  ASSUME ClaimIsFinal, Shaped, Shaped', OriginInv, FinalInv, NEW r \in Reqs,
         RouteStep(r) \/ \E o \in RouteOps : RouteArrive(r, o)
  PROVE  FinalInv'
<1>1. /\ Others(r) /\ assessments' = assessments
      /\ pc'[r] \notin {"evaluate", "store", "claim", "handoffRead", "withdrawWrite"}
  BY AfterRoute DEF RoutePCs
<1>2. RequestsShaped' /\ ClaimInv /\ SweptInv /\ RequestInv
  BY DEF Shaped, FinalInv
<1>3. state \in PastClaim => state' \in PastClaim
  BY <1>2, FinalWrites, FinalStates
<1>4. human' = human
  BY DEF RouteArrive, RouteStep, OpenLoad, OpenMark, ResendLoad, ResendMark, Accept, AcceptMark,
         ConsentLoad, ConsentWrite, AccommodateWrite, InviteClose, InviteUpsert, InviteMark,
         InviteState, CancelWrite, ReopenWrite, PartialClaim, RetakeCheck, RetakeClaim,
         SweepCheck, SweepNewest, SweepWrite, rowVars
<1>5. ClaimInv'
  BY <1>1, <1>2, <1>3, ClaimKept
<1>6. RequestInv'
  BY <1>1, <1>2, <1>3, <1>4, RequestKept
<1>7. SweptInv'
  <2>1. SweepWrite(r) => "sweep" \in RouteOps
    BY DEF SweepWrite, OriginInv, OriginOf, RoutePCs
  <2>2. "partial" \in RouteOps => ~SweepWrite(r)
    BY <2>1 DEF ClaimIsFinal
  <2> QED BY <1>2, <2>2, FinalWrites DEF SweptInv
<1> QED BY <1>5, <1>6, <1>7 DEF FinalInv

LEMMA FinalEngine ==
  ASSUME Shaped, Shaped', FinalInv, NEW r \in Reqs,
         (\E o \in Ops : Arrive(r, o)) \/ Step(r) \/ FinalizeThrows(r) \/ Abandon(r)
  PROVE  FinalInv'
<1>1. EngineNext
  BY DEF EngineNext
<1>2. ClaimInv' /\ RequestInv'
  BY <1>1, ClaimStep, RequestStep DEF FinalInv
<1>3. state' = "INCOMPLETE" => state = "INCOMPLETE"
  BY DEF Step, Arrive, Load, StartRead, Resume, Claim, Join, JoinRead, JoinCurrent, AnswerRead,
         Record, ContinueRead, Produce, Say, Current, Outcome, WithdrawRead, HandoffRead,
         WithdrawWrite, FinalizeLoad, FinalizeRead, ToQuestions, ToClosing, ToProcessing,
         Evaluate, Store, Burn, Ready, FinalizeThrows, ReleaseRead, ReleaseWrite, Abandon, Walk,
         rowVars
<1> QED BY <1>2, <1>3 DEF FinalInv, SweptInv

LEMMA FinalInit == RoutesInit => FinalInv
<1> SUFFICES ASSUME RoutesInit PROVE FinalInv
  OBVIOUS
<1>1. ClaimInv /\ RequestInv
  BY ClaimInit, RequestInit DEF RoutesInit
<1>2. state # "INCOMPLETE"
  BY FirstStatesAssumption DEF RoutesInit, EngineInit, StartableStates
<1> QED BY <1>1, <1>2 DEF FinalInv, SweptInv

LEMMA FinalStep ==
  ASSUME ClaimIsFinal
  PROVE  Shaped /\ Shaped' /\ OriginInv /\ FinalInv /\ [RoutesNext]_allVars => FinalInv'
<1> SUFFICES ASSUME Shaped, Shaped', OriginInv, FinalInv, [RoutesNext]_allVars PROVE FinalInv'
  OBVIOUS
<1>1. ASSUME NEW r \in Reqs, EngineStep(r) PROVE FinalInv'
  BY <1>1, FinalEngine DEF EngineStep
<1>2. CASE GoQuiet \/ UNCHANGED allVars
  <2>1. UNCHANGED vars
    BY <1>2 DEF GoQuiet, allVars
  <2> QED BY <2>1 DEF vars, FinalInv, ClaimInv, OneAssessment, Finalisers, SweptInv, RequestInv
<1> QED BY <1>1, <1>2, FinalRoute DEF RoutesNext

LEMMA AlwaysFinal ==
  ASSUME ClaimIsFinal
  PROVE  RoutesSpec => []FinalInv
BY FinalInit, FinalStep, AlwaysOrigin, RoutesAlwaysShaped, PTL DEF RoutesSpec

(* With the portal, the recruiter's cancels and retakes, and either the    *)
(* sweep or partial assessments beside the engine, an interview gets at    *)
(* most one assessment.                                                    *)
THEOREM RoutesScoreOnce ==
  ASSUME ClaimIsFinal
  PROVE  RoutesSpec => []OneAssessment
<1>1. FinalInv => OneAssessment
  BY DEF FinalInv, ClaimInv
<1> QED BY <1>1, AlwaysFinal, PTL

(* Nor can the routes put a candidate who was promised a person into both  *)
(* the hiring team's queue and the scored: the sweep and the cancel write  *)
(* over a handoff only states that no finalisation can claim.              *)
THEOREM RoutesRequestOrScore ==
  ASSUME ClaimIsFinal
  PROVE  RoutesSpec => []RequestExcludesScore
<1>1. FinalInv => RequestExcludesScore
  BY DEF FinalInv, RequestInv, RequestExcludesScore
<1> QED BY <1>1, AlwaysFinal, PTL

----
(* What has not begun is not swept.                                        *)

(* An interview not begun has no clock, so no sweep is after it; a retake  *)
(* is after an interview that is over.                                     *)
BegunInv ==
    /\ state \in StartableStates =>
         /\ activity = "none"
         /\ \A r \in Reqs : pc[r] \notin {"sweepCheck", "sweepNewest", "sweepWrite"}
    /\ \A r \in Reqs : pc[r] \in {"retakeCheck", "retakeClaim"} =>
         saw[r].state \in {"INCOMPLETE", "TECHNICAL_FAILURE"}

(* No request starts the clock of an interview that stays open.            *)
LEMMA ClockStands ==
  ASSUME Shaped, OpenInv, NEW r \in Reqs, state' \in StartableStates,
         (\E o \in Ops : Arrive(r, o)) \/ Step(r) \/ FinalizeThrows(r) \/ Abandon(r)
  PROVE  ~TouchesClock(r)
<1>1. RequestsShaped /\ state' = state /\ state \in StartableStates
  BY NeverReopened DEF Shaped
<1>2. pc[r] \notin Conducting
  BY <1>1 DEF OpenInv
<1>3. ~(Claim(r) /\ StandsAsRead(r))
  BY DEF Claim, StartableStates
<1>4. \/ \E o \in Ops : Arrive(r, o)
      \/ Load(r) \/ StartRead(r) \/ AnswerRead(r) \/ ContinueRead(r)
      \/ Claim(r) \/ Join(r) \/ FinalizeLoad(r) \/ FinalizeRead(r) \/ Abandon(r)
  BY <1>2
  DEF Conducting, EnginePCs, Step, Resume, JoinRead, JoinCurrent, Record, Produce, Say, Current,
      Outcome, WithdrawRead, HandoffRead, WithdrawWrite, ToQuestions, ToClosing, ToProcessing,
      Evaluate, Store, Burn, Ready, FinalizeThrows, ReleaseRead, ReleaseWrite
<1>5. turns' = turns
  BY <1>3, <1>4 DEF Arrive, Load, StartRead, AnswerRead, ContinueRead, Claim, Join,
                    FinalizeLoad, FinalizeRead, Abandon
<1>6. pc[r] = "claim" => pc'[r] \in {"join", "idle"}
  <2>1. pc[r] = "claim" => Abandon(r) \/ (Claim(r) /\ Goto(r, "join") /\ UNCHANGED saw)
    BY <1>3, <1>4 DEF Arrive, Load, StartRead, AnswerRead, ContinueRead, Claim, Join,
                      FinalizeLoad, FinalizeRead
  <2> QED BY <2>1, <1>1, AfterGoto, AfterFinish DEF Abandon
<1>7. pc[r] # "resume"
  BY <1>2 DEF Conducting, EnginePCs
<1> QED BY <1>5, <1>6, <1>7 DEF TouchesClock

LEMMA BegunEngine ==
  ASSUME Shaped, OpenInv, BegunInv, NEW r \in Reqs, EngineStep(r)
  PROVE  BegunInv'
<1>1. (\E o \in Ops : Arrive(r, o)) \/ Step(r) \/ FinalizeThrows(r) \/ Abandon(r)
  BY DEF EngineStep
<1>2. Others(r) /\ pc'[r] \in EnginePCs
  BY <1>1, AfterEngine
<1>3. pc'[r] \notin {"sweepCheck", "sweepNewest", "sweepWrite", "retakeCheck", "retakeClaim"}
  BY <1>2 DEF EnginePCs
<1>4. state' \in StartableStates => state \in StartableStates /\ activity' = activity
  BY <1>1, NeverReopened, ClockStands DEF EngineStep
<1> QED BY <1>2, <1>3, <1>4 DEF BegunInv, Others

LEMMA BegunRoute ==
  ASSUME NothingReopens, Shaped, OriginInv, BegunInv, NEW r \in Reqs,
         RouteStep(r) \/ \E o \in RouteOps : RouteArrive(r, o)
  PROVE  BegunInv'
<1>1. RequestsShaped /\ Others(r)
  BY AfterRoute DEF Shaped
<1>2. state' \in StartableStates => state \in StartableStates
  BY ReopenedByNone
<1>3. activity' = activity
  BY DEF RouteArrive, RouteStep, OpenLoad, OpenMark, ResendLoad, ResendMark, Accept, AcceptMark,
         ConsentLoad, ConsentWrite, AccommodateWrite, InviteClose, InviteUpsert, InviteMark,
         InviteState, CancelWrite, ReopenWrite, PartialClaim, RetakeCheck, RetakeClaim,
         SweepCheck, SweepNewest, SweepWrite, routeVars
<1>4. /\ pc'[r] \in {"sweepCheck", "sweepNewest", "sweepWrite"} => state \notin StartableStates
      /\ pc'[r] \in {"retakeCheck", "retakeClaim"} =>
           saw'[r].state \in {"INCOMPLETE", "TECHNICAL_FAILURE"}
  <2>1. CASE \E o \in RouteOps : RouteArrive(r, o)
    <3>1. PICK o \in RouteOps : RouteArrive(r, o)
      BY <2>1
    <3>2. pc'[r] = FirstStep(o) /\ saw'[r] = [Nothing EXCEPT !.state = state]
      BY <1>1, <3>1 DEF RouteArrive, Note, RequestsShaped
    <3>3. saw'[r].state = state
      BY <3>2 DEF Nothing
    <3>4. FirstStep(o) \notin {"sweepNewest", "sweepWrite", "retakeClaim"}
      BY RouteOpsAssumption DEF FirstStep
    <3>5. FirstStep(o) = "sweepCheck" => o = "sweep"
      BY RouteOpsAssumption DEF FirstStep
    <3>6. FirstStep(o) = "retakeCheck" => o = "retake"
      BY RouteOpsAssumption DEF FirstStep
    <3>7. /\ o = "sweep" => activity = "quiet"
          /\ o = "retake" => state \in {"INCOMPLETE", "TECHNICAL_FAILURE"}
      BY <3>1 DEF RouteArrive, Admits
    <3> QED BY <3>2, <3>3, <3>4, <3>5, <3>6, <3>7 DEF BegunInv
  <2>2. CASE SweepCheck(r) \/ SweepNewest(r)
    <3>1. pc'[r] \in {"sweepNewest", "sweepWrite", "idle"}
      BY <1>1, <2>2, AfterGoto, AfterFinish DEF SweepCheck, SweepNewest
    <3>2. pc[r] \in {"sweepCheck", "sweepNewest"}
      BY <2>2 DEF SweepCheck, SweepNewest
    <3> QED BY <3>1, <3>2 DEF BegunInv
  <2>3. CASE RetakeCheck(r)
    <3>1. CASE Finish(r)
      <4>1. pc'[r] = "idle"
        BY <1>1, <3>1, AfterFinish
      <4> QED BY <4>1
    <3>2. CASE Goto(r, "retakeClaim") /\ UNCHANGED saw
      <4>1. pc[r] = "retakeCheck" /\ pc'[r] = "retakeClaim" /\ saw' = saw
        BY <1>1, <2>3, <3>2, AfterGoto DEF RetakeCheck
      <4> QED BY <4>1 DEF BegunInv
    <3> QED BY <2>3, <3>1, <3>2 DEF RetakeCheck
  <2>4. CASE RouteStep(r) /\ ~SweepCheck(r) /\ ~SweepNewest(r) /\ ~RetakeCheck(r)
    <3>1. pc'[r] \in {"openMark", "acceptMark", "consentWrite", "accommodateWrite", "inviteUpsert",
                      "inviteMark", "inviteState", "resendMark", "finLoad", "idle"}
      BY <1>1, <2>4, AfterGoto, AfterFinish
      DEF RouteStep, OpenLoad, OpenMark, ResendLoad, ResendMark, Accept, AcceptMark, ConsentLoad,
          ConsentWrite, AccommodateWrite, InviteClose, InviteUpsert, InviteMark, InviteState,
          CancelWrite, ReopenWrite, PartialClaim, RetakeClaim, SweepWrite
    <3> QED BY <3>1
  <2> QED BY <2>1, <2>2, <2>3, <2>4
<1> QED BY <1>1, <1>2, <1>3, <1>4 DEF BegunInv, Others

LEMMA BegunInit == RoutesInit => BegunInv
<1> SUFFICES ASSUME RoutesInit PROVE BegunInv
  OBVIOUS
<1>1. activity = "none" /\ \A r \in Reqs : pc[r] = "idle"
  BY DEF RoutesInit, EngineInit
<1> QED BY <1>1 DEF BegunInv

LEMMA BegunStep ==
  ASSUME NothingReopens
  PROVE  Shaped /\ OriginInv /\ OpenInv /\ BegunInv /\ [RoutesNext]_allVars => BegunInv'
<1> SUFFICES ASSUME Shaped, OriginInv, OpenInv, BegunInv, [RoutesNext]_allVars PROVE BegunInv'
  OBVIOUS
<1>1. CASE GoQuiet
  <2>1. UNCHANGED vars /\ activity = "recent"
    BY <1>1 DEF GoQuiet
  <2> QED BY <2>1 DEF vars, BegunInv
<1>2. CASE UNCHANGED allVars
  <2>1. UNCHANGED vars /\ activity' = activity
    BY <1>2 DEF allVars, routeVars
  <2> QED BY <2>1 DEF vars, BegunInv
<1> QED BY <1>1, <1>2, BegunEngine, BegunRoute DEF RoutesNext

LEMMA AlwaysBegun ==
  ASSUME NothingReopens
  PROVE  RoutesSpec => [](OpenInv /\ BegunInv)
BY BegunInit, BegunStep, AlwaysOneSitting, AlwaysOrigin, RoutesAlwaysShaped, PTL DEF RoutesSpec

(* The states an interview is closed out in.                               *)
ClosedOut == {"INCOMPLETE", "TECHNICAL_FAILURE"}

(* An interview nobody has begun is not closed out as abandoned or failed, *)
(* although the sweep looks at DISCLOSURE, CONSENTED and WARMUP too        *)
(* (services/incompleteInterviews.ts, LIVE_STATES).                        *)
UnbegunNeverClosedOut == [][(state \in StartableStates) => state' \notin ClosedOut]_allVars

(* What keeps it so is the clock alone: nothing that leaves a session      *)
(* startable touches it, so a sweep that has picked this session has seen  *)
(* it begun, and no stale state it goes on with is an open one.            *)
THEOREM SweepSparesUnbegun ==
  ASSUME NothingReopens
  PROVE  RoutesSpec => UnbegunNeverClosedOut
<1>1. /\ Shaped /\ OriginInv /\ OpenInv /\ BegunInv /\ [RoutesNext]_allVars
      => [(state \in StartableStates) => state' \notin ClosedOut]_allVars
  <2> SUFFICES ASSUME Shaped, OriginInv, OpenInv, BegunInv, [RoutesNext]_allVars,
                      state \in StartableStates
               PROVE  state' \notin ClosedOut
    OBVIOUS
  <2>1. state \notin ClosedOut
    BY DEF StartableStates, ClosedOut
  <2>2. ASSUME NEW r \in Reqs, EngineStep(r) PROVE state' \notin ClosedOut
    <3>1. ~ReleaseWrite(r)
      BY DEF ReleaseWrite, OpenInv, Conducting, EnginePCs
    <3> QED BY <2>1, <2>2, <3>1
        DEF EngineStep, Step, Arrive, Load, StartRead, Resume, Claim, Join, JoinRead, JoinCurrent,
            AnswerRead, Record, ContinueRead, Produce, Say, Current, Outcome, WithdrawRead,
            HandoffRead, WithdrawWrite, FinalizeLoad, FinalizeRead, ToQuestions, ToClosing,
            ToProcessing, Evaluate, Store, Burn, Ready, FinalizeThrows, ReleaseRead, Abandon,
            Walk, rowVars, ClosedOut
  <2>3. ASSUME NEW r \in Reqs, RouteStep(r) \/ \E o \in RouteOps : RouteArrive(r, o)
        PROVE  state' \notin ClosedOut
    <3>1. ~SweepWrite(r)
      BY DEF SweepWrite, BegunInv
    <3> QED BY <2>1, <2>3, <3>1
        DEF RouteArrive, RouteStep, OpenLoad, OpenMark, ResendLoad, ResendMark, Accept,
            AcceptMark, ConsentLoad, ConsentWrite, AccommodateWrite, InviteClose, InviteUpsert,
            InviteMark, InviteState, CancelWrite, ReopenWrite, PartialClaim, RetakeCheck,
            RetakeClaim, SweepCheck, SweepNewest, rowVars, Walk, ClosedOut
  <2>4. CASE GoQuiet \/ UNCHANGED allVars
    BY <2>1, <2>4 DEF GoQuiet, vars, allVars
  <2> QED BY <2>2, <2>3, <2>4 DEF RoutesNext
<1> QED BY <1>1, AlwaysBegun, AlwaysOrigin, RoutesAlwaysShaped, PTL
    DEF RoutesSpec, UnbegunNeverClosedOut

----
(* The promise of InterviewPromise, kept by the engine with the sweep.     *)

(* A cancel and an accommodation end an interview that was never begun,    *)
(* which the promise does not speak of; the sweep and a retake only end,   *)
(* or end again, what has begun.                                           *)
EndsOnlyTheBegun == ClaimIsFinal /\ RouteOps \cap {"cancel", "accommodate"} = {}

LEMMA EndsReopenNothing == EndsOnlyTheBegun => ClaimIsFinal /\ NothingReopens
BY DEF EndsOnlyTheBegun, ClaimIsFinal, NothingReopens

(* The routes' writes, as the promise sees them.                           *)
LEMMA PromiseRoute ==
  ASSUME EndsOnlyTheBegun, Shaped, Shaped', OriginInv, FinalInv, BegunInv, NEW r \in Reqs,
         RouteStep(r) \/ \E o \in RouteOps : RouteArrive(r, o)
  PROVE  [Promise!Next]_<<Stage, Len(assessments)>>
<1>1. state \in States /\ state' \in States /\ Len(assessments') = Len(assessments)
  BY AfterRoute DEF Shaped, RowsOK
<1>2. ClaimIsFinal /\ SweptInv
  BY DEF EndsOnlyTheBegun, FinalInv
<1>3. ~AccommodateWrite(r) /\ ~CancelWrite(r)
  BY DEF AccommodateWrite, CancelWrite, OriginInv, OriginOf, RoutePCs, EndsOnlyTheBegun
<1>4. CASE state' = state
  BY <1>1, <1>4 DEF Stage
<1>5. CASE state = "INVITED" /\ state' = "ACCEPTED"
  <2>1. Stage = "open" /\ Stage' = "open"
    BY <1>5 DEF Stage, StartableStates, LiveStates
  <2> QED BY <1>1, <2>1
<1>6. CASE RetakeClaim(r) /\ StandsAsRead(r) /\ state' = "CLOSED"
  <2>1. state \in {"INCOMPLETE", "TECHNICAL_FAILURE"}
    BY <1>6 DEF RetakeClaim, StandsAsRead, BegunInv
  <2>2. Stage = "over" /\ Stage' = "over"
    BY <1>6, <2>1 DEF Stage, StartableStates, LiveStates
  <2> QED BY <1>1, <2>2
<1>7. CASE SweepWrite(r) /\ state' \in {"TECHNICAL_FAILURE", "INCOMPLETE"}
  <2>1. state \notin StartableStates
    BY <1>7 DEF SweepWrite, BegunInv
  <2>2. Stage \in {"live", "closing", "over"}
    BY <1>1, <2>1, StageIs
  <2>3. Stage' = "over"
    BY <1>7 DEF Stage, StartableStates, LiveStates
  <2> QED BY <1>1, <2>2, <2>3 DEF Promise!Next, Promise!End
<1> QED BY <1>2, <1>3, <1>4, <1>5, <1>6, <1>7, FinalWrites

(* With the portal's accept and consent, the sweep (or partial assessments *)
(* in its place) and retakes beside it, the engine still implements        *)
(* InterviewPromise: a sweep ends an interview that has begun, at whatever *)
(* moment its late write by id lands, and a retake brings none back.       *)
THEOREM RoutesKeepPromise ==
  ASSUME EndsOnlyTheBegun
  PROVE  RoutesSpec => KeepsPromise
<1>1. RoutesInit => Promise!Init
  <2> SUFFICES ASSUME RoutesInit PROVE Promise!Init
    OBVIOUS
  <2>1. state \in StartableStates /\ Len(assessments) = 0
    BY FirstStatesAssumption DEF RoutesInit, EngineInit
  <2>2. Stage = "open"
    BY <2>1 DEF Stage, StartableStates, LiveStates
  <2> QED BY <2>1, <2>2 DEF Promise!Init
<1>2. /\ Shaped /\ Shaped' /\ OriginInv /\ FinalInv /\ OpenInv /\ BegunInv /\ [RoutesNext]_allVars
      => [Promise!Next]_<<Stage, Len(assessments)>>
  <2> SUFFICES ASSUME Shaped, Shaped', OriginInv, FinalInv, OpenInv, BegunInv,
                      [RoutesNext]_allVars
               PROVE  [Promise!Next]_<<Stage, Len(assessments)>>
    OBVIOUS
  <2>1. ASSUME NEW r \in Reqs, EngineStep(r) PROVE [Promise!Next]_<<Stage, Len(assessments)>>
    BY <2>1, PromiseStep DEF EngineStep, FinalInv
  <2>2. CASE GoQuiet \/ UNCHANGED allVars
    <3>1. UNCHANGED vars
      BY <2>2 DEF GoQuiet, allVars
    <3> QED BY <3>1 DEF vars, Stage
  <2> QED BY <2>1, <2>2, PromiseRoute DEF RoutesNext
<1>3. RoutesSpec => []FinalInv /\ [](OpenInv /\ BegunInv)
  BY EndsReopenNothing, AlwaysFinal, AlwaysBegun
<1> QED BY <1>1, <1>2, <1>3, AlwaysOrigin, RoutesAlwaysShaped, PTL
    DEF RoutesSpec, KeepsPromise, Promise!Spec, Promise!promiseVars
====
