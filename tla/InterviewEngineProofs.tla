---- MODULE InterviewEngineProofs ----
(***************************************************************************)
(* What holds of InterviewEngine for every number of requests in flight,   *)
(* every set of operations and every length of interview.                  *)
(***************************************************************************)
EXTENDS InterviewEngine, TLAPS

----
(* Lemmas about the transcript.                                            *)

(* LastAmong and FirstAmong pick a position or none.                       *)
LEMMA AmongNat ==
  ASSUME NEW ps, ps \subseteq Nat
  PROVE  LastAmong(ps) \in Nat /\ FirstAmong(ps) \in Nat
BY DEF LastAmong, FirstAmong

LEMMA NewestAgentNat ==
  ASSUME NEW ts \in Seq(TurnRecords)
  PROVE  NewestAgent(ts) \in Nat
<1>1. AgentPositions(ts) \subseteq Nat
  BY DEF AgentPositions
<1> QED BY <1>1, AmongNat DEF NewestAgent

LEMMA PendingTurnNat ==
  ASSUME NEW ts \in Seq(TurnRecords), NEW live
  PROVE  PendingTurn(ts, live) \in Nat
<1>1. AgentPositions(ts) \subseteq Nat /\ SittingAgents(ts) \subseteq Nat
  BY DEF AgentPositions, SittingAgents
<1> QED BY <1>1, AmongNat DEF PendingTurn

(* Closing a sitting changes a flag of a turn: the transcript keeps its    *)
(* shape and its length.                                                   *)
LEMMA CloseSittingType ==
  ASSUME NEW ts \in Seq(TurnRecords)
  PROVE  CloseSitting(ts) \in Seq(TurnRecords) /\ Len(CloseSitting(ts)) = Len(ts)
<1> DEFINE a == NewestAgent(ts)
           closed == [ts EXCEPT ![a].closed = TRUE]
<1>1. ts \in [1..Len(ts) -> TurnRecords] /\ Len(ts) \in Nat
  OBVIOUS
<1>2. \A t \in TurnRecords : [t EXCEPT !.closed = TRUE] \in TurnRecords
  BY DEF TurnRecords
<1>3. closed \in [1..Len(ts) -> TurnRecords]
  BY <1>1, <1>2
<1>4. closed \in Seq(TurnRecords) /\ Len(closed) = Len(ts)
  BY <1>1, <1>3
<1> QED BY <1>4 DEF CloseSitting

----
(* Lemmas about a request moving on.                                       *)

(* The engine's requests may run beside others (InterviewRoutes): what is  *)
(* said of their types is said for any operations and steps that include   *)
(* the engine's.                                                           *)
RequestsIn(os, ls) ==
    /\ op \in [Reqs -> os]
    /\ pc \in [Reqs -> ls]
    /\ saw \in [Reqs -> Reading]

TypeIn(os, ls) == RowsOK /\ RequestsIn(os, ls)
Among(os, ls) == Ops \cup {"none"} \subseteq os /\ EnginePCs \subseteq ls

LEMMA TypeIsIn == TypeOK <=> TypeIn(Ops \cup {"none"}, EnginePCs)
BY DEF TypeOK, TypeIn, RequestsOK, RequestsIn

LEMMA GotoOK ==
  ASSUME NEW os, NEW ls, RequestsIn(os, ls), Among(os, ls), NEW r \in Reqs, NEW l \in EnginePCs, Goto(r, l)
  PROVE  pc' \in [Reqs -> ls] /\ op' \in [Reqs -> os]
BY DEF RequestsIn, Among, Goto

LEMMA NoteOK ==
  ASSUME NEW os, NEW ls, RequestsIn(os, ls), Among(os, ls), NEW r \in Reqs, NEW what \in Reading, Note(r, what)
  PROVE  saw' \in [Reqs -> Reading]
BY DEF RequestsIn, Note

LEMMA NothingOK == Nothing \in Reading
BY DEF Nothing, Reading, States, SessionStateNames, LinkStates

(* What a request may come to have read.                                   *)
LEMMA ReadingOK ==
  ASSUME NEW s \in Reading, NEW n \in Nat, NEW st \in States, NEW b \in BOOLEAN
  PROVE  /\ [s EXCEPT !.tail = n] \in Reading
         /\ [s EXCEPT !.need = n] \in Reading
         /\ [s EXCEPT !.asked = n] \in Reading
         /\ [s EXCEPT !.slot = n] \in Reading
         /\ \A kind \in WithdrawnKinds : [s EXCEPT !.ending = kind] \in Reading
         /\ [s EXCEPT !.state = st] \in Reading
         /\ [s EXCEPT !.consent = b] \in Reading
         /\ [s EXCEPT !.state = st, !.consent = b] \in Reading
         /\ \A link \in LinkStates : [s EXCEPT !.link = link] \in Reading
BY DEF Reading

LEMMA FinishOK ==
  ASSUME NEW os, NEW ls, RequestsIn(os, ls), Among(os, ls), NEW r \in Reqs, Finish(r)
  PROVE  RequestsIn(os, ls)'
<1>2. saw' \in [Reqs -> Reading]
  BY NothingOK, NoteOK DEF Finish
<1>3. pc' \in [Reqs -> ls] /\ op' \in [Reqs -> os]
  BY DEF Finish, RequestsIn, Among, EnginePCs
<1> QED BY <1>2, <1>3 DEF RequestsIn

LEMMA SettleOK ==
  ASSUME NEW os, NEW ls, RequestsIn(os, ls), Among(os, ls), NEW r \in Reqs, NEW kind, Settle(r, kind)
  PROVE  RequestsIn(os, ls)'
<1>1. saw[r] \in Reading
  BY DEF RequestsIn
<1>2. kind \in WithdrawnKinds => [saw[r] EXCEPT !.ending = kind] \in Reading
  BY <1>1, ReadingOK DEF RowsOK, Reading
<1>3. {"withdraw", "finLoad"} \subseteq EnginePCs
  BY DEF EnginePCs
<1>4. CASE Finish(r)
  BY <1>4, FinishOK
<1>5. CASE /\ kind \in WithdrawnKinds
            /\ Goto(r, "withdraw") /\ Note(r, [saw[r] EXCEPT !.ending = kind])
  BY <1>5, <1>2, <1>3, GotoOK, NoteOK DEF RequestsIn
<1>6. CASE Goto(r, "finLoad") /\ UNCHANGED saw
  BY <1>6, <1>3, GotoOK DEF RequestsIn
<1> QED BY <1>4, <1>5, <1>6 DEF Settle

----
(* Type correctness.                                                       *)

(* A step that writes no row.                                              *)
LEMMA SameRows ==
  ASSUME RowsOK, UNCHANGED <<rowVars, turns, assessments>>
  PROVE  RowsOK'
BY DEF RowsOK, rowVars

(* The steps of a request before it writes to the transcript.              *)
LEMMA TypeReads ==
  ASSUME NEW os, NEW ls, TypeIn(os, ls), Among(os, ls), NEW r \in Reqs,
         \/ \E o \in Ops : Arrive(r, o)
         \/ Load(r) \/ StartRead(r) \/ Resume(r)
         \/ Join(r) \/ JoinRead(r) \/ JoinCurrent(r)
         \/ AnswerRead(r) \/ ContinueRead(r) \/ Produce(r) \/ Current(r) \/ Outcome(r)
  PROVE  TypeIn(os, ls)'
<1>1. RowsOK /\ RequestsIn(os, ls) /\ turns \in Seq(TurnRecords) /\ Len(turns) \in Nat
  BY DEF TypeIn, RowsOK
<1>2. saw[r] \in Reading /\ saw[r].tail \in Nat
  BY <1>1 DEF RequestsIn, Reading
<1>3. PendingTurn(turns, TRUE) \in Nat /\ PendingTurn(turns, saw[r].state \in LiveStates) \in Nat
  BY <1>1, PendingTurnNat
<1>4. 0 \in Nat
  OBVIOUS
<1>5. RowsOK'
  <2>1. UNCHANGED <<rowVars, turns, assessments>>
    BY DEF Arrive, Load, StartRead, Resume, Join, JoinRead, JoinCurrent,
           AnswerRead, ContinueRead, Produce, Current, Outcome
  <2> QED BY <2>1, <1>1, SameRows
<1>6. ASSUME NEW l \in EnginePCs, NEW what \in Reading, Goto(r, l), Note(r, what)
      PROVE  RequestsIn(os, ls)'
  BY <1>1, <1>6, GotoOK, NoteOK DEF RequestsIn
<1>7. ASSUME NEW l \in EnginePCs, Goto(r, l), UNCHANGED saw
      PROVE  RequestsIn(os, ls)'
  BY <1>1, <1>7, GotoOK DEF RequestsIn
<1>8. ASSUME NEW n \in Nat
      PROVE  /\ [saw[r] EXCEPT !.tail = n] \in Reading
             /\ [saw[r] EXCEPT !.need = n] \in Reading
             /\ [saw[r] EXCEPT !.slot = n] \in Reading
             /\ [Nothing EXCEPT !.need = n] \in Reading
             /\ [Nothing EXCEPT !.tail = n] \in Reading
  BY <1>2, NothingOK, ReadingOK DEF Reading
<1>9. {"read", "resume", "claim", "joinRead", "joinCurrent", "produce", "record",
       "say", "current", "outcome"} \subseteq EnginePCs
  BY DEF EnginePCs
<1>10. RequestsIn(os, ls)'
  <2>1. CASE \E o \in Ops : Arrive(r, o)
    <3>1. PICK o \in Ops : Arrive(r, o)
      BY <2>1
    <3>2. op' \in [Reqs -> os] /\ pc' \in [Reqs -> ls]
      BY <3>1, <1>1 DEF Arrive, RequestsIn, Among, EnginePCs
    <3>a. AgentPositions(turns) \cup {0} \subseteq Nat /\ {0} \subseteq Nat
      BY <1>1 DEF AgentPositions
    <3>3. PICK asked \in Nat : Note(r, [Nothing EXCEPT !.asked = asked])
      BY <3>1, <3>a DEF Arrive
    <3>4. [Nothing EXCEPT !.asked = asked] \in Reading
      BY NothingOK, ReadingOK DEF Reading
    <3> QED BY <3>2, <3>3, <3>4, <1>1, NoteOK DEF RequestsIn
  <2>2. CASE Load(r)
    <3>1. [saw[r] EXCEPT !.state = state, !.consent = consent] \in Reading
      BY <1>1, <1>2, ReadingOK DEF RowsOK
    <3> QED BY <3>1, <2>2, <1>6, <1>9 DEF Load
  <2>3. CASE StartRead(r)
    BY <2>3, <1>1, <1>4, <1>6, <1>8, <1>9, FinishOK DEF StartRead
  <2>4. CASE Resume(r)
    BY <2>4, <1>1, <1>2, <1>3, <1>6, <1>8, <1>9, FinishOK DEF Resume
  <2>5. CASE Join(r)
    BY <2>5, <1>1, <1>4, <1>7, <1>9, FinishOK DEF Join
  <2>6. CASE JoinRead(r)
    BY <2>6, <1>1, <1>6, <1>8, <1>9 DEF JoinRead
  <2>7. CASE JoinCurrent(r)
    BY <2>7, <1>1, <1>3, <1>7, <1>9, FinishOK DEF JoinCurrent
  <2>8. CASE AnswerRead(r)
    BY <2>8, <1>1, <1>4, <1>6, <1>8, <1>9, NewestAgentNat, FinishOK DEF AnswerRead
  <2>9. CASE ContinueRead(r)
    BY <2>9, <1>1, <1>4, <1>6, <1>8, <1>9, FinishOK DEF ContinueRead
  <2>10. CASE Produce(r)
    <3>1. \A b \in BOOLEAN : [Nothing EXCEPT !.tail = Len(turns), !.greet = b] \in Reading
      BY <1>1, NothingOK DEF Reading
    <3>2. [Nothing EXCEPT !.tail = Len(turns), !.greet = (SittingAgents(turns) = {})] \in Reading
      BY <3>1
    <3> QED BY <3>2, <2>10, <1>1, <1>6, <1>7, <1>9 DEF Produce
  <2>11. CASE Current(r)
    <3>1. [saw[r] EXCEPT !.state = state] \in Reading
      BY <1>1, <1>2, ReadingOK DEF RowsOK, Reading
    <3> QED BY <3>1, <2>11, <1>6, <1>9 DEF Current
  <2>12. CASE Outcome(r)
    BY <2>12, <1>1, <1>3, FinishOK, SettleOK DEF Outcome
  <2> QED BY <2>12, <2>1, <2>2, <2>3, <2>4, <2>5, <2>6, <2>7, <2>8, <2>9, <2>10, <2>11
<1> QED BY <1>5, <1>10 DEF TypeIn

(* Folding an answer, or adding a turn, leaves a transcript.               *)
LEMMA FoldType ==
  ASSUME NEW ts \in Seq(TurnRecords), NEW p
  PROVE  [ts EXCEPT ![p].folded = TRUE] \in Seq(TurnRecords)
<1>1. ts \in [1..Len(ts) -> TurnRecords] /\ Len(ts) \in Nat
  OBVIOUS
<1>2. \A t \in TurnRecords : [t EXCEPT !.folded = TRUE] \in TurnRecords
  BY DEF TurnRecords
<1>3. [ts EXCEPT ![p].folded = TRUE] \in [1..Len(ts) -> TurnRecords]
  BY <1>1, <1>2
<1> QED BY <1>1, <1>3

LEMMA TurnsOK ==
  /\ \A kind \in AgentKinds : AgentTurn(kind) \in TurnRecords
  /\ \A kind \in {"answer", "leave"} : \A asked, slot \in Nat :
        CandidateTurn(kind, asked, slot) \in TurnRecords
BY DEF AgentTurn, CandidateTurn, TurnRecords

LEMMA RepliesAreKinds ==
  ASSUME NEW ts, NEW greet
  PROVE  RepliesTo(ts, greet) \subseteq AgentKinds
BY UtterancesAssumption DEF RepliesTo, AgentKinds, EndingKinds, WithdrawnKinds

(* The states the engine's writes name.                                    *)
LEMMA NamedStates ==
  {"ASSESSING", "CANDIDATE_QUESTIONS", "CLOSING", "PROCESSING", "REVIEW_READY",
   "TECHNICAL_FAILURE", "RESCHEDULE_REQUIRED", "MANUAL_HANDOFF", "POLICY_STOP",
   "CANDIDATE_WITHDREW"} \subseteq States
BY DEF States, SessionStateNames, ExceptionStateNames

(* The steps that write to the transcript.                                 *)
LEMMA TypeTurns ==
  ASSUME NEW os, NEW ls, TypeIn(os, ls), Among(os, ls), NEW r \in Reqs, Claim(r) \/ Record(r)
                                                                                 \/ Say(r)
  PROVE  TypeIn(os, ls)'
<1>1. RowsOK /\ RequestsIn(os, ls) /\ turns \in Seq(TurnRecords) /\ Len(turns) \in Nat
  BY DEF TypeIn, RowsOK
<1>2. saw[r] \in Reading /\ saw[r].tail \in Nat /\ saw[r].asked \in Nat /\ saw[r].slot \in Nat
  BY <1>1 DEF RequestsIn, Reading
<1>3. 0 \in Nat /\ Len(turns) + 1 \in Nat
  BY <1>1
<1>4. ASSUME NEW l \in EnginePCs, NEW what \in Reading, Goto(r, l), Note(r, what)
      PROVE  RequestsIn(os, ls)'
  BY <1>1, <1>4, GotoOK, NoteOK DEF RequestsIn
<1>5. ASSUME NEW l \in EnginePCs, Goto(r, l), UNCHANGED saw
      PROVE  RequestsIn(os, ls)'
  BY <1>1, <1>5, GotoOK DEF RequestsIn
<1>6. \A n \in Nat : [Nothing EXCEPT !.need = n] \in Reading
  BY NothingOK, ReadingOK DEF Reading
<1>7. {"produce", "join", "current"} \subseteq EnginePCs
  BY DEF EnginePCs
<1>8. CASE Claim(r)
  <2>1. CloseSitting(turns) \in Seq(TurnRecords)
    BY <1>1, CloseSittingType
  <2>2. RowsOK'
    BY <1>8, <1>1, <2>1, NamedStates DEF Claim, RowsOK
  <2>3. RequestsIn(os, ls)'
    BY <1>8, <1>2, <1>4, <1>5, <1>6, <1>7 DEF Claim
  <2> QED BY <2>2, <2>3 DEF TypeIn
<1>9. CASE Record(r)
  <2> DEFINE leaving == op[r] = "leave"
             answer == CandidateTurn(IF leaving THEN "leave" ELSE "answer",
                                     saw[r].asked, saw[r].slot)
             fold == FirstAmong(AnswersPending(turns))
  <2>1. answer \in TurnRecords
    BY <1>2, TurnsOK
  <2>2. AnswersPending(turns) \subseteq Nat
    BY <1>1 DEF AnswersPending, CandidatePositions
  <2>3. fold \in Nat
    BY <2>2, AmongNat
  <2>4. turns' \in Seq(TurnRecords)
    <3>1. [turns EXCEPT ![fold].folded = TRUE] \in Seq(TurnRecords)
      BY <1>1, FoldType
    <3>2. Append(turns, answer) \in Seq(TurnRecords)
      BY <1>1, <2>1
    <3> QED BY <1>9, <1>1, <3>1, <3>2 DEF Record
  <2>5. RowsOK'
    BY <1>9, <1>1, <2>4 DEF Record, RowsOK, rowVars
  <2>6. RequestsIn(os, ls)'
    BY <1>9, <1>1, <1>3, <1>4, <1>6, <1>7, <2>3, FinishOK DEF Record
  <2> QED BY <2>5, <2>6 DEF TypeIn
<1>10. CASE Say(r)
  <2>1. CASE \E kind \in RepliesTo(turns, saw[r].greet) :
               /\ turns' = Append(turns, AgentTurn(kind))
               /\ Finish(r) \/ Settle(r, kind)
    <3>1. PICK kind \in AgentKinds :
               /\ turns' = Append(turns, AgentTurn(kind))
               /\ Finish(r) \/ Settle(r, kind)
      BY <2>1, RepliesAreKinds
    <3>2. turns' \in Seq(TurnRecords)
      BY <3>1, <1>1, TurnsOK
    <3>3. RowsOK'
      BY <1>10, <1>1, <3>2 DEF Say, RowsOK, rowVars
    <3>4. RequestsIn(os, ls)'
      BY <3>1, <1>1, <1>3, FinishOK, SettleOK
    <3> QED BY <3>3, <3>4 DEF TypeIn
  <2>2. CASE Goto(r, "current") /\ UNCHANGED <<turns, saw>>
    <3>1. RequestsIn(os, ls)'
      BY <2>2, <1>5, <1>7
    <3>2. RowsOK'
      BY <2>2, <1>10, <1>1, SameRows DEF Say
    <3> QED BY <3>1, <3>2 DEF TypeIn
  <2> QED BY <1>10, <2>1, <2>2 DEF Say
<1> QED BY <1>8, <1>9, <1>10

(* The steps that close or finalise the session, and a request's death.    *)
LEMMA TypeClosing ==
  ASSUME NEW os, NEW ls, TypeIn(os, ls), Among(os, ls), NEW r \in Reqs,
         \/ WithdrawRead(r) \/ HandoffRead(r) \/ WithdrawWrite(r)
         \/ FinalizeLoad(r) \/ FinalizeRead(r)
         \/ ToQuestions(r) \/ ToClosing(r) \/ ToProcessing(r)
         \/ Evaluate(r) \/ Store(r) \/ Burn(r) \/ Ready(r)
         \/ FinalizeThrows(r) \/ ReleaseRead(r) \/ ReleaseWrite(r) \/ Abandon(r)
  PROVE  TypeIn(os, ls)'
<1>1. RowsOK /\ RequestsIn(os, ls) /\ turns \in Seq(TurnRecords) /\ Len(turns) \in Nat
  BY DEF TypeIn, RowsOK
<1>2. saw[r] \in Reading /\ saw[r].tail \in Nat
  BY <1>1 DEF RequestsIn, Reading
<1>3. 0 \in Nat
  OBVIOUS
<1>4. ASSUME NEW l \in EnginePCs, NEW what \in Reading, Goto(r, l), Note(r, what)
      PROVE  RequestsIn(os, ls)'
  BY <1>1, <1>4, GotoOK, NoteOK DEF RequestsIn
<1>5. ASSUME NEW l \in EnginePCs, Goto(r, l), UNCHANGED saw
      PROVE  RequestsIn(os, ls)'
  BY <1>1, <1>5, GotoOK DEF RequestsIn
<1>6. /\ [saw[r] EXCEPT !.state = state] \in Reading
      /\ [saw[r] EXCEPT !.consent = consent] \in Reading
      /\ [Nothing EXCEPT !.tail = Len(turns)] \in Reading
  BY <1>1, <1>2, NothingOK, ReadingOK DEF RowsOK, Reading
<1>7. {"handoffRead", "withdrawWrite", "finRead", "questions", "closing", "processing", "evaluate",
       "store", "burn", "ready", "release", "releaseWrite"} \subseteq EnginePCs
  BY DEF EnginePCs
<1>8. RequestsIn(os, ls)'
  <2>1. CASE WithdrawRead(r) \/ HandoffRead(r) \/ FinalizeLoad(r) \/ FinalizeRead(r)
    BY <2>1, <1>1, <1>3, <1>4, <1>6, <1>7, FinishOK
    DEF WithdrawRead, HandoffRead, FinalizeLoad, FinalizeRead
  <2>2. CASE WithdrawWrite(r) \/ Ready(r) \/ ReleaseWrite(r) \/ Abandon(r)
    BY <2>2, <1>1, <1>3, FinishOK DEF WithdrawWrite, Ready, ReleaseWrite, Abandon
  <2>3. CASE ToQuestions(r) \/ ToClosing(r) \/ Evaluate(r) \/ Store(r) \/ Burn(r)
    BY <2>3, <1>5, <1>7 DEF ToQuestions, ToClosing, Evaluate, Store, Burn
  <2>4. CASE ToProcessing(r) \/ ReleaseRead(r)
    BY <2>4, <1>1, <1>3, <1>5, <1>7, FinishOK DEF ToProcessing, ReleaseRead
  <2>5. CASE FinalizeThrows(r)
    BY <2>5, <1>5, <1>7 DEF FinalizeThrows
  <2> QED BY <2>1, <2>2, <2>3, <2>4, <2>5
<1>9. RowsOK'
  <2>1. CASE \/ WithdrawRead(r) \/ HandoffRead(r) \/ FinalizeLoad(r) \/ FinalizeRead(r)
             \/ Evaluate(r) \/ FinalizeThrows(r) \/ ReleaseRead(r) \/ Abandon(r)
    <3>1. UNCHANGED <<rowVars, turns, assessments>>
      BY <2>1 DEF WithdrawRead, HandoffRead, FinalizeLoad, FinalizeRead, Evaluate, FinalizeThrows,
                  ReleaseRead, Abandon
    <3> QED BY <3>1, <1>1, SameRows
  <2>2. CASE WithdrawWrite(r)
    BY <2>2, <1>1, <1>2, NamedStates DEF WithdrawWrite, RowsOK, Reading
  <2>3. CASE \/ ToQuestions(r) \/ ToClosing(r) \/ ToProcessing(r)
             \/ Ready(r) \/ ReleaseWrite(r)
    BY <2>3, <1>1, NamedStates
    DEF ToQuestions, ToClosing, ToProcessing, Ready, ReleaseWrite, Walk, RowsOK
  <2>4. CASE Store(r)
    BY <2>4, <1>1, <1>2 DEF Store, RowsOK, rowVars
  <2>5. CASE Burn(r)
    BY <2>5, <1>1 DEF Burn, RowsOK, LinkStates
  <2> QED BY <2>1, <2>2, <2>3, <2>4, <2>5
<1> QED BY <1>8, <1>9 DEF TypeIn

LEMMA TypeEngine ==
  ASSUME NEW os, NEW ls, TypeIn(os, ls), Among(os, ls), NEW r \in Reqs,
         (\E o \in Ops : Arrive(r, o)) \/ Step(r) \/ FinalizeThrows(r) \/ Abandon(r)
  PROVE  TypeIn(os, ls)'
BY TypeReads, TypeTurns, TypeClosing DEF Step

LEMMA TypeInit == EngineInit => TypeOK
<1> SUFFICES ASSUME EngineInit PROVE TypeOK
  OBVIOUS
<1>1. RowsOK
  <2>1. state \in States
    BY FirstStatesAssumption DEF EngineInit, States, SessionStateNames, StartableStates
  <2>2. turns \in Seq(TurnRecords) /\ assessments \in Seq([upto : Nat])
    BY DEF EngineInit
  <2> QED BY <2>1, <2>2 DEF EngineInit, RowsOK, LinkStates
<1>2. RequestsOK
  BY NothingOK DEF EngineInit, RequestsOK, EnginePCs
<1> QED BY <1>1, <1>2 DEF TypeOK

LEMMA TypeStep == TypeOK /\ [EngineNext]_vars => TypeOK'
<1> SUFFICES ASSUME TypeOK, [EngineNext]_vars PROVE TypeOK'
  OBVIOUS
<1>1. CASE EngineNext
  <2>1. PICK r \in Reqs : (\E o \in Ops : Arrive(r, o)) \/ Step(r) \/ FinalizeThrows(r)
                                                        \/ Abandon(r)
    BY <1>1 DEF EngineNext
  <2>2. Among(Ops \cup {"none"}, EnginePCs) /\ TypeIn(Ops \cup {"none"}, EnginePCs)
    BY TypeIsIn DEF Among
  <2>3. TypeIn(Ops \cup {"none"}, EnginePCs)'
    BY <2>1, <2>2, TypeEngine
  <2> QED BY <2>3 DEF TypeOK, TypeIn, RequestsOK, RequestsIn
<1>2. CASE UNCHANGED vars
  BY <1>2 DEF vars, TypeOK, RowsOK, RequestsOK
<1> QED BY <1>1, <1>2

(* The rows keep their shape and every request stays at a step the code    *)
(* has, whatever the requests and however they interleave.                 *)
THEOREM TypeCorrect == EngineSpec => []TypeOK
BY TypeInit, TypeStep, PTL DEF EngineSpec

----
(* At most one assessment.                                                 *)

(* All that the invariants need of the types.                              *)
RequestsShaped ==
    /\ op = [r \in Reqs |-> op[r]]
    /\ pc = [r \in Reqs |-> pc[r]]
    /\ saw \in [Reqs -> Reading]

Shaped == RowsOK /\ RequestsShaped

LEMMA TypeShaped == TypeOK => Shaped
BY DEF TypeOK, Shaped, RequestsOK, RequestsShaped

LEMMA AlwaysShaped == EngineSpec => []Shaped
BY TypeCorrect, TypeShaped, PTL

(* A step of one request leaves the others where they were.                *)
Others(r) == \A q \in Reqs \ {r} : pc'[q] = pc[q] /\ saw'[q] = saw[q]

(* Where a request stands after Goto, Finish and Settle.                   *)
LEMMA AfterGoto ==
  ASSUME RequestsShaped, NEW r \in Reqs, NEW l, Goto(r, l), UNCHANGED saw \/ \E what : Note(r, what)
  PROVE  Others(r) /\ pc'[r] = l
BY DEF RequestsShaped, Goto, Note, Others

LEMMA AfterFinish ==
  ASSUME RequestsShaped, NEW r \in Reqs, Finish(r)
  PROVE  Others(r) /\ pc'[r] = "idle"
BY DEF RequestsShaped, Finish, Note, Others

LEMMA AfterSettle ==
  ASSUME RequestsShaped, NEW r \in Reqs, NEW kind, Settle(r, kind)
  PROVE  Others(r) /\ pc'[r] \in {"withdraw", "finLoad", "idle"}
<1>1. CASE Finish(r)
  BY <1>1, AfterFinish
<1>2. CASE Goto(r, "withdraw") /\ \E what : Note(r, what)
  BY <1>2, AfterGoto
<1>3. CASE Goto(r, "finLoad") /\ UNCHANGED saw
  BY <1>3, AfterGoto
<1> QED BY <1>1, <1>2, <1>3 DEF Settle

(* A step that neither takes the claim nor stores keeps the invariant,     *)
(* provided it does not undo the claim's effect on the state.              *)
LEMMA ClaimKept ==
  ASSUME Shaped, ClaimInv, NEW r \in Reqs, Others(r), RequestsShaped',
         pc'[r] \in {"evaluate", "store"} => pc[r] \in {"evaluate", "store"},
         pc'[r] = "claim" => saw'[r].state \in StartableStates,
         assessments' = assessments,
         state \in PastClaim => state' \in PastClaim
  PROVE  ClaimInv'
<1>1. Finalisers' \subseteq Finalisers
  BY DEF Finalisers, Others
<1>2. \A q \in Reqs : pc'[q] = "claim" => saw'[q].state \in StartableStates
  BY DEF ClaimInv, Others
<1> QED BY <1>1, <1>2 DEF ClaimInv, OneAssessment

(* The states a late, unconditional write sets are all past the claim.     *)
LEMMA PastClaimStates ==
  /\ {"PROCESSING", "REVIEW_READY", "TECHNICAL_FAILURE", "RESCHEDULE_REQUIRED",
      "MANUAL_HANDOFF", "POLICY_STOP", "CANDIDATE_WITHDREW"} \subseteq PastClaim
  /\ PastClaim \cap (StartableStates \cup {"ASSESSING", "CANDIDATE_QUESTIONS", "CLOSING"}) = {}
BY DEF PastClaim, States, SessionStateNames, ExceptionStateNames, StartableStates, LiveStates

LEMMA ClaimInit == EngineInit => ClaimInv
<1> SUFFICES ASSUME EngineInit PROVE ClaimInv
  OBVIOUS
<1>1. Finalisers = {} /\ assessments = <<>> /\ Len(assessments) = 0
  BY DEF EngineInit, Finalisers
<1>2. \A r \in Reqs : pc[r] # "claim"
  BY DEF EngineInit
<1> QED BY <1>1, <1>2 DEF ClaimInv, OneAssessment

(* The two transactions that read and write the state under a guard on it: *)
(* once the claim was taken, their guard is false.                         *)
LEMMA ClaimGuarded ==
  ASSUME Shaped, ClaimInv, Shaped', NEW r \in Reqs,
         Claim(r) \/ ToQuestions(r) \/ ToClosing(r)
  PROVE  ClaimInv'
<1>1. RequestsShaped /\ RequestsShaped'
  BY DEF Shaped
<1>2. Others(r) /\ pc'[r] \in {"produce", "join", "closing", "processing"}
  BY <1>1, AfterGoto DEF Claim, ToQuestions, ToClosing
<1>3. state \in PastClaim => state' = state
  <2>1. CASE Claim(r)
    BY <2>1, PastClaimStates DEF Claim, ClaimInv, StandsAsRead
  <2>2. CASE ToQuestions(r) \/ ToClosing(r)
    BY <2>2, PastClaimStates DEF ToQuestions, ToClosing, Walk
  <2> QED BY <2>1, <2>2
<1>4. assessments' = assessments
  BY DEF Claim, ToQuestions, ToClosing
<1> QED BY <1>1, <1>2, <1>3, <1>4, ClaimKept

(* The unconditional writes all set a state past the claim.                *)
LEMMA ClaimById ==
  ASSUME Shaped, ClaimInv, Shaped', NEW r \in Reqs,
         WithdrawWrite(r) \/ Ready(r) \/ ReleaseWrite(r)
  PROVE  ClaimInv'
<1>1. RequestsShaped /\ RequestsShaped'
  BY DEF Shaped
<1>2. Others(r) /\ pc'[r] = "idle"
  BY <1>1, AfterFinish DEF WithdrawWrite, Ready, ReleaseWrite
<1>3. state \in PastClaim => state' \in PastClaim
  BY PastClaimStates DEF WithdrawWrite, Ready, ReleaseWrite
<1>4. assessments' = assessments
  BY DEF WithdrawWrite, Ready, ReleaseWrite
<1> QED BY <1>1, <1>2, <1>3, <1>4, ClaimKept

(* Taking the claim: the state was CLOSING, so nobody holds it yet and     *)
(* nothing is stored.                                                      *)
LEMMA ClaimTaken ==
  ASSUME Shaped, ClaimInv, Shaped', NEW r \in Reqs, ToProcessing(r)
  PROVE  ClaimInv'
<1>1. RequestsShaped /\ RequestsShaped' /\ assessments' = assessments
  BY DEF Shaped, ToProcessing
<1>2. CASE state = "CLOSING"
  <2>1. Others(r) /\ pc'[r] = "evaluate" /\ state' = "PROCESSING"
    BY <1>1, <1>2, AfterGoto DEF ToProcessing, Walk
  <2>2. Finalisers = {} /\ assessments = <<>>
    BY <1>2, PastClaimStates DEF ClaimInv
  <2>3. Finalisers' \subseteq {r}
    BY <2>1, <2>2 DEF Finalisers, Others
  <2>4. state' \in PastClaim
    BY <2>1, PastClaimStates
  <2>5. \A q \in Reqs : pc'[q] = "claim" => saw'[q].state \in StartableStates
    BY <2>1 DEF ClaimInv, Others
  <2> QED BY <1>1, <2>2, <2>3, <2>4, <2>5 DEF ClaimInv, OneAssessment
<1>3. CASE state # "CLOSING"
  <2>1. Others(r) /\ pc'[r] = "idle" /\ state' = state
    BY <1>1, <1>3, AfterFinish DEF ToProcessing, Walk
  <2> QED BY <1>1, <2>1, ClaimKept
<1> QED BY <1>2, <1>3

(* Storing: the request that stores is the only one with a claim, and      *)
(* gives it up by storing.                                                 *)
LEMMA ClaimStored ==
  ASSUME Shaped, ClaimInv, Shaped', NEW r \in Reqs, Store(r)
  PROVE  ClaimInv'
<1>1. RequestsShaped /\ state' = state
  BY DEF Shaped, Store, rowVars
<1>2. Others(r) /\ pc'[r] = "burn"
  BY <1>1, AfterGoto DEF Store
<1>3. r \in Finalisers
  BY DEF Store, Finalisers
<1>4. assessments = <<>> /\ state \in PastClaim
  BY <1>3 DEF ClaimInv
<1>5. Finalisers' = {}
  BY <1>2, <1>3 DEF ClaimInv, Finalisers, Others
<1>6. Len(assessments') = 1
  BY <1>4 DEF Store
<1>7. \A q \in Reqs : pc'[q] = "claim" => saw'[q].state \in StartableStates
  BY <1>2 DEF ClaimInv, Others
<1> QED BY <1>1, <1>4, <1>5, <1>6, <1>7 DEF ClaimInv, OneAssessment

(* The steps that write neither the state nor an assessment: no claim is   *)
(* taken by them, and no ending is decided except by WithdrawRead.         *)
LEMMA Elsewhere ==
  ASSUME Shaped, NEW r \in Reqs,
         \/ \E o \in Ops : Arrive(r, o)
         \/ Load(r) \/ StartRead(r) \/ Resume(r)
         \/ Join(r) \/ JoinRead(r) \/ JoinCurrent(r)
         \/ AnswerRead(r) \/ Record(r) \/ ContinueRead(r)
         \/ Produce(r) \/ Say(r) \/ Current(r) \/ Outcome(r)
         \/ WithdrawRead(r) \/ HandoffRead(r) \/ FinalizeLoad(r) \/ FinalizeRead(r)
         \/ Evaluate(r) \/ Burn(r) \/ FinalizeThrows(r) \/ ReleaseRead(r) \/ Abandon(r)
  PROVE  /\ state' = state /\ human' = human /\ assessments' = assessments
         /\ Others(r)
         /\ pc'[r] \in {"evaluate", "store"} => pc[r] \in {"evaluate", "store"}
         /\ pc'[r] = "claim" => saw'[r].state \in StartableStates
         /\ pc'[r] \in {"handoffRead", "withdrawWrite"} => WithdrawRead(r) \/ HandoffRead(r)
<1>1. RequestsShaped /\ saw[r] \in Reading
  BY DEF Shaped, RequestsShaped
<1>2. state' = state /\ human' = human /\ assessments' = assessments
  BY DEF Arrive, Load, StartRead, Resume, Join, JoinRead, JoinCurrent, AnswerRead, Record,
         ContinueRead, Produce, Say, Current, Outcome, WithdrawRead, HandoffRead, FinalizeLoad,
         FinalizeRead, Evaluate, Burn, FinalizeThrows, ReleaseRead, Abandon, rowVars
<1>3. /\ Others(r)
      /\ pc'[r] \in {"evaluate", "store"} => pc[r] \in {"evaluate", "store"}
      /\ pc'[r] = "claim" => saw'[r].state \in StartableStates
      /\ pc'[r] \in {"handoffRead", "withdrawWrite"} => WithdrawRead(r) \/ HandoffRead(r)
  <2>1. CASE \E o \in Ops : Arrive(r, o)
    <3>1. Others(r) /\ pc'[r] \in {"finLoad", "load"}
      BY <2>1, <1>1 DEF Arrive, Others, Note, RequestsShaped
    <3> QED BY <3>1
  <2>2. CASE StartRead(r)
    <3>1. CASE Finish(r)
      BY <3>1, <1>1, AfterFinish
    <3>2. CASE /\ Goto(r, "resume")
               /\ Note(r, [saw[r] EXCEPT !.tail = Len(turns)])
      BY <3>2, <1>1, AfterGoto
    <3>3. CASE /\ Goto(r, "claim") /\ saw[r].state \in StartableStates
               /\ Note(r, [saw[r] EXCEPT !.tail = Len(turns)])
      <4>1. saw'[r].state = saw[r].state
        BY <3>3, <1>1 DEF Note, RequestsShaped, Reading
      <4> QED BY <3>3, <4>1, <1>1, AfterGoto
    <3> QED BY <2>2, <3>1, <3>2, <3>3 DEF StartRead, MayStart
  <2>3. CASE \/ Load(r) \/ Resume(r) \/ Join(r) \/ JoinRead(r) \/ JoinCurrent(r)
             \/ AnswerRead(r) \/ Record(r) \/ ContinueRead(r) \/ Produce(r)
    <3>1. Others(r) /\ pc'[r] \in {"read", "produce", "joinRead", "joinCurrent", "record",
                                   "say", "current", "idle"}
      BY <2>3, <1>1, AfterGoto, AfterFinish
      DEF Load, Resume, Join, JoinRead, JoinCurrent, AnswerRead, Record, ContinueRead, Produce
    <3> QED BY <3>1
  <2>4. CASE Say(r) \/ Current(r) \/ Outcome(r)
    <3>1. Others(r) /\ pc'[r] \in {"withdraw", "finLoad", "idle", "current", "outcome"}
      BY <2>4, <1>1, AfterGoto, AfterFinish, AfterSettle DEF Say, Current, Outcome
    <3> QED BY <3>1
  <2>5. CASE \/ FinalizeLoad(r) \/ FinalizeRead(r)
             \/ FinalizeThrows(r) \/ ReleaseRead(r) \/ Abandon(r) \/ Burn(r)
    <3>1. Others(r) /\ pc'[r] \in {"finRead", "questions", "release",
                                   "releaseWrite", "ready", "idle"}
      BY <2>5, <1>1, AfterGoto, AfterFinish
      DEF FinalizeLoad, FinalizeRead, FinalizeThrows, ReleaseRead, Abandon, Burn
    <3> QED BY <3>1
  <2>6. CASE Evaluate(r)
    BY <2>6, <1>1, AfterGoto DEF Evaluate
  <2>7. CASE WithdrawRead(r) \/ HandoffRead(r)
    BY <2>7, <1>1, AfterGoto, AfterFinish DEF WithdrawRead, HandoffRead
  <2> QED BY <2>1, <2>2, <2>3, <2>4, <2>5, <2>6, <2>7
<1> QED BY <1>2, <1>3

LEMMA ClaimStep == Shaped /\ ClaimInv /\ Shaped' /\ [EngineNext]_vars => ClaimInv'
<1> SUFFICES ASSUME Shaped, ClaimInv, Shaped', [EngineNext]_vars PROVE ClaimInv'
  OBVIOUS
<1>1. CASE EngineNext
  BY <1>1, ClaimGuarded, ClaimById, ClaimTaken, ClaimStored, Elsewhere, ClaimKept
  DEF EngineNext, Step, Shaped
<1>2. CASE UNCHANGED vars
  BY <1>2 DEF vars, ClaimInv, Finalisers, OneAssessment
<1> QED BY <1>1, <1>2

(* However many requests finalise an interview, and however each of them   *)
(* ends, at most one assessment of it is ever stored.                      *)
THEOREM AtMostOneAssessment == EngineSpec => []OneAssessment
<1>1. EngineInit => ClaimInv
  BY ClaimInit
<1>2. Shaped /\ ClaimInv /\ Shaped' /\ [EngineNext]_vars => ClaimInv'
  BY ClaimStep
<1>3. ClaimInv => OneAssessment
  BY DEF ClaimInv
<1> QED BY <1>1, <1>2, <1>3, AlwaysShaped, PTL DEF EngineSpec

----
(* A request for a person and a score exclude each other.                  *)

(* A handoff may be written over these states only, and no finalisation    *)
(* has claimed any of them.                                                *)
LEMMA HandoffSources ==
  ASSUME state \notin AlreadyClosedStates, CanTransition(state, "MANUAL_HANDOFF")
  PROVE  state \notin PastClaim
<1>1. state \in {"DISCLOSURE", "WARMUP", "ASSESSING", "CANDIDATE_QUESTIONS", "POLICY_STOP"}
  BY SMTT(60) DEF CanTransition, Forward
<1> QED BY <1>1, PastClaimStates DEF AlreadyClosedStates, StartableStates

LEMMA RequestInit == EngineInit => RequestInv
BY DEF EngineInit, RequestInv

(* A step that queues nobody, takes no claim and stores nothing.           *)
LEMMA RequestKept ==
  ASSUME Shaped, RequestInv, NEW r \in Reqs, Others(r),
         human' = human, assessments' = assessments,
         state \in PastClaim => state' \in PastClaim,
         human /\ pc'[r] \in {"evaluate", "store"} => pc[r] \in {"evaluate", "store"},
         pc'[r] \in {"handoffRead", "withdrawWrite"} /\ saw'[r].ending = "handoff" =>
             saw'[r].state \notin PastClaim
  PROVE  RequestInv'
<1>1. human => Finalisers' \subseteq Finalisers
  BY DEF Finalisers, Others
<1>2. \A q \in Reqs :
        pc'[q] \in {"handoffRead", "withdrawWrite"} /\ saw'[q].ending = "handoff" =>
            saw'[q].state \notin PastClaim
  BY DEF RequestInv, Others
<1> QED BY <1>1, <1>2 DEF RequestInv, PastClaim

(* Deciding on an ending: a handoff is refused from a claimed state.       *)
LEMMA RequestRead ==
  ASSUME Shaped, RequestInv, NEW r \in Reqs, WithdrawRead(r)
  PROVE  RequestInv'
<1>1. RequestsShaped /\ saw[r] \in Reading
  BY DEF Shaped, RequestsShaped
<1>2. state' = state /\ human' = human /\ assessments' = assessments
  BY DEF WithdrawRead, HandoffRead, rowVars
<1>3. CASE Finish(r)
  BY <1>1, <1>2, <1>3, AfterFinish, RequestKept
<1>4. CASE /\ \E l \in {"handoffRead", "withdrawWrite"} : Goto(r, l)
           /\ Note(r, [saw[r] EXCEPT !.state = state])
           /\ state \notin AlreadyClosedStates
           /\ saw[r].ending = "handoff" => CanTransition(state, "MANUAL_HANDOFF")
  <2>1. Others(r) /\ pc'[r] \in {"handoffRead", "withdrawWrite"}
    BY <1>1, <1>4, AfterGoto
  <2>2. saw'[r].ending = saw[r].ending /\ saw'[r].state = state
    BY <1>1, <1>4 DEF Note, RequestsShaped, Reading
  <2>3. saw'[r].ending = "handoff" => saw'[r].state \notin PastClaim
    BY <1>4, <2>2, HandoffSources
  <2> QED BY <1>2, <2>1, <2>3, RequestKept
<1> QED BY <1>3, <1>4 DEF WithdrawRead

(* Loading the consent of a handoff: what was decided stands.              *)
LEMMA RequestLoad ==
  ASSUME Shaped, RequestInv, NEW r \in Reqs, HandoffRead(r)
  PROVE  RequestInv'
<1>1. RequestsShaped /\ saw[r] \in Reading
  BY DEF Shaped, RequestsShaped
<1>2. state' = state /\ human' = human /\ assessments' = assessments
  BY DEF HandoffRead, rowVars
<1>3. Others(r) /\ pc'[r] = "withdrawWrite"
  BY <1>1, AfterGoto DEF HandoffRead
<1>4. saw'[r].ending = saw[r].ending /\ saw'[r].state = saw[r].state
  BY <1>1 DEF HandoffRead, Note, RequestsShaped, Reading
<1>5. saw'[r].ending = "handoff" => saw'[r].state \notin PastClaim
  BY <1>4 DEF HandoffRead, RequestInv
<1> QED BY <1>2, <1>3, <1>5, RequestKept

(* Writing the ending: the handoff's statement finds the state it read, so *)
(* nothing has claimed the interview, and leaves one nothing can claim.    *)
LEMMA RequestWrite ==
  ASSUME Shaped, ClaimInv, RequestInv, NEW r \in Reqs, WithdrawWrite(r)
  PROVE  RequestInv'
<1>1. Others(r) /\ pc'[r] = "idle" /\ assessments' = assessments
  BY AfterFinish DEF Shaped, WithdrawWrite
<1>2. CASE saw[r].ending = "handoff" /\ StandsAsRead(r)
  <2>1. state \notin PastClaim
    BY <1>2 DEF WithdrawWrite, RequestInv, StandsAsRead
  <2>2. Finalisers = {} /\ assessments = <<>>
    BY <2>1 DEF ClaimInv
  <2>3. state' = "MANUAL_HANDOFF"
    BY <1>2 DEF WithdrawWrite
  <2>4. Finalisers' = {}
    BY <1>1, <2>2 DEF Finalisers, Others
  <2>5. state' \in PastClaim
    BY <2>3, PastClaimStates
  <2> QED BY <1>1, <2>2, <2>4, <2>5 DEF RequestInv, Others, PastClaim
<1>3. CASE ~(saw[r].ending = "handoff" /\ StandsAsRead(r))
  <2>1. human' = human
    BY <1>3 DEF WithdrawWrite, Shaped, RowsOK
  <2>2. state \in PastClaim => state' \in PastClaim
    BY PastClaimStates DEF WithdrawWrite
  <2> QED BY <1>1, <2>1, <2>2, RequestKept
<1> QED BY <1>2, <1>3

(* The steps of a finalisation and of a start that write the state.        *)
LEMMA RequestFinalise ==
  ASSUME Shaped, ClaimInv, RequestInv, NEW r \in Reqs,
         \/ Claim(r) \/ ToQuestions(r) \/ ToClosing(r) \/ ToProcessing(r) \/ Store(r)
         \/ Ready(r) \/ ReleaseWrite(r)
  PROVE  RequestInv'
<1>1. RequestsShaped
  BY DEF Shaped
<1>2. CASE Store(r)
  <2>1. ~human
    BY <1>2 DEF Store, RequestInv, Finalisers
  <2>2. human' = human /\ Others(r) /\ pc'[r] = "burn"
    BY <1>1, <1>2, AfterGoto DEF Store, rowVars
  <2> QED BY <2>1, <2>2 DEF RequestInv, Others
<1>3. CASE ToProcessing(r)
  <2>1. Others(r) /\ pc'[r] \in {"evaluate", "idle"} /\ human' = human /\ assessments' = assessments
    BY <1>1, <1>3, AfterGoto, AfterFinish DEF ToProcessing
  <2>2. human => state' = state /\ pc'[r] = "idle"
    BY <1>1, <1>3, PastClaimStates, AfterFinish DEF ToProcessing, Walk, RequestInv
  <2>3. state \in PastClaim => state' \in PastClaim
    BY <1>3, PastClaimStates DEF ToProcessing, Walk
  <2> QED BY <2>1, <2>2, <2>3, RequestKept
<1>4. CASE Claim(r) \/ ToQuestions(r) \/ ToClosing(r)
  <2>1. Others(r) /\ pc'[r] \in {"produce", "join", "closing", "processing"}
    BY <1>1, <1>4, AfterGoto DEF Claim, ToQuestions, ToClosing
  <2>2. human' = human /\ assessments' = assessments
    BY <1>4 DEF Claim, ToQuestions, ToClosing
  <2>3. state \in PastClaim => state' = state
    BY <1>4, PastClaimStates DEF Claim, ClaimInv, StandsAsRead, ToQuestions, ToClosing, Walk
  <2> QED BY <2>1, <2>2, <2>3, RequestKept
<1>5. CASE Ready(r) \/ ReleaseWrite(r)
  <2>1. Others(r) /\ pc'[r] = "idle" /\ human' = human /\ assessments' = assessments
    BY <1>1, <1>5, AfterFinish DEF Ready, ReleaseWrite
  <2>2. state' \in PastClaim
    BY <1>5, PastClaimStates DEF Ready, ReleaseWrite
  <2> QED BY <2>1, <2>2, RequestKept
<1> QED BY <1>2, <1>3, <1>4, <1>5

LEMMA RequestStep ==
  Shaped /\ ClaimInv /\ RequestInv /\ [EngineNext]_vars => RequestInv'
<1> SUFFICES ASSUME Shaped, ClaimInv, RequestInv, [EngineNext]_vars PROVE RequestInv'
  OBVIOUS
<1>1. CASE EngineNext
  <2>1. PICK r \in Reqs :
          (\E o \in Ops : Arrive(r, o)) \/ Step(r) \/ FinalizeThrows(r) \/ Abandon(r)
    BY <1>1 DEF EngineNext
  <2>2. CASE \/ Claim(r) \/ ToQuestions(r) \/ ToClosing(r) \/ ToProcessing(r) \/ Store(r)
             \/ Ready(r) \/ ReleaseWrite(r)
    BY <2>2, RequestFinalise
  <2>3. CASE WithdrawRead(r) \/ HandoffRead(r) \/ WithdrawWrite(r)
    BY <2>3, RequestRead, RequestLoad, RequestWrite
  <2>4. CASE \/ \E o \in Ops : Arrive(r, o)
             \/ Load(r) \/ StartRead(r) \/ Resume(r)
             \/ Join(r) \/ JoinRead(r) \/ JoinCurrent(r)
             \/ AnswerRead(r) \/ Record(r) \/ ContinueRead(r)
             \/ Produce(r) \/ Say(r) \/ Current(r) \/ Outcome(r)
             \/ FinalizeLoad(r) \/ FinalizeRead(r)
             \/ Evaluate(r) \/ Burn(r) \/ FinalizeThrows(r) \/ ReleaseRead(r) \/ Abandon(r)
    <3>1. CASE WithdrawRead(r) \/ HandoffRead(r)
      BY <3>1, RequestRead, RequestLoad
    <3>2. CASE ~(WithdrawRead(r) \/ HandoffRead(r))
      BY <2>4, <3>2, Elsewhere, RequestKept
    <3> QED BY <3>1, <3>2
  <2> QED BY <2>1, <2>2, <2>3, <2>4 DEF Step
<1>2. CASE UNCHANGED vars
  BY <1>2 DEF vars, RequestInv, Finalisers
<1> QED BY <1>1, <1>2

(* No candidate is both in the hiring team's queue for a person and        *)
(* scored, whichever of the handoff and the finalisation came first.       *)
THEOREM RequestOrScore == EngineSpec => []RequestExcludesScore
<1>1. RequestInv => RequestExcludesScore
  BY DEF RequestInv, RequestExcludesScore
<1> QED BY <1>1, RequestInit, RequestStep, ClaimInit, ClaimStep, AlwaysShaped, PTL DEF EngineSpec

----
(* Ready for review means complete.                                        *)

LEMMA CompleteInit == EngineInit => CompleteInv
<1> SUFFICES ASSUME EngineInit PROVE CompleteInv
  OBVIOUS
<1>1. \A r \in Reqs : pc[r] = "idle"
  BY DEF EngineInit
<1>2. state # "REVIEW_READY"
  BY FirstStatesAssumption DEF EngineInit, StartableStates
<1> QED BY <1>1, <1>2 DEF CompleteInv, ReviewReadyIsComplete

(* A step that neither stores, burns the link nor announces.               *)
LEMMA CompleteKept ==
  ASSUME Shaped, CompleteInv, NEW r \in Reqs, Others(r),
         pc'[r] \notin {"burn", "ready"},
         assessments' = assessments, invitation' = invitation,
         state' = "REVIEW_READY" => state = "REVIEW_READY"
  PROVE  CompleteInv'
<1>1. \A q \in Reqs : pc'[q] \in {"burn", "ready"} => pc'[q] = pc[q]
  BY DEF Others
<1> QED BY <1>1 DEF CompleteInv, ReviewReadyIsComplete

LEMMA CompleteStores ==
  ASSUME Shaped, CompleteInv, NEW r \in Reqs, Store(r) \/ Burn(r) \/ Ready(r)
  PROVE  CompleteInv'
<1>1. RequestsShaped
  BY DEF Shaped
<1>2. CASE Store(r)
  <2>1. Others(r) /\ pc'[r] = "burn" /\ state' = state /\ invitation' = invitation
    BY <1>1, <1>2, AfterGoto DEF Store, rowVars
  <2>2. assessments' # <<>>
    <3>1. assessments \in Seq([upto : Nat])
      BY DEF Shaped, RowsOK
    <3>2. \A v : Append(assessments, v) # <<>>
      BY <3>1, Len(assessments) \in Nat
    <3> QED BY <1>2, <3>2 DEF Store
  <2> QED BY <2>1, <2>2 DEF CompleteInv, ReviewReadyIsComplete, Others
<1>3. CASE Burn(r)
  <2>1. /\ Others(r) /\ pc'[r] = "ready" /\ state' = state /\ assessments' = assessments
        /\ invitation' \in {"none", "consumed"} /\ pc[r] = "burn"
    BY <1>1, <1>3, AfterGoto DEF Burn
  <2> QED BY <2>1 DEF CompleteInv, ReviewReadyIsComplete, Others
<1>4. CASE Ready(r)
  <2>1. /\ Others(r) /\ pc'[r] = "idle" /\ assessments' = assessments
        /\ invitation' = invitation /\ pc[r] = "ready"
    BY <1>1, <1>4, AfterFinish DEF Ready
  <2> QED BY <2>1 DEF CompleteInv, ReviewReadyIsComplete, Others
<1> QED BY <1>2, <1>3, <1>4

LEMMA CompleteElsewhere ==
  ASSUME Shaped, CompleteInv, NEW r \in Reqs,
         (\E o \in Ops : Arrive(r, o)) \/ Step(r) \/ FinalizeThrows(r) \/ Abandon(r),
         ~Store(r), ~Burn(r), ~Ready(r)
  PROVE  CompleteInv'
<1>1. RequestsShaped
  BY DEF Shaped
<1>2. assessments' = assessments /\ invitation' = invitation
  BY DEF Step, Arrive, Load, StartRead, Resume, Claim, Join, JoinRead, JoinCurrent, AnswerRead,
         Record, ContinueRead, Produce, Say, Current, Outcome, WithdrawRead, HandoffRead,
         WithdrawWrite, FinalizeLoad, FinalizeRead, ToQuestions, ToClosing, ToProcessing,
         Evaluate, FinalizeThrows, ReleaseRead, ReleaseWrite, Abandon, rowVars
<1>3. state' = "REVIEW_READY" => state = "REVIEW_READY"
  BY DEF Step, Arrive, Load, StartRead, Resume, Claim, Join, JoinRead, JoinCurrent, AnswerRead,
         Record, ContinueRead, Produce, Say, Current, Outcome, WithdrawRead, HandoffRead,
         WithdrawWrite, FinalizeLoad, FinalizeRead, ToQuestions, ToClosing, ToProcessing,
         Evaluate, FinalizeThrows, ReleaseRead, ReleaseWrite, Abandon, Walk, rowVars
<1>4. Others(r) /\ pc'[r] \notin {"burn", "ready"}
  <2>1. CASE \E o \in Ops : Arrive(r, o)
    <3>1. Others(r) /\ pc'[r] \in {"finLoad", "load"}
      BY <2>1, <1>1 DEF Arrive, Others, Note, RequestsShaped
    <3> QED BY <3>1
  <2>2. CASE \/ Load(r) \/ StartRead(r) \/ Resume(r) \/ Claim(r) \/ Join(r) \/ JoinRead(r)
             \/ JoinCurrent(r) \/ AnswerRead(r) \/ Record(r) \/ ContinueRead(r) \/ Produce(r)
    <3>1. Others(r) /\ pc'[r] \in {"read", "resume", "claim", "join", "produce", "joinRead",
                                   "joinCurrent", "record", "say", "current", "idle"}
      BY <2>2, <1>1, AfterGoto, AfterFinish
      DEF Load, StartRead, Resume, Claim, Join, JoinRead, JoinCurrent, AnswerRead, Record,
          ContinueRead, Produce
    <3> QED BY <3>1
  <2>3. CASE Say(r) \/ Current(r) \/ Outcome(r)
    <3>1. Others(r) /\ pc'[r] \in {"withdraw", "finLoad", "idle", "current", "outcome"}
      BY <2>3, <1>1, AfterGoto, AfterFinish, AfterSettle DEF Say, Current, Outcome
    <3> QED BY <3>1
  <2>4. CASE \/ WithdrawRead(r) \/ HandoffRead(r) \/ WithdrawWrite(r) \/ FinalizeLoad(r)
             \/ FinalizeRead(r) \/ ToQuestions(r) \/ ToClosing(r) \/ ToProcessing(r)
             \/ Evaluate(r) \/ FinalizeThrows(r) \/ ReleaseRead(r) \/ ReleaseWrite(r)
             \/ Abandon(r)
    <3>1. Others(r) /\ pc'[r] \in {"handoffRead", "withdrawWrite", "finRead", "questions",
                                   "closing", "processing", "evaluate", "store", "release",
                                   "releaseWrite", "idle"}
      BY <2>4, <1>1, AfterGoto, AfterFinish
      DEF WithdrawRead, HandoffRead, WithdrawWrite, FinalizeLoad, FinalizeRead, ToQuestions,
          ToClosing, ToProcessing, Evaluate, FinalizeThrows, ReleaseRead, ReleaseWrite, Abandon
    <3> QED BY <3>1
  <2> QED BY <2>1, <2>2, <2>3, <2>4 DEF Step
<1> QED BY <1>2, <1>3, <1>4, CompleteKept

(* A session announced as ready for review has its assessment stored and   *)
(* its link spent, whatever failed on the way.                             *)
THEOREM ReviewReadyComplete == EngineSpec => []ReviewReadyIsComplete
<1>1. EngineInit => CompleteInv
  BY CompleteInit
<1>2. Shaped /\ CompleteInv /\ [EngineNext]_vars => CompleteInv'
  <2> SUFFICES ASSUME Shaped, CompleteInv, [EngineNext]_vars PROVE CompleteInv'
    OBVIOUS
  <2>1. CASE EngineNext
    BY <2>1, CompleteStores, CompleteElsewhere DEF EngineNext
  <2>2. CASE UNCHANGED vars
    BY <2>2 DEF vars, CompleteInv, ReviewReadyIsComplete
  <2> QED BY <2>1, <2>2
<1>3. CompleteInv => ReviewReadyIsComplete
  BY DEF CompleteInv
<1> QED BY <1>1, <1>2, <1>3, AlwaysShaped, PTL DEF EngineSpec

----
(* The engine keeps the promise of InterviewPromise.                       *)

LEMMA OpenInit == EngineInit => OpenInv
BY DEF EngineInit, OpenInv, Conducting, EnginePCs

(* No write of the engine makes an interview startable again.              *)
LEMMA NeverReopened ==
  ASSUME Shaped, NEW r \in Reqs,
         (\E o \in Ops : Arrive(r, o)) \/ Step(r) \/ FinalizeThrows(r) \/ Abandon(r),
         state' \in StartableStates
  PROVE  state' = state
BY DEF Step, Arrive, Load, StartRead, Resume, Claim, Join, JoinRead, JoinCurrent, AnswerRead,
       Record, ContinueRead, Produce, Say, Current, Outcome, WithdrawRead, HandoffRead,
       WithdrawWrite, FinalizeLoad, FinalizeRead, ToQuestions, ToClosing, ToProcessing, Evaluate,
       Store, Burn, Ready, FinalizeThrows, ReleaseRead, ReleaseWrite, Abandon, Walk, rowVars,
       StartableStates

LEMMA OpenStep ==
  ASSUME Shaped, OpenInv, NEW r \in Reqs,
         (\E o \in Ops : Arrive(r, o)) \/ Step(r) \/ FinalizeThrows(r) \/ Abandon(r)
  PROVE  OpenInv'
<1> SUFFICES ASSUME state' \in StartableStates
             PROVE  \A q \in Reqs :
                      /\ pc'[q] \notin Conducting
                      /\ pc'[q] \in {"read", "finRead"} => saw'[q].state \in StartableStates
  BY DEF OpenInv
<1>1. RequestsShaped /\ state' = state /\ state \in StartableStates /\ saw[r] \in Reading
  BY NeverReopened DEF Shaped, RequestsShaped
<1>2. pc[r] \notin Conducting
  BY <1>1 DEF OpenInv
<1>3. pc[r] \in {"read", "finRead"} =>
        saw[r].state \in StartableStates /\ saw[r].state \notin FinalizableStates \cup LiveStates
  BY <1>1 DEF OpenInv, StartableStates, FinalizableStates, LiveStates
<1>4. ~Live
  BY <1>1 DEF Live, StartableStates, LiveStates
<1>5. /\ Others(r) /\ pc'[r] \notin Conducting
      /\ pc'[r] \in {"read", "finRead"} => saw'[r].state \in StartableStates
  <2>1. CASE \E o \in Ops : Arrive(r, o)
    <3>1. Others(r) /\ pc'[r] \in {"finLoad", "load"}
      BY <2>1, <1>1 DEF Arrive, Others, Note, RequestsShaped
    <3> QED BY <3>1 DEF Conducting
  <2>2. CASE Load(r) \/ FinalizeLoad(r)
    <3>1. Others(r) /\ pc'[r] \in {"read", "finRead"}
      BY <2>2, <1>1, AfterGoto DEF Load, FinalizeLoad
    <3>2. saw'[r].state = state
      BY <2>2, <1>1 DEF Load, FinalizeLoad, Note, RequestsShaped, Reading
    <3> QED BY <3>1, <3>2, <1>1 DEF Conducting
  <2>3. CASE StartRead(r)
    <3>1. Finish(r) \/ (Goto(r, "claim") /\ \E what : Note(r, what))
      BY <2>3, <1>3 DEF StartRead
    <3> QED BY <3>1, <1>1, AfterGoto, AfterFinish DEF Conducting
  <2>4. CASE AnswerRead(r) \/ ContinueRead(r) \/ FinalizeRead(r) \/ Join(r)
    <3>1. Finish(r)
      BY <2>4, <1>3, <1>4 DEF AnswerRead, ContinueRead, FinalizeRead, Join
    <3> QED BY <3>1, <1>1, AfterFinish DEF Conducting
  <2>5. CASE Claim(r)
    <3>1. Goto(r, "join") /\ UNCHANGED saw
      BY <2>5, <1>1 DEF Claim, StartableStates
    <3> QED BY <3>1, <1>1, AfterGoto DEF Conducting
  <2>6. CASE Abandon(r)
    BY <2>6, <1>1, AfterFinish DEF Abandon, Conducting
  <2> QED BY <1>2, <2>1, <2>2, <2>3, <2>4, <2>5, <2>6
      DEF Conducting, EnginePCs, Step, Resume, JoinRead, JoinCurrent, Record, Produce, Say,
          Current, Outcome, WithdrawRead, HandoffRead, WithdrawWrite, ToQuestions, ToClosing,
          ToProcessing, Evaluate, Store, Burn, Ready, FinalizeThrows, ReleaseRead, ReleaseWrite
<1> QED BY <1>1, <1>5 DEF OpenInv, Others

(* The stage of a session, by its state.                                   *)
LEMMA StageIs ==
  ASSUME state \in States
  PROVE  /\ state \in StartableStates <=> Stage = "open"
         /\ state \in LiveStates <=> Stage = "live"
         /\ state = "CLOSING" <=> Stage = "closing"
         /\ state \in PastClaim <=> Stage = "over"
         /\ Stage \in {"open", "live", "closing", "over"}
BY DEF Stage, PastClaim, StartableStates, LiveStates

LEMMA PromiseStep ==
  ASSUME Shaped, Shaped', ClaimInv, OpenInv, NEW r \in Reqs,
         (\E o \in Ops : Arrive(r, o)) \/ Step(r) \/ FinalizeThrows(r) \/ Abandon(r)
  PROVE  [Promise!Next]_<<Stage, Len(assessments)>>
<1>1. state \in States /\ state' \in States
  BY DEF Shaped, RowsOK
<1>2. CASE Claim(r) \/ ToQuestions(r) \/ ToClosing(r) \/ ToProcessing(r)
  <2>1. Len(assessments') = Len(assessments)
    BY <1>2 DEF Claim, ToQuestions, ToClosing, ToProcessing
  <2>2. CASE state' = state
    BY <2>1, <2>2 DEF Stage
  <2>3. CASE state \in StartableStates /\ state' = "ASSESSING"
    <3>1. Stage = "open" /\ Stage' = "live"
      BY <2>3 DEF Stage, StartableStates, LiveStates
    <3> QED BY <3>1, <2>1 DEF Promise!Next, Promise!Begin
  <2>4. CASE state = "ASSESSING" /\ state' = "CANDIDATE_QUESTIONS"
    <3>1. Stage = "live" /\ Stage' = "live"
      BY <2>4 DEF Stage, StartableStates, LiveStates
    <3> QED BY <3>1, <2>1
  <2>5. CASE state = "CANDIDATE_QUESTIONS" /\ state' = "CLOSING"
    <3>1. Stage = "live" /\ Stage' = "closing"
      BY <2>5 DEF Stage, StartableStates, LiveStates
    <3> QED BY <3>1, <2>1 DEF Promise!Next, Promise!Close
  <2>6. CASE state = "CLOSING" /\ state' = "PROCESSING"
    <3>1. Stage = "closing" /\ Stage' = "over"
      BY <2>6 DEF Stage, StartableStates, LiveStates
    <3> QED BY <3>1, <2>1 DEF Promise!Next, Promise!End
  <2> QED BY <1>2, <2>2, <2>3, <2>4, <2>5, <2>6
      DEF Claim, ToQuestions, ToClosing, ToProcessing, Walk, StandsAsRead, ClaimInv
<1>3. CASE WithdrawWrite(r) \/ Ready(r) \/ ReleaseWrite(r)
  <2>1. Len(assessments') = Len(assessments)
    BY <1>3 DEF WithdrawWrite, Ready, ReleaseWrite
  <2>2. state \notin StartableStates
    BY <1>3 DEF WithdrawWrite, Ready, ReleaseWrite, OpenInv, Conducting, EnginePCs
  <2>3. state' = state \/ state' \in PastClaim
    BY <1>3, PastClaimStates DEF WithdrawWrite, Ready, ReleaseWrite
  <2>4. CASE state' = state
    BY <2>1, <2>4 DEF Stage
  <2>5. CASE state' \in PastClaim
    <3>1. Stage' = "over"
      BY <2>5 DEF Stage, PastClaim
    <3>2. Stage \in {"live", "closing", "over"}
      BY <1>1, <2>2, StageIs
    <3> QED BY <3>1, <3>2, <2>1 DEF Promise!Next, Promise!End
  <2> QED BY <2>3, <2>4, <2>5
<1>4. CASE Store(r)
  <2>1. r \in Finalisers
    BY <1>4 DEF Store, Finalisers
  <2>2. assessments = <<>> /\ state \in PastClaim
    BY <2>1 DEF ClaimInv
  <2>3. Len(assessments) = 0 /\ Len(assessments') = 1
    BY <1>4, <2>2 DEF Store
  <2>4. Stage = "over" /\ Stage' = Stage
    BY <1>4, <1>1, <2>2, StageIs DEF Store, rowVars, Stage
  <2> QED BY <2>3, <2>4 DEF Promise!Next, Promise!Score
<1>5. CASE UNCHANGED <<state, assessments>>
  BY <1>5 DEF Stage
<1> QED BY <1>2, <1>3, <1>4, <1>5
    DEF Step, Arrive, Load, StartRead, Resume, Join, JoinRead, JoinCurrent, AnswerRead, Record,
        ContinueRead, Produce, Say, Current, Outcome, WithdrawRead, HandoffRead, FinalizeLoad,
        FinalizeRead, Evaluate, Burn, FinalizeThrows, ReleaseRead, Abandon, rowVars

(* The engine implements InterviewPromise: its steps open an interview     *)
(* once, close it once, and score it at most once, after it was closed.    *)
THEOREM EngineKeepsPromise == EngineSpec => KeepsPromise
<1>1. EngineInit => Promise!Init
  <2> SUFFICES ASSUME EngineInit PROVE Promise!Init
    OBVIOUS
  <2>1. state \in StartableStates /\ Len(assessments) = 0
    BY FirstStatesAssumption DEF EngineInit
  <2>2. state \in States
    BY TypeInit DEF TypeOK, RowsOK
  <2>3. Stage = "open"
    BY <2>1, <2>2, StageIs
  <2> QED BY <2>1, <2>3 DEF Promise!Init
<1>2. Shaped /\ OpenInv /\ [EngineNext]_vars => OpenInv'
  <2> SUFFICES ASSUME Shaped, OpenInv, [EngineNext]_vars PROVE OpenInv'
    OBVIOUS
  <2>1. CASE EngineNext
    BY <2>1, OpenStep DEF EngineNext
  <2>2. CASE UNCHANGED vars
    BY <2>2 DEF vars, OpenInv
  <2> QED BY <2>1, <2>2
<1>3. /\ Shaped /\ Shaped' /\ ClaimInv /\ OpenInv /\ [EngineNext]_vars
      => [Promise!Next]_<<Stage, Len(assessments)>>
  <2> SUFFICES ASSUME Shaped, Shaped', ClaimInv, OpenInv, [EngineNext]_vars
               PROVE  [Promise!Next]_<<Stage, Len(assessments)>>
    OBVIOUS
  <2>1. CASE EngineNext
    BY <2>1, PromiseStep DEF EngineNext
  <2>2. CASE UNCHANGED vars
    BY <2>2 DEF vars, Stage
  <2> QED BY <2>1, <2>2
<1> QED BY <1>1, <1>2, <1>3, AlwaysShaped, ClaimInit, ClaimStep, OpenInit, PTL
    DEF EngineSpec, KeepsPromise, Promise!Spec, Promise!promiseVars

====
