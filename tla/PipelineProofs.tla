---- MODULE PipelineProofs ----
(***************************************************************************)
(* What holds of Pipeline for every plan, every number of acts, of copies  *)
(* of their requests and of uploads, and every number of retries.          *)
(***************************************************************************)
EXTENDS Pipeline, WellFoundedInduction, TLAPS

(* What a request, and an upload, may be at any time.                      *)
PCs == InFlight \cup {"unsent", "answered", "refused"}
Requests == [pc : PCs, act : Acts \cup {"none"}, at : 0 .. LastStage,
             owed : SUBSET Interviews, missing : BOOLEAN,
             prev : Reviews \cup {"none"}, tries : 0 .. Retries]
UploadStates == [pc : {"waiting", "stored", "apply", "done"}, at : 0 .. LastStage, tries : 0 .. Retries]
Rows == [status : {"NONE", "ACTIVE", "DECIDED"}, at : 0 .. LastStage,
         decision : {"none", "APPROVED", "REJECTED", "WITHDRAWN"}, decidedAt : 0 .. LastStage]
Wants == [op : {"none", "advance", "finalize", "decide", "review"},
          outcome : {"none", "APPROVED", "REJECTED", "WITHDRAWN"},
          stage : 0 .. LastStage, on : Interviews \cup {"none"}, supersede : BOOLEAN]

----
(* The inductive invariant: TypeOK and, beyond it,                         *)

(* an undecided row holds nothing of a decision;                           *)
RowOK == pipeline.decision = "none" => pipeline.decidedAt = 0

(* an act asks for what its page can send;                                 *)
AsksForPress(w) ==
    /\ w.op \in {"advance", "finalize", "decide"}
    /\ w.op = "decide" => w.outcome # "none"
    /\ w.stage \in Stages

AsksForReview(w) ==
    w.op = "review" /\ w.outcome # "WITHDRAWN" /\ w.on \in Interviews

WantsOK ==
    \A a \in Acts : want[a] # NoWant =>
        (a \in Presses /\ AsksForPress(want[a])) \/ (a \in Reviews /\ AsksForReview(want[a]))

(* what was read of the row is not ahead of it, and is nothing only when   *)
(* the row is closed for good;                                             *)
ReadOf(at) == at <= pipeline.at /\ (at = 0 => pipeline.status = "DECIDED")

(* a request is at a step only with what that step starts from;            *)
LoadedOK(d) ==
    /\ ReadOf(del[d].at) /\ del[d].tries < Retries
    /\ Op(d) \in {"advance", "finalize"} => del[d].at \in 1 .. LastStage - 1 /\ ~del[d].missing
    /\ Op(d) = "advance" => del[d].at = Want(d).stage
    /\ Op(d) \in {"decide", "review"} => Want(d).outcome # "none"
    /\ \A i \in del[d].owed : interviews[i] # "unscored"

(* a request that asked for the review, and was told it was there, has had *)
(* it there;                                                               *)
Asked(d) ==
    (del[d].pc = "write" /\ ~del[d].missing
        /\ (Op(d) = "advance" => MoveNeedsHumanReview(del[d].at, del[d].at + 1)))
    => del[d].owed \cap Unreviewed = {}

RequestOK(d) ==
    /\ del[d].pc # "unsent" => del[d].act \in Acts /\ want[del[d].act] # NoWant
    /\ del[d].pc \in {"previous", "second", "commit", "third", "carry"} => del[d].act \in Reviews
    /\ del[d].pc \in {"check", "write"} => LoadedOK(d)
    /\ Asked(d)

(* an event that applies has read the row, and has an attempt left;        *)
UploadOK(u) ==
    /\ upload[u].pc # "done" => upload[u].tries < Retries
    /\ upload[u].pc = "apply" => ReadOf(upload[u].at)

(* and a press that has moved the candidate finds them past its stage.     *)
MovedOK(a) ==
    /\ moves[a] \in {0, 1}
    /\ moves[a] = 1 =>
          /\ want[a] # NoWant
          /\ want[a].op \in {"advance", "decide"} => pipeline.at > want[a].stage
          /\ want[a].op = "finalize" => pipeline.at = LastStage

IInv ==
    /\ TypeOK /\ RowOK /\ WantsOK
    /\ \A d \in Deliveries : RequestOK(d)
    /\ \A u \in Uploads : UploadOK(u)
    /\ \A a \in Presses : MovedOK(a)
    /\ VerdictCarried /\ EventsLand

----
(* The helpers of the model.                                               *)

(* A least stage exists whenever there is one at all.                      *)
LEMMA FirstOfIs ==
  ASSUME NEW s \in SUBSET Nat, s # {}
  PROVE  FirstOf(s) \in s /\ \A j \in s : FirstOf(s) <= j
<1>1. IsWellFoundedOn(OpToRel(<, Nat), Nat)
  BY NatLessThanWellFounded
<1>2. PICK i \in s : \A y \in s : ~(<<y, i>> \in OpToRel(<, Nat))
  BY <1>1, WFMin
<1>3. \A j \in s : i <= j
  <2>1. \A y \in s : <<y, i>> \in Nat \X Nat /\ <<y, i>>[1] = y /\ <<y, i>>[2] = i
    OBVIOUS
  <2>2. ASSUME NEW y \in s, y < i PROVE <<y, i>> \in OpToRel(<, Nat)
    BY <2>1, <2>2 DEF OpToRel
  <2>3. \A y \in s : ~(y < i)
    BY <1>2, <2>2, Zenon
  <2> QED BY <2>3
<1> QED BY <1>3 DEF FirstOf

(* A plan has stages, and its last is not its first.                       *)
LEMMA PlanIs ==
  ASSUME plan \in Plans
  PROVE  LastStage \in Nat /\ LastStage >= 2 /\ plan \in Seq([key : STRING, kind : StageKinds])
<1>1. plan \in Seq([key : STRING, kind : StageKinds]) /\ Len(plan) >= 2
  BY PlansAssumption
<1>2. Len(plan) \in Nat
  BY <1>1
<1> QED BY <1>1, <1>2 DEF LastStage

(* The stage an event reaches is one the system may place somebody at.     *)
LEMMA TargetIs ==
  ASSUME plan \in Plans
  PROVE  LET to == TargetStage("candidate.profiled")
         IN  /\ to \in 0 .. LastStage - 1
             /\ to # 0 => plan[to].kind = "profile_review"
<1> DEFINE S == {i \in Stages \ {LastStage} : plan[i].kind = "profile_review"}
<1>1. TargetStage("candidate.profiled") = FirstOf(S)
  BY DEF TargetStage, KindOfEvent
<1>2. LastStage \in Nat /\ LastStage >= 2 /\ Stages = 1 .. LastStage
  BY PlanIs DEF Stages, LastStage
<1>3. CASE S = {}
  BY <1>1, <1>2, <1>3 DEF FirstOf
<1>4. CASE S # {}
  <2>1. S \in SUBSET Nat
    BY <1>2
  <2>2. FirstOf(S) \in S
    BY <2>1, <1>4, FirstOfIs, Zenon
  <2> QED BY <1>1, <1>2, <2>2
<1> QED BY <1>3, <1>4

(* So is the stage a verdict is about one of the plan.                     *)
LEMMA AboutIs ==
  ASSUME plan \in Plans, NEW w, w.op = "decide" => w.stage \in Stages
  PROVE  About(w) \in 0 .. LastStage
<1> DEFINE S == {i \in Stages : plan[i].kind = "ai_interview"}
<1>1. LastStage \in Nat /\ Stages = 1 .. LastStage
  BY PlanIs DEF Stages, LastStage
<1>2. CASE S = {}
  BY <1>1, <1>2 DEF FirstOf, About
<1>3. CASE S # {}
  <2>1. S \in SUBSET Nat
    BY <1>1
  <2>2. FirstOf(S) \in S
    BY <2>1, <1>3, FirstOfIs, Zenon
  <2> QED BY <1>1, <2>2 DEF About
<1> QED BY <1>2, <1>3

(* The badges of a move are among the four tiers.                          *)
LEMMA BadgesAre ==
  ASSUME NEW from, NEW to
  PROVE  AwardsForPromotion(from, to) \subseteq {"bronze", "silver", "gold", "diamond"}
BY DEF AwardsForPromotion

(* What a request may be left as.                                          *)
LEMMA RequestShapes ==
  ASSUME TypeOK, NEW d \in Deliveries
  PROVE  /\ del[d] \in Requests /\ Unsent \in Requests
         /\ \A pc \in PCs : [del[d] EXCEPT !.pc = pc] \in Requests /\ Over(d, pc) \in Requests
         /\ \A a \in Acts \cup {"none"}, pc \in PCs : [Unsent EXCEPT !.pc = pc, !.act = a] \in Requests
         /\ \A a \in Acts, pc \in PCs : LoadedFor(a, pipeline, pc) \in Requests
<1>1. del[d] \in Requests /\ LastStage \in Nat /\ pipeline.at \in 0 .. LastStage
  BY PlanIs DEF TypeOK, Requests, PCs
<1>2. Unsent \in Requests
  BY <1>1, RetriesAssumption DEF Requests, PCs, Unsent
<1>3. Unreviewed \in SUBSET Interviews /\ StandsAt(pipeline) \in 0 .. LastStage
  BY <1>1 DEF Unreviewed, StandsAt
<1> QED BY <1>1, <1>2, <1>3 DEF Requests, Over, LoadedFor

LEMMA NewPipelineIs ==
  ASSUME LastStage \in Nat, LastStage >= 2
  PROVE  /\ NoPipeline \in Rows /\ NewPipeline \in Rows
         /\ NewPipeline.at = 1 /\ NewPipeline.status = "ACTIVE"
         /\ NewPipeline.decision = "none" /\ NewPipeline.decidedAt = 0
<1>1. NoPipeline \in Rows
  BY DEF Rows, NoPipeline
<1>2. 1 \in 0 .. LastStage
  OBVIOUS
<1>3. \A r \in Rows : [r EXCEPT !.status = "ACTIVE", !.at = 1] \in Rows
  BY <1>2 DEF Rows
<1>4. NewPipeline \in Rows
  BY <1>1, <1>3 DEF NewPipeline
<1> QED BY <1>1, <1>4 DEF NewPipeline, NoPipeline

(* The row is there after it has been ensured, as it was or new.           *)
LEMMA EnsureIs ==
  ASSUME TypeOK, RowOK
  PROVE  /\ EnsurePipeline = pipeline \/ (pipeline = NoPipeline /\ EnsurePipeline = NewPipeline)
         /\ EnsurePipeline \in Rows /\ EnsurePipeline.status # "NONE"
         /\ NewPipeline.at = 1 /\ NewPipeline.status = "ACTIVE"
         /\ NewPipeline.decision = "none" /\ NewPipeline.decidedAt = 0
<1>1. pipeline \in Rows /\ LastStage \in Nat /\ LastStage >= 2
  BY PlanIs DEF TypeOK, Rows
<1>2. pipeline.status = "NONE" => pipeline = NoPipeline
  <2> SUFFICES ASSUME pipeline.status = "NONE" PROVE pipeline = NoPipeline
    OBVIOUS
  <2>1. pipeline.at = 0 /\ pipeline.decision = "none" /\ pipeline.decidedAt = 0
    BY DEF TypeOK, RowOK
  <2> QED BY <1>1, <2>1 DEF Rows, NoPipeline
<1>3. NewPipeline \in Rows
  BY <1>1, NewPipelineIs
<1> QED BY <1>1, <1>2, <1>3, NewPipelineIs DEF EnsurePipeline

(* What a loaded stage says of the row it was loaded from.                 *)
LEMMA StandsAtIs ==
  ASSUME TypeOK, pipeline.status # "NONE"
  PROVE  ReadOf(StandsAt(pipeline)) /\ StandsAt(pipeline) \in 0 .. LastStage
BY PlanIs DEF TypeOK, ReadOf, StandsAt

(* A decision that is applied closes the journey where the candidate       *)
(* stands, with an approval only at the last stage, or moves them one      *)
(* stage on; and a review that was missing then withheld nothing but what  *)
(* judges nobody.                                                          *)
LEMMA DecisionApplied ==
  ASSUME TypeOK, WantsOK, NEW d \in Deliveries, RequestOK(d),
         del[d].pc = "write", Op(d) \in {"decide", "review"},
         ~DecisionDoesNothing(d), Stands(del[d].at)
  PROVE  /\ del[d].at = pipeline.at /\ pipeline.at \in 1 .. LastStage /\ pipeline.status = "ACTIVE"
         /\ Op(d) = "decide" => del[d].at = Want(d).stage
         /\ \/ /\ EffectOf(d).kind = "close"
               /\ Want(d).outcome \in {"APPROVED", "REJECTED", "WITHDRAWN"}
               /\ Want(d).outcome = "APPROVED" => pipeline.at = LastStage
               /\ Want(d).outcome # "WITHDRAWN" => ~del[d].missing
            \/ /\ EffectOf(d).kind = "advance" /\ EffectOf(d).to = pipeline.at + 1
               /\ pipeline.at < LastStage /\ Want(d).outcome = "APPROVED"
               /\ del[d].missing => ~MoveNeedsHumanReview(pipeline.at, pipeline.at + 1)
<1>1. del[d].at = pipeline.at /\ pipeline.status = "ACTIVE"
  BY DEF Stands
<1>2. pipeline.at \in 1 .. LastStage /\ LastStage \in Nat
  BY <1>1, PlanIs DEF TypeOK
<1>3. del[d].act \in Acts /\ Want(d) = want[del[d].act] /\ Op(d) = Want(d).op /\ Want(d).outcome # "none"
  BY ActsAssumption DEF RequestOK, LoadedOK, Want, Op
<1>4. Want(d).outcome \in {"APPROVED", "REJECTED", "WITHDRAWN"}
  BY <1>3 DEF TypeOK
<1>5. Want(d).op = "decide" => Want(d).stage \in Stages
  BY <1>3 DEF RequestOK, WantsOK, AsksForPress, AsksForReview
<1>6. About(Want(d)) \in 0 .. LastStage
  BY <1>5, AboutIs DEF TypeOK
<1>7. /\ EffectOf(d) = ResolveDecision(pipeline.at, Want(d).outcome, About(Want(d)))
      /\ EffectOf(d) # Nothing /\ ~Stale(d)
  BY <1>1, <1>2 DEF DecisionDoesNothing, EffectOf
<1>8. Op(d) = "decide" => del[d].at = Want(d).stage
  BY <1>7 DEF Stale
<1>9. del[d].missing => ~GatedBy(EffectOf(d), Want(d).outcome, pipeline.at)
  BY <1>1 DEF DecisionDoesNothing
<1>10. CASE Want(d).outcome # "APPROVED" \/ (About(Want(d)) = LastStage /\ pipeline.at = LastStage)
  <2>1. EffectOf(d) = CloseAt(pipeline.at) /\ EffectOf(d).kind = "close"
    BY <1>7, <1>10 DEF ResolveDecision, CloseAt
  <2> QED BY <1>1, <1>2, <1>4, <1>8, <1>9, <1>10, <2>1 DEF GatedBy
<1>11. CASE ~(Want(d).outcome # "APPROVED" \/ (About(Want(d)) = LastStage /\ pipeline.at = LastStage))
  <2>1. /\ EffectOf(d) = AdvanceTo(pipeline.at + 1)
        /\ About(Want(d)) # LastStage /\ About(Want(d)) >= pipeline.at
    BY <1>7, <1>11 DEF ResolveDecision
  <2>2. EffectOf(d).kind = "advance" /\ EffectOf(d).to = pipeline.at + 1
    BY <2>1 DEF AdvanceTo
  <2>3. pipeline.at < LastStage
    BY <1>2, <1>6, <2>1
  <2> QED BY <1>1, <1>2, <1>8, <1>9, <1>11, <2>2, <2>3 DEF GatedBy
<1> QED BY <1>10, <1>11

----
(* What no step takes back.                                                *)

(* The plan stays; the row keeps its shape, goes forward, and stays        *)
(* closed.                                                                 *)
RowGoesOn ==
    /\ plan' = plan
    /\ pipeline' \in Rows
    /\ (pipeline'.status = "DECIDED") = (pipeline'.decision # "none")
    /\ (pipeline'.status = "NONE") = (pipeline'.at = 0)
    /\ pipeline'.decision = "none" => pipeline'.decidedAt = 0
    /\ pipeline.at <= pipeline'.at
    /\ pipeline.status = "DECIDED" => pipeline'.status = "DECIDED"

(* An act asks for the same again, a scored interview stays scored and one *)
(* that was read stays read, a submission stays landed.                    *)
ActsGoOn ==
    /\ \A a \in Acts : want[a] # NoWant => want'[a] = want[a]
    /\ \A i \in Interviews : interviews[i] # "unscored" =>
          interviews'[i] # "unscored" /\ (i \notin Unreviewed => i \notin Unreviewed')
    /\ \A a \in Acts : moves'[a] \in Nat /\ moves[a] <= moves'[a]
    /\ landed \subseteq landed'

GoesOn == RowGoesOn /\ ActsGoOn

LEMMA RowSame ==
  ASSUME TypeOK, RowOK, UNCHANGED <<plan, pipeline>>
  PROVE  RowGoesOn
BY PlanIs DEF TypeOK, RowOK, RowGoesOn, Rows

LEMMA RowEnsured ==
  ASSUME TypeOK, RowOK, plan' = plan, pipeline' = EnsurePipeline
  PROVE  RowGoesOn
<1>1. CASE EnsurePipeline = pipeline
  BY <1>1, RowSame
<1>2. CASE pipeline = NoPipeline /\ EnsurePipeline = NewPipeline
  BY <1>2, EnsureIs DEF RowGoesOn, NoPipeline
<1> QED BY <1>1, <1>2, EnsureIs

LEMMA RowMoved ==
  ASSUME TypeOK, RowOK, plan' = plan, pipeline.status = "ACTIVE",
         NEW to \in 1 .. LastStage, pipeline.at <= to, pipeline' = [pipeline EXCEPT !.at = to]
  PROVE  RowGoesOn
<1>1. pipeline \in Rows /\ LastStage \in Nat
  BY PlanIs DEF TypeOK, Rows
<1>2. /\ pipeline' \in Rows /\ pipeline'.at = to /\ pipeline'.status = "ACTIVE"
      /\ pipeline'.decision = pipeline.decision /\ pipeline'.decidedAt = pipeline.decidedAt
  BY <1>1 DEF Rows
<1> QED BY <1>1, <1>2 DEF TypeOK, RowOK, RowGoesOn

LEMMA RowClosed ==
  ASSUME TypeOK, RowOK, plan' = plan, pipeline.status = "ACTIVE",
         NEW o \in {"APPROVED", "REJECTED", "WITHDRAWN"},
         pipeline' = [pipeline EXCEPT !.status = "DECIDED", !.decision = o, !.decidedAt = pipeline.at]
  PROVE  /\ RowGoesOn /\ pipeline'.status = "DECIDED" /\ pipeline'.at = pipeline.at
         /\ pipeline'.decision = o /\ pipeline'.decidedAt = pipeline.at
<1>1. pipeline \in Rows /\ LastStage \in Nat
  BY PlanIs DEF TypeOK, Rows
<1>2. /\ pipeline' \in Rows /\ pipeline'.at = pipeline.at /\ pipeline'.status = "DECIDED"
      /\ pipeline'.decision = o /\ pipeline'.decidedAt = pipeline.at
  BY <1>1 DEF Rows
<1> QED BY <1>1, <1>2 DEF TypeOK, RowOK, RowGoesOn

(* What an act asks for is what its page can send, and the same each time. *)
LEMMA AskedIs ==
  ASSUME TypeOK, WantsOK, NEW a \in Acts, NEW w \in AskedAs(a)
  PROVE  /\ w \in Wants /\ w # NoWant /\ (want[a] # NoWant => w = want[a])
         /\ (a \in Presses /\ AsksForPress(w)) \/ (a \in Reviews /\ AsksForReview(w))
<1>1. LastStage \in Nat /\ pipeline.at \in 0 .. LastStage /\ Stages = 1 .. LastStage
  BY PlanIs DEF TypeOK, Stages, LastStage
<1>2. CASE want[a] # NoWant
  <2>1. w = want[a] /\ w \in Wants
    BY <1>2 DEF AskedAs, TypeOK, Wants
  <2> QED BY <1>2, <2>1 DEF WantsOK
<1>3. CASE want[a] = NoWant /\ a \in Presses
  <2>1. w \in PressWants
    BY <1>3 DEF AskedAs
  <2>2. w.op \in {"advance", "finalize", "decide"} /\ w \in Wants /\ w.stage \in Stages
    <3>1. \A n \in 1 .. pipeline.at : n \in Stages /\ n \in 0 .. LastStage
      BY <1>1
    <3>2. CASE w \in [op : {"advance", "finalize"}, outcome : {"none"}, stage : 1 .. pipeline.at,
                      on : {"none"}, supersede : {FALSE}]
      BY <3>1, <3>2 DEF Wants
    <3>3. CASE w \in [op : {"decide"}, outcome : {"APPROVED", "REJECTED", "WITHDRAWN"},
                      stage : 1 .. pipeline.at, on : {"none"}, supersede : {FALSE}]
      BY <3>1, <3>3 DEF Wants
    <3> QED BY <2>1, <3>2, <3>3 DEF PressWants
  <2>3. w.op = "decide" => w.outcome # "none"
    BY <2>1 DEF PressWants
  <2> QED BY <1>3, <2>2, <2>3 DEF AsksForPress, NoWant
<1>4. CASE want[a] = NoWant /\ a \notin Presses
  <2>1. a \in Reviews /\ w \in ReviewWants(a)
    BY <1>4 DEF AskedAs, Acts
  <2>2. PICK v \in Verdicts[a] : w = [op |-> "review", outcome |-> v.outcome, stage |-> 0,
                                      on |-> v.on, supersede |-> v.supersede]
    BY <2>1 DEF ReviewWants
  <2>3. v \in [outcome : {"APPROVED", "REJECTED", "none"}, on : Interviews, supersede : BOOLEAN]
    BY <2>1, VerdictsAssumption
  <2>4. w \in Wants
    BY <1>1, <2>2, <2>3 DEF Wants
  <2>5. AsksForReview(w) /\ w # NoWant
    BY <2>2, <2>3 DEF AsksForReview, NoWant
  <2> QED BY <1>4, <2>1, <2>4, <2>5
<1> QED BY <1>2, <1>3, <1>4

LEMMA ActsSame ==
  ASSUME TypeOK, UNCHANGED <<reviewVars, want>>,
         moves' = moves \/ \E a \in Acts : moves' = [moves EXCEPT ![a] = @ + 1]
  PROVE  ActsGoOn
<1>1. ASSUME NEW a \in Acts PROVE moves'[a] \in Nat /\ moves[a] <= moves'[a]
  BY <1>1 DEF TypeOK
<1> QED BY <1>1 DEF ActsGoOn, reviewVars, Unreviewed

(* A step of the system, and of an interview.                              *)
SystemStep ==
    \/ StartPipeline
    \/ \E u \in Uploads :
          StoreProfile(u) \/ NoteProfiled(u) \/ ApplyPipelineEvent(u) \/ DropEvent(u)

InterviewStep == \E i \in Interviews : Assessed(i) \/ Retaken(i)

LEMMA SystemGoesOn == IInv /\ SystemStep => GoesOn
<1> SUFFICES ASSUME IInv, SystemStep PROVE GoesOn
  OBVIOUS
<1>1. ActsGoOn
  BY ActsSame DEF IInv, SystemStep, StartPipeline, StoreProfile, NoteProfiled, ApplyPipelineEvent,
                  DropEvent
<1>2. RowGoesOn
  <2>1. CASE StartPipeline
    BY <2>1, RowEnsured DEF IInv, StartPipeline
  <2>2. ASSUME NEW u \in Uploads, StoreProfile(u) PROVE RowGoesOn
    BY <2>2, RowSame DEF IInv, StoreProfile
  <2>3. ASSUME NEW u \in Uploads, NoteProfiled(u) PROVE RowGoesOn
    BY <2>3, RowEnsured DEF IInv, NoteProfiled
  <2>4. ASSUME NEW u \in Uploads, ApplyPipelineEvent(u) PROVE RowGoesOn
    <3> DEFINE r == upload[u]
               to == ResolveTransition(r.at, "candidate.profiled")
    <3>1. CASE UNCHANGED pipeline
      BY <2>4, <3>1, RowSame DEF IInv, ApplyPipelineEvent
    <3>2. CASE to # 0 /\ Stands(r.at) /\ pipeline' = [pipeline EXCEPT !.at = to]
      <4>1. pipeline.status = "ACTIVE" /\ r.at = pipeline.at
        BY <3>2 DEF Stands
      <4>2. to \in 1 .. LastStage /\ pipeline.at <= to
        BY <3>2, <4>1, TargetIs, PlanIs DEF IInv, TypeOK, ResolveTransition
      <4>3. plan' = plan
        BY <2>4 DEF ApplyPipelineEvent
      <4> HIDE DEF to
      <4> QED BY <3>2, <4>1, <4>2, <4>3, RowMoved DEF IInv
    <3> QED BY <2>4, <3>1, <3>2 DEF ApplyPipelineEvent
  <2>5. ASSUME NEW u \in Uploads, DropEvent(u) PROVE RowGoesOn
    BY <2>5, RowSame DEF IInv, DropEvent
  <2> QED BY <2>1, <2>2, <2>3, <2>4, <2>5 DEF SystemStep
<1> QED BY <1>1, <1>2 DEF GoesOn

LEMMA InterviewGoesOn == IInv /\ InterviewStep => GoesOn
<1> SUFFICES ASSUME IInv, NEW j \in Interviews, Assessed(j) \/ Retaken(j) PROVE GoesOn
  BY DEF InterviewStep
<1>1. RowGoesOn
  BY RowSame DEF IInv, Assessed, Retaken
<1>2. ActsGoOn
  <2>1. ASSUME NEW i \in Interviews, interviews[i] # "unscored"
        PROVE  interviews'[i] # "unscored" /\ (interviews[i] # "due" => interviews'[i] # "due")
    BY <2>1 DEF IInv, TypeOK, Assessed, Retaken
  <2>2. ASSUME NEW a \in Acts PROVE moves'[a] \in Nat /\ moves[a] <= moves'[a]
    BY <2>2 DEF IInv, TypeOK, Assessed, Retaken
  <2> QED BY <2>1, <2>2 DEF ActsGoOn, Unreviewed, Assessed, Retaken
<1> QED BY <1>1, <1>2 DEF GoesOn

(* A step of a request.                                                    *)
RequestStep(d) ==
    \/ \E a \in Acts : \E w \in AskedAs(a) : Arrive(d, a, w) \/ ArriveReview(d, a, w)
    \/ Check(d) \/ WriteMove(d) \/ DecidePipeline(d)
    \/ ReadPrevious(d) \/ AskAgain(d) \/ CommitReview(d) \/ CarryJourney(d) \/ DropVerdict(d)

(* A request that moves the candidate moves them on from where they stand: *)
(* one stage, unless it finalises them.                                    *)
MovesOn(d) ==
    \E to \in 1 .. LastStage :
       /\ pipeline.status = "ACTIVE" /\ pipeline.at \in 1 .. LastStage - 1 /\ del[d].at = pipeline.at
       /\ (Op(d) = "finalize" /\ to = LastStage) \/ (Op(d) # "finalize" /\ to = pipeline.at + 1)
       /\ Op(d) \in {"advance", "decide"} => Want(d).stage = pipeline.at
       /\ Op(d) \in {"decide", "review"} => Want(d).outcome = "APPROVED"
       /\ del[d].missing => Op(d) # "finalize" /\ ~MoveNeedsHumanReview(pipeline.at, to)
       /\ MoveAndAward(d, to)

(* And one that closes the journey closes it where the candidate stands.   *)
ClosesAt(d) ==
    /\ pipeline.status = "ACTIVE" /\ pipeline.at \in 1 .. LastStage /\ del[d].at = pipeline.at
    /\ Want(d).outcome \in {"APPROVED", "REJECTED", "WITHDRAWN"}
    /\ Want(d).outcome = "APPROVED" => pipeline.at = LastStage
    /\ Want(d).outcome # "WITHDRAWN" => ~del[d].missing
    /\ ClosePipeline(d)

LEMMA WriteMoveIs ==
  ASSUME IInv, NEW d \in Deliveries, WriteMove(d)
  PROVE  UNCHANGED <<pipeline, awards, moves>> \/ MovesOn(d)
<1> DEFINE to == IF Op(d) = "advance" THEN del[d].at + 1 ELSE LastStage
<1>1. /\ LastStage \in Nat /\ Op(d) \in {"advance", "finalize"}
      /\ del[d].at \in 1 .. LastStage - 1 /\ ~del[d].missing
      /\ Op(d) = "advance" => del[d].at = Want(d).stage
  BY PlanIs DEF IInv, TypeOK, RequestOK, LoadedOK, WriteMove
<1>2. CASE UNCHANGED <<pipeline, awards, moves>>
  BY <1>2
<1>3. CASE Stands(del[d].at) /\ MoveAndAward(d, to)
  <2>1. to \in 1 .. LastStage
    BY <1>1
  <2>2. pipeline.status = "ACTIVE" /\ del[d].at = pipeline.at
    BY <1>3 DEF Stands
  <2>3. /\ pipeline.at \in 1 .. LastStage - 1
        /\ (Op(d) = "finalize" /\ to = LastStage) \/ (Op(d) # "finalize" /\ to = pipeline.at + 1)
    BY <1>1, <2>2
  <2> HIDE DEF to
  <2> QED BY <1>1, <1>3, <2>1, <2>2, <2>3 DEF MovesOn
<1> QED BY <1>2, <1>3 DEF WriteMove

LEMMA DecisionMade ==
  ASSUME IInv, NEW d \in Deliveries, DecidePipeline(d), ~DecisionDoesNothing(d), Stands(del[d].at),
         IF EffectOf(d).kind = "close" THEN ClosePipeline(d) ELSE MoveAndAward(d, EffectOf(d).to)
  PROVE  MovesOn(d) \/ ClosesAt(d)
<1>1. del[d].pc = "write" /\ Op(d) \in {"decide", "review"}
  BY DEF DecidePipeline
<1>2. TypeOK /\ WantsOK /\ RequestOK(d) /\ LastStage \in Nat
  BY PlanIs DEF IInv, TypeOK
<1> DEFINE Closing == /\ EffectOf(d).kind = "close"
                      /\ Want(d).outcome \in {"APPROVED", "REJECTED", "WITHDRAWN"}
                      /\ Want(d).outcome = "APPROVED" => pipeline.at = LastStage
                      /\ Want(d).outcome # "WITHDRAWN" => ~del[d].missing
           Moving == /\ EffectOf(d).kind = "advance" /\ EffectOf(d).to = pipeline.at + 1
                     /\ pipeline.at < LastStage /\ Want(d).outcome = "APPROVED"
                     /\ del[d].missing => ~MoveNeedsHumanReview(pipeline.at, pipeline.at + 1)
<1>3. /\ del[d].at = pipeline.at /\ pipeline.at \in 1 .. LastStage /\ pipeline.status = "ACTIVE"
      /\ Op(d) = "decide" => del[d].at = Want(d).stage
      /\ Closing \/ Moving
  BY <1>1, <1>2, DecisionApplied
<1>4. CASE Closing
  BY <1>3, <1>4 DEF ClosesAt
<1>5. CASE Moving
  <2>1. MoveAndAward(d, pipeline.at + 1) /\ pipeline.at + 1 \in 1 .. LastStage
    BY <1>2, <1>3, <1>5
  <2>2. pipeline.at \in 1 .. LastStage - 1
    BY <1>2, <1>3, <1>5
  <2> QED BY <1>1, <1>3, <1>5, <2>1, <2>2 DEF MovesOn
<1> QED BY <1>3, <1>4, <1>5

LEMMA DecidePipelineIs ==
  ASSUME IInv, NEW d \in Deliveries, DecidePipeline(d)
  PROVE  UNCHANGED <<pipeline, awards, moves>> \/ MovesOn(d) \/ ClosesAt(d)
BY DecisionMade DEF DecidePipeline

LEMMA MovesGoOn ==
  ASSUME IInv, NEW d \in Deliveries, del[d].pc = "write", plan' = plan, MovesOn(d)
  PROVE  /\ RowGoesOn
         /\ del[d].act \in Acts /\ moves' = [moves EXCEPT ![del[d].act] = @ + 1]
         /\ pipeline'.status = "ACTIVE" /\ pipeline'.at \in pipeline.at + 1 .. LastStage
<1>1. PICK to \in 1 .. LastStage :
         /\ pipeline.status = "ACTIVE" /\ pipeline.at \in 1 .. LastStage - 1 /\ del[d].at = pipeline.at
         /\ (Op(d) = "finalize" /\ to = LastStage) \/ (Op(d) # "finalize" /\ to = pipeline.at + 1)
         /\ MoveAndAward(d, to)
  BY DEF MovesOn
<1>2. LastStage \in Nat /\ pipeline \in Rows
  BY PlanIs DEF IInv, TypeOK, Rows
<1>3. to \in pipeline.at + 1 .. LastStage
  BY <1>1, <1>2
<1>4. pipeline' = [pipeline EXCEPT !.at = to] /\ moves' = [moves EXCEPT ![del[d].act] = @ + 1]
  BY <1>1 DEF MoveAndAward
<1>5. RowGoesOn
  BY <1>1, <1>2, <1>3, <1>4, RowMoved DEF IInv
<1> QED BY <1>1, <1>2, <1>3, <1>4, <1>5 DEF Rows, IInv, RequestOK

LEMMA ClosesGoOn ==
  ASSUME IInv, NEW d \in Deliveries, plan' = plan, ClosesAt(d)
  PROVE  /\ RowGoesOn /\ UNCHANGED <<awards, moves>>
         /\ pipeline'.status = "DECIDED" /\ pipeline'.at = pipeline.at
         /\ pipeline'.decision = Want(d).outcome /\ pipeline'.decidedAt = pipeline.at
BY RowClosed DEF IInv, ClosesAt, ClosePipeline

LEMMA RequestGoesOn ==
  ASSUME IInv, NEW d \in Deliveries, RequestStep(d)
  PROVE  GoesOn
<1>1. CASE \E a \in Acts : \E w \in AskedAs(a) : Arrive(d, a, w) \/ ArriveReview(d, a, w)
  <2>1. PICK a \in Acts : \E w \in AskedAs(a) : Arrive(d, a, w) \/ ArriveReview(d, a, w)
    BY <1>1
  <2>2. PICK w \in AskedAs(a) : Arrive(d, a, w) \/ ArriveReview(d, a, w)
    BY <2>1
  <2>3. UNCHANGED <<plan, pipeline, reviewVars, moves>> /\ want' = [want EXCEPT ![a] = w]
    BY <2>2 DEF Arrive, ArriveReview
  <2>4. want[a] # NoWant => w = want[a]
    BY AskedIs DEF IInv
  <2>5. \A b \in Acts : want[b] # NoWant => want'[b] = want[b]
    BY <2>3, <2>4 DEF IInv, TypeOK
  <2>6. ActsGoOn
    BY <2>3, <2>5 DEF IInv, TypeOK, ActsGoOn, reviewVars, Unreviewed
  <2> QED BY <2>3, <2>6, RowSame DEF GoesOn, IInv
<1>2. CASE Check(d) \/ ReadPrevious(d) \/ AskAgain(d) \/ DropVerdict(d)
  <2>1. UNCHANGED <<plan, pipeline, reviewVars, want, moves>>
    BY <1>2 DEF Check, ReadPrevious, AskAgain, DropVerdict
  <2> QED BY <2>1, RowSame, ActsSame DEF GoesOn, IInv
<1>3. CASE CarryJourney(d)
  <2>1. plan' = plan /\ pipeline' = EnsurePipeline /\ UNCHANGED <<reviewVars, want, moves>>
    BY <1>3 DEF CarryJourney
  <2> QED BY <2>1, RowEnsured, ActsSame DEF GoesOn, IInv
<1>4. CASE CommitReview(d)
  <2>1. UNCHANGED <<plan, pipeline, interviews, want, moves>>
    BY <1>4 DEF CommitReview
  <2>2. \/ UNCHANGED <<claim, landed>>
        \/ /\ claim' = [claim EXCEPT ![Want(d).on] = del[d].act]
           /\ landed' = landed \cup {del[d].act}
    BY <1>4 DEF CommitReview
  <2>3. del[d].act \in Acts /\ del[d].act # "none"
    BY <1>4, ActsAssumption DEF IInv, RequestOK, CommitReview
  <2>4. \A i \in Interviews : claim[i] # "none" => claim'[i] # "none"
    BY <2>2, <2>3 DEF IInv, TypeOK
  <2>5. \A a \in Acts : moves'[a] \in Nat /\ moves[a] <= moves'[a]
    BY <2>1 DEF IInv, TypeOK
  <2>6. ActsGoOn
    BY <2>1, <2>2, <2>4, <2>5 DEF ActsGoOn, Unreviewed
  <2> QED BY <2>1, <2>6, RowSame DEF GoesOn, IInv
<1>5. CASE WriteMove(d) \/ DecidePipeline(d)
  <2>1. UNCHANGED <<plan, reviewVars, want>> /\ del[d].pc = "write"
    BY <1>5 DEF WriteMove, DecidePipeline
  <2>2. UNCHANGED <<pipeline, moves>> \/ MovesOn(d) \/ ClosesAt(d)
    BY <1>5, WriteMoveIs, DecidePipelineIs
  <2>3. CASE UNCHANGED <<pipeline, moves>>
    BY <2>1, <2>3, RowSame, ActsSame DEF GoesOn, IInv
  <2>4. CASE MovesOn(d)
    BY <2>1, <2>4, MovesGoOn, ActsSame DEF GoesOn, IInv
  <2>5. CASE ClosesAt(d)
    BY <2>1, <2>5, ClosesGoOn, ActsSame DEF GoesOn, IInv
  <2> QED BY <2>2, <2>3, <2>4, <2>5
<1> QED BY <1>1, <1>2, <1>3, <1>4, <1>5 DEF RequestStep

LEMMA StepGoesOn == IInv /\ [Next]_vars => GoesOn
<1> SUFFICES ASSUME IInv, [Next]_vars PROVE GoesOn
  OBVIOUS
<1>1. CASE UNCHANGED vars
  BY <1>1, RowSame, ActsSame DEF GoesOn, IInv, vars
<1>2. CASE Next
  BY <1>2, SystemGoesOn, InterviewGoesOn, RequestGoesOn DEF Next, SystemStep, InterviewStep, RequestStep
<1> QED BY <1>1, <1>2

----
(* The uploads.                                                            *)

LEMMA PlanStays ==
  ASSUME plan' = plan
  PROVE  /\ LastStage' = LastStage /\ Stages' = Stages
         /\ TargetStage("candidate.profiled")' = TargetStage("candidate.profiled")
         /\ \A w : About(w)' = About(w)
         /\ \A from, to : MoveNeedsHumanReview(from, to)' = MoveNeedsHumanReview(from, to)
<1>1. LastStage' = LastStage /\ Stages' = Stages
  BY DEF LastStage, Stages
<1>2. {i \in Stages \ {LastStage} : plan[i].kind = KindOfEvent["candidate.profiled"]}'
      = {i \in Stages \ {LastStage} : plan[i].kind = KindOfEvent["candidate.profiled"]}
  BY <1>1
<1>3. TargetStage("candidate.profiled")' = TargetStage("candidate.profiled")
  BY <1>1, <1>2 DEF TargetStage, FirstOf
<1>4. ASSUME NEW w PROVE About(w)' = About(w)
  BY DEF About, FirstOf, Stages, LastStage
<1> QED BY <1>1, <1>3, <1>4 DEF MoveNeedsHumanReview, AwardsForPromotion

(* What was read stays behind the row, and was read of a closed row only   *)
(* if it is closed still.                                                  *)
LEMMA ReadStays ==
  ASSUME TypeOK, RowGoesOn, NEW at \in 0 .. LastStage, ReadOf(at)
  PROVE  ReadOf(at)'
BY PlanIs DEF TypeOK, RowGoesOn, ReadOf, Rows

LEMMA UploadTouched ==
  ASSUME IInv, RowGoesOn, NEW u \in Uploads, NEW r \in UploadStates,
         upload' = [upload EXCEPT ![u] = r],
         r.pc # "done" => r.tries < Retries, r.pc = "apply" => ReadOf(r.at)',
         r.pc = "done" /\ r.tries < Retries
            => pipeline'.status = "DECIDED" \/ pipeline'.at >= TargetStage("candidate.profiled")
  PROVE  /\ upload' \in [Uploads -> UploadStates] /\ EventsLand'
         /\ \A v \in Uploads : UploadOK(v)'
<1>1. upload \in [Uploads -> UploadStates] /\ plan' = plan
  BY DEF IInv, TypeOK, UploadStates, RowGoesOn
<1>2. LastStage \in Nat /\ pipeline.at \in 0 .. LastStage /\ pipeline'.at \in 0 .. LastStage
  BY PlanIs DEF IInv, TypeOK, RowGoesOn, Rows
<1>3. /\ TargetStage("candidate.profiled")' = TargetStage("candidate.profiled")
      /\ TargetStage("candidate.profiled") \in 0 .. LastStage - 1
  BY <1>1, PlanStays, TargetIs DEF IInv, TypeOK
<1>4. ASSUME NEW v \in Uploads PROVE UploadOK(v)'
  <2>1. CASE v = u
    BY <1>1, <2>1 DEF UploadOK
  <2>2. CASE v # u
    BY <1>1, <2>2, ReadStays DEF UploadOK, IInv, UploadStates
  <2> QED BY <2>1, <2>2
<1>5. ASSUME NEW v \in Uploads, upload'[v].pc = "done", upload'[v].tries < Retries
      PROVE  pipeline'.status = "DECIDED" \/ pipeline'.at >= TargetStage("candidate.profiled")
  <2>1. CASE v = u
    BY <1>1, <1>5, <2>1
  <2>2. CASE v # u
    <3>1. pipeline.status = "DECIDED" \/ pipeline.at >= TargetStage("candidate.profiled")
      BY <1>1, <1>5, <2>2 DEF IInv, EventsLand
    <3> QED BY <1>2, <1>3, <3>1 DEF RowGoesOn
  <2> QED BY <2>1, <2>2
<1>6. EventsLand'
  BY <1>3, <1>5 DEF EventsLand
<1> QED BY <1>1, <1>4, <1>6

LEMMA UploadsUntouched ==
  ASSUME IInv, RowGoesOn, upload' = upload
  PROVE  /\ upload' \in [Uploads -> UploadStates] /\ EventsLand'
         /\ \A v \in Uploads : UploadOK(v)'
<1>1. upload \in [Uploads -> UploadStates]
  BY DEF IInv, TypeOK, UploadStates
<1>2. CASE Uploads = {}
  BY <1>1, <1>2 DEF EventsLand
<1>3. CASE Uploads # {}
  <2>1. PICK u \in Uploads : TRUE
    BY <1>3
  <2>2. upload' = [upload EXCEPT ![u] = upload[u]] /\ upload[u] \in UploadStates
    BY <1>1
  <2>3. /\ upload[u].pc # "done" => upload[u].tries < Retries
        /\ upload[u].pc = "apply" => ReadOf(upload[u].at)'
    BY <2>2, ReadStays DEF IInv, UploadOK, UploadStates
  <2>4. LastStage \in Nat /\ pipeline.at \in 0 .. LastStage /\ pipeline'.at \in 0 .. LastStage
        /\ TargetStage("candidate.profiled") \in 0 .. LastStage - 1
    BY PlanIs, TargetIs DEF IInv, TypeOK, RowGoesOn, Rows
  <2>5. upload[u].pc = "done" /\ upload[u].tries < Retries
            => pipeline'.status = "DECIDED" \/ pipeline'.at >= TargetStage("candidate.profiled")
    BY <2>1, <2>4 DEF IInv, EventsLand, RowGoesOn
  <2> QED BY <2>2, <2>3, <2>5, UploadTouched
<1> QED BY <1>2, <1>3

----
(* The requests.                                                           *)

(* What VerdictCarried says of one delivery.                               *)
VerdictOf(d) ==
    (Op(d) = "review" /\ del[d].pc = "answered" /\ ~del[d].missing /\ del[d].tries < Retries
       /\ Want(d).outcome # "none" /\ About(Want(d)) \in Stages \ {LastStage})
    => \/ pipeline.status = "DECIDED"
       \/ Want(d).outcome = "APPROVED" /\ (moves[del[d].act] > 0 \/ pipeline.at > About(Want(d)))

LEMMA VerdictsAre == VerdictCarried <=> \A d \in Deliveries : VerdictOf(d)
BY DEF VerdictCarried, VerdictOf

(* A request still asks for what it asked for.                             *)
LEMMA WantStays ==
  ASSUME IInv, ActsGoOn, NEW d \in Deliveries, del[d].pc # "unsent", del'[d].act = del[d].act
  PROVE  Want(d)' = Want(d) /\ Op(d)' = Op(d) /\ Op(d) = Want(d).op /\ Want(d) \in Wants
<1>1. del[d].act \in Acts /\ del[d].act # "none" /\ want[del[d].act] # NoWant
  BY ActsAssumption DEF IInv, RequestOK
<1>2. want'[del[d].act] = want[del[d].act] /\ want[del[d].act] \in Wants
  BY <1>1 DEF ActsGoOn, IInv, TypeOK, Wants
<1> QED BY <1>1, <1>2 DEF Want, Op

(* What was read is no longer owed.                                        *)
LEMMA ReadStaysRead ==
  ASSUME ActsGoOn, NEW s \in SUBSET Interviews, \A i \in s : interviews[i] # "unscored"
  PROVE  /\ \A i \in s : interviews'[i] # "unscored"
         /\ s \cap Unreviewed = {} => s \cap Unreviewed' = {}
BY DEF ActsGoOn

(* What a step leaves of a request holds on.                               *)
LEMMA RequestStays ==
  ASSUME IInv, GoesOn, NEW d \in Deliveries, del'[d] = del[d]
  PROVE  RequestOK(d)' /\ VerdictOf(d)'
<1>1. /\ RowGoesOn /\ ActsGoOn /\ plan' = plan /\ TypeOK /\ RequestOK(d)
      /\ del[d] \in Requests
  BY RequestShapes DEF IInv, GoesOn, RowGoesOn
<1>2. CASE del[d].pc = "unsent"
  BY <1>2, <1>1 DEF RequestOK, Asked, VerdictOf
<1>3. CASE del[d].pc # "unsent"
  <2>1. /\ Want(d)' = Want(d) /\ Op(d)' = Op(d) /\ del[d].act \in Acts
        /\ want[del[d].act] # NoWant /\ want'[del[d].act] = want[del[d].act]
    BY <1>1, <1>3, WantStays DEF RequestOK, ActsGoOn
  <2>2. LastStage' = LastStage /\ Stages' = Stages /\ About(Want(d))' = About(Want(d))
    BY <1>1, <2>1, PlanStays
  <2>3. ASSUME del[d].pc \in {"check", "write"} PROVE LoadedOK(d)'
    <3>1. LoadedOK(d)
      BY <1>1, <2>3 DEF RequestOK
    <3>2. ReadOf(del[d].at)'
      BY <1>1, <3>1, ReadStays DEF LoadedOK, Requests
    <3>3. \A i \in del[d].owed : interviews'[i] # "unscored"
      BY <1>1, <3>1, ReadStaysRead DEF LoadedOK, Requests
    <3> QED BY <2>1, <2>2, <3>1, <3>2, <3>3 DEF LoadedOK
  <2>4. Asked(d)'
    <3> SUFFICES ASSUME del[d].pc = "write", ~del[d].missing,
                        Op(d) = "advance" => MoveNeedsHumanReview(del[d].at, del[d].at + 1)'
                 PROVE  del[d].owed \cap Unreviewed' = {}
      BY <2>1 DEF Asked
    <3>1. MoveNeedsHumanReview(del[d].at, del[d].at + 1)' = MoveNeedsHumanReview(del[d].at, del[d].at + 1)
      BY <1>1, PlanStays
    <3>2. del[d].owed \cap Unreviewed = {} /\ LoadedOK(d)
      BY <1>1, <3>1 DEF RequestOK, Asked
    <3> QED BY <1>1, <3>2, ReadStaysRead DEF LoadedOK, Requests
  <2>5. RequestOK(d)'
    BY <1>1, <2>1, <2>3, <2>4 DEF RequestOK
  <2>6. VerdictOf(d)'
    <3>1. VerdictOf(d)
      BY VerdictsAre DEF IInv
    <3>2. moves[del[d].act] > 0 => moves'[del[d].act] > 0
      BY <1>1, <2>1 DEF IInv, TypeOK, ActsGoOn
    <3>3. About(Want(d)) \in Stages => (pipeline.at > About(Want(d)) => pipeline'.at > About(Want(d)))
      BY <1>1, PlanIs DEF TypeOK, RowGoesOn, Rows, Stages
    <3> QED BY <1>1, <2>1, <2>2, <3>1, <3>2, <3>3 DEF VerdictOf, RowGoesOn
  <2> QED BY <2>5, <2>6
<1> QED BY <1>2, <1>3

LEMMA RequestFields ==
  ASSUME TypeOK, NEW d \in Deliveries
  PROVE  /\ \A pc \in PCs : LET r == Over(d, pc) IN
              /\ r.pc = pc /\ r.act = del[d].act /\ (r.missing <=> del[d].missing)
              /\ r.tries = del[d].tries
         /\ \A a \in Acts, pc \in PCs : LET r == [Unsent EXCEPT !.pc = pc, !.act = a] IN
              r.pc = pc /\ r.act = a
<1>1. del[d] \in Requests /\ Unsent \in Requests
  BY RequestShapes
<1>2. \A r \in Requests : r.tries \in 0 .. Retries
  BY DEF Requests
<1>3. Unsent.tries = 0 /\ Unsent.missing = FALSE
  BY DEF Unsent
<1> QED BY <1>1, <1>2, <1>3 DEF Requests, Over

LEMMA LoadedFields ==
  ASSUME TypeOK, NEW a, NEW p, NEW step
  PROVE  /\ LoadedFor(a, p, step).pc = step /\ LoadedFor(a, p, step).act = a
         /\ LoadedFor(a, p, step).at = StandsAt(p) /\ LoadedFor(a, p, step).owed = Unreviewed
         /\ ~LoadedFor(a, p, step).missing /\ LoadedFor(a, p, step).tries = 0
BY DEF LoadedFor, Unsent

(* One request changes, the others hold on.                                *)
LEMMA RequestTouched ==
  ASSUME IInv, GoesOn, NEW d \in Deliveries, NEW r \in Requests,
         del' = [del EXCEPT ![d] = r], RequestOK(d)', VerdictOf(d)'
  PROVE  /\ del' \in [Deliveries -> Requests] /\ VerdictCarried'
         /\ \A e \in Deliveries : RequestOK(e)'
<1>1. del \in [Deliveries -> Requests]
  BY DEF IInv, TypeOK, Requests, PCs
<1>2. ASSUME NEW e \in Deliveries PROVE RequestOK(e)' /\ VerdictOf(e)'
  <2>1. CASE e = d
    BY <2>1
  <2>2. CASE e # d
    <3>1. del'[e] = del[e]
      BY <1>1, <2>2
    <3> QED BY <3>1, RequestStays
  <2> QED BY <2>1, <2>2
<1>3. VerdictCarried'
  BY <1>2 DEF VerdictCarried, VerdictOf
<1> QED BY <1>1, <1>2, <1>3

LEMMA RequestsUntouched ==
  ASSUME IInv, GoesOn, del' = del
  PROVE  /\ del' \in [Deliveries -> Requests] /\ VerdictCarried'
         /\ \A e \in Deliveries : RequestOK(e)'
<1>1. \A e \in Deliveries : RequestOK(e)' /\ VerdictOf(e)'
  BY RequestStays
<1>2. VerdictCarried'
  BY <1>1 DEF VerdictCarried, VerdictOf
<1> QED BY <1>1, <1>2 DEF IInv, TypeOK, Requests, PCs

(* What a step makes of its own request.                                   *)
Turned(d) ==
    /\ \E r \in Requests : del' = [del EXCEPT ![d] = r]
    /\ RequestOK(d)' /\ VerdictOf(d)'

LEMMA ArriveTurns ==
  ASSUME IInv, GoesOn, NEW d \in Deliveries, NEW a \in Acts, NEW w \in AskedAs(a), Arrive(d, a, w)
  PROVE  Turned(d)
<1> DEFINE r == IF ~(pipeline.status = "ACTIVE" /\ AskedOf(w))
                  THEN [Unsent EXCEPT !.pc = "refused", !.act = a]
                ELSE IF w.op = "advance" /\ ~MoveNeedsHumanReview(pipeline.at, pipeline.at + 1)
                  THEN LoadedFor(a, pipeline, "write")
                ELSE LoadedFor(a, pipeline, "check")
<1>1. /\ TypeOK /\ {"refused", "write", "check"} \subseteq PCs /\ pipeline \in Rows
      /\ LastStage \in Nat /\ LastStage >= 2 /\ a # "none" /\ del \in [Deliveries -> Requests]
  BY PlanIs, ActsAssumption DEF IInv, TypeOK, PCs, InFlight, Rows, Requests
<1>2. r \in Requests
  BY <1>1, RequestShapes
<1>3. del' = [del EXCEPT ![d] = r]
  BY DEF Arrive
<1>4. /\ del'[d] = r /\ UNCHANGED <<plan, pipeline, reviewVars>> /\ want' = [want EXCEPT ![a] = w]
      /\ a \in Presses
  BY <1>1, <1>3 DEF Arrive
<1>5. /\ w \in Wants /\ w # NoWant /\ AsksForPress(w) /\ want'[a] = w
  BY <1>4, AskedIs, ActsAssumption DEF IInv, TypeOK
<1>6. CASE ~(pipeline.status = "ACTIVE" /\ AskedOf(w))
  <2>1. r.pc = "refused" /\ r.act = a
    BY <1>1, <1>6, RequestFields
  <2> HIDE DEF r
  <2> QED BY <1>2, <1>3, <1>4, <1>5, <2>1 DEF Turned, RequestOK, Asked, VerdictOf
<1>7. CASE pipeline.status = "ACTIVE" /\ AskedOf(w)
  <2>1. /\ r.pc \in {"check", "write"} /\ r.act = a /\ r.at = pipeline.at /\ r.owed = Unreviewed
        /\ ~r.missing /\ r.tries = 0
        /\ r.pc = "write" => w.op = "advance" /\ ~MoveNeedsHumanReview(pipeline.at, pipeline.at + 1)
    <3>1. \A step : LET l == LoadedFor(a, pipeline, step) IN
            l.pc = step /\ l.act = a /\ l.at = StandsAt(pipeline) /\ l.owed = Unreviewed
            /\ ~l.missing /\ l.tries = 0
      BY <1>1, LoadedFields
    <3>2. StandsAt(pipeline) = pipeline.at
      BY <1>7 DEF StandsAt
    <3>3. CASE w.op = "advance" /\ ~MoveNeedsHumanReview(pipeline.at, pipeline.at + 1)
      <4>1. r = LoadedFor(a, pipeline, "write")
        BY <1>7, <3>3
      <4> QED BY <3>1, <3>2, <3>3, <4>1
    <3>4. CASE ~(w.op = "advance" /\ ~MoveNeedsHumanReview(pipeline.at, pipeline.at + 1))
      <4>1. r = LoadedFor(a, pipeline, "check")
        BY <1>7, <3>4
      <4> HIDE DEF r
      <4> QED BY <3>1, <3>2, <4>1
    <3> QED BY <3>3, <3>4
  <2> HIDE DEF r
  <2>2. Want(d)' = w /\ Op(d)' = w.op
    BY <1>1, <1>4, <1>5, <2>1 DEF Want, Op
  <2>3. LastStage' = LastStage /\ MoveNeedsHumanReview(pipeline.at, pipeline.at + 1)'
                                  = MoveNeedsHumanReview(pipeline.at, pipeline.at + 1)
    BY <1>4, PlanStays DEF LastStage, MoveNeedsHumanReview, AwardsForPromotion
  <2>4. ReadOf(pipeline.at)' /\ pipeline.at \in 1 .. LastStage
    BY <1>1, <1>4, <1>7 DEF TypeOK, ReadOf
  <2>5. w.op \in {"advance", "finalize"} => pipeline.at \in 1 .. LastStage - 1
    <3>1. w.op \in {"advance", "finalize"} => pipeline.at # LastStage
      BY <1>7 DEF AskedOf
    <3> QED BY <1>1, <2>4, <3>1
  <2>6. w.op = "advance" => pipeline.at = w.stage
    BY <1>7 DEF AskedOf
  <2>7. \A i \in Unreviewed : interviews'[i] # "unscored"
    BY <1>4 DEF Unreviewed, reviewVars
  <2>8. LoadedOK(d)'
    BY <1>4, <1>5, <2>1, <2>2, <2>3, <2>4, <2>5, <2>6, <2>7, RetriesAssumption DEF LoadedOK, AsksForPress
  <2>9. Asked(d)'
    BY <1>4, <2>1, <2>2, <2>3 DEF Asked
  <2>10. RequestOK(d)' /\ VerdictOf(d)'
    BY <1>4, <1>5, <2>1, <2>8, <2>9 DEF RequestOK, VerdictOf
  <2> QED BY <1>2, <1>3, <2>10 DEF Turned
<1> QED BY <1>6, <1>7

LEMMA ArriveReviewTurns ==
  ASSUME IInv, GoesOn, NEW d \in Deliveries, NEW a \in Acts, NEW w \in AskedAs(a), ArriveReview(d, a, w)
  PROVE  Turned(d)
<1>1. PICK pc \in {"carry", "previous"} : del' = [del EXCEPT ![d] = [Unsent EXCEPT !.pc = pc, !.act = a]]
  BY DEF ArriveReview, Replay
<1> DEFINE r == [Unsent EXCEPT !.pc = pc, !.act = a]
<1>2. pc \in PCs /\ TypeOK /\ del \in [Deliveries -> Requests]
  BY DEF IInv, TypeOK, PCs, InFlight, Requests
<1>3. r \in Requests /\ r.pc = pc /\ r.act = a
  <2>1. r \in Requests
    BY <1>2, RequestShapes
  <2>2. r.pc = pc /\ r.act = a
    BY <1>2, RequestFields
  <2> QED BY <2>1, <2>2
<1> HIDE DEF r
<1>4. del' = [del EXCEPT ![d] = r] /\ del'[d] = r /\ a \in Reviews /\ want' = [want EXCEPT ![a] = w]
  BY <1>1, <1>2 DEF r, ArriveReview
<1>5. w # NoWant /\ want'[a] = w
  BY <1>4, AskedIs DEF IInv, TypeOK
<1> QED BY <1>3, <1>4, <1>5 DEF Turned, RequestOK, Asked, VerdictOf

LEMMA CheckTurns ==
  ASSUME IInv, GoesOn, NEW d \in Deliveries, Check(d)
  PROVE  Turned(d)
<1>1. /\ TypeOK /\ RequestOK(d) /\ LoadedOK(d) /\ ActsGoOn /\ del[d].pc = "check" /\ del[d] \in Requests
      /\ UNCHANGED <<plan, pipeline, reviewVars, want>> /\ del \in [Deliveries -> Requests]
  <2>1. TypeOK /\ RequestOK(d) /\ ActsGoOn
    BY DEF IInv, GoesOn
  <2>2. del[d].pc = "check" /\ UNCHANGED <<plan, pipeline, reviewVars, want>>
    BY DEF Check, reviewVars
  <2>3. LoadedOK(d)
    BY <2>1, <2>2 DEF RequestOK
  <2>4. del[d] \in Requests
    BY <2>1, RequestShapes
  <2>5. del \in [Deliveries -> Requests]
    BY <2>1 DEF TypeOK, Requests, PCs
  <2> QED BY <2>1, <2>2, <2>3, <2>4, <2>5
<1>2. CASE End(d, "refused")
  <2>1. Over(d, "refused") \in Requests
    BY <1>1, RequestShapes DEF PCs
  <2>2. Over(d, "refused").pc = "refused" /\ Over(d, "refused").act = del[d].act
    BY <1>1, RequestFields DEF PCs
  <2>3. del' = [del EXCEPT ![d] = Over(d, "refused")] /\ del'[d] = Over(d, "refused")
    BY <1>1, <1>2 DEF End
  <2> QED BY <1>1, <2>1, <2>2, <2>3 DEF Turned, RequestOK, Asked, VerdictOf
<1>3. CASE /\ ~(Unreviewed # {} /\ Op(d) \in {"advance", "finalize"})
           /\ del' = [del EXCEPT ![d].pc = "write", ![d].missing = Unreviewed # {}]
  <2> DEFINE r == [del[d] EXCEPT !.pc = "write", !.missing = Unreviewed # {}]
  <2>1. "write" \in PCs /\ (Unreviewed # {}) \in BOOLEAN
    BY DEF PCs, InFlight
  <2>2. r \in Requests
    BY <1>1, <2>1 DEF Requests
  <2>3. /\ r.pc = "write" /\ r.act = del[d].act /\ r.at = del[d].at /\ r.owed = del[d].owed
        /\ r.tries = del[d].tries
    BY <1>1 DEF Requests
  <2>4. r.missing <=> Unreviewed # {}
    BY <1>1 DEF Requests
  <2>5. del' = [del EXCEPT ![d] = r] /\ del'[d] = r
    BY <1>1, <1>3
  <2> HIDE DEF r
  <2>6. Want(d)' = Want(d) /\ Op(d)' = Op(d)
    BY <1>1, <2>3, <2>5, WantStays
  <2>7. LoadedOK(d)'
    <3>1. LastStage' = LastStage
      BY <1>1 DEF LastStage
    <3>2. UNCHANGED interviews
      BY <1>1 DEF reviewVars
    <3> QED BY <1>1, <1>3, <2>3, <2>4, <2>5, <2>6, <3>1, <3>2 DEF LoadedOK, ReadOf
  <2>8. Asked(d)'
    BY <1>1, <2>3, <2>4, <2>5 DEF Asked, Unreviewed, reviewVars
  <2> QED BY <1>1, <2>2, <2>3, <2>5, <2>7, <2>8 DEF Turned, RequestOK, VerdictOf
<1> QED BY <1>2, <1>3 DEF Check

LEMMA WriteMoveTurns ==
  ASSUME IInv, GoesOn, NEW d \in Deliveries, WriteMove(d)
  PROVE  Turned(d)
<1>1. /\ TypeOK /\ RequestOK(d) /\ ActsGoOn /\ del[d].pc = "write" /\ Op(d) \in {"advance", "finalize"}
      /\ del \in [Deliveries -> Requests] /\ want' = want
  BY DEF IInv, TypeOK, GoesOn, WriteMove, Requests, PCs
<1>2. PICK pc \in {"answered", "refused"} : End(d, pc)
  BY DEF WriteMove
<1>3. pc \in PCs
  BY DEF PCs
<1>4. Over(d, pc) \in Requests
  BY <1>1, <1>3, RequestShapes
<1>5. Over(d, pc).pc = pc /\ Over(d, pc).act = del[d].act
  BY <1>1, <1>3, RequestFields
<1>6. del' = [del EXCEPT ![d] = Over(d, pc)] /\ del'[d] = Over(d, pc)
  BY <1>1, <1>2 DEF End
<1>7. Op(d)' = Op(d)
  BY <1>1, <1>5, <1>6, WantStays
<1> QED BY <1>1, <1>4, <1>5, <1>6, <1>7 DEF Turned, RequestOK, Asked, VerdictOf

LEMMA ReviewTurns ==
  ASSUME IInv, GoesOn, NEW d \in Deliveries, ReadPrevious(d) \/ AskAgain(d) \/ CommitReview(d)
  PROVE  Turned(d)
<1>1. /\ TypeOK /\ RequestOK(d) /\ del[d] \in Requests /\ want' = want
      /\ del \in [Deliveries -> Requests] /\ {"second", "commit", "third", "carry", "refused"} \subseteq PCs
  BY RequestShapes DEF IInv, TypeOK, ReadPrevious, AskAgain, CommitReview, Requests, PCs, InFlight
<1>2. del[d].act \in Reviews /\ del[d].act \in Acts /\ want[del[d].act] # NoWant
  BY <1>1 DEF RequestOK, ReadPrevious, AskAgain, CommitReview
<1>3. ASSUME NEW r \in Requests, r.pc \in {"second", "commit", "third", "carry", "refused"},
             r.act = del[d].act, del' = [del EXCEPT ![d] = r]
      PROVE  Turned(d)
  <2>1. del'[d] = r
    BY <1>1, <1>3
  <2> QED BY <1>1, <1>2, <1>3, <2>1 DEF Turned, RequestOK, Asked, VerdictOf
<1>4. CASE ReadPrevious(d)
  <2>1. PICK pc \in {"second", "commit"} : del' = [del EXCEPT ![d].pc = pc, ![d].prev = claim[Want(d).on]]
    BY <1>4 DEF ReadPrevious
  <2> DEFINE r == [del[d] EXCEPT !.pc = pc, !.prev = claim[Want(d).on]]
  <2>2. Want(d).on \in Interviews
    BY <1>2, ActsAssumption DEF IInv, WantsOK, AsksForReview, Want
  <2>3. claim[Want(d).on] \in Reviews \cup {"none"}
    BY <2>2 DEF IInv, TypeOK
  <2>4. r \in Requests /\ r.pc = pc /\ r.act = del[d].act
    BY <1>1, <2>3 DEF Requests
  <2>5. del' = [del EXCEPT ![d] = r]
    BY <2>1, <1>1
  <2> HIDE DEF r
  <2> QED BY <1>3, <2>4, <2>5
<1>5. CASE AskAgain(d)
  <2>1. CASE del' = [del EXCEPT ![d] = Replay(del[d].act)]
    <3>1. Replay(del[d].act) \in Requests
      BY <1>1, <1>2, RequestShapes DEF Replay
    <3>2. Replay(del[d].act).pc = "carry" /\ Replay(del[d].act).act = del[d].act
      BY <1>1, <1>2, RequestFields DEF Replay
    <3> QED BY <1>3, <2>1, <3>1, <3>2
  <2>2. CASE del' = [del EXCEPT ![d] = Over(d, "refused")]
    <3>1. Over(d, "refused") \in Requests
      BY <1>1, RequestShapes
    <3>2. Over(d, "refused").pc = "refused" /\ Over(d, "refused").act = del[d].act
      BY <1>1, RequestFields
    <3> QED BY <1>3, <2>2, <3>1, <3>2
  <2> QED BY <1>5, <2>1, <2>2 DEF AskAgain, UnlessLanded
<1>6. CASE CommitReview(d)
  <2>1. PICK pc \in {"third", "carry"} : del' = [del EXCEPT ![d].pc = pc]
    BY <1>6 DEF CommitReview, Step
  <2> DEFINE r == [del[d] EXCEPT !.pc = pc]
  <2>2. r \in Requests /\ r.pc = pc /\ r.act = del[d].act
    BY <1>1 DEF Requests
  <2>3. del' = [del EXCEPT ![d] = r]
    BY <1>1, <2>1
  <2> HIDE DEF r
  <2> QED BY <1>3, <2>2, <2>3
<1> QED BY <1>4, <1>5, <1>6

LEMMA CarryJourneyTurns ==
  ASSUME IInv, GoesOn, NEW d \in Deliveries, CarryJourney(d)
  PROVE  Turned(d)
<1>1. /\ TypeOK /\ RowOK /\ RequestOK(d) /\ ActsGoOn /\ del[d].pc = "carry" /\ plan' = plan
      /\ UNCHANGED <<reviewVars, want>> /\ pipeline' = EnsurePipeline
      /\ del \in [Deliveries -> Requests] /\ {"answered", "check"} \subseteq PCs
  BY DEF IInv, TypeOK, GoesOn, CarryJourney, Requests, PCs, InFlight
<1>2. /\ del[d].act \in Reviews /\ del[d].act \in Acts /\ del[d].act # "none" /\ want[del[d].act] # NoWant
      /\ Want(d) = want[del[d].act] /\ Op(d) = "review"
  BY <1>1, ActsAssumption DEF RequestOK, IInv, WantsOK, AsksForReview, AsksForPress, Want, Op
<1>3. CASE Want(d).outcome = "none" /\ End(d, "answered")
  <2>1. Over(d, "answered") \in Requests
    BY <1>1, RequestShapes
  <2>2. Over(d, "answered").pc = "answered" /\ Over(d, "answered").act = del[d].act
    BY <1>1, RequestFields
  <2>3. del' = [del EXCEPT ![d] = Over(d, "answered")] /\ del'[d] = Over(d, "answered")
    BY <1>1, <1>3 DEF End
  <2>4. Want(d)' = Want(d)
    BY <1>1, <2>2, <2>3, WantStays
  <2> QED BY <1>1, <1>2, <1>3, <2>1, <2>2, <2>3, <2>4 DEF Turned, RequestOK, Asked, VerdictOf
<1>4. CASE Want(d).outcome # "none" /\ del' = [del EXCEPT ![d] = LoadedFor(del[d].act, pipeline', "check")]
  <2> DEFINE r == LoadedFor(del[d].act, pipeline', "check")
  <2>1. /\ pipeline' \in Rows /\ pipeline'.status # "NONE" /\ LastStage \in Nat
        /\ (pipeline'.status = "NONE") = (pipeline'.at = 0)
    BY <1>1, EnsureIs, PlanIs DEF TypeOK, GoesOn, RowGoesOn
  <2>2. /\ StandsAt(pipeline') \in 0 .. LastStage /\ StandsAt(pipeline') <= pipeline'.at
        /\ StandsAt(pipeline') = 0 => pipeline'.status = "DECIDED"
    BY <2>1 DEF StandsAt, Rows
  <2>3. /\ r.pc = "check" /\ r.act = del[d].act /\ r.at = StandsAt(pipeline') /\ r.owed = Unreviewed
        /\ ~r.missing /\ r.tries = 0
    BY <1>1, LoadedFields
  <2>4. r \in Requests
    <3>1. Unreviewed \in SUBSET Interviews /\ Unsent \in Requests
      BY <1>1, RequestShapes DEF Unreviewed
    <3> QED BY <1>1, <1>2, <2>2, <3>1 DEF Requests, LoadedFor
  <2>5. del' = [del EXCEPT ![d] = r] /\ del'[d] = r
    BY <1>1, <1>4
  <2> HIDE DEF r
  <2>6. Want(d)' = Want(d) /\ Op(d)' = "review"
    BY <1>1, <1>2, <2>3, <2>5, WantStays
  <2>7. ReadOf(del[d].at)'
    BY <2>2, <2>3, <2>5 DEF ReadOf
  <2>8. \A i \in r.owed : interviews'[i] # "unscored"
    BY <1>1, <2>3 DEF Unreviewed, reviewVars
  <2>9. LoadedOK(d)'
    BY <1>4, <2>3, <2>5, <2>6, <2>7, <2>8, RetriesAssumption DEF LoadedOK
  <2> QED BY <1>1, <1>2, <2>3, <2>4, <2>5, <2>9 DEF Turned, RequestOK, Asked, VerdictOf
<1> QED BY <1>3, <1>4 DEF CarryJourney

LEMMA DropVerdictTurns ==
  ASSUME IInv, GoesOn, NEW d \in Deliveries, DropVerdict(d)
  PROVE  Turned(d)
<1> DEFINE r == [Over(d, "answered") EXCEPT !.tries = Retries]
<1>1. /\ TypeOK /\ RequestOK(d) /\ del[d].pc \in {"carry", "check", "write"} /\ Op(d) = "review"
      /\ UNCHANGED <<reviewVars, want>> /\ del \in [Deliveries -> Requests]
      /\ "answered" \in PCs /\ Retries \in 0 .. Retries
  BY RetriesAssumption DEF IInv, TypeOK, DropVerdict, Requests, PCs, InFlight
<1>2. Over(d, "answered") \in Requests
  BY <1>1, RequestShapes
<1>3. Over(d, "answered").act = del[d].act /\ Over(d, "answered").pc = "answered"
  BY <1>1, RequestFields
<1>4. r \in Requests /\ r.act = del[d].act /\ r.tries = Retries /\ r.pc = "answered"
  BY <1>1, <1>2, <1>3 DEF Requests
<1>5. del' = [del EXCEPT ![d] = r] /\ del'[d] = r
  BY <1>1 DEF DropVerdict
<1> HIDE DEF r
<1>6. ~(del'[d].tries < Retries)
  BY <1>4, <1>5, RetriesAssumption
<1>7. want[del[d].act] # NoWant
  BY <1>1 DEF RequestOK
<1> QED BY <1>1, <1>4, <1>5, <1>6, <1>7 DEF Turned, RequestOK, Asked, VerdictOf

(* A decision that does nothing to a row that was read, for a verdict      *)
(* about a stage of the plan and with nothing missing, is one the          *)
(* candidate is past, or the journey is closed.                            *)
LEMMA NothingToDo ==
  ASSUME IInv, NEW d \in Deliveries, del[d].pc = "write", Op(d) = "review",
         DecisionDoesNothing(d), ~del[d].missing, About(Want(d)) \in Stages \ {LastStage}
  PROVE  pipeline.status = "DECIDED"
         \/ (Want(d).outcome = "APPROVED" /\ pipeline.at > About(Want(d)))
<1>1. LoadedOK(d) /\ ReadOf(del[d].at) /\ EffectOf(d) = Nothing
  BY DEF IInv, RequestOK, LoadedOK, DecisionDoesNothing
<1>2. /\ LastStage \in Nat /\ pipeline.at \in 0 .. LastStage /\ del[d].at \in 0 .. LastStage
      /\ About(Want(d)) \in 1 .. LastStage
  BY PlanIs DEF IInv, TypeOK, Stages, LastStage
<1>3. CASE del[d].at = 0
  BY <1>1, <1>3 DEF ReadOf
<1>4. CASE del[d].at # 0
  <2>1. ResolveDecision(del[d].at, Want(d).outcome, About(Want(d))) = Nothing
    BY <1>1, <1>2, <1>4 DEF EffectOf, Stale
  <2>2. CloseAt(del[d].at) # Nothing /\ AdvanceTo(del[d].at + 1) # Nothing
    BY DEF CloseAt, AdvanceTo, Nothing
  <2>3. Want(d).outcome = "APPROVED" /\ ~(About(Want(d)) >= del[d].at)
    BY <2>1, <2>2 DEF ResolveDecision
  <2> QED BY <1>1, <1>2, <2>3 DEF ReadOf
<1> QED BY <1>3, <1>4

LEMMA DecidePipelineTurns ==
  ASSUME IInv, GoesOn, NEW d \in Deliveries, DecidePipeline(d)
  PROVE  Turned(d)
<1>1. /\ TypeOK /\ RequestOK(d) /\ LoadedOK(d) /\ ActsGoOn /\ RowGoesOn /\ del[d].pc = "write"
      /\ Op(d) \in {"decide", "review"} /\ UNCHANGED <<plan, reviewVars, want>>
      /\ del[d] \in Requests /\ del \in [Deliveries -> Requests]
      /\ {"answered", "refused", "write"} \subseteq PCs
  BY RequestShapes DEF IInv, TypeOK, GoesOn, RequestOK, DecidePipeline, Requests, PCs, InFlight
<1>2. del[d].act \in Acts /\ want[del[d].act] # NoWant
  BY <1>1 DEF RequestOK
<1>3. ASSUME NEW pc \in {"answered", "refused"}, End(d, pc), pc = "answered" => VerdictOf(d)'
      PROVE  Turned(d)
  <2>1. Over(d, pc) \in Requests
    BY <1>1, RequestShapes
  <2>2. Over(d, pc).pc = pc /\ Over(d, pc).act = del[d].act
    BY <1>1, RequestFields
  <2>3. del' = [del EXCEPT ![d] = Over(d, pc)] /\ del'[d] = Over(d, pc)
    BY <1>1, <1>3 DEF End
  <2> QED BY <1>1, <1>2, <1>3, <2>1, <2>2, <2>3 DEF Turned, RequestOK, Asked, VerdictOf
<1>4. ASSUME NEW pc \in {"answered", "refused"}, End(d, pc)
      PROVE  /\ del'[d].act = del[d].act /\ (del'[d].missing <=> del[d].missing)
             /\ Op(d)' = Op(d) /\ Want(d)' = Want(d) /\ About(Want(d))' = About(Want(d))
             /\ Stages' = Stages /\ LastStage' = LastStage
  <2>1. Over(d, pc).act = del[d].act /\ (Over(d, pc).missing <=> del[d].missing)
    BY <1>1, RequestFields
  <2>2. del'[d] = Over(d, pc)
    BY <1>1, <1>4 DEF End
  <2>3. Op(d)' = Op(d) /\ Want(d)' = Want(d)
    BY <1>1, <2>1, <2>2, WantStays
  <2> QED BY <1>1, <2>1, <2>2, <2>3, PlanStays
<1>5. CASE DecisionDoesNothing(d) /\ NotApplied(d) /\ UNCHANGED <<pipeline, moves>>
  <2>1. PICK pc \in {"answered", "refused"} : End(d, pc) /\ (pc = "answered" => Op(d) = "review")
    BY <1>5 DEF NotApplied
  <2>2. pc = "answered" => VerdictOf(d)'
    BY <1>1, <1>4, <1>5, <2>1, NothingToDo DEF VerdictOf
  <2> QED BY <1>3, <2>1, <2>2
<1>6. CASE MovesOn(d) /\ End(d, "answered")
  <2>1. moves'[del[d].act] > 0 /\ (Op(d) \in {"decide", "review"} => Want(d).outcome = "APPROVED")
    BY <1>1, <1>2, <1>6, MovesGoOn DEF MovesOn, TypeOK
  <2>2. VerdictOf(d)'
    BY <1>1, <1>4, <1>6, <2>1 DEF VerdictOf
  <2> QED BY <1>3, <1>6, <2>2
<1>7. CASE ClosesAt(d) /\ End(d, "answered")
  <2>1. VerdictOf(d)'
    BY <1>1, <1>7, ClosesGoOn DEF VerdictOf
  <2> QED BY <1>3, <1>7, <2>1
<1>8. CASE ~DecisionDoesNothing(d) /\ DecisionContended(d) /\ UNCHANGED <<pipeline, moves>>
  <2>1. CASE del[d].tries + 1 = Retries
    <3> DEFINE step == IF Op(d) = "review" THEN "answered" ELSE "refused"
               r == [Over(d, step) EXCEPT !.tries = Retries]
    <3>1. Retries \in 0 .. Retries /\ step \in {"answered", "refused"}
      BY RetriesAssumption
    <3> HIDE DEF step
    <3>2. step \in PCs
      BY <1>1, <3>1
    <3>3. Over(d, step) \in Requests
      BY <1>1, <3>2, RequestShapes
    <3>4. Over(d, step).act = del[d].act /\ Over(d, step).pc = step
      BY <1>1, <3>2, RequestFields
    <3>5. r \in Requests /\ r.act = del[d].act /\ r.tries = Retries /\ r.pc \in {"answered", "refused"}
      BY <3>1, <3>3, <3>4 DEF Requests
    <3>6. del' = [del EXCEPT ![d] = r] /\ del'[d] = r
      BY <1>1, <1>8, <2>1 DEF DecisionContended, step
    <3> HIDE DEF r
    <3>7. ~(del'[d].tries < Retries)
      BY <3>5, <3>6, RetriesAssumption
    <3> QED BY <1>1, <1>2, <3>5, <3>6, <3>7 DEF Turned, RequestOK, Asked, VerdictOf
  <2>2. CASE del[d].tries + 1 # Retries
    <3> DEFINE r == [del[d] EXCEPT !.at = StandsAt(pipeline), !.tries = @ + 1]
    <3>1. del[d].tries \in 0 .. Retries /\ del[d].tries < Retries /\ Retries \in Nat
      BY <1>1, RetriesAssumption DEF LoadedOK, Requests
    <3>2. del[d].tries + 1 \in 0 .. Retries /\ del[d].tries + 1 < Retries
      BY <2>2, <3>1
    <3>3. pipeline.status # "NONE"
      BY <1>1, <1>8, PlanIs DEF DecisionDoesNothing, EffectOf, LoadedOK, ReadOf, TypeOK, Requests
    <3>4. ReadOf(StandsAt(pipeline)) /\ StandsAt(pipeline) \in 0 .. LastStage
      BY <1>1, <3>3, StandsAtIs
    <3>5. /\ r \in Requests /\ r.pc = "write" /\ r.act = del[d].act /\ r.at = StandsAt(pipeline)
          /\ r.owed = del[d].owed /\ (r.missing <=> del[d].missing) /\ r.tries = del[d].tries + 1
      BY <1>1, <3>2, <3>4 DEF Requests
    <3>6. del' = [del EXCEPT ![d] = r] /\ del'[d] = r
      BY <1>1, <1>8, <2>2 DEF DecisionContended
    <3> HIDE DEF r
    <3>7. Want(d)' = Want(d) /\ Op(d)' = Op(d)
      BY <1>1, <3>5, <3>6, WantStays
    <3>8. ReadOf(del[d].at)'
      BY <1>8, <3>4, <3>5, <3>6 DEF ReadOf
    <3>9. \A i \in r.owed : interviews'[i] # "unscored"
      BY <1>1, <3>5 DEF LoadedOK, reviewVars
    <3>10. LoadedOK(d)'
      BY <1>1, <3>2, <3>5, <3>6, <3>7, <3>8, <3>9 DEF LoadedOK
    <3>11. Asked(d)'
      BY <1>1, <3>5, <3>6, <3>7 DEF RequestOK, Asked, Unreviewed, reviewVars
    <3> QED BY <1>1, <1>2, <3>5, <3>6, <3>10, <3>11 DEF Turned, RequestOK, VerdictOf
  <2> QED BY <2>1, <2>2
<1>9. CASE /\ ~DecisionDoesNothing(d) /\ Stands(del[d].at) /\ End(d, "answered")
           /\ IF EffectOf(d).kind = "close" THEN ClosePipeline(d) ELSE MoveAndAward(d, EffectOf(d).to)
  <2>1. MovesOn(d) \/ ClosesAt(d)
    BY <1>9, DecisionMade
  <2> QED BY <1>6, <1>7, <1>9, <2>1
<1> QED BY <1>5, <1>8, <1>9 DEF DecidePipeline

----
(* The rest of the invariant, and the theorems.                            *)

(* A press that has moved the candidate is behind them, so that no further *)
(* copy of it finds the candidate where it would move them.                *)
LEMMA MovedStays ==
  ASSUME IInv, GoesOn, moves' = moves, NEW a \in Presses
  PROVE  MovedOK(a)'
<1>1. a \in Acts /\ MovedOK(a) /\ LastStage' = LastStage /\ LastStage \in Nat
  BY PlanIs, PlanStays DEF IInv, TypeOK, GoesOn, RowGoesOn, Acts
<1>2. pipeline.at \in 0 .. LastStage /\ pipeline'.at \in 0 .. LastStage /\ pipeline.at <= pipeline'.at
  BY DEF IInv, TypeOK, GoesOn, RowGoesOn, Rows
<1>3. CASE moves[a] = 1
  <2>1. /\ want[a] # NoWant /\ want'[a] = want[a] /\ want[a].stage \in 0 .. LastStage
        /\ want[a].op \in {"advance", "decide"} => pipeline.at > want[a].stage
        /\ want[a].op = "finalize" => pipeline.at = LastStage
    BY <1>1, <1>3 DEF MovedOK, GoesOn, ActsGoOn, IInv, TypeOK
  <2> QED BY <1>1, <1>2, <1>3, <2>1 DEF MovedOK
<1> QED BY <1>1, <1>3 DEF MovedOK

LEMMA MovingOnce ==
  ASSUME IInv, GoesOn, NEW d \in Deliveries, del[d].pc = "write", MovesOn(d), NEW a \in Presses
  PROVE  MovedOK(a)'
<1>1. /\ a \in Acts /\ MovedOK(a) /\ LastStage' = LastStage /\ LastStage \in Nat /\ plan' = plan
      /\ a \notin Reviews
  BY PlanIs, PlanStays, ActsAssumption DEF IInv, TypeOK, GoesOn, RowGoesOn, Acts
<1>2. /\ del[d].act \in Acts /\ moves' = [moves EXCEPT ![del[d].act] = @ + 1]
      /\ pipeline'.at \in pipeline.at + 1 .. LastStage /\ pipeline.at \in 0 .. LastStage
      /\ moves \in [Acts -> Nat]
  BY <1>1, MovesGoOn DEF IInv, TypeOK
<1>3. CASE a # del[d].act
  <2>1. moves'[a] = moves[a] /\ moves[a] \in {0, 1}
    BY <1>1, <1>2, <1>3 DEF MovedOK
  <2>2. CASE moves[a] = 1
    <3>1. /\ want[a] # NoWant /\ want'[a] = want[a] /\ want[a].stage \in 0 .. LastStage
          /\ want[a].op \in {"advance", "decide"} => pipeline.at > want[a].stage
          /\ want[a].op = "finalize" => pipeline.at = LastStage
      BY <1>1, <2>2 DEF MovedOK, GoesOn, ActsGoOn, IInv, TypeOK
    <3> QED BY <1>1, <1>2, <2>1, <3>1 DEF MovedOK
  <2> QED BY <2>1, <2>2 DEF MovedOK
<1>4. CASE a = del[d].act
  <2>1. /\ want[a] # NoWant /\ want'[a] = want[a] /\ AsksForPress(want[a]) /\ want[a].stage \in 0 .. LastStage
    BY <1>1, <1>4 DEF IInv, RequestOK, WantsOK, TypeOK, GoesOn, ActsGoOn
  <2>2. Want(d) = want[a] /\ Op(d) = want[a].op
    BY <1>1, <1>4, ActsAssumption DEF Want, Op
  <2>3. PICK to \in 1 .. LastStage :
          /\ pipeline.at \in 1 .. LastStage - 1
          /\ (Op(d) = "finalize" /\ to = LastStage) \/ (Op(d) # "finalize" /\ to = pipeline.at + 1)
          /\ Op(d) \in {"advance", "decide"} => Want(d).stage = pipeline.at
          /\ pipeline' = [pipeline EXCEPT !.at = to]
    BY DEF MovesOn, MoveAndAward
  <2>4. pipeline'.at = to
    BY <2>3 DEF IInv, TypeOK
  <2>5. moves[a] = 0
    BY <1>1, <1>2, <2>1, <2>2, <2>3 DEF MovedOK, AsksForPress
  <2>6. moves'[a] = 1
    BY <1>1, <1>2, <1>4, <2>5
  <2> QED BY <1>1, <1>2, <2>1, <2>2, <2>3, <2>4, <2>6 DEF MovedOK
<1> QED BY <1>3, <1>4

(* What was not touched keeps its type, and acts still ask what they may.  *)
LEMMA WantsStay ==
  ASSUME IInv, RowGoesOn, want' = want
  PROVE  want' \in [Acts -> Wants] /\ WantsOK'
<1>1. want' \in [Acts -> Wants] /\ Stages' = Stages
  BY PlanStays DEF IInv, TypeOK, Wants, RowGoesOn
<1> QED BY <1>1 DEF IInv, WantsOK, AsksForPress, AsksForReview

LEMMA WantsAsked ==
  ASSUME IInv, RowGoesOn, NEW a \in Acts, NEW w \in AskedAs(a), want' = [want EXCEPT ![a] = w]
  PROVE  want' \in [Acts -> Wants] /\ WantsOK'
<1>1. /\ w \in Wants
      /\ (a \in Presses /\ AsksForPress(w)) \/ (a \in Reviews /\ AsksForReview(w))
  BY AskedIs DEF IInv
<1>2. want \in [Acts -> Wants] /\ Stages' = Stages
  BY PlanStays DEF IInv, TypeOK, Wants, RowGoesOn
<1>3. want' \in [Acts -> Wants]
  BY <1>1, <1>2
<1>4. ASSUME NEW b \in Acts, want'[b] # NoWant
      PROVE  (b \in Presses /\ AsksForPress(want'[b])) \/ (b \in Reviews /\ AsksForReview(want'[b]))
  <2>1. CASE b = a
    BY <1>1, <1>2, <2>1
  <2>2. CASE b # a
    <3>1. want'[b] = want[b]
      BY <1>2, <2>2
    <3> QED BY <1>4, <3>1 DEF IInv, WantsOK
  <2> QED BY <2>1, <2>2
<1> QED BY <1>2, <1>3, <1>4 DEF WantsOK, AsksForPress, AsksForReview

(* The parts of the invariant, together.                                   *)
LEMMA Assembled ==
  ASSUME IInv, GoesOn,
         awards' \subseteq {"bronze", "silver", "gold", "diamond"},
         upload' \in [Uploads -> UploadStates], \A u \in Uploads : UploadOK(u)', EventsLand',
         interviews' \in [Interviews -> {"unscored", "due", "exempt"}],
         claim' \in [Interviews -> landed' \cup {"none"}], landed' \subseteq Reviews,
         want' \in [Acts -> Wants], WantsOK', moves' \in [Acts -> Nat],
         \A a \in Presses : MovedOK(a)',
         del' \in [Deliveries -> Requests], \A e \in Deliveries : RequestOK(e)', VerdictCarried'
  PROVE  IInv'
<1>1. /\ plan' \in Plans /\ LastStage' = LastStage /\ pipeline' \in Rows
      /\ (pipeline'.status = "DECIDED") = (pipeline'.decision # "none")
      /\ (pipeline'.status = "NONE") = (pipeline'.at = 0)
  BY PlanStays DEF IInv, TypeOK, GoesOn, RowGoesOn
<1>2. TypeOK'
  BY <1>1 DEF TypeOK, Rows, UploadStates, Wants, Requests, PCs
<1>3. RowOK'
  BY DEF RowOK, GoesOn, RowGoesOn
<1> QED BY <1>2, <1>3 DEF IInv

LEMMA IInvInit == Init => IInv
<1> SUFFICES ASSUME Init PROVE IInv
  OBVIOUS
<1>1. /\ plan \in Plans /\ LastStage \in Nat /\ LastStage >= 2 /\ Stages = 1 .. LastStage
  BY PlanIs DEF Init, Stages, LastStage
<1>2. /\ pipeline \in Rows /\ pipeline.decision = "none" /\ pipeline.decidedAt = 0
      /\ pipeline.status # "DECIDED" /\ (pipeline.status = "NONE") = (pipeline.at = 0)
  <2>1. NoPipeline \in Rows
    BY <1>1 DEF NoPipeline, Rows
  <2>2. CASE pipeline = NoPipeline
    BY <2>1, <2>2 DEF NoPipeline
  <2>3. ASSUME NEW at \in Stages, pipeline = [NewPipeline EXCEPT !.at = at]
        PROVE  /\ pipeline \in Rows /\ pipeline.decision = "none" /\ pipeline.decidedAt = 0
               /\ pipeline.status = "ACTIVE" /\ pipeline.at = at
    <3>1. /\ NewPipeline \in Rows /\ NewPipeline.status = "ACTIVE"
          /\ NewPipeline.decision = "none" /\ NewPipeline.decidedAt = 0
      BY <1>1, NewPipelineIs
    <3>2. at \in 0 .. LastStage
      BY <1>1
    <3> HIDE DEF NewPipeline
    <3> QED BY <2>3, <3>1, <3>2 DEF Rows
  <2> QED BY <1>1, <2>2, <2>3 DEF Init
<1>3. awards \subseteq {"bronze", "silver", "gold", "diamond"}
  BY DEF Init, EarnedUpTo
<1>4. /\ upload \in [Uploads -> UploadStates] /\ 0 < Retries
      /\ \A u \in Uploads : upload[u].pc = "waiting" /\ upload[u].tries = 0
  BY <1>1, RetriesAssumption DEF Init, UploadStates
<1>5. want \in [Acts -> Wants] /\ \A a \in Acts : want[a] = NoWant /\ moves[a] = 0
  BY <1>1 DEF Init, Wants, NoWant
<1>6. del \in [Deliveries -> Requests] /\ \A d \in Deliveries : del[d] = Unsent
  <2>1. Unsent \in Requests
    BY <1>1, RetriesAssumption DEF Requests, PCs, Unsent
  <2> QED BY <2>1 DEF Init
<1>7. /\ interviews \in [Interviews -> {"unscored", "due", "exempt"}] /\ landed = {}
      /\ claim \in [Interviews -> {"none"}] /\ moves \in [Acts -> Nat]
  BY DEF Init
<1>8. TypeOK
  BY <1>1, <1>2, <1>3, <1>4, <1>5, <1>6, <1>7 DEF TypeOK, Rows, UploadStates, Wants, Requests, PCs
<1>9. Unsent.pc = "unsent" /\ \A d \in Deliveries : del[d].pc = "unsent"
  BY <1>6 DEF Unsent
<1>10. \A d \in Deliveries : RequestOK(d)
  BY <1>9 DEF RequestOK, Asked
<1>11. VerdictCarried /\ EventsLand
  BY <1>4, <1>9 DEF VerdictCarried, EventsLand
<1>12. WantsOK /\ \A a \in Presses : MovedOK(a)
  BY <1>5 DEF WantsOK, MovedOK, Acts
<1> QED BY <1>2, <1>4, <1>8, <1>10, <1>11, <1>12 DEF IInv, RowOK, UploadOK

LEMMA UploadTurns ==
  ASSUME IInv, RowGoesOn, NEW u \in Uploads,
         StoreProfile(u) \/ NoteProfiled(u) \/ ApplyPipelineEvent(u) \/ DropEvent(u)
  PROVE  \E r \in UploadStates :
            /\ upload' = [upload EXCEPT ![u] = r]
            /\ r.pc # "done" => r.tries < Retries
            /\ r.pc = "apply" => r.at <= pipeline'.at /\ (r.at = 0 => pipeline'.status = "DECIDED")
            /\ r.pc = "done" /\ r.tries < Retries
                  => pipeline'.status = "DECIDED" \/ pipeline'.at >= TargetStage("candidate.profiled")
<1> DEFINE target == TargetStage("candidate.profiled")
           x == upload[u]
<1>1. /\ TypeOK /\ RowOK /\ upload \in [Uploads -> UploadStates] /\ x \in UploadStates
      /\ LastStage \in Nat /\ LastStage >= 2 /\ Retries \in Nat /\ Retries > 0 /\ target \in 0 .. LastStage - 1
      /\ pipeline.at \in 0 .. LastStage
      /\ x.pc # "done" => x.tries < Retries
      /\ x.pc = "apply" => ReadOf(x.at)
  BY PlanIs, TargetIs, RetriesAssumption DEF IInv, TypeOK, UploadStates, UploadOK
<1> HIDE DEF target
<1>2. CASE StoreProfile(u)
  <2> DEFINE r == [x EXCEPT !.pc = "stored"]
  <2>1. r \in UploadStates /\ r.pc = "stored" /\ r.tries = x.tries /\ x.pc # "done"
    BY <1>1, <1>2 DEF UploadStates, StoreProfile
  <2>2. upload' = [upload EXCEPT ![u] = r]
    BY <1>1, <1>2 DEF StoreProfile
  <2> HIDE DEF r, x
  <2> QED BY <1>1, <2>1, <2>2
<1>3. CASE NoteProfiled(u)
  <2> DEFINE at == StandsAt(pipeline')
             r == [x EXCEPT !.pc = "apply", !.at = at]
  <2>1. pipeline' \in Rows /\ pipeline'.status # "NONE" /\ (pipeline'.status = "NONE") = (pipeline'.at = 0)
    BY <1>1, <1>3, EnsureIs DEF NoteProfiled, RowGoesOn
  <2>2. at \in 0 .. LastStage /\ at <= pipeline'.at /\ (at = 0 => pipeline'.status = "DECIDED")
    BY <1>1, <2>1 DEF StandsAt, Rows
  <2>3. upload' = [upload EXCEPT ![u] = r] /\ x.pc # "done"
    BY <1>1, <1>3 DEF NoteProfiled
  <2> HIDE DEF at
  <2>4. r \in UploadStates /\ r.pc = "apply" /\ r.at = at /\ r.tries = x.tries
    BY <1>1, <2>2 DEF UploadStates
  <2> HIDE DEF r, x
  <2> QED BY <1>1, <2>2, <2>3, <2>4
<1>4. CASE ApplyPipelineEvent(u)
  <2> DEFINE to == ResolveTransition(x.at, "candidate.profiled")
             over == [x EXCEPT !.pc = "done"]
  <2>1. over \in UploadStates /\ over.pc = "done" /\ over.tries = x.tries
    BY <1>1 DEF UploadStates
  <2>2. x.pc = "apply" /\ ReadOf(x.at) /\ x.at \in 0 .. LastStage
    BY <1>1, <1>4 DEF ApplyPipelineEvent, UploadStates
  <2>3. to = IF target > x.at THEN target ELSE 0
    BY DEF ResolveTransition, target
  <2> HIDE DEF to
  <2>4. CASE (x.at = 0 \/ to = 0) /\ upload' = [upload EXCEPT ![u].pc = "done"] /\ UNCHANGED pipeline
    <3>1. upload' = [upload EXCEPT ![u] = over]
      BY <1>1, <2>4
    <3>2. pipeline'.status = "DECIDED" \/ pipeline'.at >= target
      BY <1>1, <2>2, <2>3, <2>4 DEF ReadOf
    <3> HIDE DEF over
    <3> QED BY <2>1, <3>1, <3>2 DEF target
  <2>5. CASE to # 0 /\ upload' = [upload EXCEPT ![u].pc = "done"] /\ pipeline' = [pipeline EXCEPT !.at = to]
    <3>1. upload' = [upload EXCEPT ![u] = over]
      BY <1>1, <2>5
    <3>2. pipeline'.at >= target
      BY <1>1, <2>3, <2>5 DEF TypeOK
    <3> HIDE DEF over
    <3> QED BY <2>1, <3>1, <3>2 DEF target
  <2>6. CASE x.at # 0 /\ upload' = [upload EXCEPT ![u] = AfterConflict(x)] /\ UNCHANGED pipeline
    <3>1. CASE x.tries + 1 = Retries
      <4> DEFINE r == [x EXCEPT !.pc = "done", !.tries = Retries]
      <4>1. r = AfterConflict(x) /\ Retries \in 0 .. Retries
        BY <1>1, <3>1 DEF AfterConflict
      <4>2. r \in UploadStates /\ r.pc = "done" /\ r.tries = Retries
        BY <1>1, <4>1 DEF UploadStates
      <4> HIDE DEF r, x, over
      <4>3. ~(r.tries < Retries)
        BY <1>1, <4>2
      <4> QED BY <2>6, <4>1, <4>2, <4>3
    <3>2. CASE x.tries + 1 # Retries
      <4> DEFINE r == [x EXCEPT !.at = StandsAt(pipeline), !.tries = @ + 1]
      <4>1. x.tries \in 0 .. Retries /\ x.tries < Retries
        BY <1>1, <2>2 DEF UploadStates
      <4>2. r = AfterConflict(x) /\ x.tries + 1 \in 0 .. Retries /\ x.tries + 1 < Retries
        BY <1>1, <3>2, <4>1 DEF AfterConflict
      <4>3. pipeline.status # "NONE"
        BY <1>1, <2>2, <2>6 DEF ReadOf, TypeOK
      <4>4. ReadOf(StandsAt(pipeline)) /\ StandsAt(pipeline) \in 0 .. LastStage
        BY <1>1, <4>3, StandsAtIs
      <4>5. r \in UploadStates /\ r.pc = x.pc /\ r.at = StandsAt(pipeline) /\ r.tries = x.tries + 1
        BY <1>1, <4>2, <4>4 DEF UploadStates
      <4> HIDE DEF r, x
      <4> QED BY <2>2, <2>6, <4>2, <4>4, <4>5 DEF ReadOf
    <3> QED BY <3>1, <3>2
  <2> QED BY <1>4, <2>4, <2>5, <2>6 DEF ApplyPipelineEvent, to
<1>5. CASE DropEvent(u)
  <2> DEFINE r == [x EXCEPT !.pc = "done", !.tries = Retries]
  <2>1. Retries \in 0 .. Retries
    BY <1>1
  <2>2. r \in UploadStates /\ r.pc = "done" /\ r.tries = Retries
    BY <1>1, <2>1 DEF UploadStates
  <2>3. upload' = [upload EXCEPT ![u] = r]
    BY <1>5 DEF DropEvent
  <2> HIDE DEF r, x
  <2>4. ~(r.tries < Retries)
    BY <1>1, <2>2
  <2> QED BY <2>2, <2>3, <2>4
<1> QED BY <1>2, <1>3, <1>4, <1>5

LEMMA IInvSystem == IInv /\ SystemStep => IInv'
<1> SUFFICES ASSUME IInv, SystemStep PROVE IInv'
  OBVIOUS
<1>1. GoesOn /\ RowGoesOn /\ TypeOK
  BY SystemGoesOn DEF IInv, GoesOn
<1>2. UNCHANGED <<reviewVars, want, del, moves>>
  BY DEF SystemStep, StartPipeline, StoreProfile, NoteProfiled, ApplyPipelineEvent, DropEvent
<1>3. awards' \subseteq {"bronze", "silver", "gold", "diamond"}
  <2>1. awards \subseteq {"bronze", "silver", "gold", "diamond"}
    BY <1>1 DEF TypeOK
  <2>2. awards' \subseteq awards \cup {"bronze"}
    BY DEF SystemStep, StartPipeline, StoreProfile, NoteProfiled, ApplyPipelineEvent, DropEvent
  <2> QED BY <2>1, <2>2
<1>4. /\ upload' \in [Uploads -> UploadStates] /\ EventsLand'
      /\ \A v \in Uploads : UploadOK(v)'
  <2>1. CASE upload' = upload
    BY <1>1, <2>1, UploadsUntouched
  <2>2. ASSUME NEW u \in Uploads,
               StoreProfile(u) \/ NoteProfiled(u) \/ ApplyPipelineEvent(u) \/ DropEvent(u)
        PROVE  /\ upload' \in [Uploads -> UploadStates] /\ EventsLand'
               /\ \A v \in Uploads : UploadOK(v)'
    <3>1. PICK r \in UploadStates :
            /\ upload' = [upload EXCEPT ![u] = r]
            /\ r.pc # "done" => r.tries < Retries
            /\ r.pc = "apply" => r.at <= pipeline'.at /\ (r.at = 0 => pipeline'.status = "DECIDED")
            /\ r.pc = "done" /\ r.tries < Retries
                  => pipeline'.status = "DECIDED" \/ pipeline'.at >= TargetStage("candidate.profiled")
      BY <1>1, <2>2, UploadTurns
    <3>2. r.pc = "apply" => ReadOf(r.at)'
      BY <3>1 DEF ReadOf
    <3> QED BY <1>1, <3>1, <3>2, UploadTouched
  <2> QED BY <2>1, <2>2 DEF SystemStep, StartPipeline
<1>5. /\ interviews' \in [Interviews -> {"unscored", "due", "exempt"}]
      /\ claim' \in [Interviews -> landed' \cup {"none"}] /\ landed' \subseteq Reviews
      /\ moves' \in [Acts -> Nat]
  BY <1>1, <1>2 DEF TypeOK, reviewVars
<1> QED BY <1>1, <1>2, <1>3, <1>4, <1>5, WantsStay, MovedStays, RequestsUntouched, Assembled

LEMMA IInvInterview == IInv /\ InterviewStep => IInv'
<1> SUFFICES ASSUME IInv, NEW i \in Interviews, Assessed(i) \/ Retaken(i) PROVE IInv'
  BY DEF InterviewStep
<1>1. GoesOn /\ RowGoesOn /\ TypeOK
  BY InterviewGoesOn DEF IInv, GoesOn, InterviewStep
<1>2. UNCHANGED <<awards, upload, claim, landed, want, del, moves>>
  BY DEF Assessed, Retaken
<1>3. /\ interviews' \in [Interviews -> {"unscored", "due", "exempt"}]
      /\ awards' \subseteq {"bronze", "silver", "gold", "diamond"}
      /\ claim' \in [Interviews -> landed' \cup {"none"}] /\ landed' \subseteq Reviews
      /\ moves' \in [Acts -> Nat]
  BY <1>1, <1>2 DEF TypeOK, Assessed, Retaken
<1> QED BY <1>1, <1>2, <1>3, UploadsUntouched, WantsStay, MovedStays, RequestsUntouched, Assembled

LEMMA RequestTurns ==
  ASSUME IInv, GoesOn, NEW d \in Deliveries, RequestStep(d)
  PROVE  Turned(d)
BY ArriveTurns, ArriveReviewTurns, CheckTurns, WriteMoveTurns, DecidePipelineTurns, ReviewTurns,
   CarryJourneyTurns, DropVerdictTurns DEF RequestStep

LEMMA IInvRequest ==
  ASSUME IInv, NEW d \in Deliveries, RequestStep(d)
  PROVE  IInv'
<1>1. GoesOn /\ RowGoesOn /\ TypeOK /\ upload' = upload
  BY RequestGoesOn DEF IInv, GoesOn, RequestStep, Arrive, ArriveReview, Check, WriteMove,
     DecidePipeline, ReadPrevious, AskAgain, CommitReview, CarryJourney, DropVerdict
<1>2. /\ del' \in [Deliveries -> Requests] /\ VerdictCarried'
      /\ \A e \in Deliveries : RequestOK(e)'
  BY <1>1, RequestTurns, RequestTouched DEF Turned
<1>3. want' \in [Acts -> Wants] /\ WantsOK'
  <2>1. CASE want' = want
    BY <1>1, <2>1, WantsStay
  <2>2. ASSUME NEW a \in Acts, NEW w \in AskedAs(a), want' = [want EXCEPT ![a] = w]
        PROVE  want' \in [Acts -> Wants] /\ WantsOK'
    BY <1>1, <2>2, WantsAsked
  <2> QED BY <2>1, <2>2 DEF RequestStep, Arrive, ArriveReview, Check, WriteMove,
             DecidePipeline, ReadPrevious, AskAgain, CommitReview, CarryJourney, DropVerdict
<1>4. \/ UNCHANGED <<awards, moves>>
      \/ del[d].pc = "write" /\ MovesOn(d)
  BY WriteMoveIs, DecidePipelineIs, ClosesGoOn, <1>1
     DEF RequestStep, Arrive, ArriveReview, Check, WriteMove, DecidePipeline, ReadPrevious, AskAgain,
         CommitReview, CarryJourney, DropVerdict, RowGoesOn
<1>5. /\ awards' \subseteq {"bronze", "silver", "gold", "diamond"} /\ moves' \in [Acts -> Nat]
      /\ \A a \in Presses : MovedOK(a)'
  <2>1. CASE UNCHANGED <<awards, moves>>
    BY <1>1, <2>1, MovedStays DEF TypeOK
  <2>2. CASE del[d].pc = "write" /\ MovesOn(d)
    <3>1. awards' \subseteq {"bronze", "silver", "gold", "diamond"}
      BY <1>1, <2>2, BadgesAre DEF MovesOn, MoveAndAward, TypeOK
    <3>2. moves' \in [Acts -> Nat]
      BY <1>1, <2>2, MovesGoOn DEF TypeOK, RowGoesOn
    <3>3. \A a \in Presses : MovedOK(a)'
      BY <1>1, <2>2, MovingOnce
    <3> QED BY <3>1, <3>2, <3>3
  <2> QED BY <1>4, <2>1, <2>2
<1>6. /\ interviews' \in [Interviews -> {"unscored", "due", "exempt"}]
      /\ claim' \in [Interviews -> landed' \cup {"none"}] /\ landed' \subseteq Reviews
  <2>1. CASE UNCHANGED reviewVars
    BY <1>1, <2>1 DEF TypeOK, reviewVars
  <2>2. CASE CommitReview(d)
    <3>1. del[d].act \in Reviews
      BY <2>2 DEF CommitReview, IInv, RequestOK
    <3>2. \/ UNCHANGED <<claim, landed>>
          \/ /\ claim' = [claim EXCEPT ![Want(d).on] = del[d].act]
             /\ landed' = landed \cup {del[d].act}
      BY <2>2 DEF CommitReview
    <3>3. interviews' = interviews
      BY <2>2 DEF CommitReview
    <3> QED BY <1>1, <3>1, <3>2, <3>3 DEF TypeOK
  <2> QED BY <2>1, <2>2 DEF RequestStep, Arrive, ArriveReview, Check, WriteMove,
             DecidePipeline, ReadPrevious, AskAgain, CarryJourney, DropVerdict
<1>7. upload' \in [Uploads -> UploadStates] /\ EventsLand' /\ \A u \in Uploads : UploadOK(u)'
  BY <1>1, UploadsUntouched
<1> QED BY <1>1, <1>2, <1>3, <1>5, <1>6, <1>7, Assembled

LEMMA IInvStep == IInv /\ [Next]_vars => IInv'
<1> SUFFICES ASSUME IInv, [Next]_vars PROVE IInv'
  OBVIOUS
<1>1. CASE UNCHANGED vars
  <2>1. UNCHANGED <<plan, pipeline, awards, upload, reviewVars, want, del, moves>>
    BY <1>1 DEF vars
  <2>2. GoesOn /\ RowGoesOn /\ TypeOK
    BY StepGoesOn DEF GoesOn, IInv
  <2>3. /\ interviews' \in [Interviews -> {"unscored", "due", "exempt"}]
        /\ awards' \subseteq {"bronze", "silver", "gold", "diamond"}
        /\ claim' \in [Interviews -> landed' \cup {"none"}] /\ landed' \subseteq Reviews
        /\ moves' \in [Acts -> Nat]
    BY <2>1, <2>2 DEF TypeOK, reviewVars
  <2> QED BY <2>1, <2>2, <2>3, UploadsUntouched, WantsStay, MovedStays, RequestsUntouched, Assembled
<1>2. CASE Next
  BY <1>2, IInvSystem, IInvInterview, IInvRequest DEF Next, SystemStep, InterviewStep, RequestStep
<1> QED BY <1>1, <1>2

(* The invariant, in every reachable state.                                *)
THEOREM Invariant == Spec => []IInv
BY IInvInit, IInvStep, PTL DEF Spec

(* Every variable holds what the code can write into it: a closed row      *)
(* names its decision and its stage, and a review in force has landed.     *)
THEOREM TypeCorrect == Spec => []TypeOK
<1>1. IInv => TypeOK
  BY DEF IInv
<1> QED BY <1>1, Invariant, PTL

(* However many copies of a press arrive, whenever they do, the candidate  *)
(* moves once for it.                                                      *)
THEOREM MovedOnce == Spec => []PressMovesOnce
<1>1. IInv => PressMovesOnce
  BY DEF IInv, MovedOK, PressMovesOnce
<1> QED BY <1>1, Invariant, PTL

(* A review that was answered has had its verdict carried to the journey,  *)
(* whichever of its copies died on the way.                                *)
THEOREM Carried == Spec => []VerdictCarried
<1>1. IInv => VerdictCarried
  BY DEF IInv
<1> QED BY <1>1, Invariant, PTL

(* An event that was applied has the candidate at its stage or past it.    *)
THEOREM Landed == Spec => []EventsLand
<1>1. IInv => EventsLand
  BY DEF IInv
<1> QED BY <1>1, Invariant, PTL

----
(* What a step may never do.                                               *)

(* Only the request itself changes, so what becomes of one is what its own *)
(* step does to it.                                                        *)
LEMMA OwnStep ==
  ASSUME IInv, [Next]_vars, NEW d \in Deliveries, del'[d] # del[d]
  PROVE  RequestStep(d)
<1>1. CASE UNCHANGED vars
  BY <1>1 DEF vars
<1>2. CASE SystemStep \/ InterviewStep
  BY <1>2 DEF SystemStep, StartPipeline, StoreProfile, NoteProfiled, ApplyPipelineEvent, DropEvent,
              InterviewStep, Assessed, Retaken
<1>3. ASSUME NEW e \in Deliveries, RequestStep(e) PROVE RequestStep(d)
  <2>1. Turned(e)
    BY <1>3, RequestGoesOn, RequestTurns
  <2>2. PICK r \in Requests : del' = [del EXCEPT ![e] = r]
    BY <2>1 DEF Turned
  <2>3. del \in [Deliveries -> Requests]
    BY DEF IInv, TypeOK, Requests, PCs
  <2>4. e = d
    BY <2>2, <2>3
  <2> QED BY <1>3, <2>4
<1> QED BY <1>1, <1>2, <1>3 DEF Next, SystemStep, InterviewStep, RequestStep

(* A request that moved the candidate, or closed the journey, had asked    *)
(* for the review when that judges anything, and was told it was there.    *)
LEMMA JudgesOnlyTheRead ==
  ASSUME IInv, [Next]_vars, NEW d \in Deliveries,
         del[d].pc = "write", del'[d].pc = "answered", Judges(d)
  PROVE  del[d].owed \cap Unreviewed = {}
<1>1. RequestStep(d)
  BY OwnStep
<1>2. RequestOK(d) /\ LoadedOK(d) /\ TypeOK
  BY DEF IInv, RequestOK
<1>3. WriteMove(d) \/ DecidePipeline(d)
  <2>1. ~DropVerdict(d)
    BY DEF DropVerdict, Judges
  <2> QED BY <1>1, <2>1
          DEF RequestStep, Arrive, ArriveReview, Check, ReadPrevious, AskAgain, CommitReview, CarryJourney
<1>4. Op(d) \in {"advance", "finalize", "decide", "review"}
  BY <1>3 DEF WriteMove, DecidePipeline
<1>5. CASE UNCHANGED <<pipeline, awards>>
  BY <1>5 DEF Judges
<1>6. CASE MovesOn(d)
  <2>1. PICK to \in 1 .. LastStage :
          /\ pipeline.status = "ACTIVE" /\ pipeline.at \in 1 .. LastStage - 1 /\ del[d].at = pipeline.at
          /\ (Op(d) = "finalize" /\ to = LastStage) \/ (Op(d) # "finalize" /\ to = pipeline.at + 1)
          /\ del[d].missing => Op(d) # "finalize" /\ ~MoveNeedsHumanReview(pipeline.at, to)
          /\ MoveAndAward(d, to)
    BY <1>6 DEF MovesOn
  <2>2. /\ pipeline' = [pipeline EXCEPT !.at = to]
        /\ awards' = awards \cup AwardsForPromotion(pipeline.at, to)
    BY <2>1 DEF MoveAndAward
  <2>3. pipeline'.decision = pipeline.decision
    BY <1>2, <2>2 DEF TypeOK
  <2>4. Op(d) = "finalize" \/ MoveNeedsHumanReview(pipeline.at, to)
    BY <2>2, <2>3 DEF Judges, MoveNeedsHumanReview
  <2>5. ~del[d].missing
    BY <2>1, <2>4
  <2>6. Op(d) = "advance" => MoveNeedsHumanReview(del[d].at, del[d].at + 1)
    BY <2>1, <2>4
  <2> QED BY <1>2, <2>5, <2>6 DEF RequestOK, Asked
<1>7. CASE DecidePipeline(d) /\ ClosesAt(d)
  <2>1. /\ UNCHANGED awards /\ pipeline'.at = pipeline.at /\ pipeline'.decision = Want(d).outcome
        /\ plan' = plan
    BY <1>7, ClosesGoOn DEF DecidePipeline
  <2>2. Want(d).outcome # "WITHDRAWN"
    BY <2>1 DEF Judges
  <2>3. ~del[d].missing
    BY <1>7, <2>2 DEF ClosesAt
  <2> QED BY <1>2, <1>7, <2>3 DEF DecidePipeline, RequestOK, Asked
<1> QED BY <1>3, <1>5, <1>6, <1>7, WriteMoveIs, DecidePipelineIs

(* A judgement leaves no interview unread that was there to be read when   *)
(* its request loaded the pipeline.                                        *)
THEOREM PromiseIsKept == Spec => PromiseKept
<1>1. IInv /\ [Next]_vars =>
        [\A d \in Deliveries :
            (del[d].pc = "write" /\ del'[d].pc = "answered" /\ Judges(d))
               => del[d].owed \cap Unreviewed = {}]_vars
  BY JudgesOnlyTheRead
<1> QED BY <1>1, Invariant, PTL DEF Spec, PromiseKept

LEMMA RefusedUnlessLanded ==
  ASSUME IInv, [Next]_vars, NEW d \in Deliveries,
         del[d].pc \in InFlight, Op(d) = "review", del'[d].pc = "refused"
  PROVE  del[d].act \notin landed
<1>1. /\ del[d].pc # "refused" /\ del[d].pc # "unsent" /\ del \in [Deliveries -> Requests]
      /\ TypeOK /\ RequestOK(d)
  BY DEF InFlight, IInv, TypeOK, Requests, PCs
<1>2. RequestStep(d)
  BY <1>1, OwnStep
<1>3. CASE Check(d) \/ WriteMove(d) \/ ReadPrevious(d) \/ CommitReview(d)
  <2>1. del'[d].pc # "refused"
    <3>1. ~(Op(d) \in {"advance", "finalize"})
      OBVIOUS
    <3>2. CASE Check(d)
      <4>1. del' = [del EXCEPT ![d].pc = "write", ![d].missing = Unreviewed # {}]
        BY <3>1, <3>2 DEF Check
      <4>2. del'[d] = [del[d] EXCEPT !.pc = "write", !.missing = Unreviewed # {}]
        BY <1>1, <4>1
      <4> QED BY <1>1, <4>2 DEF Requests
    <3>3. CASE ReadPrevious(d)
      <4>1. PICK pc \in {"second", "commit"} : del' = [del EXCEPT ![d].pc = pc, ![d].prev = claim[Want(d).on]]
        BY <3>3 DEF ReadPrevious
      <4>2. del'[d] = [del[d] EXCEPT !.pc = pc, !.prev = claim[Want(d).on]]
        BY <1>1, <4>1
      <4> QED BY <1>1, <4>2 DEF Requests
    <3>4. CASE CommitReview(d)
      BY <1>1, <3>4 DEF CommitReview, Step, Requests
    <3> QED BY <1>3, <3>1, <3>2, <3>3, <3>4 DEF WriteMove
  <2> QED BY <2>1
<1>4. CASE AskAgain(d)
  <2>1. CASE del[d].act \in landed
    <3>1. del' = [del EXCEPT ![d] = Replay(del[d].act)]
      BY <1>4, <2>1 DEF AskAgain, UnlessLanded
    <3>2. Replay(del[d].act).pc = "carry"
      BY <1>1, RequestFields DEF RequestOK, Replay, PCs, InFlight
    <3> QED BY <1>1, <3>1, <3>2
  <2> QED BY <2>1
<1>5. CASE DecidePipeline(d) \/ CarryJourney(d)
  <2>1. ASSUME End(d, "answered") PROVE del'[d].pc # "refused"
    <3>1. Over(d, "answered").pc = "answered"
      BY <1>1, RequestFields DEF PCs
    <3> QED BY <1>1, <2>1, <3>1 DEF End
  <2>2. CASE CarryJourney(d)
    <3>1. LoadedFor(del[d].act, pipeline', "check").pc = "check"
      BY <1>1, LoadedFields
    <3>2. End(d, "answered") \/ del' = [del EXCEPT ![d] = LoadedFor(del[d].act, pipeline', "check")]
      BY <2>2 DEF CarryJourney
    <3> QED BY <1>1, <2>1, <3>1, <3>2
  <2>3. CASE DecidePipeline(d) /\ ~DecisionContended(d)
    <3>1. End(d, "answered")
      BY <2>3 DEF DecidePipeline, NotApplied
    <3> QED BY <2>1, <3>1
  <2>4. CASE DecidePipeline(d) /\ DecisionContended(d)
    <3>1. CASE del' = [del EXCEPT ![d] = [Over(d, "answered") EXCEPT !.tries = Retries]]
      <4>1. "answered" \in PCs /\ TypeOK
        BY <1>1 DEF PCs
      <4>2. Over(d, "answered") \in Requests
        BY <4>1, RequestShapes
      <4>3. Over(d, "answered").pc = "answered"
        BY <4>1, RequestFields
      <4>4. [Over(d, "answered") EXCEPT !.tries = Retries].pc = "answered"
        BY <4>2, <4>3 DEF Requests
      <4> QED BY <1>1, <3>1, <4>4
    <3>2. CASE del' = [del EXCEPT ![d].at = StandsAt(pipeline), ![d].tries = @ + 1]
      <4>1. del'[d] = [del[d] EXCEPT !.at = StandsAt(pipeline), !.tries = @ + 1]
        BY <1>1, <3>2
      <4> QED BY <1>1, <4>1 DEF Requests
    <3> QED BY <2>4, <3>1, <3>2 DEF DecisionContended
  <2> QED BY <1>5, <2>2, <2>3, <2>4
<1>6. CASE DropVerdict(d)
  <2>1. "answered" \in PCs /\ TypeOK
    BY <1>1 DEF PCs
  <2>2. Over(d, "answered") \in Requests
    BY <2>1, RequestShapes
  <2>3. Over(d, "answered").pc = "answered"
    BY <2>1, RequestFields
  <2>4. [Over(d, "answered") EXCEPT !.tries = Retries].pc = "answered"
    BY <2>2, <2>3 DEF Requests
  <2> QED BY <1>1, <1>6, <2>4 DEF DropVerdict
<1> QED BY <1>1, <1>2, <1>3, <1>4, <1>5, <1>6 DEF RequestStep, Arrive, ArriveReview

(* No retry of a review is told it was refused once its own submit has     *)
(* landed.                                                                 *)
THEOREM NeverFalselyRefused == Spec => NoFalseRefusal
<1>1. IInv /\ [Next]_vars =>
        [\A d \in Deliveries :
            (del[d].pc \in InFlight /\ Op(d) = "review" /\ del'[d].pc = "refused")
               => del[d].act \notin landed]_vars
  BY RefusedUnlessLanded
<1> QED BY <1>1, Invariant, PTL DEF Spec, NoFalseRefusal

----
(* The pipeline keeps the journey it promises: CandidateJourney, with the  *)
(* row's stage for the place and its decision for the closing.             *)

Closing == [as |-> IF pipeline.decision = "none" THEN "open" ELSE pipeline.decision,
            at |-> pipeline.decidedAt]

JourneyStep == Journey!JourneyNext \/ UNCHANGED <<plan, pipeline.at, Closing, awards>>

LEMMA OpenIs ==
  ASSUME IInv, pipeline.status # "DECIDED"
  PROVE  Closing = Journey!NotClosed /\ (pipeline.at > 0 => Journey!Open)
BY DEF IInv, TypeOK, RowOK, Closing, Journey!NotClosed, Journey!Open

(* The row's creation starts the journey.                                  *)
LEMMA EnsuredStarts ==
  ASSUME IInv, pipeline' = EnsurePipeline, UNCHANGED <<plan, awards>>
  PROVE  JourneyStep
<1>1. CASE EnsurePipeline = pipeline
  BY <1>1 DEF JourneyStep, Closing
<1>2. CASE pipeline = NoPipeline /\ EnsurePipeline = NewPipeline
  <2>1. /\ pipeline'.at = 1 /\ pipeline'.decision = "none" /\ pipeline'.decidedAt = 0
        /\ pipeline.at = 0 /\ pipeline.decision = "none" /\ pipeline.decidedAt = 0
    BY <1>2, EnsureIs DEF IInv, NoPipeline
  <2>2. Closing' = Closing
    BY <2>1 DEF Closing
  <2> QED BY <2>1, <2>2 DEF JourneyStep, Journey!JourneyNext, Journey!Starts, Closing
<1> QED BY <1>1, <1>2, EnsureIs DEF IInv

(* An event places the candidate where the system may.                     *)
LEMMA EventPlaces ==
  ASSUME IInv, NEW u \in Uploads, ApplyPipelineEvent(u)
  PROVE  JourneyStep
<1> DEFINE x == upload[u]
           to == ResolveTransition(x.at, "candidate.profiled")
<1>1. CASE UNCHANGED pipeline
  BY <1>1 DEF ApplyPipelineEvent, JourneyStep, Closing
<1>2. CASE to # 0 /\ Stands(x.at) /\ pipeline' = [pipeline EXCEPT !.at = to]
  <2>1. pipeline.status = "ACTIVE" /\ x.at = pipeline.at
    BY <1>2 DEF Stands
  <2>2. to \in pipeline.at + 1 .. LastStage - 1 /\ plan[to].kind = "profile_review"
    BY <1>2, <2>1, TargetIs, PlanIs DEF IInv, TypeOK, ResolveTransition
  <2> HIDE DEF to
  <2>3. /\ pipeline'.at = to /\ pipeline'.decision = pipeline.decision
        /\ pipeline'.decidedAt = pipeline.decidedAt
    BY <1>2 DEF IInv, TypeOK
  <2>4. pipeline.at > 0 /\ UNCHANGED <<plan, awards>>
    BY <2>1 DEF IInv, TypeOK, ApplyPipelineEvent
  <2>5. Journey!Open /\ Closing' = Closing
    BY <2>1, <2>3, <2>4, OpenIs DEF Closing
  <2>6. Journey!SystemPlaces
    BY <2>2, <2>3, <2>4, <2>5 DEF Journey!SystemPlaces, LastStage, Closing
  <2> QED BY <2>6 DEF JourneyStep, Journey!JourneyNext
<1> QED BY <1>1, <1>2 DEF ApplyPipelineEvent

(* A person's move is one stage on, or the last stage; it strikes what it  *)
(* earns from where the candidate stood.                                   *)
LEMMA MovesAsPromised ==
  ASSUME IInv, NEW d \in Deliveries, plan' = plan, MovesOn(d)
  PROVE  JourneyStep
<1>1. PICK to \in 1 .. LastStage :
        /\ pipeline.status = "ACTIVE" /\ pipeline.at \in 1 .. LastStage - 1 /\ del[d].at = pipeline.at
        /\ (Op(d) = "finalize" /\ to = LastStage) \/ (Op(d) # "finalize" /\ to = pipeline.at + 1)
        /\ MoveAndAward(d, to)
  BY DEF MovesOn
<1>2. LastStage \in Nat /\ TypeOK /\ LastStage = Len(plan)
  BY PlanIs DEF IInv, TypeOK, LastStage
<1>3. /\ pipeline' = [pipeline EXCEPT !.at = to]
      /\ awards' = awards \cup AwardsForPromotion(pipeline.at, to)
  BY <1>1 DEF MoveAndAward
<1>4. /\ pipeline'.at = to /\ pipeline'.decision = pipeline.decision
      /\ pipeline'.decidedAt = pipeline.decidedAt
  BY <1>2, <1>3 DEF TypeOK
<1>5. Journey!Open /\ Closing' = Closing /\ pipeline.at < to
  BY <1>1, <1>2, <1>4, OpenIs DEF Closing
<1>6. awards' = awards \cup Journey!EarnedBy(pipeline.at, to)
  BY <1>3 DEF AwardsForPromotion, Journey!EarnedBy
<1>7. Journey!PersonMovesTo(to)
  BY <1>4, <1>5, <1>6 DEF Journey!PersonMovesTo, Closing
<1>8. CASE to = LastStage
  BY <1>2, <1>7, <1>8 DEF JourneyStep, Journey!JourneyNext, Journey!PersonFinalises
<1>9. CASE to = pipeline.at + 1
  BY <1>1, <1>2, <1>7, <1>9 DEF JourneyStep, Journey!JourneyNext, Journey!PersonAdvances
<1> QED BY <1>1, <1>8, <1>9

(* And a closed journey is closed at the stage the candidate stood at.     *)
LEMMA ClosesAsPromised ==
  ASSUME IInv, NEW d \in Deliveries, plan' = plan, ClosesAt(d)
  PROVE  JourneyStep
<1>1. /\ pipeline.status = "ACTIVE" /\ pipeline.at \in 1 .. LastStage /\ LastStage = Len(plan)
      /\ Want(d).outcome \in {"APPROVED", "REJECTED", "WITHDRAWN"}
      /\ Want(d).outcome = "APPROVED" => pipeline.at = LastStage
  BY DEF ClosesAt, LastStage
<1>2. /\ UNCHANGED awards /\ pipeline'.at = pipeline.at
      /\ pipeline'.decision = Want(d).outcome /\ pipeline'.decidedAt = pipeline.at
  BY ClosesGoOn
<1>3. Closing' = [as |-> Want(d).outcome, at |-> pipeline.at]
  BY <1>1, <1>2 DEF Closing
<1>4. pipeline.at > 0 /\ Journey!Open
  BY <1>1, OpenIs, PlanIs DEF IInv, TypeOK
<1>5. Journey!PersonCloses
  BY <1>1, <1>2, <1>3, <1>4 DEF Journey!PersonCloses, Closing
<1> QED BY <1>5 DEF JourneyStep, Journey!JourneyNext

LEMMA StepsAsPromised == IInv /\ [Next]_vars => JourneyStep
<1> SUFFICES ASSUME IInv, [Next]_vars PROVE JourneyStep
  OBVIOUS
<1>1. CASE UNCHANGED <<plan, pipeline, awards>>
  BY <1>1 DEF JourneyStep, Closing
<1>2. CASE StartPipeline
  BY <1>2, EnsuredStarts DEF StartPipeline
<1>3. ASSUME NEW u \in Uploads,
             StoreProfile(u) \/ NoteProfiled(u) \/ ApplyPipelineEvent(u) \/ DropEvent(u)
      PROVE  JourneyStep
  <2>1. CASE StoreProfile(u)
    <3>1. CASE u \in Approved
      BY <2>1, <3>1 DEF StoreProfile, JourneyStep, Journey!JourneyNext, Journey!BronzeStruck, Closing
    <3>2. CASE u \notin Approved
      BY <2>1, <3>2 DEF StoreProfile, JourneyStep, Closing
    <3> QED BY <3>1, <3>2
  <2>2. CASE DropEvent(u)
    BY <1>1, <2>2 DEF DropEvent
  <2> QED BY <1>3, <2>1, <2>2, EnsuredStarts, EventPlaces DEF NoteProfiled
<1>4. ASSUME NEW d \in Deliveries, RequestStep(d)
      PROVE  JourneyStep
  <2>1. CASE WriteMove(d) \/ DecidePipeline(d)
    <3>1. plan' = plan
      BY <2>1 DEF WriteMove, DecidePipeline
    <3> QED BY <1>1, <2>1, <3>1, WriteMoveIs, DecidePipelineIs, MovesAsPromised, ClosesAsPromised
  <2>2. CASE CarryJourney(d)
    BY <2>2, EnsuredStarts DEF CarryJourney
  <2> QED BY <1>1, <1>4, <2>1, <2>2
          DEF RequestStep, Arrive, ArriveReview, Check, ReadPrevious, AskAgain, CommitReview,
              DropVerdict
<1> QED BY <1>1, <1>2, <1>3, <1>4
        DEF Next, SystemStep, InterviewStep, RequestStep, Assessed, Retaken, vars

(* Whatever is delivered in whatever order, the candidate's journey is the *)
(* one promised: forward only, by one stage or to the last one, with the   *)
(* badges of the moves people made, and closed for good.                   *)
THEOREM JourneyKept == Spec => KeepsTheJourney
<1>1. Init => Journey!JourneyInit
  <2> SUFFICES ASSUME Init PROVE Journey!JourneyInit
    OBVIOUS
  <2>1. IInv /\ pipeline.status # "DECIDED" /\ LastStage = Len(plan)
    <3>1. pipeline.decision = "none"
      <4>1. CASE pipeline = NoPipeline
        BY <4>1 DEF NoPipeline
      <4>2. ASSUME NEW at \in Stages, pipeline = [NewPipeline EXCEPT !.at = at]
            PROVE  pipeline.decision = "none"
        BY <4>2 DEF NewPipeline, NoPipeline
      <4> QED BY <4>1, <4>2 DEF Init
    <3> QED BY <3>1, IInvInit DEF IInv, TypeOK, LastStage
  <2>2. Closing = Journey!NotClosed
    BY <2>1, OpenIs
  <2> QED BY <2>1, <2>2 DEF IInv, TypeOK, Journey!JourneyInit, Closing
<1>2. IInv /\ [Next]_vars => [Journey!JourneyNext]_(Journey!journeyVars)
  BY StepsAsPromised DEF JourneyStep, Journey!journeyVars, Closing
<1> QED BY <1>1, <1>2, Invariant, PTL DEF Spec, KeepsTheJourney, Journey!JourneySpec
====
