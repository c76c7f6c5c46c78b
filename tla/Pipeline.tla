---- MODULE Pipeline ----
(***************************************************************************)
(* A candidate's pipeline for one role: the stage they stand at, the       *)
(* badges their moves strike, and the promise that a person reads their AI *)
(* interview before it is judged.  Sources: domain/pipelineAutonomy.ts,    *)
(* services/pipelineAutonomy.ts, services/candidateAwards.ts, the rule and *)
(* the gate of the human review, routes/pipelines.ts and the review        *)
(* handler of routes/assessments.ts.                                       *)
(*                                                                         *)
(* People act from what their page shows them; what they send may arrive   *)
(* twice, late, or die on the way.  An act is one press or one review; a   *)
(* delivery is one copy of its request reaching the server.  A delivery    *)
(* works in steps, one per read or transaction, and any other delivery may *)
(* run between two of them.  Nothing has to take its next step: a delivery *)
(* or an event that stops for good is one whose process died there.        *)
(***************************************************************************)
EXTENDS Integers, Sequences

CONSTANTS
    Plans,      \* the stage plans a role may have: sequences of [key, kind]
    Presses,    \* acts on the pipeline's page: Advance, Finalise, a decision
    Reviews,    \* acts on the assessment's page: submits of a review
    Deliveries, \* bound: copies of requests that reach the server
    Uploads,    \* CVs read for the candidate
    Approved,   \* the CVs that are read against an approved scorecard
    Interviews, \* the candidate's AI interviews for this role
    Promised,   \* the interviews whose consent promises that a person reads them
    Verdicts,   \* bound: the submits each review may be, [outcome, on, supersede]
    Retries     \* RETRIES

Acts == Presses \cup Reviews

StageKinds == {"intake", "profile_review", "ai_interview", "human_interview"}

(* stagesSchema, as far as the pipeline depends on it.                     *)
ASSUME PlansAssumption ==
    \A p \in Plans :
        /\ p \in Seq([key : STRING, kind : StageKinds])
        /\ Len(p) >= 2 /\ p[1].kind = "intake"
        /\ \A i, j \in 1 .. Len(p) : p[i].key = p[j].key => i = j
        /\ \A i, j \in 1 .. Len(p) :
              p[i].kind = "ai_interview" /\ p[j].kind = "ai_interview" => i = j
ASSUME ActsAssumption ==
    Presses \cap Reviews = {} /\ "none" \notin Acts
ASSUME VerdictsAssumption ==
    Verdicts \in [Reviews -> SUBSET [outcome : {"APPROVED", "REJECTED", "none"},
                                     on : Interviews, supersede : BOOLEAN]]
ASSUME SubsetsAssumption == Approved \subseteq Uploads /\ Promised \subseteq Interviews
ASSUME RetriesAssumption == Retries \in Nat \ {0}

VARIABLES
    plan,       \* stagesJson: the role's plan, as snapshotted
    pipeline,   \* the CandidatePipeline row
    awards,     \* tiers with a CandidateAward row
    upload,     \* how far each CV upload is
    interviews, \* each interview: unscored, due a review, or exempt from the promise
    claim,      \* activeForAssessmentId: the review in force for each interview
    landed,     \* submissions whose review row exists
    want,       \* what each act asks for
    del,        \* how far each delivery is
    moves       \* history: how often each act has moved the candidate

reviewVars == <<interviews, claim, landed>>
vars == <<plan, pipeline, awards, upload, reviewVars, want, del, moves>>

Stages == 1 .. Len(plan)
LastStage == Len(plan)
FirstOf(s) == IF s = {} THEN 0 ELSE CHOOSE i \in s : \A j \in s : i <= j

NoPipeline == [status |-> "NONE", at |-> 0, decision |-> "none", decidedAt |-> 0]
NewPipeline == [NoPipeline EXCEPT !.status = "ACTIVE", !.at = 1]

(* The stage a loaded row stands at; 0 when the row is not ACTIVE.         *)
StandsAt(p) == IF p.status = "ACTIVE" THEN p.at ELSE 0

----
(* Pure rules.                                                             *)

KindOfEvent == [e \in {"candidate.onboarded", "candidate.profiled"} |->
    IF e = "candidate.onboarded" THEN "intake" ELSE "profile_review"]

(* The stage an event reaches; the last one belongs to finalisation alone. *)
TargetStage(event) ==
    IF event = "candidate.finalized" THEN LastStage
    ELSE FirstOf({i \in Stages \ {LastStage} : plan[i].kind = KindOfEvent[event]})

(* The forward move an event causes from a stage, 0 when it causes none.   *)
ResolveTransition(at, event) == IF TargetStage(event) > at THEN TargetStage(event) ELSE 0

Nothing == [kind |-> "nothing", to |-> 0]
CloseAt(at) == [kind |-> "close", to |-> at]
AdvanceTo(to) == [kind |-> "advance", to |-> to]

(* Mutant: the stage after the one the decision is about.                  *)
ResolveDecisionAhead(at, outcome, about) ==
    CASE outcome # "APPROVED" \/ (about = LastStage /\ at = LastStage) -> CloseAt(at)
      [] outcome = "APPROVED" /\ about # LastStage /\ about >= at -> AdvanceTo(about + 1)
      [] OTHER -> Nothing

(* What a decision about a stage does to a candidate who stands at another.*)
ResolveDecision(at, outcome, about) ==
    CASE outcome # "APPROVED" \/ (about = LastStage /\ at = LastStage) -> CloseAt(at)
      [] outcome = "APPROVED" /\ about # LastStage /\ about >= at -> AdvanceTo(at + 1)
      [] OTHER -> Nothing

AwardsForPromotion(from, to) ==
    ({plan[from].key} \cap {"silver", "gold"}) \cup ({plan[to].key} \cap {"diamond"})

(* Mutant: only the moves that strike a badge.                             *)
MoveNeedsHumanReviewToMint(from, to) == AwardsForPromotion(from, to) # {}

MoveNeedsHumanReview(from, to) ==
    AwardsForPromotion(from, to) # {} \/ plan[from].kind = "ai_interview"

(* Mutant: a decision that closes the journey is not gated.                *)
GatedMoves(effect, outcome, at) ==
    outcome # "WITHDRAWN" /\ effect.kind = "advance" /\ MoveNeedsHumanReview(at, effect.to)

GatedBy(effect, outcome, at) ==
    /\ outcome # "WITHDRAWN"
    /\ \/ effect.kind = "close"
       \/ effect.kind = "advance" /\ MoveNeedsHumanReview(at, effect.to)

(* The interviews that still owe a review: humanReviewCheck's answer.      *)
Unreviewed == {i \in Interviews : interviews[i] = "due" /\ claim[i] = "none"}

----
(* Requests.                                                               *)

NoWant == [op |-> "none", outcome |-> "none", stage |-> 0, on |-> "none", supersede |-> FALSE]
Unsent == [pc |-> "unsent", act |-> "none", at |-> 0, owed |-> {}, missing |-> FALSE, prev |-> "none", tries |-> 0]

Want(d) == want[del[d].act]
Op(d) == IF del[d].act = "none" THEN "none" ELSE Want(d).op
Step(d, pc) == del' = [del EXCEPT ![d].pc = pc]

(* A request that is over keeps only what its answer depended on.          *)
Over(d, pc) == [Unsent EXCEPT !.pc = pc, !.act = del[d].act, !.missing = del[d].missing, !.tries = del[d].tries]
End(d, pc) == del' = [del EXCEPT ![d] = Over(d, pc)]

(* The row is read; owed is kept to say later what could be known here.    *)
LoadedFor(a, p, pc) ==
    [Unsent EXCEPT !.pc = pc, !.act = a, !.at = StandsAt(p), !.owed = Unreviewed]

InFlight == {"previous", "second", "commit", "third", "carry", "check", "write"}

(* What a candidate holds whom people have moved up to a stage one by one. *)
EarnedUpTo(at) ==
    ({plan[i].key : i \in 1 .. at - 1} \cap {"silver", "gold"}) \cup ({plan[at].key} \cap {"diamond"})

(* No pipeline yet, or one that has come some way already.                 *)
Init ==
    /\ plan \in Plans
    /\ \/ pipeline = NoPipeline /\ awards = {}
       \/ \E at \in Stages : pipeline = [NewPipeline EXCEPT !.at = at] /\ awards = EarnedUpTo(at)
    /\ upload = [u \in Uploads |-> [pc |-> "waiting", at |-> 0, tries |-> 0]]
    /\ interviews = [i \in Interviews |-> "unscored"]
    /\ claim = [i \in Interviews |-> "none"] /\ landed = {}
    /\ want = [a \in Acts |-> NoWant]
    /\ del = [d \in Deliveries |-> Unsent]
    /\ moves = [a \in Acts |-> 0]

----
(* The pipeline starts, and what the system does to it.                    *)

(* The row exists from here on: the unique (candidate, role) key lets one  *)
(* creation through, and whoever lost reads what it created.               *)
EnsurePipeline == IF pipeline = NoPipeline THEN NewPipeline ELSE pipeline

(* POST /pipelines, and every event that moves nobody.                     *)
StartPipeline ==
    /\ pipeline = NoPipeline
    /\ pipeline' = EnsurePipeline
    /\ UNCHANGED <<plan, awards, upload, reviewVars, want, del, moves>>

(* A CV is stored; Bronze is struck with it when the scorecard is approved.*)
StoreProfile(u) ==
    /\ upload[u].pc = "waiting"
    /\ upload' = [upload EXCEPT ![u].pc = "stored"]
    /\ awards' = awards \cup (IF u \in Approved THEN {"bronze"} ELSE {})
    /\ UNCHANGED <<plan, pipeline, reviewVars, want, del, moves>>

NoteProfiled(u) ==
    /\ upload[u].pc = "stored"
    /\ pipeline' = EnsurePipeline
    /\ upload' = [upload EXCEPT ![u] = [@ EXCEPT !.pc = "apply", !.at = StandsAt(pipeline')]]
    /\ UNCHANGED <<plan, awards, reviewVars, want, del, moves>>

(* Mutant: the write names the row alone.                                  *)
StandsAnywhere(at) == pipeline.status # "NONE"

(* The row still stands where it was read.                                 *)
Stands(at) == pipeline.status = "ACTIVE" /\ pipeline.at = at

(* Mutant: a conflict ends the event.                                      *)
AfterConflictGivingUp(r) == [r EXCEPT !.pc = "done"]

(* A conditional write that found the row changed reads it again, unless   *)
(* that was the last attempt.                                              *)
AfterConflict(r) ==
    IF r.tries + 1 = Retries THEN [r EXCEPT !.pc = "done", !.tries = Retries]
    ELSE [r EXCEPT !.at = StandsAt(pipeline), !.tries = @ + 1]

ApplyPipelineEvent(u) ==
    LET r == upload[u]
        to == ResolveTransition(r.at, "candidate.profiled")
    IN /\ r.pc = "apply"
       /\ \/ /\ r.at = 0 \/ to = 0
             /\ upload' = [upload EXCEPT ![u].pc = "done"]
             /\ UNCHANGED pipeline
          \/ /\ r.at # 0 /\ to # 0 /\ Stands(r.at)
             /\ upload' = [upload EXCEPT ![u].pc = "done"]
             /\ pipeline' = [pipeline EXCEPT !.at = to]
          \/ /\ r.at # 0 /\ to # 0 /\ ~Stands(r.at)
             /\ upload' = [upload EXCEPT ![u] = AfterConflict(r)]
             /\ UNCHANGED pipeline
       /\ UNCHANGED <<plan, awards, reviewVars, want, del, moves>>

(* An error of the database is caught and logged, and nothing applies the  *)
(* event again: it is given up like one that met its last conflict.        *)
DropEvent(u) ==
    /\ upload[u].pc \in {"stored", "apply"}
    /\ upload' = [upload EXCEPT ![u] = [@ EXCEPT !.pc = "done", !.tries = Retries]]
    /\ UNCHANGED <<plan, pipeline, awards, reviewVars, want, del, moves>>

----
(* The interviews: a finalisation leaves an assessment, of an interview    *)
(* the promise covers or of one it does not, and a retake replaces one.    *)

Assessed(i) ==
    /\ interviews[i] = "unscored"
    /\ interviews' = [interviews EXCEPT ![i] = IF i \in Promised THEN "due" ELSE "exempt"]
    /\ UNCHANGED <<plan, pipeline, awards, upload, claim, landed, want, del, moves>>

Retaken(i) ==
    /\ interviews[i] = "due"
    /\ interviews' = [interviews EXCEPT ![i] = "exempt"]
    /\ UNCHANGED <<plan, pipeline, awards, upload, claim, landed, want, del, moves>>

----
(* What a person asks for, from what their page showed: an earlier stage   *)
(* of the journey, perhaps, when the request was long on its way.  Every   *)
(* further copy of the request asks for the same.                          *)
PressWants ==
    [op : {"advance", "finalize"}, outcome : {"none"}, stage : 1 .. pipeline.at,
     on : {"none"}, supersede : {FALSE}]
    \cup [op : {"decide"}, outcome : {"APPROVED", "REJECTED", "WITHDRAWN"}, stage : 1 .. pipeline.at,
          on : {"none"}, supersede : {FALSE}]

(* The verdict as a decision; Consider, and "Just record it", decide none. *)
ReviewWants(a) ==
    {[op |-> "review", outcome |-> v.outcome, stage |-> 0, on |-> v.on, supersede |-> v.supersede] :
        v \in {v \in Verdicts[a] : interviews[v.on] # "unscored"}}

AskedAs(a) ==
    IF want[a] # NoWant THEN {want[a]} ELSE IF a \in Presses THEN PressWants ELSE ReviewWants(a)

----
(* The pipeline's page: advance, finalise, decide.                         *)

(* Mutant: an advance goes one stage on from wherever the candidate is.    *)
AskedOfAnyStage(w) ==
    CASE w.op = "advance"  -> pipeline.at # LastStage
      [] w.op = "finalize" -> pipeline.at # LastStage
      [] w.op = "decide"   -> pipeline.at = w.stage

(* The act still fits the row that was loaded.                             *)
AskedOf(w) ==
    CASE w.op = "advance"  -> pipeline.at # LastStage /\ pipeline.at = w.stage
      [] w.op = "finalize" -> pipeline.at # LastStage
      [] w.op = "decide"   -> pipeline.at = w.stage

(* Every press but an advance that judges nothing asks for the review.     *)
Arrive(d, a, w) ==
    /\ a \in Presses /\ del[d].pc = "unsent"
    /\ del' = [del EXCEPT ![d] =
          IF ~(pipeline.status = "ACTIVE" /\ AskedOf(w))
            THEN [Unsent EXCEPT !.pc = "refused", !.act = a]
          ELSE IF w.op = "advance" /\ ~MoveNeedsHumanReview(pipeline.at, pipeline.at + 1)
            THEN LoadedFor(a, pipeline, "write")
          ELSE LoadedFor(a, pipeline, "check")]
    /\ want' = [want EXCEPT ![a] = w]
    /\ UNCHANGED <<plan, pipeline, awards, upload, reviewVars, moves>>

(* humanReviewCheck, outside the transaction of the write and once only.   *)
Check(d) ==
    /\ del[d].pc = "check"
    /\ IF Unreviewed # {} /\ Op(d) \in {"advance", "finalize"} THEN End(d, "refused")
       ELSE del' = [del EXCEPT ![d].pc = "write", ![d].missing = Unreviewed # {}]
    /\ UNCHANGED <<plan, pipeline, awards, upload, reviewVars, want, moves>>

(* The move and the badges it earns commit together.                       *)
MoveAndAward(d, to) ==
    /\ pipeline' = [pipeline EXCEPT !.at = to]
    /\ awards' = awards \cup AwardsForPromotion(del[d].at, to)
    /\ moves' = [moves EXCEPT ![del[d].act] = @ + 1]

WriteMove(d) ==
    /\ del[d].pc = "write" /\ Op(d) \in {"advance", "finalize"}
    /\ \/ /\ Stands(del[d].at)
          /\ MoveAndAward(d, IF Op(d) = "advance" THEN del[d].at + 1 ELSE LastStage)
          /\ End(d, "answered")
       \/ /\ ~Stands(del[d].at)
          /\ End(d, "refused")
          /\ UNCHANGED <<pipeline, awards, moves>>
    /\ UNCHANGED <<plan, upload, reviewVars, want>>

----
(* decidePipeline's loop, for the pipeline's page and for a verdict.       *)

(* The stage a decision is about: the page names it, a verdict names the   *)
(* AI interview.                                                           *)
About(w) ==
    IF w.op = "decide" THEN w.stage ELSE FirstOf({i \in Stages : plan[i].kind = "ai_interview"})

(* A decision of the page that was not applied is refused; a review has    *)
(* been recorded whatever its verdict did.                                 *)
NotApplied(d) == End(d, IF Op(d) = "review" THEN "answered" ELSE "refused")

Stale(d) == Op(d) = "decide" /\ del[d].at # Want(d).stage

EffectOf(d) ==
    LET w == Want(d) IN
    IF del[d].at = 0 \/ Stale(d) \/ About(w) = 0 THEN Nothing
    ELSE ResolveDecision(del[d].at, w.outcome, About(w))

DecisionDoesNothing(d) ==
    \/ EffectOf(d) = Nothing
    \/ del[d].missing /\ GatedBy(EffectOf(d), Want(d).outcome, del[d].at)

(* Mutant: the decision is left off the row.                               *)
CloseUndecided(d) ==
    /\ pipeline' = [pipeline EXCEPT !.status = "DECIDED", !.decidedAt = del[d].at]
    /\ UNCHANGED <<awards, moves>>

ClosePipeline(d) ==
    /\ pipeline' = [pipeline EXCEPT !.status = "DECIDED",
                                    !.decision = Want(d).outcome, !.decidedAt = del[d].at]
    /\ UNCHANGED <<awards, moves>>

DecisionContended(d) ==
    IF del[d].tries + 1 = Retries
    THEN del' = [del EXCEPT ![d] = [Over(d, IF Op(d) = "review" THEN "answered" ELSE "refused")
                                    EXCEPT !.tries = Retries]]
    ELSE del' = [del EXCEPT ![d].at = StandsAt(pipeline), ![d].tries = @ + 1]

DecidePipeline(d) ==
    /\ del[d].pc = "write" /\ Op(d) \in {"decide", "review"}
    /\ \/ /\ DecisionDoesNothing(d)
          /\ NotApplied(d)
          /\ UNCHANGED <<pipeline, awards, moves>>
       \/ /\ ~DecisionDoesNothing(d) /\ Stands(del[d].at)
          /\ IF EffectOf(d).kind = "close" THEN ClosePipeline(d)
             ELSE MoveAndAward(d, EffectOf(d).to)
          /\ End(d, "answered")
       \/ /\ ~DecisionDoesNothing(d) /\ ~Stands(del[d].at)
          /\ DecisionContended(d)
          /\ UNCHANGED <<pipeline, awards, moves>>
    /\ UNCHANGED <<plan, upload, reviewVars, want>>

----
(* Completing a review: the handler of POST /assessments/:id/review.       *)

(* Mutant: a review that is there already is answered as it stands.        *)
ReplayWithoutCarrying(a) == [Unsent EXCEPT !.pc = "answered", !.act = a]

(* A submit that has landed already carries the journey again.             *)
Replay(a) == [Unsent EXCEPT !.pc = "carry", !.act = a]

(* Asked before anything else is read.                                     *)
ArriveReview(d, a, w) ==
    /\ a \in Reviews /\ del[d].pc = "unsent"
    /\ del' = [del EXCEPT ![d] =
          IF a \in landed THEN Replay(a) ELSE [Unsent EXCEPT !.pc = "previous", !.act = a]]
    /\ want' = [want EXCEPT ![a] = w]
    /\ UNCHANGED <<plan, pipeline, awards, upload, reviewVars, moves>>

ReadPrevious(d) ==
    LET w == Want(d) IN
    /\ del[d].pc = "previous"
    /\ del' = [del EXCEPT ![d].pc = IF claim[w.on] # "none" /\ ~w.supersede THEN "second" ELSE "commit",
                          ![d].prev = claim[w.on]]
    /\ UNCHANGED <<plan, pipeline, awards, upload, reviewVars, want, moves>>

(* Mutant: refused without asking again.                                   *)
UnlessLandedUnasked(d) == Over(d, "refused")

(* Refused as already reviewed, unless that review is this very submit.    *)
UnlessLanded(d) == IF del[d].act \in landed THEN Replay(del[d].act) ELSE Over(d, "refused")

AskAgain(d) ==
    /\ del[d].pc \in {"second", "third"}
    /\ del' = [del EXCEPT ![d] = UnlessLanded(d)]
    /\ UNCHANGED <<plan, pipeline, awards, upload, reviewVars, want, moves>>

(* The two unique indexes let the row in: the submission is new, and the   *)
(* assessment is free or held by the review this one replaces.             *)
RowFits(d) ==
    LET w == Want(d) IN
    /\ del[d].act \notin landed
    /\ claim[w.on] = "none" \/ (w.supersede /\ claim[w.on] = del[d].prev)

CommitReview(d) ==
    /\ del[d].pc = "commit"
    /\ \/ /\ RowFits(d)
          /\ claim' = [claim EXCEPT ![Want(d).on] = del[d].act]
          /\ landed' = landed \cup {del[d].act}
          /\ Step(d, "carry")
       \/ ~RowFits(d) /\ Step(d, "third") /\ UNCHANGED <<claim, landed>>
    /\ UNCHANGED <<plan, pipeline, awards, upload, interviews, want, moves>>

(* carryJourney: the pipeline exists afterwards, and the verdict decides,  *)
(* when it decides anything.                                               *)
CarryJourney(d) ==
    /\ del[d].pc = "carry"
    /\ pipeline' = EnsurePipeline
    /\ IF Want(d).outcome = "none" THEN End(d, "answered")
       ELSE del' = [del EXCEPT ![d] = LoadedFor(del[d].act, pipeline', "check")]
    /\ UNCHANGED <<plan, awards, upload, reviewVars, want, moves>>

(* An error of the database is caught and logged on the way: the review    *)
(* has been recorded, and is answered.                                     *)
DropVerdict(d) ==
    /\ del[d].pc \in {"carry", "check", "write"} /\ Op(d) = "review"
    /\ del' = [del EXCEPT ![d] = [Over(d, "answered") EXCEPT !.tries = Retries]]
    /\ UNCHANGED <<plan, pipeline, awards, upload, reviewVars, want, moves>>

----
Next ==
    \/ StartPipeline
    \/ \E u \in Uploads :
          StoreProfile(u) \/ NoteProfiled(u) \/ ApplyPipelineEvent(u) \/ DropEvent(u)
    \/ \E i \in Interviews : Assessed(i) \/ Retaken(i)
    \/ \E d \in Deliveries :
          \/ \E a \in Acts : \E w \in AskedAs(a) : Arrive(d, a, w) \/ ArriveReview(d, a, w)
          \/ Check(d) \/ WriteMove(d) \/ DecidePipeline(d)
          \/ ReadPrevious(d) \/ AskAgain(d) \/ CommitReview(d) \/ CarryJourney(d)
          \/ DropVerdict(d)

Spec == Init /\ [][Next]_vars

----
(* Every variable holds what the code can write into it: a closed row      *)
(* names its decision and its stage, and a review in force has landed.     *)
TypeOK ==
    /\ plan \in Plans
    /\ pipeline \in [status : {"NONE", "ACTIVE", "DECIDED"}, at : 0 .. LastStage,
                     decision : {"none", "APPROVED", "REJECTED", "WITHDRAWN"}, decidedAt : 0 .. LastStage]
    /\ (pipeline.status = "DECIDED") = (pipeline.decision # "none")
    /\ (pipeline.status = "NONE") = (pipeline.at = 0)
    /\ awards \subseteq {"bronze", "silver", "gold", "diamond"}
    /\ upload \in [Uploads -> [pc : {"waiting", "stored", "apply", "done"},
                               at : 0 .. LastStage, tries : 0 .. Retries]]
    /\ interviews \in [Interviews -> {"unscored", "due", "exempt"}]
    /\ claim \in [Interviews -> landed \cup {"none"}]
    /\ landed \subseteq Reviews
    /\ want \in [Acts -> [op : {"none", "advance", "finalize", "decide", "review"},
                          outcome : {"none", "APPROVED", "REJECTED", "WITHDRAWN"},
                          stage : 0 .. LastStage, on : Interviews \cup {"none"}, supersede : BOOLEAN]]
    /\ del \in [Deliveries -> [pc : InFlight \cup {"unsent", "answered", "refused"},
                               act : Acts \cup {"none"}, at : 0 .. LastStage, owed : SUBSET Interviews, missing : BOOLEAN,
                               prev : Reviews \cup {"none"}, tries : 0 .. Retries]]
    /\ moves \in [Acts -> Nat]

(* The journey the pipeline promises, whatever is delivered in whatever    *)
(* order: forward only, one stage per advance or decision, the badges of   *)
(* exactly the moves people made, closed at the stage the candidate stood  *)
(* at, and closed for good.                                                *)
Journey == INSTANCE CandidateJourney WITH
    place <- pipeline.at,
    closed <- [as |-> IF pipeline.decision = "none" THEN "open" ELSE pipeline.decision,
               at |-> pipeline.decidedAt],
    badges <- awards

KeepsTheJourney == Journey!JourneySpec

(* The interview a judgement is made on has been read: a request that      *)
(* closes the journey other than by withdrawal, moves the candidate off    *)
(* the AI round, strikes a badge or finalises, leaves no interview unread  *)
(* that was there to be read when the request loaded the pipeline.         *)
Judges(d) ==
    \/ pipeline'.decision \notin {pipeline.decision, "WITHDRAWN"}
    \/ awards' # awards
    \/ pipeline'.at # pipeline.at /\ (plan[pipeline.at].kind = "ai_interview" \/ Op(d) = "finalize")

PromiseKept ==
    [][\A d \in Deliveries :
          (del[d].pc = "write" /\ del'[d].pc = "answered" /\ Judges(d))
             => del[d].owed \cap Unreviewed = {}]_vars

(* One press moves the candidate once, however many copies of it arrive:   *)
(* an advance and a decision name the stage they were made at.             *)
PressMovesOnce == \A a \in Presses : moves[a] <= 1

(* No retry is told "already reviewed" when its own submit has landed.     *)
NoFalseRefusal ==
    [][\A d \in Deliveries :
          (del[d].pc \in InFlight /\ Op(d) = "review" /\ del'[d].pc = "refused")
             => del[d].act \notin landed]_vars

(* A review answered to its reviewer has had its verdict carried to the    *)
(* journey, by this copy or an earlier one that died after recording it:   *)
(* a rejection has closed the journey, an approval has taken the candidate *)
(* past the AI round or one stage on, unless another interview was still   *)
(* unread, the pipeline kept changing or the database failed this copy.    *)
VerdictCarried ==
    \A d \in Deliveries :
       (Op(d) = "review" /\ del[d].pc = "answered" /\ ~del[d].missing /\ del[d].tries < Retries
          /\ Want(d).outcome # "none" /\ About(Want(d)) \in Stages \ {LastStage})
       => \/ pipeline.status = "DECIDED"
          \/ Want(d).outcome = "APPROVED" /\ (moves[del[d].act] > 0 \/ pipeline.at > About(Want(d)))

(* Two events, or an event and a person, arriving at once end at the       *)
(* further of the two: a CV that was read has the candidate at its stage   *)
(* or past it, unless the journey is closed, the pipeline kept changing or *)
(* the database failed the event.                                          *)
EventsLand ==
    \A u \in Uploads :
       (upload[u].pc = "done" /\ upload[u].tries < Retries)
       => pipeline.status = "DECIDED" \/ pipeline.at >= TargetStage("candidate.profiled")

(* "Repeating it repairs; it does not duplicate": one verdict moves the    *)
(* candidate at most one stage.                                            *)
OneVerdictOneStage == \A a \in Reviews : moves[a] <= 1
====
