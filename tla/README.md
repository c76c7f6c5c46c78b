# Questor: a TLA+ verification of the interview and what becomes of it

Questor runs an automated first-round interview: a recruiter invites a
candidate, the candidate talks to an interviewer backed by a language model in
a browser room, and the conversation is scored once for a human to review. The
review releases a feedback letter and moves the candidate along a pipeline, whose
later rounds are conducted by people with a recording observer beside them. This
directory holds TLA+ modules that model the parts of the server where order
matters, the TLC runs that check them on small instances, and TLAPS proofs of
the most important results for every instance.

All source paths below are under `src/server/src/`.

## 1. Inventory

The server is a set of Node processes over one PostgreSQL database. Processes
share nothing else: a request reads rows, decides, and writes, and between two
awaits any other request may run, in this process or another. Some writes repeat
the decision in their `WHERE` clause (`updateMany ... where state`), some take a
row lock (`services/sessionLock.ts`), and some go by id. Which is which decides
most of what can go wrong.

| Component | State | Operations | Correct when |
|---|---|---|---|
| Session state machine, `domain/stateMachine.ts` | none (a table) | `canTransition`, `assertTransition` | every caller's move is in the table, and every state it must leave has a way out |
| Live engine, `realtime/interviewEngine.ts` | `InterviewSession.state`, `Turn` rows, `AssessmentVersion` rows, `Invitation.status`, `CandidateHumanRequest` | start/resume/join, answer, leave, continue, finalize, and the endings a reply can bring (withdraw, safety, postpone, handoff, sign-off) | one question has one answer and one reply; an answer is credited where it was asked; one score per interview, after its end; no closed interview reopens; a failed finalisation strands nothing |
| Recruiter routes, `routes/interviews.ts` | the same rows | schedule, resend, invite, cancel, reopen, retake, assess-partial, start/turn/finalize in text mode | one successor, never of a scored interview; no route undoes what another decided |
| Candidate portal, `routes/portal.ts` | the same rows, `consentJson` | first open, accept, consent, accommodation, start, answer, continue, leave | the interview goes live only with consent on record |
| Incomplete sweep, `services/incompleteInterviews.ts` | the same rows | a pass every five minutes under a job lease | an abandoned interview or a dead finalisation is closed out; a running one is left alone |
| Job leases, `services/jobs.ts` | `JobLease`, `JobRun` | acquire, renew, release, stop all, give up on shutdown | one run of a job at a time, and the job keeps running |
| Shutdown, `services/shutdown.ts`, `index.ts` | phase of the process | signal, drain, close steps, exit | new work stops first, leases go last |
| Socket, `realtime/socket.ts`, `liveSessions.ts` | rooms, heartbeats | join, start, turn, finalize | as the portal, over the same engine |
| Re-plan, `services/interviewReplan.ts` | plan JSON | swap at start | an answer is scored against the plan that asked it |
| Webhooks, `services/webhooks.ts` | `WebhookDelivery` | claim, attempt, retry | delivered at least once, and a delivered one is not failed later |
| Feedback mail, `services/autoFeedback*.ts`, `feedbackHold*.ts` | `CandidateFeedbackEmail` | enqueue, claim, heartbeat, send lock, compose, send, confirm, time out, sweep, press, preview, hold | one copy with the provider at a time, none nobody asked for, none older than the review that released it, none waiting for ever |
| Human review, `routes/assessments.ts`, `services/humanReviewGate.ts`, `domain/humanReviewRule.ts` | `HumanReview` (`activeForAssessmentId`, `submissionId`) | submit, supersede, replay | one review in force; a retry is answered as its first copy was; the letter and the pipeline follow |
| Pipeline, `services/pipelineAutonomy.ts`, `domain/pipelineAutonomy.ts`, `routes/pipelines.ts` | `CandidatePipeline` | events, advance, decide, finalise | forward only, one stage per act, closed for good; nobody judged on an interview no one read |
| Awards, `services/candidateAwards.ts` | `CandidateAward` | struck with the move | a badge exactly for the moves people made |
| Round observer, `services/roundObserver.ts`, `observerQuotes.ts`, `domain/observedRound.ts` | `RoundObservation`, `ObservationParticipant`, `ObservationSegment` | consent, decline, enter, capture, stop, end, extract, retry | nothing recorded or quoted against a "no"; the status says what the rows say; the quotes settle |
| Codes and sign-in, `services/signInCode.ts`, `passwordReset.ts`, `identityCode.ts` | codes, attempt counters | issue, try, undo | a code works once, within its attempts |
| Calendar, reminders, library, calibration, data rights, imports, demos, catalog | their own rows | jobs and CRUD | see `PROJECT.json` |

Interaction: portal, socket and recruiter routes call the engine; the engine
writes turns, states, assessments and the link; the sweep and the recruiter
routes write the same session row from outside; the jobs run under leases; the
shutdown stops the jobs and gives their leases up. A finalisation queues the
feedback letter; the job and a recruiter's press send it; submitting a review passes
the letter's gate in its own transaction and then, outside it, moves the pipeline;
the pipeline's moves strike awards and ask whether any interview is unread. A
round of the pipeline carries an observation, ended with the round.

What is hard: the seconds of model time between reading a transcript and
appending the reply; several tabs, retries and reconnects of one candidate; a
finalisation of several writes that may die after any of them; by-id writes
after stale reads; clocks compared after a slow statement; shutdown with runs
still going; a mail provider that may deliver what was given up on; requests sent
twice or answered late, acting on a row read before; two statements where one
would be safe. `PROJECT.json` lists each as a hazard at its line, with the
properties that cover it or the reason none does yet.

## 2. Modules

| Module | Models | Uses |
|---|---|---|
| `SessionStates` | the states, `FORWARD`, and the groups of states callers test | |
| `Transcript` | the `Turn` rows and what is read off them: sittings, the pending turn, the open question | |
| `InterviewEngine` | one session under any number of concurrent engine requests | both |
| `InterviewPromise` | abstract: an interview opens once, closes once, is scored at most once, when over | implemented by `InterviewEngine` |
| `InterviewRoutes` | the engine composed with portal, recruiter routes and sweep | `InterviewEngine` |
| `JobLease` | one job, its lease row, overlapping runs on several processes, shutdown | |
| `JobOwner` | abstract: a job has at most one owner and changes hands through nobody | implemented by `JobLease` |
| `FeedbackMail` | one interview's feedback letter, its senders and the reviews that release it | |
| `Pipeline` | one candidate's pipeline: events, presses, reviews and their retries, badges, the review promise | |
| `CandidateJourney` | abstract: forward only, one stage at a time or to the end, badges of those moves, closed for good | implemented by `Pipeline` |
| `ObservedRound` | the observer of one round: consent, capture, end, quotes | |
| `InterviewEngineProofs` | the engine: types, one assessment, the refinement of `InterviewPromise` | TLAPS |
| `InterviewTurnsProofs` | the engine's transcript: who speaks when, credit, length | `InterviewEngineProofs` |
| `InterviewRoutesProofs` | the engine with its routes: types, greetings, consent, retakes | `InterviewEngineProofs` |
| `InterviewSessionProofs` | what the engine's guarantees are worth once the routes write the same session | `InterviewRoutesProofs`, `InterviewTurnsProofs` |
| `JobLeaseProofs`, `FeedbackMailProofs`, `PipelineProofs`, `ObservedRoundProofs` | the theorems about those modules | TLAPS |
| `MC...` | TLC instances: symmetry, `Home`, stage plans, panels | TLC |

### InterviewEngine

A request slot `r` runs one operation `op[r]`; `pc[r]` is its next step and
`saw[r]` what it has read. One step is one database statement, one transaction,
or the return of one provider call. `loadContext` reads the session and its
turns with separate queries, so `Load` and the read of the turns (`StartRead`,
`AnswerRead`, `ContinueRead`, `FinalizeRead`) are separate steps. Transactions
that take the session lock are one step: `Claim` (start: state to ASSESSING,
earlier sitting closed), `Record` (answer: stale check, fold or append), `Say`
(reply: appended only if the tail still stands, `TailStands`). `Produce` reads
the tail and chooses the kind of reply from the sitting as it stands then (`greet`
notes that nobody had spoken in it), the model thinks, `Say` writes; a reply that
lost is dropped and
`Current`/`Outcome` hand back what won (`produceOrCurrent`). `WithdrawRead` and
`WithdrawWrite` are `withdrawInterview` with its postponement and handoff
branches; a handoff adds to `consentJson`, so it loads it first (`HandoffRead`) and
writes it back as loaded, with the state. Finalisation is `FinalizeLoad` to `Ready`, any step of which may throw
(`FinalizeThrows`, then `ReleaseRead`, `ReleaseWrite`). `Abandon` ends a request
anywhere: its process died. So restarts need no action of their own: all lasting
state is rows.

A turn is its position (turns are never deleted or reordered within a session),
its kind, and the facts the properties need: the question the answer came with
(`asked`), the question its competency was read from (`slot`), whether a second
submission was folded in, whether a postponement was closed. What is said is
left out; `RepliesTo` gives the kinds of reply the runtime may choose after a
transcript, and takes any of them: an ending the candidate asked for in their last
words comes before everything (`Heard`), also before the opening of a sitting in which
the interviewer has not spoken. Identity checks, drain refusal, provider
failure before a write and refusals are all a request that ends without
writing, which `Abandon` covers.

### InterviewRoutes

Each route arrives through `RouteArrive`, when the state it loads admits it, and
writes in later steps with exactly the guard the code's statement carries:
`StandsAsRead` for conditional updates (accept, retake), nothing for by-id writes
(`AcceptMark`, `AccommodateWrite`, `InviteState`, `CancelWrite`, `ReopenWrite`,
`SweepWrite`). `InviteMark` may record either outcome of the delivery. Two routes load
the link and write its status back by id: the candidate's first open (`OpenLoad`,
`OpenMark`; `opened` is `openedAt`) and a resend (`ResendLoad`, `ResendMark`, with the
e-mail between them).
`activity` is the clock the sweep compares: `GoQuiet` lets the inactivity window
pass at any moment after the last answer, however long a request is taking,
which is what real time allows. The sweep is picked, re-read and written in
three steps, and runs one pass at a time (its lease).

### JobLease

Time is relative: `lease.left` and `granted[r]` are distances to an expiry,
`lag[r]` the age of the clock a statement carries, and `Tick` moves them all.
`lag` is how a statement that the database runs late is judged by an old clock,
as `new Date()` evaluated in Node is. An expiry older than any clock is one
value (`LongGone`), so time is unbounded and the state space is not. `granted[r]`
is what the run was told, which is what it acts on: `Believes(r)`.

### FeedbackMail

`row` is the `CandidateFeedbackEmail` row. A sender (a slot of the job, or of
presses) is at one statement of `attemptFeedbackEmail`/`sendClaimed` (`pc`), and
every update carries the guard of its `WHERE`: `OwnClaim` (status and
`claimedAt` as this attempt knows it), `LockStands`, status alone for a timeout,
or the `updatedAt` that was read (`current`). The heartbeat is two steps, because
the row's `claimedAt` moves before the attempt learns of it (`ahead`); an attempt
that finishes in between has lost its own claim, as in the code. `calls` holds
every message handed to the provider that may yet be delivered, also after a
timeout (`SendTimesOut`) or a crash. A tick is a heartbeat period; the lock, the
provider's timeout and the age of a claim count in it. A review is `GateRead`,
`GateWrite` or `GateAgain`, and the commit, which is one step with the gate's
write because that write holds the row. Composing twice (`Compose`) is the
re-reading of the review before the send.

Simplified: what the candidate answered and what an admin switched off may
forbid or skip any letter at any time; the write of the words and the send are
one step (nothing reads the words between them but the next attempt); recording a
failure and giving the lock up are one step; a refusal by the provider is final;
composing takes no longer than the lock's grace (`InTime`); a preview is one step.

### Pipeline and CandidateJourney

An act is one press or one review, a delivery one copy of its request, and `del`
says how far each copy is: loaded (`at`), checked (`missing`), about to write. The
statement that writes is conditional on what was loaded (`Stands`), and badges
commit with it (`MoveAndAward`). `DecidePipeline` is one turn of the retry loop of
`decidePipeline`, `ApplyPipelineEvent` of `applyPipelineEvent`. The review's three
questions whether its submit is already on file are `ArriveReview`, and `AskAgain`
from `second` and `third`. A delivery that never takes its next step is one that
died, so there is no fairness and no deadlock check. Stages are positions in
`plan`, and the rules of `domain/` are operators over them. An error of the database
under an event or under a review's decision is caught and logged by
`notePipelineEvent` and `noteReviewDecision`, which drop it and go on: `DropEvent` and
`DropVerdict`, possible at each of their statements.

`CandidateJourney` is what the pipeline is for, with no requests in it; the mapping
takes the row's stage, decision and `decidedAtStageKey`, and the award rows.

Simplified: `candidate.onboarded` and `interview.*` events only create the row,
as they move nobody further; one assessment per interview; the transcript-read
requirement, the gate on the letter and the session's stamp are elsewhere or
left out; a replayed decision reads the verdict off the request, as `carryJourney`
does.

### ObservedRound

`obs`, `said`, `admitted` and `segs` are the three tables; `Party`, `Conducting`,
`RequiredOf`, `CaptureConsented` and `BlockingDecline` are `domain/observedRound.ts`.
Each statement of `declineEntry`, `settleStatus`, `enterRoom`, `endObservation` and
`appendSegment` is a step; the one transaction, a capture's, is `Checks` to
`Stores`, and holds the row in between (`Free` guards the updates that would wait
for it; between the two an observation is LISTENING). A request that stops for
good is one whose process died, and `Restarts` rolls a capture back or loses an
extraction. What the model thinks of a transcript, and whether it was one-sided,
is any outcome. Consent's load and row update are one step; heartbeats, silence
alarms and the content of quotes are left out. Quotes are extracted only of an ENDED
observation: `extractEvidenceQuotes` is called when a round is completed, when its record
is ended, and on a retry (`routes/pipelines.ts:925-927`, `routes/observer.ts:196`, 213),
each after the end has been written; the comment at `roundObserver.ts:572-577`, that
extraction "can run mid-round" and that quotes already taken are dropped at a one-sided
end, is about a caller that does not exist, and its write finds nothing to drop.

## 3. Runs

| Run | Module / cfg | What it shows |
|---|---|---|
| `engine` | `MCInterviewEngine` / `Engine.cfg` | type, one assessment, complete when announced, alternation, crediting, turn bound, request excludes score, `InterviewPromise` |
| `session_mixes` | `MCInterviewRoutes` / `SessionMixes.cfg` | one greeting per sitting, through postponements, re-invites and reopened handoffs; consent before live, also against accommodation requests; one successor, none for a scored interview |
| `session_sweep` | `MCInterviewRoutes` / `SessionSweep.cfg` | a dead finalisation is always closed out (liveness) |
| `job_lease` | `MCJobLease` / `JobLease.cfg` | one believer, its row, `JobOwner`, no foreign release, the job keeps running (liveness) |
| `feedback_mail` | `MCFeedbackMail` / `FeedbackMail.cfg` | one copy in flight, copies asked for, reviewed words only, the letter settles (liveness) |
| `pipeline` | `MCPipeline` / `Pipeline.cfg` | `CandidateJourney`, the review promise, a press moves once, no false refusal, verdicts and events arrive |
| `observed_round` | `MCObservedRound` / `ObservedRound.cfg` | listening means agreed, the status keeps step, whole and permitted quotes, nothing under a no, closed for good, the end settles (liveness) |
| `handoff_scored` | `MCInterviewEngine` / `HandoffScored.cfg` | violated: a handoff turn on record is scored over |
| `second_assessment` | `MCInterviewRoutes` / `SecondAssessment.cfg` | violated: the sweep opens the way to a second assessment |
| `questions_stranded` | `MCInterviewRoutes` / `QuestionsStranded.cfg` | violated: CANDIDATE_QUESTIONS is never closed out |
| `replay_moves_twice` | `MCPipeline` / `ReplayMovesTwice.cfg` | violated: one verdict, delivered twice, moves a candidate two stages |
| `room_opens_on_a_no` | `MCObservedRound` / `RoomOpensOnANo.cfg` | violated: the room is opened over the recorded no of somebody it needs |

Bounds. Two request slots: every race in the code is between two writers of
one row, and a slot is reused without limit, so a third actor can come between
the two as long as one of them has ended. `MaxTurns` of 1 to 3 lets a transcript reach the
cap and, with the overshoot the code permits, pass it; `FirstStates` starts a
run in the state its question is about. `MaxReopens` bounds reopenings of a
handoff. In `JobLease`, two processes, one of them with two runs (an interval
shorter than the work), `TTL` 2 and `MaxLag` 1: a lease can be renewed, expire,
be late, and be taken over at every relative position of two clocks.

In `FeedbackMail`, one job slot, one press slot and one reviewer who submits two
reviews, `MaxAttempts` 2 and `MaxGranted` 2: the letter can time out, be swept, be
pressed again while the first copy is still on its way, and be overtaken by a
review and its successor. Timeout, grace and pass are one tick each and `Stale` 5,
the least that keeps the order of the code's constants (`TimesAssumption`: a live
claim is not stale). In `Pipeline`, two copies of requests over one press and two
reviews of one interview and another's, one CV, `Retries` 2 (the code has 3), so
that a loop can run out; two plans, the default and one whose CV review comes after
the AI round; a pipeline that stands anywhere. In `ObservedRound`, the candidate
and two colleagues, one or none of them seated, two requests in flight (one may be
half-way through a decline, a settling, an end or a capture while the other does
anything any number of times) and two segments.

Which operations a run includes is part of what it shows. A session meets the
operations of one of `Mixes`, drawn when a behaviour begins (`mix`): a theorem is about
any such sets, `session_mixes` has three and the other runs one. The first of the
three, with re-invites and reopened handoffs, leaves out the answers' crediting, and `Alternates` is not checked: a re-invite's by-id
INVITED that lands during a resume reopens a live interview, and a second start
then opens next to the first. The second, from the invitation to a retake, includes the
operations that the hypotheses of the theorems about it allow (section 4); the third has the
routes that write the link. Every property is checked of all three. Beyond the mixes the
properties fail, each time through a by-id write that a request sends late, as TLC
shows when the operation is added to a mix:

- `OneSuccessor` with `sweep` (two requests): a pass that re-read a stalled
  finalisation writes TECHNICAL_FAILURE over the original that a retake has closed
  meanwhile, and it can be retaken again. With `invite` (two requests): a late INVITED
  reopens the closed original, which goes live, fails, and is retaken again. With
  `reopen` (four requests): two finalisations read the turns before the handoff turn
  is there, and a late reopen brings the original back between them. The comment at
  `routes/interviews.ts:527-529` speaks only of two retakes, and for those it is right.
- `LiveOnlyWithConsent` with `accommodate` and either `reopen` or `invite` (three
  requests): the accommodation writes back the consent it had loaded, which loses
  one recorded since, and the by-id write makes the session startable under a start
  that had read the consent before.

`second_assessment` exhibits the one such write that a code comment rules out. A handoff
writes its consent back as loaded too, but only from inside an interview, which no
session without consent on record reaches (section 4, `HeardInv`).

Fairness. `RoutesFairness`: time passes; a request in flight takes a step or
dies (weak fairness on `MovesOn`, which includes `Abandon`, so no request is
assumed to succeed); the sweep's timer fires again and again and its passes are
not all cut short at the same step (strong fairness on each of its steps), which
`setInterval` under a lease gives as long as some process runs. No fairness is
put on candidates, recruiters or finalisations. `JobLease!Fairness`: clocks run,
a timer ticks in a live process, statements return and jobs end, and the insert
that records a run does not fail every time. `Signal`, `Stop`, renewals and late
statements are under no fairness. `JobKeepsRunning` makes no claim once every
process has been told to stop. `FeedbackMail!Fairness`: clocks tick, a due time
comes, the job's pass sweeps and claims, and a live attempt's statements, heartbeat
and timers end; crashes, reviews and people are under none, and a crash may end
any attempt. `ObservedRound`: the page of a round whose quotes are pending polls,
and time passes. `Pipeline`: none.

The five disagreements, with the quoted comments, are under "findings" in
`PROJECT.json`.

Two things the lease does not give, by the code's own choice: `releaseHeldLeases`
gives up leases of runs that outlived the drain window and still execute, so
another process may start the job beside them until the old one exits
(`Believes` exempts a process in its close steps); and since a release sets the
expiry to the past, a second process's tick may run the job again within the
same interval, although `services/jobs.ts:8-12` speaks of once per interval.
`JobLease` also takes the processes' clocks as equal.

What the properties of the newer modules except, each because TLC finds it when the
exception is dropped:

- A review can be completed while a send holds its lock, although
  `services/autoFeedback.ts:62-64` says it is refused for as long, and 537-539 that
  nothing can land after the lock: a gate that read no letter, or
  a QUEUED one, before the claim goes on after the lock was taken, and one that
  found nothing to gate takes no row lock. What does hold is `ReviewedWordsOnly`:
  such a review has not released the letter, and one that has is never overtaken
  by older words.
- A database error after the provider took the letter is retried as a failed
  attempt: the one automatic second copy (`CopiesAskedFor` counts it), although
  `autoFeedback.ts:56-58` does not retry a stale claim because a letter received twice
  is worse than a person checking. Of a job's pass that outlasts `FEEDBACK_SEND_STALE_MS` the
  later claims are stale when made, and the next pass sweeps them while they are
  sent; `MaxPassAge` bounds the pass.
- `PromiseKept` is about the interviews that were unread when the request loaded
  the pipeline: the check is not in the transaction that moves.
- `EventsLand` and `VerdictCarried` except an event or a decision that met `RETRIES`
  conflicts, or an error of the database: `pipelineAutonomy.ts:111-115` and 475-478
  catch and log it, and the review is answered all the same. A retry that arrives after its review was superseded still carries
  its own verdict.
- A decline whose first statement finds the room not open yet closes nothing
  (`roundObserver.ts:429`), and its second lands after the room opened: the room
  listens, and stores words, over a row that says no, although 465-467 say no
  ordering of requests reaches that. `room_opens_on_a_no` shows it. `unseen` is the set
  of exactly those people, each from the moment that no is recorded in a room that is
  open or about to be opened, and `during` those of them whose no lands inside a
  capture's transaction: `ListeningMeansAgreed` and `NothingUnderANo` except a person
  of the set, and nobody else. (A no that was recorded before a capture's checks stops
  it even then, since `appendSegment` reads the rows; 779-819.)
- In a round with no seats every colleague who opens the page is an interviewer
  until somebody is admitted. After that the others' empty rows no longer count
  for the gate, but still for `appendSegment` (810), which refuses every chunk while
  the heartbeat says to go on; and if admitting somebody is what completes the
  agreement, nobody settles the status (`StatusKeepsStep`).
- An HR colleague's decline or stop closes an open room, although
  `domain/observedRound.ts:217-222` says it is no veto.
- A withdrawal between `endObservation`'s read and its write does not prevent the
  quotes, although 537-548 give the reasons not to take them (`overtaken`, which
  marks that withdrawal only; dropping it from `NoQuotesOfWithdrawn` gives the trace).

## 4. Proofs

The theorems hold for every value of the constants under the assumptions the modules
declare, each of which TLC evaluates on the runs:

- `InterviewEngine`: `Reqs` finite (a server has finitely many requests in flight),
  `MaxTurns` positive, `Utterances` without openings, `FirstStates` startable, `Ops` as
  listed. Any number of requests, and interviews of any length.
- `InterviewRoutes`: the same, and for `Mixes` any sets of the operations of the engine and
  of the routes as listed (`RouteOps` are those of the routes). Where a theorem needs some
  operation kept away, that is a hypothesis on `RouteOps`, named in the module and
  listed below; each leaves operations that change the state in, and none is about
  an order or a time at which requests arrive.
- `JobLease`: `"nobody"` is no run, `Home` a function to processes, `TTL` positive,
  `MaxLag` natural.
- `FeedbackMail`: jobs and presses are different senders; times are naturals and
  `Stale` exceeds a pass, a provider's timeout and the lock's grace together, as the
  constants of `autoFeedback.ts` do; the bounds are naturals. Any number of senders
  and reviewers.
- `Pipeline`: a plan starts with intake, has two stages or more, and no key twice, as
  the validation of a plan requires; a verdict is one a review can have. Any plan, any
  number of acts, copies of requests and uploads, any `Retries`.
- `ObservedRound`: the candidate is no colleague, panels are colleagues, `Requests`
  finite, `MaxSegments` natural. Any panel, any number of requests.

| Theorem | Establishes | Along |
|---|---|---|
| `TypeCorrect` (in each module) | `[]TypeOK` | one lemma per action or group of actions |
| `AtMostOneAssessment` | `[]OneAssessment` | `ClaimInv` |
| `RequestOrScore` | `[]RequestExcludesScore` | `RequestInv`, with `ClaimInv` |
| `ReviewReadyComplete` | `[]ReviewReadyIsComplete` | `CompleteInv` |
| `EngineKeepsPromise` | the engine implements `InterviewPromise` | `OpenInv`, `ClaimInv`, a step lemma |
| `SpeakersAlternate`, `CreditedOnScreen`, `StaysBounded` | `[]Alternates`, `[]CreditedToQuestionOnScreen`, `[]TranscriptBounded` | `TurnsInv`, with `ClaimInv` and `OpenInv` |
| `RoutesTypeCorrect` | `[]RoutesTypeOK`, for any operations | one lemma for the engine's steps, one for the routes' |
| `GreetedOnce` | `[]GreetedOncePerSitting`, for any operations | `GreetInv` |
| `LiveAfterConsent` | `LiveOnlyWithConsent` (what a step may never do), given `ConsentUndoneIsFinal` | `ConsentInv`, `OriginInv`, `HeardInv` |
| `AtMostOneSuccessor`, `RetakesUnscored` | `[]OneSuccessor`, `RetakeNeverScored`, given `ClosedStaysClosed` | `RetakeInv`, with `ClaimInv` |
| `RoutesCreditOnScreen` | `[]CreditedToQuestionOnScreen`, for any operations | `CreditInv` |
| `RoutesAlternate`, `RoutesStayBounded` | `[]Alternates`, `[]TranscriptBounded`, given `NothingReopens` | `TurnsInv`, `OpenInv`, `ConsentInv` |
| `SweepSparesUnbegun` | `UnbegunNeverClosedOut` (what a step may never do), given `NothingReopens` | `BegunInv`, `OpenInv` |
| `RoutesReviewReadyComplete` | `[]ReviewReadyIsComplete`, given `LinkStaysBurned` | `CompleteInv` |
| `RoutesScoreOnce`, `RoutesRequestOrScore` | `[]OneAssessment`, `[]RequestExcludesScore`, given `ClaimIsFinal` | `FinalInv` |
| `RoutesKeepPromise` | the engine with its routes implements `InterviewPromise`, given `EndsOnlyTheBegun` | `FinalInv`, `OpenInv`, `BegunInv`, a step lemma |
| `BelieversHold`, `AtMostOneBeliever` | `[]BelieverHolds`, `[]OneBeliever` | `BelieverHolds` is inductive |
| `LeaseImplementsOwner` | the lease implements `JobOwner` | `BelieverHolds`, a step lemma |
| `NothingForeignReleased` | `NoForeignRelease` | `TypeOK` and the guards |
| `OneInFlight`, `ReviewedOnly`, `AskedForOnly` | `[]OneCopyInFlight`, `[]ReviewedWordsOnly`, `[]CopiesAskedFor` | `IInv` of the letter |
| `MovedOnce`, `Carried`, `Landed` | `[]PressMovesOnce`, `[]VerdictCarried`, `[]EventsLand` | `IInv` of the pipeline |
| `PromiseIsKept`, `NeverFalselyRefused` | `PromiseKept`, `NoFalseRefusal` (what a step may never do) | the same |
| `JourneyKept` | the pipeline implements `CandidateJourney` | the same, a step lemma |
| `ListensAgreed`, `KeepsStep`, `QuotesWhole`, `WithdrawnUnquoted` | `[]ListeningMeansAgreed`, `[]StatusKeepsStep`, `[]QuotesOfWholeRecord`, `[]NoQuotesOfWithdrawn` | `IInv` of the round |
| `NoStoredNo`, `StaysClosed` | `NothingUnderANo`, `ClosedForGood` (what a step may never do) | the same |

Where a run's specification adds fairness (`FairSpec`), the theorem is about `Spec`,
which it implies. Each inductive invariant was checked by TLC on the run's instance
before it was proved (those of `InterviewSessionProofs` on instances of their own,
see below).

**The engine.** `OneAssessment` is not inductive: nothing in it stops two requests that
both hold the claim. `ClaimInv` adds that a claim is held by at most one request, only
while nothing is stored, and that once it was taken the state stays in
`PastClaim`, from which no engine statement reaches CLOSING again. The last part
is what a by-id write from outside the engine breaks: `AtMostOneAssessment` is about
`EngineSpec`, `RoutesScoreOnce` about the composed system under `ClaimIsFinal`, and
`second_assessment` shows what happens beyond it.
`RequestInv` adds that a handoff is only written over a state no finalisation
has claimed (`FORWARD` and the conditional update decide it). `CompleteInv` says
what a finalisation past each write has done. `OpenInv` says that while an
interview is startable none of its requests conducts it (`Conducting`): none has got
past a check that only a started one passes, which is why a by-id withdrawal cannot
close an interview not begun.

**The transcript.** `Alternates` says nothing of the requests that are about to write.
`TurnsInv` adds what they count on: a request producing a reply holds a position that
was the candidate's (`SpeakerOK`; `Produce` and `Say` compare it with the tail, so the
reply follows the candidate's turn or is dropped), and an answer names a question that
was asked, no later than the one its competency was read from (`AskedOK`). The lock
then gives the credit: an answer that passes `AnswersOldQuestion` names the newest
question, and `asked <= slot <= NewestAgent` leaves no room for a different competency.
`RoomInv` explains the bound `MaxTurns + 2 * Cardinality(Reqs)`: the test of
`MAX_TURNS_PER_SESSION` admits a request when there is room for a turn, each request
admitted may add its answer and then its reply, and before the interviewer has spoken
only the answers count, since an opening needs no admission. `OneSitting` is what holds
as long as no sitting is closed, and neither the engine nor a route other than a
reopen or a re-invite leads to a start that finds a sitting to close. The clause of
`Alternates` for closed sittings needs one of those two, and what survives of it under
their by-id writes is `GreetedOncePerSitting`. The helper
lemmas (`LeastIs`, `LastIs`, `NewestThen`, `AgentsStay`)
say what the choice of a last position returns and that turns already there keep it.

**The routes.** `GreetedOncePerSitting` needs no hypothesis, because nothing but
`Say` adds an opening and turns only grow (`Grows`): `GreetInv` adds that a request
about to greet has read a sitting in which nobody had spoken, so that if the
transcript still ends where it read it, all that was said before is closed. State
writes by id do not touch this. `ConsentInv` says that what a start has read of the
consent still holds while the session can be started; `OriginInv` that a step of an
operation is only reached by it, so that what is not in `RouteOps` never runs. Where
`accommodate` may run, it undoes a consent only together with the state, and
`ConsentUndoneIsFinal` (no `reopen` and no `invite` beside it) says that nobody puts
the state back. A handoff writes back the consent it has loaded, too; where there is no
`accommodate`, `HeardInv` says that nobody talks before the consent is on record and
nothing takes it away again, so what a handoff has loaded is consent. `RetakeInv` ties the retakes to the claim: a TECHNICAL_FAILURE is what
the one claimant leaves when it has given up (`Spent`), a retake that passed its
check found nothing stored and nobody left to store it, and its conditional close
leaves a session that `ClosedStaysClosed` (no `reopen`, `invite` or `sweep`) says no
by-id write reopens. Without the sweep no interview becomes INCOMPLETE, so those two
theorems are about retakes of technical failures. Section 3 gives the
counterexamples at each side of the two hypotheses.

**The engine under the routes.** `InterviewSessionProofs` takes each guarantee of the
engine to `RoutesSpec`, under the weakest condition on `RouteOps` it was proved with. In
every case the routes' steps change none of what the inductive invariant says of the
engine's requests, except by the writes the condition names:

- Credit needs no condition: routes only ever close a turn of the transcript, and
  `CreditInv` speaks of positions, which stay (`ClosedExtends`, `StillAsked`).
- `NothingReopens` (no `reopen`, no `invite`): `OneSitting` and `RoomInv` are about one
  conversation, and these two begin it anew. Sweep, cancel, partial assessment,
  accommodation and retake may end it under requests that still answer. The condition
  is needed on both sides, as TLC shows with two requests: a reopened handoff puts the
  interviewer's next question beside its handoff turn, a re-invite the second opening
  of section 3, and with either one every new start may have the interviewer speak
  again past the cap, which only answers are tested against.
- The same condition gives `UnbegunNeverClosedOut`: `incompleteInterviews.ts` (67) lists
  DISCLOSURE, CONSENTED and WARMUP among the states it closes out, but a pass only picks
  a session whose clock has started, and `BegunInv` says that the clock of a startable
  session has not, that no pass is therefore under way on one, and that whoever is
  about to start the clock has left the startable states first (`ClockStands`).
- `LinkStaysBurned` (no `open`, `accept`, `invite`, `resend`): the four routes that write
  the link by id. An accept marks it after checking the session, a first open and a
  resend write back the status they loaded, and a re-invite sends it anew, so that each
  may restore a link that the finalisation has burned between. The state writes by id, of
  the sweep and of a reopen too, do no harm: `CompleteInv` asks for the assessment and
  the link at the finalisation's own last write.
- `ClaimIsFinal` (`NothingReopens`, and not both `sweep` and `partial`): what can bring a
  claimed interview back to CLOSING. The sweep writes INCOMPLETE or TECHNICAL_FAILURE
  over a claim; only `assess-partial` takes INCOMPLETE back, and without the sweep no
  interview is INCOMPLETE (`SweptInv`). `second_assessment` is the counterexample with
  both.
- `EndsOnlyTheBegun` (`ClaimIsFinal`, no `cancel`, no `accommodate`): those two end an
  interview that was not begun, which `InterviewPromise` does not speak of. The sweep is
  in: `BegunInv` shows that its by-id write finds a begun interview whenever it lands.

These invariants were searched by TLC under the conditions, with two requests, for some
millions of states each and without running to completion, before they were proved.

**The lease.** `BelieverHolds` strengthens `OneBeliever` by the exact expiry: a run's
belief lapses no later than any clock, however old, can call the row lapsed.

**The letter.** `OneCopyInFlight` depends on three clocks: the row's age, the lock and
the provider's answer. `IInv` ties them together. An attempt at work is the claimant of
the row, younger than a pass takes for interrupted (`WorkOK`); a call with the provider
is covered by its sender's lock for as long as it may deliver, and delivered or dropped
before its claim can be swept (`CallOK`); so a sender that may lock the letter finds no
call. Its words are those of the review that released it, or newer, which is
`ReviewedWordsOnly` for the moment before the call is made. `CopiesOK` counts: while the
letter is queued or an attempt has yet to hand it over (`Owed`), one more was granted
than delivered or under way. The proof shows one statement of the code to be idle under
these times: an attempt whose confirmation missed finds the letter still SENDING under
its own renewed claim, so `recordUnverifiedSend` writes nothing as long as an attempt
keeps its times (`InTime`).

**The pipeline.** A request acts on a row it read before. `RequestOK` says that what it
read is not ahead of the row, which is why the conditional write (`Stands`) that finds
it unchanged may rely on all it had checked; `ReadOf` that a row without a stage is a
closed one; `Asked` that a request told that the review is there had it there.
`MovedOK` makes `PressMovesOnce` inductive: a press that moved the candidate finds them
past the stage it names, so every other copy is refused. `JourneyKept` maps each
conditional write to one step of `CandidateJourney` and everything else to a stutter.

**The observed round.** Consent is several statements, so `IInv` says what each request
half-way through one knows: a decliner who has written the row's "no" has closed the
room or, if it looked for one to close before it was open, is one of `unseen` (`NosOK`),
a request settling on CONSENTED has everybody's
answer, a capture between its checks and its write has a room that listens (the row is
held), an ending request's findings are still so or the withdrawal is `overtaken`.
`CapturesFit` counts captures under way against `MaxSegments`, so that the bound of the
model is never what makes a property true.

Model-checked only:

- All liveness (`EndedSettles`, `LetterSettles`, `JobKeepsRunning`,
  `FinalisationNeverStrands`): with `ENABLED`, out of the prover's reach.
- The five violated properties, which are refuted by a trace.

Induction over data is also out of reach; none is needed, as recursion is replaced by
the first and last of sets of positions, whose existence follows from the well-ordering
of the naturals.

## 5. Not modelled

The words of the conversation, prompts, scoring, rendering and the web client;
the tables of the components listed as `not_modelled` in `PROJECT.json`, with
the reason at each; identity confirmation before a start; the transcript
artifact; link expiry; the plan and the re-plan. Of the letter: the
rescheduling of letters queued before there was a window, and the rules of the
hold. Of the review: blind mode, the transcript-read requirement, audits, the
HUMAN_REVIEWED stamp that follows the commit. Of the pipeline: the rounds, panels
and notes themselves, the lost `candidate.profiled` event (nothing raises it again),
evidence and revocation of awards. Of the observer: retention, legal hold,
heartbeats and silence alarms, seats changed after booking.

## 6. Plan

Most important first; each becomes a module with its runs and, where marked (P),
proofs.

1. More of `InterviewRoutes` (P): how far alternation and the bound survive in a
   reopened or re-invited interview (a handoff turn excepted, a bound per sitting); a
   retake of an interview the sweep closed out.
2. `WebhookDelivery` (P): the 60 s claim against slow attempts, by-id outcomes,
   retries; abstract: delivered is final. Calendar and reminders after it.
3. `SignInCode` and `PasswordReset` (P): attempts, lockout, undo.
4. `LibraryBudget` over `JobLease`: the worker between heartbeats, the daily
   budget across midnight.
5. The engine's plan as state (`interviewReplan`), the expiry of a link, second sittings after a handoff.
6. The composition of finalisation, letter and review: a review completed between
   the assessment and REVIEW_READY.
7. Observer retention, calibration, data rights.
