---- MODULE FeedbackMail ----
(***************************************************************************)
(* The candidate's feedback letter (services/autoFeedback.ts) and the      *)
(* human review whose completion releases it (the review handler of        *)
(* routes/assessments.ts), for one interview and its assessment.           *)
(*                                                                         *)
(* The letter is one CandidateFeedbackEmail row.  The background job and   *)
(* "Send feedback now" work on it with conditional updates, renew their    *)
(* claim with a heartbeat, and hold a lock on it from before a word is     *)
(* composed until the provider has answered.  A review is completed in a   *)
(* transaction that first passes the gate on the same row.                 *)
(*                                                                         *)
(* One tick is a heartbeat period (FEEDBACK_SEND_HEARTBEAT_MS).            *)
(***************************************************************************)
EXTENDS Integers, FiniteSets

CONSTANTS
    Jobs,         \* slots for attempts of the background job
    Presses,      \* slots for presses of "Send feedback now"
    Reviewers,    \* who completes reviews, one submit after the other
    SendTimeout,  \* FEEDBACK_SEND_TIMEOUT_MS, in ticks
    Grace,        \* SEND_LOCK_GRACE_MS; composing takes no longer
    Stale,        \* FEEDBACK_SEND_STALE_MS
    MaxPassAge,   \* bound: how old the job's pass is when it claims its last letter
    MaxAttempts,  \* MAX_SEND_ATTEMPTS
    MaxReviews,   \* bound: reviews completed
    MaxGranted    \* bound: how often a letter is let go out

Senders == Jobs \cup Presses

ASSUME SendersAssumption == "nobody" \notin Senders /\ Jobs \cap Presses = {}
ASSUME TimesAssumption ==
    /\ SendTimeout \in Nat \ {0} /\ Grace \in Nat /\ MaxPassAge \in Nat
    /\ Stale \in Nat /\ Stale > MaxPassAge + 1 + SendTimeout + Grace
ASSUME BoundsAssumption ==
    MaxAttempts \in Nat \ {0} /\ MaxReviews \in Nat /\ MaxGranted \in Nat \ {0}

VARIABLES
    row,      \* the CandidateFeedbackEmail row
    enq,      \* how far the finalisation is with queueing the letter
    pc,       \* where each sender is
    words,    \* the review each sender's letter was composed from
    calls,    \* provider calls that may still deliver
    current,  \* senders whose copy of the row is still the row (updatedAt)
    req,      \* review requests: where they are and what they have read
    active,   \* the review in force (activeForAssessmentId): the n-th, 0 when there is none
    released, \* history: the last review that was let through the gate with the letter
    copies,   \* history: letters the candidate has received
    granted   \* history: how often a letter was let go out: queued by the finalisation or by
              \* a person, or forgotten by a database error after the provider took it

senderVars == <<pc, words>>
reviewVars == <<req, active, released>>
history == <<copies, granted>>
vars == <<row, enq, senderVars, calls, current, reviewVars, history>>

NoRow == [status |-> "NONE"]
NoLock == [by |-> "nobody", left |-> 0]
NoWords == -1 \* nothing composed yet; 0 is the AI's own reading

(* A row as it is first written.                                           *)
NewRow(status, due) ==
    [status |-> status, due |-> due, attempts |-> 0, basis |-> NoWords,
     claim |-> "nobody", ahead |-> FALSE, age |-> 0, lock |-> NoLock]

(* Every write of the row makes the copies others hold of it out of date.  *)
Write(r) == row' = r /\ current' = {}
KeepRow == UNCHANGED <<row, current>>
WriteIf(cond, r) == IF cond THEN Write(r) ELSE KeepRow

Goto(s, l) ==
    /\ pc' = [pc EXCEPT ![s] = l]
    /\ words' = IF l \in {"sending", "failing", "idle"} THEN [words EXCEPT ![s] = NoWords] ELSE words

(* Mutant: the claim is left on the row.                                   *)
StillClaimed(status) == [row EXCEPT !.status = status, !.due = FALSE]

(* The claim is gone, whatever the row becomes.                            *)
Unclaimed(status) ==
    [row EXCEPT !.status = status, !.claim = "nobody", !.ahead = FALSE, !.age = 0, !.due = FALSE]

LockStands == row # NoRow /\ row.lock # NoLock

At(l) == [pc |-> l, previous |-> 0, status |-> "NONE"]

Init ==
    /\ row = NoRow /\ enq = "start"
    /\ pc = [s \in Senders |-> "idle"] /\ words = [s \in Senders |-> NoWords]
    /\ calls = {} /\ current = {}
    /\ req = [q \in Reviewers |-> At("idle")]
    /\ active = 0 /\ released = 0
    /\ copies = 0 /\ granted = 0

----
(* Queueing the letter: enqueueAutoFeedback, at the end of finalisation.   *)

(* Is a review already on file?                                            *)
EnqueueLook ==
    /\ enq = "start"
    /\ enq' = IF active = 0 THEN "unreviewed" ELSE "reviewed"
    /\ UNCHANGED <<row, senderVars, calls, current, reviewVars, history>>

(* The row is created unless one exists: skipped, held without a due time, *)
(* or due at once or when the review window runs out.                      *)
EnqueueCreate ==
    /\ enq \in {"unreviewed", "reviewed"}
    /\ enq' = "done"
    /\ \/ row # NoRow /\ KeepRow /\ UNCHANGED granted
       \/ /\ row = NoRow
          /\ \/ \E o \in {"SKIPPED", "HELD"} : Write(NewRow(o, FALSE)) /\ UNCHANGED granted
             \/ Write(NewRow("QUEUED", enq = "reviewed")) /\ granted' = granted + 1
    /\ UNCHANGED <<senderVars, calls, reviewVars, copies>>

(* The review window or the backoff runs out.                              *)
FallsDue ==
    /\ row.status = "QUEUED" /\ ~row.due
    /\ row' = [row EXCEPT !.due = TRUE]
    /\ UNCHANGED <<enq, senderVars, calls, current, reviewVars, history>>

----
(* "Send feedback now" (sendFeedbackNow), the preview, and the hold.       *)

(* Mutant: an accepted risk is enough, whatever the first send still does. *)
ManualSendUnlocked(confirm) ==
    \/ row.status \in {"NONE", "FAILED", "DRAFT", "HELD", "SKIPPED"}
    \/ row.status = "QUEUED" /\ ~row.due
    \/ row.status = "SENT_UNVERIFIED" /\ confirm

(* manualSendAllowed.  What the candidate has said or an admin has switched *)
(* off is decided outside: it may forbid any press and skip any letter.     *)
ManualSendAllowed(confirm) ==
    \/ row.status \in {"NONE", "FAILED", "DRAFT", "HELD", "SKIPPED"}
    \/ row.status = "QUEUED" /\ ~row.due
    \/ row.status = "SENT_UNVERIFIED" /\ ~LockStands /\ confirm

(* The row is read and judged ...                                          *)
PressLook(s, confirm) ==
    /\ s \in Presses /\ pc[s] = "idle" /\ granted < MaxGranted
    /\ ManualSendAllowed(confirm)
    /\ Goto(s, "press")
    /\ current' = current \cup {s}
    /\ UNCHANGED <<row, enq, calls, reviewVars, history>>

(* A row as a person's press leaves it.                                    *)
Requeued(r) ==
    [r EXCEPT !.status = "QUEUED", !.due = TRUE, !.attempts = 0,
              !.claim = "nobody", !.ahead = FALSE, !.age = 0]

(* ... and queued at once, if it is still the row that was read.           *)
PressWrite(s) ==
    /\ pc[s] = "press"
    /\ IF s \in current
       THEN /\ Write(IF row = NoRow THEN NewRow("QUEUED", TRUE) ELSE Requeued(row))
            /\ granted' = granted + 1
            /\ Goto(s, "pressed")
       ELSE KeepRow /\ UNCHANGED granted /\ Goto(s, "idle")
    /\ UNCHANGED <<enq, calls, reviewVars, copies>>

(* previewFeedbackEmail: the words are kept with the row, or with a new    *)
(* DRAFT.                                                                  *)
Preview ==
    /\ ManualSendAllowed(FALSE)
    /\ Write([(IF row = NoRow THEN NewRow("DRAFT", FALSE) ELSE row) EXCEPT !.basis = active])
    /\ UNCHANGED <<enq, senderVars, calls, reviewVars, history>>

(* keepFeedbackHeld: all that changes here is that presses must look again. *)
KeepHeld ==
    /\ row.status = "HELD"
    /\ Write(row)
    /\ UNCHANGED <<enq, senderVars, calls, reviewVars, history>>

----
(* An attempt: attemptFeedbackEmail and sendClaimed.                       *)

Composing == {"locked", "composed", "checked"}
Working == Composing \cup {"claimed", "sending", "accepted", "missed", "failing", "timedout"}

(* The row still carries the claim as the attempt knows it.                *)
OwnClaim(s) == row.status = "SENDING" /\ row.claim = s /\ ~row.ahead

(* The claim of a due letter carries the clock read when the job's pass,   *)
(* or the press, began.                                                    *)
Claim(s) ==
    /\ pc[s] = IF s \in Jobs THEN "idle" ELSE "pressed"
    /\ row.status = "QUEUED" /\ row.due
    /\ \E a \in 0..MaxPassAge :
          /\ s \in Presses => a = 0
          /\ Write([row EXCEPT !.status = "SENDING", !.claim = s, !.ahead = FALSE, !.age = a])
    /\ Goto(s, "claimed")
    /\ UNCHANGED <<enq, calls, reviewVars, history>>

(* A press whose letter somebody else has claimed.                         *)
NotDue(s) ==
    /\ pc[s] = "pressed" /\ ~(row.status = "QUEUED" /\ row.due)
    /\ Goto(s, "idle")
    /\ UNCHANGED <<row, enq, calls, current, reviewVars, history>>

(* The heartbeat's statement moves claimedAt, and the attempt learns of it *)
(* when the reply is in.                                                   *)
Heartbeat(s) ==
    /\ pc[s] \in Working /\ OwnClaim(s) /\ row.age > 0
    /\ Write([row EXCEPT !.age = 0, !.ahead = TRUE])
    /\ UNCHANGED <<enq, senderVars, calls, reviewVars, history>>

HeartbeatReply(s) ==
    /\ pc[s] \in Working /\ row.status = "SENDING" /\ row.claim = s /\ row.ahead
    /\ row' = [row EXCEPT !.ahead = FALSE]
    /\ UNCHANGED <<enq, senderVars, calls, current, reviewVars, history>>

(* Every skip rule is checked again: the letter may be skipped after all.  *)
SkipAtSend(s) ==
    /\ pc[s] = "claimed"
    /\ WriteIf(OwnClaim(s), Unclaimed("SKIPPED"))
    /\ Goto(s, "idle")
    /\ UNCHANGED <<enq, calls, reviewVars, history>>

(* takeSendLock; refused, the attempt throws.                              *)
TakeSendLock(s) ==
    /\ pc[s] = "claimed"
    /\ IF OwnClaim(s) /\ ~LockStands
       THEN Write([row EXCEPT !.lock = [by |-> s, left |-> SendTimeout + Grace]]) /\ Goto(s, "locked")
       ELSE KeepRow /\ Goto(s, "failing")
    /\ UNCHANGED <<enq, calls, reviewVars, history>>

(* Mutant: words already stored are used, whatever they were written from. *)
ContentForAsStored(review) == IF row.basis # NoWords THEN row.basis ELSE review

(* contentFor: what the words are written from.  Stored words are used     *)
(* only when they were written from the same review.                       *)
ContentFor(review) == IF row.basis = review THEN row.basis ELSE review

(* Composed from the review on file, and again if another is on file when  *)
(* the words are there.                                                    *)
Compose(s) ==
    /\ pc[s] \in {"locked", "composed"}
    /\ words' = [words EXCEPT ![s] =
                    IF pc[s] = "composed" /\ active = words[s] THEN @ ELSE ContentFor(active)]
    /\ pc' = [pc EXCEPT ![s] = IF @ = "locked" THEN "composed" ELSE "checked"]
    /\ UNCHANGED <<row, enq, calls, current, reviewVars, history>>

(* sendWithinTimeout hands the letter, stored by id just before, to the    *)
(* provider ...                                                            *)
Send(s) ==
    /\ pc[s] = "checked"
    /\ Write([row EXCEPT !.basis = words[s]])
    /\ calls' = calls \cup {[by |-> s, basis |-> words[s], left |-> SendTimeout, awaited |-> TRUE]}
    /\ Goto(s, "sending")
    /\ UNCHANGED <<enq, reviewVars, history>>

Awaited(s) == CHOOSE c \in calls : c.by = s /\ c.awaited

(* ... which takes it, refuses it, or does not answer in time; then, or    *)
(* when the sender has died, it may still deliver.                         *)
ProviderTakes(s) ==
    /\ pc[s] = "sending"
    /\ calls' = calls \ {Awaited(s)} /\ copies' = copies + 1
    /\ Goto(s, "accepted")
    /\ UNCHANGED <<row, enq, current, reviewVars, granted>>

ProviderRefuses(s) ==
    /\ pc[s] = "sending"
    /\ calls' = calls \ {Awaited(s)}
    /\ Goto(s, "failing")
    /\ UNCHANGED <<row, enq, current, reviewVars, history>>

Abandoned(s) == {IF c.by = s THEN [c EXCEPT !.awaited = FALSE] ELSE c : c \in calls}

SendTimesOut(s) ==
    /\ pc[s] = "sending" /\ Awaited(s).left = 0
    /\ calls' = Abandoned(s)
    /\ Goto(s, "timedout")
    /\ UNCHANGED <<row, enq, current, reviewVars, history>>

DeliveredLate ==
    /\ \E c \in calls : ~c.awaited /\ calls' = calls \ {c}
    /\ copies' = copies + 1
    /\ UNCHANGED <<row, enq, senderVars, current, reviewVars, granted>>

(* The send is confirmed on the claim ...                                  *)
Confirm(s) ==
    /\ pc[s] = "accepted"
    /\ IF OwnClaim(s)
       THEN Write([Unclaimed("SENT") EXCEPT !.lock = NoLock]) /\ Goto(s, "idle")
       ELSE KeepRow /\ Goto(s, "missed")
    /\ UNCHANGED <<enq, calls, reviewVars, history>>

(* ... or recorded as unverified, unless the row is being sent or sent     *)
(* (recordUnverifiedSend).                                                 *)
RecordUnverifiedSend(s) ==
    /\ pc[s] = "missed"
    /\ WriteIf(row.status \in {"QUEUED", "FAILED", "SKIPPED", "DRAFT", "SENT_UNVERIFIED"},
               [Unclaimed("SENT_UNVERIFIED") EXCEPT !.lock = NoLock])
    /\ Goto(s, "idle")
    /\ UNCHANGED <<enq, calls, reviewVars, history>>

(* Anything else that throws on the way, and the database failing between  *)
(* the provider's answer and the confirmation: both are a failed attempt.  *)
Throws(s) ==
    /\ pc[s] \in Composing \cup {"claimed"}
    /\ Goto(s, "failing")
    /\ UNCHANGED <<row, enq, calls, current, reviewVars, history>>

ThrowsAfterSend(s) ==
    /\ pc[s] = "accepted" /\ granted < MaxGranted
    /\ granted' = granted + 1
    /\ Goto(s, "failing")
    /\ UNCHANGED <<row, enq, calls, current, reviewVars, copies>>

(* Mutant: the attempt is not counted.                                     *)
AfterFailedUncounted(r) == [Unclaimed("QUEUED") EXCEPT !.lock = NoLock]

(* afterFailedAttempt: back to the queue, and failed after the last try.   *)
AfterFailed(r) ==
    [Unclaimed(IF r.attempts + 1 >= MaxAttempts THEN "FAILED" ELSE "QUEUED")
        EXCEPT !.attempts = r.attempts + 1, !.lock = NoLock]

(* recordFailure on the claim, and releaseSendLock for the lock of exactly *)
(* this attempt.                                                           *)
RecordFailure(s) ==
    /\ pc[s] = "failing"
    /\ IF OwnClaim(s) THEN Write(AfterFailed(row))
       ELSE WriteIf(row.lock.by = s, [row EXCEPT !.lock = NoLock])
    /\ Goto(s, "idle")
    /\ UNCHANGED <<enq, calls, reviewVars, history>>

(* recordTimedOutSend: on the status alone, the lock left standing.        *)
RecordTimedOutSend(s) ==
    /\ pc[s] = "timedout"
    /\ WriteIf(row.status = "SENDING", Unclaimed("SENT_UNVERIFIED"))
    /\ Goto(s, "idle")
    /\ UNCHANGED <<enq, calls, reviewVars, history>>

(* The process dies.                                                       *)
Crash(s) ==
    /\ pc[s] \in Working \cup {"press", "pressed"}
    /\ calls' = Abandoned(s)
    /\ Goto(s, "idle")
    /\ current' = current \ {s}
    /\ UNCHANGED <<row, enq, reviewVars, history>>

(* Mutant: an interrupted letter is sent again.                            *)
InterruptedAgain == [Unclaimed("QUEUED") EXCEPT !.lock = NoLock]

(* An interrupted letter is left for a person.                             *)
Interrupted == [Unclaimed("FAILED") EXCEPT !.lock = NoLock]

(* releaseInterruptedSends, at the beginning of a pass.                    *)
ReleaseInterruptedSends ==
    /\ row.status = "SENDING" /\ row.age >= Stale
    /\ Write(Interrupted)
    /\ UNCHANGED <<enq, senderVars, calls, reviewVars, history>>

----
(* Completing a review: POST /assessments/:id/review, as far as it touches *)
(* the letter.                                                             *)

Review(q, l) == req' = [req EXCEPT ![q] = At(l)]
ReviewOn(q, l, status) == req' = [req EXCEPT ![q].pc = l, ![q].status = status]

(* A review on file is replaced only on purpose: other submits end here.   *)
(* gateReviewCompletion reads the row ...                                  *)
GateRead(q) ==
    /\ req[q].pc = "idle"
    /\ active < MaxReviews
    /\ ~(row.status = "SENT_UNVERIFIED" /\ LockStands)
    /\ LET toGate == row.status \in {"QUEUED", "SENDING"}
       IN  req' = [req EXCEPT ![q] =
              [pc |-> IF toGate THEN "gateWrite" ELSE "file",
               previous |-> active,
               status |-> IF toGate THEN row.status ELSE "NONE"]]
    /\ UNCHANGED <<row, enq, senderVars, calls, current, active, released, history>>

(* The previous review is superseded and this one takes its place, unless  *)
(* another has taken it: activeForAssessmentId is unique.                  *)
File(q) ==
    /\ active' = IF active = req[q].previous THEN active + 1 ELSE active
    /\ Review(q, "idle")

(* Mutant: a lock does not keep the gate shut.                             *)
GateOpenLocked(q) == row.status = req[q].status

GateOpen(q) == row.status = req[q].status /\ ~LockStands

(* ... and writes it if it is as read and not locked: the write holds the  *)
(* row until the transaction ends, so it and the commit are one step ...   *)
GateWrite(q) ==
    /\ req[q].pc = "gateWrite"
    /\ IF GateOpen(q)
       THEN /\ File(q)
            /\ released' = IF active' # active THEN active' ELSE released
            /\ WriteIf(active' # active,
                       IF row.status = "QUEUED" THEN [row EXCEPT !.due = TRUE] ELSE row)
       ELSE ReviewOn(q, "gateAgain", "NONE") /\ KeepRow /\ UNCHANGED <<active, released>>
    /\ UNCHANGED <<enq, senderVars, calls, history>>

(* ... or looks again: a live lock means the review waits.                 *)
GateAgain(q) ==
    /\ req[q].pc = "gateAgain"
    /\ IF row.status \in {"QUEUED", "SENDING"} /\ LockStands
       THEN Review(q, "idle") ELSE ReviewOn(q, "file", "NONE")
    /\ UNCHANGED <<row, enq, senderVars, calls, current, active, released, history>>

(* A review that changes nothing about the letter holds nothing of it.     *)
FileUngated(q) ==
    /\ req[q].pc = "file"
    /\ File(q)
    /\ UNCHANGED <<row, enq, senderVars, calls, current, released, history>>

(* The connection or the process is gone; nothing uncommitted stays.       *)
RequestLost(q) ==
    /\ req[q].pc \in {"gateWrite", "gateAgain", "file"}
    /\ Review(q, "idle")
    /\ UNCHANGED <<row, enq, senderVars, calls, current, active, released, history>>

----
(* Time.  A send that waits for the provider gives up in time, composing   *)
(* takes no longer than Grace, and a live attempt's heartbeat comes every  *)
(* tick.                                                                   *)
InTime(s) ==
    /\ pc[s] = "sending" => Awaited(s).left > 0
    /\ pc[s] \in Composing /\ row.lock.by = s => row.lock.left > SendTimeout
    /\ pc[s] \in Working /\ row.status = "SENDING" /\ row.claim = s => row.age <= MaxPassAge

Aged(r) ==
    [r EXCEPT !.age = IF r.status = "SENDING" /\ @ < Stale THEN @ + 1 ELSE @,
              !.lock = IF r.lock.left = 0 THEN NoLock ELSE [r.lock EXCEPT !.left = r.lock.left - 1]]

Tick ==
    /\ \A s \in Senders : InTime(s)
    /\ row # NoRow
    /\ row' = Aged(row)
    /\ calls' = {[c EXCEPT !.left = @ - 1] : c \in {d \in calls : d.left > 0}}
    /\ UNCHANGED <<enq, senderVars, current, reviewVars, history>>

AttemptStep(s) ==
    \/ NotDue(s) \/ SkipAtSend(s) \/ TakeSendLock(s) \/ Compose(s) \/ Send(s)
    \/ ProviderTakes(s) \/ ProviderRefuses(s) \/ SendTimesOut(s)
    \/ Confirm(s) \/ RecordUnverifiedSend(s) \/ Throws(s) \/ ThrowsAfterSend(s)
    \/ RecordFailure(s) \/ RecordTimedOutSend(s)

Next ==
    \/ EnqueueLook \/ EnqueueCreate \/ FallsDue \/ Preview \/ KeepHeld
    \/ \E s \in Senders :
          \/ \E confirm \in BOOLEAN : PressLook(s, confirm)
          \/ PressWrite(s) \/ Claim(s) \/ Heartbeat(s) \/ HeartbeatReply(s)
          \/ AttemptStep(s) \/ Crash(s)
    \/ DeliveredLate \/ ReleaseInterruptedSends
    \/ \E q \in Reviewers :
          \/ GateRead(q) \/ GateWrite(q) \/ GateAgain(q) \/ FileUngated(q) \/ RequestLost(q)
    \/ Tick

Spec == Init /\ [][Next]_vars

(* The job's timer ticks, clocks run, and statements and the timers of a   *)
(* live process come to an end.                                            *)
Fairness ==
    /\ WF_vars(Tick) /\ WF_vars(FallsDue) /\ WF_vars(ReleaseInterruptedSends)
    /\ \A s \in Senders :
          /\ WF_vars(PressWrite(s)) /\ WF_vars(Claim(s)) /\ WF_vars(AttemptStep(s))
          /\ WF_vars(Heartbeat(s)) /\ WF_vars(HeartbeatReply(s))

FairSpec == Spec /\ Fairness

----
(* Properties.                                                             *)

Statuses == {"DRAFT", "QUEUED", "SENDING", "SENT", "SENT_UNVERIFIED", "FAILED", "SKIPPED", "HELD"}
RequestPCs == {"idle", "gateWrite", "gateAgain", "file"}
Bases == 0..MaxReviews
Locks == [by : Senders, left : 0..(SendTimeout + Grace)] \cup {NoLock}

(* Everything keeps its shape; only a letter being sent carries a claim,   *)
(* and only one being sent, or sent without an answer, a lock.             *)
TypeOK ==
    /\ row = NoRow \/ row \in
          [status : Statuses, due : BOOLEAN, attempts : 0..MaxAttempts, basis : Bases \cup {NoWords},
           claim : Senders \cup {"nobody"}, ahead : BOOLEAN, age : 0..Stale, lock : Locks]
    /\ row # NoRow =>
          /\ row.claim # "nobody" <=> row.status = "SENDING"
          /\ row.claim = "nobody" => ~row.ahead /\ row.age = 0
          /\ row.lock # NoLock => row.status \in {"SENDING", "SENT_UNVERIFIED"}
    /\ enq \in {"start", "unreviewed", "reviewed", "done"}
    /\ pc \in [Senders -> Working \cup {"idle", "press", "pressed"}]
    /\ words \in [Senders -> Bases \cup {NoWords}]
    /\ calls \subseteq [by : Senders, basis : Bases, left : 0..SendTimeout, awaited : BOOLEAN]
    /\ current \subseteq Senders
    /\ req \in [Reviewers -> [pc : RequestPCs, previous : Bases, status : {"QUEUED", "SENDING", "NONE"}]]
    /\ active \in Bases /\ released \in 0..active
    /\ granted \in 0..MaxGranted /\ copies \in 0..MaxGranted

(* The provider never has the letter twice: no second send begins while an *)
(* earlier one, timed out, interrupted by a crash or still waited for, may *)
(* yet deliver (attemptFeedbackEmail, recordTimedOutSend,                  *)
(* releaseInterruptedSends and manualSendAllowed together).                *)
OneCopyInFlight == Cardinality(calls) <= 1

(* Once a review has released the letter, nothing older than that review   *)
(* is with the provider or will be handed to it: no send is under way at   *)
(* that moment, and retries, previewed words and presses take the review's *)
(* words (gateReviewCompletion, takeSendLock, contentFor).                 *)
ReviewedWordsOnly ==
    /\ \A c \in calls : c.basis >= released
    /\ \A s \in Senders : pc[s] = "checked" /\ row.lock.by = s => words[s] >= released

(* The candidate never has more letters than were queued by the            *)
(* finalisation or by a person, those on their way included: timeouts,     *)
(* lost claims, crashes and retries never send a copy of their own accord. *)
(* The exception is a database error between the provider's answer and     *)
(* the confirmation, which counts as a failed attempt.                     *)
CopiesAskedFor == copies + Cardinality(calls) <= granted

(* A letter that is waiting or being sent ends up sent, failed, skipped or *)
(* unverified, whatever dies or is refused on the way, and also when the   *)
(* attempt loses its claim to its own heartbeat.                           *)
LetterSettles == row.status \in {"QUEUED", "SENDING"} ~> row.status \notin {"QUEUED", "SENDING"}

====
