---- MODULE ObservedRound ----
(***************************************************************************)
(* The AI observer of one human round (services/roundObserver.ts, with the *)
(* rules of domain/observedRound.ts): who must agree to be recorded, when  *)
(* the room opens, what is captured, and which quotes may be taken from it *)
(* once the round is over (services/observerQuotes.ts).                    *)
(*                                                                         *)
(* Everything is conditional updates of three tables: the observation row, *)
(* one row per person, and the captured segments.  Requests interleave     *)
(* between those statements.  A capture's transaction holds the            *)
(* observation row from its first statement until it commits, so another   *)
(* update of a LISTENING observation waits for it.                         *)
(***************************************************************************)
EXTENDS Naturals, Sequences, FiniteSets

CONSTANTS
    Candidate,   \* who is interviewed
    Staff,       \* colleagues who reach the round, seated on it or running the process
    Panels,      \* the sets of colleagues the round may have been booked with
    Requests,    \* slots for requests in flight
    MaxSegments  \* bound: stretches captured

ASSUME PeopleAssumption == Candidate \notin Staff /\ Panels \subseteq SUBSET Staff
ASSUME RequestsAssumption == IsFiniteSet(Requests)
ASSUME SegmentsAssumption == MaxSegments \in Nat

VARIABLES
    seats,     \* who is seated on the round: fixed when it is booked
    round,     \* the round's status
    obs,       \* the observation row
    said,      \* what each person's row says
    admitted,  \* whose row has admittedAt
    segs,      \* the segments, in index order
    req,       \* requests in flight
    unseen,    \* history: whose "no" was recorded in a room that opened, or was being opened,
               \* after its sender had looked for one to close (forgotten when the round ends)
    during,    \* history: the same, while a capture's transaction was under way
    overtaken  \* history: a withdrawal fell between the read and the write of the end

history == <<unseen, during, overtaken>>
vars == <<seats, round, obs, said, admitted, segs, req, history>>

People == Staff \cup {Candidate}

Statuses == {"MISSING", "AWAITING_CONSENT", "CONSENTED", "LISTENING", "STOPPED", "DECLINED", "ENDED"}
ENDABLE == {"AWAITING_CONSENT", "CONSENTED", "LISTENING", "STOPPED"}
STOPPABLE == {"AWAITING_CONSENT", "CONSENTED", "LISTENING"}

Missing == [status |-> "MISSING", stopped |-> FALSE, oneSided |-> FALSE,
            quotes |-> "PENDING", quoted |-> 0, old |-> FALSE]
Booked == [Missing EXCEPT !.status = "AWAITING_CONSENT"]

(* Everyone expected has a row; nobody has agreed to anything.             *)
Asked(panel) == [p \in People |-> IF p \in panel \cup {Candidate} THEN "pending" ELSE "absent"]

Idle == [at |-> "idle"]
End(r) == req' = [req EXCEPT ![r] = Idle]
Goto(r, q) == req' = [req EXCEPT ![r] = q]
At(r, l) == req[r].at = l

(* A round booked with its observation, or one from before the observer.   *)
Init ==
    /\ seats \in Panels /\ round = "SCHEDULED"
    /\ \/ obs = Booked /\ said = Asked(seats)
       \/ obs = Missing /\ said = [p \in People |-> "absent"]
    /\ admitted = {} /\ segs = <<>>
    /\ req = [r \in Requests |-> Idle]
    /\ unseen = {} /\ during = {} /\ overtaken = FALSE

----
(* The rules of domain/observedRound.ts                                    *)

REQUIRED_PARTIES == {"candidate", "interviewer"}

Party(p) ==
    IF p = Candidate THEN "candidate"
    ELSE IF p \in seats \/ seats = {} THEN "interviewer"
    ELSE "hr"

Interviewers == {p \in Staff : Party(p) = "interviewer" /\ said[p] # "absent"}

(* Who conducts the round: the seated and the ever admitted, or else every *)
(* interviewer there is a row for.                                         *)
Conducting ==
    LET known == seats \cup (Interviewers \cap admitted)
    IN  IF known # {} THEN known ELSE Interviewers

RequiredOf == {Candidate} \cup Conducting

(* Mutant: the candidate's agreement opens the room.                       *)
CaptureConsentedByTheCandidate == Conducting # {} /\ said[Candidate] = "consented"

CaptureConsented == Conducting # {} /\ \A p \in RequiredOf : said[p] = "consented"

BlockingDecline == \E p \in RequiredOf : said[p] = "declined"

MayEnterRoom(p) ==
    /\ round = "SCHEDULED" /\ obs.status \notin {"STOPPED", "DECLINED", "ENDED"}
    /\ said[p] = "consented" /\ CaptureConsented

----
(* The observation and its rows                                            *)

(* A capture's transaction is under way.                                   *)
Locked == \E r \in Requests : At(r, "storing")

(* An update of the observation where its status is one of S need not wait *)
(* for a capture.                                                          *)
Free(S) == Locked => obs.status \notin S

Ensured == IF obs.status = "MISSING" THEN Booked ELSE obs

(* Mutant: an observation made on sight has a row for its maker only.      *)
KnownAlone(p) == [said EXCEPT ![p] = IF @ = "absent" THEN "pending" ELSE @]

(* The rows once the observation is there, and one for p.                  *)
Known(p) ==
    LET all == IF obs.status = "MISSING" THEN Asked(seats) ELSE said
    IN  IF all[p] = "absent" THEN [all EXCEPT ![p] = "pending"] ELSE all

(* A colleague comes through the room's door, the candidate by their link. *)
Comes(p) == IF p \in Staff THEN round = "SCHEDULED" ELSE obs.status # "MISSING"

(* Mutant: a cut-off extraction is only noticed where it may be retried.   *)
ExpiredIfRetriable(o) ==
    IF o.status = "ENDED" /\ o.quotes = "PENDING" /\ o.old /\ ~o.stopped
    THEN [o EXCEPT !.quotes = "UNAVAILABLE"] ELSE o

Expired(o) ==
    IF o.status = "ENDED" /\ o.quotes = "PENDING" /\ o.old
    THEN [o EXCEPT !.quotes = "UNAVAILABLE"] ELSE o

(* Opening the room's page, which also polls it.                           *)
Opens(p) ==
    /\ obs' = Expired(Ensured)
    /\ said' = Known(p)
    /\ UNCHANGED <<seats, round, admitted, segs, req, history>>

(* Consent, unless the person has decided already.                         *)
Consents(r, p) ==
    /\ At(r, "idle") /\ Comes(p)
    /\ obs' = Ensured
    /\ said' = IF Known(p)[p] = "pending" THEN [Known(p) EXCEPT ![p] = "consented"] ELSE said
    /\ IF said[p] = "declined" THEN UNCHANGED req ELSE Goto(r, [at |-> "settle"])
    /\ UNCHANGED <<seats, round, admitted, segs, history>>

Closed(o) == [o EXCEPT !.status = "STOPPED", !.stopped = TRUE]

OPEN == {"CONSENTED", "LISTENING"}

(* On its way to be recorded, with whether there was an open room to close. *)
Declining(p) == [at |-> "declining", who |-> p, open |-> obs.status \in OPEN]

(* Mutant: a "no" is recorded, and the room goes on.                       *)
DeclinesWithoutClosing(r, p) ==
    /\ At(r, "idle") /\ Comes(p)
    /\ said' = Known(p) /\ obs' = Ensured
    /\ Goto(r, Declining(p))
    /\ UNCHANGED <<seats, round, admitted, segs, history>>

(* A "no" closes an open room first ...                                    *)
Declines(r, p) ==
    /\ At(r, "idle") /\ Comes(p) /\ Free(OPEN)
    /\ said' = Known(p)
    /\ obs' = IF obs.status \in OPEN THEN Closed(obs) ELSE Ensured
    /\ Goto(r, Declining(p))
    /\ UNCHANGED <<seats, round, admitted, segs, history>>

(* Somebody is about to open the room on answers read before.              *)
Opening ==
    obs.status = "AWAITING_CONSENT" /\ \E q \in Requests : At(q, "settling") /\ req[q].want = "CONSENTED"

(* ... and is then recorded, which closes nothing.                         *)
SaysNo(r) ==
    LET missed == IF req[r].open THEN {} ELSE RequiredOf \cap {req[r].who}
    IN  /\ At(r, "declining")
        /\ said' = [said EXCEPT ![req[r].who] = "declined"]
        /\ unseen' = IF obs.status \in OPEN \/ Opening THEN unseen \cup missed ELSE unseen
        /\ during' = IF Locked THEN during \cup missed ELSE during
        /\ Goto(r, [at |-> "settle"])
        /\ UNCHANGED <<seats, round, obs, admitted, segs, overtaken>>

(* Mutant: only agreement is settled.                                      *)
WantedAgreement == IF CaptureConsented THEN "CONSENTED" ELSE ""

(* What the rows make of an observation that still waits for them.         *)
Wanted ==
    IF BlockingDecline THEN "DECLINED" ELSE IF CaptureConsented THEN "CONSENTED" ELSE ""

(* settleStatus reads everything afresh, then writes.                      *)
SettleReads(r) ==
    /\ At(r, "settle")
    /\ IF obs.status = "AWAITING_CONSENT" /\ Wanted # ""
       THEN Goto(r, [at |-> "settling", want |-> Wanted])
       ELSE End(r)
    /\ UNCHANGED <<seats, round, obs, said, admitted, segs, history>>

SettleWrites(r) ==
    /\ At(r, "settling")
    /\ obs' = IF obs.status = "AWAITING_CONSENT" THEN [obs EXCEPT !.status = req[r].want] ELSE obs
    /\ End(r)
    /\ UNCHANGED <<seats, round, said, admitted, segs, history>>

----
(* Entering the room, and closing it                                       *)

Joins(r, p) ==
    /\ At(r, "idle") /\ p \in Staff /\ MayEnterRoom(p)
    /\ Goto(r, [at |-> "join", who |-> p])
    /\ UNCHANGED <<seats, round, obs, said, admitted, segs, history>>

Admits(r) ==
    /\ At(r, "join")
    /\ admitted' = IF said[req[r].who] = "consented" THEN admitted \cup {req[r].who} ELSE admitted
    /\ Goto(r, [at |-> "entering"])
    /\ UNCHANGED <<seats, round, obs, said, segs, history>>

Starts(r) ==
    /\ At(r, "entering")
    /\ obs' = IF obs.status = "CONSENTED" /\ round = "SCHEDULED"
              THEN [obs EXCEPT !.status = "LISTENING"] ELSE obs
    /\ End(r)
    /\ UNCHANGED <<seats, round, said, admitted, segs, history>>

(* Somebody withdraws part-way.                                            *)
Stops(p) ==
    /\ Comes(p) /\ Free(STOPPABLE)
    /\ Ensured.status \in STOPPABLE
    /\ obs' = Closed(Ensured)
    /\ said' = IF obs.status = "MISSING" THEN Asked(seats) ELSE said
    /\ UNCHANGED <<seats, round, admitted, segs, req, history>>

----
(* Capture                                                                 *)

(* assertCapturing passes; the chunk is now transcribed.                   *)
Captures(r, p) ==
    /\ At(r, "idle") /\ p \in Staff \cap admitted /\ said[p] = "consented"
    /\ CaptureConsented /\ obs.status = "LISTENING" /\ round = "SCHEDULED"
    /\ Len(segs) + Cardinality({q \in Requests : At(q, "chunk") \/ At(q, "storing")}) < MaxSegments
    /\ Goto(r, [at |-> "chunk", who |-> p])
    /\ UNCHANGED <<seats, round, obs, said, admitted, segs, history>>

Outstanding == {p \in People : Party(p) \in REQUIRED_PARTIES /\ said[p] \in {"pending", "declined"}}

(* Mutant: the people are asked, the observation's status is not.          *)
MayStoreByRows(p) == round = "SCHEDULED" /\ said[p] = "consented" /\ Outstanding = {}

MayStore(p) ==
    /\ obs.status = "LISTENING" /\ round = "SCHEDULED"
    /\ said[p] = "consented" /\ Outstanding = {}

(* appendSegment takes the observation row and asks everyone's rows again. *)
Checks(r) ==
    /\ At(r, "chunk") /\ Free({"LISTENING"})
    /\ IF MayStore(req[r].who) THEN Goto(r, [at |-> "storing"]) ELSE End(r)
    /\ UNCHANGED <<seats, round, obs, said, admitted, segs, history>>

(* The segment takes the next index and the transaction commits.           *)
Stores(r) ==
    /\ At(r, "storing")
    /\ \E kind \in {"SPEECH", "GAP"} : segs' = Append(segs, kind)
    /\ End(r)
    /\ during' = {}
    /\ UNCHANGED <<seats, round, obs, said, admitted, unseen, overtaken>>

----
(* The end of the round, and its quotes                                    *)

Spoken == \E i \in DOMAIN segs : segs[i] = "SPEECH"

(* Mutant: a withdrawn recording may be quoted from.                       *)
MayExtractWithdrawn(o) == ~o.oneSided /\ Spoken

MayExtract(o) == ~o.oneSided /\ ~o.stopped /\ Spoken

(* The interviewer closes the round with its record.                       *)
Completes(r) ==
    /\ At(r, "idle") /\ round = "SCHEDULED"
    /\ round' = "COMPLETED"
    /\ IF obs.status = "MISSING" THEN UNCHANGED req ELSE Goto(r, [at |-> "ending"])
    /\ UNCHANGED <<seats, obs, said, admitted, segs, history>>

(* endObservation reads the observation and its segments, and settles      *)
(* whether they were one-sided ...                                         *)
EndReads(r) ==
    /\ At(r, "ending") \/ (At(r, "idle") /\ obs.status # "MISSING")
    /\ \E oneSided \in IF Spoken THEN BOOLEAN ELSE {FALSE} :
           LET ended == obs.status = "ENDED"
               read == IF ended THEN obs ELSE [obs EXCEPT !.oneSided = oneSided]
           IN  Goto(r, [at |-> "end", ended |-> ended, oneSided |-> read.oneSided,
                        may |-> obs.status \notin {"STOPPED", "DECLINED"} /\ MayExtract(read)])
    /\ UNCHANGED <<seats, round, obs, said, admitted, segs, history>>

Extracting == [at |-> "asking", quoted |-> Len(segs)]

(* ... and then writes.                                                    *)
EndWrites(r) ==
    /\ At(r, "end") /\ Free(ENDABLE)
    /\ IF obs.status \in ENDABLE
       THEN /\ obs' = [obs EXCEPT !.status = "ENDED", !.oneSided = req[r].oneSided,
                                  !.quotes = IF req[r].oneSided THEN "NONE" ELSE @]
            /\ overtaken' = (overtaken \/ (req[r].may /\ obs.stopped))
            /\ unseen' = {}
            /\ IF req[r].may THEN Goto(r, Extracting) ELSE End(r)
       ELSE /\ IF req[r].ended /\ req[r].may THEN Goto(r, Extracting) ELSE End(r)
            /\ UNCHANGED <<obs, unseen, overtaken>>
    /\ UNCHANGED <<seats, round, said, admitted, segs, during>>

(* The quotes are tried again after an outage.                             *)
Retries(r) ==
    /\ At(r, "idle") /\ Expired(obs).status = "ENDED" /\ Expired(obs).quotes = "UNAVAILABLE"
    /\ obs' = Expired(obs)
    /\ IF MayExtract(obs) THEN Goto(r, Extracting) ELSE UNCHANGED req
    /\ UNCHANGED <<seats, round, said, admitted, segs, history>>

(* The model answers, or cannot be reached.                                *)
Extracts(r) ==
    /\ At(r, "asking")
    /\ \E o \in {"READY", "UNAVAILABLE"} :
           obs' = IF obs.status = "ENDED" /\ obs.quotes \in {"PENDING", "UNAVAILABLE"}
                  THEN [obs EXCEPT !.quotes = o, !.quoted = IF o = "READY" THEN req[r].quoted ELSE @]
                  ELSE obs
    /\ End(r)
    /\ UNCHANGED <<seats, round, said, admitted, segs, history>>

(* QUOTES_STALE_MS passes after the end, with the quotes still pending.    *)
Ages ==
    /\ obs.status = "ENDED" /\ obs.quotes = "PENDING" /\ ~obs.old
    /\ obs' = [obs EXCEPT !.old = TRUE]
    /\ UNCHANGED <<seats, round, said, admitted, segs, req, history>>

(* The process restarts: a transaction is rolled back, an extraction lost. *)
Restarts(r) ==
    /\ At(r, "storing") \/ At(r, "asking")
    /\ End(r)
    /\ during' = IF At(r, "storing") THEN {} ELSE during
    /\ UNCHANGED <<seats, round, obs, said, admitted, segs, unseen, overtaken>>

----
Consent(r) ==
    \/ \E p \in People : Consents(r, p) \/ Declines(r, p)
    \/ SaysNo(r) \/ SettleReads(r) \/ SettleWrites(r)

Room(r) ==
    \/ \E p \in Staff : Joins(r, p) \/ Captures(r, p)
    \/ Admits(r) \/ Starts(r) \/ Checks(r) \/ Stores(r)

Closing(r) ==
    Completes(r) \/ EndReads(r) \/ EndWrites(r) \/ Retries(r) \/ Extracts(r) \/ Restarts(r)

Polls == \E p \in Staff : Opens(p)

Next ==
    \/ \E r \in Requests : Consent(r) \/ Room(r) \/ Closing(r)
    \/ Polls
    \/ \E p \in People : Stops(p)
    \/ Ages

Spec == Init /\ [][Next]_vars

(* The page of a round whose quotes are pending polls, and time passes.    *)
FairSpec == Spec /\ WF_vars(Polls) /\ WF_vars(Ages)

----
Bounded(q) ==
    \/ q \in [at : {"idle", "settle", "entering", "storing", "ending"}]
    \/ q \in [at : {"join", "chunk"}, who : People]
    \/ q \in [at : {"declining"}, who : People, open : BOOLEAN]
    \/ q \in [at : {"settling"}, want : {"DECLINED", "CONSENTED"}]
    \/ q \in [at : {"end"}, ended : BOOLEAN, oneSided : BOOLEAN, may : BOOLEAN]
    \/ q \in [at : {"asking"}, quoted : 1 .. MaxSegments]

(* Type invariant.  The candidate has a row as soon as there is an         *)
(* observation, only people who were asked are admitted, and nobody is     *)
(* one-sided or quoted before the end.                                     *)
TypeOK ==
    /\ seats \in Panels /\ round \in {"SCHEDULED", "COMPLETED"}
    /\ obs \in [status : Statuses, stopped : BOOLEAN, oneSided : BOOLEAN,
                quotes : {"PENDING", "READY", "NONE", "UNAVAILABLE"},
                quoted : 0 .. MaxSegments, old : BOOLEAN]
    /\ obs.status # "ENDED" => obs.quotes = "PENDING" /\ ~obs.oneSided
    /\ said \in [People -> {"absent", "pending", "consented", "declined"}]
    /\ (said[Candidate] = "absent") <=> (obs.status = "MISSING")
    /\ admitted \in SUBSET Staff /\ \A p \in admitted : said[p] # "absent"
    /\ segs \in Seq({"SPEECH", "GAP"}) /\ Len(segs) <= MaxSegments
    /\ \A r \in Requests : Bounded(req[r])
    /\ unseen \in SUBSET People /\ during \in SUBSET People /\ overtaken \in BOOLEAN

(* While the room listens, the candidate and everyone conducting the round *)
(* have agreed on record, each of them, but for the person whose "no" was  *)
(* sent before the room was open and recorded after: declineEntry closes   *)
(* the room before it writes the "no", and nothing closes it afterwards.   *)
(* If that "no" left a round without seats with nobody let in, those who   *)
(* merely opened its page count as conducting it, and are still pending.   *)
ListeningMeansAgreed ==
    obs.status = "LISTENING" =>
        \A p \in RequiredOf :
            \/ said[p] = "consented"
            \/ said[p] = "declined" /\ p \in unseen
            \/ said[p] = "pending" /\ seats = {} /\ admitted = {} /\ unseen # {}

(* "There is no ordering of requests in which LISTENING is reached without *)
(* every required party's affirmative row" (enterRoom): every step that    *)
(* opens the room finds them all agreed.                                   *)
ListeningReachedOnYes ==
    [][obs.status # "LISTENING" /\ obs'.status = "LISTENING" => CaptureConsented]_vars

(* Once nobody is between answering and settling, the status says what the *)
(* rows say: the room does not keep waiting for people who have all        *)
(* answered, however their answers crossed.  The exception is a round with *)
(* no seats: letting the first person in releases the others who merely    *)
(* opened the page, and nobody settles that.                               *)
StatusKeepsStep ==
    (\A r \in Requests : req[r].at \notin {"declining", "settle", "settling"}) =>
        (obs.status = "AWAITING_CONSENT" =>
            ~BlockingDecline /\ (CaptureConsented => seats = {} /\ admitted # {}))

(* READY quotes were taken from the whole record: nothing is captured      *)
(* after the transcript the model was shown was read.                      *)
QuotesOfWholeRecord == obs.quotes = "READY" => obs.quoted = Len(segs)

(* No quotes are taken from a withdrawn or a one-sided recording, however  *)
(* often the end is pressed and the quotes are retried, unless the         *)
(* withdrawal fell between the read and the write of the end itself.       *)
NoQuotesOfWithdrawn == obs.quotes = "READY" => ~obs.oneSided /\ (obs.stopped => overtaken)

(* Nothing is stored under a "no" that has been recorded, of anyone the    *)
(* recording needs, whatever the capture had checked before; but a "no"    *)
(* that had found no room to close and lands inside the capture's own      *)
(* transaction does not stop that one segment.                             *)
NothingUnderANo ==
    [][segs' # segs => \A p \in RequiredOf : said[p] = "declined" => p \in during]_vars

(* A room that was stopped, declined or ended captures nothing more and    *)
(* never opens again, and READY quotes are never rewritten.                *)
ClosedForGood ==
    [][/\ segs' # segs => obs.status = "LISTENING" /\ Len(segs') = Len(segs) + 1
       /\ obs.status \in {"ENDED", "DECLINED"} => obs'.status = obs.status
       /\ obs.status = "STOPPED" => obs'.status \in {"STOPPED", "ENDED"}
       /\ obs.quotes = "READY" => obs'.quotes = "READY" /\ obs'.quoted = obs.quoted]_vars

(* An ended round does not stay PENDING: an extraction that was cut off, or *)
(* one that was never allowed, is told from one under way.                 *)
EndedSettles == (obs.status = "ENDED" /\ obs.quotes = "PENDING") ~> (obs.quotes # "PENDING")
====
