---- MODULE ObservedRoundProofs ----
(***************************************************************************)
(* What holds of ObservedRound for every panel, every number of colleagues *)
(* and of requests in flight, and every length of the record.              *)
(***************************************************************************)
EXTENDS ObservedRound, FiniteSetTheorems, TLAPS

(* The type of each variable.                                              *)
Observations == [status : Statuses, stopped : BOOLEAN, oneSided : BOOLEAN,
                 quotes : {"PENDING", "READY", "NONE", "UNAVAILABLE"},
                 quoted : 0 .. MaxSegments, old : BOOLEAN]
Answers == {"absent", "pending", "consented", "declined"}

----
(* The inductive invariant: TypeOK and, beyond it,                         *)

Answered(p) == said[p] \in {"consented", "declined"}
AskedForHaveAnswered == \A p \in seats \cup {Candidate} : Answered(p)
AColleagueDeclined == \E p \in Staff : said[p] = "declined"
Over == obs.status \in {"STOPPED", "ENDED"}

(* nobody has been asked before there is an observation, and whoever was   *)
(* let in had agreed;                                                      *)
RowsOK ==
    /\ obs.status = "MISSING" => \A p \in People : said[p] = "absent"
    /\ \A p \in admitted : Answered(p)

(* a room that is open or being opened under the "no" of somebody it needs *)
(* was opened after that "no" had looked for it, and a capture stores      *)
(* under one only if it was recorded inside the capture's transaction;     *)
No(p) == p \in RequiredOf /\ said[p] = "declined"
NosOK ==
    /\ obs.status \in OPEN \/ Opening => \A p \in People : No(p) => p \in unseen
    /\ Locked => \A p \in People : No(p) => p \in during

(* one capture at a time holds the observation;                            *)
OneLock == \A r, s \in Requests : At(r, "storing") /\ At(s, "storing") => r = s

(* an agreed room has the answer of everyone it was booked with, and one   *)
(* that listens has let somebody in, unless they took their consent back   *)
(* on the threshold;                                                       *)
OpenOK ==
    /\ obs.status \in {"CONSENTED", "LISTENING"} => AskedForHaveAnswered
    /\ obs.status = "LISTENING" /\ admitted = {} => AColleagueDeclined

(* what a request found out is still so, or was noted when it changed;     *)
MayStill == ~obs.oneSided /\ ~obs.stopped /\ Len(segs) > 0

RequestOK(r) ==
    /\ At(r, "declining") =>
          obs.status # "MISSING" /\ said[req[r].who] # "absent" /\ (req[r].open => Over)
    /\ At(r, "settling") /\ req[r].want = "CONSENTED" => AskedForHaveAnswered
    /\ At(r, "join") => req[r].who \in Staff /\ Answered(req[r].who)
    /\ At(r, "entering") /\ admitted = {} => AColleagueDeclined
    /\ At(r, "storing") => obs.status = "LISTENING"
    /\ At(r, "end") =>
          /\ req[r].may => ~req[r].oneSided /\ Len(segs) > 0
          /\ req[r].ended => obs.status = "ENDED" /\ (req[r].may => MayStill)
    /\ At(r, "asking") =>
          /\ obs.status = "ENDED" /\ req[r].quoted = Len(segs) /\ Len(segs) > 0
          /\ ~obs.oneSided /\ (obs.stopped => overtaken)

(* every capture under way has room for its segment;                       *)
Capturing == {q \in Requests : At(q, "chunk") \/ At(q, "storing")}
CapturesFit == Len(segs) + Cardinality(Capturing) <= MaxSegments

(* and there is one request to a slot.                                     *)
SlotsOK == req = [r \in Requests |-> req[r]]

IInv ==
    /\ TypeOK /\ SlotsOK /\ RowsOK /\ NosOK /\ OneLock /\ OpenOK /\ CapturesFit
    /\ \A r \in Requests : RequestOK(r)
    /\ QuotesOfWholeRecord /\ NoQuotesOfWithdrawn /\ StatusKeepsStep

----
(* The helpers of the model.                                               *)

LEMMA PeopleAre ==
  /\ Candidate \in People /\ Staff \subseteq People /\ Candidate \notin Staff
  /\ \A s \in Panels : s \subseteq Staff
BY PeopleAssumption DEF People

LEMMA EnsuredIs ==
  ASSUME TypeOK
  PROVE  /\ Ensured \in Observations /\ Ensured.status # "MISSING"
         /\ obs.status # "MISSING" => Ensured = obs
         /\ obs.status = "MISSING" =>
              /\ Ensured.status = "AWAITING_CONSENT" /\ Ensured.quotes = "PENDING"
              /\ ~Ensured.oneSided /\ ~Ensured.stopped
<1>1. Missing \in Observations
  BY SegmentsAssumption DEF Missing, Observations, Statuses
<1>2. /\ Booked \in Observations /\ Booked.status = "AWAITING_CONSENT" /\ Booked.quotes = "PENDING"
      /\ ~Booked.oneSided /\ ~Booked.stopped
  <2>1. \A o \in Observations : [o EXCEPT !.status = "AWAITING_CONSENT"] \in Observations
    BY DEF Observations, Statuses
  <2> QED BY <1>1, <2>1 DEF Booked, Missing
<1>3. obs \in Observations
  BY DEF TypeOK, Observations
<1> QED BY <1>2, <1>3 DEF Ensured

LEMMA ExpiredIs ==
  ASSUME TypeOK, NEW o \in Observations
  PROVE  /\ Expired(o) \in Observations
         /\ Expired(o).status = o.status /\ Expired(o).oneSided = o.oneSided
         /\ (Expired(o).stopped <=> o.stopped) /\ Expired(o).quoted = o.quoted
         /\ Expired(o) = o \/ (o.status = "ENDED" /\ o.quotes = "PENDING" /\ Expired(o).quotes = "UNAVAILABLE")
BY DEF Expired, Observations

LEMMA ClosedIs ==
  ASSUME NEW o \in Observations
  PROVE  /\ Closed(o) \in Observations /\ Closed(o).status = "STOPPED"
         /\ Closed(o).quotes = o.quotes /\ (Closed(o).oneSided <=> o.oneSided)
BY DEF Closed, Observations, Statuses

(* Opening the page, or answering, adds rows and changes none.             *)
LEMMA KnownIs ==
  ASSUME TypeOK, RowsOK, NEW p \in People
  PROVE  /\ Known(p) \in [People -> Answers]
         /\ \A x \in People :
              Known(p)[x] = IF said[x] # "absent" THEN said[x]
                            ELSE IF x = p \/ (obs.status = "MISSING" /\ x \in seats \cup {Candidate})
                            THEN "pending" ELSE "absent"
<1>1. said \in [People -> Answers]
  BY DEF TypeOK, Answers
<1>2. CASE obs.status = "MISSING"
  <2>1. Asked(seats) \in [People -> Answers]
    BY DEF Asked, Answers
  <2>2. \A x \in People : said[x] = "absent"
    BY <1>2 DEF RowsOK
  <2> QED BY <1>1, <1>2, <2>1, <2>2 DEF Known, Asked, Answers
<1>3. CASE obs.status # "MISSING"
  BY <1>1, <1>3 DEF Known, Answers
<1> QED BY <1>2, <1>3

LEMMA Went ==
  ASSUME SlotsOK, NEW r \in Requests, NEW q, Goto(r, q)
  PROVE  req'[r] = q /\ SlotsOK' /\ \A s \in Requests \ {r} : req'[s] = req[s]
BY DEF SlotsOK, Goto

LEMMA Ended ==
  ASSUME SlotsOK, NEW r \in Requests, End(r)
  PROVE  req'[r] = Idle /\ SlotsOK' /\ \A s \in Requests \ {r} : req'[s] = req[s]
BY DEF SlotsOK, End

----
(* What every step does to the tables.                                     *)

(* The observation: what is decided of it stays decided.                   *)
ObsGoes ==
    /\ obs' \in Observations
    /\ obs'.status # "ENDED" => obs'.quotes = "PENDING" /\ ~obs'.oneSided
    /\ obs.status # "MISSING" => obs'.status # "MISSING"
    /\ obs.status \in {"ENDED", "DECLINED"} => obs'.status = obs.status
    /\ obs.status = "STOPPED" => obs'.status \in {"STOPPED", "ENDED"}
    /\ obs.status = "ENDED" =>
         (obs'.oneSided <=> obs.oneSided) /\ (obs'.stopped <=> obs.stopped)
    /\ obs.quotes = "READY" => obs'.quotes = "READY" /\ obs'.quoted = obs.quoted
    /\ obs.status = "LISTENING" /\ Locked => obs'.status = "LISTENING"
    /\ obs'.status \in OPEN => obs.status \in OPEN \/ Opening
    /\ obs'.status = "AWAITING_CONSENT" => obs.status \in {"MISSING", "AWAITING_CONSENT"}
    /\ obs'.status = "LISTENING" =>
         obs.status = "LISTENING" \/ (admitted = {} => AColleagueDeclined)

(* The rows: an answer is not taken back, a "no" stays a "no".             *)
RowsGo ==
    /\ said' \in [People -> Answers]
    /\ \A p \in People :
         /\ said[p] # "absent" => said'[p] # "absent"
         /\ said[p] = "declined" => said'[p] = "declined"
         /\ Answered(p) => said'[p] \in {"consented", "declined"}
    /\ said'[Candidate] = "absent" <=> obs'.status = "MISSING"
    /\ obs'.status = "MISSING" => said' = said

(* Who was let in stays, and had agreed.                                   *)
RoomGoes ==
    /\ admitted \subseteq admitted' /\ admitted' \subseteq Staff
    /\ \A p \in admitted' \ admitted : said[p] = "consented"

(* The record only grows, and only while the room listens.                 *)
RecordGoes ==
    segs' = segs \/
      /\ obs.status = "LISTENING" /\ Len(segs) < MaxSegments
      /\ \E kind \in {"SPEECH", "GAP"} : segs' = Append(segs, kind)

HistoryGoes ==
    /\ unseen' \in SUBSET People /\ during' \in SUBSET People
    /\ unseen \subseteq unseen' \/ obs'.status = "ENDED"
    /\ overtaken' \in BOOLEAN /\ (overtaken => overtaken')

Goes ==
    /\ seats' = seats /\ round' \in {"SCHEDULED", "COMPLETED"}
    /\ ObsGoes /\ RowsGo /\ RoomGoes /\ RecordGoes /\ HistoryGoes

LEMMA ObsSame ==
  ASSUME TypeOK, UNCHANGED obs
  PROVE  ObsGoes
BY DEF TypeOK, ObsGoes, Observations

LEMMA RowsSame ==
  ASSUME TypeOK, UNCHANGED said, obs'.status = "MISSING" <=> obs.status = "MISSING"
  PROVE  RowsGo
BY PeopleAre DEF TypeOK, RowsGo, Answers, Answered

LEMMA RoomSame ==
  ASSUME TypeOK, UNCHANGED admitted
  PROVE  RoomGoes
BY DEF TypeOK, RoomGoes

LEMMA HistorySame ==
  ASSUME TypeOK, UNCHANGED history
  PROVE  HistoryGoes
BY DEF TypeOK, HistoryGoes, history

LEMMA EnsuredGoes ==
  ASSUME TypeOK, obs' = Ensured
  PROVE  ObsGoes
<1>1. obs \in Observations
  BY DEF TypeOK, Observations
<1>2. obs.status # "ENDED" => obs.quotes = "PENDING" /\ ~obs.oneSided
  BY DEF TypeOK
<1> QED BY <1>1, <1>2, EnsuredIs DEF ObsGoes, OPEN

(* TypeOK apart from the requests.                                         *)
TablesOK ==
    /\ seats \in Panels /\ round \in {"SCHEDULED", "COMPLETED"}
    /\ obs \in Observations
    /\ obs.status # "ENDED" => obs.quotes = "PENDING" /\ ~obs.oneSided
    /\ said \in [People -> Answers]
    /\ (said[Candidate] = "absent") <=> (obs.status = "MISSING")
    /\ admitted \in SUBSET Staff /\ \A p \in admitted : said[p] # "absent"
    /\ segs \in Seq({"SPEECH", "GAP"}) /\ Len(segs) <= MaxSegments
    /\ unseen \in SUBSET People /\ during \in SUBSET People /\ overtaken \in BOOLEAN

LEMMA TypeIs ==
  /\ TypeOK <=> TablesOK /\ \A r \in Requests : Bounded(req[r])
  /\ TypeOK' <=> TablesOK' /\ \A r \in Requests : Bounded(req[r])'
BY DEF TypeOK, TablesOK, Observations, Answers

LEMMA RecordIs ==
  ASSUME TypeOK, RecordGoes
  PROVE  /\ segs' \in Seq({"SPEECH", "GAP"}) /\ Len(segs') <= MaxSegments
         /\ Len(segs') >= Len(segs) /\ Len(segs) \in Nat /\ Len(segs') \in Nat
         /\ segs' # segs => obs.status = "LISTENING" /\ Len(segs') = Len(segs) + 1
<1>1. segs \in Seq({"SPEECH", "GAP"}) /\ Len(segs) <= MaxSegments
  BY DEF TypeOK
<1>2. Len(segs) \in Nat
  BY <1>1
<1>3. CASE segs' = segs
  BY <1>1, <1>2, <1>3
<1>4. ASSUME NEW kind \in {"SPEECH", "GAP"}, segs' = Append(segs, kind),
             obs.status = "LISTENING", Len(segs) < MaxSegments
      PROVE  /\ segs' \in Seq({"SPEECH", "GAP"}) /\ Len(segs') <= MaxSegments
             /\ Len(segs') = Len(segs) + 1
  BY <1>1, <1>2, <1>4, SegmentsAssumption
<1> QED BY <1>2, <1>3, <1>4 DEF RecordGoes

LEMMA TablesStay ==
  ASSUME TypeOK, Goes
  PROVE  TablesOK'
<1>1. TablesOK
  BY TypeIs
<1>2. seats' \in Panels /\ round' \in {"SCHEDULED", "COMPLETED"}
  BY <1>1 DEF TablesOK, Goes
<1>3. obs' \in Observations /\ (obs'.status # "ENDED" => obs'.quotes = "PENDING" /\ ~obs'.oneSided)
  BY DEF Goes, ObsGoes
<1>4. said' \in [People -> Answers] /\ (said'[Candidate] = "absent" <=> obs'.status = "MISSING")
  BY DEF Goes, RowsGo
<1>5. admitted' \in SUBSET Staff /\ \A p \in admitted' : said'[p] # "absent"
  BY <1>1, PeopleAre DEF TablesOK, Goes, RowsGo, RoomGoes, Answered
<1>6. segs' \in Seq({"SPEECH", "GAP"}) /\ Len(segs') <= MaxSegments
  BY RecordIs DEF Goes
<1>7. unseen' \in SUBSET People /\ during' \in SUBSET People /\ overtaken' \in BOOLEAN
  BY DEF Goes, HistoryGoes
<1> QED BY <1>2, <1>3, <1>4, <1>5, <1>6, <1>7 DEF TablesOK

LEMMA OverStays ==
  ASSUME Goes
  PROVE  Over => Over'
BY DEF Goes, ObsGoes, Over

LEMMA AnswersStay ==
  ASSUME TypeOK, Goes
  PROVE  /\ AskedForHaveAnswered => AskedForHaveAnswered'
         /\ AColleagueDeclined => AColleagueDeclined'
         /\ \A p \in People : Answered(p) => Answered(p)'
<1>1. \A p \in People : Answered(p) => Answered(p)'
  BY DEF Goes, RowsGo, Answered
<1>3. seats \subseteq Staff
  BY PeopleAre DEF TypeOK
<1>4. AskedForHaveAnswered => AskedForHaveAnswered'
  BY <1>1, <1>3, PeopleAre DEF AskedForHaveAnswered, Goes
<1>5. AColleagueDeclined => AColleagueDeclined'
  BY PeopleAre DEF AColleagueDeclined, Goes, RowsGo
<1> QED BY <1>1, <1>4, <1>5

(* Whoever is about to open the room read everyone's answer.               *)
LEMMA OpeningIsAnswered ==
  ASSUME IInv, Opening
  PROVE  AskedForHaveAnswered
BY DEF IInv, Opening, RequestOK

LEMMA TableInvariantsStay ==
  ASSUME IInv, Goes
  PROVE  RowsOK' /\ OpenOK'
<1>0. TypeOK /\ RowsOK /\ OpenOK
  BY DEF IInv
<1>1. RowsOK'
  <2>1. obs'.status = "MISSING" => \A p \in People : said'[p] = "absent"
    BY <1>0 DEF RowsOK, Goes, RowsGo, ObsGoes
  <2>2. \A p \in admitted' : Answered(p)'
    <3>1. \A p \in admitted' : p \in People /\ Answered(p)
      BY <1>0, PeopleAre DEF Goes, RoomGoes, RowsOK, Answered
    <3> QED BY <1>0, <3>1, AnswersStay
  <2> QED BY <2>1, <2>2 DEF RowsOK
<1>3. OpenOK'
  <2>1. obs'.status \in {"CONSENTED", "LISTENING"} => AskedForHaveAnswered'
    BY <1>0, AnswersStay, OpeningIsAnswered DEF OpenOK, Goes, ObsGoes, OPEN
  <2>2. obs'.status = "LISTENING" /\ admitted' = {} => AColleagueDeclined'
    BY <1>0, AnswersStay DEF OpenOK, Goes, ObsGoes, RoomGoes
  <2> QED BY <2>1, <2>2 DEF OpenOK
<1> QED BY <1>1, <1>3

----
(* Requests a step does not touch, and the places of requests.             *)

LEMMA RequestStays ==
  ASSUME IInv, Goes, NEW s \in Requests, req'[s] = req[s]
  PROVE  RequestOK(s)'
<1> USE DEF IInv
<1>1. RequestOK(s)
  OBVIOUS
<1>2. Len(segs) \in Nat /\ Len(segs') \in Nat /\ Len(segs') >= Len(segs)
  BY RecordIs DEF Goes
<1>3. obs.status = "ENDED" =>
        /\ obs'.status = "ENDED" /\ segs' = segs
        /\ (obs'.oneSided <=> obs.oneSided) /\ (obs'.stopped <=> obs.stopped)
  BY RecordIs DEF Goes, ObsGoes
<1>4. At(s, "declining") =>
        (obs.status # "MISSING" /\ said[req[s].who] # "absent" /\ (req[s].open => Over))'
  <2>1. At(s, "declining") => req[s].who \in People
    BY DEF TypeOK, Bounded, At
  <2>2. At(s, "declining") =>
          obs.status # "MISSING" /\ said[req[s].who] # "absent" /\ (req[s].open => Over)
    BY <1>1 DEF RequestOK
  <2> QED BY <2>1, <2>2, OverStays DEF Goes, ObsGoes, RowsGo
<1>5. At(s, "settling") /\ req[s].want = "CONSENTED" => AskedForHaveAnswered'
  BY <1>1, AnswersStay DEF RequestOK
<1>6. At(s, "join") => req[s].who \in Staff /\ Answered(req[s].who)'
  BY <1>1, AnswersStay, PeopleAre DEF RequestOK
<1>7. At(s, "entering") /\ admitted' = {} => AColleagueDeclined'
  BY <1>1, AnswersStay DEF RequestOK, Goes, RoomGoes
<1>8. At(s, "storing") => obs'.status = "LISTENING"
  BY <1>1 DEF RequestOK, Goes, ObsGoes, Locked
<1>9. At(s, "end") =>
        /\ req[s].may => ~req[s].oneSided /\ Len(segs') > 0
        /\ req[s].ended => obs'.status = "ENDED" /\ (req[s].may => MayStill')
  BY <1>1, <1>2, <1>3 DEF RequestOK, MayStill
<1>10. At(s, "asking") =>
          /\ obs'.status = "ENDED" /\ req[s].quoted = Len(segs') /\ Len(segs') > 0
          /\ ~obs'.oneSided /\ (obs'.stopped => overtaken')
  BY <1>1, <1>2, <1>3 DEF RequestOK, Goes, HistoryGoes
<1> HIDE DEF IInv
<1> QED BY <1>4, <1>5, <1>6, <1>7, <1>8, <1>9, <1>10 DEF RequestOK, At

LEMMA OthersStay ==
  ASSUME IInv, Goes, NEW r \in Requests, \A s \in Requests \ {r} : req'[s] = req[s],
         Bounded(req'[r]), RequestOK(r)'
  PROVE  (\A s \in Requests : RequestOK(s)') /\ (\A s \in Requests : Bounded(req'[s]))
<1>1. \A s \in Requests \ {r} : RequestOK(s)'
  BY RequestStays
<1>2. \A s \in Requests \ {r} : Bounded(req'[s])
  <2>1. \A s \in Requests : Bounded(req[s])
    BY DEF IInv, TypeOK
  <2> QED BY <2>1
<1> QED BY <1>1, <1>2

(* Idle asks for nothing.                                                  *)
LEMMA IdleIsFine ==
  ASSUME NEW r \in Requests, req'[r] = Idle
  PROVE  Bounded(req'[r]) /\ RequestOK(r)'
BY DEF Idle, Bounded, RequestOK, At

(* Captures under way: one may begin where there is room, and storing one  *)
(* turns it into a segment.                                                *)
LEMMA CapturesAre ==
  IsFiniteSet(Capturing) /\ IsFiniteSet(Capturing') 
    /\ Cardinality(Capturing) \in Nat /\ Cardinality(Capturing') \in Nat
<1>1. Capturing \subseteq Requests /\ Capturing' \subseteq Requests
  BY DEF Capturing
<1> QED BY <1>1, RequestsAssumption, FS_Subset, FS_CardinalityType

CaptureAt(q) == q.at \in {"chunk", "storing"}

LEMMA NoMoreCaptures ==
  ASSUME TypeOK, CapturesFit, UNCHANGED segs, NEW r \in Requests,
         \A s \in Requests \ {r} : req'[s] = req[s],
         CaptureAt(req'[r]) => CaptureAt(req[r])
  PROVE  CapturesFit'
<1>1. Capturing' \subseteq Capturing
  BY DEF Capturing, At, CaptureAt
<1>2. Cardinality(Capturing') <= Cardinality(Capturing)
  BY <1>1, CapturesAre, FS_Subset
<1> QED BY <1>2, CapturesAre, SegmentsAssumption DEF CapturesFit, TypeOK

LEMMA OneMoreCapture ==
  ASSUME TypeOK, UNCHANGED segs, NEW r \in Requests,
         \A s \in Requests \ {r} : req'[s] = req[s],
         Len(segs) + Cardinality(Capturing) < MaxSegments
  PROVE  CapturesFit'
<1>1. Capturing' \subseteq Capturing \cup {r}
  BY DEF Capturing, At
<1>2. /\ IsFiniteSet(Capturing \cup {r})
      /\ Cardinality(Capturing \cup {r}) <= Cardinality(Capturing) + 1
  <2>1. IsFiniteSet(Capturing) /\ Cardinality(Capturing) \in Nat
    BY CapturesAre
  <2>2. /\ IsFiniteSet(Capturing \cup {r})
        /\ Cardinality(Capturing \cup {r}) \in {Cardinality(Capturing), Cardinality(Capturing) + 1}
    BY <2>1, FS_AddElement, Zenon
  <2> QED BY <2>1, <2>2
<1>3. Cardinality(Capturing') <= Cardinality(Capturing \cup {r})
  BY <1>1, <1>2, FS_Subset
<1>4. Cardinality(Capturing \cup {r}) \in Nat /\ Len(segs) \in Nat
  BY <1>2, FS_CardinalityType DEF TypeOK
<1> QED BY <1>2, <1>3, <1>4, CapturesAre, SegmentsAssumption DEF CapturesFit

LEMMA CaptureStored ==
  ASSUME TypeOK, CapturesFit, NEW r \in Requests, CaptureAt(req[r]), ~CaptureAt(req'[r]),
         \A s \in Requests \ {r} : req'[s] = req[s], Len(segs') = Len(segs) + 1
  PROVE  CapturesFit'
<1>1. r \in Capturing /\ Capturing' = Capturing \ {r}
  BY DEF Capturing, At, CaptureAt
<1>2. Cardinality(Capturing') = Cardinality(Capturing) - 1
  BY <1>1, CapturesAre, FS_RemoveElement
<1> QED BY <1>2, CapturesAre, SegmentsAssumption DEF CapturesFit, TypeOK

----
(* Who conducts the round.                                                 *)

HasRow == {p \in Staff : said[p] # "absent"}

LEMMA ConductsAre ==
  ASSUME TypeOK
  PROVE  /\ seats # {} => Conducting = seats
         /\ seats = {} /\ admitted # {} => Conducting = admitted
         /\ seats = {} /\ admitted = {} => Conducting = HasRow
<1>1. /\ seats \subseteq Staff /\ admitted \subseteq Staff /\ Candidate \notin Staff
      /\ \A p \in admitted : said[p] # "absent"
  BY PeopleAre DEF TypeOK
<1>2. seats # {} => Interviewers \subseteq seats
  BY <1>1 DEF Interviewers, Party
<1>3. seats = {} => Interviewers = HasRow
  BY <1>1 DEF Interviewers, Party, HasRow
<1>4. seats = {} => Interviewers \cap admitted = admitted
  BY <1>1, <1>3 DEF HasRow
<1> QED BY <1>2, <1>3, <1>4 DEF Conducting

(* The same after a step.                                                  *)
LEMMA ConductsNext ==
  ASSUME TypeOK'
  PROVE  /\ seats' # {} => Conducting' = seats'
         /\ seats' = {} /\ admitted' # {} => Conducting' = admitted'
         /\ seats' = {} /\ admitted' = {} => Conducting' = HasRow'
<1>1. /\ seats' \subseteq Staff /\ admitted' \subseteq Staff /\ Candidate \notin Staff
      /\ \A p \in admitted' : said'[p] # "absent"
  BY PeopleAre DEF TypeOK
<1>2. seats' # {} => Interviewers' \subseteq seats'
  BY <1>1 DEF Interviewers, Party
<1>3. seats' = {} => Interviewers' = HasRow'
  BY <1>1 DEF Interviewers, Party, HasRow
<1>4. seats' = {} => Interviewers' \cap admitted' = admitted'
  BY <1>1, <1>3 DEF HasRow
<1> QED BY <1>2, <1>3, <1>4 DEF Conducting

LEMMA RequiredArePeople ==
  ASSUME TypeOK
  PROVE  RequiredOf \subseteq People /\ seats \subseteq RequiredOf /\ Candidate \in RequiredOf
BY ConductsAre, PeopleAre DEF RequiredOf, TypeOK, HasRow

LEMMA AgreedHaveAnswered ==
  ASSUME TypeOK, CaptureConsented
  PROVE  AskedForHaveAnswered
BY RequiredArePeople DEF CaptureConsented, AskedForHaveAnswered, Answered

(* The room is as settled as it was, if the step answers for nobody and    *)
(* lets in at most somebody who agreed: rows it adds are pending.          *)
SettledStatus ==
  obs.status = "AWAITING_CONSENT" =>
    ~BlockingDecline /\ (CaptureConsented => seats = {} /\ admitted # {})

LEMMA SettledStays ==
  ASSUME TypeOK, TypeOK', Goes, SettledStatus, obs.status = "AWAITING_CONSENT",
         \A p \in People : said'[p] # said[p] => said[p] = "absent" /\ said'[p] = "pending",
         \A p \in admitted' \ admitted : said[p] = "consented"
  PROVE  SettledStatus'
<1>1. /\ seats' = seats /\ admitted \subseteq admitted' /\ admitted' \subseteq Staff
      /\ seats \subseteq Staff /\ \A p \in admitted : said[p] # "absent"
  BY PeopleAre DEF Goes, RoomGoes, TypeOK
<1>2. \A p \in People : said'[p] = "declined" => said[p] = "declined"
  OBVIOUS
<1>3. \A p \in RequiredOf' : said'[p] = "declined" => p \in RequiredOf
  <2> SUFFICES ASSUME NEW p \in Conducting', said'[p] = "declined"
               PROVE  p \in Conducting
    BY DEF RequiredOf
  <2>1. CASE seats # {}
    BY <1>1, <2>1, ConductsAre, ConductsNext
  <2>2. CASE seats = {} /\ admitted # {}
    <3>1. p \in admitted'
      BY <1>1, <2>2, ConductsNext
    <3>2. p \in People
      BY <1>1, <3>1, PeopleAre
    <3> QED BY <1>1, <1>2, <2>2, <3>1, <3>2, ConductsAre
  <2>3. CASE seats = {} /\ admitted = {}
    <3>1. p \in Staff
      BY <1>1, <2>3, ConductsNext DEF HasRow
    <3>2. said[p] = "declined"
      BY <1>2, <3>1, PeopleAre
    <3> QED BY <2>3, <3>1, <3>2, ConductsAre DEF HasRow
  <2> QED BY <2>1, <2>2, <2>3
<1>4. ~BlockingDecline'
  <2> SUFFICES ASSUME NEW p \in RequiredOf', said'[p] = "declined" PROVE FALSE
    BY DEF BlockingDecline
  <2>1. p \in RequiredOf /\ p \in People
    BY <1>3, RequiredArePeople
  <2> QED BY <1>2, <2>1 DEF SettledStatus, BlockingDecline
<1>5. ASSUME CaptureConsented', ~(seats' = {} /\ admitted' # {})
      PROVE  FALSE
  <2>1. \A p \in People : said'[p] = "consented" => said[p] = "consented"
    OBVIOUS
  <2>2. Conducting = Conducting'
    <3>1. CASE seats # {}
      BY <1>1, <3>1, ConductsAre, ConductsNext
    <3>2. CASE seats = {}
      <4>1. admitted' = {} /\ admitted = {}
        BY <1>1, <1>5, <3>2
      <4>2. Conducting' = HasRow' /\ Conducting = HasRow
        BY <1>1, <3>2, <4>1, ConductsAre, ConductsNext
      <4>3. \A p \in HasRow' : said'[p] = "consented"
        BY <1>5, <4>2 DEF CaptureConsented, RequiredOf
      <4>4. HasRow' \subseteq HasRow
        BY <2>1, <4>3, PeopleAre DEF HasRow
      <4>5. HasRow \subseteq HasRow'
        BY PeopleAre DEF HasRow
      <4> QED BY <4>2, <4>4, <4>5
    <3> QED BY <3>1, <3>2
  <2>3. RequiredOf = RequiredOf'
    BY <2>2 DEF RequiredOf
  <2>4. CaptureConsented
    BY <1>5, <2>1, <2>2, <2>3, RequiredArePeople DEF CaptureConsented
  <2> QED BY <1>1, <1>5, <2>4 DEF SettledStatus
<1> QED BY <1>4, <1>5 DEF SettledStatus

----
(* Every action does no more to the tables than Goes allows.               *)

LEMMA ObsIs ==
  ASSUME TypeOK
  PROVE  /\ obs \in Observations
         /\ obs.status # "ENDED" => obs.quotes = "PENDING" /\ ~obs.oneSided
         /\ said \in [People -> Answers]
         /\ (said[Candidate] = "absent") <=> (obs.status = "MISSING")
BY DEF TypeOK, Observations, Answers

(* Steps that write no table.                                              *)
LEMMA NothingGoes ==
  ASSUME IInv, UNCHANGED <<seats, round, obs, said, admitted, segs, history>>
  PROVE  Goes
BY ObsSame, RowsSame, RoomSame, HistorySame DEF IInv, Goes, RecordGoes, TypeOK

(* Steps that write the observation's row only.                            *)
LEMMA ObsOnlyGoes ==
  ASSUME IInv, ObsGoes, UNCHANGED <<seats, said, admitted, segs>>, HistoryGoes,
         round' \in {"SCHEDULED", "COMPLETED"},
         obs'.status = "MISSING" <=> obs.status = "MISSING"
  PROVE  Goes
BY RowsSame, RoomSame DEF IInv, Goes, RecordGoes

LEMMA KnownGoes ==
  ASSUME IInv, NEW p \in People, said' = Known(p), obs'.status # "MISSING"
  PROVE  /\ RowsGo
         /\ \A x \in People : said'[x] # said[x] => said[x] = "absent" /\ said'[x] = "pending"
         /\ said'[p] # "absent" /\ (obs.status = "MISSING" => said'[Candidate] = "pending")
<1> USE DEF IInv
<1>1. said \in [People -> Answers] /\ Candidate \in People
  BY ObsIs, PeopleAre
<1>2. (said[Candidate] = "absent") => (obs.status = "MISSING")
  BY ObsIs
<1>4. \A x \in People : said[x] # "absent" => said'[x] = said[x]
  BY KnownIs
<1>5. \A x \in People : said[x] = "absent" => said'[x] \in {"absent", "pending"}
  BY KnownIs
<1>6. said'[p] # "absent"
  BY KnownIs
<1>7. obs.status = "MISSING" => said'[Candidate] = "pending"
  BY <1>1, KnownIs DEF RowsOK
<1>8. said' \in [People -> Answers]
  BY KnownIs
<1> HIDE DEF IInv
<1>9. RowsGo
  BY <1>1, <1>2, <1>4, <1>5, <1>7, <1>8 DEF RowsGo, Answered
<1> QED BY <1>1, <1>4, <1>5, <1>6, <1>7, <1>9

(* Stopping: rows are made only for an observation made on the spot.       *)
LEMMA ClosedGoes ==
  ASSUME IInv, obs' = Closed(Ensured), obs.status \in {"MISSING"} \cup STOPPABLE,
         Free(STOPPABLE)
  PROVE  ObsGoes /\ obs'.status # "MISSING"
<1>1. Ensured \in Observations /\ Ensured.quotes = "PENDING" /\ ~Ensured.oneSided
  BY EnsuredIs, ObsIs DEF IInv, STOPPABLE
<1>2. /\ obs' \in Observations /\ obs'.status = "STOPPED" /\ obs'.quotes = "PENDING" /\ ~obs'.oneSided
  BY <1>1, ClosedIs
<1>3. obs.quotes = "PENDING" /\ (obs.status = "LISTENING" => ~Locked)
  BY ObsIs DEF IInv, Free, STOPPABLE
<1> QED BY <1>2, <1>3 DEF ObsGoes, STOPPABLE, OPEN

LEMMA OpensGoes ==
  ASSUME IInv, NEW p \in Staff, Opens(p)
  PROVE  Goes /\ (obs'.status = obs.status \/ obs.status = "MISSING")
<1> USE DEF IInv
<1>1. obs' = Expired(Ensured) /\ Ensured \in Observations /\ Ensured.status # "MISSING"
  BY EnsuredIs DEF Opens
<1>2. /\ obs' \in Observations /\ obs'.status = Ensured.status
      /\ (obs'.oneSided <=> Ensured.oneSided) /\ (obs'.stopped <=> Ensured.stopped)
      /\ obs'.quoted = Ensured.quoted
      /\ obs' = Ensured \/ (Ensured.status = "ENDED" /\ Ensured.quotes = "PENDING")
  BY <1>1, ExpiredIs
<1>3. ObsGoes
  <2>1. CASE obs.status = "MISSING"
    BY <1>2, <2>1, EnsuredIs, ObsIs DEF ObsGoes, OPEN
  <2>2. CASE obs.status # "MISSING"
    <3>1. Ensured = obs
      BY <2>2, EnsuredIs
    <3> QED BY <1>2, <2>2, <3>1, ObsIs DEF ObsGoes
  <2> QED BY <2>1, <2>2
<1>4. RowsGo
  BY <1>1, <1>2, KnownGoes, PeopleAre DEF Opens
<1>5. RoomGoes /\ HistoryGoes /\ RecordGoes
  BY RoomSame, HistorySame DEF Opens, RecordGoes
<1>6. seats' = seats /\ round' \in {"SCHEDULED", "COMPLETED"}
  BY DEF Opens, TypeOK
<1> HIDE DEF IInv
<1>7. obs'.status = obs.status \/ obs.status = "MISSING"
  BY <1>2, EnsuredIs DEF IInv
<1> QED BY <1>3, <1>4, <1>5, <1>6, <1>7 DEF Goes

LEMMA StopsGoes ==
  ASSUME IInv, NEW p \in People, Stops(p)
  PROVE  Goes /\ obs'.status = "STOPPED"
<1>1. obs' = Closed(Ensured) /\ Free(STOPPABLE) /\ Ensured.status \in STOPPABLE
  BY DEF Stops
<1>2. obs.status \in {"MISSING"} \cup STOPPABLE
  BY <1>1, EnsuredIs DEF IInv
<1>3. ObsGoes /\ obs'.status # "MISSING"
  BY <1>1, <1>2, ClosedGoes
<1>4. obs'.status = "STOPPED"
  BY <1>1, EnsuredIs, ClosedIs DEF IInv
<1>5. RowsGo
  <2>1. CASE obs.status = "MISSING"
    <3>1. said' = Asked(seats) /\ \A p_1 \in People : said[p_1] = "absent"
      BY <2>1 DEF Stops, IInv, RowsOK
    <3>2. said' \in [People -> Answers] /\ said'[Candidate] = "pending"
          /\ \A x \in People : said'[x] \in {"absent", "pending"}
      BY <3>1, PeopleAre DEF Asked, Answers
    <3> QED BY <1>3, <3>1, <3>2 DEF RowsGo, Answered
  <2>2. CASE obs.status # "MISSING"
    BY <1>3, <2>2, RowsSame DEF Stops, IInv
  <2> QED BY <2>1, <2>2
<1>6. RoomGoes /\ HistoryGoes /\ RecordGoes
  BY RoomSame, HistorySame DEF Stops, RecordGoes, IInv
<1>7. seats' = seats /\ round' \in {"SCHEDULED", "COMPLETED"}
  BY DEF Stops, TypeOK, IInv
<1> QED BY <1>3, <1>4, <1>5, <1>6, <1>7 DEF Goes

LEMMA AgesGoes ==
  ASSUME IInv, Ages
  PROVE  Goes /\ obs'.status = "ENDED"
<1>1. obs \in Observations /\ obs.status = "ENDED" /\ obs' = [obs EXCEPT !.old = TRUE]
  BY ObsIs DEF Ages, IInv
<1>2. /\ obs' \in Observations /\ obs'.status = obs.status /\ obs'.quotes = obs.quotes
      /\ obs'.quoted = obs.quoted /\ (obs'.oneSided <=> obs.oneSided) /\ (obs'.stopped <=> obs.stopped)
  BY <1>1 DEF Observations
<1>3. ObsGoes
  BY <1>1, <1>2 DEF ObsGoes
<1>4. HistoryGoes
  BY HistorySame DEF Ages, IInv
<1> QED BY <1>1, <1>2, <1>3, <1>4, ObsOnlyGoes DEF Ages, IInv, TypeOK

LEMMA ConsentsGoes ==
  ASSUME IInv, NEW r \in Requests, NEW p \in People, Consents(r, p)
  PROVE  Goes
<1> USE DEF IInv
<1>1. obs' = Ensured /\ obs'.status # "MISSING" /\ ObsGoes
  BY EnsuredIs, EnsuredGoes DEF Consents
<1>2. said \in [People -> Answers] /\ Candidate \in People
  BY ObsIs, PeopleAre
<1>4. RowsGo
  <2>1. CASE Known(p)[p] = "pending"
    <3>1. said' = [Known(p) EXCEPT ![p] = "consented"]
      BY <2>1 DEF Consents
    <3>2. Known(p) \in [People -> Answers]
      BY KnownIs
    <3>3. \A x \in People : x # p => said'[x] = Known(p)[x]
      BY <3>1, <3>2
    <3>4. said'[p] = "consented" /\ said' \in [People -> Answers]
      BY <3>1, <3>2 DEF Answers
    <3>5. \A x \in People : said[x] # "absent" => Known(p)[x] = said[x]
      BY KnownIs
    <3>6. \A x \in People : said[x] = "absent" => Known(p)[x] \in {"absent", "pending"}
      BY KnownIs
    <3>7. obs.status = "MISSING" => Known(p)[Candidate] = "pending"
      BY <1>2, KnownIs DEF RowsOK
    <3>8. said[p] \in {"absent", "pending"}
      BY <2>1, <3>5
    <3>9. said'[Candidate] # "absent"
      BY <1>2, <3>3, <3>4, <3>5, <3>7, ObsIs
    <3> HIDE DEF IInv
    <3> QED BY <1>1, <1>2, <3>3, <3>4, <3>5, <3>6, <3>8, <3>9 DEF RowsGo, Answered
  <2>2. CASE Known(p)[p] # "pending"
    <3>1. said' = said
      BY <2>2 DEF Consents
    <3>2. obs.status # "MISSING"
      BY <2>2, KnownIs DEF RowsOK
    <3> QED BY <1>1, <3>1, <3>2, RowsSame
  <2> QED BY <2>1, <2>2
<1>5. RoomGoes /\ HistoryGoes /\ RecordGoes
  BY RoomSame, HistorySame DEF Consents, RecordGoes
<1>6. seats' = seats /\ round' \in {"SCHEDULED", "COMPLETED"}
  BY DEF Consents, TypeOK
<1> QED BY <1>1, <1>4, <1>5, <1>6 DEF Goes

LEMMA DeclinesGoes ==
  ASSUME IInv, NEW r \in Requests, NEW p \in People, Declines(r, p)
  PROVE  /\ Goes /\ obs'.status # "MISSING" /\ said'[p] # "absent"
         /\ obs.status \in OPEN => obs'.status = "STOPPED"
<1> USE DEF IInv
<1>1. Free(OPEN) /\ said' = Known(p) /\ UNCHANGED history
  BY DEF Declines
<1>2. ObsGoes /\ obs'.status # "MISSING" /\ (obs.status \in OPEN => obs'.status = "STOPPED")
  <2>1. CASE obs.status \in OPEN
    <3>1. obs' = Closed(obs)
      BY <2>1 DEF Declines
    <3>2. obs \in Observations /\ obs.quotes = "PENDING" /\ ~obs.oneSided
      BY <2>1, ObsIs DEF OPEN
    <3>3. /\ obs' \in Observations /\ obs'.status = "STOPPED" /\ obs'.quotes = "PENDING"
          /\ ~obs'.oneSided
      BY <3>1, <3>2, ClosedIs
    <3>4. obs.status = "LISTENING" => ~Locked
      BY <1>1 DEF Free, OPEN
    <3>5. ObsGoes
      BY <2>1, <3>2, <3>3, <3>4 DEF ObsGoes, OPEN
    <3> QED BY <3>3, <3>5
  <2>2. CASE obs.status \notin OPEN
    <3>1. obs' = Ensured
      BY <2>2 DEF Declines
    <3> QED BY <2>2, <3>1, EnsuredIs, EnsuredGoes
  <2> QED BY <2>1, <2>2
<1>3. RowsGo /\ said'[p] # "absent"
  BY <1>1, <1>2, KnownGoes
<1>4. RoomGoes /\ RecordGoes /\ HistoryGoes
  BY <1>1, RoomSame, HistorySame DEF Declines, RecordGoes
<1>5. seats' = seats /\ round' \in {"SCHEDULED", "COMPLETED"}
  BY DEF Declines, TypeOK
<1> QED BY <1>2, <1>3, <1>4, <1>5 DEF Goes

LEMMA SaysNoGoes ==
  ASSUME IInv, NEW r \in Requests, SaysNo(r)
  PROVE  Goes
<1> USE DEF IInv
<1>1. /\ req[r].who \in People /\ obs.status # "MISSING"
      /\ said' = [said EXCEPT ![req[r].who] = "declined"]
  BY DEF SaysNo, TypeOK, Bounded, At, RequestOK
<1>2. said \in [People -> Answers] /\ Candidate \in People
  BY ObsIs, PeopleAre
<1>3. obs' = obs /\ said[Candidate] # "absent"
  BY <1>1, ObsIs DEF SaysNo
<1>4. RowsGo
  BY <1>1, <1>2, <1>3 DEF RowsGo, Answers, Answered
<1>5. HistoryGoes
  BY <1>1 DEF SaysNo, HistoryGoes, TypeOK
<1>6. ObsGoes /\ RoomGoes /\ RecordGoes
  BY ObsSame, RoomSame DEF SaysNo, RecordGoes
<1>7. seats' = seats /\ round' \in {"SCHEDULED", "COMPLETED"}
  BY DEF SaysNo, TypeOK
<1> QED BY <1>4, <1>5, <1>6, <1>7 DEF Goes

LEMMA SettleWritesGoes ==
  ASSUME IInv, NEW r \in Requests, SettleWrites(r)
  PROVE  Goes /\ obs'.status # "AWAITING_CONSENT"
<1> USE DEF IInv
<1>1. req[r].want \in {"DECLINED", "CONSENTED"}
  BY DEF SettleWrites, TypeOK, Bounded, At
<1>2. CASE obs.status = "AWAITING_CONSENT"
  <2>0. req[r].want = "CONSENTED" => Opening
    BY <1>2 DEF SettleWrites, Opening
  <2>1. obs' = [obs EXCEPT !.status = req[r].want] /\ obs \in Observations
    BY <1>2, ObsIs DEF SettleWrites
  <2>2. /\ obs' \in Observations /\ obs'.status = req[r].want
        /\ obs'.quotes = obs.quotes /\ (obs'.oneSided <=> obs.oneSided)
    BY <1>1, <2>1 DEF Observations, Statuses
  <2>3. obs.quotes = "PENDING" /\ ~obs.oneSided
    BY <1>2, ObsIs
  <2>4. ObsGoes
    BY <1>1, <1>2, <2>0, <2>2, <2>3 DEF ObsGoes, OPEN
  <2>5. HistoryGoes
    BY HistorySame DEF SettleWrites
  <2> QED BY <1>1, <1>2, <2>2, <2>4, <2>5, ObsOnlyGoes DEF SettleWrites, TypeOK
<1>3. CASE obs.status # "AWAITING_CONSENT"
  BY <1>3, NothingGoes DEF SettleWrites
<1> QED BY <1>2, <1>3

LEMMA AdmitsGoes ==
  ASSUME IInv, NEW r \in Requests, Admits(r)
  PROVE  /\ Goes /\ \A p \in admitted' \ admitted : said[p] = "consented"
         /\ admitted' = {} => AColleagueDeclined
<1> USE DEF IInv
<1>1. /\ req[r].who \in Staff /\ Answered(req[r].who)
      /\ admitted' = IF said[req[r].who] = "consented" THEN admitted \cup {req[r].who} ELSE admitted
  BY DEF Admits, RequestOK
<1>2. RoomGoes
  BY <1>1 DEF RoomGoes, TypeOK, Answered
<1>3. ObsGoes /\ RowsGo /\ HistoryGoes /\ RecordGoes
  BY ObsSame, RowsSame, HistorySame DEF Admits, RecordGoes
<1>4. seats' = seats /\ round' \in {"SCHEDULED", "COMPLETED"}
  BY DEF Admits, TypeOK
<1>5. admitted' = {} => AColleagueDeclined
  BY <1>1 DEF Answered, AColleagueDeclined
<1> QED BY <1>1, <1>2, <1>3, <1>4, <1>5 DEF Goes

LEMMA StartsGoes ==
  ASSUME IInv, NEW r \in Requests, Starts(r)
  PROVE  Goes /\ (obs'.status = "AWAITING_CONSENT" => UNCHANGED obs)
<1> USE DEF IInv
<1>1. admitted = {} => AColleagueDeclined
  BY DEF Starts, RequestOK
<1>2. CASE obs.status = "CONSENTED" /\ round = "SCHEDULED"
  <2>1. obs' = [obs EXCEPT !.status = "LISTENING"] /\ obs \in Observations
    BY <1>2, ObsIs DEF Starts
  <2>2. /\ obs' \in Observations /\ obs'.status = "LISTENING"
        /\ obs'.quotes = obs.quotes /\ (obs'.oneSided <=> obs.oneSided)
    BY <2>1 DEF Observations, Statuses
  <2>3. obs.quotes = "PENDING" /\ ~obs.oneSided
    BY <1>2, ObsIs
  <2>4. ObsGoes
    BY <1>1, <1>2, <2>2, <2>3 DEF ObsGoes, OPEN
  <2>5. HistoryGoes
    BY HistorySame DEF Starts
  <2> QED BY <1>2, <2>2, <2>4, <2>5, ObsOnlyGoes DEF Starts, TypeOK
<1>3. CASE ~(obs.status = "CONSENTED" /\ round = "SCHEDULED")
  BY <1>3, NothingGoes DEF Starts
<1> QED BY <1>2, <1>3

LEMMA StoresGoes ==
  ASSUME IInv, NEW r \in Requests, Stores(r)
  PROVE  /\ Goes /\ Len(segs') = Len(segs) + 1
<1> USE DEF IInv
<1>1. obs.status = "LISTENING" /\ r \in Capturing
  BY DEF Stores, RequestOK, Capturing
<1>2. Cardinality(Capturing) # 0
  BY <1>1, CapturesAre, FS_EmptySet
<1>3. Len(segs) \in Nat /\ segs \in Seq({"SPEECH", "GAP"})
  BY DEF TypeOK
<1>4. Len(segs) < MaxSegments
  BY <1>2, <1>3, CapturesAre, SegmentsAssumption DEF CapturesFit
<1>5. RecordGoes /\ Len(segs') = Len(segs) + 1
  BY <1>1, <1>3, <1>4 DEF Stores, RecordGoes
<1>6. ObsGoes /\ RowsGo /\ RoomGoes
  BY ObsSame, RowsSame, RoomSame DEF Stores
<1>7. HistoryGoes
  BY DEF Stores, HistoryGoes, TypeOK
<1> QED BY <1>5, <1>6, <1>7 DEF Goes, Stores, TypeOK

LEMMA EndWritesGoes ==
  ASSUME IInv, NEW r \in Requests, EndWrites(r)
  PROVE  Goes /\ (obs'.status = "AWAITING_CONSENT" => UNCHANGED obs)
<1> USE DEF IInv
<1>1. req[r].oneSided \in BOOLEAN /\ req[r].may \in BOOLEAN
  BY DEF EndWrites, TypeOK, Bounded, At
<1>2. CASE obs.status \in ENDABLE
  <2>1. /\ obs' = [obs EXCEPT !.status = "ENDED", !.oneSided = req[r].oneSided,
                              !.quotes = IF req[r].oneSided THEN "NONE" ELSE @]
        /\ obs \in Observations
    BY <1>2, ObsIs DEF EndWrites
  <2>2. obs' \in Observations /\ obs'.status = "ENDED"
    BY <1>1, <2>1 DEF Observations, Statuses
  <2>3. obs.quotes = "PENDING" /\ (obs.status = "LISTENING" => ~Locked)
    BY <1>2, ObsIs DEF EndWrites, Free, ENDABLE
  <2>4. ObsGoes
    BY <1>2, <2>2, <2>3 DEF ObsGoes, ENDABLE, OPEN
  <2>5. HistoryGoes
    BY <1>1, <1>2, <2>2 DEF EndWrites, HistoryGoes, TypeOK
  <2> QED BY <1>2, <2>2, <2>4, <2>5, ObsOnlyGoes DEF EndWrites, TypeOK, ENDABLE
<1>3. CASE obs.status \notin ENDABLE
  BY <1>3, NothingGoes DEF EndWrites, history
<1> QED BY <1>2, <1>3

LEMMA RetriesGoes ==
  ASSUME IInv, NEW r \in Requests, Retries(r)
  PROVE  Goes /\ obs.status = "ENDED" /\ obs'.status = "ENDED"
<1>1. obs \in Observations /\ obs' = Expired(obs) /\ Expired(obs).status = "ENDED"
  BY ObsIs DEF IInv, Retries
<1>2. /\ obs' \in Observations /\ obs'.status = "ENDED" /\ obs.status = "ENDED"
      /\ (obs'.oneSided <=> obs.oneSided) /\ (obs'.stopped <=> obs.stopped)
      /\ obs'.quoted = obs.quoted
      /\ obs' = obs \/ obs.quotes = "PENDING"
  BY <1>1, ExpiredIs DEF IInv
<1>3. ObsGoes
  BY <1>2 DEF ObsGoes
<1>4. HistoryGoes
  BY HistorySame DEF Retries, IInv
<1> QED BY <1>2, <1>3, <1>4, ObsOnlyGoes DEF Retries, IInv, TypeOK

LEMMA ExtractsGoes ==
  ASSUME IInv, NEW r \in Requests, Extracts(r)
  PROVE  /\ Goes /\ obs.status = "ENDED" /\ obs'.status = "ENDED"
         /\ obs'.quotes = "READY" => obs.quotes = "READY" \/ obs'.quoted = req[r].quoted
<1> USE DEF IInv
<1>1. req[r].quoted \in 0 .. MaxSegments /\ obs.status = "ENDED" /\ obs \in Observations
  BY ObsIs, SegmentsAssumption DEF Extracts, TypeOK, Bounded, At, RequestOK
<1>2. PICK o \in {"READY", "UNAVAILABLE"} :
        obs' = IF obs.status = "ENDED" /\ obs.quotes \in {"PENDING", "UNAVAILABLE"}
               THEN [obs EXCEPT !.quotes = o, !.quoted = IF o = "READY" THEN req[r].quoted ELSE @]
               ELSE obs
  BY DEF Extracts
<1>3. CASE obs.quotes \in {"PENDING", "UNAVAILABLE"}
  <2>1. obs' = [obs EXCEPT !.quotes = o, !.quoted = IF o = "READY" THEN req[r].quoted ELSE @]
    BY <1>1, <1>2, <1>3
  <2>2. /\ obs' \in Observations /\ obs'.status = "ENDED"
        /\ (obs'.oneSided <=> obs.oneSided) /\ (obs'.stopped <=> obs.stopped)
        /\ obs'.quotes = "READY" => obs'.quoted = req[r].quoted
    BY <1>1, <2>1 DEF Observations
  <2>3. ObsGoes
    BY <1>1, <1>3, <2>2 DEF ObsGoes
  <2>4. HistoryGoes
    BY HistorySame DEF Extracts
  <2> QED BY <1>1, <2>2, <2>3, <2>4, ObsOnlyGoes DEF Extracts, TypeOK
<1>4. CASE obs.quotes \notin {"PENDING", "UNAVAILABLE"}
  BY <1>1, <1>2, <1>4, NothingGoes DEF Extracts
<1> QED BY <1>3, <1>4

LEMMA CompletesGoes ==
  ASSUME IInv, NEW r \in Requests, Completes(r)
  PROVE  Goes
BY ObsSame, RowsSame, RoomSame, HistorySame DEF Completes, Goes, RecordGoes, IInv, TypeOK

LEMMA ReadsGoes ==
  ASSUME IInv, NEW r \in Requests,
         \/ SettleReads(r) \/ Checks(r) \/ EndReads(r)
         \/ \E p \in Staff : Joins(r, p) \/ Captures(r, p)
  PROVE  Goes
BY NothingGoes DEF SettleReads, Checks, EndReads, Joins, Captures

LEMMA RestartsGoes ==
  ASSUME IInv, NEW r \in Requests, Restarts(r)
  PROVE  Goes
<1>1. HistoryGoes
  BY DEF Restarts, HistoryGoes, IInv, TypeOK
<1> QED BY <1>1, ObsSame, ObsOnlyGoes DEF Restarts, IInv, TypeOK

(* A step of one request leaves the other slots alone; what a slot holds.  *)
RequestStep(r) == Consent(r) \/ Room(r) \/ Closing(r)

LEMMA RequestGoes ==
  ASSUME IInv, NEW r \in Requests, RequestStep(r)
  PROVE  Goes
BY ConsentsGoes, DeclinesGoes, SaysNoGoes, SettleWritesGoes, AdmitsGoes, StartsGoes, StoresGoes,
   EndWritesGoes, RetriesGoes, ExtractsGoes, CompletesGoes, ReadsGoes,
   RestartsGoes
   DEF RequestStep, Consent, Room, Closing

----
(* What a request turns into: it finds out what its next step relies on.   *)

Turned(r) ==
    /\ SlotsOK' /\ \A s \in Requests \ {r} : req'[s] = req[s]
    /\ Bounded(req'[r]) /\ RequestOK(r)' /\ CapturesFit'

LEMMA TurnsTo ==
  ASSUME IInv, NEW r \in Requests, NEW q, Goto(r, q), Bounded(q), ~CaptureAt(q),
         UNCHANGED segs, req'[r] = q => RequestOK(r)'
  PROVE  Turned(r)
BY Went, NoMoreCaptures DEF IInv, Turned

LEMMA TurnEnds ==
  ASSUME IInv, NEW r \in Requests, End(r), UNCHANGED segs
  PROVE  Turned(r)
<1>1. ~CaptureAt(Idle)
  BY DEF CaptureAt, Idle
<1> QED BY <1>1, Ended, IdleIsFine, NoMoreCaptures DEF IInv, Turned

LEMMA TurnStays ==
  ASSUME IInv, Goes, NEW r \in Requests, UNCHANGED <<req, segs>>
  PROVE  Turned(r)
<1>1. SlotsOK' /\ Bounded(req'[r])
  BY DEF IInv, SlotsOK, TypeOK
<1>2. RequestOK(r)'
  BY RequestStays
<1>3. CapturesFit'
  BY NoMoreCaptures DEF IInv
<1> QED BY <1>1, <1>2, <1>3 DEF Turned

LEMMA ConsentsTurns ==
  ASSUME IInv, NEW r \in Requests, NEW p \in People, Consents(r, p)
  PROVE  Turned(r)
<1>1. CASE said[p] = "declined"
  BY <1>1, ConsentsGoes, TurnStays DEF Consents
<1>2. CASE said[p] # "declined"
  <2> DEFINE q == [at |-> "settle"]
  <2>1. Bounded(q) /\ ~CaptureAt(q) /\ (req'[r] = q => RequestOK(r)')
    BY DEF Bounded, CaptureAt, RequestOK, At
  <2>2. Goto(r, q) /\ UNCHANGED segs
    BY <1>2 DEF Consents
  <2> HIDE DEF q
  <2> QED BY <2>1, <2>2, TurnsTo
<1> QED BY <1>1, <1>2

LEMMA DeclinesTurns ==
  ASSUME IInv, NEW r \in Requests, NEW p \in People, Declines(r, p)
  PROVE  Turned(r)
<1> DEFINE q == Declining(p)
<1>1. obs'.status # "MISSING" /\ said'[p] # "absent" /\ (obs.status \in OPEN => Over')
  BY DeclinesGoes DEF Over
<1> DEFINE open == obs.status \in OPEN
<1>0. open \in BOOLEAN /\ q = [at |-> "declining", who |-> p, open |-> open]
  BY DEF Declining
<1> HIDE DEF open
<1>2. /\ Bounded(q) /\ ~CaptureAt(q) /\ q.who = p /\ q.at = "declining" /\ (q.open <=> open)
  BY <1>0 DEF Bounded, CaptureAt
<1> USE DEF open
<1>3. Goto(r, q) /\ UNCHANGED segs
  BY DEF Declines
<1> HIDE DEF q
<1>4. req'[r] = q => RequestOK(r)'
  BY <1>1, <1>2 DEF RequestOK, At
<1> QED BY <1>2, <1>3, <1>4, TurnsTo

LEMMA SaysNoTurns ==
  ASSUME IInv, NEW r \in Requests, SaysNo(r)
  PROVE  Turned(r)
<1> DEFINE q == [at |-> "settle"]
<1>1. Bounded(q) /\ ~CaptureAt(q) /\ (req'[r] = q => RequestOK(r)')
  BY DEF Bounded, CaptureAt, RequestOK, At
<1>2. Goto(r, q) /\ UNCHANGED segs
  BY DEF SaysNo
<1> HIDE DEF q
<1> QED BY <1>1, <1>2, TurnsTo

LEMMA SettleReadsTurns ==
  ASSUME IInv, NEW r \in Requests, SettleReads(r)
  PROVE  Turned(r)
<1> DEFINE q == [at |-> "settling", want |-> Wanted]
<1>1. CASE obs.status = "AWAITING_CONSENT" /\ Wanted # ""
  <2>1. Goto(r, q) /\ UNCHANGED <<segs, seats, said>>
    BY <1>1 DEF SettleReads
  <2>2. Wanted \in {"DECLINED", "CONSENTED"} /\ (Wanted = "CONSENTED" => CaptureConsented)
    BY <1>1 DEF Wanted
  <2>3. Wanted = "CONSENTED" => AskedForHaveAnswered
    BY <2>2, AgreedHaveAnswered DEF IInv
  <2>4. Wanted = "CONSENTED" => AskedForHaveAnswered'
    BY <2>1, <2>3 DEF AskedForHaveAnswered, Answered
  <2>5. Bounded(q) /\ ~CaptureAt(q) /\ q.want = Wanted /\ q.at = "settling"
    BY <2>2 DEF Bounded, CaptureAt
  <2> HIDE DEF q
  <2>6. req'[r] = q => RequestOK(r)'
    BY <2>4, <2>5 DEF RequestOK, At
  <2> QED BY <2>1, <2>5, <2>6, TurnsTo
<1>2. CASE ~(obs.status = "AWAITING_CONSENT" /\ Wanted # "")
  BY <1>2, TurnEnds DEF SettleReads
<1> QED BY <1>1, <1>2

LEMMA JoinsTurns ==
  ASSUME IInv, NEW r \in Requests, NEW p \in Staff, Joins(r, p)
  PROVE  Turned(r)
<1> DEFINE q == [at |-> "join", who |-> p]
<1>1. Answered(p)'
  BY DEF Joins, MayEnterRoom, Answered
<1>2. Bounded(q) /\ ~CaptureAt(q) /\ q.who = p /\ q.at = "join"
  BY PeopleAre DEF Bounded, CaptureAt
<1>3. Goto(r, q) /\ UNCHANGED segs
  BY DEF Joins
<1> HIDE DEF q
<1>4. req'[r] = q => RequestOK(r)'
  BY <1>1, <1>2 DEF RequestOK, At
<1> QED BY <1>2, <1>3, <1>4, TurnsTo

LEMMA AdmitsTurns ==
  ASSUME IInv, NEW r \in Requests, Admits(r)
  PROVE  Turned(r)
<1> DEFINE q == [at |-> "entering"]
<1>1. admitted' = {} => AColleagueDeclined'
  BY AdmitsGoes, AnswersStay DEF IInv
<1>2. Bounded(q) /\ ~CaptureAt(q) /\ q.at = "entering"
  BY DEF Bounded, CaptureAt
<1>3. Goto(r, q) /\ UNCHANGED segs
  BY DEF Admits
<1> HIDE DEF q
<1>4. req'[r] = q => RequestOK(r)'
  BY <1>1, <1>2 DEF RequestOK, At
<1> QED BY <1>2, <1>3, <1>4, TurnsTo

LEMMA CapturesTurns ==
  ASSUME IInv, NEW r \in Requests, NEW p \in Staff, Captures(r, p)
  PROVE  Turned(r)
<1> DEFINE q == [at |-> "chunk", who |-> p]
<1>1. Bounded(q) /\ q.at = "chunk"
  BY PeopleAre DEF Bounded
<1>2. Goto(r, q) /\ UNCHANGED segs /\ Len(segs) + Cardinality(Capturing) < MaxSegments
  BY DEF Captures, Capturing
<1> HIDE DEF q
<1>3. SlotsOK' /\ req'[r] = q /\ \A s \in Requests \ {r} : req'[s] = req[s]
  BY <1>2, Went DEF IInv
<1>4. CapturesFit'
  BY <1>2, <1>3, OneMoreCapture DEF IInv
<1>5. RequestOK(r)'
  BY <1>1, <1>3 DEF RequestOK, At
<1> QED BY <1>1, <1>3, <1>4, <1>5 DEF Turned

LEMMA ChecksTurns ==
  ASSUME IInv, NEW r \in Requests, Checks(r)
  PROVE  Turned(r)
<1> DEFINE q == [at |-> "storing"]
<1>1. CASE MayStore(req[r].who)
  <2>1. Bounded(q) /\ q.at = "storing"
    BY DEF Bounded
  <2>2. Goto(r, q) /\ UNCHANGED segs /\ obs'.status = "LISTENING"
    BY <1>1 DEF Checks, MayStore
  <2> HIDE DEF q
  <2>3. SlotsOK' /\ req'[r] = q /\ \A s \in Requests \ {r} : req'[s] = req[s]
    BY <2>2, Went DEF IInv
  <2>4. CaptureAt(req[r])
    BY DEF Checks, At, CaptureAt
  <2>5. CapturesFit'
    BY <2>2, <2>3, <2>4, NoMoreCaptures DEF IInv
  <2>6. RequestOK(r)'
    BY <2>1, <2>2, <2>3 DEF RequestOK, At
  <2> QED BY <2>1, <2>3, <2>5, <2>6 DEF Turned
<1>2. CASE ~MayStore(req[r].who)
  BY <1>2, TurnEnds DEF Checks
<1> QED BY <1>1, <1>2

LEMMA StoresTurns ==
  ASSUME IInv, NEW r \in Requests, Stores(r)
  PROVE  Turned(r)
<1>1. CaptureAt(req[r]) /\ ~CaptureAt(Idle) /\ End(r)
  BY DEF Stores, CaptureAt, At, Idle
<1>2. SlotsOK' /\ req'[r] = Idle /\ \A s \in Requests \ {r} : req'[s] = req[s]
  BY <1>1, Ended DEF IInv
<1>3. CapturesFit'
  BY <1>1, <1>2, StoresGoes, CaptureStored DEF IInv
<1> QED BY <1>2, <1>3, IdleIsFine DEF Turned

LEMMA CompletesTurns ==
  ASSUME IInv, NEW r \in Requests, Completes(r)
  PROVE  Turned(r)
<1> DEFINE q == [at |-> "ending"]
<1>1. CASE obs.status = "MISSING"
  BY <1>1, CompletesGoes, TurnStays DEF Completes
<1>2. CASE obs.status # "MISSING"
  <2>1. Bounded(q) /\ ~CaptureAt(q) /\ (req'[r] = q => RequestOK(r)')
    BY DEF Bounded, CaptureAt, RequestOK, At
  <2>2. Goto(r, q) /\ UNCHANGED segs
    BY <1>2 DEF Completes
  <2> HIDE DEF q
  <2> QED BY <2>1, <2>2, TurnsTo
<1> QED BY <1>1, <1>2

LEMMA SpokenIsCaptured ==
  ASSUME TypeOK, Spoken
  PROVE  Len(segs) \in Nat /\ Len(segs) > 0
BY DEF TypeOK, Spoken

LEMMA EndReadsTurns ==
  ASSUME IInv, NEW r \in Requests, EndReads(r)
  PROVE  Turned(r)
<1>0. PICK oneSided \in BOOLEAN :
        LET ended == obs.status = "ENDED"
            read == IF ended THEN obs ELSE [obs EXCEPT !.oneSided = oneSided]
        IN  Goto(r, [at |-> "end", ended |-> ended, oneSided |-> read.oneSided,
                     may |-> obs.status \notin {"STOPPED", "DECLINED"} /\ MayExtract(read)])
  BY DEF EndReads
<1> DEFINE ended == obs.status = "ENDED"
           read == IF ended THEN obs ELSE [obs EXCEPT !.oneSided = oneSided]
           q == [at |-> "end", ended |-> ended, oneSided |-> read.oneSided,
                 may |-> obs.status \notin {"STOPPED", "DECLINED"} /\ MayExtract(read)]
<1>1. Goto(r, q) /\ UNCHANGED <<segs, obs>>
  BY <1>0 DEF EndReads
<1>2. read \in Observations /\ (ended => read = obs)
  BY ObsIs DEF IInv, Observations
<1>3. read.oneSided \in BOOLEAN /\ MayExtract(read) \in BOOLEAN
  BY <1>2 DEF Observations, MayExtract, Spoken
<1>4. MayExtract(read) => ~read.oneSided /\ ~read.stopped /\ Len(segs) > 0
  BY SpokenIsCaptured DEF MayExtract, IInv
<1>5. /\ q.at = "end" /\ (q.oneSided <=> read.oneSided) /\ (q.ended <=> ended)
      /\ q.may => MayExtract(read)
  OBVIOUS
<1>6. Bounded(q) /\ ~CaptureAt(q)
  BY <1>3 DEF Bounded, CaptureAt
<1>7. q.may => ~q.oneSided /\ Len(segs) > 0
  BY <1>4, <1>5
<1>8. q.ended => obs.status = "ENDED" /\ (q.may => MayStill)
  BY <1>2, <1>4, <1>5 DEF MayStill
<1> HIDE DEF q, read, ended
<1>9. req'[r] = q => RequestOK(r)'
  BY <1>1, <1>5, <1>7, <1>8 DEF RequestOK, At, MayStill
<1> QED BY <1>1, <1>6, <1>9, TurnsTo

(* An extraction may start.                                                *)
LEMMA ExtractingTurns ==
  ASSUME IInv, NEW r \in Requests, Goto(r, Extracting), UNCHANGED segs, Len(segs) > 0,
         obs'.status = "ENDED", ~obs'.oneSided, obs'.stopped => overtaken'
  PROVE  Turned(r)
<1>1. Len(segs) \in 1 .. MaxSegments
  BY SegmentsAssumption DEF IInv, TypeOK
<1>2. Bounded(Extracting) /\ ~CaptureAt(Extracting) /\ Extracting.at = "asking"
      /\ Extracting.quoted = Len(segs)
  BY <1>1 DEF Extracting, Bounded, CaptureAt
<1>3. req'[r] = Extracting => RequestOK(r)'
  BY <1>2 DEF RequestOK, At
<1> QED BY <1>2, <1>3, TurnsTo

LEMMA EndWritesTurns ==
  ASSUME IInv, NEW r \in Requests, EndWrites(r)
  PROVE  Turned(r)
<1>1. /\ req[r].may \in BOOLEAN
      /\ req[r].may => ~req[r].oneSided /\ Len(segs) > 0
      /\ req[r].ended => obs.status = "ENDED" /\ (req[r].may => MayStill)
  BY DEF EndWrites, IInv, TypeOK, Bounded, At, RequestOK
<1>2. UNCHANGED segs
  BY DEF EndWrites
<1>3. CASE obs.status \in ENDABLE /\ req[r].may
  <2>1. /\ obs' = [obs EXCEPT !.status = "ENDED", !.oneSided = req[r].oneSided,
                              !.quotes = IF req[r].oneSided THEN "NONE" ELSE @]
        /\ overtaken' = (overtaken \/ (req[r].may /\ obs.stopped))
        /\ Goto(r, Extracting) /\ obs \in Observations
    BY <1>3, ObsIs DEF EndWrites, IInv
  <2>2. /\ obs'.status = "ENDED" /\ ~obs'.oneSided /\ (obs'.stopped => obs.stopped)
    BY <1>1, <1>3, <2>1 DEF Observations
  <2>3. obs.stopped => overtaken'
    BY <1>3, <2>1
  <2> QED BY <1>1, <1>2, <1>3, <2>1, <2>2, <2>3, ExtractingTurns
<1>4. CASE obs.status \notin ENDABLE /\ req[r].ended /\ req[r].may
  <2>1. Goto(r, Extracting) /\ obs' = obs
    BY <1>4 DEF EndWrites
  <2> QED BY <1>1, <1>2, <1>4, <2>1, ExtractingTurns DEF MayStill
<1>5. CASE ~req[r].may \/ (obs.status \notin ENDABLE /\ ~req[r].ended)
  BY <1>2, <1>5, TurnEnds DEF EndWrites
<1> QED BY <1>3, <1>4, <1>5

LEMMA RetriesTurns ==
  ASSUME IInv, NEW r \in Requests, Retries(r)
  PROVE  Turned(r)
<1>1. CASE MayExtract(obs)
  <2>1. Len(segs) > 0 /\ ~obs.oneSided /\ ~obs.stopped
    BY <1>1, SpokenIsCaptured DEF MayExtract, IInv
  <2>2. obs'.status = "ENDED" /\ ~obs'.oneSided /\ ~obs'.stopped
    BY <2>1, RetriesGoes DEF Goes, ObsGoes
  <2> QED BY <1>1, <2>1, <2>2, ExtractingTurns DEF Retries
<1>2. CASE ~MayExtract(obs)
  BY <1>2, RetriesGoes, TurnStays DEF Retries
<1> QED BY <1>1, <1>2

LEMMA RequestTurns ==
  ASSUME IInv, NEW r \in Requests, RequestStep(r)
  PROVE  Turned(r)
<1>1. CASE SettleWrites(r) \/ Starts(r) \/ Extracts(r) \/ Restarts(r)
  BY <1>1, TurnEnds DEF SettleWrites, Starts, Extracts, Restarts
<1> QED BY <1>1, ConsentsTurns, DeclinesTurns, SaysNoTurns, SettleReadsTurns, JoinsTurns,
           AdmitsTurns, CapturesTurns, ChecksTurns, StoresTurns, CompletesTurns, EndReadsTurns,
           EndWritesTurns, RetriesTurns DEF RequestStep, Consent, Room, Closing

----
(* Settling: whoever answers settles, and nothing else changes what the    *)
(* rows say.                                                               *)

Quiet == \A r \in Requests : req[r].at \notin {"declining", "settle", "settling"}

LEMMA KeepsStepIs ==
  /\ StatusKeepsStep <=> (Quiet => SettledStatus)
  /\ StatusKeepsStep' <=> (Quiet' => SettledStatus')
BY DEF StatusKeepsStep, Quiet, SettledStatus

(* A step that changes neither the status nor an answer.                   *)
LEMMA StepSettled ==
  ASSUME IInv, TypeOK', Goes, Quiet, obs'.status = obs.status,
         \A p \in People : said'[p] # said[p] => said[p] = "absent" /\ said'[p] = "pending",
         \A p \in admitted' \ admitted : said[p] = "consented"
  PROVE  SettledStatus'
<1>1. SettledStatus
  BY KeepsStepIs DEF IInv
<1>2. CASE obs.status = "AWAITING_CONSENT"
  BY <1>1, <1>2, SettledStays DEF IInv
<1>3. CASE obs.status # "AWAITING_CONSENT"
  BY <1>3 DEF SettledStatus
<1> QED BY <1>2, <1>3

LEMMA QuietBefore ==
  ASSUME NEW r \in Requests, Quiet', \A s \in Requests \ {r} : req'[s] = req[s],
         req[r].at \notin {"declining", "settle", "settling"}
  PROVE  Quiet
BY DEF Quiet

LEMMA LoudAfter ==
  ASSUME IInv, NEW r \in Requests, NEW q, Goto(r, q), q.at \in {"declining", "settle", "settling"}
  PROVE  ~Quiet'
BY Went DEF Quiet, IInv

(* Settling reads the rows as they are.                                    *)
LEMMA SettleReadsSettles ==
  ASSUME IInv, NEW r \in Requests, SettleReads(r), Quiet'
  PROVE  SettledStatus'
<1>1. CASE obs.status = "AWAITING_CONSENT" /\ Wanted # ""
  <2> DEFINE q == [at |-> "settling", want |-> Wanted]
  <2>1. Goto(r, q) /\ q.at = "settling"
    BY <1>1 DEF SettleReads
  <2> HIDE DEF q
  <2> QED BY <2>1, LoudAfter
<1>2. CASE obs.status = "AWAITING_CONSENT" /\ Wanted = ""
  <2>1. ~BlockingDecline /\ ~CaptureConsented
    BY <1>2 DEF Wanted
  <2>2. UNCHANGED <<seats, said, admitted>>
    BY DEF SettleReads
  <2>3. Interviewers' = Interviewers
    BY <2>2 DEF Interviewers, Party
  <2>4. Conducting' = Conducting
    BY <2>2, <2>3 DEF Conducting
  <2>5. RequiredOf' = RequiredOf
    BY <2>4 DEF RequiredOf
  <2>6. ~BlockingDecline' /\ ~CaptureConsented'
    BY <2>1, <2>2, <2>4, <2>5 DEF BlockingDecline, CaptureConsented
  <2> QED BY <2>6 DEF SettledStatus
<1>3. CASE obs.status # "AWAITING_CONSENT"
  BY <1>3 DEF SettleReads, SettledStatus
<1> QED BY <1>1, <1>2, <1>3

LEMMA RequestSettles ==
  ASSUME IInv, TypeOK', NEW r \in Requests, RequestStep(r), Quiet'
  PROVE  SettledStatus'
<1>0. Goes /\ \A s \in Requests \ {r} : req'[s] = req[s]
  BY RequestGoes, RequestTurns DEF Turned
<1>1. ASSUME NEW p \in People, Consents(r, p) PROVE SettledStatus'
  <2>1. CASE said[p] = "declined"
    <3>1. obs.status # "MISSING" /\ Known(p)[p] = "declined"
      BY <2>1, KnownIs DEF IInv, RowsOK
    <3>2. UNCHANGED <<obs, said, admitted, req>>
      BY <1>1, <2>1, <3>1, EnsuredIs DEF Consents, IInv
    <3>3. Quiet
      BY <3>2 DEF Quiet
    <3> QED BY <1>0, <3>2, <3>3, StepSettled
  <2>2. CASE said[p] # "declined"
    <3>1. Goto(r, [at |-> "settle"])
      BY <1>1, <2>2 DEF Consents
    <3> QED BY <3>1, LoudAfter
  <2> QED BY <2>1, <2>2
<1>2. ASSUME NEW p \in People, Declines(r, p) PROVE SettledStatus'
  <2>1. Goto(r, Declining(p)) /\ Declining(p).at = "declining"
    BY <1>2 DEF Declines, Declining
  <2> QED BY <2>1, LoudAfter
<1>3. CASE SaysNo(r)
  <2>1. Goto(r, [at |-> "settle"])
    BY <1>3 DEF SaysNo
  <2> QED BY <2>1, LoudAfter
<1>4. CASE SettleReads(r)
  BY <1>4, SettleReadsSettles
<1>5. CASE SettleWrites(r)
  BY <1>5, SettleWritesGoes DEF SettledStatus
<1>6. CASE Admits(r)
  <2>1. Quiet
    BY <1>0, <1>6, QuietBefore DEF Admits, At
  <2> QED BY <1>0, <1>6, <2>1, AdmitsGoes, StepSettled DEF Admits
<1>7. ASSUME Starts(r) \/ EndWrites(r) PROVE SettledStatus'
  <2>1. Quiet
    BY <1>0, <1>7, QuietBefore DEF Starts, EndWrites, At
  <2>2. UNCHANGED <<said, admitted>> /\ (obs'.status = "AWAITING_CONSENT" => UNCHANGED obs)
    BY <1>7, StartsGoes, EndWritesGoes DEF Starts, EndWrites
  <2>3. CASE obs'.status = "AWAITING_CONSENT"
    BY <1>0, <2>1, <2>2, <2>3, StepSettled
  <2>4. CASE obs'.status # "AWAITING_CONSENT"
    BY <2>4 DEF SettledStatus
  <2> QED BY <2>3, <2>4
<1>8. ASSUME Retries(r) \/ Extracts(r) PROVE SettledStatus'
  BY <1>8, RetriesGoes, ExtractsGoes DEF SettledStatus
<1>9. ASSUME \/ Checks(r) \/ EndReads(r) \/ Restarts(r) \/ Stores(r) \/ Completes(r)
             \/ \E p \in Staff : Joins(r, p) \/ Captures(r, p)
      PROVE  SettledStatus'
  <2>1. Quiet
    BY <1>0, <1>9, QuietBefore
       DEF Checks, EndReads, Restarts, Stores, Completes, Joins, Captures, At
  <2>2. UNCHANGED <<obs, said, admitted>>
    BY <1>9 DEF Checks, EndReads, Restarts, Stores, Completes, Joins, Captures
  <2> QED BY <1>0, <2>1, <2>2, StepSettled
<1> QED BY <1>1, <1>2, <1>3, <1>4, <1>5, <1>6, <1>7, <1>8, <1>9
        DEF RequestStep, Consent, Room, Closing

(* Polling may make the observation, whose rows then wait for everyone.    *)
LEMMA OpensSettles ==
  ASSUME IInv, TypeOK', NEW p \in Staff, Opens(p), Quiet'
  PROVE  SettledStatus'
<1>0. Goes /\ (obs'.status = obs.status \/ obs.status = "MISSING")
  BY OpensGoes
<1>1. said' = Known(p) /\ obs'.status # "MISSING" /\ p \in People
  BY <1>0, EnsuredIs, ExpiredIs, PeopleAre DEF Opens, IInv
<1>2. UNCHANGED <<admitted, req>>
  BY DEF Opens
<1>3. CASE obs.status = "MISSING"
  <2>1. said'[Candidate] = "pending"
    BY <1>1, <1>3, KnownGoes
  <2>2. \A x \in People : said'[x] # "declined"
    BY <1>1, <1>3, KnownIs DEF IInv, RowsOK
  <2>3. seats' \subseteq Staff /\ admitted' \subseteq Staff /\ HasRow' \subseteq Staff
    BY PeopleAre DEF TypeOK, HasRow
  <2>4. RequiredOf' \subseteq People
    BY <2>3, ConductsNext, PeopleAre DEF RequiredOf
  <2>5. ~CaptureConsented'
    BY <2>1 DEF CaptureConsented, RequiredOf
  <2>6. ~BlockingDecline'
    BY <2>2, <2>4 DEF BlockingDecline
  <2> QED BY <2>5, <2>6 DEF SettledStatus
<1>4. CASE obs.status # "MISSING"
  <2>1. Quiet
    BY <1>2 DEF Quiet
  <2>2. \A x \in People : said'[x] # said[x] => said[x] = "absent" /\ said'[x] = "pending"
    BY <1>1, KnownGoes
  <2> QED BY <1>0, <1>2, <1>4, <2>1, <2>2, StepSettled
<1> QED BY <1>3, <1>4

----
(* Quotes: those there are stay as they were taken, from a record that no  *)
(* longer grows.                                                           *)

LEMMA OldQuotes ==
  ASSUME IInv, Goes, obs'.quotes = "READY", obs.quotes = "READY"
  PROVE  QuotesOfWholeRecord' /\ NoQuotesOfWithdrawn'
<1>1. obs.status = "ENDED"
  BY DEF IInv, TypeOK
<1>2. segs' = segs
  BY <1>1 DEF Goes, RecordGoes
<1>3. obs'.quoted = obs.quoted /\ (obs'.oneSided <=> obs.oneSided) /\ (obs'.stopped <=> obs.stopped)
  BY <1>1 DEF Goes, ObsGoes
<1>4. overtaken => overtaken'
  BY DEF Goes, HistoryGoes
<1> QED BY <1>2, <1>3, <1>4 DEF IInv, QuotesOfWholeRecord, NoQuotesOfWithdrawn

LEMMA NewQuotes ==
  ASSUME IInv, NEW r \in Requests, Extracts(r), obs'.quotes = "READY", obs.quotes # "READY"
  PROVE  QuotesOfWholeRecord' /\ NoQuotesOfWithdrawn'
<1>1. /\ req[r].quoted = Len(segs) /\ ~obs.oneSided /\ (obs.stopped => overtaken)
  BY DEF IInv, Extracts, RequestOK
<1>2. obs'.quoted = req[r].quoted /\ Goes /\ obs.status = "ENDED"
  BY ExtractsGoes
<1>3. (obs'.oneSided <=> obs.oneSided) /\ (obs'.stopped <=> obs.stopped)
  BY <1>2 DEF Goes, ObsGoes
<1>4. UNCHANGED <<segs, overtaken>>
  BY DEF Extracts, history
<1> QED BY <1>1, <1>2, <1>3, <1>4 DEF QuotesOfWholeRecord, NoQuotesOfWithdrawn

LEMMA QuotesStay ==
  ASSUME IInv, Goes, obs'.quotes = "READY" => obs.quotes = "READY" \/ \E r \in Requests : Extracts(r)
  PROVE  QuotesOfWholeRecord' /\ NoQuotesOfWithdrawn'
<1>1. CASE obs'.quotes # "READY"
  BY <1>1 DEF QuotesOfWholeRecord, NoQuotesOfWithdrawn
<1> QED BY <1>1, OldQuotes, NewQuotes

LEMMA QuotesAreExtracted ==
  ASSUME IInv, Next, obs'.quotes = "READY"
  PROVE  obs.quotes = "READY" \/ \E r \in Requests : Extracts(r)
<1>0. obs \in Observations
  BY ObsIs DEF IInv
<1>1. ASSUME NEW p \in Staff, Opens(p) PROVE obs.quotes = "READY"
  <2>1. Ensured \in Observations /\ obs' = Expired(Ensured)
    BY <1>1, EnsuredIs DEF Opens, IInv
  <2>2. Ensured.quotes = "READY"
    BY <2>1, ExpiredIs DEF IInv
  <2> QED BY <2>2, EnsuredIs DEF IInv
<1>2. ASSUME NEW p \in People, Stops(p) PROVE FALSE
  BY <1>2, StopsGoes DEF Goes, ObsGoes
<1>3. CASE Ages
  BY <1>0, <1>3 DEF Ages, Observations
<1>4. ASSUME NEW r \in Requests, RequestStep(r), ~Extracts(r), obs.quotes # "READY" PROVE FALSE
  <2>1. ASSUME NEW p \in People, Consents(r, p) PROVE FALSE
    BY <1>4, <2>1, EnsuredIs DEF Consents, IInv
  <2>2. ASSUME NEW p \in People, Declines(r, p) PROVE FALSE
    <3>1. obs' = Closed(obs) \/ obs' = Ensured
      BY <2>2 DEF Declines
    <3> QED BY <1>0, <1>4, <3>1, EnsuredIs, ClosedIs DEF IInv
  <2>3. CASE SettleWrites(r)
    BY <1>0, <1>4, <2>3 DEF SettleWrites, Observations
  <2>4. CASE Starts(r)
    BY <1>0, <1>4, <2>4 DEF Starts, Observations
  <2>5. CASE EndWrites(r)
    <3>1. CASE obs.status \in ENDABLE
      BY <1>0, <1>4, <2>5, <3>1 DEF EndWrites, Observations
    <3>2. CASE obs.status \notin ENDABLE
      BY <1>4, <2>5, <3>2 DEF EndWrites
    <3> QED BY <3>1, <3>2
  <2>6. CASE Retries(r)
    BY <1>0, <1>4, <2>6, ExpiredIs DEF Retries, IInv
  <2>7. ASSUME UNCHANGED obs PROVE FALSE
    BY <1>4, <2>7
  <2> QED BY <1>4, <2>1, <2>2, <2>3, <2>4, <2>5, <2>6, <2>7
          DEF RequestStep, Consent, Room, Closing, SaysNo, SettleReads, Joins, Captures, Admits,
              Checks, Stores, Completes, EndReads, Restarts
<1> QED BY <1>1, <1>2, <1>3, <1>4 DEF Next, Polls, RequestStep

----
(* A "no", and whoever opens the room or stores despite it.                *)

(* Whoever the room needs although they said no, it needed before.         *)
LEMMA NoWasRequired ==
  ASSUME TypeOK, TypeOK', Goes, NEW p \in RequiredOf', said[p] = "declined"
  PROVE  p \in RequiredOf
<1>1. /\ seats' = seats /\ admitted \subseteq admitted' /\ admitted' \subseteq Staff
      /\ \A x \in admitted' \ admitted : said[x] = "consented"
  BY DEF Goes, RoomGoes
<1> SUFFICES ASSUME p \in Conducting' PROVE p \in Conducting
  BY DEF RequiredOf
<1>2. CASE seats # {}
  BY <1>1, <1>2, ConductsAre, ConductsNext
<1>3. CASE seats = {} /\ admitted # {}
  BY <1>1, <1>3, ConductsAre, ConductsNext
<1>4. CASE seats = {} /\ admitted = {}
  <2>1. p \in Staff
    BY <1>1, <1>4, ConductsNext DEF HasRow
  <2> QED BY <1>4, <2>1, ConductsAre DEF HasRow
<1> QED BY <1>2, <1>3, <1>4

NoneOpens ==
    \A q \in Requests : (At(q, "settling") /\ req[q].want = "CONSENTED")' =>
                         At(q, "settling") /\ req[q].want = "CONSENTED"
NoneStores == \A q \in Requests : At(q, "storing")' => At(q, "storing")

LEMMA NoOpening ==
  ASSUME IInv, Goes, NoneOpens, Opening', obs.status # "MISSING"
  PROVE  Opening
BY DEF Goes, ObsGoes, NoneOpens, Opening

(* A step that records no "no", and after which nobody opens the room or   *)
(* stores who did not before.                                              *)
LEMMA NosStay ==
  ASSUME IInv, TypeOK', Goes, NoneOpens, NoneStores,
         \A p \in People : said'[p] = "declined" => said[p] = "declined",
         during' = during \/ ~Locked'
  PROVE  NosOK'
<1>1. ASSUME NEW p \in People, No(p)' PROVE No(p) /\ obs.status # "MISSING"
  <2>1. said[p] = "declined" /\ p \in RequiredOf
    BY <1>1, NoWasRequired DEF No, IInv
  <2> QED BY <2>1 DEF No, IInv, RowsOK
<1>2. ASSUME NEW p \in People, No(p)', obs'.status \in OPEN \/ Opening'
      PROVE  p \in unseen'
  <2>1. obs.status \in OPEN \/ Opening
    BY <1>1, <1>2, NoOpening DEF Goes, ObsGoes
  <2>2. p \in unseen
    BY <1>1, <1>2, <2>1 DEF IInv, NosOK
  <2> QED BY <1>2, <2>2 DEF Goes, HistoryGoes, OPEN, Opening
<1>3. ASSUME NEW p \in People, No(p)', Locked'
      PROVE  p \in during'
  <2>1. Locked
    BY <1>3 DEF Locked, NoneStores
  <2> QED BY <1>1, <1>3, <2>1 DEF IInv, NosOK
<1> QED BY <1>2, <1>3 DEF NosOK

(* Only settling on agreement opens, only a check that passed stores.      *)
LEMMA RequestBegins ==
  ASSUME IInv, NEW r \in Requests, RequestStep(r)
  PROVE  /\ SettleReads(r) \/ NoneOpens
         /\ Checks(r) \/ NoneStores
<1>1. \A s \in Requests \ {r} : req'[s] = req[s]
  BY RequestTurns DEF Turned
<1>2. \A q : Goto(r, q) => req'[r] = q
  BY Went DEF IInv
<1>3. End(r) => req'[r] = Idle
  BY Ended DEF IInv
<1>4. ASSUME req' = req \/ req'[r].at \notin {"settling", "storing"}
      PROVE  NoneOpens /\ NoneStores
  BY <1>1, <1>4 DEF NoneOpens, NoneStores, At
<1>5. ASSUME NEW q, Goto(r, q), q.at \notin {"settling", "storing"}
      PROVE  NoneOpens /\ NoneStores
  BY <1>2, <1>4, <1>5
<1>6. ASSUME End(r) PROVE NoneOpens /\ NoneStores
  BY <1>3, <1>4, <1>6 DEF Idle
<1>7. CASE SettleReads(r)
  <2> DEFINE q == [at |-> "settling", want |-> Wanted]
  <2>1. Goto(r, q) \/ End(r)
    BY <1>7 DEF SettleReads
  <2>2. ASSUME Goto(r, q) PROVE NoneStores
    BY <1>1, <1>2, <2>2 DEF NoneStores, At
  <2> QED BY <1>6, <1>7, <2>1, <2>2
<1>8. CASE Checks(r)
  <2>1. Goto(r, [at |-> "storing"]) \/ End(r)
    BY <1>8 DEF Checks
  <2>2. ASSUME Goto(r, [at |-> "storing"]) PROVE NoneOpens
    BY <1>1, <1>2, <2>2 DEF NoneOpens, At
  <2> QED BY <1>6, <1>8, <2>1, <2>2
<1>9. ASSUME NEW p \in People, Consents(r, p) PROVE NoneOpens /\ NoneStores
  <2>1. req' = req \/ Goto(r, [at |-> "settle"])
    BY <1>9 DEF Consents
  <2> QED BY <1>4, <1>5, <2>1
<1>10. ASSUME NEW p \in People, Declines(r, p) PROVE NoneOpens /\ NoneStores
  <2>1. Goto(r, Declining(p)) /\ Declining(p).at = "declining"
    BY <1>10 DEF Declines, Declining
  <2> QED BY <1>5, <2>1
<1>11. CASE SaysNo(r)
  <2>1. Goto(r, [at |-> "settle"])
    BY <1>11 DEF SaysNo
  <2> QED BY <1>5, <2>1
<1>12. CASE SettleWrites(r) \/ Starts(r) \/ Stores(r) \/ Extracts(r) \/ Restarts(r)
  <2>1. End(r)
    BY <1>12 DEF SettleWrites, Starts, Stores, Extracts, Restarts
  <2> QED BY <1>6, <2>1
<1>13. ASSUME NEW p \in Staff, Joins(r, p) PROVE NoneOpens /\ NoneStores
  <2>1. Goto(r, [at |-> "join", who |-> p])
    BY <1>13 DEF Joins
  <2> QED BY <1>5, <2>1
<1>14. ASSUME NEW p \in Staff, Captures(r, p) PROVE NoneOpens /\ NoneStores
  <2>1. Goto(r, [at |-> "chunk", who |-> p])
    BY <1>14 DEF Captures
  <2> QED BY <1>5, <2>1
<1>15. CASE Admits(r)
  <2>1. Goto(r, [at |-> "entering"])
    BY <1>15 DEF Admits
  <2> QED BY <1>5, <2>1
<1>16. CASE Completes(r)
  <2>1. req' = req \/ Goto(r, [at |-> "ending"])
    BY <1>16 DEF Completes
  <2> QED BY <1>4, <1>5, <2>1
<1>17. CASE EndReads(r)
  <2>1. \E e, o, m : Goto(r, [at |-> "end", ended |-> e, oneSided |-> o, may |-> m])
    BY <1>17 DEF EndReads
  <2>2. PICK e, o, m : Goto(r, [at |-> "end", ended |-> e, oneSided |-> o, may |-> m])
    BY <2>1
  <2> QED BY <1>5, <2>2
<1>18. CASE EndWrites(r) \/ Retries(r)
  <2>1. req' = req \/ Goto(r, Extracting) \/ End(r)
    BY <1>18 DEF EndWrites, Retries
  <2>2. Extracting.at = "asking"
    BY DEF Extracting
  <2> QED BY <1>4, <1>5, <1>6, <2>1, <2>2
<1> QED BY <1>7, <1>8, <1>9, <1>10, <1>11, <1>12, <1>13, <1>14, <1>15, <1>16, <1>17, <1>18
        DEF RequestStep, Consent, Room, Closing

LEMMA LockStays ==
  ASSUME IInv, NEW r \in Requests, RequestStep(r)
  PROVE  OneLock'
<1>1. CASE NoneStores
  BY <1>1 DEF IInv, OneLock, NoneStores, At
<1>2. CASE Checks(r) /\ ~MayStore(req[r].who)
  <2>1. \A s \in Requests : req'[s] = IF s = r THEN Idle ELSE req[s]
    BY <1>2, Ended DEF Checks, IInv
  <2> QED BY <2>1 DEF IInv, OneLock, At, Idle
<1>3. CASE Checks(r) /\ MayStore(req[r].who)
  <2>1. ~Locked
    BY <1>3 DEF Checks, MayStore, Free
  <2>2. \A s \in Requests \ {r} : req'[s] = req[s]
    BY RequestTurns DEF Turned
  <2> QED BY <2>1, <2>2 DEF OneLock, Locked, At
<1> QED BY <1>1, <1>2, <1>3, RequestBegins

(* The "no" itself: it is noted where the room has been opened meanwhile,  *)
(* and where a capture is storing.                                         *)
LEMMA SaysNoNos ==
  ASSUME IInv, TypeOK', NEW r \in Requests, SaysNo(r)
  PROVE  NosOK'
<1> DEFINE w == req[r].who
<1>1. /\ w \in People /\ said[w] # "absent" /\ (req[r].open => Over) /\ req[r].open \in BOOLEAN
  BY DEF SaysNo, IInv, TypeOK, Bounded, At, RequestOK
<1>2. /\ said' = [said EXCEPT ![w] = "declined"] /\ said \in [People -> Answers]
      /\ UNCHANGED <<seats, obs, admitted>>
  BY ObsIs DEF SaysNo, IInv
<1>3. \A x \in People : x # w => said'[x] = said[x]
  BY <1>2
<1>4. said'[w] = "declined"
  BY <1>1, <1>2
<1>5. RequiredOf' = RequiredOf
  <2>1. Interviewers' = Interviewers
    BY <1>1, <1>2, <1>3, <1>4, PeopleAre DEF Interviewers, Party
  <2> QED BY <1>2, <2>1 DEF RequiredOf, Conducting
<1>6. NoneOpens /\ NoneStores
  BY RequestBegins DEF RequestStep, Consent, SaysNo, SettleReads, Checks, At
<1>7. (Opening' => Opening) /\ (Locked' => Locked)
  BY <1>2, <1>6 DEF Opening, Locked, NoneOpens, NoneStores
<1>8. ASSUME NEW p \in People, No(p)', p # w PROVE No(p)
  BY <1>3, <1>5, <1>8 DEF No
<1>9. Locked => obs.status = "LISTENING"
  BY DEF IInv, RequestOK, Locked
<1>10. /\ obs.status \in OPEN \/ Opening => ~Over
       /\ Locked => ~Over
  BY <1>9 DEF OPEN, Opening, Over
<1>11. /\ unseen' = IF obs.status \in OPEN \/ Opening
                    THEN unseen \cup (IF req[r].open THEN {} ELSE RequiredOf \cap {w}) ELSE unseen
       /\ during' = IF Locked
                    THEN during \cup (IF req[r].open THEN {} ELSE RequiredOf \cap {w}) ELSE during
  BY DEF SaysNo
<1> HIDE DEF w
<1>12. ASSUME NEW p \in People, No(p)', obs'.status \in OPEN \/ Opening'
       PROVE  p \in unseen'
  <2>1. (obs.status \in OPEN \/ Opening) /\ ~req[r].open
    BY <1>1, <1>2, <1>7, <1>10, <1>12
  <2>2. CASE p = w
    BY <1>5, <1>11, <1>12, <2>1, <2>2 DEF No
  <2>3. CASE p # w
    BY <1>8, <1>11, <1>12, <2>1, <2>3 DEF IInv, NosOK
  <2> QED BY <2>2, <2>3
<1>13. ASSUME NEW p \in People, No(p)', Locked'
       PROVE  p \in during'
  <2>1. Locked /\ ~req[r].open
    BY <1>1, <1>7, <1>10, <1>13
  <2>2. CASE p = w
    BY <1>5, <1>11, <1>13, <2>1, <2>2 DEF No
  <2>3. CASE p # w
    BY <1>8, <1>11, <1>13, <2>1, <2>3 DEF IInv, NosOK
  <2> QED BY <2>2, <2>3
<1> QED BY <1>12, <1>13 DEF NosOK

(* Whoever settles on agreement read no "no" of anyone the room needs.     *)
LEMMA SettleReadsNos ==
  ASSUME IInv, NEW r \in Requests, SettleReads(r)
  PROVE  NosOK'
<1>1. UNCHANGED <<seats, obs, said, admitted, unseen, during>>
  BY DEF SettleReads, history
<1>2. \A p \in People : No(p)' <=> No(p)
  BY <1>1 DEF No, RequiredOf, Conducting, Interviewers, Party
<1>3. NoneStores /\ \A s \in Requests \ {r} : req'[s] = req[s]
  BY RequestBegins, RequestTurns DEF RequestStep, Consent, SettleReads, Checks, At, Turned
<1>4. Locked' => Locked
  BY <1>3 DEF Locked, NoneStores
<1>5. ASSUME Opening', ~Opening, NEW p \in People, No(p) PROVE FALSE
  <2>1. PICK q \in Requests : req'[q].at = "settling" /\ req'[q].want = "CONSENTED"
    BY <1>5 DEF Opening, At
  <2>2. q = r
    BY <1>1, <1>3, <1>5, <2>1 DEF Opening, At
  <2>3. Goto(r, [at |-> "settling", want |-> Wanted]) \/ End(r)
    BY DEF SettleReads
  <2>4. req'[r] = [at |-> "settling", want |-> Wanted] \/ req'[r] = Idle
    BY <2>3, Went, Ended DEF IInv
  <2>5. Wanted = "CONSENTED"
    BY <2>1, <2>2, <2>4 DEF Idle
  <2>6. CaptureConsented
    BY <2>5 DEF Wanted
  <2> QED BY <1>5, <2>6 DEF CaptureConsented, No
<1> QED BY <1>1, <1>2, <1>4, <1>5 DEF IInv, NosOK

(* Nor did whoever begins to store.                                        *)
LEMMA ChecksNos ==
  ASSUME IInv, NEW r \in Requests, Checks(r)
  PROVE  NosOK'
<1>1. UNCHANGED <<seats, obs, said, admitted, unseen, during>>
  BY DEF Checks, history
<1>2. \A p \in People : No(p)' <=> No(p)
  BY <1>1 DEF No, RequiredOf, Conducting, Interviewers, Party
<1>3. NoneOpens /\ \A s \in Requests \ {r} : req'[s] = req[s]
  BY RequestBegins, RequestTurns DEF RequestStep, Room, SettleReads, Checks, At, Turned
<1>4. Opening' => Opening
  BY <1>1, <1>3 DEF Opening, NoneOpens
<1>5. CASE MayStore(req[r].who)
  <2>1. ASSUME NEW p \in People, No(p) PROVE FALSE
    <3>1. said[p] = "declined" /\ p \in RequiredOf
      BY <2>1 DEF No
    <3>2. p = Candidate \/ p \in seats \/ (seats = {} /\ p \in Staff)
      BY <3>1, ConductsAre, PeopleAre DEF RequiredOf, IInv, TypeOK, HasRow
    <3>3. Party(p) \in REQUIRED_PARTIES
      BY <3>2 DEF Party, REQUIRED_PARTIES
    <3>4. p \in Outstanding
      BY <2>1, <3>1, <3>3 DEF Outstanding
    <3> QED BY <1>5, <3>4 DEF MayStore
  <2> QED BY <1>2, <2>1 DEF NosOK
<1>6. CASE ~MayStore(req[r].who)
  <2>1. req'[r] = Idle
    BY <1>6, Ended DEF Checks, IInv
  <2>2. Locked' => Locked
    BY <1>3, <2>1 DEF Locked, At, Idle
  <2> QED BY <1>1, <1>2, <1>4, <2>2 DEF IInv, NosOK
<1> QED BY <1>5, <1>6

LEMMA RequestNos ==
  ASSUME IInv, TypeOK', NEW r \in Requests, RequestStep(r)
  PROVE  NosOK'
<1>0. Goes
  BY RequestGoes
<1>1. ASSUME ~SaysNo(r), ~SettleReads(r), ~Checks(r)
      PROVE  NosOK'
  <2>1. NoneOpens /\ NoneStores
    BY <1>1, RequestBegins
  <2>2. \A p \in People : said'[p] = "declined" => said[p] = "declined"
    <3>1. ASSUME NEW p \in People, Consents(r, p) PROVE \A x \in People : said'[x] = "declined" => said[x] = "declined"
      <4>1. Known(p) \in [People -> Answers]
            /\ \A x \in People : Known(p)[x] = "declined" => said[x] = "declined"
        BY KnownIs DEF IInv
      <4> QED BY <3>1, <4>1 DEF Consents
    <3>2. ASSUME NEW p \in People, Declines(r, p) PROVE \A x \in People : said'[x] = "declined" => said[x] = "declined"
      BY <3>2, KnownIs DEF Declines, IInv
    <3>3. UNCHANGED said \/ \E p \in People : Consents(r, p) \/ Declines(r, p)
      BY <1>1 DEF RequestStep, Consent, Room, Closing, SettleWrites, Joins, Captures, Admits, Starts,
         Stores, Completes, EndReads, EndWrites, Retries, Extracts, Restarts
    <3> QED BY <3>1, <3>2, <3>3
  <2>3. during' = during \/ ~Locked'
    <3>1. CASE At(r, "storing") /\ req'[r] = Idle
      <4>1. \A s \in Requests : ~At(s, "storing")'
        BY <2>1, <3>1 DEF NoneStores, At, Idle, IInv, OneLock
      <4> QED BY <4>1 DEF Locked
    <3>2. CASE ~(At(r, "storing") /\ req'[r] = Idle)
      <4>1. End(r) => req'[r] = Idle
        BY Ended DEF IInv
      <4> QED BY <1>1, <3>2, <4>1 DEF RequestStep, Consent, Room, Closing, Consents, Declines, SettleWrites,
             Joins, Captures, Admits, Starts, Stores, Completes, EndReads, EndWrites, Retries, Extracts,
             Restarts, history
    <3> QED BY <3>1, <3>2
  <2> QED BY <1>0, <2>1, <2>2, <2>3, NosStay
<1> QED BY <1>1, SaysNoNos, SettleReadsNos, ChecksNos

LEMMA NextNos ==
  ASSUME IInv, TypeOK', Next
  PROVE  NosOK' /\ OneLock'
<1>1. ASSUME NEW p \in People, Opens(p) \/ Stops(p), UNCHANGED req, Goes
      PROVE  NosOK' /\ OneLock'
  <2>1. \A x \in People : said'[x] = "declined" => said[x] = "declined"
    <3>1. Opens(p) => said' = Known(p)
      BY DEF Opens
    <3>2. Stops(p) => said' = said \/ said' = Asked(seats)
      BY DEF Stops
    <3>3. \A x \in People : Known(p)[x] = "declined" => said[x] = "declined"
      BY KnownIs DEF IInv
    <3> QED BY <1>1, <3>1, <3>2, <3>3 DEF Asked
  <2>2. NoneOpens /\ NoneStores /\ during' = during
    BY <1>1 DEF NoneOpens, NoneStores, At, Opens, Stops, history
  <2>3. OneLock'
    BY <1>1 DEF IInv, OneLock, At
  <2> QED BY <1>1, <2>1, <2>2, <2>3, NosStay
<1>2. CASE Ages
  <2>1. Goes /\ NoneOpens /\ NoneStores /\ during' = during /\ UNCHANGED <<said, req>>
    BY <1>2, AgesGoes DEF Ages, NoneOpens, NoneStores, At, history
  <2>2. OneLock'
    BY <2>1 DEF IInv, OneLock, At
  <2> QED BY <2>1, <2>2, NosStay
<1>3. ASSUME NEW r \in Requests, RequestStep(r) PROVE NosOK' /\ OneLock'
  BY <1>3, RequestNos, LockStays
<1>4. ASSUME NEW p \in Staff, Opens(p) PROVE NosOK' /\ OneLock'
  BY <1>1, <1>4, OpensGoes, PeopleAre DEF Opens
<1>5. ASSUME NEW p \in People, Stops(p) PROVE NosOK' /\ OneLock'
  BY <1>1, <1>5, StopsGoes DEF Stops
<1> QED BY <1>2, <1>3, <1>4, <1>5 DEF Next, Polls, RequestStep

----
(* The induction.                                                          *)

LEMMA NextGoes ==
  ASSUME IInv, Next
  PROVE  Goes
BY RequestGoes, OpensGoes, StopsGoes, AgesGoes DEF Next, Polls, RequestStep

LEMMA NextTypeOK ==
  ASSUME IInv, Next
  PROVE  TypeOK' /\ SlotsOK' /\ CapturesFit' /\ \A r \in Requests : RequestOK(r)'
<1>1. Goes /\ TablesOK'
  BY NextGoes, TablesStay DEF IInv
<1>2. ASSUME NEW r \in Requests, RequestStep(r)
      PROVE  /\ SlotsOK' /\ CapturesFit' /\ \A s \in Requests : RequestOK(s)'
             /\ \A s \in Requests : Bounded(req'[s])
  BY <1>1, <1>2, RequestTurns, OthersStay DEF Turned
<1>3. ASSUME UNCHANGED <<req, segs>>
      PROVE  /\ SlotsOK' /\ CapturesFit' /\ \A s \in Requests : RequestOK(s)'
             /\ \A s \in Requests : Bounded(req'[s])
  <2>1. SlotsOK' /\ \A s \in Requests : Bounded(req'[s])
    BY <1>3 DEF IInv, SlotsOK, TypeOK
  <2>2. Capturing' = Capturing
    BY <1>3 DEF Capturing, At
  <2>3. CapturesFit'
    BY <1>3, <2>2 DEF IInv, CapturesFit
  <2> QED BY <1>1, <1>3, <2>1, <2>3, RequestStays
<1>4. /\ SlotsOK' /\ CapturesFit' /\ \A s \in Requests : RequestOK(s)'
      /\ \A s \in Requests : Bounded(req'[s])
  BY <1>2, <1>3 DEF Next, Polls, RequestStep, Opens, Stops, Ages
<1> QED BY <1>1, <1>4, TypeIs

LEMMA NextKeepsStep ==
  ASSUME IInv, Next
  PROVE  StatusKeepsStep'
<1>0. TypeOK'
  BY NextTypeOK
<1>1. SUFFICES ASSUME Quiet' PROVE SettledStatus'
  BY KeepsStepIs
<1>2. ASSUME NEW p \in People, Stops(p) PROVE SettledStatus'
  BY <1>2, StopsGoes DEF SettledStatus
<1>3. CASE Ages
  BY <1>3, AgesGoes DEF SettledStatus
<1> QED BY <1>0, <1>1, <1>2, <1>3, RequestSettles, OpensSettles DEF Next, Polls, RequestStep

LEMMA IInvNext ==
  ASSUME IInv, Next
  PROVE  IInv'
<1>1. RowsOK' /\ OpenOK' /\ NosOK' /\ OneLock'
  BY NextGoes, NextTypeOK, TableInvariantsStay, NextNos
<1>2. QuotesOfWholeRecord' /\ NoQuotesOfWithdrawn'
  BY NextGoes, QuotesStay, QuotesAreExtracted
<1> QED BY <1>1, <1>2, NextTypeOK, NextKeepsStep DEF IInv

LEMMA IInvInit ==
  ASSUME Init
  PROVE  IInv
<1>1. /\ \A r \in Requests : req[r] = Idle
      /\ req = [r \in Requests |-> Idle]
  BY DEF Init
<1>2. SlotsOK
  BY <1>1 DEF SlotsOK
<1>3. (\A r \in Requests : Bounded(req[r]) /\ RequestOK(r))
  BY <1>1 DEF Idle, Bounded, RequestOK, At
<1>4. /\ obs \in Observations /\ obs.status \in {"MISSING", "AWAITING_CONSENT"}
      /\ obs.quotes = "PENDING" /\ ~obs.oneSided
  <2>1. Missing \in Observations /\ Missing.status = "MISSING" /\ Missing.quotes = "PENDING"
        /\ ~Missing.oneSided
    BY SegmentsAssumption DEF Missing, Observations, Statuses
  <2>2. \A o \in Observations : [o EXCEPT !.status = "AWAITING_CONSENT"] \in Observations
    BY DEF Observations, Statuses
  <2>3. Booked \in Observations /\ Booked.status = "AWAITING_CONSENT" /\ Booked.quotes = "PENDING"
        /\ ~Booked.oneSided
    BY <2>1, <2>2 DEF Booked, Observations
  <2> QED BY <2>1, <2>3 DEF Init
<1>5. /\ said \in [People -> Answers] /\ (said[Candidate] = "absent" <=> obs.status = "MISSING")
      /\ \A p \in People : said[p] \in {"absent", "pending"}
      /\ (said[Candidate] \in {"absent", "pending"})
      /\ obs.status = "MISSING" => \A p \in People : said[p] = "absent"
  BY PeopleAre DEF Init, Asked, Answers, Booked, Missing
<1>6. /\ segs \in Seq({"SPEECH", "GAP"}) /\ Len(segs) = 0 /\ admitted = {} /\ seats \in Panels
      /\ round = "SCHEDULED" /\ unseen = {} /\ during = {} /\ overtaken \in BOOLEAN
  <2>1. segs = <<>> /\ seats \in Panels /\ admitted = {} /\ unseen = {} /\ during = {}
    BY DEF Init
  <2>2. segs \in Seq({"SPEECH", "GAP"}) /\ Len(segs) = 0
    BY <2>1
  <2>3. overtaken \in BOOLEAN /\ round = "SCHEDULED"
    BY DEF Init
  <2> QED BY <2>1, <2>2, <2>3
<1>7. TablesOK
  <2>1. Len(segs) <= MaxSegments /\ unseen \in SUBSET People /\ during \in SUBSET People /\ admitted \in SUBSET Staff
    BY <1>6, SegmentsAssumption
  <2>2. \A p \in admitted : said[p] # "absent"
    BY <1>6
  <2>3. obs.status # "ENDED" => obs.quotes = "PENDING" /\ ~obs.oneSided
    BY <1>4
  <2> QED BY <1>4, <1>5, <1>6, <2>1, <2>2, <2>3, Zenon DEF TablesOK
<1>8. TypeOK
  BY <1>3, <1>7, TypeIs
<1>9. CapturesFit
  <2>1. Capturing = {}
    BY <1>1 DEF Capturing, At, Idle
  <2> QED BY <1>6, <2>1, FS_EmptySet, SegmentsAssumption DEF CapturesFit
<1>10. RowsOK /\ OpenOK
  BY <1>4, <1>5, <1>6 DEF RowsOK, OpenOK
<1>13. NosOK /\ OneLock
  BY <1>1, <1>5 DEF NosOK, OneLock, No, At, Idle
<1>11. QuotesOfWholeRecord /\ NoQuotesOfWithdrawn
  BY <1>4 DEF QuotesOfWholeRecord, NoQuotesOfWithdrawn
<1>12. StatusKeepsStep
  <2>1. RequiredOf \subseteq People /\ Candidate \in RequiredOf
    BY <1>8, RequiredArePeople
  <2>2. ~BlockingDecline /\ ~CaptureConsented
    BY <1>5, <2>1 DEF BlockingDecline, CaptureConsented
  <2> QED BY <2>2 DEF StatusKeepsStep
<1> QED BY <1>2, <1>3, <1>8, <1>9, <1>10, <1>11, <1>12, <1>13 DEF IInv

(* The inductive invariant holds of every behaviour.                       *)
THEOREM Invariant == Spec => []IInv
<1>1. Init => IInv
  BY IInvInit
<1>2. IInv /\ [Next]_vars => IInv'
  <2> SUFFICES ASSUME IInv, [Next]_vars PROVE IInv'
    OBVIOUS
  <2>1. CASE Next
    BY <2>1, IInvNext
  <2>2. CASE UNCHANGED vars
    <3>1. TypeOK' /\ SlotsOK' /\ CapturesFit'
      BY <2>2 DEF vars, history, IInv, TypeOK, Bounded, SlotsOK, CapturesFit, Capturing, At
    <3>2. RowsOK' /\ NosOK' /\ OneLock'
      BY <2>2 DEF vars, history, IInv, RowsOK, Answered, NosOK, No, OneLock, Opening, Locked, At, RequiredOf,
         Conducting, Interviewers, Party
    <3>3. OpenOK' /\ \A r \in Requests : RequestOK(r)'
      BY <2>2 DEF vars, history, IInv, OpenOK, RequestOK, AskedForHaveAnswered, AColleagueDeclined,
         Answered, Over, MayStill, At
    <3>4. QuotesOfWholeRecord' /\ NoQuotesOfWithdrawn' /\ StatusKeepsStep'
      BY <2>2 DEF vars, history, IInv, QuotesOfWholeRecord, NoQuotesOfWithdrawn, StatusKeepsStep,
         BlockingDecline, CaptureConsented, RequiredOf, Conducting, Interviewers, Party
    <3> QED BY <3>1, <3>2, <3>3, <3>4 DEF IInv
  <2> QED BY <2>1, <2>2
<1> QED BY <1>1, <1>2, PTL DEF Spec

(* Every variable keeps its type: the candidate has a row exactly as long  *)
(* as there is an observation, and nothing is quoted before the end        *)
(* (roundObserver.ts ensureObservation, endObservation).                   *)
THEOREM TypeCorrect == Spec => []TypeOK
<1>1. IInv => TypeOK
  BY DEF IInv
<1> QED BY <1>1, Invariant, PTL

LEMMA IInvListens == IInv => ListeningMeansAgreed
<1> SUFFICES ASSUME IInv, obs.status = "LISTENING", NEW p \in RequiredOf
             PROVE  \/ said[p] = "consented"
                    \/ said[p] = "declined" /\ p \in unseen
                    \/ said[p] = "pending" /\ seats = {} /\ admitted = {} /\ unseen # {}
  BY DEF ListeningMeansAgreed
<1>1. TypeOK /\ p \in People
  BY RequiredArePeople DEF IInv
<1>2. said[p] = "declined" => p \in unseen
  BY <1>1 DEF IInv, NosOK, No, OPEN
<1>3. CASE p \in seats \cup {Candidate}
  <2>1. Answered(p)
    BY <1>3 DEF IInv, OpenOK, AskedForHaveAnswered
  <2> QED BY <1>2, <2>1 DEF Answered
<1>4. CASE p \notin seats \cup {Candidate}
  <2>1. p \in Conducting /\ seats = {}
    BY <1>1, <1>4, ConductsAre DEF RequiredOf
  <2>2. CASE admitted # {}
    BY <1>1, <1>2, <2>1, <2>2, ConductsAre DEF IInv, RowsOK, Answered
  <2>3. CASE admitted = {}
    <3>1. said[p] \in Answers /\ said[p] # "absent"
      BY <1>1, <2>1, <2>3, ConductsAre, ObsIs DEF HasRow
    <3>2. PICK x \in Staff : said[x] = "declined"
      BY <2>3 DEF IInv, OpenOK, AColleagueDeclined
    <3>3. x \in People /\ No(x)
      BY <1>1, <2>1, <2>3, <3>2, ConductsAre, PeopleAre DEF HasRow, No, RequiredOf
    <3>4. unseen # {}
      BY <3>3 DEF IInv, NosOK, OPEN
    <3> QED BY <1>2, <2>1, <2>3, <3>1, <3>4 DEF Answers
  <2> QED BY <2>2, <2>3
<1> QED BY <1>3, <1>4

(* While the room listens, whoever the recording needs has agreed, or has  *)
(* said a "no" that looked for an open room before there was one and was   *)
(* recorded after; and where that left a round without seats with nobody   *)
(* let in, whoever opened its page is counted (enterRoom, declineEntry).   *)
THEOREM ListensAgreed == Spec => []ListeningMeansAgreed
BY IInvListens, Invariant, PTL

(* Once nobody is between answering and settling the status says what the  *)
(* rows say, however the answers crossed (settleStatus).                   *)
THEOREM KeepsStep == Spec => []StatusKeepsStep
<1>1. IInv => StatusKeepsStep
  BY DEF IInv
<1> QED BY <1>1, Invariant, PTL

(* READY quotes come from the whole record (observerQuotes.ts).            *)
THEOREM QuotesWhole == Spec => []QuotesOfWholeRecord
<1>1. IInv => QuotesOfWholeRecord
  BY DEF IInv
<1> QED BY <1>1, Invariant, PTL

(* What is quoted is not one-sided, and was not withdrawn unless between   *)
(* the read and the write of the end itself (endObservation,               *)
(* mayExtractQuotes).                                                      *)
THEOREM WithdrawnUnquoted == Spec => []NoQuotesOfWithdrawn
<1>1. IInv => NoQuotesOfWithdrawn
  BY DEF IInv
<1> QED BY <1>1, Invariant, PTL

LEMMA StepUnderNoNo ==
  ASSUME IInv, [Next]_vars, segs' # segs, NEW p \in RequiredOf, said[p] = "declined"
  PROVE  p \in during
<1>1. Next
  BY DEF vars
<1>2. Locked
  BY <1>1 DEF Next, Polls, Opens, Stops, Ages, Consent, Room, Closing, Consents, Declines, SaysNo,
     SettleReads, SettleWrites, Joins, Captures, Admits, Starts, Checks, Stores, Completes, EndReads,
     EndWrites, Retries, Extracts, Restarts, Locked
<1>3. p \in People
  BY RequiredArePeople DEF IInv
<1> QED BY <1>2, <1>3 DEF IInv, NosOK, No

(* What is stored over a recorded "no" of anyone the recording needs is    *)
(* the one segment whose transaction the "no" fell into, having found no   *)
(* open room to close (declineEntry, appendSegment).                       *)
THEOREM NoStoredNo == Spec => NothingUnderANo
<1>1. IInv /\ [Next]_vars =>
        [segs' # segs => \A p \in RequiredOf : said[p] = "declined" => p \in during]_vars
  BY StepUnderNoNo
<1> QED BY <1>1, Invariant, PTL DEF Spec, NothingUnderANo

LEMMA StepClosed ==
  ASSUME IInv, [Next]_vars
  PROVE  [/\ segs' # segs => obs.status = "LISTENING" /\ Len(segs') = Len(segs) + 1
          /\ obs.status \in {"ENDED", "DECLINED"} => obs'.status = obs.status
          /\ obs.status = "STOPPED" => obs'.status \in {"STOPPED", "ENDED"}
          /\ obs.quotes = "READY" => obs'.quotes = "READY" /\ obs'.quoted = obs.quoted]_vars
<1>1. CASE Next
  <2>1. Goes /\ RecordGoes /\ TypeOK
    BY <1>1, NextGoes DEF Goes, IInv
  <2>2. segs' # segs => obs.status = "LISTENING" /\ Len(segs') = Len(segs) + 1
    BY <2>1, RecordIs
  <2> QED BY <2>1, <2>2 DEF Goes, ObsGoes
<1>2. CASE UNCHANGED vars
  BY <1>2
<1> QED BY <1>1, <1>2

(* A room that was stopped, declined or ended captures nothing more and    *)
(* does not open again; READY quotes are never rewritten.                  *)
THEOREM StaysClosed == Spec => ClosedForGood
<1>1. IInv /\ [Next]_vars =>
        [/\ segs' # segs => obs.status = "LISTENING" /\ Len(segs') = Len(segs) + 1
         /\ obs.status \in {"ENDED", "DECLINED"} => obs'.status = obs.status
         /\ obs.status = "STOPPED" => obs'.status \in {"STOPPED", "ENDED"}
         /\ obs.quotes = "READY" => obs'.quotes = "READY" /\ obs'.quoted = obs.quoted]_vars
  BY StepClosed
<1> QED BY <1>1, Invariant, PTL DEF Spec, ClosedForGood
====
