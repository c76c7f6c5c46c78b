---- MODULE InterviewTurnsProofs ----
(***************************************************************************)
(* What any number of concurrent requests leave of the transcript: who     *)
(* speaks when, what an answer is credited to, and how long it gets.       *)
(***************************************************************************)
EXTENDS InterviewEngineProofs, FiniteSetTheorems, WellFoundedInduction

----
(* The inductive invariants.                                               *)

(* A reply may be produced to the first n turns: nothing has been said, or *)
(* it was the candidate who spoke last.                                    *)
ReplyDue(n) == n <= Len(turns) /\ (n > 0 => turns[n].by = "candidate")

(* The engine conducts one sitting: nothing is said before the interview   *)
(* opens, no earlier sitting is closed, and the speakers alternate.        *)
OneSitting ==
    /\ state \in StartableStates => turns = <<>>
    /\ \A p \in DOMAIN turns : ~turns[p].closed
    /\ \A p \in 2..Len(turns) : turns[p].by = turns[p - 1].by => turns[p].kind = "leave"

(* A request only produces a reply where one is due.                       *)
SpeakerOK(r) ==
    /\ pc[r] \in {"resume", "claim"} => saw[r].tail <= Len(turns)
    /\ pc[r] = "joinCurrent" => saw[r].need <= Len(turns)
    /\ pc[r] = "produce" => ReplyDue(saw[r].need)
    /\ pc[r] = "say" => ReplyDue(saw[r].tail)

(* The question an answer names is one that was asked, no later than the   *)
(* one its competency was read from.                                       *)
AskedOK(r) ==
    /\ pc[r] \in {"load", "read", "record"} => saw[r].asked \in AgentPositions(turns) \cup {0}
    /\ pc[r] = "record" => saw[r].asked <= saw[r].slot /\ saw[r].slot <= NewestAgent(turns)

(* The requests admitted to add an answer, and those that may yet add a    *)
(* turn at all.                                                            *)
Recording == {r \in Reqs : pc[r] = "record"}
Replying == {r \in Reqs : pc[r] \in {"record", "produce", "say"}}

(* The turns on record and those that may still come.  Until the           *)
(* interviewer has spoken each request in flight adds one at most.         *)
RoomInv ==
    /\ AgentPositions(turns) = {} =>
         Len(turns) + Cardinality(Recording) < MaxTurns + Cardinality(Reqs)
    /\ AgentPositions(turns) # {} =>
         Len(turns) + Cardinality(Recording) + Cardinality(Replying)
           < MaxTurns + 2 * Cardinality(Reqs)

TurnsInv ==
    /\ OneSitting /\ CreditedToQuestionOnScreen /\ RoomInv
    /\ \A r \in Reqs : SpeakerOK(r) /\ AskedOK(r)

----
(* Lemmas about positions.                                                 *)

(* A bounded set of positions has a last one, and a first.                 *)
LEMMA LeastIs ==
  ASSUME NEW S \in SUBSET Nat, S # {}
  PROVE  \E i \in S : \A j \in S : i <= j
<1>1. IsWellFoundedOn(OpToRel(<, Nat), Nat)
  BY NatLessThanWellFounded
<1>2. PICK i \in S : \A y \in S : ~(<<y, i>> \in OpToRel(<, Nat))
  BY <1>1, WFMin
<1>3. ASSUME NEW y \in S, y < i PROVE FALSE
  <2>1. <<y, i>> \in Nat \X Nat /\ <<y, i>>[1] = y /\ <<y, i>>[2] = i
    OBVIOUS
  <2>2. <<y, i>> \in OpToRel(<, Nat)
    BY <1>3, <2>1 DEF OpToRel
  <2> QED BY <1>2, <2>2
<1>4. \A y \in S : i <= y
  BY <1>3
<1> QED BY <1>4

LEMMA FirstIs ==
  ASSUME NEW S \in SUBSET Nat, S # {}
  PROVE  FirstAmong(S) \in S
<1>1. \E p \in S : IsFirst(p, S)
  BY LeastIs DEF IsFirst
<1> QED BY <1>1 DEF FirstAmong, IsFirst

LEMMA LastIs ==
  ASSUME NEW n \in Nat, NEW S \in SUBSET (1..n)
  PROVE  /\ S # {} => LastAmong(S) \in S /\ \A q \in S : q <= LastAmong(S)
         /\ S = {} => LastAmong(S) = 0
<1>1. CASE S # {}
  <2> DEFINE back == {k \in 0..n : n - k \in S}
  <2>1. \A q \in S : n - q \in 0..n /\ n - (n - q) = q
    OBVIOUS
  <2>2. \A q \in S : n - q \in back
    BY <2>1
  <2>3. back \in SUBSET Nat
    OBVIOUS
  <2>4. back # {}
    <3>1. PICK q \in S : TRUE
      BY <1>1
    <3>2. n - q \in back
      BY <2>2
    <3> QED BY <3>2
  <2>5. PICK k \in back : \A j \in back : k <= j
    BY <2>3, <2>4, LeastIs
  <2>6. k \in 0..n /\ n - k \in S
    BY <2>5
  <2>7. \A q \in S : k <= n - q
    BY <2>2, <2>5
  <2>8. \A q \in S : q <= n - k
    BY <2>1, <2>6, <2>7
  <2>9. \E p \in S : IsLast(p, S)
    BY <2>6, <2>8 DEF IsLast
  <2>10. LastAmong(S) = CHOOSE p \in S : IsLast(p, S)
    BY <2>9 DEF LastAmong
  <2>11. LastAmong(S) \in S /\ IsLast(LastAmong(S), S)
    BY <2>9, <2>10
  <2> QED BY <1>1, <2>11 DEF IsLast
<1>2. CASE S = {}
  BY <1>2 DEF LastAmong
<1> QED BY <1>1, <1>2

(* The newest agent turn of a transcript.                                  *)
LEMMA NewestIs ==
  ASSUME NEW ts \in Seq(TurnRecords)
  PROVE  /\ AgentPositions(ts) \in SUBSET (1..Len(ts)) /\ NewestAgent(ts) \in Nat
         /\ NewestAgent(ts) <= Len(ts)
         /\ \A p \in AgentPositions(ts) : p <= NewestAgent(ts)
         /\ AgentPositions(ts) = {} => NewestAgent(ts) = 0
         /\ AgentPositions(ts) # {} => NewestAgent(ts) \in AgentPositions(ts)
<1> DEFINE S == AgentPositions(ts)
<1>1. S \in SUBSET (1..Len(ts)) /\ Len(ts) \in Nat
  BY DEF AgentPositions
<1> HIDE DEF S
<1>2. /\ S # {} => LastAmong(S) \in S /\ \A q \in S : q <= LastAmong(S)
      /\ S = {} => LastAmong(S) = 0
  BY <1>1, LastIs
<1>3. NewestAgent(ts) = LastAmong(S)
  BY DEF NewestAgent, S
<1> QED BY <1>1, <1>2, <1>3 DEF S

(* The same at the moment turn p was written.                              *)
LEMMA NewestThen ==
  ASSUME NEW ts \in Seq(TurnRecords), NEW p \in 1..Len(ts)
  PROVE  AgentPositions(SubSeq(ts, 1, p)) = {q \in AgentPositions(ts) : q <= p}
<1>1. Len(SubSeq(ts, 1, p)) = p /\ \A q \in 1..p : SubSeq(ts, 1, p)[q] = ts[q]
  OBVIOUS
<1>2. DOMAIN SubSeq(ts, 1, p) = 1..p /\ DOMAIN ts = 1..Len(ts) /\ Len(ts) \in Nat
  BY <1>1
<1> QED BY <1>1, <1>2 DEF AgentPositions

(* With no sitting closed, every agent turn belongs to this sitting, and   *)
(* one is pending as soon as there is one.                                 *)
LEMMA OneSittingIs ==
  ASSUME NEW ts \in Seq(TurnRecords), \A p \in DOMAIN ts : ~ts[p].closed
  PROVE  /\ SittingAgents(ts) = AgentPositions(ts)
         /\ PendingTurn(ts, TRUE) # 0 <=> AgentPositions(ts) # {}
<1>1. {p \in AgentPositions(ts) : ts[p].kind = "postponed" /\ ts[p].closed} = {}
  BY DEF AgentPositions
<1>2. SittingFrom(ts) = 1
  <2>1. LastAmong({}) = 0
    BY LastIs
  <2>2. SittingFrom(ts) = 0 + 1
    BY <1>1, <2>1, Zenon DEF SittingFrom
  <2> QED BY <2>2
<1>3. SittingAgents(ts) = AgentPositions(ts)
  BY <1>2, NewestIs DEF SittingAgents
<1> QED BY <1>3, NewestIs DEF PendingTurn, NewestAgent

----
(* Lemmas about a transcript that grows.                                   *)

(* No turn recorded is taken back, moved or credited anew.                 *)
Extends(us, ts) ==
    /\ Len(ts) <= Len(us)
    /\ \A p \in 1..Len(ts) :
         us[p].by = ts[p].by /\ us[p].asked = ts[p].asked /\ us[p].slot = ts[p].slot

LEMMA AgentsStay ==
  ASSUME NEW ts \in Seq(TurnRecords), NEW us \in Seq(TurnRecords), Extends(us, ts)
  PROVE  /\ AgentPositions(ts) = {q \in AgentPositions(us) : q <= Len(ts)}
         /\ NewestAgent(ts) <= NewestAgent(us)
<1>1. DOMAIN ts = 1..Len(ts) /\ DOMAIN us = 1..Len(us) /\ Len(ts) \in Nat /\ Len(us) \in Nat
  OBVIOUS
<1>2. AgentPositions(ts) = {q \in AgentPositions(us) : q <= Len(ts)}
  BY <1>1 DEF AgentPositions, Extends
<1>3. NewestAgent(ts) <= NewestAgent(us)
  BY <1>2, NewestIs
<1> QED BY <1>2, <1>3

(* What requests count on survives what other requests write.              *)
LEMMA StillOK ==
  ASSUME Shaped, Shaped', NEW r \in Reqs, SpeakerOK(r), AskedOK(r),
         pc'[r] = pc[r], saw'[r] = saw[r], Extends(turns', turns)
  PROVE  SpeakerOK(r)' /\ AskedOK(r)'
<1>1. turns \in Seq(TurnRecords) /\ turns' \in Seq(TurnRecords) /\ Len(turns) \in Nat /\ Len(turns') \in Nat
  BY DEF Shaped, RowsOK
<1>2. saw[r].tail \in Nat /\ saw[r].need \in Nat /\ saw[r].slot \in Nat /\ saw[r].asked \in Nat
  BY DEF Shaped, RequestsShaped, Reading
<1>3. \A n \in Nat : ReplyDue(n) => n <= Len(turns') /\ (n > 0 => turns'[n].by = "candidate")
  BY <1>1 DEF ReplyDue, Extends
<1>4. Len(turns) <= Len(turns')
  BY DEF Extends
<1>5. SpeakerOK(r)'
  BY <1>1, <1>2, <1>3, <1>4 DEF SpeakerOK, ReplyDue
<1>6. AgentPositions(turns) \subseteq AgentPositions(turns') /\ NewestAgent(turns) <= NewestAgent(turns')
  BY <1>1, AgentsStay
<1>7. NewestAgent(turns) \in Nat /\ NewestAgent(turns') \in Nat
  BY <1>1, NewestIs
<1>8. AskedOK(r)'
  BY <1>2, <1>6, <1>7 DEF AskedOK
<1> QED BY <1>5, <1>8

(* Answers keep their credit, and a new one may name no question but the   *)
(* newest, having read its competency.                                     *)
LEMMA CreditKept ==
  ASSUME Shaped, Shaped', CreditedToQuestionOnScreen, Extends(turns', turns),
         Len(turns') <= Len(turns) + 1,
         \A p \in CandidatePositions(turns') :
           p > Len(turns) /\ turns'[p].asked # 0 =>
             turns'[p].asked = NewestAgent(turns) /\ turns'[p].slot = NewestAgent(turns)
  PROVE  CreditedToQuestionOnScreen'
<1>1. turns \in Seq(TurnRecords) /\ turns' \in Seq(TurnRecords) /\ Len(turns) \in Nat /\ Len(turns') \in Nat
      /\ DOMAIN turns = 1..Len(turns) /\ DOMAIN turns' = 1..Len(turns')
  BY DEF Shaped, RowsOK
<1>2. AgentPositions(turns) = {q \in AgentPositions(turns') : q <= Len(turns)}
  BY <1>1, AgentsStay
<1> SUFFICES ASSUME NEW p \in CandidatePositions(turns'), turns'[p].asked # 0
             PROVE  /\ turns'[p].asked = NewestAgent(SubSeq(turns', 1, p))
                    /\ turns'[p].slot = turns'[p].asked
  BY DEF CreditedToQuestionOnScreen
<1>3. p \in 1..Len(turns') /\ turns'[p].by = "candidate"
  BY <1>1 DEF CandidatePositions
<1>4. AgentPositions(SubSeq(turns', 1, p)) = {q \in AgentPositions(turns') : q <= p}
  BY <1>1, <1>3, NewestThen
<1>5. CASE p <= Len(turns)
  <2>1. p \in 1..Len(turns)
    BY <1>1, <1>3, <1>5
  <2>2. turns[p].by = "candidate" /\ turns'[p].asked = turns[p].asked /\ turns'[p].slot = turns[p].slot
    BY <1>3, <2>1 DEF Extends
  <2>3. p \in CandidatePositions(turns)
    BY <1>1, <2>1, <2>2 DEF CandidatePositions
  <2>4. AgentPositions(SubSeq(turns, 1, p)) = {q \in AgentPositions(turns) : q <= p}
    BY <1>1, <2>1, NewestThen
  <2>5. {q \in AgentPositions(turns') : q <= p} = {q \in AgentPositions(turns) : q <= p}
    BY <1>1, <1>2, <1>5, <2>1 DEF AgentPositions
  <2>6. NewestAgent(SubSeq(turns', 1, p)) = NewestAgent(SubSeq(turns, 1, p))
    BY <1>4, <2>4, <2>5 DEF NewestAgent
  <2> QED BY <2>2, <2>3, <2>6 DEF CreditedToQuestionOnScreen
<1>6. CASE p > Len(turns)
  <2>1. p = Len(turns) + 1
    BY <1>1, <1>3, <1>6
  <2>2. p \notin AgentPositions(turns')
    BY <1>3 DEF AgentPositions
  <2>3. {q \in AgentPositions(turns') : q <= p} = AgentPositions(turns)
    BY <1>1, <1>2, <2>1, <2>2 DEF AgentPositions
  <2>4. NewestAgent(SubSeq(turns', 1, p)) = NewestAgent(turns)
    BY <1>4, <2>3 DEF NewestAgent
  <2> QED BY <1>6, <2>4
<1> QED BY <1>1, <1>3, <1>5, <1>6

----
(* A request that writes no turn.                                          *)

LEMMA Counted ==
  /\ IsFiniteSet(Reqs) /\ Cardinality(Reqs) \in Nat
  /\ \A S \in SUBSET Reqs : IsFiniteSet(S) /\ Cardinality(S) \in Nat /\ Cardinality(S) <= Cardinality(Reqs)
  /\ \A S \in SUBSET Reqs : \A T \in SUBSET S : Cardinality(T) <= Cardinality(S)
  /\ \A S \in SUBSET Reqs : \A r \in S : Cardinality(S \ {r}) = Cardinality(S) - 1
<1>1. IsFiniteSet(Reqs)
  BY ReqsAssumption
<1>2. \A S \in SUBSET Reqs : IsFiniteSet(S) /\ Cardinality(S) <= Cardinality(Reqs)
  BY <1>1, FS_Subset
<1>3. \A S \in SUBSET Reqs : Cardinality(S) \in Nat
  BY <1>2, FS_CardinalityType
<1>4. ASSUME NEW S \in SUBSET Reqs PROVE \A T \in SUBSET S : Cardinality(T) <= Cardinality(S)
  BY <1>2, FS_Subset
<1>5. ASSUME NEW S \in SUBSET Reqs, NEW r \in S PROVE Cardinality(S \ {r}) = Cardinality(S) - 1
  BY <1>2, FS_RemoveElement
<1> QED BY <1>1, <1>2, <1>3, <1>4, <1>5

LEMMA Quiet ==
  ASSUME Shaped, Shaped', TurnsInv, NEW r \in Reqs, Others(r), turns' = turns,
         state' \in StartableStates => state \in StartableStates,
         SpeakerOK(r)', AskedOK(r)',
         pc'[r] = "record" => pc[r] = "record" \/ RoomLeft,
         pc'[r] \in {"produce", "say"} =>
           pc[r] \in {"record", "produce", "say"} \/ RoomLeft \/ AgentPositions(turns) = {}
  PROVE  TurnsInv'
<1>1. turns \in Seq(TurnRecords) /\ Len(turns) \in Nat /\ DOMAIN turns = 1..Len(turns)
  BY DEF Shaped, RowsOK
<1>2. Extends(turns', turns)
  BY <1>1 DEF Extends
<1>3. OneSitting'
  BY DEF TurnsInv, OneSitting
<1>4. CreditedToQuestionOnScreen'
  BY DEF TurnsInv, CreditedToQuestionOnScreen
<1>5. ASSUME NEW q \in Reqs PROVE SpeakerOK(q)' /\ AskedOK(q)'
  BY <1>2, StillOK DEF TurnsInv, Others
<1>6. RoomInv'
  <2>1. /\ Cardinality(Recording) \in Nat /\ Cardinality(Recording') \in Nat
        /\ Cardinality(Replying) \in Nat /\ Cardinality(Replying') \in Nat
        /\ Cardinality(Recording') <= Cardinality(Reqs) /\ Cardinality(Replying') <= Cardinality(Reqs)
        /\ Cardinality(Reqs) \in Nat
    <3>1. /\ Recording \in SUBSET Reqs /\ Recording' \in SUBSET Reqs
          /\ Replying \in SUBSET Reqs /\ Replying' \in SUBSET Reqs
      BY DEF Recording, Replying
    <3> QED BY <3>1, Counted
  <2>2. CASE RoomLeft
    BY <1>1, <2>1, <2>2, MaxTurnsAssumption DEF RoomInv, RoomLeft
  <2>3. CASE ~RoomLeft
    <3>1. Recording' \subseteq Recording
      BY <2>3 DEF Recording, Others
    <3>2. AgentPositions(turns) # {} => Replying' \subseteq Replying
      BY <2>3 DEF Replying, Others
    <3>3. Recording \in SUBSET Reqs /\ Replying \in SUBSET Reqs
      BY DEF Recording, Replying
    <3>4. /\ Cardinality(Recording') <= Cardinality(Recording)
          /\ AgentPositions(turns) # {} => Cardinality(Replying') <= Cardinality(Replying)
      BY <3>1, <3>2, <3>3, Counted
    <3>5. RoomInv /\ AgentPositions(turns') = AgentPositions(turns)
      BY DEF TurnsInv
    <3>6. /\ AgentPositions(turns) = {} =>
               Len(turns) + Cardinality(Recording') < MaxTurns + Cardinality(Reqs)
          /\ AgentPositions(turns) # {} =>
               Len(turns) + Cardinality(Recording') + Cardinality(Replying')
                 < MaxTurns + 2 * Cardinality(Reqs)
      <4>1. CASE AgentPositions(turns) = {}
        BY <1>1, <2>1, <3>4, <3>5, <4>1, MaxTurnsAssumption DEF RoomInv
      <4>2. CASE AgentPositions(turns) # {}
        BY <1>1, <2>1, <3>4, <3>5, <4>2, MaxTurnsAssumption DEF RoomInv
      <4> QED BY <4>1, <4>2
    <3> QED BY <3>5, <3>6 DEF RoomInv
  <2> QED BY <2>2, <2>3
<1> QED BY <1>3, <1>4, <1>5, <1>6 DEF TurnsInv

(* The steps at which a request has nothing to say for the time being.     *)
Away ==
    EnginePCs \ {"load", "read", "resume", "claim", "joinCurrent", "record", "produce", "say"}

LEMMA QuietAway ==
  ASSUME Shaped, Shaped', TurnsInv, NEW r \in Reqs, Others(r), turns' = turns,
         state' \in StartableStates => state \in StartableStates, pc'[r] \in Away
  PROVE  TurnsInv'
<1>1. /\ SpeakerOK(r)' /\ AskedOK(r)'
      /\ pc'[r] \notin {"record", "produce", "say"}
  BY DEF Away, SpeakerOK, AskedOK
<1> QED BY <1>1, Quiet

LEMMA AfterNote ==
  ASSUME RequestsShaped, NEW r \in Reqs, NEW l, Goto(r, l), NEW what, Note(r, what)
  PROVE  Others(r) /\ pc'[r] = l /\ saw'[r] = what
BY DEF RequestsShaped, Goto, Note, Others

LEMMA StayedNote ==
  ASSUME RequestsShaped, NEW r \in Reqs, NEW l, Goto(r, l), UNCHANGED saw
  PROVE  Others(r) /\ pc'[r] = l /\ saw'[r] = saw[r]
BY DEF RequestsShaped, Goto, Others

LEMMA AwayIs ==
  {"idle", "join", "joinRead", "current", "outcome", "withdraw", "handoffRead", "withdrawWrite",
   "finLoad", "finRead", "questions", "closing", "processing", "evaluate", "store", "burn", "ready", "release",
   "releaseWrite"} \subseteq Away
BY DEF Away, EnginePCs

(* To a transcript without an agent turn a reply is due whatever was read. *)
LEMMA NobodySpoke ==
  ASSUME Shaped, AgentPositions(turns) = {}, NEW n \in Nat, n <= Len(turns)
  PROVE  ReplyDue(n)
<1>1. turns \in Seq(TurnRecords) /\ DOMAIN turns = 1..Len(turns)
  BY DEF Shaped, RowsOK
<1>2. n > 0 => n \in DOMAIN turns /\ turns[n] \in TurnRecords
  BY <1>1
<1>3. \A t \in TurnRecords : t.by \in {"agent", "candidate"}
  BY DEF TurnRecords
<1> QED BY <1>2, <1>3 DEF ReplyDue, AgentPositions

LEMMA ReadsQuietly ==
  ASSUME Shaped, Shaped', TurnsInv, NEW r \in Reqs,
         pc[r] = "claim" => saw[r].state \in StartableStates,
         \/ \E o \in Ops : Arrive(r, o)
         \/ Load(r) \/ StartRead(r) \/ Resume(r) \/ Claim(r)
         \/ Join(r) \/ JoinRead(r) \/ JoinCurrent(r)
         \/ AnswerRead(r) \/ ContinueRead(r) \/ Produce(r) \/ Current(r) \/ Outcome(r)
  PROVE  TurnsInv'
<1>1. /\ RequestsShaped /\ saw[r] \in Reading /\ SpeakerOK(r) /\ AskedOK(r)
      /\ turns \in Seq(TurnRecords) /\ Len(turns) \in Nat
  BY DEF Shaped, RowsOK, RequestsShaped, TurnsInv
<1>2. state' \in StartableStates => state \in StartableStates
  BY NeverReopened DEF Step
<1>3. ASSUME turns' = turns, Finish(r) PROVE TurnsInv'
  BY <1>1, <1>2, <1>3, AfterFinish, AwayIs, QuietAway
<1>4. ASSUME turns' = turns, NEW l \in Away, Goto(r, l), UNCHANGED saw \/ \E what : Note(r, what)
      PROVE  TurnsInv'
  BY <1>1, <1>2, <1>4, AfterGoto, QuietAway
<1>5. \A p \in DOMAIN turns : ~turns[p].closed
  BY DEF TurnsInv, OneSitting
<1>6. /\ SittingAgents(turns) = AgentPositions(turns)
      /\ PendingTurn(turns, TRUE) # 0 <=> AgentPositions(turns) # {}
  BY <1>1, <1>5, OneSittingIs
<1>7. ASSUME turns' = turns, Others(r), pc'[r] = "produce", ReplyDue(saw'[r].need),
             RoomLeft \/ AgentPositions(turns) = {}
      PROVE  TurnsInv'
  <2>1. SpeakerOK(r)' /\ AskedOK(r)'
    BY <1>7 DEF SpeakerOK, AskedOK, ReplyDue
  <2> QED BY <1>2, <1>7, <2>1, Quiet
<1>8. CASE \E o \in Ops : Arrive(r, o)
  <2>1. /\ Others(r) /\ pc'[r] \in {"finLoad", "load"} /\ turns' = turns
        /\ \E asked \in AgentPositions(turns) \cup {0} : saw'[r] = [Nothing EXCEPT !.asked = asked]
    BY <1>1, <1>8 DEF Arrive, Others, Note, RequestsShaped
  <2>2. saw'[r].asked \in AgentPositions(turns) \cup {0}
    BY <2>1 DEF Nothing
  <2>3. SpeakerOK(r)' /\ AskedOK(r)'
    BY <2>1, <2>2 DEF SpeakerOK, AskedOK
  <2> QED BY <1>2, <2>1, <2>3, Quiet
<1>9. CASE Load(r)
  <2>1. /\ Others(r) /\ pc'[r] = "read" /\ turns' = turns
        /\ saw'[r] = [saw[r] EXCEPT !.state = state, !.consent = consent]
    BY <1>1, <1>9, AfterNote DEF Load
  <2>2. saw'[r].asked = saw[r].asked /\ pc[r] = "load"
    BY <1>1, <1>9, <2>1 DEF Reading, Load
  <2>3. SpeakerOK(r)' /\ AskedOK(r)'
    BY <1>1, <2>1, <2>2 DEF SpeakerOK, AskedOK
  <2> QED BY <1>2, <2>1, <2>3, Quiet
<1>10. CASE StartRead(r)
  <2>1. turns' = turns
    BY <1>10 DEF StartRead
  <2>2. ASSUME NEW l \in {"resume", "claim"}, Goto(r, l), Note(r, [saw[r] EXCEPT !.tail = Len(turns)])
        PROVE  TurnsInv'
    <3>1. Others(r) /\ pc'[r] = l /\ saw'[r].tail = Len(turns)
      BY <1>1, <2>2, AfterNote DEF Reading
    <3>2. SpeakerOK(r)' /\ AskedOK(r)'
      BY <1>1, <2>1, <3>1 DEF SpeakerOK, AskedOK
    <3> QED BY <1>2, <2>1, <3>1, <3>2, Quiet
  <2> QED BY <1>3, <1>10, <2>1, <2>2 DEF StartRead
<1>11. CASE Resume(r)
  <2>1. turns' = turns
    BY <1>11 DEF Resume
  <2>2. CASE AgentPositions(turns) = {} /\ Goto(r, "produce") /\ Note(r, [Nothing EXCEPT !.need = saw[r].tail])
    <3>1. Others(r) /\ pc'[r] = "produce" /\ saw'[r].need = saw[r].tail
      BY <1>1, <2>2, AfterNote DEF Nothing
    <3>2. saw[r].tail \in Nat /\ saw[r].tail <= Len(turns)
      BY <1>1, <1>11 DEF Reading, Resume, SpeakerOK
    <3>3. ReplyDue(saw'[r].need)
      BY <2>2, <3>1, <3>2, NobodySpoke
    <3> QED BY <1>7, <2>1, <2>2, <3>1, <3>3
  <2> QED BY <1>3, <1>6, <1>11, <2>1, <2>2 DEF Resume
<1>12. CASE Claim(r)
  <2>1. CASE StandsAsRead(r)
    <3>1. state \in StartableStates /\ turns = <<>>
      BY <1>12, <2>1 DEF Claim, StandsAsRead, TurnsInv, OneSitting
    <3>2. AgentPositions(turns) = {} /\ Len(turns) = 0 /\ NewestAgent(turns) = 0
      <4>1. Len(turns) = 0
        BY <3>1
      <4>2. AgentPositions(turns) \in SUBSET (1..Len(turns))
        BY <1>1, NewestIs
      <4>3. AgentPositions(turns) = {}
        BY <4>1, <4>2
      <4> QED BY <1>1, <4>1, <4>3, NewestIs
    <3>3. turns' = turns
      BY <1>12, <2>1, <3>2 DEF Claim, CloseSitting
    <3>4. Others(r) /\ pc'[r] = "produce" /\ saw'[r].need = saw[r].tail
      BY <1>1, <1>12, <2>1, AfterNote DEF Claim, Nothing
    <3>5. saw[r].tail \in Nat /\ saw[r].tail <= Len(turns)
      BY <1>1, <1>12 DEF Reading, Claim, SpeakerOK
    <3>6. ReplyDue(saw'[r].need)
      BY <3>2, <3>4, <3>5, NobodySpoke
    <3> QED BY <1>7, <3>2, <3>3, <3>4, <3>6
  <2>2. CASE ~StandsAsRead(r)
    <3>1. turns' = turns /\ Goto(r, "join") /\ UNCHANGED saw
      BY <1>12, <2>2 DEF Claim
    <3> QED BY <1>4, <3>1, AwayIs
  <2> QED BY <2>1, <2>2
<1>13. CASE Join(r) \/ Current(r)
  <2>1. turns' = turns
    BY <1>13 DEF Join, Current
  <2> QED BY <1>3, <1>4, <1>13, <2>1, AwayIs DEF Join, Current
<1>14. CASE JoinRead(r)
  <2>1. turns' = turns
    BY <1>14 DEF JoinRead
  <2>2. \/ pc'[r] = "joinCurrent"
        \/ pc'[r] = "produce" /\ AgentPositions(turns) = {}
    BY <1>1, <1>6, <1>14, AfterNote DEF JoinRead
  <2>3. Others(r) /\ saw'[r].need = Len(turns)
    BY <1>1, <1>14, AfterNote DEF JoinRead, Reading
  <2>4. CASE pc'[r] = "joinCurrent"
    <3>1. SpeakerOK(r)' /\ AskedOK(r)'
      BY <1>1, <2>1, <2>3, <2>4 DEF SpeakerOK, AskedOK
    <3> QED BY <1>2, <2>1, <2>3, <2>4, <3>1, Quiet
  <2>5. CASE pc'[r] = "produce" /\ AgentPositions(turns) = {}
    <3>1. ReplyDue(saw'[r].need)
      BY <1>1, <2>3, <2>5, NobodySpoke
    <3> QED BY <1>7, <2>1, <2>3, <2>5, <3>1
  <2> QED BY <2>2, <2>4, <2>5
<1>15. CASE JoinCurrent(r)
  <2>1. turns' = turns
    BY <1>15 DEF JoinCurrent
  <2>2. CASE AgentPositions(turns) = {} /\ Goto(r, "produce") /\ UNCHANGED saw
    <3>1. Others(r) /\ pc'[r] = "produce" /\ saw'[r] = saw[r]
      BY <1>1, <2>2, StayedNote
    <3>2. saw[r].need \in Nat /\ saw[r].need <= Len(turns)
      BY <1>1, <1>15 DEF Reading, JoinCurrent, SpeakerOK
    <3>3. ReplyDue(saw'[r].need)
      BY <2>2, <3>1, <3>2, NobodySpoke
    <3> QED BY <1>7, <2>1, <2>2, <3>1, <3>3
  <2> QED BY <1>3, <1>6, <1>15, <2>1, <2>2 DEF JoinCurrent
<1>16. CASE AnswerRead(r)
  <2>1. turns' = turns
    BY <1>16 DEF AnswerRead
  <2>2. CASE RoomLeft /\ Goto(r, "record") /\ Note(r, [saw[r] EXCEPT !.slot = NewestAgent(turns)])
    <3>1. Others(r) /\ pc'[r] = "record" /\ saw'[r].slot = NewestAgent(turns) /\ saw'[r].asked = saw[r].asked
      BY <1>1, <2>2, AfterNote DEF Reading
    <3>2. saw[r].asked \in AgentPositions(turns) \cup {0}
      BY <1>1, <1>16 DEF AnswerRead, AskedOK
    <3>3. saw[r].asked <= NewestAgent(turns) /\ NewestAgent(turns) \in Nat
      BY <1>1, <3>2, NewestIs
    <3>4. SpeakerOK(r)' /\ AskedOK(r)'
      BY <2>1, <3>1, <3>2, <3>3 DEF SpeakerOK, AskedOK
    <3> QED BY <1>2, <2>1, <2>2, <3>1, <3>4, Quiet
  <2> QED BY <1>3, <1>16, <2>1, <2>2 DEF AnswerRead
<1>17. CASE ContinueRead(r)
  <2>1. turns' = turns
    BY <1>17 DEF ContinueRead
  <2>2. CASE /\ RoomLeft /\ Len(turns) > 0 /\ turns[Len(turns)].by = "candidate"
             /\ Goto(r, "produce") /\ Note(r, [Nothing EXCEPT !.need = Len(turns)])
    <3>1. Others(r) /\ pc'[r] = "produce" /\ saw'[r].need = Len(turns)
      BY <1>1, <2>2, AfterNote DEF Nothing
    <3>2. ReplyDue(saw'[r].need)
      BY <1>1, <2>2, <3>1 DEF ReplyDue
    <3> QED BY <1>7, <2>1, <2>2, <3>1, <3>2
  <2> QED BY <1>3, <1>17, <2>1, <2>2 DEF ContinueRead
<1>18. CASE Produce(r)
  <2>1. turns' = turns /\ pc[r] = "produce"
    BY <1>18 DEF Produce
  <2> DEFINE what == [Nothing EXCEPT !.tail = Len(turns), !.greet = (SittingAgents(turns) = {})]
  <2>2. CASE saw[r].need = Len(turns) /\ Goto(r, "say") /\ Note(r, what)
    <3>1. what.tail = Len(turns)
      BY DEF Nothing
    <3> HIDE DEF what
    <3>2. Others(r) /\ pc'[r] = "say" /\ saw'[r] = what
      BY <1>1, <2>2, AfterNote
    <3>3. saw'[r].tail = saw[r].need
      BY <2>2, <3>1, <3>2
    <3>4. ReplyDue(saw'[r].tail)
      BY <1>1, <2>1, <3>3 DEF SpeakerOK
    <3>5. SpeakerOK(r)' /\ AskedOK(r)'
      BY <2>1, <3>2, <3>4 DEF SpeakerOK, AskedOK, ReplyDue
    <3> QED BY <1>2, <2>1, <3>2, <3>5, Quiet
  <2>3. CASE Goto(r, "current") /\ UNCHANGED saw
    BY <1>4, <2>1, <2>3, AwayIs
  <2> QED BY <1>18, <2>2, <2>3 DEF Produce
<1>19. CASE Outcome(r)
  <2>1. turns' = turns
    BY <1>19 DEF Outcome
  <2>2. Others(r) /\ pc'[r] \in Away
    BY <1>1, <1>19, AfterFinish, AfterSettle, AwayIs DEF Outcome
  <2> QED BY <1>2, <2>1, <2>2, QuietAway
<1> QED BY <1>8, <1>9, <1>10, <1>11, <1>12, <1>13, <1>14, <1>15, <1>16, <1>17, <1>18, <1>19

LEMMA ClosesQuietly ==
  ASSUME Shaped, Shaped', TurnsInv, NEW r \in Reqs,
         \/ WithdrawRead(r) \/ HandoffRead(r) \/ WithdrawWrite(r) \/ FinalizeLoad(r)
         \/ FinalizeRead(r) \/ ToQuestions(r) \/ ToClosing(r) \/ ToProcessing(r) \/ Evaluate(r)
         \/ Store(r) \/ Burn(r) \/ Ready(r) \/ FinalizeThrows(r) \/ ReleaseRead(r)
         \/ ReleaseWrite(r) \/ Abandon(r)
  PROVE  TurnsInv'
<1>1. RequestsShaped
  BY DEF Shaped
<1>2. state' \in StartableStates => state \in StartableStates
  BY NeverReopened DEF Step
<1>3. turns' = turns
  BY DEF WithdrawRead, HandoffRead, WithdrawWrite, FinalizeLoad, FinalizeRead, ToQuestions,
         ToClosing, ToProcessing, Evaluate, Store, Burn, Ready, FinalizeThrows, ReleaseRead,
         ReleaseWrite, Abandon
<1>4. Others(r) /\ pc'[r] \in {"handoffRead", "withdrawWrite", "finRead", "questions", "closing",
                               "processing", "evaluate", "store", "burn", "ready", "release",
                               "releaseWrite", "idle"}
  BY <1>1, AfterGoto, AfterFinish
  DEF WithdrawRead, HandoffRead, WithdrawWrite, FinalizeLoad, FinalizeRead, ToQuestions,
      ToClosing, ToProcessing, Evaluate, Store, Burn, Ready, FinalizeThrows, ReleaseRead,
      ReleaseWrite, Abandon
<1> QED BY <1>2, <1>3, <1>4, AwayIs, QuietAway

----
(* The requests that write a turn.                                         *)

(* A turn is added by a request that was admitted to add it.               *)
LEMMA RoomShrinks ==
  ASSUME Shaped, RoomInv, AgentPositions(turns') = AgentPositions(turns), Replying' \subseteq Replying,
         \/ Len(turns') = Len(turns) /\ Recording' \subseteq Recording
         \/ Len(turns') = Len(turns) + 1 /\ \E r \in Recording : Recording' = Recording \ {r}
  PROVE  RoomInv'
<1>1. Recording \in SUBSET Reqs /\ Replying \in SUBSET Reqs /\ Recording' \in SUBSET Reqs /\ Replying' \in SUBSET Reqs
  BY DEF Recording, Replying
<1>2. /\ Cardinality(Recording) \in Nat /\ Cardinality(Recording') \in Nat /\ Cardinality(Reqs) \in Nat
      /\ Cardinality(Replying) \in Nat /\ Cardinality(Replying') \in Nat /\ Len(turns) \in Nat
      /\ Cardinality(Replying') <= Cardinality(Replying)
  BY <1>1, Counted DEF Shaped, RowsOK
<1>3. Len(turns') + Cardinality(Recording') <= Len(turns) + Cardinality(Recording)
  <2>1. CASE Len(turns') = Len(turns) /\ Recording' \subseteq Recording
    <3>1. Cardinality(Recording') <= Cardinality(Recording)
      BY <1>1, <2>1, Counted
    <3> QED BY <1>2, <2>1, <3>1
  <2>2. CASE Len(turns') = Len(turns) + 1 /\ \E r \in Recording : Recording' = Recording \ {r}
    <3>1. Cardinality(Recording') = Cardinality(Recording) - 1
      BY <1>1, <2>2, Counted
    <3> QED BY <1>2, <2>2, <3>1
  <2> QED BY <2>1, <2>2
<1>4. Len(turns') \in Nat
  BY <1>2
<1>5. ASSUME AgentPositions(turns) = {}
      PROVE  Len(turns') + Cardinality(Recording') < MaxTurns + Cardinality(Reqs)
  <2>1. Len(turns) + Cardinality(Recording) < MaxTurns + Cardinality(Reqs)
    BY <1>5 DEF RoomInv
  <2> QED BY <1>2, <1>3, <1>4, <2>1, MaxTurnsAssumption
<1>6. ASSUME AgentPositions(turns) # {}
      PROVE  Len(turns') + Cardinality(Recording') + Cardinality(Replying') < MaxTurns + 2 * Cardinality(Reqs)
  <2>1. Len(turns) + Cardinality(Recording) + Cardinality(Replying) < MaxTurns + 2 * Cardinality(Reqs)
    BY <1>6 DEF RoomInv
  <2> QED BY <1>2, <1>3, <1>4, <2>1, MaxTurnsAssumption
<1> QED BY <1>5, <1>6 DEF RoomInv

(* An interview somebody is answering or replying in has opened.           *)
LEMMA WritingIsOpen ==
  ASSUME Shaped, OpenInv, NEW r \in Reqs, pc[r] \in {"record", "say"}
  PROVE  state \notin StartableStates
BY DEF OpenInv, Conducting, EnginePCs

(* A turn added at the end extends the transcript.                         *)
LEMMA Appended ==
  ASSUME NEW ts \in Seq(TurnRecords), NEW t \in TurnRecords, NEW us, us = Append(ts, t)
  PROVE  /\ us \in Seq(TurnRecords) /\ Len(us) = Len(ts) + 1 /\ us[Len(us)] = t
         /\ \A p \in 1..Len(ts) : us[p] = ts[p]
         /\ Extends(us, ts)
<1>1. us \in Seq(TurnRecords) /\ Len(us) = Len(ts) + 1 /\ Len(ts) \in Nat
  OBVIOUS
<1>2. us[Len(ts) + 1] = t /\ \A p \in 1..Len(ts) : us[p] = ts[p]
  OBVIOUS
<1> QED BY <1>1, <1>2 DEF Extends

(* Nobody speaks twice, but for a Leave.                                   *)
LEMMA OneMoreTurn ==
  ASSUME Shaped, Shaped', OneSitting, state' = state, state \notin StartableStates,
         NEW t \in TurnRecords, turns' = Append(turns, t), ~t.closed,
         Len(turns) > 0 /\ turns[Len(turns)].by = t.by => t.kind = "leave"
  PROVE  OneSitting'
<1>1. turns \in Seq(TurnRecords) /\ Len(turns) \in Nat /\ DOMAIN turns = 1..Len(turns)
  BY DEF Shaped, RowsOK
<1>2. /\ Len(turns') = Len(turns) + 1 /\ turns'[Len(turns) + 1] = t
      /\ \A p \in 1..Len(turns) : turns'[p] = turns[p]
      /\ turns' \in Seq(TurnRecords) /\ DOMAIN turns' = 1..Len(turns')
  BY <1>1, Appended
<1>3. ASSUME NEW p \in DOMAIN turns' PROVE ~turns'[p].closed
  <2>1. p \in 1..Len(turns) \/ p = Len(turns) + 1
    BY <1>1, <1>2
  <2> QED BY <1>1, <1>2, <2>1 DEF OneSitting
<1>4. ASSUME NEW p \in 2..Len(turns'), turns'[p].by = turns'[p - 1].by
      PROVE  turns'[p].kind = "leave"
  <2>1. p - 1 \in 1..Len(turns)
    BY <1>1, <1>2
  <2>2. CASE p \in 2..Len(turns)
    BY <1>1, <1>2, <1>4, <2>1, <2>2 DEF OneSitting
  <2>3. CASE p = Len(turns) + 1
    BY <1>1, <1>2, <1>4, <2>1, <2>3
  <2> QED BY <1>1, <1>2, <2>2, <2>3
<1> QED BY <1>3, <1>4 DEF OneSitting

(* Folding an answer in changes nothing but that it was folded.            *)
LEMMA Folded ==
  ASSUME NEW ts \in Seq(TurnRecords), NEW f \in 1..Len(ts), NEW us, us = [ts EXCEPT ![f].folded = TRUE]
  PROVE  /\ Len(us) = Len(ts) /\ DOMAIN us = DOMAIN ts /\ Extends(us, ts)
         /\ \A p \in 1..Len(ts) :
              us[p].by = ts[p].by /\ us[p].kind = ts[p].kind /\ (us[p].closed <=> ts[p].closed)
         /\ AgentPositions(us) = AgentPositions(ts) /\ CandidatePositions(us) = CandidatePositions(ts)
<1>1. ts \in [1..Len(ts) -> TurnRecords] /\ Len(ts) \in Nat
  OBVIOUS
<1>2. us \in Seq(TurnRecords)
  BY FoldType
<1>3. DOMAIN us = 1..Len(ts) /\ Len(us) = Len(ts)
  BY <1>1, <1>2
<1>4. \A p \in 1..Len(ts) : us[p] = IF p = f THEN [ts[p] EXCEPT !.folded = TRUE] ELSE ts[p]
  BY <1>1
<1>5. \A t \in TurnRecords :
        LET n == [t EXCEPT !.folded = TRUE]
        IN  /\ n.by = t.by /\ n.kind = t.kind /\ (n.closed <=> t.closed)
            /\ n.asked = t.asked /\ n.slot = t.slot
  BY DEF TurnRecords
<1>6. \A p \in 1..Len(ts) :
        /\ us[p].by = ts[p].by /\ us[p].kind = ts[p].kind /\ (us[p].closed <=> ts[p].closed)
        /\ us[p].asked = ts[p].asked /\ us[p].slot = ts[p].slot
  BY <1>1, <1>4, <1>5
<1>7. AgentPositions(us) = AgentPositions(ts) /\ CandidatePositions(us) = CandidatePositions(ts)
  BY <1>1, <1>3, <1>6 DEF AgentPositions, CandidatePositions
<1> QED BY <1>1, <1>3, <1>6, <1>7 DEF Extends

(* recordCandidateAnswer: the question on the table is answered once, or   *)
(* a second answer is folded into the first.                               *)
LEMMA RecordKeeps ==
  ASSUME Shaped, Shaped', OpenInv, TurnsInv, NEW r \in Reqs, Record(r)
  PROVE  TurnsInv'
<1>1. /\ RequestsShaped /\ saw[r] \in Reading /\ SpeakerOK(r) /\ AskedOK(r) /\ pc[r] = "record"
      /\ turns \in Seq(TurnRecords) /\ Len(turns) \in Nat /\ DOMAIN turns = 1..Len(turns)
      /\ state' = state
  BY DEF Shaped, RowsOK, RequestsShaped, TurnsInv, Record, rowVars
<1>2. state \notin StartableStates
  BY <1>1, WritingIsOpen
<1> DEFINE answered == AnswersPending(turns)
           first == FirstAmong(answered)
           leaving == op[r] = "leave"
           t == CandidateTurn(IF leaving THEN "leave" ELSE "answer", saw[r].asked, saw[r].slot)
<1>3. answered \in SUBSET (1..Len(turns))
  BY <1>1 DEF AnswersPending, CandidatePositions
<1>4. CASE AnswersOldQuestion(r)
  <2>1. turns' = turns /\ Finish(r)
    BY <1>4 DEF Record
  <2> QED BY <1>1, <2>1, AfterFinish, AwayIs, QuietAway
<1>5. CASE /\ answered # {} /\ turns' = [turns EXCEPT ![first].folded = TRUE]
           /\ Goto(r, "produce") /\ Note(r, [Nothing EXCEPT !.need = first])
  <2>1. first \in answered
    BY <1>3, <1>5, FirstIs
  <2>2. first \in 1..Len(turns) /\ turns[first].by = "candidate"
    BY <1>1, <2>1 DEF AnswersPending, CandidatePositions
  <2> HIDE DEF first, answered, leaving, t
  <2>3. /\ Len(turns') = Len(turns) /\ DOMAIN turns' = DOMAIN turns /\ Extends(turns', turns)
        /\ \A p \in 1..Len(turns) :
             turns'[p].by = turns[p].by /\ turns'[p].kind = turns[p].kind /\ (turns'[p].closed <=> turns[p].closed)
        /\ AgentPositions(turns') = AgentPositions(turns) /\ CandidatePositions(turns') = CandidatePositions(turns)
    <3>1. turns' = [turns EXCEPT ![first].folded = TRUE] /\ turns \in Seq(TurnRecords) /\ first \in 1..Len(turns)
      BY <1>1, <1>5, <2>2
    <3>2. Len(turns') = Len(turns) /\ DOMAIN turns' = DOMAIN turns
      BY <3>1, Folded
    <3>3. Extends(turns', turns)
      BY <3>1, Folded
    <3>4. \A p \in 1..Len(turns) :
            turns'[p].by = turns[p].by /\ turns'[p].kind = turns[p].kind /\ (turns'[p].closed <=> turns[p].closed)
      BY <3>1, Folded
    <3>5. AgentPositions(turns') = AgentPositions(turns) /\ CandidatePositions(turns') = CandidatePositions(turns)
      BY <3>1, Folded
    <3> QED BY <3>2, <3>3, <3>4, <3>5
  <2>4. OneSitting'
    <3>1. \A p \in 2..Len(turns) : p \in 1..Len(turns) /\ p - 1 \in 1..Len(turns)
      BY <1>1
    <3> QED BY <1>1, <1>2, <2>3, <3>1 DEF TurnsInv, OneSitting
  <2>5. CreditedToQuestionOnScreen'
    <3>1. \A p \in CandidatePositions(turns') : ~(p > Len(turns))
      BY <1>1, <2>3 DEF CandidatePositions
    <3> QED BY <1>1, <2>3, <3>1, CreditKept DEF TurnsInv
  <2>6. Others(r) /\ pc'[r] = "produce" /\ saw'[r].need = first
    BY <1>1, <1>5, AfterNote DEF Nothing
  <2>7. SpeakerOK(r)' /\ AskedOK(r)'
    BY <1>1, <2>2, <2>3, <2>6 DEF SpeakerOK, AskedOK, ReplyDue
  <2>8. ASSUME NEW q \in Reqs PROVE SpeakerOK(q)' /\ AskedOK(q)'
    BY <2>3, <2>6, <2>7, StillOK DEF TurnsInv, Others
  <2>9. RoomInv'
    <3>1. Recording' \subseteq Recording /\ Replying' \subseteq Replying
      BY <1>1, <2>6 DEF Recording, Replying, Others
    <3> QED BY <1>1, <2>3, <3>1, RoomShrinks DEF TurnsInv
  <2> QED BY <2>4, <2>5, <2>8, <2>9 DEF TurnsInv
<1>6. CASE /\ ~AnswersOldQuestion(r) /\ (leaving \/ answered = {})
           /\ turns' = Append(turns, t)
           /\ Goto(r, "produce") /\ Note(r, [Nothing EXCEPT !.need = Len(turns) + 1])
  <2>1. t \in TurnRecords /\ t.by = "candidate" /\ t.asked = saw[r].asked /\ t.slot = saw[r].slot
        /\ ~t.closed /\ (leaving => t.kind = "leave")
    BY <1>1, TurnsOK DEF CandidateTurn, Reading
  <2> HIDE DEF t
  <2>2. /\ Len(turns') = Len(turns) + 1 /\ turns'[Len(turns) + 1] = t
        /\ \A p \in 1..Len(turns) : turns'[p] = turns[p]
        /\ Extends(turns', turns) /\ DOMAIN turns' = 1..Len(turns')
    <3>1. turns' = Append(turns, t) /\ turns \in Seq(TurnRecords) /\ t \in TurnRecords
      BY <1>1, <1>6, <2>1
    <3> HIDE DEF answered, first, leaving
    <3>2. turns' \in Seq(TurnRecords) /\ Len(turns') = Len(turns) + 1
      BY <3>1, Appended
    <3>3. turns'[Len(turns')] = t
      BY <3>1, Appended
    <3>4. \A p \in 1..Len(turns) : turns'[p] = turns[p]
      BY <3>1, Appended
    <3>5. Extends(turns', turns)
      BY <3>1, Appended
    <3>6. turns'[Len(turns) + 1] = t /\ DOMAIN turns' = 1..Len(turns')
      BY <3>2, <3>3
    <3> QED BY <3>2, <3>4, <3>5, <3>6
  <2>3. Len(turns) > 0 /\ turns[Len(turns)].by = t.by => t.kind = "leave"
    <3>1. SUFFICES ASSUME Len(turns) > 0, turns[Len(turns)].by = "candidate", ~leaving PROVE FALSE
      BY <2>1
    <3>2. Len(turns) \in CandidatePositions(turns) /\ Len(turns) \notin AgentPositions(turns)
      BY <1>1, <3>1 DEF CandidatePositions, AgentPositions
    <3>3. NewestAgent(turns) < Len(turns)
      BY <1>1, <3>1, <3>2, NewestIs
    <3>4. Len(turns) \in answered
      BY <3>2, <3>3 DEF AnswersPending
    <3> QED BY <1>6, <3>1, <3>4
  <2>4. OneSitting'
    BY <1>1, <1>2, <1>6, <2>1, <2>3, OneMoreTurn DEF TurnsInv
  <2>5. saw[r].asked # 0 => saw[r].asked = NewestAgent(turns) /\ saw[r].slot = NewestAgent(turns)
    <3>1. saw[r].asked <= saw[r].slot /\ saw[r].slot <= NewestAgent(turns)
      BY <1>1 DEF AskedOK
    <3>2. saw[r].asked # 0 => saw[r].asked = NewestAgent(turns)
      BY <1>6 DEF AnswersOldQuestion
    <3>3. saw[r].asked \in Nat /\ saw[r].slot \in Nat /\ NewestAgent(turns) \in Nat
      BY <1>1, NewestIs DEF Reading
    <3> QED BY <3>1, <3>2, <3>3
  <2>6. CreditedToQuestionOnScreen'
    <3>1. \A p \in CandidatePositions(turns') : p > Len(turns) => p = Len(turns) + 1
      BY <1>1, <2>2 DEF CandidatePositions
    <3> QED BY <1>1, <2>1, <2>2, <2>5, <3>1, CreditKept DEF TurnsInv
  <2>7. Others(r) /\ pc'[r] = "produce" /\ saw'[r].need = Len(turns) + 1
    BY <1>1, <1>6, AfterNote DEF Nothing
  <2>8. SpeakerOK(r)' /\ AskedOK(r)'
    BY <1>1, <2>1, <2>2, <2>7 DEF SpeakerOK, AskedOK, ReplyDue
  <2>9. ASSUME NEW q \in Reqs PROVE SpeakerOK(q)' /\ AskedOK(q)'
    BY <2>2, <2>7, <2>8, StillOK DEF TurnsInv, Others
  <2>10. RoomInv'
    <3>1. Recording' = Recording \ {r} /\ r \in Recording /\ Replying' \subseteq Replying
      BY <1>1, <2>7 DEF Recording, Replying, Others
    <3>2. AgentPositions(turns') = AgentPositions(turns)
      BY <1>1, <2>1, <2>2 DEF AgentPositions
    <3> QED BY <1>1, <2>2, <3>1, <3>2, RoomShrinks DEF TurnsInv
  <2> QED BY <2>4, <2>6, <2>9, <2>10 DEF TurnsInv
<1> QED BY <1>4, <1>5, <1>6 DEF Record

(* produceAgentTurn: the reply is added where it is due, or dropped.       *)
LEMMA SayKeeps ==
  ASSUME Shaped, Shaped', OpenInv, TurnsInv, NEW r \in Reqs, Say(r)
  PROVE  TurnsInv'
<1>1. /\ RequestsShaped /\ SpeakerOK(r) /\ pc[r] = "say" /\ state' = state
      /\ turns \in Seq(TurnRecords) /\ Len(turns) \in Nat /\ DOMAIN turns = 1..Len(turns)
  BY DEF Shaped, RowsOK, TurnsInv, Say, rowVars
<1>2. state \notin StartableStates
  BY <1>1, WritingIsOpen
<1>3. CASE ~TailStands(r)
  <2>1. turns' = turns /\ Goto(r, "current") /\ UNCHANGED saw
    BY <1>3 DEF Say
  <2> QED BY <1>1, <2>1, AfterGoto, AwayIs, QuietAway
<1>4. CASE TailStands(r)
  <2>1. PICK kind \in RepliesTo(turns, saw[r].greet) :
          turns' = Append(turns, AgentTurn(kind)) /\ (Finish(r) \/ Settle(r, kind))
    BY <1>4 DEF Say
  <2>2. PICK t \in TurnRecords : t = AgentTurn(kind)
    BY <2>1, RepliesAreKinds, TurnsOK
  <2>3. t.by = "agent" /\ ~t.closed
    BY <2>2 DEF AgentTurn
  <2>4. Others(r) /\ pc'[r] \in {"withdraw", "finLoad", "idle"}
    BY <1>1, <2>1, AfterFinish, AfterSettle
  <2>5. turns' = Append(turns, t)
    BY <2>1, <2>2
  <2>6. Len(turns') = Len(turns) + 1 /\ turns'[Len(turns')] = t
    BY <1>1, <2>5, Appended
  <2>7. Extends(turns', turns)
    BY <1>1, <2>5, Appended
  <2>8. DOMAIN turns' = 1..Len(turns') /\ turns'[Len(turns) + 1] = t
    BY <2>6 DEF Shaped, RowsOK
  <2>9. ~(Len(turns) > 0 /\ turns[Len(turns)].by = t.by)
    BY <1>1, <1>4, <2>3 DEF SpeakerOK, ReplyDue, TailStands
  <2>10. OneSitting'
    BY <1>1, <1>2, <2>3, <2>5, <2>9, OneMoreTurn DEF TurnsInv
  <2>11. CreditedToQuestionOnScreen'
    <3>1. \A p \in CandidatePositions(turns') : ~(p > Len(turns))
      BY <1>1, <2>3, <2>6, <2>8 DEF CandidatePositions
    <3> QED BY <1>1, <2>6, <2>7, <3>1, CreditKept DEF TurnsInv
  <2>12. SpeakerOK(r)' /\ AskedOK(r)'
    BY <2>4 DEF SpeakerOK, AskedOK
  <2>13. ASSUME NEW q \in Reqs PROVE SpeakerOK(q)' /\ AskedOK(q)'
    BY <2>4, <2>7, <2>12, StillOK DEF TurnsInv, Others
  <2>14. RoomInv'
    <3>1. /\ Recording \in SUBSET Reqs /\ Replying \in SUBSET Reqs
          /\ Recording' = Recording /\ Replying' \subseteq Replying \ {r} /\ r \in Replying
          /\ Replying' \subseteq Reqs \ {r}
      BY <1>1, <2>4 DEF Recording, Replying, Others
    <3>2. /\ Cardinality(Recording) \in Nat /\ Cardinality(Replying) \in Nat /\ Cardinality(Replying') \in Nat
          /\ Cardinality(Reqs) \in Nat
      BY <3>1, Counted
    <3>3. Cardinality(Replying') <= Cardinality(Replying) - 1
      <4>1. Cardinality(Replying \ {r}) = Cardinality(Replying) - 1
        BY <3>1, Counted
      <4>2. Replying \ {r} \in SUBSET Reqs
        BY <3>1
      <4>3. Cardinality(Replying') <= Cardinality(Replying \ {r})
        BY <3>1, <4>2, Counted
      <4> QED BY <4>1, <4>3
    <3>4. Cardinality(Replying') <= Cardinality(Reqs) - 1
      <4>1. Cardinality(Reqs \ {r}) = Cardinality(Reqs) - 1
        BY Counted
      <4>2. Cardinality(Replying') <= Cardinality(Reqs \ {r})
        BY <3>1, Counted
      <4> QED BY <4>1, <4>2
    <3>5. AgentPositions(turns') # {}
      BY <1>1, <2>3, <2>6, <2>8 DEF AgentPositions
    <3>6. Len(turns') + Cardinality(Recording') + Cardinality(Replying')
            < MaxTurns + 2 * Cardinality(Reqs)
      <4>1. Cardinality(Recording') = Cardinality(Recording) /\ MaxTurns \in Nat
        BY <3>1, MaxTurnsAssumption
      <4>2. CASE AgentPositions(turns) = {}
        <5>1. Len(turns) + Cardinality(Recording) < MaxTurns + Cardinality(Reqs)
          BY <4>2 DEF TurnsInv, RoomInv
        <5> QED BY <1>1, <2>6, <3>2, <3>4, <4>1, <5>1
      <4>3. CASE AgentPositions(turns) # {}
        <5>1. Len(turns) + Cardinality(Recording) + Cardinality(Replying)
                < MaxTurns + 2 * Cardinality(Reqs)
          BY <4>3 DEF TurnsInv, RoomInv
        <5> QED BY <1>1, <2>6, <3>2, <3>3, <4>1, <5>1
      <4> QED BY <4>2, <4>3
    <3> QED BY <3>5, <3>6 DEF RoomInv
  <2> QED BY <2>10, <2>11, <2>13, <2>14 DEF TurnsInv
<1> QED BY <1>3, <1>4

----
(* The theorems.                                                           *)

LEMMA TurnsInit == EngineInit => TurnsInv
<1> SUFFICES ASSUME EngineInit PROVE TurnsInv
  OBVIOUS
<1>1. turns = <<>> /\ Len(turns) = 0 /\ DOMAIN turns = {} /\ \A r \in Reqs : pc[r] = "idle"
  BY DEF EngineInit
<1>2. AgentPositions(turns) = {} /\ CandidatePositions(turns) = {}
  BY <1>1 DEF AgentPositions, CandidatePositions
<1>3. OneSitting
  BY <1>1 DEF OneSitting
<1>4. CreditedToQuestionOnScreen
  BY <1>2 DEF CreditedToQuestionOnScreen
<1>5. RoomInv
  <2>1. Recording = {}
    BY <1>1 DEF Recording
  <2>2. Cardinality(Recording) = 0 /\ Cardinality(Reqs) \in Nat
    BY <2>1, Counted, FS_EmptySet
  <2> QED BY <1>1, <1>2, <2>2, MaxTurnsAssumption DEF RoomInv
<1>6. \A r \in Reqs : SpeakerOK(r) /\ AskedOK(r)
  BY <1>1 DEF SpeakerOK, AskedOK
<1> QED BY <1>3, <1>4, <1>5, <1>6 DEF TurnsInv

LEMMA TurnsEngine ==
  ASSUME Shaped, Shaped', OpenInv, TurnsInv, NEW r \in Reqs,
         pc[r] = "claim" => saw[r].state \in StartableStates,
         (\E o \in Ops : Arrive(r, o)) \/ Step(r) \/ FinalizeThrows(r) \/ Abandon(r)
  PROVE  TurnsInv'
BY ReadsQuietly, ClosesQuietly, RecordKeeps, SayKeeps DEF Step

LEMMA TurnsStep ==
  Shaped /\ Shaped' /\ ClaimInv /\ OpenInv /\ TurnsInv /\ [EngineNext]_vars => TurnsInv'
<1> SUFFICES ASSUME Shaped, Shaped', ClaimInv, OpenInv, TurnsInv, [EngineNext]_vars PROVE TurnsInv'
  OBVIOUS
<1>1. CASE EngineNext
  BY <1>1, TurnsEngine DEF EngineNext, ClaimInv
<1>2. CASE UNCHANGED vars
  BY <1>2 DEF vars, TurnsInv, OneSitting, CreditedToQuestionOnScreen, RoomInv, SpeakerOK, AskedOK,
              ReplyDue, Recording, Replying
<1> QED BY <1>1, <1>2

LEMMA OpenStays == Shaped /\ OpenInv /\ [EngineNext]_vars => OpenInv'
<1> SUFFICES ASSUME Shaped, OpenInv, [EngineNext]_vars PROVE OpenInv'
  OBVIOUS
<1>1. CASE EngineNext
  BY <1>1, OpenStep DEF EngineNext
<1>2. CASE UNCHANGED vars
  BY <1>2 DEF vars, OpenInv
<1> QED BY <1>1, <1>2

(* Every reply is produced where one is due, every answer names a question *)
(* that was asked, and the room left is shared by the requests in flight.  *)
THEOREM TurnsInvariant == EngineSpec => []TurnsInv
BY AlwaysShaped, ClaimInit, ClaimStep, OpenInit, OpenStays, TurnsInit, TurnsStep, PTL DEF EngineSpec

(* Nobody speaks twice in a row except by leaving, however many tabs,      *)
(* retries and Continues race (recordCandidateAnswer, produceAgentTurn).   *)
THEOREM SpeakersAlternate == EngineSpec => []Alternates
<1>1. TurnsInv => Alternates
  BY DEF TurnsInv, OneSitting, Alternates
<1> QED BY <1>1, TurnsInvariant, PTL

(* An answer that names its question is stored under it and credited to    *)
(* its competency, though that was read before the session was locked      *)
(* (submitCandidateAnswer, recordCandidateAnswer).                         *)
THEOREM CreditedOnScreen == EngineSpec => []CreditedToQuestionOnScreen
<1>1. TurnsInv => CreditedToQuestionOnScreen
  BY DEF TurnsInv
<1> QED BY <1>1, TurnsInvariant, PTL

(* The room left by the requests in flight bounds the transcript.          *)
LEMMA BoundedByRoom == Shaped /\ TurnsInv => TranscriptBounded
<1> SUFFICES ASSUME Shaped, TurnsInv PROVE TranscriptBounded
  OBVIOUS
<1>1. Len(turns) \in Nat /\ Recording \in SUBSET Reqs /\ Replying \in SUBSET Reqs
  BY DEF Shaped, RowsOK, Recording, Replying
<1>2. /\ Cardinality(Recording) \in Nat /\ Cardinality(Replying) \in Nat
      /\ Cardinality(Reqs) \in Nat
  BY <1>1, Counted
<1> QED BY <1>1, <1>2, MaxTurnsAssumption DEF TurnsInv, RoomInv, TranscriptBounded

(* MAX_TURNS_PER_SESSION is passed by two turns for each request in flight *)
(* at most, though it is tested before the session is locked.              *)
THEOREM StaysBounded == EngineSpec => []TranscriptBounded
BY BoundedByRoom, AlwaysShaped, TurnsInvariant, PTL

====
