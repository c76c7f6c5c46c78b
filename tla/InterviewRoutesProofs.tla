---- MODULE InterviewRoutesProofs ----
(***************************************************************************)
(* What holds of one interview session under everything that writes it:    *)
(* the engine, the portal, the recruiter's routes and the sweep, for every *)
(* number of requests in flight.                                           *)
(***************************************************************************)
EXTENDS InterviewRoutes, InterviewEngineProofs

----
(* Type correctness of the composition.                                    *)

AllOps == Ops \cup RouteOps \cup {"none"}
AllPCs == EnginePCs \cup RoutePCs

LEMMA RoutesTypeIs ==
  RoutesTypeOK <=> /\ TypeIn(AllOps, AllPCs)
                   /\ mix \in Mixes /\ opened \in BOOLEAN /\ activity \in {"none", "recent", "quiet"}
                   /\ retakes \in Nat /\ reopens \in Nat
BY DEF RoutesTypeOK, TypeIn, RequestsIn, AllOps, AllPCs

LEMMA EngineAmong == Among(AllOps, AllPCs)
BY DEF Among, AllOps, AllPCs

LEMMA RoutesShaped == RoutesTypeOK => Shaped
BY DEF RoutesTypeOK, Shaped, RequestsShaped

LEMMA RouteGotoOK ==
  ASSUME RequestsIn(AllOps, AllPCs), NEW r \in Reqs, NEW l \in AllPCs, Goto(r, l),
         UNCHANGED saw \/ \E what \in Reading : Note(r, what)
  PROVE  RequestsIn(AllOps, AllPCs)'
BY DEF RequestsIn, Goto, Note

(* The states the routes' writes name.                                     *)
LEMMA RouteStates ==
  {"ACCEPTED", "MANUAL_HANDOFF", "INVITED", "CANCELLED", "CONSENTED", "CLOSING", "CLOSED",
   "TECHNICAL_FAILURE", "INCOMPLETE"} \subseteq States
BY DEF States, SessionStateNames, ExceptionStateNames

LEMMA TypeRouteArrive ==
  ASSUME RoutesTypeOK, NEW r \in Reqs, NEW o \in RouteOps, RouteArrive(r, o)
  PROVE  RoutesTypeOK'
<1>1. TypeIn(AllOps, AllPCs) /\ RowsOK /\ RequestsIn(AllOps, AllPCs)
  BY RoutesTypeIs DEF TypeIn
<1>2. FirstStep(o) \in AllPCs /\ o \in AllOps
  BY RouteOpsAssumption DEF FirstStep, AllPCs, RoutePCs, AllOps
<1>3. [Nothing EXCEPT !.state = state] \in Reading
  BY <1>1, NothingOK, ReadingOK DEF RowsOK, Reading
<1>4. RequestsIn(AllOps, AllPCs)'
  BY <1>1, <1>2, <1>3 DEF RouteArrive, RequestsIn, Note
<1>5. RowsOK'
  BY <1>1, SameRows DEF RouteArrive
<1> QED BY <1>4, <1>5
    DEF RouteArrive, routeVars, RoutesTypeOK, RequestsIn, AllOps, AllPCs

LEMMA TypeRouteStep ==
  ASSUME RoutesTypeOK, NEW r \in Reqs, RouteStep(r)
  PROVE  RoutesTypeOK'
<1>1. TypeIn(AllOps, AllPCs) /\ RowsOK /\ RequestsIn(AllOps, AllPCs)
  BY RoutesTypeIs DEF TypeIn
<1>2. /\ saw[r] \in Reading /\ saw[r].consent \in BOOLEAN /\ saw[r].state \in States
      /\ saw[r].link \in LinkStates
  BY <1>1 DEF RequestsIn, Reading
<1>3. /\ [saw[r] EXCEPT !.state = state] \in Reading
      /\ [saw[r] EXCEPT !.consent = consent] \in Reading
      /\ [saw[r] EXCEPT !.link = invitation] \in Reading
  BY <1>1, <1>2 DEF RowsOK, Reading
<1>4. CloseSitting(turns) \in Seq(TurnRecords)
  BY <1>1, CloseSittingType DEF RowsOK
<1>5. RequestsIn(AllOps, AllPCs)'
  <2>1. {"openMark", "acceptMark", "consentWrite", "accommodateWrite", "inviteUpsert", "inviteMark",
         "inviteState", "resendMark", "retakeClaim", "finLoad", "sweepNewest", "sweepWrite"} \subseteq AllPCs
    BY DEF AllPCs, RoutePCs, EnginePCs
  <2>2. CASE \/ OpenMark(r) \/ Accept(r) \/ AcceptMark(r) \/ ConsentWrite(r)
             \/ AccommodateWrite(r) \/ InviteState(r) \/ ResendMark(r) \/ CancelWrite(r)
             \/ ReopenWrite(r) \/ RetakeClaim(r) \/ SweepWrite(r) \/ PartialClaim(r)
             \/ RetakeCheck(r) \/ SweepNewest(r)
    BY <2>1, <2>2, <1>1, EngineAmong, FinishOK, RouteGotoOK
    DEF OpenMark, Accept, AcceptMark, ConsentWrite, AccommodateWrite, InviteState, ResendMark,
        CancelWrite, ReopenWrite, RetakeClaim, SweepWrite, PartialClaim, RetakeCheck, SweepNewest
  <2>3. CASE InviteClose(r) \/ InviteUpsert(r) \/ InviteMark(r)
    BY <2>1, <2>3, <1>1, RouteGotoOK DEF InviteClose, InviteUpsert, InviteMark
  <2>4. CASE OpenLoad(r) \/ ConsentLoad(r) \/ ResendLoad(r) \/ SweepCheck(r)
    BY <2>1, <2>4, <1>1, <1>3, EngineAmong, FinishOK, RouteGotoOK
    DEF OpenLoad, ConsentLoad, ResendLoad, SweepCheck
  <2> QED BY <2>2, <2>3, <2>4 DEF RouteStep
<1>6. RowsOK'
  <2>1. CASE \/ OpenLoad(r) \/ ConsentLoad(r) \/ ResendLoad(r)
             \/ RetakeCheck(r) \/ SweepCheck(r) \/ SweepNewest(r)
    BY <2>1, <1>1, SameRows DEF OpenLoad, ConsentLoad, ResendLoad, RetakeCheck, SweepCheck,
                                SweepNewest
  <2>2. CASE \/ OpenMark(r) \/ ResendMark(r) \/ Accept(r) \/ AcceptMark(r) \/ ConsentWrite(r)
             \/ AccommodateWrite(r) \/ InviteUpsert(r) \/ InviteMark(r) \/ InviteState(r)
             \/ CancelWrite(r) \/ ReopenWrite(r) \/ PartialClaim(r) \/ RetakeClaim(r)
             \/ SweepWrite(r)
    BY <2>2, <1>1, <1>2, RouteStates
    DEF RowsOK, LinkStates, OpenMark, ResendMark, Accept, AcceptMark, ConsentWrite,
        AccommodateWrite, InviteUpsert, InviteMark, InviteState, CancelWrite, ReopenWrite,
        PartialClaim, RetakeClaim, SweepWrite, SweepTarget, Walk
  <2>3. CASE InviteClose(r)
    BY <2>3, <1>1, <1>4 DEF RowsOK, InviteClose, rowVars
  <2> QED BY <2>1, <2>2, <2>3 DEF RouteStep
<1>7. /\ mix' \in Mixes /\ opened' \in BOOLEAN /\ activity' \in {"none", "recent", "quiet"}
      /\ retakes' \in Nat /\ reopens' \in Nat
  <2>1. CASE OpenMark(r) \/ ReopenWrite(r) \/ RetakeClaim(r)
    <3>1. opened' = TRUE \/ opened' = opened
      BY <2>1 DEF OpenMark, ReopenWrite, RetakeClaim
    <3>2. opened' \in BOOLEAN
      BY <3>1, Zenon DEF RoutesTypeOK
    <3>3. activity' \in {"none", "recent", "quiet"} /\ retakes' \in Nat /\ reopens' \in Nat
      BY <2>1 DEF RoutesTypeOK, OpenMark, ReopenWrite, RetakeClaim
    <3>4. mix' \in Mixes
      BY <2>1 DEF RoutesTypeOK, OpenMark, ReopenWrite, RetakeClaim
    <3> QED BY <3>2, <3>3, <3>4
  <2>2. CASE UNCHANGED routeVars
    BY <2>2 DEF RoutesTypeOK, routeVars
  <2>3. OpenMark(r) \/ ReopenWrite(r) \/ RetakeClaim(r) \/ UNCHANGED routeVars
    <3>1. CASE \/ OpenLoad(r) \/ Accept(r) \/ AcceptMark(r) \/ ConsentLoad(r) \/ ConsentWrite(r)
               \/ AccommodateWrite(r) \/ ResendLoad(r) \/ ResendMark(r)
      BY <3>1 DEF OpenLoad, Accept, AcceptMark, ConsentLoad, ConsentWrite, AccommodateWrite,
                  ResendLoad, ResendMark
    <3>2. CASE \/ InviteClose(r) \/ InviteUpsert(r) \/ InviteMark(r) \/ InviteState(r)
               \/ CancelWrite(r) \/ PartialClaim(r) \/ RetakeCheck(r)
               \/ SweepCheck(r) \/ SweepNewest(r) \/ SweepWrite(r)
      BY <3>2 DEF InviteClose, InviteUpsert, InviteMark, InviteState, CancelWrite, PartialClaim,
                  RetakeCheck, SweepCheck, SweepNewest, SweepWrite
    <3> QED BY <3>1, <3>2 DEF RouteStep
  <2> QED BY <2>1, <2>2, <2>3
<1> QED BY <1>5, <1>6, <1>7 DEF RoutesTypeOK, RequestsIn, AllOps, AllPCs

LEMMA RoutesTypeInit == RoutesInit => RoutesTypeOK
<1> SUFFICES ASSUME RoutesInit PROVE RoutesTypeOK
  OBVIOUS
<1>1. TypeOK
  BY TypeInit DEF RoutesInit
<1>2. TypeIn(AllOps, AllPCs)
  BY <1>1 DEF TypeOK, RequestsOK, TypeIn, RequestsIn, AllOps, AllPCs
<1> QED BY <1>2, RoutesTypeIs DEF RoutesInit

LEMMA RoutesTypeStep == RoutesTypeOK /\ [RoutesNext]_allVars => RoutesTypeOK'
<1> SUFFICES ASSUME RoutesTypeOK, [RoutesNext]_allVars PROVE RoutesTypeOK'
  OBVIOUS
<1>1. ASSUME NEW r \in Reqs, EngineStep(r) PROVE RoutesTypeOK'
  <2>1. TypeIn(AllOps, AllPCs)'
    BY <1>1, RoutesTypeIs, EngineAmong, TypeEngine DEF EngineStep
  <2>2. /\ mix' \in Mixes /\ opened' \in BOOLEAN /\ activity' \in {"none", "recent", "quiet"}
        /\ retakes' \in Nat /\ reopens' \in Nat
    BY <1>1 DEF EngineStep, RoutesTypeOK
  <2> QED BY <2>1, <2>2 DEF RoutesTypeOK, TypeIn, RequestsIn, AllOps, AllPCs
<1>2. CASE GoQuiet
  BY <1>2 DEF GoQuiet, vars, RoutesTypeOK, RowsOK
<1>3. CASE UNCHANGED allVars
  BY <1>3 DEF allVars, vars, routeVars, RoutesTypeOK, RowsOK
<1> QED BY <1>1, <1>2, <1>3, TypeRouteArrive, TypeRouteStep DEF RoutesNext

(* Under every writer of the session together, the rows keep their shape   *)
(* and every request stays at a step of its own program.                   *)
THEOREM RoutesTypeCorrect == RoutesSpec => []RoutesTypeOK
BY RoutesTypeInit, RoutesTypeStep, PTL DEF RoutesSpec

----
(* One greeting per sitting.                                               *)

(* Every agent turn so far belongs to a sitting that has been closed.      *)
AllClosed ==
    \A p \in AgentPositions(turns) :
        \E m \in p..Len(turns) : turns[m].kind = "postponed" /\ turns[m].closed

(* A request that is about to greet still finds every earlier sitting      *)
(* closed, if the transcript still ends where the request read it.         *)
GreetInv ==
    /\ GreetedOncePerSitting
    /\ \A r \in Reqs : pc[r] = "say" =>
         /\ saw[r].tail <= Len(turns)
         /\ saw[r].greet /\ TailStands(r) => AllClosed

(* Turns are added and sittings closed; nothing said is taken back, and no *)
(* sitting is opened again.                                                *)
Grows(us, ts) ==
    /\ Len(ts) <= Len(us)
    /\ \A p \in 1..Len(ts) :
         us[p].by = ts[p].by /\ us[p].kind = ts[p].kind /\ (ts[p].closed => us[p].closed)

(* Nothing is added but at most one turn, which is not a greeting.         *)
AddsNoOpening(us, ts) ==
    \/ Len(us) = Len(ts)
    \/ Len(us) = Len(ts) + 1 /\ us[Len(us)].kind # "opening"

LEMMA GrowsSame ==
  ASSUME NEW ts \in Seq(TurnRecords)
  PROVE  Grows(ts, ts)
BY DEF Grows

LEMMA GrowsAppended ==
  ASSUME NEW ts \in Seq(TurnRecords), NEW t \in TurnRecords
  PROVE  /\ Grows(Append(ts, t), ts) /\ Len(Append(ts, t)) = Len(ts) + 1
         /\ Append(ts, t)[Len(ts) + 1] = t
BY DEF Grows

LEMMA GrowsFolded ==
  ASSUME NEW ts \in Seq(TurnRecords), NEW n
  PROVE  Grows([ts EXCEPT ![n].folded = TRUE], ts) /\ Len([ts EXCEPT ![n].folded = TRUE]) = Len(ts)
<1> DEFINE us == [ts EXCEPT ![n].folded = TRUE]
<1>1. ts \in [1..Len(ts) -> TurnRecords] /\ Len(ts) \in Nat /\ us \in Seq(TurnRecords)
  BY FoldType
<1>2. Len(us) = Len(ts)
  BY <1>1
<1>3. \A p \in 1..Len(ts) : ts[p] \in TurnRecords /\ us[p] = IF p = n THEN [ts[p] EXCEPT !.folded = TRUE] ELSE ts[p]
  BY <1>1
<1>4. \A t \in TurnRecords : LET u == [t EXCEPT !.folded = TRUE] IN
        u.by = t.by /\ u.kind = t.kind /\ (t.closed => u.closed)
  BY DEF TurnRecords
<1> HIDE DEF us
<1>5. \A p \in 1..Len(ts) : us[p].by = ts[p].by /\ us[p].kind = ts[p].kind /\ (ts[p].closed => us[p].closed)
  BY <1>3, <1>4
<1>6. Grows(us, ts)
  BY <1>1, <1>2, <1>5 DEF Grows
<1> QED BY <1>2, <1>6 DEF us

LEMMA GrowsClosed ==
  ASSUME NEW ts \in Seq(TurnRecords)
  PROVE  Grows(CloseSitting(ts), ts) /\ Len(CloseSitting(ts)) = Len(ts)
<1> DEFINE a == NewestAgent(ts)
           us == [ts EXCEPT ![a].closed = TRUE]
<1>1. ts \in [1..Len(ts) -> TurnRecords] /\ Len(ts) \in Nat /\ Len(CloseSitting(ts)) = Len(ts)
  BY CloseSittingType
<1>2. \A p \in 1..Len(ts) : ts[p] \in TurnRecords /\ us[p] = IF p = a THEN [ts[p] EXCEPT !.closed = TRUE] ELSE ts[p]
  BY <1>1
<1>3. \A t \in TurnRecords : LET u == [t EXCEPT !.closed = TRUE] IN
        u.by = t.by /\ u.kind = t.kind /\ u.closed
  BY DEF TurnRecords
<1>4. CloseSitting(ts) = us \/ CloseSitting(ts) = ts
  BY DEF CloseSitting
<1> HIDE DEF us
<1>5. \A p \in 1..Len(ts) : us[p].by = ts[p].by /\ us[p].kind = ts[p].kind /\ (ts[p].closed => us[p].closed)
  BY <1>2, <1>3
<1> QED BY <1>1, <1>4, <1>5 DEF Grows

LEMMA StillClosed ==
  ASSUME Shaped, Shaped', AllClosed, Grows(turns', turns), Len(turns') = Len(turns)
  PROVE  AllClosed'
<1>1. turns \in Seq(TurnRecords) /\ turns' \in Seq(TurnRecords) /\ Len(turns) \in Nat
  BY DEF Shaped, RowsOK
<1>2. DOMAIN turns = 1..Len(turns) /\ DOMAIN turns' = 1..Len(turns)
  BY <1>1
<1> SUFFICES ASSUME NEW p \in AgentPositions(turns')
             PROVE  \E m \in p..Len(turns') : turns'[m].kind = "postponed" /\ turns'[m].closed
  BY DEF AllClosed
<1>3. p \in 1..Len(turns) /\ p \in AgentPositions(turns)
  BY <1>2 DEF AgentPositions, Grows
<1>4. PICK m \in p..Len(turns) : turns[m].kind = "postponed" /\ turns[m].closed
  BY <1>3 DEF AllClosed
<1>5. m \in 1..Len(turns)
  BY <1>1, <1>3, <1>4
<1> QED BY <1>4, <1>5 DEF Grows

(* Openings already on record stay apart.                                  *)
LEMMA ApartKept ==
  ASSUME Shaped, Shaped', GreetedOncePerSitting, Grows(turns', turns),
         NEW p \in AgentPositions(turns'), NEW q \in AgentPositions(turns'),
         q <= Len(turns), p < q, turns'[p].kind = "opening", turns'[q].kind = "opening"
  PROVE  \E m \in p..q : turns'[m].kind = "postponed" /\ turns'[m].closed
<1>1. turns \in Seq(TurnRecords) /\ turns' \in Seq(TurnRecords) /\ Len(turns) \in Nat
      /\ DOMAIN turns = 1..Len(turns) /\ DOMAIN turns' = 1..Len(turns') /\ Len(turns') \in Nat
  BY DEF Shaped, RowsOK
<1>2. p \in 1..Len(turns) /\ q \in 1..Len(turns)
  BY <1>1 DEF AgentPositions
<1>3. p \in AgentPositions(turns) /\ q \in AgentPositions(turns)
  BY <1>1, <1>2 DEF AgentPositions, Grows
<1>4. turns[p].kind = "opening" /\ turns[q].kind = "opening"
  BY <1>2 DEF Grows
<1>5. PICK m \in p..q : turns[m].kind = "postponed" /\ turns[m].closed
  BY <1>3, <1>4 DEF GreetedOncePerSitting
<1>6. m \in 1..Len(turns)
  BY <1>1, <1>2, <1>5
<1> QED BY <1>5, <1>6 DEF Grows

(* A step of a request that is not about to speak, and does not greet.     *)
LEMMA GreetKept ==
  ASSUME Shaped, Shaped', GreetInv, NEW r \in Reqs, Others(r), pc'[r] # "say",
         Grows(turns', turns), AddsNoOpening(turns', turns)
  PROVE  GreetInv'
<1>b. DOMAIN turns' = 1..Len(turns')
  BY DEF Shaped, RowsOK
<1>1. Len(turns) \in Nat /\ Len(turns') \in Nat
  BY DEF Shaped, RowsOK
<1>0. Len(turns') = Len(turns) \/ Len(turns') = Len(turns) + 1
  BY DEF AddsNoOpening
<1>a. Len(turns') = Len(turns) \/ turns'[Len(turns')].kind # "opening"
  BY DEF AddsNoOpening
<1>2. GreetedOncePerSitting'
  <2> SUFFICES ASSUME NEW p \in AgentPositions(turns'), NEW q \in AgentPositions(turns'),
                      p < q, turns'[p].kind = "opening", turns'[q].kind = "opening"
               PROVE  \E m \in p..q : turns'[m].kind = "postponed" /\ turns'[m].closed
    BY DEF GreetedOncePerSitting
  <2>1. q \in 1..Len(turns')
    BY <1>b DEF AgentPositions
  <2>2. Len(turns') = Len(turns) \/ q # Len(turns')
    BY <1>a
  <2>3. q <= Len(turns)
    BY <1>0, <1>1, <2>1, <2>2
  <2> QED BY <2>3, ApartKept DEF GreetInv
<1>3. ASSUME NEW q \in Reqs, pc'[q] = "say"
      PROVE  saw'[q].tail <= Len(turns') /\ (saw'[q].greet /\ TailStands(q)' => AllClosed')
  <2>1. pc[q] = "say" /\ saw'[q] = saw[q] /\ saw[q].tail \in Nat
    BY <1>3 DEF Others, Shaped, RequestsShaped, Reading
  <2>2. saw[q].tail <= Len(turns)
    BY <2>1 DEF GreetInv
  <2>a. saw[q].greet /\ TailStands(q) => AllClosed
    BY <2>1 DEF GreetInv
  <2>3. saw'[q].tail <= Len(turns')
    BY <1>0, <1>1, <2>1, <2>2
  <2>4. ASSUME saw'[q].greet, TailStands(q)' PROVE AllClosed'
    <3>a. saw[q].tail = Len(turns')
      BY <2>1, <2>4 DEF TailStands
    <3>1. Len(turns') = Len(turns) /\ TailStands(q)
      BY <1>0, <1>1, <2>1, <2>2, <3>a DEF TailStands
    <3>2. AllClosed
      BY <2>1, <2>a, <2>4, <3>1
    <3> QED BY <3>1, <3>2, StillClosed
  <2> QED BY <2>3, <2>4
<1> QED BY <1>2, <1>3 DEF GreetInv

(* Reading that nobody has spoken in this sitting.                         *)
LEMMA NobodyGreeted ==
  ASSUME NEW ts \in Seq(TurnRecords), SittingAgents(ts) = {}
  PROVE  \A p \in AgentPositions(ts) :
           \E m \in p..Len(ts) : ts[m].kind = "postponed" /\ ts[m].closed
<1> DEFINE S == {p \in AgentPositions(ts) : ts[p].kind = "postponed" /\ ts[p].closed}
           m == LastAmong(S)
<1> SUFFICES ASSUME NEW p \in AgentPositions(ts)
             PROVE  \E k \in p..Len(ts) : ts[k].kind = "postponed" /\ ts[k].closed
  OBVIOUS
<1>1. Len(ts) \in Nat /\ p \in 1..Len(ts) /\ S \subseteq 1..Len(ts)
  BY DEF AgentPositions
<1>2. m \in Nat
  BY <1>1, AmongNat
<1>3. ~(p >= m + 1)
  BY DEF SittingAgents, SittingFrom
<1>4. m \in S
  <2>1. m # 0
    BY <1>1, <1>2, <1>3
  <2>2. \E k \in S : IsLast(k, S)
    BY <2>1 DEF LastAmong
  <2> QED BY <2>2 DEF LastAmong
<1>5. m \in p..Len(ts)
  BY <1>1, <1>2, <1>3, <1>4
<1> QED BY <1>4, <1>5

(* The model was asked for a reply: what it was shown of the sitting is    *)
(* what the request remembers.                                             *)
LEMMA GreetProduce ==
  ASSUME Shaped, Shaped', GreetInv, NEW r \in Reqs, Produce(r)
  PROVE  GreetInv'
<1>1. RequestsShaped /\ turns' = turns /\ turns \in Seq(TurnRecords) /\ Len(turns) \in Nat
  BY DEF Produce, Shaped, RowsOK
<1>2. Grows(turns', turns) /\ AddsNoOpening(turns', turns)
  BY <1>1, GrowsSame DEF AddsNoOpening
<1>3. CASE Goto(r, "current") /\ UNCHANGED saw
  <2>1. Others(r) /\ pc'[r] = "current"
    BY <1>1, <1>3, AfterGoto
  <2> QED BY <1>2, <2>1, GreetKept
<1>4. CASE /\ Goto(r, "say")
           /\ Note(r, [Nothing EXCEPT !.tail = Len(turns), !.greet = (SittingAgents(turns) = {})])
  <2> DEFINE what == [Nothing EXCEPT !.tail = Len(turns), !.greet = (SittingAgents(turns) = {})]
  <2>1. Others(r)
    BY <1>1, <1>4, AfterGoto
  <2>2. saw'[r] = what
    BY <1>1, <1>4 DEF Note, RequestsShaped
  <2>3. what.tail = Len(turns) /\ what.greet = (SittingAgents(turns) = {})
    BY DEF Nothing
  <2> HIDE DEF what
  <2>4. saw'[r].tail <= Len(turns')
    BY <1>1, <2>2, <2>3
  <2>5. saw'[r].greet => AllClosed'
    <3>1. SittingAgents(turns) = {} => AllClosed
      BY <1>1, NobodyGreeted DEF AllClosed
    <3>2. AllClosed' <=> AllClosed
      BY <1>1 DEF AllClosed
    <3> QED BY <2>2, <2>3, <3>1, <3>2, Zenon
  <2>6. ASSUME NEW q \in Reqs, q # r, pc'[q] = "say"
        PROVE  saw'[q].tail <= Len(turns') /\ (saw'[q].greet /\ TailStands(q)' => AllClosed')
    <3>1. pc[q] = "say" /\ saw'[q] = saw[q]
      BY <2>1, <2>6 DEF Others
    <3>2. saw[q].tail <= Len(turns)
      BY <3>1 DEF GreetInv
    <3>3. saw[q].greet /\ TailStands(q) => AllClosed
      BY <3>1 DEF GreetInv
    <3>4. AllClosed' <=> AllClosed
      BY <1>1 DEF AllClosed
    <3>5. TailStands(q)' <=> TailStands(q)
      BY <1>1, <3>1 DEF TailStands
    <3> QED BY <1>1, <3>1, <3>2, <3>3, <3>4, <3>5, Zenon
  <2>7. GreetedOncePerSitting'
    BY <1>1 DEF GreetInv, GreetedOncePerSitting
  <2> QED BY <2>4, <2>5, <2>6, <2>7 DEF GreetInv
<1> QED BY <1>3, <1>4 DEF Produce

(* A reply is an opening only where the model was shown a sitting in which *)
(* nobody had spoken.                                                      *)
LEMMA OpeningAnswers ==
  ASSUME NEW ts, NEW greet, "opening" \in RepliesTo(ts, greet)
  PROVE  greet
BY UtterancesAssumption DEF RepliesTo

(* The greeting itself.                                                    *)
LEMMA GreetSaid ==
  ASSUME Shaped, Shaped', GreetInv, NEW r \in Reqs, pc[r] = "say", saw[r].greet, TailStands(r),
         Others(r), pc'[r] # "say", turns' = Append(turns, AgentTurn("opening"))
  PROVE  GreetInv'
<1>b. DOMAIN turns = 1..Len(turns) /\ DOMAIN turns' = 1..Len(turns')
  BY DEF Shaped, RowsOK
<1>1. turns \in Seq(TurnRecords) /\ Len(turns) \in Nat /\ AgentTurn("opening") \in TurnRecords
  BY TurnsOK DEF Shaped, RowsOK, AgentKinds
<1>2. Grows(turns', turns) /\ Len(turns') = Len(turns) + 1
  BY <1>1, GrowsAppended
<1>3. AllClosed
  BY DEF GreetInv
<1>4. GreetedOncePerSitting'
  <2> SUFFICES ASSUME NEW p \in AgentPositions(turns'), NEW q \in AgentPositions(turns'),
                      p < q, turns'[p].kind = "opening", turns'[q].kind = "opening"
               PROVE  \E m \in p..q : turns'[m].kind = "postponed" /\ turns'[m].closed
    BY DEF GreetedOncePerSitting
  <2>1. p \in 1..Len(turns') /\ q \in 1..Len(turns')
    BY <1>b DEF AgentPositions
  <2>2. CASE q <= Len(turns)
    BY <1>2, <2>2, ApartKept DEF GreetInv
  <2>3. CASE ~(q <= Len(turns))
    <3>1. q = Len(turns) + 1 /\ p \in 1..Len(turns)
      BY <1>1, <1>2, <2>1, <2>3
    <3>2. p \in AgentPositions(turns)
      BY <1>b, <1>2, <3>1 DEF AgentPositions, Grows
    <3>3. PICK m \in p..Len(turns) : turns[m].kind = "postponed" /\ turns[m].closed
      BY <1>3, <3>2 DEF AllClosed
    <3>4. m \in 1..Len(turns) /\ m \in p..q
      BY <1>1, <3>1, <3>3
    <3>5. turns'[m].kind = "postponed" /\ turns'[m].closed
      BY <1>2, <3>3, <3>4 DEF Grows
    <3> QED BY <3>4, <3>5
  <2> QED BY <2>2, <2>3
<1>5. ASSUME NEW q \in Reqs, pc'[q] = "say"
      PROVE  saw'[q].tail <= Len(turns') /\ ~TailStands(q)'
  <2>1. pc[q] = "say" /\ saw'[q] = saw[q] /\ saw[q].tail \in Nat
    BY <1>5 DEF Others, Shaped, RequestsShaped, Reading
  <2>2. saw[q].tail <= Len(turns)
    BY <2>1 DEF GreetInv
  <2> QED BY <1>1, <1>2, <2>1, <2>2 DEF TailStands
<1> QED BY <1>4, <1>5 DEF GreetInv

LEMMA GreetSay ==
  ASSUME Shaped, Shaped', GreetInv, NEW r \in Reqs, Say(r)
  PROVE  GreetInv'
<1>1. RequestsShaped /\ turns \in Seq(TurnRecords) /\ pc[r] = "say"
  BY DEF Say, Shaped, RowsOK
<1>2. CASE Goto(r, "current") /\ UNCHANGED <<turns, saw>>
  <2>1. Others(r) /\ pc'[r] = "current"
    BY <1>1, <1>2, AfterGoto
  <2>2. Grows(turns', turns) /\ AddsNoOpening(turns', turns)
    BY <1>1, <1>2, GrowsSame DEF AddsNoOpening
  <2> QED BY <2>1, <2>2, GreetKept
<1>3. CASE /\ TailStands(r)
           /\ \E kind \in RepliesTo(turns, saw[r].greet) :
                /\ turns' = Append(turns, AgentTurn(kind))
                /\ Finish(r) \/ Settle(r, kind)
  <2>1. PICK kind \in RepliesTo(turns, saw[r].greet) :
                /\ turns' = Append(turns, AgentTurn(kind))
                /\ Finish(r) \/ Settle(r, kind)
    BY <1>3
  <2>2. Others(r) /\ pc'[r] \in {"withdraw", "finLoad", "idle"}
    BY <1>1, <2>1, AfterFinish, AfterSettle
  <2>3. CASE kind = "opening"
    <3>1. saw[r].greet
      BY <2>3, OpeningAnswers
    <3> QED BY <1>1, <1>3, <2>1, <2>2, <2>3, <3>1, GreetSaid
  <2>4. CASE kind # "opening"
    <3>1. AgentTurn(kind) \in TurnRecords /\ AgentTurn(kind).kind # "opening"
      BY <2>4, RepliesAreKinds, TurnsOK DEF AgentTurn
    <3>2. Grows(turns', turns) /\ AddsNoOpening(turns', turns)
      BY <1>1, <2>1, <3>1, GrowsAppended DEF AddsNoOpening
    <3> QED BY <2>2, <3>2, GreetKept
  <2> QED BY <2>3, <2>4
<1> QED BY <1>2, <1>3 DEF Say

(* Every other step of the engine.                                         *)
LEMMA GreetEngine ==
  ASSUME Shaped, Shaped', GreetInv, NEW r \in Reqs,
         (\E o \in Ops : Arrive(r, o)) \/ Step(r) \/ FinalizeThrows(r) \/ Abandon(r)
  PROVE  GreetInv'
<1>1. RequestsShaped /\ turns \in Seq(TurnRecords) /\ saw[r] \in Reading
  BY DEF Shaped, RowsOK, RequestsShaped
<1>2. CASE \/ \E o \in Ops : Arrive(r, o)
           \/ Load(r) \/ StartRead(r) \/ Resume(r) \/ Claim(r) \/ Join(r) \/ JoinRead(r)
           \/ JoinCurrent(r) \/ AnswerRead(r) \/ Record(r) \/ ContinueRead(r) \/ Current(r)
           \/ Outcome(r) \/ WithdrawRead(r) \/ HandoffRead(r) \/ WithdrawWrite(r)
           \/ FinalizeLoad(r) \/ FinalizeRead(r) \/ ToQuestions(r) \/ ToClosing(r)
           \/ ToProcessing(r) \/ Evaluate(r) \/ Store(r) \/ Burn(r) \/ Ready(r)
           \/ FinalizeThrows(r) \/ ReleaseRead(r) \/ ReleaseWrite(r) \/ Abandon(r)
  <2>1. Others(r) /\ pc'[r] # "say"
    <3>1. CASE \E o \in Ops : Arrive(r, o)
      <4>1. Others(r) /\ pc'[r] \in {"finLoad", "load"}
        BY <3>1, <1>1 DEF Arrive, Others, Note, RequestsShaped
      <4> QED BY <4>1
    <3>2. CASE \/ Load(r) \/ StartRead(r) \/ Resume(r) \/ Claim(r) \/ Join(r) \/ JoinRead(r)
               \/ JoinCurrent(r) \/ AnswerRead(r) \/ Record(r) \/ ContinueRead(r)
               \/ Current(r) \/ Outcome(r)
      <4>1. Others(r) /\ pc'[r] \in {"read", "resume", "claim", "join", "produce", "joinRead",
                                     "joinCurrent", "record", "outcome", "withdraw", "finLoad",
                                     "idle"}
        BY <3>2, <1>1, AfterGoto, AfterFinish, AfterSettle
        DEF Load, StartRead, Resume, Claim, Join, JoinRead, JoinCurrent, AnswerRead, Record,
            ContinueRead, Current, Outcome
      <4> QED BY <4>1
    <3>3. CASE \/ WithdrawRead(r) \/ HandoffRead(r) \/ WithdrawWrite(r) \/ FinalizeLoad(r)
               \/ FinalizeRead(r) \/ ToQuestions(r) \/ ToClosing(r) \/ ToProcessing(r)
               \/ Evaluate(r) \/ Store(r) \/ Burn(r) \/ Ready(r) \/ FinalizeThrows(r)
               \/ ReleaseRead(r) \/ ReleaseWrite(r) \/ Abandon(r)
      <4>1. Others(r) /\ pc'[r] \in {"handoffRead", "withdrawWrite", "finRead", "questions", "closing",
                                     "processing", "evaluate", "store", "burn", "ready",
                                     "release", "releaseWrite", "idle"}
        BY <3>3, <1>1, AfterGoto, AfterFinish
        DEF WithdrawRead, HandoffRead, WithdrawWrite, FinalizeLoad, FinalizeRead, ToQuestions,
            ToClosing, ToProcessing, Evaluate, Store, Burn, Ready, FinalizeThrows, ReleaseRead,
            ReleaseWrite, Abandon
      <4> QED BY <4>1
    <3> QED BY <1>2, <3>1, <3>2, <3>3
  <2>2. Grows(turns', turns) /\ AddsNoOpening(turns', turns)
    <3>1. CASE Claim(r)
      <4>1. turns' = CloseSitting(turns) \/ turns' = turns
        BY <3>1 DEF Claim
      <4> QED BY <4>1, <1>1, GrowsSame, GrowsClosed DEF AddsNoOpening
    <3>2. CASE Record(r)
      <4> DEFINE kind == IF op[r] = "leave" THEN "leave" ELSE "answer"
                 answer == CandidateTurn(kind, saw[r].asked, saw[r].slot)
                 fold == FirstAmong(AnswersPending(turns))
      <4>1. \/ turns' = turns
            \/ turns' = [turns EXCEPT ![fold].folded = TRUE]
            \/ turns' = Append(turns, answer)
        BY <3>2 DEF Record
      <4>2. saw[r].asked \in Nat /\ saw[r].slot \in Nat
        BY <1>1 DEF Reading
      <4>3. answer \in TurnRecords /\ answer.kind # "opening"
        BY <4>2, TurnsOK DEF CandidateTurn
      <4> HIDE DEF answer, fold
      <4>4. CASE turns' = turns
        BY <4>4, <1>1, GrowsSame DEF AddsNoOpening
      <4>5. CASE turns' = [turns EXCEPT ![fold].folded = TRUE]
        BY <4>5, <1>1, GrowsFolded DEF AddsNoOpening
      <4>6. CASE turns' = Append(turns, answer)
        <5>1. Grows(turns', turns) /\ Len(turns') = Len(turns) + 1 /\ turns'[Len(turns) + 1] = answer
          BY <4>6, <4>3, <1>1, GrowsAppended
        <5> QED BY <5>1, <4>3 DEF AddsNoOpening
      <4> QED BY <4>1, <4>4, <4>5, <4>6
    <3>3. CASE ~Claim(r) /\ ~Record(r)
      <4>1. turns' = turns
        BY <1>2, <3>3
        DEF Arrive, Load, StartRead, Resume, Join, JoinRead, JoinCurrent, AnswerRead,
            ContinueRead, Current, Outcome, WithdrawRead, HandoffRead, WithdrawWrite, FinalizeLoad,
            FinalizeRead, ToQuestions, ToClosing, ToProcessing, Evaluate, Store, Burn, Ready,
            FinalizeThrows, ReleaseRead, ReleaseWrite, Abandon
      <4> QED BY <4>1, <1>1, GrowsSame DEF AddsNoOpening
    <3> QED BY <3>1, <3>2, <3>3
  <2> QED BY <2>1, <2>2, GreetKept
<1> QED BY <1>2, GreetProduce, GreetSay DEF Step

(* Where the routes leave a request, and what they do to the transcript.   *)
LEMMA AfterRoute ==
  ASSUME Shaped, NEW r \in Reqs, RouteStep(r) \/ \E o \in RouteOps : RouteArrive(r, o)
  PROVE  /\ Others(r)
         /\ pc'[r] \in RoutePCs \cup {"finLoad", "idle"}
         /\ turns' = turns \/ turns' = CloseSitting(turns)
         /\ assessments' = assessments
<1>1. RequestsShaped
  BY DEF Shaped
<1>2. CASE \E o \in RouteOps : RouteArrive(r, o)
  <2>1. PICK o \in RouteOps : RouteArrive(r, o)
    BY <1>2
  <2>2. FirstStep(o) \in RoutePCs
    BY RouteOpsAssumption DEF FirstStep, RoutePCs
  <2> QED BY <1>1, <2>1, <2>2 DEF RouteArrive, Others, Note, RequestsShaped
<1>3. CASE RouteStep(r)
  <2>1. Others(r) /\ pc'[r] \in {"openMark", "acceptMark", "consentWrite", "accommodateWrite",
                                 "inviteUpsert", "inviteMark", "inviteState", "resendMark",
                                 "finLoad", "retakeClaim", "sweepNewest", "sweepWrite", "idle"}
    BY <1>1, <1>3, AfterGoto, AfterFinish
    DEF RouteStep, OpenLoad, OpenMark, ResendLoad, ResendMark, Accept, AcceptMark, ConsentLoad,
        ConsentWrite, AccommodateWrite, InviteClose, InviteUpsert, InviteMark, InviteState,
        CancelWrite, ReopenWrite, PartialClaim, RetakeCheck, RetakeClaim, SweepCheck, SweepNewest,
        SweepWrite
  <2>2. /\ turns' = turns \/ turns' = CloseSitting(turns)
        /\ assessments' = assessments
    BY <1>3
    DEF RouteStep, OpenLoad, OpenMark, ResendLoad, ResendMark, Accept, AcceptMark, ConsentLoad,
        ConsentWrite, AccommodateWrite, InviteClose, InviteUpsert, InviteMark, InviteState,
        CancelWrite, ReopenWrite, PartialClaim, RetakeCheck, RetakeClaim, SweepCheck, SweepNewest,
        SweepWrite
  <2> QED BY <2>1, <2>2 DEF RoutePCs
<1> QED BY <1>2, <1>3

LEMMA GreetRoute ==
  ASSUME Shaped, Shaped', GreetInv, NEW r \in Reqs,
         RouteStep(r) \/ \E o \in RouteOps : RouteArrive(r, o)
  PROVE  GreetInv'
<1>1. Others(r) /\ pc'[r] # "say"
  BY AfterRoute DEF RoutePCs
<1>2. Grows(turns', turns) /\ AddsNoOpening(turns', turns)
  <2>1. turns \in Seq(TurnRecords)
    BY DEF Shaped, RowsOK
  <2> QED BY <2>1, AfterRoute, GrowsSame, GrowsClosed DEF AddsNoOpening
<1> QED BY <1>1, <1>2, GreetKept

LEMMA GreetInit == RoutesInit => GreetInv
<1> SUFFICES ASSUME RoutesInit PROVE GreetInv
  OBVIOUS
<1>1. turns = <<>> /\ \A r \in Reqs : pc[r] = "idle"
  BY DEF RoutesInit, EngineInit
<1>2. AgentPositions(turns) = {}
  BY <1>1 DEF AgentPositions
<1> QED BY <1>1, <1>2 DEF GreetInv, GreetedOncePerSitting

LEMMA GreetStep == Shaped /\ Shaped' /\ GreetInv /\ [RoutesNext]_allVars => GreetInv'
<1> SUFFICES ASSUME Shaped, Shaped', GreetInv, [RoutesNext]_allVars PROVE GreetInv'
  OBVIOUS
<1>1. ASSUME NEW r \in Reqs, EngineStep(r) PROVE GreetInv'
  BY <1>1, GreetEngine DEF EngineStep
<1>2. CASE GoQuiet \/ UNCHANGED allVars
  <2>1. turns' = turns /\ pc' = pc /\ saw' = saw
    BY <1>2 DEF GoQuiet, vars, allVars
  <2> QED BY <2>1 DEF GreetInv, GreetedOncePerSitting, TailStands, AllClosed
<1> QED BY <1>1, <1>2, GreetRoute DEF RoutesNext

LEMMA RoutesAlwaysShaped == RoutesSpec => []Shaped
BY RoutesTypeCorrect, RoutesShaped, PTL

(* Whoever starts, resumes, postpones, re-invites or answers, in however   *)
(* many tabs, the candidate is greeted once in every sitting.              *)
THEOREM GreetedOnce == RoutesSpec => []GreetedOncePerSitting
<1>1. GreetInv => GreetedOncePerSitting
  BY DEF GreetInv
<1> QED BY <1>1, GreetInit, GreetStep, RoutesAlwaysShaped, PTL DEF RoutesSpec

----
(* Every request keeps to its own program.                                 *)

(* The operation each of the routes' steps belongs to.                     *)
OriginOf(l) ==
    CASE l \in {"openLoad", "openMark"} -> "open"
      [] l \in {"accept", "acceptMark"} -> "accept"
      [] l \in {"consentLoad", "consentWrite"} -> "consent"
      [] l \in {"accommodateLoad", "accommodateWrite"} -> "accommodate"
      [] l \in {"inviteClose", "inviteUpsert", "inviteMark", "inviteState"} -> "invite"
      [] l \in {"resendLoad", "resendMark"} -> "resend"
      [] l = "cancelWrite" -> "cancel"
      [] l = "reopenWrite" -> "reopen"
      [] l = "partialClaim" -> "partial"
      [] l \in {"retakeCheck", "retakeClaim"} -> "retake"
      [] l \in {"sweepCheck", "sweepNewest", "sweepWrite"} -> "sweep"

OriginInv ==
    \A r \in Reqs : pc[r] \in RoutePCs => op[r] = OriginOf(pc[r]) /\ op[r] \in RouteOps

OthersOp(r) == \A q \in Reqs \ {r} : op'[q] = op[q]

LEMMA AfterGotoOp ==
  ASSUME RequestsShaped, NEW r \in Reqs, NEW l, Goto(r, l)
  PROVE  OthersOp(r) /\ pc'[r] = l /\ op'[r] = op[r]
BY DEF RequestsShaped, Goto, OthersOp

LEMMA AfterFinishOp ==
  ASSUME RequestsShaped, NEW r \in Reqs, Finish(r)
  PROVE  OthersOp(r) /\ pc'[r] = "idle"
BY DEF RequestsShaped, Finish, OthersOp

LEMMA AfterSettleOp ==
  ASSUME RequestsShaped, NEW r \in Reqs, NEW kind, Settle(r, kind)
  PROVE  OthersOp(r) /\ pc'[r] \in {"withdraw", "finLoad", "idle"}
BY AfterGotoOp, AfterFinishOp DEF Settle

(* Where the engine leaves a request.                                      *)
LEMMA AfterEngine ==
  ASSUME Shaped, NEW r \in Reqs,
         (\E o \in Ops : Arrive(r, o)) \/ Step(r) \/ FinalizeThrows(r) \/ Abandon(r)
  PROVE  Others(r) /\ OthersOp(r) /\ pc'[r] \in EnginePCs
<1>1. RequestsShaped
  BY DEF Shaped
<1>2. CASE \E o \in Ops : Arrive(r, o)
  <2>1. Others(r) /\ OthersOp(r) /\ pc'[r] \in {"finLoad", "load"}
    BY <1>1, <1>2 DEF Arrive, Others, OthersOp, Note, RequestsShaped
  <2> QED BY <2>1 DEF EnginePCs
<1>3. CASE \/ Load(r) \/ StartRead(r) \/ Resume(r) \/ Claim(r) \/ Join(r) \/ JoinRead(r)
           \/ JoinCurrent(r) \/ AnswerRead(r) \/ Record(r) \/ ContinueRead(r) \/ Produce(r)
  <2>1. Others(r) /\ OthersOp(r)
        /\ pc'[r] \in {"read", "resume", "claim", "join", "produce", "joinRead",
                       "joinCurrent", "record", "say", "current", "idle"}
    BY <1>1, <1>3, AfterGoto, AfterFinish, AfterGotoOp, AfterFinishOp
    DEF Load, StartRead, Resume, Claim, Join, JoinRead, JoinCurrent, AnswerRead, Record,
        ContinueRead, Produce
  <2> QED BY <2>1 DEF EnginePCs
<1>4. CASE Say(r) \/ Current(r) \/ Outcome(r)
  <2>1. Others(r) /\ OthersOp(r)
        /\ pc'[r] \in {"withdraw", "finLoad", "idle", "current", "outcome"}
    BY <1>1, <1>4, AfterGoto, AfterFinish, AfterSettle, AfterGotoOp, AfterFinishOp, AfterSettleOp
    DEF Say, Current, Outcome
  <2> QED BY <2>1 DEF EnginePCs
<1>5. CASE \/ WithdrawRead(r) \/ HandoffRead(r) \/ WithdrawWrite(r) \/ FinalizeLoad(r)
           \/ FinalizeRead(r) \/ ToQuestions(r) \/ ToClosing(r) \/ ToProcessing(r) \/ Evaluate(r)
           \/ Store(r) \/ Burn(r) \/ Ready(r) \/ FinalizeThrows(r) \/ ReleaseRead(r)
           \/ ReleaseWrite(r) \/ Abandon(r)
  <2>1. Others(r) /\ OthersOp(r)
        /\ pc'[r] \in {"handoffRead", "withdrawWrite", "finRead", "questions", "closing",
                       "processing", "evaluate", "store", "burn", "ready",
                       "release", "releaseWrite", "idle"}
    BY <1>1, <1>5, AfterGoto, AfterFinish, AfterGotoOp, AfterFinishOp
    DEF WithdrawRead, HandoffRead, WithdrawWrite, FinalizeLoad, FinalizeRead, ToQuestions,
        ToClosing, ToProcessing, Evaluate, Store, Burn, Ready, FinalizeThrows, ReleaseRead,
        ReleaseWrite, Abandon
  <2> QED BY <2>1 DEF EnginePCs
<1> QED BY <1>2, <1>3, <1>4, <1>5 DEF Step

LEMMA OriginRoute ==
  ASSUME Shaped, OriginInv, NEW r \in Reqs,
         RouteStep(r) \/ \E o \in RouteOps : RouteArrive(r, o)
  PROVE  OriginInv'
<1>1. RequestsShaped
  BY DEF Shaped
<1>2. Others(r)
  BY AfterRoute
<1>3. CASE \E o \in RouteOps : RouteArrive(r, o)
  <2>1. PICK o \in RouteOps : RouteArrive(r, o)
    BY <1>3
  <2>2. OriginOf(FirstStep(o)) = o
    BY RouteOpsAssumption DEF FirstStep, OriginOf
  <2>3. OthersOp(r) /\ pc'[r] = FirstStep(o) /\ op'[r] = o
    BY <1>1, <2>1 DEF RouteArrive, RequestsShaped, OthersOp
  <2> QED BY <1>2, <2>2, <2>3 DEF OriginInv, Others, OthersOp
<1>4. ASSUME NEW l \in RoutePCs, Goto(r, l), OriginOf(l) = op[r], op[r] \in RouteOps
      PROVE  OriginInv'
  BY <1>1, <1>2, <1>4, AfterGotoOp DEF OriginInv, Others, OthersOp
<1>5. ASSUME Finish(r) \/ Goto(r, "finLoad")
      PROVE  OriginInv'
  <2>1. OthersOp(r) /\ pc'[r] \in {"idle", "finLoad"}
    BY <1>1, <1>5, AfterGotoOp, AfterFinishOp
  <2> QED BY <1>2, <2>1 DEF OriginInv, Others, OthersOp, RoutePCs
<1>6. pc[r] \in RoutePCs => op[r] = OriginOf(pc[r]) /\ op[r] \in RouteOps
  BY DEF OriginInv
<1>7. CASE Accept(r)
  BY <1>4, <1>5, <1>6, <1>7 DEF Accept, RoutePCs, OriginOf
<1>8. CASE \/ OpenMark(r) \/ AcceptMark(r) \/ ConsentWrite(r) \/ AccommodateWrite(r)
           \/ InviteState(r) \/ ResendMark(r) \/ CancelWrite(r) \/ ReopenWrite(r)
           \/ PartialClaim(r) \/ RetakeClaim(r) \/ SweepWrite(r)
  BY <1>5, <1>8 DEF OpenMark, AcceptMark, ConsentWrite, AccommodateWrite, InviteState, ResendMark,
                    CancelWrite, ReopenWrite, PartialClaim, RetakeClaim, SweepWrite
<1>9. CASE ConsentLoad(r)
  <2>1. op[r] = OriginOf(pc[r]) /\ op[r] \in RouteOps
    BY <1>6, <1>9 DEF ConsentLoad, RoutePCs
  <2>2. CASE pc[r] = "consentLoad"
    <3>1. op[r] = "consent" /\ op[r] \in RouteOps
      BY <2>1, <2>2 DEF OriginOf
    <3>2. Goto(r, "consentWrite") \/ Finish(r)
      BY <3>1, <1>9 DEF ConsentLoad
    <3>3. "consentWrite" \in RoutePCs /\ OriginOf("consentWrite") = "consent"
      BY DEF RoutePCs, OriginOf
    <3> QED BY <3>1, <3>2, <3>3, <1>4, <1>5
  <2>3. CASE pc[r] = "accommodateLoad"
    <3>1. op[r] = "accommodate" /\ op[r] \in RouteOps
      BY <2>1, <2>3 DEF OriginOf
    <3>2. Goto(r, "accommodateWrite") \/ Finish(r)
      BY <3>1, <1>9 DEF ConsentLoad
    <3>3. "accommodateWrite" \in RoutePCs /\ OriginOf("accommodateWrite") = "accommodate"
      BY DEF RoutePCs, OriginOf
    <3> QED BY <3>1, <3>2, <3>3, <1>4, <1>5
  <2> QED BY <1>9, <2>2, <2>3 DEF ConsentLoad
<1>10. CASE InviteClose(r)
  BY <1>4, <1>6, <1>10 DEF InviteClose, RoutePCs, OriginOf
<1>11. CASE InviteUpsert(r)
  BY <1>4, <1>6, <1>11 DEF InviteUpsert, RoutePCs, OriginOf
<1>12. CASE InviteMark(r)
  BY <1>4, <1>6, <1>12 DEF InviteMark, RoutePCs, OriginOf
<1>13. CASE RetakeCheck(r)
  BY <1>4, <1>5, <1>6, <1>13 DEF RetakeCheck, RoutePCs, OriginOf
<1>14. CASE SweepCheck(r)
  BY <1>4, <1>5, <1>6, <1>14 DEF SweepCheck, RoutePCs, OriginOf
<1>15. CASE SweepNewest(r)
  BY <1>4, <1>5, <1>6, <1>15 DEF SweepNewest, RoutePCs, OriginOf
<1>16. CASE OpenLoad(r)
  BY <1>4, <1>5, <1>6, <1>16 DEF OpenLoad, RoutePCs, OriginOf
<1>17. CASE ResendLoad(r)
  BY <1>4, <1>5, <1>6, <1>17 DEF ResendLoad, RoutePCs, OriginOf
<1> QED BY <1>3, <1>7, <1>8, <1>9, <1>10, <1>11, <1>12, <1>13, <1>14, <1>15, <1>16, <1>17
    DEF RouteStep

LEMMA OriginInit == RoutesInit => OriginInv
BY DEF RoutesInit, EngineInit, OriginInv, RoutePCs

LEMMA OriginStep == Shaped /\ OriginInv /\ [RoutesNext]_allVars => OriginInv'
<1> SUFFICES ASSUME Shaped, OriginInv, [RoutesNext]_allVars PROVE OriginInv'
  OBVIOUS
<1>1. ASSUME NEW r \in Reqs, EngineStep(r) PROVE OriginInv'
  <2>1. Others(r) /\ OthersOp(r) /\ pc'[r] \in EnginePCs
    BY <1>1, AfterEngine DEF EngineStep
  <2>2. pc'[r] \notin RoutePCs
    BY <2>1 DEF EnginePCs, RoutePCs
  <2> QED BY <2>1, <2>2 DEF OriginInv, Others, OthersOp
<1>2. CASE GoQuiet \/ UNCHANGED allVars
  BY <1>2 DEF GoQuiet, vars, allVars, OriginInv
<1> QED BY <1>1, <1>2, OriginRoute DEF RoutesNext

LEMMA AlwaysOrigin == RoutesSpec => []OriginInv
BY OriginInit, OriginStep, RoutesAlwaysShaped, PTL DEF RoutesSpec

----
(* Nobody is interviewed who has not consented.                            *)

(* An accommodation request writes back the consent it has loaded, so it   *)
(* may undo one given since.  It also takes the session out of the hands   *)
(* of a pending start, unless a reopened handoff or a late re-invite gives *)
(* it back.                                                                *)
ConsentUndoneIsFinal == "accommodate" \notin RouteOps \/ RouteOps \cap {"reopen", "invite"} = {}

(* What a starting request has read of the consent still holds, as long as *)
(* the session can be started.                                             *)
ReadConsent(r) ==
    /\ pc[r] = "read" /\ saw[r].consent => consent
    /\ pc[r] = "claim" => consent

ConsentInv ==
    /\ \A r \in Reqs : pc[r] = "claim" => saw[r].state \in StartableStates
    /\ (state \in StartableStates \/ "accommodate" \notin RouteOps) =>
         \A r \in Reqs : ReadConsent(r)

(* Where a request is that has found the interview under way.              *)
Talking ==
    {"resume", "joinRead", "joinCurrent", "record", "produce", "say", "current", "outcome",
     "withdraw", "handoffRead", "withdrawWrite"}

(* A handoff too writes back the consent it has loaded; but it is reached  *)
(* by talking, and nobody talks before the consent is given, so that       *)
(* nothing is undone.                                                      *)
HeardInv ==
    "accommodate" \notin RouteOps =>
        /\ ~consent =>
             /\ state \notin LiveStates
             /\ \A r \in Reqs :
                  /\ pc[r] \notin Talking
                  /\ pc[r] = "read" => saw[r].state \notin LiveStates
        /\ \A r \in Reqs :
             pc[r] = "withdrawWrite" /\ saw[r].ending = "handoff" => saw[r].consent

(* A step that leaves r where no consent is relied on.                     *)
LEMMA ConsentKept ==
  ASSUME ConsentInv, NEW r \in Reqs, Others(r), pc'[r] \notin {"read", "claim"},
         consent => consent' \/ ("accommodate" \in RouteOps /\ state' \notin StartableStates),
         state' \in StartableStates => state \in StartableStates \/ "accommodate" \notin RouteOps
  PROVE  ConsentInv'
<1>1. \A q \in Reqs : pc'[q] = "claim" => saw'[q].state \in StartableStates
  BY DEF ConsentInv, Others
<1>2. ASSUME state' \in StartableStates \/ "accommodate" \notin RouteOps, NEW q \in Reqs
      PROVE  ReadConsent(q)'
  <2>1. ReadConsent(q)
    BY <1>2 DEF ConsentInv
  <2>2. consent => consent'
    BY <1>2
  <2>3. CASE q # r
    BY <2>1, <2>2, <2>3 DEF Others, ReadConsent
  <2>4. CASE q = r
    BY <2>4 DEF ReadConsent
  <2> QED BY <2>3, <2>4
<1> QED BY <1>1, <1>2 DEF ConsentInv

(* The two steps by which a start comes to rely on the consent.            *)
LEMMA ConsentReads ==
  ASSUME Shaped, ConsentInv, NEW r \in Reqs, Load(r) \/ StartRead(r)
  PROVE  ConsentInv'
<1>1. /\ RequestsShaped /\ saw[r] \in Reading /\ state' = state /\ consent' = consent
      /\ consent \in BOOLEAN
  BY DEF Shaped, RowsOK, RequestsShaped, Load, StartRead, rowVars
<1>2. Others(r)
  BY <1>1, AfterGoto, AfterFinish DEF Load, StartRead
<1>3. CASE Load(r)
  <2>1. pc'[r] = "read"
    BY <1>1, <1>3, AfterGoto DEF Load
  <2>2. saw'[r] = [saw[r] EXCEPT !.state = state, !.consent = consent]
    BY <1>1, <1>3 DEF Load, Note, RequestsShaped
  <2>3. saw'[r].consent = consent
    BY <1>1, <2>2 DEF Reading
  <2>4. ReadConsent(r)'
    BY <1>1, <2>1, <2>3 DEF ReadConsent
  <2>5. \A q \in Reqs \ {r} : ReadConsent(q) => ReadConsent(q)'
    BY <1>1, <1>2 DEF Others, ReadConsent
  <2>6. \A q \in Reqs : pc'[q] = "claim" => saw'[q].state \in StartableStates
    BY <1>2, <2>1 DEF ConsentInv, Others
  <2> QED BY <1>1, <2>4, <2>5, <2>6 DEF ConsentInv
<1>4. CASE StartRead(r) /\ MayStart(r) /\ Goto(r, "claim") /\ Note(r, [saw[r] EXCEPT !.tail = Len(turns)])
  <2>1. pc[r] = "read" /\ pc'[r] = "claim"
    BY <1>1, <1>4, AfterGoto DEF StartRead
  <2>2. saw'[r].state \in StartableStates
    BY <1>1, <1>4 DEF Note, RequestsShaped, Reading, MayStart
  <2>3. ReadConsent(r) => ReadConsent(r)'
    BY <1>1, <1>4, <2>1 DEF MayStart, ReadConsent
  <2>4. \A q \in Reqs \ {r} : ReadConsent(q) => ReadConsent(q)'
    BY <1>1, <1>2 DEF Others, ReadConsent
  <2>5. \A q \in Reqs : pc'[q] = "claim" => saw'[q].state \in StartableStates
    BY <1>2, <2>2 DEF ConsentInv, Others
  <2> QED BY <1>1, <2>3, <2>4, <2>5 DEF ConsentInv
<1>5. CASE StartRead(r) /\ ~(MayStart(r) /\ Goto(r, "claim") /\ Note(r, [saw[r] EXCEPT !.tail = Len(turns)]))
  <2>1. \/ Finish(r)
        \/ Goto(r, "resume") /\ Note(r, [saw[r] EXCEPT !.tail = Len(turns)])
    BY <1>5 DEF StartRead
  <2>2. pc'[r] \in {"idle", "resume"}
    BY <1>1, <2>1, AfterGoto, AfterFinish
  <2> QED BY <1>1, <1>2, <2>2, ConsentKept
<1> QED BY <1>3, <1>4, <1>5

LEMMA ConsentEngine ==
  ASSUME Shaped, HeardInv, ConsentInv, NEW r \in Reqs,
         (\E o \in Ops : Arrive(r, o)) \/ Step(r) \/ FinalizeThrows(r) \/ Abandon(r)
  PROVE  ConsentInv'
<1>1. RequestsShaped
  BY DEF Shaped
<1>2. state' \in StartableStates => state' = state
  BY NeverReopened
<1>3. consent => consent' \/ ("accommodate" \in RouteOps /\ state' \notin StartableStates)
  <2>1. CASE ~WithdrawWrite(r)
    BY <2>1
    DEF Step, Arrive, Load, StartRead, Resume, Claim, Join, JoinRead, JoinCurrent, AnswerRead,
        Record, ContinueRead, Produce, Say, Current, Outcome, WithdrawRead, HandoffRead,
        FinalizeLoad, FinalizeRead, ToQuestions, ToClosing, ToProcessing, Evaluate, Store, Burn,
        Ready, FinalizeThrows, ReleaseRead, ReleaseWrite, Abandon, rowVars
  <2>2. CASE WithdrawWrite(r) /\ ~(saw[r].ending = "handoff" /\ StandsAsRead(r))
    BY <2>2 DEF WithdrawWrite
  <2>3. CASE WithdrawWrite(r) /\ saw[r].ending = "handoff" /\ StandsAsRead(r)
    <3>1. state' = "MANUAL_HANDOFF" /\ consent' = saw[r].consent /\ pc[r] = "withdrawWrite"
      BY <2>3 DEF WithdrawWrite
    <3> QED BY <2>3, <3>1 DEF HeardInv, StartableStates
  <2> QED BY <2>1, <2>2, <2>3
<1>4. CASE ~Load(r) /\ ~StartRead(r)
  <2>1. Others(r)
    BY AfterEngine
  <2>2. pc'[r] \notin {"read", "claim"}
    <3>1. CASE \E o \in Ops : Arrive(r, o)
      <4>1. pc'[r] \in {"finLoad", "load"}
        BY <3>1, <1>1 DEF Arrive, RequestsShaped
      <4> QED BY <4>1
    <3>2. CASE \/ Resume(r) \/ Claim(r) \/ Join(r) \/ JoinRead(r)
               \/ JoinCurrent(r) \/ AnswerRead(r) \/ Record(r) \/ ContinueRead(r)
               \/ Produce(r) \/ Say(r) \/ Current(r) \/ Outcome(r)
      <4>1. pc'[r] \in {"join", "produce", "joinRead", "joinCurrent", "record", "say", "current",
                        "outcome", "withdraw", "finLoad", "idle"}
        BY <3>2, <1>1, AfterGoto, AfterFinish, AfterSettle
        DEF Resume, Claim, Join, JoinRead, JoinCurrent, AnswerRead, Record,
            ContinueRead, Produce, Say, Current, Outcome
      <4> QED BY <4>1
    <3>3. CASE \/ WithdrawRead(r) \/ HandoffRead(r) \/ WithdrawWrite(r) \/ FinalizeLoad(r)
               \/ FinalizeRead(r) \/ ToQuestions(r) \/ ToClosing(r) \/ ToProcessing(r)
               \/ Evaluate(r) \/ Store(r) \/ Burn(r) \/ Ready(r) \/ FinalizeThrows(r)
               \/ ReleaseRead(r) \/ ReleaseWrite(r) \/ Abandon(r)
      <4>1. pc'[r] \in {"handoffRead", "withdrawWrite", "finRead", "questions", "closing",
                        "processing", "evaluate", "store", "burn", "ready",
                        "release", "releaseWrite", "idle"}
        BY <3>3, <1>1, AfterGoto, AfterFinish
        DEF WithdrawRead, HandoffRead, WithdrawWrite, FinalizeLoad, FinalizeRead, ToQuestions,
            ToClosing, ToProcessing, Evaluate, Store, Burn, Ready, FinalizeThrows, ReleaseRead,
            ReleaseWrite, Abandon
      <4> QED BY <4>1
    <3> QED BY <1>4, <3>1, <3>2, <3>3 DEF Step
  <2> QED BY <1>2, <1>3, <2>1, <2>2, ConsentKept
<1> QED BY <1>4, ConsentReads

(* Only reading what an ending is decided on leads to writing it.          *)
LEMMA WritesAfterReading ==
  ASSUME Shaped, NEW r \in Reqs,
         (\E o \in Ops : Arrive(r, o)) \/ Step(r) \/ FinalizeThrows(r) \/ Abandon(r),
         ~WithdrawRead(r), ~HandoffRead(r)
  PROVE  pc'[r] # "withdrawWrite"
<1>1. RequestsShaped
  BY DEF Shaped
<1>2. CASE \E o \in Ops : Arrive(r, o)
  BY <1>1, <1>2 DEF Arrive, RequestsShaped
<1>3. CASE \/ Load(r) \/ StartRead(r) \/ Resume(r) \/ Claim(r) \/ Join(r) \/ JoinRead(r)
           \/ JoinCurrent(r) \/ AnswerRead(r) \/ Record(r) \/ ContinueRead(r)
           \/ Produce(r) \/ Say(r) \/ Current(r) \/ Outcome(r)
  <2>1. pc'[r] \in {"read", "resume", "claim", "join", "produce", "joinRead", "joinCurrent",
                    "record", "say", "current", "outcome", "withdraw", "finLoad", "idle"}
    BY <1>1, <1>3, AfterGoto, AfterFinish, AfterSettle
    DEF Load, StartRead, Resume, Claim, Join, JoinRead, JoinCurrent, AnswerRead, Record,
        ContinueRead, Produce, Say, Current, Outcome
  <2> QED BY <2>1
<1>4. CASE \/ WithdrawWrite(r) \/ FinalizeLoad(r) \/ FinalizeRead(r)
           \/ ToQuestions(r) \/ ToClosing(r) \/ ToProcessing(r) \/ Evaluate(r)
           \/ Store(r) \/ Burn(r) \/ Ready(r)
           \/ FinalizeThrows(r) \/ ReleaseRead(r) \/ ReleaseWrite(r) \/ Abandon(r)
  <2>1. pc'[r] \in {"finRead", "questions", "closing", "processing", "evaluate", "store", "burn",
                    "ready", "release", "releaseWrite", "idle"}
    BY <1>1, <1>4, AfterGoto, AfterFinish
    DEF WithdrawWrite, FinalizeLoad, FinalizeRead, ToQuestions, ToClosing, ToProcessing, Evaluate,
        Store, Burn, Ready, FinalizeThrows, ReleaseRead, ReleaseWrite, Abandon
  <2> QED BY <2>1
<1> QED BY <1>2, <1>3, <1>4 DEF Step

(* A request that has not found the interview under way, in a session that *)
(* is not, does not come to talk.                                          *)
LEMMA UnheardStep ==
  ASSUME Shaped, NEW r \in Reqs,
         (\E o \in Ops : Arrive(r, o)) \/ Step(r) \/ FinalizeThrows(r) \/ Abandon(r),
         pc[r] \notin Talking, pc[r] # "claim", ~Live,
         pc[r] = "read" => saw[r].state \notin LiveStates
  PROVE  /\ pc'[r] \notin Talking
         /\ pc'[r] = "read" => saw'[r].state \notin LiveStates
<1>1. RequestsShaped /\ saw[r] \in Reading
  BY DEF Shaped, RequestsShaped
<1>2. CASE \E o \in Ops : Arrive(r, o)
  <2>1. pc'[r] \in {"finLoad", "load"}
    BY <1>1, <1>2 DEF Arrive, RequestsShaped
  <2> QED BY <2>1 DEF Talking
<1>3. CASE Load(r)
  <2>1. pc'[r] = "read" /\ saw'[r].state = state
    BY <1>1, <1>3, AfterGoto DEF Load, Note, RequestsShaped, Reading
  <2> QED BY <2>1 DEF Talking, Live
<1>4. CASE StartRead(r) \/ AnswerRead(r) \/ ContinueRead(r) \/ Join(r)
  <2>1. Finish(r) \/ (Goto(r, "claim") /\ \E what : Note(r, what))
    BY <1>4 DEF StartRead, AnswerRead, ContinueRead, Join
  <2>2. pc'[r] \in {"idle", "claim"}
    BY <1>1, <2>1, AfterGoto, AfterFinish
  <2> QED BY <2>2 DEF Talking
<1>5. CASE \/ FinalizeLoad(r) \/ FinalizeRead(r)
           \/ ToQuestions(r) \/ ToClosing(r) \/ ToProcessing(r) \/ Evaluate(r)
           \/ Store(r) \/ Burn(r) \/ Ready(r)
           \/ FinalizeThrows(r) \/ ReleaseRead(r) \/ ReleaseWrite(r) \/ Abandon(r)
  <2>1. pc'[r] \in {"finRead", "questions", "closing", "processing", "evaluate", "store", "burn",
                    "ready", "release", "releaseWrite", "idle"}
    BY <1>1, <1>5, AfterGoto, AfterFinish
    DEF FinalizeLoad, FinalizeRead, ToQuestions, ToClosing, ToProcessing, Evaluate,
        Store, Burn, Ready, FinalizeThrows, ReleaseRead, ReleaseWrite, Abandon
  <2> QED BY <2>1 DEF Talking
<1> QED BY <1>2, <1>3, <1>4, <1>5
    DEF Talking, Step, Resume, Claim, JoinRead, JoinCurrent, Record, Produce, Say, Current,
        Outcome, WithdrawRead, HandoffRead, WithdrawWrite

(* Which routes make a session startable, and which undo a consent.        *)
LEMMA ConsentRoute ==
  ASSUME ConsentUndoneIsFinal, Shaped, OriginInv, ConsentInv, NEW r \in Reqs,
         RouteStep(r) \/ \E o \in RouteOps : RouteArrive(r, o)
  PROVE  ConsentInv'
<1>1. Others(r) /\ pc'[r] \notin {"read", "claim"}
  BY AfterRoute DEF RoutePCs
<1>2. CASE AccommodateWrite(r)
  <2>1. "accommodate" \in RouteOps
    BY <1>2 DEF AccommodateWrite, OriginInv, OriginOf, RoutePCs
  <2>2. state' \notin StartableStates
    BY <1>2 DEF AccommodateWrite, StartableStates
  <2>3. \A q \in Reqs : pc'[q] = "claim" => saw'[q].state \in StartableStates
    BY <1>1 DEF ConsentInv, Others
  <2> QED BY <2>1, <2>2, <2>3 DEF ConsentInv
<1>3. CASE InviteState(r) \/ ReopenWrite(r)
  <2>1. op[r] \in RouteOps /\ op[r] \in {"invite", "reopen"}
    BY <1>3 DEF InviteState, ReopenWrite, OriginInv, OriginOf, RoutePCs
  <2>2. "accommodate" \notin RouteOps
    BY <2>1 DEF ConsentUndoneIsFinal
  <2>3. consent' = consent
    BY <1>3 DEF InviteState, ReopenWrite
  <2> QED BY <1>1, <2>2, <2>3, ConsentKept
<1>4. CASE ~AccommodateWrite(r) /\ ~InviteState(r) /\ ~ReopenWrite(r)
  <2>1. consent => consent'
    BY <1>4
    DEF RouteArrive, RouteStep, OpenLoad, OpenMark, ResendLoad, ResendMark, Accept, AcceptMark,
        ConsentLoad, ConsentWrite, InviteClose, InviteUpsert, InviteMark, CancelWrite,
        PartialClaim, RetakeCheck, RetakeClaim, SweepCheck, SweepNewest, SweepWrite, rowVars
  <2>2. state' \in StartableStates => state \in StartableStates
    BY <1>4
    DEF RouteArrive, RouteStep, OpenLoad, OpenMark, ResendLoad, ResendMark, Accept, AcceptMark,
        ConsentLoad, ConsentWrite, InviteClose, InviteUpsert, InviteMark, CancelWrite,
        PartialClaim, RetakeCheck, RetakeClaim, SweepCheck, SweepNewest, SweepWrite, rowVars,
        Walk, SweepTarget, StartableStates
  <2> QED BY <1>1, <2>1, <2>2, ConsentKept
<1> QED BY <1>2, <1>3, <1>4

LEMMA ConsentStep ==
  ASSUME ConsentUndoneIsFinal
  PROVE  Shaped /\ OriginInv /\ HeardInv /\ ConsentInv /\ [RoutesNext]_allVars => ConsentInv'
<1> SUFFICES ASSUME Shaped, OriginInv, HeardInv, ConsentInv, [RoutesNext]_allVars PROVE ConsentInv'
  OBVIOUS
<1>1. ASSUME NEW r \in Reqs, EngineStep(r) PROVE ConsentInv'
  BY <1>1, ConsentEngine DEF EngineStep
<1>2. CASE GoQuiet \/ UNCHANGED allVars
  BY <1>2 DEF GoQuiet, vars, allVars, ConsentInv, ReadConsent
<1> QED BY <1>1, <1>2, ConsentRoute DEF RoutesNext

(* Only the start's claim makes an interview live.                         *)
LEMMA LiveByClaim ==
  ASSUME Shaped, [RoutesNext]_allVars, state \notin LiveStates, state' \in LiveStates
  PROVE  \E r \in Reqs : Claim(r) /\ StandsAsRead(r)
<1>1. ASSUME NEW r \in Reqs, EngineStep(r) PROVE Claim(r) /\ StandsAsRead(r)
  BY <1>1
  DEF EngineStep, Step, Arrive, Load, StartRead, Resume, Claim, Join, JoinRead, JoinCurrent,
      AnswerRead, Record, ContinueRead, Produce, Say, Current, Outcome, WithdrawRead, HandoffRead,
      WithdrawWrite, FinalizeLoad, FinalizeRead, ToQuestions, ToClosing, ToProcessing, Evaluate,
      Store, Burn, Ready, FinalizeThrows, ReleaseRead, ReleaseWrite, Abandon, Walk, rowVars,
      LiveStates
<1>2. ASSUME NEW r \in Reqs, RouteStep(r) \/ \E o \in RouteOps : RouteArrive(r, o) PROVE FALSE
  BY <1>2
  DEF RouteArrive, RouteStep, OpenLoad, OpenMark, ResendLoad, ResendMark, Accept, AcceptMark,
      ConsentLoad, ConsentWrite, AccommodateWrite, InviteClose, InviteUpsert, InviteMark,
      InviteState, CancelWrite, ReopenWrite, PartialClaim, RetakeCheck, RetakeClaim, SweepCheck,
      SweepNewest, SweepWrite, rowVars, Walk, SweepTarget, LiveStates
<1>3. ~GoQuiet /\ ~(UNCHANGED allVars)
  BY DEF GoQuiet, vars, allVars
<1> QED BY <1>1, <1>2, <1>3 DEF RoutesNext

(* While nobody has consented, an engine step leads to no talk, and one    *)
(* that loads the consent to write it back loads it given.                 *)
LEMMA HeardEngine ==
  ASSUME Shaped, ConsentInv, HeardInv, NEW r \in Reqs,
         (\E o \in Ops : Arrive(r, o)) \/ Step(r) \/ FinalizeThrows(r) \/ Abandon(r)
  PROVE  HeardInv'
<1> SUFFICES ASSUME "accommodate" \notin RouteOps PROVE HeardInv'
  BY DEF HeardInv
<1>1. RequestsShaped /\ saw[r] \in Reading /\ consent \in BOOLEAN
  BY DEF Shaped, RequestsShaped, RowsOK
<1>2. Others(r)
  BY AfterEngine
<1>3. CASE HandoffRead(r)
  <2>1. consent
    BY <1>3 DEF HandoffRead, HeardInv, Talking
  <2>2. saw'[r].consent = consent
    BY <1>1, <1>3 DEF HandoffRead, Note, RequestsShaped, Reading
  <2>3. consent' = consent
    BY <1>3 DEF HandoffRead, rowVars
  <2> QED BY <1>2, <2>1, <2>2, <2>3 DEF HeardInv, Others
<1>4. CASE consent /\ ~HandoffRead(r)
  <2>1. consent'
    BY <1>4
    DEF HeardInv, Step, Arrive, Load, StartRead, Resume, Claim, Join, JoinRead, JoinCurrent,
        AnswerRead, Record, ContinueRead, Produce, Say, Current, Outcome, WithdrawRead,
        WithdrawWrite, FinalizeLoad, FinalizeRead, ToQuestions, ToClosing, ToProcessing, Evaluate,
        Store, Burn, Ready, FinalizeThrows, ReleaseRead, ReleaseWrite, Abandon, rowVars
  <2>2. ~(pc'[r] = "withdrawWrite" /\ saw'[r].ending = "handoff")
    <3>1. CASE WithdrawRead(r)
      <4>1. CASE Finish(r)
        BY <1>1, <4>1, AfterFinish
      <4>2. CASE /\ Goto(r, IF saw[r].ending = "handoff" THEN "handoffRead" ELSE "withdrawWrite")
                 /\ Note(r, [saw[r] EXCEPT !.state = state])
        <5>1. saw'[r].ending = saw[r].ending
          BY <1>1, <4>2 DEF Note, RequestsShaped, Reading
        <5>2. pc'[r] = IF saw[r].ending = "handoff" THEN "handoffRead" ELSE "withdrawWrite"
          BY <1>1, <4>2, AfterGoto
        <5> QED BY <5>1, <5>2
      <4> QED BY <3>1, <4>1, <4>2 DEF WithdrawRead
    <3>2. CASE ~WithdrawRead(r)
      <4>1. pc'[r] # "withdrawWrite"
        BY <1>4, <3>2, WritesAfterReading
      <4> QED BY <4>1
    <3> QED BY <3>1, <3>2
  <2> QED BY <1>2, <2>1, <2>2 DEF HeardInv, Others
<1>5. CASE ~consent
  <2>1. /\ pc[r] \notin Talking /\ pc[r] # "claim" /\ ~Live
        /\ pc[r] = "read" => saw[r].state \notin LiveStates
    BY <1>5 DEF HeardInv, ConsentInv, ReadConsent, Live
  <2>2. /\ pc'[r] \notin Talking
        /\ pc'[r] = "read" => saw'[r].state \notin LiveStates
    BY <1>1, <1>5, <2>1, UnheardStep
  <2>3. state' \notin LiveStates /\ consent' = consent
    BY <2>1
    DEF Live, LiveStates, Talking,
        Step, Arrive, Load, StartRead, Resume, Claim, Join, JoinRead, JoinCurrent, AnswerRead,
        Record, ContinueRead, Produce, Say, Current, Outcome, WithdrawRead, HandoffRead,
        WithdrawWrite, FinalizeLoad, FinalizeRead, ToQuestions, ToClosing, ToProcessing, Evaluate,
        Store, Burn, Ready, FinalizeThrows, ReleaseRead, ReleaseWrite, Abandon, Walk, rowVars
  <2> QED BY <1>2, <1>5, <2>2, <2>3 DEF HeardInv, Others, Talking
<1> QED BY <1>1, <1>3, <1>4, <1>5

(* The routes lead to no talk either, and take no consent back without an  *)
(* accommodation request.                                                  *)
LEMMA HeardRoute ==
  ASSUME Shaped, OriginInv, HeardInv, NEW r \in Reqs,
         RouteStep(r) \/ \E o \in RouteOps : RouteArrive(r, o)
  PROVE  HeardInv'
<1> SUFFICES ASSUME "accommodate" \notin RouteOps PROVE HeardInv'
  BY DEF HeardInv
<1>1. Others(r) /\ pc'[r] \notin Talking \cup {"read"}
  BY AfterRoute DEF RoutePCs, Talking
<1>2. ~AccommodateWrite(r)
  BY DEF AccommodateWrite, OriginInv, OriginOf, RoutePCs
<1>3. consent => consent'
  BY <1>2
  DEF RouteArrive, RouteStep, OpenLoad, OpenMark, ResendLoad, ResendMark, Accept, AcceptMark,
      ConsentLoad, ConsentWrite, InviteClose, InviteUpsert, InviteMark, InviteState, CancelWrite,
      ReopenWrite, PartialClaim, RetakeCheck, RetakeClaim, SweepCheck, SweepNewest, SweepWrite,
      rowVars
<1>4. state' \in LiveStates => state' = state
  BY <1>2
  DEF RouteArrive, RouteStep, OpenLoad, OpenMark, ResendLoad, ResendMark, Accept, AcceptMark,
      ConsentLoad, ConsentWrite, InviteClose, InviteUpsert, InviteMark, InviteState, CancelWrite,
      ReopenWrite, PartialClaim, RetakeCheck, RetakeClaim, SweepCheck, SweepNewest, SweepWrite,
      rowVars, Walk, SweepTarget, LiveStates
<1> QED BY <1>1, <1>3, <1>4 DEF HeardInv, Others, Talking

LEMMA HeardStep ==
  Shaped /\ OriginInv /\ ConsentInv /\ HeardInv /\ [RoutesNext]_allVars => HeardInv'
<1> SUFFICES ASSUME Shaped, OriginInv, ConsentInv, HeardInv, [RoutesNext]_allVars PROVE HeardInv'
  OBVIOUS
<1>1. ASSUME NEW r \in Reqs, EngineStep(r) PROVE HeardInv'
  BY <1>1, HeardEngine DEF EngineStep
<1>2. CASE GoQuiet \/ UNCHANGED allVars
  BY <1>2 DEF GoQuiet, vars, allVars, HeardInv
<1> QED BY <1>1, <1>2, HeardRoute DEF RoutesNext

(* An interview never goes live without the candidate's recorded consent,  *)
(* though a start tests the consent it read before its claim; an           *)
(* accommodation request can undo that consent, and this is safe as long   *)
(* as nothing brings a session it handed off back to a startable state.    *)
THEOREM LiveAfterConsent ==
  ASSUME ConsentUndoneIsFinal
  PROVE  RoutesSpec => LiveOnlyWithConsent
<1>1. RoutesInit => ConsentInv /\ HeardInv
  <2> SUFFICES ASSUME RoutesInit PROVE ConsentInv /\ HeardInv
    OBVIOUS
  <2>1. state \in StartableStates /\ \A r \in Reqs : pc[r] = "idle"
    BY FirstStatesAssumption DEF RoutesInit, EngineInit
  <2> QED BY <2>1 DEF ConsentInv, ReadConsent, HeardInv, Talking, StartableStates, LiveStates
<1>2. /\ Shaped /\ ConsentInv /\ [RoutesNext]_allVars
      => [state \notin LiveStates /\ state' \in LiveStates => consent]_allVars
  <2> SUFFICES ASSUME Shaped, ConsentInv, [RoutesNext]_allVars,
                      state \notin LiveStates, state' \in LiveStates
               PROVE  consent
    OBVIOUS
  <2>1. PICK r \in Reqs : Claim(r) /\ StandsAsRead(r)
    BY LiveByClaim
  <2>2. pc[r] = "claim" /\ state \in StartableStates
    BY <2>1 DEF Claim, StandsAsRead, ConsentInv
  <2> QED BY <2>2 DEF ConsentInv, ReadConsent
<1> QED BY <1>1, <1>2, ConsentStep, HeardStep, AlwaysOrigin, RoutesAlwaysShaped, PTL
    DEF RoutesSpec, LiveOnlyWithConsent

----
(* One successor.                                                          *)

(* What the conditional close of a retake relies on: no write that goes by *)
(* id brings the closed session back to a state it can be retaken from.    *)
ClosedStaysClosed == RouteOps \cap {"reopen", "invite", "sweep"} = {}

(* Requests that took the finalisation claim and have not let go of it.    *)
Claimants ==
    {r \in Reqs : pc[r] \in {"evaluate", "store", "burn", "ready", "release", "releaseWrite"}}

(* The claim was taken and let go of: nothing more will be stored.         *)
Spent == Claimants = {} /\ state \in PastClaim

(* A technical failure is what the one claimant leaves when it gives up;   *)
(* a retake closes it for good.                                            *)
RetakeInv ==
    /\ \A r, s \in Claimants : r = s
    /\ Claimants # {} => state \in PastClaim
    /\ state = "TECHNICAL_FAILURE" => Claimants = {}
    /\ state # "INCOMPLETE"
    /\ retakes # 0 => retakes = 1 /\ Spent /\ state # "TECHNICAL_FAILURE"
    /\ \A r \in Reqs : pc[r] \in {"retakeCheck", "retakeClaim"} => Spent
    /\ \A r \in Reqs : pc[r] = "retakeClaim" =>
         assessments = <<>> /\ saw[r].state \in {"INCOMPLETE", "TECHNICAL_FAILURE"}
    /\ \A r \in Reqs : pc[r] = "retakeCheck" =>
         saw[r].state \in {"INCOMPLETE", "TECHNICAL_FAILURE"}

(* A step that neither takes the claim, nor retakes, nor fails.            *)
LEMMA RetakeKept ==
  ASSUME RetakeInv, NEW r \in Reqs, Others(r), Claimants' \subseteq Claimants,
         pc'[r] \notin {"retakeCheck", "retakeClaim"},
         assessments' = assessments \/ Claimants # {}, retakes' = retakes,
         state \in PastClaim => state' \in PastClaim,
         state' = "TECHNICAL_FAILURE" => state = "TECHNICAL_FAILURE" \/ (Claimants # {} /\ Claimants' = {}),
         state' = "INCOMPLETE" => state = "INCOMPLETE"
  PROVE  RetakeInv'
<1>1. \A q \in Reqs : pc'[q] \in {"retakeCheck", "retakeClaim"} =>
        q # r /\ pc'[q] = pc[q] /\ saw'[q] = saw[q]
  BY DEF Others
<1>2. /\ \A q, s \in Claimants' : q = s
      /\ Claimants' # {} => state' \in PastClaim
      /\ state' = "TECHNICAL_FAILURE" => Claimants' = {}
      /\ state' # "INCOMPLETE"
  BY DEF RetakeInv
<1>3. Spent => Spent'
  BY DEF Spent
<1>4. retakes' # 0 => retakes' = 1 /\ Spent' /\ state' # "TECHNICAL_FAILURE"
  BY <1>3 DEF RetakeInv, Spent
<1>5. \A q \in Reqs : pc'[q] \in {"retakeCheck", "retakeClaim"} => Spent'
  BY <1>1, <1>3 DEF RetakeInv
<1>6. \A q \in Reqs : pc'[q] = "retakeClaim" =>
        assessments' = <<>> /\ saw'[q].state \in {"INCOMPLETE", "TECHNICAL_FAILURE"}
  BY <1>1 DEF RetakeInv, Spent
<1>7. \A q \in Reqs : pc'[q] = "retakeCheck" =>
        saw'[q].state \in {"INCOMPLETE", "TECHNICAL_FAILURE"}
  BY <1>1 DEF RetakeInv
<1> QED BY <1>2, <1>4, <1>5, <1>6, <1>7 DEF RetakeInv

LEMMA ClaimantsShrink ==
  ASSUME NEW r \in Reqs, Others(r),
         pc'[r] \in {"evaluate", "store", "burn", "ready", "release", "releaseWrite"} =>
           r \in Claimants
  PROVE  Claimants' \subseteq Claimants
BY DEF Claimants, Others

(* The claim is taken from CLOSING, when it has not been taken before.     *)
LEMMA RetakeTaken ==
  ASSUME Shaped, RetakeInv, NEW r \in Reqs, ToProcessing(r), retakes' = retakes
  PROVE  RetakeInv'
<1>1. RequestsShaped
  BY DEF Shaped
<1>2. CASE state = "CLOSING"
  <2>1. state \notin PastClaim /\ state' = "PROCESSING" /\ "PROCESSING" \in PastClaim
    BY <1>2, PastClaimStates DEF ToProcessing, Walk, PastClaim
  <2>2. Claimants = {} /\ retakes = 0 /\ \A q \in Reqs : pc[q] \notin {"retakeCheck", "retakeClaim"}
    BY <2>1 DEF RetakeInv, Spent
  <2>3. Others(r) /\ pc'[r] = "evaluate"
    BY <1>1, <1>2, AfterGoto DEF ToProcessing
  <2>4. Claimants' = {r}
    BY <2>2, <2>3 DEF Claimants, Others
  <2>5. \A q \in Reqs : pc'[q] \notin {"retakeCheck", "retakeClaim"}
    BY <2>2, <2>3 DEF Others
  <2> QED BY <2>1, <2>2, <2>4, <2>5 DEF RetakeInv
<1>3. CASE state # "CLOSING"
  <2>1. Others(r) /\ pc'[r] = "idle" /\ state' = state /\ assessments' = assessments
    BY <1>1, <1>3, AfterFinish DEF ToProcessing, Walk
  <2>2. Claimants' \subseteq Claimants
    BY <2>1, ClaimantsShrink
  <2> QED BY <2>1, <2>2, RetakeKept
<1> QED BY <1>2, <1>3

(* The claimant's own steps.                                               *)
LEMMA RetakeClaimant ==
  ASSUME Shaped, RetakeInv, NEW r \in Reqs, retakes' = retakes,
         \/ Evaluate(r) \/ Store(r) \/ Burn(r) \/ Ready(r)
         \/ FinalizeThrows(r) \/ ReleaseRead(r) \/ ReleaseWrite(r)
  PROVE  RetakeInv'
<1>1. RequestsShaped
  BY DEF Shaped
<1>2. r \in Claimants
  BY DEF Claimants, Evaluate, Store, Burn, Ready, FinalizeThrows, ReleaseRead, ReleaseWrite
<1>3. /\ Others(r) /\ pc'[r] \in {"store", "burn", "ready", "release", "releaseWrite", "idle"}
      /\ Ready(r) \/ ReleaseWrite(r) => pc'[r] = "idle"
  BY <1>1, AfterGoto, AfterFinish
  DEF Evaluate, Store, Burn, Ready, FinalizeThrows, ReleaseRead, ReleaseWrite
<1>4. Claimants' \subseteq Claimants
  BY <1>2, <1>3, ClaimantsShrink
<1>5. CASE ReleaseWrite(r) \/ Ready(r)
  <2>1. Claimants = {r}
    BY <1>2 DEF RetakeInv
  <2>2. pc'[r] = "idle"
    BY <1>3, <1>5
  <2>3. Claimants' = {}
    BY <1>4, <2>1, <2>2 DEF Claimants
  <2>4. state' \in PastClaim /\ state' # "INCOMPLETE"
    BY <1>5, PastClaimStates DEF ReleaseWrite, Ready
  <2> QED BY <1>2, <1>3, <1>4, <2>3, <2>4, RetakeKept
<1>6. CASE Evaluate(r) \/ Store(r) \/ Burn(r) \/ FinalizeThrows(r) \/ ReleaseRead(r)
  <2>1. state' = state
    BY <1>6 DEF Evaluate, Store, Burn, FinalizeThrows, ReleaseRead, rowVars
  <2> QED BY <1>2, <1>3, <1>4, <2>1, RetakeKept
<1> QED BY <1>5, <1>6

(* Everything else the engine does.                                        *)
LEMMA RetakeEngine ==
  ASSUME Shaped, ClaimInv, RetakeInv, NEW r \in Reqs, retakes' = retakes,
         (\E o \in Ops : Arrive(r, o)) \/ Step(r) \/ FinalizeThrows(r) \/ Abandon(r)
  PROVE  RetakeInv'
<1>1. RequestsShaped
  BY DEF Shaped
<1>2. CASE \/ \E o \in Ops : Arrive(r, o)
           \/ Load(r) \/ StartRead(r) \/ Resume(r) \/ Claim(r) \/ Join(r) \/ JoinRead(r)
           \/ JoinCurrent(r) \/ AnswerRead(r) \/ Record(r) \/ ContinueRead(r) \/ Produce(r)
           \/ Say(r) \/ Current(r) \/ Outcome(r) \/ WithdrawRead(r) \/ HandoffRead(r)
           \/ WithdrawWrite(r) \/ FinalizeLoad(r) \/ FinalizeRead(r) \/ ToQuestions(r)
           \/ ToClosing(r) \/ Abandon(r)
  <2>1. Others(r) /\ pc'[r] \in EnginePCs
    BY AfterEngine
  <2>2. pc'[r] \notin {"retakeCheck", "retakeClaim"}
    BY <2>1 DEF EnginePCs
  <2>3. pc'[r] \notin {"evaluate", "store", "burn", "ready", "release", "releaseWrite"}
    <3>1. CASE \E o \in Ops : Arrive(r, o)
      <4>1. pc'[r] \in {"finLoad", "load"}
        BY <3>1, <1>1 DEF Arrive, RequestsShaped
      <4> QED BY <4>1
    <3>2. CASE \/ Load(r) \/ StartRead(r) \/ Resume(r) \/ Claim(r) \/ Join(r) \/ JoinRead(r)
               \/ JoinCurrent(r) \/ AnswerRead(r) \/ Record(r) \/ ContinueRead(r)
               \/ Produce(r) \/ Say(r) \/ Current(r) \/ Outcome(r)
      <4>1. pc'[r] \in {"read", "resume", "claim", "join", "produce", "joinRead", "joinCurrent",
                        "record", "say", "current", "outcome", "withdraw", "finLoad", "idle"}
        BY <3>2, <1>1, AfterGoto, AfterFinish, AfterSettle
        DEF Load, StartRead, Resume, Claim, Join, JoinRead, JoinCurrent, AnswerRead, Record,
            ContinueRead, Produce, Say, Current, Outcome
      <4> QED BY <4>1
    <3>3. CASE \/ WithdrawRead(r) \/ HandoffRead(r) \/ WithdrawWrite(r) \/ FinalizeLoad(r)
               \/ FinalizeRead(r) \/ ToQuestions(r) \/ ToClosing(r) \/ Abandon(r)
      <4>1. pc'[r] \in {"handoffRead", "withdrawWrite", "finRead", "questions", "closing", "processing", "idle"}
        BY <3>3, <1>1, AfterGoto, AfterFinish
        DEF WithdrawRead, HandoffRead, WithdrawWrite, FinalizeLoad, FinalizeRead, ToQuestions,
            ToClosing, Abandon
      <4> QED BY <4>1
    <3> QED BY <1>2, <3>1, <3>2, <3>3
  <2>4. Claimants' \subseteq Claimants
    BY <2>1, <2>3, ClaimantsShrink
  <2>5. assessments' = assessments
    BY <1>2
    DEF Arrive, Load, StartRead, Resume, Claim, Join, JoinRead, JoinCurrent, AnswerRead, Record,
        ContinueRead, Produce, Say, Current, Outcome, WithdrawRead, HandoffRead, WithdrawWrite,
        FinalizeLoad, FinalizeRead, ToQuestions, ToClosing, Abandon
  <2>6. /\ state \in PastClaim => state' \in PastClaim
        /\ state' = "TECHNICAL_FAILURE" => state = "TECHNICAL_FAILURE"
        /\ state' = "INCOMPLETE" => state = "INCOMPLETE"
    <3>1. CASE Claim(r)
      <4>1. StandsAsRead(r) => state \notin PastClaim
        BY <3>1, PastClaimStates DEF Claim, ClaimInv, StandsAsRead
      <4> QED BY <3>1, <4>1 DEF Claim
    <3>2. CASE WithdrawWrite(r) \/ ToQuestions(r) \/ ToClosing(r)
      BY <3>2, PastClaimStates DEF WithdrawWrite, ToQuestions, ToClosing, Walk
    <3>3. CASE ~Claim(r) /\ ~WithdrawWrite(r) /\ ~ToQuestions(r) /\ ~ToClosing(r)
      <4>1. state' = state
        BY <1>2, <3>3
        DEF Arrive, Load, StartRead, Resume, Join, JoinRead, JoinCurrent, AnswerRead, Record,
            ContinueRead, Produce, Say, Current, Outcome, WithdrawRead, HandoffRead, FinalizeLoad,
            FinalizeRead, Abandon, rowVars
      <4> QED BY <4>1
    <3> QED BY <3>1, <3>2, <3>3
  <2> QED BY <2>1, <2>2, <2>4, <2>5, <2>6, RetakeKept
<1> QED BY <1>2, RetakeTaken, RetakeClaimant DEF Step

(* What the routes that remain do to the state.                            *)
LEMMA RouteWrites ==
  ASSUME ClosedStaysClosed, OriginInv, NEW r \in Reqs,
         RouteStep(r) \/ \E o \in RouteOps : RouteArrive(r, o)
  PROVE  \/ state' = state
         \/ Accept(r) /\ state = "INVITED" /\ state' = "ACCEPTED"
         \/ AccommodateWrite(r) /\ state' = "MANUAL_HANDOFF"
         \/ CancelWrite(r) /\ state' = "CANCELLED"
         \/ PartialClaim(r) /\ state = "INCOMPLETE" /\ state' = "CLOSING"
         \/ RetakeClaim(r) /\ StandsAsRead(r) /\ state' = "CLOSED"
<1>1. pc[r] \notin {"inviteState", "reopenWrite", "sweepWrite"}
  <2>1. pc[r] \in {"inviteState", "reopenWrite", "sweepWrite"} =>
          op[r] \in RouteOps /\ op[r] \in {"invite", "reopen", "sweep"}
    BY DEF OriginInv, OriginOf, RoutePCs
  <2> QED BY <2>1 DEF ClosedStaysClosed
<1>2. CASE \E o \in RouteOps : RouteArrive(r, o)
  BY <1>2 DEF RouteArrive, rowVars
<1>3. CASE RouteStep(r)
  <2>1. CASE \/ OpenLoad(r) \/ OpenMark(r) \/ ResendLoad(r) \/ ResendMark(r)
             \/ AcceptMark(r) \/ ConsentLoad(r) \/ ConsentWrite(r) \/ InviteClose(r)
             \/ InviteUpsert(r) \/ InviteMark(r) \/ RetakeCheck(r) \/ SweepCheck(r)
             \/ SweepNewest(r)
    BY <2>1 DEF OpenLoad, OpenMark, ResendLoad, ResendMark, AcceptMark, ConsentLoad, ConsentWrite,
                InviteClose, InviteUpsert, InviteMark, RetakeCheck, SweepCheck, SweepNewest,
                rowVars
  <2>2. CASE Accept(r)
    BY <2>2 DEF Accept
  <2>3. CASE AccommodateWrite(r) \/ CancelWrite(r)
    BY <2>3 DEF AccommodateWrite, CancelWrite
  <2>4. CASE PartialClaim(r)
    BY <2>4 DEF PartialClaim, Walk
  <2>5. CASE RetakeClaim(r)
    BY <2>5 DEF RetakeClaim
  <2>6. ~InviteState(r) /\ ~ReopenWrite(r) /\ ~SweepWrite(r)
    BY <1>1 DEF InviteState, ReopenWrite, SweepWrite
  <2> QED BY <1>3, <2>1, <2>2, <2>3, <2>4, <2>5, <2>6 DEF RouteStep
<1> QED BY <1>2, <1>3

LEMMA RoutesPastClaim ==
  {"MANUAL_HANDOFF", "CANCELLED", "CLOSED", "TECHNICAL_FAILURE"} \subseteq PastClaim
  /\ PastClaim \cap {"INVITED"} = {}
BY DEF PastClaim, States, SessionStateNames, ExceptionStateNames, StartableStates, LiveStates

LEMMA ClaimRoute ==
  ASSUME ClosedStaysClosed, Shaped, Shaped', OriginInv, ClaimInv, RetakeInv, NEW r \in Reqs,
         RouteStep(r) \/ \E o \in RouteOps : RouteArrive(r, o)
  PROVE  ClaimInv'
<1>1. Others(r) /\ pc'[r] \notin {"evaluate", "store", "claim"} /\ assessments' = assessments
  BY AfterRoute DEF RoutePCs
<1>2. state \in PastClaim => state' \in PastClaim
  BY RouteWrites, RoutesPastClaim DEF RetakeInv
<1>3. RequestsShaped'
  BY DEF Shaped
<1> QED BY <1>1, <1>2, <1>3, ClaimKept

LEMMA RetakeRoute ==
  ASSUME ClosedStaysClosed, Shaped, OriginInv, RetakeInv, NEW r \in Reqs,
         RouteStep(r) \/ \E o \in RouteOps : RouteArrive(r, o)
  PROVE  RetakeInv'
<1>1. /\ RequestsShaped /\ Others(r) /\ pc'[r] \in RoutePCs \cup {"finLoad", "idle"}
      /\ assessments' = assessments
  BY AfterRoute DEF Shaped
<1>2. Claimants' \subseteq Claimants
  BY <1>1, ClaimantsShrink DEF RoutePCs
<1>3. /\ state \in PastClaim => state' \in PastClaim
      /\ state' = "TECHNICAL_FAILURE" => state = "TECHNICAL_FAILURE"
      /\ state' = "INCOMPLETE" => state = "INCOMPLETE"
  BY RouteWrites, RoutesPastClaim DEF RetakeInv
<1>4. CASE RetakeClaim(r) /\ StandsAsRead(r)
  <2>1. saw[r].state = "TECHNICAL_FAILURE" /\ state = "TECHNICAL_FAILURE"
    BY <1>4 DEF RetakeClaim, StandsAsRead, RetakeInv
  <2>2. Claimants = {} /\ retakes = 0
    BY <2>1 DEF RetakeInv
  <2>3. pc'[r] = "idle" /\ state' = "CLOSED" /\ retakes' = retakes + 1
    BY <1>1, <1>4, AfterFinish DEF RetakeClaim
  <2>4. Spent'
    BY <1>2, <2>2, <2>3, RoutesPastClaim DEF Spent
  <2>5. \A q \in Reqs : pc'[q] \in {"retakeCheck", "retakeClaim"} =>
          pc'[q] = pc[q] /\ saw'[q] = saw[q]
    BY <1>1, <2>3 DEF Others
  <2>6. retakes' = 1
    BY <2>2, <2>3
  <2>7. \A q \in Reqs : pc'[q] = "retakeClaim" =>
          assessments' = <<>> /\ saw'[q].state \in {"INCOMPLETE", "TECHNICAL_FAILURE"}
    BY <1>1, <2>5 DEF RetakeInv
  <2>8. \A q \in Reqs : pc'[q] = "retakeCheck" =>
          saw'[q].state \in {"INCOMPLETE", "TECHNICAL_FAILURE"}
    BY <2>5 DEF RetakeInv
  <2> QED BY <1>2, <2>2, <2>3, <2>4, <2>6, <2>7, <2>8 DEF RetakeInv, Spent
<1>5. CASE RetakeCheck(r)
  <2>1. state' = state /\ retakes' = retakes
    BY <1>5 DEF RetakeCheck, rowVars, routeVars
  <2>2. CASE Finish(r)
    <3>1. pc'[r] = "idle"
      BY <1>1, <2>2, AfterFinish
    <3> QED BY <1>1, <1>2, <2>1, <3>1, RetakeKept
  <2>3. CASE assessments = <<>> /\ Goto(r, "retakeClaim") /\ UNCHANGED saw
    <3>1. pc[r] = "retakeCheck" /\ pc'[r] = "retakeClaim" /\ saw' = saw
      BY <1>1, <1>5, <2>3, AfterGoto DEF RetakeCheck
    <3>2. Spent /\ saw[r].state \in {"INCOMPLETE", "TECHNICAL_FAILURE"}
      BY <3>1 DEF RetakeInv
    <3>3. Claimants' = {}
      BY <1>2, <3>2 DEF Spent
    <3>4. Spent'
      BY <2>1, <3>2, <3>3 DEF Spent
    <3>5. \A q \in Reqs : pc'[q] = "retakeClaim" =>
            assessments' = <<>> /\ saw'[q].state \in {"INCOMPLETE", "TECHNICAL_FAILURE"}
      BY <1>1, <2>3, <3>1, <3>2 DEF Others, RetakeInv
    <3>6. \A q \in Reqs : pc'[q] = "retakeCheck" =>
            saw'[q].state \in {"INCOMPLETE", "TECHNICAL_FAILURE"}
      BY <1>1, <3>1 DEF Others, RetakeInv
    <3> QED BY <2>1, <3>3, <3>4, <3>5, <3>6 DEF RetakeInv
  <2> QED BY <1>5, <2>2, <2>3 DEF RetakeCheck
<1>6. CASE RouteArrive(r, "retake")
  <2>1. /\ state \in {"INCOMPLETE", "TECHNICAL_FAILURE"} /\ state' = state /\ retakes' = retakes
        /\ pc'[r] = "retakeCheck" /\ saw'[r] = [Nothing EXCEPT !.state = state]
    BY <1>1, <1>6 DEF RouteArrive, Admits, FirstStep, Note, RequestsShaped, rowVars, routeVars
  <2>2. saw'[r].state = state
    BY <2>1 DEF Nothing
  <2>3. Spent
    BY <2>1, RoutesPastClaim DEF RetakeInv, Spent
  <2>4. Spent' /\ Claimants' = {}
    BY <1>2, <2>1, <2>3 DEF Spent
  <2>5. \A q \in Reqs : pc'[q] = "retakeClaim" =>
          assessments' = <<>> /\ saw'[q].state \in {"INCOMPLETE", "TECHNICAL_FAILURE"}
    BY <1>1, <2>1 DEF Others, RetakeInv
  <2>6. \A q \in Reqs : pc'[q] = "retakeCheck" =>
          saw'[q].state \in {"INCOMPLETE", "TECHNICAL_FAILURE"}
    BY <1>1, <2>1, <2>2 DEF Others, RetakeInv
  <2> QED BY <2>1, <2>4, <2>5, <2>6 DEF RetakeInv
<1>7. CASE /\ ~(RetakeClaim(r) /\ StandsAsRead(r)) /\ ~RetakeCheck(r)
           /\ ~RouteArrive(r, "retake")
  <2>1. retakes' = retakes
    BY <1>7
    DEF RouteArrive, RouteStep, OpenLoad, OpenMark, ResendLoad, ResendMark, Accept, AcceptMark,
        ConsentLoad, ConsentWrite, AccommodateWrite, InviteClose, InviteUpsert, InviteMark,
        InviteState, CancelWrite, ReopenWrite, PartialClaim, RetakeClaim, SweepCheck, SweepNewest,
        SweepWrite, routeVars
  <2>2. pc'[r] \notin {"retakeCheck", "retakeClaim"}
    <3>1. CASE \E o \in RouteOps : RouteArrive(r, o)
      <4>1. PICK o \in RouteOps : RouteArrive(r, o)
        BY <3>1
      <4>2. o # "retake"
        BY <1>7, <4>1
      <4>3. pc'[r] = FirstStep(o)
        BY <1>1, <4>1 DEF RouteArrive, RequestsShaped
      <4> QED BY <4>2, <4>3, RouteOpsAssumption DEF FirstStep
    <3>2. CASE RouteStep(r)
      <4>1. pc'[r] \in {"openMark", "resendMark", "acceptMark", "consentWrite",
                        "accommodateWrite", "inviteUpsert", "inviteMark", "inviteState", "finLoad", "sweepNewest", "sweepWrite",
                        "idle"}
        BY <1>1, <1>7, <3>2, AfterGoto, AfterFinish
        DEF RouteStep, OpenLoad, OpenMark, ResendLoad, ResendMark, Accept, AcceptMark,
            ConsentLoad, ConsentWrite, AccommodateWrite, InviteClose, InviteUpsert, InviteMark,
            InviteState, CancelWrite, ReopenWrite, PartialClaim, RetakeClaim, SweepCheck,
            SweepNewest, SweepWrite
      <4> QED BY <4>1
    <3> QED BY <3>1, <3>2
  <2> QED BY <1>1, <1>2, <1>3, <2>1, <2>2, RetakeKept
<1> QED BY <1>4, <1>5, <1>6, <1>7

LEMMA RetakeInit == RoutesInit => ClaimInv /\ RetakeInv
<1> SUFFICES ASSUME RoutesInit PROVE ClaimInv /\ RetakeInv
  OBVIOUS
<1>1. ClaimInv
  BY ClaimInit DEF RoutesInit
<1>2. \A r \in Reqs : pc[r] = "idle"
  BY DEF RoutesInit, EngineInit
<1>3. state \notin {"TECHNICAL_FAILURE", "INCOMPLETE"} /\ retakes = 0
  BY FirstStatesAssumption DEF RoutesInit, EngineInit, StartableStates
<1>4. Claimants = {}
  BY <1>2 DEF Claimants
<1> QED BY <1>1, <1>2, <1>3, <1>4 DEF RetakeInv

LEMMA RetakeStep ==
  ASSUME ClosedStaysClosed
  PROVE  /\ Shaped /\ Shaped' /\ OriginInv /\ ClaimInv /\ RetakeInv /\ [RoutesNext]_allVars
         => ClaimInv' /\ RetakeInv'
<1> SUFFICES ASSUME Shaped, Shaped', OriginInv, ClaimInv, RetakeInv, [RoutesNext]_allVars
             PROVE  ClaimInv' /\ RetakeInv'
  OBVIOUS
<1>1. ASSUME NEW r \in Reqs, EngineStep(r) PROVE ClaimInv' /\ RetakeInv'
  <2>1. EngineNext /\ retakes' = retakes
    BY <1>1 DEF EngineStep, EngineNext
  <2>2. ClaimInv'
    BY <2>1, ClaimStep
  <2>3. RetakeInv'
    BY <1>1, <2>1, RetakeEngine DEF EngineStep
  <2> QED BY <2>2, <2>3
<1>2. ASSUME NEW r \in Reqs, RouteStep(r) \/ \E o \in RouteOps : RouteArrive(r, o)
      PROVE  ClaimInv' /\ RetakeInv'
  BY <1>2, ClaimRoute, RetakeRoute
<1>3. CASE GoQuiet \/ UNCHANGED allVars
  <2>1. UNCHANGED <<vars, retakes>>
    BY <1>3 DEF GoQuiet, allVars, routeVars
  <2> QED BY <2>1 DEF vars, ClaimInv, OneAssessment, Finalisers, RetakeInv, Spent, Claimants
<1> QED BY <1>1, <1>2, <1>3 DEF RoutesNext

LEMMA AlwaysRetake ==
  ASSUME ClosedStaysClosed
  PROVE  RoutesSpec => [](ClaimInv /\ RetakeInv)
BY RetakeInit, RetakeStep, AlwaysOrigin, RoutesAlwaysShaped, PTL DEF RoutesSpec

(* However many recruiters retake a failed interview, it gets one          *)
(* successor: the conditional close decides, as long as no write by id     *)
(* reopens what it closed.                                                 *)
THEOREM AtMostOneSuccessor ==
  ASSUME ClosedStaysClosed
  PROVE  RoutesSpec => []OneSuccessor
<1>1. RetakeInv => OneSuccessor
  BY DEF RetakeInv, OneSuccessor
<1> QED BY <1>1, AlwaysRetake, PTL

(* An interview replaced by a retake is not scored, though the assessments *)
(* are looked up before the close: the finalisation that failed has let go *)
(* of its claim, and no other can take it.                                 *)
THEOREM RetakesUnscored ==
  ASSUME ClosedStaysClosed
  PROVE  RoutesSpec => RetakeNeverScored
<1>1. RetakeInv /\ [RoutesNext]_allVars => [retakes' # retakes => assessments = <<>>]_allVars
  <2> SUFFICES ASSUME RetakeInv, [RoutesNext]_allVars, retakes' # retakes
               PROVE  assessments = <<>>
    OBVIOUS
  <2>1. \E r \in Reqs : RetakeClaim(r)
    BY DEF RoutesNext, EngineStep, GoQuiet, allVars, routeVars, RouteArrive, RouteStep, OpenLoad,
           OpenMark, ResendLoad, ResendMark, Accept, AcceptMark, ConsentLoad, ConsentWrite,
           AccommodateWrite, InviteClose, InviteUpsert, InviteMark, InviteState, CancelWrite,
           ReopenWrite, PartialClaim, RetakeCheck, SweepCheck, SweepNewest, SweepWrite
  <2> QED BY <2>1 DEF RetakeClaim, RetakeInv
<1> QED BY <1>1, AlwaysRetake, PTL DEF RoutesSpec, RetakeNeverScored
====
