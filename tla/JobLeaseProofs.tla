---- MODULE JobLeaseProofs ----
(***************************************************************************)
(* What holds of JobLease for every number of processes and runs, every    *)
(* lease length and every bound on how late a statement is executed.       *)
(***************************************************************************)
EXTENDS JobLease, TLAPS

(* How far away an expiry is stays in range as time passes, when the row   *)
(* is taken and when it is given up.                                       *)
LEMMA LeftsOK ==
  /\ Lefts \subseteq Int /\ LongGone \in Lefts /\ LongGone < 0
  /\ \A n \in Lefts : Older(n) \in Lefts
  /\ \A l \in 0..MaxLag : TTL - l \in Lefts
BY TTLAssumption, MaxLagAssumption DEF Lefts, LongGone, Older

(* A run moving to another step.                                           *)
LEMMA GotoOK ==
  ASSUME TypeOK, NEW r \in Runs, NEW l \in RunPCs, Goto(r, l)
  PROVE  pc' \in [Runs -> RunPCs] /\ lag' \in [Runs -> 0..MaxLag]
BY MaxLagAssumption DEF TypeOK, Goto

LEMMA ToldOK ==
  ASSUME TypeOK, NEW r \in Runs, NEW n \in Lefts, Told(r, n)
  PROVE  granted' \in [Runs -> Lefts]
BY DEF TypeOK, Told

LEMMA TakeOK ==
  ASSUME TypeOK, NEW r \in Runs
  PROVE  /\ TTL - lag[r] \in Lefts
         /\ Take(r) => lease' \in [holder : Runs, left : Lefts]
<1>1. TTL - lag[r] \in Lefts
  BY LeftsOK DEF TypeOK
<1> QED BY <1>1 DEF Take

----
LEMMA TypeInit == Init => TypeOK
BY LeftsOK, MaxLagAssumption DEF Init, TypeOK, Phases, RunPCs

(* A step of a run.                                                        *)
LEMMA TypeRun ==
  ASSUME TypeOK, NEW r \in Runs, Begin(r) \/ AskRenew(r) \/ RunStep(r)
  PROVE  TypeOK'
<1>1. /\ {"idle", "acquire", "lookup", "insert", "record", "run", "renew", "release"} = RunPCs
      /\ LongGone \in Lefts /\ TTL - lag[r] \in Lefts
  BY LeftsOK, TakeOK DEF RunPCs
<1>2. phase' = phase
  BY DEF Begin, AskRenew, RunStep, TakeExpired, Lookup, Insert, RecordRun, RecordThrows,
         Renew, RenewReplyLost, Finish, Release, ReleaseThrows
<1>3. lease' \in [holder : Runs, left : Lefts] \cup {NoRow}
  <2>1. CASE Take(r) \/ lease' = lease
    BY <2>1, TakeOK DEF TypeOK
  <2>2. CASE Release(r)
    <3>1. CASE lease = NoRow
      BY <3>1, <2>2, RunsAssumption DEF Release, NoRow
    <3>2. CASE lease \in [holder : Runs, left : Lefts]
      BY <3>2, <2>2, <1>1 DEF Release
    <3> QED BY <3>1, <3>2 DEF TypeOK
  <2> QED BY <2>1, <2>2 DEF Begin, AskRenew, RunStep, TakeExpired, Lookup, Insert, RecordRun,
             RecordThrows, Renew, RenewReplyLost, Finish, ReleaseThrows
<1>4. pc' \in [Runs -> RunPCs] /\ lag' \in [Runs -> 0..MaxLag]
  <2>1. CASE \E l \in RunPCs : Goto(r, l)
    BY <2>1, GotoOK
  <2>2. CASE \E l \in RunPCs : pc' = [pc EXCEPT ![r] = l] /\ lag' = lag
    BY <2>2 DEF TypeOK
  <2> QED BY <1>1, <2>1, <2>2
      DEF Begin, AskRenew, RunStep, TakeExpired, Lookup, Insert, RecordRun, RecordThrows,
          Renew, RenewReplyLost, Finish, Release, ReleaseThrows, GoOn, StopWork
<1>5. granted' \in [Runs -> Lefts]
  <2>1. CASE \E n \in {LongGone, TTL - lag[r]} : Told(r, n)
    BY <2>1, <1>1, ToldOK
  <2>2. CASE granted' = granted
    BY <2>2 DEF TypeOK
  <2> QED BY <2>1, <2>2
      DEF Begin, AskRenew, RunStep, TakeExpired, Lookup, Insert, RecordRun, RecordThrows,
          Renew, RenewReplyLost, Finish, Release, ReleaseThrows, GoOn, StopWork
<1> QED BY <1>2, <1>3, <1>4, <1>5 DEF TypeOK

(* A step of a process, or of time.                                        *)
LEMMA TypeProcess ==
  ASSUME TypeOK, NEW i \in Instances,
         Signal(i) \/ EndDrain(i) \/ ReleaseHeldLeases(i) \/ Stop(i)
  PROVE  TypeOK'
<1>1. phase' \in [Instances -> Phases]
  BY DEF TypeOK, Signal, EndDrain, ReleaseHeldLeases, Stop, Phases
<1>2. lease' \in [holder : Runs, left : Lefts] \cup {NoRow}
  <2>1. CASE lease = NoRow
    BY <2>1, RunsAssumption DEF Signal, EndDrain, ReleaseHeldLeases, Stop, NoRow
  <2>2. CASE lease \in [holder : Runs, left : Lefts]
    BY <2>2, LeftsOK DEF Signal, EndDrain, ReleaseHeldLeases, Stop
  <2> QED BY <2>1, <2>2 DEF TypeOK
<1>3. pc' \in [Runs -> RunPCs] /\ lag' \in [Runs -> 0..MaxLag] /\ granted' \in [Runs -> Lefts]
  BY LeftsOK, MaxLagAssumption
  DEF TypeOK, Signal, EndDrain, ReleaseHeldLeases, Stop, RunPCs
<1> QED BY <1>1, <1>2, <1>3 DEF TypeOK

LEMMA TypeTick == TypeOK /\ Tick => TypeOK'
<1> SUFFICES ASSUME TypeOK, Tick PROVE TypeOK'
  OBVIOUS
<1>1. lag' \in [Runs -> 0..MaxLag]
  BY MaxLagAssumption DEF TypeOK, Tick
<1>2. granted' \in [Runs -> Lefts]
  BY LeftsOK DEF TypeOK, Tick
<1>3. lease' \in [holder : Runs, left : Lefts] \cup {NoRow}
  BY LeftsOK DEF TypeOK, Tick
<1> QED BY <1>1, <1>2, <1>3 DEF TypeOK, Tick

LEMMA TypeStep == TypeOK /\ [Next]_vars => TypeOK'
BY TypeRun, TypeProcess, TypeTick DEF Next, vars, TypeOK

(* The row and every run keep their shape, and no statement is executed    *)
(* with a clock older than the bound.                                      *)
THEOREM TypeCorrect == Spec => []TypeOK
BY TypeInit, TypeStep, PTL DEF Spec

----
(* A run that believes it holds the job does hold it.                      *)

LEMMA BelieverInit == Init => BelieverHolds
BY DEF Init, BelieverHolds, Believes

(* The belief of a run other than the one that moves is what it was.       *)
LEMMA OthersBelieve ==
  ASSUME TypeOK, NEW r \in Runs, Begin(r) \/ AskRenew(r) \/ RunStep(r),
         NEW s \in Runs \ {r}
  PROVE  (Believes(s)' <=> Believes(s)) /\ granted'[s] = granted[s]
BY DEF TypeOK, Believes, Begin, AskRenew, RunStep, TakeExpired, Lookup, Insert, RecordRun,
       RecordThrows, Renew, RenewReplyLost, Finish, Release, ReleaseThrows, GoOn, StopWork,
       Goto, Told

(* A statement that takes the row finds no believer but its own run.       *)
LEMMA TakeOusts ==
  ASSUME TypeOK, BelieverHolds, NEW r \in Runs,
         \/ TakeExpired(r) /\ lease # NoRow /\ lease.left + lag[r] < 0
         \/ Insert(r) /\ lease = NoRow
         \/ (Renew(r) \/ RenewReplyLost(r)) /\ lease.holder = r
  PROVE  \A s \in Runs \ {r} : ~Believes(s)
<1> SUFFICES ASSUME NEW s \in Runs \ {r}, Believes(s) PROVE FALSE
  OBVIOUS
<1>1. lease # NoRow /\ lease = [holder |-> s, left |-> granted[s]]
  BY DEF BelieverHolds
<1>2. granted[s] \in Int /\ granted[s] >= 0
  BY LeftsOK DEF TypeOK, Believes
<1>3. lag[r] \in Int /\ lag[r] >= 0
  BY MaxLagAssumption DEF TypeOK
<1>4. lease.left = granted[s] /\ lease.holder = s
  BY <1>1
<1>5. lease.holder # r /\ ~(lease.left + lag[r] < 0)
  BY <1>2, <1>3, <1>4
<1> QED BY <1>1, <1>5

LEMMA BelieverRun ==
  ASSUME TypeOK, BelieverHolds, NEW r \in Runs, Begin(r) \/ AskRenew(r) \/ RunStep(r)
  PROVE  BelieverHolds'
<1>1. CASE /\ \/ TakeExpired(r) /\ lease # NoRow /\ lease.left + lag[r] < 0
              \/ Insert(r) /\ lease = NoRow
              \/ (Renew(r) \/ RenewReplyLost(r)) /\ lease.holder = r /\ lease.left + lag[r] > 0
  <2>1. \A s \in Runs \ {r} : ~Believes(s)'
    BY <1>1, TakeOusts, OthersBelieve
  <2>2. lease' = [holder |-> r, left |-> TTL - lag[r]]
    BY <1>1 DEF TakeExpired, Insert, Renew, RenewReplyLost, StillOwn, Lapsed, Take
  <2>3. lease' # NoRow
    BY <2>2, RunsAssumption DEF NoRow
  <2>4. CASE RenewReplyLost(r)
    <3>1. ~Believes(r)'
      BY <2>4 DEF RenewReplyLost, StopWork, Goto, Believes, TypeOK
    <3> QED BY <2>1, <3>1 DEF BelieverHolds
  <2>5. CASE ~RenewReplyLost(r)
    <3>1. granted'[r] = TTL - lag[r]
      BY <1>1, <2>5 DEF TakeExpired, Insert, Renew, StillOwn, Lapsed, Told, TypeOK
    <3> QED BY <2>1, <2>2, <2>3, <3>1 DEF BelieverHolds
  <2> QED BY <2>4, <2>5
<1>2. CASE Release(r)
  <2>1. ~Believes(r)'
    BY <1>2 DEF Release, GoOn, Goto, Believes, TypeOK
  <2>2. \A s \in Runs \ {r} : Believes(s) => lease' = lease
    BY <1>2 DEF Release, BelieverHolds
  <2> QED BY <1>2, <2>1, <2>2, OthersBelieve DEF BelieverHolds
<1>3. CASE /\ lease' = lease
           /\ \/ ~Believes(r)'
              \/ Believes(r) /\ granted'[r] = granted[r]
  BY <1>3, OthersBelieve DEF BelieverHolds
<1>4. CASE Begin(r) \/ Lookup(r) \/ RecordRun(r) \/ RecordThrows(r) \/ AskRenew(r)
        \/ Finish(r) \/ ReleaseThrows(r)
  <2>1. lease' = lease
    BY <1>4 DEF Begin, Lookup, RecordRun, RecordThrows, AskRenew, Finish, ReleaseThrows
  <2>2. ~Believes(r)' \/ (Believes(r) /\ granted'[r] = granted[r])
    BY <1>4 DEF Begin, Lookup, RecordRun, RecordThrows, AskRenew, Finish, ReleaseThrows,
                GoOn, StopWork, Goto, Believes, TypeOK
  <2> QED BY <2>1, <2>2, <1>3
<1>5. CASE /\ \/ TakeExpired(r) /\ ~(lease # NoRow /\ lease.left + lag[r] < 0)
              \/ Insert(r) /\ lease # NoRow
              \/ Renew(r) /\ ~(lease.holder = r /\ lease.left + lag[r] > 0)
  <2>1. lease' = lease
    BY <1>5 DEF TakeExpired, Insert, Renew, StillOwn, Lapsed
  <2>2. ~Believes(r)'
    BY <1>5 DEF TakeExpired, Insert, Renew, StillOwn, Lapsed, GoOn, StopWork, Goto, Believes, TypeOK
  <2> QED BY <2>1, <2>2, <1>3
<1> QED BY <1>1, <1>2, <1>4, <1>5 DEF RunStep, RenewReplyLost, StillOwn

(* Processes only move towards their end, so they create no belief; and    *)
(* the rows a closing process gives up are those of its own runs.          *)
LEMMA BelieverProcess ==
  ASSUME TypeOK, BelieverHolds, NEW i \in Instances,
         Signal(i) \/ EndDrain(i) \/ ReleaseHeldLeases(i) \/ Stop(i)
  PROVE  BelieverHolds'
<1>1. ASSUME NEW s \in Runs, Believes(s)'
      PROVE  Believes(s) /\ granted'[s] = granted[s] /\ lease' = lease
  <2>1. Home[s] \in Instances
    BY HomeAssumption
  <2>2. CASE Signal(i) \/ EndDrain(i)
    BY <1>1, <2>1, <2>2 DEF Signal, EndDrain, Believes, TypeOK
  <2>3. CASE ReleaseHeldLeases(i)
    <3>1. Believes(s) /\ granted'[s] = granted[s]
      BY <1>1, <2>1, <2>3 DEF ReleaseHeldLeases, Believes, TypeOK
    <3>2. lease.holder = s /\ Home[s] # i
      BY <1>1, <2>3, <3>1 DEF BelieverHolds, ReleaseHeldLeases, Believes, TypeOK
    <3> QED BY <2>3, <3>1, <3>2 DEF ReleaseHeldLeases
  <2>4. CASE Stop(i)
    BY <1>1, <2>1, <2>4 DEF Stop, Believes, TypeOK
  <2> QED BY <2>2, <2>3, <2>4
<1> QED BY <1>1 DEF BelieverHolds

LEMMA BelieverTick == TypeOK /\ BelieverHolds /\ Tick => BelieverHolds'
<1> SUFFICES ASSUME TypeOK, BelieverHolds, Tick, NEW s \in Runs, Believes(s)'
             PROVE  lease' # NoRow /\ lease' = [holder |-> s, left |-> granted'[s]]
  BY DEF BelieverHolds
<1>1. granted[s] \in Int /\ granted'[s] = Older(granted[s]) /\ LongGone < 0
  BY LeftsOK DEF TypeOK, Tick
<1>2. Believes(s)
  BY <1>1 DEF Believes, Tick, Older
<1>3. lease # NoRow /\ lease = [holder |-> s, left |-> granted[s]]
  BY <1>2 DEF BelieverHolds
<1>4. lease' = [holder |-> s, left |-> granted'[s]]
  BY <1>1, <1>3 DEF Tick
<1> QED BY <1>4, RunsAssumption DEF NoRow

LEMMA BelieverStep == TypeOK /\ BelieverHolds /\ [Next]_vars => BelieverHolds'
<1> SUFFICES ASSUME TypeOK, BelieverHolds, [Next]_vars PROVE BelieverHolds'
  OBVIOUS
<1>1. CASE Next
  BY <1>1, BelieverRun, BelieverProcess, BelieverTick DEF Next
<1>2. CASE UNCHANGED vars
  BY <1>2 DEF vars, BelieverHolds, Believes
<1> QED BY <1>1, <1>2

(* While a run believes the job is its own, the row says the same.         *)
THEOREM BelieversHold == Spec => []BelieverHolds
BY BelieverInit, BelieverStep, TypeCorrect, PTL DEF Spec

(* Two runs never both believe that they hold the job.                     *)
THEOREM AtMostOneBeliever == Spec => []OneBeliever
<1>1. BelieverHolds => OneBeliever
  BY DEF BelieverHolds, OneBeliever
<1> QED BY <1>1, BelieversHold, PTL

(* A run that comes to believe finds nobody else believing.                *)
LEMMA NewBeliever ==
  ASSUME TypeOK, BelieverHolds, Next, NEW s \in Runs, ~Believes(s), Believes(s)',
         NEW r \in Runs \ {s}
  PROVE  ~Believes(r)
<1>1. CASE \E q \in Runs : Begin(q) \/ AskRenew(q) \/ RunStep(q)
  <2>1. PICK q \in Runs : Begin(q) \/ AskRenew(q) \/ RunStep(q)
    BY <1>1
  <2>2. q = s
    BY <2>1, OthersBelieve
  <2>3. CASE \/ TakeExpired(s) /\ lease # NoRow /\ lease.left + lag[s] < 0
             \/ Insert(s) /\ lease = NoRow
             \/ (Renew(s) \/ RenewReplyLost(s)) /\ lease.holder = s
    BY <2>3, TakeOusts
  <2>4. CASE \/ Begin(s) \/ Lookup(s) \/ RecordRun(s) \/ RecordThrows(s) \/ AskRenew(s)
             \/ Finish(s) \/ Release(s) \/ ReleaseThrows(s)
    BY <2>4 DEF Begin, Lookup, RecordRun, RecordThrows, AskRenew, Finish, Release, ReleaseThrows,
                GoOn, StopWork, Goto, Told, Believes, TypeOK
  <2>5. CASE \/ TakeExpired(s) /\ ~(lease # NoRow /\ lease.left + lag[s] < 0)
             \/ Insert(s) /\ lease # NoRow
             \/ Renew(s) /\ ~(lease.holder = s)
    BY <2>5 DEF TakeExpired, Insert, Renew, Lapsed, StillOwn, GoOn, StopWork, Goto, Believes, TypeOK
  <2> QED BY <2>1, <2>2, <2>3, <2>4, <2>5 DEF RunStep, RenewReplyLost, StillOwn
<1>2. CASE \E i \in Instances : Signal(i) \/ EndDrain(i) \/ ReleaseHeldLeases(i) \/ Stop(i)
  <2>1. Home[s] \in Instances
    BY HomeAssumption
  <2> QED BY <1>2, <2>1
      DEF Signal, EndDrain, ReleaseHeldLeases, Stop, Believes, TypeOK
<1>3. CASE Tick
  <2>1. granted[s] \in Int /\ granted'[s] = Older(granted[s]) /\ LongGone < 0
    BY <1>3, LeftsOK DEF TypeOK, Tick
  <2> QED BY <1>3, <2>1 DEF Believes, Tick, Older
<1> QED BY <1>1, <1>2, <1>3 DEF Next

LEMMA OwnerIs ==
  ASSUME BelieverHolds
  PROVE  /\ \A r \in Runs : Believes(r) => Owner = r
         /\ (\A r \in Runs : ~Believes(r)) => Owner = "nobody"
<1>1. \A r, s \in Runs : Believes(r) /\ Believes(s) => r = s
  BY DEF BelieverHolds
<1> QED BY <1>1 DEF Owner

LEMMA OwnershipStep ==
  TypeOK /\ BelieverHolds /\ BelieverHolds' /\ [Next]_vars => [Ownership!Next]_Owner
<1> SUFFICES ASSUME TypeOK, BelieverHolds, BelieverHolds', [Next]_vars, Owner' # Owner
             PROVE  Ownership!Next
  OBVIOUS
<1>1. Next
  <2>1. UNCHANGED vars => Owner' = Owner
    BY DEF vars, Owner, Believes
  <2> QED BY <2>1
<1>2. CASE \A r \in Runs : ~Believes(r)
  <2>1. Owner = "nobody"
    BY <1>2, OwnerIs
  <2>2. CASE \E s \in Runs : Believes(s)'
    <3>1. PICK s \in Runs : Believes(s)'
      BY <2>2
    <3>2. Owner' = s
      BY <3>1 DEF Owner, BelieverHolds
    <3> QED BY <2>1, <3>2 DEF Ownership!Next, Ownership!Take
  <2>3. CASE \A s \in Runs : ~Believes(s)'
    BY <2>1, <2>3 DEF Owner
  <2> QED BY <2>2, <2>3
<1>3. CASE \E r \in Runs : Believes(r)
  <2>1. PICK r \in Runs : Believes(r)
    BY <1>3
  <2>2. Owner = r /\ Owner # "nobody"
    BY <2>1, OwnerIs, RunsAssumption
  <2>3. \A s \in Runs \ {r} : ~Believes(s)'
    BY <1>1, <2>1, NewBeliever, OwnerIs
  <2>4. ~Believes(r)'
    <3>1. Believes(r)' => Owner' = r
      BY DEF Owner, BelieverHolds
    <3> QED BY <2>2, <3>1
  <2>5. Owner' = "nobody"
    BY <2>3, <2>4 DEF Owner
  <2> QED BY <2>2, <2>5 DEF Ownership!Next, Ownership!Yield
<1> QED BY <1>2, <1>3

(* The lease implements an owner that changes only through "nobody".       *)
THEOREM LeaseImplementsOwner == Spec => OwnershipKept
<1>1. Init => Ownership!Init
  BY DEF Init, Ownership!Init, Owner, Believes
<1> QED BY <1>1, OwnershipStep, TypeCorrect, BelieversHold, PTL
    DEF Spec, OwnershipKept, Ownership!Spec

(* A renewal on its way carries a clock no older than the one the row was  *)
(* last taken with, so it cannot shorten the lease.                        *)
RenewsForward ==
  \A r \in Runs : pc[r] = "renew" /\ lease.holder = r => lease.left <= TTL - lag[r]

LEMMA ForwardStep == TypeOK /\ RenewsForward /\ [Next]_vars => RenewsForward'
<1> SUFFICES ASSUME TypeOK, RenewsForward, [Next]_vars, NEW s \in Runs,
                    pc'[s] = "renew", lease'.holder = s
             PROVE  lease'.left <= TTL - lag'[s]
  BY DEF RenewsForward
<1>1. lease \in [holder : Runs, left : Lefts] \/ lease = NoRow
  BY DEF TypeOK
<1>2. lag[s] \in Int /\ 0 <= lag[s] /\ lag[s] <= MaxLag
  BY MaxLagAssumption DEF TypeOK
<1>3. TTL \in Int /\ TTL > 0 /\ MaxLag \in Int /\ MaxLag >= 0
  BY TTLAssumption, MaxLagAssumption
<1>4. ASSUME NEW r \in Runs, Begin(r) \/ AskRenew(r) \/ RunStep(r)
      PROVE  lease'.left <= TTL - lag'[s]
  <2>1. CASE r = s
    <3>1. AskRenew(r)
      BY <1>4, <2>1 DEF TypeOK, Begin, RunStep, TakeExpired, Lookup, Insert, RecordRun,
                        RecordThrows, Renew, RenewReplyLost, Finish, Release, ReleaseThrows,
                        GoOn, StopWork, Goto
    <3>2. lag'[s] = 0 /\ lease' = lease
      BY <3>1, <2>1 DEF AskRenew, GoOn, Goto, TypeOK
    <3>3. lease # NoRow
      BY <3>2, RunsAssumption DEF NoRow
    <3> QED BY <3>2, <3>3, <1>1, <1>3 DEF Lefts
  <2>2. CASE r # s
    <3>1. lag'[s] = lag[s] /\ pc'[s] = pc[s]
      BY <1>4, <2>2 DEF TypeOK, Begin, AskRenew, RunStep, TakeExpired, Lookup, Insert,
                        RecordRun, RecordThrows, Renew, RenewReplyLost, Finish, Release,
                        ReleaseThrows, GoOn, StopWork, Goto
    <3>2. lease' = lease
      BY <1>4, <2>2, <1>1, RunsAssumption
      DEF Begin, AskRenew, RunStep, TakeExpired, Lookup, Insert, RecordRun, RecordThrows,
          Renew, RenewReplyLost, Finish, Release, ReleaseThrows, Take, StillOwn, Lapsed, NoRow
    <3> QED BY <3>1, <3>2 DEF RenewsForward
  <2> QED BY <2>1, <2>2
<1>5. ASSUME NEW i \in Instances, Signal(i) \/ EndDrain(i) \/ ReleaseHeldLeases(i) \/ Stop(i)
      PROVE  lease'.left <= TTL - lag'[s]
  <2>1. pc[s] = "renew" /\ lag'[s] = lag[s]
    BY <1>5 DEF Signal, EndDrain, ReleaseHeldLeases, Stop, TypeOK
  <2>2. lease.holder = s
    BY <1>5, <1>1 DEF Signal, EndDrain, ReleaseHeldLeases, Stop, NoRow
  <2>3. lease.left <= TTL - lag[s]
    BY <2>1, <2>2 DEF RenewsForward
  <2>4. CASE lease' = lease
    BY <2>1, <2>3, <2>4
  <2>5. CASE lease' = [lease EXCEPT !.left = LongGone]
    <3>1. lease # NoRow
      BY <2>2, RunsAssumption DEF NoRow
    <3>2. lease'.left = LongGone
      BY <2>5, <3>1, <1>1
    <3> QED BY <2>1, <3>2, <1>2, <1>3 DEF LongGone
  <2> QED BY <1>5, <2>4, <2>5 DEF Signal, EndDrain, ReleaseHeldLeases, Stop
<1>6. ASSUME Tick
      PROVE  lease'.left <= TTL - lag'[s]
  <2>1. lease # NoRow
    BY <1>6, RunsAssumption DEF Tick, NoRow
  <2>2. pc[s] = "renew" /\ lag'[s] = lag[s] + 1 /\ lag[s] < MaxLag
    BY <1>6 DEF Tick, Waiting, TypeOK
  <2>3. lease.holder = s /\ lease'.left = Older(lease.left) /\ lease.left \in Int
    BY <1>6, <1>1, <2>1, LeftsOK DEF Tick
  <2>4. lease.left <= TTL - lag[s]
    BY <2>2, <2>3 DEF RenewsForward
  <2> QED BY <2>2, <2>3, <2>4, <1>2, <1>3 DEF Older, LongGone
<1>7. CASE UNCHANGED vars
  BY <1>7 DEF vars, RenewsForward
<1> QED BY <1>4, <1>5, <1>6, <1>7 DEF Next

(* A lease that has not run out is shortened only by its own run, or by    *)
(* the process of that run when it shuts down.                             *)
THEOREM NothingForeignReleased == Spec => NoForeignRelease
<1> DEFINE Kept == lease # NoRow /\ lease.left >= 0 /\ lease'.left < lease.left - 1 =>
                     (pc[lease.holder] = "release" \/ phase[Home[lease.holder]] = "closing")
<1>1. TypeOK /\ RenewsForward /\ [Next]_vars => [Kept]_vars
  <2> SUFFICES ASSUME TypeOK, RenewsForward, Next, lease # NoRow, lease.left >= 0,
                      lease'.left < lease.left - 1
               PROVE  pc[lease.holder] = "release" \/ phase[Home[lease.holder]] = "closing"
    BY DEF vars
  <2>1. lease.holder \in Runs /\ lease.left \in Int
    BY LeftsOK DEF TypeOK
  <2>2. ASSUME NEW r \in Runs, Begin(r) \/ AskRenew(r) \/ RunStep(r)
        PROVE  pc[lease.holder] = "release"
    <3>1. lag[r] \in Int /\ lag[r] >= 0 /\ TTL \in Int
      BY MaxLagAssumption, TTLAssumption DEF TypeOK
    <3>2. CASE Release(r)
      BY <3>2, <2>1 DEF Release
    <3>3. CASE lease' = lease
      BY <3>3, <2>1
    <3>4. CASE TakeExpired(r) \/ Insert(r)
      BY <3>1, <3>4, <2>1 DEF TakeExpired, Insert, Lapsed
    <3>5. CASE (Renew(r) \/ RenewReplyLost(r)) /\ lease.holder = r
      <4>1. lease.left <= TTL - lag[r]
        BY <3>5 DEF RenewsForward, Renew, RenewReplyLost
      <4>2. lease' = lease \/ lease'.left = TTL - lag[r]
        BY <3>5 DEF Renew, RenewReplyLost, Take
      <4> QED BY <4>1, <4>2, <3>1, <2>1
    <3> QED BY <2>2, <3>2, <3>3, <3>4, <3>5
        DEF Begin, AskRenew, RunStep, Lookup, RecordRun, RecordThrows, Renew, RenewReplyLost,
            Finish, ReleaseThrows, StillOwn
  <2>3. CASE \E i \in Instances : Signal(i) \/ EndDrain(i) \/ ReleaseHeldLeases(i) \/ Stop(i)
    BY <2>1, <2>3 DEF Signal, EndDrain, ReleaseHeldLeases, Stop
  <2>4. CASE Tick
    BY <2>1, <2>4 DEF Tick, Older
  <2> QED BY <2>2, <2>3, <2>4 DEF Next
<1>2. Init => RenewsForward
  BY DEF Init, RenewsForward
<1> QED BY <1>1, <1>2, TypeCorrect, ForwardStep, PTL DEF Spec, NoForeignRelease

====
