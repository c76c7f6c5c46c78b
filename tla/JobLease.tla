---- MODULE JobLease ----
(***************************************************************************)
(* Background jobs under a database lease (services/jobs.ts) on several    *)
(* server processes, and what their shutdown does to it                    *)
(* (services/shutdown.ts, with the close steps index.ts gives it).         *)
(*                                                                         *)
(* One job, one JobLease row.  Time is relative: `left` is how far away    *)
(* the row's expiresAt is, `lag` how long ago a request read the clock it  *)
(* is about to use, so that a statement the database is slow to run is     *)
(* judged with an old clock, as in the code.                               *)
(***************************************************************************)
EXTENDS Integers

CONSTANTS
    Instances, \* server processes; a restart is another process (INSTANCE_ID is random)
    Runs,      \* run slots: ticks of the job's timer that are being worked on
    Home,      \* the process each run slot belongs to
    TTL,       \* ttlMs
    MaxLag     \* bound: a statement reaches the database within MaxLag ticks

ASSUME RunsAssumption == "nobody" \notin Runs
ASSUME HomeAssumption == Home \in [Runs -> Instances]
ASSUME TTLAssumption == TTL \in Nat \ {0}
ASSUME MaxLagAssumption == MaxLag \in Nat

VARIABLES
    phase,   \* each process: up, draining, closing, exiting, down
    lease,   \* the JobLease row
    pc,      \* where each run is
    lag,     \* how long ago the run read the clock its next statement carries
    granted  \* how far away the expiry is that the run was last told of

vars == <<phase, lease, pc, lag, granted>>

NoRow == [holder |-> "nobody", left |-> 0]

(* expiresAt = 0, and every expiry too old for any clock to tell apart.    *)
LongGone == -(MaxLag + 1)

(* A run waiting for the database to execute a statement that carries the  *)
(* clock it read.                                                          *)
Waiting(r) == pc[r] \in {"acquire", "lookup", "insert", "renew"}

Init ==
    /\ phase = [i \in Instances |-> "up"]
    /\ lease = NoRow
    /\ pc = [r \in Runs |-> "idle"]
    /\ lag = [r \in Runs |-> 0]
    /\ granted = [r \in Runs |-> LongGone]

(* Run r goes to l with a clock not read yet; what it was told about the   *)
(* lease matters as long as it works.                                      *)
Goto(r, l) ==
    /\ pc' = [pc EXCEPT ![r] = l]
    /\ lag' = [lag EXCEPT ![r] = 0]

Told(r, left) == granted' = [granted EXCEPT ![r] = left]

GoOn(r, l) == Goto(r, l) /\ UNCHANGED granted
StopWork(r, l) == Goto(r, l) /\ Told(r, LongGone)

(* Mutant: the delay of the statement is added instead of taken off.       *)
TakeAhead(r) == lease' = [holder |-> r, left |-> TTL + lag[r]]

(* The row is r's for TTL from the clock r read.                           *)
Take(r) == lease' = [holder |-> r, left |-> TTL - lag[r]]

----
(* A run: runExclusive and runUnderLease.                                  *)

(* The timer ticks in a process that has not stopped its jobs, whatever    *)
(* earlier runs of the job are still doing.                                *)
Begin(r) ==
    /\ pc[r] = "idle" /\ phase[Home[r]] = "up"
    /\ GoOn(r, "acquire")
    /\ UNCHANGED <<phase, lease>>

(* Mutants: the comparison one off, and the wrong way round.               *)
LapsedEarly(r) == lease # NoRow /\ lease.left + lag[r] <= 0
LapsedReversed(r) == lease # NoRow /\ lease.left + lag[r] > 0

(* The row has run out, by the clock the run read.                         *)
Lapsed(r) == lease # NoRow /\ lease.left + lag[r] < 0

(* acquireLease: take the row if it has expired ...                        *)
TakeExpired(r) ==
    /\ pc[r] = "acquire"
    /\ IF Lapsed(r)
       THEN Take(r) /\ Told(r, TTL - lag[r]) /\ Goto(r, "record")
       ELSE pc' = [pc EXCEPT ![r] = "lookup"] /\ UNCHANGED <<lease, lag, granted>>
    /\ UNCHANGED phase

(* ... else see whether there is one ...                                   *)
Lookup(r) ==
    /\ pc[r] = "lookup"
    /\ IF lease = NoRow
       THEN pc' = [pc EXCEPT ![r] = "insert"] /\ UNCHANGED <<lag, granted>>
       ELSE GoOn(r, "idle")
    /\ UNCHANGED <<phase, lease>>

(* ... and create it, which fails if another run was faster.               *)
Insert(r) ==
    /\ pc[r] = "insert"
    /\ IF lease = NoRow
       THEN Take(r) /\ Told(r, TTL - lag[r]) /\ Goto(r, "record")
       ELSE GoOn(r, "idle") /\ UNCHANGED lease
    /\ UNCHANGED phase

(* jobRun.create.  It stands before the try, so when it throws nothing     *)
(* releases the lease.                                                     *)
RecordRun(r) ==
    /\ pc[r] = "record"
    /\ GoOn(r, "run")
    /\ UNCHANGED <<phase, lease>>

RecordThrows(r) ==
    /\ pc[r] = "record"
    /\ StopWork(r, "idle")
    /\ UNCHANGED <<phase, lease>>

(* The job asks for more time (leaseHandle.renew) ...                      *)
AskRenew(r) ==
    /\ pc[r] = "run"
    /\ GoOn(r, "renew")
    /\ UNCHANGED <<phase, lease>>

(* Mutant: any row that has not run out can be renewed.                    *)
Anyones(r) == lease # NoRow /\ lease.left + lag[r] > 0

(* The row carries the run's token and has not run out.                    *)
StillOwn(r) == lease.holder = r /\ lease.left + lag[r] > 0

(* ... and gets it while the row is still its own and still running; told  *)
(* that it has lost the lease, it stops.                                   *)
Renew(r) ==
    /\ pc[r] = "renew"
    /\ IF StillOwn(r)
       THEN Take(r) /\ Told(r, TTL - lag[r]) /\ Goto(r, "run")
       ELSE StopWork(r, "release") /\ UNCHANGED lease
    /\ UNCHANGED phase

(* The statement took effect and its reply was lost.                       *)
RenewReplyLost(r) ==
    /\ pc[r] = "renew"
    /\ StillOwn(r)
    /\ Take(r) /\ StopWork(r, "release")
    /\ UNCHANGED phase

(* The job returns or throws.                                              *)
Finish(r) ==
    /\ pc[r] = "run"
    /\ StopWork(r, "release")
    /\ UNCHANGED <<phase, lease>>

(* Mutant: the row is given up whoever holds it by now.                    *)
ReleaseAnyones(r) ==
    /\ pc[r] = "release"
    /\ lease' = IF lease = NoRow THEN NoRow ELSE [lease EXCEPT !.left = LongGone]
    /\ GoOn(r, "idle")
    /\ UNCHANGED phase

(* releaseLease: only a row that carries this run's own token.             *)
Release(r) ==
    /\ pc[r] = "release"
    /\ lease' = IF lease.holder = r THEN [lease EXCEPT !.left = LongGone] ELSE lease
    /\ GoOn(r, "idle")
    /\ UNCHANGED phase

(* Its errors are swallowed.                                               *)
ReleaseThrows(r) ==
    /\ pc[r] = "release"
    /\ GoOn(r, "idle")
    /\ UNCHANGED <<phase, lease>>

----
(* Processes.                                                              *)

(* A signal: stopAllJobs.  Runs in progress go on.                         *)
Signal(i) ==
    /\ phase[i] = "up"
    /\ phase' = [phase EXCEPT ![i] = "draining"]
    /\ UNCHANGED <<lease, pc, lag, granted>>

(* Everything is idle, or the drain window is over: the close steps begin. *)
EndDrain(i) ==
    /\ phase[i] = "draining"
    /\ phase' = [phase EXCEPT ![i] = "closing"]
    /\ UNCHANGED <<lease, pc, lag, granted>>

(* releaseHeldLeases: every row that carries a token of this process.      *)
ReleaseHeldLeases(i) ==
    /\ phase[i] = "closing"
    /\ lease' = IF lease.holder \in {r \in Runs : Home[r] = i}
                THEN [lease EXCEPT !.left = LongGone] ELSE lease
    /\ phase' = [phase EXCEPT ![i] = "exiting"]
    /\ UNCHANGED <<pc, lag, granted>>

(* The process ends: at the end of the close steps, at a second signal, or *)
(* in a crash.                                                             *)
Stop(i) ==
    /\ phase[i] # "down"
    /\ phase' = [phase EXCEPT ![i] = "down"]
    /\ pc' = [r \in Runs |-> IF Home[r] = i THEN "idle" ELSE pc[r]]
    /\ lag' = [r \in Runs |-> IF Home[r] = i THEN 0 ELSE lag[r]]
    /\ granted' = [r \in Runs |-> IF Home[r] = i THEN LongGone ELSE granted[r]]
    /\ UNCHANGED lease

Older(n) == IF n = LongGone THEN n ELSE n - 1

Tick ==
    /\ \A r \in Runs : Waiting(r) => lag[r] < MaxLag
    /\ lag' = [r \in Runs |-> IF Waiting(r) THEN lag[r] + 1 ELSE 0]
    /\ lease' = IF lease = NoRow THEN NoRow ELSE [lease EXCEPT !.left = Older(lease.left)]
    /\ granted' = [r \in Runs |-> Older(granted[r])]
    /\ UNCHANGED <<phase, pc>>

RunStep(r) ==
    \/ TakeExpired(r) \/ Lookup(r) \/ Insert(r)
    \/ RecordRun(r) \/ RecordThrows(r)
    \/ Renew(r) \/ RenewReplyLost(r) \/ Finish(r)
    \/ Release(r) \/ ReleaseThrows(r)

Next ==
    \/ \E r \in Runs : Begin(r) \/ AskRenew(r) \/ RunStep(r)
    \/ \E i \in Instances : Signal(i) \/ EndDrain(i) \/ ReleaseHeldLeases(i) \/ Stop(i)
    \/ Tick

Spec == Init /\ [][Next]_vars

(* Clocks run; timers tick, statements return and jobs end; the insert     *)
(* that records a run does not fail every time.                            *)
RunRecorded == \E r \in Runs : RecordRun(r)

Fairness ==
    /\ WF_vars(Tick)
    /\ \A r \in Runs : WF_vars(Begin(r) \/ RunStep(r))
    /\ SF_vars(RunRecorded)

FairSpec == Spec /\ Fairness

----
(* Properties.                                                             *)

Phases == {"up", "draining", "closing", "exiting", "down"}
RunPCs == {"idle", "acquire", "lookup", "insert", "record", "run", "renew", "release"}
Lefts == {n \in Int : LongGone <= n /\ n <= TTL}

(* Rows, clocks and runs keep their shape, and no clock is older than the  *)
(* bound.                                                                  *)
TypeOK ==
    /\ phase \in [Instances -> Phases]
    /\ lease \in [holder : Runs, left : Lefts] \cup {NoRow}
    /\ pc \in [Runs -> RunPCs]
    /\ lag \in [Runs -> 0..MaxLag]
    /\ granted \in [Runs -> Lefts]

(* Run r works in the belief that the job is its own: it was told so until *)
(* a time that has not passed, and its process has not reached the close   *)
(* steps.                                                                  *)
Believes(r) ==
    /\ pc[r] \in {"record", "run", "renew"}
    /\ granted[r] >= 0
    /\ phase[Home[r]] \in {"up", "draining"}

(* Two runs can never both believe they hold the job, in one process or in *)
(* two, however late their statements reach the database and whatever      *)
(* lapses, crashes and shutdowns happen meanwhile (leaseHandle, jobs.ts).  *)
OneBeliever == \A r, s \in Runs : Believes(r) /\ Believes(s) => r = s

(* What makes it so: while a run believes, the row carries its token and   *)
(* exactly the expiry it was told.                                         *)
BelieverHolds ==
    \A r \in Runs : Believes(r) => lease # NoRow /\ lease = [holder |-> r, left |-> granted[r]]

(* The job as JobOwner sees it.                                            *)
Owner ==
    IF \E r \in Runs : Believes(r) THEN CHOOSE r \in Runs : Believes(r) ELSE "nobody"

Ownership == INSTANCE JobOwner WITH owner <- Owner

(* Ownership passes from one run to another only through a moment in which *)
(* neither believes: no takeover, renewal or shutdown hands the job over   *)
(* under a run that is still at work (acquireLease, leaseHandle.renew).    *)
OwnershipKept == Ownership!Spec

(* A lease that has not run out is given up by nobody but the run whose    *)
(* token it carries, or the process of that run when it shuts down: a slow *)
(* run cannot release or take over its successor's (releaseLease,          *)
(* releaseHeldLeases).                                                     *)
NoForeignRelease ==
    [][lease # NoRow /\ lease.left >= 0 /\ lease'.left < lease.left - 1 =>
          \/ pc[lease.holder] = "release"
          \/ phase[Home[lease.holder]] = "closing"]_vars

(* As long as a process stays up the job is run again and again: a crash,  *)
(* a lost release or a failed bookkeeping insert costs at most one lease.  *)
JobKeepsRunning ==
    []<>((\E r \in Runs : pc[r] = "run") \/ (\A i \in Instances : phase[i] # "up"))

====
