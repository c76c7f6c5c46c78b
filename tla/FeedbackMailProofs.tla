---- MODULE FeedbackMailProofs ----
(***************************************************************************)
(* What holds of FeedbackMail for any number of attempts, presses and      *)
(* reviewers, and for all times that keep TimesAssumption.                 *)
(***************************************************************************)
EXTENDS FeedbackMail, FiniteSetTheorems, TLAPS

----
(* The types.                                                              *)

PCs == Working \cup {"idle", "press", "pressed"}
Rows == [status : Statuses, due : BOOLEAN, attempts : 0..MaxAttempts, basis : Bases \cup {NoWords},
         claim : Senders \cup {"nobody"}, ahead : BOOLEAN, age : 0..Stale, lock : Locks]
Calls == [by : Senders, basis : Bases, left : 0..SendTimeout, awaited : BOOLEAN]

RowIs(r) ==
    r # NoRow =>
      /\ r \in Rows
      /\ r.claim # "nobody" <=> r.status = "SENDING"
      /\ r.claim = "nobody" => ~r.ahead /\ r.age = 0
      /\ r.lock # NoLock => r.status \in {"SENDING", "SENT_UNVERIFIED"}

----
(* The inductive invariant: TypeOK and, beyond it,                         *)

(* a letter in the queue has an attempt left, and before there is a row    *)
(* nothing has been let go out;                                            *)
RowOK ==
    /\ row.status \in {"QUEUED", "SENDING"} => row.attempts < MaxAttempts
    /\ row = NoRow => calls = {} /\ granted = 0

(* only the attempt that claimed the letter has it locked;                 *)
LockOK == row # NoRow /\ row.status = "SENDING" /\ row.lock # NoLock => row.lock.by = row.claim

(* a press whose copy of the row is current has a row it may send;         *)
PressOK(s) ==
    pc[s] = "press" /\ s \in current =>
      granted < MaxGranted /\ row.status \notin {"SENDING", "SENT"} /\ ~LockStands

(* an attempt under way holds the claim, younger than any pass would       *)
(* release, and from composing to sending the lock, with the time of a     *)
(* whole send left on it; its words are those of the review that released  *)
(* the letter, or newer;                                                   *)
WorkOK(s) ==
    /\ pc[s] \in Working =>
         row # NoRow /\ row.status = "SENDING" /\ row.claim = s /\ row.age <= MaxPassAge + 1
    /\ pc[s] = "claimed" => row.lock = NoLock
    /\ pc[s] \in Composing => row.lock.by = s /\ row.lock.left >= SendTimeout
    /\ pc[s] \in {"composed", "checked"} => words[s] \in Bases /\ words[s] >= released
    /\ pc[s] = "sending" => \E c \in calls : c.by = s /\ c.awaited

(* a letter with the provider is covered by its sender's lock for as long  *)
(* as it may still be delivered, and delivered or dropped before a pass    *)
(* takes its claim for interrupted;                                        *)
CallOK(c) ==
    /\ row # NoRow /\ row.lock.by = c.by /\ row.lock.left >= c.left
    /\ row.status = "SENDING" => row.age + c.left <= MaxPassAge + 1 + SendTimeout
    /\ c.awaited <=> pc[c.by] = "sending"
    /\ pc[c.by] \in Working => pc[c.by] \in {"sending", "timedout"}
    /\ c.basis >= released

OneCall == \A c, d \in calls : c = d

(* a review request under way may still be filed;                          *)
GateOK == \A q \in Reviewers : req[q].pc # "idle" => req[q].previous < MaxReviews

(* and a letter that may yet be handed over, or tried again, is one more   *)
(* than has been.                                                          *)
Owed ==
    \/ row.status = "QUEUED"
    \/ \E s \in Senders : pc[s] \in Composing \cup {"claimed", "failing"}

CopiesOK ==
    /\ CopiesAskedFor
    /\ Owed => copies + Cardinality(calls) < granted

IInv ==
    /\ TypeOK /\ RowOK /\ LockOK /\ GateOK /\ CopiesOK /\ OneCall
    /\ \A s \in Senders : PressOK(s) /\ WorkOK(s)
    /\ \A c \in calls : CallOK(c)

----
(* The helpers of the model.                                               *)

LEMMA SendersAre ==
  /\ "nobody" \notin Senders /\ Jobs \subseteq Senders /\ Presses \subseteq Senders
  /\ Jobs \cap Presses = {}
BY SendersAssumption DEF Senders

LEMMA LocksAre ==
  /\ NoLock \in Locks /\ NoLock.by = "nobody" /\ NoLock.left = 0
  /\ \A l \in Locks : l.by \in Senders => l # NoLock
  /\ \A l \in Locks : l # NoLock => l.by \in Senders /\ l.left \in 0..(SendTimeout + Grace)
  /\ \A l \in Locks : l.left \in Nat
BY SendersAre, TimesAssumption DEF Locks, NoLock

LEMMA RowTyped ==
  /\ \A r \in Rows : r # NoRow
  /\ NoRow.status = "NONE"
BY DEF Rows, Statuses, NoRow

(* TypeOK, one variable at a time.                                         *)
LEMMA TypeIs ==
  ASSUME TypeOK
  PROVE  /\ RowIs(row) /\ enq \in {"start", "unreviewed", "reviewed", "done"}
         /\ pc \in [Senders -> PCs] /\ words \in [Senders -> Bases \cup {NoWords}]
         /\ calls \subseteq Calls /\ current \subseteq Senders
         /\ req \in [Reviewers -> [pc : RequestPCs, previous : Bases, status : {"QUEUED", "SENDING", "NONE"}]]
         /\ active \in Bases /\ released \in 0..active
         /\ granted \in 0..MaxGranted /\ copies \in 0..MaxGranted
BY DEF TypeOK, RowIs, Rows, PCs, Calls

LEMMA TypeNext ==
  ASSUME RowIs(row'), enq' \in {"start", "unreviewed", "reviewed", "done"},
         pc' \in [Senders -> PCs], words' \in [Senders -> Bases \cup {NoWords}],
         calls' \subseteq Calls, current' \subseteq Senders,
         req' \in [Reviewers -> [pc : RequestPCs, previous : Bases, status : {"QUEUED", "SENDING", "NONE"}]],
         active' \in Bases, released' \in 0..active',
         granted' \in 0..MaxGranted, copies' \in 0..MaxGranted
  PROVE  TypeOK'
<1>1. row' = NoRow \/ row' \in Rows
  BY DEF RowIs
<1>2. row' # NoRow =>
          /\ row'.claim # "nobody" <=> row'.status = "SENDING"
          /\ row'.claim = "nobody" => ~row'.ahead /\ row'.age = 0
          /\ row'.lock # NoLock => row'.status \in {"SENDING", "SENT_UNVERIFIED"}
  BY DEF RowIs
<1> QED BY <1>1, <1>2 DEF TypeOK, Rows, PCs, Calls

(* How many letters are with the provider.                                 *)
LEMMA CallsCounted ==
  /\ OneCall => Cardinality(calls) = IF calls = {} THEN 0 ELSE 1
  /\ OneCall' => Cardinality(calls') = IF calls' = {} THEN 0 ELSE 1
<1>1. ASSUME NEW S, \A c, d \in S : c = d
      PROVE  Cardinality(S) = IF S = {} THEN 0 ELSE 1
  <2>1. CASE S = {}
    BY <2>1, FS_EmptySet
  <2>2. CASE S # {}
    <3>1. PICK c \in S : S = {c}
      BY <1>1, <2>2
    <3>2. Cardinality({c}) = 1
      BY FS_Singleton, Zenon
    <3> QED BY <3>1, <3>2
  <2> QED BY <2>1, <2>2
<1> QED BY <1>1 DEF OneCall

(* What the writes leave of the row.                                       *)
LEMMA NewRowIs ==
  ASSUME NEW status \in Statuses \ {"SENDING"}, NEW due \in BOOLEAN
  PROVE  LET r == NewRow(status, due)
         IN  /\ RowIs(r) /\ r \in Rows /\ r.status = status /\ r.lock = NoLock /\ r.attempts = 0
             /\ r.claim = "nobody" /\ r.age = 0
<1>1. NewRow(status, due) \in Rows
  BY LocksAre, TimesAssumption, BoundsAssumption DEF NewRow, Rows, Bases
<1> QED BY <1>1 DEF NewRow, RowIs

LEMMA UnclaimedIs ==
  ASSUME row \in Rows, RowIs(row), NEW status \in Statuses \ {"SENDING"}
  PROVE  LET r == Unclaimed(status)
         IN  /\ r \in Rows /\ r.status = status /\ r.lock = row.lock /\ r.attempts = row.attempts
             /\ r.claim = "nobody" /\ ~r.ahead /\ r.age = 0 /\ r.basis = row.basis
<1> DEFINE r == Unclaimed(status)
<1>1. 0 \in 0..Stale
  BY TimesAssumption
<1>2. r \in Rows
  BY <1>1 DEF Unclaimed, Rows
<1>3. /\ r.status = status /\ r.lock = row.lock /\ r.attempts = row.attempts
      /\ r.claim = "nobody" /\ ~r.ahead /\ r.age = 0 /\ r.basis = row.basis
  BY DEF Unclaimed, Rows
<1> QED BY <1>2, <1>3

LEMMA UnclaimedUnlockedIs ==
  ASSUME row \in Rows, RowIs(row), NEW status \in Statuses \ {"SENDING"}
  PROVE  LET r == [Unclaimed(status) EXCEPT !.lock = NoLock]
         IN  /\ r \in Rows /\ r.status = status /\ r.lock = NoLock /\ r.attempts = row.attempts
             /\ r.claim = "nobody" /\ ~r.ahead /\ r.age = 0 /\ RowIs(r)
<1>1. /\ Unclaimed(status) \in Rows /\ Unclaimed(status).status = status
      /\ Unclaimed(status).attempts = row.attempts /\ Unclaimed(status).claim = "nobody"
      /\ ~Unclaimed(status).ahead /\ Unclaimed(status).age = 0
  BY UnclaimedIs
<1> DEFINE u == Unclaimed(status)
           r == [u EXCEPT !.lock = NoLock]
<1>2. u \in Rows /\ u.status = status /\ u.attempts = row.attempts /\ u.claim = "nobody" /\ ~u.ahead /\ u.age = 0
  BY <1>1
<1> HIDE DEF u
<1>3. /\ r \in Rows /\ r.status = status /\ r.lock = NoLock /\ r.attempts = row.attempts
      /\ r.claim = "nobody" /\ ~r.ahead /\ r.age = 0
  BY <1>2, LocksAre DEF Rows
<1>4. RowIs(r)
  BY <1>3 DEF RowIs
<1> QED BY <1>3, <1>4 DEF u

LEMMA AfterFailedIs ==
  ASSUME row \in Rows, RowIs(row), row.attempts < MaxAttempts
  PROVE  LET r == AfterFailed(row)
         IN  /\ RowIs(r) /\ r \in Rows /\ r.status \in {"QUEUED", "FAILED"} /\ r.lock = NoLock
             /\ r.claim = "nobody" /\ (r.status = "QUEUED" => r.attempts < MaxAttempts)
<1> DEFINE status == IF row.attempts + 1 >= MaxAttempts THEN "FAILED" ELSE "QUEUED"
           u == Unclaimed(status)
           r == [u EXCEPT !.attempts = row.attempts + 1, !.lock = NoLock]
<1>0. status \in Statuses \ {"SENDING"} /\ status \in {"QUEUED", "FAILED"}
  BY DEF Statuses
<1>1. row.attempts \in Nat /\ row.attempts + 1 \in 0..MaxAttempts
      /\ (status = "QUEUED" => row.attempts + 1 < MaxAttempts)
  BY BoundsAssumption DEF Rows
<1> HIDE DEF status
<1>2. u \in Rows /\ u.status = status /\ u.claim = "nobody" /\ ~u.ahead /\ u.age = 0
  BY <1>0, UnclaimedIs
<1> HIDE DEF u
<1>3. /\ r \in Rows /\ r.status = status /\ r.lock = NoLock /\ r.attempts = row.attempts + 1
      /\ r.claim = "nobody" /\ ~r.ahead /\ r.age = 0
  BY <1>1, <1>2, LocksAre DEF Rows
<1>4. RowIs(r)
  BY <1>0, <1>3 DEF RowIs
<1>5. AfterFailed(row) = r
  BY DEF AfterFailed, r, u, status
<1> HIDE DEF r
<1> QED BY <1>0, <1>1, <1>3, <1>4, <1>5

----
(* Who is at work, and what that says of the letter.                       *)

LEMMA WorkingAre ==
  /\ Working \subseteq PCs /\ Composing \subseteq Working
  /\ {"claimed", "sending", "accepted", "missed", "failing", "timedout"} \subseteq Working
  /\ {"idle", "press", "pressed"} \cap Working = {}
  /\ {"idle", "press", "pressed"} \subseteq PCs
  /\ {"claimed", "sending", "accepted", "missed", "failing", "timedout"} \cap Composing = {}
  /\ {"locked", "composed", "checked"} = Composing
BY DEF Working, Composing, PCs

(* Only one attempt is at work, and only while the letter is being sent.   *)
LEMMA OneWorks ==
  ASSUME IInv, NEW s \in Senders, pc[s] \in Working
  PROVE  /\ row \in Rows /\ row.status = "SENDING" /\ row.claim = s /\ row.age <= MaxPassAge + 1
         /\ \A t \in Senders \ {s} : pc[t] \notin Working
         /\ row.lock # NoLock => row.lock.by = s
         /\ row.attempts < MaxAttempts
<1>1. row # NoRow /\ row.status = "SENDING" /\ row.claim = s /\ row.age <= MaxPassAge + 1
  BY DEF IInv, WorkOK
<1>2. row \in Rows
  BY <1>1, TypeIs DEF IInv, RowIs
<1>3. \A t \in Senders \ {s} : pc[t] \notin Working
  BY <1>1 DEF IInv, WorkOK
<1>4. row.lock # NoLock => row.lock.by = s
  BY <1>1 DEF IInv, LockOK
<1>5. row.attempts < MaxAttempts
  BY <1>1 DEF IInv, RowOK
<1> QED BY <1>1, <1>2, <1>3, <1>4, <1>5

LEMMA NobodyWorks ==
  ASSUME IInv, row.status # "SENDING"
  PROVE  \A t \in Senders : pc[t] \notin Working
BY DEF IInv, WorkOK

(* A letter is with the provider only under a lock.                        *)
LEMMA CallsAreLocked ==
  ASSUME IInv, calls # {}
  PROVE  /\ row \in Rows /\ row.lock # NoLock /\ LockStands
         /\ row.status \in {"SENDING", "SENT_UNVERIFIED"}
<1>1. PICK c \in calls : TRUE
  OBVIOUS
<1>2. row # NoRow /\ row.lock.by = c.by /\ c.by \in Senders
  BY <1>1, TypeIs DEF IInv, CallOK, Calls
<1>3. row \in Rows /\ row.lock \in Locks
  BY <1>2, TypeIs DEF IInv, RowIs, Rows
<1>4. row.lock # NoLock
  BY <1>2, <1>3, LocksAre
<1> QED BY <1>2, <1>3, <1>4, TypeIs DEF IInv, RowIs, LockStands

LEMMA NoCallsFor ==
  ASSUME IInv, NEW s \in Senders, pc[s] \in Working \ {"sending", "timedout"}
  PROVE  calls = {}
<1> SUFFICES ASSUME NEW c \in calls PROVE FALSE
  OBVIOUS
<1>1. row.lock # NoLock /\ row.lock.by = c.by /\ (pc[c.by] \in Working => pc[c.by] \in {"sending", "timedout"})
  BY CallsAreLocked DEF IInv, CallOK
<1>2. row.lock.by = s
  BY <1>1, OneWorks
<1> QED BY <1>1, <1>2

(* Someone composing keeps the lock, so the gate stays shut.               *)
LEMMA ComposingIsLocked ==
  ASSUME IInv, NEW s \in Senders, pc[s] \in Composing
  PROVE  row \in Rows /\ row.lock.by = s /\ row.lock # NoLock /\ LockStands
         /\ row.lock.left >= SendTimeout
<1>1. row \in Rows /\ row # NoRow /\ row.lock.by = s /\ row.lock.left >= SendTimeout
  BY OneWorks, WorkingAre, RowTyped DEF IInv, WorkOK
<1>2. row.lock # NoLock
  BY <1>1, LocksAre DEF Rows
<1> QED BY <1>1, <1>2 DEF LockStands

LEMMA Awaiting ==
  ASSUME IInv, NEW s \in Senders, pc[s] = "sending"
  PROVE  /\ Awaited(s) \in calls /\ Awaited(s).by = s /\ Awaited(s).awaited
         /\ calls = {Awaited(s)}
<1>1. \E c \in calls : c.by = s /\ c.awaited
  BY DEF IInv, WorkOK
<1>2. Awaited(s) \in calls /\ Awaited(s).by = s /\ Awaited(s).awaited
  BY <1>1 DEF Awaited
<1> QED BY <1>2 DEF IInv, OneCall

LEMMA Idles ==
  ASSUME NEW s \in Senders, pc'[s] \notin Working
  PROVE  WorkOK(s)'
BY WorkingAre DEF WorkOK

LEMMA Moves ==
  ASSUME TypeOK, NEW s \in Senders, NEW l \in PCs, Goto(s, l)
  PROVE  /\ pc' \in [Senders -> PCs] /\ words' \in [Senders -> Bases \cup {NoWords}]
         /\ pc'[s] = l /\ \A t \in Senders \ {s} : pc'[t] = pc[t] /\ words'[t] = words[t]
         /\ l \notin {"sending", "failing", "idle"} => words' = words
BY TypeIs DEF Goto

----
(* Kinds of steps.                                                         *)

(* A review's desk moves, or the finalisation looks: nothing of the letter *)
(* changes, and reviews only become newer.                                 *)
LEMMA DeskMoved ==
  ASSUME IInv, TypeOK', GateOK',
         UNCHANGED <<row, pc, words, calls, current, released, copies, granted>>
  PROVE  IInv'
<1>1. RowOK' /\ LockOK' /\ CopiesOK' /\ OneCall'
  BY DEF IInv, RowOK, LockOK, CopiesOK, CopiesAskedFor, Owed, OneCall
<1>2. \A s \in Senders : PressOK(s)' /\ WorkOK(s)'
  BY DEF IInv, PressOK, WorkOK, LockStands
<1>3. \A c \in calls' : CallOK(c)'
  BY DEF IInv, CallOK
<1> QED BY <1>1, <1>2, <1>3 DEF IInv

(* The row is written, and stays the letter it was.                        *)
LEMMA RowTouched ==
  ASSUME IInv, TypeOK', GateOK', row \in Rows, row' \in Rows,
         row'.status = row.status, row'.claim = row.claim, row'.lock = row.lock,
         row'.attempts = row.attempts, row'.age <= row.age,
         current' \subseteq current, released' = released \/ ~LockStands,
         UNCHANGED <<pc, words, calls, copies, granted>>
  PROVE  IInv'
<1>0. row # NoRow /\ row' # NoRow
  BY RowTyped
<1>1. RowOK' /\ LockOK' /\ CopiesOK' /\ OneCall'
  BY <1>0 DEF IInv, RowOK, LockOK, CopiesOK, CopiesAskedFor, Owed, OneCall
<1>2. row.age \in Nat /\ row'.age \in Nat
  BY DEF Rows
<1>3. ASSUME NEW s \in Senders PROVE PressOK(s)' /\ WorkOK(s)'
  <2>1. PressOK(s) /\ WorkOK(s)
    BY DEF IInv
  <2>2. PressOK(s)'
    BY <1>0, <2>1 DEF PressOK, LockStands
  <2>3. pc[s] \in Composing => released' = released
    BY ComposingIsLocked
  <2>4. pc[s] \in {"composed", "checked"} => pc[s] \in Composing
    BY WorkingAre
  <2>5. row.age <= MaxPassAge + 1 => row'.age <= MaxPassAge + 1
    BY <1>2, TimesAssumption
  <2>6. WorkOK(s)'
    BY <1>0, <2>1, <2>3, <2>4, <2>5 DEF WorkOK
  <2> QED BY <2>2, <2>6
<1>4. ASSUME NEW c \in calls' PROVE CallOK(c)'
  <2>1. c \in calls /\ CallOK(c) /\ c.left \in Nat /\ released' = released
    BY CallsAreLocked, TypeIs DEF IInv, Calls
  <2>2. row.age + c.left <= MaxPassAge + 1 + SendTimeout => row'.age + c.left <= MaxPassAge + 1 + SendTimeout
    BY <1>2, <2>1, TimesAssumption
  <2> QED BY <1>0, <2>1, <2>2 DEF CallOK
<1> QED BY <1>1, <1>3, <1>4 DEF IInv

(* The letter's row is made.                                               *)
LEMMA RowMade ==
  ASSUME IInv, TypeOK', row = NoRow, row' \in Rows, row'.status # "SENDING", row'.lock = NoLock,
         row'.attempts = 0, current' = {}, \A t \in Senders : pc'[t] \notin Working,
         granted' = IF row'.status = "QUEUED" THEN granted + 1 ELSE granted,
         UNCHANGED <<calls, req, copies, released>>
  PROVE  IInv'
<1>0. calls = {} /\ calls' = {} /\ row' # NoRow
  BY RowTyped DEF IInv, RowOK
<1>1. RowOK' /\ LockOK' /\ OneCall' /\ GateOK'
  BY <1>0, BoundsAssumption DEF IInv, RowOK, LockOK, OneCall, GateOK
<1>2. CopiesOK'
  <2>1. Cardinality(calls) = 0 /\ Cardinality(calls') = 0
    BY <1>0, FS_EmptySet
  <2>2. copies \in Nat /\ granted \in Nat /\ copies <= granted
    BY <2>1, TypeIs DEF IInv, CopiesOK, CopiesAskedFor
  <2>3. Owed' => row'.status = "QUEUED"
    BY WorkingAre DEF Owed
  <2> QED BY <2>1, <2>2, <2>3 DEF CopiesOK, CopiesAskedFor
<1>3. \A s \in Senders : PressOK(s)' /\ WorkOK(s)'
  BY Idles DEF PressOK
<1> QED BY <1>0, <1>1, <1>2, <1>3 DEF IInv

(* A sender moves on and writes nothing.                                   *)
LEMMA SenderMoved ==
  ASSUME IInv, TypeOK', NEW s \in Senders, NEW l \in PCs,
         pc'[s] = l, \A t \in Senders \ {s} : pc'[t] = pc[t] /\ words'[t] = words[t],
         pc[s] # "sending", l # "sending",
         l \in Working => pc[s] \in Working \ {"sending", "timedout"},
         l \in Composing \cup {"claimed", "failing"} =>
           pc[s] \in Composing \cup {"claimed", "failing"} \/ granted' = granted + 1,
         granted' = granted \/ (granted' = granted + 1 /\ pc[s] \in Working),
         current' \subseteq current \cup {s}, PressOK(s)',
         WorkOK(s)', UNCHANGED <<row, calls, req, released, copies>>
  PROVE  IInv'
<1>1. RowOK' /\ LockOK' /\ OneCall' /\ GateOK'
  <2>1. row = NoRow => granted' = granted
    BY OneWorks, RowTyped
  <2> QED BY <2>1 DEF IInv, RowOK, LockOK, OneCall, GateOK
<1>2. CopiesOK'
  <2>1. Cardinality(calls) \in Nat /\ copies \in Nat /\ granted \in Nat
    BY CallsCounted, TypeIs DEF IInv
  <2>2. Owed' => Owed \/ granted' = granted + 1
    BY DEF Owed
  <2> QED BY <2>1, <2>2 DEF IInv, CopiesOK, CopiesAskedFor
<1>3. ASSUME NEW t \in Senders \ {s} PROVE PressOK(t)' /\ WorkOK(t)'
  <2>1. PressOK(t) /\ WorkOK(t) /\ pc'[t] = pc[t] /\ words'[t] = words[t]
    BY DEF IInv
  <2>2. granted' # granted => row.status = "SENDING"
    BY OneWorks
  <2>3. PressOK(t)'
    BY <2>1, <2>2 DEF PressOK, LockStands
  <2>4. WorkOK(t)'
    BY <2>1 DEF WorkOK
  <2> QED BY <2>3, <2>4
<1>4. ASSUME NEW c \in calls' PROVE CallOK(c)'
  <2>1. c \in calls /\ CallOK(c) /\ c.by \in Senders
    BY TypeIs DEF IInv, Calls
  <2>2. CASE c.by = s
    <3>1. pc[s] \notin Working \ {"sending", "timedout"}
      BY NoCallsFor
    <3> QED BY <2>1, <2>2, <3>1 DEF CallOK
  <2>3. CASE c.by # s
    BY <2>1, <2>3 DEF CallOK
  <2> QED BY <2>2, <2>3
<1> QED BY <1>1, <1>2, <1>3, <1>4 DEF IInv

(* The attempt at work gives the letter back.                              *)
LEMMA SenderFinished ==
  ASSUME IInv, TypeOK', NEW s \in Senders, pc[s] \in Working \ {"sending", "timedout"},
         pc'[s] = "idle", \A t \in Senders \ {s} : pc'[t] = pc[t],
         row' \in Rows, row'.status # "SENDING", row'.lock = NoLock, current' = {},
         row'.status = "QUEUED" => row'.attempts < MaxAttempts /\ pc[s] = "failing",
         UNCHANGED <<calls, req, released, copies, granted>>
  PROVE  IInv'
<1>0. calls = {} /\ calls' = {} /\ row' # NoRow
  BY NoCallsFor, RowTyped
<1>1. \A t \in Senders : pc'[t] \notin Working
  BY OneWorks, WorkingAre
<1>2. RowOK' /\ LockOK' /\ OneCall' /\ GateOK'
  BY <1>0 DEF IInv, RowOK, LockOK, OneCall, GateOK
<1>3. CopiesOK'
  <2>1. Cardinality(calls) \in Nat /\ copies \in Nat /\ granted \in Nat
    BY CallsCounted, TypeIs DEF IInv
  <2>2. Owed' => row'.status = "QUEUED"
    BY <1>1, WorkingAre DEF Owed
  <2>3. pc[s] = "failing" => Owed
    BY DEF Owed
  <2> QED BY <2>1, <2>2, <2>3 DEF IInv, CopiesOK, CopiesAskedFor
<1>4. \A t \in Senders : PressOK(t)' /\ WorkOK(t)'
  BY <1>1, Idles DEF PressOK
<1> QED BY <1>0, <1>2, <1>3, <1>4 DEF IInv

----
(* The row, written outside an attempt.                                    *)

LEMMA EnqueueLookKeeps ==
  ASSUME IInv, EnqueueLook
  PROVE  IInv'
<1>1. TypeOK'
  BY TypeIs, TypeNext DEF IInv, EnqueueLook, senderVars, reviewVars, history
<1>2. GateOK'
  BY DEF IInv, GateOK, EnqueueLook, reviewVars
<1> QED BY <1>1, <1>2, DeskMoved DEF EnqueueLook, senderVars, reviewVars, history

LEMMA EnqueueCreateKeeps ==
  ASSUME IInv, EnqueueCreate
  PROVE  IInv'
<1> USE DEF senderVars, reviewVars
<1>0. enq' = "done" /\ UNCHANGED <<pc, words, calls, req, active, released, copies>>
  BY DEF EnqueueCreate
<1>1. CASE row # NoRow
  <2>1. UNCHANGED <<row, current, granted>>
    BY <1>1 DEF EnqueueCreate, KeepRow
  <2>2. TypeOK'
    BY <1>0, <2>1, TypeIs, TypeNext DEF IInv
  <2>3. GateOK'
    BY <1>0 DEF IInv, GateOK
  <2> QED BY <1>0, <2>1, <2>2, <2>3, DeskMoved
<1>2. CASE row = NoRow
  <2>1. \/ \E o \in {"SKIPPED", "HELD"} : Write(NewRow(o, FALSE)) /\ UNCHANGED granted
        \/ Write(NewRow("QUEUED", enq = "reviewed")) /\ granted' = granted + 1
    BY <1>2 DEF EnqueueCreate
  <2>2. \E o \in {"SKIPPED", "HELD", "QUEUED"}, due \in BOOLEAN :
          /\ row' = NewRow(o, due) /\ current' = {}
          /\ granted' = IF o = "QUEUED" THEN granted + 1 ELSE granted
    BY <2>1 DEF Write
  <2>3. PICK o \in {"SKIPPED", "HELD", "QUEUED"}, due \in BOOLEAN :
          /\ row' = NewRow(o, due) /\ current' = {}
          /\ granted' = IF o = "QUEUED" THEN granted + 1 ELSE granted
    BY <2>2
  <2>4. o \in Statuses \ {"SENDING"}
    BY DEF Statuses
  <2>5. RowIs(row') /\ row' \in Rows /\ row'.status = o /\ row'.lock = NoLock /\ row'.attempts = 0
    BY <2>3, <2>4, NewRowIs
  <2>6. granted = 0 /\ granted' \in 0..MaxGranted
    BY <1>2, <2>3, BoundsAssumption DEF IInv, RowOK
  <2>7. TypeOK'
    BY <1>0, <2>3, <2>5, <2>6, TypeIs, TypeNext DEF IInv
  <2>8. \A t \in Senders : pc'[t] \notin Working
    BY <1>0, <1>2, NobodyWorks, RowTyped
  <2> QED BY <1>0, <1>2, <2>3, <2>4, <2>5, <2>7, <2>8, RowMade
<1> QED BY <1>1, <1>2

(* The shape of a row that is written and stays the letter it was.         *)
LEMMA TouchedKeeps ==
  ASSUME IInv, row \in Rows, row' \in Rows,
         row'.status = row.status, row'.claim = row.claim, row'.lock = row.lock,
         row'.attempts = row.attempts, row'.age <= row.age,
         row.claim = "nobody" => ~row'.ahead, current' \subseteq current,
         UNCHANGED <<enq, pc, words, calls, req, active, released, copies, granted>>
  PROVE  IInv'
<1>1. RowIs(row)
  BY TypeIs DEF IInv
<1>2. RowIs(row')
  <2>1. row.age \in Nat /\ row'.age \in Nat
    BY DEF Rows
  <2> QED BY <1>1, <2>1, RowTyped DEF RowIs
<1>3. TypeOK'
  BY <1>2, TypeIs, TypeNext DEF IInv
<1>4. GateOK'
  BY DEF IInv, GateOK
<1> QED BY <1>3, <1>4, RowTouched

LEMMA RowThere ==
  ASSUME IInv, row.status # "NONE"
  PROVE  row \in Rows
BY TypeIs, RowTyped DEF IInv, RowIs

LEMMA FallsDueKeeps ==
  ASSUME IInv, FallsDue
  PROVE  IInv'
<1>1. row \in Rows /\ RowIs(row)
  BY RowThere, TypeIs DEF FallsDue, IInv
<1>2. row' = [row EXCEPT !.due = TRUE] /\ current' = current
  BY DEF FallsDue
<1>3. /\ row' \in Rows /\ row'.status = row.status /\ row'.claim = row.claim /\ row'.lock = row.lock
      /\ row'.attempts = row.attempts /\ row'.age = row.age /\ (row'.ahead <=> row.ahead)
  BY <1>1, <1>2 DEF Rows
<1>4. row.age \in Nat
  BY <1>1 DEF Rows
<1>5. row.claim = "nobody" => ~row'.ahead
  BY <1>1, <1>3, RowTyped DEF RowIs
<1> QED BY <1>1, <1>2, <1>3, <1>4, <1>5, TouchedKeeps DEF FallsDue, senderVars, reviewVars, history

LEMMA KeepHeldKeeps ==
  ASSUME IInv, KeepHeld
  PROVE  IInv'
<1>1. row \in Rows /\ RowIs(row)
  BY RowThere, TypeIs DEF KeepHeld, IInv
<1>2. row' = row /\ current' = {} /\ row.age \in Nat
  BY <1>1 DEF KeepHeld, Write, Rows
<1>3. row.claim = "nobody" => ~row'.ahead
  BY <1>1, <1>2, RowTyped DEF RowIs
<1> QED BY <1>1, <1>2, <1>3, TouchedKeeps DEF KeepHeld, senderVars, reviewVars, history

LEMMA BasisIs ==
  ASSUME NEW r \in Rows, NEW b \in Bases \cup {NoWords}, NEW n, n = [r EXCEPT !.basis = b]
  PROVE  /\ n \in Rows /\ n.status = r.status /\ n.claim = r.claim /\ n.lock = r.lock
         /\ n.attempts = r.attempts /\ n.age = r.age /\ (n.ahead <=> r.ahead) /\ n.basis = b
BY DEF Rows

LEMMA PreviewKeeps ==
  ASSUME IInv, Preview
  PROVE  IInv'
<1> USE DEF senderVars, reviewVars, history
<1>0. /\ row' = [(IF row = NoRow THEN NewRow("DRAFT", FALSE) ELSE row) EXCEPT !.basis = active]
      /\ current' = {}
      /\ UNCHANGED <<enq, pc, words, calls, req, active, released, copies, granted>>
      /\ active \in Bases \cup {NoWords}
  BY TypeIs DEF Preview, Write, IInv
<1>2. CASE row = NoRow
  <2> DEFINE r == NewRow("DRAFT", FALSE)
  <2>1. /\ RowIs(r) /\ r \in Rows /\ r.status = "DRAFT" /\ r.lock = NoLock /\ r.attempts = 0
        /\ r.claim = "nobody" /\ r.age = 0
    BY NewRowIs DEF Statuses
  <2>2. row' = [r EXCEPT !.basis = active]
    BY <1>0, <1>2
  <2> HIDE DEF r
  <2>3. /\ row' \in Rows /\ row'.status = "DRAFT" /\ row'.lock = NoLock /\ row'.attempts = 0
        /\ row'.claim = "nobody" /\ row'.age = 0 /\ (row'.ahead <=> r.ahead)
    <3>1. r \in Rows /\ active \in Bases \cup {NoWords}
      BY <1>0, <2>1
    <3>2. /\ row' \in Rows /\ row'.status = r.status /\ row'.claim = r.claim /\ row'.lock = r.lock
          /\ row'.attempts = r.attempts /\ row'.age = r.age /\ (row'.ahead <=> r.ahead)
      BY <2>2, <3>1, BasisIs
    <3> QED BY <2>1, <3>2
  <2>4. RowIs(row')
    BY <2>1, <2>3, RowTyped DEF RowIs
  <2>5. TypeOK'
    BY <1>0, <2>4, TypeIs, TypeNext DEF IInv
  <2>6. \A t \in Senders : pc'[t] \notin Working
    BY <1>0, <1>2, NobodyWorks, RowTyped
  <2> QED BY <1>0, <1>2, <2>3, <2>5, <2>6, RowMade
<1>3. CASE row # NoRow
  <2>1. row \in Rows /\ RowIs(row)
    BY <1>3, TypeIs DEF IInv, RowIs
  <2>2. /\ row' \in Rows /\ row'.status = row.status /\ row'.claim = row.claim /\ row'.lock = row.lock
        /\ row'.attempts = row.attempts /\ row'.age = row.age /\ (row'.ahead <=> row.ahead)
    BY <1>0, <1>3, <2>1, BasisIs
  <2>3. row'.age <= row.age /\ (row.claim = "nobody" => ~row'.ahead) /\ current' \subseteq current
    BY <1>0, <1>3, <2>1, <2>2 DEF RowIs, Rows
  <2> QED BY <1>0, <2>1, <2>2, <2>3, TouchedKeeps
<1> QED BY <1>2, <1>3

LEMMA HeartbeatKeeps ==
  ASSUME IInv, NEW s \in Senders, Heartbeat(s) \/ HeartbeatReply(s)
  PROVE  IInv'
<1>1. row \in Rows /\ RowIs(row) /\ row.status = "SENDING" /\ row.claim = s
  BY RowThere, TypeIs DEF Heartbeat, HeartbeatReply, OwnClaim, IInv
<1>2. row' = [row EXCEPT !.age = 0, !.ahead = TRUE] \/ row' = [row EXCEPT !.ahead = FALSE]
  BY DEF Heartbeat, HeartbeatReply, Write
<1>3. 0 \in 0..Stale /\ row.age \in Nat /\ 0 <= row.age
  BY <1>1, TimesAssumption DEF Rows
<1>4. /\ row' \in Rows /\ row'.status = row.status /\ row'.claim = row.claim /\ row'.lock = row.lock
      /\ row'.attempts = row.attempts /\ row'.age <= row.age
  <2>1. CASE row' = [row EXCEPT !.age = 0, !.ahead = TRUE]
    <3>1. row' \in Rows
      BY <1>1, <1>3, <2>1 DEF Rows
    <3> QED BY <1>1, <1>3, <2>1, <3>1 DEF Rows
  <2>2. CASE row' = [row EXCEPT !.ahead = FALSE]
    <3>1. row' \in Rows
      BY <1>1, <2>2 DEF Rows
    <3> QED BY <1>1, <1>3, <2>2, <3>1 DEF Rows
  <2> QED BY <1>2, <2>1, <2>2
<1>5. row.claim # "nobody" /\ current' \subseteq current
  BY <1>1, SendersAre DEF Heartbeat, HeartbeatReply, Write
<1> QED BY <1>1, <1>4, <1>5, TouchedKeeps DEF Heartbeat, HeartbeatReply, senderVars, reviewVars, history

----
(* Presses of "Send feedback now".                                         *)

(* A letter a person may send is not being sent, and nothing of it is with *)
(* the provider.                                                           *)
LEMMA MayBeSent ==
  ASSUME IInv, NEW confirm \in BOOLEAN, ManualSendAllowed(confirm)
  PROVE  row.status \notin {"SENDING", "SENT"} /\ ~LockStands
<1>1. CASE row.status = "NONE"
  BY <1>1, TypeIs DEF IInv, RowIs, LockStands, Rows, Statuses
<1>2. CASE row.status = "SENT_UNVERIFIED"
  BY <1>2 DEF ManualSendAllowed
<1>3. CASE row.status \notin {"NONE", "SENT_UNVERIFIED"}
  <2>1. row.status \notin {"SENDING", "SENT"}
    BY <1>3 DEF ManualSendAllowed
  <2> QED BY <1>3, <2>1, TypeIs DEF IInv, RowIs, LockStands
<1> QED BY <1>1, <1>2, <1>3

LEMMA PressLookKeeps ==
  ASSUME IInv, NEW s \in Senders, NEW confirm \in BOOLEAN, PressLook(s, confirm)
  PROVE  IInv'
<1> USE DEF reviewVars, history
<1>0. /\ pc[s] = "idle" /\ Goto(s, "press") /\ current' = current \cup {s} /\ granted < MaxGranted
      /\ ManualSendAllowed(confirm)
      /\ UNCHANGED <<row, enq, calls, req, active, released, copies, granted>>
  BY DEF PressLook
<1>1. /\ pc' \in [Senders -> PCs] /\ words' \in [Senders -> Bases \cup {NoWords}] /\ pc'[s] = "press"
      /\ \A t \in Senders \ {s} : pc'[t] = pc[t] /\ words'[t] = words[t]
  BY <1>0, Moves, WorkingAre DEF IInv
<1>2. TypeOK'
  BY <1>0, <1>1, TypeIs, TypeNext DEF IInv
<1>3. PressOK(s)'
  BY <1>0, MayBeSent DEF PressOK, LockStands
<1>4. WorkOK(s)'
  BY <1>1, Idles, WorkingAre
<1> QED BY <1>0, <1>1, <1>2, <1>3, <1>4, SenderMoved, WorkingAre

LEMMA RequeuedIs ==
  ASSUME NEW r \in Rows, RowIs(r), r.lock = NoLock
  PROVE  LET n == Requeued(r)
         IN  /\ RowIs(n) /\ n \in Rows /\ n.status = "QUEUED" /\ n.lock = NoLock /\ n.attempts = 0
             /\ n.claim = "nobody" /\ n.age = 0
<1> DEFINE n == Requeued(r)
<1>1. 0 \in 0..Stale /\ 0 \in 0..MaxAttempts /\ "QUEUED" \in Statuses
  BY TimesAssumption, BoundsAssumption DEF Statuses
<1>2. n \in Rows
  BY <1>1 DEF Requeued, Rows
<1>3. /\ n.status = "QUEUED" /\ n.lock = NoLock /\ n.attempts = 0 /\ n.claim = "nobody"
      /\ n.age = 0 /\ ~n.ahead
  BY DEF Requeued, Rows
<1>4. RowIs(n)
  BY <1>2, <1>3 DEF RowIs
<1> QED BY <1>2, <1>3, <1>4

LEMMA PressWriteKeeps ==
  ASSUME IInv, NEW s \in Senders, PressWrite(s)
  PROVE  IInv'
<1> USE DEF reviewVars, history
<1>0. pc[s] = "press" /\ UNCHANGED <<enq, calls, req, active, released, copies>>
  BY DEF PressWrite
<1>1. CASE s \notin current
  <2>1. Goto(s, "idle") /\ UNCHANGED <<row, current, granted>>
    BY <1>1 DEF PressWrite, KeepRow
  <2>2. /\ pc' \in [Senders -> PCs] /\ words' \in [Senders -> Bases \cup {NoWords}] /\ pc'[s] = "idle"
        /\ \A t \in Senders \ {s} : pc'[t] = pc[t] /\ words'[t] = words[t]
    BY <2>1, Moves, WorkingAre DEF IInv
  <2>3. TypeOK'
    BY <1>0, <2>1, <2>2, TypeIs, TypeNext DEF IInv
  <2>4. PressOK(s)' /\ WorkOK(s)'
    BY <2>2, Idles, WorkingAre DEF PressOK
  <2> QED BY <1>0, <2>1, <2>2, <2>3, <2>4, SenderMoved, WorkingAre
<1>2. CASE s \in current
  <2>1. /\ row' = IF row = NoRow THEN NewRow("QUEUED", TRUE) ELSE Requeued(row)
        /\ current' = {} /\ granted' = granted + 1 /\ Goto(s, "pressed")
    BY <1>2 DEF PressWrite, Write
  <2>2. /\ pc' \in [Senders -> PCs] /\ words' \in [Senders -> Bases \cup {NoWords}] /\ pc'[s] = "pressed"
        /\ \A t \in Senders \ {s} : pc'[t] = pc[t] /\ words'[t] = words[t]
    BY <2>1, Moves, WorkingAre DEF IInv
  <2>3. granted < MaxGranted /\ row.status # "SENDING" /\ ~LockStands
    BY <1>0, <1>2 DEF IInv, PressOK
  <2>4. /\ RowIs(row') /\ row' \in Rows /\ row'.status = "QUEUED" /\ row'.lock = NoLock
        /\ row'.attempts = 0
    <3>1. CASE row = NoRow
      BY <2>1, <3>1, NewRowIs DEF Statuses
    <3>2. CASE row # NoRow
      <4>1. row \in Rows /\ RowIs(row) /\ row.lock = NoLock
        BY <2>3, <3>2, TypeIs DEF IInv, RowIs, LockStands
      <4> QED BY <2>1, <3>2, <4>1, RequeuedIs
    <3> QED BY <3>1, <3>2
  <2>5. granted' \in 0..MaxGranted /\ granted \in Nat /\ copies \in Nat
    BY <2>1, <2>3, TypeIs, BoundsAssumption DEF IInv
  <2>6. TypeOK'
    BY <1>0, <2>1, <2>2, <2>4, <2>5, TypeIs, TypeNext DEF IInv
  <2>7. calls = {} /\ calls' = {} /\ row' # NoRow
    BY <1>0, <2>3, <2>4, CallsAreLocked, RowTyped
  <2>8. \A t \in Senders : pc'[t] \notin Working
    BY <2>2, <2>3, NobodyWorks, WorkingAre
  <2>9. RowOK' /\ LockOK' /\ OneCall' /\ GateOK'
    BY <1>0, <2>4, <2>7, BoundsAssumption DEF IInv, RowOK, LockOK, OneCall, GateOK
  <2>10. CopiesOK'
    <3>1. Cardinality(calls) = 0 /\ Cardinality(calls') = 0
      BY <2>7, FS_EmptySet
    <3>2. copies <= granted
      BY <2>5, <3>1 DEF IInv, CopiesOK, CopiesAskedFor
    <3> QED BY <1>0, <2>1, <2>5, <3>1, <3>2 DEF CopiesOK, CopiesAskedFor
  <2>11. \A t \in Senders : PressOK(t)' /\ WorkOK(t)'
    BY <2>1, <2>8, Idles DEF PressOK
  <2> QED BY <2>6, <2>7, <2>9, <2>10, <2>11 DEF IInv
<1> QED BY <1>1, <1>2

----
(* An attempt, up to the lock.                                             *)

LEMMA NotDueKeeps ==
  ASSUME IInv, NEW s \in Senders, NotDue(s)
  PROVE  IInv'
<1> USE DEF reviewVars, history
<1>0. /\ pc[s] = "pressed" /\ Goto(s, "idle")
      /\ UNCHANGED <<row, enq, calls, current, req, active, released, copies, granted>>
  BY DEF NotDue
<1>1. /\ pc' \in [Senders -> PCs] /\ words' \in [Senders -> Bases \cup {NoWords}] /\ pc'[s] = "idle"
      /\ \A t \in Senders \ {s} : pc'[t] = pc[t] /\ words'[t] = words[t]
  BY <1>0, Moves, WorkingAre DEF IInv
<1>2. TypeOK'
  BY <1>0, <1>1, TypeIs, TypeNext DEF IInv
<1>3. PressOK(s)' /\ WorkOK(s)'
  BY <1>1, Idles, WorkingAre DEF PressOK
<1> QED BY <1>0, <1>1, <1>2, <1>3, SenderMoved, WorkingAre

LEMMA ClaimedIs ==
  ASSUME row \in Rows, row.lock = NoLock, NEW s \in Senders, NEW a \in 0..MaxPassAge,
         row' = [row EXCEPT !.status = "SENDING", !.claim = s, !.ahead = FALSE, !.age = a]
  PROVE  /\ RowIs(row') /\ row' \in Rows /\ row'.status = "SENDING" /\ row'.lock = NoLock
         /\ row'.claim = s /\ row'.age = a /\ row'.attempts = row.attempts
<1>1. a \in 0..Stale /\ "SENDING" \in Statuses /\ s # "nobody"
  BY TimesAssumption, SendersAre DEF Statuses
<1>2. row' \in Rows
  BY <1>1 DEF Rows
<1>3. /\ row'.status = "SENDING" /\ row'.lock = NoLock /\ row'.claim = s /\ row'.age = a
      /\ row'.attempts = row.attempts
  BY DEF Rows
<1>4. RowIs(row')
  BY <1>1, <1>2, <1>3 DEF RowIs
<1> QED BY <1>2, <1>3, <1>4

LEMMA ClaimKeeps ==
  ASSUME IInv, NEW s \in Senders, Claim(s)
  PROVE  IInv'
<1> USE DEF reviewVars, history
<1>0. /\ pc[s] \in {"idle", "pressed"} /\ row.status = "QUEUED" /\ Goto(s, "claimed") /\ current' = {}
      /\ UNCHANGED <<enq, calls, req, active, released, copies, granted>>
  BY DEF Claim, Write
<1>1. PICK a \in 0..MaxPassAge :
        row' = [row EXCEPT !.status = "SENDING", !.claim = s, !.ahead = FALSE, !.age = a]
  BY DEF Claim, Write
<1>2. row \in Rows /\ RowIs(row) /\ row.lock = NoLock /\ row.attempts < MaxAttempts
  BY <1>0, RowThere, RowTyped, TypeIs DEF IInv, RowIs, RowOK
<1>3. /\ RowIs(row') /\ row' \in Rows /\ row'.status = "SENDING" /\ row'.lock = NoLock
      /\ row'.claim = s /\ row'.age = a /\ row'.attempts = row.attempts
  <2>1. row \in Rows /\ row.lock = NoLock /\ a \in 0..MaxPassAge
    BY <1>2
  <2> QED BY <1>1, <2>1, ClaimedIs
<1>4. /\ pc' \in [Senders -> PCs] /\ words' \in [Senders -> Bases \cup {NoWords}] /\ pc'[s] = "claimed"
      /\ \A t \in Senders \ {s} : pc'[t] = pc[t] /\ words'[t] = words[t]
  BY <1>0, Moves, WorkingAre DEF IInv
<1>5. TypeOK'
  BY <1>0, <1>3, <1>4, TypeIs, TypeNext DEF IInv
<1>6. calls = {} /\ calls' = {} /\ row' # NoRow
  BY <1>0, <1>3, CallsAreLocked, RowTyped
<1>7. \A t \in Senders \ {s} : pc'[t] \notin Working
  BY <1>0, <1>4, NobodyWorks
<1>8. RowOK' /\ LockOK' /\ OneCall' /\ GateOK'
  BY <1>0, <1>2, <1>3, <1>6 DEF IInv, RowOK, LockOK, OneCall, GateOK
<1>9. CopiesOK'
  BY <1>0 DEF IInv, CopiesOK, CopiesAskedFor, Owed
<1>10. a <= MaxPassAge + 1
  BY TimesAssumption
<1>11. WorkOK(s)'
  BY <1>3, <1>4, <1>6, <1>10, WorkingAre DEF WorkOK
<1>12. \A t \in Senders : PressOK(t)' /\ WorkOK(t)'
  BY <1>0, <1>7, <1>11, Idles DEF PressOK
<1> QED BY <1>5, <1>6, <1>8, <1>9, <1>12 DEF IInv

(* An attempt that moves on and writes nothing but its own place.          *)
LEMMA AttemptMoved ==
  ASSUME IInv, NEW s \in Senders, NEW l \in PCs, Goto(s, l), pc[s] \in Working, pc[s] # "sending",
         l \in {"idle", "failing", "missed"},
         l \in Working => pc[s] \in Working \ {"sending", "timedout"},
         l = "failing" => pc[s] \in Composing \cup {"claimed", "failing"} \/ granted' = granted + 1,
         granted' \in {granted, granted + 1}, granted' \in 0..MaxGranted,
         UNCHANGED <<row, enq, calls, current, req, active, released, copies>>
  PROVE  IInv'
<1>1. /\ pc' \in [Senders -> PCs] /\ words' \in [Senders -> Bases \cup {NoWords}] /\ pc'[s] = l
      /\ \A t \in Senders \ {s} : pc'[t] = pc[t] /\ words'[t] = words[t]
  BY Moves DEF IInv
<1>2. TypeOK'
  BY <1>1, TypeIs, TypeNext DEF IInv
<1>3. PressOK(s)'
  BY <1>1 DEF PressOK
<1>4. WorkOK(s)'
  BY <1>1, WorkingAre DEF WorkOK, IInv
<1>5. l \notin Composing \cup {"claimed"}
  BY WorkingAre
<1> QED BY <1>1, <1>2, <1>3, <1>4, <1>5, SenderMoved, WorkingAre

LEMMA ThrowsKeeps ==
  ASSUME IInv, NEW s \in Senders, Throws(s) \/ ThrowsAfterSend(s)
  PROVE  IInv'
<1> USE DEF reviewVars, history
<1>1. /\ Goto(s, "failing") /\ pc[s] \in Composing \cup {"claimed", "accepted"}
      /\ pc[s] \in Composing \cup {"claimed"} \/ granted' = granted + 1
      /\ granted' = granted \/ (granted' = granted + 1 /\ granted < MaxGranted)
      /\ UNCHANGED <<row, enq, calls, current, req, active, released, copies>>
  BY DEF Throws, ThrowsAfterSend
<1>2. granted' \in {granted, granted + 1} /\ granted' \in 0..MaxGranted
  BY <1>1, TypeIs, BoundsAssumption DEF IInv
<1>3. pc[s] \in Working \ {"sending", "timedout"}
  BY <1>1, WorkingAre
<1> QED BY <1>1, <1>2, <1>3, AttemptMoved, WorkingAre

LEMMA GrantedTyped ==
  ASSUME IInv, UNCHANGED granted
  PROVE  granted' \in {granted, granted + 1} /\ granted' \in 0..MaxGranted
BY TypeIs DEF IInv

LEMMA SkipAtSendKeeps ==
  ASSUME IInv, NEW s \in Senders, SkipAtSend(s)
  PROVE  IInv'
<1> USE DEF reviewVars, history
<1>0. /\ pc[s] = "claimed" /\ Goto(s, "idle") /\ pc[s] \in Working \ {"sending", "timedout"}
      /\ UNCHANGED <<enq, calls, req, active, released, copies, granted>>
  BY WorkingAre DEF SkipAtSend
<1>1. CASE ~OwnClaim(s)
  <2>1. UNCHANGED <<row, current>>
    BY <1>1 DEF SkipAtSend, WriteIf, KeepRow
  <2> QED BY <1>0, <2>1, GrantedTyped, AttemptMoved, WorkingAre
<1>2. CASE OwnClaim(s)
  <2>1. row' = Unclaimed("SKIPPED") /\ current' = {}
    BY <1>2 DEF SkipAtSend, WriteIf, Write
  <2>2. row \in Rows /\ RowIs(row) /\ row.lock = NoLock
    BY <1>0, OneWorks, TypeIs DEF IInv, WorkOK
  <2>3. /\ row' \in Rows /\ row'.status = "SKIPPED" /\ row'.lock = NoLock /\ row'.claim = "nobody"
        /\ ~row'.ahead /\ row'.age = 0
    BY <2>1, <2>2, UnclaimedIs DEF Statuses
  <2>4. RowIs(row')
    BY <2>3 DEF RowIs
  <2>5. /\ pc' \in [Senders -> PCs] /\ words' \in [Senders -> Bases \cup {NoWords}] /\ pc'[s] = "idle"
        /\ \A t \in Senders \ {s} : pc'[t] = pc[t]
    BY <1>0, Moves, WorkingAre DEF IInv
  <2>6. TypeOK'
    BY <1>0, <2>1, <2>4, <2>5, TypeIs, TypeNext DEF IInv
  <2> QED BY <1>0, <2>1, <2>3, <2>5, <2>6, SenderFinished
<1> QED BY <1>1, <1>2

LEMMA LockedIs ==
  ASSUME row \in Rows, RowIs(row), row.status = "SENDING", NEW s \in Senders,
         row' = [row EXCEPT !.lock = [by |-> s, left |-> SendTimeout + Grace]]
  PROVE  /\ RowIs(row') /\ row' \in Rows /\ row'.status = "SENDING" /\ row'.claim = row.claim
         /\ row'.age = row.age /\ row'.attempts = row.attempts
         /\ row'.lock.by = s /\ row'.lock.left = SendTimeout + Grace
<1> DEFINE l == [by |-> s, left |-> SendTimeout + Grace]
<1>1. l \in Locks /\ l.by = s /\ l.left = SendTimeout + Grace
  BY TimesAssumption DEF Locks
<1> HIDE DEF l
<1>2. row' = [row EXCEPT !.lock = l]
  BY DEF l
<1>3. row' \in Rows
  BY <1>1, <1>2 DEF Rows
<1>4. /\ row'.status = "SENDING" /\ row'.claim = row.claim /\ (row'.ahead <=> row.ahead)
      /\ row'.age = row.age /\ row'.attempts = row.attempts /\ row'.lock = l
  BY <1>2 DEF Rows
<1>5. RowIs(row')
  BY <1>3, <1>4, RowTyped DEF RowIs
<1> QED BY <1>1, <1>3, <1>4, <1>5

LEMMA TakeSendLockKeeps ==
  ASSUME IInv, NEW s \in Senders, TakeSendLock(s)
  PROVE  IInv'
<1> USE DEF reviewVars, history
<1>0. /\ pc[s] = "claimed" /\ pc[s] \in Working \ {"sending", "timedout"}
      /\ UNCHANGED <<enq, calls, req, active, released, copies, granted>>
  BY WorkingAre DEF TakeSendLock
<1>1. CASE ~(OwnClaim(s) /\ ~LockStands)
  <2>1. UNCHANGED <<row, current>> /\ Goto(s, "failing")
    BY <1>1 DEF TakeSendLock, KeepRow
  <2> QED BY <1>0, <2>1, GrantedTyped, AttemptMoved, WorkingAre
<1>2. CASE OwnClaim(s) /\ ~LockStands
  <2>1. /\ row' = [row EXCEPT !.lock = [by |-> s, left |-> SendTimeout + Grace]]
        /\ current' = {} /\ Goto(s, "locked")
    BY <1>2 DEF TakeSendLock, Write
  <2>2. /\ row \in Rows /\ RowIs(row) /\ row.status = "SENDING" /\ row.claim = s
        /\ row.age <= MaxPassAge + 1 /\ row.attempts < MaxAttempts
    BY <1>0, OneWorks, TypeIs DEF IInv
  <2>3. /\ RowIs(row') /\ row' \in Rows /\ row'.status = "SENDING" /\ row'.claim = row.claim
        /\ row'.age = row.age /\ row'.attempts = row.attempts
        /\ row'.lock.by = s /\ row'.lock.left = SendTimeout + Grace
    BY <2>1, <2>2, LockedIs
  <2>4. /\ pc' \in [Senders -> PCs] /\ words' \in [Senders -> Bases \cup {NoWords}] /\ pc'[s] = "locked"
        /\ \A t \in Senders \ {s} : pc'[t] = pc[t]
    BY <2>1, Moves, WorkingAre DEF IInv
  <2>5. TypeOK'
    BY <1>0, <2>1, <2>3, <2>4, TypeIs, TypeNext DEF IInv
  <2>6. calls = {} /\ calls' = {} /\ row' # NoRow
    BY <1>0, <2>3, NoCallsFor, RowTyped
  <2>7. \A t \in Senders \ {s} : pc'[t] \notin Working
    BY <1>0, <2>4, OneWorks
  <2>8. RowOK' /\ LockOK' /\ OneCall' /\ GateOK'
    BY <1>0, <2>2, <2>3, <2>6 DEF IInv, RowOK, LockOK, OneCall, GateOK
  <2>9. CopiesOK'
    BY <1>0 DEF IInv, CopiesOK, CopiesAskedFor, Owed
  <2>10. row'.lock.left >= SendTimeout
    BY <2>3, TimesAssumption
  <2>11. WorkOK(s)'
    BY <2>2, <2>3, <2>4, <2>6, <2>10, WorkingAre DEF WorkOK
  <2>12. \A t \in Senders : PressOK(t)' /\ WorkOK(t)'
    BY <2>1, <2>7, <2>11, Idles DEF PressOK
  <2> QED BY <2>5, <2>6, <2>8, <2>9, <2>12 DEF IInv
<1> QED BY <1>1, <1>2

----
(* Composing, and handing the letter over.                                 *)

LEMMA ContentIs == \A review : ContentFor(review) = review
BY DEF ContentFor

LEMMA ComposeKeeps ==
  ASSUME IInv, NEW s \in Senders, Compose(s)
  PROVE  IInv'
<1> USE DEF reviewVars, history
<1>0. /\ pc[s] \in {"locked", "composed"} /\ pc[s] \in Composing
      /\ pc[s] \in Working \ {"sending", "timedout"}
      /\ UNCHANGED <<row, enq, calls, current, req, active, released, copies, granted>>
  BY WorkingAre DEF Compose
<1>1. /\ active \in Bases /\ released \in 0..active /\ active >= released
      /\ pc \in [Senders -> PCs] /\ words \in [Senders -> Bases \cup {NoWords}]
  BY TypeIs DEF IInv, Bases
<1> DEFINE l == IF pc[s] = "locked" THEN "composed" ELSE "checked"
           w == IF pc[s] = "composed" /\ active = words[s] THEN words[s] ELSE active
<1>2. w \in Bases /\ w >= released /\ l \in PCs /\ l \in {"composed", "checked"} /\ l \in Composing
      /\ l \in Working
  BY <1>1, WorkingAre
<1>3. words' = [words EXCEPT ![s] = w] /\ pc' = [pc EXCEPT ![s] = l]
  BY ContentIs DEF Compose
<1> HIDE DEF l, w
<1>4. /\ pc' \in [Senders -> PCs] /\ words' \in [Senders -> Bases \cup {NoWords}] /\ pc'[s] = l
      /\ words'[s] = w
      /\ \A t \in Senders \ {s} : pc'[t] = pc[t] /\ words'[t] = words[t]
  BY <1>1, <1>2, <1>3
<1>5. TypeOK'
  BY <1>0, <1>4, TypeIs, TypeNext DEF IInv
<1>6. WorkOK(s)'
  <2>1. WorkOK(s)
    BY DEF IInv
  <2> QED BY <1>0, <1>2, <1>4, <2>1 DEF WorkOK
<1>7. PressOK(s)'
  BY <1>2, <1>4 DEF PressOK
<1>8. pc[s] # "sending" /\ l # "sending"
  BY <1>0, <1>2
<1> QED BY <1>0, <1>2, <1>4, <1>5, <1>6, <1>7, <1>8, SenderMoved

LEMMA SendKeeps ==
  ASSUME IInv, NEW s \in Senders, Send(s)
  PROVE  IInv'
<1> USE DEF reviewVars, history
<1> DEFINE c == [by |-> s, basis |-> words[s], left |-> SendTimeout, awaited |-> TRUE]
<1>0. /\ pc[s] = "checked" /\ pc[s] \in Composing /\ pc[s] \in Working \ {"sending", "timedout"}
      /\ row' = [row EXCEPT !.basis = words[s]] /\ current' = {}
      /\ calls' = calls \cup {c} /\ Goto(s, "sending")
      /\ UNCHANGED <<enq, req, active, released, copies, granted>>
  BY WorkingAre DEF Send, Write
<1>1. /\ row \in Rows /\ RowIs(row) /\ row.status = "SENDING" /\ row.claim = s
      /\ row.age <= MaxPassAge + 1 /\ row.attempts < MaxAttempts
  BY <1>0, OneWorks, TypeIs DEF IInv
<1>2. row.lock.by = s /\ row.lock # NoLock /\ row.lock.left >= SendTimeout
  BY <1>0, ComposingIsLocked
<1>3. words[s] \in Bases /\ words[s] >= released
  BY <1>0 DEF IInv, WorkOK
<1>4. calls = {} /\ calls' = {c}
  BY <1>0, NoCallsFor
<1>5. c \in Calls /\ c.by = s /\ c.basis = words[s] /\ c.left = SendTimeout /\ c.awaited
  BY <1>3, TimesAssumption DEF Calls
<1> HIDE DEF c
<1>6. /\ row' \in Rows /\ row'.status = "SENDING" /\ row'.claim = s /\ row'.lock = row.lock
      /\ row'.age = row.age /\ row'.attempts = row.attempts /\ (row'.ahead <=> row.ahead)
  BY <1>0, <1>1, <1>3, BasisIs
<1>7. RowIs(row') /\ row' # NoRow /\ row.age \in Nat
  BY <1>1, <1>6, RowTyped, SendersAre DEF RowIs, Rows
<1>8. /\ pc' \in [Senders -> PCs] /\ words' \in [Senders -> Bases \cup {NoWords}] /\ pc'[s] = "sending"
      /\ \A t \in Senders \ {s} : pc'[t] = pc[t]
  BY <1>0, Moves, WorkingAre DEF IInv
<1>9. TypeOK'
  BY <1>0, <1>4, <1>5, <1>7, <1>8, TypeIs, TypeNext DEF IInv
<1>10. \A t \in Senders \ {s} : pc'[t] \notin Working
  BY <1>0, <1>8, OneWorks
<1>11. RowOK' /\ LockOK' /\ OneCall' /\ GateOK'
  BY <1>0, <1>1, <1>2, <1>4, <1>6, <1>7 DEF IInv, RowOK, LockOK, OneCall, GateOK
<1>12. CopiesOK'
  <2>1. Cardinality(calls) = 0 /\ Cardinality(calls') = 1
    BY <1>4, <1>11, CallsCounted DEF IInv
  <2>2. copies \in Nat /\ granted \in Nat /\ copies < granted
    BY <1>0, <2>1, TypeIs DEF IInv, CopiesOK, Owed
  <2>3. ~Owed'
    BY <1>6, <1>8, <1>10, WorkingAre DEF Owed
  <2> QED BY <1>0, <2>1, <2>2, <2>3 DEF CopiesOK, CopiesAskedFor
<1>13. WorkOK(s)'
  BY <1>1, <1>4, <1>5, <1>6, <1>7, <1>8, WorkingAre DEF WorkOK
<1>14. \A t \in Senders : PressOK(t)' /\ WorkOK(t)'
  BY <1>0, <1>10, <1>13, Idles DEF PressOK
<1>15. ASSUME NEW d \in calls' PROVE CallOK(d)'
  <2>1. d.by = s /\ d.basis = words[s] /\ d.left = SendTimeout /\ d.awaited
    BY <1>4, <1>5
  <2>2. row'.age + d.left <= MaxPassAge + 1 + SendTimeout
    BY <1>1, <1>6, <1>7, <2>1, TimesAssumption
  <2> QED BY <1>0, <1>2, <1>3, <1>6, <1>7, <1>8, <2>1, <2>2 DEF CallOK
<1> QED BY <1>9, <1>11, <1>12, <1>14, <1>15 DEF IInv

----
(* The provider answers, in time or not.                                   *)

LEMMA AnsweredKeeps ==
  ASSUME IInv, NEW s \in Senders, ProviderTakes(s) \/ ProviderRefuses(s)
  PROVE  IInv'
<1> USE DEF reviewVars, history
<1>0. /\ pc[s] = "sending" /\ pc[s] \in Working /\ calls' = calls \ {Awaited(s)}
      /\ UNCHANGED <<row, enq, current, req, active, released, granted>>
  BY WorkingAre DEF ProviderTakes, ProviderRefuses
<1>1. PICK l \in {"accepted", "failing"} :
        Goto(s, l) /\ copies' = IF l = "accepted" THEN copies + 1 ELSE copies
  BY DEF ProviderTakes, ProviderRefuses
<1>2. calls # {} /\ calls' = {}
  BY <1>0, Awaiting
<1>3. /\ pc' \in [Senders -> PCs] /\ words' \in [Senders -> Bases \cup {NoWords}] /\ pc'[s] = l
      /\ \A t \in Senders \ {s} : pc'[t] = pc[t]
  BY <1>1, Moves, WorkingAre DEF IInv
<1>4. OneCall' /\ Cardinality(calls) = 1 /\ Cardinality(calls') = 0
  BY <1>2, CallsCounted DEF IInv, OneCall
<1>5. copies \in Nat /\ granted \in Nat /\ copies + 1 <= granted /\ granted <= MaxGranted
  BY <1>4, TypeIs, BoundsAssumption DEF IInv, CopiesOK, CopiesAskedFor
<1>6. copies' \in 0..MaxGranted
  BY <1>1, <1>5, BoundsAssumption
<1>7. TypeOK'
  BY <1>0, <1>2, <1>3, <1>6, TypeIs, TypeNext DEF IInv
<1>8. /\ row \in Rows /\ row.status = "SENDING" /\ row.claim = s /\ row.age <= MaxPassAge + 1
      /\ \A t \in Senders \ {s} : pc'[t] \notin Working
  BY <1>0, <1>3, OneWorks
<1>9. RowOK' /\ LockOK' /\ GateOK'
  BY <1>0, <1>8, RowTyped DEF IInv, RowOK, LockOK, GateOK
<1>10. CopiesOK'
  <2>1. Owed' => l = "failing"
    BY <1>0, <1>3, <1>8, WorkingAre DEF Owed
  <2> QED BY <1>0, <1>1, <1>4, <1>5, <2>1 DEF CopiesOK, CopiesAskedFor
<1>11. WorkOK(s)'
  BY <1>0, <1>3, <1>8, RowTyped, WorkingAre DEF WorkOK
<1>12. PressOK(s)'
  BY <1>3 DEF PressOK
<1>13. \A t \in Senders \ {s} : PressOK(t)' /\ WorkOK(t)'
  BY <1>0, <1>3, <1>8, Idles DEF IInv, PressOK, LockStands
<1> QED BY <1>2, <1>4, <1>7, <1>9, <1>10, <1>11, <1>12, <1>13 DEF IInv

(* The sender gives up or dies: its letter may still be delivered.         *)
LEMMA AbandonedAre ==
  ASSUME IInv, NEW s \in Senders, calls' = Abandoned(s)
  PROVE  /\ calls' \subseteq Calls /\ OneCall' /\ Cardinality(calls') = Cardinality(calls)
         /\ \A d \in calls' : \E c \in calls :
              /\ d.by = c.by /\ d.basis = c.basis /\ d.left = c.left
              /\ d.awaited <=> c.awaited /\ c.by # s
         /\ calls = {} => calls' = {}
<1>1. calls \subseteq Calls
  BY TypeIs DEF IInv
<1>2. \A d \in calls' : \E c \in calls : d = IF c.by = s THEN [c EXCEPT !.awaited = FALSE] ELSE c
  BY DEF Abandoned
<1>3. calls' \subseteq Calls
  BY <1>1, <1>2 DEF Calls
<1>4. \A d \in calls' : \E c \in calls :
              /\ d.by = c.by /\ d.basis = c.basis /\ d.left = c.left
              /\ d.awaited <=> c.awaited /\ c.by # s
  BY <1>1, <1>2 DEF Calls
<1>5. OneCall'
  BY <1>2 DEF IInv, OneCall
<1>6. calls = {} <=> calls' = {}
  BY DEF Abandoned
<1>7. Cardinality(calls') = Cardinality(calls)
  BY <1>5, <1>6, CallsCounted DEF IInv
<1> QED BY <1>3, <1>4, <1>5, <1>6, <1>7

LEMMA SenderLeft ==
  ASSUME IInv, NEW s \in Senders, NEW l \in {"idle", "timedout"}, Goto(s, l),
         l = "timedout" => pc[s] = "sending",
         calls' = Abandoned(s), current' \subseteq current,
         UNCHANGED <<row, enq, req, active, released, copies, granted>>
  PROVE  IInv'
<1>1. /\ pc' \in [Senders -> PCs] /\ words' \in [Senders -> Bases \cup {NoWords}] /\ pc'[s] = l
      /\ \A t \in Senders \ {s} : pc'[t] = pc[t] /\ words'[t] = words[t]
  BY Moves, WorkingAre DEF IInv
<1>2. TypeOK'
  BY <1>1, AbandonedAre, TypeIs, TypeNext DEF IInv
<1>3. RowOK' /\ LockOK' /\ OneCall' /\ GateOK'
  BY AbandonedAre DEF IInv, RowOK, LockOK, GateOK
<1>4. CopiesOK'
  <2>1. Owed' => Owed
    BY <1>1, WorkingAre DEF Owed
  <2> QED BY <2>1, AbandonedAre DEF IInv, CopiesOK, CopiesAskedFor
<1>5. PressOK(s)'
  BY <1>1 DEF PressOK
<1>6. WorkOK(s)'
  <2>1. WorkOK(s)
    BY DEF IInv
  <2> QED BY <1>1, <2>1, WorkingAre DEF WorkOK
<1>7. ASSUME NEW t \in Senders \ {s} PROVE PressOK(t)' /\ WorkOK(t)'
  <2>1. PressOK(t) /\ WorkOK(t) /\ pc'[t] = pc[t] /\ words'[t] = words[t]
    BY <1>1 DEF IInv
  <2>2. PressOK(t)'
    BY <2>1 DEF PressOK, LockStands
  <2>3. pc[t] = "sending" => \E d \in calls' : d.by = t /\ d.awaited
    <3>1. SUFFICES ASSUME pc[t] = "sending" PROVE \E d \in calls' : d.by = t /\ d.awaited
      OBVIOUS
    <3>2. PICK c \in calls : c.by = t /\ c.awaited
      BY <2>1, <3>1 DEF WorkOK
    <3>3. c \in calls'
      BY <3>2 DEF Abandoned
    <3> QED BY <3>2, <3>3
  <2>4. WorkOK(t)'
    BY <2>1, <2>3 DEF WorkOK
  <2> QED BY <2>2, <2>4
<1>8. ASSUME NEW d \in calls' PROVE CallOK(d)'
  <2>1. PICK c \in calls : /\ d.by = c.by /\ d.basis = c.basis /\ d.left = c.left
                           /\ d.awaited <=> c.awaited /\ c.by # s
    BY AbandonedAre
  <2>2. CallOK(c) /\ c.by \in Senders
    BY TypeIs DEF IInv, Calls
  <2>3. CASE c.by = s
    <3>1. ~d.awaited /\ pc'[d.by] = l
      BY <1>1, <2>1, <2>3
    <3> QED BY <2>1, <2>2, <2>3, <3>1, WorkingAre DEF CallOK
  <2>4. CASE c.by # s
    <3>1. pc'[d.by] = pc[c.by] /\ (d.awaited <=> c.awaited)
      BY <1>1, <2>1, <2>2, <2>4
    <3> QED BY <2>1, <2>2, <3>1 DEF CallOK
  <2> QED BY <2>3, <2>4
<1> QED BY <1>2, <1>3, <1>4, <1>5, <1>6, <1>7, <1>8 DEF IInv

LEMMA SendTimesOutKeeps ==
  ASSUME IInv, NEW s \in Senders, SendTimesOut(s)
  PROVE  IInv'
BY SenderLeft DEF SendTimesOut, reviewVars, history

LEMMA CrashKeeps ==
  ASSUME IInv, NEW s \in Senders, Crash(s)
  PROVE  IInv'
BY SenderLeft DEF Crash, reviewVars, history

LEMMA DeliveredLateKeeps ==
  ASSUME IInv, DeliveredLate
  PROVE  IInv'
<1> USE DEF senderVars, reviewVars, history
<1>0. /\ copies' = copies + 1
      /\ UNCHANGED <<row, enq, pc, words, current, req, active, released, granted>>
  BY DEF DeliveredLate
<1>1. PICK c \in calls : ~c.awaited /\ calls' = calls \ {c}
  BY DEF DeliveredLate
<1>2. calls' = {} /\ \A d \in calls : ~d.awaited
  BY <1>1 DEF IInv, OneCall
<1>3. OneCall' /\ Cardinality(calls) = 1 /\ Cardinality(calls') = 0
  BY <1>1, <1>2, CallsCounted DEF IInv, OneCall
<1>4. copies \in Nat /\ granted \in Nat /\ copies + 1 <= granted /\ granted <= MaxGranted
  BY <1>3, TypeIs, BoundsAssumption DEF IInv, CopiesOK, CopiesAskedFor
<1>5. copies' \in 0..MaxGranted
  BY <1>0, <1>4, BoundsAssumption
<1>6. TypeOK'
  BY <1>0, <1>2, <1>5, TypeIs, TypeNext DEF IInv
<1>7. RowOK' /\ LockOK' /\ GateOK'
  BY <1>0, <1>2 DEF IInv, RowOK, LockOK, GateOK
<1>8. CopiesOK'
  <2>1. Owed' => Owed
    BY <1>0 DEF Owed
  <2> QED BY <1>0, <1>3, <1>4, <2>1 DEF IInv, CopiesOK, CopiesAskedFor
<1>9. ASSUME NEW s \in Senders PROVE PressOK(s)' /\ WorkOK(s)'
  <2>1. PressOK(s) /\ WorkOK(s) /\ pc[s] # "sending"
    BY <1>2 DEF IInv, WorkOK
  <2> QED BY <1>0, <2>1 DEF PressOK, WorkOK, LockStands
<1> QED BY <1>2, <1>3, <1>6, <1>7, <1>8, <1>9 DEF IInv

----
(* The attempt's last statement.                                           *)

LEMMA ConfirmKeeps ==
  ASSUME IInv, NEW s \in Senders, Confirm(s)
  PROVE  IInv'
<1> USE DEF reviewVars, history
<1>0. /\ pc[s] = "accepted" /\ pc[s] \in Working \ {"sending", "timedout"}
      /\ UNCHANGED <<enq, calls, req, active, released, copies, granted>>
  BY WorkingAre DEF Confirm
<1>1. CASE ~OwnClaim(s)
  <2>1. UNCHANGED <<row, current>> /\ Goto(s, "missed")
    BY <1>1 DEF Confirm, KeepRow
  <2> QED BY <1>0, <2>1, GrantedTyped, AttemptMoved, WorkingAre
<1>2. CASE OwnClaim(s)
  <2>1. row' = [Unclaimed("SENT") EXCEPT !.lock = NoLock] /\ current' = {} /\ Goto(s, "idle")
    BY <1>2 DEF Confirm, Write
  <2>2. row \in Rows /\ RowIs(row)
    BY <1>0, OneWorks, TypeIs DEF IInv
  <2>3. row' \in Rows /\ row'.status = "SENT" /\ row'.lock = NoLock /\ RowIs(row')
    BY <2>1, <2>2, UnclaimedUnlockedIs DEF Statuses
  <2>4. /\ pc' \in [Senders -> PCs] /\ words' \in [Senders -> Bases \cup {NoWords}] /\ pc'[s] = "idle"
        /\ \A t \in Senders \ {s} : pc'[t] = pc[t]
    BY <2>1, Moves, WorkingAre DEF IInv
  <2>5. TypeOK'
    BY <1>0, <2>1, <2>3, <2>4, TypeIs, TypeNext DEF IInv
  <2> QED BY <1>0, <2>1, <2>3, <2>4, <2>5, SenderFinished
<1> QED BY <1>1, <1>2

(* An attempt at work still has the row being sent, so there is nothing to *)
(* record.                                                                 *)
LEMMA RecordUnverifiedSendKeeps ==
  ASSUME IInv, NEW s \in Senders, RecordUnverifiedSend(s)
  PROVE  IInv'
<1>1. pc[s] = "missed" /\ pc[s] \in Working /\ Goto(s, "idle")
  BY WorkingAre DEF RecordUnverifiedSend
<1>2. row.status = "SENDING"
  BY <1>1, OneWorks
<1>3. UNCHANGED <<row, enq, calls, current, req, active, released, copies, granted>>
  BY <1>2 DEF RecordUnverifiedSend, WriteIf, KeepRow, reviewVars, history
<1> QED BY <1>1, <1>3, GrantedTyped, AttemptMoved, WorkingAre

LEMMA RecordFailureKeeps ==
  ASSUME IInv, NEW s \in Senders, RecordFailure(s)
  PROVE  IInv'
<1> USE DEF reviewVars, history
<1>0. /\ pc[s] = "failing" /\ pc[s] \in Working \ {"sending", "timedout"} /\ Goto(s, "idle")
      /\ UNCHANGED <<enq, calls, req, active, released, copies, granted>>
  BY WorkingAre DEF RecordFailure
<1>1. row \in Rows /\ RowIs(row) /\ row.status = "SENDING" /\ row.claim = s /\ row.attempts < MaxAttempts
  BY <1>0, OneWorks, TypeIs DEF IInv
<1>2. /\ pc' \in [Senders -> PCs] /\ words' \in [Senders -> Bases \cup {NoWords}] /\ pc'[s] = "idle"
      /\ \A t \in Senders \ {s} : pc'[t] = pc[t]
  BY <1>0, Moves, WorkingAre DEF IInv
<1>3. CASE OwnClaim(s)
  <2>1. row' = AfterFailed(row) /\ current' = {}
    BY <1>3 DEF RecordFailure, Write
  <2>2. /\ RowIs(row') /\ row' \in Rows /\ row'.status # "SENDING" /\ row'.lock = NoLock
        /\ row'.status = "QUEUED" => row'.attempts < MaxAttempts
    BY <1>1, <2>1, AfterFailedIs
  <2>3. TypeOK'
    BY <1>0, <1>2, <2>1, <2>2, TypeIs, TypeNext DEF IInv
  <2> QED BY <1>0, <1>2, <2>1, <2>2, <2>3, SenderFinished
<1>4. CASE ~OwnClaim(s) /\ row.lock.by # s
  <2>1. UNCHANGED <<row, current>>
    BY <1>4 DEF RecordFailure, WriteIf, KeepRow
  <2> QED BY <1>0, <2>1, GrantedTyped, AttemptMoved, WorkingAre
<1>5. CASE ~OwnClaim(s) /\ row.lock.by = s
  <2>1. row' = [row EXCEPT !.lock = NoLock] /\ current' = {}
    BY <1>5 DEF RecordFailure, WriteIf, Write
  <2>2. /\ row' \in Rows /\ row'.status = "SENDING" /\ row'.claim = s /\ row'.lock = NoLock
        /\ row'.attempts = row.attempts /\ row'.age = row.age
    BY <1>1, <2>1, LocksAre DEF Rows
  <2>3. RowIs(row') /\ row' # NoRow
    BY <2>2, SendersAre, RowTyped DEF RowIs
  <2>4. TypeOK'
    BY <1>0, <1>2, <2>1, <2>3, TypeIs, TypeNext DEF IInv
  <2>5. calls = {} /\ calls' = {} /\ \A t \in Senders : pc'[t] \notin Working
    BY <1>0, <1>2, NoCallsFor, OneWorks, WorkingAre
  <2>6. RowOK' /\ LockOK' /\ OneCall' /\ GateOK'
    BY <1>0, <1>1, <2>2, <2>3, <2>5 DEF IInv, RowOK, LockOK, OneCall, GateOK
  <2>7. CopiesOK'
    <3>1. ~Owed'
      BY <2>2, <2>5, WorkingAre DEF Owed
    <3> QED BY <1>0, <3>1 DEF IInv, CopiesOK, CopiesAskedFor
  <2>8. \A t \in Senders : PressOK(t)' /\ WorkOK(t)'
    BY <2>1, <2>5, Idles DEF PressOK
  <2> QED BY <2>4, <2>5, <2>6, <2>7, <2>8 DEF IInv
<1> QED BY <1>3, <1>4, <1>5

(* The lock outlives the claim, and covers the letter that timed out.      *)
LEMMA RecordTimedOutSendKeeps ==
  ASSUME IInv, NEW s \in Senders, RecordTimedOutSend(s)
  PROVE  IInv'
<1> USE DEF reviewVars, history
<1>0. /\ pc[s] = "timedout" /\ pc[s] \in Working /\ Goto(s, "idle")
      /\ UNCHANGED <<enq, calls, req, active, released, copies, granted>>
  BY WorkingAre DEF RecordTimedOutSend
<1>1. /\ row \in Rows /\ RowIs(row) /\ row.status = "SENDING"
      /\ \A t \in Senders \ {s} : pc[t] \notin Working
  BY <1>0, OneWorks, TypeIs DEF IInv
<1>2. row' = Unclaimed("SENT_UNVERIFIED") /\ current' = {}
  BY <1>1 DEF RecordTimedOutSend, WriteIf, Write
<1>3. /\ pc' \in [Senders -> PCs] /\ words' \in [Senders -> Bases \cup {NoWords}] /\ pc'[s] = "idle"
      /\ \A t \in Senders \ {s} : pc'[t] = pc[t]
  BY <1>0, Moves, WorkingAre DEF IInv
<1>4. /\ row' \in Rows /\ row'.status = "SENT_UNVERIFIED" /\ row'.lock = row.lock
      /\ row'.claim = "nobody" /\ ~row'.ahead /\ row'.age = 0
  BY <1>1, <1>2, UnclaimedIs DEF Statuses
<1>5. RowIs(row') /\ row' # NoRow
  BY <1>4, RowTyped DEF RowIs
<1>6. TypeOK'
  BY <1>0, <1>2, <1>3, <1>5, TypeIs, TypeNext DEF IInv
<1>7. \A t \in Senders : pc'[t] \notin Working
  BY <1>1, <1>3, WorkingAre
<1>8. RowOK' /\ LockOK' /\ OneCall' /\ GateOK'
  BY <1>0, <1>4, <1>5 DEF IInv, RowOK, LockOK, OneCall, GateOK
<1>9. CopiesOK'
  <2>1. ~Owed'
    BY <1>4, <1>7, WorkingAre DEF Owed
  <2> QED BY <1>0, <2>1 DEF IInv, CopiesOK, CopiesAskedFor
<1>10. \A t \in Senders : PressOK(t)' /\ WorkOK(t)'
  BY <1>2, <1>7, Idles DEF PressOK
<1>11. ASSUME NEW c \in calls' PROVE CallOK(c)'
  <2>1. CallOK(c) /\ c \in calls /\ c.by \in Senders
    BY <1>0, TypeIs DEF IInv, Calls
  <2>2. ~c.awaited
    BY <1>0, <1>1, <2>1, WorkingAre DEF CallOK
  <2>3. pc'[c.by] \notin Working
    BY <1>7, <2>1
  <2> QED BY <1>0, <1>4, <1>5, <2>1, <2>2, <2>3, WorkingAre DEF CallOK
<1> QED BY <1>6, <1>8, <1>9, <1>10, <1>11 DEF IInv

(* A claim old enough to be taken for interrupted is nobody's at work, and *)
(* its letter can no longer be delivered.                                  *)
LEMMA ReleaseInterruptedSendsKeeps ==
  ASSUME IInv, ReleaseInterruptedSends
  PROVE  IInv'
<1> USE DEF senderVars, reviewVars, history
<1>0. /\ row.status = "SENDING" /\ row.age >= Stale
      /\ row' = [Unclaimed("FAILED") EXCEPT !.lock = NoLock] /\ current' = {}
      /\ UNCHANGED <<enq, pc, words, calls, req, active, released, copies, granted>>
  BY DEF ReleaseInterruptedSends, Interrupted, Write
<1>1. row \in Rows /\ RowIs(row) /\ row.age \in Nat
  BY <1>0, RowThere, TypeIs DEF IInv, Rows
<1>2. row' \in Rows /\ row'.status = "FAILED" /\ row'.lock = NoLock /\ RowIs(row') /\ row' # NoRow
  BY <1>0, <1>1, UnclaimedUnlockedIs, RowTyped DEF Statuses
<1>3. TypeOK'
  BY <1>0, <1>2, TypeIs, TypeNext DEF IInv
<1>4. \A t \in Senders : pc'[t] \notin Working
  <2> SUFFICES ASSUME NEW t \in Senders, pc[t] \in Working PROVE FALSE
    BY <1>0
  <2>1. row.age <= MaxPassAge + 1
    BY OneWorks
  <2> QED BY <1>0, <1>1, <2>1, TimesAssumption
<1>5. calls = {} /\ calls' = {}
  <2> SUFFICES ASSUME NEW c \in calls PROVE FALSE
    BY <1>0
  <2>1. row.age + c.left <= MaxPassAge + 1 + SendTimeout /\ c.left \in Nat
    BY <1>0, TypeIs DEF IInv, CallOK, Calls
  <2> QED BY <1>0, <1>1, <2>1, TimesAssumption
<1>6. RowOK' /\ LockOK' /\ OneCall' /\ GateOK'
  BY <1>0, <1>2, <1>5 DEF IInv, RowOK, LockOK, OneCall, GateOK
<1>7. CopiesOK'
  <2>1. ~Owed'
    BY <1>2, <1>4, WorkingAre DEF Owed
  <2> QED BY <1>0, <2>1 DEF IInv, CopiesOK, CopiesAskedFor
<1>8. \A t \in Senders : PressOK(t)' /\ WorkOK(t)'
  BY <1>0, <1>4, Idles DEF PressOK
<1> QED BY <1>3, <1>5, <1>6, <1>7, <1>8 DEF IInv

----
(* Reviews.                                                                *)

RequestRecords == [pc : RequestPCs, previous : Bases, status : {"QUEUED", "SENDING", "NONE"}]

LEMMA ReqIs ==
  ASSUME IInv
  PROVE  /\ req \in [Reviewers -> RequestRecords]
         /\ active \in Nat /\ active <= MaxReviews /\ released \in Nat /\ released <= active
BY TypeIs, BoundsAssumption DEF IInv, RequestRecords, Bases

(* A request takes its next step.                                          *)
LEMMA ReqMoves ==
  ASSUME IInv, NEW q \in Reviewers, NEW x \in RequestRecords, req' = [req EXCEPT ![q] = x],
         x.pc # "idle" => x.previous < MaxReviews
  PROVE  req' \in [Reviewers -> RequestRecords] /\ GateOK'
<1>1. req' \in [Reviewers -> RequestRecords]
  BY ReqIs
<1>2. GateOK'
  <2>1. \A r \in Reviewers : req'[r] = IF r = q THEN x ELSE req[r]
    BY ReqIs
  <2> QED BY <2>1 DEF IInv, GateOK
<1> QED BY <1>1, <1>2

LEMMA ReviewMoves ==
  ASSUME IInv, NEW q \in Reviewers,
         Review(q, "idle") \/ (req[q].pc # "idle" /\
           (ReviewOn(q, "gateAgain", "NONE") \/ ReviewOn(q, "file", "NONE")))
  PROVE  req' \in [Reviewers -> RequestRecords] /\ GateOK'
<1>1. CASE Review(q, "idle")
  <2>1. At("idle") \in RequestRecords /\ At("idle").pc = "idle"
    BY BoundsAssumption DEF At, RequestRecords, RequestPCs, Bases
  <2> QED BY <1>1, <2>1, ReqMoves DEF Review
<1>2. ASSUME NEW l \in {"gateAgain", "file"}, ReviewOn(q, l, "NONE"), req[q].pc # "idle"
      PROVE  req' \in [Reviewers -> RequestRecords] /\ GateOK'
  <2> DEFINE x == [req[q] EXCEPT !.pc = l, !.status = "NONE"]
  <2>1. req[q] \in RequestRecords /\ req[q].previous < MaxReviews
    BY <1>2, ReqIs DEF IInv, GateOK
  <2>2. x \in RequestRecords /\ x.previous = req[q].previous
    BY <2>1 DEF RequestRecords, RequestPCs
  <2>3. req' = [req EXCEPT ![q] = x]
    BY <1>2, <2>1, ReqIs DEF ReviewOn, RequestRecords
  <2> HIDE DEF x
  <2> QED BY <2>1, <2>2, <2>3, ReqMoves
<1> QED BY <1>1, <1>2

LEMMA GateReadKeeps ==
  ASSUME IInv, NEW q \in Reviewers, GateRead(q)
  PROVE  IInv'
<1> USE DEF senderVars, history
<1> DEFINE x == [pc |-> IF row.status \in {"QUEUED", "SENDING"} THEN "gateWrite" ELSE "file",
                 previous |-> active,
                 status |-> IF row.status \in {"QUEUED", "SENDING"} THEN row.status ELSE "NONE"]
<1>1. x \in RequestRecords /\ x.previous = active /\ active < MaxReviews
  BY ReqIs DEF GateRead, RequestRecords, RequestPCs, Bases
<1>2. req' = [req EXCEPT ![q] = x]
  BY DEF GateRead
<1> HIDE DEF x
<1>3. req' \in [Reviewers -> RequestRecords] /\ GateOK'
  BY <1>1, <1>2, ReqMoves
<1>4. UNCHANGED <<row, enq, pc, words, calls, current, active, released, copies, granted>>
  BY DEF GateRead
<1>5. TypeOK'
  BY <1>3, <1>4, TypeIs, TypeNext DEF IInv, RequestRecords
<1> QED BY <1>3, <1>4, <1>5, DeskMoved

LEMMA FileIs ==
  ASSUME IInv, NEW q \in Reviewers, req[q].pc # "idle", File(q)
  PROVE  /\ req' \in [Reviewers -> RequestRecords] /\ GateOK'
         /\ active' \in Bases /\ active' >= active
<1>1. req[q].previous < MaxReviews
  BY DEF IInv, GateOK
<1>2. active' \in Bases /\ active' >= active
  BY <1>1, ReqIs, BoundsAssumption DEF File, Bases
<1> QED BY <1>2, ReviewMoves DEF File

LEMMA FiledTyped ==
  ASSUME IInv, active' \in Bases, active' >= active
  PROVE  released \in 0..active' /\ active' \in 0..active'
BY ReqIs, BoundsAssumption DEF Bases

LEMMA FileUngatedKeeps ==
  ASSUME IInv, NEW q \in Reviewers, FileUngated(q)
  PROVE  IInv'
<1> USE DEF senderVars, history
<1>1. /\ req' \in [Reviewers -> RequestRecords] /\ GateOK'
      /\ active' \in Bases /\ active' >= active
  BY FileIs DEF FileUngated
<1>2. UNCHANGED <<row, enq, pc, words, calls, current, released, copies, granted>>
  BY DEF FileUngated
<1>3. TypeOK'
  BY <1>1, <1>2, FiledTyped, TypeIs, TypeNext DEF IInv, RequestRecords
<1> QED BY <1>1, <1>2, <1>3, DeskMoved

LEMMA DeskKeeps ==
  ASSUME IInv, NEW q \in Reviewers, GateAgain(q) \/ RequestLost(q)
  PROVE  IInv'
<1> USE DEF senderVars, history
<1>1. Review(q, "idle") \/ (req[q].pc # "idle" /\ ReviewOn(q, "file", "NONE"))
  BY DEF GateAgain, RequestLost
<1>2. req' \in [Reviewers -> RequestRecords] /\ GateOK'
  BY <1>1, ReviewMoves
<1>3. UNCHANGED <<row, enq, pc, words, calls, current, active, released, copies, granted>>
  BY DEF GateAgain, RequestLost
<1>4. TypeOK'
  BY <1>2, <1>3, TypeIs, TypeNext DEF IInv, RequestRecords
<1> QED BY <1>2, <1>3, <1>4, DeskMoved

(* The gate opens only for a letter nobody holds.                          *)
LEMMA GateWriteKeeps ==
  ASSUME IInv, NEW q \in Reviewers, GateWrite(q)
  PROVE  IInv'
<1> USE DEF senderVars, history
<1>0. req[q].pc # "idle" /\ UNCHANGED <<enq, pc, words, calls, copies, granted>>
  BY DEF GateWrite
<1>1. CASE ~GateOpen(q)
  <2>1. ReviewOn(q, "gateAgain", "NONE") /\ UNCHANGED <<row, current, active, released>>
    BY <1>1 DEF GateWrite, KeepRow
  <2>2. req' \in [Reviewers -> RequestRecords] /\ GateOK'
    BY <1>0, <2>1, ReviewMoves
  <2>3. TypeOK'
    BY <1>0, <2>1, <2>2, TypeIs, TypeNext DEF IInv, RequestRecords
  <2> QED BY <1>0, <2>1, <2>2, <2>3, DeskMoved
<1>2. CASE GateOpen(q)
  <2>1. /\ File(q) /\ ~LockStands
        /\ released' = IF active' # active THEN active' ELSE released
        /\ WriteIf(active' # active, IF row.status = "QUEUED" THEN [row EXCEPT !.due = TRUE] ELSE row)
    BY <1>2 DEF GateWrite, GateOpen
  <2>2. /\ req' \in [Reviewers -> RequestRecords] /\ GateOK'
        /\ active' \in Bases /\ active' >= active
    BY <1>0, <2>1, FileIs
  <2>3. released' \in 0..active'
    BY <2>1, <2>2, FiledTyped
  <2>4. CASE row' = row /\ current' \subseteq current /\ row \notin Rows
    <3>1. TypeOK'
      BY <1>0, <2>2, <2>3, <2>4, TypeIs, TypeNext DEF IInv, RequestRecords
    <3>2. row = NoRow /\ calls = {}
      BY <2>4, TypeIs DEF IInv, RowIs, RowOK
    <3>3. \A t \in Senders : pc[t] \notin Working
      BY <3>2, NobodyWorks, RowTyped
    <3>4. RowOK' /\ LockOK' /\ CopiesOK' /\ OneCall'
      BY <1>0, <2>4 DEF IInv, RowOK, LockOK, CopiesOK, CopiesAskedFor, Owed, OneCall
    <3>5. \A t \in Senders : PressOK(t)' /\ WorkOK(t)'
      BY <1>0, <2>4, <3>3, Idles DEF IInv, PressOK, LockStands
    <3> QED BY <1>0, <2>2, <3>1, <3>2, <3>4, <3>5 DEF IInv
  <2>5. CASE row \in Rows
    <3>1. RowIs(row) /\ current' \subseteq current
      BY <2>1, TypeIs DEF IInv, WriteIf, Write, KeepRow
    <3>2. row' = row \/ row' = [row EXCEPT !.due = TRUE]
      BY <2>1 DEF WriteIf, Write, KeepRow
    <3>3. /\ row' \in Rows /\ row'.status = row.status /\ row'.claim = row.claim
          /\ row'.lock = row.lock /\ row'.attempts = row.attempts /\ row'.age = row.age
          /\ (row'.ahead <=> row.ahead)
      BY <2>5, <3>2 DEF Rows
    <3>4. RowIs(row')
      <4>1. row'.claim # "nobody" <=> row'.status = "SENDING"
        BY <2>5, <3>1, <3>3, RowTyped DEF RowIs
      <4>2. row'.claim = "nobody" => ~row'.ahead /\ row'.age = 0
        BY <2>5, <3>1, <3>3, RowTyped DEF RowIs
      <4>3. row'.lock # NoLock => row'.status \in {"SENDING", "SENT_UNVERIFIED"}
        BY <2>5, <3>1, <3>3, RowTyped DEF RowIs
      <4> QED BY <3>3, <4>1, <4>2, <4>3 DEF RowIs
    <3>5. row'.age <= row.age
      BY <2>5, <3>3 DEF Rows
    <3>6. TypeOK'
      BY <1>0, <2>2, <2>3, <3>1, <3>4, TypeIs, TypeNext DEF IInv, RequestRecords
    <3> QED BY <1>0, <2>1, <2>2, <2>5, <3>1, <3>3, <3>5, <3>6, RowTouched
  <2>6. row \notin Rows => row' = row /\ current' \subseteq current
    <3>1. row \notin Rows => row.status # "QUEUED"
      BY RowThere
    <3> QED BY <2>1, <3>1 DEF WriteIf, Write, KeepRow
  <2> QED BY <2>4, <2>5, <2>6
<1> QED BY <1>1, <1>2

----
(* Time: the lock and what it covers run down together.                    *)

LEMMA AgedLock ==
  ASSUME NEW l \in Locks
  PROVE  LET m == IF l.left = 0 THEN NoLock ELSE [l EXCEPT !.left = l.left - 1]
         IN  /\ m \in Locks
             /\ l.left > 0 => m.by = l.by /\ m.left = l.left - 1
             /\ m # NoLock => l # NoLock /\ m.by = l.by
             /\ l = NoLock => m = NoLock
<1>1. l \in [by : Senders, left : 0..(SendTimeout + Grace)] \/ l = NoLock
  BY DEF Locks
<1>2. CASE l.left = 0
  BY <1>2, LocksAre
<1>3. CASE l.left # 0
  <2>1. l \in [by : Senders, left : 0..(SendTimeout + Grace)] /\ l # NoLock
    BY <1>1, <1>3, LocksAre
  <2>2. l.left - 1 \in 0..(SendTimeout + Grace)
    BY <1>3, <2>1, TimesAssumption
  <2>3. [l EXCEPT !.left = l.left - 1] \in [by : Senders, left : 0..(SendTimeout + Grace)]
    BY <2>1, <2>2
  <2> QED BY <1>3, <2>1, <2>3 DEF Locks
<1> QED BY <1>2, <1>3

LEMMA AgedRow ==
  ASSUME row \in Rows, RowIs(row), row' = Aged(row)
  PROVE  /\ row' \in Rows /\ RowIs(row') /\ row'.status = row.status /\ row'.claim = row.claim
         /\ row'.attempts = row.attempts /\ row.age \in Nat /\ row'.age \in Nat
         /\ row'.age <= row.age + 1
         /\ row.lock.left > 0 => row'.lock.by = row.lock.by /\ row'.lock.left = row.lock.left - 1
         /\ row'.lock # NoLock => row.lock # NoLock /\ row'.lock.by = row.lock.by
         /\ row.lock = NoLock => row'.lock = NoLock
<1> DEFINE a == IF row.status = "SENDING" /\ row.age < Stale THEN row.age + 1 ELSE row.age
           m == IF row.lock.left = 0 THEN NoLock ELSE [row.lock EXCEPT !.left = row.lock.left - 1]
<1>0. row.age \in 0..Stale /\ row.lock \in Locks
  BY DEF Rows
<1>1. /\ a \in 0..Stale /\ a <= row.age + 1 /\ a \in Nat /\ row.age \in Nat
      /\ row.status # "SENDING" => a = row.age
  BY <1>0, TimesAssumption
<1>2. /\ m \in Locks /\ (row.lock.left > 0 => m.by = row.lock.by /\ m.left = row.lock.left - 1)
      /\ (m # NoLock => row.lock # NoLock /\ m.by = row.lock.by)
      /\ (row.lock = NoLock => m = NoLock)
  BY <1>0, AgedLock
<1>3. row' = [row EXCEPT !.age = a, !.lock = m]
  BY DEF Aged
<1> HIDE DEF a, m
<1>4. row' \in Rows
  BY <1>1, <1>2, <1>3 DEF Rows
<1>5. /\ row'.status = row.status /\ row'.claim = row.claim /\ row'.attempts = row.attempts
      /\ (row'.ahead <=> row.ahead) /\ row'.age = a /\ row'.lock = m
  BY <1>3 DEF Rows
<1>6. RowIs(row')
  <2>1. row # NoRow
    BY RowTyped
  <2>2. row'.claim # "nobody" <=> row'.status = "SENDING"
    BY <1>5, <2>1 DEF RowIs
  <2>3. row'.claim = "nobody" => ~row'.ahead /\ row'.age = 0
    BY <1>1, <1>5, <2>1 DEF RowIs
  <2>4. row'.lock # NoLock => row'.status \in {"SENDING", "SENT_UNVERIFIED"}
    BY <1>2, <1>5, <2>1 DEF RowIs
  <2> QED BY <1>4, <2>2, <2>3, <2>4 DEF RowIs
<1> QED BY <1>1, <1>2, <1>4, <1>5, <1>6

LEMMA AgedCallIs ==
  ASSUME NEW c \in Calls, c.left > 0, NEW d, d = [c EXCEPT !.left = c.left - 1]
  PROVE  /\ d \in Calls /\ d.by = c.by /\ d.basis = c.basis /\ d.left = c.left - 1
         /\ d.awaited <=> c.awaited
<1>1. c.left - 1 \in 0..SendTimeout
  BY TimesAssumption DEF Calls
<1> QED BY <1>1 DEF Calls

(* A letter that may still be delivered has that much less time for it.    *)
LEMMA AgedCalls ==
  ASSUME IInv, calls' = {[c EXCEPT !.left = @ - 1] : c \in {d \in calls : d.left > 0}}
  PROVE  /\ calls' \subseteq Calls /\ OneCall' /\ Cardinality(calls') <= Cardinality(calls)
         /\ \A d \in calls' : \E c \in calls :
              /\ d.by = c.by /\ d.basis = c.basis /\ c.left > 0 /\ d.left = c.left - 1
              /\ d.awaited <=> c.awaited
         /\ \A c \in calls : c.left > 0 => \E d \in calls' : d.by = c.by /\ (d.awaited <=> c.awaited)
         /\ Cardinality(calls) \in Nat /\ Cardinality(calls') \in Nat
<1>1. calls \subseteq Calls
  BY TypeIs DEF IInv
<1>2. \A d \in calls' : \E c \in calls : c.left > 0 /\ d = [c EXCEPT !.left = c.left - 1]
  OBVIOUS
<1>3. ASSUME NEW d \in calls'
      PROVE  /\ d \in Calls
             /\ \E c \in calls :
                  /\ d.by = c.by /\ d.basis = c.basis /\ c.left > 0 /\ d.left = c.left - 1
                  /\ d.awaited <=> c.awaited
  <2>1. PICK c \in calls : c.left > 0 /\ d = [c EXCEPT !.left = c.left - 1]
    BY <1>2
  <2>2. c \in Calls
    BY <1>1
  <2>3. /\ d \in Calls /\ d.by = c.by /\ d.basis = c.basis /\ d.left = c.left - 1
        /\ d.awaited <=> c.awaited
    BY <2>1, <2>2, AgedCallIs
  <2> QED BY <2>1, <2>3
<1>4. ASSUME NEW c \in calls, c.left > 0
      PROVE  \E d \in calls' : d.by = c.by /\ (d.awaited <=> c.awaited)
  <2>1. PICK d \in calls' : d = [c EXCEPT !.left = c.left - 1]
    BY <1>4
  <2>2. c \in Calls
    BY <1>1
  <2>3. d.by = c.by /\ (d.awaited <=> c.awaited)
    BY <1>4, <2>1, <2>2, AgedCallIs
  <2> QED BY <2>3
<1>5. OneCall'
  BY <1>2 DEF IInv, OneCall
<1>6. calls = {} => calls' = {}
  BY <1>2
<1>7. /\ Cardinality(calls') <= Cardinality(calls)
      /\ Cardinality(calls) \in Nat /\ Cardinality(calls') \in Nat
  BY <1>5, <1>6, CallsCounted DEF IInv
<1> QED BY <1>3, <1>4, <1>5, <1>7

LEMMA TickKeeps ==
  ASSUME IInv, Tick
  PROVE  IInv'
<1> USE DEF senderVars, reviewVars, history
<1>0. /\ row' = Aged(row) /\ \A s \in Senders : InTime(s)
      /\ calls' = {[c EXCEPT !.left = @ - 1] : c \in {d \in calls : d.left > 0}}
      /\ UNCHANGED <<enq, pc, words, current, req, active, released, copies, granted>>
  BY DEF Tick
<1>1. row \in Rows /\ RowIs(row) /\ row # NoRow /\ row.lock \in Locks
  BY TypeIs DEF Tick, IInv, RowIs, Rows
<1>2. /\ row' \in Rows /\ RowIs(row') /\ row'.status = row.status /\ row'.claim = row.claim
      /\ row'.attempts = row.attempts /\ row.age \in Nat /\ row'.age \in Nat
      /\ row'.age <= row.age + 1
      /\ row.lock.left > 0 => row'.lock.by = row.lock.by /\ row'.lock.left = row.lock.left - 1
      /\ row'.lock # NoLock => row.lock # NoLock /\ row'.lock.by = row.lock.by
      /\ row.lock = NoLock => row'.lock = NoLock
  BY <1>0, <1>1, AgedRow
<1>3. row' # NoRow
  BY <1>2, RowTyped
<1>4. calls' \subseteq Calls /\ OneCall'
  BY <1>0, AgedCalls
<1>5. TypeOK'
  BY <1>0, <1>2, <1>4, TypeIs, TypeNext DEF IInv
<1>6. RowOK' /\ LockOK' /\ GateOK'
  BY <1>0, <1>1, <1>2, <1>3 DEF IInv, RowOK, LockOK, GateOK
<1>7. CopiesOK'
  <2>1. /\ Cardinality(calls') <= Cardinality(calls)
        /\ Cardinality(calls) \in Nat /\ Cardinality(calls') \in Nat
    BY <1>0, AgedCalls
  <2>2. copies \in Nat /\ granted \in Nat
    BY TypeIs DEF IInv
  <2>3. Owed' <=> Owed
    BY <1>0, <1>2 DEF Owed
  <2> QED BY <1>0, <2>1, <2>2, <2>3 DEF IInv, CopiesOK, CopiesAskedFor
<1>8. ASSUME NEW s \in Senders PROVE PressOK(s)' /\ WorkOK(s)'
  <2>1. PressOK(s) /\ WorkOK(s) /\ InTime(s)
    BY <1>0 DEF IInv
  <2>2. PressOK(s)'
    BY <1>0, <1>1, <1>2, <1>3, <2>1 DEF PressOK, LockStands
  <2>3. pc[s] \in Working => row.status = "SENDING" /\ row.claim = s /\ row.age <= MaxPassAge
    BY <2>1 DEF WorkOK, InTime
  <2>4. row.age <= MaxPassAge => row'.age <= MaxPassAge + 1
    BY <1>2, TimesAssumption
  <2>5. pc[s] \in Composing => row'.lock.by = s /\ row'.lock.left >= SendTimeout
    <3>1. SUFFICES ASSUME pc[s] \in Composing
                   PROVE  row'.lock.by = s /\ row'.lock.left >= SendTimeout
      OBVIOUS
    <3>2. row.lock.by = s /\ row.lock.left > SendTimeout
      BY <2>1, <3>1 DEF WorkOK, InTime
    <3>3. row.lock.left \in Nat
      BY <1>1, LocksAre
    <3> QED BY <1>2, <3>2, <3>3, TimesAssumption
  <2>6. pc[s] = "sending" => \E d \in calls' : d.by = s /\ d.awaited
    <3>1. SUFFICES ASSUME pc[s] = "sending" PROVE \E d \in calls' : d.by = s /\ d.awaited
      OBVIOUS
    <3>2. Awaited(s) \in calls /\ Awaited(s).by = s /\ Awaited(s).awaited
      BY <3>1, Awaiting
    <3>3. Awaited(s).left > 0
      BY <2>1, <3>1 DEF InTime
    <3>4. PICK d \in calls' : d.by = Awaited(s).by /\ (d.awaited <=> Awaited(s).awaited)
      BY <1>0, <3>2, <3>3, AgedCalls
    <3> QED BY <3>2, <3>4
  <2>7. WorkOK(s)'
    BY <1>0, <1>2, <1>3, <2>1, <2>3, <2>4, <2>5, <2>6 DEF WorkOK
  <2> QED BY <2>2, <2>7
<1>9. ASSUME NEW d \in calls' PROVE CallOK(d)'
  <2>1. PICK c \in calls : /\ d.by = c.by /\ d.basis = c.basis /\ c.left > 0 /\ d.left = c.left - 1
                           /\ d.awaited <=> c.awaited
    BY <1>0, AgedCalls
  <2>2. CallOK(c) /\ c.left \in Nat /\ row.lock.left \in Nat
    BY <1>1, LocksAre, TypeIs DEF IInv, Calls
  <2>3. row'.lock.by = c.by /\ row'.lock.left >= d.left
    BY <1>2, <2>1, <2>2 DEF CallOK
  <2>4. row'.status = "SENDING" => row'.age + d.left <= MaxPassAge + 1 + SendTimeout
    BY <1>2, <2>1, <2>2, TimesAssumption DEF CallOK
  <2> QED BY <1>0, <1>3, <2>1, <2>2, <2>3, <2>4 DEF CallOK
<1> QED BY <1>4, <1>5, <1>6, <1>7, <1>8, <1>9 DEF IInv

----
(* The invariant.                                                          *)

LEMMA IInvInit == Init => IInv
<1> SUFFICES ASSUME Init PROVE IInv
  OBVIOUS
<1>1. TypeOK
  <2>1. row = NoRow
    BY DEF Init
  <2>2. pc \in [Senders -> Working \cup {"idle", "press", "pressed"}] /\ words \in [Senders -> Bases \cup {NoWords}]
    BY DEF Init
  <2>3. req \in [Reviewers -> [pc : RequestPCs, previous : Bases, status : {"QUEUED", "SENDING", "NONE"}]]
    <3>1. At("idle") \in [pc : RequestPCs, previous : Bases, status : {"QUEUED", "SENDING", "NONE"}]
      BY BoundsAssumption DEF At, RequestPCs, Bases
    <3> QED BY <3>1 DEF Init
  <2>4. active \in Bases /\ released \in 0..active /\ granted \in 0..MaxGranted /\ copies \in 0..MaxGranted
    BY BoundsAssumption DEF Init, Bases
  <2>5. calls = {} /\ current = {} /\ enq = "start"
    BY DEF Init
  <2> QED BY <2>1, <2>2, <2>3, <2>4, <2>5 DEF TypeOK
<1>2. RowOK /\ LockOK
  BY RowTyped DEF Init, RowOK, LockOK
<1>3. GateOK
  BY DEF Init, GateOK, At
<1>4. OneCall /\ \A c \in calls : CallOK(c)
  BY DEF Init, OneCall
<1>5. CopiesOK
  <2>1. Cardinality(calls) = 0
    BY FS_EmptySet DEF Init
  <2>2. ~Owed
    BY RowTyped, WorkingAre DEF Init, Owed
  <2> QED BY <2>1, <2>2 DEF Init, CopiesOK, CopiesAskedFor
<1>6. ASSUME NEW s \in Senders PROVE PressOK(s) /\ WorkOK(s)
  BY WorkingAre DEF Init, PressOK, WorkOK
<1> QED BY <1>1, <1>2, <1>3, <1>4, <1>5, <1>6 DEF IInv

LEMMA Stutters ==
  ASSUME IInv, UNCHANGED vars
  PROVE  IInv'
<1> USE DEF vars, senderVars, reviewVars, history
<1>1. TypeOK'
  BY TypeIs, TypeNext DEF IInv
<1>2. GateOK'
  BY DEF IInv, GateOK
<1> QED BY <1>1, <1>2, DeskMoved

LEMMA IInvNext == IInv /\ [Next]_vars => IInv'
<1> SUFFICES ASSUME IInv, [Next]_vars PROVE IInv'
  OBVIOUS
<1>1. CASE EnqueueLook \/ EnqueueCreate
  BY <1>1, EnqueueLookKeeps, EnqueueCreateKeeps
<1>2. CASE FallsDue \/ Preview \/ KeepHeld
  BY <1>2, FallsDueKeeps, PreviewKeeps, KeepHeldKeeps
<1>3. ASSUME NEW s \in Senders, NEW confirm \in BOOLEAN, PressLook(s, confirm)
      PROVE  IInv'
  BY <1>3, PressLookKeeps
<1>4. ASSUME NEW s \in Senders, PressWrite(s) \/ Claim(s) \/ Heartbeat(s) \/ HeartbeatReply(s) \/ Crash(s)
      PROVE  IInv'
  BY <1>4, PressWriteKeeps, ClaimKeeps, HeartbeatKeeps, CrashKeeps
<1>5. ASSUME NEW s \in Senders, AttemptStep(s)
      PROVE  IInv'
  <2>1. CASE NotDue(s) \/ SkipAtSend(s) \/ TakeSendLock(s)
    BY <2>1, NotDueKeeps, SkipAtSendKeeps, TakeSendLockKeeps
  <2>2. CASE Compose(s) \/ Send(s)
    BY <2>2, ComposeKeeps, SendKeeps
  <2>3. CASE ProviderTakes(s) \/ ProviderRefuses(s) \/ SendTimesOut(s)
    BY <2>3, AnsweredKeeps, SendTimesOutKeeps
  <2>4. CASE Confirm(s) \/ RecordUnverifiedSend(s)
    BY <2>4, ConfirmKeeps, RecordUnverifiedSendKeeps
  <2>5. CASE Throws(s) \/ ThrowsAfterSend(s)
    BY <2>5, ThrowsKeeps
  <2>6. CASE RecordFailure(s) \/ RecordTimedOutSend(s)
    BY <2>6, RecordFailureKeeps, RecordTimedOutSendKeeps
  <2> QED BY <1>5, <2>1, <2>2, <2>3, <2>4, <2>5, <2>6 DEF AttemptStep
<1>6. CASE DeliveredLate \/ ReleaseInterruptedSends
  BY <1>6, DeliveredLateKeeps, ReleaseInterruptedSendsKeeps
<1>7. ASSUME NEW q \in Reviewers, GateRead(q) \/ GateWrite(q)
      PROVE  IInv'
  BY <1>7, GateReadKeeps, GateWriteKeeps
<1>8. ASSUME NEW q \in Reviewers, GateAgain(q) \/ FileUngated(q) \/ RequestLost(q)
      PROVE  IInv'
  BY <1>8, DeskKeeps, FileUngatedKeeps
<1>9. CASE Tick
  BY <1>9, TickKeeps
<1>10. CASE UNCHANGED vars
  BY <1>10, Stutters
<1> QED BY <1>1, <1>2, <1>3, <1>4, <1>5, <1>6, <1>7, <1>8, <1>9, <1>10 DEF Next

(* What any number of attempts, presses and reviewers keep true of the     *)
(* letter: whoever works on it holds its claim, and whatever is with the   *)
(* provider is covered by a lock that lasts as long.                       *)
THEOREM Invariant == Spec => []IInv
<1>1. Init => IInv
  BY IInvInit
<1>2. IInv /\ [Next]_vars => IInv'
  BY IInvNext
<1> QED BY <1>1, <1>2, PTL DEF Spec

----
(* The properties.                                                         *)

(* Every variable keeps its shape, and the row's claim and lock go with    *)
(* its status.                                                             *)
THEOREM TypeCorrect == Spec => []TypeOK
<1>1. IInv => TypeOK
  BY DEF IInv
<1> QED BY <1>1, Invariant, PTL

(* The provider never has the letter twice, however many attempts and      *)
(* presses there are and whatever times out, dies or is retried: the lock  *)
(* of an unanswered send keeps every other attempt out until the provider  *)
(* can no longer deliver it.                                               *)
THEOREM OneInFlight == Spec => []OneCopyInFlight
<1>1. IInv => OneCopyInFlight
  BY CallsCounted DEF IInv, OneCopyInFlight
<1> QED BY <1>1, Invariant, PTL

(* Once a review has released the letter, no older words are with the      *)
(* provider or about to be handed to it.                                   *)
THEOREM ReviewedOnly == Spec => []ReviewedWordsOnly
<1>1. IInv => ReviewedWordsOnly
  BY DEF IInv, ReviewedWordsOnly, CallOK, WorkOK
<1> QED BY <1>1, Invariant, PTL

(* No timeout, lost claim, crash or retry gives the candidate a letter     *)
(* nobody asked for.                                                       *)
THEOREM AskedForOnly == Spec => []CopiesAskedFor
<1>1. IInv => CopiesAskedFor
  BY DEF IInv, CopiesOK
<1> QED BY <1>1, Invariant, PTL

====
