---- MODULE Transcript ----
(***************************************************************************)
(* The canonical transcript of one interview: the Turn rows of a session   *)
(* in index order, and what the engine reads off them.                     *)
(*                                                                         *)
(* Turns are only ever appended (index = tail + 1) or changed in place, so *)
(* a turn's position stands for its id; position 0 is "no turn".           *)
(***************************************************************************)
EXTENDS Naturals, Sequences

(* Utterance kinds after which the room is told the conversation is over,  *)
(* and those among them that may not be scored.                            *)
WithdrawnKinds == {"withdrawn", "safety", "postponed", "handoff"}
EndingKinds == WithdrawnKinds \cup {"signoff"}
AgentKinds == EndingKinds \cup {"opening", "question"}

(* A Turn row.  `closed` is metaJson.sittingClosed; `asked` is the         *)
(* inReplyTo the answer came with (0: none was sent); `slot` stands for    *)
(* the competency it was credited to, as the agent turn that competency    *)
(* was read from; `folded` says a second submission was folded into it.    *)
AgentTurn(kind) ==
    [by |-> "agent", kind |-> kind, closed |-> FALSE, asked |-> 0, slot |-> 0,
     folded |-> FALSE]

CandidateTurn(kind, asked, slot) ==
    [by |-> "candidate", kind |-> kind, closed |-> FALSE, asked |-> asked,
     slot |-> slot, folded |-> FALSE]

TurnRecords ==
    [by : {"agent", "candidate"}, kind : AgentKinds \cup {"answer", "leave"},
     closed : BOOLEAN, asked : Nat, slot : Nat, folded : BOOLEAN]

(* The last and the first of some positions, or 0.                         *)
IsLast(p, ps) == p \in ps /\ \A q \in ps : q <= p
IsFirst(p, ps) == p \in ps /\ \A q \in ps : p <= q
LastAmong(ps) == IF \E p \in ps : IsLast(p, ps) THEN CHOOSE p \in ps : IsLast(p, ps) ELSE 0
FirstAmong(ps) == IF \E p \in ps : IsFirst(p, ps) THEN CHOOSE p \in ps : IsFirst(p, ps) ELSE 0

AgentPositions(ts) == {p \in DOMAIN ts : ts[p].by = "agent"}
CandidatePositions(ts) == {p \in DOMAIN ts : ts[p].by = "candidate"}

NewestAgent(ts) == LastAmong(AgentPositions(ts))

(* Mutant: any postponement ends a sitting, closed or not.                 *)
SittingFromPostponed(ts) ==
    LastAmong({p \in AgentPositions(ts) : ts[p].kind = "postponed"}) + 1

(* Where the sitting in progress begins: just after the last postponement  *)
(* that a re-invite or a start has closed (currentSittingRows).            *)
SittingFrom(ts) ==
    LastAmong({p \in AgentPositions(ts) : ts[p].kind = "postponed" /\ ts[p].closed}) + 1

SittingAgents(ts) == {p \in AgentPositions(ts) : p >= SittingFrom(ts)}

(* The turn recordedOutcome hands back: while the session is live only     *)
(* this sitting's agent turns count.                                       *)
PendingTurn(ts, live) ==
    LastAmong(IF live THEN SittingAgents(ts) ELSE AgentPositions(ts))

(* Candidate turns after the newest agent turn: the question on the table  *)
(* has been answered when there is one.                                    *)
AnswersPending(ts) == {p \in CandidatePositions(ts) : p > NewestAgent(ts)}

(* closePreviousSitting: stamp the newest agent turn, if it is a           *)
(* postponement that is not stamped yet.                                   *)
CloseSitting(ts) ==
    LET a == NewestAgent(ts) IN
    IF a # 0 /\ ts[a].kind = "postponed" THEN [ts EXCEPT ![a].closed = TRUE] ELSE ts

====
