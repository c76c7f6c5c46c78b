---- MODULE CandidateJourney ----
(***************************************************************************)
(* What the pipeline promises about one candidate's journey for one role,  *)
(* whoever acts on it and however often: it only goes forward; the system  *)
(* places the candidate at the stages that are bookkeeping and no further; *)
(* a person moves them one stage on, or finalises them; a badge is struck  *)
(* by the very move that earns it; and a closed journey is over.           *)
(***************************************************************************)
EXTENDS Integers, Sequences

VARIABLES
    plan,   \* the role's stages, as snapshotted: a sequence of [key, kind]
    place,  \* the stage the candidate is at, 0 before the journey starts
    closed, \* the decision that closed the journey and the stage it was taken at
    badges  \* the tiers the candidate holds

journeyVars == <<plan, place, closed, badges>>

NotClosed == [as |-> "open", at |-> 0]
Open == place > 0 /\ closed = NotClosed

(* Silver and Gold are earned by being moved out of them, Diamond by       *)
(* arriving there.                                                         *)
EarnedBy(from, to) ==
    ({plan[from].key} \cap {"silver", "gold"}) \cup ({plan[to].key} \cap {"diamond"})

(* Wherever it has come so far.                                            *)
JourneyInit ==
    /\ place \in 0 .. Len(plan) /\ closed = NotClosed
    /\ badges \subseteq {"bronze", "silver", "gold", "diamond"}

Starts == place = 0 /\ place' = 1 /\ UNCHANGED <<plan, closed, badges>>

(* Forward, to a stage that is bookkeeping, and never to the last one.     *)
SystemPlaces ==
    /\ Open
    /\ place' \in place + 1 .. Len(plan) - 1
    /\ plan[place'].kind \in {"intake", "profile_review"}
    /\ UNCHANGED <<plan, closed, badges>>

PersonMovesTo(to) ==
    /\ Open /\ place < to
    /\ place' = to /\ badges' = badges \cup EarnedBy(place, to)
    /\ UNCHANGED <<plan, closed>>

PersonAdvances == place < Len(plan) /\ PersonMovesTo(place + 1)
PersonFinalises == PersonMovesTo(Len(plan))

PersonCloses ==
    /\ Open
    /\ \E o \in {"APPROVED", "REJECTED", "WITHDRAWN"} :
          (o = "APPROVED" => place = Len(plan)) /\ closed' = [as |-> o, at |-> place]
    /\ UNCHANGED <<plan, place, badges>>

(* The CV was read against an approved scorecard.                          *)
BronzeStruck == badges' = badges \cup {"bronze"} /\ UNCHANGED <<plan, place, closed>>

JourneyNext ==
    \/ Starts \/ SystemPlaces \/ BronzeStruck
    \/ PersonAdvances \/ PersonFinalises \/ PersonCloses

JourneySpec == JourneyInit /\ [][JourneyNext]_journeyVars
====
