----------------------------- MODULE StagedTopic -----------------------------
(***************************************************************************)
(* What a staged topic promises its author and its voters, one atomic step *)
(* per operation: rounds are published one after the other, each locked    *)
(* with the author's feedback when the next one opens or the topic is      *)
(* settled.  StagedRounds implements it as long as the author's requests   *)
(* do not overlap.                                                         *)
(***************************************************************************)
EXTENDS Naturals, Sequences

CONSTANTS
    TotalRounds,   \* topics.total_rounds
    Feedbacks,     \* the feedback texts the author writes
    NoFeedback     \* round_feedback IS NULL

\* What the theorems assume of the constants.
RoundsAssumption == TotalRounds \in Nat \ {0} /\ NoFeedback \notin Feedbacks

VARIABLES
    parent,        \* status of the STAGED topic
    rounds         \* its questions in the order of their publication

vars == <<parent, rounds>>

Round == [status : {"OPEN", "LOCKED"}, feedback : Feedbacks \cup {NoFeedback}]

NewRound == [status |-> "OPEN", feedback |-> NoFeedback]

Locked(f) == [status |-> "LOCKED", feedback |-> f]

\* createStaged: the container and its first round.
Init == parent = "OPEN" /\ rounds = <<NewRound>>

\* publishRound
PublishRound(f) ==
    /\ parent = "OPEN"
    /\ Len(rounds) < TotalRounds
    /\ rounds' = Append([rounds EXCEPT ![Len(rounds)] = Locked(f)], NewRound)
    /\ UNCHANGED parent

\* finishStaged
Finish(f) ==
    /\ parent = "OPEN"
    /\ rounds' = [rounds EXCEPT ![Len(rounds)] = Locked(f)]
    /\ parent' = "SETTLED"

Next == \E f \in Feedbacks : PublishRound(f) \/ Finish(f)

Spec == Init /\ [][Next]_vars

-----------------------------------------------------------------------------
TypeOK ==
    /\ parent \in {"OPEN", "SETTLED"}
    /\ rounds \in Seq(Round)
    /\ rounds # <<>>

\* The open rounds are the last one of an open topic and nothing else.
OpenRoundIsLast ==
    \A i \in 1..Len(rounds) :
        rounds[i].status = "OPEN" <=> parent = "OPEN" /\ i = Len(rounds)

\* No more rounds than announced.
WithinTotal == Len(rounds) <= TotalRounds

\* Every locked round carries the author's feedback on it.
LockedHasFeedback ==
    \A i \in 1..Len(rounds) : rounds[i].status = "LOCKED" <=> rounds[i].feedback # NoFeedback

\* A published round, once locked, keeps its feedback, and a settled topic gets no more rounds.
HistoryIsFinal ==
    [][/\ \A i \in 1..Len(rounds) : rounds[i].status = "LOCKED" => rounds'[i] = rounds[i]
       /\ parent = "SETTLED" => UNCHANGED vars]_vars
=============================================================================
