------------------------------- MODULE Ballot -------------------------------
(***************************************************************************)
(* The part of the data that voting never changes: which topics exist, of  *)
(* which kind and type they are, which topic is a question of which        *)
(* survey (or a round of which staged topic) and which option belongs to   *)
(* which topic.  TopicKind and TopicType are the enums of the schema; the  *)
(* types that voting treats alike share one name here:                     *)
(*   CHOICE   BINARY, MULTIPLE, IMAGE_MULTIPLE, MATCHING, PUZZLE,          *)
(*            STAR_RATING, LIKERT (one option)                             *)
(*   DRAW     SCRATCH, LOTTERY, SPIN_WHEEL (the server picks the option)   *)
(*   TEXT     SPECTRUM, SHORT_ANSWER (a value, no option)                  *)
(*   CONTAINER  SURVEY, STAGED (a parent without options)                  *)
(* CreateTopicDto accepts any type for a FORMAL topic: one of type SURVEY  *)
(* or STAGED has options and is voted on like a CHOICE, and a FORMAL draw  *)
(* is drawn like any other.                                                *)
(***************************************************************************)
EXTENDS Integers, FiniteSets

CONSTANTS
    Users,          \* the members who answer
    Topics,         \* rows of "topics", parents and their questions alike
    Options,        \* rows of "topic_options"
    NoTopic,        \* parent_topic_id IS NULL
    Kind,           \* topics.kind
    Type,           \* topics.topic_type
    Parent,         \* topics.parent_topic_id
    OptionTopic,    \* topic_options.topic_id
    MaxSelections,  \* topics.max_selections
    RewardPoints    \* VOTE_REWARD_POINTS

Kinds == {"FORMAL", "QUICK", "SURVEY", "STAGED"}
Types == {"CHOICE", "DRAW", "TEXT", "MULTI_SELECT", "IMAGE_RANK", "CONTAINER"}
Statuses == {"DRAFT", "OPEN", "LOCKED", "SETTLED"}

ASSUME FiniteAssumption ==
    /\ IsFiniteSet(Users)
    /\ IsFiniteSet(Topics)
    /\ NoTopic \notin Topics

ASSUME TopologyAssumption ==
    /\ Kind \in [Topics -> Kinds]
    /\ Type \in [Topics -> Types]
    /\ Parent \in [Topics -> Topics \cup {NoTopic}]
    /\ OptionTopic \in [Options -> Topics]
    /\ MaxSelections \in [Topics -> Nat]
    /\ RewardPoints \in Nat

\* createSurvey and createStaged write the only rows with a parent: children are QUICK
\* topics, parents are containers, and a container has neither a parent nor an option.
ASSUME FamilyAssumption ==
    /\ \A t \in Topics : Kind[t] \in {"SURVEY", "STAGED"} <=> Type[t] = "CONTAINER"
    /\ \A t \in Topics : Parent[t] # NoTopic =>
          Kind[t] = "QUICK" /\ Kind[Parent[t]] \in {"SURVEY", "STAGED"}
    /\ \A o \in Options : Type[OptionTopic[o]] # "CONTAINER"

IsChild(t) == Parent[t] # NoTopic

Questions(p) == {q \in Topics : Parent[q] = p}

IsRound(t) == IsChild(t) /\ Kind[Parent[t]] = "STAGED"

IsSurveyQuestion(t) == IsChild(t) /\ Kind[Parent[t]] = "SURVEY"

OptionsOf(t) == {o \in Options : OptionTopic[o] = t}

\* What vote() and revote() accept as an answer to t, as the set of options it selects.
AnswerSets(t) ==
    {S \in SUBSET OptionsOf(t) :
        \/ /\ Type[t] = "MULTI_SELECT"
           /\ S # {}
           /\ Cardinality(S) <= MaxSelections[t]
        \/ Type[t] = "TEXT" /\ S = {}
        \/ /\ Type[t] \notin {"MULTI_SELECT", "TEXT"}
           /\ \E o \in OptionsOf(t) : S = {o}}

\* isSurveyComplete: every question has the user's answer, a rank result for IMAGE_RANK
\* and a vote for every other type, and the survey has at least one question.
SurveyComplete(p, u, votes, ranks) ==
    /\ Kind[p] = "SURVEY"
    /\ Questions(p) # {}
    /\ \A q \in Questions(p) :
          u \in IF Type[q] = "IMAGE_RANK" THEN ranks[q] ELSE votes[q]

\* ensureSurveyCompletionVote: the parent of t, if the user's answers in votes and ranks
\* complete it and the parent has no vote of the user's yet.
CompletedParents(t, u, votes, ranks) ==
    {p \in Topics : /\ p = Parent[t]
                    /\ SurveyComplete(p, u, votes, ranks)
                    /\ u \notin votes[p]}
=============================================================================
