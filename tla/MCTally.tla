------------------------------- MODULE MCTally -------------------------------
(***************************************************************************)
(* One instance of Tally with topics of every kind, and two parts of the   *)
(* topic page of the web client: the panel that shows one question, and    *)
(* the explorer of stances.  A behaviour is about the topics of one scope, *)
(* and the others stay unpublished; or it is about one part of the page.   *)
(***************************************************************************)
EXTENDS Tally, TLC

CONSTANTS
    Scopes,                                            \* what the behaviours are about
    Choices, Middle, Forms, MaxRequests, MaxEvents,    \* of the panel
    Stances, StanceParent, StanceDepth, MaxDepth, Applications, MaxMoves   \* of the explorer

VARIABLES
    scope,         \* the topics of the behaviour
    form, server, shown, page, panel, requests, fetches, asked, events, lapses, meant,
    place, url, target, view, tree, privateApplications, mine, work, left, opened, moves

panelVars == <<form, server, shown, page, panel, requests, fetches, asked, events, lapses, meant>>
explorerVars == <<place, url, target, view, tree, privateApplications, mine, work, left, opened, moves>>
pageVars == <<panelVars, explorerVars>>

\* A survey of a draw and a ranking question, two formal topics, one of them drawn, and a
\* multi-select of two options.
PollTopics == {"survey", "q1", "q2", "formal", "prize", "multi"}

\* A staged topic of two rounds, the second one a ranking, beside a standalone ranking.
StagedTopics == {"staged", "r1", "r2", "rank"}

AllTopics == PollTopics \cup StagedTopics
AllKind == [t \in AllTopics |-> CASE t = "survey" -> "SURVEY" [] t = "staged" -> "STAGED"
                                  [] t \in {"formal", "prize"} -> "FORMAL" [] OTHER -> "QUICK"]
AllType == [t \in AllTopics |-> CASE t \in {"survey", "staged"} -> "CONTAINER"
                                  [] t \in {"q1", "prize"} -> "DRAW"
                                  [] t \in {"q2", "r2", "rank"} -> "IMAGE_RANK"
                                  [] t \in {"formal", "r1"} -> "CHOICE"
                                  [] t = "multi" -> "MULTI_SELECT"]
AllParent == [t \in AllTopics |-> CASE t \in {"q1", "q2"} -> "survey" [] t \in {"r1", "r2"} -> "staged"
                                    [] OTHER -> NoTopic]
AllOptions == 1..9
AllOptionTopic == <<"q1", "q2", "formal", "prize", "multi", "multi", "r1", "r2", "rank">>
AllMax == [t \in AllTopics |-> IF t = "multi" THEN 2 ELSE 0]

EveryScope == {PollTopics, StagedTopics, {}, {"explorer"}}
RankingOnly == {{"rank"}}
PanelOnly == {{}}

\* Every kind of question at every place that shows it; the two choices of a matching question are
\* each other's counterparts, or as the forms of the client build it, their own.
PanelKinds == {"PICK", "MULTI", "SPECTRUM", "SHORT", "LOTTERY", "WHEEL", "SCRATCH", "MATCHING", "PUZZLE"}
TwoChoices == {1, 2}
Crossed == <<2, 1>>
PanelForms ==
    [kind : PanelKinds \cup {"RANK"}, place : {"page", "sub"}, match : {Crossed}]
    \cup [kind : PanelKinds \cup {"TAP"}, place : {"card"}, match : {Crossed}]
    \cup [kind : {"FORMAL"}, place : {"page"}, match : {Crossed}]
    \cup [kind : {"MATCHING"}, place : {"card"}, match : {<<1, 2>>}]

Panel == INSTANCE VotePanel WITH None <- NoTopic

\* No answer is something else than every answer, a match is one of the options, and a card of
\* several options or the vote of a formal topic is shown in one place only.
ASSUME PanelAssumption ==
    /\ Middle \in Choices
    /\ NoTopic \notin (0..2) \X Choices
    /\ Forms \subseteq [kind : PanelKinds \cup {"RANK", "TAP", "FORMAL"}, place : {"page", "sub", "card"}, match : [Choices -> Choices]]
    /\ \A f \in Forms : (f.kind = "TAP" => f.place = "card") /\ (f.kind = "FORMAL" => f.place = "page")

\* A stance, one derived from it where no further may be, and two proposals of the user's own.
StanceAndDerived == [cause |-> NoTopic, effect |-> "cause"]
TwoDepths == [cause |-> 1, effect |-> 2]
Explorer == INSTANCE StanceExplorer
    WITH None <- NoTopic, Parent <- StanceParent, Depth <- StanceDepth, page <- place

\* Stances form a tree, stances and proposals are different things, and no stance is none of them.
ASSUME ExplorerAssumption ==
    /\ Stances \cap Applications = {} /\ Applications # {}
    /\ NoTopic \notin Stances \cup Applications
    /\ StanceParent \in [Stances -> Stances \cup {NoTopic}]
    /\ NoTopic \notin [section : {"vote", "stances"}, stance : Stances \cup {NoTopic}, tab : {"DETAIL", "DISCUSSION"}]

\* Only a behaviour without topics chooses its question, and only one about the explorer opens it.
ScopedInit ==
    /\ Init
    /\ scope \in Scopes
    /\ Panel!Init
    /\ scope # {} => form = (CHOOSE f \in Forms : f.kind = "PICK") /\ ~Panel!Voted
    /\ \/ scope = {"explorer"} /\ Explorer!Init
       \/ /\ scope # {"explorer"}
          /\ place = NoTopic /\ url = NoTopic /\ target = NoTopic /\ view = NoTopic /\ tree = FALSE
          /\ privateApplications = <<>> /\ mine = <<>> /\ work = <<>> /\ left = {} /\ opened = NoTopic /\ moves = 0

Asked(u, t) ==
    \/ \E S \in SUBSET OptionsOf(t) : Vote(u, t, S) /\ UNCHANGED <<scope, pageVars>>
    \/ \E o \in OptionsOf(t) : Draw(u, t, o) /\ UNCHANGED <<scope, pageVars>>
    \/ \E S \in SUBSET OptionsOf(t) : Revote(u, t, S) /\ UNCHANGED <<scope, pageVars>>
    \/ WithdrawVote(u, t) /\ UNCHANGED <<scope, pageVars>>
    \/ SaveRank(u, t) /\ UNCHANGED <<scope, pageVars>>
    \/ WithdrawRank(u, t) /\ UNCHANGED <<scope, pageVars>>

ScopedNext ==
    \/ \E t \in scope \cap Topics : \E C \in SUBSET Questions(t) : Publish(t, C) /\ UNCHANGED <<scope, pageVars>>
    \/ \E t \in scope \cap Topics : OpenRound(t, {}) /\ UNCHANGED <<scope, pageVars>>
    \/ \E t, x \in scope \cap Topics : OpenRound(t, {x}) /\ UNCHANGED <<scope, pageVars>>
    \/ \E t \in scope \cap Topics : FinishStaged(t) /\ UNCHANGED <<scope, pageVars>>
    \/ \E u \in Users, t \in scope \cap Topics : Asked(u, t)
    \/ \E u \in Users : "formal" \in scope /\ EarnElsewhere(u) /\ UNCHANGED <<scope, pageVars>>
    \/ scope = {} /\ Panel!Next /\ UNCHANGED <<vars, scope, explorerVars>>
    \/ scope = {"explorer"} /\ Explorer!Next /\ UNCHANGED <<vars, scope, panelVars>>

Symmetry == Permutations(Users)

ScopedSpec == ScopedInit /\ [][ScopedNext]_<<vars, scope, pageVars>>

\* With nothing under way, an open question can be answered, except in the known ways.
PlayableOrKnown == Panel!PlayableOrKnown

\* With nothing under way and nothing refused or lost, the answer stored and shown is the last one asked for.
LastAnswerCounts == Panel!LastAnswerCounts

\* A fresh matching question can be answered by joining its pairs.
PairsCanBeJoined == Panel!PairsCanBeJoined

\* With nothing under way, the explorer of stances shows what was opened last, except in the known ways.
ShowsWhatWasOpened == Explorer!ShowsWhatWasOpened
=============================================================================
