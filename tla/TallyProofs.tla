----------------------------- MODULE TallyProofs -----------------------------
(***************************************************************************)
(* Proofs about Tally, for every set of users, topics and options.         *)
(*                                                                         *)
(* Counting is the inductive invariant of the rows and the counters; on    *)
(* top of it the answers are well formed, a survey's marker tells who      *)
(* completed it, balances follow from the ledger, and a locked round is    *)
(* final.  Each action has one lemma.                                      *)
(*                                                                         *)
(* The second half is about the panel of one question in the web client,   *)
(* which MCTally puts beside them, for every set of choices, every form of *)
(* question and every bound: PanelInv is its inductive invariant, and      *)
(* AnswersInOrder what it adds while nothing has been refused or lost.     *)
(* The last part is about the explorer of stances beside it, for every     *)
(* tree of stances: ExplorerInv.                                           *)
(***************************************************************************)
EXTENDS MCTally, FiniteSetTheorems, TLAPS

\* Whoever selects an option has a vote on its topic: the reason why the insert of a first
\* vote finds none of its options already selected by the user.
PicksHaveVotes == \A o \in Options : picks[o] \subseteq votes[OptionTopic[o]]

Counting ==
    /\ TypeOK
    /\ PicksHaveVotes
    /\ TotalVotesCountVotes
    /\ VoterCountCountsAnswers
    /\ VoteCountCountsPicks

-----------------------------------------------------------------------------
(* Sets of users.                                                          *)

\* A new user makes a set of users larger by one.
LEMMA AddUser ==
  ASSUME NEW S \in SUBSET Users, NEW u \in Users
  PROVE  /\ Cardinality(S) \in Nat
         /\ u \notin S => Cardinality(S \cup {u}) = Cardinality(S) + 1
BY FS_Subset, FS_AddElement, FS_CardinalityType, FiniteAssumption

\* A set that loses one of its users becomes smaller by one, and was not empty.
LEMMA RemoveUser ==
  ASSUME NEW S \in SUBSET Users, NEW u \in S
  PROVE  /\ Cardinality(S \ {u}) = Cardinality(S) - 1
         /\ Cardinality(S) - 1 \in Nat
<1>1. IsFiniteSet(S) /\ IsFiniteSet(S \ {u})
  BY FS_Subset, FiniteAssumption
<1>2. Cardinality(S \ {u}) \in Nat /\ Cardinality(S) \in Nat
  BY <1>1, FS_CardinalityType
<1> QED
  BY <1>1, <1>2, FS_RemoveElement

-----------------------------------------------------------------------------
(* The helpers of the actions.                                             *)

\* The topics a first answer counts on are topics the user has no vote on yet.
LEMMA CountedAreNew ==
  ASSUME NEW u \in Users, NEW t \in Topics, votes \in [Topics -> SUBSET Users],
         u \notin votes[t]
  PROVE  Counted(u, t) \subseteq Topics /\ \A x \in Counted(u, t) : u \notin votes[x]
BY DEF Counted, CompletedParents

\* A survey is never a question, so the parent that is completed differs from the question.
LEMMA ParentDiffers ==
  ASSUME NEW t \in Topics, IsChild(t)
  PROVE  Parent[t] \in Topics /\ Parent[t] # t /\ ~IsChild(Parent[t])
BY TopologyAssumption, FamilyAssumption DEF IsChild, Kinds

\* An answer selects options of its own topic only.
LEMMA AnswersSelectOwnOptions ==
  ASSUME NEW t \in Topics, NEW S \in AnswerSets(t)
  PROVE  \A o \in S : o \in Options /\ OptionTopic[o] = t
BY DEF AnswerSets, OptionsOf

\* Inserting a vote on every topic of M, where the user has none, and counting it there.
LEMMA CountVotesCounts ==
  ASSUME Counting, NEW u \in Users, NEW M \in SUBSET Topics,
         \A x \in M : u \notin votes[x], CountVotes(u, M)
  PROVE  /\ votes' \in [Topics -> SUBSET Users]
         /\ totalVotes' \in [Topics -> Nat]
         /\ TotalVotesCountVotes'
         /\ \A x \in Topics : /\ votes[x] \subseteq votes'[x]
                              /\ Cardinality(votes'[x]) =
                                   IF x \in M THEN Cardinality(votes[x]) + 1
                                   ELSE Cardinality(votes[x])
<1>1. ASSUME NEW x \in Topics
      PROVE  /\ votes'[x] \in SUBSET Users /\ votes[x] \subseteq votes'[x]
             /\ Cardinality(votes'[x]) = IF x \in M THEN Cardinality(votes[x]) + 1
                                         ELSE Cardinality(votes[x])
             /\ totalVotes'[x] \in Nat /\ totalVotes'[x] = Cardinality(votes'[x])
  <2>1. /\ votes[x] \in SUBSET Users
        /\ totalVotes[x] \in Nat /\ totalVotes[x] = Cardinality(votes[x])
    BY DEF Counting, TypeOK, TotalVotesCountVotes
  <2>2. CASE x \in M
    <3>1. votes'[x] = votes[x] \cup {u} /\ totalVotes'[x] = totalVotes[x] + 1 /\ u \notin votes[x]
      BY <2>2 DEF CountVotes
    <3> QED
      BY <2>1, <2>2, <3>1, AddUser
  <2>3. CASE x \notin M
    BY <2>1, <2>3 DEF CountVotes
  <2> QED
    BY <2>2, <2>3
<1> QED
  BY <1>1 DEF CountVotes, TotalVotesCountVotes

\* Selecting a set of options the user has not selected, and counting it there.
LEMMA SelectCounts ==
  ASSUME Counting, NEW u \in Users, NEW S \in SUBSET Options,
         \A o \in S : u \notin picks[o], Select(u, S)
  PROVE  /\ picks' \in [Options -> SUBSET Users]
         /\ voteCount' \in [Options -> Nat]
         /\ VoteCountCountsPicks'
BY SMTT(30), AddUser DEF Counting, TypeOK, VoteCountCountsPicks, Select

\* The reward keeps the types of the ledger.
LEMMA RewardTypes ==
  ASSUME TypeOK, NEW u \in Users, NEW t \in Topics, Reward(u, t)
  PROVE  /\ rewarded' \in [Users -> SUBSET Topics]
         /\ credited' \in [Users -> Nat]
         /\ balance' \in [Users -> Nat]
BY SMTT(30), TopologyAssumption DEF TypeOK, Reward, points

-----------------------------------------------------------------------------
(* One lemma per action: it preserves the agreement of rows and counters.  *)

LEMMA InitCounting == Init => Counting
<1> SUFFICES ASSUME Init PROVE Counting
  OBVIOUS
<1>1. Cardinality({}) = 0
  BY FS_EmptySet
<1> QED
  BY <1>1 DEF Init, Counting, TypeOK, PicksHaveVotes, TotalVotesCountVotes,
     VoterCountCountsAnswers, VoteCountCountsPicks, Statuses

\* Publishing a topic, opening a round and settling a staged topic change statuses only.
LEMMA LifecycleCounting ==
  ASSUME Counting,
         \/ \E t \in Topics, C \in SUBSET Topics : Publish(t, C)
         \/ \E t \in Topics, X \in SUBSET Topics : OpenRound(t, X)
         \/ \E t \in Topics : FinishStaged(t)
  PROVE  Counting'
<1>1. UNCHANGED <<rows, counters, points>>
  BY DEF Publish, OpenRound, FinishStaged
<1>2. status' \in [Topics -> Statuses]
  BY DEF Counting, TypeOK, Statuses, Publish, OpenRound, FinishStaged
<1> QED
  BY <1>1, <1>2 DEF Counting, TypeOK, PicksHaveVotes, TotalVotesCountVotes,
     VoterCountCountsAnswers, VoteCountCountsPicks, rows, counters, points

\* A first answer, chosen (vote) or drawn: the part Vote and Draw have in common.
LEMMA FirstAnswerCounts ==
  ASSUME Counting, NEW u \in Users, NEW t \in Topics, NEW S \in SUBSET OptionsOf(t),
         ~Answered(u, t),
         CountVotes(u, Counted(u, t)),
         voterCount' = [x \in Topics |-> IF x \in Counted(u, t) THEN voterCount[x] + 1
                                         ELSE voterCount[x]],
         Select(u, S),
         UNCHANGED <<status, ranks>>,
         rewarded' \in [Users -> SUBSET Topics],
         credited' \in [Users -> Nat],
         balance' \in [Users -> Nat]
  PROVE  Counting'
<1> DEFINE M == Counted(u, t)
<1>1. M \subseteq Topics /\ \A x \in M : u \notin votes[x]
  BY CountedAreNew DEF Counting, TypeOK, Answered
<1>2. /\ votes' \in [Topics -> SUBSET Users]
      /\ totalVotes' \in [Topics -> Nat]
      /\ TotalVotesCountVotes'
      /\ \A x \in Topics : /\ votes[x] \subseteq votes'[x]
                           /\ Cardinality(votes'[x]) =
                                IF x \in M THEN Cardinality(votes[x]) + 1
                                ELSE Cardinality(votes[x])
  <2> HIDE DEF M
  <2> QED
    BY <1>1, CountVotesCounts DEF M
<1>3. \A o \in S : o \in Options /\ OptionTopic[o] = t /\ u \notin picks[o]
  BY DEF OptionsOf, Counting, PicksHaveVotes, Answered
<1>4. /\ picks' \in [Options -> SUBSET Users]
      /\ voteCount' \in [Options -> Nat]
      /\ VoteCountCountsPicks'
  BY <1>3, SelectCounts
<1>5. voterCount' \in [Topics -> Nat] /\ VoterCountCountsAnswers'
  <2>1. \A x \in Topics : Cardinality(votes[x]) \in Nat /\ Cardinality(ranks[x]) \in Nat
    BY AddUser DEF Counting, TypeOK
  <2> QED
    BY <1>1, <1>2, <2>1 DEF Counting, TypeOK, VoterCountCountsAnswers
<1>6. PicksHaveVotes'
  <2>1. u \in votes'[t]
    BY DEF CountVotes, Counted
  <2>2. SUFFICES ASSUME NEW o \in Options PROVE picks'[o] \subseteq votes'[OptionTopic[o]]
    BY DEF PicksHaveVotes
  <2>3. OptionTopic[o] \in Topics /\ picks[o] \subseteq votes'[OptionTopic[o]]
    BY <1>2, TopologyAssumption DEF Counting, PicksHaveVotes
  <2> QED
    BY <1>3, <2>1, <2>3 DEF Select
<1> QED
  BY <1>2, <1>4, <1>5, <1>6 DEF Counting, TypeOK

LEMMA VoteCounting ==
  ASSUME Counting, NEW u \in Users, NEW t \in Topics, NEW S, Vote(u, t, S)
  PROVE  Counting'
<1>1. S \in SUBSET OptionsOf(t)
  BY DEF Vote, AnswerSets
<1>2. TypeOK /\ Reward(u, t)
  BY DEF Vote, Counting
<1>3. /\ rewarded' \in [Users -> SUBSET Topics]
      /\ credited' \in [Users -> Nat]
      /\ balance' \in [Users -> Nat]
  BY <1>2, RewardTypes
<1> QED
  BY <1>1, <1>3, FirstAnswerCounts DEF Vote

LEMMA DrawCounting ==
  ASSUME Counting, NEW u \in Users, NEW t \in Topics, NEW o, Draw(u, t, o)
  PROVE  Counting'
<1>1. {o} \in SUBSET OptionsOf(t)
  BY DEF Draw
<1>2. /\ rewarded' \in [Users -> SUBSET Topics]
      /\ credited' \in [Users -> Nat]
      /\ balance' \in [Users -> Nat]
  BY DEF Draw, Counting, TypeOK, points
<1> QED
  BY <1>1, <1>2, FirstAnswerCounts DEF Draw

LEMMA RevoteCounting ==
  ASSUME Counting, NEW u \in Users, NEW t \in Topics, NEW S, Revote(u, t, S)
  PROVE  Counting'
<1>1. UNCHANGED <<status, votes, ranks, totalVotes, voterCount, points>>
  BY DEF Revote
<1>2. ASSUME NEW o \in Options
      PROVE  /\ picks'[o] \in SUBSET Users
             /\ voteCount'[o] \in Nat
             /\ voteCount'[o] = Cardinality(picks'[o])
             /\ picks'[o] \subseteq votes'[OptionTopic[o]]
  <2>1. /\ picks[o] \in SUBSET Users /\ voteCount[o] \in Nat
        /\ voteCount[o] = Cardinality(picks[o]) /\ picks[o] \subseteq votes[OptionTopic[o]]
    BY DEF Counting, TypeOK, VoteCountCountsPicks, PicksHaveVotes
  <2>2. \/ /\ picks'[o] = picks[o] \cup {u} /\ u \notin picks[o]
           /\ voteCount'[o] = voteCount[o] + 1 /\ OptionTopic[o] = t
        \/ /\ picks'[o] = picks[o] \ {u} /\ u \in picks[o]
           /\ voteCount'[o] = voteCount[o] - 1
        \/ picks'[o] = picks[o] /\ voteCount'[o] = voteCount[o]
    BY DEF Revote, Added, Picked, AnswerSets, OptionsOf
  <2>3. u \in votes[t]
    BY DEF Revote, Answered
  <2> QED
    BY <1>1, <2>1, <2>2, <2>3, AddUser, RemoveUser
<1>3. /\ picks' \in [Options -> SUBSET Users]
      /\ voteCount' \in [Options -> Nat]
  BY <1>2 DEF Revote
<1> QED
  BY <1>1, <1>2, <1>3 DEF Counting, TypeOK, PicksHaveVotes, TotalVotesCountVotes,
     VoterCountCountsAnswers, VoteCountCountsPicks, points

LEMMA WithdrawVoteCounting ==
  ASSUME Counting, NEW u \in Users, NEW t \in Topics, WithdrawVote(u, t)
  PROVE  Counting'
<1>1. UNCHANGED <<status, ranks, points>>
  BY DEF WithdrawVote
<1>2. ASSUME NEW o \in Options
      PROVE  /\ picks'[o] \in SUBSET Users
             /\ voteCount'[o] \in Nat
             /\ voteCount'[o] = Cardinality(picks'[o])
             /\ picks'[o] \subseteq votes'[OptionTopic[o]]
  <2>1. /\ picks[o] \in SUBSET Users /\ voteCount[o] \in Nat
        /\ voteCount[o] = Cardinality(picks[o]) /\ picks[o] \subseteq votes[OptionTopic[o]]
        /\ OptionTopic[o] \in Topics
    BY TopologyAssumption DEF Counting, TypeOK, VoteCountCountsPicks, PicksHaveVotes
  <2>2. \/ /\ picks'[o] = picks[o] \ {u} /\ u \in picks[o]
           /\ voteCount'[o] = voteCount[o] - 1
        \/ /\ picks'[o] = picks[o] /\ voteCount'[o] = voteCount[o]
           /\ OptionTopic[o] = t => u \notin picks[o]
    BY DEF WithdrawVote, Picked, OptionsOf
  <2>3. votes'[OptionTopic[o]] = IF OptionTopic[o] = t THEN votes[t] \ {u}
                                 ELSE votes[OptionTopic[o]]
    BY <2>1 DEF WithdrawVote, Counting, TypeOK
  <2> QED
    BY <2>1, <2>2, <2>3, RemoveUser
<1>3. /\ picks' \in [Options -> SUBSET Users]
      /\ voteCount' \in [Options -> Nat]
  BY <1>2 DEF WithdrawVote
<1>4. ASSUME NEW x \in Topics
      PROVE  /\ votes'[x] \in SUBSET Users
             /\ totalVotes'[x] \in Nat /\ voterCount'[x] \in Nat
             /\ totalVotes'[x] = Cardinality(votes'[x])
             /\ voterCount'[x] = Cardinality(votes'[x]) + Cardinality(ranks[x])
  <2>1. /\ votes[x] \in SUBSET Users /\ Cardinality(ranks[x]) \in Nat
        /\ totalVotes[x] = Cardinality(votes[x]) /\ totalVotes[x] \in Nat
        /\ voterCount[x] = Cardinality(votes[x]) + Cardinality(ranks[x])
    BY AddUser DEF Counting, TypeOK, TotalVotesCountVotes, VoterCountCountsAnswers
  <2>2. CASE x = t
    <3>1. /\ votes'[x] = votes[x] \ {u} /\ u \in votes[x]
          /\ totalVotes'[x] = totalVotes[x] - 1 /\ voterCount'[x] = voterCount[x] - 1
      BY <2>2 DEF WithdrawVote, Answered, Counting, TypeOK
    <3> QED
      BY <2>1, <3>1, RemoveUser
  <2>3. CASE x # t
    BY <2>1, <2>3 DEF WithdrawVote, Counting, TypeOK
  <2> QED
    BY <2>2, <2>3
<1>5. /\ votes' \in [Topics -> SUBSET Users]
      /\ totalVotes' \in [Topics -> Nat]
      /\ voterCount' \in [Topics -> Nat]
  BY <1>4 DEF WithdrawVote, Counting, TypeOK
<1> QED
  BY <1>1, <1>2, <1>3, <1>4, <1>5 DEF Counting, TypeOK, PicksHaveVotes,
     TotalVotesCountVotes, VoterCountCountsAnswers, VoteCountCountsPicks, points

LEMMA SaveRankCounting ==
  ASSUME Counting, NEW u \in Users, NEW t \in Topics, SaveRank(u, t)
  PROVE  Counting'
<1> DEFINE done == CompletedParents(t, u, votes, [ranks EXCEPT ![t] = @ \cup {u}])
<1>1. /\ done \subseteq Topics /\ t \notin done
      /\ \A x \in done : u \notin votes[x]
  <2>1. Kind[t] # "SURVEY"
    BY FamilyAssumption DEF SaveRank
  <2> QED
    BY <2>1 DEF CompletedParents, SurveyComplete
<1>2. /\ CountVotes(u, done)
      /\ ranks' = [ranks EXCEPT ![t] = @ \cup {u}]
      /\ voterCount' = [x \in Topics |-> IF x \in done \cup {t} THEN voterCount[x] + 1
                                         ELSE voterCount[x]]
      /\ UNCHANGED <<status, picks, voteCount, points>>
      /\ u \notin ranks[t]
  BY DEF SaveRank
<1> HIDE DEF done
<1>3. /\ votes' \in [Topics -> SUBSET Users]
      /\ totalVotes' \in [Topics -> Nat]
      /\ TotalVotesCountVotes'
      /\ \A x \in Topics : /\ votes[x] \subseteq votes'[x]
                           /\ Cardinality(votes'[x]) =
                                IF x \in done THEN Cardinality(votes[x]) + 1
                                ELSE Cardinality(votes[x])
  BY <1>1, <1>2, CountVotesCounts
<1>4. /\ ranks' \in [Topics -> SUBSET Users]
      /\ \A x \in Topics : Cardinality(ranks'[x]) =
                             IF x = t THEN Cardinality(ranks[x]) + 1
                             ELSE Cardinality(ranks[x])
  BY <1>2, AddUser DEF Counting, TypeOK
<1>5. voterCount' \in [Topics -> Nat] /\ VoterCountCountsAnswers'
  <2>1. \A x \in Topics : Cardinality(votes[x]) \in Nat /\ Cardinality(ranks[x]) \in Nat
    BY AddUser DEF Counting, TypeOK
  <2>2. ASSUME NEW x \in Topics
        PROVE  /\ voterCount'[x] \in Nat
               /\ voterCount'[x] = Cardinality(votes'[x]) + Cardinality(ranks'[x])
    <3>1. voterCount[x] \in Nat /\ voterCount[x] = Cardinality(votes[x]) + Cardinality(ranks[x])
      BY DEF Counting, TypeOK, VoterCountCountsAnswers
    <3>2. voterCount'[x] = IF x \in done \cup {t} THEN voterCount[x] + 1 ELSE voterCount[x]
      BY <1>2
    <3> QED
      BY <1>1, <1>3, <1>4, <2>1, <3>1, <3>2
  <2> QED
    BY <1>2, <2>2 DEF VoterCountCountsAnswers
<1>6. PicksHaveVotes'
  BY <1>2, <1>3, TopologyAssumption DEF Counting, PicksHaveVotes
<1> QED
  BY <1>2, <1>3, <1>4, <1>5, <1>6 DEF Counting, TypeOK, VoteCountCountsPicks, points

LEMMA WithdrawRankCounting ==
  ASSUME Counting, NEW u \in Users, NEW t \in Topics, WithdrawRank(u, t)
  PROVE  Counting'
<1>1. UNCHANGED <<status, votes, picks, totalVotes, voteCount, points>>
  BY DEF WithdrawRank
<1>2. ASSUME NEW x \in Topics
      PROVE  /\ ranks'[x] \in SUBSET Users
             /\ voterCount'[x] \in Nat
             /\ voterCount'[x] = Cardinality(votes[x]) + Cardinality(ranks'[x])
  <2>1. /\ ranks[x] \in SUBSET Users /\ voterCount[x] \in Nat
        /\ Cardinality(votes[x]) \in Nat /\ Cardinality(ranks[x]) \in Nat
        /\ voterCount[x] = Cardinality(votes[x]) + Cardinality(ranks[x])
    BY AddUser DEF Counting, TypeOK, VoterCountCountsAnswers
  <2>2. CASE x = t
    <3>1. ranks'[x] = ranks[x] \ {u} /\ u \in ranks[x] /\ voterCount'[x] = voterCount[x] - 1
      BY <2>2 DEF WithdrawRank, Counting, TypeOK
    <3>2. /\ Cardinality(ranks[x] \ {u}) = Cardinality(ranks[x]) - 1
          /\ Cardinality(ranks[x]) - 1 \in Nat
      BY <2>1, <3>1, RemoveUser
    <3> QED
      BY <2>1, <3>1, <3>2
  <2>3. CASE x # t
    BY <2>1, <2>3 DEF WithdrawRank, Counting, TypeOK
  <2> QED
    BY <2>2, <2>3
<1>3. ranks' \in [Topics -> SUBSET Users] /\ voterCount' \in [Topics -> Nat]
  BY <1>2 DEF WithdrawRank, Counting, TypeOK
<1> QED
  BY <1>1, <1>2, <1>3 DEF Counting, TypeOK, PicksHaveVotes, TotalVotesCountVotes,
     VoterCountCountsAnswers, VoteCountCountsPicks, points

LEMMA EarnElsewhereCounting ==
  ASSUME Counting, NEW u \in Users, EarnElsewhere(u)
  PROVE  Counting'
BY DEF EarnElsewhere, Counting, TypeOK, PicksHaveVotes, TotalVotesCountVotes,
   VoterCountCountsAnswers, VoteCountCountsPicks, rows, counters

LEMMA NextCounting == Counting /\ [Next]_vars => Counting'
<1> SUFFICES ASSUME Counting, [Next]_vars PROVE Counting'
  OBVIOUS
<1>1. CASE UNCHANGED vars
  BY <1>1 DEF Counting, TypeOK, PicksHaveVotes, TotalVotesCountVotes,
     VoterCountCountsAnswers, VoteCountCountsPicks, vars, rows, counters, points
<1>2. ASSUME NEW t \in Topics, NEW C \in SUBSET Questions(t), Publish(t, C) PROVE Counting'
  BY <1>2, LifecycleCounting DEF Questions
<1>3. ASSUME NEW t \in Topics, OpenRound(t, {}) PROVE Counting'
  BY <1>3, LifecycleCounting
<1>4. ASSUME NEW t \in Topics, NEW x \in Topics, OpenRound(t, {x}) PROVE Counting'
  BY <1>4, LifecycleCounting
<1>5. ASSUME NEW t \in Topics, FinishStaged(t) PROVE Counting'
  BY <1>5, LifecycleCounting
<1> QED
  BY <1>1, <1>2, <1>3, <1>4, <1>5, VoteCounting, DrawCounting, RevoteCounting,
     WithdrawVoteCounting, SaveRankCounting, WithdrawRankCounting, EarnElsewhereCounting
     DEF Next

LEMMA AlwaysCounting == Spec => []Counting
BY InitCounting, NextCounting, PTL DEF Spec

\* Every variable has its type in every reachable state; in particular no sequence of
\* answers, changes and withdrawals takes a counter below zero.
THEOREM TypeCorrect == Spec => []TypeOK
<1>1. Counting => TypeOK
  BY DEF Counting
<1> QED
  BY AlwaysCounting, <1>1, PTL

\* Rows and counters agree in every reachable state: total_votes, voter_count and every
\* vote_count, kept by increments and decrements, are the cardinalities of what they count.
THEOREM CountersAgree ==
  Spec => []CountersCountRows
<1>1. Counting => CountersCountRows
  BY DEF Counting, CountersCountRows
<1> QED
  BY AlwaysCounting, <1>1, PTL
-----------------------------------------------------------------------------
(* Answers.                                                                *)

LEMMA InitWellFormed == Init => AnswersWellFormed
BY DEF Init, AnswersWellFormed, Picked, OptionsOf

\* A first answer of u on t selects S, from nothing selected there before.
LEMMA FirstAnswerWellFormed ==
  ASSUME Counting, AnswersWellFormed, NEW u \in Users, NEW t \in Topics,
         NEW S \in AnswerSets(t), ~Answered(u, t), Type[t] # "CONTAINER",
         CountVotes(u, Counted(u, t)), Select(u, S)
  PROVE  AnswersWellFormed'
<1> SUFFICES ASSUME NEW x \in Topics, NEW v \in Users
             PROVE  IF v \in votes'[x] /\ Type[x] # "CONTAINER"
                    THEN Picked(v, x)' \in AnswerSets(x)
                    ELSE Picked(v, x)' = {}
  BY DEF AnswersWellFormed
<1>1. S \subseteq OptionsOf(t)
  BY DEF AnswerSets
<1>2. votes \in [Topics -> SUBSET Users] /\ picks \in [Options -> SUBSET Users]
  BY DEF Counting, TypeOK
<1>3. Picked(v, x)' = IF x = t /\ v = u THEN Picked(v, x) \cup S ELSE Picked(v, x)
  BY <1>1, <1>2 DEF Picked, Select, OptionsOf
<1>4. IF v \in votes[x] /\ Type[x] # "CONTAINER" THEN Picked(v, x) \in AnswerSets(x)
      ELSE Picked(v, x) = {}
  BY DEF AnswersWellFormed
<1>5. CASE x = t /\ v = u
  <2>1. Picked(v, x) = {} /\ v \in votes'[x]
    BY <1>2, <1>4, <1>5 DEF CountVotes, Counted, Answered
  <2> QED
    BY <1>3, <1>5, <2>1
<1>6. CASE ~(x = t /\ v = u)
  <2>1. Type[x] # "CONTAINER" => (v \in votes'[x] <=> v \in votes[x])
    <3>1. x \in Counted(u, t) => x = t \/ Type[x] = "CONTAINER"
      BY FamilyAssumption DEF Counted, CompletedParents, SurveyComplete
    <3> QED
      BY <1>2, <1>6, <3>1 DEF CountVotes
  <2> QED
    BY <1>3, <1>4, <1>6, <2>1
<1> QED
  BY <1>5, <1>6

LEMMA RevoteWellFormed ==
  ASSUME Counting, AnswersWellFormed, NEW u \in Users, NEW t \in Topics, NEW S, Revote(u, t, S)
  PROVE  AnswersWellFormed'
<1> SUFFICES ASSUME NEW x \in Topics, NEW v \in Users
             PROVE  IF v \in votes'[x] /\ Type[x] # "CONTAINER"
                    THEN Picked(v, x)' \in AnswerSets(x)
                    ELSE Picked(v, x)' = {}
  BY DEF AnswersWellFormed
<1>1. S \in AnswerSets(t) /\ S \subseteq OptionsOf(t) /\ u \in votes[t] /\ votes' = votes
  BY DEF Revote, AnswerSets, Answered
<1>2. votes \in [Topics -> SUBSET Users] /\ picks \in [Options -> SUBSET Users]
  BY DEF Counting, TypeOK
<1>3. Picked(v, x)' = IF x = t /\ v = u THEN S ELSE Picked(v, x)
  BY <1>1, <1>2 DEF Picked, Revote, OptionsOf
<1>4. Type[t] # "CONTAINER"
  BY FamilyAssumption DEF Revote
<1> QED
  BY <1>1, <1>3, <1>4 DEF AnswersWellFormed

LEMMA WithdrawVoteWellFormed ==
  ASSUME Counting, AnswersWellFormed, NEW u \in Users, NEW t \in Topics, WithdrawVote(u, t)
  PROVE  AnswersWellFormed'
<1> SUFFICES ASSUME NEW x \in Topics, NEW v \in Users
             PROVE  IF v \in votes'[x] /\ Type[x] # "CONTAINER"
                    THEN Picked(v, x)' \in AnswerSets(x)
                    ELSE Picked(v, x)' = {}
  BY DEF AnswersWellFormed
<1>1. votes \in [Topics -> SUBSET Users] /\ picks \in [Options -> SUBSET Users]
  BY DEF Counting, TypeOK
<1>2. Picked(v, x)' = IF x = t /\ v = u THEN {} ELSE Picked(v, x)
  BY <1>1 DEF Picked, WithdrawVote, OptionsOf
<1>3. v \in votes'[x] <=> v \in votes[x] /\ ~(x = t /\ v = u)
  BY <1>1 DEF WithdrawVote
<1> QED
  BY <1>2, <1>3 DEF AnswersWellFormed

\* The marker that a rank result adds is a vote on a container.
LEMMA SaveRankWellFormed ==
  ASSUME Counting, AnswersWellFormed, NEW u \in Users, NEW t \in Topics, SaveRank(u, t)
  PROVE  AnswersWellFormed'
<1> SUFFICES ASSUME NEW x \in Topics, NEW v \in Users
             PROVE  IF v \in votes'[x] /\ Type[x] # "CONTAINER"
                    THEN Picked(v, x)' \in AnswerSets(x)
                    ELSE Picked(v, x)' = {}
  BY DEF AnswersWellFormed
<1> DEFINE done == CompletedParents(t, u, votes, [ranks EXCEPT ![t] = @ \cup {u}])
<1>1. votes \in [Topics -> SUBSET Users]
  BY DEF Counting, TypeOK
<1>2. Picked(v, x)' = Picked(v, x) /\ CountVotes(u, done)
  BY DEF Picked, SaveRank
<1>3. x \in done => Type[x] = "CONTAINER"
  BY FamilyAssumption DEF CompletedParents, SurveyComplete
<1> HIDE DEF done
<1>4. Type[x] # "CONTAINER" => votes'[x] = votes[x]
  BY <1>2, <1>3 DEF CountVotes
<1> QED
  BY <1>2, <1>4 DEF AnswersWellFormed

LEMMA NextWellFormed == Counting /\ AnswersWellFormed /\ [Next]_vars => AnswersWellFormed'
<1> SUFFICES ASSUME Counting, AnswersWellFormed, [Next]_vars PROVE AnswersWellFormed'
  OBVIOUS
<1>1. ASSUME UNCHANGED <<votes, picks>> PROVE AnswersWellFormed'
  BY <1>1 DEF AnswersWellFormed, Picked
<1>2. ASSUME NEW u \in Users, NEW t \in Topics, NEW S, Vote(u, t, S) PROVE AnswersWellFormed'
  <2>1. Type[t] # "CONTAINER"
    BY <1>2, FamilyAssumption DEF Vote, AnswerSets, OptionsOf
  <2> QED
    BY <1>2, <2>1, FirstAnswerWellFormed DEF Vote
<1>3. ASSUME NEW u \in Users, NEW t \in Topics, NEW o, Draw(u, t, o) PROVE AnswersWellFormed'
  <2>1. {o} \in AnswerSets(t) /\ Type[t] # "CONTAINER"
    BY <1>3 DEF Draw, AnswerSets
  <2> QED
    BY <1>3, <2>1, FirstAnswerWellFormed DEF Draw
<1>4. UNCHANGED vars => UNCHANGED <<votes, picks>>
  BY DEF vars, rows
<1>5. ASSUME NEW t, NEW C, Publish(t, C) \/ OpenRound(t, C) \/ FinishStaged(t)
      PROVE  UNCHANGED <<votes, picks>>
  BY <1>5 DEF Publish, OpenRound, FinishStaged, rows
<1>6. ASSUME NEW u, NEW t, WithdrawRank(u, t) \/ EarnElsewhere(u)
      PROVE  UNCHANGED <<votes, picks>>
  BY <1>6 DEF WithdrawRank, EarnElsewhere, rows
<1> QED
  BY <1>1, <1>2, <1>3, <1>4, <1>5, <1>6, RevoteWellFormed, WithdrawVoteWellFormed,
     SaveRankWellFormed DEF Next

\* Every recorded answer is one its topic allows, and only voters select options, whatever
\* mix of votes, changed selections, draws and withdrawals came before.
THEOREM AnswersStayWellFormed == Spec => []AnswersWellFormed
BY AlwaysCounting, InitWellFormed, NextWellFormed, PTL DEF Spec

-----------------------------------------------------------------------------
(* Survey markers.                                                         *)

LEMMA InitMarks == Init => SurveyMarksCompletion
BY DEF Init, SurveyMarksCompletion, SurveyComplete, Questions

\* Whether v has completed p depends on v's answers to the questions of p only.
LEMMA CompletionIsLocal ==
  ASSUME NEW p, NEW v, NEW V, NEW R, NEW W, NEW Q,
         \A q \in Questions(p) : (v \in V[q] <=> v \in W[q]) /\ (v \in R[q] <=> v \in Q[q])
  PROVE  SurveyComplete(p, v, V, R) <=> SurveyComplete(p, v, W, Q)
BY DEF SurveyComplete

\* The step that makes an answer of u on t, a question or not: V and R are the rows with
\* the answer, and the survey of t is marked for u when they complete it.
LEMMA AnswerMarks ==
  ASSUME Counting, SurveyMarksCompletion, NEW u \in Users, NEW t \in Topics,
         Kind[t] # "SURVEY",
         NEW V \in [Topics -> SUBSET Users], NEW R \in [Topics -> SUBSET Users],
         \A x \in Topics, v \in Users :
            /\ v \in votes[x] => v \in V[x]
            /\ v \in ranks[x] => v \in R[x]
            /\ ~(x = t /\ v = u) => (v \in V[x] <=> v \in votes[x])
            /\ ~(x = t /\ v = u) => (v \in R[x] <=> v \in ranks[x]),
         ranks' = R,
         votes' = [x \in Topics |-> IF x \in CompletedParents(t, u, V, R) THEN V[x] \cup {u}
                                    ELSE V[x]]
  PROVE  SurveyMarksCompletion'
<1> SUFFICES ASSUME NEW p \in Topics, NEW v \in Users, Kind[p] = "SURVEY"
             PROVE  v \in votes'[p] <=> SurveyComplete(p, v, votes', ranks')
  BY DEF SurveyMarksCompletion
<1> DEFINE done == CompletedParents(t, u, V, R)
<1>1. votes \in [Topics -> SUBSET Users] /\ ranks \in [Topics -> SUBSET Users]
  BY DEF Counting, TypeOK
<1>2. v \in votes[p] <=> SurveyComplete(p, v, votes, ranks)
  BY DEF SurveyMarksCompletion
<1>3. SurveyComplete(p, v, votes', ranks') <=> SurveyComplete(p, v, V, R)
  <2>1. \A q \in Questions(p) : q \in Topics /\ q \notin done
    BY FamilyAssumption, FiniteAssumption DEF Questions, CompletedParents, SurveyComplete
  <2>2. \A q \in Questions(p) : votes'[q] = V[q]
    BY <2>1
  <2> QED
    BY <2>2, CompletionIsLocal
<1>4. v \in votes'[p] <=> v \in V[p] \/ (v = u /\ p \in done)
  OBVIOUS
<1>5. p \in done <=> p = Parent[t] /\ SurveyComplete(p, u, V, R) /\ u \notin V[p]
  BY DEF CompletedParents
<1>6. v \in V[p] <=> v \in votes[p]
  BY <1>1
<1> HIDE DEF done
<1>7. CASE v = u /\ p = Parent[t]
  <2>1. SurveyComplete(p, u, votes, ranks) => SurveyComplete(p, u, V, R)
    BY DEF SurveyComplete, Questions
  <2> QED
    BY <1>2, <1>3, <1>4, <1>5, <1>6, <1>7, <2>1
<1>8. CASE ~(v = u /\ p = Parent[t])
  <2>1. \A q \in Questions(p) : (v \in V[q] <=> v \in votes[q]) /\ (v \in R[q] <=> v \in ranks[q])
    BY <1>8 DEF Questions
  <2>2. SurveyComplete(p, v, V, R) <=> SurveyComplete(p, v, votes, ranks)
    BY <2>1, CompletionIsLocal
  <2> QED
    BY <1>2, <1>3, <1>4, <1>5, <1>6, <1>8, <2>2
<1> QED
  BY <1>7, <1>8

LEMMA FirstAnswerMarks ==
  ASSUME Counting, SurveyMarksCompletion, NEW u \in Users, NEW t \in Topics,
         Kind[t] # "SURVEY", CountVotes(u, Counted(u, t)), ranks' = ranks
  PROVE  SurveyMarksCompletion'
<1> DEFINE V == [votes EXCEPT ![t] = @ \cup {u}]
<1>1. votes \in [Topics -> SUBSET Users] /\ ranks \in [Topics -> SUBSET Users]
  BY DEF Counting, TypeOK
<1>2. V \in [Topics -> SUBSET Users]
  BY <1>1
<1>3. \A x \in Topics, v \in Users :
         /\ v \in votes[x] => v \in V[x]
         /\ ~(x = t /\ v = u) => (v \in V[x] <=> v \in votes[x])
  BY <1>1
<1>4. votes' = [x \in Topics |-> IF x \in CompletedParents(t, u, V, ranks) THEN V[x] \cup {u}
                                 ELSE V[x]]
  <2>1. t \notin CompletedParents(t, u, V, ranks)
    BY DEF CompletedParents, SurveyComplete
  <2> QED
    BY <1>1, <2>1 DEF CountVotes, Counted
<1> HIDE DEF V
<1> QED
  BY <1>1, <1>2, <1>3, <1>4, AnswerMarks

LEMMA SaveRankMarks ==
  ASSUME Counting, SurveyMarksCompletion, NEW u \in Users, NEW t \in Topics, SaveRank(u, t)
  PROVE  SurveyMarksCompletion'
<1> DEFINE R == [ranks EXCEPT ![t] = @ \cup {u}]
<1>1. votes \in [Topics -> SUBSET Users] /\ ranks \in [Topics -> SUBSET Users]
  BY DEF Counting, TypeOK
<1>2. R \in [Topics -> SUBSET Users]
  BY <1>1
<1>3. \A x \in Topics, v \in Users :
         /\ v \in ranks[x] => v \in R[x]
         /\ ~(x = t /\ v = u) => (v \in R[x] <=> v \in ranks[x])
  BY <1>1
<1>4. /\ votes' = [x \in Topics |-> IF x \in CompletedParents(t, u, votes, R)
                                    THEN votes[x] \cup {u} ELSE votes[x]]
      /\ ranks' = R
      /\ Kind[t] # "SURVEY"
  BY FamilyAssumption DEF SaveRank, CountVotes
<1> HIDE DEF R
<1> QED
  BY <1>1, <1>2, <1>3, <1>4, AnswerMarks

\* Answers that can be withdrawn or changed are not answers to the questions of a survey.
LEMMA StandaloneKeepsMarks ==
  ASSUME Counting, SurveyMarksCompletion, NEW t \in Topics, ~IsChild(t), Kind[t] # "SURVEY",
         \A x \in Topics \ {t} : votes'[x] = votes[x] /\ ranks'[x] = ranks[x]
  PROVE  SurveyMarksCompletion'
<1> SUFFICES ASSUME NEW p \in Topics, NEW v \in Users, Kind[p] = "SURVEY"
             PROVE  v \in votes'[p] <=> SurveyComplete(p, v, votes', ranks')
  BY DEF SurveyMarksCompletion
<1>1. \A q \in Questions(p) : votes'[q] = votes[q] /\ ranks'[q] = ranks[q]
  BY FiniteAssumption DEF Questions, IsChild
<1>2. SurveyComplete(p, v, votes', ranks') <=> SurveyComplete(p, v, votes, ranks)
  BY <1>1, CompletionIsLocal
<1> QED
  BY <1>2 DEF SurveyMarksCompletion

LEMMA NextMarks == Counting /\ SurveyMarksCompletion /\ [Next]_vars => SurveyMarksCompletion'
<1> SUFFICES ASSUME Counting, SurveyMarksCompletion, [Next]_vars PROVE SurveyMarksCompletion'
  OBVIOUS
<1>1. ASSUME UNCHANGED <<votes, ranks>> PROVE SurveyMarksCompletion'
  BY <1>1 DEF SurveyMarksCompletion
<1>2. ASSUME NEW u \in Users, NEW t \in Topics, NEW S, Vote(u, t, S)
      PROVE  SurveyMarksCompletion'
  <2>1. Kind[t] # "SURVEY"
    BY <1>2, FamilyAssumption DEF Vote, AnswerSets, OptionsOf
  <2> QED
    BY <1>2, <2>1, FirstAnswerMarks DEF Vote
<1>3. ASSUME NEW u \in Users, NEW t \in Topics, NEW o, Draw(u, t, o)
      PROVE  SurveyMarksCompletion'
  <2>1. Kind[t] # "SURVEY"
    BY <1>3, FamilyAssumption DEF Draw
  <2> QED
    BY <1>3, <2>1, FirstAnswerMarks DEF Draw
<1>4. ASSUME NEW u \in Users, NEW t \in Topics, WithdrawVote(u, t)
      PROVE  SurveyMarksCompletion'
  <2>1. /\ ~IsChild(t) /\ Kind[t] # "SURVEY"
        /\ \A x \in Topics \ {t} : votes'[x] = votes[x] /\ ranks'[x] = ranks[x]
    BY <1>4 DEF WithdrawVote, Counting, TypeOK
  <2> QED
    BY <2>1, StandaloneKeepsMarks
<1>5. ASSUME NEW u \in Users, NEW t \in Topics, WithdrawRank(u, t)
      PROVE  SurveyMarksCompletion'
  <2>1. /\ ~IsChild(t) /\ Kind[t] # "SURVEY"
        /\ \A x \in Topics \ {t} : votes'[x] = votes[x] /\ ranks'[x] = ranks[x]
    BY <1>5, FamilyAssumption DEF WithdrawRank, Counting, TypeOK
  <2> QED
    BY <2>1, StandaloneKeepsMarks
<1>6. UNCHANGED vars => UNCHANGED <<votes, ranks>>
  BY DEF vars, rows
<1>7. ASSUME NEW t, NEW C, Publish(t, C) \/ OpenRound(t, C) \/ FinishStaged(t)
      PROVE  UNCHANGED <<votes, ranks>>
  BY <1>7 DEF Publish, OpenRound, FinishStaged, rows
<1>8. ASSUME NEW u, NEW t, NEW S, Revote(u, t, S) \/ EarnElsewhere(u)
      PROVE  UNCHANGED <<votes, ranks>>
  BY <1>8 DEF Revote, EarnElsewhere, rows
<1> QED
  BY <1>1, <1>2, <1>3, <1>4, <1>5, <1>6, <1>7, <1>8, SaveRankMarks DEF Next

\* A survey's own vote marks exactly the users whose votes and rank results answer all of
\* its questions, in every reachable state.
THEOREM MarkersTellCompletion == Spec => []SurveyMarksCompletion
BY AlwaysCounting, InitMarks, NextMarks, PTL DEF Spec

-----------------------------------------------------------------------------
(* Points.                                                                 *)

LEMMA InitLedger == Init => BalanceIsLedger
<1> SUFFICES ASSUME Init PROVE BalanceIsLedger
  OBVIOUS
<1>1. Cardinality({}) = 0
  BY FS_EmptySet
<1>2. RewardPoints * 0 = 0
  BY TopologyAssumption
<1> QED
  BY <1>1, <1>2 DEF Init, BalanceIsLedger

\* One more rewarded topic is RewardPoints more.
LEMMA OneMoreReward ==
  ASSUME NEW S \in SUBSET Topics, NEW t \in Topics, t \notin S
  PROVE  RewardPoints * Cardinality(S \cup {t}) = RewardPoints * Cardinality(S) + RewardPoints
<1>1. IsFiniteSet(S) /\ Cardinality(S) \in Nat
  BY FS_Subset, FS_CardinalityType, FiniteAssumption
<1>2. Cardinality(S \cup {t}) = Cardinality(S) + 1
  BY <1>1, FS_AddElement
<1>3. \A m, n \in Nat : m * (n + 1) = m * n + m
  OBVIOUS
<1> QED
  BY <1>1, <1>2, <1>3, TopologyAssumption

\* The points of a user with unchanged votes on the rewarding topics.
LEMMA SameVotesSameLedger ==
  ASSUME BalanceIsLedger, UNCHANGED points,
         \A t \in Topics, v \in Users : Rewarding(t) => (v \in votes'[t] <=> v \in votes[t])
  PROVE  BalanceIsLedger'
<1> SUFFICES ASSUME NEW v \in Users
             PROVE  /\ rewarded'[v] = {t \in Topics : Rewarding(t) /\ v \in votes'[t]}
                    /\ balance'[v] = RewardPoints * Cardinality(rewarded'[v]) + credited'[v]
  BY DEF BalanceIsLedger
<1>1. rewarded' = rewarded /\ balance' = balance /\ credited' = credited
  BY DEF points
<1>2. rewarded[v] = {t \in Topics : Rewarding(t) /\ v \in votes[t]}
  BY DEF BalanceIsLedger
<1>3. balance[v] = RewardPoints * Cardinality(rewarded[v]) + credited[v]
  BY DEF BalanceIsLedger
<1> QED
  BY <1>1, <1>2, <1>3

LEMMA VoteLedger ==
  ASSUME Counting, BalanceIsLedger, NEW u \in Users, NEW t \in Topics, NEW S, Vote(u, t, S)
  PROVE  BalanceIsLedger'
<1>1. votes \in [Topics -> SUBSET Users] /\ u \notin votes[t] /\ Reward(u, t)
  BY DEF Vote, Answered, Counting, TypeOK
<1>2. \A x \in Topics, v \in Users : Rewarding(x) =>
         (v \in votes'[x] <=> v \in votes[x] \/ (x = t /\ v = u))
  BY <1>1 DEF Vote, CountVotes, Counted, CompletedParents, SurveyComplete, Rewarding
<1>3. t \notin rewarded[u]
  BY <1>1 DEF BalanceIsLedger
<1>4. CASE Rewarding(t)
  <2>1. /\ rewarded' = [rewarded EXCEPT ![u] = @ \cup {t}]
        /\ balance' = [balance EXCEPT ![u] = @ + RewardPoints]
        /\ credited' = credited
    BY <1>1, <1>3, <1>4 DEF Reward, Rewarding
  <2>2. ASSUME NEW v \in Users
        PROVE  /\ rewarded'[v] = {x \in Topics : Rewarding(x) /\ v \in votes'[x]}
               /\ balance'[v] = RewardPoints * Cardinality(rewarded'[v]) + credited'[v]
    <3>1. rewarded[v] = {x \in Topics : Rewarding(x) /\ v \in votes[x]}
      BY DEF BalanceIsLedger
    <3>2. /\ balance[v] = RewardPoints * Cardinality(rewarded[v]) + credited[v]
          /\ balance[v] \in Nat /\ credited[v] \in Nat /\ rewarded[v] \in SUBSET Topics
      BY DEF BalanceIsLedger, Counting, TypeOK
    <3>3. CASE v = u
      <4>1. rewarded'[v] = rewarded[v] \cup {t} /\ balance'[v] = balance[v] + RewardPoints
        BY <2>1, <3>3 DEF Counting, TypeOK
      <4>2. rewarded'[v] = {x \in Topics : Rewarding(x) /\ v \in votes'[x]}
        BY <1>2, <1>4, <3>1, <3>3, <4>1
      <4>3. RewardPoints * Cardinality(rewarded'[v]) =
              RewardPoints * Cardinality(rewarded[v]) + RewardPoints
        BY <1>3, <3>2, <3>3, <4>1, OneMoreReward
      <4> DEFINE k == RewardPoints * Cardinality(rewarded[v])
      <4>4. k \in Nat
        <5>1. Cardinality(rewarded[v]) \in Nat
          BY <3>2, FS_Subset, FS_CardinalityType, FiniteAssumption
        <5>2. \A m, n \in Nat : m * n \in Nat
          OBVIOUS
        <5> QED
          BY <5>1, <5>2, TopologyAssumption
      <4>5. balance[v] = k + credited[v] /\ credited'[v] = credited[v]
            /\ RewardPoints * Cardinality(rewarded'[v]) = k + RewardPoints
        BY <2>1, <3>2, <4>3
      <4> HIDE DEF k
      <4>6. balance'[v] = (k + RewardPoints) + credited'[v]
        BY <3>2, <4>1, <4>4, <4>5, TopologyAssumption
      <4> QED
        BY <4>2, <4>5, <4>6
    <3>4. CASE v # u
      <4>1. rewarded'[v] = rewarded[v] /\ balance'[v] = balance[v] /\ credited'[v] = credited[v]
        BY <2>1, <3>4 DEF Counting, TypeOK
      <4>2. \A x \in Topics : Rewarding(x) => (v \in votes'[x] <=> v \in votes[x])
        BY <1>2, <3>4
      <4> QED
        BY <3>1, <3>2, <4>1, <4>2
    <3> QED
      BY <3>3, <3>4
  <2> QED
    BY <2>2 DEF BalanceIsLedger
<1>5. CASE ~Rewarding(t)
  <2>1. UNCHANGED points
    BY <1>1, <1>5 DEF Reward, Rewarding, Vote
  <2> QED
    BY <1>2, <1>5, <2>1, SameVotesSameLedger
<1> QED
  BY <1>4, <1>5

LEMMA EarnElsewhereLedger ==
  ASSUME Counting, BalanceIsLedger, NEW u \in Users, EarnElsewhere(u)
  PROVE  BalanceIsLedger'
<1> SUFFICES ASSUME NEW v \in Users
             PROVE  /\ rewarded'[v] = {t \in Topics : Rewarding(t) /\ v \in votes'[t]}
                    /\ balance'[v] = RewardPoints * Cardinality(rewarded'[v]) + credited'[v]
  BY DEF BalanceIsLedger
<1>1. rewarded' = rewarded /\ votes' = votes
  BY DEF EarnElsewhere, rows
<1>2. /\ credited'[v] = IF v = u THEN credited[v] + 1 ELSE credited[v]
      /\ balance'[v] = IF v = u THEN balance[v] + 1 ELSE balance[v]
  BY DEF EarnElsewhere, Counting, TypeOK
<1> DEFINE k == RewardPoints * Cardinality(rewarded[v])
<1>3. balance[v] = k + credited[v] /\ credited[v] \in Nat
  BY DEF BalanceIsLedger, Counting, TypeOK
<1>4. k \in Nat
  <2>1. Cardinality(rewarded[v]) \in Nat
    BY FS_Subset, FS_CardinalityType, FiniteAssumption DEF Counting, TypeOK
  <2>2. \A m, n \in Nat : m * n \in Nat
    OBVIOUS
  <2> QED
    BY <2>1, <2>2, TopologyAssumption
<1> HIDE DEF k
<1>5. balance'[v] = k + credited'[v]
  BY <1>2, <1>3, <1>4
<1>6. rewarded[v] = {t \in Topics : Rewarding(t) /\ v \in votes[t]}
  BY DEF BalanceIsLedger
<1> QED
  BY <1>1, <1>5, <1>6 DEF k

LEMMA NextLedger == Counting /\ BalanceIsLedger /\ [Next]_vars => BalanceIsLedger'
<1> SUFFICES ASSUME Counting, BalanceIsLedger, [Next]_vars PROVE BalanceIsLedger'
  OBVIOUS
<1>1. ASSUME UNCHANGED <<votes, points>> PROVE BalanceIsLedger'
  BY <1>1, SameVotesSameLedger
<1>2. ASSUME NEW u \in Users, NEW t \in Topics, NEW o, Draw(u, t, o) PROVE BalanceIsLedger'
  <2>1. /\ UNCHANGED points
        /\ CountVotes(u, Counted(u, t))
        /\ ~Rewarding(t)
    BY <1>2 DEF Draw, Rewarding
  <2>2. \A x \in Counted(u, t) : ~Rewarding(x)
    BY <2>1, FamilyAssumption DEF Counted, CompletedParents, SurveyComplete, Rewarding
  <2>3. \A x \in Topics : Rewarding(x) => votes'[x] = votes[x]
    BY <2>1, <2>2 DEF CountVotes
  <2> QED
    BY <2>1, <2>3, SameVotesSameLedger
<1>3. ASSUME NEW u \in Users, NEW t \in Topics, WithdrawVote(u, t) PROVE BalanceIsLedger'
  BY <1>3, SameVotesSameLedger DEF WithdrawVote, Counting, TypeOK, Rewarding
<1>4. ASSUME NEW u \in Users, NEW t \in Topics, SaveRank(u, t) PROVE BalanceIsLedger'
  BY <1>4, SameVotesSameLedger DEF SaveRank, CountVotes, CompletedParents, SurveyComplete,
     Counting, TypeOK, Rewarding
<1>5. UNCHANGED vars => UNCHANGED <<votes, points>>
  BY DEF vars, rows
<1>6. ASSUME NEW t, NEW C, Publish(t, C) \/ OpenRound(t, C) \/ FinishStaged(t)
      PROVE  UNCHANGED <<votes, points>>
  BY <1>6 DEF Publish, OpenRound, FinishStaged, rows
<1>7. ASSUME NEW u, NEW t, NEW S, Revote(u, t, S) \/ WithdrawRank(u, t)
      PROVE  UNCHANGED <<votes, points>>
  BY <1>7 DEF Revote, WithdrawRank
<1> QED
  BY <1>1, <1>2, <1>3, <1>4, <1>5, <1>6, <1>7, VoteLedger, EarnElsewhereLedger DEF Next

\* Voting rewards exactly the first answers to FORMAL topics that are not drawn, once each
\* and for good, and no point of another transaction is lost from the balance.
THEOREM BalancesFollowLedger == Spec => []BalanceIsLedger
BY AlwaysCounting, InitLedger, NextLedger, PTL DEF Spec

-----------------------------------------------------------------------------
(* Locked rounds.                                                          *)

\* Only rounds are ever LOCKED, and a question is inserted with its parent or later: what
\* keeps a step on a parent from disturbing a locked topic.
Lifecycle ==
    \A t \in Topics :
        /\ status[t] = "LOCKED" => IsRound(t)
        /\ IsChild(t) /\ status[t] # "DRAFT" => status[Parent[t]] # "DRAFT"

LEMMA InitLifecycle == Init => Lifecycle
BY TopologyAssumption DEF Init, Lifecycle, IsChild

LEMMA NextLifecycle == Counting /\ Lifecycle /\ [Next]_vars => Lifecycle'
<1> SUFFICES ASSUME Counting, Lifecycle, [Next]_vars PROVE Lifecycle'
  OBVIOUS
<1>1. status \in [Topics -> Statuses]
  BY DEF Counting, TypeOK
<1>2. ASSUME UNCHANGED status PROVE Lifecycle'
  BY <1>2 DEF Lifecycle
<1>3. ASSUME NEW t \in Topics, NEW C \in SUBSET Questions(t), Publish(t, C) PROVE Lifecycle'
  <2>1. /\ status' = [x \in Topics |-> IF x \in C \cup {t} THEN "OPEN" ELSE status[x]]
        /\ \A x \in C : Parent[x] = t
        /\ ~IsChild(t)
    BY <1>3 DEF Publish, Questions
  <2> QED
    BY <1>1, <2>1, ParentDiffers DEF Lifecycle
<1>4. ASSUME NEW t \in Topics, NEW X \in SUBSET Topics, OpenRound(t, X) PROVE Lifecycle'
  <2>1. /\ IsRound(t) /\ status[Parent[t]] # "DRAFT"
        /\ \A x \in X : Parent[x] = Parent[t] /\ status[x] = "OPEN"
        /\ status' = [x \in Topics |-> IF x = t THEN "OPEN"
                                       ELSE IF x \in X THEN "LOCKED" ELSE status[x]]
    BY <1>4 DEF OpenRound
  <2>2. \A x \in X : IsRound(x)
    BY <2>1 DEF IsRound, IsChild
  <2> QED
    BY <1>1, <2>1, <2>2, ParentDiffers DEF Lifecycle, IsRound
<1>5. ASSUME NEW p \in Topics, FinishStaged(p) PROVE Lifecycle'
  <2>1. /\ Kind[p] = "STAGED"
        /\ status' = [x \in Topics |->
                        IF x = p THEN "SETTLED"
                        ELSE IF x \in Questions(p) /\ status[x] # "DRAFT" THEN "LOCKED"
                        ELSE status[x]]
    BY <1>5 DEF FinishStaged
  <2>2. (\A x \in Questions(p) : IsRound(x)) /\ ~IsChild(p)
    BY <2>1, FiniteAssumption, FamilyAssumption DEF Questions, IsRound, IsChild
  <2> QED
    BY <1>1, <2>1, <2>2, ParentDiffers DEF Lifecycle
<1>6. UNCHANGED vars => UNCHANGED status
  BY DEF vars
<1>7. ASSUME NEW u, NEW t, NEW S,
             \/ Vote(u, t, S) \/ Draw(u, t, S) \/ Revote(u, t, S)
             \/ WithdrawVote(u, t) \/ SaveRank(u, t) \/ WithdrawRank(u, t) \/ EarnElsewhere(u)
      PROVE  UNCHANGED status
  BY <1>7 DEF Vote, Draw, Revote, WithdrawVote, SaveRank, WithdrawRank, EarnElsewhere
<1> QED
  BY <1>2, <1>3, <1>4, <1>5, <1>6, <1>7 DEF Next

\* What LockedRoundsAreFinal says of one step and one topic.
Final(t) ==
    /\ status'[t] = "LOCKED"
    /\ votes'[t] = votes[t] /\ ranks'[t] = ranks[t]
    /\ totalVotes'[t] = totalVotes[t] /\ voterCount'[t] = voterCount[t]
    /\ \A o \in OptionsOf(t) : picks'[o] = picks[o] /\ voteCount'[o] = voteCount[o]

LEMMA LockedStaysFinal ==
  ASSUME Counting, Lifecycle, [Next]_vars, NEW t \in Topics, status[t] = "LOCKED"
  PROVE  Final(t)
<1>1. IsRound(t) /\ Kind[t] = "QUICK" /\ status[Parent[t]] # "DRAFT" /\ Kind[t] # "SURVEY"
  BY FamilyAssumption DEF Lifecycle, IsRound, IsChild
<1>2. TypeOK
  BY DEF Counting
<1>3. \A x \in Topics : x # t => OptionsOf(x) \cap OptionsOf(t) = {}
  BY DEF OptionsOf
<1>4. ASSUME UNCHANGED <<rows, counters>>, status'[t] = "LOCKED" PROVE Final(t)
  BY <1>4 DEF Final, rows, counters
<1>5. ASSUME NEW x \in Topics, NEW C \in SUBSET Questions(x), Publish(x, C)
      PROVE  UNCHANGED <<rows, counters>> /\ status'[t] = "LOCKED"
  BY <1>1, <1>5 DEF Publish, Questions
<1>6. ASSUME NEW x \in Topics, NEW X \in SUBSET Topics, OpenRound(x, X)
      PROVE  UNCHANGED <<rows, counters>> /\ status'[t] = "LOCKED"
  BY <1>6 DEF OpenRound
<1>7. ASSUME NEW p \in Topics, FinishStaged(p)
      PROVE  UNCHANGED <<rows, counters>> /\ status'[t] = "LOCKED"
  BY <1>1, <1>7, FamilyAssumption DEF FinishStaged, IsRound
\* Markers are votes on surveys, so no answer elsewhere marks a round.
<1>8. \A u, x, V, R : t \notin CompletedParents(x, u, V, R)
  BY <1>1 DEF CompletedParents, SurveyComplete
<1>9. ASSUME NEW u \in Users, NEW x \in Topics, NEW S \in SUBSET OptionsOf(x), Accepting(x),
             CountVotes(u, Counted(u, x)),
             voterCount' = [y \in Topics |-> IF y \in Counted(u, x) THEN voterCount[y] + 1
                                             ELSE voterCount[y]],
             Select(u, S), UNCHANGED <<status, ranks>>
      PROVE  Final(t)
  <2>1. x # t /\ t \notin Counted(u, x)
    BY <1>8, <1>9 DEF Accepting, Counted
  <2>2. \A o \in OptionsOf(t) : o \in Options /\ o \notin S
    BY <1>3, <2>1 DEF OptionsOf
  <2> QED
    BY <1>9, <2>1, <2>2 DEF Final, CountVotes, Select
<1>10. ASSUME NEW u \in Users, NEW x \in Topics, NEW S, Vote(u, x, S) PROVE Final(t)
  <2>1. S \in SUBSET OptionsOf(x)
    BY <1>10 DEF Vote, AnswerSets
  <2> QED
    BY <1>9, <1>10, <2>1 DEF Vote
<1>11. ASSUME NEW u \in Users, NEW x \in Topics, NEW o \in OptionsOf(x), Draw(u, x, o)
       PROVE  Final(t)
  BY <1>9, <1>11 DEF Draw
<1>12. ASSUME NEW u \in Users, NEW x \in Topics, NEW S, Revote(u, x, S) PROVE Final(t)
  <2>1. x # t /\ S \subseteq OptionsOf(x)
    BY <1>12 DEF Revote, Accepting, AnswerSets
  <2>2. \A o \in OptionsOf(t) : o \in Options /\ o \notin S /\ o \notin Picked(u, x)
    BY <1>3, <2>1 DEF OptionsOf, Picked
  <2> QED
    BY <1>12, <2>1, <2>2 DEF Final, Revote, Added
<1>13. ASSUME NEW u \in Users, NEW x \in Topics, WithdrawVote(u, x) PROVE Final(t)
  <2>1. x # t
    BY <1>13 DEF WithdrawVote, Accepting
  <2>2. \A o \in OptionsOf(t) : o \in Options /\ o \notin Picked(u, x)
    BY <1>3, <2>1 DEF OptionsOf, Picked
  <2> QED
    BY <1>2, <1>13, <2>1, <2>2 DEF Final, WithdrawVote, TypeOK
<1>14. ASSUME NEW u \in Users, NEW x \in Topics, SaveRank(u, x) PROVE Final(t)
  <2> DEFINE done == CompletedParents(x, u, votes, [ranks EXCEPT ![x] = @ \cup {u}])
  <2>1. x # t /\ t \notin done
    BY <1>8, <1>14 DEF SaveRank, Accepting
  <2>2. /\ CountVotes(u, done)
        /\ ranks' = [ranks EXCEPT ![x] = @ \cup {u}]
        /\ voterCount' = [y \in Topics |-> IF y \in done \cup {x} THEN voterCount[y] + 1
                                           ELSE voterCount[y]]
        /\ UNCHANGED <<status, picks, voteCount>>
    BY <1>14 DEF SaveRank
  <2> HIDE DEF done
  <2> QED
    BY <1>2, <2>1, <2>2 DEF Final, CountVotes, TypeOK
<1>15. ASSUME NEW u \in Users, NEW x \in Topics, WithdrawRank(u, x) PROVE Final(t)
  <2>1. x # t
    BY <1>15 DEF WithdrawRank, Accepting
  <2> QED
    BY <1>2, <1>15, <2>1 DEF Final, WithdrawRank, TypeOK
<1>16. ASSUME NEW u \in Users, EarnElsewhere(u)
       PROVE  UNCHANGED <<rows, counters>> /\ status'[t] = "LOCKED"
  BY <1>16 DEF EarnElsewhere
<1>17. UNCHANGED vars => UNCHANGED <<rows, counters>> /\ status'[t] = "LOCKED"
  BY DEF vars
<1> QED
  BY <1>4, <1>5, <1>6, <1>7, <1>10, <1>11, <1>12, <1>13, <1>14, <1>15, <1>16, <1>17 DEF Next

\* From the step that locks a round on, no answer to it is added, changed or withdrawn and
\* its counters stand still.
THEOREM LockedRoundsStayFinal == Spec => LockedRoundsAreFinal
<1>1. Counting /\ Lifecycle /\ [Next]_vars =>
        [\A t \in Topics : status[t] = "LOCKED" =>
          /\ status'[t] = "LOCKED"
          /\ votes'[t] = votes[t] /\ ranks'[t] = ranks[t]
          /\ totalVotes'[t] = totalVotes[t] /\ voterCount'[t] = voterCount[t]
          /\ \A o \in OptionsOf(t) : picks'[o] = picks[o] /\ voteCount'[o] = voteCount[o]
        ]_vars
  BY LockedStaysFinal DEF Final
<1>2. Spec => []Lifecycle
  BY AlwaysCounting, InitLifecycle, NextLifecycle, PTL DEF Spec
<1> QED
  BY <1>1, <1>2, AlwaysCounting, PTL DEF Spec, LockedRoundsAreFinal

-----------------------------------------------------------------------------
(* The panel of one question in the web client.                            *)

\* What the variables of the panel range over.
PanelAnswer == Panel!Answers \cup {NoTopic}
PanelView == [round : 1..2, answer : PanelAnswer]
PanelRequest ==
    [op : {"post", "patch", "delete", "draw", "save"}, to : 1..2, answer : PanelAnswer,
     stage : {"landing", "sent", "ok", "conflict", "failed", "turning"}, mine : BOOLEAN, n : Nat]
PanelFetch == [by : {"card", "tick", "load"}, at : Nat \X Nat, got : PanelView \cup {NoTopic}]
PanelState ==
    [voting : BOOLEAN, busy : BOOLEAN, kept : PanelAnswer, phase : {"idle", "scratched", "done", "playing", "over"}]

\* The requests a panel of this kind may have.
KindRequests ==
    {r \in PanelRequest :
        /\ r.stage \in {"ok", "turning"} /\ r.op = "draw" => r.answer # NoTopic
        /\ r.op \in {"post", "patch", "save"} => r.answer # NoTopic
        /\ r.stage = "turning" => r.op = "draw" /\ form.kind \in {"LOTTERY", "WHEEL"}
        /\ r.stage = "landing" => r.op \in {"post", "patch"} /\ form.kind \in {"MATCHING", "PUZZLE"}
        /\ r.stage = "conflict" => r.op = "post"
        /\ r.op = "draw" => form.kind \in {"LOTTERY", "WHEEL", "SCRATCH"}
        /\ r.op = "save" => form.kind = "RANK"}

\* The types of the panel's variables.
PanelType ==
    /\ form \in Forms
    /\ server \in [round : 1..2, answers : [1..2 -> PanelAnswer]]
    /\ shown \in PanelView
    /\ page \in {"ready", "loading", "error"}
    /\ panel \in PanelState
    /\ requests \subseteq KindRequests
    /\ fetches \subseteq PanelFetch
    /\ asked \in Nat /\ events \in Nat

\* Answers are pairs of a round and a choice, and no answer is none of them.
LEMMA AnswerKinds ==
  /\ Panel!Answers = (1..2) \X Choices
  /\ NoTopic \notin Panel!Answers
  /\ <<1, Middle>> \in Panel!Answers
  /\ \A r \in 1..2 : Panel!ChoicesOf(r) \subseteq Panel!Answers
BY PanelAssumption DEF Panel!Answers, Panel!Rounds, Panel!ChoicesOf

\* A panel that is mounted is a panel.
LEMMA MountedType == ASSUME NEW t \in PanelView PROVE Panel!Mounted(t) \in PanelState
BY AnswerKinds DEF Panel!Mounted, PanelView, PanelAnswer, PanelState

\* The watchers leave a panel.
LEMMA WatchedType ==
  ASSUME NEW p \in PanelState, NEW t \in PanelView, NEW u \in PanelView
  PROVE  Panel!Watched(p, t, u) \in PanelState
BY MountedType DEF Panel!Watched, Panel!Cleared, PanelView, PanelAnswer, PanelState

\* What an unmounted panel leaves of its requests are requests.
LEMMA DisownedType ==
  ASSUME PanelType, NEW rs \in SUBSET KindRequests
  PROVE  Panel!Disowned(rs) \subseteq KindRequests
<1> SUFFICES ASSUME NEW r \in rs
             PROVE  [r EXCEPT !.mine = FALSE,
                              !.op = IF r.stage = "landing" THEN IF Panel!Voted THEN "patch" ELSE "post" ELSE @,
                              !.to = IF r.stage = "landing" THEN shown.round ELSE @] \in KindRequests
  BY DEF Panel!Disowned
<1> QED
  BY ZenonT(60) DEF PanelType, KindRequests, PanelRequest, PanelView

\* What a cleared card leaves of its requests are requests.
LEMMA ForgottenType == ASSUME NEW rs \in SUBSET KindRequests PROVE Panel!Forgotten(rs) \subseteq KindRequests
<1> SUFFICES ASSUME NEW r \in rs PROVE [r EXCEPT !.mine = @ /\ r.op # "draw"] \in KindRequests
  BY DEF Panel!Forgotten
<1> QED
  BY DEF KindRequests, PanelRequest

\* A fetch that starts is a fetch.
LEMMA FetchType == 
  ASSUME PanelType, NEW k \in {"card", "tick", "load"} PROVE Panel!Fetch(k) \in PanelFetch
BY DEF Panel!Fetch, PanelFetch, PanelType

\* Every question starts well typed, whatever its kind and place.
LEMMA PanelTypeInit == Panel!Init => PanelType
<1> SUFFICES ASSUME Panel!Init PROVE PanelType
  OBVIOUS
<1> USE AnswerKinds
<1>1. PICK a \in Panel!ChoicesOf(1) \cup {NoTopic} : server = [round |-> 1, answers |-> [r \in 1..2 |-> IF r = 1 THEN a ELSE NoTopic]]
  BY DEF Panel!Init, Panel!Rounds
<1>2. shown \in PanelView
  BY <1>1 DEF Panel!Init, Panel!View, PanelView, PanelAnswer
<1> QED
  BY <1>1, <1>2, MountedType DEF Panel!Init, PanelType, PanelAnswer

\* What the user does and the page allows.
PanelUser ==
    \/ \E a \in Panel!Answers \cup {NoTopic} :
          Panel!Choose(a) \/ Panel!Select(a) \/ Panel!Draft(a) \/ Panel!Land(a) \/ Panel!Rank(a)
    \/ Panel!Confirm \/ Panel!Submit \/ Panel!Withdraw \/ Panel!Spin \/ Panel!Touch
    \/ Panel!Scratch \/ Panel!Rematch \/ Panel!Play

\* A request of a kind the panel makes keeps the types.
LEMMA TypeAsk ==
  ASSUME PanelType,
         NEW op \in {"post", "delete", "draw", "save", "patch"}, NEW a \in PanelAnswer, NEW m,
         Panel!Ask(op, a, m),
         op \in {"post", "patch", "save"} => a # NoTopic,
         op = "draw" => form.kind \in {"LOTTERY", "WHEEL", "SCRATCH"},
         op = "save" => form.kind = "RANK",
         panel' \in PanelState
  PROVE  PanelType'
<1>1. Panel!Request(op, shown.round, a, "sent") \in KindRequests
  BY DEF Panel!Request, KindRequests, PanelRequest, PanelType, PanelView
<1>2. KindRequests' = KindRequests
  BY DEF Panel!Ask, Panel!Untouched, KindRequests
<1> QED
  BY <1>1, <1>2 DEF Panel!Ask, Panel!Untouched, PanelType

\* The `refreshed' event keeps the types, at every place that answers it.
LEMMA RefreshedType ==
  ASSUME PanelType, NEW p \in PanelState, NEW rs \in SUBSET KindRequests, Panel!Refreshed(p, rs)
  PROVE  /\ panel' \in PanelState /\ fetches' \subseteq PanelFetch
         /\ page' \in {"ready", "loading", "error"}
         /\ requests' \subseteq KindRequests
BY FetchType, DisownedType DEF Panel!Refreshed, PanelType

\* Whatever the user does keeps the types.
LEMMA TypeUser == PanelType /\ PanelUser => PanelType'
<1> SUFFICES ASSUME PanelType, PanelUser PROVE PanelType'
  OBVIOUS
<1> USE AnswerKinds DEF PanelType
<1>1. ASSUME NEW a \in PanelAnswer, Panel!Choose(a) PROVE PanelType'
  <2>1. a \in Panel!Answers
    BY <1>1, AnswerKinds DEF Panel!Choose, PanelView
  <2>2. panel' \in PanelState
    BY <1>1 DEF Panel!Choose, PanelState
  <2> QED
    BY <1>1, <2>1, <2>2, TypeAsk DEF Panel!Choose, PanelAnswer
<1>2. ASSUME NEW a \in PanelAnswer, Panel!Select(a) \/ Panel!Draft(a) PROVE PanelType'
  BY <1>2 DEF Panel!Select, Panel!Draft, Panel!Untouched, KindRequests, PanelState
<1>3. ASSUME NEW a \in PanelAnswer, Panel!Land(a) PROVE PanelType'
  <2>1. a \in Panel!Answers
    BY <1>3, AnswerKinds DEF Panel!Land, PanelView
  <2>2. Panel!Request("post", shown.round, a, "landing") \in KindRequests
    BY <1>3, <2>1 DEF Panel!Request, PanelRequest, PanelView, KindRequests, PanelAnswer, Panel!Land, Panel!Landing, Panel!PanelKind
  <2>3. KindRequests' = KindRequests
    BY <1>3 DEF Panel!Land, Panel!Untouched, KindRequests
  <2>4. (Panel!PanelKind = "MATCHING") \in BOOLEAN
    OBVIOUS
  <2>5. panel' \in PanelState
    BY <1>3, <2>1, <2>4 DEF Panel!Land, PanelState, PanelAnswer
  <2> QED
    BY <1>3, <2>2, <2>3, <2>5 DEF Panel!Land, Panel!Untouched
<1>4. ASSUME NEW a \in PanelAnswer, Panel!Rank(a) PROVE PanelType'
  <2>1. a \in Panel!Answers
    BY <1>4, AnswerKinds DEF Panel!Rank, PanelView
  <2> QED
    BY <1>4, <2>1, TypeAsk DEF Panel!Rank, PanelAnswer, PanelState, Panel!PanelKind
<1>5. CASE Panel!Confirm \/ Panel!Submit
  BY <1>5, TypeAsk DEF Panel!Confirm, Panel!Submit, PanelAnswer, PanelState
<1>6. CASE Panel!Withdraw
  BY <1>6, TypeAsk DEF Panel!Withdraw, PanelAnswer, PanelState
<1>7. CASE Panel!Spin \/ Panel!Touch
  BY <1>7, TypeAsk DEF Panel!Spin, Panel!Touch, PanelAnswer, PanelState, Panel!Spinning, Panel!PanelKind
<1>8. CASE Panel!Rematch \/ Panel!Play
  BY <1>8 DEF Panel!Rematch, Panel!Play, Panel!Untouched, PanelAnswer, KindRequests, PanelState
<1>9. CASE Panel!Scratch
  <2>1. KindRequests' = KindRequests
    BY <1>9 DEF Panel!Scratch, KindRequests
  <2>2. [panel EXCEPT !.phase = "done"] \in PanelState /\ [panel EXCEPT !.phase = "scratched"] \in PanelState
    BY DEF PanelState
  <2>3. CASE panel.kept = NoTopic
    BY <1>9, <2>1, <2>2, <2>3 DEF Panel!Scratch, Panel!Unrefreshed
  <2>4. CASE panel.kept # NoTopic
    BY <1>9, <2>1, <2>2, <2>4, RefreshedType DEF Panel!Scratch
  <2> QED
    BY <2>3, <2>4
<1> QED
  BY <1>1, <1>2, <1>3, <1>4, <1>5, <1>6, <1>7, <1>8, <1>9 DEF PanelUser, PanelAnswer

\* Timers, the service, the network and other tabs.
PanelService ==
    \/ \E r \in requests : Panel!LandingEnds(r) \/ Panel!Handle(r) \/ Panel!Lose(r)
    \/ \E a \in Panel!Answers \cup {NoTopic} : Panel!OtherTab(a)
    \/ Panel!OpenRound

\* Timers, the service, the network and other tabs keep the types.
LEMMA TypeService == PanelType /\ PanelService => PanelType'
<1> SUFFICES ASSUME PanelType, PanelService PROVE PanelType'
  OBVIOUS
<1> USE AnswerKinds
<1>0. KindRequests' = KindRequests
  BY DEF PanelService, Panel!LandingEnds, Panel!Handle, Panel!Lose, Panel!OtherTab, Panel!OpenRound, Panel!Elsewhere, KindRequests
<1>1. ASSUME NEW r \in requests, Panel!LandingEnds(r) PROVE PanelType'
  <2>1. \A op \in {"post", "patch"}, to \in 1..2 : [r EXCEPT !.op = op, !.to = to, !.stage = "sent"] \in KindRequests
    BY <1>1 DEF PanelType, KindRequests, PanelRequest, Panel!LandingEnds
  <2>2. r.op \in {"post", "patch"} /\ r.to \in 1..2 /\ shown.round \in 1..2
    BY <1>1 DEF PanelType, KindRequests, PanelRequest, Panel!LandingEnds, PanelView
  <2> DEFINE op == IF r.mine THEN IF Panel!Voted THEN "patch" ELSE "post" ELSE r.op
             to == IF r.mine THEN shown.round ELSE r.to
  <2>3. requests' \subseteq KindRequests
    <3>1. [r EXCEPT !.op = op, !.to = to, !.stage = "sent"] \in KindRequests
      BY <2>1, <2>2
    <3>2. requests' \subseteq (requests \ {r}) \cup {[r EXCEPT !.op = op, !.to = to, !.stage = "sent"]}
      BY <1>1 DEF Panel!LandingEnds
    <3> QED
      BY <3>1, <3>2 DEF PanelType
  <2>4. panel' \in PanelState
    BY <1>1 DEF PanelType, Panel!LandingEnds, PanelState, PanelAnswer
  <2> QED
    BY <1>0, <1>1, <2>3, <2>4 DEF PanelType, Panel!LandingEnds
<1>2. ASSUME NEW r \in requests, Panel!Handle(r) PROVE PanelType'
  <2>1. PICK o \in Panel!Outcomes(r) :
          /\ requests' = (requests \ {r}) \cup {[r EXCEPT !.stage = o[1], !.answer = IF r.op = "draw" THEN o[2] ELSE @]}
          /\ server' = [server EXCEPT !.answers[r.to] = o[2]]
    BY <1>2 DEF Panel!Handle
  <2>2. /\ o[1] \in {"ok", "conflict", "failed"} /\ o[2] \in PanelAnswer
        /\ o[1] = "conflict" => r.op = "post"
        /\ o[1] = "ok" /\ r.op = "draw" => o[2] # NoTopic
    BY <1>2, <2>1 DEF Panel!Outcomes, Panel!DrawOutcomes, PanelType, KindRequests, PanelRequest, PanelAnswer
  <2>3. [r EXCEPT !.stage = o[1], !.answer = IF r.op = "draw" THEN o[2] ELSE @] \in KindRequests
    BY <2>2 DEF PanelType, KindRequests, PanelRequest
  <2>4. server' \in [round : 1..2, answers : [1..2 -> PanelAnswer]]
    BY <2>1, <2>2 DEF PanelType, KindRequests, PanelRequest
  <2> QED
    BY <1>0, <1>2, <2>1, <2>3, <2>4 DEF PanelType, Panel!Handle, Panel!Elsewhere
<1>3. ASSUME NEW r \in requests, Panel!Lose(r) PROVE PanelType'
  <2>1. [r EXCEPT !.stage = "failed"] \in KindRequests
    BY DEF PanelType, KindRequests, PanelRequest
  <2> QED
    BY <1>0, <1>3, <2>1 DEF PanelType, Panel!Lose, Panel!Elsewhere, Panel!Event
<1>4. ASSUME NEW a \in PanelAnswer, Panel!OtherTab(a) PROVE PanelType'
  <2>1. server' \in [round : 1..2, answers : [1..2 -> PanelAnswer]]
    BY <1>4 DEF PanelType, Panel!OtherTab
  <2> QED
    BY <1>0, <1>4, <2>1 DEF PanelType, Panel!OtherTab, Panel!Elsewhere, Panel!Event
<1>5. CASE Panel!OpenRound
  BY <1>0, <1>5 DEF PanelType, Panel!OpenRound, Panel!Elsewhere
<1> QED
  BY <1>1, <1>2, <1>3, <1>4, <1>5 DEF PanelService, PanelAnswer

\* Every answer of a request keeps the types.
LEMMA TypeReceive ==
  ASSUME PanelType, NEW r \in requests, Panel!Receive(r) PROVE PanelType'
<1>0. KindRequests' = KindRequests
  BY DEF Panel!Receive, KindRequests
<1>a. r.answer \in PanelAnswer /\ r.to \in 1..2 /\ shown.round \in 1..2
  BY DEF PanelType, KindRequests, PanelRequest, PanelView
<1>b. requests \ {r} \subseteq KindRequests
  BY DEF PanelType
<1>c. \A v, b \in BOOLEAN, k \in PanelAnswer, ph \in {"idle", "done", panel.phase} :
         [voting |-> v, busy |-> b, kept |-> k, phase |-> ph] \in PanelState
  BY DEF PanelType, PanelState
<1>d. \A p \in PanelState : p = [voting |-> p.voting, busy |-> p.busy, kept |-> p.kept, phase |-> p.phase]
  BY DEF PanelState
<1>1. CASE Panel!Retry(r)
  <2> DEFINE again == [r EXCEPT !.op = "patch", !.stage = "sent",
                                !.to = IF Panel!PanelKind = "MULTI" \/ ~r.mine THEN @ ELSE shown.round]
  <2>1. again \in KindRequests
    BY ZenonT(60), <1>1, <1>a DEF PanelType, KindRequests, PanelRequest, Panel!Retry
  <2>4. (requests \ {r}) \cup {again} \subseteq KindRequests
    BY <1>b, <2>1
  <2>2. [panel EXCEPT !.voting = FALSE] \in PanelState
    BY DEF PanelType, PanelState
  <2>3. requests' \subseteq KindRequests /\ panel' \in PanelState /\ UNCHANGED <<page, fetches>>
    BY <1>1, <1>b, <2>4, <2>2 DEF Panel!Retry, Panel!Unrefreshed, PanelType
  <2> QED
    BY <1>0, <2>3 DEF Panel!Receive, PanelType
<1>2. CASE Panel!Complain(r)
  <2> DEFINE free == [panel EXCEPT !.voting = @ /\ r.op \in {"draw", "save"}, !.busy = @ /\ r.op \notin {"draw", "save"}]
  <2>1. free \in PanelState /\ [panel EXCEPT !.kept = NoTopic] \in PanelState
    BY DEF PanelType, PanelState, PanelAnswer
  <2>2. CASE Panel!PanelKind = "FORMAL"
    BY <1>0, <1>2, <1>b, <2>1, <2>2, RefreshedType DEF Panel!Complain, Panel!Receive, PanelType
  <2>3. CASE Panel!PanelKind # "FORMAL"
    BY <1>0, <1>2, <1>b, <2>1, <2>3 DEF Panel!Complain, Panel!Receive, PanelType, Panel!Unrefreshed
  <2> QED
    BY <2>2, <2>3
<1>3. CASE Panel!Accept(r)
  <2>0. (Panel!PanelKind \in {"TAP", "FORMAL"}) \in BOOLEAN
    OBVIOUS
  <2>1. [panel EXCEPT !.voting = Panel!PanelKind \in {"TAP", "FORMAL"}, !.kept = IF Panel!PanelKind = "FORMAL" THEN NoTopic ELSE @] \in PanelState
    BY <2>0 DEF PanelType, PanelState, PanelAnswer
  <2> QED
    BY <1>0, <1>3, <1>b, <2>1, RefreshedType DEF Panel!Accept, Panel!Receive, PanelType
<1>4. CASE Panel!Withdrawn(r)
  <2> DEFINE free == [panel EXCEPT !.voting = Panel!PanelKind = "TAP"]
  <2>0. (Panel!PanelKind = "TAP") \in BOOLEAN
    OBVIOUS
  <2>1. free \in PanelState
    BY <2>0 DEF PanelType, PanelState
  <2>3. Panel!Cleared(free) \in PanelState
    BY <2>1 DEF PanelState, PanelAnswer, Panel!Cleared
  <2>2. Panel!Forgotten(requests \ {r}) \subseteq KindRequests
    BY <1>b, ForgottenType
  <2> QED
    BY <1>0, <1>4, <1>b, <2>1, <2>2, <2>3, RefreshedType DEF Panel!Withdrawn, Panel!Receive, PanelType
<1>5. CASE Panel!Drawn(r)
  <2>1. [panel EXCEPT !.kept = r.answer, !.busy = FALSE] \in PanelState /\ [[panel EXCEPT !.kept = r.answer, !.busy = FALSE] EXCEPT !.phase = "done"] \in PanelState
    BY <1>a DEF PanelType, PanelState, PanelAnswer
  <2>2. Panel!Spinning /\ r.stage = "ok" /\ r.op = "draw" => [r EXCEPT !.stage = "turning"] \in KindRequests
    BY DEF PanelType, KindRequests, PanelRequest, Panel!Spinning, Panel!PanelKind
  <2>3. requests' \subseteq KindRequests /\ panel' \in PanelState /\ fetches' \subseteq PanelFetch /\ page' \in {"ready", "loading", "error"}
    BY <1>5, <1>b, <2>1, <2>2, RefreshedType DEF Panel!Drawn, Panel!Unrefreshed, PanelType
  <2> QED
    BY <1>0, <2>3 DEF Panel!Receive, PanelType
<1>6. CASE Panel!Stops(r) \/ Panel!Saved(r)
  <2>1. [panel EXCEPT !.busy = FALSE, !.kept = r.answer] \in PanelState /\ [panel EXCEPT !.kept = r.answer, !.phase = "done", !.busy = FALSE] \in PanelState
    BY <1>a DEF PanelType, PanelState, PanelAnswer
  <2>3. requests' \subseteq KindRequests /\ panel' \in PanelState /\ fetches' \subseteq PanelFetch /\ page' \in {"ready", "loading", "error"}
    BY <1>6, <1>b, <2>1, RefreshedType DEF Panel!Stops, Panel!Saved, Panel!Unrefreshed, PanelType
  <2> QED
    BY <1>0, <2>3 DEF Panel!Receive, PanelType
<1>7. CASE Panel!Unseen(r)
  BY <1>0, <1>7, <1>b DEF Panel!Unseen, Panel!Unrefreshed, Panel!Receive, PanelType
<1> QED
  BY <1>1, <1>2, <1>3, <1>4, <1>5, <1>6, <1>7 DEF Panel!Receive

\* The fetches of the page or card.
PanelPage ==
    \/ Panel!Tick \/ Panel!Neighbour \/ Panel!Reload
    \/ \E f \in fetches : Panel!Read(f) \/ Panel!Return(f) \/ Panel!Miss(f)

\* The fetches of the page or card keep the types.
LEMMA TypePage == PanelType /\ PanelPage => PanelType'
<1> SUFFICES ASSUME PanelType, PanelPage PROVE PanelType'
  OBVIOUS
<1>0. KindRequests' = KindRequests
  BY DEF PanelPage, Panel!Tick, Panel!Neighbour, Panel!Reload, Panel!Read, Panel!Return, Panel!Miss, Panel!Idle, KindRequests
<1>1. CASE Panel!Tick \/ Panel!Reload
  BY <1>0, <1>1, FetchType DEF PanelType, Panel!Tick, Panel!Reload, Panel!Idle, Panel!Event
<1>2. CASE Panel!Neighbour
  BY <1>0, <1>2, RefreshedType DEF PanelType, Panel!Neighbour, Panel!Idle, Panel!Event
<1>3. ASSUME NEW f \in fetches, Panel!Read(f) PROVE PanelType'
  <2>1. Panel!View(server) \in PanelView
    BY DEF PanelType, Panel!View, PanelView
  <2>2. [f EXCEPT !.got = Panel!View(server)] \in PanelFetch
    BY <2>1 DEF PanelType, PanelFetch
  <2> QED
    BY <1>0, <1>3, <2>2 DEF PanelType, Panel!Read, Panel!Idle
<1>4. ASSUME NEW f \in fetches, Panel!Return(f) PROVE PanelType'
  <2>1. f.got \in PanelView
    BY <1>4 DEF PanelType, Panel!Return, PanelFetch
  <2>2. Panel!Watched(panel, shown, f.got) \in PanelState /\ Panel!Mounted(f.got) \in PanelState
    BY <2>1, MountedType, WatchedType DEF PanelType
  <2>3. \A p \in PanelState, v \in BOOLEAN : [p EXCEPT !.voting = v] \in PanelState /\ p.voting \in BOOLEAN
    BY DEF PanelState
  <2>4. panel' \in PanelState
    BY <1>4, <2>2, <2>3 DEF Panel!Return, PanelType
  <2>5. requests' \subseteq KindRequests
    BY <1>4, ForgottenType DEF Panel!Return, PanelType
  <2> QED
    BY <1>0, <1>4, <2>1, <2>4, <2>5 DEF PanelType, Panel!Return, Panel!Idle
<1>5. ASSUME NEW f \in fetches, Panel!Miss(f) PROVE PanelType'
  <2>1. [panel EXCEPT !.voting = FALSE] \in PanelState
    BY DEF PanelType, PanelState
  <2> QED
    BY <1>0, <1>5, <2>1 DEF PanelType, Panel!Miss, Panel!Idle, Panel!Event
<1> QED
  BY <1>1, <1>2, <1>3, <1>4, <1>5 DEF PanelPage

\* Every step of the panel is one of four.
LEMMA PanelSteps ==
  Panel!Next => PanelUser \/ PanelService \/ (\E r \in requests : Panel!Receive(r)) \/ PanelPage
BY DEF Panel!Next, PanelUser, PanelService, PanelPage

\* The types are inductive.
LEMMA PanelTyped == PanelType /\ Panel!Next => PanelType'
BY PanelSteps, TypeUser, TypeService, TypeReceive, TypePage

-----------------------------------------------------------------------------

\* A request whose answer unlocks the panel.
Waits(r) == r.mine /\ r.op \in {"post", "patch", "delete"} /\ r.stage # "landing"

\* A panel that is locked has such a request, or its card is fetched.
VotingIsAsked ==
    page = "ready" /\ panel.voting =>
        (\E r \in requests : Waits(r)) \/ (form.kind = "TAP" /\ \E f \in fetches : f.by = "card")

\* A request that locks the panel is there to unlock it.
LEMMA AskWaits ==
  ASSUME NEW op \in {"post", "patch", "delete"}, NEW a, NEW m, Panel!Ask(op, a, m)
  PROVE  VotingIsAsked'
<1>1. Panel!Request(op, shown.round, a, "sent") \in requests' /\ Waits(Panel!Request(op, shown.round, a, "sent"))
  BY DEF Panel!Ask, Panel!Request, Waits
<1> QED
  BY <1>1 DEF VotingIsAsked

\* What leaves the requests that wait and the cards' fetches alone.
LEMMA StillAsked ==
  ASSUME VotingIsAsked, form' = form,
         page' = "ready" => page = "ready" /\ (panel'.voting => panel.voting),
         page' = "ready" => \A r \in requests : Waits(r) => \E x \in requests' : Waits(x),
         \A f \in fetches : f.by = "card" => \E x \in fetches' : x.by = "card"
  PROVE  VotingIsAsked'
BY DEF VotingIsAsked

\* What the user does keeps VotingIsAsked.
LEMMA UserVoting == PanelType /\ VotingIsAsked /\ PanelUser => VotingIsAsked'
<1> SUFFICES ASSUME PanelType, VotingIsAsked, PanelUser PROVE VotingIsAsked'
  OBVIOUS
<1> USE DEF PanelType, PanelState
<1>1. ASSUME NEW a \in PanelAnswer, Panel!Choose(a) PROVE VotingIsAsked'
  BY <1>1, AskWaits DEF Panel!Choose
<1>2. ASSUME NEW a \in PanelAnswer, Panel!Select(a) \/ Panel!Draft(a) \/ Panel!Land(a) \/ Panel!Rank(a) PROVE VotingIsAsked'
  BY <1>2, StillAsked DEF Panel!Select, Panel!Draft, Panel!Land, Panel!Rank, Panel!Ask, Panel!Untouched
<1>3. CASE Panel!Confirm \/ Panel!Submit \/ Panel!Withdraw
  BY <1>3, AskWaits DEF Panel!Confirm, Panel!Submit, Panel!Withdraw
<1>4. CASE Panel!Spin \/ Panel!Touch \/ Panel!Rematch \/ Panel!Play
  BY <1>4, StillAsked DEF Panel!Spin, Panel!Touch, Panel!Rematch, Panel!Play, Panel!Ask, Panel!Untouched
<1>5. CASE Panel!Scratch
  BY <1>5, StillAsked DEF Panel!Scratch, Panel!Refreshed, Panel!Unrefreshed
<1> QED
  BY <1>1, <1>2, <1>3, <1>4, <1>5 DEF PanelUser, PanelAnswer

\* Timers, the service, the network and other tabs keep VotingIsAsked: no request is forgotten.
LEMMA ServiceVoting == PanelType /\ VotingIsAsked /\ PanelService => VotingIsAsked'
<1> SUFFICES ASSUME PanelType, VotingIsAsked, PanelService PROVE VotingIsAsked'
  OBVIOUS
<1>1. ASSUME NEW r \in requests, Panel!LandingEnds(r) PROVE VotingIsAsked'
  <2>1. r.stage = "landing" /\ r.op \in {"post", "patch"} /\ r \in PanelRequest
    BY <1>1 DEF Panel!LandingEnds, PanelType, KindRequests
  <2>2. CASE panel'.voting => panel.voting
    BY <1>1, <2>1, <2>2, StillAsked DEF Panel!LandingEnds, Waits
  <2>3. CASE panel'.voting /\ ~panel.voting
    <3> DEFINE x == [r EXCEPT !.op = IF Panel!Voted THEN "patch" ELSE "post", !.to = shown.round, !.stage = "sent"]
    <3>1. r.mine /\ x \in requests'
      BY <1>1, <2>1, <2>3 DEF Panel!LandingEnds, PanelType, PanelState
    <3>2. Waits(x)
      BY <2>1, <3>1 DEF Waits, PanelRequest
    <3> QED
      BY <3>1, <3>2 DEF VotingIsAsked
  <2> QED
    BY <2>2, <2>3
<1>2. ASSUME NEW r \in requests, Panel!Handle(r) PROVE VotingIsAsked'
  <2>1. PICK o \in Panel!Outcomes(r) : requests' = (requests \ {r}) \cup {[r EXCEPT !.stage = o[1], !.answer = IF r.op = "draw" THEN o[2] ELSE @]}
    BY <1>2 DEF Panel!Handle
  <2>2. o[1] # "landing"
    BY <2>1 DEF Panel!Outcomes, Panel!DrawOutcomes, PanelType, KindRequests, PanelRequest
  <2>3. Waits(r) => Waits([r EXCEPT !.stage = o[1], !.answer = IF r.op = "draw" THEN o[2] ELSE @])
    BY <2>2 DEF Waits, PanelType, KindRequests, PanelRequest
  <2> QED
    BY <1>2, <2>1, <2>3, StillAsked DEF Panel!Handle, Panel!Elsewhere
<1>3. ASSUME NEW r \in requests, Panel!Lose(r) PROVE VotingIsAsked'
  <2>1. Waits(r) => Waits([r EXCEPT !.stage = "failed"])
    BY DEF Waits, PanelType, KindRequests, PanelRequest
  <2> QED
    BY <1>3, <2>1, StillAsked DEF Panel!Lose, Panel!Elsewhere
<1>4. ASSUME NEW a \in PanelAnswer, Panel!OtherTab(a) PROVE VotingIsAsked'
  BY <1>4, StillAsked DEF Panel!OtherTab, Panel!Elsewhere
<1>5. CASE Panel!OpenRound
  BY <1>5, StillAsked DEF Panel!OpenRound, Panel!Elsewhere
<1> QED
  BY <1>1, <1>2, <1>3, <1>4, <1>5 DEF PanelService, PanelAnswer

\* An answer unlocks the panel, is asked again as a change, or leaves the lock to the card's fetch.
LEMMA ReceiveVoting ==
  ASSUME PanelType, VotingIsAsked, NEW r \in requests, Panel!Receive(r) PROVE VotingIsAsked'
<1> USE DEF Panel!Receive
<1>0. r \in PanelRequest /\ r \in KindRequests /\ panel \in PanelState
  BY DEF PanelType, KindRequests
<1>c. form' = form
  OBVIOUS
<1>a. ASSUME NEW p, NEW rs, Panel!Refreshed(p, rs), form.place # "card" PROVE VotingIsAsked'
  BY <1>a DEF Panel!Refreshed, VotingIsAsked
<1>b. ASSUME NEW p, NEW rs, Panel!Refreshed(p, rs), form.place = "card", form.kind = "TAP" PROVE VotingIsAsked'
  <2>1. Panel!Fetch("card") \in fetches'
    BY <1>b DEF Panel!Refreshed
  <2>2. Panel!Fetch("card").by = "card"
    BY DEF Panel!Fetch
  <2> QED
    BY <1>b, <1>c, <2>1, <2>2 DEF VotingIsAsked
<1>1. CASE Panel!Retry(r)
  <2>1. r.mine => Waits([r EXCEPT !.op = "patch", !.stage = "sent", !.to = IF Panel!PanelKind = "MULTI" \/ ~r.mine THEN @ ELSE shown.round])
    BY <1>0 DEF Waits, PanelRequest
  <2>2. CASE Panel!Unrefreshed([panel EXCEPT !.voting = FALSE], requests \ {r})
    BY <1>0, <2>2 DEF Panel!Unrefreshed, VotingIsAsked, PanelState
  <2>3. CASE ~Panel!Unrefreshed([panel EXCEPT !.voting = FALSE], requests \ {r})
    BY <1>1, <2>1, <2>3, StillAsked DEF Panel!Retry, Panel!Unrefreshed, Waits
  <2> QED
    BY <2>2, <2>3
<1>2. CASE r.mine /\ Panel!Complain(r)
  <2>1. form.kind = "FORMAL" => form.place # "card"
    BY PanelAssumption DEF PanelType
  <2>2. CASE Panel!PanelKind = "FORMAL"
    BY <1>2, <1>a, <2>1, <2>2 DEF Panel!Complain, Panel!PanelKind
  <2>3. CASE Panel!PanelKind # "FORMAL" /\ r.op \in {"draw", "save"}
    BY <1>0, <1>2, <2>3, StillAsked DEF Panel!Complain, Panel!Unrefreshed, Waits, PanelState
  <2>4. CASE Panel!PanelKind # "FORMAL" /\ r.op \notin {"draw", "save"}
    BY <1>0, <1>2, <2>4 DEF Panel!Complain, Panel!Unrefreshed, VotingIsAsked, PanelState
  <2> QED
    BY <2>2, <2>3, <2>4
<1>3. CASE r.mine /\ (Panel!Accept(r) \/ Panel!Withdrawn(r))
  <2>1. form.kind = "FORMAL" => form.place # "card"
    BY PanelAssumption DEF PanelType
  <2>2. CASE form.place # "card"
    BY <1>3, <1>a, <2>2 DEF Panel!Accept, Panel!Withdrawn
  <2>3. CASE form.kind = "TAP" /\ form.place = "card"
    BY <1>3, <1>b, <2>3 DEF Panel!Accept, Panel!Withdrawn
  <2>4. CASE form.kind # "TAP" /\ form.place = "card"
    BY <1>0, <1>3, <2>1, <2>4 DEF Panel!Accept, Panel!Withdrawn, Panel!Refreshed, VotingIsAsked, Panel!PanelKind, Panel!Cleared, PanelState
  <2> QED
    BY <2>2, <2>3, <2>4
<1>4. CASE r.mine /\ (Panel!Drawn(r) \/ Panel!Stops(r) \/ Panel!Saved(r))
  <2>1. r.op \in {"draw", "save"}
    BY <1>0, <1>4 DEF Panel!Drawn, Panel!Stops, Panel!Saved, KindRequests
  <2>2. CASE form.place # "card"
    <3>1. CASE \E p, rs : Panel!Refreshed(p, rs)
      BY <1>a, <2>2, <3>1
    <3>2. CASE ~\E p, rs : Panel!Refreshed(p, rs)
      BY <1>0, <1>4, <1>c, <2>1, <3>2, StillAsked DEF Panel!Drawn, Panel!Stops, Panel!Saved, Panel!Unrefreshed, Waits, PanelState
    <3> QED
      BY <3>1, <3>2
  <2>3. CASE form.place = "card"
    BY <1>0, <1>4, <2>1, <2>3, StillAsked DEF Panel!Drawn, Panel!Stops, Panel!Saved, Panel!Unrefreshed, Panel!Refreshed, Waits, PanelState
  <2> QED
    BY <2>2, <2>3
<1>5. CASE Panel!Unseen(r)
  BY <1>5, StillAsked DEF Panel!Unseen, Panel!Unrefreshed, Waits
<1> QED
  BY <1>1, <1>2, <1>3, <1>4, <1>5

\* A fetch mounts an unlocked panel, unlocks a card's options, or leaves the requests alone.
LEMMA PageVoting == PanelType /\ VotingIsAsked /\ PanelPage => VotingIsAsked'
<1> SUFFICES ASSUME PanelType, VotingIsAsked, PanelPage PROVE VotingIsAsked'
  OBVIOUS
<1>1. CASE Panel!Tick \/ Panel!Reload
  BY <1>1, StillAsked DEF Panel!Tick, Panel!Reload, Panel!Idle
<1>2. CASE Panel!Neighbour
  BY <1>2 DEF Panel!Neighbour, Panel!Refreshed, VotingIsAsked, Panel!IsSub
<1>3. ASSUME NEW f \in fetches, Panel!Read(f) PROVE VotingIsAsked'
  <2>1. [f EXCEPT !.got = Panel!View(server)].by = f.by
    BY DEF PanelType, PanelFetch
  <2> QED
    BY <1>3, <2>1, StillAsked DEF Panel!Read, Panel!Idle
<1>4. ASSUME NEW f \in fetches, Panel!Return(f) PROVE VotingIsAsked'
  <2>1. f.got \in PanelView
    BY <1>4 DEF PanelType, Panel!Return, PanelFetch
  <2>2. Panel!Mounted(f.got).voting = FALSE /\ Panel!Watched(panel, shown, f.got).voting = panel.voting
    BY <2>1 DEF PanelType, Panel!Mounted, Panel!Watched, Panel!Cleared, PanelState
  <2>0. Panel!Watched(panel, shown, f.got) \in PanelState
    BY <2>1, WatchedType DEF PanelType
  <2>3. \A x \in requests : Waits(x) => x \in Panel!Forgotten(requests)
    BY DEF Waits, Panel!Forgotten, PanelType, KindRequests, PanelRequest
  <2>4. CASE f.by = "load"
    BY <1>4, <2>2, <2>4 DEF Panel!Return, Panel!Idle, VotingIsAsked, PanelType, PanelState
  <2>5. CASE f.by = "card" /\ form.kind = "TAP"
    BY <1>4, <2>0, <2>5 DEF Panel!Return, Panel!Idle, VotingIsAsked, Panel!PanelKind, PanelState
  <2>6. CASE f.by = "card" /\ form.kind # "TAP"
    <3>1. page' = page /\ form' = form /\ (page = "ready" => panel'.voting = panel.voting)
      BY <1>4, <2>0, <2>2, <2>6 DEF Panel!Return, Panel!Idle, Panel!PanelKind, PanelState
    <3>2. \A x \in requests : Waits(x) => x \in requests'
      BY <1>4, <2>3, <2>6 DEF Panel!Return
    <3> QED
      BY <2>6, <3>1, <3>2 DEF VotingIsAsked
  <2>7. CASE f.by = "tick"
    BY <1>4, <2>2, <2>3, <2>7, StillAsked DEF Panel!Return, Panel!Idle, PanelType, PanelState
  <2> QED
    BY <2>4, <2>5, <2>6, <2>7 DEF PanelType, PanelFetch
<1>5. ASSUME NEW f \in fetches, Panel!Miss(f) PROVE VotingIsAsked'
  <2>1. CASE f.by = "card" /\ form.kind = "TAP"
    BY <1>5, <2>1 DEF Panel!Miss, Panel!Idle, VotingIsAsked, Panel!PanelKind, PanelType, PanelState
  <2>2. CASE ~(f.by = "card" /\ form.kind = "TAP")
    BY <1>5, <2>2 DEF Panel!Miss, Panel!Idle, VotingIsAsked, Panel!PanelKind, PanelType, PanelState
  <2> QED
    BY <2>1, <2>2
<1> QED
  BY <1>1, <1>2, <1>3, <1>4, <1>5 DEF PanelPage

\* VotingIsAsked is inductive.
LEMMA VotingInductive == PanelType /\ VotingIsAsked /\ Panel!Next => VotingIsAsked'
BY PanelSteps, UserVoting, ServiceVoting, ReceiveVoting, PageVoting

-----------------------------------------------------------------------------

\* A request that takes the panel's busy state back: a draw its topic still knows (a wheel spins on
\* whatever its topic), a ranking that is saved, a pair whose timer runs.
Occupies(r, kind, round) ==
    /\ r.mine
    /\ \/ kind = "RANK" /\ r.op = "save"
       \/ kind \in {"LOTTERY", "SCRATCH"} /\ r.op = "draw" /\ r.to = round
       \/ kind = "WHEEL" /\ r.op = "draw"
       \/ kind = "MATCHING" /\ r.stage = "landing"

\* Busy, or a ranking whose game is over.
Playing(p) == p.busy \/ (form.kind = "RANK" /\ p.phase = "over")

\* A panel that plays is awaited by such a request, except in the known ways.
BusyIsAwaited ==
    form.kind \in {"RANK", "LOTTERY", "SCRATCH", "WHEEL", "MATCHING"} /\ page = "ready" /\ Playing(panel) =>
        \/ \E r \in requests : Occupies(r, form.kind, shown.round)
        \/ form.kind = "RANK" /\ "refused" \in lapses
        \/ form.kind = "WHEEL" /\ "overtaken" \in lapses

\* What leaves the requests that occupy the panel alone.
LEMMA StillAwaited ==
  ASSUME BusyIsAwaited, form' = form, lapses \subseteq lapses',
         page' = "ready" => page = "ready" /\ (Playing(panel)' => Playing(panel)),
         page' = "ready" => \A r \in requests : Occupies(r, form.kind, shown.round) =>
                                \E x \in requests' : Occupies(x, form.kind, shown'.round)
  PROVE  BusyIsAwaited'
BY DEF BusyIsAwaited

\* What the user does keeps BusyIsAwaited.
LEMMA UserBusy == PanelType /\ BusyIsAwaited /\ PanelUser => BusyIsAwaited'
<1> SUFFICES ASSUME PanelType, BusyIsAwaited, PanelUser PROVE BusyIsAwaited'
  OBVIOUS
<1> USE DEF PanelType, PanelState
<1>1. ASSUME NEW a \in PanelAnswer, Panel!Choose(a) \/ Panel!Select(a) \/ Panel!Draft(a) PROVE BusyIsAwaited'
  BY <1>1, StillAwaited DEF Panel!Choose, Panel!Select, Panel!Draft, Panel!Ask, Panel!Untouched, Playing
<1>2. ASSUME NEW a \in PanelAnswer, Panel!Land(a) PROVE BusyIsAwaited'
  <2>1. form.kind = "MATCHING" => Occupies(Panel!Request("post", shown.round, a, "landing"), form.kind, shown.round)
    BY DEF Occupies, Panel!Request
  <2>2. CASE form.kind = "MATCHING"
    BY <1>2, <2>1, <2>2 DEF Panel!Land, Panel!Untouched, BusyIsAwaited
  <2>3. CASE form.kind # "MATCHING"
    BY <1>2, <2>3 DEF Panel!Land, Panel!Landing, Panel!PanelKind, Panel!Untouched, BusyIsAwaited
  <2> QED
    BY <2>2, <2>3
<1>3. ASSUME NEW a \in PanelAnswer, Panel!Rank(a) PROVE BusyIsAwaited'
  <2>1. Occupies(Panel!Request("save", shown.round, a, "sent"), "RANK", shown.round)
    BY DEF Occupies, Panel!Request
  <2> QED
    BY <1>3, <2>1 DEF Panel!Rank, Panel!PanelKind, Panel!Ask, Panel!Untouched, BusyIsAwaited
<1>4. CASE Panel!Confirm \/ Panel!Submit \/ Panel!Withdraw
  BY <1>4, StillAwaited DEF Panel!Confirm, Panel!Submit, Panel!Withdraw, Panel!Ask, Panel!Untouched, Playing
<1>5. CASE Panel!Spin \/ Panel!Touch
  <2>1. form.kind \in {"LOTTERY", "WHEEL", "SCRATCH"} =>
            Occupies(Panel!Request("draw", shown.round, NoTopic, "sent"), form.kind, shown.round)
    BY DEF Occupies, Panel!Request
  <2> QED
    BY <1>5, <2>1 DEF Panel!Spin, Panel!Touch, Panel!Spinning, Panel!PanelKind, Panel!Ask, Panel!Untouched, BusyIsAwaited
<1>6. CASE Panel!Rematch \/ Panel!Play
  BY <1>6, StillAwaited DEF Panel!Rematch, Panel!Play, Panel!Untouched, Playing
<1>7. CASE Panel!Scratch
  BY <1>7, StillAwaited DEF Panel!Scratch, Panel!Refreshed, Panel!Unrefreshed, Panel!PanelKind, Playing
<1> QED
  BY <1>1, <1>2, <1>3, <1>4, <1>5, <1>6, <1>7 DEF PanelUser, PanelAnswer

\* Timers, the service, the network and other tabs keep BusyIsAwaited.
LEMMA ServiceBusy == PanelType /\ BusyIsAwaited /\ PanelService => BusyIsAwaited'
<1> SUFFICES ASSUME PanelType, BusyIsAwaited, PanelService PROVE BusyIsAwaited'
  OBVIOUS
<1>1. ASSUME NEW r \in requests, Panel!LandingEnds(r) PROVE BusyIsAwaited'
  <2>1. r.stage = "landing" /\ r.op \in {"post", "patch"} /\ form.kind \in {"MATCHING", "PUZZLE"}
    BY <1>1 DEF Panel!LandingEnds, PanelType, KindRequests
  <2>2. CASE r.mine
    BY <1>1, <2>1, <2>2 DEF Panel!LandingEnds, BusyIsAwaited, PanelType, PanelState, Playing
  <2>3. CASE ~r.mine
    BY <1>1, <2>1, <2>3, StillAwaited DEF Playing, Panel!LandingEnds, Occupies
  <2> QED
    BY <2>2, <2>3
<1>2. ASSUME NEW r \in requests, Panel!Handle(r) PROVE BusyIsAwaited'
  <2>1. PICK o \in Panel!Outcomes(r) : requests' = (requests \ {r}) \cup {[r EXCEPT !.stage = o[1], !.answer = IF r.op = "draw" THEN o[2] ELSE @]}
    BY <1>2 DEF Panel!Handle
  <2>2. \A k, n : Occupies(r, k, n) => Occupies([r EXCEPT !.stage = o[1], !.answer = IF r.op = "draw" THEN o[2] ELSE @], k, n)
    BY <1>2 DEF Occupies, PanelType, KindRequests, PanelRequest, Panel!Handle
  <2> QED
    BY <1>2, <2>1, <2>2, StillAwaited DEF Playing, Panel!Handle, Panel!Elsewhere
<1>3. ASSUME NEW r \in requests, Panel!Lose(r) PROVE BusyIsAwaited'
  <2>1. \A k, n : Occupies(r, k, n) => Occupies([r EXCEPT !.stage = "failed"], k, n)
    BY <1>3 DEF Occupies, PanelType, KindRequests, PanelRequest, Panel!Lose
  <2> QED
    BY <1>3, <2>1, StillAwaited DEF Playing, Panel!Lose, Panel!Elsewhere
<1>4. ASSUME NEW a \in PanelAnswer, Panel!OtherTab(a) PROVE BusyIsAwaited'
  BY <1>4, StillAwaited DEF Playing, Panel!OtherTab, Panel!Elsewhere
<1>5. CASE Panel!OpenRound
  BY <1>5, StillAwaited DEF Playing, Panel!OpenRound, Panel!Elsewhere
<1> QED
  BY <1>1, <1>2, <1>3, <1>4, <1>5 DEF PanelService, PanelAnswer

\* A request that occupies the panel is taken from it only with what it occupies.
LEMMA ReceiveBusy ==
  ASSUME PanelType, BusyIsAwaited, NEW r \in requests, Panel!Receive(r) PROVE BusyIsAwaited'
<1>0. r \in PanelRequest /\ r \in KindRequests /\ panel \in PanelState
  BY DEF PanelType, KindRequests
<1>c. UNCHANGED <<form, shown>>
  BY DEF Panel!Receive
<1>a. ASSUME NEW p, NEW rs, Panel!Refreshed(p, rs), form.place # "card" PROVE BusyIsAwaited'
  BY <1>a DEF Panel!Refreshed, BusyIsAwaited
<1>b. ASSUME NEW p, NEW rs, Panel!Refreshed(p, rs) \/ Panel!Unrefreshed(p, rs), ~Playing(p) PROVE BusyIsAwaited'
  BY <1>b, <1>c DEF Panel!Refreshed, Panel!Unrefreshed, BusyIsAwaited, Playing
<1>d. ASSUME NEW p, NEW rs, Panel!Unrefreshed(p, rs) \/ (Panel!Refreshed(p, rs) /\ form.place = "card"),
             Playing(p) => Playing(panel), lapses \subseteq lapses',
             \A x \in requests : Occupies(x, form.kind, shown.round) => \E y \in rs : Occupies(y, form.kind, shown.round)
      PROVE  BusyIsAwaited'
  BY <1>d, <1>c, StillAwaited DEF Panel!Refreshed, Panel!Unrefreshed, Playing
<1>1. CASE Panel!Retry(r)
  <2>1. ~Occupies(r, form.kind, shown.round)
    BY <1>0, <1>1 DEF Panel!Retry, Occupies, KindRequests
  <2> QED
    BY <1>0, <1>1, <1>c, <2>1, StillAwaited DEF Panel!Retry, Panel!Unrefreshed, Playing, PanelState
<1>2. CASE r.mine /\ Panel!Complain(r)
  <2> DEFINE late == r.op = "draw" /\ r.to # shown.round
             free == [panel EXCEPT !.voting = @ /\ r.op \in {"draw", "save"}, !.busy = @ /\ r.op \notin {"draw", "save"}]
  <2>1. CASE Panel!PanelKind = "FORMAL"
    BY <2>1, <1>c DEF BusyIsAwaited, Panel!PanelKind
  <2>2. CASE Panel!PanelKind # "FORMAL" /\ late
    BY <1>0, <1>2, <1>c, <2>2, StillAwaited DEF Panel!Complain, Panel!Unrefreshed, Occupies, BusyIsAwaited, Playing, KindRequests
  <2>3. CASE Panel!PanelKind = "RANK"
    BY <1>0, <1>2, <1>c, <2>3 DEF Panel!Complain, BusyIsAwaited, KindRequests, Panel!PanelKind
  <2>4. CASE Panel!PanelKind \notin {"FORMAL", "RANK"} /\ ~late /\ r.op = "draw"
    <3>1. ~Playing(free)
      BY <1>0, <2>4 DEF Playing, PanelState, Panel!PanelKind
    <3> QED
      BY <1>2, <2>4, <3>1, <1>b DEF Panel!Complain
  <2>5. CASE Panel!PanelKind \notin {"FORMAL", "RANK"} /\ r.op # "draw"
    <3>1. ~Occupies(r, form.kind, shown.round)
      BY <1>0, <1>2, <2>5 DEF Panel!Complain, Occupies, KindRequests, Panel!PanelKind
    <3>2. Playing(free) => Playing(panel)
      BY <1>0 DEF Playing, PanelState
    <3> QED
      BY <1>2, <2>5, <3>1, <3>2, <1>c, StillAwaited DEF Panel!Complain, Panel!Unrefreshed, Playing
  <2> QED
    BY <2>1, <2>2, <2>3, <2>4, <2>5 DEF Panel!PanelKind
<1>3. CASE r.mine /\ Panel!Accept(r)
  <2>1. ~Occupies(r, form.kind, shown.round)
    BY <1>0, <1>3 DEF Panel!Accept, Occupies, KindRequests
  <2> DEFINE p == [panel EXCEPT !.voting = Panel!PanelKind \in {"TAP", "FORMAL"}, !.kept = IF Panel!PanelKind = "FORMAL" THEN NoTopic ELSE @]
  <2>2. Playing(p) => Playing(panel)
    BY <1>0 DEF Playing, PanelState
  <2> QED
    BY <1>3, <1>a, <1>d, <2>1, <2>2 DEF Panel!Accept
<1>4. CASE r.mine /\ Panel!Withdrawn(r)
  <2>1. ~Occupies(r, form.kind, shown.round)
    BY <1>0, <1>4 DEF Panel!Withdrawn, Occupies
  <2> DEFINE free == [panel EXCEPT !.voting = Panel!PanelKind = "TAP"]
  <2>2. ~Playing(Panel!Cleared(free)) /\ (Playing(free) => Playing(panel))
    BY <1>0 DEF Playing, PanelState, Panel!Cleared
  <2>3. CASE Panel!Landing \/ Panel!PanelKind \in {"SPECTRUM", "MULTI"}
    BY <1>4, <1>a, <1>d, <2>1, <2>2, <2>3 DEF Panel!Withdrawn, Panel!Landing
  <2>4. CASE ~(Panel!Landing \/ Panel!PanelKind \in {"SPECTRUM", "MULTI"})
    BY <1>4, <1>b, <2>2, <2>4 DEF Panel!Withdrawn
  <2> QED
    BY <2>3, <2>4
<1>5. CASE r.mine /\ Panel!Drawn(r)
  <2>1. CASE r.to # shown.round
    BY <1>0, <1>5, <1>c, <2>1, StillAwaited DEF Panel!Drawn, Panel!Unrefreshed, Occupies, BusyIsAwaited, Playing, KindRequests
  <2>2. CASE r.to = shown.round /\ Panel!Spinning
    <3>1. \A k, n : Occupies(r, k, n) => Occupies([r EXCEPT !.stage = "turning"], k, n)
      BY <1>0, <1>5 DEF Panel!Drawn, Occupies, PanelRequest
    <3> QED
      BY <1>5, <1>c, <2>2, <3>1, StillAwaited DEF Playing, Panel!Drawn, Panel!Unrefreshed
  <2>3. CASE r.to = shown.round /\ ~Panel!Spinning
    <3>1. Panel!PanelKind = "SCRATCH"
      BY <1>0, <1>5, <2>3 DEF Panel!Drawn, KindRequests, Panel!Spinning, Panel!PanelKind
    <3> DEFINE held == [panel EXCEPT !.kept = r.answer, !.busy = FALSE]
    <3>2. ~Playing(held) /\ ~Playing([held EXCEPT !.phase = "done"])
      BY <1>0, <3>1 DEF Playing, PanelState, Panel!PanelKind
    <3> QED
      BY <1>5, <1>b, <2>3, <3>2 DEF Panel!Drawn
  <2> QED
    BY <2>1, <2>2, <2>3
<1>6. CASE r.mine /\ Panel!Stops(r)
  <2>1. CASE r.to # shown.round
    BY <1>0, <1>6, <1>c, <2>1, StillAwaited DEF Panel!Stops, Panel!Unrefreshed, Occupies, BusyIsAwaited, Playing, KindRequests
  <2>2. CASE r.to = shown.round
    <3>1. ~Playing([panel EXCEPT !.busy = FALSE, !.kept = r.answer])
      BY <1>0, <1>6 DEF Playing, PanelState, Panel!Stops, KindRequests
    <3> QED
      BY <1>6, <1>b, <2>2, <3>1 DEF Panel!Stops
  <2> QED
    BY <2>1, <2>2
<1>7. CASE r.mine /\ Panel!Saved(r)
  <2>1. ~Playing([panel EXCEPT !.kept = r.answer, !.phase = "done", !.busy = FALSE])
    BY <1>0 DEF Playing, PanelState
  <2> QED
    BY <1>7, <1>b, <2>1 DEF Panel!Saved
<1>8. CASE Panel!Unseen(r)
  BY <1>8, <1>c, StillAwaited DEF Playing, Panel!Unseen, Panel!Unrefreshed, Occupies
<1> QED
  BY <1>1, <1>2, <1>3, <1>4, <1>5, <1>6, <1>7, <1>8 DEF Panel!Receive

\* A topic that replaces another frees what it takes the request from.
LEMMA PageBusy == PanelType /\ BusyIsAwaited /\ PanelPage => BusyIsAwaited'
<1> SUFFICES ASSUME PanelType, BusyIsAwaited, PanelPage PROVE BusyIsAwaited'
  OBVIOUS
<1>1. CASE Panel!Tick \/ Panel!Reload
  BY <1>1, StillAwaited DEF Playing, Panel!Tick, Panel!Reload, Panel!Idle
<1>2. CASE Panel!Neighbour
  BY <1>2 DEF Panel!Neighbour, Panel!Refreshed, BusyIsAwaited, Panel!IsSub
<1>3. ASSUME NEW f \in fetches, Panel!Read(f) PROVE BusyIsAwaited'
  BY <1>3, StillAwaited DEF Playing, Panel!Read, Panel!Idle
<1>4. ASSUME NEW f \in fetches, Panel!Return(f) PROVE BusyIsAwaited'
  <2>1. f.got \in PanelView
    BY <1>4 DEF PanelType, Panel!Return, PanelFetch
  <2>2. CASE f.by = "load"
    <3>1. ~Playing(Panel!Mounted(f.got))
      BY DEF Playing, Panel!Mounted
    <3> QED
      BY <1>4, <2>2, <3>1 DEF Panel!Return, Panel!Idle, BusyIsAwaited, Panel!PanelKind, Playing
  <2>3. CASE f.by # "load" /\ page # "ready"
    BY <1>4, <2>3 DEF Panel!Return, BusyIsAwaited
  <2>4. CASE f.by # "load" /\ page = "ready"
    <3> DEFINE watched == Panel!Watched(panel, shown, f.got)
    <3>0. watched \in PanelState
      BY <2>1, WatchedType DEF PanelType
    <3>1. Playing(panel)' => Playing(watched)
      BY <1>4, <2>4, <3>0 DEF Panel!Return, Panel!Idle, Playing, PanelState
    <3>2. Playing(watched) => Playing(panel)
      BY <2>1 DEF Panel!Watched, Panel!Mounted, Panel!Cleared, Playing, PanelType, PanelState, Panel!PanelKind
    <3>3. f.got.round # shown.round /\ form.kind \in {"LOTTERY", "SCRATCH"} => ~Playing(watched)
      BY <2>1 DEF Panel!Watched, Panel!Cleared, Playing, PanelType, PanelState, Panel!PanelKind
    <3>4. form.kind = "SCRATCH" /\ Panel!Voted /\ f.got.answer = NoTopic => ~Playing(watched)
      BY <2>1 DEF Panel!Watched, Panel!Cleared, Playing, PanelType, PanelState, Panel!PanelKind, Panel!Voted
    <3>5. requests' = requests \/ (form.kind = "SCRATCH" /\ ~Playing(watched))
      BY <1>4, <2>4, <3>3, <3>4 DEF Panel!Return, Panel!PanelKind
    <3>6. CASE ~Playing(watched)
      BY <1>4, <2>4, <3>1, <3>6 DEF Panel!Return, Panel!Idle, BusyIsAwaited
    <3>7. CASE Playing(watched)
      BY <1>4, <2>4, <3>1, <3>2, <3>3, <3>5, <3>7, StillAwaited DEF Panel!Return, Panel!Idle, Occupies
    <3> QED
      BY <3>6, <3>7
  <2> QED
    BY <2>2, <2>3, <2>4
<1>5. ASSUME NEW f \in fetches, Panel!Miss(f) PROVE BusyIsAwaited'
  BY <1>5, StillAwaited DEF Panel!Miss, Panel!Idle, Playing, PanelType, PanelState
<1> QED
  BY <1>1, <1>2, <1>3, <1>4, <1>5 DEF PanelPage

\* BusyIsAwaited is inductive.
LEMMA BusyInductive == PanelType /\ BusyIsAwaited /\ Panel!Next => BusyIsAwaited'
BY PanelSteps, UserBusy, ServiceBusy, ReceiveBusy, PageBusy

-----------------------------------------------------------------------------

\* A card shows the only round of its question, and does not go away.
CardStays ==
    form.place = "card" =>
        /\ server.round = 1 /\ shown.round = 1 /\ page = "ready"
        /\ \A r \in requests : r.to = 1 /\ (r.op # "draw" => r.mine)
        /\ \A f \in fetches : f.by = "card" /\ (f.got # NoTopic => f.got.round = 1)

\* A question keeps its kind and its place.
LEMMA FormStays ==
  /\ PanelUser => form' = form
  /\ PanelService => form' = form
  /\ PanelPage => form' = form
<1>1. PanelUser => form' = form
  BY DEF PanelUser, Panel!Choose, Panel!Select, Panel!Draft, Panel!Land, Panel!Rank, Panel!Confirm, Panel!Submit, Panel!Withdraw,
         Panel!Spin, Panel!Touch, Panel!Scratch, Panel!Rematch, Panel!Play, Panel!Ask, Panel!Untouched
<1>2. PanelService => form' = form
  BY DEF PanelService, Panel!LandingEnds, Panel!Handle, Panel!Lose, Panel!OtherTab, Panel!OpenRound, Panel!Elsewhere
<1>3. PanelPage => form' = form
  BY DEF PanelPage, Panel!Tick, Panel!Neighbour, Panel!Reload, Panel!Read, Panel!Return, Panel!Miss, Panel!Idle
<1> QED
  BY <1>1, <1>2, <1>3

\* What the user does keeps CardStays.
LEMMA UserCard == PanelType /\ CardStays /\ PanelUser => CardStays'
<1> SUFFICES ASSUME PanelType, CardStays, PanelUser, form.place = "card", form' = form PROVE CardStays'
  BY FormStays DEF CardStays
<1>1. ASSUME NEW op, NEW a, NEW m, Panel!Ask(op, a, m) PROVE CardStays'
  BY <1>1 DEF Panel!Ask, Panel!Untouched, Panel!Request, CardStays
<1>2. ASSUME NEW a \in PanelAnswer, Panel!Choose(a) \/ Panel!Rank(a) PROVE CardStays'
  BY <1>1, <1>2 DEF Panel!Choose, Panel!Rank
<1>3. ASSUME NEW a \in PanelAnswer, Panel!Select(a) \/ Panel!Draft(a) \/ Panel!Land(a) PROVE CardStays'
  BY <1>3 DEF Panel!Select, Panel!Draft, Panel!Land, Panel!Untouched, Panel!Request, CardStays
<1>4. CASE Panel!Confirm \/ Panel!Submit \/ Panel!Withdraw \/ Panel!Spin \/ Panel!Touch
  BY <1>1, <1>4 DEF Panel!Confirm, Panel!Submit, Panel!Withdraw, Panel!Spin, Panel!Touch
<1>5. CASE Panel!Rematch \/ Panel!Play
  BY <1>5 DEF Panel!Rematch, Panel!Play, Panel!Untouched, CardStays
<1>6. CASE Panel!Scratch
  BY <1>6 DEF Panel!Scratch, Panel!Refreshed, Panel!Unrefreshed, Panel!Fetch, CardStays
<1> QED
  BY <1>2, <1>3, <1>4, <1>5, <1>6 DEF PanelUser, PanelAnswer

\* Timers, the service, the network and other tabs keep CardStays.
LEMMA ServiceCard == PanelType /\ CardStays /\ PanelService => CardStays'
<1> SUFFICES ASSUME PanelType, CardStays, PanelService, form.place = "card", form' = form PROVE CardStays'
  BY FormStays DEF CardStays
<1>1. ASSUME NEW r \in requests, Panel!LandingEnds(r) PROVE CardStays'
  <2>1. r.op \in {"post", "patch"} /\ r.mine /\ r \in PanelRequest
    BY <1>1 DEF Panel!LandingEnds, PanelType, KindRequests, CardStays
  <2> DEFINE x == [r EXCEPT !.op = IF Panel!Voted THEN "patch" ELSE "post", !.to = shown.round, !.stage = "sent"]
  <2>2. x.to = 1 /\ x.mine
    BY <2>1 DEF PanelRequest, CardStays
  <2>3. requests' \subseteq (requests \ {r}) \cup {x}
    BY <1>1, <2>1 DEF Panel!LandingEnds
  <2> QED
    BY <1>1, <2>2, <2>3 DEF Panel!LandingEnds, CardStays
<1>2. ASSUME NEW r \in requests, Panel!Handle(r) PROVE CardStays'
  <2>1. PICK o : requests' = (requests \ {r}) \cup {[r EXCEPT !.stage = o[1], !.answer = IF r.op = "draw" THEN o[2] ELSE @]}
               /\ server' = [server EXCEPT !.answers[r.to] = o[2]]
    BY <1>2 DEF Panel!Handle
  <2>2. server'.round = server.round
    BY <2>1 DEF PanelType
  <2> DEFINE x == [r EXCEPT !.stage = o[1], !.answer = IF r.op = "draw" THEN o[2] ELSE @]
  <2>3. x.to = 1 /\ (x.op # "draw" => x.mine)
    BY DEF CardStays, PanelType, KindRequests, PanelRequest
  <2> QED
    BY <1>2, <2>1, <2>2, <2>3 DEF Panel!Handle, Panel!Elsewhere, CardStays
<1>3. ASSUME NEW r \in requests, Panel!Lose(r) PROVE CardStays'
  BY <1>3 DEF Panel!Lose, Panel!Elsewhere, CardStays, PanelType, KindRequests, PanelRequest
<1>4. ASSUME NEW a \in PanelAnswer, Panel!OtherTab(a) PROVE CardStays'
  BY <1>4 DEF Panel!OtherTab, Panel!Elsewhere, CardStays, PanelType
<1>5. CASE Panel!OpenRound
  BY <1>5 DEF Panel!OpenRound, Panel!IsSub
<1> QED
  BY <1>1, <1>2, <1>3, <1>4, <1>5 DEF PanelService, PanelAnswer

\* An answer keeps CardStays: a card's panel is never unmounted.
LEMMA ReceiveCard ==
  ASSUME PanelType, CardStays, NEW r \in requests, Panel!Receive(r) PROVE CardStays'
<1>0. UNCHANGED <<form, server, shown>>
  BY DEF Panel!Receive
<1> SUFFICES ASSUME form.place = "card" PROVE CardStays'
  BY <1>0 DEF CardStays
<1>1. ASSUME NEW p, NEW rs, Panel!Refreshed(p, rs) \/ Panel!Unrefreshed(p, rs), \A x \in rs : x.to = 1 /\ (x.op # "draw" => x.mine) PROVE CardStays'
  BY <1>0, <1>1 DEF Panel!Refreshed, Panel!Unrefreshed, Panel!Fetch, CardStays
<1>2. r \in PanelRequest
  BY DEF PanelType, KindRequests
<1>3. \A x \in requests \ {r} : x.to = 1 /\ (x.op # "draw" => x.mine)
  BY DEF CardStays
<1>4. \A x \in Panel!Forgotten(requests \ {r}) : x.to = 1 /\ (x.op # "draw" => x.mine)
  BY DEF CardStays, Panel!Forgotten, PanelType, KindRequests, PanelRequest
<1>5. CASE Panel!Retry(r)
  <2> DEFINE x == [r EXCEPT !.op = "patch", !.stage = "sent", !.to = IF Panel!PanelKind = "MULTI" \/ ~r.mine THEN @ ELSE shown.round]
  <2>1. x.to = 1 /\ x.mine
    BY <1>2, <1>5 DEF PanelRequest, CardStays, Panel!Retry, PanelType, KindRequests
  <2>2. \A y \in (requests \ {r}) \cup {x} : y.to = 1 /\ (y.op # "draw" => y.mine)
    BY <1>3, <2>1
  <2> QED
    BY <1>1, <1>3, <1>5, <2>2 DEF Panel!Retry
<1>6. CASE Panel!Complain(r) \/ Panel!Accept(r) \/ Panel!Withdrawn(r) \/ Panel!Stops(r) \/ Panel!Saved(r) \/ Panel!Unseen(r)
  BY <1>1, <1>3, <1>4, <1>6 DEF Panel!Complain, Panel!Accept, Panel!Withdrawn, Panel!Stops, Panel!Saved, Panel!Unseen
<1>7. CASE Panel!Drawn(r)
  <2>1. \A y \in (requests \ {r}) \cup {[r EXCEPT !.stage = "turning"]} : y.to = 1 /\ (y.op # "draw" => y.mine)
    BY <1>2, <1>3 DEF CardStays, PanelRequest
  <2> QED
    BY <1>1, <1>3, <1>7, <2>1 DEF Panel!Drawn
<1> QED
  BY <1>5, <1>6, <1>7 DEF Panel!Receive

\* The fetches of a card keep CardStays.
LEMMA PageCard == PanelType /\ CardStays /\ PanelPage => CardStays'
<1> SUFFICES ASSUME PanelType, CardStays, PanelPage, form.place = "card", form' = form PROVE CardStays'
  BY FormStays DEF CardStays
<1>1. CASE Panel!Tick \/ Panel!Reload \/ Panel!Neighbour
  BY <1>1 DEF Panel!Tick, Panel!Reload, Panel!Neighbour, Panel!IsSub, CardStays
<1>2. ASSUME NEW f \in fetches, Panel!Read(f) PROVE CardStays'
  BY <1>2 DEF Panel!Read, Panel!Idle, Panel!View, CardStays, PanelType, PanelFetch
<1>3. ASSUME NEW f \in fetches, Panel!Return(f) PROVE CardStays'
  <2>1. \A x \in Panel!Forgotten(requests) : x.to = 1 /\ (x.op # "draw" => x.mine)
    BY DEF CardStays, Panel!Forgotten, PanelType, KindRequests, PanelRequest
  <2> QED
    BY <1>3, <2>1 DEF Panel!Return, Panel!Idle, CardStays
<1>4. ASSUME NEW f \in fetches, Panel!Miss(f) PROVE CardStays'
  BY <1>4 DEF Panel!Miss, Panel!Idle, CardStays
<1> QED
  BY <1>1, <1>2, <1>3, <1>4 DEF PanelPage

\* CardStays is inductive.
LEMMA CardInductive == PanelType /\ CardStays /\ Panel!Next => CardStays'
BY PanelSteps, UserCard, ServiceCard, ReceiveCard, PageCard

-----------------------------------------------------------------------------

\* Nothing of the kind happened.
Cleanly(reasons) == lapses \cap reasons = {}

\* A withdrawal is stored, and its answer has not arrived.
Withdrawing == \E r \in requests : r.op = "delete" /\ r.stage = "ok"

\* What a scratched card reveals is stored, or its withdrawal is about to clear it.
ScratchStands ==
    form.kind = "SCRATCH" /\ page = "ready" =>
        IF form.place # "card" THEN panel.phase = "done" => Panel!Voted
        ELSE Cleanly({"refused", "elsewhere"}) =>
             \/ server.answers[1] # NoTopic
             \/ Withdrawing
             \/ /\ panel.phase = "done" => Panel!Voted
                /\ panel.kept # NoTopic => panel.phase = "done"
                /\ \A r \in requests : r.mine /\ r.op = "draw" => r.stage # "ok"

\* What the user does keeps ScratchStands.
LEMMA UserScratch == PanelType /\ ScratchStands /\ PanelUser => ScratchStands'
<1> SUFFICES ASSUME PanelType, ScratchStands, PanelUser, form.kind = "SCRATCH", form' = form PROVE ScratchStands'
  BY FormStays DEF ScratchStands
<1> USE DEF Panel!PanelKind, Panel!Landing, Panel!Drafting, Panel!Spinning
<1>0. ~\E a \in Panel!Answers \cup {NoTopic} : Panel!Choose(a) \/ Panel!Select(a) \/ Panel!Draft(a) \/ Panel!Land(a) \/ Panel!Rank(a)
  BY DEF Panel!Choose, Panel!Select, Panel!Draft, Panel!Land, Panel!Rank
<1>a. ~(Panel!Confirm \/ Panel!Submit \/ Panel!Spin \/ Panel!Rematch \/ Panel!Play)
  BY DEF Panel!Confirm, Panel!Submit, Panel!Spin, Panel!Rematch, Panel!Play
<1>1. CASE Panel!Withdraw \/ Panel!Touch
  <2>1. UNCHANGED <<server, shown, page, lapses>> /\ panel'.phase = panel.phase /\ panel'.kept = panel.kept
    BY <1>1 DEF Panel!Withdraw, Panel!Touch, Panel!Ask, Panel!Untouched, PanelType, PanelState
  <2>2. requests \subseteq requests' /\ \A r \in requests' \ requests : r.stage # "ok"
    BY <1>1 DEF Panel!Withdraw, Panel!Touch, Panel!Ask, Panel!Request
  <2> QED
    BY <2>1, <2>2 DEF ScratchStands, Withdrawing, Cleanly, Panel!Voted
<1>2. CASE Panel!Scratch
  <2>1. CASE panel.kept = NoTopic
    BY <1>2, <2>1 DEF Panel!Scratch, Panel!Unrefreshed, ScratchStands, Withdrawing, Cleanly, Panel!Voted, PanelType, PanelState
  <2>2. CASE panel.kept # NoTopic
    BY <1>2, <2>2 DEF Panel!Scratch, Panel!Refreshed, ScratchStands, Withdrawing, Cleanly, Panel!Voted, PanelType, PanelState
  <2> QED
    BY <2>1, <2>2
<1> QED
  BY <1>0, <1>a, <1>1, <1>2 DEF PanelUser

\* The service stores what it draws, and other tabs are excepted.
LEMMA ServiceScratch == PanelType /\ CardStays /\ ScratchStands /\ PanelService => ScratchStands'
<1> SUFFICES ASSUME PanelType, CardStays, ScratchStands, PanelService, form.kind = "SCRATCH", form' = form PROVE ScratchStands'
  BY FormStays DEF ScratchStands
<1> USE DEF Panel!PanelKind, Panel!Landing
<1>1. ASSUME NEW r \in requests, Panel!LandingEnds(r) PROVE ScratchStands'
  BY <1>1 DEF Panel!LandingEnds, PanelType, KindRequests
<1>2. ASSUME NEW r \in requests, Panel!Handle(r) PROVE ScratchStands'
  <2> DEFINE x(o) == [r EXCEPT !.stage = o[1], !.answer = IF r.op = "draw" THEN o[2] ELSE @]
  <2>0. UNCHANGED <<shown, page, panel>>
    BY <1>2 DEF Panel!Handle, Panel!Elsewhere
  <2>1. CASE form.place # "card"
    BY <2>0, <2>1 DEF ScratchStands, Panel!Voted
  <2>2. CASE form.place = "card" /\ Cleanly({"refused", "elsewhere"})' /\ page = "ready"
    <3>1. PICK o \in Panel!Outcomes(r) :
            /\ requests' = (requests \ {r}) \cup {x(o)}
            /\ server' = [server EXCEPT !.answers[r.to] = o[2]]
            /\ lapses' = lapses \cup IF o[1] = "failed" THEN {"refused"} ELSE {}
      BY <1>2 DEF Panel!Handle
    <3>2. o[1] # "failed" /\ Cleanly({"refused", "elsewhere"})
      BY <2>2, <3>1 DEF Cleanly
    <3>3. r.to = 1 /\ server'.answers[1] = o[2]
      BY <2>2, <3>1 DEF CardStays, PanelType
    <3>4. x(o).op = r.op /\ x(o).stage = o[1]
      BY DEF PanelType, KindRequests, PanelRequest
    <3>5. CASE r.op = "delete"
      <4>1. o[1] = "ok"
        BY <3>1, <3>2, <3>5 DEF Panel!Outcomes, Panel!DrawOutcomes
      <4>2. Withdrawing'
        BY <3>1, <3>4, <3>5, <4>1 DEF Withdrawing
      <4> QED
        BY <2>2, <4>2 DEF ScratchStands
    <3>6. CASE r.op # "delete"
      <4>1. o[2] # NoTopic
        BY <3>1, <3>2, <3>6, AnswerKinds DEF Panel!Outcomes, Panel!DrawOutcomes, PanelType, KindRequests, PanelRequest, PanelAnswer
      <4> QED
        BY <2>2, <3>3, <4>1 DEF ScratchStands
    <3> QED
      BY <3>5, <3>6
  <2> QED
    BY <2>0, <2>1, <2>2 DEF ScratchStands
<1>3. ASSUME NEW r \in requests, Panel!Lose(r) PROVE ScratchStands'
  BY <1>3 DEF Panel!Lose, Panel!Elsewhere, ScratchStands, Cleanly, Panel!Voted
<1>4. ASSUME NEW a \in PanelAnswer, Panel!OtherTab(a) PROVE ScratchStands'
  BY <1>4 DEF Panel!OtherTab, Panel!Elsewhere, ScratchStands, Cleanly, Panel!Voted
<1>5. CASE Panel!OpenRound
  BY <1>5 DEF Panel!OpenRound, Panel!Elsewhere, Panel!IsSub, ScratchStands, Cleanly, Panel!Voted
<1> QED
  BY <1>1, <1>2, <1>3, <1>4, <1>5 DEF PanelService, PanelAnswer

\* A draw reveals what is stored, and a withdrawal clears the card.
LEMMA ReceiveScratch ==
  ASSUME PanelType, CardStays, ScratchStands, NEW r \in requests, Panel!Receive(r) PROVE ScratchStands'
<1>0. UNCHANGED <<form, server, shown>>
  BY DEF Panel!Receive
<1> SUFFICES ASSUME form.kind = "SCRATCH" PROVE ScratchStands'
  BY <1>0 DEF ScratchStands
<1> USE DEF Panel!PanelKind, Panel!Landing, Panel!Spinning
<1>a. ASSUME NEW p, NEW rs, Panel!Refreshed(p, rs), form.place # "card" PROVE ScratchStands'
  BY <1>0, <1>a DEF Panel!Refreshed, ScratchStands
<1>b. ASSUME NEW p, NEW rs, Panel!Unrefreshed(p, rs) \/ (Panel!Refreshed(p, rs) /\ form.place = "card"), lapses \subseteq lapses',
             p.phase = panel.phase, p.kept = panel.kept, requests \ {r} \subseteq rs, ~(r.op = "delete" /\ r.stage = "ok"),
             \A x \in rs \ requests : x.stage # "ok"
      PROVE  ScratchStands'
  BY <1>0, <1>b DEF Panel!Refreshed, Panel!Unrefreshed, ScratchStands, Withdrawing, Cleanly, Panel!Voted
<1>1. CASE Panel!Retry(r)
  BY <1>1 DEF Panel!Retry, Panel!Retries
<1>2. CASE r.mine /\ Panel!Complain(r)
  <2> DEFINE free == [panel EXCEPT !.voting = @ /\ r.op \in {"draw", "save"}, !.busy = @ /\ r.op \notin {"draw", "save"}]
  <2>1. free.phase = panel.phase /\ free.kept = panel.kept
    BY DEF PanelType, PanelState
  <2> QED
    BY ZenonT(60), <1>2, <1>b, <2>1 DEF Panel!Complain
<1>3. CASE r.mine /\ Panel!Accept(r)
  <2> DEFINE p == [panel EXCEPT !.voting = Panel!PanelKind \in {"TAP", "FORMAL"}, !.kept = IF Panel!PanelKind = "FORMAL" THEN NoTopic ELSE @]
  <2>1. p.phase = panel.phase /\ p.kept = panel.kept
    BY DEF PanelType, PanelState
  <2> QED
    BY ZenonT(60), <1>3, <1>a, <1>b, <2>1 DEF Panel!Accept
<1>4. CASE r.mine /\ Panel!Withdrawn(r)
  <2>1. CASE form.place # "card"
    BY <1>4, <1>a, <2>1 DEF Panel!Withdrawn
  <2>2. CASE form.place = "card"
    <3> DEFINE free == [panel EXCEPT !.voting = Panel!PanelKind = "TAP"]
    <3>1. panel' = Panel!Cleared(free) /\ requests' = Panel!Forgotten(requests \ {r})
      BY <1>4, <2>2 DEF Panel!Withdrawn, Panel!Refreshed
    <3>2. panel'.phase = "idle" /\ panel'.kept = NoTopic
      BY <3>1 DEF Panel!Cleared, PanelType, PanelState
    <3>3. \A x \in requests' : ~(x.mine /\ x.op = "draw")
      BY ZenonT(60), <3>1 DEF Panel!Forgotten, PanelType, KindRequests, PanelRequest
    <3> QED
      BY <1>0, <2>2, <3>2, <3>3 DEF ScratchStands
  <2> QED
    BY <2>1, <2>2
<1>5. CASE r.mine /\ Panel!Drawn(r)
  <2>1. CASE r.to # shown.round
    BY <1>5, <1>b, <2>1 DEF Panel!Drawn
  <2>2. CASE r.to = shown.round /\ form.place # "card"
    <3> DEFINE held == [panel EXCEPT !.kept = r.answer, !.busy = FALSE]
    <3>1. CASE panel.phase = "scratched"
      BY <1>5, <1>a, <2>2, <3>1 DEF Panel!Drawn
    <3>2. CASE panel.phase # "scratched"
      <4>1. held.phase = panel.phase
        BY DEF PanelType, PanelState
      <4> QED
        BY <1>0, <1>5, <2>2, <3>2, <4>1 DEF Panel!Drawn, Panel!Unrefreshed, ScratchStands, Panel!Voted
    <3> QED
      BY <3>1, <3>2
  <2>3. CASE r.to = shown.round /\ form.place = "card"
    <3>1. lapses' = lapses
      BY <1>5, <2>3 DEF Panel!Drawn
    <3>2. requests \ {r} \subseteq requests'
      BY <1>5, <2>3 DEF Panel!Drawn, Panel!Refreshed, Panel!Unrefreshed
    <3>3. page = "ready"
      BY <2>3 DEF CardStays
    <3>4. Cleanly({"refused", "elsewhere"}) => server.answers[1] # NoTopic \/ Withdrawing
      BY <1>5, <2>3, <3>3 DEF Panel!Drawn, ScratchStands
    <3> QED
      BY <1>0, <1>5, <2>3, <3>1, <3>2, <3>4 DEF Panel!Drawn, ScratchStands, Cleanly, Withdrawing
  <2> QED
    BY <2>1, <2>2, <2>3
<1>6. CASE r.mine /\ (Panel!Stops(r) \/ Panel!Saved(r))
  BY <1>6 DEF Panel!Stops, Panel!Saved, PanelType, KindRequests
<1>7. CASE Panel!Unseen(r)
  <2>1. form.place = "card" => ~(r.op = "delete" /\ r.stage = "ok")
    BY <1>7 DEF Panel!Unseen, CardStays
  <2>2. CASE form.place = "card"
    BY <1>7, <1>b, <2>1, <2>2 DEF Panel!Unseen
  <2>3. CASE form.place # "card"
    BY <1>0, <1>7, <2>3 DEF Panel!Unseen, Panel!Unrefreshed, ScratchStands, Panel!Voted
  <2> QED
    BY <2>2, <2>3
<1> QED
  BY <1>1, <1>2, <1>3, <1>4, <1>5, <1>6, <1>7 DEF Panel!Receive

\* A topic that replaces another reveals its answer or clears the card.
LEMMA PageScratch == PanelType /\ CardStays /\ ScratchStands /\ PanelPage => ScratchStands'
<1> SUFFICES ASSUME PanelType, CardStays, ScratchStands, PanelPage, form.kind = "SCRATCH", form' = form PROVE ScratchStands'
  BY FormStays DEF ScratchStands
<1> USE DEF Panel!PanelKind
<1>1. CASE Panel!Tick \/ Panel!Reload
  BY <1>1 DEF Panel!Tick, Panel!Reload, Panel!Idle, ScratchStands, Withdrawing, Cleanly, Panel!Voted
<1>2. CASE Panel!Neighbour
  BY <1>2 DEF Panel!Neighbour, Panel!IsSub, Panel!Refreshed, ScratchStands
<1>3. ASSUME NEW f \in fetches, Panel!Read(f) PROVE ScratchStands'
  BY <1>3 DEF Panel!Read, Panel!Idle, ScratchStands, Withdrawing, Cleanly, Panel!Voted
<1>4. ASSUME NEW f \in fetches, Panel!Return(f) PROVE ScratchStands'
  <2>1. f.got \in PanelView /\ UNCHANGED server /\ shown' = f.got
    BY <1>4 DEF PanelType, Panel!Return, Panel!Idle, PanelFetch
  <2> DEFINE watched == Panel!Watched(panel, shown, f.got)
             reset == f.got.round # shown.round \/ (Panel!Voted /\ f.got.answer = NoTopic)
  <2>2. /\ watched \in PanelState
        /\ f.got.answer # NoTopic => watched.phase = "done"
        /\ f.got.answer = NoTopic /\ reset => watched.phase = "idle" /\ watched.kept = NoTopic
        /\ f.got.answer = NoTopic /\ ~reset => watched = panel
    <3>1. watched = LET cleared == IF reset THEN Panel!Cleared(panel) ELSE panel IN
                    IF f.got.answer = NoTopic THEN cleared ELSE [cleared EXCEPT !.kept = f.got.answer, !.phase = "done"]
      BY DEF Panel!Watched, Panel!Voted
    <3>2. panel \in PanelState /\ Panel!Cleared(panel) \in PanelState
      BY DEF PanelType, PanelState, Panel!Cleared, PanelAnswer
    <3>3. Panel!Cleared(panel).phase = "idle" /\ Panel!Cleared(panel).kept = NoTopic
      BY DEF PanelType, PanelState, Panel!Cleared
    <3>4. watched \in PanelState
      BY <2>1, WatchedType DEF PanelType
    <3> QED
      BY <3>1, <3>2, <3>3, <3>4 DEF PanelState
  <2>3. CASE form.place # "card"
    <3>1. CASE f.by = "load"
      <4>1. Panel!Mounted(f.got).phase = "done" => f.got.answer # NoTopic
        BY DEF Panel!Mounted
      <4> QED
        BY <1>4, <2>1, <2>3, <3>1, <4>1 DEF Panel!Return, ScratchStands, Panel!Voted
    <3>2. CASE f.by # "load" /\ page = "ready"
      <4>1. panel'.phase = watched.phase
        BY <1>4, <2>2, <3>2 DEF Panel!Return, PanelState
      <4>2. f.got.answer = NoTopic => watched.phase # "done"
        BY <2>2, <2>3, <3>2 DEF ScratchStands
      <4> QED
        BY <2>1, <2>3, <4>1, <4>2 DEF ScratchStands, Panel!Voted
    <3>3. CASE f.by # "load" /\ page # "ready"
      BY <1>4, <3>3 DEF Panel!Return, ScratchStands
    <3> QED
      BY <3>1, <3>2, <3>3
  <2>4. CASE form.place = "card" /\ Cleanly({"refused", "elsewhere"})'
    <3>1. f.by = "card" /\ page = "ready" /\ page' = page
      BY <1>4, <2>4 DEF CardStays, Panel!Return
    <3>2. /\ panel'.phase = watched.phase /\ panel'.kept = watched.kept
          /\ requests' = IF reset THEN Panel!Forgotten(requests) ELSE requests
          /\ lapses \subseteq lapses'
      BY <1>4, <2>2, <3>1 DEF Panel!Return, PanelState
    <3>3. \A x \in requests : x.op = "delete" /\ x.stage = "ok" => x \in Panel!Forgotten(requests)
      BY <2>4 DEF Panel!Forgotten, PanelType, KindRequests, PanelRequest, CardStays
    <3>4. \A x \in Panel!Forgotten(requests) : ~(x.mine /\ x.op = "draw")
      BY DEF Panel!Forgotten, PanelType, KindRequests, PanelRequest
    <3>5. Cleanly({"refused", "elsewhere"})
      BY <2>4, <3>2 DEF Cleanly
    <3>6. CASE server.answers[1] # NoTopic
      BY <2>1, <2>4, <3>6 DEF ScratchStands
    <3>7. CASE Withdrawing
      BY <2>4, <3>2, <3>3, <3>7 DEF ScratchStands, Withdrawing
    <3>8. CASE reset
      BY <2>1, <2>2, <2>4, <3>2, <3>4, <3>8 DEF ScratchStands, Panel!Voted
    <3>9. CASE ~reset /\ server.answers[1] = NoTopic /\ ~Withdrawing
      BY <2>1, <2>2, <2>4, <3>1, <3>2, <3>5, <3>9 DEF ScratchStands, Panel!Voted
    <3> QED
      BY <3>6, <3>7, <3>8, <3>9
  <2> QED
    BY <2>3, <2>4 DEF ScratchStands
<1>5. ASSUME NEW f \in fetches, Panel!Miss(f) PROVE ScratchStands'
  <2>1. UNCHANGED <<shown, server, requests>> /\ panel' = panel /\ (page' = "ready" => page = "ready") /\ lapses \subseteq lapses'
    BY <1>5 DEF Panel!Miss, Panel!Idle
  <2> QED
    BY <2>1 DEF ScratchStands, Withdrawing, Cleanly, Panel!Voted
<1> QED
  BY <1>1, <1>2, <1>3, <1>4, <1>5 DEF PanelPage

\* ScratchStands is inductive.
LEMMA ScratchInductive == PanelType /\ CardStays /\ ScratchStands /\ Panel!Next => ScratchStands'
BY PanelSteps, UserScratch, ServiceScratch, ReceiveScratch, PageScratch

-----------------------------------------------------------------------------

\* A pair that stays matched waits for its vote, or is shown as one.
MatchStands ==
    form.kind = "MATCHING" /\ page = "ready"
    /\ Cleanly({"refused", "dropped", "withdrawn", "skipped", "missed", "elsewhere"}) =>
        IF form.place # "card"
        THEN panel.kept # NoTopic => \E r \in requests : r.mine /\ r.op \in {"post", "patch"}
        ELSE \/ \E r \in requests : r.op = "delete"
             \/ /\ \A f \in fetches : f.got # NoTopic => f.got.answer # NoTopic
                /\ fetches # {} \/ (\E r \in requests : r.stage = "ok") => server.answers[1] # NoTopic
                /\ panel.kept # NoTopic /\ ~Panel!Voted => requests # {} \/ fetches # {}

\* What the user does keeps MatchStands.
LEMMA UserMatch == PanelType /\ MatchStands /\ PanelUser => MatchStands'
<1> SUFFICES ASSUME PanelType, MatchStands, PanelUser, form.kind = "MATCHING", form' = form PROVE MatchStands'
  BY FormStays DEF MatchStands
<1> USE DEF Panel!PanelKind, Panel!Drafting, Panel!Spinning
<1>0. ~\E a \in Panel!Answers \cup {NoTopic} : Panel!Choose(a) \/ Panel!Select(a) \/ Panel!Draft(a) \/ Panel!Rank(a)
  BY DEF Panel!Choose, Panel!Select, Panel!Draft, Panel!Rank
<1>a. ~(Panel!Confirm \/ Panel!Submit \/ Panel!Spin \/ Panel!Touch \/ Panel!Scratch \/ Panel!Play)
  BY DEF Panel!Confirm, Panel!Submit, Panel!Spin, Panel!Touch, Panel!Scratch, Panel!Play
<1>1. ASSUME NEW a \in PanelAnswer, Panel!Land(a) PROVE MatchStands'
  <2> DEFINE x == Panel!Request("post", shown.round, a, "landing")
  <2>1. x.mine /\ x.op = "post" /\ x.stage = "landing" /\ requests' = requests \cup {x} /\ UNCHANGED <<shown, server, page, fetches, lapses>>
    BY <1>1 DEF Panel!Land, Panel!Request, Panel!Untouched
  <2> QED
    BY <2>1 DEF MatchStands, Cleanly
<1>2. CASE Panel!Withdraw
  <2> DEFINE x == Panel!Request("delete", shown.round, NoTopic, "sent")
  <2>1. x.op = "delete" /\ requests' = requests \cup {x} /\ panel'.kept = panel.kept /\ UNCHANGED <<shown, server, page, fetches, lapses>>
    BY <1>2 DEF Panel!Withdraw, Panel!Ask, Panel!Request, Panel!Untouched, PanelType, PanelState
  <2> QED
    BY <2>1 DEF MatchStands, Cleanly
<1>3. CASE Panel!Rematch
  <2>1. panel'.kept = NoTopic /\ UNCHANGED <<shown, server, page, fetches, lapses, requests>>
    BY <1>3 DEF Panel!Rematch, Panel!Untouched, PanelType, PanelState
  <2> QED
    BY <2>1 DEF MatchStands, Cleanly
<1> QED
  BY <1>0, <1>a, <1>1, <1>2, <1>3 DEF PanelUser, PanelAnswer

\* A timer submits the pair, and the service stores it.
LEMMA ServiceMatch == PanelType /\ CardStays /\ MatchStands /\ PanelService => MatchStands'
<1> DEFINE reasons == {"refused", "dropped", "withdrawn", "skipped", "missed", "elsewhere"}
<1> SUFFICES ASSUME PanelType, CardStays, MatchStands, PanelService, form.kind = "MATCHING", form' = form,
                    page' = "ready", Cleanly(reasons)'
             PROVE  MatchStands'
  BY FormStays DEF MatchStands
<1> USE DEF Panel!PanelKind
<1>1. ASSUME NEW r \in requests, Panel!LandingEnds(r) PROVE MatchStands'
  <2>1. r.stage = "landing" /\ r.op \in {"post", "patch"} /\ r \in PanelRequest
    BY <1>1 DEF Panel!LandingEnds, PanelType, KindRequests
  <2> DEFINE op == IF r.mine THEN IF Panel!Voted THEN "patch" ELSE "post" ELSE r.op
             to == IF r.mine THEN shown.round ELSE r.to
             x == [r EXCEPT !.op = op, !.to = to, !.stage = "sent"]
  <2>2. /\ Cleanly(reasons) /\ page = "ready" /\ UNCHANGED <<shown, server, page, fetches>>
        /\ requests' = (requests \ {r}) \cup {x}
        /\ panel'.kept \in {panel.kept, NoTopic}
    BY <1>1, <2>1 DEF Panel!LandingEnds, Cleanly, PanelType, PanelState
  <2>3. x.op \in {"post", "patch"} /\ x.mine = r.mine /\ x.stage = "sent"
    BY <2>1 DEF PanelRequest
  <2> QED
    BY <2>1, <2>2, <2>3 DEF MatchStands, Panel!Voted
<1>2. ASSUME NEW r \in requests, Panel!Handle(r) PROVE MatchStands'
  <2> DEFINE x(o) == [r EXCEPT !.stage = o[1], !.answer = IF r.op = "draw" THEN o[2] ELSE @]
  <2>1. PICK o \in Panel!Outcomes(r) :
          /\ requests' = (requests \ {r}) \cup {x(o)}
          /\ server' = [server EXCEPT !.answers[r.to] = o[2]]
          /\ lapses' = lapses \cup IF o[1] = "failed" THEN {"refused"} ELSE {}
    BY <1>2 DEF Panel!Handle
  <2>2. UNCHANGED <<shown, page, panel, fetches>> /\ Cleanly(reasons) /\ o[1] # "failed"
    BY <1>2, <2>1 DEF Panel!Handle, Panel!Elsewhere, Cleanly
  <2>3. x(o).op = r.op /\ x(o).mine = r.mine
    BY DEF PanelType, KindRequests, PanelRequest
  <2>4. CASE form.place # "card"
    BY <2>1, <2>2, <2>3, <2>4 DEF MatchStands
  <2>5. CASE form.place = "card" /\ r.op = "delete"
    BY <2>1, <2>3, <2>5 DEF MatchStands
  <2>6. CASE form.place = "card" /\ r.op # "delete"
    <3>1. o[2] # NoTopic
      BY <2>1, <2>2, <2>6, AnswerKinds DEF Panel!Outcomes, Panel!DrawOutcomes, PanelType, KindRequests, PanelRequest, PanelAnswer
    <3>2. server'.answers[1] # NoTopic
      BY <2>1, <2>6, <3>1 DEF CardStays, PanelType
    <3> QED
      BY <2>1, <2>2, <2>3, <2>6, <3>2 DEF MatchStands, Panel!Voted
  <2> QED
    BY <2>4, <2>5, <2>6
<1>3. ASSUME NEW r \in requests, Panel!Lose(r) PROVE MatchStands'
  BY <1>3 DEF Panel!Lose, Cleanly
<1>4. ASSUME NEW a \in PanelAnswer, Panel!OtherTab(a) PROVE MatchStands'
  BY <1>4 DEF Panel!OtherTab, Cleanly
<1>5. CASE Panel!OpenRound
  BY <1>5 DEF Panel!OpenRound, Panel!Elsewhere, Panel!IsSub, MatchStands, Cleanly
<1> QED
  BY <1>1, <1>2, <1>3, <1>4, <1>5 DEF PanelService, PanelAnswer

\* The answer of a pair's vote mounts the panel anew or is followed by the card's fetch.
LEMMA ReceiveMatch ==
  ASSUME PanelType, CardStays, MatchStands, NEW r \in requests, Panel!Receive(r) PROVE MatchStands'
<1>0. UNCHANGED <<form, server, shown>>
  BY DEF Panel!Receive
<1> DEFINE reasons == {"refused", "dropped", "withdrawn", "skipped", "missed", "elsewhere"}
<1> SUFFICES ASSUME form.kind = "MATCHING", page' = "ready", Cleanly(reasons)' PROVE MatchStands'
  BY <1>0 DEF MatchStands
<1> USE DEF Panel!PanelKind
<1>1. r \in PanelRequest /\ r \in KindRequests
  BY DEF PanelType, KindRequests
<1>2. ~Panel!Drawn(r) /\ ~Panel!Stops(r) /\ ~Panel!Saved(r)
  BY <1>1 DEF Panel!Drawn, Panel!Stops, Panel!Saved, KindRequests
<1>3. ~Panel!Complain(r) /\ ~Panel!Withdrawn(r)
  BY <1>1 DEF Panel!Complain, Panel!Withdrawn, Cleanly, KindRequests
<1>4. CASE Panel!Retry(r)
  <2> DEFINE x == [r EXCEPT !.op = "patch", !.stage = "sent", !.to = IF Panel!PanelKind = "MULTI" \/ ~r.mine THEN @ ELSE shown.round]
  <2>1. requests' = (requests \ {r}) \cup {x} /\ UNCHANGED <<panel, page, fetches, lapses>>
    BY <1>4 DEF Panel!Retry, Panel!Unrefreshed, Cleanly
  <2>2. x.op = "patch" /\ x.mine = r.mine /\ x.stage = "sent" /\ r.op = "post"
    BY <1>1, <1>4 DEF PanelRequest, KindRequests, Panel!Retry
  <2> QED
    BY <1>0, <2>1, <2>2 DEF MatchStands, Cleanly, Panel!Voted
<1>5. CASE r.mine /\ Panel!Accept(r)
  <2>1. form.place = "card"
    BY <1>5 DEF Panel!Accept, Panel!Refreshed
  <2>2. /\ requests' = requests \ {r} /\ fetches' = fetches \cup {Panel!Fetch("card")}
        /\ panel'.kept = panel.kept /\ UNCHANGED <<page, lapses>> /\ r.stage = "ok" /\ r.op # "delete"
    BY <1>5, <2>1 DEF Panel!Accept, Panel!Refreshed, PanelType, PanelState
  <2>3. Panel!Fetch("card").got = NoTopic
    BY DEF Panel!Fetch
  <2> QED
    BY <1>0, <2>1, <2>2, <2>3 DEF MatchStands, Cleanly, Panel!Voted
<1>6. CASE Panel!Unseen(r)
  <2>1. form.place # "card"
    BY <1>1, <1>6 DEF Panel!Unseen, CardStays, KindRequests
  <2> QED
    BY <1>0, <1>6, <2>1 DEF Panel!Unseen, Panel!Unrefreshed, MatchStands, Cleanly
<1> QED
  BY <1>2, <1>3, <1>4, <1>5, <1>6 DEF Panel!Receive

\* A card that is fetched after its vote shows it.
LEMMA PageMatch == PanelType /\ CardStays /\ MatchStands /\ PanelPage => MatchStands'
<1> DEFINE reasons == {"refused", "dropped", "withdrawn", "skipped", "missed", "elsewhere"}
<1> SUFFICES ASSUME PanelType, CardStays, MatchStands, PanelPage, form.kind = "MATCHING", form' = form,
                    page' = "ready", Cleanly(reasons)'
             PROVE  MatchStands'
  BY FormStays DEF MatchStands
<1> USE DEF Panel!PanelKind
<1>1. CASE Panel!Tick \/ Panel!Reload
  BY <1>1 DEF Panel!Tick, Panel!Reload, Panel!Idle, MatchStands, Cleanly
<1>2. CASE Panel!Neighbour
  BY <1>2 DEF Panel!Neighbour, Panel!IsSub, Panel!Refreshed
<1>3. ASSUME NEW f \in fetches, Panel!Read(f) PROVE MatchStands'
  <2> DEFINE x == [f EXCEPT !.got = Panel!View(server)]
  <2>1. x.got = Panel!View(server) /\ fetches' = (fetches \ {f}) \cup {x} /\ UNCHANGED <<shown, page, panel, requests, lapses, server>>
    BY <1>3 DEF PanelType, PanelFetch, Panel!Read, Panel!Idle
  <2>2. form.place = "card" => x.got.answer = server.answers[1]
    BY <2>1 DEF Panel!View, CardStays
  <2> QED
    BY <2>1, <2>2 DEF MatchStands, Cleanly, Panel!Voted
<1>4. ASSUME NEW f \in fetches, Panel!Return(f) PROVE MatchStands'
  <2>1. f.got \in PanelView /\ f.got # NoTopic /\ UNCHANGED <<server, requests>> /\ shown' = f.got /\ lapses \subseteq lapses' /\ fetches' = fetches \ {f}
    BY <1>4 DEF PanelType, Panel!Return, Panel!Idle, PanelFetch
  <2> DEFINE watched == Panel!Watched(panel, shown, f.got)
  <2>2. watched \in PanelState /\ watched.kept \in {panel.kept, NoTopic}
    BY <2>1, WatchedType DEF PanelType, Panel!Watched, PanelState
  <2>3. CASE f.by = "load"
    <3>1. form.place # "card"
      BY <2>3 DEF CardStays
    <3>2. panel'.kept = NoTopic
      BY <1>4, <2>3 DEF Panel!Return, Panel!Mounted
    <3> QED
      BY <3>1, <3>2 DEF MatchStands
  <2>4. CASE f.by # "load"
    <3>1. page = "ready" /\ panel'.kept \in {panel.kept, NoTopic} /\ Cleanly(reasons)
      BY <1>4, <2>1, <2>2, <2>4 DEF Panel!Return, PanelState, Cleanly
    <3> QED
      BY <2>1, <3>1 DEF MatchStands, Panel!Voted
  <2> QED
    BY <2>3, <2>4
<1>5. ASSUME NEW f \in fetches, Panel!Miss(f) PROVE MatchStands'
  BY <1>5 DEF Panel!Miss, Cleanly
<1> QED
  BY <1>1, <1>2, <1>3, <1>4, <1>5 DEF PanelPage

\* MatchStands is inductive.
LEMMA MatchInductive == PanelType /\ CardStays /\ MatchStands /\ Panel!Next => MatchStands'
BY PanelSteps, UserMatch, ServiceMatch, ReceiveMatch, PageMatch

-----------------------------------------------------------------------------

\* The inductive invariant of the panel.
PanelInv == PanelType /\ VotingIsAsked /\ BusyIsAwaited /\ CardStays /\ ScratchStands /\ MatchStands

\* Every question starts in the invariant.
LEMMA PanelInitInv == Panel!Init => PanelInv
<1> SUFFICES ASSUME Panel!Init PROVE PanelInv
  OBVIOUS
<1>1. PanelType
  BY PanelTypeInit
<1>2. panel.voting = FALSE /\ panel.busy = FALSE /\ panel.phase \in {"idle", "done"}
  BY DEF Panel!Init, Panel!Mounted
<1>3. panel.phase = "done" => Panel!Voted
  BY DEF Panel!Init, Panel!Mounted, Panel!Voted
<1>4. panel.kept # NoTopic /\ form.kind = "SCRATCH" => panel.phase = "done"
  BY DEF Panel!Init, Panel!Mounted, Panel!PanelKind
<1>5. form.kind = "MATCHING" => panel.kept = NoTopic
  BY DEF Panel!Init, Panel!Mounted, Panel!PanelKind
<1>6. server.round = 1 /\ shown.round = 1 /\ page = "ready" /\ requests = {} /\ fetches = {}
  BY DEF Panel!Init, Panel!View
<1> QED
  BY <1>1, <1>2, <1>3, <1>4, <1>5, <1>6 DEF PanelInv, VotingIsAsked, BusyIsAwaited, Playing, CardStays, ScratchStands, MatchStands

\* Every step of the panel keeps it.
LEMMA PanelNextInv == PanelInv /\ Panel!Next => PanelInv'
BY PanelTyped, VotingInductive, BusyInductive, CardInductive, ScratchInductive, MatchInductive DEF PanelInv

\* With nothing under way nothing locks the panel but what is known to.
LEMMA PanelIsPlayable == PanelInv => PlayableOrKnown
<1> SUFFICES ASSUME PanelInv, Panel!AtRest, ~Panel!Voted, shown.round = server.round, ~Panel!KnownLock PROVE Panel!MayAnswer
  BY DEF PlayableOrKnown, Panel!PlayableOrKnown
<1>1. requests = {} /\ fetches = {} /\ page = "ready"
  BY DEF Panel!AtRest
<1>2. ~panel.voting
  BY <1>1 DEF PanelInv, VotingIsAsked
<1>3. form.kind \in {"RANK", "LOTTERY", "SCRATCH", "WHEEL", "MATCHING"} => ~Playing(panel)
  BY <1>1 DEF PanelInv, BusyIsAwaited, Panel!KnownLock, Panel!PanelKind
<1>4. form.kind = "SCRATCH" => (panel.phase = "done" => server.answers[shown.round] # NoTopic)
  BY <1>1 DEF PanelInv, ScratchStands, Withdrawing, Cleanly, CardStays, Panel!KnownLock, Panel!PanelKind
<1>5. form.kind = "MATCHING" => panel.kept = NoTopic /\ Panel!MayPair
  BY <1>1 DEF PanelInv, MatchStands, Cleanly, Panel!KnownLock, Panel!PanelKind
<1> QED
  BY <1>2, <1>3, <1>4, <1>5 DEF Panel!MayAnswer, Panel!Spinning, Panel!MayDraw, Panel!PanelKind, Playing

\* The other steps leave the panel alone.
LEMMA PanelScoped == [ScopedNext]_<<vars, scope, pageVars>> => Panel!Next \/ UNCHANGED panelVars
BY DEF ScopedNext, Asked, pageVars

\* They keep the invariant.
LEMMA PanelUnchanged == PanelInv /\ UNCHANGED panelVars => PanelInv'
BY DEF PanelInv, panelVars, PanelType, VotingIsAsked, BusyIsAwaited, CardStays, ScratchStands, MatchStands, KindRequests, Playing,
       Cleanly, Withdrawing, Panel!Voted

\* When nothing is under way, a question that shows no answer can be answered or has been left locked in
\* a known way, for every set of choices, every bound and every question: whatever locks a panel (voting,
\* busy, a phase, a pair) is awaited by a request, a timer or a fetch that takes it back.
THEOREM OpenQuestionsStayPlayable == ScopedSpec => []PlayableOrKnown
<1>1. ScopedInit => PanelInv
  BY PanelInitInv DEF ScopedInit
<1>2. PanelInv /\ [ScopedNext]_<<vars, scope, pageVars>> => PanelInv'
  BY PanelScoped, PanelUnchanged, PanelNextInv
<1> QED
  BY <1>1, <1>2, PanelIsPlayable, PTL DEF ScopedSpec

-----------------------------------------------------------------------------
(* What the panel asks for and what is stored and shown.  Everything is      *)
(* stated for a behaviour in which nothing happened that is excused: then    *)
(* each step has a simple form (Steps), no request fails (Flowing), and the  *)
(* question is of one of three sorts: its answer is final (Once), its panel  *)
(* has one request at a time (Single), or it is a scratch card (Scratchy).   *)

\* Nothing happened that LastAnswerCounts is excused by.
Orderly == Cleanly({"refused", "missed", "elsewhere", "orphaned", "forgotten", "replayed", "skipped"})

\* An answer that is stored is final: a round of a topic page, a formal vote.
Once == form.place = "sub" \/ form.kind = "FORMAL"

\* A request that is somebody else's.
Alike(x, y) == y.stage = x.stage /\ y.answer = x.answer /\ (x.stage # "landing" => y.op = x.op /\ y.to = x.to)

\* A panel that is unmounted leaves its requests as they are, but for a landing.
LEMMA DisownedAlike ==
  ASSUME PanelType, NEW rs \in SUBSET KindRequests
  PROVE  /\ \A y \in Panel!Disowned(rs) :
               ~y.mine /\ \E x \in rs : Alike(x, y) /\ (x.stage = "landing" => y.op \in {"post", "patch"} /\ y.to = shown.round)
         /\ \A x \in rs : \E y \in Panel!Disowned(rs) : Alike(x, y)
<1> DEFINE d(r) == [r EXCEPT !.mine = FALSE,
                             !.op = IF r.stage = "landing" THEN IF Panel!Voted THEN "patch" ELSE "post" ELSE @,
                             !.to = IF r.stage = "landing" THEN shown.round ELSE @]
<1>1. Panel!Disowned(rs) = {d(r) : r \in rs}
  BY DEF Panel!Disowned
<1>2. ASSUME NEW r \in rs
      PROVE  Alike(r, d(r)) /\ ~d(r).mine /\ (r.stage = "landing" => d(r).op \in {"post", "patch"} /\ d(r).to = shown.round)
  BY DEF KindRequests, PanelRequest, Alike
<1> HIDE DEF d
<1> QED BY <1>1, <1>2

\* A card that is cleared while it draws is excepted.
LEMMA NothingForgotten ==
  ASSUME NEW rs \in SUBSET KindRequests, Panel!ForgetsIn(rs) \cap {"forgotten"} = {}
  PROVE  Panel!Forgotten(rs) = rs
<1>1. \A r \in rs : ~(r.mine /\ r.op = "draw")
  BY DEF Panel!ForgetsIn
<1>2. ASSUME NEW r \in rs PROVE [r EXCEPT !.mine = @ /\ r.op # "draw"] = r
  BY <1>1 DEF KindRequests, PanelRequest
<1> QED BY <1>2 DEF Panel!Forgotten

\* What the service does with a request, if it does not fail.
Handles(r, x) ==
    /\ UNCHANGED <<shown, page, panel, fetches, lapses, meant>>
    /\ r.stage = "sent" /\ r.to = server.round
    /\ server'.round = server.round
    /\ \A n \in 1..2 : n # r.to => server'.answers[n] = server.answers[n]
    /\ requests' = (requests \ {r}) \cup {x}
    /\ x.op = r.op /\ x.to = r.to /\ x.mine = r.mine /\ (r.op # "draw" => x.answer = r.answer)
    /\ \/ /\ x.stage = "conflict" /\ r.op = "post"
          /\ server.answers[r.to] # NoTopic /\ server'.answers[r.to] = server.answers[r.to]
       \/ /\ x.stage = "ok"
          /\ server'.answers[r.to] = IF r.op = "delete" THEN NoTopic ELSE x.answer
          /\ r.op = "post" => server.answers[r.to] = NoTopic
          /\ r.op \in {"patch", "delete"} => server.answers[r.to] # NoTopic /\ form.place # "sub"
          /\ r.op = "save" => server.answers[r.to] = NoTopic \/ form.place # "sub"
          /\ r.op = "draw" => x.answer # NoTopic /\ server.answers[r.to] \in {NoTopic, x.answer}

\* The service does that.
LEMMA Handled ==
  ASSUME PanelType, NEW r \in requests, Panel!Handle(r), Orderly'
  PROVE  form' = form /\ \E x \in requests' : Handles(r, x)
<1>1. PICK o \in Panel!Outcomes(r) :
          /\ requests' = (requests \ {r}) \cup {[r EXCEPT !.stage = o[1], !.answer = IF r.op = "draw" THEN o[2] ELSE @]}
          /\ server' = [server EXCEPT !.answers[r.to] = o[2]]
          /\ lapses' = lapses \cup IF o[1] = "failed" THEN {"refused"} ELSE {}
  BY DEF Panel!Handle
<1>2. r.stage = "sent" /\ UNCHANGED <<form, shown, page, panel, fetches, meant>>
  BY DEF Panel!Handle, Panel!Elsewhere
<1>3. o[1] # "failed"
  BY <1>1 DEF Orderly, Cleanly
<1>4. r \in PanelRequest /\ r.to \in 1..2
  BY DEF PanelType, KindRequests, PanelRequest
<1> DEFINE x == [r EXCEPT !.stage = o[1], !.answer = IF r.op = "draw" THEN o[2] ELSE @]
<1>5. x.op = r.op /\ x.to = r.to /\ x.mine = r.mine /\ x.stage = o[1] /\ x.answer = IF r.op = "draw" THEN o[2] ELSE r.answer
  BY <1>4 DEF PanelRequest
<1>6. /\ r.to = server.round
      /\ \/ r.op = "post" /\ server.answers[r.to] # NoTopic /\ o[1] = "conflict" /\ o[2] = server.answers[r.to]
         \/ r.op = "post" /\ server.answers[r.to] = NoTopic /\ o[1] = "ok" /\ o[2] = r.answer
         \/ r.op = "patch" /\ server.answers[r.to] # NoTopic /\ form.place # "sub" /\ o[1] = "ok" /\ o[2] = r.answer
         \/ r.op = "delete" /\ server.answers[r.to] # NoTopic /\ form.place # "sub" /\ o[1] = "ok" /\ o[2] = NoTopic
         \/ r.op = "save" /\ (server.answers[r.to] = NoTopic \/ form.place # "sub") /\ o[1] = "ok" /\ o[2] = r.answer
         \/ r.op = "draw" /\ o[1] = "ok" /\ o[2] # NoTopic /\ server.answers[r.to] \in {NoTopic, o[2]}
  <2>1. \A a \in Panel!ChoicesOf(r.to) : a # NoTopic
    BY <1>4, AnswerKinds
  <2> QED BY <1>1, <1>3, <1>4, <2>1 DEF Panel!Outcomes, Panel!DrawOutcomes, Panel!IsSub, PanelRequest
<1>7. server'.round = server.round /\ server'.answers[r.to] = o[2]
      /\ \A n \in 1..2 : n # r.to => server'.answers[n] = server.answers[n]
  BY <1>1, <1>4 DEF PanelType
<1>8. lapses' = lapses
  BY <1>1, <1>3
<1>9. x \in requests' /\ requests' = (requests \ {r}) \cup {x}
  BY <1>1
<1> HIDE DEF x
<1> QED BY <1>2, <1>5, <1>6, <1>7, <1>8, <1>9 DEF Handles

\* A timer that ends drops what has landed ...
Drops(r) ==
    /\ UNCHANGED <<server, shown, page, fetches, meant>>
    /\ r.mine /\ r.stage = "landing" /\ form.kind \in {"MATCHING", "PUZZLE"}
    /\ requests' = requests \ {r} /\ panel'.voting = panel.voting

\* ... or sends it.
Submits(r, x) ==
    /\ UNCHANGED <<server, shown, page, fetches>>
    /\ r.mine /\ r.stage = "landing" /\ form.kind \in {"MATCHING", "PUZZLE"} /\ r.answer # NoTopic
    /\ ~panel.voting /\ panel'.voting /\ ~(form.place = "sub" /\ Panel!Voted)
    /\ requests' = (requests \ {r}) \cup {x}
    /\ x.op \in {"post", "patch"} /\ x.to = shown.round /\ x.answer = r.answer /\ x.stage = "sent" /\ x.mine
    /\ meant' = [meant EXCEPT ![shown.round] = r.answer]

\* It does one or the other.
LEMMA Landed ==
  ASSUME PanelType, NEW r \in requests, Panel!LandingEnds(r), Orderly'
  PROVE  /\ Orderly /\ form' = form
         /\ Drops(r) \/ \E x \in requests' : Submits(r, x)
<1> DEFINE drops == panel.voting \/ r.answer = shown.answer \/ (Panel!IsSub /\ Panel!Voted)
           op == IF Panel!Voted THEN "patch" ELSE "post"
           x == [r EXCEPT !.op = op, !.to = shown.round, !.stage = "sent"]
<1>1. r.mine
  BY DEF Panel!LandingEnds, Orderly, Cleanly
<1>2. /\ r.stage = "landing" /\ UNCHANGED <<form, server, shown, page, fetches>>
      /\ requests' = (requests \ {r}) \cup (IF drops THEN {} ELSE {x})
      /\ meant' = (IF drops THEN meant ELSE [meant EXCEPT ![shown.round] = r.answer])
      /\ lapses \subseteq lapses'
      /\ panel' = [[panel EXCEPT !.busy = FALSE, !.kept = IF Panel!PanelKind = "MATCHING" /\ Panel!Voted THEN NoTopic ELSE @]
                      EXCEPT !.voting = @ \/ ~drops]
  BY <1>1 DEF Panel!LandingEnds
<1>3. r \in PanelRequest /\ form.kind \in {"MATCHING", "PUZZLE"} /\ r.answer # NoTopic
  BY <1>2 DEF PanelType, KindRequests
<1>4. x.op \in {"post", "patch"} /\ x.to = shown.round /\ x.answer = r.answer /\ x.stage = "sent" /\ x.mine
  BY <1>1, <1>3 DEF PanelRequest
<1>5. (drops => panel'.voting = panel.voting) /\ (~drops => panel'.voting /\ ~panel.voting)
  BY <1>2 DEF PanelType, PanelState
<1>6. Orderly
  BY <1>2 DEF Orderly, Cleanly
<1> HIDE DEF x
<1>7. CASE drops
  BY <1>1, <1>2, <1>3, <1>5, <1>6, <1>7 DEF Drops
<1>8. CASE ~drops
  <2>1. x \in requests' /\ requests' = (requests \ {r}) \cup {x} /\ meant' = [meant EXCEPT ![shown.round] = r.answer]
    BY <1>2, <1>8
  <2>2. ~(form.place = "sub" /\ Panel!Voted)
    BY <1>8 DEF Panel!IsSub
  <2> QED BY <1>1, <1>2, <1>3, <1>4, <1>5, <1>6, <1>8, <2>1, <2>2 DEF Submits
<1> QED BY <1>7, <1>8

\* Nothing has failed.
Unfailing == page # "error" /\ \A r \in requests : r.stage # "failed"

\* What an answer does, if nothing is excused: a first vote becomes a change; ...
Retried(r) ==
    /\ r.stage = "conflict" /\ Panel!Retries /\ UNCHANGED <<panel, page, fetches>>
    /\ \E x \in requests' :
         /\ requests' = (requests \ {r}) \cup {x}
         /\ x.op = "patch" /\ x.stage = "sent" /\ x.answer = r.answer /\ x.mine = r.mine
         /\ x.to = IF form.kind = "MULTI" \/ ~r.mine THEN r.to ELSE shown.round

\* ... nobody sees it, or nobody wants it any more; ...
Passed(r) ==
    /\ r.stage \in {"ok", "turning"} /\ UNCHANGED <<panel, page, fetches>>
    /\ requests' = requests \ {r}
    /\ r.mine => r.op = "draw" /\ r.to # shown.round

\* ... a vote is stored; ...
Stored(r) ==
    /\ r.mine /\ r.stage = "ok" /\ r.op \in {"post", "patch"}
    /\ \E p \in PanelState :
         /\ Panel!Refreshed(p, requests \ {r})
         /\ p.voting = (form.kind \in {"TAP", "FORMAL"}) /\ p.busy = panel.busy /\ p.phase = panel.phase
         /\ p.kept = IF form.kind = "FORMAL" THEN NoTopic ELSE panel.kept

\* ... a withdrawal is; ...
Undone(r) ==
    /\ r.mine /\ r.stage = "ok" /\ r.op = "delete"
    /\ form.kind = "SCRATCH" => \A x \in requests : ~(x.mine /\ x.op = "draw")
    /\ \E p \in PanelState :
         /\ Panel!Refreshed(p, requests \ {r})
         /\ p.voting = (form.kind = "TAP")
         /\ IF form.kind \in {"MATCHING", "PUZZLE", "SPECTRUM", "MULTI"}
            THEN p.busy = panel.busy /\ p.phase = panel.phase /\ p.kept = panel.kept
            ELSE ~p.busy /\ p.phase = "idle" /\ p.kept = NoTopic

\* ... a wheel turns; ...
Turns(r) ==
    /\ r.mine /\ r.stage = "ok" /\ r.op = "draw" /\ r.to = shown.round
    /\ form.kind \in {"LOTTERY", "WHEEL"} /\ UNCHANGED <<panel, page, fetches>>
    /\ \E x \in requests' :
         /\ requests' = (requests \ {r}) \cup {x}
         /\ x.op = "draw" /\ x.stage = "turning" /\ x.answer = r.answer /\ x.mine /\ x.to = r.to

\* ... a card is scratched; ...
Reveals(r) ==
    /\ r.mine /\ r.stage = "ok" /\ r.op = "draw" /\ r.to = shown.round /\ form.kind = "SCRATCH"
    /\ \E p \in PanelState :
         /\ p.voting = panel.voting /\ ~p.busy /\ p.kept = r.answer
         /\ IF panel.phase = "scratched" THEN p.phase = "done" /\ Panel!Refreshed(p, requests \ {r})
            ELSE p.phase = panel.phase /\ Panel!Unrefreshed(p, requests \ {r})

\* ... a wheel stops; a ranking is stored.
Settles(r) ==
    /\ r.mine
    /\ \/ r.stage = "turning" /\ r.op = "draw" /\ form.kind \in {"LOTTERY", "WHEEL"}
       \/ r.stage = "ok" /\ r.op = "save" /\ form.kind = "RANK"
    /\ \E p \in PanelState :
         /\ Panel!Refreshed(p, requests \ {r})
         /\ p.voting = panel.voting /\ ~p.busy /\ p.kept = r.answer
         /\ p.phase = IF r.op = "save" THEN "done" ELSE panel.phase

\* What answers do, if nothing is excused.
LEMMA Received ==
  ASSUME PanelType, Orderly => Unfailing, NEW r \in requests, Panel!Receive(r), Orderly'
  PROVE  /\ Orderly /\ UNCHANGED <<form, server, shown, meant>>
         /\ \/ Retried(r) \/ Passed(r) \/ Stored(r) \/ Undone(r)
            \/ Turns(r) \/ Reveals(r) \/ Settles(r)
<1>0. r \in PanelRequest /\ panel \in PanelState /\ r \in KindRequests /\ UNCHANGED <<form, server, shown, meant>>
  BY DEF PanelType, KindRequests, Panel!Receive
<1>a. ~("refused" \in lapses') /\ ~("skipped" \in lapses') /\ ~("forgotten" \in lapses')
  BY DEF Orderly, Cleanly
<1>b. \A p \in PanelState, v, b \in BOOLEAN, k \in PanelAnswer, ph \in {"idle", "done", panel.phase} :
         /\ [p EXCEPT !.voting = v] \in PanelState /\ [p EXCEPT !.busy = b] \in PanelState
         /\ [p EXCEPT !.kept = k] \in PanelState /\ [p EXCEPT !.phase = ph] \in PanelState
  BY <1>0 DEF PanelState
<1>1. CASE Panel!Retry(r)
  <2>1. /\ r.stage = "conflict" /\ Panel!Retries /\ lapses' = lapses
        /\ Panel!Unrefreshed(panel, (requests \ {r})
                  \cup {[r EXCEPT !.op = "patch", !.stage = "sent",
                                  !.to = IF Panel!PanelKind = "MULTI" \/ ~r.mine THEN @ ELSE shown.round]})
    BY <1>1, <1>a DEF Panel!Retry
  <2> DEFINE x == [r EXCEPT !.op = "patch", !.stage = "sent", !.to = IF Panel!PanelKind = "MULTI" \/ ~r.mine THEN @ ELSE shown.round]
  <2>2. x.op = "patch" /\ x.stage = "sent" /\ x.answer = r.answer /\ x.mine = r.mine
        /\ x.to = IF form.kind = "MULTI" \/ ~r.mine THEN r.to ELSE shown.round
    BY <1>0 DEF PanelRequest, Panel!PanelKind
  <2>3. requests' = (requests \ {r}) \cup {x} /\ x \in requests' /\ UNCHANGED <<panel, page, fetches>>
    BY <2>1 DEF Panel!Unrefreshed
  <2> HIDE DEF x
  <2>4. Retried(r)
    BY <2>1, <2>2, <2>3 DEF Retried
  <2> QED BY <1>0, <2>1, <2>4 DEF Orderly, Cleanly
<1>2. CASE r.mine /\ Panel!Complain(r)
  <2>1. r.stage = "failed" \/ (r.stage = "conflict" /\ r.op = "post")
    BY <1>0, <1>2 DEF Panel!Complain, KindRequests
  <2>2. lapses \subseteq lapses'
    BY <1>2 DEF Panel!Complain
  <2>3. Orderly
    BY <2>2 DEF Orderly, Cleanly
  <2>4. r.stage = "conflict" /\ r.op = "post"
    BY <2>1, <2>3 DEF Unfailing
  <2> QED BY <1>2, <1>a, <2>4 DEF Panel!Complain
<1>3. CASE r.mine /\ Panel!Accept(r)
  <2> DEFINE p == [panel EXCEPT !.voting = Panel!PanelKind \in {"TAP", "FORMAL"}, !.kept = IF Panel!PanelKind = "FORMAL" THEN NoTopic ELSE @]
  <2>1. Panel!Refreshed(p, requests \ {r}) /\ lapses' = lapses /\ r.stage = "ok" /\ r.op \in {"post", "patch"}
    BY <1>3 DEF Panel!Accept
  <2>0. (form.kind \in {"TAP", "FORMAL"}) \in BOOLEAN
    OBVIOUS
  <2>2. p.voting = (form.kind \in {"TAP", "FORMAL"}) /\ p.busy = panel.busy /\ p.phase = panel.phase
        /\ p.kept = (IF form.kind = "FORMAL" THEN NoTopic ELSE panel.kept) /\ p \in PanelState
    BY <1>0, <2>0 DEF PanelState, Panel!PanelKind, PanelAnswer
  <2> HIDE DEF p
  <2>3. Stored(r)
    BY <1>3, <2>1, <2>2 DEF Stored
  <2> QED BY <1>0, <2>1, <2>3 DEF Orderly, Cleanly
<1>4. CASE r.mine /\ Panel!Withdrawn(r)
  <2> DEFINE free == [panel EXCEPT !.voting = Panel!PanelKind = "TAP"]
             p == IF Panel!Landing \/ Panel!PanelKind \in {"SPECTRUM", "MULTI"} THEN free ELSE Panel!Cleared(free)
  <2>1. /\ r.stage = "ok" /\ r.op = "delete"
        /\ Panel!Refreshed(p, IF Panel!PanelKind = "SCRATCH" THEN Panel!Forgotten(requests \ {r}) ELSE requests \ {r})
        /\ lapses' = lapses \cup {"withdrawn"} \cup IF Panel!PanelKind = "SCRATCH" THEN Panel!ForgetsIn(requests) ELSE {}
    BY <1>4 DEF Panel!Withdrawn
  <2>0. (form.kind = "TAP") \in BOOLEAN
    OBVIOUS
  <2>2. free.voting = (form.kind = "TAP") /\ free.busy = panel.busy /\ free.phase = panel.phase /\ free.kept = panel.kept /\ free \in PanelState
    BY <1>0, <2>0 DEF PanelState, Panel!PanelKind
  <2> HIDE DEF free
  <2>3. /\ p.voting = (form.kind = "TAP") /\ p \in PanelState
        /\ IF form.kind \in {"MATCHING", "PUZZLE", "SPECTRUM", "MULTI"}
            THEN p.busy = panel.busy /\ p.phase = panel.phase /\ p.kept = panel.kept
            ELSE ~p.busy /\ p.phase = "idle" /\ p.kept = NoTopic
    BY <1>0, <2>2 DEF PanelState, Panel!PanelKind, Panel!Landing, Panel!Cleared, PanelAnswer
  <2>4. form.kind = "SCRATCH" => \A x \in requests : ~(x.mine /\ x.op = "draw")
    BY <1>a, <2>1 DEF Panel!PanelKind, Panel!ForgetsIn
  <2>5. form.kind = "SCRATCH" => Panel!Forgotten(requests \ {r}) = requests \ {r}
    <3> SUFFICES ASSUME form.kind = "SCRATCH" PROVE Panel!Forgotten(requests \ {r}) = requests \ {r}
      OBVIOUS
    <3>1. Panel!ForgetsIn(requests \ {r}) \cap {"forgotten"} = {}
      BY <2>4 DEF Panel!ForgetsIn
    <3>2. requests \ {r} \in SUBSET KindRequests
      BY DEF PanelType
    <3> QED BY <3>1, <3>2, NothingForgotten
  <2> HIDE DEF p
  <2>6. Panel!Refreshed(p, requests \ {r})
    BY <2>1, <2>5 DEF Panel!PanelKind
  <2>7. Undone(r)
    BY <1>4, <2>1, <2>3, <2>4, <2>6 DEF Undone
  <2> QED BY <1>0, <2>1, <2>7 DEF Orderly, Cleanly
<1>5. CASE r.mine /\ Panel!Drawn(r)
  <2>1. r.stage = "ok" /\ r.op = "draw" /\ lapses \subseteq lapses'
    BY <1>5 DEF Panel!Drawn
  <2>2. Orderly
    BY <2>1 DEF Orderly, Cleanly
  <2>3. CASE r.to # shown.round
    <3>1. Passed(r)
      BY <1>5, <2>1, <2>3 DEF Panel!Drawn, Passed, Panel!Unrefreshed
    <3> QED BY <1>0, <2>2, <3>1
  <2>4. CASE r.to = shown.round /\ Panel!Spinning
    <3> DEFINE x == [r EXCEPT !.stage = "turning"]
    <3>1. x.op = "draw" /\ x.stage = "turning" /\ x.answer = r.answer /\ x.mine /\ x.to = r.to
      BY <1>0, <1>5, <2>1 DEF PanelRequest
    <3>2. requests' = (requests \ {r}) \cup {x} /\ x \in requests' /\ UNCHANGED <<panel, page, fetches>>
      BY <1>5, <2>4 DEF Panel!Drawn, Panel!Unrefreshed
    <3> HIDE DEF x
    <3>3. Turns(r)
      BY <1>5, <2>1, <2>4, <3>1, <3>2 DEF Turns, Panel!Spinning, Panel!PanelKind
    <3> QED BY <1>0, <2>2, <3>3
  <2>5. CASE r.to = shown.round /\ ~Panel!Spinning
    <3> DEFINE held == [panel EXCEPT !.kept = r.answer, !.busy = FALSE]
               full == [held EXCEPT !.phase = "done"]
    <3>1. IF panel.phase = "scratched" THEN Panel!Refreshed(full, requests \ {r}) ELSE Panel!Unrefreshed(held, requests \ {r})
      BY <1>5, <2>5 DEF Panel!Drawn
    <3>2. held.voting = panel.voting /\ ~held.busy /\ held.kept = r.answer /\ held.phase = panel.phase /\ held \in PanelState
      BY <1>0 DEF PanelState, PanelRequest
    <3> HIDE DEF held
    <3>3. full.voting = panel.voting /\ ~full.busy /\ full.kept = r.answer /\ full.phase = "done" /\ full \in PanelState
      BY <3>2 DEF PanelState
    <3> HIDE DEF full
    <3>4. form.kind = "SCRATCH"
      BY <1>0, <2>1, <2>5 DEF KindRequests, Panel!Spinning, Panel!PanelKind
    <3>5. Reveals(r)
      BY <1>5, <2>1, <2>5, <3>1, <3>2, <3>3, <3>4 DEF Reveals
    <3> QED BY <1>0, <2>2, <3>5
  <2> QED BY <2>3, <2>4, <2>5
<1>6. CASE r.mine /\ Panel!Stops(r)
  <2>1. r.stage = "turning" /\ lapses \subseteq lapses' /\ r.op = "draw" /\ form.kind \in {"LOTTERY", "WHEEL"}
    BY <1>0, <1>6 DEF Panel!Stops, KindRequests
  <2>2. Orderly
    BY <2>1 DEF Orderly, Cleanly
  <2>3. CASE r.to # shown.round
    <3>1. Passed(r)
      BY <1>6, <2>1, <2>3 DEF Panel!Stops, Passed, Panel!Unrefreshed
    <3> QED BY <1>0, <2>2, <3>1
  <2>4. CASE r.to = shown.round
    <3> DEFINE p == [panel EXCEPT !.busy = FALSE, !.kept = r.answer]
    <3>1. p.voting = panel.voting /\ ~p.busy /\ p.kept = r.answer /\ p.phase = panel.phase /\ p \in PanelState
      BY <1>0 DEF PanelState, PanelRequest
    <3>2. Panel!Refreshed(p, requests \ {r})
      BY <1>6, <2>4 DEF Panel!Stops
    <3> HIDE DEF p
    <3>3. Settles(r)
      BY <1>6, <2>1, <3>1, <3>2 DEF Settles
    <3> QED BY <1>0, <2>2, <3>3
  <2> QED BY <2>3, <2>4
<1>7. CASE r.mine /\ Panel!Saved(r)
  <2> DEFINE p == [panel EXCEPT !.kept = r.answer, !.phase = "done", !.busy = FALSE]
  <2>1. p.voting = panel.voting /\ ~p.busy /\ p.kept = r.answer /\ p.phase = "done" /\ p \in PanelState
    BY <1>0 DEF PanelState, PanelRequest
  <2>2. Panel!Refreshed(p, requests \ {r}) /\ r.stage = "ok" /\ r.op = "save" /\ lapses' = lapses
    BY <1>7 DEF Panel!Saved
  <2>3. form.kind = "RANK"
    BY <1>0, <2>2 DEF KindRequests
  <2> HIDE DEF p
  <2>4. Settles(r)
    BY <1>7, <2>1, <2>2, <2>3 DEF Settles
  <2> QED BY <1>0, <2>2, <2>4 DEF Orderly, Cleanly
<1>8. CASE Panel!Unseen(r)
  <2>1. lapses \subseteq lapses'
    BY <1>8 DEF Panel!Unseen
  <2>2. Orderly
    BY <2>1 DEF Orderly, Cleanly
  <2>3. r.stage \in {"ok", "turning"} /\ ~r.mine
    BY <1>0, <1>8, <1>a DEF Panel!Unseen, PanelRequest
  <2>4. Passed(r)
    BY <1>8, <2>3 DEF Passed, Panel!Unseen, Panel!Unrefreshed
  <2> QED BY <1>0, <2>2, <2>4
<1> QED BY <1>1, <1>2, <1>3, <1>4, <1>5, <1>6, <1>7, <1>8 DEF Panel!Receive

\* A fetch is answered: a panel is mounted, or its topic is replaced.
Replaced(f) ==
    /\ f.got \in PanelView /\ f.got # NoTopic /\ UNCHANGED <<server, meant>> /\ fetches' = fetches \ {f} /\ shown' = f.got /\ requests' = requests
    /\ IF f.by = "load"
       THEN /\ page' = "ready"
            /\ panel' = IF form.kind = "FORMAL" THEN [panel EXCEPT !.voting = FALSE] ELSE Panel!Mounted(f.got)
       ELSE /\ page' = page
            /\ page # "ready" => panel' = panel
            /\ page = "ready" =>
                 /\ \/ panel' = Panel!Watched(panel, shown, f.got)
                    \/ f.by = "card" /\ form.kind = "TAP"
                 /\ (form.kind = "SCRATCH" /\ (f.got.round # shown.round \/ (Panel!Voted /\ f.got.answer = NoTopic))) =>
                      \A x \in requests : ~(x.mine /\ x.op = "draw")

\* A fetch without a sign of loading, a reload for a neighbour, a fetch that reads.
Ticks ==
    /\ form.place # "card" /\ UNCHANGED <<server, meant, shown, page, panel, requests>>
    /\ \E x \in fetches' : fetches' = fetches \cup {x} /\ x.by = "tick" /\ x.got = NoTopic

Reloads == form.place = "sub" /\ page = "ready" /\ Panel!Refreshed(panel, requests) /\ UNCHANGED <<server, meant, shown>>

Reads(f, x) ==
    /\ UNCHANGED <<server, meant, shown, page, panel, requests>>
    /\ fetches' = (fetches \ {f}) \cup {x} /\ x.by = f.by /\ x.got = Panel!View(server) /\ f.got = NoTopic

\* What the page or card does, if nothing is excused.
LEMMA Paged ==
  ASSUME PanelType, Orderly => Unfailing, PanelPage, Orderly'
  PROVE  /\ Orderly /\ form' = form
         /\ \/ Ticks \/ Reloads
            \/ \E f \in fetches, x \in fetches' : Reads(f, x)
            \/ \E f \in fetches : Replaced(f)
<1>0. UNCHANGED <<form, server, meant>>
  BY DEF PanelPage, Panel!Tick, Panel!Neighbour, Panel!Reload, Panel!Read, Panel!Return, Panel!Miss, Panel!Idle
<1>a. ~("missed" \in lapses') /\ ~("forgotten" \in lapses')
  BY DEF Orderly, Cleanly
<1>b. lapses \subseteq lapses'
  BY DEF PanelPage, Panel!Tick, Panel!Neighbour, Panel!Reload, Panel!Read, Panel!Return, Panel!Miss
<1>c. Orderly
  BY <1>b DEF Orderly, Cleanly
<1>1. CASE Panel!Tick
  <2>1. fetches' = fetches \cup {Panel!Fetch("tick")} /\ form.place # "card" /\ UNCHANGED <<shown, page, panel, requests>>
    BY <1>1 DEF Panel!Tick
  <2>2. Panel!Fetch("tick").by = "tick" /\ Panel!Fetch("tick").got = NoTopic
    BY DEF Panel!Fetch
  <2> QED BY <1>0, <1>c, <2>1, <2>2 DEF Ticks
<1>2. CASE Panel!Neighbour
  BY <1>0, <1>2, <1>c DEF Panel!Neighbour, Panel!IsSub, Reloads
<1>3. CASE Panel!Reload
  BY <1>3, <1>c DEF Panel!Reload, Unfailing
<1>4. ASSUME NEW f \in fetches, Panel!Read(f) PROVE \E x \in fetches' : Reads(f, x)
  <2> DEFINE x == [f EXCEPT !.got = Panel!View(server)]
  <2>1. x.by = f.by /\ x.got = Panel!View(server)
    BY DEF PanelType, PanelFetch
  <2>2. fetches' = (fetches \ {f}) \cup {x} /\ x \in fetches' /\ f.got = NoTopic /\ UNCHANGED <<shown, page, panel, requests>>
    BY <1>4 DEF Panel!Read
  <2> HIDE DEF x
  <2> QED BY <1>0, <2>1, <2>2 DEF Reads
<1>5. ASSUME NEW f \in fetches, Panel!Return(f) PROVE Replaced(f)
  <2> DEFINE watched == Panel!Watched(panel, shown, f.got)
             open == [watched EXCEPT !.voting = @ /\ Panel!PanelKind # "TAP"]
             reset == Panel!PanelKind = "SCRATCH" /\ (f.got.round # shown.round \/ (Panel!Voted /\ f.got.answer = NoTopic))
  <2>1. f.got \in PanelView /\ f.got # NoTopic
    BY <1>5 DEF PanelType, Panel!Return, PanelFetch
  <2>2. watched \in PanelState
    BY <2>1, WatchedType DEF PanelType
  <2>3. form.kind # "TAP" => open = watched
    BY <2>2 DEF Panel!PanelKind, PanelState
  <2>4. CASE f.by = "load"
    BY <1>0, <1>5, <2>1, <2>4 DEF Panel!Return, Replaced, Panel!PanelKind
  <2>5. CASE f.by # "load"
    <3>1. /\ panel' = IF page # "ready" THEN panel ELSE IF f.by = "card" THEN open ELSE watched
          /\ requests' = IF reset THEN Panel!Forgotten(requests) ELSE requests
          /\ lapses' = lapses \cup IF reset THEN Panel!ForgetsIn(requests) ELSE {}
          /\ fetches' = fetches \ {f} /\ shown' = f.got /\ page' = page
      BY <1>5, <2>5 DEF Panel!Return
    <3>2. reset => \A x \in requests : ~(x.mine /\ x.op = "draw")
      BY <1>a, <3>1 DEF Panel!ForgetsIn
    <3>3. requests' = requests
      <4>1. CASE reset
        <5>1. Panel!ForgetsIn(requests) \cap {"forgotten"} = {}
          BY <3>2, <4>1 DEF Panel!ForgetsIn
        <5> QED BY <3>1, <4>1, <5>1, NothingForgotten DEF PanelType
      <4> QED BY <3>1, <4>1
    <3> HIDE DEF watched, open
    <3> QED BY <1>0, <2>1, <2>3, <2>5, <3>1, <3>2, <3>3 DEF Replaced, Panel!PanelKind, watched
  <2> QED BY <2>4, <2>5
<1>6. ASSUME NEW f \in fetches, Panel!Miss(f) PROVE FALSE
  BY <1>6, <1>a DEF Panel!Miss
<1> QED BY <1>0, <1>1, <1>2, <1>3, <1>4, <1>5, <1>6, <1>c DEF PanelPage

\* A request of the user, with the answer it asks for and the one that is meant.
Asks(op, a, m) ==
    /\ page = "ready" /\ UNCHANGED <<page, fetches>>
    /\ meant' = [meant EXCEPT ![shown.round] = m]
    /\ \E x \in requests' :
         /\ requests' = requests \cup {x}
         /\ x.op = op /\ x.to = shown.round /\ x.answer = a /\ x.stage = "sent" /\ x.mine

\* What the user does: a vote; ...
Votes(op, a) ==
    /\ Asks(op, a, a)
    /\ ~panel.voting /\ panel'.voting /\ panel'.busy = panel.busy /\ panel'.kept = panel.kept /\ panel'.phase = panel.phase
    /\ form.kind \in {"PICK", "TAP", "FORMAL", "MULTI", "SPECTRUM", "SHORT"}
    /\ op = "patch" => form.kind \in {"PICK", "TAP"}
    /\ form.kind \in {"MULTI", "SPECTRUM", "SHORT"} => ~Panel!Voted /\ a = panel.kept

\* ... a withdrawal; ...
Retracts ==
    /\ Asks("delete", NoTopic, NoTopic)
    /\ ~panel.voting /\ panel'.voting /\ panel'.busy = panel.busy /\ panel'.kept = panel.kept /\ panel'.phase = panel.phase
    /\ ~Once
    /\ form.kind = "MATCHING" \/ ~panel.busy
    /\ form.kind \in {"SCRATCH", "RANK"} => panel.phase = "done"

\* ... a draw; ...
Draws ==
    /\ Asks("draw", NoTopic, Panel!Anything)
    /\ ~panel.busy /\ panel'.busy /\ panel'.voting = panel.voting /\ panel'.kept = NoTopic /\ panel'.phase = panel.phase
    /\ \/ form.kind \in {"LOTTERY", "WHEEL"} /\ ~panel.voting
       \/ form.kind = "SCRATCH" /\ panel.kept = NoTopic /\ panel.phase # "done"

\* ... the last comparison of a ranking; ...
Ranks(a) ==
    /\ Asks("save", a, a)
    /\ form.kind = "RANK" /\ panel.phase = "playing"
    /\ panel'.busy /\ panel'.voting = panel.voting /\ panel'.kept = panel.kept /\ panel'.phase = "over"

\* ... a word or a pair completed; ...
Lands ==
    /\ form.kind \in {"MATCHING", "PUZZLE"} /\ page = "ready"
    /\ UNCHANGED <<page, fetches, meant>> /\ panel'.voting = panel.voting
    /\ \E x \in requests' :
         /\ requests' = requests \cup {x}
         /\ x.op = "post" /\ x.to = shown.round /\ x.stage = "landing" /\ x.mine

\* ... a draft, a new game; ...
Edits ==
    /\ page = "ready" /\ UNCHANGED <<page, fetches, meant, requests>>
    /\ panel'.voting = panel.voting /\ panel'.busy = panel.busy
    /\ \/ form.kind \in {"FORMAL", "MATCHING"}
       \/ /\ form.kind \in {"MULTI", "SPECTRUM", "SHORT"} /\ panel'.phase = panel.phase
          /\ form.kind # "MULTI" => ~Panel!Voted
          /\ "drafted" \in lapses' \/ (requests = {} /\ fetches = {} /\ shown = Panel!View(server) /\ ~Panel!Voted)
       \/ form.kind = "RANK" /\ ~panel.voting /\ ~panel.busy /\ panel'.kept = NoTopic /\ panel'.phase = "playing"

\* ... scratching.
Scratches ==
    /\ form.kind = "SCRATCH" /\ page = "ready" /\ panel.phase = "idle" /\ UNCHANGED meant
    /\ \E p \in PanelState :
         /\ p.voting = panel.voting /\ p.busy = panel.busy /\ p.kept = panel.kept
         /\ IF p.kept = NoTopic THEN p.phase = "scratched" /\ Panel!Unrefreshed(p, requests)
            ELSE p.phase = "done" /\ Panel!Refreshed(p, requests)

\* A request is what the panel asks for.
LEMMA Asking ==
  ASSUME PanelType, NEW op, NEW a, NEW m, Panel!Ask(op, a, m)
  PROVE  Asks(op, a, m) /\ UNCHANGED <<form, server, shown, lapses>>
<1> DEFINE x == Panel!Request(op, shown.round, a, "sent")
<1>1. x.op = op /\ x.to = shown.round /\ x.answer = a /\ x.stage = "sent" /\ x.mine
  BY DEF Panel!Request
<1>2. requests' = requests \cup {x} /\ x \in requests'
  BY DEF Panel!Ask
<1> HIDE DEF x
<1> QED BY <1>1, <1>2 DEF Asks, Panel!Ask, Panel!Asking, Panel!Untouched

\* What the user does, if nothing is excused.
LEMMA Acted ==
  ASSUME PanelType, PanelUser, Orderly'
  PROVE  /\ Orderly /\ UNCHANGED <<form, server, shown>> /\ lapses \subseteq lapses'
         /\ \/ \E op \in {"post", "patch"}, a \in Panel!Answers : Votes(op, a)
            \/ \E a \in Panel!Answers : Ranks(a)
            \/ Retracts \/ Draws \/ Lands \/ Edits \/ Scratches
<1> USE DEF Panel!PanelKind, Panel!Landing, Panel!Drafting, Panel!Spinning, Panel!IsSub
<1>0. panel \in PanelState /\ shown.round \in 1..2
  BY DEF PanelType, PanelView
<1>a. lapses \subseteq lapses'
  BY DEF PanelUser, Panel!Choose, Panel!Select, Panel!Draft, Panel!Land, Panel!Rank, Panel!Confirm, Panel!Submit, Panel!Withdraw,
         Panel!Spin, Panel!Touch, Panel!Scratch, Panel!Rematch, Panel!Play, Panel!Ask
<1>b. Orderly
  BY <1>a DEF Orderly, Cleanly
<1>c. panel' = [panel EXCEPT !.voting = TRUE] =>
        panel'.voting /\ panel'.busy = panel.busy /\ panel'.kept = panel.kept /\ panel'.phase = panel.phase
  BY <1>0 DEF PanelState
<1>1. ASSUME NEW a \in PanelAnswer, Panel!Choose(a)
      PROVE  UNCHANGED <<form, server, shown>> /\ \E op \in {"post", "patch"}, b \in Panel!Answers : Votes(op, b)
  <2> DEFINE op == IF Panel!Voted THEN "patch" ELSE "post"
  <2>1. Panel!Ask(op, a, a) /\ a \in Panel!Answers /\ op \in {"post", "patch"}
    BY <1>0, <1>1, AnswerKinds DEF Panel!Choose
  <2>2. Votes(op, a)
    BY <1>1, <1>c, <2>1, Asking DEF Panel!Choose, Votes
  <2> QED BY <2>1, <2>2, Asking
<1>2. ASSUME NEW a \in PanelAnswer, Panel!Select(a) PROVE UNCHANGED <<form, server, shown>> /\ Edits
  BY <1>0, <1>2 DEF Panel!Select, Panel!Untouched, Edits, PanelState
<1>3. ASSUME NEW a \in PanelAnswer, Panel!Draft(a) PROVE UNCHANGED <<form, server, shown>> /\ Edits
  <2>1. panel'.voting = panel.voting /\ panel'.busy = panel.busy /\ panel'.phase = panel.phase
    BY <1>0, <1>3 DEF Panel!Draft, PanelState
  <2>2. "drafted" \in lapses' \/ (requests = {} /\ fetches = {} /\ shown = Panel!View(server) /\ ~Panel!Voted)
    BY <1>3 DEF Panel!Draft
  <2> QED BY <1>3, <2>1, <2>2 DEF Panel!Draft, Panel!Untouched, Edits
<1>4. ASSUME NEW a \in PanelAnswer, Panel!Land(a) PROVE UNCHANGED <<form, server, shown>> /\ Lands
  <2> DEFINE x == Panel!Request("post", shown.round, a, "landing")
  <2>1. x.op = "post" /\ x.to = shown.round /\ x.stage = "landing" /\ x.mine
    BY DEF Panel!Request
  <2>2. requests' = requests \cup {x} /\ x \in requests'
    BY <1>4 DEF Panel!Land
  <2> HIDE DEF x
  <2>3. panel'.voting = panel.voting
    BY <1>0, <1>4 DEF Panel!Land, PanelState
  <2> QED BY <1>4, <2>1, <2>2, <2>3 DEF Panel!Land, Panel!Untouched, Panel!Asking, Lands
<1>5. ASSUME NEW a \in PanelAnswer, Panel!Rank(a) PROVE UNCHANGED <<form, server, shown>> /\ \E b \in Panel!Answers : Ranks(b)
  <2>1. Panel!Ask("save", a, a) /\ a \in Panel!Answers
    BY <1>0, <1>5, AnswerKinds DEF Panel!Rank
  <2>2. panel'.busy /\ panel'.voting = panel.voting /\ panel'.kept = panel.kept /\ panel'.phase = "over"
    BY <1>0, <1>5 DEF Panel!Rank, PanelState
  <2>3. Ranks(a)
    BY <1>5, <2>1, <2>2, Asking DEF Panel!Rank, Ranks
  <2> QED BY <2>1, <2>3, Asking
<1>6. CASE Panel!Confirm \/ Panel!Submit
  <2>1. Panel!Ask("post", panel.kept, panel.kept) /\ panel.kept \in Panel!Answers
    BY <1>0, <1>6 DEF Panel!Confirm, Panel!Submit, PanelState, PanelAnswer
  <2>2. Votes("post", panel.kept)
    BY <1>6, <1>c, <2>1, Asking DEF Panel!Confirm, Panel!Submit, Votes
  <2> QED BY <1>a, <1>b, <2>1, <2>2, Asking
<1>7. CASE Panel!Withdraw
  <2>1. Panel!Ask("delete", NoTopic, NoTopic)
    BY <1>7 DEF Panel!Withdraw
  <2>2. Retracts
    BY <1>7, <1>c, <2>1, Asking DEF Panel!Withdraw, Retracts, Once
  <2> QED BY <1>a, <1>b, <2>1, <2>2, Asking
<1>8. CASE Panel!Spin \/ Panel!Touch
  <2>1. Panel!Ask("draw", NoTopic, Panel!Anything)
    BY <1>8 DEF Panel!Spin, Panel!Touch
  <2>2. panel'.busy /\ panel'.voting = panel.voting /\ panel'.kept = NoTopic /\ panel'.phase = panel.phase
    BY <1>0, <1>8 DEF Panel!Spin, Panel!Touch, PanelState
  <2>3. Draws
    BY <1>8, <2>1, <2>2, Asking DEF Panel!Spin, Panel!MayDraw, Panel!Touch, Draws
  <2> QED BY <1>a, <1>b, <2>1, <2>3, Asking
<1>9. CASE Panel!Scratch
  <2> DEFINE on == [panel EXCEPT !.phase = "scratched"]
             full == [panel EXCEPT !.phase = "done"]
  <2>1. /\ on.voting = panel.voting /\ on.busy = panel.busy /\ on.kept = panel.kept /\ on.phase = "scratched" /\ on \in PanelState
        /\ full.voting = panel.voting /\ full.busy = panel.busy /\ full.kept = panel.kept /\ full.phase = "done" /\ full \in PanelState
    BY <1>0 DEF PanelState
  <2>2. /\ form.kind = "SCRATCH" /\ page = "ready" /\ panel.phase = "idle" /\ UNCHANGED <<meant, form, server, shown>>
        /\ IF panel.kept = NoTopic THEN Panel!Unrefreshed(on, requests) ELSE Panel!Refreshed(full, requests)
    BY <1>9 DEF Panel!Scratch
  <2> HIDE DEF on, full
  <2>3. Scratches
    BY <2>1, <2>2 DEF Scratches
  <2> QED BY <1>a, <1>b, <2>2, <2>3
<1>10. CASE Panel!Rematch
  <2>1. panel'.voting = panel.voting /\ panel'.busy = panel.busy
    BY <1>0, <1>10 DEF Panel!Rematch, PanelState
  <2>2. Edits
    BY <1>10, <2>1 DEF Panel!Rematch, Panel!Untouched, Edits
  <2> QED BY <1>a, <1>b, <1>10, <2>2 DEF Panel!Rematch, Panel!Untouched
<1>11. CASE Panel!Play
  <2>1. panel'.voting = panel.voting /\ panel'.busy = panel.busy /\ panel'.kept = NoTopic /\ panel'.phase = "playing"
    BY <1>0, <1>11 DEF Panel!Play, PanelState
  <2>2. ~panel.voting
    BY <1>11 DEF Panel!Play, Orderly, Cleanly
  <2>3. Edits
    BY <1>11, <2>1, <2>2 DEF Panel!Play, Panel!Untouched, Edits
  <2> QED BY <1>a, <1>b, <1>11, <2>3 DEF Panel!Play, Panel!Untouched
<1> QED
  BY <1>1, <1>2, <1>3, <1>4, <1>5, <1>6, <1>7, <1>8, <1>9, <1>10, <1>11, <1>a, <1>b DEF PanelUser, PanelAnswer

\* The next round is opened.
Opens ==
    /\ form.place = "sub" /\ server.round = 1
    /\ server'.round = 2 /\ server'.answers = server.answers
    /\ UNCHANGED <<shown, page, panel, requests, fetches, meant>>

\* What an answer of a request does.
Receives(r) == Retried(r) \/ Passed(r) \/ Stored(r) \/ Undone(r) \/ Turns(r) \/ Reveals(r) \/ Settles(r)

\* What the user does.
Acts ==
    \/ \E op \in {"post", "patch"}, a \in Panel!Answers : Votes(op, a)
    \/ \E a \in Panel!Answers : Ranks(a)
    \/ Retracts \/ Draws \/ Lands \/ Edits \/ Scratches

\* What can happen, if nothing is excused.
Steps ==
    \/ Acts /\ UNCHANGED <<server, shown>>
    \/ \E r \in requests, x \in requests' : Handles(r, x) \/ Submits(r, x)
    \/ \E r \in requests : Drops(r)
    \/ Opens
    \/ (\E r \in requests : Receives(r)) /\ UNCHANGED <<server, shown, meant>>
    \/ Ticks \/ Reloads
    \/ \E f \in fetches, x \in fetches' : Reads(f, x)
    \/ \E f \in fetches : Replaced(f)

\* Nothing else does.
LEMMA OrderlySteps ==
  ASSUME PanelType, Orderly => Unfailing, Panel!Next, Orderly'
  PROVE  /\ Orderly /\ form' = form /\ lapses \subseteq lapses'
         /\ Steps
<1>0. lapses \subseteq lapses'
  <2>1. PanelUser => lapses \subseteq lapses'
    BY DEF PanelUser, Panel!Choose, Panel!Select, Panel!Draft, Panel!Land, Panel!Rank, Panel!Confirm, Panel!Submit, Panel!Withdraw,
           Panel!Spin, Panel!Touch, Panel!Scratch, Panel!Rematch, Panel!Play, Panel!Ask
  <2>2. PanelService => lapses \subseteq lapses'
    BY DEF PanelService, Panel!LandingEnds, Panel!Handle, Panel!Lose, Panel!OtherTab, Panel!OpenRound
  <2>3. ASSUME NEW r \in requests, Panel!Receive(r) PROVE lapses \subseteq lapses'
    BY <2>3 DEF Panel!Receive, Panel!Retry, Panel!Complain, Panel!Accept, Panel!Withdrawn, Panel!Drawn, Panel!Stops, Panel!Saved, Panel!Unseen
  <2>4. PanelPage => lapses \subseteq lapses'
    BY DEF PanelPage, Panel!Tick, Panel!Neighbour, Panel!Reload, Panel!Read, Panel!Return, Panel!Miss
  <2> QED BY <2>1, <2>2, <2>3, <2>4, PanelSteps
<1>1. Orderly
  BY <1>0 DEF Orderly, Cleanly
<1>2. CASE PanelUser
  BY <1>0, <1>2, Acted DEF Acts, Steps
<1>3. CASE PanelService
  <2>1. ASSUME NEW r \in requests, Panel!LandingEnds(r) PROVE form' = form /\ (Drops(r) \/ \E x \in requests' : Submits(r, x))
    BY <2>1, Landed
  <2>2. ASSUME NEW r \in requests, Panel!Handle(r) PROVE form' = form /\ \E x \in requests' : Handles(r, x)
    BY <2>2, Handled
  <2>3. ASSUME NEW r \in requests, Panel!Lose(r) PROVE FALSE
    BY <2>3 DEF Panel!Lose, Orderly, Cleanly
  <2>4. ASSUME NEW a, Panel!OtherTab(a) PROVE FALSE
    BY <2>4 DEF Panel!OtherTab, Orderly, Cleanly
  <2>5. Panel!OpenRound => form' = form /\ Opens
    BY DEF Panel!OpenRound, Panel!Elsewhere, Panel!IsSub, Opens, PanelType
  <2> QED BY <1>0, <1>1, <1>3, <2>1, <2>2, <2>3, <2>4, <2>5 DEF PanelService, Steps
<1>4. ASSUME NEW r \in requests, Panel!Receive(r) PROVE form' = form /\ Receives(r) /\ UNCHANGED <<server, shown, meant>>
  BY <1>4, Received DEF Receives
<1>5. CASE PanelPage
  BY <1>0, <1>5, Paged DEF Steps
<1> QED BY <1>0, <1>1, <1>2, <1>3, <1>4, <1>5, PanelSteps DEF Steps

\* What a refresh leaves.
Refreshes(p, rs) ==
    /\ panel' = p
    /\ page' = IF form.place = "card" THEN page ELSE "loading"
    /\ form.place = "card" \/ form.kind = "FORMAL" => requests' = rs
    /\ form.place # "card" /\ form.kind # "FORMAL" => \A y \in requests' : ~y.mine
    /\ \A y \in requests' : \E x \in rs : Alike(x, y) /\ (y.mine => x.mine)
                                /\ (x.stage = "landing" => y.op \in {"post", "patch"} /\ y.to \in {x.to, shown.round})
    /\ \A x \in rs : \E y \in requests' : Alike(x, y)
    /\ \E f \in fetches' :
         fetches' = fetches \cup {f} /\ f.got = NoTopic /\ f.by = IF form.place = "card" THEN "card" ELSE "load"

\* A refresh leaves that.
LEMMA RefreshLeaves ==
  ASSUME PanelType, NEW p, NEW rs \in SUBSET requests, Panel!Refreshed(p, rs)
  PROVE  Refreshes(p, rs)
<1>1. rs \in SUBSET KindRequests
  BY DEF PanelType
<1>2. \A x \in rs : Alike(x, x) /\ (x.stage = "landing" => x.op \in {"post", "patch"})
  BY <1>1 DEF Alike, KindRequests
<1>3. \A k : Panel!Fetch(k).by = k /\ Panel!Fetch(k).got = NoTopic
  BY DEF Panel!Fetch
<1>4. CASE form.place = "card"
  BY <1>2, <1>3, <1>4 DEF Panel!Refreshed, Refreshes
<1>5. CASE form.place # "card" /\ form.kind = "FORMAL"
  BY <1>2, <1>3, <1>5 DEF Panel!Refreshed, Refreshes, Panel!PanelKind
<1>6. CASE form.place # "card" /\ form.kind # "FORMAL"
  <2>1. requests' = Panel!Disowned(rs) /\ panel' = p /\ page' = "loading" /\ fetches' = fetches \cup {Panel!Fetch("load")}
    BY <1>6 DEF Panel!Refreshed, Panel!PanelKind
  <2> QED BY <1>1, <1>3, <1>6, <2>1, DisownedAlike DEF Refreshes
<1> QED BY <1>4, <1>5, <1>6

\* What a request of this panel is.
Fits(r) ==
    /\ r.op = "patch" => form.kind \in {"PICK", "TAP", "MULTI", "MATCHING", "PUZZLE"}
    /\ r.op = "post" => form.kind \notin {"LOTTERY", "WHEEL", "SCRATCH", "RANK"}
    /\ r.op = "delete" => ~Once /\ r.answer = NoTopic
    /\ r.stage # "failed"
    /\ form.place # "sub" => r.to = 1

\* What a fetch of this panel is.
Fetched(f) == form.place # "sub" /\ f.got # NoTopic => f.got.round = 1

\* No request fails, and only those of a panel that is there are its own; ...
Flowing ==
    /\ page # "error"
    /\ \A r \in requests : Fits(r) /\ (r.mine => page = "ready" \/ form.kind = "FORMAL")
    /\ form.place # "sub" => server.round = 1 /\ shown.round = 1 /\ meant[2] = NoTopic
    /\ \A f \in fetches : Fetched(f)
    /\ meant \in [1..2 -> PanelAnswer \cup {Panel!Anything}]
    /\ server.round = 1 => server.answers[2] = NoTopic

\* That is enough for the steps to be the simple ones.
LEMMA FlowingFlows == Flowing => Unfailing
BY DEF Flowing, Fits, Unfailing

\* A request that is somebody else's still fits.
LEMMA AlikeFits ==
  ASSUME PanelType, Flowing, NEW x \in requests, NEW y, Alike(x, y),
         x.stage = "landing" => y.op \in {"post", "patch"} /\ y.to \in {x.to, shown.round}
  PROVE  Fits(y)
BY DEF Alike, Fits, Flowing, PanelType, KindRequests

\* A refresh leaves only what fits.
LEMMA FlowingRefreshed ==
  ASSUME PanelType, Flowing, form' = form, NEW p, NEW rs \in SUBSET requests, Refreshes(p, rs)
  PROVE  /\ page' # "error"
         /\ \A r \in requests' : Fits(r)' /\ (r.mine => page' = "ready" \/ form.kind = "FORMAL")
         /\ \A f \in fetches' : Fetched(f)'
<1>1. \A r \in requests' : Fits(r)' = Fits(r)
  BY DEF Fits, Once
<1>2. \A f \in fetches' : Fetched(f)' = Fetched(f)
  BY DEF Fetched
<1>3. ASSUME NEW y \in requests' PROVE Fits(y) /\ (y.mine => page' = "ready" \/ form.kind = "FORMAL")
  <2>1. PICK x \in rs : Alike(x, y) /\ (y.mine => x.mine)
                                /\ (x.stage = "landing" => y.op \in {"post", "patch"} /\ y.to \in {x.to, shown.round})
    BY DEF Refreshes
  <2>2. Fits(y)
    BY <2>1, AlikeFits
  <2> QED BY <2>1, <2>2 DEF Refreshes, Flowing
<1>4. page' # "error" /\ \A f \in fetches' : Fetched(f)
  BY DEF Refreshes, Flowing, Fetched
<1> QED BY <1>1, <1>2, <1>3, <1>4

\* What a step does to them, one by one.
LEMMA FlowingSteps ==
  ASSUME PanelType, PanelType', Orderly => Flowing, Panel!Next, Orderly'
  PROVE  Flowing'
<1>0. Orderly /\ form' = form /\ Flowing
  BY OrderlySteps, FlowingFlows
<1> USE <1>0
<1>a. \A r : Fits(r)' = Fits(r)
  BY DEF Fits, Once
<1>b. \A f : Fetched(f)' = Fetched(f)
  BY DEF Fetched
<1>c. shown.round \in 1..2 /\ Panel!Anything \in PanelAnswer \cup {Panel!Anything} /\ \A a \in Panel!Answers \cup {NoTopic} : a \in PanelAnswer \cup {Panel!Anything}
  BY DEF PanelType, PanelView, PanelAnswer
<1>d. ASSUME NEW op, NEW a, NEW m \in PanelAnswer \cup {Panel!Anything}, Asks(op, a, m), UNCHANGED <<server, shown>>,
             op = "patch" => form.kind \in {"PICK", "TAP"},
             op = "post" => form.kind \notin {"LOTTERY", "WHEEL", "SCRATCH", "RANK"},
             op = "delete" => ~Once /\ a = NoTopic
      PROVE  Flowing'
  BY <1>a, <1>b, <1>c, <1>d DEF Asks, Flowing, Fits
<1>1. CASE Acts /\ UNCHANGED <<server, shown>>
  <2>1. ASSUME NEW op \in {"post", "patch"}, NEW a \in Panel!Answers, Votes(op, a) PROVE Flowing'
    BY <1>1, <2>1, <1>c, <1>d DEF Votes
  <2>2. ASSUME NEW a \in Panel!Answers, Ranks(a) PROVE Flowing'
    BY <1>1, <2>2, <1>c, <1>d DEF Ranks
  <2>3. CASE Retracts
    BY <1>1, <2>3, <1>c, <1>d DEF Retracts
  <2>4. CASE Draws
    BY <1>1, <2>4, <1>c, <1>d DEF Draws
  <2>5. CASE Lands
    BY <1>1, <2>5, <1>a, <1>b DEF Lands, Flowing, Fits
  <2>6. CASE Edits
    BY <1>1, <2>6, <1>a, <1>b DEF Edits, Flowing
  <2>7. CASE Scratches
    <3>1. PICK p \in PanelState : Panel!Unrefreshed(p, requests) \/ Panel!Refreshed(p, requests)
      BY <2>7 DEF Scratches
    <3>2. CASE Panel!Unrefreshed(p, requests)
      BY <1>1, <2>7, <3>2, <1>a, <1>b DEF Panel!Unrefreshed, Scratches, Flowing
    <3>3. CASE Panel!Refreshed(p, requests)
      BY <1>1, <2>7, <3>3, RefreshLeaves, FlowingRefreshed DEF Scratches, Flowing
    <3> QED BY <3>1, <3>2, <3>3
  <2> QED BY <1>1, <2>1, <2>2, <2>3, <2>4, <2>5, <2>6, <2>7 DEF Acts
<1>2. ASSUME NEW r \in requests, NEW x \in requests', Handles(r, x) PROVE Flowing'
  <2>1. Fits(x)
    BY <1>2 DEF Handles, Flowing, Fits
  <2>2. server'.round = 1 => server'.answers[2] = NoTopic
    BY <1>2 DEF Handles, Flowing
  <2> QED BY <1>2, <1>a, <1>b, <2>1, <2>2 DEF Handles, Flowing
<1>3. ASSUME NEW r \in requests, NEW x \in requests', Submits(r, x) PROVE Flowing'
  <2>1. Fits(x)
    BY <1>3 DEF Submits, Flowing, Fits
  <2>2. r.answer \in PanelAnswer
    BY DEF PanelType, KindRequests, PanelRequest
  <2>3. meant' \in [1..2 -> PanelAnswer \cup {Panel!Anything}]
    BY <1>3, <1>c, <2>2 DEF Submits, Flowing
  <2> QED BY <1>3, <1>a, <1>b, <2>1, <2>3 DEF Submits, Flowing
<1>4. ASSUME NEW r \in requests, Drops(r) PROVE Flowing'
  BY <1>4, <1>a, <1>b DEF Drops, Flowing
<1>5. CASE Opens
  BY <1>5, <1>a, <1>b DEF Opens, Flowing
<1>6. ASSUME NEW r \in requests, Receives(r), UNCHANGED <<server, shown, meant>> PROVE Flowing'
  <2>0. requests \ {r} \in SUBSET requests
    OBVIOUS
  <2>a. ASSUME NEW p, Panel!Refreshed(p, requests \ {r}) PROVE Flowing'
    BY <1>6, <2>0, <2>a, RefreshLeaves, FlowingRefreshed DEF Flowing
  <2>1. CASE Retried(r)
    <3>1. PICK x \in requests' :
         /\ requests' = (requests \ {r}) \cup {x}
         /\ x.op = "patch" /\ x.stage = "sent" /\ x.answer = r.answer /\ x.mine = r.mine
         /\ x.to = IF form.kind = "MULTI" \/ ~r.mine THEN r.to ELSE shown.round
      BY <2>1 DEF Retried
    <3>2. form.kind \in {"PICK", "TAP", "MULTI", "MATCHING", "PUZZLE"} /\ UNCHANGED <<panel, page, fetches>>
      BY <2>1 DEF Retried, Panel!Retries, Panel!Landing, Panel!PanelKind
    <3>3. Fits(x)
      BY <3>1, <3>2 DEF Fits, Flowing
    <3> QED BY <1>6, <1>a, <1>b, <3>1, <3>2, <3>3 DEF Flowing
  <2>2. CASE Passed(r)
    BY <1>6, <2>2, <1>a, <1>b DEF Passed, Flowing
  <2>3. CASE Stored(r) \/ Undone(r) \/ Settles(r)
    BY <2>3, <2>a DEF Stored, Undone, Settles
  <2>4. CASE Turns(r)
    <3>1. PICK x \in requests' : requests' = (requests \ {r}) \cup {x} /\ x.op = "draw" /\ x.stage = "turning" /\ x.answer = r.answer /\ x.mine /\ x.to = r.to
      BY <2>4 DEF Turns
    <3>2. Fits(x)
      BY <3>1 DEF Fits, Flowing
    <3> QED BY <1>6, <1>a, <1>b, <2>4, <3>1, <3>2 DEF Turns, Flowing
  <2>5. CASE Reveals(r)
    <3>1. PICK p \in PanelState : Panel!Unrefreshed(p, requests \ {r}) \/ Panel!Refreshed(p, requests \ {r})
      BY <2>5 DEF Reveals
    <3>2. CASE Panel!Unrefreshed(p, requests \ {r})
      BY <1>6, <3>2, <1>a, <1>b DEF Panel!Unrefreshed, Flowing
    <3> QED BY <3>1, <3>2, <2>a
  <2> QED BY <1>6, <2>1, <2>2, <2>3, <2>4, <2>5 DEF Receives
<1>7. CASE Ticks
  BY <1>7, <1>a, <1>b DEF Ticks, Flowing, Fetched
<1>8. CASE Reloads
  BY <1>8, RefreshLeaves, FlowingRefreshed DEF Reloads, Flowing
<1>9. ASSUME NEW f \in fetches, NEW x \in fetches', Reads(f, x) PROVE Flowing'
  <2>1. Fetched(x)
    BY <1>9 DEF Reads, Fetched, Flowing, Panel!View
  <2> QED BY <1>9, <1>a, <1>b, <2>1 DEF Reads, Flowing
<1>10. ASSUME NEW f \in fetches, Replaced(f) PROVE Flowing'
  <2>1. form.place # "sub" => f.got.round = 1
    BY <1>10, AnswerKinds DEF Replaced, Flowing, Fetched, PanelView, PanelType, PanelFetch
  <2> QED BY <1>10, <1>a, <1>b, <2>1 DEF Replaced, Flowing
<1> QED BY <1>1, <1>2, <1>3, <1>4, <1>5, <1>6, <1>7, <1>8, <1>9, <1>10, OrderlySteps, FlowingFlows DEF Steps

\* The requests that are sent, or refused as a second vote, are as they were.
SentAlike ==
    /\ \A x \in requests : x.stage \in {"sent", "conflict"} => \E y \in requests' : Alike(x, y)
    /\ \A y \in requests' : y.stage \in {"sent", "conflict"} => \E x \in requests : Alike(x, y)

\* The user asks for something.
Requested ==
    \/ \E op \in {"post", "patch"}, a \in Panel!Answers : Votes(op, a)
    \/ \E a \in Panel!Answers : Ranks(a)
    \/ Retracts \/ Draws

\* Every other step leaves what is meant, what is stored and what is sent.
LEMMA Quiet ==
  ASSUME PanelType, Steps
  PROVE  \/ Requested /\ UNCHANGED <<server, shown>>
         \/ \E r \in requests, x \in requests' : Handles(r, x) \/ Submits(r, x)
         \/ (\E r \in requests : Retried(r)) /\ UNCHANGED <<server, shown, meant>>
         \/ SentAlike /\ server'.answers = server.answers /\ meant' = meant
<1>a. \A x : Alike(x, x)
  BY DEF Alike
<1>b. ASSUME NEW rs \in SUBSET requests, NEW p, Panel!Refreshed(p, rs),
             \A x \in requests \ rs : x.stage \notin {"sent", "conflict"}
      PROVE  SentAlike
  <2>1. /\ \A y \in requests' : \E x \in rs : Alike(x, y)
        /\ \A x \in rs : \E y \in requests' : Alike(x, y)
    BY <1>b, RefreshLeaves DEF Refreshes
  <2> QED BY <1>b, <2>1 DEF SentAlike
<1>c. ASSUME requests' = requests PROVE SentAlike
  BY <1>a, <1>c DEF SentAlike
<1>d. ASSUME NEW r \in requests, r.stage \in {"ok", "turning", "landing"}, requests' = requests \ {r} PROVE SentAlike
  BY <1>a, <1>d DEF SentAlike
<1>1. CASE Acts /\ UNCHANGED <<server, shown>>
  <2>1. CASE Lands
    BY <1>1, <2>1, <1>a DEF Lands, SentAlike
  <2>2. CASE Edits
    BY <1>1, <2>2, <1>c DEF Edits
  <2>3. CASE Scratches
    <3>1. PICK p \in PanelState : Panel!Unrefreshed(p, requests) \/ Panel!Refreshed(p, requests)
      BY <2>3 DEF Scratches
    <3>2. Panel!Unrefreshed(p, requests) => requests' = requests
      BY DEF Panel!Unrefreshed
    <3>3. requests \in SUBSET requests /\ \A x \in requests \ requests : x.stage \notin {"sent", "conflict"}
      OBVIOUS
    <3>4. SentAlike
      BY <3>1, <3>2, <3>3, <1>b, <1>c
    <3> QED BY <1>1, <2>3, <3>4 DEF Scratches
  <2> QED BY <1>1, <2>1, <2>2, <2>3 DEF Acts, Requested
<1>2. ASSUME NEW r \in requests, Drops(r) PROVE SentAlike /\ UNCHANGED <<server, meant>>
  BY <1>2, <1>d DEF Drops
<1>3. CASE Opens
  BY <1>3, <1>c DEF Opens
<1>4. ASSUME NEW r \in requests, Receives(r), ~Retried(r) PROVE SentAlike
  <2>0. requests \ {r} \in SUBSET requests /\ \A x \in requests \ (requests \ {r}) : x = r
    OBVIOUS
  <2>1. CASE Passed(r)
    BY <2>1, <1>d DEF Passed
  <2>2. CASE Turns(r)
    BY <2>2, <1>a DEF Turns, SentAlike
  <2>3. CASE Stored(r) \/ Undone(r) \/ Settles(r) \/ Reveals(r)
    <3>1. r.stage \in {"ok", "turning"} /\ \E p \in PanelState : Panel!Refreshed(p, requests \ {r}) \/ Panel!Unrefreshed(p, requests \ {r})
      BY <2>3 DEF Stored, Undone, Settles, Reveals
    <3>2. PICK p \in PanelState : Panel!Refreshed(p, requests \ {r}) \/ Panel!Unrefreshed(p, requests \ {r})
      BY <3>1
    <3>3. Panel!Unrefreshed(p, requests \ {r}) => requests' = requests \ {r}
      BY DEF Panel!Unrefreshed
    <3> QED BY <2>0, <3>1, <3>2, <3>3, <1>b, <1>d
  <2> QED BY <1>4, <2>1, <2>2, <2>3 DEF Receives
<1>5. CASE Ticks
  BY <1>5, <1>c DEF Ticks
<1>6. CASE Reloads
  BY <1>6, <1>b DEF Reloads
<1>7. ASSUME NEW f \in fetches, NEW x \in fetches', Reads(f, x) PROVE SentAlike /\ UNCHANGED <<server, meant>>
  BY <1>7, <1>c DEF Reads
<1>8. ASSUME NEW f \in fetches, Replaced(f) PROVE SentAlike /\ UNCHANGED <<server, meant>>
  BY <1>8, <1>c DEF Replaced
<1> QED BY <1>1, <1>2, <1>3, <1>4, <1>5, <1>6, <1>7, <1>8 DEF Steps

\* A request that brings what is meant, one that the service will refuse.
Bringing(r, n) == r.stage \in {"sent", "conflict"} /\ r.to = n /\ r.op \in {"post", "save"} /\ r.answer = meant[n]
Doomed(r) == r.stage = "sent" /\ r.op = "patch"

\* Where an answer is final, what is meant is stored or on its way.
FinalMeant == Once => \A n \in 1..2 :
    /\ \A r \in requests : r.stage = "sent" /\ r.to = n /\ r.op # "patch" => meant[n] # NoTopic
    /\ meant[n] \in {Panel!Anything, server.answers[n]} \/ \E r \in requests : Bringing(r, n) \/ Doomed(r)

\* What a draw asks for is no answer, and not none.
LEMMA AnythingElse == Panel!Anything # NoTopic /\ \A a \in Panel!Answers : a # NoTopic /\ a # Panel!Anything
BY PanelAssumption, AnswerKinds DEF Panel!Anything

\* Every step keeps that.
LEMMA FinalMeantSteps ==
  ASSUME PanelType, Flowing, FinalMeant, form' = form, Steps
  PROVE  FinalMeant'
<1> SUFFICES ASSUME Once, NEW n \in 1..2
    PROVE  /\ \A r \in requests' : r.stage = "sent" /\ r.to = n /\ r.op # "patch" => meant'[n] # NoTopic
           /\ meant'[n] \in {Panel!Anything, server'.answers[n]} \/ \E r \in requests' : Bringing(r, n)' \/ Doomed(r)'
  BY DEF FinalMeant, Once
<1>0. /\ \A r \in requests : r.stage = "sent" /\ r.to = n /\ r.op # "patch" => meant[n] # NoTopic
      /\ meant[n] \in {Panel!Anything, server.answers[n]} \/ \E r \in requests : Bringing(r, n) \/ Doomed(r)
  BY DEF FinalMeant
<1>a. shown.round \in 1..2 /\ meant \in [1..2 -> PanelAnswer \cup {Panel!Anything}]
  BY DEF PanelType, PanelView, Flowing
<1>b. ASSUME NEW op \in {"post", "patch", "draw", "save"}, NEW a, NEW m, Asks(op, a, m), UNCHANGED server,
             m # NoTopic, op = "draw" => m = Panel!Anything, op # "draw" => a = m
      PROVE  /\ \A r \in requests' : r.stage = "sent" /\ r.to = n /\ r.op # "patch" => meant'[n] # NoTopic
             /\ meant'[n] \in {Panel!Anything, server'.answers[n]} \/ \E r \in requests' : Bringing(r, n)' \/ Doomed(r)'
  <2>1. PICK x \in requests' : requests' = requests \cup {x} /\ x.op = op /\ x.to = shown.round /\ x.answer = a /\ x.stage = "sent" /\ x.mine
    BY <1>b DEF Asks
  <2>2. meant' = [meant EXCEPT ![shown.round] = m]
    BY <1>b DEF Asks
  <2>3. CASE n = shown.round
    BY <1>a, <1>b, <2>1, <2>2, <2>3 DEF Bringing, Doomed
  <2>4. CASE n # shown.round
    <3>1. meant'[n] = meant[n]
      BY <1>a, <2>2, <2>4
    <3> QED BY <1>0, <1>b, <2>1, <2>4, <3>1 DEF Bringing, Doomed
  <2> QED BY <2>3, <2>4
<1>1. CASE Requested /\ UNCHANGED <<server, shown>>
  <2>1. ASSUME NEW op \in {"post", "patch"}, NEW a \in Panel!Answers, Votes(op, a) PROVE Asks(op, a, a) /\ a # NoTopic
    BY <2>1, AnythingElse DEF Votes
  <2>2. ASSUME NEW a \in Panel!Answers, Ranks(a) PROVE Asks("save", a, a) /\ a # NoTopic
    BY <2>2, AnythingElse DEF Ranks
  <2>3. Draws => Asks("draw", NoTopic, Panel!Anything) /\ Panel!Anything # NoTopic
    BY AnythingElse DEF Draws
  <2>4. ~Retracts
    BY DEF Retracts
  <2>5. CASE \E op \in {"post", "patch"}, a \in Panel!Answers : Votes(op, a)
    <3>1. PICK op \in {"post", "patch"}, a \in Panel!Answers : Votes(op, a)
      BY <2>5
    <3>2. Asks(op, a, a) /\ a # NoTopic /\ op \in {"post", "patch", "draw", "save"} /\ op # "draw"
      BY <2>1, <3>1
    <3> QED BY <1>1, <1>b, <3>2
  <2>6. CASE \E a \in Panel!Answers : Ranks(a)
    BY <1>1, <1>b, <2>2, <2>6
  <2>7. CASE Draws
    BY <1>1, <1>b, <2>3, <2>7
  <2> QED BY <1>1, <2>4, <2>5, <2>6, <2>7 DEF Requested
<1>2. ASSUME NEW r \in requests, NEW x \in requests', Handles(r, x)
      PROVE  /\ \A q \in requests' : q.stage = "sent" /\ q.to = n /\ q.op # "patch" => meant'[n] # NoTopic
             /\ meant'[n] \in {Panel!Anything, server'.answers[n]} \/ \E q \in requests' : Bringing(q, n)' \/ Doomed(q)'
  <2>1. r.op # "patch" /\ r.op # "delete"
    BY <1>2 DEF Handles, Flowing, Fits, Once
  <2>2. meant' = meant /\ requests' = (requests \ {r}) \cup {x} /\ x.stage # "sent" /\ r.stage = "sent"
    BY <1>2 DEF Handles
  <2>3. CASE r.to # n
    BY <1>0, <1>2, <2>2, <2>3, <2>1 DEF Handles, Bringing, Doomed
  <2>4. CASE r.to = n
    <3>1. meant[n] # NoTopic
      BY <1>0, <2>1, <2>2, <2>4
    <3>2. CASE x.stage = "conflict"
      BY <1>0, <1>2, <2>2, <2>4, <2>1, <3>2 DEF Handles, Bringing, Doomed
    <3>3. CASE x.stage = "ok"
      <4>1. server'.answers[n] = x.answer /\ (r.op # "draw" => x.answer = r.answer /\ server.answers[n] = NoTopic)
            /\ server.answers[n] \in {NoTopic, x.answer}
        <5>1. r.op \in {"post", "draw", "save"}
          BY <2>1 DEF PanelType, KindRequests, PanelRequest
        <5>2. r.op = "save" => form.place = "sub"
          BY DEF PanelType, KindRequests, PanelRequest, Once
        <5> QED BY <1>2, <2>1, <2>4, <3>3, <5>1, <5>2 DEF Handles
      <4> QED BY <1>0, <2>1, <2>2, <2>4, <3>1, <4>1 DEF Bringing, Doomed
    <3> QED BY <1>2, <3>2, <3>3 DEF Handles
  <2> QED BY <2>3, <2>4
<1>3. ASSUME NEW r \in requests, NEW x \in requests', Submits(r, x)
      PROVE  /\ \A q \in requests' : q.stage = "sent" /\ q.to = n /\ q.op # "patch" => meant'[n] # NoTopic
             /\ meant'[n] \in {Panel!Anything, server'.answers[n]} \/ \E q \in requests' : Bringing(q, n)' \/ Doomed(q)'
  <2>1. /\ meant' = [meant EXCEPT ![shown.round] = r.answer] /\ r.answer # NoTopic /\ r.stage = "landing"
        /\ requests' = (requests \ {r}) \cup {x} /\ UNCHANGED server
        /\ x.op \in {"post", "patch"} /\ x.to = shown.round /\ x.answer = r.answer /\ x.stage = "sent"
    BY <1>3 DEF Submits
  <2>2. CASE n = shown.round
    BY <1>a, <2>1, <2>2 DEF Bringing, Doomed
  <2>3. CASE n # shown.round
    <3>1. meant'[n] = meant[n]
      BY <1>a, <2>1, <2>3
    <3> QED BY <1>0, <2>1, <2>3, <3>1 DEF Bringing, Doomed
  <2> QED BY <2>2, <2>3
<1>4. ASSUME NEW r \in requests, Retried(r), UNCHANGED <<server, meant>>
      PROVE  /\ \A q \in requests' : q.stage = "sent" /\ q.to = n /\ q.op # "patch" => meant'[n] # NoTopic
             /\ meant'[n] \in {Panel!Anything, server'.answers[n]} \/ \E q \in requests' : Bringing(q, n)' \/ Doomed(q)'
  <2>1. PICK x \in requests' : requests' = (requests \ {r}) \cup {x} /\ x.op = "patch" /\ x.stage = "sent"
    BY <1>4 DEF Retried
  <2> QED BY <1>0, <1>4, <2>1 DEF Doomed
<1>5. CASE SentAlike /\ server'.answers = server.answers /\ meant' = meant
  BY <1>0, <1>5 DEF SentAlike, Alike, Bringing, Doomed
<1> QED BY <1>1, <1>2, <1>3, <1>4, <1>5, Quiet

\* A topic with an answer has the one that is stored.
Truthful(v) == v.answer # NoTopic => v.answer = server.answers[v.round]

\* Where an answer is final, everything that shows one shows the one that is stored.
Truths == Once =>
    /\ Truthful(shown)
    /\ \A f \in fetches : f.got # NoTopic => Truthful(f.got)
    /\ \A r \in requests : r.op = "draw" /\ r.stage = "ok" => r.answer = server.answers[r.to]

\* A final answer stands.
LEMMA AnswersStand ==
  ASSUME PanelType, Flowing, Once, Steps, NEW n \in 1..2, server.answers[n] # NoTopic
  PROVE  server'.answers[n] = server.answers[n]
<1>1. ASSUME NEW r \in requests, NEW x \in requests', Handles(r, x) PROVE server'.answers[n] = server.answers[n]
  <2>1. r.op \in {"post", "draw", "save"}
    BY <1>1 DEF Handles, PanelType, KindRequests, PanelRequest, Flowing, Fits, Once
  <2>2. r.op = "save" => form.place = "sub"
    BY DEF PanelType, KindRequests, PanelRequest, Once
  <2> QED BY <1>1, <2>1, <2>2 DEF Handles
<1>2. ASSUME NEW r \in requests, NEW x \in requests', Submits(r, x) PROVE server'.answers = server.answers
  BY <1>2 DEF Submits
<1> QED BY <1>1, <1>2, Quiet

\* What a refresh leaves has been there.
LEMMA RefreshedAlike ==
  ASSUME PanelType, NEW p, NEW rs \in SUBSET requests, Panel!Refreshed(p, rs)
  PROVE  /\ \A y \in requests' : \E x \in rs : Alike(x, y) /\ (y.mine => x.mine)
         /\ \A f \in fetches' : f \in fetches \/ (f.got = NoTopic /\ f.by = IF form.place = "card" THEN "card" ELSE "load")
         /\ panel' = p /\ page' = IF form.place = "card" THEN page ELSE "loading"
         /\ form.place = "card" => requests' = rs
BY RefreshLeaves DEF Refreshes

\* Every step keeps that.
LEMMA TruthsSteps ==
  ASSUME PanelType, PanelType', Flowing, Truths, form' = form, Steps
  PROVE  Truths'
<1> SUFFICES ASSUME Once
    PROVE  /\ Truthful(shown)'
           /\ \A f \in fetches' : f.got # NoTopic => Truthful(f.got)'
           /\ \A r \in requests' : r.op = "draw" /\ r.stage = "ok" => r.answer = server'.answers[r.to]
  BY DEF Truths, Once
<1>0. /\ Truthful(shown)
      /\ \A f \in fetches : f.got # NoTopic => Truthful(f.got)
      /\ \A r \in requests : r.op = "draw" /\ r.stage = "ok" => r.answer = server.answers[r.to]
  BY DEF Truths
<1>a. ASSUME NEW v \in PanelView, Truthful(v) PROVE Truthful(v)'
  BY <1>a, AnswersStand DEF Truthful, PanelView
<1>b. \A f \in fetches : f.got # NoTopic => f.got \in PanelView /\ Truthful(f.got)'
  BY <1>0, <1>a DEF PanelType, PanelFetch
<1>c. Truthful(shown)'  \/ \E f \in fetches : Replaced(f)
  <2>1. CASE shown' = shown
    <3>1. Truthful(shown)' = (shown.answer # NoTopic => shown.answer = server'.answers[shown.round])
      BY <2>1 DEF Truthful
    <3> QED BY <1>0, <3>1, AnswersStand DEF Truthful, PanelType, PanelView
  <2>2. CASE ~(\E f \in fetches : Replaced(f))
    <3>1. shown' = shown
      BY <2>2 DEF Steps, Handles, Submits, Drops, Opens, Ticks, Reloads, Reads
    <3> QED BY <2>1, <3>1
  <2> QED BY <2>1, <2>2
<1>d. \A r \in requests : r.op = "draw" /\ r.stage = "ok" => r.answer = server'.answers[r.to]
  <2> SUFFICES ASSUME NEW r \in requests, r.op = "draw", r.stage = "ok" PROVE r.answer = server'.answers[r.to]
    OBVIOUS
  <2>1. r.to \in 1..2 /\ r.answer # NoTopic /\ r.answer = server.answers[r.to]
    BY <1>0 DEF PanelType, KindRequests, PanelRequest
  <2> QED BY <2>1, AnswersStand
<1>e. ASSUME NEW rs \in SUBSET requests, NEW p, Panel!Refreshed(p, rs), ~(\E f \in fetches : Replaced(f))
      PROVE  /\ Truthful(shown)'
             /\ \A f \in fetches' : f.got # NoTopic => Truthful(f.got)'
             /\ \A r \in requests' : r.op = "draw" /\ r.stage = "ok" => r.answer = server'.answers[r.to]
  <2>1. /\ \A y \in requests' : \E x \in rs : Alike(x, y)
        /\ \A f \in fetches' : f \in fetches \/ f.got = NoTopic
    BY <1>e, RefreshedAlike
  <2> QED BY <1>b, <1>c, <1>d, <1>e, <2>1 DEF Alike
<1>f. ASSUME \A x \in requests' : x \in requests \/ x.op # "draw" \/ x.stage # "ok", fetches' = fetches, ~(\E f \in fetches : Replaced(f))
      PROVE  /\ Truthful(shown)'
             /\ \A f \in fetches' : f.got # NoTopic => Truthful(f.got)'
             /\ \A r \in requests' : r.op = "draw" /\ r.stage = "ok" => r.answer = server'.answers[r.to]
  BY <1>b, <1>c, <1>d, <1>f
<1>g. CASE \E f \in fetches : Replaced(f)
  <2>1. PICK f \in fetches : Replaced(f)
    BY <1>g
  <2>2. f.got # NoTopic /\ shown' = f.got /\ requests' = requests /\ fetches' = fetches \ {f}
    BY <2>1 DEF Replaced
  <2>3. Truthful(shown)'
    BY <1>0, <2>1, <2>2 DEF Truthful, Replaced
  <2> QED BY <1>b, <1>d, <2>2, <2>3
<1> SUFFICES ASSUME ~(\E f \in fetches : Replaced(f))
    PROVE  /\ Truthful(shown)'
           /\ \A f \in fetches' : f.got # NoTopic => Truthful(f.got)'
           /\ \A r \in requests' : r.op = "draw" /\ r.stage = "ok" => r.answer = server'.answers[r.to]
  BY <1>g
<1>1. CASE Acts
  <2>1. CASE Requested \/ Lands
    <3>1. fetches' = fetches /\ \E x \in requests' : requests' = requests \cup {x} /\ x.stage \in {"sent", "landing"}
      BY <2>1 DEF Requested, Votes, Ranks, Retracts, Draws, Asks, Lands
    <3> QED BY <1>f, <3>1
  <2>2. CASE Edits
    BY <1>f, <2>2 DEF Edits
  <2>3. CASE Scratches
    <3>1. PICK p \in PanelState : Panel!Unrefreshed(p, requests) \/ Panel!Refreshed(p, requests)
      BY <2>3 DEF Scratches
    <3>2. Panel!Unrefreshed(p, requests) => requests' = requests /\ fetches' = fetches
      BY DEF Panel!Unrefreshed
    <3>3. requests \in SUBSET requests
      OBVIOUS
    <3> QED BY <1>e, <1>f, <3>1, <3>2, <3>3
  <2> QED BY <1>1, <2>1, <2>2, <2>3 DEF Acts, Requested
<1>2. ASSUME NEW r \in requests, NEW x \in requests', Handles(r, x)
      PROVE  /\ Truthful(shown)'
             /\ \A f \in fetches' : f.got # NoTopic => Truthful(f.got)'
             /\ \A q \in requests' : q.op = "draw" /\ q.stage = "ok" => q.answer = server'.answers[q.to]
  <2>1. x.op = "draw" /\ x.stage = "ok" => x.answer = server'.answers[x.to]
    BY <1>2 DEF Handles
  <2>2. requests' = (requests \ {r}) \cup {x} /\ fetches' = fetches
    BY <1>2 DEF Handles
  <2> QED BY <1>b, <1>c, <1>d, <2>1, <2>2
<1>3. ASSUME NEW r \in requests, NEW x \in requests', Submits(r, x)
      PROVE  fetches' = fetches /\ \A q \in requests' : q \in requests \/ q.op # "draw" \/ q.stage # "ok"
  BY <1>3 DEF Submits
<1>4. ASSUME NEW r \in requests, Drops(r)
      PROVE  fetches' = fetches /\ \A q \in requests' : q \in requests \/ q.op # "draw" \/ q.stage # "ok"
  BY <1>4 DEF Drops
<1>5. CASE Opens
  BY <1>5, <1>f DEF Opens
<1>6. ASSUME NEW r \in requests, Receives(r)
      PROVE  /\ Truthful(shown)'
             /\ \A f \in fetches' : f.got # NoTopic => Truthful(f.got)'
             /\ \A q \in requests' : q.op = "draw" /\ q.stage = "ok" => q.answer = server'.answers[q.to]
  <2>1. CASE Retried(r) \/ Passed(r) \/ Turns(r)
    <3>1. fetches' = fetches /\ \A q \in requests' : q \in requests \/ q.op # "draw" \/ q.stage # "ok"
      BY <2>1 DEF Retried, Passed, Turns
    <3> QED BY <1>f, <3>1
  <2>2. CASE Stored(r) \/ Undone(r) \/ Settles(r) \/ Reveals(r)
    <3>1. PICK p \in PanelState : Panel!Refreshed(p, requests \ {r}) \/ Panel!Unrefreshed(p, requests \ {r})
      BY <2>2 DEF Stored, Undone, Settles, Reveals
    <3>2. Panel!Unrefreshed(p, requests \ {r}) => requests' = requests \ {r} /\ fetches' = fetches
      BY DEF Panel!Unrefreshed
    <3>3. requests \ {r} \in SUBSET requests
      OBVIOUS
    <3> QED BY <1>e, <1>f, <3>1, <3>2, <3>3
  <2> QED BY <1>6, <2>1, <2>2 DEF Receives
<1>7. CASE Ticks
  <2>1. requests' = requests /\ \A f \in fetches' : f \in fetches \/ f.got = NoTopic
    BY <1>7 DEF Ticks
  <2> QED BY <1>b, <1>c, <1>d, <2>1
<1>8. CASE Reloads
  BY <1>8, <1>e DEF Reloads
<1>9. ASSUME NEW f \in fetches, NEW x \in fetches', Reads(f, x)
      PROVE  /\ Truthful(shown)'
             /\ \A g \in fetches' : g.got # NoTopic => Truthful(g.got)'
             /\ \A q \in requests' : q.op = "draw" /\ q.stage = "ok" => q.answer = server'.answers[q.to]
  <2>1. Truthful(x.got)'
    BY <1>9 DEF Reads, Truthful, Panel!View
  <2>2. fetches' = (fetches \ {f}) \cup {x} /\ requests' = requests
    BY <1>9 DEF Reads
  <2> QED BY <1>b, <1>c, <1>d, <2>1, <2>2
<1> QED BY <1>f, <1>1, <1>2, <1>3, <1>4, <1>5, <1>6, <1>7, <1>8, <1>9 DEF Steps

\* A scratch card and a ranking of a staged topic keep the answer that is stored.
FinalShown ==
    Once /\ form.kind \in {"SCRATCH", "RANK"} /\ page = "ready" =>
      /\ panel.kept # NoTopic => panel.kept = server.answers[shown.round]
      /\ panel.phase = "done" => panel.kept # NoTopic

\* Every step keeps that.
LEMMA FinalShownSteps ==
  ASSUME PanelType, PanelType', Flowing, Truths, FinalShown, form' = form, Steps
  PROVE  FinalShown'
<1> SUFFICES ASSUME Once, form.kind \in {"SCRATCH", "RANK"}, page' = "ready"
    PROVE  /\ panel'.kept # NoTopic => panel'.kept = server'.answers[shown'.round]
           /\ panel'.phase = "done" => panel'.kept # NoTopic
  BY DEF FinalShown, Once
<1>a. form.place = "sub" /\ form.place # "card" /\ form.kind \notin {"TAP", "FORMAL", "LOTTERY", "WHEEL", "PICK", "MULTI", "SPECTRUM", "SHORT", "MATCHING", "PUZZLE"}
  BY DEF Once
<1>b. page = "ready" => (panel.kept # NoTopic => panel.kept = server.answers[shown.round])
                        /\ (panel.phase = "done" => panel.kept # NoTopic)
  BY DEF FinalShown
<1>c. shown.round \in 1..2
  BY DEF PanelType, PanelView
<1>d. ASSUME NEW rs \in SUBSET requests, NEW p, Panel!Refreshed(p, rs) PROVE FALSE
  BY <1>a, <1>d, RefreshedAlike
<1>e. ASSUME page = "ready", panel'.kept \in {panel.kept, NoTopic}, shown' = shown, panel'.phase = "done" => panel.phase = "done" /\ panel'.kept = panel.kept
      PROVE  /\ panel'.kept # NoTopic => panel'.kept = server'.answers[shown'.round]
             /\ panel'.phase = "done" => panel'.kept # NoTopic
  BY <1>b, <1>c, <1>e, AnswersStand
<1>1. CASE Acts /\ UNCHANGED <<server, shown>>
  <2>1. CASE Requested
    <3>1. ~Retracts /\ \A op, a : ~Votes(op, a)
      BY <1>a DEF Retracts, Votes
    <3>2. Draws => page = "ready" /\ panel'.kept = NoTopic /\ panel'.phase = panel.phase /\ panel.phase # "done"
      BY <1>a DEF Draws, Asks
    <3>3. \A a : Ranks(a) => page = "ready" /\ panel'.kept = panel.kept /\ panel'.phase = "over"
      BY DEF Ranks, Asks
    <3> QED BY <1>1, <2>1, <1>e, <3>1, <3>2, <3>3 DEF Requested
  <2>2. CASE Lands
    BY <1>a, <2>2 DEF Lands
  <2>3. CASE Edits
    BY <1>1, <1>a, <1>e, <2>3 DEF Edits
  <2>4. CASE Scratches
    <3>1. PICK p \in PanelState : /\ p.kept = panel.kept
                                  /\ IF p.kept = NoTopic THEN p.phase = "scratched" /\ Panel!Unrefreshed(p, requests)
                                     ELSE Panel!Refreshed(p, requests)
      BY <2>4 DEF Scratches
    <3>2. requests \in SUBSET requests
      OBVIOUS
    <3>3. p.phase = "scratched" /\ panel' = p
      BY <1>d, <3>1, <3>2 DEF Panel!Unrefreshed
    <3>4. page = "ready"
      BY <2>4 DEF Scratches
    <3> QED BY <1>1, <1>e, <3>1, <3>3, <3>4
  <2> QED BY <1>1, <2>1, <2>2, <2>3, <2>4 DEF Acts, Requested
<1>2. ASSUME NEW r \in requests, NEW x \in requests', Handles(r, x) PROVE UNCHANGED <<page, panel, shown>>
  BY <1>2 DEF Handles
<1>3. ASSUME NEW r \in requests, NEW x \in requests', Submits(r, x) PROVE FALSE
  BY <1>3, <1>a DEF Submits
<1>4. ASSUME NEW r \in requests, Drops(r) PROVE FALSE
  BY <1>4, <1>a DEF Drops
<1>5. CASE Opens
  BY <1>5, <1>e DEF Opens
<1>6. ASSUME NEW r \in requests, Receives(r), UNCHANGED <<server, shown, meant>>
      PROVE  /\ panel'.kept # NoTopic => panel'.kept = server'.answers[shown'.round]
             /\ panel'.phase = "done" => panel'.kept # NoTopic
  <2>0. requests \ {r} \in SUBSET requests
    OBVIOUS
  <2>1. CASE Retried(r) \/ Passed(r) \/ Turns(r)
    BY <1>6, <1>e, <2>1 DEF Retried, Passed, Turns
  <2>2. CASE Stored(r) \/ Undone(r) \/ Settles(r)
    BY <2>0, <2>2, <1>d DEF Stored, Undone, Settles
  <2>3. CASE Reveals(r)
    <3>1. PICK p \in PanelState : /\ p.kept = r.answer
                                  /\ Panel!Unrefreshed(p, requests \ {r})
      BY <2>0, <2>3, <1>d DEF Reveals
    <3>2. panel' = p
      BY <3>1 DEF Panel!Unrefreshed
    <3>3. r.op = "draw" /\ r.stage = "ok" /\ r.to = shown.round
      BY <2>3 DEF Reveals
    <3>4. r.answer = server.answers[r.to] /\ r.answer # NoTopic
      BY <3>3 DEF Truths, PanelType, KindRequests
    <3> QED BY <1>6, <3>1, <3>2, <3>3, <3>4
  <2> QED BY <1>6, <2>1, <2>2, <2>3 DEF Receives
<1>7. CASE Ticks
  BY <1>7, <1>e DEF Ticks
<1>8. CASE Reloads
  BY <1>8, <1>d DEF Reloads
<1>9. ASSUME NEW f \in fetches, NEW x \in fetches', Reads(f, x) PROVE UNCHANGED <<page, panel, shown>>
  BY <1>9 DEF Reads
<1>10. ASSUME NEW f \in fetches, Replaced(f)
       PROVE  /\ panel'.kept # NoTopic => panel'.kept = server'.answers[shown'.round]
              /\ panel'.phase = "done" => panel'.kept # NoTopic
  <2>1. f.got \in PanelView /\ Truthful(f.got) /\ shown' = f.got /\ UNCHANGED server
    BY <1>10 DEF Replaced, Truths
  <2>2. /\ Panel!Mounted(f.got).kept = f.got.answer
        /\ Panel!Mounted(f.got).phase = "done" => f.got.answer # NoTopic
    BY <1>a DEF Panel!Mounted, Panel!PanelKind
  <2>3. CASE panel' = Panel!Mounted(f.got)
    BY <2>1, <2>2, <2>3 DEF Truthful
  <2>4. CASE f.by # "load"
    <3>1. page = "ready" /\ panel' = Panel!Watched(panel, shown, f.got)
      BY <1>10, <1>a, <2>4 DEF Replaced
    <3>2. panel \in PanelState
      BY DEF PanelType
    <3>3. CASE form.kind = "RANK"
      <4>1. CASE f.got.round # shown.round
        <5>1. panel' = [Panel!Mounted(f.got) EXCEPT !.voting = panel.voting]
          BY <3>1, <3>3, <4>1 DEF Panel!Watched, Panel!PanelKind
        <5>2. panel'.kept = Panel!Mounted(f.got).kept /\ panel'.phase = Panel!Mounted(f.got).phase
          BY <5>1 DEF Panel!Mounted
        <5> QED BY <2>1, <2>2, <5>2 DEF Truthful
      <4>2. CASE f.got.round = shown.round
        <5>1. panel' = panel
          BY <3>1, <3>3, <4>2 DEF Panel!Watched, Panel!PanelKind
        <5> QED BY <1>b, <2>1, <3>1, <4>2, <5>1
      <4> QED BY <4>1, <4>2
    <3>4. CASE form.kind = "SCRATCH"
      <4>1. CASE f.got.answer # NoTopic
        <5>1. panel'.kept = f.got.answer
          BY <3>1, <3>2, <3>4, <4>1 DEF Panel!Watched, Panel!PanelKind, Panel!Cleared, PanelState
        <5> QED BY <2>1, <4>1, <5>1 DEF Truthful
      <4>2. CASE f.got.answer = NoTopic
        <5>1. \/ panel'.kept = NoTopic /\ panel'.phase = "idle"
              \/ panel' = panel /\ f.got.round = shown.round
          BY <3>1, <3>2, <3>4, <4>2 DEF Panel!Watched, Panel!PanelKind, Panel!Cleared, PanelState
        <5> QED BY <1>b, <2>1, <3>1, <5>1
      <4> QED BY <4>1, <4>2
    <3> QED BY <3>3, <3>4
  <2> QED BY <1>10, <1>a, <2>3, <2>4 DEF Replaced
<1> QED BY <1>e, <1>1, <1>2, <1>3, <1>4, <1>5, <1>6, <1>7, <1>8, <1>9, <1>10 DEF Steps

\* While a page loads, it loads once.
Loads == ~Once => \A f \in fetches : f.by = "load" => page = "loading" /\ \A g \in fetches : g.by = "load" => f = g

\* Every step keeps that: only a panel that is there makes its page load.
LEMMA LoadsSteps ==
  ASSUME PanelType, Flowing, Loads, form' = form, Steps
  PROVE  Loads'
<1> SUFFICES ASSUME ~Once
    PROVE  \A f \in fetches' : f.by = "load" => page' = "loading" /\ \A g \in fetches' : g.by = "load" => f = g
  BY DEF Loads, Once
<1>0. \A f \in fetches : f.by = "load" => page = "loading" /\ \A g \in fetches : g.by = "load" => f = g
  BY DEF Loads
<1>a. form.place # "sub" /\ form.kind # "FORMAL"
  BY DEF Once
<1>b. ASSUME NEW p, NEW rs \in SUBSET requests, Panel!Refreshed(p, rs), form.place = "card" \/ page = "ready"
      PROVE  \A f \in fetches' : f.by = "load" => page' = "loading" /\ \A g \in fetches' : g.by = "load" => f = g
  <2>1. PICK x \in fetches' : fetches' = fetches \cup {x} /\ x.by = IF form.place = "card" THEN "card" ELSE "load"
    BY <1>b, RefreshLeaves DEF Refreshes
  <2>2. page' = IF form.place = "card" THEN page ELSE "loading"
    BY <1>b, RefreshLeaves DEF Refreshes
  <2> QED BY <1>0, <1>b, <2>1, <2>2
<1>c. ASSUME UNCHANGED <<page, fetches>>
      PROVE  \A f \in fetches' : f.by = "load" => page' = "loading" /\ \A g \in fetches' : g.by = "load" => f = g
  BY <1>0, <1>c
<1>1. CASE Acts
  <2>1. CASE Requested \/ Lands \/ Edits
    <3>1. UNCHANGED <<page, fetches>>
      BY <2>1 DEF Requested, Votes, Ranks, Retracts, Draws, Asks, Lands, Edits
    <3> QED BY <1>c, <3>1
  <2>2. CASE Scratches
    <3>1. PICK p \in PanelState : Panel!Unrefreshed(p, requests) \/ Panel!Refreshed(p, requests)
      BY <2>2 DEF Scratches
    <3>2. Panel!Unrefreshed(p, requests) => UNCHANGED <<page, fetches>>
      BY DEF Panel!Unrefreshed
    <3>3. requests \in SUBSET requests /\ page = "ready"
      BY <2>2 DEF Scratches
    <3> QED BY <1>b, <1>c, <3>1, <3>2, <3>3
  <2> QED BY <1>1, <2>1, <2>2 DEF Acts, Requested
<1>2. ASSUME NEW r \in requests, NEW x \in requests', Handles(r, x) \/ Submits(r, x) PROVE UNCHANGED <<page, fetches>>
  BY <1>2 DEF Handles, Submits
<1>3. ASSUME NEW r \in requests, Drops(r)
      PROVE  UNCHANGED <<page, fetches>>
  BY <1>3 DEF Drops
<1>4. CASE Opens \/ Reloads
  BY <1>4, <1>a DEF Opens, Reloads
<1>5. ASSUME NEW r \in requests, Receives(r)
      PROVE  \A f \in fetches' : f.by = "load" => page' = "loading" /\ \A g \in fetches' : g.by = "load" => f = g
  <2>1. CASE Retried(r) \/ Passed(r) \/ Turns(r)
    BY <1>c, <2>1 DEF Retried, Passed, Turns
  <2>2. CASE Stored(r) \/ Undone(r) \/ Settles(r) \/ Reveals(r)
    <3>1. PICK p \in PanelState : Panel!Refreshed(p, requests \ {r}) \/ Panel!Unrefreshed(p, requests \ {r})
      BY <2>2 DEF Stored, Undone, Settles, Reveals
    <3>2. Panel!Unrefreshed(p, requests \ {r}) => UNCHANGED <<page, fetches>>
      BY DEF Panel!Unrefreshed
    <3>3. requests \ {r} \in SUBSET requests
      OBVIOUS
    <3>4. page = "ready"
      BY <1>a, <2>2 DEF Stored, Undone, Settles, Reveals, Flowing
    <3> QED BY <1>b, <1>c, <3>1, <3>2, <3>3, <3>4
  <2> QED BY <1>5, <2>1, <2>2 DEF Receives
<1>6. CASE Ticks
  BY <1>0, <1>6 DEF Ticks
<1>7. ASSUME NEW f \in fetches, NEW x \in fetches', Reads(f, x)
      PROVE  \A h \in fetches' : h.by = "load" => page' = "loading" /\ \A g \in fetches' : g.by = "load" => h = g
  BY <1>0, <1>7 DEF Reads
<1>8. ASSUME NEW f \in fetches, Replaced(f)
      PROVE  \A h \in fetches' : h.by = "load" => page' = "loading" /\ \A g \in fetches' : g.by = "load" => h = g
  BY <1>0, <1>8 DEF Replaced
<1> QED BY <1>c, <1>1, <1>2, <1>3, <1>4, <1>5, <1>6, <1>7, <1>8 DEF Steps

\* An answer that can be taken back, but for a scratch card.
Single == ~Once /\ form.kind # "SCRATCH"

\* Everything but what a timer still holds.
Sends == {r \in requests : r.stage # "landing"}

\* A panel of this kind that is left as p has one request at a time, which locks it until its answer;
\* a card of several options stays locked until it is fetched.
Locks(k, R, F, p) ==
    /\ \A r \in R :
         /\ r.mine /\ (IF r.op \in {"draw", "save"} THEN p.busy ELSE p.voting)
         /\ \A q \in R : r = q
    /\ k = "TAP" => (R # {} => F = {}) /\ (F # {} => p.voting) /\ \A f, g \in F : f = g
    /\ k = "RANK" => (p.voting => p.phase = "done") /\ (p.busy => p.phase = "over")

Locked == Single => Locks(form.kind, Sends, fetches, panel)

\* The topic of such a panel is of the first round.
LEMMA WatchedAtRest ==
  ASSUME PanelType, Flowing, NEW f \in fetches, f.got \in PanelView, f.got # NoTopic, form.place # "sub", form.kind # "SCRATCH"
  PROVE  LET p == Panel!Watched(panel, shown, f.got)
         IN  /\ p.voting = panel.voting /\ p.busy = panel.busy /\ p.phase = panel.phase
             /\ form.kind \notin {"MULTI", "SPECTRUM", "SHORT"} => p = panel
<1>1. f.got.round = shown.round /\ panel \in PanelState
  BY DEF Flowing, Fetched, PanelType
<1> QED BY <1>1 DEF Panel!Watched, Panel!PanelKind, PanelState

\* Every step keeps that.
LEMMA LockedSteps ==
  ASSUME PanelType, PanelType', Flowing, Loads, Locked, form' = form, Steps
  PROVE  Locked'
<1> SUFFICES ASSUME Single PROVE Locks(form.kind, Sends', fetches', panel')
  BY DEF Locked, Single, Once
<1>0. Locks(form.kind, Sends, fetches, panel)
  BY DEF Locked
<1>a. form.place # "sub" /\ form.kind \notin {"FORMAL", "SCRATCH"} /\ (form.kind = "TAP" => form.place = "card") /\ ~Once
  BY PanelAssumption DEF Single, Once, PanelType
<1>b. \A r \in Sends : r.op = "save" => form.kind = "RANK"
  BY DEF Sends, PanelType, KindRequests
<1>c. \A r \in Sends : r.op = "draw" => form.kind \in {"LOTTERY", "WHEEL"}
  BY <1>a DEF Sends, PanelType, KindRequests
<1>d. ASSUME NEW r \in requests, r.stage # "landing", NEW rs, rs = requests \ {r}, NEW p, Panel!Refreshed(p, rs),
             form.kind = "TAP" => p.voting, form.kind = "RANK" => (p.voting => p.phase = "done") /\ (p.busy => p.phase = "over")
      PROVE  Locks(form.kind, Sends', fetches', panel')
  <2>1. Sends = {r}
    BY <1>0, <1>d DEF Locks, Sends
  <2>2. \A y \in requests' : \E x \in rs : Alike(x, y)
    BY <1>d, RefreshedAlike
  <2>3. Sends' = {}
    BY <1>d, <2>1, <2>2 DEF Sends, Alike
  <2>4. form.kind = "TAP" => \E f : fetches' = {f}
    <3>1. form.kind = "TAP" => fetches = {}
      BY <1>0, <2>1 DEF Locks
    <3> QED BY <1>d, <3>1, RefreshLeaves DEF Refreshes
  <2>5. panel' = p
    BY <1>d, RefreshedAlike
  <2> QED BY <1>d, <2>3, <2>4, <2>5 DEF Locks
<1>e. ASSUME Sends' \in SUBSET Sends, panel' = panel, fetches' = fetches PROVE Locks(form.kind, Sends', fetches', panel')
  BY <1>0, <1>e DEF Locks
<1>1. CASE Acts /\ UNCHANGED <<server, shown>>
  <2>a. ASSUME NEW op, NEW a, NEW m, Asks(op, a, m), Sends = {}, fetches = {} \/ form.kind # "TAP",
               IF op \in {"draw", "save"} THEN panel'.busy ELSE panel'.voting,
               form.kind = "RANK" => (panel'.voting => panel'.phase = "done") /\ (panel'.busy => panel'.phase = "over")
        PROVE  Locks(form.kind, Sends', fetches', panel')
    <3>1. PICK x \in requests' : requests' = requests \cup {x} /\ x.op = op /\ x.stage = "sent" /\ x.mine
      BY <2>a DEF Asks
    <3>2. Sends' = {x} /\ fetches' = fetches
      BY <2>a, <3>1 DEF Sends, Asks
    <3> QED BY <2>a, <3>1, <3>2 DEF Locks
  <2>1. ASSUME NEW op \in {"post", "patch"}, NEW a \in Panel!Answers, Votes(op, a) PROVE Locks(form.kind, Sends', fetches', panel')
    <3>1. Sends = {} /\ (form.kind = "TAP" => fetches = {})
      BY <2>1, <1>0, <1>b, <1>c DEF Votes, Locks
    <3> QED BY <2>1, <3>1, <2>a DEF Votes
  <2>2. ASSUME NEW a \in Panel!Answers, Ranks(a) PROVE Locks(form.kind, Sends', fetches', panel')
    <3>1. ~panel.voting /\ ~panel.busy
      BY <2>2, <1>0 DEF Ranks, Locks
    <3>2. Sends = {}
      BY <1>0, <3>1 DEF Locks
    <3> QED BY <2>2, <3>1, <3>2, <2>a DEF Ranks
  <2>3. CASE Retracts
    <3>1. Sends = {} /\ (form.kind = "TAP" => fetches = {})
      BY <2>3, <1>0, <1>b, <1>c DEF Retracts, Locks
    <3> QED BY <2>3, <3>1, <2>a DEF Retracts
  <2>4. CASE Draws
    <3>1. Sends = {} /\ form.kind \in {"LOTTERY", "WHEEL"}
      BY <2>4, <1>0, <1>a DEF Draws, Locks
    <3> QED BY <2>4, <3>1, <2>a DEF Draws
  <2>5. CASE Lands
    <3>1. Sends' = Sends
      BY <2>5 DEF Lands, Sends
    <3> QED BY <1>0, <1>b, <1>c, <2>5, <3>1 DEF Lands, Locks
  <2>6. CASE Edits
    <3>1. Sends' = Sends
      BY <2>6 DEF Edits, Sends
    <3> QED BY <1>0, <1>a, <2>6, <3>1 DEF Edits, Locks
  <2>7. CASE Scratches
    BY <1>a, <2>7 DEF Scratches
  <2> QED BY <1>1, <2>1, <2>2, <2>3, <2>4, <2>5, <2>6, <2>7 DEF Acts
<1>2. ASSUME NEW r \in requests, NEW x \in requests', Handles(r, x) PROVE Locks(form.kind, Sends', fetches', panel')
  <2>1. r \in Sends /\ requests' = (requests \ {r}) \cup {x} /\ x.stage # "landing" /\ x.op = r.op /\ x.mine = r.mine /\ UNCHANGED <<panel, fetches>>
    BY <1>2 DEF Handles, Sends
  <2>2. Sends = {r}
    BY <1>0, <2>1 DEF Locks
  <2>3. Sends' = {x}
    BY <2>1, <2>2 DEF Sends
  <2> QED BY <1>0, <2>1, <2>2, <2>3 DEF Locks
<1>3. ASSUME NEW r \in requests, NEW x \in requests', Submits(r, x) PROVE Locks(form.kind, Sends', fetches', panel')
  <2>1. Sends = {}
    BY <1>0, <1>3, <1>b, <1>c DEF Submits, Locks
  <2>2. Sends' = {x}
    BY <1>3, <2>1 DEF Submits, Sends
  <2> QED BY <1>3, <2>2 DEF Submits, Locks
<1>4. ASSUME NEW r \in requests, Drops(r) PROVE Locks(form.kind, Sends', fetches', panel')
  <2>1. Sends' = Sends
    BY <1>4 DEF Drops, Sends
  <2> QED BY <1>0, <1>b, <1>c, <1>4, <2>1 DEF Drops, Locks
<1>5. CASE Opens \/ Reloads
  BY <1>5, <1>a DEF Opens, Reloads
<1>6. ASSUME NEW r \in requests, Receives(r) PROVE Locks(form.kind, Sends', fetches', panel')
  <2>0. r \in KindRequests
    BY DEF PanelType
  <2>a. ASSUME NEW x \in requests', requests' = (requests \ {r}) \cup {x}, r.stage # "landing", x.stage # "landing", x.mine = r.mine,
               (x.op \in {"draw", "save"}) = (r.op \in {"draw", "save"}), UNCHANGED <<panel, fetches>>
        PROVE  Locks(form.kind, Sends', fetches', panel')
    <3>1. Sends = {r}
      BY <1>0, <2>a DEF Locks, Sends
    <3>2. Sends' = {x}
      BY <2>a, <3>1 DEF Sends
    <3> QED BY <1>0, <2>a, <3>1, <3>2 DEF Locks
  <2>1. CASE Retried(r)
    BY <2>0, <2>1, <2>a DEF Retried, KindRequests
  <2>2. CASE Passed(r)
    <3>1. Sends' \in SUBSET Sends
      BY <2>2 DEF Passed, Sends
    <3> QED BY <2>2, <3>1, <1>e DEF Passed
  <2>3. CASE Stored(r)
    <3>1. form.kind # "RANK"
      BY <2>0, <2>3 DEF Stored, Flowing, Fits
    <3> QED BY <2>3, <3>1, <1>d DEF Stored
  <2>4. CASE Undone(r)
    <3>1. PICK p \in PanelState :
             /\ Panel!Refreshed(p, requests \ {r})
             /\ p.voting = (form.kind = "TAP")
             /\ form.kind = "RANK" => ~p.busy /\ p.phase = "idle"
      BY <2>4 DEF Undone
    <3> QED BY <2>4, <3>1, <1>d DEF Undone
  <2>5. CASE Turns(r)
    BY <2>5, <2>a DEF Turns
  <2>6. CASE Settles(r)
    <3>1. PICK p \in PanelState :
             /\ Panel!Refreshed(p, requests \ {r})
             /\ p.voting = panel.voting /\ ~p.busy
      BY <2>6 DEF Settles
    <3>2. form.kind = "RANK" => ~panel.voting
      <4>1. r \in Sends /\ form.kind = "RANK" => r.op = "save"
        BY <2>6 DEF Settles, Sends
      <4> QED BY <1>0, <2>6, <4>1 DEF Locks, Settles, Sends
    <3> QED BY <2>6, <3>1, <3>2, <1>d DEF Settles
  <2> QED BY <1>6, <1>a, <2>1, <2>2, <2>3, <2>4, <2>5, <2>6 DEF Receives, Reveals
<1>7. CASE Ticks
  <2>1. Sends' = Sends
    BY <1>7 DEF Ticks, Sends
  <2> QED BY <1>0, <1>a, <1>7, <2>1 DEF Ticks, Locks
<1>8. ASSUME NEW f \in fetches, NEW x \in fetches', Reads(f, x) PROVE Locks(form.kind, Sends', fetches', panel')
  <2>1. Sends' = Sends /\ panel' = panel /\ fetches' = (fetches \ {f}) \cup {x}
    BY <1>8 DEF Reads, Sends
  <2> QED BY <1>0, <2>1 DEF Locks
<1>9. ASSUME NEW f \in fetches, Replaced(f) PROVE Locks(form.kind, Sends', fetches', panel')
  <2>1. Sends' = Sends /\ fetches' = fetches \ {f} /\ f.got \in PanelView /\ f.got # NoTopic
    BY <1>9 DEF Replaced, Sends
  <2>2. CASE f.by = "load"
    <3>1. page = "loading"
      BY <1>a, <2>2 DEF Loads
    <3>2. Sends = {}
      BY <1>0, <1>a, <3>1 DEF Locks, Sends, Flowing
    <3>3. panel' = Panel!Mounted(f.got)
      BY <1>9, <1>a, <2>2 DEF Replaced
    <3>4. ~panel'.voting /\ ~panel'.busy
      BY <3>3 DEF Panel!Mounted
    <3> QED BY <1>0, <2>1, <3>2, <3>4 DEF Locks
  <2>3. CASE form.kind = "TAP"
    BY <1>0, <2>1, <2>3 DEF Locks
  <2>4. CASE f.by # "load" /\ form.kind # "TAP"
    <3>1. panel'.voting = panel.voting /\ panel'.busy = panel.busy /\ panel'.phase = panel.phase
      BY <1>9, <1>a, <2>1, <2>4, WatchedAtRest DEF Replaced, PanelType
    <3> QED BY <1>0, <2>1, <2>4, <3>1 DEF Locks
  <2> QED BY <2>2, <2>3, <2>4
<1> QED BY <1>1, <1>2, <1>3, <1>4, <1>5, <1>6, <1>7, <1>8, <1>9 DEF Steps

\* What such a panel meant is stored or on its way.
SingleMeant == Single =>
    /\ \A r \in Sends : r.stage \in {"sent", "conflict"} =>
          meant[1] = IF r.op = "draw" THEN Panel!Anything ELSE r.answer
    /\ meant[1] \in {Panel!Anything, server.answers[1]} \/ \E r \in Sends : r.stage \in {"sent", "conflict"}

\* Every step keeps that.
LEMMA SingleMeantSteps ==
  ASSUME PanelType, Flowing, Locked, SingleMeant, form' = form, Steps
  PROVE  SingleMeant'
<1> DEFINE Goal == /\ \A r \in Sends' : r.stage \in {"sent", "conflict"} =>
                         meant'[1] = IF r.op = "draw" THEN Panel!Anything ELSE r.answer
                   /\ \/ meant'[1] \in {Panel!Anything, server'.answers[1]}
                      \/ \E r \in Sends' : r.stage \in {"sent", "conflict"}
<1> SUFFICES ASSUME Single PROVE Goal
  BY DEF SingleMeant, Single, Once
<1>0. /\ \A r \in Sends : r.stage \in {"sent", "conflict"} =>
            meant[1] = IF r.op = "draw" THEN Panel!Anything ELSE r.answer
      /\ meant[1] \in {Panel!Anything, server.answers[1]} \/ \E r \in Sends : r.stage \in {"sent", "conflict"}
  BY DEF SingleMeant
<1>a. form.place # "sub" /\ shown.round = 1 /\ meant \in [1..2 -> PanelAnswer \cup {Panel!Anything}] /\ ~Once
  BY DEF Single, Once, Flowing
<1>b. \A r, q \in Sends : r = q
  BY DEF Locked, Locks
<1>1. CASE Requested /\ UNCHANGED <<server, shown>>
  <2>a. ASSUME NEW op, NEW a, NEW m, Asks(op, a, m), m = (IF op = "draw" THEN Panel!Anything ELSE a), Sends = {}
        PROVE  Goal
    <3>1. PICK x \in requests' : requests' = requests \cup {x} /\ x.op = op /\ x.answer = a /\ x.stage = "sent"
      BY <2>a DEF Asks
    <3>2. Sends' = {x} /\ meant'[1] = m
      BY <1>a, <2>a, <3>1 DEF Sends, Asks
    <3> QED BY <2>a, <3>1, <3>2
  <2>b. ASSUME Sends # {} PROVE panel.voting \/ panel.busy
    BY <2>b DEF Locked, Locks
  <2>c. Sends = {}
    <3>1. ASSUME NEW r \in Sends PROVE /\ r.op \in {"draw", "save"} => panel.busy /\ form.kind \in {"LOTTERY", "WHEEL", "RANK"}
                                       /\ r.op \notin {"draw", "save"} => panel.voting
      BY <3>1 DEF Locked, Locks, PanelType, KindRequests, Sends, Single
    <3>2. form.kind = "RANK" /\ panel.phase = "playing" => ~panel.voting /\ ~panel.busy
      BY DEF Locked, Locks
    <3> QED BY <1>1, <3>1, <3>2 DEF Requested, Votes, Ranks, Retracts, Draws, Single
  <2>1. ASSUME NEW op \in {"post", "patch"}, NEW a \in Panel!Answers, Votes(op, a) PROVE Goal
    BY <2>1, <2>a, <2>c DEF Votes
  <2>2. ASSUME NEW a \in Panel!Answers, Ranks(a) PROVE Goal
    BY <2>2, <2>a, <2>c DEF Ranks
  <2>3. CASE Retracts
    BY <2>3, <2>a, <2>c DEF Retracts
  <2>4. CASE Draws
    BY <2>4, <2>a, <2>c DEF Draws
  <2> HIDE DEF Goal
  <2> QED BY <1>1, <2>1, <2>2, <2>3, <2>4 DEF Requested
<1>2. ASSUME NEW r \in requests, NEW x \in requests', Handles(r, x) PROVE Goal
  <2>1. /\ r \in Sends /\ Sends = {r} /\ Sends' = {x} /\ r.to = 1 /\ meant' = meant
        /\ x.op = r.op /\ (r.op # "draw" => x.answer = r.answer) /\ r.stage = "sent"
    BY <1>2, <1>a, <1>b DEF Handles, Sends, Flowing, Fits
  <2>2. r.op = "delete" => r.answer = NoTopic
    BY DEF Flowing, Fits
  <2> QED BY <1>0, <1>2, <2>1, <2>2 DEF Handles
<1>3. ASSUME NEW r \in requests, NEW x \in requests', Submits(r, x) PROVE Goal
  <2>1. Sends = {}
    <3>1. \A q \in Sends : q.op \notin {"draw", "save"}
      BY <1>3 DEF Submits, PanelType, KindRequests, Sends
    <3> QED BY <1>3, <3>1 DEF Submits, Locked, Locks
  <2>2. Sends' = {x} /\ x.answer = r.answer /\ x.op # "draw" /\ meant'[1] = r.answer /\ x.stage = "sent"
    BY <1>3, <1>a, <2>1 DEF Submits, Sends
  <2> QED BY <2>2
<1>4. ASSUME NEW r \in requests, Retried(r), UNCHANGED <<server, meant>> PROVE Goal
  <2>1. PICK x \in requests' : requests' = (requests \ {r}) \cup {x} /\ x.op = "patch" /\ x.stage = "sent" /\ x.answer = r.answer
    BY <1>4 DEF Retried
  <2>2. r \in Sends /\ Sends = {r} /\ Sends' = {x} /\ r.stage = "conflict"
    BY <1>4, <1>b, <2>1 DEF Retried, Sends
  <2>3. r.op = "post"
    BY <2>2 DEF PanelType, KindRequests
  <2> QED BY <1>0, <1>4, <2>1, <2>2, <2>3
<1>5. CASE SentAlike /\ server'.answers = server.answers /\ meant' = meant
  <2>1. \A x \in Sends : x.stage \in {"sent", "conflict"} => \E y \in Sends' : Alike(x, y)
    BY <1>5 DEF SentAlike, Sends, Alike
  <2>2. \A y \in Sends' : y.stage \in {"sent", "conflict"} => \E x \in Sends : Alike(x, y)
    BY <1>5 DEF SentAlike, Sends, Alike
  <2> QED BY <1>0, <1>5, <2>1, <2>2 DEF Alike
<1> HIDE DEF Goal
<1> QED BY <1>1, <1>2, <1>3, <1>4, <1>5, Quiet

\* A scratch card whose answer can be taken back.
Scratchy == ~Once /\ form.kind = "SCRATCH"

\* It has one draw at a time, which keeps it busy, and what was drawn stays unless it is withdrawn.
ScratchOne == Scratchy => \A r \in requests : r.op = "draw" =>
    /\ r.mine /\ panel.busy /\ (panel.kept = NoTopic \/ panel.phase = "done")
    /\ \A q \in requests : q.op = "draw" => r = q
    /\ r.stage = "ok" => server.answers[1] \in {r.answer, NoTopic}
    /\ r.stage = "sent" => meant[1] = Panel!Anything

\* What was asked for is stored, or its withdrawal is sent.
ScratchMeant == Scratchy =>
    /\ meant[1] = NoTopic => server.answers[1] = NoTopic \/ \E r \in requests : r.op = "delete" /\ r.stage = "sent"
    /\ meant[1] \notin {NoTopic, Panel!Anything} => server.answers[1] = meant[1] /\ \A r \in requests : r.stage # "sent"

\* What has been scratched is shown, or what is stored.
ScratchShown == Scratchy /\ page = "ready" =>
    /\ panel.phase = "done" => panel.kept # NoTopic
    /\ panel.kept # NoTopic /\ Panel!Voted =>
         \/ panel.kept = shown.answer
         \/ server.answers[1] \in {panel.kept, NoTopic} /\ \A r \in requests : r.op # "draw"

\* The requests of such a card.
LEMMA ScratchRequests ==
  ASSUME PanelType, Flowing, Scratchy
  PROVE  /\ \A r \in requests : r.op \in {"draw", "delete"} /\ r.stage \in {"sent", "ok"} /\ r.to = 1
         /\ form.place # "sub" /\ ~Once /\ shown.round = 1 /\ server.round = 1
         /\ meant \in [1..2 -> PanelAnswer \cup {Panel!Anything}]
BY DEF Scratchy, Once, Flowing, Fits, PanelType, KindRequests, PanelRequest

\* What a step does to it.
LEMMA ScratchSteps ==
  ASSUME PanelType, Flowing, Scratchy, ScratchOne, Steps
  PROVE  \/ Retracts /\ UNCHANGED <<server, shown>>
         \/ Draws /\ UNCHANGED <<server, shown>>
         \/ Scratches /\ UNCHANGED <<server, shown>>
         \/ \E r \in requests, x \in requests' : Handles(r, x)
         \/ (\E r \in requests : Undone(r) \/ Reveals(r) \/ Passed(r)) /\ UNCHANGED <<server, shown, meant>>
         \/ Ticks
         \/ \E f \in fetches, x \in fetches' : Reads(f, x)
         \/ \E f \in fetches : Replaced(f)
<1>a. form.kind = "SCRATCH" /\ form.place # "sub"
  BY DEF Scratchy, Once
<1>1. Acts => Retracts \/ Draws \/ Scratches
  BY <1>a DEF Acts, Votes, Ranks, Lands, Edits
<1>2. ASSUME NEW r \in requests, Receives(r) PROVE Undone(r) \/ Reveals(r) \/ Passed(r)
  <2>1. r.op \in {"draw", "delete"} /\ r.stage \in {"sent", "ok"}
    BY ScratchRequests
  <2> QED BY <1>2, <1>a, <2>1 DEF Receives, Retried, Stored, Turns, Settles
<1>3. ~Opens /\ ~Reloads /\ \A r, x : ~Submits(r, x) /\ ~Drops(r)
  BY <1>a DEF Opens, Reloads, Submits, Drops
<1> QED BY <1>1, <1>2, <1>3 DEF Steps

\* What becomes of its draws.
LEMMA ScratchReceived ==
  ASSUME PanelType, Flowing, Scratchy, ScratchOne, NEW r \in requests, Undone(r) \/ Reveals(r)
  PROVE  \A y \in requests' : y.op # "draw"
<1>1. PICK p \in PanelState : Panel!Refreshed(p, requests \ {r}) \/ Panel!Unrefreshed(p, requests \ {r})
  BY DEF Undone, Reveals
<1>2. \A x \in requests \ {r} : x.op # "draw" /\ x.stage # "landing"
  BY ScratchRequests DEF Undone, Reveals, ScratchOne, Scratchy
<1>3. requests \ {r} \in SUBSET requests
  OBVIOUS
<1>4. \A y \in requests' : \E x \in requests \ {r} : Alike(x, y)
  <2>1. CASE Panel!Refreshed(p, requests \ {r})
    BY <1>3, <2>1, RefreshedAlike
  <2>2. CASE Panel!Unrefreshed(p, requests \ {r})
    BY <2>2 DEF Panel!Unrefreshed, Alike
  <2> QED BY <1>1, <2>1, <2>2
<1> QED BY <1>2, <1>4 DEF Alike

\* Every step keeps the draws apart.
LEMMA ScratchOneSteps ==
  ASSUME PanelType, PanelType', Flowing, Loads, ScratchOne, form' = form, Steps
  PROVE  ScratchOne'
<1> DEFINE Goal == \A r \in requests' : r.op = "draw" =>
                     /\ r.mine /\ panel'.busy /\ (panel'.kept = NoTopic \/ panel'.phase = "done")
                     /\ \A q \in requests' : q.op = "draw" => r = q
                     /\ r.stage = "ok" => server'.answers[1] \in {r.answer, NoTopic}
                     /\ r.stage = "sent" => meant'[1] = Panel!Anything
<1> SUFFICES ASSUME Scratchy PROVE Goal
  BY DEF ScratchOne, Scratchy, Once
<1>0. \A r \in requests : r.op = "draw" =>
         /\ r.mine /\ panel.busy /\ (panel.kept = NoTopic \/ panel.phase = "done")
         /\ \A q \in requests : q.op = "draw" => r = q
         /\ r.stage = "ok" => server.answers[1] \in {r.answer, NoTopic}
         /\ r.stage = "sent" => meant[1] = Panel!Anything
  BY DEF ScratchOne
<1>a. form.kind = "SCRATCH" /\ form.place # "sub" /\ shown.round = 1 /\ meant \in [1..2 -> PanelAnswer \cup {Panel!Anything}]
      /\ \A r \in requests : r.op \in {"draw", "delete"} /\ r.to = 1 /\ r.stage \in {"sent", "ok"}
  BY ScratchRequests DEF Scratchy
<1>1. ASSUME Retracts PROVE Goal
  <2>1. PICK x \in requests' : requests' = requests \cup {x} /\ x.op = "delete"
    BY <1>1 DEF Retracts, Asks
  <2>2. \A r \in requests : r.op # "draw"
    BY <1>0, <1>1, <1>a DEF Retracts
  <2> QED BY <2>1, <2>2
<1>2. ASSUME Draws PROVE Goal
  <2>1. PICK x \in requests' : requests' = requests \cup {x} /\ x.op = "draw" /\ x.stage = "sent" /\ x.mine
    BY <1>2 DEF Draws, Asks
  <2>2. \A r \in requests : r.op # "draw"
    BY <1>0, <1>2 DEF Draws
  <2>3. panel'.busy /\ panel'.kept = NoTopic /\ meant'[1] = Panel!Anything
    BY <1>2, <1>a DEF Draws, Asks
  <2> QED BY <2>1, <2>2, <2>3
<1>3. ASSUME Scratches, UNCHANGED server PROVE Goal
  <2>1. PICK p \in PanelState :
         /\ p.voting = panel.voting /\ p.busy = panel.busy /\ p.kept = panel.kept
         /\ IF p.kept = NoTopic THEN p.phase = "scratched" /\ Panel!Unrefreshed(p, requests)
            ELSE p.phase = "done" /\ Panel!Refreshed(p, requests)
    BY <1>3 DEF Scratches
  <2>2. CASE p.kept = NoTopic
    BY <1>0, <1>3, <2>1, <2>2 DEF Panel!Unrefreshed, Scratches
  <2>3. CASE p.kept # NoTopic
    <3>1. \A r \in requests : r.op # "draw"
      BY <1>0, <1>3, <2>1, <2>3 DEF Scratches
    <3>2. requests \in SUBSET requests
      OBVIOUS
    <3>3. \A y \in requests' : \E x \in requests : Alike(x, y)
      BY <2>1, <2>3, <3>2, RefreshedAlike
    <3> QED BY <1>a, <3>1, <3>3 DEF Alike
  <2> QED BY <2>2, <2>3
<1>4. ASSUME NEW r \in requests, NEW x \in requests', Handles(r, x) PROVE Goal
  <2>1. /\ requests' = (requests \ {r}) \cup {x} /\ x.op = r.op /\ x.mine = r.mine /\ r.to = 1 /\ UNCHANGED <<panel, meant>>
        /\ x.stage = "ok" /\ server'.answers[1] = IF r.op = "delete" THEN NoTopic ELSE x.answer
    BY <1>4, <1>a DEF Handles
  <2>2. CASE r.op = "draw"
    BY <1>0, <2>1, <2>2
  <2>3. CASE r.op = "delete"
    BY <1>0, <2>1, <2>3
  <2> QED BY <1>a, <2>2, <2>3
<1>5. ASSUME NEW r \in requests, Undone(r) \/ Reveals(r) PROVE Goal
  BY <1>5, ScratchReceived
<1>6. ASSUME NEW r \in requests, Passed(r), UNCHANGED <<server, meant>> PROVE Goal
  BY <1>0, <1>6 DEF Passed
<1>7. ASSUME Ticks \/ \E f \in fetches, x \in fetches' : Reads(f, x) PROVE Goal
  <2>1. UNCHANGED <<server, meant, panel, requests>>
    BY <1>7 DEF Ticks, Reads
  <2> QED BY <1>0, <2>1
<1>8. ASSUME NEW f \in fetches, Replaced(f) PROVE Goal
  <2>1. UNCHANGED <<server, meant, requests>> /\ f.got \in PanelView
    BY <1>8 DEF Replaced
  <2>2. CASE f.by = "load"
    <3>1. page = "loading"
      BY <2>2 DEF Loads, Scratchy
    <3>2. \A r \in requests : ~r.mine
      BY <1>a, <3>1 DEF Flowing
    <3> QED BY <1>0, <2>1, <3>2
  <2>3. CASE f.by # "load" /\ page # "ready"
    BY <1>0, <1>8, <2>1, <2>3 DEF Replaced
  <2>4. CASE f.by # "load" /\ page = "ready"
    <3>1. panel' = Panel!Watched(panel, shown, f.got) /\ panel \in PanelState
      BY <1>8, <1>a, <2>4 DEF Replaced, PanelType
    <3>2. CASE f.got.round # shown.round \/ (Panel!Voted /\ f.got.answer = NoTopic)
      BY <1>0, <1>8, <1>a, <2>1, <2>4, <3>2 DEF Replaced
    <3>3. CASE ~(f.got.round # shown.round \/ (Panel!Voted /\ f.got.answer = NoTopic))
      <4>1. panel' = panel \/ panel' = [panel EXCEPT !.kept = f.got.answer, !.phase = "done"]
        BY <3>1, <3>3, <1>a DEF Panel!Watched, Panel!PanelKind, Panel!Voted
      <4>2. panel'.busy = panel.busy /\ (panel' = panel \/ panel'.phase = "done")
        BY <3>1, <4>1 DEF PanelState
      <4> QED BY <1>0, <2>1, <4>2
    <3> QED BY <3>2, <3>3
  <2> QED BY <2>2, <2>3, <2>4
<1> HIDE DEF Goal
<1> QED BY <1>1, <1>2, <1>3, <1>4, <1>5, <1>6, <1>7, <1>8, ScratchSteps

\* Every step keeps what is meant.
LEMMA ScratchMeantSteps ==
  ASSUME PanelType, Flowing, ScratchOne, ScratchMeant, form' = form, Steps
  PROVE  ScratchMeant'
<1> DEFINE Goal ==
      /\ meant'[1] = NoTopic => server'.answers[1] = NoTopic \/ \E r \in requests' : r.op = "delete" /\ r.stage = "sent"
      /\ meant'[1] \notin {NoTopic, Panel!Anything} => server'.answers[1] = meant'[1] /\ \A r \in requests' : r.stage # "sent"
<1> SUFFICES ASSUME Scratchy PROVE Goal
  BY DEF ScratchMeant, Scratchy, Once
<1>0. /\ meant[1] = NoTopic => server.answers[1] = NoTopic \/ \E r \in requests : r.op = "delete" /\ r.stage = "sent"
      /\ meant[1] \notin {NoTopic, Panel!Anything} => server.answers[1] = meant[1] /\ \A r \in requests : r.stage # "sent"
  BY DEF ScratchMeant
<1>a. form.kind = "SCRATCH" /\ shown.round = 1 /\ meant \in [1..2 -> PanelAnswer \cup {Panel!Anything}]
      /\ \A r \in requests : r.op \in {"draw", "delete"} /\ r.to = 1 /\ r.stage \in {"sent", "ok"}
  BY ScratchRequests DEF Scratchy
<1>1. CASE Requested /\ UNCHANGED <<server, shown>>
  <2>1. CASE Retracts
    <3>1. PICK x \in requests' : x.op = "delete" /\ x.stage = "sent"
      BY <2>1 DEF Retracts, Asks
    <3>2. meant'[1] = NoTopic
      BY <1>a, <2>1 DEF Retracts, Asks
    <3> QED BY <3>1, <3>2
  <2>2. CASE Draws
    <3>1. meant'[1] = Panel!Anything
      BY <1>a, <2>2 DEF Draws, Asks
    <3> QED BY <3>1, AnythingElse
  <2> QED BY <1>1, <1>a, <2>1, <2>2 DEF Requested, Votes, Ranks
<1>2. ASSUME NEW r \in requests, NEW x \in requests', Handles(r, x) PROVE Goal
  <2>1. r.stage = "sent" /\ r.to = 1 /\ meant' = meant
        /\ server'.answers[1] = IF r.op = "delete" THEN NoTopic ELSE x.answer
    BY <1>2, <1>a DEF Handles
  <2>2. r.op = "draw" => meant[1] = Panel!Anything
    BY <2>1 DEF ScratchOne
  <2> QED BY <1>0, <1>a, <2>1, <2>2, AnythingElse
<1>3. ASSUME NEW r \in requests, NEW x \in requests', Submits(r, x) PROVE Goal
  BY <1>3, <1>a DEF Submits
<1>4. ASSUME NEW r \in requests, Retried(r) PROVE Goal
  BY <1>4, <1>a DEF Retried
<1>5. CASE SentAlike /\ server'.answers = server.answers /\ meant' = meant
  BY <1>0, <1>5 DEF SentAlike, Alike
<1> HIDE DEF Goal
<1> QED BY <1>1, <1>2, <1>3, <1>4, <1>5, Quiet

\* Every step keeps what is shown.
LEMMA ScratchShownSteps ==
  ASSUME PanelType, PanelType', Flowing, ScratchOne, ScratchShown, form' = form, Steps
  PROVE  ScratchShown'
<1> DEFINE Goal ==
      /\ panel'.phase = "done" => panel'.kept # NoTopic
      /\ panel'.kept # NoTopic /\ shown'.answer # NoTopic =>
           \/ panel'.kept = shown'.answer
           \/ server'.answers[1] \in {panel'.kept, NoTopic} /\ \A r \in requests' : r.op # "draw"
<1> SUFFICES ASSUME Scratchy, page' = "ready" PROVE Goal
  BY DEF ScratchShown, Scratchy, Once, Panel!Voted
<1>0. page = "ready" =>
        /\ panel.phase = "done" => panel.kept # NoTopic
        /\ panel.kept # NoTopic /\ shown.answer # NoTopic =>
             \/ panel.kept = shown.answer
             \/ server.answers[1] \in {panel.kept, NoTopic} /\ \A r \in requests : r.op # "draw"
  BY DEF ScratchShown, Panel!Voted
<1>a. form.kind = "SCRATCH" /\ form.place # "sub" /\ shown.round = 1
      /\ \A r \in requests : r.op \in {"draw", "delete"} /\ r.to = 1 /\ r.stage \in {"sent", "ok"}
  BY ScratchRequests DEF Scratchy
<1>b. ASSUME page = "ready", UNCHANGED <<server, shown>>, panel'.kept = panel.kept, panel'.phase = "done" => panel.phase = "done" \/ panel'.kept # NoTopic,
             \A y \in requests' : y.op = "draw" => \E x \in requests : x.op = "draw"
      PROVE  Goal
  BY <1>0, <1>b
<1>1. ASSUME Retracts, UNCHANGED <<server, shown>> PROVE Goal
  <2>1. page = "ready" /\ \E x : requests' = requests \cup {x} /\ x.op = "delete"
    BY <1>1 DEF Retracts, Asks
  <2>2. panel'.kept = panel.kept /\ panel'.phase = panel.phase
    BY <1>1 DEF Retracts
  <2> HIDE DEF Goal
  <2> QED BY <1>1, <1>b, <2>1, <2>2
<1>2. ASSUME Draws PROVE Goal
  BY <1>2, <1>a DEF Draws
<1>3. ASSUME Scratches, UNCHANGED <<server, shown>> PROVE Goal
  <2>1. PICK p \in PanelState :
         /\ p.voting = panel.voting /\ p.busy = panel.busy /\ p.kept = panel.kept
         /\ IF p.kept = NoTopic THEN p.phase = "scratched" /\ Panel!Unrefreshed(p, requests)
            ELSE p.phase = "done" /\ Panel!Refreshed(p, requests)
    BY <1>3 DEF Scratches
  <2>2. requests \in SUBSET requests
    OBVIOUS
  <2>3. panel' = p /\ \A y \in requests' : \E x \in requests : Alike(x, y)
    <3>1. CASE Panel!Refreshed(p, requests)
      BY <2>2, <3>1, RefreshedAlike
    <3>2. CASE Panel!Unrefreshed(p, requests)
      BY <3>2 DEF Panel!Unrefreshed, Alike
    <3> QED BY <2>1, <3>1, <3>2
  <2>4. \A y \in requests' : y.op = "draw" => \E x \in requests : x.op = "draw"
    BY <1>a, <2>3 DEF Alike
  <2>5. page = "ready" /\ (p.phase = "done" => p.kept # NoTopic)
    BY <1>3, <2>1 DEF Scratches
  <2> HIDE DEF Goal
  <2> QED BY <1>3, <1>b, <2>1, <2>3, <2>4, <2>5
<1>4. ASSUME NEW r \in requests, NEW x \in requests', Handles(r, x) PROVE Goal
  <2>1. /\ requests' = (requests \ {r}) \cup {x} /\ x.op = r.op /\ r.to = 1 /\ UNCHANGED <<panel, page, shown>>
        /\ server'.answers[1] = IF r.op = "delete" THEN NoTopic ELSE x.answer
    BY <1>4, <1>a DEF Handles
  <2> QED BY <1>0, <1>a, <2>1
<1>5. ASSUME NEW r \in requests, Undone(r) PROVE Goal
  <2>1. PICK p \in PanelState : Panel!Refreshed(p, requests \ {r}) /\ p.phase = "idle" /\ p.kept = NoTopic
    BY <1>5, <1>a DEF Undone
  <2>2. requests \ {r} \in SUBSET requests
    OBVIOUS
  <2> QED BY <2>1, <2>2, RefreshedAlike
<1>6. ASSUME NEW r \in requests, Reveals(r), UNCHANGED <<server, shown>> PROVE Goal
  <2>1. PICK p \in PanelState : (Panel!Refreshed(p, requests \ {r}) \/ Panel!Unrefreshed(p, requests \ {r})) /\ p.kept = r.answer
    BY <1>6 DEF Reveals
  <2>2. requests \ {r} \in SUBSET requests
    OBVIOUS
  <2>3. panel' = p
    BY <2>1, <2>2, RefreshedAlike DEF Panel!Unrefreshed
  <2>4. \A y \in requests' : y.op # "draw"
    BY <1>6, ScratchReceived
  <2>5. r.op = "draw" /\ r.stage = "ok" /\ r.answer # NoTopic
    BY <1>6 DEF Reveals, PanelType, KindRequests
  <2>6. server.answers[1] \in {r.answer, NoTopic}
    BY <2>5 DEF ScratchOne
  <2> QED BY <1>6, <2>1, <2>3, <2>4, <2>5, <2>6
<1>7. ASSUME NEW r \in requests, Passed(r), UNCHANGED <<server, shown>> PROVE Goal
  BY <1>0, <1>7 DEF Passed
<1>8. ASSUME Ticks \/ \E f \in fetches, x \in fetches' : Reads(f, x) PROVE Goal
  <2>1. UNCHANGED <<server, shown, page, panel, requests>>
    BY <1>8 DEF Ticks, Reads
  <2> QED BY <1>0, <2>1
<1>9. ASSUME NEW f \in fetches, Replaced(f) PROVE Goal
  <2>1. UNCHANGED <<server, requests>> /\ f.got \in PanelView /\ shown' = f.got
    BY <1>9 DEF Replaced
  <2>2. CASE f.by = "load"
    <3>1. panel' = Panel!Mounted(f.got)
      BY <1>9, <1>a, <2>2 DEF Replaced
    <3>2. panel'.kept = f.got.answer /\ (panel'.phase = "done" => f.got.answer # NoTopic)
      BY <1>a, <3>1 DEF Panel!Mounted, Panel!PanelKind
    <3> QED BY <2>1, <3>2
  <2>3. CASE f.by # "load"
    <3>1. page = "ready" /\ panel' = Panel!Watched(panel, shown, f.got) /\ panel \in PanelState
      BY <1>9, <1>a, <2>3 DEF Replaced, PanelType
    <3>2. f.got.answer # NoTopic => panel'.kept = f.got.answer
      BY <1>a, <3>1 DEF Panel!Watched, Panel!PanelKind, Panel!Cleared, PanelState
    <3>3. f.got.answer = NoTopic => panel' = panel \/ panel'.phase = "idle"
      BY <1>a, <3>1 DEF Panel!Watched, Panel!PanelKind, Panel!Cleared, PanelState
    <3> QED BY <1>0, <2>1, <3>1, <3>2, <3>3
  <2> QED BY <2>2, <2>3
<1> HIDE DEF Goal
<1> QED BY <1>1, <1>2, <1>3, <1>4, <1>5, <1>6, <1>7, <1>8, <1>9, ScratchSteps

\* A ranking that can be taken back keeps what is stored, until its withdrawal has come back.
RankShown == ~Once /\ form.kind = "RANK" =>
    /\ page = "ready" /\ panel.phase = "done" =>
          panel.kept = server.answers[1] \/ \E r \in requests : r.op = "delete" /\ r.stage = "ok"
    /\ \A r \in requests : r.op = "save" /\ r.stage = "ok" => r.answer = server.answers[1]
    /\ \A f \in fetches : f.by = "load" /\ f.got # NoTopic => f.got.answer = server.answers[1]

\* A panel of several boxes, of which none is touched in between, shows the answer of its topic.
MultiShown ==
    form.kind = "MULTI" /\ "drafted" \notin lapses /\ page = "ready" /\ Panel!Voted => panel.kept = shown.answer

\* A text that is empty although its topic has an answer is a card's whose answer was taken back.
ShortKept == form.kind = "SHORT" =>
    /\ page = "ready" /\ Panel!Voted /\ panel.kept = NoTopic =>
          form.place = "card" /\ server.answers[1] = NoTopic /\ \A r \in requests : r.op # "post"
    /\ \A r \in requests : r.op = "delete" /\ r.stage = "ok" => server.answers[1] = NoTopic

\* A text that nobody touches in between is the only one there is.
OneText(v) ==
    /\ panel.kept \in {v, NoTopic} /\ shown.answer \in {v, NoTopic} /\ server.answers[server.round] \in {v, NoTopic}
    /\ \A r \in requests : r.answer \in {v, NoTopic}
    /\ \A f \in fetches : f.got # NoTopic => f.got.answer \in {v, NoTopic}

ShortShown == form.kind = "SHORT" /\ "drafted" \notin lapses => \E v \in PanelAnswer : OneText(v)

\* Every step keeps the boxes.
LEMMA MultiShownSteps ==
  ASSUME PanelType, PanelType', Flowing, MultiShown, form' = form, lapses \subseteq lapses', Steps
  PROVE  MultiShown'
<1> DEFINE Goal == shown'.answer # NoTopic => panel'.kept = shown'.answer
<1> SUFFICES ASSUME form.kind = "MULTI", "drafted" \notin lapses', page' = "ready" PROVE Goal
  BY DEF MultiShown, Panel!Voted
<1>0. page = "ready" /\ shown.answer # NoTopic => panel.kept = shown.answer
  BY DEF MultiShown, Panel!Voted
<1>a. ASSUME shown' = shown, page = "ready", panel'.kept = panel.kept \/ ~Panel!Voted PROVE Goal
  BY <1>0, <1>a DEF Panel!Voted
<1>1. CASE Acts /\ UNCHANGED <<server, shown>>
  <2>1. page = "ready" /\ (panel'.kept = panel.kept \/ ~Panel!Voted)
    BY <1>1 DEF Acts, Votes, Ranks, Retracts, Draws, Lands, Edits, Scratches, Asks, Panel!View
  <2> HIDE DEF Goal
  <2> QED BY <1>1, <1>a, <2>1
<1>2. ASSUME NEW r \in requests, NEW x \in requests', Handles(r, x) PROVE Goal
  BY <1>0, <1>2 DEF Handles
<1>3. \A r, x : ~Submits(r, x) /\ ~Drops(r)
  BY DEF Submits, Drops
<1>4. CASE Opens
  BY <1>0, <1>4 DEF Opens
<1>5. ASSUME NEW r \in requests, Receives(r), UNCHANGED <<server, shown, meant>> PROVE Goal
  <2>0. requests \ {r} \in SUBSET requests
    OBVIOUS
  <2>1. CASE Retried(r) \/ Passed(r)
    BY <1>0, <1>5, <2>1 DEF Retried, Passed
  <2>2. CASE Stored(r) \/ Undone(r)
    <3>1. PICK p \in PanelState : Panel!Refreshed(p, requests \ {r}) /\ p.kept = panel.kept
      BY <2>2 DEF Stored, Undone
    <3>2. panel' = p /\ page = "ready"
      BY <2>0, <3>1, RefreshedAlike
    <3> QED BY <1>0, <1>5, <3>1, <3>2
  <2>3. ~Turns(r) /\ ~Reveals(r) /\ ~Settles(r)
    BY DEF Turns, Reveals, Settles
  <2> QED BY <1>5, <2>1, <2>2, <2>3 DEF Receives
<1>6. CASE Ticks
  BY <1>0, <1>6 DEF Ticks
<1>7. CASE Reloads
  <2>1. page' = "loading"
    BY <1>7, RefreshedAlike DEF Reloads
  <2> QED BY <2>1
<1>8. ASSUME NEW f \in fetches, NEW x \in fetches', Reads(f, x) PROVE Goal
  BY <1>0, <1>8 DEF Reads
<1>9. ASSUME NEW f \in fetches, Replaced(f) PROVE Goal
  <2>1. shown' = f.got /\ f.got \in PanelView /\ panel \in PanelState
    BY <1>9 DEF Replaced, PanelType
  <2>2. CASE f.by = "load"
    BY <1>9, <2>1, <2>2 DEF Replaced, Panel!Mounted, Panel!PanelKind
  <2>3. CASE f.by # "load"
    <3>1. panel' = Panel!Watched(panel, shown, f.got)
      BY <1>9, <2>3 DEF Replaced
    <3>2. f.got.answer # NoTopic => panel'.kept = f.got.answer
      BY <2>1, <3>1 DEF Panel!Watched, Panel!PanelKind, PanelState
    <3> QED BY <2>1, <3>2
  <2> QED BY <2>2, <2>3
<1> HIDE DEF Goal
<1> QED BY <1>1, <1>2, <1>3, <1>4, <1>5, <1>6, <1>7, <1>8, <1>9 DEF Steps

\* Every step keeps the ranking.
LEMMA RankShownSteps ==
  ASSUME PanelType, PanelType', Flowing, Flowing', Loads, Locked, RankShown, form' = form, Steps
  PROVE  RankShown'
<1> DEFINE Goal ==
      /\ page' = "ready" /\ panel'.phase = "done" =>
            panel'.kept = server'.answers[1] \/ \E r \in requests' : r.op = "delete" /\ r.stage = "ok"
      /\ \A r \in requests' : r.op = "save" /\ r.stage = "ok" => r.answer = server'.answers[1]
      /\ \A f \in fetches' : f.by = "load" /\ f.got # NoTopic => f.got.answer = server'.answers[1]
<1> SUFFICES ASSUME ~Once, form.kind = "RANK" PROVE Goal
  BY DEF RankShown, Once
<1>0. /\ page = "ready" /\ panel.phase = "done" =>
            panel.kept = server.answers[1] \/ \E r \in requests : r.op = "delete" /\ r.stage = "ok"
      /\ \A r \in requests : r.op = "save" /\ r.stage = "ok" => r.answer = server.answers[1]
      /\ \A f \in fetches : f.by = "load" /\ f.got # NoTopic => f.got.answer = server.answers[1]
  BY DEF RankShown
<1>a. /\ form.place # "sub" /\ Single /\ server.round = 1
      /\ \A r \in requests : r.op \in {"save", "delete"} /\ r.stage \in {"sent", "ok"} /\ r.to = 1
  BY DEF Once, Single, Flowing, Fits, PanelType, KindRequests, PanelRequest
<1>b. Sends = requests /\ \A r \in requests : /\ requests = {r} /\ page = "ready"
                                              /\ r.op = "save" => panel.phase = "over"
                                              /\ \A f \in fetches : f.by # "load"
  <2>1. Sends = requests
    BY <1>a DEF Sends
  <2>2. \A r \in requests : r.mine /\ requests = {r} /\ (r.op = "save" => panel.phase = "over")
    BY <1>a, <2>1 DEF Locked, Locks
  <2> QED BY <1>a, <2>1, <2>2 DEF Flowing, Loads, Once
<1>c. ASSUME UNCHANGED <<server, fetches>>,
             \A r \in requests' : r \in requests \/ r.stage = "sent",
             page' = "ready" /\ panel'.phase = "done" => page = "ready" /\ panel.phase = "done" /\ panel'.kept = panel.kept /\ requests \subseteq requests'
      PROVE  Goal
  BY <1>0, <1>c
<1>1. CASE Acts /\ UNCHANGED <<server, shown>>
  <2>1. CASE Retracts
    <3>1. UNCHANGED fetches /\ page = "ready" /\ panel'.kept = panel.kept /\ panel'.phase = panel.phase
          /\ \E x : requests' = requests \cup {x} /\ x.stage = "sent"
      BY <2>1 DEF Retracts, Asks
    <3> HIDE DEF Goal
    <3> QED BY <1>1, <1>c, <3>1
  <2>2. ASSUME NEW a \in Panel!Answers, Ranks(a) PROVE Goal
    <3>1. UNCHANGED fetches /\ panel'.phase = "over"
          /\ \E x : requests' = requests \cup {x} /\ x.stage = "sent"
      BY <2>2 DEF Ranks, Asks
    <3> HIDE DEF Goal
    <3> QED BY <1>1, <1>c, <3>1
  <2>3. CASE Edits
    <3>1. UNCHANGED <<fetches, requests>> /\ panel'.phase = "playing"
      BY <2>3 DEF Edits
    <3> HIDE DEF Goal
    <3> QED BY <1>1, <1>c, <3>1
  <2>4. ~Draws /\ ~Lands /\ ~Scratches /\ \A op, a : ~Votes(op, a)
    BY DEF Draws, Lands, Scratches, Votes
  <2> HIDE DEF Goal
  <2> QED BY <1>1, <2>1, <2>2, <2>3, <2>4 DEF Acts
<1>2. ASSUME NEW r \in requests, NEW x \in requests', Handles(r, x) PROVE Goal
  <2>1. /\ requests' = {x} /\ x.op = r.op /\ x.stage = "ok" /\ UNCHANGED <<panel, fetches>>
        /\ server'.answers[1] = IF r.op = "delete" THEN NoTopic ELSE x.answer
    BY <1>2, <1>a, <1>b DEF Handles
  <2> QED BY <1>a, <1>b, <2>1
<1>3. \A r, x : ~Submits(r, x) /\ ~Drops(r)
  BY DEF Submits, Drops
<1>4. ~Opens /\ ~Reloads
  BY <1>a DEF Opens, Reloads
<1>5. ASSUME NEW r \in requests, Receives(r), UNCHANGED <<server, shown, meant>> PROVE Goal
  <2>0. requests \ {r} \in SUBSET requests /\ requests \ {r} = {}
    BY <1>b
  <2>a. ASSUME NEW p \in PanelState, Panel!Refreshed(p, requests \ {r})
        PROVE  requests' = {} /\ panel' = p /\ \A f \in fetches' : f.by = "load" => f.got = NoTopic
    BY <1>b, <2>0, <2>a, RefreshedAlike
  <2>1. CASE Undone(r)
    <3>1. PICK p \in PanelState : Panel!Refreshed(p, requests \ {r}) /\ p.phase = "idle"
      BY <2>1 DEF Undone
    <3> QED BY <2>a, <3>1
  <2>2. CASE Settles(r)
    <3>1. PICK p \in PanelState : Panel!Refreshed(p, requests \ {r}) /\ p.kept = r.answer
      BY <2>2 DEF Settles
    <3>2. r.answer = server.answers[1]
      BY <1>0, <2>2 DEF Settles
    <3> QED BY <1>5, <2>a, <3>1, <3>2
  <2>3. ~Retried(r) /\ ~Passed(r) /\ ~Stored(r) /\ ~Turns(r) /\ ~Reveals(r)
    <3>1. r.mine /\ r.op \in {"save", "delete"} /\ r.stage \in {"sent", "ok"}
      BY <1>a, <1>b DEF Locked, Locks
    <3> QED BY <3>1 DEF Retried, Passed, Stored, Turns, Reveals
  <2> HIDE DEF Goal
  <2> QED BY <1>5, <2>1, <2>2, <2>3 DEF Receives
<1>6. CASE Ticks
  BY <1>0, <1>6 DEF Ticks
<1>7. ASSUME NEW f \in fetches, NEW x \in fetches', Reads(f, x) PROVE Goal
  <2>1. x.got.answer = server.answers[1] /\ fetches' = (fetches \ {f}) \cup {x} /\ UNCHANGED <<server, page, panel, requests>>
    BY <1>7, <1>a DEF Reads, Panel!View
  <2> QED BY <1>0, <2>1
<1>8. ASSUME NEW f \in fetches, Replaced(f) PROVE Goal
  <2>1. UNCHANGED <<server, requests>> /\ f.got \in PanelView /\ f.got # NoTopic /\ fetches' = fetches \ {f}
    BY <1>8 DEF Replaced
  <2>2. CASE f.by = "load"
    <3>1. panel' = Panel!Mounted(f.got)
      BY <1>8, <2>2 DEF Replaced
    <3>2. panel'.kept = f.got.answer
      BY <3>1 DEF Panel!Mounted, Panel!PanelKind
    <3>3. f.got.answer = server.answers[1]
      BY <1>0, <2>1, <2>2
    <3> QED BY <1>0, <2>1, <3>2, <3>3
  <2>3. CASE f.by # "load"
    <3>1. page' = page /\ panel' = panel
      BY <1>8, <1>a, <2>1, <2>3, WatchedAtRest DEF Replaced
    <3> QED BY <1>0, <2>1, <3>1
  <2> QED BY <2>2, <2>3
<1> HIDE DEF Goal
<1> QED BY <1>1, <1>2, <1>3, <1>4, <1>5, <1>6, <1>7, <1>8 DEF Steps

\* The requests of a question for a text.
LEMMA ShortRequests ==
  ASSUME PanelType, Flowing, form.kind = "SHORT"
  PROVE  /\ \A r \in requests : /\ r.op \in {"post", "delete"} /\ r.stage \in {"sent", "ok", "conflict"}
                                /\ r.op = "delete" => ~Once /\ form.place # "sub" /\ r.to = 1 /\ r.answer = NoTopic
                                /\ r.op = "post" => r.answer # NoTopic
         /\ server.round \in 1..2 /\ (server.round = 1 => server.answers[2] = NoTopic)
         /\ form.place # "sub" => server.round = 1
<1>1. \A r \in requests : r \in KindRequests /\ Fits(r)
  BY DEF PanelType, Flowing
<1>2. \A r \in requests : r.op \in {"post", "patch", "delete", "draw", "save"} /\ r.stage \in {"landing", "sent", "ok", "conflict", "failed", "turning"}
  BY DEF PanelType, KindRequests, PanelRequest
<1>3. \A r \in requests : r.op \in {"post", "delete"} /\ r.stage \in {"sent", "ok", "conflict"}
  BY <1>1, <1>2 DEF KindRequests, Fits
<1>4. \A r \in requests : r.op = "delete" => ~Once /\ form.place # "sub" /\ r.to = 1 /\ r.answer = NoTopic
  BY <1>1 DEF Fits, Once
<1>5. \A r \in requests : r.op = "post" => r.answer # NoTopic
  BY <1>1 DEF KindRequests
<1> QED BY <1>3, <1>4, <1>5 DEF PanelType, Flowing

\* Every step keeps the text.
LEMMA ShortKeptSteps ==
  ASSUME PanelType, PanelType', Flowing, Locked, ShortKept, form' = form, Steps
  PROVE  ShortKept'
<1> DEFINE Goal ==
      /\ page' = "ready" /\ shown'.answer # NoTopic /\ panel'.kept = NoTopic =>
            form.place = "card" /\ server'.answers[1] = NoTopic /\ \A r \in requests' : r.op # "post"
      /\ \A r \in requests' : r.op = "delete" /\ r.stage = "ok" => server'.answers[1] = NoTopic
<1> SUFFICES ASSUME form.kind = "SHORT" PROVE Goal
  BY DEF ShortKept, Panel!Voted
<1>0. /\ page = "ready" /\ shown.answer # NoTopic /\ panel.kept = NoTopic =>
            form.place = "card" /\ server.answers[1] = NoTopic /\ \A r \in requests : r.op # "post"
      /\ \A r \in requests : r.op = "delete" /\ r.stage = "ok" => server.answers[1] = NoTopic
  BY DEF ShortKept, Panel!Voted
<1>a. \A r \in requests : /\ r.op \in {"post", "delete"} /\ r.stage \in {"sent", "ok", "conflict"}
                          /\ r.op = "delete" => form.place # "sub" /\ r.to = 1 /\ requests = {r}
  <2>1. \A r \in requests : /\ r.op \in {"post", "delete"} /\ r.stage \in {"sent", "ok", "conflict"}
                            /\ r.op = "delete" => ~Once /\ form.place # "sub" /\ r.to = 1
    BY ShortRequests
  <2>2. Sends = requests
    BY <2>1 DEF Sends
  <2>3. ~Once => \A r \in requests : requests = {r}
    BY <2>2 DEF Locked, Locks, Single
  <2> QED BY <2>1, <2>3
<1>b. ASSUME NEW p, NEW rs \in SUBSET requests, Panel!Refreshed(p, rs)
      PROVE  /\ panel' = p /\ page' = (IF form.place = "card" THEN page ELSE "loading")
             /\ form.place = "card" => requests' = rs
             /\ \A y \in requests' : \E x \in rs : y.op = x.op /\ y.stage = x.stage
  <2>1. \A y \in requests' : \E x \in rs : Alike(x, y)
    BY <1>b, RefreshedAlike
  <2>2. \A y \in requests' : \E x \in rs : y.op = x.op /\ y.stage = x.stage
    BY <1>a, <2>1 DEF Alike
  <2> QED BY <1>b, <2>2, RefreshedAlike
<1>c. ASSUME UNCHANGED <<server, shown>>,
             \A y \in requests' : y \in requests \/ y.stage = "sent",
             page' = "ready" /\ shown.answer # NoTopic /\ panel'.kept = NoTopic =>
                page = "ready" /\ panel.kept = NoTopic /\ \A y \in requests' : y \in requests \/ y.op # "post"
      PROVE  Goal
  BY <1>0, <1>c
<1>1. CASE Acts /\ UNCHANGED <<server, shown>>
  <2>1. ASSUME NEW op \in {"post", "patch"}, NEW a \in Panel!Answers, Votes(op, a) PROVE Goal
    <3>1. shown.answer = NoTopic /\ \E x : requests' = requests \cup {x} /\ x.stage = "sent"
      BY <2>1 DEF Votes, Asks, Panel!Voted
    <3> HIDE DEF Goal
    <3> QED BY <1>1, <1>c, <3>1
  <2>2. CASE Retracts
    <3>1. page = "ready" /\ panel'.kept = panel.kept /\ \E x : requests' = requests \cup {x} /\ x.op = "delete" /\ x.stage = "sent"
      BY <2>2 DEF Retracts, Asks
    <3> HIDE DEF Goal
    <3> QED BY <1>1, <1>c, <3>1
  <2>3. CASE Edits
    <3>1. requests' = requests /\ shown.answer = NoTopic
      BY <2>3 DEF Edits, Panel!Voted
    <3> HIDE DEF Goal
    <3> QED BY <1>1, <1>c, <3>1
  <2>4. ~Draws /\ ~Lands /\ ~Scratches /\ \A a : ~Ranks(a)
    BY DEF Draws, Lands, Scratches, Ranks
  <2> HIDE DEF Goal
  <2> QED BY <1>1, <2>1, <2>2, <2>3, <2>4 DEF Acts
<1>2. ASSUME NEW r \in requests, NEW x \in requests', Handles(r, x) PROVE Goal
  <2>1. /\ requests' = (requests \ {r}) \cup {x} /\ x.op = r.op /\ UNCHANGED <<panel, page, shown>>
        /\ r.to \in 1..2
    BY <1>2 DEF Handles, PanelType, KindRequests, PanelRequest
  <2>2. CASE r.op = "post"
    <3>1. \A q \in requests' : q.op # "delete"
      BY <1>a, <2>1, <2>2
    <3> QED BY <1>0, <2>1, <2>2, <3>1
  <2>3. CASE r.op = "delete"
    <3>1. server'.answers[1] = NoTopic /\ requests' = {x}
      BY <1>2, <1>a, <2>1, <2>3 DEF Handles
    <3> QED BY <1>0, <2>1, <2>3, <3>1
  <2> QED BY <1>a, <2>2, <2>3
<1>3. \A r, x : ~Submits(r, x) /\ ~Drops(r)
  BY DEF Submits, Drops
<1>4. CASE Opens
  BY <1>0, <1>4 DEF Opens
<1>5. ASSUME NEW r \in requests, Receives(r), UNCHANGED <<server, shown, meant>> PROVE Goal
  <2>0. requests \ {r} \in SUBSET requests
    OBVIOUS
  <2>1. CASE Passed(r)
    <3>1. UNCHANGED <<panel, page>> /\ requests' = requests \ {r}
      BY <2>1 DEF Passed
    <3> QED BY <1>0, <1>5, <3>1
  <2>2. CASE Stored(r)
    <3>1. PICK p \in PanelState : Panel!Refreshed(p, requests \ {r}) /\ p.kept = panel.kept
      BY <2>2 DEF Stored
    <3>2. r.op = "post"
      BY <1>a, <2>2 DEF Stored
    <3>3. panel' = p /\ (page' = "ready" => page = "ready") /\ \A y \in requests' : \E x \in requests : y.op = x.op /\ y.stage = x.stage
      BY <1>b, <2>0, <3>1
    <3> QED BY <1>0, <1>5, <3>1, <3>2, <3>3
  <2>3. CASE Undone(r)
    <3>1. PICK p \in PanelState : Panel!Refreshed(p, requests \ {r})
      BY <2>3 DEF Undone
    <3>2. r.op = "delete" /\ requests \ {r} = {} /\ server.answers[1] = NoTopic
      BY <1>0, <1>a, <2>3 DEF Undone
    <3>3. requests' = {} /\ page' = (IF form.place = "card" THEN page ELSE "loading")
      BY <1>b, <2>0, <3>1, <3>2
    <3>4. page' = "ready" => form.place = "card"
      BY <3>3
    <3> QED BY <1>5, <3>2, <3>3, <3>4
  <2>4. ~Retried(r) /\ ~Turns(r) /\ ~Reveals(r) /\ ~Settles(r)
    BY DEF Retried, Turns, Reveals, Settles, Panel!Retries, Panel!Landing, Panel!PanelKind
  <2> HIDE DEF Goal
  <2> QED BY <1>5, <2>1, <2>2, <2>3, <2>4 DEF Receives
<1>6. ASSUME Ticks \/ \E f \in fetches, x \in fetches' : Reads(f, x) PROVE Goal
  <2>1. UNCHANGED <<server, shown, page, panel, requests>>
    BY <1>6 DEF Ticks, Reads
  <2> QED BY <1>0, <2>1
<1>7. CASE Reloads
  <2>1. page' = "loading" /\ (\A y \in requests' : \E x \in requests : y.op = x.op /\ y.stage = x.stage) /\ UNCHANGED server
    <3>1. requests \in SUBSET requests
      OBVIOUS
    <3> QED BY <1>7, <1>b, <3>1 DEF Reloads
  <2> QED BY <1>0, <2>1
<1>8. ASSUME NEW f \in fetches, Replaced(f) PROVE Goal
  <2>1. UNCHANGED <<server, requests>> /\ shown' = f.got /\ f.got \in PanelView /\ panel \in PanelState
    BY <1>8 DEF Replaced, PanelType
  <2>2. CASE f.by = "load"
    <3>1. panel'.kept = f.got.answer
      BY <1>8, <2>2 DEF Replaced, Panel!Mounted, Panel!PanelKind
    <3> QED BY <1>0, <2>1, <3>1
  <2>3. CASE f.by # "load" /\ page # "ready"
    BY <1>0, <1>8, <2>1, <2>3 DEF Replaced
  <2>4. CASE f.by # "load" /\ page = "ready"
    <3>1. panel' = Panel!Watched(panel, shown, f.got)
      BY <1>8, <2>4 DEF Replaced
    <3>2. panel'.kept = IF f.got.answer # shown.answer /\ panel.kept = NoTopic THEN f.got.answer ELSE panel.kept
      BY <2>1, <3>1 DEF Panel!Watched, Panel!PanelKind, PanelState
    <3> QED BY <1>0, <2>1, <2>4, <3>2
  <2> QED BY <2>2, <2>3, <2>4
<1> HIDE DEF Goal
<1> QED BY <1>1, <1>2, <1>3, <1>4, <1>5, <1>6, <1>7, <1>8 DEF Steps

\* Every step keeps it the only one.
LEMMA ShortShownSteps ==
  ASSUME PanelType, PanelType', Flowing, ShortShown, form' = form, lapses \subseteq lapses', Steps
  PROVE  ShortShown'
<1> SUFFICES ASSUME form.kind = "SHORT", "drafted" \notin lapses' PROVE \E v \in PanelAnswer : OneText(v)'
  BY DEF ShortShown
<1>0. PICK v \in PanelAnswer : OneText(v)
  BY DEF ShortShown
<1>a. /\ \A r \in requests : /\ r.op \in {"post", "delete"} /\ r.stage \in {"sent", "ok", "conflict"}
                             /\ r.op = "delete" => r.to = 1 /\ r.answer = NoTopic
      /\ server.round \in 1..2 /\ (server.round = 1 => server.answers[2] = NoTopic)
  BY ShortRequests
<1>b. ASSUME NEW p, NEW rs \in SUBSET requests, Panel!Refreshed(p, rs), UNCHANGED <<server, shown>>, p.kept \in {panel.kept, NoTopic}
      PROVE  OneText(v)'
  <2>1. /\ \A y \in requests' : \E x \in rs : Alike(x, y)
        /\ \A f \in fetches' : f \in fetches \/ f.got = NoTopic
        /\ panel' = p
    BY <1>b, RefreshedAlike
  <2> QED BY <1>0, <1>b, <2>1 DEF Alike, OneText
<1>1. CASE Acts /\ UNCHANGED <<server, shown>>
  <2>1. ASSUME NEW op \in {"post", "patch"}, NEW a \in Panel!Answers, Votes(op, a) PROVE OneText(v)'
    BY <1>0, <1>1, <2>1 DEF Votes, Asks, OneText
  <2>2. CASE Retracts
    BY <1>0, <1>1, <2>2 DEF Retracts, Asks, OneText
  <2>3. CASE Edits
    <3>1. requests' = {} /\ fetches' = {} /\ shown = Panel!View(server) /\ shown.answer = NoTopic
      BY <1>1, <2>3 DEF Edits, Panel!Voted
    <3>2. server.answers[server.round] = NoTopic
      BY <3>1 DEF Panel!View
    <3>3. PICK w \in PanelAnswer : w = panel'.kept
      BY DEF PanelType, PanelState
    <3>4. OneText(w)'
      BY <1>1, <3>1, <3>2, <3>3 DEF OneText
    <3> QED BY <3>4
  <2>4. ~Draws /\ ~Lands /\ ~Scratches /\ \A a : ~Ranks(a)
    BY DEF Draws, Lands, Scratches, Ranks
  <2> QED BY <1>1, <2>1, <2>2, <2>3, <2>4 DEF Acts
<1>2. ASSUME NEW r \in requests, NEW x \in requests', Handles(r, x) PROVE OneText(v)'
  <2>1. /\ requests' = (requests \ {r}) \cup {x} /\ x.answer = r.answer /\ UNCHANGED <<panel, shown, fetches>>
        /\ server'.round = server.round /\ r.to = server.round
    BY <1>2, <1>a DEF Handles
  <2>2. server'.answers[r.to] \in {server.answers[r.to], x.answer, NoTopic}
    BY <1>2 DEF Handles
  <2> QED BY <1>0, <2>1, <2>2 DEF OneText
<1>3. \A r, x : ~Submits(r, x) /\ ~Drops(r)
  BY DEF Submits, Drops
<1>4. CASE Opens
  BY <1>0, <1>4, <1>a DEF Opens, OneText
<1>5. ASSUME NEW r \in requests, Receives(r), UNCHANGED <<server, shown, meant>> PROVE OneText(v)'
  <2>0. requests \ {r} \in SUBSET requests
    OBVIOUS
  <2>1. CASE Passed(r)
    BY <1>0, <1>5, <2>1 DEF Passed, OneText
  <2>2. CASE Stored(r) \/ Undone(r)
    <3>1. PICK p \in PanelState : Panel!Refreshed(p, requests \ {r}) /\ p.kept \in {panel.kept, NoTopic}
      BY <2>2 DEF Stored, Undone
    <3> QED BY <1>5, <1>b, <2>0, <3>1
  <2>3. ~Retried(r) /\ ~Turns(r) /\ ~Reveals(r) /\ ~Settles(r)
    BY DEF Retried, Turns, Reveals, Settles, Panel!Retries, Panel!Landing, Panel!PanelKind
  <2> QED BY <1>5, <2>1, <2>2, <2>3 DEF Receives
<1>6. CASE Ticks
  BY <1>0, <1>6 DEF Ticks, OneText
<1>7. CASE Reloads
  BY <1>7, <1>b DEF Reloads
<1>8. ASSUME NEW f \in fetches, NEW x \in fetches', Reads(f, x) PROVE OneText(v)'
  BY <1>0, <1>8 DEF Reads, OneText, Panel!View
<1>9. ASSUME NEW f \in fetches, Replaced(f) PROVE OneText(v)'
  <2>1. UNCHANGED <<server, requests>> /\ shown' = f.got /\ fetches' = fetches \ {f} /\ f.got # NoTopic /\ panel \in PanelState
    BY <1>9 DEF Replaced, PanelType
  <2>2. panel'.kept \in {panel.kept, f.got.answer}
    <3>1. CASE f.by = "load"
      BY <1>9, <3>1 DEF Replaced, Panel!Mounted, Panel!PanelKind
    <3>2. CASE f.by # "load"
      BY <1>9, <2>1, <3>2 DEF Replaced, Panel!Watched, Panel!PanelKind, PanelState
    <3> QED BY <3>1, <3>2
  <2> QED BY <1>0, <2>1, <2>2 DEF OneText
<1> QED BY <1>1, <1>2, <1>3, <1>4, <1>5, <1>6, <1>7, <1>8, <1>9 DEF Steps

\* What holds of the answers of a panel, if nothing happened that is excused.
AnswersInOrder ==
    /\ Flowing /\ Loads
    /\ FinalMeant /\ Truths /\ FinalShown
    /\ Locked /\ SingleMeant
    /\ ScratchOne /\ ScratchMeant /\ ScratchShown
    /\ RankShown /\ MultiShown /\ ShortKept /\ ShortShown

\* The panel starts with what is stored.
LEMMA AnswersInit == ASSUME PanelType, Panel!Init PROVE AnswersInOrder
<1> USE DEF Panel!PanelKind, Panel!Voted
<1>1. PICK a \in Panel!ChoicesOf(1) \cup {NoTopic} :
          /\ server = [round |-> 1, answers |-> [r \in 1..2 |-> IF r = 1 THEN a ELSE NoTopic]]
          /\ meant = server.answers
  BY DEF Panel!Init, Panel!Rounds
<1>2. /\ requests = {} /\ fetches = {} /\ page = "ready" /\ lapses = {}
      /\ shown = [round |-> server.round, answer |-> server.answers[server.round]] /\ panel = Panel!Mounted(shown)
  BY DEF Panel!Init, Panel!View
<1>3. server.round = 1 /\ server.answers[1] = a /\ server.answers[2] = NoTopic /\ shown.round = 1 /\ shown.answer = a
      /\ a \in PanelAnswer /\ meant[1] = a /\ meant[2] = NoTopic /\ meant \in [1..2 -> PanelAnswer \cup {Panel!Anything}]
  BY <1>1, <1>2, AnswerKinds DEF PanelAnswer
<1>4. /\ ~panel.voting /\ ~panel.busy
      /\ form.kind \in {"MULTI", "SHORT", "SCRATCH", "RANK"} => panel.kept = a
      /\ panel.phase = IF a # NoTopic /\ form.kind \in {"SCRATCH", "RANK"} THEN "done" ELSE "idle"
  BY <1>2, <1>3 DEF Panel!Mounted
<1>5. Flowing /\ Loads
  BY <1>2, <1>3 DEF Flowing, Loads
<1>6. FinalMeant /\ Truths /\ FinalShown
  <2>1. FinalMeant
    BY <1>1, <1>2 DEF FinalMeant
  <2>2. Truths
    BY <1>2, <1>3 DEF Truths, Truthful
  <2> QED BY <1>2, <1>3, <1>4, <2>1, <2>2 DEF FinalShown
<1>7. Locked /\ SingleMeant
  BY <1>1, <1>2, <1>4 DEF Locked, Locks, SingleMeant, Sends
<1>8. ScratchOne /\ ScratchMeant /\ ScratchShown
  <2>1. ScratchOne /\ ScratchMeant
    BY <1>2, <1>3 DEF ScratchOne, ScratchMeant
  <2>2. ScratchShown
    BY <1>2, <1>3, <1>4 DEF ScratchShown, Scratchy
  <2> QED BY <2>1, <2>2
<1>9. RankShown /\ MultiShown /\ ShortKept
  BY <1>2, <1>3, <1>4 DEF RankShown, MultiShown, ShortKept
<1>10. ShortShown
  BY <1>2, <1>3, <1>4 DEF ShortShown, OneText
<1> QED BY <1>5, <1>6, <1>7, <1>8, <1>9, <1>10 DEF AnswersInOrder

\* When nothing is under way, the answer that is stored and shown is the last one asked for.
LEMMA AnswersCount ==
  ASSUME PanelType, Orderly => AnswersInOrder
  PROVE  LastAnswerCounts
<1> USE DEF Panel!PanelKind, Panel!Voted
<1> SUFFICES ASSUME requests = {}, fetches = {}, page = "ready", Orderly, AnswersInOrder
    PROVE  /\ \A r \in 1..2 : meant[r] \in {Panel!Anything, server.answers[r]}
           /\ Panel!Voted /\ shown = Panel!View(server) /\ "drafted" \notin lapses =>
                 Panel!Display = shown.answer \/ Panel!ShowsAnother
  BY DEF LastAnswerCounts, Panel!LastAnswerCounts, Panel!AtRest, Panel!Rounds, Orderly, Cleanly
<1> USE DEF AnswersInOrder
<1>1. Once => \A r \in 1..2 : meant[r] \in {Panel!Anything, server.answers[r]}
  BY DEF FinalMeant
<1>2. ~Once => server.round = 1 /\ shown.round = 1 /\ meant[2] = NoTopic /\ server.answers[2] = NoTopic
  BY DEF Once, Flowing
<1>3. ~Once => meant[1] \in {Panel!Anything, server.answers[1]}
  <2>1. Single => meant[1] \in {Panel!Anything, server.answers[1]}
    BY DEF SingleMeant, Sends
  <2>2. Scratchy => meant[1] \in {Panel!Anything, server.answers[1]}
    BY DEF ScratchMeant
  <2> QED BY <2>1, <2>2 DEF Single, Scratchy
<1>4. \A r \in 1..2 : meant[r] \in {Panel!Anything, server.answers[r]}
  BY <1>1, <1>2, <1>3
<1>5. ASSUME shown.answer # NoTopic, shown = Panel!View(server), "drafted" \notin lapses
      PROVE  Panel!Display = shown.answer \/ Panel!ShowsAnother
  <2>1. shown.answer = server.answers[server.round] /\ shown.round = server.round
    BY <1>5 DEF Panel!View
  <2>2. form.kind = "SPECTRUM" => Panel!ShowsAnother
    BY DEF Panel!ShowsAnother
  <2>3. form.kind = "MULTI" => panel.kept = shown.answer
    BY <1>5 DEF MultiShown
  <2>4. form.kind = "SHORT" => panel.kept = shown.answer
    BY <1>2, <1>5, <2>1 DEF ShortShown, OneText, ShortKept, Once
  <2>5. Once /\ form.kind \in {"SCRATCH", "RANK"} /\ panel.phase = "done" => panel.kept = shown.answer
    BY <2>1 DEF FinalShown
  <2>6. ~Once /\ form.kind = "SCRATCH" /\ panel.phase = "done" => panel.kept = shown.answer
    BY <1>2, <1>5, <2>1 DEF ScratchShown, Scratchy
  <2>7. ~Once /\ form.kind = "RANK" /\ panel.phase = "done" => panel.kept = shown.answer
    BY <1>2, <2>1 DEF RankShown
  <2> QED BY <2>2, <2>3, <2>4, <2>5, <2>6, <2>7 DEF Panel!Display, Panel!Drafting
<1> QED BY <1>4, <1>5

\* Every step keeps that.
LEMMA AnswersNext ==
  ASSUME PanelType, PanelType', Orderly => AnswersInOrder, Panel!Next
  PROVE  Orderly' => AnswersInOrder'
<1> SUFFICES ASSUME Orderly' PROVE AnswersInOrder'
  OBVIOUS
<1>1. Orderly => Flowing
  BY DEF AnswersInOrder
<1>2. Orderly /\ form' = form /\ lapses \subseteq lapses' /\ Steps
  BY <1>1, OrderlySteps, FlowingFlows
<1>3. Flowing'
  BY <1>1, FlowingSteps
<1> USE <1>2, <1>3 DEF AnswersInOrder
<1>4. Loads' /\ FinalMeant' /\ Truths' /\ FinalShown'
  BY LoadsSteps, FinalMeantSteps, TruthsSteps, FinalShownSteps
<1>5. Locked' /\ SingleMeant'
  BY LockedSteps, SingleMeantSteps
<1>6. ScratchOne' /\ ScratchMeant' /\ ScratchShown'
  BY ScratchOneSteps, ScratchMeantSteps, ScratchShownSteps
<1>7. RankShown' /\ MultiShown' /\ ShortKept' /\ ShortShown'
  BY RankShownSteps, MultiShownSteps, ShortKeptSteps, ShortShownSteps
<1> QED BY <1>4, <1>5, <1>6, <1>7

\* Nothing else concerns it.
LEMMA AnswersUnchanged ==
  ASSUME UNCHANGED panelVars, Orderly => AnswersInOrder
  PROVE  Orderly' => AnswersInOrder'
<1>1. UNCHANGED <<form, server, shown, page, panel, requests, fetches, lapses, meant>>
  BY DEF panelVars
<1> SUFFICES ASSUME Orderly, AnswersInOrder PROVE AnswersInOrder'
  BY <1>1 DEF Orderly, Cleanly
<1> USE <1>1 DEF AnswersInOrder, Once
<1>2. Flowing' /\ Loads'
  BY DEF Flowing, Fits, Fetched, Loads
<1>3. FinalMeant' /\ Truths' /\ FinalShown'
  BY DEF FinalMeant, Bringing, Doomed, Truths, Truthful, FinalShown
<1>4. Locked' /\ SingleMeant'
  BY DEF Locked, Locks, Sends, Single, SingleMeant
<1>5. ScratchOne' /\ ScratchMeant' /\ ScratchShown'
  BY DEF ScratchOne, ScratchMeant, ScratchShown, Scratchy, Panel!Voted
<1>6. RankShown' /\ MultiShown' /\ ShortKept' /\ ShortShown'
  BY DEF RankShown, MultiShown, ShortKept, ShortShown, OneText, Panel!Voted
<1> QED BY <1>2, <1>3, <1>4, <1>5, <1>6

\* The panels of the web client lose no answer of their own and show no other one, for every set of
\* choices, every bound and every question: when nothing is under way and nothing was refused, lost or
\* excused, the answer that is stored is the last one that was asked for, and the one that is shown.
THEOREM LastAnswersAreStored == ScopedSpec => []LastAnswerCounts
<1> DEFINE Inv == PanelInv /\ (Orderly => AnswersInOrder)
<1>1. ScopedInit => Inv
  BY PanelInitInv, AnswersInit DEF ScopedInit, PanelInv
<1>2. Inv /\ [ScopedNext]_<<vars, scope, pageVars>> => Inv'
  <2>1. Inv /\ Panel!Next => Inv'
    BY PanelNextInv, AnswersNext DEF PanelInv
  <2>2. Inv /\ UNCHANGED panelVars => Inv'
    BY PanelUnchanged, AnswersUnchanged
  <2> QED BY <2>1, <2>2, PanelScoped
<1>3. Inv => LastAnswerCounts
  BY AnswersCount DEF PanelInv
<1> HIDE DEF Inv
<1> QED BY <1>1, <1>2, <1>3, PTL DEF ScopedSpec

-----------------------------------------------------------------------------
(* The explorer of stances.  What is open is held in the explorer, the page *)
(* and the URL; answers arrive while the user moves on.                     *)

\* Where a stance or none is open.
Places == Stances \cup {NoTopic}
\* Proposals, each below a stance or below none.
Proposals(f) == DOMAIN f \subseteq Applications /\ \A a \in DOMAIN f : f[a] \in Places
\* Where a navigation may lead.
Targets == [section : {"vote", "stances"}, stance : Places, tab : {"DETAIL", "DISCUSSION"}]

\* What the explorer may hold while it is mounted.
Views == [node : Places, application : Applications \cup {NoTopic}, tab : {"DETAIL", "DISCUSSION"},
          editing : BOOLEAN, report : BOOLEAN, proposal : Places \cup {"closed"}]

\* Requests know what they are about, and below which stance.
WorkTyped ==
    /\ DOMAIN work = Explorer!Kinds
    /\ \A k \in Explorer!Kinds : work[k] # NoTopic =>
          /\ DOMAIN work[k] = {"at", "about", "below", "list", "ok", "moved"}
          /\ work[k].below \in Places /\ Proposals(work[k].list) /\ work[k].moved \in BOOLEAN
          /\ k \in {"add", "save", "withdraw"} => work[k].about \in Applications

\* So do the lists, and what a former explorer has left behind.
ListsTyped ==
    /\ Proposals(mine) /\ Proposals(privateApplications)
    /\ \A w \in left : w.about \in Applications /\ w.below \in Places

\* The page is where the navigation leads, or else where the URL is.
Addressed ==
    /\ place \in [section : {"vote", "stances"}, stance : Places]
    /\ url \in Targets /\ target \in Targets \cup {NoTopic}
    /\ IF target # NoTopic THEN target.section = place.section ELSE url.section = place.section
    /\ place.section = "stances" => IF target # NoTopic THEN target.stance = place.stance ELSE url.stance = place.stance

\* The explorer is mounted only on its section.  Not both a stance and a proposal are open; stance and tab are
\* those of the page and of the navigation, or else of the URL: no watcher has anything left to do.
ViewTyped ==
    /\ view \in Views
    /\ view.application # NoTopic => view.node = NoTopic
    /\ place.section = "stances" /\ place.stance = view.node
    /\ IF target # NoTopic THEN target.stance = place.stance /\ target.tab = view.tab
       ELSE url.stance = place.stance /\ url.tab = view.tab

\* What is recorded of the openings.
OpenedTyped ==
    /\ DOMAIN opened = {"panel", "dialog", "editing", "report", "fromStance", "overtaken"}
    /\ opened.report \in BOOLEAN /\ opened.editing \in BOOLEAN
    /\ opened.fromStance \in BOOLEAN /\ opened.overtaken \in BOOLEAN

\* What was opened last is open, unless it was closed at once by the watcher of the property selected.
Known ==
    /\ view.proposal = opened.dialog
    /\ IF view.application # NoTopic THEN view.application = opened.panel /\ view.editing = opened.editing
       ELSE IF opened.fromStance THEN view.node = NoTopic ELSE view.node = opened.panel
    /\ view.application = NoTopic /\ view.node # NoTopic => view.report = opened.report

\* The user has not moved since the request was sent.
Awaited(k) == work[k] # NoTopic /\ ~work[k].moved
\* Then the dialog of addStance is still open, and the proposal that is saved or withdrawn still shown: at most one
\* of the three is awaited, and its answer changes nothing another one relies on.
Unmoved ==
    /\ Awaited("add") => view.proposal # "closed"
    /\ \A k \in {"save", "withdraw"} : Awaited(k) => view.proposal = "closed" /\ view.application = work[k].about
    /\ Awaited("save") => view.editing
    /\ Awaited("withdraw") => ~view.editing

\* The inductive invariant of the explorer.
ExplorerInv ==
    /\ WorkTyped /\ ListsTyped /\ Addressed /\ OpenedTyped
    /\ view # NoTopic => ViewTyped
    /\ view # NoTopic /\ ~opened.overtaken => Known /\ Unmoved

\* A navigation in progress is something.
LEMMA Targeted == ASSUME NEW t \in Targets PROVE t # NoTopic
BY ExplorerAssumption DEF Targets, Places

\* With nothing under way, the invariant says what is shown.
LEMMA ShownHolds ==
    ASSUME ExplorerInv, view # NoTopic, target = NoTopic, ~opened.overtaken
    PROVE  ShowsWhatWasOpened
<1>1. ViewTyped /\ Known /\ ListsTyped
  BY DEF ExplorerInv
<1>2. NoTopic \notin DOMAIN privateApplications
  BY <1>1, ExplorerAssumption DEF ListsTyped, Proposals
<1> USE DEF ExplorerInv, ShowsWhatWasOpened, Explorer!ShowsWhatWasOpened, Explorer!Panel, Explorer!OnStance,
            Explorer!selectedApplication, Explorer!selectedNode, ViewTyped, Views, Known, Addressed
<1>3. CASE view.application # NoTopic
  BY <1>1, <1>2, <1>3
<1>4. CASE view.application = NoTopic
  BY <1>1, <1>2, <1>4
<1> QED BY <1>3, <1>4

\* Whoever acts in the explorer awaits no answer any more.
LEMMA MovesPass ==
    ASSUME ExplorerInv, Explorer!Move
    PROVE  /\ view # NoTopic /\ ViewTyped /\ WorkTyped'
           /\ \A k \in Explorer!Kinds : ~Awaited(k)'
<1>1. \A k \in Explorer!Kinds : work'[k] = IF work[k] # NoTopic THEN [work[k] EXCEPT !.moved = TRUE] ELSE NoTopic
  BY DEF Explorer!Move, Explorer!Busy
<1>2. DOMAIN work' = Explorer!Kinds
  BY DEF Explorer!Move
<1>3. WorkTyped'
  BY <1>1, <1>2 DEF ExplorerInv, WorkTyped, Proposals, Places
<1>4. \A k \in Explorer!Kinds : ~Awaited(k)'
  BY <1>1 DEF ExplorerInv, WorkTyped, Awaited
<1> QED BY <1>3, <1>4 DEF ExplorerInv, Explorer!Move, Explorer!Mounted

\* emit('select'): page, URL and explorer agree again, and the watcher has closed what is not at the stance.
LEMMA Emitted ==
    ASSUME ExplorerInv, view # NoTopic, NEW v, NEW s \in Places,
           v \in Views,
           v.application # NoTopic => v.node = NoTopic,
           v.node = s, v.tab = "DETAIL", Explorer!Emit(v, s), UNCHANGED url
    PROVE  /\ Addressed' /\ ViewTyped'
           /\ view'.application = (IF s = view.node THEN v.application ELSE NoTopic)
           /\ view'.report = (IF s = view.node THEN v.report ELSE FALSE)
           /\ view'.editing = v.editing /\ view'.proposal = v.proposal
           /\ view'.node = s
<1>1. place' = [place EXCEPT !.stance = s] /\ target' = [section |-> "stances", stance |-> s, tab |-> "DETAIL"]
  BY DEF Explorer!Emit, Explorer!Go
<1>2. ViewTyped /\ Addressed
  BY DEF ExplorerInv
<1>3. target' \in Targets /\ target' # NoTopic
  BY <1>1, Targeted DEF Targets
<1>4. place' \in [section : {"vote", "stances"}, stance : Places] /\ place'.section = "stances" /\ place'.stance = s
  BY <1>1, <1>2 DEF Addressed, ViewTyped, Views
<1>5. Addressed'
  BY <1>1, <1>2, <1>3, <1>4 DEF Addressed
<1>6. CASE s = view.node
  <2>1. view' = v
    BY <1>2, <1>6 DEF Explorer!Emit, Explorer!Flush, ViewTyped, Views
  <2> QED BY <1>1, <1>3, <1>4, <1>5, <1>6, <2>1 DEF ViewTyped, Views
<1>7. CASE s # view.node
  <2>1. view' = [[v EXCEPT !.application = NoTopic, !.node = s] EXCEPT !.report = FALSE]
    BY <1>2, <1>7 DEF Explorer!Emit, Explorer!Flush, ViewTyped, Views
  <2> QED BY <1>1, <1>3, <1>4, <1>5, <1>7, <2>1 DEF ViewTyped, Views
<1> QED BY <1>6, <1>7

\* The way up leads to a stance or to all of them.
LEMMA ParentsArePlaces == ASSUME NEW s \in Stances PROVE StanceParent[s] \in Places
BY ExplorerAssumption DEF Places

\* What is selected, if the view is typed.
LEMMA Selected ==
    ASSUME ExplorerInv, view # NoTopic
    PROVE  /\ Explorer!selectedApplication \in {NoTopic, view.application}
           /\ Explorer!selectedApplication # NoTopic => view.application \in DOMAIN privateApplications
           /\ Explorer!selectedNode \in {NoTopic, view.node}
           /\ Explorer!Panel \in {Explorer!selectedApplication, Explorer!selectedNode}
           /\ Explorer!selectedApplication # NoTopic => Explorer!Panel = view.application
           /\ Explorer!OnStance => view.application = NoTopic \/ view.node = NoTopic
BY DEF Explorer!selectedApplication, Explorer!selectedNode, Explorer!Panel, Explorer!OnStance, ExplorerInv, ViewTyped, Views

\* A stance is opened, or all of them are.
LEMMA NodeSelected ==
    ASSUME ExplorerInv, Explorer!Browse, NEW s \in Places, Explorer!Still,
           Explorer!Emit(Explorer!selectNode(view, s), s), opened' = Explorer!Open(s, FALSE)
    PROVE  ExplorerInv'
<1>1. view # NoTopic /\ ViewTyped /\ WorkTyped' /\ tree /\ view.proposal = "closed" /\ \A k \in Explorer!Kinds : ~Awaited(k)'
  BY MovesPass DEF Explorer!Browse
<1> DEFINE v == Explorer!selectNode(view, s)
<1>2. /\ v \in Views
      /\ v.application = NoTopic /\ v.node = s /\ v.tab = "DETAIL" /\ v.report = view.report /\ v.editing = view.editing
      /\ v.proposal = "closed"
  BY <1>1 DEF Explorer!selectNode, ViewTyped, Views
<1> HIDE DEF v
<1>3. /\ Addressed' /\ ViewTyped' /\ view'.application = NoTopic /\ view'.node = s
      /\ view'.report = (IF s = view.node THEN view.report ELSE FALSE)
      /\ view'.editing = view.editing /\ view'.proposal = "closed"
  BY <1>1, <1>2, Emitted DEF v, Explorer!Still
<1>4. ListsTyped'
  BY DEF Explorer!Still, Explorer!server, ExplorerInv, ListsTyped, Proposals
<1>5. OpenedTyped' /\ opened'.panel = s /\ opened'.fromStance = FALSE /\ opened'.dialog = "closed"
      /\ opened'.report = (view.report /\ s = Explorer!Panel)
  <2>1. (view.report /\ s = Explorer!Panel) \in BOOLEAN
    OBVIOUS
  <2> QED BY <2>1 DEF Explorer!Open, OpenedTyped
<1>6. s # NoTopic => view'.report = opened'.report
  <2>1. CASE s = view.node
    <3>1. s # NoTopic => Explorer!Panel = s
      BY <1>1, <2>1 DEF Explorer!Panel, Explorer!selectedApplication, Explorer!selectedNode, ViewTyped, Views
    <3> QED BY <1>1, <1>3, <1>5, <2>1, <3>1 DEF ViewTyped, Views
  <2>2. CASE s # view.node
    <3>1. s # NoTopic => Explorer!Panel # s
      BY <1>1, <2>2, ExplorerAssumption DEF Explorer!Panel, Explorer!selectedApplication, Explorer!selectedNode, ViewTyped, Views, Places
    <3> QED BY <1>3, <1>5, <2>2, <3>1
  <2> QED BY <2>1, <2>2
<1>7. Known'
  BY <1>3, <1>5, <1>6 DEF Known
<1>8. Unmoved'
  BY <1>1 DEF Unmoved, Explorer!Kinds
<1> QED BY <1>1, <1>3, <1>4, <1>5, <1>7, <1>8 DEF ExplorerInv

\* A proposal is opened; at a stance the watcher closes it.
LEMMA ApplicationSelected ==
    ASSUME ExplorerInv, NEW a \in Applications, Explorer!SelectApplication(a)
    PROVE  ExplorerInv'
<1>1. view # NoTopic /\ ViewTyped /\ WorkTyped' /\ view.proposal = "closed" /\ \A k \in Explorer!Kinds : ~Awaited(k)'
  BY MovesPass DEF Explorer!SelectApplication, Explorer!Browse
<1> DEFINE v == Explorer!selectApplication(view, a)
<1>2. /\ v \in Views
      /\ v.application = a /\ v.node = NoTopic /\ v.tab = "DETAIL" /\ v.editing = FALSE
      /\ v.proposal = "closed"
  BY <1>1 DEF Explorer!selectApplication, ViewTyped, Views, Places
<1> HIDE DEF v
<1>3. /\ Addressed' /\ ViewTyped' /\ view'.node = NoTopic
      /\ view'.application = IF place.stance = NoTopic THEN a ELSE NoTopic
      /\ view'.editing = FALSE /\ view'.proposal = "closed"
  <2>1. Explorer!Emit(v, NoTopic) /\ UNCHANGED url
    BY DEF Explorer!SelectApplication, Explorer!Still, v
  <2> QED BY ZenonT(60), <1>1, <1>2, <2>1, Emitted DEF Places, ViewTyped, Views
<1>4. ListsTyped'
  BY DEF Explorer!SelectApplication, Explorer!Still, Explorer!server, ExplorerInv, ListsTyped, Proposals
<1>5. OpenedTyped' /\ opened'.panel = a /\ opened'.fromStance = (place.stance # NoTopic) /\ opened'.dialog = "closed"
      /\ opened'.editing = FALSE
  <2>1. (view.report /\ a = Explorer!Panel) \in BOOLEAN /\ (place.stance # NoTopic) \in BOOLEAN
    OBVIOUS
  <2> QED BY <2>1 DEF Explorer!SelectApplication, Explorer!Open, OpenedTyped
<1>6. a # NoTopic
  BY ExplorerAssumption
<1>7. Known'
  BY <1>3, <1>5, <1>6 DEF Known
<1>8. Unmoved'
  BY <1>1 DEF Unmoved, Explorer!Kinds
<1> QED BY <1>1, <1>3, <1>4, <1>5, <1>7, <1>8 DEF ExplorerInv

\* The way up and the way back.
LEMMA UpOrClosed ==
    ASSUME ExplorerInv, Explorer!ReturnPrevious \/ Explorer!ClearStance
    PROVE  ExplorerInv'
<1>1. CASE Explorer!ReturnPrevious
  <2> DEFINE up == IF Explorer!selectedApplication # NoTopic THEN privateApplications[Explorer!selectedApplication]
                   ELSE StanceParent[Explorer!selectedNode]
  <2>1. view # NoTopic /\ ViewTyped
    BY <1>1, MovesPass DEF Explorer!ReturnPrevious, Explorer!Browse
  <2>2. up \in Places
    <3>1. CASE Explorer!selectedApplication # NoTopic
      BY <2>1, <3>1, Selected DEF ExplorerInv, ListsTyped, Proposals
    <3>2. CASE Explorer!selectedApplication = NoTopic
      <4>1. Explorer!selectedNode \in Stances
        BY <1>1, <2>1, <3>2, Selected DEF Explorer!ReturnPrevious, Explorer!OnDetail, Explorer!OnStance, ViewTyped, Views, Places
      <4> QED BY <3>2, <4>1, ParentsArePlaces
    <3> QED BY <3>1, <3>2
  <2> QED BY <1>1, <2>2, NodeSelected DEF Explorer!ReturnPrevious
<1>2. CASE Explorer!ClearStance
  BY <1>2, NodeSelected DEF Explorer!ClearStance, Places
<1> QED BY <1>1, <1>2

\* What changes the view in the explorer alone, and what is opened with it.
LEMMA StaysAtPlace ==
    ASSUME ExplorerInv, Explorer!Move, Explorer!Still, UNCHANGED place,
           view' \in [node : {view.node}, application : {view.application}, tab : {"DETAIL", "DISCUSSION"},
                      editing : BOOLEAN, report : BOOLEAN, proposal : Places \cup {"closed"}],
           \/ UNCHANGED target /\ view'.tab = view.tab
           \/ target' = [section |-> "stances", stance |-> place.stance, tab |-> view'.tab],
           OpenedTyped', ~opened'.overtaken => Known'
    PROVE  ExplorerInv'
<1>1. view # NoTopic /\ ViewTyped /\ WorkTyped' /\ \A k \in Explorer!Kinds : ~Awaited(k)'
  BY MovesPass
<1>2. ListsTyped'
  BY DEF Explorer!Still, Explorer!server, ExplorerInv, ListsTyped, Proposals
<1>3. Addressed' /\ ViewTyped'
  <2>1. CASE UNCHANGED target /\ view'.tab = view.tab
    BY <1>1, <2>1 DEF Explorer!Still, ExplorerInv, Addressed, ViewTyped, Views
  <2>2. CASE target' = [section |-> "stances", stance |-> place.stance, tab |-> view'.tab]
    <3>1. target' \in Targets /\ target' # NoTopic
      BY <1>1, <2>2, Targeted DEF ExplorerInv, Addressed, Targets
    <3> QED BY <1>1, <2>2, <3>1 DEF Explorer!Still, ExplorerInv, Addressed, ViewTyped, Views
  <2> QED BY <2>1, <2>2
<1>4. Unmoved'
  BY <1>1 DEF Unmoved, Explorer!Kinds
<1> QED BY <1>1, <1>2, <1>3, <1>4 DEF ExplorerInv

\* What the invariant says of an explorer that is mounted.
LEMMA Browsed ==
    ASSUME ExplorerInv, view # NoTopic
    PROVE  ViewTyped /\ OpenedTyped /\ (~opened.overtaken => Known)
BY DEF ExplorerInv

\* The tab of the stance changes in the URL, too.
LEMMA TabSelected ==
    ASSUME ExplorerInv, NEW t \in {"DETAIL", "DISCUSSION"}, Explorer!SelectDetailTab(t)
    PROVE  ExplorerInv'
<1>1. view # NoTopic /\ ViewTyped /\ OpenedTyped /\ (~opened.overtaken => Known)
  BY MovesPass, Browsed DEF Explorer!SelectDetailTab, Explorer!Browse
<1>2. view' = [view EXCEPT !.tab = t] /\ opened' = opened /\ place' = place
  BY DEF Explorer!SelectDetailTab
<1>3. /\ view' \in [node : {view.node}, application : {view.application}, tab : {"DETAIL", "DISCUSSION"},
                      editing : BOOLEAN, report : BOOLEAN, proposal : Places \cup {"closed"}]
      /\ view'.tab = t /\ view'.editing = view.editing /\ view'.report = view.report /\ view'.proposal = view.proposal
      /\ view'.node = view.node /\ view'.application = view.application
  BY <1>1, <1>2 DEF ViewTyped, Views
<1>4. OpenedTyped' /\ (~opened'.overtaken => Known')
  BY <1>1, <1>2, <1>3 DEF OpenedTyped, Known
<1>5. target' = [section |-> "stances", stance |-> place.stance, tab |-> view'.tab]
  BY <1>3 DEF Explorer!SelectDetailTab, Explorer!Go
<1> QED BY <1>2, <1>3, <1>4, <1>5, StaysAtPlace DEF Explorer!SelectDetailTab, Explorer!Browse

\* The edit of a proposal starts and ends.
LEMMA EditToggled ==
    ASSUME ExplorerInv, Explorer!StartPrivateEdit \/ Explorer!CancelPrivateEdit
    PROVE  ExplorerInv'
<1>1. view # NoTopic /\ ViewTyped /\ Explorer!Move /\ view.proposal = "closed"
  BY MovesPass DEF Explorer!StartPrivateEdit, Explorer!CancelPrivateEdit, Explorer!Browse
<1>2. PICK b \in BOOLEAN : view' = [view EXCEPT !.editing = b] /\ opened' = Explorer!Open(Explorer!Panel, b)
  BY DEF Explorer!StartPrivateEdit, Explorer!CancelPrivateEdit
<1>3. /\ view' \in [node : {view.node}, application : {view.application}, tab : {"DETAIL", "DISCUSSION"},
                      editing : BOOLEAN, report : BOOLEAN, proposal : Places \cup {"closed"}]
      /\ view'.tab = view.tab /\ view'.editing = b /\ view'.proposal = "closed"
      /\ view'.node = view.node /\ view'.application = view.application
  BY <1>1, <1>2 DEF ViewTyped, Views
<1>4. view.application # NoTopic /\ Explorer!Panel = view.application
  BY <1>1, Selected DEF Explorer!StartPrivateEdit, Explorer!CancelPrivateEdit
<1>5. OpenedTyped' /\ opened'.dialog = "closed" /\ opened'.editing = b /\ opened'.panel = view.application
  <2>1. (view.report /\ Explorer!Panel = Explorer!Panel) \in BOOLEAN
    OBVIOUS
  <2> QED BY <1>2, <1>4, <2>1 DEF Explorer!Open, OpenedTyped
<1>6. Known'
  BY <1>3, <1>4, <1>5 DEF Known
<1>7. UNCHANGED <<place, target>> /\ Explorer!Still
  BY DEF Explorer!StartPrivateEdit, Explorer!CancelPrivateEdit, Explorer!Quiet
<1> QED BY <1>1, <1>3, <1>5, <1>6, <1>7, StaysAtPlace

\* The dialog opens and closes.
LEMMA DialogToggled ==
    ASSUME ExplorerInv, NEW s \in Places, Explorer!OpenProposal(s) \/ Explorer!CloseProposal
    PROVE  ExplorerInv'
<1>1. view # NoTopic /\ Explorer!Move
  BY MovesPass DEF Explorer!OpenProposal, Explorer!CloseProposal
<1>2. ViewTyped /\ OpenedTyped /\ (~opened.overtaken => Known)
  BY <1>1, Browsed
<1>3. PICK p \in Places \cup {"closed"} : view' = [view EXCEPT !.proposal = p] /\ opened' = [opened EXCEPT !.dialog = p]
  BY DEF Explorer!OpenProposal, Explorer!CloseProposal
<1>4. /\ view' \in [node : {view.node}, application : {view.application}, tab : {"DETAIL", "DISCUSSION"},
                      editing : BOOLEAN, report : BOOLEAN, proposal : Places \cup {"closed"}]
      /\ view'.tab = view.tab /\ view'.editing = view.editing /\ view'.proposal = p /\ view'.report = view.report
      /\ view'.node = view.node /\ view'.application = view.application
  BY <1>2, <1>3 DEF ViewTyped, Views
<1>5. OpenedTyped' /\ (~opened'.overtaken => Known')
  BY <1>2, <1>3, <1>4 DEF OpenedTyped, Known
<1>6. UNCHANGED <<place, target>> /\ Explorer!Still
  BY DEF Explorer!OpenProposal, Explorer!CloseProposal, Explorer!Quiet
<1> QED BY <1>1, <1>4, <1>5, <1>6, StaysAtPlace

\* The form of a report opens and closes.
LEMMA ReportToggled ==
    ASSUME ExplorerInv, Explorer!ToggleReport
    PROVE  ExplorerInv'
<1>1. view # NoTopic /\ Explorer!Move
  BY MovesPass DEF Explorer!ToggleReport, Explorer!Browse
<1>2. ViewTyped /\ OpenedTyped /\ (~opened.overtaken => Known)
  BY <1>1, Browsed
<1>3. PICK b \in BOOLEAN : b = ~view.report
  OBVIOUS
<1>4. view' = [view EXCEPT !.report = b] /\ opened' = [opened EXCEPT !.report = b]
  BY <1>2, <1>3 DEF Explorer!ToggleReport, ViewTyped, Views
<1>5. /\ view' \in [node : {view.node}, application : {view.application}, tab : {"DETAIL", "DISCUSSION"},
                      editing : BOOLEAN, report : BOOLEAN, proposal : Places \cup {"closed"}]
      /\ view'.tab = view.tab /\ view'.editing = view.editing /\ view'.proposal = view.proposal /\ view'.report = b
      /\ view'.node = view.node /\ view'.application = view.application
  BY <1>2, <1>4 DEF ViewTyped, Views
<1>6. OpenedTyped' /\ (~opened'.overtaken => Known')
  BY <1>2, <1>4, <1>5 DEF OpenedTyped, Known
<1>7. UNCHANGED <<place, target>> /\ Explorer!Still
  BY DEF Explorer!ToggleReport, Explorer!Quiet
<1> QED BY <1>1, <1>5, <1>6, <1>7, StaysAtPlace

\* A request is sent: it is awaited, and nothing that is shown changes.
LEMMA Sent ==
    ASSUME ExplorerInv, NEW k \in Explorer!Kinds, NEW about, NEW below \in Places, Explorer!Send(k, about, below),
           k \in {"add", "save", "withdraw"} => about \in Applications,
           k = "add" => view.proposal # "closed",
           k \in {"save", "withdraw"} => view.proposal = "closed" /\ view.application = about,
           k = "save" => view.editing, k = "withdraw" => ~view.editing
    PROVE  ExplorerInv'
<1> DEFINE request == [at |-> "sent", about |-> about, below |-> below, list |-> <<>>, ok |-> TRUE, moved |-> FALSE]
<1>1. /\ DOMAIN request = {"at", "about", "below", "list", "ok", "moved"} /\ request.about = about /\ request.below = below
      /\ request.list = <<>> /\ request.moved = FALSE
  OBVIOUS
<1>2. work' = [work EXCEPT ![k] = request]
  BY DEF Explorer!Send
<1>3. Proposals(<<>>)
  BY DEF Proposals
<1> HIDE DEF request
<1>4. WorkTyped'
  BY <1>1, <1>2, <1>3 DEF ExplorerInv, WorkTyped
<1>5. UNCHANGED <<place, url, target, view, privateApplications, mine, left, opened>>
  BY DEF Explorer!Send, Explorer!Quiet, Explorer!Still, Explorer!server
<1>6. view # NoTopic /\ ~opened.overtaken => Unmoved'
  BY <1>1, <1>2, <1>5 DEF ExplorerInv, WorkTyped, Unmoved, Awaited, Explorer!Kinds
<1> QED BY <1>4, <1>5, <1>6 DEF ExplorerInv, ListsTyped, Addressed, ViewTyped, Views, OpenedTyped, Known

\* All five kinds of request find what they rely on.
LEMMA SentByUser ==
    ASSUME ExplorerInv,
           \/ Explorer!AddStance \/ Explorer!SavePrivateApplication \/ Explorer!WithdrawPrivateApplication
           \/ Explorer!ToggleSignal \/ Explorer!SubmitReport
    PROVE  ExplorerInv'
<1> USE DEF Explorer!Mounted, Explorer!Kinds
<1>0. NoTopic \in Places
  BY DEF Places
<1>1. CASE Explorer!AddStance
  <2>1. view.proposal \in Places /\ view.proposal # "closed"
    BY <1>1 DEF Explorer!AddStance, ExplorerInv, ViewTyped, Views
  <2>2. PICK a \in Applications : Explorer!Send("add", a, view.proposal)
    BY <1>1 DEF Explorer!AddStance
  <2> QED BY <2>1, <2>2, Sent
<1>2. ASSUME view # NoTopic, Explorer!selectedApplication # NoTopic
      PROVE  /\ Explorer!selectedApplication \in Applications /\ view.application = Explorer!selectedApplication
             /\ privateApplications[Explorer!selectedApplication] \in Places
  BY <1>2, Selected DEF ExplorerInv, ViewTyped, Views, ListsTyped, Proposals
<1>3. CASE Explorer!SavePrivateApplication
  BY <1>0, <1>2, <1>3, Sent DEF Explorer!SavePrivateApplication
<1>4. CASE Explorer!WithdrawPrivateApplication
  BY <1>2, <1>4, Sent DEF Explorer!WithdrawPrivateApplication
<1>5. CASE Explorer!ToggleSignal
  BY <1>0, <1>5, Sent DEF Explorer!ToggleSignal
<1>6. CASE Explorer!SubmitReport
  BY <1>0, <1>6, Sent DEF Explorer!SubmitReport
<1> QED BY <1>1, <1>3, <1>4, <1>5, <1>6

\* A request goes on, and stays as late as it was, or ends.
LEMMA WorkGoesOn ==
    ASSUME ExplorerInv, NEW k \in Explorer!Kinds, work[k] # NoTopic, NEW r, work' = [work EXCEPT ![k] = r],
           \/ r = NoTopic
           \/ /\ DOMAIN r = DOMAIN work[k] /\ r.below = work[k].below /\ r.about = work[k].about /\ r.moved = work[k].moved
              /\ Proposals(r.list),
           UNCHANGED view
    PROVE  /\ WorkTyped'
           /\ view # NoTopic /\ Unmoved => Unmoved'
<1>1. WorkTyped
  BY DEF ExplorerInv
<1>2. DOMAIN work' = Explorer!Kinds /\ work'[k] = r /\ \A j \in Explorer!Kinds \ {k} : work'[j] = work[j]
  BY <1>1 DEF WorkTyped
<1>3. WorkTyped'
  BY <1>1, <1>2 DEF WorkTyped
<1>4. ASSUME NEW j \in Explorer!Kinds, Awaited(j)' PROVE Awaited(j) /\ work'[j].about = work[j].about
  BY <1>2, <1>4 DEF Awaited
<1>5. Unmoved => Unmoved'
  BY <1>4 DEF Unmoved, Explorer!Kinds
<1> QED BY <1>3, <1>5

\* Nothing that is shown changes.
LEMMA ExplorerInvSame ==
    ASSUME ExplorerInv, UNCHANGED <<place, url, target, view, opened>>, WorkTyped', ListsTyped',
           view # NoTopic /\ Unmoved => Unmoved'
    PROVE  ExplorerInv'
BY DEF ExplorerInv, Addressed, ViewTyped, Views, OpenedTyped, Known

\* The server keeps proposals below stances.
LEMMA EffectTyped ==
    ASSUME Proposals(mine), NEW k, NEW about, NEW below \in Places, k = "add" => about \in Applications,
           Explorer!Effect(k, about, below)
    PROVE  Proposals(mine)'
<1>1. CASE k = "add"
  BY <1>1 DEF Explorer!Effect, Proposals
<1>2. CASE k = "withdraw"
  BY <1>2 DEF Explorer!Effect, Proposals, Explorer!Restrict
<1>3. CASE k \notin {"add", "withdraw"}
  BY <1>3 DEF Explorer!Effect, Proposals
<1> QED BY <1>1, <1>2, <1>3

\* The server handles a request, or reads a list for it.
LEMMA Served ==
    ASSUME ExplorerInv, NEW k \in Explorer!Kinds, Explorer!Serve(k) \/ Explorer!ServeRead(k) \/ Explorer!Accepted(k)
    PROVE  ExplorerInv'
<1>1. WorkTyped /\ ListsTyped /\ work[k] # NoTopic
  BY DEF ExplorerInv, Explorer!Serve, Explorer!ServeRead, Explorer!Accepted, Explorer!Busy
<1>2. Proposals(<<>>)
  BY DEF Proposals
<1>3. PICK r : /\ work' = [work EXCEPT ![k] = r]
               /\ DOMAIN r = DOMAIN work[k] /\ r.below = work[k].below /\ r.about = work[k].about
               /\ r.moved = work[k].moved /\ Proposals(r.list)
  <2>1. CASE Explorer!Serve(k)
    <3>1. PICK ok \in BOOLEAN : work' = [work EXCEPT ![k].at = "answer", ![k].ok = ok]
      BY <2>1 DEF Explorer!Serve
    <3> DEFINE r == [work[k] EXCEPT !.at = "answer", !.ok = ok]
    <3>2. work' = [work EXCEPT ![k] = r]
      BY <1>1, <3>1 DEF WorkTyped
    <3>3. DOMAIN r = DOMAIN work[k] /\ r.below = work[k].below /\ r.about = work[k].about
               /\ r.moved = work[k].moved /\ Proposals(r.list)
      BY <1>1 DEF WorkTyped
    <3> HIDE DEF r
    <3> QED BY <3>2, <3>3
  <2>2. CASE Explorer!ServeRead(k)
    <3>1. PICK ok \in BOOLEAN : work' = [work EXCEPT ![k].at = "loaded", ![k].ok = ok, ![k].list = IF ok THEN mine ELSE <<>>]
      BY <2>2 DEF Explorer!ServeRead
    <3> DEFINE r == [work[k] EXCEPT !.at = "loaded", !.ok = ok, !.list = IF ok THEN mine ELSE <<>>]
    <3>2. work' = [work EXCEPT ![k] = r]
      BY <1>1, <3>1 DEF WorkTyped
    <3>3. DOMAIN r = DOMAIN work[k] /\ r.below = work[k].below /\ r.about = work[k].about
               /\ r.moved = work[k].moved /\ r.list \in {mine, <<>>}
      BY <1>1 DEF WorkTyped
    <3>4. Proposals(r.list)
      BY <1>1, <1>2, <3>3 DEF ListsTyped
    <3> HIDE DEF r
    <3> QED BY <3>2, <3>3, <3>4
  <2>3. CASE Explorer!Accepted(k)
    <3> DEFINE r == [work[k] EXCEPT !.at = "load"]
    <3>2. work' = [work EXCEPT ![k] = r]
      BY <1>1, <2>3 DEF WorkTyped, Explorer!Accepted
    <3>3. DOMAIN r = DOMAIN work[k] /\ r.below = work[k].below /\ r.about = work[k].about
               /\ r.moved = work[k].moved /\ Proposals(r.list)
      BY <1>1 DEF WorkTyped
    <3> HIDE DEF r
    <3> QED BY <3>2, <3>3
  <2> QED BY <2>1, <2>2, <2>3
<1>4. UNCHANGED <<place, url, target, view, opened, privateApplications, left>>
  BY DEF Explorer!Serve, Explorer!ServeRead, Explorer!Accepted, Explorer!Quiet, Explorer!Still, Explorer!server
<1>5. Proposals(mine)'
  <2>1. CASE Explorer!Serve(k) /\ mine' # mine
    BY <1>1, <2>1, EffectTyped DEF Explorer!Serve, WorkTyped, ListsTyped
  <2>2. CASE mine' = mine
    BY <1>1, <2>2 DEF ListsTyped, Proposals
  <2> QED BY <2>1, <2>2 DEF Explorer!Serve, Explorer!ServeRead, Explorer!Accepted, Explorer!Still, Explorer!server
<1>6. ListsTyped'
  BY <1>1, <1>4, <1>5 DEF ListsTyped, Proposals
<1> QED BY <1>1, <1>3, <1>4, <1>6, WorkGoesOn, ExplorerInvSame

\* The server handles what a former explorer sent.
LEMMA LeftServed ==
    ASSUME ExplorerInv, NEW w \in left, Explorer!ServeLeft(w)
    PROVE  ExplorerInv'
<1>1. ListsTyped
  BY DEF ExplorerInv
<1>2. Proposals(mine)'
  BY <1>1, EffectTyped DEF Explorer!ServeLeft, ListsTyped, Proposals
<1>3. UNCHANGED <<place, url, target, view, opened, privateApplications, work>> /\ left' \subseteq left
  BY DEF Explorer!ServeLeft
<1>4. ListsTyped'
  BY <1>1, <1>2, <1>3 DEF ListsTyped, Proposals
<1> QED BY <1>3, <1>4, ExplorerInvSame DEF ExplorerInv, WorkTyped, Unmoved, Awaited

\* A refusal changes nothing; a report that is accepted closes its form.
LEMMA Refused ==
    ASSUME ExplorerInv, NEW k \in Explorer!Kinds, Explorer!Answered(k)
    PROVE  ExplorerInv'
<1>1. WorkTyped /\ ListsTyped /\ work[k] # NoTopic /\ view # NoTopic /\ ViewTyped /\ OpenedTyped
  BY DEF ExplorerInv, Explorer!Answered, Explorer!Busy, Explorer!Mounted
<1>2. UNCHANGED <<place, url, target, privateApplications, mine, left>> /\ work' = [work EXCEPT ![k] = NoTopic]
  BY DEF Explorer!Answered, Explorer!Quiet, Explorer!Still, Explorer!server
<1>3. ListsTyped'
  BY <1>1, <1>2 DEF ListsTyped, Proposals
<1>4. CASE UNCHANGED <<view, opened>>
  BY <1>1, <1>2, <1>3, <1>4, WorkGoesOn, ExplorerInvSame
<1>5. CASE k = "report" /\ ~UNCHANGED <<view, opened>>
  <2>1. PICK b \in BOOLEAN : b = (opened.overtaken \/ Explorer!Panel # work[k].about)
    OBVIOUS
  <2>2. view' = [view EXCEPT !.report = FALSE] /\ opened' = [opened EXCEPT !.report = FALSE, !.overtaken = b]
    BY <1>1, <1>5, <2>1 DEF Explorer!Answered, OpenedTyped
  <2>3. /\ view' \in Views
        /\ view'.tab = view.tab /\ view'.editing = view.editing /\ view'.proposal = view.proposal /\ view'.report = FALSE
        /\ view'.node = view.node /\ view'.application = view.application
    BY <1>1, <2>2 DEF ViewTyped, Views
  <2>4. OpenedTyped' /\ (~opened'.overtaken => ~opened.overtaken) /\ opened'.report = FALSE /\ opened'.panel = opened.panel
        /\ opened'.editing = opened.editing /\ opened'.dialog = opened.dialog /\ opened'.fromStance = opened.fromStance
    BY <1>1, <2>1, <2>2 DEF OpenedTyped
  <2>5. WorkTyped' /\ \A j \in Explorer!Kinds : Awaited(j)' => Awaited(j) /\ work'[j] = work[j]
    BY <1>1, <1>2 DEF WorkTyped, Awaited
  <2>6. Addressed' /\ ViewTyped'
    BY <1>1, <1>2, <2>3 DEF ExplorerInv, Addressed, ViewTyped, Views
  <2>7. ~opened'.overtaken => Known' /\ Unmoved'
    BY <1>1, <2>3, <2>4, <2>5 DEF ExplorerInv, Known, Unmoved, Explorer!Kinds
  <2> QED BY <1>3, <2>4, <2>5, <2>6, <2>7 DEF ExplorerInv
<1> QED BY <1>4, <1>5 DEF Explorer!Answered

\* The tree and the first list arrive.
LEMMA LoadedAtMount ==
    ASSUME ExplorerInv, NEW k \in Explorer!Kinds, Explorer!MountedList \/ Explorer!LoadedTree(k)
    PROVE  ExplorerInv'
<1>1. WorkTyped /\ ListsTyped
  BY DEF ExplorerInv
<1>2. PICK j \in Explorer!Kinds : work[j] # NoTopic /\ work' = [work EXCEPT ![j] = NoTopic] /\ privateApplications' \in {privateApplications, work[j].list}
  BY DEF Explorer!MountedList, Explorer!LoadedTree, Explorer!Listed, Explorer!Loaded, Explorer!Busy, Explorer!Kinds
<1>3. UNCHANGED <<place, url, target, view, opened, mine, left>>
  BY DEF Explorer!MountedList, Explorer!LoadedTree, Explorer!Listed, Explorer!Loaded, Explorer!Quiet, Explorer!server
<1>4. ListsTyped'
  <2>1. Proposals(privateApplications')
    BY <1>1, <1>2 DEF ListsTyped, WorkTyped
  <2> QED BY <1>1, <1>3, <2>1 DEF ListsTyped, Proposals
<1> QED BY <1>2, <1>3, <1>4, WorkGoesOn, ExplorerInvSame

\* The last step of a request that was accepted.
LEMMA Finished ==
    ASSUME ExplorerInv, NEW k \in {"add", "save", "withdraw"}, Explorer!Listed(k)
    PROVE  /\ view # NoTopic /\ ViewTyped /\ OpenedTyped /\ WorkTyped /\ WorkTyped' /\ ListsTyped' /\ UNCHANGED url
           /\ work[k] # NoTopic /\ work[k].about \in Applications /\ work[k].below \in Places /\ work[k].moved \in BOOLEAN
           /\ ~Awaited(k)' /\ \A j \in Explorer!Kinds : Awaited(j)' => Awaited(j) /\ work'[j] = work[j]
           /\ ~opened.overtaken => Known /\ Unmoved
<1>1. WorkTyped /\ ListsTyped /\ work[k] # NoTopic /\ view # NoTopic /\ k \in Explorer!Kinds
  BY DEF ExplorerInv, Explorer!Listed, Explorer!Loaded, Explorer!Busy, Explorer!Mounted, Explorer!Kinds
<1>2. work' = [work EXCEPT ![k] = NoTopic] /\ UNCHANGED <<url, mine, left>> /\ privateApplications' = work[k].list
  BY DEF Explorer!Listed, Explorer!Loaded, Explorer!server
<1>3. WorkTyped' /\ ~Awaited(k)' /\ \A j \in Explorer!Kinds : Awaited(j)' => Awaited(j) /\ work'[j] = work[j]
  BY <1>1, <1>2 DEF WorkTyped, Awaited
<1>4. Proposals(privateApplications')
  BY <1>1, <1>2 DEF WorkTyped
<1>5. ListsTyped'
  BY <1>1, <1>2, <1>4 DEF ListsTyped, Proposals
<1> QED BY <1>1, <1>2, <1>3, <1>5 DEF ExplorerInv, WorkTyped

\* What the answer opens, if it is the one waited for.
LEMMA AnswerOpens ==
    ASSUME ExplorerInv, NEW k \in {"add", "save", "withdraw"}, NEW panelOpened, Explorer!Listed(k), Explorer!Opens(k, panelOpened)
    PROVE  /\ OpenedTyped'
           /\ ~opened'.overtaken =>
                /\ ~opened.overtaken /\ Awaited(k)
                /\ opened'.panel = panelOpened /\ opened'.dialog = "closed" /\ opened'.editing = FALSE
                /\ opened'.report = (view.report /\ panelOpened = Explorer!Panel)
                /\ opened'.fromStance = (k = "add" /\ place.stance # NoTopic)
<1>1. OpenedTyped /\ work[k] # NoTopic
  BY Finished
<1>2. CASE work[k].moved \/ opened.overtaken
  BY <1>1, <1>2 DEF Explorer!Opens, OpenedTyped
<1>3. CASE ~(work[k].moved \/ opened.overtaken)
  <2>1. (view.report /\ panelOpened = Explorer!Panel) \in BOOLEAN /\ (k = "add" /\ place.stance # NoTopic) \in BOOLEAN
    OBVIOUS
  <2> QED BY <1>1, <1>3, <2>1 DEF Explorer!Opens, Explorer!Open, OpenedTyped, Awaited
<1> QED BY <1>2, <1>3

\* addStance goes on after its awaits.
LEMMA AddedInv ==
    ASSUME ExplorerInv, Explorer!Added
    PROVE  ExplorerInv'
<1> DEFINE about == work["add"].about
           v == [Explorer!selectApplication(view, about) EXCEPT !.proposal = "closed"]
<1>1. Explorer!Listed("add") /\ Explorer!Opens("add", about) /\ Explorer!Emit(v, NoTopic)
  BY DEF Explorer!Added
<1>2. /\ view # NoTopic /\ ViewTyped /\ WorkTyped' /\ ListsTyped' /\ UNCHANGED url /\ about \in Applications
      /\ ~Awaited("add")' /\ (\A j \in Explorer!Kinds : Awaited(j)' => Awaited(j) /\ work'[j] = work[j])
      /\ (~opened.overtaken => Known /\ Unmoved)
  BY <1>1, Finished
<1>3. /\ v \in Views
      /\ v.application = about /\ v.node = NoTopic /\ v.tab = "DETAIL" /\ v.editing = FALSE
      /\ v.proposal = "closed"
  BY <1>2 DEF Explorer!selectApplication, ViewTyped, Views, Places
<1>4. about # NoTopic /\ NoTopic \in Places
  BY <1>2, ExplorerAssumption DEF Places
<1> HIDE DEF v
<1>5. /\ Addressed' /\ ViewTyped' /\ view'.node = NoTopic
      /\ view'.application = IF place.stance = NoTopic THEN about ELSE NoTopic
      /\ view'.editing = FALSE /\ view'.proposal = "closed"
  BY ZenonT(60), <1>1, <1>2, <1>3, <1>4, Emitted DEF ViewTyped, Views
<1>6. /\ OpenedTyped'
      /\ ~opened'.overtaken =>
                /\ ~opened.overtaken /\ Awaited("add")
                /\ opened'.panel = about /\ opened'.dialog = "closed" /\ opened'.editing = FALSE
                /\ opened'.fromStance = (place.stance # NoTopic)
  BY <1>1, AnswerOpens
<1>7. ~opened'.overtaken => Known'
  BY <1>4, <1>5, <1>6 DEF Known
<1>8. ~opened'.overtaken => Unmoved'
  BY <1>2, <1>6 DEF Unmoved, Explorer!Kinds
<1> QED BY <1>2, <1>5, <1>6, <1>7, <1>8 DEF ExplorerInv

\* savePrivateApplication goes on after its awaits.
LEMMA SavedInv ==
    ASSUME ExplorerInv, Explorer!Saved
    PROVE  ExplorerInv'
<1> DEFINE about == work["save"].about
<1>1. Explorer!Listed("save") /\ Explorer!Opens("save", about) /\ view' = [view EXCEPT !.editing = FALSE] /\ UNCHANGED <<place, target>>
  BY DEF Explorer!Saved, Explorer!Quiet
<1>2. /\ view # NoTopic /\ ViewTyped /\ WorkTyped' /\ ListsTyped' /\ UNCHANGED url /\ about \in Applications
      /\ ~Awaited("save")' /\ (\A j \in Explorer!Kinds : Awaited(j)' => Awaited(j) /\ work'[j] = work[j])
      /\ (~opened.overtaken => Known /\ Unmoved)
  BY <1>1, Finished
<1>3. /\ view' \in Views
      /\ view'.tab = view.tab /\ view'.editing = FALSE /\ view'.proposal = view.proposal
      /\ view'.node = view.node /\ view'.application = view.application
  BY <1>1, <1>2 DEF ViewTyped, Views
<1>4. about # NoTopic
  BY <1>2, ExplorerAssumption
<1>5. Addressed' /\ ViewTyped'
  BY <1>1, <1>2, <1>3 DEF ExplorerInv, Addressed, ViewTyped, Views
<1>6. /\ OpenedTyped'
      /\ ~opened'.overtaken =>
                /\ ~opened.overtaken /\ Awaited("save")
                /\ opened'.panel = about /\ opened'.dialog = "closed" /\ opened'.editing = FALSE
  BY <1>1, AnswerOpens
<1>7. ~opened'.overtaken => view.application = about /\ view.proposal = "closed" /\ view.editing
  BY <1>2, <1>6 DEF Unmoved
<1>8. ~opened'.overtaken => Known'
  BY <1>3, <1>4, <1>6, <1>7 DEF Known
<1>9. ~opened'.overtaken => Unmoved'
  BY <1>2, <1>3, <1>6, <1>7 DEF Unmoved, Explorer!Kinds
<1> QED BY <1>2, <1>5, <1>6, <1>8, <1>9 DEF ExplorerInv

\* withdrawPrivateApplication goes on after its awaits.
LEMMA WithdrawnInv ==
    ASSUME ExplorerInv, Explorer!Withdrawn
    PROVE  ExplorerInv'
<1>0. PICK about, below : about = work["withdraw"].about /\ below = work["withdraw"].below
  OBVIOUS
<1> DEFINE v == Explorer!selectNode(view, below)
<1>1. Explorer!Listed("withdraw") /\ Explorer!Opens("withdraw", below) /\ Explorer!Emit(v, below)
  BY <1>0 DEF Explorer!Withdrawn
<1>2. /\ view # NoTopic /\ ViewTyped /\ WorkTyped' /\ ListsTyped' /\ UNCHANGED url /\ about \in Applications /\ below \in Places
      /\ ~Awaited("withdraw")' /\ (\A j \in Explorer!Kinds : Awaited(j)' => Awaited(j) /\ work'[j] = work[j])
      /\ (~opened.overtaken => Known /\ Unmoved)
  BY <1>0, <1>1, Finished
<1>3. /\ v \in Views
      /\ v.application = NoTopic /\ v.node = below /\ v.tab = "DETAIL" /\ v.editing = view.editing
      /\ v.proposal = view.proposal /\ v.report = view.report
  BY <1>2 DEF Explorer!selectNode, ViewTyped, Views
<1>4. about # NoTopic
  BY <1>2, ExplorerAssumption
<1> HIDE DEF v
<1>5. /\ Addressed' /\ ViewTyped' /\ view'.node = below /\ view'.application = NoTopic
      /\ view'.report = (IF below = view.node THEN view.report ELSE FALSE)
      /\ view'.editing = view.editing /\ view'.proposal = view.proposal
  BY <1>1, <1>2, <1>3, Emitted
<1>6. /\ OpenedTyped'
      /\ ~opened'.overtaken =>
                /\ ~opened.overtaken /\ Awaited("withdraw")
                /\ opened'.panel = below /\ opened'.dialog = "closed"
                /\ opened'.fromStance = FALSE /\ opened'.report = (view.report /\ below = Explorer!Panel)
  BY <1>1, AnswerOpens
<1>7. ~opened'.overtaken => view.application = about /\ view.proposal = "closed" /\ ~view.editing
  BY <1>0, <1>2, <1>6 DEF Unmoved
<1>8. ~opened'.overtaken /\ below # NoTopic => view'.report = FALSE /\ opened'.report = FALSE
  <2>1. view.application = about => view.node = NoTopic /\ Explorer!Panel \in {about, NoTopic}
    BY <1>2, <1>4, Selected DEF ViewTyped, Views
  <2>2. below # NoTopic => below # about
    BY <1>2, ExplorerAssumption DEF Places
  <2> QED BY <1>5, <1>6, <1>7, <2>1, <2>2
<1>9. ~opened'.overtaken => Known'
  BY <1>5, <1>6, <1>7, <1>8 DEF Known
<1>10. ~opened'.overtaken => Unmoved'
  BY <1>2, <1>5, <1>6, <1>7 DEF Unmoved, Explorer!Kinds
<1> QED BY <1>2, <1>5, <1>6, <1>9, <1>10 DEF ExplorerInv

\* The explorer is mounted.
LEMMA MountsFresh ==
    ASSUME NEW s \in Places, NEW t \in {"DETAIL", "DISCUSSION"}, Addressed', ListsTyped',
           view' = Explorer!MountedAt(s, t), work' = Explorer!Mounting,
           opened' = [panel |-> s, dialog |-> "closed", editing |-> FALSE, report |-> FALSE, fromStance |-> FALSE, overtaken |-> FALSE],
           place'.section = "stances", place'.stance = s,
           IF target' # NoTopic THEN target'.stance = s /\ target'.tab = t ELSE url'.stance = s /\ url'.tab = t
    PROVE  ExplorerInv'
<1>1. /\ view' \in Views
      /\ view'.tab = t /\ view'.editing = FALSE /\ view'.proposal = "closed" /\ view'.report = FALSE
      /\ view'.node = s /\ view'.application = NoTopic
  BY DEF Explorer!MountedAt, Explorer!Closed, Views
<1>2. WorkTyped' /\ \A k \in {"add", "save", "withdraw"} : ~Awaited(k)'
  <2> DEFINE r == [at |-> "load", about |-> NoTopic, below |-> NoTopic, list |-> <<>>, ok |-> TRUE, moved |-> FALSE]
  <2>1. DOMAIN r = {"at", "about", "below", "list", "ok", "moved"} /\ r.below \in Places /\ r.list = <<>> /\ r.moved = FALSE
    BY DEF Places
  <2>2. Proposals(<<>>)
    BY DEF Proposals
  <2>3. work' = [k \in Explorer!Kinds |-> IF k \in {"tree", "list"} THEN r ELSE NoTopic]
    BY DEF Explorer!Mounting
  <2> HIDE DEF r
  <2>4. \A k \in Explorer!Kinds : work'[k] = IF k \in {"tree", "list"} THEN r ELSE NoTopic
    BY <2>3
  <2>5. DOMAIN work' = Explorer!Kinds
    BY <2>3
  <2>6. WorkTyped'
    BY <2>1, <2>2, <2>4, <2>5 DEF WorkTyped
  <2>7. \A k \in {"add", "save", "withdraw"} : work'[k] = NoTopic
    BY <2>4 DEF Explorer!Kinds
  <2> QED BY <2>6, <2>7 DEF Awaited
<1>3. OpenedTyped' /\ opened'.panel = s /\ opened'.report = FALSE /\ opened'.dialog = "closed" /\ opened'.fromStance = FALSE
  BY DEF OpenedTyped
<1>4. ViewTyped'
  BY <1>1 DEF ViewTyped, Views
<1>5. Known' /\ Unmoved'
  BY <1>1, <1>2, <1>3 DEF Known, Unmoved
<1> QED BY <1>2, <1>3, <1>4, <1>5 DEF ExplorerInv

\* A section is shown: the explorer is mounted anew, is gone, or stays.
LEMMA Shows ==
    ASSUME ExplorerInv, NEW s \in {"vote", "stances"}, NEW stance \in Places, NEW t \in {"DETAIL", "DISCUSSION"},
           Explorer!Show(s, stance, t), UNCHANGED mine, Addressed',
           place'.section = s, place'.stance = stance,
           s = "stances" => IF target' # NoTopic THEN target'.stance = stance /\ target'.tab = t ELSE url'.stance = stance /\ url'.tab = t,
           s # "stances" \/ view = NoTopic
    PROVE  ExplorerInv'
<1>0. WorkTyped /\ ListsTyped /\ OpenedTyped
  BY DEF ExplorerInv
<1>1. CASE s = "stances" /\ view = NoTopic
  <2>1. /\ view' = Explorer!MountedAt(stance, t) /\ work' = Explorer!Mounting
        /\ opened' = [panel |-> stance, dialog |-> "closed", editing |-> FALSE, report |-> FALSE, fromStance |-> FALSE, overtaken |-> FALSE]
        /\ privateApplications' = <<>> /\ UNCHANGED left
    BY <1>1 DEF Explorer!Show, Explorer!Mounted
  <2>2. ListsTyped'
    BY <1>0, <2>1 DEF ListsTyped, Proposals
  <2> QED BY <1>1, <2>1, <2>2, MountsFresh
<1>2. CASE s = "vote" /\ view # NoTopic
  <2>1. view' = NoTopic /\ work' = Explorer!NoWork /\ UNCHANGED <<privateApplications, opened>>
        /\ left' = left \cup {[kind |-> k, about |-> work[k].about, below |-> work[k].below] :
                                 k \in {j \in {"add", "withdraw"} : Explorer!Busy(j) /\ work[j].at = "sent"}}
    BY <1>2 DEF Explorer!Show, Explorer!Mounted
  <2>2. WorkTyped'
    BY <2>1 DEF Explorer!NoWork, WorkTyped
  <2>3. \A k \in {"add", "withdraw"} : Explorer!Busy(k) => work[k].about \in Applications /\ work[k].below \in Places
    BY <1>0 DEF WorkTyped, Explorer!Busy, Explorer!Kinds
  <2>4. \A w \in left' : w.about \in Applications /\ w.below \in Places
    BY <1>0, <2>1, <2>3 DEF ListsTyped
  <2>5. ListsTyped'
    BY <1>0, <2>1, <2>4 DEF ListsTyped, Proposals
  <2> QED BY <1>0, <2>1, <2>2, <2>5 DEF ExplorerInv, OpenedTyped
<1>3. CASE s = "vote" /\ view = NoTopic
  <2>1. UNCHANGED <<view, work, privateApplications, opened, left>>
    BY <1>3 DEF Explorer!Show, Explorer!Mounted
  <2> QED BY <1>0, <1>3, <2>1 DEF ExplorerInv, WorkTyped, ListsTyped, OpenedTyped, Proposals
<1> QED BY <1>1, <1>2, <1>3

\* The user chooses a section of the page.
LEMMA SectionSet ==
    ASSUME ExplorerInv, NEW s \in {"vote", "stances"}, Explorer!SetSection(s)
    PROVE  ExplorerInv'
<1>1. /\ place' = [place EXCEPT !.section = s] /\ s # place.section /\ UNCHANGED <<url, mine>>
      /\ Explorer!Show(s, place.stance, url.tab)
      /\ target' = IF s = "stances" THEN [section |-> s, stance |-> place.stance, tab |-> url.tab]
                   ELSE [section |-> s, stance |-> NoTopic, tab |-> "DETAIL"]
  BY DEF Explorer!SetSection, Explorer!Go
<1>2. Addressed
  BY DEF ExplorerInv
<1>3. place' \in [section : {"vote", "stances"}, stance : Places] /\ place'.section = s /\ place'.stance = place.stance
  BY <1>1, <1>2 DEF Addressed
<1>4. target' \in Targets /\ target'.section = s
  BY <1>1, <1>2 DEF Addressed, Targets, Places
<1>5. Addressed' /\ target' # NoTopic
  BY <1>1, <1>2, <1>3, <1>4, Targeted DEF Addressed
<1>6. s = "stances" => view = NoTopic
  BY <1>1 DEF ExplorerInv, ViewTyped, Views
<1>7. place.stance \in Places /\ url.tab \in {"DETAIL", "DISCUSSION"}
  BY <1>2 DEF Addressed, Targets
<1>8. s = "stances" => target'.stance = place.stance /\ target'.tab = url.tab
  BY <1>1
<1> QED BY <1>1, <1>3, <1>5, <1>6, <1>7, <1>8, Shows

\* The navigation ends: the watchers find page and explorer where it leads.
LEMMA Arrived ==
    ASSUME ExplorerInv, Explorer!Arrive
    PROVE  ExplorerInv'
<1> DEFINE section == IF target.section = url.section THEN place.section ELSE target.section
           stance == IF target.stance = url.stance THEN place.stance ELSE target.stance
           v == IF target.tab = url.tab THEN view ELSE [view EXCEPT !.tab = target.tab]
<1>0. /\ target # NoTopic /\ url' = target /\ target' = NoTopic /\ place' = [section |-> section, stance |-> stance]
      /\ UNCHANGED mine
      /\ IF section # place.section \/ view = NoTopic THEN Explorer!Show(section, stance, target.tab)
         ELSE view' = Explorer!Flush(v, stance) /\ UNCHANGED <<work, tree, privateApplications, opened, left>>
  BY DEF Explorer!Arrive, Explorer!Mounted
<1>1. Addressed /\ target \in Targets
  BY <1>0 DEF ExplorerInv, Addressed
<1>2. section = place.section /\ stance \in Places /\ section \in {"vote", "stances"} /\ target.tab \in {"DETAIL", "DISCUSSION"}
      /\ target.section = place.section
  BY <1>0, <1>1 DEF Addressed, Targets
<1>3. place' \in [section : {"vote", "stances"}, stance : Places] /\ place'.section = section /\ place'.stance = stance
  BY <1>0, <1>2
<1>4. Addressed'
  BY <1>0, <1>1, <1>2, <1>3 DEF Addressed
<1>5. CASE view = NoTopic
  <2>1. CASE section = "stances"
    <3>1. /\ view' = Explorer!MountedAt(stance, target.tab) /\ work' = Explorer!Mounting
          /\ opened' = [panel |-> stance, dialog |-> "closed", editing |-> FALSE, report |-> FALSE, fromStance |-> FALSE, overtaken |-> FALSE]
          /\ privateApplications' = <<>> /\ UNCHANGED left
      BY <1>0, <1>5, <2>1 DEF Explorer!Show, Explorer!Mounted
    <3>2. stance = target.stance
      BY <1>0, <1>1, <1>2, <2>1 DEF Addressed
    <3>3. ListsTyped'
      BY <1>0, <3>1 DEF ExplorerInv, ListsTyped, Proposals
    <3> HIDE DEF stance, section
    <3> QED BY <1>0, <1>2, <1>3, <1>4, <2>1, <3>1, <3>2, <3>3, MountsFresh
  <2>2. CASE section = "vote"
    BY <1>0, <1>2, <1>3, <1>4, <1>5, <2>2, Shows
  <2> QED BY <1>2, <2>1, <2>2
<1>6. CASE view # NoTopic
  <2>1. ViewTyped
    BY <1>6 DEF ExplorerInv
  <2>2. stance = place.stance /\ target.tab = view.tab
    BY <1>0, <2>1 DEF ViewTyped, Views
  <2>3. v = view
    BY <2>1, <2>2 DEF ViewTyped, Views
  <2> HIDE DEF v, stance, section
  <2>4. view' = view /\ UNCHANGED <<work, privateApplications, opened, left>>
    BY <1>0, <1>2, <1>6, <2>2, <2>3 DEF Explorer!Flush
  <2>5. ViewTyped'
    BY <1>0, <1>3, <1>2, <2>1, <2>2, <2>4 DEF ViewTyped, Views
  <2> QED BY <1>0, <1>4, <2>4, <2>5 DEF ExplorerInv, WorkTyped, ListsTyped, OpenedTyped, Known, Unmoved, Awaited, Proposals
<1> QED BY <1>5, <1>6

\* The page is entered at any stance, tab and list of proposals.
LEMMA ExplorerStarts == ASSUME Explorer!Init PROVE ExplorerInv
<1>1. PICK s \in Places, t \in {"DETAIL", "DISCUSSION"} :
          place = [section |-> "stances", stance |-> s] /\ url = [section |-> "stances", stance |-> s, tab |-> t]
  BY DEF Explorer!Init, Places
<1>2. /\ target = NoTopic /\ view = Explorer!MountedAt(s, t) /\ work = Explorer!Mounting /\ left = {} /\ privateApplications = <<>>
      /\ mine \in [{CHOOSE a \in Applications : TRUE} -> {NoTopic} \cup Stances]
      /\ opened = [panel |-> s, dialog |-> "closed", editing |-> FALSE, report |-> FALSE, fromStance |-> FALSE, overtaken |-> FALSE]
  BY <1>1 DEF Explorer!Init
<1>3. Addressed
  BY <1>1, <1>2 DEF Addressed, Targets
<1>4. /\ view \in Views
      /\ view.tab = t /\ view.proposal = "closed" /\ view.report = FALSE /\ view.node = s /\ view.application = NoTopic
  BY <1>2 DEF Explorer!MountedAt, Explorer!Closed, Views
<1>5. WorkTyped /\ \A k \in {"add", "save", "withdraw"} : ~Awaited(k)
  <2> DEFINE r == [at |-> "load", about |-> NoTopic, below |-> NoTopic, list |-> <<>>, ok |-> TRUE, moved |-> FALSE]
  <2>1. DOMAIN r = {"at", "about", "below", "list", "ok", "moved"} /\ r.below \in Places /\ r.list = <<>> /\ r.moved = FALSE
    BY DEF Places
  <2>2. Proposals(<<>>)
    BY DEF Proposals
  <2>3. work = [k \in Explorer!Kinds |-> IF k \in {"tree", "list"} THEN r ELSE NoTopic]
    BY <1>2 DEF Explorer!Mounting
  <2> HIDE DEF r
  <2>4. DOMAIN work = Explorer!Kinds /\ \A k \in Explorer!Kinds : work[k] = IF k \in {"tree", "list"} THEN r ELSE NoTopic
    BY <2>3
  <2>5. \A k \in {"add", "save", "withdraw"} : work[k] = NoTopic
    BY <2>4 DEF Explorer!Kinds
  <2> QED BY <2>1, <2>2, <2>4, <2>5 DEF WorkTyped, Awaited
<1>6. ListsTyped
  <2>1. (CHOOSE a \in Applications : TRUE) \in Applications
    BY ExplorerAssumption
  <2>2. DOMAIN mine = {CHOOSE a \in Applications : TRUE} /\ \A a \in DOMAIN mine : mine[a] \in Places
    BY <1>2 DEF Places
  <2>3. Proposals(mine)
    BY <2>1, <2>2 DEF Proposals
  <2>4. Proposals(privateApplications)
    BY <1>2 DEF Proposals
  <2> QED BY <1>2, <2>3, <2>4 DEF ListsTyped
<1>7. OpenedTyped /\ ViewTyped /\ Known /\ Unmoved
  BY <1>1, <1>2, <1>4, <1>5 DEF OpenedTyped, ViewTyped, Views, Known, Unmoved
<1> QED BY <1>3, <1>5, <1>6, <1>7 DEF ExplorerInv

\* Every step of the explorer keeps the invariant.
LEMMA ExplorerGoesOn == ASSUME ExplorerInv, Explorer!Next PROVE ExplorerInv'
<1>1. ASSUME NEW s \in Stances, Explorer!SelectNode(s) PROVE ExplorerInv'
  BY <1>1, NodeSelected DEF Explorer!SelectNode, Places
<1>2. ASSUME NEW s \in Stances \cup {NoTopic}, Explorer!OpenProposal(s) PROVE ExplorerInv'
  BY <1>2, DialogToggled DEF Places
<1>3. CASE Explorer!CloseProposal
  BY <1>3, DialogToggled DEF Places
<1>4. ASSUME NEW k \in Explorer!Kinds,
             Explorer!Serve(k) \/ Explorer!ServeRead(k) \/ Explorer!Answered(k) \/ Explorer!Accepted(k) \/ Explorer!LoadedTree(k)
      PROVE  ExplorerInv'
  BY <1>4, Served, Refused, LoadedAtMount
<1>5. CASE Explorer!MountedList
  BY <1>5, LoadedAtMount DEF Explorer!Kinds
<1> QED BY <1>1, <1>2, <1>3, <1>4, <1>5, ApplicationSelected, UpOrClosed, TabSelected, EditToggled, ReportToggled, SentByUser,
           LeftServed, AddedInv, SavedInv, WithdrawnInv, SectionSet, Arrived DEF Explorer!Next

\* With nothing under way and nobody moved by a late answer, the explorer shows what was opened last and the URL says
\* the same, for every tree of stances, any proposals and any number of moves (StanceTree.vue).
THEOREM ExplorerShowsLastOpened == ScopedSpec => []ShowsWhatWasOpened
<1> DEFINE Inv == IF scope = {"explorer"} THEN ExplorerInv ELSE view = NoTopic
<1>1. ScopedInit => Inv
  BY ExplorerStarts DEF ScopedInit
<1>2. Inv /\ [ScopedNext]_<<vars, scope, pageVars>> => Inv'
  <2> SUFFICES ASSUME Inv, [ScopedNext]_<<vars, scope, pageVars>> PROVE Inv'
    OBVIOUS
  <2>1. CASE scope = {"explorer"} /\ scope' = scope /\ Explorer!Next
    BY <2>1, ExplorerGoesOn
  <2>2. CASE scope' = scope /\ UNCHANGED explorerVars
    BY <2>2 DEF explorerVars, ExplorerInv, WorkTyped, ListsTyped, Addressed, ViewTyped, Views, OpenedTyped, Known, Unmoved, Awaited, Proposals
  <2> QED BY <2>1, <2>2 DEF ScopedNext, Asked, pageVars
<1>3. Inv => ShowsWhatWasOpened
  <2>1. CASE view # NoTopic /\ target = NoTopic /\ ~opened.overtaken /\ Inv
    BY <2>1, ShownHolds
  <2> QED BY <2>1 DEF ShowsWhatWasOpened, Explorer!ShowsWhatWasOpened, Explorer!Mounted
<1> QED BY <1>1, <1>2, <1>3, PTL DEF ScopedSpec
=============================================================================
