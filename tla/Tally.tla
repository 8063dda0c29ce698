-------------------------------- MODULE Tally --------------------------------
(***************************************************************************)
(* What voting promises, one atomic step per request: the votes, the rank  *)
(* results, the counters kept beside them and the points they earn.  The   *)
(* locks and the statements that make each step atomic are in              *)
(* VoteTransactions, which implements this module.  A step here is the     *)
(* commit of a transaction; the voting deadline is a test of the API's     *)
(* clock inside the transaction, so it is in VoteTransactions only.        *)
(***************************************************************************)
EXTENDS Ballot

CONSTANT MaxCredits   \* bound of the runs: points a user earns elsewhere

ASSUME CreditsAssumption == MaxCredits \in Nat

VARIABLES
    status,       \* topics.status
    votes,        \* topic -> users with a row in "votes" (unique per user and topic)
    picks,        \* option -> users whose vote selects it (option_id or vote_selections)
    ranks,        \* topic -> users with a row in "topic_rank_results"
    totalVotes,   \* topics.total_votes
    voterCount,   \* topics.voter_count
    voteCount,    \* topic_options.vote_count
    rewarded,     \* user -> topics with a VOTE_<topic>_<user> point transaction
    credited,     \* user -> points of every other point transaction
    balance       \* users.points_balance

counters == <<totalVotes, voterCount, voteCount>>
rows     == <<votes, picks, ranks>>
points   == <<rewarded, credited, balance>>
vars     == <<status, rows, counters, points>>

Init ==
    /\ status \in [Topics -> {"DRAFT"}]
    /\ votes = [t \in Topics |-> {}]
    /\ picks = [o \in Options |-> {}]
    /\ ranks = [t \in Topics |-> {}]
    /\ totalVotes = [t \in Topics |-> 0]
    /\ voterCount = [t \in Topics |-> 0]
    /\ voteCount = [o \in Options |-> 0]
    /\ rewarded = [u \in Users |-> {}]
    /\ credited = [u \in Users |-> 0]
    /\ balance = [u \in Users |-> 0]

PickedSingle(u, t) ==
    {o \in OptionsOf(t) : u \in picks[o] /\ Type[t] # "MULTI_SELECT"}

\* tx.vote.findUnique by user and topic.
Answered(u, t) == u \in votes[t]

\* The options u's vote on t selects: its option_id or its selections.
Picked(u, t) == {o \in OptionsOf(t) : u \in picks[o]}

AcceptingEvenLocked(t) == status[t] # "DRAFT"

\* The topic is OPEN (and APPROVED, which the same update sets).
Accepting(t) == status[t] = "OPEN"

-----------------------------------------------------------------------------
(* The lifecycle of a topic, as far as voting sees it.                     *)

\* The children inserted with a topic: all questions of a survey, the first round of a
\* staged topic.
PublishedChildren(t) ==
    IF Kind[t] = "SURVEY" THEN {Questions(t)}
    ELSE IF Kind[t] = "STAGED" THEN {{q} : q \in Questions(t)}
    ELSE {{}}

\* create + review, createQuick, createSurvey, createStaged and publishEditorial: the
\* topic and the children inserted with it are OPEN and APPROVED.
Publish(t, children) ==
    /\ status[t] = "DRAFT"
    /\ ~IsChild(t)
    /\ children \in PublishedChildren(t)
    /\ status' = [x \in Topics |-> IF x \in children \cup {t} THEN "OPEN" ELSE status[x]]
    /\ UNCHANGED <<rows, counters, points>>

\* publishRound: the next round opens; the previous one, when the publisher saw it OPEN,
\* is locked in the same transaction.
OpenRound(t, previous) ==
    /\ IsRound(t)
    /\ status[t] = "DRAFT"
    /\ status[Parent[t]] # "DRAFT"
    /\ \A x \in previous : Parent[x] = Parent[t] /\ status[x] = "OPEN"
    /\ status' = [x \in Topics |-> IF x = t THEN "OPEN"
                                   ELSE IF x \in previous THEN "LOCKED"
                                   ELSE status[x]]
    /\ UNCHANGED <<rows, counters, points>>

\* finishStaged: every existing round is locked and the parent settled.
FinishStaged(p) ==
    /\ Kind[p] = "STAGED"
    /\ status[p] \in {"OPEN", "SETTLED"}
    /\ status' = [x \in Topics |->
                    IF x = p THEN "SETTLED"
                    ELSE IF x \in Questions(p) /\ status[x] # "DRAFT" THEN "LOCKED"
                    ELSE status[x]]
    /\ UNCHANGED <<rows, counters, points>>

-----------------------------------------------------------------------------
(* Answers.                                                                *)

CountedBeforeInsert(u, t) == {t} \cup CompletedParents(t, u, votes, ranks)

\* The new vote of u on t and, when it completes a survey, the marker vote on the parent.
Counted(u, t) ==
    {t} \cup CompletedParents(t, u, [votes EXCEPT ![t] = @ \cup {u}], ranks)

\* Insert u's vote on every topic of M and count it there.
CountVotes(u, M) ==
    /\ votes' = [x \in Topics |-> IF x \in M THEN votes[x] \cup {u} ELSE votes[x]]
    /\ totalVotes' = [x \in Topics |-> IF x \in M THEN totalVotes[x] + 1 ELSE totalVotes[x]]

Select(u, S) ==
    /\ picks' = [o \in Options |-> IF o \in S THEN picks[o] \cup {u} ELSE picks[o]]
    /\ voteCount' = [o \in Options |-> IF o \in S THEN voteCount[o] + 1 ELSE voteCount[o]]

\* Only FORMAL topics grant points, once per user and topic (the idempotency key).
Reward(u, t) ==
    IF Kind[t] = "FORMAL" /\ RewardPoints > 0 /\ t \notin rewarded[u]
    THEN /\ rewarded' = [rewarded EXCEPT ![u] = @ \cup {t}]
         /\ balance' = [balance EXCEPT ![u] = @ + RewardPoints]
         /\ UNCHANGED credited
    ELSE UNCHANGED points

\* vote(): a first answer on any topic but a draw game or a staged parent.
Vote(u, t, S) ==
    /\ Type[t] # "DRAW"
    /\ Kind[t] # "STAGED"
    /\ Accepting(t)
    /\ ~Answered(u, t)
    /\ S \in AnswerSets(t)
    /\ CountVotes(u, Counted(u, t))
    /\ voterCount' = [x \in Topics |-> IF x \in Counted(u, t) THEN voterCount[x] + 1
                                       ELSE voterCount[x]]
    /\ Select(u, S)
    /\ Reward(u, t)
    /\ UNCHANGED <<status, ranks>>

\* scratchDraw() and gameDraw(): the server draws the option; no points.
Draw(u, t, o) ==
    /\ Type[t] = "DRAW"
    /\ Accepting(t)
    /\ ~Answered(u, t)
    /\ o \in OptionsOf(t)
    /\ CountVotes(u, Counted(u, t))
    /\ voterCount' = [x \in Topics |-> IF x \in Counted(u, t) THEN voterCount[x] + 1
                                       ELSE voterCount[x]]
    /\ Select(u, {o})
    /\ UNCHANGED <<status, ranks, points>>

AddedEverything(u, t, S) == S

\* The options a new answer selects that the old one did not.
Added(u, t, S) == S \ Picked(u, t)

\* revote() with a different answer: QUICK, not a question or round, not a draw.
Revote(u, t, S) ==
    /\ Kind[t] = "QUICK"
    /\ ~IsChild(t)
    /\ Type[t] # "DRAW"
    /\ Accepting(t)
    /\ Answered(u, t)
    /\ S \in AnswerSets(t) \ {Picked(u, t)}
    /\ picks' = [o \in Options |->
                    IF o \in S THEN picks[o] \cup {u}
                    ELSE IF o \in Picked(u, t) THEN picks[o] \ {u}
                    ELSE picks[o]]
    /\ voteCount' = [o \in Options |->
                        IF o \in Added(u, t, S) THEN voteCount[o] + 1
                        ELSE IF o \in Picked(u, t) \ S THEN voteCount[o] - 1
                        ELSE voteCount[o]]
    /\ UNCHANGED <<status, votes, ranks, totalVotes, voterCount, points>>

\* withdrawVote(): QUICK, not a question or round; draws may be reset this way.
WithdrawVote(u, t) ==
    /\ Kind[t] = "QUICK"
    /\ ~IsChild(t)
    /\ Accepting(t)
    /\ Answered(u, t)
    /\ votes' = [votes EXCEPT ![t] = @ \ {u}]
    /\ picks' = [o \in Options |-> IF o \in Picked(u, t) THEN picks[o] \ {u} ELSE picks[o]]
    /\ voteCount' = [o \in Options |-> IF o \in Picked(u, t) THEN voteCount[o] - 1
                                       ELSE voteCount[o]]
    /\ totalVotes' = [totalVotes EXCEPT ![t] = @ - 1]
    /\ voterCount' = [voterCount EXCEPT ![t] = @ - 1]
    /\ UNCHANGED <<status, ranks, points>>

\* saveRank() of a user without a rank result (a second one changes no counter).
SaveRank(u, t) ==
    LET ranked == [ranks EXCEPT ![t] = @ \cup {u}]
        done   == CompletedParents(t, u, votes, ranked)
    IN  /\ Type[t] = "IMAGE_RANK"
        /\ Accepting(t)
        /\ u \notin ranks[t]
        /\ ranks' = ranked
        /\ CountVotes(u, done)
        /\ voterCount' = [x \in Topics |-> IF x \in done \cup {t} THEN voterCount[x] + 1
                                           ELSE voterCount[x]]
        /\ UNCHANGED <<status, picks, voteCount, points>>

\* withdrawRank(): not for a question or a round.
WithdrawRank(u, t) ==
    /\ Type[t] = "IMAGE_RANK"
    /\ ~IsChild(t)
    /\ Accepting(t)
    /\ u \in ranks[t]
    /\ ranks' = [ranks EXCEPT ![t] = @ \ {u}]
    /\ voterCount' = [voterCount EXCEPT ![t] = @ - 1]
    /\ UNCHANGED <<status, votes, picks, totalVotes, voteCount, points>>

\* Another transaction credits a point to the user (recordUsage of a meme of theirs).
EarnElsewhere(u) ==
    /\ credited[u] < MaxCredits
    /\ credited' = [credited EXCEPT ![u] = @ + 1]
    /\ balance' = [balance EXCEPT ![u] = @ + 1]
    /\ UNCHANGED <<status, rows, counters, rewarded>>

Next ==
    \/ \E t \in Topics : \E T \in SUBSET Questions(t) : Publish(t, T)
    \/ \E t \in Topics : OpenRound(t, {})
    \/ \E t, x \in Topics : OpenRound(t, {x})
    \/ \E t \in Topics : FinishStaged(t)
    \/ \E u \in Users, t \in Topics : \E S \in SUBSET OptionsOf(t) : Vote(u, t, S)
    \/ \E u \in Users, t \in Topics : \E o \in OptionsOf(t) : Draw(u, t, o)
    \/ \E u \in Users, t \in Topics : \E S \in SUBSET OptionsOf(t) : Revote(u, t, S)
    \/ \E u \in Users, t \in Topics : WithdrawVote(u, t)
    \/ \E u \in Users, t \in Topics : SaveRank(u, t)
    \/ \E u \in Users, t \in Topics : WithdrawRank(u, t)
    \/ \E u \in Users : EarnElsewhere(u)

Spec == Init /\ [][Next]_vars

-----------------------------------------------------------------------------
\* Every variable has its type; the counters never fall below zero, which the CHECK
\* constraints of the schema also demand of the columns.
TypeOK ==
    /\ status \in [Topics -> Statuses]
    /\ votes \in [Topics -> SUBSET Users]
    /\ picks \in [Options -> SUBSET Users]
    /\ ranks \in [Topics -> SUBSET Users]
    /\ totalVotes \in [Topics -> Nat]
    /\ voterCount \in [Topics -> Nat]
    /\ voteCount \in [Options -> Nat]
    /\ rewarded \in [Users -> SUBSET Topics]
    /\ credited \in [Users -> Nat]
    /\ balance \in [Users -> Nat]

\* total_votes, kept by increments and decrements across six operations and the survey
\* marker, is the number of votes of the topic.
TotalVotesCountVotes == \A t \in Topics : totalVotes[t] = Cardinality(votes[t])

\* voter_count is the number of votes plus the number of rank results.
VoterCountCountsAnswers ==
    \A t \in Topics : voterCount[t] = Cardinality(votes[t]) + Cardinality(ranks[t])

\* vote_count of every option is the number of votes that select it, whatever sequence of
\* votes, partial changes of selections and withdrawals led here.
VoteCountCountsPicks == \A o \in Options : voteCount[o] = Cardinality(picks[o])

\* Every counter agrees with the rows it counts.
CountersCountRows == TotalVotesCountVotes /\ VoterCountCountsAnswers /\ VoteCountCountsPicks

\* The answer recorded for a vote is one the topic's type allows, and no option remains
\* selected by someone without a vote.
AnswersWellFormed ==
    \A t \in Topics, u \in Users :
        IF u \in votes[t] /\ Type[t] # "CONTAINER"
        THEN Picked(u, t) \in AnswerSets(t)
        ELSE Picked(u, t) = {}

\* A survey's own vote marks exactly the users who have answered all its questions.
SurveyMarksCompletion ==
    \A p \in Topics, u \in Users : Kind[p] = "SURVEY" =>
        (u \in votes[p] <=> SurveyComplete(p, u, votes, ranks))

Rewarding(t) == RewardPoints > 0 /\ Kind[t] = "FORMAL" /\ Type[t] # "DRAW"

\* Points: one reward for each FORMAL topic voted on, a drawn one excepted, and nothing
\* else from voting; the balance is the sum of the ledger.
BalanceIsLedger ==
    \A u \in Users :
        /\ rewarded[u] = {t \in Topics : Rewarding(t) /\ u \in votes[t]}
        /\ balance[u] = RewardPoints * Cardinality(rewarded[u]) + credited[u]

\* Once a round is locked no answer to it is added, changed or removed and its counters
\* stand still: the feedback published with the lock describes a final result.
LockedRoundsAreFinal ==
    [][\A t \in Topics : status[t] = "LOCKED" =>
          /\ status'[t] = "LOCKED"
          /\ votes'[t] = votes[t] /\ ranks'[t] = ranks[t]
          /\ totalVotes'[t] = totalVotes[t] /\ voterCount'[t] = voterCount[t]
          /\ \A o \in OptionsOf(t) : picks'[o] = picks[o] /\ voteCount'[o] = voteCount[o]
      ]_vars

\* docs/database.md: voter_count counts people.  vote() accepts an option of an
\* IMAGE_RANK topic, so one person's vote and rank result are counted twice.
VoterCountIsPeople ==
    \A t \in Topics : voterCount[t] = Cardinality(votes[t] \cup ranks[t])
=============================================================================
