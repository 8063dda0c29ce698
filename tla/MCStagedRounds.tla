---------------------------- MODULE MCStagedRounds ----------------------------
(***************************************************************************)
(* Instances of StagedRounds, and beside them the smallest instances of    *)
(* the other transactions that wait for each other or retry: votes and GIF *)
(* rewards of one account, and toggles of one stance.  A behaviour is      *)
(* about one of the three; the others have no request.                     *)
(***************************************************************************)
EXTENDS StagedRounds, TLC

CONSTANTS Users, Remover, MaxAttempts, NoTopic, Two

VARIABLES
    scope,
    status, signals, counts, holder, pc, job, attempt, snap, fresh,
    voteStatus, ended, votes, picks, ranks, totalVotes, voterCount, voteCount, ledger, balance,
    advisory, topicLock, userLock, voteTx, workload

toggleVars == <<status, signals, counts, holder, pc, job, attempt, snap, fresh>>
voteVars == <<voteStatus, ended, votes, picks, ranks, totalVotes, voterCount, voteCount, ledger, balance,
              advisory, topicLock, userLock, voteTx, workload>>

Toggles == INSTANCE StanceSignals WITH Requests <- Two

Account == [ops |-> {<<"vote", "formal">>, <<"comment", "formal">>}, users |-> Users, atOnce |-> 2]
Votes == INSTANCE VoteTransactions
    WITH status <- voteStatus, tx <- voteTx, Requests <- Two,
         Topics <- {"formal"}, Options <- {1}, OptionTopic <- <<"formal">>,
         Kind <- [t \in {"formal"} |-> "FORMAL"], Type <- [t \in {"formal"} |-> "CHOICE"],
         Parent <- [t \in {"formal"} |-> NoTopic], MaxSelections <- [t \in {"formal"} |-> 0],
         RewardPoints <- 2, Workloads <- {Account}, MaxCredits <- 1

RequestsInit == scope \in {"rounds", "toggles", "votes"} /\ Init /\ Toggles!Init /\ Votes!Init

\* What one of the three does, while the other two rest.
Only(rounds_, toggles_, votes_) ==
    /\ UNCHANGED scope
    /\ \/ scope = "rounds" /\ rounds_ /\ UNCHANGED <<toggleVars, voteVars>>
       \/ scope = "toggles" /\ toggles_ /\ UNCHANGED <<vars, voteVars>>
       \/ scope = "votes" /\ votes_ /\ UNCHANGED <<vars, toggleVars>>

RequestsNext == Only(Next, Toggles!Next, Votes!Next)

\* The fairness each of the three modules states for its own requests.
Runs(r) == Only(Statement(r), r \in Two /\ Toggles!Toggle(r), r \in Two /\ Votes!Statement(r))
Fails(r) == Only(FALSE, Toggles!Remove \/ Toggles!RemoveFails,
                 r \in Two /\ (Votes!Refuse(r) \/ Votes!AbortVictim(r)))

all == <<scope, vars, toggleVars, voteVars>>
RequestsSpec ==
    /\ RequestsInit /\ [][RequestsNext]_all
    /\ \A r \in Requests : SF_all(Runs(r))
    /\ \A r \in Two : WF_all(Fails(r))

Ended(r) == IsIdle(r) /\ (r \in Two => pc[r] = "idle" /\ voteTx[r].pc = "idle")

\* No request waits for ever, for a lock or for a retry: the author's requests, which lock rounds
\* before the parent; toggles, whose retries run out; votes and comments, which may deadlock.
EveryRequestEnds == \A r \in Requests : ~Ended(r) ~> Ended(r)
=============================================================================
