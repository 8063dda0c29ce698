-------------------------- MODULE VoteTransactions --------------------------
(***************************************************************************)
(* The voting operations of TopicsService as the database sees them: each  *)
(* request runs one READ COMMITTED transaction, a statement per step, and  *)
(* any number of requests interleave.  A statement reads what has been     *)
(* committed and what its own transaction wrote; writes take row locks and *)
(* become visible at the commit.  The locks are                            *)
(*   advisory   pg_advisory_xact_lock(userId), taken first                 *)
(*   topicLock  the row of "topics": SELECT ... FOR UPDATE or an UPDATE    *)
(*   userLock   the row of "users": SELECT ... FOR UPDATE                  *)
(* A transaction may roll back at any point (an error, a timeout, the end  *)
(* of the process, a deadlock victim).  The commits implement Tally.       *)
(*                                                                         *)
(* Beside the six voting operations there is one discussion transaction:   *)
(* createComment with a GIF, which pays the GIF's creator under the same   *)
(* user row lock and then updates the topic row.                           *)
(***************************************************************************)
EXTENDS Ballot, Sequences, SequencesExt

CONSTANTS
    Requests,     \* HTTP requests that may be in progress at once
    NoReq,
    Workloads,    \* bounds of the runs: the workloads a behaviour may be about
    MaxCredits    \* bound of the runs: GIF rewards a user receives

ASSUME RequestAssumption ==
    /\ IsFiniteSet(Requests)
    /\ NoReq \notin Requests
    /\ NoReq \notin Users
    /\ MaxCredits \in Nat

VARIABLES
    status, ended, votes, picks, ranks, totalVotes, voterCount, voteCount,
    ledger,       \* user -> point_transactions in commit order
    balance,
    advisory, topicLock, userLock,
    tx,           \* request -> its transaction
    workload      \* bound of the behaviour: who requests what, and how many at once

tables == <<votes, picks, ranks, totalVotes, voterCount, voteCount, ledger, balance>>
locks  == <<advisory, topicLock, userLock>>
vars   == <<status, ended, tables, locks, tx, workload>>

First == {"vote", "draw"}                       \* operations that insert a vote
VoteOps == First \cup {"revote", "withdraw", "saveRank", "withdrawRank"}

ASSUME WorkloadAssumption ==
    Workloads \subseteq [ops : SUBSET ((VoteOps \cup {"comment"}) \X Topics), users : SUBSET Users,
                         atOnce : Nat]

\* A transaction: the statement it is at, the request, and what its reads returned.
Idle == [pc |-> "idle", op |-> "none", u |-> NoReq, t |-> NoTopic, answer |-> {},
         open |-> FALSE, old |-> {}, before |-> 0, wrote |-> FALSE, marker |-> {},
         reward |-> FALSE]

Init ==
    /\ status = [t \in Topics |-> "DRAFT"]
    /\ ended = {}
    /\ votes = [t \in Topics |-> {}]
    /\ picks = [o \in Options |-> {}]
    /\ ranks = [t \in Topics |-> {}]
    /\ totalVotes = [t \in Topics |-> 0]
    /\ voterCount = [t \in Topics |-> 0]
    /\ voteCount = [o \in Options |-> 0]
    /\ ledger = [u \in Users |-> <<>>]
    /\ balance = [u \in Users |-> 0]
    /\ advisory = [u \in Users |-> NoReq]
    /\ topicLock = [t \in Topics |-> NoReq]
    /\ userLock = [u \in Users |-> NoReq]
    /\ tx = [r \in Requests |-> Idle]
    /\ workload \in Workloads

-----------------------------------------------------------------------------
(* The tables, read as the state of Tally.                                 *)

Rewarded == [u \in Users |-> {t \in Topics : \E i \in DOMAIN ledger[u] : ledger[u][i].key = t}]

Credited == [u \in Users |-> Cardinality({i \in DOMAIN ledger[u] : ledger[u][i].key = NoTopic})]

T == INSTANCE Tally WITH rewarded <- Rewarded, credited <- Credited

Picked(u, t) == T!Picked(u, t)

-----------------------------------------------------------------------------
(* Locks and waiting.                                                      *)

Free(lock, r) == lock \in {NoReq, r}

At(r, pc) == tx[r].pc = pc

Goto(r, pc) == tx' = [tx EXCEPT ![r].pc = pc]

OpeningTopicFirst == <<"lockTopic", "lockAdvisory", "readTopic">>

\* The order in which every voting transaction takes its first two locks.
Opening == <<"lockAdvisory", "lockTopic", "readTopic">>

FirstStatement(op) == IF op = "comment" THEN "lockUser" ELSE Opening[1]

After(pc) == Opening[1 + CHOOSE i \in 1..2 : Opening[i] = pc]

\* The topics on which r has inserted a vote of its user's that is not committed yet.
Inserted(r) ==
    tx[r].marker \cup (IF tx[r].wrote /\ tx[r].op \in First THEN {tx[r].t} ELSE {})

\* votes_user_id_topic_id_key: an insert waits for the transaction that has the same key
\* in flight, and fails on a committed one.
KeyFree(r, t) ==
    /\ tx[r].u \notin votes[t]
    /\ \A x \in Requests \ {r} : tx[x].u = tx[r].u => t \notin Inserted(x)

\* What r's own transaction sees: the committed rows and its own writes.
OwnVotes(r) ==
    [t \in Topics |-> IF t \in Inserted(r) THEN votes[t] \cup {tx[r].u} ELSE votes[t]]

OwnRanks(r) ==
    [t \in Topics |-> IF t = tx[r].t /\ tx[r].op = "saveRank" /\ tx[r].wrote
                      THEN ranks[t] \cup {tx[r].u} ELSE ranks[t]]

-----------------------------------------------------------------------------
(* Requests.                                                               *)

\* The answers a request may carry: none, or one the topic allows.  The option of a draw
\* is the server's choice, made here; rankings are not told apart.
Answers(op, t) ==
    {{}} \cup (IF op \in {"vote", "draw", "revote"} THEN AnswerSets(t) ELSE {})

\* The GIF rewards u has and those on their way.
Paying(u) ==
    Credited[u] + Cardinality({x \in Requests : tx[x].op = "comment" /\ tx[x].u = u})

Busy == {r \in Requests : ~At(r, "idle")}

\* The topics a workload is about, with their parents and sibling questions.
Concerned ==
    LET asked   == {w[2] : w \in workload.ops}
        parents == {Parent[t] : t \in asked} \cap Topics
    IN  asked \cup parents \cup UNION {Questions(p) : p \in asked \cup parents}

\* A request passes the policy and access checks and starts its transaction.
Arrive(r, op, u, t, S) ==
    /\ At(r, "idle")
    /\ Cardinality(Busy) < workload.atOnce
    /\ op = "comment" => Paying(u) < MaxCredits
    /\ tx' = [tx EXCEPT ![r] = [Idle EXCEPT !.pc = FirstStatement(op), !.op = op,
                                            !.u = u, !.t = t, !.answer = S]]
    /\ UNCHANGED <<status, ended, tables, locks, workload>>

LockAdvisoryNone(r) ==
    /\ At(r, "lockAdvisory")
    /\ Goto(r, After("lockAdvisory"))
    /\ UNCHANGED <<status, ended, tables, locks, workload>>

\* SELECT pg_advisory_xact_lock(userId)
LockAdvisory(r) ==
    /\ At(r, "lockAdvisory")
    /\ Free(advisory[tx[r].u], r)
    /\ advisory' = [advisory EXCEPT ![tx[r].u] = r]
    /\ Goto(r, After("lockAdvisory"))
    /\ UNCHANGED <<status, ended, tables, topicLock, userLock, workload>>

\* SELECT id FROM topics WHERE id = topicId FOR UPDATE
LockTopic(r) ==
    /\ At(r, "lockTopic")
    /\ Free(topicLock[tx[r].t], r)
    /\ topicLock' = [topicLock EXCEPT ![tx[r].t] = r]
    /\ Goto(r, After("lockTopic"))
    /\ UNCHANGED <<status, ended, tables, advisory, userLock, workload>>

\* The checks of each operation on the kind and type of the topic.
Suits(op, t) ==
    CASE op = "vote"         -> Type[t] # "DRAW" /\ Kind[t] # "STAGED"
      [] op = "draw"         -> Type[t] = "DRAW"
      [] op = "revote"       -> Type[t] # "DRAW" /\ Kind[t] = "QUICK" /\ ~IsChild(t)
      [] op = "withdraw"     -> Kind[t] = "QUICK" /\ ~IsChild(t)
      [] op = "saveRank"     -> Type[t] = "IMAGE_RANK"
      [] op = "withdrawRank" -> Type[t] = "IMAGE_RANK" /\ ~IsChild(t)

OpenNow(t) == status[t] = "OPEN" /\ t \notin ended

\* The topic is read after its row is locked; every operation but a draw needs it to be
\* open now (a draw first looks for an earlier result).
ReadTopic(r) ==
    LET q == tx[r] IN
    /\ At(r, "readTopic")
    /\ Suits(q.op, q.t)
    /\ OpenNow(q.t) \/ q.op = "draw"
    /\ tx' = [tx EXCEPT ![r].pc = "readAnswer", ![r].open = OpenNow(q.t)]
    /\ UNCHANGED <<status, ended, tables, locks, workload>>

HasVoted(u, t) == u \in votes[t]

\* The existing vote or rank result decides: nothing to change, or a write.  A first vote
\* first locks the user's row.
ReadAnswer(r) ==
    LET q      == tx[r]
        voted  == HasVoted(q.u, q.t)
        ranked == q.u \in ranks[q.t]
        old    == IF voted THEN Picked(q.u, q.t) ELSE {}
        next   == [q EXCEPT !.old = old]
    IN
    /\ At(r, "readAnswer")
    /\ \/ q.op = "vote" /\ ~voted /\ tx' = [tx EXCEPT ![r].pc = "lockUser"]
       \/ q.op = "draw" /\ voted /\ Goto(r, "commit")
       \/ q.op = "draw" /\ ~voted /\ q.open /\ Goto(r, "write")
       \/ /\ q.op = "revote" /\ voted
          /\ tx' = [tx EXCEPT ![r] = [next EXCEPT !.pc = IF old = q.answer THEN "commit"
                                                         ELSE "write"]]
       \/ q.op = "withdraw" /\ voted /\ tx' = [tx EXCEPT ![r] = [next EXCEPT !.pc = "write"]]
       \/ q.op = "saveRank" /\ ~ranked /\ Goto(r, "write")
       \/ q.op = "saveRank" /\ ranked /\ ~IsChild(q.t) /\ Goto(r, "commit")
       \/ q.op = "withdrawRank" /\ ranked /\ Goto(r, "write")
    /\ UNCHANGED <<status, ended, tables, locks, workload>>

LockUserPlainRead(r) ==
    /\ At(r, "lockUser")
    /\ tx' = [tx EXCEPT ![r].pc = IF tx[r].op = "comment" THEN "touchTopic" ELSE "write",
                        ![r].before = balance[tx[r].u]]
    /\ UNCHANGED <<status, ended, tables, locks, workload>>

\* SELECT id, points_balance FROM users WHERE id = userId FOR UPDATE
LockUser(r) ==
    LET u == tx[r].u IN
    /\ At(r, "lockUser")
    /\ Free(userLock[u], r)
    /\ userLock' = [userLock EXCEPT ![u] = r]
    /\ tx' = [tx EXCEPT ![r].pc = IF tx[r].op = "comment" THEN "touchTopic" ELSE "write",
                        ![r].before = balance[u]]
    /\ UNCHANGED <<status, ended, tables, advisory, topicLock, workload>>

\* The statements that write the answer and its counters.  An insert needs its unique key
\* and a share of the user's row (the foreign key); the counters need the topic's row.
Write(r) ==
    LET q == tx[r] IN
    /\ At(r, "write")
    /\ q.op \in {"vote", "draw", "revote"} => q.answer \in AnswerSets(q.t)
    /\ q.op \in First => KeyFree(r, q.t)
    /\ q.op \in First \cup {"revote", "saveRank"} => Free(userLock[q.u], r)
    /\ Free(topicLock[q.t], r)
    /\ topicLock' = [topicLock EXCEPT ![q.t] = r]
    /\ tx' = [tx EXCEPT ![r].wrote = TRUE,
                        ![r].pc = IF q.op \in First \cup {"saveRank"} /\ IsChild(q.t)
                                  THEN "readSurvey"
                                  ELSE IF q.op = "vote" /\ Kind[q.t] = "FORMAL"
                                  THEN "reward" ELSE "commit"]
    /\ UNCHANGED <<status, ended, tables, advisory, userLock, workload>>

\* isSurveyComplete: count the user's answers to the sibling questions.
ReadSurvey(r) ==
    LET q == tx[r] IN
    /\ At(r, "readSurvey")
    /\ Goto(r, IF SurveyComplete(Parent[q.t], q.u, OwnVotes(r), OwnRanks(r))
               THEN "readMarker" ELSE "commit")
    /\ UNCHANGED <<status, ended, tables, locks, workload>>

\* ensureSurveyCompletionVote: look for the marker ...
ReadMarker(r) ==
    LET q == tx[r] IN
    /\ At(r, "readMarker")
    /\ Goto(r, IF q.u \in votes[Parent[q.t]] THEN "commit" ELSE "writeMarker")
    /\ UNCHANGED <<status, ended, tables, locks, workload>>

\* ... and insert it and count it on the parent's row.
WriteMarker(r) ==
    LET q == tx[r]
        p == Parent[q.t]
    IN
    /\ At(r, "writeMarker")
    /\ KeyFree(r, p)
    /\ Free(topicLock[p], r)
    /\ topicLock' = [topicLock EXCEPT ![p] = r]
    /\ tx' = [tx EXCEPT ![r].pc = "commit", ![r].marker = {p}]
    /\ UNCHANGED <<status, ended, tables, advisory, userLock, workload>>

\* The reward of a FORMAL vote, unless its idempotency key is in the ledger.
WriteReward(r) ==
    LET q == tx[r] IN
    /\ At(r, "reward")
    /\ tx' = [tx EXCEPT ![r].pc = "commit",
                        ![r].reward = RewardPoints > 0 /\ q.t \notin Rewarded[q.u]]
    /\ UNCHANGED <<status, ended, tables, locks, workload>>

\* createComment after recordUsage: pay the creator, then UPDATE topics SET updated_at.
TouchTopic(r) ==
    /\ At(r, "touchTopic")
    /\ Free(topicLock[tx[r].t], r)
    /\ topicLock' = [topicLock EXCEPT ![tx[r].t] = r]
    /\ tx' = [tx EXCEPT ![r].pc = "commit", ![r].wrote = TRUE]
    /\ UNCHANGED <<status, ended, tables, advisory, userLock, workload>>

-----------------------------------------------------------------------------
(* The end of a transaction.                                               *)

Released(lock, r) == [x \in DOMAIN lock |-> IF lock[x] = r THEN NoReq ELSE lock[x]]

\* Commit and rollback release every lock: all three are held to the end of the
\* transaction and no longer.
Release(r) ==
    /\ advisory' = Released(advisory, r)
    /\ topicLock' = Released(topicLock, r)
    /\ userLock' = Released(userLock, r)

\* The point transaction of r, if it has one.
Entries(r) ==
    LET q == tx[r]
        Entry(key, n) == <<[key |-> key, before |-> q.before, after |-> q.before + n]>>
    IN  IF q.reward THEN Entry(q.t, RewardPoints)
        ELSE IF q.op = "comment" THEN Entry(NoTopic, 1)
        ELSE <<>>

Commit(r) ==
    LET q       == tx[r]
        counted == Inserted(r)
        gone    == IF q.wrote /\ q.op = "withdraw" THEN {q.t} ELSE {}
        ranked  == IF q.wrote /\ q.op = "saveRank" THEN {q.t} ELSE {}
        dropped == IF q.wrote /\ q.op = "withdrawRank" THEN {q.t} ELSE {}
        added   == IF q.wrote THEN q.answer \ q.old ELSE {}
        removed == IF q.wrote THEN q.old \ q.answer ELSE {}
        Put(f, in, out) == [x \in DOMAIN f |-> IF x \in in THEN f[x] \cup {q.u}
                                               ELSE IF x \in out THEN f[x] \ {q.u} ELSE f[x]]
        Add(f, in, out) == [x \in DOMAIN f |-> IF x \in in THEN f[x] + 1
                                               ELSE IF x \in out THEN f[x] - 1 ELSE f[x]]
    IN
    /\ At(r, "commit")
    /\ votes' = Put(votes, counted, gone)
    /\ ranks' = Put(ranks, ranked, dropped)
    /\ picks' = Put(picks, added, removed)
    /\ totalVotes' = Add(totalVotes, counted, gone)
    /\ voterCount' = Add(voterCount, counted \cup ranked, gone \cup dropped)
    /\ voteCount' = Add(voteCount, added, removed)
    /\ ledger' = [ledger EXCEPT ![q.u] = @ \o Entries(r)]
    /\ balance' = [balance EXCEPT ![q.u] = IF Entries(r) = <<>> THEN @
                                           ELSE Entries(r)[1].after]
    /\ Release(r)
    /\ tx' = [tx EXCEPT ![r] = Idle]
    /\ UNCHANGED <<status, ended, workload>>

\* A refused request, an error, a timeout of the transaction, a crash of the process.
Rollback(r) ==
    /\ ~At(r, "idle")
    /\ Release(r)
    /\ tx' = [tx EXCEPT ![r] = Idle]
    /\ UNCHANGED <<status, ended, tables, workload>>

\* What r's transaction has read refuses the request: an exception, hence a rollback.
Refused(r) ==
    LET q == tx[r] IN
    \/ q.pc = "readTopic" /\ ~(Suits(q.op, q.t) /\ (OpenNow(q.t) \/ q.op = "draw"))
    \/ q.pc = "readAnswer" /\ q.op = "vote" /\ HasVoted(q.u, q.t)
    \/ q.pc = "readAnswer" /\ q.op = "draw" /\ ~HasVoted(q.u, q.t) /\ ~q.open
    \/ q.pc = "readAnswer" /\ q.op \in {"revote", "withdraw"} /\ ~HasVoted(q.u, q.t)
    \/ q.pc = "readAnswer" /\ q.op = "saveRank" /\ q.u \in ranks[q.t] /\ IsChild(q.t)
    \/ q.pc = "readAnswer" /\ q.op = "withdrawRank" /\ q.u \notin ranks[q.t]
    \/ /\ q.pc = "write" /\ q.op \in First \cup {"revote"}
       /\ q.answer \notin AnswerSets(q.t)

Refuse(r) == Refused(r) /\ Rollback(r)

-----------------------------------------------------------------------------
(* Who waits for whom.                                                     *)

Holders(r) ==
    LET q == tx[r] IN
    CASE q.pc = "lockAdvisory" -> {advisory[q.u]}
      [] q.pc \in {"lockTopic", "touchTopic"} -> {topicLock[q.t]}
      [] q.pc = "lockUser" -> {userLock[q.u]}
      [] q.pc = "write" -> {topicLock[q.t]} \cup
            (IF q.op \in First \cup {"revote", "saveRank"} THEN {userLock[q.u]} ELSE {})
      [] q.pc = "writeMarker" -> {topicLock[Parent[q.t]]}
      [] OTHER -> {}

WaitsFor(r) == Holders(r) \ {NoReq, r}

\* Everyone in C waits for someone in C.
Deadlocked(C) == C # {} /\ \A r \in C : WaitsFor(r) \cap C # {}

\* The transactions of a circle, without those that only wait for one of them.
Circle(C) == Deadlocked(C) /\ \A D \in SUBSET C : Deadlocked(D) => D = C

InDeadlock(r) == \E C \in SUBSET Requests : r \in C /\ Circle(C)

\* PostgreSQL's deadlock detector aborts a transaction of a cycle.
AbortVictim(r) == InDeadlock(r) /\ Rollback(r)

-----------------------------------------------------------------------------
(* The topics: published, their rounds opened and locked, their deadlines. *)

Publish(t, children) ==
    /\ topicLock[t] = NoReq
    /\ UNCHANGED <<ended, tables, locks, tx, workload>>
    /\ T!Publish(t, children)

\* publishRound updates the previous round and the parent, so it waits for their locks.
OpenRound(t, previous) ==
    /\ \A x \in previous \cup {Parent[t]} : x \in Topics => topicLock[x] = NoReq
    /\ UNCHANGED <<ended, tables, locks, tx, workload>>
    /\ T!OpenRound(t, previous)

FinishStaged(p) ==
    /\ \A x \in Questions(p) \cup {p} : topicLock[x] = NoReq
    /\ UNCHANGED <<ended, tables, locks, tx, workload>>
    /\ T!FinishStaged(p)

\* voteEndAt passes: the questions of a survey have the deadline of their parent.
Expire(t) ==
    /\ status[t] = "OPEN"
    /\ t \notin ended
    /\ ~IsSurveyQuestion(t)
    /\ ended' = ended \cup {t} \cup (IF Kind[t] = "SURVEY" THEN Questions(t) ELSE {})
    /\ UNCHANGED <<status, tables, locks, tx, workload>>

-----------------------------------------------------------------------------
Statement(r) ==
    \/ LockAdvisory(r) \/ LockTopic(r) \/ ReadTopic(r) \/ ReadAnswer(r) \/ LockUser(r)
    \/ Write(r) \/ ReadSurvey(r) \/ ReadMarker(r) \/ WriteMarker(r) \/ WriteReward(r)
    \/ TouchTopic(r) \/ Commit(r)

Next ==
    \/ \E r \in Requests, u \in workload.users, w \in workload.ops :
          \E S \in Answers(w[1], w[2]) : Arrive(r, w[1], u, w[2], S)
    \/ \E r \in Requests : Statement(r) \/ Rollback(r)
    \/ \E t \in Concerned : \E C \in SUBSET Questions(t) : Publish(t, C)
    \/ \E t \in Concerned : OpenRound(t, {}) \/ \E x \in Concerned : OpenRound(t, {x})
    \/ \E t \in Concerned : FinishStaged(t) \/ Expire(t)

Spec == Init /\ [][Next]_vars

\* Every statement runs once it can; PostgreSQL queues lock waiters, so a lock that keeps
\* being released is obtained; exceptions roll back; deadlocks are detected.
Fairness ==
    \A r \in Requests : SF_vars(Statement(r)) /\ WF_vars(Refuse(r) \/ AbortVictim(r))

FairSpec == Spec /\ Fairness

-----------------------------------------------------------------------------
Transactions ==
    [pc : {"idle", "lockAdvisory", "lockTopic", "readTopic", "readAnswer", "lockUser", "write",
           "readSurvey", "readMarker", "writeMarker", "reward", "touchTopic", "commit"},
     op : VoteOps \cup {"comment", "none"}, u : Users \cup {NoReq},
     t : Topics \cup {NoTopic}, answer : SUBSET Options, open : BOOLEAN,
     old : SUBSET Options, before : Nat, wrote : BOOLEAN, marker : SUBSET Topics,
     reward : BOOLEAN]

\* Every commit is one step of Tally, whatever was interleaved with the transaction; no
\* other step changes what Tally sees.
ImplementsTally ==
    T!Init /\ [][<<status, tables>>' # <<status, tables>> => T!Next]_vars

\* The point transactions of a user form a chain: each starts at the balance the previous
\* one left, and the last one left the balance of the account.  No credit is lost when a
\* vote reward and a GIF reward meet.
LedgerIsChain ==
    \A u \in Users :
        /\ \A i \in DOMAIN ledger[u] :
              ledger[u][i].before = IF i = 1 THEN 0 ELSE ledger[u][i - 1].after
        /\ balance[u] = IF ledger[u] = <<>> THEN 0 ELSE Last(ledger[u]).after

\* The voting operations take their locks in one order (user, topic, user row, parent), so
\* no set of them can wait for each other; a cycle needs a comment, which takes a user row
\* before the topic row.
VotesNeverDeadlock ==
    \A C \in SUBSET {r \in Requests : tx[r].op # "comment"} : ~Deadlocked(C)

=============================================================================
