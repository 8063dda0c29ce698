---------------------------- MODULE StagedRounds ----------------------------
(***************************************************************************)
(* publishRound and finishStaged of TopicsService as they run: each reads  *)
(* the parent and its rounds, decides, and only then opens a transaction   *)
(* that writes what it decided, without reading the rows again.  Requests  *)
(* of the author (a double click, two tabs, a retry after a timeout) may   *)
(* overlap; a transaction holds the rows it has written until its end, and *)
(* its writes are seen by others after the commit.                         *)
(***************************************************************************)
EXTENDS Naturals, Sequences

CONSTANTS
    TotalRounds,   \* topics.total_rounds
    Requests,      \* the author's requests that may be in progress at once
    NoReq,
    NoFeedback     \* round_feedback IS NULL

ASSUME RequestsAssumption == NoReq \notin Requests /\ NoFeedback \notin Requests

VARIABLES
    parent,        \* status of the STAGED topic
    rounds,        \* its questions in the order of their ids
    parentLock,    \* who holds the row of the parent
    roundLock,     \* round -> who holds its row
    tx,            \* request -> the statements it has left and the result of its read
    overlapped     \* history: some request has read while another one was in progress

locks == <<parentLock, roundLock>>
vars  == <<parent, rounds, locks, tx, overlapped>>

\* round_feedback is told apart by the request that carried it.
NewRound(sort) == [status |-> "OPEN", sort |-> sort, feedback |-> NoFeedback]

Idle == [left |-> <<>>, count |-> 0, latest |-> 0, locked |-> {}]

\* createStaged has inserted the container and its first round.
Init ==
    /\ parent = "OPEN"
    /\ rounds = <<NewRound(0)>>
    /\ parentLock = NoReq
    /\ roundLock = <<NoReq>>
    /\ tx = [r \in Requests |-> Idle]
    /\ overlapped = FALSE

Ids == DOMAIN rounds

\* questions: { orderBy: [{ sortOrder: 'asc' }, { id: 'asc' }] }, the last one.
IsLatest(i) ==
    \A j \in Ids \ {i} :
        \/ rounds[j].sort < rounds[i].sort
        \/ rounds[j].sort = rounds[i].sort /\ j < i

Latest == CHOOSE i \in Ids : IsLatest(i)

IsIdle(r) == tx[r].left = <<>>

At(r, statement) == ~IsIdle(r) /\ Head(tx[r].left) = statement

Done(r) == [tx[r] EXCEPT !.left = Tail(@)]

Free(lock, r) == lock \in {NoReq, r}

RoundsLeftOrLast == Len(rounds) <= TotalRounds

RoundsLeft == Len(rounds) < TotalRounds

-----------------------------------------------------------------------------
\* The latest round is locked before the parent is touched, and only if it was seen open.
PublishStatements ==
    IF rounds[Latest].status = "OPEN" THEN <<"lockLatest", "touchParent", "insert">>
                                      ELSE <<"touchParent", "insert">>

SettleOnly == <<"settle">>

FinishStatements == <<"lockRounds", "settle">>

Seen(r, statements) ==
    /\ tx' = [tx EXCEPT ![r] = [left |-> statements, count |-> Len(rounds), latest |-> Latest,
                                locked |-> {}]]
    /\ overlapped' = (overlapped \/ \E other \in Requests : ~IsIdle(other))

\* publishRound reads the parent with its rounds and checks them, outside the transaction.
ReadForPublish(r) ==
    /\ IsIdle(r)
    /\ parent = "OPEN"
    /\ RoundsLeft
    /\ Seen(r, PublishStatements)
    /\ UNCHANGED <<parent, rounds, locks>>

\* UPDATE the latest round it has seen open: LOCKED, with the feedback.
LockLatest(r) ==
    LET i == tx[r].latest IN
    /\ At(r, "lockLatest")
    /\ Free(roundLock[i], r)
    /\ roundLock' = [roundLock EXCEPT ![i] = r]
    /\ tx' = [tx EXCEPT ![r] = [Done(r) EXCEPT !.locked = {i}]]
    /\ UNCHANGED <<parent, rounds, parentLock, overlapped>>

\* UPDATE the parent: voteEndAt.
TouchParent(r) ==
    /\ At(r, "touchParent")
    /\ Free(parentLock, r)
    /\ parentLock' = r
    /\ tx' = [tx EXCEPT ![r] = Done(r)]
    /\ UNCHANGED <<parent, rounds, roundLock, overlapped>>

Release(r, lock) == [i \in DOMAIN lock |-> IF lock[i] = r THEN NoReq ELSE lock[i]]

\* The rounds as r's transaction leaves them: locked, and the feedback on the latest.
Closed(r) ==
    [i \in Ids |->
        IF i \in tx[r].locked
        THEN [rounds[i] EXCEPT !.status = "LOCKED",
                               !.feedback = IF i = tx[r].latest THEN r ELSE @]
        ELSE rounds[i]]

\* INSERT the new round behind the rounds it has seen, and commit.
InsertAndCommit(r) ==
    /\ At(r, "insert")
    /\ rounds' = Append(Closed(r), NewRound(tx[r].count))
    /\ roundLock' = Append(Release(r, roundLock), NoReq)
    /\ parentLock' = NoReq
    /\ tx' = [tx EXCEPT ![r] = Idle]
    /\ UNCHANGED <<parent, overlapped>>

\* finishStaged reads the parent with its rounds and checks it, outside the transaction.
ReadForFinish(r) ==
    /\ IsIdle(r)
    /\ parent = "OPEN"
    /\ Seen(r, FinishStatements)
    /\ UNCHANGED <<parent, rounds, locks>>

\* updateMany of the rounds, those committed by now, and the feedback of the latest seen.
LockRounds(r) ==
    /\ At(r, "lockRounds")
    /\ \A i \in Ids : Free(roundLock[i], r)
    /\ roundLock' = [i \in Ids |-> r]
    /\ tx' = [tx EXCEPT ![r] = [Done(r) EXCEPT !.locked = Ids]]
    /\ UNCHANGED <<parent, rounds, parentLock, overlapped>>

\* UPDATE the parent: SETTLED, and commit.
SettleAndCommit(r) ==
    /\ At(r, "settle")
    /\ Free(parentLock, r)
    /\ parent' = "SETTLED"
    /\ rounds' = Closed(r)
    /\ roundLock' = Release(r, roundLock)
    /\ tx' = [tx EXCEPT ![r] = Idle]
    /\ UNCHANGED <<parentLock, overlapped>>

\* An error, a timeout of the transaction, a crash of the process.
Rollback(r) ==
    /\ ~IsIdle(r)
    /\ roundLock' = Release(r, roundLock)
    /\ parentLock' = IF parentLock = r THEN NoReq ELSE parentLock
    /\ tx' = [tx EXCEPT ![r] = Idle]
    /\ UNCHANGED <<parent, rounds, overlapped>>

Statement(r) ==
    LockLatest(r) \/ TouchParent(r) \/ InsertAndCommit(r) \/ LockRounds(r) \/ SettleAndCommit(r)

Next == \E r \in Requests :
            ReadForPublish(r) \/ ReadForFinish(r) \/ Statement(r) \/ Rollback(r)

Spec == Init /\ [][Next]_vars

\* A statement that can run runs; nothing else is needed for a request to end.
FairSpec == Spec /\ \A r \in Requests : SF_vars(Statement(r))

-----------------------------------------------------------------------------
Contract == INSTANCE StagedTopic
    WITH Feedbacks <- Requests,
         rounds <- [i \in Ids |-> [status |-> rounds[i].status, feedback |-> rounds[i].feedback]]

\* Until requests overlap, every commit is one step of the contract, whatever was rolled
\* back before it, and nothing else changes the rounds.
ImplementsContract ==
    Contract!Init /\ [][overlapped' \/ Contract!Next]_(Contract!vars)

\* Until requests overlap, voters find one open question while the topic is open, none once
\* it is settled, and the author's feedback on every question that is closed.  After any overlap
\* a feedback is still published with the lock of its round.
RoundsInOrder ==
    /\ ~overlapped => Contract!OpenRoundIsLast /\ Contract!LockedHasFeedback
    /\ \A i \in Ids : rounds[i].feedback # NoFeedback => rounds[i].status = "LOCKED"

=============================================================================
