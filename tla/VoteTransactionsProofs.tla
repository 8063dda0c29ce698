----------------------- MODULE VoteTransactionsProofs -----------------------
(***************************************************************************)
(* Proofs about VoteTransactions, for every set of requests, users, topics *)
(* and options and every workload.                                         *)
(*                                                                         *)
(* The inductive invariant says of each transaction what its path so far   *)
(* implies about its record (WellFormed), which locks it has (Held) and    *)
(* that what it read under them is still true (Faithful).  From it follow  *)
(* that votes never wait in a circle, that the ledger of a user is a chain *)
(* and that every commit is one atomic step of Tally.                      *)
(***************************************************************************)
EXTENDS VoteTransactions, FiniteSetTheorems, TLAPS

-----------------------------------------------------------------------------
(* What a transaction's record says, whatever else happens.                *)

Answering == {"vote", "draw", "revote"}

\* The operations that may complete a survey.
Completing == First \cup {"saveRank"}

\* The statements after the write, all but the last.
AfterWrite == {"readSurvey", "readMarker", "writeMarker", "reward"}

\* The locks a transaction has: the advisory lock, the row of its topic and the row of its user.
HasAdvisory(q) == q.op # "comment" /\ q.pc \notin {"idle", "lockAdvisory"}

HasTopic(q) ==
    IF q.op = "comment" THEN q.pc = "commit"
    ELSE q.pc \notin {"idle", "lockAdvisory", "lockTopic"}

HasAccount(q) ==
    IF q.op = "comment" THEN q.pc \in {"touchTopic", "commit"}
    ELSE q.op = "vote" /\ q.pc \in AfterWrite \cup {"write", "commit"}

\* The statement a transaction is at tells its operation and what it has done.
WellFormed(q) ==
    /\ q \in Transactions
    /\ IF q.pc = "idle" THEN q = Idle ELSE q.u \in Users /\ q.t \in Topics /\ q.op # "none"
    /\ q.op = "comment" => q.pc \in {"lockUser", "touchTopic", "commit"}
    /\ q.pc = "touchTopic" => q.op = "comment"
    /\ q.pc = "lockUser" => q.op \in {"vote", "comment"}
    /\ q.pc \in {"readSurvey", "readMarker", "writeMarker"} => IsChild(q.t) /\ q.op \in Completing
    /\ q.pc = "reward" => q.op = "vote" /\ Kind[q.t] = "FORMAL"
    /\ q.pc \in AfterWrite => q.wrote
    /\ q.wrote => q.pc \in AfterWrite \cup {"commit"}
    /\ q.op = "vote" /\ q.pc = "commit" => q.wrote
    /\ q.marker # {} => /\ q.pc = "commit" /\ q.wrote /\ q.op \in Completing
                        /\ IsChild(q.t) /\ q.marker = {Parent[q.t]}
    /\ q.reward => q.op = "vote" /\ q.pc = "commit"
    /\ q.op \notin Answering => q.answer = {}
    /\ q.op \notin {"revote", "withdraw"} => q.old = {}
    /\ q.wrote /\ q.op \in Answering => q.answer \in AnswerSets(q.t)
    /\ HasTopic(q) /\ q.pc # "readTopic" /\ q.op # "comment" => Suits(q.op, q.t)

-----------------------------------------------------------------------------
(* What a transaction has read.                                            *)

\* A transaction that goes on to write has seen the topic open and an answer to change.
Deciding(q) ==
    /\ q.op # "comment"
    /\ q.wrote \/ q.pc \in {"lockUser", "write"}

VotesWith(q) ==
    [x \in Topics |-> IF x = q.t /\ q.op \in First THEN votes[x] \cup {q.u} ELSE votes[x]]

RanksWith(q) ==
    [x \in Topics |-> IF x = q.t /\ q.op = "saveRank" THEN ranks[x] \cup {q.u} ELSE ranks[x]]

\* The topic is open as long as the transaction has its row.
TopicStillOpen(q) ==
    /\ q.op # "comment" /\ HasTopic(q) /\ q.pc # "readTopic"
    /\ q.op = "draw" => q.open
    => status[q.t] = "OPEN"

\* The answer the transaction found is still the user's answer.
AnswerStillThere(q) ==
    Deciding(q) =>
        /\ q.op \in First => q.u \notin votes[q.t]
        /\ q.op = "draw" => q.open
        /\ q.op \in {"revote", "withdraw"} => q.u \in votes[q.t] /\ q.old = Picked(q.u, q.t)
        /\ q.op = "revote" => q.old # q.answer
        /\ q.op = "saveRank" => q.u \notin ranks[q.t]
        /\ q.op = "withdrawRank" => q.u \in ranks[q.t]

\* The survey the answer completes, and whether it has a marker already, are as read.
MarkerStillRight(q) ==
    /\ q.pc \in {"readMarker", "writeMarker"} =>
          SurveyComplete(Parent[q.t], q.u, VotesWith(q), RanksWith(q))
    /\ q.pc = "writeMarker" => q.u \notin votes[Parent[q.t]]
    /\ q.pc = "commit" /\ q.wrote /\ q.op \in Completing =>
          q.marker = CompletedParents(q.t, q.u, VotesWith(q), RanksWith(q))

\* The balance and the rewards are as read under the lock of the user's row.
AccountStillRight(q) ==
    HasAccount(q) =>
        /\ q.before = balance[q.u]
        /\ q.op = "vote" /\ q.pc = "commit" =>
              q.reward = (RewardPoints > 0 /\ Kind[q.t] = "FORMAL" /\ q.t \notin Rewarded[q.u])

Faithful(q) ==
    TopicStillOpen(q) /\ AnswerStillThere(q) /\ MarkerStillRight(q) /\ AccountStillRight(q)

-----------------------------------------------------------------------------
\* Every lock is with the transaction whose path has taken it, and with no other.
Held ==
    /\ \A u \in Users, r \in Requests :
          advisory[u] = r <=> HasAdvisory(tx[r]) /\ tx[r].u = u
    /\ \A t \in Topics, r \in Requests :
          topicLock[t] = r <=> (HasTopic(tx[r]) /\ tx[r].t = t) \/ t \in tx[r].marker
    /\ \A u \in Users, r \in Requests :
          userLock[u] = r <=> HasAccount(tx[r]) /\ tx[r].u = u

PointTransactions == [key : Topics \cup {NoTopic}, before : Nat, after : Nat]

TablesTyped ==
    /\ status \in [Topics -> Statuses]
    /\ votes \in [Topics -> SUBSET Users]
    /\ picks \in [Options -> SUBSET Users]
    /\ ranks \in [Topics -> SUBSET Users]
    /\ totalVotes \in [Topics -> Int]
    /\ voterCount \in [Topics -> Int]
    /\ voteCount \in [Options -> Int]
    /\ ledger \in [Users -> Seq(PointTransactions)]
    /\ balance \in [Users -> Nat]

LocksTyped ==
    /\ advisory \in [Users -> Requests \cup {NoReq}]
    /\ topicLock \in [Topics -> Requests \cup {NoReq}]
    /\ userLock \in [Users -> Requests \cup {NoReq}]

\* No more GIF rewards than the bound are paid or on their way.
PayingBounded == \A u \in Users : Paying(u) <= MaxCredits

TransactionsAreSound ==
    /\ TablesTyped
    /\ LocksTyped
    /\ workload \in Workloads
    /\ tx \in [Requests -> Transactions]
    /\ \A r \in Requests : WellFormed(tx[r]) /\ Faithful(tx[r])
    /\ Held
    /\ PayingBounded
    /\ LedgerIsChain

-----------------------------------------------------------------------------
(* The order of the statements.                                            *)

\* The two locks that open a voting transaction lead to each other and to the first read.
LEMMA OpeningOrder ==
    /\ FirstStatement("comment") = "lockUser"
    /\ \A op \in VoteOps : FirstStatement(op) = "lockAdvisory"
    /\ After("lockAdvisory") = "lockTopic"
    /\ After("lockTopic") = "readTopic"
<1>1. Opening[1] = "lockAdvisory" /\ Opening[2] = "lockTopic" /\ Opening[3] = "readTopic"
  BY DEF Opening
<1>2. \A i \in 1..2 : (Opening[i] = "lockAdvisory" <=> i = 1) /\ (Opening[i] = "lockTopic" <=> i = 2)
  BY <1>1
<1>3. 1 \in 1..2 /\ 2 \in 1..2
  OBVIOUS
<1>4. (CHOOSE i \in 1..2 : Opening[i] = "lockAdvisory") = 1
  BY <1>2, <1>3, Zenon
<1>5. (CHOOSE i \in 1..2 : Opening[i] = "lockTopic") = 2
  BY <1>2, <1>3, Zenon
<1> QED
  BY <1>1, <1>4, <1>5 DEF FirstStatement, After, VoteOps, First

\* A statement of r that changes no table: what the other transactions have read is not
\* touched, so r's own record and the locks are all there is to look at.
LEMMA StatementKeeps ==
  ASSUME TransactionsAreSound, NEW r \in Requests, NEW n \in Transactions,
         tx' = [tx EXCEPT ![r] = n], UNCHANGED <<status, tables, workload>>,
         n.op = tx[r].op, n.u = tx[r].u,
         WellFormed(n), Faithful(n), LocksTyped', Held'
  PROVE  TransactionsAreSound'
<1>1. tx \in [Requests -> Transactions]
  BY DEF TransactionsAreSound
<1>2. tx' \in [Requests -> Transactions] /\ tx'[r] = n /\ \A x \in Requests \ {r} : tx'[x] = tx[x]
  BY <1>1
<1>3. ASSUME NEW x \in Requests PROVE WellFormed(tx[x])' /\ Faithful(tx[x])'
  <2>1. WellFormed(tx'[x]) /\ Faithful(tx'[x])
    BY <1>2 DEF TransactionsAreSound
  <2>2. UNCHANGED <<status, votes, picks, ranks, ledger, balance>>
    BY DEF tables
  <2>3. WellFormed(tx[x])'
    BY <2>1, Zenon DEF WellFormed, HasTopic
  <2>4. TopicStillOpen(tx[x])'
    BY <2>1, <2>2, Zenon DEF Faithful, TopicStillOpen, HasTopic
  <2>5. AnswerStillThere(tx[x])'
    BY <2>1, <2>2, Zenon DEF Faithful, AnswerStillThere, Deciding, Picked, T!Picked
  <2>6. MarkerStillRight(tx[x])'
    <3>1. VotesWith(tx[x])' = VotesWith(tx'[x]) /\ RanksWith(tx[x])' = RanksWith(tx'[x])
      BY <2>2, Zenon DEF VotesWith, RanksWith
    <3>2. MarkerStillRight(tx'[x])
      BY <2>1 DEF Faithful
    <3> QED
      BY <2>2, <3>1, <3>2, SMT DEF MarkerStillRight, CompletedParents, SurveyComplete
  <2>7. AccountStillRight(tx[x])'
    BY <2>1, <2>2, SMT DEF Faithful, AccountStillRight, Rewarded, HasAccount
  <2> QED
    BY <2>3, <2>4, <2>5, <2>6, <2>7 DEF Faithful
<1>4. PayingBounded'
  <2>1. \A u \in Users : {x \in Requests : tx'[x].op = "comment" /\ tx'[x].u = u}
                       = {x \in Requests : tx[x].op = "comment" /\ tx[x].u = u}
    BY <1>2
  <2> QED
    BY <2>1 DEF tables, PayingBounded, Paying, Credited, TransactionsAreSound
<1>5. LedgerIsChain' /\ TablesTyped'
  BY DEF tables, TransactionsAreSound, LedgerIsChain, TablesTyped
<1> QED
  BY <1>2, <1>3, <1>4, <1>5 DEF TransactionsAreSound

\* A statement that takes no lock: the transaction's record is all that moves.
LEMMA SameLocksHeld ==
  ASSUME TransactionsAreSound, NEW r \in Requests, NEW n \in Transactions,
         tx' = [tx EXCEPT ![r] = n], UNCHANGED locks,
         n.u = tx[r].u, n.t = tx[r].t, n.marker = tx[r].marker,
         HasAdvisory(n) <=> HasAdvisory(tx[r]), HasTopic(n) <=> HasTopic(tx[r]),
         HasAccount(n) <=> HasAccount(tx[r])
  PROVE  LocksTyped' /\ Held'
<1>1. \A x \in Requests : tx'[x] = IF x = r THEN n ELSE tx[x]
  BY DEF TransactionsAreSound
<1>2. LocksTyped'
  BY DEF TransactionsAreSound, LocksTyped, locks
<1>3. ASSUME NEW x \in Requests
      PROVE  /\ tx'[x].u = tx[x].u /\ tx'[x].t = tx[x].t /\ tx'[x].marker = tx[x].marker
             /\ HasAdvisory(tx[x])' <=> HasAdvisory(tx[x])
             /\ HasTopic(tx[x])' <=> HasTopic(tx[x])
             /\ HasAccount(tx[x])' <=> HasAccount(tx[x])
  BY <1>1 DEF HasAdvisory, HasTopic, HasAccount
<1>4. advisory' = advisory /\ topicLock' = topicLock /\ userLock' = userLock
  BY DEF locks
<1>5. Held
  BY DEF TransactionsAreSound
<1> QED
  BY <1>2, <1>3, <1>4, <1>5 DEF Held

\* r takes the advisory lock of its user, which is free.
LEMMA AdvisoryHeld ==
  ASSUME TransactionsAreSound, NEW r \in Requests, NEW n \in Transactions,
         tx' = [tx EXCEPT ![r] = n], UNCHANGED <<topicLock, userLock>>,
         tx[r].u \in Users, Free(advisory[tx[r].u], r),
         advisory' = [advisory EXCEPT ![tx[r].u] = r],
         n.u = tx[r].u, n.t = tx[r].t, n.marker = tx[r].marker,
         HasAdvisory(n), ~HasAdvisory(tx[r]), HasTopic(n) <=> HasTopic(tx[r]),
         HasAccount(n) <=> HasAccount(tx[r])
  PROVE  LocksTyped' /\ Held'
<1>1. \A x \in Requests : tx'[x] = IF x = r THEN n ELSE tx[x]
  BY DEF TransactionsAreSound
<1>2. LocksTyped'
  BY DEF TransactionsAreSound, LocksTyped
<1>3. ASSUME NEW x \in Requests
      PROVE  /\ tx'[x].u = tx[x].u /\ tx'[x].t = tx[x].t /\ tx'[x].marker = tx[x].marker
             /\ HasAdvisory(tx[x])' <=> HasAdvisory(tx[x]) \/ x = r
             /\ HasTopic(tx[x])' <=> HasTopic(tx[x])
             /\ HasAccount(tx[x])' <=> HasAccount(tx[x])
  BY <1>1 DEF HasAdvisory, HasTopic, HasAccount
<1>4. Held /\ LocksTyped
  BY DEF TransactionsAreSound
<1>5. \A u \in Users, x \in Requests :
         advisory'[u] = x <=> HasAdvisory(tx[x])' /\ tx'[x].u = u
  <2> SUFFICES ASSUME NEW u \in Users, NEW x \in Requests
               PROVE  advisory'[u] = x <=> HasAdvisory(tx[x])' /\ tx'[x].u = u
    OBVIOUS
  <2>1. advisory[u] = x <=> HasAdvisory(tx[x]) /\ tx[x].u = u
    BY <1>4 DEF Held
  <2>2. advisory'[u] = IF u = tx[r].u THEN r ELSE advisory[u]
    BY <1>4 DEF LocksTyped
  <2> QED
    BY <1>3, <2>1, <2>2, RequestAssumption DEF Free
<1> QED
  BY <1>2, <1>3, <1>4, <1>5 DEF Held

\* A statement of r that takes the row of t, which is free or r's own already.
TakesTopic(r, n, t) ==
    /\ tx' = [tx EXCEPT ![r] = n]
    /\ Free(topicLock[t], r)
    /\ topicLock' = [topicLock EXCEPT ![t] = r]
    /\ UNCHANGED <<advisory, userLock>>

\* r takes the row of a topic, which is free or r's own already: its own topic or, for a
\* marker, the parent.
LEMMA TopicHeld ==
  ASSUME TransactionsAreSound, NEW r \in Requests, NEW n \in Transactions, NEW t \in Topics,
         TakesTopic(r, n, t),
         n.u = tx[r].u, n.t = tx[r].t,
         \A x \in Topics : (HasTopic(n) /\ n.t = x) \/ x \in n.marker
                       <=> (HasTopic(tx[r]) /\ tx[r].t = x) \/ x \in tx[r].marker \/ x = t,
         HasAdvisory(n) <=> HasAdvisory(tx[r]), HasAccount(n) <=> HasAccount(tx[r])
  PROVE  LocksTyped' /\ Held'
<1>1. \A x \in Requests : tx'[x] = IF x = r THEN n ELSE tx[x]
  BY DEF TransactionsAreSound, TakesTopic
<1>2. LocksTyped'
  BY DEF TransactionsAreSound, LocksTyped, TakesTopic
<1>3. ASSUME NEW x \in Requests
      PROVE  /\ tx'[x].u = tx[x].u
             /\ HasAdvisory(tx[x])' <=> HasAdvisory(tx[x])
             /\ HasAccount(tx[x])' <=> HasAccount(tx[x])
  BY <1>1 DEF HasAdvisory, HasAccount
<1>4. Held /\ LocksTyped
  BY DEF TransactionsAreSound
<1>5. ASSUME NEW y \in Topics, NEW x \in Requests
      PROVE  topicLock'[y] = x <=> (HasTopic(tx[x])' /\ tx'[x].t = y) \/ y \in tx'[x].marker
  <2>1. topicLock[y] = x <=> (HasTopic(tx[x]) /\ tx[x].t = y) \/ y \in tx[x].marker
    BY <1>4 DEF Held
  <2>2. topicLock'[y] = IF y = t THEN r ELSE topicLock[y]
    BY <1>4 DEF LocksTyped, TakesTopic
  <2>3. CASE x = r
    <3>1. (HasTopic(tx[x])' /\ tx'[x].t = y) \/ y \in tx'[x].marker
            <=> (HasTopic(n) /\ n.t = y) \/ y \in n.marker
      BY <1>1, <2>3 DEF HasTopic
    <3> QED
      BY <2>1, <2>2, <2>3, <3>1
  <2>4. CASE x # r
    <3>1. (HasTopic(tx[x])' <=> HasTopic(tx[x])) /\ tx'[x] = tx[x]
      BY <1>1, <2>4 DEF HasTopic
    <3> QED
      BY <2>1, <2>2, <2>4, <3>1, RequestAssumption DEF Free, TakesTopic
  <2> QED
    BY <2>3, <2>4
<1> QED
  BY <1>2, <1>3, <1>4, <1>5 DEF Held, TakesTopic

\* r takes the row of its user, which is free.
LEMMA AccountHeld ==
  ASSUME TransactionsAreSound, NEW r \in Requests, NEW n \in Transactions,
         tx' = [tx EXCEPT ![r] = n], UNCHANGED <<advisory, topicLock>>,
         tx[r].u \in Users, Free(userLock[tx[r].u], r),
         userLock' = [userLock EXCEPT ![tx[r].u] = r],
         n.u = tx[r].u, n.t = tx[r].t, n.marker = tx[r].marker,
         HasAdvisory(n) <=> HasAdvisory(tx[r]), HasTopic(n) <=> HasTopic(tx[r]),
         HasAccount(n), ~HasAccount(tx[r])
  PROVE  LocksTyped' /\ Held'
<1>1. \A x \in Requests : tx'[x] = IF x = r THEN n ELSE tx[x]
  BY DEF TransactionsAreSound
<1>2. LocksTyped'
  BY DEF TransactionsAreSound, LocksTyped
<1>3. ASSUME NEW x \in Requests
      PROVE  /\ tx'[x].u = tx[x].u /\ tx'[x].t = tx[x].t /\ tx'[x].marker = tx[x].marker
             /\ HasAdvisory(tx[x])' <=> HasAdvisory(tx[x])
             /\ HasTopic(tx[x])' <=> HasTopic(tx[x])
             /\ HasAccount(tx[x])' <=> HasAccount(tx[x]) \/ x = r
  BY <1>1 DEF HasAdvisory, HasTopic, HasAccount
<1>4. Held /\ LocksTyped
  BY DEF TransactionsAreSound
<1>5. \A u \in Users, x \in Requests :
         userLock'[u] = x <=> HasAccount(tx[x])' /\ tx'[x].u = u
  <2> SUFFICES ASSUME NEW u \in Users, NEW x \in Requests
               PROVE  userLock'[u] = x <=> HasAccount(tx[x])' /\ tx'[x].u = u
    OBVIOUS
  <2>1. userLock[u] = x <=> HasAccount(tx[x]) /\ tx[x].u = u
    BY <1>4 DEF Held
  <2>2. userLock'[u] = IF u = tx[r].u THEN r ELSE userLock[u]
    BY <1>4 DEF LocksTyped
  <2> QED
    BY <1>3, <2>1, <2>2, RequestAssumption DEF Free
<1> QED
  BY <1>2, <1>3, <1>4, <1>5 DEF Held

-----------------------------------------------------------------------------
(* The statements: each keeps the invariant.                               *)

LEMMA RecordOf ==
  ASSUME TransactionsAreSound, NEW r \in Requests
  PROVE  tx[r] \in Transactions /\ WellFormed(tx[r]) /\ Faithful(tx[r])
BY DEF TransactionsAreSound

LEMMA LockAdvisorySound ==
  ASSUME TransactionsAreSound, NEW r \in Requests, LockAdvisory(r)
  PROVE  TransactionsAreSound'
<1> DEFINE n == [tx[r] EXCEPT !.pc = "lockTopic"]
<1>1. tx[r] \in Transactions /\ WellFormed(tx[r]) /\ Faithful(tx[r]) /\ tx[r].pc = "lockAdvisory"
  BY RecordOf DEF LockAdvisory, At
<1>2. n \in Transactions /\ tx' = [tx EXCEPT ![r] = n]
  BY <1>1, OpeningOrder DEF LockAdvisory, Goto, Transactions
<1>3. WellFormed(n)
  BY <1>1, <1>2 DEF WellFormed, HasTopic, AfterWrite, Transactions
<1>4. Faithful(n)
  BY <1>1 DEF WellFormed, Faithful, TopicStillOpen, AnswerStillThere, MarkerStillRight, AccountStillRight,
     HasTopic, HasAccount, Deciding, AfterWrite, Transactions
<1>5. LocksTyped' /\ Held'
  BY <1>1, <1>2, AdvisoryHeld DEF LockAdvisory, HasAdvisory, HasTopic, HasAccount, AfterWrite, WellFormed, Transactions
<1> QED
  BY <1>1, <1>2, <1>3, <1>4, <1>5, StatementKeeps DEF LockAdvisory, Transactions

LEMMA LockTopicSound ==
  ASSUME TransactionsAreSound, NEW r \in Requests, LockTopic(r)
  PROVE  TransactionsAreSound'
<1> DEFINE n == [tx[r] EXCEPT !.pc = "readTopic"]
<1>1. tx[r] \in Transactions /\ WellFormed(tx[r]) /\ Faithful(tx[r]) /\ tx[r].pc = "lockTopic"
  BY RecordOf DEF LockTopic, At
<1>2. n \in Transactions /\ tx' = [tx EXCEPT ![r] = n]
  BY <1>1, OpeningOrder DEF LockTopic, Goto, Transactions
<1>3. WellFormed(n)
  BY <1>1, <1>2 DEF WellFormed, HasTopic, AfterWrite, Transactions
<1>4. Faithful(n)
  BY <1>1 DEF WellFormed, Faithful, TopicStillOpen, AnswerStillThere, MarkerStillRight, AccountStillRight,
     HasTopic, HasAccount, Deciding, AfterWrite, Transactions
<1>5. LocksTyped' /\ Held'
  <2>1. /\ tx[r].t \in Topics /\ tx[r].marker = {}
        /\ n.u = tx[r].u /\ n.t = tx[r].t /\ n.marker = tx[r].marker
    BY <1>1 DEF WellFormed, Transactions
  <2>2. /\ HasAdvisory(n) <=> HasAdvisory(tx[r])
        /\ HasAccount(n) <=> HasAccount(tx[r])
        /\ HasTopic(n) /\ ~HasTopic(tx[r])
    BY <1>1 DEF WellFormed, HasAdvisory, HasTopic, HasAccount, AfterWrite, Transactions
  <2> HIDE DEF n
  <2> QED
    BY <1>2, <2>1, <2>2, TopicHeld DEF LockTopic, TakesTopic
<1> QED
  BY <1>1, <1>2, <1>3, <1>4, <1>5, StatementKeeps DEF LockTopic, Transactions

LEMMA ReadTopicSound ==
  ASSUME TransactionsAreSound, NEW r \in Requests, ReadTopic(r)
  PROVE  TransactionsAreSound'
<1> DEFINE n == [tx[r] EXCEPT !.pc = "readAnswer", !.open = OpenNow(tx[r].t)]
<1>1. tx[r] \in Transactions /\ WellFormed(tx[r]) /\ Faithful(tx[r]) /\ tx[r].pc = "readTopic"
  BY RecordOf DEF ReadTopic, At
<1>2. n \in Transactions /\ tx' = [tx EXCEPT ![r] = n]
  BY <1>1 DEF ReadTopic, Transactions, OpenNow
<1>3. WellFormed(n)
  BY <1>1, <1>2 DEF ReadTopic, WellFormed, HasTopic, AfterWrite, Transactions
<1>4. Faithful(n)
  BY <1>1 DEF ReadTopic, OpenNow, WellFormed, Faithful, TopicStillOpen, AnswerStillThere, MarkerStillRight,
     AccountStillRight, HasTopic, HasAccount, Deciding, AfterWrite, Transactions
<1>5. LocksTyped' /\ Held'
  <2>1. n.u = tx[r].u /\ n.t = tx[r].t /\ n.marker = tx[r].marker
    BY <1>1 DEF Transactions
  <2>2. /\ HasAdvisory(n) <=> HasAdvisory(tx[r])
        /\ HasAccount(n) <=> HasAccount(tx[r])
        /\ HasTopic(n) <=> HasTopic(tx[r])
    BY <1>1 DEF WellFormed, HasAdvisory, HasTopic, HasAccount, AfterWrite, Transactions
  <2> HIDE DEF n
  <2> QED
    BY <1>2, <2>1, <2>2, SameLocksHeld DEF ReadTopic
<1> QED
  BY <1>1, <1>2, <1>3, <1>4, <1>5, StatementKeeps DEF ReadTopic, Transactions

LEMMA LockUserSound ==
  ASSUME TransactionsAreSound, NEW r \in Requests, LockUser(r)
  PROVE  TransactionsAreSound'
<1> DEFINE n == [tx[r] EXCEPT !.pc = IF tx[r].op = "comment" THEN "touchTopic" ELSE "write",
                              !.before = balance[tx[r].u]]
<1>1. tx[r] \in Transactions /\ WellFormed(tx[r]) /\ Faithful(tx[r]) /\ tx[r].pc = "lockUser"
  BY RecordOf DEF LockUser, At
<1>2. tx[r].u \in Users /\ balance[tx[r].u] \in Nat
  BY <1>1 DEF WellFormed, TransactionsAreSound, TablesTyped
<1>3. n \in Transactions /\ tx' = [tx EXCEPT ![r] = n]
  BY <1>1, <1>2 DEF LockUser, Transactions
<1>4. WellFormed(n)
  BY <1>1, <1>3 DEF WellFormed, HasTopic, AfterWrite, Transactions
<1>5. Faithful(n)
  <2>1. TopicStillOpen(n)
    BY <1>1 DEF Faithful, TopicStillOpen, HasTopic, Transactions, WellFormed
  <2>2. AnswerStillThere(n)
    BY <1>1 DEF Faithful, AnswerStillThere, Deciding, Transactions, WellFormed
  <2>3. MarkerStillRight(n) /\ AccountStillRight(n)
    BY <1>1 DEF Faithful, MarkerStillRight, AccountStillRight, Transactions
  <2> QED
    BY <2>1, <2>2, <2>3 DEF Faithful
<1>6. LocksTyped' /\ Held'
  <2>1. n.u = tx[r].u /\ n.t = tx[r].t /\ n.marker = tx[r].marker
    BY <1>1 DEF Transactions
  <2>2. /\ HasAdvisory(n) <=> HasAdvisory(tx[r])
        /\ HasTopic(n) <=> HasTopic(tx[r])
        /\ HasAccount(n) /\ ~HasAccount(tx[r])
    BY <1>1 DEF WellFormed, HasAdvisory, HasTopic, HasAccount, AfterWrite, Transactions
  <2> HIDE DEF n
  <2> QED
    BY <1>2, <1>3, <2>1, <2>2, AccountHeld DEF LockUser
<1>7. n.op = tx[r].op /\ n.u = tx[r].u
  BY <1>1 DEF Transactions
<1> HIDE DEF n
<1> QED
  BY <1>3, <1>4, <1>5, <1>6, <1>7, StatementKeeps DEF LockUser

LEMMA TouchTopicSound ==
  ASSUME TransactionsAreSound, NEW r \in Requests, TouchTopic(r)
  PROVE  TransactionsAreSound'
<1> DEFINE n == [tx[r] EXCEPT !.pc = "commit", !.wrote = TRUE]
<1>1. tx[r] \in Transactions /\ WellFormed(tx[r]) /\ Faithful(tx[r]) /\ tx[r].pc = "touchTopic"
  BY RecordOf DEF TouchTopic, At
<1>2. n \in Transactions /\ tx' = [tx EXCEPT ![r] = n]
  BY <1>1 DEF TouchTopic, Transactions
<1>3. tx[r].op = "comment" /\ tx[r].t \in Topics
  BY <1>1 DEF WellFormed
<1>4. WellFormed(n)
  BY <1>1, <1>2, <1>3 DEF WellFormed, HasTopic, AfterWrite, Transactions, Completing, First, Answering
<1>5. Faithful(n)
  BY <1>1, <1>3 DEF Faithful, TopicStillOpen, AnswerStillThere, MarkerStillRight, AccountStillRight,
     HasAccount, Deciding, Transactions, Completing, First
<1>6. LocksTyped' /\ Held'
  <2>1. /\ tx[r].marker = {}
        /\ n.u = tx[r].u /\ n.t = tx[r].t /\ n.marker = tx[r].marker
    BY <1>1 DEF WellFormed, Transactions
  <2>2. /\ HasAdvisory(n) <=> HasAdvisory(tx[r])
        /\ HasAccount(n) <=> HasAccount(tx[r])
        /\ HasTopic(n) /\ ~HasTopic(tx[r])
    BY <1>1, <1>3 DEF HasAdvisory, HasTopic, HasAccount, Transactions
  <2> HIDE DEF n
  <2> QED
    BY <1>2, <1>3, <2>1, <2>2, TopicHeld DEF TouchTopic, TakesTopic
<1> QED
  BY <1>1, <1>2, <1>4, <1>5, <1>6, StatementKeeps DEF TouchTopic, Transactions

\* The existing answer is read: the transaction ends, or it knows what it will change.
LEMMA ReadAnswerSound ==
  ASSUME TransactionsAreSound, NEW r \in Requests, ReadAnswer(r)
  PROVE  TransactionsAreSound'
<1> DEFINE q == tx[r]
<1>1. q \in Transactions /\ WellFormed(q) /\ Faithful(q) /\ q.pc = "readAnswer"
  BY RecordOf DEF ReadAnswer, At
<1>2. /\ q.op \in VoteOps /\ q.u \in Users /\ q.t \in Topics
      /\ q.wrote = FALSE /\ q.marker = {} /\ q.reward = FALSE
      /\ q.op \notin {"revote", "withdraw"} => q.old = {}
  BY <1>1 DEF WellFormed, Transactions, AfterWrite
<1>3. PICK p \in {"lockUser", "commit", "write"}, o \in SUBSET Options :
        /\ tx' = [tx EXCEPT ![r] = [q EXCEPT !.pc = p, !.old = o]]
        /\ \/ q.op = "vote" /\ q.u \notin votes[q.t] /\ p = "lockUser" /\ o = {}
           \/ q.op = "draw" /\ p = "commit" /\ o = {}
           \/ q.op = "draw" /\ q.u \notin votes[q.t] /\ q.open /\ p = "write" /\ o = {}
           \/ /\ q.op = "revote" /\ q.u \in votes[q.t] /\ o = Picked(q.u, q.t)
              /\ p = "commit" \/ (p = "write" /\ o # q.answer)
           \/ q.op = "withdraw" /\ q.u \in votes[q.t] /\ p = "write" /\ o = Picked(q.u, q.t)
           \/ q.op = "saveRank" /\ q.u \notin ranks[q.t] /\ p = "write" /\ o = {}
           \/ q.op = "saveRank" /\ p = "commit" /\ o = {}
           \/ q.op = "withdrawRank" /\ q.u \in ranks[q.t] /\ p = "write" /\ o = {}
  <2> DEFINE m(p, o) == [q EXCEPT !.pc = p, !.old = o]
  <2>1. Picked(q.u, q.t) \in SUBSET Options
    BY DEF Picked, T!Picked, T!OptionsOf
  <2>2. \A p : [q EXCEPT !.pc = p] = m(p, q.old)
    BY <1>1 DEF Transactions
  <2>3. CASE q.op = "vote"
    BY <1>2, <2>2, <2>3 DEF ReadAnswer, Goto, HasVoted
  <2>4. CASE q.op = "draw"
    BY <1>2, <2>2, <2>4 DEF ReadAnswer, Goto, HasVoted
  <2>5. CASE q.op = "revote"
    <3>1. q.u \in votes[q.t] /\ Picked(q.u, q.t) = q.answer =>
            tx' = [tx EXCEPT ![r] = m("commit", Picked(q.u, q.t))]
      BY <2>5 DEF ReadAnswer, Goto, HasVoted
    <3>2. q.u \in votes[q.t] /\ Picked(q.u, q.t) # q.answer =>
            tx' = [tx EXCEPT ![r] = m("write", Picked(q.u, q.t))]
      BY <2>5 DEF ReadAnswer, Goto, HasVoted
    <3>3. q.u \in votes[q.t]
      BY <2>5 DEF ReadAnswer, HasVoted
    <3> QED
      BY <2>1, <2>5, <3>1, <3>2, <3>3
  <2>6. CASE q.op = "withdraw"
    BY <1>2, <2>1, <2>6 DEF ReadAnswer, Goto, HasVoted
  <2>7. CASE q.op = "saveRank"
    BY <1>2, <2>2, <2>7 DEF ReadAnswer, Goto, HasVoted
  <2>8. CASE q.op = "withdrawRank"
    BY <1>2, <2>2, <2>8 DEF ReadAnswer, Goto, HasVoted
  <2> QED
    BY <1>2, <2>3, <2>4, <2>5, <2>6, <2>7, <2>8 DEF VoteOps, First
<1> DEFINE n == [q EXCEPT !.pc = p, !.old = o]
<1>4. n \in Transactions /\ n.op = q.op /\ n.u = q.u /\ n.t = q.t /\ n.pc = p /\ n.old = o
      /\ n.marker = {} /\ n.wrote = FALSE /\ n.reward = FALSE /\ n.answer = q.answer /\ n.open = q.open
  BY <1>1, <1>2 DEF Transactions
<1>5. Suits(q.op, q.t) /\ ((q.op = "draw" /\ ~q.open) \/ status[q.t] = "OPEN")
  <2>1. q.op # "comment" /\ q.op # "none" /\ HasTopic(q)
    BY <1>1, <1>2 DEF VoteOps, First, HasTopic
  <2>2. Suits(q.op, q.t)
    BY <1>1, <2>1 DEF WellFormed
  <2>3. (q.op = "draw" /\ ~q.open) \/ status[q.t] = "OPEN"
    BY <1>1, <2>1 DEF Faithful, TopicStillOpen
  <2> QED
    BY <2>2, <2>3
<1>6. /\ HasAdvisory(n) /\ HasAdvisory(q) /\ HasTopic(n) /\ HasTopic(q)
      /\ ~HasAccount(q) /\ ~HasAccount(n)
  BY <1>1, <1>2, <1>3, <1>4 DEF HasAdvisory, HasTopic, HasAccount, AfterWrite, VoteOps, First
<1> HIDE DEF n
<1>7. WellFormed(n)
  BY <1>1, <1>2, <1>3, <1>4, <1>5, <1>6 DEF WellFormed, AfterWrite, VoteOps, First, Answering
<1>8. Faithful(n)
  <2>1. TopicStillOpen(n)
    BY <1>4, <1>5 DEF TopicStillOpen
  <2>2. AnswerStillThere(n)
    BY <1>3, <1>4 DEF AnswerStillThere, Deciding, First
  <2>3. MarkerStillRight(n) /\ AccountStillRight(n)
    BY <1>3, <1>4, <1>6 DEF MarkerStillRight, AccountStillRight
  <2> QED
    BY <2>1, <2>2, <2>3 DEF Faithful
<1>9. tx' = [tx EXCEPT ![r] = n]
  BY <1>3 DEF n
<1>10. LocksTyped' /\ Held'
  BY <1>2, <1>4, <1>6, <1>9, SameLocksHeld DEF ReadAnswer
<1> QED
  BY <1>4, <1>7, <1>8, <1>9, <1>10, StatementKeeps DEF ReadAnswer

\* A question's parent is a topic, another one, and no question itself.
LEMMA ParentDiffers ==
  ASSUME NEW t \in Topics, IsChild(t)
  PROVE  Parent[t] \in Topics /\ Parent[t] # t /\ ~IsChild(Parent[t]) /\ Kind[t] # "FORMAL"
BY TopologyAssumption, FamilyAssumption DEF IsChild, Kinds

\* No answer to a topic without a parent completes a survey.
LEMMA NothingToComplete ==
  ASSUME NEW t \in Topics, ~IsChild(t), NEW u, NEW V, NEW R
  PROVE  CompletedParents(t, u, V, R) = {}
BY FiniteAssumption DEF CompletedParents, IsChild

LEMMA WriteSound ==
  ASSUME TransactionsAreSound, NEW r \in Requests, Write(r)
  PROVE  TransactionsAreSound'
<1> DEFINE q == tx[r]
           p == IF q.op \in First \cup {"saveRank"} /\ IsChild(q.t) THEN "readSurvey"
                ELSE IF q.op = "vote" /\ Kind[q.t] = "FORMAL" THEN "reward" ELSE "commit"
           n == [q EXCEPT !.wrote = TRUE, !.pc = p]
<1>1. q \in Transactions /\ WellFormed(q) /\ Faithful(q) /\ q.pc = "write"
  BY RecordOf DEF Write, At
<1>2. /\ q.op \in VoteOps /\ q.u \in Users /\ q.t \in Topics
      /\ q.wrote = FALSE /\ q.marker = {} /\ q.reward = FALSE
  BY <1>1 DEF WellFormed, Transactions, AfterWrite
<1>3. /\ n \in Transactions /\ tx' = [tx EXCEPT ![r] = n]
      /\ n.op = q.op /\ n.u = q.u /\ n.t = q.t /\ n.pc = p /\ n.old = q.old /\ n.before = q.before
      /\ n.marker = {} /\ n.wrote = TRUE /\ n.reward = FALSE /\ n.answer = q.answer /\ n.open = q.open
  BY <1>1, <1>2 DEF Transactions, Write
<1>4. /\ p \in {"readSurvey", "reward", "commit"}
      /\ p = "readSurvey" => q.op \in Completing /\ IsChild(q.t)
      /\ p = "reward" => q.op = "vote" /\ Kind[q.t] = "FORMAL" /\ ~IsChild(q.t)
      /\ p = "commit" => (q.op \in Completing => ~IsChild(q.t))
      /\ p = "commit" => (q.op = "vote" => Kind[q.t] # "FORMAL")
  BY <1>2, ParentDiffers DEF Completing, First
<1> HIDE DEF p, n
<1>5. /\ HasAdvisory(n) /\ HasAdvisory(q) /\ HasTopic(n) /\ HasTopic(q)
      /\ HasAccount(q) <=> q.op = "vote"
      /\ HasAccount(n) <=> q.op = "vote"
  BY <1>1, <1>2, <1>3, <1>4 DEF HasAdvisory, HasTopic, HasAccount, AfterWrite, VoteOps, First
<1>6. WellFormed(n)
  BY <1>1, <1>2, <1>3, <1>4, <1>5 DEF Write, WellFormed, AfterWrite, VoteOps, First, Answering
<1>7. Faithful(n)
  <2>1. TopicStillOpen(n)
    BY <1>1, <1>3, <1>4, <1>5 DEF Faithful, TopicStillOpen
  <2>2. AnswerStillThere(n)
    BY <1>1, <1>2, <1>3 DEF Faithful, AnswerStillThere, Deciding, VoteOps, First
  <2>3. MarkerStillRight(n)
    BY <1>2, <1>3, <1>4, NothingToComplete DEF MarkerStillRight
  <2>4. AccountStillRight(n)
    BY <1>1, <1>3, <1>4, <1>5 DEF Faithful, AccountStillRight
  <2> QED
    BY <2>1, <2>2, <2>3, <2>4 DEF Faithful
<1>8. LocksTyped' /\ Held'
  <2>1. TakesTopic(r, n, q.t)
    BY <1>3 DEF Write, TakesTopic
  <2>2. \A x \in Topics : (HasTopic(n) /\ n.t = x) \/ x \in n.marker
                      <=> (HasTopic(q) /\ q.t = x) \/ x \in q.marker \/ x = q.t
    BY <1>2, <1>3, <1>5
  <2> HIDE DEF q
  <2> QED
    BY <1>2, <1>3, <1>5, <2>1, <2>2, TopicHeld DEF q
<1> QED
  BY <1>3, <1>6, <1>7, <1>8, StatementKeeps DEF Write

\* What r's own transaction sees is the committed answers with its own one.
LEMMA OwnAnswers ==
  ASSUME NEW r \in Requests, tx[r].wrote = TRUE, tx[r].marker = {}
  PROVE  OwnVotes(r) = VotesWith(tx[r]) /\ (TablesTyped => OwnRanks(r) = RanksWith(tx[r]))
BY DEF OwnVotes, OwnRanks, VotesWith, RanksWith, Inserted

LEMMA ReadSurveySound ==
  ASSUME TransactionsAreSound, NEW r \in Requests, ReadSurvey(r)
  PROVE  TransactionsAreSound'
<1> DEFINE q == tx[r]
           complete == SurveyComplete(Parent[q.t], q.u, VotesWith(q), RanksWith(q))
           p == IF complete THEN "readMarker" ELSE "commit"
           n == [q EXCEPT !.pc = p]
<1>1. q \in Transactions /\ WellFormed(q) /\ Faithful(q) /\ q.pc = "readSurvey"
  BY RecordOf DEF ReadSurvey, At
<1>2. /\ q.op \in Completing /\ q.op # "comment" /\ q.u \in Users /\ q.t \in Topics /\ IsChild(q.t)
      /\ q.wrote = TRUE /\ q.marker = {} /\ q.reward = FALSE
  BY <1>1 DEF WellFormed, Transactions, AfterWrite, Completing, First
<1>3. /\ n \in Transactions /\ tx' = [tx EXCEPT ![r] = n]
      /\ n.op = q.op /\ n.u = q.u /\ n.t = q.t /\ n.pc = p /\ n.old = q.old /\ n.before = q.before
      /\ n.marker = {} /\ n.wrote = TRUE /\ n.reward = FALSE /\ n.answer = q.answer /\ n.open = q.open
  <2>1. OwnVotes(r) = VotesWith(q) /\ OwnRanks(r) = RanksWith(q)
    BY <1>2, OwnAnswers DEF TransactionsAreSound
  <2> QED
    BY <1>1, <1>2, <2>1 DEF Transactions, ReadSurvey, Goto
<1>4. p \in {"readMarker", "commit"} /\ (p = "readMarker" <=> complete)
  OBVIOUS
<1> HIDE DEF p, n
<1>5. /\ HasAdvisory(n) /\ HasAdvisory(q) /\ HasTopic(n) /\ HasTopic(q)
      /\ HasAccount(q) <=> q.op = "vote"
      /\ HasAccount(n) <=> q.op = "vote"
  BY <1>1, <1>2, <1>3, <1>4 DEF HasAdvisory, HasTopic, HasAccount, AfterWrite
<1>6. WellFormed(n)
  BY <1>1, <1>2, <1>3, <1>4, <1>5 DEF WellFormed, AfterWrite
<1>7. Faithful(n)
  <2>1. TopicStillOpen(n)
    BY <1>1, <1>3, <1>4, <1>5 DEF Faithful, TopicStillOpen
  <2>2. AnswerStillThere(n)
    BY <1>1, <1>2, <1>3 DEF Faithful, AnswerStillThere, Deciding
  <2>3. MarkerStillRight(n)
    <3>1. VotesWith(n) = VotesWith(q) /\ RanksWith(n) = RanksWith(q)
      BY <1>3 DEF VotesWith, RanksWith
    <3>2. ~complete => CompletedParents(q.t, q.u, VotesWith(q), RanksWith(q)) = {}
      BY DEF CompletedParents
    <3> QED
      BY <1>3, <1>4, <3>1, <3>2 DEF MarkerStillRight
  <2>4. AccountStillRight(n)
    BY <1>1, <1>2, <1>3, <1>5, ParentDiffers DEF Faithful, AccountStillRight
  <2> QED
    BY <2>1, <2>2, <2>3, <2>4 DEF Faithful
<1>8. LocksTyped' /\ Held'
  BY <1>2, <1>3, <1>5, SameLocksHeld DEF ReadSurvey
<1> QED
  BY <1>3, <1>6, <1>7, <1>8, StatementKeeps DEF ReadSurvey
\* The marker is looked for: it is there, or it will be inserted.
LEMMA ReadMarkerSound ==
  ASSUME TransactionsAreSound, NEW r \in Requests, ReadMarker(r)
  PROVE  TransactionsAreSound'
<1> DEFINE q == tx[r]
           p == IF q.u \in votes[Parent[q.t]] THEN "commit" ELSE "writeMarker"
           n == [q EXCEPT !.pc = p]
<1>1. q \in Transactions /\ WellFormed(q) /\ Faithful(q) /\ q.pc = "readMarker"
  BY RecordOf DEF ReadMarker, At
<1>2. /\ q.op \in Completing /\ q.op # "comment" /\ q.u \in Users /\ q.t \in Topics /\ IsChild(q.t)
      /\ q.wrote = TRUE /\ q.marker = {} /\ q.reward = FALSE
  BY <1>1 DEF WellFormed, Transactions, AfterWrite, Completing, First
<1>3. /\ n \in Transactions /\ tx' = [tx EXCEPT ![r] = n]
      /\ n.op = q.op /\ n.u = q.u /\ n.t = q.t /\ n.pc = p /\ n.old = q.old /\ n.before = q.before
      /\ n.marker = {} /\ n.wrote = TRUE /\ n.reward = FALSE /\ n.answer = q.answer /\ n.open = q.open
  BY <1>1, <1>2 DEF Transactions, ReadMarker, Goto
<1>4. p \in {"writeMarker", "commit"} /\ (p = "commit" <=> q.u \in votes[Parent[q.t]])
  OBVIOUS
<1> HIDE DEF p, n
<1>5. /\ HasAdvisory(n) /\ HasAdvisory(q) /\ HasTopic(n) /\ HasTopic(q)
      /\ HasAccount(q) <=> q.op = "vote"
      /\ HasAccount(n) <=> q.op = "vote"
  BY <1>1, <1>2, <1>3, <1>4 DEF HasAdvisory, HasTopic, HasAccount, AfterWrite
<1>6. WellFormed(n)
  BY <1>1, <1>2, <1>3, <1>4, <1>5 DEF WellFormed, AfterWrite
<1>7. Faithful(n)
  <2>1. TopicStillOpen(n)
    BY <1>1, <1>3, <1>4, <1>5 DEF Faithful, TopicStillOpen
  <2>2. AnswerStillThere(n)
    BY <1>1, <1>2, <1>3 DEF Faithful, AnswerStillThere, Deciding
  <2>3. MarkerStillRight(n)
    <3>1. VotesWith(n) = VotesWith(q) /\ RanksWith(n) = RanksWith(q)
      BY <1>3 DEF VotesWith, RanksWith
    <3>2. SurveyComplete(Parent[q.t], q.u, VotesWith(q), RanksWith(q))
      BY <1>1 DEF Faithful, MarkerStillRight
    <3>3. p = "commit" => CompletedParents(q.t, q.u, VotesWith(q), RanksWith(q)) = {}
      BY <1>2, <1>4, ParentDiffers DEF CompletedParents, VotesWith
    <3> QED
      BY <1>3, <1>4, <3>1, <3>2, <3>3 DEF MarkerStillRight
  <2>4. AccountStillRight(n)
    BY <1>1, <1>2, <1>3, <1>5, ParentDiffers DEF Faithful, AccountStillRight
  <2> QED
    BY <2>1, <2>2, <2>3, <2>4 DEF Faithful
<1>8. LocksTyped' /\ Held'
  BY <1>2, <1>3, <1>5, SameLocksHeld DEF ReadMarker
<1> QED
  BY <1>3, <1>6, <1>7, <1>8, StatementKeeps DEF ReadMarker

LEMMA WriteMarkerSound ==
  ASSUME TransactionsAreSound, NEW r \in Requests, WriteMarker(r)
  PROVE  TransactionsAreSound'
<1> DEFINE q == tx[r]
           n == [q EXCEPT !.pc = "commit", !.marker = {Parent[q.t]}]
<1>1. q \in Transactions /\ WellFormed(q) /\ Faithful(q) /\ q.pc = "writeMarker"
  BY RecordOf DEF WriteMarker, At
<1>2. /\ q.op \in Completing /\ q.op # "comment" /\ q.u \in Users /\ q.t \in Topics /\ IsChild(q.t)
      /\ q.wrote = TRUE /\ q.marker = {} /\ q.reward = FALSE
  BY <1>1 DEF WellFormed, Transactions, AfterWrite, Completing, First
<1>3. Parent[q.t] \in Topics /\ Parent[q.t] # q.t /\ Kind[q.t] # "FORMAL"
  BY <1>2, ParentDiffers
<1>4. /\ n \in Transactions /\ tx' = [tx EXCEPT ![r] = n]
      /\ n.op = q.op /\ n.u = q.u /\ n.t = q.t /\ n.pc = "commit" /\ n.old = q.old /\ n.before = q.before
      /\ n.marker = {Parent[q.t]} /\ n.wrote = TRUE /\ n.reward = FALSE /\ n.answer = q.answer
      /\ n.open = q.open
  BY <1>1, <1>2, <1>3 DEF Transactions, WriteMarker
<1> HIDE DEF n
<1>5. /\ HasAdvisory(n) /\ HasAdvisory(q) /\ HasTopic(n) /\ HasTopic(q)
      /\ HasAccount(q) <=> q.op = "vote"
      /\ HasAccount(n) <=> q.op = "vote"
  BY <1>1, <1>2, <1>4 DEF HasAdvisory, HasTopic, HasAccount, AfterWrite
<1>6. WellFormed(n)
  BY <1>1, <1>2, <1>4, <1>5 DEF WellFormed, AfterWrite
<1>7. Faithful(n)
  <2>1. TopicStillOpen(n)
    BY <1>1, <1>4, <1>5 DEF Faithful, TopicStillOpen
  <2>2. AnswerStillThere(n)
    BY <1>1, <1>2, <1>4 DEF Faithful, AnswerStillThere, Deciding
  <2>3. MarkerStillRight(n)
    <3>1. VotesWith(n) = VotesWith(q) /\ RanksWith(n) = RanksWith(q)
      BY <1>4 DEF VotesWith, RanksWith
    <3>2. /\ SurveyComplete(Parent[q.t], q.u, VotesWith(q), RanksWith(q))
          /\ q.u \notin VotesWith(q)[Parent[q.t]]
      BY <1>1, <1>3 DEF Faithful, MarkerStillRight, VotesWith
    <3>3. CompletedParents(q.t, q.u, VotesWith(q), RanksWith(q)) = {Parent[q.t]}
      BY <1>3, <3>2 DEF CompletedParents
    <3> QED
      BY <1>4, <3>1, <3>3 DEF MarkerStillRight
  <2>4. AccountStillRight(n)
    BY <1>1, <1>3, <1>4, <1>5 DEF Faithful, AccountStillRight
  <2> QED
    BY <2>1, <2>2, <2>3, <2>4 DEF Faithful
<1>8. LocksTyped' /\ Held'
  <2>1. PICK p \in Topics : p = Parent[q.t]
    BY <1>3
  <2>2. TakesTopic(r, n, p)
    BY <1>4, <2>1 DEF WriteMarker, TakesTopic
  <2>3. \A x \in Topics : (HasTopic(n) /\ n.t = x) \/ x \in n.marker
                      <=> (HasTopic(q) /\ q.t = x) \/ x \in q.marker \/ x = p
    BY <1>2, <1>4, <1>5, <2>1
  <2> QED
    BY <1>4, <1>5, <2>2, <2>3, TopicHeld
<1> QED
  BY <1>4, <1>6, <1>7, <1>8, StatementKeeps DEF WriteMarker

LEMMA WriteRewardSound ==
  ASSUME TransactionsAreSound, NEW r \in Requests, WriteReward(r)
  PROVE  TransactionsAreSound'
<1> DEFINE q == tx[r]
           due == RewardPoints > 0 /\ q.t \notin Rewarded[q.u]
           n == [q EXCEPT !.pc = "commit", !.reward = due]
<1>1. q \in Transactions /\ WellFormed(q) /\ Faithful(q) /\ q.pc = "reward"
  BY RecordOf DEF WriteReward, At
<1>2. /\ q.op = "vote" /\ q.u \in Users /\ q.t \in Topics /\ Kind[q.t] = "FORMAL"
      /\ q.wrote = TRUE /\ q.marker = {}
  BY <1>1 DEF WellFormed, Transactions, AfterWrite
<1>3. /\ n \in Transactions /\ tx' = [tx EXCEPT ![r] = n]
      /\ n.op = q.op /\ n.u = q.u /\ n.t = q.t /\ n.pc = "commit" /\ n.old = q.old /\ n.before = q.before
      /\ n.marker = {} /\ n.wrote = TRUE /\ n.reward = due /\ n.answer = q.answer /\ n.open = q.open
  BY <1>1, <1>2 DEF Transactions, WriteReward
<1> HIDE DEF due, n
<1>4. HasAdvisory(n) /\ HasAdvisory(q) /\ HasTopic(n) /\ HasTopic(q) /\ HasAccount(q) /\ HasAccount(n)
  BY <1>1, <1>2, <1>3 DEF HasAdvisory, HasTopic, HasAccount, AfterWrite
<1>5. WellFormed(n)
  BY <1>1, <1>2, <1>3, <1>4 DEF WellFormed, AfterWrite
<1>6. Faithful(n)
  <2>1. TopicStillOpen(n)
    BY <1>1, <1>3, <1>4 DEF Faithful, TopicStillOpen
  <2>2. AnswerStillThere(n)
    BY <1>1, <1>2, <1>3 DEF Faithful, AnswerStillThere, Deciding
  <2>3. MarkerStillRight(n)
    <3>1. ~IsChild(q.t)
      BY <1>2, ParentDiffers
    <3> QED
      BY <1>2, <1>3, <3>1, NothingToComplete DEF MarkerStillRight
  <2>4. AccountStillRight(n)
    BY <1>1, <1>2, <1>3, <1>4 DEF Faithful, AccountStillRight, due
  <2> QED
    BY <2>1, <2>2, <2>3, <2>4 DEF Faithful
<1>7. LocksTyped' /\ Held'
  <2>1. UNCHANGED locks /\ n.marker = q.marker
    BY <1>2, <1>3 DEF WriteReward
  <2> QED
    BY <1>3, <1>4, <2>1, SameLocksHeld
<1> QED
  BY <1>3, <1>5, <1>6, <1>7, StatementKeeps DEF WriteReward
-----------------------------------------------------------------------------
(* What the end of another transaction, or a step of a topic, leaves.      *)

\* The step leaves u's own votes, rank results and selections as they are.
SameAnswers(u) ==
    /\ \A t \in Topics : (u \in votes'[t] <=> u \in votes[t]) /\ (u \in ranks'[t] <=> u \in ranks[t])
    /\ \A o \in Options : u \in picks'[o] <=> u \in picks[o]

\* The step leaves u's balance and rewards as they are.
SameAccount(u) == balance'[u] = balance[u] /\ Rewarded'[u] = Rewarded[u]

\* What x has read stays true in a step that respects x's locks.
LEMMA FaithfulKept ==
  ASSUME TransactionsAreSound, NEW x \in Requests, tx'[x] = tx[x], TablesTyped',
         HasTopic(tx[x]) /\ status[tx[x].t] = "OPEN" => status'[tx[x].t] = "OPEN",
         HasAdvisory(tx[x]) => SameAnswers(tx[x].u),
         HasAccount(tx[x]) => SameAccount(tx[x].u)
  PROVE  WellFormed(tx[x])' /\ Faithful(tx[x])'
<1> DEFINE q == tx[x]
<1>1. WellFormed(q) /\ Faithful(q) /\ q \in Transactions
  BY RecordOf
<1>2. WellFormed(tx[x])'
  BY <1>1, Zenon DEF WellFormed, HasTopic
<1>3. TopicStillOpen(tx[x])'
  BY <1>1 DEF Faithful, TopicStillOpen, HasTopic
<1>4. /\ Deciding(q) => HasAdvisory(q)
      /\ q.pc \in {"readMarker", "writeMarker"} => HasAdvisory(q)
      /\ q.pc = "commit" /\ q.wrote /\ q.op \in Completing => HasAdvisory(q)
      /\ HasAdvisory(q) => q.u \in Users /\ q.t \in Topics
      /\ q.pc \in {"readMarker", "writeMarker"} => IsChild(q.t)
  BY <1>1 DEF WellFormed, HasAdvisory, Deciding, AfterWrite, Completing, First
<1>5. AnswerStillThere(tx[x])'
  <2>1. AnswerStillThere(q)
    BY <1>1 DEF Faithful
  <2>2. CASE ~Deciding(q)
    BY <2>2 DEF AnswerStillThere, Deciding
  <2>3. CASE Deciding(q)
    <3>1. SameAnswers(q.u) /\ q.u \in Users /\ q.t \in Topics
      BY <1>4, <2>3
    <3>2. Picked(q.u, q.t)' = Picked(q.u, q.t)
      BY <3>1 DEF SameAnswers, Picked, T!Picked, T!OptionsOf
    <3> QED
      BY <2>1, <2>3, <3>1, <3>2 DEF AnswerStillThere, Deciding, SameAnswers
  <2> QED
    BY <2>2, <2>3
<1>6. MarkerStillRight(tx[x])'
  <2>1. MarkerStillRight(q)
    BY <1>1 DEF Faithful
  <2>2. CASE ~HasAdvisory(q)
    BY <1>4, <2>2 DEF MarkerStillRight
  <2>3. CASE HasAdvisory(q)
    <3>1. SameAnswers(q.u) /\ q.u \in Users /\ q.t \in Topics
      BY <1>4, <2>3
    <3>2. \A y \in Topics : /\ q.u \in VotesWith(tx[x])'[y] <=> q.u \in VotesWith(q)[y]
                            /\ q.u \in RanksWith(tx[x])'[y] <=> q.u \in RanksWith(q)[y]
      BY <3>1 DEF SameAnswers, VotesWith, RanksWith
    <3>3. \A p : SurveyComplete(p, q.u, VotesWith(tx[x])', RanksWith(tx[x])')
             <=> SurveyComplete(p, q.u, VotesWith(q), RanksWith(q))
      BY <3>2 DEF SurveyComplete, Questions
    <3>4. CompletedParents(q.t, q.u, VotesWith(tx[x])', RanksWith(tx[x])')
        = CompletedParents(q.t, q.u, VotesWith(q), RanksWith(q))
      BY <3>2, <3>3 DEF CompletedParents
    <3>5. q.pc = "writeMarker" =>
            (q.u \in votes'[Parent[q.t]] <=> q.u \in votes[Parent[q.t]])
      BY <1>4, <3>1, ParentDiffers DEF SameAnswers
    <3> QED
      BY <2>1, <3>3, <3>4, <3>5 DEF MarkerStillRight
  <2> QED
    BY <2>2, <2>3
<1>7. AccountStillRight(tx[x])'
  <2>1. AccountStillRight(q)
    BY <1>1 DEF Faithful
  <2>2. HasAccount(tx[x])' <=> HasAccount(q)
    BY DEF HasAccount
  <2> QED
    BY <2>1, <2>2 DEF AccountStillRight, SameAccount
<1> QED
  BY <1>2, <1>3, <1>5, <1>6, <1>7 DEF Faithful

\* The end of r's transaction: its locks are free, every other lock stays where it is.
LEMMA ReleaseHeld ==
  ASSUME TransactionsAreSound, NEW r \in Requests, Release(r), tx' = [tx EXCEPT ![r] = Idle]
  PROVE  /\ tx' \in [Requests -> Transactions]
         /\ LocksTyped' /\ Held'
         /\ WellFormed(tx[r])' /\ Faithful(tx[r])'
         /\ \A x \in Requests \ {r} : tx'[x] = tx[x]
<1>1. Idle \in Transactions
  BY DEF Idle, Transactions, VoteOps
<1>2. /\ tx' \in [Requests -> Transactions]
      /\ \A x \in Requests : tx'[x] = IF x = r THEN Idle ELSE tx[x]
  BY <1>1 DEF TransactionsAreSound
<1>3. Held /\ LocksTyped
  BY DEF TransactionsAreSound
<1>4. /\ \A u \in Users : advisory'[u] = IF advisory[u] = r THEN NoReq ELSE advisory[u]
      /\ \A t \in Topics : topicLock'[t] = IF topicLock[t] = r THEN NoReq ELSE topicLock[t]
      /\ \A u \in Users : userLock'[u] = IF userLock[u] = r THEN NoReq ELSE userLock[u]
      /\ LocksTyped'
  BY <1>3 DEF LocksTyped, Release, Released
<1>5. /\ ~HasAdvisory(Idle) /\ ~HasTopic(Idle) /\ ~HasAccount(Idle) /\ Idle.marker = {}
      /\ WellFormed(Idle)
  BY <1>1 DEF Idle, HasAdvisory, HasTopic, HasAccount, WellFormed, AfterWrite, Answering, Completing, First
<1>6. WellFormed(tx[r])'
  BY <1>2, <1>5, Zenon DEF WellFormed, HasTopic
<1>7. Faithful(tx[r])'
  BY <1>2 DEF Faithful, TopicStillOpen, AnswerStillThere, MarkerStillRight, AccountStillRight,
     Deciding, HasTopic, HasAccount, Idle
<1>8. Held'
  <2>1. ASSUME NEW x \in Requests
        PROVE  /\ HasAdvisory(tx[x])' <=> HasAdvisory(tx[x]) /\ x # r
               /\ HasTopic(tx[x])' <=> HasTopic(tx[x]) /\ x # r
               /\ HasAccount(tx[x])' <=> HasAccount(tx[x]) /\ x # r
               /\ tx'[x].marker = IF x = r THEN {} ELSE tx[x].marker
               /\ x # r => tx'[x] = tx[x]
    BY <1>2, <1>5 DEF HasAdvisory, HasTopic, HasAccount
  <2>2. ASSUME NEW u \in Users, NEW x \in Requests
        PROVE  advisory'[u] = x <=> HasAdvisory(tx[x])' /\ tx'[x].u = u
    BY <1>3, <1>4, <2>1, RequestAssumption DEF Held
  <2>3. ASSUME NEW t \in Topics, NEW x \in Requests
        PROVE  topicLock'[t] = x <=> (HasTopic(tx[x])' /\ tx'[x].t = t) \/ t \in tx'[x].marker
    BY <1>3, <1>4, <2>1, RequestAssumption DEF Held
  <2>4. ASSUME NEW u \in Users, NEW x \in Requests
        PROVE  userLock'[u] = x <=> HasAccount(tx[x])' /\ tx'[x].u = u
    BY <1>3, <1>4, <2>1, RequestAssumption DEF Held
  <2> QED
    BY <2>2, <2>3, <2>4 DEF Held
<1> QED
  BY <1>2, <1>4, <1>6, <1>7, <1>8
-----------------------------------------------------------------------------
(* The GIF rewards on their way.                                           *)

Payers(u) == {x \in Requests : tx[x].op = "comment" /\ tx[x].u = u}

LEMMA PayingCounts ==
  ASSUME TablesTyped, NEW u \in Users
  PROVE  /\ IsFiniteSet(Payers(u)) /\ Cardinality(Payers(u)) \in Nat
         /\ IsFiniteSet({i \in DOMAIN ledger[u] : ledger[u][i].key = NoTopic})
         /\ Credited[u] \in Nat
         /\ Paying(u) = Credited[u] + Cardinality(Payers(u))
<1>1. IsFiniteSet(Payers(u))
  BY FS_Subset, RequestAssumption DEF Payers
<1>2. ledger[u] \in Seq(PointTransactions)
  BY DEF TablesTyped
<1>3. IsFiniteSet(1..Len(ledger[u])) /\ DOMAIN ledger[u] = 1..Len(ledger[u])
  BY <1>2, FS_Interval
<1>4. IsFiniteSet({i \in DOMAIN ledger[u] : ledger[u][i].key = NoTopic})
  BY <1>3, FS_Subset
<1> QED
  BY <1>1, <1>4, FS_CardinalityType DEF Credited, Paying, Payers

\* Without r there is one payer less, if r is one.
LEMMA PayersLeft ==
  ASSUME TablesTyped, NEW r, NEW u \in Users
  PROVE  /\ Cardinality(Payers(u) \ {r}) \in Nat
         /\ Cardinality(Payers(u) \ {r}) = IF r \in Payers(u) THEN Cardinality(Payers(u)) - 1
                                           ELSE Cardinality(Payers(u))
<1>1. IsFiniteSet(Payers(u)) /\ Cardinality(Payers(u)) \in Nat
  BY PayingCounts
<1>2. IsFiniteSet(Payers(u) \ {r}) /\ Cardinality(Payers(u) \ {r}) \in Nat
  BY <1>1, FS_Subset, FS_CardinalityType
<1> QED
  BY <1>1, <1>2, FS_RemoveElement

LEMMA RollbackSound ==
  ASSUME TransactionsAreSound, NEW r \in Requests, Rollback(r)
  PROVE  TransactionsAreSound'
<1>1. tx' = [tx EXCEPT ![r] = Idle] /\ Release(r) /\ UNCHANGED <<status, ended, tables, workload>>
  BY DEF Rollback
<1>2. /\ tx' \in [Requests -> Transactions]
      /\ LocksTyped' /\ Held'
      /\ WellFormed(tx[r])' /\ Faithful(tx[r])'
      /\ \A x \in Requests \ {r} : tx'[x] = tx[x]
  BY <1>1, ReleaseHeld
<1>3. TablesTyped' /\ LedgerIsChain' /\ workload' \in Workloads
  BY <1>1 DEF TransactionsAreSound, TablesTyped, LedgerIsChain, tables
<1>4. ASSUME NEW x \in Requests \ {r} PROVE WellFormed(tx[x])' /\ Faithful(tx[x])'
  BY <1>1, <1>2, <1>3, FaithfulKept DEF tables, SameAnswers, SameAccount, Rewarded
<1>5. PayingBounded'
  <2> SUFFICES ASSUME NEW u \in Users PROVE Paying(u)' <= MaxCredits
    BY DEF PayingBounded
  <2>1. Credited'[u] = Credited[u] /\ Credited[u] \in Nat /\ Cardinality(Payers(u)) \in Nat
        /\ Paying(u) = Credited[u] + Cardinality(Payers(u))
    BY <1>1, PayingCounts DEF TransactionsAreSound, Credited, tables
  <2>2. Paying(u)' = Credited'[u] + Cardinality(Payers(u)')
    BY DEF Paying, Payers
  <2>3. Paying(u) <= MaxCredits
    BY DEF TransactionsAreSound, PayingBounded
  <2>4. Cardinality(Payers(u)') \in Nat /\ Cardinality(Payers(u)') <= Cardinality(Payers(u))
    <3>1. Payers(u)' = Payers(u) \ {r}
      BY <1>1 DEF TransactionsAreSound, Payers, Idle
    <3> QED
      BY <2>1, <3>1, PayersLeft DEF TransactionsAreSound
  <2> QED
    BY <2>1, <2>2, <2>3, <2>4, RequestAssumption
<1> QED
  BY <1>2, <1>3, <1>4, <1>5 DEF TransactionsAreSound

LEMMA ArriveSound ==
  ASSUME TransactionsAreSound, NEW r \in Requests, NEW u \in workload.users, NEW w \in workload.ops,
         NEW S \in Answers(w[1], w[2]), Arrive(r, w[1], u, w[2], S)
  PROVE  TransactionsAreSound'
<1> DEFINE n == [Idle EXCEPT !.pc = FirstStatement(w[1]), !.op = w[1], !.u = u, !.t = w[2], !.answer = S]
<1>1. w[1] \in VoteOps \cup {"comment"} /\ w[2] \in Topics /\ u \in Users
  BY WorkloadAssumption DEF TransactionsAreSound
<1>2. S \in SUBSET Options /\ (w[1] \notin Answering => S = {})
  BY DEF Answers, AnswerSets, OptionsOf, Answering
<1>3. /\ FirstStatement(w[1]) = IF w[1] = "comment" THEN "lockUser" ELSE "lockAdvisory"
      /\ w[1] # "none"
  BY <1>1, OpeningOrder DEF VoteOps, First
<1>4. /\ n \in Transactions /\ tx' = [tx EXCEPT ![r] = n]
      /\ n.op = w[1] /\ n.u = u /\ n.t = w[2] /\ n.answer = S /\ n.pc = FirstStatement(w[1])
      /\ n.marker = {} /\ n.old = {} /\ n.wrote = FALSE /\ n.reward = FALSE
  BY <1>1, <1>2, <1>3 DEF Arrive, Idle, Transactions
<1>5. tx[r].pc = "idle" /\ tx[r] = Idle
  BY RecordOf DEF Arrive, At, WellFormed
<1> HIDE DEF n
<1>6. /\ ~HasAdvisory(n) /\ ~HasTopic(n) /\ ~HasAccount(n)
      /\ ~HasAdvisory(tx[r]) /\ ~HasTopic(tx[r]) /\ ~HasAccount(tx[r]) /\ tx[r].marker = {}
      /\ tx[r].op = "none"
  BY <1>3, <1>4, <1>5 DEF HasAdvisory, HasTopic, HasAccount, AfterWrite, Idle
<1>7. /\ tx' \in [Requests -> Transactions]
      /\ \A x \in Requests : tx'[x] = IF x = r THEN n ELSE tx[x]
  BY <1>4 DEF TransactionsAreSound
<1>8. WellFormed(tx[r])'
  <2>1. WellFormed(n)
    BY <1>1, <1>2, <1>3, <1>4, <1>6 DEF WellFormed, AfterWrite
  <2> QED
    BY <1>7, <2>1, Zenon DEF WellFormed, HasTopic
<1>9. Faithful(tx[r])'
  <2>1. /\ ~HasTopic(tx[r])' /\ ~HasAccount(tx[r])' /\ tx'[r] = n
    BY <1>6, <1>7 DEF HasTopic, HasAccount
  <2>2. TopicStillOpen(tx[r])' /\ MarkerStillRight(tx[r])' /\ AccountStillRight(tx[r])'
    BY <1>3, <1>4, <2>1 DEF TopicStillOpen, MarkerStillRight, AccountStillRight
  <2>3. ~Deciding(tx[r])'
    BY <1>3, <1>4, <2>1 DEF Deciding
  <2> QED
    BY <2>2, <2>3 DEF Faithful, AnswerStillThere
<1>10. TablesTyped' /\ LedgerIsChain' /\ workload' \in Workloads /\ LocksTyped'
  BY DEF Arrive, TransactionsAreSound, TablesTyped, LedgerIsChain, tables, LocksTyped, locks
<1>11. ASSUME NEW x \in Requests \ {r} PROVE WellFormed(tx[x])' /\ Faithful(tx[x])'
  BY <1>7, <1>10, FaithfulKept DEF Arrive, tables, SameAnswers, SameAccount, Rewarded
<1>12. Held'
  <2>1. ASSUME NEW x \in Requests
        PROVE  /\ HasAdvisory(tx[x])' <=> HasAdvisory(tx[x])
               /\ HasTopic(tx[x])' <=> HasTopic(tx[x])
               /\ HasAccount(tx[x])' <=> HasAccount(tx[x])
               /\ tx'[x].marker = tx[x].marker
               /\ x # r => tx'[x] = tx[x]
    BY <1>4, <1>6, <1>7 DEF HasAdvisory, HasTopic, HasAccount
  <2>2. UNCHANGED <<advisory, topicLock, userLock>> /\ Held
    BY DEF Arrive, locks, TransactionsAreSound
  <2> QED
    BY <1>6, <2>1, <2>2 DEF Held
<1>13. PayingBounded'
  <2> SUFFICES ASSUME NEW v \in Users PROVE Paying(v)' <= MaxCredits
    BY DEF PayingBounded
  <2>1. /\ Credited'[v] = Credited[v] /\ Credited[v] \in Nat /\ IsFiniteSet(Payers(v))
        /\ Cardinality(Payers(v)) \in Nat
        /\ Paying(v) = Credited[v] + Cardinality(Payers(v))
    BY PayingCounts DEF TransactionsAreSound, Arrive, Credited, tables
  <2>2. Paying(v)' = Credited'[v] + Cardinality(Payers(v)')
    BY DEF Paying, Payers
  <2>3. Paying(v) <= MaxCredits
    BY DEF TransactionsAreSound, PayingBounded
  <2>4. CASE w[1] = "comment" /\ v = u
    <3>1. Payers(v)' = Payers(v) \cup {r} /\ r \notin Payers(v)
      BY <1>4, <1>6, <1>7, <2>4 DEF Payers
    <3>2. Paying(v) < MaxCredits
      BY <2>4 DEF Arrive
    <3>3. Cardinality(Payers(v)') = Cardinality(Payers(v)) + 1
      BY <2>1, <3>1, FS_AddElement
    <3>4. Paying(v)' = Paying(v) + 1
      BY <2>1, <2>2, <3>3
    <3> QED
      BY <2>1, <2>4, <3>2, <3>4, RequestAssumption
  <2>5. CASE ~(w[1] = "comment" /\ v = u)
    <3>1. Payers(v)' = Payers(v)
      BY <1>4, <1>6, <1>7, <2>5 DEF Payers
    <3> QED
      BY <2>1, <2>2, <2>3, <3>1
  <2> QED
    BY <2>4, <2>5
<1> QED
  BY <1>7, <1>8, <1>9, <1>10, <1>11, <1>12, <1>13 DEF TransactionsAreSound
\* A step of a topic that leaves open every topic some transaction has the row of.
LEMMA TopicStepSound ==
  ASSUME TransactionsAreSound, UNCHANGED <<tables, locks, tx, workload>>,
         status' \in [Topics -> Statuses],
         \A t \in Topics : status[t] = "OPEN" /\ topicLock[t] # NoReq => status'[t] = "OPEN"
  PROVE  TransactionsAreSound'
<1>1. TablesTyped' /\ LedgerIsChain' /\ workload' \in Workloads /\ LocksTyped' /\ PayingBounded' /\ Held'
  <2>1. TablesTyped' /\ LedgerIsChain' /\ workload' \in Workloads
    BY DEF TransactionsAreSound, TablesTyped, LedgerIsChain, tables
  <2>2. LocksTyped' /\ Held'
    BY DEF TransactionsAreSound, LocksTyped, locks, Held, HasAdvisory, HasTopic, HasAccount
  <2>3. PayingBounded'
    BY DEF TransactionsAreSound, PayingBounded, Paying, Credited, tables
  <2> QED
    BY <2>1, <2>2, <2>3
<1>2. ASSUME NEW x \in Requests PROVE WellFormed(tx[x])' /\ Faithful(tx[x])'
  <2>1. HasTopic(tx[x]) => tx[x].t \in Topics /\ topicLock[tx[x].t] = x
    <3>1. HasTopic(tx[x]) => tx[x].t \in Topics
      BY RecordOf DEF WellFormed, HasTopic
    <3> QED
      BY <3>1 DEF TransactionsAreSound, Held
  <2>2. HasTopic(tx[x]) /\ status[tx[x].t] = "OPEN" => status'[tx[x].t] = "OPEN"
    BY <2>1, RequestAssumption
  <2> QED
    BY <1>1, <2>2, FaithfulKept DEF tables, SameAnswers, SameAccount, Rewarded
<1> QED
  BY <1>1, <1>2 DEF TransactionsAreSound

LEMMA LifecycleSound ==
  ASSUME TransactionsAreSound,
         \/ \E t \in Topics : \E C \in SUBSET Questions(t) : Publish(t, C)
         \/ \E t \in Topics, X \in SUBSET Topics : OpenRound(t, X)
         \/ \E t \in Topics : FinishStaged(t) \/ Expire(t)
  PROVE  TransactionsAreSound'
<1>1. status \in [Topics -> Statuses]
  BY DEF TransactionsAreSound, TablesTyped
<1>2. ASSUME NEW t \in Topics, NEW C \in SUBSET Questions(t), Publish(t, C)
      PROVE  TransactionsAreSound'
  BY <1>1, <1>2, TopicStepSound DEF Publish, T!Publish, Statuses
<1>3. ASSUME NEW t \in Topics, NEW X \in SUBSET Topics, OpenRound(t, X)
      PROVE  TransactionsAreSound'
  BY <1>1, <1>3, TopicStepSound DEF OpenRound, T!OpenRound, Statuses
<1>4. ASSUME NEW t \in Topics, FinishStaged(t)
      PROVE  TransactionsAreSound'
  BY <1>1, <1>4, TopicStepSound DEF FinishStaged, T!FinishStaged, Statuses, Questions, T!Questions
<1>5. ASSUME NEW t \in Topics, Expire(t)
      PROVE  TransactionsAreSound'
  BY <1>1, <1>5, TopicStepSound DEF Expire
<1> QED
  BY <1>2, <1>3, <1>4, <1>5
-----------------------------------------------------------------------------
(* The commit.                                                             *)

\* What a commit does to the votes, the rank results, the selections and their counters.
LEMMA CommitEffects ==
  ASSUME TransactionsAreSound, NEW r \in Requests, Commit(r),
         NEW q, q = tx[r]
  PROVE  /\ votes' = [x \in Topics |->
                IF x \in Inserted(r) THEN votes[x] \cup {q.u}
                ELSE IF q.wrote /\ q.op = "withdraw" /\ x = q.t THEN votes[x] \ {q.u} ELSE votes[x]]
         /\ ranks' = [x \in Topics |->
                IF q.wrote /\ q.op = "saveRank" /\ x = q.t THEN ranks[x] \cup {q.u}
                ELSE IF q.wrote /\ q.op = "withdrawRank" /\ x = q.t THEN ranks[x] \ {q.u} ELSE ranks[x]]
         /\ picks' = [o \in Options |->
                IF q.wrote /\ o \in q.answer \ q.old THEN picks[o] \cup {q.u}
                ELSE IF q.wrote /\ o \in q.old \ q.answer THEN picks[o] \ {q.u} ELSE picks[o]]
         /\ totalVotes' = [x \in Topics |->
                IF x \in Inserted(r) THEN totalVotes[x] + 1
                ELSE IF q.wrote /\ q.op = "withdraw" /\ x = q.t THEN totalVotes[x] - 1
                ELSE totalVotes[x]]
         /\ voterCount' = [x \in Topics |->
                IF x \in Inserted(r) \/ (q.wrote /\ q.op = "saveRank" /\ x = q.t) THEN voterCount[x] + 1
                ELSE IF q.wrote /\ q.op \in {"withdraw", "withdrawRank"} /\ x = q.t
                THEN voterCount[x] - 1 ELSE voterCount[x]]
         /\ voteCount' = [o \in Options |->
                IF q.wrote /\ o \in q.answer \ q.old THEN voteCount[o] + 1
                ELSE IF q.wrote /\ o \in q.old \ q.answer THEN voteCount[o] - 1 ELSE voteCount[o]]
<1>1. /\ DOMAIN votes = Topics /\ DOMAIN ranks = Topics /\ DOMAIN picks = Options
      /\ DOMAIN totalVotes = Topics /\ DOMAIN voterCount = Topics /\ DOMAIN voteCount = Options
  BY DEF TransactionsAreSound, TablesTyped
<1>2. votes' = [x \in Topics |->
                IF x \in Inserted(r) THEN votes[x] \cup {q.u}
                ELSE IF q.wrote /\ q.op = "withdraw" /\ x = q.t THEN votes[x] \ {q.u} ELSE votes[x]]
  BY <1>1 DEF Commit
<1>3. ranks' = [x \in Topics |->
                IF q.wrote /\ q.op = "saveRank" /\ x = q.t THEN ranks[x] \cup {q.u}
                ELSE IF q.wrote /\ q.op = "withdrawRank" /\ x = q.t THEN ranks[x] \ {q.u} ELSE ranks[x]]
  BY <1>1 DEF Commit
<1>4. picks' = [o \in Options |->
                IF q.wrote /\ o \in q.answer \ q.old THEN picks[o] \cup {q.u}
                ELSE IF q.wrote /\ o \in q.old \ q.answer THEN picks[o] \ {q.u} ELSE picks[o]]
  BY <1>1 DEF Commit
<1>5. totalVotes' = [x \in Topics |->
                IF x \in Inserted(r) THEN totalVotes[x] + 1
                ELSE IF q.wrote /\ q.op = "withdraw" /\ x = q.t THEN totalVotes[x] - 1
                ELSE totalVotes[x]]
  BY <1>1 DEF Commit
<1>6. voterCount' = [x \in Topics |->
                IF x \in Inserted(r) \/ (q.wrote /\ q.op = "saveRank" /\ x = q.t) THEN voterCount[x] + 1
                ELSE IF q.wrote /\ q.op \in {"withdraw", "withdrawRank"} /\ x = q.t
                THEN voterCount[x] - 1 ELSE voterCount[x]]
  BY <1>1 DEF Commit
<1>7. voteCount' = [o \in Options |->
                IF q.wrote /\ o \in q.answer \ q.old THEN voteCount[o] + 1
                ELSE IF q.wrote /\ o \in q.old \ q.answer THEN voteCount[o] - 1 ELSE voteCount[o]]
  BY <1>1 DEF Commit
<1> QED
  BY <1>2, <1>3, <1>4, <1>5, <1>6, <1>7

\* What a transaction that is about to commit has found out.
LEMMA CommitReady ==
  ASSUME TransactionsAreSound, NEW r \in Requests, Commit(r), NEW q, q = tx[r]
  PROVE  /\ q \in Transactions /\ WellFormed(q) /\ Faithful(q) /\ q.pc = "commit"
         /\ q.u \in Users /\ q.t \in Topics /\ q.op \in VoteOps \cup {"comment"}
         /\ Inserted(r) \subseteq Topics
         /\ q.op = "comment" => q.answer = {} /\ q.old = {} /\ Inserted(r) = {}
BY RecordOf DEF Commit, At, WellFormed, Transactions, Inserted, Answering, Completing, First

LEMMA CommitRows ==
  ASSUME TransactionsAreSound, NEW r \in Requests, Commit(r)
  PROVE  /\ votes' \in [Topics -> SUBSET Users]
         /\ picks' \in [Options -> SUBSET Users]
         /\ ranks' \in [Topics -> SUBSET Users]
         /\ totalVotes' \in [Topics -> Int]
         /\ voterCount' \in [Topics -> Int]
         /\ voteCount' \in [Options -> Int]
         /\ \A v \in Users : v # tx[r].u \/ tx[r].op = "comment" => SameAnswers(v)
<1> DEFINE q == tx[r]
<1>1. /\ q.u \in Users
      /\ q.op = "comment" => q.answer = {} /\ q.old = {} /\ Inserted(r) = {}
  BY CommitReady
<1>2. /\ votes \in [Topics -> SUBSET Users]
      /\ picks \in [Options -> SUBSET Users]
      /\ ranks \in [Topics -> SUBSET Users]
      /\ totalVotes \in [Topics -> Int]
      /\ voterCount \in [Topics -> Int]
      /\ voteCount \in [Options -> Int]
  BY DEF TransactionsAreSound, TablesTyped
<1>3. /\ votes' \in [Topics -> SUBSET Users] /\ picks' \in [Options -> SUBSET Users]
      /\ ranks' \in [Topics -> SUBSET Users]
  BY <1>1, <1>2, CommitEffects
<1>4. /\ totalVotes' \in [Topics -> Int] /\ voterCount' \in [Topics -> Int]
      /\ voteCount' \in [Options -> Int]
  BY <1>1, <1>2, CommitEffects
<1>5. ASSUME NEW v \in Users, v # q.u \/ q.op = "comment"
      PROVE  SameAnswers(v)
  BY <1>1, <1>2, <1>5, CommitEffects DEF SameAnswers
<1> QED
  BY <1>3, <1>4, <1>5

\* A commit appends at most one point transaction to its user's ledger, starting at the
\* balance of the account, and only a transaction with the user's row appends one.
LEMMA CommitLedger ==
  ASSUME TransactionsAreSound, NEW r \in Requests, Commit(r), NEW q, q = tx[r]
  PROVE  /\ \A v \in Users \ {q.u} : ledger'[v] = ledger[v] /\ balance'[v] = balance[v]
         /\ IF q.reward \/ q.op = "comment"
            THEN /\ HasAccount(q)
                 /\ LET n == IF q.reward THEN RewardPoints ELSE 1
                        k == IF q.reward THEN q.t ELSE NoTopic
                        e == [key |-> k, before |-> balance[q.u], after |-> balance[q.u] + n]
                    IN  /\ e \in PointTransactions
                        /\ ledger'[q.u] = Append(ledger[q.u], e)
                        /\ balance'[q.u] = e.after
            ELSE ledger'[q.u] = ledger[q.u] /\ balance'[q.u] = balance[q.u]
         /\ ledger' \in [Users -> Seq(PointTransactions)]
         /\ balance' \in [Users -> Nat]
<1>1. /\ q \in Transactions /\ WellFormed(q) /\ Faithful(q) /\ q.pc = "commit"
      /\ q.u \in Users /\ q.t \in Topics
  BY CommitReady
<1>2. /\ ledger \in [Users -> Seq(PointTransactions)] /\ balance \in [Users -> Nat]
      /\ ledger[q.u] \in Seq(PointTransactions) /\ balance[q.u] \in Nat
  BY <1>1 DEF TransactionsAreSound, TablesTyped
<1>3. /\ ledger' = [ledger EXCEPT ![q.u] = @ \o Entries(r)]
      /\ balance' = [balance EXCEPT ![q.u] = IF Entries(r) = <<>> THEN @ ELSE Entries(r)[1].after]
  BY DEF Commit
<1>4. CASE q.reward \/ q.op = "comment"
  <2> DEFINE n == IF q.reward THEN RewardPoints ELSE 1
             k == IF q.reward THEN q.t ELSE NoTopic
             e == [key |-> k, before |-> balance[q.u], after |-> balance[q.u] + n]
  <2>1. HasAccount(q) /\ q.before = balance[q.u]
    BY <1>1, <1>4 DEF WellFormed, HasAccount, Faithful, AccountStillRight
  <2>2. e \in PointTransactions /\ e.after = balance[q.u] + n /\ e.after \in Nat
    BY <1>1, <1>2, TopologyAssumption DEF PointTransactions
  <2>3. Entries(r) = <<e>>
    BY <1>1, <1>4, <2>1 DEF Entries
  <2> HIDE DEF e
  <2>4. ledger'[q.u] = Append(ledger[q.u], e) /\ balance'[q.u] = e.after
    <3>1. ledger[q.u] \o <<e>> = Append(ledger[q.u], e)
      BY <1>2, <2>2
    <3> QED
      BY <1>1, <1>2, <1>3, <2>3, <3>1
  <2>5. ledger' \in [Users -> Seq(PointTransactions)] /\ balance' \in [Users -> Nat]
    BY <1>1, <1>2, <1>3, <2>2, <2>3
  <2> QED
    BY <1>2, <1>3, <1>4, <2>1, <2>2, <2>4, <2>5 DEF e
<1>5. CASE ~(q.reward \/ q.op = "comment")
  <2>1. Entries(r) = <<>>
    BY <1>5 DEF Entries
  <2>2. ledger[q.u] \o <<>> = ledger[q.u]
    BY <1>2
  <2> QED
    BY <1>1, <1>2, <1>3, <1>5, <2>1, <2>2
<1> QED
  BY <1>4, <1>5
\* The chain goes on.
LEMMA CommitChain ==
  ASSUME TransactionsAreSound, NEW r \in Requests, Commit(r)
  PROVE  LedgerIsChain'
<1> DEFINE q == tx[r]
<1> SUFFICES ASSUME NEW u \in Users
             PROVE  /\ \A i \in DOMAIN ledger'[u] :
                          ledger'[u][i].before = IF i = 1 THEN 0 ELSE ledger'[u][i - 1].after
                    /\ balance'[u] = IF ledger'[u] = <<>> THEN 0 ELSE Last(ledger'[u]).after
  BY DEF LedgerIsChain, Last
<1>1. /\ \A i \in DOMAIN ledger[u] :
            ledger[u][i].before = IF i = 1 THEN 0 ELSE ledger[u][i - 1].after
      /\ balance[u] = IF ledger[u] = <<>> THEN 0 ELSE ledger[u][Len(ledger[u])].after
      /\ ledger[u] \in Seq(PointTransactions)
  BY DEF TransactionsAreSound, LedgerIsChain, TablesTyped, Last
<1>2. CASE ledger'[u] = ledger[u] /\ balance'[u] = balance[u]
  BY <1>1, <1>2 DEF Last
<1>3. CASE u = q.u /\ (q.reward \/ q.op = "comment")
  <2>1. PICK e \in PointTransactions :
            /\ e.before = balance[u]
            /\ ledger'[u] = Append(ledger[u], e)
            /\ balance'[u] = e.after
    BY <1>3, CommitLedger
  <2> DEFINE n == Len(ledger[u])
  <2>2. /\ n \in Nat /\ DOMAIN ledger[u] = 1..n /\ DOMAIN ledger'[u] = 1..(n + 1)
        /\ ledger'[u] # <<>> /\ Len(ledger'[u]) = n + 1
        /\ ledger'[u][n + 1] = e
        /\ \A i \in 1..n : ledger'[u][i] = ledger[u][i]
        /\ ledger[u] = <<>> <=> n = 0
    <3>1. n \in Nat /\ DOMAIN ledger[u] = 1..n /\ (ledger[u] = <<>> <=> n = 0)
      BY <1>1
    <3>2. /\ Len(ledger'[u]) = n + 1 /\ DOMAIN ledger'[u] = 1..(n + 1)
          /\ ledger'[u][n + 1] = e
      BY <1>1, <2>1
    <3>3. \A i \in 1..n : ledger'[u][i] = ledger[u][i]
      BY <1>1, <2>1
    <3>4. ledger'[u] # <<>>
      BY <3>1, <3>2
    <3> QED
      BY <3>1, <3>2, <3>3, <3>4
  <2> HIDE DEF n
  <2>3. ASSUME NEW i \in 1..(n + 1)
        PROVE  ledger'[u][i].before = IF i = 1 THEN 0 ELSE ledger'[u][i - 1].after
    <3>1. CASE i \in 1..n
      <4>1. ledger[u][i].before = IF i = 1 THEN 0 ELSE ledger[u][i - 1].after
        BY <1>1, <2>2, <3>1
      <4>2. i # 1 => i - 1 \in 1..n
        BY <2>2, <3>1
      <4> QED
        BY <2>2, <3>1, <4>1, <4>2
    <3>2. CASE i = n + 1
      <4>1. e.before = IF n = 0 THEN 0 ELSE ledger[u][n].after
        BY <1>1, <2>1, <2>2 DEF n
      <4>2. n # 0 => n \in 1..n
        BY <2>2
      <4>3. ledger'[u][i].before = e.before /\ (i = 1 <=> n = 0) /\ i - 1 = n
        BY <2>2, <3>2
      <4> QED
        BY <2>2, <4>1, <4>2, <4>3
    <3> QED
      BY <2>2, <3>1, <3>2
  <2> QED
    BY <2>1, <2>2, <2>3 DEF Last
<1>4. CASE u = q.u /\ ~(q.reward \/ q.op = "comment")
  BY <1>2, <1>4, CommitLedger
<1>5. CASE u # q.u
  <2>1. \A v \in Users \ {q.u} : ledger'[v] = ledger[v] /\ balance'[v] = balance[v]
    BY CommitLedger
  <2> QED
    BY <1>2, <1>5, <2>1
<1> QED
  BY <1>3, <1>4, <1>5

\* A reward is one more rewarded topic, a GIF reward one more credit; nothing else is paid.
LEMMA CommitPoints ==
  ASSUME TransactionsAreSound, NEW r \in Requests, Commit(r), NEW q, q = tx[r], NEW v \in Users
  PROVE  /\ Rewarded'[v] = IF v = q.u /\ q.reward THEN Rewarded[v] \cup {q.t} ELSE Rewarded[v]
         /\ Credited'[v] = IF v = q.u /\ q.op = "comment" THEN Credited[v] + 1 ELSE Credited[v]
         /\ q.reward => q.op # "comment"
<1>1. ledger[v] \in Seq(PointTransactions) /\ q.t \in Topics /\ (q.reward => q.op # "comment")
  BY CommitReady DEF TransactionsAreSound, TablesTyped, WellFormed
<1>2. CASE ledger'[v] = ledger[v] /\ ~(v = q.u /\ (q.reward \/ q.op = "comment"))
  BY <1>1, <1>2 DEF Rewarded, Credited
<1>3. CASE v = q.u /\ (q.reward \/ q.op = "comment")
  <2> DEFINE k == IF q.reward THEN q.t ELSE NoTopic
             n == Len(ledger[v])
  <2>1. PICK e \in PointTransactions : e.key = k /\ ledger'[v] = Append(ledger[v], e)
    BY <1>3, CommitLedger
  <2>2. /\ n \in Nat /\ DOMAIN ledger[v] = 1..n /\ DOMAIN ledger'[v] = 1..(n + 1)
        /\ ledger'[v][n + 1] = e
        /\ \A i \in 1..n : ledger'[v][i] = ledger[v][i]
    BY <1>1, <2>1
  <2> HIDE DEF n, k
  <2>3. Rewarded'[v] = {t \in Topics : t \in Rewarded[v] \/ t = k}
    BY <2>1, <2>2 DEF Rewarded
  <2> DEFINE Credits == {i \in DOMAIN ledger[v] : ledger[v][i].key = NoTopic}
  <2>4. {i \in DOMAIN ledger'[v] : ledger'[v][i].key = NoTopic}
        = IF k = NoTopic THEN Credits \cup {n + 1} ELSE Credits
    BY <2>1, <2>2
  <2>5. n + 1 \notin Credits
    BY <2>2
  <2>6. Credited'[v] = IF k = NoTopic THEN Credited[v] + 1 ELSE Credited[v]
    <3>1. IsFiniteSet(Credits)
      BY PayingCounts DEF TransactionsAreSound
    <3>2. Credited[v] = Cardinality(Credits)
          /\ Credited'[v] = Cardinality({i \in DOMAIN ledger'[v] : ledger'[v][i].key = NoTopic})
      BY DEF Credited
    <3> HIDE DEF Credits
    <3>3. Cardinality(Credits \cup {n + 1}) = Cardinality(Credits) + 1
      BY <2>5, <3>1, FS_AddElement
    <3> QED
      BY <2>4, <3>2, <3>3
  <2>7. k = NoTopic <=> q.op = "comment"
    BY <1>1, <1>3, FiniteAssumption DEF k
  <2>8. Rewarded'[v] = IF q.reward THEN Rewarded[v] \cup {q.t} ELSE Rewarded[v]
    BY <1>1, <2>3, FiniteAssumption DEF k, Rewarded
  <2> QED
    BY <1>1, <1>3, <2>6, <2>7, <2>8
<1> QED
  BY <1>1, <1>2, <1>3, CommitLedger

LEMMA CommitSound ==
  ASSUME TransactionsAreSound, NEW r \in Requests, Commit(r)
  PROVE  TransactionsAreSound'
<1> DEFINE q == tx[r]
<1>1. /\ tx' = [tx EXCEPT ![r] = Idle] /\ Release(r) /\ UNCHANGED <<status, ended, workload>>
      /\ q.pc = "commit" /\ WellFormed(q) /\ q.u \in Users
  BY CommitReady DEF Commit
<1>2. /\ tx' \in [Requests -> Transactions]
      /\ LocksTyped' /\ Held'
      /\ WellFormed(tx[r])' /\ Faithful(tx[r])'
      /\ \A x \in Requests \ {r} : tx'[x] = tx[x]
  BY <1>1, ReleaseHeld
<1>3. TablesTyped' /\ workload' \in Workloads
  <2>1. /\ ledger' \in [Users -> Seq(PointTransactions)]
        /\ balance' \in [Users -> Nat]
    BY CommitLedger
  <2> QED
    BY <1>1, <2>1, CommitRows DEF TransactionsAreSound, TablesTyped
<1>4. LedgerIsChain'
  BY CommitChain
<1>5. ASSUME NEW x \in Requests \ {r} PROVE WellFormed(tx[x])' /\ Faithful(tx[x])'
  <2>1. HasAdvisory(tx[x]) => SameAnswers(tx[x].u)
    <3>1. SUFFICES ASSUME HasAdvisory(tx[x]), tx[x].u = q.u, q.op # "comment" PROVE FALSE
      <4>1. HasAdvisory(tx[x]) => tx[x].u \in Users
        BY RecordOf DEF WellFormed, HasAdvisory
      <4> QED
        BY <4>1, CommitRows
    <3>2. HasAdvisory(q)
      BY <1>1, <3>1 DEF HasAdvisory
    <3> QED
      BY <1>1, <3>1, <3>2 DEF TransactionsAreSound, Held
  <2>2. HasAccount(tx[x]) => SameAccount(tx[x].u)
    <3> SUFFICES ASSUME HasAccount(tx[x]) PROVE SameAccount(tx[x].u)
      OBVIOUS
    <3>1. tx[x].u \in Users
      BY RecordOf DEF WellFormed, HasAccount, AfterWrite
    <3>2. CASE tx[x].u = q.u /\ (q.reward \/ q.op = "comment")
      <4>1. HasAccount(q)
        BY <3>2, CommitLedger
      <4> QED
        BY <3>1, <3>2, <4>1 DEF TransactionsAreSound, Held
    <3>3. CASE ~(tx[x].u = q.u /\ (q.reward \/ q.op = "comment"))
      <4>1. balance'[tx[x].u] = balance[tx[x].u]
        <5>1. \A v \in Users \ {q.u} : balance'[v] = balance[v]
          BY CommitLedger
        <5>2. ~(q.reward \/ q.op = "comment") => balance'[q.u] = balance[q.u]
          BY CommitLedger
        <5> QED
          BY <3>1, <3>3, <5>1, <5>2
      <4>2. Rewarded'[tx[x].u] = Rewarded[tx[x].u]
        <5>1. \A v \in Users : Rewarded'[v] = IF v = q.u /\ q.reward THEN Rewarded[v] \cup {q.t}
                                               ELSE Rewarded[v]
          BY CommitPoints
        <5> QED
          BY <3>1, <3>3, <5>1
      <4> QED
        BY <4>1, <4>2 DEF SameAccount
    <3> QED
      BY <3>2, <3>3
  <2> QED
    BY <1>1, <1>2, <1>3, <2>1, <2>2, FaithfulKept
<1>6. PayingBounded'
  <2> SUFFICES ASSUME NEW v \in Users PROVE Paying(v)' <= MaxCredits
    BY DEF PayingBounded
  <2>1. /\ Credited[v] \in Nat /\ Cardinality(Payers(v)) \in Nat
        /\ Paying(v) = Credited[v] + Cardinality(Payers(v))
        /\ Paying(v) <= MaxCredits
    BY PayingCounts DEF TransactionsAreSound, PayingBounded
  <2>2. Paying(v)' = Credited'[v] + Cardinality(Payers(v)') /\ Payers(v)' = Payers(v) \ {r}
    BY <1>1 DEF Paying, Payers, Idle, TransactionsAreSound
  <2>3. /\ Cardinality(Payers(v) \ {r}) \in Nat
        /\ Cardinality(Payers(v) \ {r}) = IF v = q.u /\ q.op = "comment"
                                          THEN Cardinality(Payers(v)) - 1 ELSE Cardinality(Payers(v))
    BY PayersLeft DEF TransactionsAreSound, Payers
  <2>4. Credited'[v] = IF v = q.u /\ q.op = "comment" THEN Credited[v] + 1 ELSE Credited[v]
    BY CommitPoints
  <2>5. Paying(v)' = Paying(v)
    BY <2>1, <2>2, <2>3, <2>4
  <2> QED
    BY <2>1, <2>5
<1> QED
  BY <1>2, <1>3, <1>4, <1>5, <1>6 DEF TransactionsAreSound
-----------------------------------------------------------------------------
(* The invariant holds in every reachable state.                           *)

LEMMA InitSound == Init => TransactionsAreSound
<1> SUFFICES ASSUME Init PROVE TransactionsAreSound
  OBVIOUS
<1> USE DEF Init
<1>1. TablesTyped
  <2>1. status \in [Topics -> Statuses]
    BY DEF Statuses
  <2>2. /\ votes \in [Topics -> SUBSET Users] /\ picks \in [Options -> SUBSET Users]
        /\ ranks \in [Topics -> SUBSET Users]
    OBVIOUS
  <2>3. /\ totalVotes \in [Topics -> Int] /\ voterCount \in [Topics -> Int]
        /\ voteCount \in [Options -> Int] /\ balance \in [Users -> Nat]
    OBVIOUS
  <2>4. ledger \in [Users -> Seq(PointTransactions)]
    OBVIOUS
  <2> QED
    BY <2>1, <2>2, <2>3, <2>4 DEF TablesTyped
<1>2. LocksTyped
  BY DEF LocksTyped
<1>3. /\ Idle \in Transactions
      /\ ~HasAdvisory(Idle) /\ ~HasTopic(Idle) /\ ~HasAccount(Idle) /\ Idle.marker = {}
      /\ Idle.op = "none"
  BY DEF Idle, Transactions, VoteOps, HasAdvisory, HasTopic, HasAccount, AfterWrite
<1>4. WellFormed(Idle) /\ Faithful(Idle)
  <2>1. WellFormed(Idle)
    BY <1>3 DEF Idle, WellFormed, AfterWrite, Answering, Completing, First
  <2>2. Faithful(Idle)
    BY <1>3 DEF Idle, Faithful, TopicStillOpen, AnswerStillThere, MarkerStillRight,
       AccountStillRight, Deciding
  <2> QED
    BY <2>1, <2>2
<1>5. \A r \in Requests : tx[r] = Idle
  OBVIOUS
<1>6. tx \in [Requests -> Transactions]
  BY <1>3
<1>7. Held
  BY <1>3, <1>5, RequestAssumption DEF Held
<1>8. PayingBounded
  <2> SUFFICES ASSUME NEW u \in Users PROVE Paying(u) <= MaxCredits
    BY DEF PayingBounded
  <2>1. Payers(u) = {}
    BY <1>3, <1>5 DEF Payers
  <2>2. {i \in DOMAIN ledger[u] : ledger[u][i].key = NoTopic} = {}
    OBVIOUS
  <2>3. Cardinality({}) = 0
    BY FS_EmptySet
  <2>4. Credited[u] = 0
    BY <2>2, <2>3 DEF Credited
  <2>5. Paying(u) = Credited[u] + Cardinality(Payers(u))
    BY <1>1, PayingCounts
  <2> QED
    BY <2>1, <2>3, <2>4, <2>5, RequestAssumption
<1>9. LedgerIsChain
  BY DEF LedgerIsChain
<1> QED
  BY <1>1, <1>2, <1>4, <1>5, <1>6, <1>7, <1>8, <1>9 DEF TransactionsAreSound

\* The topics of a workload are topics.
LEMMA ConcernedTopics ==
  ASSUME workload \in Workloads
  PROVE  Concerned \subseteq Topics /\ \A w \in workload.ops : w[2] \in Topics
<1>1. \A w \in workload.ops : w[2] \in Topics
  BY WorkloadAssumption
<1> QED
  BY <1>1 DEF Concerned, Questions

LEMMA NextSound == TransactionsAreSound /\ [Next]_vars => TransactionsAreSound'
<1> SUFFICES ASSUME TransactionsAreSound, [Next]_vars PROVE TransactionsAreSound'
  OBVIOUS
<1>1. CASE \E r \in Requests, u \in workload.users, w \in workload.ops :
              \E S \in Answers(w[1], w[2]) : Arrive(r, w[1], u, w[2], S)
  BY <1>1, ArriveSound
<1>2. ASSUME NEW r \in Requests, Statement(r) PROVE TransactionsAreSound'
  BY <1>2, LockAdvisorySound, LockTopicSound, ReadTopicSound, ReadAnswerSound, LockUserSound,
     WriteSound, ReadSurveySound, ReadMarkerSound, WriteMarkerSound, WriteRewardSound,
     TouchTopicSound, CommitSound DEF Statement
<1>3. ASSUME NEW r \in Requests, Rollback(r) PROVE TransactionsAreSound'
  BY <1>3, RollbackSound
<1>4. Concerned \subseteq Topics
  BY ConcernedTopics DEF TransactionsAreSound
<1>5. CASE \E t \in Concerned : \E C \in SUBSET Questions(t) : Publish(t, C)
  BY <1>4, <1>5, LifecycleSound
<1>6. CASE \E t \in Concerned : OpenRound(t, {}) \/ \E x \in Concerned : OpenRound(t, {x})
  <2>1. \E t \in Topics, X \in SUBSET Topics : OpenRound(t, X)
    <3>1. PICK t \in Concerned : OpenRound(t, {}) \/ \E x \in Concerned : OpenRound(t, {x})
      BY <1>6
    <3>2. {} \in SUBSET Topics /\ \A x \in Concerned : {x} \in SUBSET Topics
      BY <1>4
    <3> QED
      BY <1>4, <3>1, <3>2
  <2> QED
    BY <2>1, LifecycleSound
<1>7. CASE \E t \in Concerned : FinishStaged(t) \/ Expire(t)
  BY <1>4, <1>7, LifecycleSound
<1>8. CASE UNCHANGED vars
  <2>1. status' = status /\ UNCHANGED <<tables, locks, tx, workload>>
    BY <1>8 DEF vars
  <2> QED
    BY <2>1, TopicStepSound DEF TransactionsAreSound, TablesTyped
<1> QED
  BY <1>1, <1>2, <1>3, <1>5, <1>6, <1>7, <1>8 DEF Next

\* What each request has read stays true under its locks until it commits, in every
\* behaviour of the transactions.
THEOREM ReadsStayTrue == Spec => []TransactionsAreSound
<1>1. Init => TransactionsAreSound
  BY InitSound
<1>2. TransactionsAreSound /\ [Next]_vars => TransactionsAreSound'
  BY NextSound
<1> QED
  BY <1>1, <1>2, PTL DEF Spec

\* No credit is lost: the point transactions of a user form a chain that ends at the
\* balance, whatever rewards of votes and of GIFs meet.
THEOREM NoCreditIsLost == Spec => []LedgerIsChain
<1>1. TransactionsAreSound => LedgerIsChain
  BY DEF TransactionsAreSound
<1> QED
  BY <1>1, ReadsStayTrue, PTL
-----------------------------------------------------------------------------
(* Votes do not wait in a circle.                                          *)

\* Among voting transactions that wait, the one that is furthest on its path waits for
\* nobody: locks are taken in one order, and only a question leads to its parent.
LEMMA NobodyWaitsInACircle ==
  ASSUME TransactionsAreSound,
         NEW C \in SUBSET {r \in Requests : tx[r].op # "comment"}, Deadlocked(C)
  PROVE  FALSE
<1>1. \A r \in C : r \in Requests /\ tx[r] \in Transactions /\ WellFormed(tx[r]) /\ tx[r].op # "comment"
  BY RecordOf
<1>2. \A r \in C : \E y \in C : y # r /\ y \in Holders(r)
  BY DEF Deadlocked, WaitsFor
<1>3. \A r \in C : tx[r].pc \in {"lockAdvisory", "lockTopic", "lockUser", "write", "writeMarker"}
  <2> SUFFICES ASSUME NEW r \in C,
                      tx[r].pc \notin {"lockAdvisory", "lockTopic", "lockUser", "write", "writeMarker"}
               PROVE  FALSE
    OBVIOUS
  <2>1. tx[r].pc # "touchTopic"
    BY <1>1 DEF WellFormed
  <2>2. Holders(r) = {}
    BY <2>1 DEF Holders
  <2> QED
    BY <1>2, <2>2
<1>4. \A r \in C : tx[r].u \in Users /\ tx[r].t \in Topics
  BY <1>1, <1>3 DEF WellFormed
<1>5. ASSUME NEW r \in C, tx[r].pc \in {"lockUser", "write"} PROVE FALSE
  <2>1. HasAdvisory(tx[r]) /\ HasTopic(tx[r]) /\ topicLock[tx[r].t] = r
    BY <1>1, <1>4, <1>5 DEF HasAdvisory, HasTopic, TransactionsAreSound, Held
  <2>2. PICK y \in C : y # r /\ y \in Holders(r)
    BY <1>2
  <2>3. y = userLock[tx[r].u]
    BY <1>5, <2>1, <2>2 DEF Holders
  <2>4. HasAccount(tx[y]) /\ tx[y].u = tx[r].u
    BY <1>1, <1>4, <2>3 DEF TransactionsAreSound, Held
  <2>5. HasAdvisory(tx[y])
    BY <1>1, <2>4 DEF HasAccount, HasAdvisory, AfterWrite
  <2> QED
    BY <1>1, <1>4, <2>1, <2>2, <2>4, <2>5 DEF TransactionsAreSound, Held
<1>6. ASSUME NEW y \in C, NEW t \in Topics, topicLock[t] = y
      PROVE  tx[y].pc = "writeMarker" /\ tx[y].t = t
  <2>1. (HasTopic(tx[y]) /\ tx[y].t = t) \/ t \in tx[y].marker
    BY <1>1, <1>6 DEF TransactionsAreSound, Held
  <2>2. t \notin tx[y].marker
    BY <1>1, <1>3 DEF WellFormed
  <2> QED
    BY <1>1, <1>3, <1>5, <2>1, <2>2 DEF HasTopic
<1>7. ASSUME NEW r \in C, tx[r].pc = "writeMarker" PROVE FALSE
  <2>1. IsChild(tx[r].t) /\ Parent[tx[r].t] \in Topics
    BY <1>1, <1>4, <1>7, ParentDiffers DEF WellFormed
  <2>2. PICK y \in C : y = topicLock[Parent[tx[r].t]]
    BY <1>2, <1>7 DEF Holders
  <2>3. tx[y].pc = "writeMarker" /\ tx[y].t = Parent[tx[r].t]
    BY <1>6, <2>1, <2>2
  <2>4. IsChild(tx[y].t)
    BY <1>1, <2>3 DEF WellFormed
  <2> QED
    BY <1>4, <2>1, <2>3, <2>4, FamilyAssumption DEF IsChild
<1>8. ASSUME NEW r \in C, tx[r].pc = "lockTopic" PROVE FALSE
  <2>1. PICK y \in C : y = topicLock[tx[r].t]
    BY <1>2, <1>8 DEF Holders
  <2> QED
    BY <1>4, <1>6, <1>7, <2>1
<1>9. ASSUME NEW r \in C PROVE FALSE
  <2>1. tx[r].pc = "lockAdvisory"
    BY <1>3, <1>5, <1>7, <1>8
  <2>2. PICK y \in C : y = advisory[tx[r].u]
    BY <1>2, <2>1 DEF Holders
  <2>3. HasAdvisory(tx[y])
    BY <1>1, <1>4, <2>2 DEF TransactionsAreSound, Held
  <2> QED
    BY <1>3, <1>5, <1>7, <1>8, <2>3 DEF HasAdvisory
<1> QED
  BY <1>9 DEF Deadlocked

\* The voting operations never wait for each other in a circle, for any survey and any
\* number of requests of one user.
THEOREM VotesWaitInOrder == Spec => []VotesNeverDeadlock
<1>1. TransactionsAreSound => VotesNeverDeadlock
  BY NobodyWaitsInACircle DEF VotesNeverDeadlock
<1> QED
  BY <1>1, ReadsStayTrue, PTL
-----------------------------------------------------------------------------
(* Every commit is one step of Tally.                                      *)

\* Tally reads the same topics.
LEMMA SameBallot ==
  ASSUME NEW t
  PROVE  /\ T!IsChild(t) <=> IsChild(t)
         /\ T!Questions(t) = Questions(t)
         /\ T!OptionsOf(t) = OptionsOf(t)
         /\ T!AnswerSets(t) = AnswerSets(t)
         /\ \A u, V, R : T!CompletedParents(t, u, V, R) = CompletedParents(t, u, V, R)
         /\ \A u : T!Picked(u, t) = {o \in OptionsOf(t) : u \in picks[o]}
<1>1. /\ \A x : T!IsChild(x) <=> IsChild(x)
      /\ \A x : T!Questions(x) = Questions(x)
      /\ \A x : T!OptionsOf(x) = OptionsOf(x)
  BY DEF T!IsChild, IsChild, T!Questions, Questions, T!OptionsOf, OptionsOf
<1>2. T!AnswerSets(t) = AnswerSets(t)
  <2>1. T!OptionsOf(t) = OptionsOf(t)
    BY <1>1
  <2>2. \A S : T!Cardinality(S) = Cardinality(S)
    BY Zenon DEF T!Cardinality, Cardinality
  <2>3. ASSUME NEW S PROVE S \in T!AnswerSets(t) <=> S \in AnswerSets(t)
    BY <2>1, <2>2, Zenon DEF T!AnswerSets, AnswerSets
  <2> QED
    BY <2>3
<1>3. \A p, u, V, R : T!SurveyComplete(p, u, V, R) <=> SurveyComplete(p, u, V, R)
  BY <1>1, Zenon DEF T!SurveyComplete, SurveyComplete
<1>4. \A u, V, R : T!CompletedParents(t, u, V, R) = CompletedParents(t, u, V, R)
  BY <1>3, Zenon DEF T!CompletedParents, CompletedParents
<1> QED
  BY <1>1, <1>2, <1>4 DEF T!Picked

\* A transaction that wrote commits under the conditions of its operation.
LEMMA CommitDecided ==
  ASSUME TransactionsAreSound, NEW r \in Requests, Commit(r), NEW q, q = tx[r],
         q.wrote, q.op # "comment"
  PROVE  /\ q.u \in Users /\ q.t \in Topics
         /\ status[q.t] = "OPEN" /\ Suits(q.op, q.t)
         /\ q.op \in Answering => q.answer \in AnswerSets(q.t)
         /\ q.op \notin Answering => q.answer = {}
         /\ q.op \notin {"revote", "withdraw"} => q.old = {}
         /\ q.op \in First => q.u \notin votes[q.t]
         /\ q.op \in {"revote", "withdraw"} =>
               q.u \in votes[q.t] /\ q.old = {o \in OptionsOf(q.t) : q.u \in picks[o]}
         /\ q.op = "revote" => q.old # q.answer
         /\ q.op = "saveRank" => q.u \notin ranks[q.t]
         /\ q.op = "withdrawRank" => q.u \in ranks[q.t]
         /\ Inserted(r) = CASE q.op \in First ->
                                 {q.t} \cup CompletedParents(q.t, q.u, VotesWith(q), RanksWith(q))
                            [] q.op = "saveRank" ->
                                 CompletedParents(q.t, q.u, VotesWith(q), RanksWith(q))
                            [] OTHER -> {}
<1>1. /\ q \in Transactions /\ WellFormed(q) /\ Faithful(q) /\ q.pc = "commit"
      /\ q.u \in Users /\ q.t \in Topics /\ q.op \in VoteOps
  BY CommitReady
<1>2. HasTopic(q) /\ Deciding(q)
  BY <1>1 DEF HasTopic, Deciding
<1>3. /\ Suits(q.op, q.t)
      /\ q.op \in Answering => q.answer \in AnswerSets(q.t)
      /\ q.op \notin Answering => q.answer = {}
      /\ q.op \notin {"revote", "withdraw"} => q.old = {}
      /\ q.marker # {} => q.op \in Completing
  BY <1>1, <1>2 DEF WellFormed
<1>4. AnswerStillThere(q) /\ TopicStillOpen(q) /\ MarkerStillRight(q)
  BY <1>1 DEF Faithful
<1>5. /\ q.op \in First => q.u \notin votes[q.t]
      /\ q.op = "draw" => q.open
      /\ q.op \in {"revote", "withdraw"} => q.u \in votes[q.t] /\ q.old = Picked(q.u, q.t)
      /\ q.op = "revote" => q.old # q.answer
      /\ q.op = "saveRank" => q.u \notin ranks[q.t]
      /\ q.op = "withdrawRank" => q.u \in ranks[q.t]
  BY <1>2, <1>4, Zenon DEF AnswerStillThere
<1>6. status[q.t] = "OPEN"
  BY <1>1, <1>2, <1>4, <1>5 DEF TopicStillOpen
<1>7. Picked(q.u, q.t) = {o \in OptionsOf(q.t) : q.u \in picks[o]}
  BY SameBallot DEF Picked
<1>8. q.op \in Completing => q.marker = CompletedParents(q.t, q.u, VotesWith(q), RanksWith(q))
  BY <1>1, <1>4 DEF MarkerStillRight
<1>9. Inserted(r) = q.marker \cup (IF q.op \in First THEN {q.t} ELSE {})
  BY DEF Inserted
<1>10. Inserted(r) = CASE q.op \in First ->
                            {q.t} \cup CompletedParents(q.t, q.u, VotesWith(q), RanksWith(q))
                       [] q.op = "saveRank" ->
                            CompletedParents(q.t, q.u, VotesWith(q), RanksWith(q))
                       [] OTHER -> {}
  BY <1>3, <1>8, <1>9 DEF Completing, First
<1> QED
  BY <1>1, <1>3, <1>5, <1>6, <1>7, <1>10
\* A commit without an insert, without an answer to a ranking, or without a selection leaves
\* the rows and the counters of that kind.
LEMMA CommitLeaves ==
  ASSUME TransactionsAreSound, NEW r \in Requests, Commit(r), NEW q, q = tx[r]
  PROVE  /\ Inserted(r) = {} /\ ~(q.wrote /\ q.op = "withdraw") =>
               votes' = votes /\ totalVotes' = totalVotes
         /\ ~(q.wrote /\ q.op \in {"saveRank", "withdrawRank"}) => ranks' = ranks
         /\ q.answer = {} /\ q.old = {} => picks' = picks /\ voteCount' = voteCount
         /\ Inserted(r) = {} /\ ~(q.wrote /\ q.op \in {"withdraw", "saveRank", "withdrawRank"}) =>
               voterCount' = voterCount
<1>1. /\ votes = [x \in Topics |-> votes[x]] /\ totalVotes = [x \in Topics |-> totalVotes[x]]
      /\ ranks = [x \in Topics |-> ranks[x]] /\ voterCount = [x \in Topics |-> voterCount[x]]
      /\ picks = [o \in Options |-> picks[o]] /\ voteCount = [o \in Options |-> voteCount[o]]
  BY DEF TransactionsAreSound, TablesTyped
<1>2. ASSUME Inserted(r) = {}, ~(q.wrote /\ q.op = "withdraw") PROVE votes' = votes
  BY <1>1, <1>2, CommitEffects
<1>3. ASSUME Inserted(r) = {}, ~(q.wrote /\ q.op = "withdraw") PROVE totalVotes' = totalVotes
  BY <1>1, <1>3, CommitEffects
<1>4. ASSUME ~(q.wrote /\ q.op \in {"saveRank", "withdrawRank"}) PROVE ranks' = ranks
  BY <1>1, <1>4, CommitEffects
<1>5. ASSUME q.answer = {}, q.old = {} PROVE picks' = picks
  BY <1>1, <1>5, CommitEffects
<1>6. ASSUME q.answer = {}, q.old = {} PROVE voteCount' = voteCount
  BY <1>1, <1>6, CommitEffects
<1>7. ASSUME Inserted(r) = {}, ~(q.wrote /\ q.op \in {"withdraw", "saveRank", "withdrawRank"})
      PROVE  voterCount' = voterCount
  BY <1>1, <1>7, CommitEffects
<1> QED
  BY <1>2, <1>3, <1>4, <1>5, <1>6, <1>7

\* The commits of the operations, one by one.
LEMMA CommitVote ==
  ASSUME TransactionsAreSound, NEW r \in Requests, Commit(r), NEW q, q = tx[r],
         q.wrote, q.op = "vote"
  PROVE  T!Vote(q.u, q.t, q.answer)
<1>1. /\ q.u \in Users /\ q.t \in Topics /\ status[q.t] = "OPEN" /\ Suits(q.op, q.t)
      /\ q.answer \in AnswerSets(q.t) /\ q.old = {} /\ q.u \notin votes[q.t]
      /\ Inserted(r) = {q.t} \cup CompletedParents(q.t, q.u, VotesWith(q), RanksWith(q))
  BY CommitDecided DEF First, Answering
<1>2. TablesTyped
  BY DEF TransactionsAreSound
<1>3. Inserted(r) = T!Counted(q.u, q.t)
  <2>1. VotesWith(q) = [votes EXCEPT ![q.t] = @ \cup {q.u}] /\ RanksWith(q) = ranks
    BY <1>1, <1>2 DEF VotesWith, RanksWith, First, TablesTyped
  <2> QED
    BY <1>1, <2>1, SameBallot DEF T!Counted
<1>4. T!CountVotes(q.u, Inserted(r))
  BY <1>1, CommitEffects DEF T!CountVotes
<1>5. voterCount' = [x \in Topics |-> IF x \in Inserted(r) THEN voterCount[x] + 1 ELSE voterCount[x]]
  BY CommitEffects
<1>6. T!Select(q.u, q.answer)
  BY <1>1, CommitEffects DEF T!Select
<1>7. ranks' = ranks /\ status' = status
  BY <1>2, CommitEffects DEF TablesTyped, Commit
<1>8. T!Reward(q.u, q.t)
  <2>1. q.reward = (Kind[q.t] = "FORMAL" /\ RewardPoints > 0 /\ q.t \notin Rewarded[q.u])
    BY CommitReady DEF Faithful, AccountStillRight, HasAccount
  <2>2. /\ Rewarded = [u \in Users |-> Rewarded[u]] /\ Rewarded' = [u \in Users |-> Rewarded'[u]]
        /\ Credited = [u \in Users |-> Credited[u]] /\ Credited' = [u \in Users |-> Credited'[u]]
        /\ balance = [u \in Users |-> balance[u]] /\ balance' = [u \in Users |-> balance'[u]]
    BY <1>2, CommitLedger DEF Rewarded, Credited, TablesTyped
  <2>3. /\ \A v \in Users : Rewarded'[v] = IF v = q.u /\ q.reward THEN Rewarded[v] \cup {q.t}
                                           ELSE Rewarded[v]
        /\ \A v \in Users : Credited'[v] = Credited[v]
    <3> SUFFICES ASSUME NEW v \in Users
                 PROVE  /\ Rewarded'[v] = IF v = q.u /\ q.reward THEN Rewarded[v] \cup {q.t}
                                          ELSE Rewarded[v]
                        /\ Credited'[v] = Credited[v]
      OBVIOUS
    <3> QED
      BY CommitPoints
  <2>4. /\ \A v \in Users \ {q.u} : balance'[v] = balance[v]
        /\ balance'[q.u] = IF q.reward THEN balance[q.u] + RewardPoints ELSE balance[q.u]
    <3>1. q.op # "comment"
      OBVIOUS
    <3>2. \A v \in Users \ {q.u} : balance'[v] = balance[v]
      BY CommitLedger
    <3>3. q.reward => balance'[q.u] = balance[q.u] + RewardPoints
      BY CommitLedger
    <3>4. ~q.reward => balance'[q.u] = balance[q.u]
      BY <3>1, CommitLedger
    <3> QED
      BY <3>2, <3>3, <3>4
  <2>5. Credited' = Credited
    BY <2>2, <2>3
  <2>6. CASE q.reward
    <3>1. Rewarded' = [Rewarded EXCEPT ![q.u] = @ \cup {q.t}]
      BY <1>1, <2>2, <2>3, <2>6
    <3>2. balance' = [balance EXCEPT ![q.u] = @ + RewardPoints]
      BY <1>1, <2>2, <2>4, <2>6
    <3> QED
      BY <2>1, <2>5, <2>6, <3>1, <3>2 DEF T!Reward
  <2>7. CASE ~q.reward
    <3>1. Rewarded' = Rewarded
      BY <2>2, <2>3, <2>7
    <3>2. balance' = balance
      BY <1>1, <2>2, <2>4, <2>7
    <3> QED
      BY <2>1, <2>5, <2>7, <3>1, <3>2 DEF T!Reward, T!points
  <2> QED
    BY <2>6, <2>7
<1>9. T!AnswerSets(q.t) = AnswerSets(q.t)
  BY SameBallot
<1> QED
  BY <1>1, <1>3, <1>4, <1>5, <1>6, <1>7, <1>8, <1>9 DEF T!Vote, Suits, T!Accepting, T!Answered

\* The ledger and the account stay as they are but for a vote and a comment.
LEMMA CommitPaysNothing ==
  ASSUME TransactionsAreSound, NEW r \in Requests, Commit(r), NEW q, q = tx[r],
         ~q.reward, q.op # "comment"
  PROVE  UNCHANGED <<ledger, balance, Rewarded, Credited>>
<1>1. /\ ledger \in [Users -> Seq(PointTransactions)] /\ balance \in [Users -> Nat]
      /\ ledger' \in [Users -> Seq(PointTransactions)] /\ balance' \in [Users -> Nat]
      /\ q.u \in Users
  BY CommitLedger, CommitReady DEF TransactionsAreSound, TablesTyped
<1>2. \A v \in Users : ledger'[v] = ledger[v] /\ balance'[v] = balance[v]
  <2>1. \A v \in Users \ {q.u} : ledger'[v] = ledger[v] /\ balance'[v] = balance[v]
    BY CommitLedger
  <2>2. ledger'[q.u] = ledger[q.u] /\ balance'[q.u] = balance[q.u]
    BY CommitLedger
  <2> QED
    BY <2>1, <2>2
<1>3. ledger' = ledger /\ balance' = balance
  BY <1>1, <1>2
<1> QED
  BY <1>3 DEF Rewarded, Credited

LEMMA CommitDraw ==
  ASSUME TransactionsAreSound, NEW r \in Requests, Commit(r), NEW q, q = tx[r],
         q.wrote, q.op = "draw"
  PROVE  \E o \in OptionsOf(q.t) : T!Draw(q.u, q.t, o)
<1>1. /\ q.u \in Users /\ q.t \in Topics /\ status[q.t] = "OPEN" /\ Suits(q.op, q.t)
      /\ q.answer \in AnswerSets(q.t) /\ q.old = {} /\ q.u \notin votes[q.t]
      /\ Inserted(r) = {q.t} \cup CompletedParents(q.t, q.u, VotesWith(q), RanksWith(q))
  BY CommitDecided DEF First, Answering
<1>2. TablesTyped
  BY DEF TransactionsAreSound
<1>3. Inserted(r) = T!Counted(q.u, q.t)
  <2>1. VotesWith(q) = [votes EXCEPT ![q.t] = @ \cup {q.u}] /\ RanksWith(q) = ranks
    BY <1>1, <1>2 DEF VotesWith, RanksWith, First, TablesTyped
  <2> QED
    BY <1>1, <2>1, SameBallot DEF T!Counted
<1>4. T!CountVotes(q.u, Inserted(r))
  BY <1>1, CommitEffects DEF T!CountVotes
<1>5. voterCount' = [x \in Topics |-> IF x \in Inserted(r) THEN voterCount[x] + 1 ELSE voterCount[x]]
  BY CommitEffects
<1>6. Type[q.t] = "DRAW"
  BY <1>1 DEF Suits
<1>7. PICK o \in OptionsOf(q.t) : q.answer = {o}
  BY <1>1, <1>6 DEF AnswerSets
<1>8. T!Select(q.u, {o})
  BY <1>1, <1>7, CommitEffects DEF T!Select
<1>9. ranks' = ranks /\ status' = status
  BY <1>2, CommitEffects DEF TablesTyped, Commit
<1>10. UNCHANGED <<ledger, balance, Rewarded, Credited>>
  BY CommitReady, CommitPaysNothing DEF WellFormed
<1> QED
  BY <1>1, <1>3, <1>4, <1>5, <1>6, <1>7, <1>8, <1>9, <1>10, SameBallot
  DEF T!Draw, T!Accepting, T!Answered, T!points
LEMMA CommitRevote ==
  ASSUME TransactionsAreSound, NEW r \in Requests, Commit(r), NEW q, q = tx[r],
         q.wrote, q.op = "revote"
  PROVE  T!Revote(q.u, q.t, q.answer)
<1>1. /\ q.u \in Users /\ q.t \in Topics /\ status[q.t] = "OPEN" /\ Suits(q.op, q.t)
      /\ q.answer \in AnswerSets(q.t) /\ q.u \in votes[q.t] /\ q.old # q.answer
      /\ q.old = {o \in OptionsOf(q.t) : q.u \in picks[o]}
      /\ Inserted(r) = {}
  BY CommitDecided DEF First, Answering
<1>2. TablesTyped
  BY DEF TransactionsAreSound
<1>3. /\ Kind[q.t] = "QUICK" /\ ~IsChild(q.t) /\ Type[q.t] # "DRAW"
      /\ q.old = T!Picked(q.u, q.t) /\ q.answer \in T!AnswerSets(q.t) /\ ~T!IsChild(q.t)
  BY <1>1, SameBallot DEF Suits
<1>4. votes' = votes /\ ranks' = ranks /\ totalVotes' = totalVotes /\ voterCount' = voterCount
  BY <1>1, CommitLeaves
<1>5. picks' = [o \in Options |-> IF o \in q.answer THEN picks[o] \cup {q.u}
                                  ELSE IF o \in q.old THEN picks[o] \ {q.u}
                                  ELSE picks[o]]
  <2>1. \A o \in q.old : picks[o] \cup {q.u} = picks[o]
    BY <1>1
  <2> QED
    BY <1>1, <2>1, CommitEffects
<1>6. voteCount' = [o \in Options |-> IF o \in q.answer \ q.old THEN voteCount[o] + 1
                                      ELSE IF o \in q.old \ q.answer THEN voteCount[o] - 1
                                      ELSE voteCount[o]]
  BY CommitEffects
<1>7. UNCHANGED <<ledger, balance, Rewarded, Credited>> /\ status' = status
  BY CommitReady, CommitPaysNothing DEF WellFormed, Commit
<1> QED
  BY <1>1, <1>3, <1>4, <1>5, <1>6, <1>7
  DEF T!Revote, T!Accepting, T!Answered, T!Added, T!points

LEMMA CommitWithdraw ==
  ASSUME TransactionsAreSound, NEW r \in Requests, Commit(r), NEW q, q = tx[r],
         q.wrote, q.op = "withdraw"
  PROVE  T!WithdrawVote(q.u, q.t)
<1>1. /\ q.u \in Users /\ q.t \in Topics /\ status[q.t] = "OPEN" /\ Suits(q.op, q.t)
      /\ q.answer = {} /\ q.u \in votes[q.t]
      /\ q.old = {o \in OptionsOf(q.t) : q.u \in picks[o]}
      /\ Inserted(r) = {}
  BY CommitDecided DEF First, Answering
<1>2. TablesTyped
  BY DEF TransactionsAreSound
<1>3. /\ Kind[q.t] = "QUICK" /\ q.old = T!Picked(q.u, q.t) /\ ~T!IsChild(q.t)
  BY <1>1, SameBallot DEF Suits
<1>4. /\ votes' = [votes EXCEPT ![q.t] = @ \ {q.u}]
      /\ totalVotes' = [totalVotes EXCEPT ![q.t] = @ - 1]
      /\ voterCount' = [voterCount EXCEPT ![q.t] = @ - 1]
      /\ ranks' = ranks
  <2>1. votes' = [votes EXCEPT ![q.t] = @ \ {q.u}]
    <3>1. votes' = [x \in Topics |-> IF x = q.t THEN votes[x] \ {q.u} ELSE votes[x]]
      BY <1>1, CommitEffects
    <3> QED
      BY <1>1, <1>2, <3>1 DEF TablesTyped
  <2>2. totalVotes' = [totalVotes EXCEPT ![q.t] = @ - 1]
    BY <1>1, <1>2, CommitEffects DEF TablesTyped
  <2>3. voterCount' = [voterCount EXCEPT ![q.t] = @ - 1]
    BY <1>1, <1>2, CommitEffects DEF TablesTyped
  <2>4. ranks' = ranks
    BY CommitLeaves
  <2> QED
    BY <2>1, <2>2, <2>3, <2>4
<1>5. /\ picks' = [o \in Options |-> IF o \in q.old THEN picks[o] \ {q.u} ELSE picks[o]]
      /\ voteCount' = [o \in Options |-> IF o \in q.old THEN voteCount[o] - 1 ELSE voteCount[o]]
  BY <1>1, CommitEffects
<1>6. UNCHANGED <<ledger, balance, Rewarded, Credited>> /\ status' = status
  BY CommitReady, CommitPaysNothing DEF WellFormed, Commit
<1> QED
  BY <1>1, <1>3, <1>4, <1>5, <1>6 DEF T!WithdrawVote, T!Accepting, T!Answered, T!points

LEMMA CommitSaveRank ==
  ASSUME TransactionsAreSound, NEW r \in Requests, Commit(r), NEW q, q = tx[r],
         q.wrote, q.op = "saveRank"
  PROVE  T!SaveRank(q.u, q.t)
<1>1. /\ q.u \in Users /\ q.t \in Topics /\ status[q.t] = "OPEN" /\ Suits(q.op, q.t)
      /\ q.answer = {} /\ q.old = {} /\ q.u \notin ranks[q.t]
      /\ Inserted(r) = CompletedParents(q.t, q.u, VotesWith(q), RanksWith(q))
  BY CommitDecided DEF First, Answering
<1>2. TablesTyped
  BY DEF TransactionsAreSound
<1> DEFINE done == T!CompletedParents(q.t, q.u, votes, [ranks EXCEPT ![q.t] = @ \cup {q.u}])
<1>3. Inserted(r) = done
  <2>1. VotesWith(q) = votes /\ RanksWith(q) = [ranks EXCEPT ![q.t] = @ \cup {q.u}]
    BY <1>1, <1>2 DEF VotesWith, RanksWith, First, TablesTyped
  <2> QED
    BY <1>1, <2>1, SameBallot
<1>4. Type[q.t] = "IMAGE_RANK"
  BY <1>1 DEF Suits
<1>5. ranks' = [ranks EXCEPT ![q.t] = @ \cup {q.u}]
  BY <1>1, <1>2, CommitEffects DEF TablesTyped
<1>6. T!CountVotes(q.u, Inserted(r))
  BY <1>1, CommitEffects DEF T!CountVotes
<1>7. voterCount' = [x \in Topics |-> IF x \in Inserted(r) \cup {q.t} THEN voterCount[x] + 1
                                      ELSE voterCount[x]]
  BY <1>1, <1>2, CommitEffects DEF TablesTyped
<1>8. picks' = picks /\ voteCount' = voteCount
  BY <1>1, CommitLeaves
<1>9. UNCHANGED <<ledger, balance, Rewarded, Credited>> /\ status' = status
  BY CommitReady, CommitPaysNothing DEF WellFormed, Commit
<1> HIDE DEF done
<1> QED
  BY <1>1, <1>3, <1>4, <1>5, <1>6, <1>7, <1>8, <1>9 DEF T!SaveRank, T!Accepting, T!points, done

LEMMA CommitWithdrawRank ==
  ASSUME TransactionsAreSound, NEW r \in Requests, Commit(r), NEW q, q = tx[r],
         q.wrote, q.op = "withdrawRank"
  PROVE  T!WithdrawRank(q.u, q.t)
<1>1. /\ q.u \in Users /\ q.t \in Topics /\ status[q.t] = "OPEN" /\ Suits(q.op, q.t)
      /\ q.answer = {} /\ q.old = {} /\ q.u \in ranks[q.t]
      /\ Inserted(r) = {}
  BY CommitDecided DEF First, Answering
<1>2. TablesTyped
  BY DEF TransactionsAreSound
<1>3. Type[q.t] = "IMAGE_RANK" /\ ~T!IsChild(q.t)
  BY <1>1, SameBallot DEF Suits
<1>4. /\ ranks' = [ranks EXCEPT ![q.t] = @ \ {q.u}]
      /\ voterCount' = [voterCount EXCEPT ![q.t] = @ - 1]
  <2>1. ranks' = [ranks EXCEPT ![q.t] = @ \ {q.u}]
    <3>1. ranks' = [x \in Topics |-> IF x = q.t THEN ranks[x] \ {q.u} ELSE ranks[x]]
      BY CommitEffects
    <3> QED
      BY <1>1, <1>2, <3>1 DEF TablesTyped
  <2>2. voterCount' = [voterCount EXCEPT ![q.t] = @ - 1]
    BY <1>1, <1>2, CommitEffects DEF TablesTyped
  <2> QED
    BY <2>1, <2>2
<1>5. votes' = votes /\ picks' = picks /\ totalVotes' = totalVotes /\ voteCount' = voteCount
  BY <1>1, CommitLeaves
<1>6. UNCHANGED <<ledger, balance, Rewarded, Credited>> /\ status' = status
  BY CommitReady, CommitPaysNothing DEF WellFormed, Commit
<1> QED
  BY <1>1, <1>3, <1>4, <1>5, <1>6 DEF T!WithdrawRank, T!Accepting, T!points

LEMMA CommitComment ==
  ASSUME TransactionsAreSound, NEW r \in Requests, Commit(r), NEW q, q = tx[r], q.op = "comment"
  PROVE  T!EarnElsewhere(q.u)
<1>1. /\ q.u \in Users /\ q.t \in Topics /\ q.answer = {} /\ q.old = {} /\ Inserted(r) = {}
      /\ ~q.reward
  BY CommitReady DEF WellFormed
<1>2. TablesTyped
  BY DEF TransactionsAreSound
<1>3. UNCHANGED <<votes, picks, ranks, totalVotes, voterCount, voteCount>>
  BY <1>1, CommitLeaves
<1>4. Credited[q.u] < MaxCredits
  <2>1. r \in Payers(q.u)
    BY <1>1 DEF Payers
  <2>2. IsFiniteSet(Payers(q.u)) /\ Cardinality(Payers(q.u)) \in Nat /\ Credited[q.u] \in Nat
    BY <1>1, <1>2, PayingCounts
  <2>3. Credited[q.u] + Cardinality(Payers(q.u)) <= MaxCredits
    BY <1>1, <1>2, PayingCounts DEF TransactionsAreSound, PayingBounded
  <2>4. Cardinality(Payers(q.u)) # 0
    BY <2>1, <2>2, FS_EmptySet
  <2> QED
    BY <2>2, <2>3, <2>4, RequestAssumption
<1>5. /\ \A v \in Users : Rewarded'[v] = Rewarded[v]
      /\ \A v \in Users : Credited'[v] = IF v = q.u THEN Credited[v] + 1 ELSE Credited[v]
  BY <1>1, CommitPoints
<1>6. /\ \A v \in Users \ {q.u} : balance'[v] = balance[v]
      /\ balance'[q.u] = balance[q.u] + 1
  BY <1>1, CommitLedger
<1>7. Rewarded' = Rewarded /\ Credited' = [Credited EXCEPT ![q.u] = @ + 1]
  <2>1. /\ Rewarded = [v \in Users |-> Rewarded[v]] /\ Rewarded' = [v \in Users |-> Rewarded'[v]]
        /\ Credited = [v \in Users |-> Credited[v]] /\ Credited' = [v \in Users |-> Credited'[v]]
    BY DEF Rewarded, Credited
  <2>2. Rewarded' = Rewarded
    BY <1>5, <2>1
  <2>3. Credited' = [Credited EXCEPT ![q.u] = @ + 1]
    BY <1>1, <1>5, <2>1
  <2> QED
    BY <2>2, <2>3
<1>8. balance' = [balance EXCEPT ![q.u] = @ + 1]
  <2>1. balance' \in [Users -> Nat]
    BY CommitLedger
  <2> QED
    BY <1>1, <1>2, <1>6, <2>1 DEF TablesTyped
<1> QED
  BY <1>3, <1>4, <1>7, <1>8 DEF T!EarnElsewhere, T!rows, T!counters, Commit
\* A commit that changes a table is the step of Tally for its operation.
LEMMA CommitRefines ==
  ASSUME TransactionsAreSound, NEW r \in Requests, Commit(r),
         <<status, tables>>' # <<status, tables>>
  PROVE  T!Next
<1> DEFINE q == tx[r]
<1>1. /\ q.op \in VoteOps \cup {"comment"} /\ q.u \in Users /\ q.t \in Topics
      /\ q \in Transactions /\ WellFormed(q) /\ q.pc = "commit"
  BY CommitReady
<1>2. CASE q.op = "comment"
  BY <1>1, <1>2, CommitComment DEF T!Next
<1>3. CASE q.op # "comment" /\ ~q.wrote
  <2>1. /\ ~q.reward /\ q.marker = {} /\ Inserted(r) = {}
    BY <1>1, <1>3 DEF WellFormed, Inserted
  <2>2. UNCHANGED <<ledger, balance>>
    BY <1>3, <2>1, CommitPaysNothing
  <2>3. UNCHANGED <<votes, ranks, totalVotes, voterCount>>
    BY <1>3, <2>1, CommitLeaves
  <2>4. picks' = picks /\ voteCount' = voteCount
    <3>1. picks' = [o \in Options |-> picks[o]]
      BY <1>3, CommitEffects
    <3>2. voteCount' = [o \in Options |-> voteCount[o]]
      BY <1>3, CommitEffects
    <3> QED
      BY <3>1, <3>2 DEF TransactionsAreSound, TablesTyped
  <2> QED
    BY <2>2, <2>3, <2>4 DEF tables, Commit
<1>4. CASE q.op # "comment" /\ q.wrote
  <2>1. /\ q.op \in Answering => q.answer \in SUBSET T!OptionsOf(q.t)
        /\ T!OptionsOf(q.t) = OptionsOf(q.t)
    BY <1>4, CommitDecided, SameBallot DEF AnswerSets
  <2>2. CASE q.op = "vote"
    BY <1>1, <1>4, <2>1, <2>2, CommitVote DEF T!Next, Answering
  <2>3. CASE q.op = "draw"
    BY <1>1, <1>4, <2>1, <2>3, CommitDraw DEF T!Next
  <2>4. CASE q.op = "revote"
    BY <1>1, <1>4, <2>1, <2>4, CommitRevote DEF T!Next, Answering
  <2>5. CASE q.op = "withdraw"
    BY <1>1, <1>4, <2>5, CommitWithdraw DEF T!Next
  <2>6. CASE q.op = "saveRank"
    BY <1>1, <1>4, <2>6, CommitSaveRank DEF T!Next
  <2>7. CASE q.op = "withdrawRank"
    BY <1>1, <1>4, <2>7, CommitWithdrawRank DEF T!Next
  <2> QED
    BY <1>1, <1>4, <2>2, <2>3, <2>4, <2>5, <2>6, <2>7 DEF VoteOps, First
<1> QED
  BY <1>2, <1>3, <1>4

\* No other step of a request changes what Tally sees, and the topics move as in Tally.
LEMMA StepRefines ==
  ASSUME TransactionsAreSound, Next, <<status, tables>>' # <<status, tables>>
  PROVE  T!Next
<1>1. ASSUME NEW r \in Requests, NEW op, NEW u, NEW t, NEW S, Arrive(r, op, u, t, S) PROVE T!Next
  BY <1>1 DEF Arrive
<1>2. ASSUME NEW r \in Requests, Statement(r) PROVE T!Next
  <2>1. CASE Commit(r)
    BY <2>1, CommitRefines
  <2>2. CASE LockAdvisory(r) \/ LockTopic(r) \/ LockUser(r)
    BY <2>2 DEF LockAdvisory, LockTopic, LockUser
  <2>3. CASE ReadTopic(r) \/ ReadAnswer(r) \/ ReadSurvey(r) \/ ReadMarker(r)
    BY <2>3 DEF ReadTopic, ReadAnswer, ReadSurvey, ReadMarker
  <2>4. CASE Write(r) \/ WriteMarker(r) \/ WriteReward(r) \/ TouchTopic(r)
    BY <2>4 DEF Write, WriteMarker, WriteReward, TouchTopic
  <2> QED
    BY <1>2, <2>1, <2>2, <2>3, <2>4 DEF Statement
<1>3. ASSUME NEW r \in Requests, Rollback(r) PROVE T!Next
  BY <1>3 DEF Rollback
<1>4. Concerned \subseteq Topics
  BY ConcernedTopics DEF TransactionsAreSound
<1>5. ASSUME NEW t \in Concerned, NEW C \in SUBSET Questions(t), Publish(t, C) PROVE T!Next
  BY <1>4, <1>5, SameBallot DEF Publish, T!Next
<1>6. ASSUME NEW t \in Concerned, OpenRound(t, {}) PROVE T!Next
  BY <1>4, <1>6 DEF OpenRound, T!Next
<1>7. ASSUME NEW t \in Concerned, NEW x \in Concerned, OpenRound(t, {x}) PROVE T!Next
  BY <1>4, <1>7 DEF OpenRound, T!Next
<1>8. ASSUME NEW t \in Concerned, FinishStaged(t) PROVE T!Next
  BY <1>4, <1>8 DEF FinishStaged, T!Next
<1>9. ASSUME NEW t \in Concerned, Expire(t) PROVE T!Next
  BY <1>9 DEF Expire
<1> QED
  BY <1>1, <1>2, <1>3, <1>5, <1>6, <1>7, <1>8, <1>9 DEF Next

LEMMA InitRefines == Init => T!Init
<1> SUFFICES ASSUME Init PROVE T!Init
  OBVIOUS
<1>1. ASSUME NEW u \in Users PROVE Rewarded[u] = {} /\ Credited[u] = 0
  <2>1. ledger[u] = <<>>
    BY DEF Init
  <2>2. {i \in DOMAIN ledger[u] : ledger[u][i].key = NoTopic} = {}
    BY <2>1
  <2>3. Cardinality({}) = 0
    BY FS_EmptySet
  <2> QED
    BY <2>1, <2>2, <2>3 DEF Rewarded, Credited
<1>2. Rewarded = [u \in Users |-> {}] /\ Credited = [u \in Users |-> 0]
  BY <1>1 DEF Rewarded, Credited
<1> QED
  BY <1>2 DEF Init, T!Init

\* The transactions implement Tally: whatever statements of whatever requests are
\* interleaved, each commit has the effect of one atomic operation on the state it meets.
THEOREM CommitsAreAtomic == Spec => ImplementsTally
<1>1. Init => T!Init
  BY InitRefines
<1>2. TransactionsAreSound /\ [Next]_vars
        => [<<status, tables>>' # <<status, tables>> => T!Next]_vars
  BY StepRefines
<1> QED
  BY <1>1, <1>2, ReadsStayTrue, PTL DEF Spec, ImplementsTally
=============================================================================
