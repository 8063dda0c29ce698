------------------------- MODULE TopicApplications --------------------------
(***************************************************************************)
(* The proposals of topics (TopicApplicationsService and createEditorial   *)
(* of TopicsService), a statement at a time.  updateMine and               *)
(* createEditorial lock the proposals and read them again; review writes   *)
(* what it decided from a read before its transaction, the revision first  *)
(* and the proposal after it.                                              *)
(***************************************************************************)
EXTENDS Naturals, Sequences, FiniteSets

CONSTANTS
    Apps,          \* ids of proposals: a set of numbers
    Requests,      \* requests in progress at once
    NoReq,
    Ops,           \* the operations requests perform
    MaxVersions,   \* bound: changes of a proposal
    MaxLoad        \* bound: proposals submitted plus requests in progress

VARIABLES
    status,        \* proposal -> topic_applications.status
    revisions,     \* proposal -> statuses of its revisions
    version,       \* proposal -> updated_at, as the number of its changes
    results,       \* proposal -> how many topics were created for it
    lock,          \* proposal -> who holds its row
    revLock,       \* proposal -> revision -> who holds its row
    tx             \* request -> its progress and what it has read

apps  == <<status, revisions, version, results>>
locks == <<lock, revLock>>
vars  == <<apps, locks, tx>>

Idle == [op |-> "none", pc |-> "idle", apps |-> {}, left |-> {}, seen |-> [a \in {} |-> 0],
         rev |-> [a \in {} |-> 0], next |-> "none"]

Undecided == {"PENDING", "IN_REVIEW"}

Init ==
    /\ status = [a \in Apps |-> "NONE"]
    /\ revisions = [a \in Apps |-> <<>>]
    /\ version = [a \in Apps |-> 0]
    /\ results = [a \in Apps |-> 0]
    /\ lock = [a \in Apps |-> NoReq]
    /\ revLock = [a \in Apps |-> <<>>]
    /\ tx = [r \in Requests |-> Idle]

At(r, op, pc) == tx[r].op = op /\ tx[r].pc = pc

Load == Cardinality({a \in Apps : status[a] # "NONE"}) + Cardinality({r \in Requests : tx[r] # Idle})

\* submit: one nested create, the proposal with its first revision.
Submit(a) ==
    /\ status[a] = "NONE"
    /\ Load < MaxLoad
    /\ status' = [status EXCEPT ![a] = "PENDING"]
    /\ revisions' = [revisions EXCEPT ![a] = <<"PENDING">>]
    /\ version' = [version EXCEPT ![a] = 1]
    /\ revLock' = [revLock EXCEPT ![a] = <<NoReq>>]
    /\ UNCHANGED <<results, lock, tx>>

Goto(r, pc) == tx' = [tx EXCEPT ![r].pc = pc, ![r].left = tx[r].apps]

-----------------------------------------------------------------------------
(* What a request reads before its transaction.                            *)

Arrive(r, op, A, next, pc) ==
    /\ tx[r] = Idle
    /\ op \in Ops
    /\ Load < MaxLoad
    /\ \A a \in A : version[a] < MaxVersions
    /\ tx' = [tx EXCEPT ![r] = [op |-> op, pc |-> pc, apps |-> A, left |-> A, next |-> next,
                                seen |-> [a \in A |-> version[a]],
                                rev |-> [a \in A |-> Len(revisions[a])]]]
    /\ UNCHANGED <<apps, locks>>

\* The submitter has loaded the proposal and edits it: expectedUpdatedAt.
ArriveUpdate(r, a) == status[a] \in {"PENDING", "REJECTED"} /\ Arrive(r, "update", {a}, "none", "lock")

\* review reads the proposal, checks it and keeps its revision number.
ArriveReview(r, a, s) == status[a] \in Undecided /\ Arrive(r, "review", {a}, s, "revision")

\* createEditorial reads the proposals and checks that they are undecided and without a topic.
ArriveAdopt(r, A) ==
    /\ A # {}
    /\ \A a \in A : status[a] \in Undecided /\ results[a] = 0
    /\ Arrive(r, "adopt", A, "none", "lock")

-----------------------------------------------------------------------------
(* The transactions.                                                       *)

AnyToLock(r) == tx[r].left

\* FOR UPDATE, ORDER BY id
NextToLock(r) == {a \in tx[r].left : \A b \in tx[r].left : a <= b}

LockApplication(r) ==
    /\ tx[r].pc = "lock"
    /\ \E a \in NextToLock(r) :
          /\ lock[a] = NoReq
          /\ lock' = [lock EXCEPT ![a] = r]
          /\ tx' = [tx EXCEPT ![r].left = @ \ {a}]
    /\ UNCHANGED <<apps, revLock>>

\* What updateMine and createEditorial require of the locked rows.
Current(r) ==
    \A a \in tx[r].apps :
        IF tx[r].op = "update" THEN status[a] \in {"PENDING", "REJECTED"} /\ version[a] = tx[r].seen[a]
                               ELSE status[a] \in Undecided /\ results[a] = 0

\* A new revision needs no lock; the current one is updated before the proposal.
Recheck(r) ==
    /\ tx[r].pc = "lock" /\ tx[r].left = {}
    /\ Current(r)
    /\ Goto(r, IF tx[r].op = "update" /\ \E a \in tx[r].apps : status[a] = "REJECTED"
               THEN "commit" ELSE "revision")
    /\ UNCHANGED <<apps, locks>>

\* UPDATE of the revision the request knows of: updateMine reads it under the lock.
RevisionOf(r, a) == IF tx[r].op = "update" THEN Len(revisions[a]) ELSE tx[r].rev[a]

LockRevision(r) ==
    /\ tx[r].pc = "revision"
    /\ \E a \in NextToLock(r) :
          /\ revLock[a][RevisionOf(r, a)] \in {NoReq, r}
          /\ revLock' = [revLock EXCEPT ![a][RevisionOf(r, a)] = r]
          /\ tx' = [tx EXCEPT ![r].left = @ \ {a},
                              ![r].pc = IF tx[r].left # {a} THEN "revision"
                                        ELSE IF tx[r].op = "review" THEN "proposal" ELSE "commit"]
    /\ UNCHANGED <<apps, lock>>

\* review updates the proposal last.
LockProposal(r) ==
    /\ At(r, "review", "proposal")
    /\ \A a \in tx[r].apps : lock[a] = NoReq
    /\ lock' = [a \in Apps |-> IF a \in tx[r].apps THEN r ELSE lock[a]]
    /\ Goto(r, "commit")
    /\ UNCHANGED <<apps, revLock>>

Freed(l, r) == [i \in DOMAIN l |-> IF l[i] = r THEN NoReq ELSE l[i]]

End(r) ==
    /\ lock' = Freed(lock, r)
    /\ revLock' = [a \in Apps |-> Freed(revLock[a], r)
                                     \o (IF Len(revisions'[a]) > Len(revisions[a]) THEN <<NoReq>> ELSE <<>>)]
    /\ tx' = [tx EXCEPT ![r] = Idle]

Touched(r) == version' = [a \in Apps |-> IF a \in tx[r].apps THEN version[a] + 1 ELSE version[a]]

DecideWithoutRevision(r, s) ==
    /\ status' = [a \in Apps |-> IF a \in tx[r].apps THEN s ELSE status[a]]
    /\ UNCHANGED revisions

\* The proposals, and the revisions the request knows of, get the status s.
Decide(r, s) ==
    /\ status' = [a \in Apps |-> IF a \in tx[r].apps THEN s ELSE status[a]]
    /\ revisions' = [a \in Apps |->
           IF a \in tx[r].apps THEN [revisions[a] EXCEPT ![tx[r].rev[a]] = s] ELSE revisions[a]]

CommitUpdate(r) ==
    LET a == CHOOSE a \in tx[r].apps : TRUE IN
    /\ At(r, "update", "commit")
    /\ IF status[a] = "REJECTED"
       THEN /\ status' = [status EXCEPT ![a] = "PENDING"]
            /\ revisions' = [revisions EXCEPT ![a] = Append(@, "PENDING")]
       ELSE UNCHANGED <<status, revisions>>
    /\ Touched(r) /\ UNCHANGED results /\ End(r)

CommitReview(r) ==
    /\ At(r, "review", "commit")
    /\ Decide(r, tx[r].next)
    /\ Touched(r) /\ UNCHANGED results /\ End(r)

\* createEditorial: the topic and its results, the proposals, their revisions.
CommitAdopt(r) ==
    /\ At(r, "adopt", "commit")
    /\ Decide(r, "APPROVED")
    /\ results' = [a \in Apps |-> IF a \in tx[r].apps THEN results[a] + 1 ELSE results[a]]
    /\ Touched(r) /\ End(r)

Refuse(r) ==
    /\ tx[r].pc = "lock" /\ tx[r].left = {} /\ ~Current(r)
    /\ UNCHANGED apps
    /\ End(r)

Statement(r) ==
    \/ LockApplication(r) \/ Recheck(r) \/ LockRevision(r) \/ LockProposal(r)
    \/ CommitUpdate(r) \/ CommitReview(r) \/ CommitAdopt(r) \/ Refuse(r)

-----------------------------------------------------------------------------
(* Deadlocks: who waits for a row another one holds.                       *)

Holders(r) ==
    CASE tx[r].pc = "lock"     -> {lock[a] : a \in NextToLock(r)}
      [] tx[r].pc = "revision" -> {revLock[a][RevisionOf(r, a)] : a \in NextToLock(r)}
      [] tx[r].pc = "proposal" -> {lock[a] : a \in tx[r].apps}
      [] OTHER                 -> {}

WaitsFor(r, q) == q # r /\ q \in Holders(r)

Deadlocked(D) == D # {} /\ \A r \in D : \E q \in D : WaitsFor(r, q)

\* The transactions of a circle, without those that only wait for one of them.
Circle(D) == Deadlocked(D) /\ \A E \in SUBSET D : Deadlocked(E) => E = D

\* PostgreSQL rolls back one of the transactions that wait in a circle.
AbortVictim(r) ==
    /\ \E q \in Requests : WaitsFor(r, q)
    /\ \E D \in SUBSET Requests : r \in D /\ Circle(D)
    /\ UNCHANGED apps
    /\ End(r)

\* The process stops or the transaction times out.
Rollback(r) ==
    /\ tx[r] # Idle
    /\ UNCHANGED apps
    /\ End(r)

Next ==
    \/ \E a \in Apps : Submit(a)
    \/ \E r \in Requests :
        \/ Statement(r) \/ AbortVictim(r) \/ Rollback(r)
        \/ \E a \in Apps : \/ ArriveUpdate(r, a)
                           \/ \E s \in {"IN_REVIEW", "REJECTED"} : ArriveReview(r, a, s)
        \/ \E A \in SUBSET Apps : ArriveAdopt(r, A)

Spec == Init /\ [][Next]_vars

-----------------------------------------------------------------------------
Contract == INSTANCE ApplicationLifecycle WITH adopted <- [a \in Apps |-> results[a] > 0]

\* A review or an adoption commits a decision on a proposal that changed since it was read.
Overtaken ==
    \E r \in Requests :
        /\ tx[r].op \in {"review", "adopt"} /\ tx[r].pc = "commit" /\ tx'[r] = Idle
        /\ \E a \in tx[r].apps : version[a] # tx[r].seen[a]

\* Requests may overlap: every commit of a decision on what was read, and of every edit, is a
\* step of the life of a proposal; only overtaken decisions break the promises made to
\* submitters.
ImplementsLifecycle == Contract!Init /\ [][Contract!vars' # Contract!vars => Overtaken \/ Contract!Next]_vars

\* The submitter never writes over a change he has not seen.
EditsSeeTheirVersion ==
    [][apps' # apps => \A r \in Requests : At(r, "update", "commit") /\ tx'[r] = Idle =>
                         \A a \in tx[r].apps : tx[r].seen[a] = version[a]]_vars

\* Only a review, which locks in the opposite order, is ever part of a deadlock.
DeadlocksInvolveReview ==
    \A D \in SUBSET {r \in Requests : tx[r].op # "review" /\ tx[r] # Idle} : ~Deadlocked(D)
=============================================================================
