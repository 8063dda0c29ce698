------------------------- MODULE StanceApplications -------------------------
(***************************************************************************)
(* The proposals of new stances on a topic (StanceApplicationsService): a  *)
(* transaction locks the proposals it is about, in the order of their ids, *)
(* reads them again, checks them and writes.  Meanwhile the topic may      *)
(* close and the stance a proposal answers may be taken down and restored  *)
(* (StancesService).                                                       *)
(***************************************************************************)
EXTENDS Naturals, Sequences, FiniteSets

CONSTANTS
    Apps,          \* ids of proposals: a set of numbers
    Requests,      \* requests in progress at once
    NoReq,
    Ops,           \* the operations requests perform
    DailyLimit,    \* proposals a member submits per day (10)
    MaxVersions    \* bound: changes of a proposal

VARIABLES
    status,        \* proposal -> stance_applications.status
    revisions,     \* proposal -> statuses of its revisions
    version,       \* proposal -> updated_at, as the number of its changes
    adopted,       \* proposal -> whether it has results
    lock,          \* proposal -> who holds its row
    shared,        \* who holds the topic and the parent stance FOR SHARE
    open,          \* the topic is open and the parent stance active
    tx             \* request -> its progress

apps == <<status, revisions, version, adopted>>
vars == <<apps, lock, shared, open, tx>>

Idle == [op |-> "none", pc |-> "idle", apps |-> {}, seen |-> [a \in {} |-> 0], next |-> "none"]

Init ==
    /\ status = [a \in Apps |-> "NONE"]
    /\ revisions = [a \in Apps |-> <<>>]
    /\ version = [a \in Apps |-> 0]
    /\ adopted = [a \in Apps |-> FALSE]
    /\ lock = [a \in Apps |-> NoReq]
    /\ shared = {}
    /\ open = TRUE
    /\ tx = [r \in Requests |-> Idle]

Undecided == {"PENDING", "IN_REVIEW"}

Submitted == {a \in Apps : status[a] # "NONE"}

\* The statuses from which an operation is allowed.
Allowed(op) ==
    CASE op = "submit"   -> {"NONE"}
      [] op = "update"   -> {"PENDING", "REJECTED"}
      [] op = "withdraw" -> Undecided \cup {"REJECTED"}
      [] OTHER           -> Undecided

At(r, pc) == tx[r].pc = pc

-----------------------------------------------------------------------------
(* What happens before the transaction.                                    *)

\* The user has seen the proposals as they are now and acts on them later: expectedUpdatedAt.
\* review, publish and resolve have read them once more, without a lock.  (The client sends
\* expectedUpdatedAt with all of them but withdrawals.)
Arrive(r, op, A, next) ==
    /\ At(r, "idle")
    /\ op \in Ops
    /\ A # {} /\ (op # "resolve" => Cardinality(A) = 1)
    /\ \A a \in A : status[a] \in Allowed(op)
    /\ op = "submit" => /\ open
                        /\ Cardinality(Submitted) < DailyLimit
                        /\ \A q \in Requests : tx[q].op = "submit" => tx[q].apps # A
    /\ tx' = [tx EXCEPT ![r] = [op |-> op, pc |-> IF op = "submit" THEN "commit" ELSE "lock",
                                apps |-> A, seen |-> [a \in A |-> version[a]], next |-> next]]
    /\ UNCHANGED <<apps, lock, shared, open>>

-----------------------------------------------------------------------------
(* The transaction.                                                        *)

Unlocked(r) == {a \in tx[r].apps : lock[a] # r}

\* Rows locked in the order the proposals were chosen in.
AnyToLock(r) == Unlocked(r)

\* SELECT ... ORDER BY id FOR UPDATE locks the rows one after the other.
NextToLock(r) == {a \in Unlocked(r) : \A b \in Unlocked(r) : a <= b}

LockApplication(r) ==
    /\ At(r, "lock")
    /\ \E a \in NextToLock(r) : lock[a] = NoReq /\ lock' = [lock EXCEPT ![a] = r]
    /\ UNCHANGED <<apps, shared, open, tx>>

\* The statuses were checked before the lock only.
CurrentAsRead(r) == tx[r].op # "none"

\* Without the comparison of updated_at.
CurrentStatusOnly(r) == \A a \in tx[r].apps : status[a] \in Allowed(tx[r].op) /\ ~adopted[a]

\* The proposals as they are now that they are locked: undecided, and as the user saw them.
Current(r) ==
    \A a \in tx[r].apps :
        /\ status[a] \in Allowed(tx[r].op)
        /\ tx[r].op # "withdraw" => version[a] = tx[r].seen[a]
        /\ tx[r].op \in {"withdraw", "publish", "resolve"} => ~adopted[a]

Recheck(r) ==
    /\ At(r, "lock")
    /\ Unlocked(r) = {}
    /\ Current(r)
    /\ tx' = [tx EXCEPT ![r].pc = CASE tx[r].op = "publish" -> "share"
                                    [] tx[r].op \in {"update", "resolve"} -> "target"
                                    [] OTHER -> "commit"]
    /\ UNCHANGED <<apps, lock, shared, open>>

\* Like resolve, without FOR SHARE.
ShareNothing(r) ==
    /\ At(r, "share")
    /\ tx' = [tx EXCEPT ![r].pc = "target"]
    /\ UNCHANGED <<apps, lock, shared, open>>

\* publish holds the topic and the parent stance FOR SHARE until its end.
ShareTarget(r) ==
    /\ At(r, "share")
    /\ shared' = shared \cup {r}
    /\ tx' = [tx EXCEPT ![r].pc = "target"]
    /\ UNCHANGED <<apps, lock, open>>

\* assertOpenTarget; edits and resolve read the target without a lock.
CheckTarget(r) ==
    /\ At(r, "target")
    /\ open
    /\ tx' = [tx EXCEPT ![r].pc = "commit"]
    /\ UNCHANGED <<apps, lock, shared, open>>

End(r) ==
    /\ lock' = [a \in Apps |-> IF lock[a] = r THEN NoReq ELSE lock[a]]
    /\ shared' = shared \ {r}
    /\ tx' = [tx EXCEPT ![r] = Idle]
    /\ UNCHANGED open

Touched(r) == version' = [a \in Apps |-> IF a \in tx[r].apps THEN version[a] + 1 ELSE version[a]]

\* The current revision of the proposals and the proposals get the status s.
Decide(r, s) ==
    /\ status' = [a \in Apps |-> IF a \in tx[r].apps THEN s ELSE status[a]]
    /\ revisions' = [a \in Apps |->
           IF a \in tx[r].apps THEN [revisions[a] EXCEPT ![Len(revisions[a])] = s] ELSE revisions[a]]

CommitSubmit(r) ==
    LET a == CHOOSE a \in tx[r].apps : TRUE IN
    /\ At(r, "commit") /\ tx[r].op = "submit"
    /\ status' = [status EXCEPT ![a] = "PENDING"]
    /\ revisions' = [revisions EXCEPT ![a] = <<"PENDING">>]
    /\ Touched(r)
    /\ UNCHANGED adopted
    /\ End(r)

\* Edit a pending proposal and its revision, or submit a rejected one as a new revision.
CommitUpdate(r) ==
    LET a == CHOOSE a \in tx[r].apps : TRUE IN
    /\ At(r, "commit") /\ tx[r].op = "update"
    /\ IF status[a] = "REJECTED"
       THEN /\ status' = [status EXCEPT ![a] = "PENDING"]
            /\ revisions' = [revisions EXCEPT ![a] = Append(@, "PENDING")]
       ELSE UNCHANGED <<status, revisions>>
    /\ Touched(r)
    /\ UNCHANGED adopted
    /\ End(r)

CommitWithdraw(r) ==
    /\ At(r, "commit") /\ tx[r].op = "withdraw"
    /\ Decide(r, "WITHDRAWN")
    /\ Touched(r)
    /\ UNCHANGED adopted
    /\ End(r)

CommitReview(r) ==
    /\ At(r, "commit") /\ tx[r].op = "review"
    /\ Decide(r, tx[r].next)
    /\ Touched(r)
    /\ UNCHANGED adopted
    /\ End(r)

\* publish and resolve: the stances, their results, the proposals.
CommitAdopt(r) ==
    /\ At(r, "commit") /\ tx[r].op \in {"publish", "resolve"}
    /\ Decide(r, "APPROVED")
    /\ adopted' = [a \in Apps |-> adopted[a] \/ a \in tx[r].apps]
    /\ Touched(r)
    /\ End(r)

Commit(r) ==
    CommitSubmit(r) \/ CommitUpdate(r) \/ CommitWithdraw(r) \/ CommitReview(r) \/ CommitAdopt(r)

\* A check fails.
Refuse(r) ==
    /\ \/ At(r, "lock") /\ Unlocked(r) = {} /\ ~Current(r)
       \/ At(r, "target") /\ ~open
    /\ End(r)
    /\ UNCHANGED apps

\* The process stops or the transaction times out.
Rollback(r) ==
    /\ ~At(r, "idle")
    /\ End(r)
    /\ UNCHANGED apps

-----------------------------------------------------------------------------
(* The topic and the stance.                                               *)

\* The topic is closed, or the stance taken down: their rows must not be shared by publish.
CloseTarget ==
    /\ open /\ shared = {}
    /\ open' = FALSE
    /\ UNCHANGED <<apps, lock, shared, tx>>

\* StancesService.restore
ReopenTarget ==
    /\ ~open /\ shared = {}
    /\ open' = TRUE
    /\ UNCHANGED <<apps, lock, shared, tx>>

Statement(r) ==
    LockApplication(r) \/ Recheck(r) \/ ShareTarget(r) \/ CheckTarget(r) \/ Commit(r) \/ Refuse(r)

Bounded == \A a \in Apps : version[a] < MaxVersions

Next ==
    \/ \E r \in Requests :
        \/ Statement(r) \/ Rollback(r)
        \/ /\ Bounded
           /\ \E op \in Ops, A \in SUBSET Apps :
                 \/ op # "review" /\ Arrive(r, op, A, "none")
                 \/ op = "review" /\ \E s \in {"IN_REVIEW", "REJECTED"} : Arrive(r, op, A, s)
    \/ CloseTarget \/ ReopenTarget

Spec == Init /\ [][Next]_vars

-----------------------------------------------------------------------------
Contract == INSTANCE ApplicationLifecycle

\* However requests interleave, every commit is one step of the life of a proposal.
ImplementsLifecycle == Contract!Init /\ [][Contract!vars' # Contract!vars => Contract!Next]_vars

\* An operation only changes the proposals its user has seen in their current version, or
\* withdraws them.
ChangesWhatWasSeen ==
    [][\A a \in Apps : version'[a] # version[a] =>
          \E r \in Requests : /\ tx[r].op # "none" /\ a \in tx[r].apps /\ tx'[r] = Idle
                              /\ tx[r].op # "withdraw" => tx[r].seen[a] = version[a]]_vars

\* publish only ever publishes while the topic is open and the stance it answers is active,
\* whenever they are closed, taken down or restored: it holds both from its check to its end.
\* (resolve does not hold them.)
PublishedOnOpenTarget ==
    [][adopted' # adopted => open \/ \A r \in Requests : tx[r].op = "publish" => tx'[r] # Idle]_vars

\* No two requests ever wait for each other's rows: there is no deadlock to break.
Waits(r, q) == q # r /\ At(r, "lock") /\ \E a \in NextToLock(r) : lock[a] = q
LocksInOrder ==
    \A D \in (SUBSET {r \in Requests : At(r, "lock")}) \ {{}} : \E r \in D : \A q \in D : ~Waits(r, q)
=============================================================================
