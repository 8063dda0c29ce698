---------------------------- MODULE StanceSignals ----------------------------
(***************************************************************************)
(* The agreement and disagreement of users with one stance                 *)
(* (StancesService.toggleSignal): a SERIALIZABLE transaction reads the     *)
(* user's signal, deletes or inserts it, counts all signals of the stance  *)
(* and writes the counts on the stance; a conflict restarts it, a few      *)
(* times at most.  Meanwhile moderators take the stance down and restore   *)
(* it, and its creator may delete it.                                      *)
(***************************************************************************)
EXTENDS Naturals, FiniteSets

CONSTANTS
    Users,
    Requests,      \* toggles in progress at once
    NoReq,
    Remover,       \* the request that deletes the stance
    MaxAttempts    \* times a toggle is tried (3)

ASSUME SignalsAssumption ==
    IsFiniteSet(Users) /\ Users # {} /\ NoReq \notin Requests \cup {Remover} /\ Remover \notin Requests /\ MaxAttempts \in Nat \ {0}

VARIABLES
    status,        \* topic_stances.status, "DELETED" when there is no row
    signals,       \* user -> rows of topic_stance_signals
    counts,        \* agreement_count and disagreement_count
    holder,        \* who has locked the stance row to change it
    pc,            \* request -> its next statement
    job,           \* request -> the user and the signal it toggles
    attempt,       \* request -> tries made before this one
    snap,          \* request -> the signals its transaction reads
    fresh          \* requests whose snapshot shows the latest stance row

stance == <<status, signals, counts>>
vars == <<stance, holder, pc, job, attempt, snap, fresh>>

Signals == {"AGREE", "DISAGREE"}
Nobody == [u \in Users |-> {}]
Count(sigs) == [s \in Signals |-> Cardinality({u \in Users : s \in sigs[u]})]
NoJob == [user |-> CHOOSE u \in Users : TRUE, signal |-> "AGREE"]

Init ==
    /\ status = "ACTIVE"
    /\ signals = Nobody
    /\ counts = Count(Nobody)
    /\ holder = NoReq
    /\ pc = [r \in Requests |-> "idle"]
    /\ job = [r \in Requests |-> NoJob]
    /\ attempt = [r \in Requests |-> 0]
    /\ snap = [r \in Requests |-> Nobody]
    /\ fresh = {}

-----------------------------------------------------------------------------
(* The rows a transaction touches.                                         *)

Own(r) == snap[r][job[r].user]      \* the user's signals as the transaction sees them

Deletes(r) == job[r].signal \in Own(r)

\* Delete the signal if it is there; else delete the opposite one and create it.
Toggled(own, s) == IF s \in own THEN own \ {s} ELSE {s}

\* The rows it deletes or inserts.
Touched(r) == {job[r].signal} \cup (IF Deletes(r) THEN {} ELSE Own(r))

InTransaction(r) == pc[r] \in {"write", "update", "commit"}
Writing(r) == pc[r] \in {"update", "commit"}

\* Another transaction has written one of these rows and is not finished: wait for it.
RowsBusy(r) == \E q \in Requests \ {r} :
    Writing(q) /\ job[q].user = job[r].user /\ Touched(q) \cap Touched(r) # {}

\* The rows are as the snapshot shows them.
RowsValid(r) == signals[job[r].user] \cap Touched(r) = Own(r) \cap Touched(r)

\* READ COMMITTED: a change of the stance since the snapshot is no conflict.
StanceAlwaysValid(r) == pc[r] = "update"

\* First updater wins: the stance row is as the snapshot shows it.
StanceValid(r) == r \in fresh

\* The loop variable is not advanced.
SameAttempt(a) == a

NextAttempt(a) == a + 1

TriesLeft(r) == NextAttempt(attempt[r]) < MaxAttempts

Finish(r) ==
    /\ pc' = [pc EXCEPT ![r] = "idle"]
    /\ job' = [job EXCEPT ![r] = NoJob]
    /\ attempt' = [attempt EXCEPT ![r] = 0]
    /\ snap' = [snap EXCEPT ![r] = Nobody]

-----------------------------------------------------------------------------
(* A toggle.                                                               *)

\* The stance is active and its topic open: checked once, before the first try.
Arrive(r, u, s) ==
    /\ pc[r] = "idle"
    /\ status = "ACTIVE"
    /\ pc' = [pc EXCEPT ![r] = "find"]
    /\ job' = [job EXCEPT ![r] = [user |-> u, signal |-> s]]
    /\ UNCHANGED <<stance, holder, attempt, snap, fresh>>

\* The first statement takes the snapshot.
Find(r) ==
    /\ pc[r] = "find"
    /\ snap' = [snap EXCEPT ![r] = signals]
    /\ fresh' = fresh \cup {r}
    /\ pc' = [pc EXCEPT ![r] = "write"]
    /\ UNCHANGED <<stance, holder, job, attempt>>

\* The row is deleted, or the opposite one deleted and the row inserted; an insert locks the
\* stance it refers to FOR KEY SHARE.
WriteSignal(r) ==
    /\ pc[r] = "write"
    /\ ~RowsBusy(r)
    /\ RowsValid(r)
    /\ Deletes(r) \/ (status # "DELETED" /\ holder # Remover)
    /\ pc' = [pc EXCEPT ![r] = "update"]
    /\ UNCHANGED <<stance, holder, job, attempt, snap, fresh>>

\* Both counts come from the snapshot and its own changes; the update locks the stance row.
UpdateStance(r) ==
    /\ pc[r] = "update"
    /\ holder = NoReq
    /\ StanceValid(r)
    /\ holder' = r
    /\ pc' = [pc EXCEPT ![r] = "commit"]
    /\ UNCHANGED <<stance, job, attempt, snap, fresh>>

Commit(r) ==
    /\ pc[r] = "commit"
    /\ signals' = [signals EXCEPT ![job[r].user] =
                      (@ \ Touched(r)) \cup (Toggled(Own(r), job[r].signal) \cap Touched(r))]
    /\ counts' = Count([snap[r] EXCEPT ![job[r].user] = Toggled(@, job[r].signal)])
    /\ holder' = NoReq
    /\ fresh' = {}
    /\ Finish(r)
    /\ UNCHANGED status

\* P2002 or P2034: the rows or the stance changed since the snapshot, the transaction is the
\* victim of a deadlock with the deletion, or of the server's guard against anomalies between
\* transactions that overlap.
Conflict(r) ==
    \/ pc[r] = "write" /\ ~RowsBusy(r) /\ ~RowsValid(r)
    \/ pc[r] = "update" /\ holder = NoReq /\ ~StanceValid(r)
    \/ pc[r] = "update" /\ holder = Remover
    \/ InTransaction(r) /\ \E q \in Requests \ {r} : InTransaction(q)

Released(r) == holder' = IF holder = r THEN NoReq ELSE holder

Retry(r) ==
    /\ Conflict(r)
    /\ TriesLeft(r)
    /\ Released(r)
    /\ pc' = [pc EXCEPT ![r] = "find"]
    /\ attempt' = [attempt EXCEPT ![r] = NextAttempt(@)]
    /\ snap' = [snap EXCEPT ![r] = Nobody]
    /\ fresh' = fresh \ {r}
    /\ UNCHANGED <<stance, job>>

GiveUp(r) ==
    /\ Conflict(r)
    /\ ~TriesLeft(r)
    /\ Released(r)
    /\ fresh' = fresh \ {r}
    /\ Finish(r)
    /\ UNCHANGED stance

\* The stance is gone: an insert violates the foreign key, which is not retried.
Gone(r) ==
    /\ pc[r] = "write"
    /\ status = "DELETED" /\ RowsValid(r) /\ ~Deletes(r)
    /\ fresh' = fresh \ {r}
    /\ Finish(r)
    /\ UNCHANGED <<stance, holder>>

-----------------------------------------------------------------------------
(* The stance.  Its updates wait for a transaction that has written it.    *)

Moderate(s) ==
    /\ status # "DELETED"
    /\ holder = NoReq
    /\ status' = s
    /\ fresh' = {}
    /\ UNCHANGED <<signals, counts, holder, pc, job, attempt, snap>>

Takedown == Moderate("TAKEN_DOWN")
Restore == Moderate("ACTIVE")

\* DELETE locks the row, once nobody holds it and no insert refers to it ...
LockToRemove ==
    /\ status # "DELETED"
    /\ holder = NoReq
    /\ \A r \in Requests : Writing(r) => Deletes(r)
    /\ holder' = Remover
    /\ UNCHANGED <<stance, pc, job, attempt, snap, fresh>>

\* ... and then deletes the signals, once nobody else is deleting one of them.
Remove ==
    /\ holder = Remover
    /\ \A r \in Requests : ~Writing(r)
    /\ status' = "DELETED"
    /\ signals' = Nobody
    /\ counts' = Count(Nobody)
    /\ holder' = NoReq
    /\ fresh' = {}
    /\ UNCHANGED <<pc, job, attempt, snap>>

\* Deadlock with a toggle that has deleted its signal and waits for the stance.
RemoveFails ==
    /\ holder = Remover
    /\ \E r \in Requests : pc[r] = "update"
    /\ holder' = NoReq
    /\ UNCHANGED <<stance, pc, job, attempt, snap, fresh>>

Toggle(r) == Find(r) \/ WriteSignal(r) \/ UpdateStance(r) \/ Commit(r) \/ Retry(r) \/ GiveUp(r) \/ Gone(r)

Next ==
    \/ \E r \in Requests : Toggle(r) \/ \E u \in Users, s \in Signals : Arrive(r, u, s)
    \/ Takedown \/ Restore \/ LockToRemove \/ Remove \/ RemoveFails

Spec == Init /\ [][Next]_vars

\* The database goes on with every transaction it has begun, and a transaction that waits for
\* a row gets its turn: the queue of a row is first come, first served.
LiveSpec ==
    /\ Spec
    /\ \A r \in Requests : SF_vars(Toggle(r))
    /\ WF_vars(Remove \/ RemoveFails)

-----------------------------------------------------------------------------
(* Properties.                                                             *)

TypeOK ==
    /\ status \in {"ACTIVE", "TAKEN_DOWN", "DELETED"}
    /\ signals \in [Users -> SUBSET Signals]
    /\ counts \in [Signals -> Nat]
    /\ holder \in Requests \cup {NoReq, Remover}
    /\ pc \in [Requests -> {"idle", "find", "write", "update", "commit"}]
    /\ job \in [Requests -> [user : Users, signal : Signals]]
    /\ attempt \in [Requests -> 0..(MaxAttempts - 1)]
    /\ snap \in [Requests -> [Users -> SUBSET Signals]]
    /\ fresh \in SUBSET Requests

\* Nobody agrees and disagrees with a stance at once: switching sides in two requests that
\* overlap never leaves both rows (toggleSignal deletes the opposite row it can see).
OneOpinion == \A u \in Users : ~ Signals \subseteq signals[u]

\* The counts shown with a stance are the numbers of its signals, after any interleaving of
\* toggles, although each request writes absolute numbers it has counted itself.
CountsAreSignals == counts = Count(signals)

\* A toggle that succeeds toggles: it changes the signal its user has at the moment of the
\* commit, not the one they had when the request was read.
CommitToggles ==
    [][\A r \in Requests : Commit(r) =>
           signals' = [signals EXCEPT ![job[r].user] = Toggled(@, job[r].signal)]]_vars

=============================================================================
