------------------------ MODULE ApplicationLifecycle ------------------------
(***************************************************************************)
(* What the review of proposals promises to those who submit them, one     *)
(* atomic step per operation: a proposal is edited while it is pending,    *)
(* decided once per revision, submitted again as a new revision after a    *)
(* rejection, and adopted at most once.  StanceApplications implements it; *)
(* TopicApplications does as long as reviews do not overlap.               *)
(***************************************************************************)
EXTENDS Naturals, Sequences

CONSTANT Apps      \* proposals

VARIABLES
    status,        \* proposal -> its status, "NONE" before it is submitted
    revisions,     \* proposal -> the statuses of its revisions, the last is the current one
    adopted        \* proposal -> whether something was published for it

vars == <<status, revisions, adopted>>

Undecided == {"PENDING", "IN_REVIEW"}

\* A decision that marks every revision of the proposal, and one that forgets the revision.
DecideEveryRevision(A, s) ==
    /\ status' = [a \in Apps |-> IF a \in A THEN s ELSE status[a]]
    /\ revisions' = [a \in Apps |-> IF a \in A THEN [n \in DOMAIN revisions[a] |-> s] ELSE revisions[a]]
Decide(A, s) ==
    /\ status' = [a \in Apps |-> IF a \in A THEN s ELSE status[a]]
    /\ revisions' = [a \in Apps |-> IF a \in A THEN [revisions[a] EXCEPT ![Len(revisions[a])] = s]
                                               ELSE revisions[a]]

Init ==
    /\ status = [a \in Apps |-> "NONE"]
    /\ revisions = [a \in Apps |-> <<>>]
    /\ adopted = [a \in Apps |-> FALSE]

Submit(a) ==
    /\ status[a] = "NONE"
    /\ status' = [status EXCEPT ![a] = "PENDING"]
    /\ revisions' = [revisions EXCEPT ![a] = <<"PENDING">>]
    /\ UNCHANGED adopted

Resubmit(a) ==
    /\ status[a] = "REJECTED"
    /\ status' = [status EXCEPT ![a] = "PENDING"]
    /\ revisions' = [revisions EXCEPT ![a] = Append(@, "PENDING")]
    /\ UNCHANGED adopted

Review(a, s) ==
    /\ status[a] \in Undecided
    /\ Decide({a}, s)
    /\ UNCHANGED adopted

\* Without the check that nothing was published for it.
WithdrawAny(a) ==
    /\ status[a] # "NONE"
    /\ Decide({a}, "WITHDRAWN")
    /\ UNCHANGED adopted

Withdraw(a) ==
    /\ status[a] \in Undecided \cup {"REJECTED"}
    /\ Decide({a}, "WITHDRAWN")
    /\ UNCHANGED adopted

\* One or several proposals become a topic or a stance.
Adopt(A) ==
    /\ \A a \in A : status[a] \in Undecided
    /\ Decide(A, "APPROVED")
    /\ adopted' = [a \in Apps |-> adopted[a] \/ a \in A]

Next ==
    \/ \E a \in Apps : Submit(a) \/ Resubmit(a) \/ Withdraw(a) \/ Review(a, "IN_REVIEW") \/ Review(a, "REJECTED")
    \/ \E A \in SUBSET Apps : Adopt(A)

Spec == Init /\ [][Next]_vars

-----------------------------------------------------------------------------
TypeOK ==
    /\ status \in [Apps -> {"NONE", "PENDING", "IN_REVIEW", "REJECTED", "APPROVED", "WITHDRAWN"}]
    /\ revisions \in [Apps -> Seq({"PENDING", "IN_REVIEW", "REJECTED", "APPROVED", "WITHDRAWN"})]
    /\ adopted \in [Apps -> BOOLEAN]

\* The status of a proposal is that of its current revision.
StatusOfRevision ==
    \A a \in Apps : status[a] # "NONE" =>
        revisions[a] # <<>> /\ status[a] = revisions[a][Len(revisions[a])]

\* Exactly the approved proposals have something published for them.
AdoptedIsApproved == \A a \in Apps : adopted[a] <=> status[a] = "APPROVED"

\* Approved and withdrawn proposals never change; a rejected revision is never edited.
DecisionsAreFinal ==
    [][\A a \in Apps :
        /\ status[a] \in {"APPROVED", "WITHDRAWN"} => status'[a] = status[a]
        /\ \A n \in 1..Len(revisions[a]) :
               n < Len(revisions[a]) => revisions'[a][n] = revisions[a][n]]_vars
=============================================================================
