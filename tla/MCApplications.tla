---------------------------- MODULE MCApplications ----------------------------
(***************************************************************************)
(* Small instances of both kinds of proposals, which share no row: a       *)
(* behaviour is about one of them.  Requests are interchangeable.          *)
(***************************************************************************)
EXTENDS Naturals, Sequences, FiniteSets, TLC

CONSTANTS Apps, Requests, Editors, NoReq, Ops, DailyLimit, MaxChanges, MaxVersions, MaxLoad

\* Proposals have ids, by which they are locked.
ASSUME ProposalsAssumption == IsFiniteSet(Apps) /\ Apps \subseteq Nat /\ NoReq \notin Requests \cup Editors

VARIABLES
    scope,
    stanceStatus, stanceRevisions, stanceVersion, adopted, stanceLock, shared, open, stanceTx,
    status, revisions, version, results, lock, revLock, tx

stanceVars == <<stanceStatus, stanceRevisions, stanceVersion, adopted, stanceLock, shared, open, stanceTx>>
topicVars == <<status, revisions, version, results, lock, revLock, tx>>

Stances == INSTANCE StanceApplications
    WITH Requests <- Editors, MaxVersions <- MaxChanges, status <- stanceStatus, revisions <- stanceRevisions,
         version <- stanceVersion, lock <- stanceLock, tx <- stanceTx
Topics == INSTANCE TopicApplications WITH Ops <- {"update", "review", "adopt"}

\* Every commit, whatever overlaps, is a step of the life of a proposal (see each part).
ImplementsLifecycle == Stances!ImplementsLifecycle /\ Topics!ImplementsLifecycle
\* What is decided or edited is what was seen, and nothing is published below what is closed or taken
\* down (publish, updateMine).
DecisionsSeeTheState ==
    Stances!PublishedOnOpenTarget /\ Stances!ChangesWhatWasSeen /\ Topics!EditsSeeTheirVersion
\* Stance proposals are locked in one order; of topic proposals only reviews take part in deadlocks.
DeadlocksInvolveReview == Stances!LocksInOrder /\ Topics!DeadlocksInvolveReview

ProposalsInit == scope \in {"stances", "topics"} /\ Stances!Init /\ Topics!Init
ProposalsNext ==
    \/ scope = "stances" /\ Stances!Next /\ UNCHANGED <<scope, topicVars>>
    \/ scope = "topics" /\ Topics!Next /\ UNCHANGED <<scope, stanceVars>>
ProposalsSpec == ProposalsInit /\ [][ProposalsNext]_<<scope, stanceVars, topicVars>>

Symmetry == Permutations(Requests) \cup Permutations(Editors)
=============================================================================
