------------------------- MODULE ApplicationsProofs -------------------------
(***************************************************************************)
(* What the life of a proposal guarantees (ApplicationLifecycle), for any  *)
(* set of proposals and any number of revisions; and the requests that     *)
(* submit, edit and decide proposals, for any number of them: each commit  *)
(* is a step of that life.                                                 *)
(***************************************************************************)
EXTENDS MCApplications, FiniteSetTheorems, SequenceTheorems, WellFoundedInduction, TLAPS

USE ProposalsAssumption

-----------------------------------------------------------------------------
(* The contract, of the variables of its own names.                        *)

Life == INSTANCE ApplicationLifecycle

Statuses == {"PENDING", "IN_REVIEW", "REJECTED", "APPROVED", "WITHDRAWN"}

NothingBeforeSubmission == \A a \in Apps : status[a] = "NONE" => revisions[a] = <<>>

\* The last revision tells the status, there is none before the first submission, and only
\* approved proposals have been adopted.
Consistent == Life!TypeOK /\ Life!StatusOfRevision /\ NothingBeforeSubmission /\ Life!AdoptedIsApproved

\* Earlier revisions and final decisions survive a step.
Preserved ==
    \A a \in Apps :
        /\ status[a] \in {"APPROVED", "WITHDRAWN"} => status'[a] = status[a]
        /\ \A n \in 1..Len(revisions[a]) :
               n < Len(revisions[a]) => revisions'[a][n] = revisions[a][n]

LEMMA InitConsistent == Life!Init => Consistent
BY DEF Life!Init, Consistent, Life!TypeOK, Life!StatusOfRevision, NothingBeforeSubmission, Life!AdoptedIsApproved

\* Deciding sets the status and the last revision together and changes nothing else.
LEMMA DecideLastRevision ==
    ASSUME Consistent, NEW A \in SUBSET Apps, NEW s \in Statuses, Life!Decide(A, s),
           \A a \in A : status[a] \in Life!Undecided \cup {"REJECTED"}
    PROVE  /\ status' \in [Apps -> Statuses \cup {"NONE"}]
           /\ revisions' \in [Apps -> Seq(Statuses)]
           /\ Life!StatusOfRevision' /\ NothingBeforeSubmission'
           /\ Preserved
           /\ \A a \in Apps : status'[a] = IF a \in A THEN s ELSE status[a]
<1>1. status' \in [Apps -> Statuses \cup {"NONE"}] /\ \A a \in Apps : status'[a] = IF a \in A THEN s ELSE status[a]
  BY DEF Life!Decide, Consistent, Life!TypeOK, Statuses
<1>2. ASSUME NEW a \in Apps
      PROVE  /\ revisions'[a] \in Seq(Statuses)
             /\ status'[a] # "NONE" => revisions'[a] # <<>> /\ status'[a] = revisions'[a][Len(revisions'[a])]
             /\ status'[a] = "NONE" => revisions'[a] = <<>>
             /\ status[a] \in {"APPROVED", "WITHDRAWN"} => status'[a] = status[a]
             /\ \A n \in 1..Len(revisions[a]) :
                    n < Len(revisions[a]) => revisions'[a][n] = revisions[a][n]
  <2>1. revisions[a] \in Seq(Statuses)
    BY DEF Consistent, Life!TypeOK, Statuses
  <2>2. CASE a \in A
    <3>1. revisions[a] # <<>> /\ status[a] \in Life!Undecided \cup {"REJECTED"}
      BY <2>2 DEF Consistent, Life!StatusOfRevision, Life!Undecided
    <3>2. revisions'[a] = [revisions[a] EXCEPT ![Len(revisions[a])] = s] /\ status'[a] = s
      BY <2>2, <1>1 DEF Life!Decide
    <3>3. Len(revisions[a]) \in 1..Len(revisions[a])
      BY <2>1, <3>1
    <3>4. /\ revisions'[a] \in Seq(Statuses) /\ Len(revisions'[a]) = Len(revisions[a])
          /\ revisions'[a][Len(revisions[a])] = s
          /\ \A n \in 1..Len(revisions[a]) :
                 n < Len(revisions[a]) => revisions'[a][n] = revisions[a][n]
      BY <2>1, <3>2, <3>3
    <3> QED BY <3>1, <3>2, <3>3, <3>4 DEF Life!Undecided, Statuses
  <2>3. CASE a \notin A
    <3>1. revisions'[a] = revisions[a] /\ status'[a] = status[a]
      BY <2>3, <1>1 DEF Life!Decide
    <3> QED BY <2>1, <3>1 DEF Consistent, Life!StatusOfRevision, NothingBeforeSubmission
  <2> QED BY <2>2, <2>3
<1>3. revisions' \in [Apps -> Seq(Statuses)]
  BY <1>2 DEF Life!Decide
<1> QED BY <1>1, <1>2, <1>3 DEF Life!StatusOfRevision, NothingBeforeSubmission, Preserved

\* A new revision is appended and is pending.
LEMMA PendingRevision ==
    ASSUME Consistent, NEW a \in Apps, status[a] \in {"NONE", "REJECTED"}, UNCHANGED adopted,
           status' = [status EXCEPT ![a] = "PENDING"],
           \/ revisions' = [revisions EXCEPT ![a] = Append(@, "PENDING")]
           \/ status[a] = "NONE" /\ revisions' = [revisions EXCEPT ![a] = <<"PENDING">>]
    PROVE  Consistent' /\ Preserved
<1>1. /\ status' \in [Apps -> Statuses \cup {"NONE"}]
      /\ status'[a] = "PENDING"
      /\ \A b \in Apps \ {a} : status'[b] = status[b] /\ revisions'[b] = revisions[b]
  BY DEF Consistent, Life!TypeOK, Statuses
<1>2. revisions[a] \in Seq(Statuses)
  BY DEF Consistent, Life!TypeOK, Statuses
<1>3. /\ revisions'[a] \in Seq(Statuses) /\ revisions'[a] # <<>>
      /\ revisions'[a][Len(revisions'[a])] = "PENDING"
      /\ \A n \in 1..Len(revisions[a]) : revisions'[a][n] = revisions[a][n]
  <2>1. CASE revisions' = [revisions EXCEPT ![a] = Append(@, "PENDING")]
    <3>1. revisions'[a] = Append(revisions[a], "PENDING")
      BY <2>1 DEF Consistent, Life!TypeOK
    <3>2. /\ Append(revisions[a], "PENDING") \in Seq(Statuses)
          /\ Len(Append(revisions[a], "PENDING")) = Len(revisions[a]) + 1
      BY <1>2 DEF Statuses
    <3>3. \A n \in 1..Len(revisions[a]) : Append(revisions[a], "PENDING")[n] = revisions[a][n]
      BY <1>2
    <3>4. /\ Append(revisions[a], "PENDING")[Len(revisions[a]) + 1] = "PENDING"
          /\ Append(revisions[a], "PENDING") # <<>>
      <4>1. Append(revisions[a], "PENDING")[Len(revisions[a]) + 1] = "PENDING"
        BY <1>2
      <4>2. Len(revisions[a]) + 1 # 0
        BY <1>2
      <4> QED BY <3>2, <4>1, <4>2
    <3> QED BY <3>1, <3>2, <3>3, <3>4
  <2>2. CASE status[a] = "NONE" /\ revisions' = [revisions EXCEPT ![a] = <<"PENDING">>]
    <3>1. revisions'[a] = <<"PENDING">>
      BY <2>2 DEF Consistent, Life!TypeOK
    <3>2. revisions[a] = <<>> /\ Len(revisions[a]) = 0
      BY <2>2 DEF Consistent, NothingBeforeSubmission
    <3>3. <<"PENDING">> \in Seq(Statuses) /\ Len(<<"PENDING">>) = 1
      BY DEF Statuses
    <3> QED BY <3>1, <3>2, <3>3
  <2> QED BY <2>1, <2>2
<1>4. revisions' \in [Apps -> Seq(Statuses)]
  BY <1>1, <1>3 DEF Consistent, Life!TypeOK, Statuses
<1>5. Life!StatusOfRevision' /\ NothingBeforeSubmission'
  BY <1>1, <1>3 DEF Consistent, Life!StatusOfRevision, NothingBeforeSubmission
<1>6. Life!AdoptedIsApproved'
  BY <1>1 DEF Consistent, Life!AdoptedIsApproved
<1>7. Preserved
  BY <1>1, <1>2, <1>3 DEF Preserved
<1>8. Life!TypeOK'
  BY <1>1, <1>4 DEF Consistent, Life!TypeOK, Statuses
<1> QED BY <1>5, <1>6, <1>7, <1>8 DEF Consistent

LEMMA DecisionKeepsConsistent ==
    ASSUME Consistent, NEW a \in Apps, NEW s \in {"IN_REVIEW", "REJECTED", "WITHDRAWN"},
           status[a] \in Life!Undecided \cup {"REJECTED"}, Life!Decide({a}, s), UNCHANGED adopted
    PROVE  Consistent' /\ Preserved
<1>1. /\ status' \in [Apps -> Statuses \cup {"NONE"}] /\ revisions' \in [Apps -> Seq(Statuses)]
      /\ Life!StatusOfRevision' /\ NothingBeforeSubmission' /\ Preserved
      /\ \A b \in Apps : status'[b] = IF b \in {a} THEN s ELSE status[b]
  BY DecideLastRevision DEF Statuses
<1>2. Life!AdoptedIsApproved'
  BY <1>1 DEF Consistent, Life!AdoptedIsApproved, Life!Undecided
<1> QED BY <1>1, <1>2 DEF Consistent, Life!TypeOK, Statuses

LEMMA AdoptKeepsConsistent ==
    ASSUME Consistent, NEW A \in SUBSET Apps, Life!Adopt(A)
    PROVE  Consistent' /\ Preserved
<1>1. /\ status' \in [Apps -> Statuses \cup {"NONE"}] /\ revisions' \in [Apps -> Seq(Statuses)]
      /\ Life!StatusOfRevision' /\ NothingBeforeSubmission' /\ Preserved
      /\ \A b \in Apps : status'[b] = IF b \in A THEN "APPROVED" ELSE status[b]
  BY DecideLastRevision DEF Life!Adopt, Statuses
<1>2. adopted' = [b \in Apps |-> adopted[b] \/ b \in A]
  BY DEF Life!Adopt
<1>3. adopted' \in [Apps -> BOOLEAN]
  BY <1>2, Zenon DEF Consistent, Life!TypeOK
<1>4. ASSUME NEW b \in Apps PROVE adopted'[b] <=> status'[b] = "APPROVED"
  <2>1. adopted'[b] <=> (adopted[b] \/ b \in A)
    BY <1>2, Zenon
  <2>2. adopted[b] <=> status[b] = "APPROVED"
    BY DEF Consistent, Life!AdoptedIsApproved
  <2>3. CASE b \in A
    BY <2>1, <2>3, <1>1
  <2>4. CASE b \notin A
    BY <2>1, <2>2, <2>4, <1>1
  <2> QED BY <2>3, <2>4
<1> QED BY <1>1, <1>3, <1>4 DEF Consistent, Life!TypeOK, Statuses, Life!AdoptedIsApproved

LEMMA StepConsistent == Consistent /\ [Life!Next]_(Life!vars) => Consistent' /\ (Preserved \/ UNCHANGED Life!vars)
<1> SUFFICES ASSUME Consistent, [Life!Next]_(Life!vars) PROVE Consistent' /\ (Preserved \/ UNCHANGED Life!vars)
  OBVIOUS
<1>1. ASSUME NEW a \in Apps, Life!Submit(a) PROVE Consistent' /\ Preserved
  BY <1>1, PendingRevision DEF Life!Submit
<1>2. ASSUME NEW a \in Apps, Life!Resubmit(a) PROVE Consistent' /\ Preserved
  BY <1>2, PendingRevision DEF Life!Resubmit
<1>3. ASSUME NEW a \in Apps, NEW s \in {"IN_REVIEW", "REJECTED"}, Life!Review(a, s) PROVE Consistent' /\ Preserved
  BY <1>3, DecisionKeepsConsistent DEF Life!Review
<1>4. ASSUME NEW a \in Apps, Life!Withdraw(a) PROVE Consistent' /\ Preserved
  BY <1>4, DecisionKeepsConsistent DEF Life!Withdraw
<1>5. ASSUME NEW A \in SUBSET Apps, Life!Adopt(A) PROVE Consistent' /\ Preserved
  BY <1>5, AdoptKeepsConsistent
<1>6. CASE UNCHANGED Life!vars
  BY <1>6 DEF Life!vars, Consistent, Life!TypeOK, Life!StatusOfRevision, NothingBeforeSubmission, Life!AdoptedIsApproved
<1> QED BY <1>1, <1>2, <1>3, <1>4, <1>5, <1>6 DEF Life!Next

\* The status of a proposal is that of its current revision, however often it is submitted again.
THEOREM StatusFollowsRevision == Life!Spec => []Life!StatusOfRevision
<1>1. Consistent => Life!StatusOfRevision
  BY DEF Consistent
<1>2. Consistent /\ [Life!Next]_(Life!vars) => Consistent'
  BY StepConsistent
<1> QED BY <1>1, <1>2, InitConsistent, PTL DEF Life!Spec

\* Exactly the approved proposals have become a topic or a stance.
THEOREM AdoptedMeansApproved == Life!Spec => []Life!AdoptedIsApproved
<1>1. Consistent => Life!AdoptedIsApproved
  BY DEF Consistent
<1>2. Consistent /\ [Life!Next]_(Life!vars) => Consistent'
  BY StepConsistent
<1> QED BY <1>1, <1>2, InitConsistent, PTL DEF Life!Spec

\* No step takes back an approval or a withdrawal, or rewrites an earlier revision.
THEOREM DecisionsStayFinal == Life!Spec => Life!DecisionsAreFinal
<1>1. Consistent /\ [Life!Next]_(Life!vars) => Consistent' /\ [Preserved]_(Life!vars)
  BY StepConsistent
<1>2. Life!Spec => [][Preserved]_(Life!vars)
  BY <1>1, InitConsistent, PTL DEF Life!Spec
<1> QED BY <1>2 DEF Life!DecisionsAreFinal, Preserved

-----------------------------------------------------------------------------
(* Proposals of stances: what each request knows.                          *)

StanceStatuses == Statuses \cup {"NONE"}
Seen == UNION {[A -> Nat] : A \in SUBSET Apps}
Outcomes == {"none", "IN_REVIEW", "REJECTED"}
StanceTx == [op : Ops \cup {"none"}, pc : {"idle", "lock", "share", "target", "commit"},
             apps : SUBSET Apps, seen : Seen, next : Outcomes]

StanceTypes ==
    /\ stanceStatus \in [Apps -> StanceStatuses]
    /\ stanceRevisions \in [Apps -> Seq(Statuses)]
    /\ stanceVersion \in [Apps -> Nat]
    /\ adopted \in [Apps -> BOOLEAN]
    /\ stanceLock \in [Apps -> Editors \cup {NoReq}]
    /\ shared \in SUBSET Editors
    /\ stanceTx \in [Editors -> StanceTx]

\* A transaction that has locked its proposals and read them again: they stay as it read them.
Checked(r) == stanceTx[r].op # "submit" /\ stanceTx[r].pc \in {"share", "target", "commit"}

RequestIsSound(r) ==
    /\ stanceTx[r].pc = "idle" => stanceTx[r] = Stances!Idle
    /\ stanceTx[r].op = "submit" =>
          /\ stanceTx[r].pc = "commit"
          /\ \E a \in Apps : /\ stanceTx[r].apps = {a} /\ stanceStatus[a] = "NONE"
                             /\ stanceTx[r].seen[a] = stanceVersion[a]
    /\ stanceTx[r].op # "resolve" /\ stanceTx[r].pc # "idle" => \E a \in Apps : stanceTx[r].apps = {a}
    /\ stanceTx[r].op = "review" => stanceTx[r].next \in {"IN_REVIEW", "REJECTED"}
    /\ Checked(r) => Stances!Current(r) /\ \A a \in stanceTx[r].apps : stanceLock[a] = r
    /\ stanceTx[r].op = "publish" =>
          /\ stanceTx[r].pc \in {"target", "commit"} => r \in shared
          /\ stanceTx[r].pc = "commit" => open

\* The locks a request holds are those of its first proposals in the order of their ids.
LocksAreSound ==
    /\ \A a \in Apps, r \in Editors : stanceLock[a] = r => a \in stanceTx[r].apps
    /\ \A r \in Editors : \A a, b \in stanceTx[r].apps :
          stanceLock[a] = r /\ stanceLock[b] # r => a < b

\* Of one proposal only one submission is under way.
OneSubmission ==
    \A r, q \in Editors :
        stanceTx[r].op = "submit" /\ stanceTx[q].op = "submit" /\ stanceTx[r].apps = stanceTx[q].apps => r = q

StancesAreSound == StanceTypes /\ LocksAreSound /\ OneSubmission /\ \A r \in Editors : RequestIsSound(r)

-----------------------------------------------------------------------------
LEMMA IdleStance == Stances!Idle \in StanceTx
<1>1. [a \in {} |-> 0] \in Seen
  <2>1. {} \in SUBSET Apps
    OBVIOUS
  <2>2. [a \in {} |-> 0] \in [{} -> Nat]
    OBVIOUS
  <2> QED BY <2>1, <2>2, Zenon DEF Seen
<1> QED BY <1>1 DEF Stances!Idle, StanceTx, Outcomes

LEMMA AllowedIsSubmitted ==
    ASSUME NEW op, op # "submit"
    PROVE  "NONE" \notin Stances!Allowed(op)
<1>1. CASE op = "update"
  BY <1>1 DEF Stances!Allowed
<1>2. CASE op = "withdraw"
  BY <1>2 DEF Stances!Allowed, Stances!Undecided
<1>3. CASE op # "update" /\ op # "withdraw"
  BY <1>3 DEF Stances!Allowed, Stances!Undecided
<1> QED BY <1>1, <1>2, <1>3

LEMMA StancesInit == Stances!Init => StancesAreSound
<1> SUFFICES ASSUME Stances!Init PROVE StancesAreSound
  OBVIOUS
<1>1. \A r \in Editors : stanceTx[r] = Stances!Idle
  BY DEF Stances!Init
<1>2. StanceTypes
  BY IdleStance DEF Stances!Init, StanceTypes, StanceStatuses
<1>3. LocksAreSound /\ OneSubmission
  BY <1>1 DEF Stances!Init, LocksAreSound, OneSubmission, Stances!Idle
<1>4. \A r \in Editors : RequestIsSound(r)
  BY <1>1 DEF RequestIsSound, Checked, Stances!Idle
<1> QED BY <1>2, <1>3, <1>4 DEF StancesAreSound

\* A step of one request before its commit: what the others know stays true.
LEMMA OwnStanceStep ==
    ASSUME StancesAreSound, NEW r \in Editors, NEW row \in StanceTx,
           stanceTx' = [stanceTx EXCEPT ![r] = row],
           UNCHANGED <<stanceStatus, stanceRevisions, stanceVersion, adopted, stanceLock, open>>,
           shared' \in SUBSET Editors, shared \subseteq shared',
           row.apps = stanceTx[r].apps \/ stanceTx[r] = Stances!Idle,
           OneSubmission', RequestIsSound(r)'
    PROVE  StancesAreSound'
<1>1. stanceTx'[r] = row /\ \A q \in Editors \ {r} : stanceTx'[q] = stanceTx[q]
  BY DEF StancesAreSound, StanceTypes
<1>2. StanceTypes'
  BY DEF StancesAreSound, StanceTypes
<1>3. LocksAreSound'
  <2>1. \A q \in Editors : \/ stanceTx'[q].apps = stanceTx[q].apps
                           \/ \A a \in Apps : stanceLock[a] # q
    BY <1>1 DEF StancesAreSound, LocksAreSound, Stances!Idle
  <2>2. \A q \in Editors : stanceTx'[q].apps \in SUBSET Apps
    BY <1>2 DEF StanceTypes, StanceTx
  <2>3. \A a \in Apps, q \in Editors : stanceLock'[a] = q => a \in stanceTx'[q].apps
    BY <2>1 DEF StancesAreSound, LocksAreSound
  <2>4. ASSUME NEW q \in Editors, NEW a \in stanceTx'[q].apps, NEW b \in stanceTx'[q].apps,
               stanceLock'[a] = q, stanceLock'[b] # q
        PROVE  a < b
    BY <2>1, <2>2, <2>4 DEF StancesAreSound, LocksAreSound
  <2> QED BY <2>3, <2>4 DEF LocksAreSound
<1>4. ASSUME NEW q \in Editors, q # r PROVE RequestIsSound(q)'
  BY <1>1, <1>4 DEF StancesAreSound, RequestIsSound, Checked, Stances!Current
<1> QED BY <1>2, <1>3, <1>4 DEF StancesAreSound

\* The end of a request, which has changed at most the proposals it has locked or submits.
LEMMA StanceEnds ==
    ASSUME StancesAreSound, NEW r \in Editors, Stances!End(r),
           stanceStatus' \in [Apps -> StanceStatuses], stanceRevisions' \in [Apps -> Seq(Statuses)],
           stanceVersion' \in [Apps -> Nat], adopted' \in [Apps -> BOOLEAN],
           \A a \in Apps : a \notin stanceTx[r].apps =>
               /\ stanceStatus'[a] = stanceStatus[a] /\ stanceVersion'[a] = stanceVersion[a]
               /\ adopted'[a] = adopted[a],
           \/ UNCHANGED <<stanceStatus, stanceVersion, adopted>>
           \/ stanceTx[r].op = "submit"
           \/ Checked(r)
    PROVE  StancesAreSound'
<1>1. /\ stanceTx' = [stanceTx EXCEPT ![r] = Stances!Idle] /\ UNCHANGED open /\ shared' = shared \ {r}
      /\ stanceLock' = [a \in Apps |-> IF stanceLock[a] = r THEN NoReq ELSE stanceLock[a]]
  BY DEF Stances!End
<1>2. stanceTx'[r] = Stances!Idle /\ \A q \in Editors \ {r} : stanceTx'[q] = stanceTx[q]
  BY <1>1 DEF StancesAreSound, StanceTypes
<1>3. /\ stanceTx' \in [Editors -> StanceTx] /\ shared' \in SUBSET Editors
      /\ stanceLock' \in [Apps -> Editors \cup {NoReq}]
  BY <1>1, IdleStance DEF StancesAreSound, StanceTypes
<1>4. \A a \in Apps, q \in Editors : stanceLock'[a] = q <=> q # r /\ stanceLock[a] = q
  BY <1>1
<1>5. LocksAreSound'
  <2>1. \A a \in Apps, q \in Editors : stanceLock'[a] = q => a \in stanceTx'[q].apps
    BY <1>2, <1>4 DEF StancesAreSound, LocksAreSound
  <2>2. \A q \in Editors : stanceTx'[q].apps \in SUBSET Apps
    BY <1>3 DEF StanceTx
  <2>3. ASSUME NEW q \in Editors, NEW a \in stanceTx'[q].apps, NEW b \in stanceTx'[q].apps,
               stanceLock'[a] = q, stanceLock'[b] # q
        PROVE  a < b
    <3>1. a \in Apps /\ b \in Apps /\ q # r /\ stanceLock[a] = q /\ stanceLock[b] # q
      BY <1>4, <2>2, <2>3
    <3>2. stanceTx'[q].apps = stanceTx[q].apps
      BY <1>2, <3>1
    <3>3. LocksAreSound
      BY DEF StancesAreSound
    <3> QED BY <2>3, <3>1, <3>2, <3>3 DEF LocksAreSound
  <2> QED BY <2>1, <2>3 DEF LocksAreSound
<1>6. OneSubmission'
  BY <1>2 DEF StancesAreSound, OneSubmission, Stances!Idle
<1>7. RequestIsSound(r)'
  BY <1>2 DEF RequestIsSound, Checked, Stances!Idle
<1>8. ASSUME NEW q \in Editors, q # r PROVE RequestIsSound(q)'
  <2>1. /\ stanceTx'[q] = stanceTx[q] /\ RequestIsSound(q) /\ RequestIsSound(r)
        /\ stanceTx[q].apps \in SUBSET Apps
    BY <1>2, <1>8 DEF StancesAreSound, StanceTypes, StanceTx
  <2>2. ASSUME NEW a \in stanceTx[q].apps, stanceTx[q].op = "submit" \/ Checked(q)
        PROVE  /\ stanceStatus'[a] = stanceStatus[a] /\ stanceVersion'[a] = stanceVersion[a]
               /\ adopted'[a] = adopted[a]
    <3>1. CASE UNCHANGED <<stanceStatus, stanceVersion, adopted>>
      BY <3>1
    <3>2. CASE stanceTx[r].op = "submit"
      <4>1. PICK b \in Apps : stanceTx[r].apps = {b} /\ stanceStatus[b] = "NONE"
        BY <2>1, <3>2 DEF RequestIsSound
      <4>2. a # b
        <5>1. CASE stanceTx[q].op = "submit"
          <6>1. stanceTx[r].apps # stanceTx[q].apps
            BY <1>8, <3>2, <5>1 DEF StancesAreSound, OneSubmission
          <6>2. PICK c \in Apps : stanceTx[q].apps = {c}
            BY <2>1, <5>1 DEF RequestIsSound
          <6> QED BY <4>1, <6>1, <6>2
        <5>2. CASE Checked(q)
          <6>1. stanceStatus[a] \in Stances!Allowed(stanceTx[q].op) /\ stanceTx[q].op # "submit"
            BY <2>1, <5>2 DEF RequestIsSound, Stances!Current, Checked
          <6> QED BY <4>1, <6>1, AllowedIsSubmitted
        <5> QED BY <2>2, <5>1, <5>2
      <4> QED BY <2>1, <4>1, <4>2
    <3>3. CASE Checked(r)
      <4>1. /\ stanceTx[r].op # "submit"
            /\ \A b \in stanceTx[r].apps : /\ stanceLock[b] = r
                                           /\ stanceStatus[b] \in Stances!Allowed(stanceTx[r].op)
        BY <2>1, <3>3 DEF RequestIsSound, Stances!Current, Checked
      <4>2. a \notin stanceTx[r].apps
        <5>1. CASE stanceTx[q].op = "submit"
          <6>1. stanceStatus[a] = "NONE"
            BY <2>1, <5>1 DEF RequestIsSound
          <6> QED BY <4>1, <6>1, AllowedIsSubmitted
        <5>2. CASE Checked(q)
          <6>1. stanceLock[a] = q
            BY <2>1, <5>2 DEF RequestIsSound
          <6> QED BY <1>8, <4>1, <6>1
        <5> QED BY <2>2, <5>1, <5>2
      <4> QED BY <2>1, <4>2
    <3> QED BY <3>1, <3>2, <3>3
  <2>3. stanceTx[q].op = "submit" =>
            \E a \in Apps : /\ stanceTx[q].apps = {a} /\ stanceStatus'[a] = "NONE"
                            /\ stanceTx[q].seen[a] = stanceVersion'[a]
    BY <2>1, <2>2 DEF RequestIsSound
  <2>4. Checked(q) => Stances!Current(q)' /\ \A a \in stanceTx[q].apps : stanceLock'[a] = q
    <3>1. SUFFICES ASSUME Checked(q)
                   PROVE  Stances!Current(q)' /\ \A a \in stanceTx[q].apps : stanceLock'[a] = q
      OBVIOUS
    <3>2. Stances!Current(q) /\ \A a \in stanceTx[q].apps : stanceLock[a] = q
      BY <2>1, <3>1 DEF RequestIsSound
    <3>3. Stances!Current(q)'
      BY <2>1, <2>2, <3>1, <3>2 DEF Stances!Current
    <3> QED BY <1>4, <1>8, <2>1, <3>2, <3>3
  <2>5. stanceTx[q].op = "publish" => /\ stanceTx[q].pc \in {"target", "commit"} => q \in shared'
                                      /\ stanceTx[q].pc = "commit" => open'
    BY <1>1, <1>8, <2>1 DEF RequestIsSound
  <2>6. Checked(q)' <=> Checked(q)
    BY <2>1 DEF Checked
  <2> QED BY <2>1, <2>3, <2>4, <2>5, <2>6 DEF RequestIsSound
<1>9. StanceTypes'
  BY <1>3 DEF StanceTypes
<1> QED BY <1>5, <1>6, <1>7, <1>8, <1>9 DEF StancesAreSound

-----------------------------------------------------------------------------
(* Proposals of stances: the steps.                                        *)

LEMMA RevisedSeq ==
    ASSUME NEW S, NEW s \in Seq(S), NEW n, NEW e \in S
    PROVE  [s EXCEPT ![n] = e] \in Seq(S)
<1>1. CASE n \in 1..Len(s)
  BY <1>1, ExceptSeq
<1>2. CASE n \notin 1..Len(s)
  <2>1. [s EXCEPT ![n] = e] = s
    BY <1>2
  <2> QED BY <2>1
<1> QED BY <1>1, <1>2

LEMMA StanceArrives ==
    ASSUME StancesAreSound, NEW r \in Editors, NEW op \in Ops, NEW A \in SUBSET Apps, NEW s \in Outcomes,
           op = "review" => s # "none", Stances!Arrive(r, op, A, s)
    PROVE  StancesAreSound'
<1> DEFINE row == [op |-> op, pc |-> IF op = "submit" THEN "commit" ELSE "lock", apps |-> A,
                   seen |-> [a \in A |-> stanceVersion[a]], next |-> s]
<1>1. /\ stanceTx[r] = Stances!Idle /\ stanceTx' = [stanceTx EXCEPT ![r] = row]
      /\ UNCHANGED <<stanceStatus, stanceRevisions, stanceVersion, adopted, stanceLock, shared, open>>
  BY DEF Stances!Arrive, Stances!At, Stances!apps, StancesAreSound, RequestIsSound
<1>2. row \in StanceTx
  <2>1. [a \in A |-> stanceVersion[a]] \in [A -> Nat]
    BY DEF StancesAreSound, StanceTypes
  <2>2. [a \in A |-> stanceVersion[a]] \in Seen
    BY <2>1, Zenon DEF Seen
  <2> QED BY <2>2 DEF StanceTx
<1>3. stanceTx'[r] = row /\ \A q \in Editors \ {r} : stanceTx'[q] = stanceTx[q]
  BY <1>1 DEF StancesAreSound, StanceTypes
<1>4. OneSubmission'
  <2>1. op = "submit" => \A q \in Editors : stanceTx[q].op = "submit" => stanceTx[q].apps # A
    BY DEF Stances!Arrive
  <2> QED BY <1>3, <2>1 DEF StancesAreSound, OneSubmission
<1>5. op # "resolve" => \E a \in Apps : A = {a}
  <2>1. IsFiniteSet(A)
    BY FS_Subset
  <2>2. op # "resolve" => Cardinality(A) = 1
    BY Zenon DEF Stances!Arrive, Stances!Cardinality, Cardinality
  <2> QED BY <2>1, <2>2, FS_Singleton
<1>6. op = "submit" => \A a \in A : stanceStatus[a] = "NONE"
  BY DEF Stances!Arrive, Stances!Allowed
<1>7. op = "submit" => \E a \in Apps : A = {a} /\ stanceStatus[a] = "NONE" /\ row.seen[a] = stanceVersion[a]
  BY <1>5, <1>6
<1>8. RequestIsSound(r)'
  <2>1. /\ stanceTx'[r].op = op /\ stanceTx'[r].apps = A /\ stanceTx'[r].next = s
        /\ stanceTx'[r].pc = IF op = "submit" THEN "commit" ELSE "lock"
        /\ stanceTx'[r].seen = row.seen
    BY <1>3
  <2> HIDE DEF row
  <2>2. ~Checked(r)'
    BY <2>1 DEF Checked
  <2> QED BY <1>1, <1>5, <1>7, <2>1, <2>2 DEF RequestIsSound, Outcomes
<1>9. shared' \in SUBSET Editors /\ shared \subseteq shared'
  BY <1>1 DEF StancesAreSound, StanceTypes
<1> HIDE DEF row
<1> QED BY <1>1, <1>2, <1>4, <1>8, <1>9, OwnStanceStep

\* The next place of a transaction that changes nothing else about itself.
LEMMA StanceAdvances ==
    ASSUME StancesAreSound, NEW r \in Editors, NEW pc \in {"share", "target", "commit"},
           stanceTx[r].pc \in {"lock", "share", "target"},
           stanceTx' = [stanceTx EXCEPT ![r].pc = pc],
           UNCHANGED <<stanceStatus, stanceRevisions, stanceVersion, adopted, stanceLock, open>>,
           shared' \in SUBSET Editors, shared \subseteq shared',
           Stances!Current(r), \A a \in stanceTx[r].apps : stanceLock[a] = r,
           stanceTx[r].op = "publish" => /\ pc \in {"target", "commit"} => r \in shared'
                                         /\ pc = "commit" => open
    PROVE  StancesAreSound'
<1> DEFINE row == [stanceTx[r] EXCEPT !.pc = pc]
<1>1. stanceTx' = [stanceTx EXCEPT ![r] = row]
  BY DEF StancesAreSound, StanceTypes
<1>2. /\ row \in StanceTx /\ row.op = stanceTx[r].op /\ row.apps = stanceTx[r].apps /\ row.pc = pc
      /\ row.seen = stanceTx[r].seen /\ row.next = stanceTx[r].next
  BY DEF StancesAreSound, StanceTypes, StanceTx
<1>3. stanceTx'[r] = row /\ \A q \in Editors \ {r} : stanceTx'[q] = stanceTx[q]
  BY <1>1 DEF StancesAreSound, StanceTypes
<1> HIDE DEF row
<1>4. OneSubmission'
  <2>1. \A q \in Editors : stanceTx'[q].op = stanceTx[q].op /\ stanceTx'[q].apps = stanceTx[q].apps
    BY <1>2, <1>3
  <2> QED BY <2>1 DEF StancesAreSound, OneSubmission
<1>5. RequestIsSound(r) /\ stanceTx[r].op # "submit"
  BY DEF StancesAreSound, RequestIsSound
<1>6. Stances!Current(r)'
  BY <1>2, <1>3 DEF Stances!Current
<1>7. RequestIsSound(r)'
  BY <1>2, <1>3, <1>5, <1>6 DEF RequestIsSound, Checked
<1> QED BY <1>1, <1>2, <1>4, <1>7, OwnStanceStep

LEMMA StanceLocks ==
    ASSUME StancesAreSound, NEW r \in Editors, Stances!LockApplication(r)
    PROVE  StancesAreSound'
<1>1. PICK a \in Stances!NextToLock(r) : stanceLock[a] = NoReq /\ stanceLock' = [stanceLock EXCEPT ![a] = r]
  BY DEF Stances!LockApplication
<1>2. /\ stanceTx[r].pc = "lock"
      /\ UNCHANGED <<stanceStatus, stanceRevisions, stanceVersion, adopted, shared, open, stanceTx>>
  BY DEF Stances!LockApplication, Stances!At, Stances!apps
<1>3. a \in stanceTx[r].apps /\ a \in Apps /\ \A b \in stanceTx[r].apps : stanceLock[b] # r => a <= b
  BY DEF Stances!NextToLock, Stances!Unlocked, StancesAreSound, StanceTypes, StanceTx
<1>4. \A b \in Apps, q \in Editors : stanceLock'[b] = q <=> stanceLock[b] = q \/ (b = a /\ q = r)
  BY <1>1, <1>3 DEF StancesAreSound, StanceTypes
<1>5. StanceTypes'
  BY <1>1, <1>2 DEF StancesAreSound, StanceTypes
<1>6. LocksAreSound'
  <2>1. \A b \in Apps, q \in Editors : stanceLock'[b] = q => b \in stanceTx'[q].apps
    BY <1>2, <1>3, <1>4 DEF StancesAreSound, LocksAreSound
  <2>2. ASSUME NEW q \in Editors, NEW b \in stanceTx'[q].apps, NEW c \in stanceTx'[q].apps,
               stanceLock'[b] = q, stanceLock'[c] # q
        PROVE  b < c
    <3>1. b \in Apps /\ c \in Apps /\ stanceLock[c] # q
      BY <1>2, <1>4, <2>2 DEF StancesAreSound, StanceTypes, StanceTx
    <3>2. CASE stanceLock[b] = q
      BY <1>2, <2>2, <3>1, <3>2 DEF StancesAreSound, LocksAreSound
    <3>3. CASE b = a /\ q = r
      <4>1. a <= c /\ c # a
        BY <1>2, <1>3, <1>4, <2>2, <3>1, <3>3
      <4>2. a \in Nat /\ c \in Nat
        BY <1>3, <3>1
      <4>3. a < c
        BY <4>1, <4>2
      <4> QED BY <3>3, <4>3
    <3> QED BY <1>4, <2>2, <3>1, <3>2, <3>3
  <2> QED BY <2>1, <2>2 DEF LocksAreSound
<1>7. OneSubmission'
  BY <1>2 DEF StancesAreSound, OneSubmission
<1>8. \A q \in Editors : RequestIsSound(q)'
  <2>1. \A q \in Editors : stanceTx[q].apps \in SUBSET Apps
    BY DEF StancesAreSound, StanceTypes, StanceTx
  <2>2. ASSUME NEW q \in Editors PROVE RequestIsSound(q)'
    <3>1. RequestIsSound(q) /\ (Checked(q)' <=> Checked(q)) /\ (Stances!Current(q)' <=> Stances!Current(q))
      BY <1>2 DEF StancesAreSound, Checked, Stances!Current
    <3>2. \A b \in stanceTx[q].apps : stanceLock[b] = q => stanceLock'[b] = q
      BY <1>4, <2>1
    <3> QED BY <1>2, <3>1, <3>2 DEF RequestIsSound
  <2> QED BY <2>2
<1> QED BY <1>5, <1>6, <1>7, <1>8 DEF StancesAreSound

LEMMA StanceProceeds ==
    ASSUME StancesAreSound, NEW r \in Editors,
           Stances!Recheck(r) \/ Stances!ShareTarget(r) \/ Stances!CheckTarget(r)
    PROVE  StancesAreSound'
<1>1. /\ RequestIsSound(r) /\ stanceTx[r] \in StanceTx /\ shared \in SUBSET Editors
      /\ stanceTx[r].apps \in SUBSET Apps
  BY DEF StancesAreSound, StanceTypes, StanceTx
<1>2. CASE Stances!Recheck(r)
  <2> DEFINE after == CASE stanceTx[r].op = "publish" -> "share"
                        [] stanceTx[r].op \in {"update", "resolve"} -> "target"
                        [] OTHER -> "commit"
  <2>1. /\ stanceTx[r].pc = "lock" /\ Stances!Current(r)
        /\ UNCHANGED <<stanceStatus, stanceRevisions, stanceVersion, adopted, stanceLock, shared, open>>
        /\ \A a \in stanceTx[r].apps : stanceLock[a] = r
    BY <1>2 DEF Stances!Recheck, Stances!At, Stances!apps, Stances!Unlocked
  <2>2. stanceTx' = [stanceTx EXCEPT ![r].pc = after]
    BY <1>2, Zenon DEF Stances!Recheck
  <2>3. after \in {"share", "target", "commit"} /\ (stanceTx[r].op = "publish" => after = "share")
    <3>1. CASE stanceTx[r].op = "publish"
      BY <3>1
    <3>2. CASE stanceTx[r].op \in {"update", "resolve"}
      BY <3>2
    <3>3. CASE stanceTx[r].op \notin {"publish", "update", "resolve"}
      BY <3>3
    <3> QED BY <3>1, <3>2, <3>3
  <2> HIDE DEF after
  <2> QED BY <1>1, <2>1, <2>2, <2>3, StanceAdvances
<1>3. CASE Stances!ShareTarget(r)
  <2>1. /\ stanceTx[r].pc = "share" /\ shared' = shared \cup {r}
        /\ stanceTx' = [stanceTx EXCEPT ![r].pc = "target"]
        /\ UNCHANGED <<stanceStatus, stanceRevisions, stanceVersion, adopted, stanceLock, open>>
    BY <1>3 DEF Stances!ShareTarget, Stances!At, Stances!apps
  <2>2. Stances!Current(r) /\ \A a \in stanceTx[r].apps : stanceLock[a] = r
    BY <1>1, <2>1 DEF RequestIsSound, Checked
  <2> QED BY <1>1, <2>1, <2>2, StanceAdvances
<1>4. CASE Stances!CheckTarget(r)
  <2>1. /\ stanceTx[r].pc = "target" /\ open
        /\ stanceTx' = [stanceTx EXCEPT ![r].pc = "commit"]
        /\ UNCHANGED <<stanceStatus, stanceRevisions, stanceVersion, adopted, stanceLock, shared, open>>
    BY <1>4 DEF Stances!CheckTarget, Stances!At, Stances!apps
  <2>2. /\ Stances!Current(r) /\ \A a \in stanceTx[r].apps : stanceLock[a] = r
        /\ stanceTx[r].op = "publish" => r \in shared
    BY <1>1, <2>1 DEF RequestIsSound, Checked
  <2> QED BY <1>1, <2>1, <2>2, StanceAdvances
<1> QED BY <1>2, <1>3, <1>4

\* What every step of a request on proposals of stances does.
StanceLife == Stances!Contract!Next \/ UNCHANGED Stances!Contract!vars
StanceSeen ==
    \A a \in Apps : stanceVersion'[a] # stanceVersion[a] =>
        \E r \in Editors : /\ stanceTx[r].op # "none" /\ a \in stanceTx[r].apps /\ stanceTx'[r] = Stances!Idle
                           /\ stanceTx[r].op # "withdraw" => stanceTx[r].seen[a] = stanceVersion[a]
StanceOpen ==
    adopted' # adopted => open \/ \A r \in Editors : stanceTx[r].op = "publish" => stanceTx'[r] # Stances!Idle

LEMMA StanceDecides ==
    ASSUME StancesAreSound, NEW r \in Editors, NEW s \in Statuses, Stances!Decide(r, s)
    PROVE  /\ stanceStatus' \in [Apps -> StanceStatuses] /\ stanceRevisions' \in [Apps -> Seq(Statuses)]
           /\ \A a \in Apps : a \notin stanceTx[r].apps => stanceStatus'[a] = stanceStatus[a]
           /\ Stances!Contract!Decide(stanceTx[r].apps, s)
<1>1. stanceStatus' \in [Apps -> StanceStatuses]
  BY DEF Stances!Decide, StancesAreSound, StanceTypes, StanceStatuses
<1>2. \A a \in Apps : stanceRevisions[a] \in Seq(Statuses)
  BY DEF StancesAreSound, StanceTypes
<1>3. \A a \in Apps : [stanceRevisions[a] EXCEPT ![Len(stanceRevisions[a])] = s] \in Seq(Statuses)
  BY <1>2, RevisedSeq
<1>4. stanceRevisions' \in [Apps -> Seq(Statuses)]
  BY <1>2, <1>3 DEF Stances!Decide
<1>5. \A a \in Apps : a \notin stanceTx[r].apps => stanceStatus'[a] = stanceStatus[a]
  BY DEF Stances!Decide
<1>6. Stances!Contract!Decide(stanceTx[r].apps, s)
  BY Zenon DEF Stances!Decide, Stances!Contract!Decide
<1> QED BY <1>1, <1>4, <1>5, <1>6

LEMMA StanceCommits ==
    ASSUME StancesAreSound, NEW r \in Editors, Stances!Commit(r)
    PROVE  StancesAreSound' /\ StanceLife /\ StanceSeen /\ StanceOpen
<1> DEFINE A == stanceTx[r].apps
<1>1. /\ RequestIsSound(r) /\ A \in SUBSET Apps /\ stanceTx[r].next \in Outcomes
      /\ stanceStatus \in [Apps -> StanceStatuses] /\ stanceRevisions \in [Apps -> Seq(Statuses)]
      /\ stanceVersion \in [Apps -> Nat] /\ adopted \in [Apps -> BOOLEAN]
  BY DEF StancesAreSound, StanceTypes, StanceTx
<1>2. /\ stanceTx[r].pc = "commit" /\ stanceTx[r].op # "none" /\ Stances!End(r)
      /\ stanceVersion' = [a \in Apps |-> IF a \in A THEN stanceVersion[a] + 1 ELSE stanceVersion[a]]
  BY DEF Stances!Commit, Stances!CommitSubmit, Stances!CommitUpdate, Stances!CommitWithdraw,
         Stances!CommitReview, Stances!CommitAdopt, Stances!At, Stances!Touched
<1>3. /\ stanceTx' = [stanceTx EXCEPT ![r] = Stances!Idle]
      /\ stanceTx'[r] = Stances!Idle /\ \A q \in Editors \ {r} : stanceTx'[q] = stanceTx[q]
  BY <1>2 DEF Stances!End, StancesAreSound, StanceTypes
<1>4. stanceVersion' \in [Apps -> Nat] /\ \A a \in Apps : a \notin A => stanceVersion'[a] = stanceVersion[a]
  BY <1>1, <1>2
<1>5. stanceTx[r].op # "submit" => Checked(r) /\ Stances!Current(r)
  BY <1>1, <1>2 DEF RequestIsSound, Checked
<1>6. StanceSeen
  <2>1. ASSUME NEW a \in A, stanceTx[r].op # "withdraw" PROVE stanceTx[r].seen[a] = stanceVersion[a]
    BY <1>1, <1>5, <2>1 DEF RequestIsSound, Stances!Current
  <2> QED BY <1>2, <1>3, <1>4, <2>1 DEF StanceSeen
<1>7. StanceOpen
  BY <1>1, <1>2, <1>3 DEF StanceOpen, RequestIsSound, StancesAreSound, Stances!Idle
<1>8. \A a \in A : stanceStatus[a] \in Stances!Allowed(stanceTx[r].op)
  BY <1>1, <1>5 DEF RequestIsSound, Stances!Current, Stances!Allowed
<1>9. stanceTx[r].op # "resolve" => \E a \in Apps : A = {a}
  BY <1>1, <1>2 DEF RequestIsSound
<1> DEFINE Changed ==
      /\ stanceStatus' \in [Apps -> StanceStatuses] /\ stanceRevisions' \in [Apps -> Seq(Statuses)]
      /\ adopted' \in [Apps -> BOOLEAN]
      /\ \A a \in Apps : a \notin A => stanceStatus'[a] = stanceStatus[a] /\ adopted'[a] = adopted[a]
      /\ StanceLife
<1>10. CASE Stances!CommitSubmit(r)
  <2>1. stanceTx[r].op = "submit" /\ UNCHANGED adopted
    BY <1>10 DEF Stances!CommitSubmit
  <2>2. PICK a \in Apps : A = {a} /\ stanceStatus[a] = "NONE"
    BY <1>1, <2>1 DEF RequestIsSound
  <2>3. (CHOOSE b \in A : TRUE) = a
    BY <2>2
  <2>4. /\ stanceStatus' = [stanceStatus EXCEPT ![a] = "PENDING"]
        /\ stanceRevisions' = [stanceRevisions EXCEPT ![a] = <<"PENDING">>]
    BY <1>10, <2>3, Zenon DEF Stances!CommitSubmit
  <2>5. <<"PENDING">> \in Seq(Statuses)
    BY DEF Statuses
  <2>6. /\ stanceStatus' \in [Apps -> StanceStatuses] /\ stanceRevisions' \in [Apps -> Seq(Statuses)]
        /\ \A b \in Apps : b \notin A => stanceStatus'[b] = stanceStatus[b]
    BY <1>1, <2>2, <2>4, <2>5 DEF StanceStatuses, Statuses
  <2>7. Stances!Contract!Submit(a)
    BY <2>1, <2>2, <2>4 DEF Stances!Contract!Submit
  <2>8. Changed
    BY <1>1, <2>1, <2>6, <2>7 DEF StanceLife, Stances!Contract!Next
  <2> HIDE DEF A
  <2> QED BY <1>2, <1>4, <1>6, <1>7, <2>1, <2>8, StanceEnds DEF A
<1>11. CASE Stances!CommitUpdate(r)
  <2>1. stanceTx[r].op = "update" /\ UNCHANGED adopted
    BY <1>11 DEF Stances!CommitUpdate
  <2>2. PICK a \in Apps : A = {a}
    BY <1>9, <2>1
  <2>3. (CHOOSE b \in A : TRUE) = a
    BY <2>2
  <2>4. IF stanceStatus[a] = "REJECTED"
        THEN /\ stanceStatus' = [stanceStatus EXCEPT ![a] = "PENDING"]
             /\ stanceRevisions' = [stanceRevisions EXCEPT ![a] = Append(@, "PENDING")]
        ELSE UNCHANGED <<stanceStatus, stanceRevisions>>
    BY <1>11, <2>3, Zenon DEF Stances!CommitUpdate
  <2>5. Changed
    <3>1. CASE stanceStatus[a] = "REJECTED"
      <4>1. Append(stanceRevisions[a], "PENDING") \in Seq(Statuses)
        <5>1. stanceRevisions[a] \in Seq(Statuses) /\ "PENDING" \in Statuses
          BY <1>1 DEF Statuses
        <5> QED BY <5>1, AppendProperties
      <4>2. /\ stanceStatus' \in [Apps -> StanceStatuses] /\ stanceRevisions' \in [Apps -> Seq(Statuses)]
            /\ \A b \in Apps : b \notin A => stanceStatus'[b] = stanceStatus[b]
        <5>1. /\ stanceStatus' = [stanceStatus EXCEPT ![a] = "PENDING"]
              /\ stanceRevisions' = [stanceRevisions EXCEPT ![a] = Append(stanceRevisions[a], "PENDING")]
          BY <2>4, <3>1
        <5>2. "PENDING" \in StanceStatuses
          BY DEF StanceStatuses, Statuses
        <5>3. stanceStatus' \in [Apps -> StanceStatuses]
          BY <1>1, <5>1, <5>2
        <5>4. stanceRevisions' \in [Apps -> Seq(Statuses)]
          BY <1>1, <4>1, <5>1
        <5>5. \A b \in Apps : b \notin A => stanceStatus'[b] = stanceStatus[b]
          BY <1>1, <2>2, <5>1
        <5> QED BY <5>3, <5>4, <5>5
      <4>3. Stances!Contract!Resubmit(a)
        BY <2>1, <2>4, <3>1 DEF Stances!Contract!Resubmit
      <4> QED BY <1>1, <2>1, <4>2, <4>3 DEF StanceLife, Stances!Contract!Next
    <3>2. CASE stanceStatus[a] # "REJECTED"
      BY <1>1, <2>1, <2>4, <3>2 DEF StanceLife, Stances!Contract!vars
    <3> QED BY <3>1, <3>2
  <2> HIDE DEF A
  <2> QED BY <1>2, <1>4, <1>5, <1>6, <1>7, <2>1, <2>5, StanceEnds DEF A
<1>12. CASE Stances!CommitWithdraw(r)
  <2>1. stanceTx[r].op = "withdraw" /\ UNCHANGED adopted /\ Stances!Decide(r, "WITHDRAWN")
    BY <1>12 DEF Stances!CommitWithdraw
  <2>2. PICK a \in Apps : A = {a}
    BY <1>9, <2>1
  <2>3. /\ stanceStatus' \in [Apps -> StanceStatuses] /\ stanceRevisions' \in [Apps -> Seq(Statuses)]
        /\ \A b \in Apps : b \notin A => stanceStatus'[b] = stanceStatus[b]
        /\ Stances!Contract!Decide({a}, "WITHDRAWN")
    BY <2>1, <2>2, StanceDecides DEF Statuses
  <2>4. stanceStatus[a] \in Stances!Contract!Undecided \cup {"REJECTED"}
    BY <1>8, <2>1, <2>2 DEF Stances!Allowed, Stances!Undecided, Stances!Contract!Undecided
  <2>5. Stances!Contract!Withdraw(a)
    BY <2>1, <2>3, <2>4 DEF Stances!Contract!Withdraw
  <2>6. Changed
    BY <1>1, <2>1, <2>3, <2>5 DEF StanceLife, Stances!Contract!Next
  <2> HIDE DEF A
  <2> QED BY <1>2, <1>4, <1>5, <1>6, <1>7, <2>1, <2>6, StanceEnds DEF A
<1>13. CASE Stances!CommitReview(r)
  <2>1. stanceTx[r].op = "review" /\ UNCHANGED adopted /\ Stances!Decide(r, stanceTx[r].next)
    BY <1>13 DEF Stances!CommitReview
  <2>2. PICK a \in Apps : A = {a}
    BY <1>9, <2>1
  <2>3. PICK s \in {"IN_REVIEW", "REJECTED"} : stanceTx[r].next = s
    BY <1>1, <2>1 DEF RequestIsSound
  <2>4. /\ stanceStatus' \in [Apps -> StanceStatuses] /\ stanceRevisions' \in [Apps -> Seq(Statuses)]
        /\ \A b \in Apps : b \notin A => stanceStatus'[b] = stanceStatus[b]
        /\ Stances!Contract!Decide({a}, s)
    BY <2>1, <2>2, <2>3, StanceDecides DEF Statuses
  <2>5. stanceStatus[a] \in Stances!Contract!Undecided
    BY <1>8, <2>1, <2>2 DEF Stances!Allowed, Stances!Undecided, Stances!Contract!Undecided
  <2>6. Stances!Contract!Review(a, s)
    BY <2>1, <2>4, <2>5 DEF Stances!Contract!Review
  <2>7. Changed
    BY <1>1, <2>1, <2>3, <2>4, <2>6 DEF StanceLife, Stances!Contract!Next
  <2> HIDE DEF A
  <2> QED BY <1>2, <1>4, <1>5, <1>6, <1>7, <2>1, <2>7, StanceEnds DEF A
<1>14. CASE Stances!CommitAdopt(r)
  <2>1. /\ stanceTx[r].op \in {"publish", "resolve"} /\ Stances!Decide(r, "APPROVED")
        /\ adopted' = [a \in Apps |-> adopted[a] \/ a \in A]
    BY <1>14 DEF Stances!CommitAdopt
  <2>2. /\ stanceStatus' \in [Apps -> StanceStatuses] /\ stanceRevisions' \in [Apps -> Seq(Statuses)]
        /\ \A b \in Apps : b \notin A => stanceStatus'[b] = stanceStatus[b]
        /\ Stances!Contract!Decide(A, "APPROVED")
    BY <2>1, StanceDecides DEF Statuses
  <2>3. \A a \in A : stanceStatus[a] \in Stances!Contract!Undecided
    BY <1>8, <2>1 DEF Stances!Allowed, Stances!Undecided, Stances!Contract!Undecided
  <2>4. Stances!Contract!Adopt(A)
    BY <2>1, <2>2, <2>3 DEF Stances!Contract!Adopt
  <2>5. adopted' \in [Apps -> BOOLEAN] /\ \A a \in Apps : a \notin A => adopted'[a] = adopted[a]
    BY <1>1, <2>1, Zenon
  <2>6. Changed
    BY <1>1, <2>2, <2>4, <2>5 DEF StanceLife, Stances!Contract!Next
  <2>7. stanceTx[r].op # "submit"
    BY <2>1
  <2> HIDE DEF A
  <2> QED BY <1>2, <1>4, <1>5, <1>6, <1>7, <2>7, <2>6, StanceEnds DEF A
<1> QED BY <1>10, <1>11, <1>12, <1>13, <1>14 DEF Stances!Commit

LEMMA StanceStep ==
    ASSUME StancesAreSound, [Stances!Next]_stanceVars
    PROVE  StancesAreSound' /\ StanceLife /\ StanceSeen /\ StanceOpen
<1> DEFINE Kept == UNCHANGED <<stanceStatus, stanceRevisions, stanceVersion, adopted>>
<1>1. Kept => StanceLife /\ StanceSeen /\ StanceOpen
  BY DEF StanceLife, StanceSeen, StanceOpen, Stances!Contract!vars
<1>2. ASSUME NEW r \in Editors, Stances!Commit(r) PROVE StancesAreSound' /\ StanceLife /\ StanceSeen /\ StanceOpen
  BY <1>2, StanceCommits
<1>3. ASSUME NEW r \in Editors, Stances!LockApplication(r) PROVE StancesAreSound' /\ Kept
  BY <1>3, StanceLocks DEF Stances!LockApplication, Stances!apps
<1>4. ASSUME NEW r \in Editors, Stances!Recheck(r) \/ Stances!ShareTarget(r) \/ Stances!CheckTarget(r)
      PROVE  StancesAreSound' /\ Kept
  <2>1. StancesAreSound'
    BY <1>4, StanceProceeds
  <2>2. Kept
    BY <1>4 DEF Stances!Recheck, Stances!ShareTarget, Stances!CheckTarget, Stances!apps
  <2> QED BY <2>1, <2>2
<1>5. ASSUME NEW r \in Editors, Stances!Refuse(r) \/ Stances!Rollback(r) PROVE StancesAreSound' /\ Kept
  <2>1. Stances!End(r) /\ Kept
    BY <1>5 DEF Stances!Refuse, Stances!Rollback, Stances!apps
  <2>2. /\ stanceStatus \in [Apps -> StanceStatuses] /\ stanceRevisions \in [Apps -> Seq(Statuses)]
        /\ stanceVersion \in [Apps -> Nat] /\ adopted \in [Apps -> BOOLEAN]
    BY DEF StancesAreSound, StanceTypes
  <2> QED BY <2>1, <2>2, StanceEnds
<1>6. ASSUME NEW r \in Editors, NEW op \in Ops, NEW A \in SUBSET Apps,
             \/ op # "review" /\ Stances!Arrive(r, op, A, "none")
             \/ op = "review" /\ \E s \in {"IN_REVIEW", "REJECTED"} : Stances!Arrive(r, op, A, s)
      PROVE  StancesAreSound' /\ Kept
  <2>1. PICK s \in Outcomes : (op = "review" => s # "none") /\ Stances!Arrive(r, op, A, s)
    BY <1>6, Zenon DEF Outcomes
  <2>2. StancesAreSound'
    BY <2>1, StanceArrives
  <2>3. Kept
    BY <2>1 DEF Stances!Arrive, Stances!apps
  <2> QED BY <2>2, <2>3
<1>7. CASE Stances!CloseTarget \/ Stances!ReopenTarget
  <2>1. UNCHANGED <<stanceStatus, stanceRevisions, stanceVersion, adopted, stanceLock, shared, stanceTx>> /\ shared = {}
    BY <1>7 DEF Stances!CloseTarget, Stances!ReopenTarget, Stances!apps
  <2>2. StanceTypes' /\ LocksAreSound' /\ OneSubmission'
    BY <2>1 DEF StancesAreSound, StanceTypes, LocksAreSound, OneSubmission
  <2>3. ASSUME NEW q \in Editors PROVE RequestIsSound(q)'
    <3>1. /\ RequestIsSound(q) /\ (Checked(q)' <=> Checked(q)) /\ (Stances!Current(q)' <=> Stances!Current(q))
      BY <2>1 DEF StancesAreSound, Checked, Stances!Current
    <3> QED BY <2>1, <3>1 DEF RequestIsSound
  <2> QED BY <1>1, <2>1, <2>2, <2>3 DEF StancesAreSound
<1>8. CASE UNCHANGED stanceVars
  <2>1. UNCHANGED <<stanceStatus, stanceRevisions, stanceVersion, adopted, stanceLock, shared, open, stanceTx>>
    BY <1>8 DEF stanceVars
  <2>2. StanceTypes' /\ LocksAreSound' /\ OneSubmission'
    BY <2>1 DEF StancesAreSound, StanceTypes, LocksAreSound, OneSubmission
  <2>3. ASSUME NEW q \in Editors PROVE RequestIsSound(q)'
    <3>1. /\ RequestIsSound(q) /\ (Checked(q)' <=> Checked(q)) /\ (Stances!Current(q)' <=> Stances!Current(q))
      BY <2>1 DEF StancesAreSound, Checked, Stances!Current
    <3> QED BY <2>1, <3>1 DEF RequestIsSound
  <2> QED BY <1>1, <2>1, <2>2, <2>3 DEF StancesAreSound
<1> HIDE DEF Kept
<1> QED BY <1>1, <1>2, <1>3, <1>4, <1>5, <1>6, <1>7, <1>8 DEF Stances!Next, Stances!Statement

-----------------------------------------------------------------------------
(* Locks in the order of ids.                                              *)

LEMMA LeastNumber ==
    ASSUME NEW T \in SUBSET Nat, T # {}
    PROVE  \E x \in T : \A y \in T : x <= y
<1> DEFINE R == OpToRel(<, Nat)
<1>1. IsWellFoundedOn(R, Nat)
  BY NatLessThanWellFounded
<1>2. \A x, y \in Nat : x < y => <<x, y>> \in R
  BY DEF OpToRel
<1> HIDE DEF R
<1>3. PICK x \in T : \A y \in T : <<y, x>> \notin R
  BY <1>1, WFMin
<1>4. ASSUME NEW y \in T PROVE x <= y
  <2>1. x \in Nat /\ y \in Nat /\ ~(y < x)
    BY <1>2, <1>3
  <2> QED BY <2>1
<1> QED BY <1>4

\* By the number of those above it.
LEMMA GreatestNumber ==
    ASSUME NEW T \in SUBSET Nat, IsFiniteSet(T), T # {}
    PROVE  \E x \in T : \A y \in T : y <= x
<1> DEFINE Above(x) == {y \in T : y > x}
           V == {Cardinality(Above(x)) : x \in T}
<1>1. \A x \in T : IsFiniteSet(Above(x)) /\ Cardinality(Above(x)) \in Nat
  BY FS_Subset, FS_CardinalityType
<1>2. V \in SUBSET Nat /\ V # {}
  BY <1>1
<1>3. PICK v \in V : \A w \in V : v <= w
  <2> HIDE DEF V
  <2> QED BY <1>2, LeastNumber
<1>4. PICK x \in T : v = Cardinality(Above(x))
  OBVIOUS
<1>5. ASSUME NEW y \in T, ~(y <= x) PROVE FALSE
  <2>1. Above(y) \in SUBSET Above(x) /\ y \in Above(x) /\ y \notin Above(y)
    <3>1. x \in Nat /\ y \in Nat /\ y > x
      BY <1>5
    <3>2. ASSUME NEW z \in Above(y) PROVE z \in T /\ z > x
      <4>1. z \in T /\ z \in Nat /\ z > y
        OBVIOUS
      <4> QED BY <3>1, <4>1
    <3>3. y \notin Above(y)
      BY <3>1
    <3> QED BY <3>1, <3>2, <3>3
  <2>2. Cardinality(Above(y)) <= Cardinality(Above(x)) /\ Cardinality(Above(y)) # Cardinality(Above(x))
    BY <1>1, <2>1, FS_Subset
  <2>3. Cardinality(Above(x)) <= Cardinality(Above(y))
    BY <1>3, <1>4
  <2>4. Cardinality(Above(x)) \in Nat /\ Cardinality(Above(y)) \in Nat
    BY <1>1
  <2> HIDE DEF Above
  <2> QED BY <2>2, <2>3, <2>4
<1> QED BY <1>5

\* The request that waits for the last row of all waits for none of the others.
LEMMA StancesLockInOrder == StancesAreSound => Stances!LocksInOrder
<1> SUFFICES ASSUME StancesAreSound, NEW D \in SUBSET {r \in Editors : stanceTx[r].pc = "lock"}, D # {},
                    \A r \in D : \E q \in D : Stances!Waits(r, q)
             PROVE  FALSE
  BY DEF Stances!LocksInOrder, Stances!At
<1> DEFINE Awaited == {a \in Apps : \E r \in D : a \in Stances!NextToLock(r) /\ stanceLock[a] \in D \ {r}}
<1>1. ASSUME NEW r \in D PROVE \E a \in Awaited : a \in Stances!NextToLock(r) /\ stanceLock[a] \in D \ {r}
  <2>1. PICK q \in D : Stances!Waits(r, q)
    OBVIOUS
  <2>2. PICK a \in Stances!NextToLock(r) : stanceLock[a] = q /\ q # r
    BY <2>1 DEF Stances!Waits
  <2>3. a \in Apps
    BY DEF Stances!NextToLock, Stances!Unlocked, StancesAreSound, StanceTypes, StanceTx
  <2> QED BY <2>2, <2>3
<1>2. Awaited \in SUBSET Nat /\ IsFiniteSet(Awaited) /\ Awaited # {}
  BY <1>1, FS_Subset
<1>3. PICK a \in Awaited : \A b \in Awaited : b <= a
  <2> HIDE DEF Awaited
  <2> QED BY <1>2, GreatestNumber
<1>4. PICK q \in D : stanceLock[a] = q
  OBVIOUS
<1>5. PICK b \in Awaited : b \in Stances!NextToLock(q) /\ stanceLock[b] \in D \ {q}
  BY <1>1
<1>6. a \in stanceTx[q].apps /\ b \in stanceTx[q].apps /\ stanceLock[b] # q
  BY <1>4, <1>5 DEF StancesAreSound, LocksAreSound, Stances!NextToLock, Stances!Unlocked
<1>7. a < b
  BY <1>4, <1>6 DEF StancesAreSound, LocksAreSound
<1> QED BY <1>2, <1>3, <1>5, <1>7

-----------------------------------------------------------------------------
(* Proposals of topics: what each request knows.                           *)

TopicOps == {"update", "review", "adopt"}
TopicTx == [op : TopicOps \cup {"none"}, pc : {"idle", "lock", "revision", "proposal", "commit"},
            apps : SUBSET Apps, left : SUBSET Apps, seen : Seen, rev : Seen, next : Outcomes]

TopicTypes ==
    /\ status \in [Apps -> StanceStatuses]
    /\ revisions \in [Apps -> Seq(Statuses)]
    /\ version \in [Apps -> Nat]
    /\ results \in [Apps -> Nat]
    /\ lock \in [Apps -> Requests \cup {NoReq}]
    /\ revLock \in [Apps -> Seq(Requests \cup {NoReq})]
    /\ tx \in [Requests -> TopicTx]

\* Each revision of a proposal has a row to lock, and there is one from its submission on.
RevisionsAreRows ==
    \A a \in Apps : /\ Len(revLock[a]) = Len(revisions[a])
                    /\ status[a] # "NONE" => Len(revisions[a]) > 0

\* A request holds rows of its own proposals only, those of revisions not before the others.
HoldsItsOwn(r) ==
    /\ \A a \in Apps : lock[a] = r => a \in tx[r].apps
    /\ \A a \in Apps : \A i \in 1..Len(revLock[a]) :
          revLock[a][i] = r => a \in tx[r].apps /\ tx[r].pc \in {"revision", "proposal", "commit"}

\* Proposals are locked in the order of their ids, by reviews at the end.
LocksInTurn(r) ==
    /\ tx[r].pc = "lock" => \A a \in tx[r].apps : /\ a \notin tx[r].left => lock[a] = r
                                                  /\ a \in tx[r].left => lock[a] # r
                                                  /\ \A b \in tx[r].left : a \notin tx[r].left => a < b
    /\ tx[r].op = "review" =>
          /\ tx[r].pc \in {"revision", "proposal", "commit"} /\ tx[r].next \in {"IN_REVIEW", "REJECTED"}
          /\ tx[r].pc = "commit" => \A a \in tx[r].apps : lock[a] = r
    /\ tx[r].op # "review" => tx[r].pc # "proposal"
    /\ tx[r].op \in {"update", "adopt"} /\ tx[r].pc \in {"revision", "commit"} =>
          \A a \in tx[r].apps : lock[a] = r

\* What was read before the transaction is true of the version it was read in; an edit has
\* read it again under its lock.
KnowsItsVersion(r) ==
    /\ tx[r].op \in {"review", "adopt"} => \A a \in tx[r].apps :
          /\ tx[r].seen[a] \in 0..version[a] /\ tx[r].rev[a] \in 1..Len(revisions[a])
          /\ tx[r].seen[a] = version[a] =>
                status[a] \in Topics!Undecided /\ tx[r].rev[a] = Len(revisions[a])
    /\ tx[r].op = "update" /\ tx[r].pc \in {"revision", "commit"} => \A a \in tx[r].apps :
          status[a] \in {"PENDING", "REJECTED"} /\ version[a] = tx[r].seen[a]

TopicRequestIsSound(r) ==
    /\ tx[r].op = "none" \/ tx[r].pc = "idle" => tx[r] = Topics!Idle
    /\ tx[r].op \in {"update", "review"} => \E a \in Apps : tx[r].apps = {a}
    /\ tx[r].left \subseteq tx[r].apps
    /\ \A a \in tx[r].apps : status[a] # "NONE"
    /\ HoldsItsOwn(r) /\ LocksInTurn(r) /\ KnowsItsVersion(r)

TopicsAreSound == TopicTypes /\ RevisionsAreRows /\ \A r \in Requests : TopicRequestIsSound(r)

-----------------------------------------------------------------------------
(* Proposals of topics: the steps.                                         *)

LEMMA IdleTopic == Topics!Idle \in TopicTx
<1>1. [a \in {} |-> 0] \in Seen
  <2>1. {} \in SUBSET Apps
    OBVIOUS
  <2>2. [a \in {} |-> 0] \in [{} -> Nat]
    OBVIOUS
  <2> QED BY <2>1, <2>2, Zenon DEF Seen
<1> QED BY <1>1 DEF Topics!Idle, TopicTx, Outcomes

\* A request that is not under way knows and holds nothing.
LEMMA IdleIsSound ==
    ASSUME NEW r \in Requests, tx[r] = Topics!Idle,
           \A a \in Apps : lock[a] # r, \A a \in Apps : \A i \in 1..Len(revLock[a]) : revLock[a][i] # r
    PROVE  TopicRequestIsSound(r)
<1>1. HoldsItsOwn(r)
  BY DEF HoldsItsOwn
<1>2. LocksInTurn(r) /\ KnowsItsVersion(r)
  BY DEF LocksInTurn, KnowsItsVersion, Topics!Idle
<1> QED BY <1>1, <1>2 DEF TopicRequestIsSound, Topics!Idle

LEMMA TopicsInit == Topics!Init => TopicsAreSound
<1> SUFFICES ASSUME Topics!Init PROVE TopicsAreSound
  OBVIOUS
<1>1. \A r \in Requests : tx[r] = Topics!Idle
  BY DEF Topics!Init
<1>2. TopicTypes
  BY IdleTopic DEF Topics!Init, TopicTypes, StanceStatuses
<1>3. RevisionsAreRows
  BY DEF Topics!Init, RevisionsAreRows
<1>4. \A r \in Requests, a \in Apps : lock[a] # r /\ \A i \in 1..Len(revLock[a]) : revLock[a][i] # r
  <2>1. \A r \in Requests : NoReq # r
    BY ProposalsAssumption
  <2> QED BY <2>1 DEF Topics!Init
<1> QED BY <1>1, <1>2, <1>3, <1>4, IdleIsSound DEF TopicsAreSound

\* A step of one request before its commit: what the others know and hold stays true.
LEMMA OwnTopicStep ==
    ASSUME TopicsAreSound, NEW r \in Requests, NEW row \in TopicTx,
           tx' = [tx EXCEPT ![r] = row], UNCHANGED <<status, revisions, version, results>>,
           lock' \in [Apps -> Requests \cup {NoReq}], revLock' \in [Apps -> Seq(Requests \cup {NoReq})],
           \A a \in Apps : Len(revLock'[a]) = Len(revLock[a]),
           \A a \in Apps, q \in Requests : q # r => (lock'[a] = q <=> lock[a] = q),
           \A a \in Apps, q \in Requests : \A i \in 1..Len(revLock[a]) :
               q # r /\ revLock'[a][i] = q => revLock[a][i] = q,
           TopicRequestIsSound(r)'
    PROVE  TopicsAreSound'
<1>1. tx'[r] = row /\ \A q \in Requests \ {r} : tx'[q] = tx[q]
  BY DEF TopicsAreSound, TopicTypes
<1>2. TopicTypes' /\ RevisionsAreRows'
  BY DEF TopicsAreSound, TopicTypes, RevisionsAreRows
<1>3. ASSUME NEW q \in Requests, q # r PROVE TopicRequestIsSound(q)'
  <2>1. tx'[q] = tx[q] /\ TopicRequestIsSound(q) /\ tx[q].apps \in SUBSET Apps /\ tx[q].left \in SUBSET Apps
    BY <1>1, <1>3 DEF TopicsAreSound, TopicTypes, TopicTx
  <2>2. HoldsItsOwn(q)'
    BY <1>3, <2>1 DEF TopicRequestIsSound, HoldsItsOwn
  <2>3. LocksInTurn(q)'
    <3>1. (\A a \in tx[q].apps : lock'[a] = q <=> lock[a] = q) /\ LocksInTurn(q)
      BY <1>3, <2>1 DEF TopicRequestIsSound
    <3> QED BY <2>1, <3>1 DEF LocksInTurn
  <2>4. KnowsItsVersion(q)'
    BY <2>1 DEF TopicRequestIsSound, KnowsItsVersion
  <2> QED BY <2>1, <2>2, <2>3, <2>4 DEF TopicRequestIsSound
<1> QED BY <1>2, <1>3 DEF TopicsAreSound

LEMMA TopicArrives ==
    ASSUME TopicsAreSound, NEW r \in Requests, NEW op \in TopicOps, NEW A \in SUBSET Apps, NEW s \in Outcomes,
           NEW pc \in {"lock", "revision"}, Topics!Arrive(r, op, A, s, pc),
           op # "adopt" => \E a \in Apps : A = {a},
           op = "update" => pc = "lock" /\ \A a \in A : status[a] \in {"PENDING", "REJECTED"},
           op = "review" => pc = "revision" /\ s # "none" /\ \A a \in A : status[a] \in Topics!Undecided,
           op = "adopt" => pc = "lock" /\ \A a \in A : status[a] \in Topics!Undecided
    PROVE  TopicsAreSound'
<1> DEFINE row == [op |-> op, pc |-> pc, apps |-> A, left |-> A, next |-> s,
                   seen |-> [a \in A |-> version[a]], rev |-> [a \in A |-> Len(revisions[a])]]
<1>1. /\ tx[r] = Topics!Idle /\ tx' = [tx EXCEPT ![r] = row]
      /\ UNCHANGED <<status, revisions, version, results, lock, revLock>>
  BY DEF Topics!Arrive, Topics!apps, Topics!locks
<1>2. row \in TopicTx
  <2>1. /\ [a \in A |-> version[a]] \in [A -> Nat]
        /\ [a \in A |-> Len(revisions[a])] \in [A -> Nat]
    BY DEF TopicsAreSound, TopicTypes
  <2>2. [a \in A |-> version[a]] \in Seen /\ [a \in A |-> Len(revisions[a])] \in Seen
    BY <2>1, Zenon DEF Seen
  <2> QED BY <2>2 DEF TopicTx, TopicOps
<1>3. tx'[r] = row
  BY <1>1 DEF TopicsAreSound, TopicTypes
<1>4. /\ tx'[r].op = op /\ tx'[r].pc = pc /\ tx'[r].apps = A /\ tx'[r].left = A /\ tx'[r].next = s
      /\ \A a \in A : tx'[r].seen[a] = version[a] /\ tx'[r].rev[a] = Len(revisions[a])
  BY <1>3
<1> HIDE DEF row
<1>5. TopicRequestIsSound(r) /\ (\A a \in Apps : lock[a] # r)
      /\ \A a \in Apps : \A i \in 1..Len(revLock[a]) : revLock[a][i] # r
  BY <1>1 DEF TopicsAreSound, TopicRequestIsSound, HoldsItsOwn, Topics!Idle
<1>6. \A a \in A : status[a] # "NONE" /\ Len(revisions[a]) \in Nat \ {0} /\ version[a] \in Nat
  <2>1. \A a \in A : status[a] # "NONE"
    BY DEF Topics!Undecided, TopicOps
  <2> QED BY <2>1 DEF TopicsAreSound, TopicTypes, RevisionsAreRows
<1>7. HoldsItsOwn(r)'
  BY <1>1, <1>5 DEF HoldsItsOwn
<1>8. LocksInTurn(r)'
  BY <1>1, <1>4, <1>5 DEF LocksInTurn, Outcomes
<1>9. KnowsItsVersion(r)'
  <2>1. op \in {"review", "adopt"} => \A a \in A : status[a] \in Topics!Undecided
    OBVIOUS
  <2>2. \A a \in A : /\ tx'[r].seen[a] = version'[a] /\ version'[a] \in 0..version'[a]
                     /\ tx'[r].rev[a] = Len(revisions'[a]) /\ Len(revisions'[a]) \in 1..Len(revisions'[a])
    BY <1>1, <1>4, <1>6
  <2>3. ~(op = "update" /\ pc \in {"revision", "commit"})
    OBVIOUS
  <2> QED BY <1>1, <1>4, <2>1, <2>2, <2>3 DEF KnowsItsVersion, Topics!Undecided
<1>10. TopicRequestIsSound(r)'
  BY <1>1, <1>4, <1>6, <1>7, <1>8, <1>9 DEF TopicRequestIsSound, TopicOps
<1>11. lock' \in [Apps -> Requests \cup {NoReq}] /\ revLock' \in [Apps -> Seq(Requests \cup {NoReq})]
  BY <1>1 DEF TopicsAreSound, TopicTypes
<1> QED BY <1>1, <1>2, <1>10, <1>11, OwnTopicStep

\* The next place of a transaction and the rows it has left to lock there.
Moves(r, pc, left) ==
    \/ tx' = [tx EXCEPT ![r].pc = pc, ![r].left = left]
    \/ tx' = [tx EXCEPT ![r].left = left, ![r].pc = pc]
    \/ tx[r].pc = pc /\ tx' = [tx EXCEPT ![r].left = left]

LEMMA TopicRow ==
    ASSUME TopicTypes, NEW r \in Requests, NEW left \in SUBSET Apps,
           NEW pc \in {"lock", "revision", "proposal", "commit"}, Moves(r, pc, left)
    PROVE  \E row \in TopicTx :
              /\ tx' = [tx EXCEPT ![r] = row] /\ tx'[r] = row /\ row.pc = pc /\ row.left = left
              /\ row.op = tx[r].op /\ row.apps = tx[r].apps /\ row.seen = tx[r].seen
              /\ row.rev = tx[r].rev /\ row.next = tx[r].next
<1> DEFINE row == [op |-> tx[r].op, pc |-> pc, apps |-> tx[r].apps, left |-> left, seen |-> tx[r].seen,
                   rev |-> tx[r].rev, next |-> tx[r].next]
<1>1. tx[r] \in TopicTx /\ tx \in [Requests -> TopicTx]
  BY DEF TopicTypes
<1>2. row \in TopicTx
  BY <1>1 DEF TopicTx
<1>3. CASE tx' = [tx EXCEPT ![r].pc = pc, ![r].left = left]
  <2>1. tx'[r] = [[tx[r] EXCEPT !.pc = pc] EXCEPT !.left = left]
    BY <1>1, <1>3
  <2>2. [tx[r] EXCEPT !.pc = pc] = [op |-> tx[r].op, pc |-> pc, apps |-> tx[r].apps, left |-> tx[r].left,
                                    seen |-> tx[r].seen, rev |-> tx[r].rev, next |-> tx[r].next]
    BY <1>1 DEF TopicTx
  <2>3. \A x : [[op |-> tx[r].op, pc |-> pc, apps |-> tx[r].apps, left |-> x, seen |-> tx[r].seen,
                 rev |-> tx[r].rev, next |-> tx[r].next] EXCEPT !.left = left] = row
    OBVIOUS
  <2>4. tx'[r] = row
    BY <2>1, <2>2, <2>3
  <2>5. tx' = [tx EXCEPT ![r] = tx'[r]]
    BY <1>1, <1>3
  <2> QED BY <1>2, <2>4, <2>5
<1>4. CASE tx' = [tx EXCEPT ![r].left = left, ![r].pc = pc]
  <2>1. tx'[r] = [[tx[r] EXCEPT !.left = left] EXCEPT !.pc = pc]
    BY <1>1, <1>4
  <2>2. [tx[r] EXCEPT !.left = left] = [op |-> tx[r].op, pc |-> tx[r].pc, apps |-> tx[r].apps, left |-> left,
                                        seen |-> tx[r].seen, rev |-> tx[r].rev, next |-> tx[r].next]
    BY <1>1 DEF TopicTx
  <2>3. \A x : [[op |-> tx[r].op, pc |-> x, apps |-> tx[r].apps, left |-> left, seen |-> tx[r].seen,
                 rev |-> tx[r].rev, next |-> tx[r].next] EXCEPT !.pc = pc] = row
    OBVIOUS
  <2>4. tx'[r] = row
    BY <2>1, <2>2, <2>3
  <2>5. tx' = [tx EXCEPT ![r] = tx'[r]]
    BY <1>1, <1>4
  <2> QED BY <1>2, <2>4, <2>5
<1>5. CASE tx[r].pc = pc /\ tx' = [tx EXCEPT ![r].left = left]
  <2>1. tx'[r] = [tx[r] EXCEPT !.left = left]
    BY <1>1, <1>5
  <2>2. tx'[r] = row
    BY <1>1, <1>5, <2>1 DEF TopicTx
  <2>3. tx' = [tx EXCEPT ![r] = tx'[r]]
    BY <1>1, <1>5
  <2> QED BY <1>2, <2>2, <2>3
<1> QED BY <1>3, <1>4, <1>5 DEF Moves

LEMMA TopicLocks ==
    ASSUME TopicsAreSound, NEW r \in Requests, Topics!LockApplication(r)
    PROVE  TopicsAreSound'
<1>1. /\ tx[r].pc = "lock" /\ TopicRequestIsSound(r) /\ tx[r].apps \in SUBSET Apps /\ tx[r].left \in SUBSET tx[r].apps
      /\ UNCHANGED <<status, revisions, version, results, revLock>>
  BY DEF Topics!LockApplication, Topics!apps, TopicsAreSound, TopicTypes, TopicTx, TopicRequestIsSound
<1>2. PICK a \in Topics!NextToLock(r) : /\ lock[a] = NoReq /\ lock' = [lock EXCEPT ![a] = r]
                                        /\ tx' = [tx EXCEPT ![r].left = @ \ {a}]
  BY DEF Topics!LockApplication
<1>3. a \in tx[r].left /\ a \in Apps /\ \A b \in tx[r].left : a <= b
  BY <1>1 DEF Topics!NextToLock
<1>4. tx' = [tx EXCEPT ![r].left = tx[r].left \ {a}] /\ tx[r].left \ {a} \in SUBSET Apps
  BY <1>1, <1>2
<1>0. PICK pc \in {"lock", "revision", "proposal", "commit"} : pc = "lock"
  OBVIOUS
<1>5. PICK row \in TopicTx : /\ tx' = [tx EXCEPT ![r] = row] /\ tx'[r] = row /\ row.pc = pc
                             /\ row.left = tx[r].left \ {a} /\ row.op = tx[r].op /\ row.apps = tx[r].apps
                             /\ row.seen = tx[r].seen /\ row.rev = tx[r].rev /\ row.next = tx[r].next
  <2>1. TopicTypes
    BY DEF TopicsAreSound
  <2>2. Moves(r, pc, tx[r].left \ {a})
    BY <1>0, <1>1, <1>4 DEF Moves
  <2>3. tx[r].left \ {a} \in SUBSET Apps
    BY <1>4
  <2> QED BY <2>1, <2>2, <2>3, TopicRow
<1>6. /\ lock' \in [Apps -> Requests \cup {NoReq}] /\ revLock' \in [Apps -> Seq(Requests \cup {NoReq})]
      /\ \A b \in Apps, q \in Requests : lock'[b] = q <=> lock[b] = q \/ (b = a /\ q = r)
  BY <1>1, <1>2, <1>3 DEF TopicsAreSound, TopicTypes
<1>7. HoldsItsOwn(r)'
  BY <1>1, <1>3, <1>0, <1>5, <1>6 DEF TopicRequestIsSound, HoldsItsOwn
<1>8. LocksInTurn(r)'
  <2>1. LocksInTurn(r) /\ tx[r].op # "review"
    BY <1>1 DEF TopicRequestIsSound, LocksInTurn
  <2>4. \A c \in tx[r].apps : /\ c \notin tx[r].left => lock[c] = r
                              /\ c \in tx[r].left => lock[c] # r
                              /\ \A b \in tx[r].left : c \notin tx[r].left => c < b
    BY <1>1, <2>1 DEF LocksInTurn
  <2>2. ASSUME NEW c \in tx[r].apps, c \notin row.left, NEW b \in row.left PROVE c < b
    <3>1. b \in tx[r].left /\ b # a /\ b \in Nat /\ a \in Nat /\ c \in Nat /\ a <= b
      BY <1>1, <1>3, <1>0, <1>5
    <3>2. CASE c = a
      BY <3>1, <3>2
    <3>3. CASE c # a
      <4>1. c \notin tx[r].left
        BY <1>0, <1>5, <2>2, <3>3
      <4> QED BY <2>4, <3>1, <4>1, Zenon
    <3> QED BY <3>2, <3>3
  <2>3. ASSUME NEW c \in tx[r].apps
        PROVE  (c \notin row.left => lock'[c] = r) /\ (c \in row.left => lock'[c] # r)
    <3>1. c \in Apps /\ (lock'[c] = r <=> lock[c] = r \/ c = a) /\ (c \in row.left <=> c \in tx[r].left /\ c # a)
      BY <1>1, <1>0, <1>5, <1>6
    <3> QED BY <2>4, <3>1, Zenon
  <2> QED BY <1>0, <1>5, <2>1, <2>2, <2>3 DEF LocksInTurn
<1>9. KnowsItsVersion(r)'
  BY <1>1, <1>0, <1>5 DEF TopicRequestIsSound, KnowsItsVersion
<1>10. TopicRequestIsSound(r)'
  <2>1. tx'[r].apps = tx[r].apps /\ tx'[r].left \subseteq tx[r].apps /\ tx'[r].op = tx[r].op /\ tx'[r].pc = "lock"
    BY <1>1, <1>0, <1>5
  <2>2. tx[r].op # "none" /\ (tx[r].op \in {"update", "review"} => \E b \in Apps : tx[r].apps = {b})
        /\ \A b \in tx[r].apps : status[b] # "NONE"
    BY <1>1 DEF TopicRequestIsSound, Topics!Idle
  <2> QED BY <1>1, <1>7, <1>8, <1>9, <2>1, <2>2 DEF TopicRequestIsSound
<1>11. \A b \in Apps : Len(revLock'[b]) = Len(revLock[b]) /\ \A i \in 1..Len(revLock[b]) : revLock'[b][i] = revLock[b][i]
  BY <1>1
<1>12. \A b \in Apps, q \in Requests : q # r => (lock'[b] = q <=> lock[b] = q)
  BY <1>6
<1> QED BY <1>1, <1>0, <1>5, <1>6, <1>10, <1>11, <1>12, OwnTopicStep

LEMMA TopicRechecks ==
    ASSUME TopicsAreSound, NEW r \in Requests, Topics!Recheck(r)
    PROVE  TopicsAreSound'
<1>1. /\ tx[r].pc = "lock" /\ tx[r].left = {} /\ Topics!Current(r)
      /\ TopicRequestIsSound(r) /\ tx[r].apps \in SUBSET Apps
      /\ UNCHANGED <<status, revisions, version, results, lock, revLock>>
  BY DEF Topics!Recheck, Topics!apps, Topics!locks, TopicsAreSound, TopicTypes, TopicTx
<1>2. PICK pc \in {"revision", "commit"} : tx' = [tx EXCEPT ![r].pc = pc, ![r].left = tx[r].apps]
  BY DEF Topics!Recheck, Topics!Goto
<1>3. PICK row \in TopicTx : /\ tx' = [tx EXCEPT ![r] = row] /\ tx'[r] = row /\ row.pc = pc
                             /\ row.left = tx[r].apps /\ row.op = tx[r].op /\ row.apps = tx[r].apps
                             /\ row.seen = tx[r].seen /\ row.rev = tx[r].rev /\ row.next = tx[r].next
  <2>1. TopicTypes /\ pc \in {"lock", "revision", "proposal", "commit"} /\ tx[r].apps \in SUBSET Apps
    BY <1>1 DEF TopicsAreSound
  <2>2. Moves(r, pc, tx[r].apps)
    BY <1>2 DEF Moves
  <2> QED BY <2>1, <2>2, TopicRow
<1>4. /\ lock' \in [Apps -> Requests \cup {NoReq}] /\ revLock' \in [Apps -> Seq(Requests \cup {NoReq})]
  BY <1>1 DEF TopicsAreSound, TopicTypes
<1>5. LocksInTurn(r) /\ tx[r].op # "review" /\ tx[r].op # "none" /\ \A a \in tx[r].apps : lock[a] = r
  <2>1. LocksInTurn(r) /\ tx[r].op # "none"
    BY <1>1 DEF TopicRequestIsSound, Topics!Idle
  <2>2. \A a \in tx[r].apps : a \notin tx[r].left => lock[a] = r
    BY <1>1, <2>1, Zenon DEF LocksInTurn
  <2>3. tx[r].op # "review"
    BY <1>1, <2>1 DEF LocksInTurn
  <2> QED BY <1>1, <2>1, <2>2, <2>3
<1>6. HoldsItsOwn(r)'
  BY <1>1, <1>3 DEF TopicRequestIsSound, HoldsItsOwn
<1>7. LocksInTurn(r)'
  BY <1>1, <1>3, <1>5 DEF LocksInTurn
<1>8. KnowsItsVersion(r)'
  BY <1>1, <1>3 DEF TopicRequestIsSound, KnowsItsVersion, Topics!Current
<1>9. TopicRequestIsSound(r)'
  BY <1>1, <1>3, <1>5, <1>6, <1>7, <1>8 DEF TopicRequestIsSound
<1> QED BY <1>1, <1>3, <1>4, <1>9, OwnTopicStep

LEMMA TopicLocksRevision ==
    ASSUME TopicsAreSound, NEW r \in Requests, Topics!LockRevision(r)
    PROVE  TopicsAreSound'
<1>1. /\ tx[r].pc = "revision" /\ TopicRequestIsSound(r) /\ tx[r].apps \in SUBSET Apps
      /\ tx[r].left \in SUBSET tx[r].apps /\ UNCHANGED <<status, revisions, version, results, lock>>
  BY DEF Topics!LockRevision, Topics!apps, TopicsAreSound, TopicTypes, TopicTx, TopicRequestIsSound
<1>2. PICK a \in Topics!NextToLock(r) :
          /\ revLock' = [revLock EXCEPT ![a][Topics!RevisionOf(r, a)] = r]
          /\ tx' = [tx EXCEPT ![r].left = @ \ {a},
                              ![r].pc = IF tx[r].left # {a} THEN "revision"
                                        ELSE IF tx[r].op = "review" THEN "proposal" ELSE "commit"]
  BY DEF Topics!LockRevision
<1>3. PICK n : n = Topics!RevisionOf(r, a)
  OBVIOUS
<1>4. a \in tx[r].apps /\ a \in Apps /\ revLock' = [revLock EXCEPT ![a] = [revLock[a] EXCEPT ![n] = r]]
  BY <1>1, <1>2, <1>3 DEF Topics!NextToLock, TopicsAreSound, TopicTypes
<1>5. PICK pc \in {"revision", "proposal", "commit"} :
          /\ tx' = [tx EXCEPT ![r].left = tx[r].left \ {a}, ![r].pc = pc]
          /\ tx[r].op = "review" => pc # "commit"
          /\ tx[r].op # "review" => pc # "proposal"
  BY <1>2
<1>6. tx[r].left \ {a} \in SUBSET Apps
  BY <1>1
<1>7. PICK row \in TopicTx : /\ tx' = [tx EXCEPT ![r] = row] /\ tx'[r] = row /\ row.pc = pc
                             /\ row.left = tx[r].left \ {a} /\ row.op = tx[r].op /\ row.apps = tx[r].apps
                             /\ row.seen = tx[r].seen /\ row.rev = tx[r].rev /\ row.next = tx[r].next
  <2>1. TopicTypes /\ pc \in {"lock", "revision", "proposal", "commit"}
    BY DEF TopicsAreSound
  <2>2. Moves(r, pc, tx[r].left \ {a})
    BY <1>5 DEF Moves
  <2> QED BY <1>6, <2>1, <2>2, TopicRow
<1>8. revLock[a] \in Seq(Requests \cup {NoReq}) /\ [revLock[a] EXCEPT ![n] = r] \in Seq(Requests \cup {NoReq})
  BY <1>4, RevisedSeq DEF TopicsAreSound, TopicTypes
<1>9. /\ lock' \in [Apps -> Requests \cup {NoReq}] /\ revLock' \in [Apps -> Seq(Requests \cup {NoReq})]
      /\ \A b \in Apps : b # a => revLock'[b] = revLock[b]
      /\ revLock'[a] = [revLock[a] EXCEPT ![n] = r]
  BY <1>1, <1>4, <1>8 DEF TopicsAreSound, TopicTypes
<1>10. /\ \A i \in 1..Len(revLock[a]) : revLock'[a][i] = revLock[a][i] \/ revLock'[a][i] = r
       /\ Len(revLock'[a]) = Len(revLock[a])
  BY <1>8, <1>9
<1>11. HoldsItsOwn(r)'
  BY <1>1, <1>4, <1>7, <1>9, <1>10 DEF TopicRequestIsSound, HoldsItsOwn
<1>12. LocksInTurn(r)'
  BY <1>1, <1>5, <1>7 DEF TopicRequestIsSound, LocksInTurn
<1>13. KnowsItsVersion(r)'
  BY <1>1, <1>7 DEF TopicRequestIsSound, KnowsItsVersion
<1>14. tx[r].op # "none"
  BY <1>1 DEF TopicRequestIsSound, Topics!Idle
<1>15. TopicRequestIsSound(r)'
  BY <1>1, <1>7, <1>11, <1>12, <1>13, <1>14 DEF TopicRequestIsSound
<1>16. \A b \in Apps : /\ Len(revLock'[b]) = Len(revLock[b])
                       /\ \A i \in 1..Len(revLock[b]) : revLock'[b][i] = revLock[b][i] \/ revLock'[b][i] = r
  BY <1>9, <1>10
<1>17. UNCHANGED <<status, revisions, version, results, lock>>
  BY <1>1
<1>18. \A b \in Apps, q \in Requests : q # r => (lock'[b] = q <=> lock[b] = q)
  BY <1>17
<1>19. \A b \in Apps, q \in Requests : \A i \in 1..Len(revLock[b]) :
           q # r /\ revLock'[b][i] = q => revLock[b][i] = q
  BY <1>16
<1>20. \A b \in Apps : Len(revLock'[b]) = Len(revLock[b])
  BY <1>16
<1> QED BY <1>7, <1>9, <1>15, <1>17, <1>18, <1>19, <1>20, OwnTopicStep

LEMMA TopicLocksProposal ==
    ASSUME TopicsAreSound, NEW r \in Requests, Topics!LockProposal(r)
    PROVE  TopicsAreSound'
<1>1. /\ tx[r].pc = "proposal" /\ tx[r].op = "review" /\ (\A a \in tx[r].apps : lock[a] = NoReq)
      /\ TopicRequestIsSound(r) /\ tx[r].apps \in SUBSET Apps
      /\ UNCHANGED <<status, revisions, version, results, revLock>>
      /\ lock' = [a \in Apps |-> IF a \in tx[r].apps THEN r ELSE lock[a]]
      /\ tx' = [tx EXCEPT ![r].pc = "commit", ![r].left = tx[r].apps]
  BY DEF Topics!LockProposal, Topics!At, Topics!Goto, Topics!apps, TopicsAreSound, TopicTypes, TopicTx
<1>0. PICK pc \in {"lock", "revision", "proposal", "commit"} : pc = "commit"
  OBVIOUS
<1>2. PICK row \in TopicTx : /\ tx' = [tx EXCEPT ![r] = row] /\ tx'[r] = row /\ row.pc = pc
                             /\ row.left = tx[r].apps /\ row.op = tx[r].op /\ row.apps = tx[r].apps
                             /\ row.seen = tx[r].seen /\ row.rev = tx[r].rev /\ row.next = tx[r].next
  <2>1. TopicTypes
    BY DEF TopicsAreSound
  <2>2. Moves(r, pc, tx[r].apps)
    BY <1>0, <1>1 DEF Moves
  <2>3. tx[r].apps \in SUBSET Apps
    BY <1>1
  <2> QED BY <2>1, <2>2, <2>3, TopicRow
<1>3. /\ lock' \in [Apps -> Requests \cup {NoReq}] /\ revLock' \in [Apps -> Seq(Requests \cup {NoReq})]
      /\ \A a \in Apps, q \in Requests : q # r => (lock'[a] = q <=> lock[a] = q)
  BY <1>1 DEF TopicsAreSound, TopicTypes
<1>4. HoldsItsOwn(r)'
  BY <1>1, <1>0, <1>2 DEF TopicRequestIsSound, HoldsItsOwn
<1>5. LocksInTurn(r)'
  BY <1>1, <1>0, <1>2 DEF TopicRequestIsSound, LocksInTurn
<1>6. KnowsItsVersion(r)'
  <2>1. KnowsItsVersion(r) /\ tx[r].op = "review" /\ UNCHANGED <<status, revisions, version>>
    BY <1>1 DEF TopicRequestIsSound
  <2>2. tx'[r].op = "review" /\ tx'[r].apps = tx[r].apps /\ tx'[r].seen = tx[r].seen /\ tx'[r].rev = tx[r].rev
    BY <1>2, <2>1
  <2> QED BY <2>1, <2>2 DEF KnowsItsVersion
<1>7. TopicRequestIsSound(r)'
  BY <1>1, <1>0, <1>2, <1>4, <1>5, <1>6 DEF TopicRequestIsSound
<1> QED BY <1>1, <1>0, <1>2, <1>3, <1>7, OwnTopicStep

\* Whoever holds one of the rows held it before, and is not r.
HeldBefore(rows, l, r) ==
    \A i \in 1..Len(rows) : \A q \in Requests : rows[i] = q => i \in 1..Len(l) /\ l[i] = q /\ q # r

\* The rows of revisions without the locks of one request, and with a row for a new revision.
LEMMA FreedRows ==
    ASSUME NEW r \in Requests, NEW l \in Seq(Requests \cup {NoReq}), NEW new \in {<<NoReq>>, <<>>}
    PROVE  /\ Topics!Freed(l, r) \o new \in Seq(Requests \cup {NoReq})
           /\ Len(Topics!Freed(l, r) \o new) = Len(l) + Len(new)
           /\ HeldBefore(Topics!Freed(l, r) \o new, l, r)
<1> PICK f : f = Topics!Freed(l, r)
  OBVIOUS
<1>1. /\ f \in Seq(Requests \cup {NoReq}) /\ Len(f) = Len(l)
      /\ \A i \in 1..Len(l) : f[i] = IF l[i] = r THEN NoReq ELSE l[i]
  <2>1. f = [i \in 1..Len(l) |-> IF l[i] = r THEN NoReq ELSE l[i]]
    BY DEF Topics!Freed
  <2> QED BY <2>1
<1>2. new \in Seq(Requests \cup {NoReq}) /\ \A i \in 1..Len(new) : new[i] = NoReq
  <2>1. CASE new = <<>>
    BY <2>1
  <2>2. CASE new = <<NoReq>>
    <3>1. <<NoReq>> \in Seq(Requests \cup {NoReq}) /\ Len(<<NoReq>>) = 1 /\ <<NoReq>>[1] = NoReq
      OBVIOUS
    <3> QED BY <2>2, <3>1
  <2> QED BY <2>1, <2>2
<1>3. /\ f \o new \in Seq(Requests \cup {NoReq}) /\ Len(f \o new) = Len(f) + Len(new)
      /\ \A i \in 1..(Len(f) + Len(new)) : (f \o new)[i] = IF i <= Len(f) THEN f[i] ELSE new[i - Len(f)]
  BY <1>1, <1>2, ConcatProperties
<1>4. ASSUME NEW i \in 1..(Len(f) + Len(new)), NEW q \in Requests, (f \o new)[i] = q
      PROVE  i \in 1..Len(l) /\ l[i] = q /\ q # r
  <2>1. Len(f) \in Nat /\ Len(new) \in Nat /\ q # NoReq
    BY <1>1, <1>2
  <2>2. CASE i <= Len(f)
    <3>1. i \in 1..Len(l) /\ f[i] = q
      BY <1>1, <1>3, <1>4, <2>1, <2>2
    <3> QED BY <1>1, <2>1, <3>1
  <2>3. CASE ~(i <= Len(f))
    <3>1. i - Len(f) \in 1..Len(new) /\ new[i - Len(f)] = q
      BY <1>3, <1>4, <2>1, <2>3
    <3> QED BY <1>2, <2>1, <3>1
  <2> QED BY <2>2, <2>3
<1>5. HeldBefore(f \o new, l, r)
  BY <1>3, <1>4 DEF HeldBefore
<1> QED BY <1>1, <1>3, <1>5

\* A request changes proposals it holds, and each change is a new version.
ChangesItsOwn(r) ==
    \A a \in Apps :
       \/ status'[a] = status[a] /\ revisions'[a] = revisions[a] /\ version'[a] = version[a]
       \/ /\ a \in tx[r].apps /\ lock[a] = r
          /\ version'[a] = version[a] + 1 /\ status'[a] # "NONE"
          /\ Len(revisions'[a]) \in {Len(revisions[a]), Len(revisions[a]) + 1}

LEMMA TopicEnds ==
    ASSUME TopicsAreSound, NEW r \in Requests, Topics!End(r),
           status' \in [Apps -> StanceStatuses], revisions' \in [Apps -> Seq(Statuses)],
           version' \in [Apps -> Nat], results' \in [Apps -> Nat], ChangesItsOwn(r)
    PROVE  TopicsAreSound'
<1>1. /\ tx' = [tx EXCEPT ![r] = Topics!Idle] /\ lock' = Topics!Freed(lock, r)
      /\ revLock' = [a \in Apps |-> Topics!Freed(revLock[a], r)
                           \o (IF Len(revisions'[a]) > Len(revisions[a]) THEN <<NoReq>> ELSE <<>>)]
  BY DEF Topics!End
<1>2. /\ tx'[r] = Topics!Idle /\ \A q \in Requests \ {r} : tx'[q] = tx[q]
      /\ tx' \in [Requests -> TopicTx]
  BY <1>1, IdleTopic DEF TopicsAreSound, TopicTypes
<1>3. lock' \in [Apps -> Requests \cup {NoReq}] /\ \A a \in Apps, q \in Requests : lock'[a] = q <=> q # r /\ lock[a] = q
  BY <1>1, ProposalsAssumption DEF TopicsAreSound, TopicTypes, Topics!Freed
<1>4. ASSUME NEW a \in Apps
      PROVE  /\ revLock'[a] \in Seq(Requests \cup {NoReq}) /\ Len(revLock'[a]) = Len(revisions'[a])
             /\ \A i \in 1..Len(revLock'[a]) : \A q \in Requests :
                   revLock'[a][i] = q => i \in 1..Len(revLock[a]) /\ revLock[a][i] = q /\ q # r
             /\ Len(revisions'[a]) >= Len(revisions[a])
  <2>1. /\ revLock[a] \in Seq(Requests \cup {NoReq}) /\ Len(revLock[a]) = Len(revisions[a])
        /\ Len(revisions[a]) \in Nat
    BY DEF TopicsAreSound, TopicTypes, RevisionsAreRows
  <2>2. Len(revisions'[a]) \in {Len(revisions[a]), Len(revisions[a]) + 1}
    BY DEF ChangesItsOwn
  <2>3. PICK new \in {<<NoReq>>, <<>>} :
            /\ revLock'[a] = Topics!Freed(revLock[a], r) \o new
            /\ new = IF Len(revisions'[a]) > Len(revisions[a]) THEN <<NoReq>> ELSE <<>>
    BY <1>1
  <2>4. Len(revisions[a]) + Len(new) = Len(revisions'[a])
    <3>1. CASE Len(revisions'[a]) = Len(revisions[a])
      <4>1. new = <<>>
        BY <2>1, <2>3, <3>1
      <4> QED BY <2>1, <3>1, <4>1
    <3>2. CASE Len(revisions'[a]) = Len(revisions[a]) + 1
      <4>1. new = <<NoReq>>
        BY <2>1, <2>3, <3>2
      <4> QED BY <2>1, <3>2, <4>1
    <3> QED BY <2>2, <3>1, <3>2
  <2>5. Len(revisions'[a]) >= Len(revisions[a])
    BY <2>1, <2>2
  <2>6. PICK l \in Seq(Requests \cup {NoReq}) : l = revLock[a]
    BY <2>1
  <2>7. PICK rows : rows = Topics!Freed(l, r) \o new
    OBVIOUS
  <2>8. /\ Topics!Freed(l, r) \o new \in Seq(Requests \cup {NoReq})
        /\ Len(Topics!Freed(l, r) \o new) = Len(l) + Len(new)
    BY FreedRows
  <2>9. HeldBefore(Topics!Freed(l, r) \o new, l, r)
    BY FreedRows
  <2>10. revLock'[a] = rows
    BY <2>3, <2>6, <2>7
  <2>11. /\ rows \in Seq(Requests \cup {NoReq}) /\ Len(rows) = Len(revisions'[a])
    BY <2>1, <2>4, <2>6, <2>7, <2>8
  <2>12. \A i \in 1..Len(rows) : \A q \in Requests : rows[i] = q => i \in 1..Len(l) /\ l[i] = q /\ q # r
    BY <2>7, <2>9 DEF HeldBefore
  <2> QED BY <2>5, <2>6, <2>10, <2>11, <2>12
<1>5. revLock' \in [Apps -> Seq(Requests \cup {NoReq})]
  <2>1. revLock' = [a \in Apps |-> revLock'[a]]
    BY <1>1
  <2> QED BY <1>4, <2>1
<1>6. TopicTypes'
  BY <1>2, <1>3, <1>5 DEF TopicTypes
<1>7. RevisionsAreRows'
  <2>1. ASSUME NEW a \in Apps, status'[a] # "NONE" PROVE Len(revisions'[a]) > 0
    <3>1. Len(revisions[a]) \in Nat /\ Len(revisions'[a]) \in Nat
      BY DEF TopicsAreSound, TopicTypes
    <3>2. status[a] # "NONE" => Len(revisions[a]) > 0
      BY DEF TopicsAreSound, RevisionsAreRows
    <3>3. \A b \in tx[r].apps : status[b] # "NONE"
      BY DEF TopicsAreSound, TopicRequestIsSound
    <3>4. status'[a] = status[a] \/ a \in tx[r].apps
      BY DEF ChangesItsOwn
    <3> QED BY <1>4, <2>1, <3>1, <3>2, <3>3, <3>4
  <2> QED BY <1>4, <2>1 DEF RevisionsAreRows
<1>8. TopicRequestIsSound(r)'
  <2>1. HoldsItsOwn(r)'
    BY <1>3, <1>4 DEF HoldsItsOwn
  <2>2. LocksInTurn(r)' /\ KnowsItsVersion(r)'
    BY <1>2 DEF LocksInTurn, KnowsItsVersion, Topics!Idle
  <2> QED BY <1>2, <2>1, <2>2 DEF TopicRequestIsSound, Topics!Idle
<1>9. ASSUME NEW q \in Requests, q # r PROVE TopicRequestIsSound(q)'
  <2>1. /\ tx'[q] = tx[q] /\ TopicRequestIsSound(q) /\ tx[q] \in TopicTx /\ tx[q].apps \in SUBSET Apps
        /\ tx[q].left \in SUBSET tx[q].apps
    BY <1>2, <1>9 DEF TopicsAreSound, TopicTypes, TopicTx, TopicRequestIsSound
  <2>2. HoldsItsOwn(q)'
    <3>1. HoldsItsOwn(q)
      BY <2>1 DEF TopicRequestIsSound
    <3>2. \A a \in Apps : lock'[a] = q => a \in tx[q].apps
      BY <1>3, <3>1 DEF HoldsItsOwn
    <3>3. ASSUME NEW a \in Apps, NEW i \in 1..Len(revLock'[a]), revLock'[a][i] = q
          PROVE  a \in tx[q].apps /\ tx[q].pc \in {"revision", "proposal", "commit"}
      <4>1. i \in 1..Len(revLock[a]) /\ revLock[a][i] = q
        BY <1>4, <3>3
      <4> QED BY <3>1, <4>1 DEF HoldsItsOwn
    <3> QED BY <2>1, <3>2, <3>3 DEF HoldsItsOwn
  <2>3. LocksInTurn(q)'
    <3>1. (\A a \in tx[q].apps : lock'[a] = q <=> lock[a] = q) /\ LocksInTurn(q)
      BY <1>3, <1>9, <2>1 DEF TopicRequestIsSound
    <3> QED BY <2>1, <3>1 DEF LocksInTurn
  <2>4. ASSUME tx[q].op \in {"review", "adopt"}, NEW a \in tx[q].apps
        PROVE  /\ tx[q].seen[a] \in 0..version'[a] /\ tx[q].rev[a] \in 1..Len(revisions'[a])
               /\ tx[q].seen[a] = version'[a] =>
                     status'[a] \in Topics!Undecided /\ tx[q].rev[a] = Len(revisions'[a])
    <3>1. /\ tx[q].seen[a] \in 0..version[a] /\ tx[q].rev[a] \in 1..Len(revisions[a])
          /\ tx[q].seen[a] = version[a] =>
                status[a] \in Topics!Undecided /\ tx[q].rev[a] = Len(revisions[a])
      BY <2>1, <2>4 DEF TopicRequestIsSound, KnowsItsVersion
    <3>2. a \in Apps /\ version[a] \in Nat /\ Len(revisions[a]) \in Nat /\ Len(revisions'[a]) \in Nat
      <4>1. a \in Apps /\ version[a] \in Nat /\ revisions[a] \in Seq(Statuses)
        BY <2>1 DEF TopicsAreSound, TopicTypes
      <4>2. revisions'[a] \in Seq(Statuses)
        BY <1>6, <4>1 DEF TopicTypes
      <4> QED BY <4>1, <4>2
    <3>3. CASE status'[a] = status[a] /\ revisions'[a] = revisions[a] /\ version'[a] = version[a]
      BY <3>1, <3>3
    <3>4. CASE version'[a] = version[a] + 1
      <4>2. tx[q].seen[a] \in 0..version'[a] /\ tx[q].seen[a] # version'[a]
        BY <3>1, <3>2, <3>4
      <4>3. tx[q].rev[a] \in 1..Len(revisions'[a])
        BY <1>4, <3>1, <3>2
      <4> QED BY <4>2, <4>3
    <3> QED BY <3>2, <3>3, <3>4 DEF ChangesItsOwn
  <2>5. ASSUME tx[q].op = "update", tx[q].pc \in {"revision", "commit"}, NEW a \in tx[q].apps
        PROVE  status'[a] \in {"PENDING", "REJECTED"} /\ version'[a] = tx[q].seen[a]
    <3>1. lock[a] = q /\ status[a] \in {"PENDING", "REJECTED"} /\ version[a] = tx[q].seen[a]
      BY <2>1, <2>5 DEF TopicRequestIsSound, LocksInTurn, KnowsItsVersion
    <3>2. a \in Apps /\ status'[a] = status[a] /\ version'[a] = version[a]
      BY <1>9, <2>1, <3>1 DEF ChangesItsOwn
    <3> QED BY <3>1, <3>2
  <2>6. KnowsItsVersion(q)'
    BY <2>1, <2>4, <2>5 DEF KnowsItsVersion
  <2>7. \A a \in tx[q].apps : status'[a] # "NONE"
    BY <2>1 DEF TopicRequestIsSound, ChangesItsOwn
  <2> QED BY <2>1, <2>2, <2>3, <2>6, <2>7 DEF TopicRequestIsSound
<1> QED BY <1>6, <1>7, <1>8, <1>9 DEF TopicsAreSound

\* What every step of a request on proposals of topics does.
TopicLife == Topics!Overtaken \/ Topics!Contract!Next \/ UNCHANGED Topics!Contract!vars
EditSeen ==
    \A r \in Requests : Topics!At(r, "update", "commit") /\ tx'[r] = Topics!Idle =>
        \A a \in tx[r].apps : tx[r].seen[a] = version[a]

LEMMA EditsAreSeen == TopicsAreSound => EditSeen
BY DEF TopicsAreSound, TopicRequestIsSound, KnowsItsVersion, EditSeen, Topics!At

LEMMA TopicSubmits ==
    ASSUME TopicsAreSound, NEW a \in Apps, Topics!Submit(a)
    PROVE  TopicsAreSound' /\ TopicLife
<1>1. /\ status[a] = "NONE" /\ status' = [status EXCEPT ![a] = "PENDING"]
      /\ revisions' = [revisions EXCEPT ![a] = <<"PENDING">>] /\ version' = [version EXCEPT ![a] = 1]
      /\ revLock' = [revLock EXCEPT ![a] = <<NoReq>>] /\ UNCHANGED <<results, lock, tx>>
  BY DEF Topics!Submit
<1>2. TopicTypes'
  <2>1. <<"PENDING">> \in Seq(Statuses) /\ <<NoReq>> \in Seq(Requests \cup {NoReq}) /\ "PENDING" \in StanceStatuses
    BY DEF Statuses, StanceStatuses
  <2> QED BY <1>1, <2>1 DEF TopicsAreSound, TopicTypes
<1>3. /\ \A b \in Apps \ {a} : /\ status'[b] = status[b] /\ revisions'[b] = revisions[b]
                               /\ version'[b] = version[b] /\ revLock'[b] = revLock[b]
      /\ revisions'[a] = <<"PENDING">> /\ revLock'[a] = <<NoReq>>
  BY <1>1 DEF TopicsAreSound, TopicTypes
<1>4. RevisionsAreRows'
  <2>1. Len(<<"PENDING">>) = 1 /\ Len(<<NoReq>>) = 1
    OBVIOUS
  <2>2. ASSUME NEW b \in Apps
        PROVE  Len(revLock'[b]) = Len(revisions'[b]) /\ (status'[b] # "NONE" => Len(revisions'[b]) > 0)
    <3>1. CASE b = a
      BY <1>3, <2>1, <3>1
    <3>2. CASE b # a
      BY <1>3, <3>2 DEF TopicsAreSound, RevisionsAreRows
    <3> QED BY <3>1, <3>2
  <2> QED BY <2>2 DEF RevisionsAreRows
<1>5. ASSUME NEW r \in Requests PROVE TopicRequestIsSound(r)'
  <2>1. /\ TopicRequestIsSound(r) /\ tx[r].apps \in SUBSET Apps /\ a \notin tx[r].apps
        /\ tx'[r] = tx[r] /\ tx[r].left \in SUBSET tx[r].apps
    BY <1>1 DEF TopicsAreSound, TopicTypes, TopicTx, TopicRequestIsSound
  <2>2. HoldsItsOwn(r)'
    <3>1. HoldsItsOwn(r) /\ r # NoReq
      BY <2>1, ProposalsAssumption DEF TopicRequestIsSound
    <3>2. \A i \in 1..Len(revLock'[a]) : revLock'[a][i] # r
      BY <1>3, <3>1
    <3>3. ASSUME NEW b \in Apps, NEW i \in 1..Len(revLock'[b]), revLock'[b][i] = r
          PROVE  b \in tx[r].apps /\ tx[r].pc \in {"revision", "proposal", "commit"}
      <4>1. b # a
        BY <3>2, <3>3
      <4>2. revLock'[b] = revLock[b]
        BY <1>3, <4>1
      <4> QED BY <3>1, <3>3, <4>2 DEF HoldsItsOwn
    <3>4. \A b \in Apps : lock'[b] = r => b \in tx[r].apps
      BY <1>1, <3>1 DEF HoldsItsOwn
    <3> QED BY <2>1, <3>3, <3>4 DEF HoldsItsOwn
  <2>3. LocksInTurn(r)'
    BY <1>1, <2>1 DEF TopicRequestIsSound, LocksInTurn
  <2>4. \A b \in tx[r].apps : status'[b] = status[b] /\ revisions'[b] = revisions[b] /\ version'[b] = version[b]
    BY <1>3, <2>1
  <2>5. KnowsItsVersion(r)'
    <3>1. KnowsItsVersion(r)
      BY <2>1 DEF TopicRequestIsSound
    <3> QED BY <2>1, <2>4, <3>1 DEF KnowsItsVersion
  <2> QED BY <2>1, <2>2, <2>3, <2>4, <2>5 DEF TopicRequestIsSound
<1>6. Topics!Contract!Submit(a)
  BY <1>1, Zenon DEF Topics!Contract!Submit
<1> QED BY <1>2, <1>4, <1>5, <1>6 DEF TopicsAreSound, TopicLife, Topics!Contract!Next

LEMMA TopicEdits ==
    ASSUME TopicsAreSound, NEW r \in Requests, Topics!CommitUpdate(r)
    PROVE  TopicsAreSound' /\ TopicLife
<1>1. /\ tx[r].op = "update" /\ tx[r].pc = "commit" /\ Topics!Touched(r) /\ UNCHANGED results /\ Topics!End(r)
      /\ TopicRequestIsSound(r)
  BY DEF Topics!CommitUpdate, Topics!At, TopicsAreSound
<1>2. PICK a \in Apps : tx[r].apps = {a}
  BY <1>1 DEF TopicRequestIsSound
<1>3. (CHOOSE b \in tx[r].apps : TRUE) = a
  BY <1>2
<1>4. lock[a] = r /\ status[a] \in {"PENDING", "REJECTED"}
  BY <1>1, <1>2 DEF TopicRequestIsSound, LocksInTurn, KnowsItsVersion
<1>5. IF status[a] = "REJECTED"
      THEN status' = [status EXCEPT ![a] = "PENDING"] /\ revisions' = [revisions EXCEPT ![a] = Append(@, "PENDING")]
      ELSE UNCHANGED <<status, revisions>>
  BY <1>3, Zenon DEF Topics!CommitUpdate
<1>6. /\ status \in [Apps -> StanceStatuses] /\ revisions \in [Apps -> Seq(Statuses)]
      /\ version \in [Apps -> Nat] /\ results \in [Apps -> Nat]
  BY DEF TopicsAreSound, TopicTypes
<1>7. version' \in [Apps -> Nat] /\ \A b \in Apps : version'[b] = IF b = a THEN version[b] + 1 ELSE version[b]
  BY <1>1, <1>2, <1>6 DEF Topics!Touched
<1>8. /\ status' \in [Apps -> StanceStatuses] /\ revisions' \in [Apps -> Seq(Statuses)]
      /\ \A b \in Apps \ {a} : status'[b] = status[b] /\ revisions'[b] = revisions[b]
      /\ status'[a] # "NONE" /\ Len(revisions'[a]) \in {Len(revisions[a]), Len(revisions[a]) + 1}
      /\ TopicLife
  <2>1. CASE status[a] = "REJECTED"
    <3>1. revisions[a] \in Seq(Statuses) /\ "PENDING" \in Statuses /\ "PENDING" \in StanceStatuses
      BY <1>6 DEF Statuses, StanceStatuses
    <3>2. /\ Append(revisions[a], "PENDING") \in Seq(Statuses)
          /\ Len(Append(revisions[a], "PENDING")) = Len(revisions[a]) + 1
      BY <3>1, AppendProperties
    <3>3. status' = [status EXCEPT ![a] = "PENDING"] /\ revisions' = [revisions EXCEPT ![a] = Append(@, "PENDING")]
      BY <1>5, <2>1
    <3>4. Topics!Contract!Resubmit(a)
      BY <1>1, <2>1, <3>3, Zenon DEF Topics!Contract!Resubmit
    <3>5. TopicLife
      BY <3>4 DEF TopicLife, Topics!Contract!Next
    <3> QED BY <1>6, <3>1, <3>2, <3>3, <3>5
  <2>2. CASE status[a] # "REJECTED"
    <3>1. UNCHANGED <<status, revisions, results>>
      BY <1>1, <1>5, <2>2
    <3>2. TopicLife
      BY <3>1, Zenon DEF TopicLife, Topics!Contract!vars
    <3> QED BY <1>4, <1>6, <3>1, <3>2
  <2> QED BY <2>1, <2>2
<1>9. ChangesItsOwn(r)
  BY <1>2, <1>4, <1>7, <1>8 DEF ChangesItsOwn
<1>10. results' \in [Apps -> Nat]
  BY <1>1, <1>6
<1> QED BY <1>1, <1>7, <1>8, <1>9, <1>10, TopicEnds

\* Decisions of proposals that have not changed since they were read are those of their last revision.
LEMMA TopicDecides ==
    ASSUME TopicsAreSound, NEW r \in Requests, NEW s \in Statuses, Topics!Decide(r, s), Topics!Touched(r),
           tx[r].op \in {"review", "adopt"}, tx[r].pc = "commit", tx'[r] = Topics!Idle
    PROVE  /\ status' \in [Apps -> StanceStatuses] /\ revisions' \in [Apps -> Seq(Statuses)]
           /\ version' \in [Apps -> Nat] /\ ChangesItsOwn(r)
           /\ \/ Topics!Overtaken
              \/ /\ \A a \in tx[r].apps : status[a] \in Topics!Undecided
                 /\ Topics!Contract!Decide(tx[r].apps, s)
<1>1. /\ status \in [Apps -> StanceStatuses] /\ revisions \in [Apps -> Seq(Statuses)]
      /\ version \in [Apps -> Nat] /\ tx[r].apps \in SUBSET Apps /\ TopicRequestIsSound(r)
  BY DEF TopicsAreSound, TopicTypes, TopicTx
<1>2. \A a \in tx[r].apps : /\ lock[a] = r /\ tx[r].rev[a] \in 1..Len(revisions[a])
                            /\ tx[r].seen[a] = version[a] =>
                                  status[a] \in Topics!Undecided /\ tx[r].rev[a] = Len(revisions[a])
  BY <1>1 DEF TopicRequestIsSound, LocksInTurn, KnowsItsVersion
<1>3. /\ status' = [a \in Apps |-> IF a \in tx[r].apps THEN s ELSE status[a]]
      /\ revisions' = [a \in Apps |->
             IF a \in tx[r].apps THEN [revisions[a] EXCEPT ![tx[r].rev[a]] = s] ELSE revisions[a]]
      /\ version' = [a \in Apps |-> IF a \in tx[r].apps THEN version[a] + 1 ELSE version[a]]
  BY DEF Topics!Decide, Topics!Touched
<1>4. ASSUME NEW a \in tx[r].apps
      PROVE  /\ revisions'[a] \in Seq(Statuses) /\ Len(revisions'[a]) = Len(revisions[a])
             /\ revisions'[a] = [revisions[a] EXCEPT ![tx[r].rev[a]] = s]
  <2>1. a \in Apps /\ revisions[a] \in Seq(Statuses) /\ tx[r].rev[a] \in 1..Len(revisions[a])
    BY <1>1, <1>2
  <2>2. revisions'[a] = [revisions[a] EXCEPT ![tx[r].rev[a]] = s]
    BY <1>3, <2>1
  <2> QED BY <2>1, <2>2, ExceptSeq
<1>5. status' \in [Apps -> StanceStatuses] /\ version' \in [Apps -> Nat] /\ revisions' \in [Apps -> Seq(Statuses)]
  <2>1. status' \in [Apps -> StanceStatuses] /\ version' \in [Apps -> Nat]
    BY <1>1, <1>3 DEF StanceStatuses
  <2>2. \A a \in Apps : revisions'[a] \in Seq(Statuses)
    BY <1>1, <1>3, <1>4
  <2>3. revisions' = [a \in Apps |-> revisions'[a]]
    BY <1>3
  <2> QED BY <2>1, <2>2, <2>3
<1>6. ChangesItsOwn(r)
  <2>1. ASSUME NEW a \in Apps, a \notin tx[r].apps
        PROVE  status'[a] = status[a] /\ revisions'[a] = revisions[a] /\ version'[a] = version[a]
    BY <1>3, <2>1
  <2>2. ASSUME NEW a \in tx[r].apps
        PROVE  /\ lock[a] = r /\ version'[a] = version[a] + 1 /\ status'[a] # "NONE"
               /\ Len(revisions'[a]) = Len(revisions[a])
    BY <1>1, <1>2, <1>3, <1>4 DEF Statuses
  <2> QED BY <2>1, <2>2 DEF ChangesItsOwn
<1>7. ASSUME ~Topics!Overtaken PROVE \A a \in tx[r].apps : tx[r].seen[a] = version[a]
  BY <1>7 DEF Topics!Overtaken
<1>8. ASSUME ~Topics!Overtaken
      PROVE  (\A a \in tx[r].apps : status[a] \in Topics!Undecided) /\ Topics!Contract!Decide(tx[r].apps, s)
  <2>1. \A a \in tx[r].apps : status[a] \in Topics!Undecided /\ tx[r].rev[a] = Len(revisions[a])
    BY <1>2, <1>7, <1>8
  <2>2. revisions' = [a \in Apps |-> IF a \in tx[r].apps THEN [revisions[a] EXCEPT ![Len(revisions[a])] = s]
                                                         ELSE revisions[a]]
    BY <1>3, <2>1
  <2> QED BY <1>3, <2>1, <2>2, Zenon DEF Topics!Contract!Decide
<1> QED BY <1>5, <1>6, <1>8

LEMMA TopicReviews ==
    ASSUME TopicsAreSound, NEW r \in Requests, Topics!CommitReview(r)
    PROVE  TopicsAreSound' /\ TopicLife
<1>1. /\ tx[r].op = "review" /\ tx[r].pc = "commit" /\ Topics!Decide(r, tx[r].next)
      /\ Topics!Touched(r) /\ UNCHANGED results /\ Topics!End(r) /\ TopicRequestIsSound(r)
  BY DEF Topics!CommitReview, Topics!At, TopicsAreSound
<1>2. PICK a \in Apps : tx[r].apps = {a}
  BY <1>1 DEF TopicRequestIsSound
<1>3. PICK s \in {"IN_REVIEW", "REJECTED"} : tx[r].next = s
  BY <1>1 DEF TopicRequestIsSound, LocksInTurn
<1>4. s \in Statuses /\ Topics!Decide(r, s)
  BY <1>1, <1>3 DEF Statuses
<1>5. tx'[r] = Topics!Idle /\ results' \in [Apps -> Nat]
  BY <1>1 DEF Topics!End, TopicsAreSound, TopicTypes
<1>6. /\ status' \in [Apps -> StanceStatuses] /\ revisions' \in [Apps -> Seq(Statuses)]
      /\ version' \in [Apps -> Nat] /\ ChangesItsOwn(r)
      /\ \/ Topics!Overtaken
         \/ /\ \A b \in tx[r].apps : status[b] \in Topics!Undecided
            /\ Topics!Contract!Decide(tx[r].apps, s)
  BY <1>1, <1>4, <1>5, TopicDecides
<1>7. ASSUME ~Topics!Overtaken PROVE TopicLife
  <2>1. status[a] \in Topics!Contract!Undecided /\ Topics!Contract!Decide({a}, s)
    BY <1>2, <1>6, <1>7 DEF Topics!Undecided, Topics!Contract!Undecided
  <2>2. Topics!Contract!Review(a, s)
    BY <1>1, <2>1, Zenon DEF Topics!Contract!Review
  <2>3. Topics!Contract!Next
    BY <1>3, <2>2 DEF Topics!Contract!Next
  <2> QED BY <2>3 DEF TopicLife
<1>8. TopicLife
  BY <1>7 DEF TopicLife
<1> QED BY <1>1, <1>5, <1>6, <1>8, TopicEnds

LEMMA TopicAdopts ==
    ASSUME TopicsAreSound, NEW r \in Requests, Topics!CommitAdopt(r)
    PROVE  TopicsAreSound' /\ TopicLife
<1>1. /\ tx[r].op = "adopt" /\ tx[r].pc = "commit" /\ Topics!Decide(r, "APPROVED")
      /\ Topics!Touched(r) /\ Topics!End(r)
      /\ results' = [a \in Apps |-> IF a \in tx[r].apps THEN results[a] + 1 ELSE results[a]]
  BY DEF Topics!CommitAdopt, Topics!At
<1>2. results \in [Apps -> Nat] /\ tx[r].apps \in SUBSET Apps
  BY DEF TopicsAreSound, TopicTypes, TopicTx
<1>3. tx'[r] = Topics!Idle /\ results' \in [Apps -> Nat] /\ "APPROVED" \in Statuses
  BY <1>1, <1>2 DEF Topics!End, TopicsAreSound, TopicTypes, Statuses
<1>4. /\ status' \in [Apps -> StanceStatuses] /\ revisions' \in [Apps -> Seq(Statuses)]
      /\ version' \in [Apps -> Nat] /\ ChangesItsOwn(r)
      /\ \/ Topics!Overtaken
         \/ /\ \A b \in tx[r].apps : status[b] \in Topics!Undecided
            /\ Topics!Contract!Decide(tx[r].apps, "APPROVED")
  BY <1>1, <1>3, TopicDecides
<1>5. \A a \in Apps : (results'[a] > 0) = ([b \in Apps |-> results[b] > 0][a] \/ a \in tx[r].apps)
  <2>1. ASSUME NEW a \in Apps PROVE (results'[a] > 0) = (results[a] > 0 \/ a \in tx[r].apps)
    <3>1. results[a] \in Nat /\ results'[a] = IF a \in tx[r].apps THEN results[a] + 1 ELSE results[a]
      BY <1>1, <1>2
    <3>2. CASE a \in tx[r].apps
      BY <3>1, <3>2
    <3>3. CASE a \notin tx[r].apps
      BY <3>1, <3>3
    <3> QED BY <3>2, <3>3
  <2> QED BY <2>1, Zenon
<1>6. [a \in Apps |-> results'[a] > 0] = [a \in Apps |-> [b \in Apps |-> results[b] > 0][a] \/ a \in tx[r].apps]
  BY <1>5, Zenon
<1>7. ASSUME ~Topics!Overtaken PROVE TopicLife
  <2>1. \A b \in tx[r].apps : status[b] \in Topics!Contract!Undecided
    BY <1>4, <1>7 DEF Topics!Undecided, Topics!Contract!Undecided
  <2>2. Topics!Contract!Adopt(tx[r].apps)
    BY <1>4, <1>6, <1>7, <2>1, Zenon DEF Topics!Contract!Adopt
  <2>3. Topics!Contract!Next
    <3>1. PICK A \in SUBSET Apps : A = tx[r].apps
      BY <1>2
    <3>2. Topics!Contract!Adopt(A)
      BY <2>2, <3>1, Zenon DEF Topics!Contract!Adopt, Topics!Contract!Decide
    <3> QED BY <3>2, Zenon DEF Topics!Contract!Next
  <2> QED BY <2>3 DEF TopicLife
<1>8. TopicLife
  BY <1>7 DEF TopicLife
<1> QED BY <1>1, <1>3, <1>4, <1>8, TopicEnds

LEMMA TopicStep ==
    ASSUME TopicsAreSound, [Topics!Next]_topicVars
    PROVE  TopicsAreSound' /\ TopicLife
<1> DEFINE Kept == UNCHANGED <<status, revisions, results>>
<1>1. Kept => TopicLife
  BY Zenon DEF TopicLife, Topics!Contract!vars
<1>2. ASSUME NEW a \in Apps, Topics!Submit(a) PROVE TopicsAreSound' /\ TopicLife
  BY <1>2, TopicSubmits
<1>3. ASSUME NEW r \in Requests, Topics!Statement(r) PROVE TopicsAreSound' /\ (Kept \/ TopicLife)
  <2>1. CASE Topics!LockApplication(r)
    BY <2>1, TopicLocks DEF Topics!LockApplication, Topics!apps
  <2>2. CASE Topics!Recheck(r)
    BY <2>2, TopicRechecks DEF Topics!Recheck, Topics!apps
  <2>3. CASE Topics!LockRevision(r)
    BY <2>3, TopicLocksRevision DEF Topics!LockRevision, Topics!apps
  <2>4. CASE Topics!LockProposal(r)
    BY <2>4, TopicLocksProposal DEF Topics!LockProposal, Topics!apps
  <2>5. CASE Topics!CommitUpdate(r)
    BY <2>5, TopicEdits
  <2>6. CASE Topics!CommitReview(r)
    BY <2>6, TopicReviews
  <2>7. CASE Topics!CommitAdopt(r)
    BY <2>7, TopicAdopts
  <2>8. CASE Topics!Refuse(r)
    <3>1. Topics!End(r) /\ UNCHANGED <<status, revisions, version, results>>
      BY <2>8 DEF Topics!Refuse, Topics!apps
    <3>2. ChangesItsOwn(r)
      BY <3>1 DEF ChangesItsOwn
    <3>3. /\ status' \in [Apps -> StanceStatuses] /\ revisions' \in [Apps -> Seq(Statuses)]
          /\ version' \in [Apps -> Nat] /\ results' \in [Apps -> Nat]
      BY <3>1 DEF TopicsAreSound, TopicTypes
    <3> QED BY <3>1, <3>2, <3>3, TopicEnds
  <2> QED BY <1>3, <2>1, <2>2, <2>3, <2>4, <2>5, <2>6, <2>7, <2>8 DEF Topics!Statement
<1>4. ASSUME NEW r \in Requests, Topics!AbortVictim(r) \/ Topics!Rollback(r) PROVE TopicsAreSound' /\ Kept
  <2>1. Topics!End(r) /\ UNCHANGED <<status, revisions, version, results>>
    BY <1>4 DEF Topics!AbortVictim, Topics!Rollback, Topics!apps
  <2>2. ChangesItsOwn(r)
    BY <2>1 DEF ChangesItsOwn
  <2>3. /\ status' \in [Apps -> StanceStatuses] /\ revisions' \in [Apps -> Seq(Statuses)]
        /\ version' \in [Apps -> Nat] /\ results' \in [Apps -> Nat]
    BY <2>1 DEF TopicsAreSound, TopicTypes
  <2> QED BY <2>1, <2>2, <2>3, TopicEnds
<1>5. ASSUME NEW r \in Requests, NEW a \in Apps, Topics!ArriveUpdate(r, a) PROVE TopicsAreSound' /\ Kept
  <2>1. /\ status[a] \in {"PENDING", "REJECTED"} /\ Topics!Arrive(r, "update", {a}, "none", "lock")
    BY <1>5 DEF Topics!ArriveUpdate
  <2>2. TopicsAreSound'
    BY <2>1, TopicArrives DEF TopicOps, Outcomes
  <2>3. Kept
    BY <2>1 DEF Topics!Arrive, Topics!apps
  <2> QED BY <2>2, <2>3
<1>6. ASSUME NEW r \in Requests, NEW a \in Apps, NEW s \in {"IN_REVIEW", "REJECTED"}, Topics!ArriveReview(r, a, s)
      PROVE  TopicsAreSound' /\ Kept
  <2>1. /\ status[a] \in Topics!Undecided /\ Topics!Arrive(r, "review", {a}, s, "revision")
    BY <1>6 DEF Topics!ArriveReview
  <2>2. TopicsAreSound'
    BY <2>1, TopicArrives DEF TopicOps, Outcomes
  <2>3. Kept
    BY <2>1 DEF Topics!Arrive, Topics!apps
  <2> QED BY <2>2, <2>3
<1>7. ASSUME NEW r \in Requests, NEW A \in SUBSET Apps, Topics!ArriveAdopt(r, A) PROVE TopicsAreSound' /\ Kept
  <2>1. (\A a \in A : status[a] \in Topics!Undecided) /\ Topics!Arrive(r, "adopt", A, "none", "lock")
    BY <1>7 DEF Topics!ArriveAdopt
  <2>2. TopicsAreSound'
    BY <2>1, TopicArrives DEF TopicOps, Outcomes
  <2>3. Kept
    BY <2>1 DEF Topics!Arrive, Topics!apps
  <2> QED BY <2>2, <2>3
<1>8. CASE UNCHANGED topicVars
  <2>1. UNCHANGED <<status, revisions, version, results, lock, revLock, tx>>
    BY <1>8 DEF topicVars
  <2>2. TopicTypes' /\ RevisionsAreRows'
    BY <2>1 DEF TopicsAreSound, TopicTypes, RevisionsAreRows
  <2>3. ASSUME NEW r \in Requests PROVE TopicRequestIsSound(r)'
    <3>1. /\ TopicRequestIsSound(r)
          /\ HoldsItsOwn(r)' = HoldsItsOwn(r) /\ LocksInTurn(r)' = LocksInTurn(r)
          /\ KnowsItsVersion(r)' = KnowsItsVersion(r)
      BY <2>1 DEF TopicsAreSound, HoldsItsOwn, LocksInTurn, KnowsItsVersion
    <3> QED BY <2>1, <3>1 DEF TopicRequestIsSound
  <2> QED BY <1>1, <2>1, <2>2, <2>3 DEF TopicsAreSound
<1> HIDE DEF Kept
<1> QED BY <1>1, <1>2, <1>3, <1>4, <1>5, <1>6, <1>7, <1>8 DEF Topics!Next

-----------------------------------------------------------------------------
(* Deadlocks of topic proposals.                                           *)

LEMMA WhomTheyWaitFor ==
    ASSUME NEW r, NEW q, Topics!WaitsFor(r, q), tx[r].pc # "proposal"
    PROVE  /\ q # r
           /\ \/ tx[r].pc = "lock" /\ \E a \in Topics!NextToLock(r) : q = lock[a]
              \/ /\ tx[r].pc = "revision"
                 /\ \E a \in Topics!NextToLock(r) : q = revLock[a][Topics!RevisionOf(r, a)]
<1>1. q # r /\ q \in Topics!Holders(r)
  BY DEF Topics!WaitsFor
<1>2. CASE tx[r].pc = "lock"
  BY <1>1, <1>2 DEF Topics!Holders
<1>3. CASE tx[r].pc = "revision"
  BY <1>1, <1>3 DEF Topics!Holders
<1>4. CASE tx[r].pc \notin {"lock", "revision", "proposal"}
  BY <1>1, <1>4 DEF Topics!Holders
<1> QED BY <1>2, <1>3, <1>4

\* Edits and adoptions hold all their proposals before they wait for a revision, so they only
\* ever wait for each other's proposals, which they lock in the order of their ids.
LEMMA OnlyReviewsDeadlock == TopicsAreSound => Topics!DeadlocksInvolveReview
<1> SUFFICES ASSUME TopicsAreSound, NEW D \in SUBSET {r \in Requests : tx[r].op # "review" /\ tx[r] # Topics!Idle},
                    D # {}, \A r \in D : \E q \in D : Topics!WaitsFor(r, q)
             PROVE  FALSE
  BY DEF Topics!DeadlocksInvolveReview, Topics!Deadlocked
<1>1. ASSUME NEW r \in D
      PROVE  /\ TopicRequestIsSound(r) /\ tx[r].op \in {"update", "adopt"} /\ tx[r].pc # "proposal"
             /\ tx[r].apps \in SUBSET Apps /\ tx[r].left \in SUBSET tx[r].apps
  <2>1. TopicRequestIsSound(r) /\ tx[r] \in TopicTx /\ tx[r].op \notin {"review", "none"}
    BY DEF TopicsAreSound, TopicTypes, TopicRequestIsSound
  <2>2. tx[r].op \in {"update", "adopt"} /\ tx[r].pc # "proposal"
    BY <2>1 DEF TopicTx, TopicOps, TopicRequestIsSound, LocksInTurn
  <2> QED BY <2>1, <2>2 DEF TopicTx, TopicRequestIsSound
<1>2. ASSUME NEW r \in D, NEW a \in Topics!NextToLock(r) PROVE a \in tx[r].left /\ a \in tx[r].apps /\ a \in Apps
  BY <1>1 DEF Topics!NextToLock
<1>3. ASSUME NEW r \in D, tx[r].pc # "lock" PROVE FALSE
  <2>1. PICK q \in D : Topics!WaitsFor(r, q)
    OBVIOUS
  <2>2. tx[r].pc = "revision" /\ q # r
    BY <1>1, <1>3, <2>1, WhomTheyWaitFor
  <2>3. PICK a \in Topics!NextToLock(r) : q = revLock[a][Topics!RevisionOf(r, a)]
    <3>1. q \in Topics!Holders(r)
      BY <2>1 DEF Topics!WaitsFor
    <3> QED BY <2>2, <3>1 DEF Topics!Holders
  <2>4. a \in Apps /\ a \in tx[r].apps /\ lock[a] = r /\ status[a] # "NONE"
    <3>1. a \in Apps /\ a \in tx[r].apps
      BY <1>2
    <3>2. LocksInTurn(r) /\ status[a] # "NONE"
      BY <1>1, <3>1 DEF TopicRequestIsSound
    <3>3. tx[r].op \in {"update", "adopt"}
      BY <1>1
    <3> QED BY <2>2, <3>1, <3>2, <3>3 DEF LocksInTurn
  <2>5. Topics!RevisionOf(r, a) \in 1..Len(revLock[a])
    <3>1. Len(revLock[a]) = Len(revisions[a]) /\ Len(revisions[a]) > 0 /\ Len(revisions[a]) \in Nat
      BY <2>4 DEF TopicsAreSound, TopicTypes, RevisionsAreRows
    <3>2. CASE tx[r].op = "update"
      BY <3>1, <3>2 DEF Topics!RevisionOf
    <3>3. CASE tx[r].op = "adopt"
      <4>1. tx[r].rev[a] \in 1..Len(revisions[a])
        BY <1>1, <2>4, <3>3 DEF TopicRequestIsSound, KnowsItsVersion
      <4> QED BY <3>1, <3>3, <4>1 DEF Topics!RevisionOf
    <3> QED BY <1>1, <3>2, <3>3
  <2>6. a \in tx[q].apps /\ tx[q].pc \in {"revision", "proposal", "commit"}
    <3>1. HoldsItsOwn(q)
      BY <1>1 DEF TopicRequestIsSound
    <3> QED BY <2>3, <2>4, <2>5, <3>1 DEF HoldsItsOwn
  <2>7. lock[a] = q
    BY <1>1, <2>6 DEF TopicRequestIsSound, LocksInTurn
  <2> QED BY <2>2, <2>4, <2>7
<1> DEFINE Awaited == {a \in Apps : \E r \in D : a \in Topics!NextToLock(r) /\ lock[a] \in D \ {r}}
<1>4. ASSUME NEW r \in D PROVE \E a \in Awaited : a \in Topics!NextToLock(r) /\ lock[a] \in D \ {r}
  <2>1. PICK q \in D : Topics!WaitsFor(r, q)
    OBVIOUS
  <2>2. PICK a \in Topics!NextToLock(r) : lock[a] = q /\ q # r
    BY <1>1, <1>3, <2>1, WhomTheyWaitFor
  <2> QED BY <1>2, <2>2
<1>5. Awaited \in SUBSET Nat /\ IsFiniteSet(Awaited) /\ Awaited # {}
  BY <1>4, FS_Subset
<1>6. PICK a \in Awaited : \A b \in Awaited : b <= a
  <2> HIDE DEF Awaited
  <2> QED BY <1>5, GreatestNumber
<1>7. PICK q \in D : lock[a] = q
  OBVIOUS
<1>8. PICK b \in Awaited : b \in Topics!NextToLock(q)
  BY <1>4
<1>9. /\ TopicRequestIsSound(q) /\ tx[q].pc = "lock" /\ b \in tx[q].left /\ b \in tx[q].apps
      /\ a \in tx[q].apps /\ a \notin tx[q].left
  <2>1. TopicRequestIsSound(q) /\ tx[q].pc = "lock" /\ b \in tx[q].left /\ b \in tx[q].apps
    BY <1>1, <1>2, <1>3, <1>8
  <2>2. a \in Apps /\ a \in tx[q].apps
    BY <1>7, <2>1 DEF TopicRequestIsSound, HoldsItsOwn
  <2>3. a \notin tx[q].left
    BY <1>7, <2>1, <2>2 DEF TopicRequestIsSound, LocksInTurn
  <2> QED BY <2>1, <2>2, <2>3
<1>10. a < b
  <2>1. LocksInTurn(q) /\ tx[q].pc = "lock"
    BY <1>9 DEF TopicRequestIsSound
  <2>2. \A c \in tx[q].apps : \A d \in tx[q].left : c \notin tx[q].left => c < d
    BY <2>1 DEF LocksInTurn
  <2> QED BY <1>9, <2>2
<1> QED BY <1>5, <1>6, <1>8, <1>10

-----------------------------------------------------------------------------
(* Both kinds of proposals.                                                *)

ProposalsAreSound == StancesAreSound /\ TopicsAreSound

LEMMA ProposalsStart == ProposalsInit => ProposalsAreSound
BY StancesInit, TopicsInit DEF ProposalsInit, ProposalsAreSound

LEMMA ProposalsStep ==
    ProposalsAreSound /\ [ProposalsNext]_<<scope, stanceVars, topicVars>> =>
        ProposalsAreSound' /\ [Stances!Next]_stanceVars /\ [Topics!Next]_topicVars
<1> SUFFICES ASSUME ProposalsAreSound, [ProposalsNext]_<<scope, stanceVars, topicVars>>
             PROVE  ProposalsAreSound' /\ [Stances!Next]_stanceVars /\ [Topics!Next]_topicVars
  OBVIOUS
<1>1. [Stances!Next]_stanceVars /\ [Topics!Next]_topicVars
  BY DEF ProposalsNext
<1> QED BY <1>1, StanceStep, TopicStep DEF ProposalsAreSound

LEMMA ProposalsInvariant == ProposalsSpec => []ProposalsAreSound
BY ProposalsStart, ProposalsStep, PTL DEF ProposalsSpec

\* However many requests overlap, stance proposals are locked in one order, and no deadlock of
\* topic proposals is without a review.
THEOREM ReviewsAloneDeadlock == ProposalsSpec => []DeadlocksInvolveReview
<1>1. ProposalsAreSound => DeadlocksInvolveReview
  BY StancesLockInOrder, OnlyReviewsDeadlock DEF ProposalsAreSound, DeadlocksInvolveReview
<1> QED BY <1>1, ProposalsInvariant, PTL

\* Every commit is one step of the life of a proposal, except a decision on a topic proposal
\* that has changed since its reviewer read it.
THEOREM CommitsAreSteps == ProposalsSpec => ImplementsLifecycle
<1> DEFINE StanceCommit == Stances!Contract!vars' # Stances!Contract!vars => Stances!Contract!Next
           TopicCommit == Topics!Contract!vars' # Topics!Contract!vars => Topics!Overtaken \/ Topics!Contract!Next
<1>1. ProposalsInit => Stances!Contract!Init
  BY DEF ProposalsInit, Stances!Init, Stances!Contract!Init
<1>2. ProposalsInit => Topics!Contract!Init
  <2> SUFFICES ASSUME Topics!Init PROVE Topics!Contract!Init
    BY DEF ProposalsInit
  <2>2. \A a \in Apps : results[a] = 0
    BY DEF Topics!Init
  <2>3. \A a \in Apps : (results[a] > 0) = FALSE
    <3>1. (0 > 0) = FALSE
      OBVIOUS
    <3> QED BY <2>2, <3>1, Zenon
  <2>4. [a \in Apps |-> results[a] > 0] = [a \in Apps |-> FALSE]
    BY <2>3, Zenon
  <2>5. /\ status = [a \in Apps |-> "NONE"]
        /\ revisions = [a \in Apps |-> <<>>]
    BY Zenon DEF Topics!Init
  <2> QED BY <2>4, <2>5, Zenon DEF Topics!Contract!Init
<1>3. ProposalsAreSound /\ [ProposalsNext]_<<scope, stanceVars, topicVars>> =>
          [StanceCommit]_(Stances!vars) /\ [TopicCommit]_(Topics!vars)
  <2> SUFFICES ASSUME ProposalsAreSound, [ProposalsNext]_<<scope, stanceVars, topicVars>>
                 PROVE  StanceLife /\ TopicLife
    BY Zenon DEF StanceLife, TopicLife
  <2>2. /\ StancesAreSound /\ [Stances!Next]_stanceVars
        /\ TopicsAreSound /\ [Topics!Next]_topicVars
    BY ProposalsStep DEF ProposalsAreSound
  <2>3. StanceLife
    BY <2>2, StanceStep
  <2>4. TopicLife
    BY <2>2, TopicStep
  <2> QED BY <2>3, <2>4
<1> HIDE DEF StanceCommit, TopicCommit
<1>4. ProposalsSpec => [][StanceCommit]_(Stances!vars) /\ [][TopicCommit]_(Topics!vars)
  BY <1>3, ProposalsInvariant, PTL DEF ProposalsSpec
<1>5. ProposalsSpec => Stances!ImplementsLifecycle
  BY <1>1, <1>4, PTL DEF ProposalsSpec, Stances!ImplementsLifecycle, StanceCommit
<1>6. ProposalsSpec => Topics!ImplementsLifecycle
  BY <1>2, <1>4, PTL DEF ProposalsSpec, Topics!ImplementsLifecycle, TopicCommit
<1> QED BY <1>5, <1>6 DEF ImplementsLifecycle

\* Requests act on the versions their users have seen, and a stance is published only while its
\* topic is open and what it answers is up.
THEOREM RequestsSeeTheState == ProposalsSpec => DecisionsSeeTheState
<1> DEFINE Edit == Topics!apps' # Topics!apps => EditSeen
<1>1. ProposalsAreSound /\ [ProposalsNext]_<<scope, stanceVars, topicVars>> =>
          [StanceOpen]_(Stances!vars) /\ [StanceSeen]_(Stances!vars) /\ [Edit]_(Topics!vars)
  <2> SUFFICES ASSUME ProposalsAreSound, [ProposalsNext]_<<scope, stanceVars, topicVars>>
                 PROVE  StanceOpen /\ StanceSeen /\ EditSeen
    OBVIOUS
  <2>2. StancesAreSound /\ TopicsAreSound /\ [Stances!Next]_stanceVars
    BY ProposalsStep DEF ProposalsAreSound
  <2>3. StanceOpen /\ StanceSeen
    BY <2>2, StanceStep
  <2>4. EditSeen
    BY <2>2, EditsAreSeen
  <2> QED BY <2>3, <2>4
<1> HIDE DEF Edit
<1>2. ProposalsSpec => [][StanceOpen]_(Stances!vars) /\ [][StanceSeen]_(Stances!vars) /\ [][Edit]_(Topics!vars)
  BY <1>1, ProposalsInvariant, PTL DEF ProposalsSpec
<1>3. ProposalsSpec => Stances!PublishedOnOpenTarget
  BY <1>2, PTL DEF Stances!PublishedOnOpenTarget, StanceOpen
<1>4. ProposalsSpec => Stances!ChangesWhatWasSeen
  BY <1>2, PTL DEF Stances!ChangesWhatWasSeen, StanceSeen
<1>5. ProposalsSpec => Topics!EditsSeeTheirVersion
  BY <1>2, PTL DEF Topics!EditsSeeTheirVersion, Edit, EditSeen
<1> QED BY <1>3, <1>4, <1>5 DEF DecisionsSeeTheState
=============================================================================
