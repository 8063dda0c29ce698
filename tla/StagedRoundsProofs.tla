------------------------- MODULE StagedRoundsProofs -------------------------
(***************************************************************************)
(* What a staged topic promises (StagedTopic), for any number of rounds,   *)
(* and the author's requests on it, for any number of them: until two      *)
(* overlap, each commit is a step of StagedTopic, although neither         *)
(* transaction reads again what it decided on; after an overlap a feedback *)
(* is still published with the lock of its round.                          *)
(***************************************************************************)
EXTENDS StagedRounds, SequenceTheorems, TLAPS

VARIABLE published    \* the rounds of the contract, when it is looked at alone

Topic == INSTANCE StagedTopic WITH Feedbacks <- Requests, rounds <- published

-----------------------------------------------------------------------------
(* The contract: what a staged topic promises.                             *)

\* The states a staged topic reaches: the last round is the open one of an open topic, every
\* other round is locked with its feedback.
Ordered ==
    /\ Topic!RoundsAssumption /\ Topic!TypeOK
    /\ Topic!OpenRoundIsLast /\ Topic!LockedHasFeedback /\ Topic!WithinTotal

LEMMA InitOrdered == Topic!RoundsAssumption /\ Topic!Init => Ordered
BY DEF Topic!Init, Ordered, Topic!RoundsAssumption, Topic!TypeOK, Topic!OpenRoundIsLast,
       Topic!LockedHasFeedback, Topic!WithinTotal, Topic!Round, Topic!NewRound

\* Locking the last round with a feedback: what both operations do to the rounds there are.
LEMMA LockLast ==
    ASSUME Ordered, NEW f \in Requests, parent = "OPEN"
    PROVE  LET closed == [published EXCEPT ![Len(published)] = Topic!Locked(f)] IN
           /\ closed \in Seq(Topic!Round)
           /\ Len(closed) = Len(published)
           /\ \A i \in 1..Len(published) : /\ closed[i].status = "LOCKED"
                                           /\ closed[i].feedback # NoFeedback
                                           /\ published[i].status = "LOCKED" => closed[i] = published[i]
<1> DEFINE closed == [published EXCEPT ![Len(published)] = Topic!Locked(f)]
<1>1. Len(published) \in 1..Len(published) /\ Topic!Locked(f) \in Topic!Round
  BY DEF Ordered, Topic!TypeOK, Topic!Locked, Topic!Round
<1>2. closed \in Seq(Topic!Round) /\ Len(closed) = Len(published)
  BY <1>1 DEF Ordered, Topic!TypeOK
<1>3. \A i \in 1..Len(published) : closed[i] = IF i = Len(published) THEN Topic!Locked(f) ELSE published[i]
  BY <1>1 DEF Ordered, Topic!TypeOK
<1>4. ASSUME NEW i \in 1..Len(published)
      PROVE  /\ closed[i].status = "LOCKED"
             /\ closed[i].feedback # NoFeedback
             /\ published[i].status = "LOCKED" => closed[i] = published[i]
  <2>1. CASE i = Len(published)
    BY <1>3, <2>1 DEF Ordered, Topic!OpenRoundIsLast, Topic!Locked, Topic!RoundsAssumption
  <2>2. CASE i # Len(published)
    <3>1. closed[i] = published[i] /\ published[i] \in Topic!Round
      BY <1>3, <2>2 DEF Ordered, Topic!TypeOK
    <3> QED BY <3>1, <2>2 DEF Ordered, Topic!OpenRoundIsLast, Topic!LockedHasFeedback, Topic!Round
  <2> QED BY <2>1, <2>2
<1> QED BY <1>2, <1>4

LEMMA PublishKeepsOrder ==
    ASSUME Ordered, NEW f \in Requests, Topic!PublishRound(f)
    PROVE  Ordered' /\ \A i \in 1..Len(published) : published[i].status = "LOCKED" => published'[i] = published[i]
<1> DEFINE closed == [published EXCEPT ![Len(published)] = Topic!Locked(f)]
<1>1. /\ closed \in Seq(Topic!Round) /\ Len(closed) = Len(published)
      /\ \A i \in 1..Len(published) : /\ closed[i].status = "LOCKED"
                                      /\ closed[i].feedback # NoFeedback
                                      /\ published[i].status = "LOCKED" => closed[i] = published[i]
  BY LockLast DEF Topic!PublishRound
<1>2. published' = Append(closed, Topic!NewRound) /\ parent' = "OPEN" /\ Len(published) < TotalRounds
  BY DEF Topic!PublishRound
<1> HIDE DEF closed
<1>3. Topic!NewRound \in Topic!Round /\ Len(published) \in Nat
  BY DEF Topic!NewRound, Topic!Round, Ordered, Topic!TypeOK
<1>4. /\ published' \in Seq(Topic!Round) /\ Len(published') = Len(published) + 1
      /\ published'[Len(published) + 1] = Topic!NewRound
      /\ \A i \in 1..Len(published) : published'[i] = closed[i]
  BY <1>1, <1>2, <1>3
<1>5. Topic!TypeOK' /\ Topic!WithinTotal'
  BY <1>2, <1>3, <1>4 DEF Ordered, Topic!RoundsAssumption, Topic!TypeOK, Topic!WithinTotal
<1>6. Topic!OpenRoundIsLast' /\ Topic!LockedHasFeedback'
  BY <1>1, <1>2, <1>3, <1>4 DEF Topic!OpenRoundIsLast, Topic!LockedHasFeedback, Topic!NewRound
<1> QED BY <1>1, <1>4, <1>5, <1>6 DEF Ordered

LEMMA FinishKeepsOrder ==
    ASSUME Ordered, NEW f \in Requests, Topic!Finish(f)
    PROVE  Ordered' /\ \A i \in 1..Len(published) : published[i].status = "LOCKED" => published'[i] = published[i]
<1>1. /\ published' \in Seq(Topic!Round) /\ Len(published') = Len(published)
      /\ \A i \in 1..Len(published) : /\ published'[i].status = "LOCKED"
                                      /\ published'[i].feedback # NoFeedback
                                      /\ published[i].status = "LOCKED" => published'[i] = published[i]
  BY LockLast DEF Topic!Finish
<1>2. parent' = "SETTLED"
  BY DEF Topic!Finish
<1>3. Topic!TypeOK' /\ Topic!WithinTotal'
  BY <1>1, <1>2 DEF Ordered, Topic!TypeOK, Topic!WithinTotal
<1>4. Topic!OpenRoundIsLast' /\ Topic!LockedHasFeedback'
  BY <1>1, <1>2 DEF Topic!OpenRoundIsLast, Topic!LockedHasFeedback
<1> QED BY <1>1, <1>3, <1>4 DEF Ordered

LEMMA StepKeepsOrder == Ordered /\ [Topic!Next]_(Topic!vars) => Ordered'
<1> SUFFICES ASSUME Ordered, [Topic!Next]_(Topic!vars) PROVE Ordered'
  OBVIOUS
<1>1. ASSUME NEW f \in Requests, Topic!PublishRound(f) PROVE Ordered'
  BY <1>1, PublishKeepsOrder
<1>2. ASSUME NEW f \in Requests, Topic!Finish(f) PROVE Ordered'
  BY <1>2, FinishKeepsOrder
<1>3. CASE UNCHANGED Topic!vars
  BY <1>3 DEF Topic!vars, Ordered, Topic!TypeOK, Topic!OpenRoundIsLast, Topic!LockedHasFeedback, Topic!WithinTotal
<1> QED BY <1>1, <1>2, <1>3 DEF Topic!Next

\* The open rounds are exactly the last one of an open topic, however many are announced.
THEOREM OneOpenRound == Topic!RoundsAssumption /\ Topic!Spec => []Topic!OpenRoundIsLast
<1>1. Ordered => Topic!OpenRoundIsLast
  BY DEF Ordered
<1> QED BY <1>1, InitOrdered, StepKeepsOrder, PTL DEF Topic!Spec

\* The author never publishes more rounds than announced, and every closed one has feedback.
THEOREM RoundsComplete == Topic!RoundsAssumption /\ Topic!Spec => [](Topic!WithinTotal /\ Topic!LockedHasFeedback)
<1>1. Ordered => Topic!WithinTotal /\ Topic!LockedHasFeedback
  BY DEF Ordered
<1> QED BY <1>1, InitOrdered, StepKeepsOrder, PTL DEF Topic!Spec

\* No step rewrites the feedback of a locked round or touches a settled topic.
THEOREM HistoryStaysFinal == Topic!RoundsAssumption /\ Topic!Spec => Topic!HistoryIsFinal
<1> DEFINE Final ==
      /\ \A i \in 1..Len(published) : published[i].status = "LOCKED" => published'[i] = published[i]
      /\ parent = "SETTLED" => UNCHANGED Topic!vars
<1>1. Ordered /\ [Topic!Next]_(Topic!vars) => [Final]_(Topic!vars)
  <2> SUFFICES ASSUME Ordered, Topic!Next PROVE Final
    OBVIOUS
  <2>1. parent = "OPEN"
    BY DEF Topic!Next, Topic!PublishRound, Topic!Finish
  <2>2. \A i \in 1..Len(published) : published[i].status = "LOCKED" => published'[i] = published[i]
    BY PublishKeepsOrder, FinishKeepsOrder DEF Topic!Next
  <2> QED BY <2>1, <2>2
<1> HIDE DEF Final
<1>2. Topic!RoundsAssumption /\ Topic!Spec => [][Final]_(Topic!vars)
  BY <1>1, InitOrdered, StepKeepsOrder, PTL DEF Topic!Spec
<1> QED BY <1>2 DEF Topic!HistoryIsFinal, Final

-----------------------------------------------------------------------------
(* The author's requests.                                                  *)

Publishing == {<<"lockLatest", "touchParent", "insert">>, <<"touchParent", "insert">>, <<"insert">>}
Finishing  == {<<"lockRounds", "settle">>, <<"settle">>}

Row == [status : {"OPEN", "LOCKED"}, sort : Nat, feedback : Requests \cup {NoFeedback}]
Tx  == [left : {<<>>} \cup Publishing \cup Finishing, count : Nat, latest : Nat, locked : SUBSET Nat]

\* There is always a round the read takes for the latest, also when two have one sort order.
TypeOK ==
    /\ parent \in {"OPEN", "SETTLED"}
    /\ rounds \in Seq(Row) /\ rounds # <<>>
    /\ \E i \in Ids : IsLatest(i)
    /\ tx \in [Requests -> Tx]
    /\ overlapped \in BOOLEAN

FeedbackIsLocked == \A i \in Ids : rounds[i].feedback # NoFeedback => rounds[i].status = "LOCKED"

\* What a request has decided on, while it is the only one: it still holds when it commits.
Decided(r) ==
    /\ parent = "OPEN"
    /\ tx[r].count = Len(rounds) /\ tx[r].latest = Len(rounds)
    /\ tx[r].left \in Publishing => RoundsLeft
    /\ tx[r].left \in {<<"touchParent", "insert">>, <<"insert">>} => tx[r].locked = {Len(rounds)}
    /\ tx[r].left = <<"settle">> => tx[r].locked = Ids

InSequence ==
    /\ \A r, q \in Requests : ~IsIdle(r) /\ ~IsIdle(q) => r = q
    /\ \A i \in Ids : rounds[i].sort + 1 = i
    /\ \A i \in Ids : rounds[i].status = "OPEN" <=> parent = "OPEN" /\ i = Len(rounds)
    /\ \A i \in Ids : rounds[i].status = "LOCKED" <=> rounds[i].feedback # NoFeedback
    /\ \A r \in Requests : ~IsIdle(r) => Decided(r)

RoundsAreSound ==
    /\ TypeOK
    /\ FeedbackIsLocked
    /\ ~overlapped => InSequence

-----------------------------------------------------------------------------
LEMMA RoundsInit == Init => RoundsAreSound
<1> SUFFICES ASSUME Init PROVE RoundsAreSound
  OBVIOUS
<1>1. NewRound(0) \in Row /\ Idle \in Tx
  BY DEF NewRound, Row, Idle, Tx
<1>2. Ids = {1} /\ Len(rounds) = 1 /\ rounds[1] = NewRound(0)
  BY DEF Init, Ids
<1>3. IsLatest(1)
  BY <1>2 DEF IsLatest
<1>4. TypeOK
  <2>1. rounds \in Seq(Row) /\ rounds # <<>>
    BY <1>1 DEF Init
  <2>2. \E i \in Ids : IsLatest(i)
    BY <1>2, <1>3
  <2>3. tx \in [Requests -> Tx]
    BY <1>1 DEF Init
  <2> QED BY <2>1, <2>2, <2>3 DEF Init, TypeOK
<1>5. FeedbackIsLocked
  BY <1>2 DEF FeedbackIsLocked, NewRound
<1>6. \A r \in Requests : IsIdle(r)
  BY DEF Init, IsIdle, Idle
<1>7. InSequence
  BY <1>2, <1>6 DEF Init, InSequence, NewRound
<1> QED BY <1>4, <1>5, <1>7 DEF RoundsAreSound

LEMMA LatestIsARound == TypeOK => Latest \in Ids /\ Ids = 1..Len(rounds) /\ Len(rounds) \in Ids
BY DEF TypeOK, Latest, Ids

\* Without an overlap the round with the highest sort order is the last one.
LEMMA LatestIsLast ==
    ASSUME TypeOK, InSequence
    PROVE  Latest = Len(rounds)
<1>1. Ids = 1..Len(rounds) /\ Len(rounds) \in Ids /\ \A i \in Ids : rounds[i] \in Row
  BY LatestIsARound DEF TypeOK, Ids
<1>2. \A i \in Ids : rounds[i].sort \in Nat /\ rounds[i].sort + 1 = i
  BY <1>1 DEF InSequence, Row
<1>3. \A i \in Ids : IsLatest(i) => i = Len(rounds)
  BY <1>1, <1>2 DEF IsLatest
<1>4. Latest \in Ids /\ IsLatest(Latest)
  BY DEF TypeOK, Latest
<1> QED BY <1>3, <1>4

\* What the writes of a request make of the rounds there are.
LEMMA ClosedRounds ==
    ASSUME TypeOK, NEW r \in Requests
    PROVE  /\ Closed(r) \in Seq(Row) /\ Len(Closed(r)) = Len(rounds)
           /\ \A i \in Ids :
                 /\ i \notin tx[r].locked => Closed(r)[i] = rounds[i]
                 /\ Closed(r)[i].sort = rounds[i].sort
                 /\ i \in tx[r].locked => /\ Closed(r)[i].status = "LOCKED"
                                          /\ i = tx[r].latest => Closed(r)[i].feedback = r
                                          /\ i # tx[r].latest => Closed(r)[i].feedback = rounds[i].feedback
<1>1. Ids = 1..Len(rounds) /\ Len(rounds) \in Nat /\ \A i \in Ids : rounds[i] \in Row
  BY DEF TypeOK, Ids
<1>2. ASSUME NEW i \in Ids
      PROVE  /\ Closed(r)[i] \in Row
             /\ i \notin tx[r].locked => Closed(r)[i] = rounds[i]
             /\ Closed(r)[i].sort = rounds[i].sort
             /\ i \in tx[r].locked => /\ Closed(r)[i].status = "LOCKED"
                                      /\ i = tx[r].latest => Closed(r)[i].feedback = r
                                      /\ i # tx[r].latest => Closed(r)[i].feedback = rounds[i].feedback
  <2>1. rounds[i] \in Row
    BY <1>1
  <2>2. CASE i \notin tx[r].locked
    BY <2>1, <2>2 DEF Closed
  <2>3. CASE i \in tx[r].locked
    <3>1. Closed(r)[i] = [rounds[i] EXCEPT !.status = "LOCKED",
                                           !.feedback = IF i = tx[r].latest THEN r ELSE @]
      BY <2>3 DEF Closed
    <3>2. CASE i = tx[r].latest
      BY <2>1, <2>3, <3>1, <3>2 DEF Row
    <3>3. CASE i # tx[r].latest
      BY <2>1, <2>3, <3>1, <3>3 DEF Row
    <3> QED BY <3>2, <3>3
  <2> QED BY <2>2, <2>3
<1>3. Closed(r) = [i \in 1..Len(rounds) |-> Closed(r)[i]]
  BY <1>1 DEF Closed
<1>4. Closed(r) \in Seq(Row)
  BY <1>1, <1>2, <1>3, IsASeq
<1>5. DOMAIN Closed(r) = 1..Len(rounds)
  BY <1>3
<1>6. Len(Closed(r)) = Len(rounds)
  BY <1>1, <1>4, <1>5, LenProperties
<1> QED BY <1>2, <1>4, <1>6

\* The statements a request has left, when its next one is known.
LEMMA NextStatement ==
    ASSUME TypeOK, NEW r \in Requests
    PROVE  /\ At(r, "lockLatest") => tx[r].left = <<"lockLatest", "touchParent", "insert">>
           /\ At(r, "touchParent") => tx[r].left = <<"touchParent", "insert">>
           /\ At(r, "insert") => tx[r].left = <<"insert">>
           /\ At(r, "lockRounds") => tx[r].left = <<"lockRounds", "settle">>
           /\ At(r, "settle") => tx[r].left = <<"settle">>
<1>1. tx[r].left \in {<<>>} \cup Publishing \cup Finishing
  BY DEF TypeOK, Tx
<1> QED BY <1>1 DEF Publishing, Finishing, At, IsIdle

-----------------------------------------------------------------------------
\* Statements that leave the rounds and the parent alone: only r's own row of tx changes.
LEMMA OwnStatement ==
    ASSUME RoundsAreSound, NEW r \in Requests, NEW row \in Tx,
           UNCHANGED <<parent, rounds>>, tx' = [tx EXCEPT ![r] = row],
           overlapped' \in BOOLEAN, overlapped => overlapped',
           ~overlapped' => /\ \A q \in Requests \ {r} : IsIdle(q)
                           /\ row.left # <<>> =>
                                /\ parent = "OPEN"
                                /\ row.count = Len(rounds) /\ row.latest = Len(rounds)
                                /\ row.left \in Publishing => RoundsLeft
                                /\ row.left \in {<<"touchParent", "insert">>, <<"insert">>} =>
                                       row.locked = {Len(rounds)}
                                /\ row.left = <<"settle">> => row.locked = Ids
    PROVE  RoundsAreSound'
<1>1. tx' \in [Requests -> Tx] /\ tx'[r] = row /\ \A q \in Requests \ {r} : tx'[q] = tx[q]
  BY DEF RoundsAreSound, TypeOK
<1>2. TypeOK'
  BY <1>1 DEF RoundsAreSound, TypeOK, Ids, IsLatest
<1>3. FeedbackIsLocked'
  BY DEF RoundsAreSound, FeedbackIsLocked, Ids
<1>4. ASSUME ~overlapped' PROVE InSequence'
  <2>1. InSequence /\ \A q \in Requests \ {r} : IsIdle(q)' /\ IsIdle(q)
    BY <1>1, <1>4 DEF RoundsAreSound, IsIdle
  <2>2. \A q, p \in Requests : ~IsIdle(q)' /\ ~IsIdle(p)' => q = p
    BY <2>1
  <2>3. ASSUME ~IsIdle(r)' PROVE Decided(r)'
    <3>1. row.left # <<>>
      BY <1>1, <2>3 DEF IsIdle
    <3> QED BY <1>1, <1>4, <3>1 DEF Decided, Ids, RoundsLeft
  <2>4. \A q \in Requests : ~IsIdle(q)' => Decided(q)'
    BY <2>1, <2>3
  <2> QED BY <2>1, <2>2, <2>4 DEF InSequence, Ids
<1> QED BY <1>2, <1>3, <1>4 DEF RoundsAreSound

LEMMA ReadKeeps ==
    ASSUME RoundsAreSound, NEW r \in Requests, ReadForPublish(r) \/ ReadForFinish(r)
    PROVE  RoundsAreSound'
<1> DEFINE statements == IF ReadForPublish(r) THEN PublishStatements ELSE FinishStatements
           row == [left |-> statements, count |-> Len(rounds), latest |-> Latest, locked |-> {}]
<1>1. /\ IsIdle(r) /\ parent = "OPEN" /\ UNCHANGED <<parent, rounds>>
      /\ tx' = [tx EXCEPT ![r] = row]
      /\ overlapped' = (overlapped \/ \E other \in Requests : ~IsIdle(other))
      /\ ReadForPublish(r) => RoundsLeft
  BY DEF ReadForPublish, ReadForFinish, Seen
<1>2. Latest \in Ids /\ Ids = 1..Len(rounds) /\ Len(rounds) \in Ids /\ Len(rounds) \in Nat
  BY LatestIsARound DEF RoundsAreSound, TypeOK
<1>3. /\ rounds[Latest].status = "OPEN" =>
            PublishStatements = <<"lockLatest", "touchParent", "insert">>
      /\ rounds[Latest].status # "OPEN" => PublishStatements = <<"touchParent", "insert">>
  BY DEF PublishStatements
<1>4. statements \in Publishing \cup Finishing
  BY <1>3 DEF Publishing, Finishing, FinishStatements
<1>5. row \in Tx
  BY <1>2, <1>4 DEF Tx
<1>6. ASSUME ~overlapped'
      PROVE  /\ \A q \in Requests \ {r} : IsIdle(q)
             /\ row.count = Len(rounds) /\ row.latest = Len(rounds)
             /\ row.left \in Publishing => RoundsLeft
             /\ row.left \notin {<<"touchParent", "insert">>, <<"insert">>, <<"settle">>}
  <2>1. InSequence /\ \A q \in Requests : IsIdle(q)
    BY <1>1, <1>6 DEF RoundsAreSound
  <2>2. Latest = Len(rounds) /\ rounds[Latest].status = "OPEN"
    <3>1. Latest = Len(rounds)
      BY <2>1, LatestIsLast DEF RoundsAreSound
    <3> QED BY <1>1, <1>2, <2>1, <3>1 DEF InSequence
  <2>3. statements = IF ReadForPublish(r) THEN <<"lockLatest", "touchParent", "insert">>
                                          ELSE <<"lockRounds", "settle">>
    BY <1>3, <2>2 DEF FinishStatements
  <2> QED BY <1>1, <2>1, <2>2, <2>3 DEF Publishing
<1>7. overlapped' \in BOOLEAN /\ (overlapped => overlapped')
  BY <1>1 DEF RoundsAreSound, TypeOK
<1> HIDE DEF row
<1> QED BY <1>1, <1>5, <1>6, <1>7, OwnStatement

LEMMA StatementKeeps ==
    ASSUME RoundsAreSound, NEW r \in Requests,
           LockLatest(r) \/ TouchParent(r) \/ LockRounds(r)
    PROVE  RoundsAreSound'
<1> DEFINE row == tx'[r]
<1>1. tx[r] \in Tx /\ UNCHANGED <<parent, rounds, overlapped>> /\ ~IsIdle(r)
  BY DEF LockLatest, TouchParent, LockRounds, RoundsAreSound, TypeOK, At
<1>2. Ids \in SUBSET Nat /\ tx[r].latest \in Nat
  BY <1>1 DEF RoundsAreSound, TypeOK, Ids, Tx
<1>3. ASSUME ~overlapped
      PROVE  Decided(r) /\ \A q \in Requests \ {r} : IsIdle(q)
  BY <1>1, <1>3 DEF RoundsAreSound, InSequence
<1>4. CASE LockLatest(r)
  <2>1. tx[r].left = <<"lockLatest", "touchParent", "insert">>
    BY <1>4, NextStatement DEF LockLatest, RoundsAreSound
  <2>2. /\ row = [left |-> <<"touchParent", "insert">>, count |-> tx[r].count,
                  latest |-> tx[r].latest, locked |-> {tx[r].latest}]
        /\ tx' = [tx EXCEPT ![r] = row]
    <3>1. Done(r) = [left |-> <<"touchParent", "insert">>, count |-> tx[r].count,
                     latest |-> tx[r].latest, locked |-> tx[r].locked]
      BY <1>1, <2>1 DEF Done, Tx
    <3>2. tx' = [tx EXCEPT ![r] = [Done(r) EXCEPT !.locked = {tx[r].latest}]]
      BY <1>4 DEF LockLatest
    <3>3. [Done(r) EXCEPT !.locked = {tx[r].latest}]
            = [left |-> <<"touchParent", "insert">>, count |-> tx[r].count,
               latest |-> tx[r].latest, locked |-> {tx[r].latest}]
      BY <3>1
    <3>4. row = [Done(r) EXCEPT !.locked = {tx[r].latest}]
      BY <3>2 DEF RoundsAreSound, TypeOK
    <3> QED BY <3>2, <3>3, <3>4
  <2> HIDE DEF row
  <2>3. row \in Tx
    BY <1>1, <1>2, <2>2 DEF Tx, Publishing
  <2>4. ~overlapped => /\ parent = "OPEN" /\ row.count = Len(rounds) /\ row.latest = Len(rounds)
                       /\ RoundsLeft /\ row.locked = {Len(rounds)} /\ row.left # <<"settle">>
    BY <1>3, <2>1, <2>2 DEF Decided, Publishing
  <2> QED BY <1>1, <1>3, <2>2, <2>3, <2>4, OwnStatement DEF RoundsAreSound, TypeOK
<1>5. CASE TouchParent(r)
  <2>1. tx[r].left = <<"touchParent", "insert">>
    BY <1>5, NextStatement DEF TouchParent, RoundsAreSound
  <2>2. /\ row = [left |-> <<"insert">>, count |-> tx[r].count,
                  latest |-> tx[r].latest, locked |-> tx[r].locked]
        /\ tx' = [tx EXCEPT ![r] = row]
    BY <1>1, <1>5, <2>1 DEF TouchParent, Done, RoundsAreSound, TypeOK, Tx
  <2> HIDE DEF row
  <2>3. row \in Tx
    BY <1>1, <2>2 DEF Tx, Publishing
  <2>4. ~overlapped => /\ parent = "OPEN" /\ row.count = Len(rounds) /\ row.latest = Len(rounds)
                       /\ RoundsLeft /\ row.locked = {Len(rounds)} /\ row.left # <<"settle">>
    BY <1>3, <2>1, <2>2 DEF Decided, Publishing
  <2> QED BY <1>1, <1>3, <2>2, <2>3, <2>4, OwnStatement DEF RoundsAreSound, TypeOK
<1>6. CASE LockRounds(r)
  <2>1. tx[r].left = <<"lockRounds", "settle">>
    BY <1>6, NextStatement DEF LockRounds, RoundsAreSound
  <2>2. /\ row = [left |-> <<"settle">>, count |-> tx[r].count,
                  latest |-> tx[r].latest, locked |-> Ids]
        /\ tx' = [tx EXCEPT ![r] = row]
    <3>1. Done(r) = [left |-> <<"settle">>, count |-> tx[r].count,
                     latest |-> tx[r].latest, locked |-> tx[r].locked]
      BY <1>1, <2>1 DEF Done, Tx
    <3>2. tx' = [tx EXCEPT ![r] = [Done(r) EXCEPT !.locked = Ids]]
      BY <1>6 DEF LockRounds
    <3> QED BY <3>1, <3>2 DEF RoundsAreSound, TypeOK
  <2> HIDE DEF row
  <2>3. row \in Tx
    BY <1>1, <1>2, <2>2 DEF Tx, Finishing
  <2>4. ~overlapped => /\ parent = "OPEN" /\ row.count = Len(rounds) /\ row.latest = Len(rounds)
                       /\ row.left \notin Publishing /\ row.locked = Ids
                       /\ row.left \notin {<<"touchParent", "insert">>, <<"insert">>}
    BY <1>3, <2>1, <2>2 DEF Decided, Publishing
  <2> QED BY <1>1, <1>3, <2>2, <2>3, <2>4, OwnStatement DEF RoundsAreSound, TypeOK
<1> QED BY <1>4, <1>5, <1>6

LEMMA RollbackKeeps ==
    ASSUME RoundsAreSound, NEW r \in Requests, Rollback(r)
    PROVE  RoundsAreSound'
<1>1. Idle \in Tx /\ Idle.left = <<>>
  BY DEF Idle, Tx
<1>2. ~overlapped => \A q \in Requests \ {r} : IsIdle(q)
  BY DEF Rollback, RoundsAreSound, InSequence
<1>3. UNCHANGED <<parent, rounds, overlapped>> /\ tx' = [tx EXCEPT ![r] = Idle]
  BY DEF Rollback
<1> QED BY <1>1, <1>2, <1>3, OwnStatement DEF RoundsAreSound, TypeOK

-----------------------------------------------------------------------------
\* A commit frees the request; the rounds it leaves behind are for the two lemmas below.
LEMMA AfterCommit ==
    ASSUME RoundsAreSound, NEW r \in Requests,
           tx' = [tx EXCEPT ![r] = Idle], UNCHANGED overlapped
    PROVE  /\ tx' \in [Requests -> Tx] /\ overlapped' \in BOOLEAN
           /\ ~overlapped' /\ ~IsIdle(r) => \A q \in Requests : IsIdle(q)'
<1>1. Idle \in Tx /\ Idle.left = <<>>
  BY DEF Idle, Tx
<1> QED BY <1>1 DEF RoundsAreSound, TypeOK, InSequence, IsIdle

\* The new round is found by the next read even if it has the sort order of another one.
LEMMA InsertKeeps ==
    ASSUME RoundsAreSound, NEW r \in Requests, InsertAndCommit(r)
    PROVE  RoundsAreSound'
<1>1. /\ tx[r].left = <<"insert">> /\ ~IsIdle(r) /\ UNCHANGED <<parent, overlapped>>
      /\ rounds' = Append(Closed(r), NewRound(tx[r].count))
      /\ tx' = [tx EXCEPT ![r] = Idle] /\ tx[r].count \in Nat
  BY NextStatement DEF InsertAndCommit, RoundsAreSound, TypeOK, Tx, At
<1> DEFINE n == Len(rounds)
           fresh == NewRound(tx[r].count)
<1>2. /\ fresh \in Row /\ fresh.status = "OPEN" /\ fresh.feedback = NoFeedback
      /\ fresh.sort = tx[r].count
  BY <1>1 DEF NewRound, Row
<1>3. /\ Closed(r) \in Seq(Row) /\ Len(Closed(r)) = n /\ n \in Nat /\ Ids = 1..n /\ n \in Ids
      /\ \A i \in Ids : /\ Closed(r)[i].sort = rounds[i].sort
                        /\ i \notin tx[r].locked => Closed(r)[i] = rounds[i]
                        /\ i \in tx[r].locked => Closed(r)[i].status = "LOCKED"
  BY ClosedRounds, LatestIsARound DEF RoundsAreSound, TypeOK, Ids
<1> HIDE DEF fresh
<1>4. /\ rounds' \in Seq(Row) /\ Len(rounds') = n + 1 /\ Ids' = 1..n + 1
      /\ rounds'[n + 1] = fresh /\ \A i \in 1..n : rounds'[i] = Closed(r)[i]
  BY <1>1, <1>2, <1>3 DEF Ids, fresh
<1>5. \E i \in Ids' : IsLatest(i)'
  <2>1. PICK m \in 1..n : IsLatest(m)
    BY <1>3 DEF RoundsAreSound, TypeOK
  <2>2. PICK last \in Nat : last = n + 1
    BY <1>3
  <2>3. \A i \in 1..n : rounds[i].sort \in Nat /\ rounds'[i].sort = rounds[i].sort
    <3>1. \A i \in 1..n : rounds[i] \in Row
      BY <1>3 DEF RoundsAreSound, TypeOK
    <3> QED BY <1>3, <1>4, <3>1 DEF Row
  <2>4. rounds'[last].sort = tx[r].count /\ tx[r].count \in Nat
    BY <1>1, <1>2, <1>4, <2>2
  <2>5. Ids' = 1..n \cup {last} /\ \A j \in 1..n : j < last
    BY <1>3, <1>4, <2>2
  <2>6. \A j \in 1..n \ {m} : \/ rounds[j].sort < rounds[m].sort
                              \/ rounds[j].sort = rounds[m].sort /\ j < m
    BY <1>3, <2>1 DEF IsLatest
  <2>7. CASE rounds[m].sort <= tx[r].count
    <3>1. \A j \in 1..n : rounds[j].sort <= rounds[m].sort
      BY <2>3, <2>6
    <3>2. \A j \in Ids' \ {last} : \/ rounds'[j].sort < rounds'[last].sort
                                   \/ rounds'[j].sort = rounds'[last].sort /\ j < last
      BY <2>3, <2>4, <2>5, <2>7, <3>1
    <3> QED BY <2>5, <3>2 DEF IsLatest
  <2>8. CASE rounds[m].sort > tx[r].count
    <3>1. \A j \in Ids' \ {m} : \/ rounds'[j].sort < rounds'[m].sort
                                \/ rounds'[j].sort = rounds'[m].sort /\ j < m
      BY <2>3, <2>4, <2>5, <2>6, <2>8
    <3> QED BY <2>5, <3>1 DEF IsLatest
  <2> QED BY <2>3, <2>4, <2>7, <2>8
<1>6. TypeOK'
  <2>1. tx' \in [Requests -> Tx] /\ overlapped' \in BOOLEAN
    BY <1>1, AfterCommit
  <2>2. rounds' # <<>>
    BY <1>3, <1>4
  <2> QED BY <1>1, <1>4, <1>5, <2>1, <2>2 DEF RoundsAreSound, TypeOK
<1>7. FeedbackIsLocked'
  BY <1>2, <1>3, <1>4 DEF RoundsAreSound, FeedbackIsLocked
<1>8. ASSUME ~overlapped' PROVE InSequence'
  <2>1. InSequence /\ Decided(r) /\ parent = "OPEN" /\ \A q \in Requests : IsIdle(q)'
    BY <1>1, <1>8, AfterCommit DEF RoundsAreSound, InSequence, Decided
  <2>2. tx[r].locked = {n} /\ tx[r].latest = n /\ tx[r].count = n
    BY <1>1, <2>1 DEF Decided
  <2>3. \A i \in 1..n : rounds[i] \in Row /\ Closed(r)[i] \in Row
    BY <1>3 DEF RoundsAreSound, TypeOK
  <2>4. \A i \in 1..n : rounds'[i].status = "LOCKED" /\ rounds'[i].feedback # NoFeedback
    <3>1. Closed(r)[n].status = "LOCKED" /\ Closed(r)[n].feedback = r
      BY <1>3, <2>2, ClosedRounds DEF RoundsAreSound
    <3>2. \A i \in 1..n : i # n => /\ rounds[i].status = "LOCKED" /\ rounds[i].feedback # NoFeedback
                                   /\ Closed(r)[i] = rounds[i]
      BY <1>3, <2>1, <2>2, <2>3 DEF InSequence, Row
    <3> QED BY <1>4, <3>1, <3>2, RequestsAssumption
  <2>5. \A i \in 1..n : rounds'[i].sort + 1 = i
    BY <1>3, <1>4, <2>1 DEF InSequence
  <2>6. /\ \A i \in Ids' : rounds'[i].sort + 1 = i
        /\ \A i \in Ids' : rounds'[i].status = "OPEN" <=> parent' = "OPEN" /\ i = Len(rounds')
        /\ \A i \in Ids' : rounds'[i].status = "LOCKED" <=> rounds'[i].feedback # NoFeedback
    BY <1>1, <1>2, <1>3, <1>4, <2>1, <2>2, <2>4, <2>5
  <2> QED BY <2>1, <2>6 DEF InSequence
<1> QED BY <1>6, <1>7, <1>8 DEF RoundsAreSound

LEMMA SettleKeeps ==
    ASSUME RoundsAreSound, NEW r \in Requests, SettleAndCommit(r)
    PROVE  RoundsAreSound'
<1>1. /\ tx[r].left = <<"settle">> /\ ~IsIdle(r) /\ UNCHANGED overlapped
      /\ rounds' = Closed(r) /\ parent' = "SETTLED" /\ tx' = [tx EXCEPT ![r] = Idle]
  BY NextStatement DEF SettleAndCommit, RoundsAreSound, At
<1>2. /\ rounds' \in Seq(Row) /\ Len(rounds') = Len(rounds) /\ Ids' = Ids
      /\ Ids = 1..Len(rounds) /\ Len(rounds) \in Ids
      /\ \A i \in Ids : /\ rounds'[i].sort = rounds[i].sort
                        /\ i \notin tx[r].locked => rounds'[i] = rounds[i]
                        /\ i \in tx[r].locked => /\ rounds'[i].status = "LOCKED"
                                                 /\ i = tx[r].latest => rounds'[i].feedback = r
                                                 /\ i # tx[r].latest => rounds'[i].feedback = rounds[i].feedback
  BY <1>1, ClosedRounds, LatestIsARound DEF RoundsAreSound, TypeOK, Ids
<1>3. \E i \in Ids' : IsLatest(i)'
  BY <1>2 DEF RoundsAreSound, TypeOK, IsLatest
<1>4. TypeOK'
  <2>1. tx' \in [Requests -> Tx] /\ overlapped' \in BOOLEAN
    BY <1>1, AfterCommit
  <2>2. rounds' # <<>>
    BY <1>2
  <2> QED BY <1>1, <1>2, <1>3, <2>1, <2>2 DEF TypeOK
<1>5. FeedbackIsLocked'
  BY <1>2 DEF RoundsAreSound, FeedbackIsLocked
<1>6. ASSUME ~overlapped' PROVE InSequence'
  <2>1. InSequence /\ Decided(r) /\ parent = "OPEN" /\ \A q \in Requests : IsIdle(q)'
    BY <1>1, <1>6, AfterCommit DEF RoundsAreSound, InSequence, Decided
  <2>2. tx[r].locked = Ids /\ tx[r].latest = Len(rounds)
    BY <1>1, <2>1 DEF Decided
  <2>3. \A i \in Ids : i # Len(rounds) => rounds[i].status = "LOCKED" /\ rounds[i].feedback # NoFeedback
    <3>1. \A i \in Ids : rounds[i] \in Row
      BY DEF RoundsAreSound, TypeOK, Ids
    <3> QED BY <2>1, <3>1 DEF InSequence, Row
  <2>4. \A i \in Ids : rounds'[i].status = "LOCKED" /\ rounds'[i].feedback # NoFeedback
    BY <1>2, <2>2, <2>3, RequestsAssumption
  <2>5. \A i \in Ids' : rounds'[i].sort + 1 = i
    BY <1>2, <2>1 DEF InSequence
  <2> QED BY <1>1, <1>2, <2>1, <2>4, <2>5 DEF InSequence
<1> QED BY <1>4, <1>5, <1>6 DEF RoundsAreSound

LEMMA RoundsStep == RoundsAreSound /\ [Next]_vars => RoundsAreSound'
<1> SUFFICES ASSUME RoundsAreSound, [Next]_vars PROVE RoundsAreSound'
  OBVIOUS
<1>1. CASE UNCHANGED vars
  BY <1>1 DEF vars, locks, RoundsAreSound, TypeOK, FeedbackIsLocked, InSequence, Ids, IsLatest, IsIdle,
              Decided, RoundsLeft
<1>2. CASE Next
  BY <1>2, ReadKeeps, StatementKeeps, InsertKeeps, SettleKeeps, RollbackKeeps DEF Next, Statement
<1> QED BY <1>1, <1>2

-----------------------------------------------------------------------------
\* The rounds as the contract sees them: without their sort orders.
Published == [i \in Ids |-> [status |-> rounds[i].status, feedback |-> rounds[i].feedback]]

PublishedAreRounds ==
    /\ Published \in Seq(Contract!Round) /\ Len(Published) = Len(rounds)
    /\ Ids = 1..Len(rounds) /\ Len(rounds) \in Ids
    /\ \A i \in Ids : /\ Published[i].status = rounds[i].status
                      /\ Published[i].feedback = rounds[i].feedback
                      /\ Published[i] \in Contract!Round

LEMMA PublishedRounds == TypeOK => PublishedAreRounds
<1> SUFFICES ASSUME TypeOK PROVE PublishedAreRounds
  OBVIOUS
<1>1. Ids = 1..Len(rounds) /\ Len(rounds) \in Ids /\ Len(rounds) \in Nat /\ \A i \in Ids : rounds[i] \in Row
  BY LatestIsARound DEF TypeOK, Ids
<1>2. \A i \in Ids : /\ Published[i].status = rounds[i].status
                     /\ Published[i].feedback = rounds[i].feedback
                     /\ Published[i] \in Contract!Round
  BY <1>1 DEF Published, Row, Contract!Round
<1>3. Published = [i \in 1..Len(rounds) |-> Published[i]]
  BY <1>1 DEF Published
<1>4. Published \in Seq(Contract!Round)
  BY <1>1, <1>2, <1>3, IsASeq
<1>5. DOMAIN Published = 1..Len(rounds)
  BY <1>3
<1> QED BY <1>1, <1>2, <1>4, <1>5, LenProperties DEF PublishedAreRounds

\* publishRound without an overlap: its commit closes the last round and appends an open one.
LEMMA InsertIsPublishRound ==
    ASSUME RoundsAreSound, NEW r \in Requests, InsertAndCommit(r), ~overlapped'
    PROVE  Contract!PublishRound(r)
<1> DEFINE n == Len(rounds)
           closed == [Published EXCEPT ![n] = Contract!Locked(r)]
<1>1. /\ tx[r].left = <<"insert">> /\ ~IsIdle(r) /\ UNCHANGED <<parent, overlapped>>
      /\ rounds' = Append(Closed(r), NewRound(tx[r].count))
  BY NextStatement DEF InsertAndCommit, RoundsAreSound, At
<1>2. InSequence /\ Decided(r)
  BY <1>1 DEF RoundsAreSound, InSequence
<1>3. parent = "OPEN" /\ n < TotalRounds /\ tx[r].locked = {n} /\ tx[r].latest = n /\ tx[r].count = n
  BY <1>1, <1>2 DEF Decided, Publishing, RoundsLeft
<1>4. TypeOK /\ TypeOK'
  BY InsertKeeps DEF RoundsAreSound
<1>5. /\ Published \in Seq(Contract!Round) /\ Len(Published) = n
      /\ Ids = 1..n /\ n \in Ids /\ n \in Nat
      /\ \A i \in 1..n : /\ Published[i].status = rounds[i].status
                         /\ Published[i].feedback = rounds[i].feedback
                         /\ Published[i] \in Contract!Round
  BY <1>4, PublishedRounds DEF PublishedAreRounds
<1>6. /\ Published' \in Seq(Contract!Round) /\ Len(Published') = Len(rounds')
      /\ Ids' = 1..Len(rounds')
      /\ \A i \in Ids' : /\ Published'[i].status = rounds'[i].status
                         /\ Published'[i].feedback = rounds'[i].feedback
                         /\ Published'[i] \in Contract!Round
  <2>1. PublishedAreRounds'
    BY <1>4, PublishedRounds, PTL
  <2> QED BY <2>1 DEF PublishedAreRounds
<1>7. Contract!NewRound \in Contract!Round /\ Contract!Locked(r) \in Contract!Round
  BY DEF Contract!NewRound, Contract!Locked, Contract!Round
<1>8. /\ closed \in Seq(Contract!Round) /\ Len(closed) = n
      /\ closed[n] = Contract!Locked(r) /\ \A i \in 1..n : i # n => closed[i] = Published[i]
  BY <1>5, <1>7
<1>9. /\ Closed(r) \in Seq(Row) /\ Len(Closed(r)) = n
      /\ \A i \in 1..n : i # n => Closed(r)[i] = rounds[i]
      /\ Closed(r)[n].status = "LOCKED" /\ Closed(r)[n].feedback = r
  BY <1>3, <1>4, <1>5, ClosedRounds
<1>10. /\ Len(rounds') = n + 1 /\ rounds'[n + 1] = NewRound(n)
       /\ \A i \in 1..n : rounds'[i] = Closed(r)[i]
  <2>1. NewRound(n) \in Row
    BY <1>5 DEF NewRound, Row
  <2> QED BY <1>1, <1>3, <1>5, <1>9, <2>1
<1> HIDE DEF closed
<1>11. ASSUME NEW i \in 1..n + 1 PROVE Published'[i] = Append(closed, Contract!NewRound)[i]
  <2>1. i \in Ids' /\ Published'[i] \in Contract!Round
    BY <1>6, <1>10
  <2>2. CASE i = n + 1
    <3>1. Append(closed, Contract!NewRound)[i] = Contract!NewRound
      BY <1>5, <1>7, <1>8, <2>2
    <3>2. Published'[i].status = "OPEN" /\ Published'[i].feedback = NoFeedback
      BY <1>6, <1>10, <2>1, <2>2 DEF NewRound
    <3> QED BY <2>1, <3>1, <3>2 DEF Contract!Round, Contract!NewRound
  <2>3. CASE i = n
    <3>1. Append(closed, Contract!NewRound)[i] = Contract!Locked(r)
      BY <1>5, <1>7, <1>8, <2>3
    <3>2. Published'[i].status = "LOCKED" /\ Published'[i].feedback = r
      BY <1>5, <1>6, <1>9, <1>10, <2>1, <2>3
    <3> QED BY <2>1, <3>1, <3>2 DEF Contract!Round, Contract!Locked
  <2>4. CASE i \in 1..n /\ i # n
    <3>1. Append(closed, Contract!NewRound)[i] = Published[i] /\ Published[i] \in Contract!Round
      BY <1>5, <1>7, <1>8, <2>4
    <3>2. Published'[i].status = Published[i].status /\ Published'[i].feedback = Published[i].feedback
      BY <1>5, <1>6, <1>9, <1>10, <2>1, <2>4
    <3> QED BY <2>1, <3>1, <3>2 DEF Contract!Round
  <2>5. i = n + 1 \/ i = n \/ (i \in 1..n /\ i # n)
    BY <1>5
  <2> QED BY <2>2, <2>3, <2>4, <2>5
<1>12. Published' = Append(closed, Contract!NewRound)
  <2>1. Append(closed, Contract!NewRound) \in Seq(Contract!Round) /\ Len(Append(closed, Contract!NewRound)) = n + 1
    BY <1>5, <1>7, <1>8
  <2> QED BY <1>5, <1>6, <1>10, <1>11, <2>1, SeqEqual
<1> QED BY <1>1, <1>3, <1>5, <1>12 DEF Contract!PublishRound, Published, closed

\* finishStaged without an overlap: its commit closes the last round and settles the topic.
LEMMA SettleIsFinish ==
    ASSUME RoundsAreSound, NEW r \in Requests, SettleAndCommit(r), ~overlapped'
    PROVE  Contract!Finish(r)
<1> DEFINE n == Len(rounds)
           closed == [Published EXCEPT ![n] = Contract!Locked(r)]
<1>1. /\ tx[r].left = <<"settle">> /\ ~IsIdle(r) /\ UNCHANGED overlapped
      /\ rounds' = Closed(r) /\ parent' = "SETTLED"
  BY NextStatement DEF SettleAndCommit, RoundsAreSound, At
<1>2. InSequence /\ Decided(r)
  BY <1>1 DEF RoundsAreSound, InSequence
<1>3. parent = "OPEN" /\ tx[r].locked = Ids /\ tx[r].latest = n
  BY <1>1, <1>2 DEF Decided
<1>4. TypeOK /\ TypeOK'
  BY SettleKeeps DEF RoundsAreSound
<1>5. /\ Published \in Seq(Contract!Round) /\ Len(Published) = n
      /\ Ids = 1..n /\ n \in Ids /\ n \in Nat
      /\ \A i \in 1..n : /\ Published[i].status = rounds[i].status
                         /\ Published[i].feedback = rounds[i].feedback
                         /\ Published[i] \in Contract!Round
  BY <1>4, PublishedRounds DEF PublishedAreRounds
<1>6. /\ Published' \in Seq(Contract!Round) /\ Len(Published') = Len(rounds')
      /\ Ids' = 1..Len(rounds')
      /\ \A i \in Ids' : /\ Published'[i].status = rounds'[i].status
                         /\ Published'[i].feedback = rounds'[i].feedback
                         /\ Published'[i] \in Contract!Round
  <2>1. PublishedAreRounds'
    BY <1>4, PublishedRounds, PTL
  <2> QED BY <2>1 DEF PublishedAreRounds
<1>7. Contract!Locked(r) \in Contract!Round
  BY DEF Contract!Locked, Contract!Round
<1>8. /\ closed \in Seq(Contract!Round) /\ Len(closed) = n
      /\ closed[n] = Contract!Locked(r) /\ \A i \in 1..n : i # n => closed[i] = Published[i]
  BY <1>5, <1>7
<1>9. /\ Len(rounds') = n /\ \A i \in 1..n : rounds'[i].status = "LOCKED"
      /\ rounds'[n].feedback = r /\ \A i \in 1..n : i # n => rounds'[i].feedback = rounds[i].feedback
  BY <1>1, <1>3, <1>4, <1>5, ClosedRounds
<1> HIDE DEF closed
<1>10. \A i \in 1..n : i # n => rounds[i].status = "LOCKED"
  <2>1. \A i \in 1..n : rounds[i] \in Row
    BY <1>4, <1>5 DEF TypeOK
  <2> QED BY <1>2, <1>5, <2>1 DEF InSequence, Row
<1>11. ASSUME NEW i \in 1..n PROVE Published'[i] = closed[i]
  <2>1. i \in Ids' /\ Published'[i] \in Contract!Round
    BY <1>6, <1>9
  <2>2. CASE i = n
    <3>1. Published'[i].status = "LOCKED" /\ Published'[i].feedback = r
      BY <1>6, <1>9, <2>1, <2>2
    <3> QED BY <1>8, <2>1, <2>2, <3>1 DEF Contract!Round, Contract!Locked
  <2>3. CASE i # n
    <3>1. Published'[i].status = Published[i].status /\ Published'[i].feedback = Published[i].feedback
      BY <1>5, <1>6, <1>9, <1>10, <2>1, <2>3
    <3>2. Published[i] \in Contract!Round /\ closed[i] = Published[i]
      BY <1>5, <1>8, <2>3
    <3> QED BY <2>1, <3>1, <3>2 DEF Contract!Round
  <2> QED BY <2>2, <2>3
<1>12. Published' = closed
  BY <1>5, <1>6, <1>8, <1>9, <1>11, SeqEqual
<1> QED BY <1>1, <1>3, <1>5, <1>12 DEF Contract!Finish, Published, closed

-----------------------------------------------------------------------------
\* Until requests overlap there is one open round, the last, and feedback on all others; and no
\* round ever shows a feedback while it is open.
THEOREM RoundsStayInOrder == Spec => []RoundsInOrder
<1>1. RoundsAreSound => RoundsInOrder
  <2> SUFFICES ASSUME RoundsAreSound PROVE RoundsInOrder
    OBVIOUS
  <2>1. /\ Published \in Seq(Contract!Round) /\ Len(Published) = Len(rounds) /\ Ids = 1..Len(rounds)
        /\ \A i \in Ids : /\ Published[i].status = rounds[i].status
                          /\ Published[i].feedback = rounds[i].feedback
    BY PublishedRounds DEF PublishedAreRounds, RoundsAreSound
  <2>2. ASSUME ~overlapped PROVE Contract!OpenRoundIsLast /\ Contract!LockedHasFeedback
    <3>1. InSequence
      BY <2>2 DEF RoundsAreSound
    <3> QED BY <2>1, <3>1 DEF InSequence, Contract!OpenRoundIsLast, Contract!LockedHasFeedback, Published
  <2> QED BY <2>2 DEF RoundsAreSound, FeedbackIsLocked, RoundsInOrder
<1> QED BY <1>1, RoundsInit, RoundsStep, PTL DEF Spec

\* publishRound and finishStaged, which decide before their transactions and write without
\* reading again, are steps of the staged topic's contract as long as no two requests overlap.
THEOREM RoundsImplementContract == Spec => ImplementsContract
<1>1. Init => Contract!Init
  BY DEF Init, Ids, NewRound, Contract!Init, Contract!NewRound
<1>2. RoundsAreSound /\ [Next]_vars => [overlapped' \/ Contract!Next]_(Contract!vars)
  <2> SUFFICES ASSUME RoundsAreSound, [Next]_vars, ~overlapped',
                      ~UNCHANGED Contract!vars
               PROVE  Contract!Next
    OBVIOUS
  <2>1. ~UNCHANGED <<parent, rounds>>
    BY DEF Contract!vars, Ids
  <2>2. PICK r \in Requests : InsertAndCommit(r) \/ SettleAndCommit(r)
    BY <2>1 DEF Next, vars, Statement, ReadForPublish, ReadForFinish, LockLatest, TouchParent,
                LockRounds, Rollback
  <2> QED BY <2>2, InsertIsPublishRound, SettleIsFinish DEF Contract!Next
<1> QED BY <1>1, <1>2, RoundsInit, RoundsStep, PTL DEF Spec, ImplementsContract
=============================================================================
