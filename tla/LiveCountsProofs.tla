-------------------------- MODULE LiveCountsProofs --------------------------
(***************************************************************************)
(* What follows a vote, for any topics, any number of requests, answers    *)
(* and ticks in flight: a recomputation that nothing overlapped has found  *)
(* the votes as they are, and the page shows its own topic and never fewer *)
(* votes than a tick announced.  The argument: at most one request still   *)
(* has to write the statistics of a topic that is not excused, and every   *)
(* number under way - counted, announced, in a timer, in an answer - was   *)
(* the number of changes at some time, so it is no more than there are.    *)
(***************************************************************************)
EXTENDS LiveCounts, SequenceTheorems, TLAPS

USE LiveAssumption

Lefts == {<<>>, AfterCommit, <<"update", "total", "broadcast">>, NoRecompute, <<"broadcast">>}

Work == [left : Lefts, topic : Topics \cup {NoTopic}, seen : Nat]
Tick == [topic : Topics, total : Nat]
Content == [topic : Topics \cup {NoTopic}, votes : Nat]
Fetch == [topic : Topics, kind : {"mount", "watch", "reload", "refresh"}, tick : Nat, answer : Content]
Page == [topic : Topics, shown : Content, total : Nat, loading : BOOLEAN, listening : BOOLEAN, timer : Content]

TypeOK ==
    /\ committed \in [Topics -> Nat] /\ stats \in [Topics -> Nat]
    /\ req \in [Requests -> Work]
    /\ ticks \in Seq(Tick)
    /\ page \in Page
    /\ gets \in Seq(Fetch)

\* A request that has something left to do is about a topic.
WorkHasTopic == \A r \in Requests : req[r].left # <<>> => req[r].topic \in Topics

Writes(r, t) ==
    req[r].topic = t /\ req[r].left \in {AfterCommit, <<"update", "total", "broadcast">>}

\* Of a topic that is not excused, one request at most has the statistics to write, and if it has
\* counted already, it has counted everything.
OneWriter ==
    \A t \in Topics \ excused :
        /\ (\A r \in Requests : ~Writes(r, t)) => stats[t] = committed[t]
        /\ \A r, q \in Requests : Writes(r, t) /\ Writes(q, t) => r = q
        /\ \A r \in Requests :
              req[r].topic = t /\ req[r].left = <<"update", "total", "broadcast">> => req[r].seen = committed[t]

\* What a fetch was made for, and what came back.
FetchIsSound(get) ==
    /\ get.kind = "refresh" => committed[get.topic] >= get.tick
    /\ get.answer # Nothing => get.answer.topic = get.topic
    /\ get.kind = "refresh" /\ get.answer # Nothing => get.answer.votes >= get.tick

\* No number under way is more than there is.
NothingAhead ==
    /\ \A r \in Requests : req[r].left = <<"broadcast">> => req[r].seen <= committed[req[r].topic]
    /\ \A i \in 1..Len(ticks) : ticks[i].total <= committed[ticks[i].topic]
    /\ page.timer # Nothing => page.timer.topic \in Topics /\ page.timer.votes <= committed[page.timer.topic]
    /\ \A i \in 1..Len(gets) : FetchIsSound(gets[i])

ShowsItsTopic == ~page.loading => page.shown.topic \in {page.topic, NoTopic}

LiveIsSound == TypeOK /\ WorkHasTopic /\ OneWriter /\ NothingAhead /\ ShowsItsTopic

-----------------------------------------------------------------------------
LEMMA NextLeft ==
    ASSUME TypeOK, NEW r \in Requests
    PROVE  /\ At(r, "aggregate") => /\ req[r].left = AfterCommit
                                    /\ Tail(req[r].left) = <<"update", "total", "broadcast">>
           /\ At(r, "update") => /\ req[r].left = <<"update", "total", "broadcast">>
                                 /\ Tail(req[r].left) = NoRecompute
           /\ At(r, "total") => req[r].left = NoRecompute /\ Tail(req[r].left) = <<"broadcast">>
           /\ At(r, "broadcast") => req[r].left = <<"broadcast">>
<1>1. req[r].left \in Lefts
  BY DEF TypeOK, Work
<1>2. AfterCommit # <<>> /\ Head(AfterCommit) = "aggregate" /\ Tail(AfterCommit) = <<"update", "total", "broadcast">>
  BY DEF AfterCommit
<1>3. NoRecompute # <<>> /\ Head(NoRecompute) = "total" /\ Tail(NoRecompute) = <<"broadcast">>
  BY DEF NoRecompute
<1>4. /\ Head(<<"update", "total", "broadcast">>) = "update"
      /\ Tail(<<"update", "total", "broadcast">>) = NoRecompute
      /\ Head(<<"broadcast">>) = "broadcast"
  BY DEF NoRecompute
<1> QED BY <1>1, <1>2, <1>3, <1>4 DEF Lefts, At

\* Which requests write the statistics of t: those with an update among the steps they have left.
LEMMA WritersRecompute ==
    ASSUME TypeOK, NEW t \in Topics
    PROVE  Recomputing(t) <=> \E r \in Requests : Writes(r, t)
<1>1. ASSUME NEW r \in Requests
      PROVE  "update" \in Range(req[r].left) <=> req[r].left \in {AfterCommit, <<"update", "total", "broadcast">>}
  <2>1. req[r].left \in Lefts
    BY DEF TypeOK, Work
  <2>2. "update" \in Range(AfterCommit) /\ "update" \in Range(<<"update", "total", "broadcast">>)
    BY DEF Range, AfterCommit
  <2>3. "update" \notin Range(<<>>) /\ "update" \notin Range(NoRecompute) /\ "update" \notin Range(<<"broadcast">>)
    BY DEF Range, NoRecompute
  <2> QED BY <2>1, <2>2, <2>3 DEF Lefts
<1> QED BY <1>1 DEF Recomputing, Writes

LEMMA Removed ==
    ASSUME NEW S, NEW s \in Seq(S), NEW i \in 1..Len(s)
    PROVE  /\ RemoveAt(s, i) \in Seq(S)
           /\ \A k \in 1..Len(RemoveAt(s, i)) : \E j \in 1..Len(s) : RemoveAt(s, i)[k] = s[j]
<1> DEFINE before == SubSeq(s, 1, i - 1)
           after == SubSeq(s, i + 1, Len(s))
<1>1. /\ before \in Seq(S) /\ Len(before) = i - 1
      /\ \A k \in 1..i - 1 : before[k] = s[k]
  OBVIOUS
<1>2. /\ after \in Seq(S) /\ Len(after) = Len(s) - i
      /\ \A k \in 1..Len(s) - i : after[k] = s[k + i]
  OBVIOUS
<1>3. RemoveAt(s, i) = before \o after
  BY DEF RemoveAt
<1> HIDE DEF before, after
<1>4. before \o after \in Seq(S) /\ Len(before \o after) = Len(s) - 1
  BY <1>1, <1>2, ConcatProperties
<1>5. ASSUME NEW k \in 1..Len(s) - 1 PROVE \E j \in 1..Len(s) : (before \o after)[k] = s[j]
  <2>1. CASE k <= i - 1
    <3>1. (before \o after)[k] = before[k]
      BY <1>1, <1>2, <2>1, ConcatProperties
    <3>2. k \in 1..Len(s) /\ before[k] = s[k]
      BY <1>1, <2>1
    <3> QED BY <3>1, <3>2
  <2>2. CASE k > i - 1
    <3>1. (before \o after)[k] = after[k - (i - 1)]
      BY <1>1, <1>2, <2>2, ConcatProperties
    <3>2. k + 1 \in 1..Len(s) /\ after[k - (i - 1)] = s[k + 1]
      BY <1>2, <2>2
    <3> QED BY <3>1, <3>2
  <2>3. k <= i - 1 \/ k > i - 1
    OBVIOUS
  <2> QED BY <2>1, <2>2, <2>3
<1> QED BY <1>3, <1>4, <1>5

LEMMA LiveInit == Init => LiveIsSound
<1> SUFFICES ASSUME Init PROVE LiveIsSound
  OBVIOUS
<1>1. Nothing \in Content /\ Idle \in Work
  BY DEF Nothing, Content, Idle, Work, Lefts
<1>2. Get(First, "mount", 0) \in Fetch /\ gets = <<Get(First, "mount", 0)>>
  BY <1>1 DEF Get, Fetch, Init
<1>3. page \in Page /\ page.timer = Nothing /\ page.loading
  BY <1>1 DEF Page, Init
<1>4. TypeOK
  BY <1>1, <1>2, <1>3 DEF Init, TypeOK
<1>5. \A r \in Requests : req[r].left = <<>>
  BY DEF Init, Idle
<1>6. OneWriter /\ WorkHasTopic
  <2>1. \A r \in Requests, t \in Topics : ~Writes(r, t)
    <3>1. AfterCommit # <<>>
      BY DEF AfterCommit
    <3> QED BY <1>5, <3>1 DEF Writes
  <2> QED BY <1>5, <2>1 DEF Init, OneWriter, WorkHasTopic
<1>7. NothingAhead
  <2>1. Len(gets) = 1 /\ gets[1].kind = "mount" /\ gets[1].answer = Nothing /\ Len(ticks) = 0
    BY <1>2 DEF Init, Get
  <2>2. \A i \in 1..Len(gets) : FetchIsSound(gets[i])
    BY <2>1 DEF FetchIsSound
  <2>3. \A r \in Requests : req[r].left # <<"broadcast">>
    BY <1>5
  <2>4. \A i \in 1..Len(ticks) : ticks[i].total <= committed[ticks[i].topic]
    BY <2>1
  <2> QED BY <1>3, <2>2, <2>3, <2>4 DEF NothingAhead
<1> QED BY <1>3, <1>4, <1>6, <1>7 DEF LiveIsSound, ShowsItsTopic

-----------------------------------------------------------------------------
(* The server.                                                             *)

\* A commit excuses its topic if another request has the statistics still to write, and is the
\* only one that has them to write otherwise.
LEMMA CommitKeeps ==
    ASSUME LiveIsSound, NEW r \in Requests, NEW t \in Topics, CommitVote(r, t)
    PROVE  LiveIsSound'
<1> DEFINE row == [left |-> AfterCommit, topic |-> t, seen |-> 0]
<1>1. /\ req[r].left = <<>>
      /\ committed' = [committed EXCEPT ![t] = @ + 1]
      /\ req' = [req EXCEPT ![r] = row]
      /\ excused' = IF Recomputing(t) THEN excused \cup {t} ELSE excused \ {t}
      /\ UNCHANGED <<stats, ticks, page, gets>>
  BY DEF CommitVote, client
<1>2. TypeOK
  BY DEF LiveIsSound
<1>3. row \in Work /\ row.left = AfterCommit /\ row.topic = t
  BY DEF Work, Lefts
<1> HIDE DEF row
<1>4. req' \in [Requests -> Work] /\ req'[r] = row /\ \A q \in Requests \ {r} : req'[q] = req[q]
  BY <1>1, <1>2, <1>3 DEF TypeOK
<1>5. /\ committed' \in [Topics -> Nat] /\ \A u \in Topics : committed[u] \in Nat /\ committed'[u] >= committed[u]
      /\ \A u \in Topics \ {t} : committed'[u] = committed[u]
  BY <1>1, <1>2 DEF TypeOK
<1>6. TypeOK' /\ WorkHasTopic'
  BY <1>1, <1>2, <1>3, <1>4, <1>5 DEF LiveIsSound, TypeOK, WorkHasTopic
<1>7. ShowsItsTopic'
  BY <1>1 DEF LiveIsSound, ShowsItsTopic
<1>8. NothingAhead'
  <2>1. ASSUME NEW q \in Requests, req'[q].left = <<"broadcast">> PROVE req'[q].seen <= committed'[req'[q].topic]
    <3>1. q # r
      BY <1>3, <1>4, <2>1 DEF AfterCommit
    <3>2. req[q] \in Work /\ req[q].left = <<"broadcast">> /\ <<"broadcast">> # <<>>
      <4>1. req[q] \in Work /\ req[q].left = <<"broadcast">>
        BY <1>2, <1>4, <2>1, <3>1 DEF TypeOK
      <4> QED BY <4>1
    <3>3. req[q].topic \in Topics /\ req[q].seen \in Nat /\ req[q].seen <= committed[req[q].topic]
      BY <3>2 DEF LiveIsSound, NothingAhead, WorkHasTopic, Work
    <3> QED BY <1>4, <1>5, <3>1, <3>3
  <2>2. ASSUME NEW i \in 1..Len(ticks) PROVE ticks[i].total <= committed'[ticks[i].topic]
    <3>1. ticks[i] \in Tick
      BY <1>2 DEF TypeOK
    <3>2. ticks[i].topic \in Topics /\ ticks[i].total \in Nat /\ ticks[i].total <= committed[ticks[i].topic]
      BY <3>1 DEF LiveIsSound, NothingAhead, Tick
    <3> QED BY <1>5, <3>2
  <2>3. page.timer # Nothing => page.timer.topic \in Topics /\ page.timer.votes <= committed'[page.timer.topic]
    <3>1. page.timer \in Content
      BY <1>2 DEF TypeOK, Page
    <3>2. page.timer # Nothing => page.timer.topic \in Topics /\ page.timer.votes <= committed[page.timer.topic]
      BY DEF LiveIsSound, NothingAhead
    <3> QED BY <1>5, <3>1, <3>2 DEF Content
  <2>4. ASSUME NEW i \in 1..Len(gets) PROVE FetchIsSound(gets[i])'
    <3>1. gets[i] \in Fetch /\ FetchIsSound(gets[i]) /\ gets' = gets
      BY <1>1, <1>2 DEF LiveIsSound, NothingAhead, TypeOK
    <3> QED BY <1>5, <3>1 DEF FetchIsSound, Fetch
  <2> QED BY <1>1, <2>1, <2>2, <2>3, <2>4 DEF NothingAhead
<1>9. OneWriter'
  <2>1. \A q \in Requests, u \in Topics : Writes(q, u)' <=> IF q = r THEN u = t ELSE Writes(q, u)
    BY <1>3, <1>4 DEF Writes
  <2>2. \A u \in Topics : ~Writes(r, u)
    BY <1>1 DEF Writes, AfterCommit
  <2>3. ASSUME NEW u \in Topics \ excused'
        PROVE  /\ (\A q \in Requests : ~Writes(q, u)') => stats'[u] = committed'[u]
               /\ \A q, p \in Requests : Writes(q, u)' /\ Writes(p, u)' => q = p
               /\ \A q \in Requests : req'[q].topic = u /\ req'[q].left = <<"update", "total", "broadcast">>
                                        => req'[q].seen = committed'[u]
    <3>1. CASE u = t
      <4>1. ~Recomputing(t)
        BY <1>1, <3>1
      <4>2. \A q \in Requests : ~Writes(q, t)
        BY <1>2, <4>1, WritersRecompute
      <4>3. \A q \in Requests : Writes(q, t)' <=> q = r
        BY <2>1, <4>2
      <4>4. \A q \in Requests : req'[q].topic = t => req'[q].left # <<"update", "total", "broadcast">>
        <5>1. req'[r].left # <<"update", "total", "broadcast">>
          BY <1>3, <1>4 DEF AfterCommit
        <5>2. \A q \in Requests \ {r} : ~(req[q].topic = t /\ req[q].left = <<"update", "total", "broadcast">>)
          BY <4>2 DEF Writes
        <5> QED BY <1>4, <5>1, <5>2
      <4> QED BY <3>1, <4>3, <4>4
    <3>2. CASE u # t
      <4>1. u \in Topics \ excused /\ committed'[u] = committed[u] /\ stats'[u] = stats[u]
        BY <1>1, <1>5, <3>2
      <4>2. \A q \in Requests : Writes(q, u)' <=> Writes(q, u)
        BY <2>1, <2>2, <3>2
      <4>3. \A q \in Requests : req'[q].topic = u => q # r /\ req'[q] = req[q]
        BY <1>3, <1>4, <3>2
      <4> QED BY <4>1, <4>2, <4>3 DEF LiveIsSound, OneWriter
    <3> QED BY <3>1, <3>2
  <2> QED BY <2>3 DEF OneWriter
<1> QED BY <1>6, <1>7, <1>8, <1>9 DEF LiveIsSound

\* What a step writes into the row of its request.
LEMMA StepWrites ==
    ASSUME TypeOK, NEW r \in Requests, NEW seen, Step(r, seen)
    PROVE  req' = [req EXCEPT ![r] = [left |-> Tail(req[r].left), topic |-> req[r].topic, seen |-> seen]]
<1> DEFINE row == [left |-> Tail(req[r].left), topic |-> req[r].topic, seen |-> seen]
<1>1. PICK left \in Lefts, topic \in Topics \cup {NoTopic}, old \in Nat :
            req[r] = [left |-> left, topic |-> topic, seen |-> old]
  BY DEF TypeOK, Work
<1>2. [[req[r] EXCEPT !.left = Tail(req[r].left)] EXCEPT !.seen = seen] = row
  <2>1. \A x : [[left |-> left, topic |-> topic, seen |-> old] EXCEPT !.left = x]
                = [left |-> x, topic |-> topic, seen |-> old]
    OBVIOUS
  <2>2. \A x : [[left |-> x, topic |-> topic, seen |-> old] EXCEPT !.seen = seen]
                = [left |-> x, topic |-> topic, seen |-> seen]
    OBVIOUS
  <2>3. row = [left |-> Tail(left), topic |-> topic, seen |-> seen] /\ req[r].left = left
    BY <1>1
  <2> HIDE DEF row
  <2>4. [[left |-> left, topic |-> topic, seen |-> old] EXCEPT !.left = Tail(req[r].left)]
          = [left |-> Tail(left), topic |-> topic, seen |-> old]
    BY <2>1, <2>3
  <2>5. [req[r] EXCEPT !.left = Tail(req[r].left)] = [left |-> Tail(left), topic |-> topic, seen |-> old]
    BY <1>1, <2>4
  <2>6. [[left |-> Tail(left), topic |-> topic, seen |-> old] EXCEPT !.seen = seen] = row
    BY <2>2, <2>3
  <2> QED BY <2>5, <2>6
<1>3. req' = [[req EXCEPT ![r].left = Tail(@)] EXCEPT ![r].seen = seen]
  BY DEF Step
<1>4. [req EXCEPT ![r].left = Tail(@)] = [req EXCEPT ![r] = [req[r] EXCEPT !.left = Tail(req[r].left)]]
  OBVIOUS
<1>5. req \in [Requests -> Work]
  BY DEF TypeOK
<1> QED BY <1>2, <1>3, <1>4, <1>5

\* The other steps of a request change nothing but its own row, what it announces and the statistics.
LEMMA OthersWork ==
    ASSUME LiveIsSound, NEW r \in Requests, NEW row \in Work, req[r].left # <<>>,
           req' = [req EXCEPT ![r] = row], row.left # <<>> => row.topic = req[r].topic,
           row.left = <<"broadcast">> => row.seen <= committed[row.topic],
           UNCHANGED <<committed, page, gets>>,
           ticks' \in Seq(Tick), \A i \in 1..Len(ticks') : ticks'[i].total <= committed[ticks'[i].topic],
           stats' \in [Topics -> Nat], OneWriter'
    PROVE  LiveIsSound'
<1>1. TypeOK
  BY DEF LiveIsSound
<1>2. req' \in [Requests -> Work] /\ req'[r] = row /\ \A q \in Requests \ {r} : req'[q] = req[q]
  BY <1>1 DEF TypeOK
<1>3. TypeOK'
  BY <1>1, <1>2 DEF TypeOK
<1>4. WorkHasTopic' /\ ShowsItsTopic'
  BY <1>2 DEF LiveIsSound, WorkHasTopic, ShowsItsTopic
<1>5. NothingAhead'
  BY <1>2 DEF LiveIsSound, NothingAhead, FetchIsSound
<1> QED BY <1>3, <1>4, <1>5 DEF LiveIsSound

LEMMA AggregateKeeps ==
    ASSUME LiveIsSound, NEW r \in Requests, Aggregate(r)
    PROVE  LiveIsSound'
<1> DEFINE t == req[r].topic
           row == [left |-> <<"update", "total", "broadcast">>, topic |-> t, seen |-> committed[t]]
<1>1. TypeOK /\ req[r] \in Work
  BY DEF LiveIsSound, TypeOK
<1>2. req[r].left = AfterCommit /\ Tail(req[r].left) = <<"update", "total", "broadcast">> /\ req[r].left # <<>>
  BY <1>1, NextLeft DEF Aggregate, At
<1>3. t \in Topics /\ committed[t] \in Nat
  BY <1>1, <1>2 DEF LiveIsSound, WorkHasTopic, TypeOK
<1>4. req' = [req EXCEPT ![r] = row]
  BY <1>1, <1>2, StepWrites DEF Aggregate
<1>5. UNCHANGED <<committed, stats, excused, ticks, page, gets>>
  BY DEF Aggregate, client
<1>6. row \in Work /\ row.left = <<"update", "total", "broadcast">> /\ row.topic = t /\ row.seen = committed[t]
  BY <1>3 DEF Work, Lefts
<1> HIDE DEF row
<1>7. req'[r] = row /\ \A q \in Requests \ {r} : req'[q] = req[q]
  BY <1>1, <1>4 DEF TypeOK
<1>8. \A q \in Requests, u \in Topics : Writes(q, u)' <=> Writes(q, u)
  BY <1>2, <1>6, <1>7 DEF Writes
<1>9. \A q \in Requests, u \in Topics \ excused :
         req'[q].topic = u /\ req'[q].left = <<"update", "total", "broadcast">> => req'[q].seen = committed[u]
  BY <1>6, <1>7 DEF LiveIsSound, OneWriter
<1>10. OneWriter'
  BY <1>5, <1>8, <1>9 DEF LiveIsSound, OneWriter
<1>11. row.left # <<"broadcast">>
  BY <1>6
<1>12. ticks \in Seq(Tick) /\ stats \in [Topics -> Nat]
       /\ \A i \in 1..Len(ticks) : ticks[i].total <= committed[ticks[i].topic]
  BY <1>1 DEF TypeOK, LiveIsSound, NothingAhead
<1> QED BY <1>2, <1>4, <1>5, <1>6, <1>10, <1>11, <1>12, OthersWork

\* The one that writes the statistics has counted everything, unless its topic is excused.
LEMMA UpdateKeeps ==
    ASSUME LiveIsSound, NEW r \in Requests, UpdateStats(r)
    PROVE  LiveIsSound'
<1> DEFINE t == req[r].topic
           row == [left |-> NoRecompute, topic |-> t, seen |-> 0]
<1>1. TypeOK /\ req[r] \in Work
  BY DEF LiveIsSound, TypeOK
<1>2. /\ req[r].left = <<"update", "total", "broadcast">> /\ Tail(req[r].left) = NoRecompute
      /\ req[r].left # <<>>
  BY <1>1, NextLeft DEF UpdateStats, At
<1>3. t \in Topics /\ req[r].seen \in Nat
  BY <1>1, <1>2 DEF LiveIsSound, WorkHasTopic, Work
<1>4. req' = [req EXCEPT ![r] = row]
  BY <1>1, <1>2, StepWrites DEF UpdateStats
<1>5. /\ UNCHANGED <<committed, ticks, page, gets>>
      /\ \/ stats' = [stats EXCEPT ![t] = req[r].seen] /\ excused' = excused
         \/ stats' = stats /\ excused' = excused \cup {t}
  BY DEF UpdateStats, client
<1>6. row \in Work /\ row.left = NoRecompute /\ row.topic = t
  BY <1>3 DEF Work, Lefts
<1> HIDE DEF row
<1>7. req'[r] = row /\ \A q \in Requests \ {r} : req'[q] = req[q]
  BY <1>1, <1>4 DEF TypeOK
<1>8. row.left \notin {AfterCommit, <<"update", "total", "broadcast">>, <<"broadcast">>}
  BY <1>6 DEF AfterCommit, NoRecompute
<1>9. \A q \in Requests, u \in Topics : Writes(q, u)' <=> q # r /\ Writes(q, u)
  BY <1>7, <1>8 DEF Writes
<1>10. Writes(r, t)
  BY <1>2 DEF Writes
<1>11. ASSUME NEW u \in Topics \ excused'
       PROVE  /\ (\A q \in Requests : ~Writes(q, u)') => stats'[u] = committed'[u]
              /\ \A q, p \in Requests : Writes(q, u)' /\ Writes(p, u)' => q = p
              /\ \A q \in Requests : req'[q].topic = u /\ req'[q].left = <<"update", "total", "broadcast">>
                                       => req'[q].seen = committed'[u]
  <2>1. u \in Topics \ excused
    BY <1>5
  <2>2. \A q \in Requests : req'[q].left = <<"update", "total", "broadcast">> => q # r /\ req'[q] = req[q]
    BY <1>7, <1>8
  <2>3. (\A q \in Requests : ~Writes(q, u)') => stats'[u] = committed'[u]
    <3>1. CASE u = t
      <4>1. stats'[u] = req[r].seen /\ req[r].seen = committed[u]
        BY <1>1, <1>2, <1>3, <1>5, <2>1, <3>1 DEF LiveIsSound, OneWriter, TypeOK
      <4> QED BY <1>5, <4>1
    <3>2. CASE u # t
      <4>1. stats'[u] = stats[u] /\ ~Writes(r, u)
        BY <1>1, <1>5, <3>2 DEF TypeOK, Writes
      <4> QED BY <1>5, <1>9, <2>1, <4>1 DEF LiveIsSound, OneWriter
    <3> QED BY <3>1, <3>2
  <2> QED BY <1>5, <1>9, <2>1, <2>2, <2>3 DEF LiveIsSound, OneWriter
<1>12. OneWriter'
  BY <1>11 DEF OneWriter
<1>13. stats' \in [Topics -> Nat]
  BY <1>1, <1>3, <1>5 DEF TypeOK
<1>14. ticks' \in Seq(Tick) /\ \A i \in 1..Len(ticks') : ticks'[i].total <= committed[ticks'[i].topic]
  BY <1>1, <1>5 DEF TypeOK, LiveIsSound, NothingAhead
<1> QED BY <1>2, <1>4, <1>5, <1>6, <1>8, <1>12, <1>13, <1>14, OthersWork

LEMMA TotalKeeps ==
    ASSUME LiveIsSound, NEW r \in Requests, ReadTotal(r) \/ Broadcast(r)
    PROVE  LiveIsSound'
<1> DEFINE t == req[r].topic
           row == IF ReadTotal(r) THEN [left |-> <<"broadcast">>, topic |-> t, seen |-> committed[t]] ELSE Idle
<1>1. TypeOK /\ req[r] \in Work
  BY DEF LiveIsSound, TypeOK
<1>2. /\ req[r].left # <<>> /\ req[r].left \in {NoRecompute, <<"broadcast">>}
      /\ ReadTotal(r) => Tail(req[r].left) = <<"broadcast">>
      /\ Broadcast(r) => req[r].left = <<"broadcast">>
  BY <1>1, NextLeft DEF ReadTotal, Broadcast, At
<1>3. t \in Topics /\ committed[t] \in Nat
  BY <1>1, <1>2 DEF LiveIsSound, WorkHasTopic, TypeOK
<1>4. req' = [req EXCEPT ![r] = row]
  <2>1. CASE ReadTotal(r)
    BY <1>1, <1>2, <2>1, StepWrites DEF ReadTotal
  <2>2. CASE ~ReadTotal(r)
    BY <2>2 DEF Broadcast
  <2> QED BY <2>1, <2>2
<1>5. UNCHANGED <<committed, stats, excused, page, gets>>
  BY DEF ReadTotal, Broadcast, client
<1>6. /\ row \in Work /\ row.left \in {<<>>, <<"broadcast">>}
      /\ row.left # <<>> => row.topic = t
      /\ row.left = <<"broadcast">> => row.topic = t /\ row.seen = committed[t]
  <2>1. CASE ReadTotal(r)
    BY <1>3, <2>1 DEF Work, Lefts
  <2>2. CASE ~ReadTotal(r)
    BY <1>3, <2>2 DEF Work, Lefts, Idle
  <2> QED BY <2>1, <2>2
<1> HIDE DEF row
<1>7. req'[r] = row /\ \A q \in Requests \ {r} : req'[q] = req[q]
  BY <1>1, <1>4 DEF TypeOK
<1>8. /\ row.left \notin {AfterCommit, <<"update", "total", "broadcast">>}
      /\ req[r].left \notin {AfterCommit, <<"update", "total", "broadcast">>}
  BY <1>2, <1>6 DEF AfterCommit, NoRecompute
<1>9. \A q \in Requests, u \in Topics : Writes(q, u)' <=> Writes(q, u)
  BY <1>7, <1>8 DEF Writes
<1>10. \A q \in Requests : req'[q].left = <<"update", "total", "broadcast">> => req'[q] = req[q]
  BY <1>7, <1>8
<1>11. OneWriter'
  BY <1>5, <1>9, <1>10 DEF LiveIsSound, OneWriter
<1>12. ticks' \in Seq(Tick) /\ \A i \in 1..Len(ticks') : ticks'[i].total <= committed[ticks'[i].topic]
  <2> DEFINE tick == [topic |-> t, total |-> Announced(r)]
  <2>1. /\ ticks \in Seq(Tick) /\ Len(ticks) \in Nat
        /\ \A i \in 1..Len(ticks) : ticks[i].total <= committed[ticks[i].topic]
    BY <1>1 DEF TypeOK, LiveIsSound, NothingAhead
  <2>2. CASE ticks' = ticks
    BY <2>1, <2>2
  <2>3. CASE ticks' # ticks
    <3>1. Broadcast(r) /\ ticks' = Append(ticks, tick)
      BY <2>3 DEF ReadTotal, Broadcast
    <3>2. req[r].seen \in Nat /\ req[r].seen <= committed[t]
      BY <1>1, <1>2, <3>1 DEF LiveIsSound, NothingAhead, Work
    <3>3. tick \in Tick /\ tick.total <= committed[tick.topic]
      BY <1>3, <3>2 DEF Tick, Announced
    <3> HIDE DEF tick
    <3>4. ticks' \in Seq(Tick) /\ Len(ticks') = Len(ticks) + 1
      BY <2>1, <3>1, <3>3
    <3>5. \A i \in 1..Len(ticks) + 1 : ticks'[i] = IF i = Len(ticks) + 1 THEN tick ELSE ticks[i]
      BY <2>1, <3>1, <3>3
    <3> QED BY <2>1, <3>3, <3>4, <3>5
  <2> QED BY <2>2, <2>3
<1>13. stats' \in [Topics -> Nat]
  BY <1>1, <1>5 DEF TypeOK
<1>14. row.left = <<"broadcast">> => row.seen <= committed[row.topic]
  BY <1>3, <1>6
<1> QED BY <1>2, <1>4, <1>5, <1>6, <1>11, <1>12, <1>13, <1>14, OthersWork

-----------------------------------------------------------------------------
(* The page.                                                               *)

FetchesAreSound(fetches) == fetches \in Seq(Fetch) /\ \A i \in 1..Len(fetches) : FetchIsSound(fetches[i])

LEMMA FetchAdded ==
    ASSUME FetchesAreSound(gets), NEW get \in Fetch, FetchIsSound(get)
    PROVE  FetchesAreSound(Append(gets, get))
<1>1. gets \in Seq(Fetch) /\ Len(gets) \in Nat /\ \A i \in 1..Len(gets) : FetchIsSound(gets[i])
  BY DEF FetchesAreSound
<1>2. Append(gets, get) \in Seq(Fetch) /\ Len(Append(gets, get)) = Len(gets) + 1
  BY <1>1
<1>3. \A i \in 1..Len(gets) + 1 : Append(gets, get)[i] = IF i = Len(gets) + 1 THEN get ELSE gets[i]
  BY <1>1
<1>4. ASSUME NEW i \in 1..Len(gets) + 1 PROVE FetchIsSound(Append(gets, get)[i])
  <2>1. CASE i = Len(gets) + 1
    BY <1>3, <2>1
  <2>2. CASE i # Len(gets) + 1
    BY <1>1, <1>3, <2>2
  <2> QED BY <2>1, <2>2
<1> QED BY <1>2, <1>4 DEF FetchesAreSound

LEMMA FetchRemoved ==
    ASSUME FetchesAreSound(gets), NEW i \in 1..Len(gets)
    PROVE  FetchesAreSound(RemoveAt(gets, i))
<1>1. gets \in Seq(Fetch) /\ \A j \in 1..Len(gets) : FetchIsSound(gets[j])
  BY DEF FetchesAreSound
<1>2. /\ RemoveAt(gets, i) \in Seq(Fetch)
      /\ \A k \in 1..Len(RemoveAt(gets, i)) : \E j \in 1..Len(gets) : RemoveAt(gets, i)[k] = gets[j]
  BY <1>1, Removed
<1> QED BY <1>1, <1>2 DEF FetchesAreSound

\* What the page does leaves the server alone.
LEMMA ClientKeeps ==
    ASSUME LiveIsSound, UNCHANGED server,
           ticks' \in Seq(Tick), \A i \in 1..Len(ticks') : ticks'[i].total <= committed[ticks'[i].topic],
           NEW fetches, FetchesAreSound(fetches), gets' = fetches,
           page' \in Page, ShowsItsTopic',
           page'.timer # Nothing =>
               page'.timer.topic \in Topics /\ page'.timer.votes <= committed[page'.timer.topic]
    PROVE  LiveIsSound'
<1>1. UNCHANGED <<committed, stats, req, excused>>
  BY DEF server
<1>2. TypeOK'
  BY <1>1 DEF LiveIsSound, TypeOK, FetchesAreSound
<1>3. WorkHasTopic' /\ OneWriter'
  BY <1>1 DEF LiveIsSound, WorkHasTopic, OneWriter, Writes
<1>4. \A i \in 1..Len(gets') : FetchIsSound(gets[i])'
  BY <1>1 DEF FetchesAreSound, FetchIsSound
<1>5. NothingAhead'
  BY <1>1, <1>4 DEF LiveIsSound, NothingAhead
<1> QED BY <1>2, <1>3, <1>5 DEF LiveIsSound

LEMMA PageFacts ==
    LiveIsSound => /\ page \in Page /\ FetchesAreSound(gets)
                   /\ ticks \in Seq(Tick) /\ \A i \in 1..Len(ticks) : ticks[i].total <= committed[ticks[i].topic]
                   /\ ShowsItsTopic
                   /\ page.timer # Nothing =>
                        page.timer.topic \in Topics /\ page.timer.votes <= committed[page.timer.topic]
                   /\ committed \in [Topics -> Nat]
BY DEF LiveIsSound, TypeOK, NothingAhead, FetchesAreSound

LEMMA NothingTypes == Nothing \in Content /\ Nothing.topic = NoTopic /\ NoTopic \notin Topics
BY DEF Nothing, Content

\* A navigation shows nothing as its own until its fetch has come back; so does a reload.
LEMMA LoadKeeps ==
    ASSUME LiveIsSound, (\E t \in Topics : Navigate(t)) \/ Reload
    PROVE  LiveIsSound'
<1>1. PICK t \in Topics, kind \in {"watch", "reload"} :
         /\ gets' = Append(gets, Get(t, kind, 0))
         /\ page' = [[page EXCEPT !.topic = t] EXCEPT !.loading = TRUE]
         /\ UNCHANGED <<server, ticks>>
  <2>1. CASE Reload
    <3>1. [page EXCEPT !.topic = page.topic] = page /\ page.topic \in Topics
      BY PageFacts DEF Page
    <3> QED BY <2>1, <3>1 DEF Reload
  <2>2. CASE \E t \in Topics : Navigate(t)
    BY <2>2 DEF Navigate
  <2> QED BY <2>1, <2>2
<1>2. Get(t, kind, 0) \in Fetch /\ FetchIsSound(Get(t, kind, 0))
  BY NothingTypes DEF Get, Fetch, FetchIsSound
<1>3. FetchesAreSound(Append(gets, Get(t, kind, 0)))
  BY <1>2, FetchAdded, PageFacts
<1>4. page' \in Page /\ page'.loading /\ page'.timer = page.timer
  BY <1>1, PageFacts DEF Page
<1> QED BY <1>1, <1>3, <1>4, ClientKeeps, PageFacts DEF ShowsItsTopic

LEMMA DeliverKeeps ==
    ASSUME LiveIsSound, Deliver
    PROVE  LiveIsSound'
<1> DEFINE tick == Head(ticks)
           timer == [Nothing EXCEPT !.topic = page.topic, !.votes = tick.total]
<1>1. tick \in Tick /\ tick.total <= committed[tick.topic]
  BY PageFacts, HeadTailProperties DEF Deliver
<1>2. /\ ticks' \in Seq(Tick) /\ \A i \in 1..Len(ticks') : ticks'[i].total <= committed[ticks'[i].topic]
  <2>1. ticks' = Tail(ticks) /\ ticks # <<>>
    BY DEF Deliver
  <2>2. ticks' \in Seq(Tick) /\ Len(ticks') = Len(ticks) - 1 /\ \A i \in 1..Len(ticks') : ticks'[i] = ticks[i + 1]
    BY <2>1, PageFacts, HeadTailProperties
  <2>3. Len(ticks) \in Nat /\ \A i \in 1..Len(ticks) : ticks[i].total <= committed[ticks[i].topic]
    BY PageFacts
  <2> QED BY <2>2, <2>3
<1>3. timer = [topic |-> page.topic, votes |-> tick.total]
  <2>1. \A x : [[topic |-> NoTopic, votes |-> 0] EXCEPT !.topic = x] = [topic |-> x, votes |-> 0]
    OBVIOUS
  <2>2. \A x, y : [[topic |-> x, votes |-> 0] EXCEPT !.votes = y] = [topic |-> x, votes |-> y]
    OBVIOUS
  <2>3. [Nothing EXCEPT !.topic = page.topic] = [topic |-> page.topic, votes |-> 0]
    BY <2>1 DEF Nothing
  <2>4. timer = [[Nothing EXCEPT !.topic = page.topic] EXCEPT !.votes = tick.total]
    OBVIOUS
  <2> HIDE DEF tick, timer
  <2> QED BY <2>2, <2>3, <2>4
<1>4. UNCHANGED <<server, gets>> /\ \/ page' = page
                                    \/ /\ tick.topic = page.topic
                                       /\ page' = [page EXCEPT !.total = tick.total, !.timer = timer]
  BY DEF Deliver
<1> HIDE DEF tick, timer
<1>5. CASE page' = page
  BY <1>2, <1>4, <1>5, ClientKeeps, PageFacts DEF ShowsItsTopic
<1>6. CASE tick.topic = page.topic /\ page' = [page EXCEPT !.total = tick.total, !.timer = timer]
  <2>1. timer \in Content /\ timer.topic \in Topics /\ timer.votes <= committed[timer.topic]
    BY <1>1, <1>3, <1>6, PageFacts DEF Page, Content, Tick
  <2>2. page' \in Page /\ page'.timer = timer /\ page'.topic = page.topic
        /\ page'.shown = page.shown /\ page'.loading = page.loading
    BY <1>1, <1>6, <2>1, PageFacts DEF Page, Tick
  <2>3. ShowsItsTopic'
    BY <2>2, PageFacts DEF ShowsItsTopic
  <2> QED BY <1>2, <1>4, <2>1, <2>2, <2>3, ClientKeeps, PageFacts
<1> QED BY <1>4, <1>5, <1>6

LEMMA TimerKeeps ==
    ASSUME LiveIsSound, TimerFires
    PROVE  LiveIsSound'
<1> DEFINE get == Get(page.timer.topic, "refresh", page.timer.votes)
<1>1. /\ gets' = Append(gets, get) /\ page' = [page EXCEPT !.timer = Nothing] /\ page.timer # Nothing
      /\ UNCHANGED <<server, ticks>>
  BY DEF TimerFires
<1>2. get \in Fetch /\ FetchIsSound(get)
  <2>1. page.timer.topic \in Topics /\ page.timer.votes <= committed[page.timer.topic] /\ page.timer.votes \in Nat
    BY <1>1, PageFacts DEF Page, Content
  <2> QED BY <2>1, PageFacts, NothingTypes DEF Get, Fetch, FetchIsSound
<1> HIDE DEF get
<1>3. FetchesAreSound(Append(gets, get))
  BY <1>2, FetchAdded, PageFacts
<1>4. page' \in Page /\ page'.timer = Nothing /\ page'.topic = page.topic
      /\ page'.shown = page.shown /\ page'.loading = page.loading
  BY <1>1, PageFacts, NothingTypes DEF Page
<1>5. ShowsItsTopic'
  BY <1>4, PageFacts DEF ShowsItsTopic
<1> QED BY <1>1, <1>3, <1>4, <1>5, ClientKeeps, PageFacts

LEMMA AnswerKeeps ==
    ASSUME LiveIsSound, NEW i \in 1..Len(gets), Answer(i)
    PROVE  LiveIsSound'
<1> DEFINE get == [gets[i] EXCEPT !.answer = [topic |-> gets[i].topic, votes |-> committed[gets[i].topic]]]
<1>1. UNCHANGED <<server, ticks, page>> /\ gets' = [gets EXCEPT ![i] = get]
  BY DEF Answer
<1>2. gets \in Seq(Fetch) /\ gets[i] \in Fetch /\ \A j \in 1..Len(gets) : FetchIsSound(gets[j])
  BY PageFacts DEF FetchesAreSound
<1>3. committed[gets[i].topic] \in Nat
  BY <1>2, PageFacts DEF Fetch
<1>4. /\ get \in Fetch /\ get.topic = gets[i].topic /\ get.kind = gets[i].kind /\ get.tick = gets[i].tick
      /\ get.answer = [topic |-> gets[i].topic, votes |-> committed[gets[i].topic]]
  BY <1>2, <1>3 DEF Fetch, Content
<1> HIDE DEF get
<1>5. FetchIsSound(get)
  BY <1>2, <1>4 DEF FetchIsSound
<1>6. /\ [gets EXCEPT ![i] = get] \in Seq(Fetch) /\ Len([gets EXCEPT ![i] = get]) = Len(gets)
      /\ \A j \in 1..Len(gets) : [gets EXCEPT ![i] = get][j] = IF j = i THEN get ELSE gets[j]
  BY <1>2, <1>4, ExceptSeq
<1>7. ASSUME NEW j \in 1..Len(gets) PROVE FetchIsSound([gets EXCEPT ![i] = get][j])
  <2>1. CASE j = i
    BY <1>5, <1>6, <2>1
  <2>2. CASE j # i
    BY <1>2, <1>6, <2>2
  <2> QED BY <2>1, <2>2
<1>8. FetchesAreSound([gets EXCEPT ![i] = get])
  BY <1>6, <1>7 DEF FetchesAreSound
<1> QED BY <1>1, <1>8, ClientKeeps, PageFacts DEF ShowsItsTopic

\* An answer or an error ends a fetch; only one for the topic of the page changes what it shows.
LEMMA EndOfFetchKeeps ==
    ASSUME LiveIsSound, NEW i \in 1..Len(gets), Receive(i) \/ Fail(i)
    PROVE  LiveIsSound'
<1>1. UNCHANGED <<server, ticks>> /\ gets' = RemoveAt(gets, i)
  BY DEF Receive, Fail
<1>2. FetchesAreSound(RemoveAt(gets, i))
  BY FetchRemoved, PageFacts
<1>3. gets[i] \in Fetch /\ FetchIsSound(gets[i]) /\ page \in Page
  BY PageFacts DEF FetchesAreSound
<1>4. /\ page' \in Page /\ page'.timer = page.timer /\ page'.topic = page.topic
      /\ \/ page'.shown = page.shown /\ page'.loading = page.loading
         \/ page'.shown.topic \in {page.topic, NoTopic}
  <2> DEFINE shown == Shown(gets[i], gets[i].answer)
             failed == IF gets[i].kind # "refresh" /\ gets[i].topic = page.topic
                       THEN [page EXCEPT !.shown = Nothing, !.loading = FALSE] ELSE page
             last == page.listening \/ gets[i].kind = "mount"
  <2>1. CASE Receive(i)
    <3>1. gets[i].answer \in Content /\ gets[i].answer.topic = gets[i].topic
      BY <1>3, <2>1 DEF Fetch, FetchIsSound, Receive
    <3>2. /\ shown \in Page /\ shown.timer = page.timer /\ shown.topic = page.topic
          /\ \/ shown.shown = page.shown /\ shown.loading = page.loading
             \/ shown.shown.topic \in {page.topic, NoTopic}
      <4>1. CASE gets[i].topic # page.topic
        BY <1>3, <4>1 DEF Shown
      <4>2. CASE gets[i].topic = page.topic /\ gets[i].kind = "refresh"
        BY <1>3, <3>1, <4>2 DEF Shown, Page, Content
      <4>3. CASE gets[i].topic = page.topic /\ gets[i].kind # "refresh"
        BY <1>3, <3>1, <4>3 DEF Shown, Page, Content
      <4> QED BY <4>1, <4>2, <4>3
    <3>3. page' = [shown EXCEPT !.listening = shown.listening \/ gets[i].kind = "mount"]
      BY <2>1 DEF Receive
    <3> HIDE DEF shown
    <3>4. (shown.listening \/ gets[i].kind = "mount") \in BOOLEAN
      OBVIOUS
    <3> QED BY <3>2, <3>3, <3>4 DEF Page
  <2>2. CASE Fail(i)
    <3>1. /\ failed \in Page /\ failed.timer = page.timer /\ failed.topic = page.topic
          /\ \/ failed.shown = page.shown /\ failed.loading = page.loading
             \/ failed.shown.topic = NoTopic
      <4>1. CASE gets[i].kind # "refresh" /\ gets[i].topic = page.topic
        BY <1>3, <4>1, NothingTypes DEF Page
      <4>2. CASE ~(gets[i].kind # "refresh" /\ gets[i].topic = page.topic)
        BY <1>3, <4>2
      <4> QED BY <4>1, <4>2
    <3>2. page' = [failed EXCEPT !.listening = failed.listening \/ gets[i].kind = "mount"]
      BY <2>2 DEF Fail
    <3> HIDE DEF failed
    <3>3. (failed.listening \/ gets[i].kind = "mount") \in BOOLEAN
      OBVIOUS
    <3> QED BY <3>1, <3>2, <3>3 DEF Page
  <2> QED BY <2>1, <2>2
<1>5. ShowsItsTopic'
  BY <1>4, PageFacts DEF ShowsItsTopic
<1> QED BY <1>1, <1>2, <1>4, <1>5, ClientKeeps, PageFacts

LEMMA LiveStep == LiveIsSound /\ [Next]_vars => LiveIsSound'
<1> SUFFICES ASSUME LiveIsSound, [Next]_vars PROVE LiveIsSound'
  OBVIOUS
<1>1. CASE UNCHANGED vars
  BY <1>1, ClientKeeps, PageFacts DEF vars, client, ShowsItsTopic
<1>2. ASSUME NEW t \in Topics, Join(t) PROVE LiveIsSound'
  BY <1>2, ClientKeeps, PageFacts DEF Join, client, ShowsItsTopic
<1>3. ASSUME NEW r \in Requests, ServerStep(r) PROVE LiveIsSound'
  BY <1>3, AggregateKeeps, UpdateKeeps, TotalKeeps DEF ServerStep
<1>4. ASSUME NEW i \in DOMAIN gets, Answer(i) \/ Receive(i) \/ Fail(i) PROVE LiveIsSound'
  <2>1. i \in 1..Len(gets)
    BY DEF LiveIsSound, TypeOK
  <2> QED BY <1>4, <2>1, AnswerKeeps, EndOfFetchKeeps
<1> QED BY <1>1, <1>2, <1>3, <1>4, CommitKeeps, LoadKeeps, DeliverKeeps, TimerKeeps DEF Next, PageStep

-----------------------------------------------------------------------------
\* The statistics are those of the votes once the recomputations of a topic are over, unless its
\* last one overlapped another or failed.
THEOREM StatsAreRepaired == Spec => []LoneVoteRepairsStats
<1>1. LiveIsSound => LoneVoteRepairsStats
  BY WritersRecompute DEF LiveIsSound, OneWriter, LoneVoteRepairsStats
<1> QED BY <1>1, LiveInit, LiveStep, PTL DEF Spec

\* The page shows its own topic or an error unless it is loading, and a fetch after a tick never
\* brings fewer votes than the tick announced.
THEOREM PageStaysCurrent == Spec => []PageIsNotStale
<1>1. LiveIsSound => PageIsNotStale
  BY DEF LiveIsSound, TypeOK, NothingAhead, FetchIsSound, ShowsItsTopic, PageIsNotStale
<1> QED BY <1>1, LiveInit, LiveStep, PTL DEF Spec
=============================================================================
