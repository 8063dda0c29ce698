----------------------------- MODULE LiveCounts -----------------------------
(***************************************************************************)
(* What happens after a vote has committed: the statistics of a spectrum   *)
(* topic are recomputed, the counts are read again and broadcast to the    *)
(* room of the topic (TopicsService, RealtimeGateway), and the topic page  *)
(* of the web client fetches the topic on every tick (pages/topic/[id].vue,*)
(* useRealtime.ts).  None of it is in the transaction of the vote.         *)
(*                                                                         *)
(* The answers to a topic are told apart by how many changes have been     *)
(* committed: a median, a total or a response is the number of changes it  *)
(* was computed from.                                                      *)
(***************************************************************************)
EXTENDS Naturals, Sequences, SequencesExt, Functions

CONSTANTS
    Topics,        \* SPECTRUM topics
    First,         \* the topic the page is opened on
    NoTopic,
    Requests,      \* votes, changed votes and withdrawals in progress at once
    DbErrors,      \* whether the recomputation may fail
    MaxEvents      \* bound: committed changes, navigations and reloads together

ASSUME LiveAssumption == First \in Topics /\ NoTopic \notin Topics /\ DbErrors \in BOOLEAN

VARIABLES
    committed,     \* topic -> committed changes of its votes
    stats,         \* topic -> changes its spectrum_median was computed from
    req,           \* request -> what it has left to do after its commit
    room,          \* the topics whose room the socket of the page is in
    joining,       \* topic:join messages whose checks are still running
    ticks,         \* vote:update messages on their way to the page, in order
    page,          \* the page: its topic, what it shows
    gets,          \* GET /topics/:id in flight
    loads,         \* navigations and reloads so far
    excused        \* history: topics whose last recomputation overlapped another or failed

server == <<committed, stats, req, excused>>
client == <<page, gets, loads>>
vars   == <<server, room, joining, ticks, client>>

Events == FoldFunction(+, 0, committed) + loads

Idle == [left |-> <<>>, topic |-> NoTopic, seen |-> 0]

Nothing == [topic |-> NoTopic, votes |-> 0]

\* kind: "mount", "watch" (navigation), "reload" (after a vote, or the button) or "refresh"
\* (after a tick, which announced so many changes).
Get(t, kind, tick) == [topic |-> t, kind |-> kind, tick |-> tick, answer |-> Nothing]

Init ==
    /\ committed = [t \in Topics |-> 0]
    /\ stats = [t \in Topics |-> 0]
    /\ req = [r \in Requests |-> Idle]
    /\ room = {} /\ joining = {} /\ ticks = <<>>
    /\ page = [topic |-> First, shown |-> Nothing, total |-> 0, loading |-> TRUE,
               listening |-> FALSE, timer |-> Nothing]
    /\ gets = <<Get(First, "mount", 0)>>
    /\ loads = 0
    /\ excused = {}

-----------------------------------------------------------------------------
(* The server.                                                             *)

NoRecompute == <<"total", "broadcast">>

\* recomputeSpectrum (a query, then an update), the total, the broadcast.
AfterCommit == <<"aggregate", "update", "total", "broadcast">>

At(r, step) == req[r].left # <<>> /\ Head(req[r].left) = step

Step(r, seen) == req' = [req EXCEPT ![r].left = Tail(@), ![r].seen = seen]

\* A request has still to write the statistics of t.
Recomputing(t) == \E r \in Requests : req[r].topic = t /\ "update" \in Range(req[r].left)

\* The transaction of vote, revote, withdrawVote or a draw commits.
CommitVote(r, t) ==
    /\ req[r].left = <<>>
    /\ Events < MaxEvents
    /\ committed' = [committed EXCEPT ![t] = @ + 1]
    /\ req' = [req EXCEPT ![r] = [left |-> AfterCommit, topic |-> t, seen |-> 0]]
    /\ excused' = IF Recomputing(t) THEN excused \cup {t} ELSE excused \ {t}
    /\ UNCHANGED <<stats, room, joining, ticks, client>>

\* SELECT percentile_cont ... FROM votes
Aggregate(r) ==
    /\ At(r, "aggregate")
    /\ Step(r, committed[req[r].topic])
    /\ UNCHANGED <<committed, stats, excused, room, joining, ticks, client>>

\* UPDATE topics SET spectrum_median; an error is swallowed.
UpdateStats(r) ==
    /\ At(r, "update")
    /\ \/ stats' = [stats EXCEPT ![req[r].topic] = req[r].seen] /\ UNCHANGED excused
       \/ DbErrors /\ excused' = excused \cup {req[r].topic} /\ UNCHANGED stats
    /\ Step(r, 0)
    /\ UNCHANGED <<committed, room, joining, ticks, client>>

ReadTotal(r) ==
    /\ At(r, "total")
    /\ Step(r, committed[req[r].topic])
    /\ UNCHANGED <<committed, stats, excused, room, joining, ticks, client>>

\* The total the tick carries.
Announced(r) == req[r].seen

Broadcast(r) ==
    LET t == req[r].topic IN
    /\ At(r, "broadcast")
    /\ ticks' = IF t \in room THEN Append(ticks, [topic |-> t, total |-> Announced(r)]) ELSE ticks
    /\ req' = [req EXCEPT ![r] = Idle]
    /\ UNCHANGED <<committed, stats, excused, room, joining, client>>

\* handleJoinTopic has found the topic open to the socket.
Join(t) ==
    /\ t \in joining
    /\ room' = room \cup {t}
    /\ joining' = joining \ {t}
    /\ UNCHANGED <<server, ticks, client>>

-----------------------------------------------------------------------------
(* The page.                                                               *)

\* watch(topicId): leave the room, load, and join the room of the new topic.
Navigate(t) ==
    /\ t # page.topic
    /\ Events < MaxEvents
    /\ loads' = loads + 1
    /\ room' = room \ {page.topic}
    /\ page' = [page EXCEPT !.topic = t, !.loading = TRUE]
    /\ gets' = Append(gets, Get(t, "watch", 0))
    /\ UNCHANGED <<server, joining, ticks>>

\* load() after the user's own vote, or by the button.
Reload ==
    /\ ~page.loading
    /\ Events < MaxEvents
    /\ loads' = loads + 1
    /\ page' = [page EXCEPT !.loading = TRUE]
    /\ gets' = Append(gets, Get(page.topic, "reload", 0))
    /\ UNCHANGED <<server, room, joining, ticks>>

\* Ticks are dropped while the page is loading.
DeliverUnlessLoading ==
    /\ ticks # <<>>
    /\ LET tick == Head(ticks) IN
       page' = IF page.listening /\ tick.topic = page.topic /\ ~page.loading
               THEN [page EXCEPT !.total = tick.total,
                                 !.timer = [Nothing EXCEPT !.topic = page.topic, !.votes = tick.total]]
               ELSE page
    /\ ticks' = Tail(ticks)
    /\ UNCHANGED <<server, room, joining, gets, loads>>

\* applyUpdate: show the total, and fetch the topic 100 ms after the last tick.
Deliver ==
    /\ ticks # <<>>
    /\ LET tick == Head(ticks) IN
       page' = IF page.listening /\ tick.topic = page.topic
               THEN [page EXCEPT !.total = tick.total,
                                 !.timer = [Nothing EXCEPT !.topic = page.topic, !.votes = tick.total]]
               ELSE page
    /\ ticks' = Tail(ticks)
    /\ UNCHANGED <<server, room, joining, gets, loads>>

TimerFires ==
    /\ page.timer # Nothing
    /\ gets' = Append(gets, Get(page.timer.topic, "refresh", page.timer.votes))
    /\ page' = [page EXCEPT !.timer = Nothing]
    /\ UNCHANGED <<server, room, joining, ticks, loads>>

\* TopicsService.detail reads the topic.
Answer(i) ==
    /\ gets[i].answer = Nothing
    /\ LET t == gets[i].topic IN
       gets' = [gets EXCEPT ![i].answer = [topic |-> t, votes |-> committed[t]]]
    /\ UNCHANGED <<server, room, joining, ticks, page, loads>>

\* mount joins the room of the topic of the page by now, a navigation the room it was made for.
JoinAfter(get) ==
    CASE get.kind = "mount" -> {page.topic}
      [] get.kind = "watch" -> {get.topic}
      [] OTHER -> {}

\* Without the comparison of topicId with expectedId.
ShownAlways(get, fresh) ==
    [page EXCEPT !.shown = fresh, !.total = fresh.votes,
                 !.loading = IF get.kind = "refresh" THEN @ ELSE FALSE]

\* What the page is after an answer; an answer for another topic than its own changes nothing.
Shown(get, fresh) ==
    IF get.topic # page.topic
    THEN page
    ELSE [page EXCEPT !.shown = fresh, !.total = fresh.votes,
                      !.loading = IF get.kind = "refresh" THEN @ ELSE FALSE]

\* Responses come in any order.
Receive(i) ==
    /\ gets[i].answer # Nothing
    /\ page' = [Shown(gets[i], gets[i].answer) EXCEPT !.listening = @ \/ gets[i].kind = "mount"]
    /\ gets' = RemoveAt(gets, i)
    /\ joining' = joining \cup JoinAfter(gets[i])
    /\ UNCHANGED <<server, room, ticks, loads>>

\* The request fails: a refresh is given up, a load shows the error.
Fail(i) ==
    /\ page' = [IF gets[i].kind # "refresh" /\ gets[i].topic = page.topic
                THEN [page EXCEPT !.shown = Nothing, !.loading = FALSE] ELSE page
                EXCEPT !.listening = @ \/ gets[i].kind = "mount"]
    /\ gets' = RemoveAt(gets, i)
    /\ joining' = joining \cup JoinAfter(gets[i])
    /\ UNCHANGED <<server, room, ticks, loads>>

ServerStep(r) == Aggregate(r) \/ UpdateStats(r) \/ ReadTotal(r) \/ Broadcast(r)

PageStep ==
    \/ Deliver \/ TimerFires
    \/ \E i \in DOMAIN gets : Answer(i) \/ Receive(i)

Next ==
    \/ \E r \in Requests : ServerStep(r) \/ \E t \in Topics : CommitVote(r, t)
    \/ \E t \in Topics : Join(t) \/ Navigate(t)
    \/ Reload \/ PageStep
    \/ \E i \in DOMAIN gets : Fail(i)

Spec == Init /\ [][Next]_vars

\* The server goes on with what it has begun and its messages arrive.
FairSpec ==
    /\ Spec
    /\ \A r \in Requests : WF_vars(ServerStep(r))
    /\ WF_vars(Deliver)

-----------------------------------------------------------------------------
\* Whatever responses of the topics it has left still arrive, and in whatever order: a page that is
\* not loading shows its own topic or an error, and the fetch after a tick never shows fewer votes
\* than the tick announced.
PageIsNotStale ==
    /\ ~page.loading => page.shown.topic \in {page.topic, NoTopic}
    /\ \A i \in DOMAIN gets :
          gets[i].kind = "refresh" /\ gets[i].answer # Nothing => gets[i].answer.votes >= gets[i].tick

\* A page in the room of its topic comes to show every vote committed by then, unless the
\* user moves on.  It presumes that the process lives to broadcast and that messages to a connected socket
\* arrive: of a tick that is lost it only says what the next one makes good.
PageCatchesUp ==
    \A t \in Topics, n \in 1..MaxEvents :
        (page.topic = t /\ page.listening /\ t \in room /\ committed[t] >= n
            /\ \E r \in Requests : req[r].topic = t /\ At(r, "aggregate"))
        ~> (page.topic # t \/ page.total >= n)

\* recomputeSpectrum: "best-effort; stats refresh can be retried later".  The retry is the
\* next vote: the statistics are those of the votes whenever the last recomputation neither
\* overlapped another one of the topic nor failed.
LoneVoteRepairsStats == \A t \in Topics \ excused : ~Recomputing(t) => stats[t] = committed[t]
=============================================================================
