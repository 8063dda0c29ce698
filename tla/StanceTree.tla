---------------------------- MODULE StanceTree ----------------------------
(***************************************************************************)
(* The stances of one topic as rows: imported with it, published from      *)
(* proposals, reported, taken down and removed (stances.service.ts), with  *)
(* the posts on them and the likes of the posts (posts.service.ts).  A     *)
(* request reads first and writes later; only the writes below are         *)
(* transactions.  Foreign keys act as the migrations declare them:         *)
(* children, results and reports of a stance go with it, a proposal that   *)
(* answers it and a post on it restrict its deletion.                      *)
(***************************************************************************)
EXTENDS Integers, FiniteSets

CONSTANTS
    Stances,        \* identifiers of rows, Nat
    Posts,          \* identifiers of posts
    Members,        \* who reports, posts and likes
    Calls,          \* API requests under way
    MaxDepth,       \* MAX_DEPTH
    Menus,          \* sets of operations that are requested together
    MaxCalls        \* bound: requests that arrive

NoStance == 0       \* parent_id NULL
Ops == {"submit", "publish", "resolve", "remove", "post", "report", "takedown", "restore", "like", "close"}

VARIABLES
    menu,           \* operations of this behaviour
    stance,         \* rows: parent, depth and status of each, "NONE" before and "GONE" after the row
    official,       \* stances with application results
    proposed,       \* stances some application names as its parent
    report,         \* status of the report of each member on each stance, "NONE" for no row
    lateReport,     \* history: reports opened on a stance that was already down
    post,           \* stance of each post, NoStance for no row
    likes,          \* rows of likes: <<member, post, id>>
    likeCount,      \* like_count of each post
    drift,          \* history: counter updates lost in a crash, positive when like_count is too low
    open,           \* the topic is open and approved
    call,           \* requests under way
    called          \* bounded number of requests so far

rows == <<stance, official, proposed, report, lateReport, post, likes, likeCount, drift, open>>
vars == <<menu, rows, call, called>>

NoRow == [parent |-> NoStance, depth |-> 0, status |-> "NONE"]
Idle == [op |-> "none", stance |-> NoStance, member |-> "nobody", post |-> "none", pc |-> "idle",
         seen |-> {}, existing |-> "NONE", id |-> 0]

Live == {s \in Stances : stance[s].status \in {"ACTIVE", "TAKEN_DOWN"}}
Unused == {s \in Stances : stance[s].status = "NONE"}
Active(s) == stance[s].status = "ACTIVE"
Children(s) == {c \in Live : stance[c].parent = s}
\* s and everything below it: what ON DELETE CASCADE reaches.
Closed(S) == \A c \in S : Children(c) \subseteq S
Below(s) == {t \in Stances : \A S \in SUBSET Stances : s \in S /\ Closed(S) => t \in S}

\* importEditorial: assertStanceTreeDepth, then createStanceTree gives each node the depth of its
\* place.  The first stance is a root; the others hang anywhere the depth allows.
Imported(tree) ==
    /\ \A s \in Stances: tree[s].status = "NONE" => tree[s] = NoRow
    /\ \A s \in Stances: tree[s].status # "NONE" =>
          /\ tree[s].status = "ACTIVE"
          /\ IF tree[s].parent = NoStance THEN tree[s].depth = 0
             ELSE /\ tree[s].parent < s /\ tree[tree[s].parent].status = "ACTIVE"
                  /\ tree[s].depth = tree[tree[s].parent].depth + 1
    /\ \E n \in 1..2: {s \in Stances : tree[s].status = "ACTIVE"} = 1..n

Init ==
    /\ menu \in Menus
    /\ stance \in {tree \in [Stances -> [parent: Stances \cup {NoStance}, depth: 0..MaxDepth,
                                         status: {"NONE", "ACTIVE"}]] : Imported(tree)}
    /\ official = {} /\ proposed = {} /\ lateReport = {}
    /\ report = [x \in Stances \X Members |-> "NONE"]
    /\ post \in [Posts -> IF "like" \in menu THEN {1} ELSE {NoStance}]
    /\ likes = {} /\ likeCount = [p \in Posts |-> 0] /\ drift = [p \in Posts |-> 0]
    /\ open = TRUE
    /\ call = [c \in Calls |-> Idle] /\ called = 0

Goto(c, pc) == call' = [call EXCEPT ![c].pc = pc]
Done(c) == call' = [call EXCEPT ![c] = Idle]
At(c, op, pc) == call[c].op = op /\ call[c].pc = pc

\* A request names a stance or, to like, a post; only a proposal may name no stance.
Request(c, op, s, u, p) ==
    /\ call[c].pc = "idle" /\ called < MaxCalls /\ op \in menu
    /\ IF op \in {"submit", "publish", "resolve"} THEN TRUE ELSE (s = NoStance) <=> (op \in {"like", "close"})
    /\ call' = [call EXCEPT ![c] = [Idle EXCEPT !.op = op, !.stance = s, !.member = u, !.post = p, !.pc = "check",
                                             !.id = IF op = "like" THEN called + 1 ELSE 0]]
    /\ called' = called + 1
    /\ UNCHANGED <<menu, rows>>

----------------------------------------------------------------------------
(* Proposals become stances (the whole of their life is StanceApplications). *)

\* assertOpenTarget
OpenTarget(p) == open /\ (p = NoStance \/ (Active(p) /\ stance[p].depth + 1 <= MaxDepth))

AddStance(p) ==
    \E s \in Unused:
        /\ \A t \in Unused: s <= t
        /\ stance' = [stance EXCEPT ![s] =
               [parent |-> p, depth |-> IF p = NoStance THEN 0 ELSE stance[p].depth + 1, status |-> "ACTIVE"]]
        /\ official' = official \cup {s}

\* submit, resolve and createPost check the target in one statement and insert in another.
CheckTarget(c) ==
    /\ call[c].op \in {"submit", "resolve"} /\ call[c].pc = "check"
    /\ IF OpenTarget(call[c].stance) THEN Goto(c, "write") ELSE Done(c)
    /\ UNCHANGED <<menu, rows, called>>

\* The application row keeps its parent from being deleted.
Submit(c) ==
    /\ At(c, "submit", "write")
    /\ proposed' = proposed \cup ({call[c].stance} \cap Live)
    /\ Done(c)
    /\ UNCHANGED <<menu, stance, official, report, lateReport, post, likes, likeCount, drift, open, called>>

\* publish holds topic and parent while it checks and inserts; its parent is the application's.
Publish(c) ==
    /\ At(c, "publish", "check")
    /\ LET p == call[c].stance IN
       IF OpenTarget(p) /\ p \in proposed \cup {NoStance} /\ Unused # {}
       THEN AddStance(p) ELSE UNCHANGED <<stance, official>>
    /\ Done(c)
    /\ UNCHANGED <<menu, proposed, report, lateReport, post, likes, likeCount, drift, open, called>>

\* resolve may place the stance below any parent and holds none; the foreign key must exist.
Resolve(c) ==
    /\ At(c, "resolve", "write")
    /\ IF call[c].stance \in Live \cup {NoStance} /\ Unused # {}
       THEN AddStance(call[c].stance) ELSE UNCHANGED <<stance, official>>
    /\ Done(c)
    /\ UNCHANGED <<menu, proposed, report, lateReport, post, likes, likeCount, drift, open, called>>

----------------------------------------------------------------------------
(* remove: counts first, deletes later. *)

RemoveUncounted(c) ==
    /\ At(c, "remove", "check")
    /\ IF call[c].stance \in Live \ (official \cup proposed)
       THEN call' = [call EXCEPT ![c].pc = "write", ![c].seen = Live]
       ELSE Done(c)
    /\ UNCHANGED <<menu, rows, called>>

CountForRemove(c) ==
    /\ At(c, "remove", "check")
    /\ LET s == call[c].stance IN
       IF /\ s \in Live /\ s \notin official /\ s \notin proposed
          /\ Children(s) = {} /\ \A p \in Posts: post[p] # s
       THEN call' = [call EXCEPT ![c].pc = "write", ![c].seen = Live]
       ELSE Done(c)
    /\ UNCHANGED <<menu, rows, called>>

\* The delete cascades; a proposal or a post anywhere below refuses it.
Delete(c) ==
    /\ At(c, "remove", "write")
    /\ LET gone == IF call[c].stance \in Live THEN Below(call[c].stance) ELSE {} IN
       IF gone \cap proposed = {} /\ \A p \in Posts: post[p] \notin gone
       THEN /\ stance' = [s \in Stances |-> IF s \in gone THEN [NoRow EXCEPT !.status = "GONE"] ELSE stance[s]]
            /\ official' = official \ gone
            /\ report' = [x \in Stances \X Members |-> IF x[1] \in gone THEN "NONE" ELSE report[x]]
            /\ lateReport' = {x \in lateReport : x[1] \notin gone}
       ELSE UNCHANGED <<stance, official, report, lateReport>>
    /\ Done(c)
    /\ UNCHANGED <<menu, proposed, post, likes, likeCount, drift, open, called>>

----------------------------------------------------------------------------
(* Reports and moderation. *)

\* report: the stance must be active; then the reporter's own row is read; then written.
CheckReported(c) ==
    /\ At(c, "report", "check")
    /\ IF Active(call[c].stance) THEN Goto(c, "find") ELSE Done(c)
    /\ UNCHANGED <<menu, rows, called>>

FindReport(c) ==
    /\ At(c, "report", "find")
    /\ LET mine == report[call[c].stance, call[c].member] IN
       IF mine = "OPEN" THEN Done(c) ELSE call' = [call EXCEPT ![c].pc = "write", ![c].existing = mine]
    /\ UNCHANGED <<menu, rows, called>>

\* An insert meets the unique key and the foreign key; an update needs its row.
WriteReport(c) ==
    /\ At(c, "report", "write")
    /\ LET s == call[c].stance
           x == <<s, call[c].member>>
       IN  IF s \in Live /\ (IF call[c].existing = "NONE" THEN report[x] = "NONE" ELSE report[x] # "NONE")
           THEN /\ report' = [report EXCEPT ![x] = "OPEN"]
                /\ lateReport' = IF Active(s) THEN lateReport ELSE lateReport \cup {x}
           ELSE UNCHANGED <<report, lateReport>>
    /\ Done(c)
    /\ UNCHANGED <<menu, stance, official, proposed, post, likes, likeCount, drift, open, called>>

TakedownOnly(c) ==
    /\ At(c, "takedown", "check")
    /\ stance' = [stance EXCEPT ![call[c].stance].status = IF @ \in {"NONE", "GONE"} THEN @ ELSE "TAKEN_DOWN"]
    /\ Done(c)
    /\ UNCHANGED <<menu, official, proposed, report, lateReport, post, likes, likeCount, drift, open, called>>

\* takedown: the status and the open reports in one transaction, here one step, the commit.  A report
\* filed between the two updates is resolved by the second, which is the report filed before the step;
\* one filed after both, on a check made before, is late (WriteReport).
Takedown(c) ==
    /\ At(c, "takedown", "check")
    /\ LET s == call[c].stance IN
       IF s \in Live
       THEN /\ stance' = [stance EXCEPT ![s].status = "TAKEN_DOWN"]
            /\ report' = [x \in Stances \X Members |->
                             IF x[1] = s /\ report[x] = "OPEN" THEN "RESOLVED" ELSE report[x]]
            /\ lateReport' = {x \in lateReport : x[1] # s}
       ELSE UNCHANGED <<stance, report, lateReport>>
    /\ Done(c)
    /\ UNCHANGED <<menu, official, proposed, post, likes, likeCount, drift, open, called>>

\* restore: reports stay as they are.
Restore(c) ==
    /\ At(c, "restore", "check")
    /\ LET s == call[c].stance IN
       stance' = IF s \in Live THEN [stance EXCEPT ![s].status = "ACTIVE"] ELSE stance
    /\ lateReport' = {x \in lateReport : x[1] # call[c].stance}
    /\ Done(c)
    /\ UNCHANGED <<menu, official, proposed, report, post, likes, likeCount, drift, open, called>>

\* The topic locks, or its vote ends.
Close(c) ==
    /\ At(c, "close", "check")
    /\ open' = FALSE
    /\ Done(c)
    /\ UNCHANGED <<menu, stance, official, proposed, report, lateReport, post, likes, likeCount, drift, called>>

----------------------------------------------------------------------------
(* Posts and likes. *)

CheckPost(c) ==
    /\ At(c, "post", "check")
    /\ IF open /\ Active(call[c].stance) THEN Goto(c, "write") ELSE Done(c)
    /\ UNCHANGED <<menu, rows, called>>

CreatePost(c) ==
    /\ At(c, "post", "write")
    /\ LET p == call[c].post IN
       IF call[c].stance \in Live /\ post[p] = NoStance
       THEN post' = [post EXCEPT ![p] = call[c].stance] ELSE UNCHANGED post
    /\ Done(c)
    /\ UNCHANGED <<menu, stance, official, proposed, report, lateReport, likes, likeCount, drift, open, called>>

\* toggleLike: the row is read, written and counted in three statements.
OwnLikes(c) == {x \in likes : x[1] = call[c].member /\ x[2] = call[c].post}
NewLike(c) == <<call[c].member, call[c].post, call[c].id>>

FindLike(c) ==
    /\ At(c, "like", "check")
    /\ call' = [call EXCEPT ![c].pc = IF OwnLikes(c) = {} THEN "like" ELSE "unlike", ![c].seen = OwnLikes(c)]
    /\ UNCHANGED <<menu, rows, called>>

\* create fails on the unique key, delete by id fails when that row is gone: no count then.
WriteLike(c) ==
    /\ call[c].pc \in {"like", "unlike"}
    /\ IF call[c].pc = "like"
       THEN IF OwnLikes(c) = {} THEN likes' = likes \cup {NewLike(c)} /\ Goto(c, "increment")
            ELSE Done(c) /\ UNCHANGED likes
       ELSE IF call[c].seen \subseteq likes THEN likes' = likes \ call[c].seen /\ Goto(c, "decrement")
            ELSE Done(c) /\ UNCHANGED likes
    /\ UNCHANGED <<menu, stance, official, proposed, report, lateReport, post, likeCount, drift, open, called>>

CountLike(c) ==
    /\ call[c].pc \in {"increment", "decrement"}
    /\ likeCount' = [likeCount EXCEPT ![call[c].post] = IF call[c].pc = "increment" THEN @ + 1 ELSE @ - 1]
    /\ Done(c)
    /\ UNCHANGED <<menu, stance, official, proposed, report, lateReport, post, likes, drift, open, called>>

\* The process dies, or the connection is lost, between two statements of a request.
Abandon(c) ==
    /\ call[c].pc # "idle"
    /\ drift' = [drift EXCEPT ![call[c].post] = IF call[c].pc = "increment" THEN @ + 1
                                                ELSE IF call[c].pc = "decrement" THEN @ - 1 ELSE @]
    /\ Done(c)
    /\ UNCHANGED <<menu, stance, official, proposed, report, lateReport, post, likes, likeCount, open, called>>

CallStep(c) ==
    \/ CheckTarget(c) \/ Submit(c) \/ Publish(c) \/ Resolve(c) \/ CountForRemove(c) \/ Delete(c)
    \/ CheckReported(c) \/ FindReport(c) \/ WriteReport(c) \/ Takedown(c) \/ Restore(c) \/ Close(c)
    \/ CheckPost(c) \/ CreatePost(c) \/ FindLike(c) \/ WriteLike(c) \/ CountLike(c) \/ Abandon(c)

Next == \E c \in Calls:
    \/ CallStep(c)
    \/ \E op \in Ops, s \in Stances \cup {NoStance}, u \in Members, p \in Posts: Request(c, op, s, u, p)

Spec == Init /\ [][Next]_vars

----------------------------------------------------------------------------
(* What must hold. *)

\* Whoever asks for the open reports (listReports) finds none about a stance that is already down,
\* except reports that passed their check before the takedown and were filed after it.
OpenReportsAreLate ==
    \A x \in Stances \X Members:
        report[x] = "OPEN" /\ stance[x[1]].status = "TAKEN_DOWN" => x \in lateReport

\* remove refuses a stance that something hangs on: what it takes along in spite of that was placed
\* there after it counted, and no proposal's parent, and no discussed stance is ever lost.
RemovalsTakeOnlyNewcomers ==
    [][\A s \in Live \ Live':
          /\ s \notin proposed /\ \A p \in Posts: post[p] # s
          /\ \E c \in Calls: /\ call[c].op = "remove" /\ call'[c].op = "none"
                             /\ s = call[c].stance \/ s \notin call[c].seen]_vars

\* like_count is the number of likes, up to counter updates that requests still owe or that were
\* lost with the process: toggleLike has no transaction.
LikeCountsFollowLikes ==
    \A p \in Posts:
        LET owed(pc) == Cardinality({c \in Calls : call[c].post = p /\ call[c].pc = pc})
        IN  likeCount[p] + owed("increment") + drift[p]
                = Cardinality({x \in likes : x[2] = p}) + owed("decrement")
=============================================================================
