-------------------------------- MODULE Gifs --------------------------------
(***************************************************************************)
(* GIFs as rows (memes.service.ts): review, takedown, collections, reports *)
(* and the rewards for their use in posts and comments.  Every transaction *)
(* is a request with the row locks it holds; a step is a statement.        *)
(***************************************************************************)
EXTENDS Naturals, FiniteSets

CONSTANTS
    Gifs, Requests,
    Users,          \* members
    Actors,         \* those who collect, report and use GIFs here
    Nobody,         \* no request holds the row
    Creator,        \* gif -> its creator
    ActorLimit,     \* MEME_USAGE_ACTOR_DAILY_LIMIT
    CreatorLimit,   \* MEME_USAGE_CREATOR_DAILY_LIMIT
    MaxRequests     \* bound: requests that arrive

VARIABLES
    official,       \* gifs of origin OFFICIAL
    status,         \* gif -> memes.status
    collected,      \* rows of meme_collections: <<user, gif>>
    collections,    \* gif -> collection_count
    report,         \* <<gif, user>> -> status of the report
    lateReport,     \* history: reports filed after the takedown they had not seen
    rewarded,       \* usage events of the day with status REWARDED: <<actor, gif, request number>>
    points,         \* user -> points paid for uses
    gifLock, userLock,  \* row locks: who holds the row of a gif, of a user
    req, arrived

rows == <<status, collected, collections, report, lateReport, rewarded, points>>
locks == <<gifLock, userLock>>
vars == <<official, rows, locks, req, arrived>>

Ops == {"approve", "reject", "collect", "uncollect", "takedown", "report", "use"}
Idle == [op |-> "none", pc |-> "idle", gif |-> CHOOSE g \in Gifs : TRUE,
         user |-> CHOOSE u \in Actors : TRUE, no |-> 0, found |-> "none"]

\* upload leaves a user's GIF to review and approves an official one; some are approved by now.
Init ==
    /\ official \in {{}, {CHOOSE g \in Gifs : TRUE}}
    /\ status \in [Gifs -> {"PENDING_REVIEW", "APPROVED"}]
    /\ \A g \in official : status[g] = "APPROVED"
    /\ collected = {} /\ collections = [g \in Gifs |-> 0]
    /\ report = [x \in Gifs \X Actors |-> "NONE"] /\ lateReport = {}
    /\ rewarded = {} /\ points = [u \in Users |-> 0]
    /\ gifLock = [g \in Gifs |-> Nobody] /\ userLock = [u \in Users |-> Nobody]
    /\ req = [r \in Requests |-> Idle] /\ arrived = 0

At(r, op, pc) == req[r].op = op /\ req[r].pc = pc
Goto(r, pc) == req' = [req EXCEPT ![r].pc = pc]
Released(r) ==
    /\ gifLock' = [g \in Gifs |-> IF gifLock[g] = r THEN Nobody ELSE gifLock[g]]
    /\ userLock' = [u \in Users |-> IF userLock[u] = r THEN Nobody ELSE userLock[u]]
End(r) == req' = [req EXCEPT ![r] = Idle] /\ Released(r)

Arrive(r, op, g, u) ==
    /\ req[r].pc = "idle" /\ arrived < MaxRequests
    /\ op \in {"approve", "reject", "takedown"} => u = Idle.user      \* an editor: who does not matter
    /\ req' = [req EXCEPT ![r] = [op |-> op, pc |-> "start", gif |-> g, user |-> u,
                                  no |-> arrived + 1, found |-> "none"]]
    /\ arrived' = arrived + 1
    /\ UNCHANGED <<rows, locks>>

\* A transaction fails, or its process dies: what it wrote was never seen.
Abort(r) ==
    /\ req[r].pc # "idle"
    /\ End(r)
    /\ UNCHANGED <<rows, arrived>>

----------------------------------------------------------------------------
(* Moderation. *)

\* approve and reject: one conditional statement, which waits for the row.
Decide(r) ==
    /\ req[r].op \in {"approve", "reject"} /\ req[r].pc = "start"
    /\ LET g == req[r].gif IN
       /\ gifLock[g] = Nobody
       /\ status' = IF status[g] # "PENDING_REVIEW" THEN status
                    ELSE [status EXCEPT ![g] = IF req[r].op = "approve" THEN "APPROVED" ELSE "REJECTED"]
    /\ End(r)
    /\ UNCHANGED <<collected, collections, report, lateReport, rewarded, points, arrived>>

ReadUnlocked(r) ==
    /\ req[r].op \in {"collect", "uncollect", "takedown"} /\ req[r].pc = "start"
    /\ req' = [req EXCEPT ![r].pc = "write", ![r].found = status[req[r].gif]]
    /\ UNCHANGED <<rows, locks, arrived>>

\* SELECT ... FOR UPDATE at the start of collect, uncollect and takedown.
LockGif(r) ==
    /\ req[r].op \in {"collect", "uncollect", "takedown"} /\ req[r].pc = "start"
    /\ gifLock[req[r].gif] = Nobody
    /\ gifLock' = [gifLock EXCEPT ![req[r].gif] = r]
    /\ Goto(r, "read")
    /\ UNCHANGED <<rows, userLock, arrived>>

ReadStatus(r) ==
    /\ req[r].pc = "read"
    /\ req' = [req EXCEPT ![r].pc = "write", ![r].found = status[req[r].gif]]
    /\ UNCHANGED <<rows, locks, arrived>>

\* takedown (Serializable): collections, status, count and open reports together.
Takedown(r) ==
    /\ At(r, "takedown", "write")
    /\ LET g == req[r].gif IN
       IF req[r].found = "APPROVED"
       THEN /\ collected' = {x \in collected : x[2] # g} /\ collections' = [collections EXCEPT ![g] = 0]
            /\ status' = [status EXCEPT ![g] = "TAKEN_DOWN"]
            /\ report' = [x \in Gifs \X Actors |-> IF x[1] = g /\ report[x] = "OPEN" THEN "RESOLVED" ELSE report[x]]
       ELSE UNCHANGED <<collected, collections, status, report>>
    /\ End(r)
    /\ UNCHANGED <<lateReport, rewarded, points, arrived>>

\* report: the status is read in one statement, the row written in another.
FindReported(r) ==
    /\ At(r, "report", "start")
    /\ LET g == req[r].gif IN
       IF status[g] = "APPROVED" /\ Creator[g] # req[r].user THEN Goto(r, "write") /\ UNCHANGED locks ELSE End(r)
    /\ UNCHANGED <<rows, arrived>>

Report(r) ==
    /\ At(r, "report", "write")
    /\ LET x == <<req[r].gif, req[r].user>> IN
       IF report[x] = "NONE"
       THEN /\ report' = [report EXCEPT ![x] = "OPEN"]
            /\ lateReport' = IF status[x[1]] = "APPROVED" THEN lateReport ELSE lateReport \cup {x}
       ELSE UNCHANGED <<report, lateReport>>
    /\ End(r)
    /\ UNCHANGED <<status, collected, collections, rewarded, points, arrived>>

----------------------------------------------------------------------------
(* Collections. *)

Collect(r) ==
    /\ At(r, "collect", "write")
    /\ LET g == req[r].gif
           x == <<req[r].user, g>>
       IN  IF req[r].found = "APPROVED" /\ x \notin collected
           THEN collected' = collected \cup {x} /\ collections' = [collections EXCEPT ![g] = @ + 1]
           ELSE UNCHANGED <<collected, collections>>
    /\ End(r)
    /\ UNCHANGED <<status, report, lateReport, rewarded, points, arrived>>

Uncollect(r) ==
    /\ At(r, "uncollect", "write")
    /\ LET g == req[r].gif
           x == <<req[r].user, g>>
       IN  IF x \in collected
           THEN collected' = collected \ {x} /\ collections' = [collections EXCEPT ![g] = @ - 1]
           ELSE UNCHANGED <<collected, collections>>
    /\ End(r)
    /\ UNCHANGED <<status, report, lateReport, rewarded, points, arrived>>

----------------------------------------------------------------------------
(* recordUsage, inside the transaction of a post or a comment. *)

FindUsed(r) ==
    /\ At(r, "use", "start")
    /\ IF status[req[r].gif] = "APPROVED" THEN Goto(r, "lock") /\ UNCHANGED locks ELSE End(r)
    /\ UNCHANGED <<rows, arrived>>

RewardedTo(actor) == {e \in rewarded : e[1] = actor}
RewardedFor(creator) == {e \in rewarded : Creator[e[2]] = creator}

\* The first reason not to pay; the counts are of committed events.
RewardStatus(g, actor) ==
    IF g \in official THEN "OFFICIAL"
    ELSE IF Creator[g] = actor THEN "SELF_USE"
    ELSE IF \E e \in RewardedTo(actor) : e[2] = g THEN "DUPLICATE_DAILY_USE"
    ELSE IF Cardinality(RewardedTo(actor)) >= ActorLimit THEN "ACTOR_DAILY_LIMIT"
    ELSE IF Cardinality(RewardedFor(Creator[g])) >= CreatorLimit THEN "CREATOR_DAILY_LIMIT"
    ELSE "REWARDED"

\* The rows of the actor and the creator in the order of their ids: taken together.
LockUsers(r) ==
    /\ At(r, "use", "lock")
    /\ LET both == {req[r].user, Creator[req[r].gif]} IN
       /\ \A u \in both : userLock[u] = Nobody
       /\ userLock' = [u \in Users |-> IF u \in both THEN r ELSE userLock[u]]
    /\ Goto(r, "judge")
    /\ UNCHANGED <<rows, gifLock, arrived>>

Judge(r) ==
    /\ At(r, "use", "judge")
    /\ req' = [req EXCEPT ![r].pc = "pay", ![r].found = RewardStatus(req[r].gif, req[r].user)]
    /\ UNCHANGED <<rows, locks, arrived>>

\* The event, the ledger row and the balance; the counters of the gif's row wait for its lock.
Pay(r) ==
    /\ At(r, "use", "pay")
    /\ gifLock[req[r].gif] = Nobody
    /\ LET g == req[r].gif IN
       IF req[r].found = "REWARDED"
       THEN /\ rewarded' = rewarded \cup {<<req[r].user, g, req[r].no>>}
            /\ points' = [points EXCEPT ![Creator[g]] = @ + 1]
       ELSE UNCHANGED <<rewarded, points>>
    /\ End(r)
    /\ UNCHANGED <<status, collected, collections, report, lateReport, arrived>>

Step(r) ==
    \/ Decide(r) \/ LockGif(r) \/ ReadStatus(r) \/ Takedown(r) \/ FindReported(r) \/ Report(r)
    \/ Collect(r) \/ Uncollect(r) \/ FindUsed(r) \/ LockUsers(r) \/ Judge(r) \/ Pay(r) \/ Abort(r)

Next ==
    /\ \E r \in Requests : Step(r) \/ \E op \in Ops, g \in Gifs, u \in Actors : Arrive(r, op, g, u)
    /\ UNCHANGED official

Spec == Init /\ [][Next]_vars

----------------------------------------------------------------------------
\* collection_count is the number of rows; a takedown leaves nobody the GIF, and no report open
\* that had not passed its check before - whatever collects, uncollections and reports it met.
TakedownsSettle ==
    /\ \A g \in Gifs : collections[g] = Cardinality({x \in collected : x[2] = g})
    /\ \A x \in collected : status[x[2]] = "APPROVED"
    /\ \A x \in Gifs \X Actors : report[x] = "OPEN" /\ status[x[1]] = "TAKEN_DOWN" => x \in lateReport

\* The uses that pay stay within the limits of the day of the one who uses and of the one who is
\* paid, once per GIF and actor, and each has its point, however many posts are written at once.
RewardsWithinLimits ==
    /\ \A u \in Users : /\ Cardinality(RewardedTo(u)) <= ActorLimit
                        /\ Cardinality(RewardedFor(u)) <= CreatorLimit
                        /\ points[u] = Cardinality(RewardedFor(u))
    /\ \A d, e \in rewarded : d[1] = e[1] /\ d[2] = e[2] => d = e
=============================================================================
