----------------------------- MODULE RateLimits -----------------------------
(***************************************************************************)
(* The counters in Redis that limit how often something may be asked: the  *)
(* plain ones of sign-in, registration and guardian codes (INCR, then      *)
(* EXPIRE), the scripted ones of AI authoring (both at once), and the one  *)
(* of topic creation, behind a cooldown.  Redis runs one command at a      *)
(* time; a request may die between two of its commands.                    *)
(***************************************************************************)
EXTENDS Naturals, FiniteSets

CONSTANTS
    Keys,           \* counters
    Discipline,     \* key -> "plain", "scripted" or "cooldown"
    Limit,          \* requests a counter lets pass in its window
    Requests,
    MaxRequests     \* bound: requests that arrive

VARIABLES
    count,          \* value of each counter, 0 for no key
    expiring,       \* counters that have a time to live
    cooling,        \* cooldown keys that are set
    passed,         \* history: requests each counter let pass in its window
    sinceCooldown,  \* history: topics created since the cooldown of a key was free
    orphaned,       \* history: counters whose first request died before EXPIRE
    req, arrived

store == <<count, expiring, cooling>>
seen == <<passed, sinceCooldown, orphaned>>
vars == <<store, seen, req, arrived>>

Idle == [key |-> CHOOSE k \in Keys : TRUE, pc |-> "idle", n |-> 0]

Init ==
    /\ count = [k \in Keys |-> 0] /\ expiring = {} /\ cooling = {}
    /\ passed = [k \in Keys |-> 0] /\ sinceCooldown = [k \in Keys |-> 0] /\ orphaned = {}
    /\ req = [r \in Requests |-> Idle] /\ arrived = 0

Goto(r, pc) == req' = [req EXCEPT ![r].pc = pc]
Done(r) == req' = [req EXCEPT ![r] = Idle]
Key(r) == req[r].key

Arrive(r, k) ==
    /\ req[r].pc = "idle" /\ arrived < MaxRequests
    /\ req' = [req EXCEPT ![r] = [Idle EXCEPT !.key = k,
                                 !.pc = IF Discipline[k] = "cooldown" THEN "cooldown" ELSE "count"]]
    /\ arrived' = arrived + 1
    /\ UNCHANGED <<store, seen>>

CoolAlways(r) ==
    /\ req[r].pc = "cooldown"
    /\ cooling' = cooling \cup {Key(r)}
    /\ Goto(r, "count")
    /\ UNCHANGED <<count, expiring, seen, arrived>>

\* SET ... EX 600 NX: refused while another request's cooldown runs.
Cool(r) ==
    /\ req[r].pc = "cooldown"
    /\ IF Key(r) \in cooling THEN Done(r) /\ UNCHANGED cooling
       ELSE cooling' = cooling \cup {Key(r)} /\ Goto(r, "count")
    /\ UNCHANGED <<count, expiring, seen, arrived>>

\* INCR; the script sets the time to live in the same breath.
Count(r) ==
    /\ req[r].pc = "count"
    /\ LET n == count[Key(r)] + 1
           scripted == Discipline[Key(r)] = "scripted"
       IN  /\ count' = [count EXCEPT ![Key(r)] = n]
           /\ expiring' = IF scripted /\ n = 1 THEN expiring \cup {Key(r)} ELSE expiring
           /\ req' = [req EXCEPT ![r].n = n, ![r].pc = IF n = 1 /\ ~scripted THEN "expire" ELSE "judge"]
    /\ UNCHANGED <<cooling, seen, arrived>>

\* EXPIRE does nothing to a key that is gone.
SetExpiry(r) ==
    /\ req[r].pc = "expire"
    /\ expiring' = IF count[Key(r)] # 0 THEN expiring \cup {Key(r)} ELSE expiring
    /\ Goto(r, "judge")
    /\ UNCHANGED <<count, cooling, seen, arrived>>

Within(r) == req[r].n <= Limit

\* Refused above the limit; topic creation gives its cooldown back then.
Judge(r) ==
    /\ req[r].pc = "judge"
    /\ IF Within(r)
       THEN /\ passed' = [passed EXCEPT ![Key(r)] = @ + 1]
            /\ sinceCooldown' = [sinceCooldown EXCEPT ![Key(r)] = @ + 1]
            /\ UNCHANGED cooling
       ELSE /\ cooling' = IF Discipline[Key(r)] = "cooldown" THEN cooling \ {Key(r)} ELSE cooling
            /\ UNCHANGED <<passed, sinceCooldown>>
    /\ Done(r)
    /\ UNCHANGED <<count, expiring, orphaned, arrived>>

\* A process dies, or loses Redis, between two commands.
Die(r) ==
    /\ req[r].pc # "idle"
    /\ orphaned' = IF req[r].pc = "expire" THEN orphaned \cup {Key(r)} ELSE orphaned
    /\ Done(r)
    /\ UNCHANGED <<store, passed, sinceCooldown, arrived>>

\* Windows are hours and days: no request that counted in one is still under way when it ends.
WindowEnds(k) ==
    /\ k \in expiring
    /\ \A r \in Requests : req[r].pc # "idle" => req[r].key # k
    /\ count' = [count EXCEPT ![k] = 0] /\ expiring' = expiring \ {k}
    /\ passed' = [passed EXCEPT ![k] = 0]
    /\ UNCHANGED <<cooling, sinceCooldown, orphaned, req, arrived>>

CooldownEnds(k) ==
    /\ k \in cooling
    /\ \A r \in Requests : req[r].pc # "idle" => req[r].key # k
    /\ cooling' = cooling \ {k}
    /\ sinceCooldown' = [sinceCooldown EXCEPT ![k] = 0]
    /\ UNCHANGED <<count, expiring, passed, orphaned, req, arrived>>

Next ==
    \/ \E r \in Requests : Cool(r) \/ Count(r) \/ SetExpiry(r) \/ Judge(r) \/ Die(r)
                           \/ \E k \in Keys : Arrive(r, k)
    \/ \E k \in Keys : WindowEnds(k) \/ CooldownEnds(k)

Spec == Init /\ [][Next]_vars

----------------------------------------------------------------------------
\* No window lets more requests pass than its limit, and no two topics of one author are created
\* within one cooldown, however many requests arrive together.
LimitsHold ==
    \A k \in Keys : /\ passed[k] <= Limit
                    /\ Discipline[k] = "cooldown" => sinceCooldown[k] <= 1

\* A counter that will never expire locks its owner out for good once it is used up: it takes a
\* request that died between INCR and EXPIRE, and the scripted counters never get there.
LockoutNeedsACrash ==
    \A k \in Keys : count[k] # 0 /\ k \notin expiring =>
        \/ \E r \in Requests : req[r].pc = "expire" /\ Key(r) = k
        \/ k \in orphaned /\ Discipline[k] # "scripted"

\* The limits hold, and nobody is locked out for good unless a process died.
CountersLimit == LimitsHold /\ LockoutNeedsACrash
=============================================================================
