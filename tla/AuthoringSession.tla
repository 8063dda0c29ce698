-------------------------- MODULE AuthoringSession --------------------------
(***************************************************************************)
(* AI authoring (authoring.service.ts): a session in Redis holds the       *)
(* questions, then the drafts.  Generating them is guarded by a lock that  *)
(* expires, around a call to the language model that may take two          *)
(* attempts (openai-compatible.client.ts).  Time is counted in ticks of    *)
(* five seconds; only the lock and the model's time-out are timed.         *)
(***************************************************************************)
EXTENDS Naturals, FiniteSets

CONSTANTS
    Requests,       \* calls of generateDrafts for one session
    NoOne,          \* the lock is free
    LockTicks,      \* EX 40
    ModelTicks,     \* AI_AUTHORING_TIMEOUT_MS, 25 s
    MaxRequests     \* bound: calls that arrive

VARIABLES
    drafts,         \* the session's drafts: 0 before they exist, then which generation made them
    alive,          \* the session key has not expired
    holder,         \* whose token the lock key has, NoOne when there is no key
    lockAge,        \* ticks since the lock was set
    generations,    \* generations that reached the session so far
    pc, attempt,    \* per request: its next step, the attempts it has made
    age,            \* ticks since its attempt began
    twice,          \* history: requests whose first attempt failed and that try again
    arrived

locks == <<holder, lockAge>>
session == <<drafts, alive, generations>>
local == <<pc, attempt, age, twice>>
vars == <<session, locks, local, arrived>>

Init ==
    /\ drafts = 0 /\ alive = TRUE /\ generations = 0
    /\ holder = NoOne /\ lockAge = 0
    /\ pc = [r \in Requests |-> "idle"] /\ attempt = [r \in Requests |-> 0]
    /\ age = [r \in Requests |-> 0] /\ twice = {}
    /\ arrived = 0

\* A call is through: answered, refused or lost.
Forget(r) ==
    /\ pc' = [pc EXCEPT ![r] = "idle"] /\ attempt' = [attempt EXCEPT ![r] = 0]
    /\ age' = [age EXCEPT ![r] = 0] /\ twice' = twice \ {r}

Step(r, from, to) ==
    /\ pc[r] = from
    /\ pc' = [pc EXCEPT ![r] = to]

\* getSession; drafts that exist are returned as they are.
Read(r) ==
    /\ pc[r] = "idle" /\ arrived < MaxRequests /\ alive
    /\ arrived' = arrived + 1
    /\ IF drafts # 0 THEN UNCHANGED pc ELSE pc' = [pc EXCEPT ![r] = "lock"]
    /\ UNCHANGED <<session, locks, attempt, age, twice>>

LockHeldToo(r) ==
    /\ Step(r, "lock", "limit")
    /\ holder' = r /\ lockAge' = 0
    /\ UNCHANGED <<session, attempt, age, twice, arrived>>

\* SET lock token EX 40 NX
Lock(r) ==
    /\ pc[r] = "lock"
    /\ IF holder = NoOne
       THEN /\ holder' = r /\ lockAge' = 0
            /\ pc' = [pc EXCEPT ![r] = "limit"] /\ UNCHANGED <<attempt, age, twice>>
       ELSE Forget(r) /\ UNCHANGED locks
    /\ UNCHANGED <<session, arrived>>

\* rateLimit.consume, then the first attempt begins; a refusal goes straight to the unlock.
Consume(r) ==
    /\ pc[r] = "limit"
    /\ \E within \in BOOLEAN :
          /\ pc' = [pc EXCEPT ![r] = IF within THEN "model" ELSE "unlock"]
          /\ attempt' = [attempt EXCEPT ![r] = IF within THEN 1 ELSE 0]
    /\ age' = [age EXCEPT ![r] = 0]
    /\ UNCHANGED <<session, locks, twice, arrived>>

TryTwice(r) == attempt[r] < 2

\* The model answers: usable drafts, an error worth a second attempt, or one that is not.
Answer(r) ==
    /\ pc[r] = "model"
    /\ \/ pc' = [pc EXCEPT ![r] = "store"] /\ UNCHANGED <<attempt, age, twice>>
       \/ /\ TryTwice(r)
          /\ attempt' = [attempt EXCEPT ![r] = @ + 1] /\ age' = [age EXCEPT ![r] = 0]
          /\ twice' = twice \cup {r}
          /\ UNCHANGED pc
       \/ pc' = [pc EXCEPT ![r] = "unlock"] /\ UNCHANGED <<attempt, age, twice>>
    /\ UNCHANGED <<session, locks, arrived>>

\* The abort of an attempt that took too long ends the call: no second attempt.
TimeOut(r) ==
    /\ Step(r, "model", "unlock")
    /\ age[r] = ModelTicks
    /\ UNCHANGED <<session, locks, attempt, age, twice, arrived>>

\* SET session EX 300: also brings back a session that has expired meanwhile.
Store(r) ==
    /\ Step(r, "store", "unlock")
    /\ generations' = generations + 1 /\ drafts' = generations + 1 /\ alive' = TRUE
    /\ UNCHANGED <<locks, attempt, age, twice, arrived>>

\* finally: the lock goes only if it still has this call's token.
Unlock(r) ==
    /\ pc[r] = "unlock"
    /\ holder' = IF holder = r THEN NoOne ELSE holder
    /\ UNCHANGED lockAge
    /\ Forget(r)
    /\ UNCHANGED <<session, arrived>>

\* The process dies: the lock stays until it expires.
Die(r) ==
    /\ pc[r] # "idle"
    /\ Forget(r)
    /\ UNCHANGED <<session, locks, arrived>>

\* Five seconds pass.  A call between its awaits takes no time to speak of, and an attempt that has
\* reached its time-out is aborted first; the lock goes when its time is up.
Tick ==
    /\ \A r \in Requests : /\ pc[r] \in {"idle", "lock", "model"}
                           /\ pc[r] = "model" => age[r] < ModelTicks
    /\ age' = [r \in Requests |-> IF pc[r] = "model" THEN age[r] + 1 ELSE 0]
    /\ IF holder # NoOne /\ lockAge + 1 = LockTicks
       THEN holder' = NoOne /\ lockAge' = 0
       ELSE holder' = holder /\ lockAge' = IF holder = NoOne THEN 0 ELSE lockAge + 1
    /\ UNCHANGED <<session, pc, attempt, twice, arrived>>

SessionExpires ==
    /\ alive
    /\ alive' = FALSE /\ drafts' = 0
    /\ UNCHANGED <<generations, locks, local, arrived>>

Next ==
    \/ \E r \in Requests : Read(r) \/ Lock(r) \/ Consume(r) \/ Answer(r) \/ TimeOut(r) \/ Store(r)
                           \/ Unlock(r) \/ Die(r)
    \/ Tick \/ SessionExpires

Spec == Init /\ [][Next]_vars

----------------------------------------------------------------------------
Generating == {r \in Requests : pc[r] \in {"limit", "model", "store"}}

\* Two calls generate drafts for the same session at once only if all but the last of them needed
\* a second attempt: one attempt fits into the lock's time, two do not.
OneGeneratorWithoutRetries == Cardinality(Generating \ twice) <= 1
=============================================================================
