------------------------- MODULE StanceSignalsProofs -------------------------
(***************************************************************************)
(* What run "signals" checks, for every value of the constants, in four    *)
(* parts, each with an inductive invariant of its own: the toggles on a    *)
(* stance, the sessions of the web client and the policy behind what its   *)
(* pages offer, the tree of stances, and the discussion below one.         *)
(***************************************************************************)
EXTENDS MCStanceSignals, Sequences, FiniteSetTheorems, TLAPS

USE SignalsAssumption

(***************************************************************************)
(* The toggles.  The counts of a stance are right and nobody holds two     *)
(* opinions, for any users, any number of overlapping toggles and any      *)
(* number of tries.  The argument: a request that may commit holds the     *)
(* stance row, and whoever holds it has seen the latest one, hence the     *)
(* latest signals too, because every commit that changes a signal changes  *)
(* the stance row.                                                         *)
(***************************************************************************)

\* A request that has written the stance holds it and has read the latest one.
OnlyHolderCommits == \A r \in Requests : pc[r] = "commit" => holder = r /\ r \in fresh

\* Whoever has read the latest stance has read the latest signals.
FreshSeesSignals == \A r \in fresh : InTransaction(r) => snap[r] = signals

Inv == TypeOK /\ OneOpinion /\ CountsAreSignals /\ OnlyHolderCommits /\ FreshSeesSignals

LEMMA CountType == ASSUME NEW sigs \in [Users -> SUBSET Signals] PROVE Count(sigs) \in [Signals -> Nat]
<1>1. ASSUME NEW s \in Signals PROVE Cardinality({u \in Users : s \in sigs[u]}) \in Nat
  <2>1. IsFiniteSet({u \in Users : s \in sigs[u]})
    BY FS_Subset
  <2> QED BY <2>1, FS_CardinalityType
<1> QED BY <1>1 DEF Count

LEMMA NobodyType == Nobody \in [Users -> SUBSET Signals] /\ NoJob \in [user : Users, signal : Signals]
BY DEF Nobody, NoJob, Signals

LEMMA InitInv == Init => Inv
<1> SUFFICES ASSUME Init PROVE Inv
  OBVIOUS
<1>1. TypeOK
  BY CountType, NobodyType DEF Init, TypeOK
<1>2. OneOpinion
  BY DEF Init, OneOpinion, Nobody, Signals
<1> QED BY <1>1, <1>2 DEF Init, Inv, CountsAreSignals, OnlyHolderCommits, FreshSeesSignals

\* What a commit writes is the toggle of the signals there are.
LEMMA CommitWrites ==
    ASSUME Inv, NEW r \in Requests, Commit(r)
    PROVE  /\ signals' = [signals EXCEPT ![job[r].user] = Toggled(@, job[r].signal)]
           /\ counts' = Count(signals')
<1>1. r \in fresh /\ snap[r] = signals
  BY DEF Inv, OnlyHolderCommits, FreshSeesSignals, InTransaction, Commit
<1>2. signals \in [Users -> SUBSET Signals] /\ job[r].user \in Users
  BY DEF Inv, TypeOK
<1>3. (signals[job[r].user] \ Touched(r)) \cup (Toggled(Own(r), job[r].signal) \cap Touched(r))
        = Toggled(signals[job[r].user], job[r].signal)
  BY <1>1 DEF Own, Touched, Deletes, Toggled
<1>4. signals' = [signals EXCEPT ![job[r].user] = Toggled(signals[job[r].user], job[r].signal)]
  BY <1>3 DEF Commit
<1>5. counts' = Count([signals EXCEPT ![job[r].user] = Toggled(signals[job[r].user], job[r].signal)])
  BY <1>1 DEF Commit
<1> QED BY <1>4, <1>5

LEMMA CommitInv == ASSUME Inv, NEW r \in Requests, Commit(r) PROVE Inv'
<1>1. job[r].user \in Users /\ job[r].signal \in Signals /\ signals \in [Users -> SUBSET Signals]
  BY DEF Inv, TypeOK
<1>2. \A u \in Users : Toggled(signals[u], job[r].signal) \in SUBSET Signals
  BY <1>1 DEF Toggled, Signals
<1>3. signals' \in [Users -> SUBSET Signals]
  BY <1>1, <1>2, CommitWrites
<1>4. ASSUME NEW u \in Users PROVE ~ Signals \subseteq signals'[u]
  <2>1. ~ Signals \subseteq signals[u]
    BY DEF Inv, OneOpinion
  <2>2. ~ Signals \subseteq Toggled(signals[u], job[r].signal)
    BY <2>1 DEF Toggled, Signals
  <2>3. signals'[u] = IF u = job[r].user THEN Toggled(signals[u], job[r].signal) ELSE signals[u]
    BY <1>1, CommitWrites
  <2> QED BY <2>1, <2>2, <2>3
<1>5. CountsAreSignals'
  BY CommitWrites DEF CountsAreSignals
<1>6. TypeOK'
  <2>1. counts' \in [Signals -> Nat]
    BY <1>3, <1>5, CountType DEF CountsAreSignals
  <2>2. /\ pc' \in [Requests -> {"idle", "find", "write", "update", "commit"}]
        /\ job' \in [Requests -> [user : Users, signal : Signals]]
    BY NobodyType DEF Inv, TypeOK, Commit, Finish
  <2>3. attempt' \in [Requests -> 0..(MaxAttempts - 1)]
    <3>1. 0 \in 0..(MaxAttempts - 1)
      OBVIOUS
    <3> QED BY <3>1 DEF Inv, TypeOK, Commit, Finish
  <2>4. snap' \in [Requests -> [Users -> SUBSET Signals]]
    BY NobodyType DEF Inv, TypeOK, Commit, Finish
  <2> QED BY <1>3, <2>1, <2>2, <2>3, <2>4 DEF Inv, TypeOK, Commit
<1>7. OnlyHolderCommits' /\ FreshSeesSignals'
  BY DEF Inv, TypeOK, OnlyHolderCommits, FreshSeesSignals, Commit, Finish
<1> QED BY <1>4, <1>5, <1>6, <1>7 DEF Inv, OneOpinion

\* The steps that leave the stance and its signals alone.
LEMMA StatementInv ==
    ASSUME Inv, NEW r \in Requests,
           \/ Find(r) \/ WriteSignal(r) \/ UpdateStance(r) \/ Retry(r) \/ GiveUp(r) \/ Gone(r)
           \/ \E u \in Users, s \in Signals : Arrive(r, u, s)
    PROVE  Inv'
<1>1. UNCHANGED stance
  BY DEF Find, WriteSignal, UpdateStance, Retry, GiveUp, Gone, Arrive
<1>2. OneOpinion' /\ CountsAreSignals'
  BY <1>1 DEF Inv, OneOpinion, CountsAreSignals, Count, stance
<1>3. attempt' \in [Requests -> 0..(MaxAttempts - 1)]
  <2>1. CASE Retry(r)
    BY <2>1 DEF Retry, TriesLeft, NextAttempt, Inv, TypeOK
  <2>2. CASE ~Retry(r)
    BY <2>2 DEF Find, WriteSignal, UpdateStance, GiveUp, Gone, Arrive, Finish, Inv, TypeOK
  <2> QED BY <2>1, <2>2
<1>4. TypeOK'
  <2>1. status' = status /\ signals' = signals /\ counts' = counts
    BY <1>1 DEF stance
  <2>2. pc' \in [Requests -> {"idle", "find", "write", "update", "commit"}]
    BY DEF Find, WriteSignal, UpdateStance, Retry, GiveUp, Gone, Arrive, Finish, Inv, TypeOK
  <2>3. job' \in [Requests -> [user : Users, signal : Signals]]
    BY NobodyType DEF Find, WriteSignal, UpdateStance, Retry, GiveUp, Gone, Arrive, Finish, Inv, TypeOK
  <2>4. snap' \in [Requests -> [Users -> SUBSET Signals]]
    BY NobodyType DEF Find, WriteSignal, UpdateStance, Retry, GiveUp, Gone, Arrive, Finish, Inv, TypeOK
  <2>5. holder' \in Requests \cup {NoReq, Remover} /\ fresh' \in SUBSET Requests
    BY DEF Find, WriteSignal, UpdateStance, Retry, GiveUp, Gone, Arrive, Released, Inv, TypeOK
  <2> QED BY <2>1, <2>2, <2>3, <2>4, <2>5, <1>3 DEF Inv, TypeOK
<1>5. OnlyHolderCommits'
  BY DEF Find, WriteSignal, UpdateStance, Retry, GiveUp, Gone, Arrive, Finish, Released, StanceValid,
         Inv, TypeOK, OnlyHolderCommits
<1>6. FreshSeesSignals'
  BY <1>1 DEF stance, Find, WriteSignal, UpdateStance, Retry, GiveUp, Gone, Arrive, Finish, InTransaction,
         Inv, TypeOK, FreshSeesSignals
<1> QED BY <1>2, <1>4, <1>5, <1>6 DEF Inv

LEMMA StanceInv ==
    ASSUME Inv, Takedown \/ Restore \/ LockToRemove \/ Remove \/ RemoveFails
    PROVE  Inv'
<1>1. CASE Takedown \/ Restore
  <2>1. \E s \in {"ACTIVE", "TAKEN_DOWN"} : Moderate(s)
    BY <1>1 DEF Takedown, Restore
  <2>2. holder = NoReq /\ status' \in {"ACTIVE", "TAKEN_DOWN"} /\ fresh' = {}
        /\ UNCHANGED <<signals, counts, holder, pc, job, attempt, snap>>
    BY <2>1 DEF Moderate
  <2> QED BY <2>2 DEF Inv, TypeOK, OneOpinion, CountsAreSignals, Count, OnlyHolderCommits, FreshSeesSignals
<1>2. CASE LockToRemove \/ RemoveFails
  <2>1. holder \in {NoReq, Remover} /\ holder' \in {NoReq, Remover}
        /\ UNCHANGED <<status, signals, counts, pc, job, attempt, snap, fresh>>
    BY <1>2 DEF LockToRemove, RemoveFails, stance
  <2> QED BY <2>1 DEF Inv, TypeOK, OneOpinion, CountsAreSignals, Count, OnlyHolderCommits, FreshSeesSignals, InTransaction
<1>3. CASE Remove
  <2>1. TypeOK'
    BY <1>3, CountType, NobodyType DEF Remove, Inv, TypeOK
  <2>2. OneOpinion' /\ CountsAreSignals'
    BY <1>3 DEF Remove, OneOpinion, CountsAreSignals, Count, Nobody, Signals
  <2>3. OnlyHolderCommits' /\ FreshSeesSignals'
    BY <1>3 DEF Remove, Inv, OnlyHolderCommits, FreshSeesSignals
  <2> QED BY <2>1, <2>2, <2>3 DEF Inv
<1> QED BY <1>1, <1>2, <1>3

LEMMA StepInv == Inv /\ [Next]_vars => Inv'
<1> SUFFICES ASSUME Inv, [Next]_vars PROVE Inv'
  OBVIOUS
<1>1. CASE UNCHANGED vars
  BY <1>1 DEF vars, stance, Inv, TypeOK, OneOpinion, CountsAreSignals, Count, OnlyHolderCommits, FreshSeesSignals, InTransaction
<1>2. ASSUME NEW r \in Requests, Toggle(r) PROVE Inv'
  BY <1>2, CommitInv, StatementInv DEF Toggle
<1>3. ASSUME NEW r \in Requests, NEW u \in Users, NEW s \in Signals, Arrive(r, u, s) PROVE Inv'
  BY <1>3, StatementInv
<1> QED BY <1>1, <1>2, <1>3, StanceInv DEF Next

\* Every variable keeps its type; the number of tries stays below its limit.
THEOREM TypeCorrect == Spec => []TypeOK
<1>1. Inv => TypeOK
  BY DEF Inv
<1> QED BY <1>1, InitInv, StepInv, PTL DEF Spec

\* Nobody agrees and disagrees with a stance at once.
THEOREM NobodyHoldsBoth == Spec => []OneOpinion
<1>1. Inv => OneOpinion
  BY DEF Inv
<1> QED BY <1>1, InitInv, StepInv, PTL DEF Spec

\* agreement_count and disagreement_count are the numbers of the signals.
THEOREM CountsStayRight == Spec => []CountsAreSignals
<1>1. Inv => CountsAreSignals
  BY DEF Inv
<1> QED BY <1>1, InitInv, StepInv, PTL DEF Spec

\* A commit toggles the signal its user has at that moment: toggles are atomic.
THEOREM TogglesAreAtomic == Spec => CommitToggles
<1> DEFINE A == \A r \in Requests : Commit(r) => signals' = [signals EXCEPT ![job[r].user] = Toggled(@, job[r].signal)]
<1>1. Inv /\ [Next]_vars => [A]_vars
  BY CommitWrites
<1>2. Spec => [][A]_vars
  BY <1>1, InitInv, StepInv, PTL DEF Spec
<1> QED BY <1>2 DEF CommitToggles

-----------------------------------------------------------------------------
(* What the pages offer (policy.service.ts, stores/auth.ts).               *)

\* The mode follows from three facts about an account.
LEMMA Modes ==
    ASSUME NEW who
    PROVE  /\ Browser!ParticipationMode(who) \in {"ADMIN", "STAFF", "PARTNER", "MEMBER"}
           /\ Browser!ParticipationMode(who) = "ADMIN" <=> who.admin
           /\ Browser!ParticipationMode(who) = "STAFF" <=> ~who.admin /\ who.team # {}
           /\ Browser!ParticipationMode(who) = "PARTNER" <=>
                  ~who.admin /\ who.team = {} /\ who.organizations \cap Partners # {}
<1>1. CASE who.admin
  <2>1. Browser!ParticipationMode(who) = "ADMIN"
    BY <1>1, Zenon DEF Browser!ParticipationMode
  <2> QED BY <1>1, <2>1
<1>2. CASE ~who.admin /\ who.team # {}
  <2>1. Browser!ParticipationMode(who) = "STAFF"
    BY <1>2, Zenon DEF Browser!ParticipationMode
  <2> QED BY <1>2, <2>1
<1>3. CASE ~who.admin /\ who.team = {} /\ who.organizations \cap Partners # {}
  <2>1. Browser!ParticipationMode(who) = "PARTNER"
    BY <1>3, Zenon DEF Browser!ParticipationMode
  <2> QED BY <1>3, <2>1
<1>4. CASE ~who.admin /\ who.team = {} /\ who.organizations \cap Partners = {}
  <2>1. Browser!ParticipationMode(who) = "MEMBER"
    BY <1>4, Zenon DEF Browser!ParticipationMode
  <2> QED BY <1>4, <2>1
<1> QED BY <1>1, <1>2, <1>3, <1>4

AsWhom == Browser!Profiles \cup {"none"}

\* How an account is judged under each identity.
LEMMA Contexts ==
    ASSUME NEW a \in Rows, NEW p \in AsWhom
    PROVE  /\ Browser!LoadContext(a, p) \in Rows
           /\ Browser!LoadContext(a, p).organizations \subseteq a.organizations
<1>1. [a EXCEPT !.admin = FALSE, !.senior = FALSE, !.team = {}, !.organizations = {}] \in Rows
  BY DEF Rows
<1>2. CASE p = "new-member"
  <2>1. Browser!LoadContext(a, p) = [a EXCEPT !.admin = FALSE, !.senior = FALSE, !.team = {}, !.organizations = {}]
    BY <1>2, Zenon DEF Browser!LoadContext
  <2> QED BY <1>1, <2>1 DEF Rows
<1>3. CASE p = "senior-member"
  <2>1. Browser!LoadContext(a, p) =
            [[a EXCEPT !.admin = FALSE, !.senior = FALSE, !.team = {}, !.organizations = {}] EXCEPT !.senior = TRUE]
    BY <1>3, Zenon DEF Browser!LoadContext
  <2> QED BY <1>1, <2>1 DEF Rows
<1>4. CASE p = "partner-owner"
  <2>1. Browser!LoadContext(a, p) =
            [[a EXCEPT !.admin = FALSE, !.senior = FALSE, !.team = {}, !.organizations = {}]
                EXCEPT !.organizations = a.organizations \cap Partners]
    BY <1>4, Zenon DEF Browser!LoadContext
  <2> QED BY <1>1, <2>1 DEF Rows
<1>5. CASE p = "topic-team"
  <2>1. Browser!LoadContext(a, p) =
            [[a EXCEPT !.admin = FALSE, !.senior = FALSE, !.team = {}, !.organizations = {}]
                EXCEPT !.senior = TRUE, !.team = {Browser!Global}]
    BY <1>5, Zenon DEF Browser!LoadContext
  <2>2. {Browser!Global} \in SUBSET Browser!Scopes
    BY DEF Browser!Scopes
  <2> HIDE DEF Browser!Global
  <2> QED BY <1>1, <2>1, <2>2 DEF Rows
<1>6. CASE p = "none"
  <2>1. Browser!LoadContext(a, p) =
            [a EXCEPT !.team = {s \in @ : s.scope = "ORGANIZATION" => s.id \in a.organizations}]
    BY <1>6, Zenon DEF Browser!LoadContext
  <2> QED BY <2>1 DEF Rows
<1> QED BY <1>2, <1>3, <1>4, <1>5, <1>6 DEF AsWhom, Browser!Profiles

\* What an account may do comes down to its mode, its assignments and whether it is senior.
LEMMA GrantsAndOffers ==
    ASSUME NEW a \in Rows, NEW p \in AsWhom, NEW who \in Rows, who = Browser!LoadContext(a, p),
           NEW mode, mode = Browser!ParticipationMode(who), NEW senior, senior = Browser!IsSenior(a, p),
           NEW summary, summary = Browser!Capabilities(a, p)
    PROVE  /\ summary.senior = senior
           /\ summary.capabilities = IF who.admin THEN Browser!Capability
                                     ELSE IF who.team # {} THEN Browser!TopicTeam ELSE {}
           /\ \A thing \in {"vote", "signal", "discuss"} : thing \in summary.participation <=> mode \in {"ADMIN", "MEMBER"}
           /\ \A thing \in {"report", "stance"} :
                  thing \in summary.participation <=> mode = "ADMIN" \/ (mode = "MEMBER" /\ senior)
           /\ "proposal" \in summary.participation <=> mode \in {"ADMIN", "PARTNER"} \/ (mode = "MEMBER" /\ senior)
           /\ summary.analytics <=> mode \in {"ADMIN", "STAFF", "PARTNER"}
           /\ summary \in [senior : BOOLEAN, capabilities : SUBSET Browser!Capability,
                           participation : SUBSET Browser!Things, analytics : BOOLEAN]
<1>1. summary.senior = senior /\ summary.participation = Browser!ParticipationFor(who, senior)
  BY DEF Browser!Capabilities
<1>2. summary.capabilities = IF who.admin THEN Browser!Capability ELSE IF who.team # {} THEN Browser!TopicTeam ELSE {}
  BY DEF Browser!Capabilities
<1>3. summary.analytics = (mode \in {"ADMIN", "STAFF", "PARTNER"})
  BY DEF Browser!Capabilities
<1>4. Browser!ParticipationFor(who, senior) =
          {t \in {"vote", "signal", "discuss"} : mode \in {"ADMIN", "MEMBER"}} \cup
          {t \in {"report", "stance"} : mode = "ADMIN" \/ (mode = "MEMBER" /\ senior)} \cup
          {t \in {"proposal"} : mode \in {"ADMIN", "PARTNER"} \/ (mode = "MEMBER" /\ senior)}
  BY DEF Browser!ParticipationFor
<1>5. \A thing \in {"vote", "signal", "discuss"} : thing \in summary.participation <=> mode \in {"ADMIN", "MEMBER"}
  BY <1>1, <1>4
<1>6. \A thing \in {"report", "stance"} :
          thing \in summary.participation <=> mode = "ADMIN" \/ (mode = "MEMBER" /\ senior)
  BY <1>1, <1>4
<1>7. "proposal" \in summary.participation <=> mode \in {"ADMIN", "PARTNER"} \/ (mode = "MEMBER" /\ senior)
  BY <1>1, <1>4
<1>8. summary \in [senior : BOOLEAN, capabilities : SUBSET Browser!Capability,
                   participation : SUBSET Browser!Things, analytics : BOOLEAN]
  <2>1. summary.senior \in BOOLEAN
    <3>1. a.senior \in BOOLEAN
      BY DEF Rows
    <3>2. CASE p = "none"
      <4>1. senior = (a.senior \/ Browser!Eligible(a))
        BY <3>2 DEF Browser!IsSenior
      <4> QED BY <1>1, <4>1
    <3>3. CASE p # "none"
      <4>1. senior = (p \in {"senior-member", "topic-team"})
        BY <3>3 DEF Browser!IsSenior
      <4> QED BY <1>1, <4>1
    <3> QED BY <3>2, <3>3
  <2>2. summary.capabilities \in SUBSET Browser!Capability
    BY <1>2 DEF Browser!Capability
  <2>3. summary.participation \in SUBSET Browser!Things
    BY <1>1, <1>4 DEF Browser!Things
  <2>4. summary.analytics \in BOOLEAN
    BY <1>3
  <2>5. summary = [senior |-> summary.senior, capabilities |-> summary.capabilities,
                   participation |-> summary.participation, analytics |-> summary.analytics]
    BY DEF Browser!Capabilities
  <2> QED BY <2>1, <2>2, <2>3, <2>4, <2>5
<1> QED BY <1>1, <1>2, <1>3, <1>5, <1>6, <1>7, <1>8

\* The client offers what the API grants, all of it and no more, but for what is overstated.
LEMMA OffersAgree ==
    ASSUME NEW a \in Rows, NEW p \in AsWhom
    PROVE  Browser!OffersWhatIsGranted(a, p, Browser!Capabilities(a, p))
<1>1. PICK who \in Rows : who = Browser!LoadContext(a, p) /\ who.organizations \subseteq a.organizations
  BY Contexts
<1>2. PICK mode : mode = Browser!ParticipationMode(who)
  OBVIOUS
<1>3. PICK senior : senior = Browser!IsSenior(a, p)
  OBVIOUS
<1>4. PICK summary : summary = Browser!Capabilities(a, p)
  OBVIOUS
<1>5. /\ mode \in {"ADMIN", "STAFF", "PARTNER", "MEMBER"}
      /\ mode = "ADMIN" <=> who.admin
      /\ mode = "STAFF" <=> ~who.admin /\ who.team # {}
      /\ mode = "PARTNER" <=> ~who.admin /\ who.team = {} /\ who.organizations \cap Partners # {}
  BY <1>2, Modes
<1>6. /\ summary.senior = senior
      /\ summary.capabilities = IF who.admin THEN Browser!Capability
                                ELSE IF who.team # {} THEN Browser!TopicTeam ELSE {}
      /\ \A thing \in {"vote", "signal", "discuss"} : thing \in summary.participation <=> mode \in {"ADMIN", "MEMBER"}
      /\ \A thing \in {"report", "stance"} :
             thing \in summary.participation <=> mode = "ADMIN" \/ (mode = "MEMBER" /\ senior)
      /\ "proposal" \in summary.participation <=> mode \in {"ADMIN", "PARTNER"} \/ (mode = "MEMBER" /\ senior)
      /\ summary.analytics <=> mode \in {"ADMIN", "STAFF", "PARTNER"}
  BY <1>1, <1>2, <1>3, <1>4, GrantsAndOffers
<1>7. /\ \A c \in Browser!TopicTeam : c \in summary.capabilities <=> who.admin \/ who.team # {}
      /\ "ADMIN" \in summary.capabilities <=> who.admin
  BY <1>6 DEF Browser!TopicTeam, Browser!Capability
<1>8. \A s \in who.team : \/ s = Browser!Global
                          \/ \E org \in Organizations : s = Browser!OfOrganization(org)
                          \/ \E t \in Topics : s = Browser!OfTopic(t)
  BY DEF Rows, Browser!Scopes
<1> DEFINE Agree(thing) ==
        /\ Browser!Granted(a, p, thing) => Browser!Offered(summary, thing)
        /\ Browser!Offered(summary, thing) => Browser!Granted(a, p, thing) \/ Browser!Overstated(a, p, thing)
<1>9. ASSUME NEW c \in Browser!TopicTeam
      PROVE  Browser!Can(a, p, c, Browser!Nowhere) <=> who.admin \/ Browser!Global \in who.team
  <2>1. \A s \in who.team : s # Browser!Nowhere
    BY <1>8 DEF Browser!Global, Browser!OfOrganization, Browser!OfTopic, Browser!Nowhere
  <2> QED BY <1>1, <2>1 DEF Browser!Can, Browser!ScopeMatches
<1>10. Agree("vote") /\ Agree("signal") /\ Agree("discuss") /\ Agree("report")
  <2>1. ASSUME NEW thing \in {"vote", "signal", "discuss", "report"} PROVE Agree(thing)
    <3>1. Browser!Granted(a, p, thing) <=> mode = "ADMIN" \/ (mode = "MEMBER" /\ (thing = "report" => senior))
      <4>1. Browser!Granted(a, p, thing) <=> Browser!AssertPublicAction(a, p, thing)
        BY Zenon DEF Browser!Granted
      <4> QED BY <1>1, <1>2, <1>3, <4>1 DEF Browser!AssertPublicAction
    <3>2. Browser!Offered(summary, thing) <=> thing \in summary.participation
      BY Zenon DEF Browser!Offered
    <3> QED BY <1>6, <3>1, <3>2
  <2> QED BY <2>1
<1>11. Agree("stance")
  <2>1. Browser!Granted(a, p, "stance") <=> mode = "ADMIN" \/ (mode = "MEMBER" /\ senior)
    <3>1. Browser!Granted(a, p, "stance") <=> Browser!AssertCanSubmitStanceApplication(a, p)
      BY Zenon DEF Browser!Granted
    <3> QED BY <1>1, <1>2, <1>3, <3>1 DEF Browser!AssertCanSubmitStanceApplication
  <2>2. Browser!Offered(summary, "stance") <=> "stance" \in summary.participation
    BY Zenon DEF Browser!Offered
  <2> QED BY <1>6, <2>1, <2>2
<1>12. Agree("quick")
  <2>1. Browser!Granted(a, p, "quick") <=> mode = "ADMIN" \/ (mode = "MEMBER" /\ senior)
    <3>1. Browser!Granted(a, p, "quick") <=> Browser!AssertSeniorMember(a, p)
      BY Zenon DEF Browser!Granted
    <3> QED BY <1>1, <1>2, <1>3, <3>1 DEF Browser!AssertSeniorMember
  <2>2. Browser!Offered(summary, "quick") <=> "FORMAL_TOPIC_AUTHOR" \in summary.capabilities \/ summary.senior
    BY Zenon DEF Browser!Offered
  <2>3. mode \in {"STAFF", "PARTNER"} => Browser!Overstated(a, p, "quick")
    BY <1>1, <1>2 DEF Browser!Overstated
  <2> QED BY <1>5, <1>6, <1>7, <2>1, <2>2, <2>3 DEF Browser!TopicTeam
<1>13. Agree("proposal")
  <2>1. Browser!Granted(a, p, "proposal") <=>
            \/ mode = "ADMIN" \/ (mode = "MEMBER" /\ senior)
            \/ who.admin \/ Browser!Global \in who.team
            \/ \E org \in Organizations : mode \in {"PARTNER", "ADMIN"} /\ org \in a.organizations \cap Partners
    <3>1. Browser!Granted(a, p, "proposal") <=>
              \/ Browser!AssertSeniorMember(a, p) \/ Browser!Can(a, p, "FORMAL_TOPIC_AUTHOR", Browser!Nowhere)
              \/ \E org \in Organizations : Browser!AssertPartnerMember(a, p, org)
      BY Zenon DEF Browser!Granted
    <3>2. Browser!AssertSeniorMember(a, p) <=> mode = "ADMIN" \/ (mode = "MEMBER" /\ senior)
      BY <1>1, <1>2, <1>3 DEF Browser!AssertSeniorMember
    <3>3. Browser!Can(a, p, "FORMAL_TOPIC_AUTHOR", Browser!Nowhere) <=> who.admin \/ Browser!Global \in who.team
      BY <1>9 DEF Browser!TopicTeam
    <3>4. \A org \in Organizations : Browser!AssertPartnerMember(a, p, org) <=>
              mode \in {"PARTNER", "ADMIN"} /\ org \in a.organizations \cap Partners
      BY <1>1, <1>2 DEF Browser!AssertPartnerMember
    <3> QED BY <3>1, <3>2, <3>3, <3>4, Zenon
  <2>2. Browser!Offered(summary, "proposal") <=>
            "FORMAL_TOPIC_AUTHOR" \in summary.capabilities \/ "proposal" \in summary.participation
    BY Zenon DEF Browser!Offered
  <2>3. who.team # {} /\ Browser!Global \notin who.team => Browser!Overstated(a, p, "proposal")
    BY <1>1 DEF Browser!Overstated
  <2>4. "FORMAL_TOPIC_AUTHOR" \in summary.capabilities <=> who.admin \/ who.team # {}
    BY <1>7 DEF Browser!TopicTeam
  <2>5. mode = "PARTNER" => \E org \in Organizations : org \in a.organizations \cap Partners
    BY <1>1, <1>5, AccountAssumption
  <2> HIDE DEF Browser!Global
  <2>6. Browser!Granted(a, p, "proposal") => Browser!Offered(summary, "proposal")
    BY <1>5, <1>6, <2>1, <2>2, <2>4
  <2>7. Browser!Offered(summary, "proposal") =>
            Browser!Granted(a, p, "proposal") \/ Browser!Overstated(a, p, "proposal")
    BY <1>5, <1>6, <2>1, <2>2, <2>3, <2>4, <2>5
  <2> QED BY <2>6, <2>7
<1>14. ASSUME NEW thing \in {"formal", "feature", "categories"} PROVE Agree(thing)
  <2> DEFINE needed == IF thing = "formal" THEN "FORMAL_TOPIC_AUTHOR" ELSE IF thing = "feature" THEN "TOPIC_FEATURE"
                       ELSE "CATEGORY_MANAGE"
  <2>1. needed \in Browser!TopicTeam
    BY DEF Browser!TopicTeam
  <2>2. Browser!Granted(a, p, thing) <=> Browser!Can(a, p, needed, Browser!Nowhere)
    <3>1. CASE thing = "formal"
      BY <3>1, Zenon DEF Browser!Granted
    <3>2. CASE thing = "feature"
      <4>1. needed = "TOPIC_FEATURE"
        BY <3>2
      <4> QED BY <3>2, <4>1, Zenon DEF Browser!Granted
    <3>3. CASE thing = "categories"
      <4>1. Browser!Granted(a, p, thing) <=> Browser!Guarded(a, p, "CATEGORY_MANAGE", 0)
        BY <3>3, Zenon DEF Browser!Granted
      <4>2. needed = "CATEGORY_MANAGE"
        BY <3>3
      <4> QED BY <4>1, <4>2 DEF Browser!Guarded
    <3> QED BY <3>1, <3>2, <3>3
  <2>3. Browser!Offered(summary, thing) <=> needed \in summary.capabilities
    <3>1. CASE thing = "formal"
      BY <3>1, Zenon DEF Browser!Offered
    <3>2. CASE thing = "feature"
      <4>1. needed = "TOPIC_FEATURE"
        BY <3>2
      <4> QED BY <3>2, <4>1, Zenon DEF Browser!Offered
    <3>3. CASE thing = "categories"
      <4>1. needed = "CATEGORY_MANAGE"
        BY <3>3
      <4> QED BY <3>3, <4>1, Zenon DEF Browser!Offered
    <3> QED BY <3>1, <3>2, <3>3
  <2>4. who.team # {} /\ Browser!Global \notin who.team => Browser!Overstated(a, p, thing)
    BY <1>1 DEF Browser!Overstated
  <2> HIDE DEF needed
  <2> QED BY <1>7, <1>9, <2>1, <2>2, <2>3, <2>4
<1>15. Agree("topic proposals")
  <2>1. Browser!Granted(a, p, "topic proposals") <=> Browser!ApplicationOrganizationScope(a, p) # {}
    BY Zenon DEF Browser!Granted
  <2>2. Browser!Offered(summary, "topic proposals") <=> "TOPIC_APPLICATION_READ" \in summary.capabilities
    BY Zenon DEF Browser!Offered
  <2>3. Browser!ApplicationOrganizationScope(a, p) # {} <=>
            who.admin \/ Browser!Global \in who.team \/ \E org \in Organizations : Browser!OfOrganization(org) \in who.team
    BY <1>1, AccountAssumption DEF Browser!ApplicationOrganizationScope
  <2>4. "TOPIC_APPLICATION_READ" \in summary.capabilities <=> who.admin \/ who.team # {}
    BY <1>7 DEF Browser!TopicTeam
  <2>5. who.team # {} /\ (\A s \in who.team : s.scope = "TOPIC") => Browser!Overstated(a, p, "topic proposals")
    BY <1>1 DEF Browser!Overstated
  <2>6. \A t : Browser!OfTopic(t).scope = "TOPIC"
    BY DEF Browser!OfTopic
  <2> QED BY <1>8, <2>1, <2>2, <2>3, <2>4, <2>5, <2>6
<1>16. Agree("stance proposals")
  <2>1. Browser!Granted(a, p, "stance proposals") <=> Browser!EditorialScopes(a, p) # {}
    BY Zenon DEF Browser!Granted
  <2>2. Browser!Offered(summary, "stance proposals") <=> "TOPIC_APPLICATION_READ" \in summary.capabilities
    BY Zenon DEF Browser!Offered
  <2>3. Browser!EditorialScopes(a, p) # {} <=>
            who.admin \/ Browser!Global \in who.team \/ \E t \in Topics : Browser!OfTopic(t) \in who.team
    BY <1>1, AccountAssumption DEF Browser!EditorialScopes
  <2>4. "TOPIC_APPLICATION_READ" \in summary.capabilities <=> who.admin \/ who.team # {}
    BY <1>7 DEF Browser!TopicTeam
  <2>5. who.team # {} /\ (\A s \in who.team : s.scope = "ORGANIZATION") => Browser!Overstated(a, p, "stance proposals")
    BY <1>1 DEF Browser!Overstated
  <2>6. \A org : Browser!OfOrganization(org).scope = "ORGANIZATION"
    BY DEF Browser!OfOrganization
  <2> QED BY <1>8, <2>1, <2>2, <2>3, <2>4, <2>5, <2>6
<1>17. Agree("moderation")
  <2>1. Browser!Granted(a, p, "moderation") <=> Browser!Guarded(a, p, "ADMIN", 0)
    BY Zenon DEF Browser!Granted
  <2>2. Browser!Offered(summary, "moderation") <=> "ADMIN" \in summary.capabilities
    BY Zenon DEF Browser!Offered
  <2>3. Browser!Guarded(a, p, "ADMIN", 0) <=> who.admin
    BY <1>1 DEF Browser!Guarded, Browser!Can, Browser!TopicTeam
  <2> QED BY <1>7, <2>1, <2>2, <2>3
<1>18. Agree("analytics")
  <2>1. Browser!Granted(a, p, "analytics") <=>
            Browser!CanViewAnalytics(a, p) \/ \E t \in Topics : Browser!CanViewTopicAnalytics(a, p, t)
    BY Zenon DEF Browser!Granted
  <2>2. Browser!Offered(summary, "analytics") <=> summary.analytics
    BY Zenon DEF Browser!Offered
  <2>3. Browser!CanViewAnalytics(a, p) <=> mode # "MEMBER"
    BY <1>1, <1>2 DEF Browser!CanViewAnalytics
  <2>4. ASSUME NEW t \in Topics, Browser!CanViewTopicAnalytics(a, p, t) PROVE mode # "MEMBER"
    <3>1. who.admin \/ who.team # {} \/ who.organizations \cap Partners # {}
      BY <1>1, <2>4 DEF Browser!CanViewTopicAnalytics
    <3> QED BY <1>5, <3>1
  <2> QED BY <1>5, <1>6, <2>1, <2>2, <2>3, <2>4
<1>19. \A thing \in Browser!Things : Agree(thing)
  BY <1>10, <1>11, <1>12, <1>13, <1>14, <1>15, <1>16, <1>17, <1>18 DEF Browser!Things
<1> QED BY <1>4, <1>19 DEF Browser!OffersWhatIsGranted

\* To be found eligible changes nothing of what one may do.
LEMMA EvaluatedAlike ==
    ASSUME NEW a \in Rows, NEW p \in AsWhom
    PROVE  /\ Browser!Evaluated(a, p) \in Rows
           /\ Browser!Capabilities(Browser!Evaluated(a, p), p) = Browser!Capabilities(a, p)
<1>1. PICK b : b = Browser!Evaluated(a, p)
  OBVIOUS
<1>2. /\ b \in Rows /\ b.admin = a.admin /\ b.team = a.team /\ b.organizations = a.organizations
      /\ b.days = a.days /\ b.votes = a.votes /\ b.senior = (a.senior \/ (p = "none" /\ Browser!Eligible(a)))
  BY <1>1 DEF Rows, Browser!Evaluated
<1>3. Browser!IsSenior(b, p) = Browser!IsSenior(a, p)
  BY <1>2 DEF Browser!IsSenior, Browser!Eligible
<1>4. CASE p # "none"
  <2>1. b = a
    BY <1>1, <1>2, <1>4 DEF Rows, Browser!Evaluated
  <2> QED BY <1>1, <2>1
<1>5. CASE p = "none"
  <2>1. PICK x : x = Browser!LoadContext(a, p)
    OBVIOUS
  <2>2. PICK y : y = Browser!LoadContext(b, p)
    OBVIOUS
  <2>3. x = [a EXCEPT !.team = {s \in @ : s.scope = "ORGANIZATION" => s.id \in a.organizations}]
    BY <1>5, <2>1, Zenon DEF Browser!LoadContext
  <2>4. y = [b EXCEPT !.team = {s \in @ : s.scope = "ORGANIZATION" => s.id \in b.organizations}]
    BY <1>5, <2>2, Zenon DEF Browser!LoadContext
  <2>5. x.admin = y.admin /\ x.team = y.team /\ x.organizations = y.organizations
    BY <1>2, <2>3, <2>4 DEF Rows
  <2>6. Browser!ParticipationMode(x) = Browser!ParticipationMode(y)
    BY <2>5, Zenon DEF Browser!ParticipationMode
  <2>7. Browser!ParticipationFor(x, Browser!IsSenior(a, p)) = Browser!ParticipationFor(y, Browser!IsSenior(b, p))
    BY <1>3, <2>6, Zenon DEF Browser!ParticipationFor
  <2>8. Browser!Capabilities(a, p) =
            [senior        |-> Browser!IsSenior(a, p),
             capabilities  |-> IF x.admin THEN Browser!Capability ELSE IF x.team # {} THEN Browser!TopicTeam ELSE {},
             participation |-> Browser!ParticipationFor(x, Browser!IsSenior(a, p)),
             analytics     |-> Browser!ParticipationMode(x) \in {"ADMIN", "STAFF", "PARTNER"}]
    BY <2>1, Zenon DEF Browser!Capabilities
  <2>9. Browser!Capabilities(b, p) =
            [senior        |-> Browser!IsSenior(b, p),
             capabilities  |-> IF y.admin THEN Browser!Capability ELSE IF y.team # {} THEN Browser!TopicTeam ELSE {},
             participation |-> Browser!ParticipationFor(y, Browser!IsSenior(b, p)),
             analytics     |-> Browser!ParticipationMode(y) \in {"ADMIN", "STAFF", "PARTNER"}]
    BY <2>2, Zenon DEF Browser!Capabilities
  <2> QED BY <1>1, <1>2, <1>3, <2>5, <2>6, <2>7, <2>8, <2>9, Zenon
<1> QED BY <1>4, <1>5

(***************************************************************************)
(* The sessions of the web client.  What it takes its user for comes from  *)
(* the account its token stands for: the summary it shows is one the API   *)
(* gave to that token, or is known to be late; a test identity always      *)
(* comes with its summary; and whoever acts, asks or is remembered is      *)
(* registered.                                                             *)
(***************************************************************************)
Registered == {u \in Accounts : account[u] \in Rows}

\* What the browser may hold when these are registered.
TrueSummaries(registered) ==
    {s \in Summaries : s.of.user \in registered /\ s.says = Browser!Capabilities(s.at, s.of.profile)}
Clients(registered) ==
    {c \in [token : Tokens \cup {None}, summary : Summaries \cup {None}, assuming : BOOLEAN,
            kept : Accounts \cup {None}, session : Summaries \cup {None}] :
        /\ c.token # None => c.token.user \in registered
        /\ c.summary # None =>
               c.summary \in TrueSummaries(registered) /\ (c.summary.late \/ c.summary.of = c.token)
        /\ c.session # None => c.session \in TrueSummaries(registered)
        /\ c.kept # None => c.kept \in registered
        /\ IF c.assuming THEN c.token # None /\ c.summary # None ELSE c.token # None => c.token.profile = "none"}

\* What may be on its way.
Questions(registered) ==
    {r \in [kind : {"start", "login", "register", "other", "capabilities", "assume", "release"},
            token : Tokens \cup {None}, about : Accounts \cup Browser!Profiles \cup {None}] :
        /\ r.kind \in {"login", "register"} => r.about \in Accounts
        /\ r.kind \notin {"login", "register"} => r.token \in Tokens /\ r.token.user \in registered
        /\ r.kind = "assume" => r.about \in Browser!Profiles}

OnTheirWay(bag, registered) ==
    /\ DOMAIN bag \subseteq Questions(registered)
    /\ \A r \in DOMAIN bag : bag[r] \in Nat \ {0}

SessionsInv ==
    /\ account \in [Accounts -> Rows \cup {None}]
    /\ client \in Clients(Registered)
    /\ OnTheirWay(asked, Registered)

\* Whoever is registered remains so, and so do those who are remembered.
LEMMA MoreRegistered ==
    ASSUME NEW before, NEW after, before \subseteq after
    PROVE  /\ Clients(before) \subseteq Clients(after)
           /\ \A bag : OnTheirWay(bag, before) => OnTheirWay(bag, after)
<1>1. TrueSummaries(before) \subseteq TrueSummaries(after)
  BY DEF TrueSummaries
<1>2. Clients(before) \subseteq Clients(after)
  BY <1>1 DEF Clients
<1>3. Questions(before) \subseteq Questions(after)
  BY DEF Questions
<1> QED BY <1>2, <1>3 DEF OnTheirWay

LEMMA NobodyElse ==
    /\ None \notin Accounts /\ None \notin Rows /\ None \notin Tokens /\ None \notin Summaries
BY AccountAssumption

\* What the store may be set to.
LEMMA StoreKeepsSense ==
    ASSUME NEW registered \in SUBSET Accounts, NEW c \in Clients(registered)
    PROVE  /\ Browser!Blank \in Clients(registered)
           /\ \A u \in registered : Browser!SetSession(c, u) \in Clients(registered)
           /\ Browser!Restore(c) \in Clients(registered)
           /\ Browser!EndAssumption(c) \in Clients(registered)
           /\ \A s \in TrueSummaries(registered) :
                  /\ s.late \/ s.of = c.token => Browser!SetCapabilities(c, s) \in Clients(registered)
                  /\ Browser!BeginAssumption(c, s) \in Clients(registered)
<1> USE NobodyElse
<1>1. Browser!Blank \in Clients(registered)
  BY DEF Browser!Blank, Clients
<1>2. ASSUME NEW u \in registered PROVE Browser!SetSession(c, u) \in Clients(registered)
  <2>1. Browser!Token(u, "none") \in Tokens
    BY DEF Browser!Token, Tokens
  <2>2. Browser!Token(u, "none").user = u /\ Browser!Token(u, "none").profile = "none"
    BY DEF Browser!Token
  <2> QED BY <2>1, <2>2 DEF Browser!SetSession, Browser!Blank, Clients
<1>3. ASSUME NEW d \in Clients(registered) PROVE Browser!Restore(d) \in Clients(registered)
  <2>1. CASE d.session # None
    <3>1. Browser!Restore(d) = [d EXCEPT !.token = d.session.of, !.summary = d.session, !.assuming = TRUE]
      BY <2>1 DEF Browser!Restore
    <3>2. d.session \in TrueSummaries(registered) /\ d.session.of \in Tokens /\ d.session.of.user \in registered
      BY <2>1 DEF Clients, TrueSummaries, Summaries
    <3>3. PICK of, s : of = d.session.of /\ s = d.session
      OBVIOUS
    <3>4. Browser!Restore(d) = [d EXCEPT !.token = of, !.summary = s, !.assuming = TRUE]
      BY <3>1, <3>3
    <3>5. of # None /\ s # None /\ s.of = of /\ s \in Summaries /\ s \in TrueSummaries(registered) /\ of \in Tokens
      BY <2>1, <3>2, <3>3 DEF TrueSummaries
    <3> QED BY <3>2, <3>3, <3>4, <3>5 DEF Clients
  <2>2. CASE d.session = None
    <3>1. Browser!Restore(d) = [d EXCEPT !.token = IF d.kept = None THEN None ELSE Browser!Token(d.kept, "none"),
                                         !.summary = None, !.assuming = FALSE]
      BY <2>2 DEF Browser!Restore
    <3>2. d.kept # None => /\ Browser!Token(d.kept, "none") \in Tokens /\ d.kept \in registered
                           /\ Browser!Token(d.kept, "none").user = d.kept
                           /\ Browser!Token(d.kept, "none").profile = "none"
      BY DEF Clients, Browser!Token, Tokens
    <3> QED BY <2>2, <3>1, <3>2 DEF Clients
  <2> QED BY <2>1, <2>2
<1>4. Browser!EndAssumption(c) \in Clients(registered)
  <2>1. PICK d : d = [c EXCEPT !.session = None]
    OBVIOUS
  <2>2. d \in Clients(registered)
    BY <2>1 DEF Clients
  <2> QED BY <1>3, <2>1, <2>2 DEF Browser!EndAssumption
<1>5. ASSUME NEW s \in TrueSummaries(registered)
      PROVE  /\ s.late \/ s.of = c.token => Browser!SetCapabilities(c, s) \in Clients(registered)
             /\ Browser!BeginAssumption(c, s) \in Clients(registered)
  <2>1. s \in Summaries /\ s.of \in Tokens /\ s.of.user \in registered /\ s # None /\ s.of # None
    BY DEF TrueSummaries, Summaries
  <2>2. s.late \/ s.of = c.token => Browser!SetCapabilities(c, s) \in Clients(registered)
    BY <2>1 DEF Browser!SetCapabilities, Clients
  <2>3. Browser!BeginAssumption(c, s) \in Clients(registered)
    BY <2>1 DEF Browser!BeginAssumption, Clients
  <2> QED BY <2>2, <2>3
<1> QED BY <1>1, <1>2, <1>3, <1>4, <1>5

\* What becoming somebody asks for.
LEMMA Becoming ==
    ASSUME NEW registered \in SUBSET Accounts, NEW c \in Clients(registered), NEW pending, NEW changed,
           OnTheirWay(pending, registered), Browser!Become(c, pending, changed)
    PROVE  /\ client' = c /\ OnTheirWay(asked', registered)
           /\ c.token = None => asked' = pending
<1>1. client' = c /\ (c.token = None => asked' = pending)
  BY DEF Browser!Become, Browser!Authed
<1>2. CASE asked' = pending
  BY <1>1, <1>2
<1>3. CASE asked' # pending
  <2>1. PICK first, second :
            /\ first = [kind |-> "capabilities", token |-> c.token, about |-> None]
            /\ second = [kind |-> "other", token |-> c.token, about |-> None]
    OBVIOUS
  <2>2. c.token # None
    BY <1>1, <1>3
  <2>3. first \in Questions(registered) /\ second \in Questions(registered)
    BY <2>1, <2>2 DEF Questions, Clients
  <2>4. PICK more : more = [e \in DOMAIN pending \cup {first} |->
                                (IF e \in DOMAIN pending THEN pending[e] ELSE 0) + (IF e \in {first} THEN 1 ELSE 0)]
    OBVIOUS
  <2>5. OnTheirWay(more, registered)
    BY <2>3, <2>4 DEF OnTheirWay
  <2>6. asked' = [e \in DOMAIN more \cup {second} |->
                      (IF e \in DOMAIN more THEN more[e] ELSE 0) + (IF e \in {second} THEN 1 ELSE 0)]
    BY <1>1, <1>3, <2>1, <2>4 DEF Browser!Become, Browser!Request, Browser!(+), Browser!SetToBag
  <2>7. OnTheirWay(asked', registered)
    BY <2>3, <2>5, <2>6 DEF OnTheirWay
  <2> QED BY <1>1, <2>7
<1> QED BY <1>2, <1>3

LEMMA Sending ==
    ASSUME SessionsInv, NEW kind, NEW about, Browser!Send(kind, about),
           [kind |-> kind, token |-> client.token, about |-> about] \in Questions(Registered)
    PROVE  account' = account /\ client' = client /\ OnTheirWay(asked', Registered)
<1>1. PICK r : r = [kind |-> kind, token |-> client.token, about |-> about]
  OBVIOUS
<1>2. asked' = [e \in DOMAIN asked \cup {r} |->
                    (IF e \in DOMAIN asked THEN asked[e] ELSE 0) + (IF e \in {r} THEN 1 ELSE 0)]
  BY <1>1 DEF Browser!Send, Browser!Request, Browser!(+), Browser!SetToBag
<1>3. OnTheirWay(asked, Registered)
  BY DEF SessionsInv
<1>4. OnTheirWay(asked', Registered)
  BY <1>1, <1>2, <1>3 DEF OnTheirWay
<1> QED BY <1>4 DEF Browser!Send

\* What an answer leaves on the way, and what it takes away.
LEMMA Answered ==
    ASSUME NEW registered, OnTheirWay(asked, registered), NEW r \in DOMAIN asked
    PROVE  OnTheirWay(Browser!Rest(r), registered)
<1>1. PICK bag : bag = [e \in DOMAIN asked |-> IF e \in {r} THEN asked[e] - 1 ELSE asked[e]]
  OBVIOUS
<1>2. PICK rest : rest = Browser!Rest(r)
  OBVIOUS
<1>3. rest = [e \in {d \in DOMAIN bag : bag[d] > 0} |-> bag[e]]
  BY <1>1, <1>2 DEF Browser!Rest, Browser!(-), Browser!SetToBag
<1>4. \A e \in DOMAIN bag : bag[e] \in Nat
  BY <1>1 DEF OnTheirWay
<1>5. DOMAIN rest \subseteq DOMAIN asked /\ \A e \in DOMAIN rest : rest[e] \in Nat \ {0}
  BY <1>1, <1>3, <1>4
<1> QED BY <1>2, <1>5 DEF OnTheirWay

LEMMA Taken ==
    ASSUME NEW registered, OnTheirWay(asked, registered)
    PROVE  /\ asked' = asked => Browser!BagToSet(Browser!(-)(asked, asked')) = {}
           /\ \A r \in DOMAIN asked :
                  asked' = Browser!Rest(r) => Browser!BagToSet(Browser!(-)(asked, asked')) \subseteq {r}
<1>1. PICK left : left = asked'
  OBVIOUS
<1>2. PICK taken : taken = Browser!BagToSet(Browser!(-)(asked, asked'))
  OBVIOUS
<1>3. taken = {d \in DOMAIN asked : (IF d \in DOMAIN left THEN asked[d] - left[d] ELSE asked[d]) > 0}
  BY <1>1, <1>2 DEF Browser!BagToSet, Browser!(-)
<1>4. \A e \in DOMAIN asked : asked[e] \in Nat \ {0}
  BY DEF OnTheirWay
<1>5. left = asked => taken = {}
  BY <1>3, <1>4
<1>6. ASSUME NEW r \in DOMAIN asked, left = Browser!Rest(r) PROVE taken \subseteq {r}
  <2>1. left = [e \in {d \in DOMAIN asked : (IF d \in {r} THEN asked[d] - 1 ELSE asked[d]) > 0} |->
                   IF e \in {r} THEN asked[e] - 1 ELSE asked[e]]
    <3>1. PICK bag : bag = [e \in DOMAIN asked |-> IF e \in {r} THEN asked[e] - 1 ELSE asked[e]]
      OBVIOUS
    <3>2. left = [e \in {d \in DOMAIN bag : bag[d] > 0} |-> bag[e]]
      BY <1>6, <3>1 DEF Browser!Rest, Browser!(-), Browser!SetToBag
    <3> QED BY <3>1, <3>2
  <2>2. ASSUME NEW d \in DOMAIN asked, d # r PROVE d \in DOMAIN left /\ left[d] = asked[d]
    BY <1>4, <2>1, <2>2
  <2> QED BY <1>3, <1>4, <2>2
<1> QED BY <1>1, <1>2, <1>5, <1>6

\* A session that is remembered is forgotten only with everything else.
LEMMA Remembered ==
    ASSUME NEW registered, NEW c \in Clients(registered)
    PROVE  /\ Browser!Restore(c).kept = c.kept /\ Browser!EndAssumption(c).kept = c.kept
           /\ \A s : Browser!SetCapabilities(c, s).kept = c.kept /\ Browser!BeginAssumption(c, s).kept = c.kept
           /\ Browser!Blank.kept = None /\ Browser!Blank.token = None
<1>1. ASSUME NEW d \in Clients(registered) PROVE Browser!Restore(d).kept = d.kept
  BY DEF Browser!Restore, Clients
<1>2. PICK d : d = [c EXCEPT !.session = None]
  OBVIOUS
<1>3. d \in Clients(registered) /\ d.kept = c.kept
  BY <1>2 DEF Clients
<1>4. Browser!EndAssumption(c).kept = c.kept
  BY <1>1, <1>2, <1>3 DEF Browser!EndAssumption
<1>5. \A s : Browser!SetCapabilities(c, s).kept = c.kept /\ Browser!BeginAssumption(c, s).kept = c.kept
  BY DEF Browser!SetCapabilities, Browser!BeginAssumption, Clients
<1> QED BY <1>1, <1>4, <1>5 DEF Browser!Blank

\* What an answer that is refused makes of the browser.
LEMMA Refusals ==
    ASSUME SessionsInv, NEW outcome
    PROVE  /\ Browser!After(outcome) \in Clients(Registered)
           /\ client.kept # None /\ Browser!After(outcome).kept = None =>
                  outcome = "refused" /\ ~client.assuming /\ Browser!After(outcome) = Browser!Blank
           /\ Browser!Clear(Browser!After(outcome)) = Browser!Blank
<1>1. client \in Clients(Registered) /\ Registered \in SUBSET Accounts
  BY DEF SessionsInv, Registered
<1>2. Browser!Blank \in Clients(Registered) /\ Browser!EndAssumption(client) \in Clients(Registered)
  BY <1>1, StoreKeepsSense
<1>3. Browser!EndAssumption(client).kept = client.kept
  BY <1>1, Remembered
<1>4. \/ Browser!After(outcome) = client
      \/ Browser!After(outcome) = Browser!EndAssumption(client)
      \/ outcome = "refused" /\ ~client.assuming /\ Browser!After(outcome) = Browser!Blank
  BY Zenon DEF Browser!After, Browser!OnRefused, Browser!Clear
<1> QED BY <1>1, <1>2, <1>3, <1>4 DEF Browser!Clear

\* The step in which an answer arrives.
LEMMA Delivered ==
    ASSUME SessionsInv, NEW r \in DOMAIN asked, NEW outcome \in Browser!Outcomes(r), NEW changed, NEW c,
           account' \in [Accounts -> Rows \cup {None}], NEW registered, registered = Registered',
           Registered \subseteq registered, c \in Clients(registered), Browser!Become(c, Browser!Rest(r), changed),
           client.kept # None /\ c.kept = None =>
               c.token = None /\ (r.kind \in {"start", "login"} \/ (outcome = "refused" /\ ~client.assuming))
    PROVE  SessionsInv' /\ Browser!EndsForCause
<1>1. registered \in SUBSET Accounts /\ client \in Clients(Registered) /\ OnTheirWay(asked, Registered)
  BY DEF SessionsInv, Registered
<1>2. OnTheirWay(Browser!Rest(r), Registered)
  BY <1>1, Answered
<1>3. OnTheirWay(Browser!Rest(r), registered)
  BY <1>2, MoreRegistered
<1>4. PICK rest : rest = Browser!Rest(r)
  OBVIOUS
<1>5. client' = c /\ OnTheirWay(asked', registered) /\ (c.token = None => asked' = rest)
  BY <1>1, <1>3, <1>4, Becoming
<1>6. SessionsInv'
  BY <1>5 DEF SessionsInv
<1>7. ASSUME client.kept # None, client'.kept = None PROVE Browser!EndsForCause
  <2>1. c.token = None /\ (r.kind \in {"start", "login"} \/ (outcome = "refused" /\ ~client.assuming))
    BY <1>5, <1>7
  <2>2. asked' = Browser!Rest(r)
    BY <1>4, <1>5, <2>1
  <2>3. Browser!BagToSet(Browser!(-)(asked, asked')) \subseteq {r}
    BY <1>1, <2>2, Taken
  <2>4. r \in Questions(Registered)
    BY <1>1 DEF OnTheirWay
  <2>5. r.kind \notin {"start", "login"} => Browser!Invalid(r.token) /\ r.kind # "register"
    BY <2>1 DEF Browser!Outcomes
  <2>6. r.kind \notin {"start", "login"} => r.token \in Tokens /\ ~client.assuming
    BY <2>1, <2>4, <2>5 DEF Questions
  <2>7. r.token = client.token /\ r.kind \notin {"start", "login"} => r.token.profile = "none"
    BY <1>1, <2>6, NobodyElse DEF Clients
  <2> QED BY <2>3, <2>5, <2>7 DEF Browser!EndsForCause
<1> QED BY <1>6, <1>7 DEF Browser!EndsForCause

\* What is asked, and what happens to the accounts meanwhile.
LEMMA QuietSteps ==
    ASSUME SessionsInv, account' = account, client' = client, OnTheirWay(asked', Registered)
    PROVE  SessionsInv' /\ Browser!EndsForCause
BY DEF SessionsInv, Registered, Browser!EndsForCause

LEMMA Questioning ==
    ASSUME SessionsInv,
           \/ \E u \in Accounts : Browser!Login(u) \/ Browser!Register(u)
           \/ Browser!Browse \/ Browser!LoadCapabilities \/ Browser!Stop
           \/ \E p \in Browser!Profiles : Browser!Assume(p)
    PROVE  SessionsInv' /\ Browser!EndsForCause
<1>1. PICK kind, about :
          /\ Browser!Send(kind, about)
          /\ \/ kind \in {"login", "register"} /\ about \in Accounts
             \/ kind \in {"other", "capabilities", "release"} /\ about = None /\ client.token # None
             \/ kind = "assume" /\ about \in Browser!Profiles /\ client.token # None
  <2>1. CASE \E u \in Accounts : Browser!Login(u) \/ Browser!Register(u)
    <3>1. PICK u \in Accounts : Browser!Send("login", u) \/ Browser!Send("register", u)
      BY <2>1 DEF Browser!Login, Browser!Register
    <3> QED BY <3>1
  <2>2. CASE Browser!Browse \/ Browser!LoadCapabilities
    <3>1. client.token # None /\ (Browser!Send("other", None) \/ Browser!Send("capabilities", None))
      BY <2>2 DEF Browser!Browse, Browser!LoadCapabilities, Browser!Authed
    <3> QED BY <3>1
  <2>3. CASE Browser!Stop
    <3>1. client.assuming /\ Browser!Send("release", None)
      BY <2>3 DEF Browser!Stop
    <3>2. client.token # None
      BY <3>1 DEF SessionsInv, Clients
    <3> QED BY <3>1, <3>2
  <2>4. CASE \E p \in Browser!Profiles : Browser!Assume(p)
    <3>1. PICK p \in Browser!Profiles : client.token # None /\ Browser!Send("assume", p)
      BY <2>4 DEF Browser!Assume, Browser!Authed
    <3> QED BY <3>1
  <2> QED BY <2>1, <2>2, <2>3, <2>4
<1>2. client \in Clients(Registered)
  BY DEF SessionsInv
<1>3. PICK token : token = client.token /\ token \in Tokens \cup {None} /\ (token # None => token.user \in Registered)
  BY <1>2 DEF Clients
<1>4. [kind |-> kind, token |-> token, about |-> about] \in Questions(Registered)
  BY <1>1, <1>3 DEF Questions
<1>5. account' = account /\ client' = client /\ OnTheirWay(asked', Registered)
  BY <1>1, <1>3, <1>4, Sending
<1> QED BY <1>5, QuietSteps

LEMMA Changing ==
    ASSUME SessionsInv, NEW u \in Accounts, Browser!Change(u)
    PROVE  SessionsInv' /\ Browser!EndsForCause
<1>1. PICK held, now :
          /\ held = account[u] /\ held # None /\ account' = [account EXCEPT ![u] = now]
          /\ now \in {[held EXCEPT !.votes = @ + 1], [held EXCEPT !.votes = IF @ = 0 THEN 0 ELSE @ - 1],
                      [held EXCEPT !.days = @ + 1], [held EXCEPT !.team = {}], [held EXCEPT !.organizations = {}]}
  BY DEF Browser!Change
<1>2. held \in Rows
  BY <1>1 DEF SessionsInv
<1>3. now \in Rows
  <2>1. [held EXCEPT !.votes = @ + 1] \in Rows
    BY <1>2 DEF Rows
  <2>2. [held EXCEPT !.votes = IF @ = 0 THEN 0 ELSE @ - 1] \in Rows
    <3>1. (IF held.votes = 0 THEN 0 ELSE held.votes - 1) \in Nat
      BY <1>2 DEF Rows
    <3> QED BY <1>2, <3>1 DEF Rows
  <2>3. [held EXCEPT !.days = @ + 1] \in Rows
    BY <1>2 DEF Rows
  <2>4. [held EXCEPT !.team = {}] \in Rows /\ [held EXCEPT !.organizations = {}] \in Rows
    BY <1>2 DEF Rows
  <2> QED BY <1>1, <2>1, <2>2, <2>3, <2>4
<1>4. account' \in [Accounts -> Rows \cup {None}]
  BY <1>1, <1>3 DEF SessionsInv
<1>5. Registered \subseteq Registered'
  BY <1>1, <1>3 DEF SessionsInv, Registered
<1>6. client' = client /\ asked' = asked
  BY DEF Browser!Change
<1>7. PICK registered : registered = Registered'
  OBVIOUS
<1>8. client \in Clients(registered) /\ OnTheirWay(asked, registered)
  BY <1>5, <1>7, MoreRegistered DEF SessionsInv
<1> QED BY <1>4, <1>6, <1>7, <1>8 DEF SessionsInv, Browser!EndsForCause

LEMMA LeavingAndReloading ==
    ASSUME SessionsInv, Browser!Logout \/ Browser!Reload \/ \E t : Browser!Expire(t)
    PROVE  SessionsInv' /\ Browser!EndsForCause
<1>1. /\ client \in Clients(Registered) /\ Registered \in SUBSET Accounts /\ OnTheirWay(asked, Registered)
      /\ account \in [Accounts -> Rows \cup {None}]
  BY DEF SessionsInv, Registered
<1>2. CASE Browser!Logout
  <2>1. PICK c : c = Browser!Clear(client)
    OBVIOUS
  <2>2. c = Browser!Blank /\ c \in Clients(Registered) /\ c.token = None
    BY <1>1, <2>1, StoreKeepsSense DEF Browser!Clear, Browser!Blank
  <2>3. Browser!Become(c, asked, FALSE) /\ account' = account
    BY <1>2, <2>1 DEF Browser!Logout
  <2>4. client' = c /\ asked' = asked
    BY <1>1, <2>2, <2>3, Becoming
  <2>5. Browser!BagToSet(Browser!(-)(asked, asked')) = {}
    BY <1>1, <2>4, Taken
  <2>6. Registered' = Registered
    BY <2>3 DEF Registered
  <2> QED BY <1>1, <2>2, <2>3, <2>4, <2>5, <2>6 DEF SessionsInv, Browser!EndsForCause
<1>3. CASE Browser!Reload
  <2>1. PICK c : c = Browser!Restore(client)
    OBVIOUS
  <2>2. c \in Clients(Registered) /\ c.kept = client.kept
    BY <1>1, <2>1, StoreKeepsSense, Remembered
  <2>3. /\ client' = c /\ account' = account
        /\ asked' = IF c.token # None THEN Browser!Request("start", c.token, None) ELSE Browser!EmptyBag
    BY <1>3, <2>1 DEF Browser!Reload, Browser!Authed
  <2>4. PICK r : r = [kind |-> "start", token |-> c.token, about |-> None]
    OBVIOUS
  <2>5. c.token # None => r \in Questions(Registered)
    BY <2>2, <2>4 DEF Clients, Questions
  <2>6. asked' = IF c.token # None THEN [e \in {r} |-> 1] ELSE [e \in {} |-> 1]
    BY <2>3, <2>4 DEF Browser!Request, Browser!EmptyBag, Browser!SetToBag
  <2>7. OnTheirWay(asked', Registered)
    BY <2>5, <2>6 DEF OnTheirWay
  <2>8. Registered' = Registered
    BY <2>3 DEF Registered
  <2> QED BY <1>1, <2>2, <2>3, <2>7, <2>8 DEF SessionsInv, Browser!EndsForCause
<1>4. CASE \E t : Browser!Expire(t)
  BY <1>1, <1>4, QuietSteps DEF Browser!Expire
<1> QED BY <1>2, <1>3, <1>4

\* What the API tells of an account.
LEMMA Summarised ==
    ASSUME NEW registered, NEW a \in Rows, NEW token \in Tokens, token.user \in registered, NEW late \in BOOLEAN
    PROVE  /\ Browser!Summary(a, token) \in TrueSummaries(registered)
           /\ [Browser!Summary(a, token) EXCEPT !.late = late] \in TrueSummaries(registered)
           /\ [Browser!Summary(a, token) EXCEPT !.late = late].of = token
           /\ [Browser!Summary(a, token) EXCEPT !.late = late].late = late
<1>1. PICK p \in AsWhom : p = token.profile
  BY DEF Tokens, AsWhom
<1>2. PICK at, says : at = Browser!Evaluated(a, p) /\ says = Browser!Capabilities(a, p)
  OBVIOUS
<1>3. at \in Rows /\ says = Browser!Capabilities(at, p)
  BY <1>2, EvaluatedAlike
<1>4. says \in [senior : BOOLEAN, capabilities : SUBSET Browser!Capability, participation : SUBSET Browser!Things,
               analytics : BOOLEAN]
  <2>1. PICK who \in Rows : who = Browser!LoadContext(a, p)
    BY Contexts
  <2>2. PICK mode, senior : mode = Browser!ParticipationMode(who) /\ senior = Browser!IsSenior(a, p)
    OBVIOUS
  <2> QED BY <1>2, <2>1, <2>2, GrantsAndOffers
<1>5. /\ Browser!Summary(a, token) = [of |-> token, at |-> at, says |-> says, late |-> FALSE]
      /\ [Browser!Summary(a, token) EXCEPT !.late = late] = [of |-> token, at |-> at, says |-> says, late |-> late]
  BY <1>1, <1>2 DEF Browser!Summary
<1> QED BY <1>1, <1>3, <1>4, <1>5 DEF TrueSummaries, Summaries

\* What the API answers.
LEMMA Answers ==
    ASSUME SessionsInv, NEW r \in DOMAIN asked, NEW outcome \in Browser!Outcomes(r),
           \/ Browser!DeliverStart(r, outcome) \/ Browser!DeliverLogin(r, outcome) \/ Browser!DeliverRegister(r, outcome)
           \/ Browser!DeliverCapabilities(r, outcome) \/ Browser!DeliverAssume(r, outcome)
           \/ Browser!DeliverRelease(r, outcome) \/ Browser!DeliverOther(r, outcome)
    PROVE  SessionsInv' /\ Browser!EndsForCause
<1>1. /\ client \in Clients(Registered) /\ Registered \in SUBSET Accounts
      /\ account \in [Accounts -> Rows \cup {None}] /\ r \in Questions(Registered)
  BY DEF SessionsInv, Registered, OnTheirWay
<1>2. PICK after :
          /\ after = Browser!After(outcome) /\ after \in Clients(Registered)
          /\ client.kept # None /\ after.kept = None =>
                 outcome = "refused" /\ ~client.assuming /\ after = Browser!Blank /\ after.token = None
          /\ Browser!Clear(after) = Browser!Blank
  BY Refusals, <1>1, Remembered
<1>3. Browser!Blank \in Clients(Registered) /\ Browser!Blank.token = None
  BY <1>1, StoreKeepsSense, Remembered
<1>4. PICK registered : registered = Registered'
  OBVIOUS
\* It is enough to say what becomes of the browser.
<1>5. ASSUME NEW c, NEW changed, Browser!Become(c, Browser!Rest(r), changed), account' = account,
             c \in Clients(Registered),
             client.kept # None /\ c.kept = None =>
                 c.token = None /\ (r.kind \in {"start", "login"} \/ (outcome = "refused" /\ ~client.assuming))
      PROVE  SessionsInv' /\ Browser!EndsForCause
  <2>1. Registered = registered
    BY <1>4, <1>5 DEF Registered
  <2>2. account' \in [Accounts -> Rows \cup {None}] /\ c \in Clients(registered) /\ Registered \subseteq registered
    BY <1>1, <1>5, <2>1
  <2> QED BY <1>4, <1>5, <2>2, Delivered
<1>6. CASE Browser!DeliverStart(r, outcome)
  <2>1. PICK c : c = IF outcome = "ok" THEN client ELSE Browser!Clear(after)
    OBVIOUS
  <2>2. Browser!Become(c, Browser!Rest(r), TRUE) /\ account' = account /\ r.kind = "start"
    BY <1>2, <1>6, <2>1 DEF Browser!DeliverStart
  <2>3. c \in Clients(Registered) /\ (c = client \/ c = Browser!Blank)
    BY <1>1, <1>2, <1>3, <2>1
  <2> QED BY <1>3, <1>5, <2>2, <2>3
<1>7. CASE Browser!DeliverLogin(r, outcome)
  <2>1. PICK c : c = IF outcome = "ok" THEN Browser!SetSession(client, r.about) ELSE after
    OBVIOUS
  <2>2. Browser!Become(c, Browser!Rest(r), FALSE) /\ account' = account /\ r.kind = "login"
    BY <1>2, <1>7, <2>1 DEF Browser!DeliverLogin
  <2>3. r.about \in Accounts
    BY <1>1, <2>2 DEF Questions
  <2>4. CASE outcome = "ok"
    <3>1. account[r.about] # None
      BY <2>2, <2>4 DEF Browser!Outcomes
    <3>2. r.about \in Registered
      BY <1>1, <2>3, <3>1 DEF Registered
    <3>3. c \in Clients(Registered)
      BY <1>1, <2>1, <2>4, <3>2, StoreKeepsSense
    <3>4. c.kept # None
      BY <2>1, <2>3, <2>4, NobodyElse DEF Browser!SetSession, Browser!Blank
    <3> QED BY <1>5, <2>2, <3>3, <3>4
  <2>5. CASE outcome # "ok"
    <3>1. c = after
      BY <2>1, <2>5
    <3> QED BY <1>2, <1>5, <2>2, <3>1
  <2> QED BY <2>4, <2>5
<1>8. CASE Browser!DeliverRegister(r, outcome)
  <2>1. PICK c : c = IF outcome = "ok" THEN Browser!SetSession(client, r.about) ELSE after
    OBVIOUS
  <2>2. /\ Browser!Become(c, Browser!Rest(r), FALSE) /\ r.kind = "register"
        /\ account' = IF outcome = "ok" THEN [account EXCEPT ![r.about] = Browser!Newcomer] ELSE account
    BY <1>2, <1>8, <2>1 DEF Browser!DeliverRegister
  <2>3. r.about \in Accounts
    BY <1>1, <2>2 DEF Questions
  <2>4. CASE outcome = "ok"
    <3>1. Browser!Newcomer \in Rows
      BY DEF Browser!Newcomer, Rows
    <3>2. account' \in [Accounts -> Rows \cup {None}] /\ Registered \subseteq registered /\ r.about \in registered
      BY <1>1, <1>4, <2>2, <2>3, <2>4, <3>1 DEF Registered
    <3>3. registered \in SUBSET Accounts
      BY <1>4 DEF Registered
    <3>4. client \in Clients(registered)
      BY <1>1, <3>2, MoreRegistered
    <3>5. c \in Clients(registered)
      BY <2>1, <2>4, <3>2, <3>3, <3>4, StoreKeepsSense
    <3>6. c.kept # None
      BY <2>1, <2>3, <2>4, NobodyElse DEF Browser!SetSession, Browser!Blank
    <3> QED BY <1>4, <2>2, <3>2, <3>5, <3>6, Delivered
  <2>5. CASE outcome # "ok"
    <3>1. c = after /\ account' = account
      BY <2>1, <2>2, <2>5
    <3> QED BY <1>2, <1>5, <2>2, <3>1
  <2> QED BY <2>4, <2>5
<1>9. CASE Browser!DeliverCapabilities(r, outcome)
  <2>1. r.kind = "capabilities" /\ r.token \in Tokens /\ r.token.user \in Registered
    BY <1>1, <1>9 DEF Browser!DeliverCapabilities, Questions
  <2>2. CASE outcome = "ok"
    <3>1. PICK u, a : u = r.token.user /\ a = account[u] /\ u \in Accounts /\ a \in Rows
      BY <2>1 DEF Registered
    <3>2. PICK given, late : late = (r.token # client.token) /\ given = [Browser!Summary(a, r.token) EXCEPT !.late = late]
      OBVIOUS
    <3>3. PICK c : c = Browser!SetCapabilities(client, given)
      OBVIOUS
    <3>4. /\ account' = [account EXCEPT ![u] = Browser!Evaluated(a, r.token.profile)]
          /\ Browser!Become(c, Browser!Rest(r), FALSE)
      BY <1>9, <2>2, <3>1, <3>2, <3>3 DEF Browser!DeliverCapabilities
    <3>5. r.token.profile \in AsWhom
      BY <2>1 DEF Tokens, AsWhom
    <3>6. Browser!Evaluated(a, r.token.profile) \in Rows
      BY <3>1, <3>5, EvaluatedAlike
    <3>7. account' \in [Accounts -> Rows \cup {None}] /\ registered = Registered
      BY <1>1, <1>4, <3>1, <3>4, <3>6 DEF Registered
    <3>8. given \in TrueSummaries(Registered) /\ (given.late \/ given.of = client.token)
      <4>1. late \in BOOLEAN
        BY <3>2
      <4>2. PICK token \in Tokens : token = r.token /\ token.user \in Registered
        BY <2>1
      <4>3. /\ [Browser!Summary(a, token) EXCEPT !.late = late] \in TrueSummaries(Registered)
            /\ [Browser!Summary(a, token) EXCEPT !.late = late].of = token
            /\ [Browser!Summary(a, token) EXCEPT !.late = late].late = late
        BY <3>1, <4>1, <4>2, Summarised
      <4> QED BY <3>2, <4>2, <4>3
    <3>9. c \in Clients(Registered) /\ c.kept = client.kept
      BY <1>1, <3>3, <3>8, StoreKeepsSense, Remembered
    <3> QED BY <1>4, <3>4, <3>7, <3>9, Delivered
  <2>3. CASE outcome # "ok"
    <3>1. Browser!Become(after, Browser!Rest(r), FALSE) /\ account' = account
      BY <1>2, <1>9, <2>3 DEF Browser!DeliverCapabilities
    <3> QED BY <1>2, <1>5, <3>1
  <2> QED BY <2>2, <2>3
<1>10. CASE Browser!DeliverAssume(r, outcome)
  <2>1. r.kind = "assume" /\ r.token \in Tokens /\ r.token.user \in Registered /\ account' = account
    BY <1>1, <1>10 DEF Browser!DeliverAssume, Questions
  <2>2. CASE outcome = "ok"
    <3>1. PICK u, a : u = r.token.user /\ a = account[u] /\ u \in Accounts /\ a \in Rows /\ u \in Registered
      BY <2>1 DEF Registered
    <3>2. PICK token : token = Browser!Token(u, r.about)
      OBVIOUS
    <3>3. PICK given : given = Browser!Summary(a, token)
      OBVIOUS
    <3>4. PICK c : c = Browser!BeginAssumption(client, given)
      OBVIOUS
    <3>5. Browser!Become(c, Browser!Rest(r), TRUE)
      BY <1>10, <2>2, <3>1, <3>2, <3>3, <3>4 DEF Browser!DeliverAssume
    <3>6. token \in Tokens /\ token.user \in Registered
      BY <1>1, <2>1, <3>1, <3>2 DEF Questions, Browser!Token, Tokens
    <3>7. given \in TrueSummaries(Registered)
      BY <3>1, <3>3, <3>6, Summarised
    <3>8. c \in Clients(Registered) /\ c.kept = client.kept
      BY <1>1, <3>4, <3>7, StoreKeepsSense, Remembered
    <3> QED BY <1>5, <2>1, <3>5, <3>8
  <2>3. CASE outcome # "ok"
    <3>1. Browser!Become(after, Browser!Rest(r), FALSE)
      BY <1>2, <1>10, <2>3 DEF Browser!DeliverAssume
    <3> QED BY <1>2, <1>5, <2>1, <3>1
  <2> QED BY <2>2, <2>3
<1>11. CASE Browser!DeliverRelease(r, outcome)
  <2>1. PICK c : c = Browser!EndAssumption(after)
    OBVIOUS
  <2>2. Browser!Become(c, Browser!Rest(r), TRUE) /\ account' = account
    BY <1>2, <1>11, <2>1 DEF Browser!DeliverRelease
  <2>3. c \in Clients(Registered) /\ c.kept = after.kept
    BY <1>1, <1>2, <2>1, StoreKeepsSense, Remembered
  <2>4. after = Browser!Blank => c.token = None
    BY <2>1 DEF Browser!EndAssumption, Browser!Restore, Browser!Blank
  <2> QED BY <1>2, <1>5, <2>2, <2>3, <2>4
<1>12. CASE Browser!DeliverOther(r, outcome)
  <2>1. Browser!Become(after, Browser!Rest(r), FALSE) /\ account' = account
    BY <1>2, <1>12 DEF Browser!DeliverOther
  <2> QED BY <1>2, <1>5, <2>1
<1> QED BY <1>6, <1>7, <1>8, <1>9, <1>10, <1>11, <1>12

LEMMA SessionsStep ==
    ASSUME SessionsInv, Browser!Next
    PROVE  SessionsInv' /\ Browser!EndsForCause
<1>1. CASE \/ \E u \in Accounts : Browser!Login(u) \/ Browser!Register(u)
           \/ Browser!Browse \/ Browser!LoadCapabilities \/ Browser!Stop
           \/ \E p \in Browser!Profiles : Browser!Assume(p)
  BY <1>1, Questioning
<1>2. CASE \E u \in Accounts : Browser!Change(u)
  BY <1>2, Changing
<1>3. CASE Browser!Logout \/ Browser!Reload \/ \E t : Browser!Expire(t)
  BY <1>3, LeavingAndReloading
<1>4. ASSUME NEW r \in DOMAIN asked, NEW outcome \in Browser!Outcomes(r),
             \/ Browser!DeliverStart(r, outcome) \/ Browser!DeliverLogin(r, outcome) \/ Browser!DeliverRegister(r, outcome)
             \/ Browser!DeliverCapabilities(r, outcome) \/ Browser!DeliverAssume(r, outcome)
             \/ Browser!DeliverRelease(r, outcome) \/ Browser!DeliverOther(r, outcome)
      PROVE  SessionsInv' /\ Browser!EndsForCause
  BY <1>4, Answers
<1>5. \/ \E u \in Accounts : Browser!Login(u) \/ Browser!Register(u) \/ Browser!Change(u)
      \/ Browser!Logout \/ Browser!Browse \/ Browser!LoadCapabilities \/ Browser!Stop \/ Browser!Reload
      \/ \E p \in Browser!Profiles : Browser!Assume(p)
      \/ \E t : Browser!Expire(t)
      \/ \E r \in DOMAIN asked : \E outcome \in Browser!Outcomes(r) :
             \/ Browser!DeliverStart(r, outcome) \/ Browser!DeliverLogin(r, outcome) \/ Browser!DeliverRegister(r, outcome)
             \/ Browser!DeliverCapabilities(r, outcome) \/ Browser!DeliverAssume(r, outcome)
             \/ Browser!DeliverRelease(r, outcome) \/ Browser!DeliverOther(r, outcome)
  BY Zenon DEF Browser!Next, Browser!BagToSet
<1> QED BY <1>1, <1>2, <1>3, <1>4, <1>5

LEMMA SessionsInit == ASSUME Browser!Init PROVE SessionsInv
<1>1. /\ account \in [Accounts -> UNION {Population[u] : u \in Accounts}]
      /\ \A u \in Accounts : account[u] \in Population[u]
      /\ client \in {Browser!Blank} \cup {Browser!SetSession(Browser!Blank, u) : u \in {v \in Accounts : account[v] # None}}
      /\ asked = Browser!EmptyBag
  BY DEF Browser!Init
<1>2. account \in [Accounts -> Rows \cup {None}]
  BY <1>1, AccountAssumption
<1>3. \A u \in Accounts : account[u] # None => u \in Registered
  BY <1>2 DEF Registered
<1>4. Registered \in SUBSET Accounts
  BY DEF Registered
<1>5. Browser!Blank \in Clients(Registered)
  BY NobodyElse DEF Browser!Blank, Clients
<1>6. \A u \in Registered : Browser!SetSession(Browser!Blank, u) \in Clients(Registered)
  BY <1>4, <1>5, StoreKeepsSense
<1>7. client \in Clients(Registered)
  BY <1>1, <1>3, <1>5, <1>6
<1>8. DOMAIN asked = {}
  BY <1>1 DEF Browser!EmptyBag, Browser!SetToBag
<1>9. OnTheirWay(asked, Registered)
  BY <1>8 DEF OnTheirWay
<1> QED BY <1>2, <1>7, <1>9 DEF SessionsInv

LEMMA SessionsInvariant == StancesSpec => [](scope = "sessions" => SessionsInv)
<1>1. StancesInit => (scope = "sessions" => SessionsInv)
  BY SessionsInit DEF StancesInit
<1>2. ASSUME scope = "sessions" => SessionsInv, [StancesNext]_<<scope, vars, treeVars, sessionVars, pageVars>>
      PROVE  (scope = "sessions" => SessionsInv)'
  <2>1. CASE scope = "sessions" /\ Browser!Next
    <3>1. SessionsInv'
      BY <1>2, <2>1, SessionsStep
    <3> QED BY <3>1
  <2>2. CASE UNCHANGED <<scope, sessionVars>>
    BY <1>2, <2>2 DEF sessionVars, SessionsInv, Registered
  <2>3. CASE scope # "sessions" /\ scope' = scope
    BY <2>3
  <2> QED BY <1>2, <2>1, <2>2, <2>3 DEF StancesNext
<1> QED BY <1>1, <1>2, PTL DEF StancesSpec

\* The pages offer what the API grants to whom they take their user for, as long as the account is what
\* it was when the API was asked: the getters of stores/auth.ts agree with the assertions of
\* policy.service.ts about every account and every identity, and the summary in the store is that of
\* the token in the store or late.
THEOREM PagesOfferWhatIsGranted == StancesSpec => []OffersAreGranted
<1>1. ASSUME scope = "sessions" => SessionsInv PROVE OffersAreGranted
  <2>1. ASSUME scope = "sessions", client.token # None, client.summary = None PROVE client.token.profile = "none"
    BY <1>1, <2>1 DEF SessionsInv, Clients
  <2>2. ASSUME scope = "sessions", client.token # None, client.summary # None, ~client.summary.late
        PROVE  /\ client.summary.of = client.token
               /\ account[client.token.user] = client.summary.at =>
                      Browser!OffersWhatIsGranted(account[client.token.user], client.token.profile, client.summary.says)
    <3>1. PICK s : s = client.summary
      OBVIOUS
    <3>2. s \in TrueSummaries(Registered) /\ s.of = client.token
      BY <1>1, <2>2, <3>1 DEF SessionsInv, Clients
    <3>3. PICK at, p : at = s.at /\ p = client.token.profile /\ at \in Rows /\ p \in AsWhom
      BY <3>2 DEF TrueSummaries, Summaries, Tokens, AsWhom
    <3>4. s.says = Browser!Capabilities(at, p)
      BY <3>2, <3>3 DEF TrueSummaries
    <3>5. Browser!OffersWhatIsGranted(at, p, s.says)
      BY <3>3, <3>4, OffersAgree
    <3> QED BY <3>1, <3>2, <3>3, <3>5
  <2>3. scope = "sessions" => Browser!OffersAreGranted
    BY <2>1, <2>2, Zenon DEF Browser!OffersAreGranted, Browser!Authed
  <2> QED BY <2>3 DEF OffersAreGranted
<1> QED BY <1>1, SessionsInvariant, PTL

\* A session that is kept in the browser is given up by its user, by a start that fails, or by a 401 to
\* a request of that session or of another identity (useApi.ts, plugins/auth.client.ts): no step of the
\* client loses it otherwise, whatever answers are on their way and however late they arrive.
THEOREM SessionsAreKept == StancesSpec => SessionsEndForCause
<1>1. ASSUME scope = "sessions" => SessionsInv, [StancesNext]_<<scope, vars, treeVars, sessionVars, pageVars>>
      PROVE  [scope = "sessions" => Browser!EndsForCause]_<<scope, client, asked>>
  <2>1. CASE scope = "sessions" /\ Browser!Next
    BY <1>1, <2>1, SessionsStep
  <2>2. CASE scope # "sessions"
    BY <2>2
  <2>3. CASE UNCHANGED <<scope, client, asked>>
    BY <2>3
  <2>4. UNCHANGED <<scope, vars, treeVars, sessionVars, pageVars>> => UNCHANGED <<scope, client, asked>>
    BY DEF sessionVars
  <2>5. \/ scope = "sessions" /\ Browser!Next
        \/ scope # "sessions"
        \/ UNCHANGED <<scope, vars, treeVars, sessionVars, pageVars>>
    BY <1>1, Zenon DEF StancesNext
  <2> QED BY <2>1, <2>2, <2>3, <2>4, <2>5
<1> QED BY <1>1, SessionsInvariant, PTL DEF StancesSpec, SessionsEndForCause

-----------------------------------------------------------------------------
(***************************************************************************)
(* The tree of stances.  A row hangs below a row that is there, and stays  *)
(* where it hangs; a removal knows every row that was there when it        *)
(* counted, and that none of them hung below its stance: so the rows below *)
(* it are new.  A like is one row of one member, and a request that takes  *)
(* it away has seen exactly that row; so each counter update a request     *)
(* owes is one row more or less.                                           *)
(***************************************************************************)
Statuses == {"NONE", "ACTIVE", "TAKEN_DOWN", "GONE"}
LikeRows == Members \X Posts \X Nat
Callers == [op : Tree!Ops \cup {"none"}, stance : Stances \cup {Tree!NoStance}, member : Members \cup {"nobody"},
            post : Posts \cup {"none"},
            pc : {"idle", "check", "find", "write", "like", "unlike", "increment", "decrement"},
            seen : SUBSET (Stances \cup LikeRows), existing : {"NONE", "OPEN", "RESOLVED"}, id : Nat]

TreeTypes ==
    /\ row \in [Stances -> [parent : Stances \cup {Tree!NoStance}, depth : Int, status : Statuses]]
    /\ report \in [Stances \X Members -> {"NONE", "OPEN", "RESOLVED"}]
    /\ likes \in SUBSET LikeRows /\ IsFiniteSet(likes)
    /\ likeCount \in [Posts -> Int] /\ drift \in [Posts -> Int]
    /\ call \in [Calls -> Callers] /\ called \in Nat
    /\ \A c \in Calls : call[c].pc # "idle" => call[c].post \in Posts /\ call[c].member \in Members

\* Where a request is, and which row of which member it has seen.
Stages ==
    \A c \in Calls :
        /\ call[c].pc \in {"like", "unlike", "increment", "decrement"} => call[c].op = "like"
        /\ call[c].op = "like" => call[c].pc \in {"check", "like", "unlike", "increment", "decrement"}
        /\ call[c].op \in {"remove", "post", "report", "takedown", "restore"} => call[c].stance \in Stances
        /\ call[c].pc = "unlike" => \E x \in LikeRows : call[c].seen = {x} /\ x[2] = call[c].post

OnePerMember == \A x, y \in likes : x[1] = y[1] /\ x[2] = y[2] => x = y

ParentsAreThere == \A s \in Tree!Live : row[s].parent = Tree!NoStance \/ row[s].parent \in Tree!Live

RemoversKnow ==
    \A c \in Calls : call[c].op = "remove" /\ call[c].pc = "write" =>
        /\ \A s \in call[c].seen : s \in Stances => row[s].status # "NONE"
        /\ \A s \in call[c].seen \cap Tree!Live :
               row[s].parent # call[c].stance /\ (row[s].parent = Tree!NoStance \/ row[s].parent \in call[c].seen)

TreeInv == TreeTypes /\ Stages /\ OnePerMember /\ ParentsAreThere /\ RemoversKnow
           /\ Tree!OpenReportsAreLate /\ Tree!LikeCountsFollowLikes

\* One request moves at a time, and these are the moves that matter.
LEMMA Moves ==
    ASSUME TreeTypes, Stages, NEW c \in Calls,
           Tree!CallStep(c) \/ \E op \in Tree!Ops, s \in Stances \cup {Tree!NoStance}, u \in Members, p \in Posts :
                                   Tree!Request(c, op, s, u, p)
    PROVE  \E x \in Callers :
               /\ call' = [call EXCEPT ![c] = x]
               /\ x.pc # "idle" => x.post \in Posts /\ x.member \in Members
               /\ x.pc \in {"like", "unlike", "increment", "decrement"} => x.op = "like"
               /\ x.op = "like" => x.pc \in {"check", "like", "unlike", "increment", "decrement"}
               /\ x.op \in {"remove", "post", "report", "takedown", "restore"} => x.stance \in Stances
               /\ x.op = "remove" /\ x.pc = "write" => Tree!CountForRemove(c)
               /\ x.pc \in {"like", "unlike"} => Tree!FindLike(c)
               /\ x.pc \in {"increment", "decrement"} => Tree!WriteLike(c)
<1> DEFINE Sound(x) == /\ x \in Callers
                       /\ x.pc # "idle" => x.post \in Posts /\ x.member \in Members
                       /\ x.pc \in {"like", "unlike", "increment", "decrement"} => x.op = "like"
                       /\ x.op = "like" => x.pc \in {"check", "like", "unlike", "increment", "decrement"}
                       /\ x.op \in {"remove", "post", "report", "takedown", "restore"} => x.stance \in Stances
           Fine(x) == /\ Sound(x)
                      /\ x.op = "remove" /\ x.pc = "write" => Tree!CountForRemove(c)
                      /\ x.pc \in {"like", "unlike"} => Tree!FindLike(c)
                      /\ x.pc \in {"increment", "decrement"} => Tree!WriteLike(c)
<1> SUFFICES \E x : Fine(x) /\ call' = [call EXCEPT ![c] = x]
  OBVIOUS
<1>1. PICK old : old = call[c] /\ Sound(old)
  BY DEF TreeTypes, Stages
<1>2. Tree!Idle \in Callers /\ Fine(Tree!Idle)
  BY DEF Tree!Idle, Tree!NoStance, Callers
<1>3. Tree!Done(c) => \E x : Fine(x) /\ call' = [call EXCEPT ![c] = x]
  BY <1>2 DEF Tree!Done
<1>4. ASSUME NEW stage \in {"write", "find", "increment", "decrement"}, Tree!Goto(c, stage), old.pc # "idle",
             stage \in {"increment", "decrement"} => old.op = "like" /\ Tree!WriteLike(c),
             stage \in {"write", "find"} => old.op \notin {"like", "remove"}
      PROVE  \E x : Fine(x) /\ call' = [call EXCEPT ![c] = x]
  <2>1. PICK x : x = [old EXCEPT !.pc = stage]
    OBVIOUS
  <2>2. Fine(x)
    BY <1>1, <1>4, <2>1 DEF Callers
  <2>3. call' = [call EXCEPT ![c] = x]
    BY <1>1, <1>4, <2>1 DEF Tree!Goto
  <2> QED BY <2>2, <2>3
<1>5. CASE Tree!CheckTarget(c)
  BY <1>1, <1>3, <1>4, <1>5 DEF Tree!CheckTarget
<1>6. CASE Tree!CheckReported(c)
  BY <1>1, <1>3, <1>4, <1>6 DEF Tree!CheckReported, Tree!At
<1>7. CASE Tree!CheckPost(c)
  BY <1>1, <1>3, <1>4, <1>7 DEF Tree!CheckPost, Tree!At
<1>8. CASE \/ Tree!Submit(c) \/ Tree!Publish(c) \/ Tree!Resolve(c) \/ Tree!Delete(c) \/ Tree!WriteReport(c)
           \/ Tree!Takedown(c) \/ Tree!Restore(c) \/ Tree!Close(c) \/ Tree!CreatePost(c) \/ Tree!CountLike(c)
           \/ Tree!Abandon(c)
  BY <1>3, <1>8 DEF Tree!Submit, Tree!Publish, Tree!Resolve, Tree!Delete, Tree!WriteReport, Tree!Takedown,
     Tree!Restore, Tree!Close, Tree!CreatePost, Tree!CountLike, Tree!Abandon
<1>9. CASE Tree!CountForRemove(c)
  <2>1. CASE call' = [call EXCEPT ![c].pc = "write", ![c].seen = Tree!Live]
    <3>1. PICK x : x = [old EXCEPT !.pc = "write", !.seen = Tree!Live]
      OBVIOUS
    <3>2. Fine(x)
      BY <1>1, <1>9, <3>1 DEF Callers, Tree!CountForRemove, Tree!At, Tree!Live
    <3>3. call' = [call EXCEPT ![c] = x]
      BY <1>1, <2>1, <3>1 DEF TreeTypes
    <3> QED BY <3>2, <3>3
  <2>2. CASE Tree!Done(c)
    BY <1>3, <2>2
  <2> QED BY <1>9, <2>1, <2>2 DEF Tree!CountForRemove
<1>10. CASE Tree!FindReport(c)
  <2>1. PICK mine : mine = report[call[c].stance, call[c].member]
    OBVIOUS
  <2>2. CASE mine # "OPEN"
    <3>1. PICK x : x = [old EXCEPT !.pc = "write", !.existing = mine]
      OBVIOUS
    <3>2. old.stance \in Stances /\ old.member \in Members
      BY <1>1, <1>10 DEF Tree!FindReport, Tree!At
    <3>3. mine \in {"NONE", "OPEN", "RESOLVED"}
      BY <1>1, <2>1, <3>2 DEF TreeTypes
    <3>4. Fine(x)
      BY <1>1, <1>10, <3>1, <3>3 DEF Callers, Tree!FindReport, Tree!At
    <3>5. call' = [call EXCEPT ![c] = x]
      BY <1>1, <1>10, <2>1, <2>2, <3>1 DEF TreeTypes, Tree!FindReport
    <3> QED BY <3>4, <3>5
  <2>3. CASE mine = "OPEN"
    BY <1>3, <1>10, <2>1, <2>3 DEF Tree!FindReport
  <2> QED BY <2>2, <2>3
<1>11. CASE Tree!FindLike(c)
  <2>1. PICK own, stage : own = Tree!OwnLikes(c) /\ stage = IF own = {} THEN "like" ELSE "unlike"
    OBVIOUS
  <2>2. PICK x : x = [old EXCEPT !.pc = stage, !.seen = own]
    OBVIOUS
  <2>3. own \subseteq LikeRows
    BY <2>1 DEF Tree!OwnLikes, TreeTypes
  <2>4. Fine(x)
    BY <1>1, <1>11, <2>1, <2>2, <2>3 DEF Callers, Tree!FindLike, Tree!At
  <2>5. call' = [call EXCEPT ![c] = x]
    BY <1>1, <1>11, <2>1, <2>2 DEF TreeTypes, Tree!FindLike
  <2> QED BY <2>4, <2>5
<1>12. CASE Tree!WriteLike(c)
  <2>1. old.op = "like" /\ old.pc # "idle"
    BY <1>1, <1>12 DEF Tree!WriteLike
  <2>2. Tree!Done(c) \/ Tree!Goto(c, "increment") \/ Tree!Goto(c, "decrement")
    BY <1>12 DEF Tree!WriteLike
  <2> QED BY <1>3, <1>4, <1>12, <2>1, <2>2
<1>13. ASSUME NEW op \in Tree!Ops, NEW s \in Stances \cup {Tree!NoStance}, NEW u \in Members, NEW p \in Posts,
              Tree!Request(c, op, s, u, p)
       PROVE  \E x : Fine(x) /\ call' = [call EXCEPT ![c] = x]
  <2>1. PICK id \in Nat : id = IF op = "like" THEN called + 1 ELSE 0
    BY DEF TreeTypes
  <2>2. PICK x : x = [Tree!Idle EXCEPT !.op = op, !.stance = s, !.member = u, !.post = p, !.pc = "check", !.id = id]
    OBVIOUS
  <2>3. op \in {"remove", "post", "report", "takedown", "restore"} => s \in Stances
    BY <1>13 DEF Tree!Request
  <2>4. Fine(x)
    BY <2>2, <2>3 DEF Callers, Tree!Idle
  <2>5. call' = [call EXCEPT ![c] = x]
    BY <1>13, <2>1, <2>2, Zenon DEF Tree!Request
  <2> QED BY <2>4, <2>5
<1> QED
  BY <1>5, <1>6, <1>7, <1>8, <1>9, <1>10, <1>11, <1>12, <1>13 DEF Tree!CallStep

\* What a step may do to the rows, whoever takes it.
Grows ==
    /\ \A s \in Stances : row[s].status # "NONE" => row'[s].status # "NONE"
    /\ \A s \in Tree!Live : s \in Tree!Live' => row'[s].parent = row[s].parent
    /\ \A s \in Tree!Live' : s \notin Tree!Live =>
           row[s].status = "NONE" /\ (row'[s].parent = Tree!NoStance \/ row'[s].parent \in Tree!Live)

\* The requests that change no row, and those that do and are done with it.
LEMMA RowsChange ==
    ASSUME TreeTypes, Stages, NEW c \in Calls,
           Tree!CallStep(c) \/ \E op \in Tree!Ops, s \in Stances \cup {Tree!NoStance}, u \in Members, p \in Posts :
                                   Tree!Request(c, op, s, u, p)
    PROVE  \/ row' = row
           \/ Tree!Done(c) /\ \E p \in Tree!Live \cup {Tree!NoStance} : Tree!AddStance(p)
           \/ Tree!Done(c) /\ \E s \in Tree!Live, to \in {"ACTIVE", "TAKEN_DOWN"} :
                                  row' = [row EXCEPT ![s].status = to]
           \/ Tree!Delete(c)
<1>1. CASE \/ Tree!CheckTarget(c) \/ Tree!Submit(c) \/ Tree!CountForRemove(c) \/ Tree!CheckReported(c)
           \/ Tree!FindReport(c) \/ Tree!WriteReport(c) \/ Tree!Close(c) \/ Tree!CheckPost(c) \/ Tree!CreatePost(c)
           \/ Tree!FindLike(c) \/ Tree!WriteLike(c) \/ Tree!CountLike(c) \/ Tree!Abandon(c)
  BY <1>1 DEF Tree!CheckTarget, Tree!Submit, Tree!CountForRemove, Tree!CheckReported, Tree!FindReport, Tree!WriteReport,
     Tree!Close, Tree!CheckPost, Tree!CreatePost, Tree!FindLike, Tree!WriteLike, Tree!CountLike, Tree!Abandon, Tree!rows
<1>2. CASE \E op \in Tree!Ops, s \in Stances \cup {Tree!NoStance}, u \in Members, p \in Posts :
               Tree!Request(c, op, s, u, p)
  BY <1>2 DEF Tree!Request, Tree!rows
<1>3. CASE Tree!Publish(c)
  <2>1. call[c].stance \in Stances \cup {Tree!NoStance}
    BY DEF TreeTypes, Callers
  <2>2. Tree!OpenTarget(call[c].stance) => call[c].stance \in Tree!Live \cup {Tree!NoStance}
    BY <2>1 DEF Tree!OpenTarget, Tree!Active, Tree!Live
  <2> QED BY <1>3, <2>2 DEF Tree!Publish
<1>4. CASE Tree!Resolve(c)
  BY <1>4 DEF Tree!Resolve
<1>5. CASE Tree!Takedown(c)
  BY <1>5 DEF Tree!Takedown
<1>6. CASE Tree!Restore(c)
  BY <1>6 DEF Tree!Restore
<1> QED BY <1>1, <1>2, <1>3, <1>4, <1>5, <1>6 DEF Tree!CallStep

LEMMA RowsGrow ==
    ASSUME TreeTypes, ParentsAreThere, NEW c \in Calls,
           \/ row' = row
           \/ \E p \in Tree!Live \cup {Tree!NoStance} : Tree!AddStance(p)
           \/ \E s \in Tree!Live, to \in {"ACTIVE", "TAKEN_DOWN"} : row' = [row EXCEPT ![s].status = to]
           \/ Tree!Delete(c)
    PROVE  /\ row' \in [Stances -> [parent : Stances \cup {Tree!NoStance}, depth : Int, status : Statuses]]
           /\ Grows /\ ParentsAreThere'
           /\ ~Tree!Delete(c) => Tree!Live \subseteq Tree!Live'
<1>1. row \in [Stances -> [parent : Stances \cup {Tree!NoStance}, depth : Int, status : Statuses]]
  BY DEF TreeTypes
<1>2. \A s \in Tree!Live : row[s].parent = Tree!NoStance \/ row[s].parent \in Tree!Live
  BY DEF ParentsAreThere
<1>3. CASE row' = row
  <2>1. Tree!Live' = Tree!Live
    BY <1>3 DEF Tree!Live
  <2> QED BY <1>1, <1>2, <1>3, <2>1 DEF Grows, ParentsAreThere
<1>4. ASSUME NEW p \in Tree!Live \cup {Tree!NoStance}, Tree!AddStance(p)
      PROVE  /\ row' \in [Stances -> [parent : Stances \cup {Tree!NoStance}, depth : Int, status : Statuses]]
             /\ Grows /\ ParentsAreThere' /\ Tree!Live \subseteq Tree!Live'
  <2>1. PICK s \in Tree!Unused :
            row' = [row EXCEPT ![s] = [parent |-> p, depth |-> IF p = Tree!NoStance THEN 0 ELSE row[p].depth + 1,
                                       status |-> "ACTIVE"]]
    BY <1>4 DEF Tree!AddStance
  <2>2. PICK depth \in Int : depth = IF p = Tree!NoStance THEN 0 ELSE row[p].depth + 1
    BY <1>1 DEF Tree!Live
  <2>3. s \in Stances /\ row[s].status = "NONE" /\ p \in Stances \cup {Tree!NoStance}
    BY DEF Tree!Unused, Tree!Live
  <2>4. row' = [row EXCEPT ![s] = [parent |-> p, depth |-> depth, status |-> "ACTIVE"]]
    BY <2>1, <2>2
  <2>5. row'[s] = [parent |-> p, depth |-> depth, status |-> "ACTIVE"] /\ \A t \in Stances \ {s} : row'[t] = row[t]
    BY <1>1, <2>3, <2>4
  <2>6. row' \in [Stances -> [parent : Stances \cup {Tree!NoStance}, depth : Int, status : Statuses]]
    BY <1>1, <2>3, <2>4 DEF Statuses
  <2>7. Tree!Live' = Tree!Live \cup {s} /\ s \notin Tree!Live
    BY <2>3, <2>5 DEF Tree!Live
  <2>8. Grows
    BY <2>3, <2>5, <2>7 DEF Grows, Tree!Live
  <2>9. ParentsAreThere'
    BY <1>2, <2>5, <2>7 DEF ParentsAreThere, Tree!Live
  <2> QED BY <2>6, <2>7, <2>8, <2>9
<1>5. ASSUME NEW s \in Tree!Live, NEW to \in {"ACTIVE", "TAKEN_DOWN"}, row' = [row EXCEPT ![s].status = to]
      PROVE  /\ row' \in [Stances -> [parent : Stances \cup {Tree!NoStance}, depth : Int, status : Statuses]]
             /\ Grows /\ ParentsAreThere' /\ Tree!Live \subseteq Tree!Live'
  <2>1. s \in Stances
    BY DEF Tree!Live
  <2>2. row' \in [Stances -> [parent : Stances \cup {Tree!NoStance}, depth : Int, status : Statuses]]
    BY <1>1, <1>5, <2>1 DEF Statuses
  <2>3. \A t \in Stances : row'[t].parent = row[t].parent /\ row'[t].status = IF t = s THEN to ELSE row[t].status
    BY <1>1, <1>5, <2>1
  <2>4. Tree!Live' = Tree!Live
    BY <2>1, <2>3 DEF Tree!Live
  <2>5. Grows
    BY <2>3, <2>4 DEF Grows, Tree!Live
  <2>6. ParentsAreThere'
    BY <1>2, <2>3, <2>4 DEF ParentsAreThere, Tree!Live
  <2> QED BY <2>2, <2>4, <2>5, <2>6
<1>6. CASE Tree!Delete(c)
  <2>1. PICK gone : gone = IF call[c].stance \in Tree!Live THEN Tree!Below(call[c].stance) ELSE {}
    OBVIOUS
  <2>2. \/ row' = [s \in Stances |-> IF s \in gone THEN [Tree!NoRow EXCEPT !.status = "GONE"] ELSE row[s]]
        \/ row' = row
    BY <1>6, <2>1 DEF Tree!Delete
  <2>3. CASE row' = [s \in Stances |-> IF s \in gone THEN [Tree!NoRow EXCEPT !.status = "GONE"] ELSE row[s]]
    <3>1. PICK none : none = [parent |-> Tree!NoStance, depth |-> 0, status |-> "GONE"]
      OBVIOUS
    <3>2. \A s \in Stances : row'[s] = IF s \in gone THEN none ELSE row[s]
      BY <2>3, <3>1 DEF Tree!NoRow
    <3>3. row' \in [Stances -> [parent : Stances \cup {Tree!NoStance}, depth : Int, status : Statuses]]
      BY <1>1, <2>3, <3>1 DEF Statuses, Tree!NoRow
    <3>4. Tree!Live' = Tree!Live \ gone
      BY <3>1, <3>2 DEF Tree!Live
    <3>5. Grows
      BY <3>1, <3>2, <3>4 DEF Grows, Tree!Live
    <3>6. ASSUME NEW s \in Tree!Live, s \notin gone, row[s].parent \in Tree!Live PROVE row[s].parent \notin gone
      <4>1. CASE call[c].stance \in Tree!Live
        <5>1. s \in Tree!Children(row[s].parent)
          BY DEF Tree!Children
        <5>2. PICK S \in SUBSET Stances : call[c].stance \in S /\ Tree!Closed(S) /\ s \notin S
          BY <2>1, <3>6, <4>1 DEF Tree!Below, Tree!Live
        <5>3. row[s].parent \notin S
          BY <5>1, <5>2 DEF Tree!Closed
        <5> QED BY <2>1, <4>1, <5>2, <5>3 DEF Tree!Below
      <4> QED BY <2>1, <4>1
    <3>7. ParentsAreThere'
      <4>1. \A s \in Tree!Live \ gone : row'[s].parent = row[s].parent
        BY <3>2 DEF Tree!Live
      <4>2. \A s \in Tree!Live \ gone : row'[s].parent = Tree!NoStance \/ row'[s].parent \in Tree!Live \ gone
        BY <1>2, <3>6, <4>1
      <4> QED BY <3>4, <4>2 DEF ParentsAreThere, Tree!Live
    <3> QED BY <1>6, <3>3, <3>5, <3>7
  <2> QED BY <1>3, <1>6, <2>2, <2>3
<1> QED BY <1>3, <1>4, <1>5, <1>6

LEMMA RemoversStay ==
    ASSUME TreeTypes, ParentsAreThere, RemoversKnow, Grows, NEW c \in Calls, NEW x \in Callers,
           call' = [call EXCEPT ![c] = x], x.op = "remove" /\ x.pc = "write" => Tree!CountForRemove(c)
    PROVE  RemoversKnow'
<1>1. call \in [Calls -> Callers] /\ \A s \in Tree!Live' : s \in Stances
  BY DEF TreeTypes, Tree!Live
<1>2. ASSUME NEW d \in Calls, call'[d].op = "remove", call'[d].pc = "write"
      PROVE  /\ \A s \in call'[d].seen : s \in Stances => row[s].status # "NONE"
             /\ \A s \in call'[d].seen \cap Tree!Live :
                    row[s].parent # call'[d].stance /\ (row[s].parent = Tree!NoStance \/ row[s].parent \in call'[d].seen)
  <2>1. CASE d # c
    <3>1. call'[d] = call[d]
      BY <1>1, <2>1
    <3> QED BY <1>2, <3>1 DEF RemoversKnow
  <2>2. CASE d = c
    <3>1. call'[d] = x /\ Tree!CountForRemove(c)
      BY <1>1, <1>2, <2>2
    <3>2. PICK old : old = call[c] /\ old \in Callers /\ old.pc = "check"
      BY <1>1, <3>1 DEF Tree!CountForRemove, Tree!At
    <3>3. /\ Tree!Children(old.stance) = {}
          /\ call' = [call EXCEPT ![c].pc = "write", ![c].seen = Tree!Live]
      <4>1. ~Tree!Done(c)
        <5>1. Tree!Done(c) => x = Tree!Idle
          BY <1>1 DEF Tree!Done
        <5> QED BY <1>2, <2>2, <3>1, <5>1 DEF Tree!Idle
      <4> QED BY <3>1, <3>2, <4>1 DEF Tree!CountForRemove
    <3>4. x.seen = Tree!Live /\ x.stance = old.stance
      BY <1>1, <3>2, <3>3 DEF Callers
    <3>5. \A s \in Tree!Live : row[s].parent # x.stance
      BY <3>3, <3>4 DEF Tree!Children
    <3> QED BY <3>1, <3>4, <3>5 DEF ParentsAreThere, Tree!Live
  <2> QED BY <2>1, <2>2
<1>3. ASSUME NEW d \in Calls, call'[d].op = "remove", call'[d].pc = "write", NEW s \in call'[d].seen, s \in Stances
      PROVE  row'[s].status # "NONE"
  BY <1>2, <1>3 DEF Grows
<1>4. ASSUME NEW d \in Calls, call'[d].op = "remove", call'[d].pc = "write", NEW s \in call'[d].seen \cap Tree!Live'
      PROVE  /\ row'[s].parent # call'[d].stance
             /\ row'[s].parent = Tree!NoStance \/ row'[s].parent \in call'[d].seen
  <2>1. row[s].status # "NONE"
    BY <1>1, <1>2, <1>4
  <2>2. s \in Tree!Live /\ row'[s].parent = row[s].parent
    BY <1>4, <2>1 DEF Grows
  <2> QED BY <1>2, <1>4, <2>2
<1> QED BY <1>3, <1>4 DEF RemoversKnow

\* What a removal takes along came after it counted.
LEMMA TakesNewcomers ==
    ASSUME TreeTypes, ParentsAreThere, RemoversKnow, NEW c \in Calls, Tree!Delete(c), NEW s \in Tree!Live \ Tree!Live'
    PROVE  /\ s \notin proposed /\ \A p \in Posts : post[p] # s
           /\ call[c].op = "remove" /\ call'[c].op = "none"
           /\ s = call[c].stance \/ s \notin call[c].seen
<1>1. PICK gone : gone = IF call[c].stance \in Tree!Live THEN Tree!Below(call[c].stance) ELSE {}
  OBVIOUS
<1>2. s \in gone /\ gone \cap proposed = {} /\ \A p \in Posts : post[p] \notin gone
  <2>1. \/ /\ row' = [t \in Stances |-> IF t \in gone THEN [Tree!NoRow EXCEPT !.status = "GONE"] ELSE row[t]]
           /\ gone \cap proposed = {} /\ \A p \in Posts : post[p] \notin gone
        \/ row' = row
    BY <1>1 DEF Tree!Delete
  <2>2. row'[s] # row[s] /\ s \in Stances
    BY DEF Tree!Live
  <2> QED BY <2>1, <2>2
<1>3. call[c].op = "remove" /\ call[c].pc = "write" /\ call'[c] = Tree!Idle
  BY DEF Tree!Delete, Tree!At, Tree!Done, TreeTypes
<1>4. s \in call[c].seen => s = call[c].stance
  <2>1. PICK root, seen : root = call[c].stance /\ seen = call[c].seen
    OBVIOUS
  <2>2. s \in Tree!Below(root) /\ root \in Tree!Live
    BY <1>1, <1>2, <2>1
  <2>3. PICK S : S = (Stances \ seen) \cup {root}
    OBVIOUS
  <2>4. ASSUME NEW b \in S, NEW t \in Tree!Children(b) PROVE t \in S
    <3>1. t \in Tree!Live /\ row[t].parent = b /\ t \in Stances /\ b \in Stances
      BY <2>2, <2>3 DEF Tree!Children, Tree!Live
    <3>2. t \in seen => b # root /\ (b = Tree!NoStance \/ b \in seen)
      BY <1>3, <2>1, <3>1 DEF RemoversKnow
    <3>3. b # Tree!NoStance
      BY <3>1, TreeAssumption DEF Tree!NoStance
    <3> QED BY <2>3, <3>1, <3>2, <3>3
  <2>5. S \in SUBSET Stances /\ root \in S /\ Tree!Closed(S)
    BY <2>2, <2>3, <2>4 DEF Tree!Closed, Tree!Live
  <2>6. s \in S
    BY <2>2, <2>5 DEF Tree!Below
  <2> QED BY <2>1, <2>3, <2>6
<1> QED BY <1>2, <1>3, <1>4 DEF Tree!Idle

\* Reports of a stance that is down came late.
LEMMA ReportsStayLate ==
    ASSUME TreeTypes, Stages, Tree!OpenReportsAreLate, NEW c \in Calls,
           Tree!CallStep(c) \/ \E op \in Tree!Ops, s \in Stances \cup {Tree!NoStance}, u \in Members, p \in Posts :
                                   Tree!Request(c, op, s, u, p)
    PROVE  report' \in [Stances \X Members -> {"NONE", "OPEN", "RESOLVED"}] /\ Tree!OpenReportsAreLate'
<1>1. /\ row \in [Stances -> [parent : Stances \cup {Tree!NoStance}, depth : Int, status : Statuses]]
      /\ report \in [Stances \X Members -> {"NONE", "OPEN", "RESOLVED"}]
      /\ \A y \in Stances \X Members : report[y] = "OPEN" /\ row[y[1]].status = "TAKEN_DOWN" => y \in lateReport
  BY DEF TreeTypes, Tree!OpenReportsAreLate
<1>2. CASE /\ row' = row /\ report' = report /\ lateReport' = lateReport
  BY <1>1, <1>2 DEF Tree!OpenReportsAreLate
<1>3. CASE Tree!Publish(c) \/ Tree!Resolve(c)
  <2>1. report' = report /\ lateReport' = lateReport
    BY <1>3 DEF Tree!Publish, Tree!Resolve
  <2>2. CASE row' = row
    BY <1>2, <2>1, <2>2
  <2>3. CASE row' # row
    <3>1. PICK p : Tree!AddStance(p)
      BY <1>3, <2>3 DEF Tree!Publish, Tree!Resolve
    <3>2. PICK s \in Tree!Unused :
              row' = [row EXCEPT ![s] = [parent |-> p, depth |-> IF p = Tree!NoStance THEN 0 ELSE row[p].depth + 1,
                                         status |-> "ACTIVE"]]
      BY <3>1 DEF Tree!AddStance
    <3>3. \A t \in Stances : row'[t].status = "TAKEN_DOWN" => row[t].status = "TAKEN_DOWN"
      BY <1>1, <3>2
    <3> QED BY <1>1, <2>1, <3>3 DEF Tree!OpenReportsAreLate
  <2> QED BY <2>2, <2>3
<1>4. CASE Tree!Delete(c)
  <2>1. CASE row' = row /\ report' = report /\ lateReport' = lateReport
    BY <1>2, <2>1
  <2>2. CASE ~(row' = row /\ report' = report /\ lateReport' = lateReport)
    <3> DEFINE gone == IF call[c].stance \in Tree!Live THEN Tree!Below(call[c].stance) ELSE {}
    <3>1. /\ row' = [s \in Stances |-> IF s \in gone THEN [Tree!NoRow EXCEPT !.status = "GONE"] ELSE row[s]]
          /\ report' = [y \in Stances \X Members |-> IF y[1] \in gone THEN "NONE" ELSE report[y]]
          /\ lateReport' = {y \in lateReport : y[1] \notin gone}
      BY <1>4, <2>2, Zenon DEF Tree!Delete
    <3> HIDE DEF gone
    <3>2. report' \in [Stances \X Members -> {"NONE", "OPEN", "RESOLVED"}]
      BY <1>1, <3>1
    <3>3. ASSUME NEW y \in Stances \X Members, report'[y] = "OPEN", row'[y[1]].status = "TAKEN_DOWN"
          PROVE  y \in lateReport'
      <4>1. y[1] \notin gone /\ y[1] \in Stances
        BY <3>1, <3>3
      <4>2. report[y] = "OPEN" /\ row[y[1]].status = "TAKEN_DOWN"
        BY <3>1, <3>3, <4>1
      <4> QED BY <1>1, <3>1, <4>1, <4>2
    <3> QED BY <3>2, <3>3 DEF Tree!OpenReportsAreLate
  <2> QED BY <2>1, <2>2
<1>5. CASE Tree!WriteReport(c)
  <2>1. PICK s, y : s = call[c].stance /\ y = <<s, call[c].member>>
    OBVIOUS
  <2>2. CASE report' = report /\ lateReport' = lateReport
    BY <1>2, <1>5, <2>2 DEF Tree!WriteReport
  <2>3. CASE ~(report' = report /\ lateReport' = lateReport)
    <3>1. /\ row' = row /\ report' = [report EXCEPT ![y] = "OPEN"]
          /\ lateReport' = IF Tree!Active(s) THEN lateReport ELSE lateReport \cup {y}
      BY <1>5, <2>1, <2>3 DEF Tree!WriteReport
    <3>2. y[1] = s
      BY <2>1
    <3>3. report' \in [Stances \X Members -> {"NONE", "OPEN", "RESOLVED"}]
      BY <1>1, <3>1
    <3>4. ASSUME NEW z \in Stances \X Members, report'[z] = "OPEN", row'[z[1]].status = "TAKEN_DOWN"
          PROVE  z \in lateReport'
      <4>1. CASE z = y
        BY <3>1, <3>2, <3>4, <4>1 DEF Tree!Active
      <4>2. CASE z # y
        BY <1>1, <3>1, <3>4, <4>2
      <4> QED BY <4>1, <4>2
    <3> QED BY <3>3, <3>4 DEF Tree!OpenReportsAreLate
  <2> QED BY <2>2, <2>3
<1>6. CASE Tree!Takedown(c)
  <2>1. PICK s : s = call[c].stance
    OBVIOUS
  <2>2. CASE row' = row /\ report' = report /\ lateReport' = lateReport
    BY <1>2, <2>2
  <2>3. CASE ~(row' = row /\ report' = report /\ lateReport' = lateReport)
    <3>1. /\ row' = [row EXCEPT ![s].status = "TAKEN_DOWN"]
          /\ report' = [y \in Stances \X Members |->
                            IF y[1] = s /\ report[y] = "OPEN" THEN "RESOLVED" ELSE report[y]]
          /\ lateReport' = {y \in lateReport : y[1] # s}
      BY <1>6, <2>1, <2>3 DEF Tree!Takedown
    <3>2. report' \in [Stances \X Members -> {"NONE", "OPEN", "RESOLVED"}]
      BY <1>1, <3>1
    <3>3. ASSUME NEW y \in Stances \X Members, report'[y] = "OPEN", row'[y[1]].status = "TAKEN_DOWN"
          PROVE  y \in lateReport'
      <4>1. y[1] # s /\ report[y] = "OPEN"
        BY <3>1, <3>3
      <4>2. row[y[1]].status = "TAKEN_DOWN"
        BY <1>1, <3>1, <3>3, <4>1
      <4> QED BY <1>1, <3>1, <4>1, <4>2
    <3> QED BY <3>2, <3>3 DEF Tree!OpenReportsAreLate
  <2> QED BY <2>2, <2>3
<1>7. CASE Tree!Restore(c)
  <2>1. PICK s : s = call[c].stance /\ s \in Stances
    BY <1>7 DEF Tree!Restore, Tree!At, Stages
  <2>2. /\ row' = IF s \in Tree!Live THEN [row EXCEPT ![s].status = "ACTIVE"] ELSE row
        /\ report' = report /\ lateReport' = {y \in lateReport : y[1] # s}
    BY <1>7, <2>1 DEF Tree!Restore
  <2>3. ASSUME NEW y \in Stances \X Members, report'[y] = "OPEN", row'[y[1]].status = "TAKEN_DOWN"
        PROVE  y \in lateReport'
    <3>1. row'[s].status # "TAKEN_DOWN"
      BY <1>1, <2>1, <2>2 DEF Tree!Live
    <3>2. y[1] # s
      BY <2>3, <3>1
    <3>3. row[y[1]].status = "TAKEN_DOWN"
      BY <1>1, <2>1, <2>2, <2>3, <3>2
    <3> QED BY <1>1, <2>2, <2>3, <3>2, <3>3
  <2> QED BY <1>1, <2>2, <2>3 DEF Tree!OpenReportsAreLate
<1>8. CASE \/ Tree!CheckTarget(c) \/ Tree!Submit(c) \/ Tree!CountForRemove(c) \/ Tree!CheckReported(c)
           \/ Tree!FindReport(c) \/ Tree!Close(c) \/ Tree!CheckPost(c) \/ Tree!CreatePost(c)
           \/ Tree!FindLike(c) \/ Tree!WriteLike(c) \/ Tree!CountLike(c) \/ Tree!Abandon(c)
  BY <1>2, <1>8 DEF Tree!CheckTarget, Tree!Submit, Tree!CountForRemove, Tree!CheckReported, Tree!FindReport,
     Tree!Close, Tree!CheckPost, Tree!CreatePost, Tree!FindLike, Tree!WriteLike, Tree!CountLike, Tree!Abandon, Tree!rows
<1>9. CASE \E op \in Tree!Ops, s \in Stances \cup {Tree!NoStance}, u \in Members, p \in Posts :
               Tree!Request(c, op, s, u, p)
  BY <1>2, <1>9 DEF Tree!Request, Tree!rows
<1> QED BY <1>3, <1>4, <1>5, <1>6, <1>7, <1>8, <1>9 DEF Tree!CallStep

Owing(requests, p, stage) == {c \in Calls : requests[c].post = p /\ requests[c].pc = stage}
Liked(their, p) == {y \in their : y[2] = p}
Balanced ==
    \A p \in Posts : likeCount[p] + Cardinality(Owing(call, p, "increment")) + drift[p]
                         = Cardinality(Liked(likes, p)) + Cardinality(Owing(call, p, "decrement"))

LEMMA Balance == Tree!LikeCountsFollowLikes <=> Balanced
<1>1. \A S : Tree!Cardinality(S) = Cardinality(S)
  BY Zenon DEF Tree!Cardinality, Cardinality
<1>2. ASSUME NEW p \in Posts
      PROVE  /\ Tree!Cardinality({c \in Calls : call[c].post = p /\ call[c].pc = "increment"}) =
                    Cardinality(Owing(call, p, "increment"))
             /\ Tree!Cardinality({c \in Calls : call[c].post = p /\ call[c].pc = "decrement"}) =
                    Cardinality(Owing(call, p, "decrement"))
             /\ Tree!Cardinality({y \in likes : y[2] = p}) = Cardinality(Liked(likes, p))
  BY <1>1, Zenon DEF Owing, Liked
<1> QED BY <1>2, Zenon DEF Tree!LikeCountsFollowLikes, Balanced

\* What one request owes before and after it moves.
LEMMA OwingMoves ==
    ASSUME NEW then \in [Calls -> Callers], NEW c \in Calls, NEW x \in Callers, NEW now \in [Calls -> Callers],
           \A d \in Calls : now[d] = IF d = c THEN x ELSE then[d],
           NEW p, NEW stage
    PROVE  /\ Cardinality(Owing(then, p, stage)) \in Nat /\ Cardinality(Owing(now, p, stage)) \in Nat
           /\ (then[c].post = p /\ then[c].pc = stage) /\ ~(x.post = p /\ x.pc = stage) =>
                  Cardinality(Owing(now, p, stage)) = Cardinality(Owing(then, p, stage)) - 1
           /\ ~(then[c].post = p /\ then[c].pc = stage) /\ (x.post = p /\ x.pc = stage) =>
                  Cardinality(Owing(now, p, stage)) = Cardinality(Owing(then, p, stage)) + 1
           /\ ~(then[c].post = p /\ then[c].pc = stage) /\ ~(x.post = p /\ x.pc = stage) =>
                  Cardinality(Owing(now, p, stage)) = Cardinality(Owing(then, p, stage))
<1>1. PICK others : others = {d \in Calls \ {c} : then[d].post = p /\ then[d].pc = stage}
  OBVIOUS
<1>2. others \subseteq Calls /\ c \notin others
  BY <1>1
<1>3. IsFiniteSet(others) /\ Cardinality(others) \in Nat
  BY <1>2, TreeAssumption, FS_Subset, FS_CardinalityType
<1>4. Cardinality(others \cup {c}) = Cardinality(others) + 1
  BY <1>2, <1>3, FS_AddElement
<1>5. Owing(then, p, stage) = IF then[c].post = p /\ then[c].pc = stage THEN others \cup {c} ELSE others
  BY <1>1 DEF Owing
<1>6. Owing(now, p, stage) = IF x.post = p /\ x.pc = stage THEN others \cup {c} ELSE others
  BY <1>1 DEF Owing
<1> QED BY <1>3, <1>4, <1>5, <1>6

\* The requests that neither owe an update nor will, and change no count.
LEMMA OthersBalance ==
    ASSUME TreeTypes, Balanced, NEW c \in Calls, NEW x \in Callers, call' = [call EXCEPT ![c] = x],
           call[c].pc \notin {"increment", "decrement"}, x.pc \notin {"increment", "decrement"},
           likes' = likes, likeCount' = likeCount, drift' = drift
    PROVE  Balanced'
<1>1. ASSUME NEW p \in Posts, NEW stage \in {"increment", "decrement"}
      PROVE  Owing(call', p, stage) = Owing(call, p, stage) /\ Liked(likes', p) = Liked(likes, p)
  BY DEF TreeTypes, Owing, Liked
<1> QED BY <1>1 DEF Balanced

LEMMA LikesBalance ==
    ASSUME TreeTypes, Stages, OnePerMember, Balanced, NEW c \in Calls, Tree!WriteLike(c)
    PROVE  likes' \in SUBSET LikeRows /\ IsFiniteSet(likes') /\ OnePerMember' /\ Balanced'
<1>1. /\ likes \in SUBSET LikeRows /\ IsFiniteSet(likes) /\ likeCount \in [Posts -> Int] /\ drift \in [Posts -> Int]
      /\ call \in [Calls -> Callers] /\ likeCount' = likeCount /\ drift' = drift
      /\ \A y, z \in likes : y[1] = z[1] /\ y[2] = z[2] => y = z
  BY DEF TreeTypes, Tree!WriteLike, OnePerMember
<1>2. PICK old, mine : old = call[c] /\ mine = old.post /\ old \in Callers /\ mine \in Posts /\ old.member \in Members
                       /\ old.id \in Nat /\ old.pc \in {"like", "unlike"}
  BY <1>1 DEF TreeTypes, Tree!WriteLike, Callers
<1>3. \A p : IsFiniteSet(Liked(likes, p)) /\ Cardinality(Liked(likes, p)) \in Nat
  <2>1. \A p : Liked(likes, p) \subseteq likes
    BY DEF Liked
  <2> QED BY <1>1, <2>1, FS_Subset, FS_CardinalityType
<1>8. PICK then, now, more : then = call /\ now = call' /\ more = likes'
  OBVIOUS
<1>4. CASE Tree!Done(c) /\ likes' = likes
  <2>1. Tree!Idle \in Callers /\ Tree!Idle.pc = "idle"
    BY DEF Tree!Idle, Tree!NoStance, Callers
  <2>2. call' = [call EXCEPT ![c] = Tree!Idle]
    BY <1>4 DEF Tree!Done
  <2>3. PICK x : x = Tree!Idle
    OBVIOUS
  <2>4. Balanced'
    BY <1>1, <1>2, <1>4, <2>1, <2>2, <2>3, OthersBalance
  <2> QED BY <1>1, <1>4, <2>4 DEF OnePerMember
<1>5. CASE Tree!OwnLikes(c) = {} /\ likes' = likes \cup {Tree!NewLike(c)} /\ Tree!Goto(c, "increment")
  <2>1. PICK new : new = <<old.member, mine, old.id>>
    OBVIOUS
  <2>2. likes' = likes \cup {new} /\ new[1] = old.member /\ new[2] = mine /\ new \in LikeRows
    BY <1>2, <1>5, <2>1 DEF Tree!NewLike, LikeRows
  <2>3. \A y \in likes : ~(y[1] = new[1] /\ y[2] = new[2])
    BY <1>2, <1>5, <2>2 DEF Tree!OwnLikes
  <2>4. new \notin likes
    BY <2>3
  <2>5. IsFiniteSet(likes')
    BY <1>1, <2>2, FS_AddElement
  <2>6. OnePerMember'
    BY <1>1, <2>2, <2>3 DEF OnePerMember
  <2>7. PICK x : x = [old EXCEPT !.pc = "increment"]
    OBVIOUS
  <2>8. x \in Callers /\ x.post = mine /\ x.pc = "increment" /\ call' = [call EXCEPT ![c] = x]
    BY <1>2, <1>5, <2>7 DEF Callers, Tree!Goto
  <2>11. then \in [Calls -> Callers] /\ now \in [Calls -> Callers]
    BY <1>1, <1>8, <2>8
  <2>12. \A d \in Calls : now[d] = IF d = c THEN x ELSE then[d]
    BY <1>1, <1>8, <2>8
  <2>14. then[c] = old
    BY <1>2, <1>8
  <2>13. ASSUME NEW p, NEW stage
         PROVE  /\ Cardinality(Owing(then, p, stage)) \in Nat /\ Cardinality(Owing(now, p, stage)) \in Nat
                /\ (then[c].post = p /\ then[c].pc = stage) /\ ~(x.post = p /\ x.pc = stage) =>
                       Cardinality(Owing(now, p, stage)) = Cardinality(Owing(then, p, stage)) - 1
                /\ ~(then[c].post = p /\ then[c].pc = stage) /\ (x.post = p /\ x.pc = stage) =>
                       Cardinality(Owing(now, p, stage)) = Cardinality(Owing(then, p, stage)) + 1
                /\ ~(then[c].post = p /\ then[c].pc = stage) /\ ~(x.post = p /\ x.pc = stage) =>
                       Cardinality(Owing(now, p, stage)) = Cardinality(Owing(then, p, stage))
    BY <2>8, <2>11, <2>12, OwingMoves
  <2>9. ASSUME NEW p \in Posts
        PROVE  likeCount[p] + Cardinality(Owing(now, p, "increment")) + drift[p]
                   = Cardinality(Liked(more, p)) + Cardinality(Owing(now, p, "decrement"))
    <3>1. PICK one \in {0, 1} : one = IF p = mine THEN 1 ELSE 0
      OBVIOUS
    <3>2. /\ Cardinality(Owing(then, p, "increment")) \in Nat /\ Cardinality(Owing(now, p, "increment")) \in Nat
          /\ Cardinality(Owing(now, p, "increment")) = Cardinality(Owing(then, p, "increment")) + one
      BY <1>2, <2>8, <2>14, <2>13, <3>1
    <3>3. /\ Cardinality(Owing(then, p, "decrement")) \in Nat /\ Cardinality(Owing(now, p, "decrement")) \in Nat
          /\ Cardinality(Owing(now, p, "decrement")) = Cardinality(Owing(then, p, "decrement"))
      BY <1>2, <2>8, <2>14, <2>13, <3>1
    <3>4. Cardinality(Liked(more, p)) = Cardinality(Liked(likes, p)) + one
      <4>1. CASE p = mine
        <5>1. Liked(more, p) = Liked(likes, p) \cup {new} /\ new \notin Liked(likes, p)
          BY <1>8, <2>2, <2>4, <4>1 DEF Liked
        <5> QED BY <1>3, <3>1, <4>1, <5>1, FS_AddElement
      <4>2. CASE p # mine
        <5>1. Liked(more, p) = Liked(likes, p)
          BY <1>8, <2>2, <4>2 DEF Liked
        <5> QED BY <1>3, <3>1, <4>2, <5>1
      <4> QED BY <4>1, <4>2
    <3>5. likeCount[p] \in Int /\ drift[p] \in Int /\ Cardinality(Liked(likes, p)) \in Nat
      BY <1>1, <1>3
    <3>6. likeCount[p] + Cardinality(Owing(then, p, "increment")) + drift[p]
              = Cardinality(Liked(likes, p)) + Cardinality(Owing(then, p, "decrement"))
      BY <1>8 DEF Balanced
    <3> QED BY <3>2, <3>3, <3>4, <3>5, <3>6
  <2>10. Balanced'
    BY <1>1, <1>8, <2>9 DEF Balanced
  <2> QED BY <1>1, <2>2, <2>5, <2>6, <2>10
<1>6. CASE old.pc = "unlike" /\ old.seen \subseteq likes /\ likes' = likes \ old.seen /\ Tree!Goto(c, "decrement")
  <2>1. PICK former \in LikeRows : old.seen = {former} /\ former[2] = mine
    BY <1>2, <1>6 DEF Stages
  <2>2. former \in likes /\ likes' = likes \ {former}
    BY <1>6, <2>1
  <2>3. IsFiniteSet(likes')
    BY <1>1, <2>2, FS_RemoveElement
  <2>4. OnePerMember'
    BY <1>1, <2>2 DEF OnePerMember
  <2>5. PICK x : x = [old EXCEPT !.pc = "decrement"]
    OBVIOUS
  <2>6. x \in Callers /\ x.post = mine /\ x.pc = "decrement" /\ call' = [call EXCEPT ![c] = x]
    BY <1>2, <1>6, <2>5 DEF Callers, Tree!Goto
  <2>11. then \in [Calls -> Callers] /\ now \in [Calls -> Callers]
    BY <1>1, <1>8, <2>6
  <2>12. \A d \in Calls : now[d] = IF d = c THEN x ELSE then[d]
    BY <1>1, <1>8, <2>6
  <2>14. then[c] = old
    BY <1>2, <1>8
  <2>13. ASSUME NEW p, NEW stage
         PROVE  /\ Cardinality(Owing(then, p, stage)) \in Nat /\ Cardinality(Owing(now, p, stage)) \in Nat
                /\ (then[c].post = p /\ then[c].pc = stage) /\ ~(x.post = p /\ x.pc = stage) =>
                       Cardinality(Owing(now, p, stage)) = Cardinality(Owing(then, p, stage)) - 1
                /\ ~(then[c].post = p /\ then[c].pc = stage) /\ (x.post = p /\ x.pc = stage) =>
                       Cardinality(Owing(now, p, stage)) = Cardinality(Owing(then, p, stage)) + 1
                /\ ~(then[c].post = p /\ then[c].pc = stage) /\ ~(x.post = p /\ x.pc = stage) =>
                       Cardinality(Owing(now, p, stage)) = Cardinality(Owing(then, p, stage))
    BY <2>6, <2>11, <2>12, OwingMoves
  <2>7. ASSUME NEW p \in Posts
        PROVE  likeCount[p] + Cardinality(Owing(now, p, "increment")) + drift[p]
                   = Cardinality(Liked(more, p)) + Cardinality(Owing(now, p, "decrement"))
    <3>1. PICK one \in {0, 1} : one = IF p = mine THEN 1 ELSE 0
      OBVIOUS
    <3>2. /\ Cardinality(Owing(then, p, "increment")) \in Nat /\ Cardinality(Owing(now, p, "increment")) \in Nat
          /\ Cardinality(Owing(now, p, "increment")) = Cardinality(Owing(then, p, "increment"))
      BY <1>2, <2>6, <2>14, <2>13, <3>1
    <3>3. /\ Cardinality(Owing(then, p, "decrement")) \in Nat /\ Cardinality(Owing(now, p, "decrement")) \in Nat
          /\ Cardinality(Owing(now, p, "decrement")) = Cardinality(Owing(then, p, "decrement")) + one
      BY <1>2, <2>6, <2>14, <2>13, <3>1
    <3>4. Cardinality(Liked(more, p)) = Cardinality(Liked(likes, p)) - one /\ Cardinality(Liked(likes, p)) \in Nat
      <4>1. CASE p = mine
        <5>1. Liked(more, p) = Liked(likes, p) \ {former} /\ former \in Liked(likes, p)
          BY <1>8, <2>1, <2>2, <4>1 DEF Liked
        <5>2. Cardinality(Liked(likes, p) \ {former}) = Cardinality(Liked(likes, p)) - 1
          BY <1>3, <5>1, FS_RemoveElement
        <5> QED BY <1>3, <3>1, <4>1, <5>1, <5>2
      <4>2. CASE p # mine
        <5>1. Liked(more, p) = Liked(likes, p)
          BY <1>8, <2>1, <2>2, <4>2 DEF Liked
        <5> QED BY <1>3, <3>1, <4>2, <5>1
      <4> QED BY <4>1, <4>2
    <3>5. likeCount[p] \in Int /\ drift[p] \in Int
      BY <1>1
    <3>6. likeCount[p] + Cardinality(Owing(then, p, "increment")) + drift[p]
              = Cardinality(Liked(likes, p)) + Cardinality(Owing(then, p, "decrement"))
      BY <1>8 DEF Balanced
    <3> QED BY <3>2, <3>3, <3>4, <3>5, <3>6
  <2>8. Balanced'
    BY <1>1, <1>8, <2>7 DEF Balanced
  <2> QED BY <1>1, <2>2, <2>3, <2>4, <2>8
<1>7. \/ Tree!Done(c) /\ likes' = likes
      \/ Tree!OwnLikes(c) = {} /\ likes' = likes \cup {Tree!NewLike(c)} /\ Tree!Goto(c, "increment")
      \/ old.pc = "unlike" /\ old.seen \subseteq likes /\ likes' = likes \ old.seen /\ Tree!Goto(c, "decrement")
  BY <1>2 DEF Tree!WriteLike
<1> QED BY <1>4, <1>5, <1>6, <1>7

\* An update that is owed is made, or lost on the way.
LEMMA DebtsArePaid ==
    ASSUME TreeTypes, Stages, Balanced, NEW c \in Calls, Tree!CountLike(c) \/ Tree!Abandon(c)
    PROVE  likeCount' \in [Posts -> Int] /\ drift' \in [Posts -> Int] /\ likes' = likes /\ Balanced'
<1>1. /\ likeCount \in [Posts -> Int] /\ drift \in [Posts -> Int] /\ likes' = likes
      /\ call \in [Calls -> Callers] /\ call' = [call EXCEPT ![c] = Tree!Idle]
      /\ likes \in SUBSET LikeRows /\ IsFiniteSet(likes)
  BY DEF TreeTypes, Tree!CountLike, Tree!Abandon, Tree!Done
<1>2. PICK old, mine : old = call[c] /\ mine = old.post /\ old \in Callers /\ mine \in Posts
  BY <1>1 DEF TreeTypes, Tree!CountLike, Tree!Abandon, Callers
<1>3. PICK x \in Callers : x = Tree!Idle /\ x.pc = "idle"
  <2>1. Tree!Idle \in Callers /\ Tree!Idle.pc = "idle"
    BY DEF Tree!Idle, Tree!NoStance, Callers
  <2> QED BY <2>1
<1>4. CASE old.pc \notin {"increment", "decrement"}
  <2>1. likeCount' = likeCount /\ drift' = drift
    BY <1>1, <1>2, <1>4 DEF Tree!CountLike, Tree!Abandon
  <2>2. call' = [call EXCEPT ![c] = x]
    BY <1>1, <1>3
  <2>3. Balanced'
    BY <1>1, <1>2, <1>3, <1>4, <2>1, <2>2, OthersBalance
  <2> QED BY <1>1, <2>1, <2>3
<1>5. CASE old.pc \in {"increment", "decrement"}
  <2>1. PICK change \in {1, -1} : change = IF old.pc = "increment" THEN 1 ELSE -1
    OBVIOUS
  <2>2. \/ likeCount' = [likeCount EXCEPT ![mine] = @ + change] /\ drift' = drift
        \/ drift' = [drift EXCEPT ![mine] = @ + change] /\ likeCount' = likeCount
    <3>1. CASE Tree!CountLike(c)
      <4>1. likeCount' = [likeCount EXCEPT ![mine] = IF old.pc = "increment" THEN @ + 1 ELSE @ - 1] /\ drift' = drift
        BY <1>2, <3>1 DEF Tree!CountLike
      <4> QED BY <1>1, <1>2, <2>1, <4>1
    <3>2. CASE Tree!Abandon(c)
      <4>1. /\ drift' = [drift EXCEPT ![mine] = IF old.pc = "increment" THEN @ + 1
                                               ELSE IF old.pc = "decrement" THEN @ - 1 ELSE @]
            /\ likeCount' = likeCount
        BY <1>2, <3>2 DEF Tree!Abandon
      <4> QED BY <1>1, <1>2, <1>5, <2>1, <4>1
    <3> QED BY <3>1, <3>2
  <2>3. likeCount' \in [Posts -> Int] /\ drift' \in [Posts -> Int]
    BY <1>1, <1>2, <2>2
  <2>4. ASSUME NEW p \in Posts
        PROVE  likeCount'[p] + drift'[p] = likeCount[p] + drift[p] + (IF p = mine THEN change ELSE 0)
    BY <1>1, <1>2, <2>2
  <2>5. PICK then, now : then = call /\ now = call'
    OBVIOUS
  <2>6. then \in [Calls -> Callers] /\ now \in [Calls -> Callers]
    BY <1>1, <1>3, <2>5
  <2>7. \A d \in Calls : now[d] = IF d = c THEN x ELSE then[d]
    BY <1>1, <1>3, <2>5
  <2>8. ASSUME NEW p, NEW stage
        PROVE  /\ Cardinality(Owing(then, p, stage)) \in Nat /\ Cardinality(Owing(now, p, stage)) \in Nat
               /\ (then[c].post = p /\ then[c].pc = stage) /\ ~(x.post = p /\ x.pc = stage) =>
                      Cardinality(Owing(now, p, stage)) = Cardinality(Owing(then, p, stage)) - 1
               /\ ~(then[c].post = p /\ then[c].pc = stage) /\ (x.post = p /\ x.pc = stage) =>
                      Cardinality(Owing(now, p, stage)) = Cardinality(Owing(then, p, stage)) + 1
               /\ ~(then[c].post = p /\ then[c].pc = stage) /\ ~(x.post = p /\ x.pc = stage) =>
                      Cardinality(Owing(now, p, stage)) = Cardinality(Owing(then, p, stage))
    BY <2>6, <2>7, OwingMoves
  <2>9. then[c] = old
    BY <1>2, <2>5
  <2>10. ASSUME NEW p \in Posts
         PROVE  likeCount'[p] + Cardinality(Owing(now, p, "increment")) + drift'[p]
                    = Cardinality(Liked(likes, p)) + Cardinality(Owing(now, p, "decrement"))
    <3>1. PICK inc, dec \in {0, 1} : /\ inc = IF p = mine /\ old.pc = "increment" THEN 1 ELSE 0
                                     /\ dec = IF p = mine /\ old.pc = "decrement" THEN 1 ELSE 0
      OBVIOUS
    <3>2. /\ Cardinality(Owing(then, p, "increment")) \in Nat /\ Cardinality(Owing(now, p, "increment")) \in Nat
          /\ Cardinality(Owing(now, p, "increment")) = Cardinality(Owing(then, p, "increment")) - inc
      BY <1>2, <1>3, <2>8, <2>9, <3>1
    <3>3. /\ Cardinality(Owing(then, p, "decrement")) \in Nat /\ Cardinality(Owing(now, p, "decrement")) \in Nat
          /\ Cardinality(Owing(now, p, "decrement")) = Cardinality(Owing(then, p, "decrement")) - dec
      BY <1>2, <1>3, <2>8, <2>9, <3>1
    <3>4. likeCount'[p] + drift'[p] = likeCount[p] + drift[p] + inc - dec
      BY <1>1, <1>5, <2>1, <2>4, <3>1
    <3>5. /\ likeCount[p] \in Int /\ drift[p] \in Int /\ likeCount'[p] \in Int /\ drift'[p] \in Int
          /\ Cardinality(Liked(likes, p)) \in Nat
      <4>1. Liked(likes, p) \subseteq likes
        BY DEF Liked
      <4> QED BY <1>1, <2>3, <4>1, FS_Subset, FS_CardinalityType
    <3>6. likeCount[p] + Cardinality(Owing(then, p, "increment")) + drift[p]
              = Cardinality(Liked(likes, p)) + Cardinality(Owing(then, p, "decrement"))
      BY <2>5 DEF Balanced
    <3>7. PICK a, b, m, k \in Int : /\ a = Cardinality(Owing(then, p, "increment"))
                                    /\ b = Cardinality(Owing(then, p, "decrement"))
                                    /\ m = Cardinality(Liked(likes, p)) /\ k = likeCount'[p]
      BY <3>2, <3>3, <3>5
    <3>8. k + (a - inc) + drift'[p] = m + (b - dec)
      BY <3>1, <3>4, <3>5, <3>6, <3>7
    <3> QED BY <3>2, <3>3, <3>7, <3>8
  <2>11. Balanced'
    BY <1>1, <2>5, <2>10 DEF Balanced
  <2> QED BY <1>1, <2>3, <2>11
<1> QED BY <1>4, <1>5

LEMMA QuietForLikes ==
    ASSUME TreeTypes, Stages, NEW c \in Calls,
           Tree!CallStep(c) \/ \E op \in Tree!Ops, s \in Stances \cup {Tree!NoStance}, u \in Members, p \in Posts :
                                   Tree!Request(c, op, s, u, p)
    PROVE  /\ \/ Tree!WriteLike(c) \/ Tree!CountLike(c) \/ Tree!Abandon(c)
              \/ /\ likes' = likes /\ likeCount' = likeCount /\ drift' = drift
                 /\ call[c].pc \notin {"like", "unlike", "increment", "decrement"}
           /\ called' \in {called, called + 1}
<1>1. CASE \/ Tree!CheckTarget(c) \/ Tree!CountForRemove(c) \/ Tree!CheckReported(c) \/ Tree!FindReport(c)
           \/ Tree!CheckPost(c) \/ Tree!FindLike(c)
  BY <1>1 DEF Tree!CheckTarget, Tree!CountForRemove, Tree!CheckReported, Tree!FindReport, Tree!CheckPost,
     Tree!FindLike, Tree!At, Tree!rows
<1>2. CASE Tree!Submit(c) \/ Tree!Publish(c) \/ Tree!Resolve(c)
  BY <1>2 DEF Tree!Submit, Tree!Publish, Tree!Resolve, Tree!At
<1>3. CASE Tree!Delete(c)
  BY <1>3 DEF Tree!Delete, Tree!At
<1>4. CASE Tree!WriteReport(c) \/ Tree!Takedown(c) \/ Tree!Restore(c) \/ Tree!Close(c) \/ Tree!CreatePost(c)
  BY <1>4 DEF Tree!WriteReport, Tree!Takedown, Tree!Restore, Tree!Close, Tree!CreatePost, Tree!At
<1>5. CASE Tree!WriteLike(c) \/ Tree!CountLike(c) \/ Tree!Abandon(c)
  BY <1>5 DEF Tree!WriteLike, Tree!CountLike, Tree!Abandon
<1>6. CASE \E op \in Tree!Ops, s \in Stances \cup {Tree!NoStance}, u \in Members, p \in Posts :
               Tree!Request(c, op, s, u, p)
  BY <1>6 DEF Tree!Request, Tree!rows
<1> QED BY <1>1, <1>2, <1>3, <1>4, <1>5, <1>6 DEF Tree!CallStep

LEMMA TreeStep ==
    ASSUME TreeInv, NEW c \in Calls,
           Tree!CallStep(c) \/ \E op \in Tree!Ops, s \in Stances \cup {Tree!NoStance}, u \in Members, p \in Posts :
                                   Tree!Request(c, op, s, u, p)
    PROVE  /\ TreeInv'
           /\ \A s \in Tree!Live \ Tree!Live' :
                  /\ s \notin proposed /\ \A p \in Posts : post[p] # s
                  /\ call[c].op = "remove" /\ call'[c].op = "none"
                  /\ s = call[c].stance \/ s \notin call[c].seen
<1>1. TreeTypes /\ Stages /\ OnePerMember /\ ParentsAreThere /\ RemoversKnow /\ Tree!OpenReportsAreLate /\ Balanced
  BY Balance DEF TreeInv
<1>2. PICK x \in Callers :
          /\ call' = [call EXCEPT ![c] = x]
          /\ x.pc # "idle" => x.post \in Posts /\ x.member \in Members
          /\ x.pc \in {"like", "unlike", "increment", "decrement"} => x.op = "like"
          /\ x.op = "like" => x.pc \in {"check", "like", "unlike", "increment", "decrement"}
          /\ x.op \in {"remove", "post", "report", "takedown", "restore"} => x.stance \in Stances
          /\ x.op = "remove" /\ x.pc = "write" => Tree!CountForRemove(c)
          /\ x.pc \in {"like", "unlike"} => Tree!FindLike(c)
          /\ x.pc \in {"increment", "decrement"} => Tree!WriteLike(c)
  BY <1>1, Moves
<1>3. call \in [Calls -> Callers] /\ call' \in [Calls -> Callers] /\ call'[c] = x /\ \A d \in Calls \ {c} : call'[d] = call[d]
  BY <1>1, <1>2 DEF TreeTypes
<1>4. \/ row' = row
      \/ \E p \in Tree!Live \cup {Tree!NoStance} : Tree!AddStance(p)
      \/ \E s \in Tree!Live, to \in {"ACTIVE", "TAKEN_DOWN"} : row' = [row EXCEPT ![s].status = to]
      \/ Tree!Delete(c)
  <2>1. \/ row' = row
        \/ Tree!Done(c) /\ \E p \in Tree!Live \cup {Tree!NoStance} : Tree!AddStance(p)
        \/ Tree!Done(c) /\ \E s \in Tree!Live, to \in {"ACTIVE", "TAKEN_DOWN"} :
                               row' = [row EXCEPT ![s].status = to]
        \/ Tree!Delete(c)
    BY <1>1, RowsChange
  <2> QED BY <2>1
<1>5. /\ row' \in [Stances -> [parent : Stances \cup {Tree!NoStance}, depth : Int, status : Statuses]]
      /\ Grows /\ ParentsAreThere' /\ (~Tree!Delete(c) => Tree!Live \subseteq Tree!Live')
  BY <1>1, <1>4, RowsGrow
<1>6. RemoversKnow'
  BY <1>1, <1>2, <1>5, RemoversStay
<1>7. report' \in [Stances \X Members -> {"NONE", "OPEN", "RESOLVED"}] /\ Tree!OpenReportsAreLate'
  BY <1>1, ReportsStayLate
<1>8. /\ \/ Tree!WriteLike(c) \/ Tree!CountLike(c) \/ Tree!Abandon(c)
         \/ /\ likes' = likes /\ likeCount' = likeCount /\ drift' = drift
            /\ call[c].pc \notin {"like", "unlike", "increment", "decrement"}
      /\ called' \in {called, called + 1}
  BY <1>1, QuietForLikes
<1>9. /\ likes' \in SUBSET LikeRows /\ IsFiniteSet(likes') /\ likeCount' \in [Posts -> Int] /\ drift' \in [Posts -> Int]
      /\ OnePerMember' /\ Balanced'
  <2>1. CASE Tree!WriteLike(c)
    <3>1. likes' \in SUBSET LikeRows /\ IsFiniteSet(likes') /\ OnePerMember' /\ Balanced'
      BY <1>1, <2>1, LikesBalance
    <3>2. likeCount' = likeCount /\ drift' = drift
      BY <2>1 DEF Tree!WriteLike
    <3> QED BY <1>1, <3>1, <3>2 DEF TreeTypes
  <2>2. CASE Tree!CountLike(c) \/ Tree!Abandon(c)
    <3>1. likeCount' \in [Posts -> Int] /\ drift' \in [Posts -> Int] /\ likes' = likes /\ Balanced'
      BY <1>1, <2>2, DebtsArePaid
    <3> QED BY <1>1, <3>1 DEF TreeTypes, OnePerMember
  <2>3. CASE /\ likes' = likes /\ likeCount' = likeCount /\ drift' = drift
             /\ call[c].pc \notin {"like", "unlike", "increment", "decrement"}
    <3>1. ~Tree!WriteLike(c)
      BY <2>3 DEF Tree!WriteLike
    <3>2. call' = [call EXCEPT ![c] = x] /\ x.pc \notin {"increment", "decrement"}
      BY <1>2, <3>1
    <3>3. Balanced'
      BY <1>1, <2>3, <3>2, OthersBalance
    <3> QED BY <1>1, <2>3, <3>3 DEF TreeTypes, OnePerMember
  <2> QED BY <1>8, <2>1, <2>2, <2>3
<1>10. TreeTypes'
  <2>1. called' \in Nat
    BY <1>1, <1>8 DEF TreeTypes
  <2>2. \A d \in Calls : call'[d].pc # "idle" => call'[d].post \in Posts /\ call'[d].member \in Members
    BY <1>1, <1>2, <1>3 DEF TreeTypes
  <2> QED BY <1>3, <1>5, <1>7, <1>9, <2>1, <2>2 DEF TreeTypes
<1>11. Stages'
  <2>1. x.pc = "unlike" => \E y \in LikeRows : x.seen = {y} /\ y[2] = x.post
    <3>1. SUFFICES ASSUME x.pc = "unlike" PROVE \E y \in LikeRows : x.seen = {y} /\ y[2] = x.post
      OBVIOUS
    <3>2. PICK own : own = Tree!OwnLikes(c)
      OBVIOUS
    <3>3. PICK old : old = call[c] /\ old \in Callers
      BY <1>3
    <3>4. PICK stage : /\ stage = IF own = {} THEN "like" ELSE "unlike"
                       /\ call' = [call EXCEPT ![c].pc = stage, ![c].seen = own]
      BY <1>2, <3>1, <3>2 DEF Tree!FindLike
    <3>5. x.pc = stage /\ x.seen = own /\ x.post = old.post
      <4>1. x = [old EXCEPT !.pc = stage, !.seen = own]
        BY <1>3, <3>3, <3>4
      <4> QED BY <3>3, <4>1 DEF Callers
    <3>6. PICK y \in own : TRUE
      BY <3>1, <3>4, <3>5
    <3>7. \A z \in own : z \in likes /\ z[1] = old.member /\ z[2] = old.post
      BY <3>2, <3>3 DEF Tree!OwnLikes
    <3>8. own = {y}
      BY <1>1, <3>6, <3>7 DEF OnePerMember
    <3>9. y \in LikeRows
      BY <1>1, <3>6, <3>7 DEF TreeTypes
    <3> QED BY <3>5, <3>6, <3>7, <3>8, <3>9
  <2>2. ASSUME NEW d \in Calls
        PROVE  /\ call'[d].pc \in {"like", "unlike", "increment", "decrement"} => call'[d].op = "like"
               /\ call'[d].op = "like" => call'[d].pc \in {"check", "like", "unlike", "increment", "decrement"}
               /\ call'[d].op \in {"remove", "post", "report", "takedown", "restore"} => call'[d].stance \in Stances
               /\ call'[d].pc = "unlike" => \E y \in LikeRows : call'[d].seen = {y} /\ y[2] = call'[d].post
    <3>1. CASE d = c
      BY <1>2, <1>3, <2>1, <3>1
    <3>2. CASE d # c
      <4>1. call'[d] = call[d]
        BY <1>3, <3>2
      <4> QED BY <1>1, <4>1 DEF Stages
    <3> QED BY <3>1, <3>2
  <2> QED BY <2>2 DEF Stages
<1>12. Tree!LikeCountsFollowLikes'
  BY <1>9, Balance, PTL
<1>13. TreeInv'
  BY <1>5, <1>6, <1>7, <1>9, <1>10, <1>11, <1>12 DEF TreeInv
<1>14. ASSUME NEW s \in Tree!Live \ Tree!Live'
       PROVE  /\ s \notin proposed /\ \A p \in Posts : post[p] # s
              /\ call[c].op = "remove" /\ call'[c].op = "none"
              /\ s = call[c].stance \/ s \notin call[c].seen
  <2>1. Tree!Delete(c)
    BY <1>5
  <2> QED BY <1>1, <2>1, TakesNewcomers
<1> QED BY <1>13, <1>14

LEMMA TreeInit == ASSUME Tree!Init PROVE TreeInv
<1>1. /\ row \in [Stances -> [parent : Stances \cup {Tree!NoStance}, depth : 0..MaxDepth, status : {"NONE", "ACTIVE"}]]
      /\ Tree!Imported(row)
  BY DEF Tree!Init
<1>2. /\ report = [y \in Stances \X Members |-> "NONE"] /\ likes = {} /\ likeCount = [p \in Posts |-> 0]
      /\ drift = [p \in Posts |-> 0] /\ call = [c \in Calls |-> Tree!Idle] /\ called = 0
  BY DEF Tree!Init
<1>3. Tree!Idle \in Callers /\ Tree!Idle.pc = "idle" /\ Tree!Idle.op = "none"
  BY DEF Tree!Idle, Tree!NoStance, Callers
<1>4. TreeTypes
  <2>1. row \in [Stances -> [parent : Stances \cup {Tree!NoStance}, depth : Int, status : Statuses]]
    BY <1>1 DEF Statuses
  <2> QED BY <1>2, <1>3, <2>1, FS_EmptySet DEF TreeTypes
<1>5. Stages /\ RemoversKnow
  BY <1>2, <1>3 DEF Stages, RemoversKnow
<1>6. ParentsAreThere
  <2>1. ASSUME NEW s \in Tree!Live PROVE row[s].parent = Tree!NoStance \/ row[s].parent \in Tree!Live
    <3>1. s \in Stances /\ row[s].status # "NONE" /\ row[s].parent \in Stances \cup {Tree!NoStance}
      BY <1>1 DEF Tree!Live
    <3>2. row[s].parent = Tree!NoStance \/ row[row[s].parent].status = "ACTIVE"
      BY <1>1, <3>1 DEF Tree!Imported
    <3> QED BY <3>1, <3>2 DEF Tree!Live
  <2> QED BY <2>1 DEF ParentsAreThere
<1>7. Tree!OpenReportsAreLate
  BY <1>2 DEF Tree!OpenReportsAreLate
<1>8. Balanced
  <2>1. ASSUME NEW p \in Posts
        PROVE  likeCount[p] + Cardinality(Owing(call, p, "increment")) + drift[p]
                   = Cardinality(Liked(likes, p)) + Cardinality(Owing(call, p, "decrement"))
    <3>1. Liked(likes, p) = {} /\ Owing(call, p, "increment") = {} /\ Owing(call, p, "decrement") = {}
      BY <1>2, <1>3 DEF Liked, Owing
    <3>2. Cardinality({}) = 0 /\ likeCount[p] = 0 /\ drift[p] = 0
      BY <1>2, FS_EmptySet
    <3> QED BY <3>1, <3>2
  <2> QED BY <2>1 DEF Balanced
<1> QED BY <1>2, <1>4, <1>5, <1>6, <1>7, <1>8, Balance DEF TreeInv, OnePerMember

LEMMA TreeInvariant == StancesSpec => []TreeInv
<1>1. StancesInit => TreeInv
  BY TreeInit DEF StancesInit
<1>2. ASSUME TreeInv, [StancesNext]_<<scope, vars, treeVars, sessionVars, pageVars>> PROVE TreeInv'
  <2>1. CASE Tree!Next
    <3>1. PICK c \in Calls : Tree!CallStep(c) \/ \E op \in Tree!Ops, s \in Stances \cup {Tree!NoStance}, u \in Members,
                                                    p \in Posts : Tree!Request(c, op, s, u, p)
      BY <2>1 DEF Tree!Next
    <3> QED BY <1>2, <3>1, TreeStep
  <2>2. CASE UNCHANGED treeVars
    <3>1. Balanced => Balanced'
      BY <2>2 DEF Balanced, treeVars
    <3>2. Tree!LikeCountsFollowLikes'
      BY <1>2, <3>1, Balance, PTL DEF TreeInv
    <3>3. TreeTypes' /\ Stages' /\ OnePerMember' /\ ParentsAreThere' /\ RemoversKnow' /\ Tree!OpenReportsAreLate'
      BY <1>2, <2>2 DEF TreeInv, treeVars, TreeTypes, Stages, OnePerMember, ParentsAreThere, RemoversKnow,
         Tree!OpenReportsAreLate, Tree!Live
    <3> QED BY <3>2, <3>3 DEF TreeInv
  <2> QED BY <1>2, <2>1, <2>2 DEF StancesNext
<1> QED BY <1>1, <1>2, PTL DEF StancesSpec

\* remove (stances.service.ts) counts what hangs on a stance before it deletes it, and the deletion
\* cascades: whatever it takes along in spite of the count was placed there meanwhile, for any number
\* of requests in any order; and what a proposal names or somebody discusses is never lost.
THEOREM RemovalsAreOfNewcomers == StancesSpec => RemovalsTakeOnlyNewcomers
<1> DEFINE Newcomers == \A s \in Tree!Live \ Tree!Live' :
                            /\ s \notin proposed /\ \A p \in Posts : post[p] # s
                            /\ \E c \in Calls : /\ call[c].op = "remove" /\ call'[c].op = "none"
                                                /\ s = call[c].stance \/ s \notin call[c].seen
<1>1. ASSUME TreeInv, [StancesNext]_<<scope, vars, treeVars, sessionVars, pageVars>> PROVE [Newcomers]_(Tree!vars)
  <2>1. CASE Tree!Next
    <3>1. PICK c \in Calls : Tree!CallStep(c) \/ \E op \in Tree!Ops, s \in Stances \cup {Tree!NoStance}, u \in Members,
                                                    p \in Posts : Tree!Request(c, op, s, u, p)
      BY <2>1 DEF Tree!Next
    <3> QED BY <1>1, <3>1, TreeStep
  <2>2. CASE UNCHANGED treeVars
    BY <2>2 DEF treeVars, Tree!vars, Tree!rows
  <2> QED BY <1>1, <2>1, <2>2 DEF StancesNext
<1>2. StancesSpec => [][Newcomers]_(Tree!vars)
  BY <1>1, TreeInvariant, PTL DEF StancesSpec
<1> QED BY <1>2 DEF RemovalsTakeOnlyNewcomers, Tree!RemovalsTakeOnlyNewcomers

-----------------------------------------------------------------------------
(***************************************************************************)
(* The discussion: what the page shows settles, because of each of its     *)
(* lists the last read that is under way answers what the page shows, or a *)
(* change that another read will follow is under way.                      *)
(***************************************************************************)
PostLists == (UNION {[S -> [liked : BOOLEAN, replies : Nat]] : S \in SUBSET Nat}) \cup {<<>>}
PageReads == {"posts", "comments"}
PageRequests ==
    [op : PageReads \cup {"post", "reply", "like"}, about : StanceIds \cup Nat \cup {None}, text : Nat \cup {None},
     ends : BOOLEAN, then : BOOLEAN, overtaken : BOOLEAN, answer : PostLists \cup (SUBSET Nat) \cup {None}]

WellAsked(r) ==
    /\ r.ends => r.op = "posts"
    /\ r.then => r.op = "comments"
    /\ r.op = "posts" => r.answer \in PostLists \cup {None}
    /\ r.op = "comments" => r.answer \in (SUBSET Nat) \cup {None}
    /\ r.op = "post" => r.about \in StanceIds /\ r.text \in Nat
    /\ r.op = "reply" => r.about \in Nat \cup {None} /\ r.text = r.about

Pages == [stance : StanceIds, posts : PostLists, open : Nat \cup {None}, comments : SUBSET Nat,
          newPost : Nat \cup {None}, newComment : Nat \cup {None}, posting : BOOLEAN]

PageTypes ==
    /\ posts \in Seq([stance : StanceIds, text : Nat, liked : BOOLEAN])
    /\ comments \in Seq([post : Nat \cup {None}, typed : Nat \cup {None}])
    /\ page \in Pages
    /\ reads \in Seq(PageRequests)
    /\ \A i \in 1..Len(reads) : WellAsked(reads[i])

\* The last read of a list among the requests.
LastOf(q, list, k) == q[k].op = list /\ \A j \in 1..Len(q) : j > k => q[j].op # list

\* A request that has changed a list, or may have, and will be followed by a read of it.
Owes(r, list) ==
    \/ r.op \in (IF list = "posts" THEN {"post", "reply", "like"} ELSE {"reply"}) /\ r.answer # None
    \/ list = "posts" /\ r.then

\* A read that the page will not be told of, or that answers, or will answer, what is current.
KeepsUp(r, where, current) ==
    \/ r.overtaken
    \/ r.then /\ r.about # where
    \/ r.about = where /\ r.answer \in {None, current}

\* With the requests q under way, a list is shown for the place where, is stored as current, and the
\* page has not been told of the lists in untold.
Follows(q, list, where, shown, current, untold) ==
    \/ \E k \in 1..Len(q) : Owes(q[k], list)
    \/ /\ \A k \in 1..Len(q) :
              LastOf(q, list, k) => KeepsUp(q[k], where, current)
       /\ (\A k \in 1..Len(q) : q[k].op # list) => list \in untold \/ shown = current

PostsFollow == Follows(reads, "posts", page.stance, page.posts, Below!ListPosts(page.stance), missed)
RepliesFollow ==
    page.open = None \/ Follows(reads, "comments", page.open, page.comments, Below!ListComments(page.open), missed)

\* The button is released by the request that it waits for, and there is one.
HoldsButton(r) == r.op = "post" \/ r.ends
Held(q, posting) ==
    /\ posting <=> \E i \in 1..Len(q) : HoldsButton(q[i])
    /\ \A i, j \in 1..Len(q) : HoldsButton(q[i]) /\ HoldsButton(q[j]) => i = j

\* With that many posts stored and the requests q under way, the text typed and the one sent are of the next post.
NextText(q, stored, typed) ==
    /\ \A i \in 1..Len(q) : q[i].op = "post" /\ q[i].answer = None => typed = stored + 1 /\ q[i].text = stored + 1
    /\ typed \in {None, stored + 1} \/ \E i \in 1..Len(q) : q[i].op = "post" /\ q[i].answer # None

ButtonIsHeld == Held(reads, page.posting)
RepliesBelong ==
    page.newComment \in {None, page.open} /\ \A c \in 1..Len(comments) : comments[c].post = comments[c].typed
TextsAreNew ==
    ~lost => (\A p \in 1..Len(posts) : posts[p].text = p) /\ NextText(reads, Len(posts), page.newPost)

PageInv == PageTypes /\ PostsFollow /\ RepliesFollow /\ ButtonIsHeld /\ RepliesBelong /\ TextsAreNew

-----------------------------------------------------------------------------
\* What remains of q when request i is answered, possibly with more reads overtaken than before.
From(i, k) == IF k < i THEN k ELSE k + 1
Alike(r, s) ==
    /\ r.op = s.op /\ r.about = s.about /\ r.text = s.text /\ r.ends = s.ends /\ r.then = s.then
    /\ r.answer = s.answer /\ (s.overtaken => r.overtaken)
RemainsOf(q, i, rest) ==
    /\ rest \in Seq(PageRequests) /\ Len(rest) = Len(q) - 1
    /\ \A k \in 1..Len(rest) : Alike(rest[k], q[From(i, k)])

LEMMA Cutting ==
    ASSUME NEW S, NEW q \in Seq(S), NEW i \in 1..Len(q)
    PROVE  /\ SubSeq(q, 1, i - 1) \in Seq(S) /\ Len(SubSeq(q, 1, i - 1)) = i - 1
           /\ \A k \in 1..(i - 1) : SubSeq(q, 1, i - 1)[k] = q[k]
           /\ SubSeq(q, i + 1, Len(q)) \in Seq(S) /\ Len(SubSeq(q, i + 1, Len(q))) = Len(q) - i
           /\ \A k \in 1..(Len(q) - i) : SubSeq(q, i + 1, Len(q))[k] = q[i + k]
OBVIOUS

LEMMA Joining ==
    ASSUME NEW S, NEW a \in Seq(S), NEW b \in Seq(S)
    PROVE  /\ a \o b \in Seq(S) /\ Len(a \o b) = Len(a) + Len(b)
           /\ \A k \in 1..Len(a) : (a \o b)[k] = a[k]
           /\ \A k \in 1..Len(b) : (a \o b)[Len(a) + k] = b[k]
OBVIOUS

LEMMA Overtaking ==
    ASSUME NEW q \in Seq(PageRequests), NEW ops
    PROVE  /\ Below!Overtake(q, ops) \in Seq(PageRequests) /\ Len(Below!Overtake(q, ops)) = Len(q)
           /\ \A k \in 1..Len(q) : /\ Alike(Below!Overtake(q, ops)[k], q[k])
                                   /\ q[k].op \in ops => Below!Overtake(q, ops)[k].overtaken
<1> DEFINE o_ == Below!Overtake(q, ops)
<1>1. \A k \in 1..Len(q) : q[k] \in PageRequests
  OBVIOUS
<1>2. o_ = [k \in 1..Len(q) |-> IF q[k].op \in ops THEN [q[k] EXCEPT !.overtaken = TRUE] ELSE q[k]]
  BY DEF Below!Overtake
<1>3. \A k \in 1..Len(q) : o_[k] \in PageRequests /\ Alike(o_[k], q[k]) /\ (q[k].op \in ops => o_[k].overtaken)
  <2> SUFFICES ASSUME NEW k \in 1..Len(q)
               PROVE  o_[k] \in PageRequests /\ Alike(o_[k], q[k]) /\ (q[k].op \in ops => o_[k].overtaken)
    OBVIOUS
  <2>1. q[k] \in PageRequests
    BY <1>1
  <2>2. o_[k] = IF q[k].op \in ops THEN [q[k] EXCEPT !.overtaken = TRUE] ELSE q[k]
    BY <1>2
  <2> HIDE DEF o_
  <2> QED BY ZenonT(60), <2>1, <2>2 DEF PageRequests, Alike
<1>4. o_ \in [1..Len(q) -> PageRequests]
  BY <1>2, <1>3
<1>5. o_ \in Seq(PageRequests) /\ Len(o_) = Len(q)
  BY <1>4
<1> QED BY <1>3, <1>5

LEMMA Remaining ==
    ASSUME reads \in Seq(PageRequests), NEW i \in 1..Len(reads)
    PROVE  /\ RemainsOf(reads, i, Below!Others(i))
           /\ \A k \in 1..Len(Below!Others(i)) :
                  k < i /\ Below!Others(i)[k].op = reads[i].op => Below!Others(i)[k].overtaken
<1> DEFINE before == SubSeq(reads, 1, i - 1)
           marked == Below!Overtake(before, {reads[i].op})
           after == SubSeq(reads, i + 1, Len(reads))
<1>1. /\ before \in Seq(PageRequests) /\ Len(before) = i - 1 /\ \A k \in 1..(i - 1) : before[k] = reads[k]
      /\ after \in Seq(PageRequests) /\ Len(after) = Len(reads) - i /\ \A k \in 1..(Len(reads) - i) : after[k] = reads[i + k]
  BY Cutting
<1> HIDE DEF before, after
<1>2. /\ marked \in Seq(PageRequests) /\ Len(marked) = i - 1
      /\ \A k \in 1..(i - 1) : Alike(marked[k], before[k]) /\ (before[k].op = reads[i].op => marked[k].overtaken)
  BY <1>1, Overtaking
<1>3. Below!Others(i) = marked \o after
  BY DEF Below!Others, before, after
<1> HIDE DEF marked
<1>4. /\ marked \o after \in Seq(PageRequests) /\ Len(marked \o after) = Len(reads) - 1
      /\ \A k \in 1..(i - 1) : (marked \o after)[k] = marked[k]
      /\ \A k \in 1..(Len(reads) - i) : (marked \o after)[i - 1 + k] = after[k]
  BY <1>1, <1>2, Joining
<1>5. ASSUME NEW k \in 1..(Len(reads) - 1)
      PROVE  /\ Alike((marked \o after)[k], reads[From(i, k)])
             /\ k < i /\ (marked \o after)[k].op = reads[i].op => (marked \o after)[k].overtaken
  <2>1. CASE k < i
    <3>1. k \in 1..(i - 1)
      BY <2>1
    <3>2. (marked \o after)[k] = marked[k] /\ before[k] = reads[k]
      BY <1>1, <1>4, <3>1
    <3>3. Alike(marked[k], before[k]) /\ (before[k].op = reads[i].op => marked[k].overtaken)
      BY <1>2, <3>1
    <3> QED BY <2>1, <3>2, <3>3 DEF From, Alike
  <2>2. CASE ~(k < i)
    <3>1. k - i + 1 \in 1..(Len(reads) - i) /\ i - 1 + (k - i + 1) = k /\ i + (k - i + 1) = k + 1
      BY <2>2
    <3>2. (marked \o after)[i - 1 + (k - i + 1)] = after[k - i + 1] /\ after[k - i + 1] = reads[i + (k - i + 1)]
      BY <1>1, <1>4, <3>1
    <3>3. (marked \o after)[k] = reads[k + 1]
      BY <3>1, <3>2
    <3> QED BY <2>2, <3>3 DEF From, Alike
  <2> QED BY <2>1, <2>2
<1> QED BY <1>3, <1>4, <1>5 DEF RemainsOf

LEMMA WithoutOne ==
    ASSUME reads \in Seq(PageRequests), NEW i \in 1..Len(reads), NEW ops
    PROVE  /\ RemainsOf(reads, i, Below!Without(i))
           /\ RemainsOf(reads, i, Below!Overtake(Below!Without(i), ops))
           /\ \A k \in 1..(Len(reads) - 1) : Below!Overtake(Below!Without(i), ops)[k].op \in ops =>
                                             Below!Overtake(Below!Without(i), ops)[k].overtaken
<1> DEFINE before == SubSeq(reads, 1, i - 1)
           after == SubSeq(reads, i + 1, Len(reads))
           rest == before \o after
<1>1. /\ before \in Seq(PageRequests) /\ Len(before) = i - 1 /\ \A k \in 1..(i - 1) : before[k] = reads[k]
      /\ after \in Seq(PageRequests) /\ Len(after) = Len(reads) - i /\ \A k \in 1..(Len(reads) - i) : after[k] = reads[i + k]
  BY Cutting
<1>2. Below!Without(i) = rest
  BY DEF Below!Without, Below!RemoveAt
<1> HIDE DEF before, after
<1>3. /\ rest \in Seq(PageRequests) /\ Len(rest) = Len(reads) - 1
      /\ \A k \in 1..(i - 1) : rest[k] = before[k]
      /\ \A k \in 1..(Len(reads) - i) : rest[i - 1 + k] = after[k]
  BY <1>1, Joining
<1> HIDE DEF rest
<1>4. ASSUME NEW k \in 1..(Len(reads) - 1) PROVE rest[k] = reads[From(i, k)]
  <2>1. CASE k < i
    BY <1>1, <1>3, <2>1 DEF From
  <2>2. CASE ~(k < i)
    <3>1. k - i + 1 \in 1..(Len(reads) - i) /\ i - 1 + (k - i + 1) = k /\ i + (k - i + 1) = k + 1
      BY <2>2
    <3>2. rest[i - 1 + (k - i + 1)] = after[k - i + 1] /\ after[k - i + 1] = reads[i + (k - i + 1)]
      BY <1>1, <1>3, <3>1
    <3> QED BY <2>2, <3>1, <3>2 DEF From
  <2> QED BY <2>1, <2>2
<1>5. RemainsOf(reads, i, rest)
  BY <1>3, <1>4 DEF RemainsOf, Alike
<1>6. /\ Below!Overtake(rest, ops) \in Seq(PageRequests) /\ Len(Below!Overtake(rest, ops)) = Len(rest)
      /\ \A k \in 1..Len(rest) : /\ Alike(Below!Overtake(rest, ops)[k], rest[k])
                                 /\ rest[k].op \in ops => Below!Overtake(rest, ops)[k].overtaken
  BY <1>3, Overtaking
<1>7. RemainsOf(reads, i, Below!Overtake(rest, ops))
  BY <1>3, <1>4, <1>6 DEF RemainsOf, Alike
<1> QED BY <1>2, <1>3, <1>5, <1>6, <1>7 DEF Alike

LEMMA Appending ==
    ASSUME NEW S, NEW q \in Seq(S), NEW r \in S
    PROVE  /\ Append(q, r) \in Seq(S) /\ Len(Append(q, r)) = Len(q) + 1
           /\ Append(q, r)[Len(q) + 1] = r
           /\ \A k \in 1..Len(q) : Append(q, r)[k] = q[k]
OBVIOUS

\* A read that is sent last and asks for what the page shows.
LEMMA FollowsNewRead ==
    ASSUME NEW q \in Seq(PageRequests), NEW r \in PageRequests, NEW list, NEW where, NEW shown, NEW current, NEW untold,
           r.op = list, r.answer = None, r.about = where \/ r.then
    PROVE  Follows(Append(q, r), list, where, shown, current, untold)
<1> DEFINE a_ == Append(q, r)
<1>1. Len(a_) = Len(q) + 1 /\ a_[Len(q) + 1] = r
  BY Appending
<1> HIDE DEF a_
<1>2. Len(q) \in Nat
  OBVIOUS
<1>3. ASSUME NEW k \in 1..Len(a_), LastOf(a_, list, k)
      PROVE  KeepsUp(a_[k], where, current)
  <2>1. k = Len(q) + 1
    BY <1>1, <1>2, <1>3 DEF LastOf
  <2> QED BY <1>1, <2>1 DEF KeepsUp
<1>4. ~\A k \in 1..Len(a_) : a_[k].op # list
  BY <1>1, <1>2
<1> QED BY <1>3, <1>4 DEF Follows, a_

\* Any other request that is sent.
LEMMA FollowsNewRequest ==
    ASSUME NEW q \in Seq(PageRequests), NEW r \in PageRequests, NEW list, NEW where, NEW shown, NEW current, NEW untold,
           Follows(q, list, where, shown, current, untold), r.op # list
    PROVE  Follows(Append(q, r), list, where, shown, current, untold)
<1> DEFINE a_ == Append(q, r)
<1>1. Len(a_) = Len(q) + 1 /\ a_[Len(q) + 1] = r /\ \A k \in 1..Len(q) : a_[k] = q[k]
  BY Appending
<1> HIDE DEF a_
<1>2. Len(q) \in Nat
  OBVIOUS
<1>3. CASE \E k \in 1..Len(q) : Owes(q[k], list)
  <2>1. PICK k \in 1..Len(q) : Owes(q[k], list)
    BY <1>3
  <2>2. k \in 1..Len(a_) /\ a_[k] = q[k]
    BY <1>1, <1>2
  <2>3. \E m \in 1..Len(a_) : Owes(a_[m], list)
    BY <2>1, <2>2
  <2> QED BY <2>3 DEF Follows, a_
<1>4. CASE ~\E k \in 1..Len(q) : Owes(q[k], list)
  <2>1. ASSUME NEW k \in 1..Len(a_), LastOf(a_, list, k)
        PROVE  KeepsUp(a_[k], where, current)
    <3>1. k \in 1..Len(q) /\ a_[k] = q[k]
      BY <1>1, <1>2, <2>1 DEF LastOf
    <3>2. \A j \in 1..Len(q) : j \in 1..Len(a_) /\ a_[j] = q[j]
      BY <1>1, <1>2
    <3>3. LastOf(q, list, k)
      BY <2>1, <3>1, <3>2 DEF LastOf
    <3> QED BY <1>4, <3>1, <3>3 DEF Follows
  <2>2. ASSUME \A k \in 1..Len(a_) : a_[k].op # list PROVE list \in untold \/ shown = current
    <3>1. \A k \in 1..Len(q) : q[k].op # list
      BY <1>1, <1>2, <2>2
    <3> QED BY <1>4, <3>1 DEF Follows
  <2> QED BY <2>1, <2>2 DEF Follows, a_
<1> QED BY <1>3, <1>4

\* A request that is answered, or fails, and owes the list nothing: one that does not read it, or a read
\* of it, that overtakes those sent before.
LEMMA FollowsAnswer ==
    ASSUME NEW q \in Seq(PageRequests), NEW i \in 1..Len(q), NEW rest, RemainsOf(q, i, rest),
           NEW list, NEW where, NEW shown, NEW current, NEW untold, NEW seen, NEW still,
           ~Owes(q[i], list), Follows(q, list, where, shown, current, untold),
           \/ q[i].op # list /\ seen = shown /\ (list \in untold => list \in still)
           \/ /\ q[i].op = list /\ \A k \in 1..Len(rest) : k < i /\ rest[k].op = list => rest[k].overtaken
              /\ \/ list \in still
                 \/ q[i].answer # None /\ seen = q[i].answer /\ ~q[i].overtaken /\ ~(q[i].then /\ q[i].about # where)
    PROVE  Follows(rest, list, where, seen, current, still)
<1>1. Len(rest) = Len(q) - 1 /\ Len(q) \in Nat /\ i \in Int /\ 1 <= i /\ i <= Len(q)
  BY DEF RemainsOf
<1>2. \A k \in 1..Len(rest) : Alike(rest[k], q[From(i, k)])
  BY DEF RemainsOf
<1>3. \A k \in 1..Len(rest) : From(i, k) \in 1..Len(q)
  BY <1>1 DEF From
<1>4. ASSUME NEW j \in 1..Len(q), j # i
      PROVE  \E k \in 1..Len(rest) : From(i, k) = j
  <2>1. CASE j < i
    BY <1>1, <2>1 DEF From
  <2>2. CASE j > i
    <3>1. j - 1 \in 1..Len(rest) /\ From(i, j - 1) = j
      BY <1>1, <2>2 DEF From
    <3> QED BY <3>1
  <2> QED BY <1>1, <1>4, <2>1, <2>2
<1>5. CASE \E k \in 1..Len(q) : Owes(q[k], list)
  <2>1. PICK j \in 1..Len(q) : Owes(q[j], list)
    BY <1>5
  <2>2. PICK k \in 1..Len(rest) : From(i, k) = j
    BY <1>4, <2>1
  <2>3. Alike(rest[k], q[j])
    BY <1>2, <2>2
  <2>4. Owes(rest[k], list)
    BY <2>1, <2>3 DEF Owes, Alike
  <2> QED BY <2>4 DEF Follows
<1>6. CASE ~\E k \in 1..Len(q) : Owes(q[k], list)
  <2>1. ASSUME NEW k \in 1..Len(rest), LastOf(rest, list, k), ~rest[k].overtaken, q[i].op # list \/ ~(k < i)
        PROVE  LastOf(q, list, From(i, k))
    <3>1. q[From(i, k)].op = list
      BY <1>2, <2>1 DEF LastOf, Alike
    <3>2. ASSUME NEW j \in 1..Len(q), j > From(i, k), j # i PROVE q[j].op # list
      <4>1. PICK m \in 1..Len(rest) : From(i, m) = j
        BY <1>4, <3>2
      <4>2. m > k
        BY <1>1, <3>2, <4>1 DEF From
      <4>3. rest[m].op # list
        BY <2>1, <4>2 DEF LastOf
      <4>4. Alike(rest[m], q[j])
        BY <1>2, <4>1
      <4> QED BY <4>3, <4>4 DEF Alike
    <3>3. i > From(i, k) => q[i].op # list
      BY <1>1, <2>1 DEF From
    <3> QED BY <3>1, <3>2, <3>3 DEF LastOf
  <2>2. ASSUME NEW k \in 1..Len(rest), LastOf(rest, list, k)
        PROVE  KeepsUp(rest[k], where, current)
    <3>1. CASE rest[k].overtaken \/ (q[i].op = list /\ k < i)
      BY <2>2, <3>1 DEF LastOf, KeepsUp
    <3>2. CASE ~rest[k].overtaken /\ (q[i].op # list \/ ~(k < i))
      <4>1. LastOf(q, list, From(i, k)) /\ From(i, k) \in 1..Len(q) /\ Alike(rest[k], q[From(i, k)])
        BY <1>2, <1>3, <2>1, <2>2, <3>2
      <4>2. KeepsUp(q[From(i, k)], where, current)
        BY <1>6, <4>1 DEF Follows
      <4> QED BY <4>1, <4>2 DEF Alike, KeepsUp
    <3> QED BY <3>1, <3>2
  <2>3. ASSUME \A k \in 1..Len(rest) : rest[k].op # list PROVE list \in still \/ seen = current
    <3>1. \A j \in 1..Len(q) : j # i => q[j].op # list
      <4> SUFFICES ASSUME NEW j \in 1..Len(q), j # i PROVE q[j].op # list
        OBVIOUS
      <4>1. PICK k \in 1..Len(rest) : From(i, k) = j
        BY <1>4
      <4> QED BY <1>2, <2>3, <4>1 DEF Alike
    <3>2. CASE q[i].op # list
      BY <1>6, <3>1, <3>2 DEF Follows
    <3>3. CASE q[i].op = list /\ list \notin still
      <4>1. LastOf(q, list, i)
        BY <1>1, <3>1, <3>3 DEF LastOf
      <4>2. KeepsUp(q[i], where, current)
        BY <1>6, <4>1 DEF Follows
      <4> QED BY <3>3, <4>2 DEF KeepsUp
    <3> QED BY <3>2, <3>3
  <2> QED BY <2>2, <2>3 DEF Follows
<1> QED BY <1>5, <1>6

\* Nothing is left of a list but reads that are overtaken.
LEMMA FollowsFailure ==
    ASSUME NEW q, NEW list, NEW where, NEW shown, NEW current, NEW untold,
           \A k \in 1..Len(q) : q[k].op = list => q[k].overtaken, list \in untold
    PROVE  Follows(q, list, where, shown, current, untold)
BY DEF Follows, LastOf, KeepsUp

\* The API serves a request: a read of the list, or a request that leaves it as it is.
LEMMA FollowsService ==
    ASSUME NEW q \in Seq(PageRequests), NEW i \in 1..Len(q), NEW a, q[i].answer = None,
           NEW list, NEW where, NEW shown, NEW current, NEW untold,
           Follows(q, list, where, shown, current, untold),
           q[i].op = list => a = current \/ q[i].about # where
    PROVE  Follows([q EXCEPT ![i].answer = a], list, where, shown, current, untold)
<1> DEFINE s_ == [q EXCEPT ![i].answer = a]
<1>1. /\ Len(s_) = Len(q) /\ Len(q) \in Nat
      /\ \A k \in 1..Len(q) : /\ s_[k].op = q[k].op /\ s_[k].about = q[k].about /\ s_[k].then = q[k].then
                              /\ s_[k].overtaken = q[k].overtaken
                              /\ k # i => s_[k].answer = q[k].answer
      /\ s_[i].answer = a
  <2>1. \A k \in 1..Len(q) : q[k] \in PageRequests
    OBVIOUS
  <2> QED BY <2>1 DEF PageRequests
<1> HIDE DEF s_
<1>2. CASE \E k \in 1..Len(q) : Owes(q[k], list)
  <2>1. PICK k \in 1..Len(q) : Owes(q[k], list)
    BY <1>2
  <2>2. Owes(s_[k], list)
    BY <1>1, <2>1 DEF Owes
  <2> QED BY <1>1, <2>2 DEF Follows, s_
<1>3. CASE ~\E k \in 1..Len(q) : Owes(q[k], list)
  <2>1. ASSUME NEW k \in 1..Len(q), LastOf(s_, list, k)
        PROVE  KeepsUp(s_[k], where, current)
    <3>1. LastOf(q, list, k)
      BY <1>1, <2>1 DEF LastOf
    <3>2. KeepsUp(q[k], where, current)
      BY <1>3, <3>1 DEF Follows
    <3> QED BY <1>1, <3>1, <3>2 DEF LastOf, KeepsUp
  <2>2. (\A k \in 1..Len(s_) : s_[k].op # list) => list \in untold \/ shown = current
    BY <1>1, <1>3 DEF Follows
  <2> QED BY <1>1, <2>1, <2>2 DEF Follows, s_
<1> QED BY <1>2, <1>3

-----------------------------------------------------------------------------
\* The button, and the text of the next post, when a request is sent, served or answered.
LEMMA HeldAfterAsking ==
    ASSUME NEW q \in Seq(PageRequests), NEW r \in PageRequests, NEW posting \in BOOLEAN, Held(q, posting),
           ~(HoldsButton(r) /\ posting)
    PROVE  Held(Append(q, r), posting \/ HoldsButton(r))
<1> DEFINE a_ == Append(q, r)
<1>1. Len(a_) = Len(q) + 1 /\ a_[Len(q) + 1] = r /\ \A k \in 1..Len(q) : a_[k] = q[k]
  BY Appending
<1> HIDE DEF a_
<1>2. Len(q) \in Nat
  OBVIOUS
<1>3. \A k \in 1..Len(a_) : k \in 1..Len(q) \/ k = Len(q) + 1
  BY <1>1, <1>2
<1>4. \A k \in 1..Len(q) : k \in 1..Len(a_) /\ (HoldsButton(q[k]) <=> HoldsButton(a_[k]))
  BY <1>1, <1>2
<1>5. Len(q) + 1 \in 1..Len(a_) /\ (HoldsButton(a_[Len(q) + 1]) <=> HoldsButton(r))
  BY <1>1, <1>2
<1>6. (\E k \in 1..Len(a_) : HoldsButton(a_[k])) <=> (\E k \in 1..Len(q) : HoldsButton(q[k])) \/ HoldsButton(r)
  BY <1>3, <1>4, <1>5
<1>7. \A j, k \in 1..Len(a_) : HoldsButton(a_[j]) /\ HoldsButton(a_[k]) => j = k
  BY <1>3, <1>4, <1>5 DEF Held
<1> QED BY <1>6, <1>7 DEF Held, a_

LEMMA HeldAfterAnswer ==
    ASSUME NEW q \in Seq(PageRequests), NEW i \in 1..Len(q), NEW rest, RemainsOf(q, i, rest),
           NEW posting \in BOOLEAN, Held(q, posting)
    PROVE  Held(rest, posting /\ ~HoldsButton(q[i]))
<1>1. Len(rest) = Len(q) - 1 /\ Len(q) \in Nat /\ i \in Int /\ 1 <= i /\ i <= Len(q)
  BY DEF RemainsOf
<1>2. \A k \in 1..Len(rest) : From(i, k) \in 1..Len(q) /\ From(i, k) # i
  BY <1>1 DEF From
<1>3. \A k \in 1..Len(rest) : HoldsButton(rest[k]) <=> HoldsButton(q[From(i, k)])
  BY DEF RemainsOf, Alike, HoldsButton
<1>4. ASSUME NEW j \in 1..Len(q), j # i PROVE \E k \in 1..Len(rest) : From(i, k) = j
  <2>1. CASE j < i
    BY <1>1, <2>1 DEF From
  <2>2. CASE j > i
    <3>1. j - 1 \in 1..Len(rest) /\ From(i, j - 1) = j
      BY <1>1, <2>2 DEF From
    <3> QED BY <3>1
  <2> QED BY <1>1, <1>4, <2>1, <2>2
<1>5. \A j, k \in 1..Len(rest) : From(i, j) = From(i, k) => j = k
  BY <1>1 DEF From
<1>6. ASSUME NEW j \in 1..Len(rest), NEW k \in 1..Len(rest), HoldsButton(rest[j]), HoldsButton(rest[k]) PROVE j = k
  <2>1. From(i, j) = From(i, k)
    BY <1>2, <1>3, <1>6 DEF Held
  <2> QED BY <1>5, <2>1
<1>7. ASSUME NEW k \in 1..Len(rest), HoldsButton(rest[k]) PROVE posting /\ ~HoldsButton(q[i])
  <2>1. HoldsButton(q[From(i, k)])
    BY <1>3, <1>7
  <2> QED BY <1>2, <2>1 DEF Held
<1>8. ASSUME posting, ~HoldsButton(q[i]) PROVE \E k \in 1..Len(rest) : HoldsButton(rest[k])
  <2>1. PICK j \in 1..Len(q) : HoldsButton(q[j])
    BY <1>8 DEF Held
  <2>2. PICK k \in 1..Len(rest) : From(i, k) = j
    BY <1>4, <1>8, <2>1
  <2> QED BY <1>3, <2>1, <2>2
<1> QED BY <1>6, <1>7, <1>8 DEF Held

LEMMA TextAfterAsking ==
    ASSUME NEW q \in Seq(PageRequests), NEW r \in PageRequests, NEW stored \in Nat, NEW typed, NextText(q, stored, typed),
           r.op = "post" => Held(q, FALSE) /\ typed # None /\ r.text = typed
    PROVE  NextText(Append(q, r), stored, typed)
<1> DEFINE a_ == Append(q, r)
<1>1. Len(a_) = Len(q) + 1 /\ a_[Len(q) + 1] = r /\ \A k \in 1..Len(q) : a_[k] = q[k]
  BY Appending
<1> HIDE DEF a_
<1>2. Len(q) \in Nat
  OBVIOUS
<1>3. \A k \in 1..Len(a_) : k \in 1..Len(q) \/ k = Len(q) + 1
  BY <1>1, <1>2
<1>4. \A k \in 1..Len(q) : k \in 1..Len(a_)
  BY <1>1, <1>2
<1>5. r.op = "post" => typed = stored + 1 /\ r.text = stored + 1
  BY DEF NextText, Held, HoldsButton
<1>6. \A k \in 1..Len(a_) : a_[k].op = "post" /\ a_[k].answer = None => typed = stored + 1 /\ a_[k].text = stored + 1
  BY <1>1, <1>3, <1>5 DEF NextText
<1>7. typed \in {None, stored + 1} \/ \E k \in 1..Len(a_) : a_[k].op = "post" /\ a_[k].answer # None
  BY <1>1, <1>4 DEF NextText
<1> QED BY <1>6, <1>7 DEF NextText, a_

\* The post that is answered is the only one; its text is cleared, or still there if it was refused.
LEMMA TextAfterAnswer ==
    ASSUME NEW q \in Seq(PageRequests), NEW i \in 1..Len(q), NEW rest, RemainsOf(q, i, rest),
           NEW posting, Held(q, posting), NEW stored \in Nat, NEW typed, NEW left, NextText(q, stored, typed),
           IF q[i].op = "post" THEN left = None \/ (left = typed /\ q[i].answer = None) ELSE left = typed
    PROVE  NextText(rest, stored, left)
<1>1. Len(rest) = Len(q) - 1 /\ Len(q) \in Nat /\ i \in Int /\ 1 <= i /\ i <= Len(q)
  BY DEF RemainsOf
<1>2. \A k \in 1..Len(rest) : From(i, k) \in 1..Len(q) /\ From(i, k) # i
  BY <1>1 DEF From
<1>3. \A k \in 1..Len(rest) : /\ rest[k].op = q[From(i, k)].op /\ rest[k].answer = q[From(i, k)].answer
                              /\ rest[k].text = q[From(i, k)].text
  BY DEF RemainsOf, Alike
<1>4. CASE q[i].op = "post"
  <2>1. \A k \in 1..Len(rest) : rest[k].op # "post"
    BY <1>2, <1>3, <1>4 DEF Held, HoldsButton
  <2>2. left \in {None, stored + 1}
    BY <1>4 DEF NextText
  <2> QED BY <2>1, <2>2 DEF NextText
<1>5. CASE q[i].op # "post"
  <2>1. \A k \in 1..Len(rest) : rest[k].op = "post" /\ rest[k].answer = None => typed = stored + 1 /\ rest[k].text = stored + 1
    BY <1>2, <1>3 DEF NextText
  <2>2. ASSUME NEW j \in 1..Len(q), q[j].op = "post", q[j].answer # None
        PROVE  \E k \in 1..Len(rest) : rest[k].op = "post" /\ rest[k].answer # None
    <3>1. CASE j < i
      <4>1. j \in 1..Len(rest) /\ From(i, j) = j
        BY <1>1, <3>1 DEF From
      <4> QED BY <1>3, <2>2, <4>1
    <3>2. CASE j > i
      <4>1. j - 1 \in 1..Len(rest) /\ From(i, j - 1) = j
        BY <1>1, <3>2 DEF From
      <4> QED BY <1>3, <2>2, <4>1
    <3> QED BY <1>1, <1>5, <2>2, <3>1, <3>2
  <2> QED BY <1>5, <2>1, <2>2 DEF NextText
<1> QED BY <1>4, <1>5

LEMMA Elements == \A S : \A q \in Seq(S) : \A k \in 1..Len(q) : q[k] \in S
OBVIOUS

\* What the API lists are lists.
LEMMA ListTypes ==
    ASSUME PageTypes PROVE (\A s : Below!ListPosts(s) \in PostLists) /\ (\A p : Below!ListComments(p) \in SUBSET Nat)
<1>1. posts \in Seq([stance : StanceIds, text : Nat, liked : BOOLEAN]) /\ DOMAIN comments = 1..Len(comments) /\ Len(comments) \in Nat
  BY DEF PageTypes
<1>2. \A p : IsFiniteSet(Below!RepliesTo(p))
  <2>1. \A p : Below!RepliesTo(p) \subseteq 1..Len(comments)
    BY <1>1 DEF Below!RepliesTo
  <2>2. IsFiniteSet(1..Len(comments))
    BY <1>1, FS_Interval
  <2> QED BY <2>1, <2>2, FS_Subset
<1>3. \A p : Below!Cardinality(Below!RepliesTo(p)) \in Nat
  <2>1. \A p : Cardinality(Below!RepliesTo(p)) \in Nat
    BY <1>2, FS_CardinalityType
  <2>2. \A S : Below!Cardinality(S) = Cardinality(S)
    BY Zenon DEF Below!Cardinality, Cardinality
  <2> QED BY <2>1, <2>2
<1>4. ASSUME NEW s PROVE Below!ListPosts(s) \in PostLists
  <2> DEFINE all == {p \in DOMAIN posts : posts[p].stance = s}
             listed == {q \in all : Below!Cardinality({r \in all : r > q}) < PageSize}
  <2>1. Below!ListPosts(s) = [p \in listed |-> [liked |-> posts[p].liked, replies |-> Below!Cardinality(Below!RepliesTo(p))]]
    BY DEF Below!ListPosts
  <2>2. listed \subseteq 1..Len(posts) /\ DOMAIN posts = 1..Len(posts)
    BY <1>1
  <2>3. listed \in SUBSET Nat
    BY <1>1, <2>2
  <2>4. \A p \in listed : posts[p].liked \in BOOLEAN
    <3>1. \A p \in listed : posts[p] \in [stance : StanceIds, text : Nat, liked : BOOLEAN]
      BY <1>1, <2>2, Elements
    <3> QED BY <3>1
  <2> HIDE DEF listed
  <2>5. Below!ListPosts(s) \in [listed -> [liked : BOOLEAN, replies : Nat]]
    BY <1>3, <2>1, <2>4
  <2> QED BY <2>3, <2>5 DEF PostLists
<1>5. \A p : Below!ListComments(p) \in SUBSET Nat
  BY <1>1 DEF Below!ListComments, Below!RepliesTo
<1> QED BY <1>4, <1>5

-----------------------------------------------------------------------------
LEMMA StoredTheSame ==
    ASSUME UNCHANGED <<posts, comments>>
    PROVE  /\ Below!ListPosts(page.stance)' = Below!ListPosts(page'.stance)
           /\ Below!ListComments(page.open)' = Below!ListComments(page'.open)
BY DEF Below!ListPosts, Below!ListComments, Below!RepliesTo

\* The member does something that sends a request.
LEMMA Sends ==
    ASSUME PageInv, UNCHANGED <<posts, comments, missed, lost>>,
           NEW r \in PageRequests, WellAsked(r), r.answer = None, ~r.then, reads' = Append(reads, r),
           page' \in Pages, page'.posts = page.posts, page'.comments = page.comments, page'.newPost = page.newPost,
           page'.newComment \in {None, page'.open},
           page'.posting = (page.posting \/ HoldsButton(r)), ~(HoldsButton(r) /\ page.posting),
           IF r.op = "posts" THEN r.about = page'.stance ELSE page'.stance = page.stance,
           IF r.op = "comments" THEN r.about = page'.open ELSE page'.open = page.open,
           r.op = "post" => r.text = page.newPost /\ r.text # None
    PROVE  PageInv'
<1>1. /\ reads \in Seq(PageRequests) /\ page \in Pages /\ Len(posts) \in Nat
      /\ \A k \in 1..Len(reads) : WellAsked(reads[k])
  BY DEF PageInv, PageTypes
<1>2. /\ reads' \in Seq(PageRequests) /\ Len(reads') = Len(reads) + 1 /\ reads'[Len(reads) + 1] = r
      /\ \A k \in 1..Len(reads) : reads'[k] = reads[k]
  BY <1>1, Appending
<1>3. \A k \in 1..Len(reads') : WellAsked(reads'[k])
  <2>1. \A k \in 1..Len(reads') : k \in 1..Len(reads) \/ k = Len(reads) + 1
    BY <1>1, <1>2
  <2> QED BY <1>1, <1>2, <2>1
<1>4. PageTypes'
  BY <1>2, <1>3 DEF PageInv, PageTypes, WellAsked
<1>5. PostsFollow'
  <2>1. Follows(Append(reads, r), "posts", page'.stance, page.posts, Below!ListPosts(page'.stance), missed)
    <3>1. CASE r.op = "posts"
      BY <1>1, <3>1, FollowsNewRead
    <3>2. CASE r.op # "posts"
      <4>1. Follows(reads, "posts", page'.stance, page.posts, Below!ListPosts(page'.stance), missed)
        BY <3>2 DEF PageInv, PostsFollow
      <4> QED BY <1>1, <3>2, <4>1, FollowsNewRequest
    <3> QED BY <3>1, <3>2
  <2>2. Follows(reads', "posts", page'.stance, page'.posts, Below!ListPosts(page.stance)', missed')
    BY <2>1, StoredTheSame
  <2> QED BY <2>2 DEF PostsFollow, Follows, Owes, LastOf, KeepsUp
<1>6. RepliesFollow'
  <2>1. page'.open = None \/ Follows(Append(reads, r), "comments", page'.open, page.comments, Below!ListComments(page'.open), missed)
    <3>1. CASE r.op = "comments"
      BY <1>1, <3>1, FollowsNewRead
    <3>2. CASE r.op # "comments"
      <4>1. page'.open = None \/ Follows(reads, "comments", page'.open, page.comments, Below!ListComments(page'.open), missed)
        BY <3>2 DEF PageInv, RepliesFollow
      <4> QED BY <1>1, <3>2, <4>1, FollowsNewRequest
    <3> QED BY <3>1, <3>2
  <2>2. page'.open = None \/ Follows(reads', "comments", page'.open, page'.comments, Below!ListComments(page.open)', missed')
    BY <2>1, StoredTheSame
  <2> QED BY <2>2 DEF RepliesFollow, Follows, Owes, LastOf, KeepsUp
<1>7. ButtonIsHeld'
  <2>1. Held(reads, page.posting) /\ page.posting \in BOOLEAN
    BY <1>1 DEF PageInv, ButtonIsHeld, Pages
  <2>2. Held(Append(reads, r), page.posting \/ HoldsButton(r))
    BY <1>1, <2>1, HeldAfterAsking
  <2>3. Held(reads', page'.posting)
    BY <2>2
  <2> QED BY <2>3 DEF ButtonIsHeld, Held, HoldsButton
<1>8. RepliesBelong'
  BY DEF PageInv, RepliesBelong
<1>9. TextsAreNew'
  <2>1. ASSUME ~lost PROVE (\A p \in 1..Len(posts) : posts[p].text = p) /\ NextText(Append(reads, r), Len(posts), page.newPost)
    <3>1. (\A p \in 1..Len(posts) : posts[p].text = p) /\ NextText(reads, Len(posts), page.newPost)
      BY <2>1 DEF PageInv, TextsAreNew
    <3>2. r.op = "post" => Held(reads, FALSE) /\ page.newPost # None /\ r.text = page.newPost
      BY <1>1 DEF PageInv, ButtonIsHeld, Held, HoldsButton, Pages
    <3> QED BY <1>1, <3>1, <3>2, TextAfterAsking
  <2>2. ~lost => (\A p \in 1..Len(posts) : posts[p].text = p) /\ NextText(reads', Len(posts), page'.newPost)
    BY <2>1
  <2> QED BY <2>2 DEF TextsAreNew, NextText
<1> QED BY <1>4, <1>5, <1>6, <1>7, <1>8, <1>9 DEF PageInv

LEMMA MoveTypes ==
    ASSUME PageInv
    PROVE  /\ page \in Pages /\ Len(posts) \in Nat /\ DOMAIN posts = 1..Len(posts) /\ page.stance \in StanceIds
           /\ page.open \in Nat \cup {None} /\ page.newPost \in Nat \cup {None} /\ page.newComment \in {None, page.open}
BY DEF PageInv, PageTypes, Pages, RepliesBelong

LEMMA Requesting ==
    ASSUME NEW op, NEW about, NEW text
    PROVE  LET r == Below!Request(op, about, text)
           IN  /\ r.op = op /\ r.about = about /\ r.text = text /\ r.answer = None /\ ~r.ends /\ ~r.then
               /\ (/\ op \in PageReads \cup {"post", "reply", "like"}
                   /\ about \in StanceIds \cup Nat \cup {None}
                   /\ text \in Nat \cup {None}) => r \in PageRequests
<1>1. None \in PostLists \cup (SUBSET Nat) \cup {None}
  OBVIOUS
<1> QED BY <1>1 DEF Below!Request, PageRequests

LEMMA SelectsStance == ASSUME PageInv, NEW s \in StanceIds, Below!SelectStance(s) PROVE PageInv'
<1> DEFINE r_ == Below!LoadPosts(s)
<1>1. r_ \in PageRequests /\ WellAsked(r_) /\ r_.answer = None /\ ~r_.then /\ r_.op = "posts" /\ r_.about = s /\ ~r_.ends
  BY Requesting DEF Below!LoadPosts, PageReads, WellAsked
<1>2. /\ reads' = Append(reads, r_) /\ UNCHANGED <<posts, comments, missed, lost>> /\ page' = [page EXCEPT !.stance = s]
  BY DEF Below!SelectStance, Below!Do, Below!Ask
<1>3. /\ page' \in Pages /\ page'.posts = page.posts /\ page'.comments = page.comments /\ page'.newPost = page.newPost
      /\ page'.newComment \in {None, page'.open} /\ page'.posting = page.posting /\ page'.open = page.open
      /\ page'.stance = s
  BY <1>2, MoveTypes DEF Pages
<1>4. ~HoldsButton(r_) /\ page.posting \in BOOLEAN
  BY <1>1, MoveTypes DEF HoldsButton, Pages
<1> HIDE DEF r_
<1> QED BY <1>1, <1>2, <1>3, <1>4, Sends

LEMMA Types ==
    ASSUME PageInv, Below!TypePost \/ Below!TypeComment
    PROVE  PageInv'
<1>1. /\ UNCHANGED <<posts, comments, missed, lost, reads>> /\ page' \in Pages /\ page'.stance = page.stance
      /\ page'.posts = page.posts /\ page'.open = page.open /\ page'.comments = page.comments
      /\ page'.posting = page.posting /\ page'.newComment \in {None, page'.open}
      /\ page'.newPost = page.newPost \/ (page'.newPost = Len(posts) + 1 /\ page.newPost = None)
  BY MoveTypes DEF Below!TypePost, Below!TypeComment, Below!Do, Below!Shown, Pages
<1>2. PageTypes'
  BY <1>1 DEF PageInv, PageTypes, WellAsked
<1>3. PostsFollow' /\ RepliesFollow'
  BY <1>1, StoredTheSame DEF PageInv, PostsFollow, RepliesFollow, Follows, Owes, LastOf, KeepsUp
<1>4. ButtonIsHeld' /\ RepliesBelong'
  BY <1>1 DEF PageInv, ButtonIsHeld, Held, HoldsButton, RepliesBelong
<1>5. TextsAreNew'
  <2>1. ASSUME ~lost, page'.newPost = Len(posts) + 1, page.newPost = None
        PROVE  NextText(reads, Len(posts), page'.newPost)
    <3>1. NextText(reads, Len(posts), page.newPost) /\ None # Len(posts) + 1
      BY <2>1, MoveTypes, DiscussionAssumption DEF PageInv, TextsAreNew
    <3> QED BY <2>1, <3>1 DEF NextText
  <2> QED BY <1>1, <2>1 DEF PageInv, TextsAreNew, NextText
<1> QED BY <1>2, <1>3, <1>4, <1>5 DEF PageInv

LEMMA TogglesComments == ASSUME PageInv, NEW p \in DOMAIN posts, Below!ToggleComments(p) PROVE PageInv'
<1>1. CASE page.open = p
  <2>1. /\ UNCHANGED <<posts, comments, missed, lost, reads>>
        /\ page' = [page EXCEPT !.open = None, !.newComment = None]
    BY <1>1 DEF Below!ToggleComments, Below!Do
  <2>2. /\ page' \in Pages /\ page'.stance = page.stance /\ page'.posts = page.posts /\ page'.open = None
        /\ page'.newPost = page.newPost /\ page'.posting = page.posting /\ page'.newComment = None
    BY <2>1, MoveTypes DEF Pages
  <2>3. PageTypes'
    BY <2>1, <2>2 DEF PageInv, PageTypes, WellAsked
  <2>4. PostsFollow' /\ RepliesFollow'
    BY <2>1, <2>2, StoredTheSame DEF PageInv, PostsFollow, RepliesFollow, Follows, Owes, LastOf, KeepsUp
  <2>5. ButtonIsHeld' /\ RepliesBelong' /\ TextsAreNew'
    BY <2>1, <2>2 DEF PageInv, ButtonIsHeld, Held, HoldsButton, RepliesBelong, TextsAreNew, NextText
  <2> QED BY <2>3, <2>4, <2>5 DEF PageInv
<1>2. CASE page.open # p
  <2> DEFINE r_ == Below!LoadComments(p)
  <2>1. p \in Nat
    BY MoveTypes
  <2>2. r_ \in PageRequests /\ r_.answer = None /\ ~r_.then /\ r_.op = "comments" /\ r_.about = p /\ ~r_.ends
    BY <2>1, Requesting DEF Below!LoadComments, PageReads
  <2>6. WellAsked(r_)
    BY <2>2 DEF WellAsked
  <2>3. /\ reads' = Append(reads, r_) /\ UNCHANGED <<posts, comments, missed, lost>>
        /\ page' = [page EXCEPT !.open = p, !.newComment = None]
    BY <1>2 DEF Below!ToggleComments, Below!Do, Below!Ask
  <2>4. /\ page' \in Pages /\ page'.posts = page.posts /\ page'.comments = page.comments /\ page'.newPost = page.newPost
        /\ page'.newComment \in {None, page'.open} /\ page'.posting = page.posting /\ page'.open = p
        /\ page'.stance = page.stance
    BY <2>1, <2>3, MoveTypes DEF Pages
  <2>5. ~HoldsButton(r_) /\ page.posting \in BOOLEAN
    BY <2>2, MoveTypes DEF HoldsButton, Pages
  <2> HIDE DEF r_
  <2> QED BY <2>2, <2>3, <2>4, <2>5, <2>6, Sends
<1> QED BY <1>1, <1>2

LEMMA Submits == ASSUME PageInv, Below!SubmitPost PROVE PageInv'
<1> DEFINE r_ == Below!Request("post", page.stance, page.newPost)
<1>1. /\ r_ \in PageRequests /\ WellAsked(r_) /\ r_.answer = None /\ ~r_.then /\ r_.op = "post" /\ r_.text = page.newPost
      /\ page.newPost # None /\ page.newPost \in Nat
  BY MoveTypes, Requesting DEF Below!SubmitPost, PageReads, WellAsked
<1>2. /\ reads' = Append(reads, r_) /\ UNCHANGED <<posts, comments, missed, lost>>
      /\ page' = [page EXCEPT !.posting = TRUE] /\ ~page.posting
  BY DEF Below!SubmitPost, Below!Do, Below!Ask
<1>3. /\ page' \in Pages /\ page'.posts = page.posts /\ page'.comments = page.comments /\ page'.newPost = page.newPost
      /\ page'.newComment \in {None, page'.open} /\ page'.posting = TRUE /\ page'.open = page.open
      /\ page'.stance = page.stance
  BY <1>2, MoveTypes DEF Pages
<1>4. HoldsButton(r_)
  BY <1>1 DEF HoldsButton
<1> HIDE DEF r_
<1> QED BY <1>1, <1>2, <1>3, <1>4, Sends

LEMMA RepliesOrLikes == ASSUME PageInv, NEW p \in Nat, Below!SubmitComment \/ Below!Like(p) PROVE PageInv'
<1> DEFINE r_ == IF Below!Like(p) THEN Below!Request("like", p, None) ELSE Below!Request("reply", page.open, page.newComment)
<1>1. /\ reads' = Append(reads, r_) /\ UNCHANGED <<posts, comments, missed, lost, page>>
      /\ ~Below!Like(p) => page.newComment = page.open
  BY MoveTypes DEF Below!SubmitComment, Below!Like, Below!Do, Below!Ask
<1>2. /\ r_ \in PageRequests /\ WellAsked(r_) /\ r_.answer = None /\ ~r_.then /\ ~r_.ends /\ r_.op \in {"like", "reply"}
  BY <1>1, MoveTypes, Requesting DEF PageReads, WellAsked
<1>3. ~HoldsButton(r_) /\ page.posting \in BOOLEAN
  BY <1>2, MoveTypes DEF HoldsButton, Pages
<1> HIDE DEF r_
<1> QED BY <1>1, <1>2, <1>3, MoveTypes, Sends

-----------------------------------------------------------------------------
\* The API answers: what the requests under way are like afterwards.
LEMMA Serving ==
    ASSUME NEW q \in Seq(PageRequests), \A k \in 1..Len(q) : WellAsked(q[k]),
           NEW i \in 1..Len(q), q[i].answer = None, NEW a \in PostLists \cup (SUBSET Nat),
           q[i].op = "post" => a # None,
           q[i].op = "posts" => a \in PostLists, q[i].op = "comments" => a \in SUBSET Nat,
           NEW posting, Held(q, posting), NEW stored \in Nat, NEW typed, NEW more \in Nat,
           more = IF q[i].op = "post" THEN stored + 1 ELSE stored
    PROVE  LET s == [q EXCEPT ![i].answer = a]
           IN  /\ s \in Seq(PageRequests) /\ \A k \in 1..Len(s) : WellAsked(s[k])
               /\ Held(s, posting)
               /\ NextText(q, stored, typed) => NextText(s, more, typed)
               /\ \A list : Owes([q[i] EXCEPT !.answer = a], list) => \E k \in 1..Len(s) : Owes(s[k], list)
<1> DEFINE s_ == [q EXCEPT ![i].answer = a]
           t_ == [q[i] EXCEPT !.answer = a]
<1>1. /\ Len(s_) = Len(q) /\ Len(q) \in Nat /\ s_ = [q EXCEPT ![i] = t_] /\ s_[i] = t_
      /\ \A k \in 1..Len(q) : k # i => s_[k] = q[k]
  <2>1. s_ = [q EXCEPT ![i] = t_]
    OBVIOUS
  <2> HIDE DEF s_, t_
  <2> QED BY <2>1
<1>2. q[i] \in PageRequests
  OBVIOUS
<1>3. /\ t_ \in PageRequests /\ t_.answer = a /\ t_.op = q[i].op /\ t_.ends = q[i].ends /\ t_.then = q[i].then
      /\ t_.about = q[i].about /\ t_.text = q[i].text
  BY <1>2 DEF PageRequests
<1> HIDE DEF t_
<1>4. s_ \in Seq(PageRequests)
  BY <1>1, <1>3
<1> HIDE DEF s_
<1>5. WellAsked(t_)
  BY <1>3 DEF WellAsked
<1>6. \A k \in 1..Len(s_) : WellAsked(s_[k])
  BY <1>1, <1>5
<1>7. Held(s_, posting)
  <2>1. \A k \in 1..Len(q) : HoldsButton(s_[k]) <=> HoldsButton(q[k])
    BY <1>1, <1>3 DEF HoldsButton
  <2> QED BY <1>1, <2>1 DEF Held
<1>8. ASSUME NextText(q, stored, typed) PROVE NextText(s_, more, typed)
  <2>1. CASE q[i].op = "post"
    <3>1. \A k \in 1..Len(q) : q[k].op = "post" => k = i
      BY <2>1 DEF Held, HoldsButton
    <3> QED BY <1>1, <1>3, <2>1, <3>1 DEF NextText
  <2>2. CASE q[i].op # "post"
    BY <1>1, <1>3, <1>8, <2>2 DEF NextText
  <2> QED BY <2>1, <2>2
<1>9. \A list : Owes(t_, list) => \E k \in 1..Len(s_) : Owes(s_[k], list)
  BY <1>1
<1> QED BY <1>4, <1>6, <1>7, <1>8, <1>9 DEF s_, t_

LEMMA RequestTypes ==
    ASSUME PageInv, NEW i \in DOMAIN reads
    PROVE  /\ reads \in Seq(PageRequests) /\ i \in 1..Len(reads) /\ reads[i] \in PageRequests /\ WellAsked(reads[i])
           /\ \A k \in 1..Len(reads) : WellAsked(reads[k])
           /\ Held(reads, page.posting) /\ page.posting \in BOOLEAN /\ Len(posts) \in Nat
<1>1. reads \in Seq(PageRequests) /\ (\A k \in 1..Len(reads) : WellAsked(reads[k])) /\ DOMAIN reads = 1..Len(reads)
  BY DEF PageInv, PageTypes
<1>2. Held(reads, page.posting) /\ page.posting \in BOOLEAN /\ Len(posts) \in Nat
  BY MoveTypes DEF PageInv, ButtonIsHeld, Pages
<1> QED BY <1>1, <1>2, Elements

\* A request is served, and changes the posts or the replies as far as it is a write.
LEMMA Serves == ASSUME PageInv, NEW i \in DOMAIN reads, Below!Serve(i) PROVE PageInv'
<1> DEFINE r_ == reads[i]
<1>1. PICK a : /\ reads' = [reads EXCEPT ![i].answer = a] /\ UNCHANGED <<page, missed, lost, moves>> /\ r_.answer = None
               /\ r_.op = "posts" => a = Below!ListPosts(r_.about) /\ UNCHANGED <<posts, comments>>
               /\ r_.op = "comments" => a = Below!ListComments(r_.about) /\ UNCHANGED <<posts, comments>>
               /\ r_.op \in {"post", "reply", "like"} => a = {}
               /\ r_.op = "post" => /\ posts' = Append(posts, [stance |-> r_.about, text |-> r_.text, liked |-> FALSE])
                                    /\ UNCHANGED comments
               /\ r_.op = "reply" => /\ comments' = Append(comments, [post |-> r_.about, typed |-> r_.text])
                                     /\ UNCHANGED posts
               /\ r_.op = "like" => posts' = [posts EXCEPT ![r_.about].liked = ~@] /\ UNCHANGED comments
  <2>1. CASE r_.op = "posts" /\ Below!Answer(i, Below!ListPosts(r_.about)) /\ UNCHANGED <<posts, comments>>
    BY <2>1 DEF Below!Serve, Below!Answer
  <2>2. CASE r_.op = "comments" /\ Below!Answer(i, Below!ListComments(r_.about)) /\ UNCHANGED <<posts, comments>>
    BY <2>2 DEF Below!Serve, Below!Answer
  <2>3. CASE /\ r_.op = "post" /\ Below!Answer(i, {}) /\ UNCHANGED comments
             /\ posts' = Append(posts, [stance |-> r_.about, text |-> r_.text, liked |-> FALSE])
    BY <2>3 DEF Below!Serve, Below!Answer
  <2>4. CASE /\ r_.op = "reply" /\ Below!Answer(i, {}) /\ UNCHANGED posts
             /\ comments' = Append(comments, [post |-> r_.about, typed |-> r_.text])
    BY <2>4 DEF Below!Serve, Below!Answer
  <2>5. CASE /\ r_.op = "like" /\ Below!Answer(i, {}) /\ UNCHANGED comments
             /\ posts' = [posts EXCEPT ![r_.about].liked = ~@]
    BY <2>5 DEF Below!Serve, Below!Answer
  <2> QED BY <2>1, <2>2, <2>3, <2>4, <2>5 DEF Below!Serve
<1>2. /\ reads \in Seq(PageRequests) /\ i \in 1..Len(reads) /\ r_ \in PageRequests /\ WellAsked(r_)
      /\ \A k \in 1..Len(reads) : WellAsked(reads[k])
      /\ Held(reads, page.posting) /\ Len(posts) \in Nat
  BY RequestTypes
<1>3. r_.op \in PageReads \cup {"post", "reply", "like"}
  BY <1>2 DEF PageRequests
<1>4. a \in PostLists \cup (SUBSET Nat) /\ (r_.op = "posts" => a \in PostLists) /\ (r_.op = "comments" => a \in SUBSET Nat)
  BY <1>1, <1>3, ListTypes DEF PageInv, PageReads
<1>5. \A p \in 1..Len(posts) : posts[p] \in [stance : StanceIds, text : Nat, liked : BOOLEAN]
  BY Elements DEF PageInv, PageTypes
<1>6. /\ posts' \in Seq([stance : StanceIds, text : Nat, liked : BOOLEAN])
      /\ Len(posts') = IF r_.op = "post" THEN Len(posts) + 1 ELSE Len(posts)
      /\ \A p \in 1..Len(posts) : posts'[p].text = posts[p].text
      /\ r_.op = "post" => posts'[Len(posts) + 1].text = r_.text
  <2>1. posts \in Seq([stance : StanceIds, text : Nat, liked : BOOLEAN])
    BY DEF PageInv, PageTypes
  <2>2. CASE r_.op = "post"
    <3>1. [stance |-> r_.about, text |-> r_.text, liked |-> FALSE] \in [stance : StanceIds, text : Nat, liked : BOOLEAN]
      BY <1>2, <2>2 DEF WellAsked
    <3> DEFINE p_ == [stance |-> r_.about, text |-> r_.text, liked |-> FALSE]
    <3>2. p_.text = r_.text
      OBVIOUS
    <3>3. posts' = Append(posts, p_)
      BY <1>1, <2>2
    <3> HIDE DEF p_
    <3>4. /\ posts' \in Seq([stance : StanceIds, text : Nat, liked : BOOLEAN]) /\ Len(posts') = Len(posts) + 1
          /\ posts'[Len(posts) + 1] = p_ /\ \A k \in 1..Len(posts) : posts'[k] = posts[k]
      BY <2>1, <3>1, <3>3, Appending DEF p_
    <3> QED BY <2>2, <3>2, <3>4
  <2>3. CASE r_.op = "like"
    <3>1. posts' = [posts EXCEPT ![r_.about].liked = ~@]
      BY <1>1, <2>3
    <3>2. CASE r_.about \in 1..Len(posts)
      <4>1. [posts[r_.about] EXCEPT !.liked = ~@] \in [stance : StanceIds, text : Nat, liked : BOOLEAN]
        BY <1>5, <3>2
      <4>2. [posts[r_.about] EXCEPT !.liked = ~@].text = posts[r_.about].text
        BY <1>5, <3>2
      <4> QED BY <2>1, <2>3, <3>1, <3>2, <4>1, <4>2
    <3>3. CASE r_.about \notin 1..Len(posts)
      <4>1. posts' = posts
        BY <2>1, <3>1, <3>3
      <4> QED BY <2>1, <2>3, <4>1
    <3> QED BY <3>2, <3>3
  <2>4. CASE r_.op \in {"posts", "comments", "reply"}
    BY <1>1, <2>1, <2>4
  <2> QED BY <1>3, <2>2, <2>3, <2>4 DEF PageReads
<1>7. /\ comments' \in Seq([post : Nat \cup {None}, typed : Nat \cup {None}])
      /\ \A c \in 1..Len(comments') : comments'[c].post = comments'[c].typed
  <2>1. /\ comments \in Seq([post : Nat \cup {None}, typed : Nat \cup {None}])
        /\ \A c \in 1..Len(comments) : comments[c].post = comments[c].typed
    BY DEF PageInv, PageTypes, RepliesBelong
  <2>2. CASE r_.op = "reply"
    <3> DEFINE c_ == [post |-> r_.about, typed |-> r_.text]
    <3>1. c_ \in [post : Nat \cup {None}, typed : Nat \cup {None}] /\ c_.post = c_.typed
      BY <1>2, <2>2 DEF WellAsked
    <3> HIDE DEF c_
    <3>2. comments' = Append(comments, c_)
      BY <1>1, <2>2 DEF c_
    <3>3. /\ comments' \in Seq([post : Nat \cup {None}, typed : Nat \cup {None}]) /\ Len(comments') = Len(comments) + 1
          /\ comments'[Len(comments) + 1] = c_ /\ \A k \in 1..Len(comments) : comments'[k] = comments[k]
      BY <2>1, <3>1, <3>2, Appending
    <3>4. \A k \in 1..Len(comments') : k \in 1..Len(comments) \/ k = Len(comments) + 1
      BY <2>1, <3>3
    <3> QED BY <2>1, <3>1, <3>3, <3>4
  <2>3. CASE r_.op # "reply"
    BY <1>1, <1>3, <2>1, <2>3 DEF PageReads
  <2> QED BY <2>2, <2>3
<1>8. /\ reads' \in Seq(PageRequests) /\ (\A k \in 1..Len(reads') : WellAsked(reads'[k]))
      /\ Held(reads', page.posting)
      /\ NextText(reads, Len(posts), page.newPost) => NextText(reads', Len(posts'), page.newPost)
      /\ \A list : Owes([r_ EXCEPT !.answer = a], list) => \E k \in 1..Len(reads') : Owes(reads'[k], list)
  <2>1. r_.op = "post" => a # None
    BY <1>1, DiscussionAssumption
  <2>2. Len(posts') \in Nat /\ Len(posts') = IF reads[i].op = "post" THEN Len(posts) + 1 ELSE Len(posts)
    BY <1>2, <1>6
  <2>3. reads[i].answer = None /\ reads' = [reads EXCEPT ![i].answer = a]
    BY <1>1
  <2> HIDE DEF r_
  <2> QED BY <1>2, <1>4, <2>1, <2>2, <2>3, Serving DEF r_
<1>9. PageTypes'
  <2>1. page \in Pages
    BY MoveTypes
  <2> QED BY <1>1, <1>6, <1>7, <1>8, <2>1 DEF PageTypes, WellAsked
<1>10. PostsFollow'
  <2>1. CASE r_.op \in {"post", "reply", "like"}
    <3>1. Owes([r_ EXCEPT !.answer = a], "posts")
      BY <1>1, <1>2, <2>1, DiscussionAssumption DEF Owes, PageRequests
    <3>2. \E k \in 1..Len(reads') : Owes(reads'[k], "posts")
      BY <1>8, <3>1
    <3> QED BY <3>2 DEF PostsFollow, Follows, Owes, LastOf, KeepsUp
  <2>2. CASE r_.op \in PageReads
    <3>1. UNCHANGED <<posts, comments, page, missed>> /\ reads' = [reads EXCEPT ![i].answer = a] /\ r_.answer = None
      BY <1>1, <2>2 DEF PageReads
    <3>2. Follows(reads, "posts", page.stance, page.posts, Below!ListPosts(page.stance), missed)
      BY DEF PageInv, PostsFollow
    <3>3. reads[i].op = "posts" => a = Below!ListPosts(page.stance) \/ reads[i].about # page.stance
      BY <1>1
    <3>4. Follows([reads EXCEPT ![i].answer = a], "posts", page.stance, page.posts, Below!ListPosts(page.stance), missed)
      BY <1>2, <3>1, <3>2, <3>3, FollowsService
    <3>5. Follows(reads', "posts", page'.stance, page'.posts, Below!ListPosts(page.stance)', missed')
      BY <3>1, <3>4, StoredTheSame
    <3> QED BY <3>5 DEF PostsFollow, Follows, Owes, LastOf, KeepsUp
  <2> QED BY <1>3, <2>1, <2>2
<1>11. RepliesFollow'
  <2>1. CASE r_.op = "reply"
    <3>1. Owes([r_ EXCEPT !.answer = a], "comments")
      BY <1>1, <1>2, <2>1, DiscussionAssumption DEF Owes, PageRequests
    <3>2. \E k \in 1..Len(reads') : Owes(reads'[k], "comments")
      BY <1>8, <3>1
    <3> QED BY <3>2 DEF RepliesFollow, Follows, Owes, LastOf, KeepsUp
  <2>2. CASE r_.op # "reply"
    <3>1. UNCHANGED <<comments, page, missed>> /\ reads' = [reads EXCEPT ![i].answer = a] /\ r_.answer = None
      BY <1>1, <1>3, <2>2 DEF PageReads
    <3>2. page.open = None \/ Follows(reads, "comments", page.open, page.comments, Below!ListComments(page.open), missed)
      BY DEF PageInv, RepliesFollow
    <3>3. reads[i].op = "comments" => a = Below!ListComments(page.open) \/ reads[i].about # page.open
      BY <1>1
    <3>4. \/ page.open = None
          \/ Follows([reads EXCEPT ![i].answer = a], "comments", page.open, page.comments, Below!ListComments(page.open), missed)
      BY <1>2, <3>1, <3>2, <3>3, FollowsService
    <3>5. Below!ListComments(page.open)' = Below!ListComments(page.open)
      BY <3>1 DEF Below!ListComments, Below!RepliesTo
    <3>6. \/ page'.open = None
          \/ Follows(reads', "comments", page'.open, page'.comments, Below!ListComments(page.open)', missed')
      BY <3>1, <3>4, <3>5
    <3> QED BY <3>6 DEF RepliesFollow, Follows, Owes, LastOf, KeepsUp
  <2> QED BY <2>1, <2>2
<1>12. ButtonIsHeld'
  BY <1>1, <1>8 DEF ButtonIsHeld, Held, HoldsButton
<1>13. RepliesBelong'
  BY <1>1, <1>7 DEF PageInv, RepliesBelong
<1>14. TextsAreNew'
  <2>1. ASSUME ~lost PROVE (\A p \in 1..Len(posts') : posts'[p].text = p) /\ NextText(reads', Len(posts'), page'.newPost)
    <3>1. (\A p \in 1..Len(posts) : posts[p].text = p) /\ NextText(reads, Len(posts), page.newPost)
      BY <2>1 DEF PageInv, TextsAreNew
    <3>2. r_.op = "post" => r_.text = Len(posts) + 1
      BY <1>1, <1>2, <3>1 DEF NextText
    <3>3. \A p \in 1..Len(posts') : p \in 1..Len(posts) \/ (p = Len(posts) + 1 /\ r_.op = "post")
      BY <1>2, <1>6
    <3> QED BY <1>1, <1>6, <1>8, <3>1, <3>2, <3>3
  <2> QED BY <1>1, <2>1 DEF TextsAreNew, NextText
<1> QED BY <1>9, <1>10, <1>11, <1>12, <1>13, <1>14 DEF PageInv

-----------------------------------------------------------------------------
\* A request is answered or fails, and a read may follow it; what that does to the two lists is shown
\* for each kind of answer below.
LEMMA Concludes ==
    ASSUME PageInv, UNCHANGED <<posts, comments>>, NEW i \in DOMAIN reads, NEW rest, RemainsOf(reads, i, rest),
           NEW asks \in BOOLEAN, NEW r,
           asks => /\ r \in PageRequests /\ WellAsked(r) /\ r.op \in PageReads /\ r.answer = None
                   /\ r.ends => HoldsButton(reads[i]),
           reads' = IF asks THEN Append(rest, r) ELSE rest,
           page' \in Pages, page'.stance = page.stance, page'.open = page.open, page'.newComment \in {None, page.open},
           page'.posting = ((page.posting /\ ~HoldsButton(reads[i])) \/ (asks /\ r.ends)),
           lost => lost',
           IF reads[i].op = "post" THEN page'.newPost = None \/ (page'.newPost = page.newPost /\ (reads[i].answer = None \/ lost'))
           ELSE page'.newPost = page.newPost,
           Follows(reads', "posts", page.stance, page'.posts, Below!ListPosts(page.stance), missed'),
           page.open = None \/ Follows(reads', "comments", page.open, page'.comments, Below!ListComments(page.open), missed')
    PROVE  PageInv'
<1>1. /\ reads \in Seq(PageRequests) /\ i \in 1..Len(reads) /\ reads[i] \in PageRequests
      /\ \A k \in 1..Len(reads) : WellAsked(reads[k])
      /\ Held(reads, page.posting) /\ page.posting \in BOOLEAN /\ Len(posts) \in Nat
  BY RequestTypes
<1>2. /\ rest \in Seq(PageRequests) /\ Len(rest) = Len(reads) - 1 /\ Len(reads) \in Nat /\ i \in Int /\ 1 <= i /\ i <= Len(reads)
      /\ \A k \in 1..Len(rest) : From(i, k) \in 1..Len(reads) /\ Alike(rest[k], reads[From(i, k)])
  BY <1>1 DEF RemainsOf, From
<1>3. \A k \in 1..Len(rest) : WellAsked(rest[k])
  <2> SUFFICES ASSUME NEW k \in 1..Len(rest) PROVE WellAsked(rest[k])
    OBVIOUS
  <2>1. From(i, k) \in 1..Len(reads) /\ Alike(rest[k], reads[From(i, k)])
    BY <1>2
  <2>2. WellAsked(reads[From(i, k)])
    BY <1>1, <2>1
  <2> QED BY <2>1, <2>2 DEF WellAsked, Alike
<1>4. asks => /\ Append(rest, r) \in Seq(PageRequests) /\ Len(Append(rest, r)) = Len(rest) + 1
              /\ Append(rest, r)[Len(rest) + 1] = r /\ \A k \in 1..Len(rest) : Append(rest, r)[k] = rest[k]
  BY <1>2, Appending
<1>5. reads' \in Seq(PageRequests) /\ \A k \in 1..Len(reads') : WellAsked(reads'[k])
  <2>1. CASE asks
    <3>1. \A k \in 1..Len(reads') : k \in 1..Len(rest) \/ k = Len(rest) + 1
      BY <1>2, <1>4, <2>1
    <3> QED BY <1>3, <1>4, <2>1, <3>1
  <2>2. CASE ~asks
    BY <1>2, <1>3, <2>2
  <2> QED BY <2>1, <2>2
<1>6. PageTypes'
  BY <1>5 DEF PageInv, PageTypes, WellAsked
<1>7. PostsFollow' /\ RepliesFollow'
  <2>1. /\ Below!ListPosts(page.stance)' = Below!ListPosts(page.stance)
        /\ Below!ListComments(page.open)' = Below!ListComments(page.open)
    BY StoredTheSame
  <2>2. /\ Follows(reads', "posts", page'.stance, page'.posts, Below!ListPosts(page.stance)', missed')
        /\ \/ page'.open = None
           \/ Follows(reads', "comments", page'.open, page'.comments, Below!ListComments(page.open)', missed')
    BY <2>1
  <2> QED BY <2>2 DEF PostsFollow, RepliesFollow, Follows, Owes, LastOf, KeepsUp
<1>8. ButtonIsHeld'
  <2>1. Held(rest, page.posting /\ ~HoldsButton(reads[i]))
    BY <1>1, HeldAfterAnswer
  <2>2. asks => (HoldsButton(r) <=> r.ends)
    BY DEF HoldsButton, PageReads
  <2>3. asks => Held(Append(rest, r), (page.posting /\ ~HoldsButton(reads[i])) \/ HoldsButton(r))
    <3>1. (page.posting /\ ~HoldsButton(reads[i])) \in BOOLEAN
      BY <1>1
    <3>2. asks => ~(HoldsButton(r) /\ (page.posting /\ ~HoldsButton(reads[i])))
      BY <2>2
    <3> QED BY <1>2, <2>1, <3>1, <3>2, HeldAfterAsking
  <2>4. Held(reads', page'.posting)
    BY <2>1, <2>2, <2>3 DEF Held
  <2> QED BY <2>4 DEF ButtonIsHeld, Held, HoldsButton
<1>9. RepliesBelong'
  BY DEF PageInv, RepliesBelong
<1>10. TextsAreNew'
  <2>1. ASSUME ~lost' PROVE (\A p \in 1..Len(posts) : posts[p].text = p) /\ NextText(reads', Len(posts), page'.newPost)
    <3>1. (\A p \in 1..Len(posts) : posts[p].text = p) /\ NextText(reads, Len(posts), page.newPost)
      BY <2>1 DEF PageInv, TextsAreNew
    <3>2. NextText(rest, Len(posts), page'.newPost)
      <4>1. IF reads[i].op = "post" THEN page'.newPost = None \/ (page'.newPost = page.newPost /\ reads[i].answer = None)
            ELSE page'.newPost = page.newPost
        BY <2>1
      <4> QED BY <1>1, <3>1, <4>1, TextAfterAnswer
    <3>3. asks => r.op # "post"
      BY DEF PageReads
    <3>4. asks => NextText(Append(rest, r), Len(posts), page'.newPost)
      BY <1>1, <1>2, <3>2, <3>3, TextAfterAsking
    <3> QED BY <3>1, <3>2, <3>4
  <2> QED BY <2>1 DEF TextsAreNew, NextText
<1> QED BY <1>6, <1>7, <1>8, <1>9, <1>10 DEF PageInv

\* What a read that is answered, or fails, means for the list that it reads, and for the other one.
LEMMA ReadConcludes ==
    ASSUME PageInv, NEW i \in DOMAIN reads, Below!IsRead(reads[i]), NEW seen, NEW replies, NEW still,
           LET r == reads[i] IN
           /\ \A list \in PageReads \ {r.op} : list \in missed => list \in still
           /\ \/ r.op \in still
              \/ /\ r.answer # None /\ ~r.overtaken /\ ~(r.then /\ r.about # page.open)
                 /\ IF r.op = "posts" THEN seen = r.answer ELSE replies = r.answer
           /\ IF r.op = "posts" THEN replies = page.comments ELSE seen = page.posts
    PROVE  LET q == IF reads[i].then THEN Append(Below!Others(i), Below!LoadPosts(page.stance)) ELSE Below!Others(i)
           IN  /\ Follows(q, "posts", page.stance, seen, Below!ListPosts(page.stance), still)
               /\ page.open = None \/ Follows(q, "comments", page.open, replies, Below!ListComments(page.open), still)
<1> DEFINE r_ == reads[i]
           rest == Below!Others(i)
           next == Below!LoadPosts(page.stance)
<1>1. reads \in Seq(PageRequests) /\ i \in 1..Len(reads) /\ r_ \in PageRequests /\ WellAsked(r_)
  BY RequestTypes
<1>2. /\ RemainsOf(reads, i, rest)
      /\ \A k \in 1..Len(rest) : k < i /\ rest[k].op = r_.op => rest[k].overtaken
  BY <1>1, Remaining
<1>3. rest \in Seq(PageRequests)
  BY <1>2 DEF RemainsOf
<1>4. next \in PageRequests /\ next.op = "posts" /\ next.answer = None /\ next.about = page.stance
  BY MoveTypes, Requesting DEF Below!LoadPosts, PageReads
<1>5. /\ Follows(reads, "posts", page.stance, page.posts, Below!ListPosts(page.stance), missed)
      /\ page.open = None \/ Follows(reads, "comments", page.open, page.comments, Below!ListComments(page.open), missed)
  BY DEF PageInv, PostsFollow, RepliesFollow
<1>6. r_.op \in PageReads
  BY DEF Below!IsRead, PageReads
<1> HIDE DEF next, rest
<1>7. CASE r_.op = "posts"
  <2>1. ~r_.then /\ ~Owes(r_, "posts") /\ ~Owes(r_, "comments")
    BY <1>1, <1>7 DEF WellAsked, Owes
  <2>2. Follows(rest, "posts", page.stance, seen, Below!ListPosts(page.stance), still)
    BY <1>1, <1>2, <1>5, <1>7, <2>1, FollowsAnswer
  <2>3. page.open = None \/ Follows(rest, "comments", page.open, replies, Below!ListComments(page.open), still)
    <3>1. replies = page.comments /\ ("comments" \in missed => "comments" \in still) /\ r_.op # "comments"
      BY <1>7 DEF PageReads
    <3> QED BY <1>1, <1>2, <1>5, <2>1, <3>1, FollowsAnswer
  <2> QED BY <2>1, <2>2, <2>3 DEF rest
<1>8. CASE r_.op = "comments"
  <2>1. ~Owes(r_, "comments") /\ (Owes(r_, "posts") => r_.then)
    BY <1>8 DEF Owes
  <2>2. page.open = None \/ Follows(rest, "comments", page.open, replies, Below!ListComments(page.open), still)
    BY <1>1, <1>2, <1>5, <1>8, <2>1, FollowsAnswer
  <2>3. CASE r_.then
    <3>1. Follows(Append(rest, next), "posts", page.stance, seen, Below!ListPosts(page.stance), still)
      BY <1>3, <1>4, FollowsNewRead
    <3>2. page.open = None \/ Follows(Append(rest, next), "comments", page.open, replies, Below!ListComments(page.open), still)
      BY <1>3, <1>4, <2>2, FollowsNewRequest
    <3> QED BY <2>3, <3>1, <3>2 DEF rest, next
  <2>4. CASE ~r_.then
    <3>1. Follows(rest, "posts", page.stance, seen, Below!ListPosts(page.stance), still)
      <4>1. seen = page.posts /\ ("posts" \in missed => "posts" \in still) /\ r_.op # "posts"
        BY <1>8 DEF PageReads
      <4> QED BY <1>1, <1>2, <1>5, <2>1, <2>4, <4>1, FollowsAnswer
    <3> QED BY <2>2, <2>4, <3>1 DEF rest
  <2> QED BY <2>3, <2>4
<1> QED BY <1>6, <1>7, <1>8 DEF PageReads

LEMMA DeliversRead == ASSUME PageInv, NEW i \in DOMAIN reads, Below!DeliverRead(i) PROVE PageInv'
<1> DEFINE r_ == reads[i]
           rest == Below!Others(i)
           next == Below!LoadPosts(page.stance)
<1>1. /\ reads \in Seq(PageRequests) /\ i \in 1..Len(reads) /\ r_ \in PageRequests /\ WellAsked(r_)
  BY RequestTypes
<1>2. /\ Below!IsRead(r_) /\ r_.op \in PageReads /\ r_.answer # None /\ UNCHANGED <<posts, comments, lost>>
      /\ page' = Below!Released(IF r_.op = "posts" THEN [page EXCEPT !.posts = r_.answer]
                                ELSE [page EXCEPT !.comments = r_.answer], r_)
      /\ missed' = IF r_.overtaken \/ Below!Strays(r_) THEN missed \cup {r_.op} ELSE missed \ {r_.op}
      /\ reads' = IF r_.then THEN Append(rest, next) ELSE rest
  BY DEF Below!DeliverRead, Below!IsRead, Below!Told, Below!Continue, Below!Ask, PageReads
<1>3. r_.op = "posts" => r_.answer \in PostLists
  BY <1>1, <1>2 DEF WellAsked
<1>4. r_.op = "comments" => r_.answer \in SUBSET Nat
  BY <1>1, <1>2 DEF WellAsked
<1>5. /\ page' \in Pages /\ page'.stance = page.stance /\ page'.open = page.open
      /\ page'.newPost = page.newPost /\ page'.newComment = page.newComment
      /\ page'.posting = (page.posting /\ ~r_.ends)
      /\ IF r_.op = "posts" THEN page'.posts = r_.answer /\ page'.comments = page.comments
         ELSE page'.comments = r_.answer /\ page'.posts = page.posts
  BY <1>2, <1>3, <1>4, MoveTypes DEF Below!Released, Pages, PageReads
<1>6. Below!Strays(r_) <=> r_.then /\ r_.about # page.open
  BY DEF Below!Strays
<1>7. RemainsOf(reads, i, rest)
  BY <1>1, Remaining
<1>8. r_.then \in BOOLEAN /\ (HoldsButton(r_) <=> r_.ends)
  BY <1>1, <1>2 DEF PageRequests, HoldsButton, PageReads
<1>9. next \in PageRequests /\ WellAsked(next) /\ next.op \in PageReads /\ next.answer = None /\ ~next.ends
  BY MoveTypes, Requesting DEF Below!LoadPosts, PageReads, WellAsked
<1>10. /\ Follows(reads', "posts", page.stance, page'.posts, Below!ListPosts(page.stance), missed')
       /\ page.open = None \/ Follows(reads', "comments", page.open, page'.comments, Below!ListComments(page.open), missed')
  <2>1. \A list \in PageReads \ {r_.op} : list \in missed => list \in missed'
    BY <1>2
  <2>2. \/ r_.op \in missed'
        \/ /\ r_.answer # None /\ ~r_.overtaken /\ ~(r_.then /\ r_.about # page.open)
           /\ IF r_.op = "posts" THEN page'.posts = r_.answer ELSE page'.comments = r_.answer
    BY <1>2, <1>5, <1>6
  <2>3. IF r_.op = "posts" THEN page'.comments = page.comments ELSE page'.posts = page.posts
    BY <1>5
  <2>4. reads' = IF reads[i].then THEN Append(Below!Others(i), Below!LoadPosts(page.stance)) ELSE Below!Others(i)
    BY <1>2
  <2>5. Below!IsRead(reads[i])
    BY <1>2
  <2> QED BY <2>1, <2>2, <2>3, <2>4, <2>5, ReadConcludes
<1>11. page.newComment \in {None, page.open} /\ r_.op # "post"
  BY <1>2, MoveTypes DEF PageReads
<1> HIDE DEF next, rest
<1> QED BY <1>2, <1>5, <1>7, <1>8, <1>9, <1>10, <1>11, Concludes

LEMMA DeliversWrite == ASSUME PageInv, NEW i \in DOMAIN reads, Below!DeliverWrite(i) PROVE PageInv'
<1> DEFINE r_ == reads[i]
           rest == Below!Without(i)
<1>1. /\ reads \in Seq(PageRequests) /\ i \in 1..Len(reads) /\ r_ \in PageRequests /\ WellAsked(r_)
      /\ page.posting \in BOOLEAN
      /\ Held(reads, page.posting)
  BY RequestTypes
<1>2. /\ r_.answer # None /\ UNCHANGED <<posts, comments, missed, lost>> /\ r_.op \in {"post", "reply", "like"}
      /\ r_.op = "post" => page' = [page EXCEPT !.newPost = None]
      /\ r_.op = "reply" => page' = [page EXCEPT !.newComment = None]
      /\ r_.op = "like" => page' = page
  BY <1>1 DEF Below!DeliverWrite, Below!IsRead, PageRequests, PageReads
<1>3. PICK next : /\ reads' = Append(rest, next)
                  /\ r_.op = "post" => next = [Below!LoadPosts(page.stance) EXCEPT !.ends = TRUE]
                  /\ r_.op = "reply" => next = [Below!LoadComments(r_.about) EXCEPT !.then = TRUE]
                  /\ r_.op = "like" => next = Below!LoadPosts(page.stance)
  <2>1. CASE r_.op = "post"
    BY <2>1 DEF Below!DeliverWrite, Below!Ask
  <2>2. CASE r_.op = "reply"
    BY <2>2 DEF Below!DeliverWrite, Below!Ask
  <2>3. CASE r_.op = "like"
    BY <2>3 DEF Below!DeliverWrite, Below!Ask
  <2> QED BY <1>2, <2>1, <2>2, <2>3
<1>4. /\ Below!LoadPosts(page.stance) \in PageRequests /\ Below!LoadPosts(page.stance).op = "posts"
      /\ Below!LoadPosts(page.stance).about = page.stance /\ Below!LoadPosts(page.stance).answer = None
      /\ ~Below!LoadPosts(page.stance).ends /\ ~Below!LoadPosts(page.stance).then
  BY MoveTypes, Requesting DEF Below!LoadPosts, PageReads
<1>5. r_.op = "reply" =>
          /\ Below!LoadComments(r_.about) \in PageRequests /\ Below!LoadComments(r_.about).op = "comments"
          /\ Below!LoadComments(r_.about).about = r_.about /\ Below!LoadComments(r_.about).answer = None
          /\ ~Below!LoadComments(r_.about).ends
  <2>1. r_.op = "reply" => r_.about \in StanceIds \cup Nat \cup {None}
    BY <1>1 DEF WellAsked
  <2> QED BY <2>1, Requesting DEF Below!LoadComments, PageReads
<1>6. /\ next \in PageRequests /\ WellAsked(next) /\ next.answer = None /\ next.op \in PageReads
      /\ IF r_.op = "reply" THEN next.op = "comments" /\ next.then ELSE next.op = "posts" /\ next.about = page.stance
      /\ next.ends = (r_.op = "post")
  <2>1. CASE r_.op = "post"
    BY <1>3, <1>4, <2>1 DEF PageRequests, PageReads, WellAsked
  <2>2. CASE r_.op = "reply"
    BY <1>3, <1>5, <2>2 DEF PageRequests, PageReads, WellAsked
  <2>3. CASE r_.op = "like"
    BY <1>3, <1>4, <2>3 DEF PageRequests, PageReads, WellAsked
  <2> QED BY <1>2, <2>1, <2>2, <2>3
<1>7. RemainsOf(reads, i, rest) /\ rest \in Seq(PageRequests)
  BY <1>1, WithoutOne DEF RemainsOf
<1>8. /\ page' \in Pages /\ page'.stance = page.stance /\ page'.open = page.open /\ page'.newComment \in {None, page.open}
      /\ page'.posts = page.posts /\ page'.comments = page.comments /\ page'.posting = page.posting
      /\ page'.newPost = IF r_.op = "post" THEN None ELSE page.newPost
  BY <1>2, MoveTypes DEF Pages
<1>9. HoldsButton(r_) <=> r_.op = "post"
  BY <1>1, <1>2 DEF HoldsButton, WellAsked
<1>10. page'.posting = ((page.posting /\ ~HoldsButton(r_)) \/ next.ends)
  BY <1>1, <1>6, <1>8, <1>9 DEF Held
<1> HIDE DEF rest
<1>11. Follows(Append(rest, next), "posts", page.stance, page.posts, Below!ListPosts(page.stance), missed)
  <2>1. CASE r_.op = "reply"
    <3>1. Owes(next, "posts")
      BY <1>6, <2>1 DEF Owes
    <3>2. Append(rest, next)[Len(rest) + 1] = next /\ Len(rest) + 1 \in 1..Len(Append(rest, next))
      BY <1>6, <1>7, Appending
    <3> QED BY <3>1, <3>2 DEF Follows
  <2>2. CASE r_.op # "reply"
    BY <1>6, <1>7, <2>2, FollowsNewRead
  <2> QED BY <2>1, <2>2
<1>12. page.open = None \/ Follows(Append(rest, next), "comments", page.open, page.comments, Below!ListComments(page.open), missed)
  <2>1. CASE r_.op = "reply"
    BY <1>6, <1>7, <2>1, FollowsNewRead
  <2>2. CASE r_.op # "reply"
    <3>1. ~Owes(r_, "comments") /\ r_.op # "comments" /\ next.op # "comments"
      BY <1>2, <1>6, <2>2 DEF Owes
    <3>2. page.open = None \/ Follows(reads, "comments", page.open, page.comments, Below!ListComments(page.open), missed)
      BY DEF PageInv, RepliesFollow
    <3>3. page.open = None \/ Follows(rest, "comments", page.open, page.comments, Below!ListComments(page.open), missed)
      BY <1>1, <1>7, <3>1, <3>2, FollowsAnswer
    <3> QED BY <1>6, <1>7, <3>1, <3>3, FollowsNewRequest
  <2> QED BY <2>1, <2>2
<1>13. IF r_.op = "post" THEN page'.newPost = None \/ (page'.newPost = page.newPost /\ (r_.answer = None \/ lost'))
       ELSE page'.newPost = page.newPost
  BY <1>8
<1>14. /\ Follows(reads', "posts", page.stance, page'.posts, Below!ListPosts(page.stance), missed')
       /\ page.open = None \/ Follows(reads', "comments", page.open, page'.comments, Below!ListComments(page.open), missed')
  BY <1>2, <1>3, <1>8, <1>11, <1>12
<1>15. reads' = (IF TRUE THEN Append(rest, next) ELSE rest) /\ (next.ends => HoldsButton(r_))
  BY <1>3, <1>6, <1>9
<1> QED BY <1>2, <1>6, <1>7, <1>8, <1>10, <1>13, <1>14, <1>15, Concludes

LEMMA Fails == ASSUME PageInv, NEW i \in DOMAIN reads, Below!Fail(i) PROVE PageInv'
<1> DEFINE r_ == reads[i]
           untold == IF Below!IsRead(r_) THEN {r_.op} ELSE IF r_.answer = None THEN {} ELSE {"posts", "comments"}
           rest == IF Below!IsRead(r_) THEN Below!Others(i) ELSE Below!Overtake(Below!Without(i), untold)
           next == Below!LoadPosts(page.stance)
<1>1. /\ reads \in Seq(PageRequests) /\ i \in 1..Len(reads) /\ r_ \in PageRequests /\ WellAsked(r_)
      /\ page.posting \in BOOLEAN
  BY RequestTypes
<1>2. /\ page' = IF r_.op = "post" THEN [page EXCEPT !.posting = FALSE] ELSE Below!Released(page, r_)
      /\ reads' = IF r_.then THEN Append(rest, next) ELSE rest
      /\ missed' = missed \cup untold
      /\ lost' = (lost \/ (r_.op = "post" /\ r_.answer # None)) /\ UNCHANGED <<posts, comments>>
  BY DEF Below!Fail, Below!Continue, Below!Ask
<1>3. HoldsButton(r_) <=> r_.op = "post" \/ r_.ends
  BY DEF HoldsButton
<1>4. /\ page' \in Pages /\ page'.stance = page.stance /\ page'.open = page.open /\ page'.newComment = page.newComment
      /\ page'.posts = page.posts /\ page'.comments = page.comments /\ page'.newPost = page.newPost
      /\ page'.posting = (page.posting /\ ~HoldsButton(r_))
  BY <1>1, <1>2, <1>3, MoveTypes DEF Below!Released, Pages
<1>5. Below!IsRead(r_) <=> r_.op \in PageReads
  BY DEF Below!IsRead, PageReads
<1>6. RemainsOf(reads, i, rest)
  BY <1>1, Remaining, WithoutOne
<1>7. next \in PageRequests /\ WellAsked(next) /\ next.op \in PageReads /\ next.answer = None /\ ~next.ends
  BY MoveTypes, Requesting DEF Below!LoadPosts, PageReads, WellAsked
<1>8. /\ Follows(reads', "posts", page.stance, page.posts, Below!ListPosts(page.stance), missed')
      /\ page.open = None \/ Follows(reads', "comments", page.open, page.comments, Below!ListComments(page.open), missed')
  <2>1. CASE Below!IsRead(r_)
    <3>1. \A list \in PageReads \ {r_.op} : list \in missed => list \in missed'
      BY <1>2
    <3>2. r_.op \in missed'
      BY <1>2, <2>1
    <3>3. reads' = IF reads[i].then THEN Append(Below!Others(i), Below!LoadPosts(page.stance)) ELSE Below!Others(i)
      BY <1>2, <2>1
    <3> HIDE DEF untold, rest, next
    <3> QED BY <2>1, <3>1, <3>2, <3>3, ReadConcludes
  <2>2. CASE ~Below!IsRead(r_) /\ r_.answer = None
    <3>1. ~r_.then /\ ~Owes(r_, "posts") /\ ~Owes(r_, "comments") /\ r_.op # "posts" /\ r_.op # "comments"
      BY <1>1, <1>5, <2>2 DEF Owes, WellAsked, PageReads
    <3>2. missed' = missed /\ reads' = rest
      BY <1>2, <2>2, <3>1
    <3>3. /\ Follows(reads, "posts", page.stance, page.posts, Below!ListPosts(page.stance), missed)
          /\ page.open = None \/ Follows(reads, "comments", page.open, page.comments, Below!ListComments(page.open), missed)
      BY DEF PageInv, PostsFollow, RepliesFollow
    <3> HIDE DEF untold, rest, next
    <3>4. Follows(rest, "posts", page.stance, page.posts, Below!ListPosts(page.stance), missed)
      BY <1>1, <1>6, <3>1, <3>3, FollowsAnswer
    <3>5. page.open = None \/ Follows(rest, "comments", page.open, page.comments, Below!ListComments(page.open), missed)
      BY <1>1, <1>6, <3>1, <3>3, FollowsAnswer
    <3> QED BY <3>2, <3>4, <3>5
  <2>3. CASE ~Below!IsRead(r_) /\ r_.answer # None
    <3>1. ~r_.then /\ rest = Below!Overtake(Below!Without(i), {"posts", "comments"})
      BY <1>1, <1>5, <2>3 DEF WellAsked, PageReads
    <3>2. reads' = rest /\ "posts" \in missed' /\ "comments" \in missed'
      BY <1>2, <2>3, <3>1
    <3>3. Len(rest) = Len(reads) - 1
      BY <1>6 DEF RemainsOf
    <3>4. \A k \in 1..Len(rest) : rest[k].op \in {"posts", "comments"} => rest[k].overtaken
      BY <1>1, <3>1, <3>3, WithoutOne
    <3> HIDE DEF untold, rest, next
    <3>5. /\ \A k \in 1..Len(rest) : rest[k].op = "posts" => rest[k].overtaken
          /\ \A k \in 1..Len(rest) : rest[k].op = "comments" => rest[k].overtaken
      BY <3>4
    <3> QED BY <3>2, <3>5, FollowsFailure
  <2> QED BY <2>1, <2>2, <2>3
<1>9. /\ r_.then \in BOOLEAN /\ page'.newComment \in {None, page.open}
      /\ r_.op = "post" => page'.newPost = page.newPost /\ (r_.answer = None \/ lost')
      /\ lost => lost'
  BY <1>1, <1>2, <1>4, MoveTypes DEF PageRequests
<1>10. /\ Follows(reads', "posts", page.stance, page'.posts, Below!ListPosts(page.stance), missed')
       /\ page.open = None \/ Follows(reads', "comments", page.open, page'.comments, Below!ListComments(page.open), missed')
  BY <1>4, <1>8
<1>11. UNCHANGED <<posts, comments>> /\ reads' = (IF r_.then THEN Append(rest, next) ELSE rest)
  BY <1>2
<1> HIDE DEF untold, rest, next
<1> QED BY <1>4, <1>6, <1>7, <1>9, <1>10, <1>11, Concludes

-----------------------------------------------------------------------------
LEMMA PageInit == ASSUME Below!Init PROVE PageInv
<1>1. PICK s \in StanceIds :
          /\ posts = <<[stance |-> s, text |-> 1, liked |-> FALSE], [stance |-> s, text |-> 2, liked |-> TRUE]>>
          /\ comments = <<[post |-> 1, typed |-> 1]>>
          /\ missed = {"posts", "comments"} /\ lost = FALSE
          /\ page = [stance |-> s, posts |-> <<>>, open |-> None, comments |-> {}, newPost |-> None,
                     newComment |-> None, posting |-> FALSE]
          /\ reads = <<Below!LoadPosts(s)>>
  BY DEF Below!Init
<1>2. /\ Below!LoadPosts(s) \in PageRequests /\ Below!LoadPosts(s).op = "posts" /\ Below!LoadPosts(s).about = s
      /\ Below!LoadPosts(s).answer = None /\ ~Below!LoadPosts(s).ends /\ ~Below!LoadPosts(s).then
  BY Requesting DEF Below!LoadPosts, PageReads
<1>3. reads \in Seq(PageRequests) /\ Len(reads) = 1 /\ reads[1] = Below!LoadPosts(s)
  BY <1>1, <1>2
<1>4. \A k \in 1..Len(reads) : k = 1 /\ WellAsked(reads[k])
  BY <1>2, <1>3 DEF WellAsked
<1>5. page \in Pages
  BY <1>1 DEF Pages, PostLists
<1>6. /\ posts \in Seq([stance : StanceIds, text : Nat, liked : BOOLEAN]) /\ Len(posts) = 2
      /\ \A p \in 1..Len(posts) : posts[p].text = p
  BY <1>1
<1>7. /\ comments \in Seq([post : Nat \cup {None}, typed : Nat \cup {None}])
      /\ \A c \in 1..Len(comments) : comments[c].post = comments[c].typed
  BY <1>1
<1>8. PageTypes
  BY <1>3, <1>4, <1>5, <1>6, <1>7 DEF PageTypes
<1>9. PostsFollow /\ RepliesFollow
  <2>1. KeepsUp(reads[1], page.stance, Below!ListPosts(page.stance)) /\ reads[1].op = "posts"
    BY <1>1, <1>2, <1>3 DEF KeepsUp
  <2> QED BY <1>1, <1>3, <1>4, <2>1 DEF PostsFollow, RepliesFollow, Follows
<1>10. ButtonIsHeld /\ RepliesBelong
  BY <1>1, <1>2, <1>3, <1>4, <1>7 DEF ButtonIsHeld, Held, HoldsButton, RepliesBelong
<1>11. TextsAreNew
  BY <1>1, <1>2, <1>3, <1>4, <1>6 DEF TextsAreNew, NextText
<1> QED BY <1>8, <1>9, <1>10, <1>11 DEF PageInv

LEMMA PageStep == ASSUME PageInv, Below!Next PROVE PageInv'
<1>1. CASE \E s \in StanceIds : Below!SelectStance(s)
  BY <1>1, SelectsStance
<1>2. CASE Below!TypePost \/ Below!TypeComment
  BY <1>2, Types
<1>3. CASE Below!SubmitPost
  BY <1>3, Submits
<1>4. CASE Below!SubmitComment
  BY <1>4, RepliesOrLikes
<1>5. CASE \E p \in DOMAIN posts : Below!ToggleComments(p)
  BY <1>5, TogglesComments
<1>6. CASE \E p \in DOMAIN posts : Below!Like(p)
  <2>1. PICK p \in DOMAIN posts : Below!Like(p)
    BY <1>6
  <2>2. p \in Nat
    BY MoveTypes
  <2> QED BY <2>1, <2>2, RepliesOrLikes
<1>7. CASE \E i \in DOMAIN reads : Below!Serve(i)
  BY <1>7, Serves
<1>8. CASE \E i \in DOMAIN reads : Below!DeliverRead(i)
  BY <1>8, DeliversRead
<1>9. CASE \E i \in DOMAIN reads : Below!DeliverWrite(i)
  BY <1>9, DeliversWrite
<1>10. CASE \E i \in DOMAIN reads : Below!Fail(i)
  BY <1>10, Fails
<1> QED BY <1>1, <1>2, <1>3, <1>4, <1>5, <1>6, <1>7, <1>8, <1>9, <1>10 DEF Below!Next

LEMMA PageInvariant == StancesSpec => []PageInv
<1>1. StancesInit => PageInv
  BY PageInit DEF StancesInit
<1>2. ASSUME PageInv, [StancesNext]_<<scope, vars, treeVars, sessionVars, pageVars>> PROVE PageInv'
  <2>1. CASE Below!Next
    BY <1>2, <2>1, PageStep
  <2>2. CASE UNCHANGED pageVars
    <3>1. UNCHANGED <<posts, comments, page, reads, missed, lost>>
      BY <2>2 DEF pageVars
    <3>2. PostsFollow' /\ RepliesFollow'
      BY <1>2, <3>1, StoredTheSame DEF PageInv, PostsFollow, RepliesFollow, Follows, Owes, LastOf, KeepsUp
    <3>3. PageTypes' /\ ButtonIsHeld' /\ RepliesBelong' /\ TextsAreNew'
      BY <1>2, <3>1 DEF PageInv, PageTypes, WellAsked, ButtonIsHeld, Held, HoldsButton, RepliesBelong, TextsAreNew, NextText
    <3> QED BY <3>2, <3>3 DEF PageInv
  <2> QED BY <1>2, <2>1, <2>2 DEF StancesNext
<1> QED BY <1>1, <1>2, PTL DEF StancesSpec

\* The reports of a stance are settled with it and the counter of likes follows the likes (takedown,
\* report, toggleLike), except for what came late or was lost; below a stance the page settles on what is
\* stored and texts arrive once and where they were typed (Discussion.vue), in any order of the answers.
THEOREM EverythingSettles == StancesSpec => []StancesSettle
<1>1. TreeInv => Tree!OpenReportsAreLate /\ Tree!LikeCountsFollowLikes
  BY DEF TreeInv
<1>2. PageInv => Below!PageSettles
  <2> SUFFICES ASSUME PageInv, reads = <<>>
               PROVE  /\ "posts" \in missed \/ page.posts = Below!ListPosts(page.stance)
                      /\ "comments" \in missed \/ page.open = None \/ page.comments = Below!ListComments(page.open)
                      /\ ~page.posting
    BY DEF Below!PageSettles
  <2>1. Len(reads) = 0
    OBVIOUS
  <2>2. PostsFollow /\ RepliesFollow /\ ButtonIsHeld
    BY DEF PageInv
  <2> QED BY <2>1, <2>2 DEF PostsFollow, RepliesFollow, Follows, ButtonIsHeld, Held
<1>3. PageInv => Below!TextsArrive
  <2> SUFFICES ASSUME PageInv PROVE Below!TextsArrive
    OBVIOUS
  <2>1. DOMAIN comments = 1..Len(comments) /\ DOMAIN posts = 1..Len(posts)
    BY DEF PageInv, PageTypes
  <2>2. \A c \in 1..Len(comments) : comments[c].post = comments[c].typed
    BY DEF PageInv, RepliesBelong
  <2>3. lost \/ \A p \in 1..Len(posts) : posts[p].text = p
    BY DEF PageInv, TextsAreNew
  <2> QED BY <2>1, <2>2, <2>3 DEF Below!TextsArrive
<1>4. TreeInv /\ PageInv => StancesSettle
  BY <1>1, <1>2, <1>3 DEF StancesSettle
<1> QED BY <1>4, TreeInvariant, PageInvariant, PTL
=============================================================================
