---------------------------- MODULE MembersProofs ----------------------------
(***************************************************************************)
(* The theorems about what concerns single members, for any phones, codes, *)
(* votes, sockets and members and any number of overlapping requests: the  *)
(* consent to the analysis of a profile (DemographicConsent), access to a  *)
(* restricted topic (ShareAccess), and the groups of members that are      *)
(* shown to partners, for any groups and thresholds (TopicAnalytics).      *)
(***************************************************************************)
EXTENDS MCMembers, FiniteSetTheorems, WellFoundedInduction, TLAPS

(* The type invariant.                                                     *)

LEMMA ProfilesTyped ==
    ASSUME ConsentAssumption, TypeOK,
           NEW b \in Births, NEW consent \in BOOLEAN, Update(b, consent)
    PROVE  profile' \in Profiles \cup {None} /\ guardian' \in Guardians \cup {None}
<1>1. StatusAfter(b, consent) \in Statuses
  BY DEF StatusAfter, Statuses, Births
<1>2. profile' \in Profiles
  BY <1>1 DEF Update, Profiles
<1>3. guardian' \in Guardians \cup {None}
  BY DEF Update, TypeOK, Guardians
<1> QED BY <1>2, <1>3

LEMMA CappedTyped ==
    ASSUME NEW n \in Nat, NEW limit \in Nat
    PROVE  Capped(n, limit) \in 0..(limit + 1)
BY DEF Capped

\* A verification in progress knows what was typed in.
Entered == \A v \in Verifiers : pc[v] # "idle" => entered[v] \in Entries

Typed == TypeOK /\ Entered

(* The induction: types together with what a verification has been given.  *)
LEMMA TypedCorrect == Spec => []Typed
<1> USE ConsentAssumption
<1>1. Init => Typed
  <2> SUFFICES ASSUME Init PROVE Typed
    OBVIOUS
  <2>1. profile \in Profiles \cup {None} /\ guardian \in Guardians \cup {None}
    <3>1. LegacyProfile \in Profiles
      BY DEF LegacyProfile, Profiles, Births, Statuses
    <3>2. \A p \in Phones : LegacyGuardian(p) \in Guardians
      BY DEF LegacyGuardian, Guardians
    <3> QED BY <3>1, <3>2 DEF Init
  <2>2. tries \in 0..(MaxTries + 1) /\ sends \in 0..(MaxSends + 1)
    BY DEF Init, ConsentAssumption
  <2>3. entered \in [Verifiers -> Entries \cup {None}]
    BY DEF Init
  <2>4. otp = None /\ sending = None /\ pc = [v \in Verifiers |-> "idle"] /\ task = [w \in Votes |-> "none"]
        /\ snapshots = {} /\ issued = {} /\ late = {} /\ uses = [c \in Codes |-> 0]
    BY DEF Init
  <2> QED BY <2>1, <2>2, <2>3, <2>4 DEF Typed, TypeOK, Entered
<1>2. Typed /\ [Next]_vars => Typed'
  <2> SUFFICES ASSUME Typed, [Next]_vars PROVE Typed'
    OBVIOUS
  <2> USE DEF Typed, TypeOK, Entered
  <2>1. ASSUME NEW b \in Births, NEW consent \in BOOLEAN, Update(b, consent) PROVE Typed'
    <3>1. snapshots' \in SUBSET Votes /\ late' \in SUBSET Votes
      BY <2>1 DEF Update, Forget, BeingWritten
    <3> QED BY <2>1, <3>1, ProfilesTyped DEF Update, redis, verification
  <2>2. CASE Remove
    BY <2>2 DEF Remove, Forget, BeingWritten, redis, verification
  <2>3. CASE ComeOfAge
    BY <2>3 DEF ComeOfAge, redis, verification, snapshotting, Profiles, Births
  <2>4. CASE Expire
    BY <2>4 DEF Expire, ExpireCode, ExpireTries, ExpireSends, rows, verification, snapshotting, ConsentAssumption
  <2>5. ASSUME NEW p \in Phones, StartSending(p) PROVE Typed'
    <3>1. sends' \in 0..(MaxSends + 1)
      BY <2>5, CappedTyped DEF StartSending, ConsentAssumption
    <3> QED BY <2>5, <3>1 DEF StartSending, rows, verification, snapshotting
  <2>6. ASSUME NEW c \in Codes, StoreCode(c) PROVE Typed'
    <3>1. otp' \in Otps
      BY <2>6 DEF StoreCode, Otps
    <3> QED BY <2>6, <3>1 DEF StoreCode, rows, verification, snapshotting
  <2>7. ASSUME NEW v \in Verifiers, NEW entry \in Entries, StartVerifying(v, entry) PROVE Typed'
    BY <2>7 DEF StartVerifying, Go, rows, redis, snapshotting
  <2>8. ASSUME NEW v \in Verifiers, Verify(v) PROVE Typed'
    <3>1. CASE Count(v)
      <4>1. tries' \in 0..(MaxTries + 1)
        BY <3>1, CappedTyped DEF Count, ConsentAssumption
      <4> QED BY <3>1, <4>1 DEF Count, Go, rows, snapshotting
    <3>2. CASE Refuse(v)
      BY <3>2 DEF Refuse, End, Go, rows, snapshotting
    <3>3. CASE Compare(v)
      BY <3>3 DEF Compare, End, Go, rows, redis, snapshotting
    <3>4. CASE Consume(v)
      <4>1. uses' \in [Codes -> Nat]
        BY <3>4 DEF Consume
      <4> QED BY <3>4, <4>1 DEF Consume, End, Go, rows, snapshotting
    <3>5. CASE Grant(v)
      <4>1. entered[v] \in Entries
        BY <3>5 DEF Grant
      <4>2. profile' \in Profiles
        BY <3>5 DEF Grant, Eligible, MinorConsents, Consents, Profiles, Statuses
      <4>3. guardian' \in Guardians
        BY <3>5, <4>1 DEF Grant, Guardians, Entries
      <4> QED BY <3>5, <4>2, <4>3 DEF Grant, Go, redis, snapshotting
    <3>6. CASE GrantFails(v)
      BY <3>6 DEF GrantFails, End, Go, rows, redis, snapshotting
    <3>7. CASE Reset(v)
      BY <3>7 DEF Reset, End, Go, rows, snapshotting, ConsentAssumption
    <3> QED BY <2>8, <3>1, <3>2, <3>3, <3>4, <3>5, <3>6, <3>7 DEF Verify
  <2>9. ASSUME NEW w \in Votes, Snapshot(w) PROVE Typed'
    BY <2>9 DEF Snapshot, Vote, ReadProfile, WriteSnapshot, rows, redis, verification
  <2>10. CASE UNCHANGED vars
    BY <2>10 DEF vars
  <2> QED BY <2>1, <2>2, <2>3, <2>4, <2>5, <2>6, <2>7, <2>8, <2>9, <2>10 DEF Next
<1> QED BY <1>1, <1>2, PTL DEF Spec

(* Every variable keeps its type and the two Redis counters stay within    *)
(* their caps.                                                                   *)
THEOREM TypeCorrect == Spec => []TypeOK
BY TypedCorrect, PTL DEF Typed

-----------------------------------------------------------------------------
(* The guardian's consent.                                                 *)

(* A minor counts as verified only while the guardian's consent to the     *)
(* same version and the minor's own consent stand (update, remove and      *)
(* verifyGuardianOtp keep the two tables together).                        *)
THEOREM VerifiedMinorsHaveGuardians == Spec => []VerifiedHasGuardian
<1> USE ConsentAssumption
<1>1. Init => VerifiedHasGuardian
  <2> SUFFICES ASSUME profile = LegacyProfile, NEW p \in Phones, guardian = LegacyGuardian(p)
               PROVE  VerifiedHasGuardian
    BY DEF Init, VerifiedHasGuardian
  <2>1. guardian \in Guardians
    BY DEF LegacyGuardian, Guardians
  <2> QED BY <2>1 DEF VerifiedHasGuardian, LegacyProfile, LegacyGuardian, ConsentAssumption
<1>2. Typed /\ VerifiedHasGuardian /\ [Next]_vars => VerifiedHasGuardian'
  <2> SUFFICES ASSUME Typed, VerifiedHasGuardian, [Next]_vars PROVE VerifiedHasGuardian'
    OBVIOUS
  <2> USE DEF VerifiedHasGuardian
  <2>1. ASSUME NEW b \in Births, NEW consent \in BOOLEAN, Update(b, consent) PROVE VerifiedHasGuardian'
    <3> SUFFICES ASSUME profile'.status = "VERIFIED" PROVE VerifiedHasGuardian'
      OBVIOUS
    <3>1. profile' = [birth |-> b, isMinor |-> b = "minor", consent |-> consent, current |-> consent,
                      status |-> StatusAfter(b, consent)]
      BY <2>1 DEF Update
    <3>2. b = "minor" /\ consent /\ GuardianVerified
      BY <3>1 DEF StatusAfter, Births
    <3>3. guardian' = guardian
      BY <2>1, <3>2 DEF Update
    <3> QED BY <3>1, <3>2, <3>3 DEF GuardianVerified
  <2>2. CASE Remove
    BY <2>2 DEF Remove
  <2>3. CASE ComeOfAge
    BY <2>3 DEF ComeOfAge, Typed, TypeOK, Profiles
  <2>4. ASSUME NEW v \in Verifiers, Grant(v) PROVE VerifiedHasGuardian'
    <3>1. entered[v] \in Entries
      BY <2>4 DEF Grant, Typed, Entered
    <3>2. guardian' = [phone |-> entered[v].phone, current |-> TRUE, revoked |-> FALSE]
      BY <2>4 DEF Grant
    <3>3. guardian' \in Guardians
      BY <3>1, <3>2 DEF Entries, Guardians
    <3>4. guardian' # None
      BY <3>3 DEF ConsentAssumption
    <3>5. profile \in Profiles /\ profile.isMinor /\ profile.consent /\ profile.current
      BY <2>4 DEF Grant, Eligible, MinorConsents, Consents, Typed, TypeOK, Profiles
    <3>6. profile' = [profile EXCEPT !.status = "VERIFIED"]
      BY <2>4 DEF Grant
    <3> QED BY <3>2, <3>4, <3>5, <3>6 DEF Profiles
  <2>5. CASE UNCHANGED rows
    BY <2>5 DEF rows
  <2> QED BY <2>1, <2>2, <2>3, <2>4, <2>5 DEF Next, Expire, StartSending, StoreCode, StartVerifying,
          Verify, Count, Refuse, Compare, Consume, GrantFails, Reset, Snapshot, Vote, ReadProfile,
          WriteSnapshot, rows, vars
<1> QED BY <1>1, <1>2, TypedCorrect, PTL DEF Spec

\* A code in Redis has been drawn and not yet consumed.
FreshCode ==
    /\ otp # None => otp.code \in issued /\ uses[otp.code] = 0
    /\ \A c \in Codes \ issued : uses[c] = 0

(* A code verifies once, whatever verifications overlap: consumeIfMatches  *)
(* takes it out of Redis in the step that compares it.                     *)
THEOREM CodesWorkOnce == Spec => []CodesUsedOnce
<1> USE ConsentAssumption
<1>1. Init => FreshCode /\ CodesUsedOnce
  BY DEF Init, FreshCode, CodesUsedOnce
<1>2. TypeOK /\ FreshCode /\ CodesUsedOnce /\ [Next]_vars => FreshCode' /\ CodesUsedOnce'
  <2> SUFFICES ASSUME TypeOK, FreshCode, CodesUsedOnce, [Next]_vars PROVE FreshCode' /\ CodesUsedOnce'
    OBVIOUS
  <2> USE DEF FreshCode, CodesUsedOnce
  <2>1. ASSUME NEW c \in Codes, StoreCode(c) PROVE FreshCode' /\ CodesUsedOnce'
    BY <2>1 DEF StoreCode
  <2>2. ASSUME NEW v \in Verifiers, Consume(v) PROVE FreshCode' /\ CodesUsedOnce'
    <3>1. CASE StillThere(v)
      <4>1. otp.code \in Codes /\ otp.code = entered[v].code /\ uses[otp.code] = 0 /\ otp.code \in issued
        BY <3>1 DEF StillThere, Matches, TypeOK, Otps
      <4>2. otp' = None /\ issued' = issued /\ uses' = [uses EXCEPT ![otp.code] = @ + 1]
        BY <2>2, <3>1, <4>1 DEF Consume
      <4>3. \A c \in Codes : uses'[c] = IF c = otp.code THEN 1 ELSE uses[c]
        BY <4>1, <4>2 DEF TypeOK
      <4> QED BY <4>1, <4>2, <4>3
    <3>2. CASE ~StillThere(v)
      BY <2>2, <3>2 DEF Consume
    <3> QED BY <3>1, <3>2
  <2>3. CASE UNCHANGED <<issued, uses>> /\ otp' \in {otp, None}
    BY <2>3
  <2> QED BY <2>1, <2>2, <2>3 DEF Next, Update, Remove, ComeOfAge, Expire, ExpireCode, ExpireTries, ExpireSends,
          StartSending, StartVerifying, Verify, Count, Refuse, Compare, Grant, GrantFails, Reset,
          Snapshot, Vote, ReadProfile, WriteSnapshot, redis, vars
<1> QED BY <1>1, <1>2, TypeCorrect, PTL DEF Spec

-----------------------------------------------------------------------------
(* The snapshots.                                                          *)

\* Without consent, a snapshot that is being written was already at the withdrawal.
WritersAreLate == ~Consents => BeingWritten \subseteq late

(* After the consent was withdrawn or the profile deleted, only the        *)
(* snapshots being written at that moment can still appear.                *)
THEOREM WithdrawalLeavesLateOnes == Spec => []OnlyLateSnapshots
<1> USE ConsentAssumption
<1>1. Init => WritersAreLate /\ OnlyLateSnapshots
  BY DEF Init, WritersAreLate, OnlyLateSnapshots, BeingWritten
<1>2. TypeOK /\ WritersAreLate /\ OnlyLateSnapshots /\ [Next]_vars => WritersAreLate' /\ OnlyLateSnapshots'
  <2> SUFFICES ASSUME TypeOK, WritersAreLate, OnlyLateSnapshots, [Next]_vars
               PROVE  WritersAreLate' /\ OnlyLateSnapshots'
    OBVIOUS
  <2> USE DEF WritersAreLate, OnlyLateSnapshots, BeingWritten
  <2>1. ASSUME NEW b \in Births, NEW consent \in BOOLEAN, Update(b, consent)
        PROVE  WritersAreLate' /\ OnlyLateSnapshots'
    <3>1. profile' # None => profile'.consent = consent
      BY <2>1 DEF Update
    <3>2. CASE consent
      <4>1. profile' \in Profiles
        <5>1. StatusAfter(b, consent) \in Statuses
          BY DEF StatusAfter, Statuses, Births
        <5> QED BY <2>1, <5>1 DEF Update, Profiles
      <4>2. profile' # None
        BY <4>1 DEF ConsentAssumption
      <4> QED BY <2>1, <3>1, <3>2, <4>2 DEF Update, Consents
    <3>3. CASE ~consent
      BY <2>1, <3>3 DEF Update, Forget
    <3> QED BY <3>2, <3>3
  <2>2. CASE Remove
    BY <2>2 DEF Remove, Forget
  <2>3. CASE ComeOfAge
    <3>1. Consents' = Consents
      <4>1. profile \in Profiles /\ profile' = [profile EXCEPT !.birth = "adult"]
        BY <2>3 DEF ComeOfAge, TypeOK
      <4>2. profile' \in Profiles /\ profile'.consent = profile.consent
        BY <4>1 DEF Profiles, Births
      <4> QED BY <4>1, <4>2 DEF Consents, ConsentAssumption
    <3> QED BY <2>3, <3>1 DEF ComeOfAge, snapshotting
  <2>4. ASSUME NEW v \in Verifiers, Grant(v) PROVE WritersAreLate' /\ OnlyLateSnapshots'
    <3>1. profile \in Profiles /\ profile.consent /\ profile' = [profile EXCEPT !.status = "VERIFIED"]
      BY <2>4 DEF Grant, Eligible, MinorConsents, Consents, TypeOK
    <3>2. profile' \in Profiles /\ profile'.consent = profile.consent
      BY <3>1 DEF Profiles, Statuses
    <3> QED BY <3>1, <3>2 DEF Consents, ConsentAssumption
  <2>5. ASSUME NEW w \in Votes, Snapshot(w) PROVE WritersAreLate' /\ OnlyLateSnapshots'
    <3>1. Consents' = Consents
      BY <2>5 DEF Snapshot, Vote, ReadProfile, WriteSnapshot, rows, Consents
    <3> QED BY <2>5, <3>1 DEF Snapshot, Vote, ReadProfile, WriteSnapshot, MayBeAnalysed, TypeOK
  <2>6. CASE UNCHANGED <<rows, snapshotting>>
    BY <2>6 DEF rows, snapshotting, Consents
  <2> QED BY <2>1, <2>2, <2>3, <2>4, <2>5, <2>6 DEF Next, Expire, StartSending, StoreCode, StartVerifying,
          Verify, Count, Refuse, Compare, Consume, GrantFails, Reset, rows, snapshotting, vars
<1> QED BY <1>1, <1>2, TypeCorrect, PTL DEF Spec
-----------------------------------------------------------------------------
(* Access to a restricted topic.                                           *)

Restricted == Access!Restricted

\* The kinds of variables, and who may have asked what: a rotation or a disabled link is the
\* owner's, a redeemed link, a follow and an unfollow another member's.
AccessTyped ==
    /\ private \in BOOLEAN /\ followersOnly \in BOOLEAN
    /\ link \in [token : Nat, enabled : BOOLEAN]
    /\ grants \in [Users -> Nat]
    /\ follows \subseteq Users
    /\ room \subseteq Sockets /\ known \subseteq Sockets
    /\ joining \in [Sockets -> {"idle", "grant", "follow", "enter"}]
    /\ request \in [Requests -> [op : Access!Ops \cup {"none"}, user : Users \cup {Owner}, token : Nat,
                                 pc : {"idle", "begin", "write", "evict", "leave"}, targets : SUBSET Sockets]]
    /\ \A r \in Requests : LET q == request[r] IN
          /\ q.op \in {"redeem", "follow", "unfollow"} => q.user \in Users
          /\ q.pc = "evict" => \/ q.op \in {"rotate", "disable"} /\ q.user = Owner
                               \/ q.op = "unfollow" /\ followersOnly
          /\ q.op \in {"rotate", "disable"} => q.user = Owner

\* A session enters the room of a restricted topic only after it has been recognised, and with a
\* timer: both stay until the process ends or the timer fires.
EntrantsAreKnown ==
    Restricted => /\ room \subseteq known \cap timers
                  /\ \A s \in Sockets : joining[s] # "idle" => s \in known

AccessIsSound ==
    /\ AccessTyped
    /\ EntrantsAreKnown
    /\ Access!OnlyOvertakenGrants
    /\ \A s \in room : Access!MayView(UserOf[s]) \/ Access!BeingEvicted(s) \/ s \in lateSockets

\* Only the requests of the API change who may view; the sockets of a room are judged by that.
LEMMA AccessInit == Access!Init => AccessIsSound
<1> SUFFICES ASSUME Access!Init PROVE AccessIsSound
  OBVIOUS
<1> USE DEF Access!Init
<1>1. AccessTyped
  <2>1. Access!Idle \in [op : Access!Ops \cup {"none"}, user : Users \cup {Owner}, token : Nat,
                         pc : {"idle", "begin", "write", "evict", "leave"}, targets : SUBSET Sockets]
    BY DEF Access!Idle
  <2>2. \A r \in Requests : request[r] = Access!Idle
    OBVIOUS
  <2>3. /\ Access!Idle.op = "none" /\ Access!Idle.pc = "idle"
    BY DEF Access!Idle
  <2> QED
    BY <2>1, <2>2, <2>3 DEF AccessTyped
<1>2. EntrantsAreKnown
  BY DEF EntrantsAreKnown
<1>3. Access!OnlyOvertakenGrants
  BY DEF Access!OnlyOvertakenGrants
<1> QED
  BY <1>1, <1>2, <1>3 DEF AccessIsSound

\* Whoever a rotation or a disabled link shuts out is listed by the eviction it goes on to.
LEMMA RevocationsEvict ==
  ASSUME AccessIsSound, NEW r \in Requests, Access!Rotate(r) \/ Access!Disable(r)
  PROVE  AccessIsSound'
<1>1. /\ request[r].op \in {"rotate", "disable"} /\ request[r].user = Owner
      /\ request' = [request EXCEPT ![r].pc = "evict"]
      /\ UNCHANGED <<private, followersOnly, follows, room, known, expired, timers, joining, lateSockets>>
      /\ grants' \in [Users -> Nat] /\ link' \in [token : Nat, enabled : BOOLEAN]
  <2>1. /\ request[r].op \in {"rotate", "disable"} /\ request[r].user = Owner
        /\ request' = [request EXCEPT ![r].pc = "evict"]
    BY DEF AccessIsSound, AccessTyped, Access!Rotate, Access!Disable, Access!Goto
  <2>2. UNCHANGED <<private, followersOnly, follows, room, known, expired, timers, joining, lateSockets>>
    BY DEF Access!Rotate, Access!Disable, Access!sockets
  <2>3. grants' \in [Users -> Nat]
    BY DEF AccessIsSound, AccessTyped, Access!Rotate, Access!Disable
  <2>4. link' \in [token : Nat, enabled : BOOLEAN]
    <3>1. link \in [token : Nat, enabled : BOOLEAN] /\ link.token \in Nat
      BY DEF AccessIsSound, AccessTyped
    <3>2. CASE Access!Rotate(r)
      BY <3>1, <3>2 DEF Access!Rotate
    <3>3. CASE Access!Disable(r)
      BY <3>1, <3>3 DEF Access!Disable
    <3> QED
      BY <3>2, <3>3
  <2> QED
    BY <2>1, <2>2, <2>3, <2>4
<1>2. /\ request'[r].pc = "evict" /\ request'[r].op = request[r].op /\ request'[r].user = Owner
      /\ \A x \in Requests \ {r} : request'[x] = request[x]
  BY <1>1 DEF AccessIsSound, AccessTyped
<1>3. AccessTyped'
  BY <1>1, <1>2 DEF AccessIsSound, AccessTyped
<1>4. EntrantsAreKnown'
  BY <1>1 DEF AccessIsSound, EntrantsAreKnown, Restricted, Access!Restricted
<1>5. Access!OnlyOvertakenGrants'
  BY DEF AccessIsSound, Access!OnlyOvertakenGrants, Access!Rotate, Access!Disable
<1>6. ASSUME NEW s \in room' PROVE (Access!MayView(UserOf[s]) \/ Access!BeingEvicted(s) \/ s \in lateSockets)'
  <2>1. CASE UserOf[s] = Owner
    BY <2>1 DEF Access!MayView, Access!HasGrant, Access!IsFollower
  <2>2. CASE UserOf[s] # Owner
    <3>1. s \in Access!Listed(r)'
      BY <1>1, <1>2, <2>2 DEF Access!Listed
    <3> QED
      BY <1>2, <3>1 DEF Access!BeingEvicted
  <2> QED
    BY <2>1, <2>2
<1> QED
  BY <1>3, <1>4, <1>5, <1>6 DEF AccessIsSound

\* A request that evicts nobody yet leaves the evictions of the others.
LEMMA EvictionsGoOn ==
  ASSUME AccessTyped, NEW r \in Requests, NEW q, request' = [request EXCEPT ![r] = q],
         request[r].pc \notin {"evict", "leave"}, room' = room, known' = known,
         NEW s \in room, Access!BeingEvicted(s)
  PROVE  Access!BeingEvicted(s)'
<1>1. PICK x \in Requests : \/ request[x].pc = "evict" /\ s \in Access!Listed(x)
                            \/ request[x].pc = "leave" /\ s \in request[x].targets
  BY DEF Access!BeingEvicted
<1>2. x # r /\ request'[x] = request[x]
  BY <1>1 DEF AccessTyped
<1> QED
  BY <1>1, <1>2 DEF Access!BeingEvicted, Access!Listed

\* The steps of a request that give access, or none.
LEMMA GrantsKeepViewers ==
  ASSUME AccessIsSound, NEW r \in Requests,
         Access!FindLink(r) \/ Access!WriteGrant(r) \/ Access!Follow(r)
  PROVE  AccessIsSound'
<1>1. PICK q : /\ request' = [request EXCEPT ![r] = q]
               /\ \/ q = Access!Idle
                  \/ q = [request[r] EXCEPT !.pc = "write"] /\ request[r].op = "redeem"
  <2>1. CASE request' = [request EXCEPT ![r] = Access!Idle]
    BY <2>1
  <2>2. CASE request' = [request EXCEPT ![r].pc = "write"] /\ request[r].op = "redeem"
    <3> DEFINE q == [request[r] EXCEPT !.pc = "write"]
    <3>1. request' = [request EXCEPT ![r] = q]
      BY <2>2
    <3> QED
      BY <2>2, <3>1
  <2>3. \/ request' = [request EXCEPT ![r] = Access!Idle]
        \/ request' = [request EXCEPT ![r].pc = "write"] /\ request[r].op = "redeem"
    BY DEF Access!FindLink, Access!WriteGrant, Access!Follow, Access!Done, Access!Goto
  <2> QED
    BY <2>1, <2>2, <2>3
<1>2. /\ request[r].pc \in {"begin", "write"} /\ request[r].user \in Users
      /\ UNCHANGED <<private, followersOnly, link, room, known, expired, timers, joining, lateSockets>>
  BY DEF AccessIsSound, AccessTyped, Access!FindLink, Access!WriteGrant, Access!Follow, Access!sockets, Access!rows
<1>3. /\ grants' \in [Users -> Nat] /\ follows' \subseteq Users /\ follows \subseteq follows'
      /\ \A u \in Users : grants[u] # 0 => grants'[u] = grants[u]
  BY DEF AccessIsSound, AccessTyped, Access!FindLink, Access!WriteGrant, Access!Follow, Access!rows
<1>4. AccessTyped'
  <2>1. \A x \in Requests : request'[x] = IF x = r THEN q ELSE request[x]
    BY <1>1 DEF AccessIsSound, AccessTyped
  <2>2. request' \in [Requests -> [op : Access!Ops \cup {"none"}, user : Users \cup {Owner}, token : Nat,
                                 pc : {"idle", "begin", "write", "evict", "leave"}, targets : SUBSET Sockets]]
    BY <1>1 DEF AccessIsSound, AccessTyped, Access!Idle
  <2>3. \A x \in Requests : LET y == request'[x] IN
          /\ y.op \in {"redeem", "follow", "unfollow"} => y.user \in Users
          /\ y.pc = "evict" => \/ y.op \in {"rotate", "disable"} /\ y.user = Owner
                               \/ y.op = "unfollow" /\ followersOnly
          /\ y.op \in {"rotate", "disable"} => y.user = Owner
    BY <1>1, <2>1 DEF AccessIsSound, AccessTyped, Access!Idle
  <2> QED
    BY <1>2, <1>3, <2>2, <2>3 DEF AccessIsSound, AccessTyped
<1>5. EntrantsAreKnown'
  BY <1>2 DEF AccessIsSound, EntrantsAreKnown, Restricted, Access!Restricted
<1>6. Access!OnlyOvertakenGrants'
  BY DEF AccessIsSound, AccessTyped, Access!OnlyOvertakenGrants, Access!FindLink, Access!WriteGrant, Access!Follow,
     Access!rows
<1>7. ASSUME NEW s \in room' PROVE (Access!MayView(UserOf[s]) \/ Access!BeingEvicted(s) \/ s \in lateSockets)'
  <2>1. s \in room /\ s \in Sockets /\ UserOf[s] \in Users \cup {Owner}
    BY <1>2, AccessAssumption DEF AccessIsSound, AccessTyped
  <2>2. CASE Access!MayView(UserOf[s])
    BY <1>2, <1>3, <2>1, <2>2 DEF Access!MayView, Access!HasGrant, Access!IsFollower
  <2>3. CASE Access!BeingEvicted(s)
    BY <1>1, <1>2, <2>1, <2>3, EvictionsGoOn DEF AccessIsSound
  <2>4. CASE s \in lateSockets
    BY <1>2, <2>4
  <2> QED
    BY <2>1, <2>2, <2>3, <2>4 DEF AccessIsSound
<1> QED
  BY <1>4, <1>5, <1>6, <1>7 DEF AccessIsSound

\* A follow that ends puts the follower's sockets out of the rooms they are in: only sockets that
\* are known to be the follower's are in the room of a topic for followers.
LEMMA UnfollowSound ==
  ASSUME AccessIsSound, NEW r \in Requests, Access!Unfollow(r)
  PROVE  AccessIsSound'
<1>1. /\ request[r].op = "unfollow" /\ request[r].pc = "begin" /\ request[r].user \in Users
      /\ follows' = follows \ {request[r].user}
      /\ UNCHANGED <<private, followersOnly, link, grants, overtaken, room, known, expired, timers, joining, lateSockets>>
  BY DEF AccessIsSound, AccessTyped, Access!Unfollow, Access!sockets
<1>2. PICK q : /\ request' = [request EXCEPT ![r] = q]
               /\ q = IF followersOnly THEN [request[r] EXCEPT !.pc = "evict"] ELSE Access!Idle
  <2>1. CASE followersOnly
    <3> DEFINE q == [request[r] EXCEPT !.pc = "evict"]
    <3>1. request' = [request EXCEPT ![r] = q]
      BY <2>1 DEF Access!Unfollow, Access!Goto
    <3> QED
      BY <2>1, <3>1
  <2>2. CASE ~followersOnly
    BY <2>2 DEF Access!Unfollow, Access!Done
  <2> QED
    BY <2>1, <2>2
<1>3. \A x \in Requests : request'[x] = IF x = r THEN q ELSE request[x]
  BY <1>2 DEF AccessIsSound, AccessTyped
<1>4. AccessTyped'
  <2>1. request' \in [Requests -> [op : Access!Ops \cup {"none"}, user : Users \cup {Owner}, token : Nat,
                                 pc : {"idle", "begin", "write", "evict", "leave"}, targets : SUBSET Sockets]]
    BY <1>2 DEF AccessIsSound, AccessTyped, Access!Idle
  <2>2. \A x \in Requests : LET y == request'[x] IN
          /\ y.op \in {"redeem", "follow", "unfollow"} => y.user \in Users
          /\ y.pc = "evict" => \/ y.op \in {"rotate", "disable"} /\ y.user = Owner
                               \/ y.op = "unfollow" /\ followersOnly
          /\ y.op \in {"rotate", "disable"} => y.user = Owner
    BY <1>1, <1>2, <1>3 DEF AccessIsSound, AccessTyped, Access!Idle
  <2> QED
    BY <1>1, <2>1, <2>2 DEF AccessIsSound, AccessTyped
<1>5. EntrantsAreKnown'
  BY <1>1 DEF AccessIsSound, EntrantsAreKnown, Restricted, Access!Restricted
<1>6. Access!OnlyOvertakenGrants'
  BY <1>1 DEF AccessIsSound, Access!OnlyOvertakenGrants
<1>7. ASSUME NEW s \in room' PROVE (Access!MayView(UserOf[s]) \/ Access!BeingEvicted(s) \/ s \in lateSockets)'
  <2>1. s \in room /\ s \in Sockets
    BY <1>1 DEF AccessIsSound, AccessTyped
  <2>2. CASE followersOnly /\ UserOf[s] = request[r].user
    <3>1. s \in known
      BY <2>1, <2>2 DEF AccessIsSound, EntrantsAreKnown, Restricted, Access!Restricted
    <3>2. request'[r].pc = "evict" /\ request'[r].op = "unfollow" /\ request'[r].user = request[r].user
      BY <1>1, <1>2, <1>3, <2>2 DEF AccessIsSound, AccessTyped
    <3>3. s \in Access!Listed(r)'
      BY <1>1, <2>2, <3>1, <3>2 DEF Access!Listed
    <3> QED
      BY <3>2, <3>3 DEF Access!BeingEvicted
  <2>3. CASE ~(followersOnly /\ UserOf[s] = request[r].user)
    <3>1. CASE Access!MayView(UserOf[s])
      BY <1>1, <2>3, <3>1 DEF Access!MayView, Access!HasGrant, Access!IsFollower
    <3>2. CASE Access!BeingEvicted(s)
      BY <1>1, <1>2, <2>1, <3>2, EvictionsGoOn DEF AccessIsSound
    <3>3. CASE s \in lateSockets
      BY <1>1, <3>3
    <3> QED
      BY <2>1, <3>1, <3>2, <3>3 DEF AccessIsSound
  <2> QED
    BY <2>2, <2>3
<1> QED
  BY <1>4, <1>5, <1>6, <1>7 DEF AccessIsSound

\* The two steps of an eviction: who is listed is put out.
LEMMA FetchSocketsSound ==
  ASSUME AccessIsSound, NEW r \in Requests, Access!FetchSockets(r)
  PROVE  AccessIsSound'
<1> DEFINE q == [request[r] EXCEPT !.pc = "leave", !.targets = Access!Listed(r)]
<1>1. /\ request[r].pc = "evict" /\ request' = [request EXCEPT ![r] = q]
      /\ UNCHANGED <<private, followersOnly, link, grants, overtaken, follows, room, known, expired, timers, joining,
                     lateSockets>>
  BY DEF Access!FetchSockets, Access!rows, Access!sockets
<1>2. /\ Access!Listed(r) \subseteq Sockets
      /\ \A x \in Requests : request'[x] = IF x = r THEN q ELSE request[x]
      /\ q.pc = "leave" /\ q.targets = Access!Listed(r) /\ q.op = request[r].op /\ q.user = request[r].user
      /\ q \in [op : Access!Ops \cup {"none"}, user : Users \cup {Owner}, token : Nat,
                pc : {"idle", "begin", "write", "evict", "leave"}, targets : SUBSET Sockets]
  BY ZenonT(60), <1>1 DEF AccessIsSound, AccessTyped, Access!Listed
<1> HIDE DEF q
<1>3. AccessTyped'
  BY <1>1, <1>2 DEF AccessIsSound, AccessTyped
<1>4. EntrantsAreKnown'
  BY <1>1 DEF AccessIsSound, EntrantsAreKnown, Restricted, Access!Restricted
<1>5. Access!OnlyOvertakenGrants'
  BY <1>1 DEF AccessIsSound, Access!OnlyOvertakenGrants
<1>6. ASSUME NEW s \in room' PROVE (Access!MayView(UserOf[s]) \/ Access!BeingEvicted(s) \/ s \in lateSockets)'
  <2>1. CASE Access!MayView(UserOf[s])
    BY <1>1, <2>1 DEF Access!MayView, Access!HasGrant, Access!IsFollower
  <2>2. CASE Access!BeingEvicted(s)
    <3>1. PICK x \in Requests : \/ request[x].pc = "evict" /\ s \in Access!Listed(x)
                                \/ request[x].pc = "leave" /\ s \in request[x].targets
      BY <2>2 DEF Access!BeingEvicted
    <3>2. CASE x = r
      BY <1>1, <1>2, <3>1, <3>2 DEF Access!BeingEvicted
    <3>3. CASE x # r
      BY <1>1, <1>2, <3>1, <3>3 DEF Access!BeingEvicted, Access!Listed
    <3> QED
      BY <3>2, <3>3
  <2> QED
    BY <1>1, <2>1, <2>2 DEF AccessIsSound
<1> QED
  BY <1>3, <1>4, <1>5, <1>6 DEF AccessIsSound

LEMMA LeaveRoomsSound ==
  ASSUME AccessIsSound, NEW r \in Requests, Access!LeaveRooms(r)
  PROVE  AccessIsSound'
<1>1. /\ request[r].pc = "leave" /\ request' = [request EXCEPT ![r] = Access!Idle]
      /\ room' = room \ request[r].targets
      /\ lateSockets' = lateSockets \ request[r].targets
      /\ UNCHANGED <<private, followersOnly, link, grants, overtaken, follows, known, expired, timers, joining>>
  BY DEF Access!LeaveRooms, Access!Done, Access!rows
<1>2. /\ \A x \in Requests : request'[x] = IF x = r THEN Access!Idle ELSE request[x]
      /\ Access!Idle.pc = "idle" /\ Access!Idle.op = "none"
      /\ Access!Idle \in [op : Access!Ops \cup {"none"}, user : Users \cup {Owner}, token : Nat,
                pc : {"idle", "begin", "write", "evict", "leave"}, targets : SUBSET Sockets]
  BY <1>1 DEF AccessIsSound, AccessTyped, Access!Idle
<1>3. AccessTyped'
  BY <1>1, <1>2 DEF AccessIsSound, AccessTyped
<1>4. EntrantsAreKnown'
  BY <1>1 DEF AccessIsSound, EntrantsAreKnown, Restricted, Access!Restricted
<1>5. Access!OnlyOvertakenGrants'
  BY <1>1 DEF AccessIsSound, Access!OnlyOvertakenGrants
<1>6. ASSUME NEW s \in room' PROVE (Access!MayView(UserOf[s]) \/ Access!BeingEvicted(s) \/ s \in lateSockets)'
  <2>1. s \in room /\ s \notin request[r].targets
    BY <1>1
  <2>2. CASE Access!MayView(UserOf[s])
    BY <1>1, <2>2 DEF Access!MayView, Access!HasGrant, Access!IsFollower
  <2>3. CASE Access!BeingEvicted(s)
    <3>1. PICK x \in Requests : \/ request[x].pc = "evict" /\ s \in Access!Listed(x)
                                \/ request[x].pc = "leave" /\ s \in request[x].targets
      BY <2>3 DEF Access!BeingEvicted
    <3>2. x # r
      BY <1>1, <2>1, <3>1
    <3> QED
      BY <1>1, <1>2, <1>6, <3>1, <3>2 DEF Access!BeingEvicted, Access!Listed
  <2> QED
    BY <1>1, <2>1, <2>2, <2>3 DEF AccessIsSound
<1> QED
  BY <1>3, <1>4, <1>5, <1>6 DEF AccessIsSound

LEMMA ArriveSound ==
  ASSUME AccessIsSound, NEW r \in Requests, NEW op \in Access!Ops, NEW u \in Users \cup {Owner},
         NEW t \in 0..MaxTokens, Access!Arrive(r, op, u, t)
  PROVE  AccessIsSound'
<1> DEFINE q == [op |-> op, user |-> u, token |-> t, pc |-> "begin", targets |-> {}]
<1>1. /\ request[r].pc = "idle" /\ request' = [request EXCEPT ![r] = q]
      /\ op \in {"rotate", "disable"} => u = Owner
      /\ op \in {"follow", "unfollow", "redeem"} => u # Owner
      /\ UNCHANGED <<private, followersOnly, link, grants, overtaken, follows, room, known, expired, timers, joining,
                     lateSockets>>
  BY DEF Access!Arrive, Access!rows, Access!sockets
<1>2. /\ \A x \in Requests : request'[x] = IF x = r THEN q ELSE request[x]
      /\ q.pc = "begin" /\ q.op = op /\ q.user = u
      /\ q \in [op : Access!Ops \cup {"none"}, user : Users \cup {Owner}, token : Nat,
                pc : {"idle", "begin", "write", "evict", "leave"}, targets : SUBSET Sockets]
  BY <1>1, AccessAssumption DEF AccessIsSound, AccessTyped
<1> HIDE DEF q
<1>3. AccessTyped'
  BY <1>1, <1>2 DEF AccessIsSound, AccessTyped
<1>4. EntrantsAreKnown'
  BY <1>1 DEF AccessIsSound, EntrantsAreKnown, Restricted, Access!Restricted
<1>5. Access!OnlyOvertakenGrants'
  BY <1>1 DEF AccessIsSound, Access!OnlyOvertakenGrants
<1>6. ASSUME NEW s \in room' PROVE (Access!MayView(UserOf[s]) \/ Access!BeingEvicted(s) \/ s \in lateSockets)'
  <2>1. CASE Access!MayView(UserOf[s])
    BY <1>1, <2>1 DEF Access!MayView, Access!HasGrant, Access!IsFollower
  <2>2. CASE Access!BeingEvicted(s)
    BY <1>1, <1>6, <2>2, EvictionsGoOn DEF AccessIsSound
  <2> QED
    BY <1>1, <2>1, <2>2 DEF AccessIsSound
<1> QED
  BY <1>3, <1>4, <1>5, <1>6 DEF AccessIsSound

\* A step of a socket, whose room may only be entered by a known socket with a timer: what may
\* be viewed and who is being evicted does not change for the others.
LEMMA SocketStepSound ==
  ASSUME AccessIsSound, NEW s \in Sockets, Access!SocketStep(s)
  PROVE  AccessIsSound'
<1>1. /\ UNCHANGED <<private, followersOnly, link, grants, overtaken, follows, request>>
      /\ room' \in {room, room \cup {s}, room \ {s}} /\ known' \in {known, known \cup {s}}
      /\ joining' \in [Sockets -> {"idle", "grant", "follow", "enter"}]
      /\ \A x \in Sockets \ {s} : joining'[x] = joining[x]
  <2>1. joining \in [Sockets -> {"idle", "grant", "follow", "enter"}]
    BY DEF AccessIsSound, AccessTyped
  <2>2. CASE Access!Join(s)
    BY <2>1, <2>2 DEF Access!Join, Access!rows
  <2>3. CASE Access!CheckJoin(s)
    BY <2>1, <2>3 DEF Access!CheckJoin, Access!rows
  <2>4. CASE Access!Enter(s)
    BY <2>1, <2>4 DEF Access!Enter, Access!rows
  <2>5. CASE Access!Leave(s) \/ Access!Expire(s) \/ Access!TimerFires(s)
    BY <2>1, <2>5 DEF Access!Leave, Access!Expire, Access!TimerFires, Access!rows
  <2> QED
    BY <2>2, <2>3, <2>4, <2>5 DEF Access!SocketStep
<1>2. AccessTyped'
  BY <1>1 DEF AccessIsSound, AccessTyped
<1>3. Access!OnlyOvertakenGrants'
  BY <1>1 DEF AccessIsSound, Access!OnlyOvertakenGrants
<1>4. EntrantsAreKnown'
  <2> SUFFICES ASSUME Restricted PROVE EntrantsAreKnown'
    BY <1>1 DEF EntrantsAreKnown, Restricted, Access!Restricted
  <2>1. room \subseteq known \cap timers /\ (\A x \in Sockets : joining[x] # "idle" => x \in known)
    BY DEF AccessIsSound, EntrantsAreKnown
  <2>2. CASE Access!Join(s)
    BY <2>1, <2>2 DEF AccessIsSound, AccessTyped, EntrantsAreKnown, Restricted, Access!Join
  <2>3. CASE Access!CheckJoin(s)
    BY <2>1, <2>3 DEF AccessIsSound, AccessTyped, EntrantsAreKnown, Access!CheckJoin
  <2>4. CASE Access!Enter(s)
    BY <2>1, <2>4 DEF AccessIsSound, AccessTyped, EntrantsAreKnown, Access!Enter
  <2>5. CASE Access!Leave(s) \/ Access!Expire(s) \/ Access!TimerFires(s)
    BY <2>1, <2>5 DEF EntrantsAreKnown, Access!Leave, Access!Expire, Access!TimerFires
  <2> QED
    BY <2>2, <2>3, <2>4, <2>5 DEF Access!SocketStep
<1>5. ASSUME NEW x \in room' PROVE (Access!MayView(UserOf[x]) \/ Access!BeingEvicted(x) \/ x \in lateSockets)'
  <2>1. CASE Access!MayView(UserOf[x])
    BY <1>1, <2>1 DEF Access!MayView, Access!HasGrant, Access!IsFollower
  <2>2. CASE x \in room /\ Access!BeingEvicted(x) /\ ~Access!MayView(UserOf[x])
    <3>1. UserOf[x] # Owner
      BY <2>2 DEF Access!MayView, Access!HasGrant, Access!IsFollower
    <3>2. PICK r \in Requests : \/ request[r].pc = "evict" /\ x \in Access!Listed(r)
                                \/ request[r].pc = "leave" /\ x \in request[r].targets
      BY <2>2 DEF Access!BeingEvicted
    <3>3. CASE request[r].pc = "leave"
      BY <1>1, <3>2, <3>3 DEF Access!BeingEvicted
    <3>4. CASE request[r].pc = "evict" /\ request[r].op = "unfollow"
      <4>1. x \in Access!Listed(r)'
        BY <1>1, <3>2, <3>4 DEF Access!Listed
      <4> QED
        BY <1>1, <3>4, <4>1 DEF Access!BeingEvicted
    <3>5. CASE request[r].pc = "evict" /\ request[r].op # "unfollow"
      <4>1. request[r].user = Owner
        BY <3>5 DEF AccessIsSound, AccessTyped
      <4>2. x \in Access!Listed(r)'
        BY <1>1, <1>5, <3>1, <3>5, <4>1 DEF Access!Listed
      <4> QED
        BY <1>1, <3>5, <4>2 DEF Access!BeingEvicted
    <3> QED
      BY <3>2, <3>3, <3>4, <3>5
  <2>3. CASE x \in room /\ x \in lateSockets
    BY <1>5, <2>3 DEF Access!SocketStep, Access!Join, Access!CheckJoin, Access!Enter, Access!Leave, Access!Expire,
       Access!TimerFires
  <2>4. CASE x \notin room
    <3>1. x = s /\ (Access!Join(s) \/ Access!Enter(s))
      BY <1>1, <1>5, <2>4 DEF Access!SocketStep, Access!CheckJoin, Access!Leave, Access!Expire, Access!TimerFires
    <3>2. CASE Access!Join(s)
      BY <1>1, <1>5, <2>4, <3>1, <3>2 DEF Access!Join, Access!Restricted, Access!MayView
    <3>3. CASE Access!Enter(s)
      BY <1>1, <1>5, <2>4, <3>1, <3>3 DEF Access!Enter, Access!MayView, Access!HasGrant, Access!IsFollower
    <3> QED
      BY <3>1, <3>2, <3>3
  <2> QED
    BY <2>1, <2>2, <2>3, <2>4 DEF AccessIsSound
<1> QED
  BY <1>2, <1>3, <1>4, <1>5 DEF AccessIsSound

LEMMA CrashSound ==
  ASSUME AccessIsSound, Access!Crash
  PROVE  AccessIsSound'
<1>1. /\ room' = {} /\ known' = {} /\ joining' = [s \in Sockets |-> "idle"]
      /\ request' = [r \in Requests |-> Access!Idle]
      /\ UNCHANGED <<private, followersOnly, link, grants, overtaken, follows>>
  BY DEF Access!Crash, Access!rows
<1>2. /\ Access!Idle.pc = "idle" /\ Access!Idle.op = "none"
      /\ Access!Idle \in [op : Access!Ops \cup {"none"}, user : Users \cup {Owner}, token : Nat,
                pc : {"idle", "begin", "write", "evict", "leave"}, targets : SUBSET Sockets]
  BY DEF Access!Idle
<1>3. AccessTyped'
  BY <1>1, <1>2 DEF AccessIsSound, AccessTyped
<1>4. EntrantsAreKnown' /\ Access!OnlyOvertakenGrants'
  BY <1>1 DEF AccessIsSound, EntrantsAreKnown, Access!OnlyOvertakenGrants
<1> QED
  BY <1>1, <1>3, <1>4 DEF AccessIsSound

LEMMA AccessNext ==
  ASSUME AccessIsSound, Access!Next
  PROVE  AccessIsSound'
<1>1. ASSUME NEW r \in Requests, Access!RequestStep(r) PROVE AccessIsSound'
  BY <1>1, RevocationsEvict, GrantsKeepViewers, UnfollowSound, FetchSocketsSound, LeaveRoomsSound
  DEF Access!RequestStep
<1> QED
  BY <1>1, ArriveSound, SocketStepSound, CrashSound DEF Access!Next

\* What is sound about access is so in every behaviour of the composition, which leaves the rows
\* and sockets alone in the scopes that are about something else.
LEMMA AlwaysAccessIsSound == MembersSpec => []AccessIsSound
<1>1. MembersInit => AccessIsSound
  BY AccessInit DEF MembersInit
<1>2. AccessIsSound /\ [MembersNext]_<<scope, vars, accessVars, analyticsVars>> => AccessIsSound'
  <2> SUFFICES ASSUME AccessIsSound, [MembersNext]_<<scope, vars, accessVars, analyticsVars>>
               PROVE  AccessIsSound'
    OBVIOUS
  <2>1. CASE Access!Next
    BY <2>1, AccessNext
  <2>2. CASE UNCHANGED accessVars
    BY <2>2 DEF accessVars, AccessIsSound, AccessTyped, EntrantsAreKnown, Restricted, Access!Restricted,
       Access!OnlyOvertakenGrants, Access!MayView, Access!HasGrant, Access!IsFollower, Access!BeingEvicted,
       Access!Listed
  <2> QED
    BY <2>1, <2>2 DEF MembersNext
<1> QED
  BY <1>1, <1>2, PTL DEF MembersSpec

(* Rotating or disabling a link, or ending a follow, takes access from     *)
(* everybody who had it: what outlasts it was given, or entered, while the *)
(* revocation was under way (redeem, topic:join, evictTopic).              *)
THEOREM RevokedAccessEnds == MembersSpec => []OnlyLateAccess
<1>1. AccessIsSound => OnlyLateAccess
  BY DEF AccessIsSound, OnlyLateAccess, Access!OnlyLateAccess, Access!OnlyLateJoinersStay, EntrantsAreKnown,
     Restricted
<1> QED
  BY <1>1, AlwaysAccessIsSound, PTL

-----------------------------------------------------------------------------
(* The analytics.  Sums over sets of members are cardinalities of piles, so *)
(* that the laws of finite sets give those of the sums.                     *)

\* A family of subsets of a finite set has a member that has no smaller one in it.
LEMMA LeastSubset ==
    ASSUME NEW S, IsFiniteSet(S), NEW F \in SUBSET SUBSET S, F # {}
    PROVE  \E T \in F : \A x \in T : T \ {x} \notin F
<1> DEFINE R == StrictSubsetOrdering(S)
<1>1. IsWellFoundedOn(R, SUBSET S)
  BY FS_StrictSubsetOrderingWellFounded, FS_FiniteSubsetsOfFinite
<1>2. \A T, U \in SUBSET S : T \subseteq U /\ T # U => <<T, U>> \in R
  BY DEF StrictSubsetOrdering
<1> HIDE DEF R
<1>3. PICK T \in F : \A U \in F : <<U, T>> \notin R
  BY <1>1, WFMin
<1>4. ASSUME NEW x \in T, T \ {x} \in F PROVE FALSE
  BY <1>2, <1>3, <1>4
<1> QED BY <1>4

\* As many elements for each of s as w says; sums over finite sets are their cardinalities.
Pile(w, s) == {p \in s \X Nat : p[2] \in 1..w[p[1]]}
Mass(w, s) == Cardinality(Pile(w, s))

\* A pile for one element is as high as its weight.
LEMMA PileOfOne ==
    ASSUME NEW S, NEW w \in [S -> Nat], NEW x \in S
    PROVE  IsFiniteSet(Pile(w, {x})) /\ Mass(w, {x}) = w[x]
<1> DEFINE f == [i \in 1..w[x] |-> <<x, i>>]
<1>1. f \in Bijection(1..w[x], Pile(w, {x}))
  <2>1. f \in Injection(1..w[x], Pile(w, {x}))
    BY DEF Injection, IsInjective, Pile
  <2>2. f \in Surjection(1..w[x], Pile(w, {x}))
    <3>1. ASSUME NEW p \in Pile(w, {x}) PROVE p[2] \in 1..w[x] /\ f[p[2]] = p
      BY DEF Pile
    <3> QED BY <2>1, <3>1 DEF Surjection, Injection
  <2> QED BY <2>1, <2>2 DEF Bijection
<1>2. IsFiniteSet(1..w[x]) /\ Cardinality(1..w[x]) = w[x]
  BY FS_Interval
<1>3. ExistsBijection(1..w[x], Pile(w, {x}))
  BY <1>1 DEF ExistsBijection
<1> QED BY <1>2, <1>3, FS_Bijection DEF Mass

\* The piles over a finite set are finite: each is the union of finitely many.
LEMMA PileIsFinite ==
    ASSUME NEW S, IsFiniteSet(S), NEW w \in [S -> Nat], NEW s \in SUBSET S
    PROVE  IsFiniteSet(Pile(w, s)) /\ Mass(w, s) \in Nat
<1> DEFINE F == {T \in SUBSET S : ~IsFiniteSet(Pile(w, T))}
<1>1. ASSUME F # {} PROVE FALSE
  <2>1. PICK T \in F : \A x \in T : T \ {x} \notin F
    BY <1>1, LeastSubset
  <2>2. T # {}
    <3>1. Pile(w, {}) = {}
      BY DEF Pile
    <3> QED BY <2>1, <3>1, FS_EmptySet
  <2>3. PICK x \in T : TRUE
    BY <2>2
  <2>4. IsFiniteSet(Pile(w, T \ {x})) /\ IsFiniteSet(Pile(w, {x}))
    BY <2>1, <2>3, PileOfOne
  <2>5. Pile(w, T) = Pile(w, T \ {x}) \cup Pile(w, {x})
    BY <2>3 DEF Pile
  <2>6. IsFiniteSet(Pile(w, T \ {x}) \cup Pile(w, {x}))
    BY <2>4, FS_Union
  <2> QED BY <2>1, <2>5, <2>6
<1>2. IsFiniteSet(Pile(w, s))
  BY <1>1
<1> QED BY <1>2, FS_CardinalityType DEF Mass

\* Parts that have nothing in common add up.
LEMMA MassAdds ==
    ASSUME NEW S, IsFiniteSet(S), NEW w \in [S -> Nat], NEW s \in SUBSET S, NEW t \in SUBSET S, s \cap t = {}
    PROVE  Mass(w, s \cup t) = Mass(w, s) + Mass(w, t)
<1>1. IsFiniteSet(Pile(w, s)) /\ IsFiniteSet(Pile(w, t)) /\ Mass(w, s) \in Nat /\ Mass(w, t) \in Nat
  BY PileIsFinite
<1>2. Pile(w, s \cup t) = Pile(w, s) \cup Pile(w, t) /\ Pile(w, s) \cap Pile(w, t) = {}
  BY DEF Pile
<1>3. Cardinality(Pile(w, s) \cap Pile(w, t)) = 0
  BY <1>2, FS_EmptySet
<1>4. Cardinality(Pile(w, s) \cup Pile(w, t)) = Mass(w, s) + Mass(w, t) - Cardinality(Pile(w, s) \cap Pile(w, t))
  BY <1>1, FS_Union DEF Mass
<1>5. Mass(w, s \cup t) = Mass(w, s) + Mass(w, t) - 0
  BY <1>2, <1>3, <1>4 DEF Mass
<1> QED BY <1>1, <1>5

\* Nothing has no mass.
LEMMA MassOfNone == ASSUME NEW w PROVE Mass(w, {}) = 0
<1>1. Pile(w, {}) = {}
  BY DEF Pile
<1> QED BY <1>1, FS_EmptySet DEF Mass

\* One element is taken out of the sum.
LEMMA MassWithout ==
    ASSUME NEW S, IsFiniteSet(S), NEW w \in [S -> Nat], NEW s \in SUBSET S, NEW x \in s
    PROVE  Mass(w, s) = w[x] + Mass(w, s \ {x})
<1>1. s = {x} \cup (s \ {x}) /\ {x} \cap (s \ {x}) = {}
  OBVIOUS
<1>2. Mass(w, {x}) = w[x]
  BY PileOfOne
<1> QED BY <1>1, <1>2, MassAdds

\* A part has at most the mass of the whole, and the rest has the difference.
LEMMA MassGrows ==
    ASSUME NEW S, IsFiniteSet(S), NEW w \in [S -> Nat], NEW s \in SUBSET S, NEW t \in SUBSET s
    PROVE  Mass(w, t) <= Mass(w, s) /\ Mass(w, s) = Mass(w, t) + Mass(w, s \ t)
<1>1. s = t \cup (s \ t) /\ t \cap (s \ t) = {}
  OBVIOUS
<1>2. Mass(w, s) = Mass(w, t) + Mass(w, s \ t)
  BY <1>1, MassAdds
<1>3. Mass(w, t) \in Nat /\ Mass(w, s \ t) \in Nat
  BY PileIsFinite
<1> QED BY <1>2, <1>3

\* The fold of the community modules, as a function on the subsets.
Folds(w, S, g) ==
    g = [s \in SUBSET S |-> IF s = {} THEN 0 ELSE w[CHOOSE x \in s : TRUE] + g[s \ {CHOOSE x \in s : TRUE}]]

\* The fold exists, and whatever order it takes the elements in, it returns the mass.
LEMMA FoldIsMass ==
    ASSUME NEW S, IsFiniteSet(S), NEW w \in [S -> Nat]
    PROVE  /\ \E g : Folds(w, S, g)
           /\ \A g : Folds(w, S, g) => g[S] = Mass(w, S)
<1> DEFINE c(s) == CHOOSE x \in s : TRUE
<1>0. \A s \in SUBSET S : s # {} => c(s) \in s
  OBVIOUS
<1>1. \E g : Folds(w, S, g)
  <2> DEFINE g == [s \in SUBSET S |-> Mass(w, s)]
  <2>1. ASSUME NEW s \in SUBSET S
        PROVE  Mass(w, s) = IF s = {} THEN 0 ELSE w[c(s)] + g[s \ {c(s)}]
    <3>1. CASE s = {}
      BY <3>1, MassOfNone
    <3>2. CASE s # {}
      <4>1. c(s) \in s /\ s \ {c(s)} \in SUBSET S
        BY <1>0, <3>2
      <4> HIDE DEF c
      <4>2. Mass(w, s) = w[c(s)] + Mass(w, s \ {c(s)})
        BY <4>1, MassWithout
      <4> QED BY <3>2, <4>1, <4>2
    <3> QED BY <3>1, <3>2
  <2>2. Folds(w, S, g)
    BY <2>1 DEF Folds
  <2> QED BY <2>2
<1>2. ASSUME NEW g, Folds(w, S, g) PROVE g[S] = Mass(w, S)
  <2> DEFINE F == {T \in SUBSET S : g[T] # Mass(w, T)}
  <2>1. ASSUME NEW s \in SUBSET S PROVE g[s] = IF s = {} THEN 0 ELSE w[c(s)] + g[s \ {c(s)}]
    BY <1>2 DEF Folds
  <2>2. ASSUME F # {} PROVE FALSE
    <3>1. PICK T \in F : \A x \in T : T \ {x} \notin F
      BY <2>2, LeastSubset
    <3>2. CASE T = {}
      BY <2>1, <3>1, <3>2, MassOfNone
    <3>3. CASE T # {}
      <4>1. c(T) \in T /\ T \in SUBSET S
        BY <1>0, <3>3
      <4>2. g[T \ {c(T)}] = Mass(w, T \ {c(T)})
        BY <3>1, <4>1
      <4>3. g[T] = w[c(T)] + g[T \ {c(T)}]
        BY <2>1, <3>3
      <4> HIDE DEF c
      <4>4. Mass(w, T) = w[c(T)] + Mass(w, T \ {c(T)})
        BY <4>1, MassWithout
      <4> QED BY <3>1, <4>2, <4>3, <4>4
    <3> QED BY <3>2, <3>3
  <2> QED BY <2>2
<1> QED BY <1>1, <1>2

-----------------------------------------------------------------------------
(* The members of a topic's analytics.                                     *)

\* People is a finite bag of rows that have a group, or none.
PeopleAreCounted ==
    /\ IsFiniteSet(DOMAIN people)
    /\ people \in [DOMAIN people -> Nat \ {0}]
    /\ \A r \in DOMAIN people : "group" \in DOMAIN r /\ r.group \in Groups \cup {None}

\* What the model counts with a fold is the mass of the rows.
LEMMA NumberIsMass ==
    ASSUME PeopleAreCounted, NEW S \in SUBSET DOMAIN people
    PROVE  Analytics!Number(S) = Mass(people, S)
<1> DEFINE c(s) == CHOOSE x \in s : TRUE
           w == [x \in S |-> people[x]]
           Weighed(g) == [s \in SUBSET S |-> IF s = {} THEN 0 ELSE w[c(s)] + g[s \ {c(s)}]]
           Counted(g) == [s \in SUBSET S |-> IF s = {} THEN 0 ELSE Analytics!Copies(c(s)) + g[s \ {c(s)}]]
           G == CHOOSE g : g = Counted(g)
<1>1. Analytics!Number(S) = G[S]
  BY DEF Analytics!Number, Analytics!MapThenSumSet, Analytics!MapThenFoldSet
<1>2. \A g : Weighed(g) = Counted(g)
  <2>1. ASSUME NEW s \in SUBSET S, s # {} PROVE c(s) \in s
    BY <2>1
  <2> HIDE DEF c
  <2>2. ASSUME NEW s \in SUBSET S, s # {} PROVE w[c(s)] = Analytics!Copies(c(s))
    BY <2>1, <2>2 DEF Analytics!Copies
  <2> HIDE DEF w
  <2> QED BY <2>2
<1>3. IsFiniteSet(S) /\ w \in [S -> Nat]
  BY FS_Subset DEF PeopleAreCounted
<1>4. Folds(w, S, G)
  <2>0. \A g : Folds(w, S, g) <=> g = Weighed(g)
    BY DEF Folds
  <2> HIDE DEF Weighed, Counted, w
  <2>1. \E g : g = Weighed(g)
    BY <1>3, <2>0, FoldIsMass
  <2>2. \E g : g = Counted(g)
    BY <1>2, <2>1
  <2>3. G = Counted(G)
    BY <2>2
  <2> HIDE DEF G
  <2> QED BY <1>2, <2>0, <2>3
<1>5. G[S] = Mass(w, S)
  <2> HIDE DEF G, w
  <2> QED BY <1>3, <1>4, FoldIsMass
<1>6. Pile(w, S) = Pile(people, S)
  BY DEF Pile
<1> QED BY <1>1, <1>5, <1>6 DEF Mass

\* So is the sum of a function.
LEMMA SumIsMass ==
    ASSUME NEW D, IsFiniteSet(D), NEW f \in [D -> Nat]
    PROVE  Analytics!SumOf(f) = Mass(f, D)
<1> DEFINE G == CHOOSE g : g = [s \in SUBSET D |-> IF s = {} THEN 0 ELSE f[CHOOSE x \in s : TRUE] + g[s \ {CHOOSE x \in s : TRUE}]]
<1>1. Analytics!SumOf(f) = G[D]
  BY DEF Analytics!SumOf, Analytics!MapThenSumSet, Analytics!MapThenFoldSet
<1>2. Folds(f, D, G)
  <2>1. \E g : Folds(f, D, g)
    BY FoldIsMass
  <2> QED BY <2>1 DEF Folds
<1> HIDE DEF G
<1> QED BY <1>1, <1>2, FoldIsMass

\* The sizes of disjoint groups of members add up to the number of those in one of them.
LEMMA GroupsAddUp ==
    ASSUME PeopleAreCounted, NEW S \in SUBSET DOMAIN people, NEW shown, IsFiniteSet(shown),
           NEW f \in [shown -> Nat], \A h \in shown : f[h] = Mass(people, {r \in S : r.group = h})
    PROVE  Mass(f, shown) = Mass(people, {r \in S : r.group \in shown})
<1> DEFINE In(T) == {r \in S : r.group \in T}
           F == {T \in SUBSET shown : Mass(f, T) # Mass(people, In(T))}
<1>1. ASSUME F # {} PROVE FALSE
  <2>1. PICK T \in F : \A x \in T : T \ {x} \notin F
    BY <1>1, LeastSubset
  <2>2. CASE T = {}
    <3>1. In({}) = {}
      OBVIOUS
    <3> QED BY <2>1, <2>2, <3>1, MassOfNone
  <2>3. CASE T # {}
    <3>1. PICK h \in T : TRUE
      BY <2>3
    <3>2. Mass(f, T \ {h}) = Mass(people, In(T \ {h}))
      BY <2>1, <3>1
    <3>3. Mass(f, T) = f[h] + Mass(f, T \ {h})
      BY <2>1, <3>1, MassWithout
    <3>4. In(T) = In({h}) \cup In(T \ {h}) /\ In({h}) \cap In(T \ {h}) = {}
      BY <3>1
    <3>5. people \in [DOMAIN people -> Nat] /\ IsFiniteSet(DOMAIN people)
      BY DEF PeopleAreCounted
    <3>6. In({h}) \in SUBSET DOMAIN people /\ In(T \ {h}) \in SUBSET DOMAIN people
      OBVIOUS
    <3>7. Mass(people, In(T)) = Mass(people, In({h})) + Mass(people, In(T \ {h}))
      <4> DEFINE A == In({h})
                 B == In(T \ {h})
      <4>1. A \in SUBSET DOMAIN people /\ B \in SUBSET DOMAIN people /\ A \cap B = {}
        BY <3>4, <3>6
      <4> HIDE DEF A, B
      <4>2. Mass(people, A \cup B) = Mass(people, A) + Mass(people, B)
        BY <3>5, <4>1, MassAdds
      <4> QED BY <3>4, <4>2 DEF A, B
    <3>8. f[h] = Mass(people, In({h}))
      <4>1. In({h}) = {r \in S : r.group = h}
        OBVIOUS
      <4> QED BY <2>1, <3>1, <4>1
    <3> QED BY <2>1, <3>2, <3>3, <3>7, <3>8
  <2> QED BY <2>2, <2>3
<1> QED BY <1>1

\* The module counts with the cardinality of FiniteSets.
LEMMA SameCardinality == \A S : Analytics!Cardinality(S) = Cardinality(S)
BY DEF Analytics!Cardinality, Cardinality

\* The larger of two numbers is a number, and not the smaller.
LEMMA LargerOfTwo ==
    ASSUME NEW a \in Nat, NEW b \in Nat
    PROVE  Analytics!Max({a, b}) \in Nat /\ Analytics!Max({a, b}) >= b
<1>1. \E x \in {a, b} : \A y \in {a, b} : x >= y
  <2>1. CASE a >= b
    BY <2>1
  <2>2. CASE ~(a >= b)
    BY <2>2
  <2> QED BY <2>1, <2>2
<1> QED BY <1>1 DEF Analytics!Max

\* Thresholds are numbers, and in production not below the minimum (privacyThreshold).
LEMMA ThresholdsHold ==
    ASSUME environment \in Environments, NEW d
    PROVE  LET thresholds == Analytics!demographicThresholds(d) IN
           /\ thresholds.total \in Nat /\ thresholds.cohort \in Nat
           /\ environment.mode = "production" =>
                thresholds.cohort >= IF d = "DISTRICT" THEN DistrictCohortMin ELSE CohortMin
<1>1. ASSUME NEW v \in Nat \cup {None}, NEW m \in Nat
      PROVE  /\ Analytics!privacyThreshold(v, m) \in Nat
             /\ environment.mode = "production" => Analytics!privacyThreshold(v, m) >= m
  BY LargerOfTwo DEF Analytics!privacyThreshold
<1>2. {environment.total, environment.cohort} \subseteq Nat \cup {None}
      /\ TotalMin \in Nat /\ CohortMin \in Nat /\ DistrictTotalMin \in Nat /\ DistrictCohortMin \in Nat
  BY AnalyticsAssumption
<1> QED BY <1>1, <1>2 DEF Analytics!demographicThresholds

\* The samples and the groups among them are counted by their mass; the groups that exist are those with members.
LEMMA CohortsAreCounted ==
    ASSUME PeopleAreCounted, NEW d
    PROVE  /\ Analytics!Samples(d) \in SUBSET DOMAIN people
           /\ Analytics!Number(Analytics!Samples(d)) = Mass(people, Analytics!Samples(d))
           /\ Mass(people, Analytics!Samples(d)) \in Nat
           /\ \A g : /\ Analytics!Number(Analytics!Cohort(d, g)) = Mass(people, Analytics!Cohort(d, g))
                     /\ Mass(people, Analytics!Cohort(d, g)) \in Nat
           /\ \A g \in Groups : g \in Analytics!Cohorts(d) <=> Analytics!Cohort(d, g) # {}
           /\ IsFiniteSet(Analytics!Cohorts(d))
<1>0. people \in [DOMAIN people -> Nat] /\ IsFiniteSet(DOMAIN people)
  BY DEF PeopleAreCounted
<1>1. Analytics!Samples(d) \in SUBSET DOMAIN people
  BY DEF Analytics!Samples, Analytics!VoteRows
<1>2. ASSUME NEW g PROVE Analytics!Cohort(d, g) \in SUBSET DOMAIN people
  BY <1>1 DEF Analytics!Cohort
<1>3. Analytics!Number(Analytics!Samples(d)) = Mass(people, Analytics!Samples(d)) /\ Mass(people, Analytics!Samples(d)) \in Nat
  BY <1>0, <1>1, NumberIsMass, PileIsFinite
<1>4. ASSUME NEW g PROVE Analytics!Number(Analytics!Cohort(d, g)) = Mass(people, Analytics!Cohort(d, g))
                         /\ Mass(people, Analytics!Cohort(d, g)) \in Nat
  BY <1>0, <1>2, NumberIsMass, PileIsFinite
<1>5. ASSUME NEW g \in Groups PROVE g \in Analytics!Cohorts(d) <=> Analytics!Cohort(d, g) # {}
  <2> DEFINE C == Analytics!Cohort(d, g)
  <2>1. g \in Analytics!Cohorts(d) <=> Mass(people, C) > 0
    BY <1>4 DEF Analytics!Cohorts
  <2>2. C = {} => Mass(people, C) = 0
    BY MassOfNone
  <2>3. ASSUME NEW r \in C PROVE Mass(people, C) > 0
    <3>1. C \in SUBSET DOMAIN people
      BY <1>2
    <3> HIDE DEF C
    <3>2. Mass(people, C) = people[r] + Mass(people, C \ {r}) /\ Mass(people, C \ {r}) \in Nat
      BY <1>0, <3>1, MassWithout, PileIsFinite
    <3>3. people[r] \in Nat \ {0}
      BY <3>1 DEF PeopleAreCounted
    <3> QED BY <3>2, <3>3
  <2> HIDE DEF C
  <2> QED BY <2>1, <2>2, <2>3 DEF C
<1>6. IsFiniteSet(Analytics!Cohorts(d))
  <2> DEFINE S == Analytics!Samples(d)
             T == {r.group : r \in S}
             f == [r \in S |-> r.group]
  <2>1. IsFiniteSet(S)
    BY <1>0, <1>1, FS_Subset
  <2>2. f \in Surjection(S, T)
    BY DEF Surjection
  <2>3. IsFiniteSet(T)
    <3> HIDE DEF S, T, f
    <3> QED BY <2>1, <2>2, FS_Surjection
  <2>4. Analytics!Cohorts(d) \in SUBSET T
    BY <1>5 DEF Analytics!Cohort, Analytics!Cohorts
  <2> HIDE DEF T
  <2> QED BY <2>3, <2>4, FS_Subset
<1> QED BY <1>1, <1>3, <1>4, <1>5, <1>6

\* Whoever is hidden is not alone, unless everybody is.
LEMMA HiddenHasCompany ==
    ASSUME PeopleAreCounted, NEW d, NEW shown \in Analytics!Shown(d), NEW g \in Analytics!Cohorts(d) \ shown
    PROVE  /\ shown \subseteq Analytics!Cohorts(d)
           /\ \/ \E h \in Analytics!Cohorts(d) \ shown : h # g
              \/ /\ shown = {}
                 /\ Analytics!Cohorts(d) = {g}
                 /\ ~(Analytics!Number(Analytics!Cohort(d, g)) >= Analytics!demographicThresholds(d).cohort)
<1> DEFINE cohort == Analytics!demographicThresholds(d).cohort
           all == Analytics!Cohorts(d)
           visible == {x \in all : Analytics!Number(Analytics!Cohort(d, x)) >= cohort}
<1>1. \/ Cardinality(all \ visible) = 1 /\ visible # {} /\ \E x \in visible : shown = visible \ {x}
      \/ ~(Cardinality(all \ visible) = 1 /\ visible # {}) /\ shown = visible
  <2> DEFINE size(x) == Analytics!Number(Analytics!Cohort(d, x))
             smallest == {x \in visible : \A h \in visible : size(x) <= size(h)}
  <2>1. Analytics!Shown(d) = IF Cardinality(all \ visible) = 1 /\ visible # {} THEN {visible \ {x} : x \in smallest} ELSE {visible}
    BY SameCardinality DEF Analytics!Shown
  <2>2. smallest \subseteq visible
    OBVIOUS
  <2> HIDE DEF all, visible, smallest
  <2> QED BY <2>1, <2>2
<1>2. IsFiniteSet(all \ visible)
  <2>1. all \ visible \in SUBSET all /\ IsFiniteSet(all)
    BY CohortsAreCounted
  <2> HIDE DEF all, visible
  <2> QED BY <2>1, FS_Subset
<1>3. Cardinality(all \ visible) = 1 <=> \E x : all \ visible = {x}
  <2> HIDE DEF all, visible
  <2> QED BY <1>2, FS_Singleton
<1>4. visible \subseteq all /\ g \in all \ shown
  OBVIOUS
<1>5. g \notin visible => ~(Analytics!Number(Analytics!Cohort(d, g)) >= cohort)
  OBVIOUS
<1> HIDE DEF all, visible, cohort
<1>6. CASE Cardinality(all \ visible) = 1 /\ visible # {}
  <2>1. PICK x \in visible : shown = visible \ {x}
    BY <1>1, <1>6
  <2>2. PICK y : all \ visible = {y}
    BY <1>3, <1>6
  <2>3. x # y /\ x \in all \ shown /\ y \in all \ shown /\ shown \subseteq all
    BY <1>4, <2>1, <2>2
  <2>4. \E h \in all \ shown : h # g
    BY <2>3
  <2> QED BY <2>3, <2>4 DEF all
<1>7. CASE ~(Cardinality(all \ visible) = 1 /\ visible # {})
  <2>1. shown = visible /\ shown \subseteq all
    BY <1>1, <1>4, <1>7
  <2>2. CASE \E h \in all \ shown : h # g
    BY <2>1, <2>2 DEF all
  <2>3. CASE ~\E h \in all \ shown : h # g
    <3>1. all \ visible = {g}
      BY <1>4, <2>1, <2>3
    <3>2. visible = {}
      BY <1>3, <1>7, <3>1
    <3>3. all = {g} /\ g \notin visible
      BY <3>1, <3>2
    <3> QED BY <1>5, <2>1, <3>2, <3>3 DEF all, cohort
  <2> QED BY <2>2, <2>3
<1> QED BY <1>6, <1>7

\* What is left of the baseline without the groups that are shown is not the size of one hidden group.
LEMMA HiddenIsProtected ==
    ASSUME PeopleAreCounted, environment \in Environments, NEW d, NEW shown \in Analytics!Shown(d),
           NEW g \in Analytics!Cohorts(d) \ shown,
           Analytics!Number(Analytics!Samples(d)) >= Analytics!demographicThresholds(d).total,
           Analytics!demographicThresholds(d).cohort <= Analytics!demographicThresholds(d).total,
           NEW f, f = [h \in shown |-> Analytics!Number(Analytics!Cohort(d, h))]
    PROVE  Analytics!Number(Analytics!Cohort(d, g)) # Analytics!Number(Analytics!Samples(d)) - Analytics!SumOf(f)
<1> DEFINE all == Analytics!Cohorts(d)
           S == Analytics!Samples(d)
           Of(x) == Analytics!Cohort(d, x)
           Rest == {r \in S : r.group \notin shown}
           In == {r \in S : r.group \in shown}
<1>0. people \in [DOMAIN people -> Nat] /\ IsFiniteSet(DOMAIN people) /\ S \in SUBSET DOMAIN people
  BY CohortsAreCounted DEF PeopleAreCounted
<1>1. shown \subseteq all /\ IsFiniteSet(shown)
  BY HiddenHasCompany, CohortsAreCounted, FS_Subset
<1>2. \A x : Analytics!Number(Of(x)) = Mass(people, Of(x)) /\ Mass(people, Of(x)) \in Nat
  BY CohortsAreCounted
<1>3. f \in [shown -> Nat] /\ \A h \in shown : f[h] = Mass(people, {r \in S : r.group = h})
  <2>1. \A x : Of(x) = {r \in S : r.group = x}
    BY DEF Analytics!Cohort
  <2>2. f = [h \in shown |-> Mass(people, Of(h))]
    BY <1>2
  <2> HIDE DEF Of, S
  <2>3. \A h \in shown : Mass(people, Of(h)) \in Nat /\ f[h] = Mass(people, Of(h))
    BY <1>2, <2>2
  <2>4. f \in [shown -> Nat]
    BY <2>2, <2>3
  <2> QED BY <2>1, <2>3, <2>4
<1>4. Analytics!SumOf(f) = Mass(people, In)
  <2>1. Analytics!SumOf(f) = Mass(f, shown)
    BY <1>1, <1>3, SumIsMass
  <2>2. Mass(f, shown) = Mass(people, In)
    <3> HIDE DEF S
    <3> QED BY SMTT(30), <1>0, <1>1, <1>3, GroupsAddUp
  <2> QED BY <2>1, <2>2
<1>5. Mass(people, S) = Mass(people, In) + Mass(people, Rest) /\ Mass(people, In) \in Nat /\ Mass(people, Rest) \in Nat
  <2>1. In \in SUBSET S /\ S \ In = Rest
    OBVIOUS
  <2>2. In \in SUBSET DOMAIN people /\ Rest \in SUBSET DOMAIN people
    BY <1>0
  <2> HIDE DEF In, Rest, S
  <2> QED BY <1>0, <2>1, <2>2, MassGrows, PileIsFinite
<1>6. Analytics!Number(S) - Analytics!SumOf(f) = Mass(people, Rest)
  <2>1. Analytics!Number(S) = Mass(people, S)
    BY CohortsAreCounted
  <2> HIDE DEF In, Rest, S
  <2> QED BY <1>4, <1>5, <2>1
<1>7. ASSUME NEW x \in all \ shown PROVE Of(x) \in SUBSET Rest /\ Rest \in SUBSET DOMAIN people /\ Mass(people, Of(x)) > 0
  <2>1. Mass(people, Of(x)) > 0
    BY <1>2 DEF Analytics!Cohorts
  <2> QED BY <1>0, <2>1 DEF Analytics!Cohort
<1>8. CASE \E h \in all \ shown : h # g
  <2>1. PICK h \in all \ shown : h # g
    BY <1>8
  <2>2. Of(h) \in SUBSET (Rest \ Of(g))
    BY <1>7, <2>1 DEF Analytics!Cohort
  <2>3. Mass(people, Rest) = Mass(people, Of(g)) + Mass(people, Rest \ Of(g))
    <3> HIDE DEF Rest, Of
    <3> QED BY <1>0, <1>7, MassGrows
  <2>4. Mass(people, Of(h)) <= Mass(people, Rest \ Of(g)) /\ Mass(people, Rest \ Of(g)) \in Nat
    <3> DEFINE Others == Rest \ Of(g)
    <3>1. Others \in SUBSET DOMAIN people
      BY <1>0
    <3> HIDE DEF Others, Of
    <3>2. Of(h) \in SUBSET Others
      BY <2>2 DEF Others
    <3> QED BY <1>0, <3>1, <3>2, MassGrows, PileIsFinite DEF Others
  <2>5. Mass(people, Of(h)) > 0 /\ Mass(people, Of(h)) \in Nat /\ Mass(people, Of(g)) \in Nat
    BY <1>2, <1>7, <2>1
  <2>6. Analytics!Number(Of(g)) = Mass(people, Of(g))
    BY <1>2
  <2> HIDE DEF Rest, Of, S
  <2> QED BY <1>6, <2>3, <2>4, <2>5, <2>6 DEF S, Of
<1>9. CASE ~\E h \in all \ shown : h # g
  <2>1. shown = {} /\ all = {g} /\ ~(Analytics!Number(Of(g)) >= Analytics!demographicThresholds(d).cohort)
    BY <1>9, HiddenHasCompany
  <2>2. ASSUME NEW r \in S PROVE r \in Of(g)
    <3>1. r.group \in Groups
      BY <1>0 DEF Analytics!Samples, PeopleAreCounted
    <3>2. Of(r.group) # {}
      BY DEF Analytics!Cohort
    <3>3. r.group \in all
      BY <3>1, <3>2, CohortsAreCounted
    <3> QED BY <2>1, <3>3 DEF Analytics!Cohort
  <2>3. S = Of(g)
    BY <2>2 DEF Analytics!Cohort
  <2>4. Analytics!Number(Of(g)) \in Nat /\ Analytics!demographicThresholds(d).cohort \in Nat /\ Analytics!demographicThresholds(d).total \in Nat
    BY <1>2, ThresholdsHold
  <2> QED BY <2>1, <2>3, <2>4
<1> QED BY <1>8, <1>9

-----------------------------------------------------------------------------

\* What a behaviour is about.
Subjects == {"trend", "group", "scale", "stance", "opinion"}

\* Whatever a member does, the row has a group of the profile or none.
LEMMA RowsHaveGroups ==
    ASSUME subject \in Subjects, NEW q \in Analytics!Rows \cup {Analytics!Blank}
    PROVE  "group" \in DOMAIN q /\ q.group \in Groups \cup {None}
<1> DEFINE ok(r) == "group" \in DOMAIN r /\ r.group \in Groups \cup {None}
<1>1. ok(Analytics!Blank)
  BY DEF Analytics!Blank
<1>2. ASSUME NEW c, NEW t PROVE ok(Analytics!Chose(c, t))
  BY DEF Analytics!Blank, Analytics!Chose
<1>3. ASSUME NEW v, NEW g \in Groups PROVE ok(Analytics!Placed(v, g))
  BY DEF Analytics!Blank, Analytics!Placed
<1>4. ASSUME NEW c, NEW v, NEW s, NEW n PROVE ok(Analytics!Signalled(c, v, s, n))
  BY DEF Analytics!Blank, Analytics!Signalled
<1>5. ASSUME NEW c, NEW g \in Groups
      PROVE  ok([Analytics!Chose(c, 0) EXCEPT !.group = g]) /\ ok([Analytics!Chose(c, 0) EXCEPT !.group = g, !.legacy = TRUE])
  BY DEF Analytics!Blank, Analytics!Chose
<1> HIDE DEF ok
<1>6. \A x \in Analytics!TimedVotes : ok(x)
  BY <1>2 DEF Analytics!TimedVotes
<1>7. \A x \in Analytics!GroupVotes : ok(x)
  BY ZenonT(60), <1>2, <1>5 DEF Analytics!GroupVotes
<1>8. \A x \in Analytics!Positions : ok(x)
  BY <1>3 DEF Analytics!Positions
<1>9. \A x \in Analytics!Supporters : ok(x)
  BY <1>4 DEF Analytics!Supporters
<1>10. \A x \in Analytics!Opinions : ok(x)
  BY <1>4 DEF Analytics!Opinions
<1>11. q \in Analytics!TimedVotes \cup Analytics!GroupVotes \cup Analytics!Positions \cup Analytics!Supporters
            \cup Analytics!Opinions \cup {Analytics!Blank}
  BY DEF Analytics!Rows, Subjects
<1>12. ok(q)
  BY <1>1, <1>6, <1>7, <1>8, <1>9, <1>10, <1>11
<1> QED BY <1>12 DEF ok

\* A member who casts, withdraws or signals leaves a finite bag.
LEMMA BecomesCounted ==
    ASSUME PeopleAreCounted, subject \in Subjects, NEW r, NEW q \in Analytics!Rows \cup {Analytics!Blank},
           Analytics!Becomes(r, q)
    PROVE  PeopleAreCounted'
<1>1. PICK less : /\ DOMAIN less \subseteq DOMAIN people
                  /\ less \in [DOMAIN less -> Nat \ {0}]
                  /\ people' = [x \in DOMAIN less \cup DOMAIN Analytics!One(q) |->
                                  (IF x \in DOMAIN less THEN less[x] ELSE 0) + IF x \in DOMAIN Analytics!One(q) THEN Analytics!One(q)[x] ELSE 0]
  <2> DEFINE left == [x \in DOMAIN people |-> IF x \in DOMAIN Analytics!One(r) THEN people[x] - Analytics!One(r)[x] ELSE people[x]]
             less == [x \in {y \in DOMAIN left : left[y] > 0} |-> left[x]]
  <2>1. people' = [x \in DOMAIN less \cup DOMAIN Analytics!One(q) |->
                    (IF x \in DOMAIN less THEN less[x] ELSE 0) + IF x \in DOMAIN Analytics!One(q) THEN Analytics!One(q)[x] ELSE 0]
    BY DEF Analytics!Becomes, Analytics!(+), Analytics!(-)
  <2>2. \A x \in DOMAIN Analytics!One(r) : Analytics!One(r)[x] = 1
    BY DEF Analytics!One, Analytics!SetToBag, Analytics!EmptyBag
  <2>3. \A x \in DOMAIN less : less[x] \in Nat \ {0} /\ x \in DOMAIN people
    BY <2>2 DEF PeopleAreCounted
  <2> QED BY <2>1, <2>3
<1>2. /\ DOMAIN Analytics!One(q) \subseteq {q}
      /\ \A x \in DOMAIN Analytics!One(q) : Analytics!One(q)[x] = 1
  BY DEF Analytics!One, Analytics!SetToBag, Analytics!EmptyBag
<1>3. DOMAIN people' \in SUBSET (DOMAIN people \cup {q})
  BY <1>1, <1>2
<1>4. IsFiniteSet(DOMAIN people')
  <2>1. IsFiniteSet(DOMAIN people \cup {q})
    BY FS_AddElement DEF PeopleAreCounted
  <2> QED BY <1>3, <2>1, FS_Subset
<1>5. people' \in [DOMAIN people' -> Nat \ {0}]
  BY <1>1, <1>2
<1>6. \A x \in DOMAIN people' : "group" \in DOMAIN x /\ x.group \in Groups \cup {None}
  BY <1>3, RowsHaveGroups DEF PeopleAreCounted
<1> QED BY <1>4, <1>5, <1>6 DEF PeopleAreCounted

\* Marking who was seen changes nobody's group, and forgets nobody.
LEMMA MarksCounted ==
    ASSUME PeopleAreCounted, NEW W, NEW f \in [DOMAIN people -> W],
           \A r \in DOMAIN people : "group" \in DOMAIN f[r] /\ f[r].group = r.group,
           people' = [q \in {f[r] : r \in DOMAIN people} \ {Analytics!Blank} |->
                        Analytics!Number({r \in DOMAIN people : f[r] = q})]
    PROVE  PeopleAreCounted'
<1> DEFINE T == {f[r] : r \in DOMAIN people}
<1>1. DOMAIN people' \in SUBSET T
  OBVIOUS
<1>2. IsFiniteSet(T)
  <2>1. f \in Surjection(DOMAIN people, T)
    BY DEF Surjection
  <2> HIDE DEF T
  <2> QED BY <2>1, FS_Surjection DEF PeopleAreCounted
<1>3. IsFiniteSet(DOMAIN people')
  <2> HIDE DEF T
  <2> QED BY <1>1, <1>2, FS_Subset
<1>4. ASSUME NEW q \in DOMAIN people' PROVE people'[q] \in Nat \ {0}
  <2> DEFINE S == {r \in DOMAIN people : f[r] = q}
  <2>0. people'[q] = Analytics!Number(S)
    <3> QED BY <1>4
  <2>1. PICK r \in S : TRUE
    BY <1>1
  <2>2. S \in SUBSET DOMAIN people
    OBVIOUS
  <2> HIDE DEF S
  <2>3. /\ people \in [DOMAIN people -> Nat] /\ IsFiniteSet(DOMAIN people)
        /\ people[r] \in Nat \ {0}
    BY <2>1, <2>2 DEF PeopleAreCounted
  <2>4. Mass(people, S) = people[r] + Mass(people, S \ {r}) /\ Mass(people, S \ {r}) \in Nat
    BY <2>1, <2>2, <2>3, MassWithout, PileIsFinite
  <2>5. Analytics!Number(S) = Mass(people, S)
    BY <2>2, NumberIsMass
  <2> QED BY <2>0, <2>3, <2>4, <2>5
<1>6. \A x \in DOMAIN people' : "group" \in DOMAIN x /\ x.group \in Groups \cup {None}
  BY <1>1 DEF PeopleAreCounted
<1>7. people' \in [DOMAIN people' -> Nat \ {0}]
  BY <1>4
<1> QED BY <1>3, <1>6, <1>7 DEF PeopleAreCounted

-----------------------------------------------------------------------------
\* The audit comes before the snapshots, and an answer ends its request.
ReadingGoesOn ==
    /\ DOMAIN reading = DOMAIN Analytics!Idle
    /\ reading.at = "snapshots" => reading.audited
    /\ answer # None => reading.at = "idle"

\* The inductive invariant: nothing is answered in the other scopes.
AnalyticsSound ==
    IF scope = "analytics"
    THEN /\ subject \in Subjects /\ environment \in Environments
         /\ PeopleAreCounted /\ ReadingGoesOn /\ HiddenGroupsStayHidden
    ELSE answer = None

\* At first nobody has voted and nothing is answered.
LEMMA AnalyticsStarts ==
    ASSUME Analytics!Init, scope = "analytics"
    PROVE  AnalyticsSound
<1>1. people = Analytics!EmptyBag /\ answer = None /\ reading = Analytics!Idle
  BY DEF Analytics!Init
<1>2. DOMAIN people = {}
  BY <1>1 DEF Analytics!EmptyBag, Analytics!SetToBag
<1>3. IsFiniteSet(DOMAIN people)
  BY <1>2, FS_EmptySet
<1>4. people \in [DOMAIN people -> Nat \ {0}]
  BY <1>1, <1>2 DEF Analytics!EmptyBag, Analytics!SetToBag
<1>5. ReadingGoesOn
  BY <1>1 DEF ReadingGoesOn, Analytics!Idle
<1>6. HiddenGroupsStayHidden
  BY <1>1 DEF HiddenGroupsStayHidden, Analytics!HiddenGroupsStayHidden
<1>7. subject \in Subjects /\ environment \in Environments
  BY DEF Analytics!Init, Subjects
<1> QED BY <1>2, <1>3, <1>4, <1>5, <1>6, <1>7 DEF AnalyticsSound, PeopleAreCounted

\* Answers to other questions show no groups.
LEMMA UnansweredHidesAll ==
    ASSUME answer' = None \/ (answer' # None /\ answer'.question # "demographics")
    PROVE  HiddenGroupsStayHidden'
BY DEF HiddenGroupsStayHidden, Analytics!HiddenGroupsStayHidden

\* Every group that is shown reaches the threshold.
LEMMA ShownAreLarge ==
    ASSUME NEW d, NEW shown \in Analytics!Shown(d), NEW g \in shown
    PROVE  Analytics!Number(Analytics!Cohort(d, g)) >= Analytics!demographicThresholds(d).cohort
BY DEF Analytics!Shown

\* As long as the members are the same, so are the groups and thresholds.
LEMMA SameMembersSameCohorts ==
    ASSUME people' = people, subject' = subject, environment' = environment
    PROVE  \A d : /\ Analytics!Cohorts(d)' = Analytics!Cohorts(d)
                 /\ \A g : Analytics!Number(Analytics!Cohort(d, g))' = Analytics!Number(Analytics!Cohort(d, g))
                 /\ Analytics!demographicThresholds(d)' = Analytics!demographicThresholds(d)
<1>1. \A d : Analytics!demographicThresholds(d)' = Analytics!demographicThresholds(d)
  BY DEF Analytics!demographicThresholds, Analytics!privacyThreshold
<1>2. \A d, g : Analytics!Cohort(d, g)' = Analytics!Cohort(d, g)
  BY DEF Analytics!Cohort, Analytics!Samples, Analytics!VoteRows
<1>3. ASSUME NEW T PROVE Analytics!Number(T)' = Analytics!Number(T)
  BY DEF Analytics!Number, Analytics!Copies, Analytics!MapThenSumSet, Analytics!MapThenFoldSet
<1> QED BY <1>1, <1>2, <1>3 DEF Analytics!Cohorts

\* The answer with the groups protects the hidden ones (demographics).
LEMMA SnapshotsHide ==
    ASSUME AnalyticsSound, scope = "analytics", Analytics!ReadSnapshots
    PROVE  HiddenGroupsStayHidden'
<1>0. PICK d : d = reading.dimension
  OBVIOUS
<1> DEFINE thresholds == Analytics!demographicThresholds(d)
           S == Analytics!Samples(d)
<1>1. people' = people /\ subject' = subject /\ environment' = environment /\ now' = now
  BY DEF Analytics!ReadSnapshots, Analytics!StillPeople
<1>2. reading.audited
  BY DEF Analytics!ReadSnapshots, AnalyticsSound, ReadingGoesOn
<1>3. CASE answer' = Analytics!Unavailable(d)
  <2>1. answer'.audited /\ answer'.baseline = None /\ answer'.groups = <<>>
    BY <1>2, <1>3 DEF Analytics!Unavailable
  <2> QED BY <2>1 DEF HiddenGroupsStayHidden, Analytics!HiddenGroupsStayHidden
<1>4. ASSUME NEW shown \in Analytics!Shown(d), answer' = Analytics!Breakdown(d, shown),
             ~(Analytics!Number(S) < thresholds.total)
      PROVE  HiddenGroupsStayHidden'
  <2> DEFINE sizes == [h \in shown |-> Analytics!Number(Analytics!Cohort(d, h))]
  <2>1. /\ answer'.audited /\ answer'.dimension = d /\ answer'.baseline = Analytics!demographicGroup(S)
        /\ answer'.groups = [g \in shown |-> Analytics!demographicGroup(Analytics!Cohort(d, g))]
    BY <1>2, <1>4 DEF Analytics!Breakdown, Analytics!Unavailable
  <2>2. \A T : Analytics!demographicGroup(T).count = Analytics!Number(T)
    BY DEF Analytics!demographicGroup
  <2>3. thresholds.total \in Nat /\ thresholds.cohort \in Nat /\ Analytics!Number(S) \in Nat
    BY ThresholdsHold, CohortsAreCounted DEF AnalyticsSound
  <2>4. answer'.baseline.count >= thresholds.total
    BY <1>4, <2>1, <2>2, <2>3
  <2>5. DOMAIN answer'.groups = shown /\ \A g \in shown : answer'.groups[g].count = Analytics!Number(Analytics!Cohort(d, g))
    BY <2>1, <2>2
  <2>6. environment.mode = "production" =>
            \A g \in shown : answer'.groups[g].count >= IF d = "DISTRICT" THEN DistrictCohortMin ELSE CohortMin
    <3>1. ASSUME NEW g \in shown, environment.mode = "production"
          PROVE  answer'.groups[g].count >= IF d = "DISTRICT" THEN DistrictCohortMin ELSE CohortMin
      <4> DEFINE n == Analytics!Number(Analytics!Cohort(d, g))
                 least == IF d = "DISTRICT" THEN DistrictCohortMin ELSE CohortMin
      <4>1. n >= thresholds.cohort
        BY ShownAreLarge
      <4>2. thresholds.cohort >= least
        BY <3>1, ThresholdsHold DEF AnalyticsSound
      <4>3. n \in Nat /\ least \in Nat
        BY CohortsAreCounted, AnalyticsAssumption DEF AnalyticsSound
      <4>4. answer'.groups[g].count = n
        BY <2>5
      <4> HIDE DEF n, least, thresholds
      <4>5. n >= least
        BY <2>3, <4>1, <4>2, <4>3
      <4> QED BY <4>4, <4>5 DEF least
    <3> QED BY <3>1
  <2>7. sizes = [h \in DOMAIN answer'.groups |-> answer'.groups[h].count]
    BY <2>5
  <2>8. ASSUME NEW g \in Analytics!Cohorts(d) \ shown, thresholds.cohort <= thresholds.total
        PROVE  Analytics!Number(Analytics!Cohort(d, g)) # answer'.baseline.count - Analytics!SumOf(sizes)
    <3>1. Analytics!Number(S) >= thresholds.total
      BY <1>4, <2>3
    <3>2. answer'.baseline.count = Analytics!Number(S)
      BY <2>1, <2>2
    <3>3. PeopleAreCounted /\ environment \in Environments
      BY DEF AnalyticsSound
    <3>4. \A f : f = sizes => Analytics!Number(Analytics!Cohort(d, g)) # Analytics!Number(S) - Analytics!SumOf(f)
      BY <2>8, <3>1, <3>3, HiddenIsProtected
    <3> QED BY <3>2, <3>4
  <2>9. /\ Analytics!Cohorts(d)' = Analytics!Cohorts(d)
        /\ \A g : Analytics!Number(Analytics!Cohort(d, g))' = Analytics!Number(Analytics!Cohort(d, g))
        /\ Analytics!demographicThresholds(d)' = thresholds
    BY <1>1, SameMembersSameCohorts
  <2> QED BY <1>1, <2>1, <2>4, <2>5, <2>6, <2>7, <2>8, <2>9 DEF HiddenGroupsStayHidden, Analytics!HiddenGroupsStayHidden
<1> QED BY <1>0, <1>3, <1>4 DEF Analytics!ReadSnapshots, Analytics!Answers

\* Every step keeps the invariant.
LEMMA AnalyticsSteps ==
    ASSUME AnalyticsSound, scope = "analytics", scope' = scope, Analytics!Next
    PROVE  AnalyticsSound'
<1> USE DEF ReadingGoesOn
<1>0. subject \in Subjects /\ PeopleAreCounted /\ ReadingGoesOn
  BY DEF AnalyticsSound
<1>1. subject' \in Subjects /\ environment' \in Environments
  <2>1. subject' = subject /\ environment' = environment
    BY DEF Analytics!Next, Analytics!Cast, Analytics!Withdraw, Analytics!Signal, Analytics!Becomes, Analytics!HalfDay,
           Analytics!AskTrends, Analytics!AskDemographics, Analytics!AskStances, Analytics!AskComparison,
           Analytics!AskAccess, Analytics!Ask, Analytics!ReadTrends, Analytics!CountSamples, Analytics!Audit,
           Analytics!ReadSnapshots, Analytics!Compare, Analytics!ReadStances, Analytics!ReadSignals,
           Analytics!ReadVotes, Analytics!Done, Analytics!StillPeople
  <2> QED BY <2>1 DEF AnalyticsSound
<1>2. SUFFICES PeopleAreCounted' /\ ReadingGoesOn' /\ HiddenGroupsStayHidden'
  BY <1>1 DEF AnalyticsSound
<1>3. CASE \E r \in DOMAIN people \cup {Analytics!Blank}, q \in Analytics!Rows \cup {Analytics!Blank} :
            Analytics!Cast(r, q) \/ Analytics!Withdraw(r, q) \/ Analytics!Signal(r, q)
  <2>0. ASSUME NEW r, NEW q, Analytics!Cast(r, q) \/ Analytics!Withdraw(r, q) \/ Analytics!Signal(r, q)
        PROVE  Analytics!Becomes(r, q)
    BY <2>0, Zenon DEF Analytics!Cast, Analytics!Withdraw, Analytics!Signal
  <2>1. PICK r \in DOMAIN people \cup {Analytics!Blank}, q \in Analytics!Rows \cup {Analytics!Blank} : Analytics!Becomes(r, q)
    BY <1>3, <2>0, Zenon
  <2>2. PeopleAreCounted'
    BY <1>0, <2>1, BecomesCounted
  <2>3. answer' = None /\ ReadingGoesOn'
    BY <1>0, <2>1 DEF Analytics!Becomes
  <2> QED BY <2>2, <2>3, UnansweredHidesAll
<1>4. CASE Analytics!HalfDay
  BY <1>0, <1>4, UnansweredHidesAll DEF Analytics!HalfDay, PeopleAreCounted
<1>5. ASSUME NEW at, NEW d, Analytics!Ask(at, d), at # "snapshots" PROVE PeopleAreCounted' /\ ReadingGoesOn' /\ HiddenGroupsStayHidden'
  BY <1>0, <1>5, UnansweredHidesAll DEF Analytics!Ask, Analytics!Idle, Analytics!StillPeople, PeopleAreCounted
<1>6. CASE Analytics!AskTrends \/ Analytics!AskDemographics \/ Analytics!AskStances \/ Analytics!AskComparison \/ Analytics!AskAccess
  BY <1>5, <1>6 DEF Analytics!AskTrends, Analytics!AskDemographics, Analytics!AskStances, Analytics!AskComparison,
                    Analytics!AskAccess
<1>7. ASSUME NEW a, a.question # "demographics", Analytics!Answers(a), Analytics!StillPeople
      PROVE  PeopleAreCounted' /\ ReadingGoesOn' /\ HiddenGroupsStayHidden'
  BY <1>0, <1>7, UnansweredHidesAll DEF Analytics!Answers, Analytics!Idle, Analytics!StillPeople, PeopleAreCounted
<1>8. CASE Analytics!ReadTrends
  <2>1. Analytics!trends.question = "trends"
    BY DEF Analytics!trends
  <2> QED BY <1>7, <1>8, <2>1 DEF Analytics!ReadTrends
<1>9. CASE Analytics!CountSamples
  BY <1>7, <1>9 DEF Analytics!CountSamples
<1>10. CASE Analytics!Audit
  BY <1>0, <1>10, UnansweredHidesAll DEF Analytics!Audit, Analytics!StillPeople, PeopleAreCounted, Analytics!Idle
<1>11. CASE Analytics!ReadSnapshots
  <2>1. people' = people /\ reading' = Analytics!Idle
    BY <1>11 DEF Analytics!ReadSnapshots, Analytics!Answers, Analytics!StillPeople
  <2> QED BY <1>0, <1>11, <2>1, SnapshotsHide DEF PeopleAreCounted, Analytics!Idle
<1>12. CASE Analytics!Compare
  <2>1. CASE reading'.at = "audit" /\ DOMAIN reading' = DOMAIN reading /\ UNCHANGED answer /\ reading.at = "samples" /\ Analytics!StillPeople
    BY <1>0, <2>1, UnansweredHidesAll DEF Analytics!StillPeople, PeopleAreCounted
  <2>2. ASSUME NEW p, NEW c, Analytics!Answers([question |-> "comparison", demographic |-> None, profile |-> p, changes |-> c]),
               Analytics!StillPeople
        PROVE  PeopleAreCounted' /\ ReadingGoesOn' /\ HiddenGroupsStayHidden'
    BY <1>7, <2>2
  <2> QED BY <1>0, <1>12, <2>1, <2>2 DEF Analytics!Compare, Analytics!Idle
<1>13. CASE Analytics!ReadStances
  BY <1>0, <1>13, UnansweredHidesAll DEF Analytics!ReadStances, Analytics!StillPeople, PeopleAreCounted, Analytics!Idle
<1>14. CASE Analytics!ReadSignals
  <2>1. PeopleAreCounted'
    <3> DEFINE f == [r \in DOMAIN people |-> [r EXCEPT !.seen = r.signal = "AGREE"]]
    <3>1. people' = [q \in {[r EXCEPT !.seen = r.signal = "AGREE"] : r \in DOMAIN people} \ {Analytics!Blank} |->
                        Analytics!Number({r \in DOMAIN people : [r EXCEPT !.seen = r.signal = "AGREE"] = q})]
      BY <1>14 DEF Analytics!ReadSignals, Analytics!BagOf
    <3>2. \A r \in DOMAIN people : "group" \in DOMAIN f[r] /\ f[r].group = r.group
      BY <1>0 DEF PeopleAreCounted
    <3>3. \A r \in DOMAIN people : f[r] = [r EXCEPT !.seen = r.signal = "AGREE"]
      OBVIOUS
    <3>4. f \in [DOMAIN people -> {f[r] : r \in DOMAIN people}]
      OBVIOUS
    <3> HIDE DEF f
    <3>5. /\ {[r EXCEPT !.seen = r.signal = "AGREE"] : r \in DOMAIN people} = {f[r] : r \in DOMAIN people}
          /\ \A q : {r \in DOMAIN people : [r EXCEPT !.seen = r.signal = "AGREE"] = q} = {r \in DOMAIN people : f[r] = q}
      <4>1. ASSUME NEW x PROVE x \in {[r EXCEPT !.seen = r.signal = "AGREE"] : r \in DOMAIN people} <=> x \in {f[r] : r \in DOMAIN people}
        <5>1. ASSUME x \in {[r EXCEPT !.seen = r.signal = "AGREE"] : r \in DOMAIN people} PROVE x \in {f[r] : r \in DOMAIN people}
          <6>1. PICK r \in DOMAIN people : x = [r EXCEPT !.seen = r.signal = "AGREE"]
            BY <5>1, Zenon
          <6>2. x = f[r]
            BY <3>3, <6>1, Zenon
          <6> QED BY <6>2
        <5>2. ASSUME x \in {f[r] : r \in DOMAIN people} PROVE x \in {[r EXCEPT !.seen = r.signal = "AGREE"] : r \in DOMAIN people}
          <6>1. PICK r \in DOMAIN people : x = f[r]
            BY <5>2, Zenon
          <6>2. x = [r EXCEPT !.seen = r.signal = "AGREE"]
            BY <3>3, <6>1, Zenon
          <6> QED BY <6>2, Zenon
        <5> QED BY <5>1, <5>2, Zenon
      <4>2. ASSUME NEW q, NEW r PROVE r \in {p \in DOMAIN people : [p EXCEPT !.seen = p.signal = "AGREE"] = q} <=> r \in {p \in DOMAIN people : f[p] = q}
        BY <3>3, Zenon
      <4> QED BY <4>1, <4>2, Zenon
    <3>6. people' = [q \in {f[r] : r \in DOMAIN people} \ {Analytics!Blank} |->
                        Analytics!Number({r \in DOMAIN people : f[r] = q})]
      BY <3>1, <3>5
    <3> QED BY <1>0, <3>2, <3>4, <3>6, MarksCounted
  <2>2. answer' = None /\ ReadingGoesOn'
    BY <1>0, <1>14 DEF Analytics!ReadSignals, Analytics!Steps, Analytics!Idle
  <2> QED BY <2>1, <2>2, UnansweredHidesAll
<1>15. CASE Analytics!ReadVotes
  <2>1. PeopleAreCounted'
    <3> DEFINE f == [r \in DOMAIN people |-> [r EXCEPT !.seen = FALSE]]
    <3>1. people' = [q \in {[r EXCEPT !.seen = FALSE] : r \in DOMAIN people} \ {Analytics!Blank} |->
                        Analytics!Number({r \in DOMAIN people : [r EXCEPT !.seen = FALSE] = q})]
      BY <1>15 DEF Analytics!ReadVotes, Analytics!BagOf
    <3>2. \A r \in DOMAIN people : "group" \in DOMAIN f[r] /\ f[r].group = r.group
      BY <1>0 DEF PeopleAreCounted
    <3>3. \A r \in DOMAIN people : f[r] = [r EXCEPT !.seen = FALSE]
      OBVIOUS
    <3>4. f \in [DOMAIN people -> {f[r] : r \in DOMAIN people}]
      OBVIOUS
    <3> HIDE DEF f
    <3>5. /\ {[r EXCEPT !.seen = FALSE] : r \in DOMAIN people} = {f[r] : r \in DOMAIN people}
          /\ \A q : {r \in DOMAIN people : [r EXCEPT !.seen = FALSE] = q} = {r \in DOMAIN people : f[r] = q}
      <4>1. ASSUME NEW x PROVE x \in {[r EXCEPT !.seen = FALSE] : r \in DOMAIN people} <=> x \in {f[r] : r \in DOMAIN people}
        BY <3>3, Zenon
      <4>2. ASSUME NEW q, NEW r PROVE r \in {p \in DOMAIN people : [p EXCEPT !.seen = FALSE] = q} <=> r \in {p \in DOMAIN people : f[p] = q}
        BY <3>3, Zenon
      <4> QED BY <4>1, <4>2, Zenon
    <3>6. people' = [q \in {f[r] : r \in DOMAIN people} \ {Analytics!Blank} |->
                        Analytics!Number({r \in DOMAIN people : f[r] = q})]
      BY <3>1, <3>5
    <3> QED BY <1>0, <3>2, <3>4, <3>6, MarksCounted
  <2>2. answer' = Analytics!StanceNode /\ ReadingGoesOn'
    BY <1>0, <1>15 DEF Analytics!ReadVotes, Analytics!Answers, Analytics!Idle
  <2>3. Analytics!StanceNode.question = "stances"
    BY DEF Analytics!StanceNode
  <2> QED BY <2>1, <2>2, <2>3, UnansweredHidesAll
<1>16. CASE Analytics!Done
  BY <1>0, <1>16, UnansweredHidesAll DEF Analytics!Done, Analytics!StillPeople, PeopleAreCounted
<1> QED BY <1>3, <1>4, <1>6, <1>8, <1>9, <1>10, <1>11, <1>12, <1>13, <1>14, <1>15, <1>16 DEF Analytics!Next

\* It holds in every behaviour of the composition.
LEMMA AlwaysAnalyticsSound == MembersSpec => []AnalyticsSound
<1>1. MembersInit => AnalyticsSound
  <2> SUFFICES ASSUME MembersInit PROVE AnalyticsSound
    OBVIOUS
  <2>1. CASE scope = "analytics"
    BY <2>1, AnalyticsStarts DEF MembersInit
  <2>2. CASE scope # "analytics"
    BY <2>2 DEF MembersInit, AnalyticsSound
  <2> QED BY <2>1, <2>2
<1>2. AnalyticsSound /\ [MembersNext]_<<scope, vars, accessVars, analyticsVars>> => AnalyticsSound'
  <2> SUFFICES ASSUME AnalyticsSound, [MembersNext]_<<scope, vars, accessVars, analyticsVars>>
               PROVE  AnalyticsSound'
    OBVIOUS
  <2>1. CASE scope = "analytics" /\ Analytics!Next /\ scope' = scope
    BY <2>1, AnalyticsSteps
  <2>2. CASE scope' = scope /\ UNCHANGED analyticsVars
    <3>1. /\ people' = people /\ subject' = subject /\ environment' = environment /\ now' = now
          /\ reading' = reading /\ answer' = answer /\ scope' = scope
      BY <2>2 DEF analyticsVars
    <3>2. PeopleAreCounted' = PeopleAreCounted /\ ReadingGoesOn' = ReadingGoesOn
      BY <3>1 DEF PeopleAreCounted, ReadingGoesOn
    <3>3. HiddenGroupsStayHidden' = HiddenGroupsStayHidden
      BY <3>1, SameMembersSameCohorts DEF HiddenGroupsStayHidden, Analytics!HiddenGroupsStayHidden
    <3> QED BY <3>1, <3>2, <3>3 DEF AnalyticsSound
  <2> QED BY <2>1, <2>2 DEF MembersNext
<1> QED BY <1>1, <1>2, PTL DEF MembersSpec

(* No hidden group of members can be computed from the groups that are      *)
(* shown and their total, none below the minimum is shown in production,    *)
(* and every breakdown is on record and large enough, for any groups, any   *)
(* number of members and any configured thresholds (demographics).          *)
THEOREM HiddenGroupsCannotBeComputed == MembersSpec => []HiddenGroupsStayHidden
<1>1. AnalyticsSound => HiddenGroupsStayHidden
  BY DEF AnalyticsSound, HiddenGroupsStayHidden, Analytics!HiddenGroupsStayHidden
<1> QED BY <1>1, AlwaysAnalyticsSound, PTL
=============================================================================
