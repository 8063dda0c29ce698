---------------------------- MODULE ContentProofs ----------------------------
(***************************************************************************)
(* The theorems about the parts of the API that share no row, for any      *)
(* number of overlapping requests, rows, files and counters.               *)
(***************************************************************************)
EXTENDS MCContent, FiniteSetTheorems, TLAPS

-----------------------------------------------------------------------------
(* The files of GIFs (meme-storage.service.ts, memes.service.ts upload).   *)

\* What the upload of a GIF has in its places, unless the clean-up may have found it old on its way.
HasPlaces(u) ==
    \/ u \in slow
    \/ /\ uploadPc[u] = "original" => "renditions" \in files[u]
       /\ uploadPc[u] = "insert" \/ u \in hasRow => {"original", "renditions"} \subseteq files[u]

(* The inductive invariant.  The clean-up lists files that are old and     *)
(* removes them later, when the upload may have its row: so what is old    *)
(* while the upload is on its way has to be known as slow from then on.    *)
FilesAreSafe ==
    /\ files \in [Uploads -> SUBSET Files!Places]
    /\ uploadPc \in [Uploads -> Files!Waiting \cup {"none", "fail", "done"}]
    /\ hasRow \subseteq {u \in Uploads : uploadPc[u] = "done"} /\ aged \subseteq Uploads
    /\ \A u \in Uploads :
          /\ uploadPc[u] = "none" => files[u] = {} /\ u \notin aged
          /\ u \in aged /\ uploadPc[u] \in Files!Waiting => u \in slow
          /\ HasPlaces(u)
    /\ cleaner.keys \subseteq aged /\ cleaner.orphans \subseteq aged
    /\ cleaner.orphans \cap hasRow \subseteq slow
    /\ cleaner \in [pc : {"idle", "rows", "remove"}, keys : SUBSET Uploads, orphans : SUBSET Uploads]

LEMMA FilesSafeAtFirst == Files!Init => FilesAreSafe
BY DEF Files!Init, FilesAreSafe, HasPlaces, Files!Resting, Files!Places

LEMMA FilesStaySafe ==
    ASSUME FilesAreSafe, Files!Next
    PROVE  FilesAreSafe'
<1> USE DEF FilesAreSafe, HasPlaces, Files!Waiting, Files!Places, Files!Goto, Files!Add
<1>1. ASSUME NEW u \in Uploads, Files!Upload(u) PROVE FilesAreSafe'
  BY <1>1 DEF Files!Upload
<1>2. ASSUME NEW u \in Uploads, Files!UploadStep(u) PROVE FilesAreSafe'
  <2>1. CASE Files!Begin(u)
    BY <2>1 DEF Files!Begin
  <2>2. CASE Files!Convert(u)
    BY <2>2 DEF Files!Convert
  <2>3. CASE Files!MoveRenditions(u)
    BY <2>3 DEF Files!MoveRenditions
  <2>4. CASE Files!MoveOriginal(u)
    BY <2>4 DEF Files!MoveOriginal
  <2>5. CASE Files!RemoveAll(u)
    BY <2>5 DEF Files!RemoveAll
  <2>6. CASE Files!InsertRow(u)
    BY <2>6 DEF Files!InsertRow
  <2> QED BY <1>2, <2>1, <2>2, <2>3, <2>4, <2>5, <2>6 DEF Files!UploadStep
<1>3. ASSUME NEW u \in Uploads, Files!Refuse(u) PROVE FilesAreSafe'
  BY <1>3 DEF Files!Refuse
<1>4. ASSUME NEW u \in Uploads, Files!InsertFails(u) PROVE FilesAreSafe'
  BY <1>4 DEF Files!InsertFails
<1>5. ASSUME NEW u \in Uploads, Files!GrowOld(u) PROVE FilesAreSafe'
  BY <1>5 DEF Files!GrowOld
<1>6. CASE Files!CleanQuarantine
  <2>1. /\ files' \in [Uploads -> SUBSET Files!Places]
        /\ \A u \in Uploads : files'[u] \subseteq files[u] /\ files[u] \ {"upload", "temp"} \subseteq files'[u]
    BY <1>6 DEF Files!CleanQuarantine
  <2>2. Files!Listed \subseteq Uploads /\ Files!Listed \subseteq aged
    BY DEF Files!Listed
  <2> QED BY <1>6, <2>1, <2>2 DEF Files!CleanQuarantine
<1>7. CASE Files!FindOrphans
  BY <1>7 DEF Files!FindOrphans
<1>8. CASE Files!RemoveOrphans
  BY <1>8 DEF Files!RemoveOrphans, Files!Resting
<1>9. CASE Files!Crash
  BY <1>9 DEF Files!Crash, Files!Resting
<1>10. CASE Files!Restart
  BY <1>10 DEF Files!Restart
<1> QED BY <1>1, <1>2, <1>3, <1>4, <1>5, <1>6, <1>7, <1>8, <1>9, <1>10 DEF Files!Next

LEMMA SafeFilesBelongToRows == FilesAreSafe => Files!RowsHaveFiles
BY DEF FilesAreSafe, HasPlaces, Files!RowsHaveFiles, Files!Waiting, Files!Places

-----------------------------------------------------------------------------
(* The lock around the generation of drafts (authoring.service.ts).        *)

(* The inductive invariant: whoever generates without a second attempt has *)
(* the lock, which is as old as its attempt.                               *)
HoldsLock(r) ==
    /\ holder = r
    /\ pc[r] = "limit" => lockAge = 0
    /\ pc[r] = "model" => lockAge = age[r]

GeneratorsHoldLock ==
    /\ pc \in [Generations -> {"idle", "lock", "limit", "model", "store", "unlock"}]
    /\ age \in [Generations -> Nat] /\ lockAge \in Nat
    /\ \A r \in Authoring!Generating \ twice : HoldsLock(r)

LEMMA LockFreeAtFirst == Authoring!Init => GeneratorsHoldLock
BY DEF Authoring!Init, GeneratorsHoldLock, Authoring!Generating

LEMMA GeneratorsKeepLock ==
    ASSUME GeneratorsHoldLock, Authoring!Next
    PROVE  GeneratorsHoldLock'
<1> USE LockAssumption DEF GeneratorsHoldLock, Authoring!Generating, HoldsLock, Authoring!Forget, Authoring!Step,
        Authoring!session, Authoring!locks, Authoring!local
<1>1. ASSUME NEW r \in Generations, Authoring!Read(r) PROVE GeneratorsHoldLock'
  BY <1>1 DEF Authoring!Read
<1>2. ASSUME NEW r \in Generations, Authoring!Lock(r) PROVE GeneratorsHoldLock'
  BY <1>2 DEF Authoring!Lock
<1>3. ASSUME NEW r \in Generations, Authoring!Consume(r) PROVE GeneratorsHoldLock'
  BY <1>3 DEF Authoring!Consume
<1>4. ASSUME NEW r \in Generations, Authoring!Answer(r) PROVE GeneratorsHoldLock'
  BY <1>4 DEF Authoring!Answer
<1>5. ASSUME NEW r \in Generations, Authoring!TimeOut(r) PROVE GeneratorsHoldLock'
  BY <1>5 DEF Authoring!TimeOut
<1>6. ASSUME NEW r \in Generations, Authoring!Store(r) PROVE GeneratorsHoldLock'
  BY <1>6 DEF Authoring!Store
<1>7. ASSUME NEW r \in Generations, Authoring!Unlock(r) PROVE GeneratorsHoldLock'
  BY <1>7 DEF Authoring!Unlock
<1>8. ASSUME NEW r \in Generations, Authoring!Die(r) PROVE GeneratorsHoldLock'
  BY <1>8 DEF Authoring!Die
<1>9. CASE Authoring!Tick
  <2>1. pc' = pc /\ twice' = twice /\ age' \in [Generations -> Nat] /\ lockAge' \in Nat
    BY <1>9 DEF Authoring!Tick
  <2>2. ASSUME NEW r \in Authoring!Generating \ twice
        PROVE  pc[r] = "model" /\ holder' = r /\ lockAge' = lockAge + 1 /\ age'[r] = age[r] + 1
    BY <1>9, <2>2 DEF Authoring!Tick
  <2> QED BY <2>1, <2>2
<1>10. CASE Authoring!SessionExpires
  BY <1>10 DEF Authoring!SessionExpires
<1> QED BY <1>1, <1>2, <1>3, <1>4, <1>5, <1>6, <1>7, <1>8, <1>9, <1>10 DEF Authoring!Next

LEMMA LockHoldersAreOne == GeneratorsHoldLock => OneGeneratorWithoutRetries
<1> SUFFICES ASSUME GeneratorsHoldLock PROVE Cardinality(Authoring!Generating \ twice) <= 1
  BY Zenon DEF OneGeneratorWithoutRetries, Authoring!OneGeneratorWithoutRetries, Authoring!Cardinality, Cardinality
<1>1. Authoring!Generating \ twice \subseteq {holder}
  BY DEF GeneratorsHoldLock, HoldsLock
<1>2. Cardinality({holder}) = 1 /\ IsFiniteSet({holder})
  BY FS_Singleton
<1> QED BY <1>1, <1>2, FS_Subset, FS_CardinalityType

-----------------------------------------------------------------------------
(* The counters in Redis (rate-limit.service.ts and its users).            *)

Counting(k) == {r \in Requests : limitReq[r].key = k /\ limitReq[r].pc \in {"expire", "judge"}}
PassingSoon(k) == {r \in Counting(k) : limitReq[r].n <= Limit}
PastCooldown(k) == {r \in Requests : limitReq[r].key = k /\ limitReq[r].pc \in {"count", "expire", "judge"}}

LimitsTyped ==
    /\ count \in [Counters -> Nat] /\ passed \in [Counters -> Nat] /\ sinceCooldown \in [Counters -> Nat]
    /\ limitReq \in [Requests -> [key : Counters \cup {Limits!Idle.key}, n : Nat,
                                  pc : {"idle", "cooldown", "count", "expire", "judge"}]]
    /\ \A r \in Requests : /\ limitReq[r].pc # "idle" => limitReq[r].key \in Counters
                           /\ limitReq[r].pc = "expire" => Discipline[limitReq[r].key] # "scripted"

\* What has passed and what will pass has been counted.
PassedIsCounted ==
    \A k \in Counters : /\ passed[k] + Cardinality(PassingSoon(k)) <= count[k]
                        /\ passed[k] + Cardinality(PassingSoon(k)) <= Limit

\* Whoever passed the cooldown is the only one, and its key stays until it has created a topic or is refused.
CooldownIsTaken ==
    \A k \in Counters : Discipline[k] = "cooldown" =>
        /\ sinceCooldown[k] <= 1
        /\ sinceCooldown[k] = 1 \/ PastCooldown(k) # {} => k \in cooling
        /\ sinceCooldown[k] = 1 => PastCooldown(k) = {}
        /\ \A r, s \in PastCooldown(k) : r = s

CountersAreSound == LimitsTyped /\ PassedIsCounted /\ CooldownIsTaken /\ Limits!LockoutNeedsACrash

LEMMA CountersSoundAtFirst == Limits!Init => CountersAreSound
<1> SUFFICES ASSUME Limits!Init PROVE CountersAreSound
  OBVIOUS
<1>1. LimitsTyped
  BY DEF Limits!Init, Limits!Idle, LimitsTyped
<1>2. \A k \in Counters : PassingSoon(k) = {} /\ PastCooldown(k) = {}
  BY DEF Limits!Init, Limits!Idle, PassingSoon, Counting, PastCooldown
<1>3. PassedIsCounted
  BY <1>2, FS_EmptySet, LimitAssumption DEF Limits!Init, PassedIsCounted
<1>4. CooldownIsTaken /\ Limits!LockoutNeedsACrash
  BY <1>2 DEF Limits!Init, CooldownIsTaken, Limits!LockoutNeedsACrash
<1> QED BY <1>1, <1>3, <1>4 DEF CountersAreSound

LEMMA CountingIsFinite == \A k : IsFiniteSet(PassingSoon(k)) /\ Cardinality(PassingSoon(k)) \in Nat
<1> SUFFICES ASSUME NEW k PROVE IsFiniteSet(PassingSoon(k)) /\ Cardinality(PassingSoon(k)) \in Nat
  OBVIOUS
<1>1. PassingSoon(k) \subseteq Requests
  BY DEF PassingSoon, Counting
<1> QED BY <1>1, RequestAssumption, FS_Subset, FS_CardinalityType

(* How one request leaves those who will pass.                             *)
LEMMA PassersAfter ==
    ASSUME NEW r \in Requests, NEW q, limitReq \in [Requests -> [key : Counters \cup {Limits!Idle.key}, n : Nat,
                                  pc : {"idle", "cooldown", "count", "expire", "judge"}]],
           limitReq' = [limitReq EXCEPT ![r] = q]
    PROVE  \A k : PassingSoon(k)' = (PassingSoon(k) \ {r})
                    \cup (IF q.key = k /\ q.pc \in {"expire", "judge"} /\ q.n <= Limit THEN {r} ELSE {})
<1> SUFFICES ASSUME NEW k
    PROVE  PassingSoon(k)' = (PassingSoon(k) \ {r})
                    \cup (IF q.key = k /\ q.pc \in {"expire", "judge"} /\ q.n <= Limit THEN {r} ELSE {})
  OBVIOUS
<1> QED BY DEF PassingSoon, Counting

LEMMA PastCooldownAfter ==
    ASSUME NEW r \in Requests, NEW q, limitReq \in [Requests -> [key : Counters \cup {Limits!Idle.key}, n : Nat,
                                  pc : {"idle", "cooldown", "count", "expire", "judge"}]],
           limitReq' = [limitReq EXCEPT ![r] = q]
    PROVE  \A k : PastCooldown(k)' = (PastCooldown(k) \ {r})
                    \cup (IF q.key = k /\ q.pc \in {"count", "expire", "judge"} THEN {r} ELSE {})
<1> SUFFICES ASSUME NEW k
    PROVE  PastCooldown(k)' = (PastCooldown(k) \ {r})
                    \cup (IF q.key = k /\ q.pc \in {"count", "expire", "judge"} THEN {r} ELSE {})
  OBVIOUS
<1> QED BY DEF PastCooldown

(* When nobody new is to pass, nothing changes for the window.             *)
LEMMA PassedStaysCounted ==
    ASSUME PassedIsCounted, LimitsTyped, UNCHANGED <<passed, count>>,
           \A k \in Counters : PassingSoon(k)' \subseteq PassingSoon(k)
    PROVE  PassedIsCounted'
<1> SUFFICES ASSUME NEW k \in Counters
    PROVE  passed[k] + Cardinality(PassingSoon(k)') <= count[k] /\ passed[k] + Cardinality(PassingSoon(k)') <= Limit
  BY DEF PassedIsCounted
<1>1. /\ Cardinality(PassingSoon(k)') <= Cardinality(PassingSoon(k))
      /\ Cardinality(PassingSoon(k)') \in Nat /\ Cardinality(PassingSoon(k)) \in Nat
  BY CountingIsFinite, FS_Subset, FS_CardinalityType
<1> QED BY <1>1, LimitAssumption DEF PassedIsCounted, LimitsTyped

\* What one command of one request changes.
LEMMA CommandKeepsCounters ==
    ASSUME CountersAreSound, NEW r \in Requests,
           Limits!Cool(r) \/ Limits!Count(r) \/ Limits!SetExpiry(r) \/ Limits!Judge(r) \/ Limits!Die(r)
           \/ \E k \in Counters : Limits!Arrive(r, k)
    PROVE  CountersAreSound'
<1> DEFINE k == limitReq[r].key
           q == limitReq'[r]
<1> USE LimitAssumption
<1>1. limitReq \in [Requests -> [key : Counters \cup {Limits!Idle.key}, n : Nat,
                                pc : {"idle", "cooldown", "count", "expire", "judge"}]]
  BY DEF CountersAreSound, LimitsTyped
<1>2. limitReq' = [limitReq EXCEPT ![r] = q]
  BY <1>1 DEF Limits!Cool, Limits!Count, Limits!SetExpiry, Limits!Judge, Limits!Die, Limits!Arrive,
              Limits!Goto, Limits!Done
<1>3. /\ \A c : PassingSoon(c)' = (PassingSoon(c) \ {r})
                    \cup (IF q.key = c /\ q.pc \in {"expire", "judge"} /\ q.n <= Limit THEN {r} ELSE {})
      /\ \A c : PastCooldown(c)' = (PastCooldown(c) \ {r})
                    \cup (IF q.key = c /\ q.pc \in {"count", "expire", "judge"} THEN {r} ELSE {})
  BY <1>1, <1>2, PassersAfter, PastCooldownAfter
<1>4. /\ \A c : r \in PassingSoon(c) <=> k = c /\ limitReq[r].pc \in {"expire", "judge"} /\ limitReq[r].n <= Limit
      /\ \A c : r \in PastCooldown(c) <=> k = c /\ limitReq[r].pc \in {"count", "expire", "judge"}
  BY DEF PassingSoon, Counting, PastCooldown
<1>5. ASSUME Limits!Cool(r) PROVE CountersAreSound'
  <2>1. /\ k \in Counters /\ limitReq[r].pc = "cooldown"
        /\ UNCHANGED <<count, expiring, passed, sinceCooldown, orphaned>>
        /\ \/ k \in cooling /\ q = Limits!Idle /\ cooling' = cooling
           \/ k \notin cooling /\ q = [limitReq[r] EXCEPT !.pc = "count"] /\ cooling' = cooling \cup {k}
    BY <1>5, <1>1 DEF Limits!Cool, Limits!Key, Limits!Goto, Limits!Done, Limits!seen, CountersAreSound, LimitsTyped
  <2>2. LimitsTyped'
    BY <2>1, <1>1, <1>2 DEF CountersAreSound, LimitsTyped, Limits!Idle
  <2>3. PassedIsCounted'
    BY <2>1, <1>3, <1>1, PassedStaysCounted DEF Limits!Idle, CountersAreSound
  <2>4. CooldownIsTaken'
    BY <2>1, <1>3, <1>4, <1>1 DEF Limits!Idle, CountersAreSound, CooldownIsTaken
  <2>5. Limits!LockoutNeedsACrash'
    BY <2>1, <1>2, <1>1 DEF CountersAreSound, Limits!LockoutNeedsACrash, Limits!Key
  <2> QED BY <2>2, <2>3, <2>4, <2>5 DEF CountersAreSound
<1>6. ASSUME Limits!Count(r) PROVE CountersAreSound'
  <2> DEFINE n == count[k] + 1
             scripted == Discipline[k] = "scripted"
  <2>1. /\ k \in Counters /\ limitReq[r].pc = "count" /\ n \in Nat \ {0}
        /\ UNCHANGED <<cooling, passed, sinceCooldown, orphaned>>
        /\ count' = [count EXCEPT ![k] = n]
        /\ expiring' = IF scripted /\ n = 1 THEN expiring \cup {k} ELSE expiring
        /\ q.n = n /\ q.key = k /\ q.pc = (IF n = 1 /\ ~scripted THEN "expire" ELSE "judge")
        /\ q \in [key : Counters \cup {Limits!Idle.key}, n : Nat,
                                pc : {"idle", "cooldown", "count", "expire", "judge"}]
    BY <1>6, <1>1 DEF Limits!Count, Limits!Key, Limits!seen, CountersAreSound, LimitsTyped
  <2>2. LimitsTyped'
    BY <2>1, <1>1, <1>2 DEF CountersAreSound, LimitsTyped
  <2>3. PassedIsCounted'
    <3> SUFFICES ASSUME NEW c \in Counters
        PROVE  /\ passed[c] + Cardinality(PassingSoon(c)') <= count'[c]
               /\ passed[c] + Cardinality(PassingSoon(c)') <= Limit
      BY <2>1 DEF PassedIsCounted
    <3>1. passed[c] \in Nat /\ count[c] \in Nat /\ passed[c] + Cardinality(PassingSoon(c)) <= count[c]
          /\ passed[c] + Cardinality(PassingSoon(c)) <= Limit /\ r \notin PassingSoon(c)
      BY <2>1, <1>4 DEF CountersAreSound, PassedIsCounted, LimitsTyped
    <3>2. CASE c = k /\ n <= Limit
      <4>1. Cardinality(PassingSoon(c)') = Cardinality(PassingSoon(c)) + 1
        BY <3>1, <3>2, <2>1, <1>3, CountingIsFinite, FS_AddElement
      <4> QED BY <4>1, <3>1, <3>2, <2>1, CountingIsFinite DEF CountersAreSound, LimitsTyped
    <3>3. CASE ~(c = k /\ n <= Limit)
      <4>1. ~(q.key = c /\ q.pc \in {"expire", "judge"} /\ q.n <= Limit)
        BY <3>3, <2>1
      <4>2. PassingSoon(c)' = PassingSoon(c) \ {r}
        BY <4>1, <1>3
      <4>3. PassingSoon(c)' = PassingSoon(c)
        BY <4>2, <3>1
      <4> QED BY <4>3, <3>1, <2>1, CountingIsFinite DEF CountersAreSound, LimitsTyped
    <3> QED BY <3>2, <3>3
  <2>4. CooldownIsTaken'
    BY <2>1, <1>3, <1>4, <1>1 DEF CountersAreSound, CooldownIsTaken
  <2>5. Limits!LockoutNeedsACrash'
    <3> SUFFICES ASSUME NEW c \in Counters, count'[c] # 0, c \notin expiring'
        PROVE  \/ \E s \in Requests : limitReq'[s].pc = "expire" /\ limitReq'[s].key = c
               \/ c \in orphaned /\ Discipline[c] # "scripted"
      BY <2>1 DEF Limits!LockoutNeedsACrash, Limits!Key
    <3>1. CASE c = k /\ n = 1
      BY <3>1, <2>1
    <3>2. CASE ~(c = k /\ n = 1)
      <4>1. count[c] # 0 /\ c \notin expiring
        BY <3>2, <2>1 DEF CountersAreSound, LimitsTyped
      <4> QED BY <4>1, <2>1, <1>2, <1>1 DEF CountersAreSound, Limits!LockoutNeedsACrash, Limits!Key
    <3> QED BY <3>1, <3>2
  <2> QED BY <2>2, <2>3, <2>4, <2>5 DEF CountersAreSound
<1>7. ASSUME Limits!SetExpiry(r) PROVE CountersAreSound'
  <2>1. /\ k \in Counters /\ limitReq[r].pc = "expire"
        /\ UNCHANGED <<count, cooling, passed, sinceCooldown, orphaned>>
        /\ expiring' = IF count[k] # 0 THEN expiring \cup {k} ELSE expiring
        /\ q.n = limitReq[r].n /\ q.key = k /\ q.pc = "judge"
        /\ q \in [key : Counters \cup {Limits!Idle.key}, n : Nat,
                                pc : {"idle", "cooldown", "count", "expire", "judge"}]
    BY <1>7, <1>1 DEF Limits!SetExpiry, Limits!Key, Limits!Goto, Limits!seen, CountersAreSound, LimitsTyped
  <2>2. LimitsTyped'
    BY <2>1, <1>1, <1>2 DEF CountersAreSound, LimitsTyped
  <2>3. PassedIsCounted'
    BY <2>1, <1>3, <1>4, PassedStaysCounted DEF CountersAreSound
  <2>4. CooldownIsTaken'
    BY <2>1, <1>3, <1>4, <1>1 DEF CountersAreSound, CooldownIsTaken
  <2>5. Limits!LockoutNeedsACrash'
    BY <2>1, <1>2, <1>1 DEF CountersAreSound, Limits!LockoutNeedsACrash, Limits!Key
  <2> QED BY <2>2, <2>3, <2>4, <2>5 DEF CountersAreSound
<1>8. ASSUME Limits!Judge(r) PROVE CountersAreSound'
  <2>1. /\ k \in Counters /\ limitReq[r].pc = "judge" /\ q = Limits!Idle
        /\ UNCHANGED <<count, expiring, orphaned>>
        /\ \/ /\ limitReq[r].n <= Limit /\ passed' = [passed EXCEPT ![k] = @ + 1]
              /\ sinceCooldown' = [sinceCooldown EXCEPT ![k] = @ + 1] /\ cooling' = cooling
           \/ /\ ~(limitReq[r].n <= Limit) /\ UNCHANGED <<passed, sinceCooldown>>
              /\ cooling' = IF Discipline[k] = "cooldown" THEN cooling \ {k} ELSE cooling
    BY <1>8, <1>1 DEF Limits!Judge, Limits!Key, Limits!Done, Limits!Within, CountersAreSound, LimitsTyped
  <2>2. LimitsTyped'
    BY <2>1, <1>1, <1>2 DEF CountersAreSound, LimitsTyped, Limits!Idle
  <2>3. PassedIsCounted'
    <3>1. CASE limitReq[r].n <= Limit
      <4> SUFFICES ASSUME NEW c \in Counters
          PROVE  /\ passed'[c] + Cardinality(PassingSoon(c)') <= count[c]
                 /\ passed'[c] + Cardinality(PassingSoon(c)') <= Limit
        BY <2>1 DEF PassedIsCounted
      <4>1. passed[c] \in Nat /\ count[c] \in Nat /\ passed[c] + Cardinality(PassingSoon(c)) <= count[c]
            /\ passed[c] + Cardinality(PassingSoon(c)) <= Limit
            /\ PassingSoon(c)' = PassingSoon(c) \ {r} /\ (r \in PassingSoon(c) <=> c = k)
        BY <3>1, <2>1, <1>3, <1>4 DEF CountersAreSound, PassedIsCounted, LimitsTyped, Limits!Idle
      <4>2. CASE c = k
        <5>1. Cardinality(PassingSoon(c)') = Cardinality(PassingSoon(c)) - 1
          <6>1. r \in PassingSoon(c) /\ IsFiniteSet(PassingSoon(c))
            BY <4>1, <4>2, CountingIsFinite
          <6>2. Cardinality(PassingSoon(c) \ {r}) = Cardinality(PassingSoon(c)) - 1
            BY <6>1, FS_RemoveElement
          <6> QED BY <6>2, <4>1
        <5>2. passed'[c] = passed[c] + 1
          BY <3>1, <4>2, <2>1 DEF CountersAreSound, LimitsTyped
        <5> QED BY <5>1, <5>2, <4>1, CountingIsFinite
      <4>3. CASE c # k
        <5>1. PassingSoon(c)' = PassingSoon(c) /\ passed'[c] = passed[c]
          BY <4>1, <4>3, <3>1, <2>1 DEF CountersAreSound, LimitsTyped
        <5> QED BY <5>1, <4>1
      <4> QED BY <4>2, <4>3
    <3>2. CASE ~(limitReq[r].n <= Limit)
      BY <3>2, <2>1, <1>3, PassedStaysCounted DEF CountersAreSound, Limits!Idle
    <3> QED BY <3>1, <3>2
  <2>4. CooldownIsTaken'
    BY <2>1, <1>3, <1>4, <1>1 DEF CountersAreSound, CooldownIsTaken, Limits!Idle, LimitsTyped
  <2>5. Limits!LockoutNeedsACrash'
    BY <2>1, <1>2, <1>1 DEF CountersAreSound, Limits!LockoutNeedsACrash, Limits!Key
  <2> QED BY <2>2, <2>3, <2>4, <2>5 DEF CountersAreSound
<1>9. ASSUME Limits!Die(r) PROVE CountersAreSound'
  <2>1. /\ k \in Counters /\ limitReq[r].pc # "idle" /\ q = Limits!Idle
        /\ UNCHANGED <<count, expiring, cooling, passed, sinceCooldown>>
        /\ orphaned' = IF limitReq[r].pc = "expire" THEN orphaned \cup {k} ELSE orphaned
    BY <1>9, <1>1 DEF Limits!Die, Limits!Key, Limits!Done, Limits!store, CountersAreSound, LimitsTyped
  <2>2. LimitsTyped'
    BY <2>1, <1>1, <1>2 DEF CountersAreSound, LimitsTyped, Limits!Idle
  <2>3. PassedIsCounted'
    BY <2>1, <1>3, PassedStaysCounted DEF CountersAreSound, Limits!Idle
  <2>4. CooldownIsTaken'
    BY <2>1, <1>3, <1>4, <1>1 DEF CountersAreSound, CooldownIsTaken, Limits!Idle
  <2>5. Limits!LockoutNeedsACrash'
    BY <2>1, <1>2, <1>1 DEF CountersAreSound, Limits!LockoutNeedsACrash, Limits!Key, LimitsTyped
  <2> QED BY <2>2, <2>3, <2>4, <2>5 DEF CountersAreSound
<1>10. ASSUME NEW c \in Counters, Limits!Arrive(r, c) PROVE CountersAreSound'
  <2>1. /\ limitReq[r].pc = "idle" /\ UNCHANGED <<count, expiring, cooling, passed, sinceCooldown, orphaned>>
        /\ q = [key |-> c, pc |-> IF Discipline[c] = "cooldown" THEN "cooldown" ELSE "count", n |-> 0]
    BY <1>10, <1>1 DEF Limits!Arrive, Limits!store, Limits!seen, Limits!Idle
  <2>2. LimitsTyped'
    BY <2>1, <1>1, <1>2 DEF CountersAreSound, LimitsTyped
  <2>3. PassedIsCounted'
    BY <2>1, <1>3, PassedStaysCounted DEF CountersAreSound
  <2>4. CooldownIsTaken'
    BY <2>1, <1>3, <1>4, <1>1 DEF CountersAreSound, CooldownIsTaken
  <2>5. Limits!LockoutNeedsACrash'
    BY <2>1, <1>2, <1>1 DEF CountersAreSound, Limits!LockoutNeedsACrash, Limits!Key
  <2> QED BY <2>2, <2>3, <2>4, <2>5 DEF CountersAreSound
<1> QED BY <1>5, <1>6, <1>7, <1>8, <1>9, <1>10

(* A window or a cooldown ends when no request counts in it.               *)
LEMMA CountersStaySound ==
    ASSUME CountersAreSound, Limits!Next
    PROVE  CountersAreSound'
<1>1. ASSUME NEW k \in Counters, Limits!WindowEnds(k) \/ Limits!CooldownEnds(k)
      PROVE  CountersAreSound'
  <2>1. limitReq' = limitReq /\ \A r \in Requests : limitReq[r].pc # "idle" => limitReq[r].key # k
    BY <1>1 DEF Limits!WindowEnds, Limits!CooldownEnds
  <2>2. /\ \A c : PassingSoon(c)' = PassingSoon(c) /\ PastCooldown(c)' = PastCooldown(c)
        /\ PassingSoon(k) = {} /\ PastCooldown(k) = {}
    <3>1. \A c : PassingSoon(c)' = PassingSoon(c)
      BY <2>1 DEF PassingSoon, Counting
    <3>2. \A c : PastCooldown(c)' = PastCooldown(c)
      BY <2>1 DEF PastCooldown
    <3>3. PassingSoon(k) = {} /\ PastCooldown(k) = {}
      BY <2>1 DEF PassingSoon, Counting, PastCooldown
    <3> QED BY <3>1, <3>2, <3>3
  <2>3. LimitsTyped'
    BY <1>1, <2>1 DEF Limits!WindowEnds, Limits!CooldownEnds, CountersAreSound, LimitsTyped
  <2>4. PassedIsCounted'
    <3> SUFFICES ASSUME NEW c \in Counters
        PROVE  /\ passed'[c] + Cardinality(PassingSoon(c)) <= count'[c]
               /\ passed'[c] + Cardinality(PassingSoon(c)) <= Limit
      BY <2>2 DEF PassedIsCounted
    <3>1. CASE passed'[c] = passed[c] /\ count'[c] = count[c]
      BY <3>1 DEF CountersAreSound, PassedIsCounted
    <3>2. CASE c = k /\ passed'[c] = 0 /\ count'[c] = 0
      BY <3>2, <2>2, FS_EmptySet, LimitAssumption
    <3> QED BY <1>1, <3>1, <3>2
            DEF Limits!WindowEnds, Limits!CooldownEnds, CountersAreSound, LimitsTyped
  <2>5. CooldownIsTaken'
    BY <1>1, <2>2 DEF Limits!WindowEnds, Limits!CooldownEnds, CountersAreSound, CooldownIsTaken, LimitsTyped
  <2>6. Limits!LockoutNeedsACrash'
    BY <1>1, <2>1 DEF Limits!WindowEnds, Limits!CooldownEnds, CountersAreSound, LimitsTyped,
                      Limits!LockoutNeedsACrash, Limits!Key
  <2> QED BY <2>3, <2>4, <2>5, <2>6 DEF CountersAreSound
<1> QED BY <1>1, CommandKeepsCounters DEF Limits!Next

LEMMA SoundCountersLimit == CountersAreSound => Limits!CountersLimit
<1> SUFFICES ASSUME CountersAreSound, NEW k \in Counters
             PROVE  passed[k] <= Limit /\ (Discipline[k] = "cooldown" => sinceCooldown[k] <= 1)
  BY DEF CountersAreSound, Limits!CountersLimit, Limits!LimitsHold
<1> QED BY CountingIsFinite, LimitAssumption DEF CountersAreSound, LimitsTyped, PassedIsCounted, CooldownIsTaken

-----------------------------------------------------------------------------
(* Saved drafts and templates (drafts.service.ts).                         *)

RowsOf(rows, sort) == {d \in Saved : rows[d] = sort}

SavesAreCounted ==
    /\ saved \in [Saved -> {"none", "draft", "template"}]
    /\ call \in [Requests -> [pc : {"idle", "write"}, row : Saved \cup {NoOne}, kind : {"draft", "template"}]]
    /\ raced \in [{"draft", "template"} -> Nat] /\ turned \in Nat
    /\ Cardinality(RowsOf(saved, "template")) <= MaxRows + raced["template"]
    /\ Cardinality(RowsOf(saved, "draft")) <= MaxRows + raced["draft"] + turned

(* How many rows of a sort there are when one row changes.                 *)
LEMMA RowsOfIsFinite == \A rows, sort : IsFiniteSet(RowsOf(rows, sort)) /\ Cardinality(RowsOf(rows, sort)) \in Nat
<1> SUFFICES ASSUME NEW rows, NEW sort
             PROVE  IsFiniteSet(RowsOf(rows, sort)) /\ Cardinality(RowsOf(rows, sort)) \in Nat
  OBVIOUS
<1>1. RowsOf(rows, sort) \subseteq Saved
  BY DEF RowsOf
<1> QED BY <1>1, DraftAssumption, FS_Subset, FS_CardinalityType

LEMMA RowsOfAfter ==
    ASSUME NEW rows \in [Saved -> {"none", "draft", "template"}],
           NEW after \in [Saved -> {"none", "draft", "template"}],
           NEW d \in Saved, \A e \in Saved \ {d} : after[e] = rows[e],
           NEW sort \in {"draft", "template"}
    PROVE  /\ after[d] = sort /\ rows[d] # sort
              => Cardinality(RowsOf(after, sort)) = Cardinality(RowsOf(rows, sort)) + 1
           /\ after[d] # sort /\ rows[d] = sort
              => Cardinality(RowsOf(after, sort)) = Cardinality(RowsOf(rows, sort)) - 1
           /\ (after[d] = sort <=> rows[d] = sort)
              => Cardinality(RowsOf(after, sort)) = Cardinality(RowsOf(rows, sort))
<1>0. IsFiniteSet(RowsOf(rows, sort))
  BY RowsOfIsFinite
<1>1. CASE after[d] = sort /\ rows[d] # sort
  <2>1. RowsOf(after, sort) = RowsOf(rows, sort) \cup {d} /\ d \notin RowsOf(rows, sort)
    BY <1>1 DEF RowsOf
  <2> QED BY <1>0, <1>1, <2>1, FS_AddElement
<1>2. CASE after[d] # sort /\ rows[d] = sort
  <2>1. RowsOf(after, sort) = RowsOf(rows, sort) \ {d} /\ d \in RowsOf(rows, sort)
    BY <1>2 DEF RowsOf
  <2>2. Cardinality(RowsOf(rows, sort) \ {d}) = Cardinality(RowsOf(rows, sort)) - 1
    BY <2>1, <1>0, FS_RemoveElement
  <2> QED BY <1>2, <2>1, <2>2
<1>3. CASE after[d] = sort <=> rows[d] = sort
  <2>1. RowsOf(after, sort) = RowsOf(rows, sort)
    BY <1>3 DEF RowsOf
  <2> QED BY <1>3, <2>1
<1> QED BY <1>1, <1>2, <1>3

LEMMA RowsOfAreThose ==
    /\ \A sort : Saves!Having(sort) = RowsOf(saved, sort)
    /\ \A S : Saves!Cardinality(S) = Cardinality(S)
<1>1. \A sort : Saves!Having(sort) = RowsOf(saved, sort)
  BY DEF Saves!Having, RowsOf
<1>2. \A S : Saves!Cardinality(S) = Cardinality(S)
  BY Zenon DEF Saves!Cardinality, Cardinality
<1> QED BY <1>1, <1>2

LEMMA SavesCountedAtFirst == Saves!Init => SavesAreCounted
<1> SUFFICES ASSUME Saves!Init PROVE SavesAreCounted
  OBVIOUS
<1>1. \A k \in {"draft", "template"} : Cardinality(RowsOf(saved, k)) <= MaxRows
  BY RowsOfAreThose DEF Saves!Init, Saves!SavedKinds
<1> QED BY <1>1, RowsOfIsFinite, DraftAssumption DEF Saves!Init, Saves!SavedKinds, Saves!Resting, SavesAreCounted

LEMMA SavesStayCounted ==
    ASSUME SavesAreCounted, Saves!Next
    PROVE  SavesAreCounted'
<1> USE DraftAssumption DEF SavesAreCounted
<1>1. ASSUME NEW c \in Requests, NEW sort \in Saves!SavedKinds,
             Saves!Create(c, sort) \/ \E d \in Saved : Saves!Update(c, d, sort)
      PROVE  SavesAreCounted'
  BY <1>1 DEF Saves!Create, Saves!Update, Saves!Ready, Saves!SavedKinds
<1>2. ASSUME NEW c \in Requests, Saves!Write(c) PROVE SavesAreCounted'
  <2> DEFINE sort == call[c].kind
  <2>1. /\ sort \in {"draft", "template"}
        /\ call' \in [Requests -> [pc : {"idle", "write"}, row : Saved \cup {NoOne}, kind : {"draft", "template"}]]
    BY <1>2 DEF Saves!Write, Saves!Finished, Saves!Resting
  <2>2. CASE UNCHANGED <<saved, raced, turned>>
    BY <2>1, <2>2
  <2>3. ASSUME NEW d \in Saved, saved' = [saved EXCEPT ![d] = sort],
               turned' = (IF saved[d] = "template" /\ sort = "draft" THEN turned + 1 ELSE turned),
               \/ /\ Cardinality(RowsOf(saved, sort)) >= MaxRows
                  /\ raced' = [raced EXCEPT ![sort] = @ + 1]
               \/ /\ Cardinality(RowsOf(saved, sort)) < MaxRows \/ saved[d] = "template" \/ saved[d] = sort
                  /\ raced' = raced
        PROVE  SavesAreCounted'
    <3>1. saved' \in [Saved -> {"none", "draft", "template"}]
      BY <2>1, <2>3
    <3>2. raced' \in [{"draft", "template"} -> Nat] /\ turned' \in Nat
      BY <2>1, <2>3
    <3>3. ASSUME NEW k \in {"draft", "template"}
          PROVE  /\ Cardinality(RowsOf(saved, k)) \in Nat
                 /\ sort = k /\ saved[d] # k
                    => Cardinality(RowsOf(saved', k)) = Cardinality(RowsOf(saved, k)) + 1
                 /\ sort # k /\ saved[d] = k
                    => Cardinality(RowsOf(saved', k)) = Cardinality(RowsOf(saved, k)) - 1
                 /\ (sort = k <=> saved[d] = k) => Cardinality(RowsOf(saved', k)) = Cardinality(RowsOf(saved, k))
      <4>1. Cardinality(RowsOf(saved, k)) \in Nat
        BY RowsOfIsFinite
      <4>2. saved'[d] = sort /\ \A e \in Saved \ {d} : saved'[e] = saved[e]
        BY <2>3
      <4>3. PICK after : after = saved'
        OBVIOUS
      <4> HIDE DEF sort
      <4>4. /\ sort = k /\ saved[d] # k
                => Cardinality(RowsOf(after, k)) = Cardinality(RowsOf(saved, k)) + 1
            /\ sort # k /\ saved[d] = k
                => Cardinality(RowsOf(after, k)) = Cardinality(RowsOf(saved, k)) - 1
            /\ (sort = k <=> saved[d] = k) => Cardinality(RowsOf(after, k)) = Cardinality(RowsOf(saved, k))
        BY <4>2, <4>3, <3>1, RowsOfAfter
      <4> QED BY <4>1, <4>3, <4>4
    <3>4. Cardinality(RowsOf(saved', "template")) <= MaxRows + raced'["template"]
      <4>1. CASE sort = "template"
        BY <4>1, <2>3, <3>2, <3>3
      <4>2. CASE sort = "draft"
        BY <4>2, <2>3, <3>2, <3>3
      <4> QED BY <2>1, <4>1, <4>2
    <3>5. Cardinality(RowsOf(saved', "draft")) <= MaxRows + raced'["draft"] + turned'
      <4>1. CASE sort = "template"
        BY <4>1, <2>3, <3>2, <3>3
      <4>2. CASE sort = "draft"
        BY <4>2, <2>3, <3>2, <3>3
      <4> QED BY <2>1, <4>1, <4>2
    <3> QED BY <2>1, <3>1, <3>2, <3>4, <3>5
  <2>4. ASSUME NEW d \in Saved, saved' = [saved EXCEPT ![d] = sort], saved[d] = "none",
               Saves!Counted(sort, TRUE), turned' = turned
        PROVE  SavesAreCounted'
    <3>1. \/ /\ Cardinality(RowsOf(saved, sort)) >= MaxRows
             /\ raced' = [raced EXCEPT ![sort] = @ + 1]
          \/ Cardinality(RowsOf(saved, sort)) < MaxRows /\ raced' = raced
      BY <2>4, RowsOfAreThose, RowsOfIsFinite DEF Saves!Counted
    <3> QED BY <2>3, <2>4, <3>1
  <2>5. ASSUME saved[call[c].row] # "none", call[c].row \in Saved, saved' = [saved EXCEPT ![call[c].row] = sort],
               Saves!Counted(sort, sort = "template" /\ saved[call[c].row] = "draft"),
               turned' = IF saved[call[c].row] = "template" /\ sort = "draft" THEN turned + 1 ELSE turned
        PROVE  SavesAreCounted'
    <3>1. \/ /\ Cardinality(RowsOf(saved, sort)) >= MaxRows
             /\ raced' = [raced EXCEPT ![sort] = @ + 1]
          \/ /\ \/ Cardinality(RowsOf(saved, sort)) < MaxRows
                \/ ~(sort = "template" /\ saved[call[c].row] = "draft")
             /\ raced' = raced
      BY <2>5, RowsOfAreThose, RowsOfIsFinite DEF Saves!Counted
    <3>2. saved[call[c].row] \in {"draft", "template"}
      BY <2>5
    <3> QED BY <2>1, <2>3, <2>5, <3>1, <3>2
  <2>6. call[c].row \in Saved \cup {NoOne}
    OBVIOUS
  <2> QED BY <1>2, <2>2, <2>4, <2>5, <2>6 DEF Saves!Write
<1>3. ASSUME NEW d \in Saved, Saves!Remove(d) PROVE SavesAreCounted'
  <2>1. ASSUME NEW k \in {"draft", "template"}
        PROVE  /\ Cardinality(RowsOf(saved, k)) \in Nat
               /\ Cardinality(RowsOf(saved', k)) \in Nat
               /\ Cardinality(RowsOf(saved', k)) <= Cardinality(RowsOf(saved, k))
    <3>1. saved' = [saved EXCEPT ![d] = "none"] /\ k # "none"
      BY <1>3 DEF Saves!Remove
    <3>2. /\ Cardinality(RowsOf(saved, k)) \in Nat
          /\ Cardinality(RowsOf(saved', k)) \in Nat
      BY RowsOfIsFinite
    <3>3. /\ saved[d] # k => Cardinality(RowsOf(saved', k)) = Cardinality(RowsOf(saved, k))
          /\ saved[d] = k => Cardinality(RowsOf(saved', k)) = Cardinality(RowsOf(saved, k)) - 1
      <4>1. saved' \in [Saved -> {"none", "draft", "template"}] /\ saved'[d] # k
            /\ \A e \in Saved \ {d} : saved'[e] = saved[e]
        BY <3>1
      <4>2. PICK after : after = saved'
        OBVIOUS
      <4>3. /\ saved[d] # k => Cardinality(RowsOf(after, k)) = Cardinality(RowsOf(saved, k))
            /\ saved[d] = k => Cardinality(RowsOf(after, k)) = Cardinality(RowsOf(saved, k)) - 1
        BY <4>1, <4>2, RowsOfAfter
      <4> QED BY <4>2, <4>3
    <3> QED BY <3>1, <3>2, <3>3
  <2> QED BY <1>3, <2>1 DEF Saves!Remove
<1> QED BY <1>1, <1>2, <1>3 DEF Saves!Next

LEMMA CountedSavesKeepLimit == SavesAreCounted => Saves!LimitPassedByRaces
BY RowsOfAreThose DEF SavesAreCounted, Saves!LimitPassedByRaces

-----------------------------------------------------------------------------
(* GIFs as rows (memes.service.ts).                                        *)

Statuses == {"PENDING_REVIEW", "APPROVED", "REJECTED", "TAKEN_DOWN"}
Judgements == {"OFFICIAL", "SELF_USE", "DUPLICATE_DAILY_USE", "ACTOR_DAILY_LIMIT", "CREATOR_DAILY_LIMIT", "REWARDED"}
GifRequests ==
    [op : GifRows!Ops \cup {"none"}, pc : {"idle", "start", "read", "write", "lock", "judge", "pay"},
     gif : Gifs \cup {GifRows!Idle.gif}, user : Actors \cup {GifRows!Idle.user}, no : Nat,
     found : Statuses \cup Judgements \cup {"none"}]

GifsTyped ==
    /\ status \in [Gifs -> Statuses] /\ collections \in [Gifs -> Nat]
    /\ collected \subseteq Actors \X Gifs /\ IsFiniteSet(collected)
    /\ report \in [Gifs \X Actors -> {"NONE", "OPEN", "RESOLVED"}]
    /\ rewarded \subseteq Actors \X Gifs \X Nat /\ IsFiniteSet(rewarded) /\ points \in [Users -> Nat]
    /\ gifLock \in [Gifs -> Requests \cup {NoOne}] /\ userLock \in [Users -> Requests \cup {NoOne}]
    /\ gifReq \in [Requests -> GifRequests] /\ gifArrived \in Nat

LocksGif == {"collect", "uncollect", "takedown"}

\* A request that has not come to its end works on a GIF and for a member that exist, and its steps are
\* those of its operation.
WellFormed(q) ==
    q.pc # "idle" =>
        /\ q.gif \in Gifs /\ q.user \in Actors
        /\ q.pc = "read" => q.op \in LocksGif
        /\ q.pc = "write" => q.op \in LocksGif \cup {"report"}
        /\ q.pc \in {"lock", "judge", "pay"} => q.op = "use"

\* Between its lock and its end nobody else has the row of its GIF, so what it has read stays true.
HasGif(r) ==
    gifReq[r].pc \in {"read", "write"} /\ gifReq[r].op \in LocksGif =>
        /\ gifLock[gifReq[r].gif] = r
        /\ gifReq[r].pc = "write" => gifReq[r].found = status[gifReq[r].gif]

PaidTo(events, u) == {e \in events : e[1] = u}
PaidFor(events, c) == {e \in events : Creator[e[2]] = c}
Payable(events, u, g) ==
    /\ \A e \in PaidTo(events, u) : e[2] # g
    /\ Cardinality(PaidTo(events, u)) < ActorLimit
    /\ Cardinality(PaidFor(events, Creator[g])) < CreatorLimit

\* Nobody else judges or pays a use of the same member, or for the same creator, before it has paid.
HasUsers(r) ==
    gifReq[r].pc \in {"judge", "pay"} =>
        /\ userLock[gifReq[r].user] = r /\ userLock[Creator[gifReq[r].gif]] = r
        /\ gifReq[r].pc = "pay" /\ gifReq[r].found = "REWARDED"
               => Payable(rewarded, gifReq[r].user, gifReq[r].gif)

LocksAreHeld == \A r \in Requests : WellFormed(gifReq[r]) /\ HasGif(r) /\ HasUsers(r)

CollectionsAgree ==
    /\ \A g \in Gifs : collections[g] = Cardinality({x \in collected : x[2] = g})
    /\ \A x \in collected : status[x[2]] = "APPROVED"
    /\ \A x \in Gifs \X Actors : report[x] = "OPEN" /\ status[x[1]] = "TAKEN_DOWN" => x \in lateReport

PaymentsAgree ==
    /\ \A u \in Users : /\ Cardinality(PaidTo(rewarded, u)) <= ActorLimit
                        /\ Cardinality(PaidFor(rewarded, u)) <= CreatorLimit
                        /\ points[u] = Cardinality(PaidFor(rewarded, u))
    /\ \A d, e \in rewarded : d[1] = e[1] /\ d[2] = e[2] => d = e

GifsAreSound == GifsTyped /\ LocksAreHeld /\ CollectionsAgree /\ PaymentsAgree

LEMMA GifsSoundAtFirst == GifRows!Init => GifsAreSound
<1> SUFFICES ASSUME GifRows!Init PROVE GifsAreSound
  OBVIOUS
<1>1. GifsTyped
  BY FS_EmptySet DEF GifRows!Init, GifRows!Idle, GifsTyped, GifRequests, Statuses
<1>2. LocksAreHeld
  BY DEF GifRows!Init, GifRows!Idle, LocksAreHeld, WellFormed, HasGif, HasUsers
<1>3. CollectionsAgree
  <2>1. \A g \in Gifs : {x \in collected : x[2] = g} = {}
    BY DEF GifRows!Init
  <2> QED BY <2>1, FS_EmptySet DEF GifRows!Init, CollectionsAgree
<1>4. PaymentsAgree
  <2>1. \A u \in Users : PaidTo(rewarded, u) = {} /\ PaidFor(rewarded, u) = {}
    BY DEF GifRows!Init, PaidTo, PaidFor
  <2>2. \A u \in Users : Cardinality(PaidTo(rewarded, u)) = 0 /\ Cardinality(PaidFor(rewarded, u)) = 0
    BY <2>1, FS_EmptySet
  <2>3. rewarded = {} /\ points = [u \in Users |-> 0]
    BY DEF GifRows!Init
  <2> QED BY <2>2, <2>3, GifAssumption DEF PaymentsAgree
<1> QED BY <1>1, <1>2, <1>3, <1>4 DEF GifsAreSound

(* The locks of the others outlast what a request does to its own, and so  *)
(* does what they rely on.                                                 *)
LEMMA LocksStayHeld ==
    ASSUME GifsTyped, LocksAreHeld, NEW r \in Requests, gifReq' = [gifReq EXCEPT ![r] = gifReq'[r]],
           \A s \in Requests \ {r} : /\ \A g \in Gifs : gifLock[g] = s => gifLock'[g] = s /\ status'[g] = status[g]
                                     /\ \A u \in Users : userLock[u] = s => userLock'[u] = s,
           \/ rewarded' = rewarded
           \/ \A s \in Requests \ {r} : HasUsers(s) /\ gifReq[s].pc = "pay" /\ gifReq[s].found = "REWARDED"
                   => Payable(rewarded', gifReq[s].user, gifReq[s].gif),
           WellFormed(gifReq'[r]), HasGif(r)', HasUsers(r)'
    PROVE  LocksAreHeld'
<1> SUFFICES ASSUME NEW s \in Requests PROVE WellFormed(gifReq'[s]) /\ HasGif(s)' /\ HasUsers(s)'
  BY DEF LocksAreHeld, WellFormed
<1>1. CASE s = r
  BY <1>1
<1>2. CASE s # r
  <2>1. gifReq'[s] = gifReq[s] /\ gifReq[s] \in GifRequests
    BY <1>2 DEF GifsTyped
  <2>2. WellFormed(gifReq[s]) /\ HasGif(s) /\ HasUsers(s)
    BY DEF LocksAreHeld
  <2>3. HasGif(s)'
    BY <1>2, <2>1, <2>2 DEF HasGif, WellFormed
  <2>4. HasUsers(s)'
    <3>1. gifReq[s].pc = "pay" /\ gifReq[s].found = "REWARDED"
             => Payable(rewarded', gifReq[s].user, gifReq[s].gif)
      BY <1>2, <2>2 DEF HasUsers, Payable, PaidTo, PaidFor
    <3> QED BY <1>2, <2>1, <2>2, <3>1, GifAssumption DEF HasUsers, WellFormed, Payable, PaidTo, PaidFor
  <2> QED BY <2>1, <2>2, <2>3, <2>4
<1> QED BY <1>1, <1>2

LEMMA ReleasedLocks ==
    ASSUME GifsTyped, NEW r \in Requests, GifRows!Released(r)
    PROVE  /\ gifLock' \in [Gifs -> Requests \cup {NoOne}] /\ userLock' \in [Users -> Requests \cup {NoOne}]
           /\ \A s \in Requests \ {r} : /\ \A g \in Gifs : gifLock[g] = s => gifLock'[g] = s
                                        /\ \A u \in Users : userLock[u] = s => userLock'[u] = s
BY RequestAssumption DEF GifsTyped, GifRows!Released

(* Steps that write no row.                                                *)
LEMMA RequestsKeepGifs ==
    ASSUME GifsAreSound, NEW r \in Requests, UNCHANGED GifRows!rows,
           \/ GifRows!LockGif(r) \/ GifRows!ReadStatus(r) \/ GifRows!FindReported(r) \/ GifRows!FindUsed(r)
           \/ GifRows!LockUsers(r) \/ GifRows!Judge(r) \/ GifRows!Abort(r)
           \/ \E op \in GifRows!Ops, g \in Gifs, u \in Actors : GifRows!Arrive(r, op, g, u)
    PROVE  GifsAreSound'
<1> USE RequestAssumption, GifAssumption
<1>1. CollectionsAgree' /\ PaymentsAgree'
  BY DEF GifsAreSound, CollectionsAgree, PaymentsAgree, PaidTo, PaidFor, GifRows!rows
<1>2. /\ GifsTyped /\ LocksAreHeld /\ WellFormed(gifReq[r]) /\ gifReq[r] \in GifRequests
      /\ UNCHANGED <<status, collected, collections, report, rewarded, points>>
  BY DEF GifsAreSound, LocksAreHeld, GifsTyped, GifRows!rows
<1>3. ASSUME gifReq'[r] \in GifRequests, gifReq' = [gifReq EXCEPT ![r] = gifReq'[r]], gifArrived' \in Nat,
             gifLock' \in [Gifs -> Requests \cup {NoOne}], userLock' \in [Users -> Requests \cup {NoOne}],
             \A s \in Requests \ {r} : /\ \A g \in Gifs : gifLock[g] = s => gifLock'[g] = s
                                       /\ \A u \in Users : userLock[u] = s => userLock'[u] = s,
             WellFormed(gifReq'[r]), HasGif(r)', HasUsers(r)'
      PROVE  GifsAreSound'
  <2>1. LocksAreHeld'
    BY <1>2, <1>3, LocksStayHeld
  <2>2. GifsTyped'
    BY <1>2, <1>3 DEF GifsTyped
  <2> QED BY <1>1, <2>1, <2>2 DEF GifsAreSound
<1>4. CASE GifRows!Abort(r)
  <2>1. /\ gifReq' = [gifReq EXCEPT ![r] = GifRows!Idle] /\ gifArrived' = gifArrived /\ GifRows!Released(r)
    BY <1>4 DEF GifRows!Abort, GifRows!End
  <2>2. gifReq'[r] = GifRows!Idle /\ GifRows!Idle \in GifRequests /\ GifRows!Idle.pc = "idle"
    BY <2>1, <1>2 DEF GifsTyped, GifRows!Idle, GifRequests
  <2>3. WellFormed(gifReq'[r]) /\ HasGif(r)' /\ HasUsers(r)'
    BY <2>2 DEF WellFormed, HasGif, HasUsers
  <2> QED BY <1>2, <1>3, <2>1, <2>2, <2>3, ReleasedLocks DEF GifsTyped
<1>5. CASE \E op \in GifRows!Ops, g \in Gifs, u \in Actors : GifRows!Arrive(r, op, g, u)
  <2>1. PICK op \in GifRows!Ops, g \in Gifs, u \in Actors : GifRows!Arrive(r, op, g, u)
    BY <1>5
  <2>2. /\ gifReq' = [gifReq EXCEPT ![r] = [op |-> op, pc |-> "start", gif |-> g, user |-> u,
                                           no |-> gifArrived + 1, found |-> "none"]]
        /\ gifArrived' = gifArrived + 1 /\ UNCHANGED <<gifLock, userLock>>
    BY <2>1 DEF GifRows!Arrive, GifRows!locks
  <2>3. gifReq'[r] \in GifRequests /\ gifReq'[r].pc = "start" /\ gifReq'[r].gif \in Gifs /\ gifReq'[r].user \in Actors
    BY <2>2, <1>2 DEF GifsTyped, GifRequests
  <2>4. WellFormed(gifReq'[r]) /\ HasGif(r)' /\ HasUsers(r)'
    BY <2>3 DEF WellFormed, HasGif, HasUsers
  <2> QED BY <1>2, <1>3, <2>2, <2>3, <2>4 DEF GifsTyped
<1>6. CASE GifRows!FindReported(r) \/ GifRows!FindUsed(r)
  <2>1. CASE GifRows!End(r) /\ gifArrived' = gifArrived
    <3>1. /\ gifReq' = [gifReq EXCEPT ![r] = GifRows!Idle] /\ GifRows!Released(r)
      BY <2>1 DEF GifRows!End
    <3>2. gifReq'[r] = GifRows!Idle /\ GifRows!Idle \in GifRequests /\ GifRows!Idle.pc = "idle"
      BY <3>1, <1>2 DEF GifsTyped, GifRows!Idle, GifRequests
    <3>3. WellFormed(gifReq'[r]) /\ HasGif(r)' /\ HasUsers(r)'
      BY <3>2 DEF WellFormed, HasGif, HasUsers
    <3> QED BY <1>2, <1>3, <2>1, <3>1, <3>2, <3>3, ReleasedLocks DEF GifsTyped
  <2>2. ASSUME NEW p, (p = "write" /\ gifReq[r].op = "report") \/ (p = "lock" /\ gifReq[r].op = "use"),
               gifReq[r].pc = "start", gifReq' = [gifReq EXCEPT ![r].pc = p], UNCHANGED <<gifLock, userLock>>,
               gifArrived' = gifArrived
        PROVE  GifsAreSound'
    <3>1. /\ gifReq'[r] \in GifRequests /\ gifReq'[r].pc = p /\ gifReq'[r].op = gifReq[r].op
          /\ gifReq'[r].gif = gifReq[r].gif /\ gifReq'[r].user = gifReq[r].user
      BY <2>2, <1>2 DEF GifsTyped, GifRequests
    <3>2. WellFormed(gifReq'[r]) /\ HasGif(r)' /\ HasUsers(r)'
      BY <3>1, <2>2, <1>2 DEF WellFormed, HasGif, HasUsers, LocksGif
    <3> QED BY <1>2, <1>3, <2>2, <3>1, <3>2 DEF GifsTyped
  <2>3. CASE GifRows!FindReported(r)
    <3>1. /\ gifReq[r].op = "report" /\ gifReq[r].pc = "start" /\ gifArrived' = gifArrived
          /\ GifRows!End(r) \/ (gifReq' = [gifReq EXCEPT ![r].pc = "write"] /\ UNCHANGED <<gifLock, userLock>>)
      BY <2>3, Zenon DEF GifRows!FindReported, GifRows!At, GifRows!Goto, GifRows!locks
    <3> QED BY <2>1, <2>2, <3>1
  <2>4. CASE GifRows!FindUsed(r)
    <3>1. /\ gifReq[r].op = "use" /\ gifReq[r].pc = "start" /\ gifArrived' = gifArrived
          /\ GifRows!End(r) \/ (gifReq' = [gifReq EXCEPT ![r].pc = "lock"] /\ UNCHANGED <<gifLock, userLock>>)
      BY <2>4, Zenon DEF GifRows!FindUsed, GifRows!At, GifRows!Goto, GifRows!locks
    <3> QED BY <2>1, <2>2, <3>1
  <2> QED BY <1>6, <2>3, <2>4
<1>7. CASE GifRows!LockGif(r)
  <2>1. /\ gifReq[r].op \in LocksGif /\ gifReq[r].pc = "start" /\ gifLock[gifReq[r].gif] = NoOne
        /\ gifLock' = [gifLock EXCEPT ![gifReq[r].gif] = r] /\ gifReq' = [gifReq EXCEPT ![r].pc = "read"]
        /\ UNCHANGED <<userLock, gifArrived>>
    BY <1>7 DEF GifRows!LockGif, GifRows!Goto, LocksGif
  <2>2. /\ gifReq'[r] \in GifRequests /\ gifReq'[r].pc = "read" /\ gifReq'[r].op = gifReq[r].op
        /\ gifReq'[r].gif = gifReq[r].gif /\ gifReq'[r].user = gifReq[r].user /\ gifReq[r].gif \in Gifs
    BY <2>1, <1>2 DEF GifsTyped, GifRequests, WellFormed
  <2>3. WellFormed(gifReq'[r]) /\ HasGif(r)' /\ HasUsers(r)'
    BY <2>1, <2>2, <1>2 DEF WellFormed, HasGif, HasUsers, LocksGif, GifsTyped
  <2> QED BY <1>2, <1>3, <2>1, <2>2, <2>3 DEF GifsTyped
<1>8. CASE GifRows!ReadStatus(r)
  <2>1. /\ gifReq[r].pc = "read" /\ gifReq[r].op \in LocksGif /\ UNCHANGED <<gifLock, userLock, gifArrived>>
        /\ gifReq' = [gifReq EXCEPT ![r].pc = "write", ![r].found = status[gifReq[r].gif]]
    BY <1>8, <1>2 DEF GifRows!ReadStatus, GifRows!locks, WellFormed
  <2>2. /\ gifReq'[r] \in GifRequests /\ gifReq'[r].pc = "write" /\ gifReq'[r].op = gifReq[r].op
        /\ gifReq'[r].gif = gifReq[r].gif /\ gifReq'[r].user = gifReq[r].user /\ gifReq[r].gif \in Gifs
        /\ gifReq'[r].found = status[gifReq[r].gif]
    BY <2>1, <1>2 DEF GifsTyped, GifRequests, WellFormed
  <2>3. WellFormed(gifReq'[r]) /\ HasGif(r)' /\ HasUsers(r)'
    BY <2>1, <2>2, <1>2 DEF WellFormed, HasGif, HasUsers, LocksAreHeld
  <2> QED BY <1>2, <1>3, <2>1, <2>2, <2>3 DEF GifsTyped
<1>9. CASE GifRows!LockUsers(r)
  <2>1. LET both == {gifReq[r].user, Creator[gifReq[r].gif]} IN
        /\ gifReq[r].pc = "lock" /\ \A u \in both : userLock[u] = NoOne
        /\ userLock' = [u \in Users |-> IF u \in both THEN r ELSE userLock[u]]
        /\ gifReq' = [gifReq EXCEPT ![r].pc = "judge"] /\ UNCHANGED <<gifLock, gifArrived>>
    BY <1>9 DEF GifRows!LockUsers, GifRows!Goto, GifRows!At
  <2>2. /\ gifReq'[r] \in GifRequests /\ gifReq'[r].pc = "judge" /\ gifReq'[r].op = gifReq[r].op
        /\ gifReq'[r].gif = gifReq[r].gif /\ gifReq'[r].user = gifReq[r].user /\ gifReq[r].gif \in Gifs
        /\ gifReq[r].user \in Users /\ Creator[gifReq[r].gif] \in Users
    BY <2>1, <1>2 DEF GifsTyped, GifRequests, WellFormed
  <2>3. WellFormed(gifReq'[r]) /\ HasGif(r)' /\ HasUsers(r)'
    BY <2>1, <2>2, <1>2 DEF WellFormed, HasGif, HasUsers
  <2> QED BY <1>2, <1>3, <2>1, <2>2, <2>3 DEF GifsTyped
<1>10. CASE GifRows!Judge(r)
  <2>1. /\ gifReq[r].pc = "judge" /\ UNCHANGED <<gifLock, userLock, gifArrived>>
        /\ gifReq' = [gifReq EXCEPT ![r].pc = "pay",
                                   ![r].found = GifRows!RewardStatus(gifReq[r].gif, gifReq[r].user)]
    BY <1>10 DEF GifRows!Judge, GifRows!locks, GifRows!At
  <2>2. GifRows!RewardStatus(gifReq[r].gif, gifReq[r].user) \in Judgements
    BY DEF GifRows!RewardStatus, Judgements
  <2>3. /\ gifReq'[r] \in GifRequests /\ gifReq'[r].pc = "pay" /\ gifReq'[r].op = gifReq[r].op
        /\ gifReq'[r].gif = gifReq[r].gif /\ gifReq'[r].user = gifReq[r].user /\ gifReq[r].gif \in Gifs
        /\ gifReq'[r].found = GifRows!RewardStatus(gifReq[r].gif, gifReq[r].user)
    BY <2>1, <2>2, <1>2 DEF GifsTyped, GifRequests, WellFormed
  <2>4. GifRows!RewardStatus(gifReq[r].gif, gifReq[r].user) = "REWARDED"
           => Payable(rewarded, gifReq[r].user, gifReq[r].gif)
    <3>1. \A S : GifRows!Cardinality(S) = Cardinality(S)
      BY Zenon DEF GifRows!Cardinality, Cardinality
    <3>2. /\ IsFiniteSet(PaidTo(rewarded, gifReq[r].user))
          /\ IsFiniteSet(PaidFor(rewarded, Creator[gifReq[r].gif]))
      BY <1>2, FS_Subset DEF GifsTyped, PaidTo, PaidFor
    <3>3. /\ Cardinality(PaidTo(rewarded, gifReq[r].user)) \in Nat
          /\ Cardinality(PaidFor(rewarded, Creator[gifReq[r].gif])) \in Nat
      BY <3>2, FS_CardinalityType
    <3> QED BY <3>1, <3>3 DEF GifRows!RewardStatus, GifRows!RewardedTo, GifRows!RewardedFor, Payable, PaidTo, PaidFor
  <2>5. WellFormed(gifReq'[r]) /\ HasGif(r)' /\ HasUsers(r)'
    <3>1. HasUsers(r)'
      <4>1. PICK events, u, g : events = rewarded' /\ u = gifReq'[r].user /\ g = gifReq'[r].gif
        OBVIOUS
      <4>2. events = rewarded /\ u = gifReq[r].user /\ g = gifReq[r].gif
        BY <4>1, <2>3, <1>2
      <4>3. gifReq'[r].found = "REWARDED" => Payable(events, u, g)
        BY <4>2, <2>3, <2>4
      <4>4. userLock'[gifReq'[r].user] = r /\ userLock'[Creator[gifReq'[r].gif]] = r
        BY <2>1, <2>3, <1>2 DEF HasUsers, LocksAreHeld
      <4> QED BY <4>1, <4>3, <4>4 DEF HasUsers
    <3> QED BY <2>1, <2>3, <3>1, <1>2 DEF WellFormed, HasGif
  <2> QED BY <1>2, <1>3, <2>1, <2>3, <2>5 DEF GifsTyped
<1> QED BY <1>4, <1>5, <1>6, <1>7, <1>8, <1>9, <1>10

\* The end of a request, whatever it writes: nobody else may have relied on the status of its GIF.
LEMMA EndKeepsLocks ==
    ASSUME GifsAreSound, NEW r \in Requests, GifRows!End(r), UNCHANGED gifArrived,
           \A s \in Requests \ {r}, g \in Gifs : gifLock[g] = s => status'[g] = status[g],
           \/ rewarded' = rewarded
           \/ \A s \in Requests \ {r} : HasUsers(s) /\ gifReq[s].pc = "pay" /\ gifReq[s].found = "REWARDED"
                   => Payable(rewarded', gifReq[s].user, gifReq[s].gif)
    PROVE  /\ LocksAreHeld' /\ gifReq' \in [Requests -> GifRequests] /\ gifArrived' \in Nat
           /\ gifLock' \in [Gifs -> Requests \cup {NoOne}] /\ userLock' \in [Users -> Requests \cup {NoOne}]
<1>1. /\ GifsTyped /\ LocksAreHeld /\ gifReq[r] \in GifRequests
  BY DEF GifsAreSound, GifsTyped
<1>2. /\ gifReq' = [gifReq EXCEPT ![r] = GifRows!Idle] /\ GifRows!Released(r)
  BY DEF GifRows!End
<1>3. gifReq'[r] = GifRows!Idle /\ GifRows!Idle \in GifRequests /\ GifRows!Idle.pc = "idle"
  BY <1>1, <1>2 DEF GifsTyped, GifRows!Idle, GifRequests
<1>4. WellFormed(gifReq'[r]) /\ HasGif(r)' /\ HasUsers(r)'
  BY <1>3 DEF WellFormed, HasGif, HasUsers
<1>5. LocksAreHeld'
  BY <1>1, <1>2, <1>3, <1>4, ReleasedLocks, LocksStayHeld
<1> QED BY <1>1, <1>2, <1>3, <1>5, ReleasedLocks DEF GifsTyped

(* Collections of one GIF, as one row comes or goes.                       *)
CollectedOf(c, g) == {x \in c : x[2] = g}

LEMMA CollectedOfIsFinite ==
    ASSUME NEW c, IsFiniteSet(c), NEW g
    PROVE  IsFiniteSet(CollectedOf(c, g)) /\ Cardinality(CollectedOf(c, g)) \in Nat
<1>1. CollectedOf(c, g) \subseteq c
  BY DEF CollectedOf
<1> QED BY <1>1, FS_Subset, FS_CardinalityType

LEMMA DecisionsKeepGifs ==
    ASSUME GifsAreSound, NEW r \in Requests, GifRows!Decide(r)
    PROVE  GifsAreSound'
<1> USE RequestAssumption
<1> DEFINE g == gifReq[r].gif
<1>1. /\ gifReq[r].pc = "start" /\ gifLock[g] = NoOne /\ GifRows!End(r)
      /\ UNCHANGED <<collected, collections, report, lateReport, rewarded, points, gifArrived>>
      /\ \/ status' = status
         \/ status[g] = "PENDING_REVIEW" /\ \E s \in {"APPROVED", "REJECTED"} : status' = [status EXCEPT ![g] = s]
  BY DEF GifRows!Decide
<1>2. g \in Gifs /\ GifsTyped /\ CollectionsAgree /\ PaymentsAgree
  BY <1>1 DEF GifsAreSound, LocksAreHeld, WellFormed
<1>3. /\ status' \in [Gifs -> Statuses]
      /\ \A h \in Gifs : status'[h] = status[h] \/ (/\ h = g /\ status[h] = "PENDING_REVIEW"
                                                    /\ status'[h] \in {"APPROVED", "REJECTED"})
  BY <1>1, <1>2 DEF GifsTyped, Statuses
<1> HIDE DEF g
<1>4. /\ LocksAreHeld' /\ gifReq' \in [Requests -> GifRequests] /\ gifArrived' \in Nat
      /\ gifLock' \in [Gifs -> Requests \cup {NoOne}] /\ userLock' \in [Users -> Requests \cup {NoOne}]
  BY <1>1, <1>3, EndKeepsLocks
<1>5. GifsTyped'
  BY <1>1, <1>2, <1>3, <1>4 DEF GifsTyped
<1>6. CollectionsAgree'
  <2>1. \A x \in collected : x[2] \in Gifs
    BY <1>2 DEF GifsTyped
  <2> QED BY <1>1, <1>2, <1>3, <2>1 DEF CollectionsAgree
<1>7. PaymentsAgree'
  BY <1>1, <1>2 DEF PaymentsAgree, PaidTo, PaidFor
<1> QED BY <1>4, <1>5, <1>6, <1>7 DEF GifsAreSound

LEMMA TakedownsKeepGifs ==
    ASSUME GifsAreSound, NEW r \in Requests, GifRows!Takedown(r)
    PROVE  GifsAreSound'
<1> USE RequestAssumption
<1> DEFINE g == gifReq[r].gif
<1>1. /\ gifReq[r].pc = "write" /\ gifReq[r].op = "takedown" /\ GifRows!End(r)
      /\ UNCHANGED <<lateReport, rewarded, points, gifArrived>>
      /\ \/ UNCHANGED <<collected, collections, status, report>>
         \/ /\ gifReq[r].found = "APPROVED"
            /\ collected' = {x \in collected : x[2] # g} /\ collections' = [collections EXCEPT ![g] = 0]
            /\ status' = [status EXCEPT ![g] = "TAKEN_DOWN"]
            /\ report' = [x \in Gifs \X Actors |-> IF x[1] = g /\ report[x] = "OPEN" THEN "RESOLVED" ELSE report[x]]
  BY DEF GifRows!Takedown, GifRows!At
<1>2. g \in Gifs /\ gifLock[g] = r /\ GifsTyped /\ CollectionsAgree /\ PaymentsAgree
  BY <1>1 DEF GifsAreSound, LocksAreHeld, WellFormed, HasGif, LocksGif
<1> HIDE DEF g
<1>3. /\ LocksAreHeld' /\ gifReq' \in [Requests -> GifRequests] /\ gifArrived' \in Nat
      /\ gifLock' \in [Gifs -> Requests \cup {NoOne}] /\ userLock' \in [Users -> Requests \cup {NoOne}]
  <2>1. \A s \in Requests \ {r}, h \in Gifs : gifLock[h] = s => status'[h] = status[h]
    BY <1>1, <1>2 DEF GifsTyped
  <2> QED BY <1>1, <2>1, EndKeepsLocks
<1>4. GifsTyped'
  <2>1. collected' \subseteq collected /\ collected \subseteq Actors \X Gifs /\ IsFiniteSet(collected)
    BY <1>1, <1>2 DEF GifsTyped
  <2>2. collected' \subseteq Actors \X Gifs /\ IsFiniteSet(collected')
    BY <2>1, FS_Subset
  <2>3. /\ status' \in [Gifs -> Statuses] /\ collections' \in [Gifs -> Nat]
        /\ report' \in [Gifs \X Actors -> {"NONE", "OPEN", "RESOLVED"}]
    BY <1>1, <1>2 DEF GifsTyped, Statuses
  <2> QED BY <1>1, <1>2, <1>3, <2>2, <2>3 DEF GifsTyped
<1>5. CollectionsAgree'
  <2>1. \A h \in Gifs : collections'[h] = Cardinality({x \in collected' : x[2] = h})
    <3> SUFFICES ASSUME NEW h \in Gifs PROVE collections'[h] = Cardinality({x \in collected' : x[2] = h})
      OBVIOUS
    <3>1. CASE collected' = collected /\ collections' = collections
      BY <3>1, <1>2 DEF CollectionsAgree
    <3>2. CASE collected' = {x \in collected : x[2] # g} /\ collections' = [collections EXCEPT ![g] = 0]
      <4>1. CASE h = g
        <5>1. {x \in collected' : x[2] = h} = {}
          BY <3>2, <4>1
        <5> QED BY <5>1, <3>2, <4>1, <1>2, FS_EmptySet DEF GifsTyped
      <4>2. CASE h # g
        <5>1. {x \in collected' : x[2] = h} = {x \in collected : x[2] = h}
          BY <3>2, <4>2
        <5> QED BY <5>1, <3>2, <4>2, <1>2 DEF GifsTyped, CollectionsAgree
      <4> QED BY <4>1, <4>2
    <3> QED BY <1>1, <3>1, <3>2
  <2>2. \A x \in collected' : status'[x[2]] = "APPROVED"
    <3>1. \A x \in collected : x[2] \in Gifs
      BY <1>2 DEF GifsTyped
    <3> QED BY <1>1, <1>2, <3>1 DEF GifsTyped, CollectionsAgree
  <2>3. \A x \in Gifs \X Actors : report'[x] = "OPEN" /\ status'[x[1]] = "TAKEN_DOWN" => x \in lateReport'
    BY <1>1, <1>2 DEF GifsTyped, CollectionsAgree
  <2> QED BY <2>1, <2>2, <2>3 DEF CollectionsAgree
<1>6. PaymentsAgree'
  BY <1>1, <1>2 DEF PaymentsAgree, PaidTo, PaidFor
<1> QED BY <1>3, <1>4, <1>5, <1>6 DEF GifsAreSound

LEMMA ReportsKeepGifs ==
    ASSUME GifsAreSound, NEW r \in Requests, GifRows!Report(r)
    PROVE  GifsAreSound'
<1> USE RequestAssumption
<1> DEFINE x == <<gifReq[r].gif, gifReq[r].user>>
<1>1. /\ gifReq[r].pc = "write" /\ GifRows!End(r)
      /\ UNCHANGED <<status, collected, collections, rewarded, points, gifArrived>>
      /\ \/ UNCHANGED <<report, lateReport>>
         \/ /\ report' = [report EXCEPT ![x] = "OPEN"]
            /\ lateReport' = IF status[x[1]] = "APPROVED" THEN lateReport ELSE lateReport \cup {x}
  BY DEF GifRows!Report, GifRows!At
<1>2. x \in Gifs \X Actors /\ GifsTyped /\ CollectionsAgree /\ PaymentsAgree
  BY <1>1 DEF GifsAreSound, LocksAreHeld, WellFormed
<1> HIDE DEF x
<1>3. /\ LocksAreHeld' /\ gifReq' \in [Requests -> GifRequests] /\ gifArrived' \in Nat
      /\ gifLock' \in [Gifs -> Requests \cup {NoOne}] /\ userLock' \in [Users -> Requests \cup {NoOne}]
  BY <1>1, EndKeepsLocks
<1>4. GifsTyped'
  BY <1>1, <1>2, <1>3 DEF GifsTyped
<1>5. CollectionsAgree'
  <2>1. \A y \in Gifs \X Actors : report'[y] = "OPEN" /\ status[y[1]] = "TAKEN_DOWN" => y \in lateReport'
    BY <1>1, <1>2 DEF GifsTyped, CollectionsAgree
  <2> QED BY <1>1, <1>2, <2>1 DEF CollectionsAgree
<1>6. PaymentsAgree'
  BY <1>1, <1>2 DEF PaymentsAgree, PaidTo, PaidFor
<1> QED BY <1>3, <1>4, <1>5, <1>6 DEF GifsAreSound

LEMMA CollectionsKeepGifs ==
    ASSUME GifsAreSound, NEW r \in Requests, GifRows!Collect(r) \/ GifRows!Uncollect(r)
    PROVE  GifsAreSound'
<1> USE RequestAssumption
<1> DEFINE g == gifReq[r].gif
           x == <<gifReq[r].user, g>>
<1>1. /\ gifReq[r].pc = "write" /\ gifReq[r].op \in LocksGif /\ GifRows!End(r)
      /\ UNCHANGED <<status, report, lateReport, rewarded, points, gifArrived>>
      /\ \/ UNCHANGED <<collected, collections>>
         \/ /\ gifReq[r].found = "APPROVED" /\ x \notin collected
            /\ collected' = collected \cup {x} /\ collections' = [collections EXCEPT ![g] = @ + 1]
         \/ /\ x \in collected
            /\ collected' = collected \ {x} /\ collections' = [collections EXCEPT ![g] = @ - 1]
  BY DEF GifRows!Collect, GifRows!Uncollect, GifRows!At, LocksGif
<1>2. /\ g \in Gifs /\ x \in Actors \X Gifs /\ x[2] = g /\ (gifReq[r].found = "APPROVED" => status[g] = "APPROVED")
      /\ GifsTyped /\ CollectionsAgree /\ PaymentsAgree
  BY <1>1 DEF GifsAreSound, LocksAreHeld, WellFormed, HasGif
<1> HIDE DEF x, g
<1>3. /\ LocksAreHeld' /\ gifReq' \in [Requests -> GifRequests] /\ gifArrived' \in Nat
      /\ gifLock' \in [Gifs -> Requests \cup {NoOne}] /\ userLock' \in [Users -> Requests \cup {NoOne}]
  BY <1>1, EndKeepsLocks
<1>4. \A h \in Gifs : IsFiniteSet(CollectedOf(collected, h)) /\ Cardinality(CollectedOf(collected, h)) \in Nat
                       /\ collections[h] = Cardinality(CollectedOf(collected, h))
  <2>1. \A h \in Gifs : IsFiniteSet(CollectedOf(collected, h)) /\ Cardinality(CollectedOf(collected, h)) \in Nat
    BY <1>2, CollectedOfIsFinite DEF GifsTyped
  <2>2. \A h \in Gifs : collections[h] = Cardinality(CollectedOf(collected, h))
    BY <1>2 DEF CollectionsAgree, CollectedOf
  <2> QED BY <2>1, <2>2
<1>5. IsFiniteSet(collected') /\ collected' \subseteq Actors \X Gifs
  <2>1. IsFiniteSet(collected) /\ collected \subseteq Actors \X Gifs
    BY <1>2 DEF GifsTyped
  <2> QED BY <1>1, <1>2, <2>1, FS_AddElement, FS_RemoveElement
<1>6. \A h \in Gifs : collections'[h] = Cardinality(CollectedOf(collected', h))
  <2>1. PICK after : after = collected'
    OBVIOUS
  <2> SUFFICES ASSUME NEW h \in Gifs PROVE collections'[h] = Cardinality(CollectedOf(after, h))
    BY <2>1 DEF CollectedOf
  <2>2. CASE UNCHANGED <<collected, collections>>
    BY <2>1, <2>2, <1>4
  <2>3. CASE x \notin collected /\ collected' = collected \cup {x} /\ collections' = [collections EXCEPT ![g] = @ + 1]
    <3>1. CASE h = g
      <4>1. CollectedOf(after, h) = CollectedOf(collected, h) \cup {x} /\ x \notin CollectedOf(collected, h)
        BY <2>1, <2>3, <3>1, <1>2 DEF CollectedOf
      <4>2. Cardinality(CollectedOf(collected, h) \cup {x}) = Cardinality(CollectedOf(collected, h)) + 1
        BY <4>1, <1>4, FS_AddElement
      <4> QED BY <2>3, <3>1, <4>1, <4>2, <1>2, <1>4 DEF GifsTyped
    <3>2. CASE h # g
      <4>1. CollectedOf(after, h) = CollectedOf(collected, h)
        BY <2>1, <2>3, <3>2, <1>2 DEF CollectedOf
      <4> QED BY <2>3, <3>2, <4>1, <1>2, <1>4 DEF GifsTyped
    <3> QED BY <3>1, <3>2
  <2>4. CASE x \in collected /\ collected' = collected \ {x} /\ collections' = [collections EXCEPT ![g] = @ - 1]
    <3>1. CASE h = g
      <4>1. CollectedOf(after, h) = CollectedOf(collected, h) \ {x} /\ x \in CollectedOf(collected, h)
        BY <2>1, <2>4, <3>1, <1>2 DEF CollectedOf
      <4>2. Cardinality(CollectedOf(collected, h) \ {x}) = Cardinality(CollectedOf(collected, h)) - 1
        BY <4>1, <1>4, FS_RemoveElement
      <4> QED BY <2>4, <3>1, <4>1, <4>2, <1>2, <1>4 DEF GifsTyped
    <3>2. CASE h # g
      <4>1. CollectedOf(after, h) = CollectedOf(collected, h)
        BY <2>1, <2>4, <3>2, <1>2 DEF CollectedOf
      <4> QED BY <2>4, <3>2, <4>1, <1>2, <1>4 DEF GifsTyped
    <3> QED BY <3>1, <3>2
  <2> QED BY <1>1, <2>2, <2>3, <2>4
<1>7. GifsTyped'
  <2>1. collections' \in [Gifs -> Nat]
    <3>1. \A h \in Gifs : collections'[h] \in Nat
      <4>1. PICK after : after = collected'
        OBVIOUS
      <4>2. \A h \in Gifs : Cardinality(CollectedOf(after, h)) \in Nat
        BY <4>1, <1>5, CollectedOfIsFinite
      <4> QED BY <4>1, <4>2, <1>6
    <3>2. collections' = [h \in Gifs |-> collections'[h]]
      BY <1>1, <1>2 DEF GifsTyped
    <3> QED BY <3>1, <3>2
  <2> QED BY <1>1, <1>2, <1>3, <1>5, <2>1 DEF GifsTyped
<1>8. CollectionsAgree'
  BY <1>1, <1>2, <1>6 DEF CollectionsAgree, CollectedOf
<1>9. PaymentsAgree'
  BY <1>1, <1>2 DEF PaymentsAgree, PaidTo, PaidFor
<1> QED BY <1>3, <1>7, <1>8, <1>9 DEF GifsAreSound

LEMMA PaidIsFinite ==
    ASSUME NEW events, IsFiniteSet(events), NEW u
    PROVE  /\ IsFiniteSet(PaidTo(events, u)) /\ Cardinality(PaidTo(events, u)) \in Nat
           /\ IsFiniteSet(PaidFor(events, u)) /\ Cardinality(PaidFor(events, u)) \in Nat
<1>1. PaidTo(events, u) \subseteq events /\ PaidFor(events, u) \subseteq events
  BY DEF PaidTo, PaidFor
<1> QED BY <1>1, FS_Subset, FS_CardinalityType

(* What one more event adds to the payments of the day.                    *)
LEMMA OneMorePaid ==
    ASSUME NEW events, IsFiniteSet(events), NEW x, x \notin events, NEW after, after = events \cup {x}, NEW u
    PROVE  /\ x[1] # u => PaidTo(after, u) = PaidTo(events, u)
           /\ Creator[x[2]] # u => PaidFor(after, u) = PaidFor(events, u)
           /\ x[1] = u => Cardinality(PaidTo(after, u)) = Cardinality(PaidTo(events, u)) + 1
           /\ Creator[x[2]] = u => Cardinality(PaidFor(after, u)) = Cardinality(PaidFor(events, u)) + 1
<1>1. PaidTo(after, u) = IF x[1] = u THEN PaidTo(events, u) \cup {x} ELSE PaidTo(events, u)
  BY DEF PaidTo
<1>2. PaidFor(after, u) = IF Creator[x[2]] = u THEN PaidFor(events, u) \cup {x} ELSE PaidFor(events, u)
  BY DEF PaidFor
<1>3. x \notin PaidTo(events, u) /\ x \notin PaidFor(events, u)
  BY DEF PaidTo, PaidFor
<1>4. /\ Cardinality(PaidTo(events, u) \cup {x}) = Cardinality(PaidTo(events, u)) + 1
      /\ Cardinality(PaidFor(events, u) \cup {x}) = Cardinality(PaidFor(events, u)) + 1
  BY <1>3, PaidIsFinite, FS_AddElement
<1> QED BY <1>1, <1>2, <1>4

LEMMA PaymentsKeepGifs ==
    ASSUME GifsAreSound, NEW r \in Requests, GifRows!Pay(r)
    PROVE  GifsAreSound'
<1> USE RequestAssumption, GifAssumption
<1> DEFINE g == gifReq[r].gif
           u == gifReq[r].user
           c == Creator[g]
           x == <<u, g, gifReq[r].no>>
<1>1. /\ gifReq[r].pc = "pay" /\ GifRows!End(r)
      /\ UNCHANGED <<status, collected, collections, report, lateReport, gifArrived>>
      /\ \/ UNCHANGED <<rewarded, points>>
         \/ /\ gifReq[r].found = "REWARDED" /\ rewarded' = rewarded \cup {x}
            /\ points' = [points EXCEPT ![c] = @ + 1]
  BY DEF GifRows!Pay, GifRows!At
<1>2. /\ g \in Gifs /\ u \in Actors /\ u \in Users /\ c \in Users /\ gifReq[r].no \in Nat
      /\ x \in Actors \X Gifs \X Nat /\ x[1] = u /\ x[2] = g
      /\ userLock[u] = r /\ userLock[c] = r /\ GifsTyped /\ LocksAreHeld /\ CollectionsAgree /\ PaymentsAgree
      /\ gifReq[r].found = "REWARDED" => Payable(rewarded, u, g)
  <2>1. GifsTyped /\ LocksAreHeld /\ CollectionsAgree /\ PaymentsAgree
    BY DEF GifsAreSound
  <2>2. WellFormed(gifReq[r]) /\ HasUsers(r) /\ gifReq[r] \in GifRequests
    BY <2>1 DEF LocksAreHeld, GifsTyped
  <2> QED BY <1>1, <2>1, <2>2 DEF WellFormed, HasUsers, GifRequests
<1>3. CollectionsAgree'
  BY <1>1, <1>2 DEF CollectionsAgree
<1>4. ASSUME UNCHANGED <<rewarded, points>> PROVE GifsAreSound'
  <2>1. LocksAreHeld' /\ GifsTyped'
    BY <1>1, <1>2, <1>4, EndKeepsLocks DEF GifsTyped
  <2>2. PaymentsAgree'
    BY <1>2, <1>4 DEF PaymentsAgree, PaidTo, PaidFor
  <2> QED BY <1>3, <2>1, <2>2 DEF GifsAreSound
<1>5. ASSUME gifReq[r].found = "REWARDED", rewarded' = rewarded \cup {x}, points' = [points EXCEPT ![c] = @ + 1]
      PROVE  GifsAreSound'
  <2>1. IsFiniteSet(rewarded) /\ \A e \in rewarded : ~(e[1] = u /\ e[2] = g)
    BY <1>2, <1>5 DEF GifsTyped, Payable, PaidTo
  <2>2. x \notin rewarded
    BY <2>1, <1>2
  <2>3. PICK after : after = rewarded'
    OBVIOUS
  <2>4. after = rewarded \cup {x}
    BY <2>3, <1>5
  <2> HIDE DEF x, u, g, c
  <2>5. \A v : /\ u # v => PaidTo(after, v) = PaidTo(rewarded, v)
               /\ Creator[x[2]] # v => PaidFor(after, v) = PaidFor(rewarded, v)
               /\ u = v => Cardinality(PaidTo(after, v)) = Cardinality(PaidTo(rewarded, v)) + 1
               /\ Creator[x[2]] = v => Cardinality(PaidFor(after, v)) = Cardinality(PaidFor(rewarded, v)) + 1
    <3>1. x[1] = u
      BY <1>2
    <3> QED BY <3>1, <2>1, <2>2, <2>4, OneMorePaid
  <2>6. Creator[x[2]] = c
    BY <1>2 DEF c
  <2>7. \A v : /\ Cardinality(PaidTo(rewarded, v)) \in Nat /\ Cardinality(PaidFor(rewarded, v)) \in Nat
    BY <2>1, PaidIsFinite
  <2>8. \A s \in Requests \ {r} : HasUsers(s) /\ gifReq[s].pc = "pay" /\ gifReq[s].found = "REWARDED"
                   => Payable(after, gifReq[s].user, gifReq[s].gif)
    <3> SUFFICES ASSUME NEW s \in Requests \ {r}, HasUsers(s), gifReq[s].pc = "pay", gifReq[s].found = "REWARDED"
                 PROVE  Payable(after, gifReq[s].user, gifReq[s].gif)
      OBVIOUS
    <3>1. gifReq[s].user # u /\ Creator[gifReq[s].gif] # c
      BY <1>2 DEF HasUsers
    <3>2. Payable(rewarded, gifReq[s].user, gifReq[s].gif)
      BY DEF HasUsers
    <3>3. /\ PaidTo(after, gifReq[s].user) = PaidTo(rewarded, gifReq[s].user)
          /\ PaidFor(after, Creator[gifReq[s].gif]) = PaidFor(rewarded, Creator[gifReq[s].gif])
      BY <3>1, <2>5, <2>6
    <3> QED BY <3>2, <3>3 DEF Payable
  <2>9. /\ LocksAreHeld' /\ gifReq' \in [Requests -> GifRequests] /\ gifArrived' \in Nat
        /\ gifLock' \in [Gifs -> Requests \cup {NoOne}] /\ userLock' \in [Users -> Requests \cup {NoOne}]
    BY <1>1, <1>2, <2>3, <2>8, EndKeepsLocks
  <2>10. GifsTyped'
    <3>1. IsFiniteSet(rewarded') /\ rewarded' \subseteq Actors \X Gifs \X Nat
      BY <2>1, <2>2, <1>2, <1>5, FS_AddElement DEF GifsTyped
    <3>2. points' \in [Users -> Nat]
      BY <1>2, <1>5 DEF GifsTyped
    <3> QED BY <1>1, <1>2, <2>9, <3>1, <3>2 DEF GifsTyped
  <2>11. \A v \in Users : /\ Cardinality(PaidTo(after, v)) <= ActorLimit
                          /\ Cardinality(PaidFor(after, v)) <= CreatorLimit
                          /\ points'[v] = Cardinality(PaidFor(after, v))
    <3> SUFFICES ASSUME NEW v \in Users
                 PROVE  /\ Cardinality(PaidTo(after, v)) <= ActorLimit
                        /\ Cardinality(PaidFor(after, v)) <= CreatorLimit
                        /\ points'[v] = Cardinality(PaidFor(after, v))
      OBVIOUS
    <3>1. /\ Cardinality(PaidTo(rewarded, v)) <= ActorLimit
          /\ Cardinality(PaidFor(rewarded, v)) <= CreatorLimit
          /\ points[v] = Cardinality(PaidFor(rewarded, v))
      BY <1>2 DEF PaymentsAgree
    <3>2. Cardinality(PaidTo(rewarded, u)) < ActorLimit /\ Cardinality(PaidFor(rewarded, c)) < CreatorLimit
      BY <1>2, <1>5 DEF Payable, c
    <3>3. Cardinality(PaidTo(after, v)) <= ActorLimit
      BY <2>5, <2>7, <3>1, <3>2
    <3>4. CASE v = c
      BY <3>1, <3>2, <3>3, <3>4, <2>5, <2>6, <2>7, <1>2, <1>5 DEF GifsTyped
    <3>5. CASE v # c
      BY <3>1, <3>3, <3>5, <2>5, <2>6, <1>2, <1>5 DEF GifsTyped
    <3> QED BY <3>4, <3>5
  <2>12. \A d, e \in after : d[1] = e[1] /\ d[2] = e[2] => d = e
    BY <2>1, <2>4, <1>2 DEF PaymentsAgree
  <2>13. PaymentsAgree'
    BY <2>3, <2>11, <2>12 DEF PaymentsAgree, PaidTo, PaidFor
  <2> QED BY <1>3, <2>9, <2>10, <2>13 DEF GifsAreSound
<1> QED BY <1>1, <1>4, <1>5

LEMMA GifsStaySound ==
    ASSUME GifsAreSound, GifRows!Next
    PROVE  GifsAreSound'
<1>1. ASSUME NEW r \in Requests, GifRows!Step(r) PROVE GifsAreSound'
  <2>1. CASE \/ GifRows!LockGif(r) \/ GifRows!ReadStatus(r) \/ GifRows!FindReported(r) \/ GifRows!FindUsed(r)
             \/ GifRows!LockUsers(r) \/ GifRows!Judge(r) \/ GifRows!Abort(r)
    <3>1. UNCHANGED GifRows!rows
      BY <2>1 DEF GifRows!LockGif, GifRows!ReadStatus, GifRows!FindReported, GifRows!FindUsed, GifRows!LockUsers,
                  GifRows!Judge, GifRows!Abort
    <3> QED BY <2>1, <3>1, RequestsKeepGifs
  <2> QED BY <1>1, <2>1, DecisionsKeepGifs, TakedownsKeepGifs, ReportsKeepGifs, CollectionsKeepGifs,
             PaymentsKeepGifs DEF GifRows!Step
<1>2. ASSUME NEW r \in Requests, NEW op \in GifRows!Ops, NEW g \in Gifs, NEW u \in Actors,
             GifRows!Arrive(r, op, g, u)
      PROVE  GifsAreSound'
  <2>1. UNCHANGED GifRows!rows
    BY <1>2 DEF GifRows!Arrive
  <2>2. \E o \in GifRows!Ops, h \in Gifs, v \in Actors : GifRows!Arrive(r, o, h, v)
    BY <1>2
  <2> QED BY <2>1, <2>2, RequestsKeepGifs
<1> QED BY <1>1, <1>2 DEF GifRows!Next

LEMMA SoundGifsSettle == GifsAreSound => TakedownsSettle /\ GifRows!RewardsWithinLimits
<1> SUFFICES ASSUME GifsAreSound PROVE TakedownsSettle /\ GifRows!RewardsWithinLimits
  OBVIOUS
<1>1. \A S : GifRows!Cardinality(S) = Cardinality(S)
  BY Zenon DEF GifRows!Cardinality, Cardinality
<1>2. TakedownsSettle
  BY <1>1 DEF GifsAreSound, CollectionsAgree, TakedownsSettle, GifRows!TakedownsSettle
<1>3. \A u : GifRows!RewardedTo(u) = PaidTo(rewarded, u) /\ GifRows!RewardedFor(u) = PaidFor(rewarded, u)
  BY DEF GifRows!RewardedTo, GifRows!RewardedFor, PaidTo, PaidFor
<1>4. GifRows!RewardsWithinLimits
  BY <1>1, <1>3 DEF GifsAreSound, PaymentsAgree, GifRows!RewardsWithinLimits
<1> QED BY <1>2, <1>4

-----------------------------------------------------------------------------
(* The picture of a member (member-center.service.ts, avatar-storage.ts).  *)

PicturesTyped ==
    /\ avatarPc \in [Requests -> {"none", "queued", "rename", "clear", "read", "write", "drop", "undo", "done"}]
    /\ kind \in [Requests -> {"none", "upload", "select", "remove"}]
    /\ seen \in [Requests -> Requests \cup {Earlier, NoOne, "preset"}]
    /\ avatar \in Requests \cup {Earlier, NoOne, "preset"}
    /\ pictures \subseteq Requests \cup {Earlier} /\ running \in BOOLEAN

Written == {c \in Requests : avatarPc[c] \in {"drop", "undo", "done"}}

\* An upload has its picture in place before it writes the row, and no call comes to the row without
\* knowing what to write.
PicturesInTime ==
    \A c \in Requests :
        /\ c \in pictures => kind[c] = "upload" /\ avatarPc[c] \notin {"none", "queued", "rename"}
        /\ avatarPc[c] \in {"read", "write"} /\ kind[c] = "upload" => c \in pictures
        /\ avatarPc[c] \in {"read", "write"} => kind[c] # "none"
        /\ avatarPc[c] \in {"queued", "rename"} => kind[c] = "upload"

\* The row names an upload from its one write on; so whoever has read it and replaced it never finds it
\* in the row again.
ReferencesDoNotReturn ==
    /\ avatar \in Requests => avatar \in Written
    /\ \A c \in Requests : /\ seen[c] \in Requests => seen[c] \in Written
                           /\ avatarPc[c] = "drop" /\ Pictures!IsUpload(seen[c]) => avatar # seen[c]
                           /\ avatarPc[c] = "undo" /\ avatar = c => c \in undone

\* A picture the row does not name is one whose call is before its write or undoes it, or the one a call
\* has replaced and is about to remove.
ToBeRemoved(f) ==
    /\ running
    /\ \E c \in Requests : \/ f = c /\ avatarPc[c] \in {"clear", "read", "write", "undo"}
                           \/ f = seen[c] /\ avatarPc[c] = "drop"

PicturesAreSound ==
    /\ PicturesTyped /\ PicturesInTime /\ ReferencesDoNotReturn
    /\ Pictures!IsUpload(avatar) => avatar \in pictures \cup undone
    /\ \A f \in pictures \ {avatar} : f \in stray \/ ToBeRemoved(f)

LEMMA PicturesSoundAtFirst == Pictures!Init => PicturesAreSound
BY PictureAssumption, RequestAssumption
   DEF Pictures!Init, PicturesAreSound, PicturesTyped, PicturesInTime, ReferencesDoNotReturn, Written, Pictures!IsUpload

LEMMA SoundPicturesStay ==
    ASSUME PicturesAreSound,
           UNCHANGED <<avatar, pictures, avatarPc, kind, seen, running, undone, stray>>
    PROVE  PicturesAreSound'
BY DEF PicturesAreSound, PicturesTyped, PicturesInTime, ReferencesDoNotReturn, Written, Pictures!IsUpload, ToBeRemoved

LEMMA PicturesStaySound ==
    ASSUME PicturesAreSound, Pictures!Next
    PROVE  PicturesAreSound'
<1> USE PictureAssumption, RequestAssumption
    DEF PicturesAreSound, PicturesTyped, PicturesInTime, ReferencesDoNotReturn, Written, Pictures!IsUpload, ToBeRemoved,
        Pictures!Goto, Pictures!Running, Pictures!First
<1>1. ASSUME NEW c \in Requests, Pictures!Upload(c) PROVE PicturesAreSound'
  BY <1>1 DEF Pictures!Upload
<1>2. ASSUME NEW c \in Requests, Pictures!Choose(c, "select") \/ Pictures!Choose(c, "remove") PROVE PicturesAreSound'
  <2>1. /\ avatarPc[c] = "none" /\ c \notin pictures
        /\ avatarPc' = [avatarPc EXCEPT ![c] = "read"]
        /\ UNCHANGED <<avatar, pictures, seen, running, undone, stray>>
        /\ \E k \in {"select", "remove"} : kind' = [kind EXCEPT ![c] = k]
    BY <1>2 DEF Pictures!Choose
  <2>2. PicturesTyped'
    BY <2>1
  <2>3. PicturesInTime'
    BY <2>1
  <2>4. ReferencesDoNotReturn'
    BY <2>1
  <2>5. Pictures!IsUpload(avatar)' => avatar' \in pictures' \cup undone'
    BY <2>1
  <2>6. \A f \in pictures' \ {avatar'} : f \in stray' \/ ToBeRemoved(f)'
    BY <2>1
  <2> QED BY <2>2, <2>3, <2>4, <2>5, <2>6
<1>3. ASSUME NEW c \in Requests, Pictures!Convert(c) PROVE PicturesAreSound'
  BY <1>3 DEF Pictures!Convert
<1>4. ASSUME NEW c \in Requests, Pictures!Rename(c) PROVE PicturesAreSound'
  BY <1>4 DEF Pictures!Rename
<1>5. ASSUME NEW c \in Requests, Pictures!Refuse(c) PROVE PicturesAreSound'
  BY <1>5 DEF Pictures!Refuse
<1>6. ASSUME NEW c \in Requests, Pictures!Clear(c) PROVE PicturesAreSound'
  BY <1>6 DEF Pictures!Clear
<1>7. ASSUME NEW c \in Requests, Pictures!Read(c) PROVE PicturesAreSound'
  BY <1>7 DEF Pictures!Read
<1>8. ASSUME NEW c \in Requests, Pictures!WriteRow(c)
      PROVE  /\ avatar' \in {c, "preset", NoOne} /\ c \notin Written
             /\ kind[c] = "upload" => avatar' = c /\ c \in pictures
             /\ c \in pictures => avatar' = c
             /\ avatar' = c \/ ~Pictures!IsUpload(avatar')
             /\ kind[c] # "upload" => ~Pictures!IsUpload(avatar')
             /\ seen[c] # c
  BY <1>8 DEF Pictures!WriteRow, Pictures!Reference
<1>9. ASSUME NEW c \in Requests, Pictures!Write(c) PROVE PicturesAreSound'
  <2>1. /\ avatarPc[c] = "write" /\ stray' = stray \cup ({avatar} \ {seen[c]})
        /\ avatarPc' = [avatarPc EXCEPT ![c] = "drop"]
        /\ UNCHANGED <<pictures, kind, seen, running, undone>> /\ running /\ Pictures!WriteRow(c)
    BY <1>9 DEF Pictures!Write, Pictures!WriteRow, Pictures!Overlapped
  <2>2. /\ avatar' \in {c, "preset", NoOne} /\ c \notin Written /\ seen[c] # c
        /\ kind[c] = "upload" => c \in pictures
        /\ kind[c] # "upload" => ~Pictures!IsUpload(avatar')
        /\ c \in pictures => avatar' = c
        /\ avatar' = c \/ ~Pictures!IsUpload(avatar')
    BY <1>8, <2>1
  <2>3. PicturesTyped' /\ PicturesInTime'
    BY <2>1, <2>2
  <2>4. ReferencesDoNotReturn'
    BY <2>1, <2>2
  <2>5. Pictures!IsUpload(avatar)' => avatar' \in pictures' \cup undone'
    BY <2>1, <2>2
  <2>6. \A f \in pictures' \ {avatar'} : f \in stray' \/ ToBeRemoved(f)'
    BY <2>1, <2>2
  <2> QED BY <2>3, <2>4, <2>5, <2>6
<1>10. ASSUME NEW c \in Requests, Pictures!WriteUnconfirmed(c) PROVE PicturesAreSound'
  <2>1. /\ avatarPc[c] = "write" /\ stray' = stray \cup ({avatar} \ {seen[c]}) \cup {seen[c]}
        /\ UNCHANGED <<pictures, kind, seen, running>> /\ Pictures!WriteRow(c)
        /\ \/ /\ kind[c] = "upload" /\ avatarPc' = [avatarPc EXCEPT ![c] = "undo"]
              /\ undone' = undone \cup {c}
           \/ kind[c] # "upload" /\ avatarPc' = [avatarPc EXCEPT ![c] = "done"] /\ undone' = undone
    BY <1>10 DEF Pictures!WriteUnconfirmed, Pictures!WriteRow, Pictures!Overlapped
  <2>2. /\ avatar' \in {c, "preset", NoOne} /\ c \notin Written /\ seen[c] # c
        /\ kind[c] = "upload" => avatar' = c /\ c \in pictures
        /\ c \in pictures => avatar' = c
        /\ kind[c] # "upload" => ~Pictures!IsUpload(avatar')
    BY <1>8, <2>1
  <2>3. PicturesTyped' /\ PicturesInTime'
    BY <2>1, <2>2
  <2>4. ReferencesDoNotReturn'
    BY <2>1, <2>2
  <2>5. Pictures!IsUpload(avatar)' => avatar' \in pictures' \cup undone'
    BY <2>1, <2>2
  <2>6. \A f \in pictures' \ {avatar'} : f \in stray' \/ ToBeRemoved(f)'
    BY <2>1, <2>2
  <2> QED BY <2>3, <2>4, <2>5, <2>6
<1>11. ASSUME NEW c \in Requests, Pictures!WriteFails(c) PROVE PicturesAreSound'
  BY <1>11 DEF Pictures!WriteFails
<1>12. ASSUME NEW c \in Requests, Pictures!Undo(c) PROVE PicturesAreSound'
  BY <1>12 DEF Pictures!Undo
<1>13. ASSUME NEW c \in Requests, Pictures!Drop(c) PROVE PicturesAreSound'
  BY <1>13 DEF Pictures!Drop
<1>14. ASSUME NEW c \in Requests, Pictures!RemovalFails(c) PROVE PicturesAreSound'
  BY <1>14 DEF Pictures!RemovalFails
<1>15. CASE Pictures!GrowOld \/ Pictures!FindOld \/ Pictures!RemoveOld
  <2>1. UNCHANGED <<avatar, pictures, avatarPc, kind, seen, running, undone, stray>>
    BY <1>15 DEF Pictures!GrowOld, Pictures!FindOld, Pictures!RemoveOld
  <2> QED BY <2>1
<1>16. CASE Pictures!Crash
  <2>1. /\ UNCHANGED <<avatar, pictures, kind, seen, undone>> /\ stray' = stray \cup (pictures \ {avatar})
        /\ running' = FALSE /\ avatarPc' = [c \in Requests |-> IF avatarPc[c] = "none" THEN "none" ELSE "done"]
    BY <1>16 DEF Pictures!Crash
  <2>2. PicturesTyped' /\ PicturesInTime' /\ Written \subseteq Written'
    BY <2>1
  <2>3. ReferencesDoNotReturn'
    BY <2>1
  <2> QED BY <2>1, <2>2, <2>3
<1>17. CASE Pictures!Restart
  BY <1>17 DEF Pictures!Restart
<1>18. ASSUME NEW c \in Requests, Pictures!ReadFails(c) PROVE PicturesAreSound'
  BY <1>18 DEF Pictures!ReadFails
<1> QED
  BY <1>1, <1>2, <1>3, <1>4, <1>5, <1>6, <1>7, <1>9, <1>10, <1>11, <1>12, <1>13, <1>14, <1>15, <1>16, <1>17, <1>18
  DEF Pictures!Next, Pictures!Step

LEMMA SoundPicturesAreThere == PicturesAreSound => Pictures!AvatarHasFile
BY DEF PicturesAreSound, ToBeRemoved, Pictures!AvatarHasFile, Pictures!Running

-----------------------------------------------------------------------------
(* Topics (topics.service.ts): who hears of them, and the featured ones.    *)

TopicRows ==
    [moderation : {"NONE", "PENDING_REVIEW", "APPROVED", "REJECTED"}, status : {"NONE", "DRAFT", "OPEN", "CANCELLED"},
     title : Titles \cup {"none"}, version : Nat, tells : BOOLEAN]
TopicRequests ==
    [op : Lifecycle!Ops \cup {"none"}, pc : {"idle", "title", "write", "check", "clear", "commit"},
     topic : Topics \cup {0}, title : Titles \cup {"none"}, kind : Lifecycle!Kinds \cup {"none"},
     list : Lifecycle!Lists \cup {<<>>}, seen : SUBSET Topics]

TopicsTyped ==
    /\ topic \in [Topics -> TopicRows] /\ told \in [Topics -> Nat] /\ reopened \in [Topics -> Nat]
    /\ topicReq \in [Requests -> TopicRequests]
    /\ featured \in [Topics -> Nat \cup {-1}] /\ mixed \in BOOLEAN

\* What a request has checked about its topic still holds when it writes, but that an editorial draft
\* may have been opened by another one.
KnowsTopic(q) ==
    /\ q.pc = "title" => q.op \in {"create", "update"}
    /\ q.pc # "idle" /\ q.op \in {"update", "approve", "reject", "publish"}
           => q.topic \in Topics /\ topic[q.topic].moderation # "NONE"
    /\ q.op = "publish" /\ q.pc = "write"
           => topic[q.topic].moderation = "APPROVED" /\ topic[q.topic].status \in {"DRAFT", "OPEN"}
    /\ q.op = "create" /\ q.pc # "idle" => q.kind \in Lifecycle!Kinds
    /\ q.op = "feature" /\ q.pc \in {"clear", "commit"} => Len(q.list) <= MaxFeatured

RequestsKnowTopics == \A r \in Requests : KnowsTopic(topicReq[r])

\* A topic is opened for the first time out of a state in which nobody has heard of it.
TopicTold(t) ==
    /\ topic[t].moderation = "PENDING_REVIEW" => topic[t].tells /\ topic[t].status = "DRAFT"
    /\ ~Lifecycle!Open(t) => told[t] = 0 /\ reopened[t] = 0
    /\ Lifecycle!Open(t) => told[t] = IF topic[t].tells THEN 1 + reopened[t] ELSE 0

TopicsAreSound ==
    /\ TopicsTyped /\ RequestsKnowTopics
    /\ \A t \in Topics : TopicTold(t)
    /\ FeaturedIsOneList

LEMMA ListsAreInjective ==
    ASSUME NEW l \in Lifecycle!Lists
    PROVE  /\ l \in Seq(Topics) /\ Len(l) \in Nat /\ Lifecycle!Elements(l) \subseteq Topics
           /\ Lifecycle!Cardinality(Lifecycle!Elements(l)) = Len(l)
           /\ \A i, j \in 1..Len(l) : l[i] = l[j] => i = j
<1>1. PICK n \in 0..2 : l \in [1..n -> Topics]
  BY DEF Lifecycle!Lists
<1>2. l \in Seq(Topics) /\ Len(l) = n
  BY <1>1
<1>3. Lifecycle!Cardinality(Lifecycle!Elements(l)) = Len(l)
  BY DEF Lifecycle!Lists
<1>4. Lifecycle!Elements(l) = {l[i] : i \in 1..n}
  BY <1>2 DEF Lifecycle!Elements
<1>5. \A i, j \in 1..Len(l) : l[i] = l[j] => i = j
  <2> SUFFICES ASSUME n = 2, l[1] = l[2] PROVE FALSE
    BY <1>1, <1>2
  <2>1. Lifecycle!Elements(l) = {l[1]}
    BY <1>4
  <2>2. Lifecycle!Cardinality({l[1]}) = Cardinality({l[1]})
    BY Zenon DEF Lifecycle!Cardinality, Cardinality
  <2>3. Cardinality({l[1]}) = 1
    BY FS_Singleton
  <2> QED BY <1>2, <1>3, <2>1, <2>2, <2>3
<1> QED BY <1>1, <1>2, <1>3, <1>4, <1>5

LEMMA TopicsSoundAtFirst == Lifecycle!Init => TopicsAreSound
<1> SUFFICES ASSUME Lifecycle!Init PROVE TopicsAreSound
  OBVIOUS
<1>1. TopicsTyped /\ RequestsKnowTopics /\ \A t \in Topics : TopicTold(t)
  BY DEF Lifecycle!Init, Lifecycle!NoRow, Lifecycle!Idle, Lifecycle!NoTopic, Lifecycle!Unlisted, Lifecycle!Open,
         Lifecycle!Exists, TopicsTyped, TopicRows, TopicRequests, RequestsKnowTopics, KnowsTopic, TopicTold,
         Lifecycle!Ops
<1>2. Lifecycle!Featured = {}
  BY DEF Lifecycle!Init, Lifecycle!Featured
<1>3. Lifecycle!Cardinality({}) = 0
  <2>1. Lifecycle!Cardinality({}) = Cardinality({})
    BY Zenon DEF Lifecycle!Cardinality, Cardinality
  <2> QED BY <2>1, FS_EmptySet
<1>4. FeaturedIsOneList
  BY <1>2, <1>3, TopicAssumption DEF FeaturedIsOneList, Lifecycle!FeaturedIsOneList
<1> QED BY <1>1, <1>4 DEF TopicsAreSound

\* Featured topics change with the commit of setFeatured alone.
LEMMA FeaturedStay ==
    ASSUME FeaturedIsOneList, UNCHANGED <<featured, mixed>>
    PROVE  FeaturedIsOneList'
BY DEF FeaturedIsOneList, Lifecycle!FeaturedIsOneList, Lifecycle!Featured, Lifecycle!Unlisted

LEMMA SoundTopicsStay ==
    ASSUME TopicsAreSound, UNCHANGED <<topic, featured, told, reopened, mixed, topicReq>>
    PROVE  TopicsAreSound'
BY FeaturedStay DEF TopicsAreSound, TopicsTyped, RequestsKnowTopics, KnowsTopic, TopicTold, Lifecycle!Open, Lifecycle!Exists

\* What clients ask for is about a topic that exists.
LEMMA WantedAreSound ==
    ASSUME NEW q \in Lifecycle!Wanted PROVE q \in TopicRequests /\ KnowsTopic(q)
BY DEF Lifecycle!Wanted, Lifecycle!Asking, Lifecycle!Known, Lifecycle!Exists, TopicRequests, KnowsTopic, Lifecycle!NoTopic,
       Lifecycle!Ops

\* Requests come, check what they find, and end.
LEMMA RequestsKeepTopics ==
    ASSUME TopicsAreSound, NEW r \in Requests, UNCHANGED Lifecycle!rows,
           \/ \E q \in Lifecycle!Wanted : Lifecycle!Arrive(r, q)
           \/ Lifecycle!CheckTitle(r) \/ Lifecycle!CheckPending(r) \/ Lifecycle!CheckUndecided(r)
           \/ Lifecycle!CheckDraft(r) \/ Lifecycle!CheckFeaturable(r) \/ Lifecycle!ClearFeatured(r) \/ Lifecycle!Fail(r)
    PROVE  TopicsAreSound'
<1> USE DEF TopicsAreSound, TopicsTyped, RequestsKnowTopics, KnowsTopic, Lifecycle!At, Lifecycle!Goto, Lifecycle!Done
<1>1. UNCHANGED <<topic, featured, told, reopened, mixed>>
  BY DEF Lifecycle!rows
<1>2. FeaturedIsOneList' /\ \A t \in Topics : TopicTold(t)'
  BY <1>1, FeaturedStay DEF TopicTold, Lifecycle!Open, Lifecycle!Exists
<1>3. Lifecycle!Idle \in TopicRequests /\ KnowsTopic(Lifecycle!Idle)
  BY DEF Lifecycle!Idle, TopicRequests, Lifecycle!NoTopic
<1> DEFINE Next(q) == q \in TopicRequests /\ KnowsTopic(q) /\ topicReq' = [topicReq EXCEPT ![r] = q]
           On(to) == [topicReq[r] EXCEPT !.pc = to]
<1>4. \A to \in {"write", "title", "clear"} :
          /\ On(to) \in TopicRequests /\ On(to).pc = to /\ On(to).op = topicReq[r].op
          /\ On(to).topic = topicReq[r].topic /\ On(to).kind = topicReq[r].kind /\ On(to).list = topicReq[r].list
  BY DEF TopicRequests
<1>5. \E q \in TopicRequests : Next(q)
  <2>1. CASE Lifecycle!Fail(r)
    BY <1>3, <2>1 DEF Lifecycle!Fail
  <2>2. ASSUME NEW q \in Lifecycle!Wanted, Lifecycle!Arrive(r, q) PROVE Next(q)
    <3>1. q \in TopicRequests /\ KnowsTopic(q)
      BY WantedAreSound
    <3> QED BY <2>2, <3>1 DEF Lifecycle!Arrive
  <2>3. CASE Lifecycle!CheckTitle(r)
    <3>1. KnowsTopic(On("write")) /\ (Next(Lifecycle!Idle) \/ Next(On("write")))
      BY <1>3, <1>4, <2>3 DEF Lifecycle!CheckTitle
    <3> QED BY <3>1
  <2>4. CASE Lifecycle!CheckPending(r)
    <3>1. KnowsTopic(On("title")) /\ (Next(Lifecycle!Idle) \/ Next(On("title")))
      BY <1>3, <1>4, <2>4 DEF Lifecycle!CheckPending
    <3> QED BY <3>1
  <2>5. CASE Lifecycle!CheckUndecided(r)
    <3>1. KnowsTopic(On("write")) /\ (Next(Lifecycle!Idle) \/ Next(On("write")))
      BY <1>3, <1>4, <2>5 DEF Lifecycle!CheckUndecided
    <3> QED BY <3>1
  <2>6. CASE Lifecycle!CheckDraft(r)
    <3>1. Next(Lifecycle!Idle) \/ Next(On("write"))
      BY <1>3, <1>4, <2>6 DEF Lifecycle!CheckDraft
    <3> QED BY <3>1
  <2>7. CASE Lifecycle!CheckFeaturable(r)
    <3>1. Next(Lifecycle!Idle) \/ Next(On("clear"))
      BY <1>3, <1>4, <2>7 DEF Lifecycle!CheckFeaturable
    <3> QED BY <3>1
  <2>8. CASE Lifecycle!ClearFeatured(r)
    <3> DEFINE q == [topicReq[r] EXCEPT !.pc = "commit", !.seen = Lifecycle!Featured]
    <3>1. q \in TopicRequests /\ q.pc = "commit" /\ q.op = topicReq[r].op /\ q.list = topicReq[r].list
      BY DEF TopicRequests, Lifecycle!Featured
    <3>2. topicReq' = [topicReq EXCEPT ![r] = q] /\ topicReq[r].op = "feature" /\ topicReq[r].pc = "clear"
      BY <2>8 DEF Lifecycle!ClearFeatured
    <3> HIDE DEF q
    <3>3. Next(q)
      BY <3>1, <3>2
    <3> QED BY <3>3
  <2> QED BY <2>1, <2>2, <2>3, <2>4, <2>5, <2>6, <2>7, <2>8
<1>6. PICK q \in TopicRequests : Next(q)
  BY <1>5
<1>7. topicReq' \in [Requests -> TopicRequests] /\ \A s \in Requests : KnowsTopic(topicReq'[s])
  BY <1>6
<1>8. RequestsKnowTopics'
  BY <1>1, <1>7
<1> QED BY <1>1, <1>2, <1>7, <1>8

\* A topic is written by a request whose title, kind or checks fit it.
LEMMA EndOfRequest ==
    ASSUME TopicsAreSound, NEW r \in Requests, Lifecycle!Done(r),
           \A t \in Topics : topic'[t].moderation # topic[t].moderation => topic[t].moderation \in {"NONE", "PENDING_REVIEW"} /\ topic'[t].moderation # "NONE",
           \A t \in Topics : topic[t].moderation = "APPROVED" /\ topic[t].status \in {"DRAFT", "OPEN"}
                                 => topic'[t].status \in {"DRAFT", "OPEN"}
    PROVE  topicReq' \in [Requests -> TopicRequests] /\ RequestsKnowTopics'
<1> USE DEF TopicsAreSound, TopicsTyped, RequestsKnowTopics
<1>1. Lifecycle!Idle \in TopicRequests /\ Lifecycle!Idle.pc = "idle" /\ Lifecycle!Idle.op = "none"
  BY DEF Lifecycle!Idle, TopicRequests, Lifecycle!NoTopic
<1>2. topicReq' = [topicReq EXCEPT ![r] = Lifecycle!Idle]
  BY DEF Lifecycle!Done
<1> HIDE DEF TopicRequests
<1>3. ASSUME NEW s \in Requests PROVE KnowsTopic(topicReq[s])' 
  <2>1. CASE s = r
    BY <1>1, <1>2, <2>1 DEF KnowsTopic
  <2>2. CASE s # r
    <3>1. topicReq'[s] = topicReq[s] /\ KnowsTopic(topicReq[s])
      BY <1>2, <2>2
    <3> QED BY <3>1 DEF KnowsTopic
  <2> QED BY <2>1, <2>2
<1> QED BY <1>1, <1>2, <1>3

LEMMA InsertKeepsTopics ==
    ASSUME TopicsAreSound, NEW r \in Requests, Lifecycle!Insert(r)
    PROVE  TopicsAreSound'
<1> USE DEF TopicsAreSound, TopicsTyped
<1>1. PICK t \in Topics : /\ topic[t].moderation = "NONE"
                          /\ topic' = [topic EXCEPT ![t] = Lifecycle!NewRow(topicReq[r].kind, topicReq[r].title)]
                          /\ IF Lifecycle!Open(t)' /\ topic'[t].tells THEN Lifecycle!FanOut(t) ELSE UNCHANGED told
  BY DEF Lifecycle!Insert, Lifecycle!Exists
<1>2. topicReq[r] \in TopicRequests /\ topicReq[r].kind \in Lifecycle!Kinds /\ Lifecycle!Done(r)
      /\ UNCHANGED <<featured, reopened, mixed>>
  BY DEF Lifecycle!Insert, Lifecycle!At, RequestsKnowTopics, KnowsTopic
<1> DEFINE row == Lifecycle!NewRow(topicReq[r].kind, topicReq[r].title)
<1>3. /\ row \in TopicRows /\ row.moderation \in {"PENDING_REVIEW", "APPROVED"} /\ row.status \in {"DRAFT", "OPEN"}
      /\ row.moderation = "PENDING_REVIEW" => row.tells /\ row.status = "DRAFT"
  BY <1>2 DEF Lifecycle!NewRow, Lifecycle!Imports, TopicRows, TopicRequests, Lifecycle!Kinds
<1>4. topic' = [topic EXCEPT ![t] = row]
  BY <1>1
<1> HIDE DEF row
<1>5. topicReq' \in [Requests -> TopicRequests] /\ RequestsKnowTopics'
  BY <1>1, <1>2, <1>3, <1>4, EndOfRequest
<1>6. told[t] = 0 /\ reopened[t] = 0
  BY <1>1 DEF TopicTold, Lifecycle!Open
<1>7. told' = IF row.moderation = "APPROVED" /\ row.status = "OPEN" /\ row.tells THEN [told EXCEPT ![t] = 1] ELSE told
  BY <1>1, <1>4, <1>6 DEF Lifecycle!Open, Lifecycle!FanOut
<1>8. topic' \in [Topics -> TopicRows] /\ told' \in [Topics -> Nat]
  BY <1>3, <1>4, <1>7
<1>9. \A s \in Topics : TopicTold(s)'
  <2> SUFFICES ASSUME NEW s \in Topics PROVE TopicTold(s)'
    OBVIOUS
  <2>1. CASE s = t
    BY <1>2, <1>3, <1>4, <1>6, <1>7, <2>1 DEF TopicTold, Lifecycle!Open
  <2>2. CASE s # t
    BY <1>2, <1>4, <1>7, <2>2 DEF TopicTold, Lifecycle!Open
  <2> QED BY <2>1, <2>2
<1> QED BY <1>2, <1>5, <1>8, <1>9, FeaturedStay

LEMMA UpdateKeepsTopics ==
    ASSUME TopicsAreSound, NEW r \in Requests, Lifecycle!WriteUpdate(r)
    PROVE  TopicsAreSound'
<1> USE DEF TopicsAreSound, TopicsTyped
<1> DEFINE t == topicReq[r].topic
<1>1. /\ t \in Topics /\ Lifecycle!Done(r) /\ UNCHANGED <<featured, told, reopened, mixed>>
      /\ topicReq[r] \in TopicRequests
      /\ topic' = [topic EXCEPT ![t].title = topicReq[r].title, ![t].version = @ + 1]
  BY DEF Lifecycle!WriteUpdate, Lifecycle!At, RequestsKnowTopics, KnowsTopic
<1> HIDE DEF t
<1>2. topic' \in [Topics -> TopicRows]
  <2>1. topicReq[r].title \in Titles \cup {"none"}
    BY <1>1 DEF TopicRequests
  <2>2. topic[t] \in TopicRows
    BY <1>1
  <2>3. \A s \in Topics : topic'[s] = IF s = t THEN [topic[t] EXCEPT !.title = topicReq[r].title, !.version = @ + 1] ELSE topic[s]
    BY <1>1 DEF TopicRows
  <2>4. [topic[t] EXCEPT !.title = topicReq[r].title, !.version = @ + 1] \in TopicRows
    <3> DEFINE row == topic[t]
    <3> HIDE DEF row
    <3>0. row \in TopicRows
      BY <2>2 DEF row
    <3> DEFINE titled == [row EXCEPT !.title = topicReq[r].title]
    <3>3. titled \in TopicRows /\ titled.version = row.version
      BY <2>1, <3>0 DEF TopicRows
    <3>4. [row EXCEPT !.title = topicReq[r].title, !.version = @ + 1] = [titled EXCEPT !.version = titled.version + 1]
      BY <3>0 DEF TopicRows
    <3> HIDE DEF titled
    <3>5. [titled EXCEPT !.version = titled.version + 1] \in TopicRows
      BY <3>3 DEF TopicRows
    <3> QED BY <3>4, <3>5 DEF row
  <2>5. \A s \in Topics : topic'[s] \in TopicRows
    BY <2>3, <2>4
  <2>6. topic' = [s \in Topics |-> topic'[s]]
    BY <1>1
  <2> QED BY <2>5, <2>6
<1>3. \A s \in Topics : /\ topic'[s].moderation = topic[s].moderation /\ topic'[s].status = topic[s].status
                        /\ topic'[s].tells = topic[s].tells
  BY <1>1 DEF TopicRows
<1>4. topicReq' \in [Requests -> TopicRequests] /\ RequestsKnowTopics'
  BY <1>1, <1>3, EndOfRequest
<1>5. \A s \in Topics : TopicTold(s)'
  BY <1>1, <1>3 DEF TopicTold, Lifecycle!Open
<1> QED BY <1>1, <1>2, <1>4, <1>5, FeaturedStay

LEMMA ReviewKeepsTopics ==
    ASSUME TopicsAreSound, NEW r \in Requests, Lifecycle!Review(r)
    PROVE  TopicsAreSound'
<1> USE DEF TopicsAreSound, TopicsTyped
<1> DEFINE t == topicReq[r].topic
<1>1. /\ t \in Topics /\ Lifecycle!Done(r) /\ UNCHANGED <<featured, reopened, mixed>>
  BY DEF Lifecycle!Review, RequestsKnowTopics, KnowsTopic
<1>2. CASE topic[t].moderation # "PENDING_REVIEW"
  <2>1. UNCHANGED <<topic, told>>
    BY <1>2 DEF Lifecycle!Review
  <2>2. topicReq' \in [Requests -> TopicRequests] /\ RequestsKnowTopics'
    BY <1>1, <2>1, EndOfRequest
  <2>3. \A s \in Topics : TopicTold(s)'
    BY <1>1, <2>1 DEF TopicTold, Lifecycle!Open
  <2> QED BY <1>1, <2>1, <2>2, <2>3, FeaturedStay
<1>3. CASE topic[t].moderation = "PENDING_REVIEW"
  <2> DEFINE approve == topicReq[r].op = "approve"
             row == Lifecycle!Decided(topic[t], topicReq[r].op)
  <2>1. topic' = [topic EXCEPT ![t] = row]
    BY <1>1, <1>3 DEF Lifecycle!Review
  <2>2. told' = IF approve THEN [told EXCEPT ![t] = @ + 1] ELSE told
    BY <1>3 DEF Lifecycle!Review, Lifecycle!FanOut
  <2>3. /\ row \in TopicRows /\ row.tells = topic[t].tells
        /\ approve => row.moderation = "APPROVED" /\ row.status = "OPEN"
        /\ ~approve => row.moderation = "REJECTED"
    <3>1. topic[t] \in TopicRows
      BY <1>1
    <3>2. row = [topic[t] EXCEPT !.moderation = IF approve THEN "APPROVED" ELSE "REJECTED",
                                 !.status = IF approve THEN "OPEN" ELSE "CANCELLED"]
      BY DEF Lifecycle!Decided
    <3> HIDE DEF row, approve
    <3> QED BY <3>1, <3>2 DEF TopicRows
  <2> HIDE DEF row, approve
  <2>4. topic[t].tells /\ told[t] = 0 /\ reopened[t] = 0
    BY <1>1, <1>3 DEF TopicTold, Lifecycle!Open
  <2>5. topic' \in [Topics -> TopicRows] /\ told' \in [Topics -> Nat]
    BY <1>1, <2>1, <2>2, <2>3
  <2>6. topicReq' \in [Requests -> TopicRequests] /\ RequestsKnowTopics'
    BY <1>1, <1>3, <2>1, <2>3, EndOfRequest
  <2>7. \A s \in Topics : TopicTold(s)'
    <3> SUFFICES ASSUME NEW s \in Topics PROVE TopicTold(s)'
      OBVIOUS
    <3>1. CASE s = t
      <4>1. topic'[s] = row /\ reopened'[s] = 0 /\ topic[t].tells
        BY <1>1, <2>1, <2>4, <3>1
      <4>5. row.tells = TRUE
        <5>1. topic[t].tells \in BOOLEAN
          BY <1>1 DEF TopicRows
        <5> QED BY <2>3, <2>4, <5>1
      <4>2. told'[s] = IF approve THEN 1 ELSE 0
        BY <1>1, <2>2, <2>4, <3>1
      <4>3. CASE approve
        <5>1. /\ topic'[s].moderation = "APPROVED" /\ topic'[s].status = "OPEN" /\ topic'[s].tells = TRUE
              /\ told'[s] = 1 /\ reopened'[s] = 0
          BY <2>3, <4>1, <4>2, <4>3, <4>5
        <5> QED BY <5>1 DEF TopicTold, Lifecycle!Open
      <4>4. CASE ~approve
        BY <2>3, <4>1, <4>2, <4>4 DEF TopicTold, Lifecycle!Open
      <4> QED BY <4>3, <4>4
    <3>2. CASE s # t
      BY <1>1, <2>1, <2>2, <3>2 DEF TopicTold, Lifecycle!Open
    <3> QED BY <3>1, <3>2
  <2> QED BY <1>1, <2>5, <2>6, <2>7, FeaturedStay
<1> QED BY <1>2, <1>3

LEMMA PublicationKeepsTopics ==
    ASSUME TopicsAreSound, NEW r \in Requests, Lifecycle!Publish(r)
    PROVE  TopicsAreSound'
<1> USE DEF TopicsAreSound, TopicsTyped
<1> DEFINE t == topicReq[r].topic
<1>1. /\ t \in Topics /\ Lifecycle!Done(r) /\ UNCHANGED <<featured, mixed>>
      /\ topic[t].moderation = "APPROVED" /\ topic[t].status \in {"DRAFT", "OPEN"}
  BY DEF Lifecycle!Publish, Lifecycle!At, RequestsKnowTopics, KnowsTopic
<1>2. topic' = [topic EXCEPT ![t] = [@ EXCEPT !.status = "OPEN"]]
  BY DEF Lifecycle!Publish
<1>3. /\ reopened' = IF topic[t].status = "OPEN" THEN [reopened EXCEPT ![t] = @ + 1] ELSE reopened
      /\ told' = IF topic[t].tells THEN [told EXCEPT ![t] = @ + 1] ELSE told
  BY <1>1 DEF Lifecycle!Publish, Lifecycle!Open, Lifecycle!FanOut
<1>4. /\ topic' \in [Topics -> TopicRows] /\ told' \in [Topics -> Nat] /\ reopened' \in [Topics -> Nat]
  <2> DEFINE row == [topic[t] EXCEPT !.status = "OPEN"]
  <2>1. topic[t] \in TopicRows /\ topic' = [topic EXCEPT ![t] = row]
    BY <1>1, <1>2
  <2>2. row \in TopicRows
    BY <2>1 DEF TopicRows
  <2> HIDE DEF row, t
  <2>3. topic' \in [Topics -> TopicRows]
    BY <1>1, <2>1, <2>2
  <2>4. told' \in [Topics -> Nat]
    BY <1>1, <1>3
  <2>5. reopened' \in [Topics -> Nat]
    BY <1>1, <1>3
  <2> QED BY <2>3, <2>4, <2>5
<1>5. \A s \in Topics : /\ topic'[s].moderation = topic[s].moderation /\ topic'[s].tells = topic[s].tells
                        /\ s = t => topic'[s].status = "OPEN"
                        /\ s # t => topic'[s] = topic[s]
  BY <1>1, <1>2 DEF TopicRows
<1>6. topicReq' \in [Requests -> TopicRequests] /\ RequestsKnowTopics'
  BY <1>1, <1>5, EndOfRequest
<1> HIDE DEF t
<1>7. \A s \in Topics : TopicTold(s)'
  <2> SUFFICES ASSUME NEW s \in Topics PROVE TopicTold(s)'
    OBVIOUS
  <2>1. CASE s = t
    <3>1. topic[t].status = "DRAFT" => told[t] = 0 /\ reopened[t] = 0
      BY <1>1 DEF TopicTold, Lifecycle!Open
    <3>2. topic[t].status = "OPEN" => told[t] = IF topic[t].tells THEN 1 + reopened[t] ELSE 0
      BY <1>1 DEF TopicTold, Lifecycle!Open
    <3>3. told'[t] = IF topic[t].tells THEN 1 + reopened'[t] ELSE 0
      BY <1>1, <1>3, <3>1, <3>2
    <3> QED BY <1>1, <1>5, <2>1, <3>3 DEF TopicTold, Lifecycle!Open
  <2>2. CASE s # t
    BY <1>1, <1>3, <1>5, <2>2 DEF TopicTold, Lifecycle!Open
  <2> QED BY <2>1, <2>2
<1> QED BY <1>1, <1>4, <1>6, <1>7, FeaturedStay

\* The transaction that ran alone leaves its own list.
LEMMA CommitKeepsTopics ==
    ASSUME TopicsAreSound, NEW r \in Requests, Lifecycle!CommitFeatured(r)
    PROVE  TopicsAreSound'
<1> USE DEF TopicsAreSound, TopicsTyped
<1> DEFINE l == topicReq[r].list
           cleared == topicReq[r].seen
<1>1. /\ featured' = Lifecycle!Reordered(l, cleared) /\ mixed' = (Lifecycle!Featured # cleared)
      /\ Lifecycle!Done(r) /\ UNCHANGED <<topic, told, reopened>> /\ Len(l) <= MaxFeatured
  BY DEF Lifecycle!CommitFeatured, Lifecycle!At, RequestsKnowTopics, KnowsTopic
<1>2. l \in Lifecycle!Lists /\ cleared \in SUBSET Topics
  <2>1. <<>> \in Lifecycle!Lists
    <3>1. Lifecycle!Elements(<<>>) = {}
      BY DEF Lifecycle!Elements
    <3>2. Lifecycle!Cardinality({}) = Cardinality({})
      BY Zenon DEF Lifecycle!Cardinality, Cardinality
    <3>3. <<>> \in [1..0 -> Topics]
      OBVIOUS
    <3>4. <<>> \in UNION {[1..n -> Topics] : n \in 0..2}
      BY <3>3
    <3>5. Len(<<>>) = Lifecycle!Cardinality(Lifecycle!Elements(<<>>))
      BY <3>1, <3>2, FS_EmptySet
    <3> QED BY <3>4, <3>5 DEF Lifecycle!Lists
  <2> QED BY <2>1 DEF TopicRequests
<1> HIDE DEF l, cleared
<1>3. /\ l \in Seq(Topics) /\ Len(l) \in Nat /\ Lifecycle!Elements(l) \subseteq Topics
      /\ Lifecycle!Cardinality(Lifecycle!Elements(l)) = Len(l)
      /\ \A i, j \in 1..Len(l) : l[i] = l[j] => i = j
  BY <1>2, ListsAreInjective
<1>4. topicReq' \in [Requests -> TopicRequests] /\ RequestsKnowTopics'
  BY <1>1, EndOfRequest
<1>5. \A i \in 1..Len(l) : l[i] \in Topics /\ l[i] \in Lifecycle!Elements(l) /\ featured'[l[i]] = i - 1
  <2> SUFFICES ASSUME NEW i \in 1..Len(l)
               PROVE  l[i] \in Topics /\ l[i] \in Lifecycle!Elements(l) /\ featured'[l[i]] = i - 1
    OBVIOUS
  <2>1. l[i] \in Topics /\ l[i] \in Lifecycle!Elements(l)
    BY <1>3 DEF Lifecycle!Elements
  <2>2. (CHOOSE j \in 1..Len(l) : l[j] = l[i]) = i
    BY <1>3
  <2> QED BY <1>1, <2>1, <2>2 DEF Lifecycle!Reordered
<1>6. \A t \in Topics \ Lifecycle!Elements(l) :
          featured'[t] = IF t \in cleared THEN -1 ELSE featured[t]
  BY <1>1 DEF Lifecycle!Reordered, Lifecycle!Unlisted
<1>7. \A t \in Lifecycle!Elements(l) : \E i \in 1..Len(l) : t = l[i]
  BY DEF Lifecycle!Elements
<1>8. featured' \in [Topics -> Nat \cup {-1}] /\ mixed' \in BOOLEAN
  <2>1. featured' = [t \in Topics |-> featured'[t]]
    BY <1>1 DEF Lifecycle!Reordered
  <2>2. ASSUME NEW t \in Topics PROVE featured'[t] \in Nat \cup {-1}
    <3>1. CASE t \in Lifecycle!Elements(l)
      <4>1. PICK i \in 1..Len(l) : t = l[i]
        BY <1>7, <3>1
      <4>2. featured'[t] = i - 1
        BY <1>5, <4>1
      <4> QED BY <1>3, <4>2
    <3>2. CASE t \notin Lifecycle!Elements(l)
      BY <1>6, <3>2
    <3> QED BY <3>1, <3>2
  <2> QED BY <1>1, <2>1, <2>2
<1>9. FeaturedIsOneList'
  <2> SUFFICES ASSUME Lifecycle!Featured = cleared
               PROVE  /\ {featured'[t] : t \in Lifecycle!Featured'} = 0..(Lifecycle!Cardinality(Lifecycle!Featured') - 1)
                      /\ Lifecycle!Cardinality(Lifecycle!Featured') <= MaxFeatured
    BY <1>1 DEF FeaturedIsOneList, Lifecycle!FeaturedIsOneList
  <2>1. Lifecycle!Featured' = Lifecycle!Elements(l)
    BY <1>3, <1>5, <1>6, <1>7 DEF Lifecycle!Featured, Lifecycle!Unlisted
  <2>2. {featured'[t] : t \in Lifecycle!Elements(l)} = 0..(Len(l) - 1)
    <3>1. \A n \in 0..(Len(l) - 1) : n + 1 \in 1..Len(l) /\ featured'[l[n + 1]] = n
      BY <1>3, <1>5
    <3>2. ASSUME NEW t \in Lifecycle!Elements(l) PROVE featured'[t] \in 0..(Len(l) - 1)
      <4>1. PICK i \in 1..Len(l) : t = l[i]
        BY <1>7
      <4>2. featured'[t] = i - 1
        BY <1>5, <4>1
      <4> QED BY <1>3, <4>2
    <3>3. ASSUME NEW n \in 0..(Len(l) - 1) PROVE \E t \in Lifecycle!Elements(l) : featured'[t] = n
      BY <3>1, <1>5
    <3> QED BY <3>2, <3>3
  <2> QED BY <1>1, <1>3, <2>1, <2>2
<1>10. \A s \in Topics : TopicTold(s)'
  BY <1>1 DEF TopicTold, Lifecycle!Open
<1> QED BY <1>1, <1>4, <1>8, <1>9, <1>10

LEMMA TopicsStaySound ==
    ASSUME TopicsAreSound, Lifecycle!Next
    PROVE  TopicsAreSound'
<1>1. ASSUME NEW r \in Requests, Lifecycle!Step(r) PROVE TopicsAreSound'
  <2>1. CASE \/ Lifecycle!CheckTitle(r) \/ Lifecycle!CheckPending(r) \/ Lifecycle!CheckUndecided(r)
             \/ Lifecycle!CheckDraft(r) \/ Lifecycle!CheckFeaturable(r) \/ Lifecycle!ClearFeatured(r)
             \/ Lifecycle!Fail(r)
    <3>1. UNCHANGED Lifecycle!rows
      BY <2>1 DEF Lifecycle!CheckTitle, Lifecycle!CheckPending, Lifecycle!CheckUndecided, Lifecycle!CheckDraft,
                  Lifecycle!CheckFeaturable, Lifecycle!ClearFeatured, Lifecycle!Fail
    <3> QED BY <2>1, <3>1, RequestsKeepTopics
  <2> QED BY <1>1, <2>1, InsertKeepsTopics, UpdateKeepsTopics, ReviewKeepsTopics, PublicationKeepsTopics,
             CommitKeepsTopics DEF Lifecycle!Step
<1>2. ASSUME NEW r \in Requests, NEW q \in Lifecycle!Wanted, Lifecycle!Arrive(r, q) PROVE TopicsAreSound'
  <2>1. UNCHANGED Lifecycle!rows
    BY <1>2 DEF Lifecycle!Arrive
  <2> QED BY <1>2, <2>1, RequestsKeepTopics
<1> QED BY <1>1, <1>2 DEF Lifecycle!Next

LEMMA SoundTopicsAreTold == TopicsAreSound => Lifecycle!FollowersToldOnce
BY DEF TopicsAreSound, TopicTold, Lifecycle!FollowersToldOnce

-----------------------------------------------------------------------------
(* The notifications of a member (app.vue, me.vue, me/notifications.vue).  *)

Answers == [items : SUBSET Nat, read : SUBSET Nat, count : Nat]
MemberRequests ==
    [op : Notes!Reads \cup Notes!Writes \cup {"none"}, note : Nat, filter : {"all", "unread"}, crossed : BOOLEAN,
     answer : Answers \cup {NoOne}]

NoticesTyped ==
    /\ IsFiniteSet(notes) /\ notes \subseteq Nat /\ unread \subseteq notes /\ stale \subseteq Notes!Counts
    /\ page \in [open : BOOLEAN, filter : {"all", "unread"}, items : SUBSET Nat, read : SUBSET Nat, unread : Nat,
                 loading : BOOLEAN, failed : BOOLEAN]

\* No write is under way together with a read that is not crossed; what such a read was answered is still
\* so, and what a write has marked stays marked.
SoundRequest(p, r) ==
    /\ r.op \in Notes!Reads /\ ~r.crossed => \A i \in Notes!Slots : p[i].op \notin Notes!Writes
    /\ r.op \in Notes!Reads /\ r.answer # NoOne => r.answer \in Answers
    /\ r.op \in Notes!Reads /\ r.answer # NoOne /\ ~r.crossed
           => r.answer.count = Cardinality(unread) /\ r.answer.items \ r.answer.read \subseteq unread
    /\ r.op = "all" /\ r.answer # NoOne /\ ~r.crossed => unread = {}
    /\ r.op = "read" => r.note \in notes
    /\ r.op = "read" /\ r.answer # NoOne => r.note \notin unread

SoundRequests(p) == p \in [Notes!Slots -> MemberRequests] /\ \A i \in Notes!Slots : SoundRequest(p, p[i])

\* What is unread once the notifications are marked that the member has seen.
Unmarked(p) == {k \in unread : \A i \in Notes!Slots : ~(p[i].op = "read" /\ p[i].note = k)}
Kept == Unmarked(asked)

\* Every place counts those, unless all of them are about to be marked.
PlacesCountKept ==
    /\ "header" \in stale \/ header = Cardinality(Kept)
    /\ "menu" \in stale \/ menu \in {NoOne, Cardinality(Kept)}
    /\ page.open /\ ~page.loading /\ "page" \notin stale
           => page.unread = Cardinality(Kept) /\ page.items \ page.read \subseteq Kept

NoAll == \A i \in Notes!Slots : asked[i].op # "all"

NoticesAreSound ==
    /\ NoticesTyped /\ SoundRequests(asked)
    /\ \A i \in Notes!Slots : asked[i].op = "page" => page.open
    /\ page.open /\ page.loading => \E i \in Notes!Slots : asked[i].op = "page"
    /\ NoAll => PlacesCountKept

LEMMA NotesCardinality == \A S : Notes!Cardinality(S) = Cardinality(S)
BY Zenon DEF Notes!Cardinality, Cardinality

LEMMA KeptIsFinite ==
    ASSUME NoticesTyped
    PROVE  /\ IsFiniteSet(unread) /\ Cardinality(unread) \in Nat /\ IsFiniteSet(Kept) /\ Cardinality(Kept) \in Nat
BY FS_Subset, FS_CardinalityType DEF NoticesTyped, Kept, Unmarked

LEMMA NoticesSoundAtFirst == Notes!Init => NoticesAreSound
<1> SUFFICES ASSUME Notes!Init PROVE NoticesAreSound
  OBVIOUS
<1>1. IsFiniteSet(notes) /\ notes \subseteq Nat /\ unread \subseteq notes
  <2>1. notes = 1..2 /\ unread \in SUBSET notes
    BY DEF Notes!Init
  <2>2. IsFiniteSet(1..2)
    <3>1. 1 \in Int /\ 2 \in Int
      OBVIOUS
    <3> QED BY Zenon, <3>1, FS_Interval
  <2> QED BY <2>1, <2>2
<1>2. \A k \in Notes!Slots : /\ k = 1 => asked[k] = Notes!Request("page", 0, "all", FALSE)
                             /\ k = 2 => asked[k] = Notes!Request("header", 0, "all", FALSE)
                             /\ k \notin {1, 2} => asked[k] = Notes!None
  <2>1. asked = [k \in Notes!Slots |-> IF k = 1 THEN Notes!Request("page", 0, "all", FALSE)
                                      ELSE IF k = 2 THEN Notes!Request("header", 0, "all", FALSE) ELSE Notes!None]
    BY DEF Notes!Init
  <2> QED BY <2>1 DEF Notes!Request, Notes!None
<1>3. 1 \in Notes!Slots
  BY NoticeAssumption DEF Notes!Slots
<1>4. NoticesTyped /\ asked \in [Notes!Slots -> MemberRequests]
  <2>1. asked = [k \in Notes!Slots |-> asked[k]]
    BY DEF Notes!Init
  <2> QED BY <1>1, <1>2, <2>1 DEF Notes!Init, NoticesTyped, MemberRequests, Notes!None, Notes!Request, Notes!Blank,
             Notes!Counts, Notes!Reads, Notes!Writes
<1>5. SoundRequests(asked) /\ \A i \in Notes!Slots : asked[i].op = "page" => page.open
  BY <1>2, <1>4 DEF SoundRequests, Notes!Init, SoundRequest, Notes!None, Notes!Request, Notes!Blank, Notes!Counts, Notes!Reads, Notes!Writes
<1>6. \E i \in Notes!Slots : asked[i].op = "page"
  BY <1>2, <1>3 DEF Notes!Request
<1>7. Kept = unread
  BY <1>2 DEF Kept, Unmarked, Notes!None, Notes!Request
<1>8. PlacesCountKept
  BY <1>7, NotesCardinality DEF PlacesCountKept, Notes!Init, Notes!Unread, Notes!Blank
<1> QED BY <1>4, <1>5, <1>6, <1>8 DEF NoticesAreSound

LEMMA SoundNoticesStay ==
    ASSUME NoticesAreSound, UNCHANGED <<notes, unread, header, menu, page, asked, stale>>
    PROVE  NoticesAreSound'
BY DEF NoticesAreSound, NoticesTyped, SoundRequests, SoundRequest, PlacesCountKept, Kept, Unmarked, NoAll

LEMMA SoundNoticesAgree == NoticesAreSound => Notes!BadgesAgree
<1> SUFFICES ASSUME NoticesAreSound, asked = [k \in Notes!Slots |-> Notes!None]
             PROVE  /\ "header" \in stale \/ header = Notes!Unread
                    /\ "menu" \in stale \/ menu \in {NoOne, Notes!Unread}
                    /\ ~page.open \/ "page" \in stale \/ (page.unread = Notes!Unread /\ page.items \ page.read \subseteq unread)
  BY DEF Notes!BadgesAgree
<1>1. \A k \in Notes!Slots : asked[k].op = "none"
  BY DEF Notes!None, Notes!Request
<1>2. NoAll /\ Kept = unread /\ ~(page.open /\ page.loading)
  BY <1>1 DEF NoticesAreSound, NoAll, Kept, Unmarked
<1> QED BY <1>2, NotesCardinality DEF NoticesAreSound, PlacesCountKept, Notes!Unread

(* What becomes of the requests under way.                                 *)

Ended(p, i) == [p EXCEPT ![i] = Notes!None]

LEMMA RequestEnds ==
    ASSUME NEW p, SoundRequests(p), NEW i \in Notes!Slots, NEW q, q = Ended(p, i)
    PROVE  /\ SoundRequests(q) /\ q[i].op = "none" /\ \A j \in Notes!Slots \ {i} : q[j] = p[j]
           /\ p[i].op # "read" \/ p[i].answer # NoOne => Unmarked(q) = Unmarked(p)
<1>1. Notes!None \in MemberRequests /\ Notes!None.op = "none"
  BY DEF Notes!None, Notes!Request, MemberRequests
<1>2. q \in [Notes!Slots -> MemberRequests] /\ q[i] = Notes!None /\ \A j \in Notes!Slots \ {i} : q[j] = p[j]
  BY <1>1 DEF SoundRequests, Ended
<1>3. \A j \in Notes!Slots : SoundRequest(q, q[j])
  BY <1>1, <1>2 DEF SoundRequests, SoundRequest, Notes!Reads, Notes!Counts, Notes!Writes
<1>4. ASSUME p[i].op # "read" \/ p[i].answer # NoOne PROVE Unmarked(q) = Unmarked(p)
  BY <1>1, <1>2, <1>4 DEF SoundRequests, SoundRequest, Unmarked
<1> QED BY <1>1, <1>2, <1>3, <1>4 DEF SoundRequests

LEMMA ReadIsSent ==
    ASSUME NEW p, SoundRequests(p), NEW i \in Notes!Slots, Notes!Ask(p, i),
           NEW op \in Notes!Reads, NEW filter \in {"all", "unread"}, NEW q, q = Notes!Read(p, i, op, filter)
    PROVE  /\ SoundRequests(q) /\ q[i].op = op /\ \A j \in Notes!Slots \ {i} : q[j] = p[j]
           /\ Unmarked(q) = Unmarked(p)
<1> DEFINE r == Notes!Request(op, 0, filter, \E j \in Notes!Slots : p[j].op \in Notes!Writes)
<1>1. /\ r \in MemberRequests /\ r.op = op /\ r.answer = NoOne
      /\ ~r.crossed => \A j \in Notes!Slots : p[j].op \notin Notes!Writes
  BY DEF Notes!Request, MemberRequests
<1>2. q = [p EXCEPT ![i] = r] /\ p[i].op = "none"
  BY DEF Notes!Read, Notes!Ask
<1> HIDE DEF r
<1>3. q \in [Notes!Slots -> MemberRequests] /\ q[i] = r /\ \A j \in Notes!Slots \ {i} : q[j] = p[j]
  BY <1>1, <1>2 DEF SoundRequests
<1>4. op \notin Notes!Writes /\ op # "read" /\ op # "all"
  BY DEF Notes!Reads, Notes!Counts, Notes!Writes
<1>5. \A j \in Notes!Slots : SoundRequest(q, q[j])
  BY <1>1, <1>2, <1>3, <1>4 DEF SoundRequests, SoundRequest
<1>6. Unmarked(q) = Unmarked(p)
  BY <1>1, <1>2, <1>3, <1>4 DEF Unmarked
<1> QED BY <1>1, <1>3, <1>5, <1>6 DEF SoundRequests

LEMMA ListsAreLeft ==
    ASSUME NEW p, SoundRequests(p), NEW q, q = Notes!Left(p)
    PROVE  /\ SoundRequests(q)
           /\ \A j \in Notes!Slots : q[j].op # "page" /\ (q[j] = p[j] \/ (q[j].op = "none" /\ p[j].op = "page"))
           /\ Unmarked(q) = Unmarked(p)
<1>1. Notes!None \in MemberRequests /\ Notes!None.op = "none"
  BY DEF Notes!None, Notes!Request, MemberRequests
<1>2. \A j \in Notes!Slots : q[j] = IF p[j].op = "page" THEN Notes!None ELSE p[j]
  BY DEF Notes!Left
<1>3. q \in [Notes!Slots -> MemberRequests]
  BY <1>1 DEF Notes!Left, SoundRequests
<1>4. \A j \in Notes!Slots : SoundRequest(q, q[j])
  BY <1>1, <1>2 DEF SoundRequests, SoundRequest, Notes!Reads, Notes!Counts, Notes!Writes
<1>5. Unmarked(q) = Unmarked(p)
  BY <1>1, <1>2 DEF Unmarked
<1> QED BY <1>1, <1>2, <1>3, <1>4, <1>5 DEF SoundRequests

\* All that is under way is crossed.
LEMMA CrossingKeeps ==
    ASSUME NEW p, SoundRequests(p), NEW q, q = Notes!Crossing(p)
    PROVE  /\ SoundRequests(q) /\ Unmarked(q) = Unmarked(p)
           /\ \A j \in Notes!Slots : /\ q[j].op = p[j].op /\ q[j].note = p[j].note /\ q[j].answer = p[j].answer
                                     /\ q[j].crossed = (p[j].op # "none")
<1>1. \A j \in Notes!Slots : q[j] = [p[j] EXCEPT !.crossed = p[j].op # "none"]
  BY DEF Notes!Crossing
<1>2. \A j \in Notes!Slots : q[j] \in MemberRequests
  BY <1>1 DEF SoundRequests, MemberRequests
<1>3. q \in [Notes!Slots -> MemberRequests]
  BY <1>2 DEF Notes!Crossing
<1>4. \A j \in Notes!Slots : /\ q[j].op = p[j].op /\ q[j].note = p[j].note /\ q[j].answer = p[j].answer
                             /\ q[j].crossed = (p[j].op # "none")
  BY <1>1 DEF SoundRequests, MemberRequests
<1>5. \A j \in Notes!Slots : SoundRequest(q, q[j])
  BY <1>4 DEF SoundRequests, SoundRequest, Notes!Reads, Notes!Counts
<1>6. Unmarked(q) = Unmarked(p)
  BY <1>4 DEF Unmarked
<1> QED BY <1>3, <1>4, <1>5, <1>6 DEF SoundRequests

LEMMA WriteIsSent ==
    ASSUME NEW p, SoundRequests(p), NEW i \in Notes!Slots, Notes!Ask(p, i),
           NEW op \in Notes!Writes, NEW n \in Nat, op = "read" => n \in notes, NEW q, q = Notes!Write(p, i, op, n)
    PROVE  /\ SoundRequests(q) /\ q[i].op = op /\ \A j \in Notes!Slots \ {i} : q[j].op = p[j].op
           /\ op = "read" => Unmarked(q) = Unmarked(p) \ {n}
<1> DEFINE r == Notes!Request(op, n, "all", FALSE)
<1>1. PICK c : c = Notes!Crossing(p)
  OBVIOUS
<1>2. /\ SoundRequests(c) /\ Unmarked(c) = Unmarked(p)
      /\ \A j \in Notes!Slots : c[j].op = p[j].op
      /\ \A j \in Notes!Slots : c[j].crossed = (p[j].op # "none")
  BY <1>1, CrossingKeeps
<1>3. r \in MemberRequests /\ r.op = op /\ r.answer = NoOne /\ r.note = n
  BY DEF Notes!Request, MemberRequests
<1>4. q = [c EXCEPT ![i] = r] /\ p[i].op = "none"
  BY <1>1 DEF Notes!Write, Notes!Ask
<1> HIDE DEF r
<1>5. q \in [Notes!Slots -> MemberRequests] /\ q[i] = r /\ \A j \in Notes!Slots \ {i} : q[j] = c[j]
  BY <1>2, <1>3, <1>4 DEF SoundRequests
<1>6. op \notin Notes!Reads
  BY DEF Notes!Reads, Notes!Counts, Notes!Writes
<1>7. \A j \in Notes!Slots \ {i} : c[j].op \in Notes!Reads => c[j].crossed
  BY <1>2 DEF Notes!Reads, Notes!Counts
<1>8. \A j \in Notes!Slots : SoundRequest(q, q[j])
  BY <1>2, <1>3, <1>5, <1>6, <1>7 DEF SoundRequests, SoundRequest
<1>9. ASSUME op = "read" PROVE Unmarked(q) = Unmarked(p) \ {n}
  BY <1>2, <1>3, <1>4, <1>5, <1>9 DEF Unmarked
<1> QED BY <1>2, <1>3, <1>5, <1>8, <1>9 DEF SoundRequests

\* The rows are as they were, and so is what is known of the requests.
LEMMA RequestsCarryOver ==
    ASSUME NEW q, q = asked', SoundRequests(q), UNCHANGED <<notes, unread>>
    PROVE  SoundRequests(asked)' /\ Kept' = Unmarked(q)
BY DEF SoundRequests, SoundRequest, Kept, Unmarked

(* What the member does.                                                   *)

LEMMA EnteringKeepsNotices ==
    ASSUME NoticesAreSound, NEW within \in BOOLEAN, Notes!Enter(within)
    PROVE  NoticesAreSound'
<1>1. /\ ~page.open /\ page' = Notes!Blank /\ UNCHANGED <<notes, unread, header, menu, stale>>
  BY DEF Notes!Enter, Notes!Do
<1>2. PICK i \in Notes!Slots :
          /\ Notes!Ask(asked, i)
          /\ \/ asked' = Notes!Read(asked, i, "page", "all")
             \/ \E j \in Notes!Slots : /\ Notes!Ask(Notes!Read(asked, i, "page", "all"), j)
                                       /\ asked' = Notes!Read(Notes!Read(asked, i, "page", "all"), j, "menu", "all")
  BY Zenon DEF Notes!Enter
<1>3. PICK q : q = Notes!Read(asked, i, "page", "all")
  OBVIOUS
<1>4. {"page", "menu"} \subseteq Notes!Reads
  BY DEF Notes!Reads, Notes!Counts
<1>5. /\ SoundRequests(q) /\ q[i].op = "page" /\ Unmarked(q) = Kept
      /\ \A j \in Notes!Slots \ {i} : q[j] = asked[j]
  BY <1>2, <1>3, <1>4, ReadIsSent DEF NoticesAreSound, Kept
<1>6. PICK after : after = asked'
  OBVIOUS
<1>7. /\ SoundRequests(after) /\ Unmarked(after) = Kept /\ \E k \in Notes!Slots : after[k].op = "page"
      /\ (\A k \in Notes!Slots : after[k].op # "all") => NoAll
  <2>1. CASE after = q
    <3>1. asked[i].op = "none"
      BY <1>2 DEF Notes!Ask
    <3> QED BY <1>5, <2>1, <3>1 DEF NoAll
  <2>2. ASSUME NEW j \in Notes!Slots, Notes!Ask(q, j), after = Notes!Read(q, j, "menu", "all")
        PROVE  /\ SoundRequests(after) /\ Unmarked(after) = Kept /\ after[i].op = "page"
               /\ (\A k \in Notes!Slots : after[k].op # "all") => NoAll
    <3>1. /\ SoundRequests(after) /\ after[j].op = "menu" /\ \A k \in Notes!Slots \ {j} : after[k] = q[k]
          /\ Unmarked(after) = Unmarked(q)
      BY <1>4, <1>5, <2>2, ReadIsSent
    <3>2. q[j].op = "none"
      BY <2>2 DEF Notes!Ask
    <3>3. asked[i].op = "none"
      BY <1>2 DEF Notes!Ask
    <3> QED BY <1>5, <3>1, <3>2, <3>3 DEF NoAll
  <2> QED BY <1>2, <1>3, <1>6, <2>1, <2>2
<1>8. SoundRequests(asked)' /\ Kept' = Kept /\ NoAll' = (\A k \in Notes!Slots : after[k].op # "all")
  BY <1>1, <1>6, <1>7, RequestsCarryOver DEF NoAll
<1>9. NoticesTyped'
  BY <1>1 DEF NoticesAreSound, NoticesTyped, Notes!Blank
<1>10. PlacesCountKept => PlacesCountKept'
  BY <1>1, <1>8 DEF PlacesCountKept, Notes!Blank
<1> QED BY <1>1, <1>6, <1>7, <1>8, <1>9, <1>10 DEF NoticesAreSound, Notes!Blank

LEMMA LeavingKeepsNotices ==
    ASSUME NoticesAreSound, Notes!Leave
    PROVE  NoticesAreSound'
<1>1. page' = Notes!Closed /\ asked' = Notes!Left(asked) /\ UNCHANGED <<notes, unread, header, menu, stale>>
  BY DEF Notes!Leave, Notes!Do
<1>2. PICK after : after = asked'
  OBVIOUS
<1>3. /\ SoundRequests(after) /\ Unmarked(after) = Kept
      /\ \A j \in Notes!Slots : after[j].op # "page" /\ (after[j] = asked[j] \/ (after[j].op = "none" /\ asked[j].op = "page"))
  BY <1>1, <1>2, ListsAreLeft DEF NoticesAreSound, Kept
<1>4. SoundRequests(asked)' /\ Kept' = Kept /\ (NoAll' => NoAll)
  BY <1>1, <1>2, <1>3, RequestsCarryOver DEF NoAll
<1>5. page'.open = FALSE /\ NoticesTyped'
  BY <1>1 DEF NoticesAreSound, NoticesTyped, Notes!Closed, Notes!Blank
<1>6. PlacesCountKept => PlacesCountKept'
  BY <1>1, <1>4, <1>5 DEF PlacesCountKept
<1> QED BY <1>2, <1>3, <1>4, <1>5, <1>6 DEF NoticesAreSound

LEMMA ChoosingKeepsNotices ==
    ASSUME NoticesAreSound, NEW filter \in {"all", "unread"}, Notes!Choose(filter)
    PROVE  NoticesAreSound'
<1>1. /\ page.open /\ page' = [page EXCEPT !.filter = filter, !.loading = TRUE, !.failed = FALSE]
      /\ UNCHANGED <<notes, unread, header, menu, stale>>
  BY DEF Notes!Choose, Notes!Do
<1>2. PICK i \in Notes!Slots : Notes!Ask(asked, i) /\ asked' = Notes!Read(asked, i, "page", filter)
  BY DEF Notes!Choose
<1>3. PICK after : after = asked'
  OBVIOUS
<1>4. "page" \in Notes!Reads /\ asked[i].op = "none"
  BY <1>2 DEF Notes!Reads, Notes!Counts, Notes!Ask
<1>5. /\ SoundRequests(after) /\ after[i].op = "page" /\ Unmarked(after) = Kept
      /\ \A j \in Notes!Slots \ {i} : after[j] = asked[j]
  BY <1>2, <1>3, <1>4, ReadIsSent DEF NoticesAreSound, Kept
<1>6. SoundRequests(asked)' /\ Kept' = Kept /\ (NoAll' => NoAll)
  BY <1>1, <1>3, <1>4, <1>5, RequestsCarryOver DEF NoAll
<1>7. page'.open = TRUE /\ page'.loading = TRUE /\ NoticesTyped'
  BY <1>1 DEF NoticesAreSound, NoticesTyped
<1>8. PlacesCountKept => PlacesCountKept'
  BY <1>1, <1>6, <1>7 DEF PlacesCountKept
<1> QED BY <1>3, <1>5, <1>6, <1>7, <1>8 DEF NoticesAreSound

LEMMA MarkingKeepsNotices ==
    ASSUME NoticesAreSound, NEW k \in notes, NEW leaves \in BOOLEAN, Notes!MarkRead(k, leaves)
    PROVE  NoticesAreSound'
<1> DEFINE shown == Notes!Minus(page.unread, 1)
           left == IF leaves THEN Notes!Left(asked) ELSE asked
<1>1. /\ page.open /\ ~page.loading /\ k \in page.items \ page.read /\ UNCHANGED <<notes, unread>>
      /\ page' = IF leaves THEN Notes!Closed ELSE [page EXCEPT !.read = @ \cup {k}, !.unread = shown]
      /\ header' = shown /\ menu' = (IF menu = NoOne THEN NoOne ELSE shown)
      /\ stale' = IF "page" \notin stale THEN stale \ {"header", "menu"} ELSE Notes!Counts
  BY DEF Notes!MarkRead, Notes!Do, Notes!SyncUnread
<1>2. PICK i \in Notes!Slots : Notes!Ask(left, i) /\ asked' = Notes!Write(left, i, "read", k)
  BY DEF Notes!MarkRead
<1>3. PICK p : p = left
  OBVIOUS
<1>4. /\ SoundRequests(p) /\ Unmarked(p) = Kept
      /\ \A j \in Notes!Slots : /\ p[j].op = "page" => ~leaves /\ asked[j].op = "page"
                                /\ asked[j].op = "all" => p[j].op = "all"
  <2>1. CASE leaves
    <3>1. p = Notes!Left(asked)
      BY <1>3, <2>1
    <3> QED BY <3>1, ListsAreLeft DEF NoticesAreSound, Kept
  <2>2. CASE ~leaves
    BY <1>3, <2>2 DEF NoticesAreSound, Kept
  <2> QED BY <2>1, <2>2
<1>5. PICK after : after = asked'
  OBVIOUS
<1>6. "read" \in Notes!Writes /\ k \in Nat /\ p[i].op = "none"
  BY <1>2, <1>3 DEF Notes!Writes, NoticesAreSound, NoticesTyped, Notes!Ask
<1>7. /\ SoundRequests(after) /\ after[i].op = "read" /\ \A j \in Notes!Slots \ {i} : after[j].op = p[j].op
      /\ Unmarked(after) = Kept \ {k}
  BY <1>2, <1>3, <1>4, <1>5, <1>6, WriteIsSent
<1>8. SoundRequests(asked)' /\ Kept' = Kept \ {k} /\ (NoAll' => NoAll)
  BY <1>1, <1>4, <1>5, <1>6, <1>7, RequestsCarryOver DEF NoAll
<1>9. page.unread \in Nat /\ shown \in Nat /\ shown = (IF page.unread > 1 THEN page.unread - 1 ELSE 0)
  BY DEF Notes!Minus, NoticesAreSound, NoticesTyped
<1> HIDE DEF shown, left
<1>10. /\ page'.open = ~leaves /\ page'.loading = FALSE
       /\ ~leaves => page'.unread = shown /\ page'.items = page.items /\ page'.read = page.read \cup {k}
  BY <1>1, <1>9 DEF NoticesAreSound, NoticesTyped, Notes!Closed, Notes!Blank
<1>11. NoticesTyped'
  BY <1>1, <1>9 DEF NoticesAreSound, NoticesTyped, Notes!Closed, Notes!Blank, Notes!Counts
<1>12. PlacesCountKept => PlacesCountKept'
  <2>1. CASE "page" \in stale
    BY <1>1, <2>1 DEF PlacesCountKept, Notes!Counts
  <2>2. CASE "page" \notin stale
    <3> SUFFICES ASSUME PlacesCountKept PROVE PlacesCountKept'
      OBVIOUS
    <3>1. page.unread = Cardinality(Kept) /\ k \in Kept /\ page.items \ page.read \subseteq Kept
      BY <1>1, <2>2 DEF PlacesCountKept
    <3>2. IsFiniteSet(Kept) /\ Cardinality(Kept) \in Nat
      BY KeptIsFinite DEF NoticesAreSound
    <3>4. Cardinality(Kept \ {k}) = Cardinality(Kept) - 1 /\ Cardinality(Kept \ {k}) \in Nat
      BY <3>1, <3>2, FS_RemoveElement, FS_CardinalityType
    <3>3. shown = Cardinality(Kept')
      BY <1>8, <1>9, <3>1, <3>2, <3>4
    <3> QED BY <1>1, <1>8, <1>10, <3>1, <3>3 DEF PlacesCountKept
  <2> QED BY <2>1, <2>2
<1>13. \A j \in Notes!Slots : asked'[j].op = "page" => page'.open
  BY <1>4, <1>5, <1>7, <1>10
<1> QED BY <1>8, <1>10, <1>11, <1>12, <1>13 DEF NoticesAreSound

LEMMA MarkingAllKeepsNotices ==
    ASSUME NoticesAreSound, Notes!ReadAll
    PROVE  NoticesAreSound'
<1>1. UNCHANGED <<notes, unread, header, menu, page, stale>>
  BY DEF Notes!ReadAll, Notes!Do
<1>2. PICK i \in Notes!Slots : Notes!Ask(asked, i) /\ asked' = Notes!Write(asked, i, "all", 0)
  BY DEF Notes!ReadAll
<1>3. PICK after : after = asked'
  OBVIOUS
<1>4. "all" \in Notes!Writes /\ asked[i].op = "none"
  BY <1>2 DEF Notes!Writes, Notes!Ask
<1>5. SoundRequests(after) /\ after[i].op = "all" /\ \A j \in Notes!Slots \ {i} : after[j].op = asked[j].op
  BY <1>2, <1>3, <1>4, WriteIsSent DEF NoticesAreSound
<1>6. SoundRequests(asked)' /\ ~NoAll'
  BY <1>1, <1>3, <1>5, RequestsCarryOver DEF NoAll
<1>7. NoticesTyped'
  BY <1>1 DEF NoticesAreSound, NoticesTyped
<1> QED BY <1>1, <1>3, <1>4, <1>5, <1>6, <1>7 DEF NoticesAreSound

(* The API, and what becomes of its answers.                               *)

LEMMA ArrivalKeepsNotices ==
    ASSUME NoticesAreSound, Notes!Arrive
    PROVE  NoticesAreSound'
<1>1. PICK k \in 1..MaxNotes : notes = 1..(k - 1) /\ notes' = notes \cup {k} /\ unread' = unread \cup {k}
  BY DEF Notes!Arrive
<1>2. asked' = Notes!Crossing(asked) /\ stale' = Notes!Counts /\ UNCHANGED page
  BY DEF Notes!Arrive
<1>3. PICK after : after = asked'
  OBVIOUS
<1>4. /\ SoundRequests(after)
      /\ \A j \in Notes!Slots : after[j].op = asked[j].op /\ after[j].crossed = (asked[j].op # "none")
  BY <1>2, <1>3, CrossingKeeps DEF NoticesAreSound
<1>5. k \notin notes /\ k \in Nat
  BY <1>1
<1>6. SoundRequests(asked)'
  BY <1>1, <1>3, <1>4, <1>5 DEF SoundRequests, SoundRequest, Notes!Reads, Notes!Counts
<1>7. IsFiniteSet(notes')
  BY <1>1, FS_AddElement DEF NoticesAreSound, NoticesTyped
<1>8. NoticesTyped'
  BY <1>1, <1>2, <1>5, <1>7 DEF NoticesAreSound, NoticesTyped
<1>9. PlacesCountKept'
  BY <1>2 DEF PlacesCountKept, Notes!Counts
<1> QED BY <1>2, <1>3, <1>4, <1>6, <1>8, <1>9 DEF NoticesAreSound

LEMMA ServingKeepsNotices ==
    ASSUME NoticesAreSound, NEW i \in Notes!Slots, Notes!Serve(i)
    PROVE  NoticesAreSound'
<1> DEFINE r == asked[i]
<1>1. /\ r.op # "none" /\ r.answer = NoOne /\ asked' = [asked EXCEPT ![i].answer = Notes!Answer(r)]
      /\ unread' = unread \ Notes!Marked(r) /\ UNCHANGED <<notes, header, menu, page, stale>>
  BY DEF Notes!Serve
<1>2. r \in MemberRequests /\ asked \in [Notes!Slots -> MemberRequests]
  BY DEF NoticesAreSound, SoundRequests
<1>3. unread \subseteq notes /\ notes \subseteq Nat /\ Cardinality(unread) \in Nat
  BY KeptIsFinite DEF NoticesAreSound, NoticesTyped
<1>4. /\ Notes!Answer(r) \in Answers
      /\ r.op \in Notes!Reads => /\ Notes!Answer(r).count = Cardinality(unread)
                                 /\ Notes!Answer(r).items \ Notes!Answer(r).read \subseteq unread
  BY <1>3, NotesCardinality DEF Notes!Answer, Answers, Notes!Listed, Notes!Unread
<1>5. PICK answer : answer = Notes!Answer(r)
  OBVIOUS
<1>6. asked' \in [Notes!Slots -> MemberRequests]
  BY <1>1, <1>2, <1>4 DEF MemberRequests
<1>7. \A j \in Notes!Slots : /\ asked'[j].op = asked[j].op /\ asked'[j].note = asked[j].note
                             /\ asked'[j].crossed = asked[j].crossed
                             /\ asked'[j].answer = IF j = i THEN answer ELSE asked[j].answer
  BY <1>1, <1>2, <1>5 DEF MemberRequests
<1>8. /\ r.op \in Notes!Reads => unread' = unread
      /\ r.op = "read" => unread' = unread \ {r.note}
      /\ r.op = "all" => unread' = {}
      /\ unread' \subseteq unread
  BY <1>1, <1>3 DEF Notes!Marked, Notes!Reads, Notes!Counts
<1>9. r.op \in Notes!Reads \/ r.op = "read" \/ r.op = "all"
  BY <1>1, <1>2 DEF MemberRequests, Notes!Writes
<1> HIDE DEF r
<1>10. ASSUME NEW j \in Notes!Slots PROVE SoundRequest(asked, asked[j])'
  <2>1. SoundRequest(asked, asked[j])
    BY DEF NoticesAreSound, SoundRequests
  <2>2. CASE r.op \in Notes!Reads
    <3>1. /\ answer \in Answers /\ answer.count = Cardinality(unread) /\ answer.items \ answer.read \subseteq unread
          /\ unread' = unread /\ notes' = notes /\ r.op \notin {"read", "all"}
      BY <1>1, <1>4, <1>5, <1>8, <2>2 DEF Notes!Reads, Notes!Counts
    <3>2. CASE j = i
      BY <1>7, <2>1, <3>1, <3>2 DEF SoundRequest, r
    <3>3. CASE j # i
      BY <1>7, <2>1, <3>1, <3>3 DEF SoundRequest
    <3> QED BY <3>2, <3>3
  <2>3. CASE r.op \in Notes!Writes
    <3>1. asked[j].op \in Notes!Reads => asked[j].crossed
      BY <2>1, <2>3 DEF SoundRequest, r
    <3>2. j # i \/ asked[j].op \notin Notes!Reads
      BY <2>3 DEF r, Notes!Reads, Notes!Counts, Notes!Writes
    <3>3. r.op = "read" \/ r.op = "all"
      BY <2>3 DEF Notes!Writes
    <3> QED BY <1>1, <1>7, <1>8, <2>1, <3>1, <3>2, <3>3 DEF SoundRequest, r
  <2> QED BY <1>9, <2>2, <2>3 DEF Notes!Writes
<1>11. SoundRequests(asked)'
  BY <1>6, <1>10 DEF SoundRequests
<1>12. NoAll' => NoAll /\ Kept' = Kept
  <2> SUFFICES ASSUME NoAll' PROVE NoAll /\ Kept' = Kept
    OBVIOUS
  <2>1. NoAll /\ r.op # "all"
    BY <1>7 DEF NoAll, r
  <2>2. unread' = unread \/ (r.op = "read" /\ unread' = unread \ {r.note})
    BY <1>8, <1>9, <2>1
  <2>3. Kept' = {k \in unread' : \A j \in Notes!Slots : ~(asked[j].op = "read" /\ asked[j].note = k)}
    BY <1>7 DEF Kept, Unmarked
  <2> QED BY <2>1, <2>2, <2>3 DEF Kept, Unmarked, r
<1>13. NoticesTyped'
  BY <1>1, <1>8 DEF NoticesAreSound, NoticesTyped
<1>14. PlacesCountKept /\ NoAll' => PlacesCountKept'
  BY <1>1, <1>12 DEF PlacesCountKept
<1> QED BY <1>1, <1>7, <1>11, <1>12, <1>13, <1>14 DEF NoticesAreSound

LEMMA CountsKeepNotices ==
    ASSUME NoticesAreSound, NEW i \in Notes!Slots, Notes!DeliverCount(i)
    PROVE  NoticesAreSound'
<1> DEFINE r == asked[i]
<1>1. /\ r.answer # NoOne /\ r.op \in Notes!Reads /\ UNCHANGED <<notes, unread>>
      /\ asked' = [asked EXCEPT ![i] = Notes!None]
      /\ stale' = IF r.crossed THEN stale \cup {r.op} ELSE stale \ {r.op}
      /\ \/ r.op = "header" /\ header' = r.answer.count /\ UNCHANGED <<menu, page>>
         \/ r.op = "menu" /\ menu' = r.answer.count /\ UNCHANGED <<header, page>>
         \/ /\ r.op = "page" /\ UNCHANGED <<header, menu>>
            /\ page' = [page EXCEPT !.items = r.answer.items, !.read = r.answer.read, !.unread = r.answer.count,
                                    !.loading = FALSE]
  BY DEF Notes!DeliverCount, Notes!Told, Notes!Rest
<1>2. SoundRequest(asked, r) /\ r \in MemberRequests
  BY DEF NoticesAreSound, SoundRequests
<1>3. PICK after : after = asked'
  OBVIOUS
<1>4. r.op \notin {"read", "all", "none"}
  BY <1>1 DEF Notes!Reads, Notes!Counts
<1>5. /\ SoundRequests(after) /\ after[i].op = "none" /\ \A j \in Notes!Slots \ {i} : after[j] = asked[j]
      /\ Unmarked(after) = Kept
  <2>1. SoundRequests(asked) /\ after = Ended(asked, i)
    BY <1>1, <1>3 DEF NoticesAreSound, Ended
  <2> QED BY <1>4, <2>1, RequestEnds DEF Kept
<1>6. SoundRequests(asked)' /\ Kept' = Kept /\ (NoAll' => NoAll)
  BY <1>1, <1>3, <1>4, <1>5, RequestsCarryOver DEF NoAll
<1>7. r.answer.count \in Nat /\ r.answer.items \subseteq Nat /\ r.answer.read \subseteq Nat
  BY <1>1, <1>2 DEF SoundRequest, Answers
<1>8. ~r.crossed => /\ Kept = unread /\ r.answer.count = Cardinality(Kept)
                    /\ r.answer.items \ r.answer.read \subseteq Kept
  <2> SUFFICES ASSUME ~r.crossed
               PROVE  /\ Kept = unread /\ r.answer.count = Cardinality(Kept)
                      /\ r.answer.items \ r.answer.read \subseteq Kept
    OBVIOUS
  <2>1. \A j \in Notes!Slots : asked[j].op # "read"
    BY <1>1, <1>2 DEF SoundRequest, Notes!Writes
  <2>2. Kept = unread
    BY <2>1 DEF Kept, Unmarked
  <2> QED BY <1>1, <1>2, <2>2 DEF SoundRequest
<1>9. r.crossed \in BOOLEAN
  BY <1>2 DEF MemberRequests
<1> HIDE DEF r
<1>10. CASE r.op \in {"header", "menu"}
  <2>1. UNCHANGED page
    BY <1>1, <1>10
  <2>2. NoticesTyped'
    BY <1>1, <2>1 DEF NoticesAreSound, NoticesTyped, Notes!Reads
  <2>3. PlacesCountKept => PlacesCountKept'
    BY <1>1, <1>6, <1>8, <1>10, <2>1 DEF PlacesCountKept
  <2>4. /\ \A j \in Notes!Slots : asked'[j].op = "page" => page'.open
        /\ page'.open /\ page'.loading => \E j \in Notes!Slots : asked'[j].op = "page"
    BY <1>3, <1>5, <1>10, <2>1 DEF NoticesAreSound, r
  <2> QED BY <1>6, <2>2, <2>3, <2>4 DEF NoticesAreSound
<1>11. CASE r.op = "page"
  <2>1. /\ page' = [page EXCEPT !.items = r.answer.items, !.read = r.answer.read, !.unread = r.answer.count,
                                !.loading = FALSE]
        /\ UNCHANGED <<header, menu>>
    BY <1>1, <1>11
  <2>2. /\ page'.open = page.open /\ page'.loading = FALSE /\ page'.items = r.answer.items
        /\ page'.read = r.answer.read /\ page'.unread = r.answer.count
    BY <2>1 DEF NoticesAreSound, NoticesTyped
  <2>3. NoticesTyped'
    BY <1>1, <1>7, <2>1 DEF NoticesAreSound, NoticesTyped, Notes!Reads
  <2>4. PlacesCountKept => PlacesCountKept'
    BY <1>1, <1>6, <1>8, <1>11, <2>1, <2>2 DEF PlacesCountKept
  <2>5. \A j \in Notes!Slots : asked'[j].op = "page" => page'.open
    BY <1>3, <1>5, <2>2 DEF NoticesAreSound
  <2> QED BY <1>6, <2>2, <2>3, <2>4, <2>5 DEF NoticesAreSound
<1> QED BY <1>1, <1>10, <1>11

LEMMA MarksKeepNotices ==
    ASSUME NoticesAreSound, NEW i \in Notes!Slots, Notes!DeliverRead(i)
    PROVE  NoticesAreSound'
<1>1. /\ asked[i].answer # NoOne /\ asked[i].op = "read" /\ asked' = [asked EXCEPT ![i] = Notes!None]
      /\ UNCHANGED <<notes, unread, header, menu, page, stale>>
  BY DEF Notes!DeliverRead, Notes!Rest
<1>2. PICK after : after = asked'
  OBVIOUS
<1>3. /\ SoundRequests(after) /\ after[i].op = "none" /\ \A j \in Notes!Slots \ {i} : after[j] = asked[j]
      /\ Unmarked(after) = Kept
  <2>1. SoundRequests(asked) /\ after = Ended(asked, i)
    BY <1>1, <1>2 DEF NoticesAreSound, Ended
  <2> QED BY <1>1, <2>1, RequestEnds DEF Kept
<1>4. SoundRequests(asked)' /\ Kept' = Kept /\ (NoAll' => NoAll)
  BY <1>1, <1>2, <1>3, RequestsCarryOver DEF NoAll
<1>5. NoticesTyped' /\ (PlacesCountKept => PlacesCountKept')
  BY <1>1, <1>4 DEF NoticesAreSound, NoticesTyped, PlacesCountKept
<1>6. /\ \A j \in Notes!Slots : asked'[j].op = "page" => page'.open
      /\ page'.open /\ page'.loading => \E j \in Notes!Slots : asked'[j].op = "page"
  BY <1>1, <1>2, <1>3 DEF NoticesAreSound
<1> QED BY <1>4, <1>5, <1>6 DEF NoticesAreSound

LEMMA MarkedAllKeepsNotices ==
    ASSUME NoticesAreSound, NEW i \in Notes!Slots, Notes!DeliverAll(i)
    PROVE  NoticesAreSound'
<1> DEFINE again == page.open /\ page.filter = "unread"
           r == asked[i]
<1>1. /\ r.answer # NoOne /\ r.op = "all" /\ UNCHANGED <<notes, unread>>
      /\ header' = 0 /\ menu' = (IF menu = NoOne THEN NoOne ELSE 0)
      /\ stale' = IF r.crossed THEN Notes!Counts ELSE {}
      /\ page' = IF page.open THEN [page EXCEPT !.read = page.items, !.unread = 0, !.loading = @ \/ again,
                                                !.failed = @ /\ ~again]
                 ELSE page
  BY DEF Notes!DeliverAll
<1>2. \/ ~again /\ asked' = Notes!Rest(i)
      \/ again /\ \E j \in Notes!Slots : Notes!Ask(Notes!Rest(i), j) /\ asked' = Notes!Read(Notes!Rest(i), j, "page", "unread")
  BY DEF Notes!DeliverAll
<1>3. PICK q : q = Notes!Rest(i)
  OBVIOUS
<1>4. /\ SoundRequests(q) /\ q[i].op = "none" /\ \A j \in Notes!Slots \ {i} : q[j] = asked[j]
  <2>1. SoundRequests(asked) /\ q = Ended(asked, i)
    BY <1>3 DEF NoticesAreSound, Ended, Notes!Rest
  <2> QED BY <2>1, RequestEnds
<1>5. PICK after : after = asked'
  OBVIOUS
<1>6. "page" \in Notes!Reads
  BY DEF Notes!Reads, Notes!Counts
<1>7. /\ SoundRequests(after)
      /\ \A j \in Notes!Slots : (asked[j].op = "page" => after[j].op = "page")
                                /\ (after[j].op = "page" => asked[j].op = "page" \/ again)
      /\ again => \E j \in Notes!Slots : after[j].op = "page"
  <2>1. CASE ~again
    BY <1>1, <1>2, <1>3, <1>4, <1>5, <2>1
  <2>2. CASE again
    <3>1. PICK j \in Notes!Slots : Notes!Ask(q, j) /\ after = Notes!Read(q, j, "page", "unread")
      BY <1>2, <1>3, <1>5, <2>2
    <3>2. /\ SoundRequests(after) /\ after[j].op = "page" /\ \A k \in Notes!Slots \ {j} : after[k] = q[k]
      BY <1>4, <1>6, <3>1, ReadIsSent
    <3> QED BY <1>1, <1>4, <2>2, <3>2
  <2> QED BY <2>1, <2>2
<1>8. SoundRequests(asked)'
  BY <1>1, <1>5, <1>7, RequestsCarryOver
<1>9. /\ page'.open = page.open
      /\ page.open => /\ page'.loading = (page.loading \/ again) /\ page'.unread = 0
                      /\ page'.read = page'.items
  BY <1>1 DEF NoticesAreSound, NoticesTyped
<1>10. NoticesTyped'
  BY <1>1 DEF NoticesAreSound, NoticesTyped, Notes!Counts
<1>11. PlacesCountKept'
  <2>1. CASE r.crossed
    BY <1>1, <2>1 DEF PlacesCountKept, Notes!Counts
  <2>2. CASE ~r.crossed
    <3>1. unread = {}
      BY <1>1, <2>2 DEF NoticesAreSound, SoundRequests, SoundRequest
    <3>2. Kept' = {} /\ Cardinality(Kept') = 0
      BY <1>1, <3>1, FS_EmptySet DEF Kept, Unmarked
    <3> QED BY <1>1, <1>9, <3>2 DEF PlacesCountKept
  <2> QED BY <2>1, <2>2
<1>12. /\ \A j \in Notes!Slots : asked'[j].op = "page" => page'.open
       /\ page'.open /\ page'.loading => \E j \in Notes!Slots : asked'[j].op = "page"
  BY <1>5, <1>7, <1>9 DEF NoticesAreSound
<1> QED BY <1>8, <1>10, <1>11, <1>12 DEF NoticesAreSound

LEMMA FailuresKeepNotices ==
    ASSUME NoticesAreSound, NEW i \in Notes!Slots, Notes!Fail(i)
    PROVE  NoticesAreSound'
<1> DEFINE r == asked[i]
<1>1. /\ r.op # "none" /\ UNCHANGED <<notes, unread>> /\ asked' = [asked EXCEPT ![i] = Notes!None]
      /\ header' = IF r.op = "header" THEN 0 ELSE header
      /\ menu' = IF r.op = "menu" THEN NoOne ELSE menu
      /\ page' = IF r.op = "page" THEN [page EXCEPT !.loading = FALSE, !.failed = TRUE] ELSE page
      /\ stale' = stale \cup (IF r.op \in Notes!Reads THEN {r.op} ELSE Notes!Counts)
  BY DEF Notes!Fail, Notes!Rest
<1>2. PICK after : after = asked'
  OBVIOUS
<1>3. SoundRequests(after) /\ after[i].op = "none" /\ \A j \in Notes!Slots \ {i} : after[j] = asked[j]
  <2>1. SoundRequests(asked) /\ after = Ended(asked, i)
    BY <1>1, <1>2 DEF NoticesAreSound, Ended
  <2> QED BY <2>1, RequestEnds
<1>4. SoundRequests(asked)'
  BY <1>1, <1>2, <1>3, RequestsCarryOver
<1>5. /\ page'.open = page.open
      /\ r.op = "page" => page'.loading = FALSE
      /\ r.op # "page" => page' = page
  BY <1>1 DEF NoticesAreSound, NoticesTyped
<1>6. NoticesTyped'
  BY <1>1 DEF NoticesAreSound, NoticesTyped, Notes!Reads
<1>7. NoAll' => PlacesCountKept'
  <2>1. CASE r.op \notin Notes!Reads
    BY <1>1, <2>1 DEF PlacesCountKept, Notes!Counts
  <2>2. CASE r.op \in Notes!Reads
    <3>1. r.op \in {"header", "menu", "page"} /\ r.op # "read" /\ r.op # "all"
      BY <2>2 DEF Notes!Reads, Notes!Counts
    <3>2. Unmarked(after) = Kept
      <4>1. SoundRequests(asked) /\ after = Ended(asked, i)
        BY <1>1, <1>2 DEF NoticesAreSound, Ended
      <4> QED BY <3>1, <4>1, RequestEnds DEF Kept
    <3>3. Kept' = Kept /\ (NoAll' => NoAll)
      BY <1>1, <1>2, <1>3, <3>1, <3>2, RequestsCarryOver DEF NoAll
    <3>4. /\ r.op # "header" => header' = header
          /\ r.op # "menu" => menu' = menu
          /\ r.op \in stale' /\ stale \subseteq stale'
      BY <1>1, <2>2
    <3> QED BY <1>5, <3>1, <3>3, <3>4 DEF NoticesAreSound, PlacesCountKept
  <2> QED BY <2>1, <2>2
<1>8. \A j \in Notes!Slots : asked'[j].op = "page" => page'.open
  BY <1>2, <1>3, <1>5 DEF NoticesAreSound
<1>9. page'.open /\ page'.loading => \E j \in Notes!Slots : asked'[j].op = "page"
  BY <1>2, <1>3, <1>5 DEF NoticesAreSound
<1> QED BY <1>4, <1>6, <1>7, <1>8, <1>9 DEF NoticesAreSound

LEMMA NoticesStaySound ==
    ASSUME NoticesAreSound, Notes!Next
    PROVE  NoticesAreSound'
BY EnteringKeepsNotices, LeavingKeepsNotices, ChoosingKeepsNotices, MarkingKeepsNotices, MarkingAllKeepsNotices,
   ArrivalKeepsNotices, ServingKeepsNotices, CountsKeepNotices, MarksKeepNotices, MarkedAllKeepsNotices,
   FailuresKeepNotices DEF Notes!Next

-----------------------------------------------------------------------------
(* The parts together: each keeps what is sound about it, and rests while  *)
(* a behaviour is about another one.                                       *)

PartsAreSound ==
    /\ TopicsAreSound /\ CountersAreSound /\ GeneratorsHoldLock /\ GifsAreSound
    /\ FilesAreSafe /\ SavesAreCounted /\ PicturesAreSound /\ NoticesAreSound

LEMMA PartsSoundAtFirst == ContentInit => PartsAreSound
BY TopicsSoundAtFirst, CountersSoundAtFirst, LockFreeAtFirst, GifsSoundAtFirst, FilesSafeAtFirst, SavesCountedAtFirst,
   PicturesSoundAtFirst, NoticesSoundAtFirst DEF ContentInit, PartsAreSound

LEMMA PartsRest ==
    ASSUME PartsAreSound
    PROVE  /\ UNCHANGED topicVars => TopicsAreSound'
           /\ UNCHANGED limitVars => CountersAreSound'
           /\ UNCHANGED authoringVars => GeneratorsHoldLock'
           /\ UNCHANGED gifVars => GifsAreSound'
           /\ UNCHANGED fileVars => FilesAreSafe'
           /\ UNCHANGED draftVars => SavesAreCounted'
           /\ UNCHANGED avatarVars => PicturesAreSound'
           /\ UNCHANGED noteVars => NoticesAreSound'
<1>1. ASSUME UNCHANGED topicVars PROVE TopicsAreSound'
  BY <1>1, SoundTopicsStay DEF PartsAreSound, topicVars
<1>2. ASSUME UNCHANGED limitVars PROVE CountersAreSound'
  BY <1>2 DEF PartsAreSound, limitVars, CountersAreSound, LimitsTyped, PassedIsCounted, CooldownIsTaken, PassingSoon,
              Counting, PastCooldown, Limits!LockoutNeedsACrash, Limits!Key
<1>3. ASSUME UNCHANGED authoringVars PROVE GeneratorsHoldLock'
  BY <1>3 DEF PartsAreSound, authoringVars, GeneratorsHoldLock, HoldsLock, Authoring!Generating
<1>4. ASSUME UNCHANGED gifVars PROVE GifsAreSound'
  BY <1>4 DEF PartsAreSound, gifVars, GifsAreSound, GifsTyped, LocksAreHeld, CollectionsAgree, PaymentsAgree, HasGif, HasUsers
<1>5. ASSUME UNCHANGED fileVars PROVE FilesAreSafe'
  BY <1>5 DEF PartsAreSound, fileVars, FilesAreSafe, HasPlaces
<1>6. ASSUME UNCHANGED draftVars PROVE SavesAreCounted'
  BY <1>6 DEF PartsAreSound, draftVars, SavesAreCounted, RowsOf
<1>7. ASSUME UNCHANGED avatarVars PROVE PicturesAreSound'
  BY <1>7, SoundPicturesStay DEF PartsAreSound, avatarVars
<1>8. ASSUME UNCHANGED noteVars PROVE NoticesAreSound'
  BY <1>8, SoundNoticesStay DEF PartsAreSound, noteVars
<1> QED BY <1>1, <1>2, <1>3, <1>4, <1>5, <1>6, <1>7, <1>8

LEMMA PartsStaySound ==
    ASSUME PartsAreSound, [ContentNext]_contentVars
    PROVE  PartsAreSound'
<1>1. TopicsAreSound'
  <2>1. Lifecycle!Next \/ UNCHANGED topicVars
    BY Zenon DEF ContentNext, contentVars
  <2> QED BY <2>1, PartsRest, TopicsStaySound DEF PartsAreSound
<1>2. CountersAreSound'
  <2>1. Limits!Next \/ UNCHANGED limitVars
    BY Zenon DEF ContentNext, contentVars
  <2> QED BY <2>1, PartsRest, CountersStaySound DEF PartsAreSound
<1>3. GeneratorsHoldLock'
  <2>1. Authoring!Next \/ UNCHANGED authoringVars
    BY Zenon DEF ContentNext, contentVars
  <2> QED BY <2>1, PartsRest, GeneratorsKeepLock DEF PartsAreSound
<1>4. GifsAreSound'
  <2>1. GifRows!Next \/ UNCHANGED gifVars
    BY Zenon DEF ContentNext, contentVars
  <2> QED BY <2>1, PartsRest, GifsStaySound DEF PartsAreSound
<1>5. FilesAreSafe'
  <2>1. Files!Next \/ UNCHANGED fileVars
    BY Zenon DEF ContentNext, contentVars
  <2> QED BY <2>1, PartsRest, FilesStaySafe DEF PartsAreSound
<1>6. SavesAreCounted'
  <2>1. Saves!Next \/ UNCHANGED draftVars
    BY Zenon DEF ContentNext, contentVars
  <2> QED BY <2>1, PartsRest, SavesStayCounted DEF PartsAreSound
<1>7. PicturesAreSound'
  <2>1. Pictures!Next \/ UNCHANGED avatarVars
    BY Zenon DEF ContentNext, contentVars
  <2> QED BY <2>1, PartsRest, PicturesStaySound DEF PartsAreSound
<1>8. NoticesAreSound'
  <2>1. Notes!Next \/ UNCHANGED noteVars
    BY Zenon DEF ContentNext, contentVars
  <2> QED BY <2>1, PartsRest, NoticesStaySound DEF PartsAreSound
<1> QED BY <1>1, <1>2, <1>3, <1>4, <1>5, <1>6, <1>7, <1>8 DEF PartsAreSound

LEMMA PartsAreAlwaysSound == ContentSpec => []PartsAreSound
BY PartsSoundAtFirst, PartsStaySound, PTL DEF ContentSpec

(* The followers of an author hear of a topic once for each time it opens, *)
(* and with no request under way every place that counts the unread        *)
(* notifications of a member shows how many there are, for any number of   *)
(* topics and requests (publishEditorial, review, syncUnread).             *)
THEOREM TopicsAreToldOnce == ContentSpec => []FollowersToldOnce
<1>1. PartsAreSound => FollowersToldOnce
  BY SoundTopicsAreTold, SoundNoticesAgree DEF PartsAreSound, FollowersToldOnce
<1> QED BY <1>1, PartsAreAlwaysSound, PTL

(* The featured topics are the list that was saved last, unless two        *)
(* transactions of editors overlapped (setFeatured).                       *)
THEOREM FeaturedAreTheList == ContentSpec => []FeaturedIsOneList
<1>1. PartsAreSound => FeaturedIsOneList
  BY DEF PartsAreSound, TopicsAreSound
<1> QED BY <1>1, PartsAreAlwaysSound, PTL

(* No key passes more than its limit, nobody is locked out for good unless *)
(* a process died, rewards stay within the limits of a day, and only calls *)
(* that overlap pass the limit on drafts (rate-limit.service.ts,           *)
(* memes.service.ts recordUsage, drafts.service.ts).                       *)
THEOREM LimitsAreKept == ContentSpec => []LimitsHold
<1>1. PartsAreSound => LimitsHold
  BY SoundCountersLimit, SoundGifsSettle, CountedSavesKeepLimit DEF PartsAreSound, LimitsHold
<1> QED BY <1>1, PartsAreAlwaysSound, PTL

(* Of the generations of a session at most one is under way that has not   *)
(* gone into a second attempt (authoring.service.ts).                      *)
THEOREM OneGenerates == ContentSpec => []OneGeneratorWithoutRetries
<1>1. PartsAreSound => OneGeneratorWithoutRetries
  BY LockHoldersAreOne DEF PartsAreSound
<1> QED BY <1>1, PartsAreAlwaysSound, PTL

(* A GIF that is taken down is in no collection, its reports are resolved  *)
(* but for those that came late, and its counts are those of the rows      *)
(* (memes.service.ts takedown, collect, report).                           *)
THEOREM TakedownsAreSettled == ContentSpec => []TakedownsSettle
<1>1. PartsAreSound => TakedownsSettle
  BY SoundGifsSettle DEF PartsAreSound
<1> QED BY <1>1, PartsAreAlwaysSound, PTL

(* The clean-up of orphans takes no file of a row but that of an upload it *)
(* found old on its way, and the picture a member's row names is there     *)
(* unless its call failed after it wrote the row (meme-storage.service.ts, *)
(* avatar-storage.service.ts, member-center.service.ts).                   *)
THEOREM FilesAreThere == ContentSpec => []RowsHaveFiles
<1>1. PartsAreSound => RowsHaveFiles
  BY SafeFilesBelongToRows, SoundPicturesAreThere DEF PartsAreSound, RowsHaveFiles
<1> QED BY <1>1, PartsAreAlwaysSound, PTL
=============================================================================
