-------------------------- MODULE DemographicConsent --------------------------
(***************************************************************************)
(* The demographic profile of one user: consent to its analysis, the       *)
(* guardian's consent a minor needs (a code sent to the guardian's phone   *)
(* and kept in Redis, see DemographicProfilesService), and the snapshots   *)
(* of the profile that the user's votes leave behind                       *)
(* (TopicsService.createDemographicSnapshot).  update, remove and the end  *)
(* of verifyGuardianOtp are transactions under one advisory lock and each  *)
(* is one step; everything else interleaves.                               *)
(***************************************************************************)
EXTENDS Naturals, FiniteSets

CONSTANTS
    Phones,        \* phones of guardians
    Codes,         \* codes that may be drawn; bounds the number of codes sent
    Verifiers,     \* verifications in progress at once
    Votes,         \* votes of the user
    MaxSends,      \* codes sent in an hour (3)
    MaxTries,      \* verifications in five minutes (5)
    None           \* no profile, no row, no code, no phone

VARIABLES
    profile,       \* the row of user_demographic_profiles
    guardian,      \* the row of guardian_consents
    otp,           \* guardian:otp:<user>
    tries,         \* guardian:otp:attempts:<user>, MaxTries + 1 standing for anything above
    sends,         \* guardian:otp:<user>:h1, likewise
    sending,       \* the phone of a sendGuardianOtp in progress
    pc,            \* verification -> its next step
    entered,       \* verification -> the code and the phone typed in
    task,          \* vote -> the state of its createDemographicSnapshot
    snapshots,     \* votes with a row of vote_demographic_snapshots
    issued,        \* codes drawn so far
    uses,          \* code -> verifications that consumed it
    late           \* votes whose snapshot was being written at the last withdrawal

redis == <<otp, tries, sends, issued, uses>>
rows == <<profile, guardian>>
verification == <<pc, entered>>
snapshotting == <<task, snapshots, late>>
vars == <<profile, guardian, otp, tries, sends, sending, pc, entered, task, snapshots, issued, uses, late>>

Births == {"unknown", "minor", "adult"}      \* the age that follows from the birth date, today
Statuses == {"NOT_REQUIRED", "PENDING", "VERIFIED", "REVOKED"}
Profiles == [birth : Births, isMinor : BOOLEAN, consent : BOOLEAN, current : BOOLEAN, status : Statuses]
Guardians == [phone : Phones, current : BOOLEAN, revoked : BOOLEAN]
Otps == [code : Codes, phone : Phones]
Entries == [code : Codes, phone : Phones]

ASSUME ConsentAssumption ==
    /\ MaxSends \in Nat /\ MaxTries \in Nat
    /\ None \notin Phones \cup Codes \cup Profiles \cup Guardians \cup Otps

\* A minor's profile from before the present version of the consent, with its guardian.
LegacyProfile == [birth |-> "minor", isMinor |-> TRUE, consent |-> TRUE, current |-> FALSE, status |-> "VERIFIED"]
LegacyGuardian(p) == [phone |-> p, current |-> FALSE, revoked |-> FALSE]

Init ==
    /\ \/ profile = None /\ guardian = None
       \/ profile = LegacyProfile /\ guardian \in {LegacyGuardian(p) : p \in Phones}
    /\ otp = None /\ tries = 0 /\ sends = 0 /\ sending = None
    /\ pc = [v \in Verifiers |-> "idle"]
    /\ entered \in [Verifiers -> {None}]
    /\ task = [w \in Votes |-> "none"]
    /\ snapshots = {} /\ issued = {} /\ late = {}
    /\ uses = [c \in Codes |-> 0]

-----------------------------------------------------------------------------
(* The profile.                                                            *)

Consents == profile # None /\ profile.consent

\* requireMinorProfile
MinorConsents == Consents /\ profile.isMinor

GuardianVerified ==
    /\ profile # None /\ guardian # None
    /\ profile.status = "VERIFIED" /\ guardian.current /\ ~guardian.revoked

StatusAfter(birth, consent) ==
    CASE birth # "minor" -> "NOT_REQUIRED"
      [] birth = "minor" /\ ~consent -> "REVOKED"
      [] birth = "minor" /\ consent -> IF GuardianVerified THEN "VERIFIED" ELSE "PENDING"

\* Snapshots whose writer has already read the profile.
BeingWritten == {w \in Votes : task[w] = "insert"}

\* Leaves the snapshots of earlier votes.
ForgetNothing == late' = BeingWritten /\ UNCHANGED snapshots

Forget == late' = BeingWritten /\ snapshots' = {}

\* Consent needs a birth date, and is given to the present version.
Update(birth, consent) ==
    /\ consent => birth # "unknown"
    /\ profile' = [birth |-> birth, isMinor |-> birth = "minor", consent |-> consent, current |-> consent,
                   status |-> StatusAfter(birth, consent)]
    /\ guardian' = IF guardian # None /\ (~consent \/ birth # "minor")
                   THEN [guardian EXCEPT !.revoked = TRUE]
                   ELSE guardian
    /\ IF consent THEN UNCHANGED <<snapshots, late>> ELSE Forget
    /\ UNCHANGED <<redis, sending, verification, task>>

Remove ==
    /\ profile' = None /\ guardian' = None
    /\ Forget
    /\ UNCHANGED <<redis, sending, verification, task>>

\* The eighteenth birthday: the stored isMinor stays.
ComeOfAge ==
    /\ profile # None /\ profile.birth = "minor"
    /\ profile' = [profile EXCEPT !.birth = "adult"]
    /\ UNCHANGED <<guardian, redis, sending, verification, snapshotting>>

-----------------------------------------------------------------------------
(* sendGuardianOtp                                                         *)

Capped(n, limit) == IF n <= limit THEN n ELSE limit + 1

\* The profile is checked and the sending counted ...
StartSending(p) ==
    /\ sending = None
    /\ MinorConsents
    /\ sends' = Capped(sends + 1, MaxSends)
    /\ sending' = IF sends + 1 > MaxSends THEN None ELSE p
    /\ UNCHANGED <<rows, otp, tries, issued, uses, verification, snapshotting>>

\* ... before the code is drawn and stored, over an earlier one.
StoreCode(c) ==
    /\ sending # None
    /\ c \notin issued
    /\ otp' = [code |-> c, phone |-> sending]
    /\ issued' = issued \cup {c}
    /\ sending' = None
    /\ UNCHANGED <<rows, tries, sends, uses, verification, snapshotting>>

\* The keys expire.
ExpireCode == otp # None /\ otp' = None /\ UNCHANGED <<tries, sends>>
ExpireTries == tries > 0 /\ tries' = 0 /\ UNCHANGED <<otp, sends>>
ExpireSends == sends > 0 /\ sends' = 0 /\ UNCHANGED <<otp, tries>>
Expire ==
    /\ ExpireCode \/ ExpireTries \/ ExpireSends
    /\ UNCHANGED <<rows, sending, issued, uses, verification, snapshotting>>

-----------------------------------------------------------------------------
(* verifyGuardianOtp                                                       *)

Go(v, step) == pc' = [pc EXCEPT ![v] = step]
End(v) == Go(v, "idle") /\ entered' = [entered EXCEPT ![v] = None]

StartVerifying(v, entry) ==
    /\ pc[v] = "idle"
    /\ MinorConsents
    /\ Go(v, "count")
    /\ entered' = [entered EXCEPT ![v] = entry]
    /\ UNCHANGED <<rows, redis, sending, snapshotting>>

Count(v) ==
    /\ pc[v] = "count"
    /\ tries' = Capped(tries + 1, MaxTries)
    /\ Go(v, IF tries + 1 > MaxTries THEN "refuse" ELSE "compare")
    /\ UNCHANGED <<rows, otp, sends, issued, uses, sending, entered, snapshotting>>

\* Too many tries: the code is deleted.
Refuse(v) ==
    /\ pc[v] = "refuse"
    /\ otp' = None
    /\ End(v)
    /\ UNCHANGED <<rows, tries, sends, issued, uses, sending, snapshotting>>

Matches(v) == otp # None /\ otp.code = entered[v].code /\ otp.phone = entered[v].phone

Compare(v) ==
    /\ pc[v] = "compare"
    /\ IF Matches(v) THEN Go(v, "consume") /\ UNCHANGED entered ELSE End(v)
    /\ UNCHANGED <<rows, redis, sending, snapshotting>>

\* GET and DEL instead of the script: what another verification has consumed counts again.
StillThereAsRead(v) == pc[v] = "consume"

\* consumeIfMatches finds the value that was compared.
StillThere(v) == Matches(v)

Consume(v) ==
    /\ pc[v] = "consume"
    /\ IF StillThere(v)
       THEN /\ otp' = None
            /\ uses' = [uses EXCEPT ![entered[v].code] = @ + 1]
            /\ Go(v, "grant") /\ UNCHANGED entered
       ELSE End(v) /\ UNCHANGED <<otp, uses>>
    /\ UNCHANGED <<rows, tries, sends, issued, sending, snapshotting>>

\* The transaction trusts the check made when the request came in.
EligibleBefore == profile # None

Eligible == MinorConsents /\ profile.current

\* The transaction; it fails when the profile has changed, or for reasons of its own.
Grant(v) ==
    /\ pc[v] = "grant"
    /\ Eligible
    /\ guardian' = [phone |-> entered[v].phone, current |-> TRUE, revoked |-> FALSE]
    /\ profile' = [profile EXCEPT !.status = "VERIFIED"]
    /\ Go(v, "reset")
    /\ UNCHANGED <<redis, sending, entered, snapshotting>>

GrantFails(v) ==
    /\ pc[v] = "grant"
    /\ End(v)
    /\ UNCHANGED <<rows, redis, sending, snapshotting>>

Reset(v) ==
    /\ pc[v] = "reset"
    /\ tries' = 0
    /\ End(v)
    /\ UNCHANGED <<rows, otp, sends, issued, uses, sending, snapshotting>>

Verify(v) == Count(v) \/ Refuse(v) \/ Compare(v) \/ Consume(v) \/ Grant(v) \/ GrantFails(v) \/ Reset(v)

-----------------------------------------------------------------------------
(* createDemographicSnapshot, after the transaction of a vote.             *)

MayBeAnalysed == Consents /\ profile.current /\ profile.birth # "unknown" /\ (profile.isMinor => GuardianVerified)

Vote(w) ==
    /\ task[w] = "none"
    /\ task' = [task EXCEPT ![w] = "read"]
    /\ UNCHANGED <<rows, redis, sending, verification, snapshots, late>>

ReadProfile(w) ==
    /\ task[w] = "read"
    /\ task' = [task EXCEPT ![w] = IF MayBeAnalysed THEN "insert" ELSE "done"]
    /\ UNCHANGED <<rows, redis, sending, verification, snapshots, late>>

\* A failure, the vote having been withdrawn for one, is swallowed.
WriteSnapshot(w) ==
    /\ task[w] = "insert"
    /\ task' = [task EXCEPT ![w] = "done"]
    /\ snapshots' \in {snapshots, snapshots \cup {w}}
    /\ UNCHANGED <<rows, redis, sending, verification, late>>

Snapshot(w) == Vote(w) \/ ReadProfile(w) \/ WriteSnapshot(w)

Next ==
    \/ \E b \in Births, consent \in BOOLEAN : Update(b, consent)
    \/ Remove \/ ComeOfAge \/ Expire
    \/ \E p \in Phones : StartSending(p)
    \/ \E c \in Codes : StoreCode(c)
    \/ \E v \in Verifiers : Verify(v) \/ \E entry \in Entries : StartVerifying(v, entry)
    \/ \E w \in Votes : Snapshot(w)

Spec == Init /\ [][Next]_vars

-----------------------------------------------------------------------------
(* Properties.                                                             *)

TypeOK ==
    /\ profile \in Profiles \cup {None}
    /\ guardian \in Guardians \cup {None}
    /\ otp \in Otps \cup {None}
    /\ tries \in 0..(MaxTries + 1) /\ sends \in 0..(MaxSends + 1)
    /\ sending \in Phones \cup {None}
    /\ pc \in [Verifiers -> {"idle", "count", "refuse", "compare", "consume", "grant", "reset"}]
    /\ entered \in [Verifiers -> Entries \cup {None}]
    /\ task \in [Votes -> {"none", "read", "insert", "done"}]
    /\ snapshots \in SUBSET Votes /\ late \in SUBSET Votes
    /\ issued \in SUBSET Codes /\ uses \in [Codes -> Nat]

\* A minor counts as verified only while a guardian's consent to the same version stands and
\* the minor's own consent stands too, however withdrawals, new profiles and verifications
\* overlap (the status and the guardian's row are two tables).
VerifiedHasGuardian ==
    profile # None /\ profile.status = "VERIFIED" =>
        /\ profile.isMinor /\ profile.consent
        /\ guardian # None /\ ~guardian.revoked /\ guardian.current = profile.current

\* A code verifies once, also when it is entered twice at the same moment (consumeIfMatches).
CodesUsedOnce == \A c \in Codes : uses[c] <= 1

\* Without consent the only snapshots are those that were being written while the consent was
\* withdrawn or the profile deleted: the withdrawal has removed every other.
OnlyLateSnapshots == ~Consents => snapshots \subseteq late

\* "Withdrawing the consent or deleting the data deletes existing snapshots" (privacy.vue): no
\* snapshot is left without consent.
NoSnapshotWithoutConsent == ~Consents => snapshots = {}
=============================================================================
