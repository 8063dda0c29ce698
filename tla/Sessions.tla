------------------------------ MODULE Sessions ------------------------------
(***************************************************************************)
(* Who the web client takes its user for (see stores/auth.ts, useApi.ts,   *)
(* plugins/auth.client.ts, app.vue and DevIdentitySwitcher.vue): the token *)
(* and the capabilities in the store, the session in localStorage, the     *)
(* test identity in sessionStorage, and the requests whose answers arrive  *)
(* when the identity may have changed.  A 401 to any request ends the      *)
(* session or the test identity that is in the store when it arrives.      *)
(*                                                                         *)
(* One page of one browser.  "failed" is every answer but 401 that is an   *)
(* error: a timeout, a suspended account, a limit that is used up.         *)
(***************************************************************************)
EXTENDS Policy, Bags

CONSTANTS
    Users, Nobody,
    Population,                  \* the rows the accounts may start with, by user; Nobody for none yet
    MaxPending, MaxSent,         \* bound requests at a time and in all
    MaxChanges                   \* bounds changes to the accounts

VARIABLES
    account,   \* the rows of the database
    expired,   \* tokens that have expired
    client,    \* the store and the storages of the browser
    requests,  \* on their way to the API or back
    sent, changes

vars == <<account, expired, client, requests, sent, changes>>

Newcomer == [admin |-> FALSE, senior |-> FALSE, days |-> 0, votes |-> 0, team |-> {}, organizations |-> {}]
Token(user, profile) == [user |-> user, profile |-> profile]
Authed(c) == c.token # Nobody

(***************************************************************************)
(* The store.                                                              *)
(***************************************************************************)
Blank == [token |-> Nobody, summary |-> Nobody, assuming |-> FALSE, kept |-> Nobody, session |-> Nobody]

\* A test identity in sessionStorage goes before the session in localStorage.
Restore(c) ==
    IF c.session # Nobody
    THEN [c EXCEPT !.token = c.session.of, !.summary = c.session, !.assuming = TRUE]
    ELSE [c EXCEPT !.token = IF c.kept = Nobody THEN Nobody ELSE Token(c.kept, "none"),
                   !.summary = Nobody, !.assuming = FALSE]

\* Capabilities outlive the session they were read in.
SetSessionOnly(c, user) == [Blank EXCEPT !.token = Token(user, "none"), !.kept = user, !.summary = c.summary]
SetSession(c, user) == [Blank EXCEPT !.token = Token(user, "none"), !.kept = user]
SetCapabilities(c, summary) == [c EXCEPT !.summary = summary]
BeginAssumption(c, summary) ==
    [c EXCEPT !.token = summary.of, !.summary = summary, !.assuming = TRUE, !.session = summary]
EndAssumption(c) == Restore([c EXCEPT !.session = Nobody])
Clear(c) == Blank

\* The end of a test identity, too, ends the session.
OnRefusedClear(c) == IF ~Authed(c) THEN c ELSE Clear(c)

\* What a 401 does, whichever request it answers.
OnRefused(c) == IF ~Authed(c) THEN c ELSE IF c.assuming THEN EndAssumption(c) ELSE Clear(c)

(***************************************************************************)
(* Requests.                                                               *)
(***************************************************************************)
Request(kind, token, about) == SetToBag({[kind |-> kind, token |-> token, about |-> about]})
Asked(kind) == \E r \in BagToSet(requests) : r.kind = kind

Send(kind, about) ==
    /\ ~Asked("start") /\ sent < MaxSent /\ BagCardinality(requests) < MaxPending
    /\ requests' = requests (+) Request(kind, client.token, about)
    /\ sent' = sent + 1
    /\ UNCHANGED <<account, expired, client, changes>>

\* The client becomes c; when there is another identity (changed), or one where there was none, the
\* page asks for its capabilities and for the number of its notifications.
Become(c, pending, changed) ==
    /\ client' = c
    /\ IF Authed(c) /\ (changed \/ ~Authed(client))
       THEN /\ BagCardinality(pending) + 2 <= MaxPending /\ sent + 2 <= MaxSent
            /\ requests' = pending (+) Request("capabilities", c.token, Nobody) (+) Request("other", c.token, Nobody)
            /\ sent' = sent + 2
       ELSE requests' = pending /\ sent' = sent
    /\ UNCHANGED <<expired, changes>>

(***************************************************************************)
(* What the user does.                                                     *)
(***************************************************************************)
Login(user) == Send("login", user)
Register(user) == Send("register", user)
Logout == Authed(client) /\ ~Asked("start") /\ Become(Clear(client), requests, FALSE) /\ UNCHANGED account
Browse == Authed(client) /\ Send("other", Nobody)
LoadCapabilities == Authed(client) /\ Send("capabilities", Nobody)
Assume(profile) ==
    /\ Authed(client) /\ ~client.assuming /\ account[client.token.user].admin
    /\ ~Asked("assume") /\ Send("assume", profile)
Stop == client.assuming /\ Send("release", Nobody)

\* The page is loaded anew: what its requests answer is lost, and the plugin asks who the user is
\* before the application starts.
Reload ==
    /\ sent < MaxSent
    /\ client' = Restore(client)
    /\ requests' = IF Authed(client') THEN Request("start", client'.token, Nobody) ELSE EmptyBag
    /\ sent' = sent + 1
    /\ UNCHANGED <<account, expired, changes>>

(***************************************************************************)
(* The answers.  What the API did at some moment before an answer arrives  *)
(* is part of the step in which it does.                                   *)
(***************************************************************************)
\* A test identity lasts as long as its operator is an administrator.
Invalid(token) == token \in expired \/ (token.profile # "none" /\ ~account[token.user].admin)

Outcomes(r) ==
    {"failed"} \cup IF r.kind = "login" THEN {"refused"} \cup (IF account[r.about] = Nobody THEN {} ELSE {"ok"})
                    ELSE IF r.kind = "register" THEN IF account[r.about] = Nobody THEN {"ok"} ELSE {}
                    ELSE IF Invalid(r.token) THEN {"refused"}
                    ELSE IF r.kind = "assume" /\ ~account[r.token.user].admin THEN {} ELSE {"ok"}

Summary(row, token) ==
    [of |-> token, at |-> Evaluated(row, token.profile), says |-> Capabilities(row, token.profile), late |-> FALSE]

After(outcome) == IF outcome = "refused" THEN OnRefused(client) ELSE client
Rest(r) == requests (-) SetToBag({r})

\* Whatever goes wrong while the client starts ends the session.
DeliverStart(r, outcome) ==
    /\ r.kind = "start" /\ UNCHANGED account
    /\ Become(IF outcome = "ok" THEN client ELSE Clear(After(outcome)), Rest(r), TRUE)

DeliverLogin(r, outcome) ==
    /\ r.kind = "login" /\ UNCHANGED account
    /\ Become(IF outcome = "ok" THEN SetSession(client, r.about) ELSE After(outcome), Rest(r), FALSE)

DeliverRegister(r, outcome) ==
    /\ r.kind = "register"
    /\ account' = IF outcome = "ok" THEN [account EXCEPT ![r.about] = Newcomer] ELSE account
    /\ Become(IF outcome = "ok" THEN SetSession(client, r.about) ELSE After(outcome), Rest(r), FALSE)

\* To be asked is what promotes to senior member.
DeliverCapabilities(r, outcome) ==
    /\ r.kind = "capabilities"
    /\ IF outcome = "ok"
       THEN LET u == r.token.user IN
            /\ account' = [account EXCEPT ![u] = Evaluated(@, r.token.profile)]
            /\ Become(SetCapabilities(client, [Summary(account[u], r.token) EXCEPT !.late = r.token # client.token]),
                      Rest(r), FALSE)
       ELSE Become(After(outcome), Rest(r), FALSE) /\ UNCHANGED account

DeliverAssume(r, outcome) ==
    /\ r.kind = "assume" /\ UNCHANGED account
    /\ IF outcome = "ok"
       THEN Become(BeginAssumption(client, Summary(account[r.token.user], Token(r.token.user, r.about))), Rest(r), TRUE)
       ELSE Become(After(outcome), Rest(r), FALSE)

\* However the API answers, the own session is restored.
DeliverRelease(r, outcome) ==
    r.kind = "release" /\ Become(EndAssumption(After(outcome)), Rest(r), TRUE) /\ UNCHANGED account

DeliverOther(r, outcome) == r.kind = "other" /\ Become(After(outcome), Rest(r), FALSE) /\ UNCHANGED account

(***************************************************************************)
(* What happens meanwhile.                                                 *)
(***************************************************************************)
Expire(token) ==
    /\ token \notin expired /\ changes < MaxChanges
    /\ expired' = expired \cup {token} /\ changes' = changes + 1
    /\ UNCHANGED <<account, client, requests, sent>>

\* An account votes, withdraws a vote, grows older, or loses its assignments or memberships.
Change(user) ==
    /\ account[user] # Nobody /\ changes < MaxChanges
    /\ \E row \in {[account[user] EXCEPT !.votes = @ + 1], [account[user] EXCEPT !.votes = IF @ = 0 THEN 0 ELSE @ - 1],
                   [account[user] EXCEPT !.days = @ + 1], [account[user] EXCEPT !.team = {}],
                   [account[user] EXCEPT !.organizations = {}]} :
           row # account[user] /\ account' = [account EXCEPT ![user] = row]
    /\ changes' = changes + 1
    /\ UNCHANGED <<expired, client, requests, sent>>

Init ==
    /\ account \in {a \in [Users -> UNION {Population[u] : u \in Users}] : \A u \in Users : a[u] \in Population[u]}
    /\ client \in {Blank} \cup {SetSession(Blank, u) : u \in {v \in Users : account[v] # Nobody}}
    /\ expired = {} /\ requests = EmptyBag /\ sent = 0 /\ changes = 0

Next ==
    \/ \E u \in Users : Login(u) \/ Register(u) \/ Change(u)
    \/ Logout \/ Browse \/ LoadCapabilities \/ Stop \/ Reload
    \/ \E p \in Profiles : Assume(p)
    \/ Authed(client) /\ Expire(client.token)
    \/ \E r \in BagToSet(requests) : \E outcome \in Outcomes(r) :
           \/ DeliverStart(r, outcome) \/ DeliverLogin(r, outcome) \/ DeliverRegister(r, outcome)
           \/ DeliverCapabilities(r, outcome) \/ DeliverAssume(r, outcome) \/ DeliverRelease(r, outcome)
           \/ DeliverOther(r, outcome)

-----------------------------------------------------------------------------
\* What the pages offer is what the API grants to the token they send, as long as the account is what
\* it was when the API was asked, unless the answer arrived after the identity had changed; and a test
\* identity never falls back on the role of its operator.
OffersAreGranted ==
    Authed(client) =>
        IF client.summary = Nobody THEN client.token.profile = "none" ELSE
        client.summary.late \/
            /\ client.summary.of = client.token
            /\ LET row == account[client.token.user]
               IN  row = client.summary.at => OffersWhatIsGranted(row, client.token.profile, client.summary.says)

\* A session that is kept in the browser is given up by its user, by a start that fails, or by a 401:
\* to a request of that session, or to one that was sent as somebody else.  The end of a test identity,
\* which such a request may come after, leads back to the session of its operator.
EndsForCause ==
    client.kept # Nobody /\ client'.kept = Nobody =>
        \A r \in BagToSet(requests (-) requests') :
            \/ r.kind \in {"start", "login"}
            \/ Invalid(r.token) /\ (r.token.profile = "none" \/ r.token # client.token)
=============================================================================
