---------------------------- MODULE AuthSession ----------------------------
(***************************************************************************)
(* A signed-in browser tab and auth-service: the API client that renews an *)
(* expired access token behind its requests, the rotation of refresh       *)
(* tokens in Redis, login and logout.  A token pair is named by the order  *)
(* in which it was issued; 0 stands for no tokens.                         *)
(***************************************************************************)
EXTENDS Integers

CONSTANTS
    Requests,   \* calls of apiRequest, each made at most once
    MaxLogins,  \* bound: logins in one behaviour
    MaxFaults   \* bound: broken connections, failures of auth-service, lapsed tokens

ASSUME SessionBounds == MaxLogins \in Nat /\ MaxFaults \in Nat

VARIABLES
    issued,     \* token pairs issued so far
    live,       \* pairs whose refresh token has its record in Redis
    expired,    \* pairs whose access token has expired
    memory,     \* the pair in the module variables of client.ts and in localStorage
    user,       \* AuthContext shows a signed-in user
    request,    \* request[r]: progress of call r
    refresh,    \* refresh[r]: the /auth/refresh call that r started
    logins,     \* logins so far
    faults      \* failures so far

tokenVars == <<issued, live, expired>>
clientVars == <<memory, user>>
vars == <<issued, live, expired, memory, user, request, refresh, logins, faults>>

Fault == faults < MaxFaults /\ faults' = faults + 1

Kind == {"call", "restore", "logout"}

\* phase "waiting": for the refresh that request `on` started.
Request == [kind : Kind, pair : Nat, revokes : Nat, on : Requests,
            phase : {"unused", "sent", "refused", "waiting", "resent", "accepted", "failing", "done", "dropped"}]
Refresh == [step : {"none", "sent", "read", "deleted", "issued", "rejected"},
            token : Nat, pair : Nat, awaited : BOOLEAN]
NoRefresh == [step |-> "none", token |-> 0, pair |-> 0, awaited |-> FALSE]

Init ==
    /\ issued = 0 /\ live = {} /\ expired = {}
    /\ memory = 0 /\ user = FALSE
    /\ request = [r \in Requests |->
            [kind |-> "call", pair |-> 0, revokes |-> 0, on |-> r, phase |-> "unused"]]
    /\ refresh = [r \in Requests |-> NoRefresh]
    /\ logins = 0
    /\ faults = 0

\* setTokens: clearing also tells AuthContext through the session listeners.
SetTokens(pair) == memory' = pair /\ user' = (user /\ pair # 0)

Phase(r, phase) == request' = [request EXCEPT ![r].phase = phase]
Running(r) == request[r].phase \notin {"unused", "done", "dropped"}

-----------------------------------------------------------------------------
(* AuthContext.                                                            *)

\* login or register: auth-service issues a pair, the tab keeps it.
Login ==
    /\ ~user
    /\ \A r \in Requests : request[r].kind = "restore" => ~Running(r)
    /\ logins < MaxLogins
    /\ logins' = logins + 1
    /\ issued' = issued + 1
    /\ live' = live \cup {issued + 1}
    /\ memory' = issued + 1 /\ user' = TRUE
    /\ UNCHANGED <<expired, request, refresh, faults>>

Send(r, kind, pair, revokes) ==
    /\ request[r].phase = "unused"
    /\ request' = [request EXCEPT
            ![r] = [@ EXCEPT !.kind = kind, !.pair = pair, !.revokes = revokes, !.phase = "sent"]]

\* A page of the signed-in user makes a call.
StartCall(r) ==
    /\ user
    /\ Send(r, "call", memory, 0)
    /\ UNCHANGED <<tokenVars, clientVars, refresh, logins, faults>>

\* The page is loaded anew: the calls of the old page are gone, and a session
\* found in localStorage is tried with getMe.  What runs in auth-service runs on.
Reload(r) ==
    /\ request[r].phase = "unused"
    /\ memory # 0
    /\ user' = FALSE
    /\ request' = [q \in Requests |->
            IF q = r THEN [request[q] EXCEPT !.kind = "restore", !.pair = memory, !.phase = "sent"]
            ELSE IF Running(q) THEN [request[q] EXCEPT !.phase = "dropped"] ELSE request[q]]
    /\ refresh' = [q \in Requests |-> [refresh[q] EXCEPT !.awaited = FALSE]]
    /\ UNCHANGED <<tokenVars, memory, logins, faults>>

\* logout revokes the refresh token it finds in localStorage now.
StartLogout(r) ==
    /\ user
    /\ \A q \in Requests : request[q].kind = "logout" => ~Running(q)
    /\ Send(r, "logout", memory, memory)
    /\ UNCHANGED <<tokenVars, clientVars, refresh, logins, faults>>

-----------------------------------------------------------------------------
(* The guard in front of every route, which only looks at the access token,*)
(* and auth-service.                                                       *)

Authorized(r) == request[r].pair # 0 /\ request[r].pair \notin expired

\* The server handles the call; logout deletes the record of the token it names.
Accept(r) ==
    /\ request[r].phase \in {"sent", "resent"}
    /\ Authorized(r)
    /\ live' = IF request[r].kind = "logout" THEN live \ {request[r].revokes} ELSE live
    /\ Phase(r, "accepted")
    /\ UNCHANGED <<issued, expired, clientVars, refresh, logins, faults>>

Refuse(r) ==
    /\ request[r].phase \in {"sent", "resent"}
    /\ ~Authorized(r)
    /\ Phase(r, IF request[r].phase = "sent" THEN "refused" ELSE "failing")
    /\ UNCHANGED <<tokenVars, clientVars, refresh, logins, faults>>

\* AuthService.refresh: GET, DEL, then SET of the new record.
ReadRecord(r) ==
    /\ refresh[r].step = "sent"
    /\ refresh' = [refresh EXCEPT
            ![r].step = IF refresh[r].token \in live THEN "read" ELSE "rejected"]
    /\ UNCHANGED <<tokenVars, clientVars, request, logins, faults>>

WithoutNone(token) == live
Without(token) == live \ {token}

DeleteRecord(r) ==
    /\ refresh[r].step = "read"
    /\ live' = Without(refresh[r].token)
    /\ refresh' = [refresh EXCEPT ![r].step = "deleted"]
    /\ UNCHANGED <<issued, expired, clientVars, request, logins, faults>>

IssuePair(r) ==
    /\ refresh[r].step = "deleted"
    /\ issued' = issued + 1
    /\ live' = live \cup {issued + 1}
    /\ refresh' = [refresh EXCEPT ![r].step = "issued", ![r].pair = issued + 1]
    /\ UNCHANGED <<expired, clientVars, request, logins, faults>>

\* A Redis call of the handler throws, or the process dies.
RefreshBreaks(r) ==
    /\ refresh[r].step \in {"sent", "read", "deleted"}
    /\ Fault
    /\ refresh' = [refresh EXCEPT ![r].step = "rejected"]
    /\ UNCHANGED <<tokenVars, clientVars, request, logins>>

\* The record of a refresh token reaches the end of its time to live.
Lapse(pair) ==
    /\ pair \in live
    /\ Fault
    /\ live' = live \ {pair}
    /\ UNCHANGED <<issued, expired, clientVars, request, refresh, logins>>

\* An access token expires, though not (15 minutes) before the call it was renewed for.
Expire(pair) ==
    /\ pair \in (1..issued) \ expired
    /\ \A r \in Requests :
        /\ request[r].phase = "resent" => request[r].pair # pair
        /\ refresh[r].awaited => refresh[r].pair # pair
    /\ expired' = expired \cup {pair}
    /\ UNCHANGED <<issued, live, clientVars, request, refresh, logins, faults>>

-----------------------------------------------------------------------------
(* client.ts: apiRequest and tryRefresh.                                   *)

\* refreshInFlight: the requests whose refresh is still awaited (one at most).
InFlight == {q \in Requests : refresh[q].awaited}
ShareableNever == {}
Shareable == InFlight

\* Request r awaits the refresh that q started.
WaitFor(r, q) == request' = [request EXCEPT ![r] = [@ EXCEPT !.phase = "waiting", !.on = q]]

\* A 401 on the first try: join the refresh in flight, start one, or give up.
OnUnauthorized(r) ==
    /\ request[r].phase = "refused"
    /\ \/ /\ memory = 0
          /\ Phase(r, "failing")
          /\ UNCHANGED refresh
       \/ /\ memory # 0
          /\ \E q \in Shareable : WaitFor(r, q)
          /\ UNCHANGED refresh
       \/ /\ memory # 0
          /\ Shareable = {}
          /\ WaitFor(r, r)
          /\ refresh' = [refresh EXCEPT ![r] =
                [step |-> "sent", token |-> memory, pair |-> 0, awaited |-> TRUE]]
    /\ UNCHANGED <<tokenVars, clientVars, logins, faults>>

SettleStarter(r, pair, phase) ==
    /\ refresh' = [refresh EXCEPT ![r].awaited = FALSE]
    /\ request' = [request EXCEPT ![r].phase = phase, ![r].pair = pair]

\* The promise of the refresh settles, and every request that awaits it goes on.
Settle(r, pair, phase) ==
    /\ refresh' = [refresh EXCEPT ![r].awaited = FALSE]
    /\ request' = [q \in Requests |->
            IF request[q].phase = "waiting" /\ request[q].on = r
            THEN [request[q] EXCEPT !.phase = phase, !.pair = pair] ELSE request[q]]

\* The new pair replaces whatever the tab has, and the requests are sent again.
RefreshSucceeds(r) ==
    /\ refresh[r].awaited
    /\ refresh[r].step = "issued"
    /\ SetTokens(refresh[r].pair)
    /\ Settle(r, refresh[r].pair, "resent")
    /\ UNCHANGED <<tokenVars, logins, faults>>

\* Refused, or no answer in time: the requests end with the 401 they have.
RefreshFails(r) ==
    /\ refresh[r].awaited
    /\ \/ refresh[r].step = "rejected" /\ UNCHANGED faults
       \/ Fault
    /\ Settle(r, 0, "failing")
    /\ UNCHANGED <<tokenVars, clientVars, logins>>

\* An accepted call answers; a restore shows its user, a logout clears the session.
Complete(r) ==
    /\ request[r].phase = "accepted"
    /\ Phase(r, "done")
    /\ \/ request[r].kind = "call" /\ UNCHANGED clientVars
       \/ request[r].kind = "restore" /\ user' = TRUE /\ UNCHANGED memory
       \/ request[r].kind = "logout" /\ SetTokens(0)
    /\ UNCHANGED <<tokenVars, refresh, logins, faults>>

\* The body of a final 401 is read: the session is cleared, whichever it is by now.
FailCall(r) ==
    /\ request[r].phase = "failing"
    /\ Phase(r, "done")
    /\ SetTokens(0)
    /\ UNCHANGED <<tokenVars, refresh, logins, faults>>

\* No answer, or one that is not a 401: only a logout clears the session.
CallBreaks(r) ==
    /\ request[r].phase \in {"sent", "resent", "accepted"}
    /\ Fault
    /\ Phase(r, "done")
    /\ IF request[r].kind = "logout" THEN SetTokens(0) ELSE UNCHANGED clientVars
    /\ UNCHANGED <<tokenVars, refresh, logins>>

ClientStep(r) ==
    \/ StartCall(r) \/ Reload(r) \/ StartLogout(r) \/ OnUnauthorized(r)
    \/ RefreshSucceeds(r) \/ RefreshFails(r) \/ Complete(r) \/ FailCall(r) \/ CallBreaks(r)
ServerStep(r) ==
    Accept(r) \/ Refuse(r) \/ ReadRecord(r) \/ DeleteRecord(r) \/ IssuePair(r) \/ RefreshBreaks(r)

Next ==
    \/ Login
    \/ \E r \in Requests : ClientStep(r) \/ ServerStep(r)
    \/ \E pair \in 1..issued : Lapse(pair) \/ Expire(pair)

\* Calls are answered or time out; the user need do nothing and no token need expire.
Fairness ==
    \A r \in Requests :
        /\ WF_vars(Accept(r)) /\ WF_vars(Refuse(r))
        /\ WF_vars(ReadRecord(r)) /\ WF_vars(DeleteRecord(r)) /\ WF_vars(IssuePair(r))
        /\ WF_vars(OnUnauthorized(r)) /\ WF_vars(RefreshSucceeds(r)) /\ WF_vars(RefreshFails(r))
        /\ WF_vars(Complete(r)) /\ WF_vars(FailCall(r))

Spec == Init /\ [][Next]_vars
FairSpec == Spec /\ Fairness

-----------------------------------------------------------------------------
(* Properties.                                                             *)

\* Every variable has its shape.
TypeOK ==
    /\ issued \in Nat /\ live \in SUBSET (1..issued) /\ expired \in SUBSET (1..issued)
    /\ memory \in 0..issued /\ user \in BOOLEAN
    /\ request \in [Requests -> Request]
    /\ refresh \in [Requests -> Refresh]
    /\ logins \in 0..MaxLogins /\ faults \in 0..MaxFaults

\* All requests that meet an expired token share one refresh, and each of them waits
\* for one that will settle: none is left behind by a refresh that is already over.
RefreshIsShared ==
    /\ \A q, r \in InFlight : q = r
    /\ \A r \in Requests : request[r].phase = "waiting" => request[r].on \in InFlight

\* The page shows a user only while it has tokens to call with.
UserHasTokens == user => memory # 0

\* While a page is being restored nothing else runs in it; a pair exists before it is kept.
RestoresAlone ==
    \A r \in Requests : request[r].kind = "restore" /\ Running(r) =>
        /\ ~user /\ memory # 0
        /\ \A q \in Requests \ {r} : ~Running(q) /\ q \notin InFlight
PairsAreIssued ==
    \A r \in Requests :
        /\ refresh[r].pair <= issued
        /\ refresh[r].step = "issued" => refresh[r].pair # 0

\* Tab, calls and refreshes agree: the inductive invariant of the session.
SessionInv ==
    TypeOK /\ RefreshIsShared /\ RestoresAlone /\ PairsAreIssued /\ UserHasTokens

Undisturbed == faults = 0 /\ \A r \in Requests : request[r].kind = "call"

\* As long as nothing fails, nobody logs out and the page stays, the tab's refresh
\* token is live or being rotated by the one refresh in flight, ...
SessionUsable ==
    Undisturbed /\ logins > 0 =>
        \/ memory \in live
        \/ \E r \in InFlight :
            refresh[r].step \in {"read", "deleted", "issued"} /\ refresh[r].token = memory

\* ... so however many calls meet the expired token at once, no user is signed out, ...
NeverSignedOut == Undisturbed /\ logins > 0 => user /\ memory # 0

\* ... and rotation leaves no other live token behind.
NoTokenLeftBehind ==
    Undisturbed => live \subseteq {memory} \cup {refresh[r].pair : r \in InFlight}

\* Every call of the client ends, also when the refresh it waits for gets no answer.
EveryCallEnds == \A r \in Requests : Running(r) ~> ~Running(r)

(* What the repository says of the client and the code does not do.        *)

LoggedOut == \E r \in Requests : request[r].kind = "logout" /\ request[r].phase = "done"

\* AuthContext: logout makes "the call that revokes the refresh token"; with one
\* login and no failure no live token should remain once it has answered.
LogoutRevokes == LoggedOut /\ logins = 1 /\ faults = 0 => live = {}

\* AuthContext again: "the client-side session is cleared either way below"; so once a
\* logout has returned, and nobody has signed in since, the tab has no tokens.
LogoutClears == LoggedOut /\ logins = 1 /\ faults = 0 => memory = 0
=============================================================================
