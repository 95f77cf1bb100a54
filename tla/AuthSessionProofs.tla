------------------------- MODULE AuthSessionProofs -------------------------
(***************************************************************************)
(* Theorems about AuthSession for any set of requests and any number of    *)
(* logins and failures, and their proofs.                                  *)
(***************************************************************************)
EXTENDS AuthSession, TLAPS

Phases == {"unused", "sent", "refused", "waiting", "resent", "accepted", "failing", "done", "dropped"}

\* What the updates of a request's record give.
LEMMA RestoreFields ==
    ASSUME NEW q \in Request, NEW t \in Nat
    PROVE  /\ [q EXCEPT !.kind = "restore", !.pair = t, !.phase = "sent"] \in Request
           /\ [q EXCEPT !.kind = "restore", !.pair = t, !.phase = "sent"].kind = "restore"
           /\ [q EXCEPT !.kind = "restore", !.pair = t, !.phase = "sent"].phase = "sent"
  <1>1. "restore" \in Kind
    BY DEF Kind
  <1> QED BY <1>1 DEF Request

LEMMA WaitFields ==
    ASSUME NEW q \in Request, NEW o \in Requests
    PROVE  /\ [q EXCEPT !.phase = "waiting", !.on = o] \in Request
           /\ [q EXCEPT !.phase = "waiting", !.on = o].phase = "waiting"
           /\ [q EXCEPT !.phase = "waiting", !.on = o].on = o
           /\ [q EXCEPT !.phase = "waiting", !.on = o].kind = q.kind
           /\ [q EXCEPT !.phase = "waiting", !.on = o].pair = q.pair
  BY DEF Request

\* A refused request awaits the refresh of q.
LEMMA WaitStep ==
    ASSUME TypeOK, NEW r \in Requests, NEW q \in Requests, WaitFor(r, q)
    PROVE  /\ request' \in [Requests -> Request]
           /\ request'[r].phase = "waiting" /\ request'[r].on = q
           /\ request'[r].kind = request[r].kind
           /\ \A s \in Requests \ {r} : request'[s] = request[s]
  <1> DEFINE new == [request[r] EXCEPT !.phase = "waiting", !.on = q]
  <1>1. request[r] \in Request
    BY DEF TypeOK
  <1>2. new \in Request /\ new.phase = "waiting" /\ new.on = q /\ new.kind = request[r].kind
    BY <1>1, WaitFields
  <1>3. request' = [request EXCEPT ![r] = new]
    BY DEF WaitFor
  <1> HIDE DEF new
  <1> QED BY <1>2, <1>3 DEF TypeOK

\* A request that only changes its phase keeps its kind and its tokens.
LEMMA PhaseStep ==
    ASSUME TypeOK, NEW r \in Requests, NEW p \in Phases, Phase(r, p)
    PROVE  /\ request' \in [Requests -> Request]
           /\ request'[r].phase = p
           /\ \A q \in Requests :
                /\ request'[q].kind = request[q].kind /\ request'[q].on = request[q].on
                /\ request'[q].pair = request[q].pair
                /\ q # r => request'[q] = request[q]
  BY DEF TypeOK, Request, Phase, Phases

\* A request is sent for the first time.
LEMMA SendStep ==
    ASSUME TypeOK, NEW r \in Requests, NEW k \in Kind, NEW t \in Nat, NEW u \in Nat, Send(r, k, t, u)
    PROVE  /\ request' \in [Requests -> Request]
           /\ request[r].phase = "unused"
           /\ request'[r].phase = "sent" /\ request'[r].kind = k
           /\ \A q \in Requests \ {r} : request'[q] = request[q]
  <1> DEFINE new == [request[r] EXCEPT !.kind = k, !.pair = t, !.revokes = u, !.phase = "sent"]
  <1>1. request[r] \in Request
    BY DEF TypeOK
  <1>2. new \in Request /\ new.phase = "sent" /\ new.kind = k
    BY <1>1 DEF Request
  <1>3. request' = [request EXCEPT ![r] = new] /\ request[r].phase = "unused"
    BY DEF Send
  <1> HIDE DEF new
  <1> QED BY <1>2, <1>3 DEF TypeOK

\* A refresh moves on in auth-service; only its own pair can change.
LEMMA RefreshStep ==
    ASSUME TypeOK, NEW r \in Requests,
           NEW s \in {"none", "sent", "read", "deleted", "issued", "rejected"},
           refresh' = [refresh EXCEPT ![r].step = s]
    PROVE  /\ refresh' \in [Requests -> Refresh]
           /\ refresh'[r].step = s
           /\ InFlight' = InFlight
           /\ \A q \in Requests :
                /\ refresh'[q].token = refresh[q].token /\ refresh'[q].pair = refresh[q].pair
                /\ refresh'[q].awaited = refresh[q].awaited
                /\ q # r => refresh'[q] = refresh[q]
  <1>1. refresh' \in [Requests -> Refresh]
    BY DEF TypeOK, Refresh
  <1>2. \A q \in Requests :
            /\ refresh'[q].token = refresh[q].token /\ refresh'[q].pair = refresh[q].pair
            /\ refresh'[q].awaited = refresh[q].awaited
            /\ q # r => refresh'[q] = refresh[q]
    BY DEF TypeOK, Refresh
  <1>3. refresh'[r].step = s
    BY DEF TypeOK, Refresh
  <1> QED BY <1>1, <1>2, <1>3 DEF InFlight

\* A refresh is no longer awaited, and all requests that waited for it go on.
LEMMA SettleStep ==
    ASSUME TypeOK, NEW r \in Requests, NEW t \in Nat, NEW p \in Phases, Settle(r, t, p)
    PROVE  /\ request' \in [Requests -> Request]
           /\ refresh' \in [Requests -> Refresh]
           /\ InFlight' = InFlight \ {r}
           /\ \A q \in Requests :
                /\ request'[q].kind = request[q].kind
                /\ refresh'[q].step = refresh[q].step /\ refresh'[q].token = refresh[q].token
                /\ refresh'[q].pair = refresh[q].pair
                /\ IF request[q].phase = "waiting" /\ request[q].on = r
                   THEN request'[q].phase = p /\ request'[q].pair = t
                   ELSE request'[q] = request[q]
  <1>1. request' \in [Requests -> Request]
    BY DEF TypeOK, Request, Settle, Phases
  <1>2. refresh' \in [Requests -> Refresh]
    BY DEF TypeOK, Refresh, Settle
  <1>3. \A q \in Requests :
            /\ request'[q].kind = request[q].kind
            /\ IF request[q].phase = "waiting" /\ request[q].on = r
               THEN request'[q].phase = p /\ request'[q].pair = t
               ELSE request'[q] = request[q]
    BY DEF TypeOK, Request, Settle
  <1>4. \A q \in Requests :
            /\ refresh'[q].step = refresh[q].step /\ refresh'[q].token = refresh[q].token
            /\ refresh'[q].pair = refresh[q].pair
            /\ refresh'[q].awaited = (refresh[q].awaited /\ q # r)
    BY DEF TypeOK, Refresh, Settle
  <1> QED BY <1>1, <1>2, <1>3, <1>4 DEF InFlight

-----------------------------------------------------------------------------
\* SessionInv is inductive.

LEMMA SessionInit == Init => SessionInv
  <1> SUFFICES ASSUME Init PROVE SessionInv
    OBVIOUS
  <1>a. \A r \in Requests : [kind |-> "call", pair |-> 0, revokes |-> 0, on |-> r, phase |-> "unused"] \in Request
    BY DEF Request, Kind
  <1>b. NoRefresh \in Refresh
    BY DEF Refresh, NoRefresh
  <1>c. request \in [Requests -> Request] /\ refresh \in [Requests -> Refresh]
    BY <1>a, <1>b DEF Init
  <1>d. /\ issued \in Nat /\ live \in SUBSET (1..issued) /\ expired \in SUBSET (1..issued)
        /\ memory \in 0..issued /\ logins \in 0..MaxLogins /\ faults \in 0..MaxFaults
    BY SessionBounds DEF Init
  <1>e. user \in BOOLEAN
    BY Zenon DEF Init
  <1>1. TypeOK
    BY <1>c, <1>d, <1>e DEF TypeOK
  <1>2. InFlight = {}
    BY DEF Init, InFlight, NoRefresh
  <1>3. \A r \in Requests : ~Running(r) /\ request[r].phase = "unused"
    BY DEF Init, Running
  <1>4. RefreshIsShared /\ RestoresAlone
    BY <1>2, <1>3 DEF RefreshIsShared, RestoresAlone
  <1>5. PairsAreIssued /\ UserHasTokens
    BY DEF Init, NoRefresh, PairsAreIssued, UserHasTokens
  <1> QED BY <1>1, <1>4, <1>5 DEF SessionInv

\* A step that changes only the phase of one running request, to one in which it waits for nothing.
LEMMA PhaseKeepsSession ==
    ASSUME SessionInv, NEW r \in Requests, NEW p \in Phases \ {"waiting", "unused"}, Phase(r, p), Running(r),
           UNCHANGED <<issued, memory, user, refresh, logins>>,
           live' \in SUBSET (1..issued), UNCHANGED expired,
           faults' \in 0..MaxFaults
    PROVE  SessionInv'
  <1> USE DEF SessionInv
  <1>1. /\ request' \in [Requests -> Request]
        /\ request'[r].phase = p
        /\ \A q \in Requests :
             /\ request'[q].kind = request[q].kind /\ request'[q].on = request[q].on
             /\ q # r => request'[q] = request[q]
    BY PhaseStep
  <1>2. TypeOK'
    BY <1>1 DEF TypeOK
  <1>3. InFlight' = InFlight
    BY DEF InFlight
  <1>4. RefreshIsShared'
    BY <1>1, <1>3 DEF RefreshIsShared
  <1>5. \A q \in Requests : Running(q)' => Running(q)
    BY <1>1 DEF Running
  <1>6. RestoresAlone'
    BY <1>1, <1>3, <1>5 DEF RestoresAlone
  <1>7. PairsAreIssued' /\ UserHasTokens'
    BY DEF PairsAreIssued, UserHasTokens
  <1> QED BY <1>2, <1>4, <1>6, <1>7

\* A refresh that moves on in auth-service disturbs no request.
LEMMA RefreshKeepsSession ==
    ASSUME SessionInv, NEW r \in Requests, NEW s \in {"read", "deleted", "rejected"},
           refresh[r].step # "issued",
           refresh' = [refresh EXCEPT ![r].step = s],
           UNCHANGED <<issued, expired, memory, user, request, logins>>,
           live' \in SUBSET (1..issued), faults' \in 0..MaxFaults
    PROVE  SessionInv'
  <1> USE DEF SessionInv
  <1>1. /\ refresh' \in [Requests -> Refresh]
        /\ refresh'[r].step = s
        /\ InFlight' = InFlight
        /\ \A q \in Requests :
             /\ refresh'[q].pair = refresh[q].pair
             /\ q # r => refresh'[q] = refresh[q]
    BY RefreshStep
  <1>2. TypeOK'
    BY <1>1 DEF TypeOK
  <1>3. RefreshIsShared' /\ RestoresAlone'
    BY <1>1 DEF RefreshIsShared, RestoresAlone, Running
  <1>4. PairsAreIssued'
    BY <1>1 DEF PairsAreIssued
  <1>5. UserHasTokens'
    BY DEF UserHasTokens
  <1> QED BY <1>2, <1>3, <1>4, <1>5

\* A running request ends, and the tab may lose its tokens or show its user.
LEMMA EndKeepsSession ==
    ASSUME SessionInv, NEW r \in Requests, Phase(r, "done"), Running(r),
           UNCHANGED <<issued, live, expired, refresh, logins>>,
           memory' \in 0..issued, user' \in BOOLEAN, UserHasTokens',
           faults' \in 0..MaxFaults
    PROVE  SessionInv'
  <1> USE DEF SessionInv
  <1>1. /\ request' \in [Requests -> Request]
        /\ request'[r].phase = "done"
        /\ \A q \in Requests : q # r => request'[q] = request[q]
    BY PhaseStep DEF Phases
  <1>2. TypeOK'
    BY <1>1 DEF TypeOK
  <1>3. InFlight' = InFlight
    BY DEF InFlight
  <1>4. RefreshIsShared'
    BY <1>1, <1>3 DEF RefreshIsShared
  <1>5. \A q \in Requests : Running(q)' => Running(q) /\ q # r /\ request'[q] = request[q]
    BY <1>1 DEF Running
  <1>6. RestoresAlone'
    BY <1>5 DEF RestoresAlone
  <1>7. PairsAreIssued'
    BY DEF PairsAreIssued
  <1> QED BY <1>2, <1>4, <1>6, <1>7

\* An awaited refresh settles, and the requests that waited for it go on.
LEMMA SettleKeepsSession ==
    ASSUME SessionInv, NEW r \in Requests, NEW t \in Nat, NEW p \in {"resent", "failing"},
           Settle(r, t, p), refresh[r].awaited,
           UNCHANGED <<issued, live, expired, logins>>,
           memory' \in 0..issued, memory # 0 => memory' # 0, user' = user,
           faults' \in 0..MaxFaults
    PROVE  SessionInv'
  <1> USE DEF SessionInv
  <1>1. /\ request' \in [Requests -> Request]
        /\ refresh' \in [Requests -> Refresh]
        /\ InFlight' = InFlight \ {r}
        /\ \A q \in Requests :
             /\ request'[q].kind = request[q].kind
             /\ refresh'[q].step = refresh[q].step /\ refresh'[q].pair = refresh[q].pair
             /\ IF request[q].phase = "waiting" /\ request[q].on = r
                THEN request'[q].phase = p /\ request'[q].pair = t
                ELSE request'[q] = request[q]
    BY SettleStep DEF Phases
  <1>2. TypeOK'
    BY <1>1 DEF TypeOK
  <1>3. r \in InFlight
    BY DEF InFlight
  <1>4. \A q \in Requests : request'[q].phase # "waiting"
    BY <1>1, <1>3 DEF RefreshIsShared
  <1>5. RefreshIsShared'
    BY <1>1, <1>4 DEF RefreshIsShared
  <1>6. \A q \in Requests : Running(q)' => Running(q)
    BY <1>1 DEF Running
  <1>7. RestoresAlone'
    BY <1>1, <1>6 DEF RestoresAlone
  <1>8. PairsAreIssued' /\ UserHasTokens'
    BY <1>1 DEF PairsAreIssued, UserHasTokens
  <1> QED BY <1>2, <1>5, <1>7, <1>8

\* A signed-in user starts a call or a logout.
LEMMA SendKeepsSession ==
    ASSUME SessionInv, NEW r \in Requests, NEW k \in {"call", "logout"}, NEW u \in Nat,
           user, Send(r, k, memory, u),
           UNCHANGED <<tokenVars, clientVars, refresh, logins, faults>>
    PROVE  SessionInv'
  <1> USE DEF SessionInv, tokenVars, clientVars
  <1>1. memory \in Nat /\ k \in Kind
    BY DEF TypeOK, Kind
  <1>2. /\ request' \in [Requests -> Request]
        /\ request[r].phase = "unused"
        /\ request'[r].phase = "sent" /\ request'[r].kind = k
        /\ \A q \in Requests \ {r} : request'[q] = request[q]
    BY <1>1, SendStep
  <1>3. TypeOK'
    BY <1>2 DEF TypeOK
  <1>4. InFlight' = InFlight
    BY DEF InFlight
  <1>5. RefreshIsShared'
    BY <1>2, <1>4 DEF RefreshIsShared
  <1>6. \A q \in Requests : ~(request'[q].kind = "restore" /\ Running(q)')
    BY <1>2 DEF RestoresAlone, Running
  <1>7. RestoresAlone'
    BY <1>6 DEF RestoresAlone
  <1>8. PairsAreIssued' /\ UserHasTokens'
    BY DEF PairsAreIssued, UserHasTokens
  <1> QED BY <1>3, <1>5, <1>7, <1>8

\* A reload leaves nothing running but its restore.
LEMMA ReloadKeepsSession ==
    ASSUME SessionInv, NEW r \in Requests, Reload(r)
    PROVE  SessionInv'
  <1> USE DEF SessionInv
  <1>a. memory \in Nat
    BY DEF TypeOK
  <1>b. memory # 0 /\ ~user' /\ user' \in BOOLEAN
    BY Zenon DEF Reload
  <1>1. memory \in Nat /\ memory # 0 /\ ~user' /\ user' \in BOOLEAN
    BY <1>a, <1>b, Zenon
  <1>2. UNCHANGED <<issued, live, expired, memory, logins, faults>>
    BY DEF Reload, tokenVars
  <1>3. /\ request' \in [Requests -> Request]
        /\ request'[r].phase = "sent" /\ request'[r].kind = "restore"
        /\ \A q \in Requests \ {r} : request'[q].phase \in {"unused", "done", "dropped"}
    <2>1. request[r] \in Request
      BY DEF TypeOK
    <2>2. \A q \in Requests : [request[q] EXCEPT !.phase = "dropped"] \in Request
      BY DEF TypeOK, Request
    <2>3. \A q \in Requests : [request[q] EXCEPT !.phase = "dropped"].phase = "dropped"
      BY DEF TypeOK, Request
    <2> DEFINE new == [request[r] EXCEPT !.kind = "restore", !.pair = memory, !.phase = "sent"]
    <2>4. new \in Request /\ new.phase = "sent" /\ new.kind = "restore"
      BY <1>1, <2>1, RestoreFields
    <2>5. request' = [q \in Requests |->
            IF q = r THEN new
            ELSE IF Running(q) THEN [request[q] EXCEPT !.phase = "dropped"] ELSE request[q]]
      BY DEF Reload
    <2> HIDE DEF new
    <2> QED BY <2>2, <2>3, <2>4, <2>5 DEF Running, TypeOK
  <1>4. /\ refresh' \in [Requests -> Refresh]
        /\ \A q \in Requests :
             /\ refresh'[q].step = refresh[q].step /\ refresh'[q].pair = refresh[q].pair
             /\ ~refresh'[q].awaited
    BY DEF Reload, TypeOK, Refresh
  <1>5. InFlight' = {}
    BY <1>4 DEF InFlight
  <1>6. TypeOK'
    BY <1>1, <1>2, <1>3, <1>4 DEF TypeOK
  <1>7. RefreshIsShared'
    BY <1>3, <1>5 DEF RefreshIsShared
  <1>8. RestoresAlone'
    BY <1>1, <1>2, <1>3, <1>5 DEF RestoresAlone, Running
  <1>9. PairsAreIssued' /\ UserHasTokens'
    BY <1>1, <1>2, <1>4 DEF PairsAreIssued, UserHasTokens
  <1> QED BY <1>6, <1>7, <1>8, <1>9

\* A refused request joins the refresh in flight or starts the only one.
LEMMA OnUnauthorizedKeepsSession ==
    ASSUME SessionInv, NEW r \in Requests, OnUnauthorized(r)
    PROVE  SessionInv'
  <1> USE DEF SessionInv
  <1>1. request[r].phase = "refused" /\ Running(r)
    BY DEF OnUnauthorized, Running
  <1>2. UNCHANGED <<issued, live, expired, memory, user, logins, faults>>
    BY DEF OnUnauthorized, tokenVars, clientVars
  <1>3. CASE memory = 0 /\ Phase(r, "failing") /\ UNCHANGED refresh
    <2>1. faults' \in 0..MaxFaults /\ live' \in SUBSET (1..issued)
      BY <1>2 DEF TypeOK
    <2> QED BY <1>1, <1>2, <1>3, <2>1, PhaseKeepsSession DEF Phases
  <1>4. CASE \E q \in InFlight \cup {r} :
                /\ WaitFor(r, q)
                /\ \/ q \in InFlight /\ UNCHANGED refresh
                   \/ /\ q = r /\ InFlight = {}
                      /\ refresh' = [refresh EXCEPT ![r] =
                            [step |-> "sent", token |-> memory, pair |-> 0, awaited |-> TRUE]]
    <2> PICK q \in InFlight \cup {r} :
                /\ WaitFor(r, q)
                /\ \/ q \in InFlight /\ UNCHANGED refresh
                   \/ /\ q = r /\ InFlight = {}
                      /\ refresh' = [refresh EXCEPT ![r] =
                            [step |-> "sent", token |-> memory, pair |-> 0, awaited |-> TRUE]]
      BY <1>4
    <2>1. q \in Requests
      BY DEF InFlight
    <2>2. /\ request' \in [Requests -> Request]
          /\ request'[r].phase = "waiting" /\ request'[r].on = q
          /\ request'[r].kind = request[r].kind
          /\ \A s \in Requests \ {r} : request'[s] = request[s]
      BY <2>1, WaitStep
    <2> DEFINE fresh == [step |-> "sent", token |-> memory, pair |-> 0, awaited |-> TRUE]
    <2>a. fresh \in Refresh /\ fresh.step = "sent" /\ fresh.pair = 0 /\ fresh.awaited
      BY DEF TypeOK, Refresh
    <2>b. refresh' = refresh \/ (q = r /\ InFlight = {} /\ refresh' = [refresh EXCEPT ![r] = fresh])
      OBVIOUS
    <2> HIDE DEF fresh
    <2>3. /\ refresh' \in [Requests -> Refresh]
          /\ \A s \in Requests : s # r => refresh'[s] = refresh[s]
          /\ \/ refresh' = refresh
             \/ /\ q = r /\ InFlight = {}
                /\ refresh'[r].step = "sent" /\ refresh'[r].pair = 0 /\ refresh'[r].awaited
      BY <2>a, <2>b DEF TypeOK
    <2>5. \/ InFlight' = InFlight /\ q \in InFlight
          \/ InFlight = {} /\ InFlight' = {r} /\ q = r
      <3>1. CASE UNCHANGED refresh /\ q \in InFlight
        BY <3>1 DEF InFlight
      <3>2. CASE q = r /\ InFlight = {} /\ refresh' = [refresh EXCEPT ![r] = fresh]
        BY <3>2, <2>a DEF InFlight, TypeOK
      <3> QED BY <3>1, <3>2 DEF fresh
    <2>4. q \in InFlight'
      BY <2>5
    <2>6. TypeOK'
      BY <1>2, <2>2, <2>3 DEF TypeOK
    <2>7. RefreshIsShared'
      BY <2>2, <2>4, <2>5 DEF RefreshIsShared
    <2>8. \A s \in Requests : Running(s)' <=> Running(s)
      BY <1>1, <2>2 DEF Running
    <2>9. RestoresAlone'
      BY <1>1, <1>2, <2>2, <2>5, <2>8 DEF RestoresAlone
    <2>10. PairsAreIssued'
      BY <1>2, <2>3 DEF PairsAreIssued, TypeOK
    <2>11. UserHasTokens'
      BY <1>2 DEF UserHasTokens
    <2> QED BY <2>6, <2>7, <2>9, <2>10, <2>11
  <1>5. \/ memory = 0 /\ Phase(r, "failing") /\ UNCHANGED refresh
        \/ \E q \in InFlight \cup {r} :
                /\ WaitFor(r, q)
                /\ \/ q \in InFlight /\ UNCHANGED refresh
                   \/ /\ q = r /\ InFlight = {}
                      /\ refresh' = [refresh EXCEPT ![r] =
                            [step |-> "sent", token |-> memory, pair |-> 0, awaited |-> TRUE]]
    BY DEF OnUnauthorized, Shareable
  <1> QED BY <1>3, <1>4, <1>5

\* auth-service stores and answers a new pair.
LEMMA IssuePairKeepsSession ==
    ASSUME SessionInv, NEW r \in Requests, IssuePair(r)
    PROVE  SessionInv'
  <1> USE DEF SessionInv
  <1>1. /\ issued' = issued + 1 /\ live' = live \cup {issued + 1}
        /\ UNCHANGED <<expired, memory, user, request, logins, faults>>
    BY DEF IssuePair, clientVars
  <1>2. /\ refresh' \in [Requests -> Refresh]
        /\ refresh'[r].pair = issued + 1
        /\ \A q \in Requests :
             /\ refresh'[q].awaited = refresh[q].awaited
             /\ q # r => refresh'[q] = refresh[q]
    <2>1. issued + 1 \in Nat
      BY DEF TypeOK
    <2> DEFINE n == issued + 1
    <2>2. refresh' = [refresh EXCEPT ![r].step = "issued", ![r].pair = n] /\ n \in Nat
      BY <2>1 DEF IssuePair
    <2> HIDE DEF n
    <2>3. refresh \in [Requests -> Refresh]
      BY DEF TypeOK
    <2>4. refresh' = [refresh EXCEPT ![r] = [refresh[r] EXCEPT !.step = "issued", !.pair = n]]
      BY <2>2, <2>3
    <2> DEFINE new == [refresh[r] EXCEPT !.step = "issued", !.pair = n]
    <2>5. refresh[r] \in Refresh
      BY <2>3
    <2>6. new \in Refresh /\ new.pair = n /\ new.awaited = refresh[r].awaited
      BY <2>2, <2>5 DEF Refresh
    <2> HIDE DEF new
    <2>7. refresh'[r].pair = n
      BY <2>3, <2>4, <2>6 DEF new
    <2> QED BY <2>3, <2>4, <2>6, <2>7 DEF new, n
  <1>3. TypeOK'
    BY <1>1, <1>2 DEF TypeOK
  <1>4. InFlight' = InFlight
    BY <1>2 DEF InFlight
  <1>5. RefreshIsShared' /\ RestoresAlone' /\ UserHasTokens'
    BY <1>1, <1>4 DEF RefreshIsShared, RestoresAlone, Running, UserHasTokens
  <1>6. PairsAreIssued'
    BY <1>1, <1>2 DEF PairsAreIssued, TypeOK, Refresh
  <1> QED BY <1>3, <1>5, <1>6

\* A user without a session logs in.
LEMMA LoginKeepsSession == SessionInv /\ Login => SessionInv'
  <1> SUFFICES ASSUME SessionInv, Login PROVE SessionInv'
    OBVIOUS
  <1> USE DEF SessionInv
  <1>1. /\ logins < MaxLogins /\ logins' = logins + 1
        /\ issued' = issued + 1 /\ live' = live \cup {issued + 1}
        /\ memory' = issued + 1
        /\ UNCHANGED <<expired, request, refresh, faults>>
        /\ \A r \in Requests : request[r].kind = "restore" => ~Running(r)
    BY DEF Login
  <1>2. user' \in BOOLEAN
    BY Zenon DEF Login
  <1>3. TypeOK'
    BY <1>1, <1>2, SessionBounds DEF TypeOK
  <1>4. InFlight' = InFlight /\ \A r \in Requests : Running(r)' = Running(r)
    BY <1>1 DEF InFlight, Running
  <1>5. RefreshIsShared' /\ RestoresAlone'
    BY <1>1, <1>4 DEF RefreshIsShared, RestoresAlone
  <1>6. PairsAreIssued' /\ UserHasTokens'
    BY <1>1 DEF PairsAreIssued, UserHasTokens, TypeOK, Refresh
  <1> QED BY <1>3, <1>5, <1>6

\* A token that lapses or expires changes nothing in the tab.
LEMMA TokensKeepSession ==
    ASSUME SessionInv, UNCHANGED <<issued, memory, user, request, refresh, logins>>,
           live' \in SUBSET (1..issued), expired' \in SUBSET (1..issued), faults' \in 0..MaxFaults
    PROVE  SessionInv'
  <1> USE DEF SessionInv
  <1>1. TypeOK'
    BY DEF TypeOK
  <1>2. InFlight' = InFlight /\ \A r \in Requests : Running(r)' = Running(r)
    BY DEF InFlight, Running
  <1>3. RefreshIsShared' /\ RestoresAlone' /\ PairsAreIssued' /\ UserHasTokens'
    BY <1>2 DEF RefreshIsShared, RestoresAlone, PairsAreIssued, UserHasTokens
  <1> QED BY <1>1, <1>3

\* A failure is counted within its bound.
LEMMA FaultBounded == TypeOK /\ Fault => faults' \in 0..MaxFaults
  BY SessionBounds DEF TypeOK, Fault

\* Every step of a request in the tab keeps the invariant.
LEMMA ClientKeepsSession ==
    ASSUME SessionInv, NEW r \in Requests, ClientStep(r)
    PROVE  SessionInv'
  <1>t. TypeOK /\ UserHasTokens /\ PairsAreIssued
    BY DEF SessionInv
  <1>0. faults \in 0..MaxFaults /\ memory \in 0..issued /\ issued \in Nat /\ live \in SUBSET (1..issued)
    BY <1>t DEF TypeOK
  <1>b. user \in BOOLEAN
    BY <1>t, Zenon DEF TypeOK
  <1>1. CASE StartCall(r)
    BY <1>1, SendKeepsSession DEF StartCall
  <1>2. CASE Reload(r)
    BY <1>2, ReloadKeepsSession
  <1>3. CASE StartLogout(r)
    <2>1. memory \in Nat
      BY <1>0
    <2> QED BY <1>3, <2>1, SendKeepsSession DEF StartLogout
  <1>4. CASE OnUnauthorized(r)
    BY <1>4, OnUnauthorizedKeepsSession
  <1>5. CASE RefreshSucceeds(r)
    <2>1. /\ refresh[r].awaited /\ Settle(r, refresh[r].pair, "resent")
          /\ memory' = refresh[r].pair
          /\ UNCHANGED <<issued, live, expired, logins, faults>>
      BY <1>5 DEF RefreshSucceeds, SetTokens, tokenVars
    <2>2. refresh[r].pair \in Nat /\ refresh[r].pair <= issued /\ refresh[r].pair # 0
      BY <1>5, <1>t DEF RefreshSucceeds, PairsAreIssued, TypeOK, Refresh
    <2>3. user' = user
      <3>1. user' = (user /\ refresh[r].pair # 0)
        BY <1>5, Zenon DEF RefreshSucceeds, SetTokens
      <3>2. user' = (user /\ TRUE)
        BY <3>1, <2>2, Zenon
      <3> QED BY <3>2, <1>b, Zenon
    <2>4. memory' \in 0..issued /\ memory' # 0
      BY <2>1, <2>2, <1>0
    <2> QED BY <2>1, <2>2, <2>3, <2>4, <1>0, SettleKeepsSession
  <1>6. CASE RefreshFails(r)
    <2>1. faults' \in 0..MaxFaults
      BY <1>6, <1>0, <1>t, FaultBounded DEF RefreshFails
    <2> QED BY <1>6, <2>1, <1>0, SettleKeepsSession DEF RefreshFails, tokenVars, clientVars
  <1>7. CASE Complete(r)
    <2>1. /\ request[r].phase = "accepted" /\ Running(r) /\ Phase(r, "done")
          /\ UNCHANGED <<issued, live, expired, refresh, logins, faults>>
      BY <1>7 DEF Complete, Running, tokenVars
    <2>2. \/ UNCHANGED clientVars
          \/ request[r].kind = "restore" /\ user' = TRUE /\ UNCHANGED memory
          \/ SetTokens(0)
      BY <1>7 DEF Complete
    <2>3. memory' \in 0..issued
      BY <2>2, <1>0 DEF clientVars, SetTokens
    <2>4. user' \in BOOLEAN
      <3>1. UNCHANGED clientVars => user' \in BOOLEAN
        BY <1>b, Zenon DEF clientVars
      <3>2. user' = TRUE => user' \in BOOLEAN
        BY Zenon
      <3>3. SetTokens(0) => user' \in BOOLEAN
        BY <1>b, Zenon DEF SetTokens
      <3> QED BY <2>2, <3>1, <3>2, <3>3, Zenon
    <2>5. UserHasTokens'
      <3>1. UNCHANGED clientVars => UserHasTokens'
        BY <1>t DEF clientVars, UserHasTokens
      <3>2. request[r].kind = "restore" /\ UNCHANGED memory => UserHasTokens'
        BY <2>1 DEF SessionInv, RestoresAlone, UserHasTokens
      <3>3. SetTokens(0) => UserHasTokens'
        BY DEF SetTokens, UserHasTokens
      <3> QED BY <2>2, <3>1, <3>2, <3>3
    <2> QED BY <2>1, <2>3, <2>4, <2>5, <1>0, EndKeepsSession
  <1>8. CASE FailCall(r)
    <2>1. /\ Running(r) /\ Phase(r, "done") /\ memory' = 0
          /\ UNCHANGED <<issued, live, expired, refresh, logins, faults>>
      BY <1>8 DEF FailCall, Running, SetTokens, tokenVars
    <2>2. ~user' /\ user' \in BOOLEAN
      <3>1. user' = (user /\ 0 # 0)
        BY <1>8, Zenon DEF FailCall, SetTokens
      <3> QED BY <3>1, Zenon
    <2>3. UserHasTokens'
      BY <2>2, Zenon DEF UserHasTokens
    <2> QED BY <2>1, <2>2, <2>3, <1>0, EndKeepsSession
  <1>9. CASE CallBreaks(r)
    <2>1. /\ Running(r) /\ Phase(r, "done")
          /\ UNCHANGED <<issued, live, expired, refresh, logins>>
          /\ SetTokens(0) \/ UNCHANGED clientVars
      BY <1>9 DEF CallBreaks, Running, tokenVars
    <2>2. user' \in BOOLEAN
      BY <2>1, <1>b, Zenon DEF SetTokens, clientVars
    <2>3. memory' \in 0..issued /\ UserHasTokens'
      <3>1. UNCHANGED clientVars => memory' \in 0..issued /\ UserHasTokens'
        BY <1>t, <1>0 DEF clientVars, UserHasTokens
      <3>2. SetTokens(0) => memory' \in 0..issued
        BY <1>0 DEF SetTokens
      <3>3. SetTokens(0) => UserHasTokens'
        BY DEF SetTokens, UserHasTokens
      <3> QED BY <2>1, <3>1, <3>2, <3>3
    <2>4. faults' \in 0..MaxFaults
      BY <1>9, <1>t, FaultBounded DEF CallBreaks
    <2> QED BY <2>1, <2>2, <2>3, <2>4, EndKeepsSession
  <1> QED BY <1>1, <1>2, <1>3, <1>4, <1>5, <1>6, <1>7, <1>8, <1>9 DEF ClientStep

\* Every step of the guard and of auth-service keeps the invariant.
LEMMA ServerKeepsSession ==
    ASSUME SessionInv, NEW r \in Requests, ServerStep(r)
    PROVE  SessionInv'
  <1>t. TypeOK
    BY DEF SessionInv
  <1>0. faults \in 0..MaxFaults /\ live \in SUBSET (1..issued)
    BY <1>t DEF TypeOK
  <1>1. CASE Accept(r)
    <2>1. /\ Running(r) /\ Phase(r, "accepted") /\ live' \in SUBSET (1..issued)
          /\ UNCHANGED <<issued, expired, memory, user, refresh, logins, faults>>
      BY <1>1, <1>0 DEF Accept, Running, clientVars
    <2> QED BY <2>1, <1>0, PhaseKeepsSession DEF Phases
  <1>2. CASE Refuse(r)
    <2>1. /\ Running(r) /\ (Phase(r, "refused") \/ Phase(r, "failing"))
          /\ UNCHANGED <<issued, live, expired, memory, user, refresh, logins, faults>>
      BY <1>2 DEF Refuse, Running, tokenVars, clientVars
    <2> QED BY <2>1, <1>0, PhaseKeepsSession DEF Phases
  <1>3. CASE ReadRecord(r)
    <2>1. \E s \in {"read", "rejected"} : refresh' = [refresh EXCEPT ![r].step = s]
      BY <1>3 DEF ReadRecord
    <2>2. /\ refresh[r].step # "issued"
          /\ UNCHANGED <<issued, live, expired, memory, user, request, logins, faults>>
      BY <1>3 DEF ReadRecord, tokenVars, clientVars
    <2> QED BY <2>1, <2>2, <1>0, RefreshKeepsSession
  <1>4. CASE DeleteRecord(r)
    <2>1. /\ refresh[r].step # "issued" /\ refresh' = [refresh EXCEPT ![r].step = "deleted"]
          /\ live' \in SUBSET (1..issued)
          /\ UNCHANGED <<issued, expired, memory, user, request, logins, faults>>
      BY <1>4, <1>0 DEF DeleteRecord, Without, clientVars
    <2> QED BY <2>1, <1>0, RefreshKeepsSession
  <1>5. CASE IssuePair(r)
    BY <1>5, IssuePairKeepsSession
  <1>6. CASE RefreshBreaks(r)
    <2>1. /\ refresh[r].step # "issued" /\ refresh' = [refresh EXCEPT ![r].step = "rejected"]
          /\ UNCHANGED <<issued, live, expired, memory, user, request, logins>>
      BY <1>6 DEF RefreshBreaks, tokenVars, clientVars
    <2>2. faults' \in 0..MaxFaults
      BY <1>6, <1>t, FaultBounded DEF RefreshBreaks
    <2> QED BY <2>1, <2>2, <1>0, RefreshKeepsSession
  <1> QED BY <1>1, <1>2, <1>3, <1>4, <1>5, <1>6 DEF ServerStep

LEMMA SessionStep == SessionInv /\ [Next]_vars => SessionInv'
  <1> SUFFICES ASSUME SessionInv, [Next]_vars PROVE SessionInv'
    OBVIOUS
  <1>t. TypeOK
    BY DEF SessionInv
  <1>0. /\ faults \in 0..MaxFaults /\ live \in SUBSET (1..issued) /\ expired \in SUBSET (1..issued)
    BY <1>t DEF TypeOK
  <1>1. CASE Login
    BY <1>1, LoginKeepsSession
  <1>2. CASE \E r \in Requests : ClientStep(r) \/ ServerStep(r)
    BY <1>2, ClientKeepsSession, ServerKeepsSession
  <1>3. ASSUME NEW pair \in 1..issued, Lapse(pair)
        PROVE  SessionInv'
    <2>1. /\ live' \in SUBSET (1..issued)
          /\ UNCHANGED <<issued, expired, memory, user, request, refresh, logins>>
      BY <1>3, <1>0 DEF Lapse, clientVars
    <2>2. faults' \in 0..MaxFaults
      BY <1>3, <1>t, FaultBounded DEF Lapse
    <2> QED BY <2>1, <2>2, <1>0, TokensKeepSession
  <1>4. ASSUME NEW pair \in 1..issued, Expire(pair)
        PROVE  SessionInv'
    <2>1. /\ expired' \in SUBSET (1..issued)
          /\ UNCHANGED <<issued, live, memory, user, request, refresh, logins, faults>>
      BY <1>4, <1>0 DEF Expire, clientVars
    <2> QED BY <2>1, <1>0, TokensKeepSession
  <1>5. CASE UNCHANGED vars
    BY <1>5, <1>0, TokensKeepSession DEF vars
  <1> QED BY <1>1, <1>2, <1>3, <1>4, <1>5 DEF Next

\* Whatever fails and however often the page is reloaded, the requests that meet an expired
\* token wait for one shared refresh that will settle, and a page that is restored runs alone.
THEOREM SessionInvariant == Spec => []SessionInv
  BY SessionInit, SessionStep, PTL DEF Spec

-----------------------------------------------------------------------------
(* While nothing fails and nobody logs out or reloads, one refresh at a    *)
(* time carries the session from one pair to the next.                     *)

\* The pair that refresh r is to replace, at each step of AuthService.refresh.
Rotating(r) ==
    /\ refresh[r].token = memory
    /\ refresh[r].step \in {"sent", "read", "deleted", "issued"}
    /\ refresh[r].step \in {"sent", "read"} => live = {memory} /\ refresh[r].pair = 0
    /\ refresh[r].step = "deleted" => live = {} /\ refresh[r].pair = 0
    /\ refresh[r].step = "issued" => live = {refresh[r].pair} /\ refresh[r].pair \notin expired

\* No call has met a failure, and one that is sent again has a pair that has not expired.
Unfailing(r) ==
    /\ request[r].phase \notin {"failing", "dropped"}
    /\ request[r].phase = "resent" => request[r].pair # 0 /\ request[r].pair \notin expired
    /\ ~refresh[r].awaited => refresh[r].step \in {"none", "issued"}

Rotation ==
    /\ logins = 0 => /\ ~user /\ memory = 0 /\ live = {} /\ InFlight = {}
                     /\ \A r \in Requests : request[r].phase = "unused"
    /\ logins > 0 => user
    /\ logins > 0 /\ InFlight = {} => live = {memory}
    /\ \A r \in InFlight : Rotating(r)
    /\ \A r \in Requests : Unfailing(r)

UnusedAreCalls == \A r \in Requests : request[r].phase = "unused" => request[r].kind = "call"

RotationInv == UnusedAreCalls /\ (Undisturbed => Rotation)

LEMMA RotationInit == Init => RotationInv
  <1> SUFFICES ASSUME Init PROVE RotationInv
    OBVIOUS
  <1>1. /\ logins = 0 /\ memory = 0 /\ live = {}
        /\ \A r \in Requests : request[r].phase = "unused" /\ request[r].kind = "call"
        /\ \A r \in Requests : refresh[r].step = "none"
    BY DEF Init, NoRefresh
  <1>2. InFlight = {}
    BY DEF Init, InFlight, NoRefresh
  <1>3. ~user
    BY Zenon DEF Init
  <1> QED BY <1>1, <1>2, <1>3 DEF RotationInv, UnusedAreCalls, Rotation, Unfailing

\* A request keeps its kind once it is sent, and failures are never forgotten.
LEMMA KindsKept ==
    ASSUME SessionInv, UnusedAreCalls, Next
    PROVE  UnusedAreCalls' /\ (Undisturbed' => Undisturbed)
  <1>t. TypeOK
    BY DEF SessionInv
  <1> DEFINE Keeps(q) == \/ /\ request'[q].kind = request[q].kind
                            /\ request'[q].phase = "unused" => request[q].phase = "unused"
                         \/ request[q].phase = "unused" /\ request'[q].phase # "unused"
  <1>1. ASSUME NEW r \in Requests, ClientStep(r) \/ ServerStep(r)
        PROVE  \A q \in Requests : Keeps(q)
    <2>1. ASSUME NEW p \in Phases \ {"unused"}, Phase(r, p)
          PROVE  \A q \in Requests : Keeps(q)
      BY <2>1, <1>t, PhaseStep
    <2>2. ASSUME NEW t \in Nat, NEW p \in {"resent", "failing"}, Settle(r, t, p)
          PROVE  \A q \in Requests : Keeps(q)
      <3>1. \A q \in Requests :
              /\ request'[q].kind = request[q].kind
              /\ request'[q].phase = p \/ request'[q] = request[q]
        BY <2>2, <1>t, SettleStep DEF Phases
      <3> QED BY <3>1
    <2>3. CASE StartCall(r) \/ StartLogout(r)
      <3>1. memory \in Nat
        BY <1>t DEF TypeOK
      <3>2. \E k \in Kind, u \in Nat : Send(r, k, memory, u)
        BY <2>3, <3>1 DEF StartCall, StartLogout, Kind
      <3> QED BY <3>1, <3>2, <1>t, SendStep
    <2>4. CASE Reload(r)
      <3>1. request[r] \in Request /\ memory \in Nat
        BY <1>t DEF TypeOK
      <3> DEFINE new == [request[r] EXCEPT !.kind = "restore", !.pair = memory, !.phase = "sent"]
      <3>2. new.phase = "sent"
        BY <3>1, RestoreFields
      <3>3. request' = [q \in Requests |->
              IF q = r THEN new
              ELSE IF Running(q) THEN [request[q] EXCEPT !.phase = "dropped"] ELSE request[q]]
        BY <2>4 DEF Reload
      <3>4. request[r].phase = "unused"
        BY <2>4 DEF Reload
      <3>5. \A q \in Requests :
              /\ [request[q] EXCEPT !.phase = "dropped"].kind = request[q].kind
              /\ [request[q] EXCEPT !.phase = "dropped"].phase = "dropped"
        BY <1>t DEF TypeOK, Request
      <3> HIDE DEF new
      <3> QED BY <3>2, <3>3, <3>4, <3>5
    <2>5. CASE OnUnauthorized(r)
      <3>1. CASE Phase(r, "failing")
        BY <3>1, <2>1 DEF Phases
      <3>2. ASSUME NEW q \in Requests, WaitFor(r, q)
            PROVE  \A s \in Requests : Keeps(s)
        BY <3>2, <1>t, WaitStep
      <3>3. Phase(r, "failing") \/ \E q \in Requests : WaitFor(r, q)
        BY <2>5 DEF OnUnauthorized, Shareable, InFlight
      <3> QED BY <3>1, <3>2, <3>3
    <2>6. CASE RefreshSucceeds(r) \/ RefreshFails(r)
      <3>1. refresh[r].pair \in Nat
        BY <1>t DEF TypeOK, Refresh
      <3>2. Settle(r, refresh[r].pair, "resent") \/ Settle(r, 0, "failing")
        BY <2>6 DEF RefreshSucceeds, RefreshFails
      <3> QED BY <3>1, <3>2, <2>2
    <2>7. CASE Complete(r) \/ FailCall(r) \/ CallBreaks(r)
      <3>1. Phase(r, "done")
        BY <2>7 DEF Complete, FailCall, CallBreaks
      <3> QED BY <3>1, <2>1 DEF Phases
    <2>8. CASE Accept(r) \/ Refuse(r)
      <3>1. \E p \in {"accepted", "refused", "failing"} : Phase(r, p)
        BY <2>8 DEF Accept, Refuse
      <3> QED BY <3>1, <2>1 DEF Phases
    <2>9. CASE ReadRecord(r) \/ DeleteRecord(r) \/ IssuePair(r) \/ RefreshBreaks(r)
      BY <2>9 DEF ReadRecord, DeleteRecord, IssuePair, RefreshBreaks
    <2> QED BY <1>1, <2>3, <2>4, <2>5, <2>6, <2>7, <2>8, <2>9 DEF ClientStep, ServerStep
  <1>2. ASSUME Login \/ \E pair \in 1..issued : Lapse(pair) \/ Expire(pair)
        PROVE  \A q \in Requests : Keeps(q)
    <2>1. request' = request
      BY <1>2 DEF Login, Lapse, Expire
    <2> QED BY <2>1
  <1>3. \A q \in Requests : Keeps(q)
    BY <1>1, <1>2 DEF Next
  <1>4. faults' = 0 => faults = 0
    <2>1. Fault => faults' # 0
      BY <1>t, SessionBounds DEF Fault, TypeOK
    <2>2. UNCHANGED faults \/ Fault
      BY DEF Next, Login, ClientStep, ServerStep, StartCall, Reload, StartLogout, OnUnauthorized,
             RefreshSucceeds, RefreshFails, Complete, FailCall, CallBreaks, Accept, Refuse,
             ReadRecord, DeleteRecord, IssuePair, RefreshBreaks, Lapse, Expire
    <2> QED BY <2>1, <2>2
  <1>5. UnusedAreCalls'
    BY <1>3 DEF UnusedAreCalls
  <1>6. Undisturbed' => Undisturbed
    BY <1>3, <1>4 DEF UnusedAreCalls, Undisturbed
  <1> QED BY <1>5, <1>6

\* A step that touches neither the tokens nor the refreshes and fails no call.
LEMMA CallKeepsRotation ==
    ASSUME Rotation, logins > 0,
           UNCHANGED <<live, expired, memory, refresh, logins>>, user' = user,
           \A q \in Requests :
               \/ request'[q] = request[q]
               \/ request'[q].phase \in {"sent", "refused", "waiting", "accepted", "done"}
    PROVE  Rotation'
  <1>1. InFlight' = InFlight
    BY DEF InFlight
  <1>2. \A r \in InFlight : Rotating(r)'
    BY DEF Rotation, Rotating
  <1>3. \A r \in Requests : Unfailing(r)'
    BY DEF Rotation, Unfailing
  <1>4. (logins > 0 => user)' /\ logins' > 0
    BY Zenon DEF Rotation
  <1>5. (logins > 0 /\ InFlight = {} => live = {memory})'
    BY <1>1 DEF Rotation
  <1>6. ~(logins = 0)'
    OBVIOUS
  <1> QED BY <1>1, <1>2, <1>3, <1>4, <1>5, <1>6 DEF Rotation

\* A step of the one refresh in auth-service.
LEMMA RefreshKeepsRotation ==
    ASSUME Rotation, logins > 0, NEW r \in Requests,
           UNCHANGED <<expired, memory, request, logins>>, user' = user,
           InFlight = {r}, InFlight' = {r}, Rotating(r)',
           \A q \in Requests : q # r => refresh'[q] = refresh[q]
    PROVE  Rotation'
  <1>1. r \in InFlight'
    OBVIOUS
  <1>2. \A q \in Requests : Unfailing(q)'
    BY <1>1 DEF Rotation, Unfailing, InFlight
  <1>3. (logins > 0 => user)'
    BY Zenon DEF Rotation
  <1>4. ~(logins = 0)'
    OBVIOUS
  <1> QED BY <1>2, <1>3, <1>4 DEF Rotation

\* A request that has been sent shows that somebody has logged in.
LEMMA SentAfterLogin ==
    ASSUME SessionInv, Rotation, NEW r \in Requests,
           request[r].phase # "unused" \/ r \in InFlight \/ user
    PROVE  logins > 0 /\ user /\ memory # 0 /\ memory \in Nat
  <1>1. logins # 0
    BY DEF Rotation
  <1>2. logins \in Nat /\ memory \in Nat
    BY DEF SessionInv, TypeOK
  <1>3. logins > 0
    BY <1>1, <1>2
  <1>4. user
    BY <1>3 DEF Rotation
  <1> QED BY <1>2, <1>3, <1>4 DEF SessionInv, UserHasTokens

LEMMA ClientKeepsRotation ==
    ASSUME SessionInv, Rotation, Undisturbed, Undisturbed', NEW r \in Requests, ClientStep(r)
    PROVE  Rotation'
  <1>t. TypeOK /\ PairsAreIssued /\ RefreshIsShared
    BY DEF SessionInv
  <1>f. ~Fault
    BY <1>t DEF Undisturbed, Fault, TypeOK
  <1>1. CASE StartCall(r)
    <2>1. logins > 0 /\ memory \in Nat
      BY <1>1, SentAfterLogin DEF StartCall
    <2>2. /\ request'[r].phase = "sent"
          /\ \A q \in Requests \ {r} : request'[q] = request[q]
      BY <1>1, <1>t, <2>1, SendStep DEF StartCall, Kind
    <2>3. UNCHANGED <<live, expired, memory, user, refresh, logins>>
      BY <1>1 DEF StartCall, tokenVars, clientVars
    <2> QED BY <2>1, <2>2, <2>3, CallKeepsRotation
  <1>2. CASE Reload(r)
    <2>1. request[r] \in Request /\ memory \in Nat
      BY <1>t DEF TypeOK
    <2> DEFINE new == [request[r] EXCEPT !.kind = "restore", !.pair = memory, !.phase = "sent"]
    <2>2. new.kind = "restore"
      BY <2>1, RestoreFields
    <2>3. request'[r] = new
      BY <1>2 DEF Reload
    <2> QED BY <2>2, <2>3 DEF Undisturbed
  <1>3. CASE StartLogout(r)
    <2>1. memory \in Nat
      BY <1>t DEF TypeOK
    <2>2. request'[r].kind = "logout"
      BY <1>3, <1>t, <2>1, SendStep DEF StartLogout, Kind
    <2> QED BY <2>2 DEF Undisturbed
  <1>4. CASE OnUnauthorized(r)
    <2>1. logins > 0 /\ user /\ memory # 0 /\ memory \in Nat
      BY <1>4, SentAfterLogin DEF OnUnauthorized
    <2>2. UNCHANGED <<live, expired, memory, user, logins>>
      BY <1>4 DEF OnUnauthorized, tokenVars, clientVars
    <2>3. ASSUME NEW q \in Requests, WaitFor(r, q), UNCHANGED refresh
          PROVE  Rotation'
      <3>1. /\ request'[r].phase = "waiting"
            /\ \A s \in Requests \ {r} : request'[s] = request[s]
        BY <2>3, <1>t, WaitStep
      <3> QED BY <2>1, <2>2, <2>3, <3>1, CallKeepsRotation
    <2> DEFINE fresh == [step |-> "sent", token |-> memory, pair |-> 0, awaited |-> TRUE]
    <2>4. ASSUME WaitFor(r, r), InFlight = {}, refresh' = [refresh EXCEPT ![r] = fresh]
          PROVE  Rotation'
      <3>1. /\ request'[r].phase = "waiting"
            /\ \A s \in Requests \ {r} : request'[s] = request[s]
        BY <2>4, <1>t, WaitStep
      <3>2. fresh.step = "sent" /\ fresh.token = memory /\ fresh.pair = 0 /\ fresh.awaited
        OBVIOUS
      <3> HIDE DEF fresh
      <3>3. refresh'[r] = fresh /\ \A s \in Requests : s # r => refresh'[s] = refresh[s]
        BY <2>4, <1>t DEF TypeOK
      <3>4. InFlight' = {r}
        BY <2>4, <3>2, <3>3 DEF InFlight
      <3>5. live = {memory}
        BY <2>1, <2>4 DEF Rotation
      <3>6. Rotating(r)'
        BY <2>2, <3>2, <3>3, <3>5 DEF Rotating
      <3>7. \A s \in Requests : Unfailing(s)'
        BY <2>2, <3>1, <3>2, <3>3 DEF Rotation, Unfailing
      <3>8. (logins > 0 => user)' /\ ~(logins = 0)'
        BY <2>1, <2>2
      <3> QED BY <3>4, <3>6, <3>7, <3>8 DEF Rotation
    <2>5. \/ \E q \in Requests : WaitFor(r, q) /\ UNCHANGED refresh
          \/ WaitFor(r, r) /\ InFlight = {} /\ refresh' = [refresh EXCEPT ![r] = fresh]
      BY <1>4, <2>1 DEF OnUnauthorized, Shareable, InFlight
    <2> HIDE DEF fresh
    <2> QED BY <2>3, <2>4, <2>5
  <1>5. CASE RefreshSucceeds(r)
    <2>1. r \in InFlight /\ InFlight = {r} /\ refresh[r].step = "issued"
      BY <1>5, <1>t DEF RefreshSucceeds, InFlight, RefreshIsShared
    <2>2. logins > 0 /\ user
      BY <2>1, SentAfterLogin
    <2>3. live = {refresh[r].pair} /\ refresh[r].pair \notin expired
      BY <2>1 DEF Rotation, Rotating
    <2>4. refresh[r].pair # 0 /\ refresh[r].pair \in Nat
      BY <2>1, <1>t DEF PairsAreIssued, TypeOK, Refresh
    <2>5. /\ memory' = refresh[r].pair
          /\ Settle(r, refresh[r].pair, "resent")
          /\ UNCHANGED <<live, expired, logins>>
      BY <1>5 DEF RefreshSucceeds, SetTokens, tokenVars
    <2>6. user'
      BY <1>5, <2>2, <2>4, Zenon DEF RefreshSucceeds, SetTokens
    <2>7. /\ InFlight' = {}
          /\ \A q \in Requests :
                /\ refresh'[q].step = refresh[q].step
                /\ \/ request'[q].phase = "resent" /\ request'[q].pair = refresh[r].pair
                   \/ request'[q] = request[q]
      <3>1. /\ InFlight' = InFlight \ {r}
            /\ \A q \in Requests :
                /\ refresh'[q].step = refresh[q].step
                /\ IF request[q].phase = "waiting" /\ request[q].on = r
                   THEN request'[q].phase = "resent" /\ request'[q].pair = refresh[r].pair
                   ELSE request'[q] = request[q]
        BY <2>4, <2>5, <1>t, SettleStep DEF Phases
      <3> QED BY <3>1, <2>1
    <2>8. \A q \in Requests : Unfailing(q)'
      BY <2>1, <2>3, <2>4, <2>5, <2>7 DEF Rotation, Unfailing, InFlight
    <2>9. (logins > 0 => user)' /\ ~(logins = 0)'
      BY <2>2, <2>5, <2>6
    <2>10. live' = {memory'}
      BY <2>3, <2>5
    <2> QED BY <2>7, <2>8, <2>9, <2>10 DEF Rotation
  <1>6. CASE RefreshFails(r)
    <2>1. r \in InFlight /\ refresh[r].step = "rejected"
      BY <1>6, <1>f DEF RefreshFails, InFlight
    <2> QED BY <2>1 DEF Rotation, Rotating
  <1>7. CASE Complete(r)
    <2>1. request[r].phase = "accepted" /\ request[r].kind = "call" /\ Phase(r, "done")
      BY <1>7 DEF Complete, Undisturbed
    <2>2. UNCHANGED <<live, expired, memory, user, refresh, logins>>
      BY <1>7, <2>1 DEF Complete, tokenVars, clientVars
    <2>3. logins > 0
      BY <2>1, SentAfterLogin
    <2>4. /\ request'[r].phase = "done"
          /\ \A q \in Requests : q # r => request'[q] = request[q]
      BY <2>1, <1>t, PhaseStep DEF Phases
    <2> QED BY <2>2, <2>3, <2>4, CallKeepsRotation
  <1>8. CASE FailCall(r)
    BY <1>8 DEF FailCall, Rotation, Unfailing
  <1>9. CASE CallBreaks(r)
    BY <1>9, <1>f DEF CallBreaks
  <1> QED BY <1>1, <1>2, <1>3, <1>4, <1>5, <1>6, <1>7, <1>8, <1>9 DEF ClientStep

LEMMA ServerKeepsRotation ==
    ASSUME SessionInv, Rotation, Undisturbed, NEW r \in Requests, ServerStep(r), Undisturbed'
    PROVE  Rotation'
  <1>t. TypeOK /\ RefreshIsShared /\ PairsAreIssued
    BY DEF SessionInv
  <1>f. ~Fault
    BY <1>t DEF Undisturbed, Fault, TypeOK
  <1>1. CASE Accept(r)
    <2>1. /\ UNCHANGED <<live, expired, memory, user, refresh, logins>>
          /\ Phase(r, "accepted")
      BY <1>1 DEF Accept, Undisturbed, clientVars
    <2>2. logins > 0
      BY <1>1, SentAfterLogin DEF Accept
    <2>3. /\ request'[r].phase = "accepted"
          /\ \A q \in Requests : q # r => request'[q] = request[q]
      BY <2>1, <1>t, PhaseStep DEF Phases
    <2> QED BY <2>1, <2>2, <2>3, CallKeepsRotation
  <1>2. CASE Refuse(r)
    <2>1. request[r].phase = "sent"
      BY <1>2 DEF Refuse, Authorized, Rotation, Unfailing
    <2>2. /\ UNCHANGED <<live, expired, memory, user, refresh, logins>>
          /\ Phase(r, "refused")
      BY <1>2, <2>1 DEF Refuse, tokenVars, clientVars
    <2>3. logins > 0
      BY <2>1, SentAfterLogin
    <2>4. /\ request'[r].phase = "refused"
          /\ \A q \in Requests : q # r => request'[q] = request[q]
      BY <2>2, <1>t, PhaseStep DEF Phases
    <2> QED BY <2>2, <2>3, <2>4, CallKeepsRotation
  <1>3. ASSUME refresh[r].step \in {"sent", "read", "deleted"}
        PROVE  /\ InFlight = {r} /\ Rotating(r)
               /\ logins > 0 /\ user
    <2>1. r \in InFlight
      BY <1>3 DEF Rotation, Unfailing, InFlight
    <2> QED BY <2>1, <1>t, SentAfterLogin DEF RefreshIsShared, Rotation
  <1>4. ASSUME NEW s \in {"read", "deleted"}, refresh[r].step \in {"sent", "read"},
               refresh' = [refresh EXCEPT ![r].step = s],
               live' = IF s = "deleted" THEN {} ELSE live,
               UNCHANGED <<expired, memory, user, request, logins>>
        PROVE  Rotation'
    <2>1. /\ refresh'[r].step = s /\ InFlight' = {r}
          /\ refresh'[r].token = memory /\ refresh'[r].pair = 0
          /\ \A q \in Requests : q # r => refresh'[q] = refresh[q]
      BY <1>3, <1>4, <1>t, RefreshStep DEF Rotating
    <2>2. Rotating(r)'
      BY <2>1, <1>3, <1>4 DEF Rotating
    <2> QED BY <2>1, <2>2, <1>3, <1>4, RefreshKeepsRotation
  <1>5. CASE ReadRecord(r)
    <2>1. refresh[r].token \in live
      BY <1>3, <1>5 DEF ReadRecord, Rotating
    <2> QED BY <1>4, <1>5, <2>1 DEF ReadRecord, tokenVars, clientVars
  <1>6. CASE DeleteRecord(r)
    <2>1. live' = {}
      BY <1>3, <1>6 DEF DeleteRecord, Without, Rotating
    <2> QED BY <1>4, <1>6, <2>1 DEF DeleteRecord, clientVars
  <1>7. CASE IssuePair(r)
    <2>1. refresh[r].step = "deleted" /\ live' = live \cup {issued + 1}
          /\ UNCHANGED <<expired, memory, user, request, logins>>
      BY <1>7 DEF IssuePair, clientVars
    <2>2. InFlight = {r} /\ live = {} /\ refresh[r].token = memory /\ logins > 0
      BY <1>3, <2>1 DEF Rotating
    <2> DEFINE n == issued + 1
    <2>3. refresh' = [refresh EXCEPT ![r].step = "issued", ![r].pair = n]
      BY <1>7 DEF IssuePair
    <2>4. n \in Nat /\ n \notin expired
      BY <1>t DEF TypeOK
    <2>5. live' = {n}
      BY <2>1, <2>2
    <2> HIDE DEF n
    <2> DEFINE new == [refresh[r] EXCEPT !.step = "issued", !.pair = n]
    <2>6. refresh[r] \in Refresh /\ refresh \in [Requests -> Refresh]
      BY <1>t DEF TypeOK
    <2>7. /\ new.step = "issued" /\ new.pair = n /\ new.token = refresh[r].token
          /\ new.awaited = refresh[r].awaited
      BY <2>6 DEF Refresh
    <2>8. refresh' = [refresh EXCEPT ![r] = new]
      BY <2>3, <2>6
    <2> HIDE DEF new
    <2>9. refresh'[r] = new /\ \A q \in Requests : q # r => refresh'[q] = refresh[q]
      BY <2>6, <2>8
    <2>10. InFlight' = {r}
      BY <2>2, <2>7, <2>9 DEF InFlight
    <2>11. Rotating(r)'
      BY <2>1, <2>2, <2>4, <2>5, <2>7, <2>9 DEF Rotating
    <2> QED BY <2>1, <2>2, <2>9, <2>10, <2>11, RefreshKeepsRotation
  <1>8. CASE RefreshBreaks(r)
    BY <1>8, <1>f DEF RefreshBreaks
  <1> QED BY <1>1, <1>2, <1>5, <1>6, <1>7, <1>8 DEF ServerStep

LEMMA LoginKeepsRotation ==
    ASSUME SessionInv, Rotation, Login
    PROVE  Rotation'
  <1>1. ~user
    BY Zenon DEF Login
  <1>2. logins \in Nat /\ issued \in Nat /\ expired \subseteq 1..issued
    BY DEF SessionInv, TypeOK
  <1>3. logins = 0 /\ InFlight = {} /\ live = {} /\ \A r \in Requests : request[r].phase = "unused"
    BY <1>1, <1>2 DEF Rotation
  <1>4. /\ live' = {issued + 1} /\ memory' = issued + 1 /\ logins' = 1
        /\ UNCHANGED <<request, refresh>>
    BY <1>3 DEF Login
  <1>5. user'
    BY Zenon DEF Login
  <1>6. InFlight' = {}
    BY <1>3, <1>4 DEF InFlight
  <1>7. \A r \in Requests : Unfailing(r)'
    BY <1>3, <1>4 DEF Rotation, Unfailing
  <1> QED BY <1>4, <1>5, <1>6, <1>7 DEF Rotation

LEMMA ExpireKeepsRotation ==
    ASSUME SessionInv, Rotation, NEW pair \in 1..issued, Expire(pair)
    PROVE  Rotation'
  <1>1. /\ \A r \in Requests :
            /\ request[r].phase = "resent" => request[r].pair # pair
            /\ refresh[r].awaited => refresh[r].pair # pair
        /\ expired' = expired \cup {pair}
        /\ UNCHANGED <<live, memory, user, request, refresh, logins>>
    BY DEF Expire, clientVars
  <1>2. InFlight' = InFlight
    BY <1>1 DEF InFlight
  <1>3. \A r \in InFlight : Rotating(r)'
    BY <1>1 DEF Rotation, Rotating, InFlight
  <1>4. \A r \in Requests : Unfailing(r)'
    BY <1>1 DEF Rotation, Unfailing
  <1>5. (logins > 0 => user)' /\ (logins = 0 => ~user)'
    BY <1>1 DEF Rotation
  <1> QED BY <1>1, <1>2, <1>3, <1>4, <1>5 DEF Rotation

LEMMA RotationStep == SessionInv /\ RotationInv /\ [Next]_vars => RotationInv'
  <1> SUFFICES ASSUME SessionInv, RotationInv, [Next]_vars PROVE RotationInv'
    OBVIOUS
  <1>1. CASE UNCHANGED vars
    <2>1. UNCHANGED <<issued, live, expired, memory, user, request, refresh, logins, faults>>
      BY <1>1 DEF vars
    <2>2. InFlight' = InFlight
      BY <2>1 DEF InFlight
    <2>3. (\A r \in InFlight : Rotating(r))' <=> (\A r \in InFlight : Rotating(r))
      BY <2>1, <2>2 DEF Rotating
    <2>4. (\A r \in Requests : Unfailing(r))' <=> (\A r \in Requests : Unfailing(r))
      BY <2>1 DEF Unfailing
    <2>5. Rotation => Rotation'
      BY <2>1, <2>2, <2>3, <2>4 DEF Rotation
    <2> QED BY <2>1, <2>5 DEF RotationInv, UnusedAreCalls, Undisturbed
  <1>2. CASE Next
    <2>1. UnusedAreCalls' /\ (Undisturbed' => Undisturbed)
      BY <1>2, KindsKept DEF RotationInv
    <2>2. ASSUME Undisturbed' PROVE Rotation'
      <3>1. Undisturbed /\ Rotation
        BY <2>1, <2>2 DEF RotationInv
      <3>2. CASE Login
        BY <3>1, <3>2, LoginKeepsRotation
      <3>3. CASE \E r \in Requests : ClientStep(r) \/ ServerStep(r)
        BY <2>2, <3>1, <3>3, ClientKeepsRotation, ServerKeepsRotation
      <3>4. ASSUME NEW pair \in 1..issued, Lapse(pair) PROVE Rotation'
        <4>1. ~Fault
          BY <2>2, <3>1 DEF SessionInv, Undisturbed, Fault, TypeOK
        <4> QED BY <3>4, <4>1 DEF Lapse
      <3>5. ASSUME NEW pair \in 1..issued, Expire(pair) PROVE Rotation'
        BY <3>1, <3>5, ExpireKeepsRotation
      <3> QED BY <1>2, <3>2, <3>3, <3>4, <3>5 DEF Next
    <2> QED BY <2>1, <2>2 DEF RotationInv
  <1> QED BY <1>1, <1>2

\* While nothing fails, the refresh in flight hands the session from one pair to the next.
THEOREM RotationInvariant == Spec => []RotationInv
  BY SessionInit, SessionStep, RotationInit, RotationStep, PTL DEF Spec

LEMMA RotationGives == SessionInv /\ RotationInv => SessionUsable /\ NeverSignedOut /\ NoTokenLeftBehind
  <1> SUFFICES ASSUME SessionInv, RotationInv, Undisturbed
               PROVE  /\ logins > 0 => user /\ memory # 0
                      /\ logins > 0 => \/ memory \in live
                                       \/ \E r \in InFlight :
                                            /\ refresh[r].step \in {"read", "deleted", "issued"}
                                            /\ refresh[r].token = memory
                      /\ live \subseteq {memory} \cup {refresh[r].pair : r \in InFlight}
    BY DEF SessionUsable, NeverSignedOut, NoTokenLeftBehind
  <1>1. Rotation /\ UserHasTokens /\ logins \in Nat
    BY DEF RotationInv, SessionInv, TypeOK
  <1>2. logins > 0 => user /\ memory # 0
    <2>1. logins > 0 => user
      BY <1>1 DEF Rotation
    <2> QED BY <1>1, <2>1 DEF UserHasTokens
  <1>3. CASE logins = 0
    BY <1>1, <1>3 DEF Rotation
  <1>4. CASE logins > 0 /\ InFlight = {}
    BY <1>1, <1>2, <1>4 DEF Rotation
  <1>5. ASSUME logins > 0, NEW r \in InFlight
        PROVE  /\ memory \in live \/ (refresh[r].step \in {"deleted", "issued"} /\ refresh[r].token = memory)
               /\ live \subseteq {memory} \cup {refresh[r].pair}
    BY <1>1, <1>5 DEF Rotation, Rotating
  <1> QED BY <1>1, <1>2, <1>3, <1>4, <1>5

\* However many calls meet the expired access token at once, while nothing fails the refresh
\* token the tab holds is live or being rotated by the refresh in flight.
THEOREM SessionStaysUsable == Spec => []SessionUsable
  BY SessionInvariant, RotationInvariant, RotationGives, PTL

\* While nothing fails, no call signs its user out.
THEOREM NobodySignedOut == Spec => []NeverSignedOut
  BY SessionInvariant, RotationInvariant, RotationGives, PTL

\* While nothing fails, rotation leaves no live token that the tab does not hold or await.
THEOREM RotationLeavesNoToken == Spec => []NoTokenLeftBehind
  BY SessionInvariant, RotationInvariant, RotationGives, PTL
=============================================================================
