------------------------- MODULE RegistrationProofs -------------------------
(***************************************************************************)
(* Theorems about Registration for any tabs, emails, passwords, calls and  *)
(* failures, whatever toLowerCase and the addresses are, and their proofs. *)
(***************************************************************************)
EXTENDS Registration, RateLimitProofs

Form == [page : Pages, token : Nat, reset : BOOLEAN, busy : {0} \cup Calls, session : {0} \cup Calls]
Entered == Passwords \cup {0, 22}
Call == [by : Tabs \cup {"seed", "nobody"}, page : Pages \cup {"none"}, email : Emails \cup {"none"},
         password : Entered, token : Nat, waits : BOOLEAN,
         gate : {"none", "sent", "lost", "calling", "OK"} \cup ErrorCode,
         auth : {"none", "verifying", "calling", "issuing", "OK"} \cup ErrorCode,
         user : {"none", "checking", "hashing", "OK"} \cup ErrorCode]
Account == [id : Calls, email : {ToLower(e) : e \in Emails}, password : Entered]

RegistrationType ==
    /\ form \in [Tabs -> Form]
    /\ call \in [Calls -> Call]
    /\ accounts \subseteq Account
    /\ refresh \subseteq Calls /\ early \subseteq Calls /\ spent \subseteq 1..solved
    /\ solved \in 0..MaxTokens /\ faults \in 0..MaxFaults

\* How far the services are with one call fits together: none acts before the one it
\* waits for has (the calls go gateway, auth-service, user-service), none succeeds before
\* the one it called has, success means a stored token and a matching account, and
\* while nothing has failed an error is passed on as it came.
InStep(c) ==
    /\ call[c].token \in 0..solved
    /\ call[c].gate # "none" => call[c].email \in Emails /\ call[c].by \in Tabs \cup {"seed"}
    /\ call[c].gate \in {"none", "sent", "lost"} => call[c].auth = "none"
    /\ call[c].auth # "none" => call[c].token # 0
    /\ call[c].auth \in {"none", "verifying"} => call[c].user = "none"
    /\ call[c].user # "none" => call[c].token \in spent
    /\ call[c].auth \in {"issuing", "OK"} => call[c].user = "OK"
    /\ call[c].auth = "OK" => c \in refresh
    /\ call[c].user = "OK" => Matches(c)
    /\ call[c].gate = "OK" => call[c].auth = "OK"
PassedOn(c) ==
    /\ call[c].auth \in ErrorCode /\ call[c].user # "none" => call[c].auth = call[c].user
    /\ call[c].gate \in ErrorCode /\ call[c].auth # "none" => call[c].gate = call[c].auth
CallsInv == \A c \in Calls : InStep(c) /\ (faults = 0 => PassedOn(c))

\* A tab is signed in by a call that succeeded.
SessionInv == \A t \in Tabs : form[t].session # 0 => call[form[t].session].gate = "OK"

\* A captcha token is in one form at most, and in a call that was not early only while the
\* form is busy with it or is about to lose it.
TokenInv ==
    /\ \A t \in Tabs : form[t].token \in 0..solved
    /\ \A t, u \in Tabs : form[t].token # 0 /\ form[t].token = form[u].token => t = u
    /\ \A t \in Tabs, c \in Calls :
            form[t].token # 0 /\ call[c].token = form[t].token
                => (form[t].busy # 0 \/ form[t].reset) /\ c \notin early
    /\ \A c \in early : call[c].token # 0
    /\ TokenSubmittedOnce

\* Stored emails are in lower case and different.
EmailInv == \A a, b \in accounts : a.email = b.email => a = b

Inv == RegistrationType /\ CallsInv /\ SessionInv /\ TokenInv /\ EmailInv

-----------------------------------------------------------------------------
(* What the steps have in common.                                          *)

\* The codes that the filters and the client proxies give.
LEMMA Codes ==
    /\ \A code : Body(Api(code)).code = code
    /\ Body(Http(400)).code = "VALIDATION_ERROR" /\ Body(Http(401)).code = "UNAUTHORIZED"
    /\ Body(Other).code = "INTERNAL_ERROR" /\ Body(GaveUp).code = "SERVICE_UNAVAILABLE"
    /\ \A code : Body(ToApiException(code)).code =
            IF code \in ErrorCode THEN code ELSE "SERVICE_UNAVAILABLE"
    /\ {"VALIDATION_ERROR", "UNAUTHORIZED", "INTERNAL_ERROR", "SERVICE_UNAVAILABLE",
        "RATE_LIMITED", "RECAPTCHA_FAILED", "DUPLICATE_EMAIL"} \subseteq ErrorCode
    /\ \A s \in {"none", "sent", "lost", "calling", "verifying", "issuing", "checking", "hashing", "OK"} :
            s \notin Failures /\ s \notin ErrorCode
    /\ ErrorCode \subseteq Failures
  <1>1. \A code : Body(Api(code)).code = code
    BY DEF Body, Api
  <1>2. Body(Http(400)).code = "VALIDATION_ERROR" /\ Body(Http(401)).code = "UNAUTHORIZED"
    BY DEF Body, Http, CodeOf
  <1>3. Body(Other).code = "INTERNAL_ERROR"
    BY DEF Body, Other
  <1> QED BY <1>1, <1>2, <1>3 DEF GaveUp, ToApiException, ErrorCode, Failures

\* What was solved, verified, stored, created or failed stays so.
Grows ==
    /\ solved <= solved' /\ spent \subseteq spent' /\ refresh \subseteq refresh'
    /\ accounts \subseteq accounts' /\ faults <= faults'
OthersKept(c) == \A d \in Calls : d # c => call'[d] = call[d]
SameRequest(c) ==
    /\ call'[c].by = call[c].by /\ call'[c].page = call[c].page /\ call'[c].email = call[c].email
    /\ call'[c].password = call[c].password /\ call'[c].token = call[c].token

\* A call that goes no further stays in step.
LEMMA CallKept ==
    ASSUME RegistrationType, CallsInv, faults' \in Nat, solved' \in Nat, Grows, NEW c \in Calls, SameRequest(c),
           call'[c].gate = call[c].gate, call'[c].auth = call[c].auth, call'[c].user = call[c].user
    PROVE  InStep(c)' /\ (faults' = 0 => PassedOn(c)')
  <1>1. InStep(c) /\ faults \in Nat /\ solved \in Nat /\ (faults = 0 => PassedOn(c))
    BY DEF RegistrationType, CallsInv
  <1>2. Matches(c) => Matches(c)'
    BY DEF Matches, SameRequest, Grows
  <1>3. InStep(c)'
    BY <1>1, <1>2 DEF InStep, SameRequest, Grows
  <1>4. faults' = 0 => PassedOn(c)'
    BY <1>1 DEF PassedOn, Grows
  <1> QED BY <1>3, <1>4

\* One call goes on, and the others stay in step.
LEMMA OneCallGoesOn ==
    ASSUME RegistrationType, CallsInv, faults' \in Nat, solved' \in Nat, Grows,
           NEW c \in Calls, OthersKept(c), InStep(c)', faults' = 0 => PassedOn(c)'
    PROVE  CallsInv'
  <1> SUFFICES ASSUME NEW d \in Calls PROVE InStep(d)' /\ (faults' = 0 => PassedOn(d)')
    BY DEF CallsInv
  <1>1. CASE d = c
    BY <1>1
  <1>2. CASE d # c
    <2>1. call'[d] = call[d]
      BY <1>2 DEF OthersKept
    <2> QED BY <2>1, CallKept DEF SameRequest
  <1> QED BY <1>1, <1>2

\* The services do not touch the pages, and take back no success.
LEMMA ServiceKeeps ==
    ASSUME Inv, NEW c \in Calls, OthersKept(c), SameRequest(c), UNCHANGED <<form, solved, early>>,
           call[c].gate = "OK" => call'[c].gate = "OK"
    PROVE  SessionInv' /\ TokenInv'
  <1>1. form \in [Tabs -> Form] /\ SessionInv /\ TokenInv
    BY DEF Inv, RegistrationType
  <1>2. \A d \in Calls : /\ call'[d].token = call[d].token
                         /\ call[d].gate = "OK" => call'[d].gate = "OK"
    BY DEF OthersKept, SameRequest
  <1>3. \A t \in Tabs : form[t].session # 0 => form[t].session \in Calls
    BY <1>1 DEF Form
  <1>4. SessionInv'
    BY <1>1, <1>2, <1>3 DEF SessionInv
  <1>6. \A d \in early : d \in Calls
    BY DEF Inv, RegistrationType
  <1>5. TokenInv'
    BY <1>1, <1>2, <1>6 DEF TokenInv, TokenSubmittedOnce
  <1> QED BY <1>4, <1>5

\* How far the gateway, auth-service and user-service are with a call after a step.
Reaches(c, gate, auth, user) ==
    /\ call' \in [Calls -> Call] /\ OthersKept(c) /\ SameRequest(c)
    /\ call'[c].gate = gate /\ call'[c].auth = auth /\ call'[c].user = user

\* A step of the gateway alone, ...
LEMMA GateReaches ==
    ASSUME call \in [Calls -> Call], NEW c \in Calls,
           NEW g \in {"none", "sent", "lost", "calling", "OK"} \cup ErrorCode,
           call' = [call EXCEPT ![c].gate = g]
    PROVE  Reaches(c, g, call[c].auth, call[c].user)
  BY DEF Call, Reaches, OthersKept, SameRequest

\* ... of auth-service alone, ...
LEMMA AuthReaches ==
    ASSUME call \in [Calls -> Call], NEW c \in Calls,
           NEW a \in {"none", "verifying", "calling", "issuing", "OK"} \cup ErrorCode,
           call' = [call EXCEPT ![c].auth = a]
    PROVE  Reaches(c, call[c].gate, a, call[c].user)
  BY DEF Call, Reaches, OthersKept, SameRequest

\* ... of user-service alone, ...
LEMMA UserReaches ==
    ASSUME call \in [Calls -> Call], NEW c \in Calls,
           NEW u \in {"none", "checking", "hashing", "OK"} \cup ErrorCode,
           call' = [call EXCEPT ![c].user = u]
    PROVE  Reaches(c, call[c].gate, call[c].auth, u)
  BY DEF Call, Reaches, OthersKept, SameRequest

\* ... of the gateway and the auth-service it calls, ...
LEMMA GateCalls ==
    ASSUME call \in [Calls -> Call], NEW c \in Calls,
           call' = [call EXCEPT ![c].gate = "calling", ![c].auth = "verifying"]
    PROVE  Reaches(c, "calling", "verifying", call[c].user)
  <1> DEFINE n == [[call[c] EXCEPT !.gate = "calling"] EXCEPT !.auth = "verifying"]
  <1>1. call' = [call EXCEPT ![c] = n]
    BY DEF Call
  <1>2. n \in Call /\ n.by = call[c].by /\ n.page = call[c].page /\ n.email = call[c].email
        /\ n.password = call[c].password /\ n.token = call[c].token
        /\ n.gate = "calling" /\ n.auth = "verifying" /\ n.user = call[c].user
    BY DEF Call
  <1> HIDE DEF n
  <1> QED BY <1>1, <1>2 DEF Reaches, OthersKept, SameRequest

\* ... and of auth-service and the user-service it calls.
LEMMA AuthCalls ==
    ASSUME call \in [Calls -> Call], NEW c \in Calls,
           call' = [call EXCEPT ![c].auth = "calling", ![c].user = "checking"]
    PROVE  Reaches(c, call[c].gate, "calling", "checking")
  <1> DEFINE n == [[call[c] EXCEPT !.auth = "calling"] EXCEPT !.user = "checking"]
  <1>1. call' = [call EXCEPT ![c] = n]
    BY DEF Call
  <1>2. n \in Call /\ n.by = call[c].by /\ n.page = call[c].page /\ n.email = call[c].email
        /\ n.password = call[c].password /\ n.token = call[c].token
        /\ n.gate = call[c].gate /\ n.auth = "calling" /\ n.user = "checking"
    BY DEF Call
  <1> HIDE DEF n
  <1> QED BY <1>1, <1>2 DEF Reaches, OthersKept, SameRequest

-----------------------------------------------------------------------------
(* The gateway.                                                            *)

\* An arrival is refused with a code of the catalog, or has auth-service verify.
LEMMA ArriveKeeps ==
    ASSUME Inv, NEW c \in Calls, Arrive(c)
    PROVE  Inv'
  <1>0. /\ RegistrationType /\ CallsInv /\ call \in [Calls -> Call] /\ call[c].gate = "sent"
        /\ InStep(c) /\ UNCHANGED <<form, seed, accounts, refresh, solved, spent, early>>
    BY DEF Inv, RegistrationType, CallsInv, Arrive, backend, captcha
  <1>1. ASSUME NEW code \in ErrorCode, call' = [call EXCEPT ![c].gate = code]
        PROVE  Reaches(c, code, "none", "none")
    BY <1>0, <1>1, GateReaches DEF InStep
  <1>2. PICK g \in {"calling"} \cup ErrorCode, a \in {"none", "verifying"} :
            /\ Reaches(c, g, a, "none")
            /\ (g = "calling" /\ a = "verifying" /\ call[c].token # 0) \/ (g \in ErrorCode /\ a = "none")
    <2>1. CASE Passes(c) /\ Valid(c)
      <3>1. call' = [call EXCEPT ![c].gate = "calling", ![c].auth = "verifying"]
        BY <2>1 DEF Passes
      <3>2. Reaches(c, "calling", "verifying", "none")
        BY <1>0, <3>1, GateCalls DEF InStep
      <3> QED BY <2>1, <3>2 DEF Valid
    <2>2. CASE Passes(c) /\ ~Valid(c)
      <3> DEFINE code == Body(Http(400)).code
      <3>1. call' = [call EXCEPT ![c].gate = code, ![c].auth = call[c].auth] /\ code \in ErrorCode
        BY <2>2, Codes DEF Passes
      <3> HIDE DEF code
      <3>2. call' = [call EXCEPT ![c].gate = code]
        BY <1>0, <3>1 DEF Call
      <3> QED BY <1>1, <3>1, <3>2
    <2>3. ASSUME NEW e \in {Api("RATE_LIMITED"), Other}, Refused(c, e)
          PROVE  \E code \in ErrorCode : Reaches(c, code, "none", "none")
      <3>1. Body(e).code \in ErrorCode
        BY <2>3, Codes
      <3> QED BY <1>1, <2>3, <3>1 DEF Refused
    <2> QED BY <2>1, <2>2, <2>3 DEF Arrive
  <1>3. faults' \in 0..MaxFaults /\ faults <= faults'
    BY <1>0, RegistrationConstants DEF Arrive, Fault, RegistrationType
  <1>4. RegistrationType' /\ Grows
    BY <1>0, <1>2, <1>3, RegistrationConstants DEF RegistrationType, Grows, Reaches
  <1>5. InStep(c)'
    BY <1>0, <1>2, Codes DEF InStep, SameRequest, Reaches
  <1>6. PassedOn(c)'
    BY <1>0, <1>2, Codes DEF PassedOn, InStep, Reaches
  <1>7. CallsInv'
    BY <1>0, <1>2, <1>3, <1>4, <1>5, <1>6, OneCallGoesOn, RegistrationConstants DEF RegistrationType, Reaches
  <1>8. SessionInv' /\ TokenInv'
    BY <1>0, <1>2, ServiceKeeps DEF Reaches
  <1> QED BY <1>0, <1>4, <1>7, <1>8 DEF Inv, EmailInv

\* A success is passed on, an error is passed on as it came, or the gateway gave up.
LEMMA GateHearsKeeps ==
    ASSUME Inv, NEW c \in Calls, GateHears(c)
    PROVE  Inv'
  <1>0. /\ RegistrationType /\ CallsInv /\ call \in [Calls -> Call] /\ call[c].gate = "calling"
        /\ InStep(c) /\ (faults = 0 => PassedOn(c)) /\ UNCHANGED <<form, seed, accounts, refresh, solved, spent, early>>
    BY DEF Inv, RegistrationType, CallsInv, GateHears, backend, captcha
  <1>1. PICK g \in {"OK"} \cup ErrorCode :
            /\ call' = [call EXCEPT ![c].gate = g]
            /\ (g = call[c].auth /\ UNCHANGED faults) \/ (g \in ErrorCode /\ Fault)
    <2>1. CASE call[c].auth \in Answers /\ UNCHANGED faults
      <3>1. call[c].auth \in {"OK"} \cup ErrorCode
        BY <1>0, <2>1, Codes DEF Call, Answers
      <3>2. CASE call[c].auth = "OK"
        BY <2>1, <3>2, Codes DEF GateHears, Fault
      <3>3. CASE call[c].auth # "OK"
        <4>1. call' = [call EXCEPT ![c].gate = Body(ToApiException(call[c].auth)).code] \/ Fault
          BY <2>1, <3>3 DEF GateHears
        <4>2. Body(ToApiException(call[c].auth)).code = call[c].auth
          BY <3>1, <3>3, Codes
        <4>3. ~Fault
          BY <1>0, <2>1 DEF Fault, RegistrationType
        <4> QED BY <2>1, <3>1, <4>1, <4>2, <4>3
      <3> QED BY <3>2, <3>3
    <2>2. CASE Fault /\ call' = [call EXCEPT ![c].gate = Body(GaveUp).code]
      <3>1. Body(GaveUp).code \in ErrorCode
        BY Codes
      <3> QED BY <2>2, <3>1
    <2> QED BY <2>1, <2>2 DEF GateHears
  <1>2. Reaches(c, g, call[c].auth, call[c].user)
    BY <1>0, <1>1, GateReaches
  <1>3. /\ faults' \in 0..MaxFaults /\ faults <= faults'
        /\ faults' = 0 => faults = 0 /\ g = call[c].auth
    BY <1>0, <1>1, RegistrationConstants DEF Fault, RegistrationType
  <1>4. RegistrationType' /\ Grows
    BY <1>0, <1>2, <1>3, RegistrationConstants DEF RegistrationType, Grows, Reaches
  <1>5. InStep(c)'
    BY <1>0, <1>1, <1>2, Codes DEF InStep, SameRequest, Matches, Reaches
  <1>6. faults' = 0 => PassedOn(c)'
    BY <1>0, <1>1, <1>2, <1>3 DEF PassedOn, Reaches
  <1>7. CallsInv'
    BY <1>0, <1>2, <1>3, <1>4, <1>5, <1>6, OneCallGoesOn, RegistrationConstants DEF RegistrationType, Reaches
  <1>8. SessionInv' /\ TokenInv'
    BY <1>0, <1>2, ServiceKeeps DEF Reaches
  <1> QED BY <1>0, <1>4, <1>7, <1>8 DEF Inv, EmailInv

-----------------------------------------------------------------------------
(* auth-service.                                                           *)

\* Google verifies the token, or the call is refused.
LEMMA VerifyKeeps ==
    ASSUME Inv, NEW c \in Calls, Verify(c)
    PROVE  Inv'
  <1>0. /\ RegistrationType /\ CallsInv /\ call \in [Calls -> Call] /\ call[c].auth = "verifying"
        /\ InStep(c) /\ (faults = 0 => PassedOn(c)) /\ UNCHANGED <<form, seed, accounts, refresh, solved, early>>
        /\ call[c].user = "none"
    BY DEF Inv, RegistrationType, CallsInv, Verify, backend, InStep
  <1>2. PICK a \in {"calling", "RECAPTCHA_FAILED"}, u \in {"checking", "none"} :
            /\ Reaches(c, call[c].gate, a, u)
            /\ (a = "calling" /\ u = "checking" /\ call[c].token \in spent') \/ (a = "RECAPTCHA_FAILED" /\ u = "none")
    <2>1. CASE Throws(c, Api("RECAPTCHA_FAILED"))
      <3>1. Body(Api("RECAPTCHA_FAILED")).code = "RECAPTCHA_FAILED" /\ "RECAPTCHA_FAILED" \in ErrorCode
        BY Codes
      <3>2. call' = [call EXCEPT ![c].auth = "RECAPTCHA_FAILED"]
        BY <2>1, <3>1 DEF Throws
      <3>3. Reaches(c, call[c].gate, "RECAPTCHA_FAILED", call[c].user)
        BY <1>0, <3>1, <3>2, AuthReaches
      <3> QED BY <1>0, <3>3
    <2>2. CASE /\ spent' = spent \cup {call[c].token}
               /\ call' = [call EXCEPT ![c].auth = "calling", ![c].user = "checking"]
      <3>1. Reaches(c, call[c].gate, "calling", "checking")
        BY <1>0, <2>2, AuthCalls
      <3> QED BY <2>2, <3>1
    <2> QED BY <2>1, <2>2 DEF Verify
  <1>3. faults' \in 0..MaxFaults /\ faults <= faults'
    BY <1>0, RegistrationConstants DEF Verify, Fault, RegistrationType
  <1>4. spent \subseteq spent' /\ spent' \subseteq spent \cup {call[c].token}
    BY DEF Verify
  <1>5. call[c].token \in 1..solved
    BY <1>0 DEF InStep, RegistrationType
  <1>6. RegistrationType' /\ Grows
    BY <1>0, <1>2, <1>3, <1>4, <1>5, RegistrationConstants DEF RegistrationType, Grows, Reaches
  <1>7. InStep(c)'
    BY <1>0, <1>2, Codes DEF InStep, SameRequest, Reaches
  <1>8. faults' = 0 => PassedOn(c)'
    BY <1>0, <1>2, <1>3, Codes DEF PassedOn, Reaches, RegistrationType
  <1>9. CallsInv'
    BY <1>0, <1>2, <1>3, <1>6, <1>7, <1>8, OneCallGoesOn, RegistrationConstants DEF RegistrationType, Reaches
  <1>10. SessionInv' /\ TokenInv'
    BY <1>0, <1>2, ServiceKeeps DEF Reaches
  <1> QED BY <1>0, <1>6, <1>9, <1>10 DEF Inv, EmailInv

\* auth-service issues a session once user-service has agreed, or passes the error on, or
\* gave up.
LEMMA AuthHearsKeeps ==
    ASSUME Inv, NEW c \in Calls, AuthHears(c)
    PROVE  Inv'
  <1>0. /\ RegistrationType /\ CallsInv /\ call \in [Calls -> Call] /\ call[c].auth = "calling"
        /\ InStep(c) /\ (faults = 0 => PassedOn(c))
        /\ UNCHANGED <<form, seed, accounts, refresh, solved, spent, early>>
    BY DEF Inv, RegistrationType, CallsInv, AuthHears, backend, captcha
  <1>1. PICK a \in {"issuing"} \cup ErrorCode :
            /\ call' = [call EXCEPT ![c].auth = a]
            /\ \/ a = "issuing" /\ call[c].user = "OK" /\ UNCHANGED faults
               \/ a \in ErrorCode /\ a = call[c].user /\ UNCHANGED faults
               \/ a \in ErrorCode /\ Fault
    <2>1. CASE call[c].user = "OK" /\ call' = [call EXCEPT ![c].auth = "issuing"] /\ UNCHANGED faults
      BY <2>1
    <2>2. CASE call[c].user \in Failures /\ Throws(c, ToApiException(call[c].user)) /\ UNCHANGED faults
      <3>1. call[c].user \in ErrorCode
        BY <1>0, <2>2, Codes DEF Call
      <3>2. Body(ToApiException(call[c].user)).code = call[c].user
        BY <3>1, Codes
      <3> QED BY <2>2, <3>1, <3>2 DEF Throws
    <2>3. CASE Throws(c, GaveUp) /\ Fault
      <3>1. Body(GaveUp).code \in ErrorCode
        BY Codes
      <3> QED BY <2>3, <3>1 DEF Throws
    <2> QED BY <2>1, <2>2, <2>3 DEF AuthHears
  <1>2. Reaches(c, call[c].gate, a, call[c].user)
    BY <1>0, <1>1, AuthReaches
  <1>3. /\ faults' \in 0..MaxFaults /\ faults <= faults'
        /\ faults' = 0 => faults = 0 /\ (a \in ErrorCode => a = call[c].user)
    BY <1>0, <1>1, Codes, RegistrationConstants DEF Fault, RegistrationType
  <1>4. RegistrationType' /\ Grows
    BY <1>0, <1>2, <1>3, RegistrationConstants DEF RegistrationType, Grows, Reaches
  <1>5. InStep(c)'
    BY <1>0, <1>1, <1>2, Codes DEF InStep, SameRequest, Matches, Reaches
  <1>6. faults' = 0 => PassedOn(c)'
    BY <1>0, <1>1, <1>2, <1>3, Codes DEF PassedOn, InStep, Reaches
  <1>7. CallsInv'
    BY <1>0, <1>2, <1>3, <1>4, <1>5, <1>6, OneCallGoesOn, RegistrationConstants DEF RegistrationType, Reaches
  <1>8. SessionInv' /\ TokenInv'
    BY <1>0, <1>2, ServiceKeeps DEF Reaches
  <1> QED BY <1>0, <1>4, <1>7, <1>8 DEF Inv, EmailInv

\* A session is issued with a token that is stored.
LEMMA IssueKeeps ==
    ASSUME Inv, NEW c \in Calls, Issue(c)
    PROVE  Inv'
  <1>0. /\ RegistrationType /\ CallsInv /\ call \in [Calls -> Call] /\ call[c].auth = "issuing"
        /\ InStep(c) /\ (faults = 0 => PassedOn(c))
        /\ UNCHANGED <<form, seed, accounts, solved, spent, early>>
    BY DEF Inv, RegistrationType, CallsInv, Issue, captcha
  <1>1. PICK a \in {"OK", "INTERNAL_ERROR"} :
            /\ call' = [call EXCEPT ![c].auth = a]
            /\ (a = "OK" /\ c \in refresh') \/ (a = "INTERNAL_ERROR" /\ Fault)
    <2>1. Body(Other).code = "INTERNAL_ERROR"
      BY Codes
    <2>2. CASE refresh' = Stored(c) /\ call' = [call EXCEPT ![c].auth = "OK"]
      <3>1. c \in refresh'
        BY <2>2 DEF Stored
      <3> QED BY <2>2, <3>1
    <2>3. CASE Throws(c, Other) /\ Fault
      BY <2>1, <2>3 DEF Throws
    <2> QED BY <2>2, <2>3 DEF Issue
  <1>2. Reaches(c, call[c].gate, a, call[c].user)
    <2>1. "INTERNAL_ERROR" \in ErrorCode
      BY Codes
    <2> QED BY <1>0, <1>1, <2>1, AuthReaches
  <1>3. /\ faults' \in 0..MaxFaults /\ faults <= faults' /\ (faults' = 0 => faults = 0 /\ a = "OK")
    BY <1>0, <1>1, RegistrationConstants DEF Issue, Fault, RegistrationType
  <1>4. refresh \subseteq refresh' /\ refresh' \subseteq refresh \cup {c}
    BY DEF Issue, Stored
  <1>5. RegistrationType' /\ Grows
    BY <1>0, <1>2, <1>3, <1>4, RegistrationConstants DEF RegistrationType, Grows, Reaches
  <1>6. InStep(c)'
    BY <1>0, <1>1, <1>2, Codes DEF InStep, SameRequest, Matches, Reaches
  <1>7. faults' = 0 => PassedOn(c)'
    <2>1. "OK" \notin ErrorCode
      BY Codes
    <2>2. call[c].gate \notin ErrorCode \/ faults # 0
      BY <1>0, Codes DEF PassedOn
    <2> QED BY <1>0, <1>2, <1>3, <2>1, <2>2 DEF PassedOn, Reaches
  <1>8. CallsInv'
    BY <1>0, <1>2, <1>3, <1>5, <1>6, <1>7, OneCallGoesOn, RegistrationConstants DEF RegistrationType, Reaches
  <1>9. SessionInv' /\ TokenInv'
    BY <1>0, <1>2, ServiceKeeps DEF Reaches
  <1> QED BY <1>0, <1>5, <1>8, <1>9 DEF Inv, EmailInv

-----------------------------------------------------------------------------
(* user-service.                                                           *)

\* An answer of user-service leaves the call in step, if a success comes with a matching
\* account.
LEMMA UserKeeps ==
    ASSUME Inv, NEW c \in Calls, call[c].user \in {"checking", "hashing"},
           NEW u \in {"hashing", "OK"} \cup ErrorCode, call' = [call EXCEPT ![c].user = u],
           u = "OK" => Matches(c)', EmailInv', accounts \subseteq accounts', accounts' \subseteq Account,
           UNCHANGED <<form, seed, refresh, solved, spent, early>>,
           faults' \in 0..MaxFaults, faults <= faults'
    PROVE  Inv'
  <1>0. /\ RegistrationType /\ CallsInv /\ call \in [Calls -> Call]
        /\ InStep(c) /\ (faults = 0 => PassedOn(c))
    BY DEF Inv, RegistrationType, CallsInv
  <1>2. Reaches(c, call[c].gate, call[c].auth, u)
    BY <1>0, UserReaches
  <1>4. RegistrationType' /\ Grows
    BY <1>0, <1>2, RegistrationConstants DEF RegistrationType, Grows, Reaches
  <1>5. InStep(c)'
    BY <1>0, <1>2, Codes DEF InStep, SameRequest, Reaches
  <1>6. faults' = 0 => PassedOn(c)'
    <2>1. faults' = 0 => faults = 0
      BY <1>0, RegistrationConstants DEF RegistrationType
    <2>2. call[c].user \notin ErrorCode /\ call[c].user # "none"
      BY Codes
    <2> QED BY <1>0, <1>2, <2>1, <2>2 DEF PassedOn, Reaches
  <1>7. CallsInv'
    BY <1>0, <1>2, <1>4, <1>5, <1>6, OneCallGoesOn, RegistrationConstants DEF RegistrationType, Reaches
  <1>8. SessionInv' /\ TokenInv'
    BY <1>0, <1>2, ServiceKeeps DEF Reaches
  <1> QED BY <1>4, <1>7, <1>8 DEF Inv

\* verifyCredentials finds a matching account, or register goes on to hash, or neither.
LEMMA CheckUserKeeps ==
    ASSUME Inv, NEW c \in Calls, CheckUser(c)
    PROVE  Inv'
  <1>0. /\ RegistrationType /\ EmailInv /\ call \in [Calls -> Call]
        /\ UNCHANGED <<form, seed, accounts, refresh, solved, spent, early, faults>>
        /\ faults \in 0..MaxFaults /\ accounts \subseteq Account
    BY DEF Inv, RegistrationType, CheckUser, backend, captcha
  <1>1. PICK u \in {"hashing", "OK"} \cup ErrorCode :
            call' = [call EXCEPT ![c].user = u] /\ (u = "OK" => Matches(c))
    <2>1. Body(Api("DUPLICATE_EMAIL")).code = "DUPLICATE_EMAIL" /\ "DUPLICATE_EMAIL" \in ErrorCode
      BY Codes
    <2>2. Body(Http(401)).code = "UNAUTHORIZED" /\ "UNAUTHORIZED" \in ErrorCode
      BY Codes
    <2>3. CASE call[c].page = "register"
      BY <2>1, <2>3 DEF CheckUser, Replies
    <2>4. CASE call[c].page # "register" /\ Matches(c)
      BY <2>4 DEF CheckUser, Replies
    <2>5. CASE call[c].page # "register" /\ ~Matches(c)
      BY <2>2, <2>5 DEF CheckUser, Replies
    <2> QED BY <2>3, <2>4, <2>5
  <1>2. u = "OK" => Matches(c)'
    BY <1>0, <1>1, UserReaches DEF Matches, Reaches, SameRequest
  <1>3. EmailInv'
    BY <1>0 DEF EmailInv
  <1>4. faults <= faults'
    BY <1>0, RegistrationConstants
  <1>5. call[c].user \in {"checking", "hashing"}
    BY DEF CheckUser
  <1> QED BY <1>0, <1>1, <1>2, <1>3, <1>4, <1>5, UserKeeps

\* The unique index lets one account in per email, in the case it is stored in.
LEMMA InsertUserKeeps ==
    ASSUME Inv, NEW c \in Calls, InsertUser(c)
    PROVE  Inv'
  <1>0. /\ RegistrationType /\ EmailInv /\ call \in [Calls -> Call] /\ InStep(c)
        /\ UNCHANGED <<form, seed, refresh, solved, spent, early, faults>>
        /\ faults \in 0..MaxFaults /\ accounts \subseteq Account /\ call[c].user = "hashing"
    BY DEF Inv, RegistrationType, CallsInv, InsertUser, captcha
  <1>1. faults <= faults'
    BY <1>0, RegistrationConstants
  <1>2. CASE Indexed(c)
    <2> DEFINE a == [id |-> c, email |-> ToLower(call[c].email), password |-> call[c].password]
    <2>1. accounts' = accounts \cup {a} /\ call' = [call EXCEPT ![c].user = "OK"]
      BY <1>2 DEF InsertUser, Replies
    <2>2. call[c].email \in Emails
      <3>1. call[c].gate # "none"
        BY <1>0 DEF InStep
      <3> QED BY <1>0, <3>1 DEF InStep
    <2>3. a \in Account
      BY <1>0, <2>2 DEF Account, Call
    <2>4. EmailInv'
      BY <1>0, <1>2, <2>1 DEF EmailInv, Indexed, Known
    <2>5. Matches(c)'
      <3>1. SameRequest(c)
        BY <1>0, <2>1, UserReaches DEF Reaches
      <3>2. a \in accounts' /\ a.email = ToLower(call'[c].email) /\ a.password = call'[c].password
        BY <2>1, <3>1 DEF SameRequest
      <3> QED BY <3>2 DEF Matches
    <2> HIDE DEF a
    <2> QED BY <1>0, <1>1, <2>1, <2>3, <2>4, <2>5, UserKeeps
  <1>3. CASE ~Indexed(c)
    <2>1. Body(Other).code = "INTERNAL_ERROR" /\ "INTERNAL_ERROR" \in ErrorCode /\ "INTERNAL_ERROR" # "OK"
      BY Codes
    <2>2. accounts' = accounts /\ call' = [call EXCEPT ![c].user = "INTERNAL_ERROR"]
      BY <1>3, <2>1 DEF InsertUser, Replies
    <2>3. EmailInv'
      BY <1>0, <2>2 DEF EmailInv
    <2> QED BY <1>0, <1>1, <2>1, <2>2, <2>3, UserKeeps
  <1> QED BY <1>2, <1>3

\* A query or insert that fails is an internal error.
LEMMA UserBreaksKeeps ==
    ASSUME Inv, NEW c \in Calls, UserBreaks(c)
    PROVE  Inv'
  <1>0. /\ RegistrationType /\ EmailInv /\ call \in [Calls -> Call]
        /\ UNCHANGED <<form, seed, accounts, refresh, solved, spent, early>>
        /\ accounts \subseteq Account /\ call[c].user \in {"checking", "hashing"}
    BY DEF Inv, RegistrationType, UserBreaks, backend, captcha
  <1>1. faults' \in 0..MaxFaults /\ faults <= faults'
    BY <1>0, RegistrationConstants DEF UserBreaks, Fault, RegistrationType
  <1>2. Body(Other).code = "INTERNAL_ERROR" /\ "INTERNAL_ERROR" \in ErrorCode /\ "INTERNAL_ERROR" # "OK"
    BY Codes
  <1>3. call' = [call EXCEPT ![c].user = "INTERNAL_ERROR"]
    BY <1>2 DEF UserBreaks, Replies
  <1>4. EmailInv'
    BY <1>0 DEF EmailInv
  <1> QED BY <1>0, <1>1, <1>2, <1>3, <1>4, UserKeeps

-----------------------------------------------------------------------------
(* The pages and the seed job.                                             *)

\* While no call moves, all stay in step.
LEMMA CallsRest ==
    ASSUME Inv, UNCHANGED <<call, accounts, refresh, spent, faults>>,
           solved' \in 0..MaxTokens, solved <= solved'
    PROVE  CallsInv' /\ EmailInv'
  <1>1. RegistrationType /\ CallsInv /\ EmailInv /\ faults \in Nat /\ solved' \in Nat
    BY RegistrationConstants DEF Inv, RegistrationType
  <1>2. Grows
    BY <1>1 DEF Grows, RegistrationType
  <1>3. \A c \in Calls : InStep(c)' /\ (faults' = 0 => PassedOn(c)')
    BY <1>1, <1>2, CallKept DEF SameRequest
  <1> QED BY <1>1, <1>3 DEF CallsInv, EmailInv

\* A form that is left alone, has lost its token, or is about to, is as good as before.
LEMMA FormsCleared ==
    ASSUME Inv, form' \in [Tabs -> Form], UNCHANGED <<solved, early>>,
           \A t \in Tabs : \/ form'[t] = form[t]
                           \/ /\ form'[t].token = form[t].token /\ form'[t].reset
                              /\ form'[t].session = form[t].session
                           \/ /\ form'[t].token = 0
                              /\ \/ form'[t].session \in {0, form[t].session}
                                 \/ call[form'[t].session].gate = "OK" /\ form'[t].session \in Calls,
           \A c \in Calls : /\ call'[c].token = call[c].token
                            /\ call[c].gate = "OK" => call'[c].gate = "OK"
    PROVE  SessionInv' /\ TokenInv'
  <1>1. form \in [Tabs -> Form] /\ SessionInv /\ TokenInv /\ solved \in Nat
    BY RegistrationConstants DEF Inv, RegistrationType
  <1>2. \A t \in Tabs : form[t].session # 0 => form[t].session \in Calls
    BY <1>1 DEF Form
  <1>3. SessionInv'
    BY <1>1, <1>2 DEF SessionInv
  <1>4. TokenSubmittedOnce'
    BY <1>1 DEF TokenInv, TokenSubmittedOnce
  <1>5. \A t \in Tabs : \/ form'[t] = form[t] \/ form'[t].token = 0
                        \/ form'[t].token = form[t].token /\ form'[t].reset
    OBVIOUS
  <1>7. \A c \in early : c \in Calls
    BY DEF Inv, RegistrationType
  <1>6. TokenInv'
    BY <1>1, <1>4, <1>5, <1>7 DEF TokenInv
  <1> QED BY <1>3, <1>6

\* A captcha that is solved is a new one.
LEMMA SolveKeeps ==
    ASSUME Inv, NEW t \in Tabs, Solve(t)
    PROVE  Inv'
  <1>0. /\ RegistrationType /\ CallsInv /\ SessionInv /\ TokenInv
        /\ form \in [Tabs -> Form] /\ form[t] \in Form /\ solved \in Nat
        /\ form' = [form EXCEPT ![t].token = solved + 1] /\ solved' = solved + 1
        /\ UNCHANGED <<call, seed, accounts, refresh, spent, early, faults>>
        /\ solved' \in 0..MaxTokens /\ solved <= solved'
    BY RegistrationConstants DEF Inv, RegistrationType, Solve, backend
  <1>1. /\ form' \in [Tabs -> Form] /\ \A u \in Tabs : u # t => form'[u] = form[u]
        /\ form'[t].token = solved + 1 /\ form'[t].session = form[t].session
    BY <1>0 DEF Form
  <1>2. RegistrationType'
    <2>1. spent' \subseteq 1..solved'
      BY <1>0 DEF RegistrationType
    <2> QED BY <1>0, <1>1, <2>1 DEF RegistrationType
  <1>3. SessionInv'
    BY <1>0, <1>1 DEF SessionInv
  <1>4. TokenInv'
    <2>1. \A c \in Calls : call'[c].token # solved + 1
      BY <1>0 DEF CallsInv, InStep
    <2>2. \A u \in Tabs : form[u].token # solved + 1 /\ form[u].token \in 0..solved
      BY <1>0 DEF TokenInv
    <2>3. TokenSubmittedOnce'
      BY <1>0 DEF TokenInv, TokenSubmittedOnce
    <2> QED BY <1>0, <1>1, <2>1, <2>2, <2>3 DEF TokenInv
  <1> QED BY <1>0, <1>2, <1>3, <1>4, CallsRest DEF Inv

\* A form that expires, is reset or is left for the other page has no token any more.
LEMMA ExpireKeeps ==
    ASSUME Inv, NEW t \in Tabs, Expire(t) \/ ResetCaptcha(t) \/ \E page \in Pages : GoTo(t, page)
    PROVE  Inv'
  <1>0. /\ RegistrationType /\ form \in [Tabs -> Form] /\ form[t] \in Form /\ solved \in Nat
        /\ UNCHANGED <<call, seed, accounts, refresh, solved, spent, early, faults>>
        /\ solved' \in 0..MaxTokens /\ solved <= solved'
    BY RegistrationConstants DEF Inv, RegistrationType, Expire, ResetCaptcha, GoTo, backend, captcha
  <1>1. /\ form' \in [Tabs -> Form] /\ \A u \in Tabs : u # t => form'[u] = form[u]
        /\ form'[t].token = 0 /\ form'[t].session \in {0, form[t].session}
    <2>1. CASE Expire(t) \/ ResetCaptcha(t)
      <3>1. Cleared(form[t]) \in Form /\ Cleared(form[t]).token = 0
            /\ Cleared(form[t]).session = form[t].session
        BY <1>0 DEF Cleared, Form
      <3>2. form' = [form EXCEPT ![t] = Cleared(form[t])]
        BY <2>1 DEF Expire, ResetCaptcha
      <3> QED BY <1>0, <3>1, <3>2
    <2>2. CASE \E page \in Pages : GoTo(t, page)
      BY <1>0, <2>2 DEF GoTo, Form, NewForm
    <2> QED BY <2>1, <2>2
  <1>2. SessionInv' /\ TokenInv'
    BY <1>0, <1>1, FormsCleared
  <1>3. RegistrationType'
    BY <1>0, <1>1 DEF RegistrationType
  <1> QED BY <1>0, <1>2, <1>3, CallsRest DEF Inv

\* A call that is made starts in step.
LEMMA SentInStep ==
    ASSUME Inv, NEW c \in Calls, NEW by \in Tabs \cup {"seed"}, NEW page \in Pages,
           NEW email \in Emails, NEW password \in Entered, NEW token \in 0..solved,
           Sent(c, by, page, email, password, token),
           UNCHANGED <<accounts, refresh, solved, spent, faults>>
    PROVE  /\ call' \in [Calls -> Call] /\ CallsInv' /\ EmailInv' /\ OthersKept(c)
           /\ call'[c].token = token /\ call[c].token = 0 /\ call[c].gate = "none"
  <1>0. /\ RegistrationType /\ CallsInv /\ EmailInv /\ call \in [Calls -> Call]
        /\ solved \in Nat /\ faults \in Nat
    BY RegistrationConstants DEF Inv, RegistrationType
  <1> DEFINE n == [Unused EXCEPT !.by = by, !.page = page, !.email = email, !.password = password,
                                 !.token = token, !.waits = TRUE, !.gate = "sent"]
  <1>1. /\ call[c].token = 0 /\ call[c].gate = "none"
        /\ call' = [call EXCEPT ![c] = n]
    BY DEF Sent, Unused
  <1>2. /\ n \in Call /\ n.by = by /\ n.email = email /\ n.token = token
        /\ n.gate = "sent" /\ n.auth = "none" /\ n.user = "none"
    <2>1. token \in Nat
      BY <1>0
    <2> QED BY <2>1 DEF Call, Unused
  <1> HIDE DEF n
  <1>3. call' \in [Calls -> Call] /\ OthersKept(c) /\ call'[c] = n
    BY <1>0, <1>1, <1>2 DEF OthersKept
  <1>4. InStep(c)' /\ PassedOn(c)'
    BY <1>0, <1>2, <1>3, Codes DEF InStep, PassedOn
  <1>5. Grows /\ faults' \in Nat /\ solved' \in Nat
    BY <1>0 DEF Grows
  <1>6. CallsInv'
    BY <1>0, <1>3, <1>4, <1>5, OneCallGoesOn
  <1> QED BY <1>0, <1>1, <1>2, <1>3, <1>6 DEF EmailInv

\* A form submits its token while it is not busy, and is busy then; if the widget was about
\* to be reset, the token goes with the submission.
LEMMA SubmitKeeps ==
    ASSUME Inv, NEW t \in Tabs, NEW c \in Calls, NEW email \in Emails, NEW password \in Passwords,
           Submit(t, c, email, password)
    PROVE  Inv'
  <1>0. /\ RegistrationType /\ SessionInv /\ TokenInv
        /\ form \in [Tabs -> Form] /\ form[t] \in Form /\ form[t].token \in 0..solved /\ form[t].token # 0
        /\ form[t].busy = 0 /\ c # 0 /\ 0 \notin Calls /\ early \subseteq Calls
        /\ UNCHANGED <<seed, accounts, refresh, solved, spent, faults>>
    BY RegistrationConstants DEF Inv, TokenInv, RegistrationType, Submit, backend, Calls
  <1>1. /\ form' \in [Tabs -> Form] /\ \A u \in Tabs : u # t => form'[u] = form[u]
        /\ form'[t].session = form[t].session /\ form'[t].busy = c
        /\ IF form[t].reset
           THEN form'[t].token = 0 /\ early' = early \cup {c}
           ELSE form'[t].token = form[t].token /\ early' = early
    <2>1. CASE form[t].reset
      <3> DEFINE new == [Cleared(form[t]) EXCEPT !.busy = c]
      <3>1. new \in Form /\ new.token = 0 /\ new.busy = c /\ new.session = form[t].session
        BY <1>0 DEF Cleared, Form
      <3>2. form' = [form EXCEPT ![t] = new] /\ early' = early \cup {c}
        BY <2>1 DEF Submit
      <3> HIDE DEF new
      <3> QED BY <1>0, <2>1, <3>1, <3>2
    <2>2. CASE ~form[t].reset
      BY <1>0, <2>2 DEF Submit, Form
    <2> QED BY <2>1, <2>2
  <1>2. /\ call' \in [Calls -> Call] /\ CallsInv' /\ EmailInv' /\ OthersKept(c)
        /\ call'[c].token = form[t].token /\ call[c].token = 0 /\ call[c].gate = "none"
    <2>1. form[t].page \in Pages /\ password \in Entered
      BY <1>0 DEF Form, Entered
    <2> QED BY <1>0, <2>1, SentInStep DEF Submit
  <1>3. RegistrationType'
    BY <1>0, <1>1, <1>2 DEF RegistrationType
  <1>4. SessionInv'
    <2>1. \A u \in Tabs : form[u].session # 0 => form[u].session \in Calls
      BY <1>0 DEF Form
    <2> QED BY <1>0, <1>1, <1>2, <2>1 DEF SessionInv, OthersKept
  <1>5. /\ c \notin early
        /\ \A d \in Calls : d # c => /\ call'[d] = call[d]
                                     /\ call[d].token = form[t].token => form[t].reset /\ d \notin early
    BY <1>0, <1>2 DEF TokenInv, OthersKept
  <1>6. TokenSubmittedOnce'
    <2> SUFFICES ASSUME NEW d \in Calls, NEW e \in Calls, call'[d].token # 0,
                        call'[d].token = call'[e].token, d # e
                 PROVE  (d \in early') # (e \in early')
      BY DEF TokenSubmittedOnce
    <2>1. CASE d = c
      <3>1. form[t].reset /\ e \notin early
        BY <1>2, <1>5, <2>1
      <3> QED BY <1>1, <2>1, <3>1
    <2>2. CASE e = c
      <3>1. form[t].reset /\ d \notin early
        BY <1>2, <1>5, <2>2
      <3> QED BY <1>1, <2>2, <3>1
    <2>3. CASE d # c /\ e # c
      <3>1. (d \in early) # (e \in early)
        BY <1>0, <1>5, <2>3 DEF TokenInv, TokenSubmittedOnce
      <3>2. (d \in early' <=> d \in early) /\ (e \in early' <=> e \in early)
        BY <1>1, <2>3
      <3> QED BY <3>1, <3>2
    <2> QED BY <2>1, <2>2, <2>3
  <1>7. \A u \in Tabs : form'[u].token \in {0, form[u].token}
    BY <1>1
  <1>8. ASSUME NEW u \in Tabs, NEW d \in Calls, form'[u].token # 0, call'[d].token = form'[u].token
        PROVE  (form'[u].busy # 0 \/ form'[u].reset) /\ d \notin early'
    <2>1. form'[u].token = form[u].token
      BY <1>7, <1>8
    <2>2. CASE u = t
      BY <1>0, <1>1, <1>5, <1>8, <2>1, <2>2
    <2>3. CASE u # t
      <3>1. form[u].token # form[t].token
        BY <1>0, <1>8, <2>1, <2>3 DEF TokenInv
      <3>2. d # c /\ call[d].token = form[u].token /\ form'[u] = form[u]
        BY <1>1, <1>2, <1>5, <1>8, <2>1, <2>3, <3>1
      <3> QED BY <1>0, <1>1, <1>8, <2>1, <3>2 DEF TokenInv
    <2> QED BY <2>2, <2>3
  <1>9. \A d \in early' : call'[d].token # 0
    BY <1>0, <1>1, <1>2, <1>5 DEF TokenInv
  <1>10. \A u \in Tabs : form'[u].token \in 0..solved'
    <2>1. 0 \in 0..solved
      BY <1>0, RegistrationConstants DEF RegistrationType
    <2> QED BY <1>0, <1>7, <2>1 DEF TokenInv
  <1>11. ASSUME NEW u \in Tabs, NEW v \in Tabs, form'[u].token # 0, form'[u].token = form'[v].token
         PROVE  u = v
    <2>1. form'[u].token = form[u].token /\ form'[v].token = form[v].token
      BY <1>7, <1>11
    <2> QED BY <1>0, <1>11, <2>1 DEF TokenInv
  <1>12. TokenInv'
    <2>1. \A u \in Tabs, d \in Calls :
            form'[u].token # 0 /\ call'[d].token = form'[u].token
                => (form'[u].busy # 0 \/ form'[u].reset) /\ d \notin early'
      BY <1>8
    <2>2. \A u, v \in Tabs : form'[u].token # 0 /\ form'[u].token = form'[v].token => u = v
      BY <1>11
    <2> QED BY <1>6, <1>9, <1>10, <2>1, <2>2, Zenon DEF TokenInv
  <1> QED BY <1>2, <1>3, <1>4, <1>12 DEF Inv

\* The seed job's call has no token.
LEMMA SeedRegistersKeeps ==
    ASSUME Inv, NEW c \in Calls, SeedRegisters(c)
    PROVE  Inv'
  <1>0. /\ RegistrationType /\ TokenInv /\ form \in [Tabs -> Form] /\ 0 \in 0..solved
        /\ UNCHANGED <<form, accounts, refresh, solved, spent, early, faults>>
    BY RegistrationConstants DEF Inv, RegistrationType, SeedRegisters, backend, captcha
  <1>1. PICK email \in Emails : Sent(c, "seed", "register", email, 22, 0)
    BY DEF SeedRegisters
  <1>2. /\ call' \in [Calls -> Call] /\ CallsInv' /\ EmailInv' /\ OthersKept(c)
        /\ call'[c].token = 0 /\ call[c].token = 0 /\ call[c].gate = "none"
    <2>1. "register" \in Pages /\ 22 \in Entered
      BY DEF Pages, Entered
    <2> QED BY <1>0, <1>1, <2>1, SentInStep
  <1>3. \A d \in Calls : call'[d].token = call[d].token /\ (call[d].gate = "OK" => call'[d].gate = "OK")
    BY <1>2 DEF OthersKept
  <1>4. SessionInv' /\ TokenInv'
    BY <1>0, <1>3, FormsCleared
  <1>5. RegistrationType'
    BY <1>0, <1>2 DEF RegistrationType
  <1> QED BY <1>2, <1>4, <1>5 DEF Inv

\* A tab that hears of a failure, or no longer waits, is about to lose its token, and is not
\* signed in.
LEMMA FailedForms ==
    ASSUME form \in [Tabs -> Form], NEW u, NEW c \in Calls, Failed(u, c)
    PROVE  /\ form' \in [Tabs -> Form]
           /\ \A t \in Tabs : \/ form'[t] = form[t]
                              \/ /\ form'[t].token = form[t].token /\ form'[t].reset
                                 /\ form'[t].session = form[t].session
  <1>1. CASE UNCHANGED form
    BY <1>1
  <1>2. CASE form' = [form EXCEPT ![u] = Freed(Reset(@))] /\ u \in Tabs
    <2>1. \A f \in Form : /\ Freed(Reset(f)) \in Form /\ Freed(Reset(f)).token = f.token
                          /\ Freed(Reset(f)).reset
                          /\ Freed(Reset(f)).session = f.session
      BY DEF Form, Freed, Reset
    <2> QED BY <1>2, <2>1
  <1>3. CASE form' = [form EXCEPT ![u] = Freed(Reset(@))] /\ u \notin Tabs
    BY <1>3
  <1> QED BY <1>1, <1>2, <1>3 DEF Failed

\* A page that is signed in has spent its captcha token and holds the session of the call.
LEMMA SignedInForms ==
    ASSUME form \in [Tabs -> Form], NEW u, NEW c \in Calls, SignedIn(u, c)
    PROVE  /\ form' \in [Tabs -> Form]
           /\ \A t \in Tabs : \/ form'[t] = form[t]
                              \/ form'[t].token = 0 /\ form'[t].session = c
  <1>1. \A f \in Form : /\ Freed([Cleared(f) EXCEPT !.session = c]) \in Form
                        /\ Freed([Cleared(f) EXCEPT !.session = c]).token = 0
                        /\ Freed([Cleared(f) EXCEPT !.session = c]).session = c
    BY DEF Form, Freed, Cleared
  <1> QED BY <1>1 DEF SignedIn

\* A page that hears of its call, or gives it up, keeps the invariant.
LEMMA HeardKeeps ==
    ASSUME Inv, NEW c \in Calls, form' \in [Tabs -> Form],
           \A t \in Tabs : \/ form'[t] = form[t]
                           \/ /\ form'[t].token = form[t].token /\ form'[t].reset
                              /\ form'[t].session = form[t].session
                           \/ form'[t].token = 0 /\ form'[t].session = c /\ call[c].gate = "OK",
           NEW g, Reaches(c, g, call[c].auth, call[c].user),
           g = call[c].gate \/ (call[c].gate = "sent" /\ g = "lost"),
           UNCHANGED <<accounts, refresh, solved, spent, early>>, faults' \in 0..MaxFaults, faults <= faults'
    PROVE  Inv'
  <1>0. /\ RegistrationType /\ CallsInv /\ EmailInv /\ InStep(c) /\ (faults = 0 => PassedOn(c))
        /\ solved \in Nat /\ faults \in Nat /\ faults' \in Nat
    BY RegistrationConstants DEF Inv, RegistrationType, CallsInv
  <1>1. RegistrationType' /\ Grows
    BY <1>0 DEF RegistrationType, Reaches, Grows
  <1>2. InStep(c)'
    BY <1>0, Codes DEF InStep, SameRequest, Reaches, Matches
  <1>3. faults' = 0 => PassedOn(c)'
    <2>1. faults' = 0 => faults = 0
      BY <1>0
    <2> QED BY <1>0, <2>1, Codes DEF PassedOn, Reaches
  <1>4. CallsInv'
    BY <1>0, <1>1, <1>2, <1>3, OneCallGoesOn DEF Reaches
  <1>5. \A d \in Calls : call'[d].token = call[d].token /\ (call[d].gate = "OK" => call'[d].gate = "OK")
    BY DEF Reaches, OthersKept, SameRequest
  <1>6. SessionInv' /\ TokenInv'
    BY <1>5, FormsCleared
  <1> QED BY <1>0, <1>1, <1>4, <1>6 DEF Inv, EmailInv

\* The answer a page waited for.
LEMMA AnsweredKeeps ==
    ASSUME Inv, NEW c \in Calls, Answered(c)
    PROVE  Inv'
  <1>0. /\ RegistrationType /\ form \in [Tabs -> Form] /\ call \in [Calls -> Call]
        /\ UNCHANGED <<accounts, refresh, solved, spent, early, faults>> /\ faults' \in 0..MaxFaults
        /\ faults <= faults' /\ call[c].gate \in Answers
    BY RegistrationConstants DEF Inv, RegistrationType, Answered, backend, captcha
  <1>1. Reaches(c, call[c].gate, call[c].auth, call[c].user)
    <2>1. call' = [call EXCEPT ![c].waits = FALSE]
      BY DEF Answered
    <2> QED BY <1>0, <2>1 DEF Call, Reaches, OthersKept, SameRequest
  <1>2. CASE UNCHANGED form
    BY <1>0, <1>1, <1>2, HeardKeeps
  <1>3. CASE SignedIn(call[c].by, c) /\ call[c].gate = "OK"
    BY <1>0, <1>1, <1>3, SignedInForms, HeardKeeps
  <1>4. CASE Failed(call[c].by, c)
    BY <1>0, <1>1, <1>4, FailedForms, HeardKeeps
  <1> QED BY <1>2, <1>3, <1>4 DEF Answered

\* The answer that does not come, or comes too late.
LEMMA NoAnswerKeeps ==
    ASSUME Inv, NEW c \in Calls, NoAnswer(c)
    PROVE  Inv'
  <1>0. /\ RegistrationType /\ form \in [Tabs -> Form] /\ call \in [Calls -> Call]
        /\ UNCHANGED <<accounts, refresh, solved, spent, early>> /\ faults' \in 0..MaxFaults
        /\ faults <= faults'
    BY RegistrationConstants DEF Inv, RegistrationType, NoAnswer, backend, captcha, Fault
  <1>1. PICK g \in {call[c].gate, "lost"} :
            /\ Reaches(c, g, call[c].auth, call[c].user)
            /\ g = call[c].gate \/ (call[c].gate = "sent" /\ g = "lost")
    <2> PICK lost \in BOOLEAN :
            call' = [call EXCEPT ![c].waits = FALSE,
                                 ![c].gate = IF lost /\ @ = "sent" THEN "lost" ELSE @]
      BY DEF NoAnswer
    <2> DEFINE g == IF lost /\ call[c].gate = "sent" THEN "lost" ELSE call[c].gate
    <2> DEFINE n == [[call[c] EXCEPT !.waits = FALSE] EXCEPT !.gate = g]
    <2>1. call' = [call EXCEPT ![c] = n]
      BY <1>0 DEF Call
    <2>2. n \in Call /\ n.by = call[c].by /\ n.page = call[c].page /\ n.email = call[c].email
          /\ n.password = call[c].password /\ n.token = call[c].token
          /\ n.gate = g /\ n.auth = call[c].auth /\ n.user = call[c].user
      BY <1>0 DEF Call
    <2>3. g = call[c].gate \/ (call[c].gate = "sent" /\ g = "lost")
      OBVIOUS
    <2> HIDE DEF n, g
    <2>4. Reaches(c, g, call[c].auth, call[c].user)
      BY <1>0, <2>1, <2>2 DEF Reaches, OthersKept, SameRequest
    <2> QED BY <2>3, <2>4
  <1>2. CASE UNCHANGED form
    BY <1>0, <1>1, <1>2, HeardKeeps
  <1>3. CASE Failed(call[c].by, c)
    BY <1>0, <1>1, <1>3, FailedForms, HeardKeeps
  <1> QED BY <1>2, <1>3 DEF NoAnswer

\* Every step of the pages and of the services keeps the invariant.
LEMMA RegistrationStep ==
    ASSUME Inv, [Next]_vars
    PROVE  Inv'
  <1>1. CASE PageStep
    BY <1>1, SolveKeeps, ExpireKeeps, SubmitKeeps, AnsweredKeeps, NoAnswerKeeps, SeedRegistersKeeps
       DEF PageStep
  <1>2. CASE ServiceStep
    BY <1>2, ArriveKeeps, GateHearsKeeps, VerifyKeeps, AuthHearsKeeps, IssueKeeps, CheckUserKeeps,
       InsertUserKeeps, UserBreaksKeeps DEF ServiceStep
  <1>3. CASE UNCHANGED <<form, call, seed, backend, captcha, faults>>
    <2>1. /\ UNCHANGED <<form, call, accounts, refresh, spent, solved, early, faults>>
          /\ RegistrationType /\ SessionInv /\ TokenInv
          /\ solved' \in 0..MaxTokens /\ solved <= solved'
      BY <1>3, RegistrationConstants DEF backend, captcha, Inv, RegistrationType
    <2>2. RegistrationType'
      BY <2>1 DEF RegistrationType
    <2>3. SessionInv' /\ TokenInv'
      BY <2>1 DEF SessionInv, TokenInv, TokenSubmittedOnce
    <2> QED BY <2>1, <2>2, <2>3, CallsRest DEF Inv
  <1> QED BY <1>1, <1>2, <1>3 DEF Next, Clock, vars, backend, captcha

\* The invariant holds before the first request.
LEMMA RegistrationInit == Init => Inv
  <1> SUFFICES ASSUME Init PROVE Inv
    OBVIOUS
  <1>1. Unused \in Call
    BY DEF Call, Unused, Entered
  <1>2. form \in [Tabs -> Form] /\ \A t \in Tabs : form[t].token = 0 /\ form[t].session = 0
    <2>1. \A page \in Pages : /\ NewForm(page) \in Form
                             /\ NewForm(page).token = 0 /\ NewForm(page).session = 0
      BY DEF Form, NewForm
    <2>2. form \in [Tabs -> {NewForm(page) : page \in Pages}]
      BY DEF Init
    <2> QED BY <2>1, <2>2
  <1>3. call \in [Calls -> Call] /\ \A c \in Calls : call[c] = Unused
    BY <1>1 DEF Init
  <1>4. RegistrationType
    BY <1>2, <1>3, RegistrationConstants DEF Init, RegistrationType
  <1>5. \A c \in Calls : /\ call[c].token = 0 /\ call[c].gate = "none" /\ call[c].auth = "none"
                         /\ call[c].user = "none"
    BY <1>3 DEF Unused
  <1>6. CallsInv
    BY <1>5, Codes DEF Init, CallsInv, InStep, PassedOn
  <1>7. SessionInv /\ TokenInv /\ EmailInv
    BY <1>2, <1>5 DEF Init, SessionInv, TokenInv, TokenSubmittedOnce, EmailInv
  <1> QED BY <1>4, <1>6, <1>7 DEF Inv

\* What runs through every step.
THEOREM RegistrationKeepsInStep == Spec => []Inv
  BY RegistrationInit, RegistrationStep, PTL DEF Spec

\* The services agree on every call, and act for none without a captcha that a page has
\* solved and Google has verified.
THEOREM ServicesAgree == Spec => []RegistrationInv
  <1>1. Inv => RegistrationInv
    <2> SUFFICES ASSUME Inv PROVE RegistrationInv
      OBVIOUS
    <2>1. \A c \in Calls : call[c] \in Call
      BY DEF Inv, RegistrationType
    <2>2. TypeOK
      BY <2>1, Codes DEF Inv, RegistrationType, TypeOK, Call, Answers
    <2> QED BY <2>2 DEF Inv, CallsInv, InStep, RegistrationInv
  <1> QED BY <1>1, RegistrationKeepsInStep, PTL

\* However often an email is typed, in whatever case, and whenever two registrations of
\* it meet, it has one account.
THEOREM OneAccount == Spec => []OneAccountPerEmail
  <1>1. Inv => OneAccountPerEmail
    <2> SUFFICES ASSUME Inv, NEW a \in accounts, NEW b \in accounts, ToLower(a.email) = ToLower(b.email)
                 PROVE  a = b
      BY DEF OneAccountPerEmail
    <2>1. ToLower(a.email) = a.email /\ ToLower(b.email) = b.email
      BY RegistrationConstants DEF Inv, RegistrationType, Account
    <2> QED BY <2>1 DEF Inv, EmailInv
  <1> QED BY <1>1, RegistrationKeepsInStep, PTL

\* Whatever times out at whatever hop, a tab that is signed in has a stored refresh token
\* and the account of the email and password it gave.
THEOREM NoTimeoutSignsIn == Spec => []SignedInToAccount
  <1>1. Inv => SignedInToAccount
    <2> SUFFICES ASSUME Inv, NEW t \in Tabs, NEW c \in Calls, form[t].session = c
                 PROVE  c \in refresh /\ Matches(c)
      BY DEF SignedInToAccount, Matches
    <2>1. call[c].gate = "OK"
      BY DEF Inv, SessionInv, Calls
    <2> QED BY <2>1 DEF Inv, CallsInv, InStep
  <1> QED BY <1>1, RegistrationKeepsInStep, PTL

\* A captcha token goes into one call, and into a second only before the widget is reset, for
\* any number of tabs, expiries and failures.
THEOREM OneCallPerToken == Spec => []TokenSubmittedOnce
  <1>1. Inv => TokenSubmittedOnce
    BY DEF Inv, TokenInv
  <1> QED BY <1>1, RegistrationKeepsInStep, PTL

\* Across both hops an error of user-service keeps its code, while no hop fails itself.
THEOREM ErrorsKeepTheirCode == Spec => []CodeSurvives
  <1>1. Inv => CodeSurvives
    <2> SUFFICES ASSUME Inv, NEW c \in Calls, call[c].gate \in Failures, call[c].user \in Failures, faults = 0
                 PROVE  call[c].gate = call[c].user
      BY DEF CodeSurvives
    <2>1. InStep(c) /\ PassedOn(c) /\ call[c] \in Call
      BY DEF Inv, CallsInv, RegistrationType
    <2>2. call[c].gate \in ErrorCode /\ call[c].user \in ErrorCode /\ call[c].user # "none"
      BY <2>1, Codes DEF Call
    <2>3. call[c].auth # "none"
      BY <2>1, <2>2 DEF InStep
    <2> QED BY <2>1, <2>2, <2>3 DEF PassedOn
  <1> QED BY <1>1, RegistrationKeepsInStep, PTL

-----------------------------------------------------------------------------
(* The limiter at the gateway.                                             *)

\* The requests that reach the gateway, and the clock, are the limiter's; nothing else
\* touches its sets.
LEMMA LimiterStep ==
    ASSUME Inv, [Next]_vars
    PROVE  [LimiterNext]_limiterVars
  <1>1. ASSUME NEW c \in Calls, Arrive(c) PROVE LimiterNext
    <2>1. call[c].by \in Tabs \cup {"seed"}
      BY <1>1 DEF Arrive, Inv, CallsInv, InStep
    <2>2. IpOf(call[c].by) \in Identifiers
      BY <2>1, RegistrationConstants
    <2> QED BY <1>1, <2>2 DEF Arrive, LimiterNext
  <1>2. CASE PageStep
    BY <1>2 DEF PageStep, Solve, Expire, ResetCaptcha, GoTo, Submit, Answered, NoAnswer, SeedRegisters
  <1>3. CASE ServiceStep
    BY <1>1, <1>3 DEF ServiceStep, GateHears, Verify, AuthHears, Issue, CheckUser, InsertUser, UserBreaks
  <1> QED BY <1>2, <1>3 DEF Next, Clock, LimiterNext, vars, limiterVars

\* Registration contains the rate limiter as it is specified on its own, ...
THEOREM ContainsLimiter == Spec => LimiterSpec
  <1>1. Init => LimiterInit
    BY DEF Init
  <1> QED BY <1>1, LimiterStep, RegistrationKeepsInStep, PTL DEF Spec, LimiterSpec

\* ... so no address gets more than Limit registrations and logins through in a window.
THEOREM RegistrationsAreLimited == Spec => []WindowBound
  BY ContainsLimiter, LimitIsKept, PTL
=============================================================================
