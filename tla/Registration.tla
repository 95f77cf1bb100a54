---------------------------- MODULE Registration ----------------------------
(***************************************************************************)
(* Registration and login: RegisterPage and LoginPage in several tabs, and *)
(* the seed job, which calls the same API; the gateway with its rate       *)
(* limiter; auth-service, which has the captcha verified by Google and the *)
(* rest done by user-service; user-service and its users collection.  Each *)
(* caller gives up after its own time limit (the frontend 15 s, the        *)
(* gateway and auth-service 5 s, auth-service 8 s on Google), and what it  *)
(* called goes on.  What the tab does with its session is AuthSession.     *)
(***************************************************************************)
EXTENDS RateLimit, ErrorMapping

CONSTANTS
    Tabs,
    Emails,         \* as users type them
    Passwords,      \* by their length; the register form takes 8 characters or more
    MaxCalls,       \* bound: register and login calls
    MaxTokens,      \* bound: captchas solved
    MaxFaults,      \* bound: time limits exceeded, and queries, commands or connections that fail
    ToLower(_),     \* String.prototype.toLowerCase
    IpOf(_)         \* the address the gateway sees of a tab or of the seed job

ASSUME RegistrationConstants ==
    /\ MaxCalls \in Nat /\ MaxTokens \in Nat /\ MaxFaults \in Nat
    /\ \A x \in Tabs \cup {"seed"} : IpOf(x) \in Identifiers
    /\ \A e \in Emails : ToLower(ToLower(e)) = ToLower(e)

VARIABLES
    form,       \* form[t]: the page of the tab
    call,       \* call[c]: the c-th POST /auth/register or /auth/login
    seed,       \* the seed job: "waiting" for its answer, or what it came to
    accounts,   \* the users collection: [id, email, password]; the id is the call's number
    refresh,    \* the calls for which a refresh token was stored in Redis
    solved,     \* captcha tokens given out
    spent,      \* captcha tokens Google has verified; it verifies each once
    early,      \* the calls sent after a failure was shown and before the widget was reset
    faults

vars == <<now, hits, zset, admitted, form, call, seed, accounts, refresh, solved, spent, early,
          faults>>
backend == <<accounts, refresh>>
captcha == <<solved, spent, early>>

Fault == faults < MaxFaults /\ faults' = faults + 1

Calls == 1..MaxCalls
Pages == {"register", "login"}
Failures == ErrorCode \cup {"NOT_FOUND", "CONFLICT", "NETWORK_ERROR"}
Answers == Failures \cup {"OK"}

\* token: the captcha's, 0 when it is unsolved; reset: the widget's effect has yet to run;
\* session: the call that signed the tab in.
NewForm(page) == [page |-> page, token |-> 0, reset |-> FALSE, busy |-> 0, session |-> 0]
\* gate, auth, user: how far each service is, ending with its answer.
Unused == [by |-> "nobody", page |-> "none", email |-> "none", password |-> 0, token |-> 0,
           waits |-> FALSE, gate |-> "none", auth |-> "none", user |-> "none"]

Init ==
    /\ LimiterInit
    /\ form \in [Tabs -> {NewForm(page) : page \in Pages}]
    /\ call = [c \in Calls |-> Unused]
    /\ seed = "starting"
    /\ accounts = {} /\ refresh = {}
    /\ solved = 0 /\ spent = {} /\ early = {}
    /\ faults = 0

\* A call of the client: nothing is known of it before it arrives.
Sent(c, by, page, email, password, token) ==
    /\ call[c] = Unused /\ \A d \in 1..c - 1 : call[d] # Unused
    /\ call' = [call EXCEPT ![c] =
            [Unused EXCEPT !.by = by, !.page = page, !.email = email, !.password = password,
                           !.token = token, !.waits = TRUE, !.gate = "sent"]]

-----------------------------------------------------------------------------
(* The pages: RegisterPage, LoginPage and their Recaptcha widget.          *)

\* The widget is reset, and the token it gave is taken away.
Cleared(f) == [f EXCEPT !.token = 0, !.reset = FALSE]

Solve(t) ==
    /\ form[t].session = 0 /\ form[t].token = 0 /\ ~form[t].reset /\ solved < MaxTokens
    /\ solved' = solved + 1
    /\ form' = [form EXCEPT ![t].token = solved + 1]
    /\ UNCHANGED <<limiterVars, call, seed, backend, spent, early, faults>>

\* expired-callback: also while a call with the token is under way.  An effect that has
\* yet to run does so before the form is rendered again.
Expire(t) ==
    /\ form[t].session = 0 /\ form[t].token # 0
    /\ form' = [form EXCEPT ![t] = Cleared(@)]
    /\ UNCHANGED <<limiterVars, call, seed, backend, captcha, faults>>

\* The link to the other page; a call that is under way goes on without its page.
GoTo(t, page) ==
    /\ form[t].session = 0 /\ form[t].page # page
    /\ form' = [form EXCEPT ![t] = NewForm(page)]
    /\ UNCHANGED <<limiterVars, call, seed, backend, captcha, faults>>

\* handleSubmit: the button is disabled while busy, or without a token.  It is enabled, and
\* its token the old one, for the moment between a failure and the effect that resets the
\* widget; the submission itself makes that effect run.
Submit(t, c, email, password) ==
    /\ form[t].session = 0 /\ form[t].busy = 0 /\ form[t].token # 0
    /\ Sent(c, t, form[t].page, email, password, form[t].token)
    /\ IF form[t].reset
       THEN /\ form' = [form EXCEPT ![t] = [Cleared(@) EXCEPT !.busy = c]]
            /\ early' = early \cup {c}
       ELSE form' = [form EXCEPT ![t].busy = c] /\ UNCHANGED early
    /\ UNCHANGED <<limiterVars, seed, backend, solved, spent, faults>>

\* A failure is shown, by the code of the answer, and the widget is to be reset.
ResetNever(f) == f
Reset(f) == [f EXCEPT !.reset = TRUE]
\* finally: the page is no longer busy, whatever came of the call.
Freed(f) == [f EXCEPT !.busy = 0]

Failed(t, c) ==
    form' = IF form[t].busy = c /\ form[t].session = 0 THEN [form EXCEPT ![t] = Freed(Reset(@))] ELSE form

\* The effect of Recaptcha, after the failure is on the screen.
ResetCaptcha(t) ==
    /\ form[t].reset
    /\ form' = [form EXCEPT ![t] = Cleared(@)]
    /\ UNCHANGED <<limiterVars, call, seed, backend, captcha, faults>>

\* The tokens and the user are set, and GuestRoute or navigate leads to the catalog.
SignedIn(t, c) == form' = [form EXCEPT ![t] = Freed([Cleared(@) EXCEPT !.session = c])]

Answered(c) ==
    /\ call[c].waits /\ call[c].gate \in Answers
    /\ call' = [call EXCEPT ![c].waits = FALSE]
    /\ IF call[c].by = "seed"
       THEN seed' = call[c].gate /\ UNCHANGED form
       ELSE /\ IF call[c].gate = "OK" THEN SignedIn(call[c].by, c) ELSE Failed(call[c].by, c)
            /\ UNCHANGED seed
    /\ UNCHANGED <<limiterVars, backend, captcha, faults>>

\* The client's time limit, or the connection breaks; the request arrives all the same, or not.
NoAnswer(c) ==
    /\ call[c].waits /\ Fault
    /\ \E lost \in BOOLEAN :
        call' = [call EXCEPT ![c].waits = FALSE,
                             ![c].gate = IF lost /\ @ = "sent" THEN "lost" ELSE @]
    /\ IF call[c].by = "seed"
       THEN seed' = "NETWORK_ERROR" /\ UNCHANGED form
       ELSE Failed(call[c].by, c) /\ UNCHANGED seed
    /\ UNCHANGED <<limiterVars, backend, captcha>>

\* registerOrSkip of the seed job: an account's name, email and password, and no captcha.
SeedRegisters(c) ==
    /\ seed = "starting" /\ seed' = "waiting"
    /\ \E email \in Emails : Sent(c, "seed", "register", email, 22, 0)
    /\ UNCHANGED <<limiterVars, form, backend, captcha, faults>>

-----------------------------------------------------------------------------
(* The gateway: RedisRateLimitGuard, then the ValidationPipe, then the     *)
(* call to auth-service.                                                   *)

\* RegisterDto and LoginDto.
ValidUnsolved(c) == call[c].page = "register" => call[c].password >= 10
Valid(c) == call[c].token # 0 /\ (call[c].page = "register" => call[c].password >= 10)

\* A request that passes the guard is refused as malformed, or auth-service is called.
Passes(c) ==
    call' = [call EXCEPT ![c].gate = IF Valid(c) THEN "calling" ELSE Body(Http(400)).code,
                         ![c].auth = IF Valid(c) THEN "verifying" ELSE @]
Refused(c, exception) == call' = [call EXCEPT ![c].gate = Body(exception).code]

Arrive(c) ==
    /\ call[c].gate = "sent"
    /\ LET ip == IpOf(call[c].by)
       IN  \/ Allows(ip) /\ Passes(c) /\ UNCHANGED faults
           \/ Refuses(ip) /\ Refused(c, Api("RATE_LIMITED")) /\ UNCHANGED faults
           \/ Breaks(ip) /\ (Passes(c) \/ Refused(c, Other)) /\ Fault
    /\ UNCHANGED <<form, seed, backend, captcha>>

GateHears(c) ==
    /\ call[c].gate = "calling"
    /\ \/ /\ call[c].auth \in Answers /\ UNCHANGED faults
          /\ call' = [call EXCEPT ![c].gate = IF call[c].auth = "OK" THEN "OK"
                                              ELSE Body(ToApiException(call[c].auth)).code]
       \/ Fault /\ call' = [call EXCEPT ![c].gate = Body(GaveUp).code]
    /\ UNCHANGED <<limiterVars, form, seed, backend, captcha>>

-----------------------------------------------------------------------------
(* auth-service.                                                           *)

Throws(c, exception) == call' = [call EXCEPT ![c].auth = Body(exception).code]

\* RecaptchaService.verify: Google verifies a token once, and none that is too old; no
\* answer in time is a refusal too, though Google may have verified the token.
Verify(c) ==
    /\ call[c].auth = "verifying"
    /\ \/ /\ call[c].token \notin spent
          /\ spent' = spent \cup {call[c].token}
          /\ call' = [call EXCEPT ![c].auth = "calling", ![c].user = "checking"]
          /\ UNCHANGED faults
       \/ Throws(c, Api("RECAPTCHA_FAILED")) /\ UNCHANGED <<spent, faults>>
       \/ spent' = spent \cup {call[c].token} /\ Throws(c, Api("RECAPTCHA_FAILED")) /\ Fault
    /\ UNCHANGED <<limiterVars, form, seed, backend, solved, early>>

AuthHears(c) ==
    /\ call[c].auth = "calling"
    /\ \/ call[c].user = "OK" /\ call' = [call EXCEPT ![c].auth = "issuing"] /\ UNCHANGED faults
       \/ call[c].user \in Failures /\ Throws(c, ToApiException(call[c].user)) /\ UNCHANGED faults
       \/ Throws(c, GaveUp) /\ Fault
    /\ UNCHANGED <<limiterVars, form, seed, backend, captcha>>

\* issueSession; a Redis that fails may have stored the token.
StoredNever(c) == refresh
Stored(c) == refresh \cup {c}

Issue(c) ==
    /\ call[c].auth = "issuing"
    /\ \/ refresh' = Stored(c) /\ call' = [call EXCEPT ![c].auth = "OK"] /\ UNCHANGED faults
       \/ refresh' \in {refresh, Stored(c)} /\ Throws(c, Other) /\ Fault
    /\ UNCHANGED <<limiterVars, form, seed, accounts, captcha>>

-----------------------------------------------------------------------------
(* user-service.                                                           *)

Known(c) == \E a \in accounts : a.email = ToLower(call[c].email)
Matches(c) == \E a \in accounts : a.email = ToLower(call[c].email) /\ a.password = call[c].password
Replies(c, answer) == call' = [call EXCEPT ![c].user = answer]

\* register looks for the email before it hashes the password; verifyCredentials answers.
CheckUser(c) ==
    /\ call[c].user = "checking"
    /\ IF call[c].page = "register"
       THEN Replies(c, IF Known(c) THEN Body(Api("DUPLICATE_EMAIL")).code ELSE "hashing")
       ELSE Replies(c, IF Matches(c) THEN "OK" ELSE Body(Http(401)).code)
    /\ UNCHANGED <<limiterVars, form, seed, backend, captcha, faults>>

\* The unique index has the last word; its error is no ApiException.
Unindexed(c) == TRUE
Indexed(c) == ~Known(c)

InsertUser(c) ==
    /\ call[c].user = "hashing"
    /\ IF Indexed(c)
       THEN /\ accounts' = accounts \cup
                    {[id |-> c, email |-> ToLower(call[c].email), password |-> call[c].password]}
            /\ Replies(c, "OK")
       ELSE Replies(c, Body(Other).code) /\ UNCHANGED accounts
    /\ UNCHANGED <<limiterVars, form, seed, refresh, captcha, faults>>

UserBreaks(c) ==
    /\ call[c].user \in {"checking", "hashing"} /\ Fault
    /\ Replies(c, Body(Other).code)
    /\ UNCHANGED <<limiterVars, form, seed, backend, captcha>>

-----------------------------------------------------------------------------
PageStep ==
    \/ \E t \in Tabs :
        \/ Solve(t) \/ Expire(t) \/ ResetCaptcha(t)
        \/ \E page \in Pages : GoTo(t, page)
        \/ \E c \in Calls, email \in Emails, password \in Passwords : Submit(t, c, email, password)
    \/ \E c \in Calls : Answered(c) \/ NoAnswer(c) \/ SeedRegisters(c)
ServiceStep ==
    \E c \in Calls :
        \/ Arrive(c) \/ GateHears(c)
        \/ Verify(c) \/ AuthHears(c) \/ Issue(c)
        \/ CheckUser(c) \/ InsertUser(c) \/ UserBreaks(c)
Clock == Elapse /\ UNCHANGED <<form, call, seed, backend, captcha, faults>>

Next == Clock \/ PageStep \/ ServiceStep

Spec == Init /\ [][Next]_vars

-----------------------------------------------------------------------------
(* Properties.                                                             *)

\* Every variable has its shape, and the services agree on a call however they time out:
\* none acts for a call before the one it waits for has, and none without a captcha that
\* a page has solved and Google has verified.
TypeOK ==
    /\ DOMAIN form = Tabs /\ DOMAIN call = Calls
    /\ \A c \in Calls :
        /\ call[c].gate \in {"none", "sent", "lost", "calling"} \cup Answers
        /\ call[c].auth \in {"none", "verifying", "calling", "issuing"} \cup Answers
        /\ call[c].user \in {"none", "checking", "hashing"} \cup Answers
    /\ refresh \subseteq Calls /\ early \subseteq Calls /\ spent \subseteq 1..solved
    /\ solved \in 0..MaxTokens /\ faults \in 0..MaxFaults
RegistrationInv ==
    /\ TypeOK
    /\ \A c \in Calls :
        /\ call[c].user # "none" => call[c].token \in spent
        /\ call[c].auth \in {"issuing", "OK"} => call[c].user = "OK"
        /\ call[c].gate = "OK" => call[c].auth = "OK"

\* An email has one account, though it is typed with capitals and two registrations meet.
OneAccountPerEmail ==
    \A a, b \in accounts : ToLower(a.email) = ToLower(b.email) => a = b

\* A tab is signed in only to an account that exists, with the password it gave, and with
\* a refresh token that is stored: a timeout at no hop is ever taken for a success.
SignedInToAccount ==
    \A t \in Tabs, c \in Calls : form[t].session = c =>
        /\ c \in refresh
        /\ \E a \in accounts : a.email = ToLower(call[c].email) /\ a.password = call[c].password

\* A captcha token goes into one call only, though the form stays open after a failure
\* and a token may expire, or be solved anew, while a call is under way; or into two, when
\* the second is sent before the widget is reset, and never into a third.
TokenSubmittedOnce ==
    \A c, d \in Calls : call[c].token # 0 /\ call[c].token = call[d].token
        => c = d \/ (c \in early) # (d \in early)

\* What user-service finds wrong reaches the client under the same code, across both
\* hops, unless one of them gave up waiting or failed itself.
CodeSurvives ==
    \A c \in Calls : call[c].gate \in Failures /\ call[c].user \in Failures /\ faults = 0
        => call[c].gate = call[c].user
=============================================================================
