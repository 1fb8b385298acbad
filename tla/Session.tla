------------------------------ MODULE Session ------------------------------
(***************************************************************************)
(* The session of one user in several tabs.  Each tab keeps an access and a *)
(* refresh token; a call answered with 401 makes the tab refresh them once, *)
(* the calls that fail meanwhile wait in pendingQueue, and every call is    *)
(* sent a second time at most.  The server knows of the session only the    *)
(* bcrypt hash of a refresh token.                                          *)
(***************************************************************************)
EXTENDS Naturals

CONSTANTS Tabs,
          Calls,        \* API calls; a call is made once, by the tab TabOf
          TabOf,
          MaxExpiries,  \* bound: access tokens that expire
          MaxEndings    \* bound: sign-outs, logouts and refreshes that go wrong

ASSUME SessionAssumption ==
    /\ TabOf \in [Calls -> Tabs]
    /\ MaxExpiries \in Nat /\ MaxEndings \in Nat

VARIABLES
    refreshTokenHash,  \* User.refreshTokenHash: none or stored
    accessToken,       \* of a tab: none (no tokens at all), live or expired
    isRefreshing,      \* tabs whose isRefreshing is true
    pendingQueue,      \* calls that wait for the refresh of their tab
    calls,             \* a call's state, the token it carries and its _retry
    expiries, endings,
    excused            \* history: tabs that lost the session for a good reason

sessionVars == <<refreshTokenHash, accessToken, isRefreshing, pendingQueue, calls,
                 expiries, endings, excused>>

OfTab(c) == {q \in Calls : TabOf[q] = c}

\* The tabs start from the session a login has stored.
SessionInit ==
    /\ refreshTokenHash = "stored"
    /\ accessToken = [c \in Tabs |-> "live"]
    /\ isRefreshing = {} /\ pendingQueue = {}
    /\ calls = [q \in Calls |-> [at |-> "new", token |-> "none", retry |-> FALSE]]
    /\ expiries = 0 /\ endings = 0
    /\ excused = {}

Ending == endings < MaxEndings /\ endings' = endings + 1

-----------------------------------------------------------------------------
(* The tab *)

\* The request interceptor attaches the access token.
Send(q) ==
    /\ calls[q].at = "new"
    /\ calls' = [calls EXCEPT ![q].at = "sent", ![q].token = accessToken[TabOf[q]]]
    /\ UNCHANGED <<refreshTokenHash, accessToken, isRefreshing, pendingQueue,
                   expiries, endings, excused>>

\* requireAuth verifies the token and nothing else.
Succeed(q) ==
    /\ calls[q].at = "sent" /\ calls[q].token = "live"
    /\ calls' = [calls EXCEPT ![q].at = "ok"]
    /\ UNCHANGED <<refreshTokenHash, accessToken, isRefreshing, pendingQueue,
                   expiries, endings, excused>>

Unauthorized(q) == calls[q].at = "sent" /\ calls[q].token # "live"

\* Mutant of FailTwice: it signs the user out.
FailTwiceAndClear(q) ==
    /\ Unauthorized(q) /\ calls[q].retry
    /\ calls' = [calls EXCEPT ![q].at = "failed"]
    /\ accessToken' = [accessToken EXCEPT ![TabOf[q]] = "none"]
    /\ UNCHANGED <<refreshTokenHash, isRefreshing, pendingQueue, expiries, endings, excused>>

\* 401 for a call that was sent again.
FailTwice(q) ==
    /\ Unauthorized(q) /\ calls[q].retry
    /\ calls' = [calls EXCEPT ![q].at = "failed"]
    /\ UNCHANGED <<refreshTokenHash, accessToken, isRefreshing, pendingQueue,
                   expiries, endings, excused>>

\* 401 while the tab refreshes its tokens.
Wait(q) ==
    /\ Unauthorized(q) /\ ~ calls[q].retry
    /\ TabOf[q] \in isRefreshing
    /\ pendingQueue' = pendingQueue \union {q}
    /\ calls' = [calls EXCEPT ![q].at = "waiting", ![q].retry = TRUE]
    /\ UNCHANGED <<refreshTokenHash, accessToken, isRefreshing, expiries, endings, excused>>

\* Mutant of StartRefresh: isRefreshing is set when the answer is there.
RefreshEach(q) ==
    /\ Unauthorized(q) /\ ~ calls[q].retry
    /\ accessToken[TabOf[q]] # "none"
    /\ calls' = [calls EXCEPT ![q].at = "refreshing", ![q].retry = TRUE]
    /\ UNCHANGED <<refreshTokenHash, accessToken, isRefreshing, pendingQueue,
                   expiries, endings, excused>>

\* 401 in a tab with a refresh token: the call asks for new tokens,
StartRefresh(q) ==
    /\ Unauthorized(q) /\ ~ calls[q].retry
    /\ TabOf[q] \notin isRefreshing /\ accessToken[TabOf[q]] # "none"
    /\ isRefreshing' = isRefreshing \union {TabOf[q]}
    /\ calls' = [calls EXCEPT ![q].at = "refreshing", ![q].retry = TRUE]
    /\ UNCHANGED <<refreshTokenHash, accessToken, pendingQueue, expiries, endings, excused>>

\* without one the call fails; nothing waits for it.
NoRefreshToken(q) ==
    /\ Unauthorized(q) /\ ~ calls[q].retry
    /\ TabOf[q] \notin isRefreshing /\ accessToken[TabOf[q]] = "none"
    /\ calls' = [calls EXCEPT ![q].at = "failed", ![q].retry = TRUE]
    /\ UNCHANGED <<refreshTokenHash, accessToken, isRefreshing, pendingQueue,
                   expiries, endings, excused>>

Queued(q) == pendingQueue \intersect OfTab(TabOf[q])

\* Mutant of Refreshed: the calls that wait are forgotten.
RefreshedAlone(q) ==
    /\ calls[q].at = "reissued"
    /\ accessToken' = [accessToken EXCEPT ![TabOf[q]] = "live"]
    /\ isRefreshing' = isRefreshing \ {TabOf[q]}
    /\ pendingQueue' = pendingQueue \ OfTab(TabOf[q])
    /\ calls' = [calls EXCEPT ![q].at = "sent", ![q].token = "live"]
    /\ UNCHANGED <<refreshTokenHash, expiries, endings, excused>>

\* setAuth, onRefreshed(token): the call and those that wait are sent again.
Refreshed(q) ==
    /\ calls[q].at = "reissued"
    /\ accessToken' = [accessToken EXCEPT ![TabOf[q]] = "live"]
    /\ isRefreshing' = isRefreshing \ {TabOf[q]}
    /\ pendingQueue' = pendingQueue \ OfTab(TabOf[q])
    /\ calls' = [p \in Calls |-> IF p \in Queued(q) \union {q}
                                 THEN [calls[p] EXCEPT !.at = "sent", !.token = "live"]
                                 ELSE calls[p]]
    /\ UNCHANGED <<refreshTokenHash, expiries, endings, excused>>

\* The catch block: clearAuth, and onRefreshed(null) rejects those that wait.
GiveUpRefresh(q) ==
    /\ accessToken' = [accessToken EXCEPT ![TabOf[q]] = "none"]
    /\ isRefreshing' = isRefreshing \ {TabOf[q]}
    /\ pendingQueue' = pendingQueue \ OfTab(TabOf[q])
    /\ calls' = [p \in Calls |-> IF p \in Queued(q) \union {q}
                                 THEN [calls[p] EXCEPT !.at = "failed"] ELSE calls[p]]

RefreshDenied(q) ==
    /\ calls[q].at = "denied"
    /\ GiveUpRefresh(q)
    /\ UNCHANGED <<refreshTokenHash, expiries, endings, excused>>

\* Any error does: a lost connection, a 429 of the rate limiter, a 500.
RefreshLost(q) ==
    /\ calls[q].at \in {"refreshing", "reissuing", "reissued", "denied"}
    /\ GiveUpRefresh(q)
    /\ excused' = excused \union {TabOf[q]}
    /\ Ending
    /\ UNCHANGED <<refreshTokenHash, expiries>>

\* The user signs out: the tab forgets the tokens, the server is not told.
SignOut(c) ==
    /\ accessToken[c] # "none"
    /\ accessToken' = [accessToken EXCEPT ![c] = "none"]
    /\ excused' = excused \union {c}
    /\ Ending
    /\ UNCHANGED <<refreshTokenHash, isRefreshing, pendingQueue, calls, expiries>>

Refreshing(c) ==
    {q \in OfTab(c) : calls[q].at \in {"refreshing", "reissuing", "reissued", "denied"}}

\* verifyOtpLogin, registerUser, googleLogin or demoLogin.  A refresh that still runs
\* may end the new session.
SignIn(c) ==
    /\ accessToken[c] = "none"
    /\ refreshTokenHash' = "stored"
    /\ accessToken' = [accessToken EXCEPT ![c] = "live"]
    /\ excused' = IF Refreshing(c) = {} THEN excused \ {c} ELSE excused
    /\ UNCHANGED <<isRefreshing, pendingQueue, calls, expiries, endings>>

\* An access token expires, with the older ones the tab's calls still carry.
Expire(c) ==
    /\ accessToken[c] = "live"
    /\ expiries < MaxExpiries /\ expiries' = expiries + 1
    /\ accessToken' = [accessToken EXCEPT ![c] = "expired"]
    /\ calls' = [q \in Calls |-> IF TabOf[q] = c /\ calls[q].token = "live"
                                 THEN [calls[q] EXCEPT !.token = "expired"] ELSE calls[q]]
    /\ UNCHANGED <<refreshTokenHash, isRefreshing, pendingQueue, endings, excused>>

-----------------------------------------------------------------------------
(* The server *)

\* refreshAuthToken.  bcrypt hashes the first 72 bytes of a token, the header and
\* the start of the user's id: the hash stored matches every refresh token of the
\* user, also one that another tab has replaced since.
VerifyRefresh(q) ==
    /\ calls[q].at = "refreshing"
    /\ calls' = [calls EXCEPT ![q].at = IF refreshTokenHash = "stored" THEN "reissuing" ELSE "denied"]
    /\ UNCHANGED <<refreshTokenHash, accessToken, isRefreshing, pendingQueue,
                   expiries, endings, excused>>

\* issueTokens saves the new hash, whatever happened since the user was read.
Reissue(q) ==
    /\ calls[q].at = "reissuing"
    /\ refreshTokenHash' = "stored"
    /\ calls' = [calls EXCEPT ![q].at = "reissued"]
    /\ UNCHANGED <<accessToken, isRefreshing, pendingQueue, expiries, endings, excused>>

\* logoutUser: the session ends for all tabs.
LogOut(c) ==
    /\ accessToken[c] = "live"
    /\ refreshTokenHash' = "none"
    /\ excused' = Tabs
    /\ Ending
    /\ UNCHANGED <<accessToken, isRefreshing, pendingQueue, calls, expiries>>

-----------------------------------------------------------------------------
CallStep(q) ==
    \/ Succeed(q) \/ FailTwice(q) \/ Wait(q) \/ StartRefresh(q) \/ NoRefreshToken(q)
    \/ VerifyRefresh(q) \/ Reissue(q) \/ Refreshed(q) \/ RefreshDenied(q)

SessionNext ==
    \/ \E q \in Calls : Send(q) \/ CallStep(q) \/ RefreshLost(q)
    \/ \E c \in Tabs : SignOut(c) \/ SignIn(c) \/ Expire(c) \/ LogOut(c)

SessionSpec == SessionInit /\ [][SessionNext]_sessionVars

\* The server answers, and a tab handles the answer.
SessionFairness == \A q \in Calls : WF_sessionVars(CallStep(q))

-----------------------------------------------------------------------------
Call == [at : {"new", "sent", "waiting", "refreshing", "reissuing", "reissued", "denied",
               "ok", "failed"},
         token : {"none", "live", "expired"}, retry : BOOLEAN]

SessionTypeOK ==
    /\ refreshTokenHash \in {"none", "stored"}
    /\ accessToken \in [Tabs -> {"none", "live", "expired"}]
    /\ isRefreshing \subseteq Tabs /\ pendingQueue \subseteq Calls
    /\ calls \in [Calls -> Call]
    /\ expiries \in Nat /\ endings \in Nat /\ excused \subseteq Tabs

\* A tab refreshes its tokens with one call at a time, however many of its calls
\* are answered with 401, in whatever order: isRefreshing is set exactly while one
\* does, and whatever waits in the queue waits for a refresh that is running.
SingleFlight ==
    /\ \A c \in isRefreshing : \E q \in Refreshing(c) : Refreshing(c) = {q}
    /\ \A c \in Tabs \ isRefreshing : Refreshing(c) = {}
    /\ \A q \in Calls : calls[q].at = "waiting" <=> q \in pendingQueue
    /\ \A q \in pendingQueue : TabOf[q] \in isRefreshing

\* Every call ends, with its answer or with an error: none waits in the queue for
\* ever and none is sent again and again.
CallsSettle == \A q \in Calls :
    calls[q].at = "sent" ~> calls[q].at \in {"ok", "failed"}

\* The tabs of a user do not sign each other out: a tab loses its tokens only when
\* its user signs out, the user logged out on the server, a refresh went wrong, or the
\* user signed in again while an earlier refresh was running.
KeptSignedIn == \A c \in Tabs : accessToken[c] = "none" => c \in excused
=============================================================================
