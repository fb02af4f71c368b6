---------------------------- MODULE BrowserSignIn ----------------------------
(***************************************************************************)
(* A browser over the sessions of its user (AuthContext.tsx, client.ts and *)
(* the controller of identity-service).  The refresh token is in a cookie  *)
(* that all tabs share, the access token in the memory of each tab.  A tab *)
(* has two ways to refresh that do not wait for each other: the shared one *)
(* of a request that got a 401, and the one of the timer or a reload.  The *)
(* cookie an answer carries takes effect when the answer arrives.          *)
(***************************************************************************)
EXTENDS Sessions

CONSTANTS
    Tabs,          \* Clients are Tabs \X Ways
    MaxTroubles    \* bound: answers lost, and calls that fail

VARIABLES
    jar,        \* the cookie: a session and a token of it, or NoCookie
    screen,     \* what each tab shows: the session it is signed in to, or Gone
    asked,      \* what each way waits for: "login", "refresh", "logout" or "none"
    answers,    \* answers on their way to the browser
    mine,       \* history: the session of the last login
    overlapped, \* history: the kinds of requests that were in flight with another one
    troubles    \* history: answers lost, and calls that failed

browserVars == <<jar, screen, asked, answers, mine, overlapped, troubles>>

Ways == {"timer", "retry"}
NoCookie == [sid |-> Gone, token |-> 0]
Cookie(s, token) == [sid |-> s, token |-> token]
NoAnswer == [kind |-> "none"]
GrantedAnswer(s, token) == [kind |-> "granted", cookie |-> Cookie(s, token)]
Cleared == [kind |-> "cleared", cookie |-> NoCookie]
TabOf(c) == c[1]
Quiet == \A c \in Clients : asked[c] = "none"

BrowserInit ==
    /\ AuthInit
    /\ jar = NoCookie
    /\ screen = [t \in Tabs |-> Gone]
    /\ asked = [c \in Clients |-> "none"]
    /\ answers = [c \in Clients |-> NoAnswer]
    /\ mine = Gone
    /\ overlapped = {}
    /\ troubles = 0

Sends(c, kind) ==
    /\ asked[c] = "none"
    /\ asked' = [asked EXCEPT ![c] = kind]
    /\ overlapped' = IF Quiet THEN overlapped
                     ELSE overlapped \cup ({asked'[d] : d \in Clients} \ {"none"})
Reply(c, a) == answers' = [answers EXCEPT ![c] = a]
Settle(c) ==
    /\ answers' = [answers EXCEPT ![c] = NoAnswer]
    /\ asked' = [asked EXCEPT ![c] = "none"]

-----------------------------------------------------------------------------
TabLogin(c) ==
    /\ Sends(c, "login")
    /\ Login(c)
    /\ UNCHANGED <<jar, screen, answers, mine, troubles>>

\* The answer of a login sets the cookie.
AnswerLogin(c, s) ==
    /\ IssueSession(c, s)
    /\ Reply(c, GrantedAnswer(s, 1))
    /\ UNCHANGED <<jar, screen, asked, mine, overlapped, troubles>>

\* A refresh takes the cookie along.  The service goes on with it or refuses it.
CookieRefused(cookie) ==
    cookie # NoCookie /\ Open(cookie.sid) =>
        cookie.token # sessions[cookie.sid].token /\ ~Replayed(cookie.sid, cookie.token)

TabRefresh(c) ==
    /\ Sends(c, "refresh")
    /\ \/ /\ CookieRefused(jar)
          /\ Reply(c, Cleared)
          /\ UNCHANGED authVars
       \/ /\ ~CookieRefused(jar)
          /\ Refresh(c, jar.sid, jar.token)
          /\ UNCHANGED answers
    /\ UNCHANGED <<jar, screen, mine, troubles>>

\* The service answers a refresh: with a new cookie, or, whatever went wrong, by
\* clearing the one the browser has.
AnswerRefresh(c) ==
    /\ visits[c].op \in {"refresh", "reuse"}
    /\ RevokeReused(c) \/ CheckUser(c) \/ Exchange(c)
    /\ IF visits'[c] # NoVisit
       THEN UNCHANGED answers
       ELSE Reply(c, IF exchanged' # exchanged
                     THEN GrantedAnswer(visits[c].sid, Fresh(visits[c].sid)) ELSE Cleared)
    /\ UNCHANGED <<jar, screen, asked, mine, overlapped, troubles>>

\* A call the service needs fails, before the exchange or after it (accessToken).
RefreshFails(c) ==
    /\ troubles < MaxTroubles
    /\ visits[c].op = "refresh"
    /\ GiveUp(c) \/ Exchange(c)
    /\ Reply(c, Cleared)
    /\ troubles' = troubles + 1
    /\ UNCHANGED <<jar, screen, asked, mine, overlapped>>

TabLogout(c) ==
    /\ Sends(c, "logout")
    /\ IF jar # NoCookie /\ Open(jar.sid) THEN Logout(jar.sid) ELSE UNCHANGED authVars
    /\ Reply(c, Cleared)
    /\ UNCHANGED <<jar, screen, mine, troubles>>

\* Mutant: the browser drops the cookie of a refresh.
ReceiveAccessOnly(c) ==
    /\ answers[c] # NoAnswer
    /\ jar' = IF asked[c] = "refresh" THEN jar ELSE answers[c].cookie
    /\ screen' = [screen EXCEPT ![TabOf(c)] = answers[c].cookie.sid]
    /\ mine' = IF answers[c].kind = "granted" THEN answers[c].cookie.sid ELSE mine
    /\ Settle(c)
    /\ UNCHANGED <<authVars, overlapped, troubles>>

\* The browser stores the cookie of an answer and the tab its access token.
Receive(c) ==
    /\ answers[c] # NoAnswer
    /\ jar' = answers[c].cookie
    /\ screen' = [screen EXCEPT ![TabOf(c)] = answers[c].cookie.sid]
    /\ mine' = IF answers[c].kind = "granted" THEN answers[c].cookie.sid ELSE mine
    /\ Settle(c)
    /\ UNCHANGED <<authVars, overlapped, troubles>>

\* The network fails on the way back: the tab signs out and the cookie stays.
LoseAnswer(c) ==
    /\ troubles < MaxTroubles
    /\ answers[c] # NoAnswer
    /\ screen' = [screen EXCEPT ![TabOf(c)] = Gone]
    /\ Settle(c)
    /\ troubles' = troubles + 1
    /\ UNCHANGED <<authVars, jar, mine, overlapped>>

\* An answer arrives within half a minute: before its grace ends.
BrowserTime(s) ==
    /\ \A c \in Clients : answers[c].kind = "granted" => answers[c].cookie.sid # s
    /\ GraceEnds(s)
    /\ UNCHANGED browserVars

BrowserNext ==
    \/ \E c \in Clients :
        \/ TabLogin(c) \/ TabRefresh(c) \/ AnswerRefresh(c) \/ RefreshFails(c)
        \/ TabLogout(c) \/ Receive(c) \/ LoseAnswer(c)
        \/ \E s \in Sids : AnswerLogin(c, s)
    \/ \E s \in Sids : BrowserTime(s)

BrowserSpec == BrowserInit /\ [][BrowserNext]_<<authVars, browserVars>>

-----------------------------------------------------------------------------
BrowserTypeOK ==
    /\ jar = NoCookie \/ (jar.sid \in Sids /\ jar.token \in Tokens)
    /\ screen \in [Tabs -> Sids \cup {Gone}]
    /\ mine \in Sids \cup {Gone}

\* While nothing is lost and only refreshes overlap, the cookie is the present token of
\* the session the user signed in to until that session ends, or the browser has none;
\* without overlap it has one.  No refresh is taken for theft (REFRESH_REUSE_GRACE_MS).
SignInKept ==
    overlapped \subseteq {"refresh"} /\ troubles = 0 =>
        /\ Quiet /\ mine # Gone /\ Open(mine) =>
              \/ jar = Cookie(mine, sessions[mine].token)
              \/ jar = NoCookie /\ overlapped # {}
        /\ \A c \in Clients : visits[c].op # "reuse"

\* "Two tabs refreshing at once is normal" (auth.service.ts:50): as long as nothing is
\* lost and only refreshes overlap, a browser keeps the cookie of an open session.
TabsStaySignedIn ==
    overlapped \subseteq {"refresh"} /\ troubles = 0 /\ Quiet /\ mine # Gone /\ Open(mine)
        => jar # NoCookie
=============================================================================
