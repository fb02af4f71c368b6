------------------------------ MODULE Sessions ------------------------------
(***************************************************************************)
(* The sessions of one user (auth.service.ts, setStatus of                 *)
(* users.service.ts).  A session keeps its present refresh token and the   *)
(* last ones it replaced.  A refresh reads the session and the user and    *)
(* then exchanges the token under a guard; what ends sessions (logout,     *)
(* reuse of a token, a new password, deactivation) is written meanwhile.   *)
(* Logins may always be refused (wrong password, lock, second factor).     *)
(***************************************************************************)
EXTENDS Naturals, Sequences, FiniteSets, SequencesExt

CONSTANTS
    Clients,      \* requests in flight at one time
    Sids,         \* sessions
    Gone,         \* no session
    KeptHashes,   \* replaced tokens a session remembers: 10 in the code
    MaxTokens,    \* bound: tokens of one session
    MaxAdmin      \* bound: password changes, deactivations and reactivations

VARIABLES
    account,      \* the user: active, and how often an administrator wrote it
    sessions,     \* the sessions collection
    exchanged,    \* history: the tokens each session exchanged, in order
    visits        \* what each request in flight has read

authVars == <<account, sessions, exchanged, visits>>

NoVisit == [op |-> "none"]
Tokens == 1..MaxTokens

AuthInit ==
    /\ account = [active |-> TRUE, writes |-> 0]
    /\ sessions = [s \in Sids |-> Gone]
    /\ exchanged = [s \in Sids |-> <<>>]
    /\ visits = [c \in Clients |-> NoVisit]

Open(s) == sessions[s] # Gone /\ ~sessions[s].revoked
\* The tokens a session has given out so far: a client may present any of them.
Given(s) == 1..(Len(exchanged[s]) + 1)
\* The token given out next; clients get it only when their exchange succeeds.
Fresh(s) == Len(exchanged[s]) + 2

\* A token that was replaced, and not just now.
Replayed(s, token) ==
    LET kept == sessions[s].previous IN
    /\ token # sessions[s].token /\ Contains(kept, token)
    /\ ~(Last(kept) = token /\ sessions[s].recent)

Begin(c, visit) == visits[c] = NoVisit /\ visits' = [visits EXCEPT ![c] = visit]
End(c) == visits' = [visits EXCEPT ![c] = NoVisit]

-----------------------------------------------------------------------------
\* A login or one of its other ways in has checked the user ...
Login(c) ==
    /\ account.active
    /\ Begin(c, [op |-> "login"])
    /\ UNCHANGED <<account, sessions, exchanged>>

\* ... and creates the session, whatever happened to the user meanwhile.
IssueSession(c, s) ==
    /\ visits[c].op = "login"
    /\ sessions[s] = Gone
    /\ sessions' = [sessions EXCEPT ![s] =
                      [token |-> 1, previous |-> <<>>, recent |-> TRUE, revoked |-> FALSE]]
    /\ End(c)
    /\ UNCHANGED <<account, exchanged>>

\* A refresh with the present token of an open session goes on to the user.  One with
\* another token fails; a replaced token that was not replaced just now ends the session.
Refresh(c, s, token) ==
    /\ Open(s)
    /\ token \in Given(s)
    /\ \/ /\ token = sessions[s].token
          /\ Begin(c, [op |-> "refresh", sid |-> s, token |-> token, checked |-> FALSE])
       \/ /\ Replayed(s, token)
          /\ Begin(c, [op |-> "reuse", sid |-> s])
    /\ UNCHANGED <<account, sessions, exchanged>>

RevokeReused(c) ==
    /\ visits[c].op = "reuse"
    /\ sessions' = [sessions EXCEPT ![visits[c].sid].revoked = TRUE]
    /\ End(c)
    /\ UNCHANGED <<account, exchanged>>

CheckUser(c) ==
    /\ visits[c].op = "refresh" /\ ~visits[c].checked
    /\ IF account.active THEN visits' = [visits EXCEPT ![c].checked = TRUE] ELSE End(c)
    /\ UNCHANGED <<account, sessions, exchanged>>

ExchangeIf(c, unchanged(_, _)) ==
    LET s == visits[c].sid
        token == visits[c].token
        kept == Append(sessions[s].previous, token)
    IN
    /\ visits[c].op = "refresh" /\ visits[c].checked
    /\ Fresh(s) \in Tokens
    /\ IF unchanged(sessions[s], token)
       THEN /\ sessions' = [sessions EXCEPT ![s].token = Fresh(s), ![s].recent = TRUE,
                 ![s].previous = IF Len(kept) > KeptHashes THEN Tail(kept) ELSE kept]
            /\ exchanged' = [exchanged EXCEPT ![s] = Append(@, token)]
       ELSE UNCHANGED <<sessions, exchanged>>
    /\ End(c)
    /\ UNCHANGED account

\* Mutant: the exchange looks only at whether the session is open.
ExchangeOpen(c) == ExchangeIf(c, LAMBDA session, token : ~session.revoked)

\* Mutant: the exchange looks only at the token.
ExchangeUnrevoked(c) == ExchangeIf(c, LAMBDA session, token : session.token = token)

\* The exchange is guarded by the token and by the session not being revoked.
Exchange(c) ==
    ExchangeIf(c, LAMBDA session, token : session.token = token /\ ~session.revoked)

Logout(s) ==
    /\ Open(s)
    /\ sessions' = [sessions EXCEPT ![s].revoked = TRUE]
    /\ UNCHANGED <<account, exchanged, visits>>

\* A deactivation or a new password is written first, and the sessions are revoked
\* after it: all of them, or all but the one the user changes the password in.
Administer(c, active, except) ==
    /\ account.writes < MaxAdmin
    /\ active # account.active => except = Gone
    /\ account' = [active |-> active, writes |-> account.writes + 1]
    /\ IF active /\ ~account.active  \* a reactivation
       THEN UNCHANGED visits
       ELSE Begin(c, [op |-> "revoke", except |-> except])
    /\ UNCHANGED <<sessions, exchanged>>

RevokeUserSessions(c) ==
    /\ visits[c].op = "revoke"
    /\ sessions' = [s \in Sids |-> IF Open(s) /\ s # visits[c].except
                                   THEN [sessions[s] EXCEPT !.revoked = TRUE]
                                   ELSE sessions[s]]
    /\ End(c)
    /\ UNCHANGED <<account, exchanged>>

\* Half a minute after an exchange its token is no longer excused.
GraceEnds(s) ==
    /\ Open(s) /\ sessions[s].recent
    /\ sessions' = [sessions EXCEPT ![s].recent = FALSE]
    /\ UNCHANGED <<account, exchanged, visits>>

\* A request is refused or its process stops.
GiveUp(c) ==
    /\ visits[c] # NoVisit
    /\ End(c)
    /\ UNCHANGED <<account, sessions, exchanged>>

AuthNext ==
    \/ \E c \in Clients :
        \/ Login(c) \/ RevokeReused(c) \/ CheckUser(c) \/ Exchange(c)
        \/ RevokeUserSessions(c) \/ GiveUp(c)
        \/ \E s \in Sids : IssueSession(c, s) \/ (\E token \in Tokens : Refresh(c, s, token))
        \/ \E active \in BOOLEAN, except \in Sids \cup {Gone} : Administer(c, active, except)
    \/ \E s \in Sids : Logout(s) \/ GraceEnds(s)

AuthSpec == AuthInit /\ [][AuthNext]_authVars

-----------------------------------------------------------------------------
AuthTypeOK ==
    /\ account \in [active : BOOLEAN, writes : 0..MaxAdmin]
    /\ \A s \in Sids : sessions[s] # Gone =>
          /\ sessions[s].token \in Tokens
          /\ Len(sessions[s].previous) <= KeptHashes
          /\ {sessions[s].recent, sessions[s].revoked} \subseteq BOOLEAN

\* Of any number of refreshes with one token, at most one gets a new one, so there is
\* one chain of tokens per session: each exchange starts from what the last one gave,
\* and a session remembers exactly the latest of the tokens it replaced (refresh()).
OneTokenChain ==
    \A s \in Sids : sessions[s] # Gone =>
        LET n == Len(exchanged[s]) IN
        /\ \A i \in 1..n : exchanged[s][i] = i
        /\ sessions[s].token = n + 1
        /\ Len(sessions[s].previous) >= 1 \/ n = 0
        /\ IsSuffix(sessions[s].previous, exchanged[s])

\* A revoked session stays revoked and gives no token, not even to a refresh that had
\* read it before the revocation.
RevokedStep ==
    \A s \in Sids :
        sessions[s] # Gone /\ sessions[s].revoked =>
            sessions'[s].revoked /\ sessions'[s].token = sessions[s].token
RevokedIsOver == [][RevokedStep]_authVars
=============================================================================
