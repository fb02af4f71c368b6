--------------------------- MODULE Access_proofs ---------------------------
(***************************************************************************)
(* Theorems about who gets in and what is set up for them: sessions,       *)
(* one-time codes, roles, sign-ups and the samples of a pack, for any      *)
(* number of requests in flight, sessions, users, roles, tenants and       *)
(* samples.                                                                *)
(***************************************************************************)
EXTENDS Services, SequenceTheorems, FiniteSetTheorems, TLAPS

-----------------------------------------------------------------------------
(* Sessions *)

Session == [token : Nat, previous : Seq(Nat), recent : BOOLEAN, revoked : BOOLEAN]

\* What the constants are: at least one replaced token is remembered.
SessionConstants ==
  /\ Gone \notin Session /\ Gone \notin Sids
  /\ KeptHashes \in Nat \ {0}

\* The token after n exchanges, and the latest replaced ones in the order of the exchanges.
Latest(q, n) ==
  /\ Len(q) <= n
  /\ Len(q) >= 1 \/ n = 0
  /\ \A i \in 1..Len(q) : q[i] = n - Len(q) + i

InChain(session, given) ==
  session.token = Len(given) + 1 /\ Latest(session.previous, Len(given))

Visits ==
  [op : {"none"}] \cup [op : {"login"}] \cup [op : {"reuse"}, sid : Sids]
  \cup [op : {"refresh"}, sid : Sids, token : Nat, checked : BOOLEAN]
  \cup [op : {"revoke"}, except : Sids \cup {Gone}]

\* The inductive invariant: requests name sessions that exist, and every session is at
\* the end of its chain.
SessionsInv ==
  /\ sessions \in [Sids -> Session \cup {Gone}]
  /\ exchanged \in [Sids -> Seq(Nat)]
  /\ visits \in [Clients -> Visits]
  /\ \A c \in Clients : visits[c].op \in {"refresh", "reuse"} => sessions[visits[c].sid] # Gone
  /\ \A s \in Sids : \A i \in 1..Len(exchanged[s]) : exchanged[s][i] = i
  /\ \A s \in Sids : sessions[s] = Gone => exchanged[s] = <<>>
  /\ \A s \in Sids : sessions[s] # Gone => InChain(sessions[s], exchanged[s])

-----------------------------------------------------------------------------
\* The sessions of other requests stay when sessions are only added or changed.
LEMMA OthersKept ==
  ASSUME SessionsInv, NEW c \in Clients, NEW l \in Visits,
         visits' = [visits EXCEPT ![c] = l],
         \A s \in Sids : sessions[s] # Gone => sessions'[s] # Gone,
         l.op \in {"refresh", "reuse"} => sessions'[l.sid] # Gone
  PROVE  /\ visits' \in [Clients -> Visits]
         /\ \A b \in Clients :
              visits'[b].op \in {"refresh", "reuse"} => sessions'[visits'[b].sid] # Gone
<1>1. visits' \in [Clients -> Visits] BY DEF SessionsInv
<1>2. ASSUME NEW b \in Clients, visits'[b].op \in {"refresh", "reuse"}
      PROVE  sessions'[visits'[b].sid] # Gone
  <2>1. CASE b = c BY <1>2, <2>1 DEF SessionsInv
  <2>2. CASE b # c
    <3>1. visits'[b] = visits[b] /\ visits[b] \in Visits BY <2>2 DEF SessionsInv
    <3>2. visits[b].sid \in Sids BY <1>2, <3>1 DEF Visits
    <3> QED BY <1>2, <3>1, <3>2 DEF SessionsInv
  <2> QED BY <2>1, <2>2
<1> QED BY <1>1, <1>2

LEMMA NoVisitHas == [op |-> "none"] \in Visits /\ NoVisit \in Visits /\ NoVisit.op = "none"
BY DEF Visits, NoVisit

\* Sessions that are revoked, or no longer recent, stay where they are in their chain.
Marked(old, new) ==
  \/ new = old
  \/ old # Gone /\ new = [old EXCEPT !.revoked = TRUE]
  \/ old # Gone /\ new = [old EXCEPT !.recent = FALSE]

LEMMA MarkedIs ==
  ASSUME NEW old \in Session, NEW new, old # Gone => Marked(old, new), old # Gone
  PROVE  /\ new \in Session /\ new.token = old.token /\ new.previous = old.previous
         /\ old.revoked => new.revoked
<1>1. CASE new = old BY <1>1
<1>2. CASE new = [old EXCEPT !.revoked = TRUE] BY <1>2 DEF Session
<1>3. CASE new = [old EXCEPT !.recent = FALSE] BY <1>3 DEF Session
<1> QED BY <1>1, <1>2, <1>3 DEF Marked

LEMMA MarkedStep ==
  ASSUME SessionConstants, SessionsInv, UNCHANGED exchanged,
         sessions' = [s \in Sids |-> sessions'[s]],
         \A s \in Sids : Marked(sessions[s], sessions'[s]),
         \/ UNCHANGED visits
         \/ \E c \in Clients, l \in Visits :
              /\ visits' = [visits EXCEPT ![c] = l]
              /\ l.op \in {"refresh", "reuse"} => sessions[l.sid] # Gone
  PROVE  SessionsInv'
<1>1. ASSUME NEW s \in Sids, sessions[s] # Gone
      PROVE  /\ sessions'[s] \in Session /\ sessions'[s].token = sessions[s].token
             /\ sessions'[s].previous = sessions[s].previous
  BY <1>1, MarkedIs DEF SessionsInv
<1>2. \A s \in Sids : sessions[s] # Gone => sessions'[s] # Gone
  BY <1>1 DEF SessionConstants
<1>3. \A s \in Sids : sessions[s] = Gone => sessions'[s] = Gone BY DEF Marked
<1>4. sessions' \in [Sids -> Session \cup {Gone}] BY <1>1, <1>3
<1>5. \A s \in Sids : sessions'[s] # Gone => InChain(sessions'[s], exchanged'[s])
  <2>1. ASSUME NEW s \in Sids, sessions'[s] # Gone
        PROVE  InChain(sessions'[s], exchanged'[s])
    <3>1. sessions[s] # Gone BY <1>3, <2>1
    <3>2. InChain(sessions[s], exchanged[s]) BY <3>1 DEF SessionsInv
    <3>3. sessions'[s].token = sessions[s].token /\ sessions'[s].previous = sessions[s].previous
      BY <1>1, <3>1
    <3> QED BY <3>2, <3>3 DEF InChain
  <2> QED BY <2>1
<1>6. /\ visits' \in [Clients -> Visits]
      /\ \A b \in Clients :
           visits'[b].op \in {"refresh", "reuse"} => sessions'[visits'[b].sid] # Gone
  <2>1. CASE UNCHANGED visits
    <3>1. \A b \in Clients : visits[b].op \in {"refresh", "reuse"} => visits[b].sid \in Sids
      BY DEF SessionsInv, Visits
    <3> QED BY <1>2, <2>1, <3>1 DEF SessionsInv
  <2>2. CASE ~UNCHANGED visits
    <3>1. PICK c \in Clients, l \in Visits :
            /\ visits' = [visits EXCEPT ![c] = l]
            /\ l.op \in {"refresh", "reuse"} => sessions[l.sid] # Gone
      BY <2>2
    <3>2. l.op \in {"refresh", "reuse"} => l.sid \in Sids BY DEF Visits
    <3>3. l.op \in {"refresh", "reuse"} => sessions'[l.sid] # Gone BY <1>2, <3>1, <3>2
    <3> QED BY <1>2, <3>1, <3>3, OthersKept
  <2> QED BY <2>1, <2>2
<1> QED BY <1>2, <1>3, <1>4, <1>5, <1>6 DEF SessionsInv

-----------------------------------------------------------------------------
\* What an exchange that succeeds does: the request had the present token of a session
\* that is not revoked.
LEMMA ExchangeParts ==
  ASSUME SessionConstants, SessionsInv, NEW c \in Clients, Exchange(c)
  PROVE  \/ UNCHANGED <<sessions, exchanged>> /\ End(c)
         \/ \E s \in Sids :
              /\ sessions[s] \in Session /\ ~sessions[s].revoked
              /\ sessions' = [sessions EXCEPT ![s].token = Fresh(s), ![s].recent = TRUE,
                   ![s].previous =
                      IF Len(Append(sessions[s].previous, sessions[s].token)) > KeptHashes
                      THEN Tail(Append(sessions[s].previous, sessions[s].token))
                      ELSE Append(sessions[s].previous, sessions[s].token)]
              /\ \A r \in Sids : r # s => sessions'[r] = sessions[r]
              /\ exchanged' = [exchanged EXCEPT ![s] = Append(@, sessions[s].token)]
              /\ End(c)
<1> DEFINE s == visits[c].sid
           token == visits[c].token
<1>1. visits[c].op = "refresh" BY DEF Exchange, ExchangeIf
<1>2. s \in Sids /\ sessions[s] \in Session BY <1>1 DEF SessionsInv, Visits
<1>3. CASE sessions[s].token = token /\ ~sessions[s].revoked
  BY <1>2, <1>3 DEF Exchange, ExchangeIf, SessionsInv
<1>4. CASE ~(sessions[s].token = token /\ ~sessions[s].revoked)
  BY <1>4 DEF Exchange, ExchangeIf
<1> QED BY <1>3, <1>4

\* The tokens remembered after an exchange are again the latest ones, and they are when
\* the oldest of them is forgotten.
LEMMA OneMore ==
  ASSUME NEW n \in Nat, NEW q \in Seq(Nat), Latest(q, n)
  PROVE  /\ Append(q, n + 1) \in Seq(Nat) /\ Len(Append(q, n + 1)) = Len(q) + 1
         /\ Latest(Append(q, n + 1), n + 1)
<1> DEFINE kept == Append(q, n + 1)
<1>1. /\ kept \in Seq(Nat) /\ Len(kept) = Len(q) + 1 /\ Len(q) \in Nat
      /\ \A i \in 1..Len(q) : kept[i] = q[i]
      /\ kept[Len(q) + 1] = n + 1
  OBVIOUS
<1> HIDE DEF kept
<1>2. ASSUME NEW i \in 1..Len(kept) PROVE kept[i] = (n + 1) - Len(kept) + i
  <2>1. CASE i \in 1..Len(q)
    <3>1. kept[i] = n - Len(q) + i BY <1>1, <2>1 DEF Latest
    <3> QED BY <1>1, <3>1
  <2>2. CASE i = Len(q) + 1 BY <1>1, <2>2
  <2>3. i \in 1..(Len(q) + 1) BY <1>1
  <2> QED BY <1>1, <2>1, <2>2, <2>3
<1>3. Len(kept) <= n + 1 /\ Len(kept) >= 1 BY <1>1 DEF Latest
<1> QED BY <1>1, <1>2, <1>3 DEF Latest, kept

LEMMA OneLess ==
  ASSUME NEW n \in Nat, NEW q \in Seq(Nat), Latest(q, n), Len(q) >= 2
  PROVE  Tail(q) \in Seq(Nat) /\ Latest(Tail(q), n)
<1> DEFINE t == Tail(q)
<1>1. q # <<>> /\ Len(q) \in Nat OBVIOUS
<1>2. /\ t \in Seq(Nat) /\ Len(t) = Len(q) - 1
      /\ \A i \in 1..Len(t) : t[i] = q[i + 1]
  BY <1>1, HeadTailProperties
<1> HIDE DEF t
<1>3. ASSUME NEW i \in 1..Len(t) PROVE t[i] = n - Len(t) + i
  <2>1. i + 1 \in 1..Len(q) /\ t[i] = q[i + 1] BY SMTT(20), <1>1, <1>2
  <2>2. q[i + 1] = n - Len(q) + (i + 1) BY <2>1 DEF Latest
  <2> QED BY <1>1, <1>2, <2>1, <2>2
<1>4. Len(t) <= n /\ Len(t) >= 1 BY <1>1, <1>2 DEF Latest
<1> QED BY <1>2, <1>3, <1>4 DEF Latest, t

LEMMA ExchangeStep ==
  ASSUME SessionConstants, SessionsInv, NEW c \in Clients, Exchange(c)
  PROVE  SessionsInv'
<1>1. CASE UNCHANGED <<sessions, exchanged>> /\ End(c)
  <2>1. \A s \in Sids : Marked(sessions[s], sessions'[s]) BY <1>1 DEF Marked
  <2>2. sessions' = [s \in Sids |-> sessions'[s]] BY <1>1 DEF SessionsInv
  <2> QED BY <1>1, <2>1, <2>2, NoVisitHas, MarkedStep DEF End
<1>2. CASE ~(UNCHANGED <<sessions, exchanged>> /\ End(c))
  <2>1. PICK s \in Sids :
          /\ sessions[s] \in Session /\ ~sessions[s].revoked
          /\ sessions' = [sessions EXCEPT ![s].token = Fresh(s), ![s].recent = TRUE,
               ![s].previous =
                  IF Len(Append(sessions[s].previous, sessions[s].token)) > KeptHashes
                  THEN Tail(Append(sessions[s].previous, sessions[s].token))
                  ELSE Append(sessions[s].previous, sessions[s].token)]
          /\ exchanged' = [exchanged EXCEPT ![s] = Append(@, sessions[s].token)]
          /\ End(c)
    BY <1>2, ExchangeParts
  <2> DEFINE old == sessions[s]
             n == Len(exchanged[s])
             kept == Append(old.previous, old.token)
             p == IF Len(kept) > KeptHashes THEN Tail(kept) ELSE kept
  <2>2. /\ n \in Nat /\ exchanged[s] \in Seq(Nat) /\ old.previous \in Seq(Nat)
        /\ InChain(old, exchanged[s]) /\ \A i \in 1..n : exchanged[s][i] = i
    BY <2>1 DEF SessionsInv, Session, SessionConstants
  <2>3. old.token = n + 1 /\ Latest(old.previous, n)
    <3> HIDE DEF old
    <3> QED BY <2>2 DEF InChain
  <2>4. /\ exchanged' \in [Sids -> Seq(Nat)] /\ Len(exchanged'[s]) = n + 1
        /\ \A i \in 1..(n + 1) : exchanged'[s][i] = i
        /\ \A r \in Sids : r # s => exchanged'[r] = exchanged[r]
    BY <2>1, <2>2, <2>3 DEF SessionsInv
  <2>5. p \in Seq(Nat) /\ Latest(p, n + 1)
    <3>1. kept \in Seq(Nat) /\ Len(kept) \in Nat /\ Latest(kept, n + 1)
      <4> HIDE DEF old, n
      <4> QED BY <2>2, <2>3, OneMore
    <3> HIDE DEF kept, n
    <3>2. CASE Len(kept) > KeptHashes
      <4>1. Len(kept) >= 2 BY <3>1, <3>2 DEF SessionConstants
      <4> QED BY <2>2, <3>1, <3>2, <4>1, OneLess
    <3> QED BY <3>1, <3>2
  <2>6. /\ sessions' = [sessions EXCEPT ![s].token = n + 2, ![s].recent = TRUE,
                                        ![s].previous = p]
    BY <2>1 DEF Fresh
  <2> HIDE DEF p
  <2>9. /\ sessions'[s] \in Session /\ sessions'[s].token = n + 2 /\ sessions'[s].previous = p
        /\ \A r \in Sids : r # s => sessions'[r] = sessions[r]
        /\ sessions' \in [Sids -> Session \cup {Gone}]
    <3> DEFINE new == [old EXCEPT !.token = n + 2, !.recent = TRUE, !.previous = p]
    <3>1. new \in Session /\ new.token = n + 2 /\ new.previous = p
      <4>1. old \in Session /\ n + 2 \in Nat /\ p \in Seq(Nat) BY <2>1, <2>2, <2>5
      <4> HIDE DEF old, n
      <4> QED BY <4>1 DEF Session
    <3>2. sessions' = [sessions EXCEPT ![s] = new] BY <2>1, <2>6 DEF SessionsInv, Session
    <3> HIDE DEF new
    <3> QED BY <3>1, <3>2 DEF SessionsInv
  <2>10. InChain(sessions'[s], exchanged'[s]) BY <2>2, <2>4, <2>5, <2>9 DEF InChain
  <2>7. /\ visits' \in [Clients -> Visits]
        /\ \A b \in Clients :
             visits'[b].op \in {"refresh", "reuse"} => sessions'[visits'[b].sid] # Gone
    <3>1. \A r \in Sids : sessions[r] # Gone => sessions'[r] # Gone
      BY <2>9 DEF SessionConstants
    <3>2. visits' = [visits EXCEPT ![c] = NoVisit] BY <2>1 DEF End
    <3> QED BY <3>1, <3>2, NoVisitHas, OthersKept
  <2>8. sessions'[s] # Gone BY <2>9 DEF SessionConstants
  <2> QED BY <2>4, <2>7, <2>8, <2>9, <2>10 DEF SessionsInv
<1> QED BY <1>1, <1>2

\* A session that a login creates begins its chain.
LEMMA IssueStep ==
  ASSUME SessionConstants, SessionsInv, NEW c \in Clients, NEW s \in Sids, IssueSession(c, s)
  PROVE  SessionsInv'
<1> DEFINE new == [token |-> 1, previous |-> <<>>, recent |-> TRUE, revoked |-> FALSE]
<1>1. /\ sessions[s] = Gone /\ sessions' = [sessions EXCEPT ![s] = new]
      /\ visits' = [visits EXCEPT ![c] = NoVisit] /\ UNCHANGED exchanged
  BY DEF IssueSession, End
<1>2. exchanged[s] = <<>> BY <1>1 DEF SessionsInv
<1>3. new \in Session /\ InChain(new, exchanged[s]) BY <1>2 DEF Session, InChain, Latest
<1> HIDE DEF new
<1>4. /\ sessions'[s] = new /\ sessions' \in [Sids -> Session \cup {Gone}]
      /\ \A r \in Sids : r # s => sessions'[r] = sessions[r]
  BY <1>1, <1>3 DEF SessionsInv
<1>5. \A r \in Sids : sessions[r] # Gone => sessions'[r] # Gone BY <1>1, <1>4
<1>6. /\ visits' \in [Clients -> Visits]
      /\ \A b \in Clients :
           visits'[b].op \in {"refresh", "reuse"} => sessions'[visits'[b].sid] # Gone
  BY <1>1, <1>5, NoVisitHas, OthersKept
<1> QED BY <1>1, <1>2, <1>3, <1>4, <1>6 DEF SessionsInv

\* A step that reads, is refused, or revokes.
LEMMA QuietStep ==
  ASSUME SessionsInv, UNCHANGED <<sessions, exchanged>>, SessionConstants,
         \/ UNCHANGED visits
         \/ \E c \in Clients, l \in Visits :
              /\ visits' = [visits EXCEPT ![c] = l]
              /\ l.op \in {"refresh", "reuse"} => sessions[l.sid] # Gone
  PROVE  SessionsInv'
<1>1. \A s \in Sids : Marked(sessions[s], sessions'[s]) BY DEF Marked
<1>2. sessions' = [s \in Sids |-> sessions'[s]] BY DEF SessionsInv
<1> QED BY <1>1, <1>2, MarkedStep

LEMMA RefreshStep ==
  ASSUME SessionConstants, SessionsInv, NEW c \in Clients, NEW s \in Sids, NEW token,
         Refresh(c, s, token)
  PROVE  SessionsInv'
<1> DEFINE l == [op |-> "refresh", sid |-> s, token |-> token, checked |-> FALSE]
           r == [op |-> "reuse", sid |-> s]
<1>1. token \in Nat /\ sessions[s] # Gone BY DEF Refresh, Open, Given, SessionsInv
<1>2. l \in Visits /\ r \in Visits /\ l.sid = s /\ r.sid = s BY <1>1 DEF Visits
<1>3. visits' = [visits EXCEPT ![c] = l] \/ visits' = [visits EXCEPT ![c] = r]
  BY DEF Refresh, Begin
<1>4. UNCHANGED <<sessions, exchanged>> BY DEF Refresh
<1> HIDE DEF l, r
<1> QED BY <1>1, <1>2, <1>3, <1>4, QuietStep

LEMMA ReadStep ==
  ASSUME SessionConstants, SessionsInv, NEW c \in Clients,
         \/ Login(c) \/ CheckUser(c) \/ GiveUp(c)
         \/ \E s \in Sids, token \in Tokens : Refresh(c, s, token)
         \/ \E active \in BOOLEAN, except \in Sids \cup {Gone} : Administer(c, active, except)
  PROVE  SessionsInv'
<1>1. UNCHANGED <<sessions, exchanged>>
  BY DEF Login, CheckUser, GiveUp, Refresh, Administer
<1>2. CASE Login(c)
  <2>1. [op |-> "login"] \in Visits BY DEF Visits
  <2>2. visits' = [visits EXCEPT ![c] = [op |-> "login"]] BY <1>2 DEF Login, Begin
  <2> QED BY <1>1, <2>1, <2>2, QuietStep
<1>3. CASE GiveUp(c) BY <1>1, <1>3, NoVisitHas, QuietStep DEF GiveUp, End
<1>4. CASE CheckUser(c)
  <2> DEFINE l == [visits[c] EXCEPT !.checked = TRUE]
  <2>1. visits[c] \in [op : {"refresh"}, sid : Sids, token : Nat, checked : BOOLEAN]
        /\ sessions[visits[c].sid] # Gone
    BY <1>4 DEF CheckUser, SessionsInv, Visits
  <2>2. l \in Visits /\ sessions[l.sid] # Gone BY <2>1 DEF Visits
  <2>3. visits' = [visits EXCEPT ![c] = l] \/ End(c)
    BY <1>4, <2>1 DEF CheckUser, SessionsInv
  <2> HIDE DEF l
  <2>4. CASE End(c) BY <1>1, <2>4, NoVisitHas, QuietStep DEF End
  <2>5. CASE visits' = [visits EXCEPT ![c] = l] BY <1>1, <2>2, <2>5, QuietStep
  <2> QED BY <2>3, <2>4, <2>5
<1>5. ASSUME NEW s \in Sids, NEW token \in Tokens, Refresh(c, s, token) PROVE SessionsInv'
  BY <1>5, RefreshStep
<1>6. ASSUME NEW active \in BOOLEAN, NEW except \in Sids \cup {Gone},
             Administer(c, active, except)
      PROVE  SessionsInv'
  <2> DEFINE l == [op |-> "revoke", except |-> except]
  <2>1. l \in Visits /\ l.op = "revoke" BY DEF Visits
  <2>2. UNCHANGED visits \/ visits' = [visits EXCEPT ![c] = l] BY <1>6 DEF Administer, Begin
  <2> HIDE DEF l
  <2> QED BY <1>1, <2>1, <2>2, QuietStep
<1> QED BY <1>2, <1>3, <1>4, <1>5, <1>6

LEMMA RevokeParts ==
  ASSUME SessionsInv,
         \/ \E c \in Clients : RevokeReused(c) \/ RevokeUserSessions(c)
         \/ \E s \in Sids : Logout(s) \/ GraceEnds(s)
  PROVE  /\ \A s \in Sids : Marked(sessions[s], sessions'[s])
         /\ sessions' = [s \in Sids |-> sessions'[s]] /\ UNCHANGED exchanged
         /\ UNCHANGED visits \/ \E c \in Clients : End(c)
<1>1. ASSUME NEW c \in Clients, RevokeReused(c)
      PROVE  \A s \in Sids : Marked(sessions[s], sessions'[s])
  <2>1. visits[c].sid \in Sids /\ sessions[visits[c].sid] # Gone
    BY <1>1 DEF RevokeReused, SessionsInv, Visits
  <2> QED BY <1>1, <2>1 DEF RevokeReused, SessionsInv, Marked
<1>2. ASSUME NEW c \in Clients, RevokeUserSessions(c)
      PROVE  \A s \in Sids : Marked(sessions[s], sessions'[s])
  BY <1>2 DEF RevokeUserSessions, SessionsInv, Marked, Open
<1>3. ASSUME NEW s \in Sids, Logout(s) \/ GraceEnds(s)
      PROVE  \A r \in Sids : Marked(sessions[r], sessions'[r])
  BY ZenonT(20), <1>3 DEF Logout, GraceEnds, SessionsInv, Marked, Open
<1>4. sessions' = [s \in Sids |-> sessions'[s]] /\ UNCHANGED exchanged
  BY DEF RevokeReused, RevokeUserSessions, Logout, GraceEnds, SessionsInv
<1>5. UNCHANGED visits \/ \E c \in Clients : End(c)
  BY DEF RevokeReused, RevokeUserSessions, Logout, GraceEnds
<1> QED BY <1>1, <1>2, <1>3, <1>4, <1>5

LEMMA RevokeStep ==
  ASSUME SessionConstants, SessionsInv,
         \/ \E c \in Clients : RevokeReused(c) \/ RevokeUserSessions(c)
         \/ \E s \in Sids : Logout(s) \/ GraceEnds(s)
  PROVE  SessionsInv'
<1>1. \/ UNCHANGED visits
      \/ \E c \in Clients, l \in Visits :
           /\ visits' = [visits EXCEPT ![c] = l]
           /\ l.op \in {"refresh", "reuse"} => sessions[l.sid] # Gone
  BY RevokeParts, NoVisitHas DEF End
<1> QED BY <1>1, RevokeParts, MarkedStep

-----------------------------------------------------------------------------
LEMMA SessionsInit == ASSUME SessionConstants, AuthInit PROVE SessionsInv
<1>1. /\ sessions \in [Sids -> Session \cup {Gone}] /\ exchanged \in [Sids -> Seq(Nat)]
      /\ visits \in [Clients -> Visits]
  BY NoVisitHas DEF AuthInit
<1> QED BY <1>1, NoVisitHas DEF AuthInit, SessionsInv

LEMMA SessionsKept ==
  ASSUME SessionConstants, SessionsInv, [AuthNext]_authVars PROVE SessionsInv'
<1>1. CASE UNCHANGED authVars BY <1>1, QuietStep DEF authVars
<1> QED BY <1>1, ExchangeStep, IssueStep, ReadStep, RevokeStep DEF AuthNext

LEMMA ChainSeen == ASSUME SessionsInv PROVE OneTokenChain
<1>1. SUFFICES ASSUME NEW s \in Sids, sessions[s] # Gone
               PROVE  IsSuffix(sessions[s].previous, exchanged[s])
  BY DEF OneTokenChain, SessionsInv, InChain, Latest
<1> DEFINE p == sessions[s].previous
           e == exchanged[s]
<1>2. /\ p \in Seq(Nat) /\ e \in Seq(Nat) /\ Len(p) \in Nat /\ Len(e) \in Nat
      /\ Latest(p, Len(e)) /\ \A i \in 1..Len(e) : e[i] = i
  BY <1>1 DEF SessionsInv, Session, InChain
<1> HIDE DEF p, e
<1>3. Len(p) <= Len(e) /\ \A i \in 1..Len(p) : p[i] = Len(e) - Len(p) + i BY <1>2 DEF Latest
<1>4. ASSUME NEW i \in 1..Len(p) PROVE Reverse(p)[i] = Reverse(e)[i]
  <2>1. (Len(p) - i) + 1 \in 1..Len(p) /\ (Len(e) - i) + 1 \in 1..Len(e) /\ i \in 1..Len(e)
    BY <1>2, <1>3
  <2>2. Reverse(p)[i] = p[(Len(p) - i) + 1] /\ Reverse(e)[i] = e[(Len(e) - i) + 1]
    BY <2>1 DEF Reverse
  <2>3. p[(Len(p) - i) + 1] = Len(e) - Len(p) + ((Len(p) - i) + 1) BY <1>3, <2>1
  <2>4. e[(Len(e) - i) + 1] = (Len(e) - i) + 1 BY <1>2, <2>1
  <2> QED BY <1>2, <2>2, <2>3, <2>4
<1>5. /\ Reverse(p) \in Seq(Nat) /\ Len(Reverse(p)) = Len(p)
      /\ Reverse(e) \in Seq(Nat) /\ Len(Reverse(e)) = Len(e)
  BY <1>2 DEF Reverse
<1>6. IsPrefix(Reverse(p), Reverse(e)) BY <1>2, <1>3, <1>4, <1>5 DEF IsPrefix
<1> QED BY <1>6 DEF IsSuffix, p, e

\* Of any number of refreshes with one token at most one gets a new one, so there is one
\* chain of tokens per session, and the session remembers the latest of them (refresh()).
THEOREM TokensAreAChain == ASSUME SessionConstants PROVE AuthSpec => []OneTokenChain
<1>1. AuthInit => SessionsInv BY SessionsInit
<1>2. SessionsInv /\ [AuthNext]_authVars => SessionsInv' BY SessionsKept
<1>3. SessionsInv => OneTokenChain BY ChainSeen
<1> QED BY <1>1, <1>2, <1>3, PTL DEF AuthSpec

LEMMA RevokedStepHolds ==
  ASSUME SessionConstants, SessionsInv, [AuthNext]_authVars PROVE [RevokedStep]_authVars
<1>1. SUFFICES ASSUME NEW s \in Sids, sessions[s] # Gone, sessions[s].revoked
               PROVE  sessions'[s].revoked /\ sessions'[s].token = sessions[s].token
  BY DEF RevokedStep
<1>2. CASE UNCHANGED sessions BY <1>1, <1>2
<1>3. ASSUME NEW c \in Clients, Exchange(c)
      PROVE  sessions'[s].revoked /\ sessions'[s].token = sessions[s].token
  <2>1. \/ UNCHANGED sessions
        \/ \E r \in Sids : /\ ~sessions[r].revoked
                           /\ \A q \in Sids : q # r => sessions'[q] = sessions[q]
    BY <1>3, ExchangeParts, Zenon
  <2> QED BY <1>1, <2>1
<1>4. ASSUME NEW c \in Clients, NEW r \in Sids, IssueSession(c, r)
      PROVE  sessions'[s].revoked /\ sessions'[s].token = sessions[s].token
  BY <1>1, <1>4 DEF IssueSession, SessionsInv
<1>5. CASE \/ \E c \in Clients : RevokeReused(c) \/ RevokeUserSessions(c)
           \/ \E r \in Sids : Logout(r) \/ GraceEnds(r)
  <2>1. Marked(sessions[s], sessions'[s]) BY <1>5, RevokeParts
  <2>2. sessions[s] \in Session BY <1>1 DEF SessionsInv
  <2> QED BY <1>1, <2>1, <2>2, MarkedIs
<1> QED BY <1>2, <1>3, <1>4, <1>5
        DEF AuthNext, authVars, Login, CheckUser, GiveUp, Refresh, Administer

\* A revoked session stays revoked and gives no token, whatever a request in flight read
\* before the revocation (the guard of refresh()).
THEOREM RevokedSessionsAreOver == ASSUME SessionConstants PROVE AuthSpec => RevokedIsOver
<1>1. AuthInit => SessionsInv BY SessionsInit
<1>2. SessionsInv /\ [AuthNext]_authVars => SessionsInv' /\ [RevokedStep]_authVars
  BY SessionsKept, RevokedStepHolds
<1> QED BY <1>1, <1>2, PTL DEF AuthSpec, RevokedIsOver

-----------------------------------------------------------------------------
(* BrowserSignIn *)

Asks == {"none", "login", "refresh", "logout"}
CookieSet == {NoCookie} \cup [sid : Sids, token : Nat]
AnswerSet == {NoAnswer, Cleared} \cup [kind : {"granted"}, cookie : [sid : Sids, token : Nat]]

\* Nothing was lost and only refreshes overlapped.
Tidy == overlapped \subseteq {"refresh"} /\ troubles = 0

\* What a way to refresh waits for is at the service, or the answer is on its way.
AtService(c, ops) == visits[c].op \in ops /\ answers[c] = NoAnswer
OnItsWay(c, kind) == visits[c] = NoVisit /\ answers[c].kind = kind
Waits(c) ==
    \/ asked[c] = "none" /\ visits[c] = NoVisit /\ answers[c] = NoAnswer
    \/ asked[c] = "login" /\ (AtService(c, {"login"}) \/ OnItsWay(c, "granted"))
    \/ asked[c] = "refresh" /\ \/ AtService(c, {"refresh"})
                               \/ OnItsWay(c, "granted") \/ OnItsWay(c, "cleared")
    \/ asked[c] = "logout" /\ OnItsWay(c, "cleared")

BrowserTyped ==
    /\ account.active = TRUE
    /\ asked \in [Clients -> Asks]
    /\ answers \in [Clients -> AnswerSet]
    /\ jar \in CookieSet
    /\ mine \in Sids \cup {Gone}
    /\ mine # Gone => sessions[mine] # Gone
    /\ \A c \in Clients : Waits(c)

\* A login or a logout in flight is the only request, and without overlap any request is.
OneAtATime ==
    \A c, d \in Clients :
        /\ asked[c] # "none" /\ asked[d] # "none"
        /\ asked[c] \in {"login", "logout"} \/ overlapped = {}
        => c = d

\* Cookie and refreshes are of the session of the last login.
OfOneSession ==
    /\ jar # NoCookie => mine # Gone /\ jar.sid = mine
    /\ \A c \in Clients : visits[c].op = "refresh" =>
          visits[c].sid = mine /\ visits[c].token <= sessions[mine].token

\* An answer that grants has the present token, which no other request has before it
\* arrives; the cookie in the browser is the one before.
GrantsAreCurrent ==
    \A c \in Clients : answers[c].kind = "granted" =>
        LET s == answers[c].cookie.sid IN
        /\ sessions[s] # Gone /\ sessions[s].recent
        /\ answers[c].cookie.token = sessions[s].token
        /\ asked[c] = "refresh" =>
              /\ s = mine
              /\ jar # NoCookie => jar.token + 1 = sessions[s].token
              /\ \A d \in Clients :
                    /\ answers[d].kind = "granted" => d = c
                    /\ visits[d].op = "refresh" => visits[d].token # sessions[s].token

\* Otherwise the cookie is the present token.
JarIsCurrent ==
    jar # NoCookie /\ (\A c \in Clients : answers[c].kind = "granted" => asked[c] = "login")
        => jar.token = sessions[mine].token

\* Without overlap nothing takes the cookie away while the session is open.
NothingTakesIt ==
    overlapped = {} /\ mine # Gone /\ Open(mine) =>
        /\ jar # NoCookie
        /\ \A c \in Clients :
              /\ answers[c].kind # "cleared"
              /\ visits[c].op = "refresh" => visits[c].token = sessions[mine].token

SignInInv ==
    /\ SessionsInv /\ BrowserTyped /\ OneAtATime /\ OfOneSession
    /\ GrantsAreCurrent /\ JarIsCurrent /\ NothingTakesIt

BrowserInv == troubles \in Nat /\ (Tidy => SignInInv)

-----------------------------------------------------------------------------
\* What each way to refresh is doing, by what it waits for.
LEMMA WaitsFacts ==
  ASSUME SessionsInv, BrowserTyped, NEW c \in Clients
  PROVE  /\ visits[c] \in Visits /\ answers[c] \in AnswerSet /\ asked[c] \in Asks
         /\ visits[c].op \in {"none", "login", "refresh"}
         /\ visits[c].op = "none" <=> visits[c] = NoVisit
         /\ answers[c].kind \in {"none", "granted", "cleared"}
         /\ answers[c].kind = "none" <=> answers[c] = NoAnswer
         /\ answers[c].kind = "cleared" => answers[c].cookie = NoCookie
         /\ asked[c] = "none" => visits[c].op = "none" /\ answers[c].kind = "none"
         /\ visits[c].op = "login" => asked[c] = "login" /\ answers[c].kind = "none"
         /\ visits[c].op = "refresh" => asked[c] = "refresh" /\ answers[c].kind = "none"
         /\ answers[c].kind = "granted" =>
              asked[c] \in {"login", "refresh"} /\ visits[c].op = "none"
         /\ answers[c].kind = "cleared" =>
              asked[c] \in {"refresh", "logout"} /\ visits[c].op = "none"
<1>1. visits[c] \in Visits /\ answers[c] \in AnswerSet /\ asked[c] \in Asks /\ Waits(c)
  BY DEF SessionsInv, BrowserTyped
<1>2. visits[c].op = "none" <=> visits[c] = NoVisit BY <1>1 DEF Visits, NoVisit
<1>3. /\ answers[c].kind \in {"none", "granted", "cleared"}
      /\ answers[c].kind = "none" <=> answers[c] = NoAnswer
      /\ answers[c].kind = "cleared" => answers[c].cookie = NoCookie
  BY <1>1 DEF AnswerSet, NoAnswer, Cleared
<1> QED BY <1>1, <1>2, <1>3 DEF Waits, AtService, OnItsWay

\* In a quiet browser the cookie is the present token of the session of the last login.
LEMMA QuietFacts ==
  ASSUME SignInInv, Quiet
  PROVE  /\ \A d \in Clients : visits[d].op = "none" /\ answers[d].kind = "none"
         /\ jar # NoCookie => jar.sid = mine /\ jar.token = sessions[mine].token
<1>1. \A d \in Clients : visits[d].op = "none" /\ answers[d].kind = "none"
  BY WaitsFacts DEF SignInInv, Quiet
<1> QED BY <1>1 DEF SignInInv, JarIsCurrent, OfOneSession

\* A login or a logout that starts is the only request.
LEMMA StartsAlone ==
  ASSUME SignInInv, NEW c \in Clients, NEW kind \in {"login", "logout"}, Sends(c, kind), Tidy'
  PROVE  /\ Quiet /\ overlapped' = overlapped
         /\ asked' \in [Clients -> Asks] /\ asked'[c] = kind
         /\ \A d \in Clients : d # c => asked'[d] = "none"
<1>1. asked \in [Clients -> Asks] BY DEF SignInInv, BrowserTyped
<1>2. asked' = [asked EXCEPT ![c] = kind] BY DEF Sends
<1>3. asked' \in [Clients -> Asks] /\ asked'[c] = kind BY <1>1, <1>2 DEF Asks
<1>4. Quiet /\ overlapped' = overlapped
  <2>1. CASE ~Quiet
    <3>1. kind \in overlapped' BY <1>3, <2>1 DEF Sends
    <3> QED BY <3>1 DEF Tidy
  <2> QED BY <2>1 DEF Sends
<1> QED BY <1>1, <1>2, <1>3, <1>4 DEF Quiet

LEMMA LoginStep ==
  ASSUME SessionConstants, SignInInv, NEW c \in Clients, TabLogin(c), Tidy' PROVE SignInInv'
<1>1. SessionsInv' BY ReadStep DEF TabLogin, SignInInv
<1>2. /\ Quiet /\ overlapped' = overlapped
      /\ asked' \in [Clients -> Asks] /\ asked'[c] = "login"
      /\ \A d \in Clients : d # c => asked'[d] = "none"
  BY StartsAlone DEF TabLogin
<1>3. /\ \A d \in Clients : visits[d].op = "none" /\ answers[d].kind = "none"
      /\ jar # NoCookie => jar.sid = mine /\ jar.token = sessions[mine].token
  BY <1>2, QuietFacts
<1>4. \A d \in Clients : visits[d] = NoVisit /\ answers[d] = NoAnswer
  BY <1>3, WaitsFacts DEF SignInInv
<1>5. /\ visits' = [visits EXCEPT ![c] = [op |-> "login"]]
      /\ UNCHANGED <<account, sessions, jar, mine, answers>>
  BY DEF TabLogin, Login, Begin
<1>6. /\ visits'[c].op = "login" /\ \A d \in Clients : d # c => visits'[d] = visits[d]
      /\ \A d \in Clients : visits'[d].op # "refresh" /\ answers'[d].kind = "none"
  BY <1>3, <1>5 DEF SignInInv, SessionsInv
<1>7. \A d \in Clients : Waits(d)'
  BY <1>2, <1>4, <1>5, <1>6 DEF Waits, AtService
<1>8. BrowserTyped' BY <1>2, <1>5, <1>7 DEF SignInInv, BrowserTyped
<1>9. OneAtATime' BY <1>2 DEF OneAtATime
<1>10. OfOneSession' BY <1>5, <1>6 DEF SignInInv, OfOneSession
<1>11. GrantsAreCurrent' /\ JarIsCurrent'
  BY <1>3, <1>5, <1>6 DEF GrantsAreCurrent, JarIsCurrent
<1>12. NothingTakesIt' BY <1>2, <1>5, <1>6 DEF SignInInv, NothingTakesIt, Open
<1> QED BY <1>1, <1>8, <1>9, <1>10, <1>11, <1>12 DEF SignInInv

LEMMA LogoutStep ==
  ASSUME SessionConstants, SignInInv, NEW c \in Clients, TabLogout(c), Tidy' PROVE SignInInv'
<1>1. /\ Quiet /\ overlapped' = overlapped
      /\ asked' \in [Clients -> Asks] /\ asked'[c] = "logout"
      /\ \A d \in Clients : d # c => asked'[d] = "none"
  BY StartsAlone DEF TabLogout
<1>2. /\ \A d \in Clients : visits[d].op = "none" /\ answers[d].kind = "none"
      /\ jar # NoCookie => jar.sid = mine /\ jar.token = sessions[mine].token
      /\ jar # NoCookie => mine # Gone
      /\ mine \in Sids \cup {Gone} /\ (mine # Gone => sessions[mine] \in Session)
  BY <1>1, QuietFacts DEF SignInInv, OfOneSession, BrowserTyped, SessionsInv
<1>3. \A d \in Clients : visits[d] = NoVisit /\ answers[d] = NoAnswer
  BY <1>2, WaitsFacts DEF SignInInv
<1>4. /\ answers' = [answers EXCEPT ![c] = Cleared]
      /\ UNCHANGED <<account, visits, exchanged, jar, mine>>
      /\ \/ jar # NoCookie /\ Logout(jar.sid)
         \/ ~(jar # NoCookie /\ Open(jar.sid)) /\ UNCHANGED sessions
  BY DEF TabLogout, Reply, Logout, authVars
<1>5. /\ SessionsInv'
      /\ mine # Gone => /\ sessions'[mine] # Gone /\ sessions'[mine].token = sessions[mine].token
                        /\ ~(jar # NoCookie /\ Open(mine)')
                        /\ jar = NoCookie => sessions'[mine] = sessions[mine]
  <2>1. CASE jar # NoCookie /\ Logout(jar.sid)
    <3>1. mine \in Sids /\ Logout(mine) /\ sessions[mine] \in Session BY <1>2, <2>1
    <3>2. sessions'[mine] = [sessions[mine] EXCEPT !.revoked = TRUE]
      BY <3>1 DEF Logout, SignInInv, SessionsInv
    <3>3. sessions'[mine] \in Session /\ sessions'[mine].token = sessions[mine].token
          /\ sessions'[mine].revoked
      BY <3>1, <3>2 DEF Session
    <3>4. SessionsInv' BY <3>1, RevokeStep DEF SignInInv
    <3>5. sessions'[mine] # Gone BY <3>3 DEF SessionConstants
    <3>6. ~Open(mine)' BY <1>4, <3>3 DEF Open
    <3> QED BY <2>1, <3>3, <3>4, <3>5, <3>6
  <2>2. CASE ~(jar # NoCookie /\ Open(jar.sid)) /\ UNCHANGED sessions
    <3>1. SessionsInv' BY <1>4, <2>2, QuietStep DEF SignInInv
    <3>2. mine # Gone => sessions'[mine] # Gone /\ sessions'[mine] = sessions[mine]
      BY <2>2 DEF SignInInv, BrowserTyped
    <3>3. ~(jar # NoCookie /\ Open(mine)') BY <1>2, <1>4, <2>2 DEF Open
    <3> QED BY <3>1, <3>2, <3>3
  <2> QED BY <1>4, <2>1, <2>2
<1>6. /\ answers' \in [Clients -> AnswerSet] /\ answers'[c] = Cleared
      /\ \A d \in Clients : d # c => answers'[d] = answers[d]
      /\ \A d \in Clients : answers'[d].kind # "granted"
  BY <1>2, <1>4 DEF SignInInv, BrowserTyped, AnswerSet, Cleared
<1>7. \A d \in Clients : Waits(d)'
  BY <1>1, <1>3, <1>4, <1>6 DEF Waits, OnItsWay, Cleared
<1>8. BrowserTyped' BY <1>1, <1>4, <1>5, <1>6, <1>7 DEF SignInInv, BrowserTyped
<1>9. OneAtATime' BY <1>1 DEF OneAtATime
<1>10. OfOneSession' BY <1>2, <1>4 DEF SignInInv, OfOneSession
<1>11. GrantsAreCurrent' BY <1>6 DEF GrantsAreCurrent
<1>12. JarIsCurrent' BY <1>2, <1>4, <1>5 DEF JarIsCurrent
<1>13. NothingTakesIt'
  <2>1. SUFFICES ASSUME overlapped' = {}, mine' # Gone, Open(mine)' PROVE FALSE
    BY <1>4 DEF NothingTakesIt
  <2>2. jar = NoCookie BY <1>4, <1>5, <2>1
  <2>3. Open(mine) BY <1>4, <1>5, <2>1, <2>2 DEF Open
  <2> QED BY <1>1, <1>4, <2>1, <2>2, <2>3 DEF SignInInv, NothingTakesIt
<1> QED BY <1>5, <1>8, <1>9, <1>10, <1>11, <1>12, <1>13 DEF SignInInv

\* A refresh that starts makes the others refreshes too, or is the only request.
LEMMA RefreshStarts ==
  ASSUME SignInInv, NEW c \in Clients, Sends(c, "refresh"), Tidy'
  PROVE  /\ asked' \in [Clients -> Asks] /\ asked'[c] = "refresh" /\ asked[c] = "none"
         /\ \A d \in Clients : d # c => asked'[d] = asked[d]
         /\ \A d \in Clients : asked[d] \in {"none", "refresh"}
         /\ overlapped' = {} => Quiet /\ overlapped = {}
<1>1. asked \in [Clients -> Asks] /\ asked[c] = "none" /\ asked' = [asked EXCEPT ![c] = "refresh"]
  BY DEF SignInInv, BrowserTyped, Sends
<1>2. /\ asked' \in [Clients -> Asks] /\ asked'[c] = "refresh"
      /\ \A d \in Clients : d # c => asked'[d] = asked[d]
  BY <1>1 DEF Asks
<1>3. CASE Quiet BY <1>1, <1>2, <1>3 DEF Quiet, Sends
<1>4. CASE ~Quiet
  <2>1. overlapped' = overlapped \cup ({asked'[d] : d \in Clients} \ {"none"})
    BY <1>4 DEF Sends
  <2>2. \A d \in Clients : asked'[d] = "none" \/ asked'[d] \in overlapped' BY <2>1
  <2>3. "refresh" \in overlapped' BY <1>2, <2>2
  <2> QED BY <1>1, <1>2, <2>2, <2>3 DEF Tidy
<1> QED BY <1>3, <1>4

\* Among refreshes only, the cookie of the browser is never taken for a stolen one.
LEMMA NotReplayed ==
  ASSUME SessionConstants, SignInInv, \A d \in Clients : asked[d] \in {"none", "refresh"},
         jar # NoCookie
  PROVE  /\ mine \in Sids /\ sessions[mine] \in Session /\ jar.sid = mine /\ jar.token \in Nat
         /\ ~Replayed(mine, jar.token)
         /\ jar.token = sessions[mine].token =>
              \A d \in Clients : answers[d].kind # "granted"
<1>1. /\ mine \in Sids /\ sessions[mine] \in Session /\ jar.sid = mine /\ jar.token \in Nat
      /\ InChain(sessions[mine], exchanged[mine]) /\ exchanged[mine] \in Seq(Nat)
  BY DEF SignInInv, OfOneSession, BrowserTyped, SessionsInv, CookieSet, NoCookie, SessionConstants
<1>2. CASE \A d \in Clients : answers[d].kind # "granted"
  <2>1. jar.token = sessions[mine].token BY <1>2 DEF SignInInv, JarIsCurrent
  <2> QED BY <1>1, <1>2, <2>1 DEF Replayed
<1>3. CASE \E d \in Clients : answers[d].kind = "granted"
  <2>1. PICK d \in Clients : answers[d].kind = "granted" BY <1>3
  <2>2. asked[d] = "refresh" BY <2>1, WaitsFacts DEF SignInInv
  <2>3. sessions[mine].recent /\ jar.token + 1 = sessions[mine].token
    BY <2>1, <2>2 DEF SignInInv, GrantsAreCurrent
  <2> DEFINE kept == sessions[mine].previous
             n == Len(exchanged[mine])
  <2>4. /\ n \in Nat /\ kept \in Seq(Nat) /\ Latest(kept, n) /\ sessions[mine].token = n + 1
    BY <1>1 DEF InChain, Session
  <2>5. jar.token = n BY <1>1, <2>3, <2>4
  <2>6. Contains(kept, n) => Last(kept) = n
    <3> HIDE DEF kept, n
    <3>1. ASSUME Contains(kept, n) PROVE Last(kept) = n
      <4>1. Len(kept) \in Nat /\ Len(kept) \in 1..Len(kept) BY <2>4, <3>1 DEF Contains
      <4>2. kept[Len(kept)] = n - Len(kept) + Len(kept) BY <2>4, <4>1 DEF Latest
      <4> QED BY <2>4, <4>1, <4>2 DEF Last
    <3> QED BY <3>1
  <2> HIDE DEF n
  <2>7. ~Replayed(mine, n) BY <2>3, <2>6 DEF Replayed
  <2>8. jar.token # sessions[mine].token BY <2>4, <2>5
  <2> QED BY <1>1, <2>5, <2>7, <2>8
<1> QED BY <1>2, <1>3

LEMMA RefreshRefused ==
  ASSUME SessionConstants, SignInInv, NEW c \in Clients, Sends(c, "refresh"), Tidy',
         CookieRefused(jar), Reply(c, Cleared), UNCHANGED <<authVars, jar, mine>>
  PROVE  SignInInv'
<1>1. /\ asked' \in [Clients -> Asks] /\ asked'[c] = "refresh" /\ asked[c] = "none"
      /\ \A d \in Clients : d # c => asked'[d] = asked[d]
      /\ \A d \in Clients : asked[d] \in {"none", "refresh"}
      /\ overlapped' = {} => Quiet /\ overlapped = {}
  BY RefreshStarts
<1>2. /\ answers' = [answers EXCEPT ![c] = Cleared] /\ answers \in [Clients -> AnswerSet]
      /\ UNCHANGED <<account, sessions, exchanged, visits, jar, mine>>
  BY DEF Reply, authVars, SignInInv, BrowserTyped
<1>3. SessionsInv' BY <1>2, QuietStep DEF SignInInv
<1>4. /\ answers' \in [Clients -> AnswerSet] /\ answers'[c] = Cleared
      /\ answers'[c].kind = "cleared"
      /\ \A d \in Clients : d # c => answers'[d] = answers[d]
  BY <1>2 DEF AnswerSet, Cleared
<1>5. visits[c] = NoVisit /\ visits[c].op = "none" BY <1>1, WaitsFacts DEF SignInInv
<1>6. \A d \in Clients : Waits(d)'
  BY <1>1, <1>2, <1>4, <1>5 DEF SignInInv, BrowserTyped, Waits, OnItsWay, AtService
<1>7. BrowserTyped' BY <1>1, <1>2, <1>4, <1>6 DEF SignInInv, BrowserTyped
<1>8. OneAtATime' BY <1>1 DEF OneAtATime, Quiet
<1>9. OfOneSession' BY <1>2 DEF SignInInv, OfOneSession
<1>10. \A d \in Clients : answers'[d].kind = "granted" =>
          d # c /\ answers'[d] = answers[d] /\ asked'[d] = asked[d]
  BY <1>1, <1>4
<1>11. GrantsAreCurrent' BY <1>2, <1>10 DEF SignInInv, GrantsAreCurrent
<1>12. JarIsCurrent'
  <2>1. \A d \in Clients : answers[d].kind = "granted" => answers'[d] = answers[d] /\ d # c
    BY <1>1, <1>4, WaitsFacts DEF SignInInv
  <2> QED BY <1>1, <1>2, <2>1 DEF SignInInv, JarIsCurrent
<1>13. NothingTakesIt'
  <2>1. SUFFICES ASSUME overlapped' = {}, mine # Gone, Open(mine) PROVE FALSE
    BY <1>2 DEF NothingTakesIt, Open
  <2>2. jar # NoCookie /\ jar.sid = mine /\ jar.token = sessions[mine].token
    BY <1>1, <2>1, QuietFacts DEF SignInInv, NothingTakesIt
  <2> QED BY <2>1, <2>2 DEF CookieRefused
<1> QED BY <1>3, <1>7, <1>8, <1>9, <1>11, <1>12, <1>13 DEF SignInInv

LEMMA RefreshBegins ==
  ASSUME SessionConstants, SignInInv, NEW c \in Clients, Sends(c, "refresh"), Tidy',
         ~CookieRefused(jar), Refresh(c, jar.sid, jar.token), UNCHANGED <<answers, jar, mine>>
  PROVE  SignInInv'
<1>1. /\ asked' \in [Clients -> Asks] /\ asked'[c] = "refresh" /\ asked[c] = "none"
      /\ \A d \in Clients : d # c => asked'[d] = asked[d]
      /\ \A d \in Clients : asked[d] \in {"none", "refresh"}
      /\ overlapped' = {} => Quiet /\ overlapped = {}
  BY RefreshStarts
<1>2. jar # NoCookie BY DEF CookieRefused
<1>3. /\ mine \in Sids /\ sessions[mine] \in Session /\ jar.sid = mine /\ jar.token \in Nat
      /\ ~Replayed(mine, jar.token)
      /\ jar.token = sessions[mine].token => \A d \in Clients : answers[d].kind # "granted"
  BY <1>1, <1>2, NotReplayed
<1> DEFINE l == [op |-> "refresh", sid |-> mine, token |-> jar.token, checked |-> FALSE]
<1>4. /\ jar.token = sessions[mine].token /\ visits' = [visits EXCEPT ![c] = l]
      /\ UNCHANGED <<account, sessions, exchanged>>
  BY <1>3 DEF Refresh, Begin
<1>5. l.op = "refresh" /\ l.sid = mine /\ l.token = sessions[mine].token BY <1>4
<1> HIDE DEF l
<1>6. visits'[c] = l /\ \A d \in Clients : d # c => visits'[d] = visits[d]
  BY <1>4 DEF SignInInv, SessionsInv
<1>7. SessionsInv' BY <1>3, RefreshStep DEF SignInInv
<1>8. \A d \in Clients : answers[d].kind # "granted" BY <1>3, <1>4
<1>9. answers[c] = NoAnswer BY <1>1, WaitsFacts DEF SignInInv
<1>10. \A d \in Clients : Waits(d)'
  BY <1>1, <1>5, <1>6, <1>9 DEF SignInInv, BrowserTyped, Waits, OnItsWay, AtService
<1>11. BrowserTyped' BY <1>1, <1>4, <1>10 DEF SignInInv, BrowserTyped
<1>12. OneAtATime' BY <1>1 DEF OneAtATime, Quiet
<1>13. OfOneSession'
  <2>1. sessions[mine].token \in Nat BY <1>3 DEF Session
  <2> QED BY <1>4, <1>5, <1>6, <2>1 DEF SignInInv, OfOneSession
<1>14. GrantsAreCurrent' BY <1>8 DEF GrantsAreCurrent
<1>15. JarIsCurrent' BY <1>4 DEF JarIsCurrent
<1>16. NothingTakesIt'
  <2>1. SUFFICES ASSUME overlapped' = {}, NEW d \in Clients
                 PROVE  /\ answers[d].kind # "cleared"
                        /\ visits'[d].op = "refresh" => visits'[d].token = sessions[mine].token
    BY <1>2, <1>4 DEF NothingTakesIt
  <2>2. visits[d].op = "none" /\ answers[d].kind = "none" BY <1>1, <2>1, QuietFacts
  <2> QED BY <1>5, <1>6, <2>2
<1> QED BY <1>7, <1>11, <1>12, <1>13, <1>14, <1>15, <1>16 DEF SignInInv

LEMMA TabRefreshStep ==
  ASSUME SessionConstants, SignInInv, NEW c \in Clients, TabRefresh(c), Tidy' PROVE SignInInv'
BY RefreshRefused, RefreshBegins DEF TabRefresh

\* The exchange of one request: its token was the present one of an open session, and the
\* session has the next one; or nothing changes but that the request is over.
LEMMA ExchangeBy ==
  ASSUME SessionConstants, SessionsInv, NEW c \in Clients, Exchange(c), NEW s, s = visits[c].sid
  PROVE  /\ visits[c].op = "refresh" /\ s \in Sids /\ sessions[s] \in Session
         /\ visits' = [visits EXCEPT ![c] = NoVisit] /\ UNCHANGED account
         /\ \/ /\ sessions[s].token = visits[c].token /\ ~sessions[s].revoked
               /\ Fresh(s) = sessions[s].token + 1 /\ Fresh(s) \in Nat
               /\ sessions'[s] \in Session /\ sessions'[s] # Gone
               /\ sessions'[s].token = Fresh(s) /\ sessions'[s].recent
               /\ \A r \in Sids : r # s => sessions'[r] = sessions[r]
               /\ exchanged' # exchanged
            \/ /\ ~(sessions[s].token = visits[c].token /\ ~sessions[s].revoked)
               /\ UNCHANGED <<sessions, exchanged>>
<1>1. /\ visits[c].op = "refresh" /\ visits' = [visits EXCEPT ![c] = NoVisit]
      /\ UNCHANGED account
  BY DEF Exchange, ExchangeIf, End
<1>2. /\ s \in Sids /\ sessions[s] \in Session /\ InChain(sessions[s], exchanged[s])
      /\ exchanged \in [Sids -> Seq(Nat)] /\ sessions \in [Sids -> Session \cup {Gone}]
  BY <1>1 DEF SessionsInv, Visits
<1>3. CASE ~(sessions[s].token = visits[c].token /\ ~sessions[s].revoked)
  BY <1>1, <1>2, <1>3 DEF Exchange, ExchangeIf
<1>4. CASE sessions[s].token = visits[c].token /\ ~sessions[s].revoked
  <2> DEFINE kept == Append(sessions[s].previous, visits[c].token)
             p == IF Len(kept) > KeptHashes THEN Tail(kept) ELSE kept
  <2>1. /\ sessions' = [sessions EXCEPT ![s].token = Fresh(s), ![s].recent = TRUE,
                                        ![s].previous = p]
        /\ exchanged' = [exchanged EXCEPT ![s] = Append(@, visits[c].token)]
    BY <1>1, <1>4 DEF Exchange, ExchangeIf
  <2> HIDE DEF p
  <2>2. Fresh(s) = sessions[s].token + 1 /\ Fresh(s) \in Nat BY <1>2 DEF InChain, Fresh
  <2> DEFINE new == [sessions[s] EXCEPT !.token = Fresh(s), !.recent = TRUE, !.previous = p]
  <2>3. sessions' = [sessions EXCEPT ![s] = new] BY <1>2, <2>1
  <2>4. new.token = Fresh(s) /\ new.recent BY <1>2 DEF Session
  <2> HIDE DEF new
  <2>5. sessions'[s] = new /\ \A r \in Sids : r # s => sessions'[r] = sessions[r]
    BY <1>2, <2>3
  <2>6. exchanged'[s] # exchanged[s]
    <3>1. exchanged'[s] = Append(exchanged[s], visits[c].token) BY <1>2, <2>1
    <3>2. visits[c].token \in Nat BY <1>2, <1>4 DEF Session
    <3>3. Len(exchanged'[s]) = Len(exchanged[s]) + 1 BY <1>2, <3>1, <3>2
    <3> QED BY <1>2, <3>3
  <2>7. SessionsInv' BY ExchangeStep
  <2>8. sessions'[s] # Gone
    <3>1. visits[c].op = "refresh" BY <1>1
    <3>2. \A r \in Sids : sessions'[r] = Gone => exchanged'[r] = <<>> BY <2>7 DEF SessionsInv
    <3>3. exchanged'[s] # <<>>
      <4>1. visits[c].token \in Nat BY <1>2, <1>4 DEF Session
      <4>2. exchanged'[s] = Append(exchanged[s], visits[c].token) BY <1>2, <2>1
      <4>3. Len(exchanged'[s]) = Len(exchanged[s]) + 1 /\ Len(exchanged[s]) \in Nat
        BY <1>2, <4>1, <4>2
      <4> QED BY <4>3
    <3> QED BY <1>2, <3>2, <3>3
  <2>9. sessions'[s] \in Session BY <1>2, <2>7, <2>8 DEF SessionsInv
  <2> QED BY <1>1, <1>2, <1>4, <2>2, <2>4, <2>5, <2>6, <2>8, <2>9
<1> QED BY <1>3, <1>4

LEMMA UserIsActive ==
  ASSUME SessionConstants, SignInInv, NEW c \in Clients, CheckUser(c),
         UNCHANGED <<answers, asked, jar, mine, overlapped>>
  PROVE  SignInInv'
<1>1. SessionsInv' BY ReadStep DEF SignInInv
<1>2. visits[c] \in [op : {"refresh"}, sid : Sids, token : Nat, checked : BOOLEAN]
  BY DEF CheckUser, SignInInv, SessionsInv, Visits
<1> DEFINE l == [visits[c] EXCEPT !.checked = TRUE]
<1>3. /\ visits' = [visits EXCEPT ![c] = l] /\ UNCHANGED <<account, sessions, exchanged>>
  BY <1>2 DEF CheckUser, SignInInv, BrowserTyped, SessionsInv
<1>4. l.op = "refresh" /\ l.sid = visits[c].sid /\ l.token = visits[c].token BY <1>2
<1> HIDE DEF l
<1>5. visits'[c] = l /\ \A d \in Clients : d # c => visits'[d] = visits[d]
  BY <1>3 DEF SignInInv, SessionsInv
<1>6. \A d \in Clients : visits'[d].op = "refresh" =>
         /\ visits[d].op = "refresh"
         /\ visits'[d].sid = visits[d].sid /\ visits'[d].token = visits[d].token
  BY <1>2, <1>4, <1>5
<1>7. asked[c] = "refresh" /\ answers[c] = NoAnswer
  BY <1>2, WaitsFacts DEF SignInInv
<1>8. \A d \in Clients : Waits(d)'
  BY <1>4, <1>5, <1>7 DEF SignInInv, BrowserTyped, Waits, OnItsWay, AtService
<1>9. BrowserTyped' BY <1>3, <1>8 DEF SignInInv, BrowserTyped
<1>10. OneAtATime' BY DEF SignInInv, OneAtATime
<1>11. OfOneSession' BY <1>3, <1>6 DEF SignInInv, OfOneSession
<1>12. GrantsAreCurrent' BY <1>3, <1>6 DEF SignInInv, GrantsAreCurrent
<1>13. JarIsCurrent' BY <1>3 DEF SignInInv, JarIsCurrent
<1>14. NothingTakesIt' BY <1>3, <1>6 DEF SignInInv, NothingTakesIt, Open
<1> QED BY <1>1, <1>9, <1>10, <1>11, <1>12, <1>13, <1>14 DEF SignInInv

\* Without overlap a refresh in flight is the only request.
LEMMA OneWaits ==
  ASSUME SignInInv, NEW c \in Clients, asked[c] # "none",
         asked[c] \in {"login", "logout"} \/ overlapped = {}
  PROVE  \A d \in Clients : d # c =>
            asked[d] = "none" /\ visits[d].op = "none" /\ answers[d].kind = "none"
BY WaitsFacts DEF SignInInv, OneAtATime

LEMMA ExchangeFails ==
  ASSUME SessionConstants, SignInInv, NEW c \in Clients, Exchange(c), exchanged' = exchanged,
         Reply(c, Cleared), UNCHANGED <<asked, jar, mine, overlapped>>
  PROVE  SignInInv'
<1> DEFINE s == visits[c].sid
<1>1. /\ visits[c].op = "refresh" /\ s \in Sids /\ sessions[s] \in Session
      /\ visits' = [visits EXCEPT ![c] = NoVisit]
      /\ ~(sessions[s].token = visits[c].token /\ ~sessions[s].revoked)
      /\ UNCHANGED <<account, sessions, exchanged>>
  BY ExchangeBy DEF SignInInv
<1>2. SessionsInv' BY ExchangeStep DEF SignInInv
<1>3. /\ answers' = [answers EXCEPT ![c] = Cleared] /\ answers \in [Clients -> AnswerSet]
      /\ visits \in [Clients -> Visits]
  BY DEF Reply, SignInInv, BrowserTyped, SessionsInv
<1>4. /\ answers' \in [Clients -> AnswerSet] /\ answers'[c] = Cleared
      /\ answers'[c].kind = "cleared"
      /\ \A d \in Clients : d # c => answers'[d] = answers[d]
  BY <1>3 DEF AnswerSet, Cleared
<1>5. /\ visits'[c] = NoVisit /\ visits'[c].op = "none"
      /\ \A d \in Clients : d # c => visits'[d] = visits[d]
  BY <1>1, <1>3, NoVisitHas
<1>6. asked[c] = "refresh" /\ answers[c].kind = "none" BY <1>1, WaitsFacts DEF SignInInv
<1>7. \A d \in Clients : Waits(d)'
  BY <1>4, <1>5, <1>6 DEF SignInInv, BrowserTyped, Waits, OnItsWay, AtService
<1>8. BrowserTyped' BY <1>1, <1>4, <1>7 DEF SignInInv, BrowserTyped
<1>9. OneAtATime' BY DEF SignInInv, OneAtATime
<1>10. OfOneSession' BY <1>1, <1>5 DEF SignInInv, OfOneSession
<1>11. \A d \in Clients : answers'[d].kind = "granted" => answers'[d] = answers[d]
  BY <1>4
<1>12. GrantsAreCurrent'
  <2>1. \A d \in Clients : visits'[d].op = "refresh" => visits'[d] = visits[d] BY <1>5
  <2> QED BY <1>1, <1>11, <2>1 DEF SignInInv, GrantsAreCurrent
<1>13. JarIsCurrent'
  <2>1. \A d \in Clients : answers[d].kind = "granted" => answers'[d] = answers[d]
    BY <1>4, <1>6
  <2> QED BY <1>1, <2>1 DEF SignInInv, JarIsCurrent
<1>14. NothingTakesIt'
  <2>1. SUFFICES ASSUME overlapped = {}, mine # Gone, Open(mine) PROVE FALSE
    BY <1>1 DEF NothingTakesIt, Open
  <2>2. s = mine /\ visits[c].token = sessions[mine].token
    BY <1>1, <2>1 DEF SignInInv, OfOneSession, NothingTakesIt
  <2> QED BY <1>1, <2>1, <2>2 DEF Open
<1> QED BY <1>2, <1>8, <1>9, <1>10, <1>12, <1>13, <1>14 DEF SignInInv

LEMMA ExchangeWorks ==
  ASSUME SessionConstants, SignInInv, NEW c \in Clients, Exchange(c), exchanged' # exchanged,
         Reply(c, GrantedAnswer(visits[c].sid, Fresh(visits[c].sid))),
         UNCHANGED <<asked, jar, mine, overlapped>>
  PROVE  SignInInv'
<1> DEFINE s == visits[c].sid
           a == GrantedAnswer(s, Fresh(s))
<1>1. /\ visits[c].op = "refresh" /\ s \in Sids /\ sessions[s] \in Session
      /\ visits' = [visits EXCEPT ![c] = NoVisit] /\ UNCHANGED account
      /\ sessions[s].token = visits[c].token
      /\ Fresh(s) = sessions[s].token + 1 /\ Fresh(s) \in Nat
      /\ sessions'[s] \in Session /\ sessions'[s] # Gone
      /\ sessions'[s].token = Fresh(s) /\ sessions'[s].recent
      /\ \A r \in Sids : r # s => sessions'[r] = sessions[r]
  BY ExchangeBy DEF SignInInv
<1>2. SessionsInv' BY ExchangeStep DEF SignInInv
<1>3. a \in AnswerSet /\ a.kind = "granted" /\ a.cookie.sid = s /\ a.cookie.token = Fresh(s)
  BY <1>1 DEF GrantedAnswer, AnswerSet, Cookie
<1>4. /\ answers' = [answers EXCEPT ![c] = a] /\ answers \in [Clients -> AnswerSet]
      /\ visits \in [Clients -> Visits]
  BY DEF Reply, SignInInv, BrowserTyped, SessionsInv
<1> HIDE DEF a
<1>5. /\ answers' \in [Clients -> AnswerSet] /\ answers'[c] = a
      /\ \A d \in Clients : d # c => answers'[d] = answers[d]
  BY <1>3, <1>4
<1>6. /\ visits'[c] = NoVisit /\ visits'[c].op = "none"
      /\ \A d \in Clients : d # c => visits'[d] = visits[d]
  BY <1>1, <1>4, NoVisitHas
<1>7. asked[c] = "refresh" /\ answers[c].kind = "none" BY <1>1, WaitsFacts DEF SignInInv
<1>8. mine = s /\ s # Gone BY <1>1 DEF SignInInv, OfOneSession, SessionConstants
<1>9. ASSUME NEW d \in Clients, answers[d].kind = "granted" PROVE FALSE
  <2>1. asked[d] \in {"login", "refresh"} /\ d # c BY <1>7, <1>9, WaitsFacts DEF SignInInv
  <2>2. asked[d] # "login" BY <1>7, <2>1 DEF SignInInv, OneAtATime
  <2>3. asked[d] = "refresh" BY <2>1, <2>2
  <2>4. answers[d].cookie.sid = mine /\ visits[c].token # sessions[mine].token
    BY <1>1, <1>9, <2>3 DEF SignInInv, GrantsAreCurrent
  <2> QED BY <1>1, <1>8, <2>4
<1>10. jar # NoCookie => jar.token + 1 = Fresh(s)
  BY <1>1, <1>8, <1>9 DEF SignInInv, JarIsCurrent
<1>11. \A d \in Clients : Waits(d)'
  BY <1>3, <1>5, <1>6, <1>7 DEF SignInInv, BrowserTyped, Waits, OnItsWay, AtService
<1>12. BrowserTyped' BY <1>1, <1>5, <1>8, <1>11 DEF SignInInv, BrowserTyped
<1>13. OneAtATime' BY DEF SignInInv, OneAtATime
<1>14. \A d \in Clients : visits'[d].op = "refresh" =>
          /\ visits'[d] = visits[d] /\ visits[d].token \in Nat
          /\ visits[d].token <= sessions[mine].token
          /\ visits'[d].sid = mine
  <2>1. \A d \in Clients : visits[d].op = "refresh" => visits[d].token \in Nat
    BY DEF SignInInv, SessionsInv, Visits
  <2> QED BY <1>6, <2>1 DEF SignInInv, OfOneSession
<1>15. sessions[s].token \in Nat BY <1>1 DEF Session
<1>16. OfOneSession' BY <1>1, <1>8, <1>14, <1>15 DEF SignInInv, OfOneSession
<1>17. \A d \in Clients : answers'[d].kind = "granted" => d = c BY <1>5, <1>9
<1>18. GrantsAreCurrent'
  <2>1. \A d \in Clients : visits'[d].op = "refresh" => visits'[d].token # Fresh(s)
    BY <1>1, <1>8, <1>14, <1>15
  <2> QED BY <1>1, <1>3, <1>5, <1>8, <1>10, <1>17, <2>1 DEF GrantsAreCurrent
<1>19. JarIsCurrent' BY <1>3, <1>5, <1>7 DEF JarIsCurrent
<1>20. NothingTakesIt'
  <2>1. SUFFICES ASSUME overlapped = {}, Open(mine)'
                 PROVE  /\ jar # NoCookie
                        /\ \A d \in Clients : /\ answers'[d].kind # "cleared"
                                              /\ visits'[d].op # "refresh"
    BY <1>8 DEF NothingTakesIt
  <2>2. \A d \in Clients : d # c => visits[d].op = "none" /\ answers[d].kind = "none"
    BY <1>7, <2>1, OneWaits
  <2>3. Open(mine)
    <3>1. ~sessions[s].revoked BY ExchangeBy DEF SignInInv
    <3> QED BY <1>1, <1>8, <3>1 DEF Open, SessionConstants
  <2>4. jar # NoCookie BY <1>8, <2>1, <2>3 DEF SignInInv, NothingTakesIt
  <2> QED BY <1>3, <1>5, <1>6, <2>2, <2>4
<1> QED BY <1>2, <1>12, <1>13, <1>16, <1>18, <1>19, <1>20 DEF SignInInv

LEMMA AnswerRefreshStep ==
  ASSUME SessionConstants, SignInInv, NEW c \in Clients, AnswerRefresh(c)
  PROVE  SignInInv'
<1>1. visits[c].op = "refresh" BY WaitsFacts DEF AnswerRefresh, SignInInv
<1>2. UNCHANGED <<jar, asked, mine, overlapped>> BY DEF AnswerRefresh
<1>3. CASE CheckUser(c)
  <2>1. visits'[c].op = "refresh"
    <3>1. visits[c] \in [op : {"refresh"}, sid : Sids, token : Nat, checked : BOOLEAN]
      BY <1>1 DEF SignInInv, SessionsInv, Visits
    <3>2. visits' = [visits EXCEPT ![c] = [visits[c] EXCEPT !.checked = TRUE]]
      BY <1>3 DEF CheckUser, SignInInv, BrowserTyped, SessionsInv
    <3> QED BY <3>1, <3>2 DEF SignInInv, SessionsInv
  <2>2. UNCHANGED answers BY <2>1 DEF AnswerRefresh, NoVisit
  <2> QED BY <1>2, <1>3, <2>2, UserIsActive
<1>4. CASE Exchange(c)
  <2>1. visits'[c] = NoVisit
    BY <1>4 DEF Exchange, ExchangeIf, End, SignInInv, SessionsInv
  <2>2. Reply(c, IF exchanged' # exchanged
                 THEN GrantedAnswer(visits[c].sid, Fresh(visits[c].sid)) ELSE Cleared)
    BY <2>1 DEF AnswerRefresh
  <2> QED BY <1>2, <1>4, <2>2, ExchangeFails, ExchangeWorks
<1> QED BY <1>1, <1>3, <1>4 DEF AnswerRefresh, RevokeReused

\* A login is answered while nothing else is under way, with a session nobody knows yet.
LEMMA AnswerLoginStep ==
  ASSUME SessionConstants, SignInInv, NEW c \in Clients, NEW s \in Sids, AnswerLogin(c, s)
  PROVE  SignInInv'
<1> DEFINE new == [token |-> 1, previous |-> <<>>, recent |-> TRUE, revoked |-> FALSE]
           a == GrantedAnswer(s, 1)
<1>1. /\ visits[c].op = "login" /\ sessions[s] = Gone
      /\ sessions' = [sessions EXCEPT ![s] = new] /\ visits' = [visits EXCEPT ![c] = NoVisit]
      /\ answers' = [answers EXCEPT ![c] = a]
      /\ UNCHANGED <<account, jar, asked, mine, overlapped>>
  BY DEF AnswerLogin, IssueSession, End, Reply
<1>2. SessionsInv' BY IssueStep DEF AnswerLogin, SignInInv
<1>3. a \in AnswerSet /\ a.kind = "granted" /\ a.cookie.sid = s /\ a.cookie.token = 1
  BY DEF GrantedAnswer, AnswerSet, Cookie
<1>4. new \in Session /\ new.token = 1 /\ new.recent BY DEF Session
<1> HIDE DEF a, new
<1>5. /\ answers' \in [Clients -> AnswerSet] /\ answers'[c] = a
      /\ \A d \in Clients : d # c => answers'[d] = answers[d]
      /\ visits'[c] = NoVisit /\ visits'[c].op = "none"
      /\ \A d \in Clients : d # c => visits'[d] = visits[d]
      /\ sessions'[s] = new /\ \A r \in Sids : r # s => sessions'[r] = sessions[r]
  BY <1>1, <1>3, NoVisitHas DEF SignInInv, BrowserTyped, SessionsInv
<1>6. asked[c] = "login" /\ answers[c].kind = "none" BY <1>1, WaitsFacts DEF SignInInv
<1>7. \A d \in Clients : d # c =>
         asked[d] = "none" /\ visits[d].op = "none" /\ answers[d].kind = "none"
  BY <1>6, OneWaits
<1>8. mine # Gone => mine \in Sids /\ sessions'[mine] = sessions[mine] /\ sessions[mine] # Gone
  BY <1>1, <1>5 DEF SignInInv, BrowserTyped
<1>9. \A d \in Clients : Waits(d)'
  BY <1>1, <1>3, <1>5, <1>6 DEF SignInInv, BrowserTyped, Waits, OnItsWay, AtService
<1>10. BrowserTyped' BY <1>1, <1>5, <1>8, <1>9 DEF SignInInv, BrowserTyped
<1>11. OneAtATime' BY <1>1 DEF SignInInv, OneAtATime
<1>12. OfOneSession' BY <1>1, <1>5, <1>7 DEF SignInInv, OfOneSession
<1>13. GrantsAreCurrent'
  <2>1. sessions'[s] # Gone BY <1>4, <1>5 DEF SessionConstants
  <2>2. \A d \in Clients : answers'[d].kind = "granted" => d = c BY <1>5, <1>7
  <2> QED BY <1>1, <1>3, <1>4, <1>5, <1>6, <2>1, <2>2 DEF GrantsAreCurrent
<1>14. JarIsCurrent'
  <2>1. jar # NoCookie => jar.token = sessions[mine].token /\ mine # Gone
    BY <1>6, <1>7 DEF SignInInv, JarIsCurrent, OfOneSession
  <2> QED BY <1>1, <1>8, <2>1 DEF JarIsCurrent
<1>15. NothingTakesIt'
  <2>1. SUFFICES ASSUME overlapped = {}, mine # Gone, Open(mine)'
                 PROVE  /\ jar # NoCookie
                        /\ \A d \in Clients : /\ answers'[d].kind # "cleared"
                                              /\ visits'[d].op # "refresh"
    BY <1>1 DEF NothingTakesIt
  <2>2. Open(mine) BY <1>1, <1>8, <2>1 DEF Open
  <2>3. jar # NoCookie BY <2>1, <2>2 DEF SignInInv, NothingTakesIt
  <2> QED BY <1>3, <1>5, <1>7, <2>3
<1> QED BY <1>2, <1>10, <1>11, <1>12, <1>13, <1>14, <1>15 DEF SignInInv

LEMMA ReceiveStep ==
  ASSUME SessionConstants, SignInInv, NEW c \in Clients, Receive(c) PROVE SignInInv'
<1>1. /\ answers[c] # NoAnswer /\ jar' = answers[c].cookie
      /\ mine' = IF answers[c].kind = "granted" THEN answers[c].cookie.sid ELSE mine
      /\ answers' = [answers EXCEPT ![c] = NoAnswer] /\ asked' = [asked EXCEPT ![c] = "none"]
      /\ UNCHANGED <<account, sessions, exchanged, visits, overlapped>>
  BY DEF Receive, Settle, authVars
<1>2. SessionsInv' BY <1>1, QuietStep DEF SignInInv
<1>3. /\ answers' \in [Clients -> AnswerSet] /\ answers'[c] = NoAnswer
      /\ answers'[c].kind = "none"
      /\ \A d \in Clients : d # c => answers'[d] = answers[d]
      /\ asked' \in [Clients -> Asks] /\ asked'[c] = "none"
      /\ \A d \in Clients : d # c => asked'[d] = asked[d]
  BY <1>1 DEF SignInInv, BrowserTyped, AnswerSet, NoAnswer, Asks
<1>4. visits[c] = NoVisit /\ visits[c].op = "none" /\ answers[c].kind \in {"granted", "cleared"}
      /\ asked[c] # "none"
  BY <1>1, WaitsFacts DEF SignInInv
<1>5. \A d \in Clients : Waits(d)'
  BY <1>1, <1>3, <1>4 DEF SignInInv, BrowserTyped, Waits, OnItsWay, AtService
<1>6. OneAtATime' BY <1>1, <1>3 DEF SignInInv, OneAtATime
<1>7. CASE answers[c].kind = "cleared"
  <2>1. jar' = NoCookie /\ UNCHANGED mine BY <1>1, <1>7, WaitsFacts DEF SignInInv
  <2>2. BrowserTyped' BY <1>1, <1>3, <1>5, <2>1 DEF SignInInv, BrowserTyped, CookieSet
  <2>3. OfOneSession' BY <1>1, <2>1 DEF SignInInv, OfOneSession
  <2>4. \A d \in Clients : answers'[d].kind = "granted" =>
           answers'[d] = answers[d] /\ asked'[d] = asked[d]
    BY <1>3
  <2>5. GrantsAreCurrent' BY <1>1, <2>1, <2>4 DEF SignInInv, GrantsAreCurrent
  <2>6. JarIsCurrent' BY <2>1 DEF JarIsCurrent
  <2>7. NothingTakesIt' BY <1>1, <1>7, <2>1 DEF SignInInv, NothingTakesIt, Open
  <2> QED BY <1>2, <1>6, <2>2, <2>3, <2>5, <2>6, <2>7 DEF SignInInv
<1>8. CASE answers[c].kind = "granted"
  <2> DEFINE s == answers[c].cookie.sid
  <2>1. answers[c] \in [kind : {"granted"}, cookie : [sid : Sids, token : Nat]]
    BY <1>8 DEF SignInInv, BrowserTyped, AnswerSet, NoAnswer, Cleared
  <2>2. /\ jar' \in [sid : Sids, token : Nat] /\ jar'.sid = s /\ mine' = s /\ s \in Sids
        /\ jar'.token = sessions[s].token /\ sessions[s] # Gone /\ s # Gone
    BY <1>1, <1>8, <2>1 DEF SignInInv, GrantsAreCurrent, SessionConstants
  <2>3. /\ \A d \in Clients : answers'[d].kind # "granted"
        /\ \A d \in Clients : visits[d].op = "refresh" => s = mine
    <3>1. asked[c] \in {"login", "refresh"} BY <1>8, WaitsFacts DEF SignInInv
    <3>2. CASE asked[c] = "login"
      <4>1. \A d \in Clients : d # c => visits[d].op = "none" /\ answers[d].kind = "none"
        BY <3>2, OneWaits
      <4> QED BY <1>3, <1>4, <4>1
    <3>3. CASE asked[c] = "refresh"
      <4>1. s = mine /\ \A d \in Clients : answers[d].kind = "granted" => d = c
        BY <1>8, <3>3 DEF SignInInv, GrantsAreCurrent
      <4> QED BY <1>3, <4>1
    <3> QED BY <3>1, <3>2, <3>3
  <2> HIDE DEF s
  <2>4. BrowserTyped' BY <1>1, <1>3, <1>5, <2>2 DEF SignInInv, BrowserTyped, CookieSet
  <2>5. OfOneSession' BY <1>1, <2>2, <2>3 DEF SignInInv, OfOneSession
  <2>6. GrantsAreCurrent' BY <2>3 DEF GrantsAreCurrent
  <2>7. JarIsCurrent' BY <1>1, <2>2 DEF JarIsCurrent
  <2>8. NothingTakesIt'
    <3>1. SUFFICES ASSUME overlapped = {}
                   PROVE  /\ jar' # NoCookie
                          /\ \A d \in Clients : /\ answers'[d].kind # "cleared"
                                                /\ visits[d].op # "refresh"
      BY <1>1 DEF NothingTakesIt
    <3>2. \A d \in Clients : d # c => visits[d].op = "none" /\ answers[d].kind = "none"
      BY <1>4, <3>1, OneWaits
    <3>3. jar' # NoCookie BY <2>2 DEF NoCookie
    <3> QED BY <1>3, <1>4, <3>2, <3>3
  <2> QED BY <1>2, <1>6, <2>4, <2>5, <2>6, <2>7, <2>8 DEF SignInInv
<1> QED BY <1>4, <1>7, <1>8

\* The grace of a session ends when no answer with its token is on the way.
LEMMA TimeStep ==
  ASSUME SessionConstants, SignInInv, NEW s \in Sids, BrowserTime(s) PROVE SignInInv'
<1>1. /\ \A c \in Clients : answers[c].kind = "granted" => answers[c].cookie.sid # s
      /\ Open(s) /\ sessions' = [sessions EXCEPT ![s].recent = FALSE]
      /\ UNCHANGED <<account, exchanged, visits, jar, asked, answers, mine, overlapped>>
  BY DEF BrowserTime, GraceEnds, browserVars
<1>2. SessionsInv' BY RevokeStep DEF BrowserTime, SignInInv
<1>3. /\ \A r \in Sids : r # s => sessions'[r] = sessions[r]
      /\ sessions'[s] # Gone /\ sessions'[s].token = sessions[s].token
      /\ sessions'[s].revoked = sessions[s].revoked /\ sessions[s] # Gone
  <2> DEFINE new == [sessions[s] EXCEPT !.recent = FALSE]
  <2>1. sessions[s] \in Session /\ sessions' = [sessions EXCEPT ![s] = new]
    BY <1>1 DEF Open, SignInInv, SessionsInv
  <2>2. new \in Session /\ new.token = sessions[s].token /\ new.revoked = sessions[s].revoked
    BY <2>1 DEF Session
  <2> HIDE DEF new
  <2> QED BY <1>1, <2>1, <2>2 DEF SignInInv, SessionsInv, SessionConstants, Open
<1>4. mine # Gone => /\ mine \in Sids /\ sessions'[mine] # Gone
                     /\ sessions'[mine].token = sessions[mine].token
                     /\ Open(mine)' <=> Open(mine)
  <2>1. mine # Gone => mine \in Sids /\ sessions[mine] # Gone
    BY DEF SignInInv, BrowserTyped
  <2>2. CASE mine = s BY <1>1, <1>3, <2>1, <2>2 DEF Open
  <2>3. CASE mine # s BY <1>1, <1>3, <2>1, <2>3 DEF Open
  <2> QED BY <2>2, <2>3
<1>5. \A c \in Clients : Waits(c)'
  BY <1>1 DEF SignInInv, BrowserTyped, Waits, OnItsWay, AtService
<1>6. BrowserTyped' BY <1>1, <1>4, <1>5 DEF SignInInv, BrowserTyped
<1>7. OneAtATime' BY <1>1 DEF SignInInv, OneAtATime
<1>8. OfOneSession'
  <2>1. \A c \in Clients : visits[c].op = "refresh" => mine # Gone
    BY DEF SignInInv, OfOneSession, SessionsInv, Visits, SessionConstants
  <2> QED BY <1>1, <1>4, <2>1 DEF SignInInv, OfOneSession
<1>9. GrantsAreCurrent'
  <2>1. ASSUME NEW c \in Clients, answers[c].kind = "granted"
        PROVE  answers[c].cookie.sid \in Sids /\ answers[c].cookie.sid # s
    <3>1. answers[c] \in [kind : {"granted"}, cookie : [sid : Sids, token : Nat]]
      BY <2>1 DEF SignInInv, BrowserTyped, AnswerSet, NoAnswer, Cleared
    <3> QED BY <1>1, <2>1, <3>1
  <2> QED BY <1>1, <1>3, <2>1 DEF SignInInv, GrantsAreCurrent
<1>10. JarIsCurrent'
  BY <1>1, <1>4 DEF SignInInv, JarIsCurrent, OfOneSession
<1>11. NothingTakesIt' BY <1>1, <1>4 DEF SignInInv, NothingTakesIt
<1> QED BY <1>2, <1>6, <1>7, <1>8, <1>9, <1>10, <1>11 DEF SignInInv

-----------------------------------------------------------------------------
LEMMA SignInInit == ASSUME SessionConstants, BrowserInit PROVE BrowserInv
<1>1. SessionsInv /\ \A c \in Clients : visits[c] = NoVisit
  BY SessionsInit DEF BrowserInit, AuthInit
<1>2. /\ \A c \in Clients : asked[c] = "none" /\ answers[c] = NoAnswer
      /\ asked \in [Clients -> Asks] /\ answers \in [Clients -> AnswerSet]
      /\ jar = NoCookie /\ mine = Gone /\ account.active = TRUE /\ troubles = 0
  BY DEF BrowserInit, AuthInit, Asks, AnswerSet
<1>3. BrowserTyped BY <1>1, <1>2 DEF BrowserTyped, Waits, CookieSet
<1>4. \A c \in Clients : visits[c].op = "none" /\ answers[c].kind = "none"
  BY <1>1, <1>3, <1>2, WaitsFacts
<1> QED BY <1>1, <1>2, <1>3, <1>4 DEF BrowserInv, SignInInv, OneAtATime, OfOneSession,
        GrantsAreCurrent, JarIsCurrent, NothingTakesIt

\* What was overlapped or lost stays so.
LEMMA TidyBefore ==
  ASSUME troubles \in Nat, [BrowserNext]_<<authVars, browserVars>>
  PROVE  /\ troubles' \in Nat /\ (Tidy' => Tidy)
         /\ Tidy' => \A c \in Clients : ~RefreshFails(c) /\ ~LoseAnswer(c)
<1>1. ASSUME NEW c \in Clients,
             TabLogin(c) \/ TabRefresh(c) \/ TabLogout(c)
      PROVE  overlapped \subseteq overlapped' /\ UNCHANGED troubles
  BY <1>1 DEF TabLogin, TabRefresh, TabLogout, Sends
<1>2. ASSUME NEW c \in Clients,
             \/ AnswerRefresh(c) \/ Receive(c) \/ \E s \in Sids : AnswerLogin(c, s)
      PROVE  UNCHANGED <<overlapped, troubles>>
  BY <1>2 DEF AnswerRefresh, Receive, AnswerLogin
<1>3. ASSUME NEW c \in Clients, RefreshFails(c) \/ LoseAnswer(c)
      PROVE  UNCHANGED overlapped /\ troubles' \in Nat /\ troubles' # 0
  BY <1>3 DEF RefreshFails, LoseAnswer
<1>4. ASSUME NEW s \in Sids, BrowserTime(s) PROVE UNCHANGED <<overlapped, troubles>>
  BY <1>4 DEF BrowserTime, browserVars
<1>5. CASE UNCHANGED <<authVars, browserVars>> BY <1>3, <1>5 DEF browserVars, Tidy
<1>6. CASE BrowserNext
  <2>1. troubles' \in Nat /\ (Tidy' => Tidy)
    BY <1>1, <1>2, <1>3, <1>4, <1>6 DEF BrowserNext, Tidy
  <2>2. Tidy' => \A c \in Clients : ~RefreshFails(c) /\ ~LoseAnswer(c) BY <1>3 DEF Tidy
  <2> QED BY <2>1, <2>2
<1> QED BY <1>5, <1>6

LEMMA SignInStays ==
  ASSUME SessionConstants, SignInInv, UNCHANGED <<authVars, browserVars>> PROVE SignInInv'
<1>1. /\ UNCHANGED <<account, sessions, exchanged, visits>>
      /\ UNCHANGED <<jar, asked, answers, mine, overlapped>>
  BY DEF authVars, browserVars
<1>2. SessionsInv' BY <1>1, QuietStep DEF SignInInv
<1>3. BrowserTyped' BY <1>1 DEF SignInInv, BrowserTyped, Waits, OnItsWay, AtService
<1>4. OneAtATime' /\ OfOneSession' /\ GrantsAreCurrent' /\ JarIsCurrent' /\ NothingTakesIt'
  BY <1>1 DEF SignInInv, OneAtATime, OfOneSession, GrantsAreCurrent, JarIsCurrent,
              NothingTakesIt, Open
<1> QED BY <1>2, <1>3, <1>4 DEF SignInInv

LEMMA SignInStep ==
  ASSUME SessionConstants, BrowserInv, [BrowserNext]_<<authVars, browserVars>>
  PROVE  BrowserInv'
<1>1. troubles' \in Nat /\ (Tidy' => Tidy) BY TidyBefore DEF BrowserInv
<1>2. SUFFICES ASSUME Tidy' PROVE SignInInv' BY <1>1 DEF BrowserInv
<1>3. SignInInv /\ \A c \in Clients : ~RefreshFails(c) /\ ~LoseAnswer(c)
  BY <1>1, <1>2, TidyBefore DEF BrowserInv
<1>4. CASE UNCHANGED <<authVars, browserVars>> BY <1>3, <1>4, SignInStays
<1>5. CASE BrowserNext
  BY <1>2, <1>3, <1>5, LoginStep, LogoutStep, TabRefreshStep, AnswerRefreshStep,
     AnswerLoginStep, ReceiveStep, TimeStep DEF BrowserNext
<1> QED BY <1>4, <1>5

LEMMA SignInSeen == ASSUME SessionConstants, BrowserInv PROVE SignInKept
<1>1. SUFFICES ASSUME Tidy PROVE
        /\ Quiet /\ mine # Gone /\ Open(mine) =>
              \/ jar = Cookie(mine, sessions[mine].token)
              \/ jar = NoCookie /\ overlapped # {}
        /\ \A c \in Clients : visits[c].op # "reuse"
  BY DEF SignInKept, Tidy
<1>2. SignInInv BY <1>1 DEF BrowserInv
<1>3. \A c \in Clients : visits[c].op # "reuse" BY <1>2, WaitsFacts DEF SignInInv
<1>4. ASSUME Quiet, mine # Gone, Open(mine), jar # Cookie(mine, sessions[mine].token)
      PROVE  jar = NoCookie /\ overlapped # {}
  <2>1. ASSUME jar # NoCookie PROVE FALSE
    <3>1. jar.sid = mine /\ jar.token = sessions[mine].token
      BY <1>2, <1>4, <2>1, QuietFacts
    <3>2. jar \in [sid : Sids, token : Nat] BY <1>2, <2>1 DEF SignInInv, BrowserTyped, CookieSet
    <3>3. jar = [sid |-> jar.sid, token |-> jar.token] BY <3>2
    <3> QED BY <1>4, <3>1, <3>3 DEF Cookie
  <2> QED BY <1>2, <1>4, <2>1 DEF SignInInv, NothingTakesIt
<1> QED BY <1>3, <1>4

\* While nothing is lost and only refreshes overlap, the cookie is the present token of the
\* session of the last login until that ends, or the browser has none; without overlap it
\* has one, and no refresh is taken for theft.
THEOREM SignInIsKept == ASSUME SessionConstants PROVE BrowserSpec => []SignInKept
<1>1. BrowserInit => BrowserInv BY SignInInit
<1>2. BrowserInv /\ [BrowserNext]_<<authVars, browserVars>> => BrowserInv' BY SignInStep
<1>3. BrowserInv => SignInKept BY SignInSeen
<1> QED BY <1>1, <1>2, <1>3, PTL DEF BrowserSpec

-----------------------------------------------------------------------------
(* OneTimeCodes *)

Code == [used : BOOLEAN, age : 0..Hour, attempts : 0..MaxTries]
Guest == {NoGuest, [op |-> "issue"]}
           \cup [op : {"found", "matched"}, code : Issued]

\* Codes are numbered from 1 on, and a request holds one that was issued.
CodesTyped ==
    /\ \E k \in 0..MaxCodes : codes \in [1..k -> Code]
    /\ tried \in [Numbers -> Nat] /\ accepted \in [Numbers -> Nat]
    /\ guests \in [Guests -> Guest]

\* The tries of a code are counted, and one that let somebody in is used.
TriesCounted ==
    \A n \in Numbers :
        /\ tried[n] = IF n \in Issued THEN codes[n].attempts ELSE 0
        /\ accepted[n] <= 1
        /\ accepted[n] = 1 => n \in Issued /\ codes[n].used

Recent == {n \in Issued : codes[n].age < Hour}
Issuing == {g \in Guests : guests[g].op = "issue"}

\* Every code over the limit was let through before the others were stored.
RateKept == Cardinality(Recent) + Cardinality(Issuing) < OtpPerHour + Cardinality(Guests)

CodesInv == CodesTyped /\ TriesCounted /\ RateKept

LEMMA Finite ==
  ASSUME CodesTyped
  PROVE  /\ IsFiniteSet(Recent) /\ Cardinality(Recent) \in Nat
         /\ IsFiniteSet(Issuing) /\ Cardinality(Issuing) \in Nat
         /\ Cardinality(Issuing) <= Cardinality(Guests) /\ Cardinality(Guests) \in Nat
<1>1. PICK k \in 0..MaxCodes : codes \in [1..k -> Code]
  BY DEF CodesTyped
<1>2. IsFiniteSet(1..k) /\ Recent \subseteq 1..k
  BY <1>1, FS_Interval DEF Recent, Issued
<1>3. IsFiniteSet(Recent)
  BY <1>2, FS_Subset
<1>4. IsFiniteSet(Issuing) /\ Cardinality(Issuing) <= Cardinality(Guests)
  BY CodesAssumption, FS_Subset DEF Issuing
<1> QED BY <1>3, <1>4, CodesAssumption, FS_CardinalityType

\* What a step may do to the recent codes and to the requests that issue.
LEMMA RateStays ==
  ASSUME CodesInv, CodesTyped', Recent' \subseteq Recent, Issuing' \subseteq Issuing
  PROVE  RateKept'
<1>1. /\ Cardinality(Recent) \in Nat /\ Cardinality(Recent') \in Nat
      /\ Cardinality(Issuing) \in Nat /\ Cardinality(Issuing') \in Nat
      /\ IsFiniteSet(Recent) /\ IsFiniteSet(Issuing) /\ Cardinality(Guests) \in Nat
  <2>1. (CodesTyped => /\ Cardinality(Recent) \in Nat /\ Cardinality(Issuing) \in Nat)'
    BY Finite, PTL
  <2> QED BY <2>1, Finite DEF CodesInv
<1>2. Cardinality(Recent') <= Cardinality(Recent)
      /\ Cardinality(Issuing') <= Cardinality(Issuing)
  BY <1>1, FS_Subset
<1> QED BY <1>1, <1>2, CodesAssumption DEF CodesInv, RateKept


LEMMA CodesBegin == CodesInit => CodesInv
<1> SUFFICES ASSUME CodesInit PROVE CodesInv
  OBVIOUS
<1>1. codes = <<>> /\ Issued = {} /\ \A g \in Guests : guests[g] = NoGuest
  BY DEF CodesInit, Issued
<1>2. CodesTyped
  <2>1. 0 \in 0..MaxCodes /\ codes \in [1..0 -> Code]
    BY <1>1, CodesAssumption
  <2> QED BY <1>1, <2>1 DEF CodesTyped, CodesInit, Guest
<1>3. TriesCounted
  BY <1>1 DEF TriesCounted, CodesInit
<1>4. RateKept
  <2>1. Recent = {} /\ Issuing = {}
    BY <1>1 DEF Recent, Issuing, NoGuest
  <2> QED BY <1>2, <2>1, Finite, FS_EmptySet, CodesAssumption DEF RateKept
<1> QED BY <1>2, <1>3, <1>4 DEF CodesInv

\* A request that goes on, while no code is issued.
LEMMA GuestTyped ==
  ASSUME CodesInv, NEW g \in Guests, NEW x,
         x = NoGuest \/ x = [op |-> "issue"]
           \/ x \in [op : {"found", "matched"}, code : Issued],
         guests' = [guests EXCEPT ![g] = x], Issued' = Issued
  PROVE  guests' \in [Guests -> Guest']
<1>1. Guest' = Guest /\ x \in Guest
  BY DEF Guest
<1> QED BY <1>1 DEF CodesInv, CodesTyped

LEMMA AskCodeKeeps == ASSUME CodesInv, NEW g \in Guests, AskCode(g) PROVE CodesInv'
<1>1. /\ guests[g] = NoGuest /\ guests' = [guests EXCEPT ![g] = [op |-> "issue"]]
      /\ codes' = codes /\ tried' = tried /\ accepted' = accepted
  BY DEF AskCode
<1>2. CodesTyped'
  <2>1. guests' \in [Guests -> Guest']
    BY <1>1, GuestTyped DEF Issued
  <2> QED BY <1>1, <2>1 DEF CodesInv, CodesTyped
<1>3. TriesCounted'
  BY <1>1 DEF CodesInv, TriesCounted, Issued
<1>4. RateKept'
  <2>1. Recent' = Recent /\ Cardinality(Recent) < OtpPerHour
    BY <1>1 DEF AskCode, MayIssue, Recent, Issued
  <2>2. Cardinality(Issuing') <= Cardinality(Guests) /\ Cardinality(Issuing') \in Nat
    <3>1. (CodesTyped => /\ Cardinality(Issuing) <= Cardinality(Guests)
                         /\ Cardinality(Issuing) \in Nat)'
      BY Finite, PTL
    <3> QED BY <1>2, <3>1
  <2>3. Cardinality(Recent) \in Nat /\ Cardinality(Guests) \in Nat
    BY Finite DEF CodesInv
  <2> QED BY <2>1, <2>2, <2>3, CodesAssumption DEF RateKept
<1> QED BY <1>2, <1>3, <1>4 DEF CodesInv

LEMMA IssueCodeKeeps == ASSUME CodesInv, NEW g \in Guests, IssueCode(g) PROVE CodesInv'
<1> DEFINE n == Cardinality(Issued) + 1
<1>1. PICK k \in 0..MaxCodes : codes \in [1..k -> Code]
  BY DEF CodesInv, CodesTyped
<1>2. k \in Nat /\ Issued = 1..k /\ n = k + 1
  <2>1. k \in Nat /\ Issued = 1..k
    BY <1>1, CodesAssumption DEF Issued
  <2>2. Cardinality(1..k) = k
    <3>1. Cardinality(1..k) = IF 1 > k THEN 0 ELSE k - 1 + 1
      BY <2>1, FS_Interval
    <3> QED BY <2>1, <3>1
  <2> QED BY <2>1, <2>2
<1>3. /\ guests[g].op = "issue" /\ n \in Numbers
      /\ codes' = [m \in 1..n |->
            IF m = n THEN [used |-> FALSE, age |-> 0, attempts |-> 0]
                     ELSE [codes[m] EXCEPT !.used = TRUE]]
      /\ guests' = [guests EXCEPT ![g] = NoGuest] /\ tried' = tried /\ accepted' = accepted
  BY DEF IssueCode, Answered
<1> HIDE DEF n
<1>4. \A m \in 1..k : /\ codes[m] \in Code /\ codes'[m] = [codes[m] EXCEPT !.used = TRUE]
                      /\ m # n /\ m \in 1..n
  BY <1>1, <1>2, <1>3
<1>5. codes'[n] = [used |-> FALSE, age |-> 0, attempts |-> 0] /\ Issued' = 1..n
      /\ \A m \in 1..n : m \in 1..k \/ m = n
  BY <1>2, <1>3 DEF Issued
<1>6. CodesTyped'
  <2>1. codes' \in [1..n -> Code]
    <3>1. \A m \in 1..n : codes'[m] \in Code
      <4>1. \A m \in 1..k : codes'[m] \in Code
        BY <1>4 DEF Code
      <4>2. codes'[n] \in Code
        BY <1>5, CodesAssumption DEF Code, Hour
      <4> QED BY <1>5, <4>1, <4>2
    <3> QED BY <1>3, <3>1
  <2>2. guests' \in [Guests -> Guest']
    <3>1. Guest \subseteq Guest' /\ NoGuest \in Guest'
      BY <1>2, <1>4, <1>5 DEF Guest
    <3> QED BY <1>3, <3>1 DEF CodesInv, CodesTyped
  <2>3. n \in 0..MaxCodes
    BY <1>3 DEF Numbers
  <2> QED BY <1>3, <2>1, <2>2, <2>3 DEF CodesInv, CodesTyped
<1>7. TriesCounted'
  <2>1. ASSUME NEW m \in Numbers
        PROVE  /\ tried'[m] = IF m \in Issued' THEN codes'[m].attempts ELSE 0
               /\ accepted'[m] <= 1
               /\ accepted'[m] = 1 => m \in Issued' /\ codes'[m].used
    <3>1. /\ tried[m] = IF m \in Issued THEN codes[m].attempts ELSE 0
          /\ accepted[m] <= 1 /\ (accepted[m] = 1 => m \in Issued /\ codes[m].used)
      BY DEF CodesInv, TriesCounted
    <3>2. CASE m \in 1..k
      BY <1>2, <1>3, <1>4, <1>5, <3>1, <3>2 DEF Code
    <3>3. CASE m = n
      <4>1. m \notin Issued /\ m \in Issued' /\ codes'[m].attempts = 0
        BY <1>2, <1>5, <3>3
      <4> QED BY <1>3, <3>1, <4>1
    <3>4. CASE m \notin 1..n
      BY <1>2, <1>3, <1>4, <1>5, <3>1, <3>4
    <3> QED BY <1>5, <3>2, <3>3, <3>4
  <2> QED BY <2>1 DEF TriesCounted
<1>8. RateKept'
  <2>1. /\ Cardinality(Recent) \in Nat /\ Cardinality(Issuing) \in Nat
        /\ IsFiniteSet(Recent) /\ IsFiniteSet(Issuing) /\ Cardinality(Guests) \in Nat
    BY Finite DEF CodesInv
  <2>2. Recent' = Recent \cup {n} /\ n \notin Recent
    <3>1. \A m \in 1..k : codes'[m].age = codes[m].age
      BY <1>4 DEF Code
    <3>2. n \in Recent' /\ n \notin Recent
      BY <1>2, <1>4, <1>5 DEF Recent, Hour
    <3> QED BY <1>2, <1>4, <1>5, <3>1, <3>2 DEF Recent
  <2>3. Issuing' = Issuing \ {g} /\ g \in Issuing
    <3>1. \A c \in Guests : guests'[c] = IF c = g THEN NoGuest ELSE guests[c]
      BY <1>3 DEF CodesInv, CodesTyped
    <3> QED BY <1>3, <3>1 DEF Issuing, NoGuest
  <2>4. Cardinality(Recent') = Cardinality(Recent) + 1
    BY <2>1, <2>2, FS_AddElement
  <2>5. Cardinality(Issuing') = Cardinality(Issuing) - 1
    BY <2>1, <2>3, FS_RemoveElement
  <2> QED BY <2>1, <2>4, <2>5, CodesAssumption DEF CodesInv, RateKept
<1> QED BY <1>6, <1>7, <1>8 DEF CodesInv


\* A step that changes one code, and what a request knows of it.
LEMMA CodeChangeKeeps ==
  ASSUME CodesInv, NEW n \in Issued, NEW c \in Code, codes' = [codes EXCEPT ![n] = c],
         c.age >= codes[n].age, guests' \in [Guests -> Guest], Issuing' \subseteq Issuing,
         tried' \in [Numbers -> Nat], accepted' \in [Numbers -> Nat],
         TriesCounted'
  PROVE  CodesInv'
<1>1. PICK k \in 0..MaxCodes : codes \in [1..k -> Code]
  BY DEF CodesInv, CodesTyped
<1>2. Issued = 1..k /\ Issued' = 1..k
  BY <1>1 DEF Issued
<1>3. CodesTyped'
  <2>1. codes' \in [1..k -> Code]
    BY <1>1, <1>2
  <2>2. Guest' = Guest
    BY <1>2 DEF Guest
  <2> QED BY <2>1, <2>2 DEF CodesTyped
<1>4. Recent' \subseteq Recent
  <2>1. \A m \in 1..k : codes'[m] = IF m = n THEN c ELSE codes[m]
    BY <1>1, <1>2
  <2>2. codes[n].age \in 0..Hour /\ c.age \in 0..Hour
    BY <1>1, <1>2 DEF Code
  <2> QED BY <1>2, <2>1, <2>2 DEF Recent, Hour
<1>5. RateKept'
  BY <1>3, <1>4, RateStays
<1> QED BY <1>3, <1>5 DEF CodesInv

\* A step that changes no code.
LEMMA NoChangeKeeps ==
  ASSUME CodesInv, codes' = codes, tried' = tried, accepted' = accepted,
         guests' \in [Guests -> Guest], Issuing' \subseteq Issuing
  PROVE  CodesInv'
<1>1. Issued' = Issued /\ Recent' = Recent /\ Guest' = Guest
  BY DEF Issued, Recent, Guest
<1>2. CodesTyped' /\ TriesCounted'
  BY <1>1 DEF CodesInv, CodesTyped, TriesCounted
<1> QED BY <1>1, <1>2, RateStays DEF CodesInv

\* A request that goes on without issuing.
LEMMA GoesOn ==
  ASSUME CodesInv, NEW g \in Guests, NEW x \in Guest, x.op # "issue",
         guests' = [guests EXCEPT ![g] = x]
  PROVE  guests' \in [Guests -> Guest] /\ Issuing' \subseteq Issuing
<1>1. guests' \in [Guests -> Guest] /\ \A h \in Guests : guests'[h] = IF h = g THEN x ELSE guests[h]
  BY DEF CodesInv, CodesTyped
<1> QED BY <1>1 DEF Issuing

LEMMA CodeIsCode == ASSUME CodesInv, NEW n \in Issued PROVE codes[n] \in Code /\ n \in Numbers
<1>1. PICK k \in 0..MaxCodes : codes \in [1..k -> Code]
  BY DEF CodesInv, CodesTyped
<1> QED BY <1>1, CodesAssumption DEF Issued, Numbers

LEMMA FindCodeKeeps ==
  ASSUME CodesInv, NEW g \in Guests, NEW n \in Numbers, FindCode(g, n) PROVE CodesInv'
<1> DEFINE x == [op |-> "found", code |-> n]
<1>1. /\ n \in Issued /\ guests' = [guests EXCEPT ![g] = x]
      /\ codes' = codes /\ tried' = tried /\ accepted' = accepted
  BY DEF FindCode
<1>2. x \in Guest /\ x.op # "issue"
  BY <1>1 DEF Guest
<1> HIDE DEF x
<1> QED BY <1>1, <1>2, GoesOn, NoChangeKeeps

LEMMA GuestStopsKeeps == ASSUME CodesInv, NEW g \in Guests, GuestStops(g) PROVE CodesInv'
<1>1. NoGuest \in Guest /\ NoGuest.op # "issue"
  BY DEF Guest, NoGuest
<1> QED BY <1>1, GoesOn, NoChangeKeeps DEF GuestStops, Answered

LEMMA TryCodeKeeps ==
  ASSUME CodesInv, NEW g \in Guests, NEW matches \in BOOLEAN, TryCode(g, matches)
  PROVE  CodesInv'
<1> DEFINE n == guests[g].code
           c == [codes[n] EXCEPT !.attempts = @ + 1]
           x == [guests[g] EXCEPT !.op = "matched"]
<1>1. guests[g].op = "found" /\ accepted' = accepted
  BY DEF TryCode
<1>2. guests[g] \in [op : {"found", "matched"}, code : Issued]
  BY <1>1 DEF CodesInv, CodesTyped, Guest, NoGuest
<1>3. n \in Issued /\ codes[n] \in Code /\ n \in Numbers
  BY <1>2, CodeIsCode
<1>4. x \in Guest /\ x.op # "issue" /\ NoGuest \in Guest /\ NoGuest.op # "issue"
  BY <1>2 DEF Guest, NoGuest
<1>5. guests' = [guests EXCEPT ![g] = x] \/ guests' = [guests EXCEPT ![g] = NoGuest]
  BY DEF TryCode, Answered
<1>6. guests' \in [Guests -> Guest] /\ Issuing' \subseteq Issuing
  BY <1>4, <1>5, GoesOn
<1>7. CASE Usable(n) /\ codes[n].attempts < MaxTries
  <2>1. /\ codes' = [codes EXCEPT ![n] = c] /\ tried' = [tried EXCEPT ![n] = @ + 1]
    BY <1>7 DEF TryCode
  <2>2. c \in Code /\ c.age = codes[n].age /\ c.used = codes[n].used
        /\ c.attempts = codes[n].attempts + 1 /\ codes[n].attempts \in Nat
    BY <1>3, <1>7, CodesAssumption DEF Code
  <2> HIDE DEF n, c, x
  <2>3. Issued' = Issued /\ \A m \in Issued : codes'[m] = IF m = n THEN c ELSE codes[m]
    BY <2>1 DEF Issued
  <2>4. tried' \in [Numbers -> Nat]
        /\ \A m \in Numbers : tried'[m] = IF m = n THEN tried[m] + 1 ELSE tried[m]
    BY <1>3, <2>1 DEF CodesInv, CodesTyped
  <2>5. TriesCounted'
    BY <1>1, <1>3, <2>2, <2>3, <2>4 DEF CodesInv, TriesCounted
  <2>6. c.age >= codes[n].age
    BY <1>3, <2>2 DEF Code
  <2> QED BY <1>1, <1>3, <1>6, <2>1, <2>2, <2>4, <2>5, <2>6, CodeChangeKeeps
          DEF CodesInv, CodesTyped
<1>8. CASE ~(Usable(n) /\ codes[n].attempts < MaxTries)
  <2>1. codes' = codes /\ tried' = tried
    BY <1>8 DEF TryCode
  <2> QED BY <1>1, <1>6, <2>1, NoChangeKeeps
<1> QED BY <1>7, <1>8

LEMMA UseCodeKeeps == ASSUME CodesInv, NEW g \in Guests, UseCode(g) PROVE CodesInv'
<1> DEFINE n == guests[g].code
           c == [codes[n] EXCEPT !.used = TRUE]
<1>1. /\ guests[g].op = "matched" /\ codes' = [codes EXCEPT ![n] = c] /\ tried' = tried
      /\ accepted' = [accepted EXCEPT ![n] = @ + (IF ~codes[n].used THEN 1 ELSE 0)]
      /\ guests' = [guests EXCEPT ![g] = NoGuest]
  BY DEF UseCode, UseIf, Answered
<1>2. guests[g] \in [op : {"found", "matched"}, code : Issued]
  BY <1>1 DEF CodesInv, CodesTyped, Guest, NoGuest
<1>3. n \in Issued /\ codes[n] \in Code /\ n \in Numbers
  BY <1>2, CodeIsCode
<1>4. NoGuest \in Guest /\ NoGuest.op # "issue"
  BY DEF Guest, NoGuest
<1>5. guests' \in [Guests -> Guest] /\ Issuing' \subseteq Issuing
  BY <1>1, <1>4, GoesOn
<1>6. c \in Code /\ c.age = codes[n].age /\ c.used /\ c.attempts = codes[n].attempts
  BY <1>3 DEF Code
<1> HIDE DEF n, c
<1>7. Issued' = Issued /\ \A m \in Issued : codes'[m] = IF m = n THEN c ELSE codes[m]
  BY <1>1 DEF Issued
<1>8. accepted' \in [Numbers -> Nat]
      /\ \A m \in Numbers : accepted'[m] = IF m = n /\ ~codes[n].used
                                           THEN accepted[m] + 1 ELSE accepted[m]
  BY <1>1, <1>3 DEF CodesInv, CodesTyped
<1>9. TriesCounted'
  <2>1. ASSUME NEW m \in Numbers
        PROVE  /\ tried'[m] = IF m \in Issued' THEN codes'[m].attempts ELSE 0
               /\ accepted'[m] <= 1
               /\ accepted'[m] = 1 => m \in Issued' /\ codes'[m].used
    <3>1. /\ tried[m] = IF m \in Issued THEN codes[m].attempts ELSE 0
          /\ accepted[m] <= 1 /\ (accepted[m] = 1 => m \in Issued /\ codes[m].used)
          /\ accepted[m] \in Nat
      BY DEF CodesInv, TriesCounted, CodesTyped
    <3>2. CASE m = n
      BY <1>1, <1>3, <1>6, <1>7, <1>8, <3>1, <3>2
    <3>3. CASE m # n
      BY <1>1, <1>7, <1>8, <3>1, <3>3
    <3> QED BY <3>2, <3>3
  <2> QED BY <2>1 DEF TriesCounted
<1>10. c.age >= codes[n].age
  BY <1>3, <1>6 DEF Code
<1> QED BY <1>1, <1>3, <1>5, <1>6, <1>8, <1>9, <1>10, CodeChangeKeeps
        DEF CodesInv, CodesTyped

LEMMA CodeAgesKeeps == ASSUME CodesInv, NEW n \in Numbers, CodeAges(n) PROVE CodesInv'
<1> DEFINE c == [codes[n] EXCEPT !.age = @ + 1]
<1>1. /\ n \in Issued /\ codes[n].age < Hour /\ codes' = [codes EXCEPT ![n] = c]
      /\ tried' = tried /\ accepted' = accepted /\ guests' = guests
  BY DEF CodeAges
<1>2. codes[n] \in Code
  BY <1>1, CodeIsCode
<1>3. /\ c \in Code /\ c.age >= codes[n].age /\ c.used = codes[n].used
      /\ c.attempts = codes[n].attempts
  BY <1>1, <1>2 DEF Code, Hour
<1> HIDE DEF c
<1>4. Issued' = Issued /\ \A m \in Issued : codes'[m] = IF m = n THEN c ELSE codes[m]
  BY <1>1 DEF Issued
<1>5. TriesCounted'
  BY <1>1, <1>3, <1>4 DEF CodesInv, TriesCounted
<1>6. guests' \in [Guests -> Guest] /\ Issuing' \subseteq Issuing
  BY <1>1 DEF CodesInv, CodesTyped, Issuing
<1> QED BY <1>1, <1>3, <1>5, <1>6, CodeChangeKeeps DEF CodesInv, CodesTyped

\* A code lets one request in and is compared MaxTries times at most, and the limit of
\* codes an hour is passed by fewer than the requests that ask at one time, whatever
\* they overlap with (otp.service.ts).
THEOREM CodesWorkOnce == CodesSpec => []CodeWorksOnce
<1>1. CodesInv /\ [CodesNext]_codeVars => CodesInv'
  <2> SUFFICES ASSUME CodesInv, [CodesNext]_codeVars PROVE CodesInv'
    OBVIOUS
  <2>1. CASE UNCHANGED codeVars
    BY <2>1, NoChangeKeeps DEF codeVars, CodesInv, CodesTyped, Issuing
  <2> QED BY <2>1, AskCodeKeeps, IssueCodeKeeps, UseCodeKeeps, GuestStopsKeeps,
             FindCodeKeeps, TryCodeKeeps, CodeAgesKeeps DEF CodesNext
<1>2. CodesInv => CodeWorksOnce
  <2> SUFFICES ASSUME CodesInv PROVE CodeWorksOnce
    OBVIOUS
  <2>1. \A n \in Numbers : accepted[n] <= 1 /\ tried[n] <= MaxTries
    BY CodeIsCode, CodesAssumption DEF CodesInv, TriesCounted, Code
  <2>2. Cardinality(Recent) < OtpPerHour + Cardinality(Guests)
    BY Finite, CodesAssumption DEF CodesInv, RateKept
  <2> QED BY <2>1, <2>2 DEF CodeWorksOnce, Recent
<1> QED BY <1>1, <1>2, CodesBegin, PTL DEF CodesSpec

-----------------------------------------------------------------------------
(* RoleAssignments *)

Role == RoleIds \cup {TenantAdmin}
Grant == Users \X Role \X Units

\* What a request that is not Nothing holds.
Ask == [op : {"role"}, role : RoleIds, key : RoleKeys \cup {Nothing}]
         \cup [op : {"delete"}, role : RoleIds \ {TenantAdmin}]
         \cup [op : {"assign", "remove"}, role : Role, grant : Grant]

AccessTyped ==
    /\ Stored \subseteq Role /\ TenantAdmin \in Stored
    /\ \A r \in Stored : roles[r] \in RoleKeys \cup {Nothing}
    /\ grants \subseteq Grant /\ IsFiniteSet(grants)
    /\ asks \in [Admins -> Ask \cup {Nothing}]
    /\ \A a \in Admins : asks[a] # Nothing /\ asks[a].op \in {"assign", "remove"} =>
                           asks[a].grant[2] = asks[a].role
    /\ crossed \in BOOLEAN

\* A pack has one role, under whatever identifier.
KeysOnce == \A q, r \in Stored : roles[q] = roles[r] /\ roles[q] # Nothing => q = r

Admin(g) == g[2] = TenantAdmin /\ g[3] = Top

\* What a request has checked is still so of these roles and assignments.
StillSoOf(c, stored, held) ==
    /\ c.op = "assign" => c.role \in stored
    /\ c.op = "delete" => {g \in held : g[2] = c.role} = {}
    /\ c.op = "remove" /\ Admin(c.grant) => \E g \in held \ {c.grant} : Admin(g)

\* So it is unless the request overlapped another that changes it.
StillSo(c) == StillSoOf(c, Stored, grants)

Changing == {"delete", "remove"}

Whole == ~crossed =>
    /\ \E g \in grants : Admin(g)
    /\ \A g \in grants : g[2] \in Stored
    /\ \A a \in Admins : asks[a] # Nothing => StillSo(asks[a])
    /\ \A a, b \in Admins :
         a # b /\ asks[a] # Nothing /\ asks[b] # Nothing /\ asks[a].op \in Changing =>
           asks[a].role # asks[b].role

AccessInv == AccessTyped /\ KeysOnce /\ Whole


\* A request has made its checks.
LEMMA CheckedKeeps ==
  ASSUME AccessInv, NEW a \in Admins, NEW c \in Ask, Checked(a, c),
         c.op \in {"assign", "remove"} => c.grant[2] = c.role, ~crossed => StillSo(c)
  PROVE  AccessInv'
<1>1. /\ asks[a] = Nothing /\ asks' = [asks EXCEPT ![a] = c]
      /\ crossed' = (crossed \/ \E other \in InFlight :
                        /\ {c.op, other.op} \cap {"delete", "remove"} # {}
                        /\ other.role = c.role)
      /\ roles' = roles /\ grants' = grants
  BY DEF Checked
<1>2. \A b \in Admins : asks'[b] = IF b = a THEN c ELSE asks[b]
  BY <1>1 DEF AccessInv, AccessTyped
<1>3. AccessTyped'
  BY <1>1, <1>2 DEF AccessInv, AccessTyped, Stored
<1>4. KeysOnce'
  BY <1>1 DEF AccessInv, KeysOnce, Stored
<1>5. ASSUME ~crossed'
      PROVE  /\ ~crossed
             /\ \A b \in Admins : asks[b] # Nothing /\ b # a =>
                  /\ asks[b].op \in Changing => asks[b].role # c.role
                  /\ c.op \in Changing => asks[b].role # c.role
  <2>1. ~crossed /\ \A other \in InFlight :
          {c.op, other.op} \cap {"delete", "remove"} # {} => other.role # c.role
    BY <1>1, <1>5
  <2>2. ASSUME NEW b \in Admins, asks[b] # Nothing,
               asks[b].op \in Changing \/ c.op \in Changing
        PROVE  asks[b].role # c.role
    <3>1. asks[b] \in InFlight
      BY <2>2 DEF InFlight
    <3>2. {c.op, asks[b].op} \cap {"delete", "remove"} # {}
      BY <2>2 DEF Changing
    <3> QED BY <2>1, <3>1, <3>2
  <2> QED BY <2>1, <2>2
<1>6. Whole'
  <2>1. \A b \in Admins : StillSo(asks[b])' <=> StillSo(asks'[b])
    BY <1>1 DEF StillSo, Stored
  <2>2. ASSUME ~crossed', NEW b \in Admins, asks'[b] # Nothing PROVE StillSo(asks'[b])
    BY <1>2, <1>5, <2>2 DEF AccessInv, Whole
  <2>3. ASSUME ~crossed', NEW b \in Admins, NEW d \in Admins, b # d,
               asks'[b] # Nothing, asks'[d] # Nothing, asks'[b].op \in Changing
        PROVE  asks'[b].role # asks'[d].role
    <3>1. CASE b = a
      BY <1>2, <1>5, <2>3, <3>1
    <3>2. CASE d = a
      BY <1>2, <1>5, <2>3, <3>2
    <3>3. CASE b # a /\ d # a
      BY <1>2, <1>5, <2>3, <3>3 DEF AccessInv, Whole
    <3> QED BY <3>1, <3>2, <3>3
  <2>4. ~crossed' => (\E g \in grants' : Admin(g)) /\ \A g \in grants' : g[2] \in Stored'
    BY <1>1, <1>5 DEF AccessInv, Whole, Stored
  <2> QED BY <2>1, <2>2, <2>3, <2>4 DEF Whole
<1> QED BY <1>3, <1>4, <1>6 DEF AccessInv

\* A request is over, and what it wrote leaves what the others have checked.
LEMMA OverKeeps ==
  ASSUME AccessInv, NEW a \in Admins, asks[a] # Nothing, Over(a),
         Stored' \subseteq Role, TenantAdmin \in Stored',
         \A r \in Stored' : roles'[r] \in RoleKeys \cup {Nothing},
         grants' \subseteq Grant, IsFiniteSet(grants'), KeysOnce',
         ~crossed => /\ \E g \in grants' : Admin(g)
                     /\ \A g \in grants' : g[2] \in Stored'
                     /\ \A b \in Admins \ {a} :
                          asks[b] # Nothing => StillSoOf(asks[b], Stored', grants')
  PROVE  AccessInv'
<1>1. /\ asks' = [asks EXCEPT ![a] = Nothing] /\ crossed' = crossed
      /\ \A b \in Admins : asks'[b] = IF b = a THEN Nothing ELSE asks[b]
  BY DEF Over, AccessInv, AccessTyped
<1>2. AccessTyped'
  BY <1>1 DEF AccessInv, AccessTyped
<1>3. Whole'
  <2>1. ASSUME ~crossed', NEW b \in Admins, asks'[b] # Nothing
        PROVE  StillSoOf(asks'[b], Stored', grants')
    BY <1>1, <2>1
  <2>2. \A b \in Admins : StillSo(asks[b])' <=> StillSoOf(asks'[b], Stored', grants')
    BY DEF StillSo
  <2>3. ASSUME ~crossed', NEW b \in Admins, NEW d \in Admins, b # d,
               asks'[b] # Nothing, asks'[d] # Nothing, asks'[b].op \in Changing
        PROVE  asks'[b].role # asks'[d].role
    BY <1>1, <2>3 DEF AccessInv, Whole
  <2>4. ~crossed' => (\E g \in grants' : Admin(g)) /\ \A g \in grants' : g[2] \in Stored'
    BY <1>1
  <2> QED BY <2>1, <2>2, <2>3, <2>4 DEF Whole
<1> QED BY <1>2, <1>3 DEF AccessInv

LEMMA CommitRoleKeeps ==
  ASSUME AccessInv, NEW a \in Admins, CommitRole(a)
  PROVE  AccessInv'
<1> DEFINE c == asks[a]
<1>1. c # Nothing /\ c.op = "role" /\ c.role \in RoleIds /\ c.key \in RoleKeys \cup {Nothing} /\ Over(a)
  BY DEF CommitRole, Refused, AccessInv, AccessTyped, Ask
<1>2. CASE roles' = roles /\ grants' = grants
  BY <1>1, <1>2, OverKeeps DEF AccessInv, AccessTyped, KeysOnce, Whole, Stored, StillSo
<1>3. CASE /\ c.role \notin Stored /\ (c.key # Nothing => \A r \in Stored : roles[r] # c.key)
           /\ roles' = [r \in Stored \cup {c.role} |-> IF r = c.role THEN c.key ELSE roles[r]]
           /\ grants' = grants
  <2> HIDE DEF c
  <2>1. Stored' = Stored \cup {c.role} /\ \A r \in Stored' :
          roles'[r] = IF r = c.role THEN c.key ELSE roles[r]
    BY <1>3 DEF Stored
  <2>2. /\ Stored' \subseteq Role /\ TenantAdmin \in Stored'
        /\ \A r \in Stored' : roles'[r] \in RoleKeys \cup {Nothing}
    BY <1>1, <2>1 DEF AccessInv, AccessTyped, Role
  <2>3. KeysOnce'
    BY <1>3, <2>1 DEF AccessInv, KeysOnce
  <2>4. ASSUME ~crossed
        PROVE  /\ \E g \in grants' : Admin(g)
               /\ \A g \in grants' : g[2] \in Stored'
               /\ \A b \in Admins \ {a} :
                    asks[b] # Nothing => StillSoOf(asks[b], Stored', grants')
    BY <1>3, <2>1, <2>4 DEF AccessInv, Whole, StillSo, StillSoOf
  <2>5. grants' \subseteq Grant /\ IsFiniteSet(grants')
    BY <1>3 DEF AccessInv, AccessTyped
  <2> QED BY <1>1, <2>2, <2>3, <2>4, <2>5, OverKeeps DEF c
<1> QED BY <1>2, <1>3 DEF CommitRole, Refused, Stored

LEMMA CommitDeleteRoleKeeps ==
  ASSUME AccessInv, NEW a \in Admins, CommitDeleteRole(a)
  PROVE  AccessInv'
<1> DEFINE c == asks[a]
<1>1. /\ c # Nothing /\ c.op = "delete" /\ c.role \in RoleIds \ {TenantAdmin} /\ Over(a)
      /\ Stored' = Stored \ {c.role} /\ \A r \in Stored' : roles'[r] = roles[r]
      /\ grants' = grants
  BY DEF CommitDeleteRole, AccessInv, AccessTyped, Ask, Stored
<1>2. /\ Stored' \subseteq Role /\ TenantAdmin \in Stored'
      /\ \A r \in Stored' : roles'[r] \in RoleKeys \cup {Nothing}
      /\ grants' \subseteq Grant /\ IsFiniteSet(grants') /\ KeysOnce'
  BY <1>1 DEF AccessInv, AccessTyped, KeysOnce
<1>3. ASSUME ~crossed
      PROVE  /\ \E g \in grants' : Admin(g)
             /\ \A g \in grants' : g[2] \in Stored'
             /\ \A b \in Admins \ {a} :
                  asks[b] # Nothing => StillSoOf(asks[b], Stored', grants')
  <2>1. \A g \in grants : g[2] # c.role
    BY <1>1, <1>3 DEF AccessInv, Whole, StillSo, StillSoOf
  <2>2. \A b \in Admins \ {a} : asks[b] # Nothing => asks[b].role # c.role /\ StillSo(asks[b])
    BY <1>1, <1>3 DEF AccessInv, Whole, Changing
  <2> QED BY <1>1, <1>3, <2>1, <2>2 DEF AccessInv, Whole, StillSo, StillSoOf
<1> QED BY <1>1, <1>2, <1>3, OverKeeps

LEMMA CommitAssignKeeps ==
  ASSUME AccessInv, NEW a \in Admins, CommitAssign(a)
  PROVE  AccessInv'
<1> DEFINE c == asks[a]
<1>1. /\ c # Nothing /\ c.op = "assign" /\ c.grant \in Grant /\ c.grant[2] = c.role /\ Over(a)
      /\ grants' = grants \cup {c.grant} /\ roles' = roles
  BY DEF CommitAssign, AccessInv, AccessTyped, Ask
<1>2. /\ Stored' = Stored /\ KeysOnce' /\ grants' \subseteq Grant
  BY <1>1 DEF AccessInv, AccessTyped, KeysOnce, Stored
<1>3. IsFiniteSet(grants')
  BY <1>1, FS_AddElement DEF AccessInv, AccessTyped
<1>4. ASSUME ~crossed
      PROVE  /\ \E g \in grants' : Admin(g)
             /\ \A g \in grants' : g[2] \in Stored'
             /\ \A b \in Admins \ {a} :
                  asks[b] # Nothing => StillSoOf(asks[b], Stored', grants')
  <2>1. c.role \in Stored
    BY <1>1, <1>4 DEF AccessInv, Whole, StillSo, StillSoOf
  <2>2. \A b \in Admins \ {a} : asks[b] # Nothing =>
          StillSo(asks[b]) /\ (asks[b].op = "delete" => asks[b].role # c.role)
    BY <1>1, <1>4 DEF AccessInv, Whole, Changing
  <2> HIDE DEF c
  <2>3. ASSUME NEW b \in Admins \ {a}, asks[b] # Nothing
        PROVE  StillSoOf(asks[b], Stored', grants')
    <3>1. asks[b].op = "delete" => {g \in grants' : g[2] = asks[b].role} = {}
      BY <1>1, <2>2, <2>3 DEF StillSo, StillSoOf
    <3>2. asks[b].op = "remove" /\ Admin(asks[b].grant) =>
            \E g \in grants' \ {asks[b].grant} : Admin(g)
      BY <1>1, <2>2, <2>3 DEF StillSo, StillSoOf
    <3>3. asks[b].op = "assign" => asks[b].role \in Stored'
      BY <1>2, <2>2, <2>3 DEF StillSo, StillSoOf
    <3> QED BY <3>1, <3>2, <3>3 DEF StillSoOf
  <2>4. (\E g \in grants' : Admin(g)) /\ \A g \in grants' : g[2] \in Stored'
    BY <1>1, <1>2, <1>4, <2>1 DEF AccessInv, Whole
  <2> QED BY <2>3, <2>4
<1> HIDE DEF c
<1> QED BY <1>1, <1>2, <1>3, <1>4, OverKeeps DEF c, AccessInv, AccessTyped

LEMMA CommitRemoveKeeps ==
  ASSUME AccessInv, NEW a \in Admins, CommitRemove(a)
  PROVE  AccessInv'
<1> DEFINE c == asks[a]
<1>1. /\ c # Nothing /\ c.op = "remove" /\ c.grant \in Grant /\ c.grant[2] = c.role /\ Over(a)
      /\ grants' = grants \ {c.grant} /\ roles' = roles
  BY DEF CommitRemove, AccessInv, AccessTyped, Ask
<1>2. /\ Stored' = Stored /\ KeysOnce' /\ grants' \subseteq Grant
  BY <1>1 DEF AccessInv, AccessTyped, KeysOnce, Stored
<1>3. IsFiniteSet(grants')
  BY <1>1, FS_RemoveElement DEF AccessInv, AccessTyped
<1>4. ASSUME ~crossed
      PROVE  /\ \E g \in grants' : Admin(g)
             /\ \A g \in grants' : g[2] \in Stored'
             /\ \A b \in Admins \ {a} :
                  asks[b] # Nothing => StillSoOf(asks[b], Stored', grants')
  <2>1. StillSo(c)
    BY <1>1, <1>4 DEF AccessInv, Whole
  <2>2. \A b \in Admins \ {a} : asks[b] # Nothing =>
          StillSo(asks[b]) /\ asks[b].role # c.role
    BY <1>1, <1>4 DEF AccessInv, Whole, Changing
  <2> HIDE DEF c
  <2>3. \E g \in grants' : Admin(g)
    BY <1>1, <1>4, <2>1 DEF AccessInv, Whole, StillSo, StillSoOf, Admin
  <2>4. ASSUME NEW b \in Admins \ {a}, asks[b] # Nothing
        PROVE  StillSoOf(asks[b], Stored', grants')
    <3>1. asks[b].op = "delete" => {g \in grants' : g[2] = asks[b].role} = {}
      BY <1>1, <2>2, <2>4 DEF StillSo, StillSoOf
    <3>2. ASSUME asks[b].op = "remove", Admin(asks[b].grant)
          PROVE  \E g \in grants' \ {asks[b].grant} : Admin(g)
      <4>1. asks[b].role = TenantAdmin
        BY <2>4, <3>2 DEF AccessInv, AccessTyped, Admin
      <4>2. ~Admin(c.grant)
        BY <1>1, <2>2, <2>4, <4>1 DEF Admin
      <4> QED BY <1>1, <2>2, <2>4, <3>2, <4>2 DEF StillSo, StillSoOf
    <3>3. asks[b].op = "assign" => asks[b].role \in Stored'
      BY <1>2, <2>2, <2>4 DEF StillSo, StillSoOf
    <3> QED BY <3>1, <3>2, <3>3 DEF StillSoOf
  <2>5. \A g \in grants' : g[2] \in Stored'
    BY <1>1, <1>2, <1>4 DEF AccessInv, Whole
  <2> QED BY <2>3, <2>4, <2>5
<1> HIDE DEF c
<1> QED BY <1>1, <1>2, <1>3, <1>4, OverKeeps DEF c, AccessInv, AccessTyped

LEMMA ForgetKeeps ==
  ASSUME AccessInv, NEW a \in Admins, Forget(a)
  PROVE  AccessInv'
<1>1. asks[a] # Nothing /\ Over(a) /\ roles' = roles /\ grants' = grants
  BY DEF Forget, Refused
<1> QED BY <1>1, OverKeeps DEF AccessInv, AccessTyped, KeysOnce, Whole, Stored, StillSo

\* Another administrator remains, which is what counting them shows.
LEMMA AnotherRemains ==
  ASSUME AccessInv, NEW g \in grants, g[2] = TenantAdmin, g[3] = Top,
         Cardinality({h \in Granted(TenantAdmin) : h[3] = g[3]}) > 1
  PROVE  \E h \in grants \ {g} : Admin(h)
<1> DEFINE same == {h \in Granted(TenantAdmin) : h[3] = g[3]}
<1>1. same \subseteq grants /\ g \in same
  BY DEF Granted
<1>2. IsFiniteSet(same)
  BY <1>1, FS_Subset DEF AccessInv, AccessTyped
<1>3. same # {g}
  BY FS_Singleton
<1> QED BY <1>1, <1>3 DEF Granted, Admin

LEMMA CheckedActionsKeep ==
  ASSUME AccessInv, NEW a \in Admins,
         \/ \E role \in RoleIds, key \in RoleKeys \cup {Nothing} : CreateRole(a, role, key)
         \/ \E role \in Stored : DeleteRole(a, role)
         \/ \E user \in Users, role \in Stored, unit \in Units : Assign(a, user, role, unit)
         \/ \E grant \in grants : RemoveAssignment(a, grant)
  PROVE  AccessInv'
<1>1. ASSUME NEW role \in RoleIds, NEW key \in RoleKeys \cup {Nothing}, CreateRole(a, role, key)
      PROVE  AccessInv'
  <2> DEFINE c == [op |-> "role", role |-> role, key |-> key]
  <2>1. c \in Ask /\ c.op \notin {"assign", "remove", "delete"}
    BY DEF Ask
  <2>2. Checked(a, c) BY <1>1 DEF CreateRole
  <2> HIDE DEF c
  <2> QED BY <2>1, <2>2, CheckedKeeps DEF StillSo, StillSoOf
<1>2. ASSUME NEW role \in Stored, DeleteRole(a, role)
      PROVE  AccessInv'
  <2> DEFINE c == [op |-> "delete", role |-> role]
  <2>1. role # TenantAdmin /\ Granted(role) = {} /\ Checked(a, c)
    BY <1>2 DEF DeleteRole, DeleteRoleIf
  <2>2. c \in Ask /\ c.op = "delete" /\ c.role = role
    BY <2>1 DEF Ask, AccessInv, AccessTyped, Role
  <2> HIDE DEF c
  <2> QED BY <2>1, <2>2, CheckedKeeps DEF StillSo, StillSoOf, Granted
<1>3. ASSUME NEW user \in Users, NEW role \in Stored, NEW unit \in Units,
             Assign(a, user, role, unit)
      PROVE  AccessInv'
  <2> DEFINE c == [op |-> "assign", role |-> role, grant |-> <<user, role, unit>>]
  <2>1. c \in Ask /\ c.op = "assign" /\ c.role = role /\ c.grant[2] = role
    BY DEF Ask, Grant, AccessInv, AccessTyped
  <2>2. Checked(a, c) BY <1>3 DEF Assign
  <2> HIDE DEF c
  <2> QED BY <2>1, <2>2, CheckedKeeps DEF StillSo, StillSoOf
<1>4. ASSUME NEW grant \in grants, RemoveAssignment(a, grant)
      PROVE  AccessInv'
  <2> DEFINE c == [op |-> "remove", role |-> grant[2], grant |-> grant]
  <2>1. /\ Checked(a, c)
        /\ grant[2] = TenantAdmin /\ grant[3] = Top =>
             Cardinality({h \in Granted(TenantAdmin) : h[3] = grant[3]}) > 1
    BY <1>4 DEF RemoveAssignment, RemoveIf
  <2>2. c \in Ask /\ c.op = "remove" /\ c.grant = grant /\ c.role = grant[2]
    BY DEF Ask, Grant, AccessInv, AccessTyped
  <2>3. Admin(grant) => \E h \in grants \ {grant} : Admin(h)
    BY <2>1, AnotherRemains DEF Admin
  <2> HIDE DEF c
  <2> QED BY <2>1, <2>2, <2>3, CheckedKeeps DEF StillSo, StillSoOf
<1> QED BY <1>1, <1>2, <1>3, <1>4

LEMMA AccessBegins == AccessInit => AccessInv
<1> SUFFICES ASSUME AccessInit PROVE AccessInv OBVIOUS
<1>1. PICK u \in Users : grants = {<<u, TenantAdmin, Top>>}
  BY DEF AccessInit
<1>2. Stored = {TenantAdmin} /\ roles[TenantAdmin] = Nothing
  BY DEF AccessInit, Stored
<1>3. AccessTyped
  <2>1. IsFiniteSet(grants)
    BY <1>1, FS_Singleton
  <2>2. grants \subseteq Grant
    BY <1>1 DEF Role, Grant, Units
  <2>3. asks \in [Admins -> Ask \cup {Nothing}] /\ \A a \in Admins : asks[a] = Nothing
    BY DEF AccessInit
  <2> QED BY <1>2, <2>1, <2>2, <2>3 DEF AccessInit, AccessTyped, Role
<1> QED BY <1>1, <1>2, <1>3 DEF AccessInit, AccessInv, KeysOnce, Whole, Admin

\* Commands on one role that do not overlap leave an administrator in the root unit and
\* no assignment without its role (access.service.ts); a pack's role exists once.
THEOREM RolesAreWhole == AccessSpec => []RolesStayWhole
<1>1. AccessInv /\ [AccessNext]_accessVars => AccessInv'
  <2> SUFFICES ASSUME AccessInv, [AccessNext]_accessVars PROVE AccessInv' OBVIOUS
  <2>1. CASE AccessNext
    BY <2>1, CheckedActionsKeep, CommitRoleKeeps, CommitDeleteRoleKeeps, CommitAssignKeeps,
       CommitRemoveKeeps, ForgetKeeps DEF AccessNext
  <2>2. CASE UNCHANGED accessVars
    BY <2>2 DEF accessVars, AccessInv, AccessTyped, KeysOnce, Whole, Stored, StillSo, StillSoOf
  <2> QED BY <2>1, <2>2
<1>2. AccessInv => RolesStayWhole
  <2> SUFFICES ASSUME AccessInv PROVE RolesStayWhole OBVIOUS
  <2>1. ASSUME NEW g \in grants, Admin(g) PROVE \E u \in Users : <<u, TenantAdmin, Top>> \in grants
    <3>1. g = <<g[1], g[2], g[3]>> /\ g[1] \in Users
      BY DEF AccessInv, AccessTyped, Grant
    <3> QED BY <2>1, <3>1 DEF Admin
  <2> QED BY <2>1 DEF AccessInv, KeysOnce, Whole, RolesStayWhole
<1> QED BY AccessBegins, <1>1, <1>2, PTL DEF AccessSpec

-----------------------------------------------------------------------------
(* Signup *)

Saga == [pc : {"idle", "provision", "compensate", "done"}, completed : {0, 1, 2, 3}]

SignupTyped ==
    /\ status \in [Tenants -> {"none", "provisioning", "active", "suspended", "failed"}]
    /\ made \in [Tenants -> SUBSET TenantParts]
    /\ saga \in [Tenants -> Saga]

\* The parts that the first n steps make.
First(n) == {SagaSteps[i] : i \in 1..n}

\* The URL belongs to the tenant that is not failed; a saga under way belongs to a tenant
\* in provisioning and has made what it completed, and no more unless it went astray.
SagaIsTidy(t) ==
    /\ slug = t <=> status[t] \in {"provisioning", "active", "suspended"}
    /\ status[t] = "none" => saga[t].pc = "idle" /\ saga[t].completed = 0 /\ made[t] = {}
    /\ saga[t].pc \in {"provision", "compensate"} => status[t] = "provisioning"
    /\ saga[t].pc = "provision" => First(saga[t].completed) \subseteq made[t]
    /\ saga[t].pc \in {"provision", "compensate"} /\ t \notin astray =>
         made[t] = First(saga[t].completed)
    /\ status[t] \in {"active", "suspended"} => made[t] = TenantParts
    /\ status[t] = "failed" /\ t \notin astray => made[t] = {}

SignupInv == SignupTyped /\ \A t \in Tenants : SagaIsTidy(t)

LEMMA StepsAre ==
  /\ SagaSteps[1] = "org" /\ SagaSteps[2] = "identity" /\ SagaSteps[3] = "access" /\ Len(SagaSteps) = 3
  /\ First(0) = {} /\ First(1) = {"org"} /\ First(2) = {"org", "identity"}
  /\ First(3) = {"org", "identity", "access"} /\ TenantParts = First(3)
<1>1. SagaSteps[1] = "org" /\ SagaSteps[2] = "identity" /\ SagaSteps[3] = "access" /\ Len(SagaSteps) = 3
  BY DEF SagaSteps
<1>2. 1..0 = {} /\ 1..1 = {1} /\ 1..2 = {1, 2} /\ 1..3 = {1, 2, 3}
  OBVIOUS
<1>3. First(0) = {} /\ First(1) = {"org"} /\ First(2) = {"org", "identity"}
  BY <1>1, <1>2 DEF First
<1>4. First(3) = {"org", "identity", "access"}
  BY <1>1, <1>2 DEF First
<1>5. TenantParts = First(3)
  BY <1>1 DEF First, TenantParts
<1> QED BY <1>1, <1>3, <1>4, <1>5

\* A step of one sign-up, which gives or takes its own URL only.
LEMMA TenantMoves ==
  ASSUME SignupInv, NEW t \in Tenants, SignupTyped', SagaIsTidy(t)',
         \A u \in Tenants : u # t =>
            /\ status'[u] = status[u] /\ made'[u] = made[u] /\ saga'[u] = saga[u]
            /\ u \in astray' <=> u \in astray
            /\ slug' = u <=> slug = u
  PROVE  SignupInv'
<1>1. \A u \in Tenants : u # t => SagaIsTidy(u)'
  BY DEF SignupInv, SagaIsTidy
<1> QED BY <1>1 DEF SignupInv

LEMMA TenantAt ==
  ASSUME SignupInv, NEW t \in Tenants
  PROVE  SagaIsTidy(t) /\ saga[t] \in Saga /\ made[t] \in SUBSET TenantParts /\ SignupTyped
BY DEF SignupInv, SignupTyped

LEMMA StoreTenantKeeps ==
  ASSUME SignupInv, NEW t \in Tenants, StoreTenant(t) PROVE SignupInv'
<1> DEFINE x == [saga[t] EXCEPT !.pc = "provision"]
<1>1. /\ status[t] = "none" /\ slug = NoTenant /\ slug' = t
      /\ status' = [status EXCEPT ![t] = "provisioning"]
      /\ saga' = [saga EXCEPT ![t] = x] /\ UNCHANGED <<made, astray>>
  BY DEF StoreTenant
<1>2. /\ saga[t].completed = 0 /\ made[t] = {} /\ saga[t] \in Saga
  BY <1>1, TenantAt DEF SagaIsTidy
<1>3. x \in Saga /\ x.pc = "provision" /\ x.completed = 0
  BY <1>2 DEF Saga
<1> HIDE DEF x
<1>4. SignupTyped'
  BY <1>1, <1>3 DEF SignupInv, SignupTyped
<1>5. /\ \A u \in Tenants : saga'[u] = IF u = t THEN x ELSE saga[u]
      /\ \A u \in Tenants : status'[u] = IF u = t THEN "provisioning" ELSE status[u]
  BY <1>1 DEF SignupInv, SignupTyped
<1>6. SagaIsTidy(t)'
  BY <1>1, <1>2, <1>3, <1>5, StepsAre DEF SagaIsTidy
<1> QED BY <1>1, <1>4, <1>5, <1>6, TenantMoves, SignupAssumption

\* A step of a saga under way that changes only what it made and completed.
LEMMA SagaMoves ==
  ASSUME SignupInv, NEW t \in Tenants, NEW x \in Saga, NEW y \in SUBSET TenantParts,
         status[t] = "provisioning", x.pc \in {"provision", "compensate"},
         saga' = [saga EXCEPT ![t] = x], made' = [made EXCEPT ![t] = y],
         UNCHANGED <<status, slug>>, astray' \in {astray, astray \cup {t}},
         x.pc = "provision" => First(x.completed) \subseteq y,
         t \notin astray' => y = First(x.completed)
  PROVE  SignupInv'
<1>1. /\ \A u \in Tenants : saga'[u] = IF u = t THEN x ELSE saga[u]
      /\ \A u \in Tenants : made'[u] = IF u = t THEN y ELSE made[u]
  BY DEF SignupInv, SignupTyped
<1>2. SignupTyped'
  BY DEF SignupInv, SignupTyped
<1>3. SagaIsTidy(t)'
  BY <1>1, TenantAt DEF SagaIsTidy
<1> QED BY <1>1, <1>2, <1>3, TenantMoves

LEMMA SameSet == ASSUME SignupInv, NEW t \in Tenants PROVE made = [made EXCEPT ![t] = made[t]]
BY DEF SignupInv, SignupTyped

LEMMA RunStepKeeps ==
  ASSUME SignupInv, NEW t \in Tenants, RunStep(t) PROVE SignupInv'
<1> DEFINE n == saga[t].completed + 1
           x == [saga[t] EXCEPT !.completed = n]
           c == [saga[t] EXCEPT !.pc = "compensate"]
           y == made[t] \cup {SagaSteps[n]}
<1>1. /\ saga[t].pc = "provision" /\ n <= Len(SagaSteps) /\ UNCHANGED <<status, slug>>
      /\ \/ /\ saga' = [saga EXCEPT ![t] = x] /\ made' = [made EXCEPT ![t] = y]
            /\ astray' = astray
         \/ /\ saga' = [saga EXCEPT ![t] = c] /\ made' = made /\ astray' = astray
         \/ /\ saga' = [saga EXCEPT ![t] = c] /\ made' = [made EXCEPT ![t] = y]
            /\ astray' = astray \cup {t}
  BY DEF RunStep, Fails
<1>2. /\ saga[t] \in Saga /\ made[t] \in SUBSET TenantParts /\ status[t] = "provisioning"
      /\ First(saga[t].completed) \subseteq made[t]
      /\ t \notin astray => made[t] = First(saga[t].completed)
  BY <1>1, TenantAt DEF SagaIsTidy
<1>3. n \in {1, 2, 3}
  BY <1>1, <1>2, StepsAre DEF Saga
<1>4. SagaSteps[n] \in TenantParts /\ First(n) = First(saga[t].completed) \cup {SagaSteps[n]}
  BY <1>2, <1>3, StepsAre DEF Saga
<1>5. /\ x \in Saga /\ x.pc = "provision" /\ x.completed = n
      /\ c \in Saga /\ c.pc = "compensate" /\ c.completed = saga[t].completed
  BY <1>1, <1>2, <1>3 DEF Saga
<1>6. /\ y \in SUBSET TenantParts /\ First(n) \subseteq y
      /\ t \notin astray => y = First(n)
  BY <1>2, <1>4
<1> HIDE DEF x, c, y, n
<1> QED BY ZenonT(20), <1>1, <1>2, <1>5, <1>6, SagaMoves, SameSet

LEMMA ActivateKeeps ==
  ASSUME SignupInv, NEW t \in Tenants, Activate(t) PROVE SignupInv'
<1> DEFINE d == [saga[t] EXCEPT !.pc = "done"]
           c == [saga[t] EXCEPT !.pc = "compensate"]
<1>1. /\ saga[t].pc = "provision" /\ saga[t].completed = Len(SagaSteps)
      /\ UNCHANGED <<slug, made, astray>>
      /\ \/ status' = [status EXCEPT ![t] = "active"] /\ saga' = [saga EXCEPT ![t] = d]
         \/ status' = status /\ saga' = [saga EXCEPT ![t] = c]
  BY DEF Activate, Fails
<1>2. /\ saga[t] \in Saga /\ made[t] \in SUBSET TenantParts /\ status[t] = "provisioning"
      /\ First(saga[t].completed) \subseteq made[t] /\ slug = t
      /\ t \notin astray => made[t] = First(saga[t].completed)
  BY <1>1, TenantAt DEF SagaIsTidy
<1>3. made[t] = TenantParts
  BY <1>1, <1>2, StepsAre
<1>4. /\ d \in Saga /\ d.pc = "done"
      /\ c \in Saga /\ c.pc = "compensate" /\ c.completed = saga[t].completed
  BY <1>2 DEF Saga
<1> HIDE DEF c, d
<1>5. CASE status' = [status EXCEPT ![t] = "active"] /\ saga' = [saga EXCEPT ![t] = d]
  <2>1. /\ \A u \in Tenants : saga'[u] = IF u = t THEN d ELSE saga[u]
        /\ \A u \in Tenants : status'[u] = IF u = t THEN "active" ELSE status[u]
    BY <1>5 DEF SignupInv, SignupTyped
  <2>2. SignupTyped'
    BY <1>1, <1>4, <1>5 DEF SignupInv, SignupTyped
  <2>3. SagaIsTidy(t)'
    BY <1>1, <1>2, <1>3, <1>4, <2>1 DEF SagaIsTidy
  <2> QED BY <1>1, <2>1, <2>2, <2>3, TenantMoves
<1>6. CASE status' = status /\ saga' = [saga EXCEPT ![t] = c]
  BY <1>1, <1>2, <1>4, <1>6, SagaMoves, SameSet
<1> QED BY <1>1, <1>5, <1>6

LEMMA UndoKeeps ==
  ASSUME SignupInv, NEW t \in Tenants, Undo(t) PROVE SignupInv'
<1> DEFINE n == saga[t].completed
           x == [saga[t] EXCEPT !.completed = n - 1]
           y == made[t] \ {SagaSteps[n]}
<1>1. /\ saga[t].pc = "compensate" /\ n > 0 /\ UNCHANGED <<status, slug>>
      /\ saga' = [saga EXCEPT ![t] = x]
      /\ \/ made' = [made EXCEPT ![t] = y] /\ astray' = astray
         \/ made' = made /\ astray' = astray \cup {t}
  BY DEF Undo
<1>2. /\ saga[t] \in Saga /\ made[t] \in SUBSET TenantParts /\ status[t] = "provisioning"
      /\ t \notin astray => made[t] = First(n)
  BY <1>1, TenantAt DEF SagaIsTidy
<1>3. n \in {1, 2, 3}
  BY <1>1, <1>2 DEF Saga
<1>4. First(n - 1) = First(n) \ {SagaSteps[n]}
  BY <1>3, StepsAre
<1>5. x \in Saga /\ x.pc = "compensate" /\ x.completed = n - 1
  BY <1>1, <1>2, <1>3 DEF Saga
<1>6. y \in SUBSET TenantParts /\ (t \notin astray => y = First(n - 1))
  BY <1>2, <1>4
<1> HIDE DEF x, y, n
<1> QED BY <1>1, <1>2, <1>5, <1>6, SagaMoves, SameSet

LEMMA MarkFailedKeeps ==
  ASSUME SignupInv, NEW t \in Tenants, MarkFailed(t) PROVE SignupInv'
<1> DEFINE d == [saga[t] EXCEPT !.pc = "done"]
<1>1. /\ saga[t].pc = "compensate" /\ saga[t].completed = 0 /\ slug' = NoTenant
      /\ status' = [status EXCEPT ![t] = "failed"] /\ saga' = [saga EXCEPT ![t] = d]
      /\ UNCHANGED <<made, astray>>
  BY DEF MarkFailed
<1>2. /\ saga[t] \in Saga /\ status[t] = "provisioning" /\ slug = t
      /\ t \notin astray => made[t] = {}
  BY <1>1, TenantAt, StepsAre DEF SagaIsTidy
<1>3. d \in Saga /\ d.pc = "done"
  BY <1>2 DEF Saga
<1> HIDE DEF d
<1>4. /\ \A u \in Tenants : saga'[u] = IF u = t THEN d ELSE saga[u]
      /\ \A u \in Tenants : status'[u] = IF u = t THEN "failed" ELSE status[u]
  BY <1>1 DEF SignupInv, SignupTyped
<1>5. SignupTyped'
  BY <1>1, <1>3 DEF SignupInv, SignupTyped
<1>6. SagaIsTidy(t)'
  BY <1>1, <1>2, <1>3, <1>4, SignupAssumption DEF SagaIsTidy
<1> QED BY <1>1, <1>2, <1>4, <1>5, <1>6, TenantMoves, SignupAssumption

LEMMA SagaCrashKeeps ==
  ASSUME SignupInv, NEW t \in Tenants, SagaCrash(t) PROVE SignupInv'
<1> DEFINE d == [saga[t] EXCEPT !.pc = "done"]
<1>1. /\ saga[t].pc \in {"provision", "compensate"} /\ saga' = [saga EXCEPT ![t] = d]
      /\ astray' = astray \cup {t} /\ UNCHANGED <<status, slug, made>>
  BY DEF SagaCrash
<1>2. saga[t] \in Saga /\ SagaIsTidy(t) /\ status[t] = "provisioning"
  BY <1>1, TenantAt DEF SagaIsTidy
<1>3. d \in Saga /\ d.pc = "done"
  BY <1>2 DEF Saga
<1> HIDE DEF d
<1>4. \A u \in Tenants : saga'[u] = IF u = t THEN d ELSE saga[u]
  BY <1>1 DEF SignupInv, SignupTyped
<1>5. SignupTyped'
  BY <1>1, <1>3 DEF SignupInv, SignupTyped
<1>6. SagaIsTidy(t)'
  BY <1>1, <1>2, <1>3, <1>4 DEF SagaIsTidy
<1> QED BY <1>1, <1>4, <1>5, <1>6, TenantMoves

LEMMA SetTenantStatusKeeps ==
  ASSUME SignupInv, NEW t \in Tenants, NEW to \in {"active", "suspended"},
         SetTenantStatus(t, to)
  PROVE  SignupInv'
<1>1. /\ status[t] \in {"active", "suspended"} /\ status' = [status EXCEPT ![t] = to]
      /\ UNCHANGED <<slug, made, saga, astray>>
  BY DEF SetTenantStatus, SetTenantStatusIf
<1>2. SagaIsTidy(t) /\ saga[t] \in Saga
  BY TenantAt
<1>3. \A u \in Tenants : status'[u] = IF u = t THEN to ELSE status[u]
  BY <1>1 DEF SignupInv, SignupTyped
<1>4. SignupTyped'
  BY <1>1 DEF SignupInv, SignupTyped
<1>5. SagaIsTidy(t)'
  BY <1>1, <1>2, <1>3 DEF SagaIsTidy
<1> QED BY <1>1, <1>3, <1>4, <1>5, TenantMoves

\* A company that can be used is set up in every service and holds its URL; a failed one
\* holds it no more and left nothing unless an answer or an undo was lost
\* (tenants.service.ts).
THEOREM SignupIsWhole == SignupSpec => []SignupAllOrNothing
<1>1. SignupInit => SignupInv
  <2> SUFFICES ASSUME SignupInit PROVE SignupInv OBVIOUS
  <2>1. [pc |-> "idle", completed |-> 0] \in Saga
    BY DEF Saga
  <2>2. SignupTyped
    BY <2>1 DEF SignupInit, SignupTyped
  <2>3. \A t \in Tenants : /\ status[t] = "none" /\ made[t] = {} /\ slug # t
                           /\ saga[t].pc = "idle" /\ saga[t].completed = 0
    BY SignupAssumption DEF SignupInit
  <2>4. \A t \in Tenants : SagaIsTidy(t)
    BY <2>3 DEF SagaIsTidy
  <2> QED BY <2>2, <2>4 DEF SignupInv
<1>2. SignupInv /\ [SignupNext]_signupVars => SignupInv'
  <2> SUFFICES ASSUME SignupInv, [SignupNext]_signupVars PROVE SignupInv'
    OBVIOUS
  <2>1. CASE UNCHANGED signupVars
    BY <2>1 DEF signupVars, SignupInv, SignupTyped, SagaIsTidy
  <2> QED BY <2>1, StoreTenantKeeps, RunStepKeeps, ActivateKeeps, UndoKeeps, MarkFailedKeeps,
             SagaCrashKeeps, SetTenantStatusKeeps DEF SignupNext
<1>3. SignupInv => SignupAllOrNothing
  BY DEF SignupInv, SagaIsTidy, SignupAllOrNothing
<1> QED BY <1>1, <1>2, <1>3, PTL DEF SignupSpec

-----------------------------------------------------------------------------
(* PackSamples *)

Doing == {"none", "add", "cleanup", "remove", "unnote"}

SamplesTyped ==
    /\ NumSamples \in Nat
    /\ {noted, tangled, halted} \subseteq BOOLEAN
    /\ present \subseteq Samples /\ deleted \subseteq Samples
    /\ creating \subseteq Samples /\ taking \subseteq Samples
    /\ hands \in [Hands -> [op : Doing, done : Nat]]
    /\ \A h \in Hands : hands[h].op = "none" => hands[h] = NoHand

\* One request at a time: an addition finds no note and has its records made in order, a
\* removal that purged left none, and what is there without a note came with a crash or by
\* a call that was given up; no removal that was given up goes on.
InTurn ==
    /\ \A g, h \in Hands : hands[g].op # "none" /\ hands[h].op # "none" => g = h
    /\ \A h \in Hands :
        /\ hands[h].op \in {"add", "cleanup"} => ~noted
        /\ hands[h].op = "add" => 1..hands[h].done \subseteq present \cup deleted
        /\ hands[h].op = "unnote" => present \subseteq stray
    /\ noted /\ (\A h \in Hands : hands[h].op # "unnote") => present \cup deleted = Samples
    /\ ~noted /\ ~halted /\ (\A h \in Hands : hands[h].op = "none") => present \subseteq stray
    /\ taking = {}

SamplesInv == SamplesTyped /\ (~tangled => InTurn)

\* What holds of a request before and after a step.
LEMMA HandsMove ==
  ASSUME SamplesTyped, NEW h \in Hands, NEW x, hands' = [hands EXCEPT ![h] = x]
  PROVE  \A g \in Hands : hands'[g] = IF g = h THEN x ELSE hands[g]
BY DEF SamplesTyped

LEMMA NoHandHas == NoHand.op = "none" /\ NoHand.done = 0 /\ NoHand \in [op : Doing, done : Nat]
BY DEF NoHand, Doing

LEMMA SamplesBegin == NumSamples \in Nat /\ SamplesInit => SamplesInv
<1> SUFFICES ASSUME NumSamples \in Nat, SamplesInit PROVE SamplesInv OBVIOUS
<1>1. /\ hands \in [Hands -> [op : Doing, done : Nat]]
      /\ \A h \in Hands : hands[h] = NoHand /\ hands[h].op = "none"
  BY NoHandHas DEF SamplesInit
<1> QED BY <1>1 DEF SamplesInit, SamplesInv, SamplesTyped, InTurn

LEMMA StartKeeps ==
  ASSUME SamplesInv, NEW h \in Hands, NEW op \in {"add", "remove"}, op = "add" => ~noted,
         Start(h, op)
  PROVE  SamplesInv'
<1>1. /\ hands[h] = NoHand /\ hands' = [hands EXCEPT ![h].op = op]
      /\ tangled' = (tangled \/ \E g \in Hands : hands[g] # NoHand)
      /\ UNCHANGED <<present, noted, deleted, creating, taking, stray, halted>>
  BY DEF Start, lateVars
<1> DEFINE x == [hands[h] EXCEPT !.op = op]
<1>2. hands' = [hands EXCEPT ![h] = x] /\ x \in [op : Doing, done : Nat]
  BY <1>1 DEF SamplesInv, SamplesTyped, Doing
<1>3. x.op = op /\ x.done = 0
  BY <1>1, NoHandHas
<1> HIDE DEF x
<1>4. \A g \in Hands : hands'[g] = IF g = h THEN x ELSE hands[g]
  BY <1>2, HandsMove DEF SamplesInv
<1>5. tangled' \in BOOLEAN /\ (~tangled' => ~tangled /\ \A g \in Hands : hands[g].op = "none")
  BY <1>1, NoHandHas DEF SamplesInv, SamplesTyped
<1>6. SamplesTyped'
  BY <1>1, <1>2, <1>3, <1>4, <1>5 DEF SamplesInv, SamplesTyped
<1>7. ASSUME ~tangled' PROVE InTurn'
  <2>1. InTurn
    BY <1>5, <1>7 DEF SamplesInv
  <2>2. \A g \in Hands : hands'[g].op # "none" => g = h
    BY <1>4, <1>5, <1>7
  <2>3. hands'[h].op = op /\ hands'[h].done = 0
    BY <1>3, <1>4
  <2> QED BY <1>1, <1>4, <1>5, <1>7, <2>1, <2>2, <2>3 DEF InTurn
<1> QED BY <1>6, <1>7 DEF SamplesInv

LEMMA CreateSampleKeeps ==
  ASSUME SamplesInv, NEW h \in Hands, CreateSample(h)
  PROVE  SamplesInv'
<1> DEFINE n == hands[h].done + 1
           created == present \cup ({n} \ deleted)
           x == [hands[h] EXCEPT !.done = n]
           c == [hands[h] EXCEPT !.op = "cleanup"]
<1>1. /\ hands[h].op = "add" /\ n \in Samples
      /\ \/ present' = created /\ hands' = [hands EXCEPT ![h] = x]
         \/ present' \in {present, created} /\ hands' = [hands EXCEPT ![h] = c]
      /\ creating' \in {creating, creating \cup {n}}
      /\ UNCHANGED <<noted, deleted, taking, stray, tangled, halted>>
  BY DEF CreateSample
<1>2. hands[h] \in [op : Doing, done : Nat]
  BY DEF SamplesInv, SamplesTyped
<1>3. /\ x \in [op : Doing, done : Nat] /\ x.op = "add" /\ x.done = n
      /\ c \in [op : Doing, done : Nat] /\ c.op = "cleanup"
      /\ n \in Nat /\ hands[h].done \in Nat /\ 1..n = 1..hands[h].done \cup {n}
  BY <1>1, <1>2 DEF Doing
<1>4. present' \subseteq Samples /\ creating' \subseteq Samples /\ present \subseteq present' /\ created = present \cup ({n} \ deleted)
  BY <1>1 DEF SamplesInv, SamplesTyped
<1> HIDE DEF x, c, n, created
<1>5. PICK y \in {x, c} : hands' = [hands EXCEPT ![h] = y] /\ (y.op = "add" => y = x /\ present' = created)
  BY <1>1, <1>3
<1>6. \A g \in Hands : hands'[g] = IF g = h THEN y ELSE hands[g]
  BY <1>5, HandsMove DEF SamplesInv
<1>7. SamplesTyped'
  BY <1>1, <1>3, <1>4, <1>5, <1>6 DEF SamplesInv, SamplesTyped
<1>8. ASSUME ~tangled' PROVE InTurn'
  <2>1. InTurn
    BY <1>1, <1>8 DEF SamplesInv
  <2>2. \A g \in Hands : hands'[g].op # "none" => g = h
    BY <1>1, <1>6, <2>1 DEF InTurn
  <2>3. hands'[h] = y /\ y.op \in {"add", "cleanup"} /\ ~noted /\ ~noted'
    BY <1>1, <1>3, <1>5, <1>6, <2>1 DEF InTurn
  <2>4. y.op = "add" => 1..y.done \subseteq present' \cup deleted'
    BY <1>1, <1>3, <1>4, <1>5, <2>1 DEF InTurn
  <2>5. taking' = {}
    BY <1>1, <2>1 DEF InTurn
  <2> QED BY <2>2, <2>3, <2>4, <2>5 DEF InTurn
<1> QED BY <1>7, <1>8 DEF SamplesInv

\* A request that ends.
LEMMA EndsKeeps ==
  ASSUME SamplesInv, NEW h \in Hands, Ends(h), hands[h].op # "none",
         noted' \in BOOLEAN, tangled' \in BOOLEAN, halted' \in BOOLEAN,
         present' \subseteq Samples, deleted' = deleted, tangled => tangled',
         creating' \subseteq Samples, taking' \subseteq Samples,
         ~tangled' => /\ noted' => present' \cup deleted = Samples
                      /\ ~noted' /\ ~halted' => present' \subseteq stray'
                      /\ taking' = {}
  PROVE  SamplesInv'
<1>1. hands' = [hands EXCEPT ![h] = NoHand]
  BY DEF Ends
<1>2. \A g \in Hands : hands'[g] = IF g = h THEN NoHand ELSE hands[g]
  BY <1>1, HandsMove DEF SamplesInv
<1>3. SamplesTyped'
  BY <1>1, <1>2, NoHandHas DEF SamplesInv, SamplesTyped
<1>4. ASSUME ~tangled' PROVE InTurn'
  <2>1. \A g \in Hands : hands'[g].op = "none"
    BY <1>2, <1>4, NoHandHas DEF SamplesInv, InTurn
  <2> QED BY <1>4, <2>1 DEF InTurn
<1> QED BY <1>3, <1>4 DEF SamplesInv

LEMMA NoteSamplesKeeps ==
  ASSUME SamplesInv, NEW h \in Hands, NoteSamples(h)
  PROVE  SamplesInv'
<1>1. /\ hands[h].op = "add" /\ hands[h].done = NumSamples /\ noted' = TRUE
      /\ UNCHANGED <<present, deleted, creating, taking, stray, tangled, halted>>
  BY DEF NoteSamples, lateVars
<1>2. ~tangled => present \cup deleted = Samples /\ taking = {}
  BY <1>1 DEF SamplesInv, SamplesTyped, InTurn, Samples
<1>3. /\ Ends(h) /\ tangled \in BOOLEAN /\ halted \in BOOLEAN /\ present \subseteq Samples
      /\ creating \subseteq Samples /\ taking \subseteq Samples
  BY DEF NoteSamples, SamplesInv, SamplesTyped
<1> QED BY <1>1, <1>2, <1>3, EndsKeeps

LEMMA PurgeSamplesKeeps ==
  ASSUME SamplesInv, NEW h \in Hands, PurgeSamples(h)
  PROVE  SamplesInv'
<1>1. /\ hands[h].op \in {"cleanup", "remove"} /\ UNCHANGED <<noted, deleted, creating, halted>>
      /\ present' \subseteq present /\ present \subseteq Samples /\ creating \subseteq Samples
      /\ taking' \subseteq Samples
      /\ noted \in BOOLEAN /\ halted \in BOOLEAN /\ tangled \in BOOLEAN
  BY DEF PurgeSamples, PurgeBefore, SamplesInv, SamplesTyped
<1>2. CASE Ends(h) /\ tangled' = TRUE
  BY <1>1, <1>2, EndsKeeps
<1>3. CASE /\ Ends(h) /\ tangled' = tangled /\ present' = {} /\ hands[h].op = "cleanup"
           /\ taking' = taking \ present
  <2>1. ~tangled => ~noted /\ taking' = {}
    BY <1>3 DEF SamplesInv, InTurn
  <2> QED BY <1>1, <1>3, <2>1, EndsKeeps
<1>4. CASE /\ hands' = [hands EXCEPT ![h].op = "unnote"]
           /\ tangled' = tangled /\ present' = {} /\ hands[h].op = "remove"
           /\ taking' = taking \ present
  <2> DEFINE x == [hands[h] EXCEPT !.op = "unnote"]
  <2>1. hands[h] \in [op : Doing, done : Nat] /\ hands' = [hands EXCEPT ![h] = x]
    BY <1>4 DEF SamplesInv, SamplesTyped
  <2>2. x \in [op : Doing, done : Nat] /\ x.op = "unnote"
    BY <2>1 DEF Doing
  <2> HIDE DEF x
  <2>3. \A g \in Hands : hands'[g] = IF g = h THEN x ELSE hands[g]
    BY <2>1, HandsMove DEF SamplesInv
  <2>4. SamplesTyped'
    BY <1>1, <1>4, <2>1, <2>2, <2>3 DEF SamplesInv, SamplesTyped
  <2>5. ASSUME ~tangled' PROVE InTurn'
    <3>1. InTurn
      BY <1>4, <2>5 DEF SamplesInv
    <3>2. \A g \in Hands : hands'[g].op # "none" => g = h
      BY <1>4, <2>3, <3>1 DEF InTurn
    <3>3. hands'[h].op = "unnote"
      BY <2>2, <2>3
    <3>4. taking' = {}
      BY <1>4, <3>1 DEF InTurn
    <3> QED BY <1>4, <3>2, <3>3, <3>4 DEF InTurn
  <2> QED BY <2>4, <2>5 DEF SamplesInv
<1> QED BY <1>1, <1>2, <1>3, <1>4 DEF PurgeSamples, PurgeBefore

LEMMA UnnoteKeeps ==
  ASSUME SamplesInv, NEW h \in Hands, Unnote(h)
  PROVE  SamplesInv'
<1>1. /\ hands[h].op = "unnote" /\ noted' = FALSE /\ Ends(h)
      /\ UNCHANGED <<present, deleted, creating, taking, stray, tangled, halted>>
      /\ present \subseteq Samples /\ creating \subseteq Samples /\ taking \subseteq Samples
      /\ tangled \in BOOLEAN /\ halted \in BOOLEAN
  BY DEF Unnote, SamplesInv, SamplesTyped, lateVars
<1>2. ~tangled => present \subseteq stray /\ taking = {}
  BY <1>1 DEF SamplesInv, InTurn
<1> QED BY <1>1, <1>2, EndsKeeps

LEMMA HandCrashKeeps ==
  ASSUME SamplesInv, NEW h \in Hands, HandCrash(h)
  PROVE  SamplesInv'
<1>1. /\ hands[h].op # "none" /\ Ends(h) /\ halted' = TRUE
      /\ tangled' = (tangled \/ hands[h].op = "unnote")
      /\ UNCHANGED <<present, noted, deleted, taking, stray>>
      /\ present \subseteq Samples /\ creating' \subseteq Samples /\ taking \subseteq Samples
      /\ tangled \in BOOLEAN /\ noted \in BOOLEAN
  BY DEF HandCrash, SamplesInv, SamplesTyped
<1>2. ~tangled' => taking = {} /\ (noted => present \cup deleted = Samples)
  BY <1>1 DEF SamplesInv, InTurn
<1> QED BY <1>1, <1>2, EndsKeeps

LEMMA UserDeletesKeeps ==
  ASSUME SamplesInv, NEW n \in Samples, UserDeletes(n)
  PROVE  SamplesInv'
<1>1. /\ present' \cup deleted' = present \cup deleted /\ present' \subseteq present
      /\ deleted' \subseteq Samples
      /\ UNCHANGED <<noted, hands, creating, taking, stray, tangled, halted>>
  BY DEF UserDeletes, SamplesInv, SamplesTyped, lateVars
<1> QED BY <1>1 DEF SamplesInv, SamplesTyped, InTurn

\* What a late create adds is known as such.
LEMMA CreateLateKeeps ==
  ASSUME SamplesInv, NEW n \in Samples, CreateLate(n)
  PROVE  SamplesInv'
<1>1. PICK new \in SUBSET {n} : present' = present \cup new /\ stray' = stray \cup new
  BY DEF CreateLate
<1>2. /\ creating' \subseteq creating
      /\ UNCHANGED <<noted, hands, deleted, taking, tangled, halted>>
  BY DEF CreateLate
<1>3. SamplesTyped'
  BY <1>1, <1>2 DEF SamplesInv, SamplesTyped
<1>4. ASSUME ~tangled' PROVE InTurn'
  <2>1. InTurn
    BY <1>2, <1>4 DEF SamplesInv
  <2>2. present' \cup deleted' = Samples \/ present \cup deleted # Samples
    BY <1>1, <1>2, <1>3 DEF SamplesTyped
  <2> QED BY <1>1, <1>2, <2>1, <2>2 DEF InTurn
<1> QED BY <1>3, <1>4 DEF SamplesInv

\* No removal goes on by itself before requests were tangled.
LEMMA TakeLateKeeps ==
  ASSUME SamplesInv, NEW n \in Samples, TakeLate(n)
  PROVE  SamplesInv'
<1>1. /\ n \in taking
      /\ present' \subseteq present /\ deleted' \subseteq deleted /\ taking' \subseteq taking
      /\ UNCHANGED <<noted, hands, creating, stray, tangled, halted>>
  BY DEF TakeLate
<1>2. tangled
  BY <1>1 DEF SamplesInv, InTurn
<1> QED BY <1>1, <1>2 DEF SamplesInv, SamplesTyped

\* When requests for the samples of a pack do not overlap and no removal stops part way, noted
\* samples are all there or were deleted by a user, and without a note and a crash none is
\* left but those created by a call that was given up (packs.service.ts).
THEOREM SamplesAreWhole ==
  ASSUME NumSamples \in Nat
  PROVE  SamplesSpec => []SamplesAllOrNothing
<1>1. SamplesInit => SamplesInv
  BY SamplesBegin
<1>2. SamplesInv /\ [SamplesNext]_sampleVars => SamplesInv'
  <2> SUFFICES ASSUME SamplesInv, [SamplesNext]_sampleVars PROVE SamplesInv'
    OBVIOUS
  <2>1. CASE UNCHANGED sampleVars
    BY <2>1 DEF sampleVars, lateVars, SamplesInv, SamplesTyped, InTurn
  <2>2. ASSUME NEW h \in Hands, AddSamples(h) \/ RemoveSamples(h)
        PROVE  SamplesInv'
    BY <2>2, StartKeeps DEF AddSamples, RemoveSamples
  <2>3. ASSUME NEW h \in Hands,
               CreateSample(h) \/ NoteSamples(h) \/ PurgeSamples(h) \/ Unnote(h) \/ HandCrash(h)
        PROVE  SamplesInv'
    BY <2>3, CreateSampleKeeps, NoteSamplesKeeps, PurgeSamplesKeeps, UnnoteKeeps,
       HandCrashKeeps
  <2> QED BY <2>1, <2>2, <2>3, UserDeletesKeeps, CreateLateKeeps, TakeLateKeeps DEF SamplesNext
<1>3. SamplesInv => SamplesAllOrNothing
  <2> SUFFICES ASSUME SamplesInv, ~tangled
               PROVE  /\ noted /\ (\A h \in Hands : hands[h].op \in {"none", "add"}) =>
                           present \cup deleted = Samples
                      /\ ~noted /\ ~halted /\ (\A h \in Hands : hands[h] = NoHand) => present \subseteq stray
    BY DEF SamplesAllOrNothing
  <2> QED BY NoHandHas DEF SamplesInv, InTurn
<1> QED BY <1>1, <1>2, <1>3, PTL DEF SamplesSpec

-----------------------------------------------------------------------------
(* Services *)

\* Credentials work once, in the sessions and in the one-time codes beside them.
THEOREM CredentialsAreUsedOnce ==
  ASSUME SessionConstants
  PROVE  AuthSpec /\ CodesSpec => []CredentialsWorkOnce
BY TokensAreAChain, CodesWorkOnce, PTL DEF CredentialsWorkOnce

\* A sign-up and the samples of a pack are made as a whole or not at all, but for lost answers
\* and undos of the one, and for requests that overlap, crashes and calls that were given up
\* of the other (tenants.service.ts, packs.service.ts).
THEOREM SetUpsAreWhole ==
  ASSUME NumSamples \in Nat
  PROVE  SignupSpec /\ SamplesSpec => []AllOrNothing
BY SignupIsWhole, SamplesAreWhole, PTL DEF AllOrNothing
=============================================================================
