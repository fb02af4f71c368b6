--------------------------- MODULE Notifications ---------------------------
(***************************************************************************)
(* notification-service delivers one notify.user.requested event           *)
(* (user-notify.ts) to its users on the channels they allow.  The bus      *)
(* delivers the event again until a handler returns, also while an earlier *)
(* one still runs.  What went out of the house is remembered in `sent`,    *)
(* after it went; the inbox has a unique key instead.                      *)
(***************************************************************************)
EXTENDS Naturals, FiniteSets

CONSTANTS
    Notifiers,     \* handlers in flight at one time, over all replicas
    Recipients,    \* active users of the request
    Channels,      \* its channels besides "inapp": email, whatsapp, push
    MaxRuns        \* bound: deliveries by the bus

VARIABLES
    inbox,         \* recipients with the inbox item of this request
    sent,          \* the `sent` markers: <<recipient, channel>>
    outside,       \* history: <<recipient, channel>> -> messages handed to a provider
    running,       \* what each handler wants, has left and has met
    runs,          \* deliveries by the bus
    returned,      \* history: what the handlers that returned wanted
    unmarked       \* history: pairs sent by two at once, or sent and not marked

notifyVars == <<inbox, sent, outside, running, runs, returned, unmarked>>

Outside == Recipients \X Channels
Pairs == Outside \cup Recipients \X {"inapp"}
Off == [pc |-> "off"]

NotifyInit ==
    /\ inbox = {} /\ sent = {} /\ unmarked = {}
    /\ outside = [p \in Outside |-> 0]
    /\ running = [h \in Notifiers |-> Off]
    /\ runs = 0
    /\ returned = {}

Turn(h, p) == running[h].pc = "each" /\ p \in running[h].rest
Is(h, pc, p) == running[h].pc = pc /\ running[h].pair = {p}
Goes(h, state) == running' = [running EXCEPT ![h] = state]
Done(h, p) == [running[h] EXCEPT !.pc = "each", !.pair = {}, !.rest = @ \ {p}]

-----------------------------------------------------------------------------
\* The bus delivers the event; the preferences of the moment allow these pairs.
DeliverRequest(h, wanted) ==
    /\ running[h] = Off
    /\ runs < MaxRuns
    /\ runs' = runs + 1
    /\ Goes(h, [pc |-> "each", wanted |-> wanted, rest |-> wanted, pair |-> {},
                failed |-> FALSE])
    /\ UNCHANGED <<inbox, sent, outside, returned, unmarked>>

\* A second inbox item with the same key changes nothing.
PutInInbox(h, p) ==
    /\ Turn(h, p) /\ p[2] = "inapp"
    /\ inbox' = inbox \cup {p[1]}
    /\ Goes(h, Done(h, p))
    /\ UNCHANGED <<sent, outside, runs, returned, unmarked>>

SkipSent(h, p) ==
    /\ Turn(h, p) /\ p \in sent
    /\ Goes(h, Done(h, p))
    /\ UNCHANGED <<inbox, sent, outside, runs, returned, unmarked>>

\* The insert fails, with the item stored or not, or the question for the marker does.
TurnFails(h, p) ==
    /\ Turn(h, p)
    /\ inbox' = inbox \/ (p[2] = "inapp" /\ inbox' = inbox \cup {p[1]})
    /\ Goes(h, [Done(h, p) EXCEPT !.failed = TRUE])
    /\ UNCHANGED <<sent, outside, runs, returned, unmarked>>

StartSend(h, p, known) ==
    /\ Turn(h, p) /\ p \in Outside \ known
    /\ Goes(h, [running[h] EXCEPT !.pc = "send", !.pair = {p}])
    /\ unmarked' = IF \E g \in Notifiers : Is(g, "send", p) \/ Is(g, "mark", p)
                   THEN unmarked \cup {p} ELSE unmarked
    /\ UNCHANGED <<inbox, sent, outside, runs, returned>>

\* Mutant: the markers are not asked.
BeginSendAnyway(h, p) == StartSend(h, p, {})

\* No marker: the message goes to the provider now.
BeginSend(h, p) == StartSend(h, p, sent)

\* The provider takes it, or fails, or takes it and the answer is lost (or only some of
\* the user's devices got it).  WhatsApp is skipped without a number, an approved template
\* or a set-up; a push without a device sends nothing and is marked all the same.
Send(h, p) ==
    /\ Is(h, "send", p)
    /\ \/ /\ outside' = [outside EXCEPT ![p] = IF @ = 2 THEN 2 ELSE @ + 1]
          /\ \/ Goes(h, [running[h] EXCEPT !.pc = "mark"]) /\ UNCHANGED unmarked
             \/ /\ Goes(h, [Done(h, p) EXCEPT !.failed = TRUE])
                /\ unmarked' = unmarked \cup {p}
       \/ /\ \/ Goes(h, [Done(h, p) EXCEPT !.failed = TRUE])
             \/ p[2] = "whatsapp" /\ Goes(h, [Done(h, p) EXCEPT !.wanted = @ \ {p}])
             \/ p[2] = "push" /\ Goes(h, [running[h] EXCEPT !.pc = "mark"])
          /\ UNCHANGED <<outside, unmarked>>
    /\ UNCHANGED <<inbox, sent, runs, returned>>

Mark(h, p) ==
    /\ Is(h, "mark", p)
    /\ \/ sent' = sent \cup {p} /\ Goes(h, Done(h, p)) /\ UNCHANGED unmarked
       \/ /\ Goes(h, [Done(h, p) EXCEPT !.failed = TRUE])
          /\ unmarked' = unmarked \cup {p}
          /\ UNCHANGED sent
    /\ UNCHANGED <<inbox, outside, runs, returned>>

FinishRequestIf(h, fine) ==
    /\ running[h].pc = "each" /\ running[h].rest = {}
    /\ returned' = IF fine THEN returned \cup running[h].wanted ELSE returned
    /\ Goes(h, Off)
    /\ UNCHANGED <<inbox, sent, outside, runs, unmarked>>

\* Mutant: the event counts as handled although a channel failed.
FinishRequestAnyway(h) == FinishRequestIf(h, TRUE)

\* Every pair had its turn; if one failed the handler throws and the bus tries again.
FinishRequest(h) == FinishRequestIf(h, ~running[h].failed)

HandlerCrash(h) ==
    /\ running[h] # Off
    /\ unmarked' = IF running[h].pc = "mark" THEN unmarked \cup running[h].pair ELSE unmarked
    /\ Goes(h, Off)
    /\ UNCHANGED <<inbox, sent, outside, runs, returned>>

NotifyNext ==
    \E h \in Notifiers :
        \/ \E wanted \in SUBSET Pairs : DeliverRequest(h, wanted)
        \/ FinishRequest(h) \/ HandlerCrash(h)
        \/ \E p \in Pairs :
            \/ PutInInbox(h, p) \/ SkipSent(h, p) \/ TurnFails(h, p)
            \/ BeginSend(h, p) \/ Send(h, p) \/ Mark(h, p)

NotifySpec == NotifyInit /\ [][NotifyNext]_notifyVars

-----------------------------------------------------------------------------
NotifyTypeOK ==
    /\ inbox \subseteq Recipients
    /\ sent \subseteq Outside
    /\ \A h \in Notifiers : running[h].pc \in {"off", "each", "send", "mark"}
    /\ runs \in 0..MaxRuns

\* "Each (request, user, channel) is delivered once; if one channel fails the request is
\* retried and only what is missing is sent again": what a handler that returned wanted
\* was delivered, and what was delivered twice was sent by two handlers at once or by
\* one that lost the answer or could not write the marker.
DeliveredOnce ==
    /\ \A p \in returned : p \in sent \/ (p[2] = "inapp" /\ p[1] \in inbox)
    /\ \A p \in Outside \ unmarked : outside[p] <= 1 /\ (p \in sent /\ p[2] # "push" => outside[p] = 1)
=============================================================================
