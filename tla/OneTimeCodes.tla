---------------------------- MODULE OneTimeCodes ----------------------------
(***************************************************************************)
(* One-time codes of one rate key and purpose (otp.service.ts).  Issuing   *)
(* first looks at the recent codes and then, in one transaction, retires   *)
(* the unused ones and stores the new one.  Using a code counts the try    *)
(* under a guard, compares, and marks the code used under another guard.   *)
(* Codes are numbered in the order they are issued.                        *)
(***************************************************************************)
EXTENDS Naturals, FiniteSets

CONSTANTS
    Guests,       \* requests in flight at one time
    MaxCodes,     \* bound: codes issued
    OtpPerHour,   \* 5 in the code
    MaxTries      \* OTP_MAX_ATTEMPTS: 5 in the code

ASSUME CodesAssumption ==
    /\ IsFiniteSet(Guests)
    /\ MaxCodes \in Nat /\ OtpPerHour \in Nat \ {0} /\ MaxTries \in Nat

VARIABLES
    codes,        \* the challenges: number -> state
    tried,        \* history: comparisons made with each code
    accepted,     \* history: how often each code was accepted
    guests        \* what each request in flight has read

codeVars == <<codes, tried, accepted, guests>>

NoGuest == [op |-> "none"]
Numbers == 1..MaxCodes

CodesInit ==
    /\ codes = <<>>
    /\ tried = [n \in Numbers |-> 0]
    /\ accepted = [n \in Numbers |-> 0]
    /\ guests = [g \in Guests |-> NoGuest]

Issued == DOMAIN codes
\* Ages of a code: issued, a minute ago, no longer valid, an hour ago.
Minute == 1
Expiry == 2
Hour == 3
Usable(n) == ~codes[n].used /\ codes[n].age < Expiry
Answered(g) == guests' = [guests EXCEPT ![g] = NoGuest]

\* checkRate: a minute between codes while the last one is unused, and so many an hour.
MayIssue ==
    LET last == Cardinality(Issued) IN
    /\ last > 0 => codes[last].used \/ codes[last].age >= Minute
    /\ Cardinality({n \in Issued : codes[n].age < Hour}) < OtpPerHour

AskCode(g) ==
    /\ guests[g] = NoGuest
    /\ MayIssue
    /\ guests' = [guests EXCEPT ![g] = [op |-> "issue"]]
    /\ UNCHANGED <<codes, tried, accepted>>

\* Asking for a new code retires the previous one.
IssueCode(g) ==
    LET n == Cardinality(Issued) + 1 IN
    /\ guests[g].op = "issue"
    /\ n \in Numbers
    /\ codes' = [m \in 1..n |->
          IF m = n THEN [used |-> FALSE, age |-> 0, attempts |-> 0]
                   ELSE [codes[m] EXCEPT !.used = TRUE]]
    /\ Answered(g)
    /\ UNCHANGED <<tried, accepted>>

\* A code is found by its token, or as the newest usable one of the user.
FindCode(g, n) ==
    /\ guests[g] = NoGuest
    /\ n \in Issued /\ Usable(n)
    /\ guests' = [guests EXCEPT ![g] = [op |-> "found", code |-> n]]
    /\ UNCHANGED <<codes, tried, accepted>>

\* Every try counts; only then is the code compared.
TryCode(g, matches) ==
    LET n == guests[g].code IN
    /\ guests[g].op = "found"
    /\ IF Usable(n) /\ codes[n].attempts < MaxTries
       THEN /\ codes' = [codes EXCEPT ![n].attempts = @ + 1]
            /\ tried' = [tried EXCEPT ![n] = @ + 1]
            /\ IF matches THEN guests' = [guests EXCEPT ![g].op = "matched"] ELSE Answered(g)
       ELSE Answered(g) /\ UNCHANGED <<codes, tried>>
    /\ UNCHANGED accepted

UseIf(g, unused(_)) ==
    LET n == guests[g].code IN
    /\ guests[g].op = "matched"
    /\ codes' = [codes EXCEPT ![n].used = TRUE]
    /\ accepted' = [accepted EXCEPT ![n] = @ + (IF unused(n) THEN 1 ELSE 0)]
    /\ Answered(g)
    /\ UNCHANGED tried

\* Mutant: the matching code is marked used without looking.
UseCodeBlind(g) == UseIf(g, LAMBDA n : TRUE)

\* Whoever marks the matching code used is let in.
UseCode(g) == UseIf(g, LAMBDA n : ~codes[n].used)

CodeAges(n) ==
    /\ n \in Issued
    /\ codes[n].age < Hour
    /\ \A m \in 1..(n - 1) : codes[m].age > codes[n].age
    /\ codes' = [codes EXCEPT ![n].age = @ + 1]
    /\ UNCHANGED <<tried, accepted, guests>>

GuestStops(g) ==
    /\ guests[g] # NoGuest
    /\ Answered(g)
    /\ UNCHANGED <<codes, tried, accepted>>

CodesNext ==
    \/ \E g \in Guests :
        \/ AskCode(g) \/ IssueCode(g) \/ UseCode(g) \/ GuestStops(g)
        \/ \E n \in Numbers : FindCode(g, n)
        \/ \E matches \in BOOLEAN : TryCode(g, matches)
    \/ \E n \in Numbers : CodeAges(n)

CodesSpec == CodesInit /\ [][CodesNext]_codeVars

-----------------------------------------------------------------------------
CodesTypeOK ==
    /\ \A n \in Issued : /\ codes[n].used \in BOOLEAN
                         /\ codes[n].age \in 0..Hour
                         /\ codes[n].attempts \in 0..MaxTries
    /\ \A g \in Guests : guests[g].op \in {"none", "issue", "found", "matched"}

\* However many requests hold one code at once, it is compared at most MaxTries times
\* and lets one of them in; and the hourly limit is passed by no more codes than there
\* were other requests between checkRate and the transaction of issue().
CodeWorksOnce ==
    /\ \A n \in Numbers : accepted[n] <= 1 /\ tried[n] <= MaxTries
    /\ Cardinality({n \in Issued : codes[n].age < Hour}) < OtpPerHour + Cardinality(Guests)
=============================================================================
