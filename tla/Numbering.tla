----------------------------- MODULE Numbering -----------------------------
(***************************************************************************)
(* The numbers of one series (nextNumber of config.service.ts, numbering.ts*)
(* and fiscal.ts).  A request reads the series that its organization unit  *)
(* sees; then the layer that defines it now, and the date; increments the  *)
(* counter of the bucket and the period; and renders the pattern.  What    *)
(* administrators publish meanwhile comes between.  A pattern is a         *)
(* sequence of tokens and literal characters, a number a sequence of       *)
(* characters.  Days are left out, and {YY} is {YYYY}.                     *)
(***************************************************************************)
EXTENDS Integers, Sequences, FiniteSets

CONSTANTS
    Requests,     \* requests in flight at one time
    OrgUnits,     \* organization units that may override the series
    CompanyLayer, \* the company itself: no unit, and its layer
    UnitCode,     \* the code of each unit as characters; of the company, none
    SeriesDefs,   \* the definitions a layer may give
    NoSeries,     \* no definition
    StartMonths,  \* first months of a fiscal year
    Dates,        \* sequence of <<year, month>>, going forward
    MaxNumbers,   \* bound: numbers allocated
    MaxChanges    \* bound: changes of the configuration

VARIABLES
    layers,     \* the published definition of each layer
    startMonth, \* the company's first month of the fiscal year
    changes,    \* history: changes that were published
    today,      \* position in Dates
    counters,   \* number_counters: <<bucket, period>> -> seq, from 1 on
    issued,     \* the numbers handed out, with their requests and counts, in order
    asking      \* what each request has read

ASSUME NumberingAssumption ==
    /\ CompanyLayer \notin OrgUnits
    /\ UnitCode \in [OrgUnits \cup {CompanyLayer} -> Seq(STRING)]
    /\ SeriesDefs \subseteq [pattern : Seq(STRING), width : 1..12,
                             reset : {"never", "yearly", "monthly"},
                             scope : {"company", "org_unit"}]
    /\ NoSeries \notin SeriesDefs
    /\ StartMonths \subseteq 1..12
    /\ Dates \in Seq(Nat \X (1..12)) /\ Dates # <<>>
    /\ MaxNumbers \in Nat

numberVars == <<layers, startMonth, changes, today, counters, issued, asking>>

Where == OrgUnits \cup {CompanyLayer}

NumbersInit ==
    /\ layers \in [Where -> SeriesDefs \cup {NoSeries}]
    /\ \A u \in Where : layers[u] = NoSeries <=> u # CompanyLayer
    /\ startMonth \in StartMonths
    /\ changes = 0
    /\ today = 1
    /\ counters = <<>>
    /\ issued = <<>>
    /\ asking = [r \in Requests |-> NoSeries]

-----------------------------------------------------------------------------
\* The calendar year a fiscal year starts in.
FiscalYear(date, start) == IF date[2] >= start THEN date[1] ELSE date[1] - 1

\* The layer whose definition a unit sees: its own or the company's.
DefiningLayer(unit) == IF layers[unit] # NoSeries THEN unit ELSE CompanyLayer

\* Mutant: a yearly series starts again on the first of January.
CalendarPeriod(reset, date, start) ==
    CASE reset = "never"   -> <<>>
      [] reset = "yearly"  -> <<date[1]>>
      [] reset = "monthly" -> date

\* Which counter of a bucket a date belongs to.
Period(reset, date, start) ==
    CASE reset = "never"   -> <<>>
      [] reset = "yearly"  -> <<FiscalYear(date, start)>>
      [] reset = "monthly" -> date

Counter(call) == <<call.bucket, Period(call.series.reset, call.date, call.start)>>

-----------------------------------------------------------------------------
(* Rendering *)

Digit(n) == <<"0", "1", "2", "3", "4", "5", "6", "7", "8", "9">>[n + 1]
Decimal[n \in Nat] ==
    IF n < 10 THEN <<Digit(n)>> ELSE Decimal[n \div 10] \o <<Digit(n % 10)>>
\* Filled up with zeros from the left; a longer number stays as it is.
Padded(n, width) == [i \in 1..(width - Len(Decimal[n])) |-> "0"] \o Decimal[n]

\* A fiscal year that is not a calendar year shows both.
FiscalLabel(year, start) ==
    IF start = 1 THEN Decimal[year] ELSE Decimal[year] \o <<"-">> \o Padded((year + 1) % 100, 2)

TextOf(part, call, seq) ==
    CASE part = "FY"     -> FiscalLabel(FiscalYear(call.date, call.start), call.start)
      [] part = "YYYY"   -> Decimal[call.date[1]]
      [] part = "MM"     -> Padded(call.date[2], 2)
      [] part = "BRANCH" -> UnitCode[call.unit]
      [] part = "SEQ"    -> Padded(seq, call.series.width)
      [] OTHER           -> <<part>>

\* The pattern with each token replaced by its text.
Render(call, seq) ==
    LET pattern == call.series.pattern
        upTo[i \in 0..Len(pattern)] ==
            IF i = 0 THEN <<>> ELSE upTo[i - 1] \o TextOf(pattern[i], call, seq)
    IN upTo[Len(pattern)]

-----------------------------------------------------------------------------
\* The series that the unit sees in the effective configuration, if any, and its fiscal
\* year.  The date is taken later.
Ask(r, unit) ==
    /\ asking[r] = NoSeries
    /\ layers[DefiningLayer(unit)] # NoSeries
    /\ asking' = [asking EXCEPT ![r] =
          [unit |-> unit, layer |-> DefiningLayer(unit), series |-> layers[DefiningLayer(unit)],
           start |-> startMonth, bucket |-> NoSeries, date |-> NoSeries]]
    /\ UNCHANGED <<layers, startMonth, changes, today, counters, issued>>

\* The second read: the layer that defines the series now.  A series that counts per unit
\* refuses a record that has none.
AskLayer(r) ==
    LET call == asking[r] IN
    /\ call # NoSeries /\ call.bucket = NoSeries
    /\ asking' = [asking EXCEPT ![r] =
          IF call.series.scope = "company"
          THEN [call EXCEPT !.bucket = DefiningLayer(call.unit), !.date = Dates[today]]
          ELSE IF call.unit = CompanyLayer THEN NoSeries
          ELSE [call EXCEPT !.bucket = call.unit, !.date = Dates[today]]]
    /\ UNCHANGED <<layers, startMonth, changes, today, counters, issued>>

\* One upsert increments the counter; a first one that loses to another is repeated.
Allocate(r) ==
    LET call == asking[r] IN
    /\ call # NoSeries /\ call.bucket # NoSeries
    /\ Len(issued) < MaxNumbers
    /\ LET counter == Counter(call)
           seq == IF counter \in DOMAIN counters THEN counters[counter] + 1 ELSE 1
       IN
       /\ counters' = [k \in DOMAIN counters \cup {counter} |->
                          IF k = counter THEN seq ELSE counters[k]]
       /\ issued' = Append(issued, [text |-> Render(call, seq), call |-> call, seq |-> seq])
    /\ asking' = [asking EXCEPT ![r] = NoSeries]
    /\ UNCHANGED <<layers, startMonth, changes, today>>

Tomorrow ==
    /\ today < Len(Dates)
    /\ today' = today + 1
    /\ UNCHANGED <<layers, startMonth, changes, counters, issued, asking>>

\* A version is published in which one layer's series is another, or is gone, or the fiscal
\* year starts in another month.
Reconfigure ==
    /\ changes < MaxChanges
    /\ changes' = changes + 1
    /\ \/ /\ \E u \in Where, series \in SeriesDefs \cup {NoSeries} :
               /\ series # layers[u]
               /\ layers' = [layers EXCEPT ![u] = series]
          /\ UNCHANGED startMonth
       \/ /\ startMonth' \in StartMonths \ {startMonth}
          /\ UNCHANGED layers
    /\ UNCHANGED <<today, counters, issued, asking>>

NumbersNext ==
    \/ \E r \in Requests, unit \in Where : Ask(r, unit)
    \/ \E r \in Requests : AskLayer(r) \/ Allocate(r)
    \/ Tomorrow
    \/ Reconfigure

NumbersSpec == NumbersInit /\ [][NumbersNext]_numberVars

-----------------------------------------------------------------------------
NumbersTypeOK ==
    /\ layers \in [Where -> SeriesDefs \cup {NoSeries}]
    /\ today \in 1..Len(Dates)
    /\ \A k \in DOMAIN counters : counters[k] \in 1..MaxNumbers
    /\ Len(issued) <= MaxNumbers

\* What a request's number is meant to count: the unit or the layer of the series it was
\* given, and within it everything, the fiscal year by its months, or the month.
MeantToCount(call) ==
    <<IF call.series.scope = "org_unit" THEN call.unit ELSE call.layer,
      CASE call.series.reset = "never"   -> <<>>
        [] call.series.reset = "yearly"  ->
              <<(12 * call.date[1] + call.date[2] - call.start) \div 12>>
        [] call.series.reset = "monthly" -> call.date>>

\* The patterns in use print what is counted apart as different texts, and so each number.
TextsTellApart ==
    \A i, j \in 1..Len(issued), m, n \in 1..MaxNumbers :
        Render(issued[i].call, m) = Render(issued[j].call, n) =>
            MeantToCount(issued[i].call) = MeantToCount(issued[j].call) /\ m = n

\* An override was published, or taken out, between the two reads of a request: its number
\* is counted by another layer than the one its series is of (config.service.ts:609, 612).
LayerChangedBetweenReads ==
    \E i \in 1..Len(issued) :
        /\ issued[i].call.series.scope = "company"
        /\ issued[i].call.bucket # issued[i].call.layer

\* "Unique and in order": whatever requests, midnights, first uses of a counter and changes
\* of the configuration overlap, no number is issued twice as a text, if the patterns print
\* different counts differently (which nothing in the code asks of them) and no layer was
\* changed between the two reads of a request.
NumbersDiffer ==
    \/ \A i, j \in 1..Len(issued) : issued[i].text = issued[j].text => i = j
    \/ LayerChangedBetweenReads
    \/ ~TextsTellApart
=============================================================================
