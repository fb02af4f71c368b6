-------------------------- MODULE MCConfiguration --------------------------
(***************************************************************************)
(* Parts that have to do with the configuration and share no state, in one *)
(* run: the draft and its versions (ConfigPublish), how services read them *)
(* (ConfigReads), the document numbers that config-service gives out       *)
(* (Numbering), what configured rules make of a save, and the periods of   *)
(* the fiscal year (Metadata).  A behaviour belongs to one part; the       *)
(* others stay where they begin.                                           *)
(***************************************************************************)
EXTENDS MCConfigPublish, ConfigReads, Numbering, MCRecordRules, Metadata

\* Series that show their period and their bucket; of the last two, one prints as a literal
\* what is the unit's code in the other.
Shapes ==
    LET Shape(pattern, reset, scope) ==
            [pattern |-> pattern, width |-> 1, reset |-> reset, scope |-> scope]
    IN {Shape(<<"FY", "/", "SEQ">>, "yearly", "company"),
        Shape(<<"YYYY", "MM", "/", "BRANCH", "/", "SEQ">>, "monthly", "org_unit"),
        Shape(<<"H", "SEQ">>, "never", "company"),
        Shape(<<"BRANCH", "SEQ">>, "never", "org_unit")}
Codes == (branch :> <<"H">> @@ CompanyLayer :> <<>>)
\* One fiscal year from April and two calendar years.
Days == << <<26, 12>>, <<27, 1>> >>

\* Rules on their own, and two together when one of them sets a value or both protect
\* theirs.
Protecting(r) == r.effect \in {"hide", "readonly"}
OneOrTwo ==
    {rs \in UpToTwo : Len(rs) = 2 =>
        /\ rs[1] # rs[2]
        /\ \/ "set" \in {rs[1].effect, rs[2].effect}
           \/ Protecting(rs[1]) /\ Protecting(rs[2])}

ConfigurationInit ==
    /\ part \in {"publish", "read", "number", "rules", "periods"}
    /\ Init /\ ReadsInit /\ NumbersInit /\ RulesInit /\ PeriodsInit
    /\ part # "number" =>
         /\ startMonth = 1
         /\ layers = [u \in Where |-> IF u = CompanyLayer THEN CHOOSE shape \in Shapes : TRUE
                                       ELSE NoSeries]
    /\ part # "rules" =>
         rules = <<>> /\ entity.formula /\ entity.default /\ item = CHOOSE p \in Prices : TRUE
    /\ part # "periods" =>
         /\ now = CHOOSE d \in FirstDays : TRUE
         /\ fyStartMonth = CHOOSE m \in FiscalStarts : TRUE

ConfigurationNext ==
    \/ /\ part = "publish" /\ Next
       /\ UNCHANGED <<readVars, numberVars, rulesVars, periodVars, part>>
    \/ /\ part = "read" /\ ReadsNext
       /\ UNCHANGED <<vars, numberVars, rulesVars, periodVars, part>>
    \/ /\ part = "number" /\ NumbersNext
       /\ UNCHANGED <<vars, readVars, rulesVars, periodVars, part>>
    \/ /\ part = "rules" /\ RulesNext
       /\ UNCHANGED <<vars, readVars, numberVars, periodVars, part>>
    \/ /\ part = "periods" /\ PeriodsNext
       /\ UNCHANGED <<vars, readVars, numberVars, rulesVars, part>>

ConfigurationSpec ==
    /\ ConfigurationInit
    /\ [][ConfigurationNext]_<<vars, readVars, numberVars, rulesVars, periodVars, part>>

-----------------------------------------------------------------------------
\* The parts keep their types.
ConfigurationTypeOK == TypeOK /\ ReadsTypeOK /\ NumbersTypeOK /\ RulesTypeOK
=============================================================================
