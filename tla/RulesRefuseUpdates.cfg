\* An entity with a formula and an update rule whose condition does not hold.
CONSTANTS
    RuleSets <- UpToTwo
    Item = Item
    Blank = Blank
    Prices = {1,2}
    Notes = {1,2}
SPECIFICATION RulesSpec
INVARIANT QuietRulesRefuseNothing
CHECK_DEADLOCK FALSE
