CONSTANTS
    Symbols <- MCSymbols
    Lower <- MCLower
    Rank <- MCRank
    Parsers <- MCParsers
    Inputs <- MCInputs
SPECIFICATION FairSpec
INVARIANTS TypeOK Accounted Located UnknownIsTrue MissingIsTrue RenderKeepsMeaning
PROPERTIES Terminates
CHECK_DEADLOCK FALSE
