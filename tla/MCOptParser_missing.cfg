CONSTANTS
    Symbols <- MCSymbols
    Lower <- MCLower
    Rank <- MCRank
    Parsers <- MCParsers
    Inputs <- MCProgramInputs
SPECIFICATION Spec
INVARIANT MissingIsLast
CHECK_DEADLOCK FALSE
