SPECIFICATION PbqlSpec
CONSTANTS
    Texts <- MCTexts
    RealOf <- MCRealOf
    IntegerOf <- MCIntegerOf
    Real1 <- MCReal1
    Real2 <- MCReal2
    Operands <- MCOperands
    Infixes <- MCInfixes
    PrefixTokens <- MCPrefixes
    SuffixPhrases <- MCSuffixes
    IntegerWordBits = 4
    IntegerWords = 4
    MaxOperands = 3
    MaxExtras = 1
    MaxExpressions = 3
    MaxTables = 2
    MaxLimit = 3
    MaxSegments = 4
    MaxName = 3
    MaxLines = 2
    MaxStatements = 3
    Sources <- MCClauses
INVARIANT ClausesAreAccepted
CHECK_DEADLOCK FALSE
