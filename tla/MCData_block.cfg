SPECIFICATION DataSpec
CONSTANTS
    Bytes = {1, 2}
    MaxLength = 2
    MaxSize = 4
    MaxCalls = 3
    Block <- MCBlock
    Base = 4
    Description <- MCDescription
    Numbers = {1, 7}
    Strings <- MCStrings
    MaxOperations = 4
    WordBits = 2
    Words = 3
    ByteBits = 2
    WordBytes = 4
    BigWords = 3
    Types <- MCTypes
    Inputs <- MCInputs
PROPERTY ImplementsBytes
CHECK_DEADLOCK FALSE
