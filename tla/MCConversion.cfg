\* An encoding from jpegFile to jxlFile and, in a batch, a decoding of jxlFile in place; one crash.
SPECIFICATION FairSpec
CONSTANTS
    encode = encode
    decode = decode
    jpegFile = jpegFile
    jxlFile = jxlFile
    folder = folder
    other = other
    Conversions = {encode, decode}
    Encoding = {encode}
    Kinds <- MCKinds
    Paths = {jpegFile, jxlFile}
    Input <- MCInput
    Output <- MCOutput
    Scopes <- MCScopes
    Lengths = {2}
    InitialBytes = 1
    SafetyLimit = 2
    Unit = 2
    ClockMax = 5
    Timeouts <- MCTimeouts
    Sizes <- MCSizes
    MaxAttempts = 2
    Leftovers = {0}
INVARIANTS
    BufferHoldsOutput
    CancelledIsTimeout
    TempsOwned
    ScopesBalanced
PROPERTIES
    TimeoutsAreDue
    ImplementsAtomicConversion
    EveryConversionEnds
\* Every conversion is answered.
CHECK_DEADLOCK FALSE
