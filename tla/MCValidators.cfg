CONSTANTS
    Descriptors <- MCDescriptors
    Tokens <- MCTokens
    MaxLen <- MCMaxLen
    min = 0
    max = 15
    NaN = NaN
SPECIFICATION Spec
INVARIANT TypeOK
INVARIANT ValidateMatchesSpec
INVARIANT SentAsSpecified
