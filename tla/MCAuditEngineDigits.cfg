\* The same calls: wrong digits after the debt was already disclosed.
CONSTANTS
    NoFacts = NoFacts
    NoCommitment = NoCommitment
    NoDay = NoDay
    NoRate = NoRate
    Unsaid = Unsaid
    Numerals <- MCNumerals
    Calls <- MCCalls
    Labelings <- MCLabelings
    Truths <- MCTruths
    Amounts <- MCAmounts
    MaxAudits = 2
SPECIFICATION Spec
INVARIANT
    WrongDigitsAreCaught
CHECK_DEADLOCK FALSE
