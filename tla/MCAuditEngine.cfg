\* About 1,900 calls in eight families, each audited up to twice, with and
\* without the facts of the model.
CONSTANTS
    NoFacts = NoFacts
    NoCommitment = NoCommitment
    NoDay = NoDay
    NoRate = NoRate
    Unsaid = Unsaid
    Numerals <- MCNumerals
    Calls <- MCCalls
    Labelings <- MCLabelings
    Truths <- MCTruths
    Amounts <- MCAmounts
    MaxAudits = 2
SPECIFICATION Spec
INVARIANTS
    TypeOK
    PartialNeverAccuses
    RaisesOnlyWithoutEvidence
    NoTurnPunishedTwice
    WindowJudgedIffConcrete
    EveryDisclosureIsJudged
    FullScoreMeansClean
    CommittedDateIsTheOneSaid
    DisclosureIsHeard
    ReportTellsTheAudits
    ComparisonAddsUp
CHECK_DEADLOCK FALSE
