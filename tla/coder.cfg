CONSTANTS
    Sentences <- SomeSentences
    FirstSentence <- Good
SPECIFICATION Spec
INVARIANTS
    PositionIsTheSentences
    OptionalFieldsAreTheSentences
PROPERTIES
    EqualSamplesSaidTheSame
    TimestampsKeepOrder
