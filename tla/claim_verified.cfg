CONSTANTS
    Sentences <- SomeSentences
    FirstSentence <- Good
SPECIFICATION Spec
INVARIANT VerifiedIsRead
