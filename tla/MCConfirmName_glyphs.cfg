SPECIFICATION Spec
CONSTANT
    MaxLength = 2
INVARIANT
    PhraseAlwaysWorks
