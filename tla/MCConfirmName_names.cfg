SPECIFICATION Spec
CONSTANT
    MaxLength = 4
INVARIANTS
    ConfirmedByWords
    PhraseWorks
