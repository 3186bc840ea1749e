SPECIFICATION Spec
CONSTANTS
    None = None
    ImageChunks = 2
    MaxChunks = 3
    MaxFlashes = 3
INVARIANT
    WrittenIsReported
