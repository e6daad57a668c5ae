\* Three threads that all start with a first call; two of them may race while the
\* third comes late.
CONSTANTS
    Threads = {one, two, three}
    Rules <- MCRules
    Unknown = "SOAP"
    MaxHashes = 1
    NULL = NULL
SYMMETRY ThreadsAlike
SPECIFICATION Spec
INVARIANTS
    KnownFound
PROPERTIES
    InitialisedForGood
