CONSTANTS
    Hashes <- MCHashes
    NoValue = NoValue
SPECIFICATION Spec
INVARIANT ScoopMatchesSpec
