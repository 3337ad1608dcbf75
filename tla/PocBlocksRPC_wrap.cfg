CONSTANTS
    Width = 5
    Heights = {0, 3, 6}
    Pages <- MCPages
    Counts = {0, 1, 2, 4, 29}
    Backends = {"full"}
    NoValue = NoValue
    Spinning = Spinning
SPECIFICATION Spec
INVARIANT PageMatchesSpec
