\* Two Sanic workers, whose updates overlap and which may die.
SPECIFICATION SharedSpec
CONSTANTS
    Downloads = {d1, d2}
    d1 = d1
    d2 = d2
    w1 = w1
    w2 = w2
    Workers = {w1, w2}
    NoOp = NoOp
CONSTRAINT StillClaimed
SYMMETRY SharedSymmetry
INVARIANTS
    NothingLeftBehind
    RunningIsListed
