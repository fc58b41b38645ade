SPECIFICATION Spec
CONSTANTS
    Replicas = {a, b}
    Keys = {x, y}
    Values = {0, 1}
    MaxTs = 1
INVARIANTS StateIsWinner Convergence
PROPERTIES NoRegress
