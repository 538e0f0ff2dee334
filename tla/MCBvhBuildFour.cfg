SPECIFICATION Spec
CONSTANTS
    Workers = {w1, w2, w3, w4}
    Main = main
    NumThreads = 4
    Nodes = {1,2,3,4,5,6,7,8,9,10,11,18,19}
    Inner = {1, 2, 3, 4, 5, 9}
    Shares = {1}
SYMMETRY Symmetry
INVARIANTS
    SomeThreadGoesOn
CHECK_DEADLOCK FALSE
