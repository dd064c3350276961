\* Four evals of two or four calls, two layers of two products
SPECIFICATION Spec
CONSTANTS
    MaxEvals = 4
    Calls = {2, 4}
    Layers = 2
    Products = 2
    Ring = 3
    NSlots = 3
INVARIANTS StateInOrder DepthTwo WeightsAreOwn SortIsOwn
CHECK_DEADLOCK FALSE
