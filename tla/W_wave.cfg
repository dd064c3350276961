SPECIFICATION Spec
CONSTANTS
  NLanes = 3
  NLayers = 2
  Attention <- LastLayer
  LaneStagger = 1
  GroupCells = 2
  SharedService = TRUE
  Passes = 2
INVARIANTS SumIsOfItsCell AttentionSeesEarlierLanes WaveIsWhole
PROPERTY ImplementsWave
