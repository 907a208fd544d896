SPECIFICATION Spec
CONSTANTS
  IOs = {i1, i2}
  NFiles = 2
  Builds = {"blkmq", "makereq"}
  Depths = {0, 1}
  MaxCount = 2
  MaxLeaked = 1
INVARIANTS CountsSound SleeperIsWoken
PROPERTIES NoCloneOutlives SuccessOnEveryFile EioFailsOver
SYMMETRY Symmetry
