CONSTANTS
  Frame = {f1, f2}
  MaxWarnings = 2
  MaxCalls = 5
SPECIFICATION Spec
INVARIANTS Warnings Updates
PROPERTIES DeliversInOrder FrameDone
