CONSTANTS
  a1 = a1
  a2 = a2
  a3 = a3
  Addon = {a1, a2, a3}
  Rank <- MCRank
  Files <- MCFiles
  Bootstrap = {"boot"}
  Xml = {"xml"}
  GlobalOnly = {}
  IntoGlobal = {"intoglobal"}
  IntoSecure = {}
  MaxCalls = 1
SPECIFICATION MCSpec
INVARIANTS
  RunOnce
  InTurn
  AllLoaded
PROPERTY
  LoadEnds
CHECK_DEADLOCK FALSE
