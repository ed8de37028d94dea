SPECIFICATION Spec
CONSTANTS
  NaN = NaN
  Builds = {"debug", "release"}
  Width <- MCWidth
  Precision <- MCPrecision
  Apply <- MCApply
  Samples <- MCSamples
  Batches <- MCBatches
  Exprs <- MCExprs
  Masks <- MCMasks
CHECK_DEADLOCK FALSE
INVARIANTS SelectionAgrees KnownStaysKnown OrderIsKept
