SPECIFICATION Spec
CONSTANTS
  MaxNodes = 6
  NoNode = NoNode
  Forms = {"indent", "graphviz", "one_line", "tree"}
  RenderWidths = {0, 60}
  Trees <- MCTrees
  Options <- MCOptions
CHECK_DEADLOCK FALSE
INVARIANTS PictureIsThePlan  TextIsThePlan
