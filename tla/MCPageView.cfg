SPECIFICATION ViewSpec
CONSTANTS
  Names <- MCNames
  Fold <- MCFold
  TemplateHeight = 4
  ExtensionY = 3
  MinGroup = 3
  BottomMargin = 1
  GroupInset = 2
  Line = 1
  Heights = {0, 3, 4, 7, 9, 13}
  Dpis = {1, 2}
  PanelRows = {1, 3}
CHECK_DEADLOCK FALSE
INVARIANTS
  ViewerWhole
  FontsAlive
  ScrollConsistent
