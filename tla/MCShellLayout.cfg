SPECIFICATION Spec
CONSTANTS
  mouse = mouse
  touch = touch
  Widths <- TheWidths
  Areas <- TheAreas
  FirstArea = 1600
  Scales <- TheScales
  Positions <- ThePositions
  Pointers = {mouse, touch}
  MaxGestures = 5
INVARIANTS
  SurfacesSettle
  
  ScaleFits
CHECK_DEADLOCK FALSE
