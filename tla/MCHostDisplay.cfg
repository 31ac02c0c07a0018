SPECIFICATION DisplaySpec
CONSTANTS
  v1 = v1
  v2 = v2
  v3 = v3
  w1 = w1
  w2 = w2
  w3 = w3
  monitor = monitor
  window = window
  left = left
  right = right
  First = First
  Nothing = Nothing
  Initial = monitor
  Primary = left
  Viewer = {v1, v2, v3}
  Switch = {w1, w2, w3}
  Pick = {w1, w2}
  Source = {monitor, window}
  Layout <- MCLayout
  DisplayOf <- MCDisplayOf
  Grid = 3
SYMMETRY Symmetry
INVARIANTS
  CaptureInv
  ViewersAgree
  PointerLandsOnScreen
CHECK_DEADLOCK FALSE
