SPECIFICATION RingSpec
CONSTANTS
  Frame = {f1, f2, f3, f4}
  None = None
  Shapes <- EvenShapes
  MaxAge = 1
  Contended = FALSE
SYMMETRY FrameSymmetry
INVARIANTS NoRepackUnderCopy ReuseIsExact
