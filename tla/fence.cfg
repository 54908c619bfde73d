SPECIFICATION Spec
CONSTANT MaxSlow = 2
INVARIANTS OneOpAtATime MaskedUntilReleased OpHasTheBus
PROPERTIES FenceEnds
