SPECIFICATION Spec
CONSTANTS
  NoIntr = NoIntr
  Free = Free
  Gap = 8
INVARIANTS TypeOK AssertHolds KeyboardAlive Announced
PROPERTIES ImplementsIrqLines KeyIsRead DiskIsServed
