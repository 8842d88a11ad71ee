SPECIFICATION Spec
CONSTANTS
  SIZE = 3
  Text = {a, b}
  Speed = {1, 2}
  UpSpeed = 3
  Bottom = 2
  Null = Null
  HZ = 4
  FPS = 2
  CHARACTER_PER_SECOND = 4
  UPDATE_PER_SECOND = 4
  KeyboardHandled = TRUE
  MaxTick = 4
INVARIANTS
  TypeOK
  ListSound
  EveryLetterCounted
  NoAssertFails
PROPERTY CatchesUp
