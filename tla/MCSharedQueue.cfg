SPECIFICATION TwoSpec
CONSTANTS
  h = h
  t = t
  u = u
  Stream = {h, t, u}
  Config <- Configs
  MaxItems = 2
  MaxFrames = 2
INVARIANT TypeOK
INVARIANT NothingStranded
INVARIANT EverythingEnqueued
PROPERTY ImplementsMailbox
CHECK_DEADLOCK FALSE
