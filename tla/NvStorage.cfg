\* Sequence numbers 0..3 wrap around within four saves.
CONSTANTS
  Data = {d1, d2, d3}
  None = None
  Garbage = Garbage
  Half = 2
SPECIFICATION Spec
INVARIANTS Consecutive
PROPERTY RegionSpec
