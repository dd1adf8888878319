\* Frames in three pieces, up to three chunks, from offsets 0 and 1.
SPECIFICATION Spec
CONSTANTS
  Parts = 3
  Offsets = {0, 1}
  Lengths = {0, 1, 3}
INVARIANT TypeOK NoStrandedFrame SuccessMeansCopied ServerAgrees
PROPERTY BothReturn
