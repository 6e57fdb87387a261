SPECIFICATION Spec
CONSTANTS
  Scripts <- TwoMESS
INVARIANT StaysInBuffer
