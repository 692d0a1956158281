\* Four fingers and three objects: the third finger is the one that ends a
\* gesture of two and leaves fingers behind.
SPECIFICATION Spec
CONSTANTS
  Fingers = {f1, f2, f3, f4}
  None = None
  MaxObjects = 3
INVARIANTS TouchesFit OldObjectOldFinger
PROPERTIES NoTapAfterMove
