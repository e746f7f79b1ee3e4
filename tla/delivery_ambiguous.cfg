SPECIFICATION Spec
CONSTANTS
  Deliveries = {d1}
  Fragments = 1
INVARIANT AttemptingBecomesAmbiguous
