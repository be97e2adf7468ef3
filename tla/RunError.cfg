CONSTANTS
  Stage <- Three
  Pipelines <- MCThree
SPECIFICATION Spec
INVARIANT SameErrorAsSequential
