CONSTANTS
  Services <- MCServices
  Inputs <- MCInputs
  IntMax = 15
  UintMax = 31
  SignedMax <- MCSignedMax
  UnsignedMax <- MCUnsignedMax
SPECIFICATION Spec
INVARIANT CollisionRefused
