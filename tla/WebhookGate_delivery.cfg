SPECIFICATION Spec
CONSTANTS
  signed = signed
  forged = forged
  NoStamp = NoStamp
  Requests = {r1, r2, r3, r4}
  Tuples = {signed, forged}
  Provider <- MCProvider
  Signature <- MCSignature
  Stamp <- MCStamp
  Remotes = {"remote-present"}
  Environments <- MCEnvironments
  Limit = 1
  LimitWindow = 2
  MaxTime = 4
  MaxFaults = 1
  MaxRestarts = 1
SYMMETRY RequestSymmetry
INVARIANTS
  TypeOK
  VerifiedOnce
  CacheIsVerified
  VerifiedIsFresh
  AtMostTwiceLimit
  LimitedOnlyIfBusy
CHECK_DEADLOCK FALSE
