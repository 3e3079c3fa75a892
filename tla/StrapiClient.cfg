\* Two workers share a client; up to three tokens stop being accepted.
SPECIFICATION FairSpec
CONSTANTS
  w1 = w1
  w2 = w2
  NoCaller = NoCaller
  Callers <- MCCallers
  MaxExpired = 3
INVARIANTS
  TypeOK
  CacheIsNewest
  TransparentExpiry
  LoginsBounded
  IInv
PROPERTY
  DoReturns
  KeepsContract
