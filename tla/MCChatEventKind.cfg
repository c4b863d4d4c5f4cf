SPECIFICATION Spec
CONSTANTS
  Authors = {97}
  U32 = 4
  Kinds = {1, 5}
  Times = {1}
  Contents <- MCContents
  TagLists <- MCTagLists
  Nonces = {0}
  MaxSigned = 1
  MaxAlterations = 1
INVARIANT TamperingRejected
