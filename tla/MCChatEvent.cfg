\* Two signed events of two authors, each altered twice by a relay.
SPECIFICATION Spec
CONSTANTS
  Authors = {97, 98}
  U32 = 4
  Kinds = {1, 5}
  Times = {1, 11}
  Contents <- MCContents
  TagLists <- MCTagLists
  Nonces = {10}
  MaxSigned = 2
  MaxAlterations = 2
INVARIANTS VerifiedIsSigned HonestVerifies
