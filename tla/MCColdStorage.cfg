CONSTANTS
  phrase = phrase
  seed = seed
  bad = bad
  BadSeeds = {bad}
  HARDENED = 4
  PageSeeds = {seed}
  Typeable <- MCTypeable
  Payees = {payee}
  Amounts = {1, 2}
  MaxFees = {1, 2}
  Values = {0, 1, 2, 3}
  MaxCalls = 2
  Funding <- MCFunding
SPECIFICATION Spec
INVARIANTS PaperWhole RevealedOnRequest FundsReachable PaidAsApproved NoOtherChain HonestAccepted
CHECK_DEADLOCK FALSE
