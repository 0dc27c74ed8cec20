SPECIFICATION FairSpec
CONSTANTS
  i1 = i1
  i2 = i2
  Items = {i1, i2}
  Story = i1
  MaxUsers = 2
  MaxDigests = 2
  PageLimit = 1
  DigestLimit = 1
  MaxClock = 2
  MaxPasses = 2
  MaxShared = 1
  MaxUpsets = 1
CHECK_DEADLOCK FALSE
INVARIANTS
  TypeOK
  NothingSkipped
  MailedOnce
  DigestAccounts
PROPERTIES
  ConsumerReceives
  DigestReaches
