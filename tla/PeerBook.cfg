SPECIFICATION Spec
CONSTANTS
  q1 = q1
  q2 = q2
  loop = loop
  lan1 = lan1
  pub1 = pub1
  Procs <- MCProcs
  Contacts <- MCContacts
  Unusable <- MCUnusable
  Private <- MCPrivate
  Own <- MCOwn
  Bootstrap <- MCBootstrap
  Limits <- MCLimits
  MaxAge = 1
  MaxTime = 3
  MaxEvents = 3
  MaxStarts = 2
  MaxChanges = 1
SYMMETRY MCSymmetry
CHECK_DEADLOCK FALSE
INVARIANTS
  StoreInOrder
  PrivateStaysLocal
  NothingLocalPersisted
  FailedStaysAway
  IdentityKept
PROPERTIES
  OldestEvicted
