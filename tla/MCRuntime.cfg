CONSTANTS
  Holders = {h1, h2, h3}
  Sizes = {1, 2, 3, 7}
  Limit = 4
  MaxU64 = 7
  Senders = {s1, s2}
  Receivers = {r1}
  Capacity = 2
  QueueLimit = 3
  Estimates = {1, 2}
  MaxSends = 2
SPECIFICATION RuntimeSpec
INVARIANTS Accounting PeakIsHighWater NothingIsLost
PROPERTIES ImplementsAtomicBudget CancelInterrupts SendReturns
