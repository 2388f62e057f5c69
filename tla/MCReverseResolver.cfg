SPECIFICATION FairSpec
CONSTANTS
  a1 = a1
  a2 = a2
  a3 = a3
  a4 = a4
  Addresses = {a1, a2, a3, a4}
  Names = {"pool", "cdn"}
  NoAddress = NoAddress
  Threads = {t1, t2}
  RESOLVER_QUEUE_LIMIT = 2
  Polls <- SmallPolls
  MaxStartFailures = 1
INVARIANT TypeOK
INVARIANT PendingBounded
INVARIANT OncePerAddress
INVARIANT DrainIsHonest
PROPERTY QueuedSettles
PROPERTY AskedOftenSettles
PROPERTY ImplementsNameService
