CONSTANTS
  c1 = c1  c2 = c2  w1 = w1  w2 = w2  b1 = b1  b2 = b2
  Client <- Clients
  Worker <- Workers
  Block <- Blocks
  Waiter = {c1}
  MaxEnter = 2
  NoBlock = NoBlock
SPECIFICATION FairSpec
INVARIANTS TypeOK OneFires FlagsHaveReader NoUseAfterDispose NoLostWakeup
PROPERTIES WaitIsHonest Settles
CHECK_DEADLOCK FALSE
