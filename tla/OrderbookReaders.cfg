SPECIFICATION ReadersFairSpec
CONSTANTS
    Readers = {r1, r2, r3}
    Waiters = {w1}
    MaxReads = 4
    MaxEvents = 2
INVARIANT FetchesAreShared
INVARIANT NoLostWakeup
PROPERTY EveryReadReturns
PROPERTY EveryWaiterIsServed
