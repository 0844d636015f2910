SPECIFICATION Spec
CONSTANTS
    old1 = old1  old2 = old2  new1 = new1  new2 = new2  new3 = new3
    w1 = w1  c1 = c1  c2 = c2
    Days = {1, 2}
    Rows <- MCRows
    DayOf <- MCDayOf
    OldRows = {old1, old2}
    Writers = {w1}
    Creators = {c1, c2}
    DaysOf <- MCDaysOf
    MaxFaults = 1
    Feed <- MCFeed
    BatchSize = 2
    MaxStoreErrors = 1
INVARIANT EvacuationKeepsRows
CHECK_DEADLOCK FALSE
