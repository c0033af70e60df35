SPECIFICATION MCSpec
CONSTANTS
    None = None
    once = once
    every = every
    MaxFd = 2
    Word = 1
CHECK_DEADLOCK FALSE
INVARIANTS LoopSound BaseLifeSound MapsSound SignalsSound LocksSound RatesHold
PROPERTIES AsksWhatIsWanted LoopSteps EpollAsksWhatIsWanted EventuallyServed
