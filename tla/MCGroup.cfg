CONSTANT N = 2
SPECIFICATION FairSpec
INVARIANTS
    DrainsBeforeReturn
    LastArrivalWakes
    ResultIsTheTriggers
    StopIsCancellation
    BodyAgainstDeadline
PROPERTY
    StoppingGroupReturns
