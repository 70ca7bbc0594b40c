\* Every setting of the switches, every classification, every answer.
SPECIFICATION Spec
CONSTANT Limits <- SmallLimits
INVARIANTS TypeOK OnlyFreeUnlessOwnerSays KindNamesLastAttempt WaitsBetweenAttempts
PROPERTIES EveryStepUsesUp EndsIfAnswered
CHECK_DEADLOCK FALSE
