SPECIFICATION FairSpec
CONSTANTS
    Topics = {t}
    MaxRetries = 2
    MaxEvents = 3
INVARIANTS TypeOK RetryBounded ConnectedIsServed
PROPERTIES ConnectEnds StopDuringConnect
\* A run that is over, or a program that was terminated, makes no step.
CHECK_DEADLOCK FALSE
