SPECIFICATION FairSpec
CONSTANTS
    Topics = {t}
    MaxRetries = 2
    MaxEvents = 3

PROPERTY StopEnds
\* A run that is over, or a program that was terminated, makes no step.
CHECK_DEADLOCK FALSE
