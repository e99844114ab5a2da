SPECIFICATION Spec
CONSTANTS
    MaximumSessionUses = 3
    Topics = {t}
    Keys = {k}
    MaxSessions = 2
    MaxReceives = 2
    MaxSends = 1
    MaxResets = 2
INVARIANTS SkippedOnlyIfSent
