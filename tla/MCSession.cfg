SPECIFICATION FairSpec
CONSTANTS
    MaximumSessionUses = 2
    Topics = {t}
    Keys = {k, l}
    MaxSessions = 2
    MaxReceives = 1
    MaxSends = 1
    MaxResets = 2
INVARIANTS NumbersNotReused UselessSessionExpires DiscardedNotResumed
PROPERTY ForgottenSessionGivenUp
