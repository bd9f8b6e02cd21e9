\* One target, counters up to 5, six seconds, a one-slot notify channel.
CONSTANTS
    Targets = {t1}
    Conditions <- MCConditions
    Intervals = {0, 2, 3600}
    MaxTotal = 5
    MaxTime = 6
    NotifyCap = 1
    None = None
SPECIFICATION Spec
INVARIANT TypeOK
INVARIANT RepeatThrottled
INVARIANT EpisodeIdentity
