\* The tick against concurrent edits, failures and crashes.
SPECIFICATION Spec
CONSTANTS
    u1 = u1
    u2 = u2
    Reminder = {1, 2}
    Notice = {3, 4}
    Digest = {4}
    User = {u1, u2}
    owner <- Owners
    Limit <- Limits
    MaxArms = 4
    MaxHiccups = 1
INVARIANT DuplicatesOnlyByAbort
PROPERTIES KeepsThePromise Drained
