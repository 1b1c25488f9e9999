\* One production and two admins, two drafts, two presses, one pasted page.
SPECIFICATION Spec
CONSTANTS
    Production = {p1}
    Pasted = pasted
    Admin = {a1, a2}
    MaxDrafts = 2
    MaxPresses = 2
    MaxReads = 1
    MaxHiccups = 1
INVARIANTS NoSecondCopy PaidOnce
PROPERTIES LadderReplacedOnlyByRace RunsEnd
