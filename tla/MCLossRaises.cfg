\* Can a loss always be recorded?
SPECIFICATION Spec
CONSTANTS
    r1 = r1
    r2 = r2
    r3 = r3
    d1 = d1
    d2 = d2
    NoTime = NoTime
    AllRounds = AllRounds
    Round = {r1, r2, r3}
    Day = {d1, d2}
    InitialConcert <- ResultsOnlyConcert
    RuleChoice = {}
    Preset = {}
    ArmLead = 0
    SnoozeDays = {}
    AnswerRounds = {r1, r2}
    FlatOutcomes = {"APPLIED", "NOT_APPLIED", "PAID"}
    LegPresses = {d1, d2}
    LegToggles = {d1, d2}
    EditKinds = {}
    EditTimes = {}
    MaxTime = 0
    MaxEdits = 0
CHECK_DEADLOCK FALSE
INVARIANTS NeverFails
