\* Whether a whole-round "won" is only offered where it secures something.
SPECIFICATION Spec
CONSTANTS
    r1 = r1
    r2 = r2
    r3 = r3
    d1 = d1
    d2 = d2
    NoTime = NoTime
    AllRounds = AllRounds
    Round = {r1, r2, r3}
    Day = {d1, d2}
    InitialConcert <- UpgradeConcert
    RuleChoice = {}
    Preset = {}
    ArmLead = 0
    SnoozeDays = {}
    AnswerRounds = {r1, r3}
    FlatOutcomes = {"APPLIED", "PAID"}
    LegPresses = {d1}
    LegToggles = {d2}
    EditKinds = {}
    EditTimes = {}
    MaxTime = 3
    MaxEdits = 1
    Horizon = 1
CHECK_DEADLOCK FALSE
INVARIANTS OfferedWinSecures
