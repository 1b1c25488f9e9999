\* The outbox under edits, presses, snoozes and ticks.
SPECIFICATION Spec
CONSTANTS
    r1 = r1
    r2 = r2
    r3 = r3
    d1 = d1
    d2 = d2
    NoTime = NoTime
    AllRounds = AllRounds
    Round = {r1, r2, r3}
    Day = {d1, d2}
    InitialConcert <- TourConcert
    RuleChoice <- ClosesRule
    Preset <- ShowRule
    ArmLead = 0
    SnoozeDays = {1}
    AnswerRounds = {r1}
    FlatOutcomes = {"WON", "LOST"}
    LegPresses = {}
    LegToggles = {}
    EditKinds = {"deadline", "start", "cancel", "legs", "rounds", "days"}
    EditTimes = {4, NoTime}
    MaxTime = 3
    MaxEdits = 1
INVARIANTS OneRowPerTarget PlanIsQueued NothingElsePending
PROPERTIES NeverRepeated NoticeIsTrue
