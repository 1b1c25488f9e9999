\* Round watch and the round poll under reviews and an editor.
SPECIFICATION Spec
CONSTANTS
    a = a
    b = b
    Key = {a, b}
    label <- SameLabel
    opens <- Openings
    EndTime = {0, 1}
    FirstRound <- Lottery
    Press = {1, 2}
    ShowDay = 2
    MaxTime = 2
    MaxPage = 1
    MaxRounds = 3
    MaxEvents = 1
INVARIANTS HandledOnce ReadingsWait
PROPERTIES OneNoticePerSpell SpellsAreAnnounced DismissalSticks
