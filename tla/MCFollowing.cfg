\* Two characters who may share a voice, a group, a venue and a reader with two presets.
SPECIFICATION Spec
CONSTANTS
    c1 = c1
    c2 = c2
    a1 = a1
    g1 = g1
    v1 = v1
    p1 = p1
    p2 = p2
    Character = {c1, c2}
    Artist = {a1}
    Group = {g1}
    Venue = {v1}
    User = {u1}
    Preset = {p1, p2}
    None = None
    Follows0 <- StartFollows
    MaxSaves = 2
    MaxSettings = 1
PROPERTIES NewsReachesFollowers PerformerStays TunedBeatsDefault
CHECK_DEADLOCK FALSE
