\* Two artists and the feeds, one event, one concert.
SPECIFICATION Spec
CONSTANTS
    Artist = {1, 2}
    Event = {e1}
    Concert = {c1}
    NoConcert = NoConcert
    MaxEdits = 2
    MaxClicks = 2
    MaxHiccups = 1
INVARIANT AnnouncedOnce
PROPERTIES SweepsAreOwed EveryEventSurfaces HeldLeadsClose
