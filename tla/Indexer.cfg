SPECIFICATION FairSpec
CONSTANTS
    None = None
    song = song
    text = text
    Proc = {p1, p2}
    File = {song, text}
    Claimed = {song}
    Targets <- MCTargets
    MaxClock = 1
    MaxWrites = 2
    MaxFailures = 1
INVARIANTS
    CurrentIsLeftAlone
PROPERTY
    Settles
