SPECIFICATION Spec
CONSTANTS
    g1 = g1
    g2 = g2
    g3 = g3
    video = video
    poster = poster
    Groups = {g1, g2, g3}
    Files = {video, poster}
    Primary = video
    ChunkSize = 2
    MaxFaults = 3
    None = None
INVARIANTS
    RowsAreTrue
    ReorganizeRecovers
    CompleteMoveIsWhole
    FormatIsLast
PROPERTIES
    RowIsNotAhead
CHECK_DEADLOCK FALSE
