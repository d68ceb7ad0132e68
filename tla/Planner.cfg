CONSTANTS
    Bare = {1, 2, 5}
    Through = {3}
    Hosts = {4}
    Shapes <- MCShapes
    Drawn = {1000, 2000, 3000}
    Members <- MCMembers
    Groups = {1, 2}
    HandPipes <- MCHandPipes
    Boards <- MCBoards
    MaxEdits = 1
    MaxTurns = 4
    MaxTurnsEdited = 2
SPECIFICATION Spec
INVARIANTS LoadsBack NothingRefused PictureKept RoundTrip
PROPERTY NothingLeftBehind
CHECK_DEADLOCK FALSE
