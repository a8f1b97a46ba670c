SPECIFICATION PumpSpec
CONSTANTS
    Streams <- MCStreams
    Capacity = 1
INVARIANTS
    UnitsArePictures
    PiecesInOrder
PROPERTIES
    NoPictureIsHeldBack
    PumpEnds
CHECK_DEADLOCK FALSE
