CONSTANTS
    Byte = {0, 1}
    MaxLen = 3
    MaxRoom = 1
SPECIFICATION SkbSpec
INVARIANTS
    AlarmIsTrue
PROPERTIES
    LayoutHidden
    NeverLessWritable
CHECK_DEADLOCK FALSE
