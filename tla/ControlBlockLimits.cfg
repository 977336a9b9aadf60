CONSTANTS
    Handles = {h1, h2}
    Members = {}
SPECIFICATION Spec
CHECK_DEADLOCK FALSE
INVARIANT DestructorOnLiveMemory
INVARIANT FreedOnce
