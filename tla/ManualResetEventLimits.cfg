CONSTANTS
    Threads = {t1, t2}
    Timeouts = {1, 2}
    Jumps = {1}
    Joined = FALSE
SPECIFICATION FairSpec
INVARIANT UsedWhileThere
PROPERTY NeverEarly
PROPERTY SetMeansTrue
