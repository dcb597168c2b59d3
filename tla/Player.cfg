SPECIFICATION Spec
CONSTANTS
    Baselines = {b1, b2}
    Pids = {p1, p2}
    MaxStarts = 3
    MaxFaults = 1
    MaxStales = 2
    MaxCrashes = 1
    None = None
SYMMETRY Symmetry
INVARIANTS TypeOK OnePlayerPerBaseline StoppedMeansAbsent NoForgottenPlayer
CHECK_DEADLOCK FALSE
PROPERTY StopsOnlyLaunched
