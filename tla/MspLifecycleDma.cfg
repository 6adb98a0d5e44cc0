CONSTANTS
    N = 2
    Budget = 2
    OpenMayFail = FALSE
SPECIFICATION LifeSpec
INVARIANTS
    DmasStayDisabled
