CONSTANTS
    NodeCount = 4
    XS = {10, 50, 90}
    BASE = 14
SPECIFICATION Spec
INVARIANT StaggerMatchesSpec
