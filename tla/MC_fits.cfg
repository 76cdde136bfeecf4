\* FITS over every candidate list of up to three rows with sizes 0..2 and
\* every initial free space 0..3, so rows that exactly fill the space, empty
\* files and rows that no longer fit after an earlier one all occur.
CONSTANTS
    Sizes = {0, 1, 2}
    MaxRows = 3
    MaxFree = 3
SPECIFICATION Spec
CHECK_DEADLOCK FALSE
INVARIANTS TypeOK FitsIsFirstFit
