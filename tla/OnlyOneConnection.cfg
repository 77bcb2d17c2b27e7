\* The callback of the first link makes room for the third beside the second.
SPECIFICATION Spec
CONSTANTS
    Links = {l1, l2, l3}
    NoLink = NoLink
    Ghost = Ghost
SYMMETRY LinkSymmetry
INVARIANT OnlyOneConnection
CHECK_DEADLOCK FALSE
