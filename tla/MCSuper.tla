------------------------------- MODULE MCSuper -------------------------------
EXTENDS Super

AllControllers == {"cases", "hf", "fg", "htr", "gps", "irid", "comm"}
=============================================================================
