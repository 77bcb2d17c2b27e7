\* Two links: a callback of the first can meet the connection of the second.
SPECIFICATION FairSpec
CONSTANTS
    Links = {l1, l2}
    NoLink = NoLink
    Ghost = Ghost
INVARIANT TypeOK
PROPERTIES GivesUpOnlyTheDead KeepsConnectingUnlessStuck
\* The connector ends when stopped.
CHECK_DEADLOCK FALSE
