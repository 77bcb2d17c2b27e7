\* One caller whose abandoned requests compete with its next ones.
SPECIFICATION FairSpec
CONSTANTS
    Clients = {c1}
    Threads = {t1, t2}
    Dio1 = {"irid"}
    Bus = {}
    Pwr = {"pc104"}
    Commands <- Retried
    None = None
PROPERTIES ServedUnlessLeaked CallsReturn
