\* One command is enough.
SPECIFICATION Spec
CONSTANTS
    Clients = {c1}
    Threads = {t1, t2}
    Dio1 = {"irid"}
    Bus = {"irid"}
    Pwr = {"pc104"}
    Commands <- Retried
    None = None
PROPERTY NoneMeansNotDone
