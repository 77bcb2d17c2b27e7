\* Two requests at once, and the main thread that shuts the board down.
SPECIFICATION Spec
CONSTANTS
    Clients = {c1}
    Threads = {t1, t2}
    Dio1 = {"irid"}
    Bus = {"irid"}
    Pwr = {"usb", "pc104"}
    Commands <- Switching
    None = None
INVARIANTS TypeOK RefreshIsSnapshot
PROPERTY KeepsPromise
SYMMETRY HwSymmetry
