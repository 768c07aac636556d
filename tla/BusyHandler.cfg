SPECIFICATION Spec
CONSTANTS
    None = None
    Conn = {c1, c2}
    BUSY_RETRIES = 3
INVARIANT
    RetriesBeforeBusy
