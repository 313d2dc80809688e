SPECIFICATION Spec
CONSTANTS
    None = None
    Disturbances = {"certificates", "config"}
    MaxDisturbances = 2
INVARIANTS TlsTerminated
