SPECIFICATION Spec
CONSTANTS
    Devices = {d1, d2}
    None = None
    OPERATIONS = 2
    EVENTS = 1
INVARIANTS
    TypeOK
    FormatsAsConfirmed
    OneOperation
    SuccessMeansDone
PROPERTY
    ControlsReturn
