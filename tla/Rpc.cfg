SPECIFICATION Spec
CONSTANTS
    Clients = {c1, c2}
    Objects = {o1, o2}
    Nobody = Nobody
    ClientSlots = 2
    SandboxSlots = 4
INVARIANTS
    AssertionsHold
    CapabilitiesInPlace
PROPERTIES
    ImplementsService
    CallsReturn
CHECK_DEADLOCK FALSE
