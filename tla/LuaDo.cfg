SPECIFICATION Spec
CONSTANTS
    Main = "main"
    Coroutines = {"co1", "co2"}
    WrapOf <- MCWrapOf
    MaxFrames <- MCMaxFrames
    MaxCcalls = 5
    Locals <- MCLocals
    MayCall <- MCMayCall
    Bodies = {"L"}
    Protected <- MCProtected
INVARIANTS StatusTruth YieldsAreSafe
PROPERTY ImplementsCoroutines
