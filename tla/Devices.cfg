CONSTANTS
    Thread = {t1, t2}
    LhdThread = {t1, t2}
    ConThread = {t1, t2}
    EmuThread = {t1, t2}
    Nobody = Nobody  None = None
    NSECT = 2  LHD_SECTSIZE = 2  Data = {0, 1}  MaxLen = 2
    CONSOLE_INPUT_BUFFER_SIZE = 3  MaxTyped = 3  MaxIO = 2
    Handle = {1, 2}  EMU_RETRIES = 1
    MaxDepth = 2
    Workloads <- MCWorkloads
SPECIFICATION Spec
CONSTRAINT Bounded
INVARIANTS TransferFaithful WritePermission  HandlesMatch
SYMMETRY Symmetry
