CONSTANTS
    Modules <- MCModules
    Mains = {"main", "late"}
    Partials <- MCPartials
    Contexts = {"c1"}
    StackSize = 8
    Cache = "mmap"
    AppCatches = {FALSE}
    Compat = FALSE
    Rewritten = {}
    HelpersThrow = TRUE
    MaxRuns = 1
    MaxExecutes = 2
    MaxHeight = 30
SPECIFICATION Spec
INVARIANTS
    CallerIntact
    RegistersMatch
    JmpLive
    TemplatesUnwind
    FaultFree
    NullReported
PROPERTY
    ExecutionEnds
