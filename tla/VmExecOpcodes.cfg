CONSTANTS
    Modules <- MCModules
    Mains = {"params", "data", "outside", "paths", "dynamic", "deco", "twice", "wrapped"}
    Partials <- MCFewPartials
    Contexts = {"c1", "c2"}
    StackSize = 5
    Cache = "simple"
    AppCatches = {TRUE, FALSE}
    Compat = TRUE
    Rewritten = {"c"}
    HelpersThrow = TRUE
    MaxRuns = 1
    MaxExecutes = 1
    MaxHeight = 6
SPECIFICATION Spec
INVARIANTS
    CallerIntact
