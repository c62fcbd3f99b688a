\* A template's way from its AST to a module, over a set of small templates.
CONSTANTS
    KnownHelpers = {"if"}
    CompilerStackSize = 64
    Asts <- MCAsts
    FlagSets <- MCFlagSets
    Addresses <- MCAddresses
    WordSize = 8
    HeaderSize = 96
    EntrySize = 24
    OpcodeSize = 120
    StringSize = 24
    TextLength <- MCTextLength
    CommandLines <- MCCommandLines
    Files <- MCFiles
    Stdin <- MCStdin
SPECIFICATION CliSpec
INVARIANTS
    OperandDiscipline
    ModuleReadsBack
    ImageReadsBack
    ExitTells
\* a template that could not be compiled is done with, and a program ends
CHECK_DEADLOCK FALSE
