CONSTANTS
    Documents <- MCDocuments
    Templates <- MCTemplates
SPECIFICATION Spec
INVARIANTS
    EachVisitsAll
    SourcesAgree
    MarksAccounted
