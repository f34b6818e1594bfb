CONSTANTS
    NULL = NULL
    Bytes = {"a", "b"}
    NUL = "nul"
    Texts <- MCTexts
    CSets <- MCCSets
    Incrs <- MCIncrs
    RangeArgs <- MCRangeArgs
    MapArgs <- MCMapArgs
    GrowLens = {1, 3}
    AddLens = {1, 3}
    Garbage = {"a", "b", "nul"}
    SDS_MAX_PREALLOC = 3
    MaxLen = 3

SPECIFICATION TrimNulSpec

PROPERTIES
    SdsRefinement
