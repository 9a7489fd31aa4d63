\* One part of the content at a time.
SPECIFICATION FairSpec
CONSTANTS
    Plain = {x}
    FromSecret = {y}
    ForeignVars = {x}
    Values = {v1, v2}
    GenNames = {g}
    OwnKeys = {d}
    ForeignKeys = {d}
    MaxDrops = 1
    Tokens = {t1, t2, t3}
    Files = {f, n}
    NestedFiles = {n}
    Focuses = {{x, y, v1}, {y, v1, v2}, {g, d}, {t1, t2, t3}, {f, n}}
    None = None
INVARIANTS TypeOK AtRestInStep
PROPERTIES
    ValidTokenStays
    ForeignContentStays
    RotatedValueArrives
    VariablesGetInStep
    AppliedVariablesGo
    AccessTokenRenewed
    KeysGetInStep
    TemplateFilesGetInStep
