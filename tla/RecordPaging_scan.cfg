SPECIFICATION Spec
CONSTANTS
    Null = Null
    Field = {"id", "ref", "name", "pin"}
    Visible <- MCVisible
    PrimaryKey <- MCKey
    Numeric = {"id", "ref"}
    Text = {"name"}
    SourceFields <- MCSource
    TargetFields <- MCTarget
    Row <- MCRow
    Query <- MCQuery
    Limits = {1, 2}
    MaxOffset = 2
    MaxVersion = 1
    MaxWrites = 1
INVARIANTS
    OneQueryPerScan
    PagesTile
    DepthBounded
    HiddenHasNoInfluence
    CountsCanBeFollowed
    RelationsGoBothWays
