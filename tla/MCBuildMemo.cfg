SPECIFICATION FairMemoSpec
CONSTANTS
    a = a
    b = b
    c = c
    site = site
    other = other
    settings = settings
    r1 = r1
    r2 = r2
    r3 = r3
    Instances = {a, b, c}
    Configurations = {site, other}
    Arguments = {settings}
    InputOf <- MCInputOf
    Revisions = {r1, r2, r3}
    FirstRevision = r1
    Edits <- AnyEdit
    Malformed = Malformed
    NoOutput = NoOutput
    Failed = Failed
INVARIANTS
    MemoTypeOK
    MemoInvariant
PROPERTIES
    ImplementsService
    AnswersEveryCall
