SPECIFICATION Spec
CONSTANTS
    a = a
    b = b
    site = site
    other = other
    settings = settings
    vm = vm
    r1 = r1
    r2 = r2
    s1 = s1
    s2 = s2
    h1 = h1
    h2 = h2
    out = out
    doc = doc
    Malformed = Malformed
    NoOutput = NoOutput
    Failed = Failed
    NoState = NoState
    NoPlan = NoPlan
    NoDerivation = NoDerivation
    NoContent = NoContent
    Torn = Torn
    FirstRevision = r1
    FirstContent = s1
    MainOutput = out
    Instances = {a, b}
    Configurations = {site}
    Arguments = {settings, vm}
    InputOf <- SharedFile
    Revisions = {r1}
    Edits <- Frozen
    Contents = {s1}
    SecretEdits <- Frozen
    Hosts = {h1, h2}
    ConfigsOf <- FixedConfigs
    OutputNames = {out}
    Retries = 0
INVARIANTS
    RecordsOwnBuild
