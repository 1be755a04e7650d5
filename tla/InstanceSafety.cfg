SPECIFICATION Spec
CONSTANTS
    a = a
    b = b
    site = site
    other = other
    settings = settings
    vm = vm
    r1 = r1
    r2 = r2
    s1 = s1
    s2 = s2
    h1 = h1
    h2 = h2
    out = out
    doc = doc
    Malformed = Malformed
    NoOutput = NoOutput
    Failed = Failed
    NoState = NoState
    NoPlan = NoPlan
    NoDerivation = NoDerivation
    NoContent = NoContent
    Torn = Torn
    FirstRevision = r1
    FirstContent = s1
    MainOutput = out
    Instances = {a}
    Configurations = {site}
    Arguments = {settings}
    InputOf <- OneInput
    Revisions = {r1, r2}
    Edits <- OneEdit
    Contents = {s1, s2}
    SecretEdits <- OneSecretEdit
    Hosts = {h1, h2}
    ConfigsOf <- MovingConfig
    OutputNames = {out}
    Retries = 1
INVARIANTS
    TypeOK
    InSync
    DeployInvariant
    RecordedWasDeployed
PROPERTIES
    SwitchesWhenReady
