SPECIFICATION Operated
CONSTANTS
    a = a
    b = b
    key = key
    token = token
    none = none
    old = old
    new = new
    salt = salt
    pepper = pepper
    NoFingerprint = NoFingerprint
    NoPlan = NoPlan
    Torn = Torn
    Missing = Missing
    Instances = {a}
    Sources = {key, token}
    Values = {none, old, new}
    Empty = none
    FirstValue <- FirstAnswers
    Edits <- OneWay
    Layouts <- Blocks
    LayoutEdits <- Growth
    Salts = {salt, pepper}
    Draws <- Drawn
    Limit = 2
    Retries = 1
INVARIANTS
    TypeOK
    RecordedIsShipped
    NoticesExactly
    LeavesOnlyDiffs
    SecretsInvariant
    ModesAsWritten
PROPERTIES
    NeverPanicsWithRoom
    Converges
