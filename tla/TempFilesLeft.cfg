SPECIFICATION Spec
CONSTANTS
    a = a
    b = b
    n1 = n1
    n2 = n2
    n3 = n3
    n4 = n4
    n5 = n5
    NoFile = NoFile
    Left = Left
    Instances = {a, b}
    Names <- AnyName
    SettingOf <- TwoConfigured
SYMMETRY Symmetry
INVARIANTS
    NothingLeft
