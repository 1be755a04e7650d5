SPECIFICATION Spec
CONSTANTS
    a = a
    b = b
    n1 = n1
    n2 = n2
    n3 = n3
    n4 = n4
    n5 = n5
    NoFile = NoFile
    Left = Left
    Instances = {a, b}
    Names <- AnyName
    SettingOf <- BastionAndBare
SYMMETRY Symmetry
INVARIANTS
    CommandsFindTheirFiles
    LeavesOnlyKnownFiles
    OneRemover
    FilesInvariant
