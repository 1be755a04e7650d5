SPECIFICATION ConnectionsSpec
CONSTANTS
    v1 = v1
    v2 = v2
    s1 = s1
    s2 = s2
    Values <- TwoValues
    Offered <- Tried
    Rests <- Surroundings
    Secrets <- TwoSecrets
    Lists <- FewLists
    Root = Root
    Zero = Zero
    Nil = Nil
    Unset = Unset
    NoBlock = NoBlock
    NoEntry = NoEntry
    Blocks <- EveryBlock
    ProviderBlocks <- AnySide
INVARIANTS
    ResourceWins
    MapsAreExtended
    CollectsEverySecret
    MergesWhatIsWritten
    SshUserIsTheWritten
    WrittenReachesTheCommand
    OneWayToTheMachine
    BastionIsReachedDirectly
    BastionExtendsSsh
    OneMode
    NewSecretsFindsItsCommand
CHECK_DEADLOCK FALSE
