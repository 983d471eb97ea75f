SPECIFICATION FairSpec
CONSTANTS
    Level = {1, 2}
    Unset = Unset
    Scenario = {steady}
    Off = Off
    Boot <- MCBoot
    HistoryCap = 1
    MaxInFlight = 2
    MaxCommands = 2
    MaxOthers = 1
    MaxFaults = 1
    Sessions <- MCSessions
INVARIANTS
    TypeOK
    FlagsTellTheWire
    GreenMeansTaken
    OneGenerator
PROPERTIES
    ConsoleCatchesUp
    WatchedSettingsFollow
