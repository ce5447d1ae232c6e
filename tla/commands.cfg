SPECIFICATION Spec
CONSTANTS
    None = None
    Unreadable = Unreadable
    Blank = Blank
    Garbled = Garbled
    Opaque = Opaque
    Pids = {1, 2}
    Inodes = {"i1", "i2", "i3"}
    Port = 3000
    People <- MCPeople
    Places <- MCPlaces
    Files <- MCFiles
    Texts <- MCTexts
    Beginnings <- MCBeginnings
INVARIANTS HolderHeld RestingHolderFound OneVerdict FlagsObeyed
PROPERTIES CommittedClean
