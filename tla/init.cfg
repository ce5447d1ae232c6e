SPECIFICATION SetupSpec
CONSTANTS
    None = None
    Absent = Absent
    Broken = Broken
    Foreign = Foreign
    Shell = Shell
    PortTexts <- Texts
    Situations <- Everywhere
    Reworked <- Worked
    Requested <- Ports
    Addresses <- Answers
INVARIANTS RefusalChangesNothing SetUp TwiceChangesNothing InitThenDev ListensWhereSaid
PROPERTY TheirsKept
