SPECIFICATION SetupSpec
CONSTANTS
    None = None
    Absent = Absent
    Broken = Broken
    Foreign = Foreign
    Shell = Shell
    PortTexts <- Texts
    Situations <- Ported
    Reworked <- Worked
    Requested <- Ports
    Addresses <- Answers
INVARIANT ListensWhereSaid
