SPECIFICATION Spec
CONSTANTS
    MaxLaunches = 2
    MaxCommands = 3
    MaxFaults = 1
    LaunchesOf <- MCLaunchesOf
    CommandsOf <- MCCommandsOf
    FaultsOf <- MCFaultsOf
    MaxSpawns = 4
    MaxTries = 2
    MaxStarts = 4
    Notebooks = {a}
INVARIANTS
    SkillIsKept
    
    
PROPERTIES
    DesktopSettles
CHECK_DEADLOCK FALSE
