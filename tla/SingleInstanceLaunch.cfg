SPECIFICATION FairSpec
CONSTANTS
    Instances = {a, b}
    Endings = {}
    None = None
PROPERTY LaunchOpensManager
CHECK_DEADLOCK FALSE
