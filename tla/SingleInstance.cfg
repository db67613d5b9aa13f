SPECIFICATION FairSpec
CONSTANTS
    Instances = {a, b, c}
    Endings = {"quit", "die"}
    None = None
INVARIANTS
    TypeOK
    NoStaleActivation
PROPERTY RequestAnswered
