SPECIFICATION FairSpec
CONSTANTS
    Clients = {c1, c2}
    MaxRequests = 2
    MaxGen = 2
    MaxInterval = 1
INVARIANT SuccessMeansServed
INVARIANT ForceHonoured
PROPERTY ServesRequests
PROPERTY SuccessIsCurrent
PROPERTY WaitConverges
