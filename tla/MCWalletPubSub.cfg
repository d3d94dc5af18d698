SPECIFICATION PubSubFairSpec
CONSTANTS
    u1 = u1
    u2 = u2
    None = None
    Users = {u1, u2}
    MaxNames = 2
    Last = 1
    Capacity = 1
    MaxFaults = 2
    MaxTasks = 1
CHECK_DEADLOCK FALSE
INVARIANT CountsItsUsers
 
