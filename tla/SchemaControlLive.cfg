SPECIFICATION FairSpec
CONSTANTS
    g1 = g1
    g2 = g2
    l1 = l1
    l2 = l2
    w1 = w1
    None = None
    Agent = {g1, g2}
    Actor = {l1, l2, w1}
    AgentOf <- MCAgentOf
    Watcher = {w1}
    NLineage = 2
    MaxVersion = 1
    Shipped = {1}
    MaxFaults = 1
INVARIANTS
    SuccessMeansMigrated
PROPERTIES
    TransitionEnds
CHECK_DEADLOCK FALSE
