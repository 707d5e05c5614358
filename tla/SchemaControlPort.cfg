SPECIFICATION Spec
CONSTANTS
    g1 = g1
    g2 = g2
    l1 = l1
    l2 = l2
    w1 = w1
    None = None
    Agent = {g1, g2}
    Actor = {l1, l2, w1}
    AgentOf <- MCAgentOf
    Watcher = {w1}
    NLineage = 1
    MaxVersion = 2
    Shipped = {1}
    MaxFaults = 0
INVARIANT
    PortMeansMigrated
CHECK_DEADLOCK FALSE
