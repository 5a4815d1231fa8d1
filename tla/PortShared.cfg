CONSTANTS
    PortTasks = {"sensor", "server"}
    MaxFrames = 1
SPECIFICATION PortSpec
INVARIANT CriticalSectionMasked
