\* static_memory.py stops a container that total_memory.py has listed but
\* not yet measured
CONSTANTS
    c1 = c1
    c2 = c2
    Containers <- MC_Containers
    Usage <- MC_Usage
    InstanceNum = 2
    MaxLines = 2
SPECIFICATION Spec
INVARIANT MonitorKeepsRunning
\* both scripts end: static_memory.py after its report, the monitor at the
\* bound on lines or after an uncaught exception
CHECK_DEADLOCK FALSE
