\* static_memory.py and total_memory.py running together: a report that
\* adds docker's MiB and GiB figures as if they were the same unit
CONSTANTS
    c1 = c1
    c2 = c2
    Containers <- MC_Containers
    Usage <- MC_Usage
    InstanceNum = 2
    MaxLines = 2
SPECIFICATION Spec
INVARIANT ReportedIsUsage
\* both scripts end: static_memory.py after its report, the monitor at the
\* bound on lines or after an uncaught exception
CHECK_DEADLOCK FALSE
