---------------------------- MODULE MemoryMonitor ----------------------------
(***************************************************************************)
(* The memory measurement loop of src/scripts/total_memory.py, with the   *)
(* parsing of `docker stats` it shares with src/scripts/static_memory.py. *)
(* Every cycle it lists the serving containers with `docker ps`, runs     *)
(* `docker stats --no-stream` on each, takes the MEM USAGE field of the   *)
(* second output line, strips its unit letters, adds the numbers up and   *)
(* appends the total to output.txt. static_memory.py runs beside it: it   *)
(* starts INSTANCE_NUM serving containers, measures each the same way,    *)
(* adds the numbers into MEMS and stops them again.                       *)
(*                                                                         *)
(* A text is a sequence of one-character strings; a line split on         *)
(* whitespace is a sequence of such texts.                                *)
(***************************************************************************)
EXTENDS Integers, Sequences, SequencesExt

CONSTANTS
    Containers,  \* ids of the serving containers that may run
    Usage,       \* Usage[c]: the memory c uses, in MiB
    InstanceNum, \* INSTANCE_NUM, the containers static_memory.py runs
    MaxLines     \* bound on the lines written to output.txt

\* docker prints sizes with go-units' binary units; the usages chosen are
\* whole numbers in the unit docker picks
ASSUME \A c \in Containers : Usage[c] \in Nat /\ (Usage[c] >= 1024 => Usage[c] % 1024 = 0)

DigitChar == <<"0", "1", "2", "3", "4", "5", "6", "7", "8", "9">>
Letters   == {"B", "K", "M", "G", "i"}

RECURSIVE Digits(_)
Digits(n) == IF n < 10 THEN <<DigitChar[n + 1]>>
             ELSE Digits(n \div 10) \o <<DigitChar[(n % 10) + 1]>>

\* docker's MEM USAGE field: the size in the largest binary unit below it
DockerSize(mib) == IF mib >= 1024 THEN Digits(mib \div 1024) \o <<"G", "i", "B">>
                   ELSE Digits(mib) \o <<"M", "i", "B">>

\* The stdout of `docker stats --no-stream c`, as lines split into fields:
\* a header and one row, or nothing at all once c has stopped (the error
\* goes to stderr), which "".split('\n') turns into one empty line.
Header == <<<<"C">>, <<"N">>, <<"%">>, <<"M">>>>
StatsOutput(c, running) ==
    IF c \in running
    THEN <<Header, <<<<"i", "d">>, <<"n">>, <<"0", "%">>, DockerSize(Usage[c]),
                     <<"/">>, <<"1", "G", "i", "B">>>>>>
    ELSE <<<<>>>>

\* transform: field [3] of line [1] (0-based), then `while out[-1].isalpha()`
RECURSIVE StripAlpha(_)
StripAlpha(s) == IF s # <<>> /\ s[Len(s)] \in Letters
                 THEN StripAlpha(SubSeq(s, 1, Len(s) - 1)) ELSE s

transform(out) == StripAlpha(out[2][4])

\* float() of a text of digits
ParseNum(s) ==
    FoldLeft(LAMBDA n, ch : 10 * n + (CHOOSE d \in 0..9 : DigitChar[d + 1] = ch), 0, s)

VARIABLES
    running,   \* containers running now (started with --rm: a stopped one is gone)
    started,   \* containers that have been started (ids are not reused)
    mpc,       \* total_memory.py: "list", "measure", or "dead" after an exception
    todo,      \* containers of this cycle's listing not measured yet
    total,     \* total_memory
    lines,     \* output.txt: one record per line written
    actual,    \* history: the real MiB of the containers measured this cycle
    spc,       \* static_memory.py: "construct", "measure", "deconstruct", "done"
    instances, \* instances: the containers it started, in order
    si,        \* index of the instance its current loop is at
    MEMS,      \* MEMS
    sactual    \* history: the real MiB of the instances it measured

vars == <<running, started, mpc, todo, total, lines, actual,
          spc, instances, si, MEMS, sactual>>
static == <<spc, instances, si, MEMS, sactual>>

\* The float of what measure_mem_stats(c) returns, for c's stats output.
Measured(out) == ParseNum(transform(out))

\* get_current_running_containers, then total_memory = 0.0
List ==
    /\ mpc = "list"
    /\ Len(lines) < MaxLines
    /\ todo' = running
    /\ total' = 0
    /\ actual' = 0
    /\ mpc' = "measure"
    /\ UNCHANGED <<running, started, lines>> /\ UNCHANGED static

\* One iteration of the for loop: measure_mem_stats and float. For a
\* container that stopped after the listing, indexing the second line
\* raises IndexError and nothing catches it.
Measure(c) ==
    /\ mpc = "measure"
    /\ c \in todo
    /\ todo' = todo \ {c}
    /\ LET out == StatsOutput(c, running)
       IN IF Len(out) < 2
          THEN /\ mpc' = "dead"
               /\ UNCHANGED <<total, actual>>
          ELSE /\ total' = total + Measured(out)
               /\ actual' = actual + Usage[c]
               /\ UNCHANGED mpc
    /\ UNCHANGED <<running, started, lines>> /\ UNCHANGED static

\* print, append the line to OUTPUT_FILE, flush, sleep
Write ==
    /\ mpc = "measure"
    /\ todo = {}
    /\ lines' = Append(lines, [reported |-> total, actual |-> actual])
    /\ mpc' = "list"
    /\ UNCHANGED <<running, started, todo, total, actual>> /\ UNCHANGED static

\* static_memory.py, first loop: construct_runtime (docker run -itd --rm)
\* for each of the INSTANCE_NUM instances; docker picks a fresh id.
construct_runtime ==
    /\ spc = "construct"
    /\ \E c \in Containers \ started :
         /\ running' = running \cup {c}
         /\ started' = started \cup {c}
         /\ instances' = Append(instances, c)
    /\ spc' = IF Len(instances') = InstanceNum THEN "measure" ELSE "construct"
    /\ UNCHANGED <<si, MEMS, sactual>>
    /\ UNCHANGED <<mpc, todo, total, lines, actual>>

\* Second loop: MEMS += float(measure_mem_stats(instance))
StaticMeasure ==
    /\ spc = "measure"
    /\ LET c == instances[si] IN
         /\ MEMS' = MEMS + Measured(StatsOutput(c, running))
         /\ sactual' = sactual + Usage[c]
    /\ si' = IF si = InstanceNum THEN 1 ELSE si + 1
    /\ spc' = IF si = InstanceNum THEN "deconstruct" ELSE "measure"
    /\ UNCHANGED <<running, started, instances>>
    /\ UNCHANGED <<mpc, todo, total, lines, actual>>

\* Third loop: deconstruct_runtime (docker stop), then the report
deconstruct_runtime ==
    /\ spc = "deconstruct"
    /\ running' = running \ {instances[si]}
    /\ si' = IF si = InstanceNum THEN 1 ELSE si + 1
    /\ spc' = IF si = InstanceNum THEN "done" ELSE "deconstruct"
    /\ UNCHANGED <<started, instances, MEMS, sactual>>
    /\ UNCHANGED <<mpc, todo, total, lines, actual>>

Init ==
    /\ running = {} /\ started = {}
    /\ mpc = "list" /\ todo = {} /\ total = 0 /\ lines = <<>> /\ actual = 0
    /\ spc = "construct" /\ instances = <<>> /\ si = 1 /\ MEMS = 0 /\ sactual = 0

Next ==
    \/ List \/ Write \/ construct_runtime \/ StaticMeasure \/ deconstruct_runtime
    \/ \E c \in Containers : Measure(c)

Spec == Init /\ [][Next]_vars

-----------------------------------------------------------------------------

\* Every line of output.txt is the memory, in MiB, of the serving
\* containers total_memory.py measured in that cycle, and the "total mems"
\* static_memory.py prints is the memory of its instances: the number
\* each script reports is the sum of the usages docker stats shows.
ReportedIsUsage ==
    /\ \A i \in DOMAIN lines : lines[i].reported = lines[i].actual
    /\ spc = "done" => MEMS = sactual

\* total_memory.py's `while True` loop never ends: whatever containers the
\* benchmarks start and stop (static_memory.py stops its instances with
\* docker stop, OpenFaaS scales functions down), the monitor keeps
\* measuring and writing output.txt.
MonitorKeepsRunning == mpc # "dead"

=============================================================================
