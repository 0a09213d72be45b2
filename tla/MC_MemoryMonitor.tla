-------------------------- MODULE MC_MemoryMonitor --------------------------
(* Two serving containers of static_memory.py with INSTANCE_NUM = 2: one  *)
(* below a GiB, shown in MiB, and one of 2 GiB, shown as 2GiB.            *)
EXTENDS MemoryMonitor, TLC

CONSTANTS c1, c2

MC_Containers == {c1, c2}
MC_Usage == (c1 :> 512) @@ (c2 :> 2048)

=============================================================================
