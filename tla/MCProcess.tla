----------------------------- MODULE MCProcess -----------------------------
(* The system calls that the processes of each run of Process use.         *)
EXTENDS Process

(* Init starts processes and waits for them.                               *)
FamilyOps ==
  [p \in Pids |-> IF p = 1 THEN Calls \ {"shutdown"} ELSE {"touch", "exit"}]

(* The child of init has children as well.                                 *)
OrphanOps ==
  [p \in Pids |-> IF p = 1 THEN {"create", "start", "wait"}
                  ELSE IF p = 2 THEN {"create", "start", "exit"} ELSE {"exit"}]

(* The child of init shuts the machine down.                               *)
ShutdownOps ==
  [p \in Pids |-> IF p = 1 THEN Calls \ {"shutdown", "exit", "poll"}
                  ELSE {"shutdown", "touch", "exit"}]

(* Init starts a process while the machine is being shut down.             *)
StartOps ==
  [p \in Pids |-> IF p = 1 THEN {"create", "start", "ignore", "wait"}
                  ELSE IF p = 2 THEN {"shutdown"} ELSE {}]

Family == [ops |-> FamilyOps, maxPid |-> 3, maxSig |-> 1, fair |-> TRUE, nomem |-> FALSE]
SmallFamily == [Family EXCEPT !.maxPid = 2]
PoorFamily == [SmallFamily EXCEPT !.nomem = TRUE]
Orphan == [Family EXCEPT !.ops = OrphanOps]
Stop == [Family EXCEPT !.ops = ShutdownOps, !.maxPid = 2, !.fair = FALSE, !.nomem = TRUE]
Start == [Stop EXCEPT !.ops = StartOps, !.maxPid = 3, !.maxSig = 0]

AllConfigs == {Family, PoorFamily, Orphan, Stop, Start}
FamilyConfigs == {Family}
SmallConfigs == {SmallFamily}
OrphanConfigs == {Orphan}
StopConfigs == {[Stop EXCEPT !.fair = TRUE, !.nomem = FALSE]}
StartConfigs == {[Start EXCEPT !.nomem = FALSE]}
=============================================================================
