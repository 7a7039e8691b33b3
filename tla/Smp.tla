-------------------------------- MODULE Smp --------------------------------
(***************************************************************************)
(* How the CPUs of a machine get into the scheduler: smp_init_dtb and      *)
(* smp_poweron of kernel/cpu/riscv/src/smp.c (conf.plat = "riscv", where   *)
(* the boot loader holds the other harts) or of kernel/port/esp32p4/src/   *)
(* smp.c ("p4"), below sched_exec, sched_start_altcpus and sched_start_on  *)
(* of the scheduler.  conf.dtb lists the CPU nodes of the device tree in   *)
(* its order: a hart, and whether its ISA and MMU are usable.  conf.held   *)
(* are the harts of the boot loader's response.                            *)
(***************************************************************************)
EXTENDS Integers, Sequences, FiniteSets, SequencesExt

CONSTANT Configs

VARIABLES conf,
          node,    \* CPU nodes of the device tree that have been looked at
          count,   \* smp_count
          map,     \* smp_map: entries sorted by hart
          unmap,   \* smp_unmap: the entries sorted by CPU
          jumped,  \* CPUs that were taken over from the boot loader
          local,   \* what the CPU-local data of each hart says
          hart,    \* where each hart is
          info,    \* the hart that uses each scheduler context
          boot,    \* sched_start_altcpus: where it is, and its "i"
          stop

vars == <<conf, node, count, map, unmap, jumped, local, hart, info, boot, stop>>
tables == <<node, count, map, unmap>>

Harts == {conf.dtb[i].hart : i \in DOMAIN conf.dtb}
Usable == {conf.dtb[i].hart : i \in {j \in DOMAIN conf.dtb : conf.dtb[j].ok}}
Entry == [hart : Harts, cpu : 0 .. Len(conf.dtb)]

(* The types of the maps, of the harts and of the boot loop.               *)
TypeOK ==
  /\ conf \in Configs
  /\ node \in 0 .. Len(conf.dtb) /\ count \in 1 .. Cardinality(Usable)
  /\ map \in Seq(Entry) /\ unmap \in Seq(Entry)
  /\ jumped \subseteq 0 .. count - 1
  /\ local \in [Harts -> [hart : {0} \union Harts, cpu : 0 .. Len(conf.dtb)]]
  /\ hart \in [Harts -> {"held", "entry", "runs"}]
  /\ \A c \in DOMAIN info : c \in 0 .. count - 1 /\ info[c] \subseteq Harts
  /\ boot.at \in {"detect", "exec", "start", "wait", "done"}
  /\ boot.i \in 0 .. count
  /\ stop \in {"no", "overrun"}

(* Esp32p4 has two CPUs and no tables: the index is the number of the hart.*)
Fixed == IF conf.plat = "p4" THEN [i \in 1 .. 2 |-> [hart |-> i - 1, cpu |-> i - 1]]
         ELSE <<>>

(* Nothing fills in port_cpu0_local: the boot hart runs with cpuid 0.      *)
Init ==
  /\ conf \in Configs
  /\ node = Len(Fixed) /\ count = IF conf.plat = "p4" THEN 2 ELSE 1
  /\ map = Fixed /\ unmap = Fixed /\ jumped = {}
  /\ local = [h \in Harts |-> [hart |-> 0, cpu |-> 0]]
  /\ hart = [h \in Harts |-> IF h = conf.bsp THEN "entry" ELSE "held"]
  /\ info = <<>>
  /\ boot = [at |-> "detect", i |-> 0] /\ stop = "no"

At(at) == stop = "no" /\ boot.at = at

(***************************************************************************)
(* smp_init_dtb: one turn of its loop over the CPU nodes.                  *)
(***************************************************************************)
InsertBy(seq, e, key) ==
  LET before == Cardinality({i \in DOMAIN seq : seq[i][key] <= e[key]})
  IN SubSeq(seq, 1, before) \o <<e>> \o SubSeq(seq, before + 1, Len(seq))

CountsBoot(h) == count  \* mutant: the boot hart is numbered like the others

Numbered(h) == IF h = conf.bsp THEN 0 ELSE count

Detect ==
  LET n == conf.dtb[node + 1]
      e == [hart |-> n.hart, cpu |-> Numbered(n.hart)]
  IN /\ At("detect") /\ node < Len(conf.dtb)
     /\ node' = node + 1
     /\ IF n.ok
        THEN /\ count' = IF n.hart = conf.bsp THEN count ELSE count + 1
             /\ map' = InsertBy(map, e, "hart")
             /\ unmap' = InsertBy(unmap, e, "cpu")
        ELSE UNCHANGED <<count, map, unmap>>
     /\ UNCHANGED <<conf, jumped, local, hart, info, boot, stop>>

(* The status table is allocated, and cpu_status[0] filled in.             *)
Detected ==
  /\ At("detect") /\ node = Len(conf.dtb)
  /\ info' = [c \in 0 .. count - 1 |-> {}] /\ jumped' = {0}
  /\ boot' = [boot EXCEPT !.at = "exec"]
  /\ UNCHANGED <<conf, tables, local, hart, stop>>

smp_cur_cpu(h) == IF conf.plat = "p4" THEN h ELSE local[h].cpu

(* smp_get_cpu and smp_get_cpuid: binary searches, -1 when nothing is      *)
(* found.  The second searches smp_unmap, and returns an entry of smp_map. *)
Found(seq, key, value) == {i \in DOMAIN seq : seq[i][key] = value}

smp_get_cpu(h) ==
  LET at == Found(map, "hart", h)
  IN IF at = {} THEN -1 ELSE map[CHOOSE i \in at : TRUE].cpu

smp_get_cpuid(c) ==
  LET at == Found(unmap, "cpu", c)
  IN IF at = {} THEN -1 ELSE map[CHOOSE i \in at : TRUE].hart

(***************************************************************************)
(* sched_exec on a hart: the scheduler context is found from the CPU-local *)
(* hart number, and is marked as running.                                  *)
(***************************************************************************)
ContextOf(h) == smp_get_cpu(local[h].hart)

Exec(h) ==
  LET c == ContextOf(h)
  IN /\ stop = "no" /\ boot.at # "detect" /\ hart[h] = "entry"
     /\ IF c \in DOMAIN info
        THEN /\ info' = [info EXCEPT ![c] = @ \union {h}]
             /\ hart' = [hart EXCEPT ![h] = "runs"]
             /\ boot' = IF h = conf.bsp THEN [at |-> "start", i |-> 0] ELSE boot
             /\ UNCHANGED stop
        ELSE stop' = "overrun" /\ UNCHANGED <<info, hart, boot>>
     /\ UNCHANGED <<conf, tables, jumped, local>>

(***************************************************************************)
(* sched_start_altcpus: sched_start_on for every CPU but this one.         *)
(***************************************************************************)
Skip ==
  /\ At("start") /\ boot.i = smp_cur_cpu(conf.bsp)
  /\ boot' = [boot EXCEPT !.i = @ + 1]
  /\ UNCHANGED <<conf, tables, jumped, local, hart, info, stop>>

(* The hart that smp_poweron looks for: an entry of smp_map, by its place. *)
Target(c) == map[c + 1].hart

(* cpu1_init1_limine: the hart is told its index, and learns its own       *)
(* number.  A hart that the loader does not hold does not see the jump.    *)
Poweron ==
  LET c == boot.i
      h == Target(c)
  IN /\ At("start") /\ conf.plat = "riscv" /\ c < count /\ c # smp_cur_cpu(conf.bsp)
     /\ c \notin jumped /\ h \in conf.held
     /\ IF hart[h] = "held"
        THEN /\ hart' = [hart EXCEPT ![h] = "entry"]
             /\ local' = [local EXCEPT ![h] = [hart |-> h, cpu |-> c]]
        ELSE UNCHANGED <<hart, local>>
     /\ jumped' = jumped \union {c}
     /\ boot' = [boot EXCEPT !.at = "wait"]
     /\ UNCHANGED <<conf, tables, info, stop>>

(* smp_poweron returns false; sched_start_altcpus goes on.                 *)
PoweronFails ==
  /\ At("start") /\ conf.plat = "riscv" /\ boot.i < count
  /\ boot.i # smp_cur_cpu(conf.bsp)
  /\ boot.i \in jumped \/ Target(boot.i) \notin conf.held
  /\ boot' = [boot EXCEPT !.i = @ + 1]
  /\ UNCHANGED <<conf, tables, jumped, local, hart, info, stop>>

(* CPU1 of esp32p4 is reset, whatever it does, and enters appcpu_stub with *)
(* port_cpu1_local.                                                        *)
PoweronP4 ==
  /\ At("start") /\ conf.plat = "p4" /\ boot.i = 1
  /\ hart' = [hart EXCEPT ![1] = "entry"]
  /\ local' = [local EXCEPT ![1] = [hart |-> 1, cpu |-> 0]]
  /\ boot' = [boot EXCEPT !.at = "wait"]
  /\ UNCHANGED <<conf, tables, jumped, info, stop>>

(* "while (!(flags & SCHED_RUNNING)) continue;"                            *)
Started ==
  /\ At("wait") /\ info[boot.i] # {}
  /\ boot' = [at |-> "start", i |-> boot.i + 1]
  /\ UNCHANGED <<conf, tables, jumped, local, hart, info, stop>>

Limit == count

Finish ==
  /\ At("start") /\ boot.i = Limit
  /\ boot' = [boot EXCEPT !.at = "done"]
  /\ UNCHANGED <<conf, tables, jumped, local, hart, info, stop>>

Next == \/ Detect \/ Detected \/ Skip \/ Poweron \/ PoweronFails
        \/ PoweronP4 \/ Started \/ Finish
        \/ \E h \in Harts : Exec(h)

Spec == Init /\ [][Next]_vars
-----------------------------------------------------------------------------
(***************************************************************************)
(* Every hart schedules on the context of the CPU that smp_cur_cpu says it *)
(* is, and on nobody else's: no two CPUs share a run queue.                *)
(***************************************************************************)
OwnContext ==
  /\ stop = "no"
  /\ \A c \in DOMAIN info : \A h \in info[c] : info[c] = {h} /\ smp_cur_cpu(h) = c

(***************************************************************************)
(* smp_get_cpuid is the inverse of smp_get_cpu on the CPUs found so far.   *)
(***************************************************************************)
MapsAgree ==
  \A i \in DOMAIN unmap :
    /\ smp_get_cpu(unmap[i].hart) = unmap[i].cpu
    /\ smp_get_cpuid(unmap[i].cpu) = unmap[i].hart

(***************************************************************************)
(* sched_start_on spins for a CPU that was really released and that will   *)
(* mark the very context the caller looks at.                              *)
(***************************************************************************)
WaitsForStarted ==
  boot.at = "wait" =>
    \E h \in Harts : /\ hart[h] # "held" /\ smp_cur_cpu(h) = boot.i
                     /\ smp_get_cpu(local[h].hart) = boot.i

(***************************************************************************)
(* When sched_start_altcpus is done, every usable CPU of the device tree   *)
(* that the boot loader holds runs the scheduler, and no other.            *)
(***************************************************************************)
AllCpusRun ==
  boot.at = "done" => {h \in Harts : hart[h] = "runs"} = Usable \intersect conf.held
=============================================================================
