-------------------------------- MODULE Irq --------------------------------
(***************************************************************************)
(* Interrupt dispatch: the lists of service routines of                    *)
(* kernel/src/interrupt.c, and the controllers below them.  conf.plat is   *)
(*   "p4"    port/esp32p4/src/interrupt.c, an interrupt matrix per CPU,    *)
(*   "c6"    port/esp32c6/src/interrupt.c, one CPU,                        *)
(*   "plic"  cpu/riscv/src/interrupt/riscv_plic.c, below riscv_intc.c.     *)
(* A driver installs a routine, enables its IRQ, may disable it and may    *)
(* remove the routine; its device holds the line up until the routine has  *)
(* served it.  isr_spinlock is the lock that module Spinlock implements.   *)
(***************************************************************************)
EXTENDS Integers, Sequences, FiniteSets, SequencesExt

CONSTANT Configs

VARIABLES conf,    \* the platform, its size and what its drivers do
          list,    \* isr_list, by IRQ, of the drivers whose routines it holds
          readers, \* CPUs that share isr_spinlock
          enable,  \* enable_mask (p4)
          claim,   \* claim_mask (p4); IRQs in service in the PLIC
          route,   \* IRQs that the controller delivers to each CPU
          up,      \* devices that ask for service
          drv,     \* how far each driver is
          hand,    \* the handler on each CPU
          stop     \* why the kernel stopped

ctlVars == <<enable, claim, route>>
vars == <<conf, list, readers, ctlVars, up, drv, hand, stop>>

Harts == 1 .. conf.cpus
Drivers == DOMAIN conf.irq
Irqs == 0 .. conf.max - 1

Thread == [at |-> "thread", group |-> 0, pending |-> {}, irq |-> 0, pos |-> 0]

Locked == {"take", "retake"}  \* the driver has interrupts disabled

(* The types of the lists, the masks, the drivers and the handlers.        *)
TypeOK ==
  /\ conf \in Configs
  /\ DOMAIN list \subseteq Irqs
  /\ \A i \in DOMAIN list : list[i] \in Seq(Drivers)
  /\ readers \subseteq Harts
  /\ enable \subseteq Irqs /\ claim \subseteq Irqs
  /\ route \in [Harts -> SUBSET Irqs]
  /\ up \subseteq Drivers
  /\ \A d \in Drivers :
       /\ drv[d].pc \in Locked \union {"off", "failed", "listed", "enabling",
                                       "on", "disabling", "gone"}
       /\ drv[d].step \in 0 .. conf.cpus
       /\ Len(drv[d].seen) <= 1 /\ ToSet(drv[d].seen) \subseteq SUBSET Irqs
  /\ \A c \in Harts :
       /\ hand[c].at \in {"thread", "scan", "lock", "walk", "unclaim"}
       /\ hand[c].group \in 0 .. conf.max /\ hand[c].pending \subseteq Irqs
       /\ hand[c].irq \in Irqs
       /\ hand[c].pos \in 0 .. Cardinality(Drivers) + 1
  /\ stop \in {"no", "unhandled", "assert"}

NewDriver == [pc |-> "off", step |-> 0, seen |-> <<>>]

(* irq_init: nothing is enabled, and every source is routed nowhere.       *)
Init == /\ conf \in Configs
        /\ list = <<>> /\ readers = {}
        /\ enable = {} /\ claim = {} /\ route = [c \in Harts |-> {}]
        /\ up = {} /\ drv = [d \in Drivers |-> NewDriver]
        /\ hand = [c \in Harts |-> Thread] /\ stop = "no"

Runs == stop = "no"

(* Threads run on a CPU that is in no handler and where no other driver    *)
(* has interrupts disabled.                                                *)
Quiet(c) == \A d \in Drivers : conf.home[d] = c => drv[d].pc \notin Locked

At(d, at) == Runs /\ drv[d].pc = at /\ hand[conf.home[d]].at = "thread"

InThread(d, at) == At(d, at) /\ Quiet(conf.home[d])

Goto(d, at) == drv' = [drv EXCEPT ![d] = [NewDriver EXCEPT !.pc = at]]

(***************************************************************************)
(* isr_install: the entry is allocated, interrupts are disabled and the    *)
(* lock is taken; the list grows up to the IRQ, or realloc fails.  What is *)
(* done under the exclusive lock is one step: nobody else looks.           *)
(***************************************************************************)
Install(d) ==
  /\ InThread(d, "off")
  /\ Goto(d, "take")
  /\ UNCHANGED <<conf, list, readers, ctlVars, up, hand, stop>>

Unlocked == readers = {}

Grown(i) == [j \in DOMAIN list \union 0 .. i |->
               IF j \in DOMAIN list THEN list[j] ELSE <<>>]

InstallLocked(d) ==
  LET i == conf.irq[d]
      has == IF i \in DOMAIN list THEN list ELSE Grown(i)
  IN /\ At(d, "take") /\ Unlocked
     /\ \/ list' = [has EXCEPT ![i] = Append(@, d)] /\ Goto(d, "listed")
        \/ /\ conf.nomem /\ i \notin DOMAIN list
           /\ UNCHANGED list /\ Goto(d, "failed")
     /\ UNCHANGED <<conf, readers, ctlVars, up, hand, stop>>

(***************************************************************************)
(* isr_remove.  isr_install never stores the number of the IRQ, so that    *)
(* "handle->irq" is whatever malloc returned: dlist_remove asserts that    *)
(* the list holds the node.                                                *)
(***************************************************************************)
Uninstall(d) ==
  /\ InThread(d, "listed") /\ conf.remove
  /\ Goto(d, "retake")
  /\ UNCHANGED <<conf, list, readers, ctlVars, up, hand, stop>>

UninstallLocked(d) ==
  /\ At(d, "retake") /\ Unlocked
  /\ \E junk \in Irqs :
       IF junk = conf.irq[d]
       THEN /\ list' = [list EXCEPT ![junk] = SelectSeq(@, LAMBDA e : e # d)]
            /\ Goto(d, "gone") /\ UNCHANGED stop
       ELSE stop' = "assert" /\ UNCHANGED <<list, drv>>
  /\ UNCHANGED <<conf, readers, ctlVars, up, hand>>
-----------------------------------------------------------------------------
(***************************************************************************)
(* irq_ch_enable and irq_ch_disable.  On p4 the mask changes in one atomic *)
(* operation, then the route to each CPU; on c6 there is one route.  On    *)
(* the PLIC the register of each CPU is read, and then written.            *)
(***************************************************************************)
First == IF conf.plat = "p4" THEN 0 ELSE 1

Begin(d, from, to) ==
  /\ InThread(d, from)
  /\ drv' = [drv EXCEPT ![d] = [pc |-> to, step |-> First, seen |-> <<>>]]
  /\ UNCHANGED <<conf, list, readers, ctlVars, up, hand, stop>>

Enable(d) == Begin(d, "listed", "enabling")

Disable(d) == d \in conf.disable /\ Begin(d, "on", "disabling")

With(set, d) == IF drv[d].pc = "enabling" THEN set \union {conf.irq[d]}
                ELSE set \ {conf.irq[d]}

MaskWith(d) == With(enable, d)

Advance(d) ==
  IF drv[d].step < conf.cpus
  THEN drv' = [drv EXCEPT ![d].step = @ + 1, ![d].seen = <<>>]
  ELSE Goto(d, IF drv[d].pc = "enabling" THEN "on" ELSE "listed")

Switching(d) == InThread(d, "enabling") \/ InThread(d, "disabling")

SetMask(d) ==
  /\ Switching(d) /\ drv[d].step = 0
  /\ enable' = MaskWith(d) /\ Advance(d)
  /\ UNCHANGED <<conf, list, readers, claim, route, up, hand, stop>>

ReadRoute(d) ==
  /\ Switching(d) /\ conf.plat = "plic" /\ drv[d].seen = <<>>
  /\ drv' = [drv EXCEPT ![d].seen = <<route[drv[d].step]>>]
  /\ UNCHANGED <<conf, list, readers, ctlVars, up, hand, stop>>

SetRoute(d) ==
  LET c == drv[d].step
  IN /\ Switching(d) /\ c # 0 /\ (conf.plat = "plic" => drv[d].seen # <<>>)
     /\ route' = [route EXCEPT ![c] = With(IF conf.plat = "plic" THEN drv[d].seen[1] ELSE @, d)]
     /\ Advance(d)
     /\ UNCHANGED <<conf, list, readers, enable, claim, up, hand, stop>>
-----------------------------------------------------------------------------
(***************************************************************************)
(* The hardware: a level-triggered line per IRQ.  The PLIC gives an IRQ to *)
(* one CPU, and blocks it until that CPU has written it back.              *)
(***************************************************************************)
Lines == {conf.irq[d] : d \in up}

Raise(d) ==
  /\ Runs /\ d \notin up
  /\ up' = up \union {d}
  /\ UNCHANGED <<conf, list, readers, ctlVars, drv, hand, stop>>

Requests(c) == (Lines \intersect route[c])
                 \ (IF conf.plat = "plic" THEN claim ELSE {})

Become(c, h) == hand' = [hand EXCEPT ![c] = h]

Enter(c) ==
  /\ Runs /\ hand[c].at = "thread" /\ Quiet(c) /\ Requests(c) # {}
  /\ Become(c, [Thread EXCEPT !.at = "scan"])
  /\ UNCHANGED <<conf, list, readers, ctlVars, up, drv, stop>>

(***************************************************************************)
(* riscv_interrupt_handler of p4 and c6: every group of IRQs is read once, *)
(* and its pending IRQs are served from the lowest.                        *)
(***************************************************************************)
InHandler(c, at) == Runs /\ hand[c].at = at

Groups == IF conf.plat = "p4" THEN (conf.max + conf.group - 1) \div conf.group
          ELSE conf.max \div conf.group

Scan(c) ==
  LET g == hand[c].group
      members == {i \in Irqs : i \div conf.group = g}
  IN /\ InHandler(c, "scan") /\ conf.plat # "plic"
     /\ hand[c].pending = {} /\ g < Groups
     /\ Become(c, [hand[c] EXCEPT !.group = @ + 1,
                     !.pending = IF conf.plat = "p4"
                                 THEN Lines \intersect members \intersect enable
                                 ELSE Lines \intersect members])
     /\ UNCHANGED <<conf, list, readers, ctlVars, up, drv, stop>>

NoClaim(i) == TRUE  \* mutant: the previous mask is not looked at

Mine(i) == i \notin claim

(* c6 asks irq_ch_is_enabled, p4 claims the IRQ.                           *)
Pick(c) ==
  LET i == Min(hand[c].pending)
      rest == [hand[c] EXCEPT !.pending = @ \ {i}]
      serves == IF conf.plat = "p4" THEN Mine(i) ELSE i # 0 /\ i \in route[1]
  IN /\ InHandler(c, "scan") /\ hand[c].pending # {}
     /\ Become(c, IF serves THEN [rest EXCEPT !.at = "lock", !.irq = i] ELSE rest)
     /\ claim' = IF conf.plat = "p4" THEN claim \union {i} ELSE claim
     /\ UNCHANGED <<conf, list, readers, enable, route, up, drv, stop>>

Return(c) ==
  /\ InHandler(c, "scan") /\ conf.plat # "plic"
  /\ hand[c].pending = {} /\ hand[c].group = Groups
  /\ Become(c, Thread)
  /\ UNCHANGED <<conf, list, readers, ctlVars, up, drv, stop>>

(***************************************************************************)
(* plic_interrupt_handler: the claim register returns the pending IRQ, or  *)
(* 0 if another CPU was faster.  Nothing writes the register back.         *)
(***************************************************************************)
PlicClaim(c) ==
  LET i == Min(Requests(c))
  IN /\ InHandler(c, "scan") /\ conf.plat = "plic"
     /\ IF Requests(c) = {}
        THEN Become(c, Thread) /\ UNCHANGED claim
        ELSE /\ Become(c, [hand[c] EXCEPT !.at = "lock", !.irq = i])
             /\ claim' = claim \union {i}
     /\ UNCHANGED <<conf, list, readers, enable, route, up, drv, stop>>

(***************************************************************************)
(* generic_interrupt_handler.  Each routine quiets its own device.         *)
(***************************************************************************)
Handlers(i) == IF i \in DOMAIN list THEN list[i] ELSE <<>>

Share(c) ==
  /\ InHandler(c, "lock")
  /\ readers' = readers \union {c}
  /\ IF Handlers(hand[c].irq) = <<>>
     THEN stop' = "unhandled" /\ UNCHANGED hand
     ELSE /\ Become(c, [hand[c] EXCEPT !.at = "walk", !.pos = 1])
          /\ UNCHANGED stop
  /\ UNCHANGED <<conf, list, ctlVars, up, drv>>

ServesFirst(c) == hand[c].pos = 1  \* mutant: the first routine only

More(c) == hand[c].pos <= Len(list[hand[c].irq])

Serve(c) ==
  /\ InHandler(c, "walk") /\ More(c)
  /\ up' = up \ {list[hand[c].irq][hand[c].pos]}
  /\ Become(c, [hand[c] EXCEPT !.pos = @ + 1])
  /\ UNCHANGED <<conf, list, readers, ctlVars, drv, stop>>

Unshare(c) ==
  /\ InHandler(c, "walk") /\ ~More(c)
  /\ readers' = readers \ {c}
  /\ Become(c, CASE conf.plat = "p4" -> [hand[c] EXCEPT !.at = "unclaim", !.pos = 0]
                 [] conf.plat = "c6" -> [hand[c] EXCEPT !.at = "scan", !.irq = 0, !.pos = 0]
                 [] OTHER -> Thread)
  /\ UNCHANGED <<conf, list, ctlVars, up, drv, stop>>

Unclaimed(c) == claim \ {hand[c].irq}

Unclaim(c) ==
  /\ InHandler(c, "unclaim")
  /\ claim' = Unclaimed(c)
  /\ Become(c, [hand[c] EXCEPT !.at = "scan", !.irq = 0])
  /\ UNCHANGED <<conf, list, readers, enable, route, up, drv, stop>>

Handle(c) == \/ Enter(c) \/ Scan(c) \/ Pick(c) \/ Return(c) \/ PlicClaim(c)
             \/ Share(c) \/ Serve(c) \/ Unshare(c) \/ Unclaim(c)

Drive(d) == \/ Install(d) \/ InstallLocked(d) \/ Uninstall(d) \/ UninstallLocked(d)
            \/ Enable(d) \/ Disable(d) \/ SetMask(d) \/ ReadRoute(d) \/ SetRoute(d)

Next == \/ \E d \in Drivers : Drive(d) \/ Raise(d)
        \/ \E c \in Harts : Handle(c)

Spec == Init /\ [][Next]_vars
-----------------------------------------------------------------------------
Serving(c) == hand[c].at \in {"lock", "walk"}

(***************************************************************************)
(* The claim mask of p4, and the claim register of the PLIC, keep two CPUs *)
(* out of the routines of one IRQ although isr_spinlock lets both share:   *)
(* drivers need no lock of their own against themselves.                   *)
(***************************************************************************)
OneCpuPerIrq ==
  \A b, c \in Harts : b # c /\ Serving(b) /\ Serving(c) => hand[b].irq # hand[c].irq

(***************************************************************************)
(* riscv_interrupt_handler gives back every claim: a bit of claim_mask is  *)
(* set exactly while some CPU handles that IRQ.                            *)
(***************************************************************************)
ClaimsReturned ==
  conf.plat = "p4" =>
    claim = {hand[c].irq : c \in {b \in Harts : Serving(b) \/ hand[b].at = "unclaim"}}

(***************************************************************************)
(* irq_ch_enable is not undone by a driver that enables or disables        *)
(* another IRQ of the same register: what is enabled is delivered to every *)
(* CPU, and nothing else is.                                               *)
(***************************************************************************)
EnabledIsRouted ==
  \A d \in Drivers : \A c \in Harts :
    /\ drv[d].pc = "on" => conf.irq[d] \in route[c]
    /\ drv[d].pc = "on" /\ conf.plat = "p4" => conf.irq[d] \in enable
    /\ drv[d].pc \in {"off", "gone"} =>
         \/ conf.irq[d] \notin route[c]
         \/ \E e \in Drivers \ {d} : conf.irq[e] = conf.irq[d]

(***************************************************************************)
(* "Assert that at least one ISR services this IRQ": a driver that installs*)
(* its routine before it enables the IRQ never sees the panic.             *)
(***************************************************************************)
NoUnhandled == stop # "unhandled"

(* isr_spinlock "prevents concurrent IRQ servicing and list modification": *)
(* the list that a handler walks is not changed under it.                  *)
ListKept == \A c \in Harts : hand[c].at = "walk" /\ hand'[c].at = "walk" =>
              list'[hand[c].irq] = list[hand[c].irq]

(***************************************************************************)
(* A device whose IRQ is enabled and stays so is served: no order of       *)
(* claims, scans and returns on the CPUs of an ESP loses its interrupt.    *)
(***************************************************************************)
DeviceServed ==
  "d1" \in Drivers /\ conf.plat # "plic" /\ drv["d1"].pc = "on" /\ "d1" \in up
    ~> "d1" \notin up \/ drv["d1"].pc # "on" \/ stop = "assert"

(***************************************************************************)
(* "Generic interrupt handler that runs all callbacks on an IRQ": the same *)
(* on every controller, and for a device that asks again and again.        *)
(***************************************************************************)
EveryDeviceServed ==
  "d1" \in Drivers /\ drv["d1"].pc = "on" /\ "d1" \in up
    ~> "d1" \notin up \/ drv["d1"].pc # "on" \/ stop = "assert"

(***************************************************************************)
(* "Remove an ISR." asserts that the IRQ of the handle is in range.        *)
(***************************************************************************)
RemoveWorks == stop # "assert"

(* A pending interrupt is taken and its handler runs on; the kernel leaves *)
(* its short sections with interrupts disabled.                            *)
Fairness ==
  /\ \A c \in {1, 2} : WF_vars(c \in Harts /\ Handle(c))
  /\ \A d \in {"d1", "d2"} : WF_vars(d \in Drivers /\ (InstallLocked(d) \/ UninstallLocked(d)))

FairSpec == Spec /\ Fairness
=============================================================================
