------------------------------ MODULE MCPlatform ------------------------------
(***************************************************************************)
(* The parts of the kernel that are small and do not interact, each on its *)
(* instances: the thread table, file descriptors, interrupts, traps and    *)
(* signals, the I2C driver, the start of the CPUs, the device tree, and    *)
(* the arithmetic.  "part" says which of them moves in a behaviour; the    *)
(* others stay in an initial state.                                        *)
(***************************************************************************)
EXTENDS ThreadTable

CONSTANTS Moving,  \* the parts that may move
          Scene    \* which of the configurations: "usual", or one in which the
                   \* code disagrees with its comments

VARIABLES part,
          fileConf, fds, opened, lastFile, thr,
          irqConf, list, readers, enable, claim, route, up, drv, hand, irqStop,
          trapConf, usr, stack, acts, pending, pend, exiting, raised, flags,
          kern, runs, irq, ran, trapStop,
          i2cConf, ctx, hw, bus, got, call, i2cIsr, i2cStop,
          smpConf, node, count, map, unmap, jumped, local, hart, info, boot,
          smpStop,
          dtbConf, calls, root, todo, phandles, dtbAt, dev, inits,
          asked

(***************************************************************************)
(* Files: a thread with several, and threads with one that they share.     *)
(* Otherwise: threads with several, and a number that is closed while it   *)
(* is opened.                                                              *)
(***************************************************************************)
FileConfigs ==
  CASE Scene = "share" -> {[threads |-> 2, files |-> 2, blind |-> FALSE]}
    [] Scene = "blind" -> {[threads |-> 2, files |-> 1, blind |-> TRUE]}
    [] OTHER -> {[threads |-> 1, files |-> 3, blind |-> TRUE],
                 [threads |-> 3, files |-> 1, blind |-> FALSE]}

Files == INSTANCE ProcFiles WITH Configs <- FileConfigs, conf <- fileConf, last <- lastFile

(***************************************************************************)
(* Interrupts: two IRQs and one that is shared; a routine is removed where *)
(* there is one CPU; the PLIC with one device.  Otherwise: a routine that  *)
(* is removed while another CPU has the interrupt, two devices of the      *)
(* PLIC, and a last group of IRQs that is not full.                        *)
(***************************************************************************)
P4 == [plat |-> "p4", cpus |-> 2, max |-> 3, group |-> 2, nomem |-> FALSE,
       disable |-> {"d2"}, remove |-> FALSE,
       irq |-> [d1 |-> 1, d2 |-> 2], home |-> [d1 |-> 1, d2 |-> 2]]

C6 == [P4 EXCEPT !.plat = "c6", !.cpus = 1, !.max = 4, !.home.d2 = 1]

IrqConfigs ==
  CASE Scene = "removed" -> {[P4 EXCEPT !.remove = TRUE]}
    [] Scene = "two" -> {[P4 EXCEPT !.plat = "plic"]}
    [] Scene = "rest" -> {[C6 EXCEPT !.max = 3, !.irq = [d1 |-> 2], !.home = [d1 |-> 1]]}
    [] OTHER -> {P4,
                 [P4 EXCEPT !.irq.d2 = 1, !.home.d2 = 1, !.disable = {}],
                 [C6 EXCEPT !.remove = TRUE, !.nomem = TRUE],
                 [P4 EXCEPT !.plat = "plic", !.disable = {"d1"},
                            !.irq = [d1 |-> 1], !.home = [d1 |-> 1]]}

Irq == INSTANCE Irq WITH Configs <- IrqConfigs, conf <- irqConf, stop <- irqStop

(***************************************************************************)
(* Traps: calls, faults of each kind in the program and in a handler, with *)
(* and without room for a second frame, in debug and release builds.       *)
(* Otherwise: a fault in a handler that was interrupted by another, a      *)
(* fault with no room for a frame, and one that is ignored for ever.       *)
(***************************************************************************)
Default == [s \in {"HUP", "CHLD", "SEGV", "ILL", "TRAP", "SYS"} |-> "dfl"]

Catches == [main |-> <<"catch", "op", "call", "page", "call", "loop">>,
            handler |-> <<"op", "call", "sigret">>, room |-> 3,
            acts |-> [Default EXCEPT !["SEGV"] = "usr"], sigs |-> {"HUP", "CHLD"},
            raises |-> 2, kill |-> TRUE, asserts |-> FALSE, aligned |-> TRUE]

Usual ==
  {Catches,
   [Catches EXCEPT !.asserts = TRUE, !.main = <<"catch", "call", "page", "loop">>],
   [Catches EXCEPT !.room = 1, !.handler = <<"call", "segv", "sigret">>],
   [Catches EXCEPT !.main = <<"call", "bad", "exit">>, !.acts["SYS"] = "ign", !.raises = 0],
   [Catches EXCEPT !.main = <<"call", "sigret", "exit">>, !.raises = 1],
   [Catches EXCEPT !.main = <<"call", "denied", "exit">>, !.acts["SEGV"] = "dfl", !.raises = 1],
   [Catches EXCEPT !.main = <<"call", "ill", "exit">>, !.raises = 1],
   [Catches EXCEPT !.main = <<"catch", "break", "exit">>, !.raises = 1],
   [Catches EXCEPT !.main = <<"call", "align">>, !.aligned = FALSE, !.raises = 0]}

TrapConfigs ==
  CASE Scene = "nested" -> {[Catches EXCEPT !.handler = <<"call", "page", "sigret">>]}
    [] Scene = "full" -> {[Catches EXCEPT !.main = <<"segv">>, !.room = 0]}
    [] Scene = "starved" -> {[Catches EXCEPT !.main = <<"bad">>, !.acts["SYS"] = "ign"]}
    [] OTHER -> Usual

Trap == INSTANCE Trap WITH Configs <- TrapConfigs, conf <- trapConf,
                           cpu <- runs, stop <- trapStop

(***************************************************************************)
(* I2C: FIFOs of 3 bytes and registers that move 2, so that an operation   *)
(* needs several of both; a slave that stalls; an interrupt for each byte, *)
(* and two callers that take turns.  Otherwise: interrupts later than the  *)
(* time-out, more data than the registers can ask for at once, a slave     *)
(* that stalls at any time and goes on later, and two callers at once.     *)
(***************************************************************************)
Bus == [regs |-> 5, chunk |-> 2, fifo |-> 3, txthr |-> 2, rxthr |-> 2,
        callers |-> {"a"}, smp |-> TRUE,
        ops |-> {"read", "write", "sys_read", "sys_write"}, lens |-> 1 .. 4,
        longs |-> BOOLEAN, rude |-> FALSE, slow |-> FALSE, turns |-> TRUE]

I2cConfigs ==
  CASE Scene = "slow" -> {[Bus EXCEPT !.slow = TRUE]}
    [] Scene = "long" -> {[Bus EXCEPT !.lens = {8}]}
    [] Scene = "rude" -> {[Bus EXCEPT !.rude = TRUE]}
    [] Scene = "callers" -> {[Bus EXCEPT !.callers = {"a", "b"}, !.turns = FALSE]}
    [] OTHER -> {Bus, [Bus EXCEPT !.rxthr = 1, !.ops = {"read", "write"}, !.lens = {4},
                                  !.longs = {FALSE}, !.callers = {"a", "b"}]}

I2c == INSTANCE I2c WITH Configs <- I2cConfigs, conf <- i2cConf,
                         isr <- i2cIsr, stop <- i2cStop

(***************************************************************************)
(* Device trees in the order of their harts, which the boot hart leads,    *)
(* with a hart that is not usable or that the boot loader does not hold.   *)
(* Otherwise: another boot hart, or another order.                         *)
(***************************************************************************)
Hart(h) == [hart |-> h, ok |-> TRUE]

Qemu == [plat |-> "riscv", bsp |-> 0, dtb |-> <<Hart(0), Hart(1), Hart(2)>>, held |-> 0 .. 4]

SmpConfigs ==
  CASE Scene = "boot" -> {[Qemu EXCEPT !.bsp = 1, !.dtb = <<Hart(0), Hart(1)>>]}
    [] Scene = "order" -> {[Qemu EXCEPT !.dtb = <<Hart(0), Hart(2), Hart(1)>>]}
    [] OTHER -> {Qemu, [Qemu EXCEPT !.plat = "p4", !.dtb = <<Hart(0), Hart(1)>>],
                 [Qemu EXCEPT !.held = {0, 2}],
                 [Qemu EXCEPT !.dtb = <<Hart(0), [hart |-> 1, ok |-> FALSE], Hart(2), Hart(4)>>]}

Smp == INSTANCE Smp WITH Configs <- SmpConfigs, conf <- smpConf, stop <- smpStop

(***************************************************************************)
(* A device tree with names, lengths and content that look like tokens,    *)
(* without NOPs and with one before each token, and blocks that are not a  *)
(* tree: an end or a magic number is missing, or a property follows a      *)
(* node.  Names: 0 is empty, 2 "soc", 6 "phandle", 7 "compatible".         *)
(* Otherwise: phandles that are far apart.                                 *)
(***************************************************************************)
Prop(name, len, content) == [name |-> name, content_len |-> len, content |-> content]
Node(name, depth, props, nodes) ==
  [name |-> name, depth |-> depth, props |-> props, nodes |-> nodes]

Board(ph) ==
  Node(99, 0, <<Prop(5, 4, <<1>>)>>,
       <<Node(3, 1, <<Prop(6, 4, <<ph[1]>>)>>, <<Node(9, 2, <<>>, <<>>)>>),
         Node(2, 1, <<>>,
              <<Node(1, 2, <<Prop(7, 8, <<11, 12>>), Prop(6, 4, <<ph[2]>>)>>, <<>>),
                Node(8, 2, <<Prop(1, 8, <<2, 9>>), Prop(7, 8, <<14, 13>>)>>, <<>>),
                Node(4, 2, <<Prop(3, 5, <<2, 1>>), Prop(6, 4, <<ph[3]>>), Prop(9, 0, <<>>)>>,
                     <<>>)>>)>>)

RECURSIVE Layout(_, _)
Layout(n, nop) ==
  LET name == IF n.name = 99 THEN 0 ELSE n.name
      words == [i \in 1 .. (IF name \in {1, 8} THEN 2 ELSE 1) |-> name]
      flat(seq, Of(_)) == FlattenSeq([i \in DOMAIN seq |-> Of(seq[i])])
  IN nop \o <<1>> \o words
       \o flat(n.props, LAMBDA p : nop \o <<3, p.content_len, p.name>> \o p.content)
       \o flat(n.nodes, LAMBDA c : Layout(c, nop)) \o nop \o <<2>>

Blob(tree, words) ==
  [magic |-> TRUE, tree |-> tree, words |-> words,
   length |-> [n \in 0 .. 15 |-> CASE n = 1 -> 4 [] n = 8 -> 7 [] n = 0 -> 0 [] OTHER -> 3],
   drivers |-> <<[dtb |-> FALSE, supports |-> <<11>>], [dtb |-> TRUE, supports |-> <<13, 12>>],
                 [dtb |-> TRUE, supports |-> <<12>>], [dtb |-> TRUE, supports |-> <<14>>]>>]

Nothing == Node(0, 0, <<>>, <<>>)

DtbConfigs ==
  LET b == Board(<<3, 1, 2>>)
      w == Layout(b, <<>>)
  IN IF Scene = "apart" THEN {Blob(Board(<<3, 200, 100>>), Layout(Board(<<3, 200, 100>>), <<>>) \o <<9>>)}
     ELSE {Blob(b, w \o <<9>>), Blob(b, Layout(b, <<4>>) \o <<4, 9>>),
           Blob(Board(<<1, 2, 3>>), Layout(Board(<<1, 2, 3>>), <<4, 4>>) \o <<9>>),
           [Blob(Nothing, w \o <<9>>) EXCEPT !.magic = FALSE],
           Blob(Nothing, w), Blob(Nothing, Front(w) \o <<9>>),
           Blob(Nothing, Front(Front(w)) \o <<3, 0, 5, 2, 2, 9>>)}

Dtb == INSTANCE Dtb WITH Configs <- DtbConfigs, Soc <- 2, Phandle <- 6, Compatible <- 7,
                         conf <- dtbConf, stack <- calls, at <- dtbAt

(***************************************************************************)
(* Arithmetic on every pair of integers of 4 bits, the counts of each bit  *)
(* of 32 and 64, and text of every value of 8 bits in buffers of each      *)
(* size and in none.  Otherwise: integers that are wider than "1ull".      *)
(***************************************************************************)
Arith == INSTANCE IntRoutines WITH W <- 4, ULL <- IF Scene = "wide" THEN 2 ELSE 4

Num == INSTANCE NumToStr WITH
  Types <- <<[bits |-> 4, digits |-> 2], [bits |-> 6, digits |-> 2], [bits |-> 8, digits |-> 3]>>

Questions ==
  [fn : {"arith"}, a : 0 .. 15, b : 0 .. 15] \union [fn : {"count"}, a : {32}, b : 0 .. 31]
    \union [fn : {"count"}, a : {64}, b : 0 .. 63]
    \union [fn : {"int", "uint", "int_packed", "uint_packed"}, a : {8}, b : -1 .. 5]

-----------------------------------------------------------------------------
fileVars == <<fileConf, fds, opened, lastFile, thr>>
irqVars == <<irqConf, list, readers, enable, claim, route, up, drv, hand, irqStop>>
trapVars == <<trapConf, usr, stack, acts, pending, pend, exiting, raised, flags,
              kern, runs, irq, ran, trapStop>>
i2cVars == <<i2cConf, ctx, hw, bus, got, call, i2cIsr, i2cStop>>
smpVars == <<smpConf, node, count, map, unmap, jumped, local, hart, info, boot, smpStop>>
dtbVars == <<dtbConf, calls, root, todo, phandles, dtbAt, dev, inits>>
allVars == <<part, vars, fileVars, irqVars, trapVars, i2cVars, smpVars, dtbVars, asked>>

One(S) == CHOOSE x \in S : TRUE

MCInit ==
  /\ part \in Moving
  /\ Init
  /\ cpu[One(Objs)] = One(Cpus)  \* the CPUs are alike
  /\ part = "threads" \/ cpu = [o \in Objs |-> One(Cpus)]
  /\ Files!Init /\ (part = "files" \/ fileConf = One(FileConfigs))
  /\ Irq!Init /\ (part = "irq" \/ irqConf = One(IrqConfigs))
  /\ Trap!Init /\ (part = "trap" \/ trapConf = One(TrapConfigs))
  /\ I2c!Init /\ (part = "i2c" \/ i2cConf = One(I2cConfigs))
  /\ Smp!Init /\ (part = "smp" \/ smpConf = One(SmpConfigs))
  /\ Dtb!Init /\ (part = "dtb" \/ dtbConf = One(DtbConfigs))
  /\ asked \in IF part = "arith" THEN Questions ELSE {One(Questions)}

MCNext ==
  /\ UNCHANGED <<part, asked>>
  /\ \/ /\ part = "threads" /\ Next
        /\ UNCHANGED <<fileVars, irqVars, trapVars, i2cVars, smpVars, dtbVars>>
     \/ /\ part = "files" /\ Files!Next
        /\ UNCHANGED <<vars, irqVars, trapVars, i2cVars, smpVars, dtbVars>>
     \/ /\ part = "irq" /\ Irq!Next
        /\ UNCHANGED <<vars, fileVars, trapVars, i2cVars, smpVars, dtbVars>>
     \/ /\ part = "trap" /\ Trap!Next
        /\ UNCHANGED <<vars, fileVars, irqVars, i2cVars, smpVars, dtbVars>>
     \/ /\ part = "i2c" /\ I2c!Next
        /\ UNCHANGED <<vars, fileVars, irqVars, trapVars, smpVars, dtbVars>>
     \/ /\ part = "smp" /\ Smp!Next
        /\ UNCHANGED <<vars, fileVars, irqVars, trapVars, i2cVars, dtbVars>>
     \/ /\ part = "dtb" /\ Dtb!Next
        /\ UNCHANGED <<vars, fileVars, irqVars, trapVars, i2cVars, smpVars>>

(* The fairness of Irq and Trap, for the part that moves.                  *)
MCSpec ==
  /\ MCInit /\ [][MCNext]_allVars
  /\ \A c \in {1, 2} : WF_irqVars(part = "irq" /\ c \in Irq!Harts /\ Irq!Handle(c))
  /\ \A d \in {"d1", "d2"} :
       WF_irqVars(part = "irq" /\ d \in Irq!Drivers
                    /\ (Irq!InstallLocked(d) \/ Irq!UninstallLocked(d)))
  /\ SF_trapVars(part = "trap" /\ Trap!UserTrap)
  /\ SF_trapVars(part = "trap" /\ Trap!Kernel)
  /\ SF_trapVars(part = "trap" /\ Trap!Plain)
  /\ SF_trapVars(part = "trap" /\ Trap!Preempt /\ runs = "user")
  /\ WF_trapVars(part = "trap" /\ (Trap!Die \/ Trap!Resume))

-----------------------------------------------------------------------------
(* Threads and files: whatever of a new thread fails, its memory is freed  *)
(* once, and the table holds exactly the threads that live or wait to be   *)
(* freed; whatever of an opened file fails, its handle is closed once, and *)
(* the list holds exactly the open ones, whoever closes them.              *)
TablesSound == /\ part = "threads" => TypeOK /\ MemoryAccounted /\ TableExact
               /\ part = "files" => Files!TypeOK /\ Files!HandlesHeld

(* Interrupts: claim_mask and the PLIC keep two CPUs out of the routines   *)
(* of one IRQ, riscv_interrupt_handler gives back every claim, an enabled  *)
(* IRQ is not undone by the driver of another one and finds a routine.     *)
InterruptsSound ==
  part = "irq" => /\ Irq!TypeOK /\ Irq!OneCpuPerIrq /\ Irq!ClaimsReturned
                  /\ Irq!EnabledIsRouted /\ Irq!NoUnhandled

(* isr_spinlock keeps the list that a handler walks as it is, and on an    *)
(* ESP the interrupt of a device that stays enabled is not lost.           *)
InterruptsServed == [][Irq!ListKept]_irqVars /\ Irq!DeviceServed

(* Traps: each system call is made once and its value is found by the      *)
(* program, whichever signals were handled in between; the end of the      *)
(* process does not cut the kernel side short, and a bad frame pointer of  *)
(* the user does not stop the kernel.                                      *)
TrapsSound ==
  part = "trap" => /\ Trap!TypeOK /\ Trap!ResultSeen /\ Trap!CallsOnce
                   /\ Trap!KernelNotKilled /\ Trap!NoPoweroff

(* What the kernel side of a thread has begun is not started over, each    *)
(* signal is taken unless the process ends, and the thread of a process    *)
(* that exits ends.                                                        *)
SignalsServed == [][Trap!WorkKept]_trapVars /\ Trap!SignalsTaken /\ Trap!ExitingEnds

(* I2C, with one call at a time and a slave that stalls only when nothing  *)
(* is left to send: bytes go over the bus and arrive in order, each once;  *)
(* "busy" is cleared when the transaction is complete, which waits for its *)
(* time-out only when the slave stalls or the peripheral is off, and the   *)
(* handler never follows a pointer to a call that has returned.            *)
TransfersSound ==
  part = "i2c" => /\ I2c!TypeOK /\ I2c!BusInOrder /\ I2c!ReadsInOrder /\ I2c!DoneIsComplete
                  /\ I2c!TransactionProgresses /\ I2c!CommandsAlive

(* SMP: no two CPUs schedule on one context, smp_get_cpu and smp_get_cpuid *)
(* are inverse to each other, sched_start_on spins for a CPU that it has   *)
(* released, and in the end every usable CPU runs the scheduler.           *)
CpusSound ==
  part = "smp" => /\ Smp!TypeOK /\ Smp!OwnContext /\ Smp!MapsAgree
                  /\ Smp!WaitsForStarted /\ Smp!AllCpusRun

(* The device tree: dtb_open reads the tree that was written, whatever its *)
(* content looks like, and refuses what is none; phandles are found,       *)
(* numbers read alike by bytes and cells, and a device gets one driver,    *)
(* for the first compatible string that has one.                           *)
DevicesFound ==
  part = "dtb" => /\ Dtb!TypeOK /\ Dtb!ParseAdvances /\ Dtb!TreeRead
                  /\ Dtb!PhandlesFound /\ Dtb!NumbersAgree /\ Dtb!OneDriver

(* Arithmetic: shift and subtract divides, also signed, shift and add      *)
(* multiplies, the tables of __clz and __ctz have no collision, and double *)
(* dabble gives the decimal text in every buffer that has room for it.     *)
NumbersRight ==
  part = "arith" =>
    CASE asked.fn = "arith" -> /\ Arith!DividesRight(asked.a, asked.b)
                               /\ Arith!MultipliesRight(asked.a, asked.b)
      [] asked.fn = "count" -> Arith!CountsRight(asked.a, asked.b)
      [] OTHER -> \A val \in 0 .. 2^asked.a - 1 : Num!ConvertsRight(asked.fn, val, asked.b)

(***************************************************************************)
(* What comments say and the code does not do.                             *)
(***************************************************************************)
(* "Find a file in the process file handle list."                          *)
EachIsFound == part = "files" => Files!EachIsFound

(* "Generic interrupt handler that runs all callbacks on an IRQ."          *)
EveryDeviceServed == Irq!EveryDeviceServed

(* "Remove an ISR."                                                        *)
RemoveWorks == part = "irq" => Irq!RemoveWorks

(* "When the user traps just stop the process."                            *)
UserTrapStopsProcess == part = "trap" => Trap!UserTrapStopsProcess

(* "If the thread is already running a signal handler, the process is      *)
(* killed."                                                                *)
FaultInHandlerKills == [][Trap!KilledInHandler]_trapVars

(* sched_raise_from_isr: the assertion that the thread is not privileged.  *)
NoAssert == part = "trap" => Trap!NoAssert

(* "Raises a fault signal to the current thread."                          *)
FaultAnswered == Trap!FaultAnswered

(* "Reads len bytes into buffer buf from I2C slave".                       *)
SyscallReads == part = "i2c" => I2c!SyscallReads

(* "This function blocks until the entire transaction is completed".       *)
ReadFills == part = "i2c" => I2c!ReadFills

(* "This file contains definitions for all GCC routines for integer        *)
(* arithmetic".                                                            *)
RoutinesRight ==
  part = "arith" /\ asked.fn = "arith" =>
    /\ Arith!DivmodRight(asked.a, asked.b) /\ Arith!LogicalShiftRight(asked.a, asked.b)
    /\ Arith!LongProductRight(asked.a, asked.b)

(* "places a NULL terminator if the buffer is not filled entirely".        *)
PackedEnds ==
  part = "arith" /\ asked.fn \in {"int_packed", "uint_packed"} =>
    \A val \in 0 .. 2^asked.a - 1 : Num!PackedEnds(asked.fn, val, asked.b)
=============================================================================
