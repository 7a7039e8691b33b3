-------------------------------- MODULE I2c --------------------------------
(***************************************************************************)
(* The I2C driver of kernel/port/esp_common/src/i2c.c: a thread resets the *)
(* peripheral, queues commands and data and waits; the interrupt service   *)
(* routine keeps the FIFOs going and ends the transaction.  conf gives     *)
(* small values to the sizes of the hardware: conf.regs command registers, *)
(* conf.chunk bytes per command, conf.fifo places in a FIFO and the two    *)
(* thresholds.  The peripheral is external: it executes the registers in   *)
(* order, waits for data and for space, and raises interrupts.             *)
(***************************************************************************)
EXTENDS Integers, Sequences, FiniteSets, SequencesExt

CONSTANT Configs

VARIABLES conf,
          ctx,    \* i2c_ctx: busy, the commands and the three positions
          hw,     \* the registers, the FIFOs, interrupts raised and enabled
          bus,    \* what was on the bus since the last start condition
          got,    \* what has arrived in the buffer of a read
          call,   \* what each caller does
          isr,    \* the parts of the handler still to do, by status
          stop

vars == <<conf, ctx, hw, bus, got, call, isr, stop>>

Callers == DOMAIN call

Op(o, n) == [op |-> o, len |-> n]

(* i2c_fmt_addr: one byte, or two for an address above 127.                *)
AddrLen(c) == IF c.long THEN 2 ELSE 1

(* The commands of i2c_master_read_from and i2c_master_write_to.           *)
Commands(c) == <<Op("restart", 0), Op("write", AddrLen(c)),
                 Op(c.op, c.len), Op("stop", 0)>>

(* The bytes of command k of a transaction: those of the address, the data *)
(* of a write, and what the slave answers to a read.                       *)
Byte(k, i) == <<k, i>>

Bytes(k, n) == [i \in 1 .. n |-> Byte(k, i)]

StartBit == Byte(1, 0)
StopBit == Byte(4, 0)

Frame(c) == <<StartBit>> \o Bytes(2, AddrLen(c)) \o Bytes(3, c.len) \o <<StopBit>>

MinOf(a, b) == IF a <= b THEN a ELSE b

(* The types: no position passes the end of its command, and no FIFO or    *)
(* register file overflows.                                                *)
TypeOK ==
  /\ conf \in Configs
  /\ ctx.busy \in BOOLEAN /\ ctx.owner \in Callers \union {"nobody"}
  /\ \A p \in {"cur", "txd", "rxd"} :
       LET at == ctx[p]
       IN /\ at.cmd \in 1 .. Len(ctx.cmds) + 1
          /\ at.len \in 0 .. IF at.cmd \in DOMAIN ctx.cmds
                             THEN ctx.cmds[at.cmd].len ELSE 0
  /\ Len(hw.regs) <= conf.regs /\ hw.at \in 1 .. conf.regs + 1
  /\ \A i \in DOMAIN hw.regs : hw.regs[i].len \in 0 .. conf.chunk
  /\ Len(hw.tx) <= conf.fifo /\ Len(hw.rx) <= conf.fifo
  /\ hw.enabled \subseteq {"tx", "rx", "event"}
  /\ {hw.complete, hw.runs, hw.stuck, hw.clock} \subseteq BOOLEAN
  /\ isr \subseteq {"tx", "rx", "complete"}
  /\ \A c \in Callers : call[c].pc \in {"idle", "reset", "wait"}
  /\ stop \in {"no", "dangling"}

Start == [cmd |-> 1, len |-> 0]
NoCall == [pc |-> "idle", asked |-> "write", op |-> "write", len |-> 0, long |-> FALSE]

Silent == [regs |-> <<>>, at |-> 1, done |-> 0, tx |-> <<>>, rx |-> <<>>,
           enabled |-> {}, complete |-> FALSE, runs |-> FALSE, stuck |-> FALSE,
           clock |-> FALSE]

Init ==
  /\ conf \in Configs
  /\ ctx = [busy |-> FALSE, owner |-> "nobody", cmds |-> <<>>,
            cur |-> Start, txd |-> Start, rxd |-> Start]
  /\ hw = Silent
  /\ bus = <<>> /\ got = <<>>
  /\ call = [c \in conf.callers |-> NoCall]
  /\ isr = {} /\ stop = "no"
-----------------------------------------------------------------------------
(***************************************************************************)
(* i2c_queue_cmds: each turn fills one register with as much of the        *)
(* current command as fits; a register that is left gets the END command.  *)
(***************************************************************************)
Past(x, at) == at.cmd > Len(x.cmds)

FitsReg(left) == left <= conf.chunk

QueueOne(s) ==
  LET k == s.x.cur.cmd
      c == s.x.cmds[k]
      left == c.len - s.x.cur.len
      n == MinOf(left, conf.chunk)
      on == IF FitsReg(left) \/ c.op \notin {"write", "read"}
            THEN [cmd |-> k + 1, len |-> 0]
            ELSE [cmd |-> k, len |-> s.x.cur.len + n]
  IN IF Past(s.x, s.x.cur) THEN s
     ELSE [x |-> [s.x EXCEPT !.cur = on],
           regs |-> Append(s.regs, [op |-> c.op, cmd |-> k, len |-> n])]

Queued(x) ==
  LET f[i \in 0 .. conf.regs] ==
        IF i = 0 THEN [x |-> x, regs |-> <<>>] ELSE QueueOne(f[i - 1])
      all == f[conf.regs]
  IN IF Len(all.regs) < conf.regs
     THEN [all EXCEPT !.regs = Append(@, [op |-> "end", cmd |-> 0, len |-> 0])]
     ELSE all

(***************************************************************************)
(* i2c_isr_txfifo: at most conf.regs turns, each with the free space of    *)
(* the FIFO.  When all commands are done the interrupt is disabled.        *)
(***************************************************************************)
Restarts(at, n) == [cmd |-> at.cmd, len |-> n]  \* mutant: "=" for "+="

Onward(at, n) == [cmd |-> at.cmd, len |-> at.len + n]

FillOne(s) ==
  LET k == s.x.txd.cmd
      c == s.x.cmds[k]
      avl == conf.fifo - Len(s.tx)
      left == c.len - s.x.txd.len
      n == MinOf(left, avl)
      part == [i \in 1 .. n |-> Byte(k, s.x.txd.len + i)]
  IN CASE Past(s.x, s.x.txd) -> s
       [] c.op # "write" -> [s EXCEPT !.x.txd = [cmd |-> k + 1, len |-> 0]]
       [] OTHER -> [x |-> [s.x EXCEPT !.txd = IF left <= avl
                                              THEN [cmd |-> k + 1, len |-> 0]
                                              ELSE Onward(@, n)],
                    tx |-> s.tx \o part]

Filled(x, tx) ==
  LET f[i \in 0 .. conf.regs] ==
        IF i = 0 THEN [x |-> x, tx |-> tx] ELSE FillOne(f[i - 1])
  IN f[conf.regs]

(***************************************************************************)
(* i2c_isr_rxfifo, the same for what has arrived.                          *)
(***************************************************************************)
DrainOne(s) ==
  LET k == s.x.rxd.cmd
      c == s.x.cmds[k]
      left == c.len - s.x.rxd.len
      n == MinOf(left, Len(s.rx))
  IN CASE Past(s.x, s.x.rxd) -> s
       [] c.op # "read" -> [s EXCEPT !.x.rxd = [cmd |-> k + 1, len |-> 0]]
       [] OTHER -> [x |-> [s.x EXCEPT !.rxd = IF left <= Len(s.rx)
                                              THEN [cmd |-> k + 1, len |-> 0]
                                              ELSE Onward(@, n)],
                    got |-> SubSeq(s.got, 1, s.x.rxd.len) \o SubSeq(s.rx, 1, n),
                    rx |-> SubSeq(s.rx, n + 1, Len(s.rx))]

Drained(x, rx, to) ==
  LET f[i \in 0 .. conf.regs] ==
        IF i = 0 THEN [x |-> x, got |-> to, rx |-> rx] ELSE DrainOne(f[i - 1])
  IN f[conf.regs]
-----------------------------------------------------------------------------
Live == stop = "no"

Threads == isr = {} \/ conf.smp  \* with one CPU the handler runs alone

(* i2c_master_init and i2c_master_deinit, which nothing keeps from running *)
(* during a transaction but the callers.                                   *)
Unused == Live /\ Threads /\ \A c \in Callers : call[c].pc = "idle"

MasterInit ==
  /\ Unused
  /\ hw' = [Silent EXCEPT !.clock = TRUE]
  /\ UNCHANGED <<conf, ctx, bus, got, call, isr, stop>>

MasterDeinit ==
  /\ Unused /\ hw.clock
  /\ hw' = [hw EXCEPT !.clock = FALSE, !.stuck = TRUE, !.enabled = @ \ {"tx", "rx"}]
  /\ UNCHANGED <<conf, ctx, bus, got, call, isr, stop>>

(* The system call that reads calls i2c_master_write_to.                   *)
Performs(asked) == IF asked = "read" THEN "read" ELSE "write"

(* i2c_master_read_from and i2c_master_write_to are called, by the kernel  *)
(* or for a process ("sys_").  Nothing tests whether the peripheral is on, *)
(* and only the callers see to it that one calls at a time (conf.turns).   *)
Invoke(c) ==
  /\ Live /\ Threads /\ call[c].pc = "idle"
  /\ conf.turns => \A d \in Callers : call[d].pc = "idle"
  /\ \E a \in conf.ops, n \in conf.lens, l \in conf.longs :
       call' = [call EXCEPT ![c] = [pc |-> "reset", asked |-> a, op |-> Performs(a),
                                    len |-> n, long |-> l]]
  /\ UNCHANGED <<conf, ctx, hw, bus, got, isr, stop>>

Rewound(x) == [x EXCEPT !.busy = TRUE, !.cur = Start, !.txd = Start, !.rxd = Start]

(* i2c_sync_trans up to the new command pointer: the FIFOs are reset.      *)
Rewind(c) ==
  /\ Live /\ Threads /\ call[c].pc = "reset" /\ ~(ctx.owner = c)
  /\ ctx' = [Rewound(ctx) EXCEPT !.owner = c]
  /\ hw' = [hw EXCEPT !.tx = <<>>, !.rx = <<>>]
  /\ UNCHANGED <<conf, bus, got, call, isr, stop>>

(* The rest of i2c_sync_trans before its loop.  The FSM is reset too, and  *)
(* the slave lets go of the bus.  A peripheral without its clock takes     *)
(* none of this in, and raises no interrupt.                               *)
Begin(c) ==
  LET q == Queued([ctx EXCEPT !.cmds = Commands(call[c])])
      f == Filled(q.x, <<>>)
  IN /\ Live /\ Threads /\ call[c].pc = "reset" /\ ctx.owner = c
     /\ ctx' = f.x
     /\ hw' = IF ~hw.clock THEN [Silent EXCEPT !.stuck = TRUE]
               ELSE [Silent EXCEPT !.regs = q.regs, !.tx = f.tx, !.runs = TRUE,
                                   !.enabled = {"tx", "rx", "event"}, !.clock = TRUE]
     /\ bus' = <<>> /\ got' = <<>>
     /\ call' = [call EXCEPT ![c].pc = "wait"]
     /\ UNCHANGED <<conf, isr, stop>>

Raised == {s \in {"tx", "rx", "complete"} : hw.clock /\
             CASE s = "tx" -> "tx" \in hw.enabled /\ Len(hw.tx) < conf.txthr
               [] s = "rx" -> "rx" \in hw.enabled /\ Len(hw.rx) >= conf.rxthr
               [] OTHER -> "event" \in hw.enabled /\ hw.complete}

(* The caller sees "busy" cleared, or the time is up; either way it leaves *)
(* and its commands, which are on its stack, are gone.                     *)
Leave(c) ==
  /\ Live /\ Threads /\ call[c].pc = "wait"
  /\ call' = [call EXCEPT ![c] = NoCall]
  /\ ctx' = IF ctx.owner = c THEN [ctx EXCEPT !.owner = "nobody"] ELSE ctx
  /\ UNCHANGED <<conf, hw, bus, got, isr, stop>>

Over == ~ctx.busy

Finish(c) == Over /\ Leave(c)

(* A pending interrupt is served long before the 100 ms are over, unless   *)
(* conf.slow.                                                              *)
TimeOut(c) ==
  /\ ctx.busy
  /\ (hw.stuck /\ isr = {} /\ Raised = {}) \/ conf.slow
  /\ Leave(c)
-----------------------------------------------------------------------------
(***************************************************************************)
(* The peripheral.                                                         *)
(***************************************************************************)
Reg == hw.regs[hw.at]

Works(op) == Live /\ hw.runs /\ ~hw.stuck /\ hw.at <= Len(hw.regs) /\ Reg.op = op

Step == IF hw.done + 1 >= Reg.len
           THEN [hw EXCEPT !.at = @ + 1, !.done = 0]
           ELSE [hw EXCEPT !.done = @ + 1]

HwStart == /\ Works("restart")
           /\ bus' = Append(bus, StartBit) /\ hw' = Step
           /\ UNCHANGED <<conf, ctx, got, call, isr, stop>>

HwWrite == /\ Works("write") /\ hw.tx # <<>>
           /\ bus' = Append(bus, Head(hw.tx))
           /\ hw' = [Step EXCEPT !.tx = Tail(@)]
           /\ UNCHANGED <<conf, ctx, got, call, isr, stop>>

(* The slave answers with the bytes that the third command reads.          *)
HwRead == LET b == Byte(3, Len(SelectSeq(bus, LAMBDA x : x[1] = 3)) + 1)
          IN /\ Works("read") /\ Len(hw.rx) < conf.fifo
             /\ bus' = Append(bus, b)
             /\ hw' = [Step EXCEPT !.rx = Append(@, b)]
             /\ UNCHANGED <<conf, ctx, got, call, isr, stop>>

HwStop == /\ Works("stop")
          /\ bus' = Append(bus, StopBit)
          /\ hw' = [Step EXCEPT !.runs = FALSE, !.complete = TRUE]
          /\ UNCHANGED <<conf, ctx, got, call, isr, stop>>

(* A slave that holds the bus for a while.  Unless conf.rude it does so    *)
(* only when the last byte to send is in the FIFO, and once the call has   *)
(* given up it does not go on.                                             *)
HwStall == /\ Works("read") \/ Works("write")
           /\ conf.rude \/ "tx" \notin hw.enabled
           /\ hw' = [hw EXCEPT !.stuck = TRUE]
           /\ UNCHANGED <<conf, ctx, bus, got, call, isr, stop>>

HwRelease == /\ Live /\ hw.stuck /\ hw.clock
             /\ conf.rude \/ \E c \in Callers : call[c].pc = "wait"
             /\ hw' = [hw EXCEPT !.stuck = FALSE]
             /\ UNCHANGED <<conf, ctx, bus, got, call, isr, stop>>

(***************************************************************************)
(* esp_i2c_isr: the status is read once; then the parts, in this order.    *)
(* The commands are on the stack of the caller that started them.          *)
(***************************************************************************)
IsrEnter == /\ Live /\ isr = {} /\ Raised # {}
            /\ isr' = Raised
            /\ UNCHANGED <<conf, ctx, hw, bus, got, call, stop>>

Dangling(at) == ~Past(ctx, at) /\ \A c \in Callers : ~(ctx.owner = c /\ call[c].pc = "wait")

Crash == stop' = "dangling" /\ UNCHANGED <<conf, ctx, hw, bus, got, call, isr>>

Without(x, at, s) == IF Past(x, at) THEN hw.enabled \ {s} ELSE hw.enabled

IsrTx ==
  LET f == Filled(ctx, hw.tx)
  IN /\ Live /\ "tx" \in isr
     /\ IF Dangling(ctx.txd) THEN Crash
        ELSE /\ ctx' = f.x
             /\ hw' = [hw EXCEPT !.tx = f.tx, !.enabled = Without(f.x, f.x.txd, "tx")]
             /\ isr' = isr \ {"tx"}
             /\ UNCHANGED <<conf, bus, got, call, stop>>

IsrRx ==
  LET d == Drained(ctx, hw.rx, got)
  IN /\ Live /\ "rx" \in isr /\ "tx" \notin isr
     /\ IF Dangling(ctx.rxd) THEN Crash
        ELSE /\ ctx' = d.x /\ got' = d.got
             /\ hw' = [hw EXCEPT !.rx = d.rx, !.enabled = Without(d.x, d.x.rxd, "rx")]
             /\ isr' = isr \ {"rx"}
             /\ UNCHANGED <<conf, bus, call, stop>>

(* i2c_isr_trans_done: the end, or the next commands.                      *)
IsrDone ==
  LET q == Queued(ctx)
  IN /\ Live /\ isr = {"complete"}
     /\ isr' = {}
     /\ IF Past(ctx, ctx.cur)
        THEN /\ ctx' = [ctx EXCEPT !.busy = FALSE]
             /\ hw' = [hw EXCEPT !.complete = FALSE]
        ELSE /\ ctx' = q.x
             /\ hw' = [hw EXCEPT !.regs = q.regs, !.at = 1, !.done = 0, !.runs = TRUE]
     /\ UNCHANGED <<conf, bus, got, call, stop>>

Hardware == HwStart \/ HwWrite \/ HwRead \/ HwStop \/ HwStall \/ HwRelease

Handler == IsrEnter \/ IsrTx \/ IsrRx \/ IsrDone

Next == \/ Hardware \/ Handler \/ MasterInit \/ MasterDeinit
        \/ \E c \in Callers : Invoke(c) \/ Rewind(c) \/ Begin(c) \/ Finish(c) \/ TimeOut(c)

Spec == Init /\ [][Next]_vars
-----------------------------------------------------------------------------
Waiting(c) == call[c].pc = "wait" /\ ctx.owner = c

Answered == SelectSeq(bus, LAMBDA b : b[1] = 3)

(***************************************************************************)
(* However the data is split over command registers and refills of the     *)
(* FIFO, the bus carries the address and the data of the current call, in  *)
(* order, each byte once; nothing of an earlier call is left over.         *)
(***************************************************************************)
BusInOrder == \A c \in Callers : Waiting(c) => IsPrefix(bus, Frame(call[c]))

(***************************************************************************)
(* Nothing that the slave sent is lost or reordered between the FIFO and   *)
(* the buffer of the caller.                                               *)
(***************************************************************************)
ReadsInOrder ==
  \A c \in Callers : Waiting(c) /\ call[c].op = "read" => got \o hw.rx = Answered

(***************************************************************************)
(* "busy" is cleared only when the whole transaction was on the bus.       *)
(***************************************************************************)
DoneIsComplete ==
  \A c \in Callers : Waiting(c) /\ ~ctx.busy => bus = Frame(call[c])

HwCanStep == /\ hw.runs /\ hw.at <= Len(hw.regs) /\ Reg.op # "end"
             /\ Reg.op = "write" => hw.tx # <<>>
             /\ Reg.op = "read" => Len(hw.rx) < conf.fifo

(***************************************************************************)
(* While a slave cooperates a transaction never waits for the time-out:    *)
(* the peripheral can go on, or an interrupt will refill or end it.        *)
(***************************************************************************)
TransactionProgresses ==
  \A c \in Callers : Waiting(c) /\ ctx.busy /\ ~hw.stuck =>
    HwCanStep \/ isr # {} \/ Raised # {}

(***************************************************************************)
(* The handler never follows i2c_ctx.cmd to the stack of a call that has   *)
(* returned.                                                               *)
(***************************************************************************)
CommandsAlive == stop # "dangling"

(***************************************************************************)
(* "Reads len bytes into buffer buf from I2C slave" (hal/syscall_impl.c):  *)
(* the system call performs a read.                                        *)
(***************************************************************************)
SyscallReads == \A c \in Callers : call[c].asked = "sys_read" => call[c].op = "read"

(***************************************************************************)
(* "This function blocks until the entire transaction is completed": a     *)
(* call that ends without the time-out has all of its answer.              *)
(***************************************************************************)
ReadFills ==
  \A c \in Callers : Waiting(c) /\ ~ctx.busy /\ isr = {} /\ call[c].op = "read" =>
    got = Bytes(3, call[c].len)
=============================================================================
