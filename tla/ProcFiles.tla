------------------------------ MODULE ProcFiles ------------------------------
(***************************************************************************)
(* The file descriptors of a process: the list process->fds of kernel/src/ *)
(* process/process.c and the system calls of kernel/src/filesystem/        *)
(* syscall_impl.c, which threads of the process make at the same time.     *)
(* The list has no lock: a step is one pass over it, so that what a pass   *)
(* has found may be gone at the next.  fs_open and fs_close are those of   *)
(* Fs: handles are numbered upwards, and an unknown one is refused.        *)
(***************************************************************************)
EXTENDS Integers, Sequences, FiniteSets, SequencesExt

CONSTANT Configs  \* threads, whether they close numbers that are not in the
                  \* list (blind), and bound: files that they open

VARIABLES conf,
          fds,     \* process->fds
          opened,  \* the open handles of the filesystem
          last,    \* the handle that was made last
          thr      \* the call that each thread is in

vars == <<conf, fds, opened, last, thr>>

FILE_NONE == -1
Idle == [pc |-> "user", virt |-> FILE_NONE, file |-> FILE_NONE]
Threads == 1 .. conf.threads

(* The types of the list, the handles and the calls.                       *)
TypeOK == /\ fds \in Seq([virt : Nat, real : 1 .. conf.files])
          /\ opened \subseteq 1 .. last /\ last \in 0 .. conf.files
          /\ thr \in [Threads -> [pc : {"user", "add", "undo", "remove", "close", "use"},
                                  virt : Nat \union {FILE_NONE},
                                  file : 1 .. conf.files \union {FILE_NONE}]]

Init == /\ conf \in Configs
        /\ fds = <<>> /\ opened = {} /\ last = 0
        /\ thr = [t \in Threads |-> Idle]

Goto(t, pc, virt, file) ==
  thr' = [thr EXCEPT ![t] = [pc |-> pc, virt |-> virt, file |-> file]]

Return(t) == Goto(t, "user", FILE_NONE, FILE_NONE)

(* The number of a new descriptor.                                         *)
NewVirt(list) ==
  FoldLeft(LAMBDA virt, fd : IF fd.virt > virt THEN fd.virt + 1 ELSE virt, 0, list)

Positions(list, virt) == {i \in DOMAIN list : list[i].virt = virt}
First(list, virt) == CHOOSE i \in Positions(list, virt) :
                       \A k \in Positions(list, virt) : i <= k

proc_find_fd_raw(virt) ==
  IF Positions(fds, virt) = {} THEN FILE_NONE ELSE fds[First(fds, virt)].real

-----------------------------------------------------------------------------
(* syscall_fs_open: fs_open makes a handle,                                *)
FsOpen(t) ==
  /\ thr[t].pc = "user" /\ last < conf.files
  /\ last' = last + 1 /\ opened' = opened \union {last + 1}
  /\ Goto(t, "add", FILE_NONE, last + 1)
  /\ UNCHANGED <<conf, fds>>

(* proc_add_fd_raw appends it,                                             *)
AddFd(t) ==
  /\ thr[t].pc = "add"
  /\ fds' = Append(fds, [virt |-> NewVirt(fds), real |-> thr[t].file])
  /\ Return(t)
  /\ UNCHANGED <<conf, opened, last>>

(* Mutant of AddFails: the handle is forgotten.                            *)
AddFailsLeaks(t) == /\ thr[t].pc = "add" /\ Return(t)
                    /\ UNCHANGED <<conf, fds, opened, last>>

(* and when there is no memory for it fs_close follows.                    *)
AddFails(t) == /\ thr[t].pc = "add" /\ Goto(t, "undo", FILE_NONE, thr[t].file)
               /\ UNCHANGED <<conf, fds, opened, last>>

(* syscall_fs_close finds the file of a number,                            *)
CloseFind(t, virt) ==
  /\ thr[t].pc = "user" /\ (conf.blind \/ Positions(fds, virt) # {})
  /\ Goto(t, "remove", virt, proc_find_fd_raw(virt))
  /\ UNCHANGED <<conf, fds, opened, last>>

(* removes the first descriptor of this number                             *)
RemoveFd(t) ==
  /\ thr[t].pc = "remove"
  /\ IF Positions(fds, thr[t].virt) = {}
       THEN Return(t) /\ UNCHANGED fds
       ELSE /\ fds' = RemoveAt(fds, First(fds, thr[t].virt))
            /\ Goto(t, "close", thr[t].virt, thr[t].file)
  /\ UNCHANGED <<conf, opened, last>>

(* and closes the file that was found; so does a failed open.              *)
FsClose(t) ==
  /\ thr[t].pc \in {"close", "undo"}
  /\ opened' = opened \ {thr[t].file} /\ Return(t)
  /\ UNCHANGED <<conf, fds, last>>

(* syscall_fs_read and _write find the file and use it if there is one;    *)
(* syscall_fs_getdents uses what it gets.                                  *)
UseFind(t, virt) ==
  /\ thr[t].pc = "user"
  /\ \/ Goto(t, "use", virt, proc_find_fd_raw(virt))
     \/ proc_find_fd_raw(virt) = FILE_NONE /\ Return(t)
  /\ UNCHANGED <<conf, fds, opened, last>>

(* fs_read, fs_write and fs_seek refuse a handle that is not open.         *)
FsUse(t) == /\ thr[t].pc = "use" /\ Return(t)
            /\ UNCHANGED <<conf, fds, opened, last>>

(* Bound: a program tries the numbers 0 and 1.                             *)
Next == \E t \in Threads :
          \/ FsOpen(t) \/ AddFd(t) \/ AddFails(t) \/ RemoveFd(t) \/ FsClose(t) \/ FsUse(t)
          \/ \E virt \in {0, 1} : CloseFind(t, virt) \/ UseFind(t, virt)

-----------------------------------------------------------------------------
(* A handle is open while exactly one descriptor or one call that is to    *)
(* add or to close it has it, and closed when none has: none is lost when  *)
(* memory runs out or several threads close one number.                    *)
HandlesHeld ==
  \A f \in 1 .. last :
    Cardinality({i \in DOMAIN fds : fds[i].real = f})
      + Cardinality({t \in Threads : /\ thr[t].file = f
                                     /\ thr[t].pc \in {"add", "undo", "close"}})
      = IF f \in opened THEN 1 ELSE 0

(***************************************************************************)
(* What a comment says and the code does not do.                           *)
(***************************************************************************)
(* "Find a file in the process file handle list.": each descriptor in the  *)
(* list is found by its number.                                            *)
EachIsFound == \A i \in DOMAIN fds : proc_find_fd_raw(fds[i].virt) = fds[i].real
=============================================================================
