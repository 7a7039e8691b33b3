-------------------------------- MODULE Fs --------------------------------
(***************************************************************************)
(* The file API (filesystem.c) and the tables of open files behind it      *)
(* (vfs_internal.c), over one mounted RAM file system (module RamFs).      *)
(*                                                                         *)
(* A caller's number names a handle in vfs_file_handle_list.  A handle     *)
(* points to a shared file, an object in vfs_file_shared_list that counts  *)
(* the handles on it and holds the inode open.  fs_open is a chain of      *)
(* steps, each under vfs_handle_mtx: it opens a handle on the root         *)
(* directory, walks that handle down the path and opens the file in the    *)
(* directory it reached.  fs_read and fs_write hold the mutex shared.      *)
(*                                                                         *)
(* `vfs' holds the tables.  ptr[t] is thread t's pointer into the handle   *)
(* array: a slot or, once the array moved or lost that slot, the memory    *)
(* as it was.  A step that uses what is not there sets `fault', and the    *)
(* system stops.  The refcount -1 stands for SIZE_MAX.                     *)
(*                                                                         *)
(* `fails' holds the allocations of a step that find no memory: "shared",  *)
(* "handles", "path", "mount", and "first", "second" and "third" for the   *)
(* directory entries in the order of their insertion.                      *)
(***************************************************************************)
EXTENDS RamFs

CONSTANTS Threads, Configs, Objs, NoHandle

VARIABLES conf,      \* what the threads do in this behaviour
          vfs,       \* inodes, objs, slist, handles, hcap, next, ptr, fault
          mounts,    \* vfs_table: mount points, "" in a free slot
          root,      \* vfs_root_index
          mountMtx,  \* vfs_mount_mtx is taken
          thr,       \* what each thread is doing
          given      \* numbers that callers hold

vars == <<conf, vfs, mounts, root, mountMtx, thr, given>>

Idle == [pc |-> "idle", call |-> "none", path |-> <<>>, flags |-> {},
         ent |-> 0, isdir |-> FALSE, file |-> 0, n |-> 0]
NoPtr == [slot |-> 0, copy |-> NoHandle]
NoObj == [refcount |-> 0, index |-> 0, size |-> 0, inode |-> 0,
          open |-> FALSE, onfs |-> FALSE, gone |-> FALSE]

(***************************************************************************)
(* The tables (vfs_internal.c).                                            *)
(***************************************************************************)
Fault(v, f) == IF v.fault = "none" THEN [v EXCEPT !.fault = f] ELSE v
Deref(v, p) == IF p.slot = 0 THEN p.copy ELSE v.handles[p.slot]
Copied(v, p) == [slot |-> 0, copy |-> Deref(v, p)]

(* The root file system has the first slot of vfs_table whenever it is     *)
(* mounted, so `vfs == &vfs_table[vfs_root_index]' still holds for what an *)
(* unmount left open.                                                      *)
vfs_shared_by_inode(v, i) ==
  SelectInSeq(v.slist, LAMBDA o : v.objs[o].onfs /\ v.objs[o].inode = i)
SharedBy(v, i) ==                     \* the shared file itself, 0 for -1
  LET k == vfs_shared_by_inode(v, i) IN IF k = 0 THEN 0 ELSE v.slist[k]
vfs_file_by_handle(v, f) == SelectInSeq(v.handles, LAMBDA h : h.fileno = f)

(* Objects are never freed; those that nothing points to can stand for     *)
(* new ones.                                                               *)
Reached(v) ==
  Range(v.slist) \union {v.handles[k].shared : k \in DOMAIN v.handles}
    \union {v.ptr[t].copy.shared : t \in {u \in Threads : v.ptr[u].copy # NoHandle}}
Unreached(v) == CHOOSE o \in Objs \ Reached(v) : \A p \in Objs \ Reached(v) : o <= p

Forget(v) == [v EXCEPT !.objs = [o \in Objs |-> IF o \in Reached(v) THEN @[o] ELSE NoObj]]

(* The new shared file is o, which is 0 without memory for it or its list. *)
vfs_file_create_shared(v, fails) ==
  LET o == Unreached(v) IN
  IF "shared" \in fails THEN [v |-> v, o |-> 0]
  ELSE [v |-> [v EXCEPT !.objs[o] = [NoObj EXCEPT !.index = Len(v.slist) + 1],
                        !.slist = Append(@, o)],
        o |-> o]

(* The handle array is reallocated: pointers to its slots see old memory.  *)
Moved(v) ==
  [v EXCEPT !.ptr = [t \in Threads |-> IF @[t].slot = 0 THEN @[t] ELSE Copied(v, @[t])]]

NextNo(v) == v.next                   \* next_fileno

(* A handle on the shared file o, on a new one if o is 0.  The handle is   *)
(* number k, 0 without memory; the new shared file stays then.             *)
vfs_file_create_handle(v, o, fails) ==
  LET s == IF o = 0 THEN vfs_file_create_shared(v, fails) ELSE [v |-> v, o |-> o]
      grow == Len(v.handles) >= v.hcap
      w == IF ~grow THEN s.v
           ELSE [Moved(s.v) EXCEPT !.hcap = IF 2 * @ < 2 THEN 2 ELSE 2 * @]
  IN IF s.o = 0 \/ (grow /\ "handles" \in fails) THEN [v |-> s.v, k |-> 0]
     ELSE [v |-> [w EXCEPT !.handles = Append(@, [fileno |-> NextNo(v), shared |-> s.o,
                             offset |-> 0, read |-> FALSE, write |-> FALSE, dir |-> FALSE,
                             cache |-> <<>>]),
                           !.next = @ + 1],
           k |-> Len(v.handles) + 1]

(* The last element takes the place of the one that goes.                  *)
Spliced(s, k) ==
  IF k = Len(s) THEN Front(s) ELSE [Front(s) EXCEPT ![k] = Last(s)]

vfs_file_shared_splice(v, k) ==
  IF k \notin DOMAIN v.slist THEN Fault(v, "splice")
  ELSE [v EXCEPT !.slist = Spliced(@, k)]

vfs_file_handle_splice(v, k) ==
  LET n == Len(v.handles)
      w == [v EXCEPT !.handles = Spliced(@, k),
                     !.ptr = [t \in Threads |->
                                IF @[t].slot = n THEN Copied(v, @[t]) ELSE @[t]]]
  IN IF v.hcap <= 2 * (n - 1) THEN w
     ELSE [Moved(w) EXCEPT !.hcap = IF @ \div 2 < 2 THEN 2 ELSE @ \div 2]

(* Using a shared file needs an inode that is there.                       *)
Live(v, o) ==
  IF ~v.objs[o].open THEN Fault(v, "closed")
  ELSE IF v.objs[o].gone \/ ~v.inodes[v.objs[o].inode].used THEN Fault(v, "freed") ELSE v

vfs_file_close(v, o) ==
  IF Live(v, o).fault # "none" THEN Live(v, o)
  ELSE [v EXCEPT !.inodes = file_close(@, v.objs[o].inode), !.objs[o].open = FALSE]

vfs_file_destroy_handle(v, k) ==
  LET o == v.handles[k].shared
      w == [v EXCEPT !.objs[o].refcount = @ - 1]
      c == IF w.objs[o].refcount # 0 THEN w
           ELSE vfs_file_shared_splice(vfs_file_close(w, o), SelectInSeq(w.slist, LAMBDA p : p = o))
  IN Forget(vfs_file_handle_splice(c, k))

Install(v, o, i, size) ==
  [v EXCEPT !.inodes = file_open(@, i),
            !.objs[o] = [@ EXCEPT !.open = TRUE, !.inode = i, !.onfs = TRUE,
                                  !.refcount = 1, !.size = size]]

(* A directory is searched through its shared file.                        *)
Searched(v, o) ==
  IF Live(v, o).fault # "none" THEN Live(v, o)
  ELSE IF ~v.inodes[v.objs[o].inode].dir THEN Fault(v, "notdir") ELSE v

(* vfs_file_open: o becomes the shared file of `name' in directory d.      *)
OpenChecked(v, d, o, name, flags, fails) ==
  LET dir == v.objs[d].inode
      exists == Exists(v.inodes, dir, name)
      fs == IF flags \cap {"EXCLUSIVE", "CREATE"} = {} THEN v.inodes
            ELSE IF "DIRECTORY" \in flags THEN create_dir(v.inodes, dir, name, fails).fs
            ELSE create_file(v.inodes, dir, name, FALSE, "first" \in fails).fs
      i == Inode(fs, dir, name)
  IN IF "EXCLUSIVE" \in flags /\ exists THEN [v |-> v, ec |-> "EXISTS"]
     ELSE IF "EXCLUSIVE" \in flags /\ "CREATE" \notin flags THEN [v |-> v, ec |-> "NOTFOUND"]
     ELSE IF ~Exists(fs, dir, name)
          THEN [v |-> [v EXCEPT !.inodes = fs], ec |-> "NOTFOUND"]
     ELSE [v |-> Install([v EXCEPT !.inodes = fs], o, i, Length(fs[i])), ec |-> "OK"]

vfs_file_open(v, d, o, name, flags, fails) ==
  LET w == Searched(v, d) IN
  IF w.fault # "none" THEN [v |-> w, ec |-> "OK"]
  ELSE OpenChecked(v, d, o, name, flags, fails)

(***************************************************************************)
(* fs_open.                                                                *)
(***************************************************************************)
Parent(v, t) == Deref(v, v.ptr[t])

(* The tail of root_reopen and dir_reopen: t's directory handle moves from *)
(* its shared file to o.  The old one goes by the index it was created at. *)
Switch(v, t, o) ==
  LET old == Parent(v, t).shared
      p == v.ptr[t]
      s == IF p.slot = 0 THEN [v EXCEPT !.ptr[t].copy.shared = o]
           ELSE [v EXCEPT !.handles[p.slot].shared = o]
      a == [s EXCEPT !.objs[o].refcount = @ + 1]
      w == [a EXCEPT !.objs[old].refcount = @ - 1]
  IN IF w.objs[old].refcount # 0 THEN w
     ELSE Forget(vfs_file_shared_splice(vfs_file_close(w, old), w.objs[old].index))

Uncounted(v, o) == [v EXCEPT !.objs[o].refcount = 0]

root_reopen(v, t, fails) ==
  LET o == SharedBy(v, Root)
      c == vfs_file_create_shared(v, fails)
  IN IF o > 0 THEN [v |-> Switch(v, t, o), ec |-> "OK"]
     ELSE IF c.o = 0 THEN [v |-> v, ec |-> "NOMEM"]
     ELSE [v |-> Switch(Uncounted(Install(c.v, c.o, Root, 0), c.o), t, c.o), ec |-> "OK"]

dir_reopen(v, t, i, name, fails) ==
  LET o == SharedBy(v, i)
      c == vfs_file_create_shared(v, fails)
      f == vfs_file_open(c.v, Parent(c.v, t).shared, c.o, name, {}, {})
  IN IF o > 0 THEN [v |-> Switch(v, t, o), ec |-> "OK"]
     ELSE IF c.o = 0 THEN [v |-> v, ec |-> "NOMEM"]
     ELSE IF f.ec # "OK" THEN [f EXCEPT !.v = vfs_file_shared_splice(@, Len(c.v.slist))]
     ELSE [f EXCEPT !.v = Switch(Uncounted(@, c.o), t, c.o)]

(* root_open: a handle on the root directory.  It does not count itself    *)
(* where the shared file exists.  That the handle found no memory is not   *)
(* tested: the code uses the handle before the first.                      *)
root_open(v, t, fails) ==
  LET o == SharedBy(v, Root)
      h == vfs_file_create_handle(v, o, fails)
      w == IF o > 0 THEN h.v ELSE Install(h.v, h.v.handles[h.k].shared, Root, 0)
  IN IF h.k = 0 THEN Fault(h.v, "nomem")
     ELSE [w EXCEPT !.handles[h.k].read = TRUE, !.handles[h.k].dir = TRUE,
                    !.ptr[t] = [slot |-> h.k, copy |-> NoHandle]]

Readers == {t \in Threads : thr[t].pc \in {"read", "resize", "copy"}}
Running == vfs.fault = "none"
Free(t) == thr[t].pc = "idle"
Alone(t) == conf.race \/ \A u \in Threads \ {t} : Free(u)
Exclusive == Running /\ Readers = {}
Do(t, r) == thr' = [thr EXCEPT ![t] = r]
Go(t, pc) == Do(t, [thr[t] EXCEPT !.pc = pc])
Same == UNCHANGED <<conf, mounts, root, mountMtx, given>>

ValidFlags(flags) ==
  /\ flags \cap {"READ", "WRITE"} # {}
  /\ "DIRECTORY" \in flags => flags \subseteq {"DIRECTORY", "CREATE", "EXCLUSIVE", "READ"}

(* Without a file system at "/" there is no inode table to look into.      *)
Unmounted == root = 0 \/ mounts[root] = ""

Begun(t, call, path, flags, n, fails) ==
  /\ vfs' = IF Unmounted THEN Fault(vfs, "unmounted") ELSE root_open(vfs, t, fails)
  /\ Do(t, [Idle EXCEPT !.pc = "root", !.call = call, !.path = path, !.flags = flags,
                        !.n = n])

(* fs_open up to the handle on the root; `call' is who called it.          *)
Open(t, call, path, flags, fails) ==
  /\ Exclusive /\ Free(t) /\ Alone(t) /\ ValidFlags(flags) /\ vfs.next < conf.maxfile
  /\ Begun(t, call, path, flags, 0, fails)
  /\ Same

(* An error in walk ends fs_open at once, and the handle on the directory  *)
(* it reached stays in the list.                                           *)
Walked(t, r, pc) ==
  IF r.ec = "OK" THEN vfs' = r.v /\ Go(t, pc)
  ELSE vfs' = [r.v EXCEPT !.ptr[t] = NoPtr] /\ Go(t, "failed")

(* walk: the absolute path starts at the root.                             *)
WalkRoot(t, fails) ==
  /\ Exclusive /\ thr[t].pc = "root"
  /\ Walked(t, root_reopen(vfs, t, fails), IF thr[t].path = <<>> THEN "final" ELSE "walk")
  /\ Same

(* walk: one name, with vfs_dir_find_ent, which takes neither              *)
(* vfs_handle_mtx nor the RAMFS mutex.  All but the last name must be      *)
(* there.                                                                  *)
Walk(t) ==
  LET last == Len(thr[t].path) = 1
      d == Parent(vfs, t).shared
      v == Searched(vfs, d)
      found == Exists(v.inodes, v.objs[d].inode, Head(thr[t].path))
      i == Inode(v.inodes, v.objs[d].inode, Head(thr[t].path))
  IN /\ Running /\ thr[t].pc = "walk"
     /\ \/ /\ v.fault # "none" /\ vfs' = v /\ UNCHANGED thr
        \/ /\ v.fault = "none" /\ found /\ UNCHANGED vfs
           /\ Do(t, [thr[t] EXCEPT !.pc = IF last THEN "final" ELSE "descend",
                                   !.ent = i, !.isdir = vfs.inodes[i].dir])
        \/ /\ v.fault = "none" /\ ~found
           /\ Walked(t, [v |-> vfs, ec |-> IF last THEN "OK" ELSE "NOTFOUND"], "final")
     /\ Same

(* walk: the directory of that name, which may have changed meanwhile.     *)
Descend(t, fails) ==
  LET r == dir_reopen(vfs, t, thr[t].ent, Head(thr[t].path), fails) IN
  /\ Exclusive /\ thr[t].pc = "descend"
  /\ vfs' = IF r.ec = "OK" THEN r.v ELSE [r.v EXCEPT !.ptr[t] = NoPtr]
  /\ Do(t, [thr[t] EXCEPT !.path = Tail(@), !.ent = 0, !.isdir = FALSE,
                          !.pc = IF r.ec = "OK" THEN "walk" ELSE "failed"])
  /\ Same

WrongType(t) == thr[t].ent # 0 /\ thr[t].isdir # ("DIRECTORY" \in thr[t].flags)

Named(t) == IF thr[t].path = <<>> THEN "." ELSE Last(thr[t].path)

(* The rest of fs_open: the handle that the caller asked for.  A shared    *)
(* file that exists is used as it is, whatever the flags say.              *)
OpenFile(t, fails) ==
  LET known == IF thr[t].ent = 0 THEN 0 ELSE SharedBy(vfs, thr[t].ent)
      c == vfs_file_create_handle(vfs, known, fails)
      n == c.k
      h == [c.v EXCEPT !.handles[n].read = "READ" \in thr[t].flags,
                       !.handles[n].write = "WRITE" \in thr[t].flags,
                       !.handles[n].dir = "DIRECTORY" \in thr[t].flags]
      f == IF known > 0 THEN [v |-> h, ec |-> "OK"]
           ELSE vfs_file_open(h, Parent(h, t).shared, h.handles[n].shared, Named(t),
                              thr[t].flags, fails)
  IN /\ Exclusive /\ thr[t].pc = "final"
     /\ \/ WrongType(t) /\ UNCHANGED vfs /\ Go(t, "error")
        \/ ~WrongType(t) /\ n = 0 /\ vfs' = c.v /\ Go(t, "error")
        \/ /\ ~WrongType(t) /\ n > 0 /\ f.ec = "OK"
           /\ vfs' = [f.v EXCEPT !.ptr[t] = [slot |-> n, copy |-> NoHandle]]
           /\ Go(t, "return")
        \/ /\ ~WrongType(t) /\ n > 0 /\ f.ec # "OK"
           /\ vfs' = vfs_file_destroy_handle(f.v, n)
           /\ Go(t, "error")
     /\ Same

(* `error:' destroys the directory handle, which a success leaves behind.  *)
OpenError(t) ==
  LET k == vfs_file_by_handle(vfs, Parent(vfs, t).fileno)
      v == IF k = 0 THEN Fault(vfs, "nohandle") ELSE vfs_file_destroy_handle(vfs, k)
  IN /\ Exclusive /\ thr[t].pc = "error"
     /\ vfs' = [v EXCEPT !.ptr[t] = NoPtr]
     /\ Go(t, "failed")
     /\ Same

(* `return ptr->fileno', after the mutex was released.                     *)
OpenReturn(t) ==
  LET f == Parent(vfs, t).fileno IN
  /\ Running /\ thr[t].pc = "return"
  /\ vfs' = [vfs EXCEPT !.ptr[t] = NoPtr]
  /\ IF thr[t].call = "open" THEN Do(t, Idle) /\ given' = given \union {f}
     ELSE Do(t, [thr[t] EXCEPT !.pc = "close", !.file = f]) /\ UNCHANGED given
  /\ UNCHANGED <<conf, mounts, root, mountMtx>>

(* mutex_release asserts that the mutex is taken.                          *)
Released(v) == IF mountMtx THEN v ELSE Fault(v, "release")

(* fs_open returned FILE_NONE.  fs_mount gives up its copy of the path.    *)
OpenFailed(t) ==
  /\ Running /\ thr[t].pc = "failed"
  /\ Do(t, Idle)
  /\ IF thr[t].call = "mount" THEN vfs' = Released(vfs) /\ mountMtx' = FALSE
     ELSE UNCHANGED <<vfs, mountMtx>>
  /\ UNCHANGED <<conf, mounts, root, given>>

Closed(v, f) ==
  LET k == vfs_file_by_handle(v, f) IN IF k = 0 THEN v ELSE vfs_file_destroy_handle(v, k)

(* fs_close, fs_dir_close.                                                 *)
Close(t, f) ==
  /\ Exclusive /\ Free(t) /\ Alone(t) /\ f \in given
  /\ vfs' = Closed(vfs, f)
  /\ given' = given \ {f}
  /\ UNCHANGED <<conf, mounts, root, mountMtx, thr>>

(***************************************************************************)
(* Mounting.                                                               *)
(***************************************************************************)
FreeSlot == SelectInSeq(mounts, LAMBDA m : m = "")

(* fs_mount from the table on: mp is checked.  Only a RAMFS mounts here.   *)
Mounts(type) == FreeSlot > 0 /\ type = "RAMFS"
Mounting(mp, type) ==
  /\ mounts' = IF Mounts(type) THEN [mounts EXCEPT ![FreeSlot] = mp] ELSE mounts
  /\ root' = IF Mounts(type) /\ mp = "/" THEN FreeSlot ELSE root

(* vfs_ramfs_mount looks at the error code, which malloc does not set, and *)
(* clears what it did not get.                                             *)
RamfsMounted(v, mp, type, fails) ==
  IF ~Mounts(type) THEN v
  ELSE IF "mount" \in fails THEN Fault(v, "nomem")
  ELSE IF mp = "/" THEN [v EXCEPT !.inodes = Mounted(fails)] ELSE v

(* mp is an absolute path that fs_is_canonical_path accepts.  With neither *)
(* a type nor media the mutex is released, and once more at the end.       *)
Mount(t, mp, type, fails) ==
  LET Done(v) == IF type = "UNKNOWN" THEN Fault(v, "release") ELSE v
      refused == "path" \in fails \/ mp \in Range(mounts)
  IN
  /\ Exclusive /\ Free(t) /\ Alone(t) /\ ~mountMtx
  /\ \/ /\ refused
        /\ vfs' = Done(vfs)
        /\ UNCHANGED <<mounts, root, mountMtx, thr>>
     \/ /\ ~refused /\ mp = "/"
        /\ Mounting(mp, type)
        /\ vfs' = Done(RamfsMounted(vfs, mp, type, fails))
        /\ UNCHANGED <<mountMtx, thr>>
     \/ /\ ~refused /\ mp # "/" /\ vfs.next < conf.maxfile
        /\ Begun(t, "mount", conf.mountpath, {"DIRECTORY", "READ"},
                 IF type = "RAMFS" THEN 1 ELSE 0, fails)
        /\ mountMtx' = (type # "UNKNOWN")
        /\ UNCHANGED <<mounts, root>>
  /\ UNCHANGED <<conf, given>>

(* fs_dir_create closes the directory it opened, check_mountpoint too.     *)
CloseAfter(t, fails) ==
  LET v == Closed(vfs, thr[t].file)
      type == IF thr[t].n = 1 THEN "RAMFS" ELSE "UNKNOWN"
  IN
  /\ Exclusive /\ thr[t].pc = "close"
  /\ IF thr[t].call = "mount"
     THEN /\ Mounting(conf.mountpoint, type) /\ mountMtx' = FALSE
          /\ vfs' = Released(RamfsMounted(v, conf.mountpoint, type, fails))
     ELSE vfs' = v /\ UNCHANGED <<mounts, root, mountMtx>>
  /\ Do(t, Idle)
  /\ UNCHANGED <<conf, given>>

(* fs_umount's loop over the handles of the file system.  Closing number i *)
(* moves the last one there, and the loop goes on with i + 1.              *)
CloseFrom(v) ==
  LET Step[i \in 0 .. Len(v.handles)] ==
        IF i = 0 THEN v
        ELSE LET w == Step[i - 1] IN
             IF i > Len(w.handles) \/ ~w.objs[w.handles[i].shared].onfs THEN w
             ELSE Closed(w, w.handles[i].fileno)
  IN Step[Len(v.handles)]

(* The inode table is freed under the shared files that are still open.    *)
Unmounting(v) ==
  [v EXCEPT !.inodes = [i \in Inodes |-> Unused],
            !.objs = [o \in Objs |-> [@[o] EXCEPT !.gone = @ \/ v.objs[o].open]]]

(* The path is compared with that of every slot before the one it names,   *)
(* free ones included.                                                     *)
Umount(t, mp) ==
  LET k == SelectInSeq(mounts, LAMBDA m : m = mp)
      free == FreeSlot
      v == CloseFrom(vfs)
  IN /\ Exclusive /\ Free(t) /\ Alone(t)
     /\ \/ /\ free > 0 /\ (k = 0 \/ free < k)
           /\ vfs' = Fault(vfs, "nullpath") /\ UNCHANGED <<mounts, given>>
        \/ /\ k > 0 /\ (free = 0 \/ k < free)
           /\ mounts' = [mounts EXCEPT ![k] = ""]
           /\ vfs' = IF k = root THEN Unmounting(v) ELSE vfs
           /\ given' = {f \in given : vfs_file_by_handle(vfs', f) > 0}
     /\ UNCHANGED <<conf, root, mountMtx, thr>>

(***************************************************************************)
(* Using a file.                                                           *)
(***************************************************************************)
At(f) == vfs_file_by_handle(vfs, f)
Handle(f) == vfs.handles[At(f)]
Shared(f) == Handle(f).shared
InodeOf(f) == vfs.objs[Shared(f)].inode

(* Lookup under vfs_handle_mtx (shared) and the mutex of the handle; the   *)
(* inode must be there and, for bytes, not be a directory's.               *)
Using(t, f) ==
  /\ Running /\ Free(t) /\ f \in given /\ At(f) > 0
  /\ \A u \in Threads : thr[u].pc # "idle" => (u \in Readers /\ thr[u].file # f) \/ conf.race
  /\ \A u \in Readers : thr[u].file # f

Bytes(f) ==
  LET v == Live(vfs, Shared(f)) IN
  IF v.fault = "none" /\ vfs.inodes[InodeOf(f)].dir THEN Fault(v, "rawdir") ELSE v

(* fs_read of a file: first the length is cut to the shared file's size.   *)
Read(t, f, n) ==
  LET h == Handle(f)
      size == vfs.objs[h.shared].size
  IN /\ Using(t, f) /\ h.read /\ ~h.dir
     /\ Do(t, [Idle EXCEPT !.pc = "read", !.file = f,
                           !.n = IF n + h.offset > size THEN size - h.offset ELSE n])
     /\ UNCHANGED vfs /\ Same

(* Then vfs_file_read copies, or finds the range outside of the file; the  *)
(* offset moves in either case.                                            *)
ReadBytes(t) ==
  /\ Running /\ thr[t].pc = "read"
  /\ vfs' = [Bytes(thr[t].file) EXCEPT !.handles[At(thr[t].file)].offset = @ + thr[t].n]
  /\ Do(t, Idle) /\ Same

(* fs_write: a write past the end resizes the file first.                  *)
Write(t, f, n) ==
  LET h == Handle(f) IN
  /\ Using(t, f) /\ h.write /\ h.offset + n <= conf.maxlen
  /\ Do(t, [Idle EXCEPT !.file = f, !.n = n,
              !.pc = IF h.offset + n > vfs.objs[h.shared].size THEN "resize" ELSE "copy"])
  /\ UNCHANGED vfs /\ Same

Resize(t, fails) ==
  LET f == thr[t].file
      size == Handle(f).offset + thr[t].n
      v == Bytes(f)
      nomem == "first" \in fails /\ Grows(vfs.inodes[InodeOf(f)].cap, size)
  IN /\ Running /\ thr[t].pc = "resize"
     /\ vfs' = IF v.fault # "none" \/ nomem THEN v
               ELSE [v EXCEPT !.inodes = file_resize(@, InodeOf(f), size),
                              !.objs[Shared(f)].size = size]
     /\ Go(t, "copy") /\ Same

(* The bytes that thread t writes are t.  The offset stays where it is.    *)
WriteBytes(t) ==
  LET f == thr[t].file
      off == Handle(f).offset
      v == Bytes(f)
  IN /\ Running /\ thr[t].pc = "copy"
     /\ vfs' = IF v.fault # "none" \/ ~InRange(v.inodes, InodeOf(f), off, thr[t].n) THEN v
               ELSE [v EXCEPT !.inodes = file_write(@, InodeOf(f), off, [k \in 1 .. thr[t].n |-> t])]
     /\ Do(t, Idle) /\ Same

Clamp(off, size) == IF off < 0 THEN 0 ELSE IF off > size THEN size ELSE off

(* fs_seek.  A directory's offset counts records of its cache.             *)
Seek(t, f, off, mode) ==
  LET h == Handle(f)
      size == vfs.objs[h.shared].size
      to == CASE mode = "ABS" -> off [] mode = "CUR" -> h.offset + off [] mode = "END" -> size + off
  IN /\ Using(t, f)
     /\ vfs' = [vfs EXCEPT !.handles[At(f)].offset = Clamp(to, IF h.dir THEN Len(h.cache) ELSE size)]
     /\ Same /\ UNCHANGED thr

(* fs_dir_read: a record of the directory as it was when the handle last   *)
(* stood at its beginning.                                                 *)
DirRead(t, f) ==
  LET h == Handle(f)
      v == IF h.offset = 0 THEN Live(vfs, h.shared) ELSE vfs
      ents == IF h.offset = 0 THEN v.inodes[InodeOf(f)].ents ELSE h.cache
  IN /\ Using(t, f) /\ h.read /\ h.dir
     /\ vfs' = IF v.fault # "none" THEN v
               ELSE [v EXCEPT !.handles[At(f)].cache = ents,
                              !.handles[At(f)].offset = IF @ < Len(ents) THEN @ + 1 ELSE @]
     /\ Same /\ UNCHANGED thr

(* vfs_unlink, which nothing calls yet, on a directory that is open.       *)
Unlink(o, name) ==
  LET d == vfs.objs[o].inode
      k == find_dirent(vfs.inodes, d, name)
      i == vfs.inodes[Inode(vfs.inodes, d, name)]
  IN /\ Running /\ conf.unlink /\ o \in Range(vfs.slist)
     /\ vfs.objs[o].open /\ vfs.inodes[d].dir /\ name \notin Dots /\ k > 0
     /\ i.dir => is_dir_empty(i)
     /\ vfs' = IF Overruns(vfs.inodes, d, k) THEN Fault(vfs, "overrun")
               ELSE [vfs EXCEPT !.inodes = unlink(@, d, k)]
     /\ Same /\ UNCHANGED thr

(***************************************************************************)
(* The specification.                                                      *)
(***************************************************************************)
Init ==
  /\ conf \in Configs
  /\ vfs = [inodes |-> [i \in Inodes |-> Unused], objs |-> [o \in Objs |-> NoObj],
            slist |-> <<>>, handles |-> <<>>, hcap |-> 0, next |-> 0,
            ptr |-> [t \in Threads |-> NoPtr], fault |-> "none"]
  /\ mounts = [k \in 1 .. conf.slots |-> ""] /\ root = 0 /\ mountMtx = FALSE
  /\ thr = [t \in Threads |-> Idle] /\ given = {}

Next ==
  \/ \E t \in conf.threads :
       \/ \E fails \in conf.fails :
            \/ \E o \in conf.opens : Open(t, "open", o[1], o[2], fails)
            \/ \E path \in conf.dirs : Open(t, "mkdir", path, {"DIRECTORY", "READ", "CREATE"}, fails)
            \/ WalkRoot(t, fails) \/ Descend(t, fails) \/ OpenFile(t, fails)
            \/ CloseAfter(t, fails) \/ Resize(t, fails)
            \/ \E m \in conf.mounts : Mount(t, m[1], m[2], fails)
       \/ Walk(t) \/ OpenError(t) \/ OpenReturn(t) \/ OpenFailed(t)
       \/ ReadBytes(t) \/ WriteBytes(t)
       \/ \E f \in given : Close(t, f)
       \/ \E f \in given, n \in conf.lens : Read(t, f, n) \/ Write(t, f, n)
       \/ \E f \in given, s \in conf.seeks : Seek(t, f, s[1], s[2])
       \/ \E f \in given : DirRead(t, f)
       \/ \E m \in conf.mounts : Umount(t, m[1])
  \/ \E o \in Objs, name \in conf.names : Unlink(o, name)

Spec == Init /\ [][Next]_vars

(***************************************************************************)
(* Properties.                                                             *)
(***************************************************************************)
(* Types and ranges; in particular the RAMFS never has more bytes or       *)
(* entries in an inode than resize_inode left room for, and no table       *)
(* points outside of another.                                              *)
TypeOK ==
  /\ \A i \in Inodes : LET n == vfs.inodes[i] IN
       /\ n.used \in BOOLEAN /\ n.dir \in BOOLEAN /\ n.links \in Nat
       /\ Length(n) <= n.cap
  /\ \A k \in DOMAIN vfs.slist : vfs.slist[k] \in Objs
  /\ \A k \in DOMAIN vfs.handles : vfs.handles[k].shared \in Objs
  /\ Len(vfs.handles) <= vfs.hcap
  /\ \A t \in Threads : vfs.ptr[t].slot \in 0 .. Len(vfs.handles)
  /\ root \in 0 .. Len(mounts) /\ mountMtx \in BOOLEAN /\ given \subseteq Nat

Used == {i \in Inodes : vfs.inodes[i].used}
Names(i) == {<<d, k>> \in Used \X (1 .. Cardinality(Inodes) + 2) :
               /\ k \in DOMAIN vfs.inodes[d].ents
               /\ vfs.inodes[d].ents[k].inode = i
               /\ vfs.inodes[d].ents[k].name \notin Dots}
Holders(i) ==
  {o \in Reached(vfs) : vfs.objs[o].open /\ ~vfs.objs[o].gone /\ vfs.objs[o].inode = i}

(* The links of an inode are its names and the shared files that hold it   *)
(* open (one more for the root directory): vfs_ramfs_file_open and _close, *)
(* create_file and vfs_ramfs_unlink agree, across any order of opens,      *)
(* unlinks and closes, so an inode is freed by the last of them and not    *)
(* before.                                                                 *)
LinksCounted ==
  \A i \in Used :
    vfs.inodes[i].links = Cardinality(Names(i)) + Cardinality(Holders(i)) + (IF i = Root THEN 1 ELSE 0)

(* No shared file is open on an inode that is free, so a new file never    *)
(* gets the inode of one that is still in use (find_inode).  This is about *)
(* the files that were opened since the file system was mounted.           *)
OpenInodesUsed == \A i \in Inodes \ Used : Holders(i) = {}

(* The directories form a tree: no two entries of a directory have the     *)
(* same name, every entry leads to an inode in use, no inode has two       *)
(* names, a directory's "." is itself and its ".." is where its name is.   *)
TreeIsSound ==
  /\ \A d \in Used : LET e == vfs.inodes[d].ents IN
       /\ \A k \in DOMAIN e : e[k].inode \in Used
       /\ \A k, l \in DOMAIN e : e[k].name = e[l].name => k = l
  /\ \A i \in Used \ {Root} :
       /\ Cardinality(Names(i)) <= 1
       /\ Names(i) = {} => Holders(i) # {}
       /\ vfs.inodes[i].dir =>
            /\ \A name \in Dots : Exists(vfs.inodes, i, name)
            /\ Inode(vfs.inodes, i, ".") = i
            /\ \A n \in Names(i) : Inode(vfs.inodes, i, "..") = n[1]

(* A file is held open only by handles: a shared file that is open has a   *)
(* reference count between one and the number of its handles, so closing   *)
(* them all closes it.                                                     *)
OpenFilesHeld ==
  Running => \A o \in Reached(vfs) : vfs.objs[o].open =>
    vfs.objs[o].refcount \in 1 .. Cardinality({k \in DOMAIN vfs.handles : vfs.handles[k].shared = o})

(* A file holds what was written to it and zeroes: growing it, in whatever *)
(* order two writers check the size, resize and copy, never shows memory   *)
(* that nobody wrote (vfs_ramfs_file_resize).                              *)
NoJunk == \A i \in Inodes : \A p \in DOMAIN vfs.inodes[i].data : vfs.inodes[i].data[p] # Junk

Numbers == {vfs.handles[k].fileno : k \in DOMAIN vfs.handles}

(* The RAM filesystem stays sound: the links of each inode are counted,    *)
(* each directory is reached by one path and has its two dots, and no file *)
(* shows bytes that nobody wrote.                                          *)
TreeSound == TypeOK /\ LinksCounted /\ TreeIsSound /\ NoJunk

(* A shared file that is open keeps its inode until it is closed, whatever *)
(* is unlinked (vfs_ramfs_file_open, vfs_ramfs_unlink), and is closed when *)
(* its last handle goes at the latest, also after an fs_open that failed   *)
(* half-way (vfs_file_destroy_handle).  It may be closed too early: see    *)
(* HandleKeepsFile.                                                        *)
FilesSound == OpenInodesUsed /\ OpenFilesHeld

(***************************************************************************)
(* What comments in the code say and the code does not do.                 *)
(***************************************************************************)
(* "If this is the last handle referring to one file, the shared handle is *)
(* closed too": the file of a number that a caller holds stays open.       *)
HandleKeepsFile == Running => \A f \in given : At(f) > 0 /\ vfs.objs[Shared(f)].open

(* A shared file's `index' is its place in vfs_file_shared_list.           *)
IndexIsPlace ==
  Running => \A k \in DOMAIN vfs.slist : vfs.objs[vfs.slist[k]].index = k

(* OFLAGS_EXCLUSIVE is an "Error if it exists on opening".                 *)
ExclusiveCreates ==
  [][\A t \in Threads : thr[t].pc = "final" /\ "EXCLUSIVE" \in thr[t].flags /\ thr[t].ent # 0
       => thr'[t].pc # "return"]_vars

(* OFLAGS_DIRECTORY opens "a directory instead of a file", and without it  *)
(* fs_open is for files.                                                   *)
OpenedAsAsked ==
  Running => \A f \in given : vfs.objs[Shared(f)].open =>
    Handle(f).dir = vfs.inodes[InodeOf(f)].dir

(* walk tests every element of the path that has to be a directory ("Test  *)
(* for directory.").                                                       *)
WalksDirectories == vfs.fault # "notdir"

(* fs_umount closes the handles of the file system ("Close file            *)
(* handles.").                                                             *)
UmountCloses == root > 0 /\ Unmounted => vfs.handles = <<>>

(* fs_mount releases vfs_mount_mtx as often as it takes it.                *)
MountMutexBalanced == vfs.fault # "release"

(* fs_write returns "the amount of data successfully written", which it    *)
(* takes for the amount it was asked to write: what was resized is still   *)
(* there when the bytes are copied.                                        *)
WriteLands ==
  Running => \A t \in Threads : thr[t].pc = "copy" /\ vfs.objs[Shared(thr[t].file)].open =>
    InRange(vfs.inodes, InodeOf(thr[t].file), Handle(thr[t].file).offset, thr[t].n)

(* remove_dirent moves the "entries further in" and no byte outside of the *)
(* directory's buffer.                                                     *)
RemoveFits == vfs.fault # "overrun"

(* An allocation that fails is an error code (ECAUSE_NOMEM) for the caller *)
(* of fs_open and fs_mount, and the system goes on.                        *)
NoMemReported == vfs.fault # "nomem"

(* Every call that fs_open answered or refused has given back the handle   *)
(* on the root directory that it walked with.                              *)
WalkHandleGone ==
  Running /\ (\A t \in Threads : Free(t)) => Numbers \subseteq given
=============================================================================
