------------------------------- MODULE RamFs -------------------------------
(***************************************************************************)
(* The inode table of a mounted RAM file system (vfs_ramfs.c), as          *)
(* functions from one table to the next.  Every function is what the code  *)
(* does between taking and releasing the RAMFS mutex.                      *)
(*                                                                         *)
(* An inode holds directory entries or bytes.  Lengths and capacities are  *)
(* counted in entries for a directory and in bytes for a file: entries of  *)
(* names shorter than eight characters all have 32 bytes, so doubling and  *)
(* halving the capacity come out the same.  A byte is Zero, Junk (memory   *)
(* nobody wrote) or something that a caller wrote.                         *)
(***************************************************************************)
EXTENDS Integers, Sequences, FiniteSets, SequencesExt

CONSTANTS Inodes,      \* inode numbers, 1 .. n
          Zero, Junk   \* bytes

ASSUME InodesAssumption == Inodes = 1 .. Cardinality(Inodes) /\ Inodes # {}

Root == 1              \* VFS_RAMFS_INODE_ROOT
First == 2             \* VFS_RAMFS_INODE_FIRST
Dots == {".", ".."}

Unused == [used |-> FALSE, dir |-> FALSE, ents |-> <<>>, data |-> <<>>,
           cap |-> 0, links |-> 0]
Length(i) == IF i.dir THEN Len(i.ents) ELSE Len(i.data)
Ent(name, n) == [name |-> name, inode |-> n]

(* The smallest power of two that holds size.                              *)
PowerFor(size) ==
  CHOOSE c \in {2^k : k \in 0 .. size} : c >= size /\ \A k \in 0 .. size : 2^k >= size => c <= 2^k

(* The capacity after resize_inode: halved when it is at least twice the   *)
(* size, kept when it suffices, doubled from one otherwise.                *)
resize_inode(cap, size) ==
  IF cap >= 2 * size THEN cap \div 2 ELSE IF cap >= size THEN cap ELSE PowerFor(size)

Grows(cap, size) == cap < size  \* a realloc to more memory, which may fail

(* The first free inode; 0 if there is none.                               *)
find_inode(fs) ==
  LET free == {i \in Inodes : i >= First /\ ~fs[i].used}
  IN IF free = {} THEN 0 ELSE CHOOSE i \in free : \A j \in free : i <= j

FreesAlways(fs, i) == [fs EXCEPT ![i] = Unused]  \* mutant: links are ignored

pop_inode_refcount(fs, i) ==
  IF fs[i].links = 1 THEN [fs EXCEPT ![i] = Unused] ELSE [fs EXCEPT ![i].links = @ - 1]

(* `fails': the realloc finds no memory.                                   *)
insert_dirent(fs, d, ent, fails) ==
  IF fails /\ Grows(fs[d].cap, Len(fs[d].ents) + 1) THEN fs
  ELSE [fs EXCEPT ![d].ents = Append(@, ent),
                  ![d].cap = resize_inode(@, Len(fs[d].ents) + 1)]

find_dirent(fs, d, name) == SelectInSeq(fs[d].ents, LAMBDA e : e.name = name)
Inode(fs, d, name) == fs[d].ents[find_dirent(fs, d, name)].inode
Exists(fs, d, name) == find_dirent(fs, d, name) > 0

remove_dirent(fs, d, k) ==
  [fs EXCEPT ![d].ents = RemoveAt(@, k), ![d].cap = resize_inode(@, Len(fs[d].ents) - 1)]

(* remove_dirent moves all but one entry's worth of bytes down to the hole, *)
(* and not just the entries behind it.                                     *)
Overruns(fs, d, k) == (k - 1) + (Len(fs[d].ents) - 1) > fs[d].cap

(* create_file, with the number of the inode that it set up (0 if none).   *)
(* When the entry finds no memory the inode is not marked as in use.       *)
create_file(fs, d, name, isdir, fails) ==
  LET n == find_inode(fs) IN
  IF Exists(fs, d, name) THEN [fs |-> fs, n |-> 0, ec |-> "EXISTS"]
  ELSE IF n = 0 THEN [fs |-> fs, n |-> 0, ec |-> "NOSPACE"]
  ELSE LET new == [fs EXCEPT ![n] = [Unused EXCEPT !.dir = isdir, !.links = 1]]
           put == insert_dirent(new, d, Ent(name, n), fails)
       IN [fs |-> [put EXCEPT ![n].used = (put # new)], n |-> n, ec |-> "OK"]

(* vfs_ramfs_create_dir; `fails' holds the insertions without memory.      *)
(* insert_dirent reports nothing, so no insertion is ever rolled back.     *)
create_dir(fs, d, name, fails) ==
  LET c == create_file(fs, d, name, TRUE, "first" \in fails) IN
  IF c.ec # "OK" THEN c
  ELSE [c EXCEPT !.fs = insert_dirent(insert_dirent(@, c.n, Ent(".", c.n), "second" \in fails),
                                      c.n, Ent("..", d), "third" \in fails)]

AlwaysEmpty(i) == TRUE  \* mutant: a directory with entries may be unlinked

is_dir_empty(i) == \A k \in DOMAIN i.ents : i.ents[k].name \in Dots

(* vfs_ramfs_unlink; k is where the entry was found.                       *)
unlink(fs, d, k) == remove_dirent(pop_inode_refcount(fs, fs[d].ents[k].inode), d, k)

(* vfs_ramfs_mount from the root directory on, with its two entries; here  *)
(* too nobody hears of an insertion without memory.                        *)
Mounted(fails) ==
  LET new == [i \in Inodes |-> IF i # Root THEN Unused
                ELSE [Unused EXCEPT !.used = TRUE, !.dir = TRUE, !.links = 1]]
      dot == insert_dirent(new, Root, Ent(".", Root), "first" \in fails)
  IN insert_dirent(dot, Root, Ent("..", Root), "second" \in fails)

file_open(fs, i) == [fs EXCEPT ![i].links = @ + 1]
file_close(fs, i) == pop_inode_refcount(fs, i)

(* Bytes offset + 1 .. offset + n.  Out of range: nothing is copied.       *)
InRange(fs, i, offset, n) == n >= 0 /\ offset + n <= Len(fs[i].data)
file_write(fs, i, offset, bytes) ==
  [fs EXCEPT ![i].data = [p \in DOMAIN @ |->
     IF p - offset \in DOMAIN bytes THEN bytes[p - offset] ELSE @[p]]]

ZeroFrom(old) == old    \* file_resize clears what lies beyond the old size

file_resize(fs, i, size) ==
  LET old == Len(fs[i].data) IN
  [fs EXCEPT ![i].cap = resize_inode(@, size),
             ![i].data = [p \in 1 .. size |->
               IF p <= old THEN @[p] ELSE IF p > ZeroFrom(old) THEN Zero ELSE Junk]]
=============================================================================
