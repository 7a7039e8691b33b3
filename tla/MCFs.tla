-------------------------------- MODULE MCFs --------------------------------
(***************************************************************************)
(* Fs with two threads, three inodes and up to six file numbers, which is  *)
(* three calls of fs_open (each takes one for its walk).                   *)
(***************************************************************************)
EXTENDS Fs

CONSTANTS t1, t2

NewFile == {"READ", "WRITE", "CREATE"}
Dir == {"DIRECTORY", "READ"}

Base ==
  [threads |-> {t1}, opens |-> {}, dirs |-> {}, fails |-> {{}}, lens |-> {}, maxlen |-> 0,
   seeks |-> {}, mounts |-> {<<"/", "RAMFS">>}, slots |-> 2, mountpath |-> <<"d">>,
   mountpoint |-> "/d", names |-> {"a", "d"}, unlink |-> FALSE, race |-> FALSE, maxfile |-> 6]

(* Files and directories come and go.                                      *)
Tree == [Base EXCEPT !.opens = {<<<<"a">>, NewFile>>, <<<<"d", "a">>, NewFile>>, <<<<>>, Dir>>},
                     !.dirs = {<<"d">>}, !.unlink = TRUE]
(* fs_open with every kind of success and refusal.                         *)
Flags == [Base EXCEPT !.opens = {<<<<"a">>, NewFile>>, <<<<"a">>, Dir>>, <<<<>>, {"READ"}>>,
                                 <<<<"a">>, {"READ", "CREATE", "EXCLUSIVE"}>>,
                                 <<<<"a", "d">>, {"READ"}>>}]
(* Two threads write, read and seek in one file through two numbers.       *)
Bytes2 == [Base EXCEPT !.threads = {t1, t2}, !.opens = {<<<<"a">>, NewFile>>}, !.lens = {1, 2},
                       !.maxlen = 3, !.seeks = {<<1, "ABS">>, <<-1, "CUR">>, <<0, "END">>},
                       !.maxfile = 4]
(* Directory listings next to changes of the directory.                    *)
Lists == [Base EXCEPT !.opens = {<<<<>>, Dir>>, <<<<"a">>, NewFile>>}, !.seeks = {<<0, "ABS">>},
                      !.unlink = TRUE, !.maxfile = 4]
(* Mounting on "/" and on a directory.                                     *)
Mounting2 == [Base EXCEPT !.dirs = {<<"d">>}, !.opens = {<<<<"d">>, Dir>>}, !.maxfile = 6,
                          !.mounts = {"/", "/d"} \X {"RAMFS", "UNKNOWN"}]
(* One allocation of a step finds no memory.                               *)
NoMemory == [Base EXCEPT !.opens = {<<<<"d", "a">>, NewFile>>}, !.dirs = {<<"d">>},
                         !.lens = {1, 2}, !.maxlen = 3, !.maxfile = 4,
                         !.fails = {{}, {"first"}, {"shared"}, {"handles"}, {"path"},
                                    {"mount"}}]

AllConfigs == {Tree, Flags, Bytes2, Lists, Mounting2, NoMemory}
TreeConfigs == {Tree}
FlagsConfigs == {Flags}
BytesConfigs == {Bytes2}
ListsConfigs == {Lists}
MountConfigs == {Mounting2}
NoMemConfigs == {NoMemory}
(* The second realloc finds no memory; two threads in fs_open at once.     *)
DotsConfigs == {[NoMemory EXCEPT !.fails = {{}, {"second"}}]}
RaceConfigs == {[Tree EXCEPT !.race = TRUE, !.threads = {t1, t2}, !.unlink = FALSE]}
=============================================================================
