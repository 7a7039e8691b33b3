--------------------------------- MODULE Dtb ---------------------------------
(***************************************************************************)
(* The device tree that the boot loader leaves: dtb_open turns the words   *)
(* of its structure block into a tree, and dtparse finds drivers for the   *)
(* devices of the "soc" node.  A word is a number, of BytesPerWord bytes;  *)
(* a name is a number too, and the bytes of its text are conf.length.      *)
(***************************************************************************)
EXTENDS Integers, Sequences, SequencesExt, FiniteSetsExt

CONSTANTS Configs,      \* [magic, words, tree, length, drivers]
          Phandle, Compatible, Soc  \* the names "phandle", "compatible", "soc"

VARIABLES conf,
          stack,    \* the calls of dtb_parse_node, the outermost first
          root,     \* the root node, once it is parsed
          todo,     \* nodes that dtb_build_refs has yet to visit, in order
          phandles, \* the nodes that have a phandle, sorted
          at,       \* "parse", "refs", "probe" or how dtparse ended
          dev,      \* the device that dtparse is at
          inits     \* the calls dtb_init(device) of drivers

vars == <<conf, stack, root, todo, phandles, at, dev, inits>>

FDT_BEGIN_NODE == 1
FDT_END_NODE == 2
FDT_PROP == 3
FDT_NOP == 4
FDT_END == 9

BytesPerWord == 4
WordValues == 256                   \* 2^32 in the code
MaxValues == WordValues * WordValues  \* uintmax_t
ByteValues == 4                     \* 2^8 in the code

(* struct_blk[offset]; the block is followed by other data.                *)
Word(offset) == IF offset < Len(conf.words) THEN conf.words[offset + 1] ELSE 0

SkipNops(offset) ==
  CHOOSE o \in offset .. offset + Len(conf.words) :
    Word(o) # FDT_NOP /\ \A i \in offset .. o - 1 : Word(i) = FDT_NOP

Slash == 99  \* the name of the root, whatever the blob says

NoNode == [name |-> 0, depth |-> 0, props |-> <<>>, nodes |-> <<>>]

Call(offset, depth) ==
  [phase |-> "begin", offset |-> offset, node |-> [NoNode EXCEPT !.depth = depth]]

Init ==
  /\ conf \in Configs
  /\ stack = <<Call(0, 0)>> /\ root = NoNode /\ todo = <<>> /\ phandles = <<>>
  /\ at = "parse" /\ dev = 1 /\ inits = <<>>

-----------------------------------------------------------------------------
(* dtb_prop_read_uint and dtb_prop_read_cells.                             *)
Byte(content, i) ==
  (content[i \div BytesPerWord + 1] \div ByteValues^(BytesPerWord - 1 - (i % BytesPerWord)))
     % ByteValues

dtb_prop_read_uint(prop) ==
  FoldLeft(LAMBDA val, i : (val * ByteValues + Byte(prop.content, i - 1)) % MaxValues, 0,
           [i \in 1 .. prop.content_len |-> i])

dtb_prop_read_cells(prop, idx, count) ==
  FoldLeft(LAMBDA val, i : (val * WordValues + prop.content[i + idx]) % MaxValues, 0,
           [i \in 1 .. count |-> i])

(* dtb_get_node and dtb_get_prop: the first of that name, if any.          *)
dtb_get(seq, name) == SelectSeq(seq, LAMBDA x : x.name = name)

(***************************************************************************)
(* dtb_parse_node, one turn of its loops at a time.  The innermost call is *)
(* in its phase; "False" is its return without effect on *offset_ptr, upon *)
(* which the loop of its caller ends.                                      *)
(***************************************************************************)
Top == Last(stack)

Continue(call) == stack' = Front(stack) \o <<call>> /\ UNCHANGED <<root, at, todo>>

False ==
  /\ root' = root /\ todo' = todo
  /\ IF Len(stack) = 1
     THEN stack' = <<>> /\ at' = "panic"
     ELSE /\ stack' = [Front(stack) EXCEPT ![Len(stack) - 1].phase = "end"]
          /\ UNCHANGED at

(* dtb_open after the root node is parsed: the FDT_END token.              *)
Opened(node, offset) ==
  /\ stack' = <<>> /\ root' = [node EXCEPT !.name = Slash]
  /\ IF Word(SkipNops(offset)) = FDT_END
     THEN at' = "refs" /\ todo' = <<[node EXCEPT !.name = Slash]>>
     ELSE at' = "panic" /\ todo' = <<>>

True(offset) ==
  IF Len(stack) = 1 THEN Opened(Top.node, offset)
  ELSE /\ stack' = [Front(stack) EXCEPT ![Len(stack) - 1].offset = offset,
                                        ![Len(stack) - 1].node.nodes = Append(@, Top.node)]
       /\ UNCHANGED <<root, at, todo>>

NameWords(name) == conf.length[name] \div BytesPerWord + 1

Begin ==
  LET o == SkipNops(Top.offset)
      name == Word(o + 1)
  IN /\ Top.phase = "begin"
     /\ IF ~conf.magic \/ Word(o) # FDT_BEGIN_NODE THEN False
        ELSE Continue([phase |-> "props", offset |-> o + 1 + NameWords(name),
                       node |-> [Top.node EXCEPT !.name = name]])

RoundedDown(len) == len \div BytesPerWord  \* mutant: content_len / 4

ContentWords(len) == (len + BytesPerWord - 1) \div BytesPerWord

dtb_parse_prop ==
  LET o == SkipNops(Top.offset)
      len == Word(o + 1)
      n == ContentWords(len)
      prop == [name |-> Word(o + 2), content_len |-> len,
               content |-> [i \in 1 .. n |-> Word(o + 2 + i)]]
  IN /\ Top.phase = "props"
     /\ Continue(IF Word(o) = FDT_PROP
                 THEN [Top EXCEPT !.offset = o + 3 + n, !.node.props = Append(@, prop)]
                 ELSE [Top EXCEPT !.phase = "nodes"])

Child ==
  /\ Top.phase = "nodes"
  /\ stack' = Append(stack, Call(Top.offset, Top.node.depth + 1))
  /\ UNCHANGED <<root, at, todo>>

End ==
  LET o == SkipNops(Top.offset)
  IN /\ Top.phase = "end"
     /\ IF Word(o) = FDT_END_NODE THEN True(o + 1) ELSE False

dtb_parse_node ==
  /\ at = "parse" /\ (Begin \/ dtb_parse_prop \/ Child \/ End)
  /\ UNCHANGED <<conf, phandles, dev, inits>>

(***************************************************************************)
(* dtb_build_refs visits a node before its children, and enters it in the  *)
(* sorted table.  phandle_cmp is the difference as an int.                 *)
(***************************************************************************)
phandle_of(node) == dtb_prop_read_uint(dtb_get(node.props, Phandle)[1]) % WordValues

phandle_cmp(a, b) ==
  LET d == (phandle_of(a) - phandle_of(b)) % WordValues
  IN IF d >= WordValues \div 2 THEN d - WordValues ELSE d

InsertPhandle(node) ==
  LET before == Cardinality({i \in DOMAIN phandles : phandle_cmp(phandles[i], node) <= 0})
  IN SubSeq(phandles, 1, before) \o <<node>> \o SubSeq(phandles, before + 1, Len(phandles))

dtb_build_refs ==
  /\ at = "refs" /\ todo # <<>>
  /\ todo' = Head(todo).nodes \o Tail(todo)
  /\ phandles' = IF dtb_get(Head(todo).props, Phandle) = <<>> THEN phandles
                 ELSE InsertPhandle(Head(todo))
  /\ UNCHANGED <<conf, stack, root, at, dev, inits>>

(* dtb_phandle_node, a binary search: the nodes that it may return.        *)
dtb_phandle_node(p) == {phandles[i] : i \in {j \in DOMAIN phandles : phandle_of(phandles[j]) = p}}

(***************************************************************************)
(* dtparse: the "soc" node is found, and for each device the first of its  *)
(* compatible strings, of one word each, that a driver supports.           *)
(***************************************************************************)
dtparse ==
  /\ at = "refs" /\ todo = <<>>
  /\ at' = IF dtb_get(root.nodes, Soc) = <<>> THEN "fault" ELSE "probe"
  /\ UNCHANGED <<conf, stack, root, todo, phandles, dev, inits>>

Devices == dtb_get(root.nodes, Soc)[1].nodes

check_drivers(compat) ==
  {d \in DOMAIN conf.drivers : conf.drivers[d].dtb /\ compat \in Range(conf.drivers[d].supports)}

CompatStrings(node) ==
  LET p == dtb_get(node.props, Compatible) IN IF p = <<>> THEN <<>> ELSE p[1].content

Probe ==
  LET strings == CompatStrings(Devices[dev])
      known == {i \in DOMAIN strings : check_drivers(strings[i]) # {}}
  IN /\ at = "probe" /\ dev <= Len(Devices)
     /\ dev' = dev + 1
     /\ inits' = IF known = {} THEN inits
                 ELSE Append(inits, [device |-> dev,
                                     driver |-> Min(check_drivers(strings[Min(known)]))])
     /\ UNCHANGED <<conf, stack, root, todo, phandles, at>>

Next == dtb_parse_node \/ dtb_build_refs \/ dtparse \/ Probe

Spec == Init /\ [][Next]_vars

-----------------------------------------------------------------------------
TypeOK ==
  /\ conf \in Configs /\ at \in {"parse", "refs", "probe", "panic", "fault"}
  /\ \A i \in DOMAIN stack : stack[i].phase \in {"begin", "props", "nodes", "end"}
  /\ dev \in Nat /\ \A i \in DOMAIN inits : inits[i].device < dev

(* Whatever NOPs are between the tokens, and although content and names    *)
(* may look like tokens, the tree that is read is the tree that was        *)
(* written; a block that is not a tree is refused.                         *)
TreeRead ==
  /\ at = "panic" => conf.tree = NoNode
  /\ at \in {"refs", "probe"} => root = conf.tree

(* While it parses, the offset of a call never moves back past that of its *)
(* caller, and nodes are as deep as the calls.                             *)
ParseAdvances ==
  \A i \in DOMAIN stack :
    /\ stack[i].node.depth = i - 1
    /\ i > 1 => stack[i - 1].offset <= stack[i].offset /\ stack[i - 1].phase = "nodes"

(* The table is sorted, and finds for each phandle the node that has it.   *)
PhandlesFound ==
  at = "probe" =>
    /\ \A i, j \in DOMAIN phandles : i < j => phandle_of(phandles[i]) < phandle_of(phandles[j])
    /\ \A n \in Range(root.nodes) \union Range(Devices) :
         dtb_get(n.props, Phandle) # <<>> => dtb_phandle_node(phandle_of(n)) = {n}

(* A number reads alike by bytes and by cells.                             *)
NumbersAgree ==
  at = "probe" =>
    \A n \in Range(Devices) : \A p \in Range(n.props) :
      p.content_len % BytesPerWord = 0 =>
        dtb_prop_read_uint(p) = dtb_prop_read_cells(p, 0, p.content_len \div BytesPerWord)

(* A device gets one driver, and no other compatible string that a driver  *)
(* supports comes before the one for which it was chosen.                  *)
OneDriver ==
  \A i \in DOMAIN inits :
    LET s == CompatStrings(Devices[inits[i].device])
        d == conf.drivers[inits[i].driver]
    IN /\ \A j \in 1 .. i - 1 : inits[j].device < inits[i].device
       /\ \E k \in DOMAIN s : /\ s[k] \in Range(d.supports)
                              /\ \A e \in Range(conf.drivers), l \in 1 .. k - 1 :
                                   ~(e.dtb /\ s[l] \in Range(e.supports))
=============================================================================
