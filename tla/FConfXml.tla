------------------------------ MODULE FConfXml ------------------------------
(***************************************************************************)
(* The tree that holds the settings (services/fconf/fconf_xml.c) and the   *)
(* .cnf files it is saved to and loaded from.                              *)
(*                                                                         *)
(* A tree is a function from the paths of its nodes to their values. Its   *)
(* domain is closed under prefixes: a node has a parent. A path is the     *)
(* sequence of the names on the way to the node, as FtkPath splits it. A   *)
(* node without a value has the value None. The order of siblings is left  *)
(* out: names are unique among siblings, so it decides nothing but the     *)
(* index of get_child. NODE_ATTR_READONLY is left out as well: it is set   *)
(* only on nodes that were loaded from a file, and no xpath reaches those  *)
(* (FileNode).                                                             *)
(***************************************************************************)
EXTENDS Naturals, Sequences

CONSTANTS
    None,       \* a node with no value
    NullText    \* what printf writes for the value of such a node

EmptyTree == [p \in {} |-> None]

(* The parent of the node at p; <<>> is the parent of the roots. *)
Parent(p) == SubSeq(p, 1, Len(p) - 1)

Prefixes(p) == {SubSeq(p, 1, n) : n \in 1..Len(p)}

IsBelow(q, p) == Len(q) >= Len(p) /\ SubSeq(q, 1, Len(p)) = p

Below(tree, p) == {q \in DOMAIN tree : IsBelow(q, p)}

HasChildren(tree, p) == \E q \in DOMAIN tree : q # <<>> /\ Parent(q) = p

(* xml_node_find: it descends by name; every level has to be there. *)
Find(tree, p) == p \in DOMAIN tree

(***************************************************************************)
(* xml_node_add, with the set_value it ends in. A node that is missing on  *)
(* the way is created. Where it has siblings it is appended to them, and   *)
(* xml_node_append_sibling gives it the value meant for the leaf; where it *)
(* is the first child it is created without one.                           *)
(***************************************************************************)
Add(tree, p, v) ==
    [q \in DOMAIN tree \cup Prefixes(p) |->
        IF q = p THEN v
        ELSE IF q \in DOMAIN tree THEN tree[q]
        ELSE IF HasChildren(tree, Parent(q)) THEN v ELSE None]

\* Mutant: the children are left.
DestroyOne(tree, p) == [q \in DOMAIN tree \ {p} |-> tree[q]]

(* xml_node_destroy: the node and all that hangs below it. *)
Destroy(tree, p) == [q \in DOMAIN tree \ Below(tree, p) |-> tree[q]]

(***************************************************************************)
(* xml_node_save: a node with children is written as a tag that carries no *)
(* value; a leaf with its value.                                           *)
(***************************************************************************)
Image(tree, f) ==
    [q \in Below(tree, <<f>>) |->
        IF HasChildren(tree, q) THEN None
        ELSE IF tree[q] = None THEN NullText ELSE tree[q]]

(***************************************************************************)
(* fconf_xml_load_file names the root of what it loads after the last      *)
(* path delimiter of the file name, delimiter included: "/globals" for the *)
(* file globals.cnf. The text in the file starts with the root tag again,  *)
(* which becomes a child of that node.                                     *)
(***************************************************************************)
FileNode(f) == [delimiterAnd |-> f]

Load(disk) ==
    LET loaded == {f \in DOMAIN disk : disk[f] # EmptyTree}
        tops == {<<FileNode(f)>> : f \in loaded}
        inner == UNION {{<<FileNode(f)>> \o q : q \in DOMAIN disk[f]} : f \in loaded}
    IN  [p \in tops \cup inner |->
            IF p \in tops THEN None ELSE disk[p[2]][Tail(p)]]

(***************************************************************************)
(* What a crash in the middle of writing an image leaves in the file: a    *)
(* part of it whose nodes have their parents; an empty file at the least.  *)
(***************************************************************************)
Torn(image) ==
    {[q \in kept |-> image[q]] :
        kept \in {s \in SUBSET DOMAIN image :
                    \A q \in s : Len(q) > 1 => Parent(q) \in s}}

=============================================================================
