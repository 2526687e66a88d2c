-------------------------------- MODULE Trie --------------------------------
(***************************************************************************)
(* src/mpt/trie.rs and src/mpt/node.rs: the Merkle Patricia trie, as the   *)
(* tree of nodes that insert builds and get walks, and the compact         *)
(* encoding of the key paths in it.  A path is a sequence of nibbles.      *)
(*                                                                         *)
(* root_hash is the Keccak hash of the encoded root node.  It is left out: *)
(* two tries with the same nodes have the same hash.                       *)
(***************************************************************************)
EXTENDS Integers, SequencesExt

Nibble == 0..15

Null == [kind |-> "Null"]

\* Option::None
None == [kind |-> "None"]

Leaf(key_path, value) ==
    [kind |-> "Leaf", key_path |-> key_path, value |-> value]

Extension(key_path, child) ==
    [kind |-> "Extension", key_path |-> key_path, child |-> child]

Branch(children, value) ==
    [kind |-> "Branch", children |-> children, value |-> value]

empty_children == [n \in Nibble |-> Null]

\* path[from..] of the source, from a length that is left out.
Drop(path, from) == SubSeq(path, from + 1, Len(path))

common_prefix(left, right) == Len(LongestCommonPrefix({left, right}))

\* Variant: the rest of a split extension keeps an extension node of its own
\* even when no nibble is left for it.
RestAlwaysExtension(key_path, child) == Extension(Tail(key_path), child)

\* What hangs under the first nibble of an extension's remaining path when the
\* extension is split there.
RestOfExtension(key_path, child) ==
    IF Len(key_path) = 1 THEN child ELSE Extension(Tail(key_path), child)

\* The branch that replaces a leaf or an extension where the new path leaves it,
\* under an extension for the prefix that the two share.  old is what was left of
\* the replaced node's path, rest the node that now holds it, and old_value the
\* value it had when nothing was left.
Split(prefix, old, rest, old_value, new, value) ==
    LET branch ==
            Branch([n \in Nibble |->
                       IF old # << >> /\ n = Head(old) THEN rest
                       ELSE IF new # << >> /\ n = Head(new)
                            THEN Leaf(Tail(new), value)
                       ELSE empty_children[n]],
                   IF old = << >> THEN old_value
                   ELSE IF new = << >> THEN value
                   ELSE None)
    IN  IF prefix = << >> THEN branch ELSE Extension(prefix, branch)

RECURSIVE insert_node(_, _, _)
insert_node(node, path, value) ==
    CASE node.kind = "Null" -> Leaf(path, value)
      [] node.kind = "Leaf" ->
            LET common == common_prefix(node.key_path, path)
                old == Drop(node.key_path, common)
            IN  IF node.key_path = path THEN Leaf(path, value)
                ELSE Split(SubSeq(path, 1, common), old,
                           IF old = << >> THEN Null
                           ELSE Leaf(Tail(old), node.value),
                           node.value, Drop(path, common), value)
      [] node.kind = "Extension" ->
            LET common == common_prefix(node.key_path, path)
                old == Drop(node.key_path, common)
            IN  IF old = << >>
                THEN Extension(node.key_path,
                               insert_node(node.child, Drop(path, common), value))
                ELSE Split(SubSeq(path, 1, common), old,
                           RestOfExtension(old, node.child),
                           None, Drop(path, common), value)
      [] node.kind = "Branch" ->
            IF path = << >> THEN [node EXCEPT !.value = value]
            ELSE [node EXCEPT !.children[Head(path)] =
                     insert_node(@, Tail(path), value)]

RECURSIVE get_node(_, _)
get_node(node, path) ==
    CASE node.kind = "Null" -> None
      [] node.kind = "Leaf" ->
            IF node.key_path = path THEN node.value ELSE None
      [] node.kind = "Extension" ->
            IF IsPrefix(node.key_path, path)
            THEN get_node(node.child, Drop(path, Len(node.key_path)))
            ELSE None
      [] node.kind = "Branch" ->
            IF path = << >> THEN node.value
            ELSE get_node(node.children[Head(path)], Tail(path))

\* The trie that inserting the pairs <<path, value>> builds, in that order.
InsertAll(pairs) ==
    FoldLeft(LAMBDA node, p : insert_node(node, p[1], p[2]), Null, pairs)

-----------------------------------------------------------------------------
(* The compact encoding of a key path: bytes, the first with two flags. *)

\* Variant: the parity flag is forgotten.
compact_encode_no_parity(path, leaf) ==
    LET odd == Len(path) % 2
    IN  <<16 * (IF leaf THEN 2 ELSE 0) + (IF odd = 1 THEN path[1] ELSE 0)>>
          \o [i \in 1..((Len(path) - odd) \div 2) |->
                  16 * path[odd + 2 * i - 1] + path[odd + 2 * i]]

compact_encode(path, leaf) ==
    LET odd == Len(path) % 2
        flags == (IF leaf THEN 2 ELSE 0) + odd
    IN  <<16 * flags + (IF odd = 1 THEN path[1] ELSE 0)>>
          \o [i \in 1..((Len(path) - odd) \div 2) |->
                  16 * path[odd + 2 * i - 1] + path[odd + 2 * i]]

\* bytes_to_nibbles: the two nibbles of every byte, the high one first.
bytes_to_nibbles(bytes) ==
    [i \in 1..2 * Len(bytes) |->
        IF i % 2 = 1 THEN bytes[(i + 1) \div 2] \div 16
        ELSE bytes[i \div 2] % 16]

\* The path and whether it is a leaf's.
compact_decode(encoded) ==
    IF encoded = << >> THEN <<<< >>, FALSE>>
    ELSE LET nibbles == bytes_to_nibbles(encoded)
             flags == nibbles[1]
         IN  <<Drop(nibbles, IF flags % 2 = 1 THEN 1 ELSE 2),
               (flags \div 2) % 2 = 1>>

-----------------------------------------------------------------------------
(* What a trie should be: a definition from its contents alone. *)

\* The trie of a map from paths to values: one leaf when there is one key, a
\* branch on the first nibble when the keys differ there, and an extension over
\* such a branch when they share a prefix.
RECURSIVE TrieOf(_)
TrieOf(map) ==
    LET keys == DOMAIN map
        prefix == LongestCommonPrefix(keys)
        Below(p) == [k \in {Drop(q, Len(p)) : q \in {q \in keys : IsPrefix(p, q)}}
                        |-> map[p \o k]]
    IN  IF keys = {} THEN Null
        ELSE IF \E k \in keys : keys = {k}
             THEN LET k == CHOOSE k \in keys : TRUE IN Leaf(k, map[k])
        ELSE IF prefix # << >> THEN Extension(prefix, TrieOf(Below(prefix)))
        ELSE Branch([n \in Nibble |-> TrieOf(Below(<<n>>))],
                    IF << >> \in keys THEN map[<< >>] ELSE None)

\* Every key path stored in the trie comes back from its compact encoding.
RECURSIVE PathsDecode(_)
PathsDecode(node) ==
    LET RoundTrip(leaf) ==
            compact_decode(compact_encode(node.key_path, leaf))
                = <<node.key_path, leaf>>
    IN  CASE node.kind = "Null" -> TRUE
          [] node.kind = "Leaf" -> RoundTrip(TRUE)
          [] node.kind = "Extension" ->
                RoundTrip(FALSE) /\ PathsDecode(node.child)
          [] node.kind = "Branch" ->
                \A n \in Nibble : PathsDecode(node.children[n])

=============================================================================
