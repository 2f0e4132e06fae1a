------------------------------ MODULE Hexastore ------------------------------
(***************************************************************************)
(* lib/hexastore.c: the three tries that index the facts by subject, by    *)
(* predicate and by object.                                                *)
(*                                                                         *)
(* A trie is the set of facts it holds; its order is that of their keys.   *)
(* The radix tree (deps/rax) inserts or removes one key, and an insertion  *)
(* may find no memory.  The caller holds the write lock.                   *)
(***************************************************************************)
EXTENDS Integers, FiniteSets

CONSTANTS
    Symbols     \* the ids of the symbols, from 1

Columns == 1..3

\* P_FIRST and P_LAST, below and above every id.
P_FIRST == 0
P_LAST == Cardinality(Symbols) + 1

\* The order of the columns in each trie.
Trie == [spo |-> <<1, 2, 3>>, pos |-> <<2, 3, 1>>, osp |-> <<3, 1, 2>>]

\* Three ids, the most significant first: the number that the 24 bytes spell.
encode_triple_key(f, index) ==
    LET base == P_LAST + 1
    IN  (f[Trie[index][1]] * base + f[Trie[index][2]]) * base + f[Trie[index][3]]

new_hexastore == [index \in DOMAIN Trie |-> {}]

raxInsert(h, index, f) == [h EXCEPT ![index] = @ \union {f}]

raxRemove(h, index, f) == [h EXCEPT ![index] = @ \ {f}]

\* Mutation: the third insertion fails, and the second trie keeps the fact.
InsertLeavesOne(h, f, fails) ==
    LET one == raxInsert(h, "spo", f)
        two == raxInsert(one, "pos", f)
    IN  CASE fails = "spo" -> h
          [] fails = "pos" -> raxRemove(one, "spo", f)
          [] fails = "osp" -> raxRemove(two, "spo", f)
          [] OTHER -> raxInsert(two, "osp", f)

\* One trie after the other; what was inserted before a failure is taken out.
hexastore_insert(h, f, fails) ==
    LET one == raxInsert(h, "spo", f)
        two == raxInsert(one, "pos", f)
    IN  CASE fails = "spo" -> h
          [] fails = "pos" -> raxRemove(one, "spo", f)
          [] fails = "osp" -> raxRemove(raxRemove(two, "pos", f), "spo", f)
          [] OTHER -> raxInsert(two, "osp", f)

hexastore_remove(h, f) == raxRemove(raxRemove(raxRemove(h, "spo", f), "pos", f), "osp", f)

\* Three new tries with the facts of the first one take the place of the old
\* ones, or nothing happens when memory runs out.
hexastore_compact(h, fails) ==
    IF fails THEN h ELSE [index \in DOMAIN Trie |-> h.spo]
=============================================================================
