------------------------------- MODULE Arena --------------------------------
(***************************************************************************)
(* The arena (arena.c) and what the compiler keeps in it: a Vector (vec.c),*)
(* a PtrTable (ptrtable.c) and nodes that are allocated one by one.  All   *)
(* three share the arena, as those of a pass do; nothing is ever given     *)
(* back, and a vector or a table that grows moves to a new piece.  malloc  *)
(* may refuse a block.                                                     *)
(*                                                                         *)
(* Memory is counted in cells; what is written takes up all its cells.     *)
(***************************************************************************)
EXTENDS Integers, Sequences

CONSTANTS
  DEFAULT_BLOCK_SIZE, MAX_ALIGN, DEFAULT_VEC_SIZE, DEFAULT_PTR_TABLE_CAPACITY,
  PtrSize,   \* sizeof(void*), also its alignment
  ItemSize,  \* item_size of the vector, also its alignment
  NodeSize,  \* size of a node: its alignment is 1, which leaves any place behind
  Values, NULL, Garbage,  \* what may be written; the latter is never written
  MaxBlocks, \* blocks that malloc grants
  MaxCount,  \* bound on the vector's items, and on the nodes
  MaxIndex   \* bound on the table's ids

ASSUME Sizes ==
  /\ {DEFAULT_BLOCK_SIZE, MAX_ALIGN, DEFAULT_VEC_SIZE, DEFAULT_PTR_TABLE_CAPACITY,
      PtrSize, ItemSize, NodeSize, MaxBlocks} \subseteq Nat \ {0}
  /\ MaxCount \in Nat /\ MaxIndex \in Nat
\* A vector and a table fit into the first block with room to spare.
ASSUME FirstBlock ==
  (ItemSize * DEFAULT_VEC_SIZE + PtrSize) + PtrSize * DEFAULT_PTR_TABLE_CAPACITY
    <= DEFAULT_BLOCK_SIZE
ASSUME Distinct == NULL # Garbage /\ {NULL, Garbage} \cap Values = {}

VARIABLES
  blocks,  \* the chain of MemBlocks from start_block to curr_block
  vec,     \* the Vector
  tbl,     \* the PtrTable
  nodes,   \* where the nodes are
  result   \* what the last operation has returned

vars == <<blocks, vec, tbl, nodes, result>>

Last(s) == s[Len(s)]
Max2(a, b) == IF a > b THEN a ELSE b    \* max
round_up(size, align) == LET sum == size + align - 1 IN sum - (sum % align)
choose_block_size(size) == Max2(DEFAULT_BLOCK_SIZE, size + MAX_ALIGN - 1)

\* A block's memory is not initialised.
create_block(size) == [capacity |-> size, used |-> 0,
                       data |-> [a \in 0..(size - 1) |-> Garbage]]

\* Mutant: what is in the block already is not counted.
fits_in_current_block_mutant(bs, size, aligned_used) == size <= Last(bs).capacity

fits_in_current_block(bs, size, aligned_used) ==
  aligned_used <= Last(bs).capacity /\ size <= Last(bs).capacity - aligned_used

\* current_ptr and bump
Bumped(bs, size, at) ==
  [blocks |-> [bs EXCEPT ![Len(bs)].used = at + size],
   p      |-> [block |-> Len(bs), at |-> at]]

Nowhere == [block |-> 0, at |-> 0]

\* What arena_alloc may do and return; Nowhere is its NULL.
arena_alloc(size, align) ==
  LET at == round_up(Last(blocks).used, align)
      grown == Append(blocks, create_block(choose_block_size(size)))
  IN  IF fits_in_current_block(blocks, size, at) THEN {Bumped(blocks, size, at)}
      ELSE {[blocks |-> blocks, p |-> Nowhere]}
             \cup (IF Len(blocks) < MaxBlocks THEN {Bumped(grown, size, 0)} ELSE {})
-----------------------------------------------------------------------------
\* Reading and writing an item of the given size, the i-th from p on.
Cells(p, size, i) == (p.at + size * i)..(p.at + size * i + size - 1)

Read(bs, p, size, i) ==
  LET found == {bs[p.block].data[a] : a \in Cells(p, size, i)}
  IN  IF \E v \in found : found = {v} THEN CHOOSE v \in found : TRUE ELSE Garbage

\* memcpy and memset: the items, which are numbered, are written from p on.
Write(bs, p, size, items) ==
  [bs EXCEPT ![p.block].data =
     [a \in DOMAIN @ |-> LET hit == {i \in DOMAIN items : a \in Cells(p, size, i)}
                         IN  IF hit = {} THEN @[a] ELSE items[CHOOSE i \in hit : TRUE]]]

Init ==
  LET first == create_block(choose_block_size(DEFAULT_BLOCK_SIZE))
      at    == round_up(ItemSize * DEFAULT_VEC_SIZE, PtrSize)
      p     == [block |-> 1, at |-> at]
  IN  /\ vec = [items |-> [block |-> 1, at |-> 0], count |-> 0, capacity |-> DEFAULT_VEC_SIZE]
      /\ tbl = [items |-> p, slots |-> DEFAULT_PTR_TABLE_CAPACITY]
      /\ blocks = Write(<<[first EXCEPT !.used = at + PtrSize * DEFAULT_PTR_TABLE_CAPACITY]>>,
                        p, PtrSize, [i \in 0..(DEFAULT_PTR_TABLE_CAPACITY - 1) |-> NULL])
      /\ nodes = <<>>
      /\ result = NULL

Failed == result' = FALSE /\ UNCHANGED <<blocks, vec, tbl, nodes>>
-----------------------------------------------------------------------------
\* ensure_capacity_vec: the pieces the vector may go on in.
ensure_capacity_vec ==
  IF vec.capacity # vec.count THEN {[blocks |-> blocks, p |-> vec.items]}
  ELSE arena_alloc(ItemSize * (2 * vec.capacity), ItemSize)

\* What has been copied there, if it is another piece, and the new item.
vec_push(v) ==
  /\ vec.count < MaxCount
  /\ \E m \in ensure_capacity_vec :
       \/ m.p = Nowhere /\ Failed
       \/ /\ m.p # Nowhere
          /\ blocks' = Write(m.blocks, m.p, ItemSize,
                             [i \in 0..vec.count |-> IF i = vec.count THEN v
                                                     ELSE Read(blocks, vec.items, ItemSize, i)])
          /\ vec' = [items |-> m.p, count |-> vec.count + 1,
                     capacity |-> IF vec.capacity = vec.count THEN 2 * vec.capacity
                                  ELSE vec.capacity]
          /\ result' = TRUE
          /\ UNCHANGED <<tbl, nodes>>

\* vec_pop: the pointer it returns is read at once.
vec_pop ==
  /\ IF vec.count = 0 THEN result' = NULL /\ UNCHANGED vec
     ELSE /\ vec' = [vec EXCEPT !.count = @ - 1]
          /\ result' = Read(blocks, vec.items, ItemSize, vec.count - 1)
  /\ UNCHANGED <<blocks, tbl, nodes>>
-----------------------------------------------------------------------------
get_ptr_tbl(i) == IF i < tbl.slots THEN Read(blocks, tbl.items, PtrSize, i) ELSE NULL

\* The slots are doubled until there are n.
Enough(slots, n) ==
  {c \in Max2(slots, n)..Max2(slots, 2 * n - 1) : \E k \in 0..n : c = slots * 2 ^ k}

\* ensure_slots: the pieces the table may go on in, and their slots
ensure_slots(n) ==
  UNION {IF c = tbl.slots THEN {[blocks |-> blocks, p |-> tbl.items, slots |-> c]}
         ELSE {[blocks |-> m.blocks, p |-> m.p, slots |-> c] : m \in arena_alloc(PtrSize * c, PtrSize)}
         : c \in Enough(tbl.slots, n)}

\* Mutant: the new slots are left as they are (no zero_set_unused).
set_ptr_tbl_mutant(i, v) ==
  /\ \E m \in ensure_slots(i + 1) :
       \/ m.p = Nowhere /\ Failed
       \/ /\ m.p # Nowhere
          /\ blocks' = Write(m.blocks, m.p, PtrSize,
                             [j \in 0..(m.slots - 1) |-> IF j = i THEN v
                                                         ELSE IF j < tbl.slots THEN get_ptr_tbl(j)
                                                         ELSE Garbage])
          /\ tbl' = [items |-> m.p, slots |-> m.slots]
          /\ result' = TRUE
          /\ UNCHANGED <<vec, nodes>>

\* What was in the table has been copied, and the rest set to zero.
set_ptr_tbl(i, v) ==
  /\ \E m \in ensure_slots(i + 1) :
       \/ m.p = Nowhere /\ Failed
       \/ /\ m.p # Nowhere
          /\ blocks' = Write(m.blocks, m.p, PtrSize,
                             [j \in 0..(m.slots - 1) |-> IF j = i THEN v
                                                         ELSE get_ptr_tbl(j)])
          /\ tbl' = [items |-> m.p, slots |-> m.slots]
          /\ result' = TRUE
          /\ UNCHANGED <<vec, nodes>>

\* A node, such as a diagnostic or its text, is allocated and filled in.  The
\* callers do not look at a NULL: where one is killed by it, here it goes on
\* without the node.
NewNode(v) ==
  /\ Len(nodes) < MaxCount
  /\ \E m \in arena_alloc(NodeSize, 1) :
       \/ m.p = Nowhere /\ Failed
       \/ /\ m.p # Nowhere
          /\ blocks' = Write(m.blocks, m.p, NodeSize, [i \in 0..0 |-> v])
          /\ nodes' = Append(nodes, m.p)
          /\ result' = TRUE
          /\ UNCHANGED <<vec, tbl>>

Next ==
  \/ vec_pop
  \/ \E v \in Values : vec_push(v) \/ NewNode(v)
  \/ \E i \in 0..MaxIndex, v \in Values : set_ptr_tbl(i, v)

Spec == Init /\ [][Next]_vars
-----------------------------------------------------------------------------
\* What arena_alloc has handed out and is still in use: the vector's items, the
\* table's, and the nodes.
Pieces ==
  [k \in -1..Len(nodes) |->
     IF k = -1 THEN [p |-> vec.items, size |-> ItemSize * vec.capacity]
     ELSE IF k = 0 THEN [p |-> tbl.items, size |-> PtrSize * tbl.slots]
     ELSE [p |-> nodes[k], size |-> NodeSize]]

Apart(x, y) == \/ x.p.block # y.p.block
               \/ x.p.at + x.size <= y.p.at
               \/ y.p.at + y.size <= x.p.at

Inside(bs, x) ==
  /\ x.p.block \in DOMAIN bs
  /\ x.p.at + x.size <= bs[x.p.block].used
  /\ bs[x.p.block].used <= bs[x.p.block].capacity

\* Each piece lies in the used part of its block and no two overlap:
\* fits_in_current_block, round_up and choose_block_size together, over any
\* sequence of allocations that change blocks on the way.
PiecesAreApart ==
  /\ \A k \in DOMAIN Pieces : Inside(blocks, Pieces[k])
  /\ \A j, k \in DOMAIN Pieces : j # k => Apart(Pieces[j], Pieces[k])

\* The vector is a sequence, the table a map with NULL where nothing is set, a
\* node what was written to it, through every growth, whatever else is
\* allocated in between, and also when a growth is refused.
Refinement ==
  INSTANCE Containers WITH
    vec   <- [i \in 1..vec.count |-> Read(blocks, vec.items, ItemSize, i - 1)],
    table <- [i \in 0..MaxIndex |-> get_ptr_tbl(i)],
    nodes <- [n \in DOMAIN nodes |-> Read(blocks, nodes[n], NodeSize, 0)]
ContainersImplemented == Refinement!Spec
=============================================================================
