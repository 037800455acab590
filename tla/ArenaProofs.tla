---------------------------- MODULE ArenaProofs -----------------------------
(***************************************************************************)
(* The pieces of an Arena never overlap, and the vector, the table and the *)
(* nodes that are kept in it are what Containers says, for every size of   *)
(* blocks and items, every initial capacity and every value.               *)
(***************************************************************************)
EXTENDS Arena, SequenceTheorems, TLAPS

Cell     == Values \cup {NULL, Garbage}
Contents == UNION {[0..(n - 1) -> Cell] : n \in Nat}
Block    == [capacity : Nat, used : Nat, data : Contents]
Ptr      == [block : Nat, at : Nat]

BlockOK(b) == /\ b \in Block
              /\ b.used <= b.capacity
              /\ DOMAIN b.data = 0..(b.capacity - 1)

BlocksOK(bs) == bs \in Seq(Block) /\ bs # <<>> /\ \A n \in DOMAIN bs : BlockOK(bs[n])

TypeOK ==
  /\ BlocksOK(blocks)
  /\ vec \in [items : Ptr, count : Nat, capacity : Nat \ {0}]
  /\ vec.count <= vec.capacity
  /\ tbl \in [items : Ptr, slots : Nat \ {0}]
  /\ nodes \in Seq(Ptr)

IInv == TypeOK /\ PiecesAreApart

\* ms is bs with one piece more, or bs itself when the piece at p was there.
Grown(bs, ms, p, size) ==
  /\ BlocksOK(ms)
  /\ Len(bs) <= Len(ms)
  /\ \A n \in DOMAIN bs : /\ ms[n].data = bs[n].data
                          /\ ms[n].capacity = bs[n].capacity
                          /\ bs[n].used <= ms[n].used
  /\ p \in Ptr
  /\ p.block \in DOMAIN ms
  /\ p.at + size <= ms[p.block].used
  /\ p.block \in DOMAIN bs => bs[p.block].used <= p.at
-----------------------------------------------------------------------------
LEMMA RoundUp ==
  ASSUME NEW size \in Nat, NEW align \in Nat \ {0}
  PROVE  /\ round_up(size, align) \in Nat
         /\ size <= round_up(size, align)
         /\ round_up(size, align) <= size + align - 1
<1> DEFINE sum == size + align - 1
<1>1. sum \in Nat /\ sum % align \in 0..(align - 1)
  OBVIOUS
<1>2. round_up(size, align) = sum - (sum % align)
  BY Zenon DEF round_up
<1>3. PICK r \in 0..(align - 1) : r = sum % align
  BY <1>1
<1> QED
  BY <1>1, <1>2, <1>3

LEMMA NewBlock ==
  ASSUME NEW size \in Nat
  PROVE  /\ BlockOK(create_block(choose_block_size(size)))
         /\ create_block(choose_block_size(size)).capacity >= size
         /\ create_block(choose_block_size(size)).used = 0
<1> DEFINE c == choose_block_size(size)
           d == [a \in 0..(c - 1) |-> Garbage]
<1>1. c \in Nat /\ c >= size
  BY Sizes DEF choose_block_size, Max2
<1>2. d \in [0..(c - 1) -> Cell]
  BY DEF Cell
<1>3. d \in Contents
  BY <1>1, <1>2 DEF Contents
<1>4. create_block(c) = [capacity |-> c, used |-> 0, data |-> d]
  BY DEF create_block
<1> HIDE DEF d, c
<1>5. create_block(c) \in Block
  BY <1>1, <1>3, <1>4 DEF Block
<1>6. DOMAIN d = 0..(c - 1)
  BY <1>2
<1>7. BlockOK(create_block(c))
  BY <1>1, <1>4, <1>5, <1>6 DEF BlockOK
<1> QED
  BY <1>1, <1>4, <1>7 DEF c

\* arena_alloc hands out cells that nobody had, or nothing.
LEMMA Alloc ==
  ASSUME BlocksOK(blocks), NEW size \in Nat, NEW align \in Nat \ {0},
         NEW m \in arena_alloc(size, align)
  PROVE  \/ m.p = Nowhere /\ m.blocks = blocks
         \/ m.p # Nowhere /\ Grown(blocks, m.blocks, m.p, size)
<1> DEFINE L   == Len(blocks)
           at  == round_up(Last(blocks).used, align)
           new == create_block(choose_block_size(size))
           grown == Append(blocks, new)
<1>1. L \in Nat \ {0} /\ DOMAIN blocks = 1..L
  BY DEF BlocksOK
<1>2. BlockOK(blocks[L]) /\ Last(blocks) = blocks[L]
  BY <1>1 DEF BlocksOK, Last
<1>3. at \in Nat /\ blocks[L].used <= at
  BY <1>2, RoundUp DEF BlockOK, Block
<1>4. CASE fits_in_current_block(blocks, size, at)
  <2>1. m = Bumped(blocks, size, at)
    BY <1>4 DEF arena_alloc
  <2>2. at + size <= blocks[L].capacity
    BY <1>2, <1>3, <1>4 DEF fits_in_current_block, BlockOK, Block
  <2> DEFINE b == [blocks[L] EXCEPT !.used = at + size]
             ms == [blocks EXCEPT ![L] = b]
  <2>3. m.blocks = ms /\ m.p = [block |-> L, at |-> at]
    BY <2>1 DEF Bumped
  <2>4. BlockOK(b)
    BY <1>2, <1>3, <2>2 DEF BlockOK, Block
  <2>5. b.used = at + size /\ b.data = blocks[L].data /\ b.capacity = blocks[L].capacity
    BY <1>2 DEF BlockOK, Block
  <2> HIDE DEF b
  <2>6. ms \in Seq(Block) /\ Len(ms) = L /\ ms[L] = b /\ \A n \in 1..L : n # L => ms[n] = blocks[n]
    <3>1. b \in Block /\ blocks \in Seq(Block) /\ L \in 1..Len(blocks)
      BY <1>1, <2>4 DEF BlocksOK, BlockOK
    <3> QED
      BY <3>1
  <2>7. BlocksOK(ms)
    BY <1>1, <2>4, <2>6 DEF BlocksOK
  <2>8. \A n \in 1..L : blocks[n].used \in Nat
    BY <1>1 DEF BlocksOK, BlockOK, Block
  <2>9. \A n \in 1..L : /\ ms[n].data = blocks[n].data
                        /\ ms[n].capacity = blocks[n].capacity
                        /\ blocks[n].used <= ms[n].used
    BY <1>1, <1>2, <1>3, <2>5, <2>6, <2>8
  <2>10. m.p \in Ptr /\ m.p.block = L /\ m.p.at = at /\ m.p # Nowhere
    BY <1>1, <1>3, <2>3 DEF Ptr, Nowhere
  <2> HIDE DEF ms
  <2> QED
    BY <1>1, <1>3, <2>3, <2>5, <2>6, <2>7, <2>9, <2>10 DEF Grown
<1>5. CASE ~fits_in_current_block(blocks, size, at)
  <2>1. \/ m = [blocks |-> blocks, p |-> Nowhere]
        \/ m = Bumped(grown, size, 0)
    BY <1>5 DEF arena_alloc
  <2>2. CASE m = [blocks |-> blocks, p |-> Nowhere]
    BY <2>2
  <2>3. CASE m = Bumped(grown, size, 0)
    <3> DEFINE b == [new EXCEPT !.used = 0 + size]
               ms == [grown EXCEPT ![L + 1] = b]
    <3>1. BlockOK(new) /\ new.capacity >= size /\ new.used = 0
      BY NewBlock
    <3> HIDE DEF new
    <3>2. BlockOK(b) /\ b.used = size
      BY <3>1 DEF BlockOK, Block
    <3>3. grown \in Seq(Block) /\ Len(grown) = L + 1 /\ grown[L + 1] = new
          /\ \A n \in 1..L : grown[n] = blocks[n]
      BY <1>1, <3>1 DEF BlocksOK, BlockOK
    <3> HIDE DEF grown
    <3>4. m.blocks = ms /\ m.p = [block |-> L + 1, at |-> 0]
      BY <2>3, <3>3 DEF Bumped
    <3> HIDE DEF b
    <3>5. ms \in Seq(Block) /\ Len(ms) = L + 1 /\ ms[L + 1] = b
          /\ \A n \in 1..L : ms[n] = blocks[n]
      BY <1>1, <3>2, <3>3 DEF BlockOK
    <3> HIDE DEF ms
    <3>6. BlocksOK(ms)
      BY <1>1, <3>2, <3>5 DEF BlocksOK
    <3>7. \A n \in 1..L : blocks[n].used \in Nat
      BY <1>1 DEF BlocksOK, BlockOK, Block
    <3>8. m.p \in Ptr /\ m.p.block = L + 1 /\ m.p.at = 0 /\ m.p # Nowhere
      BY <1>1, <3>4 DEF Ptr, Nowhere
    <3> QED
      BY <1>1, <3>2, <3>4, <3>5, <3>6, <3>7, <3>8 DEF Grown
  <2> QED
    BY <2>1, <2>2, <2>3
<1> QED
  BY <1>4, <1>5
-----------------------------------------------------------------------------
LEMMA Times ==
  ASSUME NEW size \in Nat, NEW i \in Nat, NEW j \in Nat, i < j
  PROVE  size * i + size <= size * j /\ size * i \in Nat /\ size * j \in Nat
<1>1. PICK k \in Nat : j = i + 1 + k
  <2>1. j - i - 1 \in Nat /\ j = i + 1 + (j - i - 1)
    OBVIOUS
  <2> QED
    BY <2>1
<1>2. size * j = size * i + size + size * k /\ size * k >= 0
  BY <1>1
<1> QED
  BY <1>2

\* The items of an array have cells of their own, and those within the array.
LEMMA CellsOf ==
  ASSUME NEW p \in Ptr, NEW size \in Nat \ {0}, NEW n \in Nat, NEW i \in 0..(n - 1)
  PROVE  /\ \A a \in Cells(p, size, i) : a \in Nat /\ p.at <= a /\ a < p.at + size * n
         /\ \A j \in 0..(n - 1) : j # i => Cells(p, size, i) \cap Cells(p, size, j) = {}
         /\ p.at + size * i \in Cells(p, size, i)
<1>1. p.at \in Nat /\ size * i \in Nat /\ size * i + size <= size * n /\ size * n \in Nat
  BY Times DEF Ptr
<1>2. ASSUME NEW j \in 0..(n - 1), j # i
      PROVE  Cells(p, size, i) \cap Cells(p, size, j) = {}
  <2>1. CASE i < j
    <3>1. size * i + size <= size * j /\ size * j \in Nat
      BY <2>1, Times
    <3> QED
      BY <1>1, <3>1 DEF Cells
  <2>2. CASE j < i
    <3>1. size * j + size <= size * i /\ size * j \in Nat
      BY <2>2, Times
    <3> QED
      BY <1>1, <3>1 DEF Cells
  <2> QED
    BY <1>2, <2>1, <2>2
<1>3. \A a \in Cells(p, size, i) : a \in Nat /\ p.at <= a /\ a < p.at + size * n
  BY <1>1 DEF Cells
<1>4. p.at + size * i \in Cells(p, size, i)
  BY <1>1 DEF Cells
<1> QED
  BY <1>2, <1>3, <1>4

\* An array of n items at p lies in the used part of its block.
Holds(bs, p, size, n) == /\ p \in Ptr
                         /\ p.block \in DOMAIN bs
                         /\ p.at + size * n <= bs[p.block].used

\* In w there are items in place of the n that bs has at p, and else what is in bs.
Overwritten(bs, w, p, size, n, items) ==
  /\ BlocksOK(w)
  /\ Len(w) = Len(bs)
  /\ \A b \in DOMAIN bs : w[b].used = bs[b].used /\ w[b].capacity = bs[b].capacity
  /\ \A b \in DOMAIN bs : b # p.block => w[b] = bs[b]
  /\ \A i \in 0..(n - 1) : \A a \in Cells(p, size, i) : w[p.block].data[a] = items[i]
  /\ \A a \in 0..(bs[p.block].capacity - 1) :
       a < p.at \/ p.at + size * n <= a => w[p.block].data[a] = bs[p.block].data[a]

LEMMA Written ==
  ASSUME NEW bs, BlocksOK(bs), NEW p, NEW size \in Nat \ {0}, NEW n \in Nat,
         Holds(bs, p, size, n),
         NEW items, DOMAIN items = 0..(n - 1), \A i \in 0..(n - 1) : items[i] \in Cell
  PROVE  Overwritten(bs, Write(bs, p, size, items), p, size, n, items)
<1> DEFINE old == bs[p.block].data
           hit(a) == {i \in DOMAIN items : a \in Cells(p, size, i)}
           cell(a) == IF hit(a) = {} THEN old[a] ELSE items[CHOOSE i \in hit(a) : TRUE]
           d == [a \in DOMAIN old |-> cell(a)]
           blk == [bs[p.block] EXCEPT !.data = d]
           w == Write(bs, p, size, items)
           c == bs[p.block].capacity
<1>1. bs \in Seq(Block) /\ p.block \in 1..Len(bs) /\ BlockOK(bs[p.block])
  BY DEF BlocksOK, Holds
<1>2. /\ bs[p.block] \in Block /\ c \in Nat /\ bs[p.block].used <= c
      /\ DOMAIN old = 0..(c - 1) /\ old \in [0..(c - 1) -> Cell]
  <2>1. bs[p.block] \in Block /\ c \in Nat /\ bs[p.block].used <= c /\ DOMAIN old = 0..(c - 1)
    BY <1>1 DEF BlockOK, Block
  <2>2. PICK k \in Nat : old \in [0..(k - 1) -> Cell]
    BY <1>1 DEF BlockOK, Block, Contents
  <2>3. 0..(k - 1) = 0..(c - 1)
    BY <2>1, <2>2
  <2> QED
    BY <2>1, <2>2, <2>3
<1>3. w = [bs EXCEPT ![p.block] = blk]
  BY <1>1, <1>2 DEF Write
<1>4. ASSUME NEW a \in 0..(c - 1)
      PROVE  cell(a) \in Cell
  <2>1. CASE hit(a) = {}
    BY <1>2, <2>1
  <2>2. CASE hit(a) # {}
    BY <2>2
  <2> QED
    BY <2>1, <2>2
<1>5. d \in [0..(c - 1) -> Cell]
  BY <1>2, <1>4
<1>6. ASSUME NEW i \in 0..(n - 1), NEW a \in Cells(p, size, i)
      PROVE  a \in 0..(c - 1) /\ cell(a) = items[i]
  <2>1. a \in Nat /\ a < p.at + size * n
    BY CellsOf DEF Holds
  <2>2. a \in 0..(c - 1)
    <3>1. p.at + size * n <= c
      <4>1. p.at \in Nat /\ size * n \in Nat /\ bs[p.block].used \in Nat
        BY <1>2 DEF Holds, Ptr, Block
      <4> QED
        BY <1>2, <4>1 DEF Holds
    <3>2. p.at \in Nat /\ size * n \in Nat
      BY DEF Holds, Ptr
    <3> QED
      BY <1>2, <2>1, <3>1, <3>2
  <2>3. \A j \in 0..(n - 1) : j # i => a \notin Cells(p, size, j)
    BY CellsOf DEF Holds
  <2>4. hit(a) = {i}
    BY <2>3
  <2> QED
    BY <2>2, <2>4
<1>7. ASSUME NEW a \in 0..(c - 1), a < p.at \/ p.at + size * n <= a
      PROVE  cell(a) = old[a]
  <2>1. \A i \in 0..(n - 1) : a \notin Cells(p, size, i)
    <3>1. SUFFICES ASSUME NEW i \in 0..(n - 1), a \in Cells(p, size, i)
                   PROVE  FALSE
      OBVIOUS
    <3>2. p.at \in Nat /\ size * n \in Nat
      BY DEF Holds, Ptr
    <3>3. p.at <= a /\ a < p.at + size * n
      BY <3>1, CellsOf DEF Holds
    <3> QED
      BY <1>7, <3>2, <3>3
  <2> QED
    BY <2>1
<1> HIDE DEF cell, hit
<1>8. \A a \in 0..(c - 1) : d[a] = cell(a)
  BY <1>2
<1> HIDE DEF d
<1>9. /\ blk \in Block /\ blk.data = d /\ blk.used = bs[p.block].used
      /\ blk.capacity = bs[p.block].capacity
  <2>1. d \in Contents
    BY <1>2, <1>5 DEF Contents
  <2> QED
    BY <1>2, <2>1 DEF Block
<1>10. BlockOK(blk)
  BY <1>2, <1>5, <1>9 DEF BlockOK
<1> HIDE DEF blk
<1>11. /\ w \in Seq(Block) /\ Len(w) = Len(bs) /\ w[p.block] = blk
       /\ \A b \in 1..Len(bs) : b # p.block => w[b] = bs[b]
  BY <1>1, <1>3, <1>9
<1> HIDE DEF w, c, old
<1>12. BlocksOK(w)
  BY <1>1, <1>10, <1>11 DEF BlocksOK
<1>13. \A b \in DOMAIN bs : w[b].used = bs[b].used /\ w[b].capacity = bs[b].capacity
  BY <1>1, <1>9, <1>11
<1> QED
  BY <1>1, <1>6, <1>7, <1>8, <1>9, <1>11, <1>12, <1>13 DEF w, c, old, Overwritten
-----------------------------------------------------------------------------
\* Reading depends on the item's cells only.
LEMMA ReadSame ==
  ASSUME NEW bs, NEW cs, NEW p, NEW size, NEW i,
         \A a \in Cells(p, size, i) : bs[p.block].data[a] = cs[p.block].data[a]
  PROVE  Read(bs, p, size, i) = Read(cs, p, size, i)
<1>1. {bs[p.block].data[a] : a \in Cells(p, size, i)} = {cs[p.block].data[a] : a \in Cells(p, size, i)}
  OBVIOUS
<1> QED
  BY <1>1 DEF Read

\* An item that has been written is read.
LEMMA ReadWritten ==
  ASSUME NEW bs, NEW w, NEW p \in Ptr, NEW size \in Nat \ {0}, NEW n \in Nat,
         NEW items, Overwritten(bs, w, p, size, n, items), NEW i \in 0..(n - 1)
  PROVE  Read(w, p, size, i) = items[i]
<1> DEFINE found == {w[p.block].data[a] : a \in Cells(p, size, i)}
<1>1. \A a \in Cells(p, size, i) : w[p.block].data[a] = items[i]
  BY DEF Overwritten
<1>2. p.at + size * i \in Cells(p, size, i)
  BY CellsOf
<1>3. found = {items[i]}
  BY <1>1, <1>2
<1> QED
  BY <1>3 DEF Read

\* An item of a piece apart from the one written is read as before.
LEMMA ReadApart ==
  ASSUME NEW bs, BlocksOK(bs), NEW w, NEW p \in Ptr, NEW size \in Nat \ {0}, NEW n \in Nat,
         NEW items, Overwritten(bs, w, p, size, n, items),
         NEW q, NEW sz \in Nat \ {0}, NEW m \in Nat, Holds(bs, q, sz, m),
         Apart([p |-> p, size |-> size * n], [p |-> q, size |-> sz * m]),
         NEW i \in 0..(m - 1)
  PROVE  Read(w, q, sz, i) = Read(bs, q, sz, i)
<1>1. CASE q.block # p.block
  <2>1. w[q.block] = bs[q.block]
    BY <1>1 DEF Holds, Overwritten
  <2> QED
    BY <2>1, ReadSame
<1>2. CASE q.block = p.block
  <2>1. PICK x \in Nat, y \in Nat : x = size * n /\ y = sz * m
    OBVIOUS
  <2>2. /\ p.at \in Nat /\ q.at \in Nat
        /\ p.at + x <= q.at \/ q.at + y <= p.at
    BY <1>2, <2>1 DEF Holds, Ptr, Apart
  <2>3. BlockOK(bs[q.block]) /\ q.at + y <= bs[q.block].used
    BY <2>1 DEF BlocksOK, Holds
  <2>4. /\ bs[q.block].used \in Nat /\ bs[q.block].capacity \in Nat
        /\ bs[q.block].used <= bs[q.block].capacity
    BY <2>3 DEF BlockOK, Block
  <2>5. ASSUME NEW a \in Cells(q, sz, i)
        PROVE  w[q.block].data[a] = bs[q.block].data[a]
    <3>1. a \in Nat /\ q.at <= a /\ a < q.at + y
      BY <2>1, CellsOf DEF Holds
    <3>2. a \in 0..(bs[q.block].capacity - 1) /\ (a < p.at \/ p.at + x <= a)
      BY <2>2, <2>3, <2>4, <3>1
    <3> QED
      BY <1>2, <2>1, <3>2 DEF Overwritten
  <2> QED
    BY <2>5, ReadSame
<1> QED
  BY <1>1, <1>2

LEMMA ReadInCell ==
  ASSUME NEW bs, BlocksOK(bs), NEW p, NEW size \in Nat \ {0}, NEW n \in Nat,
         Holds(bs, p, size, n), NEW i \in 0..(n - 1)
  PROVE  Read(bs, p, size, i) \in Cell
<1> DEFINE found == {bs[p.block].data[a] : a \in Cells(p, size, i)}
<1>1. BlockOK(bs[p.block])
  BY DEF BlocksOK, Holds
<1>2. /\ bs[p.block].used \in Nat /\ bs[p.block].capacity \in Nat
      /\ bs[p.block].used <= bs[p.block].capacity
      /\ p.at + size * n <= bs[p.block].used
      /\ p.at \in Nat /\ size * n \in Nat
  BY <1>1 DEF BlockOK, Block, Holds, Ptr
<1>3. PICK k \in Nat : bs[p.block].data \in [0..(k - 1) -> Cell]
  BY <1>1 DEF BlockOK, Block, Contents
<1>4. ASSUME NEW a \in Cells(p, size, i)
      PROVE  bs[p.block].data[a] \in Cell
  <2>1. a \in Nat /\ a < p.at + size * n
    BY CellsOf DEF Holds
  <2>2. a \in 0..(bs[p.block].capacity - 1)
    BY <1>2, <2>1
  <2>3. a \in 0..(k - 1)
    BY <1>1, <1>3, <2>2 DEF BlockOK
  <2> QED
    BY <1>3, <2>3
<1>5. Garbage \in Cell
  BY DEF Cell
<1> QED
  BY <1>4, <1>5 DEF Read
-----------------------------------------------------------------------------
\* In ms the piece k may go on, or begin, at p.
Ready(ms, p, size, k) ==
  /\ BlocksOK(ms)
  /\ DOMAIN blocks \subseteq DOMAIN ms
  /\ \A b \in DOMAIN blocks : ms[b].data = blocks[b].data
  /\ p \in Ptr
  /\ Inside(ms, [p |-> p, size |-> size])
  /\ \A j \in DOMAIN Pieces \ {k} : /\ Inside(ms, Pieces[j])
                                    /\ Apart([p |-> p, size |-> size], Pieces[j])
                                    /\ Apart(Pieces[j], [p |-> p, size |-> size])

LEMMA PieceTypes ==
  ASSUME TypeOK
  PROVE  \A k \in DOMAIN Pieces : Pieces[k] \in [p : Ptr, size : Nat]
<1>1. DOMAIN Pieces = -1..Len(nodes) /\ Len(nodes) \in Nat
  BY DEF Pieces, TypeOK
<1>2. /\ [p |-> vec.items, size |-> ItemSize * vec.capacity] \in [p : Ptr, size : Nat]
      /\ [p |-> tbl.items, size |-> PtrSize * tbl.slots] \in [p : Ptr, size : Nat]
  <2>1. ItemSize \in Nat /\ vec.capacity \in Nat /\ PtrSize \in Nat /\ tbl.slots \in Nat
    BY Sizes DEF TypeOK
  <2>2. ItemSize * vec.capacity \in Nat /\ PtrSize * tbl.slots \in Nat
    BY <2>1
  <2> QED
    BY <2>2 DEF TypeOK
<1>3. ASSUME NEW k \in 1..Len(nodes)
      PROVE  [p |-> nodes[k], size |-> NodeSize] \in [p : Ptr, size : Nat]
  BY Sizes DEF TypeOK
<1>4. ASSUME NEW k \in -1..Len(nodes)
      PROVE  Pieces[k] \in [p : Ptr, size : Nat]
  <2>1. k = -1 \/ k = 0 \/ k \in 1..Len(nodes)
    BY <1>1
  <2>2. CASE k = -1
    BY <1>2, <2>2 DEF Pieces
  <2>3. CASE k = 0
    BY <1>2, <2>3 DEF Pieces
  <2>4. CASE k \in 1..Len(nodes)
    BY <1>3, <2>4 DEF Pieces
  <2> QED
    BY <2>1, <2>2, <2>3, <2>4
<1> QED
  BY <1>1, <1>4

LEMMA ReadyAlloc ==
  ASSUME IInv, NEW ms, NEW p, NEW size \in Nat, Grown(blocks, ms, p, size), NEW k
  PROVE  Ready(ms, p, size, k)
<1>1. /\ Len(blocks) \in Nat /\ Len(ms) \in Nat /\ Len(blocks) <= Len(ms)
      /\ DOMAIN blocks = 1..Len(blocks) /\ DOMAIN ms = 1..Len(ms)
  BY DEF IInv, TypeOK, BlocksOK, Grown
<1>2. DOMAIN blocks \subseteq DOMAIN ms
  BY <1>1
<1>3. \A b \in DOMAIN ms : ms[b].used \in Nat /\ ms[b].capacity \in Nat /\ ms[b].used <= ms[b].capacity
  BY DEF Grown, BlocksOK, BlockOK, Block
<1>4. Inside(ms, [p |-> p, size |-> size])
  BY <1>3 DEF Grown, Inside
<1>5. ASSUME NEW j \in DOMAIN Pieces
      PROVE  /\ Inside(ms, Pieces[j])
             /\ Apart([p |-> p, size |-> size], Pieces[j])
             /\ Apart(Pieces[j], [p |-> p, size |-> size])
  <2> DEFINE x == Pieces[j]
  <2>1. x.p \in Ptr /\ x.size \in Nat
    BY PieceTypes DEF IInv
  <2>2. Inside(blocks, x)
    BY DEF IInv, PiecesAreApart
  <2> HIDE DEF x
  <2>3. \A b \in DOMAIN blocks : blocks[b].used \in Nat
    BY DEF IInv, TypeOK, BlocksOK, BlockOK, Block
  <2>4. x.p.at + x.size \in Nat
    BY <2>1 DEF Ptr
  <2>5. x.p.at + x.size <= ms[x.p.block].used
    BY <1>2, <1>3, <2>2, <2>3, <2>4 DEF Inside, Grown
  <2>6. Inside(ms, x)
    BY <1>2, <1>3, <2>2, <2>5 DEF Inside
  <2>7. x.p.block = p.block => x.p.at + x.size <= p.at
    BY <2>2, <2>3, <2>4 DEF Inside, Grown, Ptr
  <2> QED
    BY <2>6, <2>7 DEF Apart, x
<1> QED
  BY <1>2, <1>4, <1>5 DEF Ready, Grown

LEMMA ReadySame ==
  ASSUME IInv, NEW k \in DOMAIN Pieces
  PROVE  Ready(blocks, Pieces[k].p, Pieces[k].size, k)
<1>1. Pieces[k].p \in Ptr /\ Pieces[k] = [p |-> Pieces[k].p, size |-> Pieces[k].size]
  BY PieceTypes DEF IInv
<1>2. BlocksOK(blocks) /\ Inside(blocks, Pieces[k])
  BY DEF IInv, TypeOK, PiecesAreApart
<1>3. \A j \in DOMAIN Pieces \ {k} : /\ Inside(blocks, Pieces[j])
                                     /\ Apart(Pieces[k], Pieces[j])
                                     /\ Apart(Pieces[j], Pieces[k])
  BY DEF IInv, PiecesAreApart
<1> QED
  BY <1>1, <1>2, <1>3 DEF Ready

\* Writing to a piece that is ready leaves the others apart ...
LEMMA PiecesStay ==
  ASSUME IInv, NEW ms, NEW p, NEW size, NEW k \in DOMAIN Pieces', Ready(ms, p, size, k),
         Len(blocks') = Len(ms), DOMAIN blocks' = DOMAIN ms,
         \A b \in DOMAIN ms : blocks'[b].used = ms[b].used /\ blocks'[b].capacity = ms[b].capacity,
         Pieces'[k] = [p |-> p, size |-> size],
         \A j \in DOMAIN Pieces' \ {k} : j \in DOMAIN Pieces /\ Pieces'[j] = Pieces[j]
  PROVE  PiecesAreApart'
<1>1. PICK q : q = Pieces'
  OBVIOUS
<1>2. PICK w : w = blocks'
  OBVIOUS
<1>3. ASSUME NEW x, Inside(ms, x)
      PROVE  Inside(w, x)
  BY <1>2, <1>3 DEF Inside
<1>4. \A j \in DOMAIN q : Inside(w, q[j])
  BY <1>1, <1>3 DEF Ready
<1>5. ASSUME NEW i \in DOMAIN q, NEW j \in DOMAIN q, i # j
      PROVE  Apart(q[i], q[j])
  <2>1. CASE i = k
    BY <1>1, <1>5, <2>1 DEF Ready
  <2>2. CASE j = k
    BY <1>1, <1>5, <2>2 DEF Ready
  <2>3. CASE i # k /\ j # k
    BY <1>1, <1>5, <2>3 DEF IInv, PiecesAreApart
  <2> QED
    BY <2>1, <2>2, <2>3
<1> QED
  BY <1>1, <1>2, <1>4, <1>5 DEF PiecesAreApart, Inside, Apart

\* Every array in a piece other than k reads in w as it does in blocks.
OthersSame(w, k) ==
  \A j \in DOMAIN Pieces \ {k} : \A sz \in Nat \ {0}, m \in Nat :
    Pieces[j].size = sz * m =>
      \A i \in 0..(m - 1) : Read(w, Pieces[j].p, sz, i) = Read(blocks, Pieces[j].p, sz, i)

\* ... and what is in them.
LEMMA OthersKept ==
  ASSUME IInv, NEW ms, NEW p, NEW size \in Nat \ {0}, NEW cap \in Nat, NEW k,
         Ready(ms, p, size * cap, k),
         NEW n \in 0..cap, NEW w, NEW items, Overwritten(ms, w, p, size, n, items)
  PROVE  OthersSame(w, k)
<1>a. SUFFICES ASSUME NEW j \in DOMAIN Pieces, j # k, NEW sz \in Nat \ {0}, NEW m \in Nat,
                      Pieces[j].size = sz * m, NEW i \in 0..(m - 1)
               PROVE  Read(w, Pieces[j].p, sz, i) = Read(blocks, Pieces[j].p, sz, i)
  BY DEF OthersSame
<1>b. PICK q : q = Pieces[j].p
  OBVIOUS
<1>c. Pieces[j] = [p |-> q, size |-> sz * m]
  BY <1>a, <1>b, PieceTypes DEF IInv
<1>1. PICK x \in Nat, y \in Nat, z \in Nat : x = size * n /\ y = sz * m /\ z = size * cap
  OBVIOUS
<1>2. x <= z
  <2>1. n = cap \/ n < cap
    OBVIOUS
  <2>2. n < cap => size * n + size <= size * cap
    BY Times
  <2> QED
    BY <1>1, <2>1, <2>2
<1>3. q \in Ptr
  BY <1>b, PieceTypes DEF IInv
<1>4. Inside(ms, Pieces[j]) /\ Apart([p |-> p, size |-> size * cap], Pieces[j])
  BY <1>a DEF Ready
<1>5. Holds(ms, q, sz, m)
  BY <1>3, <1>4, <1>c DEF Inside, Holds
<1>6. Apart([p |-> p, size |-> size * n], [p |-> q, size |-> sz * m])
  <2>1. p \in Ptr
    BY DEF Ready
  <2> QED
    BY <1>1, <1>2, <1>3, <1>4, <1>c, <2>1 DEF Apart, Ptr
<1>7. Read(w, q, sz, i) = Read(ms, q, sz, i)
  <2>1. p \in Ptr /\ BlocksOK(ms) /\ n \in Nat
    BY DEF Ready
  <2> QED
    BY <1>5, <1>6, <2>1, ReadApart
<1>8. q.block \in DOMAIN blocks
  BY <1>b DEF IInv, PiecesAreApart, Inside
<1>9. Read(ms, q, sz, i) = Read(blocks, q, sz, i)
  BY <1>8, ReadSame DEF Ready
<1> QED
  BY <1>b, <1>7, <1>9
-----------------------------------------------------------------------------
\* The room for n of the cap items of a piece that is ready.
LEMMA HoldsFewer ==
  ASSUME NEW ms, NEW p, NEW size \in Nat \ {0}, NEW cap \in Nat, NEW k,
         Ready(ms, p, size * cap, k), NEW n \in 0..cap
  PROVE  Holds(ms, p, size, n)
<1>1. PICK x \in Nat, z \in Nat : x = size * n /\ z = size * cap
  OBVIOUS
<1>2. x <= z
  <2>1. n = cap \/ n < cap
    OBVIOUS
  <2>2. n < cap => size * n + size <= size * cap
    BY Times
  <2> QED
    BY <1>1, <2>1, <2>2
<1>3. ms[p.block].used \in Nat
  BY DEF Ready, BlocksOK, BlockOK, Block, Inside
<1> QED
  BY <1>1, <1>2, <1>3 DEF Ready, Inside, Holds, Ptr

\* The items of the vector and the table are in cells of theirs.
LEMMA HoldsOwn ==
  ASSUME IInv
  PROVE  /\ Holds(blocks, vec.items, ItemSize, vec.count)
         /\ Holds(blocks, tbl.items, PtrSize, tbl.slots)
<1>1. -1 \in DOMAIN Pieces /\ 0 \in DOMAIN Pieces
  BY DEF Pieces, IInv, TypeOK
<1>2. /\ Pieces[-1] = [p |-> vec.items, size |-> ItemSize * vec.capacity]
      /\ Pieces[0] = [p |-> tbl.items, size |-> PtrSize * tbl.slots]
  BY <1>1 DEF Pieces
<1>3. Ready(blocks, vec.items, ItemSize * vec.capacity, -1)
  BY <1>1, <1>2, ReadySame
<1>4. Ready(blocks, tbl.items, PtrSize * tbl.slots, 0)
  BY <1>1, <1>2, ReadySame
<1>5. /\ ItemSize \in Nat \ {0} /\ PtrSize \in Nat \ {0}
      /\ vec.capacity \in Nat /\ tbl.slots \in Nat
      /\ vec.count \in 0..vec.capacity /\ tbl.slots \in 0..tbl.slots
  BY Sizes DEF IInv, TypeOK
<1>6. Holds(blocks, vec.items, ItemSize, vec.count)
  BY <1>3, <1>5, HoldsFewer
<1>7. Holds(blocks, tbl.items, PtrSize, tbl.slots)
  BY <1>4, <1>5, HoldsFewer
<1> QED
  BY <1>6, <1>7

\* What the mapping sees.
VecOf(bs)   == [i \in 1..vec.count |-> Read(bs, vec.items, ItemSize, i - 1)]
TblOf(bs)   == [i \in 0..MaxIndex |-> IF i < tbl.slots THEN Read(bs, tbl.items, PtrSize, i)
                                      ELSE NULL]
NodesOf(bs) == [n \in DOMAIN nodes |-> Read(bs, nodes[n], NodeSize, 0)]

LEMMA Kept ==
  ASSUME IInv, NEW w, NEW k, OthersSame(w, k)
  PROVE  /\ k # -1 => VecOf(w) = VecOf(blocks)
         /\ k # 0 => TblOf(w) = TblOf(blocks)
         /\ k \notin DOMAIN nodes => NodesOf(w) = NodesOf(blocks)
<1>1. /\ DOMAIN Pieces = -1..Len(nodes) /\ Len(nodes) \in Nat
      /\ DOMAIN nodes = 1..Len(nodes)
  BY DEF Pieces, IInv, TypeOK
<1>2. /\ Pieces[-1] = [p |-> vec.items, size |-> ItemSize * vec.capacity]
      /\ Pieces[0] = [p |-> tbl.items, size |-> PtrSize * tbl.slots]
      /\ \A j \in DOMAIN nodes : Pieces[j] = [p |-> nodes[j], size |-> NodeSize]
  BY <1>1 DEF Pieces
<1>3. /\ ItemSize \in Nat \ {0} /\ PtrSize \in Nat \ {0} /\ NodeSize \in Nat \ {0}
      /\ vec.capacity \in Nat /\ tbl.slots \in Nat /\ vec.count \in 0..vec.capacity
  BY Sizes DEF IInv, TypeOK
<1>4. ASSUME k # -1
      PROVE  VecOf(w) = VecOf(blocks)
  <2>1. ASSUME NEW i \in 1..vec.count
        PROVE  Read(w, vec.items, ItemSize, i - 1) = Read(blocks, vec.items, ItemSize, i - 1)
    <3>1. i - 1 \in 0..(vec.capacity - 1) /\ -1 \in DOMAIN Pieces \ {k}
      BY <1>1, <1>3, <1>4
    <3>2. Pieces[-1].p = vec.items /\ Pieces[-1].size = ItemSize * vec.capacity
      BY <1>2
    <3> QED
      BY <1>3, <3>1, <3>2 DEF OthersSame
  <2> QED
    BY <2>1 DEF VecOf
<1>5. ASSUME k # 0
      PROVE  TblOf(w) = TblOf(blocks)
  <2>1. ASSUME NEW i \in 0..MaxIndex, i < tbl.slots
        PROVE  Read(w, tbl.items, PtrSize, i) = Read(blocks, tbl.items, PtrSize, i)
    <3>1. i \in 0..(tbl.slots - 1) /\ 0 \in DOMAIN Pieces \ {k}
      BY <1>1, <1>3, <1>5, <2>1, Sizes
    <3>2. Pieces[0].p = tbl.items /\ Pieces[0].size = PtrSize * tbl.slots
      BY <1>2
    <3>3. \A n \in 0..(tbl.slots - 1) :
            Read(w, Pieces[0].p, PtrSize, n) = Read(blocks, Pieces[0].p, PtrSize, n)
      BY <1>3, <3>1, <3>2 DEF OthersSame
    <3> QED
      BY <3>1, <3>2, <3>3
  <2> QED
    BY <2>1 DEF TblOf
<1>6. ASSUME k \notin DOMAIN nodes
      PROVE  NodesOf(w) = NodesOf(blocks)
  <2>1. ASSUME NEW j \in DOMAIN nodes
        PROVE  Read(w, nodes[j], NodeSize, 0) = Read(blocks, nodes[j], NodeSize, 0)
    <3>1. j \in DOMAIN Pieces \ {k}
      BY <1>1, <1>6
    <3>2. NodeSize = NodeSize * 1
      <4>1. \A x \in Nat : x = x * 1
        OBVIOUS
      <4> QED
        BY <1>3, <4>1
    <3>3. Pieces[j].p = nodes[j] /\ Pieces[j].size = NodeSize * 1
      <4>0. Pieces[j] = [p |-> nodes[j], size |-> NodeSize]
        BY <1>2, Zenon
      <4>1. Pieces[j].p = nodes[j] /\ Pieces[j].size = NodeSize
        BY <4>0
      <4> QED
        BY <3>2, <4>1, Zenon
    <3>4. \A i \in 0..(1 - 1) : Read(w, Pieces[j].p, NodeSize, i) = Read(blocks, Pieces[j].p, NodeSize, i)
      BY <1>3, <3>1, <3>3 DEF OthersSame
    <3>5. 0 \in 0..(1 - 1)
      OBVIOUS
    <3> QED
      BY <3>3, <3>4, <3>5
  <2> QED
    BY <2>1 DEF NodesOf
<1> QED
  BY <1>4, <1>5, <1>6
-----------------------------------------------------------------------------
LEMMA InitCorrect ==
  ASSUME Init
  PROVE  IInv /\ Refinement!Init
<1> DEFINE c  == choose_block_size(DEFAULT_BLOCK_SIZE)
           at == round_up(ItemSize * DEFAULT_VEC_SIZE, PtrSize)
           p  == [block |-> 1, at |-> at]
           N  == DEFAULT_PTR_TABLE_CAPACITY
           b  == [create_block(c) EXCEPT !.used = at + PtrSize * N]
           nulls == [i \in 0..(N - 1) |-> NULL]
<1>1. PICK x \in Nat, y \in Nat : x = ItemSize * DEFAULT_VEC_SIZE /\ y = PtrSize * N
  <2>1. ItemSize * DEFAULT_VEC_SIZE \in Nat /\ PtrSize * N \in Nat
    BY Sizes
  <2> QED
    BY <2>1
<1>2. at \in Nat /\ x <= at /\ at + y <= DEFAULT_BLOCK_SIZE
  <2>1. at = round_up(x, PtrSize)
    BY <1>1
  <2>2. PtrSize \in Nat \ {0} /\ DEFAULT_BLOCK_SIZE \in Nat
    BY Sizes
  <2>3. at \in Nat /\ x <= at /\ at <= x + PtrSize - 1
    BY <2>1, <2>2, RoundUp
  <2>4. (x + PtrSize) + y <= DEFAULT_BLOCK_SIZE
    BY <1>1, FirstBlock
  <2> HIDE DEF at
  <2> QED
    BY <2>2, <2>3, <2>4
<1>3. BlockOK(create_block(c)) /\ create_block(c).capacity >= DEFAULT_BLOCK_SIZE
  BY NewBlock, Sizes
<1>4. blocks = Write(<<b>>, p, PtrSize, nulls)
  BY DEF Init
<1>5. /\ vec = [items |-> [block |-> 1, at |-> 0], count |-> 0, capacity |-> DEFAULT_VEC_SIZE]
      /\ tbl = [items |-> p, slots |-> N]
      /\ nodes = <<>>
      /\ result = NULL
  BY DEF Init
<1> HIDE DEF c, at, N
<1>6. BlockOK(b) /\ b.used = at + y
  <2>1. DEFAULT_BLOCK_SIZE \in Nat
    BY Sizes
  <2> QED
    BY <1>1, <1>2, <1>3, <2>1 DEF BlockOK, Block
<1> HIDE DEF b
<1>7. BlocksOK(<<b>>)
  BY <1>6 DEF BlocksOK, BlockOK
<1>8. Holds(<<b>>, p, PtrSize, N)
  BY <1>1, <1>2, <1>6 DEF Holds, Ptr
<1>9. /\ DOMAIN nulls = 0..(N - 1)
      /\ \A i \in 0..(N - 1) : nulls[i] \in Cell /\ nulls[i] = NULL
  BY DEF Cell
<1>10. N \in Nat \ {0} /\ PtrSize \in Nat \ {0} /\ ItemSize \in Nat \ {0}
  BY Sizes DEF N
<1> HIDE DEF nulls, p
<1>11. Overwritten(<<b>>, blocks, p, PtrSize, N, nulls)
  BY <1>4, <1>7, <1>8, <1>9, <1>10, Written
<1>12. /\ BlocksOK(blocks) /\ Len(blocks) = 1 /\ DOMAIN blocks = {1}
       /\ blocks[1].used = at + y
  BY <1>6, <1>11 DEF Overwritten, BlocksOK
<1>13. TypeOK
  <2>1. DEFAULT_VEC_SIZE \in Nat \ {0}
    BY Sizes
  <2>2. [block |-> 1, at |-> 0] \in Ptr /\ p \in Ptr
    BY <1>2 DEF Ptr, p
  <2> QED
    BY <1>5, <1>10, <1>12, <2>1, <2>2 DEF TypeOK
<1>14. DOMAIN Pieces = {-1, 0}
  BY <1>5 DEF Pieces
<1>15. /\ Pieces[-1] = [p |-> [block |-> 1, at |-> 0], size |-> x]
       /\ Pieces[0] = [p |-> p, size |-> y]
  BY <1>1, <1>5, <1>14 DEF Pieces
<1>16. blocks[1].used <= blocks[1].capacity
  BY <1>12 DEF BlocksOK, BlockOK
<1>17. PiecesAreApart
  <2>1. Inside(blocks, Pieces[-1]) /\ Inside(blocks, Pieces[0])
    BY <1>2, <1>12, <1>15, <1>16 DEF Inside, p
  <2>2. Apart(Pieces[-1], Pieces[0]) /\ Apart(Pieces[0], Pieces[-1])
    BY <1>2, <1>15 DEF Apart, p
  <2> QED
    BY <1>14, <2>1, <2>2 DEF PiecesAreApart
<1>18. \A i \in 0..MaxIndex : get_ptr_tbl(i) = NULL
  <2>1. ASSUME NEW i \in 0..MaxIndex, i < N
        PROVE  Read(blocks, p, PtrSize, i) = NULL
    <3>1. i \in 0..(N - 1) /\ p \in Ptr /\ N \in Nat
      BY <1>2, <1>10, <2>1, Sizes DEF p, Ptr
    <3>2. Read(blocks, p, PtrSize, i) = nulls[i]
      BY <1>10, <1>11, <3>1, ReadWritten
    <3> QED
      BY <1>9, <3>1, <3>2
  <2> QED
    BY <1>5, <2>1 DEF get_ptr_tbl
<1>19. Refinement!Init
  BY <1>5, <1>18 DEF Refinement!Init
<1> QED
  BY <1>13, <1>17, <1>19 DEF IInv

\* The pieces that ensure_capacity_vec and ensure_slots offer.
LEMMA VecReady ==
  ASSUME IInv, NEW m \in ensure_capacity_vec
  PROVE  LET cap == IF vec.capacity = vec.count THEN 2 * vec.capacity ELSE vec.capacity IN
         \/ m.p = Nowhere
         \/ /\ m.p # Nowhere
            /\ cap \in Nat \ {0} /\ vec.count + 1 \in 0..cap
            /\ Ready(m.blocks, m.p, ItemSize * cap, -1)
<1>1. /\ vec.capacity \in Nat \ {0} /\ vec.count \in Nat /\ vec.count <= vec.capacity
      /\ ItemSize \in Nat \ {0}
  BY Sizes DEF IInv, TypeOK
<1>2. CASE vec.capacity # vec.count
  <2>1. m.p = vec.items /\ m.blocks = blocks
    BY <1>2 DEF ensure_capacity_vec
  <2>2. -1 \in DOMAIN Pieces /\ Pieces[-1] = [p |-> vec.items, size |-> ItemSize * vec.capacity]
    BY DEF Pieces, IInv, TypeOK
  <2>3. Ready(blocks, vec.items, ItemSize * vec.capacity, -1)
    BY <2>2, ReadySame
  <2>4. vec.items # Nowhere
    BY <2>3 DEF Ready, Inside, BlocksOK, Nowhere
  <2> QED
    BY <1>1, <1>2, <2>1, <2>3, <2>4
<1>3. CASE vec.capacity = vec.count
  <2>1. m \in arena_alloc(ItemSize * (2 * vec.capacity), ItemSize)
    BY <1>3 DEF ensure_capacity_vec
  <2>2. ItemSize * (2 * vec.capacity) \in Nat
    BY <1>1
  <2>3. \/ m.p = Nowhere
        \/ m.p # Nowhere /\ Grown(blocks, m.blocks, m.p, ItemSize * (2 * vec.capacity))
    BY <1>1, <2>1, <2>2, Alloc DEF IInv, TypeOK
  <2>4. ASSUME m.p # Nowhere
        PROVE  Ready(m.blocks, m.p, ItemSize * (2 * vec.capacity), -1)
    BY <2>2, <2>3, <2>4, ReadyAlloc
  <2>5. 2 * vec.capacity \in Nat \ {0} /\ vec.count + 1 \in 0..(2 * vec.capacity)
    BY <1>1, <1>3
  <2> QED
    BY <1>3, <2>4, <2>5
<1> QED
  BY <1>2, <1>3

LEMMA TblReady ==
  ASSUME IInv, NEW i \in Nat, NEW m \in ensure_slots(i + 1)
  PROVE  \/ m.p = Nowhere
         \/ /\ m.p # Nowhere
            /\ m.slots \in Nat \ {0} /\ i + 1 <= m.slots /\ tbl.slots <= m.slots
            /\ Ready(m.blocks, m.p, PtrSize * m.slots, 0)
<1>1. tbl.slots \in Nat \ {0} /\ PtrSize \in Nat \ {0}
  BY Sizes DEF IInv, TypeOK
<1>2. PICK c \in Enough(tbl.slots, i + 1) :
        m \in IF c = tbl.slots THEN {[blocks |-> blocks, p |-> tbl.items, slots |-> c]}
              ELSE {[blocks |-> k.blocks, p |-> k.p, slots |-> c]
                    : k \in arena_alloc(PtrSize * c, PtrSize)}
  BY DEF ensure_slots
<1>3. c \in Nat \ {0} /\ i + 1 <= c /\ tbl.slots <= c
  BY <1>1 DEF Enough, Max2
<1>4. CASE c = tbl.slots
  <2>1. m.p = tbl.items /\ m.blocks = blocks /\ m.slots = c
    BY <1>2, <1>4
  <2>2. 0 \in DOMAIN Pieces /\ Pieces[0] = [p |-> tbl.items, size |-> PtrSize * tbl.slots]
    BY DEF Pieces, IInv, TypeOK
  <2>3. Ready(blocks, tbl.items, PtrSize * tbl.slots, 0)
    BY <2>2, ReadySame
  <2>4. tbl.items # Nowhere
    BY <2>3 DEF Ready, Inside, BlocksOK, Nowhere
  <2> QED
    BY <1>3, <1>4, <2>1, <2>3, <2>4
<1>5. CASE c # tbl.slots
  <2>1. PICK k \in arena_alloc(PtrSize * c, PtrSize) :
          m = [blocks |-> k.blocks, p |-> k.p, slots |-> c]
    BY <1>2, <1>5
  <2>2. PtrSize * c \in Nat
    BY <1>1, <1>3
  <2>3. \/ k.p = Nowhere
        \/ k.p # Nowhere /\ Grown(blocks, k.blocks, k.p, PtrSize * c)
    BY <1>1, <2>2, Alloc DEF IInv, TypeOK
  <2>4. ASSUME k.p # Nowhere
        PROVE  Ready(k.blocks, k.p, PtrSize * c, 0)
    BY <2>2, <2>3, <2>4, ReadyAlloc
  <2> QED
    BY <1>3, <2>1, <2>4
<1> QED
  BY <1>4, <1>5
-----------------------------------------------------------------------------
LEMMA FailedCorrect ==
  ASSUME IInv, Failed
  PROVE  IInv' /\ Refinement!Refused
<1>1. UNCHANGED <<blocks, vec, tbl, nodes>> /\ result' = FALSE
  BY DEF Failed
<1>2. IInv'
  BY <1>1 DEF IInv, TypeOK, PiecesAreApart, Pieces, Inside, Apart
<1>3. Refinement!Refused
  BY <1>1 DEF Refinement!Refused, get_ptr_tbl
<1> QED
  BY <1>2, <1>3

LEMMA PopCorrect ==
  ASSUME IInv, vec_pop
  PROVE  IInv' /\ Refinement!Pop
<1> DEFINE V == [i \in 1..vec.count |-> Read(blocks, vec.items, ItemSize, i - 1)]
<1>1. UNCHANGED <<blocks, tbl, nodes>>
  BY DEF vec_pop
<1>2. /\ vec \in [items : Ptr, count : Nat, capacity : Nat \ {0}]
      /\ vec.count <= vec.capacity
  BY DEF IInv, TypeOK
<1>3. vec'.items = vec.items /\ vec'.capacity = vec.capacity /\ vec' \in [items : Ptr, count : Nat, capacity : Nat \ {0}]
      /\ vec'.count <= vec'.capacity
  <2>1. CASE vec.count = 0
    BY <1>2, <2>1 DEF vec_pop
  <2>2. CASE vec.count # 0
    <3>1. vec.count - 1 \in Nat /\ vec' = [vec EXCEPT !.count = @ - 1]
      BY <1>2, <2>2 DEF vec_pop
    <3> QED
      BY <1>2, <3>1
  <2> QED
    BY <2>1, <2>2
<1>4. TypeOK'
  BY <1>1, <1>3 DEF IInv, TypeOK
<1>5. Pieces' = Pieces
  BY <1>1, <1>3 DEF Pieces
<1>6. PiecesAreApart'
  BY <1>1, <1>5 DEF IInv, PiecesAreApart, Inside, Apart
<1>7. Refinement!Pop
  <2>1. CASE vec.count = 0
    <3>1. V = <<>> /\ result' = NULL /\ vec' = vec
      BY <2>1 DEF vec_pop
    <3> QED
      BY <1>1, <3>1 DEF Refinement!Pop, get_ptr_tbl
  <2>2. CASE vec.count # 0
    <3>1. /\ vec.count \in Nat \ {0}
          /\ vec'.count = vec.count - 1
          /\ result' = Read(blocks, vec.items, ItemSize, vec.count - 1)
      BY <1>2, <2>2 DEF vec_pop
    <3> DEFINE r(i) == Read(blocks, vec.items, ItemSize, i - 1)
    <3>2. V = [i \in 1..vec.count |-> r(i)] /\ result' = r(vec.count)
      BY <3>1
    <3>3. Len(V) = vec.count /\ V # <<>> /\ V[Len(V)] = result'
      <4> HIDE DEF r
      <4> QED
        BY <3>1, <3>2
    <3>4. [i \in 1..vec.count |-> Read(blocks, vec.items, ItemSize, i - 1)]' = SubSeq(V, 1, Len(V) - 1)
      <4>1. [i \in 1..vec.count |-> Read(blocks, vec.items, ItemSize, i - 1)]'
              = [i \in 1..(vec.count - 1) |-> r(i)]
        BY <1>1, <1>3, <3>1
      <4> HIDE DEF r
      <4>2. SubSeq(V, 1, Len(V) - 1) = [i \in 1..(vec.count - 1) |-> r(i)]
        <5> DEFINE S == {r(i) : i \in 1..vec.count}
                   n == vec.count
        <5>1. V \in Seq(S) /\ Len(V) = n /\ n - 1 \in 0..n /\ n \in Nat
          <6>1. V \in [1..n -> S]
            BY <3>2
          <6>2. n \in Nat /\ n - 1 \in 0..n /\ Len(V) = n
            BY <3>1, <3>3
          <6> HIDE DEF V, S, n
          <6>3. V \in Seq(S)
            BY <6>1, <6>2
          <6> QED
            BY <6>2, <6>3
        <5>2. \A i \in 1..n : V[i] = r(i)
          BY <3>2
        <5> HIDE DEF S, V, n
        <5>3. /\ SubSeq(V, 1, n - 1) \in Seq(S)
              /\ Len(SubSeq(V, 1, n - 1)) = n - 1
              /\ \A i \in 1..(n - 1) : SubSeq(V, 1, n - 1)[i] = V[i]
          BY <5>1
        <5>4. \A i \in 1..(n - 1) : SubSeq(V, 1, n - 1)[i] = r(i)
          BY <5>1, <5>2, <5>3
        <5>5. SubSeq(V, 1, n - 1) = [i \in 1..(n - 1) |-> r(i)]
          BY <5>1, <5>3, <5>4
        <5> QED
          BY <5>1, <5>5 DEF n
      <4> QED
        BY <4>1, <4>2
    <3>5. UNCHANGED [i \in 0..MaxIndex |-> get_ptr_tbl(i)]
      BY <1>1 DEF get_ptr_tbl
    <3>6. UNCHANGED [k \in DOMAIN nodes |-> Read(blocks, nodes[k], NodeSize, 0)]
      BY <1>1
    <3> HIDE DEF V, r
    <3> QED
      BY <3>3, <3>4, <3>5, <3>6 DEF Refinement!Pop, V
  <2> QED
    BY <2>1, <2>2
<1> QED
  BY <1>4, <1>6, <1>7 DEF IInv
-----------------------------------------------------------------------------
LEMMA Appended ==
  ASSUME NEW n \in Nat, NEW s, DOMAIN s = 1..n, NEW t, NEW x,
         t = [i \in 1..(n + 1) |-> IF i = n + 1 THEN x ELSE s[i]],
         s = [i \in 1..n |-> s[i]]
  PROVE  t = Append(s, x)
<1> DEFINE S == {s[i] : i \in 1..n} \cup {x}
<1>1. s \in [1..n -> S]
  OBVIOUS
<1>2. s \in Seq(S) /\ Len(s) = n /\ x \in S
  BY <1>1
<1> HIDE DEF S
<1>3. /\ Append(s, x) \in Seq(S) /\ Len(Append(s, x)) = n + 1
      /\ \A i \in 1..(n + 1) : Append(s, x)[i] = IF i = n + 1 THEN x ELSE s[i]
  BY <1>2
<1>4. DOMAIN Append(s, x) = 1..(n + 1) /\ Append(s, x) = [i \in 1..(n + 1) |-> Append(s, x)[i]]
  BY <1>3
<1> QED
  BY <1>3, <1>4

LEMMA PushCorrect ==
  ASSUME IInv, NEW v \in Values, vec_push(v)
  PROVE  IInv' /\ (Refinement!Push(v) \/ Refinement!Refused)
<1> DEFINE cap == IF vec.capacity = vec.count THEN 2 * vec.capacity ELSE vec.capacity
           n   == vec.count + 1
           old(i) == Read(blocks, vec.items, ItemSize, i)
           items == [i \in 0..vec.count |-> IF i = vec.count THEN v ELSE old(i)]
<1>1. PICK m \in ensure_capacity_vec :
        \/ m.p = Nowhere /\ Failed
        \/ /\ m.p # Nowhere
           /\ blocks' = Write(m.blocks, m.p, ItemSize, items)
           /\ vec' = [items |-> m.p, count |-> n, capacity |-> cap]
           /\ result' = TRUE
           /\ UNCHANGED <<tbl, nodes>>
  BY DEF vec_push
<1>2. CASE m.p = Nowhere
  BY <1>1, <1>2, FailedCorrect
<1>3. CASE m.p # Nowhere
  <2>1. /\ cap \in Nat \ {0} /\ n \in 0..cap
        /\ Ready(m.blocks, m.p, ItemSize * cap, -1)
    BY <1>3, VecReady
  <2>2. vec.count \in Nat /\ n \in Nat /\ ItemSize \in Nat \ {0}
    BY Sizes DEF IInv, TypeOK
  <2>3. PICK w : w = blocks'
    OBVIOUS
  <2>4. /\ w = Write(m.blocks, m.p, ItemSize, items)
        /\ vec' = [items |-> m.p, count |-> n, capacity |-> cap]
        /\ result' = TRUE /\ tbl' = tbl /\ nodes' = nodes
    BY <1>1, <1>3, <2>3
  <2>5. DOMAIN items = 0..(n - 1) /\ \A i \in 0..(n - 1) : items[i] \in Cell
    <3>1. n - 1 = vec.count
      BY <2>2
    <3>2. ASSUME NEW i \in 0..vec.count
          PROVE  (IF i = vec.count THEN v ELSE old(i)) \in Cell
      <4>1. CASE i = vec.count
        BY <4>1 DEF Cell
      <4>2. CASE i # vec.count
        <5>1. i \in 0..(vec.count - 1)
          BY <2>2, <4>2
        <5>2. old(i) \in Cell
          BY <2>2, <5>1, HoldsOwn, ReadInCell DEF IInv, TypeOK
        <5> QED
          BY <4>2, <5>2
      <4> QED
        BY <4>1, <4>2
    <3> HIDE DEF old, n
    <3> QED
      BY <3>1, <3>2
  <2>6. Holds(m.blocks, m.p, ItemSize, n) /\ BlocksOK(m.blocks) /\ m.p \in Ptr
    <3>1. Holds(m.blocks, m.p, ItemSize, n)
      BY <2>1, <2>2, HoldsFewer
    <3> QED
      BY <2>1, <3>1 DEF Ready
  <2> HIDE DEF items, n, cap
  <2>7. Overwritten(m.blocks, w, m.p, ItemSize, n, items)
    BY <2>2, <2>4, <2>5, <2>6, Written
  <2>8. TypeOK'
    <3>1. BlocksOK(w)
      BY <2>7 DEF Overwritten
    <3>2. BlocksOK(blocks')
      BY <2>3, <3>1
    <3>3. n <= cap
      BY <2>1
    <3> QED
      BY <2>1, <2>2, <2>4, <2>6, <3>2, <3>3 DEF IInv, TypeOK, BlocksOK
  <2>9. PiecesAreApart'
    <3>1. DOMAIN Pieces' = DOMAIN Pieces /\ -1 \in DOMAIN Pieces'
      BY <2>4 DEF Pieces, IInv, TypeOK
    <3>2. Pieces'[-1] = [p |-> m.p, size |-> ItemSize * cap]
      BY <2>4, <3>1 DEF Pieces
    <3>3. \A j \in DOMAIN Pieces' \ {-1} : j \in DOMAIN Pieces /\ Pieces'[j] = Pieces[j]
      BY <2>4, <3>1 DEF Pieces
    <3>4. /\ Len(blocks') = Len(m.blocks) /\ DOMAIN blocks' = DOMAIN m.blocks
          /\ \A b \in DOMAIN m.blocks : /\ blocks'[b].used = m.blocks[b].used
                                        /\ blocks'[b].capacity = m.blocks[b].capacity
      BY <2>3, <2>6, <2>7 DEF Overwritten, BlocksOK
    <3> QED
      BY <2>1, <3>1, <3>2, <3>3, <3>4, PiecesStay
  <2>10. TblOf(w) = TblOf(blocks) /\ NodesOf(w) = NodesOf(blocks)
    <3>1. cap \in Nat /\ -1 \notin DOMAIN nodes
      BY <2>1 DEF IInv, TypeOK
    <3>2. OthersSame(w, -1)
      BY <2>1, <2>2, <2>7, <3>1, OthersKept
    <3> QED
      BY <3>1, <3>2, Kept
  <2>11. Refinement!Push(v)
    <3>1. \A i \in 1..n : Read(w, m.p, ItemSize, i - 1) = IF i = n THEN v ELSE old(i - 1)
      <4>1. SUFFICES ASSUME NEW i \in 1..n
                     PROVE  Read(w, m.p, ItemSize, i - 1) = IF i = n THEN v ELSE old(i - 1)
        OBVIOUS
      <4>2. i - 1 \in 0..(n - 1) /\ i - 1 \in 0..vec.count /\ (i = n <=> i - 1 = vec.count)
        BY <2>2 DEF n
      <4>3. Read(w, m.p, ItemSize, i - 1) = items[i - 1]
        BY <2>2, <2>6, <2>7, <4>2, ReadWritten
      <4>4. items[i - 1] = IF i - 1 = vec.count THEN v ELSE old(i - 1)
        BY <4>2 DEF items
      <4> QED
        BY <4>2, <4>3, <4>4
    <3> DEFINE s == [i \in 1..vec.count |-> Read(blocks, vec.items, ItemSize, i - 1)]
               t == [i \in 1..n |-> Read(w, m.p, ItemSize, i - 1)]
    <3>2. t = Append(s, v)
      <4>1. t = [i \in 1..(vec.count + 1) |-> IF i = vec.count + 1 THEN v ELSE s[i]]
        <5>1. \A i \in 1..(vec.count + 1) : i # vec.count + 1 => i \in 1..vec.count
          BY <2>2
        <5>2. \A i \in 1..vec.count : s[i] = old(i - 1)
          OBVIOUS
        <5>3. n = vec.count + 1
          BY DEF n
        <5> HIDE DEF old, s
        <5> QED
          BY <3>1, <5>1, <5>2, <5>3
      <4>2. DOMAIN s = 1..vec.count /\ s = [i \in 1..vec.count |-> s[i]]
        OBVIOUS
      <4> HIDE DEF s, t
      <4> QED
        BY <2>2, <4>1, <4>2, Appended
    <3>3. [i \in 1..vec.count |-> Read(blocks, vec.items, ItemSize, i - 1)]' = t
      BY <2>3, <2>4
    <3>4. [i \in 0..MaxIndex |-> get_ptr_tbl(i)]' = [i \in 0..MaxIndex |-> get_ptr_tbl(i)]
      BY <2>3, <2>4, <2>10 DEF get_ptr_tbl, TblOf
    <3>5. [k \in DOMAIN nodes |-> Read(blocks, nodes[k], NodeSize, 0)]'
            = [k \in DOMAIN nodes |-> Read(blocks, nodes[k], NodeSize, 0)]
      BY <2>3, <2>4, <2>10 DEF NodesOf
    <3> QED
      BY <2>4, <3>2, <3>3, <3>4, <3>5 DEF Refinement!Push
  <2> QED
    BY <2>8, <2>9, <2>11 DEF IInv
<1> QED
  BY <1>2, <1>3

LEMMA SetCorrect ==
  ASSUME IInv, NEW i \in 0..MaxIndex, NEW v \in Values, set_ptr_tbl(i, v)
  PROVE  IInv' /\ (Refinement!Set(i, v) \/ Refinement!Refused)
<1> DEFINE items(n) == [j \in 0..(n - 1) |-> IF j = i THEN v ELSE get_ptr_tbl(j)]
<1>1. PICK m \in ensure_slots(i + 1) :
        \/ m.p = Nowhere /\ Failed
        \/ /\ m.p # Nowhere
           /\ blocks' = Write(m.blocks, m.p, PtrSize, items(m.slots))
           /\ tbl' = [items |-> m.p, slots |-> m.slots]
           /\ result' = TRUE
           /\ UNCHANGED <<vec, nodes>>
  BY DEF set_ptr_tbl
<1>2. CASE m.p = Nowhere
  BY <1>1, <1>2, FailedCorrect
<1>3. CASE m.p # Nowhere
  <2>1. i \in Nat /\ PtrSize \in Nat \ {0}
    BY Sizes
  <2>2. PICK n, w, its : n = m.slots /\ w = blocks' /\ its = items(m.slots)
    OBVIOUS
  <2>3. /\ n \in Nat \ {0} /\ n \in 0..n /\ i + 1 <= n /\ tbl.slots <= n
        /\ Ready(m.blocks, m.p, PtrSize * n, 0)
    BY <1>3, <2>1, <2>2, TblReady
  <2>4. /\ w = Write(m.blocks, m.p, PtrSize, its)
        /\ tbl' = [items |-> m.p, slots |-> n]
        /\ result' = TRUE /\ vec' = vec /\ nodes' = nodes
    BY <1>1, <1>3, <2>2
  <2>5. DOMAIN its = 0..(n - 1) /\ \A j \in 0..(n - 1) : its[j] = IF j = i THEN v ELSE get_ptr_tbl(j)
    BY <2>2
  <2>6. \A j \in 0..(n - 1) : its[j] \in Cell
    <3>1. SUFFICES ASSUME NEW j \in 0..(n - 1)
                   PROVE  (IF j = i THEN v ELSE get_ptr_tbl(j)) \in Cell
      BY <2>5
    <3>2. CASE j = i
      BY <3>2 DEF Cell
    <3>3. CASE j # i /\ j < tbl.slots
      <4>1. j \in 0..(tbl.slots - 1) /\ tbl.slots \in Nat
        BY <2>3, <3>3 DEF IInv, TypeOK
      <4>2. Read(blocks, tbl.items, PtrSize, j) \in Cell
        BY <2>1, <4>1, HoldsOwn, ReadInCell DEF IInv, TypeOK
      <4> QED
        BY <3>3, <4>2 DEF get_ptr_tbl
    <3>4. CASE j # i /\ ~(j < tbl.slots)
      BY <3>4 DEF get_ptr_tbl, Cell
    <3> QED
      BY <3>2, <3>3, <3>4
  <2>7. Holds(m.blocks, m.p, PtrSize, n) /\ BlocksOK(m.blocks) /\ m.p \in Ptr
    <3>1. Holds(m.blocks, m.p, PtrSize, n)
      BY <2>1, <2>3, HoldsFewer
    <3> QED
      BY <2>3, <3>1 DEF Ready
  <2>8. Overwritten(m.blocks, w, m.p, PtrSize, n, its)
    BY <2>1, <2>3, <2>4, <2>5, <2>6, <2>7, Written
  <2>9. TypeOK'
    <3>1. BlocksOK(blocks')
      BY <2>2, <2>8 DEF Overwritten
    <3> QED
      BY <2>3, <2>4, <2>7, <3>1 DEF IInv, TypeOK, BlocksOK
  <2>10. PiecesAreApart'
    <3>1. DOMAIN Pieces' = DOMAIN Pieces /\ 0 \in DOMAIN Pieces'
      BY <2>4 DEF Pieces, IInv, TypeOK
    <3>2. Pieces'[0] = [p |-> m.p, size |-> PtrSize * n]
      BY <2>4, <3>1 DEF Pieces
    <3>3. \A j \in DOMAIN Pieces' \ {0} : j \in DOMAIN Pieces /\ Pieces'[j] = Pieces[j]
      BY <2>4, <3>1 DEF Pieces
    <3>4. /\ Len(blocks') = Len(m.blocks) /\ DOMAIN blocks' = DOMAIN m.blocks
          /\ \A b \in DOMAIN m.blocks : /\ blocks'[b].used = m.blocks[b].used
                                        /\ blocks'[b].capacity = m.blocks[b].capacity
      BY <2>2, <2>7, <2>8 DEF Overwritten, BlocksOK
    <3> QED
      BY <2>3, <3>1, <3>2, <3>3, <3>4, PiecesStay
  <2>11. VecOf(w) = VecOf(blocks) /\ NodesOf(w) = NodesOf(blocks)
    <3>1. n \in Nat /\ 0 \notin DOMAIN nodes
      BY <2>3 DEF IInv, TypeOK
    <3>2. OthersSame(w, 0)
      BY <2>1, <2>3, <2>8, <3>1, OthersKept
    <3> QED
      BY <3>1, <3>2, Kept
  <2>12. Refinement!Set(i, v)
    <3>1. \A j \in 0..MaxIndex : get_ptr_tbl(j)' = IF j = i THEN v ELSE get_ptr_tbl(j)
      <4>1. SUFFICES ASSUME NEW j \in 0..MaxIndex
                     PROVE  get_ptr_tbl(j)' = IF j = i THEN v ELSE get_ptr_tbl(j)
        OBVIOUS
      <4>2. get_ptr_tbl(j)' = IF j < n THEN Read(w, m.p, PtrSize, j) ELSE NULL
        BY <2>2, <2>4 DEF get_ptr_tbl
      <4>3. CASE j < n
        <5>1. j \in 0..(n - 1)
          BY <2>3, <4>3, Sizes
        <5>2. Read(w, m.p, PtrSize, j) = its[j]
          BY <2>1, <2>3, <2>7, <2>8, <5>1, ReadWritten
        <5> QED
          BY <2>5, <4>2, <4>3, <5>1, <5>2
      <4>4. CASE ~(j < n)
        <5>1. j # i /\ ~(j < tbl.slots)
          BY <2>1, <2>3, <4>4, Sizes DEF IInv, TypeOK
        <5> QED
          BY <4>2, <4>4, <5>1 DEF get_ptr_tbl
      <4> QED
        BY <4>3, <4>4
    <3>2. [j \in 0..MaxIndex |-> get_ptr_tbl(j)]'
            = [[j \in 0..MaxIndex |-> get_ptr_tbl(j)] EXCEPT ![i] = v]
      BY <3>1
    <3>3. [j \in 1..vec.count |-> Read(blocks, vec.items, ItemSize, j - 1)]'
            = [j \in 1..vec.count |-> Read(blocks, vec.items, ItemSize, j - 1)]
      BY <2>2, <2>4, <2>11 DEF VecOf
    <3>4. [k \in DOMAIN nodes |-> Read(blocks, nodes[k], NodeSize, 0)]'
            = [k \in DOMAIN nodes |-> Read(blocks, nodes[k], NodeSize, 0)]
      BY <2>2, <2>4, <2>11 DEF NodesOf
    <3> QED
      BY <2>4, <3>2, <3>3, <3>4 DEF Refinement!Set
  <2> QED
    BY <2>9, <2>10, <2>12 DEF IInv
<1> QED
  BY <1>2, <1>3

LEMMA NewNodeCorrect ==
  ASSUME IInv, NEW v \in Values, NewNode(v)
  PROVE  IInv' /\ (Refinement!NewNode(v) \/ Refinement!Refused)
<1> DEFINE k == Len(nodes) + 1
           its == [i \in 0..0 |-> v]
<1>1. PICK m \in arena_alloc(NodeSize, 1) :
        \/ m.p = Nowhere /\ Failed
        \/ /\ m.p # Nowhere
           /\ blocks' = Write(m.blocks, m.p, NodeSize, its)
           /\ nodes' = Append(nodes, m.p)
           /\ result' = TRUE
           /\ UNCHANGED <<vec, tbl>>
  BY DEF NewNode
<1>2. CASE m.p = Nowhere
  BY <1>1, <1>2, FailedCorrect
<1>3. CASE m.p # Nowhere
  <2>1. NodeSize \in Nat \ {0} /\ NodeSize \in Nat /\ 1 \in Nat \ {0} /\ BlocksOK(blocks)
    BY Sizes DEF IInv, TypeOK
  <2>2. PICK w : w = blocks'
    OBVIOUS
  <2>3. /\ w = Write(m.blocks, m.p, NodeSize, its)
        /\ nodes' = Append(nodes, m.p)
        /\ result' = TRUE /\ vec' = vec /\ tbl' = tbl
    BY <1>1, <1>3, <2>2
  <2>4. Ready(m.blocks, m.p, NodeSize, k)
    <3>1. Grown(blocks, m.blocks, m.p, NodeSize)
      BY <1>3, <2>1, Alloc
    <3> QED
      BY <2>1, <3>1, ReadyAlloc
  <2>5. /\ nodes \in Seq(Ptr) /\ Len(nodes) \in Nat /\ DOMAIN nodes = 1..Len(nodes)
        /\ k \in Nat /\ k \notin DOMAIN nodes
    BY DEF IInv, TypeOK
  <2>6. /\ DOMAIN its = 0..(1 - 1) /\ \A i \in 0..(1 - 1) : its[i] \in Cell
        /\ its[0] = v
    BY DEF Cell
  <2>7. NodeSize * 1 = NodeSize
    <3>1. \A x \in Nat : x * 1 = x
      OBVIOUS
    <3> QED
      BY <2>1, <3>1
  <2>8. Ready(m.blocks, m.p, NodeSize * 1, k)
    BY <2>4, <2>7, Zenon
  <2>9. Holds(m.blocks, m.p, NodeSize, 1) /\ BlocksOK(m.blocks) /\ m.p \in Ptr
    <3>1. 1 \in Nat /\ 1 \in 0..1
      OBVIOUS
    <3>2. Holds(m.blocks, m.p, NodeSize, 1)
      BY <2>1, <2>8, <3>1, HoldsFewer
    <3> QED
      BY <2>8, <3>2 DEF Ready
  <2> HIDE DEF its
  <2>10. Overwritten(m.blocks, w, m.p, NodeSize, 1, its)
    BY <2>1, <2>3, <2>6, <2>9, Written
  <2>11. /\ nodes' \in Seq(Ptr) /\ Len(nodes') = k /\ DOMAIN nodes' = 1..k
         /\ nodes'[k] = m.p /\ \A i \in 1..Len(nodes) : nodes'[i] = nodes[i]
    BY <2>3, <2>5, <2>9
  <2>12. TypeOK'
    <3>1. BlocksOK(blocks')
      BY <2>2, <2>10 DEF Overwritten
    <3> QED
      BY <2>3, <2>11, <3>1 DEF IInv, TypeOK, BlocksOK
  <2> HIDE DEF k
  <2>13. PiecesAreApart'
    <3>0. k = Len(nodes) + 1
      BY DEF k
    <3>1. /\ DOMAIN Pieces' = -1..k /\ DOMAIN Pieces = -1..Len(nodes)
          /\ k \in DOMAIN Pieces' /\ DOMAIN Pieces' \ {k} = DOMAIN Pieces
      BY <2>5, <2>11, <3>0 DEF Pieces
    <3>2. Pieces'[k] = [p |-> m.p, size |-> NodeSize]
      BY <2>5, <2>11, <3>0, <3>1 DEF Pieces
    <3>3. \A j \in DOMAIN Pieces' \ {k} : j \in DOMAIN Pieces /\ Pieces'[j] = Pieces[j]
      <4>1. SUFFICES ASSUME NEW j \in -1..Len(nodes)
                     PROVE  Pieces'[j] = Pieces[j]
        BY <3>1
      <4>2. j \in -1..k /\ (j # -1 /\ j # 0 => nodes'[j] = nodes[j])
        BY <2>5, <2>11, <3>0
      <4>3. Pieces[j] = IF j = -1 THEN [p |-> vec.items, size |-> ItemSize * vec.capacity]
                        ELSE IF j = 0 THEN [p |-> tbl.items, size |-> PtrSize * tbl.slots]
                        ELSE [p |-> nodes[j], size |-> NodeSize]
        BY DEF Pieces
      <4>4. Pieces'[j] = IF j = -1 THEN [p |-> vec.items, size |-> ItemSize * vec.capacity]
                         ELSE IF j = 0 THEN [p |-> tbl.items, size |-> PtrSize * tbl.slots]
                         ELSE [p |-> nodes'[j], size |-> NodeSize]
        BY <2>3, <2>11, <4>2 DEF Pieces
      <4> QED
        BY <4>2, <4>3, <4>4
    <3>4. /\ Len(blocks') = Len(m.blocks) /\ DOMAIN blocks' = DOMAIN m.blocks
          /\ \A b \in DOMAIN m.blocks : /\ blocks'[b].used = m.blocks[b].used
                                        /\ blocks'[b].capacity = m.blocks[b].capacity
      BY <2>2, <2>9, <2>10 DEF Overwritten, BlocksOK
    <3> QED
      BY <2>4, <3>1, <3>2, <3>3, <3>4, PiecesStay
  <2>14. VecOf(w) = VecOf(blocks) /\ TblOf(w) = TblOf(blocks) /\ NodesOf(w) = NodesOf(blocks)
    <3>1. OthersSame(w, k)
      <4>1. 1 \in Nat /\ 1 \in 0..1
        OBVIOUS
      <4> QED
        BY <2>1, <2>8, <2>10, <4>1, OthersKept
    <3>2. k # -1 /\ k # 0
      BY <2>5 DEF k
    <3> QED
      BY <2>5, <3>1, <3>2, Kept
  <2>15. Refinement!NewNode(v)
    <3> DEFINE s == [i \in DOMAIN nodes |-> Read(blocks, nodes[i], NodeSize, 0)]
               t == [i \in 1..k |-> Read(w, IF i = k THEN m.p ELSE nodes[i], NodeSize, 0)]
    <3>1. Read(w, m.p, NodeSize, 0) = v
      <4>1. 0 \in 0..(1 - 1) /\ 1 \in Nat
        OBVIOUS
      <4>2. Read(w, m.p, NodeSize, 0) = its[0]
        BY <2>1, <2>9, <2>10, <4>1, ReadWritten
      <4> QED
        BY <2>6, <4>2
    <3>2. \A i \in DOMAIN nodes : Read(w, nodes[i], NodeSize, 0) = s[i]
      <4>1. \A i \in DOMAIN nodes : NodesOf(w)[i] = Read(w, nodes[i], NodeSize, 0)
        BY DEF NodesOf
      <4>2. NodesOf(blocks) = s
        BY DEF NodesOf
      <4> QED
        BY <2>14, <4>1, <4>2
    <3>3. t = [i \in 1..(Len(nodes) + 1) |-> IF i = Len(nodes) + 1 THEN v ELSE s[i]]
      <4>1. k = Len(nodes) + 1
        BY DEF k
      <4>2. \A i \in 1..k : i # k => i \in DOMAIN nodes
        BY <2>5, <4>1
      <4> HIDE DEF s
      <4> QED
        BY <3>1, <3>2, <4>1, <4>2
    <3>4. DOMAIN s = 1..Len(nodes) /\ s = [i \in 1..Len(nodes) |-> s[i]]
      BY <2>5
    <3>5. [i \in DOMAIN nodes |-> Read(blocks, nodes[i], NodeSize, 0)]' = t
      <4>1. \A i \in 1..k : nodes'[i] = IF i = k THEN m.p ELSE nodes[i]
        BY <2>5, <2>11 DEF k
      <4> QED
        BY <2>2, <2>11, <4>1
    <3> HIDE DEF s, t
    <3>6. t = Append(s, v)
      BY <2>5, <3>3, <3>4, Appended
    <3>7. [i \in 1..vec.count |-> Read(blocks, vec.items, ItemSize, i - 1)]'
            = [i \in 1..vec.count |-> Read(blocks, vec.items, ItemSize, i - 1)]
      BY <2>2, <2>3, <2>14 DEF VecOf
    <3>8. [i \in 0..MaxIndex |-> get_ptr_tbl(i)]' = [i \in 0..MaxIndex |-> get_ptr_tbl(i)]
      BY <2>2, <2>3, <2>14 DEF get_ptr_tbl, TblOf
    <3> QED
      BY <2>3, <3>5, <3>6, <3>7, <3>8 DEF Refinement!NewNode, s
  <2> QED
    BY <2>12, <2>13, <2>15 DEF IInv
<1> QED
  BY <1>2, <1>3
-----------------------------------------------------------------------------
LEMMA NextCorrect ==
  ASSUME IInv, [Next]_vars
  PROVE  IInv' /\ [Refinement!Next]_(Refinement!vars)
<1>1. CASE UNCHANGED vars
  <2>1. IInv'
    BY <1>1 DEF vars, IInv, TypeOK, PiecesAreApart, Pieces, Inside, Apart
  <2>2. UNCHANGED Refinement!vars
    BY <1>1 DEF vars, Refinement!vars, get_ptr_tbl
  <2> QED
    BY <2>1, <2>2
<1>2. CASE vec_pop
  BY <1>2, PopCorrect DEF Refinement!Next
<1>3. ASSUME NEW v \in Values, vec_push(v)
      PROVE  IInv' /\ Refinement!Next
  BY <1>3, PushCorrect DEF Refinement!Next
<1>4. ASSUME NEW v \in Values, NewNode(v)
      PROVE  IInv' /\ Refinement!Next
  BY <1>4, NewNodeCorrect DEF Refinement!Next
<1>5. ASSUME NEW i \in 0..MaxIndex, NEW v \in Values, set_ptr_tbl(i, v)
      PROVE  IInv' /\ Refinement!Next
  BY <1>5, SetCorrect DEF Refinement!Next
<1> QED
  BY <1>1, <1>2, <1>3, <1>4, <1>5 DEF Next

\* No two pieces the arena has handed out share a cell, and each lies within its
\* block, whatever the sizes, the alignments and the order of the requests.
THEOREM PiecesApart == Spec => []PiecesAreApart
<1>1. Init => IInv
  BY InitCorrect
<1>2. IInv /\ [Next]_vars => IInv'
  BY NextCorrect
<1>3. IInv => PiecesAreApart
  BY DEF IInv
<1> QED
  BY <1>1, <1>2, <1>3, PTL DEF Spec

\* vec_push, vec_pop, set_ptr_tbl, get_ptr_tbl and the nodes implement Containers:
\* growing moves everything and loses nothing, new slots are NULL, no structure
\* disturbs another, a refused block changes nothing.
THEOREM ContainersCorrect == Spec => ContainersImplemented
<1>1. Init => IInv /\ Refinement!Init
  BY InitCorrect
<1>2. IInv /\ [Next]_vars => IInv' /\ [Refinement!Next]_(Refinement!vars)
  BY NextCorrect
<1> QED
  BY <1>1, <1>2, PTL DEF Spec, ContainersImplemented, Refinement!Spec
=============================================================================
