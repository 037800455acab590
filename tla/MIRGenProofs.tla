---------------------------- MODULE MIRGenProofs ----------------------------
(***************************************************************************)
(* Theorems about MIRGen, for programs of any size and any numbers of      *)
(* functions, parameters and arguments.                                    *)
(*                                                                         *)
(* The inductive invariant says what is on the walk, how high the value    *)
(* stack is under each frame, and which blocks exist.  Two more, on top of *)
(* it, say which blocks are still to be filled (Control) and from where    *)
(* each block is reached (Linked).  MIRGenCodeProofs builds on these.      *)
(***************************************************************************)
EXTENDS MIRGen, Stacks, FiniteSetTheorems

HeadFrames == {"var_dec", "assn", "exit", "call_stmt", "if", "while"}
LogFrames  == {"and_lhs", "or_lhs", "rhs"}
Ats        == StmtFrames \cup HeadFrames \cup LogFrames

InstTypes == {"IR_LOAD", "IR_STORE", "IR_ARG", "IR_CMPOP", "IR_CALL",
              "BIN_ADD", "BIN_SUB", "BIN_MUL"}
TermTypes == {"IR_UNDEFINED", "IR_HALT", "IR_JUMP", "IR_BRANCH_IF_ZERO"}

InstRecs  == [type : InstTypes, dst : {NoTemp} \cup Nat, slot : {NoSlot} \cup Nat,
              args : Seq(Values)]

\* How many blocks a terminator leads to.
TermFits(t) ==
  \/ t = Undefined
  \/ t.type = "IR_HALT" /\ Len(t.to) = 0
  \/ t.type = "IR_JUMP" /\ Len(t.to) = 1
  \/ t.type = "IR_BRANCH_IF_ZERO" /\ Len(t.to) = 2

TermRecs  == {t \in [type : TermTypes, args : Seq(Values), to : Seq(Nat)] : TermFits(t)}
BlockRecs == [insts : Seq(InstRecs), term : TermRecs]
Frames    == [at : Ats, base : Nat, slot : {NoSlot} \cup Nat, to : Seq(Nat),
              reached : BOOLEAN, scope : SUBSET Nat]

\* An instruction of a function with so many temps and slots.
InstOK(inst, temps, slots) ==
  inst.dst \in {NoTemp} \cup 0..temps - 1 /\ inst.slot \in {NoSlot} \cup 0..slots

BlocksOK(bs, temps, slots) ==
  /\ bs \in Seq(BlockRecs)
  /\ \A b \in 1..Len(bs) :
       /\ \A i \in 1..Len(bs[b].insts) : InstOK(bs[b].insts[i], temps, slots)
       /\ \A k \in 1..Len(bs[b].term.to) : bs[b].term.to[k] \in 1..Len(bs)
-----------------------------------------------------------------------------
\* How many blocks a frame still has to deal with.
Targets(at) == CASE at = "while" -> {3}
                 [] at = "loop_block" -> {2}
                 [] at = "then_block" -> {1, 2}
                 [] at \in {"else_block", "rhs"} -> {1}
                 [] OTHER -> {0}

\* A frame, when there are u values unclaimed, and so many slots and blocks.
FrameOK(f, u, slots, n) ==
  /\ f.scope \subseteq 0..slots - 1
  /\ f.at \in {"assn"} \cup LogFrames => f.slot \in 0..slots - 1
  /\ f.at = "call_stmt" => f.slot \in 0..1
  /\ Len(f.to) \in Targets(f.at)
  /\ \A k \in 1..Len(f.to) : f.to[k] \in 1..n
  /\ f.at \in HeadFrames => f.base = u
  /\ f.at \in LogFrames => f.base >= u

\* Frame g is next above f.
PairOK(f, g) ==
  /\ g.at \in LogFrames => f.at \notin StmtFrames /\ g.base >= f.base
  /\ g.at # "fn_block"

\* On the frames of statements stands at most one of an expression, and on
\* that those of short-circuit operators.
WalkOK(w, u, slots, n) ==
  /\ w \in Seq(Frames)
  /\ \A k \in 1..Len(w) : FrameOK(w[k], u, slots, n)
  /\ \A k \in 1..Len(w) - 1 : PairOK(w[k], w[k + 1])
  /\ \A k, l \in 1..Len(w) : k < l /\ w[k].at \notin StmtFrames => w[l].at \in LogFrames
  /\ w # <<>> => w[1].at = "fn_block"

\* Under a statement are only values nobody claims.
HeightOK(w, h, u) ==
  IF w = <<>> \/ Last(w).at \in StmtFrames THEN h = u ELSE h >= Last(w).base

Count(w, S) == Cardinality({k \in DOMAIN w : w[k].at \in S})

\* The leaves that the unfinished nodes still need.
Needs(f) == IF f.at = "call_stmt" THEN f.slot ELSE 1
Owes(w, h) ==
  Count(w, {"and_lhs", "or_lhs"})
    + IF w # <<>> /\ Last(w).at \notin StmtFrames /\ h - Last(w).base < Needs(Last(w))
        THEN 1 ELSE 0

\* The inductive invariant.
IInv ==
  /\ BlocksOK(blocks, next_temp, next_slot)
  /\ curr \in 1..Len(blocks)
  /\ val_stack \in Seq(Values)
  /\ next_temp \in Nat /\ next_slot \in Nat
  /\ WalkOK(walk, unclaimed, next_slot, Len(blocks))
  /\ HeightOK(walk, Height, unclaimed)
  /\ assigned \subseteq 0..next_slot - 1
  /\ nodes \in Nat /\ nodes + Owes(walk, Height) <= MaxNodes
  /\ unclaimed \in Nat /\ unclaimed + Count(walk, {"call_stmt"}) <= nodes
  /\ funcs \in 1..MaxFunctions
  /\ foreign \in BOOLEAN
-----------------------------------------------------------------------------
\* The operations on blocks.
LEMMA EmitIs ==
  ASSUME NEW bs \in Seq(BlockRecs), NEW b \in 1..Len(bs), NEW insts \in Seq(InstRecs)
  PROVE  LET new == Emit(bs, b, insts) IN
         /\ new \in Seq(BlockRecs) /\ Len(new) = Len(bs)
         /\ \A c \in 1..Len(bs) : /\ new[c].term = bs[c].term
                                  /\ c # b => new[c] = bs[c]
         /\ new[b].insts = bs[b].insts \o insts
         /\ \A c \in 1..Len(bs) : new[c].insts = IF c = b THEN bs[b].insts \o insts
                                                 ELSE bs[c].insts
<1> DEFINE new == Emit(bs, b, insts)
           r == [bs[b] EXCEPT !.insts = @ \o insts]
<1>1. bs[b] \in BlockRecs /\ bs[b].insts \o insts \in Seq(InstRecs)
  <2>1. bs[b] \in BlockRecs
    OBVIOUS
  <2>2. bs[b].insts \in Seq(InstRecs)
    BY <2>1 DEF BlockRecs
  <2> QED
    BY <2>1, <2>2, ConcatIs
<1>2. r \in BlockRecs /\ r.insts = bs[b].insts \o insts /\ r.term = bs[b].term
  BY <1>1 DEF BlockRecs
<1> HIDE DEF r
<1>3. new = [bs EXCEPT ![b] = r]
  BY DEF Emit, r
<1>4. /\ new \in Seq(BlockRecs) /\ Len(new) = Len(bs)
      /\ \A c \in 1..Len(bs) : new[c] = IF c = b THEN r ELSE bs[c]
  BY <1>2, <1>3
<1> HIDE DEF new
<1>5. /\ \A c \in 1..Len(bs) : new[c].term = bs[c].term /\ (c # b => new[c] = bs[c])
      /\ new[b].insts = bs[b].insts \o insts
  BY <1>2, <1>4
<1>6. \A c \in 1..Len(bs) : new[c].insts = IF c = b THEN bs[b].insts \o insts ELSE bs[c].insts
  BY <1>5
<1> QED
  BY <1>4, <1>5, <1>6 DEF new

LEMMA TerminateIs ==
  ASSUME NEW bs \in Seq(BlockRecs), NEW b \in 1..Len(bs), NEW t \in TermRecs
  PROVE  LET new == Terminate(bs, b, t) IN
         /\ new \in Seq(BlockRecs) /\ Len(new) = Len(bs)
         /\ \A c \in 1..Len(bs) : /\ new[c].insts = bs[c].insts
                                  /\ c # b => new[c] = bs[c]
                                  /\ new[c].term = IF c = b THEN t ELSE bs[c].term
         /\ new[b].term = t
<1> DEFINE new == Terminate(bs, b, t)
           r == [bs[b] EXCEPT !.term = t]
<1>1. bs[b] \in BlockRecs
  OBVIOUS
<1>2. r \in BlockRecs /\ r.insts = bs[b].insts /\ r.term = t
  BY <1>1 DEF BlockRecs
<1> HIDE DEF r
<1>3. new = [bs EXCEPT ![b] = r]
  BY DEF Terminate, r
<1>4. /\ new \in Seq(BlockRecs) /\ Len(new) = Len(bs)
      /\ \A c \in 1..Len(bs) : new[c] = IF c = b THEN r ELSE bs[c]
  BY <1>2, <1>3
<1> HIDE DEF new
<1>5. \A c \in 1..Len(bs) : /\ new[c].insts = bs[c].insts
                            /\ c # b => new[c] = bs[c]
                            /\ new[c].term = IF c = b THEN t ELSE bs[c].term
  BY <1>2, <1>4
<1> QED
  BY <1>4, <1>5 DEF new

LEMMA NewBlockIs ==
  /\ NewBlock \in BlockRecs
  /\ NewBlock.insts = <<>> /\ NewBlock.term = Undefined
  /\ Undefined.to = <<>> /\ Undefined.args = <<>> /\ Undefined.type = "IR_UNDEFINED"
BY DEF NewBlock, Undefined, BlockRecs, TermRecs, TermTypes, TermFits

\* Blocks are created.
LEMMA CreateIs ==
  ASSUME NEW bs \in Seq(BlockRecs), NEW news \in {<<NewBlock, NewBlock>>,
                                                  <<NewBlock, NewBlock, NewBlock>>}
  PROVE  LET new == bs \o news IN
         /\ new \in Seq(BlockRecs) /\ Len(news) \in {2, 3}
         /\ Len(bs) \in Nat /\ Len(new) = Len(bs) + Len(news)
         /\ \A c \in 1..Len(bs) : new[c] = bs[c]
         /\ \A c \in 1..Len(new) : c \notin 1..Len(bs) => new[c] = NewBlock
<1> DEFINE new == bs \o news
<1>1. /\ news \in Seq(BlockRecs) /\ Len(news) \in {2, 3}
      /\ \A k \in 1..Len(news) : news[k] = NewBlock
  <2>1. CASE news = <<NewBlock, NewBlock>>
    BY <2>1, NewBlockIs
  <2>2. CASE news = <<NewBlock, NewBlock, NewBlock>>
    BY <2>2, NewBlockIs
  <2> QED
    BY <2>1, <2>2
<1>2. /\ new \in Seq(BlockRecs) /\ Len(new) = Len(bs) + Len(news) /\ Len(bs) \in Nat
      /\ \A c \in 1..Len(bs) : new[c] = bs[c]
      /\ \A c \in 1..Len(news) : new[Len(bs) + c] = news[c]
  BY <1>1, ConcatIs
<1> HIDE DEF new
<1>3. ASSUME NEW c \in 1..Len(new), c \notin 1..Len(bs)
      PROVE  new[c] = NewBlock
  <2>1. c - Len(bs) \in 1..Len(news) /\ Len(bs) + (c - Len(bs)) = c
    BY <1>1, <1>2, <1>3
  <2> QED
    BY <1>1, <1>2, <2>1
<1> QED
  BY <1>1, <1>2, <1>3 DEF new

LEMMA BlockParts ==
  ASSUME NEW temps, NEW slots, NEW bs, BlocksOK(bs, temps, slots), NEW b \in 1..Len(bs)
  PROVE  /\ bs \in Seq(BlockRecs) /\ Len(bs) \in Nat /\ bs[b] \in BlockRecs
         /\ bs[b].insts \in Seq(InstRecs) /\ bs[b].term \in TermRecs
         /\ bs[b].term.to \in Seq(Nat)
<1>1. bs \in Seq(BlockRecs)
  BY DEF BlocksOK
<1>2. Len(bs) \in Nat /\ bs[b] \in BlockRecs
  BY <1>1
<1>3. bs[b].insts \in Seq(InstRecs) /\ bs[b].term \in TermRecs
  BY <1>2 DEF BlockRecs
<1>4. bs[b].term.to \in Seq(Nat)
  BY <1>3 DEF TermRecs
<1> QED
  BY <1>1, <1>2, <1>3, <1>4

\* They keep the blocks in order.
LEMMA BlocksEmit ==
  ASSUME NEW temps \in Nat, NEW slots \in Nat, NEW bs, BlocksOK(bs, temps, slots),
         NEW b \in 1..Len(bs), NEW insts \in Seq(InstRecs),
         NEW t \in Nat, t >= temps, NEW s \in Nat, s >= slots,
         \A i \in 1..Len(insts) : InstOK(insts[i], t, s)
  PROVE  BlocksOK(Emit(bs, b, insts), t, s)
<1> DEFINE new == Emit(bs, b, insts)
<1>1. /\ new \in Seq(BlockRecs) /\ Len(new) = Len(bs)
      /\ \A c \in 1..Len(bs) : /\ new[c].term = bs[c].term
                               /\ c # b => new[c] = bs[c]
      /\ new[b].insts = bs[b].insts \o insts
  BY EmitIs DEF BlocksOK
<1> HIDE DEF new
<1>2. \A inst : InstOK(inst, temps, slots) => InstOK(inst, t, s)
  BY DEF InstOK
<1>3. ASSUME NEW c \in 1..Len(bs), NEW i \in 1..Len(new[c].insts)
      PROVE  InstOK(new[c].insts[i], t, s)
  <2>1. CASE c # b
    BY <1>1, <1>2, <1>3, <2>1 DEF BlocksOK
  <2>2. CASE c = b
    <3>1. bs[b].insts \in Seq(InstRecs)
      BY BlockParts
    <3>2. /\ Len(bs[b].insts) \in Nat /\ Len(insts) \in Nat
          /\ Len(new[b].insts) = Len(bs[b].insts) + Len(insts)
          /\ \A k \in 1..Len(bs[b].insts) : new[b].insts[k] = bs[b].insts[k]
          /\ \A k \in 1..Len(insts) : new[b].insts[Len(bs[b].insts) + k] = insts[k]
      BY <1>1, <3>1, ConcatIs
    <3>3. CASE i \in 1..Len(bs[b].insts)
      BY <1>2, <2>2, <3>2, <3>3 DEF BlocksOK
    <3>4. CASE i \notin 1..Len(bs[b].insts)
      <4>1. i - Len(bs[b].insts) \in 1..Len(insts)
            /\ Len(bs[b].insts) + (i - Len(bs[b].insts)) = i
        BY <1>3, <2>2, <3>2, <3>4
      <4>2. new[b].insts[i] = insts[i - Len(bs[b].insts)]
        BY <3>2, <4>1
      <4> QED
        BY <2>2, <4>1, <4>2
    <3> QED
      BY <3>3, <3>4
  <2> QED
    BY <2>1, <2>2
<1>4. ASSUME NEW c \in 1..Len(bs), NEW k \in 1..Len(new[c].term.to)
      PROVE  new[c].term.to[k] \in 1..Len(bs)
  BY <1>1, <1>4 DEF BlocksOK
<1>5. BlocksOK(new, t, s)
  BY <1>1, <1>3, <1>4 DEF BlocksOK
<1> QED
  BY <1>5 DEF new

LEMMA BlocksTerminate ==
  ASSUME NEW temps, NEW slots, NEW bs, BlocksOK(bs, temps, slots),
         NEW b \in 1..Len(bs), NEW t \in TermRecs,
         \A k \in 1..Len(t.to) : t.to[k] \in 1..Len(bs)
  PROVE  BlocksOK(Terminate(bs, b, t), temps, slots)
<1> DEFINE new == Terminate(bs, b, t)
<1>1. /\ new \in Seq(BlockRecs) /\ Len(new) = Len(bs)
      /\ \A c \in 1..Len(bs) : /\ new[c].insts = bs[c].insts
                               /\ c # b => new[c] = bs[c]
      /\ new[b].term = t
  BY TerminateIs DEF BlocksOK
<1> HIDE DEF new
<1>2. ASSUME NEW c \in 1..Len(bs), NEW i \in 1..Len(new[c].insts)
      PROVE  InstOK(new[c].insts[i], temps, slots)
  BY <1>1, <1>2 DEF BlocksOK
<1>3. ASSUME NEW c \in 1..Len(bs), NEW k \in 1..Len(new[c].term.to)
      PROVE  new[c].term.to[k] \in 1..Len(bs)
  <2>1. CASE c = b
    BY <1>1, <1>3, <2>1
  <2>2. CASE c # b
    BY <1>1, <1>3, <2>2 DEF BlocksOK
  <2> QED
    BY <2>1, <2>2
<1>4. BlocksOK(new, temps, slots)
  BY <1>1, <1>2, <1>3 DEF BlocksOK
<1> QED
  BY <1>4 DEF new

LEMMA BlocksCreate ==
  ASSUME NEW temps, NEW slots, NEW bs, BlocksOK(bs, temps, slots),
         NEW news \in {<<NewBlock, NewBlock>>, <<NewBlock, NewBlock, NewBlock>>}
  PROVE  BlocksOK(bs \o news, temps, slots)
<1> DEFINE new == bs \o news
<1>1. /\ new \in Seq(BlockRecs) /\ Len(news) \in {2, 3} /\ Len(bs) \in Nat
      /\ Len(new) = Len(bs) + Len(news)
      /\ \A c \in 1..Len(bs) : new[c] = bs[c]
      /\ \A c \in 1..Len(new) : c \notin 1..Len(bs) => new[c] = NewBlock
  BY CreateIs DEF BlocksOK
<1> HIDE DEF new
<1>2. 1..Len(bs) \subseteq 1..Len(new)
  BY <1>1
<1>3. ASSUME NEW c \in 1..Len(new)
      PROVE  /\ \A i \in 1..Len(new[c].insts) : InstOK(new[c].insts[i], temps, slots)
             /\ \A k \in 1..Len(new[c].term.to) : new[c].term.to[k] \in 1..Len(new)
  <2>1. CASE c \in 1..Len(bs)
    BY <1>1, <1>2, <2>1 DEF BlocksOK
  <2>2. CASE c \notin 1..Len(bs)
    BY <1>1, <2>2, NewBlockIs
  <2> QED
    BY <2>1, <2>2
<1> QED
  BY <1>1, <1>3 DEF BlocksOK, new

\* Every terminator the generator makes is one.
LEMMA TermsAre ==
  /\ \A v \in Values : Halt(<<v>>) \in TermRecs /\ Halt(<<v>>).to = <<>>
                       /\ Halt(<<v>>).args = <<v>>
  /\ Halt(<<>>) \in TermRecs /\ Halt(<<>>).to = <<>> /\ Halt(<<>>).args = <<>>
  /\ \A b \in Nat : Jump(b) \in TermRecs /\ Jump(b).to = <<b>> /\ Jump(b).args = <<>>
  /\ \A v \in Values, b, c \in Nat : /\ BranchIfZero(v, b, c) \in TermRecs
                                     /\ BranchIfZero(v, b, c).to = <<b, c>>
                                     /\ BranchIfZero(v, b, c).args = <<v>>
  /\ \A v \in Values, b, c \in Nat : /\ Undefined # Halt(<<v>>) /\ Undefined # Jump(b)
                                     /\ Undefined # BranchIfZero(v, b, c)
  /\ Undefined # Halt(<<>>)
<1>1. \A v \in Values : <<v>> \in Seq(Values)
  OBVIOUS
<1>2. <<>> \in Seq(Values) /\ <<>> \in Seq(Nat)
  OBVIOUS
<1>3. \A b, c \in Nat : <<b>> \in Seq(Nat) /\ <<b, c>> \in Seq(Nat)
  OBVIOUS
<1>4. Len(<<>>) = 0 /\ \A b, c \in Nat : Len(<<b>>) = 1 /\ Len(<<b, c>>) = 2
  OBVIOUS
<1> QED
  BY <1>1, <1>2, <1>3, <1>4 DEF Halt, Jump, BranchIfZero, Undefined, TermRecs, TermTypes, TermFits
-----------------------------------------------------------------------------
\* A frame is pushed.
LEMMA WalkPush ==
  ASSUME NEW u, NEW slots, NEW n, NEW w, WalkOK(w, u, slots, n), w # <<>>,
         NEW f \in Frames, FrameOK(f, u, slots, n), PairOK(Last(w), f),
         Last(w).at \notin StmtFrames => f.at \in LogFrames
  PROVE  WalkOK(Append(w, f), u, slots, n)
<1> DEFINE v == Append(w, f)
<1>1. /\ w \in Seq(Frames) /\ v \in Seq(Frames) /\ v # <<>> /\ Len(w) \in Nat \ {0}
      /\ Len(v) = Len(w) + 1 /\ v[Len(w) + 1] = f
      /\ \A k \in 1..Len(w) : v[k] = w[k]
  BY AppendIs DEF WalkOK
<1> HIDE DEF v
<1>2. \A k \in 1..Len(v) : FrameOK(v[k], u, slots, n)
  BY <1>1 DEF WalkOK
<1>3. ASSUME NEW k \in 1..Len(v) - 1
      PROVE  PairOK(v[k], v[k + 1])
  <2>1. k \in 1..Len(w) /\ v[k] = w[k]
    BY <1>1
  <2>2. CASE k = Len(w)
    BY <1>1, <2>1, <2>2 DEF Last
  <2>3. CASE k # Len(w)
    <3>1. k \in 1..Len(w) - 1 /\ k + 1 \in 1..Len(w)
      BY <1>1, <2>1, <2>3
    <3> QED
      BY <1>1, <2>1, <3>1 DEF WalkOK
  <2> QED
    BY <2>2, <2>3
<1>4. ASSUME NEW k \in 1..Len(v), NEW l \in 1..Len(v), k < l, v[k].at \notin StmtFrames
      PROVE  v[l].at \in LogFrames
  <2>1. k \in 1..Len(w) /\ v[k] = w[k] /\ Len(w) \in 1..Len(w)
    BY <1>1, <1>4
  <2>2. CASE l \in 1..Len(w)
    BY <1>1, <1>4, <2>1, <2>2 DEF WalkOK
  <2>3. CASE l = Len(w) + 1
    <3>1. k = Len(w) \/ k < Len(w)
      BY <1>1, <2>1
    <3>2. w[Len(w)].at \notin StmtFrames
      <4>1. w[k].at \notin StmtFrames
        BY <1>4, <2>1
      <4>2. k < Len(w) => w[Len(w)].at \in LogFrames
        BY <2>1, <4>1 DEF WalkOK
      <4> QED
        BY <3>1, <4>1, <4>2 DEF LogFrames, StmtFrames
    <3> QED
      BY <1>1, <2>3, <3>2 DEF Last
  <2> QED
    BY <1>1, <2>2, <2>3
<1>5. v[1].at = "fn_block"
  <2>1. 1 \in 1..Len(w)
    BY <1>1
  <2> QED
    BY <1>1, <2>1 DEF WalkOK
<1> QED
  BY <1>1, <1>2, <1>3, <1>4, <1>5 DEF WalkOK, v

\* A frame is popped.  Under one of an expression is another, under one of a
\* statement a statement's.
LEMMA WalkPop ==
  ASSUME NEW u, NEW slots, NEW n, NEW w, WalkOK(w, u, slots, n), w # <<>>
  PROVE  /\ w \in Seq(Frames) /\ Len(w) \in Nat \ {0}
         /\ Last(w) \in Frames /\ FrameOK(Last(w), u, slots, n)
         /\ WalkOK(Butlast(w), u, slots, n)
         /\ Butlast(w) = <<>> <=> Last(w).at = "fn_block"
         /\ w = Append(Butlast(w), Last(w))
         /\ Butlast(w) # <<>> =>
              /\ PairOK(Last(Butlast(w)), Last(w))
              /\ Last(Butlast(w)) \in Frames
              /\ FrameOK(Last(Butlast(w)), u, slots, n)
              /\ Last(w).at \notin LogFrames => Last(Butlast(w)).at \in StmtFrames
              /\ Last(w).at \in LogFrames => Last(Butlast(w)).at \notin StmtFrames
              /\ Last(Butlast(w)) = w[Len(w) - 1]
<1> DEFINE v == Butlast(w)
<1>1. /\ w \in Seq(Frames) /\ v \in Seq(Frames) /\ Len(w) \in Nat \ {0}
      /\ Len(v) = Len(w) - 1
      /\ \A k \in 1..Len(w) - 1 : v[k] = w[k]
  BY ButlastIs DEF WalkOK
<1>2. w = Append(v, w[Len(w)]) /\ w[Len(w)] \in Frames
  BY <1>1, RestoreIs
<1> HIDE DEF v
<1>3. FrameOK(w[Len(w)], u, slots, n)
  BY <1>1 DEF WalkOK
<1>4. WalkOK(v, u, slots, n)
  <2>1. \A k \in 1..Len(v) : FrameOK(v[k], u, slots, n)
    BY <1>1 DEF WalkOK
  <2>2. ASSUME NEW k \in 1..Len(v) - 1
        PROVE  PairOK(v[k], v[k + 1])
    <3>1. k \in 1..Len(w) - 1 /\ v[k] = w[k] /\ v[k + 1] = w[k + 1]
      BY <1>1
    <3> QED
      BY <3>1 DEF WalkOK
  <2>3. ASSUME NEW k \in 1..Len(v), NEW l \in 1..Len(v), k < l, v[k].at \notin StmtFrames
        PROVE  v[l].at \in LogFrames
    <3>1. k \in 1..Len(w) /\ v[k] = w[k] /\ l \in 1..Len(w) /\ v[l] = w[l]
      BY <1>1
    <3> QED
      BY <2>3, <3>1 DEF WalkOK
  <2>4. v # <<>> => v[1].at = "fn_block"
    <3> SUFFICES ASSUME v # <<>> PROVE v[1].at = "fn_block"
      OBVIOUS
    <3>1. 1 \in 1..Len(w) - 1
      BY <1>1
    <3> QED
      BY <1>1, <3>1 DEF WalkOK
  <2> QED
    BY <1>1, <2>1, <2>2, <2>3, <2>4 DEF WalkOK
<1>5. v = <<>> => w[Len(w)].at = "fn_block"
  <2> SUFFICES ASSUME v = <<>> PROVE w[Len(w)].at = "fn_block"
    OBVIOUS
  <2>1. Len(w) = 1
    BY <1>1
  <2> QED
    BY <2>1 DEF WalkOK
<1>6. v # <<>> => /\ PairOK(v[Len(v)], w[Len(w)])
                  /\ v[Len(v)] \in Frames /\ FrameOK(v[Len(v)], u, slots, n)
                  /\ v[Len(v)].at \notin StmtFrames => w[Len(w)].at \in LogFrames
                  /\ v[Len(v)] = w[Len(w) - 1]
  <2> SUFFICES ASSUME v # <<>>
               PROVE  /\ PairOK(v[Len(v)], w[Len(w)])
                      /\ v[Len(v)] \in Frames /\ FrameOK(v[Len(v)], u, slots, n)
                      /\ v[Len(v)].at \notin StmtFrames => w[Len(w)].at \in LogFrames
                      /\ v[Len(v)] = w[Len(w) - 1]
    OBVIOUS
  <2>1. /\ Len(v) \in 1..Len(w) - 1 /\ Len(v) \in 1..Len(w) /\ Len(w) \in 1..Len(w)
        /\ Len(v) < Len(w) /\ Len(v) + 1 = Len(w) /\ v[Len(v)] = w[Len(v)]
    BY <1>1
  <2>2. PairOK(v[Len(v)], w[Len(w)])
    BY <2>1 DEF WalkOK
  <2>3. w[Len(v)] \in Frames /\ FrameOK(w[Len(v)], u, slots, n)
    BY <1>1, <2>1 DEF WalkOK
  <2>4. w[Len(v)].at \notin StmtFrames => w[Len(w)].at \in LogFrames
    BY <2>1 DEF WalkOK
  <2>5. Len(v) = Len(w) - 1
    BY <1>1
  <2> QED
    BY <2>1, <2>2, <2>3, <2>4, <2>5
<1>7. v # <<>> => /\ w[Len(w)].at # "fn_block"
                  /\ w[Len(w)].at \in LogFrames => v[Len(v)].at \notin StmtFrames
  BY <1>6 DEF PairOK
<1> QED
  BY <1>1, <1>2, <1>3, <1>4, <1>5, <1>6, <1>7 DEF Last, v

\* More slots and blocks do no harm.
LEMMA WalkGrow ==
  ASSUME NEW u, NEW slots \in Nat, NEW n \in Nat, NEW w, WalkOK(w, u, slots, n),
         NEW s \in Nat, s >= slots, NEW m \in Nat, m >= n
  PROVE  WalkOK(w, u, s, m)
<1>1. 0..slots - 1 \subseteq 0..s - 1 /\ 1..n \subseteq 1..m
  OBVIOUS
<1>2. ASSUME NEW k \in 1..Len(w) PROVE FrameOK(w[k], u, s, m)
  <2>1. FrameOK(w[k], u, slots, n)
    BY DEF WalkOK
  <2> QED
    BY <1>1, <2>1 DEF FrameOK
<1> QED
  BY <1>2 DEF WalkOK

\* Under a statement are only statements, which claim no values.
LEMMA WalkUnclaimed ==
  ASSUME NEW u, NEW slots, NEW n, NEW w, WalkOK(w, u, slots, n),
         w # <<>> => Last(w).at \in StmtFrames, NEW u2
  PROVE  /\ WalkOK(w, u2, slots, n)
         /\ \A k \in 1..Len(w) : w[k].at \in StmtFrames
<1>1. ASSUME NEW k \in 1..Len(w) PROVE w[k].at \in StmtFrames
  <2>1. Len(w) \in 1..Len(w) /\ (k < Len(w) \/ k = Len(w)) /\ w # <<>>
    BY DEF WalkOK
  <2>2. w[Len(w)].at \in StmtFrames
    BY <2>1 DEF Last
  <2>3. w[k].at \notin StmtFrames /\ k < Len(w) => w[Len(w)].at \in LogFrames
    BY <2>1 DEF WalkOK
  <2> QED
    BY <2>1, <2>2, <2>3 DEF StmtFrames, LogFrames
<1>2. ASSUME NEW k \in 1..Len(w) PROVE FrameOK(w[k], u2, slots, n)
  <2>1. FrameOK(w[k], u, slots, n) /\ w[k].at \in StmtFrames
    BY <1>1 DEF WalkOK
  <2>2. w[k].at \notin HeadFrames /\ w[k].at \notin LogFrames
    BY <2>1 DEF StmtFrames, HeadFrames, LogFrames
  <2> QED
    BY <2>1, <2>2 DEF FrameOK
<1> QED
  BY <1>1, <1>2 DEF WalkOK
-----------------------------------------------------------------------------
CountIn(w, S) == {k \in DOMAIN w : w[k].at \in S}

\* One frame more counts for one, or for none.
LEMMA CountPush ==
  ASSUME NEW w \in Seq(Frames), NEW f \in Frames, NEW S
  PROVE  /\ Count(w, S) \in Nat
         /\ Count(Append(w, f), S) = Count(w, S) + IF f.at \in S THEN 1 ELSE 0
<1> DEFINE v == Append(w, f)
<1>1. /\ v \in Seq(Frames) /\ Len(w) \in Nat
      /\ Len(v) = Len(w) + 1 /\ v[Len(w) + 1] = f
      /\ \A k \in 1..Len(w) : v[k] = w[k]
      /\ DOMAIN w = 1..Len(w) /\ DOMAIN v = 1..Len(v)
  BY AppendIs
<1> HIDE DEF v
<1>2. IsFiniteSet(CountIn(w, S))
  <2>1. IsFiniteSet(1..Len(w)) /\ CountIn(w, S) \subseteq 1..Len(w)
    BY <1>1, FS_Interval DEF CountIn
  <2> QED
    BY <2>1, FS_Subset
<1>3. Count(w, S) = Cardinality(CountIn(w, S)) /\ Count(v, S) = Cardinality(CountIn(v, S))
  BY DEF Count, CountIn
<1>4. Count(w, S) \in Nat
  BY <1>2, <1>3, FS_CardinalityType
<1>5. Len(w) + 1 \notin CountIn(w, S)
  BY <1>1 DEF CountIn
<1>6. CASE f.at \in S
  <2>1. CountIn(v, S) = CountIn(w, S) \cup {Len(w) + 1}
    BY <1>1, <1>6 DEF CountIn
  <2>2. Cardinality(CountIn(v, S)) = Cardinality(CountIn(w, S)) + 1
    BY <1>2, <1>5, <2>1, FS_AddElement
  <2> QED
    BY <1>3, <1>4, <1>6, <2>2 DEF v
<1>7. CASE f.at \notin S
  <2>1. CountIn(v, S) = CountIn(w, S)
    BY <1>1, <1>7 DEF CountIn
  <2> QED
    BY <1>3, <1>4, <1>7, <2>1 DEF v
<1> QED
  BY <1>6, <1>7

LEMMA CountPop ==
  ASSUME NEW w \in Seq(Frames), w # <<>>, NEW S
  PROVE  /\ Count(w, S) \in Nat /\ Count(Butlast(w), S) \in Nat
         /\ Count(w, S) = Count(Butlast(w), S) + IF Last(w).at \in S THEN 1 ELSE 0
<1>1. /\ Butlast(w) \in Seq(Frames) /\ w[Len(w)] \in Frames
      /\ w = Append(Butlast(w), w[Len(w)])
  BY ButlastIs, RestoreIs
<1>2. /\ Count(Butlast(w), S) \in Nat
      /\ Count(Append(Butlast(w), w[Len(w)]), S)
           = Count(Butlast(w), S) + IF w[Len(w)].at \in S THEN 1 ELSE 0
  BY <1>1, CountPush
<1>3. Count(w, S) = Count(Butlast(w), S) + IF w[Len(w)].at \in S THEN 1 ELSE 0
  BY <1>1, <1>2
<1>4. Last(w) = w[Len(w)]
  BY DEF Last
<1>5. Count(w, S) \in Nat
  BY <1>2, <1>3
<1> QED
  BY <1>2, <1>3, <1>4, <1>5

LEMMA CountNone ==
  ASSUME NEW w, NEW S, \A k \in DOMAIN w : w[k].at \notin S
  PROVE  Count(w, S) = 0
<1>1. CountIn(w, S) = {}
  BY DEF CountIn
<1> QED
  BY <1>1, FS_EmptySet DEF Count, CountIn

\* The bound as the actions use it.
LEMMA OwedIs ==
  /\ Owed = Owes(walk, Height)
  /\ \A w \in Seq(Frames) : w # <<>> => Pop(w, 1) = Butlast(w)
<1>1. Owed = Owes(walk, Height)
  BY DEF Owed, Owes, Count, InExpr, Running, Top, Pending, Operands, Needs
<1>2. \A w \in Seq(Frames) : w # <<>> => Pop(w, 1) = Butlast(w)
  BY DEF Pop, Butlast
<1> QED
  BY <1>1, <1>2
-----------------------------------------------------------------------------
\* What the invariant says when a statement may begin or end,
LEMMA OnStatement ==
  ASSUME IInv, InStmts
  PROVE  /\ walk # <<>> /\ Top \in Frames /\ Top.at \in StmtFrames
         /\ Height = unclaimed /\ Owed = 0
         /\ \A S : S \cap StmtFrames = {} => Count(walk, S) = 0
         /\ \A k \in 1..Len(walk) : walk[k].at \in StmtFrames
         /\ \A u : WalkOK(walk, u, next_slot, Len(blocks))
<1>1. WalkOK(walk, unclaimed, next_slot, Len(blocks)) /\ HeightOK(walk, Height, unclaimed)
  BY DEF IInv
<1>2. walk # <<>> /\ Top.at \in StmtFrames /\ Top = Last(walk)
  BY DEF InStmts, Running, Top
<1>3. Top \in Frames
  BY <1>1, <1>2, WalkPop
<1>4. /\ \A k \in 1..Len(walk) : walk[k].at \in StmtFrames
      /\ \A u : WalkOK(walk, u, next_slot, Len(blocks))
  BY <1>1, <1>2, WalkUnclaimed
<1>5. Height = unclaimed
  BY <1>1, <1>2 DEF HeightOK
<1>6. ASSUME NEW S, S \cap StmtFrames = {} PROVE Count(walk, S) = 0
  <2>1. DOMAIN walk = 1..Len(walk)
    BY <1>1 DEF WalkOK
  <2> QED
    BY <1>4, <1>6, <2>1, CountNone
<1>7. Owed = 0
  <2>1. Count(walk, {"and_lhs", "or_lhs"}) = 0
    BY <1>6 DEF StmtFrames
  <2> QED
    BY <1>2, <2>1, OwedIs DEF Owes
<1> QED
  BY <1>2, <1>3, <1>4, <1>5, <1>6, <1>7

\* in an expression,
LEMMA InExpression ==
  ASSUME IInv, InExpr
  PROVE  /\ walk # <<>> /\ walk \in Seq(Frames) /\ Top \in Frames /\ Top.at \notin StmtFrames
         /\ FrameOK(Top, unclaimed, next_slot, Len(blocks))
         /\ Top.base \in Nat /\ Height \in Nat /\ unclaimed \in Nat
         /\ Height >= Top.base /\ Pending \in Nat /\ Operands \in 0..1
         /\ Top.base >= unclaimed
         /\ Count(walk, {"and_lhs", "or_lhs"}) \in Nat
         /\ \A h \in Int : Owes(walk, h) = Count(walk, {"and_lhs", "or_lhs"})
                              + IF h - Top.base < Operands THEN 1 ELSE 0
<1>1. /\ WalkOK(walk, unclaimed, next_slot, Len(blocks))
      /\ HeightOK(walk, Height, unclaimed)
      /\ val_stack \in Seq(Values) /\ unclaimed \in Nat
  BY DEF IInv
<1>2. walk # <<>> /\ Top.at \notin StmtFrames /\ Top = Last(walk)
  BY DEF InExpr, Running, Top
<1>3. Top \in Frames /\ FrameOK(Top, unclaimed, next_slot, Len(blocks)) /\ walk \in Seq(Frames)
  BY <1>1, <1>2, WalkPop
<1>4. Height \in Nat /\ Height >= Top.base
  BY <1>1, <1>2 DEF HeightOK, Height
<1>5. Top.base \in Nat /\ Top.at \in Ats
  BY <1>3 DEF Frames
<1>6. Pending \in Nat
  BY <1>4, <1>5 DEF Pending
<1>7. Operands \in 0..1
  BY <1>3 DEF Operands, FrameOK
<1>8. Top.base >= unclaimed
  BY <1>1, <1>2, <1>3, <1>5 DEF FrameOK, Ats
<1>9. Count(walk, {"and_lhs", "or_lhs"}) \in Nat
  BY <1>2, <1>3, CountPop
<1>10. Operands = Needs(Top)
  BY DEF Operands, Needs
<1>11. \A h \in Int : Owes(walk, h) = Count(walk, {"and_lhs", "or_lhs"})
                              + IF h - Top.base < Operands THEN 1 ELSE 0
  BY <1>2, <1>10 DEF Owes
<1> QED
  BY <1>1, <1>2, <1>3, <1>4, <1>5, <1>6, <1>7, <1>8, <1>9, <1>11

\* and in the outermost expression of a statement.
LEMMA OnHead ==
  ASSUME IInv, InExpr, Top.at \in HeadFrames
  PROVE  /\ walk # <<>> /\ Butlast(walk) # <<>> /\ Pop(walk, 1) = Butlast(walk)
         /\ Last(Butlast(walk)) \in Frames /\ Last(Butlast(walk)).at \in StmtFrames
         /\ Top.base = unclaimed
         /\ \A S : S \cap StmtFrames = {} => Count(Butlast(walk), S) = 0
         /\ \A u : WalkOK(Butlast(walk), u, next_slot, Len(blocks))
         /\ Top.scope \subseteq 0..next_slot - 1
<1>1. WalkOK(walk, unclaimed, next_slot, Len(blocks))
  BY DEF IInv
<1>2. walk # <<>> /\ Top = Last(walk)
  BY DEF InExpr, Running, Top
<1>3. /\ walk \in Seq(Frames)
      /\ Butlast(walk) # <<>>
      /\ Last(Butlast(walk)) \in Frames /\ Last(Butlast(walk)).at \in StmtFrames
      /\ WalkOK(Butlast(walk), unclaimed, next_slot, Len(blocks))
      /\ FrameOK(Top, unclaimed, next_slot, Len(blocks))
  BY <1>1, <1>2, WalkPop DEF HeadFrames, LogFrames
<1>4. Pop(walk, 1) = Butlast(walk)
  BY <1>2, <1>3, OwedIs
<1>5. Top.base = unclaimed /\ Top.scope \subseteq 0..next_slot - 1
  BY <1>3 DEF FrameOK
<1>6. /\ \A k \in 1..Len(Butlast(walk)) : Butlast(walk)[k].at \in StmtFrames
      /\ \A u : WalkOK(Butlast(walk), u, next_slot, Len(blocks))
  BY <1>3, WalkUnclaimed
<1>7. DOMAIN Butlast(walk) = 1..Len(Butlast(walk))
  BY <1>3 DEF WalkOK
<1>8. ASSUME NEW S, S \cap StmtFrames = {} PROVE Count(Butlast(walk), S) = 0
  BY <1>6, <1>7, <1>8, CountNone
<1> QED
  BY <1>2, <1>3, <1>4, <1>5, <1>6, <1>8
-----------------------------------------------------------------------------
Imms == {v \in Values : v.kind = "IRVAL_IMM"}

\* Instruction i leaves its result in a new temp; it reads the last n values of
\* the stack, each once, or a constant, or a variable that may be read; a call
\* reads nothing else, and has as many arguments as a function has.
Computes(i, n) ==
  /\ i \in InstRecs /\ i.dst = next_temp
  /\ InstOK(i, next_temp + 1, next_slot)
  /\ i.type # "IR_STORE"
  /\ i.type = "IR_LOAD" => i.slot \in Readable
  /\ i.type = "IR_CALL" => n = Len(i.args) /\ n \in Arities \cup 0..1
  /\ n <= Len(i.args)
  /\ \A k \in 1..Len(i.args) :
       i.args[k] = IF k <= Len(i.args) - n THEN IMM(0)
                   ELSE val_stack[Height - Len(i.args) + k]

\* What the actions that evaluate one node of an expression have in common:
\* n values are replaced by v.
Eval(n, v, insts) ==
  /\ InExpr /\ n \in Nat /\ n <= Pending
  /\ \/ /\ v \in Imms /\ insts = <<>> /\ n = 0
        /\ next_temp' = next_temp
     \/ /\ v = TEMP(next_temp) /\ insts \in Seq(InstRecs) /\ Len(insts) = 1
        /\ Computes(insts[1], n)
        /\ next_temp' = next_temp + 1
  /\ val_stack' = Append(SubSeq(val_stack, 1, Height - n), v)
  /\ blocks' = Emit(blocks, curr, insts)
  /\ nodes' \in {nodes, nodes + 1}
  /\ nodes' + Count(walk, {"and_lhs", "or_lhs"}) <= MaxNodes
  /\ UNCHANGED <<curr, next_slot, walk, assigned, program>>

Evaluate == \/ \E c \in Constants : IntLit(c)
            \/ InExpr /\ \E s \in Top.scope : Name(s)
            \/ Unary
            \/ Binary
            \/ \E k \in Arities : FnCall(k)

LEMMA ValuesAre ==
  /\ \A c \in Constants \cup {0, 1} : IMM(c) \in Imms
  /\ \A t \in Nat : TEMP(t) \in Values
  /\ \A v \in Imms, t \in Nat : v \in Values /\ v.kind = "IRVAL_IMM" /\ v # TEMP(t)
  /\ \A t \in Nat : TEMP(t).kind = "IRVAL_TEMP" /\ TEMP(t).id = t
  /\ \A v \in Values : v.kind = "IRVAL_TEMP" => v.id \in Nat /\ v = TEMP(v.id)
BY DEF Values, IMM, TEMP, Imms

\* A node more is within the bound when it is the leaf that was owed.
LEMMA LeafAffords ==
  ASSUME IInv, InExpr
  PROVE  /\ nodes \in Nat /\ MaxNodes \in Nat
         /\ nodes + Count(walk, {"and_lhs", "or_lhs"}) <= MaxNodes
         /\ LeafFits \/ Affords(1) =>
              nodes + 1 + Count(walk, {"and_lhs", "or_lhs"}) <= MaxNodes
<1> DEFINE c == Count(walk, {"and_lhs", "or_lhs"})
<1>1. /\ c \in Nat /\ Height \in Nat /\ Pending \in Nat /\ Operands \in 0..1
      /\ \A h \in Int : Owes(walk, h) = c + IF h - Top.base < Operands THEN 1 ELSE 0
  BY InExpression
<1>2. Owes(walk, Height) = c + IF Pending < Operands THEN 1 ELSE 0
  BY <1>1 DEF Pending
<1>3. nodes \in Nat /\ MaxNodes \in Nat /\ nodes + Owes(walk, Height) <= MaxNodes
  BY Bounds DEF IInv
<1>4. Owed = Owes(walk, Height)
  BY OwedIs
<1> HIDE DEF c
<1>5. nodes + c <= MaxNodes
  BY <1>1, <1>2, <1>3
<1>6. Affords(1) => nodes + 1 + c <= MaxNodes
  BY <1>1, <1>2, <1>3, <1>4 DEF Affords
<1>7. LeafFits => nodes + 1 + c <= MaxNodes
  BY <1>1, <1>2, <1>3, <1>6 DEF LeafFits
<1> QED
  BY <1>3, <1>5, <1>6, <1>7 DEF c

\* Its last n values, and what is under them.
LEMMA StackIs ==
  ASSUME IInv, NEW n \in Nat, n <= Height
  PROVE  /\ SubSeq(val_stack, 1, Height - n) \in Seq(Values)
         /\ Len(SubSeq(val_stack, 1, Height - n)) = Height - n
         /\ \A k \in 1..Height - n : SubSeq(val_stack, 1, Height - n)[k] = val_stack[k]
         /\ Popped(n) \in Seq(Values) /\ Len(Popped(n)) = n
         /\ \A k \in 1..n : Popped(n)[k] = val_stack[Height - n + k]
         /\ Pop(val_stack, n) = SubSeq(val_stack, 1, Height - n)
         /\ Height \in Nat
<1>1. val_stack \in Seq(Values) /\ Height = Len(val_stack) /\ Height \in Nat
  BY DEF IInv, Height
<1>2. n \in 0..Len(val_stack)
  BY <1>1
<1>3. /\ SubSeq(val_stack, 1, Height - n) \in Seq(Values)
      /\ Len(SubSeq(val_stack, 1, Height - n)) = Height - n
      /\ \A k \in 1..Height - n : SubSeq(val_stack, 1, Height - n)[k] = val_stack[k]
      /\ SubSeq(val_stack, Height - n + 1, Height) \in Seq(Values)
      /\ Len(SubSeq(val_stack, Height - n + 1, Height)) = n
      /\ \A k \in 1..n : SubSeq(val_stack, Height - n + 1, Height)[k]
                           = val_stack[Height - n + k]
  BY <1>1, <1>2, TakeOffIs
<1> QED
  BY <1>1, <1>3 DEF Popped, Pop

LEMMA EvaluateIntLit ==
  ASSUME IInv, NEW c \in Constants, IntLit(c)
  PROVE  Eval(0, IMM(c), <<>>)
<1>1. InExpr /\ LeafFits
  BY DEF IntLit, LeafFits
<1>2. /\ nodes \in Nat /\ nodes + 1 + Count(walk, {"and_lhs", "or_lhs"}) <= MaxNodes
      /\ Pending \in Nat
  BY <1>1, LeafAffords, InExpression
<1>3. SubSeq(val_stack, 1, Height - 0) = val_stack
  <2>1. Height \in Nat /\ val_stack \in Seq(Values) /\ Height = Len(val_stack)
    BY DEF IInv, Height
  <2>2. /\ SubSeq(val_stack, 1, Height - 0) \in Seq(Values)
        /\ Len(SubSeq(val_stack, 1, Height - 0)) = Height - 0
        /\ \A k \in 1..Height - 0 : SubSeq(val_stack, 1, Height - 0)[k] = val_stack[k]
    BY <2>1, StackIs
  <2> QED
    BY <2>1, <2>2, SeqEqual
<1>4. IMM(c) \in Imms
  BY ValuesAre
<1>5. /\ val_stack' = Append(val_stack, IMM(c)) /\ blocks' = Emit(blocks, curr, <<>>)
      /\ nodes' = nodes + 1 /\ next_temp' = next_temp
      /\ UNCHANGED <<curr, next_slot, walk, assigned, program>>
  BY DEF IntLit, Produce, Push
<1>6. /\ 0 \in Nat /\ 0 <= Pending /\ nodes' \in {nodes, nodes + 1}
      /\ nodes' + Count(walk, {"and_lhs", "or_lhs"}) <= MaxNodes
  BY <1>2, <1>5
<1>7. val_stack' = Append(SubSeq(val_stack, 1, Height - 0), IMM(c))
  BY <1>3, <1>5
<1> QED
  BY <1>1, <1>4, <1>5, <1>6, <1>7, Zenon DEF Eval

LEMMA EvaluateName ==
  ASSUME IInv, NEW s \in Top.scope, Name(s)
  PROVE  Eval(0, TEMP(next_temp), <<Load(next_temp, s)>>)
<1>1. InExpr /\ LeafFits
  BY DEF Name, LeafFits
<1>2. /\ nodes \in Nat /\ nodes + 1 + Count(walk, {"and_lhs", "or_lhs"}) <= MaxNodes
      /\ Pending \in Nat /\ FrameOK(Top, unclaimed, next_slot, Len(blocks))
  BY <1>1, LeafAffords, InExpression
<1>3. SubSeq(val_stack, 1, Height - 0) = val_stack
  <2>1. Height \in Nat /\ val_stack \in Seq(Values) /\ Height = Len(val_stack)
    BY DEF IInv, Height
  <2>2. /\ SubSeq(val_stack, 1, Height - 0) \in Seq(Values)
        /\ Len(SubSeq(val_stack, 1, Height - 0)) = Height - 0
        /\ \A k \in 1..Height - 0 : SubSeq(val_stack, 1, Height - 0)[k] = val_stack[k]
    BY <2>1, StackIs
  <2> QED
    BY <2>1, <2>2, SeqEqual
<1>4. s \in 0..next_slot - 1 /\ next_slot \in Nat /\ next_temp \in Nat
  BY <1>2 DEF FrameOK, IInv
<1>5. /\ Load(next_temp, s) \in InstRecs /\ Load(next_temp, s).dst = next_temp
      /\ Load(next_temp, s).args = <<>> /\ Load(next_temp, s).slot = s
      /\ Load(next_temp, s).type = "IR_LOAD"
  <2>1. <<>> \in Seq(Values)
    OBVIOUS
  <2> QED
    BY <1>4, <2>1 DEF Load, Inst, InstRecs, InstTypes
<1>6. Computes(Load(next_temp, s), 0)
  <2>1. s \in Readable
    BY DEF Name
  <2> QED
    BY <1>4, <1>5, <2>1 DEF Computes, InstOK
<1>7. /\ val_stack' = Append(val_stack, TEMP(next_temp))
      /\ blocks' = Emit(blocks, curr, <<Load(next_temp, s)>>)
      /\ nodes' = nodes + 1 /\ next_temp' = next_temp + 1
      /\ UNCHANGED <<curr, next_slot, walk, assigned, program>>
  BY DEF Name, Produce, Push
<1>8. /\ <<Load(next_temp, s)>> \in Seq(InstRecs) /\ Len(<<Load(next_temp, s)>>) = 1
      /\ <<Load(next_temp, s)>>[1] = Load(next_temp, s)
  BY <1>5
<1>9. /\ 0 \in Nat /\ 0 <= Pending /\ nodes' \in {nodes, nodes + 1}
      /\ nodes' + Count(walk, {"and_lhs", "or_lhs"}) <= MaxNodes
  BY <1>2, <1>7
<1>10. val_stack' = Append(SubSeq(val_stack, 1, Height - 0), TEMP(next_temp))
  BY <1>3, <1>7
<1>11. Computes(<<Load(next_temp, s)>>[1], 0)
  BY <1>6, <1>8
<1> QED
  BY <1>1, <1>7, <1>8, <1>9, <1>10, <1>11, Zenon DEF Eval

\* Any instruction that reads the top of the stack and defines a new temp.
LEMMA EvaluateApply ==
  ASSUME IInv, InExpr, NEW n \in Nat, n <= Pending, NEW i, Computes(i, n), Apply(n, i),
         nodes' \in {nodes, nodes + 1},
         nodes' + Count(walk, {"and_lhs", "or_lhs"}) <= MaxNodes
  PROVE  Eval(n, TEMP(next_temp), <<i>>)
<1>1. i \in InstRecs
  BY DEF Computes
<1>2. <<i>> \in Seq(InstRecs) /\ Len(<<i>>) = 1 /\ <<i>>[1] = i
  BY <1>1
<1>3. /\ val_stack' = Append(SubSeq(val_stack, 1, Height - n), TEMP(next_temp))
      /\ blocks' = Emit(blocks, curr, <<i>>) /\ next_temp' = next_temp + 1
      /\ UNCHANGED <<curr, next_slot, walk, assigned, program>>
  BY DEF Apply, Push, Pop, Height
<1> QED
  BY <1>2, <1>3 DEF Eval

LEMMA OperatorsCompute ==
  ASSUME IInv, InExpr
  PROVE  /\ Pending >= 1 =>
              /\ Computes(BinOp("BIN_SUB", next_temp, IMM(0), Last(val_stack)), 1)
              /\ Computes(CmpOp(next_temp, IMM(0), Last(val_stack)), 1)
         /\ Pending >= 2 =>
              /\ \A op \in {"BIN_ADD", "BIN_MUL"} :
                   Computes(BinOp(op, next_temp, val_stack[Height - 1], val_stack[Height]), 2)
              /\ Computes(CmpOp(next_temp, val_stack[Height - 1], val_stack[Height]), 2)
         /\ \A k \in Arities \cup 0..1 :
              k <= Pending => Computes(Call(next_temp, Popped(k)), k)
<1>1. /\ next_temp \in Nat /\ Height \in Nat /\ val_stack \in Seq(Values)
      /\ Height = Len(val_stack) /\ Pending \in Nat /\ Pending <= Height
  BY InExpression DEF IInv, Height, Pending
<1>2. \A k \in 1..Height : val_stack[k] \in Values
  BY <1>1
<1>3. IMM(0) \in Values
  BY ValuesAre
<1>4. ASSUME NEW op \in {"BIN_ADD", "BIN_SUB", "BIN_MUL", "IR_CMPOP"},
             NEW l \in Values, NEW r \in Values
      PROVE  LET i == Inst(op, next_temp, NoSlot, <<l, r>>) IN
             /\ i \in InstRecs /\ i.dst = next_temp /\ i.type = op
             /\ i.args = <<l, r>> /\ InstOK(i, next_temp + 1, next_slot)
  <2>1. <<l, r>> \in Seq(Values)
    OBVIOUS
  <2> QED
    BY <1>1, <2>1 DEF Inst, InstRecs, InstTypes, InstOK
<1>5. ASSUME NEW op \in {"BIN_ADD", "BIN_SUB", "BIN_MUL", "IR_CMPOP"}, Pending >= 1
      PROVE  Computes(Inst(op, next_temp, NoSlot, <<IMM(0), Last(val_stack)>>), 1)
  <2> DEFINE i == Inst(op, next_temp, NoSlot, <<IMM(0), Last(val_stack)>>)
  <2>1. Height >= 1 /\ Last(val_stack) = val_stack[Height] /\ val_stack[Height] \in Values
    BY <1>1, <1>2, <1>5 DEF Last
  <2>2. /\ i \in InstRecs /\ i.dst = next_temp /\ i.type = op
        /\ i.args = <<IMM(0), Last(val_stack)>> /\ InstOK(i, next_temp + 1, next_slot)
    BY <1>3, <1>4, <2>1
  <2> HIDE DEF i
  <2>3. Len(i.args) = 2 /\ i.args[1] = IMM(0) /\ i.args[2] = val_stack[Height]
    BY <2>1, <2>2
  <2>4. ASSUME NEW k \in 1..Len(i.args)
        PROVE  i.args[k] = IF k <= Len(i.args) - 1 THEN IMM(0)
                           ELSE val_stack[Height - Len(i.args) + k]
    <3>1. k \in {1, 2} /\ Height - 2 + 2 = Height
      BY <1>1, <2>3
    <3> QED
      BY <2>3, <3>1
  <2>5. Computes(i, 1)
    BY <2>2, <2>3, <2>4 DEF Computes
  <2> QED
    BY <2>5 DEF i
<1>6. ASSUME NEW op \in {"BIN_ADD", "BIN_SUB", "BIN_MUL", "IR_CMPOP"}, Pending >= 2
      PROVE  Computes(Inst(op, next_temp, NoSlot,
                           <<val_stack[Height - 1], val_stack[Height]>>), 2)
  <2> DEFINE i == Inst(op, next_temp, NoSlot, <<val_stack[Height - 1], val_stack[Height]>>)
  <2>1. /\ Height >= 2 /\ val_stack[Height] \in Values /\ val_stack[Height - 1] \in Values
    BY <1>1, <1>2, <1>6
  <2>2. /\ i \in InstRecs /\ i.dst = next_temp /\ i.type = op
        /\ i.args = <<val_stack[Height - 1], val_stack[Height]>>
        /\ InstOK(i, next_temp + 1, next_slot)
    BY <1>4, <2>1
  <2> HIDE DEF i
  <2>3. /\ Len(i.args) = 2 /\ i.args[1] = val_stack[Height - 1]
        /\ i.args[2] = val_stack[Height]
    BY <2>2
  <2>4. ASSUME NEW k \in 1..Len(i.args)
        PROVE  i.args[k] = IF k <= Len(i.args) - 2 THEN IMM(0)
                           ELSE val_stack[Height - Len(i.args) + k]
    <3>1. k \in {1, 2} /\ Height - 2 + 2 = Height /\ Height - 2 + 1 = Height - 1
      BY <1>1, <2>3
    <3> QED
      BY <2>3, <3>1
  <2>5. Computes(i, 2)
    BY <2>2, <2>3, <2>4 DEF Computes
  <2> QED
    BY <2>5 DEF i
<1>7. ASSUME NEW k \in Arities \cup 0..1, k <= Pending
      PROVE  Computes(Call(next_temp, Popped(k)), k)
  <2> DEFINE i == Call(next_temp, Popped(k))
  <2>1. /\ Popped(k) \in Seq(Values) /\ Len(Popped(k)) = k
        /\ \A j \in 1..k : Popped(k)[j] = val_stack[Height - k + j]
    <3>1. k \in Nat /\ k <= Height
      BY <1>1, <1>7, Bounds
    <3> QED
      BY <3>1, StackIs
  <2>2. /\ i \in InstRecs /\ i.dst = next_temp /\ i.type = "IR_CALL"
        /\ i.args = Popped(k) /\ InstOK(i, next_temp + 1, next_slot)
    BY <1>1, <2>1 DEF Call, Inst, InstRecs, InstTypes, InstOK
  <2> HIDE DEF i
  <2>3. ASSUME NEW j \in 1..Len(i.args)
        PROVE  i.args[j] = IF j <= Len(i.args) - k THEN IMM(0)
                           ELSE val_stack[Height - Len(i.args) + j]
    BY <2>1, <2>2
  <2>4. Computes(i, k)
    BY <2>1, <2>2, <2>3 DEF Computes
  <2> QED
    BY <2>4 DEF i
<1> QED
  BY <1>5, <1>6, <1>7 DEF BinOp, CmpOp

\* Each of them evaluates a node.
LEMMA Evaluates ==
  ASSUME IInv, Evaluate
  PROVE  \E n, v, insts : Eval(n, v, insts)
<1>1. CASE \E c \in Constants : IntLit(c)
  BY <1>1, EvaluateIntLit
<1>2. CASE InExpr /\ \E s \in Top.scope : Name(s)
  BY <1>2, EvaluateName
<1>3. CASE Unary
  <2>1. InExpr /\ Pending >= 1 /\ Affords(1) /\ nodes' = nodes + 1 /\ Pending \in Nat
    BY <1>3, InExpression DEF Unary
  <2>2. nodes' + Count(walk, {"and_lhs", "or_lhs"}) <= MaxNodes
    BY <2>1, LeafAffords
  <2>3. CASE Apply(1, BinOp("BIN_SUB", next_temp, IMM(0), Last(val_stack)))
    BY <2>1, <2>2, <2>3, OperatorsCompute, EvaluateApply
  <2>4. CASE Apply(1, CmpOp(next_temp, IMM(0), Last(val_stack)))
    BY <2>1, <2>2, <2>4, OperatorsCompute, EvaluateApply
  <2> QED
    BY <1>3, <2>3, <2>4 DEF Unary
<1>4. CASE Binary
  <2>1. InExpr /\ Pending >= 2 /\ nodes' = nodes /\ Pending \in Nat
    BY <1>4, InExpression DEF Binary
  <2>2. nodes' + Count(walk, {"and_lhs", "or_lhs"}) <= MaxNodes
    BY <2>1, LeafAffords
  <2>3. ASSUME NEW op \in {"BIN_ADD", "BIN_MUL"},
               Apply(2, BinOp(op, next_temp, val_stack[Height - 1], val_stack[Height]))
        PROVE  \E n, v, insts : Eval(n, v, insts)
    BY <2>1, <2>2, <2>3, OperatorsCompute, EvaluateApply
  <2>4. CASE Apply(2, CmpOp(next_temp, val_stack[Height - 1], val_stack[Height]))
    BY <2>1, <2>2, <2>4, OperatorsCompute, EvaluateApply
  <2> QED
    BY <1>4, <2>3, <2>4 DEF Binary
<1>5. ASSUME NEW k \in Arities, FnCall(k)
      PROVE  \E n, v, insts : Eval(n, v, insts)
  <2>1. /\ InExpr /\ Pending >= k /\ nodes' = nodes + 1 /\ k \in Nat /\ Pending \in Nat
        /\ LeafFits \/ Affords(1)
        /\ Apply(k, Call(next_temp, Popped(k)))
    BY <1>5, InExpression, Bounds DEF FnCall
  <2>2. nodes' + Count(walk, {"and_lhs", "or_lhs"}) <= MaxNodes
    BY <2>1, LeafAffords
  <2> QED
    BY <2>1, <2>2, OperatorsCompute, EvaluateApply
<1> QED
  BY <1>1, <1>2, <1>3, <1>4, <1>5 DEF Evaluate
-----------------------------------------------------------------------------
\* What the invariant says of the walk, the height of the stack and the bounds.
Shape(w, h, u, count, slots, n) ==
  /\ WalkOK(w, u, slots, n)
  /\ HeightOK(w, h, u)
  /\ count \in Nat /\ count + Owes(w, h) <= MaxNodes
  /\ u \in Nat /\ u + Count(w, {"call_stmt"}) <= count

LEMMA ShapeIs ==
  ASSUME IInv
  PROVE  /\ Shape(walk, Height, unclaimed, nodes, next_slot, Len(blocks))
         /\ nodes \in Nat /\ MaxNodes \in Nat /\ nodes <= MaxNodes
         /\ unclaimed \in Nat /\ unclaimed <= nodes
         /\ next_temp \in Nat /\ next_slot \in Nat /\ Height \in Nat
         /\ Len(blocks) \in Nat /\ curr \in 1..Len(blocks)
         /\ BlocksOK(blocks, next_temp, next_slot)
         /\ walk # <<>> => /\ walk \in Seq(Frames)
                           /\ Count(walk, {"call_stmt"}) \in Nat
                           /\ unclaimed + Count(walk, {"call_stmt"}) <= nodes
<1>1. /\ Shape(walk, Height, unclaimed, nodes, next_slot, Len(blocks))
      /\ nodes \in Nat /\ MaxNodes \in Nat /\ unclaimed \in Nat
      /\ next_temp \in Nat /\ next_slot \in Nat /\ Height \in Nat
      /\ curr \in 1..Len(blocks)
      /\ BlocksOK(blocks, next_temp, next_slot)
      /\ walk \in Seq(Frames)
      /\ unclaimed + Count(walk, {"call_stmt"}) <= nodes
      /\ nodes + Owes(walk, Height) <= MaxNodes
  BY Bounds DEF IInv, Shape, WalkOK, Height
<1>2. Len(blocks) \in Nat
  BY <1>1 DEF BlocksOK
<1>3. \A S : Count(walk, S) \in Nat
  <2>1. CASE walk = <<>>
    <3>1. DOMAIN walk = {}
      BY <2>1
    <3> QED
      BY <3>1, CountNone
  <2>2. CASE walk # <<>>
    BY <1>1, <2>2, CountPop
  <2> QED
    BY <2>1, <2>2
<1>4. Owes(walk, Height) \in Nat
  BY <1>3 DEF Owes
<1>5. unclaimed <= nodes /\ nodes <= MaxNodes
  BY <1>1, <1>3, <1>4
<1> QED
  BY <1>1, <1>2, <1>3, <1>5

\* When a statement may come next, or none any more, nothing else is owed.
LEMMA ShapeStatement ==
  ASSUME NEW w, NEW u \in Nat, NEW slots, NEW n, NEW u2, WalkOK(w, u2, slots, n),
         w # <<>> => Last(w).at \in StmtFrames,
         NEW count \in Nat, u <= count, count <= MaxNodes
  PROVE  Shape(w, u, u, count, slots, n)
<1>1. /\ WalkOK(w, u, slots, n)
      /\ \A k \in 1..Len(w) : w[k].at \in StmtFrames
  BY WalkUnclaimed
<1>2. DOMAIN w = 1..Len(w)
  BY <1>1 DEF WalkOK
<1>3. Count(w, {"and_lhs", "or_lhs"}) = 0 /\ Count(w, {"call_stmt"}) = 0
  <2>1. \A k \in DOMAIN w : w[k].at \notin {"and_lhs", "or_lhs"} /\ w[k].at \notin {"call_stmt"}
    BY <1>1, <1>2 DEF StmtFrames
  <2> QED
    BY <2>1, CountNone
<1>4. HeightOK(w, u, u)
  BY DEF HeightOK
<1>5. Owes(w, u) = 0
  BY <1>3 DEF Owes
<1>6. count + 0 <= MaxNodes /\ u + 0 <= count
  OBVIOUS
<1> QED
  BY <1>1, <1>3, <1>4, <1>5, <1>6 DEF Shape

\* A statement begins: it waits for its expressions.
LEMMA ShapeHead ==
  ASSUME NEW w, NEW u \in Nat, NEW slots, NEW n, WalkOK(w, u, slots, n),
         w # <<>>, Last(w).at \in StmtFrames,
         NEW f \in Frames, FrameOK(f, u, slots, n), f.at \in HeadFrames,
         NEW count \in Nat, u + 1 <= count, count + Needs(f) <= MaxNodes
  PROVE  Shape(Append(w, f), u, u, count, slots, n)
<1> DEFINE v == Append(w, f)
<1>1. /\ WalkOK(v, u, slots, n)
      /\ \A k \in 1..Len(w) : w[k].at \in StmtFrames
  <2>1. PairOK(Last(w), f)
    BY DEF PairOK, HeadFrames, LogFrames
  <2> QED
    BY <2>1, WalkPush, WalkUnclaimed
<1>2. w \in Seq(Frames) /\ v # <<>> /\ Last(v) = f
  BY DEF WalkOK, Last
<1>3. Count(v, {"and_lhs", "or_lhs"}) = 0 /\ Count(v, {"call_stmt"}) <= 1
      /\ Count(v, {"call_stmt"}) \in Nat
  <2>1. DOMAIN w = 1..Len(w)
    BY <1>2
  <2>2. \A k \in DOMAIN w : w[k].at \notin {"and_lhs", "or_lhs"} /\ w[k].at \notin {"call_stmt"}
    BY <1>1, <2>1 DEF StmtFrames
  <2>3. Count(w, {"and_lhs", "or_lhs"}) = 0 /\ Count(w, {"call_stmt"}) = 0
    BY <2>2, CountNone
  <2>4. f.at \notin {"and_lhs", "or_lhs"}
    BY DEF HeadFrames
  <2>5. /\ Count(v, {"and_lhs", "or_lhs"})
             = Count(w, {"and_lhs", "or_lhs"}) + IF f.at \in {"and_lhs", "or_lhs"} THEN 1 ELSE 0
        /\ Count(v, {"call_stmt"})
             = Count(w, {"call_stmt"}) + IF f.at \in {"call_stmt"} THEN 1 ELSE 0
    BY <1>2, CountPush
  <2> HIDE DEF v
  <2> QED
    BY <2>3, <2>4, <2>5
<1>4. f.at \notin StmtFrames /\ f.base = u /\ Needs(f) \in 0..1
  BY DEF FrameOK, HeadFrames, StmtFrames, Needs
<1> HIDE DEF v
<1>5. HeightOK(v, u, u)
  BY <1>2, <1>4 DEF HeightOK
<1>6. Owes(v, u) <= Needs(f) /\ Owes(v, u) \in Nat
  BY <1>2, <1>3, <1>4 DEF Owes
<1>7. count + Owes(v, u) <= MaxNodes /\ u + Count(v, {"call_stmt"}) <= count
  <2>1. MaxNodes \in Nat
    BY Bounds
  <2> QED
    BY <1>3, <1>4, <1>6, <2>1
<1>8. Shape(v, u, u, count, slots, n)
  BY <1>1, <1>5, <1>7 DEF Shape
<1> QED
  BY <1>8 DEF v

\* Inside an expression only the operators on the walk owe something more.
LEMMA ShapeExpression ==
  ASSUME NEW w, NEW u \in Nat, NEW slots, NEW n, WalkOK(w, u, slots, n),
         w # <<>>, Last(w).at \notin StmtFrames,
         NEW h \in Nat, h >= Last(w).base,
         NEW count \in Nat,
         count + Count(w, {"and_lhs", "or_lhs"})
               + (IF h = Last(w).base THEN 1 ELSE 0) <= MaxNodes,
         u + Count(w, {"call_stmt"}) <= count
  PROVE  Shape(w, h, u, count, slots, n)
<1>1. Last(w) \in Frames /\ FrameOK(Last(w), u, slots, n) /\ w \in Seq(Frames)
  BY WalkPop
<1>2. Last(w).base \in Nat /\ Needs(Last(w)) \in 0..1
  BY <1>1 DEF Frames, FrameOK, Needs
<1>3. Count(w, {"and_lhs", "or_lhs"}) \in Nat
  BY <1>1, CountPop
<1>4. HeightOK(w, h, u)
  BY DEF HeightOK
<1>5. count + Owes(w, h) <= MaxNodes
  <2>1. Owes(w, h) \in Nat
        /\ Owes(w, h) <= Count(w, {"and_lhs", "or_lhs"})
                           + (IF h = Last(w).base THEN 1 ELSE 0)
    BY <1>2, <1>3 DEF Owes
  <2>2. MaxNodes \in Nat
    BY Bounds
  <2> QED
    BY <1>3, <2>1, <2>2
<1> QED
  BY <1>4, <1>5 DEF Shape

\* The pieces of the invariant after a step.
LEMMA Together ==
  ASSUME BlocksOK(blocks', next_temp', next_slot'), curr' \in 1..Len(blocks'),
         val_stack' \in Seq(Values), next_temp' \in Nat, next_slot' \in Nat,
         NEW h, Len(val_stack') = h,
         Shape(walk', h, unclaimed', nodes', next_slot', Len(blocks')),
         assigned' \subseteq 0..next_slot' - 1,
         funcs' \in 1..MaxFunctions, foreign' \in BOOLEAN
  PROVE  IInv'
BY DEF IInv, Shape, Height
-----------------------------------------------------------------------------
\* The instructions the actions emit.
LEMMA InstsAre ==
  ASSUME NEW s \in Nat, NEW v \in Values, NEW t \in Nat
  PROVE  /\ Store(s, v) \in InstRecs
         /\ Store(s, v).dst = NoTemp /\ Store(s, v).slot = s
         /\ Store(s, v).args = <<v>> /\ Store(s, v).type = "IR_STORE"
         /\ Load(t, s) \in InstRecs
         /\ Load(t, s).dst = t /\ Load(t, s).slot = s
         /\ Load(t, s).args = <<>> /\ Load(t, s).type = "IR_LOAD"
         /\ CmpOp(t, v, IMM(0)) \in InstRecs
         /\ CmpOp(t, v, IMM(0)).dst = t /\ CmpOp(t, v, IMM(0)).slot = NoSlot
         /\ CmpOp(t, v, IMM(0)).args = <<v, IMM(0)>>
         /\ CmpOp(t, v, IMM(0)).type = "IR_CMPOP"
         /\ ArgInst(t) \in InstRecs
         /\ ArgInst(t).dst = t /\ ArgInst(t).slot = NoSlot
         /\ ArgInst(t).args = <<>> /\ ArgInst(t).type = "IR_ARG"
<1>1. IMM(0) \in Values
  BY ValuesAre
<1>2. <<v>> \in Seq(Values) /\ <<>> \in Seq(Values) /\ <<v, IMM(0)>> \in Seq(Values)
  BY <1>1
<1> QED
  BY <1>2 DEF Store, Load, CmpOp, ArgInst, Inst, InstRecs, InstTypes

\* Each parameter is fetched into the temp, and stored in the slot, of its
\* number.
LEMMA ParamsAre ==
  ASSUME NEW n \in Nat
  PROVE  /\ Params(n) \in Seq(InstRecs) /\ Len(Params(n)) = 2 * n
         /\ \A i \in 1..2 * n :
              \/ \E p \in 0..n - 1 : i = 2 * p + 1 /\ Params(n)[i] = ArgInst(p)
              \/ \E p \in 0..n - 1 : i = 2 * p + 2 /\ Params(n)[i] = Store(p, TEMP(p))
<1>1. ASSUME NEW i \in 1..2 * n
      PROVE  /\ i % 2 = 1 => i \div 2 \in 0..n - 1 /\ i = 2 * (i \div 2) + 1
             /\ i % 2 # 1 => i \div 2 - 1 \in 0..n - 1 /\ i = 2 * (i \div 2 - 1) + 2
  OBVIOUS
<1>2. ASSUME NEW i \in 1..2 * n
      PROVE  \/ \E p \in 0..n - 1 : i = 2 * p + 1 /\ Params(n)[i] = ArgInst(p)
             \/ \E p \in 0..n - 1 : i = 2 * p + 2 /\ Params(n)[i] = Store(p, TEMP(p))
  <2>1. Params(n)[i] = IF i % 2 = 1 THEN ArgInst(i \div 2)
                       ELSE Store(i \div 2 - 1, TEMP(i \div 2 - 1))
    BY DEF Params
  <2>2. CASE i % 2 = 1
    <3>1. i \div 2 \in 0..n - 1 /\ i = 2 * (i \div 2) + 1 /\ Params(n)[i] = ArgInst(i \div 2)
      BY <1>1, <2>1, <2>2
    <3> QED
      BY <3>1
  <2>3. CASE i % 2 # 1
    <3>1. /\ i \div 2 - 1 \in 0..n - 1 /\ i = 2 * (i \div 2 - 1) + 2
          /\ Params(n)[i] = Store(i \div 2 - 1, TEMP(i \div 2 - 1))
      BY <1>1, <2>1, <2>3
    <3> QED
      BY <3>1
  <2> QED
    BY <2>2, <2>3
<1>3. ASSUME NEW i \in 1..2 * n PROVE Params(n)[i] \in InstRecs
  <2>1. \A p \in 0..n - 1 : ArgInst(p) \in InstRecs /\ Store(p, TEMP(p)) \in InstRecs
    BY InstsAre, ValuesAre
  <2> QED
    BY <1>2, <2>1
<1>4. Params(n) = [i \in 1..2 * n |-> Params(n)[i]] /\ 2 * n \in Nat
  BY DEF Params
<1>5. Params(n) \in Seq(InstRecs) /\ Len(Params(n)) = 2 * n
  BY <1>3, <1>4
<1> QED
  BY <1>2, <1>5

\* The blocks a function begins with.
Entry == <<[NewBlock EXCEPT !.insts = Params(NumParams)]>>

LEMMA EntryIs ==
  /\ BlocksOK(Entry, NumParams, NumParams)
  /\ Entry \in Seq(BlockRecs) /\ Len(Entry) = 1
  /\ Entry[1].term = Undefined /\ Entry[1].insts = Params(NumParams)
<1> DEFINE r == [NewBlock EXCEPT !.insts = Params(NumParams)]
<1>1. /\ NumParams \in Nat /\ Params(NumParams) \in Seq(InstRecs)
      /\ Len(Params(NumParams)) = 2 * NumParams
  BY Bounds, ParamsAre
<1>2. r \in BlockRecs /\ r.insts = Params(NumParams) /\ r.term = Undefined
  BY <1>1, NewBlockIs DEF BlockRecs
<1>3. Entry = <<r>>
  BY DEF Entry
<1> HIDE DEF r
<1>4. Entry \in Seq(BlockRecs) /\ Len(Entry) = 1 /\ Entry[1] = r
  BY <1>2, <1>3
<1>5. ASSUME NEW i \in 1..2 * NumParams
      PROVE  InstOK(Params(NumParams)[i], NumParams, NumParams)
  <2>1. ASSUME NEW p \in 0..NumParams - 1
        PROVE  /\ ArgInst(p).dst = p /\ ArgInst(p).slot = NoSlot
               /\ Store(p, TEMP(p)).dst = NoTemp /\ Store(p, TEMP(p)).slot = p
    BY InstsAre, ValuesAre
  <2>2. ASSUME NEW p \in 0..NumParams - 1
        PROVE  /\ InstOK(ArgInst(p), NumParams, NumParams)
               /\ InstOK(Store(p, TEMP(p)), NumParams, NumParams)
    BY <1>1, <2>1 DEF InstOK
  <2> QED
    BY <1>1, <2>2, ParamsAre
<1>6. BlocksOK(Entry, NumParams, NumParams)
  <2>1. ASSUME NEW b \in 1..Len(Entry)
        PROVE  /\ \A i \in 1..Len(Entry[b].insts) :
                    InstOK(Entry[b].insts[i], NumParams, NumParams)
               /\ \A k \in 1..Len(Entry[b].term.to) : Entry[b].term.to[k] \in 1..Len(Entry)
    <3>1. b = 1
      BY <1>4
    <3>2. Entry[b].insts = Params(NumParams) /\ Entry[b].term = Undefined
      BY <1>2, <1>4, <3>1
    <3>3. Len(Undefined.to) = 0
      BY NewBlockIs
    <3> QED
      BY <1>1, <1>5, <3>2, <3>3
  <2> QED
    BY <1>4, <2>1 DEF BlocksOK
<1> QED
  BY <1>2, <1>4, <1>6

LEMMA BlocksGrow ==
  ASSUME NEW temps \in Nat, NEW slots \in Nat, NEW bs, BlocksOK(bs, temps, slots),
         NEW t \in Nat, t >= temps, NEW s \in Nat, s >= slots
  PROVE  BlocksOK(bs, t, s)
<1>1. \A inst : InstOK(inst, temps, slots) => InstOK(inst, t, s)
  BY DEF InstOK
<1> QED
  BY <1>1 DEF BlocksOK

\* The frame of a function that has just begun.
FirstFrame(h) == Frame("fn_block", h, NoSlot, <<>>, 0..NumParams - 1)

LEMMA FirstWalk ==
  ASSUME NEW h \in Nat, NEW u, NEW n
  PROVE  /\ WalkOK(<<FirstFrame(h)>>, u, NumParams, n)
         /\ Last(<<FirstFrame(h)>>) = FirstFrame(h)
         /\ FirstFrame(h).at = "fn_block" /\ FirstFrame(h).base = h
         /\ FirstFrame(h).to = <<>>
<1> DEFINE f == FirstFrame(h)
<1>1. NumParams \in Nat /\ 0..NumParams - 1 \subseteq Nat
  BY Bounds
<1>2. /\ f \in Frames /\ f.at = "fn_block" /\ f.base = h /\ f.to = <<>>
      /\ f.scope = 0..NumParams - 1
  BY <1>1 DEF FirstFrame, Frame, Frames, Ats, StmtFrames
<1> HIDE DEF f
<1>3. FrameOK(f, u, NumParams, n)
  BY <1>2 DEF FrameOK, LogFrames, HeadFrames, Targets
<1>4. /\ <<f>> \in Seq(Frames) /\ Len(<<f>>) = 1 /\ <<f>>[1] = f
  BY <1>2
<1>5. WalkOK(<<f>>, u, NumParams, n) /\ Last(<<f>>) = f
  BY <1>2, <1>3, <1>4 DEF WalkOK, Last
<1> QED
  BY <1>2, <1>5 DEF f

LEMMA InitIInv == Init => IInv
<1> SUFFICES ASSUME Init PROVE IInv
  OBVIOUS
<1>1. /\ blocks = Entry /\ curr = 1 /\ val_stack = <<>> /\ next_temp = NumParams
      /\ next_slot = NumParams /\ walk = <<FirstFrame(0)>> /\ assigned = 0..NumParams - 1
      /\ nodes = 0 /\ funcs = 1 /\ unclaimed = 0 /\ foreign = FALSE
  BY DEF Init, Entry, FirstFrame
<1>2. /\ WalkOK(walk, 0, NumParams, Len(blocks)) /\ Last(walk).at = "fn_block"
  BY <1>1, FirstWalk
<1>3. Shape(walk, 0, 0, 0, NumParams, Len(blocks))
  BY <1>2, ShapeStatement, Bounds DEF StmtFrames
<1>4. val_stack \in Seq(Values) /\ Height = 0
  BY <1>1 DEF Height
<1>5. Shape(walk, Height, unclaimed, nodes, next_slot, Len(blocks))
  BY <1>1, <1>3, <1>4
<1>6. /\ BlocksOK(blocks, next_temp, next_slot) /\ curr \in 1..Len(blocks)
      /\ next_temp \in Nat /\ next_slot \in Nat /\ funcs \in 1..MaxFunctions
      /\ foreign \in BOOLEAN
  <2>1. BlocksOK(blocks, next_temp, next_slot) /\ Len(blocks) = 1
    BY <1>1, EntryIs
  <2>2. curr \in 1..1
    BY <1>1
  <2>5. foreign \in BOOLEAN
    BY <1>1, Zenon
  <2>4. next_temp \in Nat /\ next_slot \in Nat
    BY <1>1, Bounds
  <2>3. funcs \in 1..MaxFunctions
    BY <1>1, Bounds
  <2> QED
    BY <2>1, <2>2, <2>3, <2>4, <2>5
<1>7. assigned \subseteq 0..next_slot - 1
  BY <1>1
<1> QED
  BY <1>4, <1>5, <1>6, <1>7 DEF IInv, Shape

LEMMA BeginFunctionIInv ==
  ASSUME IInv, BeginFunction
  PROVE  IInv'
<1>1. /\ blocks' = Entry /\ curr' = 1 /\ val_stack' = val_stack /\ next_temp' = NumParams
      /\ next_slot' = NumParams /\ walk' = <<FirstFrame(Height)>>
      /\ assigned' = 0..NumParams - 1 /\ nodes' = nodes /\ funcs' = funcs + 1
      /\ unclaimed' = unclaimed /\ foreign' = FALSE /\ walk = <<>> /\ funcs < MaxFunctions
  BY DEF BeginFunction, Entry, FirstFrame, Running
<1>2. /\ Height = unclaimed /\ Height \in Nat /\ nodes \in Nat /\ nodes <= MaxNodes
      /\ unclaimed <= nodes /\ val_stack \in Seq(Values) /\ funcs \in 1..MaxFunctions
  BY <1>1, ShapeIs DEF IInv, HeightOK
<1>3. /\ WalkOK(walk', unclaimed, NumParams, Len(blocks')) /\ Last(walk').at = "fn_block"
  BY <1>1, <1>2, FirstWalk
<1>4. Shape(walk', Height, unclaimed', nodes', next_slot', Len(blocks'))
  <2>1. Shape(walk', unclaimed, unclaimed, nodes, NumParams, Len(blocks'))
    BY <1>2, <1>3, ShapeStatement DEF StmtFrames
  <2> QED
    BY <1>1, <1>2, <2>1
<1>5. funcs' \in 1..MaxFunctions
  BY <1>1, <1>2, Bounds
<1>6. Len(val_stack') = Height
  BY <1>1 DEF Height
<1>7. /\ BlocksOK(blocks', next_temp', next_slot') /\ curr' \in 1..Len(blocks')
      /\ next_temp' \in Nat /\ next_slot' \in Nat
  BY <1>1, EntryIs, Bounds
<1> QED
  BY <1>1, <1>2, <1>4, <1>5, <1>6, <1>7, Together
-----------------------------------------------------------------------------
\* What a node of an expression leaves on the stack.
LEMMA EvalStack ==
  ASSUME IInv, NEW n, NEW v, NEW insts, Eval(n, v, insts)
  PROVE  /\ n \in Nat /\ n <= Height /\ v \in Values
         /\ insts \in Seq(InstRecs)
         /\ val_stack' \in Seq(Values) /\ Len(val_stack') = Height - n + 1
         /\ val_stack'[Height - n + 1] = v
         /\ \A k \in 1..Height - n : val_stack'[k] = val_stack[k]
         /\ next_temp' \in Nat /\ next_temp' >= next_temp
         /\ \A i \in 1..Len(insts) : InstOK(insts[i], next_temp', next_slot)
<1>1. /\ n \in Nat /\ n <= Pending /\ Pending \in Nat /\ Height \in Nat
      /\ Top.base \in Nat /\ next_temp \in Nat
  BY InExpression DEF Eval, IInv
<1>2. n <= Height
  BY <1>1 DEF Pending
<1>3. v \in Values
  <2>1. CASE v \in Imms
    BY <2>1, ValuesAre
  <2>2. CASE v = TEMP(next_temp)
    BY <1>1, <2>2, ValuesAre
  <2> QED
    BY <2>1, <2>2, Zenon DEF Eval
<1>4. insts \in Seq(InstRecs)
  <2>1. <<>> \in Seq(InstRecs)
    OBVIOUS
  <2> QED
    BY <2>1, Zenon DEF Eval
<1>5. /\ next_temp' \in Nat /\ next_temp' >= next_temp
      /\ \A i \in 1..Len(insts) : InstOK(insts[i], next_temp', next_slot)
  <2>1. CASE insts = <<>> /\ next_temp' = next_temp
    BY <1>1, <2>1
  <2>2. CASE /\ Len(insts) = 1 /\ Computes(insts[1], n) /\ next_temp' = next_temp + 1
    BY <1>1, <2>2 DEF Computes
  <2> QED
    BY <2>1, <2>2 DEF Eval
<1> DEFINE s == SubSeq(val_stack, 1, Height - n)
<1>6. s \in Seq(Values) /\ Len(s) = Height - n /\ \A k \in 1..Height - n : s[k] = val_stack[k]
  BY <1>1, <1>2, StackIs
<1>7. val_stack' = Append(s, v)
  BY DEF Eval
<1> HIDE DEF s
<1>8. /\ val_stack' \in Seq(Values) /\ Len(val_stack') = Len(s) + 1
      /\ val_stack'[Len(s) + 1] = v /\ \A k \in 1..Len(s) : val_stack'[k] = s[k]
  BY <1>3, <1>6, <1>7, AppendIs
<1> QED
  BY <1>1, <1>2, <1>3, <1>4, <1>5, <1>6, <1>8

LEMMA EvalIInv ==
  ASSUME IInv, NEW n, NEW v, NEW insts, Eval(n, v, insts)
  PROVE  IInv'
<1>1. /\ n \in Nat /\ n <= Height /\ v \in Values /\ insts \in Seq(InstRecs)
      /\ val_stack' \in Seq(Values) /\ Len(val_stack') = Height - n + 1
      /\ next_temp' \in Nat /\ next_temp' >= next_temp
      /\ \A i \in 1..Len(insts) : InstOK(insts[i], next_temp', next_slot)
  BY EvalStack
<1>2. /\ InExpr /\ n <= Pending /\ blocks' = Emit(blocks, curr, insts)
      /\ nodes' \in {nodes, nodes + 1}
      /\ nodes' + Count(walk, {"and_lhs", "or_lhs"}) <= MaxNodes
      /\ curr' = curr /\ next_slot' = next_slot /\ walk' = walk /\ assigned' = assigned
      /\ unclaimed' = unclaimed /\ funcs' = funcs /\ foreign' = foreign
  BY Zenon DEF Eval, program
<1>3. /\ walk # <<>> /\ Top.base \in Nat /\ Height \in Nat /\ Pending \in Nat
      /\ Top = Last(walk) /\ Top.at \notin StmtFrames
  BY <1>2, InExpression DEF Top
<1>4. /\ nodes \in Nat /\ MaxNodes \in Nat /\ unclaimed \in Nat
      /\ next_slot \in Nat /\ next_temp \in Nat /\ curr \in 1..Len(blocks)
      /\ BlocksOK(blocks, next_temp, next_slot)
      /\ Count(walk, {"call_stmt"}) \in Nat
      /\ unclaimed + Count(walk, {"call_stmt"}) <= nodes
      /\ WalkOK(walk, unclaimed, next_slot, Len(blocks))
  BY <1>3, ShapeIs DEF Shape
<1> DEFINE h == Height - n + 1
<1>5. h \in Nat /\ h >= Top.base /\ h # Top.base
  BY <1>1, <1>2, <1>3 DEF Pending
<1> HIDE DEF h
<1>6. nodes' \in Nat /\ unclaimed + Count(walk, {"call_stmt"}) <= nodes'
  BY <1>2, <1>4
<1>7. Shape(walk, h, unclaimed, nodes', next_slot, Len(blocks))
  <2>1. Count(walk, {"and_lhs", "or_lhs"}) \in Nat
    BY <1>2, InExpression
  <2>2. nodes' + Count(walk, {"and_lhs", "or_lhs"})
               + (IF h = Last(walk).base THEN 1 ELSE 0) <= MaxNodes
    BY <1>2, <1>3, <1>4, <1>5, <1>6, <2>1
  <2>3. h >= Last(walk).base /\ Last(walk).at \notin StmtFrames
    BY <1>3, <1>5
  <2> QED
    BY <1>3, <1>4, <1>5, <1>6, <2>2, <2>3, ShapeExpression
<1>8. /\ BlocksOK(blocks', next_temp', next_slot) /\ Len(blocks') = Len(blocks)
  <2>1. BlocksOK(blocks', next_temp', next_slot)
    BY <1>1, <1>2, <1>4, BlocksEmit
  <2>2. Len(blocks') = Len(blocks)
    BY <1>1, <1>2, <1>4, EmitIs DEF BlocksOK
  <2> QED
    BY <2>1, <2>2
<1>9. /\ BlocksOK(blocks', next_temp', next_slot') /\ curr' \in 1..Len(blocks')
      /\ next_slot' \in Nat /\ Len(val_stack') = h
      /\ Shape(walk', h, unclaimed', nodes', next_slot', Len(blocks'))
  BY <1>1, <1>2, <1>4, <1>7, <1>8 DEF h
<1>10. assigned' \subseteq 0..next_slot' - 1 /\ funcs' \in 1..MaxFunctions
  BY <1>2 DEF IInv
<1>11. foreign' \in BOOLEAN
  BY <1>2, Zenon DEF IInv
<1> QED
  BY <1>1, <1>9, <1>10, <1>11, Together

LEMMA BeginLogOpIInv ==
  ASSUME IInv, NEW at \in {"and_lhs", "or_lhs"}, BeginLogOp(at)
  PROVE  IInv'
<1> DEFINE f == Frame(at, Height, next_slot, <<>>, Top.scope)
<1>1. /\ InExpr /\ Operands > 0 /\ Affords(IF Pending = 0 THEN 1 ELSE 2)
      /\ walk' = Append(walk, f) /\ next_slot' = next_slot + 1 /\ blocks' = blocks
      /\ curr' = curr /\ val_stack' = val_stack /\ next_temp' = next_temp
      /\ assigned' = assigned /\ nodes' = nodes
      /\ unclaimed' = unclaimed /\ funcs' = funcs /\ foreign' = foreign
  BY Zenon DEF BeginLogOp, program, Push
<1>2. /\ walk # <<>> /\ walk \in Seq(Frames) /\ Top \in Frames /\ Top.at \notin StmtFrames
      /\ FrameOK(Top, unclaimed, next_slot, Len(blocks))
      /\ Top.base \in Nat /\ Height \in Nat /\ Height >= Top.base /\ Pending \in Nat
      /\ Operands \in 0..1 /\ Top.base >= unclaimed /\ Top = Last(walk)
      /\ Count(walk, {"and_lhs", "or_lhs"}) \in Nat
  BY <1>1, InExpression DEF Top
<1>3. /\ nodes \in Nat /\ MaxNodes \in Nat /\ unclaimed \in Nat
      /\ next_slot \in Nat /\ next_temp \in Nat /\ curr \in 1..Len(blocks)
      /\ BlocksOK(blocks, next_temp, next_slot) /\ Len(blocks) \in Nat
      /\ Count(walk, {"call_stmt"}) \in Nat
      /\ unclaimed + Count(walk, {"call_stmt"}) <= nodes
      /\ WalkOK(walk, unclaimed, next_slot, Len(blocks))
  BY <1>2, ShapeIs DEF Shape
<1>4. /\ f \in Frames /\ f.at = at /\ f.base = Height /\ f.slot = next_slot /\ f.to = <<>>
      /\ f.scope = Top.scope /\ f.at \in LogFrames /\ f.at \notin StmtFrames
  <2>1. Top.scope \subseteq Nat /\ <<>> \in Seq(Nat)
    BY <1>2 DEF Frames
  <2>2. at \in Ats /\ at \in LogFrames /\ at \notin StmtFrames
    BY DEF Ats, LogFrames, StmtFrames
  <2>3. Height \in Nat /\ next_slot \in {NoSlot} \cup Nat /\ Top.scope \in SUBSET Nat
    BY <1>2, <1>3, <2>1
  <2>4. /\ f \in Frames /\ f.at = at /\ f.base = Height /\ f.slot = next_slot /\ f.to = <<>>
        /\ f.scope = Top.scope
    BY <2>1, <2>2, <2>3 DEF Frame, Frames
  <2> QED
    BY <2>2, <2>4
<1> HIDE DEF f
<1>5. WalkOK(walk, unclaimed, next_slot + 1, Len(blocks))
  BY <1>3, WalkGrow
<1>6. FrameOK(f, unclaimed, next_slot + 1, Len(blocks))
  <2>1. f.scope \subseteq 0..(next_slot + 1) - 1
    BY <1>2, <1>3, <1>4 DEF FrameOK
  <2>2. f.slot \in 0..(next_slot + 1) - 1 /\ f.base >= unclaimed
    BY <1>2, <1>3, <1>4
  <2>3. Len(f.to) = 0 /\ Len(f.to) \in Targets(f.at)
    BY <1>4 DEF Targets
  <2>4. f.at # "call_stmt" /\ f.at \notin HeadFrames
    BY <1>4 DEF LogFrames, HeadFrames
  <2> QED
    BY <2>1, <2>2, <2>3, <2>4 DEF FrameOK
<1>7. PairOK(Last(walk), f)
  BY <1>2, <1>4 DEF PairOK, LogFrames
<1>8. /\ WalkOK(walk', unclaimed, next_slot + 1, Len(blocks))
      /\ walk' # <<>> /\ Last(walk') = f
  <2>1. walk' # <<>> /\ Last(walk') = f
    BY <1>1, <1>2, <1>4 DEF Last
  <2> QED
    BY <1>1, <1>2, <1>4, <1>5, <1>6, <1>7, <2>1, WalkPush
<1>9. /\ Count(walk', {"and_lhs", "or_lhs"}) = Count(walk, {"and_lhs", "or_lhs"}) + 1
      /\ Count(walk', {"call_stmt"}) = Count(walk, {"call_stmt"})
  <2>1. /\ Count(walk', {"and_lhs", "or_lhs"})
             = Count(walk, {"and_lhs", "or_lhs"}) + IF f.at \in {"and_lhs", "or_lhs"} THEN 1 ELSE 0
        /\ Count(walk', {"call_stmt"})
             = Count(walk, {"call_stmt"}) + IF f.at \in {"call_stmt"} THEN 1 ELSE 0
    BY <1>1, <1>2, <1>4, CountPush
  <2> QED
    BY <1>2, <1>3, <1>4, <2>1
<1>10. nodes + (Count(walk, {"and_lhs", "or_lhs"}) + 1) + 1 <= MaxNodes
  <2>1. Owed = Count(walk, {"and_lhs", "or_lhs"}) + IF Pending < Operands THEN 1 ELSE 0
    <3>1. Owes(walk, Height) = Count(walk, {"and_lhs", "or_lhs"})
                                 + IF Height - Top.base < Operands THEN 1 ELSE 0
      <4>1. Height \in Int
        BY <1>2
      <4> QED
        BY <1>1, <4>1, InExpression, Zenon
    <3> QED
      BY <3>1, OwedIs DEF Pending
  <2> DEFINE c == Count(walk, {"and_lhs", "or_lhs"})
  <2>2. nodes + (IF Pending = 0 THEN 1 ELSE 2) + Owed <= MaxNodes
    BY <1>1 DEF Affords
  <2>3. Operands = 1 /\ c \in Nat /\ Pending \in Nat
    BY <1>1, <1>2
  <2>4. Owed = c + IF Pending = 0 THEN 1 ELSE 0
    BY <2>1, <2>3
  <2> HIDE DEF c
  <2>5. nodes + (c + 1) + 1 <= MaxNodes
    <3>1. CASE Pending = 0
      BY <1>3, <2>2, <2>3, <2>4, <3>1
    <3>2. CASE Pending # 0
      BY <1>3, <2>2, <2>3, <2>4, <3>2
    <3> QED
      BY <3>1, <3>2
  <2> QED
    BY <2>5 DEF c
<1>11. Shape(walk', Height, unclaimed, nodes, next_slot + 1, Len(blocks))
  <2>1. /\ Height >= Last(walk').base /\ Last(walk').at \notin StmtFrames
        /\ nodes + Count(walk', {"and_lhs", "or_lhs"})
               + (IF Height = Last(walk').base THEN 1 ELSE 0) <= MaxNodes
        /\ unclaimed + Count(walk', {"call_stmt"}) <= nodes
    BY <1>2, <1>3, <1>4, <1>8, <1>9, <1>10
  <2> QED
    BY <1>2, <1>3, <1>8, <2>1, ShapeExpression
<1>12. /\ BlocksOK(blocks', next_temp', next_slot') /\ next_slot' \in Nat
  BY <1>1, <1>3, BlocksGrow
<1>13. /\ assigned' \subseteq 0..next_slot' - 1 /\ funcs' \in 1..MaxFunctions
       /\ val_stack' \in Seq(Values) /\ Len(val_stack') = Height
  <2>1. /\ assigned \subseteq 0..next_slot - 1 /\ funcs \in 1..MaxFunctions
        /\ val_stack \in Seq(Values)
    BY DEF IInv
  <2>2. 0..next_slot - 1 \subseteq 0..(next_slot + 1) - 1
    BY <1>3
  <2> QED
    BY <1>1, <2>1, <2>2 DEF Height
<1>14. foreign' \in BOOLEAN
  BY <1>1, Zenon DEF IInv
<1>15. /\ Shape(walk', Height, unclaimed', nodes', next_slot', Len(blocks'))
       /\ curr' \in 1..Len(blocks') /\ next_temp' \in Nat
  BY <1>1, <1>3, <1>11
<1> QED
  BY <1>12, <1>13, <1>14, <1>15, Together

\* The expression on top has its value.
LEMMA OnValue ==
  ASSUME IInv, ExprDone
  PROVE  /\ InExpr /\ walk # <<>> /\ walk \in Seq(Frames) /\ Top \in Frames /\ Top = Last(walk)
         /\ Top.at \in HeadFrames \cup LogFrames /\ Top.scope \in SUBSET Nat
         /\ FrameOK(Top, unclaimed, next_slot, Len(blocks))
         /\ Top.base \in Nat /\ Height \in Nat \ {0} /\ Height = Top.base + 1
         /\ Last(val_stack) \in Values /\ Last(val_stack) = val_stack[Height]
         /\ Pop(val_stack, 1) \in Seq(Values) /\ Len(Pop(val_stack, 1)) = Height - 1
         /\ \A k \in 1..Height - 1 : Pop(val_stack, 1)[k] = val_stack[k]
         /\ Pop(walk, 1) = Butlast(walk)
         /\ Butlast(walk) \in Seq(Frames) /\ Butlast(walk) # <<>>
         /\ WalkOK(Butlast(walk), unclaimed, next_slot, Len(blocks))
         /\ PairOK(Last(Butlast(walk)), Top)
<1>1. InExpr /\ Pending = 1
  BY DEF ExprDone
<1>2. /\ walk # <<>> /\ walk \in Seq(Frames) /\ Top \in Frames /\ Top = Last(walk)
      /\ Top.at \notin StmtFrames
      /\ FrameOK(Top, unclaimed, next_slot, Len(blocks))
      /\ Top.base \in Nat /\ Height \in Nat
  BY <1>1, InExpression DEF Top
<1>3. Top.at \in HeadFrames \cup LogFrames /\ Top.scope \in SUBSET Nat
  BY <1>2 DEF Frames, Ats
<1>4. Height = Top.base + 1 /\ Height \in Nat \ {0}
  BY <1>1, <1>2 DEF Pending
<1>5. val_stack \in Seq(Values) /\ Height = Len(val_stack)
  BY DEF IInv, Height
<1>6. Last(val_stack) \in Values /\ Last(val_stack) = val_stack[Height]
  BY <1>4, <1>5 DEF Last
<1>7. /\ Pop(val_stack, 1) \in Seq(Values) /\ Len(Pop(val_stack, 1)) = Height - 1
      /\ \A k \in 1..Height - 1 : Pop(val_stack, 1)[k] = val_stack[k]
  <2>1. 1 \in Nat /\ 1 <= Height
    BY <1>4
  <2> QED
    BY <2>1, StackIs
<1>8. Pop(walk, 1) = Butlast(walk)
  BY <1>2, OwedIs
<1>9. WalkOK(walk, unclaimed, next_slot, Len(blocks)) /\ Top.at # "fn_block"
  BY <1>2 DEF IInv, StmtFrames
<1>10. /\ WalkOK(Butlast(walk), unclaimed, next_slot, Len(blocks))
       /\ Butlast(walk) # <<>> /\ PairOK(Last(Butlast(walk)), Top)
  BY <1>2, <1>9, WalkPop
<1>11. Butlast(walk) \in Seq(Frames)
  BY <1>10 DEF WalkOK
<1> QED
  BY <1>1, <1>2, <1>3, <1>4, <1>6, <1>7, <1>8, <1>10, <1>11

LEMMA LastPushed ==
  ASSUME NEW w \in Seq(Frames), NEW f \in Frames
  PROVE  /\ Append(w, f) \in Seq(Frames) /\ Append(w, f) # <<>>
         /\ Last(Append(w, f)) = f
BY AppendIs DEF Last

\* The frame on top is replaced.
LEMMA CountSwap ==
  ASSUME NEW w \in Seq(Frames), w # <<>>, NEW f \in Frames, NEW S
  PROVE  /\ Count(w, S) \in Nat /\ Count(Append(Butlast(w), f), S) \in Nat
         /\ Count(Append(Butlast(w), f), S) + (IF Last(w).at \in S THEN 1 ELSE 0)
              = Count(w, S) + (IF f.at \in S THEN 1 ELSE 0)
<1>1. Butlast(w) \in Seq(Frames)
  BY ButlastIs
<1>2. /\ Count(w, S) \in Nat /\ Count(Butlast(w), S) \in Nat
      /\ Count(w, S) = Count(Butlast(w), S) + IF Last(w).at \in S THEN 1 ELSE 0
  BY CountPop
<1>3. Count(Append(Butlast(w), f), S) = Count(Butlast(w), S) + IF f.at \in S THEN 1 ELSE 0
  BY <1>1, CountPush
<1> QED
  BY <1>2, <1>3

LEMMA FinishLhsIInv ==
  ASSUME IInv, FinishLhs
  PROVE  IInv'
<1> DEFINE n == Len(blocks)
           bs == blocks \o <<NewBlock, NewBlock>>
           f == Frame("rhs", Top.base, Top.slot, <<n + 2>>, Top.scope)
           c == IMM(IF Top.at = "and_lhs" THEN 0 ELSE 1)
           t == IF Top.at = "and_lhs" THEN BranchIfZero(Last(val_stack), n + 1, n + 2)
                ELSE BranchIfZero(Last(val_stack), n + 2, n + 1)
           i == <<Store(Top.slot, c)>>
           s == Emit(bs, curr, i)
<1>1. /\ ExprDone /\ Top.at \in {"and_lhs", "or_lhs"}
      /\ blocks' = Terminate(s, curr, t)
      /\ val_stack' = Pop(val_stack, 1) /\ curr' = n + 1
      /\ walk' = Append(Butlast(walk), f)
      /\ next_temp' = next_temp /\ next_slot' = next_slot
      /\ assigned' = assigned /\ nodes' = nodes
      /\ unclaimed' = unclaimed /\ funcs' = funcs /\ foreign' = foreign
  <2>1. ExprDone
    BY DEF FinishLhs
  <2>2. Pop(walk, 1) = Butlast(walk)
    BY <2>1, OnValue
  <2> QED
    BY <2>1, <2>2 DEF FinishLhs, program, Push
<1>2. /\ InExpr /\ walk # <<>> /\ walk \in Seq(Frames) /\ Top \in Frames /\ Top = Last(walk)
      /\ Top.scope \in SUBSET Nat
      /\ FrameOK(Top, unclaimed, next_slot, n)
      /\ Top.base \in Nat /\ Height \in Nat \ {0} /\ Height = Top.base + 1
      /\ Last(val_stack) \in Values
      /\ Pop(val_stack, 1) \in Seq(Values) /\ Len(Pop(val_stack, 1)) = Height - 1
      /\ Butlast(walk) \in Seq(Frames) /\ Butlast(walk) # <<>>
      /\ WalkOK(Butlast(walk), unclaimed, next_slot, n)
      /\ PairOK(Last(Butlast(walk)), Top)
  BY <1>1, OnValue
<1>3. /\ nodes \in Nat /\ MaxNodes \in Nat /\ unclaimed \in Nat
      /\ next_slot \in Nat /\ next_temp \in Nat /\ curr \in 1..n
      /\ BlocksOK(blocks, next_temp, next_slot) /\ n \in Nat
      /\ Count(walk, {"call_stmt"}) \in Nat
      /\ unclaimed + Count(walk, {"call_stmt"}) <= nodes
  BY <1>2, ShapeIs
<1>4. /\ Top.slot \in 0..next_slot - 1 /\ Top.base >= unclaimed /\ Top.at \in LogFrames
      /\ Top.scope \subseteq 0..next_slot - 1
  BY <1>1, <1>2 DEF FrameOK, LogFrames
<1>5. /\ BlocksOK(blocks', next_temp, next_slot) /\ Len(blocks') = n + 2
  <2>1. /\ BlocksOK(bs, next_temp, next_slot) /\ Len(bs) = n + 2 /\ bs \in Seq(BlockRecs)
    <3>1. BlocksOK(bs, next_temp, next_slot)
      BY <1>3, BlocksCreate
    <3>2. Len(bs) = n + Len(<<NewBlock, NewBlock>>) /\ bs \in Seq(BlockRecs)
      BY <1>3, CreateIs DEF BlocksOK
    <3> QED
      BY <3>1, <3>2
  <2> HIDE DEF bs, c
  <2>2. Top.slot \in Nat /\ c \in Values
    BY <1>3, <1>4, ValuesAre DEF c
  <2>3. /\ Store(Top.slot, c) \in InstRecs
        /\ InstOK(Store(Top.slot, c), next_temp, next_slot)
    BY <1>3, <1>4, <2>2, InstsAre DEF InstOK
  <2>4. /\ i \in Seq(InstRecs)
        /\ \A k \in 1..Len(i) : InstOK(i[k], next_temp, next_slot)
    BY <2>3
  <2> HIDE DEF i
  <2>5. curr \in 1..Len(bs)
    BY <1>3, <2>1
  <2>6. BlocksOK(s, next_temp, next_slot) /\ Len(s) = n + 2
    <3>1. BlocksOK(s, next_temp, next_slot)
      <4>1. next_temp >= next_temp /\ next_slot >= next_slot
        BY <1>3
      <4> QED
        BY <1>3, <2>1, <2>4, <2>5, <4>1, BlocksEmit
    <3>2. Len(s) = Len(bs)
      BY <2>1, <2>4, <2>5, EmitIs
    <3> QED
      BY <2>1, <3>1, <3>2
  <2> HIDE DEF s
  <2>7. t \in TermRecs /\ \A k \in 1..Len(t.to) : t.to[k] \in 1..n + 2
    <3>1. n + 1 \in Nat /\ n + 2 \in Nat /\ n + 1 \in 1..n + 2 /\ n + 2 \in 1..n + 2
      BY <1>3
    <3>2. t \in TermRecs /\ (t.to = <<n + 1, n + 2>> \/ t.to = <<n + 2, n + 1>>)
      <4>1. Last(val_stack) \in Values
        BY <1>2
      <4>2. CASE Top.at = "and_lhs"
        BY <3>1, <4>1, <4>2, TermsAre
      <4>3. CASE Top.at # "and_lhs"
        BY <3>1, <4>1, <4>3, TermsAre
      <4> QED
        BY <4>2, <4>3
    <3> QED
      BY <3>1, <3>2
  <2> HIDE DEF t
  <2>8. BlocksOK(Terminate(s, curr, t), next_temp, next_slot)
    BY <1>3, <2>1, <2>5, <2>6, <2>7, BlocksTerminate
  <2>9. Len(Terminate(s, curr, t)) = Len(s)
    BY <2>1, <2>5, <2>6, <2>7, TerminateIs DEF BlocksOK
  <2> QED
    BY <1>1, <2>6, <2>8, <2>9
<1>6. /\ f \in Frames /\ f.at = "rhs" /\ f.base = Top.base /\ f.slot = Top.slot
      /\ f.to = <<n + 2>> /\ f.scope = Top.scope
  <2>1. /\ n + 2 \in Nat /\ <<n + 2>> \in Seq(Nat) /\ "rhs" \in Ats
        /\ Top.slot \in {NoSlot} \cup Nat
    BY <1>3, <1>4 DEF Ats, LogFrames
  <2> QED
    BY <1>2, <2>1 DEF Frame, Frames
<1> HIDE DEF f
<1>7. FrameOK(f, unclaimed, next_slot, n + 2)
  <2>1. Len(f.to) = 1 /\ f.to[1] \in 1..n + 2 /\ Len(f.to) \in Targets(f.at)
    BY <1>3, <1>6 DEF Targets
  <2>2. f.at # "call_stmt" /\ f.at \notin HeadFrames
    BY <1>6 DEF HeadFrames
  <2> QED
    BY <1>4, <1>6, <2>1, <2>2 DEF FrameOK
<1>8. /\ WalkOK(walk', unclaimed, next_slot, n + 2) /\ walk' # <<>> /\ Last(walk') = f
  <2>1. WalkOK(Butlast(walk), unclaimed, next_slot, n + 2)
    BY <1>2, <1>3, WalkGrow
  <2>4. f.at \in LogFrames /\ f.at # "fn_block"
    BY <1>6 DEF LogFrames
  <2>5. Last(Butlast(walk)).at \notin StmtFrames /\ Top.base >= Last(Butlast(walk)).base
    BY <1>2, <1>4 DEF PairOK
  <2>2. PairOK(Last(Butlast(walk)), f) /\ f.at \in LogFrames
    BY <1>6, <2>4, <2>5 DEF PairOK
  <2>3. walk' # <<>> /\ Last(walk') = f
    BY <1>1, <1>2, <1>6, LastPushed
  <2> QED
    BY <1>1, <1>2, <1>6, <1>7, <2>1, <2>2, <2>3, WalkPush
<1>9. /\ Count(walk', {"and_lhs", "or_lhs"}) + 1 = Count(walk, {"and_lhs", "or_lhs"})
      /\ Count(walk', {"call_stmt"}) = Count(walk, {"call_stmt"})
      /\ Count(walk', {"and_lhs", "or_lhs"}) \in Nat
  <2>1. /\ Last(walk).at \in {"and_lhs", "or_lhs"} /\ f.at \notin {"and_lhs", "or_lhs"}
        /\ Last(walk).at \notin {"call_stmt"} /\ f.at \notin {"call_stmt"}
    BY <1>1, <1>2, <1>6
  <2>4. walk' = Append(Butlast(walk), f) /\ f \in Frames /\ walk \in Seq(Frames) /\ walk # <<>>
    BY <1>1, <1>2, <1>6
  <2>2. /\ Count(walk', {"and_lhs", "or_lhs"}) + 1 = Count(walk, {"and_lhs", "or_lhs"}) + 0
        /\ Count(walk', {"and_lhs", "or_lhs"}) \in Nat
        /\ Count(walk, {"and_lhs", "or_lhs"}) \in Nat
    BY <2>1, <2>4, CountSwap
  <2>3. /\ Count(walk', {"call_stmt"}) + 0 = Count(walk, {"call_stmt"}) + 0
        /\ Count(walk', {"call_stmt"}) \in Nat
        /\ Count(walk, {"call_stmt"}) \in Nat
    BY <2>1, <2>4, CountSwap
  <2> QED
    BY <2>2, <2>3
<1>10. Shape(walk', Height - 1, unclaimed, nodes, next_slot, n + 2)
  <2>1. /\ nodes + Count(walk, {"and_lhs", "or_lhs"}) <= MaxNodes
    BY <1>2, LeafAffords
  <2>2. /\ Height - 1 \in Nat /\ Height - 1 >= Last(walk').base
        /\ Last(walk').at \notin StmtFrames
    BY <1>2, <1>6, <1>8 DEF StmtFrames
  <2>3. /\ nodes + Count(walk', {"and_lhs", "or_lhs"})
               + (IF Height - 1 = Last(walk').base THEN 1 ELSE 0) <= MaxNodes
        /\ unclaimed + Count(walk', {"call_stmt"}) <= nodes
    BY <1>3, <1>9, <2>1, <2>2
  <2> QED
    BY <1>3, <1>8, <2>2, <2>3, ShapeExpression
<1>11. /\ assigned' \subseteq 0..next_slot' - 1 /\ funcs' \in 1..MaxFunctions
  BY <1>1 DEF IInv
<1>12. foreign' \in BOOLEAN
  BY <1>1, Zenon DEF IInv
<1>13. /\ curr' \in 1..Len(blocks') /\ next_temp' \in Nat /\ next_slot' \in Nat
       /\ BlocksOK(blocks', next_temp', next_slot')
       /\ val_stack' \in Seq(Values) /\ Len(val_stack') = Height - 1
       /\ Shape(walk', Height - 1, unclaimed', nodes', next_slot', Len(blocks'))
  <2>1. curr' \in 1..Len(blocks')
    BY <1>1, <1>3, <1>5
  <2>2. val_stack' \in Seq(Values) /\ Len(val_stack') = Height - 1
    BY <1>1, <1>2
  <2>3. /\ next_temp' \in Nat /\ next_slot' \in Nat
        /\ BlocksOK(blocks', next_temp', next_slot')
    BY <1>1, <1>3, <1>5
  <2>4. Shape(walk', Height - 1, unclaimed', nodes', next_slot', Len(blocks'))
    BY <1>1, <1>5, <1>10
  <2> QED
    BY <2>1, <2>2, <2>3, <2>4
<1> QED
  BY <1>11, <1>12, <1>13, Together

\* A jump, if the block is open, changes nothing but its terminator.
LEMMA JumpIs ==
  ASSUME NEW temps, NEW slots, NEW bs, BlocksOK(bs, temps, slots),
         NEW b \in 1..Len(bs), NEW to \in 1..Len(bs)
  PROVE  /\ BlocksOK(JumpIfOpen(bs, b, to), temps, slots)
         /\ JumpIfOpen(bs, b, to) \in Seq(BlockRecs)
         /\ Len(JumpIfOpen(bs, b, to)) = Len(bs)
         /\ \A c \in 1..Len(bs) : /\ JumpIfOpen(bs, b, to)[c].insts = bs[c].insts
                                  /\ c # b => JumpIfOpen(bs, b, to)[c] = bs[c]
         /\ ~Open(bs, b) => JumpIfOpen(bs, b, to) = bs
         /\ Open(bs, b) => JumpIfOpen(bs, b, to)[b].term = Jump(to)
<1>1. bs \in Seq(BlockRecs) /\ to \in Nat
  BY DEF BlocksOK
<1>2. /\ Jump(to) \in TermRecs /\ Jump(to).to = <<to>>
      /\ \A k \in 1..Len(Jump(to).to) : Jump(to).to[k] \in 1..Len(bs)
  BY <1>1, TermsAre
<1>3. CASE Open(bs, b)
  <2>1. JumpIfOpen(bs, b, to) = Terminate(bs, b, Jump(to))
    BY <1>3 DEF JumpIfOpen
  <2>2. BlocksOK(Terminate(bs, b, Jump(to)), temps, slots)
    BY <1>2, BlocksTerminate
  <2>3. /\ Terminate(bs, b, Jump(to)) \in Seq(BlockRecs)
        /\ Len(Terminate(bs, b, Jump(to))) = Len(bs)
        /\ \A c \in 1..Len(bs) : /\ Terminate(bs, b, Jump(to))[c].insts = bs[c].insts
                                 /\ c # b => Terminate(bs, b, Jump(to))[c] = bs[c]
        /\ Terminate(bs, b, Jump(to))[b].term = Jump(to)
    BY <1>1, <1>2, TerminateIs
  <2> QED
    BY <1>3, <2>1, <2>2, <2>3
<1>4. CASE ~Open(bs, b)
  <2>1. JumpIfOpen(bs, b, to) = bs
    BY <1>4 DEF JumpIfOpen
  <2> QED
    BY <1>1, <1>4, <2>1
<1> QED
  BY <1>3, <1>4

\* Instructions are appended.
LEMMA BlocksEmitOne ==
  ASSUME NEW temps \in Nat, NEW slots \in Nat, NEW bs, BlocksOK(bs, temps, slots),
         NEW b \in 1..Len(bs), NEW i \in InstRecs,
         NEW t \in Nat, t >= temps, NEW s \in Nat, s >= slots, InstOK(i, t, s)
  PROVE  /\ BlocksOK(Emit(bs, b, <<i>>), t, s) /\ Len(Emit(bs, b, <<i>>)) = Len(bs)
<1> DEFINE l == <<i>>
<1>1. l \in Seq(InstRecs) /\ \A k \in 1..Len(l) : InstOK(l[k], t, s)
  OBVIOUS
<1> HIDE DEF l
<1>2. BlocksOK(Emit(bs, b, l), t, s)
  BY <1>1, BlocksEmit
<1>3. Len(Emit(bs, b, l)) = Len(bs)
  BY <1>1, EmitIs DEF BlocksOK
<1> QED
  BY <1>2, <1>3 DEF l

LEMMA KeptIs ==
  ASSUME IInv, next_slot' \in Nat, next_slot' >= next_slot
  PROVE  /\ assigned' = assigned => assigned' \subseteq 0..next_slot' - 1
         /\ funcs' = funcs => funcs' \in 1..MaxFunctions
         /\ foreign' = foreign => foreign' \in BOOLEAN
<1>1. assigned \subseteq 0..next_slot - 1 /\ funcs \in 1..MaxFunctions /\ next_slot \in Nat
  BY DEF IInv
<1>2. ASSUME foreign' = foreign PROVE foreign' \in BOOLEAN
  <2>1. foreign \in BOOLEAN
    BY Zenon DEF IInv
  <2> QED
    BY <1>2, <2>1, Zenon
<1>3. ASSUME NEW m \in Nat, NEW n \in Nat, n >= m PROVE 0..m - 1 \subseteq 0..n - 1
  BY <1>3
<1>4. 0..next_slot - 1 \subseteq 0..next_slot' - 1
  BY <1>1, <1>3
<1> QED
  BY <1>1, <1>2, <1>4

LEMMA FinishRhsIInv ==
  ASSUME IInv, FinishRhs
  PROVE  IInv'
<1> DEFINE join == Top.to[1]
           cmp == CmpOp(next_temp, Last(val_stack), IMM(0))
           store == Store(Top.slot, TEMP(next_temp))
           load == Load(next_temp + 1, Top.slot)
           is == <<cmp, store>>
           bs == Emit(blocks, curr, is)
           js == JumpIfOpen(bs, curr, join)
<1>1. /\ ExprDone /\ Top.at = "rhs"
      /\ blocks' = Emit(js, join, <<load>>)
      /\ val_stack' = Append(Pop(val_stack, 1), TEMP(next_temp + 1)) /\ curr' = join
      /\ walk' = Butlast(walk)
      /\ next_temp' = next_temp + 2 /\ next_slot' = next_slot
      /\ assigned' = assigned /\ nodes' = nodes
      /\ unclaimed' = unclaimed /\ funcs' = funcs /\ foreign' = foreign
  <2>1. ExprDone
    BY DEF FinishRhs
  <2>2. Pop(walk, 1) = Butlast(walk)
    BY <2>1, OnValue
  <2> QED
    BY <2>1, <2>2 DEF FinishRhs, program, Push
<1>2. /\ InExpr /\ walk # <<>> /\ walk \in Seq(Frames) /\ Top \in Frames /\ Top = Last(walk)
      /\ FrameOK(Top, unclaimed, next_slot, Len(blocks))
      /\ Top.base \in Nat /\ Height \in Nat \ {0} /\ Height = Top.base + 1
      /\ Last(val_stack) \in Values
      /\ Pop(val_stack, 1) \in Seq(Values) /\ Len(Pop(val_stack, 1)) = Height - 1
      /\ Butlast(walk) \in Seq(Frames) /\ Butlast(walk) # <<>>
      /\ WalkOK(Butlast(walk), unclaimed, next_slot, Len(blocks))
      /\ PairOK(Last(Butlast(walk)), Top)
  BY <1>1, OnValue
<1>3. /\ nodes \in Nat /\ MaxNodes \in Nat /\ unclaimed \in Nat
      /\ next_slot \in Nat /\ next_temp \in Nat /\ curr \in 1..Len(blocks)
      /\ BlocksOK(blocks, next_temp, next_slot) /\ Len(blocks) \in Nat
      /\ Count(walk, {"call_stmt"}) \in Nat
      /\ unclaimed + Count(walk, {"call_stmt"}) <= nodes
  BY <1>2, ShapeIs
<1>4. Top.slot \in 0..next_slot - 1 /\ join \in 1..Len(blocks)
  <2>1. Len(Top.to) = 1
    BY <1>1, <1>2 DEF FrameOK, Targets
  <2> QED
    BY <1>1, <1>2, <2>1 DEF FrameOK, LogFrames
<1> HIDE DEF join
<1>5. /\ cmp \in InstRecs /\ InstOK(cmp, next_temp + 2, next_slot)
      /\ store \in InstRecs /\ InstOK(store, next_temp + 2, next_slot)
      /\ load \in InstRecs /\ InstOK(load, next_temp + 2, next_slot)
  <2>1. Top.slot \in Nat /\ next_temp + 1 \in Nat /\ TEMP(next_temp) \in Values
    BY <1>3, <1>4, ValuesAre
  <2>2. /\ cmp \in InstRecs /\ cmp.dst = next_temp /\ cmp.slot = NoSlot
        /\ store \in InstRecs /\ store.dst = NoTemp /\ store.slot = Top.slot
        /\ load \in InstRecs /\ load.dst = next_temp + 1 /\ load.slot = Top.slot
    <3>1. cmp \in InstRecs /\ cmp.dst = next_temp /\ cmp.slot = NoSlot
      BY <1>2, <1>3, <2>1, InstsAre
    <3>2. store \in InstRecs /\ store.dst = NoTemp /\ store.slot = Top.slot
      BY <1>3, <2>1, InstsAre
    <3>3. load \in InstRecs /\ load.dst = next_temp + 1 /\ load.slot = Top.slot
      BY <1>2, <2>1, InstsAre
    <3> QED
      BY <3>1, <3>2, <3>3
  <2> HIDE DEF cmp, store, load
  <2> QED
    BY <1>3, <1>4, <2>2 DEF InstOK
<1> HIDE DEF cmp, store, load
<1>6. is \in Seq(InstRecs) /\ \A k \in 1..Len(is) : InstOK(is[k], next_temp + 2, next_slot)
  BY <1>5
<1> HIDE DEF is
<1>7. BlocksOK(bs, next_temp + 2, next_slot) /\ Len(bs) = Len(blocks)
  <2>1. next_temp + 2 >= next_temp /\ next_slot >= next_slot /\ next_temp + 2 \in Nat
    BY <1>3
  <2>2. BlocksOK(bs, next_temp + 2, next_slot)
    BY <1>3, <1>6, <2>1, BlocksEmit
  <2>3. Len(bs) = Len(blocks)
    BY <1>3, <1>6, EmitIs DEF BlocksOK
  <2> QED
    BY <2>2, <2>3
<1> HIDE DEF bs
<1>8. BlocksOK(js, next_temp + 2, next_slot) /\ Len(js) = Len(blocks)
  BY <1>3, <1>4, <1>7, JumpIs
<1> HIDE DEF js
<1>9. BlocksOK(blocks', next_temp + 2, next_slot) /\ Len(blocks') = Len(blocks)
  <2>1. next_temp + 2 >= next_temp + 2 /\ next_slot >= next_slot /\ next_temp + 2 \in Nat
    BY <1>3
  <2> QED
    BY <1>1, <1>3, <1>4, <1>5, <1>8, <2>1, BlocksEmitOne
<1>10. /\ val_stack' \in Seq(Values) /\ Len(val_stack') = Height
  <2>1. TEMP(next_temp + 1) \in Values
    BY <1>3, ValuesAre
  <2>2. /\ val_stack' \in Seq(Values) /\ Len(val_stack') = Len(Pop(val_stack, 1)) + 1
    BY <1>1, <1>2, <2>1, AppendIs
  <2> QED
    BY <1>2, <2>2
<1>11. /\ Count(walk', {"and_lhs", "or_lhs"}) = Count(walk, {"and_lhs", "or_lhs"})
       /\ Count(walk', {"call_stmt"}) = Count(walk, {"call_stmt"})
       /\ Count(walk', {"and_lhs", "or_lhs"}) \in Nat
  <2>1. Last(walk).at \notin {"and_lhs", "or_lhs"} /\ Last(walk).at \notin {"call_stmt"}
    BY <1>1, <1>2
  <2>2. walk' = Butlast(walk) /\ walk \in Seq(Frames) /\ walk # <<>>
    BY <1>1, <1>2
  <2>3. /\ Count(walk, {"and_lhs", "or_lhs"}) = Count(walk', {"and_lhs", "or_lhs"}) + 0
        /\ Count(walk', {"and_lhs", "or_lhs"}) \in Nat
    BY <2>1, <2>2, CountPop
  <2>4. /\ Count(walk, {"call_stmt"}) = Count(walk', {"call_stmt"}) + 0
        /\ Count(walk', {"call_stmt"}) \in Nat
    BY <2>1, <2>2, CountPop
  <2> QED
    BY <2>3, <2>4
<1>12. Shape(walk', Height, unclaimed, nodes, next_slot, Len(blocks))
  <2>1. nodes + Count(walk, {"and_lhs", "or_lhs"}) <= MaxNodes
    BY <1>2, LeafAffords
  <2>2. Last(walk').at \notin StmtFrames /\ Top.base >= Last(walk').base
    BY <1>1, <1>2 DEF PairOK, LogFrames
  <2>3. Last(walk').base \in Nat
    <3>1. walk' # <<>> /\ WalkOK(walk', unclaimed, next_slot, Len(blocks))
      BY <1>1, <1>2
    <3>2. Last(walk') \in Frames
      BY <3>1, WalkPop
    <3> QED
      BY <3>2 DEF Frames
  <2>4. Height >= Last(walk').base /\ Height # Last(walk').base /\ Height \in Nat
    BY <1>2, <2>2, <2>3
  <2>5. /\ nodes + Count(walk', {"and_lhs", "or_lhs"})
               + (IF Height = Last(walk').base THEN 1 ELSE 0) <= MaxNodes
        /\ unclaimed + Count(walk', {"call_stmt"}) <= nodes
    BY <1>3, <1>11, <2>1, <2>4
  <2>6. walk' # <<>> /\ WalkOK(walk', unclaimed, next_slot, Len(blocks))
    BY <1>1, <1>2
  <2> QED
    BY <1>3, <2>2, <2>4, <2>5, <2>6, ShapeExpression
<1>13. /\ curr' \in 1..Len(blocks') /\ next_temp' \in Nat /\ next_slot' \in Nat
       /\ BlocksOK(blocks', next_temp', next_slot') /\ next_slot' >= next_slot
  BY <1>1, <1>3, <1>4, <1>9
<1>14. Shape(walk', Height, unclaimed', nodes', next_slot', Len(blocks'))
  BY <1>1, <1>9, <1>12
<1> QED
  BY <1>1, <1>10, <1>13, <1>14, KeptIs, Together
-----------------------------------------------------------------------------
\* A step to the beginning or the end of a statement.
LEMMA StatementKeeps ==
  ASSUME IInv, NEW u2, WalkOK(walk', u2, next_slot', Len(blocks')),
         walk' # <<>> => Last(walk').at \in StmtFrames,
         val_stack' \in Seq(Values), Len(val_stack') = unclaimed',
         unclaimed' \in Nat, unclaimed' <= nodes', nodes' \in Nat, nodes' <= MaxNodes,
         BlocksOK(blocks', next_temp', next_slot'), curr' \in 1..Len(blocks'),
         next_temp' \in Nat, next_slot' \in Nat,
         assigned' \subseteq 0..next_slot' - 1, funcs' = funcs, foreign' \in BOOLEAN
  PROVE  IInv'
<1>1. Shape(walk', unclaimed', unclaimed', nodes', next_slot', Len(blocks'))
  BY ShapeStatement
<1>2. funcs' \in 1..MaxFunctions
  BY DEF IInv
<1> QED
  BY <1>1, <1>2, Together

\* A variable comes into sight.
LEMMA DeclareIs ==
  ASSUME NEW u, NEW slots \in Nat, NEW n, NEW w, WalkOK(w, u, slots, n), w # <<>>,
         Last(w).at \in StmtFrames
  PROVE  LET v == Declare(w, slots) IN
         /\ WalkOK(v, u, slots + 1, n)
         /\ v # <<>> /\ Len(v) = Len(w) /\ Last(v).at \in StmtFrames
         /\ \A k \in 1..Len(w) : /\ v[k].at = w[k].at /\ v[k].base = w[k].base
                                 /\ v[k].to = w[k].to
<1> DEFINE f == [w[Len(w)] EXCEPT !.scope = @ \cup {slots}]
           v == Declare(w, slots)
<1>1. w \in Seq(Frames) /\ Len(w) \in Nat \ {0} /\ w[Len(w)] \in Frames
      /\ FrameOK(w[Len(w)], u, slots, n) /\ w[Len(w)].at \in StmtFrames
  BY WalkPop DEF Last
<1>2. /\ f \in Frames /\ f.at = w[Len(w)].at /\ f.base = w[Len(w)].base
      /\ f.slot = w[Len(w)].slot /\ f.to = w[Len(w)].to
      /\ f.scope = w[Len(w)].scope \cup {slots}
  BY <1>1 DEF Frames
<1>3. v = [w EXCEPT ![Len(w)] = f]
  BY DEF Declare
<1> HIDE DEF f
<1>4. /\ v \in Seq(Frames) /\ Len(v) = Len(w) /\ v # <<>>
      /\ \A k \in 1..Len(w) : v[k] = IF k = Len(w) THEN f ELSE w[k]
  BY <1>1, <1>2, <1>3
<1> HIDE DEF v
<1>5. FrameOK(f, u, slots + 1, n)
  <2>1. f.scope \subseteq 0..(slots + 1) - 1
    BY <1>1, <1>2 DEF FrameOK
  <2>2. f.at \notin HeadFrames /\ f.at \notin LogFrames
    BY <1>1, <1>2 DEF StmtFrames, HeadFrames, LogFrames
  <2>3. f.at # "assn" /\ f.at # "call_stmt"
    BY <2>2 DEF HeadFrames
  <2> QED
    BY <1>1, <1>2, <2>1, <2>2, <2>3 DEF FrameOK
<1>6. ASSUME NEW k \in 1..Len(w) PROVE FrameOK(v[k], u, slots + 1, n)
  <2>1. CASE k = Len(w)
    BY <1>4, <1>5, <2>1
  <2>2. CASE k # Len(w)
    <3>1. FrameOK(w[k], u, slots, n) /\ v[k] = w[k]
      BY <1>4, <2>2 DEF WalkOK
    <3>2. w[k].scope \subseteq 0..(slots + 1) - 1 /\ 0..slots - 1 \subseteq 0..(slots + 1) - 1
      BY <3>1 DEF FrameOK
    <3> QED
      BY <3>1, <3>2 DEF FrameOK
  <2> QED
    BY <2>1, <2>2
<1>7. \A k \in 1..Len(w) : v[k].at = w[k].at /\ v[k].base = w[k].base /\ v[k].to = w[k].to
  BY <1>2, <1>4
<1>8. ASSUME NEW k \in 1..Len(v) - 1 PROVE PairOK(v[k], v[k + 1])
  <2>1. k \in 1..Len(w) - 1 /\ k \in 1..Len(w) /\ k + 1 \in 1..Len(w)
    BY <1>1, <1>4
  <2>2. PairOK(w[k], w[k + 1])
    BY <2>1 DEF WalkOK
  <2>3. v[k].at = w[k].at /\ v[k].base = w[k].base /\ v[k + 1].at = w[k + 1].at
        /\ v[k + 1].base = w[k + 1].base
    BY <1>7, <2>1
  <2> QED
    BY <2>2, <2>3 DEF PairOK
<1>9. ASSUME NEW k \in 1..Len(v), NEW l \in 1..Len(v), k < l, v[k].at \notin StmtFrames
      PROVE  v[l].at \in LogFrames
  BY <1>4, <1>7, <1>9 DEF WalkOK
<1>10. v[1].at = "fn_block" /\ Last(v).at \in StmtFrames
  <2>1. 1 \in 1..Len(w) /\ Len(w) \in 1..Len(w)
    BY <1>1
  <2>2. v[1].at = w[1].at /\ v[Len(w)].at = w[Len(w)].at /\ w[1].at = "fn_block"
    BY <1>7, <2>1 DEF WalkOK
  <2> QED
    BY <1>1, <1>4, <2>2 DEF Last
<1>11. WalkOK(v, u, slots + 1, n)
  BY <1>4, <1>6, <1>8, <1>9, <1>10 DEF WalkOK
<1> QED
  BY <1>4, <1>7, <1>10, <1>11 DEF v

LEMMA BeginStmtIInv ==
  ASSUME IInv, NEW node, NEW at \in HeadFrames, NEW slot \in {NoSlot} \cup Nat, NEW need \in Nat,
         BeginStmt(node, at, slot, need),
         at = "call_stmt" => slot \in 0..1 /\ slot = need,
         at # "call_stmt" => need = 1,
         at # "while",
         at = "assn" => slot \in 0..next_slot - 1
  PROVE  IInv'
<1> DEFINE f == Frame(at, Height, slot, <<>>, Top.scope)
<1>1. /\ InStmts /\ Affords(1 + need) /\ walk' = Append(walk, f) /\ nodes' = nodes + 1
      /\ blocks' = blocks /\ curr' = curr /\ val_stack' = val_stack
      /\ next_temp' = next_temp /\ next_slot' = next_slot /\ assigned' = assigned
      /\ unclaimed' = unclaimed /\ funcs' = funcs /\ foreign' = foreign
  BY DEF BeginStmt, program, Push
<1>2. /\ walk # <<>> /\ Top \in Frames /\ Top.at \in StmtFrames /\ Top = Last(walk)
      /\ Height = unclaimed /\ Owed = 0
      /\ WalkOK(walk, unclaimed, next_slot, Len(blocks))
  BY <1>1, OnStatement DEF Top
<1>3. /\ nodes \in Nat /\ MaxNodes \in Nat /\ unclaimed \in Nat /\ unclaimed <= nodes
      /\ next_slot \in Nat /\ next_temp \in Nat /\ curr \in 1..Len(blocks)
      /\ BlocksOK(blocks, next_temp, next_slot) /\ Len(blocks) \in Nat /\ Height \in Nat
  BY ShapeIs
<1>4. FrameOK(Top, unclaimed, next_slot, Len(blocks))
  BY <1>2, WalkPop
<1>5. /\ f \in Frames /\ f.at = at /\ f.base = Height /\ f.slot = slot /\ f.to = <<>>
      /\ f.scope = Top.scope
  <2>1. Top.scope \in SUBSET Nat /\ <<>> \in Seq(Nat) /\ at \in Ats
    BY <1>2 DEF Frames, Ats
  <2> QED
    BY <1>3, <2>1 DEF Frame, Frames
<1> HIDE DEF f
<1>6. FrameOK(f, unclaimed, next_slot, Len(blocks))
  <2>1. Len(f.to) = 0 /\ Len(f.to) \in Targets(f.at)
    BY <1>5 DEF Targets, HeadFrames
  <2>2. f.at \notin LogFrames
    BY <1>5 DEF HeadFrames, LogFrames
  <2>3. f.scope \subseteq 0..next_slot - 1
    BY <1>4, <1>5 DEF FrameOK
  <2> QED
    BY <1>2, <1>5, <2>1, <2>2, <2>3 DEF FrameOK
<1>7. Needs(f) = need
  BY <1>5 DEF Needs
<1>8. nodes + 1 \in Nat /\ unclaimed + 1 <= nodes + 1 /\ nodes + 1 + need <= MaxNodes
  BY <1>1, <1>2, <1>3 DEF Affords
<1>9. Shape(walk', unclaimed, unclaimed, nodes + 1, next_slot, Len(blocks))
  BY <1>1, <1>2, <1>3, <1>5, <1>6, <1>7, <1>8, ShapeHead
<1>10. val_stack' \in Seq(Values) /\ Len(val_stack') = unclaimed
  BY <1>1, <1>2 DEF IInv, Height
<1>11. /\ BlocksOK(blocks', next_temp', next_slot') /\ curr' \in 1..Len(blocks')
       /\ next_temp' \in Nat /\ next_slot' \in Nat /\ next_slot' >= next_slot
       /\ Shape(walk', unclaimed, unclaimed', nodes', next_slot', Len(blocks'))
  BY <1>1, <1>3, <1>9
<1> QED
  BY <1>1, <1>10, <1>11, KeptIs, Together

\* The value of the outermost expression of a statement is taken.
LEMMA OnHeadValue ==
  ASSUME IInv, ExprDone, Top.at \in HeadFrames
  PROVE  /\ Pop(val_stack, 1) \in Seq(Values) /\ Len(Pop(val_stack, 1)) = unclaimed
         /\ Height = unclaimed + 1
         /\ Last(val_stack) \in Values
         /\ Pop(walk, 1) = Butlast(walk) /\ Butlast(walk) # <<>>
         /\ Last(Butlast(walk)).at \in StmtFrames
         /\ WalkOK(Butlast(walk), unclaimed, next_slot, Len(blocks))
         /\ walk \in Seq(Frames) /\ Top \in Frames
         /\ FrameOK(Top, unclaimed, next_slot, Len(blocks))
<1>1. InExpr /\ Height = Top.base + 1 /\ Last(val_stack) \in Values
      /\ Pop(val_stack, 1) \in Seq(Values) /\ Len(Pop(val_stack, 1)) = Height - 1
      /\ walk \in Seq(Frames) /\ Top \in Frames /\ Top.base \in Nat
      /\ FrameOK(Top, unclaimed, next_slot, Len(blocks))
  BY OnValue
<1>2. /\ Pop(walk, 1) = Butlast(walk) /\ Butlast(walk) # <<>> /\ Top.base = unclaimed
      /\ Last(Butlast(walk)).at \in StmtFrames
      /\ WalkOK(Butlast(walk), unclaimed, next_slot, Len(blocks))
  BY <1>1, OnHead
<1> QED
  BY <1>1, <1>2

LEMMA StoreIs ==
  ASSUME IInv, NEW s \in Nat, s <= next_slot, NEW v \in Values, NEW n \in Nat, n >= next_slot
  PROVE  /\ BlocksOK(Emit(blocks, curr, <<Store(s, v)>>), next_temp, n)
         /\ Len(Emit(blocks, curr, <<Store(s, v)>>)) = Len(blocks)
<1>1. /\ next_slot \in Nat /\ next_temp \in Nat /\ curr \in 1..Len(blocks)
      /\ BlocksOK(blocks, next_temp, next_slot) /\ next_temp >= next_temp
  BY ShapeIs
<1>2. /\ Store(s, v) \in InstRecs /\ Store(s, v).dst = NoTemp /\ Store(s, v).slot = s
  BY InstsAre
<1>3. InstOK(Store(s, v), next_temp, n)
  BY <1>1, <1>2 DEF InstOK
<1> QED
  BY <1>1, <1>2, <1>3, BlocksEmitOne

LEMMA VarDecIInv ==
  ASSUME IInv, VarDec
  PROVE  IInv'
<1>1. /\ ExprDone /\ Top.at = "var_dec"
      /\ blocks' = Emit(blocks, curr, <<Store(next_slot, Last(val_stack))>>)
      /\ val_stack' = Pop(val_stack, 1) /\ next_slot' = next_slot + 1
      /\ walk' = Declare(Pop(walk, 1), next_slot)
      /\ assigned' = assigned \cup {next_slot}
      /\ curr' = curr /\ next_temp' = next_temp /\ nodes' = nodes
      /\ unclaimed' = unclaimed /\ funcs' = funcs /\ foreign' = foreign
  BY DEF VarDec, program, assign_variable
<1>2. /\ Pop(val_stack, 1) \in Seq(Values) /\ Len(Pop(val_stack, 1)) = unclaimed
      /\ Last(val_stack) \in Values
      /\ Pop(walk, 1) = Butlast(walk) /\ Butlast(walk) # <<>>
      /\ Last(Butlast(walk)).at \in StmtFrames
      /\ WalkOK(Butlast(walk), unclaimed, next_slot, Len(blocks))
  BY <1>1, OnHeadValue DEF HeadFrames
<1>3. /\ nodes \in Nat /\ nodes <= MaxNodes /\ unclaimed \in Nat /\ unclaimed <= nodes
      /\ next_slot \in Nat /\ next_temp \in Nat /\ curr \in 1..Len(blocks)
      /\ assigned \subseteq 0..next_slot - 1
  BY ShapeIs DEF IInv
<1>4. /\ BlocksOK(blocks', next_temp, next_slot + 1) /\ Len(blocks') = Len(blocks)
  <2>1. next_slot <= next_slot /\ next_slot + 1 \in Nat /\ next_slot + 1 >= next_slot
    BY <1>3
  <2> QED
    BY <1>1, <1>2, <1>3, <2>1, StoreIs
<1>5. /\ WalkOK(walk', unclaimed, next_slot + 1, Len(blocks)) /\ Last(walk').at \in StmtFrames
  <2>1. walk' = Declare(Butlast(walk), next_slot)
    BY <1>1, <1>2
  <2>2. /\ WalkOK(Declare(Butlast(walk), next_slot), unclaimed, next_slot + 1, Len(blocks))
        /\ Last(Declare(Butlast(walk), next_slot)).at \in StmtFrames
    BY <1>2, <1>3, DeclareIs
  <2> QED
    BY <2>1, <2>2
<1>6. assigned' \subseteq 0..next_slot' - 1
  BY <1>1, <1>3
<1>7. foreign' \in BOOLEAN
  <2>1. foreign \in BOOLEAN
    BY Zenon DEF IInv
  <2> QED
    BY <1>1, <2>1
<1> QED
  BY <1>1, <1>2, <1>3, <1>4, <1>5, <1>6, <1>7, StatementKeeps

LEMMA AssnIInv ==
  ASSUME IInv, Assn
  PROVE  IInv'
<1>1. /\ ExprDone /\ Top.at = "assn"
      /\ blocks' = Emit(blocks, curr, <<Store(Top.slot, Last(val_stack))>>)
      /\ val_stack' = Pop(val_stack, 1) /\ next_slot' = next_slot
      /\ walk' = Pop(walk, 1) /\ assigned' = assigned \cup {Top.slot}
      /\ curr' = curr /\ next_temp' = next_temp /\ nodes' = nodes
      /\ unclaimed' = unclaimed /\ funcs' = funcs /\ foreign' = foreign
  BY DEF Assn, program, assign_variable
<1>2. /\ Pop(val_stack, 1) \in Seq(Values) /\ Len(Pop(val_stack, 1)) = unclaimed
      /\ Last(val_stack) \in Values
      /\ Pop(walk, 1) = Butlast(walk) /\ Butlast(walk) # <<>>
      /\ Last(Butlast(walk)).at \in StmtFrames
      /\ WalkOK(Butlast(walk), unclaimed, next_slot, Len(blocks))
      /\ FrameOK(Top, unclaimed, next_slot, Len(blocks))
  BY <1>1, OnHeadValue DEF HeadFrames
<1>3. /\ nodes \in Nat /\ nodes <= MaxNodes /\ unclaimed \in Nat /\ unclaimed <= nodes
      /\ next_slot \in Nat /\ next_temp \in Nat /\ curr \in 1..Len(blocks)
      /\ assigned \subseteq 0..next_slot - 1
  BY ShapeIs DEF IInv
<1>4. Top.slot \in 0..next_slot - 1
  BY <1>1, <1>2 DEF FrameOK
<1>5. /\ BlocksOK(blocks', next_temp, next_slot) /\ Len(blocks') = Len(blocks)
  BY <1>1, <1>2, <1>3, <1>4, StoreIs
<1>6. assigned' \subseteq 0..next_slot' - 1
  BY <1>1, <1>3, <1>4
<1>7. foreign' \in BOOLEAN
  <2>1. foreign \in BOOLEAN
    BY Zenon DEF IInv
  <2> QED
    BY <1>1, <2>1
<1> QED
  BY <1>1, <1>2, <1>3, <1>5, <1>6, <1>7, StatementKeeps

LEMMA BareVarDecIInv ==
  ASSUME IInv, BareVarDec
  PROVE  IInv'
<1>1. /\ InStmts /\ Affords(1)
      /\ next_slot' = next_slot + 1 /\ walk' = Declare(walk, next_slot)
      /\ nodes' = nodes + 1
      /\ unclaimed' = IF unclaimed = 0 THEN 0 ELSE unclaimed - 1
      /\ curr' = curr /\ next_temp' = next_temp /\ assigned' = assigned /\ funcs' = funcs
  BY DEF BareVarDec
<1>2. /\ walk # <<>> /\ Last(walk).at \in StmtFrames /\ Height = unclaimed /\ Owed = 0
      /\ WalkOK(walk, unclaimed, next_slot, Len(blocks))
  BY <1>1, OnStatement DEF Top
<1>3. /\ nodes \in Nat /\ nodes <= MaxNodes /\ unclaimed \in Nat /\ unclaimed <= nodes
      /\ next_slot \in Nat /\ next_temp \in Nat /\ curr \in 1..Len(blocks)
      /\ BlocksOK(blocks, next_temp, next_slot) /\ MaxNodes \in Nat
      /\ assigned \subseteq 0..next_slot - 1 /\ val_stack \in Seq(Values)
      /\ Height \in Nat /\ Height = Len(val_stack)
  BY ShapeIs DEF IInv, Height
<1>4. /\ BlocksOK(blocks', next_temp, next_slot + 1) /\ Len(blocks') = Len(blocks)
      /\ val_stack' \in Seq(Values) /\ Len(val_stack') = unclaimed'
  <2>1. CASE val_stack = <<>>
    <3>1. blocks' = blocks /\ val_stack' = val_stack /\ Height = 0 /\ unclaimed' = 0
      BY <1>1, <1>2, <1>3, <2>1 DEF BareVarDec
    <3>2. BlocksOK(blocks, next_temp, next_slot + 1)
      BY <1>3, BlocksGrow
    <3> QED
      BY <1>3, <3>1, <3>2
  <2>2. CASE val_stack # <<>>
    <3>1. /\ blocks' = Emit(blocks, curr, <<Store(next_slot, Last(val_stack))>>)
          /\ val_stack' = Pop(val_stack, 1)
      BY <2>2 DEF BareVarDec
    <3>2. Height # 0 /\ Last(val_stack) \in Values /\ 1 <= Height
      BY <1>3, <2>2 DEF Last
    <3>3. BlocksOK(blocks', next_temp, next_slot + 1) /\ Len(blocks') = Len(blocks)
      BY <1>3, <3>1, <3>2, StoreIs
    <3>4. val_stack' \in Seq(Values) /\ Len(val_stack') = Height - 1
      BY <3>1, <3>2, StackIs
    <3>5. unclaimed' = Height - 1
      BY <1>1, <1>2, <3>2
    <3> QED
      BY <3>3, <3>4, <3>5
  <2> QED
    BY <2>1, <2>2
<1>5. /\ WalkOK(walk', unclaimed, next_slot + 1, Len(blocks)) /\ Last(walk').at \in StmtFrames
  BY <1>1, <1>2, <1>3, DeclareIs
<1>6. assigned' \subseteq 0..next_slot' - 1
  BY <1>1, <1>3
<1>7. foreign' \in BOOLEAN
  <2>1. foreign \in BOOLEAN /\ foreign' = (foreign \/ (unclaimed > 0 /\ Height <= walk[1].base))
    BY Zenon DEF IInv, BareVarDec
  <2> QED
    BY <2>1
<1>8. /\ nodes' \in Nat /\ nodes' <= MaxNodes /\ unclaimed' \in Nat /\ unclaimed' <= nodes'
  BY <1>1, <1>2, <1>3 DEF Affords
<1>9. /\ next_temp' \in Nat /\ next_slot' \in Nat /\ curr' \in 1..Len(blocks')
      /\ BlocksOK(blocks', next_temp', next_slot')
      /\ WalkOK(walk', unclaimed, next_slot', Len(blocks'))
  BY <1>1, <1>3, <1>4, <1>5
<1> QED
  BY <1>1, <1>4, <1>5, <1>6, <1>7, <1>8, <1>9, StatementKeeps

LEMMA ExitIInv ==
  ASSUME IInv, Exit \/ BareExit
  PROVE  IInv'
<1>1. /\ nodes \in Nat /\ nodes <= MaxNodes /\ unclaimed \in Nat /\ unclaimed <= nodes
      /\ next_slot \in Nat /\ next_temp \in Nat /\ curr \in 1..Len(blocks)
      /\ BlocksOK(blocks, next_temp, next_slot) /\ MaxNodes \in Nat
      /\ val_stack \in Seq(Values) /\ Height = Len(val_stack)
  BY ShapeIs DEF IInv, Height
<1>2. /\ next_slot' = next_slot /\ next_temp' = next_temp /\ curr' = curr
      /\ assigned' = assigned
      /\ unclaimed' = unclaimed /\ funcs' = funcs /\ foreign' = foreign
      /\ \E t \in TermRecs : blocks' = Terminate(blocks, curr, t) /\ t.to = <<>>
  <2>1. CASE Exit
    <3>1. ExprDone /\ Top.at \in HeadFrames
      BY <2>1 DEF Exit, HeadFrames
    <3>2. Last(val_stack) \in Values
      BY <3>1, OnHeadValue
    <3>3. Halt(<<Last(val_stack)>>) \in TermRecs /\ Halt(<<Last(val_stack)>>).to = <<>>
      BY <3>2, TermsAre
    <3> QED
      BY <2>1, <3>3 DEF Exit, program
  <2>2. CASE BareExit
    <3>1. Halt(<<>>) \in TermRecs /\ Halt(<<>>).to = <<>>
      BY TermsAre
    <3> QED
      BY <2>2, <3>1 DEF BareExit, program
  <2> QED
    BY <2>1, <2>2
<1>3. PICK t \in TermRecs : blocks' = Terminate(blocks, curr, t) /\ t.to = <<>>
  BY <1>2
<1>4. /\ BlocksOK(blocks', next_temp, next_slot) /\ Len(blocks') = Len(blocks)
  <2>1. \A k \in 1..Len(t.to) : t.to[k] \in 1..Len(blocks)
    BY <1>3
  <2>2. BlocksOK(blocks', next_temp, next_slot)
    BY <1>1, <1>3, <2>1, BlocksTerminate
  <2>3. Len(blocks') = Len(blocks)
    BY <1>1, <1>3, TerminateIs DEF BlocksOK
  <2> QED
    BY <2>2, <2>3
<1>5. /\ val_stack' \in Seq(Values) /\ Len(val_stack') = unclaimed
      /\ nodes' \in Nat /\ nodes' >= nodes /\ nodes' <= MaxNodes
      /\ WalkOK(walk', unclaimed, next_slot, Len(blocks))
      /\ walk' # <<>> => Last(walk').at \in StmtFrames
  <2>1. CASE Exit
    <3>1. ExprDone /\ Top.at \in HeadFrames /\ nodes' = nodes /\ walk' = Pop(walk, 1)
          /\ val_stack' = Pop(val_stack, 1)
      BY <2>1 DEF Exit, HeadFrames
    <3> QED
      BY <1>1, <3>1, OnHeadValue
  <2>2. CASE BareExit
    <3>1. InStmts /\ Affords(1) /\ nodes' = nodes + 1 /\ walk' = walk /\ val_stack' = val_stack
      BY <2>2 DEF BareExit
    <3>2. /\ walk # <<>> /\ Last(walk).at \in StmtFrames /\ Height = unclaimed /\ Owed = 0
          /\ WalkOK(walk, unclaimed, next_slot, Len(blocks))
      BY <3>1, OnStatement DEF Top
    <3>3. nodes' \in Nat /\ nodes' >= nodes /\ nodes' <= MaxNodes
      BY <1>1, <3>1, <3>2 DEF Affords
    <3> QED
      BY <1>1, <3>1, <3>2, <3>3
  <2> QED
    BY <2>1, <2>2
<1>6. /\ nodes' \in Nat /\ nodes' <= MaxNodes /\ unclaimed' \in Nat /\ unclaimed' <= nodes'
      /\ next_temp' \in Nat /\ next_slot' \in Nat /\ next_slot' >= next_slot
  BY <1>1, <1>2, <1>5
<1>7. /\ curr' \in 1..Len(blocks') /\ BlocksOK(blocks', next_temp', next_slot')
      /\ WalkOK(walk', unclaimed, next_slot', Len(blocks')) /\ Len(val_stack') = unclaimed'
  BY <1>1, <1>2, <1>4, <1>5
<1> QED
  BY <1>2, <1>5, <1>6, <1>7, KeptIs, StatementKeeps

LEMMA CallStmtIInv ==
  ASSUME IInv, CallStmt
  PROVE  IInv'
<1> DEFINE call == Call(next_temp, Popped(Operands))
<1>1. /\ InExpr /\ Top.at = "call_stmt" /\ Pending = Operands
      /\ val_stack' = Append(SubSeq(val_stack, 1, Height - Operands), TEMP(next_temp))
      /\ blocks' = Emit(blocks, curr, <<call>>) /\ next_temp' = next_temp + 1
      /\ walk' = Pop(walk, 1) /\ unclaimed' = unclaimed + 1
      /\ curr' = curr /\ next_slot' = next_slot /\ assigned' = assigned /\ nodes' = nodes
      /\ funcs' = funcs /\ foreign' = foreign
  BY DEF CallStmt, Push, Pop, Height
<1>2. /\ Top.base \in Nat /\ Height \in Nat /\ Pending \in Nat /\ Operands \in 0..1
      /\ walk # <<>> /\ walk \in Seq(Frames) /\ Top = Last(walk)
  BY <1>1, InExpression DEF Top
<1>3. /\ Pop(walk, 1) = Butlast(walk) /\ Butlast(walk) # <<>>
      /\ Last(Butlast(walk)).at \in StmtFrames
      /\ WalkOK(Butlast(walk), unclaimed, next_slot, Len(blocks))
      /\ Top.base = unclaimed
  BY <1>1, OnHead, Zenon DEF HeadFrames
<1>4. /\ nodes \in Nat /\ nodes <= MaxNodes /\ unclaimed \in Nat
      /\ next_slot \in Nat /\ next_temp \in Nat /\ curr \in 1..Len(blocks)
      /\ BlocksOK(blocks, next_temp, next_slot)
      /\ unclaimed + Count(walk, {"call_stmt"}) <= nodes
  BY <1>2, ShapeIs
<1>5. unclaimed + 1 <= nodes
  <2>1. /\ Count(Butlast(walk), {"call_stmt"}) \in Nat
        /\ Count(walk, {"call_stmt"}) = Count(Butlast(walk), {"call_stmt"})
             + IF Last(walk).at \in {"call_stmt"} THEN 1 ELSE 0
    BY <1>2, CountPop
  <2>2. Last(walk).at \in {"call_stmt"}
    BY <1>1, <1>2
  <2>3. Count(walk, {"call_stmt"}) = Count(Butlast(walk), {"call_stmt"}) + 1
    BY <2>1, <2>2
  <2> QED
    BY <1>4, <2>1, <2>3
<1>6. Computes(call, Operands) /\ Operands <= Height
  <2>1. Operands \in Arities \cup 0..1 /\ Operands <= Pending
    BY <1>1, <1>2
  <2> QED
    BY <1>1, <1>2, <2>1, OperatorsCompute DEF Pending
<1> HIDE DEF call
<1>7. BlocksOK(blocks', next_temp + 1, next_slot) /\ Len(blocks') = Len(blocks)
  <2>1. call \in InstRecs /\ InstOK(call, next_temp + 1, next_slot)
    BY <1>6 DEF Computes
  <2>2. next_temp + 1 >= next_temp /\ next_slot >= next_slot /\ next_temp + 1 \in Nat
    BY <1>4
  <2> QED
    BY <1>1, <1>4, <2>1, <2>2, BlocksEmitOne
<1>8. val_stack' \in Seq(Values) /\ Len(val_stack') = unclaimed + 1
  <2> DEFINE s == SubSeq(val_stack, 1, Height - Operands)
  <2>1. s \in Seq(Values) /\ Len(s) = Height - Operands
    BY <1>2, <1>6, StackIs
  <2>2. TEMP(next_temp) \in Values /\ val_stack' = Append(s, TEMP(next_temp))
    BY <1>1, <1>4, ValuesAre
  <2> HIDE DEF s
  <2>3. val_stack' \in Seq(Values) /\ Len(val_stack') = Len(s) + 1
    BY <2>1, <2>2, AppendIs
  <2>4. Height - Operands = unclaimed
    BY <1>1, <1>2, <1>3 DEF Pending
  <2> QED
    BY <2>1, <2>3, <2>4
<1>9. /\ nodes' \in Nat /\ nodes' <= MaxNodes /\ unclaimed' \in Nat /\ unclaimed' <= nodes'
      /\ next_temp' \in Nat /\ next_slot' \in Nat /\ next_slot' >= next_slot
      /\ Len(val_stack') = unclaimed'
  BY <1>1, <1>4, <1>5, <1>8
<1>10. /\ curr' \in 1..Len(blocks') /\ BlocksOK(blocks', next_temp', next_slot')
       /\ WalkOK(walk', unclaimed, next_slot', Len(blocks'))
       /\ walk' # <<>> => Last(walk').at \in StmtFrames
  BY <1>1, <1>3, <1>4, <1>7
<1> QED
  BY <1>1, <1>8, <1>9, <1>10, KeptIs, StatementKeeps

\* A list of statements begins on top of w.
LEMMA PushList ==
  ASSUME NEW u, NEW slots, NEW n, NEW w, WalkOK(w, u, slots, n), w # <<>>,
         Last(w).at \in StmtFrames,
         NEW f \in Frames, f.at \in StmtFrames, f.at # "fn_block", f.scope \subseteq 0..slots - 1,
         Len(f.to) \in Targets(f.at), \A k \in 1..Len(f.to) : f.to[k] \in 1..n
  PROVE  WalkOK(Append(w, f), u, slots, n) /\ Last(Append(w, f)) = f
<1>1. f.at \notin HeadFrames /\ f.at \notin LogFrames
  BY DEF StmtFrames, HeadFrames, LogFrames
<1>2. f.at # "assn" /\ f.at # "call_stmt"
  BY <1>1 DEF HeadFrames
<1>3. FrameOK(f, u, slots, n)
  BY <1>1, <1>2 DEF FrameOK
<1>4. PairOK(Last(w), f)
  BY <1>1 DEF PairOK
<1>5. WalkOK(Append(w, f), u, slots, n)
  BY <1>3, <1>4, WalkPush
<1>6. w \in Seq(Frames)
  BY DEF WalkOK
<1> QED
  BY <1>5, <1>6, LastPushed

LEMMA IfIInv ==
  ASSUME IInv, NEW else \in BOOLEAN, If(else)
  PROVE  IInv'
<1> DEFINE n == Len(blocks)
           join == IF else THEN n + 3 ELSE n + 2
           news == IF else THEN <<NewBlock, NewBlock, NewBlock>> ELSE <<NewBlock, NewBlock>>
           bs == blocks \o news
           t == BranchIfZero(Last(val_stack), n + 1, n + 2)
           to == IF else THEN <<n + 2, join>> ELSE <<join>>
           f == Frame("then_block", Height - 1, NoSlot, to, Top.scope)
<1>1. /\ ExprDone /\ Top.at = "if" /\ blocks' = Terminate(bs, curr, t)
      /\ val_stack' = Pop(val_stack, 1) /\ curr' = n + 1
      /\ walk' = Append(Pop(walk, 1), f)
      /\ next_temp' = next_temp /\ next_slot' = next_slot /\ assigned' = assigned
      /\ nodes' = nodes /\ unclaimed' = unclaimed /\ funcs' = funcs /\ foreign' = foreign
  BY DEF If, program, Push
<1>2. /\ Pop(val_stack, 1) \in Seq(Values) /\ Len(Pop(val_stack, 1)) = unclaimed
      /\ Height = unclaimed + 1 /\ Last(val_stack) \in Values
      /\ Pop(walk, 1) = Butlast(walk) /\ Butlast(walk) # <<>>
      /\ Last(Butlast(walk)).at \in StmtFrames
      /\ WalkOK(Butlast(walk), unclaimed, next_slot, n)
      /\ Top \in Frames /\ FrameOK(Top, unclaimed, next_slot, n)
  BY <1>1, OnHeadValue DEF HeadFrames
<1>3. /\ nodes \in Nat /\ nodes <= MaxNodes /\ unclaimed \in Nat /\ unclaimed <= nodes
      /\ next_slot \in Nat /\ next_temp \in Nat /\ curr \in 1..n
      /\ BlocksOK(blocks, next_temp, next_slot) /\ n \in Nat
  BY ShapeIs
<1>4. news \in {<<NewBlock, NewBlock>>, <<NewBlock, NewBlock, NewBlock>>}
      /\ Len(news) = (IF else THEN 3 ELSE 2)
  OBVIOUS
<1> HIDE DEF news
<1>5. BlocksOK(bs, next_temp, next_slot) /\ Len(bs) = join /\ bs \in Seq(BlockRecs)
  <2>1. BlocksOK(bs, next_temp, next_slot)
    BY <1>3, <1>4, BlocksCreate
  <2>2. Len(bs) = n + Len(news)
    BY <1>3, <1>4, CreateIs DEF BlocksOK
  <2> QED
    BY <1>3, <1>4, <2>1, <2>2 DEF BlocksOK
<1> HIDE DEF bs
<1>6. /\ join \in Nat /\ n + 1 \in 1..join /\ n + 2 \in 1..join /\ join \in 1..join
      /\ curr \in 1..join /\ join >= n
  BY <1>3
<1>7. Len(to) \in {1, 2} /\ to \in Seq(Nat) /\ \A k \in 1..Len(to) : to[k] \in 1..join
  <2>1. CASE else
    <3>1. to = <<n + 2, join>> /\ n + 2 \in Nat
      BY <1>3, <2>1
    <3> HIDE DEF join, to
    <3> QED
      BY <1>6, <3>1
  <2>2. CASE ~else
    <3>1. to = <<join>>
      BY <2>2
    <3> HIDE DEF join, to
    <3> QED
      BY <1>6, <3>1
  <2> QED
    BY <2>1, <2>2
<1> HIDE DEF join, to
<1>8. BlocksOK(blocks', next_temp, next_slot) /\ Len(blocks') = join
  <2>1. t \in TermRecs /\ t.to = <<n + 1, n + 2>>
    <3>1. n + 1 \in Nat /\ n + 2 \in Nat
      BY <1>3
    <3> QED
      BY <1>2, <3>1, TermsAre
  <2> HIDE DEF t
  <2>2. \A k \in 1..Len(t.to) : t.to[k] \in 1..Len(bs)
    BY <1>5, <1>6, <2>1
  <2>3. curr \in 1..Len(bs)
    BY <1>5, <1>6
  <2>4. BlocksOK(Terminate(bs, curr, t), next_temp, next_slot)
    BY <1>5, <2>1, <2>2, <2>3, BlocksTerminate
  <2>5. Len(Terminate(bs, curr, t)) = Len(bs)
    BY <1>5, <2>1, <2>3, TerminateIs
  <2> QED
    BY <1>1, <1>5, <2>4, <2>5
<1>9. /\ f \in Frames /\ f.at = "then_block" /\ f.to = to /\ f.scope = Top.scope
  <2>1. Top.scope \in SUBSET Nat /\ "then_block" \in Ats
    BY <1>2 DEF Frames, Ats, StmtFrames
  <2>2. Height - 1 \in Nat
    BY <1>2, <1>3
  <2> QED
    BY <1>7, <2>1, <2>2 DEF Frame, Frames
<1> HIDE DEF f
<1>10. WalkOK(walk', unclaimed, next_slot, join) /\ Last(walk') = f
  <2>1. WalkOK(Butlast(walk), unclaimed, next_slot, join)
    BY <1>2, <1>3, <1>6, WalkGrow
  <2>2. /\ f.scope \subseteq 0..next_slot - 1 /\ Len(f.to) \in Targets(f.at)
        /\ \A k \in 1..Len(f.to) : f.to[k] \in 1..join
        /\ f.at \in StmtFrames /\ f.at # "fn_block"
    BY <1>2, <1>7, <1>9 DEF FrameOK, Targets, StmtFrames
  <2>3. walk' = Append(Butlast(walk), f)
    BY <1>1, <1>2
  <2>4. /\ WalkOK(Append(Butlast(walk), f), unclaimed, next_slot, join)
        /\ Last(Append(Butlast(walk), f)) = f
    BY <1>2, <1>9, <2>1, <2>2, PushList
  <2> QED
    BY <2>3, <2>4
<1>11. /\ WalkOK(walk', unclaimed, next_slot', Len(blocks')) /\ Last(walk').at \in StmtFrames
  BY <1>1, <1>8, <1>9, <1>10 DEF StmtFrames
<1>12. curr' \in 1..Len(blocks') /\ BlocksOK(blocks', next_temp', next_slot')
  BY <1>1, <1>6, <1>8
<1>13. /\ nodes' \in Nat /\ nodes' <= MaxNodes /\ unclaimed' \in Nat /\ unclaimed' <= nodes'
       /\ next_temp' \in Nat /\ next_slot' \in Nat /\ next_slot' >= next_slot
  BY <1>1, <1>3
<1>14. val_stack' \in Seq(Values) /\ Len(val_stack') = unclaimed'
  BY <1>1, <1>2
<1> QED
  BY <1>1, <1>11, <1>12, <1>13, <1>14, KeptIs, StatementKeeps

\* The bounds and the stack when a statement leaves them as they are.
LEMMA StatementSame ==
  ASSUME IInv, InStmts, val_stack' = val_stack, unclaimed' = unclaimed, nodes' = nodes,
         next_temp' = next_temp, next_slot' = next_slot, assigned' = assigned,
         funcs' = funcs, foreign' = foreign,
         BlocksOK(blocks', next_temp, next_slot), curr' \in 1..Len(blocks'),
         WalkOK(walk', unclaimed, next_slot, Len(blocks')),
         walk' # <<>> => Last(walk').at \in StmtFrames
  PROVE  IInv'
<1>1. /\ nodes \in Nat /\ nodes <= MaxNodes /\ unclaimed \in Nat /\ unclaimed <= nodes
      /\ next_slot \in Nat /\ next_temp \in Nat
  BY ShapeIs
<1>2. val_stack' \in Seq(Values) /\ Len(val_stack') = unclaimed
  BY OnStatement DEF IInv, Height
<1>3. /\ nodes' \in Nat /\ nodes' <= MaxNodes /\ unclaimed' \in Nat /\ unclaimed' <= nodes'
      /\ next_temp' \in Nat /\ next_slot' \in Nat /\ next_slot' >= next_slot
      /\ Len(val_stack') = unclaimed' /\ BlocksOK(blocks', next_temp', next_slot')
      /\ WalkOK(walk', unclaimed, next_slot', Len(blocks'))
  BY <1>1, <1>2
<1> QED
  BY <1>2, <1>3, KeptIs, StatementKeeps

\* A list of statements ends that is not the function's.
LEMMA OnList ==
  ASSUME IInv, InStmts, Top.at # "fn_block"
  PROVE  /\ Pop(walk, 1) = Butlast(walk) /\ Butlast(walk) # <<>> /\ walk # <<>>
         /\ walk \in Seq(Frames) /\ Top = Last(walk) /\ Top = walk[Len(walk)]
         /\ Last(Butlast(walk)).at \in StmtFrames
         /\ WalkOK(walk, unclaimed, next_slot, Len(blocks))
         /\ WalkOK(Butlast(walk), unclaimed, next_slot, Len(blocks))
         /\ Top \in Frames /\ FrameOK(Top, unclaimed, next_slot, Len(blocks))
         /\ Last(Butlast(walk)) \in Frames
         /\ FrameOK(Last(Butlast(walk)), unclaimed, next_slot, Len(blocks))
         /\ Last(Butlast(walk)) = walk[Len(walk) - 1]
<1>1. /\ walk # <<>> /\ Top.at \in StmtFrames /\ Top = Last(walk) /\ Top = walk[Len(walk)]
      /\ WalkOK(walk, unclaimed, next_slot, Len(blocks))
  BY OnStatement DEF Top, Last
<1>2. Last(walk).at \notin LogFrames /\ Last(walk).at # "fn_block"
  BY <1>1 DEF StmtFrames, LogFrames
<1>3. walk \in Seq(Frames) /\ Butlast(walk) # <<>>
  BY <1>1, <1>2, WalkPop
<1>4. Pop(walk, 1) = Butlast(walk)
  BY <1>1, <1>3, OwedIs
<1>5. /\ WalkOK(Butlast(walk), unclaimed, next_slot, Len(blocks))
      /\ Last(walk) \in Frames /\ FrameOK(Last(walk), unclaimed, next_slot, Len(blocks))
  BY <1>1, WalkPop
<1>6. /\ Last(Butlast(walk)).at \in StmtFrames
      /\ Last(Butlast(walk)) \in Frames
      /\ FrameOK(Last(Butlast(walk)), unclaimed, next_slot, Len(blocks))
      /\ Last(Butlast(walk)) = walk[Len(walk) - 1]
  BY <1>1, <1>2, <1>3, WalkPop
<1> QED
  BY <1>1, <1>3, <1>4, <1>5, <1>6

LEMMA EndThenIInv ==
  ASSUME IInv, EndThen
  PROVE  IInv'
<1> DEFINE f == [Frame("else_block", Top.base, NoSlot, <<Top.to[2]>>, walk[Len(walk) - 1].scope)
                   EXCEPT !.reached = Open(blocks, curr)]
<1>1. /\ InStmts /\ Top.at = "then_block" /\ Len(Top.to) = 2
      /\ blocks' = JumpIfOpen(blocks, curr, Top.to[2]) /\ curr' = Top.to[1]
      /\ walk' = [walk EXCEPT ![Len(walk)] = f]
      /\ val_stack' = val_stack /\ unclaimed' = unclaimed /\ nodes' = nodes
      /\ next_temp' = next_temp /\ next_slot' = next_slot /\ assigned' = assigned
      /\ funcs' = funcs /\ foreign' = foreign
  BY DEF EndThen, program
<1>2. /\ Butlast(walk) # <<>> /\ walk # <<>> /\ walk \in Seq(Frames)
      /\ Last(Butlast(walk)).at \in StmtFrames
      /\ WalkOK(Butlast(walk), unclaimed, next_slot, Len(blocks))
      /\ Top \in Frames /\ FrameOK(Top, unclaimed, next_slot, Len(blocks))
      /\ walk[Len(walk) - 1] \in Frames
      /\ FrameOK(walk[Len(walk) - 1], unclaimed, next_slot, Len(blocks))
  BY <1>1, OnList
<1>3. /\ curr \in 1..Len(blocks) /\ BlocksOK(blocks, next_temp, next_slot)
      /\ Len(blocks) \in Nat
  BY ShapeIs
<1>4. Top.to[1] \in 1..Len(blocks) /\ Top.to[2] \in 1..Len(blocks)
  BY <1>1, <1>2 DEF FrameOK
<1>5. BlocksOK(blocks', next_temp, next_slot) /\ Len(blocks') = Len(blocks)
  BY <1>1, <1>3, <1>4, JumpIs
<1>6. /\ f \in Frames /\ f.at = "else_block" /\ f.to = <<Top.to[2]>>
      /\ f.scope = walk[Len(walk) - 1].scope
  <2>1. /\ walk[Len(walk) - 1].scope \in SUBSET Nat /\ Top.base \in Nat
        /\ "else_block" \in Ats /\ Top.to[2] \in Nat
    <3>1. walk[Len(walk) - 1].scope \in SUBSET Nat /\ Top.base \in Nat
      BY <1>2 DEF Frames
    <3>2. "else_block" \in Ats
      BY DEF Ats, StmtFrames
    <3>3. Top.to[2] \in Nat
      BY <1>3, <1>4
    <3> QED
      BY <3>1, <3>2, <3>3
  <2>2. <<Top.to[2]>> \in Seq(Nat) /\ Open(blocks, curr) \in BOOLEAN
    BY <2>1 DEF Open
  <2> QED
    BY <2>1, <2>2 DEF Frame, Frames
<1> HIDE DEF f
<1>7. walk' = Append(Butlast(walk), f)
  BY <1>1, <1>2, <1>6, ReplaceIs
<1>8. WalkOK(walk', unclaimed, next_slot, Len(blocks)) /\ Last(walk') = f
  <2>1. /\ f.scope \subseteq 0..next_slot - 1 /\ Len(f.to) \in Targets(f.at)
        /\ \A k \in 1..Len(f.to) : f.to[k] \in 1..Len(blocks)
        /\ f.at \in StmtFrames /\ f.at # "fn_block"
    <3>1. f.scope \subseteq 0..next_slot - 1
      BY <1>2, <1>6 DEF FrameOK
    <3>2. Len(f.to) = 1 /\ f.to[1] = Top.to[2]
      BY <1>6
    <3>3. 1 \in Targets("else_block") /\ "else_block" \in StmtFrames
      BY DEF Targets, StmtFrames
    <3> QED
      BY <1>4, <1>6, <3>1, <3>2, <3>3
  <2>2. /\ WalkOK(Append(Butlast(walk), f), unclaimed, next_slot, Len(blocks))
        /\ Last(Append(Butlast(walk), f)) = f
    <3>1. f \in Frames
      BY <1>6
    <3> QED
      BY <1>2, <2>1, <3>1, PushList
  <2> QED
    BY <1>7, <2>2
<1>9. /\ curr' \in 1..Len(blocks') /\ WalkOK(walk', unclaimed, next_slot, Len(blocks'))
      /\ Last(walk').at \in StmtFrames
  BY <1>1, <1>4, <1>5, <1>6, <1>8 DEF StmtFrames
<1> QED
  BY <1>1, <1>5, <1>9, StatementSame

LEMMA ImplicitHaltIs ==
  /\ ImplicitHalt \in TermRecs /\ ImplicitHalt.to = <<>> /\ ImplicitHalt # Undefined
  /\ ImplicitHalt.args = <<>> \/ ImplicitHalt.args = <<IMM(0)>>
<1>1. IMM(0) \in Values
  BY ValuesAre
<1>2. CASE ReturnsValue
  BY <1>1, <1>2, TermsAre DEF ImplicitHalt
<1>3. CASE ~ReturnsValue
  BY <1>3, TermsAre DEF ImplicitHalt
<1> QED
  BY <1>2, <1>3

LEMMA EndIfIInv ==
  ASSUME IInv, EndIf
  PROVE  IInv'
<1> DEFINE join == Last(Top.to)
           reached == \/ Top.at = "then_block" \/ Top.reached \/ Open(blocks, curr)
           bs == JumpIfOpen(blocks, curr, join)
<1>1. /\ InStmts /\ Top.at \in {"then_block", "else_block"} /\ Len(Top.to) = 1
      /\ blocks' = IF reached THEN bs ELSE Terminate(bs, join, ImplicitHalt)
      /\ curr' = join /\ walk' = Pop(walk, 1)
      /\ val_stack' = val_stack /\ unclaimed' = unclaimed /\ nodes' = nodes
      /\ next_temp' = next_temp /\ next_slot' = next_slot /\ assigned' = assigned
      /\ funcs' = funcs /\ foreign' = foreign
  BY DEF EndIf, program
<1>2. /\ Pop(walk, 1) = Butlast(walk)
      /\ Last(Butlast(walk)).at \in StmtFrames
      /\ WalkOK(Butlast(walk), unclaimed, next_slot, Len(blocks))
      /\ Top \in Frames /\ FrameOK(Top, unclaimed, next_slot, Len(blocks))
  BY <1>1, OnList
<1>3. /\ curr \in 1..Len(blocks) /\ BlocksOK(blocks, next_temp, next_slot)
  BY ShapeIs
<1>4. join \in 1..Len(blocks)
  BY <1>1, <1>2 DEF FrameOK, Last
<1> HIDE DEF join
<1>5. BlocksOK(bs, next_temp, next_slot) /\ Len(bs) = Len(blocks)
  BY <1>3, <1>4, JumpIs
<1> HIDE DEF bs
<1>6. BlocksOK(blocks', next_temp, next_slot) /\ Len(blocks') = Len(blocks)
  <2>1. CASE reached
    BY <1>1, <1>5, <2>1
  <2>2. CASE ~reached
    <3>1. blocks' = Terminate(bs, join, ImplicitHalt) /\ join \in 1..Len(bs)
      BY <1>1, <1>4, <1>5, <2>2
    <3>2. ImplicitHalt \in TermRecs /\ \A k \in 1..Len(ImplicitHalt.to) :
                                          ImplicitHalt.to[k] \in 1..Len(bs)
      BY ImplicitHaltIs
    <3>3. BlocksOK(blocks', next_temp, next_slot)
      BY <1>5, <3>1, <3>2, BlocksTerminate
    <3>4. Len(blocks') = Len(bs)
      BY <1>5, <3>1, <3>2, TerminateIs DEF BlocksOK
    <3> QED
      BY <1>5, <3>3, <3>4
  <2> QED
    BY <2>1, <2>2
<1>7. curr' \in 1..Len(blocks') /\ WalkOK(walk', unclaimed, next_slot, Len(blocks'))
      /\ Last(walk').at \in StmtFrames
  BY <1>1, <1>2, <1>4, <1>6
<1> QED
  BY <1>1, <1>6, <1>7, StatementSame

LEMMA EndWhileIInv ==
  ASSUME IInv, EndWhile
  PROVE  IInv'
<1>1. /\ InStmts /\ Top.at = "loop_block"
      /\ blocks' = JumpIfOpen(blocks, curr, Top.to[1]) /\ curr' = Top.to[2]
      /\ walk' = Pop(walk, 1)
      /\ val_stack' = val_stack /\ unclaimed' = unclaimed /\ nodes' = nodes
      /\ next_temp' = next_temp /\ next_slot' = next_slot /\ assigned' = assigned
      /\ funcs' = funcs /\ foreign' = foreign
  BY DEF EndWhile, program
<1>2. /\ Pop(walk, 1) = Butlast(walk)
      /\ Last(Butlast(walk)).at \in StmtFrames
      /\ WalkOK(Butlast(walk), unclaimed, next_slot, Len(blocks))
      /\ Top \in Frames /\ FrameOK(Top, unclaimed, next_slot, Len(blocks))
  BY <1>1, OnList
<1>3. /\ curr \in 1..Len(blocks) /\ BlocksOK(blocks, next_temp, next_slot)
  BY ShapeIs
<1>4. Top.to[1] \in 1..Len(blocks) /\ Top.to[2] \in 1..Len(blocks)
  <2>1. Len(Top.to) = 2
    BY <1>1, <1>2 DEF FrameOK, Targets
  <2> QED
    BY <1>2, <2>1 DEF FrameOK
<1>5. BlocksOK(blocks', next_temp, next_slot) /\ Len(blocks') = Len(blocks)
  BY <1>1, <1>3, <1>4, JumpIs
<1>6. curr' \in 1..Len(blocks') /\ WalkOK(walk', unclaimed, next_slot, Len(blocks'))
      /\ Last(walk').at \in StmtFrames
  BY <1>1, <1>2, <1>4, <1>5
<1> QED
  BY <1>1, <1>5, <1>6, StatementSame

LEMMA EndBlockIInv ==
  ASSUME IInv, EndBlock
  PROVE  IInv'
<1>1. /\ InStmts /\ Top.at = "block"
      /\ blocks' = blocks /\ curr' = curr /\ walk' = Pop(walk, 1)
      /\ val_stack' = val_stack /\ unclaimed' = unclaimed /\ nodes' = nodes
      /\ next_temp' = next_temp /\ next_slot' = next_slot /\ assigned' = assigned
      /\ funcs' = funcs /\ foreign' = foreign
  BY DEF EndBlock, program
<1>2. /\ Pop(walk, 1) = Butlast(walk)
      /\ Last(Butlast(walk)).at \in StmtFrames
      /\ WalkOK(Butlast(walk), unclaimed, next_slot, Len(blocks))
  BY <1>1, OnList
<1>3. /\ curr \in 1..Len(blocks) /\ BlocksOK(blocks, next_temp, next_slot)
  BY ShapeIs
<1>4. curr' \in 1..Len(blocks') /\ WalkOK(walk', unclaimed, next_slot, Len(blocks'))
      /\ Last(walk').at \in StmtFrames /\ BlocksOK(blocks', next_temp, next_slot)
  BY <1>1, <1>2, <1>3
<1> QED
  BY <1>1, <1>4, StatementSame

LEMMA EndFunctionIInv ==
  ASSUME IInv, EndFunction
  PROVE  IInv'
<1>1. /\ InStmts /\ walk' = <<>> /\ curr' = curr
      /\ blocks' = IF Open(blocks, curr) THEN Terminate(blocks, curr, ImplicitHalt)
                   ELSE blocks
      /\ val_stack' = val_stack /\ unclaimed' = unclaimed /\ nodes' = nodes
      /\ next_temp' = next_temp /\ next_slot' = next_slot /\ assigned' = assigned
      /\ funcs' = funcs /\ foreign' = foreign
  BY DEF EndFunction, program
<1>2. /\ curr \in 1..Len(blocks) /\ BlocksOK(blocks, next_temp, next_slot)
  BY ShapeIs
<1>3. BlocksOK(blocks', next_temp, next_slot) /\ Len(blocks') = Len(blocks)
  <2>1. CASE Open(blocks, curr)
    <3>1. blocks' = Terminate(blocks, curr, ImplicitHalt)
      BY <1>1, <2>1
    <3>2. ImplicitHalt \in TermRecs /\ \A k \in 1..Len(ImplicitHalt.to) :
                                          ImplicitHalt.to[k] \in 1..Len(blocks)
      BY ImplicitHaltIs
    <3>3. BlocksOK(blocks', next_temp, next_slot)
      BY <1>2, <3>1, <3>2, BlocksTerminate
    <3>4. Len(blocks') = Len(blocks)
      BY <1>2, <3>1, <3>2, TerminateIs DEF BlocksOK
    <3> QED
      BY <3>3, <3>4
  <2>2. CASE ~Open(blocks, curr)
    BY <1>1, <1>2, <2>2
  <2> QED
    BY <2>1, <2>2
<1>4. curr' \in 1..Len(blocks') /\ WalkOK(walk', unclaimed, next_slot, Len(blocks'))
  BY <1>1, <1>2, <1>3 DEF WalkOK
<1> QED
  BY <1>1, <1>3, <1>4, StatementSame

LEMMA BeginBlockIInv ==
  ASSUME IInv, BeginBlock
  PROVE  IInv'
<1> DEFINE f == Frame("block", Height, NoSlot, <<>>, Top.scope)
<1>1. /\ InStmts /\ Affords(1) /\ walk' = Append(walk, f) /\ nodes' = nodes + 1
      /\ blocks' = blocks /\ curr' = curr /\ val_stack' = val_stack
      /\ unclaimed' = unclaimed /\ next_temp' = next_temp /\ next_slot' = next_slot
      /\ assigned' = assigned /\ funcs' = funcs /\ foreign' = foreign
  BY DEF BeginBlock, program, Push
<1>2. /\ walk # <<>> /\ Last(walk) \in Frames /\ Last(walk).at \in StmtFrames
      /\ Top = Last(walk) /\ Height = unclaimed /\ Owed = 0
      /\ WalkOK(walk, unclaimed, next_slot, Len(blocks))
  BY <1>1, OnStatement DEF Top
<1>3. /\ nodes \in Nat /\ MaxNodes \in Nat /\ unclaimed \in Nat /\ unclaimed <= nodes
      /\ next_slot \in Nat /\ next_temp \in Nat /\ curr \in 1..Len(blocks)
      /\ BlocksOK(blocks, next_temp, next_slot) /\ Height \in Nat
      /\ val_stack \in Seq(Values) /\ Height = Len(val_stack)
  BY ShapeIs DEF IInv, Height
<1>4. FrameOK(Last(walk), unclaimed, next_slot, Len(blocks))
  BY <1>2, WalkPop
<1>5. /\ f \in Frames /\ f.at = "block" /\ f.to = <<>> /\ f.scope = Top.scope
  <2>1. Top.scope \in SUBSET Nat
    BY <1>2 DEF Frames
  <2>2. <<>> \in Seq(Nat) /\ "block" \in Ats
    BY DEF Ats, StmtFrames
  <2> QED
    BY <1>3, <2>1, <2>2 DEF Frame, Frames
<1> HIDE DEF f
<1>6. WalkOK(walk', unclaimed, next_slot, Len(blocks)) /\ Last(walk') = f
  <2>1. f.scope \subseteq 0..next_slot - 1
    BY <1>2, <1>4, <1>5 DEF FrameOK
  <2>2. Len(f.to) = 0 /\ Len(f.to) \in Targets(f.at) /\ f.at \in StmtFrames
    BY <1>5 DEF Targets, StmtFrames
  <2>3. WalkOK(Append(walk, f), unclaimed, next_slot, Len(blocks)) /\ Last(Append(walk, f)) = f
    BY <1>2, <1>5, <2>1, <2>2, PushList
  <2> QED
    BY <1>1, <2>3
<1>7. /\ nodes' \in Nat /\ nodes' <= MaxNodes /\ unclaimed' \in Nat /\ unclaimed' <= nodes'
      /\ next_temp' \in Nat /\ next_slot' \in Nat /\ next_slot' >= next_slot
      /\ val_stack' \in Seq(Values) /\ Len(val_stack') = unclaimed'
  BY <1>1, <1>2, <1>3 DEF Affords
<1>8. /\ curr' \in 1..Len(blocks') /\ BlocksOK(blocks', next_temp', next_slot')
      /\ WalkOK(walk', unclaimed, next_slot', Len(blocks'))
      /\ Last(walk').at \in StmtFrames
  BY <1>1, <1>3, <1>5, <1>6 DEF StmtFrames
<1> QED
  BY <1>1, <1>7, <1>8, KeptIs, StatementKeeps

LEMMA BeginWhileIInv ==
  ASSUME IInv, BeginWhile
  PROVE  IInv'
<1> DEFINE n == Len(blocks)
           news == <<NewBlock, NewBlock, NewBlock>>
           bs == blocks \o news
           f == Frame("while", Height, NoSlot, <<n + 1, n + 1 + 1, n + 1 + 2>>, Top.scope)
<1>1. /\ InStmts /\ Affords(2) /\ walk' = Append(walk, f) /\ nodes' = nodes + 1
      /\ blocks' = JumpIfOpen(bs, curr, n + 1) /\ curr' = n + 1 /\ val_stack' = val_stack
      /\ unclaimed' = unclaimed /\ next_temp' = next_temp /\ next_slot' = next_slot
      /\ assigned' = assigned /\ funcs' = funcs /\ foreign' = foreign
  BY DEF BeginWhile, program, Push
<1>2. /\ walk # <<>> /\ Last(walk) \in Frames /\ Last(walk).at \in StmtFrames
      /\ Top = Last(walk) /\ Height = unclaimed /\ Owed = 0
      /\ WalkOK(walk, unclaimed, next_slot, n)
  BY <1>1, OnStatement DEF Top
<1>3. /\ nodes \in Nat /\ MaxNodes \in Nat /\ unclaimed \in Nat /\ unclaimed <= nodes
      /\ next_slot \in Nat /\ next_temp \in Nat /\ curr \in 1..n
      /\ BlocksOK(blocks, next_temp, next_slot) /\ Height \in Nat /\ n \in Nat
      /\ val_stack \in Seq(Values) /\ Height = Len(val_stack)
  BY ShapeIs DEF IInv, Height
<1>4. FrameOK(Last(walk), unclaimed, next_slot, n)
  BY <1>2, WalkPop
<1>5. BlocksOK(blocks', next_temp, next_slot) /\ Len(blocks') = n + 3
  <2>1. news \in {<<NewBlock, NewBlock>>, <<NewBlock, NewBlock, NewBlock>>} /\ Len(news) = 3
    OBVIOUS
  <2> HIDE DEF news
  <2>2. BlocksOK(bs, next_temp, next_slot)
    BY <1>3, <2>1, BlocksCreate
  <2>3. Len(bs) = n + Len(news)
    BY <1>3, <2>1, CreateIs DEF BlocksOK
  <2>4. curr \in 1..Len(bs) /\ n + 1 \in 1..Len(bs) /\ Len(bs) = n + 3
    BY <1>3, <2>1, <2>3
  <2> HIDE DEF bs
  <2> QED
    BY <1>1, <2>2, <2>4, JumpIs
<1>6. /\ f \in Frames /\ f.at = "while" /\ f.base = Height
      /\ f.to = <<n + 1, n + 1 + 1, n + 1 + 2>> /\ f.scope = Top.scope
  <2>1. Top.scope \in SUBSET Nat
    BY <1>2 DEF Frames
  <2>2. <<n + 1, n + 1 + 1, n + 1 + 2>> \in Seq(Nat)
    BY <1>3
  <2>3. "while" \in Ats
    BY DEF Ats, HeadFrames
  <2> QED
    BY <1>3, <2>1, <2>2, <2>3 DEF Frame, Frames
<1> HIDE DEF f
<1>7. FrameOK(f, unclaimed, next_slot, n + 3)
  <2>1. f.scope \subseteq 0..next_slot - 1
    BY <1>2, <1>4, <1>6 DEF FrameOK
  <2>2. Len(f.to) = 3 /\ \A k \in 1..Len(f.to) : f.to[k] \in 1..n + 3
    <3>1. Len(f.to) = 3 /\ f.to[1] = n + 1 /\ f.to[2] = n + 1 + 1 /\ f.to[3] = n + 1 + 2
      BY <1>6
    <3> QED
      BY <1>3, <3>1
  <2>3. Len(f.to) \in Targets(f.at) /\ f.at \notin LogFrames /\ f.at # "assn"
        /\ f.at # "call_stmt"
    BY <1>6, <2>2 DEF Targets, LogFrames
  <2> QED
    BY <1>2, <1>6, <2>1, <2>2, <2>3 DEF FrameOK
<1>8. Shape(walk', unclaimed, unclaimed, nodes + 1, next_slot, n + 3)
  <2>1. WalkOK(walk, unclaimed, next_slot, n + 3)
    BY <1>2, <1>3, WalkGrow
  <2>2. f.at \in HeadFrames /\ Needs(f) = 1
    BY <1>6 DEF HeadFrames, Needs
  <2>3. nodes + 1 \in Nat /\ unclaimed + 1 <= nodes + 1 /\ nodes + 1 + 1 <= MaxNodes
    BY <1>1, <1>2, <1>3 DEF Affords
  <2> QED
    BY <1>1, <1>2, <1>3, <1>6, <1>7, <2>1, <2>2, <2>3, ShapeHead
<1>9. /\ curr' \in 1..Len(blocks') /\ BlocksOK(blocks', next_temp', next_slot')
      /\ next_temp' \in Nat /\ next_slot' \in Nat /\ next_slot' >= next_slot
      /\ Shape(walk', unclaimed, unclaimed', nodes', next_slot', Len(blocks'))
  <2>1. Shape(walk', unclaimed, unclaimed', nodes', next_slot', Len(blocks'))
    BY <1>1, <1>5, <1>8
  <2>2. curr' \in 1..Len(blocks')
    BY <1>1, <1>3, <1>5
  <2>3. /\ BlocksOK(blocks', next_temp', next_slot')
        /\ next_temp' \in Nat /\ next_slot' \in Nat /\ next_slot' >= next_slot
    BY <1>1, <1>3, <1>5
  <2> QED
    BY <2>1, <2>2, <2>3
<1>10. val_stack' \in Seq(Values) /\ Len(val_stack') = unclaimed
  BY <1>1, <1>2, <1>3
<1> QED
  BY <1>1, <1>9, <1>10, KeptIs, Together

LEMMA WhileBodyIInv ==
  ASSUME IInv, WhileBody
  PROVE  IInv'
<1> DEFINE loop == Top.to[2]
           join == Top.to[3]
           t == BranchIfZero(Last(val_stack), loop, join)
           f == Frame("loop_block", Height - 1, NoSlot, <<Top.to[1], join>>, Top.scope)
<1>1. /\ ExprDone /\ Top.at = "while"
      /\ blocks' = IF Open(blocks, curr) THEN Terminate(blocks, curr, t) ELSE blocks
      /\ val_stack' = Pop(val_stack, 1) /\ curr' = loop
      /\ walk' = Append(Pop(walk, 1), f)
      /\ next_temp' = next_temp /\ next_slot' = next_slot /\ assigned' = assigned
      /\ nodes' = nodes /\ unclaimed' = unclaimed /\ funcs' = funcs /\ foreign' = foreign
  BY DEF WhileBody, program, Push
<1>2. /\ Pop(val_stack, 1) \in Seq(Values) /\ Len(Pop(val_stack, 1)) = unclaimed
      /\ Height = unclaimed + 1 /\ Last(val_stack) \in Values
      /\ Pop(walk, 1) = Butlast(walk) /\ Butlast(walk) # <<>>
      /\ Last(Butlast(walk)).at \in StmtFrames
      /\ WalkOK(Butlast(walk), unclaimed, next_slot, Len(blocks))
      /\ Top \in Frames /\ FrameOK(Top, unclaimed, next_slot, Len(blocks))
  BY <1>1, OnHeadValue DEF HeadFrames
<1>3. /\ nodes \in Nat /\ nodes <= MaxNodes /\ unclaimed \in Nat /\ unclaimed <= nodes
      /\ next_slot \in Nat /\ next_temp \in Nat /\ curr \in 1..Len(blocks)
      /\ BlocksOK(blocks, next_temp, next_slot) /\ Len(blocks) \in Nat
  BY ShapeIs
<1>4. Top.to[1] \in 1..Len(blocks) /\ loop \in 1..Len(blocks) /\ join \in 1..Len(blocks)
  <2>1. Len(Top.to) = 3
    BY <1>1, <1>2 DEF FrameOK, Targets
  <2> QED
    BY <1>2, <2>1 DEF FrameOK
<1> HIDE DEF loop, join
<1>5. BlocksOK(blocks', next_temp, next_slot) /\ Len(blocks') = Len(blocks)
  <2>1. CASE Open(blocks, curr)
    <3>1. t \in TermRecs /\ t.to = <<loop, join>>
      BY <1>2, <1>3, <1>4, TermsAre
    <3> HIDE DEF t
    <3>2. \A k \in 1..Len(t.to) : t.to[k] \in 1..Len(blocks)
      BY <1>4, <3>1
    <3>3. BlocksOK(Terminate(blocks, curr, t), next_temp, next_slot)
      BY <1>3, <3>1, <3>2, BlocksTerminate
    <3>4. Len(Terminate(blocks, curr, t)) = Len(blocks)
      BY <1>3, <3>1, TerminateIs DEF BlocksOK
    <3> QED
      BY <1>1, <2>1, <3>3, <3>4
  <2>2. CASE ~Open(blocks, curr)
    BY <1>1, <1>3, <2>2
  <2> QED
    BY <2>1, <2>2
<1>6. /\ f \in Frames /\ f.at = "loop_block" /\ f.to = <<Top.to[1], join>>
      /\ f.scope = Top.scope
  <2>1. Top.scope \in SUBSET Nat
    BY <1>2 DEF Frames
  <2>2. <<Top.to[1], join>> \in Seq(Nat) /\ Height - 1 \in Nat
    BY <1>2, <1>3, <1>4
  <2>3. "loop_block" \in Ats
    BY DEF Ats, StmtFrames
  <2> QED
    BY <2>1, <2>2, <2>3 DEF Frame, Frames
<1> HIDE DEF f
<1>7. WalkOK(walk', unclaimed, next_slot, Len(blocks)) /\ Last(walk') = f
  <2>1. f.scope \subseteq 0..next_slot - 1
    BY <1>2, <1>6 DEF FrameOK
  <2>2. Len(f.to) = 2 /\ f.to[1] = Top.to[1] /\ f.to[2] = join
    BY <1>6
  <2>3. /\ Len(f.to) \in Targets(f.at) /\ f.at \in StmtFrames /\ f.at # "fn_block"
        /\ f \in Frames
    BY <1>6, <2>2 DEF Targets, StmtFrames
  <2>4. \A k \in 1..Len(f.to) : f.to[k] \in 1..Len(blocks)
    BY <1>4, <2>2
  <2>5. /\ WalkOK(Append(Butlast(walk), f), unclaimed, next_slot, Len(blocks))
        /\ Last(Append(Butlast(walk), f)) = f
    BY <1>2, <2>1, <2>3, <2>4, PushList
  <2> QED
    BY <1>1, <1>2, <2>5
<1>8. /\ WalkOK(walk', unclaimed, next_slot', Len(blocks')) /\ Last(walk').at \in StmtFrames
  BY <1>1, <1>5, <1>6, <1>7 DEF StmtFrames
<1>9. curr' \in 1..Len(blocks') /\ BlocksOK(blocks', next_temp', next_slot')
  BY <1>1, <1>4, <1>5
<1>10. /\ nodes' \in Nat /\ nodes' <= MaxNodes /\ unclaimed' \in Nat /\ unclaimed' <= nodes'
       /\ next_temp' \in Nat /\ next_slot' \in Nat /\ next_slot' >= next_slot
  BY <1>1, <1>3
<1>11. val_stack' \in Seq(Values) /\ Len(val_stack') = unclaimed'
  BY <1>1, <1>2
<1> QED
  BY <1>1, <1>8, <1>9, <1>10, <1>11, KeptIs, StatementKeeps
-----------------------------------------------------------------------------
\* The statements that begin with an expression of their own.
BeginSimple ==
  \/ BeginStmt("AST_VAR_DEC", "var_dec", NoSlot, 1)
  \/ InStmts /\ \E s \in Assignable : BeginStmt("AST_ASSN", "assn", s, 1)
  \/ BeginStmt("AST_EXIT", "exit", NoSlot, 1)
  \/ \E k \in Arities \cap 0..1 : BeginStmt("call statement", "call_stmt", k, k)
  \/ BeginStmt("AST_IF", "if", NoSlot, 1)

\* The steps, those that evaluate a node of an expression taken together.
LEMMA StepIs ==
  ASSUME IInv, [Next]_vars
  PROVE  \/ \E n, v, insts : Eval(n, v, insts)
         \/ \E at \in {"and_lhs", "or_lhs"} : BeginLogOp(at)
         \/ FinishLhs \/ FinishRhs
         \/ BeginSimple
         \/ VarDec \/ BareVarDec \/ Assn \/ (Exit \/ BareExit) \/ CallStmt
         \/ \E else \in BOOLEAN : If(else)
         \/ EndThen \/ EndIf
         \/ BeginWhile \/ WhileBody \/ EndWhile
         \/ BeginBlock \/ EndBlock
         \/ EndFunction \/ BeginFunction
         \/ UNCHANGED vars
<1>1. CASE Evaluate
  BY <1>1, Evaluates
<1>2. CASE ~Evaluate
  BY <1>2, Zenon DEF Next, Expression, Statement, Evaluate, BeginSimple, Finished
<1> QED
  BY <1>1, <1>2

LEMMA BeginSimpleIInv ==
  ASSUME IInv, BeginSimple
  PROVE  IInv'
<1>1. CASE BeginStmt("AST_VAR_DEC", "var_dec", NoSlot, 1)
  BY <1>1, BeginStmtIInv DEF HeadFrames
<1>2. ASSUME InStmts, NEW s \in Assignable, BeginStmt("AST_ASSN", "assn", s, 1)
      PROVE  IInv'
  <2>1. walk # <<>> /\ WalkOK(walk, unclaimed, next_slot, Len(blocks)) /\ Top = Last(walk)
    BY <1>2, OnStatement DEF Top
  <2>2. FrameOK(Top, unclaimed, next_slot, Len(blocks))
    BY <2>1, WalkPop
  <2>3. s \in 0..next_slot - 1 /\ s \in {NoSlot} \cup Nat
    BY <2>2 DEF FrameOK, Assignable
  <2>4. "assn" \in HeadFrames
    BY DEF HeadFrames
  <2> QED
    BY <1>2, <2>3, <2>4, BeginStmtIInv
<1>3. CASE BeginStmt("AST_EXIT", "exit", NoSlot, 1)
  BY <1>3, BeginStmtIInv DEF HeadFrames
<1>4. ASSUME NEW k \in Arities \cap 0..1, BeginStmt("call statement", "call_stmt", k, k)
      PROVE  IInv'
  <2>1. "call_stmt" \in HeadFrames /\ k \in Nat /\ k \in {NoSlot} \cup Nat /\ k \in 0..1
    BY DEF HeadFrames
  <2> QED
    BY <1>4, <2>1, BeginStmtIInv
<1>5. CASE BeginStmt("AST_IF", "if", NoSlot, 1)
  BY <1>5, BeginStmtIInv DEF HeadFrames
<1> QED
  BY <1>1, <1>2, <1>3, <1>4, <1>5 DEF BeginSimple

LEMMA StepIInv == IInv /\ [Next]_vars => IInv'
<1> SUFFICES ASSUME IInv, [Next]_vars PROVE IInv'
  OBVIOUS
<1>1. CASE UNCHANGED vars
  BY <1>1 DEF vars, program, IInv, Height
<1> QED
  BY <1>1, StepIs, EvalIInv, BeginLogOpIInv, FinishLhsIInv, FinishRhsIInv, BeginSimpleIInv,
     VarDecIInv, BareVarDecIInv, AssnIInv, ExitIInv, CallStmtIInv, IfIInv, EndThenIInv,
     EndIfIInv, BeginWhileIInv, WhileBodyIInv, EndWhileIInv, BeginBlockIInv, EndBlockIInv,
     EndFunctionIInv, BeginFunctionIInv, Zenon

\* The walk nests as the grammar says, every frame's base is where its
\* operands begin, and instructions name temps, slots and blocks there are.
THEOREM InductiveInvariant == Spec => []IInv
<1>1. Init => IInv
  BY InitIInv
<1>2. IInv /\ [Next]_vars => IInv'
  BY StepIInv
<1> QED
  BY <1>1, <1>2, PTL DEF Spec

LEMMA IInvTypes == IInv => TypeOK
<1> SUFFICES ASSUME IInv PROVE TypeOK
  OBVIOUS
<1>1. /\ next_temp \in Nat /\ next_slot \in Nat /\ curr \in 1..Len(blocks)
      /\ BlocksOK(blocks, next_temp, next_slot)
      /\ nodes \in Nat /\ nodes <= MaxNodes /\ MaxNodes \in Nat
      /\ unclaimed \in Nat /\ unclaimed <= nodes
  BY ShapeIs
<1>2. ASSUME NEW b \in BlockIds
      PROVE  /\ \A i \in Insts(b) :
                  /\ InstAt(b, i).dst \in {NoTemp} \cup 0..next_temp - 1
                  /\ InstAt(b, i).slot \in {NoSlot} \cup 0..next_slot
                  /\ \A k \in DOMAIN InstAt(b, i).args : InstAt(b, i).args[k] \in Values
             /\ \A k \in DOMAIN blocks[b].term.to : blocks[b].term.to[k] \in BlockIds
  <2>1. /\ b \in 1..Len(blocks) /\ blocks[b].insts \in Seq(InstRecs)
        /\ blocks[b].term.to \in Seq(Nat)
    BY <1>1, BlockParts DEF BlockIds
  <2>2. Insts(b) = 1..Len(blocks[b].insts)
    BY <2>1 DEF Insts
  <2>3. ASSUME NEW i \in 1..Len(blocks[b].insts)
        PROVE  /\ InstAt(b, i).dst \in {NoTemp} \cup 0..next_temp - 1
               /\ InstAt(b, i).slot \in {NoSlot} \cup 0..next_slot
               /\ \A k \in DOMAIN InstAt(b, i).args : InstAt(b, i).args[k] \in Values
    <3>1. InstOK(blocks[b].insts[i], next_temp, next_slot)
      BY <1>1, <2>1 DEF BlocksOK
    <3>2. blocks[b].insts[i] \in InstRecs
      BY <2>1
    <3>3. blocks[b].insts[i].args \in Seq(Values)
      BY <3>2 DEF InstRecs
    <3> QED
      BY <3>1, <3>3 DEF InstOK, InstAt
  <2>4. \A k \in DOMAIN blocks[b].term.to : blocks[b].term.to[k] \in BlockIds
    BY <1>1, <2>1 DEF BlocksOK, BlockIds
  <2> QED
    BY <2>2, <2>3, <2>4
<1>3. \A k \in 1..Height : val_stack[k] \in Values
  BY DEF IInv, Height
<1>4. \A f \in DOMAIN walk : /\ walk[f].base \in Nat
                             /\ \A k \in DOMAIN walk[f].to : walk[f].to[k] \in BlockIds
  <2>1. WalkOK(walk, unclaimed, next_slot, Len(blocks)) /\ walk \in Seq(Frames)
    BY DEF IInv, WalkOK
  <2>2. ASSUME NEW f \in 1..Len(walk)
        PROVE  /\ walk[f].base \in Nat
               /\ \A k \in DOMAIN walk[f].to : walk[f].to[k] \in BlockIds
    <3>1. walk[f] \in Frames /\ FrameOK(walk[f], unclaimed, next_slot, Len(blocks))
      BY <2>1 DEF WalkOK
    <3>2. walk[f].base \in Nat /\ walk[f].to \in Seq(Nat)
      BY <3>1 DEF Frames
    <3> QED
      BY <3>1, <3>2 DEF FrameOK, BlockIds
  <2> QED
    BY <2>1, <2>2
<1>5. /\ nodes \in 0..MaxNodes /\ unclaimed \in 0..MaxNodes /\ curr \in BlockIds
  BY <1>1 DEF BlockIds
<1>6. assigned \subseteq 0..next_slot - 1 /\ funcs \in 1..MaxFunctions
  BY DEF IInv
<1>7. foreign \in BOOLEAN
  BY Zenon DEF IInv
<1> QED
  BY <1>1, <1>2, <1>3, <1>4, <1>5, <1>6, <1>7, Zenon DEF TypeOK

\* The builder's state is of its types whatever is compiled.
THEOREM TypeCorrect == Spec => []TypeOK
BY InductiveInvariant, IInvTypes, PTL

\* Between statements val_stack holds the values nobody has claimed and
\* nothing else, however deep the expressions and the blocks were.
THEOREM StatementsAreBalanced == Spec => []StatementsBalanceTheStack
<1>1. IInv => StatementsBalanceTheStack
  BY OnStatement DEF StatementsBalanceTheStack
<1> QED
  BY <1>1, InductiveInvariant, PTL
-----------------------------------------------------------------------------
\* The blocks a frame is going to fill: all its targets but the header of a
\* loop, which is filled first.
Heads    == {"while", "loop_block"}
Fills(f) == {f.to[k] : k \in {l \in 1..Len(f.to) : f.at \in Heads => l # 1}}

\* Nobody has touched the blocks of A, nor is about to.
Untouched(bs, c, A) == \A b \in A : b \in 1..Len(bs) /\ b # c /\ bs[b] = NewBlock

FrameWaits(bs, c, f) ==
  /\ Untouched(bs, c, Fills(f))
  /\ f.at = "then_block" /\ Len(f.to) = 2 => f.to[1] # f.to[2]
  /\ f.at = "while" => f.to[2] # f.to[3]
  /\ f.at = "while" => (Open(bs, f.to[1]) => f.to[1] = c)
  /\ f.at = "loop_block" => ~Open(bs, f.to[1])

\* While block c is being filled and those of A and of the frames of w are
\* waiting for it, each for its own.
ControlOK(bs, c, w, A) ==
  /\ bs[c].term.to = <<>>
  /\ Untouched(bs, c, A)
  /\ \A k \in 1..Len(w) : FrameWaits(bs, c, w[k]) /\ Fills(w[k]) \cap A = {}
  /\ \A k, l \in 1..Len(w) : k # l => Fills(w[k]) \cap Fills(w[l]) = {}
  /\ \A b \in 1..Len(bs) :
       Open(bs, b) => b = c \/ b \in A \/ \E k \in 1..Len(w) : b \in Fills(w[k])

Control == IF Running THEN ControlOK(blocks, curr, walk, {})
           ELSE \A b \in 1..Len(blocks) : ~Open(blocks, b)
-----------------------------------------------------------------------------
\* What the frames of each shape fill.
LEMMA FillsIs ==
  ASSUME NEW f
  PROVE  /\ Len(f.to) = 0 => Fills(f) = {}
         /\ Len(f.to) = 1 /\ f.at \notin Heads => Fills(f) = {f.to[1]}
         /\ Len(f.to) = 2 /\ f.at \notin Heads => Fills(f) = {f.to[1], f.to[2]}
         /\ Len(f.to) = 2 /\ f.at \in Heads => Fills(f) = {f.to[2]}
         /\ Len(f.to) = 3 /\ f.at \in Heads => Fills(f) = {f.to[2], f.to[3]}
<1>1. CASE f.at \notin Heads
  <2>1. Fills(f) = {f.to[k] : k \in 1..Len(f.to)}
    BY <1>1 DEF Fills
  <2> QED
    BY <1>1, <2>1
<1>2. CASE f.at \in Heads
  <2>1. Fills(f) = {f.to[k] : k \in {l \in 1..Len(f.to) : l # 1}}
    BY <1>2 DEF Fills
  <2>2. Len(f.to) = 2 => {l \in 1..Len(f.to) : l # 1} = {2}
    OBVIOUS
  <2>3. Len(f.to) = 3 => {l \in 1..Len(f.to) : l # 1} = {2, 3}
    OBVIOUS
  <2>4. Len(f.to) = 0 => {l \in 1..Len(f.to) : l # 1} = {}
    OBVIOUS
  <2> QED
    BY <1>2, <2>1, <2>2, <2>3, <2>4
<1> QED
  BY <1>1, <1>2

\* A frame that waits for nothing.
Quiet(f) == f.to = <<>> /\ f.at \notin Heads

LEMMA QuietIs ==
  ASSUME NEW bs, NEW c, NEW f, Quiet(f)
  PROVE  Fills(f) = {} /\ FrameWaits(bs, c, f)
<1>1. f.to = <<>> /\ f.at # "while" /\ f.at # "loop_block"
  BY DEF Quiet, Heads
<1>2. Len(f.to) = 0
  BY <1>1
<1>3. Fills(f) = {}
  BY <1>2, FillsIs
<1> QED
  BY <1>1, <1>2, <1>3 DEF FrameWaits, Untouched

\* The frames of a walk that keep their header have one.
LEMMA HeadersAre ==
  ASSUME NEW u, NEW slots, NEW n, NEW w, WalkOK(w, u, slots, n), NEW k \in 1..Len(w)
  PROVE  /\ Fills(w[k]) \subseteq 1..n
         /\ w[k].at \in Heads => w[k].to[1] \in 1..n
<1>1. FrameOK(w[k], u, slots, n)
  BY DEF WalkOK
<1>2. \A l \in 1..Len(w[k].to) : w[k].to[l] \in 1..n
  BY <1>1 DEF FrameOK
<1>3. w[k].at \in Heads => 1 \in 1..Len(w[k].to)
  BY <1>1 DEF FrameOK, Targets, Heads
<1> QED
  BY <1>2, <1>3 DEF Fills

\* The frame on top waits for blocks of its own.
LEMMA ControlPop ==
  ASSUME NEW bs, NEW c, NEW w \in Seq(Frames), w # <<>>, NEW A, ControlOK(bs, c, w, A)
  PROVE  /\ FrameWaits(bs, c, Last(w)) /\ Fills(Last(w)) \cap A = {}
         /\ ControlOK(bs, c, Butlast(w), A \cup Fills(Last(w)))
<1> DEFINE v == Butlast(w)
           f == w[Len(w)]
<1>1. /\ Len(w) \in 1..Len(w) /\ Len(v) = Len(w) - 1 /\ Len(w) \in Nat
      /\ \A k \in 1..Len(v) : k \in 1..Len(w) /\ k # Len(w) /\ v[k] = w[k]
  BY ButlastIs
<1> HIDE DEF v
<1>2. FrameWaits(bs, c, f) /\ Fills(f) \cap A = {}
  BY <1>1 DEF ControlOK
<1>3. Untouched(bs, c, A \cup Fills(f))
  BY <1>2 DEF ControlOK, FrameWaits, Untouched
<1>4. ASSUME NEW k \in 1..Len(v)
      PROVE  FrameWaits(bs, c, v[k]) /\ Fills(v[k]) \cap (A \cup Fills(f)) = {}
  <2>1. FrameWaits(bs, c, w[k]) /\ Fills(w[k]) \cap A = {} /\ Fills(w[k]) \cap Fills(f) = {}
    BY <1>1 DEF ControlOK
  <2> QED
    BY <1>1, <2>1
<1>5. \A k, l \in 1..Len(v) : k # l => Fills(v[k]) \cap Fills(v[l]) = {}
  BY <1>1 DEF ControlOK
<1>6. ASSUME NEW b \in 1..Len(bs), Open(bs, b)
      PROVE  b = c \/ b \in A \cup Fills(f) \/ \E k \in 1..Len(v) : b \in Fills(v[k])
  <2>1. CASE b = c \/ b \in A
    BY <2>1
  <2>2. ASSUME NEW k \in 1..Len(w), b \in Fills(w[k])
        PROVE  b \in Fills(f) \/ \E l \in 1..Len(v) : b \in Fills(v[l])
    <3>1. k = Len(w) \/ k \in 1..Len(v)
      BY <1>1
    <3> QED
      BY <1>1, <2>2, <3>1
  <2> QED
    BY <1>6, <2>1, <2>2 DEF ControlOK
<1>7. bs[c].term.to = <<>>
  BY DEF ControlOK
<1>8. ControlOK(bs, c, v, A \cup Fills(f))
  BY <1>3, <1>4, <1>5, <1>6, <1>7 DEF ControlOK
<1> QED
  BY <1>2, <1>8 DEF Last, v

LEMMA ControlPush ==
  ASSUME NEW bs, NEW c, NEW w \in Seq(Frames), NEW f \in Frames, NEW A,
         Fills(f) \cap A = {}, FrameWaits(bs, c, f), ControlOK(bs, c, w, A \cup Fills(f))
  PROVE  ControlOK(bs, c, Append(w, f), A)
<1> DEFINE v == Append(w, f)
<1>1. /\ Len(w) \in Nat /\ Len(v) = Len(w) + 1 /\ v[Len(w) + 1] = f
      /\ \A k \in 1..Len(v) : k # Len(w) + 1 => k \in 1..Len(w) /\ v[k] = w[k]
      /\ \A k \in 1..Len(w) : k \in 1..Len(v) /\ v[k] = w[k]
  BY AppendIs
<1> HIDE DEF v
<1>2. Untouched(bs, c, A)
  BY DEF ControlOK, Untouched
<1>3. ASSUME NEW k \in 1..Len(w)
      PROVE  FrameWaits(bs, c, w[k]) /\ Fills(w[k]) \cap A = {} /\ Fills(w[k]) \cap Fills(f) = {}
  <2>1. FrameWaits(bs, c, w[k]) /\ Fills(w[k]) \cap (A \cup Fills(f)) = {}
    BY DEF ControlOK
  <2> QED
    BY <2>1
<1>4. ASSUME NEW k \in 1..Len(v)
      PROVE  FrameWaits(bs, c, v[k]) /\ Fills(v[k]) \cap A = {}
  BY <1>1, <1>3
<1>5. ASSUME NEW k \in 1..Len(v), NEW l \in 1..Len(v), k # l
      PROVE  Fills(v[k]) \cap Fills(v[l]) = {}
  <2>1. CASE k = Len(w) + 1
    BY <1>1, <1>3, <1>5, <2>1
  <2>2. CASE l = Len(w) + 1
    BY <1>1, <1>3, <1>5, <2>2
  <2>3. CASE k # Len(w) + 1 /\ l # Len(w) + 1
    BY <1>1, <1>5, <2>3 DEF ControlOK
  <2> QED
    BY <2>1, <2>2, <2>3
<1>6. ASSUME NEW b \in 1..Len(bs), Open(bs, b)
      PROVE  b = c \/ b \in A \/ \E k \in 1..Len(v) : b \in Fills(v[k])
  <2>1. b = c \/ b \in A \cup Fills(f) \/ \E k \in 1..Len(w) : b \in Fills(w[k])
    BY <1>6 DEF ControlOK
  <2>2. Len(w) + 1 \in 1..Len(v)
    BY <1>1
  <2>3. CASE b \in Fills(f)
    BY <1>1, <2>2, <2>3
  <2> QED
    BY <1>1, <2>1, <2>3
<1>7. bs[c].term.to = <<>>
  BY DEF ControlOK
<1>8. ControlOK(bs, c, v, A)
  BY <1>2, <1>4, <1>5, <1>6, <1>7 DEF ControlOK
<1> QED
  BY <1>8 DEF v

\* A quiet frame comes or goes.
LEMMA ControlQuiet ==
  ASSUME NEW bs, NEW c, NEW A
  PROVE  /\ \A w \in Seq(Frames) :
              w # <<>> /\ Quiet(Last(w)) /\ ControlOK(bs, c, w, A)
              => ControlOK(bs, c, Butlast(w), A)
         /\ \A w \in Seq(Frames), f \in Frames :
              Quiet(f) /\ ControlOK(bs, c, w, A) => ControlOK(bs, c, Append(w, f), A)
<1>1. ASSUME NEW w \in Seq(Frames), w # <<>>, Quiet(Last(w)), ControlOK(bs, c, w, A)
      PROVE  ControlOK(bs, c, Butlast(w), A)
  <2>1. A \cup Fills(Last(w)) = A
    BY <1>1, QuietIs
  <2>2. ControlOK(bs, c, Butlast(w), A \cup Fills(Last(w)))
    BY <1>1, ControlPop
  <2> QED
    BY <2>1, <2>2
<1>2. ASSUME NEW w \in Seq(Frames), NEW f \in Frames, Quiet(f), ControlOK(bs, c, w, A)
      PROVE  ControlOK(bs, c, Append(w, f), A)
  <2>1. A \cup Fills(f) = A /\ Fills(f) \cap A = {} /\ FrameWaits(bs, c, f)
    BY <1>2, QuietIs
  <2>2. ControlOK(bs, c, w, A \cup Fills(f))
    BY <1>2, <2>1
  <2> QED
    BY <2>1, <2>2, ControlPush
<1> QED
  BY <1>1, <1>2

\* What the frames have in sight and where their operands begin is nothing to
\* the blocks.
LEMMA ControlSame ==
  ASSUME NEW bs, NEW c, NEW w, NEW v, NEW A, ControlOK(bs, c, w, A), Len(v) = Len(w),
         \A k \in 1..Len(w) : v[k].at = w[k].at /\ v[k].to = w[k].to
  PROVE  ControlOK(bs, c, v, A)
<1>1. \A k \in 1..Len(v) : Fills(v[k]) = Fills(w[k])
  BY DEF Fills
<1>2. \A k \in 1..Len(v) : FrameWaits(bs, c, w[k]) => FrameWaits(bs, c, v[k])
  BY <1>1 DEF FrameWaits
<1> QED
  BY <1>1, <1>2 DEF ControlOK

\* Blocks that control has left by a jump or a branch are as they were.
Left(bs, new) == \A b \in 1..Len(bs) : bs[b].term.to # <<>> => new[b] = bs[b]

\* Something happens in the block that is being filled.
LEMMA ControlStay ==
  ASSUME NEW bs, NEW n \in Nat, Len(bs) = n, NEW new, Len(new) = n, NEW c \in 1..n,
         NEW u, NEW slots, NEW w, WalkOK(w, u, slots, n), NEW A, ControlOK(bs, c, w, A),
         \A b \in 1..n : b # c => new[b] = bs[b],
         new[c].term.to = <<>>, Open(new, c) => Open(bs, c)
  PROVE  ControlOK(new, c, w, A) /\ Left(bs, new)
<1>1. \A b \in 1..n : Open(new, b) => Open(bs, b)
  BY DEF Open
<1>2. \A B : Untouched(bs, c, B) => Untouched(new, c, B)
  BY DEF Untouched
<1>3. ASSUME NEW k \in 1..Len(w) PROVE FrameWaits(new, c, w[k])
  <2>1. w[k].at = "while" \/ w[k].at = "loop_block" => w[k].to[1] \in 1..n
    BY HeadersAre DEF Heads
  <2>2. FrameWaits(bs, c, w[k])
    BY DEF ControlOK
  <2> QED
    BY <1>1, <1>2, <2>1, <2>2 DEF FrameWaits
<1>4. ControlOK(new, c, w, A)
  BY <1>1, <1>2, <1>3 DEF ControlOK
<1>5. bs[c].term.to = <<>>
  BY DEF ControlOK
<1> QED
  BY <1>4, <1>5 DEF Left

\* Block c gets its terminator, new blocks are created, and another one of
\* those that wait is filled from now on.
Moves(bs, c, A, new, d) ==
  /\ Len(bs) \in Nat /\ Len(new) \in Nat /\ Len(new) >= Len(bs)
  /\ c \in 1..Len(bs) /\ d \in 1..Len(new) /\ d # c
  /\ d \in 1..Len(bs) => d \in A
  /\ \A b \in 1..Len(bs) : b # c /\ b # d => new[b] = bs[b]
  /\ \A b \in Len(bs) + 1..Len(new) : b # d => new[b] = NewBlock
  /\ ~Open(new, c) /\ new[d].term.to = <<>>

Remain(bs, A, new, d) == (A \cup (Len(bs) + 1..Len(new))) \ {d}

LEMMA ControlMove ==
  ASSUME NEW bs, NEW c, NEW A, NEW new, NEW d, Moves(bs, c, A, new, d),
         NEW u, NEW slots, NEW w, WalkOK(w, u, slots, Len(bs)), ControlOK(bs, c, w, A)
  PROVE  ControlOK(new, d, w, Remain(bs, A, new, d)) /\ Left(bs, new)
<1> DEFINE n == Len(bs)
           m == Len(new)
<1>0. /\ n \in Nat /\ m \in Nat /\ m >= n /\ Len(bs) = n /\ Len(new) = m
      /\ c \in 1..n /\ d \in 1..m /\ d # c
      /\ d \in 1..n => d \in A
      /\ \A b \in 1..n : b # c /\ b # d => new[b] = bs[b]
      /\ \A b \in n + 1..m : b # d => new[b] = NewBlock
      /\ ~Open(new, c) /\ new[d].term.to = <<>> /\ WalkOK(w, u, slots, n)
  BY DEF Moves
<1> HIDE DEF n, m
<1> DEFINE B == (A \cup (n + 1..m)) \ {d}
<1>1. \A b \in 1..n : b # d /\ Open(new, b) => Open(bs, b) /\ b # c
  BY <1>0 DEF Open
<1>2. /\ \A b \in A : b \in 1..n /\ b # c /\ bs[b] = NewBlock
      /\ bs[c].term.to = <<>>
  BY <1>0 DEF ControlOK, Untouched
<1>3. d \in 1..n => Open(bs, d)
  BY <1>0, <1>2, NewBlockIs DEF Open
<1>4. Untouched(new, d, B)
  <2> SUFFICES ASSUME NEW b \in B PROVE b \in 1..m /\ b # d /\ new[b] = NewBlock
    BY <1>0 DEF Untouched
  <2>1. CASE b \in A
    BY <1>0, <1>2, <2>1
  <2>2. CASE b \in n + 1..m
    BY <1>0, <2>2
  <2> QED
    BY <2>1, <2>2
<1>5. ASSUME NEW k \in 1..Len(w)
      PROVE  /\ Fills(w[k]) \subseteq 1..n /\ d \notin Fills(w[k]) /\ Fills(w[k]) \cap B = {}
             /\ Untouched(new, d, Fills(w[k]))
  <2>1. /\ Fills(w[k]) \subseteq 1..n /\ Fills(w[k]) \cap A = {}
        /\ Untouched(bs, c, Fills(w[k]))
    BY <1>0, HeadersAre DEF ControlOK, FrameWaits
  <2>2. d \notin Fills(w[k])
    BY <1>0, <2>1
  <2>3. Fills(w[k]) \cap B = {}
    BY <1>0, <2>1
  <2>4. \A b \in Fills(w[k]) : b \in 1..m /\ b # d /\ new[b] = NewBlock
    BY <1>0, <2>1, <2>2 DEF Untouched
  <2> QED
    BY <1>0, <2>1, <2>2, <2>3, <2>4 DEF Untouched
<1>6. ASSUME NEW k \in 1..Len(w) PROVE FrameWaits(new, d, w[k])
  <2>1. w[k].at = "while" \/ w[k].at = "loop_block" => w[k].to[1] \in 1..n
    BY <1>0, HeadersAre DEF Heads
  <2>2. FrameWaits(bs, c, w[k])
    BY DEF ControlOK
  <2>3. w[k].at = "while" => (Open(new, w[k].to[1]) => w[k].to[1] = d)
    BY <1>0, <1>1, <2>1, <2>2 DEF FrameWaits
  <2>4. w[k].at = "loop_block" => ~Open(new, w[k].to[1])
    BY <1>0, <1>1, <1>3, <2>1, <2>2 DEF FrameWaits
  <2> QED
    BY <1>5, <2>2, <2>3, <2>4 DEF FrameWaits
<1>7. ASSUME NEW b \in 1..m, Open(new, b)
      PROVE  b = d \/ b \in B \/ \E k \in 1..Len(w) : b \in Fills(w[k])
  <2>1. CASE b \in n + 1..m
    BY <1>0, <2>1
  <2>2. CASE b \in 1..n /\ b # d
    <3>1. Open(bs, b) /\ b # c
      BY <1>1, <1>7, <2>2
    <3>2. b \in A \/ \E k \in 1..Len(w) : b \in Fills(w[k])
      BY <1>0, <2>2, <3>1 DEF ControlOK
    <3> QED
      BY <2>2, <3>2
  <2> QED
    BY <1>0, <2>1, <2>2
<1>8. \A k, l \in 1..Len(w) : k # l => Fills(w[k]) \cap Fills(w[l]) = {}
  BY DEF ControlOK
<1> HIDE DEF B
<1>9. ControlOK(new, d, w, B)
  BY <1>0, <1>4, <1>5, <1>6, <1>7, <1>8 DEF ControlOK
<1>10. Left(bs, new)
  <2> SUFFICES ASSUME NEW b \in 1..n, bs[b].term.to # <<>> PROVE new[b] = bs[b]
    BY <1>0 DEF Left
  <2>1. b # c
    BY <1>2
  <2>2. b = d => bs[b].term.to = <<>>
    BY <1>0, <1>2, NewBlockIs
  <2> QED
    BY <1>0, <2>1, <2>2
<1> QED
  BY <1>9, <1>10 DEF B, Remain, n, m
-----------------------------------------------------------------------------
LEMMA QuietFrame ==
  ASSUME NEW u, NEW slots, NEW n, NEW f \in Frames, FrameOK(f, u, slots, n),
         f.at \notin Heads \cup {"then_block", "else_block", "rhs"}
  PROVE  Quiet(f)
<1>1. Len(f.to) = 0
  BY DEF FrameOK, Targets, Heads
<1>2. f.to \in Seq(Nat)
  BY DEF Frames
<1>3. f.to = <<>>
  BY <1>1, <1>2
<1> QED
  BY <1>3 DEF Quiet

LEMMA WhileRunning ==
  ASSUME IInv, Running, Control
  PROVE  /\ Len(blocks) \in Nat /\ curr \in 1..Len(blocks) /\ blocks \in Seq(BlockRecs)
         /\ WalkOK(walk, unclaimed, next_slot, Len(blocks)) /\ ControlOK(blocks, curr, walk, {})
         /\ BlocksOK(blocks, next_temp, next_slot)
         /\ walk # <<>> /\ walk \in Seq(Frames)
<1>1. /\ Len(blocks) \in Nat /\ curr \in 1..Len(blocks)
      /\ Shape(walk, Height, unclaimed, nodes, next_slot, Len(blocks))
      /\ BlocksOK(blocks, next_temp, next_slot)
  BY ShapeIs
<1>2. blocks \in Seq(BlockRecs)
  BY <1>1 DEF BlocksOK
<1>3. WalkOK(walk, unclaimed, next_slot, Len(blocks)) /\ walk \in Seq(Frames)
  BY <1>1 DEF Shape, WalkOK
<1>4. ControlOK(blocks, curr, walk, {}) /\ walk # <<>>
  BY DEF Control, Running
<1> QED
  BY <1>1, <1>2, <1>3, <1>4

\* Instructions are appended to the block that is being filled,
LEMMA ControlEmits ==
  ASSUME IInv, Running, Control, NEW insts \in Seq(InstRecs)
  PROVE  /\ ControlOK(Emit(blocks, curr, insts), curr, walk, {})
         /\ Left(blocks, Emit(blocks, curr, insts))
<1> DEFINE new == Emit(blocks, curr, insts)
<1>1. /\ Len(blocks) \in Nat /\ curr \in 1..Len(blocks) /\ blocks \in Seq(BlockRecs)
      /\ WalkOK(walk, unclaimed, next_slot, Len(blocks)) /\ ControlOK(blocks, curr, walk, {})
  BY WhileRunning
<1>2. /\ Len(new) = Len(blocks)
      /\ \A c \in 1..Len(blocks) : /\ new[c].term = blocks[c].term
                                   /\ c # curr => new[c] = blocks[c]
  BY <1>1, EmitIs
<1> HIDE DEF new
<1>3. new[curr].term.to = <<>> /\ (Open(new, curr) => Open(blocks, curr))
  BY <1>1, <1>2 DEF ControlOK, Open
<1>4. ControlOK(new, curr, walk, {}) /\ Left(blocks, new)
  BY <1>1, <1>2, <1>3, ControlStay
<1> QED
  BY <1>4 DEF new

\* or it ends in a return.
LEMMA ControlHalts ==
  ASSUME IInv, Running, Control, NEW t \in TermRecs, t.to = <<>>, t # Undefined
  PROVE  /\ ControlOK(Terminate(blocks, curr, t), curr, walk, {})
         /\ Left(blocks, Terminate(blocks, curr, t))
<1> DEFINE new == Terminate(blocks, curr, t)
<1>1. /\ Len(blocks) \in Nat /\ curr \in 1..Len(blocks) /\ blocks \in Seq(BlockRecs)
      /\ WalkOK(walk, unclaimed, next_slot, Len(blocks)) /\ ControlOK(blocks, curr, walk, {})
  BY WhileRunning
<1>2. /\ Len(new) = Len(blocks) /\ new[curr].term = t
      /\ \A c \in 1..Len(blocks) : c # curr => new[c] = blocks[c]
  <2>1. /\ blocks \in Seq(BlockRecs) /\ curr \in 1..Len(blocks)
    BY <1>1
  <2> QED
    BY <2>1, TerminateIs
<1> HIDE DEF new
<1>3. new[curr].term.to = <<>> /\ ~Open(new, curr)
  BY <1>2 DEF Open
<1>4. ControlOK(new, curr, walk, {}) /\ Left(blocks, new)
  BY <1>1, <1>2, <1>3, ControlStay
<1> QED
  BY <1>4 DEF new

\* What a step has to establish while a function is being walked.
Controls == Control' /\ Left(blocks, blocks')

LEMMA EvalControl ==
  ASSUME IInv, Running, Control, NEW n, NEW v, NEW insts, Eval(n, v, insts)
  PROVE  Controls
<1>1. insts \in Seq(InstRecs)
  BY EvalStack
<1>2. blocks' = Emit(blocks, curr, insts) /\ curr' = curr /\ walk' = walk
  BY Zenon DEF Eval
<1>3. ControlOK(blocks', curr, walk, {}) /\ Left(blocks, blocks')
  BY <1>1, <1>2, ControlEmits
<1> QED
  BY <1>2, <1>3 DEF Controls, Control, Running

\* Nodes that are entered without a block being created.
LEMMA EnterControl ==
  ASSUME IInv, Running, Control, blocks' = blocks, curr' = curr,
         NEW f \in Frames, Quiet(f), walk' = Append(walk, f)
  PROVE  Controls
<1>1. walk \in Seq(Frames) /\ ControlOK(blocks, curr, walk, {}) /\ walk' # <<>>
  BY ShapeIs DEF Control, Running
<1>2. ControlOK(blocks, curr, Append(walk, f), {})
  BY <1>1, ControlQuiet
<1>3. Left(blocks, blocks)
  BY DEF Left
<1> QED
  BY <1>1, <1>2, <1>3 DEF Controls, Control, Running

LEMMA BeginLogOpControl ==
  ASSUME IInv, Running, Control, NEW at \in {"and_lhs", "or_lhs"}, BeginLogOp(at)
  PROVE  Controls
<1> DEFINE f == Frame(at, Height, next_slot, <<>>, Top.scope)
<1>1. InExpr /\ blocks' = blocks /\ curr' = curr /\ walk' = Append(walk, f)
  BY DEF BeginLogOp, Push
<1>2. f \in Frames /\ Quiet(f)
  <2>1. Top \in Frames /\ Height \in Nat /\ next_slot \in Nat
    BY <1>1, InExpression, ShapeIs
  <2>2. Top.scope \in SUBSET Nat /\ at \in Ats
    BY <2>1 DEF Frames, Ats, LogFrames
  <2> QED
    BY <2>1, <2>2 DEF Frame, Frames, Quiet, Heads
<1> QED
  BY <1>1, <1>2, EnterControl

LEMMA BeginStmtControl ==
  ASSUME IInv, Running, Control, NEW node, NEW at \in HeadFrames \ {"while"},
         NEW slot \in {NoSlot} \cup Nat, NEW n, BeginStmt(node, at, slot, n)
  PROVE  Controls
<1> DEFINE f == Frame(at, Height, slot, <<>>, Top.scope)
<1>1. InStmts /\ blocks' = blocks /\ curr' = curr /\ walk' = Append(walk, f)
  BY DEF BeginStmt, Push
<1>2. f \in Frames /\ Quiet(f)
  <2>1. Top \in Frames /\ Height \in Nat
    BY <1>1, OnStatement, ShapeIs
  <2>2. Top.scope \in SUBSET Nat /\ at \in Ats
    BY <2>1 DEF Frames, Ats
  <2> QED
    BY <2>1, <2>2 DEF Frame, Frames, Quiet, Heads, HeadFrames
<1> QED
  BY <1>1, <1>2, EnterControl

LEMMA BeginSimpleControl ==
  ASSUME IInv, Running, Control, BeginSimple
  PROVE  Controls
<1>1. CASE BeginStmt("AST_VAR_DEC", "var_dec", NoSlot, 1)
  BY <1>1, BeginStmtControl DEF HeadFrames
<1>2. ASSUME InStmts, NEW s \in Assignable, BeginStmt("AST_ASSN", "assn", s, 1)
      PROVE  Controls
  <2>1. Top \in Frames
    BY <1>2, OnStatement
  <2>2. s \in {NoSlot} \cup Nat /\ "assn" \in HeadFrames \ {"while"}
    BY <2>1 DEF Frames, Assignable, HeadFrames
  <2> QED
    BY <1>2, <2>2, BeginStmtControl
<1>3. CASE BeginStmt("AST_EXIT", "exit", NoSlot, 1)
  BY <1>3, BeginStmtControl DEF HeadFrames
<1>4. ASSUME NEW k \in Arities \cap 0..1, BeginStmt("call statement", "call_stmt", k, k)
      PROVE  Controls
  <2>1. k \in {NoSlot} \cup Nat /\ "call_stmt" \in HeadFrames \ {"while"}
    BY DEF HeadFrames
  <2> QED
    BY <1>4, <2>1, BeginStmtControl
<1>5. CASE BeginStmt("AST_IF", "if", NoSlot, 1)
  BY <1>5, BeginStmtControl DEF HeadFrames
<1> QED
  BY <1>1, <1>2, <1>3, <1>4, <1>5 DEF BeginSimple

LEMMA BeginBlockControl ==
  ASSUME IInv, Running, Control, BeginBlock
  PROVE  Controls
<1> DEFINE f == Frame("block", Height, NoSlot, <<>>, Top.scope)
<1>1. InStmts /\ blocks' = blocks /\ curr' = curr /\ walk' = Append(walk, f)
  BY DEF BeginBlock, Push
<1>2. f \in Frames /\ Quiet(f)
  <2>1. Top \in Frames /\ Height \in Nat
    BY <1>1, OnStatement, ShapeIs
  <2>2. Top.scope \in SUBSET Nat /\ "block" \in Ats
    BY <2>1 DEF Frames, Ats, StmtFrames
  <2> QED
    BY <2>1, <2>2 DEF Frame, Frames, Quiet, Heads
<1> QED
  BY <1>1, <1>2, EnterControl

\* Statements that end without a block being created: the walk goes back to the
\* list they are in, or stays there.
LEMMA LeaveControl ==
  ASSUME IInv, Running, Control, Quiet(Top),
         ControlOK(blocks', curr, walk, {}), Left(blocks, blocks'), curr' = curr,
         NEW v, v = Butlast(walk), v # <<>>, NEW w, Len(w) = Len(v),
         \A k \in 1..Len(v) : w[k].at = v[k].at /\ w[k].to = v[k].to, walk' = w, w # <<>>
  PROVE  Controls
<1>1. walk \in Seq(Frames) /\ walk # <<>> /\ Top = Last(walk)
  BY WhileRunning DEF Top
<1>2. ControlOK(blocks', curr, v, {})
  BY <1>1, ControlQuiet
<1>3. ControlOK(blocks', curr, w, {})
  BY <1>2, ControlSame
<1> QED
  BY <1>3 DEF Controls, Control, Running

\* The frames of statements without blocks are quiet.
LEMMA QuietHead ==
  ASSUME IInv, ExprDone, Top.at \in HeadFrames \ {"while"}
  PROVE  Quiet(Top)
<1>1. Top \in Frames /\ FrameOK(Top, unclaimed, next_slot, Len(blocks))
  BY OnValue
<1>2. Top.at \notin Heads \cup {"then_block", "else_block", "rhs"}
  BY DEF HeadFrames, Heads
<1> QED
  BY <1>1, <1>2, QuietFrame

LEMMA DeclareKeeps ==
  ASSUME NEW slots, NEW w \in Seq(Frames), w # <<>>, NEW v, v = Declare(w, slots)
  PROVE  /\ v # <<>> /\ Len(v) = Len(w)
         /\ \A k \in 1..Len(w) : v[k].at = w[k].at /\ v[k].to = w[k].to
<1> DEFINE f == [w[Len(w)] EXCEPT !.scope = @ \cup {slots}]
<1>1. Len(w) \in 1..Len(w) /\ w[Len(w)] \in Frames
  OBVIOUS
<1>2. f.at = w[Len(w)].at /\ f.to = w[Len(w)].to
  BY <1>1 DEF Frames
<1>3. v = [w EXCEPT ![Len(w)] = f]
  BY DEF Declare
<1> HIDE DEF f
<1>4. Len(v) = Len(w) /\ \A k \in 1..Len(w) : v[k] = IF k = Len(w) THEN f ELSE w[k]
  BY <1>1, <1>3
<1> QED
  BY <1>1, <1>2, <1>4

LEMMA VarDecControl ==
  ASSUME IInv, Running, Control, VarDec
  PROVE  Controls
<1> DEFINE i == <<Store(next_slot, Last(val_stack))>>
           v == Butlast(walk)
<1>1. /\ ExprDone /\ Top.at = "var_dec" /\ blocks' = Emit(blocks, curr, i)
      /\ walk' = Declare(Pop(walk, 1), next_slot) /\ curr' = curr
  BY DEF VarDec
<1>2. /\ Last(val_stack) \in Values
      /\ Pop(walk, 1) = v /\ v # <<>> /\ Last(v).at \in StmtFrames
      /\ WalkOK(v, unclaimed, next_slot, Len(blocks))
  BY <1>1, OnHeadValue DEF HeadFrames
<1>3. next_slot \in Nat /\ next_temp \in Nat
  BY ShapeIs
<1>4. i \in Seq(InstRecs)
  BY <1>2, <1>3, InstsAre
<1> HIDE DEF i, v
<1>5. ControlOK(blocks', curr, walk, {}) /\ Left(blocks, blocks')
  BY <1>1, <1>4, ControlEmits
<1>6. Quiet(Top)
  BY <1>1, QuietHead DEF HeadFrames
<1>7. walk' = Declare(v, next_slot) /\ v = Butlast(walk)
  BY <1>1, <1>2 DEF v
<1>8. /\ walk' # <<>> /\ Len(walk') = Len(v)
      /\ \A k \in 1..Len(v) : walk'[k].at = v[k].at /\ walk'[k].to = v[k].to
  <2>1. v \in Seq(Frames)
    BY <1>2 DEF WalkOK
  <2> QED
    BY <1>2, <1>7, <2>1, DeclareKeeps
<1> QED
  BY <1>1, <1>2, <1>5, <1>6, <1>7, <1>8, LeaveControl

LEMMA BareVarDecControl ==
  ASSUME IInv, Running, Control, BareVarDec
  PROVE  Controls
<1>1. /\ InStmts /\ curr' = curr /\ walk' = Declare(walk, next_slot)
      /\ IF val_stack = <<>> THEN blocks' = blocks
         ELSE blocks' = Emit(blocks, curr, <<Store(next_slot, Last(val_stack))>>)
  BY DEF BareVarDec
<1>2. next_slot \in Nat /\ next_temp \in Nat /\ val_stack \in Seq(Values)
  BY ShapeIs DEF IInv
<1>3. ControlOK(blocks', curr, walk, {}) /\ Left(blocks, blocks')
  <2>1. CASE val_stack = <<>>
    BY <1>1, <2>1, WhileRunning DEF Left
  <2>2. CASE val_stack # <<>>
    <3>1. Last(val_stack) \in Values
      BY <1>2, <2>2 DEF Last
    <3>2. <<Store(next_slot, Last(val_stack))>> \in Seq(InstRecs)
      BY <1>2, <3>1, InstsAre
    <3> QED
      BY <1>1, <2>2, <3>2, ControlEmits
  <2> QED
    BY <2>1, <2>2
<1>4. walk # <<>> /\ Last(walk).at \in StmtFrames
      /\ WalkOK(walk, unclaimed, next_slot, Len(blocks))
  BY <1>1, OnStatement DEF Top
<1>5. /\ walk' # <<>> /\ Len(walk') = Len(walk)
      /\ \A k \in 1..Len(walk) : walk'[k].at = walk[k].at /\ walk'[k].to = walk[k].to
  <2>1. walk \in Seq(Frames)
    BY <1>4 DEF WalkOK
  <2> QED
    BY <1>1, <1>4, <2>1, DeclareKeeps
<1>6. ControlOK(blocks', curr, walk', {})
  BY <1>3, <1>5, ControlSame
<1> QED
  BY <1>1, <1>3, <1>5, <1>6 DEF Controls, Control, Running

LEMMA AssnControl ==
  ASSUME IInv, Running, Control, Assn
  PROVE  Controls
<1> DEFINE i == <<Store(Top.slot, Last(val_stack))>>
           v == Butlast(walk)
<1>1. /\ ExprDone /\ Top.at = "assn" /\ blocks' = Emit(blocks, curr, i)
      /\ walk' = Pop(walk, 1) /\ curr' = curr
  BY DEF Assn
<1>2. /\ Last(val_stack) \in Values
      /\ Pop(walk, 1) = v /\ v # <<>>
      /\ FrameOK(Top, unclaimed, next_slot, Len(blocks))
  BY <1>1, OnHeadValue DEF HeadFrames
<1>3. next_slot \in Nat /\ next_temp \in Nat /\ Top.slot \in Nat
  BY <1>1, <1>2, ShapeIs DEF FrameOK
<1>4. i \in Seq(InstRecs)
  BY <1>2, <1>3, InstsAre
<1> HIDE DEF i
<1>5. ControlOK(blocks', curr, walk, {}) /\ Left(blocks, blocks')
  BY <1>1, <1>4, ControlEmits
<1>6. Quiet(Top)
  BY <1>1, QuietHead DEF HeadFrames
<1> QED
  BY <1>1, <1>2, <1>5, <1>6, LeaveControl

LEMMA ExitControl ==
  ASSUME IInv, Running, Control, Exit \/ BareExit
  PROVE  Controls
<1>1. CASE Exit
  <2> DEFINE t == Halt(<<Last(val_stack)>>)
             v == Butlast(walk)
  <2>1. /\ ExprDone /\ Top.at = "exit" /\ blocks' = Terminate(blocks, curr, t)
        /\ walk' = Pop(walk, 1) /\ curr' = curr
    BY <1>1 DEF Exit
  <2>2. Last(val_stack) \in Values /\ Pop(walk, 1) = v /\ v # <<>>
    BY <2>1, OnHeadValue DEF HeadFrames
  <2>3. t \in TermRecs /\ t.to = <<>> /\ t # Undefined
    BY <2>2, TermsAre
  <2> HIDE DEF t
  <2>4. ControlOK(blocks', curr, walk, {}) /\ Left(blocks, blocks')
    BY <2>1, <2>3, ControlHalts
  <2>5. Quiet(Top)
    BY <2>1, QuietHead DEF HeadFrames
  <2> QED
    BY <2>1, <2>2, <2>4, <2>5, LeaveControl
<1>2. CASE BareExit
  <2>1. blocks' = Terminate(blocks, curr, Halt(<<>>)) /\ walk' = walk /\ curr' = curr
    BY <1>2 DEF BareExit
  <2>2. Halt(<<>>) \in TermRecs /\ Halt(<<>>).to = <<>> /\ Halt(<<>>) # Undefined
    BY TermsAre
  <2>3. ControlOK(blocks', curr, walk, {}) /\ Left(blocks, blocks')
    BY <2>1, <2>2, ControlHalts
  <2> QED
    BY <2>1, <2>3 DEF Controls, Control, Running
<1> QED
  BY <1>1, <1>2

LEMMA CallStmtControl ==
  ASSUME IInv, Running, Control, CallStmt
  PROVE  Controls
<1> DEFINE i == <<Call(next_temp, Popped(Operands))>>
           v == Butlast(walk)
<1>1. /\ InExpr /\ Top.at = "call_stmt" /\ Pending = Operands
      /\ blocks' = Emit(blocks, curr, i) /\ walk' = Pop(walk, 1) /\ curr' = curr
  BY DEF CallStmt
<1>2. /\ Pop(walk, 1) = v /\ v # <<>>
  BY <1>1, OnHead DEF HeadFrames
<1>3. /\ Top \in Frames /\ FrameOK(Top, unclaimed, next_slot, Len(blocks))
      /\ Operands \in Nat /\ Operands <= Height
  <2>1. /\ Top \in Frames /\ FrameOK(Top, unclaimed, next_slot, Len(blocks))
        /\ Top.base \in Nat /\ Height \in Nat /\ Operands \in 0..1
    BY <1>1, InExpression
  <2> QED
    BY <1>1, <2>1 DEF Pending
<1>4. i \in Seq(InstRecs)
  <2>1. Popped(Operands) \in Seq(Values) /\ next_temp \in Nat
    BY <1>3, StackIs, ShapeIs
  <2>2. Call(next_temp, Popped(Operands)) \in InstRecs
    BY <2>1 DEF Call, Inst, InstRecs, InstTypes
  <2> QED
    BY <2>2
<1> HIDE DEF i
<1>5. ControlOK(blocks', curr, walk, {}) /\ Left(blocks, blocks')
  BY <1>1, <1>4, ControlEmits
<1>6. Quiet(Top)
  BY <1>1, <1>3, QuietFrame DEF Heads
<1> QED
  BY <1>1, <1>2, <1>5, <1>6, LeaveControl

LEMMA EndBlockControl ==
  ASSUME IInv, Running, Control, EndBlock
  PROVE  Controls
<1>1. InStmts /\ Top.at = "block" /\ blocks' = blocks /\ curr' = curr /\ walk' = Pop(walk, 1)
  BY DEF EndBlock
<1>2. Pop(walk, 1) = Butlast(walk) /\ Butlast(walk) # <<>>
      /\ Top \in Frames /\ FrameOK(Top, unclaimed, next_slot, Len(blocks))
  BY <1>1, OnList
<1>3. ControlOK(blocks', curr, walk, {}) /\ Left(blocks, blocks')
  BY <1>1, WhileRunning DEF Left
<1>4. Quiet(Top)
  BY <1>1, <1>2, QuietFrame DEF Heads
<1> QED
  BY <1>1, <1>2, <1>3, <1>4, LeaveControl
-----------------------------------------------------------------------------
\* The node on top, and what the others wait for without it.
LEMMA ControlTop ==
  ASSUME IInv, Running, Control
  PROVE  /\ ControlOK(blocks, curr, Butlast(walk), Fills(Top))
         /\ FrameWaits(blocks, curr, Top)
         /\ WalkOK(Butlast(walk), unclaimed, next_slot, Len(blocks))
         /\ Butlast(walk) \in Seq(Frames)
         /\ Top \in Frames /\ FrameOK(Top, unclaimed, next_slot, Len(blocks))
         /\ Butlast(walk) = <<>> <=> Top.at = "fn_block"
<1>1. /\ walk # <<>> /\ walk \in Seq(Frames) /\ ControlOK(blocks, curr, walk, {})
      /\ WalkOK(walk, unclaimed, next_slot, Len(blocks)) /\ Top = Last(walk)
  BY WhileRunning DEF Top
<1>2. ControlOK(blocks, curr, Butlast(walk), {} \cup Fills(Last(walk)))
      /\ FrameWaits(blocks, curr, Last(walk))
  BY <1>1, ControlPop
<1>3. {} \cup Fills(Last(walk)) = Fills(Top)
  BY <1>1
<1>4. /\ WalkOK(Butlast(walk), unclaimed, next_slot, Len(blocks))
      /\ Top \in Frames /\ FrameOK(Top, unclaimed, next_slot, Len(blocks))
      /\ Butlast(walk) = <<>> <=> Top.at = "fn_block"
  <2>1. walk # <<>> /\ WalkOK(walk, unclaimed, next_slot, Len(blocks)) /\ Top = Last(walk)
    BY <1>1
  <2>2. WalkOK(Butlast(walk), unclaimed, next_slot, Len(blocks))
    BY <2>1, WalkPop
  <2>3. Last(walk) \in Frames /\ FrameOK(Last(walk), unclaimed, next_slot, Len(blocks))
    BY <2>1, WalkPop
  <2>4. Butlast(walk) = <<>> <=> Last(walk).at = "fn_block"
    BY <2>1, WalkPop
  <2> QED
    BY <2>1, <2>2, <2>3, <2>4
<1>5. Butlast(walk) \in Seq(Frames)
  BY <1>4 DEF WalkOK
<1> QED
  BY <1>1, <1>2, <1>3, <1>4, <1>5

\* A step to another block: frame g, if there is one, waits for what is left.
LEMMA MoveControl ==
  ASSUME IInv, Running, Control, NEW w, NEW A, w \in Seq(Frames),
         WalkOK(w, unclaimed, next_slot, Len(blocks)), ControlOK(blocks, curr, w, A),
         Moves(blocks, curr, A, blocks', curr')
  PROVE  /\ walk' = w /\ w # <<>> /\ Remain(blocks, A, blocks', curr') = {} => Controls
         /\ \A g \in Frames :
              /\ walk' = Append(w, g)
              /\ Fills(g) = Remain(blocks, A, blocks', curr')
              /\ Untouched(blocks', curr', Fills(g)) => FrameWaits(blocks', curr', g)
              => Controls
<1> DEFINE B == Remain(blocks, A, blocks', curr')
<1>1. ControlOK(blocks', curr', w, B) /\ Left(blocks, blocks')
  BY ControlMove
<1> HIDE DEF B
<1>2. ASSUME walk' = w, w # <<>>, B = {} PROVE Controls
  BY <1>1, <1>2 DEF Controls, Control, Running
<1>3. ASSUME NEW g \in Frames, walk' = Append(w, g), Fills(g) = B,
             Untouched(blocks', curr', Fills(g)) => FrameWaits(blocks', curr', g)
      PROVE  Controls
  <2>1. Untouched(blocks', curr', Fills(g))
    BY <1>1, <1>3 DEF ControlOK
  <2>2. FrameWaits(blocks', curr', g)
    BY <1>3, <2>1
  <2>3. ControlOK(blocks', curr', w, {} \cup Fills(g)) /\ Fills(g) \cap {} = {}
    BY <1>1, <1>3
  <2>4. ControlOK(blocks', curr', Append(w, g), {})
    BY <2>2, <2>3, ControlPush
  <2>5. Append(w, g) # <<>>
    OBVIOUS
  <2> QED
    BY <1>1, <1>3, <2>4, <2>5 DEF Controls, Control, Running
<1> QED
  BY <1>2, <1>3 DEF B

\* After a jump that is made if the block is open it is closed.
LEMMA JumpCloses ==
  ASSUME NEW bs \in Seq(BlockRecs), NEW b \in 1..Len(bs), NEW to \in 1..Len(bs),
         NEW new, new = JumpIfOpen(bs, b, to)
  PROVE  /\ ~Open(new, b) /\ Len(new) = Len(bs) /\ new \in Seq(BlockRecs)
         /\ \A c \in 1..Len(bs) : c # b => new[c] = bs[c]
<1>1. bs \in Seq(BlockRecs) /\ to \in Nat
  OBVIOUS
<1>2. CASE Open(bs, b)
  <2>1. Jump(to) \in TermRecs /\ Undefined # Jump(to)
    BY <1>1, TermsAre, ValuesAre
  <2>2. new = Terminate(bs, b, Jump(to))
    BY <1>2 DEF JumpIfOpen
  <2>3. /\ Terminate(bs, b, Jump(to)) \in Seq(BlockRecs)
        /\ Len(Terminate(bs, b, Jump(to))) = Len(bs)
        /\ Terminate(bs, b, Jump(to))[b].term = Jump(to)
        /\ \A c \in 1..Len(bs) : c # b => Terminate(bs, b, Jump(to))[c] = bs[c]
    BY <1>1, <2>1, TerminateIs
  <2> QED
    BY <2>1, <2>2, <2>3 DEF Open
<1>3. CASE ~Open(bs, b)
  <2>1. new = bs
    BY <1>3 DEF JumpIfOpen
  <2> QED
    BY <1>1, <1>3, <2>1
<1> QED
  BY <1>2, <1>3

LEMMA EndWhileControl ==
  ASSUME IInv, Running, Control, EndWhile
  PROVE  Controls
<1> DEFINE w == Butlast(walk)
<1>1. /\ InStmts /\ Top.at = "loop_block"
      /\ blocks' = JumpIfOpen(blocks, curr, Top.to[1]) /\ curr' = Top.to[2]
      /\ walk' = Pop(walk, 1)
  BY DEF EndWhile
<1>2. /\ Pop(walk, 1) = w /\ w # <<>>
      /\ Top \in Frames /\ FrameOK(Top, unclaimed, next_slot, Len(blocks))
  BY <1>1, OnList
<1>3. /\ ControlOK(blocks, curr, w, Fills(Top)) /\ FrameWaits(blocks, curr, Top)
      /\ WalkOK(w, unclaimed, next_slot, Len(blocks)) /\ w \in Seq(Frames)
  BY ControlTop
<1> HIDE DEF w
<1>4. /\ Len(blocks) \in Nat /\ curr \in 1..Len(blocks) /\ blocks \in Seq(BlockRecs)
      /\ BlocksOK(blocks, next_temp, next_slot)
  BY WhileRunning
<1>5. Len(Top.to) = 2 /\ Top.to[1] \in 1..Len(blocks) /\ Top.to[2] \in 1..Len(blocks)
  BY <1>1, <1>2 DEF FrameOK, Targets
<1>6. Fills(Top) = {Top.to[2]}
  BY <1>1, <1>5, FillsIs DEF Heads
<1>7. /\ ~Open(blocks', curr) /\ Len(blocks') = Len(blocks)
      /\ \A b \in 1..Len(blocks) : b # curr => blocks'[b] = blocks[b]
  BY <1>1, <1>4, <1>5, JumpCloses
<1>8. curr' # curr /\ blocks[curr'] = NewBlock
  BY <1>1, <1>3, <1>6 DEF FrameWaits, Untouched
<1>9. blocks'[curr'].term.to = <<>> /\ curr' \in 1..Len(blocks)
  BY <1>1, <1>5, <1>7, <1>8, NewBlockIs
<1>10. Moves(blocks, curr, Fills(Top), blocks', curr')
  BY <1>1, <1>4, <1>6, <1>7, <1>8, <1>9 DEF Moves
<1>11. Remain(blocks, Fills(Top), blocks', curr') = {}
  BY <1>1, <1>4, <1>6, <1>7 DEF Remain
<1>12. walk' = w /\ w # <<>>
  BY <1>1, <1>2
<1> QED
  BY <1>3, <1>10, <1>11, <1>12, MoveControl

LEMMA FirstNew ==
  ASSUME NEW n \in Nat, NEW k \in {2, 3}, NEW m, m = n + k
  PROVE  n + 1 \in n + 1..m
OBVIOUS

\* Blocks are created and the current one branches to them: the first is
\* filled next.
LEMMA BranchMoves ==
  ASSUME IInv, Running, Control,
         NEW news \in {<<NewBlock, NewBlock>>, <<NewBlock, NewBlock, NewBlock>>},
         NEW new, Len(new) = Len(blocks) + Len(news),
         \A b \in 1..Len(blocks) : b # curr => new[b] = (blocks \o news)[b],
         \A b \in Len(blocks) + 1..Len(new) : new[b] = (blocks \o news)[b],
         ~Open(new, curr)
  PROVE  /\ Moves(blocks, curr, {}, new, Len(blocks) + 1)
         /\ Remain(blocks, {}, new, Len(blocks) + 1) = Len(blocks) + 2..Len(blocks) + Len(news)
<1> DEFINE n == Len(blocks)
           bs == blocks \o news
<1>1. n \in Nat /\ curr \in 1..n /\ blocks \in Seq(BlockRecs)
  BY WhileRunning
<1>2. /\ Len(news) \in {2, 3} /\ Len(bs) = n + Len(news)
      /\ \A b \in 1..n : bs[b] = blocks[b]
      /\ \A b \in 1..Len(bs) : b \notin 1..n => bs[b] = NewBlock
  BY <1>1, CreateIs
<1>3. /\ \A b \in 1..n : b # curr => new[b] = bs[b]
      /\ \A b \in n + 1..Len(new) : new[b] = bs[b]
      /\ Len(new) = n + Len(news)
  OBVIOUS
<1> HIDE DEF bs
<1>4. \A b \in n + 1..Len(new) : new[b] = NewBlock
  BY <1>1, <1>2, <1>3
<1>5. n + 1 \in n + 1..Len(new) /\ new[n + 1].term.to = <<>>
  <2>1. n + 1 \in n + 1..Len(new)
    <3>1. n \in Nat /\ Len(news) \in {2, 3} /\ Len(new) = n + Len(news)
      BY <1>1, <1>2, <1>3, Zenon
    <3> QED
      BY <3>1, FirstNew, Zenon
  <2>2. new[n + 1] = NewBlock
    BY <1>4, <2>1
  <2>3. NewBlock.term.to = <<>>
    BY DEF NewBlock, Undefined
  <2> QED
    BY <2>1, <2>2, <2>3
<1>6. Moves(blocks, curr, {}, new, n + 1)
  BY <1>1, <1>2, <1>3, <1>4, <1>5 DEF Moves
<1>7. Remain(blocks, {}, new, n + 1) = n + 2..n + Len(news)
  BY <1>1, <1>2, <1>3 DEF Remain
<1> QED
  BY <1>6, <1>7

LEMMA FinishLhsControl ==
  ASSUME IInv, Running, Control, FinishLhs
  PROVE  Controls
<1> DEFINE n == Len(blocks)
           news == <<NewBlock, NewBlock>>
           bs == blocks \o news
           w == Butlast(walk)
           f == Frame("rhs", Top.base, Top.slot, <<n + 2>>, Top.scope)
           c == IMM(IF Top.at = "and_lhs" THEN 0 ELSE 1)
           t == IF Top.at = "and_lhs" THEN BranchIfZero(Last(val_stack), n + 1, n + 2)
                ELSE BranchIfZero(Last(val_stack), n + 2, n + 1)
           i == <<Store(Top.slot, c)>>
           s == Emit(bs, curr, i)
<1>1. /\ ExprDone /\ Top.at \in {"and_lhs", "or_lhs"}
      /\ blocks' = Terminate(s, curr, t) /\ curr' = n + 1
      /\ walk' = Append(w, f)
  <2>1. ExprDone
    BY DEF FinishLhs
  <2>2. Pop(walk, 1) = Butlast(walk)
    BY <2>1, OnValue
  <2> QED
    BY <2>1, <2>2 DEF FinishLhs, Push
<1>2. /\ Top \in Frames /\ FrameOK(Top, unclaimed, next_slot, n) /\ Last(val_stack) \in Values
  BY <1>1, OnValue
<1>3. /\ ControlOK(blocks, curr, w, Fills(Top))
      /\ WalkOK(w, unclaimed, next_slot, n) /\ w \in Seq(Frames)
  BY ControlTop
<1>4. n \in Nat /\ curr \in 1..n /\ blocks \in Seq(BlockRecs)
  BY WhileRunning
<1>5. Fills(Top) = {}
  <2>1. Quiet(Top)
    BY <1>1, <1>2, QuietFrame DEF Heads
  <2> QED
    BY <2>1, QuietIs
<1>6. bs \in Seq(BlockRecs) /\ Len(bs) = n + 2 /\ Len(news) = 2
      /\ news \in {<<NewBlock, NewBlock>>, <<NewBlock, NewBlock, NewBlock>>}
  BY <1>4, CreateIs
<1> HIDE DEF bs, w
<1>7. t \in TermRecs /\ t # Undefined
  <2>1. n + 1 \in Nat /\ n + 2 \in Nat
    BY <1>4
  <2>2. CASE Top.at = "and_lhs"
    BY <1>2, <2>1, <2>2, TermsAre
  <2>3. CASE Top.at # "and_lhs"
    BY <1>2, <2>1, <2>3, TermsAre
  <2> QED
    BY <2>2, <2>3
<1> HIDE DEF t
<1>8. i \in Seq(InstRecs)
  <2>1. Top.slot \in Nat /\ c \in Values /\ next_temp \in Nat
    BY <1>1, <1>2, ValuesAre, ShapeIs DEF FrameOK, LogFrames
  <2> HIDE DEF c
  <2> QED
    BY <2>1, InstsAre
<1> HIDE DEF i
<1>9. curr \in 1..Len(bs)
  BY <1>4, <1>6
<1>10. /\ s \in Seq(BlockRecs) /\ Len(s) = Len(bs)
       /\ \A b \in 1..Len(bs) : b # curr => s[b] = bs[b]
  BY <1>6, <1>8, <1>9, EmitIs
<1> HIDE DEF s
<1>11. /\ Len(blocks') = Len(bs) /\ blocks'[curr].term = t
       /\ \A b \in 1..Len(bs) : b # curr => blocks'[b] = s[b]
  <2>1. /\ Len(Terminate(s, curr, t)) = Len(s) /\ Terminate(s, curr, t)[curr].term = t
        /\ \A b \in 1..Len(s) : b # curr => Terminate(s, curr, t)[b] = s[b]
    BY <1>7, <1>9, <1>10, TerminateIs
  <2> QED
    BY <1>1, <1>10, <2>1
<1>12. ~Open(blocks', curr)
  BY <1>7, <1>11 DEF Open
<1>13. /\ Moves(blocks, curr, {}, blocks', n + 1)
       /\ Remain(blocks, {}, blocks', n + 1) = n + 2..n + 2
  <2>1. /\ \A b \in 1..n : b # curr => blocks'[b] = bs[b]
        /\ \A b \in n + 1..Len(blocks') : blocks'[b] = bs[b]
        /\ Len(blocks') = n + Len(news)
    BY <1>4, <1>6, <1>10, <1>11
  <2>2. /\ Moves(blocks, curr, {}, blocks', n + 1)
        /\ Remain(blocks, {}, blocks', n + 1) = n + 2..n + Len(news)
    BY <1>6, <1>12, <2>1, BranchMoves DEF bs
  <2> QED
    BY <1>6, <2>2
<1>14. f \in Frames /\ f.at = "rhs" /\ f.to = <<n + 2>>
  <2>1. /\ n + 2 \in Nat /\ <<n + 2>> \in Seq(Nat) /\ "rhs" \in Ats
    BY <1>4 DEF Ats, LogFrames
  <2>2. Top.slot \in {NoSlot} \cup Nat /\ Top.base \in Nat /\ Top.scope \in SUBSET Nat
    BY <1>2 DEF Frames
  <2> QED
    BY <2>1, <2>2 DEF Frame, Frames
<1> HIDE DEF f
<1>15. Fills(f) = n + 2..n + 2
  <2>1. Fills(f) = {f.to[1]}
    BY <1>14, FillsIs DEF Heads
  <2> QED
    BY <1>4, <1>14, <2>1
<1>16. Untouched(blocks', curr', Fills(f)) => FrameWaits(blocks', curr', f)
  BY <1>14 DEF FrameWaits
<1> QED
  BY <1>1, <1>3, <1>5, <1>13, <1>14, <1>15, <1>16, MoveControl

LEMMA IfControl ==
  ASSUME IInv, Running, Control, NEW else \in BOOLEAN, If(else)
  PROVE  Controls
<1> DEFINE n == Len(blocks)
           join == IF else THEN n + 3 ELSE n + 2
           news == IF else THEN <<NewBlock, NewBlock, NewBlock>> ELSE <<NewBlock, NewBlock>>
           bs == blocks \o news
           t == BranchIfZero(Last(val_stack), n + 1, n + 2)
           to == IF else THEN <<n + 2, join>> ELSE <<join>>
           f == Frame("then_block", Height - 1, NoSlot, to, Top.scope)
           w == Butlast(walk)
<1>1. /\ ExprDone /\ Top.at = "if" /\ blocks' = Terminate(bs, curr, t)
      /\ curr' = n + 1 /\ walk' = Append(Pop(walk, 1), f)
  BY DEF If, Push
<1>2. /\ Last(val_stack) \in Values /\ Pop(walk, 1) = w
      /\ Top \in Frames /\ FrameOK(Top, unclaimed, next_slot, n)
      /\ Height = unclaimed + 1
  BY <1>1, OnHeadValue DEF HeadFrames
<1>3. /\ ControlOK(blocks, curr, w, Fills(Top))
      /\ WalkOK(w, unclaimed, next_slot, n) /\ w \in Seq(Frames)
  BY ControlTop
<1>4. n \in Nat /\ curr \in 1..n /\ blocks \in Seq(BlockRecs) /\ unclaimed \in Nat
  BY WhileRunning, ShapeIs
<1>5. Fills(Top) = {}
  <2>1. Quiet(Top)
    BY <1>1, <1>2, QuietFrame DEF Heads
  <2> QED
    BY <2>1, QuietIs
<1>6. news \in {<<NewBlock, NewBlock>>, <<NewBlock, NewBlock, NewBlock>>}
      /\ Len(news) = IF else THEN 3 ELSE 2
  OBVIOUS
<1> HIDE DEF news, w
<1>7. bs \in Seq(BlockRecs) /\ Len(bs) = n + Len(news) /\ curr \in 1..Len(bs)
  <2>1. bs \in Seq(BlockRecs) /\ Len(bs) = n + Len(news)
    BY <1>4, <1>6, CreateIs
  <2> QED
    BY <1>4, <1>6, <2>1
<1> HIDE DEF bs
<1>8. t \in TermRecs /\ t # Undefined
  <2>1. n + 1 \in Nat /\ n + 2 \in Nat
    BY <1>4
  <2> QED
    BY <1>2, <2>1, TermsAre
<1> HIDE DEF t
<1>9. /\ Len(blocks') = Len(bs) /\ blocks'[curr].term = t
      /\ \A b \in 1..Len(bs) : b # curr => blocks'[b] = bs[b]
  <2>1. /\ Len(Terminate(bs, curr, t)) = Len(bs) /\ Terminate(bs, curr, t)[curr].term = t
        /\ \A b \in 1..Len(bs) : b # curr => Terminate(bs, curr, t)[b] = bs[b]
    <3>1. bs \in Seq(BlockRecs) /\ curr \in 1..Len(bs) /\ t \in TermRecs
      BY <1>7, <1>8
    <3> QED
      BY <3>1, TerminateIs
  <2> QED
    BY <1>1, <2>1
<1>10. ~Open(blocks', curr)
  BY <1>8, <1>9 DEF Open
<1>11. /\ Moves(blocks, curr, {}, blocks', n + 1)
       /\ Remain(blocks, {}, blocks', n + 1) = n + 2..n + Len(news)
  <2>1. /\ \A b \in 1..n : b # curr => blocks'[b] = bs[b]
        /\ \A b \in n + 1..Len(blocks') : blocks'[b] = bs[b]
        /\ Len(blocks') = n + Len(news)
    BY <1>4, <1>6, <1>7, <1>9
  <2> QED
    BY <1>6, <1>10, <2>1, BranchMoves DEF bs
<1>12. /\ to \in Seq(Nat)
       /\ else => Len(to) = 2 /\ to[1] = n + 2 /\ to[2] = n + 3
       /\ ~else => Len(to) = 1 /\ to[1] = n + 2
  BY <1>4
<1> HIDE DEF to
<1>13. f \in Frames /\ f.at = "then_block" /\ f.to = to
  <2>1. Top.scope \in SUBSET Nat /\ "then_block" \in Ats /\ Height - 1 \in Nat
    BY <1>2, <1>4 DEF Frames, Ats, StmtFrames
  <2> QED
    BY <1>12, <2>1 DEF Frame, Frames
<1> HIDE DEF f
<1>14. Fills(f) = n + 2..n + Len(news)
  <2>1. CASE else
    <3>1. Fills(f) = {n + 2, n + 3}
      BY <1>12, <1>13, <2>1, FillsIs DEF Heads
    <3> QED
      BY <1>4, <1>6, <2>1, <3>1
  <2>2. CASE ~else
    <3>1. Fills(f) = {n + 2}
      BY <1>12, <1>13, <2>2, FillsIs DEF Heads
    <3> QED
      BY <1>4, <1>6, <2>2, <3>1
  <2> QED
    BY <2>1, <2>2
<1>15. Untouched(blocks', curr', Fills(f)) => FrameWaits(blocks', curr', f)
  BY <1>4, <1>12, <1>13 DEF FrameWaits
<1>16. walk' = Append(w, f)
  BY <1>1, <1>2
<1> QED
  BY <1>1, <1>3, <1>5, <1>11, <1>13, <1>14, <1>15, <1>16, MoveControl

\* The frame on top is done: the block it has waited for is filled next.
LEMMA ResumeControl ==
  ASSUME IInv, Running, Control, Fills(Top) = {curr'},
         Len(blocks') = Len(blocks), ~Open(blocks', curr), blocks'[curr'].term.to = <<>>,
         \A b \in 1..Len(blocks) : b # curr /\ b # curr' => blocks'[b] = blocks[b],
         walk' = Butlast(walk), Butlast(walk) # <<>>
  PROVE  Controls
<1> DEFINE w == Butlast(walk)
<1>1. /\ ControlOK(blocks, curr, w, Fills(Top)) /\ FrameWaits(blocks, curr, Top)
      /\ WalkOK(w, unclaimed, next_slot, Len(blocks)) /\ w \in Seq(Frames)
  BY ControlTop
<1> HIDE DEF w
<1>2. Len(blocks) \in Nat /\ curr \in 1..Len(blocks)
  BY WhileRunning
<1>3. curr' \in 1..Len(blocks) /\ curr' # curr
  BY <1>1 DEF FrameWaits, Untouched
<1>4. Moves(blocks, curr, Fills(Top), blocks', curr')
  BY <1>2, <1>3 DEF Moves
<1>5. Remain(blocks, Fills(Top), blocks', curr') = {}
  BY <1>2 DEF Remain
<1>6. walk' = w /\ w # <<>>
  BY DEF w
<1> QED
  BY <1>1, <1>4, <1>5, <1>6, MoveControl

LEMMA FinishRhsControl ==
  ASSUME IInv, Running, Control, FinishRhs
  PROVE  Controls
<1> DEFINE join == Top.to[1]
           is == <<CmpOp(next_temp, Last(val_stack), IMM(0)),
                   Store(Top.slot, TEMP(next_temp))>>
           load == <<Load(next_temp + 1, Top.slot)>>
           bs == Emit(blocks, curr, is)
           js == JumpIfOpen(bs, curr, join)
<1>1. /\ ExprDone /\ Top.at = "rhs" /\ blocks' = Emit(js, join, load) /\ curr' = join
      /\ walk' = Pop(walk, 1)
  BY DEF FinishRhs
<1>2. /\ Top \in Frames /\ FrameOK(Top, unclaimed, next_slot, Len(blocks))
      /\ Last(val_stack) \in Values
      /\ Pop(walk, 1) = Butlast(walk) /\ Butlast(walk) # <<>>
  BY <1>1, OnValue
<1>3. /\ Len(blocks) \in Nat /\ curr \in 1..Len(blocks) /\ blocks \in Seq(BlockRecs)
      /\ next_temp \in Nat
  BY WhileRunning, ShapeIs
<1>4. Len(Top.to) = 1 /\ join \in 1..Len(blocks) /\ Top.slot \in Nat
  BY <1>1, <1>2 DEF FrameOK, Targets, LogFrames
<1>5. Fills(Top) = {join}
  BY <1>1, <1>4, FillsIs DEF Heads
<1>6. is \in Seq(InstRecs) /\ load \in Seq(InstRecs)
  <2>1. next_temp + 1 \in Nat /\ TEMP(next_temp) \in Values
    BY <1>3, ValuesAre
  <2>2. CmpOp(next_temp, Last(val_stack), IMM(0)) \in InstRecs
    BY <1>2, <1>3, <1>4, InstsAre
  <2>3. Store(Top.slot, TEMP(next_temp)) \in InstRecs
    BY <1>3, <1>4, <2>1, InstsAre
  <2>4. Load(next_temp + 1, Top.slot) \in InstRecs
    BY <1>2, <1>4, <2>1, InstsAre
  <2> QED
    BY <2>2, <2>3, <2>4
<1> HIDE DEF is, load
<1>7. /\ bs \in Seq(BlockRecs) /\ Len(bs) = Len(blocks)
      /\ \A b \in 1..Len(blocks) : b # curr => bs[b] = blocks[b]
  BY <1>3, <1>6, EmitIs
<1> HIDE DEF bs, join
<1>8. /\ ~Open(js, curr) /\ Len(js) = Len(bs) /\ js \in Seq(BlockRecs)
      /\ \A b \in 1..Len(bs) : b # curr => js[b] = bs[b]
  <2>1. bs \in Seq(BlockRecs) /\ curr \in 1..Len(bs) /\ join \in 1..Len(bs)
    BY <1>3, <1>4, <1>7
  <2> QED
    BY <2>1, JumpCloses
<1> HIDE DEF js
<1>9. /\ Len(blocks') = Len(js)
      /\ \A b \in 1..Len(js) : /\ blocks'[b].term = js[b].term
                               /\ b # join => blocks'[b] = js[b]
  <2>1. js \in Seq(BlockRecs) /\ join \in 1..Len(js)
    BY <1>4, <1>7, <1>8
  <2>2. /\ Len(Emit(js, join, load)) = Len(js)
        /\ \A b \in 1..Len(js) : /\ Emit(js, join, load)[b].term = js[b].term
                                 /\ b # join => Emit(js, join, load)[b] = js[b]
    BY <1>6, <2>1, EmitIs
  <2> QED
    BY <1>1, <2>2
<1>10. FrameWaits(blocks, curr, Top)
  BY ControlTop
<1>11. join # curr /\ blocks[join] = NewBlock
  BY <1>5, <1>10 DEF FrameWaits, Untouched
<1>12. blocks'[join].term.to = <<>>
  <2>1. blocks'[join].term = blocks[join].term
    BY <1>4, <1>7, <1>8, <1>9, <1>11
  <2>2. NewBlock.term.to = <<>>
    BY DEF NewBlock, Undefined
  <2> QED
    BY <1>11, <2>1, <2>2
<1>13. ~Open(blocks', curr)
  BY <1>3, <1>7, <1>8, <1>9 DEF Open
<1>14. \A b \in 1..Len(blocks) : b # curr /\ b # join => blocks'[b] = blocks[b]
  BY <1>7, <1>8, <1>9
<1> QED
  BY <1>1, <1>2, <1>5, <1>7, <1>8, <1>9, <1>12, <1>13, <1>14, ResumeControl

LEMMA EndIfControl ==
  ASSUME IInv, Running, Control, EndIf
  PROVE  Controls
<1> DEFINE join == Last(Top.to)
           reached == \/ Top.at = "then_block" \/ Top.reached \/ Open(blocks, curr)
           bs == JumpIfOpen(blocks, curr, join)
<1>1. /\ InStmts /\ Top.at \in {"then_block", "else_block"} /\ Len(Top.to) = 1
      /\ blocks' = IF reached THEN bs ELSE Terminate(bs, join, ImplicitHalt)
      /\ curr' = join /\ walk' = Pop(walk, 1)
  BY DEF EndIf
<1>2. /\ Pop(walk, 1) = Butlast(walk) /\ Butlast(walk) # <<>>
      /\ Top \in Frames /\ FrameOK(Top, unclaimed, next_slot, Len(blocks))
  BY <1>1, OnList DEF StmtFrames
<1>3. /\ Len(blocks) \in Nat /\ curr \in 1..Len(blocks) /\ blocks \in Seq(BlockRecs)
  BY WhileRunning
<1>4. join = Top.to[1] /\ join \in 1..Len(blocks)
  BY <1>1, <1>2 DEF FrameOK, Last
<1>5. Fills(Top) = {join}
  BY <1>1, <1>4, FillsIs DEF Heads
<1> HIDE DEF join
<1>6. /\ ~Open(bs, curr) /\ Len(bs) = Len(blocks) /\ bs \in Seq(BlockRecs)
      /\ \A b \in 1..Len(blocks) : b # curr => bs[b] = blocks[b]
  <2>1. blocks \in Seq(BlockRecs) /\ curr \in 1..Len(blocks) /\ join \in 1..Len(blocks)
    BY <1>3, <1>4
  <2> QED
    BY <2>1, JumpCloses
<1> HIDE DEF bs
<1>7. FrameWaits(blocks, curr, Top)
  BY ControlTop
<1>8. join # curr /\ blocks[join] = NewBlock
  BY <1>5, <1>7 DEF FrameWaits, Untouched
<1>9. /\ Len(blocks') = Len(blocks) /\ blocks'[curr] = bs[curr]
      /\ \A b \in 1..Len(blocks) : b # curr /\ b # join => blocks'[b] = blocks[b]
      /\ blocks'[join].term.to = <<>>
  <2>1. CASE reached
    <3>1. blocks' = bs
      BY <1>1, <2>1
    <3>2. bs[join].term.to = <<>>
      <4>1. NewBlock.term.to = <<>>
        BY DEF NewBlock, Undefined
      <4> QED
        BY <1>4, <1>6, <1>8, <4>1
    <3> QED
      BY <1>6, <3>1, <3>2
  <2>2. CASE ~reached
    <3>1. blocks' = Terminate(bs, join, ImplicitHalt)
      BY <1>1, <2>2
    <3>2. ImplicitHalt \in TermRecs /\ ImplicitHalt.to = <<>>
      BY ImplicitHaltIs
    <3>3. bs \in Seq(BlockRecs) /\ join \in 1..Len(bs)
      BY <1>4, <1>6
    <3>4. /\ Len(Terminate(bs, join, ImplicitHalt)) = Len(bs)
          /\ Terminate(bs, join, ImplicitHalt)[join].term = ImplicitHalt
          /\ \A b \in 1..Len(bs) : b # join => Terminate(bs, join, ImplicitHalt)[b] = bs[b]
      BY <3>2, <3>3, TerminateIs
    <3> QED
      BY <1>3, <1>6, <1>8, <3>1, <3>2, <3>4
  <2> QED
    BY <2>1, <2>2
<1>10. ~Open(blocks', curr)
  BY <1>6, <1>9 DEF Open
<1> QED
  BY <1>1, <1>2, <1>5, <1>9, <1>10, ResumeControl

LEMMA EndThenControl ==
  ASSUME IInv, Running, Control, EndThen
  PROVE  Controls
<1> DEFINE else == Top.to[1]
           join == Top.to[2]
           w == Butlast(walk)
           h == Frame("else_block", Top.base, NoSlot, <<join>>, walk[Len(walk) - 1].scope)
           f == [h EXCEPT !.reached = Open(blocks, curr)]
<1>1. /\ InStmts /\ Top.at = "then_block" /\ Len(Top.to) = 2
      /\ blocks' = JumpIfOpen(blocks, curr, join) /\ curr' = else
      /\ walk' = [walk EXCEPT ![Len(walk)] = f]
  BY DEF EndThen
<1>2. /\ walk \in Seq(Frames) /\ walk # <<>>
      /\ Top \in Frames /\ FrameOK(Top, unclaimed, next_slot, Len(blocks))
      /\ Last(w) \in Frames /\ Last(w) = walk[Len(walk) - 1]
  BY <1>1, OnList DEF StmtFrames
<1>3. /\ Len(blocks) \in Nat /\ curr \in 1..Len(blocks) /\ blocks \in Seq(BlockRecs)
  BY WhileRunning
<1>4. else \in 1..Len(blocks) /\ join \in 1..Len(blocks)
  BY <1>1, <1>2 DEF FrameOK
<1>5. Fills(Top) = {else, join}
  BY <1>1, FillsIs DEF Heads
<1>6. /\ ControlOK(blocks, curr, w, Fills(Top)) /\ FrameWaits(blocks, curr, Top)
      /\ WalkOK(w, unclaimed, next_slot, Len(blocks)) /\ w \in Seq(Frames)
  BY ControlTop
<1>7. else # join /\ else # curr /\ blocks[else] = NewBlock
  BY <1>1, <1>5, <1>6 DEF FrameWaits, Untouched
<1>8. f \in Frames /\ f.at = "else_block" /\ f.to = <<join>>
  <2>1. Top.base \in Nat /\ walk[Len(walk) - 1].scope \in SUBSET Nat
    BY <1>2 DEF Frames
  <2>2. "else_block" \in Ats /\ <<join>> \in Seq(Nat)
    BY <1>3, <1>4 DEF Ats, StmtFrames
  <2>3. h \in Frames /\ h.at = "else_block" /\ h.to = <<join>>
    BY <2>1, <2>2 DEF Frame, Frames
  <2> HIDE DEF h
  <2>4. Open(blocks, curr) \in BOOLEAN
    BY DEF Open
  <2> QED
    BY <2>3, <2>4 DEF Frames
<1> HIDE DEF f, else, join, w
<1>9. walk' = Append(w, f)
  BY <1>1, <1>2, <1>8, ReplaceIs DEF w
<1>10. /\ ~Open(blocks', curr) /\ Len(blocks') = Len(blocks)
       /\ \A b \in 1..Len(blocks) : b # curr => blocks'[b] = blocks[b]
  <2>1. blocks \in Seq(BlockRecs) /\ curr \in 1..Len(blocks) /\ join \in 1..Len(blocks)
    BY <1>3, <1>4
  <2> QED
    BY <1>1, <2>1, JumpCloses
<1>11. blocks'[else].term.to = <<>>
  <2>1. NewBlock.term.to = <<>>
    BY DEF NewBlock, Undefined
  <2> QED
    BY <1>4, <1>7, <1>10, <2>1
<1>12. Moves(blocks, curr, Fills(Top), blocks', curr')
  BY <1>1, <1>3, <1>4, <1>5, <1>7, <1>10, <1>11 DEF Moves
<1>13. Fills(f) = {join}
  <2>1. Len(f.to) = 1 /\ f.to[1] = join /\ f.at \notin Heads
    BY <1>8 DEF Heads
  <2> QED
    BY <2>1, FillsIs
<1>14. Remain(blocks, Fills(Top), blocks', curr') = Fills(f)
  BY <1>1, <1>3, <1>5, <1>7, <1>10, <1>13 DEF Remain
<1>15. Untouched(blocks', curr', Fills(f)) => FrameWaits(blocks', curr', f)
  BY <1>8 DEF FrameWaits
<1> QED
  BY <1>6, <1>8, <1>9, <1>12, <1>14, <1>15, MoveControl

LEMMA BeginWhileControl ==
  ASSUME IInv, Running, Control, BeginWhile
  PROVE  Controls
<1> DEFINE n == Len(blocks)
           news == <<NewBlock, NewBlock, NewBlock>>
           bs == blocks \o news
           to == <<n + 1, n + 1 + 1, n + 1 + 2>>
           f == Frame("while", Height, NoSlot, to, Top.scope)
<1>1. /\ InStmts /\ walk' = Append(walk, f)
      /\ blocks' = JumpIfOpen(bs, curr, n + 1) /\ curr' = n + 1
  BY DEF BeginWhile, Push
<1>2. Top \in Frames
  BY <1>1, OnStatement
<1>3. /\ n \in Nat /\ curr \in 1..n /\ blocks \in Seq(BlockRecs) /\ Height \in Nat
      /\ WalkOK(walk, unclaimed, next_slot, n) /\ ControlOK(blocks, curr, walk, {})
      /\ walk \in Seq(Frames)
  BY WhileRunning, ShapeIs
<1>4. news \in {<<NewBlock, NewBlock>>, <<NewBlock, NewBlock, NewBlock>>} /\ Len(news) = 3
  OBVIOUS
<1> HIDE DEF news
<1>5. bs \in Seq(BlockRecs) /\ Len(bs) = n + Len(news)
  BY <1>3, <1>4, CreateIs
<1>6. curr \in 1..Len(bs) /\ n + 1 \in 1..Len(bs)
  BY <1>3, <1>4, <1>5
<1> HIDE DEF bs
<1>7. /\ ~Open(blocks', curr) /\ Len(blocks') = Len(bs)
      /\ \A b \in 1..Len(bs) : b # curr => blocks'[b] = bs[b]
  <2>1. bs \in Seq(BlockRecs) /\ blocks' = JumpIfOpen(bs, curr, n + 1)
    BY <1>1, <1>5
  <2> QED
    BY <1>6, <2>1, JumpCloses
<1>8. /\ Moves(blocks, curr, {}, blocks', n + 1)
      /\ Remain(blocks, {}, blocks', n + 1) = n + 2..n + Len(news)
  <2>1. /\ \A b \in 1..n : b # curr => blocks'[b] = bs[b]
        /\ \A b \in n + 1..Len(blocks') : blocks'[b] = bs[b]
        /\ Len(blocks') = n + Len(news)
    BY <1>3, <1>4, <1>5, <1>7
  <2> QED
    BY <1>4, <1>7, <2>1, BranchMoves DEF bs
<1>9. to \in Seq(Nat) /\ Len(to) = 3 /\ to[1] = n + 1 /\ to[2] = n + 2 /\ to[3] = n + 3
  BY <1>3
<1> HIDE DEF to
<1>10. f \in Frames /\ f.at = "while" /\ f.to = to
  <2>1. Top.scope \in SUBSET Nat /\ "while" \in Ats
    BY <1>2 DEF Frames, Ats, HeadFrames
  <2> QED
    BY <1>3, <1>9, <2>1 DEF Frame, Frames
<1> HIDE DEF f
<1>11. Fills(f) = n + 2..n + Len(news)
  <2>1. Len(f.to) = 3 /\ f.at \in Heads /\ f.to[2] = n + 2 /\ f.to[3] = n + 3
    BY <1>9, <1>10 DEF Heads
  <2>2. Fills(f) = {n + 2, n + 3}
    BY <2>1, FillsIs
  <2> QED
    BY <1>3, <1>4, <2>2
<1>12. Untouched(blocks', curr', Fills(f)) => FrameWaits(blocks', curr', f)
  BY <1>1, <1>3, <1>9, <1>10 DEF FrameWaits
<1> QED
  BY <1>1, <1>3, <1>8, <1>10, <1>11, <1>12, MoveControl

LEMMA WhileBodyControl ==
  ASSUME IInv, Running, Control, WhileBody
  PROVE  Controls
<1> DEFINE head == Top.to[1]
           loop == Top.to[2]
           join == Top.to[3]
           t == BranchIfZero(Last(val_stack), loop, join)
           f == Frame("loop_block", Height - 1, NoSlot, <<head, join>>, Top.scope)
           w == Butlast(walk)
<1>1. /\ ExprDone /\ Top.at = "while"
      /\ blocks' = IF Open(blocks, curr) THEN Terminate(blocks, curr, t) ELSE blocks
      /\ curr' = loop /\ walk' = Append(Pop(walk, 1), f)
  BY DEF WhileBody, Push
<1>2. /\ Height \in Nat \ {0} /\ Last(val_stack) \in Values /\ Pop(walk, 1) = w
      /\ Top \in Frames /\ FrameOK(Top, unclaimed, next_slot, Len(blocks))
  BY <1>1, OnValue
<1>3. /\ Len(blocks) \in Nat /\ curr \in 1..Len(blocks) /\ blocks \in Seq(BlockRecs)
  BY WhileRunning
<1>4. /\ Len(Top.to) = 3
      /\ head \in 1..Len(blocks) /\ loop \in 1..Len(blocks) /\ join \in 1..Len(blocks)
  <2>1. Len(Top.to) = 3
    BY <1>1, <1>2 DEF FrameOK, Targets
  <2> QED
    BY <1>2, <2>1 DEF FrameOK
<1>5. Fills(Top) = {loop, join}
  BY <1>1, <1>4, FillsIs DEF Heads
<1>6. /\ ControlOK(blocks, curr, w, Fills(Top)) /\ FrameWaits(blocks, curr, Top)
      /\ WalkOK(w, unclaimed, next_slot, Len(blocks)) /\ w \in Seq(Frames)
  BY ControlTop
<1>7. /\ loop # join /\ loop # curr /\ blocks[loop] = NewBlock
      /\ Open(blocks, head) => head = curr
  BY <1>1, <1>5, <1>6 DEF FrameWaits, Untouched
<1>8. f \in Frames /\ f.at = "loop_block" /\ f.to = <<head, join>>
  <2>1. Top.scope \in SUBSET Nat /\ "loop_block" \in Ats /\ Height - 1 \in Nat
    BY <1>2 DEF Frames, Ats, StmtFrames
  <2>2. <<head, join>> \in Seq(Nat)
    BY <1>3, <1>4
  <2> QED
    BY <2>1, <2>2 DEF Frame, Frames
<1>9. walk' = Append(w, f)
  BY <1>1, <1>2
<1> HIDE DEF f, head, loop, join, w
<1>10. /\ ~Open(blocks', curr) /\ Len(blocks') = Len(blocks)
       /\ \A b \in 1..Len(blocks) : b # curr => blocks'[b] = blocks[b]
  <2>1. CASE Open(blocks, curr)
    <3>1. t \in TermRecs /\ t # Undefined
      <4>1. loop \in Nat /\ join \in Nat
        BY <1>3, <1>4
      <4> QED
        BY <1>2, <4>1, TermsAre
    <3> HIDE DEF t
    <3>2. blocks \in Seq(BlockRecs) /\ curr \in 1..Len(blocks)
      BY <1>3
    <3>3. /\ Len(Terminate(blocks, curr, t)) = Len(blocks)
          /\ Terminate(blocks, curr, t)[curr].term = t
          /\ \A b \in 1..Len(blocks) : b # curr => Terminate(blocks, curr, t)[b] = blocks[b]
      BY <3>1, <3>2, TerminateIs
    <3>4. blocks' = Terminate(blocks, curr, t)
      BY <1>1, <2>1
    <3> QED
      BY <3>1, <3>3, <3>4 DEF Open
  <2>2. CASE ~Open(blocks, curr)
    BY <1>1, <2>2
  <2> QED
    BY <2>1, <2>2
<1>11. blocks'[loop] = NewBlock /\ Open(blocks, loop)
  BY <1>4, <1>7, <1>10 DEF Open, NewBlock
<1>12. NewBlock.term.to = <<>>
  BY DEF NewBlock, Undefined
<1>13. Moves(blocks, curr, Fills(Top), blocks', curr')
  BY <1>1, <1>3, <1>4, <1>5, <1>7, <1>10, <1>11, <1>12 DEF Moves
<1>14. Fills(f) = {join}
  <2>1. Len(f.to) = 2 /\ f.to[2] = join /\ f.at \in Heads
    BY <1>8 DEF Heads
  <2> QED
    BY <2>1, FillsIs
<1>15. Remain(blocks, Fills(Top), blocks', curr') = Fills(f)
  BY <1>1, <1>3, <1>5, <1>7, <1>10, <1>14 DEF Remain
<1>16. ~Open(blocks', head)
  <2>1. CASE head = curr
    BY <1>10, <2>1
  <2>2. CASE head # curr
    <3>1. ~Open(blocks, head) /\ blocks'[head] = blocks[head]
      BY <1>4, <1>7, <1>10, <2>2
    <3> QED
      BY <3>1 DEF Open
  <2> QED
    BY <2>1, <2>2
<1>17. f.at = "loop_block" /\ f.to[1] = head
  BY <1>8
<1>18. Untouched(blocks', curr', Fills(f)) => FrameWaits(blocks', curr', f)
  BY <1>16, <1>17 DEF FrameWaits
<1> QED
  BY <1>6, <1>8, <1>9, <1>13, <1>15, <1>18, MoveControl
-----------------------------------------------------------------------------
\* The list of a function is left with nothing waiting.
LEMMA EndFunctionControl ==
  ASSUME IInv, Running, Control, EndFunction
  PROVE  Controls
<1>1. /\ InStmts /\ Top.at = "fn_block" /\ walk' = <<>>
      /\ blocks' = IF Open(blocks, curr) THEN Terminate(blocks, curr, ImplicitHalt) ELSE blocks
  BY DEF EndFunction
<1>2. /\ Butlast(walk) = <<>> /\ Top \in Frames
      /\ FrameOK(Top, unclaimed, next_slot, Len(blocks))
      /\ ControlOK(blocks, curr, Butlast(walk), Fills(Top))
  BY <1>1, ControlTop
<1>3. Quiet(Top)
  BY <1>1, <1>2, QuietFrame DEF Heads
<1>4. Fills(Top) = {}
  BY <1>3, QuietIs
<1>5. ControlOK(blocks, curr, <<>>, {}) /\ Len(<<>>) = 0
  BY <1>2, <1>4
<1>6. /\ \A b \in 1..Len(blocks) : Open(blocks, b) => b = curr
      /\ blocks[curr].term.to = <<>>
  BY <1>5 DEF ControlOK
<1>7. /\ ~Open(blocks', curr) /\ Len(blocks') = Len(blocks)
      /\ \A b \in 1..Len(blocks) : b # curr => blocks'[b] = blocks[b]
  <2>1. CASE Open(blocks, curr)
    <3>1. ImplicitHalt \in TermRecs /\ ImplicitHalt # Undefined
      BY ImplicitHaltIs
    <3>2. blocks \in Seq(BlockRecs) /\ curr \in 1..Len(blocks)
      BY WhileRunning
    <3>3. /\ Len(Terminate(blocks, curr, ImplicitHalt)) = Len(blocks)
          /\ Terminate(blocks, curr, ImplicitHalt)[curr].term = ImplicitHalt
          /\ \A b \in 1..Len(blocks) :
               b # curr => Terminate(blocks, curr, ImplicitHalt)[b] = blocks[b]
      BY <3>1, <3>2, TerminateIs
    <3>4. blocks' = Terminate(blocks, curr, ImplicitHalt)
      BY <1>1, <2>1
    <3> QED
      BY <3>1, <3>3, <3>4 DEF Open
  <2>2. CASE ~Open(blocks, curr)
    BY <1>1, <2>2
  <2> QED
    BY <2>1, <2>2
<1>8. \A b \in 1..Len(blocks') : ~Open(blocks', b)
  BY <1>6, <1>7 DEF Open
<1>9. Left(blocks, blocks')
  BY <1>6, <1>7 DEF Left
<1> QED
  BY <1>1, <1>8, <1>9 DEF Controls, Control, Running

\* A function begins with the one block, which is being filled.
LEMMA EntryControl ==
  ASSUME NEW h \in Nat
  PROVE  ControlOK(Entry, 1, <<FirstFrame(h)>>, {})
<1> DEFINE w == <<FirstFrame(h)>>
<1>1. Entry[1].term.to = <<>> /\ Len(Entry) = 1
  BY EntryIs, NewBlockIs
<1>2. Quiet(FirstFrame(h))
  BY FirstWalk DEF Quiet, Heads
<1>3. Fills(FirstFrame(h)) = {} /\ FrameWaits(Entry, 1, FirstFrame(h))
  BY <1>2, QuietIs
<1>4. Len(w) = 1 /\ w[1] = FirstFrame(h)
  OBVIOUS
<1> HIDE DEF w
<1>5. \A k \in 1..Len(w) : w[k] = FirstFrame(h)
  BY <1>4
<1>6. ControlOK(Entry, 1, w, {})
  BY <1>1, <1>3, <1>4, <1>5 DEF ControlOK, Untouched
<1> QED
  BY <1>6 DEF w

LEMMA InitControl == Init => Control
<1> SUFFICES ASSUME Init PROVE Control
  OBVIOUS
<1>1. blocks = Entry /\ curr = 1 /\ walk = <<FirstFrame(0)>> /\ walk # <<>>
  BY DEF Init, Entry, FirstFrame
<1> QED
  BY <1>1, EntryControl DEF Control, Running

LEMMA BeginFunctionControl ==
  ASSUME IInv, BeginFunction
  PROVE  Control'
<1>1. /\ blocks' = Entry /\ curr' = 1 /\ walk' = <<FirstFrame(Height)>> /\ walk' # <<>>
  BY DEF BeginFunction, Entry, FirstFrame
<1>2. Height \in Nat
  BY ShapeIs
<1> QED
  BY <1>1, <1>2, EntryControl DEF Control, Running

\* Only between two functions is no function running.
LEMMA NotRunning ==
  ASSUME IInv, ~Running, [Next]_vars
  PROVE  BeginFunction \/ UNCHANGED vars
<1>1. ~InExpr /\ ~InStmts /\ ~ExprDone
  BY DEF InExpr, InStmts, ExprDone
<1>2. ~(\E n, v, insts : Eval(n, v, insts))
  BY <1>1 DEF Eval
<1>3. ~(\E at \in {"and_lhs", "or_lhs"} : BeginLogOp(at)) /\ ~FinishLhs /\ ~FinishRhs
  BY <1>1 DEF BeginLogOp, FinishLhs, FinishRhs
<1>4. ~BeginSimple
  BY <1>1 DEF BeginSimple, BeginStmt
<1>5. ~VarDec /\ ~BareVarDec /\ ~Assn /\ ~Exit /\ ~BareExit /\ ~CallStmt
  BY <1>1 DEF VarDec, BareVarDec, Assn, Exit, BareExit, CallStmt
<1>6. ~(\E else \in BOOLEAN : If(else)) /\ ~EndThen /\ ~EndIf
  BY <1>1 DEF If, EndThen, EndIf
<1>7. ~BeginWhile /\ ~WhileBody /\ ~EndWhile
  BY <1>1 DEF BeginWhile, WhileBody, EndWhile
<1>8. ~BeginBlock /\ ~EndBlock /\ ~EndFunction
  BY <1>1 DEF BeginBlock, EndBlock, EndFunction
<1> QED
  BY <1>2, <1>3, <1>4, <1>5, <1>6, <1>7, <1>8, StepIs

LEMMA StepControl ==
  ASSUME IInv, Control, [Next]_vars
  PROVE  Control' /\ (Running => Left(blocks, blocks'))
<1>1. CASE UNCHANGED vars
  BY <1>1 DEF vars, Control, Running, Left
<1>2. CASE Running /\ ~UNCHANGED vars
  <2>1. ~BeginFunction
    BY <1>2 DEF BeginFunction
  <2>2. Controls
    BY <1>2, <2>1, StepIs, EvalControl, BeginLogOpControl, FinishLhsControl,
       FinishRhsControl, BeginSimpleControl, VarDecControl, BareVarDecControl,
       AssnControl, ExitControl, CallStmtControl, IfControl, EndThenControl,
       EndIfControl, BeginWhileControl, WhileBodyControl, EndWhileControl,
       BeginBlockControl, EndBlockControl, EndFunctionControl, Zenon
  <2> QED
    BY <2>2 DEF Controls
<1>3. CASE ~Running /\ ~UNCHANGED vars
  BY <1>3, NotRunning, BeginFunctionControl
<1> QED
  BY <1>1, <1>2, <1>3

\* Whatever is compiled, the blocks still to be filled are those that unfinished
\* nodes wait for, each waiting for its own, and nobody has touched them.
THEOREM ControlInvariant == Spec => [](IInv /\ Control)
<1>1. Init => Control
  BY InitControl
<1>2. IInv /\ Control /\ [Next]_vars => Control'
  BY StepControl
<1> QED
  BY <1>1, <1>2, InductiveInvariant, PTL DEF Spec

\* Every block is given a terminator: while a function is compiled, one without
\* is the current one or a node on the walk is going to fill it; afterwards
\* there is none, as the LIR generator takes for granted.
THEOREM OpenBlocksAreFilled == Spec => []OpenBlocksAreAwaited
<1>1. IInv /\ Control => OpenBlocksAreAwaited
  <2> SUFFICES ASSUME IInv, Control, NEW b \in BlockIds, Open(blocks, b)
               PROVE  /\ Running
                      /\ \/ b = curr
                         \/ \E f \in DOMAIN walk : \E k \in DOMAIN walk[f].to : walk[f].to[k] = b
    BY DEF OpenBlocksAreAwaited
  <2>1. Running
    BY DEF Control, BlockIds
  <2>2. walk \in Seq(Frames) /\ ControlOK(blocks, curr, walk, {})
    BY <2>1, WhileRunning
  <2>3. b = curr \/ \E f \in 1..Len(walk) : b \in Fills(walk[f])
    BY <2>2 DEF ControlOK, BlockIds
  <2>4. ASSUME NEW f \in 1..Len(walk), b \in Fills(walk[f])
        PROVE  f \in DOMAIN walk /\ \E k \in DOMAIN walk[f].to : walk[f].to[k] = b
    <3>1. walk[f] \in Frames /\ f \in DOMAIN walk
      BY <2>2
    <3>2. walk[f].to \in Seq(Nat)
      BY <3>1 DEF Frames
    <3>3. \E k \in 1..Len(walk[f].to) : walk[f].to[k] = b
      BY <2>4 DEF Fills
    <3> QED
      BY <3>1, <3>2, <3>3
  <2> QED
    BY <2>1, <2>3, <2>4
<1> QED
  BY <1>1, ControlInvariant, PTL

\* Once control has left a block by a jump or a branch, nothing is appended to
\* it and its terminator stays.
THEOREM BlocksLeftAlone == Spec => LeftBlocksStay
<1>1. IInv /\ Control /\ [Next]_vars
        => [Running => \A b \in BlockIds : blocks[b].term.to # <<>> => blocks'[b] = blocks[b]]_vars
  BY StepControl DEF Left, BlockIds
<1> QED
  BY <1>1, ControlInvariant, PTL DEF Spec, LeftBlocksStay
-----------------------------------------------------------------------------
LEMMA SuccsAre ==
  ASSUME IInv
  PROVE  /\ BlockIds = 1..Len(blocks) /\ Len(blocks) \in Nat /\ 1 \in BlockIds
         /\ \A b \in BlockIds :
              /\ Succs(b) = {blocks[b].term.to[k] : k \in 1..Len(blocks[b].term.to)}
              /\ Succs(b) \subseteq BlockIds
<1>1. BlocksOK(blocks, next_temp, next_slot) /\ curr \in 1..Len(blocks) /\ Len(blocks) \in Nat
  BY ShapeIs
<1>2. BlockIds = 1..Len(blocks) /\ 1 \in BlockIds
  BY <1>1 DEF BlockIds
<1>3. ASSUME NEW b \in BlockIds
      PROVE  /\ Succs(b) = {blocks[b].term.to[k] : k \in 1..Len(blocks[b].term.to)}
             /\ Succs(b) \subseteq BlockIds
  <2>1. blocks[b].term.to \in Seq(Nat) /\ b \in 1..Len(blocks)
    BY <1>1, <1>2, BlockParts
  <2>2. DOMAIN blocks[b].term.to = 1..Len(blocks[b].term.to)
    BY <2>1
  <2>3. \A k \in 1..Len(blocks[b].term.to) : blocks[b].term.to[k] \in 1..Len(blocks)
    BY <1>1, <2>1 DEF BlocksOK
  <2> QED
    BY <1>2, <2>2, <2>3 DEF Succs
<1> QED
  BY <1>1, <1>2, <1>3

\* What is reached in so many steps.
Rounds(S, f) ==
  /\ f \in [Nat -> SUBSET BlockIds]
  /\ f[0] = {1}
  /\ \A n \in Nat : f[n + 1] = f[n] \cup UNION {Succs(b) : b \in f[n] \cap S}
  /\ ReachedThrough(S) = f[Len(blocks)]

LEMMA RoundsAre ==
  ASSUME IInv, NEW S
  PROVE  \E f : Rounds(S, f)
<1> DEFINE X == SUBSET BlockIds
           More(r) == r \cup UNION {Succs(b) : b \in r \cap S}
           step == [n \in Nat |-> [r \in X |-> More(r)]]
           Eq(g) == g = [n \in Nat |-> IF n = 0 THEN {1} ELSE More(g[n - 1])]
           grow == CHOOSE g : Eq(g)
<1>1. {1} \in X /\ \A r \in X : More(r) \in X
  BY SuccsAre
<1> HIDE DEF X, More
<1>2. step \in [Nat -> [X -> X]] /\ \A n \in Nat : \A r \in X : step[n][r] = More(r)
  BY <1>1
<1> HIDE DEF step
<1>3. PICK f \in [Nat -> X] : f[0] = {1} /\ \A n \in Nat : f[n + 1] = step[n][f[n]]
  <2> DEFINE x == {1}
  <2>1. x \in X
    BY <1>1
  <2>2. step \in [Nat -> [X -> X]]
    BY <1>2
  <2> HIDE DEF x
  <2>3. \E f : IsRecursive(f, X, x, step)
    BY <2>1, <2>2, Recursion
  <2> QED
    BY <2>3 DEF x, IsRecursive
<1>4. \A n \in Nat : f[n + 1] = More(f[n])
  <2>1. \A n \in Nat : f[n] \in X
    BY <1>3
  <2> QED
    BY <1>2, <1>3, <2>1
<1>5. Eq(f)
  <2>1. ASSUME NEW n \in Nat PROVE f[n] = IF n = 0 THEN {1} ELSE More(f[n - 1])
    <3>1. CASE n = 0
      BY <1>3, <3>1
    <3>2. CASE n # 0
      <4>1. n - 1 \in Nat /\ n - 1 + 1 = n
        BY <3>2
      <4>2. f[n - 1 + 1] = More(f[n - 1])
        BY <1>4, <4>1
      <4> QED
        BY <3>2, <4>1, <4>2
    <3> QED
      BY <3>1, <3>2
  <2> QED
    BY <1>3, <2>1
<1>6. Eq(grow)
  <2> HIDE DEF Eq
  <2> QED
    BY <1>5
<1> HIDE DEF grow
<1>7. grow[0] = {1} /\ \A n \in Nat : grow[n + 1] = More(grow[n])
  <2>1. ASSUME NEW n \in Nat PROVE grow[n + 1] = More(grow[n])
    <3>1. n + 1 \in Nat /\ n + 1 # 0 /\ n + 1 - 1 = n
      OBVIOUS
    <3> QED
      BY <1>6, <3>1
  <2> QED
    BY <1>6, <2>1
<1>8. grow \in [Nat -> X]
  <2> DEFINE A == {n \in Nat : grow[n] \in X}
  <2>1. 0 \in A
    BY <1>1, <1>7
  <2>2. \A n \in Nat : n \in A => n + 1 \in A
    BY <1>1, <1>7
  <2> HIDE DEF A
  <2>3. Nat \subseteq A
    BY <2>1, <2>2, Induction
  <2> QED
    BY <1>6, <2>3 DEF A
<1>9. ReachedThrough(S) = grow[Len(blocks)]
  BY DEF ReachedThrough, grow, More
<1> QED
  BY <1>7, <1>8, <1>9 DEF Rounds, X, More

\* What is reached lies in every set that holds the entry and, with a block of
\* S, its successors.
LEMMA ReachedLeast ==
  ASSUME IInv, NEW S, NEW C, 1 \in C, \A b \in C \cap S : Succs(b) \subseteq C
  PROVE  ReachedThrough(S) \subseteq C
<1>1. PICK f : Rounds(S, f)
  BY RoundsAre
<1> DEFINE A == {n \in Nat : f[n] \subseteq C}
<1>2. 0 \in A
  BY <1>1 DEF Rounds
<1>3. ASSUME NEW n \in Nat, n \in A PROVE n + 1 \in A
  <2>1. f[n + 1] = f[n] \cup UNION {Succs(b) : b \in f[n] \cap S} /\ f[n] \subseteq C
    BY <1>1, <1>3 DEF Rounds
  <2> QED
    BY <2>1
<1> HIDE DEF A
<1>4. Nat \subseteq A
  BY <1>2, <1>3, Induction
<1>5. Len(blocks) \in A
  BY <1>4, SuccsAre
<1> QED
  BY <1>1, <1>5 DEF A, Rounds

\* And it is such a set: there are no more rounds than blocks before nothing
\* is added any more.
LEMMA ReachedClosed ==
  ASSUME IInv, NEW S
  PROVE  /\ 1 \in ReachedThrough(S) /\ ReachedThrough(S) \subseteq BlockIds
         /\ \A b \in ReachedThrough(S) \cap S : Succs(b) \subseteq ReachedThrough(S)
<1>1. PICK f : Rounds(S, f)
  BY RoundsAre
<1> DEFINE N == Len(blocks)
           More(r) == r \cup UNION {Succs(b) : b \in r \cap S}
           A == {n \in Nat : 1 \in f[n] /\ (f[n + 1] = f[n] \/ Cardinality(f[n]) >= n + 1)}
<1>2. N \in Nat /\ IsFiniteSet(BlockIds) /\ Cardinality(BlockIds) = N
  <2>1. N \in Nat /\ BlockIds = 1..N
    BY SuccsAre
  <2> HIDE DEF N
  <2>2. IsFiniteSet(1..N) /\ Cardinality(1..N) = IF 1 > N THEN 0 ELSE N - 1 + 1
    BY <2>1, FS_Interval
  <2> QED
    BY <2>1, <2>2
<1>3. /\ f[0] = {1}
      /\ \A n \in Nat : f[n] \subseteq BlockIds /\ f[n + 1] = More(f[n])
  BY <1>1 DEF Rounds
<1>4. \A r : r \subseteq More(r)
  OBVIOUS
<1> HIDE DEF More
<1>5. \A n \in Nat : IsFiniteSet(f[n]) /\ Cardinality(f[n]) \in Nat /\ Cardinality(f[n]) <= N
  <2> HIDE DEF N
  <2>1. ASSUME NEW n \in Nat
        PROVE  IsFiniteSet(f[n]) /\ Cardinality(f[n]) \in Nat /\ Cardinality(f[n]) <= N
    <3>1. f[n] \in SUBSET BlockIds
      BY <1>3
    <3>2. IsFiniteSet(f[n]) /\ Cardinality(f[n]) <= Cardinality(BlockIds)
      BY <1>2, <3>1, FS_Subset
    <3>3. Cardinality(f[n]) \in Nat
      BY <3>2, FS_CardinalityType
    <3> QED
      BY <1>2, <3>2, <3>3
  <2> QED
    BY <2>1
<1>6. 0 \in A
  <2>1. Cardinality({1}) = 1
    BY FS_Singleton
  <2> QED
    BY <1>3, <2>1
<1>7. ASSUME NEW n \in Nat, n \in A PROVE n + 1 \in A
  <2>1. n + 1 \in Nat /\ f[n + 1] = More(f[n]) /\ f[n + 1 + 1] = More(f[n + 1])
    BY <1>3
  <2>2. 1 \in f[n + 1]
    BY <1>4, <1>7, <2>1
  <2>3. CASE f[n + 1] = f[n]
    <3>1. f[n + 1 + 1] = f[n + 1]
      BY <2>1, <2>3
    <3> QED
      BY <2>1, <2>2, <3>1
  <2>4. CASE f[n + 1] # f[n] /\ Cardinality(f[n]) >= n + 1
    <3>1. f[n] \subseteq f[n + 1] /\ IsFiniteSet(f[n + 1])
      BY <1>4, <1>5, <2>1
    <3>2. Cardinality(f[n]) < Cardinality(f[n + 1])
      <4>1. f[n] \in SUBSET f[n + 1]
        BY <3>1
      <4>2. /\ Cardinality(f[n]) <= Cardinality(f[n + 1])
            /\ Cardinality(f[n + 1]) = Cardinality(f[n]) => f[n + 1] = f[n]
        BY <3>1, <4>1, FS_Subset
      <4>3. Cardinality(f[n]) \in Nat /\ Cardinality(f[n + 1]) \in Nat
        BY <1>5, <2>1
      <4> QED
        BY <2>4, <4>2, <4>3
    <3>3. Cardinality(f[n + 1]) >= n + 1 + 1
      <4>1. \A a, b \in Nat : a < b /\ a >= n + 1 => b >= n + 1 + 1
        OBVIOUS
      <4>2. Cardinality(f[n]) \in Nat /\ Cardinality(f[n + 1]) \in Nat
        BY <1>5, <2>1
      <4> QED
        BY <2>4, <3>2, <4>1, <4>2
    <3> QED
      BY <2>1, <2>2, <3>3
  <2> QED
    BY <1>7, <2>3, <2>4
<1>8. N \in A
  <2> HIDE DEF A
  <2>1. Nat \subseteq A
    BY <1>6, <1>7, Induction
  <2> QED
    BY <1>2, <2>1
<1>9. 1 \in f[N] /\ f[N + 1] = f[N]
  BY <1>2, <1>5, <1>8
<1>10. More(f[N]) = f[N] /\ f[N] \subseteq BlockIds /\ ReachedThrough(S) = f[N]
  BY <1>1, <1>2, <1>3, <1>9 DEF Rounds
<1> QED
  BY <1>9, <1>10 DEF More
-----------------------------------------------------------------------------
\* The blocks a block leads to.
To(blk) == {blk.term.to[k] : k \in 1..Len(blk.term.to)}

LEMMA ToIs ==
  /\ \A blk : blk.term.to = <<>> => To(blk) = {}
  /\ To(NewBlock) = {}
  /\ \A blk, b : blk.term = Jump(b) => To(blk) = {b}
  /\ \A blk, v, b, c : blk.term = BranchIfZero(v, b, c) => To(blk) = {b, c}
<1>1. ASSUME NEW blk, blk.term.to = <<>> PROVE To(blk) = {}
  <2>1. Len(blk.term.to) = 0
    BY <1>1
  <2> QED
    BY <2>1 DEF To
<1>2. NewBlock.term.to = <<>>
  BY NewBlockIs
<1>3. ASSUME NEW blk, NEW b, blk.term = Jump(b) PROVE To(blk) = {b}
  <2>1. Len(blk.term.to) = 1 /\ blk.term.to[1] = b
    BY <1>3 DEF Jump
  <2> QED
    BY <2>1 DEF To
<1>4. ASSUME NEW blk, NEW v, NEW b, NEW c, blk.term = BranchIfZero(v, b, c)
      PROVE  To(blk) = {b, c}
  <2>1. Len(blk.term.to) = 2 /\ blk.term.to[1] = b /\ blk.term.to[2] = c
    BY <1>4 DEF BranchIfZero
  <2> QED
    BY <2>1 DEF To
<1> QED
  BY <1>1, <1>2, <1>3, <1>4

Leads(blk, T) == To(blk) = T

\* Control passes from the current block, which leads to those of T from now on
\* unless it ends in a return, to another.
Passes(T) ==
  /\ Len(blocks) \in Nat /\ Len(blocks') \in Nat /\ Len(blocks') >= Len(blocks)
  /\ curr \in 1..Len(blocks) /\ curr' \in 1..Len(blocks') /\ curr # curr'
  /\ \A b \in 1..Len(blocks) : b # curr /\ b # curr' => blocks'[b] = blocks[b]
  /\ \A b \in Len(blocks) + 1..Len(blocks') : blocks'[b] = NewBlock
  /\ Leads(blocks'[curr], T) \/ (~Open(blocks, curr) /\ blocks'[curr].term = blocks[curr].term)
  /\ Leads(blocks[curr], {}) /\ blocks'[curr'].term.to = <<>>

\* A jump is made if the block is open.
LEMMA JumpPasses ==
  ASSUME NEW bs \in Seq(BlockRecs), NEW b \in 1..Len(bs), NEW to \in 1..Len(bs)
  PROVE  LET new == JumpIfOpen(bs, b, to) IN
         /\ new \in Seq(BlockRecs) /\ Len(new) = Len(bs)
         /\ \A c \in 1..Len(bs) : c # b => new[c] = bs[c]
         /\ \A c \in 1..Len(bs) : new[c].insts = bs[c].insts
         /\ Leads(new[b], {to}) \/ (~Open(bs, b) /\ new[b].term = bs[b].term)
<1> DEFINE new == JumpIfOpen(bs, b, to)
<1>1. to \in Nat
  OBVIOUS
<1>2. CASE Open(bs, b)
  <2>1. Jump(to) \in TermRecs
    BY <1>1, TermsAre, ValuesAre
  <2> DEFINE t == Terminate(bs, b, Jump(to))
  <2>2. /\ Len(t) = Len(bs) /\ t \in Seq(BlockRecs) /\ t[b].term = Jump(to)
        /\ \A c \in 1..Len(bs) : c # b => t[c] = bs[c]
        /\ \A c \in 1..Len(bs) : t[c].insts = bs[c].insts
    BY <2>1, TerminateIs
  <2>3. new = t
    BY <1>2 DEF JumpIfOpen
  <2> HIDE DEF new, t
  <2>4. Leads(new[b], {to})
    BY <2>2, <2>3, ToIs DEF Leads
  <2> QED
    BY <2>2, <2>3, <2>4 DEF new
<1>3. CASE ~Open(bs, b)
  <2>1. new = bs
    BY <1>3 DEF JumpIfOpen
  <2> HIDE DEF new
  <2> QED
    BY <1>3, <2>1 DEF new
<1> QED
  BY <1>2, <1>3

\* What is known of the frame on top and the current block before a step.
LEMMA OnTop ==
  ASSUME IInv, Running, Control
  PROVE  /\ Len(blocks) \in Nat /\ curr \in 1..Len(blocks) /\ blocks \in Seq(BlockRecs)
         /\ Leads(blocks[curr], {}) /\ blocks[curr].term.to = <<>>
         /\ Top = Last(walk) /\ Top \in Frames
         /\ FrameOK(Top, unclaimed, next_slot, Len(blocks))
         /\ \A b \in Fills(Top) : b \in 1..Len(blocks) /\ b # curr /\ blocks[b] = NewBlock
<1>1. /\ FrameWaits(blocks, curr, Top) /\ ControlOK(blocks, curr, walk, {})
      /\ Len(blocks) \in Nat /\ curr \in 1..Len(blocks) /\ blocks \in Seq(BlockRecs)
      /\ Top \in Frames /\ FrameOK(Top, unclaimed, next_slot, Len(blocks))
  BY ControlTop, WhileRunning
<1>2. blocks[curr].term.to = <<>>
  BY <1>1 DEF ControlOK
<1>3. Leads(blocks[curr], {})
  BY <1>2, ToIs DEF Leads
<1>4. Top = Last(walk)
  BY DEF Top
<1> QED
  BY <1>1, <1>2, <1>3, <1>4 DEF FrameWaits, Untouched

InstsKept == \A b \in 1..Len(blocks) : blocks'[b].insts = blocks[b].insts

\* The current block jumps if it is open, one that was waiting is filled next.
LEMMA JumpOn ==
  ASSUME IInv, Running, Control, NEW to \in 1..Len(blocks),
         blocks' = JumpIfOpen(blocks, curr, to), curr' \in Fills(Top)
  PROVE  Passes({to}) /\ InstsKept /\ Len(blocks') = Len(blocks)
<1>1. /\ Len(blocks) \in Nat /\ curr \in 1..Len(blocks) /\ blocks \in Seq(BlockRecs)
      /\ Leads(blocks[curr], {})
      /\ curr' \in 1..Len(blocks) /\ curr # curr' /\ blocks[curr'] = NewBlock
  BY OnTop
<1>2. /\ Len(blocks') = Len(blocks)
      /\ \A c \in 1..Len(blocks) : /\ c # curr => blocks'[c] = blocks[c]
                                   /\ blocks'[c].insts = blocks[c].insts
      /\ \/ Leads(blocks'[curr], {to})
         \/ ~Open(blocks, curr) /\ blocks'[curr].term = blocks[curr].term
  BY <1>1, JumpPasses
<1>3. blocks'[curr'] = NewBlock
  BY <1>1, <1>2
<1>4. blocks'[curr'].term.to = <<>>
  BY <1>3, NewBlockIs
<1>5. \A b \in Len(blocks) + 1..Len(blocks') : blocks'[b] = NewBlock
  BY <1>1, <1>2
<1>6. Passes({to})
  <2>1. /\ \/ Leads(blocks'[curr], {to})
           \/ ~Open(blocks, curr) /\ blocks'[curr].term = blocks[curr].term
        /\ \A b \in 1..Len(blocks) : b # curr /\ b # curr' => blocks'[b] = blocks[b]
        /\ Len(blocks') \in Nat /\ Len(blocks') >= Len(blocks) /\ curr' \in 1..Len(blocks')
    BY <1>1, <1>2
  <2> QED
    BY <1>1, <1>4, <1>5, <2>1 DEF Passes
<1> QED
  BY <1>2, <1>6, Zenon DEF InstsKept

LEMMA EndWhilePasses ==
  ASSUME IInv, Running, Control, EndWhile
  PROVE  /\ Passes({Top.to[1]}) /\ InstsKept /\ Len(blocks') = Len(blocks)
         /\ curr' = Top.to[2] /\ walk' = Butlast(walk) /\ Butlast(walk) # <<>>
         /\ Len(Top.to) = 2 /\ Top.at = "loop_block"
<1>1. /\ InStmts /\ Top.at = "loop_block"
      /\ blocks' = JumpIfOpen(blocks, curr, Top.to[1]) /\ curr' = Top.to[2]
      /\ walk' = Pop(walk, 1)
  BY DEF EndWhile
<1>2. Pop(walk, 1) = Butlast(walk) /\ Butlast(walk) # <<>>
      /\ FrameOK(Top, unclaimed, next_slot, Len(blocks))
  BY <1>1, OnList
<1>3. Len(Top.to) = 2 /\ Top.to[1] \in 1..Len(blocks)
  BY <1>1, <1>2 DEF FrameOK, Targets
<1>4. curr' \in Fills(Top)
  BY <1>1, <1>3, FillsIs DEF Heads
<1> QED
  BY <1>1, <1>2, <1>3, <1>4, JumpOn

LEMMA EndThenPasses ==
  ASSUME IInv, Running, Control, EndThen
  PROVE  /\ Passes({Top.to[2]}) /\ InstsKept /\ Len(blocks') = Len(blocks)
         /\ curr' = Top.to[1] /\ Butlast(walk) # <<>>
         /\ \E f \in Frames :
              /\ walk' = Append(Butlast(walk), f)
              /\ f.at = "else_block" /\ f.to = <<Top.to[2]>> /\ f.slot = NoSlot
              /\ f.scope = Last(Butlast(walk)).scope /\ f.reached = Open(blocks, curr)
         /\ Len(Top.to) = 2 /\ Top.at = "then_block"
<1> DEFINE f == [Frame("else_block", Top.base, NoSlot, <<Top.to[2]>>, walk[Len(walk) - 1].scope)
                   EXCEPT !.reached = Open(blocks, curr)]
<1>1. /\ InStmts /\ Top.at = "then_block" /\ Len(Top.to) = 2
      /\ blocks' = JumpIfOpen(blocks, curr, Top.to[2]) /\ curr' = Top.to[1]
      /\ walk' = [walk EXCEPT ![Len(walk)] = f]
  BY DEF EndThen
<1>2. /\ Butlast(walk) # <<>> /\ walk # <<>> /\ walk \in Seq(Frames) /\ Top \in Frames
      /\ FrameOK(Top, unclaimed, next_slot, Len(blocks))
      /\ Last(Butlast(walk)) \in Frames /\ Last(Butlast(walk)) = walk[Len(walk) - 1]
  BY <1>1, OnList
<1>3. Top.to[1] \in 1..Len(blocks) /\ Top.to[2] \in 1..Len(blocks) /\ Top.to[2] \in Nat
  BY <1>1, <1>2 DEF FrameOK
<1>4. curr' \in Fills(Top)
  BY <1>1, FillsIs DEF Heads
<1>5. f \in Frames
  <2>1. <<Top.to[2]>> \in Seq(Nat) /\ Open(blocks, curr) \in BOOLEAN /\ "else_block" \in Ats
    BY <1>3 DEF Open, Ats, StmtFrames
  <2>2. Top.base \in Nat /\ Last(Butlast(walk)).scope \in SUBSET Nat
    BY <1>2 DEF Frames
  <2> QED
    BY <1>2, <2>1, <2>2 DEF Frame, Frames
<1>6. /\ f.at = "else_block" /\ f.to = <<Top.to[2]>> /\ f.slot = NoSlot
      /\ f.scope = Last(Butlast(walk)).scope /\ f.reached = Open(blocks, curr)
  BY <1>2 DEF Frame
<1> HIDE DEF f
<1>7. walk' = Append(Butlast(walk), f)
  BY <1>1, <1>2, <1>5, ReplaceIs
<1> QED
  BY <1>1, <1>2, <1>3, <1>4, <1>5, <1>6, <1>7, JumpOn

LEMMA EndIfPasses ==
  ASSUME IInv, Running, Control, EndIf
  PROVE  /\ Passes({Top.to[1]}) /\ InstsKept /\ Len(blocks') = Len(blocks)
         /\ curr' = Top.to[1] /\ walk' = Butlast(walk) /\ Butlast(walk) # <<>>
         /\ Len(Top.to) = 1 /\ Top.at \in {"then_block", "else_block"}
<1> DEFINE join == Top.to[1]
<1>1. /\ InStmts /\ Top.at \in {"then_block", "else_block"} /\ Len(Top.to) = 1
      /\ \/ blocks' = JumpIfOpen(blocks, curr, join)
         \/ blocks' = Terminate(blocks, join, ImplicitHalt) /\ ~Open(blocks, curr)
      /\ curr' = join /\ walk' = Pop(walk, 1)
  <2>1. InStmts /\ Top.at \in {"then_block", "else_block"} /\ Len(Top.to) = 1
    BY DEF EndIf
  <2>2. Last(Top.to) = join
    BY <2>1 DEF Last
  <2>3. ~Open(blocks, curr) => JumpIfOpen(blocks, curr, join) = blocks
    BY DEF JumpIfOpen
  <2>4. \/ blocks' = JumpIfOpen(blocks, curr, join)
        \/ /\ blocks' = Terminate(JumpIfOpen(blocks, curr, join), join, ImplicitHalt)
           /\ ~Open(blocks, curr)
    BY <2>2, Zenon DEF EndIf
  <2>5. curr' = join /\ walk' = Pop(walk, 1)
    BY <2>2 DEF EndIf
  <2> QED
    BY <2>1, <2>3, <2>4, <2>5
<1>2. Pop(walk, 1) = Butlast(walk) /\ Butlast(walk) # <<>>
      /\ FrameOK(Top, unclaimed, next_slot, Len(blocks))
  BY <1>1, OnList
<1>3. join \in 1..Len(blocks)
  BY <1>1, <1>2 DEF FrameOK
<1>4. curr' \in Fills(Top)
  BY <1>1, FillsIs DEF Heads
<1>5. CASE blocks' = JumpIfOpen(blocks, curr, join)
  BY <1>1, <1>2, <1>3, <1>4, <1>5, JumpOn
<1>6. CASE blocks' = Terminate(blocks, join, ImplicitHalt) /\ ~Open(blocks, curr)
  <2>1. /\ Len(blocks) \in Nat /\ curr \in 1..Len(blocks) /\ blocks \in Seq(BlockRecs)
        /\ Leads(blocks[curr], {}) /\ curr # join
    BY <1>1, <1>4, OnTop
  <2>2. /\ Len(blocks') = Len(blocks)
        /\ \A c \in 1..Len(blocks) : blocks'[c].insts = blocks[c].insts
                                     /\ (c # join => blocks'[c] = blocks[c])
        /\ blocks'[join].term = ImplicitHalt
    <3> HIDE DEF join
    <3>1. ImplicitHalt \in TermRecs
      BY ImplicitHaltIs
    <3>2. /\ Len(Terminate(blocks, join, ImplicitHalt)) = Len(blocks)
          /\ Terminate(blocks, join, ImplicitHalt) \in Seq(BlockRecs)
          /\ Terminate(blocks, join, ImplicitHalt)[join].term = ImplicitHalt
          /\ \A c \in 1..Len(blocks) :
               /\ Terminate(blocks, join, ImplicitHalt)[c].insts = blocks[c].insts
               /\ c # join => Terminate(blocks, join, ImplicitHalt)[c] = blocks[c]
      BY <1>3, <2>1, <3>1, TerminateIs
    <3> QED
      BY <1>6, <3>2
  <2>3. blocks'[join].term.to = <<>>
    BY <2>2, ImplicitHaltIs
  <2>4. blocks'[curr] = blocks[curr]
    BY <2>1, <2>2
  <2>5. Passes({join})
    BY <1>1, <1>3, <1>6, <2>1, <2>2, <2>3, <2>4 DEF Passes
  <2> QED
    BY <1>1, <1>2, <2>2, <2>5 DEF InstsKept
<1> QED
  BY <1>1, <1>5, <1>6

LEMMA WhileBodyPasses ==
  ASSUME IInv, Running, Control, WhileBody
  PROVE  /\ Passes({Top.to[2], Top.to[3]}) /\ InstsKept /\ Len(blocks') = Len(blocks)
         /\ curr' = Top.to[2] /\ Butlast(walk) # <<>>
         /\ \E f \in Frames :
              /\ walk' = Append(Butlast(walk), f)
              /\ f.at = "loop_block" /\ f.to = <<Top.to[1], Top.to[3]>> /\ f.slot = NoSlot
              /\ f.scope = Top.scope
         /\ Len(Top.to) = 3 /\ Top.at = "while"
<1> DEFINE f == Frame("loop_block", Height - 1, NoSlot, <<Top.to[1], Top.to[3]>>, Top.scope)
           t == BranchIfZero(Last(val_stack), Top.to[2], Top.to[3])
           T == {Top.to[2], Top.to[3]}
<1>1. /\ ExprDone /\ Top.at = "while" /\ curr' = Top.to[2]
      /\ blocks' = IF Open(blocks, curr) THEN Terminate(blocks, curr, t) ELSE blocks
      /\ walk' = Append(Pop(walk, 1), f)
  BY DEF WhileBody, Push
<1>2. /\ Pop(walk, 1) = Butlast(walk) /\ Butlast(walk) # <<>>
      /\ Top \in Frames /\ FrameOK(Top, unclaimed, next_slot, Len(blocks))
      /\ Last(val_stack) \in Values /\ Height \in Nat \ {0} /\ Top.scope \in SUBSET Nat
  BY <1>1, OnValue
<1>3. Len(Top.to) = 3 /\ \A k \in 1..3 : Top.to[k] \in 1..Len(blocks) /\ Top.to[k] \in Nat
  <2>1. Len(Top.to) = 3
    BY <1>1, <1>2 DEF FrameOK, Targets
  <2>2. \A k \in 1..3 : Top.to[k] \in 1..Len(blocks)
    BY <1>2, <2>1 DEF FrameOK
  <2> QED
    BY <2>1, <2>2
<1>4. curr' \in Fills(Top)
  BY <1>1, <1>3, FillsIs DEF Heads
<1>5. /\ Len(blocks) \in Nat /\ curr \in 1..Len(blocks) /\ blocks \in Seq(BlockRecs)
      /\ Leads(blocks[curr], {})
      /\ curr' \in 1..Len(blocks) /\ curr # curr' /\ blocks[curr'] = NewBlock
  BY <1>4, OnTop
<1>6. t \in TermRecs /\ \A blk : blk.term = t => Leads(blk, T)
  <2>1. t \in TermRecs
    BY <1>2, <1>3, TermsAre
  <2>2. ASSUME NEW blk, blk.term = t PROVE Leads(blk, T)
    BY <2>2, ToIs DEF Leads
  <2> QED
    BY <2>1, <2>2
<1> HIDE DEF t, T
<1>7. /\ Len(blocks') = Len(blocks)
      /\ \A b \in 1..Len(blocks) : b # curr => blocks'[b] = blocks[b]
      /\ \A b \in 1..Len(blocks) : blocks'[b].insts = blocks[b].insts
      /\ \/ Leads(blocks'[curr], T)
         \/ ~Open(blocks, curr) /\ blocks'[curr].term = blocks[curr].term
  <2>1. CASE Open(blocks, curr)
    <3>1. /\ Len(Terminate(blocks, curr, t)) = Len(blocks)
          /\ Terminate(blocks, curr, t)[curr].term = t
          /\ \A b \in 1..Len(blocks) : b # curr => Terminate(blocks, curr, t)[b] = blocks[b]
          /\ \A b \in 1..Len(blocks) : Terminate(blocks, curr, t)[b].insts = blocks[b].insts
      BY <1>5, <1>6, TerminateIs
    <3> QED
      BY <1>1, <1>6, <2>1, <3>1
  <2>2. CASE ~Open(blocks, curr)
    BY <1>1, <2>2
  <2> QED
    BY <2>1, <2>2
<1>8. blocks'[curr'].term.to = <<>>
  BY <1>5, <1>7, NewBlockIs
<1>9. \A b \in Len(blocks) + 1..Len(blocks') : blocks'[b] = NewBlock
  BY <1>5, <1>7
<1>10. Passes(T)
  BY <1>5, <1>7, <1>8, <1>9 DEF Passes
<1>11. f \in Frames /\ f.at = "loop_block" /\ f.to = <<Top.to[1], Top.to[3]>> /\ f.slot = NoSlot
       /\ f.scope = Top.scope
  <2>1. <<Top.to[1], Top.to[3]>> \in Seq(Nat) /\ "loop_block" \in Ats /\ Height - 1 \in Nat
    BY <1>2, <1>3 DEF Ats, StmtFrames
  <2> QED
    BY <1>2, <2>1 DEF Frame, Frames
<1> HIDE DEF f
<1> QED
  BY <1>1, <1>2, <1>3, <1>7, <1>10, <1>11 DEF T, InstsKept

LEMMA NextNew ==
  ASSUME NEW n \in Nat, NEW k \in {2, 3}, NEW m, m = n + k
  PROVE  /\ n + 1 \in n + 1..m /\ n + 1 \in 1..m /\ n + 1 \notin 1..n
         /\ m \in Nat /\ m >= n
OBVIOUS

\* Blocks are created and the current one is terminated; the first new one is
\* filled next.
LEMMA CreatePasses ==
  ASSUME IInv, Running, Control,
         NEW news \in {<<NewBlock, NewBlock>>, <<NewBlock, NewBlock, NewBlock>>},
         NEW bs, bs = blocks \o news,
         NEW T, curr' = Len(blocks) + 1, Len(blocks') = Len(bs),
         \A b \in 1..Len(bs) : b # curr => blocks'[b] = bs[b],
         \/ Leads(blocks'[curr], T)
         \/ ~Open(blocks, curr) /\ blocks'[curr].term = blocks[curr].term
  PROVE  Passes(T) /\ Len(blocks') = Len(blocks) + Len(news)
<1>1. Len(blocks) \in Nat /\ curr \in 1..Len(blocks) /\ blocks \in Seq(BlockRecs)
      /\ Leads(blocks[curr], {})
  BY OnTop
<1>2. /\ Len(news) \in {2, 3} /\ Len(bs) = Len(blocks) + Len(news)
      /\ \A c \in 1..Len(blocks) : bs[c] = blocks[c]
      /\ \A c \in 1..Len(bs) : c \notin 1..Len(blocks) => bs[c] = NewBlock
  BY <1>1, CreateIs
<1>3. \A b \in 1..Len(blocks) : b # curr => blocks'[b] = blocks[b]
  BY <1>1, <1>2
<1>4. \A b \in Len(blocks) + 1..Len(blocks') : blocks'[b] = NewBlock
  BY <1>1, <1>2
<1>5. Len(blocks') = Len(blocks) + Len(news)
  BY <1>2
<1>6. /\ curr' \in Len(blocks) + 1..Len(blocks') /\ curr' \in 1..Len(blocks')
      /\ curr' \notin 1..Len(blocks)
      /\ Len(blocks') \in Nat /\ Len(blocks') >= Len(blocks)
  BY <1>1, <1>2, <1>5, NextNew, Zenon
<1>7. blocks'[curr'].term.to = <<>>
  BY <1>4, <1>6, NewBlockIs
<1> QED
  BY <1>1, <1>3, <1>4, <1>5, <1>6, <1>7 DEF Passes

LEMMA BeginWhilePasses ==
  ASSUME IInv, Running, Control, BeginWhile
  PROVE  /\ Passes({Len(blocks) + 1}) /\ InstsKept /\ Len(blocks') = Len(blocks) + 3
         /\ curr' = Len(blocks) + 1 /\ Top.at \in StmtFrames
         /\ \E f \in Frames :
              /\ walk' = Append(walk, f)
              /\ f.at = "while" /\ f.slot = NoSlot /\ f.scope = Top.scope
              /\ f.to = <<Len(blocks) + 1, Len(blocks) + 2, Len(blocks) + 3>>
<1> DEFINE n == Len(blocks)
           news == <<NewBlock, NewBlock, NewBlock>>
           bs == blocks \o news
           to == <<n + 1, n + 1 + 1, n + 1 + 2>>
           f == Frame("while", Height, NoSlot, to, Top.scope)
<1>1. /\ InStmts /\ walk' = Append(walk, f)
      /\ blocks' = JumpIfOpen(bs, curr, n + 1) /\ curr' = n + 1
  BY DEF BeginWhile, Push
<1>2. Top \in Frames /\ Top.at \in StmtFrames
  BY <1>1, OnStatement
<1>3. /\ n \in Nat /\ curr \in 1..n /\ blocks \in Seq(BlockRecs) /\ Height \in Nat
  BY WhileRunning, ShapeIs
<1>4. news \in {<<NewBlock, NewBlock>>, <<NewBlock, NewBlock, NewBlock>>} /\ Len(news) = 3
  OBVIOUS
<1> HIDE DEF news
<1>5. /\ bs \in Seq(BlockRecs) /\ Len(bs) = n + Len(news)
      /\ \A b \in 1..n : bs[b] = blocks[b]
  BY <1>3, <1>4, CreateIs
<1>6. curr \in 1..Len(bs) /\ n + 1 \in 1..Len(bs) /\ 1..n \subseteq 1..Len(bs)
  BY <1>3, <1>4, <1>5
<1>7. Open(bs, curr) <=> Open(blocks, curr)
  BY <1>3, <1>5 DEF Open
<1>8. bs = blocks \o news
  OBVIOUS
<1> HIDE DEF bs
<1>9. /\ Len(blocks') = Len(bs)
      /\ \A b \in 1..Len(bs) : b # curr => blocks'[b] = bs[b]
      /\ \A b \in 1..Len(bs) : blocks'[b].insts = bs[b].insts
      /\ \/ Leads(blocks'[curr], {n + 1})
         \/ ~Open(bs, curr) /\ blocks'[curr].term = bs[curr].term
  BY <1>1, <1>5, <1>6, JumpPasses
<1>10. \/ Leads(blocks'[curr], {n + 1})
       \/ ~Open(blocks, curr) /\ blocks'[curr].term = blocks[curr].term
  BY <1>3, <1>5, <1>7, <1>9
<1>11. Passes({n + 1}) /\ Len(blocks') = n + Len(news)
  BY <1>1, <1>4, <1>8, <1>9, <1>10, CreatePasses, Zenon
<1>12. InstsKept
  BY <1>5, <1>6, <1>9 DEF InstsKept
<1>13. to \in Seq(Nat) /\ to = <<n + 1, n + 2, n + 3>>
  BY <1>3
<1> HIDE DEF to
<1>14. f \in Frames /\ f.at = "while" /\ f.to = to /\ f.slot = NoSlot /\ f.scope = Top.scope
  <2>1. Top.scope \in SUBSET Nat /\ "while" \in Ats
    BY <1>2 DEF Frames, Ats, HeadFrames
  <2> QED
    BY <1>3, <1>13, <2>1 DEF Frame, Frames
<1> HIDE DEF f
<1> QED
  BY <1>1, <1>2, <1>4, <1>11, <1>12, <1>13, <1>14

LEMMA IfPasses ==
  ASSUME IInv, Running, Control, NEW else \in BOOLEAN, If(else)
  PROVE  /\ Passes({Len(blocks) + 1, Len(blocks) + 2}) /\ InstsKept
         /\ Len(blocks') = Len(blocks) + IF else THEN 3 ELSE 2
         /\ curr' = Len(blocks) + 1 /\ Butlast(walk) # <<>> /\ Top.at = "if"
         /\ \E f \in Frames :
              /\ walk' = Append(Butlast(walk), f)
              /\ f.at = "then_block" /\ f.slot = NoSlot /\ f.scope = Top.scope
              /\ f.to = IF else THEN <<Len(blocks) + 2, Len(blocks) + 3>> ELSE <<Len(blocks) + 2>>
<1> DEFINE n == Len(blocks)
           join == IF else THEN n + 3 ELSE n + 2
           news == IF else THEN <<NewBlock, NewBlock, NewBlock>> ELSE <<NewBlock, NewBlock>>
           bs == blocks \o news
           t == BranchIfZero(Last(val_stack), n + 1, n + 2)
           to == IF else THEN <<n + 2, join>> ELSE <<join>>
           f == Frame("then_block", Height - 1, NoSlot, to, Top.scope)
           T == {n + 1, n + 2}
<1>1. /\ ExprDone /\ Top.at = "if" /\ blocks' = Terminate(bs, curr, t)
      /\ curr' = n + 1 /\ walk' = Append(Pop(walk, 1), f)
  BY DEF If, Push
<1>2. /\ Last(val_stack) \in Values /\ Pop(walk, 1) = Butlast(walk) /\ Butlast(walk) # <<>>
      /\ Top \in Frames /\ Height \in Nat \ {0} /\ Top.scope \in SUBSET Nat
  BY <1>1, OnValue
<1>3. n \in Nat /\ curr \in 1..n /\ blocks \in Seq(BlockRecs)
  BY WhileRunning
<1>4. news \in {<<NewBlock, NewBlock>>, <<NewBlock, NewBlock, NewBlock>>}
      /\ Len(news) = IF else THEN 3 ELSE 2
  OBVIOUS
<1> HIDE DEF news
<1>5. /\ bs \in Seq(BlockRecs) /\ Len(bs) = n + Len(news)
      /\ \A b \in 1..n : bs[b] = blocks[b]
  BY <1>3, <1>4, CreateIs
<1>6. curr \in 1..Len(bs) /\ 1..n \subseteq 1..Len(bs)
  BY <1>3, <1>4, <1>5
<1>7. t \in TermRecs /\ \A blk : blk.term = t => Leads(blk, T)
  <2>1. n + 1 \in Nat /\ n + 2 \in Nat
    BY <1>3
  <2>2. t \in TermRecs
    BY <1>2, <2>1, TermsAre
  <2>3. ASSUME NEW blk, blk.term = t PROVE Leads(blk, T)
    BY <2>3, ToIs DEF Leads
  <2> QED
    BY <2>2, <2>3
<1>8. bs = blocks \o news
  OBVIOUS
<1> HIDE DEF bs, t, T
<1>9. /\ Len(blocks') = Len(bs) /\ Leads(blocks'[curr], T)
      /\ \A b \in 1..Len(bs) : b # curr => blocks'[b] = bs[b]
      /\ \A b \in 1..Len(bs) : blocks'[b].insts = bs[b].insts
  <2>1. /\ Len(Terminate(bs, curr, t)) = Len(bs) /\ Terminate(bs, curr, t)[curr].term = t
        /\ \A b \in 1..Len(bs) : b # curr => Terminate(bs, curr, t)[b] = bs[b]
        /\ \A b \in 1..Len(bs) : Terminate(bs, curr, t)[b].insts = bs[b].insts
    <3>1. bs \in Seq(BlockRecs) /\ curr \in 1..Len(bs) /\ t \in TermRecs
      BY <1>5, <1>6, <1>7
    <3> QED
      BY <3>1, TerminateIs
  <2> QED
    BY <1>1, <1>7, <2>1
<1>10. Passes(T) /\ Len(blocks') = n + Len(news)
  BY <1>1, <1>4, <1>8, <1>9, CreatePasses, Zenon
<1>11. InstsKept
  BY <1>5, <1>6, <1>9 DEF InstsKept
<1>12. to \in Seq(Nat) /\ to = IF else THEN <<n + 2, n + 3>> ELSE <<n + 2>>
  BY <1>3
<1> HIDE DEF to
<1>13. f \in Frames /\ f.at = "then_block" /\ f.to = to /\ f.slot = NoSlot /\ f.scope = Top.scope
  <2>1. "then_block" \in Ats /\ Height - 1 \in Nat
    BY <1>2 DEF Ats, StmtFrames
  <2> QED
    BY <1>2, <1>12, <2>1 DEF Frame, Frames
<1> HIDE DEF f, n
<1>14. walk' = Append(Butlast(walk), f)
  BY <1>1, <1>2
<1>15. Passes({n + 1, n + 2})
  BY <1>10 DEF T
<1>16. Len(blocks') = n + IF else THEN 3 ELSE 2
  BY <1>4, <1>10
<1>17. f.to = IF else THEN <<n + 2, n + 3>> ELSE <<n + 2>>
  BY <1>12, <1>13
<1>18. Passes({n + 1, n + 2}) /\ InstsKept
       /\ Len(blocks') = n + (IF else THEN 3 ELSE 2)
       /\ curr' = n + 1 /\ Butlast(walk) # <<>> /\ Top.at = "if"
  BY <1>1, <1>2, <1>11, <1>15, <1>16, Zenon
<1>19. \E g \in Frames :
          /\ walk' = Append(Butlast(walk), g)
          /\ g.at = "then_block" /\ g.slot = NoSlot /\ g.scope = Top.scope
          /\ g.to = IF else THEN <<n + 2, n + 3>> ELSE <<n + 2>>
  BY <1>13, <1>14, <1>17, Zenon
<1> QED
  BY <1>18, <1>19, Zenon DEF n
LEMMA FinishLhsPasses ==
  ASSUME IInv, Running, Control, FinishLhs
  PROVE  /\ Passes({Len(blocks) + 1, Len(blocks) + 2}) /\ Len(blocks') = Len(blocks) + 2
         /\ \A b \in 1..Len(blocks) : b # curr => blocks'[b].insts = blocks[b].insts
         /\ \E v \in Values : blocks'[curr].insts = blocks[curr].insts \o <<Store(Top.slot, v)>>
         /\ curr' = Len(blocks) + 1 /\ Butlast(walk) # <<>> /\ Top.at \in LogFrames
         /\ Top.at # "rhs"
         /\ \E f \in Frames :
              /\ walk' = Append(Butlast(walk), f)
              /\ f.at = "rhs" /\ f.slot = Top.slot /\ f.scope = Top.scope
              /\ f.to = <<Len(blocks) + 2>>
<1> DEFINE n == Len(blocks)
           news == <<NewBlock, NewBlock>>
           bs == blocks \o news
           f == Frame("rhs", Top.base, Top.slot, <<n + 2>>, Top.scope)
           c == IMM(IF Top.at = "and_lhs" THEN 0 ELSE 1)
           t == IF Top.at = "and_lhs" THEN BranchIfZero(Last(val_stack), n + 1, n + 2)
                ELSE BranchIfZero(Last(val_stack), n + 2, n + 1)
           i == <<Store(Top.slot, c)>>
           s == Emit(bs, curr, i)
           T == {n + 1, n + 2}
<1>1. /\ ExprDone /\ Top.at \in {"and_lhs", "or_lhs"}
      /\ blocks' = Terminate(s, curr, t) /\ curr' = n + 1
      /\ walk' = Append(Butlast(walk), f) /\ Butlast(walk) # <<>>
  <2>1. ExprDone
    BY DEF FinishLhs
  <2>2. Pop(walk, 1) = Butlast(walk) /\ Butlast(walk) # <<>>
    BY <2>1, OnValue
  <2> QED
    BY <2>1, <2>2 DEF FinishLhs, Push
<1>2. /\ Top \in Frames /\ FrameOK(Top, unclaimed, next_slot, n) /\ Last(val_stack) \in Values
  BY <1>1, OnValue
<1>4. n \in Nat /\ curr \in 1..n /\ blocks \in Seq(BlockRecs)
  BY WhileRunning
<1>5. /\ Len(news) = 2
      /\ news \in {<<NewBlock, NewBlock>>, <<NewBlock, NewBlock, NewBlock>>}
  OBVIOUS
<1> HIDE DEF news
<1>6. bs \in Seq(BlockRecs) /\ Len(bs) = n + Len(news) /\ \A b \in 1..n : bs[b] = blocks[b]
  BY <1>4, <1>5, CreateIs
<1>7. bs = blocks \o news
  OBVIOUS
<1> HIDE DEF bs
<1>8. t \in TermRecs /\ \A blk : blk.term = t => Leads(blk, T)
  <2>1. n + 1 \in Nat /\ n + 2 \in Nat
    BY <1>4
  <2>2. CASE Top.at = "and_lhs"
    <3>1. t \in TermRecs
      BY <1>2, <2>1, <2>2, TermsAre
    <3>2. ASSUME NEW blk, blk.term = t PROVE Leads(blk, T)
      BY <2>2, <3>2, ToIs DEF Leads
    <3> QED
      BY <3>1, <3>2
  <2>3. CASE Top.at # "and_lhs"
    <3>1. t \in TermRecs
      BY <1>2, <2>1, <2>3, TermsAre
    <3>2. ASSUME NEW blk, blk.term = t PROVE Leads(blk, T)
      BY <2>3, <3>2, ToIs DEF Leads
    <3> QED
      BY <3>1, <3>2
  <2> QED
    BY <2>2, <2>3
<1> HIDE DEF t, T
<1>9. c \in Values /\ i \in Seq(InstRecs) /\ i = <<Store(Top.slot, c)>>
  <2>1. Top.slot \in Nat /\ c \in Values /\ next_temp \in Nat
    BY <1>1, <1>2, ValuesAre, ShapeIs DEF FrameOK, LogFrames
  <2> HIDE DEF c
  <2> QED
    BY <2>1, InstsAre
<1> HIDE DEF i, c
<1>10. curr \in 1..Len(bs) /\ 1..n \subseteq 1..Len(bs)
  BY <1>4, <1>5, <1>6
<1>11. /\ s \in Seq(BlockRecs) /\ Len(s) = Len(bs)
       /\ \A b \in 1..Len(bs) : b # curr => s[b] = bs[b]
       /\ s[curr].insts = bs[curr].insts \o i
  <2>1. bs \in Seq(BlockRecs) /\ curr \in 1..Len(bs) /\ i \in Seq(InstRecs)
    BY <1>6, <1>9, <1>10
  <2> QED
    BY <2>1, EmitIs
<1> HIDE DEF s
<1>12. /\ Len(blocks') = Len(bs) /\ Leads(blocks'[curr], T)
       /\ \A b \in 1..Len(bs) : b # curr => blocks'[b] = s[b]
       /\ blocks'[curr].insts = s[curr].insts
  <2>1. /\ Len(Terminate(s, curr, t)) = Len(s) /\ Terminate(s, curr, t)[curr].term = t
        /\ \A b \in 1..Len(s) : b # curr => Terminate(s, curr, t)[b] = s[b]
        /\ Terminate(s, curr, t)[curr].insts = s[curr].insts
    <3>1. s \in Seq(BlockRecs) /\ curr \in 1..Len(s) /\ t \in TermRecs
      BY <1>8, <1>10, <1>11
    <3> QED
      BY <3>1, TerminateIs
  <2> QED
    BY <1>1, <1>8, <1>11, <2>1
<1>13. \A b \in 1..Len(bs) : b # curr => blocks'[b] = bs[b]
  BY <1>11, <1>12
<1>14. Passes(T) /\ Len(blocks') = n + Len(news)
  BY <1>1, <1>5, <1>7, <1>12, <1>13, CreatePasses, Zenon
<1>15. /\ \A b \in 1..n : b # curr => blocks'[b].insts = blocks[b].insts
       /\ blocks'[curr].insts = blocks[curr].insts \o <<Store(Top.slot, c)>>
  BY <1>4, <1>6, <1>9, <1>10, <1>11, <1>12, <1>13
<1>16. f \in Frames /\ f.at = "rhs" /\ f.slot = Top.slot /\ f.scope = Top.scope
       /\ f.to = <<n + 2>>
  <2>1. /\ n + 2 \in Nat /\ <<n + 2>> \in Seq(Nat) /\ "rhs" \in Ats
    BY <1>4 DEF Ats, LogFrames
  <2>2. Top.slot \in {NoSlot} \cup Nat /\ Top.base \in Nat /\ Top.scope \in SUBSET Nat
    BY <1>2 DEF Frames
  <2> QED
    BY <2>1, <2>2 DEF Frame, Frames
<1> HIDE DEF f
<1>17. Len(blocks') = n + 2 /\ Top.at \in LogFrames /\ Top.at # "rhs" /\ Passes({n + 1, n + 2})
  BY <1>1, <1>5, <1>14 DEF LogFrames, T
<1> HIDE DEF n
<1>18. \E g \in Frames :
          /\ walk' = Append(Butlast(walk), g)
          /\ g.at = "rhs" /\ g.slot = Top.slot /\ g.scope = Top.scope
          /\ g.to = <<n + 2>>
  BY <1>1, <1>16, Zenon
<1>19. \E v \in Values : blocks'[curr].insts = blocks[curr].insts \o <<Store(Top.slot, v)>>
  BY <1>9, <1>15, Zenon
<1>20. curr' = n + 1 /\ Butlast(walk) # <<>>
  BY <1>1
<1>21. \A b \in 1..n : b # curr => blocks'[b].insts = blocks[b].insts
  BY <1>15
<1>22. n = Len(blocks)
  BY DEF n
<1> QED
  BY <1>17, <1>18, <1>19, <1>20, <1>21, <1>22

LEMMA EmptyFront ==
  ASSUME NEW S, NEW s \in Seq(S)
  PROVE  <<>> \o s = s
OBVIOUS

LEMMA FinishRhsPasses ==
  ASSUME IInv, Running, Control, FinishRhs
  PROVE  /\ Passes({Top.to[1]}) /\ Len(blocks') = Len(blocks) /\ curr' = Top.to[1]
         /\ \A b \in 1..Len(blocks) : b # curr /\ b # curr'
              => blocks'[b].insts = blocks[b].insts
         /\ \E v \in Values, w \in Values : blocks'[curr].insts = blocks[curr].insts
              \o <<CmpOp(next_temp, w, IMM(0)), Store(Top.slot, v)>>
         /\ blocks'[curr'].insts = <<Load(next_temp + 1, Top.slot)>>
         /\ walk' = Butlast(walk) /\ Butlast(walk) # <<>>
         /\ Top.at = "rhs" /\ Len(Top.to) = 1
<1> DEFINE join == Top.to[1]
           lhs == Last(val_stack)
           is == <<CmpOp(next_temp, lhs, IMM(0)), Store(Top.slot, TEMP(next_temp))>>
           load == <<Load(next_temp + 1, Top.slot)>>
           bs == Emit(blocks, curr, is)
           js == JumpIfOpen(bs, curr, join)
<1>1. /\ ExprDone /\ Top.at = "rhs" /\ blocks' = Emit(js, join, load) /\ curr' = join
      /\ walk' = Pop(walk, 1)
  BY DEF FinishRhs
<1>2. /\ Top \in Frames /\ FrameOK(Top, unclaimed, next_slot, Len(blocks))
      /\ lhs \in Values
      /\ Pop(walk, 1) = Butlast(walk) /\ Butlast(walk) # <<>>
  BY <1>1, OnValue
<1> HIDE DEF lhs
<1>3. /\ Len(blocks) \in Nat /\ curr \in 1..Len(blocks) /\ blocks \in Seq(BlockRecs)
      /\ next_temp \in Nat /\ Leads(blocks[curr], {})
  BY OnTop, ShapeIs
<1>4. Len(Top.to) = 1 /\ join \in 1..Len(blocks) /\ Top.slot \in Nat
  BY <1>1, <1>2 DEF FrameOK, Targets, LogFrames
<1>5. Fills(Top) = {join}
  BY <1>1, <1>4, FillsIs DEF Heads
<1>6. join # curr /\ blocks[join] = NewBlock
  BY <1>5, OnTop
<1>7. is \in Seq(InstRecs) /\ load \in Seq(InstRecs) /\ TEMP(next_temp) \in Values
  <2>1. next_temp + 1 \in Nat /\ TEMP(next_temp) \in Values
    BY <1>3, ValuesAre
  <2>2. CmpOp(next_temp, lhs, IMM(0)) \in InstRecs
    BY <1>2, <1>3, <1>4, InstsAre
  <2>3. Store(Top.slot, TEMP(next_temp)) \in InstRecs
    BY <1>3, <1>4, <2>1, InstsAre
  <2>4. Load(next_temp + 1, Top.slot) \in InstRecs
    BY <1>2, <1>4, <2>1, InstsAre
  <2> QED
    BY <2>1, <2>2, <2>3, <2>4
<1>8. /\ is = <<CmpOp(next_temp, lhs, IMM(0)), Store(Top.slot, TEMP(next_temp))>>
      /\ load = <<Load(next_temp + 1, Top.slot)>>
  OBVIOUS
<1> HIDE DEF is, load, join
<1>9. /\ bs \in Seq(BlockRecs) /\ Len(bs) = Len(blocks)
      /\ \A b \in 1..Len(blocks) : b # curr => bs[b] = blocks[b]
      /\ bs[curr].insts = blocks[curr].insts \o is
      /\ bs[curr].term = blocks[curr].term
  BY <1>3, <1>7, EmitIs
<1>10. Open(bs, curr) <=> Open(blocks, curr)
  BY <1>9 DEF Open
<1> HIDE DEF bs
<1>11. /\ Len(js) = Len(bs) /\ js \in Seq(BlockRecs)
       /\ \A b \in 1..Len(bs) : b # curr => js[b] = bs[b]
       /\ js[curr].insts = bs[curr].insts
       /\ Leads(js[curr], {join}) \/ (~Open(bs, curr) /\ js[curr].term = bs[curr].term)
  <2>1. bs \in Seq(BlockRecs) /\ curr \in 1..Len(bs) /\ join \in 1..Len(bs)
    BY <1>3, <1>4, <1>9
  <2> QED
    BY <2>1, JumpPasses
<1> HIDE DEF js
<1>12. /\ Len(blocks') = Len(js)
       /\ \A b \in 1..Len(js) : b # join => blocks'[b] = js[b]
       /\ blocks'[join].term = js[join].term
       /\ blocks'[join].insts = js[join].insts \o load
  <2>1. js \in Seq(BlockRecs) /\ join \in 1..Len(js)
    BY <1>4, <1>9, <1>11
  <2>2. /\ Len(Emit(js, join, load)) = Len(js)
        /\ Emit(js, join, load)[join].term = js[join].term
        /\ Emit(js, join, load)[join].insts = js[join].insts \o load
        /\ \A b \in 1..Len(js) : b # join => Emit(js, join, load)[b] = js[b]
    BY <1>7, <2>1, EmitIs
  <2> QED
    BY <1>1, <2>2
<1>13. /\ Len(blocks') = Len(blocks)
       /\ \A b \in 1..Len(blocks) : b # curr /\ b # join => blocks'[b] = blocks[b]
       /\ blocks'[curr] = js[curr] /\ js[join] = NewBlock
       /\ blocks'[curr].insts = blocks[curr].insts \o is
  BY <1>3, <1>4, <1>6, <1>9, <1>11, <1>12
<1>14. blocks'[join].term.to = <<>> /\ blocks'[join].insts = <<>> \o load
  BY <1>12, <1>13, NewBlockIs
<1>15. \/ Leads(blocks'[curr], {join})
       \/ ~Open(blocks, curr) /\ blocks'[curr].term = blocks[curr].term
  <2>1. CASE Leads(js[curr], {join})
    BY <1>13, <2>1
  <2>2. CASE ~Open(bs, curr) /\ js[curr].term = bs[curr].term
    BY <1>9, <1>10, <1>13, <2>2
  <2> QED
    BY <1>11, <2>1, <2>2
<1>16. Passes({join})
  <2>1. \A b \in Len(blocks) + 1..Len(blocks') : blocks'[b] = NewBlock
    BY <1>3, <1>13
  <2>2. Len(blocks') \in Nat /\ Len(blocks') >= Len(blocks) /\ curr' \in 1..Len(blocks')
        /\ curr' = join
    BY <1>1, <1>3, <1>4, <1>13
  <2> QED
    BY <1>3, <1>6, <1>13, <1>14, <1>15, <2>1, <2>2 DEF Passes
<1>17. blocks'[join].insts = <<Load(next_temp + 1, Top.slot)>>
  BY <1>7, <1>8, <1>14, EmptyFront
<1>18. \A b \in 1..Len(blocks) : b # curr /\ b # join => blocks'[b].insts = blocks[b].insts
  BY <1>13
<1>19. blocks'[curr].insts = blocks[curr].insts
          \o <<CmpOp(next_temp, lhs, IMM(0)), Store(Top.slot, TEMP(next_temp))>>
  BY <1>8, <1>13
<1>20. \E v \in Values, w \in Values : blocks'[curr].insts = blocks[curr].insts
          \o <<CmpOp(next_temp, w, IMM(0)), Store(Top.slot, v)>>
  BY <1>2, <1>7, <1>19, Zenon
<1>21. curr' = join /\ walk' = Butlast(walk) /\ Butlast(walk) # <<>>
       /\ Top.at = "rhs" /\ Len(Top.to) = 1 /\ Len(blocks') = Len(blocks)
  BY <1>1, <1>2, <1>4, <1>13
<1> QED
  BY <1>16, <1>17, <1>18, <1>20, <1>21, Zenon DEF join
-----------------------------------------------------------------------------
\* The blocks nothing leads to yet that a frame is going to fill or to jump to.
Unlinked(f) == IF f.at = "then_block" /\ Len(f.to) = 2 THEN {f.to[2]}
               ELSE IF f.at = "while" THEN {f.to[2], f.to[3]} ELSE {}
UnlinkedBy(w) == UNION {Unlinked(w[k]) : k \in 1..Len(w)}

\* Every then block that an else block follows has jumped to the join block.
ThensJump(w) == \A k \in 1..Len(w) : w[k].at = "else_block" => w[k].reached

\* It holds the entry and whatever its blocks lead to.
Closed(C, bs) == 1 \in C /\ \A b \in C : b \in 1..Len(bs) => To(bs[b]) \subseteq C

Returned(bs, c) == \E b \in 1..Len(bs) : b # c /\ bs[b].term.type = "IR_HALT"

\* Unless a block other than the current one returns, all blocks are reached but
\* those the frames still have to link.
LinkedUp(bs, c, w) ==
  ~Returned(bs, c) =>
    /\ ThensJump(w)
    /\ \A C : Closed(C, bs) => \A b \in 1..Len(bs) : b \in C \/ b \in UnlinkedBy(w)

Linked == LinkedUp(blocks, curr, walk)

\* What a frame more or less makes of it.
LEMMA UnlinkedIs ==
  /\ \A w \in Seq(Frames) : w # <<>> =>
       /\ \A b \in UnlinkedBy(w) : b \in UnlinkedBy(Butlast(w)) \/ b \in Unlinked(Last(w))
       /\ ThensJump(w) => ThensJump(Butlast(w))
  /\ \A w \in Seq(Frames), f \in Frames :
       /\ \A b : b \in UnlinkedBy(w) \/ b \in Unlinked(f) => b \in UnlinkedBy(Append(w, f))
       /\ ThensJump(w) /\ (f.at = "else_block" => f.reached) => ThensJump(Append(w, f))
  /\ UnlinkedBy(<<>>) = {} /\ ThensJump(<<>>)
<1>1. ASSUME NEW w \in Seq(Frames), w # <<>>
      PROVE  /\ \A b \in UnlinkedBy(w) : b \in UnlinkedBy(Butlast(w)) \/ b \in Unlinked(Last(w))
             /\ ThensJump(w) => ThensJump(Butlast(w))
  <2> DEFINE v == Butlast(w)
  <2>1. /\ Len(w) \in Nat \ {0} /\ Len(v) = Len(w) - 1 /\ \A k \in 1..Len(w) - 1 : v[k] = w[k]
    BY <1>1, ButlastIs
  <2> HIDE DEF v
  <2>2. \A k \in 1..Len(v) : k \in 1..Len(w) /\ v[k] = w[k]
    BY <2>1
  <2>3. \A k \in 1..Len(w) : k = Len(w) \/ k \in 1..Len(v)
    BY <2>1
  <2>4. \A b \in UnlinkedBy(w) : b \in UnlinkedBy(v) \/ b \in Unlinked(w[Len(w)])
    BY <2>2, <2>3 DEF UnlinkedBy
  <2>5. ThensJump(w) => ThensJump(v)
    BY <2>2 DEF ThensJump
  <2> QED
    BY <2>4, <2>5 DEF v, Last
<1>2. ASSUME NEW w \in Seq(Frames), NEW f \in Frames
      PROVE  /\ \A b : b \in UnlinkedBy(w) \/ b \in Unlinked(f) => b \in UnlinkedBy(Append(w, f))
             /\ ThensJump(w) /\ (f.at = "else_block" => f.reached) => ThensJump(Append(w, f))
  <2> DEFINE v == Append(w, f)
             n == Len(w)
  <2>1. n \in Nat /\ Len(v) = n + 1 /\ v[n + 1] = f /\ \A k \in 1..n : v[k] = w[k]
    BY AppendIs
  <2> HIDE DEF v, n
  <2>2. /\ n + 1 \in 1..Len(v) /\ \A k \in 1..n : k \in 1..Len(v)
        /\ \A k \in 1..Len(v) : k = n + 1 \/ k \in 1..n
    BY <2>1
  <2>3. \A b : b \in UnlinkedBy(w) \/ b \in Unlinked(f) => b \in UnlinkedBy(v)
    BY <2>1, <2>2 DEF UnlinkedBy, n
  <2>4. ThensJump(w) /\ (f.at = "else_block" => f.reached) => ThensJump(v)
    BY <2>1, <2>2 DEF ThensJump, n
  <2> QED
    BY <2>3, <2>4 DEF v
<1>3. UnlinkedBy(<<>>) = {} /\ ThensJump(<<>>)
  <2>1. 1..Len(<<>>) = {}
    OBVIOUS
  <2> QED
    BY <2>1 DEF UnlinkedBy, ThensJump
<1> QED
  BY <1>1, <1>2, <1>3

\* What is in sight does not matter to the blocks.
LEMMA UnlinkedDeclare ==
  ASSUME NEW w \in Seq(Frames), w # <<>>, NEW x
  PROVE  LET v == Declare(w, x) IN
         /\ \A b \in UnlinkedBy(w) : b \in UnlinkedBy(v)
         /\ ThensJump(w) => ThensJump(v)
<1> DEFINE v == Declare(w, x)
           n == Len(w)
<1>1. n \in Nat /\ n >= 1 /\ w[n] \in Frames
  OBVIOUS
<1>2. Len(v) = n /\ \A k \in 1..n : /\ v[k].at = w[k].at /\ v[k].to = w[k].to
                                    /\ v[k].reached = w[k].reached
  <2>1. /\ Len(v) = n /\ \A k \in 1..n - 1 : v[k] = w[k]
        /\ v[n].at = w[n].at /\ v[n].to = w[n].to /\ v[n].reached = w[n].reached
    BY <1>1 DEF Declare, Frames
  <2> HIDE DEF v, n
  <2>2. \A k \in 1..n : k = n \/ k \in 1..n - 1
    BY <1>1
  <2> QED
    BY <2>1, <2>2
<1> HIDE DEF v, n
<1>3. \A k \in 1..n : Unlinked(v[k]) = Unlinked(w[k])
  BY <1>2 DEF Unlinked
<1>4. \A b \in UnlinkedBy(w) : b \in UnlinkedBy(v)
  BY <1>2, <1>3 DEF UnlinkedBy, n
<1>5. ThensJump(w) => ThensJump(v)
  BY <1>2 DEF ThensJump, n
<1> QED
  BY <1>4, <1>5 DEF v

\* The current block is none of those that still have to be linked.
LEMMA CurrentIsLinked ==
  ASSUME IInv, Running, Control
  PROVE  /\ curr \notin UnlinkedBy(walk)
         /\ Open(blocks, curr) \/ blocks[curr].term.type = "IR_HALT"
         /\ Len(blocks) \in Nat /\ curr \in 1..Len(blocks) /\ To(blocks[curr]) = {}
         /\ walk \in Seq(Frames) /\ walk # <<>> /\ Top = Last(walk) /\ Top \in Frames
         /\ Butlast(walk) \in Seq(Frames)
         /\ WalkOK(walk, unclaimed, next_slot, Len(blocks))
<1>1. /\ ControlOK(blocks, curr, walk, {}) /\ curr \in 1..Len(blocks)
      /\ blocks \in Seq(BlockRecs) /\ WalkOK(walk, unclaimed, next_slot, Len(blocks))
      /\ walk \in Seq(Frames) /\ walk # <<>> /\ Len(blocks) \in Nat
      /\ Butlast(walk) \in Seq(Frames) /\ Top \in Frames
  BY WhileRunning, ControlTop DEF Running
<1>2. ASSUME NEW k \in 1..Len(walk) PROVE curr \notin Unlinked(walk[k])
  <2>1. FrameOK(walk[k], unclaimed, next_slot, Len(blocks))
    BY <1>1 DEF WalkOK
  <2>2. \A b \in Unlinked(walk[k]) : b \in Fills(walk[k])
    <3>1. walk[k].at = "while" => Len(walk[k].to) = 3
      BY <2>1 DEF FrameOK, Targets
    <3>2. walk[k].at = "then_block" /\ Len(walk[k].to) = 2
             => Fills(walk[k]) = {walk[k].to[1], walk[k].to[2]}
      BY FillsIs DEF Heads
    <3>3. walk[k].at = "while" => Fills(walk[k]) = {walk[k].to[2], walk[k].to[3]}
      BY <3>1, FillsIs DEF Heads
    <3> QED
      BY <3>2, <3>3 DEF Unlinked
  <2>3. curr \notin Fills(walk[k])
    BY <1>1 DEF ControlOK, FrameWaits, Untouched
  <2> QED
    BY <2>2, <2>3
<1>3. curr \notin UnlinkedBy(walk)
  BY <1>2 DEF UnlinkedBy
<1>4. blocks[curr].term.to = <<>> /\ blocks[curr].term \in TermRecs
  <2>1. blocks[curr].term.to = <<>>
    BY <1>1 DEF ControlOK
  <2>2. blocks[curr] \in BlockRecs
    BY <1>1
  <2> QED
    BY <2>1, <2>2 DEF BlockRecs
<1>5. Open(blocks, curr) \/ blocks[curr].term.type = "IR_HALT"
  <2>1. Len(blocks[curr].term.to) = 0
    BY <1>4
  <2> QED
    BY <1>4, <2>1 DEF TermRecs, TermFits, Open
<1>6. To(blocks[curr]) = {}
  BY <1>4, ToIs
<1> QED
  BY <1>1, <1>3, <1>5, <1>6 DEF Top

\* Something happens in the current block.
LEMMA StayLinked ==
  ASSUME IInv, IInv', Running, Control, Linked, curr' = curr,
         \/ blocks' = blocks
         \/ \E x : blocks' = Emit(blocks, curr, x) \/ blocks' = Terminate(blocks, curr, x),
         \A b \in UnlinkedBy(walk) : b \in UnlinkedBy(walk'),
         ThensJump(walk) => ThensJump(walk')
  PROVE  Linked'
<1> DEFINE n == Len(blocks)
<1>1. n \in Nat /\ curr \in 1..n /\ To(blocks[curr]) = {}
  BY CurrentIsLinked
<1>2. Len(blocks') = n /\ \A b \in 1..n : b # curr => blocks'[b] = blocks[b]
  <2>1. blocks \in Seq(BlockRecs) /\ blocks' \in Seq(BlockRecs)
    BY DEF IInv, BlocksOK
  <2>2. /\ DOMAIN blocks' = DOMAIN blocks
        /\ \A b \in DOMAIN blocks : b # curr => blocks'[b] = blocks[b]
    BY DEF Emit, Terminate
  <2>3. DOMAIN blocks = 1..n /\ DOMAIN blocks' = 1..Len(blocks') /\ Len(blocks') \in Nat
    BY <2>1
  <2>4. Len(blocks') = n
    BY <1>1, <2>2, <2>3
  <2> QED
    BY <2>2, <2>3, <2>4
<1>3. Returned(blocks', curr') = Returned(blocks, curr)
  BY <1>2 DEF Returned
<1>4. ASSUME NEW C, Closed(C, blocks') PROVE Closed(C, blocks)
  BY <1>1, <1>2, <1>4 DEF Closed
<1> QED
  BY <1>2, <1>3, <1>4 DEF Linked, LinkedUp

\* Control passes to another block.
LEMMA PassLinked ==
  ASSUME IInv, Running, Control, Linked, NEW T, Passes(T),
         curr' \in 1..Len(blocks) => blocks[curr'] = NewBlock,
         \A b \in UnlinkedBy(walk) : b \in T \/ b \in UnlinkedBy(walk'),
         \A b \in Len(blocks) + 1..Len(blocks') : b \in T \/ b \in UnlinkedBy(walk'),
         ~Returned(blocks', curr') /\ ThensJump(walk) => ThensJump(walk')
  PROVE  Linked'
<1> DEFINE n == Len(blocks)
           m == Len(blocks')
<1>1. /\ n \in Nat /\ m \in Nat /\ m >= n /\ curr \in 1..n /\ curr' \in 1..m /\ curr # curr'
      /\ \A b \in 1..n : b # curr /\ b # curr' => blocks'[b] = blocks[b]
      /\ Leads(blocks'[curr], T) \/ (~Open(blocks, curr) /\ blocks'[curr].term = blocks[curr].term)
  BY DEF Passes
<1>2. /\ curr \notin UnlinkedBy(walk) /\ To(blocks[curr]) = {}
      /\ Open(blocks, curr) \/ blocks[curr].term.type = "IR_HALT"
  BY CurrentIsLinked
<1>3. \A b \in 1..n : b \in 1..m
  BY <1>1
<1>4. curr' \in 1..n => To(blocks[curr']) = {} /\ blocks[curr'].term.type # "IR_HALT"
  BY ToIs, NewBlockIs
<1> HIDE DEF n, m
<1> SUFFICES ASSUME ~Returned(blocks', curr')
             PROVE  /\ ThensJump(walk')
                    /\ \A C : Closed(C, blocks') =>
                         \A b \in 1..m : b \in C \/ b \in UnlinkedBy(walk')
  BY DEF Linked, LinkedUp, m
<1>5. To(blocks'[curr]) = T
  <2>1. blocks'[curr].term.type # "IR_HALT"
    BY <1>1, <1>3 DEF Returned, m
  <2> QED
    BY <1>1, <1>2, <2>1 DEF Leads
<1>6. ~Returned(blocks, curr)
  <2>1. ASSUME NEW b \in 1..n, b # curr PROVE blocks[b].term.type # "IR_HALT"
    <3>1. CASE b = curr'
      BY <1>4, <3>1
    <3>2. CASE b # curr'
      <4>1. blocks'[b] = blocks[b] /\ b \in 1..m
        BY <1>1, <1>3, <2>1, <3>2
      <4> QED
        BY <3>2, <4>1 DEF Returned, m
    <3> QED
      BY <3>1, <3>2
  <2> QED
    BY <2>1 DEF Returned, n
<1>7. ASSUME NEW C, Closed(C, blocks'), NEW b \in 1..m PROVE b \in C \/ b \in UnlinkedBy(walk')
  <2>1. 1 \in C /\ \A c \in C : c \in 1..m => To(blocks'[c]) \subseteq C
    BY <1>7 DEF Closed, m
  <2>2. \A c \in C : c \in 1..n => To(blocks[c]) \subseteq C
    BY <1>1, <1>2, <1>3, <1>4, <2>1
  <2>3. Closed(C, blocks)
    BY <2>1, <2>2 DEF Closed, n
  <2>4. \A c \in 1..n : c \in C \/ c \in UnlinkedBy(walk)
    BY <1>6, <2>3 DEF Linked, LinkedUp, n
  <2>5. T \subseteq C
    BY <1>1, <1>2, <1>3, <1>5, <2>1, <2>4
  <2>6. b \in 1..n \/ b \in n + 1..m
    BY <1>1
  <2> QED
    BY <2>4, <2>5, <2>6 DEF n, m
<1>8. ThensJump(walk')
  BY <1>6 DEF Linked, LinkedUp
<1> QED
  BY <1>7, <1>8
-----------------------------------------------------------------------------
\* A frame that waits for no block comes or goes.
LEMMA UnlinkedQuiet ==
  ASSUME IInv, Running, Control,
         \/ walk' = walk
         \/ /\ walk' = Butlast(walk) /\ Top.at # "then_block" /\ Top.at # "while"
         \/ \E f \in Frames : /\ walk' = Append(walk, f)
                              /\ f.at # "else_block" /\ f.at # "while"
  PROVE  /\ \A b \in UnlinkedBy(walk) : b \in UnlinkedBy(walk')
         /\ ThensJump(walk) => ThensJump(walk')
<1>1. walk \in Seq(Frames) /\ walk # <<>> /\ Top = Last(walk)
  BY CurrentIsLinked
<1>2. CASE walk' = walk
  BY <1>2
<1>3. CASE walk' = Butlast(walk) /\ Top.at # "then_block" /\ Top.at # "while"
  <2>1. Unlinked(Last(walk)) = {}
    BY <1>1, <1>3 DEF Unlinked
  <2> QED
    BY <1>1, <1>3, <2>1, UnlinkedIs
<1>4. ASSUME NEW f \in Frames, walk' = Append(walk, f), f.at # "else_block"
      PROVE  /\ \A b \in UnlinkedBy(walk) : b \in UnlinkedBy(walk')
             /\ ThensJump(walk) => ThensJump(walk')
  BY <1>1, <1>4, UnlinkedIs
<1> QED
  BY <1>2, <1>3, <1>4

\* The block waiting that is filled next has not been touched.
LEMMA NextUntouched ==
  ASSUME IInv, Running, Control, curr' \in Fills(Top)
  PROVE  blocks[curr'] = NewBlock
BY OnTop

LEMMA NewlyFilled ==
  ASSUME NEW f
  PROVE  /\ f.at \notin Heads /\ Len(f.to) = 1 => f.to[1] \in Fills(f)
         /\ f.at \notin Heads /\ Len(f.to) = 2 => f.to[1] \in Fills(f)
         /\ f.at \in Heads /\ Len(f.to) = 2 => f.to[2] \in Fills(f)
         /\ f.at \in Heads /\ Len(f.to) = 3 => f.to[2] \in Fills(f)
BY FillsIs

\* A step that stays in the current block.
LEMMA StepsStayLinked ==
  ASSUME IInv, IInv', Running, Control, Linked,
         \/ \E n, v, insts : Eval(n, v, insts)
         \/ \E at \in {"and_lhs", "or_lhs"} : BeginLogOp(at)
         \/ BeginSimple \/ VarDec \/ BareVarDec \/ Assn \/ (Exit \/ BareExit) \/ CallStmt
         \/ BeginBlock \/ EndBlock \/ EndFunction
  PROVE  Linked'
<1> DEFINE Stays == \/ blocks' = blocks
                    \/ \E x : \/ blocks' = Emit(blocks, curr, x)
                              \/ blocks' = Terminate(blocks, curr, x)
           Keeps == /\ \A b \in UnlinkedBy(walk) : b \in UnlinkedBy(walk')
                    /\ ThensJump(walk) => ThensJump(walk')
           Opens(at, slot) == walk' = Append(walk, Frame(at, Height, slot, <<>>, Top.scope))
           Pops == walk' = Butlast(walk) /\ Top.at # "then_block" /\ Top.at # "while"
<1>1. /\ walk \in Seq(Frames) /\ walk # <<>> /\ Top = Last(walk) /\ Top \in Frames
      /\ Height \in Nat /\ next_slot \in Nat /\ Butlast(walk) \in Seq(Frames)
  BY CurrentIsLinked, ShapeIs
<1>2. ASSUME NEW at \in HeadFrames \cup {"and_lhs", "or_lhs", "block"},
             NEW slot \in {NoSlot} \cup Nat, Opens(at, slot), at # "while"
      PROVE  Keeps
  <2> DEFINE f == Frame(at, Height, slot, <<>>, Top.scope)
  <2>1. f \in Frames /\ f.at # "else_block" /\ f.at # "while"
    <3>1. at \in Ats /\ at # "else_block" /\ Top.scope \in SUBSET Nat /\ <<>> \in Seq(Nat)
      BY <1>1 DEF Ats, HeadFrames, LogFrames, StmtFrames, Frames
    <3> QED
      BY <1>1, <1>2, <3>1 DEF Frame, Frames
  <2>2. walk' = Append(walk, f)
    BY <1>2
  <2> HIDE DEF f
  <2> QED
    BY <2>1, <2>2, UnlinkedQuiet
<1>3. Pops => Keeps
  BY UnlinkedQuiet
<1>4. Stays /\ Keeps /\ curr' = curr => Linked'
  BY StayLinked
<1> HIDE DEF Keeps
<1>5. ASSUME NEW n, NEW v, NEW insts, Eval(n, v, insts) PROVE Stays /\ Keeps /\ curr' = curr
  BY <1>5 DEF Eval, Keeps
<1>6. ASSUME NEW at \in {"and_lhs", "or_lhs"}, BeginLogOp(at)
      PROVE  Stays /\ Keeps /\ curr' = curr
  BY <1>1, <1>2, <1>6 DEF BeginLogOp, Push
<1>7. ASSUME BeginSimple PROVE Stays /\ Keeps /\ curr' = curr
  <2>1. ASSUME NEW node, NEW at \in HeadFrames, NEW slot \in {NoSlot} \cup Nat, NEW n,
               BeginStmt(node, at, slot, n), at # "while"
        PROVE  Stays /\ Keeps /\ curr' = curr
    BY <1>2, <2>1 DEF BeginStmt, Push
  <2>2. CASE BeginStmt("AST_VAR_DEC", "var_dec", NoSlot, 1)
    BY <2>1, <2>2 DEF HeadFrames
  <2>3. ASSUME NEW x \in Assignable, BeginStmt("AST_ASSN", "assn", x, 1)
        PROVE  Stays /\ Keeps /\ curr' = curr
    <3>1. x \in Nat
      BY <1>1 DEF Assignable, Frames
    <3> QED
      BY <2>1, <2>3, <3>1 DEF HeadFrames
  <2>4. CASE BeginStmt("AST_EXIT", "exit", NoSlot, 1)
    BY <2>1, <2>4 DEF HeadFrames
  <2>5. ASSUME NEW k \in Arities \cap 0..1, BeginStmt("call statement", "call_stmt", k, k)
        PROVE  Stays /\ Keeps /\ curr' = curr
    <3>1. k \in Nat
      OBVIOUS
    <3> QED
      BY <2>1, <2>5, <3>1 DEF HeadFrames
  <2>6. CASE BeginStmt("AST_IF", "if", NoSlot, 1)
    BY <2>1, <2>6 DEF HeadFrames
  <2> QED
    BY <1>7, <2>2, <2>3, <2>4, <2>5, <2>6 DEF BeginSimple
<1>8. ASSUME VarDec PROVE Stays /\ Keeps /\ curr' = curr
  <2>1. /\ ExprDone /\ Top.at = "var_dec" /\ curr' = curr
        /\ blocks' = Emit(blocks, curr, <<Store(next_slot, Last(val_stack))>>)
        /\ walk' = Declare(Pop(walk, 1), next_slot)
    BY <1>8 DEF VarDec
  <2>2. Pop(walk, 1) = Butlast(walk) /\ Butlast(walk) # <<>>
    BY <2>1, OnHeadValue DEF HeadFrames
  <2>3. Unlinked(Last(walk)) = {}
    BY <1>1, <2>1 DEF Unlinked
  <2>4. /\ \A b \in UnlinkedBy(walk) : b \in UnlinkedBy(Butlast(walk))
        /\ ThensJump(walk) => ThensJump(Butlast(walk))
    BY <1>1, <2>3, UnlinkedIs
  <2>5. Keeps
    BY <1>1, <2>1, <2>2, <2>4, UnlinkedDeclare DEF Keeps
  <2> QED
    BY <2>1, <2>5
<1>9. ASSUME BareVarDec PROVE Stays /\ Keeps /\ curr' = curr
  <2>1. /\ curr' = curr /\ walk' = Declare(walk, next_slot)
        /\ \/ blocks' = blocks
           \/ blocks' = Emit(blocks, curr, <<Store(next_slot, Last(val_stack))>>)
    BY <1>9 DEF BareVarDec
  <2>2. Keeps
    BY <1>1, <2>1, UnlinkedDeclare DEF Keeps
  <2> QED
    BY <2>1, <2>2
<1>10. ASSUME Assn PROVE Stays /\ Keeps /\ curr' = curr
  <2>1. /\ ExprDone /\ Top.at = "assn" /\ curr' = curr /\ walk' = Pop(walk, 1)
        /\ blocks' = Emit(blocks, curr, <<Store(Top.slot, Last(val_stack))>>)
    BY <1>10 DEF Assn
  <2>2. Pop(walk, 1) = Butlast(walk)
    BY <2>1, OnHeadValue DEF HeadFrames
  <2> QED
    BY <1>3, <2>1, <2>2
<1>11. ASSUME Exit \/ BareExit PROVE Stays /\ Keeps /\ curr' = curr
  <2>1. CASE Exit
    <3>1. /\ ExprDone /\ Top.at = "exit" /\ curr' = curr /\ walk' = Pop(walk, 1)
          /\ blocks' = Terminate(blocks, curr, Halt(<<Last(val_stack)>>))
      BY <2>1 DEF Exit
    <3>2. Pop(walk, 1) = Butlast(walk)
      BY <3>1, OnHeadValue DEF HeadFrames
    <3> QED
      BY <1>3, <3>1, <3>2
  <2>2. CASE BareExit
    BY <2>2 DEF BareExit, Keeps
  <2> QED
    BY <1>11, <2>1, <2>2
<1>12. ASSUME CallStmt PROVE Stays /\ Keeps /\ curr' = curr
  <2>1. /\ InExpr /\ Top.at = "call_stmt" /\ curr' = curr /\ walk' = Pop(walk, 1)
        /\ blocks' = Emit(blocks, curr, <<Call(next_temp, Popped(Operands))>>)
    BY <1>12 DEF CallStmt
  <2>2. Pop(walk, 1) = Butlast(walk)
    BY <2>1, OnHead, Zenon DEF HeadFrames
  <2> QED
    BY <1>3, <2>1, <2>2
<1>13. ASSUME BeginBlock PROVE Stays /\ Keeps /\ curr' = curr
  BY <1>2, <1>13 DEF BeginBlock, Push
<1>14. ASSUME EndBlock PROVE Stays /\ Keeps /\ curr' = curr
  <2>1. /\ InStmts /\ Top.at = "block" /\ walk' = Pop(walk, 1)
        /\ blocks' = blocks /\ curr' = curr
    BY <1>14 DEF EndBlock
  <2>2. Pop(walk, 1) = Butlast(walk)
    BY <2>1, OnList
  <2> QED
    BY <1>3, <2>1, <2>2
<1>15. ASSUME EndFunction PROVE Stays /\ Keeps /\ curr' = curr
  <2>1. /\ Top.at = "fn_block" /\ walk' = <<>> /\ curr' = curr
        /\ blocks' = blocks \/ blocks' = Terminate(blocks, curr, ImplicitHalt)
    BY <1>15 DEF EndFunction
  <2>2. Butlast(walk) = <<>>
    BY <1>1, <2>1, CurrentIsLinked, WalkPop
  <2> QED
    BY <1>3, <2>1, <2>2
<1> HIDE DEF Stays
<1>16. Stays /\ Keeps /\ curr' = curr
  BY <1>5, <1>6, <1>7, <1>8, <1>9, <1>10, <1>11, <1>12, <1>13, <1>14, <1>15
<1> QED
  BY <1>4, <1>16

\* The frame on top makes way for one that takes its place.
LEMMA UnlinkedReplace ==
  ASSUME IInv, Running, Control, NEW T, NEW f \in Frames,
         walk' = Append(Butlast(walk), f),
         \A b \in Unlinked(Top) : b \in T \/ b \in Unlinked(f),
         f.at = "else_block" /\ ~Returned(blocks', curr') => f.reached
  PROVE  /\ \A b \in UnlinkedBy(walk) : b \in T \/ b \in UnlinkedBy(walk')
         /\ \A b \in Unlinked(f) : b \in UnlinkedBy(walk')
         /\ ~Returned(blocks', curr') /\ ThensJump(walk) => ThensJump(walk')
<1>1. /\ walk \in Seq(Frames) /\ walk # <<>> /\ Top = Last(walk)
      /\ Butlast(walk) \in Seq(Frames)
  BY CurrentIsLinked
<1>2. /\ \A b \in UnlinkedBy(walk) : b \in UnlinkedBy(Butlast(walk)) \/ b \in Unlinked(Top)
      /\ ThensJump(walk) => ThensJump(Butlast(walk))
  BY <1>1, UnlinkedIs
<1>3. /\ \A b : b \in UnlinkedBy(Butlast(walk)) \/ b \in Unlinked(f) => b \in UnlinkedBy(walk')
      /\ ThensJump(Butlast(walk)) /\ (f.at = "else_block" => f.reached) => ThensJump(walk')
  BY <1>1, UnlinkedIs
<1> QED
  BY <1>2, <1>3

LEMMA EndWhileLinked ==
  ASSUME IInv, Running, Control, Linked, EndWhile
  PROVE  Linked'
<1> DEFINE T == {Top.to[1]}
<1>1. /\ Passes(T) /\ Len(blocks') = Len(blocks) /\ curr' = Top.to[2]
      /\ walk' = Butlast(walk) /\ Len(Top.to) = 2 /\ Top.at = "loop_block"
  BY EndWhilePasses
<1>2. blocks[curr'] = NewBlock
  BY <1>1, NewlyFilled, NextUntouched DEF Heads
<1>3. /\ \A b \in UnlinkedBy(walk) : b \in UnlinkedBy(walk')
      /\ ThensJump(walk) => ThensJump(walk')
  BY <1>1, UnlinkedQuiet
<1>4. Len(blocks) + 1..Len(blocks') = {}
  BY <1>1 DEF Passes
<1> HIDE DEF T
<1> QED
  BY <1>1, <1>2, <1>3, <1>4, PassLinked

LEMMA EndIfLinked ==
  ASSUME IInv, Running, Control, Linked, EndIf
  PROVE  Linked'
<1> DEFINE T == {Top.to[1]}
<1>1. /\ Passes(T) /\ Len(blocks') = Len(blocks) /\ curr' = Top.to[1]
      /\ walk' = Butlast(walk) /\ Len(Top.to) = 1 /\ Top.at \in {"then_block", "else_block"}
  BY EndIfPasses
<1>2. blocks[curr'] = NewBlock
  BY <1>1, NewlyFilled, NextUntouched DEF Heads
<1>3. /\ walk \in Seq(Frames) /\ walk # <<>> /\ Top = Last(walk)
  BY CurrentIsLinked
<1>4. Unlinked(Last(walk)) = {}
  BY <1>1, <1>3 DEF Unlinked
<1>5. /\ \A b \in UnlinkedBy(walk) : b \in UnlinkedBy(walk')
      /\ ThensJump(walk) => ThensJump(walk')
  BY <1>1, <1>3, <1>4, UnlinkedIs
<1>6. Len(blocks) + 1..Len(blocks') = {}
  BY <1>1 DEF Passes
<1> HIDE DEF T
<1> QED
  BY <1>1, <1>2, <1>5, <1>6, PassLinked

\* A then block that has not jumped to the join block returns.
LEMMA EndThenLinked ==
  ASSUME IInv, Running, Control, Linked, EndThen
  PROVE  Linked'
<1> DEFINE T == {Top.to[2]}
<1>1. /\ Passes(T) /\ Len(blocks') = Len(blocks) /\ curr' = Top.to[1]
      /\ Len(Top.to) = 2 /\ Top.at = "then_block"
  BY EndThenPasses
<1>2. PICK f \in Frames : /\ walk' = Append(Butlast(walk), f)
                          /\ f.at = "else_block" /\ f.reached = Open(blocks, curr)
  BY EndThenPasses
<1>3. blocks[curr'] = NewBlock
  BY <1>1, NewlyFilled, NextUntouched DEF Heads
<1>4. Unlinked(Top) = T
  BY <1>1 DEF Unlinked
<1>5. ~Returned(blocks', curr') => Open(blocks, curr)
  <2> SUFFICES ASSUME ~Open(blocks, curr) PROVE Returned(blocks', curr')
    OBVIOUS
  <2>1. blocks' = blocks
    BY DEF EndThen, JumpIfOpen
  <2>2. blocks[curr].term.type = "IR_HALT" /\ curr \in 1..Len(blocks)
    BY CurrentIsLinked
  <2>3. curr # curr'
    BY <1>1 DEF Passes
  <2> QED
    BY <2>1, <2>2, <2>3 DEF Returned
<1> HIDE DEF T
<1>6. /\ \A b \in UnlinkedBy(walk) : b \in T \/ b \in UnlinkedBy(walk')
      /\ ~Returned(blocks', curr') /\ ThensJump(walk) => ThensJump(walk')
  BY <1>2, <1>4, <1>5, UnlinkedReplace
<1>7. Len(blocks) + 1..Len(blocks') = {}
  BY <1>1 DEF Passes
<1> QED
  BY <1>1, <1>3, <1>6, <1>7, PassLinked

LEMMA WhileBodyLinked ==
  ASSUME IInv, Running, Control, Linked, WhileBody
  PROVE  Linked'
<1> DEFINE T == {Top.to[2], Top.to[3]}
<1>1. /\ Passes(T) /\ Len(blocks') = Len(blocks) /\ curr' = Top.to[2]
      /\ Len(Top.to) = 3 /\ Top.at = "while"
  BY WhileBodyPasses
<1>2. PICK f \in Frames : walk' = Append(Butlast(walk), f) /\ f.at = "loop_block"
  BY WhileBodyPasses
<1>3. blocks[curr'] = NewBlock
  BY <1>1, NewlyFilled, NextUntouched DEF Heads
<1>4. Unlinked(Top) = T
  BY <1>1 DEF Unlinked
<1> HIDE DEF T
<1>5. /\ \A b \in UnlinkedBy(walk) : b \in T \/ b \in UnlinkedBy(walk')
      /\ ~Returned(blocks', curr') /\ ThensJump(walk) => ThensJump(walk')
  BY <1>2, <1>4, UnlinkedReplace
<1>6. Len(blocks) + 1..Len(blocks') = {}
  BY <1>1 DEF Passes
<1> QED
  BY <1>1, <1>3, <1>5, <1>6, PassLinked

LEMMA FinishRhsLinked ==
  ASSUME IInv, Running, Control, Linked, FinishRhs
  PROVE  Linked'
<1> DEFINE T == {Top.to[1]}
<1>1. /\ Passes(T) /\ Len(blocks') = Len(blocks) /\ curr' = Top.to[1]
      /\ walk' = Butlast(walk) /\ Len(Top.to) = 1 /\ Top.at = "rhs"
  BY FinishRhsPasses
<1>2. blocks[curr'] = NewBlock
  BY <1>1, NewlyFilled, NextUntouched DEF Heads
<1>3. /\ \A b \in UnlinkedBy(walk) : b \in UnlinkedBy(walk')
      /\ ThensJump(walk) => ThensJump(walk')
  BY <1>1, UnlinkedQuiet
<1>4. Len(blocks) + 1..Len(blocks') = {}
  BY <1>1 DEF Passes
<1> HIDE DEF T
<1> QED
  BY <1>1, <1>2, <1>3, <1>4, PassLinked

LEMMA FinishLhsLinked ==
  ASSUME IInv, Running, Control, Linked, FinishLhs
  PROVE  Linked'
<1> DEFINE n == Len(blocks)
           T == {n + 1, n + 2}
<1>1. /\ Passes(T) /\ Len(blocks') = n + 2 /\ curr' = n + 1
      /\ Top.at \in LogFrames /\ Top.at # "rhs"
  BY FinishLhsPasses
<1>2. PICK f \in Frames : walk' = Append(Butlast(walk), f) /\ f.at = "rhs"
  BY FinishLhsPasses
<1>4. curr' \notin 1..n /\ \A b \in n + 1..Len(blocks') : b \in T
  <2>1. n \in Nat
    BY CurrentIsLinked
  <2> QED
    BY <1>1, <2>1
<1>5. Unlinked(Top) = {}
  BY <1>1 DEF Unlinked, LogFrames
<1> HIDE DEF T
<1>6. /\ \A b \in UnlinkedBy(walk) : b \in T \/ b \in UnlinkedBy(walk')
      /\ ~Returned(blocks', curr') /\ ThensJump(walk) => ThensJump(walk')
  BY <1>2, <1>5, UnlinkedReplace
<1> QED
  BY <1>1, <1>4, <1>6, PassLinked

LEMMA IfLinked ==
  ASSUME IInv, Running, Control, Linked, NEW else \in BOOLEAN, If(else)
  PROVE  Linked'
<1> DEFINE n == Len(blocks)
           T == {n + 1, n + 2}
<1>1. /\ Passes(T) /\ Len(blocks') = n + (IF else THEN 3 ELSE 2) /\ curr' = n + 1
      /\ Top.at = "if"
  BY IfPasses
<1>2. PICK f \in Frames :
        /\ walk' = Append(Butlast(walk), f) /\ f.at = "then_block"
        /\ f.to = IF else THEN <<n + 2, n + 3>> ELSE <<n + 2>>
  BY IfPasses
<1>3. n \in Nat
  BY CurrentIsLinked
<1>4. else => Unlinked(f) = {n + 3}
  BY <1>2 DEF Unlinked
<1>5. /\ curr' \notin 1..n
      /\ \A b \in n + 1..Len(blocks') : b \in T \/ b \in Unlinked(f)
  <2>1. CASE else
    BY <1>1, <1>3, <1>4, <2>1
  <2>2. CASE ~else
    BY <1>1, <1>3, <2>2
  <2> QED
    BY <2>1, <2>2
<1>6. Unlinked(Top) = {}
  BY <1>1 DEF Unlinked
<1> HIDE DEF T
<1>7. /\ \A b \in UnlinkedBy(walk) : b \in T \/ b \in UnlinkedBy(walk')
      /\ \A b \in Unlinked(f) : b \in UnlinkedBy(walk')
      /\ ~Returned(blocks', curr') /\ ThensJump(walk) => ThensJump(walk')
  BY <1>2, <1>6, UnlinkedReplace
<1> QED
  BY <1>1, <1>5, <1>7, PassLinked

LEMMA BeginWhileLinked ==
  ASSUME IInv, Running, Control, Linked, BeginWhile
  PROVE  Linked'
<1> DEFINE n == Len(blocks)
           T == {n + 1}
<1>1. /\ Passes(T) /\ Len(blocks') = n + 3 /\ curr' = n + 1
  BY BeginWhilePasses
<1>2. PICK f \in Frames : /\ walk' = Append(walk, f) /\ f.at = "while"
                          /\ f.to = <<n + 1, n + 2, n + 3>>
  BY BeginWhilePasses
<1>3. n \in Nat /\ walk \in Seq(Frames)
  BY CurrentIsLinked
<1>4. Unlinked(f) = {n + 2, n + 3}
  BY <1>2 DEF Unlinked
<1>5. /\ curr' \notin 1..n
      /\ \A b \in n + 1..Len(blocks') : b \in T \/ b \in Unlinked(f)
  BY <1>1, <1>3, <1>4
<1>6. /\ \A b : b \in UnlinkedBy(walk) \/ b \in Unlinked(f) => b \in UnlinkedBy(walk')
      /\ ThensJump(walk) => ThensJump(walk')
  BY <1>2, <1>3, UnlinkedIs
<1> HIDE DEF T
<1> QED
  BY <1>1, <1>5, <1>6, PassLinked

\* A function begins with one block.
LEMMA EntryLinked ==
  ASSUME NEW h
  PROVE  LinkedUp(Entry, 1, <<FirstFrame(h)>>)
<1>1. Len(Entry) = 1
  BY EntryIs
<1>2. ThensJump(<<FirstFrame(h)>>)
  <2>1. Len(<<FirstFrame(h)>>) = 1 /\ <<FirstFrame(h)>>[1].at = "fn_block"
    BY DEF FirstFrame, Frame
  <2> QED
    BY <2>1 DEF ThensJump
<1>3. \A C : Closed(C, Entry) => 1 \in C
  BY DEF Closed
<1> QED
  BY <1>1, <1>2, <1>3 DEF LinkedUp

LEMMA StepLinked == IInv /\ IInv' /\ Control /\ Linked /\ [Next]_vars => Linked'
<1> SUFFICES ASSUME IInv, IInv', Control, Linked, [Next]_vars PROVE Linked'
  OBVIOUS
<1>1. CASE Running
  <2> DEFINE Stays == \/ \E n, v, insts : Eval(n, v, insts)
                      \/ \E at \in {"and_lhs", "or_lhs"} : BeginLogOp(at)
                      \/ BeginSimple \/ VarDec \/ BareVarDec \/ Assn \/ (Exit \/ BareExit)
                      \/ CallStmt \/ BeginBlock \/ EndBlock \/ EndFunction
  <2>1. Stays => Linked'
    BY <1>1, StepsStayLinked
  <2>2. ASSUME NEW else \in BOOLEAN, If(else) PROVE Linked'
    BY <1>1, <2>2, IfLinked
  <2>3. /\ FinishLhs => Linked'
        /\ FinishRhs => Linked'
        /\ EndThen => Linked'
        /\ EndIf => Linked'
        /\ BeginWhile => Linked'
        /\ WhileBody => Linked'
        /\ EndWhile => Linked'
    BY <1>1, FinishLhsLinked, FinishRhsLinked, EndThenLinked, EndIfLinked, BeginWhileLinked,
       WhileBodyLinked, EndWhileLinked
  <2>4. ~BeginFunction
    BY <1>1 DEF BeginFunction
  <2>5. UNCHANGED vars => Linked'
    BY DEF vars, Linked
  <2> QED
    BY <2>1, <2>2, <2>3, <2>4, <2>5, StepIs, Zenon
<1>2. CASE BeginFunction
  <2>1. blocks' = Entry /\ curr' = 1 /\ walk' = <<FirstFrame(Height)>>
    BY <1>2 DEF BeginFunction, Entry, FirstFrame
  <2> QED
    BY <2>1, EntryLinked DEF Linked
<1>3. CASE UNCHANGED vars
  BY <1>3 DEF vars, Linked
<1> QED
  BY <1>1, <1>2, <1>3, NotRunning

\* When the walk of a function is over, no frame has blocks to link.
LEMMA LinkedReaches == IInv /\ Linked => NoDeadBlocks
<1> SUFFICES ASSUME IInv, Linked, ~Running, ~ReturnsEarly
             PROVE  ReachedThrough(BlockIds) = BlockIds
  BY DEF NoDeadBlocks
<1> DEFINE C == ReachedThrough(BlockIds)
<1>1. BlockIds = 1..Len(blocks) /\ \A b \in BlockIds : To(blocks[b]) = Succs(b)
  BY SuccsAre DEF To
<1>2. /\ 1 \in C /\ C \subseteq BlockIds
      /\ \A b \in C \cap BlockIds : Succs(b) \subseteq C
  BY ReachedClosed
<1> HIDE DEF C
<1>3. Closed(C, blocks)
  BY <1>1, <1>2 DEF Closed
<1>4. ~Returned(blocks, curr)
  BY <1>1 DEF Returned, ReturnsEarly
<1>5. UnlinkedBy(walk) = {}
  BY UnlinkedIs DEF Running
<1>6. \A b \in 1..Len(blocks) : b \in C
  BY <1>3, <1>4, <1>5 DEF Linked, LinkedUp
<1> QED
  BY <1>1, <1>2, <1>6 DEF C

\* Unless a return statement leaves the function early, every block that is
\* created can be reached: the jumps that EndThen, EndIf, BeginWhile, WhileBody
\* and EndWhile make only if the current block is open are never missed.
THEOREM NoCodeIsDead == Spec => []NoDeadBlocks
<1>1. Init => Linked
  <2> SUFFICES ASSUME Init PROVE Linked
    OBVIOUS
  <2>1. blocks = Entry /\ curr = 1 /\ walk = <<FirstFrame(0)>>
    BY DEF Init, Entry, FirstFrame
  <2> QED
    BY <2>1, EntryLinked DEF Linked
<1>2. IInv /\ IInv' /\ Control /\ Linked /\ [Next]_vars => Linked'
  BY StepLinked
<1>3. IInv /\ Linked => NoDeadBlocks
  BY LinkedReaches
<1> QED
  BY <1>1, <1>2, <1>3, ControlInvariant, PTL DEF Spec
=============================================================================
