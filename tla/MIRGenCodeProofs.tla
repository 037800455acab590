-------------------------- MODULE MIRGenCodeProofs --------------------------
(***************************************************************************)
(* Theorems about the code that MIRGen emits, for programs of any size and *)
(* any numbers of functions, parameters and arguments.                     *)
(*                                                                         *)
(* On the invariants of MIRGenProofs rest four more: who defines and who   *)
(* reads the temps of a function (Temps), for programs without the two     *)
(* constructs that leave values behind, those of a block (Local), where a  *)
(* slot has been stored into before control comes to a load (Paths), and   *)
(* that temps are defined in blocks created no later than those that read  *)
(* them (Order), with what the verifier of IRVerify makes of it.           *)
(***************************************************************************)
EXTENDS MIRGenProofs, IRVerify

\* Instruction i of block b defines t; it reads t, or the terminator, which
\* stands at 0 here, does.
DefAt(bs, t, b, i) ==
  b \in 1..Len(bs) /\ i \in 1..Len(bs[b].insts) /\ bs[b].insts[i].dst = t
Uses(args, t) == \E k \in 1..Len(args) : args[k] = TEMP(t)
ReadAt(bs, t, b, i) ==
  /\ b \in 1..Len(bs)
  /\ \/ i = 0 /\ Uses(bs[b].term.args, t)
     \/ i \in 1..Len(bs[b].insts) /\ Uses(bs[b].insts[i].args, t)

\* Temps are defined once and read once, after all that is defined; those of
\* T are still to be read.
CodeOK(bs, T) ==
  /\ \A t \in Nat : \A b, c, i, j \in Nat :
       /\ DefAt(bs, t, b, i) /\ DefAt(bs, t, c, j) => b = c /\ i = j
       /\ ReadAt(bs, t, b, i) /\ ReadAt(bs, t, c, j) => b = c /\ i = j
       /\ ReadAt(bs, t, b, i) => \E d, k \in Nat : DefAt(bs, t, d, k)
  /\ \A t \in T : /\ \E d, k \in Nat : DefAt(bs, t, d, k)
                  /\ \A b, i \in Nat : ~ReadAt(bs, t, b, i)

\* The temps on the stack above h, and that they are as many as there are places.
Held(s, h)  == {t \in Nat : \E k \in h + 1..Len(s) : s[k] = TEMP(t)}
Apart(s, h) == \A k, l \in h + 1..Len(s) :
                 s[k].kind = "IRVAL_TEMP" /\ s[k] = s[l] => k = l

Temps ==
  ~foreign =>
    IF Running THEN /\ unclaimed >= walk[1].base
                    /\ CodeOK(blocks, Held(val_stack, walk[1].base))
                    /\ Apart(val_stack, walk[1].base)
    ELSE CodeOK(blocks, {})
-----------------------------------------------------------------------------
\* Values that can be read in a block after its n-th instruction.
Local(v, insts, n) ==
  v.kind = "IRVAL_TEMP" => \E i \in 1..n : insts[i].dst = v.id

BlockLocal(blk) ==
  /\ \A i \in 1..Len(blk.insts) : \A k \in 1..Len(blk.insts[i].args) :
       Local(blk.insts[i].args[k], blk.insts, i - 1)
  /\ \A k \in 1..Len(blk.term.args) :
       Local(blk.term.args[k], blk.insts, Len(blk.insts))

AllLocal(bs) == \A b \in 1..Len(bs) : BlockLocal(bs[b])

\* An operator whose operands span blocks begins where its expression did.
Nested(w) == \A k \in 1..Len(w) - 1 :
               w[k + 1].at \in LogFrames => w[k + 1].base = w[k].base

LocalInv ==
  /\ AllLocal(blocks)
  /\ Nested(walk)
  /\ InExpr => \A k \in Top.base + 1..Height :
                 Local(val_stack[k], blocks[curr].insts, Len(blocks[curr].insts))
-----------------------------------------------------------------------------
\* The code grows at place m of block b, where d is defined and some of R are
\* read; nothing else is.
Adds(bs, new, d, b, m, R) ==
  /\ b \in Nat /\ m \in Nat
  /\ \A t, c, k \in Nat :
       /\ DefAt(new, t, c, k) <=> DefAt(bs, t, c, k) \/ (t = d /\ c = b /\ k = m)
       /\ ReadAt(new, t, c, k) => ReadAt(bs, t, c, k) \/ (t \in R /\ c = b /\ k = m)

Reads(args) == {t \in Nat : Uses(args, t)}

\* What is added reads temps that are still to be read, and defines a new one.
LEMMA CodeStep ==
  ASSUME NEW bs, NEW new, NEW T \in SUBSET Nat, NEW T2 \in SUBSET Nat, NEW d, NEW b, NEW m,
         NEW R, CodeOK(bs, T), Adds(bs, new, d, b, m, R), R \subseteq T,
         d \in Nat => \A c, k \in Nat : ~DefAt(bs, d, c, k),
         \A t \in T2 : (t \in T /\ t \notin R) \/ t = d
  PROVE  CodeOK(new, T2)
<1>1. /\ b \in Nat /\ m \in Nat
      /\ \A t, c, k \in Nat :
           DefAt(new, t, c, k) <=> DefAt(bs, t, c, k) \/ (t = d /\ c = b /\ k = m)
      /\ \A t, c, k \in Nat :
           ReadAt(new, t, c, k) => ReadAt(bs, t, c, k) \/ (t \in R /\ c = b /\ k = m)
  BY DEF Adds
<1>2. /\ \A t, c, i, e, j \in Nat : DefAt(bs, t, c, i) /\ DefAt(bs, t, e, j) => c = e /\ i = j
      /\ \A t, c, i, e, j \in Nat : ReadAt(bs, t, c, i) /\ ReadAt(bs, t, e, j) => c = e /\ i = j
      /\ \A t, c, i \in Nat : ReadAt(bs, t, c, i) => \E e, k \in Nat : DefAt(bs, t, e, k)
      /\ \A t \in T : \E e, k \in Nat : DefAt(bs, t, e, k)
      /\ \A t \in T : \A c, i \in Nat : ~ReadAt(bs, t, c, i)
  BY DEF CodeOK
<1>3. ASSUME NEW t \in Nat, NEW c \in Nat, NEW i \in Nat, NEW e \in Nat, NEW j \in Nat
      PROVE  /\ DefAt(new, t, c, i) /\ DefAt(new, t, e, j) => c = e /\ i = j
             /\ ReadAt(new, t, c, i) /\ ReadAt(new, t, e, j) => c = e /\ i = j
             /\ ReadAt(new, t, c, i) => \E x, k \in Nat : DefAt(new, t, x, k)
  <2>1. DefAt(new, t, c, i) /\ DefAt(new, t, e, j) => c = e /\ i = j
    <3>1. CASE t = d
      BY <1>1, <3>1
    <3>2. CASE t # d
      BY <1>1, <1>2, <3>2
    <3> QED
      BY <3>1, <3>2
  <2>2. ReadAt(new, t, c, i) /\ ReadAt(new, t, e, j) => c = e /\ i = j
    <3>1. CASE t \in R
      <4>1. t \in T
        BY <3>1
      <4> QED
        BY <1>1, <1>2, <4>1
    <3>2. CASE t \notin R
      BY <1>1, <1>2, <3>2
    <3> QED
      BY <3>1, <3>2
  <2>3. ReadAt(new, t, c, i) => \E x, k \in Nat : DefAt(new, t, x, k)
    <3>1. ReadAt(new, t, c, i) => \E x, k \in Nat : DefAt(bs, t, x, k)
      BY <1>1, <1>2
    <3> QED
      BY <1>1, <3>1
  <2> QED
    BY <2>1, <2>2, <2>3
<1>4. ASSUME NEW t \in T2
      PROVE  /\ \E x, k \in Nat : DefAt(new, t, x, k)
             /\ \A c, i \in Nat : ~ReadAt(new, t, c, i)
  <2>1. CASE t = d
    <3>1. t \notin T /\ \A c, i \in Nat : ~ReadAt(bs, t, c, i)
      BY <1>2, <2>1
    <3> QED
      BY <1>1, <2>1, <3>1
  <2>2. CASE t \in T /\ t \notin R
    BY <1>1, <1>2, <2>2
  <2> QED
    BY <2>1, <2>2
<1> QED
  BY <1>3, <1>4 DEF CodeOK

\* The same, with its hypotheses in one.
Readies(bs, T, T2, d, R) ==
  /\ T \in SUBSET Nat /\ T2 \in SUBSET Nat /\ R \subseteq T
  /\ d \in Nat => \A c, k \in Nat : ~DefAt(bs, d, c, k)
  /\ \A t \in T2 : (t \in T /\ t \notin R) \/ t = d

LEMMA CodeReady ==
  ASSUME NEW bs, NEW new, NEW T, NEW T2, NEW d, NEW b, NEW m, NEW R,
         CodeOK(bs, T), Adds(bs, new, d, b, m, R), Readies(bs, T, T2, d, R)
  PROVE  CodeOK(new, T2)
BY CodeStep DEF Readies

LEMMA CodeLess ==
  ASSUME NEW bs, NEW T, CodeOK(bs, T), NEW T2 \in SUBSET T
  PROVE  CodeOK(bs, T2)
BY DEF CodeOK

\* The code defines and reads what it did, or reads less.
Silent(bs, new) == Adds(bs, new, NoTemp, 0, 0, {})

LEMMA CodeSilent ==
  ASSUME NEW bs, NEW new, NEW T \in SUBSET Nat, CodeOK(bs, T), Silent(bs, new)
  PROVE  CodeOK(new, T)
<1>1. NoTemp \notin Nat
  BY DEF NoTemp
<1> QED
  BY <1>1, CodeStep DEF Silent

LEMMA AddsSilent ==
  ASSUME NEW bs, NEW mid, NEW new, NEW d, NEW b, NEW m, NEW R
  PROVE  /\ Silent(bs, mid) /\ Adds(mid, new, d, b, m, R) => Adds(bs, new, d, b, m, R)
         /\ Adds(bs, mid, d, b, m, R) /\ Silent(mid, new) => Adds(bs, new, d, b, m, R)
<1>1. NoTemp \notin Nat
  BY DEF NoTemp
<1> QED
  BY <1>1 DEF Silent, Adds

LEMMA SilentSame == \A bs : Silent(bs, bs)
<1>1. NoTemp \notin Nat
  BY DEF NoTemp
<1> QED
  BY <1>1 DEF Silent, Adds

\* An instruction is appended to a block.
LEMMA EmitAdds ==
  ASSUME NEW bs \in Seq(BlockRecs), NEW b \in 1..Len(bs), NEW i \in InstRecs
  PROVE  Adds(bs, Emit(bs, b, <<i>>), i.dst, b, Len(bs[b].insts) + 1, Reads(i.args))
<1> DEFINE new == Emit(bs, b, <<i>>)
           old == bs[b].insts
           m == Len(old) + 1
<1>1. /\ new \in Seq(BlockRecs) /\ Len(new) = Len(bs)
      /\ \A c \in 1..Len(bs) : new[c].term = bs[c].term /\ (c # b => new[c] = bs[c])
      /\ new[b].insts = old \o <<i>>
  <2>1. <<i>> \in Seq(InstRecs)
    OBVIOUS
  <2> QED
    BY <2>1, EmitIs
<1>2. old \in Seq(InstRecs)
  <2>1. bs[b] \in BlockRecs
    OBVIOUS
  <2> QED
    BY <2>1 DEF BlockRecs
<1>3. /\ Len(old) \in Nat /\ Len(new[b].insts) = m
      /\ \A k \in 1..Len(old) : new[b].insts[k] = old[k]
      /\ new[b].insts[m] = i
  <2>1. /\ Len(old) \in Nat /\ Len(old \o <<i>>) = m
        /\ \A k \in 1..Len(old) : (old \o <<i>>)[k] = old[k]
        /\ (old \o <<i>>)[m] = i
    BY <1>2
  <2> QED
    BY <1>1, <2>1
<1> HIDE DEF new
<1>4. m \in Nat /\ b \in Nat /\ Len(bs) \in Nat
  BY <1>3
<1>5. \A k : k \in 1..m <=> k \in 1..Len(old) \/ k = m
  BY <1>3
<1> HIDE DEF m
<1>6. ASSUME NEW t \in Nat, NEW c \in Nat, NEW k \in Nat
      PROVE  /\ DefAt(new, t, c, k) <=> DefAt(bs, t, c, k) \/ (t = i.dst /\ c = b /\ k = m)
             /\ ReadAt(new, t, c, k)
                  => ReadAt(bs, t, c, k) \/ (t \in Reads(i.args) /\ c = b /\ k = m)
  <2>1. CASE c = b
    <3>1. k \in 1..Len(new[b].insts) <=> k \in 1..Len(old) \/ k = m
      BY <1>3, <1>5
    <3>2. DefAt(new, t, b, k) <=> DefAt(bs, t, b, k) \/ (t = i.dst /\ k = m)
      BY <1>1, <1>3, <3>1 DEF DefAt
    <3>3. ReadAt(new, t, b, k) => ReadAt(bs, t, b, k) \/ (Uses(i.args, t) /\ k = m)
      BY <1>1, <1>3, <3>1 DEF ReadAt
    <3> QED
      BY <2>1, <3>2, <3>3 DEF Reads
  <2>2. CASE c # b
    BY <1>1, <2>2 DEF DefAt, ReadAt
  <2> QED
    BY <2>1, <2>2
<1>7. Adds(bs, new, i.dst, b, m, Reads(i.args))
  BY <1>4, <1>6 DEF Adds
<1> QED
  BY <1>7 DEF m, new

\* A block gets another terminator.
LEMMA TerminateAdds ==
  ASSUME NEW bs \in Seq(BlockRecs), NEW b \in 1..Len(bs), NEW t \in TermRecs
  PROVE  Adds(bs, Terminate(bs, b, t), NoTemp, b, 0, Reads(t.args))
<1> DEFINE new == Terminate(bs, b, t)
<1>1. /\ new \in Seq(BlockRecs) /\ Len(new) = Len(bs)
      /\ \A c \in 1..Len(bs) : new[c].insts = bs[c].insts /\ (c # b => new[c] = bs[c])
      /\ new[b].term = t
  BY TerminateIs
<1> HIDE DEF new
<1>2. NoTemp \notin Nat /\ b \in Nat
  BY DEF NoTemp
<1>3. ASSUME NEW x \in Nat, NEW c \in Nat, NEW k \in Nat
      PROVE  /\ DefAt(new, x, c, k) <=> DefAt(bs, x, c, k)
             /\ ReadAt(new, x, c, k)
                  => ReadAt(bs, x, c, k) \/ (x \in Reads(t.args) /\ c = b /\ k = 0)
  BY <1>1 DEF DefAt, ReadAt, Reads
<1>4. Adds(bs, new, NoTemp, b, 0, Reads(t.args))
  BY <1>2, <1>3 DEF Adds
<1> QED
  BY <1>4 DEF new

\* What reads no temps.
LEMMA ReadsIs ==
  /\ Reads(<<>>) = {}
  /\ Reads(<<IMM(0)>>) = {}
  /\ \A v \in Values : /\ Reads(<<v>>) = {t \in Nat : v = TEMP(t)}
                       /\ Reads(<<v, IMM(0)>>) = {t \in Nat : v = TEMP(t)}
<1>1. \A t \in Nat : IMM(0) # TEMP(t)
  BY DEF IMM, TEMP
<1>2. ASSUME NEW v, NEW t \in Nat
      PROVE  /\ Uses(<<v>>, t) <=> v = TEMP(t)
             /\ Uses(<<v, IMM(0)>>, t) <=> v = TEMP(t)
  BY <1>1 DEF Uses
<1>3. \A t \in Nat : ~Uses(<<>>, t)
  BY DEF Uses
<1> QED
  BY <1>1, <1>2, <1>3 DEF Reads

\* To add where nothing is defined or read is to add nothing.
LEMMA NothingAdded ==
  ASSUME NEW bs, NEW new, NEW b, NEW m, Adds(bs, new, NoTemp, b, m, {})
  PROVE  Silent(bs, new)
<1>1. NoTemp \notin Nat
  BY DEF NoTemp
<1> QED
  BY <1>1 DEF Silent, Adds

LEMMA JumpSilent ==
  ASSUME NEW bs \in Seq(BlockRecs), NEW b \in 1..Len(bs), NEW to \in 1..Len(bs)
  PROVE  Silent(bs, JumpIfOpen(bs, b, to))
<1>1. CASE Open(bs, b)
  <2>1. to \in Nat
    OBVIOUS
  <2>2. Jump(to) \in TermRecs /\ Jump(to).args = <<>>
    BY <2>1, TermsAre
  <2>3. Adds(bs, Terminate(bs, b, Jump(to)), NoTemp, b, 0, Reads(Jump(to).args))
    BY <2>2, TerminateAdds
  <2>4. Adds(bs, Terminate(bs, b, Jump(to)), NoTemp, b, 0, {})
    BY <2>2, <2>3, ReadsIs
  <2>5. JumpIfOpen(bs, b, to) = Terminate(bs, b, Jump(to))
    BY <1>1 DEF JumpIfOpen
  <2> QED
    BY <2>4, <2>5, NothingAdded
<1>2. CASE ~Open(bs, b)
  BY <1>2, SilentSame DEF JumpIfOpen
<1> QED
  BY <1>1, <1>2

LEMMA CreateSilent ==
  ASSUME NEW bs \in Seq(BlockRecs), NEW news \in {<<NewBlock, NewBlock>>,
                                                  <<NewBlock, NewBlock, NewBlock>>}
  PROVE  Silent(bs, bs \o news)
<1> DEFINE new == bs \o news
<1>1. /\ Len(new) = Len(bs) + Len(news) /\ Len(bs) \in Nat /\ Len(news) \in {2, 3}
      /\ \A c \in 1..Len(bs) : new[c] = bs[c]
      /\ \A c \in 1..Len(new) : c \notin 1..Len(bs) => new[c] = NewBlock
  BY CreateIs
<1> HIDE DEF new
<1>2. /\ Len(NewBlock.insts) = 0 /\ NewBlock.term.args = <<>>
      /\ \A c \in 1..Len(bs) : c \in 1..Len(new)
  BY <1>1 DEF NewBlock, Undefined
<1>3. \A t : ~Uses(<<>>, t)
  BY DEF Uses
<1>4. ASSUME NEW t \in Nat, NEW c \in Nat, NEW k \in Nat
      PROVE  /\ DefAt(new, t, c, k) <=> DefAt(bs, t, c, k)
             /\ ReadAt(new, t, c, k) => ReadAt(bs, t, c, k)
  <2>1. CASE c \in 1..Len(bs)
    BY <1>1, <1>2, <2>1 DEF DefAt, ReadAt
  <2>2. CASE c \notin 1..Len(bs)
    BY <1>1, <1>2, <1>3, <2>2 DEF DefAt, ReadAt
  <2> QED
    BY <2>1, <2>2
<1>5. NoTemp \notin Nat
  BY DEF NoTemp
<1> QED
  BY <1>4, <1>5 DEF Silent, Adds, new
-----------------------------------------------------------------------------
\* Values are taken off the stack,
LEMMA HeldDrop ==
  ASSUME NEW s \in Seq(Values), NEW h \in Nat, Apart(s, h), NEW r \in Seq(Values),
         h <= Len(r), Len(r) <= Len(s), \A k \in 1..Len(r) : r[k] = s[k]
  PROVE  /\ Apart(r, h) /\ Held(r, h) \subseteq Held(s, h)
         /\ \A t \in Held(r, h) : \A k \in Len(r) + 1..Len(s) : s[k] # TEMP(t)
<1>1. Len(r) \in Nat /\ Len(s) \in Nat
  OBVIOUS
<1>2. \A k \in h + 1..Len(r) : k \in h + 1..Len(s) /\ k \in 1..Len(r) /\ r[k] = s[k]
  BY <1>1
<1>3. Apart(r, h) /\ Held(r, h) \subseteq Held(s, h)
  BY <1>2 DEF Apart, Held
<1>4. ASSUME NEW t \in Held(r, h), NEW k \in Len(r) + 1..Len(s)
      PROVE  s[k] # TEMP(t)
  <2>1. PICK l \in h + 1..Len(r) : r[l] = TEMP(t)
    BY DEF Held
  <2>2. /\ l \in h + 1..Len(s) /\ s[l] = TEMP(t) /\ k \in h + 1..Len(s) /\ l # k
        /\ s[l].kind = "IRVAL_TEMP"
    BY <1>1, <1>2, <2>1 DEF TEMP
  <2> QED
    BY <2>2 DEF Apart
<1> QED
  BY <1>3, <1>4

\* and a constant, or a temp that is not there yet, is put on it.
LEMMA HeldPush ==
  ASSUME NEW s \in Seq(Values), NEW h \in Nat, h <= Len(s), Apart(s, h), NEW v \in Values,
         \A t \in Held(s, h) : v # TEMP(t)
  PROVE  /\ Apart(Append(s, v), h)
         /\ \A t \in Held(Append(s, v), h) : t \in Held(s, h) \/ v = TEMP(t)
<1> DEFINE r == Append(s, v)
<1>1. /\ Len(s) \in Nat /\ Len(r) = Len(s) + 1 /\ r[Len(s) + 1] = v
      /\ \A k \in 1..Len(s) : r[k] = s[k]
  BY AppendIs
<1> HIDE DEF r
<1>2. ASSUME NEW k \in h + 1..Len(r)
      PROVE  k = Len(s) + 1 \/ (k \in h + 1..Len(s) /\ k \in 1..Len(s) /\ r[k] = s[k])
  BY <1>1
<1>3. ASSUME NEW t \in Held(r, h) PROVE t \in Held(s, h) \/ v = TEMP(t)
  <2>1. PICK k \in h + 1..Len(r) : r[k] = TEMP(t)
    BY DEF Held
  <2>2. CASE k = Len(s) + 1
    BY <1>1, <2>1, <2>2
  <2>3. CASE k # Len(s) + 1
    <3>1. k \in h + 1..Len(s) /\ s[k] = TEMP(t) /\ t \in Nat
      BY <1>2, <2>1, <2>3 DEF Held
    <3> QED
      BY <3>1 DEF Held
  <2> QED
    BY <2>2, <2>3
<1>4. ASSUME NEW k \in h + 1..Len(s), s[k].kind = "IRVAL_TEMP" PROVE s[k] # v
  <2>1. k \in 1..Len(s)
    BY <1>1
  <2>2. s[k] \in Values
    BY <2>1
  <2>3. s[k].id \in Nat /\ s[k] = TEMP(s[k].id)
    BY <1>4, <2>2, ValuesAre
  <2>4. s[k].id \in Held(s, h)
    BY <2>3 DEF Held
  <2> QED
    BY <2>3, <2>4
<1>5. ASSUME NEW k \in h + 1..Len(r), NEW l \in h + 1..Len(r),
             r[k].kind = "IRVAL_TEMP", r[k] = r[l]
      PROVE  k = l
  <2>1. CASE k = Len(s) + 1 \/ l = Len(s) + 1
    BY <1>1, <1>2, <1>4, <1>5, <2>1
  <2>2. CASE k # Len(s) + 1 /\ l # Len(s) + 1
    BY <1>2, <1>5, <2>2 DEF Apart
  <2> QED
    BY <2>1, <2>2
<1>6. Apart(r, h)
  BY <1>5 DEF Apart
<1> QED
  BY <1>3, <1>6 DEF r

\* Temps from temps on are new.
LEMMA FreshIs ==
  ASSUME NEW temps \in Nat, NEW slots, NEW bs, BlocksOK(bs, temps, slots),
         NEW t \in Nat, t >= temps
  PROVE  \A c, k \in Nat : ~DefAt(bs, t, c, k)
<1> SUFFICES ASSUME NEW c \in Nat, NEW k \in Nat, DefAt(bs, t, c, k) PROVE FALSE
  OBVIOUS
<1>1. c \in 1..Len(bs) /\ k \in 1..Len(bs[c].insts) /\ bs[c].insts[k].dst = t
  BY DEF DefAt
<1>2. InstOK(bs[c].insts[k], temps, slots)
  BY <1>1 DEF BlocksOK
<1> QED
  BY <1>1, <1>2 DEF InstOK, NoTemp

\* While a function is walked that has taken nothing of another.
LEMMA TempsRunning ==
  ASSUME IInv, Running, ~foreign, Temps, NEW h, h = walk[1].base
  PROVE  /\ h \in Nat /\ h <= unclaimed /\ unclaimed \in Nat
         /\ Height \in Nat /\ h <= Height
         /\ InExpr => h <= Top.base
         /\ val_stack \in Seq(Values) /\ Height = Len(val_stack)
         /\ CodeOK(blocks, Held(val_stack, h)) /\ Apart(val_stack, h)
         /\ Held(val_stack, h) \in SUBSET Nat
         /\ next_temp \in Nat /\ next_slot \in Nat /\ curr \in 1..Len(blocks)
         /\ BlocksOK(blocks, next_temp, next_slot) /\ blocks \in Seq(BlockRecs)
         /\ \A c, k \in Nat : ~DefAt(blocks, next_temp, c, k)
         /\ next_temp \notin Held(val_stack, h)
<1>1. walk # <<>> /\ walk \in Seq(Frames)
  BY ShapeIs DEF Running, IInv, WalkOK
<1>2. walk[1] \in Frames
  BY <1>1
<1>3. h \in Nat
  BY <1>2 DEF Frames
<1>4. /\ unclaimed >= h /\ CodeOK(blocks, Held(val_stack, h)) /\ Apart(val_stack, h)
  BY DEF Temps
<1>5. /\ next_temp \in Nat /\ next_slot \in Nat /\ curr \in 1..Len(blocks)
      /\ BlocksOK(blocks, next_temp, next_slot) /\ blocks \in Seq(BlockRecs)
      /\ Height \in Nat /\ unclaimed \in Nat
      /\ val_stack \in Seq(Values) /\ Height = Len(val_stack)
  BY ShapeIs DEF IInv, BlocksOK, Height
<1>6. h <= Height /\ (InExpr => h <= Top.base)
  <2>1. CASE InExpr
    <3>1. Height >= Top.base /\ Top.base >= unclaimed /\ Top.base \in Nat
      BY <2>1, InExpression
    <3> QED
      BY <1>3, <1>4, <1>5, <3>1
  <2>2. CASE InStmts
    <3>1. Height = unclaimed
      BY <2>2, OnStatement
    <3>2. ~InExpr
      BY <2>2 DEF InExpr, InStmts
    <3> QED
      BY <1>3, <1>4, <1>5, <3>1, <3>2
  <2> QED
    BY <2>1, <2>2 DEF InExpr, InStmts
<1>7. \A c, k \in Nat : ~DefAt(blocks, next_temp, c, k)
  <2>1. next_temp >= next_temp
    BY <1>5
  <2> QED
    BY <1>5, <2>1, FreshIs
<1>8. next_temp \notin Held(val_stack, h)
  BY <1>4, <1>7 DEF CodeOK
<1>9. Held(val_stack, h) \in SUBSET Nat
  BY DEF Held
<1> QED
  BY <1>3, <1>4, <1>5, <1>6, <1>7, <1>8, <1>9

\* What a step has to keep.
Keeps == /\ CodeOK(blocks', Held(val_stack', walk[1].base))
         /\ Apart(val_stack', walk[1].base)

\* No values are pushed or popped.
LEMMA SilentKeeps ==
  ASSUME IInv, Running, ~foreign, Temps, val_stack' = val_stack, Silent(blocks, blocks')
  PROVE  Keeps
<1> DEFINE h == walk[1].base
<1>1. /\ CodeOK(blocks, Held(val_stack, h)) /\ Apart(val_stack, h)
      /\ Held(val_stack, h) \in SUBSET Nat
  BY TempsRunning
<1> HIDE DEF h
<1>2. CodeOK(blocks', Held(val_stack, h))
  BY <1>1, CodeSilent
<1> QED
  BY <1>1, <1>2 DEF Keeps, h

\* The last value is popped, and whoever reads temps reads that one.
LEMMA PopKeeps ==
  ASSUME IInv, Running, ~foreign, Temps, walk[1].base < Height,
         val_stack' = Pop(val_stack, 1), NEW b, NEW m, NEW R,
         R \subseteq {t \in Nat : Last(val_stack) = TEMP(t)},
         Adds(blocks, blocks', NoTemp, b, m, R)
  PROVE  Keeps
<1> DEFINE h == walk[1].base
           T == Held(val_stack, h)
           T2 == Held(val_stack', h)
<1>1. /\ h \in Nat /\ Height \in Nat /\ val_stack \in Seq(Values) /\ Height = Len(val_stack)
      /\ CodeOK(blocks, T) /\ Apart(val_stack, h) /\ T \in SUBSET Nat /\ h < Height
  BY TempsRunning
<1> HIDE DEF h
<1>2. /\ val_stack' \in Seq(Values) /\ Len(val_stack') = Height - 1
      /\ \A k \in 1..Height - 1 : val_stack'[k] = val_stack[k]
  <2>1. 1 \in Nat /\ 1 <= Height
    BY <1>1
  <2> QED
    BY <2>1, StackIs
<1>3. /\ Apart(val_stack', h) /\ T2 \subseteq T
      /\ \A t \in T2 : \A k \in Len(val_stack') + 1..Len(val_stack) : val_stack[k] # TEMP(t)
  <2>1. h <= Len(val_stack') /\ Len(val_stack') <= Len(val_stack)
    BY <1>1, <1>2
  <2>2. \A k \in 1..Len(val_stack') : val_stack'[k] = val_stack[k]
    BY <1>2
  <2> QED
    BY <1>1, <1>2, <2>1, <2>2, HeldDrop
<1>4. Height \in Len(val_stack') + 1..Len(val_stack) /\ Height \in h + 1..Len(val_stack)
  BY <1>1, <1>2
<1>5. \A t \in R : t \in Nat /\ val_stack[Height] = TEMP(t)
  BY <1>1 DEF Last
<1>6. R \subseteq T
  BY <1>4, <1>5 DEF Held
<1>7. \A t \in T2 : t \in T /\ t \notin R
  BY <1>3, <1>4, <1>5
<1>8. NoTemp \notin Nat
  BY DEF NoTemp
<1>9. T2 \in SUBSET Nat
  BY <1>1, <1>3
<1> HIDE DEF T, T2
<1>10. CodeOK(blocks', T2)
  BY <1>1, <1>6, <1>7, <1>8, <1>9, CodeStep
<1> QED
  BY <1>3, <1>10 DEF Keeps, T2, h

\* The last n values are popped and read, and the result is pushed.
LEMMA ApplyKeeps ==
  ASSUME IInv, Running, ~foreign, Temps, NEW n \in Nat, n <= Height - walk[1].base,
         val_stack' = Append(Pop(val_stack, n), TEMP(next_temp)), NEW b, NEW m, NEW R,
         R \subseteq {t \in Nat : \E k \in Height - n + 1..Height : val_stack[k] = TEMP(t)},
         Adds(blocks, blocks', next_temp, b, m, R)
  PROVE  Keeps
<1> DEFINE h == walk[1].base
           r == Pop(val_stack, n)
           T == Held(val_stack, h)
           T2 == Held(val_stack', h)
<1>1. /\ h \in Nat /\ Height \in Nat /\ val_stack \in Seq(Values) /\ Height = Len(val_stack)
      /\ CodeOK(blocks, T) /\ Apart(val_stack, h) /\ T \in SUBSET Nat /\ n <= Height - h
      /\ next_temp \in Nat /\ next_temp \notin T
      /\ \A c, k \in Nat : ~DefAt(blocks, next_temp, c, k)
  BY TempsRunning
<1> HIDE DEF h
<1>2. /\ r \in Seq(Values) /\ Len(r) = Height - n
      /\ \A k \in 1..Height - n : r[k] = val_stack[k]
  <2>1. n <= Height
    BY <1>1
  <2> QED
    BY <2>1, StackIs
<1>3. val_stack' = Append(r, TEMP(next_temp))
  OBVIOUS
<1> HIDE DEF r
<1>4. /\ Apart(r, h) /\ Held(r, h) \subseteq T
      /\ \A t \in Held(r, h) : \A k \in Len(r) + 1..Len(val_stack) : val_stack[k] # TEMP(t)
      /\ h <= Len(r)
  <2>1. h <= Len(r) /\ Len(r) <= Len(val_stack)
    BY <1>1, <1>2
  <2>2. \A k \in 1..Len(r) : r[k] = val_stack[k]
    BY <1>2
  <2> QED
    BY <1>1, <1>2, <2>1, <2>2, HeldDrop
<1>5. TEMP(next_temp) \in Values
      /\ \A t \in Nat : TEMP(next_temp) = TEMP(t) => t = next_temp
  BY <1>1, ValuesAre
<1>6. /\ Apart(val_stack', h)
      /\ \A t \in T2 : t \in Held(r, h) \/ TEMP(next_temp) = TEMP(t)
  <2>1. \A t \in Held(r, h) : TEMP(next_temp) # TEMP(t)
    BY <1>1, <1>4, <1>5
  <2> QED
    BY <1>1, <1>2, <1>3, <1>4, <1>5, <2>1, HeldPush
<1>7. T2 \in SUBSET Nat
  BY DEF Held
<1>8. \A k \in Height - n + 1..Height : k \in Len(r) + 1..Len(val_stack)
                                          /\ k \in h + 1..Len(val_stack)
  BY <1>1, <1>2
<1>9. R \subseteq T
  BY <1>8 DEF Held
<1>10. \A t \in Held(r, h) : t \notin R
  BY <1>4, <1>8
<1>11. \A t \in T2 : (t \in T /\ t \notin R) \/ t = next_temp
  BY <1>4, <1>5, <1>6, <1>7, <1>10
<1> HIDE DEF T, T2
<1>12. CodeOK(blocks', T2)
  BY <1>1, <1>7, <1>9, <1>11, CodeStep
<1> QED
  BY <1>6, <1>12 DEF Keeps, T2, h
-----------------------------------------------------------------------------
\* What a step of the generator does to the code.  Mostly it adds no instruction,
LEMMA RunningIs ==
  ASSUME IInv, Running
  PROVE  /\ walk \in Seq(Frames) /\ walk # <<>> /\ Top = Last(walk)
         /\ blocks \in Seq(BlockRecs) /\ Len(blocks) \in Nat /\ curr \in 1..Len(blocks)
         /\ val_stack \in Seq(Values) /\ Height = Len(val_stack) /\ Height \in Nat
         /\ next_temp \in Nat /\ next_slot \in Nat
<1> QED
  BY ShapeIs DEF Running, IInv, BlocksOK, Top, Height

LEMMA ImplicitSilent ==
  ASSUME NEW bs \in Seq(BlockRecs), NEW b \in 1..Len(bs)
  PROVE  /\ Silent(bs, Terminate(bs, b, ImplicitHalt))
         /\ Silent(bs, Terminate(bs, b, Halt(<<>>)))
<1>1. ASSUME NEW t \in TermRecs, Reads(t.args) = {}
      PROVE  Silent(bs, Terminate(bs, b, t))
  BY <1>1, TerminateAdds, NothingAdded
<1>2. ImplicitHalt \in TermRecs /\ Reads(ImplicitHalt.args) = {}
  BY ImplicitHaltIs, ReadsIs
<1>3. Halt(<<>>) \in TermRecs /\ Reads(Halt(<<>>).args) = {}
  BY TermsAre, ReadsIs
<1> QED
  BY <1>1, <1>2, <1>3

\* Steps that push, pop and read nothing.
LEMMA BeginSilent ==
  ASSUME \/ \E at \in {"and_lhs", "or_lhs"} : BeginLogOp(at)
         \/ BeginSimple \/ BeginBlock \/ EndBlock
  PROVE  Silent(blocks, blocks') /\ val_stack' = val_stack
<1>1. blocks' = blocks /\ val_stack' = val_stack
  BY DEF BeginLogOp, BeginSimple, BeginStmt, BeginBlock, EndBlock
<1> QED
  BY <1>1, SilentSame

LEMMA BranchSilent ==
  ASSUME IInv, Running, EndThen \/ EndWhile
  PROVE  Silent(blocks, blocks') /\ val_stack' = val_stack
<1>1. curr \in 1..Len(blocks) /\ blocks \in Seq(BlockRecs)
  BY RunningIs
<1>2. PICK to \in 1..Len(blocks) : blocks' = JumpIfOpen(blocks, curr, to)
  <2>1. CASE EndThen
    <3>1. InStmts /\ Top.at = "then_block" /\ Len(Top.to) = 2
          /\ blocks' = JumpIfOpen(blocks, curr, Top.to[2])
      BY <2>1 DEF EndThen
    <3>2. FrameOK(Top, unclaimed, next_slot, Len(blocks))
      BY <3>1, OnList
    <3>3. Top.to[2] \in 1..Len(blocks)
      BY <3>1, <3>2 DEF FrameOK
    <3> QED
      BY <3>1, <3>3
  <2>2. CASE EndWhile
    <3>1. InStmts /\ Top.at = "loop_block"
          /\ blocks' = JumpIfOpen(blocks, curr, Top.to[1])
      BY <2>2 DEF EndWhile
    <3>2. FrameOK(Top, unclaimed, next_slot, Len(blocks))
      BY <3>1, OnList
    <3>3. Len(Top.to) = 2
      BY <3>1, <3>2 DEF FrameOK, Targets
    <3>4. Top.to[1] \in 1..Len(blocks)
      BY <3>2, <3>3 DEF FrameOK
    <3> QED
      BY <3>1, <3>4
  <2> QED
    BY <2>1, <2>2
<1>3. Silent(blocks, blocks')
  BY <1>1, <1>2, JumpSilent
<1>4. val_stack' = val_stack
  BY DEF EndThen, EndWhile
<1> QED
  BY <1>3, <1>4

LEMMA EndIfSilent ==
  ASSUME IInv, Running, EndIf
  PROVE  Silent(blocks, blocks') /\ val_stack' = val_stack
<1> DEFINE join == Last(Top.to)
           reached == \/ Top.at = "then_block" \/ Top.reached \/ Open(blocks, curr)
           bs == JumpIfOpen(blocks, curr, join)
<1>1. /\ InStmts /\ Top.at \in {"then_block", "else_block"} /\ Len(Top.to) = 1
      /\ blocks' = IF reached THEN bs ELSE Terminate(bs, join, ImplicitHalt)
      /\ val_stack' = val_stack
  BY DEF EndIf
<1>2. FrameOK(Top, unclaimed, next_slot, Len(blocks))
  BY <1>1, OnList
<1>3. join \in 1..Len(blocks)
  BY <1>1, <1>2 DEF FrameOK, Last
<1>4. curr \in 1..Len(blocks) /\ blocks \in Seq(BlockRecs)
  BY RunningIs
<1> HIDE DEF join
<1>5. bs \in Seq(BlockRecs) /\ Len(bs) = Len(blocks) /\ Silent(blocks, bs)
  BY <1>3, <1>4, JumpCloses, JumpSilent
<1> HIDE DEF bs
<1>6. Silent(bs, Terminate(bs, join, ImplicitHalt))
  BY <1>3, <1>5, ImplicitSilent
<1>7. Silent(blocks, Terminate(bs, join, ImplicitHalt))
  BY <1>5, <1>6, AddsSilent DEF Silent
<1>8. Silent(blocks, blocks')
  BY <1>1, <1>5, <1>7
<1> QED
  BY <1>1, <1>8

LEMMA BeginWhileSilent ==
  ASSUME IInv, Running, BeginWhile
  PROVE  Silent(blocks, blocks') /\ val_stack' = val_stack
<1> DEFINE n == Len(blocks)
           news == <<NewBlock, NewBlock, NewBlock>>
           bs == blocks \o news
<1>1. blocks' = JumpIfOpen(bs, curr, n + 1) /\ val_stack' = val_stack
  BY DEF BeginWhile
<1>2. news \in {<<NewBlock, NewBlock>>, <<NewBlock, NewBlock, NewBlock>>} /\ Len(news) = 3
  OBVIOUS
<1>3. n \in Nat /\ curr \in 1..n /\ blocks \in Seq(BlockRecs)
  BY RunningIs
<1> HIDE DEF news
<1>4. bs \in Seq(BlockRecs) /\ Len(bs) = n + Len(news) /\ Silent(blocks, bs)
  BY <1>2, <1>3, CreateIs, CreateSilent
<1>5. curr \in 1..Len(bs) /\ n + 1 \in 1..Len(bs)
  BY <1>2, <1>3, <1>4
<1> HIDE DEF bs
<1>6. Silent(bs, JumpIfOpen(bs, curr, n + 1))
  BY <1>4, <1>5, JumpSilent
<1>7. Silent(blocks, blocks')
  BY <1>1, <1>4, <1>6, AddsSilent DEF Silent
<1> QED
  BY <1>1, <1>7

LEMMA EndFunctionSilent ==
  ASSUME IInv, Running, EndFunction \/ BareExit
  PROVE  Silent(blocks, blocks') /\ val_stack' = val_stack
<1>1. /\ val_stack' = val_stack
      /\ \/ blocks' = Terminate(blocks, curr, ImplicitHalt)
         \/ blocks' = Terminate(blocks, curr, Halt(<<>>))
         \/ blocks' = blocks
  BY DEF EndFunction, BareExit
<1>2. curr \in 1..Len(blocks) /\ blocks \in Seq(BlockRecs)
  BY RunningIs
<1>3. Silent(blocks, blocks')
  BY <1>1, <1>2, ImplicitSilent, SilentSame
<1> QED
  BY <1>1, <1>3

Quietly == \/ \E at \in {"and_lhs", "or_lhs"} : BeginLogOp(at)
           \/ BeginSimple \/ BeginBlock \/ EndBlock
           \/ EndThen \/ EndWhile \/ EndIf \/ BeginWhile \/ EndFunction \/ BareExit

LEMMA QuietSilent ==
  ASSUME IInv, Running, Quietly
  PROVE  Silent(blocks, blocks') /\ val_stack' = val_stack
BY BeginSilent, BranchSilent, EndIfSilent, BeginWhileSilent, EndFunctionSilent, Zenon DEF Quietly

LEMMA QuietTemps ==
  ASSUME IInv, Running, ~foreign, Temps, Quietly
  PROVE  Keeps
BY QuietSilent, SilentKeeps
-----------------------------------------------------------------------------
\* An instruction comes at the end of block b.
Appends(bs, new, d, b, R) ==
  \E m \in Nat : /\ Adds(bs, new, d, b, m, R)
                 /\ \A t, k \in Nat : DefAt(bs, t, b, k) => k < m

LEMMA EmitAppends ==
  ASSUME NEW bs \in Seq(BlockRecs), NEW b \in 1..Len(bs), NEW i \in InstRecs
  PROVE  Appends(bs, Emit(bs, b, <<i>>), i.dst, b, Reads(i.args))
<1> DEFINE m == Len(bs[b].insts) + 1
<1>1. Adds(bs, Emit(bs, b, <<i>>), i.dst, b, m, Reads(i.args))
  BY EmitAdds
<1>2. Len(bs[b].insts) \in Nat
  <2>1. bs[b] \in BlockRecs
    OBVIOUS
  <2>2. bs[b].insts \in Seq(InstRecs)
    BY <2>1 DEF BlockRecs
  <2> QED
    BY <2>2
<1>3. m \in Nat /\ \A t, k \in Nat : DefAt(bs, t, b, k) => k < m
  BY <1>2 DEF DefAt
<1> HIDE DEF m
<1> QED
  BY <1>1, <1>3 DEF Appends

\* An instruction at the end of the current block takes the last value, or the
\* block ends with it,
LastTemp == {t \in Nat : Last(val_stack) = TEMP(t)}

Takes == /\ val_stack' = Pop(val_stack, 1)
         /\ \/ Appends(blocks, blocks', NoTemp, curr, LastTemp)
            \/ Adds(blocks, blocks', NoTemp, curr, 0, LastTemp)

LEMMA StoreTakes ==
  ASSUME IInv, Running, Last(val_stack) \in Values, NEW s \in Nat,
         val_stack' = Pop(val_stack, 1),
         blocks' = Emit(blocks, curr, <<Store(s, Last(val_stack))>>)
  PROVE  Takes
<1> DEFINE v == Last(val_stack)
           i == Store(s, v)
<1>1. curr \in 1..Len(blocks) /\ blocks \in Seq(BlockRecs)
  BY RunningIs
<1>2. i \in InstRecs /\ i.dst = NoTemp /\ i.args = <<v>>
  <2>1. 0 \in Nat
    OBVIOUS
  <2> QED
    BY <2>1, InstsAre
<1>3. Appends(blocks, Emit(blocks, curr, <<i>>), i.dst, curr, Reads(i.args))
  <2> HIDE DEF i
  <2> QED
    BY <1>1, <1>2, EmitAppends
<1>4. Reads(i.args) = LastTemp
  BY <1>2, ReadsIs DEF LastTemp
<1> QED
  BY <1>2, <1>3, <1>4 DEF Takes

LEMMA TermTakes ==
  ASSUME IInv, Running, Last(val_stack) \in Values,
         val_stack' = Pop(val_stack, 1), NEW bs \in Seq(BlockRecs), Silent(blocks, bs),
         curr \in 1..Len(bs), NEW t \in TermRecs, t.args = <<Last(val_stack)>>,
         blocks' = Terminate(bs, curr, t)
  PROVE  Takes
<1>1. Adds(bs, blocks', NoTemp, curr, 0, Reads(t.args))
  BY TerminateAdds
<1>2. Adds(blocks, blocks', NoTemp, curr, 0, Reads(t.args))
  BY <1>1, AddsSilent
<1>3. Reads(t.args) = LastTemp
  BY ReadsIs DEF LastTemp
<1> QED
  BY <1>2, <1>3 DEF Takes

LEMMA AssignTakes ==
  ASSUME IInv, Running, VarDec \/ Assn
  PROVE  Takes
<1>1. ExprDone /\ val_stack' = Pop(val_stack, 1)
  BY DEF VarDec, Assn
<1>2. Last(val_stack) \in Values /\ FrameOK(Top, unclaimed, next_slot, Len(blocks))
  BY <1>1, OnValue
<1>3. next_slot \in Nat
  BY RunningIs
<1>4. CASE VarDec
  BY <1>1, <1>2, <1>3, <1>4, StoreTakes DEF VarDec
<1>5. CASE Assn
  <2>1. Top.at = "assn" /\ blocks' = Emit(blocks, curr, <<Store(Top.slot, Last(val_stack))>>)
    BY <1>5 DEF Assn
  <2>2. Top.slot \in Nat
    BY <1>2, <1>3, <2>1 DEF FrameOK
  <2> QED
    BY <1>1, <1>2, <2>1, <2>2, StoreTakes
<1> QED
  BY <1>4, <1>5

LEMMA ExitTakes ==
  ASSUME IInv, Running, Exit
  PROVE  Takes
<1> DEFINE t == Halt(<<Last(val_stack)>>)
<1>1. ExprDone /\ val_stack' = Pop(val_stack, 1) /\ blocks' = Terminate(blocks, curr, t)
  BY DEF Exit
<1>2. Last(val_stack) \in Values
  BY <1>1, OnValue
<1>3. t \in TermRecs /\ t.args = <<Last(val_stack)>>
  BY <1>2, TermsAre
<1> HIDE DEF t
<1>4. curr \in 1..Len(blocks) /\ blocks \in Seq(BlockRecs) /\ Silent(blocks, blocks)
  BY RunningIs, SilentSame
<1> QED
  BY <1>1, <1>2, <1>3, <1>4, TermTakes

LEMMA IfTakes ==
  ASSUME IInv, Running, NEW else \in BOOLEAN, If(else)
  PROVE  Takes
<1> DEFINE n == Len(blocks)
           news == IF else THEN <<NewBlock, NewBlock, NewBlock>> ELSE <<NewBlock, NewBlock>>
           bs == blocks \o news
           t == BranchIfZero(Last(val_stack), n + 1, n + 2)
<1>1. ExprDone /\ val_stack' = Pop(val_stack, 1) /\ blocks' = Terminate(bs, curr, t)
  BY DEF If
<1>2. Last(val_stack) \in Values
  BY <1>1, OnValue
<1>3. n \in Nat /\ curr \in 1..n /\ blocks \in Seq(BlockRecs)
  BY RunningIs
<1>4. t \in TermRecs /\ t.args = <<Last(val_stack)>>
  <2>1. n + 1 \in Nat /\ n + 2 \in Nat
    BY <1>3
  <2> QED
    BY <1>2, <2>1, TermsAre
<1> HIDE DEF t
<1>5. news \in {<<NewBlock, NewBlock>>, <<NewBlock, NewBlock, NewBlock>>}
      /\ Len(news) \in {2, 3}
  OBVIOUS
<1> HIDE DEF news
<1>6. bs \in Seq(BlockRecs) /\ Len(bs) = n + Len(news) /\ Silent(blocks, bs)
  BY <1>3, <1>5, CreateIs, CreateSilent
<1>7. curr \in 1..Len(bs)
  BY <1>3, <1>5, <1>6
<1> HIDE DEF bs
<1> QED
  BY <1>1, <1>2, <1>4, <1>6, <1>7, TermTakes

LEMMA WhileBodyTakes ==
  ASSUME IInv, Running, WhileBody
  PROVE  Takes
<1> DEFINE t == BranchIfZero(Last(val_stack), Top.to[2], Top.to[3])
<1>1. /\ ExprDone /\ Top.at = "while" /\ val_stack' = Pop(val_stack, 1)
      /\ blocks' = IF Open(blocks, curr) THEN Terminate(blocks, curr, t) ELSE blocks
  BY DEF WhileBody
<1>2. Last(val_stack) \in Values /\ FrameOK(Top, unclaimed, next_slot, Len(blocks))
  BY <1>1, OnValue
<1>3. curr \in 1..Len(blocks) /\ blocks \in Seq(BlockRecs) /\ Silent(blocks, blocks)
  BY RunningIs, SilentSame
<1>4. t \in TermRecs /\ t.args = <<Last(val_stack)>>
  <2>1. Len(Top.to) = 3
    BY <1>1, <1>2 DEF FrameOK, Targets
  <2>2. Top.to[2] \in Nat /\ Top.to[3] \in Nat
    BY <1>2, <2>1 DEF FrameOK
  <2> QED
    BY <1>2, <2>2, TermsAre
<1> HIDE DEF t
<1>5. CASE Open(blocks, curr)
  BY <1>1, <1>2, <1>3, <1>4, <1>5, TermTakes
<1>6. CASE ~Open(blocks, curr)
  <2>1. Adds(blocks, blocks', NoTemp, 0, 0, {})
    BY <1>1, <1>3, <1>6 DEF Silent
  <2>2. NoTemp \notin Nat /\ curr \in Nat
    BY <1>3 DEF NoTemp
  <2>3. Adds(blocks, blocks', NoTemp, curr, 0, LastTemp)
    BY <2>1, <2>2 DEF Adds
  <2> QED
    BY <1>1, <2>3 DEF Takes
<1> QED
  BY <1>5, <1>6

LEMMA FinishLhsTakes ==
  ASSUME IInv, Running, FinishLhs
  PROVE  Takes
<1> DEFINE n == Len(blocks)
           news == <<NewBlock, NewBlock>>
           bs == blocks \o news
           c == IMM(IF Top.at = "and_lhs" THEN 0 ELSE 1)
           i == Store(Top.slot, c)
           s == Emit(bs, curr, <<i>>)
           t == IF Top.at = "and_lhs" THEN BranchIfZero(Last(val_stack), n + 1, n + 2)
                ELSE BranchIfZero(Last(val_stack), n + 2, n + 1)
<1>1. /\ ExprDone /\ Top.at \in {"and_lhs", "or_lhs"} /\ val_stack' = Pop(val_stack, 1)
      /\ blocks' = Terminate(s, curr, t)
  BY DEF FinishLhs
<1>2. Last(val_stack) \in Values /\ FrameOK(Top, unclaimed, next_slot, n)
  BY <1>1, OnValue
<1>3. n \in Nat /\ curr \in 1..n /\ blocks \in Seq(BlockRecs) /\ next_temp \in Nat
  BY RunningIs
<1>4. t \in TermRecs /\ t.args = <<Last(val_stack)>>
  <2>1. n + 1 \in Nat /\ n + 2 \in Nat
    BY <1>3
  <2>2. CASE Top.at = "and_lhs"
    BY <1>2, <2>1, <2>2, TermsAre
  <2>3. CASE Top.at # "and_lhs"
    BY <1>2, <2>1, <2>3, TermsAre
  <2> QED
    BY <2>2, <2>3
<1> HIDE DEF t
<1>5. news \in {<<NewBlock, NewBlock>>, <<NewBlock, NewBlock, NewBlock>>} /\ Len(news) = 2
  OBVIOUS
<1> HIDE DEF news
<1>6. bs \in Seq(BlockRecs) /\ Len(bs) = n + Len(news) /\ Silent(blocks, bs)
  BY <1>3, <1>5, CreateIs, CreateSilent
<1>7. curr \in 1..Len(bs)
  BY <1>3, <1>5, <1>6
<1> HIDE DEF bs
<1>8. c \in Imms /\ c \in Values
  <2>1. (IF Top.at = "and_lhs" THEN 0 ELSE 1) \in Constants \cup {0, 1}
    OBVIOUS
  <2>2. c \in Imms
    BY <2>1, ValuesAre
  <2> QED
    BY <2>2 DEF Imms
<1> HIDE DEF c
<1>9. i \in InstRecs /\ i.dst = NoTemp /\ i.args = <<c>>
  <2>1. Top.slot \in Nat
    BY <1>1, <1>2 DEF FrameOK, LogFrames
  <2> QED
    BY <1>3, <1>8, <2>1, InstsAre
<1> HIDE DEF i
<1>10. Silent(bs, s)
  <2>1. Adds(bs, s, i.dst, curr, Len(bs[curr].insts) + 1, Reads(i.args))
    BY <1>6, <1>7, <1>9, EmitAdds
  <2>2. Reads(i.args) = {}
    <3>1. Reads(i.args) = {x \in Nat : c = TEMP(x)}
      BY <1>8, <1>9, ReadsIs
    <3> QED
      BY <1>8, <3>1, ValuesAre
  <2> QED
    BY <1>9, <2>1, <2>2, NothingAdded
<1>11. s \in Seq(BlockRecs) /\ Len(s) = Len(bs)
  <2>1. <<i>> \in Seq(InstRecs)
    BY <1>9
  <2> QED
    BY <1>6, <1>7, <2>1, EmitIs
<1> HIDE DEF s
<1>12. Silent(blocks, s) /\ curr \in 1..Len(s)
  BY <1>6, <1>7, <1>10, <1>11, AddsSilent DEF Silent
<1> QED
  BY <1>1, <1>2, <1>4, <1>11, <1>12, TermTakes

\* The value a statement or an operator has waited for is above those of others.
LEMMA ValueIs ==
  ASSUME IInv, Running, ~foreign, Temps, ExprDone
  PROVE  /\ walk[1].base < Height /\ Last(val_stack) \in Values
         /\ Last(val_stack) = val_stack[Height] /\ Top \in Frames
         /\ FrameOK(Top, unclaimed, next_slot, Len(blocks))
<1>1. InExpr /\ Height \in Nat \ {0} /\ Height = Top.base + 1 /\ Top.base \in Nat
      /\ Last(val_stack) \in Values /\ Last(val_stack) = val_stack[Height]
      /\ Top \in Frames /\ FrameOK(Top, unclaimed, next_slot, Len(blocks))
  BY OnValue
<1>2. walk[1].base \in Nat /\ walk[1].base <= Top.base
  <2>1. InExpr
    BY <1>1
  <2> QED
    BY <2>1, TempsRunning
<1> QED
  BY <1>1, <1>2

LEMMA TakesTemps ==
  ASSUME IInv, Running, ~foreign, Temps, walk[1].base < Height, Takes
  PROVE  Keeps
<1>1. PICK m : Adds(blocks, blocks', NoTemp, curr, m, LastTemp)
  BY DEF Takes, Appends
<1>2. LastTemp \subseteq {t \in Nat : Last(val_stack) = TEMP(t)}
  BY DEF LastTemp
<1>3. val_stack' = Pop(val_stack, 1)
  BY DEF Takes
<1> QED
  BY <1>1, <1>2, <1>3, PopKeeps

Taking == \/ FinishLhs \/ VarDec \/ Assn \/ Exit \/ WhileBody
          \/ \E else \in BOOLEAN : If(else)

LEMMA TakingTakes ==
  ASSUME IInv, Running, Taking
  PROVE  ExprDone /\ Takes
<1>1. ExprDone
  BY DEF Taking, FinishLhs, VarDec, Assn, Exit, WhileBody, If
<1>2. Takes
  BY FinishLhsTakes, AssignTakes, ExitTakes, WhileBodyTakes, IfTakes, Zenon DEF Taking
<1> QED
  BY <1>1, <1>2

LEMMA TakingTemps ==
  ASSUME IInv, Running, ~foreign, Temps, Taking
  PROVE  Keeps
BY TakingTakes, ValueIs, TakesTemps

\* A declaration without an initialiser takes what is on top, which is not of
\* another function.
LEMMA BareVarDecTemps ==
  ASSUME IInv, Running, ~foreign, Temps, BareVarDec, ~foreign'
  PROVE  Keeps /\ unclaimed' >= walk[1].base
<1> DEFINE h == walk[1].base
<1>1. /\ InStmts
      /\ unclaimed' = IF unclaimed = 0 THEN 0 ELSE unclaimed - 1
      /\ val_stack = <<>> => blocks' = blocks /\ val_stack' = val_stack
      /\ val_stack # <<>> =>
           /\ blocks' = Emit(blocks, curr, <<Store(next_slot, Last(val_stack))>>)
           /\ val_stack' = Pop(val_stack, 1)
  BY DEF BareVarDec
<1>2. ~(unclaimed > 0 /\ Height <= h)
  BY Zenon DEF BareVarDec
<1>3. /\ h \in Nat /\ Height \in Nat /\ unclaimed \in Nat /\ h <= unclaimed
      /\ val_stack \in Seq(Values) /\ Height = Len(val_stack) /\ next_slot \in Nat
  BY TempsRunning
<1>4. Height = unclaimed
  BY <1>1, OnStatement
<1>5. CASE val_stack = <<>>
  <2>1. Height = 0
    BY <1>3, <1>5
  <2>2. unclaimed' >= h
    BY <1>1, <1>3, <1>4, <2>1
  <2>3. Silent(blocks, blocks')
    BY <1>1, <1>5, SilentSame
  <2> QED
    BY <1>1, <1>5, <2>2, <2>3, SilentKeeps
<1>6. CASE val_stack # <<>>
  <2>1. Height > 0
    BY <1>3, <1>6
  <2>2. h < Height /\ unclaimed' >= h
    BY <1>1, <1>2, <1>3, <1>4, <2>1
  <2>3. Last(val_stack) \in Values
    BY <1>3, <2>1 DEF Last
  <2>4. Takes
    BY <1>1, <1>3, <1>6, <2>3, StoreTakes
  <2> QED
    BY <2>2, <2>4, TakesTemps
<1> QED
  BY <1>5, <1>6
-----------------------------------------------------------------------------
\* An instruction that reads the last n values and a constant.
LEMMA PlaceOf ==
  ASSUME NEW n \in Nat, NEW m \in Nat, NEW top \in Nat, NEW k \in 1..m, ~(k <= m - n)
  PROVE  top - m + k \in top - n + 1..top
OBVIOUS

LEMMA ComputesReads ==
  ASSUME IInv, NEW n \in Nat, NEW i, Computes(i, n)
  PROVE  /\ i \in InstRecs /\ i.dst = next_temp
         /\ Reads(i.args)
              \subseteq {t \in Nat : \E k \in Height - n + 1..Height : val_stack[k] = TEMP(t)}
<1>1. /\ i \in InstRecs /\ i.dst = next_temp /\ n <= Len(i.args)
      /\ \A k \in 1..Len(i.args) :
           i.args[k] = IF k <= Len(i.args) - n THEN IMM(0)
                       ELSE val_stack[Height - Len(i.args) + k]
  BY DEF Computes
<1>2. Len(i.args) \in Nat /\ Height \in Nat
  BY <1>1, ShapeIs DEF InstRecs
<1>3. ASSUME NEW t \in Reads(i.args)
      PROVE  t \in Nat /\ \E k \in Height - n + 1..Height : val_stack[k] = TEMP(t)
  <2>1. t \in Nat
    BY DEF Reads
  <2>2. PICK k \in 1..Len(i.args) : i.args[k] = TEMP(t)
    BY DEF Reads, Uses
  <2>3. IMM(0) # TEMP(t)
    BY DEF IMM, TEMP
  <2>4. ~(k <= Len(i.args) - n) /\ val_stack[Height - Len(i.args) + k] = TEMP(t)
    BY <1>1, <2>2, <2>3
  <2>5. Height - Len(i.args) + k \in Height - n + 1..Height
    BY <1>2, <2>4, PlaceOf, Zenon
  <2> QED
    BY <2>1, <2>4, <2>5
<1> QED
  BY <1>1, <1>3

LEMMA BlockSame ==
  ASSUME NEW p \in BlockRecs, NEW q \in BlockRecs, p.insts = q.insts, p.term = q.term
  PROVE  p = q
BY DEF BlockRecs

\* No instruction is appended.
LEMMA EmitNothing ==
  ASSUME NEW bs \in Seq(BlockRecs), NEW b \in 1..Len(bs)
  PROVE  Emit(bs, b, <<>>) = bs
<1> DEFINE new == Emit(bs, b, <<>>)
<1>1. /\ Len(new) = Len(bs) /\ new \in Seq(BlockRecs)
      /\ \A c \in 1..Len(bs) : c # b => new[c] = bs[c]
      /\ new[b].term = bs[b].term
      /\ new[b].insts = bs[b].insts \o <<>>
  <2>1. <<>> \in Seq(InstRecs)
    OBVIOUS
  <2> QED
    BY <2>1, EmitIs
<1> HIDE DEF new
<1>2. bs[b] \in BlockRecs /\ new[b] \in BlockRecs
  BY <1>1
<1>3. bs[b].insts \in Seq(InstRecs)
  BY <1>2 DEF BlockRecs
<1>4. bs[b].insts \o <<>> = bs[b].insts
  BY <1>3
<1>5. new[b] = bs[b]
  BY <1>1, <1>2, <1>4, BlockSame
<1>6. \A c \in 1..Len(bs) : new[c] = bs[c]
  BY <1>1, <1>5
<1>7. new = bs
  BY <1>1, <1>6, SeqEqual
<1> QED
  BY <1>7 DEF new

\* An instruction reads the last n values, and its result takes their place.
LastTemps(n) == {t \in Nat : \E k \in Height - n + 1..Height : val_stack[k] = TEMP(t)}

Makes(n) ==
  /\ n \in Nat /\ n <= Pending
  /\ val_stack' = Append(Pop(val_stack, n), TEMP(next_temp))
  /\ Appends(blocks, blocks', next_temp, curr, LastTemps(n))

LEMMA AppendsLess ==
  ASSUME NEW bs, NEW new, NEW d, NEW b, NEW R, NEW S, Appends(bs, new, d, b, R), R \subseteq S
  PROVE  Appends(bs, new, d, b, S)
BY DEF Appends, Adds

LEMMA EvalMakes ==
  ASSUME IInv, Running, NEW n, NEW v, NEW insts, Eval(n, v, insts)
  PROVE  \/ Makes(n)
         \/ v \in Imms /\ blocks' = blocks /\ val_stack' = Append(val_stack, v)
<1>1. /\ InExpr /\ n \in Nat /\ n <= Pending
      /\ val_stack' = Append(SubSeq(val_stack, 1, Height - n), v)
      /\ blocks' = Emit(blocks, curr, insts)
  BY DEF Eval
<1>2. /\ Top.base \in Nat /\ Height \in Nat /\ Pending = Height - Top.base
  BY <1>1, InExpression DEF Pending
<1>3. /\ val_stack \in Seq(Values) /\ Height = Len(val_stack)
      /\ curr \in 1..Len(blocks) /\ blocks \in Seq(BlockRecs)
  BY RunningIs
<1>4. n <= Height
  BY <1>1, <1>2
<1>5. Pop(val_stack, n) = SubSeq(val_stack, 1, Height - n)
  BY <1>1, <1>4, StackIs
<1>6. CASE v \in Imms /\ insts = <<>> /\ n = 0
  <2>1. blocks' = blocks
    BY <1>1, <1>3, <1>6, EmitNothing
  <2>2. val_stack' = Append(val_stack, v)
    <3>1. SubSeq(val_stack, 1, Height - 0) = val_stack
      BY <1>3
    <3> QED
      BY <1>1, <1>6, <3>1
  <2> QED
    BY <1>6, <2>1, <2>2
<1>7. CASE /\ v = TEMP(next_temp) /\ insts \in Seq(InstRecs) /\ Len(insts) = 1
           /\ Computes(insts[1], n)
  <2> DEFINE i == insts[1]
  <2>1. insts = <<i>>
    BY <1>7
  <2>2. i \in InstRecs /\ i.dst = next_temp /\ Reads(i.args) \subseteq LastTemps(n)
    BY <1>1, <1>7, ComputesReads DEF LastTemps
  <2> HIDE DEF i
  <2>3. Appends(blocks, blocks', next_temp, curr, Reads(i.args))
    <3>1. Appends(blocks, Emit(blocks, curr, <<i>>), i.dst, curr, Reads(i.args))
      BY <1>3, <2>2, EmitAppends
    <3> QED
      BY <1>1, <2>1, <2>2, <3>1
  <2>4. Appends(blocks, blocks', next_temp, curr, LastTemps(n))
    BY <2>2, <2>3, AppendsLess
  <2> QED
    BY <1>1, <1>5, <1>7, <2>4 DEF Makes
<1> QED
  BY <1>6, <1>7, Zenon DEF Eval

LEMMA CallStmtMakes ==
  ASSUME IInv, Running, CallStmt
  PROVE  Makes(Operands)
<1> DEFINE n == Operands
           i == Call(next_temp, Popped(n))
<1>1. /\ InExpr /\ Pending = n
      /\ val_stack' = Append(Pop(val_stack, n), TEMP(next_temp))
      /\ blocks' = Emit(blocks, curr, <<i>>)
  BY DEF CallStmt, Push
<1>2. Top.base \in Nat /\ Height \in Nat /\ Pending = Height - Top.base /\ n \in Nat
  BY <1>1, InExpression DEF Pending
<1>3. curr \in 1..Len(blocks) /\ blocks \in Seq(BlockRecs) /\ next_temp \in Nat
  BY RunningIs
<1>4. n <= Height
  BY <1>1, <1>2
<1>5. /\ Popped(n) \in Seq(Values) /\ Len(Popped(n)) = n
      /\ \A k \in 1..n : Popped(n)[k] = val_stack[Height - n + k]
  BY <1>2, <1>4, StackIs
<1> HIDE DEF n
<1>6. i \in InstRecs /\ i.dst = next_temp /\ i.args = Popped(n)
  BY <1>3, <1>5 DEF Call, Inst, InstRecs, InstTypes
<1> HIDE DEF i
<1>7. ASSUME NEW t \in Reads(i.args)
      PROVE  t \in LastTemps(n)
  <2>1. t \in Nat
    BY DEF Reads
  <2>2. PICK k \in 1..n : Popped(n)[k] = TEMP(t)
    BY <1>5, <1>6 DEF Reads, Uses
  <2>3. val_stack[Height - n + k] = TEMP(t) /\ Height - n + k \in Height - n + 1..Height
    BY <1>2, <1>5, <2>2
  <2> QED
    BY <2>1, <2>3 DEF LastTemps
<1>8. Appends(blocks, blocks', next_temp, curr, Reads(i.args))
  <2>1. Appends(blocks, Emit(blocks, curr, <<i>>), i.dst, curr, Reads(i.args))
    BY <1>3, <1>6, EmitAppends
  <2> QED
    BY <1>1, <1>6, <2>1
<1>9. Appends(blocks, blocks', next_temp, curr, LastTemps(n))
  BY <1>7, <1>8, AppendsLess
<1>10. n <= Pending
  BY <1>1, <1>2
<1> QED
  BY <1>1, <1>2, <1>9, <1>10 DEF Makes, n

LEMMA MakesTemps ==
  ASSUME IInv, Running, ~foreign, Temps, InExpr, NEW n, Makes(n)
  PROVE  Keeps
<1> DEFINE h == walk[1].base
<1>1. /\ n \in Nat /\ n <= Pending /\ val_stack' = Append(Pop(val_stack, n), TEMP(next_temp))
      /\ Appends(blocks, blocks', next_temp, curr, LastTemps(n))
  BY DEF Makes
<1>2. Top.base \in Nat /\ Height \in Nat /\ Pending = Height - Top.base
  BY InExpression DEF Pending
<1>3. h \in Nat /\ h <= Top.base
  BY TempsRunning
<1>4. n <= Height - h
  <2> DEFINE p == Pending
             q == Height
             b == Top.base
  <2>1. n \in Nat /\ n <= p /\ b \in Nat /\ q \in Nat /\ p = q - b /\ h \in Nat /\ h <= b
    BY <1>1, <1>2, <1>3
  <2> HIDE DEF p, q, b, h
  <2>2. n <= q - h
    BY <2>1
  <2> QED
    BY <2>2 DEF q
<1>5. PICK m : Adds(blocks, blocks', next_temp, curr, m, LastTemps(n))
  BY <1>1 DEF Appends
<1>6. LastTemps(n)
        \subseteq {t \in Nat : \E k \in Height - n + 1..Height : val_stack[k] = TEMP(t)}
  BY DEF LastTemps
<1> QED
  BY <1>1, <1>4, <1>5, <1>6, ApplyKeeps

LEMMA EvalTemps ==
  ASSUME IInv, Running, ~foreign, Temps, NEW n, NEW v, NEW insts, Eval(n, v, insts)
  PROVE  Keeps
<1> DEFINE h == walk[1].base
<1>1. InExpr
  BY DEF Eval
<1>2. CASE Makes(n)
  BY <1>1, <1>2, MakesTemps
<1>3. CASE v \in Imms /\ blocks' = blocks /\ val_stack' = Append(val_stack, v)
  <2>1. /\ h \in Nat /\ h <= Height /\ val_stack \in Seq(Values) /\ Height = Len(val_stack)
        /\ CodeOK(blocks, Held(val_stack, h)) /\ Apart(val_stack, h)
    BY TempsRunning
  <2>2. v \in Values /\ \A t \in Nat : v # TEMP(t)
    BY <1>3, ValuesAre
  <2>3. \A t \in Held(val_stack, h) : v # TEMP(t)
    BY <2>2 DEF Held
  <2>4. /\ Apart(val_stack', h)
        /\ \A t \in Held(val_stack', h) : t \in Held(val_stack, h) \/ v = TEMP(t)
    BY <1>3, <2>1, <2>2, <2>3, HeldPush
  <2>5. Held(val_stack', h) \in SUBSET Held(val_stack, h)
    BY <2>2, <2>4 DEF Held
  <2>6. CodeOK(blocks', Held(val_stack', h))
    BY <1>3, <2>1, <2>5, CodeLess
  <2> QED
    BY <2>4, <2>6 DEF Keeps
<1> QED
  BY <1>2, <1>3, EvalMakes

\* Two instructions at once are one after the other.
LEMMA EmitTwice ==
  ASSUME NEW bs \in Seq(BlockRecs), NEW b \in 1..Len(bs), NEW i \in InstRecs, NEW j \in InstRecs
  PROVE  Emit(bs, b, <<i, j>>) = Emit(Emit(bs, b, <<i>>), b, <<j>>)
<1> DEFINE one == Emit(bs, b, <<i>>)
           two == Emit(one, b, <<j>>)
           both == Emit(bs, b, <<i, j>>)
<1>1. <<i>> \in Seq(InstRecs) /\ <<j>> \in Seq(InstRecs) /\ <<i, j>> \in Seq(InstRecs)
  OBVIOUS
<1>2. /\ one \in Seq(BlockRecs) /\ Len(one) = Len(bs)
      /\ \A c \in 1..Len(bs) : one[c].term = bs[c].term /\ (c # b => one[c] = bs[c])
      /\ one[b].insts = bs[b].insts \o <<i>>
  BY <1>1, EmitIs
<1>3. /\ both \in Seq(BlockRecs) /\ Len(both) = Len(bs)
      /\ \A c \in 1..Len(bs) : both[c].term = bs[c].term /\ (c # b => both[c] = bs[c])
      /\ both[b].insts = bs[b].insts \o <<i, j>>
  BY <1>1, EmitIs
<1> HIDE DEF one, both
<1>4. /\ two \in Seq(BlockRecs) /\ Len(two) = Len(one)
      /\ \A c \in 1..Len(one) : two[c].term = one[c].term /\ (c # b => two[c] = one[c])
      /\ two[b].insts = one[b].insts \o <<j>>
  <2>1. b \in 1..Len(one)
    BY <1>2
  <2>2. one \in Seq(BlockRecs)
    BY <1>2
  <2> QED
    BY <1>1, <2>1, <2>2, EmitIs
<1> HIDE DEF two
<1>5. bs[b].insts \in Seq(InstRecs)
  <2>1. bs[b] \in BlockRecs
    OBVIOUS
  <2> QED
    BY <2>1 DEF BlockRecs
<1>6. (bs[b].insts \o <<i>>) \o <<j>> = bs[b].insts \o <<i, j>>
  <2>1. <<i>> \o <<j>> = <<i, j>>
    <3>1. /\ <<i>> \o <<j>> \in Seq(InstRecs) /\ Len(<<i>> \o <<j>>) = Len(<<i>>) + Len(<<j>>)
          /\ \A k \in 1..Len(<<i>>) : (<<i>> \o <<j>>)[k] = <<i>>[k]
          /\ \A k \in 1..Len(<<j>>) : (<<i>> \o <<j>>)[Len(<<i>>) + k] = <<j>>[k]
      BY <1>1, ConcatIs
    <3> DEFINE u == <<i>> \o <<j>>
    <3>2. u \in Seq(InstRecs) /\ Len(u) = 2 /\ u[1] = i /\ u[2] = j
      BY <3>1
    <3> HIDE DEF u
    <3>3. Len(u) = Len(<<i, j>>) /\ \A k \in 1..Len(u) : u[k] = <<i, j>>[k]
      BY <3>2
    <3>4. u = <<i, j>>
      BY <1>1, <3>2, <3>3, SeqEqual
    <3> QED
      BY <3>4 DEF u
  <2>2. (bs[b].insts \o <<i>>) \o <<j>> = bs[b].insts \o (<<i>> \o <<j>>)
    BY <1>1, <1>5, ConcatAssociative
  <2> QED
    BY <2>1, <2>2
<1>7. both[b] = two[b]
  <2>1. both[b] \in BlockRecs /\ two[b] \in BlockRecs
    BY <1>2, <1>3, <1>4
  <2>2. both[b].insts = two[b].insts
    BY <1>2, <1>3, <1>4, <1>6
  <2>3. both[b].term = two[b].term
    BY <1>2, <1>3, <1>4
  <2> QED
    BY <2>1, <2>2, <2>3, BlockSame
<1>8. \A c \in 1..Len(bs) : both[c] = two[c]
  BY <1>2, <1>3, <1>4, <1>7
<1>9. both = two
  <2>1. Len(both) = Len(two) /\ \A c \in 1..Len(both) : both[c] = two[c]
    BY <1>2, <1>3, <1>4, <1>8
  <2> QED
    BY <1>3, <1>4, <2>1, SeqEqual
<1> QED
  BY <1>9 DEF two, one, both

\* The last value makes room for a new temp.
LEMMA ReplaceHeld ==
  ASSUME IInv, Running, ~foreign, Temps, walk[1].base < Height, NEW u \in Nat, u >= next_temp,
         val_stack' = Append(Pop(val_stack, 1), TEMP(u))
  PROVE  /\ Apart(val_stack', walk[1].base)
         /\ \A t \in Held(val_stack', walk[1].base) :
              t = u \/ (t \in Held(val_stack, walk[1].base) /\ Last(val_stack) # TEMP(t))
<1> DEFINE h == walk[1].base
           r == Pop(val_stack, 1)
           T == Held(val_stack, h)
<1>1. /\ h \in Nat /\ Height \in Nat /\ val_stack \in Seq(Values) /\ Height = Len(val_stack)
      /\ CodeOK(blocks, T) /\ Apart(val_stack, h) /\ h < Height
      /\ next_temp \in Nat /\ BlocksOK(blocks, next_temp, next_slot)
  BY TempsRunning
<1>2. u \notin T
  <2>1. \A c, k \in Nat : ~DefAt(blocks, u, c, k)
    BY <1>1, FreshIs
  <2> QED
    BY <1>1, <2>1 DEF CodeOK
<1> HIDE DEF h
<1>3. /\ r \in Seq(Values) /\ Len(r) = Height - 1
      /\ \A k \in 1..Height - 1 : r[k] = val_stack[k]
  <2>1. 1 <= Height
    BY <1>1
  <2> QED
    BY <2>1, StackIs
<1>4. val_stack' = Append(r, TEMP(u))
  OBVIOUS
<1> HIDE DEF r
<1>5. /\ Apart(r, h) /\ Held(r, h) \subseteq T
      /\ \A x \in Held(r, h) : \A k \in Len(r) + 1..Len(val_stack) : val_stack[k] # TEMP(x)
      /\ h <= Len(r)
  <2>1. h <= Len(r) /\ Len(r) <= Len(val_stack)
    BY <1>1, <1>3
  <2>2. \A k \in 1..Len(r) : r[k] = val_stack[k]
    BY <1>3
  <2> QED
    BY <1>1, <1>3, <2>1, <2>2, HeldDrop
<1>6. TEMP(u) \in Values /\ \A x \in Nat : TEMP(u) = TEMP(x) => x = u
  BY <1>1, ValuesAre
<1>7. \A x \in Held(r, h) : TEMP(u) # TEMP(x)
  <2>1. \A x \in Held(r, h) : x \in Nat
    BY DEF Held
  <2> QED
    BY <1>2, <1>5, <1>6, <2>1
<1>8. Apart(val_stack', h) /\ \A x \in Held(val_stack', h) : x \in Held(r, h) \/ TEMP(u) = TEMP(x)
  BY <1>1, <1>3, <1>4, <1>5, <1>6, <1>7, HeldPush
<1>9. \A t \in Held(val_stack', h) : t \in Nat
  BY DEF Held
<1>10. Height \in Len(r) + 1..Len(val_stack) /\ Last(val_stack) = val_stack[Height]
  BY <1>1, <1>3 DEF Last
<1>11. \A t \in Held(val_stack', h) : t = u \/ (t \in T /\ Last(val_stack) # TEMP(t))
  BY <1>5, <1>6, <1>8, <1>9, <1>10
<1> QED
  BY <1>8, <1>11 DEF h

\* The end of a short-circuit operator: the last value is compared, the result
\* stored, and loaded again where both ways join.
Joins(one, two, jump) ==
  /\ Appends(blocks, one, next_temp, curr, LastTemp)
  /\ Appends(one, two, NoTemp, curr, {next_temp})
  /\ Silent(two, jump)
  /\ Appends(jump, blocks', next_temp + 1, Top.to[1], {})

LEMMA FinishRhsJoins ==
  ASSUME IInv, Running, FinishRhs
  PROVE  \E one, two, jump : Joins(one, two, jump)
<1> DEFINE join == Top.to[1]
           v == Last(val_stack)
           x == CmpOp(next_temp, v, IMM(0))
           y == Store(Top.slot, TEMP(next_temp))
           z == Load(next_temp + 1, Top.slot)
           one == Emit(blocks, curr, <<x>>)
           two == Emit(one, curr, <<y>>)
           jump == JumpIfOpen(two, curr, join)
<1>1. /\ ExprDone /\ Top.at = "rhs"
      /\ blocks' = Emit(JumpIfOpen(Emit(blocks, curr, <<x, y>>), curr, join), join, <<z>>)
  BY DEF FinishRhs
<1>2. v \in Values /\ FrameOK(Top, unclaimed, next_slot, Len(blocks))
  BY <1>1, OnValue
<1>3. curr \in 1..Len(blocks) /\ blocks \in Seq(BlockRecs) /\ next_temp \in Nat
  BY RunningIs
<1>4. next_temp + 1 \in Nat
  BY <1>3
<1>5. Top.slot \in Nat /\ join \in 1..Len(blocks)
  BY <1>1, <1>2 DEF FrameOK, LogFrames, Targets
<1>6. /\ x \in InstRecs /\ x.dst = next_temp /\ Reads(x.args) = LastTemp
      /\ y \in InstRecs /\ y.dst = NoTemp /\ Reads(y.args) = {next_temp}
      /\ z \in InstRecs /\ z.dst = next_temp + 1 /\ Reads(z.args) = {}
  <2>1. TEMP(next_temp) \in Values /\ \A t \in Nat : TEMP(next_temp) = TEMP(t) => t = next_temp
    BY <1>3, ValuesAre
  <2>2. IMM(0) \in Values
    BY ValuesAre DEF Imms
  <2>3. x \in InstRecs /\ x.dst = next_temp /\ x.args = <<v, IMM(0)>>
    BY <1>2, <1>3, <2>2 DEF CmpOp, Inst, InstRecs, InstTypes, NoSlot
  <2>4. y \in InstRecs /\ y.dst = NoTemp /\ y.args = <<TEMP(next_temp)>>
    BY <1>3, <1>5, <2>1, InstsAre
  <2>5. z \in InstRecs /\ z.dst = next_temp + 1 /\ z.args = <<>>
    BY <1>4, <1>5 DEF Load, Inst, InstRecs, InstTypes
  <2>6. Reads(x.args) = LastTemp
    BY <1>2, <2>3, ReadsIs DEF LastTemp
  <2>7. Reads(y.args) = {next_temp}
    <3>1. Reads(y.args) = {t \in Nat : TEMP(next_temp) = TEMP(t)}
      BY <2>1, <2>4, ReadsIs
    <3> QED
      BY <1>3, <2>1, <3>1
  <2>8. Reads(z.args) = {}
    BY <2>5, ReadsIs
  <2> QED
    BY <2>3, <2>4, <2>5, <2>6, <2>7, <2>8
<1> HIDE DEF x, y, z, v, join
<1>7. Emit(blocks, curr, <<x, y>>) = two
  BY <1>3, <1>6, EmitTwice
<1>8. /\ one \in Seq(BlockRecs) /\ Len(one) = Len(blocks)
      /\ Appends(blocks, one, x.dst, curr, Reads(x.args))
  <2>1. <<x>> \in Seq(InstRecs)
    BY <1>6
  <2> QED
    BY <1>3, <1>6, <2>1, EmitIs, EmitAppends
<1> HIDE DEF one
<1>9. /\ two \in Seq(BlockRecs) /\ Len(two) = Len(blocks)
      /\ Appends(one, two, y.dst, curr, Reads(y.args))
  <2>1. <<y>> \in Seq(InstRecs) /\ curr \in 1..Len(one)
    BY <1>3, <1>6, <1>8
  <2>2. two \in Seq(BlockRecs) /\ Len(two) = Len(one)
    BY <1>8, <2>1, EmitIs
  <2> QED
    BY <1>6, <1>8, <2>1, <2>2, EmitAppends
<1> HIDE DEF two
<1>10. jump \in Seq(BlockRecs) /\ Len(jump) = Len(blocks) /\ Silent(two, jump)
  <2>1. curr \in 1..Len(two) /\ join \in 1..Len(two)
    BY <1>3, <1>5, <1>9
  <2> QED
    BY <1>9, <2>1, JumpCloses, JumpSilent
<1>11. blocks' = Emit(jump, join, <<z>>)
  BY <1>1, <1>7
<1> HIDE DEF jump
<1>12. Appends(jump, blocks', z.dst, join, Reads(z.args))
  <2>1. join \in 1..Len(jump)
    BY <1>5, <1>10
  <2> QED
    BY <1>6, <1>10, <1>11, <2>1, EmitAppends
<1>13. Joins(one, two, jump)
  BY <1>6, <1>8, <1>9, <1>10, <1>12 DEF Joins, join
<1> QED
  BY <1>13

LEMMA FinishRhsTemps ==
  ASSUME IInv, Running, ~foreign, Temps, FinishRhs
  PROVE  Keeps
<1> DEFINE h == walk[1].base
           T == Held(val_stack, h)
           rest == T \ LastTemp
           both == rest \cup {next_temp}
           T2 == Held(val_stack', h)
           u == next_temp + 1
<1>1. ExprDone /\ val_stack' = Append(Pop(val_stack, 1), TEMP(u))
  BY DEF FinishRhs, Push
<1>2. h < Height /\ Last(val_stack) = val_stack[Height]
  BY <1>1, ValueIs
<1>3. /\ next_temp \in Nat /\ CodeOK(blocks, T) /\ T \in SUBSET Nat /\ h \in Nat
      /\ Height \in Nat /\ Height = Len(val_stack)
      /\ BlocksOK(blocks, next_temp, next_slot)
      /\ \A c, k \in Nat : ~DefAt(blocks, next_temp, c, k)
  BY TempsRunning
<1>4. u \in Nat /\ u >= next_temp /\ u # next_temp /\ u # NoTemp /\ NoTemp \notin Nat
  BY <1>3 DEF NoTemp
<1>5. PICK one, two, jump : Joins(one, two, jump)
  BY FinishRhsJoins
<1>6. LastTemp \subseteq T
  <2>1. Height \in h + 1..Len(val_stack)
    BY <1>2, <1>3
  <2> QED
    BY <1>2, <2>1 DEF Held, LastTemp
<1>7. /\ \A t \in T2 : t = u \/ (t \in T /\ t \notin LastTemp)
      /\ T2 \in SUBSET Nat
  <2>1. T2 \in SUBSET Nat
    BY DEF Held
  <2>2. \A t \in T2 : t = u \/ (t \in T /\ Last(val_stack) # TEMP(t))
    BY <1>1, <1>2, <1>4, ReplaceHeld
  <2> QED
    BY <2>1, <2>2 DEF LastTemp
<1>8. Apart(val_stack', h)
  BY <1>1, <1>2, <1>4, ReplaceHeld
<1> HIDE DEF T, T2, h, u
<1>9. PICK m \in Nat : Adds(blocks, one, next_temp, curr, m, LastTemp)
  BY <1>5 DEF Joins, Appends
<1>10. PICK n \in Nat : Adds(one, two, NoTemp, curr, n, {next_temp})
  BY <1>5 DEF Joins, Appends
<1>11. PICK k \in Nat : Adds(jump, blocks', u, Top.to[1], k, {})
  BY <1>5 DEF Joins, Appends, u
<1>12. Silent(two, jump)
  BY <1>5 DEF Joins
<1>13. /\ rest \in SUBSET Nat /\ both \in SUBSET Nat
       /\ {next_temp} \subseteq both /\ {} \subseteq rest
       /\ \A t \in both : (t \in T /\ t \notin LastTemp) \/ t = next_temp
       /\ \A t \in rest : (t \in both /\ t \notin {next_temp}) \/ t = NoTemp
       /\ \A t \in T2 : (t \in rest /\ t \notin {}) \/ t = u
  <2>1. next_temp \notin T
    BY <1>3 DEF CodeOK
  <2> QED
    BY <1>3, <1>7, <2>1
<1> HIDE DEF rest, both
<1>14. CodeOK(one, both)
  <2>1. Readies(blocks, T, both, next_temp, LastTemp)
    BY <1>3, <1>6, <1>13 DEF Readies
  <2> QED
    BY <1>3, <1>9, <2>1, CodeReady
<1>15. CodeOK(two, rest)
  <2>1. Readies(one, both, rest, NoTemp, {next_temp})
    BY <1>4, <1>13 DEF Readies
  <2> QED
    BY <1>10, <1>14, <2>1, CodeReady
<1>16. CodeOK(jump, rest)
  BY <1>12, <1>13, <1>15, CodeSilent
<1>17. \A c, i \in Nat : ~DefAt(jump, u, c, i)
  <2>1. \A c, i \in Nat : ~DefAt(blocks, u, c, i)
    BY <1>3, <1>4, FreshIs
  <2>2. \A c, i \in Nat : ~DefAt(one, u, c, i)
    BY <1>4, <1>9, <2>1 DEF Adds
  <2>3. \A c, i \in Nat : ~DefAt(two, u, c, i)
    BY <1>4, <1>10, <2>2 DEF Adds
  <2> QED
    BY <1>4, <1>12, <2>3 DEF Adds, Silent
<1>18. Readies(jump, rest, T2, u, {})
  BY <1>7, <1>13, <1>17 DEF Readies
<1>19. CodeOK(blocks', T2)
  BY <1>11, <1>16, <1>18, CodeReady
<1> QED
  BY <1>8, <1>19 DEF Keeps, T2, h
-----------------------------------------------------------------------------
\* The frame of the function stays at the bottom of the walk, with its base.
LEMMA BottomStays ==
  ASSUME NEW w \in Seq(Frames), w # <<>>, NEW f
  PROVE  /\ Append(w, f) # <<>> => Append(w, f)[1] = w[1]
         /\ Butlast(w) # <<>> => Butlast(w)[1] = w[1]
         /\ f.base = Last(w).base => [w EXCEPT ![Len(w)] = f][1].base = w[1].base
<1>1. Len(w) \in Nat \ {0}
  OBVIOUS
<1>2. Append(w, f)[1] = w[1]
  BY <1>1
<1>3. Butlast(w) # <<>> => Butlast(w)[1] = w[1]
  <2> SUFFICES ASSUME Butlast(w) # <<>> PROVE Butlast(w)[1] = w[1]
    OBVIOUS
  <2>1. /\ Butlast(w) \in Seq(Frames) /\ Len(Butlast(w)) = Len(w) - 1
        /\ \A k \in 1..Len(w) - 1 : Butlast(w)[k] = w[k]
    BY ButlastIs
  <2>2. Len(Butlast(w)) # 0
    BY <2>1
  <2>3. 1 \in 1..Len(w) - 1
    BY <1>1, <2>1, <2>2
  <2> QED
    BY <2>1, <2>3
<1>4. ASSUME f.base = Last(w).base
      PROVE  [w EXCEPT ![Len(w)] = f][1].base = w[1].base
  <2>1. CASE Len(w) = 1
    BY <1>1, <1>4, <2>1 DEF Last
  <2>2. CASE Len(w) # 1
    BY <1>1, <2>2
  <2> QED
    BY <2>1, <2>2
<1> QED
  BY <1>2, <1>3, <1>4

LEMMA BottomDeclares ==
  ASSUME NEW w \in Seq(Frames), w # <<>>, NEW s
  PROVE  Declare(w, s)[1].base = w[1].base
<1>1. Len(w) \in Nat \ {0} /\ w[1] \in Frames
  OBVIOUS
<1>2. CASE Len(w) = 1
  <2>1. Declare(w, s)[1] = [w[1] EXCEPT !.scope = @ \cup {s}]
    BY <1>1, <1>2 DEF Declare
  <2> QED
    BY <1>1, <2>1 DEF Frames
<1>3. CASE Len(w) # 1
  BY <1>1, <1>3 DEF Declare
<1> QED
  BY <1>2, <1>3

\* It does so in every step but the last of a function.
Bottom == walk' = <<>> \/ walk'[1].base = walk[1].base

LEMMA ExpressionsBottom ==
  ASSUME IInv, Running,
         \/ \E n, v, insts : Eval(n, v, insts)
         \/ \E at \in {"and_lhs", "or_lhs"} : BeginLogOp(at)
         \/ FinishLhs \/ FinishRhs
  PROVE  Bottom
<1>1. walk \in Seq(Frames) /\ walk # <<>>
  BY ShapeIs DEF Running
<1>2. CASE \E n, v, insts : Eval(n, v, insts)
  <2>1. walk' = walk
    BY <1>2 DEF Eval
  <2> QED
    BY <2>1 DEF Bottom
<1>3. ASSUME NEW at, BeginLogOp(at)
      PROVE  Bottom
  <2>1. PICK f : walk' = Append(walk, f)
    BY <1>3 DEF BeginLogOp, Push
  <2> QED
    BY <1>1, <2>1, BottomStays DEF Bottom
<1>4. CASE FinishLhs
  <2>1. ExprDone /\ \E f : walk' = Append(Pop(walk, 1), f)
    BY <1>4 DEF FinishLhs, Push
  <2>2. Pop(walk, 1) = Butlast(walk) /\ Butlast(walk) \in Seq(Frames) /\ Butlast(walk) # <<>>
    BY <2>1, OnValue
  <2> QED
    BY <1>1, <2>1, <2>2, BottomStays DEF Bottom
<1>5. CASE FinishRhs
  <2>1. ExprDone /\ walk' = Pop(walk, 1)
    BY <1>5 DEF FinishRhs
  <2>2. Pop(walk, 1) = Butlast(walk)
    BY <2>1, OnValue
  <2> QED
    BY <1>1, <2>1, <2>2, BottomStays DEF Bottom
<1> QED
  BY <1>2, <1>3, <1>4, <1>5

LEMMA SimpleBottom ==
  ASSUME IInv, Running,
         BeginSimple \/ VarDec \/ BareVarDec \/ Assn \/ (Exit \/ BareExit) \/ CallStmt
  PROVE  Bottom
<1>1. walk \in Seq(Frames) /\ walk # <<>>
  BY ShapeIs DEF Running
<1>2. CASE BeginSimple
  <2>1. PICK f : walk' = Append(walk, f)
    BY <1>2 DEF BeginSimple, BeginStmt, Push
  <2> QED
    BY <1>1, <2>1, BottomStays DEF Bottom
<1>3. CASE VarDec
  <2>1. ExprDone /\ walk' = Declare(Pop(walk, 1), next_slot)
    BY <1>3 DEF VarDec
  <2>2. Pop(walk, 1) = Butlast(walk) /\ Butlast(walk) \in Seq(Frames) /\ Butlast(walk) # <<>>
    BY <2>1, OnValue
  <2> QED
    BY <1>1, <2>1, <2>2, BottomStays, BottomDeclares DEF Bottom
<1>4. CASE BareVarDec
  <2>1. walk' = Declare(walk, next_slot)
    BY <1>4 DEF BareVarDec
  <2> QED
    BY <1>1, <2>1, BottomDeclares DEF Bottom
<1>5. CASE Assn \/ Exit
  <2>1. ExprDone /\ walk' = Pop(walk, 1)
    BY <1>5 DEF Assn, Exit
  <2>2. Pop(walk, 1) = Butlast(walk)
    BY <2>1, OnValue
  <2> QED
    BY <1>1, <2>1, <2>2, BottomStays DEF Bottom
<1>6. CASE BareExit
  <2>1. walk' = walk
    BY <1>6 DEF BareExit
  <2> QED
    BY <2>1 DEF Bottom
<1>7. CASE CallStmt
  <2>1. InExpr /\ Top.at \in HeadFrames /\ walk' = Pop(walk, 1)
    BY <1>7 DEF CallStmt, HeadFrames
  <2>2. Pop(walk, 1) = Butlast(walk)
    BY <2>1, OnHead
  <2> QED
    BY <1>1, <2>1, <2>2, BottomStays DEF Bottom
<1> QED
  BY <1>2, <1>3, <1>4, <1>5, <1>6, <1>7

LEMMA CompoundBottom ==
  ASSUME IInv, Running,
         \/ \E else \in BOOLEAN : If(else)
         \/ EndThen \/ EndIf \/ BeginWhile \/ WhileBody \/ EndWhile
         \/ BeginBlock \/ EndBlock \/ EndFunction
  PROVE  Bottom
<1>1. walk \in Seq(Frames) /\ walk # <<>>
  BY ShapeIs DEF Running
<1>2. CASE (\E else \in BOOLEAN : If(else)) \/ WhileBody
  <2>1. ExprDone /\ \E f : walk' = Append(Pop(walk, 1), f)
    BY <1>2 DEF If, WhileBody, Push
  <2>2. Pop(walk, 1) = Butlast(walk) /\ Butlast(walk) \in Seq(Frames) /\ Butlast(walk) # <<>>
    BY <2>1, OnValue
  <2> QED
    BY <1>1, <2>1, <2>2, BottomStays DEF Bottom
<1>3. CASE EndThen
  <2> DEFINE h == Frame("else_block", Top.base, NoSlot, <<Top.to[2]>>, walk[Len(walk) - 1].scope)
             f == [h EXCEPT !.reached = Open(blocks, curr)]
  <2>1. walk' = [walk EXCEPT ![Len(walk)] = f]
    BY <1>3 DEF EndThen
  <2>2. f.base = Last(walk).base
    BY DEF Frame, Top
  <2> HIDE DEF f
  <2> QED
    BY <1>1, <2>1, <2>2, BottomStays DEF Bottom
<1>4. CASE EndIf \/ EndWhile \/ EndBlock
  <2>1. InStmts /\ Top.at # "fn_block" /\ walk' = Pop(walk, 1)
    BY <1>4 DEF EndIf, EndWhile, EndBlock
  <2>2. Pop(walk, 1) = Butlast(walk)
    BY <2>1, OnList
  <2> QED
    BY <1>1, <2>1, <2>2, BottomStays DEF Bottom
<1>5. CASE BeginWhile \/ BeginBlock
  <2>1. PICK f : walk' = Append(walk, f)
    BY <1>5 DEF BeginWhile, BeginBlock, Push
  <2> QED
    BY <1>1, <2>1, BottomStays DEF Bottom
<1>6. CASE EndFunction
  BY <1>6 DEF EndFunction, Bottom
<1> QED
  BY <1>2, <1>3, <1>4, <1>5, <1>6

\* Only bare declarations take values of other functions, or of their own.
LEMMA ClaimsLess ==
  ASSUME IInv, Running, [Next]_vars, ~BareVarDec
  PROVE  foreign' = foreign /\ unclaimed' >= unclaimed
<1>1. unclaimed \in Nat
  BY ShapeIs
<1>2. CASE CallStmt
  <2>1. foreign' = foreign /\ unclaimed' = unclaimed + 1
    BY <1>2, Zenon DEF CallStmt
  <2> QED
    BY <1>1, <2>1
<1>3. CASE ~CallStmt
  <2>1. ~BeginFunction
    BY DEF BeginFunction
  <2>2. foreign' = foreign /\ unclaimed' = unclaimed
    BY <1>3, <2>1, StepIs, Zenon DEF Eval, BeginLogOp, FinishLhs, FinishRhs, BeginSimple, BeginStmt,
       VarDec, Assn, Exit, BareExit, If, EndThen, EndIf, BeginWhile, WhileBody, EndWhile,
       BeginBlock, EndBlock, EndFunction, program, vars
  <2> QED
    BY <1>1, <2>2
<1> QED
  BY <1>2, <1>3

\* A step that keeps the code in order keeps it so for the walk that follows.
LEMMA TempsFollow ==
  ASSUME Bottom, Keeps, unclaimed' >= walk[1].base
  PROVE  Temps'
<1>1. CASE walk' = <<>>
  <2>1. {} \in SUBSET Held(val_stack', walk[1].base)
    OBVIOUS
  <2>2. CodeOK(blocks', {})
    BY <2>1, CodeLess DEF Keeps
  <2> QED
    BY <1>1, <2>2 DEF Temps, Running
<1>2. CASE walk' # <<>>
  <2>1. walk'[1].base = walk[1].base
    BY <1>2 DEF Bottom
  <2> QED
    BY <1>2, <2>1 DEF Temps, Running, Keeps
<1> QED
  BY <1>1, <1>2

\* The entry of a function fetches each parameter and reads it at once.
LEMMA EntryPlaces ==
  \A t, b, i \in Nat :
    /\ DefAt(Entry, t, b, i) <=> b = 1 /\ i = 2 * t + 1 /\ t \in 0..NumParams - 1
    /\ ReadAt(Entry, t, b, i) => b = 1 /\ i = 2 * t + 2 /\ t \in 0..NumParams - 1
<1> DEFINE p == Params(NumParams)
<1>1. /\ NumParams \in Nat /\ Len(p) = 2 * NumParams
      /\ \A i \in 1..2 * NumParams :
           \/ \E q \in 0..NumParams - 1 : i = 2 * q + 1 /\ p[i] = ArgInst(q)
           \/ \E q \in 0..NumParams - 1 : i = 2 * q + 2 /\ p[i] = Store(q, TEMP(q))
  BY Bounds, ParamsAre
<1>2. Len(Entry) = 1 /\ Entry[1].insts = p /\ Entry[1].term = Undefined
  BY EntryIs
<1> HIDE DEF p
<1>3. ASSUME NEW t \in Nat, NEW b \in Nat, NEW i \in Nat
      PROVE  /\ DefAt(Entry, t, b, i) <=> b = 1 /\ i = 2 * t + 1 /\ t \in 0..NumParams - 1
             /\ ReadAt(Entry, t, b, i) => b = 1 /\ i = 2 * t + 2 /\ t \in 0..NumParams - 1
  <2>1. DefAt(Entry, t, b, i) => b = 1 /\ i = 2 * t + 1 /\ t \in 0..NumParams - 1
    <3> SUFFICES ASSUME DefAt(Entry, t, b, i)
                 PROVE  b = 1 /\ i = 2 * t + 1 /\ t \in 0..NumParams - 1
      OBVIOUS
    <3>1. b = 1 /\ i \in 1..2 * NumParams /\ p[i].dst = t
      BY <1>1, <1>2 DEF DefAt
    <3>2. ASSUME NEW q \in 0..NumParams - 1, i = 2 * q + 1, p[i] = ArgInst(q)
          PROVE  i = 2 * t + 1 /\ t \in 0..NumParams - 1
      BY <3>1, <3>2 DEF ArgInst, Inst
    <3>3. ASSUME NEW q \in 0..NumParams - 1, p[i] = Store(q, TEMP(q))
          PROVE  FALSE
      BY <3>1, <3>3 DEF Store, Inst, NoTemp
    <3> QED
      BY <1>1, <3>1, <3>2, <3>3
  <2>2. ASSUME b = 1, i = 2 * t + 1, t \in 0..NumParams - 1
        PROVE  DefAt(Entry, t, b, i)
    <3>1. i \in 1..2 * NumParams
      BY <1>1, <2>2
    <3>2. ASSUME NEW q \in 0..NumParams - 1, i = 2 * q + 1, p[i] = ArgInst(q)
          PROVE  p[i].dst = t
      <4>1. q = t
        BY <2>2, <3>2
      <4> QED
        BY <3>2, <4>1 DEF ArgInst, Inst
    <3>3. ASSUME NEW q \in 0..NumParams - 1, i = 2 * q + 2 PROVE FALSE
      BY <2>2, <3>3
    <3>4. p[i].dst = t
      BY <1>1, <3>1, <3>2, <3>3
    <3> QED
      BY <1>1, <1>2, <2>2, <3>1, <3>4 DEF DefAt
  <2>3. ASSUME ReadAt(Entry, t, b, i)
        PROVE  b = 1 /\ i = 2 * t + 2 /\ t \in 0..NumParams - 1
    <3>1. b = 1
      BY <1>2, <2>3 DEF ReadAt
    <3>2. ~Uses(<<>>, t)
      BY DEF Uses
    <3>3. i \in 1..2 * NumParams /\ Uses(p[i].args, t)
      BY <1>1, <1>2, <2>3, <3>1, <3>2 DEF ReadAt, Undefined
    <3>4. ASSUME NEW q \in 0..NumParams - 1, p[i] = ArgInst(q)
          PROVE  FALSE
      BY <3>2, <3>3, <3>4 DEF ArgInst, Inst
    <3>5. ASSUME NEW q \in 0..NumParams - 1, i = 2 * q + 2, p[i] = Store(q, TEMP(q))
          PROVE  i = 2 * t + 2 /\ t \in 0..NumParams - 1
      <4>1. Uses(<<TEMP(q)>>, t)
        BY <3>3, <3>5 DEF Store, Inst
      <4>2. TEMP(q) = TEMP(t)
        BY <4>1 DEF Uses
      <4>3. q = t
        BY <4>2 DEF TEMP
      <4> QED
        BY <3>5, <4>3
    <3> QED
      BY <1>1, <3>1, <3>3, <3>4, <3>5
  <2> QED
    BY <2>1, <2>2, <2>3
<1> QED
  BY <1>3

LEMMA EntryCode == CodeOK(Entry, {})
<1>1. ASSUME NEW t \in Nat, NEW b \in Nat, NEW c \in Nat, NEW i \in Nat, NEW j \in Nat
      PROVE  /\ DefAt(Entry, t, b, i) /\ DefAt(Entry, t, c, j) => b = c /\ i = j
             /\ ReadAt(Entry, t, b, i) /\ ReadAt(Entry, t, c, j) => b = c /\ i = j
             /\ ReadAt(Entry, t, b, i) => \E d, k \in Nat : DefAt(Entry, t, d, k)
  <2>1. 2 * t + 1 \in Nat /\ 1 \in Nat
    OBVIOUS
  <2>2. ReadAt(Entry, t, b, i) => DefAt(Entry, t, 1, 2 * t + 1)
    BY EntryPlaces, <2>1
  <2>3. ReadAt(Entry, t, b, i) => \E d, k \in Nat : DefAt(Entry, t, d, k)
    BY <2>1, <2>2
  <2> QED
    BY EntryPlaces, <2>3
<1> QED
  BY <1>1 DEF CodeOK

\* No value above all there are.
LEMMA HeldNone ==
  ASSUME NEW s \in Seq(Values)
  PROVE  Held(s, Len(s)) = {} /\ Apart(s, Len(s))
<1>1. Len(s) + 1..Len(s) = {}
  <2>1. Len(s) \in Nat
    OBVIOUS
  <2> QED
    BY <2>1
<1> QED
  BY <1>1 DEF Held, Apart

LEMMA InitTemps == Init => Temps
<1> SUFFICES ASSUME Init PROVE Temps
  OBVIOUS
<1>1. blocks = Entry /\ val_stack = <<>> /\ walk = <<FirstFrame(0)>> /\ unclaimed = 0
  BY DEF Init, Entry, FirstFrame
<1>2. walk[1].base = 0
  BY <1>1, FirstWalk
<1>3. val_stack \in Seq(Values) /\ Len(val_stack) = 0
  BY <1>1
<1>4. Held(val_stack, 0) = {} /\ Apart(val_stack, 0)
  BY <1>3, HeldNone
<1>5. CodeOK(blocks, Held(val_stack, 0)) /\ CodeOK(blocks, {})
  BY <1>1, <1>4, EntryCode
<1>6. unclaimed >= walk[1].base
  BY <1>1, <1>2
<1> QED
  BY <1>2, <1>4, <1>5, <1>6 DEF Temps

LEMMA BeginFunctionTemps ==
  ASSUME IInv, BeginFunction
  PROVE  Temps'
<1>1. /\ ~Running /\ blocks' = Entry /\ walk' = <<FirstFrame(Height)>>
      /\ val_stack' = val_stack /\ unclaimed' = unclaimed
  BY DEF BeginFunction, Entry, FirstFrame
<1>2. /\ val_stack \in Seq(Values) /\ Height = Len(val_stack) /\ Height \in Nat
      /\ unclaimed = Height
  BY <1>1, ShapeIs DEF IInv, Shape, HeightOK, Height, Running
<1>3. walk'[1].base = Height
  BY <1>1, <1>2, FirstWalk
<1>4. Held(val_stack, Height) = {} /\ Apart(val_stack, Height)
  BY <1>2, HeldNone
<1>5. unclaimed' >= walk'[1].base
  BY <1>1, <1>2, <1>3
<1> QED
  BY <1>1, <1>3, <1>4, <1>5, EntryCode DEF Temps

LEMMA StepTemps ==
  ASSUME IInv, Temps, [Next]_vars
  PROVE  Temps'
<1>1. CASE UNCHANGED vars
  BY <1>1 DEF vars, program, Temps, Running
<1>2. CASE Running /\ ~UNCHANGED vars
  <2>1. ~BeginFunction
    BY <1>2 DEF BeginFunction
  <2>2. Bottom
    BY <1>2, <2>1, StepIs, ExpressionsBottom, SimpleBottom, CompoundBottom, Zenon
  <2>3. CASE foreign'
    BY <2>3 DEF Temps
  <2>4. CASE ~foreign' /\ BareVarDec
    <3>1. ~foreign
      BY <2>4, Zenon DEF BareVarDec
    <3> QED
      BY <1>2, <2>2, <2>4, <3>1, BareVarDecTemps, TempsFollow
  <2>5. CASE ~foreign' /\ ~BareVarDec
    <3>1. ~foreign /\ unclaimed' >= unclaimed
      BY <1>2, <2>5, ClaimsLess
    <3>2. unclaimed' >= walk[1].base
      <4>1. walk[1].base \in Nat /\ walk[1].base <= unclaimed /\ unclaimed \in Nat
        BY <1>2, <3>1, TempsRunning
      <4>2. unclaimed' \in Nat
        BY StepIInv DEF IInv
      <4> QED
        BY <3>1, <4>1, <4>2
    <3>3. Keeps
      <4>1. CASE \E n, w, insts : Eval(n, w, insts)
        BY <1>2, <3>1, <4>1, EvalTemps
      <4>2. CASE FinishRhs
        BY <1>2, <3>1, <4>2, FinishRhsTemps
      <4>3. CASE CallStmt
        <5>1. InExpr
          BY <4>3 DEF CallStmt
        <5> QED
          BY <1>2, <3>1, <4>3, <5>1, CallStmtMakes, MakesTemps
      <4>4. CASE Taking
        BY <1>2, <3>1, <4>4, TakingTemps
      <4>5. CASE Quietly
        BY <1>2, <3>1, <4>5, QuietTemps
      <4> QED
        BY <1>2, <2>1, <2>5, <4>1, <4>2, <4>3, <4>4, <4>5, StepIs, Zenon DEF Quietly, Taking
    <3> QED
      BY <2>2, <3>2, <3>3, TempsFollow
  <2> QED
    BY <2>3, <2>4, <2>5
<1>3. CASE ~Running /\ ~UNCHANGED vars
  BY <1>3, NotRunning, BeginFunctionTemps
<1> QED
  BY <1>1, <1>2, <1>3

\* In a function that has taken nothing of an earlier one every temp is defined
\* once and read once, after all that is defined; what is on the stack above its
\* base is still to be read.
THEOREM TempsInvariant == Spec => [](IInv /\ Temps)
<1>1. Init => Temps
  BY InitTemps
<1>2. IInv /\ Temps /\ [Next]_vars => Temps'
  BY StepTemps
<1> QED
  BY <1>1, <1>2, InductiveInvariant, PTL DEF Spec

\* The properties in these terms: places of the terminators are called 0, and
\* the temps on the stack are those of the function's own values.
Place(b, i) == IF i \in Insts(b) THEN i ELSE 0
OwnTemps    == {t \in Nat : \E l \in OwnValues : val_stack[l] = TEMP(t)}

LEMMA OwnCode ==
  ASSUME IInv, Temps, ~foreign
  PROVE  CodeOK(blocks, OwnTemps)
<1>1. CASE Running
  <2>1. walk[1].base \in Nat /\ Height = Len(val_stack)
        /\ CodeOK(blocks, Held(val_stack, walk[1].base))
    BY <1>1, TempsRunning
  <2>2. OwnTemps = Held(val_stack, walk[1].base)
    BY <1>1, <2>1 DEF OwnTemps, OwnValues, Held
  <2> QED
    BY <2>1, <2>2
<1>2. CASE ~Running
  <2>1. OwnTemps = {} /\ CodeOK(blocks, {})
    BY <1>2 DEF OwnTemps, OwnValues, Temps
  <2> QED
    BY <2>1
<1> QED
  BY <1>1, <1>2

LEMMA PlacesAre ==
  ASSUME IInv, NEW b \in BlockIds
  PROVE  /\ b \in Nat /\ b \in 1..Len(blocks) /\ Insts(b) = 1..Len(blocks[b].insts)
         /\ \A i \in Places(b) : Place(b, i) \in Nat
         /\ \A i, j \in Places(b) : Place(b, i) = Place(b, j) => i = j
<1>1. Len(blocks) \in Nat /\ blocks \in Seq(BlockRecs)
  BY ShapeIs DEF IInv, BlocksOK
<1>2. b \in 1..Len(blocks) /\ b \in Nat
  BY <1>1 DEF BlockIds
<1>3. blocks[b].insts \in Seq(InstRecs)
  <2>1. blocks[b] \in BlockRecs
    BY <1>1, <1>2
  <2> QED
    BY <2>1 DEF BlockRecs
<1>4. Len(blocks[b].insts) \in Nat /\ Insts(b) = 1..Len(blocks[b].insts)
  BY <1>3 DEF Insts
<1>5. \A i \in Places(b) : i \in Insts(b) \/ i = Len(blocks[b].insts) + 1
  BY <1>4 DEF Places
<1> QED
  BY <1>2, <1>4, <1>5 DEF Place

\* A temp among what is read at a place is read there.
LEMMA ArgumentsAre ==
  ASSUME IInv, NEW b \in BlockIds, NEW i \in Places(b), NEW k \in DOMAIN ArgsAt(b, i),
         ArgsAt(b, i)[k].kind = "IRVAL_TEMP"
  PROVE  /\ ArgsAt(b, i)[k].id \in Nat /\ ArgsAt(b, i)[k] = TEMP(ArgsAt(b, i)[k].id)
         /\ ReadAt(blocks, ArgsAt(b, i)[k].id, b, Place(b, i))
<1> DEFINE args == ArgsAt(b, i)
           t == args[k].id
<1>1. b \in 1..Len(blocks) /\ Insts(b) = 1..Len(blocks[b].insts)
  BY PlacesAre
<1>2. blocks[b].insts \in Seq(InstRecs) /\ blocks[b].term \in TermRecs
  <2>1. blocks \in Seq(BlockRecs)
    BY DEF IInv, BlocksOK
  <2>2. blocks[b] \in BlockRecs
    BY <1>1, <2>1
  <2> QED
    BY <2>2 DEF BlockRecs
<1>3. CASE i \in Insts(b)
  <2>1. args = blocks[b].insts[i].args /\ Place(b, i) = i /\ i \in 1..Len(blocks[b].insts)
    BY <1>1, <1>3 DEF ArgsAt, InstAt, Place
  <2>2. args \in Seq(Values)
    <3>1. blocks[b].insts[i] \in InstRecs
      BY <1>2, <2>1
    <3> QED
      BY <2>1, <3>1 DEF InstRecs
  <2> HIDE DEF args
  <2>3. k \in 1..Len(args) /\ args[k] \in Values
    BY <2>2 DEF args
  <2>4. t \in Nat /\ args[k] = TEMP(t)
    BY <2>3, ValuesAre DEF args
  <2>5. Uses(args, t)
    BY <2>3, <2>4 DEF Uses
  <2> HIDE DEF t
  <2>6. ReadAt(blocks, t, b, Place(b, i))
    BY <1>1, <2>1, <2>5 DEF ReadAt
  <2> QED
    BY <2>4, <2>6 DEF args, t
<1>4. CASE i \notin Insts(b)
  <2>1. args = blocks[b].term.args /\ Place(b, i) = 0
    BY <1>4 DEF ArgsAt, Place
  <2>2. args \in Seq(Values)
    BY <1>2, <2>1 DEF TermRecs
  <2> HIDE DEF args
  <2>3. k \in 1..Len(args) /\ args[k] \in Values
    BY <2>2 DEF args
  <2>4. t \in Nat /\ args[k] = TEMP(t)
    BY <2>3, ValuesAre DEF args
  <2>5. Uses(args, t)
    BY <2>3, <2>4 DEF Uses
  <2> HIDE DEF t
  <2>6. ReadAt(blocks, t, b, Place(b, i))
    BY <1>1, <2>1, <2>5 DEF ReadAt
  <2> QED
    BY <2>4, <2>6 DEF args, t
<1> QED
  BY <1>3, <1>4

\* A live range is one definition and one use: no temp is defined twice, none is
\* read twice, and none that has been read is on the stack to be read again.
THEOREM TempsDefinedAndReadOnce == Spec => []TempsAreUsedOnce
<1>1. IInv /\ Temps => TempsAreUsedOnce
  <2> SUFFICES ASSUME IInv, Temps, ~foreign, NEW b \in BlockIds, NEW c \in BlockIds,
                      NEW i \in Places(b), NEW j \in Places(c)
               PROVE  /\ b # c \/ i # j =>
                           /\ i \in Insts(b) /\ j \in Insts(c) /\ InstAt(b, i).dst # NoTemp
                                => InstAt(b, i).dst # InstAt(c, j).dst
                           /\ \A k \in DOMAIN ArgsAt(b, i), l \in DOMAIN ArgsAt(c, j) :
                                ArgsAt(b, i)[k].kind = "IRVAL_TEMP"
                                  => ArgsAt(b, i)[k] # ArgsAt(c, j)[l]
                      /\ \A k \in DOMAIN ArgsAt(b, i), l \in OwnValues :
                           ArgsAt(b, i)[k].kind = "IRVAL_TEMP" => ArgsAt(b, i)[k] # val_stack[l]
    BY DEF TempsAreUsedOnce
  <2>1. CodeOK(blocks, OwnTemps)
    BY OwnCode
  <2>2. /\ \A t, d, e, m, n \in Nat :
             DefAt(blocks, t, d, m) /\ DefAt(blocks, t, e, n) => d = e /\ m = n
        /\ \A t, d, e, m, n \in Nat :
             ReadAt(blocks, t, d, m) /\ ReadAt(blocks, t, e, n) => d = e /\ m = n
        /\ \A t \in OwnTemps : \A d, m \in Nat : ~ReadAt(blocks, t, d, m)
    BY <2>1 DEF CodeOK
  <2>3. /\ b \in Nat /\ Insts(b) = 1..Len(blocks[b].insts) /\ Place(b, i) \in Nat
        /\ c \in Nat /\ Insts(c) = 1..Len(blocks[c].insts) /\ Place(c, j) \in Nat
        /\ b \in 1..Len(blocks) /\ c \in 1..Len(blocks)
    BY PlacesAre
  <2>4. b # c \/ i # j => b # c \/ Place(b, i) # Place(c, j)
    BY PlacesAre
  <2>5. ASSUME b # c \/ i # j, i \in Insts(b), j \in Insts(c), InstAt(b, i).dst # NoTemp
        PROVE  InstAt(b, i).dst # InstAt(c, j).dst
    <3> SUFFICES ASSUME InstAt(b, i).dst = InstAt(c, j).dst PROVE FALSE
      OBVIOUS
    <3> DEFINE t == InstAt(b, i).dst
    <3>1. t \in Nat
      <4>1. InstOK(blocks[b].insts[i], next_temp, next_slot)
        BY <2>3, <2>5 DEF IInv, BlocksOK
      <4>2. next_temp \in Nat
        BY DEF IInv
      <4> QED
        BY <2>5, <4>1, <4>2 DEF InstOK, InstAt
    <3>2. DefAt(blocks, t, b, i) /\ DefAt(blocks, t, c, j)
      BY <2>3, <2>5 DEF DefAt, InstAt
    <3>3. i \in Nat /\ j \in Nat
      BY <2>3, <2>5
    <3> HIDE DEF t
    <3>4. b = c /\ i = j
      BY <2>2, <2>3, <3>1, <3>2, <3>3
    <3> QED
      BY <2>5, <3>4
  <2>6. ASSUME b # c \/ i # j, NEW k \in DOMAIN ArgsAt(b, i), NEW l \in DOMAIN ArgsAt(c, j),
               ArgsAt(b, i)[k].kind = "IRVAL_TEMP", ArgsAt(b, i)[k] = ArgsAt(c, j)[l]
        PROVE  FALSE
    <3> DEFINE t == ArgsAt(b, i)[k].id
    <3>1. t \in Nat /\ ReadAt(blocks, t, b, Place(b, i))
      BY <2>6, ArgumentsAre
    <3>2. ReadAt(blocks, t, c, Place(c, j))
      <4>1. ArgsAt(c, j)[l].kind = "IRVAL_TEMP" /\ ArgsAt(c, j)[l].id = t
        BY <2>6
      <4> QED
        BY <4>1, ArgumentsAre
    <3> HIDE DEF t
    <3> QED
      BY <2>2, <2>3, <2>4, <2>6, <3>1, <3>2
  <2>7. ASSUME NEW k \in DOMAIN ArgsAt(b, i), NEW l \in OwnValues,
               ArgsAt(b, i)[k].kind = "IRVAL_TEMP", ArgsAt(b, i)[k] = val_stack[l]
        PROVE  FALSE
    <3> DEFINE t == ArgsAt(b, i)[k].id
    <3>1. t \in Nat /\ ReadAt(blocks, t, b, Place(b, i)) /\ ArgsAt(b, i)[k] = TEMP(t)
      BY <2>7, ArgumentsAre
    <3>2. val_stack[l] = TEMP(t)
      BY <2>7, <3>1
    <3> HIDE DEF t
    <3>3. t \in OwnTemps
      BY <3>1, <3>2 DEF OwnTemps
    <3> QED
      BY <2>2, <2>3, <3>1, <3>3
  <2> QED
    BY <2>5, <2>6, <2>7
<1> QED
  BY <1>1, TempsInvariant, PTL

\* The value stack belongs to the builder, yet the temps that a function reads,
\* or is still to read, are defined in it.
THEOREM FunctionsDefineTheirTemps == Spec => []FunctionsAreSelfContained
<1>1. IInv /\ Temps => FunctionsAreSelfContained
  <2> SUFFICES ASSUME IInv, Temps, Running, ~foreign
               PROVE  /\ \A b \in BlockIds : \A i \in Places(b) : \A k \in DOMAIN ArgsAt(b, i) :
                           ArgsAt(b, i)[k].kind = "IRVAL_TEMP"
                             => DefinedHere(ArgsAt(b, i)[k].id)
                      /\ \A l \in OwnValues :
                           val_stack[l].kind = "IRVAL_TEMP" => DefinedHere(val_stack[l].id)
    BY DEF FunctionsAreSelfContained
  <2>1. CodeOK(blocks, OwnTemps)
    BY OwnCode
  <2>2. /\ \A t, d, m \in Nat :
             ReadAt(blocks, t, d, m) => \E e, n \in Nat : DefAt(blocks, t, e, n)
        /\ \A t \in OwnTemps : \E e, n \in Nat : DefAt(blocks, t, e, n)
    BY <2>1 DEF CodeOK
  <2>3. ASSUME NEW t \in Nat, \E e, n \in Nat : DefAt(blocks, t, e, n)
        PROVE  DefinedHere(t)
    BY <2>3 DEF DefinedHere, DefinedIn, DefAt, BlockIds, InstAt
  <2>4. ASSUME NEW b \in BlockIds, NEW i \in Places(b), NEW k \in DOMAIN ArgsAt(b, i),
               ArgsAt(b, i)[k].kind = "IRVAL_TEMP"
        PROVE  DefinedHere(ArgsAt(b, i)[k].id)
    <3> DEFINE t == ArgsAt(b, i)[k].id
    <3>1. t \in Nat /\ ReadAt(blocks, t, b, Place(b, i))
      BY <2>4, ArgumentsAre
    <3>2. b \in Nat /\ Place(b, i) \in Nat
      BY PlacesAre
    <3> HIDE DEF t
    <3>3. DefinedHere(t)
      BY <2>2, <2>3, <3>1, <3>2
    <3> QED
      BY <3>3 DEF t
  <2>5. ASSUME NEW l \in OwnValues, val_stack[l].kind = "IRVAL_TEMP"
        PROVE  DefinedHere(val_stack[l].id)
    <3> DEFINE t == val_stack[l].id
    <3>1. val_stack[l] \in Values
      <4>1. walk[1].base \in Nat /\ val_stack \in Seq(Values) /\ Height = Len(val_stack)
        BY TempsRunning
      <4>2. l \in 1..Len(val_stack)
        BY <4>1 DEF OwnValues
      <4> QED
        BY <4>1, <4>2
    <3>2. t \in Nat /\ val_stack[l] = TEMP(t)
      BY <2>5, <3>1, ValuesAre
    <3> HIDE DEF t
    <3>3. t \in OwnTemps
      BY <3>2 DEF OwnTemps
    <3>4. DefinedHere(t)
      BY <2>2, <2>3, <3>2, <3>3
    <3> QED
      BY <3>4 DEF t
  <2> QED
    BY <2>4, <2>5
<1> QED
  BY <1>1, TempsInvariant, PTL
-----------------------------------------------------------------------------
\* What is local to a block stays so when the block grows.
LEMMA LocalGrows ==
  ASSUME NEW old \in Seq(InstRecs), NEW i \in InstRecs
  PROVE  /\ \A v : Local(v, old, Len(old)) => Local(v, Append(old, i), Len(old) + 1)
         /\ \A v, n : n \in 0..Len(old) =>
                        (Local(v, Append(old, i), n) <=> Local(v, old, n))
         /\ \A t \in Nat : t = i.dst => Local(TEMP(t), Append(old, i), Len(old) + 1)
<1> DEFINE m == Len(old)
           new == Append(old, i)
<1>1. /\ m \in Nat /\ new[m + 1] = i
      /\ \A k \in 1..m : new[k] = old[k]
  BY AppendIs
<1> HIDE DEF new
<1>2. ASSUME NEW v, Local(v, old, m) PROVE Local(v, new, m + 1)
  <2>1. \A k \in 1..m : k \in 1..m + 1
    BY <1>1
  <2> HIDE DEF m
  <2> QED
    BY <1>1, <1>2, <2>1 DEF Local
<1>3. ASSUME NEW v, NEW n \in 0..m PROVE Local(v, new, n) <=> Local(v, old, n)
  <2>1. \A k \in 1..n : k \in 1..m
    BY <1>1
  <2> HIDE DEF m
  <2> QED
    BY <1>1, <2>1 DEF Local
<1>4. ASSUME NEW t \in Nat, t = i.dst PROVE Local(TEMP(t), new, m + 1)
  <2>1. m + 1 \in 1..m + 1 /\ TEMP(t).id = t
    BY <1>1 DEF TEMP
  <2> QED
    BY <1>1, <1>4, <2>1 DEF Local
<1> QED
  BY <1>2, <1>3, <1>4 DEF new

\* An instruction is appended that reads local values,
LEMMA EmitLocal ==
  ASSUME NEW bs \in Seq(BlockRecs), NEW b \in 1..Len(bs), NEW i \in InstRecs, AllLocal(bs),
         \A k \in 1..Len(i.args) : Local(i.args[k], bs[b].insts, Len(bs[b].insts))
  PROVE  LET new == Emit(bs, b, <<i>>) IN
         /\ AllLocal(new)
         /\ \A v : Local(v, bs[b].insts, Len(bs[b].insts))
                     => Local(v, new[b].insts, Len(new[b].insts))
         /\ \A t \in Nat : t = i.dst => Local(TEMP(t), new[b].insts, Len(new[b].insts))
<1> DEFINE new == Emit(bs, b, <<i>>)
           old == bs[b].insts
           m == Len(old)
<1>1. /\ new \in Seq(BlockRecs) /\ Len(new) = Len(bs)
      /\ \A c \in 1..Len(bs) : new[c].term = bs[c].term /\ (c # b => new[c] = bs[c])
      /\ new[b].insts = old \o <<i>>
  <2>1. <<i>> \in Seq(InstRecs)
    OBVIOUS
  <2> QED
    BY <2>1, EmitIs
<1>2. old \in Seq(InstRecs) /\ BlockLocal(bs[b])
  <2>1. bs[b] \in BlockRecs
    OBVIOUS
  <2> QED
    BY <2>1 DEF BlockRecs, AllLocal
<1> HIDE DEF new, old
<1>3. new[b].insts = Append(old, i)
  BY <1>1, <1>2
<1>4. /\ m \in Nat /\ Len(Append(old, i)) = m + 1 /\ Append(old, i)[m + 1] = i
      /\ \A k \in 1..m : Append(old, i)[k] = old[k]
  BY <1>2, AppendIs
<1>5. /\ \A v : Local(v, old, m) => Local(v, Append(old, i), m + 1)
      /\ \A v, n : n \in 0..m => (Local(v, Append(old, i), n) <=> Local(v, old, n))
      /\ \A t \in Nat : t = i.dst => Local(TEMP(t), Append(old, i), m + 1)
  BY <1>2, LocalGrows
<1>6. /\ \A j \in 1..m : \A k \in 1..Len(old[j].args) : Local(old[j].args[k], old, j - 1)
      /\ \A k \in 1..Len(bs[b].term.args) : Local(bs[b].term.args[k], old, m)
  BY <1>2 DEF BlockLocal, old
<1>7. \A k \in 1..Len(i.args) : Local(i.args[k], old, m)
  BY DEF old
<1> HIDE DEF m
<1>8. ASSUME NEW j \in 1..m + 1, NEW k \in 1..Len(Append(old, i)[j].args)
      PROVE  Local(Append(old, i)[j].args[k], Append(old, i), j - 1)
  <2>1. CASE j = m + 1
    <3>1. j - 1 = m /\ m \in 0..m
      BY <1>4, <2>1
    <3>2. Append(old, i)[j] = i
      BY <1>4, <2>1
    <3> QED
      BY <1>5, <1>7, <3>1, <3>2
  <2>2. CASE j # m + 1
    <3>1. j \in 1..m /\ j - 1 \in 0..m
      BY <1>4, <2>2
    <3>2. Append(old, i)[j] = old[j]
      BY <1>4, <3>1
    <3> QED
      BY <1>5, <1>6, <3>1, <3>2
  <2> QED
    BY <2>1, <2>2
<1>9. BlockLocal(new[b])
  <2>1. new[b].term = bs[b].term
    BY <1>1
  <2>2. \A k \in 1..Len(new[b].term.args) : Local(new[b].term.args[k], Append(old, i), m + 1)
    BY <1>5, <1>6, <2>1
  <2> QED
    BY <1>3, <1>4, <1>8, <2>2 DEF BlockLocal
<1>10. AllLocal(new)
  BY <1>1, <1>9 DEF AllLocal
<1>11. /\ \A v : Local(v, old, m) => Local(v, new[b].insts, Len(new[b].insts))
       /\ \A t \in Nat : t = i.dst => Local(TEMP(t), new[b].insts, Len(new[b].insts))
  BY <1>3, <1>4, <1>5
<1> QED
  BY <1>10, <1>11 DEF new, old, m

\* a terminator is put that does,
LEMMA TerminateLocal ==
  ASSUME NEW bs \in Seq(BlockRecs), NEW b \in 1..Len(bs), NEW t \in TermRecs, AllLocal(bs),
         \A k \in 1..Len(t.args) : Local(t.args[k], bs[b].insts, Len(bs[b].insts))
  PROVE  AllLocal(Terminate(bs, b, t))
<1> DEFINE new == Terminate(bs, b, t)
<1>1. /\ new \in Seq(BlockRecs) /\ Len(new) = Len(bs)
      /\ \A c \in 1..Len(bs) : new[c].insts = bs[c].insts /\ (c # b => new[c] = bs[c])
      /\ new[b].term = t
  BY TerminateIs
<1> HIDE DEF new
<1>2. BlockLocal(new[b])
  BY <1>1 DEF AllLocal, BlockLocal
<1>3. AllLocal(new)
  BY <1>1, <1>2 DEF AllLocal
<1> QED
  BY <1>3 DEF new

\* a jump,
LEMMA JumpLocal ==
  ASSUME NEW bs \in Seq(BlockRecs), NEW b \in 1..Len(bs), NEW to \in 1..Len(bs), AllLocal(bs)
  PROVE  /\ AllLocal(JumpIfOpen(bs, b, to)) /\ JumpIfOpen(bs, b, to) \in Seq(BlockRecs)
         /\ Len(JumpIfOpen(bs, b, to)) = Len(bs)
<1>1. to \in Nat
  OBVIOUS
<1>2. Jump(to) \in TermRecs /\ Len(Jump(to).args) = 0
  BY <1>1, TermsAre DEF Jump
<1>3. \A k \in 1..Len(Jump(to).args) : Local(Jump(to).args[k], bs[b].insts, Len(bs[b].insts))
  BY <1>2
<1>4. AllLocal(Terminate(bs, b, Jump(to)))
  BY <1>2, <1>3, TerminateLocal
<1> QED
  BY <1>4, JumpCloses DEF JumpIfOpen

\* a return without a temp, or new blocks.
LEMMA HaltLocal ==
  ASSUME NEW bs \in Seq(BlockRecs), NEW b \in 1..Len(bs), AllLocal(bs)
  PROVE  /\ AllLocal(Terminate(bs, b, ImplicitHalt))
         /\ AllLocal(Terminate(bs, b, Halt(<<>>)))
<1>1. \A insts, n : Local(IMM(0), insts, n)
  BY DEF Local, IMM
<1>2. /\ ImplicitHalt \in TermRecs
      /\ \A k \in 1..Len(ImplicitHalt.args) : ImplicitHalt.args[k] = IMM(0)
  <2>1. ImplicitHalt.args = <<IMM(0)>> \/ ImplicitHalt.args = <<>>
    BY DEF ImplicitHalt, Halt
  <2> QED
    BY <2>1, ImplicitHaltIs
<1>3. Halt(<<>>) \in TermRecs /\ Len(Halt(<<>>).args) = 0
  BY TermsAre DEF Halt
<1>4. AllLocal(Terminate(bs, b, ImplicitHalt))
  BY <1>1, <1>2, TerminateLocal
<1>5. AllLocal(Terminate(bs, b, Halt(<<>>)))
  <2>1. \A k \in 1..Len(Halt(<<>>).args) : Local(Halt(<<>>).args[k], bs[b].insts, Len(bs[b].insts))
    BY <1>3
  <2> QED
    BY <1>3, <2>1, TerminateLocal
<1> QED
  BY <1>4, <1>5

LEMMA CreateLocal ==
  ASSUME NEW bs \in Seq(BlockRecs), AllLocal(bs),
         NEW news \in {<<NewBlock, NewBlock>>, <<NewBlock, NewBlock, NewBlock>>}
  PROVE  AllLocal(bs \o news)
<1> DEFINE new == bs \o news
<1>1. /\ Len(new) = Len(bs) + Len(news) /\ Len(bs) \in Nat /\ Len(news) \in {2, 3}
      /\ \A c \in 1..Len(bs) : new[c] = bs[c]
      /\ \A c \in 1..Len(new) : c \notin 1..Len(bs) => new[c] = NewBlock
  BY CreateIs
<1> HIDE DEF new
<1>2. Len(NewBlock.insts) = 0 /\ Len(NewBlock.term.args) = 0
  BY DEF NewBlock, Undefined
<1>3. BlockLocal(NewBlock)
  BY <1>2 DEF BlockLocal
<1>4. AllLocal(new)
  BY <1>1, <1>3 DEF AllLocal
<1> QED
  BY <1>4 DEF new

\* What is done to the walk.
LEMMA NestedIs ==
  ASSUME NEW w \in Seq(Frames), w # <<>>, Nested(w), NEW f
  PROVE  /\ f.at \notin LogFrames \/ f.base = Last(w).base => Nested(Append(w, f))
         /\ Nested(Butlast(w))
         /\ f.at \notin LogFrames => Nested([w EXCEPT ![Len(w)] = f])
         /\ \A s : Nested(Declare(w, s))
<1>1. Len(w) \in Nat \ {0}
  OBVIOUS
<1>2. ASSUME f.at \notin LogFrames \/ f.base = Last(w).base
      PROVE  Nested(Append(w, f))
  <2> DEFINE v == Append(w, f)
  <2>1. Len(v) = Len(w) + 1 /\ v[Len(w) + 1] = f /\ \A k \in 1..Len(w) : v[k] = w[k]
    OBVIOUS
  <2> HIDE DEF v
  <2>2. ASSUME NEW k \in 1..Len(v) - 1, v[k + 1].at \in LogFrames
        PROVE  v[k + 1].base = v[k].base
    <3>1. CASE k = Len(w)
      BY <1>1, <1>2, <2>1, <2>2, <3>1 DEF Last
    <3>2. CASE k # Len(w)
      <4>1. k \in 1..Len(w) - 1 /\ k \in 1..Len(w) /\ k + 1 \in 1..Len(w)
        BY <1>1, <2>1, <3>2
      <4> QED
        BY <2>1, <2>2, <4>1 DEF Nested
    <3> QED
      BY <3>1, <3>2
  <2> QED
    BY <2>2 DEF Nested, v
<1>3. Nested(Butlast(w))
  <2>1. /\ Len(Butlast(w)) = Len(w) - 1
        /\ \A k \in 1..Len(w) - 1 : Butlast(w)[k] = w[k]
    BY ButlastIs
  <2> QED
    BY <1>1, <2>1 DEF Nested
<1>4. ASSUME f.at \notin LogFrames
      PROVE  Nested([w EXCEPT ![Len(w)] = f])
  <2> DEFINE v == [w EXCEPT ![Len(w)] = f]
  <2>1. Len(v) = Len(w) /\ v[Len(w)] = f /\ \A k \in 1..Len(w) : k # Len(w) => v[k] = w[k]
    BY <1>1
  <2> HIDE DEF v
  <2>2. ASSUME NEW k \in 1..Len(v) - 1, v[k + 1].at \in LogFrames
        PROVE  v[k + 1].base = v[k].base
    <3>1. k + 1 # Len(w)
      BY <1>4, <2>1, <2>2
    <3>2. k \in 1..Len(w) - 1 /\ k \in 1..Len(w) /\ k + 1 \in 1..Len(w) /\ k # Len(w)
      BY <1>1, <2>1, <3>1
    <3> QED
      BY <2>1, <2>2, <3>1, <3>2 DEF Nested
  <2> QED
    BY <2>2 DEF Nested, v
<1>5. ASSUME NEW s PROVE Nested(Declare(w, s))
  <2> DEFINE v == Declare(w, s)
  <2>1. Len(v) = Len(w) /\ \A k \in 1..Len(w) : v[k].at = w[k].at /\ v[k].base = w[k].base
    <3>1. \A k \in 1..Len(w) : w[k] \in Frames
      OBVIOUS
    <3> QED
      BY <1>1, <3>1 DEF Declare, Frames
  <2> HIDE DEF v
  <2>2. ASSUME NEW k \in 1..Len(v) - 1
        PROVE  k \in 1..Len(w) - 1 /\ k \in 1..Len(w) /\ k + 1 \in 1..Len(w)
    BY <1>1, <2>1
  <2> QED
    BY <2>1, <2>2 DEF Nested, v
<1> QED
  BY <1>2, <1>3, <1>4, <1>5
-----------------------------------------------------------------------------
\* The value that was waited for can be read where it is.
LEMMA ValueLocal ==
  ASSUME IInv, LocalInv, ExprDone
  PROVE  Local(Last(val_stack), blocks[curr].insts, Len(blocks[curr].insts))
<1>1. InExpr /\ Height \in Nat /\ Top.base \in Nat /\ Height = Top.base + 1
      /\ Last(val_stack) = val_stack[Height]
  BY OnValue
<1>2. Height \in Top.base + 1..Height
  BY <1>1
<1> QED
  BY <1>1, <1>2 DEF LocalInv

\* After a step that leaves no value waiting only the code matters.
LEMMA NoneWait ==
  ASSUME AllLocal(blocks'), Nested(walk'),
         \/ walk' = <<>>
         \/ Last(walk').at \in StmtFrames
         \/ Len(val_stack') \in Nat /\ Last(walk').base = Len(val_stack')
  PROVE  LocalInv'
<1>1. CASE walk' = <<>> \/ Last(walk').at \in StmtFrames
  BY <1>1 DEF LocalInv, InExpr, Running, Top
<1>2. CASE Len(val_stack') \in Nat /\ Last(walk').base = Len(val_stack')
  <2>1. Top'.base + 1..Height' = {}
    BY <1>2 DEF Top, Height
  <2> QED
    BY <2>1 DEF LocalInv
<1> QED
  BY <1>1, <1>2

\* Steps that begin something.
LEMMA BeginsLocal ==
  ASSUME IInv, Running, LocalInv, BeginSimple \/ BeginBlock
  PROVE  LocalInv'
<1>1. walk \in Seq(Frames) /\ walk # <<>> /\ Height = Len(val_stack) /\ Height \in Nat
  BY RunningIs
<1>2. blocks' = blocks /\ val_stack' = val_stack
  BY DEF BeginSimple, BeginStmt, BeginBlock
<1>3. PICK f : walk' = Append(walk, f) /\ f.at \notin LogFrames /\ f.base = Height
  <2>1. ASSUME NEW node, NEW at \in HeadFrames \cup {"block"}, NEW slot, NEW n,
               walk' = Push(walk, Frame(at, Height, slot, <<>>, Top.scope))
        PROVE  \E f : walk' = Append(walk, f) /\ f.at \notin LogFrames /\ f.base = Height
    <3>1. at \notin LogFrames
      BY DEF HeadFrames, LogFrames
    <3> QED
      BY <2>1, <3>1 DEF Push, Frame
  <2>2. CASE BeginBlock
    BY <2>1, <2>2 DEF BeginBlock
  <2>3. CASE BeginSimple
    BY <2>1, <2>3 DEF BeginSimple, BeginStmt, HeadFrames
  <2> QED
    BY <2>2, <2>3
<1>4. Last(walk') = f
  BY <1>1, <1>3 DEF Last
<1>5. Nested(walk')
  BY <1>1, <1>3, NestedIs DEF LocalInv
<1> QED
  BY <1>1, <1>2, <1>3, <1>4, <1>5, NoneWait DEF LocalInv

LEMMA BeginWhileLocal ==
  ASSUME IInv, Running, LocalInv, BeginWhile
  PROVE  LocalInv'
<1> DEFINE n == Len(blocks)
           news == <<NewBlock, NewBlock, NewBlock>>
           bs == blocks \o news
           f == Frame("while", Height, NoSlot, <<n + 1, n + 1 + 1, n + 1 + 2>>, Top.scope)
<1>1. blocks' = JumpIfOpen(bs, curr, n + 1) /\ val_stack' = val_stack /\ walk' = Append(walk, f)
  BY DEF BeginWhile, Push
<1>2. news \in {<<NewBlock, NewBlock>>, <<NewBlock, NewBlock, NewBlock>>} /\ Len(news) = 3
  OBVIOUS
<1>3. /\ walk \in Seq(Frames) /\ walk # <<>> /\ Height = Len(val_stack) /\ Height \in Nat
      /\ blocks \in Seq(BlockRecs) /\ n \in Nat /\ curr \in 1..n
  BY RunningIs
<1>4. f.at \notin LogFrames /\ f.base = Height
  BY DEF Frame, LogFrames
<1> HIDE DEF news, f
<1>5. bs \in Seq(BlockRecs) /\ Len(bs) = n + 3 /\ AllLocal(bs)
  BY <1>2, <1>3, CreateIs, CreateLocal DEF LocalInv
<1>6. curr \in 1..Len(bs) /\ n + 1 \in 1..Len(bs)
  BY <1>3, <1>5
<1> HIDE DEF bs
<1>7. AllLocal(blocks')
  BY <1>1, <1>5, <1>6, JumpLocal
<1>8. Last(walk') = f
  BY <1>1, <1>3 DEF Last
<1>9. Nested(walk')
  BY <1>1, <1>3, <1>4, NestedIs DEF LocalInv
<1> QED
  BY <1>1, <1>3, <1>4, <1>7, <1>8, <1>9, NoneWait

\* Steps that end a statement with a value.
LEMMA EndsLocal ==
  ASSUME IInv, Running, LocalInv, VarDec \/ Assn \/ Exit
  PROVE  LocalInv'
<1> DEFINE v == Last(val_stack)
<1>1. ExprDone /\ Top.at \in HeadFrames
  BY DEF VarDec, Assn, Exit, HeadFrames
<1>2. /\ Pop(walk, 1) = Butlast(walk) /\ Butlast(walk) # <<>>
      /\ Last(Butlast(walk)).at \in StmtFrames
      /\ WalkOK(Butlast(walk), unclaimed, next_slot, Len(blocks))
      /\ FrameOK(Top, unclaimed, next_slot, Len(blocks)) /\ v \in Values
  BY <1>1, OnHeadValue
<1>3. /\ walk \in Seq(Frames) /\ walk # <<>> /\ next_slot \in Nat /\ next_temp \in Nat
      /\ blocks \in Seq(BlockRecs) /\ curr \in 1..Len(blocks)
  BY RunningIs
<1>4. Local(v, blocks[curr].insts, Len(blocks[curr].insts))
  BY <1>1, ValueLocal
<1> HIDE DEF v
<1>5. ASSUME NEW s \in Nat
      PROVE  AllLocal(Emit(blocks, curr, <<Store(s, v)>>))
  <2>1. Store(s, v) \in InstRecs /\ Store(s, v).args = <<v>>
    BY <1>2, <1>3, InstsAre
  <2>2. \A k \in 1..Len(Store(s, v).args) :
          Local(Store(s, v).args[k], blocks[curr].insts, Len(blocks[curr].insts))
    BY <1>4, <2>1
  <2> QED
    BY <1>3, <2>1, <2>2, EmitLocal DEF LocalInv
<1>6. AllLocal(Terminate(blocks, curr, Halt(<<v>>)))
  <2>1. Halt(<<v>>) \in TermRecs /\ Halt(<<v>>).args = <<v>>
    BY <1>2, TermsAre
  <2>2. \A k \in 1..Len(Halt(<<v>>).args) :
          Local(Halt(<<v>>).args[k], blocks[curr].insts, Len(blocks[curr].insts))
    BY <1>4, <2>1
  <2> QED
    BY <1>3, <2>1, <2>2, TerminateLocal DEF LocalInv
<1>7. Nested(Butlast(walk)) /\ Butlast(walk) \in Seq(Frames)
  BY <1>2, <1>3, NestedIs DEF LocalInv, WalkOK
<1>8. CASE VarDec
  <2>1. AllLocal(blocks')
    BY <1>3, <1>5, <1>8 DEF VarDec, v
  <2>2. walk' = Declare(Butlast(walk), next_slot)
    BY <1>2, <1>8 DEF VarDec
  <2>3. Last(walk').at \in StmtFrames
    BY <1>2, <1>3, <2>2, DeclareIs
  <2>4. Nested(walk')
    BY <1>2, <1>7, <2>2, NestedIs
  <2> QED
    BY <2>1, <2>3, <2>4, NoneWait
<1>9. CASE Assn
  <2>1. Top.slot \in Nat
    BY <1>2, <1>3, <1>9 DEF Assn, FrameOK
  <2>2. AllLocal(blocks')
    BY <1>5, <1>9, <2>1 DEF Assn, v
  <2>3. walk' = Butlast(walk)
    BY <1>2, <1>9 DEF Assn
  <2> QED
    BY <1>2, <1>7, <2>2, <2>3, NoneWait
<1>10. CASE Exit
  <2>1. AllLocal(blocks')
    BY <1>6, <1>10 DEF Exit, v
  <2>2. walk' = Butlast(walk)
    BY <1>2, <1>10 DEF Exit
  <2> QED
    BY <1>2, <1>7, <2>1, <2>2, NoneWait
<1> QED
  BY <1>8, <1>9, <1>10

\* Steps that end a list of statements, or do without a value.
LEMMA ListsLocal ==
  ASSUME IInv, Running, LocalInv, EndIf \/ EndWhile \/ EndBlock
  PROVE  LocalInv'
<1>1. /\ InStmts /\ Top.at # "fn_block" /\ walk' = Pop(walk, 1)
  BY DEF EndIf, EndWhile, EndBlock
<1>2. /\ Pop(walk, 1) = Butlast(walk) /\ Last(Butlast(walk)).at \in StmtFrames
      /\ FrameOK(Top, unclaimed, next_slot, Len(blocks))
  BY <1>1, OnList
<1>3. /\ walk \in Seq(Frames) /\ walk # <<>>
      /\ blocks \in Seq(BlockRecs) /\ curr \in 1..Len(blocks) /\ AllLocal(blocks)
  BY RunningIs DEF LocalInv
<1>4. Nested(walk')
  BY <1>1, <1>2, <1>3, NestedIs DEF LocalInv
<1>5. ASSUME NEW to \in 1..Len(blocks)
      PROVE  /\ AllLocal(JumpIfOpen(blocks, curr, to))
             /\ AllLocal(Terminate(JumpIfOpen(blocks, curr, to), to, ImplicitHalt))
  <2> DEFINE bs == JumpIfOpen(blocks, curr, to)
  <2>1. AllLocal(bs) /\ bs \in Seq(BlockRecs) /\ to \in 1..Len(bs)
    BY <1>3, JumpLocal
  <2> HIDE DEF bs
  <2>2. AllLocal(Terminate(bs, to, ImplicitHalt))
    BY <2>1, HaltLocal
  <2> QED
    BY <2>1, <2>2 DEF bs
<1>6. AllLocal(blocks')
  <2>1. CASE EndIf
    <3>1. Len(Top.to) = 1
      BY <2>1 DEF EndIf
    <3>2. Last(Top.to) \in 1..Len(blocks)
      BY <1>2, <3>1 DEF FrameOK, Last
    <3>3. \/ blocks' = JumpIfOpen(blocks, curr, Last(Top.to))
          \/ blocks' = Terminate(JumpIfOpen(blocks, curr, Last(Top.to)), Last(Top.to), ImplicitHalt)
          \/ blocks' = Terminate(blocks, Last(Top.to), ImplicitHalt)
      BY <2>1 DEF EndIf
    <3>4. AllLocal(Terminate(blocks, Last(Top.to), ImplicitHalt))
      BY <1>3, <3>2, HaltLocal
    <3> QED
      BY <1>5, <3>2, <3>3, <3>4
  <2>2. CASE EndWhile
    <3>1. Top.at = "loop_block" /\ blocks' = JumpIfOpen(blocks, curr, Top.to[1])
      BY <2>2 DEF EndWhile
    <3>2. Len(Top.to) = 2
      BY <1>2, <3>1 DEF FrameOK, Targets
    <3>3. Top.to[1] \in 1..Len(blocks)
      BY <1>2, <3>2 DEF FrameOK
    <3> QED
      BY <1>5, <3>1, <3>3
  <2>3. CASE EndBlock
    BY <1>3, <2>3 DEF EndBlock
  <2> QED
    BY <2>1, <2>2, <2>3
<1> QED
  BY <1>1, <1>2, <1>4, <1>6, NoneWait

LEMMA BareLocal ==
  ASSUME IInv, Running, LocalInv, BareExit \/ EndFunction \/ EndThen
  PROVE  LocalInv'
<1>1. /\ walk \in Seq(Frames) /\ walk # <<>> /\ Top = Last(walk)
      /\ blocks \in Seq(BlockRecs) /\ curr \in 1..Len(blocks) /\ AllLocal(blocks)
      /\ Nested(walk)
  BY RunningIs DEF LocalInv
<1>2. CASE BareExit
  <2>1. blocks' = Terminate(blocks, curr, Halt(<<>>)) /\ walk' = walk /\ InStmts
    BY <1>2 DEF BareExit
  <2>2. AllLocal(blocks')
    BY <1>1, <2>1, HaltLocal
  <2> QED
    BY <1>1, <2>1, <2>2, NoneWait DEF InStmts
<1>3. CASE EndFunction
  <2>1. walk' = <<>> /\ (blocks' = blocks \/ blocks' = Terminate(blocks, curr, ImplicitHalt))
    BY <1>3 DEF EndFunction
  <2>2. AllLocal(blocks')
    BY <1>1, <2>1, HaltLocal
  <2>3. Nested(<<>>)
    BY DEF Nested
  <2> QED
    BY <2>1, <2>2, <2>3, NoneWait
<1>4. CASE EndThen
  <2> DEFINE h == Frame("else_block", Top.base, NoSlot, <<Top.to[2]>>, walk[Len(walk) - 1].scope)
             f == [h EXCEPT !.reached = Open(blocks, curr)]
  <2>1. /\ InStmts /\ Top.at = "then_block" /\ Len(Top.to) = 2
        /\ walk' = [walk EXCEPT ![Len(walk)] = f]
        /\ blocks' = JumpIfOpen(blocks, curr, Top.to[2])
    BY <1>4 DEF EndThen
  <2>2. f.at = "else_block"
    BY DEF Frame
  <2> HIDE DEF f
  <2>3. FrameOK(Top, unclaimed, next_slot, Len(blocks))
    BY <2>1, OnList
  <2>4. Top.to[2] \in 1..Len(blocks)
    BY <2>1, <2>3 DEF FrameOK
  <2>5. AllLocal(blocks')
    BY <1>1, <2>1, <2>4, JumpLocal
  <2>6. Nested(walk')
    BY <1>1, <2>1, <2>2, NestedIs DEF LogFrames
  <2>7. Last(walk').at \in StmtFrames
    <3>1. Last(walk') = f
      BY <1>1, <2>1 DEF Last
    <3> QED
      BY <2>2, <3>1 DEF StmtFrames
  <2> QED
    BY <2>5, <2>6, <2>7, NoneWait
<1> QED
  BY <1>2, <1>3, <1>4

\* A branch ends the block, on the value that was waited for.
LEMMA BranchLocal ==
  ASSUME IInv, Running, LocalInv, ExprDone,
         NEW bs \in Seq(BlockRecs), curr \in 1..Len(bs), AllLocal(bs),
         Local(Last(val_stack), bs[curr].insts, Len(bs[curr].insts)),
         NEW t \in TermRecs, t.args = <<Last(val_stack)>>
  PROVE  AllLocal(Terminate(bs, curr, t))
<1>1. \A k \in 1..Len(t.args) : Local(t.args[k], bs[curr].insts, Len(bs[curr].insts))
  OBVIOUS
<1> QED
  BY <1>1, TerminateLocal

\* Blocks that are created leave those there are as they were.
LEMMA CreatedLocal ==
  ASSUME IInv, Running, LocalInv,
         NEW news \in {<<NewBlock, NewBlock>>, <<NewBlock, NewBlock, NewBlock>>}
  PROVE  /\ blocks \o news \in Seq(BlockRecs) /\ AllLocal(blocks \o news)
         /\ curr \in 1..Len(blocks \o news) /\ (blocks \o news)[curr] = blocks[curr]
         /\ Len(blocks \o news) = Len(blocks) + Len(news)
<1>1. blocks \in Seq(BlockRecs) /\ Len(blocks) \in Nat /\ curr \in 1..Len(blocks)
  BY RunningIs
<1> DEFINE bs == blocks \o news
<1>2. /\ bs \in Seq(BlockRecs) /\ Len(bs) = Len(blocks) + Len(news) /\ Len(news) \in {2, 3}
      /\ \A c \in 1..Len(blocks) : bs[c] = blocks[c]
      /\ AllLocal(bs)
  BY <1>1, CreateIs, CreateLocal DEF LocalInv
<1> HIDE DEF bs
<1>3. curr \in 1..Len(bs) /\ bs[curr] = blocks[curr]
  BY <1>1, <1>2
<1> QED
  BY <1>2, <1>3 DEF bs

LEMMA IfLocal ==
  ASSUME IInv, Running, LocalInv, NEW else \in BOOLEAN, If(else)
  PROVE  LocalInv'
<1> DEFINE n == Len(blocks)
           news == IF else THEN <<NewBlock, NewBlock, NewBlock>> ELSE <<NewBlock, NewBlock>>
           bs == blocks \o news
           t == BranchIfZero(Last(val_stack), n + 1, n + 2)
           f == Frame("then_block", Height - 1, NoSlot,
                      IF else THEN <<n + 2, IF else THEN n + 3 ELSE n + 2>>
                              ELSE <<IF else THEN n + 3 ELSE n + 2>>, Top.scope)
<1>1. ExprDone /\ blocks' = Terminate(bs, curr, t) /\ walk' = Append(Pop(walk, 1), f)
  BY DEF If, Push
<1>2. f.at = "then_block"
  BY DEF Frame
<1> HIDE DEF f
<1>3. /\ Pop(walk, 1) = Butlast(walk) /\ Butlast(walk) \in Seq(Frames) /\ Butlast(walk) # <<>>
      /\ Last(val_stack) \in Values
  BY <1>1, OnValue
<1>4. n \in Nat /\ walk \in Seq(Frames) /\ walk # <<>>
  BY RunningIs
<1>5. t \in TermRecs /\ t.args = <<Last(val_stack)>>
  <2>1. n + 1 \in Nat /\ n + 2 \in Nat
    BY <1>4
  <2> QED
    BY <1>3, <2>1, TermsAre
<1> HIDE DEF t
<1>6. news \in {<<NewBlock, NewBlock>>, <<NewBlock, NewBlock, NewBlock>>}
  OBVIOUS
<1> HIDE DEF news
<1>7. /\ bs \in Seq(BlockRecs) /\ AllLocal(bs) /\ curr \in 1..Len(bs)
      /\ bs[curr] = blocks[curr]
  BY <1>6, CreatedLocal
<1> HIDE DEF bs
<1>8. AllLocal(blocks')
  <2>1. Local(Last(val_stack), bs[curr].insts, Len(bs[curr].insts))
    BY <1>1, <1>7, ValueLocal
  <2> QED
    BY <1>1, <1>5, <1>7, <2>1, BranchLocal
<1>9. Nested(Butlast(walk))
  BY <1>4, NestedIs DEF LocalInv
<1>10. Nested(walk')
  BY <1>1, <1>2, <1>3, <1>9, NestedIs DEF LogFrames
<1>11. Last(walk') = f
  BY <1>1, <1>3 DEF Last
<1> QED
  BY <1>2, <1>8, <1>10, <1>11, NoneWait DEF StmtFrames

LEMMA WhileBodyLocal ==
  ASSUME IInv, Running, LocalInv, WhileBody
  PROVE  LocalInv'
<1> DEFINE t == BranchIfZero(Last(val_stack), Top.to[2], Top.to[3])
           f == Frame("loop_block", Height - 1, NoSlot, <<Top.to[1], Top.to[3]>>, Top.scope)
<1>1. /\ ExprDone /\ Top.at = "while" /\ walk' = Append(Pop(walk, 1), f)
      /\ blocks' = IF Open(blocks, curr) THEN Terminate(blocks, curr, t) ELSE blocks
  BY DEF WhileBody, Push
<1>2. f.at = "loop_block"
  BY DEF Frame
<1> HIDE DEF f
<1>3. /\ Pop(walk, 1) = Butlast(walk) /\ Butlast(walk) \in Seq(Frames) /\ Butlast(walk) # <<>>
      /\ Last(val_stack) \in Values /\ FrameOK(Top, unclaimed, next_slot, Len(blocks))
  BY <1>1, OnValue
<1>4. /\ walk \in Seq(Frames) /\ walk # <<>>
      /\ blocks \in Seq(BlockRecs) /\ curr \in 1..Len(blocks) /\ AllLocal(blocks)
  BY RunningIs DEF LocalInv
<1>5. t \in TermRecs /\ t.args = <<Last(val_stack)>>
  <2>1. Len(Top.to) = 3
    BY <1>1, <1>3 DEF FrameOK, Targets
  <2>2. Top.to[2] \in Nat /\ Top.to[3] \in Nat
    BY <1>3, <2>1 DEF FrameOK
  <2> QED
    BY <1>3, <2>2, TermsAre
<1> HIDE DEF t
<1>6. AllLocal(blocks')
  <2>1. AllLocal(Terminate(blocks, curr, t))
    BY <1>1, <1>4, <1>5, ValueLocal, BranchLocal
  <2> QED
    BY <1>1, <1>4, <2>1
<1>7. Nested(Butlast(walk))
  BY <1>4, NestedIs DEF LocalInv
<1>8. Nested(walk')
  BY <1>1, <1>2, <1>3, <1>7, NestedIs DEF LogFrames
<1>9. Last(walk') = f
  BY <1>1, <1>3 DEF Last
<1> QED
  BY <1>2, <1>6, <1>8, <1>9, NoneWait DEF StmtFrames

\* The operand of an operator whose operands span blocks begins where the
\* expression under it did.
LEMMA UnderOperator ==
  ASSUME IInv, Running, LocalInv, Top.at \in LogFrames, Butlast(walk) # <<>>
  PROVE  Nested(Butlast(walk)) /\ Last(Butlast(walk)).base = Top.base
<1>1. walk \in Seq(Frames) /\ walk # <<>> /\ Top = Last(walk)
  BY RunningIs
<1>2. Nested(Butlast(walk))
  BY <1>1, NestedIs DEF LocalInv
<1>3. /\ Len(walk) \in Nat \ {0} /\ Len(Butlast(walk)) = Len(walk) - 1
      /\ Butlast(walk) \in Seq(Frames)
      /\ \A k \in 1..Len(walk) - 1 : Butlast(walk)[k] = walk[k]
  BY <1>1, ButlastIs
<1>4. Len(Butlast(walk)) # 0
  BY <1>3
<1>5. Len(walk) - 1 \in 1..Len(walk) - 1 /\ Len(walk) - 1 + 1 = Len(walk)
  BY <1>3, <1>4
<1>6. walk[Len(walk)].base = walk[Len(walk) - 1].base
  BY <1>1, <1>5 DEF LocalInv, Nested, Last
<1> QED
  BY <1>1, <1>2, <1>3, <1>5, <1>6 DEF Last

LEMMA FinishLhsLocal ==
  ASSUME IInv, Running, LocalInv, FinishLhs
  PROVE  LocalInv'
<1> DEFINE n == Len(blocks)
           news == <<NewBlock, NewBlock>>
           bs == blocks \o news
           v == Last(val_stack)
           c == IMM(IF Top.at = "and_lhs" THEN 0 ELSE 1)
           i == Store(Top.slot, c)
           s == Emit(bs, curr, <<i>>)
           t == IF Top.at = "and_lhs" THEN BranchIfZero(v, n + 1, n + 2)
                ELSE BranchIfZero(v, n + 2, n + 1)
           f == Frame("rhs", Top.base, Top.slot, <<n + 2>>, Top.scope)
<1>1. /\ ExprDone /\ Top.at \in {"and_lhs", "or_lhs"} /\ blocks' = Terminate(s, curr, t)
      /\ walk' = Append(Pop(walk, 1), f) /\ val_stack' = Pop(val_stack, 1)
  BY DEF FinishLhs, Push
<1>2. f.at = "rhs" /\ f.base = Top.base
  BY DEF Frame
<1> HIDE DEF f
<1>3. /\ Pop(walk, 1) = Butlast(walk) /\ Butlast(walk) \in Seq(Frames) /\ Butlast(walk) # <<>>
      /\ v \in Values /\ FrameOK(Top, unclaimed, next_slot, n)
      /\ Len(Pop(val_stack, 1)) = Height - 1 /\ Top.base \in Nat /\ Height = Top.base + 1
      /\ Height \in Nat
  BY <1>1, OnValue
<1>4. /\ n \in Nat /\ walk \in Seq(Frames) /\ walk # <<>> /\ next_temp \in Nat
      /\ Top = Last(walk)
  BY RunningIs
<1>5. t \in TermRecs /\ t.args = <<v>>
  <2>1. n + 1 \in Nat /\ n + 2 \in Nat
    BY <1>4
  <2>2. CASE Top.at = "and_lhs"
    BY <1>3, <2>1, <2>2, TermsAre
  <2>3. CASE Top.at # "and_lhs"
    BY <1>3, <2>1, <2>3, TermsAre
  <2> QED
    BY <2>2, <2>3
<1> HIDE DEF t
<1>6. news \in {<<NewBlock, NewBlock>>, <<NewBlock, NewBlock, NewBlock>>}
  OBVIOUS
<1> HIDE DEF news
<1>7. /\ bs \in Seq(BlockRecs) /\ AllLocal(bs) /\ curr \in 1..Len(bs)
      /\ bs[curr] = blocks[curr]
  BY <1>6, CreatedLocal
<1>8. Local(v, bs[curr].insts, Len(bs[curr].insts))
  BY <1>1, <1>7, ValueLocal
<1> HIDE DEF bs, v
<1>9. /\ i \in InstRecs
      /\ \A k \in 1..Len(i.args) :
           Local(i.args[k], bs[curr].insts, Len(bs[curr].insts))
  <2>1. Top.slot \in Nat
    BY <1>1, <1>3 DEF FrameOK, LogFrames
  <2>2. c \in Values
    <3>1. (IF Top.at = "and_lhs" THEN 0 ELSE 1) \in Constants \cup {0, 1}
      OBVIOUS
    <3>2. c \in Imms
      BY <3>1, ValuesAre
    <3> QED
      BY <3>2 DEF Imms
  <2>3. Local(c, bs[curr].insts, Len(bs[curr].insts))
    BY DEF Local, IMM
  <2> HIDE DEF c
  <2>4. i \in InstRecs /\ i.args = <<c>>
    BY <1>4, <2>1, <2>2, InstsAre
  <2> QED
    BY <2>3, <2>4
<1> HIDE DEF i
<1>10. /\ AllLocal(s) /\ s \in Seq(BlockRecs) /\ curr \in 1..Len(s)
       /\ Local(v, s[curr].insts, Len(s[curr].insts))
  <2>1. AllLocal(s) /\ Local(v, s[curr].insts, Len(s[curr].insts))
    BY <1>7, <1>8, <1>9, EmitLocal
  <2>2. <<i>> \in Seq(InstRecs)
    BY <1>9
  <2>3. s \in Seq(BlockRecs) /\ Len(s) = Len(bs)
    BY <1>7, <2>2, EmitIs
  <2> QED
    BY <1>7, <2>1, <2>3
<1> HIDE DEF s
<1>11. AllLocal(blocks')
  BY <1>1, <1>5, <1>10, BranchLocal DEF v
<1>12. Nested(Butlast(walk)) /\ Last(Butlast(walk)).base = Top.base
  BY <1>1, <1>3, UnderOperator DEF LogFrames
<1>13. Nested(walk')
  BY <1>1, <1>2, <1>3, <1>12, NestedIs
<1>14. Last(walk') = f
  BY <1>1, <1>3 DEF Last
<1>15. Len(val_stack') \in Nat /\ Last(walk').base = Len(val_stack')
  BY <1>1, <1>2, <1>3, <1>14
<1> QED
  BY <1>11, <1>13, <1>15, NoneWait

\* Neither of the constructs is used that leave a value to wait while blocks change.
Separate == {"pending AST_LOG_OP", "bare declaration"} \cap Nodes = {}

LEMMA BeginLogOpLocal ==
  ASSUME IInv, Running, LocalInv, Separate, NEW at \in {"and_lhs", "or_lhs"}, BeginLogOp(at)
  PROVE  LocalInv'
<1> DEFINE f == Frame(at, Height, next_slot, <<>>, Top.scope)
<1>1. /\ InExpr /\ blocks' = blocks /\ val_stack' = val_stack /\ walk' = Append(walk, f)
      /\ Pending > 0 => "pending AST_LOG_OP" \in Nodes
  BY DEF BeginLogOp, Push
<1>2. f.base = Height
  BY DEF Frame
<1> HIDE DEF f
<1>3. /\ walk \in Seq(Frames) /\ walk # <<>> /\ Top = Last(walk)
      /\ Height = Len(val_stack) /\ Height \in Nat
  BY RunningIs
<1>4. Top.base \in Nat /\ Pending \in Nat /\ Pending = Height - Top.base
  BY <1>1, InExpression DEF Pending
<1>5. Pending = 0
  <2>1. ~(Pending > 0)
    BY DEF Separate, BeginLogOp
  <2> QED
    BY <1>4, <2>1
<1>6. f.base = Last(walk).base
  BY <1>2, <1>3, <1>4, <1>5
<1>7. Nested(walk')
  <2>1. Nested(walk)
    BY DEF LocalInv
  <2>2. Nested(Append(walk, f))
    BY <1>3, <1>6, <2>1, NestedIs
  <2> QED
    BY <1>1, <2>2
<1>8. Last(walk') = f
  <2>1. Len(Append(walk, f)) = Len(walk) + 1 /\ Append(walk, f)[Len(walk) + 1] = f
    BY <1>3
  <2> QED
    BY <1>1, <2>1 DEF Last
<1> QED
  BY <1>1, <1>2, <1>3, <1>7, <1>8, NoneWait DEF LocalInv

LEMMA FinishRhsLocal ==
  ASSUME IInv, Running, LocalInv, FinishRhs
  PROVE  LocalInv'
<1> DEFINE join == Top.to[1]
           v == Last(val_stack)
           x == CmpOp(next_temp, v, IMM(0))
           y == Store(Top.slot, TEMP(next_temp))
           z == Load(next_temp + 1, Top.slot)
           one == Emit(blocks, curr, <<x>>)
           two == Emit(one, curr, <<y>>)
           jump == JumpIfOpen(two, curr, join)
           w == Butlast(walk)
<1>1. /\ ExprDone /\ Top.at = "rhs"
      /\ blocks' = Emit(JumpIfOpen(Emit(blocks, curr, <<x, y>>), curr, join), join, <<z>>)
      /\ val_stack' = Append(Pop(val_stack, 1), TEMP(next_temp + 1))
      /\ walk' = Pop(walk, 1) /\ curr' = join
  BY DEF FinishRhs, Push
<1>2. /\ Pop(walk, 1) = w /\ w # <<>> /\ v \in Values
      /\ FrameOK(Top, unclaimed, next_slot, Len(blocks))
      /\ Pop(val_stack, 1) \in Seq(Values) /\ Len(Pop(val_stack, 1)) = Height - 1
      /\ Top.base \in Nat /\ Height \in Nat /\ Height = Top.base + 1
  BY <1>1, OnValue
<1>3. /\ blocks \in Seq(BlockRecs) /\ curr \in 1..Len(blocks) /\ AllLocal(blocks)
      /\ next_temp \in Nat
  BY RunningIs DEF LocalInv
<1>4. Nested(w) /\ Last(w).base = Top.base
  BY <1>1, <1>2, UnderOperator DEF LogFrames
<1>5. next_temp + 1 \in Nat
  BY <1>3
<1>6. Top.slot \in Nat /\ join \in 1..Len(blocks)
  <2>1. Len(Top.to) = 1
    BY <1>1, <1>2 DEF FrameOK, Targets
  <2>2. Top.slot \in Nat
    BY <1>1, <1>2 DEF FrameOK, LogFrames
  <2> QED
    BY <1>2, <2>1, <2>2 DEF FrameOK
<1>7. /\ x \in InstRecs /\ x.dst = next_temp /\ x.args = <<v, IMM(0)>>
      /\ y \in InstRecs /\ y.args = <<TEMP(next_temp)>>
      /\ z \in InstRecs /\ z.dst = next_temp + 1 /\ z.args = <<>>
  <2>1. TEMP(next_temp) \in Values
    BY <1>3, ValuesAre
  <2>2. IMM(0) \in Values
    BY ValuesAre DEF Imms
  <2>3. x \in InstRecs /\ x.dst = next_temp /\ x.args = <<v, IMM(0)>>
    BY <1>2, <1>3, <2>2 DEF CmpOp, Inst, InstRecs, InstTypes, NoSlot
  <2>4. y \in InstRecs /\ y.args = <<TEMP(next_temp)>>
    BY <1>3, <1>6, <2>1, InstsAre
  <2>5. z \in InstRecs /\ z.dst = next_temp + 1 /\ z.args = <<>>
    BY <1>5, <1>6 DEF Load, Inst, InstRecs, InstTypes
  <2> QED
    BY <2>3, <2>4, <2>5
<1>8. Local(v, blocks[curr].insts, Len(blocks[curr].insts))
  BY <1>1, ValueLocal
<1>9. Emit(blocks, curr, <<x, y>>) = two
  BY <1>3, <1>7, EmitTwice
<1> HIDE DEF x, y, z, v, join
<1>10. /\ AllLocal(one) /\ one \in Seq(BlockRecs) /\ Len(one) = Len(blocks)
       /\ Local(TEMP(next_temp), one[curr].insts, Len(one[curr].insts))
  <2>1. \A k \in 1..Len(x.args) :
          Local(x.args[k], blocks[curr].insts, Len(blocks[curr].insts))
    <3>1. Local(IMM(0), blocks[curr].insts, Len(blocks[curr].insts))
      BY DEF Local, IMM
    <3> QED
      BY <1>7, <1>8, <3>1
  <2>2. <<x>> \in Seq(InstRecs)
    BY <1>7
  <2>3. /\ AllLocal(one)
        /\ \A t \in Nat : t = x.dst => Local(TEMP(t), one[curr].insts, Len(one[curr].insts))
    BY <1>3, <1>7, <2>1, EmitLocal
  <2>4. one \in Seq(BlockRecs) /\ Len(one) = Len(blocks)
    BY <1>3, <2>2, EmitIs
  <2> QED
    BY <1>3, <1>7, <2>3, <2>4
<1> HIDE DEF one
<1>11. AllLocal(two) /\ two \in Seq(BlockRecs) /\ Len(two) = Len(blocks)
  <2>1. \A k \in 1..Len(y.args) : Local(y.args[k], one[curr].insts, Len(one[curr].insts))
    BY <1>7, <1>10
  <2>2. <<y>> \in Seq(InstRecs) /\ curr \in 1..Len(one)
    BY <1>3, <1>7, <1>10
  <2>3. AllLocal(two)
    BY <1>7, <1>10, <2>1, <2>2, EmitLocal
  <2>4. two \in Seq(BlockRecs) /\ Len(two) = Len(one)
    BY <1>10, <2>2, EmitIs
  <2> QED
    BY <1>10, <2>3, <2>4
<1> HIDE DEF two
<1>12. AllLocal(jump) /\ jump \in Seq(BlockRecs) /\ Len(jump) = Len(blocks)
  <2>1. curr \in 1..Len(two) /\ join \in 1..Len(two)
    BY <1>3, <1>6, <1>11
  <2> QED
    BY <1>11, <2>1, JumpLocal
<1>13. blocks' = Emit(jump, join, <<z>>)
  BY <1>1, <1>9
<1> HIDE DEF jump
<1>14. /\ AllLocal(blocks')
       /\ Local(TEMP(next_temp + 1), blocks'[join].insts, Len(blocks'[join].insts))
  <2>1. \A k \in 1..Len(z.args) : Local(z.args[k], jump[join].insts, Len(jump[join].insts))
    BY <1>7
  <2>2. join \in 1..Len(jump)
    BY <1>6, <1>12
  <2> DEFINE last == Emit(jump, join, <<z>>)
  <2>3. /\ AllLocal(last)
        /\ \A t \in Nat : t = z.dst => Local(TEMP(t), last[join].insts, Len(last[join].insts))
    BY <1>7, <1>12, <2>1, <2>2, EmitLocal
  <2>4. blocks' = last
    BY <1>13
  <2> HIDE DEF last
  <2> QED
    BY <1>5, <1>7, <2>3, <2>4
<1>15. Len(val_stack') = Height /\ val_stack'[Height] = TEMP(next_temp + 1)
  <2>1. TEMP(next_temp + 1) \in Values
    BY <1>5, ValuesAre
  <2>2. /\ Len(Append(Pop(val_stack, 1), TEMP(next_temp + 1))) = Height - 1 + 1
        /\ Append(Pop(val_stack, 1), TEMP(next_temp + 1))[Height - 1 + 1] = TEMP(next_temp + 1)
    BY <1>2, <2>1, AppendIs
  <2>3. Height - 1 + 1 = Height
    BY <1>2
  <2> QED
    BY <1>1, <2>2, <2>3
<1>16. walk' = w /\ curr' = join
  BY <1>1, <1>2
<1>17. \A k \in Last(w).base + 1..Len(val_stack') :
         Local(val_stack'[k], blocks'[join].insts, Len(blocks'[join].insts))
  <2>1. \A k \in Last(w).base + 1..Len(val_stack') : k = Height
    BY <1>2, <1>4, <1>15
  <2> QED
    BY <1>14, <1>15, <2>1
<1> QED
  BY <1>4, <1>14, <1>16, <1>17 DEF LocalInv, Top, Height

\* A node of an expression is evaluated in the block where its operands are.
LEMMA EvalLocal ==
  ASSUME IInv, Running, LocalInv, NEW n, NEW v, NEW insts, Eval(n, v, insts)
  PROVE  LocalInv'
<1> DEFINE old == blocks[curr].insts
           new == blocks'[curr].insts
<1>1. /\ InExpr /\ n \in Nat /\ n <= Pending
      /\ val_stack' = Append(SubSeq(val_stack, 1, Height - n), v)
      /\ blocks' = Emit(blocks, curr, insts)
      /\ walk' = walk /\ curr' = curr
  BY DEF Eval
<1>2. /\ Top.base \in Nat /\ Height \in Nat /\ Pending = Height - Top.base
  BY <1>1, InExpression DEF Pending
<1>3. /\ val_stack \in Seq(Values) /\ blocks \in Seq(BlockRecs) /\ curr \in 1..Len(blocks)
      /\ next_temp \in Nat /\ AllLocal(blocks)
  BY RunningIs DEF LocalInv
<1>4. n <= Height /\ Height - n \in Nat /\ Height - n >= Top.base
  BY <1>1, <1>2
<1>5. \A k \in Top.base + 1..Height : Local(val_stack[k], old, Len(old))
  BY <1>1 DEF LocalInv
<1>6. /\ SubSeq(val_stack, 1, Height - n) \in Seq(Values)
      /\ Len(SubSeq(val_stack, 1, Height - n)) = Height - n
      /\ \A k \in 1..Height - n : SubSeq(val_stack, 1, Height - n)[k] = val_stack[k]
  BY <1>1, <1>4, StackIs
<1>7. ASSUME v \in Values, AllLocal(blocks'), Local(v, new, Len(new)),
             \A u : Local(u, old, Len(old)) => Local(u, new, Len(new))
      PROVE  LocalInv'
  <2>1. /\ Len(val_stack') = Height - n + 1 /\ val_stack'[Height - n + 1] = v
        /\ \A k \in 1..Height - n : val_stack'[k] = val_stack[k]
    <3> DEFINE s == SubSeq(val_stack, 1, Height - n)
    <3>1. /\ Len(Append(s, v)) = Len(s) + 1 /\ Append(s, v)[Len(s) + 1] = v
          /\ \A k \in 1..Len(s) : Append(s, v)[k] = s[k]
      BY <1>6, <1>7, AppendIs
    <3> HIDE DEF s
    <3> QED
      BY <1>1, <1>6, <3>1 DEF s
  <2>2. ASSUME NEW k \in Top.base + 1..Len(val_stack')
        PROVE  Local(val_stack'[k], new, Len(new))
    <3>1. CASE k = Height - n + 1
      BY <1>7, <2>1, <3>1
    <3>2. CASE k # Height - n + 1
      <4>1. k \in 1..Height - n /\ k \in Top.base + 1..Height
        BY <1>1, <1>2, <1>4, <2>1, <3>2
      <4> HIDE DEF old, new
      <4> QED
        BY <1>5, <1>7, <2>1, <4>1
    <3> QED
      BY <3>1, <3>2
  <2>3. Nested(walk') /\ Top' = Top
    BY <1>1 DEF LocalInv, Top
  <2> QED
    BY <1>1, <1>7, <2>2, <2>3 DEF LocalInv, Height
<1>8. CASE v \in Imms /\ insts = <<>> /\ n = 0
  <2>1. blocks' = blocks
    BY <1>1, <1>3, <1>8, EmitNothing
  <2>2. v \in Values /\ v.kind # "IRVAL_TEMP"
    BY <1>8, ValuesAre DEF Imms
  <2>3. Local(v, new, Len(new))
    BY <2>2 DEF Local
  <2> QED
    BY <1>3, <1>7, <2>1, <2>2, <2>3
<1>9. CASE /\ v = TEMP(next_temp) /\ insts \in Seq(InstRecs) /\ Len(insts) = 1
           /\ Computes(insts[1], n)
  <2> DEFINE i == insts[1]
             next == Emit(blocks, curr, <<i>>)
  <2>1. insts = <<i>>
    BY <1>9
  <2>2. /\ i \in InstRecs /\ i.dst = next_temp /\ n <= Len(i.args)
        /\ \A k \in 1..Len(i.args) :
             i.args[k] = IF k <= Len(i.args) - n THEN IMM(0)
                         ELSE val_stack[Height - Len(i.args) + k]
    BY <1>9 DEF Computes
  <2> HIDE DEF i
  <2>3. Len(i.args) \in Nat
    BY <2>2 DEF InstRecs
  <2>4. ASSUME NEW k \in 1..Len(i.args) PROVE Local(i.args[k], old, Len(old))
    <3>1. CASE k <= Len(i.args) - n
      <4>1. i.args[k] = IMM(0)
        BY <2>2, <3>1
      <4> QED
        BY <4>1 DEF Local, IMM
    <3>2. CASE ~(k <= Len(i.args) - n)
      <4>1. i.args[k] = val_stack[Height - Len(i.args) + k]
        BY <2>2, <3>2
      <4>2. Height - Len(i.args) + k \in Height - n + 1..Height
        BY <1>1, <1>2, <2>3, <3>2, PlaceOf, Zenon
      <4>3. Height - n + 1..Height \subseteq Top.base + 1..Height
        BY <1>1, <1>2, <1>4
      <4> HIDE DEF old
      <4> QED
        BY <1>5, <4>1, <4>2, <4>3
    <3> QED
      BY <3>1, <3>2
  <2>5. /\ AllLocal(next)
        /\ \A u : Local(u, old, Len(old)) => Local(u, next[curr].insts, Len(next[curr].insts))
        /\ \A t \in Nat : t = i.dst => Local(TEMP(t), next[curr].insts, Len(next[curr].insts))
    BY <1>3, <2>2, <2>4, EmitLocal
  <2>6. blocks' = next
    BY <1>1, <2>1
  <2> HIDE DEF next, old
  <2>7. v \in Values
    BY <1>3, <1>9, ValuesAre
  <2>8. Local(v, new, Len(new))
    BY <1>3, <1>9, <2>2, <2>5, <2>6
  <2>9. AllLocal(blocks') /\ \A u : Local(u, old, Len(old)) => Local(u, new, Len(new))
    BY <2>5, <2>6
  <2> QED
    BY <1>7, <2>7, <2>8, <2>9
<1> QED
  BY <1>8, <1>9, <1>1, Zenon DEF Eval

LEMMA CallStmtLocal ==
  ASSUME IInv, Running, LocalInv, CallStmt
  PROVE  LocalInv'
<1> DEFINE n == Operands
           i == Call(next_temp, Popped(n))
           old == blocks[curr].insts
<1>1. /\ InExpr /\ Pending = n /\ blocks' = Emit(blocks, curr, <<i>>)
      /\ walk' = Pop(walk, 1) /\ Top.at \in HeadFrames
  BY DEF CallStmt, HeadFrames
<1>2. Top.base \in Nat /\ Height \in Nat /\ Pending = Height - Top.base /\ n \in Nat
  BY <1>1, InExpression DEF Pending
<1>3. /\ walk \in Seq(Frames) /\ walk # <<>> /\ blocks \in Seq(BlockRecs)
      /\ curr \in 1..Len(blocks) /\ next_temp \in Nat /\ AllLocal(blocks)
  BY RunningIs DEF LocalInv
<1>4. n <= Height /\ Height - n = Top.base
  BY <1>1, <1>2
<1>5. /\ Popped(n) \in Seq(Values) /\ Len(Popped(n)) = n
      /\ \A k \in 1..n : Popped(n)[k] = val_stack[Height - n + k]
  BY <1>2, <1>4, StackIs
<1> HIDE DEF n
<1>6. i \in InstRecs /\ i.args = Popped(n)
  BY <1>3, <1>5 DEF Call, Inst, InstRecs, InstTypes
<1> HIDE DEF i
<1>7. \A k \in Top.base + 1..Height : Local(val_stack[k], old, Len(old))
  BY <1>1 DEF LocalInv
<1>8. ASSUME NEW k \in 1..Len(i.args) PROVE Local(i.args[k], old, Len(old))
  <2>1. k \in 1..n
    BY <1>5, <1>6
  <2>2. Height - n + k \in Top.base + 1..Height
    BY <1>2, <1>4, <2>1
  <2>3. i.args[k] = val_stack[Height - n + k]
    BY <1>5, <1>6, <2>1
  <2> HIDE DEF old
  <2> QED
    BY <1>7, <2>2, <2>3
<1>9. AllLocal(blocks')
  BY <1>1, <1>3, <1>6, <1>8, EmitLocal
<1>10. Pop(walk, 1) = Butlast(walk) /\ Last(Butlast(walk)).at \in StmtFrames
  BY <1>1, OnHead
<1>11. Nested(Butlast(walk))
  BY <1>3, NestedIs DEF LocalInv
<1> QED
  BY <1>1, <1>9, <1>10, <1>11, NoneWait

\* The entry of a function stores each parameter next to where it fetches it.
LEMMA EntryLocal == AllLocal(Entry)
<1> DEFINE p == Params(NumParams)
<1>1. /\ NumParams \in Nat /\ Len(p) = 2 * NumParams
      /\ \A i \in 1..2 * NumParams :
           \/ \E q \in 0..NumParams - 1 : i = 2 * q + 1 /\ p[i] = ArgInst(q)
           \/ \E q \in 0..NumParams - 1 : i = 2 * q + 2 /\ p[i] = Store(q, TEMP(q))
  BY Bounds, ParamsAre
<1>2. Len(Entry) = 1 /\ Entry[1].insts = p /\ Entry[1].term = Undefined
  BY EntryIs
<1> HIDE DEF p
<1>3. ASSUME NEW i \in 1..2 * NumParams, NEW k \in 1..Len(p[i].args)
      PROVE  Local(p[i].args[k], p, i - 1)
  <2>1. ASSUME NEW q \in 0..NumParams - 1, p[i] = ArgInst(q) PROVE FALSE
    <3>1. Len(p[i].args) = 0
      BY <2>1 DEF ArgInst, Inst
    <3> QED
      BY <3>1
  <2>2. ASSUME NEW q \in 0..NumParams - 1, i = 2 * q + 2, p[i] = Store(q, TEMP(q))
        PROVE  Local(p[i].args[k], p, i - 1)
    <3>1. p[i].args[k] = TEMP(q)
      BY <2>2 DEF Store, Inst
    <3>2. i - 1 \in 1..2 * NumParams /\ i - 1 = 2 * q + 1 /\ i - 1 \in 1..i - 1
      BY <1>1, <2>2
    <3>3. ASSUME NEW r \in 0..NumParams - 1, i - 1 = 2 * r + 1, p[i - 1] = ArgInst(r)
          PROVE  p[i - 1].dst = q
      <4>1. r = q
        BY <3>2, <3>3
      <4> QED
        BY <3>3, <4>1 DEF ArgInst, Inst
    <3>4. ASSUME NEW r \in 0..NumParams - 1, i - 1 = 2 * r + 2 PROVE FALSE
      BY <3>2, <3>4
    <3>5. p[i - 1].dst = q
      BY <1>1, <3>2, <3>3, <3>4
    <3> QED
      BY <3>1, <3>2, <3>5 DEF Local, TEMP
  <2> QED
    BY <1>1, <2>1, <2>2
<1>4. Len(Entry[1].term.args) = 0
  BY <1>2 DEF Undefined
<1>5. BlockLocal(Entry[1])
  BY <1>1, <1>2, <1>3, <1>4 DEF BlockLocal
<1> QED
  BY <1>2, <1>5 DEF AllLocal

LEMMA FirstLocal ==
  ASSUME NEW h \in Nat
  PROVE  Nested(<<FirstFrame(h)>>) /\ Last(<<FirstFrame(h)>>).at \in StmtFrames
<1>1. Len(<<FirstFrame(h)>>) = 1
  OBVIOUS
<1> QED
  BY <1>1, FirstWalk DEF Nested, StmtFrames

LEMMA StepLocal ==
  ASSUME IInv, LocalInv, Separate, [Next]_vars
  PROVE  LocalInv'
<1>1. CASE UNCHANGED vars
  BY <1>1 DEF vars, LocalInv, InExpr, Running, Top, Height
<1>2. CASE Running /\ ~UNCHANGED vars
  <2>1. ~BeginFunction
    BY <1>2 DEF BeginFunction
  <2>2. ~BareVarDec
    BY DEF BareVarDec, Separate
  <2> QED
    BY <1>2, <2>1, <2>2, StepIs, EvalLocal, BeginLogOpLocal, FinishLhsLocal, FinishRhsLocal,
       BeginsLocal, EndsLocal, BareLocal, CallStmtLocal, IfLocal, ListsLocal, BeginWhileLocal,
       WhileBodyLocal, Zenon
<1>3. CASE ~Running /\ ~UNCHANGED vars
  <2>1. BeginFunction
    BY <1>3, NotRunning
  <2>2. blocks' = Entry /\ walk' = <<FirstFrame(Height)>>
    BY <2>1 DEF BeginFunction, Entry, FirstFrame
  <2>3. Height \in Nat
    BY ShapeIs
  <2> QED
    BY <2>2, <2>3, EntryLocal, FirstLocal, NoneWait
<1> QED
  BY <1>1, <1>2, <1>3

LEMMA LocalUses ==
  ASSUME IInv, LocalInv
  PROVE  UsesAreLocal
<1>1. BlocksOK(blocks, next_temp, next_slot) /\ AllLocal(blocks)
  BY ShapeIs DEF LocalInv
<1>2. ASSUME NEW b \in 1..Len(blocks)
      PROVE  /\ \A i \in Insts(b) : ReadsOnly(InstAt(b, i).args, b, i - 1)
             /\ ReadsOnly(blocks[b].term.args, b, Len(blocks[b].insts))
  <2>1. /\ blocks[b].insts \in Seq(InstRecs) /\ blocks[b].term \in TermRecs
    BY <1>1, BlockParts
  <2>2. BlockLocal(blocks[b])
    BY <1>1 DEF AllLocal
  <2>3. Insts(b) = 1..Len(blocks[b].insts)
    BY <2>1 DEF Insts
  <2>4. ASSUME NEW i \in 1..Len(blocks[b].insts)
        PROVE  ReadsOnly(InstAt(b, i).args, b, i - 1)
    <3>1. blocks[b].insts[i] \in InstRecs
      BY <2>1
    <3>2. blocks[b].insts[i].args \in Seq(Values)
      BY <3>1 DEF InstRecs
    <3>3. DOMAIN (blocks[b].insts[i].args) = 1..Len(blocks[b].insts[i].args)
      BY <3>2
    <3>4. \A k \in 1..Len(blocks[b].insts[i].args) :
            Local(blocks[b].insts[i].args[k], blocks[b].insts, i - 1)
      BY <2>2 DEF BlockLocal
    <3> QED
      BY <3>3, <3>4 DEF ReadsOnly, DefinedIn, InstAt, Local
  <2>5. ReadsOnly(blocks[b].term.args, b, Len(blocks[b].insts))
    <3>1. blocks[b].term.args \in Seq(Values)
      BY <2>1 DEF TermRecs
    <3>2. DOMAIN (blocks[b].term.args) = 1..Len(blocks[b].term.args)
      BY <3>1
    <3>3. \A k \in 1..Len(blocks[b].term.args) :
            Local(blocks[b].term.args[k], blocks[b].insts, Len(blocks[b].insts))
      BY <2>2 DEF BlockLocal
    <3> QED
      BY <3>2, <3>3 DEF ReadsOnly, DefinedIn, InstAt, Local
  <2> QED
    BY <2>3, <2>4, <2>5
<1> QED
  BY <1>2 DEF UsesAreLocal, BlockIds

\* Every temp is read in the block that defines it, after its definition, in
\* programs without a short-circuit operator that other values wait for and
\* without a declaration that takes what an earlier statement has left.
THEOREM UsesStayInTheirBlock ==
  ASSUME "pending AST_LOG_OP" \notin Nodes, "bare declaration" \notin Nodes
  PROVE  Spec => []UsesAreLocal
<1>1. Separate
  BY DEF Separate
<1>2. Init => LocalInv
  <2> SUFFICES ASSUME Init PROVE LocalInv
    OBVIOUS
  <2>1. blocks = Entry /\ walk = <<FirstFrame(0)>>
    BY DEF Init, Entry, FirstFrame
  <2>2. Nested(walk) /\ Last(walk).at \in StmtFrames
    BY <2>1, FirstLocal
  <2> QED
    BY <2>1, <2>2, EntryLocal DEF LocalInv, InExpr, Top
<1>3. IInv /\ LocalInv /\ [Next]_vars => LocalInv'
  BY <1>1, StepLocal
<1>4. IInv /\ LocalInv => UsesAreLocal
  BY LocalUses
<1> QED
  BY <1>2, <1>3, <1>4, InductiveInvariant, PTL DEF Spec
-----------------------------------------------------------------------------
\* One of the first n instructions stores into slot s; one of them all does.
StoredIn(insts, n, s) ==
  \E i \in 1..n : insts[i].type = "IR_STORE" /\ insts[i].slot = s
Writes(insts, s) == StoredIn(insts, Len(insts), s)

\* What they load from s they have stored there before.
LoadsFine(insts, s) ==
  \A i \in 1..Len(insts) :
    insts[i].type = "IR_LOAD" /\ insts[i].slot = s => StoredIn(insts, i - 1, s)

BlockFine(blk, C, s) ==
  LoadsFine(blk.insts, s) /\ (Writes(blk.insts, s) \/ To(blk) \subseteq C)

\* Blocks among which are all that are reached without a store into s.
Fine(s, C, bs) == C \subseteq 1..Len(bs) /\ 1 \in C /\ \A b \in C : BlockFine(bs[b], C, s)

\* The slots that may be read under a frame.
Known(f, asg) == f.scope \cap asg

Here(s, C, bs, c, f, asg) ==
  /\ s \in Known(f, asg) /\ c \in C => Writes(bs[c].insts, s)
  /\ "AST_ASSN" \in Nodes /\ s \in f.scope => s \in asg

\* Frame g is next above f: what is in sight there is in sight here.
Inside(f, g) ==
  /\ f.scope \subseteq g.scope
  /\ g.at \notin StmtFrames => g.scope = f.scope
  /\ g.at = "assn" => g.slot \in g.scope /\ "AST_ASSN" \in Nodes

\* The blocks it waits with are reached without a store unless under f the slot
\* may be read: then whatever leads to them has stored into it.
Awaits(f, g, asg, s, C) ==
  \A k \in 1..Len(g.to) :
    g.to[k] \in C <=> ~(s \in Known(f, asg) \/ (g.at = "rhs" /\ s = g.slot))

Links(s, C, w, asg) ==
  \A k \in 1..Len(w) - 1 : Inside(w[k], w[k + 1]) /\ Awaits(w[k], w[k + 1], asg, s, C)

Path(s, C, bs, c, w, asg) ==
  /\ Fine(s, C, bs)
  /\ w # <<>> => Here(s, C, bs, c, Last(w), asg)
  /\ Links(s, C, w, asg)

Paths == \A s \in Nat : \E C : Path(s, C, blocks, curr, walk, assigned)

\* Each declaration assigns the variable, or nothing else does.
Initialises == ~({"bare declaration", "AST_ASSN"} \subseteq Nodes)
-----------------------------------------------------------------------------
\* Instructions are appended.
LEMMA AppendedLoads ==
  ASSUME NEW a \in Seq(InstRecs), NEW b \in Seq(InstRecs), NEW s
  PROVE  LET c == a \o b IN
         /\ Writes(a, s) => Writes(c, s)
         /\ Writes(b, s) => Writes(c, s)
         /\ LoadsFine(a, s) /\ (Writes(a, s) \/ LoadsFine(b, s)) => LoadsFine(c, s)
<1> DEFINE c == a \o b
           m == Len(a)
           n == Len(b)
<1>1. /\ m \in Nat /\ n \in Nat /\ Len(c) = m + n
      /\ \A i \in 1..m : c[i] = a[i]
      /\ \A i \in 1..n : c[m + i] = b[i]
  BY ConcatIs
<1> HIDE DEF c, m, n
<1>2. ASSUME NEW k \in 0..m, StoredIn(a, k, s), NEW j \in Int, k <= j
      PROVE  StoredIn(c, j, s)
  <2>1. PICK i \in 1..k : a[i].type = "IR_STORE" /\ a[i].slot = s
    BY <1>2 DEF StoredIn
  <2>2. i \in 1..j /\ c[i] = a[i]
    BY <1>1, <1>2
  <2> QED
    BY <2>1, <2>2 DEF StoredIn
<1>3. ASSUME NEW k \in 0..n, StoredIn(b, k, s)
      PROVE  StoredIn(c, m + k, s)
  <2>1. PICK i \in 1..k : b[i].type = "IR_STORE" /\ b[i].slot = s
    BY <1>3 DEF StoredIn
  <2>2. m + i \in 1..m + k /\ c[m + i] = b[i]
    BY <1>1
  <2> QED
    BY <2>1, <2>2 DEF StoredIn
<1>4. Writes(a, s) => Writes(c, s)
  <2>1. m \in 0..m /\ Len(c) \in Int /\ m <= Len(c)
    BY <1>1
  <2> QED
    BY <1>2, <2>1 DEF Writes, m
<1>5. Writes(b, s) => Writes(c, s)
  <2>1. n \in 0..n /\ Len(c) = m + n
    BY <1>1
  <2> QED
    BY <1>3, <2>1 DEF Writes, n
<1>6. ASSUME LoadsFine(a, s), Writes(a, s) \/ LoadsFine(b, s)
      PROVE  LoadsFine(c, s)
  <2> SUFFICES ASSUME NEW i \in 1..Len(c), c[i].type = "IR_LOAD", c[i].slot = s
               PROVE  StoredIn(c, i - 1, s)
    BY DEF LoadsFine
  <2>1. CASE i <= m
    <3>1. i \in 1..m /\ c[i] = a[i] /\ i - 1 \in 0..m /\ i - 1 \in Int
      BY <1>1, <2>1
    <3>2. StoredIn(a, i - 1, s)
      BY <1>6, <3>1 DEF LoadsFine, m
    <3> QED
      BY <1>2, <3>1, <3>2
  <2>2. CASE i > m /\ Writes(a, s)
    <3>1. m \in 0..m /\ i - 1 \in Int /\ m <= i - 1
      BY <1>1, <2>2
    <3> QED
      BY <1>2, <2>2, <3>1 DEF Writes, m
  <2>3. CASE i > m /\ LoadsFine(b, s)
    <3> DEFINE j == i - m
    <3>1. j \in 1..n /\ m + j = i /\ j - 1 \in 0..n /\ m + (j - 1) = i - 1
      BY <1>1, <2>3
    <3> HIDE DEF j
    <3>2. c[i] = b[j]
      BY <1>1, <3>1
    <3>3. StoredIn(b, j - 1, s)
      BY <2>3, <3>1, <3>2 DEF LoadsFine, n
    <3>4. StoredIn(c, m + (j - 1), s)
      BY <1>3, <3>1, <3>3
    <3> QED
      BY <3>1, <3>4
  <2>4. i <= m \/ i > m
    BY <1>1
  <2> QED
    BY <1>6, <2>1, <2>2, <2>3, <2>4
<1> QED
  BY <1>4, <1>5, <1>6 DEF c

\* What the generator appends.
LEMMA LoadsOf ==
  ASSUME NEW s \in Nat, NEW x \in Nat, NEW v \in Values, NEW w \in Values, NEW t \in Nat
  PROVE  /\ LoadsFine(<<>>, s) /\ ~Writes(<<>>, s)
         /\ \A i \in InstRecs : i.type # "IR_LOAD" \/ i.slot # s => LoadsFine(<<i>>, s)
         /\ <<Store(x, v)>> \in Seq(InstRecs) /\ LoadsFine(<<Store(x, v)>>, s)
         /\ x = s => Writes(<<Store(x, v)>>, s)
         /\ <<CmpOp(t, w, IMM(0)), Store(x, v)>> \in Seq(InstRecs)
         /\ LoadsFine(<<CmpOp(t, w, IMM(0)), Store(x, v)>>, s)
         /\ x = s => Writes(<<CmpOp(t, w, IMM(0)), Store(x, v)>>, s)
<1>1. LoadsFine(<<>>, s) /\ ~Writes(<<>>, s)
  <2>1. Len(<<>>) = 0
    OBVIOUS
  <2> QED
    BY <2>1 DEF LoadsFine, Writes, StoredIn
<1>2. ASSUME NEW i \in InstRecs, i.type # "IR_LOAD" \/ i.slot # s PROVE LoadsFine(<<i>>, s)
  <2>1. Len(<<i>>) = 1 /\ <<i>>[1] = i
    OBVIOUS
  <2> QED
    BY <1>2, <2>1 DEF LoadsFine
<1> DEFINE a == Store(x, v)
           b == CmpOp(t, w, IMM(0))
<1>3. a \in InstRecs /\ a.type = "IR_STORE" /\ a.slot = x
  BY InstsAre
<1>4. b \in InstRecs /\ b.type = "IR_CMPOP"
  BY InstsAre
<1> HIDE DEF a, b
<1>5. /\ Len(<<a>>) = 1 /\ <<a>>[1] = a /\ Len(<<b, a>>) = 2 /\ <<b, a>>[1] = b
      /\ <<b, a>>[2] = a /\ <<a>> \in Seq(InstRecs) /\ <<b, a>> \in Seq(InstRecs)
  BY <1>3, <1>4
<1>6. LoadsFine(<<a>>, s)
  BY <1>2, <1>3
<1>7. x = s => Writes(<<a>>, s)
  BY <1>3, <1>5 DEF Writes, StoredIn
<1>8. LoadsFine(<<b, a>>, s)
  <2>1. \A i \in 1..2 : <<b, a>>[i].type # "IR_LOAD"
    BY <1>3, <1>4, <1>5
  <2> QED
    BY <1>5, <2>1 DEF LoadsFine
<1>9. x = s => Writes(<<b, a>>, s)
  <2>1. 2 \in 1..2
    OBVIOUS
  <2> QED
    BY <1>3, <1>5, <2>1 DEF Writes, StoredIn
<1> QED
  BY <1>1, <1>2, <1>5, <1>6, <1>7, <1>8, <1>9 DEF a, b
\* Something is appended to block c,
LEMMA FineEmit ==
  ASSUME NEW bs \in Seq(BlockRecs), NEW c \in 1..Len(bs), NEW insts \in Seq(InstRecs),
         NEW s, NEW C, Fine(s, C, bs), c \in C => Writes(bs[c].insts, s) \/ LoadsFine(insts, s)
  PROVE  LET new == Emit(bs, c, insts) IN
         /\ Fine(s, C, new)
         /\ Writes(bs[c].insts, s) \/ Writes(insts, s) => Writes(new[c].insts, s)
<1> DEFINE new == Emit(bs, c, insts)
<1>1. /\ Len(new) = Len(bs) /\ new[c].insts = bs[c].insts \o insts
      /\ \A b \in 1..Len(bs) : new[b].term = bs[b].term
      /\ \A b \in 1..Len(bs) : b # c => new[b] = bs[b]
  <2>1. bs \in Seq(BlockRecs) /\ c \in 1..Len(bs) /\ insts \in Seq(InstRecs)
    OBVIOUS
  <2> QED
    BY ONLY <2>1, EmitIs
<1> HIDE DEF new
<1>2. bs[c].insts \in Seq(InstRecs)
  <2>1. bs[c] \in BlockRecs
    OBVIOUS
  <2> QED
    BY <2>1 DEF BlockRecs
<1>3. /\ Writes(bs[c].insts, s) \/ Writes(insts, s) => Writes(new[c].insts, s)
      /\ LoadsFine(bs[c].insts, s) /\ (Writes(bs[c].insts, s) \/ LoadsFine(insts, s))
           => LoadsFine(new[c].insts, s)
  BY <1>1, <1>2, AppendedLoads
<1>4. ASSUME NEW b \in C PROVE BlockFine(new[b], C, s)
  <2>1. b \in 1..Len(bs) /\ BlockFine(bs[b], C, s)
    BY DEF Fine
  <2>2. CASE b # c
    BY <1>1, <2>1, <2>2
  <2>3. CASE b = c
    <3>1. To(new[b]) = To(bs[b])
      BY <1>1, <2>1 DEF To
    <3> QED
      BY <1>3, <2>1, <2>3, <3>1 DEF BlockFine
  <2> QED
    BY <2>2, <2>3
<1> QED
  BY <1>1, <1>3, <1>4 DEF Fine, new

\* it ends in a return,
LEMMA FineHalt ==
  ASSUME NEW bs \in Seq(BlockRecs), NEW c \in 1..Len(bs), NEW t \in TermRecs, t.to = <<>>,
         NEW s, NEW C, Fine(s, C, bs)
  PROVE  LET new == Terminate(bs, c, t) IN
         Fine(s, C, new) /\ new[c].insts = bs[c].insts
<1> DEFINE new == Terminate(bs, c, t)
<1>1. /\ Len(new) = Len(bs) /\ new[c].term = t
      /\ \A b \in 1..Len(bs) : new[b].insts = bs[b].insts /\ (b # c => new[b] = bs[b])
  BY TerminateIs
<1> HIDE DEF new
<1>2. ASSUME NEW b \in C PROVE BlockFine(new[b], C, s)
  <2>1. b \in 1..Len(bs) /\ BlockFine(bs[b], C, s)
    BY DEF Fine
  <2>2. CASE b # c
    BY <1>1, <2>1, <2>2
  <2>3. CASE b = c
    <3>1. To(new[b]) = {}
      BY <1>1, <2>3, ToIs
    <3>2. new[b].insts = bs[b].insts
      BY <1>1, <2>1
    <3> QED
      BY <2>1, <3>1, <3>2 DEF BlockFine
  <2> QED
    BY <2>2, <2>3
<1> QED
  BY <1>1, <1>2 DEF Fine, new

\* or control passes to another, of blocks T.
LEMMA FinePass ==
  ASSUME NEW T, Passes(T), NEW s \in Nat, NEW C, NEW D, Fine(s, C, blocks),
         C \subseteq D, D \subseteq C \cup (Len(blocks) + 1..Len(blocks')),
         curr \in C => /\ LoadsFine(blocks'[curr].insts, s)
                       /\ Writes(blocks'[curr].insts, s) \/ T \subseteq D,
         curr' \in D => LoadsFine(blocks'[curr'].insts, s)
  PROVE  Fine(s, D, blocks')
<1>1. /\ Len(blocks) \in Nat /\ Len(blocks') \in Nat /\ Len(blocks') >= Len(blocks)
      /\ curr \in 1..Len(blocks) /\ curr # curr'
      /\ \A b \in 1..Len(blocks) : b # curr /\ b # curr' => blocks'[b] = blocks[b]
      /\ \A b \in Len(blocks) + 1..Len(blocks') : blocks'[b] = NewBlock
      /\ Leads(blocks'[curr], T) \/ blocks'[curr].term = blocks[curr].term
      /\ Leads(blocks[curr], {}) /\ blocks'[curr'].term.to = <<>>
  BY DEF Passes
<1>2. /\ C \subseteq 1..Len(blocks) /\ 1 \in C
      /\ \A b \in C : LoadsFine(blocks[b].insts, s)
                      /\ (Writes(blocks[b].insts, s) \/ To(blocks[b]) \subseteq C)
  BY DEF Fine, BlockFine
<1>3. ASSUME NEW b \in D PROVE BlockFine(blocks'[b], D, s)
  <2>1. CASE b = curr
    <3>1. curr \in C
      BY <1>1, <2>1
    <3>2. To(blocks'[curr]) = T \/ To(blocks'[curr]) = {}
      BY <1>1 DEF Leads, To
    <3> QED
      BY <2>1, <3>1, <3>2 DEF BlockFine
  <2>2. CASE b = curr'
    <3>1. To(blocks'[curr']) = {}
      BY <1>1, ToIs
    <3> QED
      BY <2>2, <3>1 DEF BlockFine
  <2>3. CASE b # curr /\ b # curr' /\ b \in C
    <3>1. blocks'[b] = blocks[b]
      BY <1>1, <1>2, <2>3
    <3> QED
      BY <1>2, <2>3, <3>1 DEF BlockFine
  <2>4. CASE b \in Len(blocks) + 1..Len(blocks')
    <3>1. blocks'[b] = NewBlock /\ NewBlock.insts = <<>>
      BY <1>1, <2>4, NewBlockIs
    <3>2. To(NewBlock) = {}
      BY ToIs
    <3>3. LoadsFine(<<>>, s)
      BY DEF LoadsFine
    <3> QED
      BY <3>1, <3>2, <3>3 DEF BlockFine
  <2> QED
    BY <2>1, <2>2, <2>3, <2>4
<1>4. D \subseteq 1..Len(blocks') /\ 1 \in D
  BY <1>1, <1>2
<1> QED
  BY <1>3, <1>4 DEF Fine
-----------------------------------------------------------------------------
\* A frame goes or comes.
LEMMA LinksPop ==
  ASSUME NEW s, NEW C, NEW asg, NEW w \in Seq(Frames), w # <<>>, Links(s, C, w, asg)
  PROVE  /\ Links(s, C, Butlast(w), asg)
         /\ Butlast(w) # <<>> => /\ Inside(Last(Butlast(w)), Last(w))
                                 /\ Awaits(Last(Butlast(w)), Last(w), asg, s, C)
<1> DEFINE v == Butlast(w)
<1>1. /\ v \in Seq(Frames) /\ Len(w) \in Nat \ {0} /\ Len(v) = Len(w) - 1
      /\ \A k \in 1..Len(w) - 1 : v[k] = w[k]
  BY ButlastIs
<1> HIDE DEF v
<1>2. Links(s, C, v, asg)
  <2> SUFFICES ASSUME NEW k \in 1..Len(v) - 1
               PROVE  Inside(v[k], v[k + 1]) /\ Awaits(v[k], v[k + 1], asg, s, C)
    BY DEF Links
  <2>1. k \in 1..Len(w) - 1 /\ k + 1 \in 1..Len(w) - 1
    BY <1>1
  <2> QED
    BY <1>1, <2>1 DEF Links
<1>3. ASSUME v # <<>>
      PROVE  Inside(Last(v), Last(w)) /\ Awaits(Last(v), Last(w), asg, s, C)
  <2> DEFINE k == Len(w) - 1
  <2>1. k \in 1..Len(w) - 1 /\ k = Len(v) /\ k + 1 = Len(w)
    BY <1>1, <1>3
  <2>2. v[k] = w[k]
    BY <1>1, <2>1
  <2>3. Inside(w[k], w[k + 1]) /\ Awaits(w[k], w[k + 1], asg, s, C)
    BY <2>1 DEF Links
  <2> QED
    BY <2>1, <2>2, <2>3 DEF Last
<1> QED
  BY <1>2, <1>3 DEF v

LEMMA LinksPush ==
  ASSUME NEW s, NEW C, NEW asg, NEW w \in Seq(Frames), NEW f \in Frames, Links(s, C, w, asg),
         w # <<>> => Inside(Last(w), f) /\ Awaits(Last(w), f, asg, s, C)
  PROVE  Links(s, C, Append(w, f), asg)
<1> DEFINE v == Append(w, f)
<1>1. /\ Len(w) \in Nat /\ Len(v) = Len(w) + 1 /\ v[Len(w) + 1] = f
      /\ \A k \in 1..Len(w) : v[k] = w[k]
  BY AppendIs
<1> HIDE DEF v
<1> SUFFICES ASSUME NEW k \in 1..Len(v) - 1
             PROVE  Inside(v[k], v[k + 1]) /\ Awaits(v[k], v[k + 1], asg, s, C)
  BY DEF Links, v
<1>2. CASE k = Len(w)
  <2>1. w # <<>> /\ v[k] = Last(w) /\ v[k + 1] = f
    BY <1>1, <1>2 DEF Last
  <2> QED
    BY <2>1
<1>3. CASE k # Len(w)
  <2>1. k \in 1..Len(w) - 1 /\ k + 1 \in 1..Len(w) /\ k \in 1..Len(w)
    BY <1>1, <1>3
  <2> QED
    BY <1>1, <2>1 DEF Links
<1> QED
  BY <1>2, <1>3

\* More blocks and more assigned variables, if they are nothing to the frames.
LEMMA LinksSame ==
  ASSUME NEW s, NEW C, NEW asg, NEW u, NEW slots, NEW n, NEW w, WalkOK(w, u, slots, n),
         Links(s, C, w, asg), NEW D, \A b \in 1..n : b \in D <=> b \in C,
         NEW asg2, s \notin 0..slots - 1 \/ (s \in asg2 <=> s \in asg)
  PROVE  Links(s, D, w, asg2)
<1> SUFFICES ASSUME NEW k \in 1..Len(w) - 1
             PROVE  Inside(w[k], w[k + 1]) /\ Awaits(w[k], w[k + 1], asg2, s, D)
  BY DEF Links
<1>1. w \in Seq(Frames) /\ Len(w) \in Nat /\ k \in 1..Len(w) /\ k + 1 \in 1..Len(w)
  BY DEF WalkOK
<1>2. FrameOK(w[k], u, slots, n) /\ FrameOK(w[k + 1], u, slots, n)
  BY <1>1 DEF WalkOK
<1>3. s \in Known(w[k], asg2) <=> s \in Known(w[k], asg)
  BY <1>2 DEF FrameOK, Known
<1>4. \A l \in 1..Len(w[k + 1].to) : w[k + 1].to[l] \in D <=> w[k + 1].to[l] \in C
  BY <1>2 DEF FrameOK
<1>5. Inside(w[k], w[k + 1]) /\ Awaits(w[k], w[k + 1], asg, s, C)
  BY DEF Links
<1>6. Awaits(w[k], w[k + 1], asg2, s, D)
  BY <1>3, <1>4, <1>5 DEF Awaits
<1> QED
  BY <1>5, <1>6

\* A variable comes into sight in the innermost list of statements.
LEMMA LinksDeclare ==
  ASSUME NEW s, NEW C, NEW asg, NEW w \in Seq(Frames), w # <<>>, Last(w).at \in StmtFrames,
         Links(s, C, w, asg), NEW x \in Nat
  PROVE  LET v == Declare(w, x) IN
         /\ Links(s, C, v, asg)
         /\ v # <<>> /\ Last(v).scope = Last(w).scope \cup {x}
<1> DEFINE v == Declare(w, x)
           n == Len(w)
<1>1. n \in Nat /\ n >= 1 /\ w[n] \in Frames /\ Last(w) = w[n]
  BY DEF Last
<1>2. /\ Len(v) = n /\ \A k \in 1..n - 1 : v[k] = w[k]
      /\ v[n].scope = w[n].scope \cup {x} /\ v[n].at = w[n].at /\ v[n].to = w[n].to
      /\ v[n].slot = w[n].slot
  BY <1>1 DEF Declare, Frames
<1>3. v # <<>> /\ Last(v) = v[n]
  BY <1>1, <1>2 DEF Last
<1> HIDE DEF v, n
<1>4. ASSUME NEW k \in 1..n - 1
      PROVE  Inside(v[k], v[k + 1]) /\ Awaits(v[k], v[k + 1], asg, s, C)
  <2>1. Inside(w[k], w[k + 1]) /\ Awaits(w[k], w[k + 1], asg, s, C) /\ v[k] = w[k]
    BY <1>2 DEF Links, n
  <2>2. CASE k + 1 = n
    <3>1. Inside(w[k], v[n])
      BY <1>1, <1>2, <2>1, <2>2 DEF Inside, StmtFrames
    <3>2. Awaits(w[k], v[n], asg, s, C)
      BY <1>2, <2>1, <2>2 DEF Awaits
    <3> QED
      BY <2>1, <2>2, <3>1, <3>2
  <2>3. CASE k + 1 # n
    <3>1. k + 1 \in 1..n - 1
      BY <1>1, <2>3
    <3> QED
      BY <1>2, <2>1, <3>1
  <2> QED
    BY <2>2, <2>3
<1>5. Links(s, C, v, asg)
  BY <1>2, <1>4 DEF Links
<1> QED
  BY <1>1, <1>2, <1>3, <1>5 DEF v
-----------------------------------------------------------------------------
\* What is known of the frame on top, and of the one under it.
LEMMA OnPath ==
  ASSUME IInv, Running, Control, NEW s, NEW C, Path(s, C, blocks, curr, walk, assigned)
  PROVE  /\ Fine(s, C, blocks) /\ C \subseteq 1..Len(blocks)
         /\ Len(blocks) \in Nat /\ curr \in 1..Len(blocks) /\ blocks \in Seq(BlockRecs)
         /\ s \in Known(Top, assigned) /\ curr \in C => Writes(blocks[curr].insts, s)
         /\ "AST_ASSN" \in Nodes /\ s \in Top.scope => s \in assigned
         /\ walk # <<>> /\ walk \in Seq(Frames) /\ Top = Last(walk) /\ Top \in Frames
         /\ WalkOK(walk, unclaimed, next_slot, Len(blocks))
         /\ WalkOK(Butlast(walk), unclaimed, next_slot, Len(blocks))
         /\ Butlast(walk) \in Seq(Frames)
         /\ Links(s, C, walk, assigned) /\ Links(s, C, Butlast(walk), assigned)
<1>1. /\ Len(blocks) \in Nat /\ curr \in 1..Len(blocks) /\ blocks \in Seq(BlockRecs)
      /\ WalkOK(walk, unclaimed, next_slot, Len(blocks))
      /\ WalkOK(Butlast(walk), unclaimed, next_slot, Len(blocks))
      /\ walk # <<>> /\ walk \in Seq(Frames) /\ Top \in Frames /\ Butlast(walk) \in Seq(Frames)
  BY WhileRunning, ControlTop
<1>2. /\ Fine(s, C, blocks) /\ Here(s, C, blocks, curr, Last(walk), assigned)
      /\ Links(s, C, walk, assigned)
  BY <1>1 DEF Path
<1>3. Links(s, C, Butlast(walk), assigned)
  BY <1>1, <1>2, LinksPop
<1>4. Top = Last(walk)
  BY DEF Top
<1>5. /\ s \in Known(Top, assigned) /\ curr \in C => Writes(blocks[curr].insts, s)
      /\ "AST_ASSN" \in Nodes /\ s \in Top.scope => s \in assigned
  BY <1>2, <1>4 DEF Here
<1>6. C \subseteq 1..Len(blocks)
  BY <1>2 DEF Fine
<1> QED
  BY <1>1, <1>2, <1>3, <1>4, <1>5, <1>6

LEMMA UnderTop ==
  ASSUME IInv, Running, Control, NEW s, NEW C, Path(s, C, blocks, curr, walk, assigned),
         Butlast(walk) # <<>>
  PROVE  LET f == Last(Butlast(walk)) IN
         /\ f \in Frames
         /\ Inside(f, Top) /\ Awaits(f, Top, assigned, s, C)
         /\ Known(f, assigned) \subseteq Known(Top, assigned)
         /\ "AST_ASSN" \in Nodes /\ s \in f.scope => s \in assigned
         /\ Top.at \notin StmtFrames =>
              f.scope = Top.scope /\ Known(f, assigned) = Known(Top, assigned)
<1> DEFINE f == Last(Butlast(walk))
<1>1. /\ walk # <<>> /\ walk \in Seq(Frames) /\ Top = Last(walk)
      /\ WalkOK(walk, unclaimed, next_slot, Len(blocks)) /\ Links(s, C, walk, assigned)
      /\ "AST_ASSN" \in Nodes /\ s \in Top.scope => s \in assigned
  BY OnPath
<1>2. f \in Frames
  BY <1>1, WalkPop
<1>3. Inside(f, Top) /\ Awaits(f, Top, assigned, s, C)
  BY <1>1, LinksPop
<1> HIDE DEF f
<1>4. f.scope \subseteq Top.scope /\ (Top.at \notin StmtFrames => f.scope = Top.scope)
  BY <1>3 DEF Inside
<1> QED
  BY <1>1, <1>2, <1>3, <1>4 DEF Known, f

\* Nodes that begin or end without control leaving the block.
LEMMA StayPath ==
  ASSUME IInv, Running, Control, NEW s, NEW C, Path(s, C, blocks, curr, walk, assigned),
         Fine(s, C, blocks'), curr' = curr, assigned' = assigned,
         Writes(blocks[curr].insts, s) => Writes(blocks'[curr].insts, s),
         \/ walk' = walk
         \/ Butlast(walk) # <<>> /\ walk' = Butlast(walk)
         \/ \E f \in Frames : /\ walk' = Append(walk, f)
                              /\ f.to = <<>> /\ f.scope = Top.scope
                              /\ f.at = "assn" => f.slot \in f.scope /\ "AST_ASSN" \in Nodes
  PROVE  Path(s, C, blocks', curr', walk', assigned')
<1>1. /\ s \in Known(Top, assigned) /\ curr \in C => Writes(blocks[curr].insts, s)
      /\ "AST_ASSN" \in Nodes /\ s \in Top.scope => s \in assigned
      /\ walk # <<>> /\ walk \in Seq(Frames) /\ Top = Last(walk)
      /\ Links(s, C, walk, assigned) /\ Links(s, C, Butlast(walk), assigned)
  BY OnPath
<1>2. CASE walk' = walk
  <2>1. Here(s, C, blocks', curr', Last(walk'), assigned')
    BY <1>1, <1>2 DEF Here
  <2> QED
    BY <1>1, <1>2, <2>1 DEF Path
<1>3. CASE Butlast(walk) # <<>> /\ walk' = Butlast(walk)
  <2>1. /\ Known(Last(Butlast(walk)), assigned) \subseteq Known(Top, assigned)
        /\ "AST_ASSN" \in Nodes /\ s \in Last(Butlast(walk)).scope => s \in assigned
    BY <1>3, UnderTop
  <2>2. Here(s, C, blocks', curr', Last(walk'), assigned')
    BY <1>1, <1>3, <2>1 DEF Here
  <2> QED
    BY <1>1, <1>3, <2>2 DEF Path
<1>4. ASSUME NEW f \in Frames, walk' = Append(walk, f), f.to = <<>>, f.scope = Top.scope,
             f.at = "assn" => f.slot \in f.scope /\ "AST_ASSN" \in Nodes
      PROVE  Path(s, C, blocks', curr', walk', assigned')
  <2>1. Last(walk') = f
    BY <1>1, <1>4, LastPushed
  <2>2. Inside(Last(walk), f)
    BY <1>1, <1>4 DEF Inside
  <2>3. Awaits(Last(walk), f, assigned, s, C)
    <3>1. Len(f.to) = 0
      BY <1>4
    <3> QED
      BY <3>1 DEF Awaits
  <2>4. Links(s, C, walk', assigned')
    BY <1>1, <1>4, <2>2, <2>3, LinksPush
  <2>5. Here(s, C, blocks', curr', Last(walk'), assigned')
    BY <1>1, <1>4, <2>1 DEF Here, Known
  <2> QED
    BY <2>4, <2>5 DEF Path
<1> QED
  BY <1>2, <1>3, <1>4

\* Control passes to another block: D are those now reached without a store.
LEMMA PassPath ==
  ASSUME IInv, Running, Control, NEW s \in Nat, NEW C, Path(s, C, blocks, curr, walk, assigned),
         NEW T, Passes(T), NEW D, C \subseteq D, D \subseteq C \cup (Len(blocks) + 1..Len(blocks')),
         curr \in C => /\ LoadsFine(blocks'[curr].insts, s)
                       /\ Writes(blocks'[curr].insts, s) \/ T \subseteq D,
         curr' \in D => LoadsFine(blocks'[curr'].insts, s),
         NEW w \in {walk, Butlast(walk)}, w # <<>>, assigned' = assigned,
         curr' \in D => s \notin Known(Last(w), assigned),
         \/ walk' = w
         \/ \E g \in Frames : /\ walk' = Append(w, g)
                              /\ g.scope = Last(w).scope /\ g.at # "assn"
                              /\ Awaits(Last(w), g, assigned, s, D)
  PROVE  Path(s, D, blocks', curr', walk', assigned')
<1>1. /\ Fine(s, C, blocks) /\ C \subseteq 1..Len(blocks) /\ Len(blocks) \in Nat
      /\ "AST_ASSN" \in Nodes /\ s \in Top.scope => s \in assigned
      /\ WalkOK(w, unclaimed, next_slot, Len(blocks)) /\ w \in Seq(Frames)
      /\ Links(s, C, w, assigned) /\ Top = Last(walk)
  BY OnPath
<1>2. Fine(s, D, blocks')
  BY <1>1, FinePass
<1>3. "AST_ASSN" \in Nodes /\ s \in Last(w).scope => s \in assigned
  <2>1. CASE w = walk
    BY <1>1, <2>1
  <2>2. CASE w = Butlast(walk)
    BY <2>2, UnderTop
  <2> QED
    BY <2>1, <2>2
<1>4. Links(s, D, w, assigned)
  <2>1. \A b \in 1..Len(blocks) : b \in D <=> b \in C
    BY <1>1
  <2> QED
    BY <1>1, <2>1, LinksSame
<1>5. CASE walk' = w
  <2>1. Here(s, D, blocks', curr', Last(walk'), assigned')
    BY <1>3, <1>5 DEF Here
  <2> QED
    BY <1>2, <1>4, <1>5, <2>1 DEF Path
<1>6. ASSUME NEW g \in Frames, walk' = Append(w, g), g.scope = Last(w).scope, g.at # "assn",
             Awaits(Last(w), g, assigned, s, D)
      PROVE  Path(s, D, blocks', curr', walk', assigned')
  <2>1. Last(walk') = g
    BY <1>1, <1>6, LastPushed
  <2>2. Inside(Last(w), g)
    BY <1>6 DEF Inside
  <2>3. Links(s, D, walk', assigned')
    BY <1>1, <1>4, <1>6, <2>2, LinksPush
  <2>4. Here(s, D, blocks', curr', Last(walk'), assigned')
    BY <1>3, <1>6, <2>1 DEF Here, Known
  <2> QED
    BY <1>2, <2>3, <2>4 DEF Path
<1> QED
  BY <1>5, <1>6

\* The same, when nothing is emitted.
LEMMA PassKept ==
  ASSUME IInv, Running, Control, NEW s \in Nat, NEW C, Path(s, C, blocks, curr, walk, assigned),
         NEW T, Passes(T), InstsKept,
         NEW D, C \subseteq D, D \subseteq C \cup (Len(blocks) + 1..Len(blocks')),
         s \notin Known(Top, assigned) => T \subseteq D,
         NEW w \in {walk, Butlast(walk)}, w # <<>>, assigned' = assigned,
         curr' \in D => s \notin Known(Last(w), assigned),
         \/ walk' = w
         \/ \E g \in Frames : /\ walk' = Append(w, g)
                              /\ g.scope = Last(w).scope /\ g.at # "assn"
                              /\ Awaits(Last(w), g, assigned, s, D)
  PROVE  Path(s, D, blocks', curr', walk', assigned')
<1>1. /\ Fine(s, C, blocks) /\ C \subseteq 1..Len(blocks) /\ curr \in 1..Len(blocks)
      /\ s \in Known(Top, assigned) /\ curr \in C => Writes(blocks[curr].insts, s)
  BY OnPath
<1>2. \A b \in C : LoadsFine(blocks'[b].insts, s)
  BY <1>1 DEF Fine, BlockFine, InstsKept
<1>3. blocks'[curr].insts = blocks[curr].insts
  BY <1>1 DEF InstsKept
<1>4. \A b \in Len(blocks) + 1..Len(blocks') : LoadsFine(blocks'[b].insts, s)
  <2>1. LoadsFine(<<>>, s)
    BY DEF LoadsFine
  <2> QED
    BY <2>1, NewBlockIs DEF Passes
<1>5. curr \in C => /\ LoadsFine(blocks'[curr].insts, s)
                    /\ Writes(blocks'[curr].insts, s) \/ T \subseteq D
  BY <1>1, <1>2, <1>3
<1>6. curr' \in D => LoadsFine(blocks'[curr'].insts, s)
  BY <1>2, <1>4
<1> QED
  BY <1>5, <1>6, PassPath
-----------------------------------------------------------------------------
LEMMA EvalPath ==
  ASSUME IInv, Running, Control, NEW n, NEW v, NEW insts, Eval(n, v, insts),
         NEW s \in Nat, NEW C, Path(s, C, blocks, curr, walk, assigned)
  PROVE  Path(s, C, blocks', curr', walk', assigned')
<1>1. /\ blocks' = Emit(blocks, curr, insts)
      /\ curr' = curr /\ walk' = walk /\ assigned' = assigned
  BY DEF Eval
<1>2. /\ insts \in Seq(InstRecs)
      /\ insts = <<>> \/ (Len(insts) = 1 /\ Computes(insts[1], n))
  BY EvalStack DEF Eval
<1>3. /\ Fine(s, C, blocks) /\ curr \in 1..Len(blocks) /\ blocks \in Seq(BlockRecs)
      /\ s \in Known(Top, assigned) /\ curr \in C => Writes(blocks[curr].insts, s)
  BY OnPath
<1>4. s \notin Known(Top, assigned) => LoadsFine(insts, s)
  <2>1. CASE insts = <<>>
    BY <2>1 DEF LoadsFine
  <2>2. CASE Len(insts) = 1 /\ Computes(insts[1], n)
    <3>1. insts[1].type = "IR_LOAD" => insts[1].slot \in Known(Top, assigned)
      BY <2>2 DEF Computes, Readable, Known
    <3> QED
      BY <2>2, <3>1 DEF LoadsFine
  <2> QED
    BY <1>2, <2>1, <2>2
<1>5. curr \in C => Writes(blocks[curr].insts, s) \/ LoadsFine(insts, s)
  BY <1>3, <1>4
<1>6. /\ Fine(s, C, blocks')
      /\ Writes(blocks[curr].insts, s) => Writes(blocks'[curr].insts, s)
  BY <1>1, <1>2, <1>3, <1>5, FineEmit
<1> QED
  BY <1>1, <1>6, StayPath

\* Nothing is emitted.
LEMMA QuietPath ==
  ASSUME IInv, Running, Control, NEW s, NEW C, Path(s, C, blocks, curr, walk, assigned),
         blocks' = blocks, curr' = curr, assigned' = assigned,
         \/ Butlast(walk) # <<>> /\ walk' = Butlast(walk)
         \/ \E f \in Frames : /\ walk' = Append(walk, f)
                              /\ f.to = <<>> /\ f.scope = Top.scope
                              /\ f.at = "assn" => f.slot \in f.scope /\ "AST_ASSN" \in Nodes
  PROVE  Path(s, C, blocks', curr', walk', assigned')
<1>1. Fine(s, C, blocks') /\ (Writes(blocks[curr].insts, s) => Writes(blocks'[curr].insts, s))
  BY OnPath
<1> QED
  BY <1>1, StayPath

LEMMA BeginLogOpPath ==
  ASSUME IInv, Running, Control, NEW at \in {"and_lhs", "or_lhs"}, BeginLogOp(at),
         NEW s, NEW C, Path(s, C, blocks, curr, walk, assigned)
  PROVE  Path(s, C, blocks', curr', walk', assigned')
<1> DEFINE f == Frame(at, Height, next_slot, <<>>, Top.scope)
<1>1. /\ walk' = Append(walk, f) /\ blocks' = blocks /\ curr' = curr /\ assigned' = assigned
  BY DEF BeginLogOp, Push
<1>2. f \in Frames /\ f.to = <<>> /\ f.scope = Top.scope /\ f.at # "assn"
  <2>1. Top \in Frames /\ Height \in Nat /\ next_slot \in Nat
    BY OnPath, ShapeIs
  <2>2. Top.scope \in SUBSET Nat /\ at \in Ats /\ <<>> \in Seq(Nat)
    BY <2>1 DEF Frames, Ats, LogFrames
  <2> QED
    BY <2>1, <2>2 DEF Frame, Frames
<1> HIDE DEF f
<1> QED
  BY <1>1, <1>2, QuietPath

LEMMA BeginStmtPath ==
  ASSUME IInv, Running, Control, NEW node, NEW at \in HeadFrames, NEW slot \in {NoSlot} \cup Nat,
         NEW n, BeginStmt(node, at, slot, n),
         at = "assn" => slot \in Top.scope /\ "AST_ASSN" \in Nodes,
         NEW s, NEW C, Path(s, C, blocks, curr, walk, assigned)
  PROVE  Path(s, C, blocks', curr', walk', assigned')
<1> DEFINE f == Frame(at, Height, slot, <<>>, Top.scope)
<1>1. /\ walk' = Append(walk, f) /\ blocks' = blocks /\ curr' = curr /\ assigned' = assigned
  BY DEF BeginStmt, Push
<1>2. /\ f \in Frames /\ f.to = <<>> /\ f.scope = Top.scope /\ f.at = at /\ f.slot = slot
  <2>1. Top \in Frames /\ Height \in Nat
    BY OnPath, ShapeIs
  <2>2. Top.scope \in SUBSET Nat /\ at \in Ats /\ <<>> \in Seq(Nat)
    BY <2>1 DEF Frames, Ats
  <2> QED
    BY <2>1, <2>2 DEF Frame, Frames
<1> HIDE DEF f
<1> QED
  BY <1>1, <1>2, QuietPath

LEMMA BeginSimplePath ==
  ASSUME IInv, Running, Control, BeginSimple,
         NEW s, NEW C, Path(s, C, blocks, curr, walk, assigned)
  PROVE  Path(s, C, blocks', curr', walk', assigned')
<1>1. CASE BeginStmt("AST_VAR_DEC", "var_dec", NoSlot, 1)
  BY <1>1, BeginStmtPath DEF HeadFrames
<1>2. ASSUME NEW x \in Assignable, BeginStmt("AST_ASSN", "assn", x, 1)
      PROVE  Path(s, C, blocks', curr', walk', assigned')
  <2>1. x \in Top.scope
    BY DEF Assignable
  <2>2. x \in Nat
    BY <2>1, OnPath DEF Frames
  <2>3. "AST_ASSN" \in Nodes
    BY <1>2 DEF BeginStmt
  <2> QED
    BY <1>2, <2>1, <2>2, <2>3, BeginStmtPath DEF HeadFrames
<1>3. CASE BeginStmt("AST_EXIT", "exit", NoSlot, 1)
  BY <1>3, BeginStmtPath DEF HeadFrames
<1>4. ASSUME NEW k \in Arities \cap 0..1, BeginStmt("call statement", "call_stmt", k, k)
      PROVE  Path(s, C, blocks', curr', walk', assigned')
  <2>1. k \in Nat
    OBVIOUS
  <2> QED
    BY <1>4, <2>1, BeginStmtPath DEF HeadFrames
<1>5. CASE BeginStmt("AST_IF", "if", NoSlot, 1)
  BY <1>5, BeginStmtPath DEF HeadFrames
<1> QED
  BY <1>1, <1>2, <1>3, <1>4, <1>5 DEF BeginSimple

LEMMA BeginBlockPath ==
  ASSUME IInv, Running, Control, BeginBlock,
         NEW s, NEW C, Path(s, C, blocks, curr, walk, assigned)
  PROVE  Path(s, C, blocks', curr', walk', assigned')
<1> DEFINE f == Frame("block", Height, NoSlot, <<>>, Top.scope)
<1>1. /\ walk' = Append(walk, f) /\ blocks' = blocks /\ curr' = curr /\ assigned' = assigned
  BY DEF BeginBlock, Push
<1>2. f \in Frames /\ f.to = <<>> /\ f.scope = Top.scope /\ f.at # "assn"
  <2>1. Top \in Frames /\ Height \in Nat
    BY OnPath, ShapeIs
  <2>2. Top.scope \in SUBSET Nat /\ "block" \in Ats /\ <<>> \in Seq(Nat)
    BY <2>1 DEF Frames, Ats, StmtFrames
  <2> QED
    BY <2>1, <2>2 DEF Frame, Frames
<1> HIDE DEF f
<1> QED
  BY <1>1, <1>2, QuietPath

LEMMA EndBlockPath ==
  ASSUME IInv, Running, Control, EndBlock,
         NEW s, NEW C, Path(s, C, blocks, curr, walk, assigned)
  PROVE  Path(s, C, blocks', curr', walk', assigned')
<1>1. /\ InStmts /\ Top.at = "block" /\ walk' = Pop(walk, 1)
      /\ blocks' = blocks /\ curr' = curr /\ assigned' = assigned
  BY DEF EndBlock
<1>2. Pop(walk, 1) = Butlast(walk) /\ Butlast(walk) # <<>>
  BY <1>1, OnList
<1> QED
  BY <1>1, <1>2, QuietPath

LEMMA ExitPath ==
  ASSUME IInv, Running, Control, Exit \/ BareExit,
         NEW s, NEW C, Path(s, C, blocks, curr, walk, assigned)
  PROVE  Path(s, C, blocks', curr', walk', assigned')
<1>1. PICK t \in TermRecs :
        /\ t.to = <<>> /\ blocks' = Terminate(blocks, curr, t)
        /\ curr' = curr /\ assigned' = assigned
        /\ walk' = walk \/ (Butlast(walk) # <<>> /\ walk' = Butlast(walk))
  <2>1. CASE Exit
    <3>1. /\ ExprDone /\ blocks' = Terminate(blocks, curr, Halt(<<Last(val_stack)>>))
          /\ curr' = curr /\ assigned' = assigned /\ walk' = Pop(walk, 1)
      BY <2>1 DEF Exit
    <3>2. Last(val_stack) \in Values /\ Pop(walk, 1) = Butlast(walk) /\ Butlast(walk) # <<>>
      BY <3>1, OnValue
    <3>3. Halt(<<Last(val_stack)>>) \in TermRecs /\ Halt(<<Last(val_stack)>>).to = <<>>
      BY <3>2, TermsAre
    <3> QED
      BY <3>1, <3>2, <3>3
  <2>2. CASE BareExit
    <3>1. /\ blocks' = Terminate(blocks, curr, Halt(<<>>))
          /\ curr' = curr /\ assigned' = assigned /\ walk' = walk
      BY <2>2 DEF BareExit
    <3>2. Halt(<<>>) \in TermRecs /\ Halt(<<>>).to = <<>>
      BY TermsAre
    <3> QED
      BY <3>1, <3>2
  <2> QED
    BY <2>1, <2>2
<1>2. Fine(s, C, blocks) /\ curr \in 1..Len(blocks) /\ blocks \in Seq(BlockRecs)
  BY OnPath
<1>3. Fine(s, C, blocks') /\ blocks'[curr].insts = blocks[curr].insts
  BY <1>1, <1>2, FineHalt
<1> QED
  BY <1>1, <1>3, StayPath

LEMMA CallStmtPath ==
  ASSUME IInv, Running, Control, CallStmt,
         NEW s, NEW C, Path(s, C, blocks, curr, walk, assigned)
  PROVE  Path(s, C, blocks', curr', walk', assigned')
<1> DEFINE call == Call(next_temp, Popped(Operands))
<1>1. /\ InExpr /\ Top.at = "call_stmt" /\ Pending = Operands
      /\ blocks' = Emit(blocks, curr, <<call>>)
      /\ walk' = Pop(walk, 1) /\ curr' = curr /\ assigned' = assigned
  BY DEF CallStmt
<1>2. Pop(walk, 1) = Butlast(walk) /\ Butlast(walk) # <<>>
  BY <1>1, OnHead, Zenon DEF HeadFrames
<1>3. call \in InstRecs /\ call.type # "IR_LOAD"
  <2>1. Operands \in 0..1 /\ Pending \in Nat
    BY <1>1, InExpression
  <2>2. Operands \in Arities \cup 0..1 /\ Operands <= Pending
    BY <1>1, <2>1
  <2>3. Computes(call, Operands)
    BY <1>1, <2>2, OperatorsCompute
  <2> QED
    BY <2>3 DEF Computes, Call, Inst
<1> HIDE DEF call
<1>4. /\ Fine(s, C, blocks) /\ curr \in 1..Len(blocks) /\ blocks \in Seq(BlockRecs)
  BY OnPath
<1>5. <<call>> \in Seq(InstRecs) /\ LoadsFine(<<call>>, s)
  <2>1. <<call>> \in Seq(InstRecs) /\ Len(<<call>>) = 1 /\ <<call>>[1] = call
    BY <1>3
  <2> QED
    BY <1>3, <2>1 DEF LoadsFine
<1>6. /\ Fine(s, C, blocks')
      /\ Writes(blocks[curr].insts, s) => Writes(blocks'[curr].insts, s)
  BY <1>1, <1>4, <1>5, FineEmit
<1> QED
  BY <1>1, <1>2, <1>6, StayPath
-----------------------------------------------------------------------------
\* A value is stored.
LEMMA StorePath ==
  ASSUME IInv, Running, Control, NEW s \in Nat, NEW C,
         Path(s, C, blocks, curr, walk, assigned),
         NEW x \in Nat, NEW v \in Values, blocks' = Emit(blocks, curr, <<Store(x, v)>>)
  PROVE  /\ Fine(s, C, blocks')
         /\ Writes(blocks[curr].insts, s) \/ x = s => Writes(blocks'[curr].insts, s)
<1>1. Fine(s, C, blocks) /\ curr \in 1..Len(blocks) /\ blocks \in Seq(BlockRecs)
      /\ next_temp \in Nat
  BY OnPath, ShapeIs
<1> DEFINE i == <<Store(x, v)>>
<1>2. i \in Seq(InstRecs) /\ LoadsFine(i, s) /\ (x = s => Writes(i, s))
  BY <1>1, LoadsOf
<1>3. blocks' = Emit(blocks, curr, i)
  OBVIOUS
<1> HIDE DEF i
<1> QED
  BY <1>1, <1>2, <1>3, FineEmit

LEMMA VarDecPath ==
  ASSUME IInv, Running, Control, VarDec,
         NEW s \in Nat, NEW C, Path(s, C, blocks, curr, walk, assigned)
  PROVE  Path(s, C, blocks', curr', walk', assigned')
<1> DEFINE x == next_slot
           w == Butlast(walk)
           f == Last(w)
<1>1. /\ ExprDone /\ Top.at = "var_dec" /\ curr' = curr
      /\ blocks' = Emit(blocks, curr, <<Store(x, Last(val_stack))>>)
      /\ walk' = Declare(Pop(walk, 1), x) /\ assigned' = assigned \cup {x}
  BY DEF VarDec, assign_variable
<1>2. /\ Last(val_stack) \in Values /\ Pop(walk, 1) = w /\ w # <<>> /\ f.at \in StmtFrames
  BY <1>1, OnHeadValue DEF HeadFrames
<1>3. x \in Nat /\ assigned \subseteq 0..x - 1
  BY DEF IInv
<1>4. /\ s \in Known(Top, assigned) /\ curr \in C => Writes(blocks[curr].insts, s)
      /\ Links(s, C, w, assigned) /\ w \in Seq(Frames)
      /\ WalkOK(w, unclaimed, next_slot, Len(blocks))
  BY OnPath
<1>5. /\ Known(f, assigned) \subseteq Known(Top, assigned)
      /\ "AST_ASSN" \in Nodes /\ s \in f.scope => s \in assigned
  BY <1>2, UnderTop
<1>6. /\ Fine(s, C, blocks')
      /\ Writes(blocks[curr].insts, s) \/ x = s => Writes(blocks'[curr].insts, s)
  BY <1>1, <1>2, <1>3, StorePath
<1>7. Links(s, C, w, assigned')
  <2>1. s \notin 0..next_slot - 1 \/ (s \in assigned' <=> s \in assigned)
    BY <1>1, <1>3
  <2> QED
    BY <1>4, <2>1, LinksSame
<1> HIDE DEF w, x
<1>8. /\ Links(s, C, walk', assigned') /\ walk' # <<>> /\ Last(walk').scope = f.scope \cup {x}
  BY <1>1, <1>2, <1>3, <1>4, <1>7, LinksDeclare
<1>9. Here(s, C, blocks', curr', Last(walk'), assigned')
  <2>1. ASSUME s \in Known(Last(walk'), assigned'), curr' \in C
        PROVE  Writes(blocks'[curr'].insts, s)
    <3>1. s = x \/ s \in Known(f, assigned)
      BY <1>1, <1>3, <1>8, <2>1 DEF Known, x
    <3> QED
      BY <1>1, <1>4, <1>5, <1>6, <2>1, <3>1
  <2>2. "AST_ASSN" \in Nodes /\ s \in Last(walk').scope => s \in assigned'
    BY <1>1, <1>5, <1>8
  <2> QED
    BY <2>1, <2>2 DEF Here
<1> QED
  BY <1>6, <1>8, <1>9 DEF Path

LEMMA BareVarDecPath ==
  ASSUME IInv, Running, Control, BareVarDec, Initialises,
         NEW s \in Nat, NEW C, Path(s, C, blocks, curr, walk, assigned)
  PROVE  Path(s, C, blocks', curr', walk', assigned')
<1> DEFINE x == next_slot
<1>1. /\ InStmts /\ curr' = curr /\ assigned' = assigned
      /\ walk' = Declare(walk, x)
      /\ IF val_stack = <<>> THEN blocks' = blocks
         ELSE blocks' = Emit(blocks, curr, <<Store(x, Last(val_stack))>>)
  BY DEF BareVarDec
<1>2. "AST_ASSN" \notin Nodes
  <2>1. "bare declaration" \in Nodes
    BY Zenon DEF BareVarDec
  <2> QED
    BY <2>1, Zenon DEF Initialises
<1>3. x \in Nat /\ assigned \subseteq 0..x - 1 /\ val_stack \in Seq(Values)
  BY DEF IInv
<1>4. /\ s \in Known(Top, assigned) /\ curr \in C => Writes(blocks[curr].insts, s)
      /\ Links(s, C, walk, assigned) /\ walk \in Seq(Frames) /\ walk # <<>> /\ Top = Last(walk)
      /\ Fine(s, C, blocks)
  BY OnPath
<1>5. Top.at \in StmtFrames
  BY <1>1 DEF InStmts
<1>6. /\ Fine(s, C, blocks')
      /\ Writes(blocks[curr].insts, s) => Writes(blocks'[curr].insts, s)
  <2>1. CASE val_stack = <<>>
    BY <1>1, <1>4, <2>1
  <2>2. CASE val_stack # <<>>
    <3>1. Last(val_stack) \in Values
      BY <1>3, <2>2 DEF Last
    <3>2. blocks' = Emit(blocks, curr, <<Store(x, Last(val_stack))>>)
      BY <1>1, <2>2
    <3> QED
      BY <1>3, <3>1, <3>2, StorePath
  <2> QED
    BY <1>1, <2>1, <2>2
<1> HIDE DEF x
<1>7. Links(s, C, walk', assigned') /\ walk' # <<>> /\ Last(walk').scope = Top.scope \cup {x}
  BY <1>1, <1>3, <1>4, <1>5, LinksDeclare
<1>8. Here(s, C, blocks', curr', Last(walk'), assigned')
  <2>1. s \in Known(Last(walk'), assigned') => s \in Known(Top, assigned)
    <3>1. s # x => s \notin Last(walk').scope \/ s \in Top.scope
      BY <1>7
    <3>2. x \notin assigned'
      BY <1>1, <1>3
    <3> QED
      BY <1>1, <3>1, <3>2 DEF Known
  <2> QED
    BY <1>1, <1>2, <1>4, <1>6, <2>1, Zenon DEF Here
<1> QED
  BY <1>6, <1>7, <1>8 DEF Path

LEMMA AssnPath ==
  ASSUME IInv, Running, Control, Assn,
         NEW s \in Nat, NEW C, Path(s, C, blocks, curr, walk, assigned)
  PROVE  Path(s, C, blocks', curr', walk', assigned')
<1> DEFINE x == Top.slot
           w == Butlast(walk)
           f == Last(w)
<1>1. /\ ExprDone /\ Top.at = "assn" /\ curr' = curr
      /\ blocks' = Emit(blocks, curr, <<Store(x, Last(val_stack))>>)
      /\ walk' = Pop(walk, 1) /\ assigned' = assigned \cup {x}
  BY DEF Assn, assign_variable
<1>2. /\ Last(val_stack) \in Values /\ Pop(walk, 1) = w /\ w # <<>>
      /\ FrameOK(Top, unclaimed, next_slot, Len(blocks))
  BY <1>1, OnHeadValue DEF HeadFrames
<1>3. x \in Nat
  BY <1>1, <1>2 DEF FrameOK
<1>4. /\ s \in Known(Top, assigned) /\ curr \in C => Writes(blocks[curr].insts, s)
      /\ Links(s, C, w, assigned) /\ w \in Seq(Frames)
      /\ WalkOK(w, unclaimed, next_slot, Len(blocks))
      /\ "AST_ASSN" \in Nodes /\ s \in Top.scope => s \in assigned
  BY OnPath
<1>5. /\ Known(f, assigned) \subseteq Known(Top, assigned) /\ Inside(f, Top)
      /\ "AST_ASSN" \in Nodes /\ s \in f.scope => s \in assigned
  BY <1>2, UnderTop
<1>6. s \in assigned' <=> s \in assigned
  <2>1. "AST_ASSN" \in Nodes /\ x \in Top.scope
    BY <1>1, <1>5 DEF Inside
  <2> QED
    BY <1>1, <1>4, <2>1
<1>7. /\ Fine(s, C, blocks')
      /\ Writes(blocks[curr].insts, s) => Writes(blocks'[curr].insts, s)
  BY <1>1, <1>2, <1>3, StorePath
<1>8. Links(s, C, walk', assigned')
  BY <1>1, <1>2, <1>4, <1>6, LinksSame
<1>9. Here(s, C, blocks', curr', Last(walk'), assigned')
  BY <1>1, <1>2, <1>4, <1>5, <1>6, <1>7 DEF Here, Known
<1> QED
  BY <1>7, <1>8, <1>9 DEF Path

LEMMA EndFunctionPath ==
  ASSUME IInv, Running, Control, EndFunction,
         NEW s, NEW C, Path(s, C, blocks, curr, walk, assigned)
  PROVE  Path(s, C, blocks', curr', walk', assigned')
<1>1. /\ blocks' = Terminate(blocks, curr, ImplicitHalt) \/ blocks' = blocks
      /\ walk' = <<>>
  BY DEF EndFunction
<1>2. Fine(s, C, blocks) /\ curr \in 1..Len(blocks) /\ blocks \in Seq(BlockRecs)
  BY OnPath
<1>3. Fine(s, C, blocks')
  <2>1. ImplicitHalt \in TermRecs /\ ImplicitHalt.to = <<>>
    BY ImplicitHaltIs
  <2>2. Fine(s, C, Terminate(blocks, curr, ImplicitHalt))
    BY <1>2, <2>1, FineHalt
  <2> QED
    BY <1>1, <1>2, <2>2
<1>4. Links(s, C, <<>>, assigned')
  <2>1. 1..Len(<<>>) - 1 = {}
    OBVIOUS
  <2> QED
    BY <2>1 DEF Links
<1> QED
  BY <1>1, <1>3, <1>4 DEF Path

\* A function begins: its parameters are stored first of all.
LEMMA EntryPath ==
  ASSUME NEW s \in Nat, NEW h \in Nat
  PROVE  Path(s, {1}, Entry, 1, <<FirstFrame(h)>>, 0..NumParams - 1)
<1>1. NumParams \in Nat
  BY Bounds
<1> DEFINE p == Params(NumParams)
<1>2. /\ p \in Seq(InstRecs) /\ Len(p) = 2 * NumParams
      /\ \A i \in 1..2 * NumParams :
           \/ \E q \in 0..NumParams - 1 : i = 2 * q + 1 /\ p[i] = ArgInst(q)
           \/ \E q \in 0..NumParams - 1 : i = 2 * q + 2 /\ p[i] = Store(q, TEMP(q))
  BY <1>1, ParamsAre
<1> HIDE DEF p
<1>3. /\ \A q \in Nat : ArgInst(q).type = "IR_ARG"
      /\ \A q \in Nat : Store(q, TEMP(q)).type = "IR_STORE" /\ Store(q, TEMP(q)).slot = q
  BY DEF ArgInst, Store, Inst
<1>4. LoadsFine(p, s)
  <2>1. \A i \in 1..Len(p) : p[i].type # "IR_LOAD"
    BY <1>1, <1>2, <1>3
  <2> QED
    BY <2>1 DEF LoadsFine
<1>5. s \in 0..NumParams - 1 => Writes(p, s)
  <2>1. ASSUME s \in 0..NumParams - 1 PROVE Writes(p, s)
    <3> DEFINE i == 2 * s + 2
    <3>1. i \in 1..2 * NumParams
      BY <1>1, <2>1
    <3>2. \A q \in 0..NumParams - 1 : /\ i # 2 * q + 1
                                      /\ i = 2 * q + 2 => q = s
      BY <1>1
    <3> HIDE DEF i
    <3>3. p[i] = Store(s, TEMP(s))
      BY <1>2, <3>1, <3>2
    <3> QED
      BY <1>2, <1>3, <3>1, <3>3 DEF Writes, StoredIn
  <2> QED
    BY <2>1
<1>6. Entry \in Seq(BlockRecs) /\ Len(Entry) = 1 /\ Entry[1].term = Undefined /\ Entry[1].insts = p
  BY EntryIs DEF p
<1>7. To(Entry[1]) = {}
  BY <1>6, NewBlockIs, ToIs
<1>8. Fine(s, {1}, Entry)
  BY <1>4, <1>6, <1>7 DEF Fine, BlockFine
<1>9. /\ Last(<<FirstFrame(h)>>) = FirstFrame(h) /\ FirstFrame(h).scope = 0..NumParams - 1
      /\ <<FirstFrame(h)>> # <<>>
  BY DEF Last, FirstFrame, Frame
<1>10. Here(s, {1}, Entry, 1, Last(<<FirstFrame(h)>>), 0..NumParams - 1)
  BY <1>5, <1>6, <1>9 DEF Here, Known
<1>11. Links(s, {1}, <<FirstFrame(h)>>, 0..NumParams - 1)
  <2>1. Len(<<FirstFrame(h)>>) = 1
    OBVIOUS
  <2> QED
    BY <2>1 DEF Links
<1> QED
  BY <1>8, <1>10, <1>11 DEF Path
-----------------------------------------------------------------------------
\* A frame of one or two blocks waits for them as one does above it.
LEMMA AwaitsIs ==
  ASSUME NEW f, NEW g, NEW asg, NEW s, NEW C
  PROVE  /\ g.at # "rhs" /\ (\A k \in 1..Len(g.to) : g.to[k] \in C <=> s \notin Known(f, asg))
              => Awaits(f, g, asg, s, C)
         /\ g.at # "rhs" /\ Awaits(f, g, asg, s, C)
              => \A k \in 1..Len(g.to) : g.to[k] \in C <=> s \notin Known(f, asg)
BY DEF Awaits

LEMMA EndWhilePath ==
  ASSUME IInv, Running, Control, EndWhile,
         NEW s \in Nat, NEW C, Path(s, C, blocks, curr, walk, assigned)
  PROVE  Path(s, C, blocks', curr', walk', assigned')
<1> DEFINE f == Last(Butlast(walk))
           T == {Top.to[1]}
<1>1. /\ Passes(T) /\ InstsKept
      /\ curr' = Top.to[2] /\ walk' = Butlast(walk) /\ Butlast(walk) # <<>>
      /\ Len(Top.to) = 2 /\ Top.at = "loop_block"
  BY EndWhilePasses
<1>2. assigned' = assigned
  BY DEF EndWhile
<1>3. /\ Awaits(f, Top, assigned, s, C) /\ Known(f, assigned) \subseteq Known(Top, assigned)
  BY <1>1, UnderTop
<1>4. \A k \in 1..2 : Top.to[k] \in C <=> s \notin Known(f, assigned)
  BY <1>1, <1>3, AwaitsIs
<1>5. s \notin Known(Top, assigned) => T \subseteq C
  BY <1>3, <1>4
<1>6. curr' \in C => s \notin Known(f, assigned)
  BY <1>1, <1>4
<1> HIDE DEF T
<1> QED
  BY <1>1, <1>2, <1>5, <1>6, PassKept

LEMMA EndIfPath ==
  ASSUME IInv, Running, Control, EndIf,
         NEW s \in Nat, NEW C, Path(s, C, blocks, curr, walk, assigned)
  PROVE  Path(s, C, blocks', curr', walk', assigned')
<1> DEFINE f == Last(Butlast(walk))
           T == {Top.to[1]}
<1>1. /\ Passes(T) /\ InstsKept
      /\ curr' = Top.to[1] /\ walk' = Butlast(walk) /\ Butlast(walk) # <<>>
      /\ Len(Top.to) = 1 /\ Top.at \in {"then_block", "else_block"}
  BY EndIfPasses
<1>2. assigned' = assigned
  BY DEF EndIf
<1>3. /\ Awaits(f, Top, assigned, s, C) /\ Known(f, assigned) \subseteq Known(Top, assigned)
  BY <1>1, UnderTop
<1>4. Top.to[1] \in C <=> s \notin Known(f, assigned)
  BY <1>1, <1>3, AwaitsIs
<1>5. s \notin Known(Top, assigned) => T \subseteq C
  BY <1>3, <1>4
<1>6. curr' \in C => s \notin Known(f, assigned)
  BY <1>1, <1>4
<1> HIDE DEF T
<1> QED
  BY <1>1, <1>2, <1>5, <1>6, PassKept

LEMMA EndThenPath ==
  ASSUME IInv, Running, Control, EndThen,
         NEW s \in Nat, NEW C, Path(s, C, blocks, curr, walk, assigned)
  PROVE  Path(s, C, blocks', curr', walk', assigned')
<1> DEFINE f == Last(Butlast(walk))
           T == {Top.to[2]}
<1>1. /\ Passes(T) /\ InstsKept /\ curr' = Top.to[1] /\ Butlast(walk) # <<>>
      /\ Len(Top.to) = 2 /\ Top.at = "then_block"
  BY EndThenPasses
<1>2. PICK g \in Frames : /\ walk' = Append(Butlast(walk), g)
                          /\ g.at = "else_block" /\ g.to = <<Top.to[2]>> /\ g.scope = f.scope
  BY EndThenPasses
<1>3. assigned' = assigned
  BY DEF EndThen
<1>4. /\ Awaits(f, Top, assigned, s, C) /\ Known(f, assigned) \subseteq Known(Top, assigned)
  BY <1>1, UnderTop
<1>5. \A k \in 1..2 : Top.to[k] \in C <=> s \notin Known(f, assigned)
  BY <1>1, <1>4, AwaitsIs
<1>6. s \notin Known(Top, assigned) => T \subseteq C
  BY <1>4, <1>5
<1>7. curr' \in C => s \notin Known(f, assigned)
  BY <1>1, <1>5
<1>8. Awaits(f, g, assigned, s, C)
  <2>1. Len(g.to) = 1 /\ g.to[1] = Top.to[2]
    BY <1>2
  <2>2. \A k \in 1..Len(g.to) : g.to[k] \in C <=> s \notin Known(f, assigned)
    BY <1>5, <2>1
  <2> QED
    BY <1>2, <2>2, AwaitsIs
<1> HIDE DEF T
<1> QED
  BY <1>1, <1>2, <1>3, <1>6, <1>7, <1>8, PassKept

LEMMA WhileBodyPath ==
  ASSUME IInv, Running, Control, WhileBody,
         NEW s \in Nat, NEW C, Path(s, C, blocks, curr, walk, assigned)
  PROVE  Path(s, C, blocks', curr', walk', assigned')
<1> DEFINE f == Last(Butlast(walk))
           T == {Top.to[2], Top.to[3]}
<1>1. /\ Passes(T) /\ InstsKept /\ curr' = Top.to[2] /\ Butlast(walk) # <<>>
      /\ Len(Top.to) = 3 /\ Top.at = "while"
  BY WhileBodyPasses
<1>2. PICK g \in Frames : /\ walk' = Append(Butlast(walk), g)
                          /\ g.at = "loop_block" /\ g.to = <<Top.to[1], Top.to[3]>>
                          /\ g.scope = Top.scope
  BY WhileBodyPasses
<1>3. assigned' = assigned
  BY DEF WhileBody
<1>4. /\ Awaits(f, Top, assigned, s, C) /\ Known(f, assigned) = Known(Top, assigned)
      /\ f.scope = Top.scope
  BY <1>1, UnderTop DEF StmtFrames
<1>5. \A k \in 1..3 : Top.to[k] \in C <=> s \notin Known(f, assigned)
  BY <1>1, <1>4, AwaitsIs
<1>6. s \notin Known(Top, assigned) => T \subseteq C
  BY <1>4, <1>5
<1>7. curr' \in C => s \notin Known(f, assigned)
  BY <1>1, <1>5
<1>8. Awaits(f, g, assigned, s, C)
  <2>1. Len(g.to) = 2 /\ g.to[1] = Top.to[1] /\ g.to[2] = Top.to[3]
    BY <1>2
  <2>2. \A k \in 1..Len(g.to) : g.to[k] \in C <=> s \notin Known(f, assigned)
    BY <1>5, <2>1
  <2> QED
    BY <1>2, <2>2, AwaitsIs
<1> HIDE DEF T
<1> QED
  BY <1>1, <1>2, <1>3, <1>4, <1>6, <1>7, <1>8, PassKept

\* Blocks are created: all of them are reached without a store, or none.
LEMMA NewPath ==
  ASSUME IInv, Running, Control, NEW s \in Nat, NEW C,
         Path(s, C, blocks, curr, walk, assigned),
         NEW T, Passes(T), InstsKept, T \subseteq Len(blocks) + 1..Len(blocks'),
         curr' \notin 1..Len(blocks), assigned' = assigned,
         NEW w \in {walk, Butlast(walk)}, w # <<>>,
         Known(Last(w), assigned) = Known(Top, assigned),
         NEW g \in Frames, walk' = Append(w, g), g.scope = Last(w).scope, g.at # "assn",
         g.at # "rhs", \A k \in 1..Len(g.to) : g.to[k] \in Len(blocks) + 1..Len(blocks')
  PROVE  \E D : Path(s, D, blocks', curr', walk', assigned')
<1> DEFINE news == Len(blocks) + 1..Len(blocks')
           D == IF s \in Known(Top, assigned) THEN C ELSE C \cup news
<1>1. C \subseteq 1..Len(blocks) /\ Len(blocks) \in Nat /\ Len(blocks') \in Nat
  BY OnPath DEF Passes
<1>2. \A b \in news : b \notin C
  BY <1>1
<1> HIDE DEF news
<1>3. C \subseteq D /\ D \subseteq C \cup news
  OBVIOUS
<1>4. \A b \in news : b \in D <=> s \notin Known(Top, assigned)
  BY <1>2
<1>5. T \subseteq news /\ \A k \in 1..Len(g.to) : g.to[k] \in news
  BY DEF news
<1>6. s \notin Known(Top, assigned) => T \subseteq D
  BY <1>4, <1>5
<1>7. curr' \in D => s \notin Known(Last(w), assigned)
  BY <1>1
<1> HIDE DEF D
<1>8. Awaits(Last(w), g, assigned, s, D)
  <2>1. \A k \in 1..Len(g.to) : g.to[k] \in D <=> s \notin Known(Last(w), assigned)
    BY <1>4, <1>5
  <2> QED
    BY <2>1, AwaitsIs
<1>9. Path(s, D, blocks', curr', walk', assigned')
  BY <1>3, <1>6, <1>7, <1>8, PassKept DEF news
<1> QED
  BY <1>9

LEMMA BeginWhilePath ==
  ASSUME IInv, Running, Control, BeginWhile,
         NEW s \in Nat, NEW C, Path(s, C, blocks, curr, walk, assigned)
  PROVE  \E D : Path(s, D, blocks', curr', walk', assigned')
<1> DEFINE n == Len(blocks)
           T == {n + 1}
<1>1. /\ Passes(T) /\ InstsKept /\ Len(blocks') = n + 3 /\ curr' = n + 1
  BY BeginWhilePasses
<1>2. PICK g \in Frames : /\ walk' = Append(walk, g) /\ g.at = "while"
                          /\ g.scope = Top.scope /\ g.to = <<n + 1, n + 2, n + 3>>
  BY BeginWhilePasses
<1>3. assigned' = assigned
  BY DEF BeginWhile
<1>4. walk # <<>> /\ Top = Last(walk) /\ n \in Nat
  BY OnPath
<1>5. /\ T \subseteq n + 1..Len(blocks') /\ curr' \notin 1..n
      /\ \A k \in 1..Len(g.to) : g.to[k] \in n + 1..Len(blocks')
  <2>1. n + 1 \in n + 1..n + 3 /\ n + 2 \in n + 1..n + 3 /\ n + 3 \in n + 1..n + 3
        /\ n + 1 \notin 1..n
    BY <1>4
  <2>2. Len(g.to) = 3 /\ g.to[1] = n + 1 /\ g.to[2] = n + 2 /\ g.to[3] = n + 3
    BY <1>2
  <2> QED
    BY <1>1, <2>1, <2>2
<1> HIDE DEF T
<1> QED
  BY <1>1, <1>2, <1>3, <1>4, <1>5, NewPath

LEMMA IfPath ==
  ASSUME IInv, Running, Control, NEW else \in BOOLEAN, If(else),
         NEW s \in Nat, NEW C, Path(s, C, blocks, curr, walk, assigned)
  PROVE  \E D : Path(s, D, blocks', curr', walk', assigned')
<1> DEFINE n == Len(blocks)
           T == {n + 1, n + 2}
           w == Butlast(walk)
<1>1. /\ Passes(T) /\ InstsKept /\ Len(blocks') = n + (IF else THEN 3 ELSE 2)
      /\ curr' = n + 1 /\ w # <<>> /\ Top.at = "if"
  BY IfPasses
<1>2. PICK g \in Frames : /\ walk' = Append(w, g) /\ g.at = "then_block"
                          /\ g.scope = Top.scope
                          /\ g.to = IF else THEN <<n + 2, n + 3>> ELSE <<n + 2>>
  BY IfPasses
<1>3. assigned' = assigned
  BY DEF If
<1>4. n \in Nat
  BY OnPath
<1>5. Last(w).scope = Top.scope /\ Known(Last(w), assigned) = Known(Top, assigned)
  BY <1>1, UnderTop DEF StmtFrames
<1>6. /\ T \subseteq n + 1..Len(blocks') /\ curr' \notin 1..n
      /\ \A k \in 1..Len(g.to) : g.to[k] \in n + 1..Len(blocks')
  <2>1. /\ n + 1 \in n + 1..n + 3 /\ n + 2 \in n + 1..n + 3 /\ n + 3 \in n + 1..n + 3
        /\ n + 1 \in n + 1..n + 2 /\ n + 2 \in n + 1..n + 2 /\ n + 1 \notin 1..n
    BY <1>4
  <2>2. CASE else
    <3>1. Len(g.to) = 2 /\ g.to[1] = n + 2 /\ g.to[2] = n + 3
      BY <1>2, <2>2
    <3> QED
      BY <1>1, <2>1, <2>2, <3>1
  <2>3. CASE ~else
    <3>1. Len(g.to) = 1 /\ g.to[1] = n + 2
      BY <1>2, <2>3
    <3> QED
      BY <1>1, <2>1, <2>3, <3>1
  <2> QED
    BY <2>2, <2>3
<1> HIDE DEF T
<1> QED
  BY <1>1, <1>2, <1>3, <1>5, <1>6, NewPath

LEMMA FinishLhsPath ==
  ASSUME IInv, Running, Control, FinishLhs,
         NEW s \in Nat, NEW C, Path(s, C, blocks, curr, walk, assigned)
  PROVE  \E D : Path(s, D, blocks', curr', walk', assigned')
<1> DEFINE n == Len(blocks)
           T == {n + 1, n + 2}
           w == Butlast(walk)
           f == Last(w)
           x == Top.slot
           D == IF s \in Known(Top, assigned) THEN C
                ELSE IF s = x THEN C \cup {n + 1} ELSE C \cup T
<1>1. /\ Passes(T) /\ Len(blocks') = n + 2 /\ curr' = n + 1 /\ w # <<>>
      /\ Top.at \in LogFrames
  BY FinishLhsPasses
<1>2. PICK v \in Values : blocks'[curr].insts = blocks[curr].insts \o <<Store(x, v)>>
  BY FinishLhsPasses
<1>3. PICK g \in Frames : /\ walk' = Append(w, g) /\ g.at = "rhs" /\ g.slot = x
                          /\ g.scope = Top.scope /\ g.to = <<n + 2>>
  BY FinishLhsPasses
<1>4. assigned' = assigned
  BY DEF FinishLhs
<1>5. /\ n \in Nat /\ C \subseteq 1..n /\ curr \in 1..n /\ blocks \in Seq(BlockRecs)
      /\ FrameOK(Top, unclaimed, next_slot, n) /\ next_temp \in Nat
      /\ Fine(s, C, blocks)
      /\ s \in Known(Top, assigned) /\ curr \in C => Writes(blocks[curr].insts, s)
  BY OnPath, OnTop, ShapeIs
<1>6. f.scope = Top.scope /\ Known(f, assigned) = Known(Top, assigned)
  BY <1>1, UnderTop DEF StmtFrames, LogFrames
<1>7. x \in Nat
  BY <1>1, <1>5 DEF FrameOK
<1>8. /\ n + 1 \notin C /\ n + 2 \notin C /\ n + 1 # n + 2
      /\ n + 1 \in n + 1..Len(blocks') /\ n + 2 \in n + 1..Len(blocks')
  BY <1>1, <1>5
<1> HIDE DEF x
<1>9. /\ LoadsFine(blocks[curr].insts, s) => LoadsFine(blocks'[curr].insts, s)
      /\ Writes(blocks[curr].insts, s) \/ x = s => Writes(blocks'[curr].insts, s)
  <2> DEFINE i == <<Store(x, v)>>
  <2>1. i \in Seq(InstRecs) /\ LoadsFine(i, s) /\ (x = s => Writes(i, s))
    BY <1>5, <1>7, LoadsOf
  <2>2. blocks'[curr].insts = blocks[curr].insts \o i
    BY <1>2
  <2> HIDE DEF i
  <2>3. blocks[curr].insts \in Seq(InstRecs)
    <3>1. blocks[curr] \in BlockRecs
      BY <1>5
    <3> QED
      BY <3>1 DEF BlockRecs
  <2> QED
    BY <2>1, <2>2, <2>3, AppendedLoads
<1>10. C \subseteq D /\ D \subseteq C \cup (n + 1..Len(blocks'))
  BY <1>8
<1>11. curr \in C => /\ LoadsFine(blocks'[curr].insts, s)
                     /\ Writes(blocks'[curr].insts, s) \/ T \subseteq D
  BY <1>5, <1>9 DEF Fine, BlockFine
<1>12. curr' \in D => s \notin Known(f, assigned)
  BY <1>1, <1>6, <1>8
<1>13. LoadsFine(blocks'[curr'].insts, s)
  <2>1. blocks'[curr'] = NewBlock
    BY <1>1, <1>8 DEF Passes
  <2>2. LoadsFine(<<>>, s)
    BY DEF LoadsFine
  <2> QED
    BY <2>1, <2>2, NewBlockIs
<1>14. Awaits(f, g, assigned, s, D)
  <2>1. Len(g.to) = 1 /\ g.to[1] = n + 2
    BY <1>3
  <2>2. n + 2 \in D <=> ~(s \in Known(f, assigned) \/ s = x)
    BY <1>6, <1>8
  <2> QED
    BY <1>3, <2>1, <2>2 DEF Awaits
<1> HIDE DEF T, D
<1>15. Path(s, D, blocks', curr', walk', assigned')
  BY <1>1, <1>3, <1>4, <1>6, <1>10, <1>11, <1>12, <1>13, <1>14, PassPath
<1> QED
  BY <1>15

LEMMA FinishRhsPath ==
  ASSUME IInv, Running, Control, FinishRhs,
         NEW s \in Nat, NEW C, Path(s, C, blocks, curr, walk, assigned)
  PROVE  Path(s, C, blocks', curr', walk', assigned')
<1> DEFINE T == {Top.to[1]}
           w == Butlast(walk)
           f == Last(w)
           x == Top.slot
<1>1. /\ Passes(T) /\ curr' = Top.to[1] /\ walk' = w /\ w # <<>>
      /\ Top.at = "rhs" /\ Len(Top.to) = 1
      /\ blocks'[curr'].insts = <<Load(next_temp + 1, x)>>
  BY FinishRhsPasses
<1>2. PICK v \in Values, u \in Values : blocks'[curr].insts =
        blocks[curr].insts \o <<CmpOp(next_temp, u, IMM(0)), Store(x, v)>>
  BY FinishRhsPasses
<1>3. assigned' = assigned
  BY DEF FinishRhs
<1>4. /\ curr \in 1..Len(blocks) /\ blocks \in Seq(BlockRecs)
      /\ FrameOK(Top, unclaimed, next_slot, Len(blocks)) /\ next_temp \in Nat
      /\ Fine(s, C, blocks)
      /\ s \in Known(Top, assigned) /\ curr \in C => Writes(blocks[curr].insts, s)
  BY OnPath, OnTop, ShapeIs
<1>5. x \in Nat
  BY <1>1, <1>4 DEF FrameOK, LogFrames
<1>6. Awaits(f, Top, assigned, s, C) /\ Known(f, assigned) = Known(Top, assigned)
  BY <1>1, UnderTop DEF StmtFrames
<1>7. Top.to[1] \in C <=> ~(s \in Known(Top, assigned) \/ s = x)
  BY <1>1, <1>6 DEF Awaits
<1> HIDE DEF x
<1>8. /\ LoadsFine(blocks[curr].insts, s) => LoadsFine(blocks'[curr].insts, s)
      /\ Writes(blocks[curr].insts, s) \/ x = s => Writes(blocks'[curr].insts, s)
  <2> DEFINE i == <<CmpOp(next_temp, u, IMM(0)), Store(x, v)>>
  <2>1. i \in Seq(InstRecs) /\ LoadsFine(i, s) /\ (x = s => Writes(i, s))
    BY <1>4, <1>5, LoadsOf
  <2>2. blocks'[curr].insts = blocks[curr].insts \o i
    BY <1>2
  <2> HIDE DEF i
  <2>3. blocks[curr].insts \in Seq(InstRecs)
    <3>1. blocks[curr] \in BlockRecs
      BY <1>4
    <3> QED
      BY <3>1 DEF BlockRecs
  <2> QED
    BY <2>1, <2>2, <2>3, AppendedLoads
<1>9. curr \in C => /\ LoadsFine(blocks'[curr].insts, s)
                    /\ Writes(blocks'[curr].insts, s) \/ T \subseteq C
  BY <1>4, <1>7, <1>8 DEF Fine, BlockFine
<1>10. curr' \in C => LoadsFine(blocks'[curr'].insts, s) /\ s \notin Known(f, assigned)
  <2>1. ASSUME curr' \in C PROVE LoadsFine(blocks'[curr'].insts, s)
    <3>1. s # x
      BY <1>1, <1>7, <2>1
    <3>2. Len(<<Load(next_temp + 1, x)>>) = 1
          /\ <<Load(next_temp + 1, x)>>[1].slot = x
      BY DEF Load, Inst
    <3> QED
      BY <1>1, <3>1, <3>2 DEF LoadsFine
  <2> QED
    BY <1>1, <1>6, <1>7, <2>1
<1> HIDE DEF T
<1> QED
  BY <1>1, <1>3, <1>9, <1>10, PassPath
-----------------------------------------------------------------------------
\* What a step does while a function is being walked,
LEMMA RunningPath ==
  ASSUME IInv, Running, Control, Initialises, [Next]_vars,
         NEW s \in Nat, NEW C, Path(s, C, blocks, curr, walk, assigned)
  PROVE  \E D : Path(s, D, blocks', curr', walk', assigned')
<1> DEFINE P(D) == Path(s, D, blocks', curr', walk', assigned')
<1>1. ASSUME NEW n, NEW v, NEW insts, Eval(n, v, insts) PROVE P(C)
  BY <1>1, EvalPath
<1>2. ASSUME NEW at \in {"and_lhs", "or_lhs"}, BeginLogOp(at) PROVE P(C)
  BY <1>2, BeginLogOpPath
<1>3. ASSUME NEW else \in BOOLEAN, If(else) PROVE \E D : P(D)
  BY <1>3, IfPath
<1>4. FinishLhs \/ BeginWhile => \E D : P(D)
  BY FinishLhsPath, BeginWhilePath
<1>5. /\ FinishRhs => P(C)
      /\ BeginSimple => P(C)
      /\ VarDec => P(C)
      /\ BareVarDec => P(C)
      /\ Assn => P(C)
      /\ Exit \/ BareExit => P(C)
      /\ CallStmt => P(C)
      /\ EndThen => P(C)
      /\ EndIf => P(C)
      /\ WhileBody => P(C)
      /\ EndWhile => P(C)
      /\ BeginBlock => P(C)
      /\ EndBlock => P(C)
      /\ EndFunction => P(C)
  BY FinishRhsPath, BeginSimplePath, VarDecPath, BareVarDecPath, AssnPath, ExitPath,
     CallStmtPath, EndThenPath, EndIfPath, WhileBodyPath, EndWhilePath, BeginBlockPath,
     EndBlockPath, EndFunctionPath
<1>6. UNCHANGED vars => P(C)
  BY DEF vars
<1>7. ~BeginFunction
  BY DEF BeginFunction
<1> HIDE DEF P
<1>8. \E D : P(D)
  BY <1>1, <1>2, <1>3, <1>4, <1>5, <1>6, <1>7, StepIs
<1> QED
  BY <1>8 DEF P

LEMMA InitPaths == Init => Paths
<1> SUFFICES ASSUME Init PROVE Paths
  OBVIOUS
<1>1. /\ blocks = Entry /\ curr = 1 /\ walk = <<FirstFrame(0)>>
      /\ assigned = 0..NumParams - 1
  BY DEF Init, Entry, FirstFrame
<1>2. ASSUME NEW s \in Nat PROVE Path(s, {1}, blocks, curr, walk, assigned)
  BY <1>1, EntryPath
<1> QED
  BY <1>2 DEF Paths

\* and what it does between two functions.
LEMMA StepPaths == IInv /\ Control /\ Initialises /\ Paths /\ [Next]_vars => Paths'
<1> SUFFICES ASSUME IInv, Control, Initialises, Paths, [Next]_vars,
                    NEW s \in Nat
             PROVE  \E D : Path(s, D, blocks', curr', walk', assigned')
  BY DEF Paths
<1>1. PICK C : Path(s, C, blocks, curr, walk, assigned)
  BY DEF Paths
<1>2. CASE Running
  BY <1>1, <1>2, RunningPath
<1>3. CASE BeginFunction
  <2>1. /\ blocks' = Entry /\ curr' = 1 /\ walk' = <<FirstFrame(Height)>>
        /\ assigned' = 0..NumParams - 1
    BY <1>3 DEF BeginFunction, Entry, FirstFrame
  <2>2. Height \in Nat
    BY ShapeIs
  <2> QED
    BY <2>1, <2>2, EntryPath
<1>4. CASE UNCHANGED vars
  BY <1>1, <1>4 DEF vars
<1> QED
  BY <1>2, <1>3, <1>4, NotRunning

LEMMA PathsLoads == IInv /\ Paths => LoadsFollowStores
<1> SUFFICES ASSUME IInv, Paths, NEW s \in 0..next_slot - 1,
                    NEW b \in ReachedThrough({c \in BlockIds :
                                ~StoresBefore(c, Len(blocks[c].insts), s)}),
                    NEW i \in Insts(b), InstAt(b, i).type = "IR_LOAD", InstAt(b, i).slot = s
             PROVE  StoresBefore(b, i - 1, s)
  BY DEF LoadsFollowStores
<1> DEFINE silent == {c \in BlockIds : ~StoresBefore(c, Len(blocks[c].insts), s)}
<1>1. s \in Nat
  BY ShapeIs
<1>2. PICK C : Path(s, C, blocks, curr, walk, assigned)
  BY <1>1 DEF Paths
<1>3. /\ C \subseteq 1..Len(blocks) /\ 1 \in C
      /\ \A c \in C : /\ LoadsFine(blocks[c].insts, s)
                      /\ Writes(blocks[c].insts, s) \/ To(blocks[c]) \subseteq C
  BY <1>2 DEF Path, Fine, BlockFine
<1>4. BlockIds = 1..Len(blocks) /\ blocks \in Seq(BlockRecs)
  BY DEF BlockIds, IInv, BlocksOK
<1>5. ASSUME NEW c \in C \cap silent PROVE Succs(c) \subseteq C
  <2>1. ~Writes(blocks[c].insts, s)
    BY DEF Writes, StoredIn, StoresBefore, InstAt
  <2>2. Succs(c) = To(blocks[c])
    BY <1>3, <1>4, SuccsAre DEF To
  <2> QED
    BY <1>3, <2>1, <2>2
<1> HIDE DEF silent
<1>6. ReachedThrough(silent) \subseteq C
  BY <1>3, <1>5, ReachedLeast
<1>7. b \in C
  BY <1>6 DEF silent
<1>8. Insts(b) = 1..Len(blocks[b].insts)
  <2>1. blocks[b] \in BlockRecs
    BY <1>3, <1>4, <1>7
  <2>2. blocks[b].insts \in Seq(InstRecs)
    BY <2>1 DEF BlockRecs
  <2> QED
    BY <2>2 DEF Insts
<1> QED
  BY <1>3, <1>7, <1>8 DEF LoadsFine, StoredIn, StoresBefore, InstAt

\* Whatever path control takes to a load, a store to the same slot comes first:
\* no variable is read that the code has not initialised, and a short-circuit
\* operator has its result in its slot whichever side decided it.  Of programs in
\* which a bare declaration and an assignment meet the analysis of def_assn,
\* which takes one branch's assignment for both's, lets some through that are not
\* so.
THEOREM LoadsAreInitialised == Initialises /\ Spec => []LoadsFollowStores
<1>1. Init => Paths
  BY InitPaths
<1>2. Initialises /\ IInv /\ Control /\ Paths /\ [Next]_vars => Paths'
  BY StepPaths
<1>3. IInv /\ Paths => LoadsFollowStores
  BY PathsLoads
<1> SUFFICES ASSUME Initialises PROVE Spec => []LoadsFollowStores
  OBVIOUS
<1>4. IInv /\ Control /\ Paths /\ [Next]_vars => Paths'
  BY <1>2
<1>5. Spec => [](IInv /\ Control)
  BY ControlInvariant
<1> QED
  BY <1>1, <1>3, <1>4, <1>5, PTL DEF Spec
-----------------------------------------------------------------------------
\* The order in which the blocks were created.  A temp has been defined in block
\* n or one created earlier.
Seen(bs, t, n) == \E c, k \in Nat : DefAt(bs, t, c, k) /\ c <= n
SeenValue(bs, v, n) == \A t \in Nat : v = TEMP(t) => Seen(bs, t, n)

\* Instructions read what is defined in blocks created earlier, or further up.
Ordered(bs) ==
  \A t, b, i \in Nat :
    i > 0 /\ ReadAt(bs, t, b, i) =>
      \E c, k \in Nat : DefAt(bs, t, c, k) /\ (c < b \/ (c = b /\ k < i))

\* What waits on the stack may be read in the current block, and what has waited
\* since before a short-circuit operator in the block where its ways join.
Waits(bs, s, u, c, w) ==
  \A k \in u + 1..Len(s) :
    /\ SeenValue(bs, s[k], c)
    /\ \A l \in 1..Len(w) :
         w[l].at = "rhs" /\ k <= w[l].base => SeenValue(bs, s[k], w[l].to[1])

Order == Ordered(blocks) /\ Waits(blocks, val_stack, unclaimed, curr, walk) /\ ~foreign

Grows(bs, new) == \A t, c, k \in Nat : DefAt(bs, t, c, k) => DefAt(new, t, c, k)

LEMMA AddsGrows ==
  ASSUME NEW bs, NEW new, NEW d, NEW b, NEW R
  PROVE  /\ \A m : Adds(bs, new, d, b, m, R) => Grows(bs, new)
         /\ Appends(bs, new, d, b, R) => Grows(bs, new)
         /\ Silent(bs, new) => Grows(bs, new)
BY DEF Adds, Appends, Silent, Grows

LEMMA SeenGrows ==
  ASSUME NEW bs, NEW new, Grows(bs, new), NEW v, NEW n \in Nat, NEW m \in Nat, n <= m,
         SeenValue(bs, v, n)
  PROVE  SeenValue(new, v, m)
<1> SUFFICES ASSUME NEW t \in Nat, v = TEMP(t) PROVE Seen(new, t, m)
  BY DEF SeenValue
<1>1. PICK c \in Nat, k \in Nat : DefAt(bs, t, c, k) /\ c <= n
  BY DEF SeenValue, Seen
<1>2. DefAt(new, t, c, k) /\ c <= m
  BY <1>1 DEF Grows
<1> QED
  BY <1>2 DEF Seen

LEMMA GrowsAlong ==
  ASSUME NEW one, NEW two, NEW three, Grows(one, two), Grows(two, three)
  PROVE  Grows(one, three)
BY DEF Grows

\* The code grows and stays in order: what an instruction at the end of a block
\* reads has been seen there,
LEMMA OrderedAppends ==
  ASSUME NEW bs, NEW new, NEW d, NEW b, NEW R, Ordered(bs), Appends(bs, new, d, b, R),
         \A t \in R : Seen(bs, t, b)
  PROVE  Ordered(new)
<1>1. PICK m \in Nat : /\ Adds(bs, new, d, b, m, R)
                       /\ \A t, k \in Nat : DefAt(bs, t, b, k) => k < m
  BY DEF Appends
<1>2. Grows(bs, new)
  BY AddsGrows
<1> SUFFICES ASSUME NEW t \in Nat, NEW e \in Nat, NEW i \in Nat, i > 0, ReadAt(new, t, e, i)
             PROVE  \E c, k \in Nat : DefAt(new, t, c, k) /\ (c < e \/ (c = e /\ k < i))
  BY DEF Ordered
<1>3. CASE ReadAt(bs, t, e, i)
  <2>1. PICK c \in Nat, k \in Nat : DefAt(bs, t, c, k) /\ (c < e \/ (c = e /\ k < i))
    BY <1>3 DEF Ordered
  <2> QED
    BY <1>2, <2>1 DEF Grows
<1>4. CASE ~ReadAt(bs, t, e, i)
  <2>1. t \in R /\ e = b /\ i = m
    BY <1>1, <1>4 DEF Adds
  <2>2. PICK c \in Nat, k \in Nat : DefAt(bs, t, c, k) /\ c <= b
    BY <2>1 DEF Seen
  <2>3. c < e \/ (c = e /\ k < i)
    BY <1>1, <2>1, <2>2
  <2> QED
    BY <1>2, <2>2, <2>3 DEF Grows
<1> QED
  BY <1>3, <1>4

\* and what a terminator reads does not matter.
LEMMA OrderedEnds ==
  ASSUME NEW bs, NEW new, NEW d, NEW b, NEW R, Ordered(bs), Adds(bs, new, d, b, 0, R)
  PROVE  Ordered(new)
<1>1. Grows(bs, new)
  BY AddsGrows
<1> SUFFICES ASSUME NEW t \in Nat, NEW e \in Nat, NEW i \in Nat, i > 0, ReadAt(new, t, e, i)
             PROVE  \E c, k \in Nat : DefAt(new, t, c, k) /\ (c < e \/ (c = e /\ k < i))
  BY DEF Ordered
<1>2. ReadAt(bs, t, e, i)
  BY DEF Adds
<1>3. PICK c \in Nat, k \in Nat : DefAt(bs, t, c, k) /\ (c < e \/ (c = e /\ k < i))
  BY <1>2 DEF Ordered
<1> QED
  BY <1>1, <1>3 DEF Grows

LEMMA OrderedSilent ==
  ASSUME NEW bs, NEW new, Ordered(bs), Silent(bs, new)
  PROVE  Ordered(new)
BY OrderedEnds DEF Silent

LEMMA EntryOrdered == Ordered(Entry)
<1> SUFFICES ASSUME NEW t \in Nat, NEW b \in Nat, NEW i \in Nat, ReadAt(Entry, t, b, i)
             PROVE  \E c, k \in Nat : DefAt(Entry, t, c, k) /\ (c < b \/ (c = b /\ k < i))
  BY DEF Ordered
<1>1. b = 1 /\ i = 2 * t + 2 /\ t \in 0..NumParams - 1
  BY EntryPlaces
<1>2. 2 * t + 1 \in Nat /\ 2 * t + 1 < i /\ 1 \in Nat
  BY <1>1
<1>3. DefAt(Entry, t, 1, 2 * t + 1)
  BY <1>1, <1>2, EntryPlaces
<1> QED
  BY <1>1, <1>2, <1>3
-----------------------------------------------------------------------------
\* Between statements nothing waits.
LEMMA NothingWaits ==
  ASSUME NEW bs, NEW s, NEW u \in Nat, Len(s) = u, NEW c, NEW w
  PROVE  Waits(bs, s, u, c, w)
<1>1. u + 1..Len(s) = {}
  OBVIOUS
<1> QED
  BY <1>1 DEF Waits

\* Steps that begin and end statements.
Listing == \/ BeginSimple \/ BeginBlock \/ EndBlock \/ EndThen \/ EndWhile \/ EndIf
           \/ BeginWhile \/ EndFunction \/ BareExit
Ending  == \/ VarDec \/ Assn \/ Exit \/ WhileBody \/ \E else \in BOOLEAN : If(else)

LEMMA ListingLeaves ==
  ASSUME IInv, Running, Listing
  PROVE  Silent(blocks, blocks') /\ Len(val_stack') = unclaimed' /\ unclaimed' \in Nat
         /\ foreign' = foreign
<1>1. InStmts
  BY Zenon DEF Listing, BeginSimple, BeginStmt, BeginBlock, EndBlock, EndThen, EndWhile, EndIf,
     BeginWhile, EndFunction, BareExit
<1>2. Height = unclaimed /\ unclaimed \in Nat /\ Height = Len(val_stack)
  BY <1>1, OnStatement, ShapeIs DEF Height
<1>3. unclaimed' = unclaimed /\ foreign' = foreign
  <2>1. program' = program
    BY Zenon DEF Listing, BeginSimple, BeginStmt, BeginBlock, EndBlock, EndThen, EndWhile, EndIf,
       BeginWhile, EndFunction, BareExit
  <2> QED
    BY <2>1 DEF program
<1>4. Silent(blocks, blocks') /\ val_stack' = val_stack
  <2>1. Quietly
    BY Zenon DEF Listing, Quietly
  <2> QED
    BY <2>1, QuietSilent
<1> QED
  BY <1>2, <1>3, <1>4

LEMMA EndingLeaves ==
  ASSUME IInv, Running, Ending
  PROVE  ExprDone /\ Takes /\ Len(val_stack') = unclaimed' /\ unclaimed' \in Nat
         /\ foreign' = foreign
<1>1. ExprDone /\ Takes
  <2>1. Taking
    BY Zenon DEF Ending, Taking
  <2> QED
    BY <2>1, TakingTakes
<1>2. Top.at \in HeadFrames
  BY DEF Ending, VarDec, Assn, Exit, WhileBody, If, HeadFrames
<1>3. Len(Pop(val_stack, 1)) = unclaimed /\ unclaimed \in Nat
  BY <1>1, <1>2, OnHeadValue, ShapeIs
<1>4. unclaimed' = unclaimed /\ foreign' = foreign
  BY DEF Ending, VarDec, Assn, Exit, WhileBody, If, program
<1> QED
  BY <1>1, <1>3, <1>4 DEF Takes

LEMMA CallStmtLeaves ==
  ASSUME IInv, Running, CallStmt
  PROVE  InExpr /\ Len(val_stack') = unclaimed' /\ unclaimed' \in Nat /\ foreign' = foreign
<1>1. /\ InExpr /\ Top.at = "call_stmt" /\ Pending = Operands
      /\ val_stack' = Append(Pop(val_stack, Operands), TEMP(next_temp))
      /\ unclaimed' = unclaimed + 1 /\ foreign' = foreign
  BY DEF CallStmt, Push
<1>2. Top.base = unclaimed /\ unclaimed \in Nat
  BY <1>1, OnHead, InExpression DEF HeadFrames
<1>3. Height \in Nat /\ Pending = Height - Top.base /\ Operands \in Nat
  BY <1>1, InExpression DEF Pending
<1>4. Operands <= Height /\ Height - Operands = unclaimed
  BY <1>1, <1>2, <1>3
<1>5. Pop(val_stack, Operands) \in Seq(Values) /\ Len(Pop(val_stack, Operands)) = Height - Operands
  BY <1>3, <1>4, StackIs
<1> DEFINE r == Pop(val_stack, Operands)
<1> HIDE DEF r
<1>6. Len(Append(r, TEMP(next_temp))) = Len(r) + 1
  <2>1. r \in Seq(Values) /\ TEMP(next_temp) \in Values
    BY <1>5, RunningIs, ValuesAre DEF r
  <2> QED
    BY <2>1
<1>7. Len(val_stack') = unclaimed + 1
  BY <1>1, <1>4, <1>5, <1>6 DEF r
<1> QED
  BY <1>1, <1>2, <1>7
-----------------------------------------------------------------------------
\* The frames above that of an operator began no lower.
LEMMA BasesRise ==
  ASSUME IInv, Running
  PROVE  \A l \in 1..Len(walk) : walk[l].at = "rhs" => walk[l].base <= Top.base
<1>1. /\ walk \in Seq(Frames) /\ walk # <<>> /\ Top = walk[Len(walk)] /\ Len(walk) \in Nat
      /\ WalkOK(walk, unclaimed, next_slot, Len(blocks))
  BY RunningIs DEF IInv, Last
<1> SUFFICES ASSUME NEW l \in 1..Len(walk), walk[l].at = "rhs"
             PROVE  walk[l].base <= Top.base
  OBVIOUS
<1> DEFINE S == {d \in Nat : l + d <= Len(walk) => walk[l].base <= walk[l + d].base}
<1>2. \A k \in 1..Len(walk) : walk[k].base \in Nat
  <2>1. \A k \in 1..Len(walk) : walk[k] \in Frames
    BY <1>1
  <2> QED
    BY <2>1 DEF Frames
<1>3. 0 \in S
  BY <1>2
<1>4. ASSUME NEW d \in Nat, d \in S PROVE d + 1 \in S
  <2> SUFFICES ASSUME l + (d + 1) <= Len(walk) PROVE walk[l].base <= walk[l + (d + 1)].base
    OBVIOUS
  <2>1. l + d \in 1..Len(walk) - 1 /\ (l + d) + 1 = l + (d + 1) /\ l + (d + 1) \in 1..Len(walk)
    BY <1>1
  <2>2. walk[l].base <= walk[l + d].base
    BY <1>4, <2>1
  <2>3. walk[l].at \notin StmtFrames
    BY DEF StmtFrames
  <2>4. walk[l + (d + 1)].at \in LogFrames
    BY <1>1, <2>1, <2>3 DEF WalkOK
  <2>5. PairOK(walk[l + d], walk[l + (d + 1)])
    BY <1>1, <2>1 DEF WalkOK
  <2>6. walk[l + d].base <= walk[l + (d + 1)].base
    BY <2>4, <2>5 DEF PairOK
  <2> DEFINE x == walk[l].base
             y == walk[l + d].base
             z == walk[l + (d + 1)].base
  <2>7. x \in Nat /\ y \in Nat /\ z \in Nat /\ x <= y /\ y <= z
    <3>1. l + d \in 1..Len(walk)
      BY <1>1, <2>1
    <3> QED
      BY <1>2, <2>1, <2>2, <2>6, <3>1
  <2> HIDE DEF x, y, z
  <2>8. x <= z
    BY <2>7
  <2> QED
    BY <2>8 DEF x, z
<1>5. Len(walk) - l \in Nat /\ l + (Len(walk) - l) = Len(walk)
  <2> DEFINE n == Len(walk)
  <2>1. n \in Nat /\ l \in 1..n
    BY <1>1
  <2> HIDE DEF n, S
  <2>2. n - l \in Nat /\ l + (n - l) = n
    BY ONLY <2>1
  <2> QED
    BY <2>2 DEF n
<1> HIDE DEF S
<1>6. Len(walk) - l \in S
  BY <1>3, <1>4, <1>5, Induction
<1> QED
  BY <1>1, <1>5, <1>6 DEF S

\* What an unfinished expression needs of Waits and of the walk.
LEMMA WaitingIs ==
  ASSUME IInv, InExpr, Order
  PROVE  /\ Running /\ unclaimed \in Nat /\ unclaimed <= Top.base /\ Top.base \in Nat
         /\ Height \in Nat /\ Height = Len(val_stack) /\ Top.base <= Height
         /\ val_stack \in Seq(Values) /\ curr \in 1..Len(blocks) /\ Len(blocks) \in Nat
         /\ walk \in Seq(Frames) /\ walk # <<>> /\ next_temp \in Nat /\ Top \in Frames
         /\ Ordered(blocks) /\ ~foreign
         /\ \A k \in unclaimed + 1..Height : SeenValue(blocks, val_stack[k], curr)
         /\ \A k \in unclaimed + 1..Height : \A l \in 1..Len(walk) :
              walk[l].at = "rhs" /\ k <= walk[l].base
                => SeenValue(blocks, val_stack[k], walk[l].to[1])
         /\ \A l \in 1..Len(walk) : walk[l].at = "rhs" =>
              walk[l].base <= Top.base /\ walk[l].base \in Nat /\ walk[l].to[1] \in 1..Len(blocks)
<1>1. Running
  BY DEF InExpr
<1>2. /\ unclaimed \in Nat /\ unclaimed <= Top.base /\ Top.base \in Nat /\ Height \in Nat
      /\ Top.base <= Height /\ Top \in Frames
  BY InExpression
<1>3. /\ Height = Len(val_stack) /\ val_stack \in Seq(Values) /\ curr \in 1..Len(blocks)
      /\ Len(blocks) \in Nat /\ walk \in Seq(Frames) /\ walk # <<>> /\ next_temp \in Nat
  BY <1>1, RunningIs
<1>4. /\ Ordered(blocks) /\ ~foreign
      /\ \A k \in unclaimed + 1..Height : SeenValue(blocks, val_stack[k], curr)
      /\ \A k \in unclaimed + 1..Height : \A l \in 1..Len(walk) :
           walk[l].at = "rhs" /\ k <= walk[l].base
             => SeenValue(blocks, val_stack[k], walk[l].to[1])
  BY <1>3 DEF Order, Waits
<1>5. ASSUME NEW l \in 1..Len(walk), walk[l].at = "rhs"
      PROVE  walk[l].base <= Top.base /\ walk[l].base \in Nat /\ walk[l].to[1] \in 1..Len(blocks)
  <2>1. walk[l].base <= Top.base
    BY <1>1, <1>5, BasesRise
  <2>2. walk[l] \in Frames /\ FrameOK(walk[l], unclaimed, next_slot, Len(blocks))
    BY <1>3 DEF IInv, WalkOK
  <2>3. walk[l].base \in Nat
    BY <2>2 DEF Frames
  <2>4. Len(walk[l].to) = 1
    BY <1>5, <2>2 DEF FrameOK, Targets
  <2>5. walk[l].to[1] \in 1..Len(blocks)
    BY <2>2, <2>4 DEF FrameOK
  <2> QED
    BY <2>1, <2>3, <2>5
<1> QED
  BY <1>1, <1>2, <1>3, <1>4, <1>5

\* Instructions read what is at the top of the stack.
LEMMA LastSeen ==
  ASSUME IInv, InExpr, Order, NEW n \in Nat, n <= Pending
  PROVE  \A t \in LastTemps(n) : Seen(blocks, t, curr)
<1>1. /\ unclaimed \in Nat /\ unclaimed <= Top.base /\ Top.base \in Nat /\ Height \in Nat
      /\ \A k \in unclaimed + 1..Height : SeenValue(blocks, val_stack[k], curr)
  BY WaitingIs
<1>2. Pending = Height - Top.base
  BY DEF Pending
<1> SUFFICES ASSUME NEW t \in LastTemps(n) PROVE Seen(blocks, t, curr)
  OBVIOUS
<1>3. t \in Nat
  BY DEF LastTemps
<1>4. PICK k \in Height - n + 1..Height : val_stack[k] = TEMP(t)
  BY DEF LastTemps
<1>5. k \in unclaimed + 1..Height
  <2> DEFINE h == Height
             b == Top.base
             p == Pending
  <2>1. h \in Nat /\ b \in Nat /\ p = h - b /\ n <= p /\ unclaimed <= b /\ k \in h - n + 1..h
    BY <1>1, <1>2, <1>4
  <2> HIDE DEF h, b, p
  <2>2. k \in unclaimed + 1..h
    BY <1>1, <2>1
  <2> QED
    BY <2>2 DEF h
<1> QED
  BY <1>1, <1>3, <1>4, <1>5 DEF SeenValue

LEMMA LastOneSeen ==
  ASSUME IInv, ExprDone, Order
  PROVE  \A t \in LastTemp : Seen(blocks, t, curr)
<1>1. InExpr /\ Last(val_stack) = val_stack[Height] /\ Height \in Nat \ {0}
      /\ Height = Top.base + 1 /\ Top.base \in Nat
  BY OnValue
<1>2. /\ unclaimed \in Nat /\ unclaimed <= Top.base
      /\ \A k \in unclaimed + 1..Height : SeenValue(blocks, val_stack[k], curr)
  BY <1>1, WaitingIs
<1>3. Height \in unclaimed + 1..Height
  BY <1>1, <1>2
<1>4. SeenValue(blocks, Last(val_stack), curr)
  BY <1>1, <1>2, <1>3
<1> QED
  BY <1>4 DEF LastTemp, SeenValue

LEMMA TakesOrdered ==
  ASSUME IInv, ExprDone, Order, Takes
  PROVE  Ordered(blocks') /\ Grows(blocks, blocks')
<1>1. Ordered(blocks)
  BY DEF Order
<1>2. CASE Appends(blocks, blocks', NoTemp, curr, LastTemp)
  BY <1>1, <1>2, LastOneSeen, OrderedAppends, AddsGrows
<1>3. CASE Adds(blocks, blocks', NoTemp, curr, 0, LastTemp)
  BY <1>1, <1>3, OrderedEnds, AddsGrows
<1> QED
  BY <1>2, <1>3 DEF Takes

LEMMA MakesOrdered ==
  ASSUME IInv, InExpr, Order, NEW n, Makes(n)
  PROVE  Ordered(blocks') /\ Grows(blocks, blocks') /\ Seen(blocks', next_temp, curr)
<1>1. n \in Nat /\ n <= Pending /\ Appends(blocks, blocks', next_temp, curr, LastTemps(n))
  BY DEF Makes
<1>2. Ordered(blocks)
  BY DEF Order
<1>3. \A t \in LastTemps(n) : Seen(blocks, t, curr)
  BY <1>1, LastSeen
<1>4. Ordered(blocks') /\ Grows(blocks, blocks')
  BY <1>1, <1>2, <1>3, OrderedAppends, AddsGrows
<1>5. PICK m \in Nat : Adds(blocks, blocks', next_temp, curr, m, LastTemps(n))
  BY <1>1 DEF Appends
<1>6. next_temp \in Nat /\ curr \in Nat
  BY WaitingIs
<1>7. DefAt(blocks', next_temp, curr, m)
  BY <1>5, <1>6 DEF Adds
<1> QED
  BY <1>4, <1>6, <1>7 DEF Seen
-----------------------------------------------------------------------------
LEMMA EvalOrder ==
  ASSUME IInv, Running, Order, NEW n, NEW v, NEW insts, Eval(n, v, insts)
  PROVE  Order'
<1>1. /\ InExpr /\ n \in Nat /\ n <= Pending /\ curr' = curr /\ walk' = walk
      /\ unclaimed' = unclaimed /\ foreign' = foreign
      /\ val_stack' = Append(SubSeq(val_stack, 1, Height - n), v)
  BY DEF Eval, program
<1>2. /\ unclaimed \in Nat /\ unclaimed <= Top.base /\ Top.base \in Nat
      /\ Height \in Nat /\ curr \in Nat /\ Ordered(blocks) /\ ~foreign
      /\ next_temp \in Nat
      /\ \A k \in unclaimed + 1..Height : SeenValue(blocks, val_stack[k], curr)
      /\ \A k \in unclaimed + 1..Height : \A l \in 1..Len(walk) :
           walk[l].at = "rhs" /\ k <= walk[l].base
             => SeenValue(blocks, val_stack[k], walk[l].to[1])
      /\ \A l \in 1..Len(walk) : walk[l].at = "rhs" =>
           walk[l].base <= Top.base /\ walk[l].base \in Nat /\ walk[l].to[1] \in Nat
  <2>1. /\ unclaimed \in Nat /\ unclaimed <= Top.base /\ Top.base \in Nat
        /\ Height \in Nat /\ curr \in 1..Len(blocks) /\ Len(blocks) \in Nat
        /\ next_temp \in Nat /\ Ordered(blocks) /\ ~foreign
    BY <1>1, WaitingIs
  <2>2. \A k \in unclaimed + 1..Height : SeenValue(blocks, val_stack[k], curr)
    BY <1>1, WaitingIs
  <2>3. \A k \in unclaimed + 1..Height : \A l \in 1..Len(walk) :
          walk[l].at = "rhs" /\ k <= walk[l].base
            => SeenValue(blocks, val_stack[k], walk[l].to[1])
    BY <1>1, WaitingIs
  <2>4. ASSUME NEW l \in 1..Len(walk), walk[l].at = "rhs"
        PROVE  walk[l].base <= Top.base /\ walk[l].base \in Nat /\ walk[l].to[1] \in Nat
    <3>1. walk[l].base <= Top.base /\ walk[l].base \in Nat /\ walk[l].to[1] \in 1..Len(blocks)
      BY <1>1, <2>4, WaitingIs
    <3> QED
      BY <2>1, <3>1
  <2>5. curr \in Nat
    BY <2>1
  <2> QED
    BY Zenon, <2>1, <2>2, <2>3, <2>4, <2>5
<1> DEFINE r == SubSeq(val_stack, 1, Height - n)
           h == Height
           b == Top.base
<1>3. h - n >= b
  <2> DEFINE p == Pending
  <2>1. p = h - b /\ n <= p /\ n \in Nat /\ h \in Nat /\ b \in Nat
    BY <1>1, <1>2 DEF Pending
  <2> HIDE DEF p, h, b
  <2> QED
    BY <2>1
<1>4. /\ r \in Seq(Values) /\ Len(r) = h - n
      /\ \A k \in 1..h - n : r[k] = val_stack[k]
  <2>1. n <= Height
    BY <1>1, <1>2, <1>3
  <2> QED
    BY <1>1, <2>1, StackIs
<1>5. /\ Ordered(blocks') /\ Grows(blocks, blocks') /\ SeenValue(blocks', v, curr) /\ v \in Values
  <2>1. CASE Makes(n)
    <3>1. v = TEMP(next_temp)
      <4>1. val_stack' = Append(Pop(val_stack, n), TEMP(next_temp))
        BY <2>1 DEF Makes
      <4>2. Pop(val_stack, n) = r
        BY DEF Pop, Height
      <4> HIDE DEF r
      <4>3. Append(r, v) = Append(r, TEMP(next_temp))
        BY <1>1, <4>1, <4>2 DEF r
      <4>4. Append(r, v)[Len(r) + 1] = v /\ Append(r, TEMP(next_temp))[Len(r) + 1] = TEMP(next_temp)
        BY <1>4
      <4> QED
        BY <4>3, <4>4
    <3>2. Ordered(blocks') /\ Grows(blocks, blocks') /\ Seen(blocks', next_temp, curr)
      BY <1>1, <2>1, MakesOrdered
    <3>3. TEMP(next_temp) \in Values /\ \A t \in Nat : TEMP(next_temp) = TEMP(t) => t = next_temp
      BY <1>2, ValuesAre
    <3> QED
      BY <3>1, <3>2, <3>3 DEF SeenValue
  <2>2. CASE v \in Imms /\ blocks' = blocks
    <3>1. v \in Values /\ \A t \in Nat : v # TEMP(t)
      BY <2>2, ValuesAre
    <3> QED
      BY <1>2, <2>2, <3>1 DEF SeenValue, Grows
  <2> QED
    BY <2>1, <2>2, EvalMakes
<1> DEFINE s == Append(r, v)
<1> HIDE DEF r
<1>6. /\ Len(s) = (h - n) + 1 /\ s[(h - n) + 1] = v
      /\ \A k \in 1..h - n : s[k] = val_stack[k]
  BY <1>4, <1>5
<1>7. val_stack' = s
  BY <1>1 DEF r
<1> HIDE DEF s
<1>8. ASSUME NEW k \in unclaimed + 1..Len(s)
      PROVE  /\ SeenValue(blocks', s[k], curr)
             /\ \A l \in 1..Len(walk) :
                  walk[l].at = "rhs" /\ k <= walk[l].base => SeenValue(blocks', s[k], walk[l].to[1])
  <2>1. h \in Nat /\ b \in Nat /\ unclaimed <= b
    BY <1>2
  <2>2. CASE k = (h - n) + 1
    <3>1. s[k] = v
      BY <1>6, <2>2
    <3>2. \A l \in 1..Len(walk) : ~(walk[l].at = "rhs" /\ k <= walk[l].base)
      <4> SUFFICES ASSUME NEW l \in 1..Len(walk), walk[l].at = "rhs" PROVE ~(k <= walk[l].base)
        OBVIOUS
      <4>1. walk[l].base <= b /\ walk[l].base \in Nat
        BY <1>2
      <4> HIDE DEF h, b
      <4> QED
        BY <1>1, <1>3, <2>1, <2>2, <4>1
    <3> QED
      BY <1>5, <3>1, <3>2
  <2>3. CASE k # (h - n) + 1
    <3>1. k \in 1..h - n /\ k \in unclaimed + 1..h
      <4> HIDE DEF h, b
      <4> QED
        BY <1>1, <1>2, <1>6, <2>1, <2>3
    <3>2. s[k] = val_stack[k]
      BY <1>6, <3>1
    <3>3. SeenValue(blocks', s[k], curr)
      BY <1>2, <1>5, <3>1, <3>2, SeenGrows
    <3>4. ASSUME NEW l \in 1..Len(walk), walk[l].at = "rhs", k <= walk[l].base
          PROVE  SeenValue(blocks', s[k], walk[l].to[1])
      <4>1. walk[l].to[1] \in Nat /\ SeenValue(blocks, val_stack[k], walk[l].to[1])
        BY <1>2, <3>1, <3>4
      <4> QED
        BY <1>5, <3>2, <4>1, SeenGrows
    <3> QED
      BY <3>3, <3>4
  <2> QED
    BY <2>2, <2>3
<1>9. Waits(blocks', s, unclaimed, curr, walk)
  BY <1>8 DEF Waits
<1> QED
  BY <1>1, <1>2, <1>5, <1>7, <1>9 DEF Order

LEMMA BeginLogOpOrder ==
  ASSUME IInv, Running, Order, NEW at \in {"and_lhs", "or_lhs"}, BeginLogOp(at)
  PROVE  Order'
<1> DEFINE f == Frame(at, Height, next_slot, <<>>, Top.scope)
<1>1. /\ walk' = Append(walk, f) /\ blocks' = blocks /\ val_stack' = val_stack /\ curr' = curr
      /\ unclaimed' = unclaimed /\ foreign' = foreign
  BY DEF BeginLogOp, Push, program
<1>2. f.at # "rhs"
  BY DEF Frame
<1>3. walk \in Seq(Frames) /\ Len(walk) \in Nat
  BY RunningIs
<1> HIDE DEF f
<1>4. Len(walk') = Len(walk) + 1 /\ walk'[Len(walk) + 1] = f
      /\ \A l \in 1..Len(walk) : walk'[l] = walk[l]
  BY <1>1, <1>3
<1>5. \A l \in 1..Len(walk') : walk'[l].at = "rhs" => l \in 1..Len(walk) /\ walk'[l] = walk[l]
  BY <1>2, <1>3, <1>4
<1>6. Waits(blocks, val_stack, unclaimed, curr, walk')
  BY <1>5 DEF Order, Waits
<1> QED
  BY <1>1, <1>6 DEF Order

\* The operand on the left: what still waits was there when the operator began.
LEMMA FinishLhsOrder ==
  ASSUME IInv, Running, Order, FinishLhs
  PROVE  Order'
<1> DEFINE n == Len(blocks)
           g == Frame("rhs", Top.base, Top.slot, <<n + 2>>, Top.scope)
           w == Butlast(walk)
<1>1. /\ ExprDone /\ curr' = n + 1 /\ walk' = Append(Pop(walk, 1), g)
      /\ unclaimed' = unclaimed /\ foreign' = foreign /\ val_stack' = Pop(val_stack, 1)
  BY DEF FinishLhs, Push, program
<1>2. InExpr /\ Height = Top.base + 1 /\ Pop(walk, 1) = w
      /\ Len(Pop(val_stack, 1)) = Height - 1
      /\ \A k \in 1..Height - 1 : Pop(val_stack, 1)[k] = val_stack[k]
  BY <1>1, OnValue
<1>3. /\ unclaimed \in Nat /\ Top.base \in Nat /\ Height \in Nat /\ curr \in 1..n /\ n \in Nat
      /\ walk \in Seq(Frames) /\ walk # <<>> /\ ~foreign
      /\ \A k \in unclaimed + 1..Height : SeenValue(blocks, val_stack[k], curr)
      /\ \A k \in unclaimed + 1..Height : \A l \in 1..Len(walk) :
           walk[l].at = "rhs" /\ k <= walk[l].base
             => SeenValue(blocks, val_stack[k], walk[l].to[1])
      /\ \A l \in 1..Len(walk) : walk[l].at = "rhs" => walk[l].to[1] \in 1..n
  BY <1>2, WaitingIs
<1>4. Ordered(blocks') /\ Grows(blocks, blocks')
  <2>1. Takes
    BY FinishLhsTakes
  <2> QED
    BY <1>1, <2>1, TakesOrdered
<1>5. /\ w \in Seq(Frames) /\ Len(w) = Len(walk) - 1 /\ Len(walk) \in Nat \ {0}
      /\ \A l \in 1..Len(walk) - 1 : w[l] = walk[l]
  BY <1>3, ButlastIs
<1>6. g.to[1] = n + 2
  BY DEF Frame
<1> HIDE DEF w, g
<1>7. /\ Len(walk') = Len(walk) /\ walk'[Len(walk)] = g
      /\ \A l \in 1..Len(walk) - 1 : walk'[l] = walk[l]
  BY <1>1, <1>2, <1>5
<1>8. ASSUME NEW k \in unclaimed + 1..Len(val_stack')
      PROVE  /\ SeenValue(blocks', val_stack'[k], n + 1)
             /\ \A l \in 1..Len(walk') : walk'[l].at = "rhs" /\ k <= walk'[l].base
                  => SeenValue(blocks', val_stack'[k], walk'[l].to[1])
  <2>1. k \in 1..Height - 1 /\ k \in unclaimed + 1..Height /\ val_stack'[k] = val_stack[k]
    BY <1>1, <1>2, <1>3
  <2>2. curr \in Nat /\ n + 1 \in Nat /\ n + 2 \in Nat /\ curr <= n + 1 /\ curr <= n + 2
    BY <1>3
  <2>3. SeenValue(blocks, val_stack[k], curr)
    BY <1>3, <2>1
  <2>4. SeenValue(blocks', val_stack[k], n + 1) /\ SeenValue(blocks', val_stack[k], n + 2)
    BY <1>4, <2>2, <2>3, SeenGrows
  <2>5. ASSUME NEW l \in 1..Len(walk'), walk'[l].at = "rhs", k <= walk'[l].base
        PROVE  SeenValue(blocks', val_stack[k], walk'[l].to[1])
    <3>1. CASE l = Len(walk)
      BY <1>6, <1>7, <2>4, <3>1
    <3>2. CASE l # Len(walk)
      <4>1. l \in 1..Len(walk) /\ walk'[l] = walk[l]
        BY <1>5, <1>7, <3>2
      <4>2. SeenValue(blocks, val_stack[k], walk[l].to[1]) /\ walk[l].to[1] \in Nat
        BY <1>3, <2>1, <2>5, <4>1
      <4> QED
        BY <1>4, <4>1, <4>2, SeenGrows
    <3> QED
      BY <3>1, <3>2
  <2> QED
    BY <2>1, <2>4, <2>5
<1>9. Waits(blocks', val_stack', unclaimed, n + 1, walk')
  BY <1>8 DEF Waits
<1> QED
  BY <1>1, <1>3, <1>4, <1>9 DEF Order

\* The operand on the right: the block where the ways join was created before
\* those of this operand, but after what waits was defined.
LEMMA FinishRhsOrder ==
  ASSUME IInv, Running, Order, FinishRhs
  PROVE  Order'
<1> DEFINE u == next_temp + 1
           w == Butlast(walk)
           j == Top.to[1]
           r == Pop(val_stack, 1)
<1>1. /\ ExprDone /\ Top.at = "rhs" /\ curr' = j /\ walk' = Pop(walk, 1)
      /\ unclaimed' = unclaimed /\ foreign' = foreign /\ val_stack' = Append(r, TEMP(u))
  BY DEF FinishRhs, Push, program
<1>2. InExpr /\ Height = Top.base + 1 /\ Pop(walk, 1) = w /\ Top = Last(walk)
      /\ r \in Seq(Values) /\ Len(r) = Height - 1 /\ Height - 1 \in Nat
      /\ \A k \in 1..Height - 1 : r[k] = val_stack[k]
  BY <1>1, OnValue
<1>3. /\ unclaimed \in Nat /\ unclaimed <= Top.base /\ Top.base \in Nat /\ Height \in Nat
      /\ walk \in Seq(Frames) /\ walk # <<>> /\ ~foreign /\ next_temp \in Nat
      /\ Ordered(blocks) /\ curr \in Nat
      /\ \A k \in unclaimed + 1..Height : \A l \in 1..Len(walk) :
           walk[l].at = "rhs" /\ k <= walk[l].base
             => SeenValue(blocks, val_stack[k], walk[l].to[1])
      /\ \A l \in 1..Len(walk) : walk[l].at = "rhs" =>
           walk[l].base <= Top.base /\ walk[l].base \in Nat /\ walk[l].to[1] \in Nat
  BY <1>2, WaitingIs
<1>4. PICK one, two, jump : Joins(one, two, jump)
  BY FinishRhsJoins
<1>5. /\ Appends(blocks, one, next_temp, curr, LastTemp)
      /\ Appends(one, two, NoTemp, curr, {next_temp})
      /\ Silent(two, jump)
      /\ Appends(jump, blocks', u, j, {})
  BY <1>4 DEF Joins
<1>6. Grows(blocks, one) /\ Grows(one, two) /\ Grows(two, jump) /\ Grows(jump, blocks')
  BY <1>5, AddsGrows
<1>7. Grows(blocks, blocks')
  BY <1>6, GrowsAlong
<1>8. Ordered(one)
  BY <1>1, <1>3, <1>5, LastOneSeen, OrderedAppends
<1>9. Seen(one, next_temp, curr)
  <2>1. PICK m \in Nat : Adds(blocks, one, next_temp, curr, m, LastTemp)
    BY <1>5 DEF Appends
  <2>2. DefAt(one, next_temp, curr, m)
    BY <1>3, <2>1 DEF Adds
  <2> QED
    BY <1>3, <2>2 DEF Seen
<1>10. Ordered(two)
  <2>1. \A t \in {next_temp} : Seen(one, t, curr)
    BY <1>9
  <2> QED
    BY <1>5, <1>8, <2>1, OrderedAppends
<1>11. Ordered(jump)
  BY <1>5, <1>10, OrderedSilent
<1>12. Ordered(blocks')
  <2>1. \A t \in {} : Seen(jump, t, j)
    OBVIOUS
  <2> QED
    BY <1>5, <1>11, <2>1, OrderedAppends
<1>13. /\ w \in Seq(Frames) /\ Len(w) = Len(walk) - 1 /\ Len(walk) \in Nat \ {0}
       /\ \A l \in 1..Len(walk) - 1 : w[l] = walk[l]
  BY <1>3, ButlastIs
<1>14. j \in Nat /\ walk[Len(walk)] = Top
  BY <1>1, <1>2, <1>3, <1>13 DEF Last
<1>15. u \in Nat /\ TEMP(u) \in Values /\ \A t \in Nat : TEMP(u) = TEMP(t) => t = u
  <2>1. u \in Nat
    BY <1>3
  <2> HIDE DEF u
  <2> QED
    BY <2>1, ValuesAre
<1>16. SeenValue(blocks', TEMP(u), j)
  <2>1. PICK m \in Nat : Adds(jump, blocks', u, j, m, {})
    BY <1>5 DEF Appends
  <2>2. DefAt(blocks', u, j, m)
    BY <1>14, <1>15, <2>1 DEF Adds
  <2>3. Seen(blocks', u, j)
    BY <1>14, <2>2 DEF Seen
  <2> QED
    BY <1>15, <2>3 DEF SeenValue
<1> HIDE DEF w, r, u, j
<1>17. walk' = w
  BY <1>1, <1>2
<1>18. /\ Len(val_stack') = Height /\ val_stack'[Height] = TEMP(u)
       /\ \A k \in 1..Height - 1 : val_stack'[k] = val_stack[k]
  <2> DEFINE h == Height
  <2>1. h \in Nat /\ h - 1 \in Nat /\ Len(r) = h - 1 /\ r \in Seq(Values) /\ TEMP(u) \in Values
        /\ \A k \in 1..h - 1 : r[k] = val_stack[k]
    BY <1>2, <1>3, <1>15
  <2> HIDE DEF h
  <2>2. /\ Len(Append(r, TEMP(u))) = h /\ Append(r, TEMP(u))[h] = TEMP(u)
        /\ \A k \in 1..h - 1 : Append(r, TEMP(u))[k] = val_stack[k]
    BY <2>1
  <2> QED
    BY <1>1, <2>2 DEF h
<1>19. ASSUME NEW k \in unclaimed + 1..Len(val_stack')
       PROVE  /\ SeenValue(blocks', val_stack'[k], j)
              /\ \A l \in 1..Len(walk') : walk'[l].at = "rhs" /\ k <= walk'[l].base
                   => SeenValue(blocks', val_stack'[k], walk'[l].to[1])
  <2>1. k \in unclaimed + 1..Height
    BY <1>18
  <2>2. CASE k = Height
    <3>1. ASSUME NEW l \in 1..Len(walk'), walk'[l].at = "rhs", k <= walk'[l].base
          PROVE  FALSE
      <4>1. l \in 1..Len(walk) /\ walk'[l] = walk[l]
        BY <1>13, <1>17
      <4>2. walk[l].base <= Top.base /\ walk[l].base \in Nat /\ k <= walk[l].base
        BY <1>3, <3>1, <4>1
      <4> DEFINE h == Height
                 b == Top.base
                 x == walk[l].base
      <4>3. x <= b /\ x \in Nat /\ k <= x /\ h = b + 1 /\ b \in Nat /\ k = h
        BY <1>2, <1>3, <2>2, <4>2
      <4> HIDE DEF h, b, x
      <4> QED
        BY <4>3
    <3> QED
      BY <1>16, <1>18, <2>2, <3>1
  <2>3. CASE k # Height
    <3>1. k \in 1..Height - 1 /\ val_stack'[k] = val_stack[k] /\ k <= Top.base
      BY <1>2, <1>3, <1>18, <2>1, <2>3
    <3>2. ASSUME NEW l \in 1..Len(walk), walk[l].at = "rhs", k <= walk[l].base
          PROVE  SeenValue(blocks', val_stack'[k], walk[l].to[1])
      <4>1. SeenValue(blocks, val_stack[k], walk[l].to[1]) /\ walk[l].to[1] \in Nat
        BY <1>3, <2>1, <3>2
      <4> QED
        BY <1>7, <3>1, <4>1, SeenGrows
    <3>3. SeenValue(blocks', val_stack'[k], j)
      <4>1. Len(walk) \in 1..Len(walk) /\ walk[Len(walk)] = Top
        BY <1>13, <1>14
      <4> QED
        BY <1>1, <3>1, <3>2, <4>1 DEF j
    <3>4. ASSUME NEW l \in 1..Len(walk'), walk'[l].at = "rhs", k <= walk'[l].base
          PROVE  SeenValue(blocks', val_stack'[k], walk'[l].to[1])
      <4>1. l \in 1..Len(walk) /\ walk'[l] = walk[l]
        BY <1>13, <1>17
      <4> QED
        BY <3>2, <3>4, <4>1
    <3> QED
      BY <3>3, <3>4
  <2> QED
    BY <2>2, <2>3
<1>20. Waits(blocks', val_stack', unclaimed, j, walk')
  BY <1>19 DEF Waits
<1> QED
  BY <1>1, <1>3, <1>12, <1>20 DEF Order, j

\* No declaration takes a value that a call statement has left.
NoneBare == "bare declaration" \notin Nodes

LEMMA StepOrder ==
  ASSUME IInv, Order, NoneBare, [Next]_vars
  PROVE  Order'
<1>1. CASE UNCHANGED vars
  BY <1>1, Zenon DEF vars, program, Order
<1>2. CASE Running /\ ~UNCHANGED vars
  <2>1. ~BeginFunction
    BY <1>2 DEF BeginFunction
  <2>2. ~BareVarDec
    BY Zenon DEF BareVarDec, NoneBare
  <2>3. \/ Listing \/ Ending \/ CallStmt
        \/ \E n, v, insts : Eval(n, v, insts)
        \/ \E at \in {"and_lhs", "or_lhs"} : BeginLogOp(at)
        \/ FinishLhs \/ FinishRhs
    BY <1>2, <2>1, <2>2, StepIs, Zenon DEF Listing, Ending
  <2>4. ASSUME Ordered(blocks'), Len(val_stack') = unclaimed', unclaimed' \in Nat,
               foreign' = foreign
        PROVE  Order'
    BY <2>4, NothingWaits DEF Order
  <2>5. CASE Listing
    BY <1>2, <2>4, <2>5, ListingLeaves, OrderedSilent DEF Order
  <2>6. CASE Ending
    BY <1>2, <2>4, <2>6, EndingLeaves, TakesOrdered
  <2>7. CASE CallStmt
    <3>1. Makes(Operands)
      BY <1>2, <2>7, CallStmtMakes
    <3> QED
      BY <1>2, <2>4, <2>7, <3>1, CallStmtLeaves, MakesOrdered
  <2> QED
    BY <1>2, <2>3, <2>5, <2>6, <2>7, EvalOrder, BeginLogOpOrder, FinishLhsOrder, FinishRhsOrder
<1>3. CASE ~Running /\ ~UNCHANGED vars
  <2>1. BeginFunction
    BY <1>3, NotRunning
  <2>2. /\ blocks' = Entry /\ val_stack' = val_stack /\ unclaimed' = unclaimed /\ ~foreign'
    BY <2>1 DEF BeginFunction, Entry
  <2>3. Len(val_stack) = unclaimed /\ unclaimed \in Nat
    BY <1>3, ShapeIs DEF IInv, HeightOK, Height, Running
  <2> QED
    BY <2>2, <2>3, EntryOrdered, NothingWaits DEF Order
<1> QED
  BY <1>1, <1>2, <1>3
-----------------------------------------------------------------------------
\* The verifier when it has found nothing wrong, and has seen the temps of D
\* defined.
Approving(D) == [temp_def |-> D, reported |-> FALSE]

LEMMA VerifierUpdated ==
  ASSUME NEW D, NEW r, NEW e
  PROVE  /\ [[temp_def |-> D, reported |-> r] EXCEPT !.temp_def = e]
               = [temp_def |-> e, reported |-> r]
         /\ [[temp_def |-> D, reported |-> r] EXCEPT !.reported = e]
               = [temp_def |-> D, reported |-> e]
OBVIOUS

LEMMA StillApproving ==
  ASSUME NEW D
  PROVE  /\ Report(Approving(D), FALSE) = Approving(D)
         /\ \A E : [Approving(D) EXCEPT !.temp_def = E] = Approving(E)
<1>1. Approving(D).reported = FALSE
  BY DEF Approving
<1>2. (Approving(D).reported \/ FALSE) = FALSE
  BY Zenon, <1>1
<1>3. Report(Approving(D), FALSE) = [Approving(D) EXCEPT !.reported = FALSE]
  BY Zenon, <1>2 DEF Report
<1>4. [Approving(D) EXCEPT !.reported = FALSE] = Approving(D)
  <2>1. PICK no : no = FALSE
    OBVIOUS
  <2>2. Approving(D) = [temp_def |-> D, reported |-> no]
    BY Zenon, <2>1 DEF Approving
  <2>3. [Approving(D) EXCEPT !.reported = no] = Approving(D)
    BY <2>2, VerifierUpdated
  <2> QED
    BY Zenon, <2>1, <2>3
<1>5. ASSUME NEW E PROVE [Approving(D) EXCEPT !.temp_def = E] = Approving(E)
  <2>1. PICK no : no = FALSE
    OBVIOUS
  <2>2. /\ Approving(D) = [temp_def |-> D, reported |-> no]
        /\ Approving(E) = [temp_def |-> E, reported |-> no]
    BY Zenon, <2>1 DEF Approving
  <2> QED
    BY <2>2, VerifierUpdated
<1> QED
  BY <1>3, <1>4, <1>5

LEMMA InstructVisited ==
  ASSUME NEW D, NEW i \in InstRecs, NEW E,
         i.dst = NoTemp => E = D, i.dst # NoTemp => i.dst \notin D /\ E = D \cup {i.dst},
         \A k \in 1..Len(i.args) : i.args[k].kind = "IRVAL_TEMP" => i.args[k].id \in E
  PROVE  visit_instruct(Approving(D), i) = Approving(E)
<1>1. define_temp(Approving(D), i.dst) = Approving(E)
  <2>1. CASE i.dst = NoTemp
    BY <2>1 DEF define_temp
  <2>2. CASE i.dst # NoTemp
    <3>1. i.dst \notin Approving(D).temp_def /\ Approving(D).temp_def = D
      BY <2>2 DEF Approving
    <3>2. Report(Approving(D), i.dst \in Approving(D).temp_def) = Approving(D)
      <4>1. (i.dst \in Approving(D).temp_def) = FALSE
        BY <3>1
      <4> QED
        BY Zenon, <4>1, StillApproving
    <3>3. [Approving(D) EXCEPT !.temp_def = @ \cup {i.dst}] = Approving(E)
      <4>1. Approving(D).temp_def \cup {i.dst} = E
        BY <2>2, <3>1
      <4> QED
        BY Zenon, <4>1, StillApproving
    <3> QED
      BY <2>2, <3>2, <3>3 DEF define_temp
  <2> QED
    BY <2>1, <2>2
<1>2. DOMAIN i.args = 1..Len(i.args)
  <2>1. i.args \in Seq(Values)
    BY DEF InstRecs
  <2> QED
    BY <2>1
<1>3. ~\E k \in DOMAIN i.args : ~verify_value_defined(Approving(E), i.args[k])
  BY <1>2 DEF verify_value_defined, Approving
<1>4. Report(Approving(E), FALSE) = Approving(E)
  BY StillApproving
<1>5. visit_instruct(Approving(D), i)
        = Report(Approving(E),
                 \E k \in DOMAIN i.args : ~verify_value_defined(Approving(E), i.args[k]))
  BY <1>1 DEF visit_instruct
<1>6. (\E k \in DOMAIN i.args : ~verify_value_defined(Approving(E), i.args[k])) = FALSE
  BY <1>3
<1> QED
  BY <1>4, <1>5, <1>6

\* The end of a block that leads to as many blocks as its terminator says.
LEMMA EndVisited ==
  ASSUME NEW D, NEW t \in TermRecs, t # Undefined, Len(blocks) \in Nat,
         \A k \in 1..Len(t.to) : t.to[k] \in 1..Len(blocks)
  PROVE  visit_block_end(Approving(D), t) = Approving(D)
<1> DEFINE wrong == \/ t.type \notin DOMAIN SuccCount
                    \/ Len(t.to) # SuccCount[t.type]
                    \/ \E k \in DOMAIN t.to : t.to[k] - 1 > Len(blocks)
<1>1. DOMAIN t.to = 1..Len(t.to)
  <2>1. t.to \in Seq(Nat)
    BY DEF TermRecs
  <2> QED
    BY <2>1
<1>2. t.type \in DOMAIN SuccCount /\ Len(t.to) = SuccCount[t.type]
  <2>1. \/ t.type = "IR_HALT" /\ Len(t.to) = 0
        \/ t.type = "IR_JUMP" /\ Len(t.to) = 1
        \/ t.type = "IR_BRANCH_IF_ZERO" /\ Len(t.to) = 2
    BY DEF TermRecs, TermFits
  <2>2. DOMAIN SuccCount = {"IR_HALT", "IR_JUMP", "IR_BRANCH_IF_ZERO"}
    BY DEF SuccCount
  <2>3. /\ SuccCount["IR_HALT"] = 0
        /\ SuccCount["IR_JUMP"] = 1
        /\ SuccCount["IR_BRANCH_IF_ZERO"] = 2
    BY DEF SuccCount
  <2> QED
    BY <2>1, <2>2, <2>3
<1>3. \A k \in DOMAIN t.to : ~(t.to[k] - 1 > Len(blocks))
  BY <1>1
<1>4. wrong = FALSE
  BY <1>2, <1>3
<1>5. visit_block_end(Approving(D), t) = Report(Approving(D), wrong)
  BY DEF visit_block_end
<1> HIDE DEF wrong
<1>6. Report(Approving(D), FALSE) = Approving(D)
  BY StillApproving
<1> QED
  BY <1>4, <1>5, <1>6

\* The verifier after each instruction of a block, and after each block: the
\* functions that the walks compute, of which there is one each.
AlongBlock(f, v, b) ==
  f = [k \in 0..Len(b.insts) |-> IF k = 0 THEN v ELSE visit_instruct(f[k - 1], b.insts[k])]
AlongFunction(f) ==
  f = [k \in 0..Len(blocks) |-> IF k = 0 THEN visit_func_begin
                                 ELSE visit_block(f[k - 1], blocks[k])]

LEMMA BlockVisited ==
  ASSUME NEW v, NEW b, Len(b.insts) \in Nat, NEW f, AlongBlock(f, v, b)
  PROVE  visit_block(v, b) = visit_block_end(f[Len(b.insts)], b.term)
<1> DEFINE h == CHOOSE g : AlongBlock(g, v, b)
           n == Len(b.insts)
           S == {k \in Nat : k <= n => h[k] = f[k]}
<1>1. AlongBlock(h, v, b)
  OBVIOUS
<1>2. visit_block(v, b) = visit_block_end(h[n], b.term)
  BY DEF visit_block, AlongBlock
<1> HIDE DEF h
<1>3. h[0] = v /\ \A k \in 1..n : h[k] = visit_instruct(h[k - 1], b.insts[k])
  <2>1. \A k \in 0..n : h[k] = IF k = 0 THEN v ELSE visit_instruct(h[k - 1], b.insts[k])
    BY Zenon, <1>1 DEF AlongBlock
  <2>2. n \in Nat
    OBVIOUS
  <2> HIDE DEF n
  <2> QED
    BY <2>1, <2>2
<1>4. f[0] = v /\ \A k \in 1..n : f[k] = visit_instruct(f[k - 1], b.insts[k])
  <2>1. \A k \in 0..n : f[k] = IF k = 0 THEN v ELSE visit_instruct(f[k - 1], b.insts[k])
    BY Zenon DEF AlongBlock
  <2>2. n \in Nat
    OBVIOUS
  <2> HIDE DEF n
  <2> QED
    BY <2>1, <2>2
<1> HIDE DEF n
<1>5. 0 \in S
  BY <1>3, <1>4
<1>6. ASSUME NEW k \in Nat, k \in S PROVE k + 1 \in S
  <2> SUFFICES ASSUME k + 1 <= n PROVE h[k + 1] = f[k + 1]
    OBVIOUS
  <2>1. h[k] = f[k] /\ k + 1 \in 1..n /\ (k + 1) - 1 = k
    BY <1>6 DEF n
  <2> QED
    BY <1>3, <1>4, <2>1
<1> HIDE DEF S
<1>7. n \in S
  BY <1>5, <1>6, Induction DEF n
<1> QED
  BY <1>2, <1>7 DEF S, n

LEMMA FunctionVisited ==
  ASSUME Len(blocks) \in Nat, NEW f, AlongFunction(f)
  PROVE  run_ir_verifier = f[Len(blocks)]
<1> DEFINE h == CHOOSE g : AlongFunction(g)
           n == Len(blocks)
           S == {k \in Nat : k <= n => h[k] = f[k]}
<1>1. AlongFunction(h)
  OBVIOUS
<1>2. run_ir_verifier = h[n]
  BY DEF run_ir_verifier, AlongFunction
<1> HIDE DEF h
<1>3. h[0] = visit_func_begin /\ \A k \in 1..n : h[k] = visit_block(h[k - 1], blocks[k])
  BY <1>1 DEF AlongFunction
<1>4. f[0] = visit_func_begin /\ \A k \in 1..n : f[k] = visit_block(f[k - 1], blocks[k])
  BY DEF AlongFunction
<1> HIDE DEF n
<1>5. 0 \in S
  BY <1>3, <1>4
<1>6. ASSUME NEW k \in Nat, k \in S PROVE k + 1 \in S
  <2> SUFFICES ASSUME k + 1 <= n PROVE h[k + 1] = f[k + 1]
    OBVIOUS
  <2>1. h[k] = f[k] /\ k + 1 \in 1..n /\ (k + 1) - 1 = k
    BY <1>6 DEF n
  <2> QED
    BY <1>3, <1>4, <2>1
<1> HIDE DEF S
<1>7. n \in S
  BY <1>5, <1>6, Induction DEF n
<1> QED
  BY <1>2, <1>7 DEF S, n
-----------------------------------------------------------------------------
\* The temps defined before the verifier has come past instruction n of block b.
DefinedBy(b, n) ==
  {t \in Nat : \E c, k \in Nat : DefAt(blocks, t, c, k) /\ (c < b \/ (c = b /\ k <= n))}

LEMMA DefinedNext ==
  ASSUME BlocksOK(blocks, next_temp, next_slot), NEW b \in 1..Len(blocks)
  PROVE  DefinedBy(1, 0) = {} /\ DefinedBy(b + 1, 0) = DefinedBy(b, Len(blocks[b].insts))
<1>1. /\ blocks \in Seq(BlockRecs) /\ Len(blocks) \in Nat
      /\ \A c \in 1..Len(blocks) : Len(blocks[c].insts) \in Nat
  <2>1. blocks \in Seq(BlockRecs)
    BY BlockParts
  <2>2. \A c \in 1..Len(blocks) : blocks[c].insts \in Seq(InstRecs)
    BY BlockParts
  <2> QED
    BY <2>1, <2>2
<1>2. ASSUME NEW t \in Nat, NEW c \in Nat, NEW k \in Nat, DefAt(blocks, t, c, k)
      PROVE  c >= 1 /\ k >= 1 /\ k <= Len(blocks[c].insts)
  BY <1>1, <1>2 DEF DefAt
<1>3. DefinedBy(1, 0) = {}
  BY <1>2 DEF DefinedBy
<1>4. ASSUME NEW t \in Nat, NEW c \in Nat, NEW k \in Nat, DefAt(blocks, t, c, k)
      PROVE  (c < b + 1 \/ (c = b + 1 /\ k <= 0))
               <=> (c < b \/ (c = b /\ k <= Len(blocks[b].insts)))
  <2>1. k >= 1 /\ (c = b => k <= Len(blocks[b].insts)) /\ b \in Nat
    BY <1>2, <1>4
  <2> QED
    BY <2>1
<1>5. DefinedBy(b + 1, 0) = DefinedBy(b, Len(blocks[b].insts))
  BY <1>4 DEF DefinedBy
<1> QED
  BY <1>3, <1>5

\* One instruction further.
LEMMA DefinedFurther ==
  ASSUME BlocksOK(blocks, next_temp, next_slot), CodeOK(blocks, {}), Ordered(blocks),
         NEW b \in 1..Len(blocks), NEW n \in 1..Len(blocks[b].insts)
  PROVE  visit_instruct(Approving(DefinedBy(b, n - 1)), blocks[b].insts[n])
           = Approving(DefinedBy(b, n))
<1> DEFINE i == blocks[b].insts[n]
           D == DefinedBy(b, n - 1)
           E == DefinedBy(b, n)
<1>1. blocks[b].insts \in Seq(InstRecs) /\ b \in Nat /\ n \in Nat /\ Len(blocks) \in Nat
  <2>1. blocks[b].insts \in Seq(InstRecs) /\ Len(blocks) \in Nat
    BY BlockParts
  <2> QED
    BY <2>1
<1>2. i \in InstRecs
  BY <1>1
<1>3. i.dst \in {NoTemp} \cup Nat /\ i.args \in Seq(Values) /\ NoTemp \notin Nat
  BY <1>2 DEF InstRecs, NoTemp
<1>4. \A t \in Nat : DefAt(blocks, t, b, n) <=> i.dst = t
  BY DEF DefAt
<1>5. ASSUME NEW t \in Nat
      PROVE  t \in E <=> t \in D \/ t = i.dst
  <2>1. ASSUME NEW c \in Nat, NEW k \in Nat
        PROVE  (c < b \/ (c = b /\ k <= n))
                 <=> (c < b \/ (c = b /\ k <= n - 1)) \/ (c = b /\ k = n)
    BY <1>1
  <2> QED
    BY <1>1, <1>4, <2>1 DEF DefinedBy
<1>6. i.dst # NoTemp => i.dst \notin D /\ E = D \cup {i.dst}
  <2> SUFFICES ASSUME i.dst # NoTemp PROVE i.dst \notin D /\ E = D \cup {i.dst}
    OBVIOUS
  <2>1. i.dst \in Nat
    BY <1>3
  <2>2. DefAt(blocks, i.dst, b, n)
    BY <1>4, <2>1
  <2>3. \A c, k \in Nat : DefAt(blocks, i.dst, c, k) => c = b /\ k = n
    BY <1>1, <2>1, <2>2 DEF CodeOK
  <2>4. i.dst \notin D
    <3> SUFFICES ASSUME NEW c \in Nat, NEW k \in Nat, DefAt(blocks, i.dst, c, k),
                        c < b \/ (c = b /\ k <= n - 1)
                 PROVE  FALSE
      BY DEF DefinedBy
    <3> QED
      BY <1>1, <2>3
  <2>5. E = D \cup {i.dst}
    <3>1. E \subseteq Nat /\ D \subseteq Nat
      BY DEF DefinedBy
    <3> HIDE DEF D, E
    <3> QED
      BY <1>5, <2>1, <3>1
  <2> QED
    BY <2>4, <2>5
<1>7. i.dst = NoTemp => E = D
  <2> SUFFICES ASSUME i.dst = NoTemp PROVE E = D
    OBVIOUS
  <2>1. E \subseteq Nat /\ D \subseteq Nat
    BY DEF DefinedBy
  <2> HIDE DEF D, E
  <2> QED
    BY <1>3, <1>5, <2>1
<1>8. ASSUME NEW k \in 1..Len(i.args), i.args[k].kind = "IRVAL_TEMP"
      PROVE  i.args[k].id \in E
  <2>1. i.args[k] \in Values
    BY <1>3
  <2> DEFINE t == i.args[k].id
  <2>2. t \in Nat /\ i.args[k] = TEMP(t)
    BY <1>8, <2>1, ValuesAre
  <2> HIDE DEF t
  <2>3. Uses(i.args, t)
    BY <2>2 DEF Uses
  <2>4. ReadAt(blocks, t, b, n)
    BY <2>3 DEF ReadAt
  <2>5. n > 0
    BY <1>1
  <2>6. PICK c \in Nat, m \in Nat : DefAt(blocks, t, c, m) /\ (c < b \/ (c = b /\ m < n))
    BY <1>1, <2>2, <2>4, <2>5 DEF Ordered
  <2>7. c < b \/ (c = b /\ m <= n)
    BY <1>1, <2>6
  <2>8. t \in E
    BY <2>2, <2>6, <2>7 DEF DefinedBy
  <2> QED
    BY <2>8 DEF t
<1> HIDE DEF D, E, i
<1>9. visit_instruct(Approving(D), i) = Approving(E)
  BY <1>2, <1>6, <1>7, <1>8, InstructVisited
<1> QED
  BY <1>9 DEF D, E, i

LEMMA BlockPasses ==
  ASSUME BlocksOK(blocks, next_temp, next_slot), CodeOK(blocks, {}), Ordered(blocks),
         NEW b \in 1..Len(blocks), ~Open(blocks, b)
  PROVE  visit_block(Approving(DefinedBy(b, 0)), blocks[b]) = Approving(DefinedBy(b + 1, 0))
<1> DEFINE n == Len(blocks[b].insts)
           f == [k \in 0..n |-> Approving(DefinedBy(b, k))]
           v == Approving(DefinedBy(b, 0))
<1>1. /\ n \in Nat /\ blocks[b].term \in TermRecs /\ Len(blocks) \in Nat
      /\ \A k \in 1..Len(blocks[b].term.to) : blocks[b].term.to[k] \in 1..Len(blocks)
  <2>1. blocks[b].insts \in Seq(InstRecs) /\ blocks[b].term \in TermRecs /\ Len(blocks) \in Nat
    BY BlockParts
  <2> QED
    BY <2>1 DEF BlocksOK
<1>2. AlongBlock(f, v, blocks[b])
  <2>1. ASSUME NEW k \in 0..n
        PROVE  Approving(DefinedBy(b, k))
                 = IF k = 0 THEN v ELSE visit_instruct(f[k - 1], blocks[b].insts[k])
    <3>1. CASE k = 0
      BY <3>1
    <3>2. CASE k # 0
      <4>1. k - 1 \in 0..n /\ k \in 1..n
        BY <1>1, <3>2
      <4>2. f[k - 1] = Approving(DefinedBy(b, k - 1))
        BY <4>1
      <4> QED
        BY <3>2, <4>1, <4>2, DefinedFurther
    <3> QED
      BY <3>1, <3>2
  <2>2. f = [k \in 0..n |-> IF k = 0 THEN v ELSE visit_instruct(f[k - 1], blocks[b].insts[k])]
    BY <2>1
  <2> QED
    BY <2>2 DEF AlongBlock
<1>3. f[n] = Approving(DefinedBy(b, n))
  BY <1>1
<1> HIDE DEF f, v
<1>4. visit_block(v, blocks[b]) = visit_block_end(f[n], blocks[b].term)
  BY <1>1, <1>2, BlockVisited
<1>5. visit_block_end(f[n], blocks[b].term) = Approving(DefinedBy(b, n))
  <2> DEFINE D == DefinedBy(b, n)
             t == blocks[b].term
  <2>1. t # Undefined
    BY Zenon DEF Open
  <2>2. /\ t \in TermRecs /\ Len(blocks) \in Nat
        /\ \A k \in 1..Len(t.to) : t.to[k] \in 1..Len(blocks)
    BY Zenon, <1>1
  <2> HIDE DEF D, t
  <2>3. visit_block_end(Approving(D), t) = Approving(D)
    BY Zenon, <2>1, <2>2, EndVisited
  <2> QED
    BY Zenon, <1>3, <2>3 DEF D, t
<1>6. DefinedBy(b + 1, 0) = DefinedBy(b, n)
  BY DefinedNext
<1> QED
  BY <1>4, <1>5, <1>6 DEF v

LEMMA FinishedAccepts ==
  ASSUME IInv, Control, Temps, Order
  PROVE  VerifierAccepts
<1> SUFFICES ASSUME ~Running PROVE ~run_ir_verifier.reported
  BY DEF VerifierAccepts
<1> DEFINE n == Len(blocks)
           f == [k \in 0..n |-> Approving(DefinedBy(k + 1, 0))]
<1>1. /\ BlocksOK(blocks, next_temp, next_slot) /\ Ordered(blocks) /\ CodeOK(blocks, {})
      /\ \A b \in 1..n : ~Open(blocks, b)
      /\ n \in Nat /\ 1 \in 1..n
  <2>1. n \in Nat /\ curr \in 1..n /\ BlocksOK(blocks, next_temp, next_slot)
    BY ShapeIs
  <2> QED
    BY <2>1 DEF Order, Temps, Control
<1>2. AlongFunction(f)
  <2>1. ASSUME NEW k \in 0..n
        PROVE  Approving(DefinedBy(k + 1, 0))
                 = IF k = 0 THEN visit_func_begin ELSE visit_block(f[k - 1], blocks[k])
    <3>1. CASE k = 0
      <4>1. k + 1 = 1 /\ DefinedBy(1, 0) = {}
        BY <1>1, <3>1, DefinedNext
      <4>2. Approving(DefinedBy(k + 1, 0)) = visit_func_begin
        BY <4>1 DEF Approving, visit_func_begin
      <4> QED
        BY <3>1, <4>2
    <3>2. CASE k # 0
      <4>1. k - 1 \in 0..n /\ k \in 1..n /\ (k - 1) + 1 = k
        BY <1>1, <3>2
      <4>2. f[k - 1] = Approving(DefinedBy(k, 0))
        BY <4>1
      <4>3. visit_block(Approving(DefinedBy(k, 0)), blocks[k]) = Approving(DefinedBy(k + 1, 0))
        BY <1>1, <4>1, BlockPasses
      <4> HIDE DEF f
      <4> QED
        BY <3>2, <4>2, <4>3
    <3> QED
      BY <3>1, <3>2
  <2>2. f = [k \in 0..n |-> IF k = 0 THEN visit_func_begin ELSE visit_block(f[k - 1], blocks[k])]
    BY <2>1
  <2> QED
    BY <2>2 DEF AlongFunction
<1>3. f[n] = Approving(DefinedBy(n + 1, 0))
  BY <1>1
<1> HIDE DEF f
<1>4. run_ir_verifier = Approving(DefinedBy(n + 1, 0))
  BY <1>1, <1>2, <1>3, FunctionVisited
<1> QED
  BY <1>4 DEF Approving

\* The verifier accepts whatever the generator makes of a program in which no
\* declaration is bare, also where values wait for a short-circuit operator: the
\* blocks were created in an order in which every temp is defined before it is
\* read, although it is not the order in which they run.
THEOREM VerifierAcceptsAll == NoneBare /\ Spec => []VerifierAccepts
<1>1. Init => Order
  <2> SUFFICES ASSUME Init PROVE Order
    OBVIOUS
  <2>1. blocks = Entry /\ Len(val_stack) = unclaimed /\ unclaimed \in Nat /\ ~foreign
    BY DEF Init, Entry
  <2> QED
    BY <2>1, EntryOrdered, NothingWaits DEF Order
<1>2. NoneBare /\ IInv /\ Order /\ [Next]_vars => Order'
  BY StepOrder
<1>3. IInv /\ Control /\ Temps /\ Order => VerifierAccepts
  BY FinishedAccepts
<1> SUFFICES ASSUME NoneBare PROVE Spec => []VerifierAccepts
  OBVIOUS
<1>4. IInv /\ Order /\ [Next]_vars => Order'
  BY <1>2
<1> QED
  BY <1>1, <1>3, <1>4, InductiveInvariant, ControlInvariant, TempsInvariant, PTL DEF Spec
=============================================================================
