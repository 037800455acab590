---------------------------- MODULE ParserProofs ----------------------------
(***************************************************************************)
(* Theorems about Parser, for texts of any length.                         *)
(*                                                                         *)
(* The properties speak of the node that was returned last and of the text *)
(* at its end; what carries them there is on the stack.  An expression     *)
(* that waits for its right-hand side has asked for one that binds tighter *)
(* than its operator and will get one (PairOK), and goes on with a token   *)
(* that binds no tighter (TopOK).  A frame stands for the bracket its      *)
(* parse function has consumed and has still to close (Owned).             *)
(***************************************************************************)
EXTENDS Parser, Stacks, FiniteSetTheorems

PrefixAts == {"prefix", "unary", "paren"}
GrownAts  == {"loop", "args", "arg_end", "rhs"}
ExprAts   == GrownAts \cup {"lhs"}
SkipAts   == {"sync", "skip"}

ParenAts == {"if_cond", "if_close", "while_cond", "while_close", "fn_open", "fn_params",
             "fn_param_name", "fn_param_end", "fn_close", "paren", "args", "arg_end"}
BraceAts == {"if_then", "else_body", "while_body", "fn_body", "block"}
OtherAts == {"program", "int_name", "int_init", "int_end", "assn_eq", "assn_end", "return",
             "return_end", "call_stmt", "if_paren", "if_brace", "if_else", "else_brace",
             "if_end", "while_paren", "while_brace", "while_end", "fn_name", "fn_paren",
             "fn_ret", "fn_type", "fn_brace", "fn_end"}
Ats == PrefixAts \cup ExprAts \cup SkipAts \cup ParenAts \cup BraceAts \cup OtherAts

Kinds  == {"NULL", "AST_ERROR", "none", "AST_FN_CALL", "AST_BIN_OP", "AST_BLOCK",
           "AST_PROGRAM", "AST_VAR_DEC", "AST_ASSN", "AST_EXIT", "AST_IF", "AST_WHILE",
           "AST_FN_DEC", "AST_INT_LIT", "AST_NAME", "AST_UNARY_OP"}
NodeRecs == [kind : Kinds, prec : 0..Tight, lhs : 0..Tight, rhs : 0..Tight,
             callee : Kinds]
Frames == [at : Ats, min : 0..Tight, op : 0..Tight, lhs : NodeRecs]
Texts  == TokenKinds \cup {"TOK_EOF"}

\* The types of the parser's state.
TypeOK ==
  /\ token_index \in Nat
  /\ current \in Texts
  /\ next \in {"EQ", "IDENTIFIER", "PAREN_START", "PAREN_END", "another"}
  /\ stack \in Seq(Frames)
  /\ node \in NodeRecs
  /\ errors \in BOOLEAN /\ crashed \in BOOLEAN /\ odd \in BOOLEAN
  /\ nest \in Seq(Texts)
-----------------------------------------------------------------------------
\* Neither NULL nor an error node.
Whole(n) == n.kind \notin {"NULL", "AST_ERROR"}

\* Its operator binds no tighter than its left operand, less than its right one.
Grouped(n) == n.prec < Tight => n.lhs >= n.prec /\ n.rhs > n.prec

\* How tightly a token binds; 0 if it is no infix operator.
Binds(t) == IF t \in DOMAIN precedence THEN precedence[t] ELSE 0

\* What an expression has parsed belongs to it.
FrameOK(f) ==
  f.at \in GrownAts =>
    /\ Grouped(f.lhs)
    /\ f.lhs.prec >= f.min
    /\ f.at = "rhs" => f.op >= f.min /\ f.lhs.prec >= f.op

\* Frame g is next above f: it returns what f waits for.
PairOK(f, g) ==
  /\ f.at \notin {"prefix"} \cup SkipAts
  /\ f.at \in {"lhs", "unary"} => g.at \in PrefixAts
  /\ f.at = "rhs" => g.at \in ExprAts /\ g.min = f.op + 1
  /\ f.at = "loop" => g.at \in SkipAts /\ f.lhs.prec = Tight
  /\ f.at \in {"int_name", "assn_eq", "fn_close"} => g.at \in SkipAts

StackOK(s) ==
  /\ s \in Seq(Frames)
  /\ \A k \in 1..Len(s) : FrameOK(s[k])
  /\ \A k \in 1..Len(s) - 1 : PairOK(s[k], s[k + 1])

\* Frame f is on top, n was returned last and t is the current token: n is
\* what f has waited for.
TopOK(f, n, t) ==
  /\ f.at \in {"lhs", "unary"} => n.prec = Tight
  /\ f.at = "loop" => Binds(t) <= f.lhs.prec
  /\ f.at = "rhs" => n = Null \/ (n.prec > f.op /\ Binds(t) <= f.op)

\* What was looked at before a frame was pushed is what the frame consumes.
TextOK(f, t) ==
  /\ f.at = "int_name" => t = "IDENTIFIER"
  /\ f.at = "assn_eq" => t = "EQ"
  /\ f.at = "fn_close" => t = "PAREN_END"
  /\ f.at \notin SkipAts
-----------------------------------------------------------------------------
\* The bracket a parse function has consumed and has still to close.
OwnAt(at) == IF at \in ParenAts THEN <<"PAREN_START">>
             ELSE IF at \in BraceAts THEN <<"CUR_BRACK_START">>
             ELSE <<>>
Own(f) == OwnAt(f.at)

\* How many of the first n frames own one.
Owners(s, n) == Cardinality({k \in 1..n : Own(s[k]) # <<>>})

\* The open brackets are those owned, in the order of the frames.
Owned(s, b) ==
  /\ Len(b) = Owners(s, Len(s))
  /\ \A k \in 1..Len(s) : Own(s[k]) # <<>> => b[Owners(s, k)] = Own(s[k])[1]

\* parse_parameter_list compares the token after the next with ')', so in
\* `fn f(x)' it may go on behind a ')' it has not come to.  The text cannot be
\* accepted any more.
Doomed(at, t, ahead) ==
  \/ at \in {"fn_ret", "fn_brace"} /\ ahead = "PAREN_END"
  \/ at \in {"fn_type", "fn_body", "block"} /\ t = "PAREN_END"

WholeStack(s) == \A k \in 1..Len(s) : Whole(s[k].lhs)

\* While nothing has been reported.
CleanSoFar ==
  /\ ~crashed /\ Whole(node) /\ WholeStack(stack)
  /\ stack # <<>> => TextOK(Top, current)
  /\ ~odd => \/ Owned(stack, nest)
             \/ stack # <<>> /\ Doomed(Top.at, current, next)

\* The inductive invariant.
IInv ==
  /\ TypeOK
  /\ StackOK(stack)
  /\ Grouped(node)
  /\ stack # <<>> => TopOK(Top, node, current)
  /\ ~errors => CleanSoFar
-----------------------------------------------------------------------------
\* A frame is pushed, and popped.
LEMMA StackPush ==
  ASSUME NEW s, StackOK(s), NEW f \in Frames, FrameOK(f),
         s # <<>> => PairOK(s[Len(s)], f)
  PROVE  /\ StackOK(Append(s, f))
         /\ Append(s, f) # <<>>
         /\ Append(s, f)[Len(Append(s, f))] = f
         /\ WholeStack(s) /\ Whole(f.lhs) => WholeStack(Append(s, f))
<1> DEFINE v == Append(s, f)
<1>1. /\ s \in Seq(Frames) /\ v \in Seq(Frames) /\ v # <<>> /\ Len(s) \in Nat
      /\ Len(v) = Len(s) + 1 /\ v[Len(s) + 1] = f
      /\ \A k \in 1..Len(s) : v[k] = s[k]
  BY AppendIs DEF StackOK
<1> HIDE DEF v
<1>2. \A k \in 1..Len(v) : FrameOK(v[k])
  BY <1>1 DEF StackOK
<1>3. ASSUME NEW k \in 1..Len(v) - 1
      PROVE  PairOK(v[k], v[k + 1])
  <2>1. k \in 1..Len(s) /\ v[k] = s[k]
    BY <1>1
  <2>2. CASE k = Len(s)
    BY <1>1, <2>1, <2>2
  <2>3. CASE k # Len(s)
    <3>1. k \in 1..Len(s) - 1 /\ k + 1 \in 1..Len(s)
      BY <1>1, <2>1, <2>3
    <3> QED
      BY <1>1, <2>1, <3>1 DEF StackOK
  <2> QED
    BY <2>2, <2>3
<1>4. WholeStack(s) /\ Whole(f.lhs) => WholeStack(v)
  BY <1>1 DEF WholeStack
<1> QED
  BY <1>1, <1>2, <1>3, <1>4 DEF StackOK, v

LEMMA StackPop ==
  ASSUME NEW s, StackOK(s), s # <<>>
  PROVE  /\ StackOK(Butlast(s))
         /\ Butlast(s) # <<>> => PairOK(Butlast(s)[Len(Butlast(s))], s[Len(s)])
         /\ WholeStack(s) => WholeStack(Butlast(s)) /\ Whole(s[Len(s)].lhs)
         /\ s[Len(s)] \in Frames /\ FrameOK(s[Len(s)])
<1> DEFINE v == Butlast(s)
<1>1. /\ s \in Seq(Frames) /\ v \in Seq(Frames) /\ Len(s) \in Nat \ {0}
      /\ Len(v) = Len(s) - 1
      /\ \A k \in 1..Len(s) - 1 : v[k] = s[k]
  BY ButlastIs DEF StackOK
<1> HIDE DEF v
<1>2. \A k \in 1..Len(v) : FrameOK(v[k])
  BY <1>1 DEF StackOK
<1>3. ASSUME NEW k \in 1..Len(v) - 1
      PROVE  PairOK(v[k], v[k + 1])
  <2>1. k \in 1..Len(s) - 1 /\ v[k] = s[k] /\ v[k + 1] = s[k + 1]
    BY <1>1
  <2> QED
    BY <2>1 DEF StackOK
<1>4. v # <<>> => PairOK(v[Len(v)], s[Len(s)])
  <2> SUFFICES ASSUME v # <<>> PROVE PairOK(v[Len(v)], s[Len(s)])
    OBVIOUS
  <2>1. Len(v) \in 1..Len(s) - 1 /\ v[Len(v)] = s[Len(v)] /\ Len(v) + 1 = Len(s)
    BY <1>1
  <2> QED
    BY <2>1 DEF StackOK
<1>5. WholeStack(s) => WholeStack(v) /\ Whole(s[Len(s)].lhs)
  BY <1>1 DEF WholeStack
<1>6. s[Len(s)] \in Frames /\ FrameOK(s[Len(s)])
  BY <1>1 DEF StackOK
<1> QED
  BY <1>1, <1>2, <1>3, <1>4, <1>5, <1>6 DEF StackOK, v
-----------------------------------------------------------------------------
OwnersIn(s, n) == {k \in 1..n : Own(s[k]) # <<>>}

\* One frame more is one owner more, or none.
LEMMA OwnersNext ==
  ASSUME NEW s, NEW n \in Nat
  PROVE  /\ Owners(s, n) \in Nat
         /\ Owners(s, n + 1) = Owners(s, n) + IF Own(s[n + 1]) # <<>> THEN 1 ELSE 0
         /\ \A k \in 0..n : Owners(s, k) <= Owners(s, n)
<1>1. \A k \in Nat : IsFiniteSet(OwnersIn(s, k)) /\ Owners(s, k) = Cardinality(OwnersIn(s, k))
  <2> SUFFICES ASSUME NEW k \in Nat
               PROVE  IsFiniteSet(OwnersIn(s, k)) /\ Owners(s, k) = Cardinality(OwnersIn(s, k))
    OBVIOUS
  <2>1. IsFiniteSet(1..k) /\ OwnersIn(s, k) \subseteq 1..k
    BY FS_Interval DEF OwnersIn
  <2>2. IsFiniteSet(OwnersIn(s, k))
    BY <2>1, FS_Subset
  <2> QED
    BY <2>2 DEF Owners, OwnersIn
<1>2. Owners(s, n) \in Nat
  BY <1>1, FS_CardinalityType
<1>3. n + 1 \notin OwnersIn(s, n)
  BY DEF OwnersIn
<1>4. Owners(s, n + 1) = Owners(s, n) + IF Own(s[n + 1]) # <<>> THEN 1 ELSE 0
  <2>1. CASE Own(s[n + 1]) # <<>>
    <3>1. OwnersIn(s, n + 1) = OwnersIn(s, n) \cup {n + 1}
      BY <2>1 DEF OwnersIn
    <3>2. Cardinality(OwnersIn(s, n + 1)) = Cardinality(OwnersIn(s, n)) + 1
      BY <1>1, <1>3, <3>1, FS_AddElement
    <3> QED
      BY <1>1, <2>1, <3>2
  <2>2. CASE Own(s[n + 1]) = <<>>
    <3>1. OwnersIn(s, n + 1) = OwnersIn(s, n)
      BY <2>2 DEF OwnersIn
    <3> QED
      BY <1>1, <1>2, <2>2, <3>1
  <2> QED
    BY <2>1, <2>2
<1>5. ASSUME NEW k \in 0..n
      PROVE  Owners(s, k) <= Owners(s, n)
  <2>1. OwnersIn(s, k) \subseteq OwnersIn(s, n) /\ k \in Nat
    BY DEF OwnersIn
  <2>2. Cardinality(OwnersIn(s, k)) <= Cardinality(OwnersIn(s, n))
    BY <1>1, <2>1, FS_Subset
  <2> QED
    BY <1>1, <2>1, <2>2
<1> QED
  BY <1>2, <1>4, <1>5

LEMMA OwnersSame ==
  ASSUME NEW s, NEW v, NEW n \in Nat, \A k \in 1..n : v[k] = s[k]
  PROVE  \A k \in 0..n : Owners(v, k) = Owners(s, k)
<1> SUFFICES ASSUME NEW k \in 0..n PROVE Owners(v, k) = Owners(s, k)
  OBVIOUS
<1>1. {j \in 1..k : Own(v[j]) # <<>>} = {j \in 1..k : Own(s[j]) # <<>>}
  OBVIOUS
<1> QED
  BY <1>1 DEF Owners

LEMMA OwnIs ==
  ASSUME NEW f
  PROVE  Own(f) \in {<<>>, <<"PAREN_START">>, <<"CUR_BRACK_START">>}
BY DEF Own, OwnAt

\* A frame that owns no bracket leaves the open brackets alone, one that owns
\* one opens it when it is pushed and closes it when it is popped.
LEMMA OwnedPush ==
  ASSUME NEW s \in Seq(Frames), NEW f \in Frames, NEW b \in Seq(Texts), Owned(s, b)
  PROVE  /\ Own(f) = <<>> => Owned(Append(s, f), b)
         /\ \A x \in Texts : Own(f) = <<x>> => Owned(Append(s, f), Append(b, x))
<1> DEFINE v == Append(s, f)
<1>1. /\ v \in Seq(Frames) /\ v # <<>> /\ Len(s) \in Nat
      /\ Len(v) = Len(s) + 1 /\ v[Len(s) + 1] = f
      /\ \A k \in 1..Len(s) : v[k] = s[k]
  BY AppendIs
<1> HIDE DEF v
<1>2. \A k \in 0..Len(s) : Owners(v, k) = Owners(s, k)
  BY <1>1, OwnersSame
<1>3. /\ Owners(v, Len(v)) = Owners(s, Len(s)) + IF Own(f) # <<>> THEN 1 ELSE 0
      /\ Owners(s, Len(s)) = Len(b) /\ Len(b) \in Nat
      /\ \A k \in 0..Len(s) : Owners(s, k) <= Len(b)
  <2>1. Owners(v, Len(s) + 1) = Owners(v, Len(s)) + IF Own(v[Len(s) + 1]) # <<>> THEN 1 ELSE 0
    BY <1>1, OwnersNext
  <2>2. Owners(v, Len(s)) = Owners(s, Len(s))
    BY <1>1, <1>2
  <2>3. \A k \in 0..Len(s) : Owners(s, k) <= Owners(s, Len(s))
    BY <1>1, OwnersNext
  <2>4. Owners(s, Len(s)) = Len(b) /\ Len(b) \in Nat
    BY DEF Owned
  <2> QED
    BY <1>1, <2>1, <2>2, <2>3, <2>4
<1>4. ASSUME NEW k \in 1..Len(s), Own(s[k]) # <<>>
      PROVE  Owners(s, k) \in 1..Len(b)
  <2>1. k - 1 \in Nat /\ k - 1 + 1 = k
    BY <1>1
  <2>2. Owners(s, k) = Owners(s, k - 1) + 1 /\ Owners(s, k - 1) \in Nat
    BY <1>4, <2>1, OwnersNext
  <2> QED
    BY <1>1, <1>3, <2>2
<1>5. ASSUME Own(f) = <<>>
      PROVE  Owned(v, b)
  <2>1. Len(b) = Owners(v, Len(v))
    BY <1>3, <1>5
  <2>2. ASSUME NEW k \in 1..Len(v), Own(v[k]) # <<>>
        PROVE  b[Owners(v, k)] = Own(v[k])[1]
    <3>1. k \in 1..Len(s)
      BY <1>1, <1>5, <2>2
    <3>2. v[k] = s[k] /\ Owners(v, k) = Owners(s, k)
      BY <1>1, <1>2, <3>1
    <3> QED
      BY <2>2, <3>1, <3>2 DEF Owned
  <2> QED
    BY <2>1, <2>2 DEF Owned
<1>6. ASSUME NEW x \in Texts, Own(f) = <<x>>
      PROVE  Owned(v, Append(b, x))
  <2>1. /\ Len(Append(b, x)) = Len(b) + 1 /\ Append(b, x)[Len(b) + 1] = x
        /\ \A k \in 1..Len(b) : Append(b, x)[k] = b[k]
    BY AppendIs
  <2>2. Own(f) # <<>> /\ Own(f)[1] = x
    BY <1>6
  <2>3. Len(Append(b, x)) = Owners(v, Len(v))
    BY <1>3, <2>1, <2>2
  <2>4. ASSUME NEW k \in 1..Len(v), Own(v[k]) # <<>>
        PROVE  Append(b, x)[Owners(v, k)] = Own(v[k])[1]
    <3>1. CASE k = Len(v)
      BY <1>1, <2>1, <2>2, <2>3, <3>1
    <3>2. CASE k # Len(v)
      <4>1. k \in 1..Len(s)
        BY <1>1, <3>2
      <4>2. v[k] = s[k] /\ Owners(v, k) = Owners(s, k)
        BY <1>1, <1>2, <4>1
      <4>3. Owners(s, k) \in 1..Len(b)
        BY <1>4, <2>4, <4>1, <4>2
      <4> QED
        BY <2>1, <2>4, <4>1, <4>2, <4>3 DEF Owned
    <3> QED
      BY <3>1, <3>2
  <2> QED
    BY <2>3, <2>4 DEF Owned
<1> QED
  BY <1>5, <1>6 DEF v

LEMMA OwnedPop ==
  ASSUME NEW s \in Seq(Frames), s # <<>>, NEW b \in Seq(Texts), Owned(s, b)
  PROVE  /\ Own(s[Len(s)]) = <<>> => Owned(Butlast(s), b)
         /\ Own(s[Len(s)]) # <<>> =>
              /\ b # <<>> /\ b[Len(b)] = Own(s[Len(s)])[1]
              /\ Owned(Butlast(s), Butlast(b))
<1> DEFINE v == Butlast(s)
<1>1. /\ v \in Seq(Frames) /\ Len(s) \in Nat \ {0}
      /\ Len(v) = Len(s) - 1
      /\ \A k \in 1..Len(s) - 1 : v[k] = s[k]
  BY ButlastIs
<1> HIDE DEF v
<1>2. /\ Len(v) \in Nat /\ Len(v) + 1 = Len(s)
      /\ \A k \in 0..Len(v) : Owners(v, k) = Owners(s, k)
  <2>1. Len(v) \in Nat /\ Len(v) + 1 = Len(s) /\ \A k \in 1..Len(v) : v[k] = s[k]
    BY <1>1
  <2> QED
    BY <2>1, OwnersSame
<1>3. /\ Len(b) = Owners(v, Len(v)) + IF Own(s[Len(s)]) # <<>> THEN 1 ELSE 0
      /\ Owners(v, Len(v)) \in Nat
      /\ \A k \in 0..Len(v) : Owners(v, k) <= Owners(v, Len(v))
  <2>1. Owners(s, Len(v) + 1)
          = Owners(s, Len(v)) + IF Own(s[Len(v) + 1]) # <<>> THEN 1 ELSE 0
    BY <1>2, OwnersNext
  <2>2. Owners(v, Len(v)) \in Nat /\ \A k \in 0..Len(v) : Owners(v, k) <= Owners(v, Len(v))
    BY <1>2, OwnersNext
  <2> QED
    BY <1>2, <2>1, <2>2 DEF Owned
<1>4. CASE Own(s[Len(s)]) = <<>>
  <2>1. Len(b) = Owners(v, Len(v))
    BY <1>3, <1>4
  <2>2. ASSUME NEW k \in 1..Len(v), Own(v[k]) # <<>>
        PROVE  b[Owners(v, k)] = Own(v[k])[1]
    BY <1>1, <1>2, <2>2 DEF Owned
  <2> QED
    BY <1>4, <2>1, <2>2 DEF Owned, v
<1>5. CASE Own(s[Len(s)]) # <<>>
  <2>1. Len(b) = Owners(v, Len(v)) + 1 /\ b # <<>>
    BY <1>3, <1>5
  <2>2. /\ Butlast(b) \in Seq(Texts) /\ Len(Butlast(b)) = Len(b) - 1
        /\ \A k \in 1..Len(b) - 1 : Butlast(b)[k] = b[k]
    BY <2>1, ButlastIs
  <2>3. b[Len(b)] = Own(s[Len(s)])[1]
    BY <1>1, <1>5 DEF Owned
  <2>4. Len(Butlast(b)) = Owners(v, Len(v))
    BY <1>3, <2>1, <2>2
  <2>5. ASSUME NEW k \in 1..Len(v), Own(v[k]) # <<>>
        PROVE  Butlast(b)[Owners(v, k)] = Own(v[k])[1]
    <3>1. v[k] = s[k] /\ Owners(v, k) = Owners(s, k) /\ k \in 1..Len(s)
      BY <1>1, <1>2
    <3>2. k - 1 \in Nat /\ k - 1 + 1 = k /\ k - 1 \in 0..Len(v)
      BY <1>2
    <3>3. Owners(v, k) = Owners(v, k - 1) + 1 /\ Owners(v, k - 1) \in Nat
      BY <2>5, <3>2, OwnersNext
    <3>4. Owners(v, k) \in 1..Len(b) - 1
      BY <1>3, <2>1, <3>2, <3>3
    <3>5. b[Owners(s, k)] = Own(s[k])[1]
      BY <2>5, <3>1 DEF Owned
    <3> QED
      BY <2>2, <3>1, <3>4, <3>5
  <2> QED
    BY <1>5, <2>1, <2>3, <2>4, <2>5 DEF Owned, v
<1> QED
  BY <1>4, <1>5
-----------------------------------------------------------------------------
LEMMA NodeIs ==
  ASSUME NEW kind \in Kinds
  PROVE  /\ Node(kind) \in NodeRecs
         /\ Node(kind).kind = kind
         /\ Node(kind).prec = Tight
         /\ Grouped(Node(kind))
BY DEF Node, NodeRecs, Grouped, Tight, Kinds

LEMMA FrameIs ==
  ASSUME NEW at \in Ats, NEW min \in 0..Tight, NEW lhs \in NodeRecs
  PROVE  /\ Frame(at, min, lhs) \in Frames
         /\ Frame(at, min, lhs).at = at
         /\ Frame(at, min, lhs).min = min
         /\ Frame(at, min, lhs).lhs = lhs
BY DEF Frame, Frames, Tight

LEMMA PlainIs ==
  ASSUME NEW at \in Ats
  PROVE  /\ Plain(at) \in Frames
         /\ Plain(at).at = at
         /\ Whole(Plain(at).lhs)
         /\ at \notin GrownAts => FrameOK(Plain(at))
<1>1. Nothing \in NodeRecs /\ Whole(Nothing)
  BY NodeIs DEF Nothing, Whole, Kinds
<1>2. 0 \in 0..Tight
  BY DEF Tight
<1> QED
  BY <1>1, <1>2, FrameIs DEF Plain, FrameOK

\* Frame f can stand wherever g stands.
Alike(g, f) ==
  /\ g.at \in PrefixAts => f.at \in PrefixAts
  /\ g.at \in ExprAts => f.at \in ExprAts /\ f.min = g.min
  /\ g.at \in SkipAts => f.at \in SkipAts

LEMMA StackReplace ==
  ASSUME NEW s, StackOK(s), s # <<>>, NEW f \in Frames, FrameOK(f),
         Alike(s[Len(s)], f)
  PROVE  /\ StackOK([s EXCEPT ![Len(s)] = f])
         /\ [s EXCEPT ![Len(s)] = f] # <<>>
         /\ [s EXCEPT ![Len(s)] = f][Len([s EXCEPT ![Len(s)] = f])] = f
         /\ WholeStack(s) /\ Whole(f.lhs) => WholeStack([s EXCEPT ![Len(s)] = f])
<1>1. [s EXCEPT ![Len(s)] = f] = Append(Butlast(s), f)
  BY ReplaceIs DEF StackOK
<1>2. /\ StackOK(Butlast(s))
      /\ Butlast(s) # <<>> => PairOK(Butlast(s)[Len(Butlast(s))], s[Len(s)])
      /\ WholeStack(s) => WholeStack(Butlast(s))
  BY StackPop
<1>3. Butlast(s) # <<>> => PairOK(Butlast(s)[Len(Butlast(s))], f)
  BY <1>2 DEF PairOK, Alike
<1> QED
  BY <1>1, <1>2, <1>3, StackPush

LEMMA OwnedReplace ==
  ASSUME NEW s \in Seq(Frames), s # <<>>, NEW f \in Frames, NEW b \in Seq(Texts),
         Owned(s, b)
  PROVE  LET v == [s EXCEPT ![Len(s)] = f]
             o == Own(s[Len(s)]) IN
         /\ Own(f) = o => Owned(v, b)
         /\ \A x \in Texts : o = <<>> /\ Own(f) = <<x>> => Owned(v, Append(b, x))
         /\ \A x \in Texts : o = <<x>> /\ Own(f) = <<>> =>
              b # <<>> /\ b[Len(b)] = x /\ Owned(v, Butlast(b))
<1> DEFINE v == [s EXCEPT ![Len(s)] = f]
           o == Own(s[Len(s)])
<1>1. v = Append(Butlast(s), f) /\ Butlast(s) \in Seq(Frames)
  BY ReplaceIs, ButlastIs
<1> HIDE DEF v
<1>2. CASE o = <<>>
  <2>1. Owned(Butlast(s), b)
    BY <1>2, OwnedPop
  <2>2. \A x \in Texts : o # <<x>>
    BY <1>2
  <2> QED
    BY <1>1, <1>2, <2>1, <2>2, OwnedPush DEF v
<1>3. CASE o # <<>>
  <2>1. PICK x \in Texts : o = <<x>>
    BY <1>3, OwnIs DEF Texts, TokenKinds
  <2>2. b # <<>> /\ b[Len(b)] = x /\ Owned(Butlast(s), Butlast(b))
    <3>1. o[1] = x
      BY <2>1
    <3> QED
      BY <1>3, <3>1, OwnedPop
  <2>3. Butlast(b) \in Seq(Texts) /\ Len(b) \in Nat \ {0}
    BY <2>2, ButlastIs
  <2>4. Append(Butlast(b), x) = b
    <3>1. [b EXCEPT ![Len(b)] = x] = Append(Butlast(b), x)
      BY <2>2, ReplaceIs
    <3>2. [b EXCEPT ![Len(b)] = x] = b
      BY <2>2, <2>3
    <3> QED
      BY <3>1, <3>2
  <2>5. Own(f) = o => Owned(v, b)
    BY <1>1, <2>1, <2>2, <2>3, <2>4, OwnedPush
  <2>6. \A y \in Texts : o = <<y>> /\ Own(f) = <<>> =>
          b # <<>> /\ b[Len(b)] = y /\ Owned(v, Butlast(b))
    BY <1>1, <2>1, <2>2, <2>3, OwnedPush
  <2> QED
    BY <1>3, <2>5, <2>6 DEF v
<1> QED
  BY <1>2, <1>3

\* parse_expr is called.
LEMMA StackCallExpr ==
  ASSUME NEW s, StackOK(s), NEW m \in 0..Tight,
         s # <<>> => PairOK(s[Len(s)], Frame("lhs", m, Nothing))
  PROVE  /\ StackOK(CallExpr(s, m))
         /\ CallExpr(s, m) # <<>>
         /\ CallExpr(s, m)[Len(CallExpr(s, m))] = Plain("prefix")
         /\ WholeStack(s) => WholeStack(CallExpr(s, m))
         /\ \A b \in Seq(Texts) : Owned(s, b) => Owned(CallExpr(s, m), b)
<1> DEFINE f == Frame("lhs", m, Nothing)
           g == Plain("prefix")
           t == Append(s, f)
<1>1. /\ f \in Frames /\ f.at = "lhs" /\ f.lhs = Nothing /\ FrameOK(f) /\ Whole(f.lhs)
      /\ g \in Frames /\ g.at = "prefix" /\ FrameOK(g) /\ Whole(g.lhs)
  <2>1. Nothing \in NodeRecs /\ Whole(Nothing)
    BY NodeIs DEF Nothing, Whole, Kinds
  <2>2. "lhs" \in Ats /\ "prefix" \in Ats /\ "lhs" \notin GrownAts /\ "prefix" \notin GrownAts
    BY DEF Ats, ExprAts, PrefixAts, GrownAts
  <2> QED
    BY <2>1, <2>2, FrameIs, PlainIs DEF FrameOK
<1>2. PairOK(f, g) /\ Own(f) = <<>> /\ Own(g) = <<>>
  BY <1>1 DEF PairOK, PrefixAts, SkipAts, Own, OwnAt, ParenAts, BraceAts
<1>3. CallExpr(s, m) = Append(t, g)
  <2>1. s \in Seq(Frames)
    BY DEF StackOK
  <2> HIDE DEF f, g
  <2>2. s \o <<f, g>> = Append(t, g)
    BY <1>1, <2>1
  <2> QED
    BY <2>2 DEF CallExpr, f, g
<1> HIDE DEF f, g
<1>4. StackOK(t) /\ t # <<>> /\ t[Len(t)] = f /\ (WholeStack(s) => WholeStack(t))
  BY <1>1, StackPush DEF f
<1> HIDE DEF t
<1>5. /\ StackOK(Append(t, g)) /\ Append(t, g) # <<>>
      /\ Append(t, g)[Len(Append(t, g))] = g
      /\ WholeStack(s) => WholeStack(Append(t, g))
  BY <1>1, <1>2, <1>4, StackPush
<1>6. ASSUME NEW b \in Seq(Texts), Owned(s, b)
      PROVE  Owned(Append(t, g), b)
  <2>1. s \in Seq(Frames) /\ t \in Seq(Frames)
    BY <1>4 DEF StackOK
  <2>2. Owned(t, b)
    BY <1>1, <1>2, <1>6, <2>1, OwnedPush DEF t
  <2> QED
    BY <1>1, <1>2, <2>1, <2>2, OwnedPush
<1> QED
  BY <1>3, <1>5, <1>6 DEF g
-----------------------------------------------------------------------------
\* What a step does to the text.
LEMMA TextStep ==
  ASSUME IInv, Move \/ Stay
  PROVE  /\ token_index' \in Nat /\ current' \in Texts /\ nest' \in Seq(Texts)
         /\ next' \in {"EQ", "IDENTIFIER", "PAREN_START", "PAREN_END", "another"}
<1>1. TypeOK
  BY DEF IInv
<1>2. CASE Stay
  BY <1>1, <1>2 DEF Stay, text, TypeOK
<1>3. CASE Move
  <2>1. token_index' \in Nat
    BY <1>1, <1>3 DEF Move, TypeOK
  <2>2. \A n \in Nat : TokensAt(n) \subseteq Texts
    BY Bounds DEF TokensAt, Texts
  <2>3. current' \in Texts
    <3>1. token_index + 2 \in Nat
      BY <1>1 DEF TypeOK
    <3> QED
      BY <1>3, <2>2, <3>1 DEF Move
  <2>4. next' \in {"EQ", "IDENTIFIER", "PAREN_START", "PAREN_END", "another"}
    BY <1>3 DEF Move, Ahead, Seen
  <2>5. nest' \in Seq(Texts)
    <3>1. nest # <<>> => SubSeq(nest, 1, Len(nest) - 1) \in Seq(Texts)
      BY <1>1, ButlastIs DEF Butlast, TypeOK
    <3>2. Append(nest, current) \in Seq(Texts) /\ <<>> \in Seq(Texts) /\ nest \in Seq(Texts)
      BY <1>1 DEF TypeOK
    <3> QED
      BY <1>3, <3>1, <3>2 DEF Move
  <2> QED
    BY <2>1, <2>3, <2>4, <2>5
<1> QED
  BY <1>2, <1>3

\* The token that was seen ahead is the one that comes.
LEMMA SeenComes ==
  ASSUME Move
  PROVE  next \in {"EQ", "IDENTIFIER", "PAREN_START", "PAREN_END"} => current' = next
BY DEF Move, Seen

\* A frame that owns `before' gives way to one that owns `after', and a token is
\* consumed if that takes one.
BracketStep(before, after) ==
  \/ /\ after = before
     /\ Stay \/ (Move /\ current \notin {"PAREN_START", "CUR_BRACK_START"} \cup DOMAIN Closes)
  \/ /\ before = <<>> /\ after = <<current>> /\ Move
     /\ current \in {"PAREN_START", "CUR_BRACK_START"}
  \/ /\ current \in DOMAIN Closes /\ before = <<Closes[current]>> /\ after = <<>> /\ Move

LEMMA ClosesIs ==
  /\ DOMAIN Closes = {"PAREN_END", "CUR_BRACK_END"}
  /\ Closes["PAREN_END"] = "PAREN_START" /\ Closes["CUR_BRACK_END"] = "CUR_BRACK_START"
BY DEF Closes

LEMMA NestStep ==
  ASSUME IInv, ~errors, NEW before, NEW after, BracketStep(before, after)
  PROVE  \/ after = before /\ nest' = nest
         \/ /\ before = <<>> /\ after = <<current>> /\ current \in Texts
            /\ nest' = Append(nest, current)
         \/ /\ before = <<Closes[current]>> /\ after = <<>> /\ Closes[current] \in Texts
            /\ nest # <<>> /\ nest[Len(nest)] = Closes[current] => nest' = Butlast(nest)
<1>1. current \in Texts
  BY DEF IInv, TypeOK
<1>2. CASE Stay
  BY <1>2, ClosesIs DEF BracketStep, Stay, text, Move
<1>3. CASE Move
  BY <1>1, <1>3, ClosesIs DEF BracketStep, Stay, text, Move, Last, Butlast, Texts, TokenKinds
<1> QED
  BY <1>2, <1>3 DEF BracketStep

\* The parts of the invariant, put together.
LEMMA Assembled ==
  ASSUME IInv, Move \/ Stay,
         errors' \in BOOLEAN, crashed' \in BOOLEAN, odd' \in BOOLEAN,
         StackOK(stack'), node' \in NodeRecs, Grouped(node'),
         stack' # <<>> => TopOK(stack'[Len(stack')], node', current'),
         ~errors' => CleanSoFar'
  PROVE  IInv'
<1>1. TypeOK'
  BY TextStep DEF TypeOK, StackOK
<1> QED
  BY <1>1 DEF IInv, Top, Last

LEMMA ReplaceBrackets ==
  ASSUME IInv, Running, ~errors, NEW f \in Frames, Owned(stack, nest),
         BracketStep(Own(Top), Own(f))
  PROVE  Owned([stack EXCEPT ![Len(stack)] = f], nest')
<1>1. /\ stack \in Seq(Frames) /\ stack # <<>> /\ nest \in Seq(Texts)
      /\ Top = stack[Len(stack)]
  BY DEF IInv, TypeOK, Running, Top, Last
<1> DEFINE v == [stack EXCEPT ![Len(stack)] = f]
<1>2. /\ Own(f) = Own(Top) => Owned(v, nest)
      /\ \A x \in Texts : Own(Top) = <<>> /\ Own(f) = <<x>> => Owned(v, Append(nest, x))
      /\ \A x \in Texts : Own(Top) = <<x>> /\ Own(f) = <<>> =>
           nest # <<>> /\ nest[Len(nest)] = x /\ Owned(v, Butlast(nest))
  BY <1>1, OwnedReplace
<1> HIDE DEF v
<1>3. \/ Own(f) = Own(Top) /\ nest' = nest
      \/ /\ Own(Top) = <<>> /\ Own(f) = <<current>> /\ current \in Texts
         /\ nest' = Append(nest, current)
      \/ /\ Own(Top) = <<Closes[current]>> /\ Own(f) = <<>> /\ Closes[current] \in Texts
         /\ nest # <<>> /\ nest[Len(nest)] = Closes[current] => nest' = Butlast(nest)
  BY NestStep
<1>4. Owned(v, nest')
  BY <1>2, <1>3
<1> QED
  BY <1>4 DEF v

\* A frame takes the place of the one on top.
LEMMA ReplaceStep ==
  ASSUME IInv, Running, Move \/ Stay, NEW f \in Frames,
         stack' = [stack EXCEPT ![Len(stack)] = f],
         FrameOK(f), Alike(Top, f), TopOK(f, node, current'),
         node' = node, errors' = errors, crashed' = crashed, odd' \in BOOLEAN,
         ~errors => /\ Whole(f.lhs) /\ TextOK(f, current')
                    /\ ~odd' => /\ ~odd
                                /\ \/ /\ ~Doomed(Top.at, current, next)
                                      /\ BracketStep(Own(Top), Own(f))
                                   \/ Doomed(f.at, current', next')
  PROVE  IInv'
<1>1. /\ StackOK(stack') /\ stack' # <<>> /\ stack'[Len(stack')] = f
      /\ WholeStack(stack) /\ Whole(f.lhs) => WholeStack(stack')
  BY StackReplace DEF IInv, Running, Top, Last
<1>2. ASSUME ~errors'
      PROVE  CleanSoFar'
  <2>1. ~errors /\ CleanSoFar
    BY <1>2 DEF IInv
  <2>2. ~crashed' /\ Whole(node') /\ WholeStack(stack') /\ TextOK(f, current')
    BY <1>1, <2>1 DEF CleanSoFar
  <2>3. ASSUME ~odd', ~Doomed(f.at, current', next')
        PROVE  Owned(stack', nest')
    <3>1. BracketStep(Own(Top), Own(f)) /\ Owned(stack, nest)
      BY <2>1, <2>3 DEF CleanSoFar
    <3> QED
      BY <2>1, <3>1, ReplaceBrackets
  <2> QED
    BY <1>1, <2>2, <2>3 DEF CleanSoFar, Top, Last
<1>3. node' \in NodeRecs /\ Grouped(node') /\ errors' \in BOOLEAN /\ crashed' \in BOOLEAN
  BY DEF IInv, TypeOK
<1> QED
  BY <1>1, <1>2, <1>3, Assembled

\* A frame is pushed on what the others have become.
LEMMA PushStep ==
  ASSUME IInv, Move \/ Stay, NEW t, StackOK(t), NEW f \in Frames, FrameOK(f),
         t # <<>> => PairOK(t[Len(t)], f),
         stack' = Append(t, f), node' \in NodeRecs, Grouped(node'), TopOK(f, node', current'),
         errors' \in BOOLEAN, crashed' \in BOOLEAN, odd' \in BOOLEAN,
         ~errors' => /\ ~crashed' /\ Whole(node') /\ WholeStack(t) /\ Whole(f.lhs)
                     /\ TextOK(f, current')
                     /\ ~odd' => Owned(stack', nest') \/ Doomed(f.at, current', next')
  PROVE  IInv'
<1>1. /\ StackOK(stack') /\ stack' # <<>> /\ stack'[Len(stack')] = f
      /\ WholeStack(t) /\ Whole(f.lhs) => WholeStack(stack')
  BY StackPush
<1>2. ~errors' => CleanSoFar'
  BY <1>1 DEF CleanSoFar, Top, Last
<1> QED
  BY <1>1, <1>2, Assembled

\* A recovery is begun.
LEMMA RecoveryStep ==
  ASSUME IInv, Move \/ Stay, NEW t, StackOK(t), NEW at \in SkipAts,
         t # <<>> => PairOK(t[Len(t)], Plain(at)),
         stack' = Append(t, Plain(at)), node' \in NodeRecs, Grouped(node'),
         errors' = TRUE, crashed' \in BOOLEAN, odd' \in BOOLEAN
  PROVE  IInv'
<1>1. at \in Ats /\ at \notin GrownAts /\ at \notin {"lhs", "unary"}
  BY DEF Ats, SkipAts, GrownAts
<1>2. Plain(at) \in Frames /\ FrameOK(Plain(at)) /\ Plain(at).at = at
  BY <1>1, PlainIs
<1>3. TopOK(Plain(at), node', current')
  BY <1>1, <1>2 DEF TopOK, GrownAts
<1> QED
  BY <1>2, <1>3, PushStep

\* parse_expr is called by what the others have become.
LEMMA CallStep ==
  ASSUME IInv, Move \/ Stay, NEW t, StackOK(t), NEW m \in 0..Tight,
         t # <<>> => PairOK(t[Len(t)], Frame("lhs", m, Nothing)),
         stack' = CallExpr(t, m), node' = node,
         errors' = errors, crashed' = crashed, odd' = odd,
         ~errors => WholeStack(t) /\ (~odd => Owned(t, nest'))
  PROVE  IInv'
<1>1. /\ StackOK(stack') /\ stack' # <<>> /\ stack'[Len(stack')] = Plain("prefix")
      /\ WholeStack(t) => WholeStack(stack')
      /\ \A b \in Seq(Texts) : Owned(t, b) => Owned(stack', b)
  BY StackCallExpr
<1>2. Plain("prefix").at = "prefix"
  BY DEF Plain, Frame
<1>3. TopOK(Plain("prefix"), node', current') /\ TextOK(Plain("prefix"), current')
  BY <1>2 DEF TopOK, TextOK, SkipAts
<1>4. nest' \in Seq(Texts)
  BY TextStep
<1>5. ~errors' => CleanSoFar'
  BY <1>1, <1>3, <1>4 DEF IInv, CleanSoFar, Top, Last
<1>6. node' \in NodeRecs /\ Grouped(node') /\ errors' \in BOOLEAN /\ crashed' \in BOOLEAN
      /\ odd' \in BOOLEAN
  BY DEF IInv, TypeOK
<1> QED
  BY <1>1, <1>3, <1>5, <1>6, Assembled

\* A parse function returns.
LEMMA PopStep ==
  ASSUME IInv, Running, Move \/ Stay, stack' = Popped,
         node' \in NodeRecs, Grouped(node'),
         Top.at \in PrefixAts => node'.prec = Tight,
         Top.at \in ExprAts => \/ node' = Null
                               \/ /\ node'.prec >= Top.min
                                  /\ Binds(current') < Top.min \/ Top.min = 0,
         errors' \in BOOLEAN, errors => errors', crashed' = crashed, odd' = odd,
         ~errors' => /\ Whole(node')
                     /\ ~odd => /\ ~Doomed(Top.at, current, next)
                                /\ BracketStep(Own(Top), <<>>)
  PROVE  IInv'
<1>1. /\ stack' = Butlast(stack) /\ Top = stack[Len(stack)]
      /\ stack # <<>> /\ StackOK(stack)
  BY DEF IInv, Running, Popped, Butlast, Top, Last
<1> DEFINE g == stack'[Len(stack')]
<1>2. /\ StackOK(stack')
      /\ stack' # <<>> => PairOK(g, Top)
      /\ WholeStack(stack) => WholeStack(stack')
      /\ Top \in Frames
  BY <1>1, StackPop
<1>3. stack' # <<>> => g \in Frames
  BY <1>2, ElementOfSeq, LenProperties DEF StackOK
<1>4. ASSUME stack' # <<>>
      PROVE  TopOK(g, node', current')
  <2>1. PairOK(g, Top) /\ g \in Frames
    BY <1>2, <1>3, <1>4
  <2> HIDE DEF g
  <2>2. g.at \in {"lhs", "unary"} => node'.prec = Tight
    BY <2>1 DEF PairOK
  <2>3. Binds(current') \in 0..Tight
    BY DEF Binds, precedence, Tight
  <2>4. g.at = "loop" => Binds(current') <= g.lhs.prec
    BY <2>1, <2>3 DEF PairOK
  <2>5. g.at = "rhs" => node' = Null \/ (node'.prec > g.op /\ Binds(current') <= g.op)
    <3> SUFFICES ASSUME g.at = "rhs", node' # Null
                 PROVE  node'.prec > g.op /\ Binds(current') <= g.op
      OBVIOUS
    <3>1. Top.at \in ExprAts /\ Top.min = g.op + 1 /\ g.op \in Nat /\ node'.prec \in Nat
      BY <2>1 DEF PairOK, Frames, NodeRecs, Tight
    <3>2. node'.prec >= Top.min /\ (Binds(current') < Top.min \/ Top.min = 0)
      BY <3>1
    <3>3. \A m, p, b, o \in Int : o >= 0 /\ m = o + 1 /\ p >= m /\ (b < m \/ m = 0)
                                    => p > o /\ b <= o
      OBVIOUS
    <3>4. Binds(current') \in Int /\ g.op \in Int /\ node'.prec \in Int /\ Top.min \in Int
          /\ g.op >= 0
      BY <2>3, <3>1
    <3> QED
      BY <3>1, <3>2, <3>3, <3>4
  <2> QED
    BY <2>2, <2>4, <2>5 DEF TopOK
<1>5. ASSUME ~errors'
      PROVE  CleanSoFar'
  <2>1. ~errors /\ CleanSoFar
    BY <1>5 DEF IInv
  <2>2. Top.at \notin SkipAts
    BY <1>1, <2>1 DEF CleanSoFar, TextOK
  <2>3. stack' # <<>> => TextOK(g, current')
    <3> SUFFICES ASSUME stack' # <<>> PROVE TextOK(g, current')
      OBVIOUS
    <3> QED
      BY <1>2, <2>2 DEF PairOK, TextOK
  <2>4. ASSUME ~odd'
        PROVE  Owned(stack', nest')
    <3>1. Owned(stack, nest) /\ BracketStep(Own(Top), <<>>)
      BY <1>5, <2>1, <2>4 DEF CleanSoFar
    <3>2. stack \in Seq(Frames) /\ nest \in Seq(Texts)
      BY DEF IInv, TypeOK
    <3>3. /\ Own(Top) = <<>> => Owned(stack', nest)
          /\ Own(Top) # <<>> => /\ nest # <<>> /\ nest[Len(nest)] = Own(Top)[1]
                                /\ Owned(stack', Butlast(nest))
      BY <1>1, <3>1, <3>2, OwnedPop
    <3>4. \/ Own(Top) = <<>> /\ nest' = nest
          \/ /\ Own(Top) = <<Closes[current]>>
             /\ nest # <<>> /\ nest[Len(nest)] = Closes[current] => nest' = Butlast(nest)
      <4>1. \/ <<>> = Own(Top) /\ nest' = nest
            \/ Own(Top) = <<>> /\ <<>> = <<current>>
            \/ /\ Own(Top) = <<Closes[current]>>
               /\ nest # <<>> /\ nest[Len(nest)] = Closes[current] => nest' = Butlast(nest)
        BY <2>1, <3>1, NestStep
      <4>2. <<>> # <<current>>
        OBVIOUS
      <4> QED
        BY <4>1, <4>2
    <3>5. Own(Top) = <<Closes[current]>> => Own(Top)[1] = Closes[current] /\ Own(Top) # <<>>
      OBVIOUS
    <3> QED
      BY <3>3, <3>4, <3>5
  <2> QED
    BY <1>2, <1>5, <2>1, <2>3, <2>4 DEF CleanSoFar, Top, Last
<1>6. crashed' \in BOOLEAN /\ odd' \in BOOLEAN
  BY DEF IInv, TypeOK
<1> QED
  BY <1>2, <1>4, <1>5, <1>6, Assembled
-----------------------------------------------------------------------------
\* What stands on the stack is what the invariant says of it.
LEMMA TopIs ==
  ASSUME IInv, Running
  PROVE  /\ stack # <<>> /\ Top = stack[Len(stack)] /\ StackOK(stack) /\ ~crashed
         /\ stack \in Seq(Frames) /\ nest \in Seq(Texts) /\ current \in Texts
         /\ Top \in Frames /\ FrameOK(Top) /\ TopOK(Top, node, current)
         /\ node \in NodeRecs /\ Grouped(node)
         /\ errors \in BOOLEAN /\ crashed \in BOOLEAN /\ odd \in BOOLEAN
         /\ ~errors => /\ Whole(node) /\ WholeStack(stack) /\ Whole(Top.lhs)
                       /\ TextOK(Top, current)
                       /\ ~odd => Owned(stack, nest) \/ Doomed(Top.at, current, next)
<1>1. stack # <<>> /\ Top = stack[Len(stack)] /\ StackOK(stack) /\ ~crashed
  BY DEF IInv, Running, Top, Last
<1>2. Top \in Frames /\ FrameOK(Top) /\ (WholeStack(stack) => Whole(Top.lhs))
  BY <1>1, StackPop
<1>3. ~errors => CleanSoFar
  BY DEF IInv
<1> QED
  BY <1>1, <1>2, <1>3 DEF IInv, TypeOK, CleanSoFar

\* The top frame goes on elsewhere.
LEMMA GotoIs ==
  ASSUME IInv, Running, NEW at \in Ats
  PROVE  /\ Goto(at) = [stack EXCEPT ![Len(stack)] = [Top EXCEPT !.at = at]]
         /\ [Top EXCEPT !.at = at] \in Frames
         /\ [Top EXCEPT !.at = at].at = at
         /\ [Top EXCEPT !.at = at].min = Top.min
         /\ [Top EXCEPT !.at = at].op = Top.op
         /\ [Top EXCEPT !.at = at].lhs = Top.lhs
<1>1. Top \in Frames /\ Top = stack[Len(stack)]
  BY TopIs
<1> QED
  BY <1>1 DEF Goto, Frames

\* May a frame that is at `from' go on at `to', as far as its neighbours go?
Leads(from, to) ==
  /\ from \in PrefixAts => to \in PrefixAts
  /\ from \in ExprAts => to \in ExprAts
  /\ from \in SkipAts => to \in SkipAts
  /\ to \in GrownAts => from \in GrownAts /\ to # "rhs"

LEMMA GotoStack ==
  ASSUME IInv, Running, NEW at \in Ats, Leads(Top.at, at)
  PROVE  /\ StackOK(Goto(at)) /\ Goto(at) # <<>>
         /\ FrameOK([Top EXCEPT !.at = at]) /\ Alike(Top, [Top EXCEPT !.at = at])
         /\ Goto(at)[Len(Goto(at))] = [Top EXCEPT !.at = at]
         /\ WholeStack(stack) => WholeStack(Goto(at))
         /\ ~errors /\ Owned(stack, nest) /\ BracketStep(Own(Top), OwnAt(at))
              => Owned(Goto(at), nest')
<1> DEFINE f == [Top EXCEPT !.at = at]
<1>1. /\ Goto(at) = [stack EXCEPT ![Len(stack)] = f]
      /\ f \in Frames /\ f.at = at /\ f.min = Top.min /\ f.op = Top.op /\ f.lhs = Top.lhs
  BY GotoIs
<1> HIDE DEF f
<1>2. /\ stack # <<>> /\ Top = stack[Len(stack)] /\ StackOK(stack) /\ FrameOK(Top)
      /\ WholeStack(stack) => Whole(Top.lhs)
  BY TopIs, StackPop
<1>3. FrameOK(f) /\ Alike(Top, f)
  BY <1>1, <1>2 DEF FrameOK, Leads, Alike
<1>4. /\ StackOK(Goto(at)) /\ Goto(at) # <<>> /\ Goto(at)[Len(Goto(at))] = f
      /\ WholeStack(stack) => WholeStack(Goto(at))
  <2>1. Alike(stack[Len(stack)], f)
    BY <1>2, <1>3
  <2> DEFINE v == [stack EXCEPT ![Len(stack)] = f]
  <2>2. /\ StackOK(v) /\ v # <<>> /\ v[Len(v)] = f
        /\ WholeStack(stack) /\ Whole(f.lhs) => WholeStack(v)
    BY <1>1, <1>2, <1>3, <2>1, StackReplace
  <2>3. Goto(at) = v
    BY <1>1
  <2> HIDE DEF v
  <2> QED
    BY <1>1, <1>2, <2>2, <2>3
<1>5. Own(f) = OwnAt(at)
  BY <1>1 DEF Own
<1>6. ~errors /\ Owned(stack, nest) /\ BracketStep(Own(Top), OwnAt(at))
        => Owned(Goto(at), nest')
  BY <1>1, <1>5, ReplaceBrackets
<1> QED
  BY <1>3, <1>4, <1>6 DEF f

LEMMA GotoStep ==
  ASSUME IInv, Running, Move \/ Stay, NEW at \in Ats, Leads(Top.at, at),
         at \notin {"lhs", "unary", "loop", "rhs", "int_name", "assn_eq"} \cup SkipAts,
         stack' = Goto(at),
         node' = node, errors' = errors, crashed' = crashed, odd' \in BOOLEAN,
         ~errors => /\ at = "fn_close" => current' = "PAREN_END"
                    /\ ~odd' => /\ ~odd
                                /\ \/ /\ ~Doomed(Top.at, current, next)
                                      /\ BracketStep(Own(Top), OwnAt(at))
                                   \/ Doomed(at, current', next')
  PROVE  IInv'
<1> DEFINE f == [Top EXCEPT !.at = at]
<1>1. /\ Goto(at) = [stack EXCEPT ![Len(stack)] = f]
      /\ f \in Frames /\ f.at = at /\ f.lhs = Top.lhs
  BY GotoIs
<1>2. FrameOK(f) /\ Alike(Top, f)
  BY GotoStack
<1>3. ~errors => Whole(f.lhs)
  BY <1>1, TopIs
<1> HIDE DEF f
<1>4. TopOK(f, node, current') /\ Own(f) = OwnAt(at)
  BY <1>1 DEF TopOK, Own
<1>5. ~errors => TextOK(f, current')
  BY <1>1 DEF TextOK
<1> QED
  BY <1>1, <1>2, <1>3, <1>4, <1>5, ReplaceStep

\* Only the text goes on, and there is an error.
LEMMA SameStep ==
  ASSUME IInv, Running, Move \/ Stay, Top.at \notin {"loop", "rhs"},
         stack' = stack, node' = node, errors' = TRUE, crashed' = crashed, odd' = odd
  PROVE  IInv'
<1>1. /\ StackOK(stack) /\ node \in NodeRecs /\ Grouped(node)
      /\ TopOK(Top, node, current) /\ crashed \in BOOLEAN /\ odd \in BOOLEAN
      /\ Top = stack[Len(stack)]
  BY TopIs
<1>2. TopOK(Top, node, current')
  BY <1>1 DEF TopOK
<1> QED
  BY <1>1, <1>2, Assembled

\* The parser is killed, by a node it has reported an error for.
LEMMA CrashStep ==
  ASSUME IInv, Crash, errors
  PROVE  IInv'
<1>1. Stay
  BY DEF Crash, Stay
<1>2. stack # <<>> => TopOK(stack[Len(stack)], node, current')
  BY <1>1 DEF IInv, Stay, text, Top, Last
<1> QED
  BY <1>1, <1>2, Assembled DEF IInv, TypeOK, Crash

LEMMA PushBrackets ==
  ASSUME IInv, ~errors, NEW t \in Seq(Frames), Owned(t, nest), NEW f \in Frames,
         BracketStep(<<>>, Own(f))
  PROVE  Owned(Append(t, f), nest')
<1>1. nest \in Seq(Texts)
  BY DEF IInv, TypeOK
<1>2. /\ Own(f) = <<>> => Owned(Append(t, f), nest)
      /\ \A x \in Texts : Own(f) = <<x>> => Owned(Append(t, f), Append(nest, x))
  BY <1>1, OwnedPush
<1>3. \/ Own(f) = <<>> /\ nest' = nest
      \/ /\ <<>> = <<>> /\ Own(f) = <<current>> /\ current \in Texts
         /\ nest' = Append(nest, current)
      \/ /\ <<>> = <<Closes[current]>> /\ Own(f) = <<>> /\ Closes[current] \in Texts
         /\ nest # <<>> /\ nest[Len(nest)] = Closes[current] => nest' = Butlast(nest)
  BY NestStep, Zenon
<1>4. <<>> # <<Closes[current]>>
  OBVIOUS
<1> QED
  BY <1>2, <1>3, <1>4
-----------------------------------------------------------------------------
LEMMA StartsIs ==
  /\ DOMAIN Starts = {"INT", "FN", "RETURN", "IF", "WHILE", "IDENTIFIER", "CUR_BRACK_START"}
  /\ Starts["INT"] = "int_name" /\ Starts["FN"] = "fn_name" /\ Starts["RETURN"] = "return"
  /\ Starts["IF"] = "if_paren" /\ Starts["WHILE"] = "while_paren"
  /\ Starts["IDENTIFIER"] = "assn_eq" /\ Starts["CUR_BRACK_START"] = "block"
BY DEF Starts

LEMMA SyncInv == IInv /\ Sync => IInv'
<1> SUFFICES ASSUME IInv, Sync PROVE IInv'
  OBVIOUS
<1>1. Running /\ Top.at = "sync" /\ (Move \/ Stay) /\ node' = node
      /\ errors' = errors /\ crashed' = crashed /\ odd' = odd
      /\ stack' \in {Popped, stack}
  BY DEF Sync, At, Quiet
<1>2. errors /\ node \in NodeRecs /\ Grouped(node) /\ errors \in BOOLEAN
  BY <1>1, TopIs DEF TextOK, SkipAts
<1>3. CASE stack' = Popped
  BY <1>1, <1>2, <1>3, PopStep DEF PrefixAts, ExprAts, GrownAts
<1>4. CASE stack' = stack
  BY <1>1, <1>2, <1>4, SameStep
<1> QED
  BY <1>1, <1>3, <1>4

LEMMA SkipInv == IInv /\ Skip => IInv'
<1> SUFFICES ASSUME IInv, Skip PROVE IInv'
  OBVIOUS
<1>1. Running /\ Top.at = "skip" /\ (Move \/ Stay) /\ node' = node
      /\ errors' = errors /\ crashed' = crashed /\ odd' = odd
      /\ stack' \in {Popped, stack}
  BY DEF Skip, At, Quiet, advance
<1>2. errors /\ node \in NodeRecs /\ Grouped(node) /\ errors \in BOOLEAN
  BY <1>1, TopIs DEF TextOK, SkipAts
<1>3. CASE stack' = Popped
  BY <1>1, <1>2, <1>3, PopStep DEF PrefixAts, ExprAts, GrownAts
<1>4. CASE stack' = stack
  BY <1>1, <1>2, <1>4, SameStep
<1> QED
  BY <1>1, <1>3, <1>4

\* The frame of a list of items can have any other put on it.
LEMMA ItemsIs ==
  ASSUME IInv, InItems
  PROVE  /\ Running /\ Top.at \in {"program", "block"}
         /\ \A g : PairOK(Top, g)
         /\ ~errors /\ ~odd /\ current # "PAREN_END" => Owned(stack, nest)
<1>1. Running /\ Top.at \in {"program", "block"}
  BY DEF InItems, At
<1>2. \A g : PairOK(Top, g)
  BY <1>1 DEF PairOK, SkipAts
<1>3. ~errors /\ ~odd /\ current # "PAREN_END" => Owned(stack, nest)
  BY <1>1, TopIs DEF Doomed
<1> QED
  BY <1>1, <1>2, <1>3

LEMMA BeginItemInv == IInv /\ BeginItem => IInv'
<1> SUFFICES ASSUME IInv, BeginItem PROVE IInv'
  OBVIOUS
<1> DEFINE at == Starts[current]
           f == Plain(at)
<1>1. /\ InItems /\ Move /\ node' = node /\ current \in DOMAIN Starts
      /\ errors' = errors /\ crashed' = crashed /\ odd' = odd
      /\ stack' = Append(stack, f)
  BY DEF BeginItem, Quiet, Push
<1>2. /\ at \in {"int_name", "fn_name", "return", "if_paren", "while_paren", "assn_eq", "block"}
      /\ at = "int_name" => current = "INT"
      /\ at = "assn_eq" => current = "IDENTIFIER"
      /\ at = "block" <=> current = "CUR_BRACK_START"
      /\ current \notin {"PAREN_START", "PAREN_END", "CUR_BRACK_END"}
  BY <1>1, StartsIs
<1> HIDE DEF at
<1>3. at \in Ats /\ at \notin ExprAts /\ at \notin SkipAts /\ at # "fn_close" /\ at # "unary"
  BY <1>2 DEF Ats, ExprAts, GrownAts, SkipAts, BraceAts, OtherAts
<1>4. f \in Frames /\ f.at = at /\ Whole(f.lhs) /\ FrameOK(f)
  BY <1>3, PlainIs DEF ExprAts
<1> HIDE DEF f
<1>5. /\ Running /\ PairOK(Top, f)
      /\ ~errors /\ ~odd => Owned(stack, nest)
  BY <1>1, <1>2, ItemsIs
<1>6. /\ StackOK(stack) /\ stack \in Seq(Frames) /\ Top = stack[Len(stack)]
      /\ node \in NodeRecs /\ Grouped(node)
      /\ errors \in BOOLEAN /\ crashed \in BOOLEAN /\ odd \in BOOLEAN /\ ~crashed
      /\ ~errors => Whole(node) /\ WholeStack(stack)
  BY <1>5, TopIs
<1>7. TopOK(f, node, current')
  BY <1>3, <1>4 DEF TopOK, ExprAts, GrownAts
<1>8. TextOK(f, current')
  <2>1. /\ at = "int_name" => current' = "IDENTIFIER"
        /\ at = "assn_eq" => current' = "EQ"
    BY <1>1, <1>2, SeenComes DEF BeginItem, Needs
  <2> QED
    BY <1>3, <1>4, <2>1 DEF TextOK
<1>9. BracketStep(<<>>, Own(f))
  <2>1. Own(f) = IF current = "CUR_BRACK_START" THEN <<"CUR_BRACK_START">> ELSE <<>>
    BY <1>2, <1>4 DEF Own, OwnAt, ParenAts, BraceAts
  <2> QED
    BY <1>1, <1>2, <2>1, ClosesIs DEF BracketStep
<1>10. ~errors /\ ~odd => Owned(Append(stack, f), nest')
  BY <1>4, <1>5, <1>6, <1>9, PushBrackets
<1> QED
  BY <1>1, <1>4, <1>5, <1>6, <1>7, <1>8, <1>10, PushStep

LEMMA BeginCallStmtInv == IInv /\ BeginCallStmt => IInv'
<1> SUFFICES ASSUME IInv, BeginCallStmt PROVE IInv'
  OBVIOUS
<1> DEFINE f == Plain("call_stmt")
           t == Append(stack, f)
<1>1. /\ InItems /\ Stay /\ node' = node /\ current = "IDENTIFIER"
      /\ errors' = errors /\ crashed' = crashed /\ odd' = odd
      /\ stack' = CallExpr(t, 0)
  BY DEF BeginCallStmt, CallAhead, Quiet, Push
<1>2. f \in Frames /\ f.at = "call_stmt" /\ Whole(f.lhs) /\ FrameOK(f)
  BY PlainIs DEF Ats, OtherAts, GrownAts
<1>3. Own(f) = <<>> /\ PairOK(f, Frame("lhs", 0, Nothing)) /\ 0 \in 0..Tight
  BY <1>2 DEF Own, OwnAt, ParenAts, BraceAts, PairOK, SkipAts, Tight
<1> HIDE DEF f
<1>4. /\ Running /\ PairOK(Top, f)
      /\ ~errors /\ ~odd => Owned(stack, nest)
  BY <1>1, ItemsIs
<1>5. /\ StackOK(stack) /\ stack \in Seq(Frames) /\ Top = stack[Len(stack)]
      /\ ~errors => WholeStack(stack)
  BY <1>4, TopIs
<1>6. /\ StackOK(t) /\ t # <<>> /\ t[Len(t)] = f
      /\ ~errors => WholeStack(t)
  BY <1>2, <1>4, <1>5, StackPush
<1>7. ~errors /\ ~odd => Owned(t, nest')
  <2>1. BracketStep(<<>>, Own(f))
    BY <1>1, <1>3 DEF BracketStep
  <2> QED
    BY <1>2, <1>4, <1>5, <2>1, PushBrackets
<1> HIDE DEF t
<1> QED
  BY <1>1, <1>3, <1>6, <1>7, CallStep

LEMMA BadIntInv == IInv /\ BadInt => IInv'
<1> SUFFICES ASSUME IInv, BadInt PROVE IInv'
  OBVIOUS
<1>1. /\ InItems /\ Stay /\ node' = node /\ errors' = TRUE
      /\ crashed' = crashed /\ odd' = odd /\ stack' = Append(stack, Plain("skip"))
  BY DEF BadInt, Report, Push
<1>2. Running /\ PairOK(Top, Plain("skip")) /\ "skip" \in SkipAts
  BY <1>1, ItemsIs DEF SkipAts
<1>3. StackOK(stack) /\ Top = stack[Len(stack)] /\ node \in NodeRecs /\ Grouped(node)
      /\ crashed \in BOOLEAN /\ odd \in BOOLEAN
  BY <1>2, TopIs
<1> QED
  BY <1>1, <1>2, <1>3, RecoveryStep

LEMMA UnexpectedInv == IInv /\ Unexpected => IInv'
<1> SUFFICES ASSUME IInv, Unexpected PROVE IInv'
  OBVIOUS
<1>1. Running /\ Top.at \in {"program", "block"}
  BY ItemsIs DEF Unexpected
<1> QED
  BY <1>1, SameStep DEF Unexpected, Report

LEMMA EndItemsInv == IInv /\ EndItems => IInv'
<1> SUFFICES ASSUME IInv, EndItems PROVE IInv'
  OBVIOUS
<1>1. /\ Running /\ Top.at \in {"program", "block"} /\ (Move \/ Stay) /\ stack' = Popped
      /\ node' \in {Node("AST_BLOCK"), Node("AST_PROGRAM")}
      /\ crashed' = crashed /\ odd' = odd /\ errors' \in {errors, TRUE}
  BY DEF EndItems, At, Return, Quiet, Report, Stay
<1>2. node' \in NodeRecs /\ Grouped(node') /\ Whole(node')
  BY <1>1, NodeIs DEF Kinds, Whole
<1>3. ~errors' => BracketStep(Own(Top), <<>>) /\ ~Doomed(Top.at, current, next)
  <2>1. CASE Top.at = "block"
    <3>1. ~errors' => current = "CUR_BRACK_END" /\ Move
      BY <2>1 DEF EndItems, At, Report
    <3>2. Own(Top) = <<"CUR_BRACK_START">>
      BY <2>1 DEF Own, OwnAt, ParenAts, BraceAts
    <3> QED
      BY <2>1, <3>1, <3>2, ClosesIs DEF BracketStep, Doomed
  <2>2. CASE Top.at = "program"
    <3>1. Stay
      BY <2>2 DEF EndItems, At, Stay
    <3>2. Own(Top) = <<>>
      BY <2>2 DEF Own, OwnAt, ParenAts, BraceAts
    <3> QED
      BY <2>2, <3>1, <3>2 DEF BracketStep, Doomed
  <2> QED
    BY <1>1, <2>1, <2>2
<1>4. errors' \in BOOLEAN /\ (errors => errors')
  <2>1. errors \in BOOLEAN
    BY <1>1, TopIs
  <2>2. CASE errors' = errors
    BY <2>1, <2>2
  <2>3. CASE errors' = TRUE
    BY <2>3
  <2> QED
    BY <1>1, <2>2, <2>3
<1>5. Top.at \notin PrefixAts /\ Top.at \notin ExprAts
  BY <1>1 DEF PrefixAts, ExprAts, GrownAts
<1> QED
  BY <1>1, <1>2, <1>3, <1>4, <1>5, PopStep

\* The places of a statement, which is no expression.
StmtAts == OtherAts \cup BraceAts \cup (ParenAts \ {"paren", "args", "arg_end"})

LEMMA StmtAtsIs ==
  ASSUME NEW at \in StmtAts
  PROVE  /\ at \in Ats /\ at \notin PrefixAts /\ at \notin ExprAts /\ at \notin SkipAts
         /\ at \notin GrownAts /\ at \notin {"lhs", "unary", "loop", "rhs", "prefix"} \cup SkipAts
<1>1. at \in Ats
  BY DEF StmtAts, Ats
<1>2. at \notin PrefixAts /\ at \notin GrownAts /\ at \notin {"lhs", "sync", "skip"}
  BY DEF StmtAts, PrefixAts, GrownAts, OtherAts, BraceAts, ParenAts
<1> QED
  BY <1>1, <1>2 DEF ExprAts, SkipAts, GrownAts, PrefixAts

LEMMA StmtLeads ==
  ASSUME NEW from \in StmtAts, NEW to \in StmtAts
  PROVE  Leads(from, to)
BY StmtAtsIs DEF Leads

\* parse_expr is called by a frame that goes on elsewhere.
LEMMA GotoCallStep ==
  ASSUME IInv, Running, Move \/ Stay, NEW at \in Ats, Leads(Top.at, at),
         at \notin {"lhs", "unary", "loop", "rhs", "prefix", "int_name", "assn_eq", "fn_close"}
                   \cup SkipAts,
         stack' = CallExpr(Goto(at), 0),
         node' = node, errors' = errors, crashed' = crashed, odd' = odd,
         ~errors /\ ~odd => ~Doomed(Top.at, current, next) /\ BracketStep(Own(Top), OwnAt(at))
  PROVE  IInv'
<1> DEFINE t == Goto(at)
<1>1. /\ StackOK(t) /\ t # <<>> /\ t[Len(t)] = [Top EXCEPT !.at = at]
      /\ WholeStack(stack) => WholeStack(t)
      /\ ~errors /\ Owned(stack, nest) /\ BracketStep(Own(Top), OwnAt(at)) => Owned(t, nest')
  BY GotoStack
<1>2. /\ ~errors => WholeStack(stack)
      /\ ~errors /\ ~odd => Owned(stack, nest) \/ Doomed(Top.at, current, next)
  BY TopIs
<1> HIDE DEF t
<1>3. t[Len(t)].at = at
  BY <1>1, GotoIs
<1>4. PairOK(t[Len(t)], Frame("lhs", 0, Nothing)) /\ 0 \in 0..Tight
  BY <1>3 DEF PairOK, Tight
<1>5. ~errors => WholeStack(t) /\ (~odd => Owned(t, nest'))
  BY <1>1, <1>2
<1> QED
  BY <1>1, <1>4, <1>5, CallStep DEF t

\* The frame of a statement can be dropped, and what is below takes any other.
LEMMA PoppedIs ==
  ASSUME IInv, Running, Top.at \in StmtAts
  PROVE  /\ StackOK(Popped)
         /\ Popped # <<>> => \A g : PairOK(Popped[Len(Popped)], g)
<1>1. Popped = Butlast(stack) /\ stack # <<>> /\ StackOK(stack) /\ Top = stack[Len(stack)]
  BY TopIs DEF Popped, Butlast
<1>2. /\ StackOK(Popped)
      /\ Popped # <<>> => PairOK(Popped[Len(Popped)], Top)
  BY <1>1, StackPop
<1>3. Top.at \notin PrefixAts /\ Top.at \notin ExprAts /\ Top.at \notin SkipAts
  BY StmtAtsIs
<1> QED
  BY <1>2, <1>3 DEF PairOK

LEMMA NotBracket ==
  ASSUME NEW before, Stay \/ (Move /\ current \notin {"PAREN_START", "CUR_BRACK_START", "PAREN_END", "CUR_BRACK_END"})
  PROVE  BracketStep(before, before)
BY ClosesIs DEF BracketStep
-----------------------------------------------------------------------------
LEMMA IntNameInv == IInv /\ IntName => IInv'
<1> SUFFICES ASSUME IInv, IntName PROVE IInv'
  OBVIOUS
<1>1. /\ Running /\ Top.at = "int_name" /\ Move /\ stack' = Goto("int_init") /\ node' = node
      /\ errors' = errors /\ crashed' = crashed /\ odd' = odd
  BY DEF IntName, At, Quiet
<1>2. "int_name" \in StmtAts /\ "int_init" \in StmtAts /\ Own(Top) = <<>> /\ OwnAt("int_init") = <<>>
  BY <1>1 DEF StmtAts, OtherAts, Own, OwnAt, ParenAts, BraceAts
<1>3. ~errors => current = "IDENTIFIER"
  BY <1>1, TopIs DEF TextOK
<1>4. ~errors => BracketStep(Own(Top), OwnAt("int_init"))
  BY <1>1, <1>2, <1>3, NotBracket
<1>5. odd \in BOOLEAN /\ ~Doomed(Top.at, current, next)
  BY <1>1, TopIs DEF Doomed
<1>6. "int_init" \in Ats /\ Leads(Top.at, "int_init")
      /\ "int_init" \notin {"lhs", "unary", "loop", "rhs", "int_name", "assn_eq"} \cup SkipAts
  BY <1>1, <1>2, StmtAtsIs, StmtLeads
<1> QED
  BY <1>1, <1>4, <1>5, <1>6, GotoStep

LEMMA IntInitInv == IInv /\ IntInit => IInv'
<1> SUFFICES ASSUME IInv, IntInit PROVE IInv'
  OBVIOUS
<1>1. Running /\ Top.at = "int_init"
  BY DEF IntInit, At
<1>2. /\ "int_init" \in StmtAts /\ "int_end" \in StmtAts
      /\ Own(Top) = <<>> /\ OwnAt("int_end") = <<>>
  BY <1>1 DEF StmtAts, OtherAts, Own, OwnAt, ParenAts, BraceAts
<1>3. odd \in BOOLEAN /\ crashed \in BOOLEAN /\ ~Doomed(Top.at, current, next)
  BY <1>1, TopIs DEF Doomed
<1>4. "int_end" \in Ats /\ Leads(Top.at, "int_end")
      /\ "int_end" \notin {"lhs", "unary", "loop", "rhs", "prefix", "int_name", "assn_eq", "fn_close"}
                     \cup SkipAts
  BY <1>1, <1>2, StmtAtsIs, StmtLeads
<1>5. CASE current = "EQ"
  <2>1. /\ Move /\ stack' = CallExpr(Goto("int_end"), 0) /\ node' = node
        /\ errors' = errors /\ crashed' = crashed /\ odd' = odd
    BY <1>5 DEF IntInit, Quiet
  <2>2. BracketStep(Own(Top), OwnAt("int_end"))
    BY <1>2, <1>5, <2>1, NotBracket
  <2> QED
    BY <1>1, <1>3, <1>4, <2>1, <2>2, GotoCallStep
<1>6. CASE current = "SEMICOLON"
  <2>1. /\ Stay /\ stack' = Goto("int_end") /\ node' = node
        /\ errors' = errors /\ crashed' = crashed /\ odd' = odd
    BY <1>6 DEF IntInit, Quiet
  <2>2. BracketStep(Own(Top), OwnAt("int_end"))
    BY <1>2, <2>1, NotBracket
  <2> QED
    BY <1>1, <1>3, <1>4, <2>1, <2>2, GotoStep
<1>7. CASE current \notin {"EQ", "SEMICOLON"}
  <2>1. /\ Stay /\ stack' = Append(Popped, Plain("skip")) /\ node' = Error
        /\ errors' = TRUE /\ crashed' = crashed /\ odd' = odd
    BY <1>7 DEF IntInit, Report, Push
  <2>2. Error \in NodeRecs /\ Grouped(Error) /\ "skip" \in SkipAts
    BY NodeIs DEF Error, Kinds, SkipAts
  <2>3. /\ StackOK(Popped)
        /\ Popped # <<>> => PairOK(Popped[Len(Popped)], Plain("skip"))
    BY <1>1, <1>2, PoppedIs
  <2> QED
    BY <1>3, <2>1, <2>2, <2>3, RecoveryStep
<1> QED
  BY <1>5, <1>6, <1>7

LEMMA AssnEqInv == IInv /\ AssnEq => IInv'
<1> SUFFICES ASSUME IInv, AssnEq PROVE IInv'
  OBVIOUS
<1>1. /\ Running /\ Top.at = "assn_eq" /\ Move /\ stack' = CallExpr(Goto("assn_end"), 0)
      /\ node' = node /\ errors' = errors /\ crashed' = crashed /\ odd' = odd
  BY DEF AssnEq, At, Quiet
<1>2. /\ "assn_eq" \in StmtAts /\ "assn_end" \in StmtAts
      /\ Own(Top) = <<>> /\ OwnAt("assn_end") = <<>>
  BY <1>1 DEF StmtAts, OtherAts, Own, OwnAt, ParenAts, BraceAts
<1>3. ~errors => current = "EQ"
  BY <1>1, TopIs DEF TextOK
<1>4. ~errors => BracketStep(Own(Top), OwnAt("assn_end"))
  BY <1>1, <1>2, <1>3, NotBracket
<1>5. ~Doomed(Top.at, current, next)
  BY <1>1 DEF Doomed
<1>6. "assn_end" \in Ats /\ Leads(Top.at, "assn_end")
      /\ "assn_end" \notin {"lhs", "unary", "loop", "rhs", "prefix", "int_name", "assn_eq", "fn_close"}
                     \cup SkipAts
  BY <1>1, <1>2, StmtAtsIs, StmtLeads
<1> QED
  BY <1>1, <1>4, <1>5, <1>6, GotoCallStep

LEMMA EndDeclInv == IInv /\ EndDecl => IInv'
<1> SUFFICES ASSUME IInv, EndDecl PROVE IInv'
  OBVIOUS
<1>1. Running /\ Top.at \in {"int_end", "assn_end"}
  BY DEF EndDecl, At, Terminated
<1>2. Top.at \in StmtAts /\ Own(Top) = <<>> /\ ~Doomed(Top.at, current, next)
  BY <1>1 DEF StmtAts, OtherAts, Own, OwnAt, ParenAts, BraceAts, Doomed
<1>3. Top.at \notin PrefixAts /\ Top.at \notin ExprAts /\ errors \in BOOLEAN
  BY <1>1, <1>2, StmtAtsIs, TopIs
<1>4. CASE current = "SEMICOLON"
  <2>1. /\ Move /\ stack' = Popped /\ node' \in {Node("AST_VAR_DEC"), Node("AST_ASSN")}
        /\ errors' = errors /\ crashed' = crashed /\ odd' = odd
    BY <1>1, <1>4 DEF EndDecl, Return, Quiet, Terminated
  <2>2. node' \in NodeRecs /\ Grouped(node') /\ Whole(node')
    BY <2>1, NodeIs DEF Kinds, Whole
  <2>3. BracketStep(Own(Top), <<>>)
    BY <1>2, <1>4, <2>1, NotBracket
  <2> QED
    BY <1>1, <1>2, <1>3, <2>1, <2>2, <2>3, PopStep
<1>5. CASE current # "SEMICOLON"
  <2>1. /\ Stay /\ stack' = Popped /\ node' = Error
        /\ errors' = TRUE /\ crashed' = crashed /\ odd' = odd
    BY <1>5 DEF EndDecl, Return, Report
  <2>2. node' \in NodeRecs /\ Grouped(node')
    BY <2>1, NodeIs DEF Error, Kinds
  <2> QED
    BY <1>1, <1>2, <1>3, <2>1, <2>2, PopStep
<1> QED
  BY <1>4, <1>5

LEMMA BeginReturnInv == IInv /\ BeginReturn => IInv'
<1> SUFFICES ASSUME IInv, BeginReturn PROVE IInv'
  OBVIOUS
<1>1. /\ Running /\ Top.at = "return"
      /\ errors' = errors /\ crashed' = crashed /\ odd' = odd
  BY DEF BeginReturn, At, Quiet
<1>2. /\ "return" \in StmtAts /\ "return_end" \in StmtAts
      /\ Own(Top) = <<>> /\ OwnAt("return_end") = <<>>
  BY <1>1 DEF StmtAts, OtherAts, Own, OwnAt, ParenAts, BraceAts
<1>3. ~Doomed(Top.at, current, next) /\ errors \in BOOLEAN
  BY <1>1, TopIs DEF Doomed
<1>4. CASE current = "SEMICOLON"
  <2>1. Move /\ stack' = Popped /\ node' = Node("AST_EXIT")
    BY <1>4 DEF BeginReturn, Return
  <2>2. node' \in NodeRecs /\ Grouped(node') /\ Whole(node')
    BY <2>1, NodeIs DEF Kinds, Whole
  <2>3. BracketStep(Own(Top), <<>>)
    BY <1>2, <1>4, <2>1, NotBracket
  <2>4. Top.at \notin PrefixAts /\ Top.at \notin ExprAts
    BY <1>1, <1>2, StmtAtsIs
  <2> QED
    BY <1>1, <1>3, <2>1, <2>2, <2>3, <2>4, PopStep
<1>5. CASE current # "SEMICOLON"
  <2>1. Stay /\ stack' = CallExpr(Goto("return_end"), 0) /\ node' = node
    BY <1>5 DEF BeginReturn, Stay, text
  <2>2. BracketStep(Own(Top), OwnAt("return_end"))
    BY <1>2, <2>1, NotBracket
  <2>3. "return_end" \in Ats /\ Leads(Top.at, "return_end")
      /\ "return_end" \notin {"lhs", "unary", "loop", "rhs", "prefix", "int_name", "assn_eq", "fn_close"}
                     \cup SkipAts
    BY <1>1, <1>2, StmtAtsIs, StmtLeads
  <2> QED
    BY <1>1, <1>3, <2>1, <2>2, <2>3, GotoCallStep
<1> QED
  BY <1>4, <1>5

LEMMA EndStmtInv == IInv /\ EndStmt => IInv'
<1> SUFFICES ASSUME IInv, EndStmt PROVE IInv'
  OBVIOUS
<1>1. Running /\ Top.at \in {"return_end", "call_stmt"}
  BY DEF EndStmt, At
<1>2. Top.at \in StmtAts /\ Own(Top) = <<>> /\ ~Doomed(Top.at, current, next)
  BY <1>1 DEF StmtAts, OtherAts, Own, OwnAt, ParenAts, BraceAts, Doomed
<1>3. /\ Top.at \notin PrefixAts /\ Top.at \notin ExprAts
      /\ errors \in BOOLEAN /\ crashed \in BOOLEAN /\ odd \in BOOLEAN
      /\ node \in NodeRecs /\ Grouped(node) /\ (~errors => Whole(node))
  BY <1>1, <1>2, StmtAtsIs, TopIs
<1>4. CASE Top.at = "return_end" /\ node = Null
  <2>1. ~Whole(node)
    BY <1>4 DEF Null, Node, Whole
  <2>2. errors /\ Crash
    BY <1>3, <1>4, <2>1 DEF EndStmt
  <2> QED
    BY <2>2, CrashStep
<1>5. CASE ~(Top.at = "return_end" /\ node = Null)
  <2>1. node' \in {node, Node("AST_EXIT")}
    BY <1>5 DEF EndStmt
  <2>2. node' \in NodeRecs /\ Grouped(node') /\ (~errors => Whole(node'))
    BY <1>3, <2>1, NodeIs DEF Kinds, Whole
  <2>3. CASE current = "SEMICOLON"
    <3>1. Move /\ stack' = Popped /\ errors' = errors /\ crashed' = crashed /\ odd' = odd
      BY <1>5, <2>3 DEF EndStmt, Quiet
    <3>2. BracketStep(Own(Top), <<>>)
      BY <1>2, <2>3, <3>1, NotBracket
    <3> QED
      BY <1>1, <1>2, <1>3, <2>2, <3>1, <3>2, PopStep
  <2>4. CASE current # "SEMICOLON"
    <3>1. /\ Stay /\ stack' = Append(Popped, Plain("sync"))
          /\ errors' = TRUE /\ crashed' = crashed /\ odd' = odd
      BY <1>5, <2>4 DEF EndStmt, SyncAfter, Push, Report
    <3>2. /\ StackOK(Popped)
          /\ Popped # <<>> => PairOK(Popped[Len(Popped)], Plain("sync"))
      BY <1>1, <1>2, PoppedIs
    <3>3. "sync" \in SkipAts
      BY DEF SkipAts
    <3> QED
      BY <1>3, <2>2, <3>1, <3>2, <3>3, RecoveryStep
  <2> QED
    BY <2>3, <2>4
<1> QED
  BY <1>4, <1>5

-----------------------------------------------------------------------------
\* The bracket that is expected is opened, or closed, by the frame.
LEMMA ExpectsIs ==
  ASSUME NEW at \in DOMAIN Expects
  PROVE  LET e == Expects[at] IN
         /\ at \in StmtAts /\ e.then \in StmtAts
         /\ e.then \notin {"int_name", "assn_eq", "fn_close"}
         /\ \/ /\ e.kind \in {"PAREN_START", "CUR_BRACK_START"}
               /\ OwnAt(at) = <<>> /\ OwnAt(e.then) = <<e.kind>>
            \/ e.kind = "PAREN_END" /\ OwnAt(at) = <<"PAREN_START">> /\ OwnAt(e.then) = <<>>
         /\ at = "fn_brace" => e.then = "fn_body"
         /\ at \notin {"fn_ret", "fn_type", "fn_body", "block"}
<1> DEFINE e == Expects[at]
<1>1. \/ at = "if_paren"    /\ e.kind = "PAREN_START"     /\ e.then = "if_cond"
      \/ at = "if_close"    /\ e.kind = "PAREN_END"       /\ e.then = "if_brace"
      \/ at = "if_brace"    /\ e.kind = "CUR_BRACK_START" /\ e.then = "if_then"
      \/ at = "else_brace"  /\ e.kind = "CUR_BRACK_START" /\ e.then = "else_body"
      \/ at = "while_paren" /\ e.kind = "PAREN_START"     /\ e.then = "while_cond"
      \/ at = "while_close" /\ e.kind = "PAREN_END"       /\ e.then = "while_brace"
      \/ at = "while_brace" /\ e.kind = "CUR_BRACK_START" /\ e.then = "while_body"
      \/ at = "fn_paren"    /\ e.kind = "PAREN_START"     /\ e.then = "fn_open"
      \/ at = "fn_brace"    /\ e.kind = "CUR_BRACK_START" /\ e.then = "fn_body"
  BY DEF Expects
<1> HIDE DEF e
<1>2. at \in StmtAts /\ e.then \in StmtAts
  BY <1>1 DEF StmtAts, OtherAts, BraceAts, ParenAts
<1>3. \/ /\ e.kind \in {"PAREN_START", "CUR_BRACK_START"}
         /\ OwnAt(at) = <<>> /\ OwnAt(e.then) = <<e.kind>>
      \/ e.kind = "PAREN_END" /\ OwnAt(at) = <<"PAREN_START">> /\ OwnAt(e.then) = <<>>
  BY <1>1 DEF OwnAt, BraceAts, ParenAts
<1>4. /\ e.then \notin {"int_name", "assn_eq", "fn_close"}
      /\ at = "fn_brace" => e.then = "fn_body"
      /\ at \notin {"fn_ret", "fn_type", "fn_body", "block"}
  BY <1>1
<1> QED
  BY <1>2, <1>3, <1>4 DEF e

LEMMA ExpectTokenInv == IInv /\ ExpectToken => IInv'
<1> SUFFICES ASSUME IInv, ExpectToken PROVE IInv'
  OBVIOUS
<1> DEFINE e == Expects[Top.at]
           to == e.then
<1>1. Running /\ Top.at \in DOMAIN Expects
  BY DEF ExpectToken, At
<1>2. /\ Top.at \in StmtAts /\ to \in StmtAts
      /\ to \notin {"int_name", "assn_eq", "fn_close"}
      /\ \/ /\ e.kind \in {"PAREN_START", "CUR_BRACK_START"}
            /\ Own(Top) = <<>> /\ OwnAt(to) = <<e.kind>>
         \/ e.kind = "PAREN_END" /\ Own(Top) = <<"PAREN_START">> /\ OwnAt(to) = <<>>
      /\ Top.at = "fn_brace" => to = "fn_body"
      /\ Top.at \notin {"fn_ret", "fn_type", "fn_body", "block"}
  BY <1>1, ExpectsIs DEF Own
<1>3. CASE current = e.kind
  <2>1. /\ Move /\ stack' = Goto(to) /\ node' = node
        /\ errors' = errors /\ crashed' = crashed /\ odd' = odd
    BY <1>3 DEF ExpectToken, Quiet
  <2> HIDE DEF e, to
  <2>2. to \in Ats /\ Leads(Top.at, to)
        /\ to \notin {"lhs", "unary", "loop", "rhs", "int_name", "assn_eq"} \cup SkipAts
    BY <1>2, StmtAtsIs, StmtLeads
  <2>3. BracketStep(Own(Top), OwnAt(to))
    BY <1>2, <1>3, <2>1, ClosesIs DEF BracketStep
  <2>4. Doomed(Top.at, current, next) => Doomed(to, current', next')
    BY <1>2, <2>1, SeenComes DEF Doomed
  <2>5. odd \in BOOLEAN
    BY <1>1, TopIs
  <2> QED
    BY <1>1, <1>2, <2>1, <2>2, <2>3, <2>4, <2>5, GotoStep
<1>4. CASE current # e.kind
  <2>1. /\ Stay /\ errors' = TRUE /\ crashed' = crashed /\ odd' = odd
        /\ \/ stack' = Append(Popped, Plain("sync")) /\ node' = Null
           \/ stack' = Append(Goto(to), Plain("sync")) /\ node' = node
    BY <1>4 DEF ExpectToken, SyncAfter, Push, Report
  <2>2. "sync" \in SkipAts /\ crashed \in BOOLEAN /\ odd \in BOOLEAN
    BY <1>1, TopIs DEF SkipAts
  <2> HIDE DEF e, to
  <2>3. CASE stack' = Append(Popped, Plain("sync")) /\ node' = Null
    <3>1. /\ StackOK(Popped)
          /\ Popped # <<>> => PairOK(Popped[Len(Popped)], Plain("sync"))
      BY <1>1, <1>2, PoppedIs
    <3>2. Null \in NodeRecs /\ Grouped(Null)
      BY NodeIs DEF Null, Kinds
    <3> QED
      BY <2>1, <2>2, <2>3, <3>1, <3>2, RecoveryStep
  <2>4. CASE stack' = Append(Goto(to), Plain("sync")) /\ node' = node
    <3>1. to \in Ats /\ Leads(Top.at, to)
          /\ to \notin {"lhs", "unary", "loop", "rhs", "prefix", "int_name", "assn_eq", "fn_close"}
                       \cup SkipAts
      BY <1>2, StmtAtsIs, StmtLeads
    <3> DEFINE t == Goto(to)
    <3>2. StackOK(t) /\ t[Len(t)].at = to
      BY <1>1, <3>1, GotoStack, GotoIs
    <3>3. PairOK(t[Len(t)], Plain("sync"))
      BY <3>1, <3>2 DEF PairOK
    <3>4. node \in NodeRecs /\ Grouped(node)
      BY <1>1, TopIs
    <3> HIDE DEF t
    <3>5. stack' = Append(t, Plain("sync"))
      BY <2>4 DEF t
    <3> QED
      BY <2>1, <2>2, <2>4, <3>2, <3>3, <3>4, <3>5, RecoveryStep
  <2> QED
    BY <2>1, <2>3, <2>4
<1> QED
  BY <1>3, <1>4

\* The brace a body is in passes to the block that reads it.
LEMMA BodyBrackets ==
  ASSUME IInv, Running, NEW at \in StmtAts, Top.at \in StmtAts,
         Own(Top) = <<"CUR_BRACK_START">>, OwnAt(at) = <<>>, Owned(stack, nest)
  PROVE  Owned(Append(Goto(at), Plain("block")), nest)
<1> DEFINE f == [Top EXCEPT !.at = at]
           g == Plain("block")
           v == Goto(at)
           x == "CUR_BRACK_START"
<1>1. /\ stack # <<>> /\ stack \in Seq(Frames) /\ Top = stack[Len(stack)]
      /\ nest \in Seq(Texts)
  BY TopIs
<1>2. v = [stack EXCEPT ![Len(stack)] = f] /\ f \in Frames /\ f.at = at /\ StackOK(v)
  BY GotoIs, GotoStack, StmtAtsIs, StmtLeads
<1>3. Own(f) = <<>>
  BY <1>2 DEF Own
<1>4. x \in Texts
  BY DEF Texts, TokenKinds
<1>5. nest # <<>> /\ nest[Len(nest)] = x /\ Owned(v, Butlast(nest))
  <2> HIDE DEF f, v, x
  <2>1. Own(stack[Len(stack)]) = <<x>>
    BY <1>1 DEF x
  <2>2. \A y \in Texts : Own(stack[Len(stack)]) = <<y>> /\ Own(f) = <<>> =>
          /\ nest # <<>> /\ nest[Len(nest)] = y
          /\ Owned([stack EXCEPT ![Len(stack)] = f], Butlast(nest))
    BY <1>1, <1>2, OwnedReplace
  <2> QED
    BY <1>2, <1>3, <1>4, <2>1, <2>2
<1>6. g \in Frames /\ Own(g) = <<x>>
  <2>1. g \in Frames /\ g.at = "block"
    BY PlainIs DEF Ats, BraceAts
  <2> QED
    BY <2>1 DEF Own, OwnAt, BraceAts, ParenAts
<1>7. Butlast(nest) \in Seq(Texts) /\ Append(Butlast(nest), x) = nest
  <2>1. [nest EXCEPT ![Len(nest)] = x] = Append(Butlast(nest), x)
    BY <1>1, <1>4, <1>5, ReplaceIs
  <2>2. [nest EXCEPT ![Len(nest)] = x] = nest
    BY <1>1, <1>5
  <2>3. Butlast(nest) \in Seq(Texts)
    BY <1>1, <1>5, ButlastIs
  <2> QED
    BY <2>1, <2>2, <2>3
<1>8. v \in Seq(Frames)
  BY <1>2 DEF StackOK
<1> HIDE DEF f, g, v, x
<1>9. Owned(Append(v, g), Append(Butlast(nest), x))
  BY <1>4, <1>5, <1>6, <1>7, <1>8, OwnedPush
<1> QED
  BY <1>7, <1>9 DEF g, v

LEMMA BeginPartInv == IInv /\ BeginPart => IInv'
<1> SUFFICES ASSUME IInv, BeginPart PROVE IInv'
  OBVIOUS
<1>1. /\ Running /\ Stay /\ node' = node
      /\ errors' = errors /\ crashed' = crashed /\ odd' = odd
  BY DEF BeginPart, At, Quiet
<1>2. CASE Top.at \in DOMAIN Conditions /\ stack' = CallExpr(Goto(Conditions[Top.at]), 0)
  <2> DEFINE at == Conditions[Top.at]
  <2>1. \/ Top.at = "if_cond" /\ at = "if_close"
        \/ Top.at = "while_cond" /\ at = "while_close"
    BY <1>2 DEF Conditions
  <2> HIDE DEF at
  <2>2. Top.at \in StmtAts /\ at \in StmtAts /\ Own(Top) = OwnAt(at)
    BY <2>1 DEF StmtAts, OtherAts, BraceAts, ParenAts, Own, OwnAt
  <2>3. BracketStep(Own(Top), OwnAt(at)) /\ ~Doomed(Top.at, current, next)
    BY <1>1, <2>1, <2>2, NotBracket DEF Doomed
  <2>4. at \in Ats /\ Leads(Top.at, at)
        /\ at \notin {"lhs", "unary", "loop", "rhs", "prefix", "int_name", "assn_eq", "fn_close"}
                     \cup SkipAts
    BY <2>1, <2>2, StmtAtsIs, StmtLeads
  <2>5. stack' = CallExpr(Goto(at), 0)
    BY <1>2 DEF at
  <2> QED
    BY <1>1, <2>3, <2>4, <2>5, GotoCallStep
<1>3. CASE Top.at \in DOMAIN Bodies /\ stack' = Push(Goto(Bodies[Top.at]), Plain("block"))
  <2> DEFINE at == Bodies[Top.at]
             f == Plain("block")
             t == Goto(at)
  <2>1. /\ Top.at \in {"if_then", "else_body", "while_body", "fn_body"}
        /\ at \in {"if_else", "if_end", "while_end", "fn_end"}
    BY <1>3 DEF Bodies
  <2>2. stack' = Append(t, f)
    BY <1>3 DEF Push
  <2> HIDE DEF at
  <2>3. /\ Top.at \in StmtAts /\ at \in StmtAts
        /\ Own(Top) = <<"CUR_BRACK_START">> /\ OwnAt(at) = <<>>
    BY <2>1 DEF StmtAts, OtherAts, BraceAts, ParenAts, Own, OwnAt
  <2>4. at \in Ats /\ Leads(Top.at, at)
        /\ at \notin {"lhs", "unary", "loop", "rhs", "prefix", "int_name", "assn_eq", "fn_close"}
                     \cup SkipAts
    BY <2>1, <2>3, StmtAtsIs, StmtLeads
  <2>5. StackOK(t) /\ t[Len(t)].at = at /\ (WholeStack(stack) => WholeStack(t))
    BY <1>1, <2>4, GotoStack, GotoIs
  <2>6. PairOK(t[Len(t)], f)
    BY <2>4, <2>5 DEF PairOK
  <2>7. f \in Frames /\ f.at = "block" /\ Whole(f.lhs) /\ FrameOK(f)
    BY PlainIs DEF Ats, BraceAts, GrownAts
  <2>8. /\ node \in NodeRecs /\ Grouped(node) /\ ~crashed
        /\ errors \in BOOLEAN /\ crashed \in BOOLEAN /\ odd \in BOOLEAN
        /\ ~errors => /\ Whole(node) /\ WholeStack(stack)
                      /\ ~odd => Owned(stack, nest) \/ Doomed(Top.at, current, next)
    BY <1>1, TopIs
  <2>9. ~errors /\ ~odd => Owned(Append(t, f), nest') \/ Doomed("block", current', next')
    <3>1. CASE Owned(stack, nest)
      <4>1. Owned(Append(t, f), nest)
        BY <1>1, <2>3, <3>1, BodyBrackets
      <4> QED
        BY <1>1, <4>1 DEF Stay, text
    <3>2. CASE Doomed(Top.at, current, next)
      BY <1>1, <2>1, <3>2 DEF Doomed, Stay, text
    <3> QED
      BY <2>8, <3>1, <3>2
  <2> HIDE DEF f, t
  <2>10. TopOK(f, node', current') /\ TextOK(f, current')
    BY <2>7 DEF TopOK, TextOK, SkipAts
  <2> QED
    BY <1>1, <2>2, <2>5, <2>6, <2>7, <2>8, <2>9, <2>10, PushStep
<1> QED
  BY <1>2, <1>3 DEF BeginPart, At

LEMMA ElseInv == IInv /\ Else => IInv'
<1> SUFFICES ASSUME IInv, Else PROVE IInv'
  OBVIOUS
<1> DEFINE at == IF current = "ELSE" THEN "else_brace" ELSE "if_end"
<1>1. /\ Running /\ Top.at = "if_else" /\ stack' = Goto(at) /\ node' = node
      /\ (current = "ELSE" /\ Move) \/ Stay
      /\ errors' = errors /\ crashed' = crashed /\ odd' = odd
  BY DEF Else, At, Quiet
<1>2. at \in {"else_brace", "if_end"}
  OBVIOUS
<1> HIDE DEF at
<1>3. Top.at \in StmtAts /\ at \in StmtAts /\ Own(Top) = OwnAt(at)
  BY <1>1, <1>2 DEF StmtAts, OtherAts, BraceAts, ParenAts, Own, OwnAt
<1>4. BracketStep(Own(Top), OwnAt(at)) /\ ~Doomed(Top.at, current, next)
  BY <1>1, <1>3, NotBracket DEF Doomed
<1>5. at \in Ats /\ Leads(Top.at, at)
      /\ at \notin {"lhs", "unary", "loop", "rhs", "int_name", "assn_eq", "fn_close"} \cup SkipAts
  BY <1>2, <1>3, StmtAtsIs, StmtLeads
<1>6. odd \in BOOLEAN
  BY <1>1, TopIs
<1> QED
  BY <1>1, <1>4, <1>5, <1>6, GotoStep

LEMMA EndCompoundInv == IInv /\ EndCompound => IInv'
<1> SUFFICES ASSUME IInv, EndCompound PROVE IInv'
  OBVIOUS
<1>1. /\ Running /\ Top.at \in {"if_end", "while_end", "fn_end"} /\ Stay /\ stack' = Popped
      /\ node' \in {Node("AST_IF"), Node("AST_WHILE"), Node("AST_FN_DEC")}
      /\ errors' = errors /\ crashed' = crashed /\ odd' = odd
  BY DEF EndCompound, At, Compounds, Return, Quiet
<1>2. Top.at \in StmtAts /\ Own(Top) = <<>> /\ ~Doomed(Top.at, current, next)
  BY <1>1 DEF StmtAts, OtherAts, Own, OwnAt, ParenAts, BraceAts, Doomed
<1>3. Top.at \notin PrefixAts /\ Top.at \notin ExprAts /\ errors \in BOOLEAN
  BY <1>1, <1>2, StmtAtsIs, TopIs
<1>4. node' \in NodeRecs /\ Grouped(node') /\ Whole(node')
  BY <1>1, NodeIs DEF Kinds, Whole
<1>5. BracketStep(Own(Top), <<>>)
  BY <1>1, <1>2, NotBracket
<1> QED
  BY <1>1, <1>2, <1>3, <1>4, <1>5, PopStep

-----------------------------------------------------------------------------
\* The places of the head of a function.
HeadAts == {"fn_name", "fn_paren", "fn_open", "fn_params", "fn_param_name", "fn_param_end",
            "fn_close", "fn_ret", "fn_type", "fn_brace"}

LEMMA HeadIs ==
  ASSUME NEW at \in HeadAts
  PROVE  /\ at \in StmtAts /\ at \notin {"int_name", "assn_eq"}
         /\ OwnAt(at) = IF at \in {"fn_open", "fn_params", "fn_param_name", "fn_param_end",
                                   "fn_close"}
                          THEN <<"PAREN_START">> ELSE <<>>
BY DEF HeadAts, StmtAts, OtherAts, BraceAts, ParenAts, OwnAt

LEMMA HeadStep ==
  ASSUME IInv, Running, NEW at \in HeadAts, Top.at \in HeadAts, Move \/ Stay,
         stack' = Goto(at),
         node' = node, errors' = errors, crashed' = crashed, odd' \in BOOLEAN,
         ~errors => /\ at = "fn_close" => current' = "PAREN_END"
                    /\ ~odd' => /\ ~odd
                                /\ \/ /\ ~Doomed(Top.at, current, next)
                                      /\ BracketStep(OwnAt(Top.at), OwnAt(at))
                                   \/ Doomed(at, current', next')
  PROVE  IInv'
<1>1. at \in StmtAts /\ Top.at \in StmtAts /\ at \notin {"int_name", "assn_eq"}
  BY HeadIs
<1>2. at \in Ats /\ Leads(Top.at, at)
      /\ at \notin {"lhs", "unary", "loop", "rhs", "int_name", "assn_eq"} \cup SkipAts
  BY <1>1, StmtAtsIs, StmtLeads
<1>3. Own(Top) = OwnAt(Top.at)
  BY DEF Own
<1> QED
  BY <1>2, <1>3, GotoStep

\* A token that is taken for a name or a type, and is one.
LEMMA TakenIs ==
  ASSUME IInv, Running, NEW kinds, kinds \subseteq {"IDENTIFIER", "INT", "VOID"}, Taken(kinds),
         advance, NEW own
  PROVE  /\ odd' \in BOOLEAN
         /\ ~errors /\ ~odd' => ~odd /\ current \in kinds /\ BracketStep(own, own)
<1>1. errors \in BOOLEAN /\ odd \in BOOLEAN
  BY TopIs
<1>2. odd' \in BOOLEAN /\ (~errors /\ ~odd' => ~odd /\ current \in kinds)
  BY <1>1 DEF Taken
<1>3. current \in kinds => BracketStep(own, own)
  BY NotBracket DEF advance
<1> QED
  BY <1>2, <1>3

LEMMA FnPartInv == IInv /\ FnPart => IInv'
<1> SUFFICES ASSUME IInv, FnPart PROVE IInv'
  OBVIOUS
<1>1. /\ Running /\ Top.at \in HeadAts
      /\ node' = node /\ errors' = errors /\ crashed' = crashed
      /\ odd \in BOOLEAN
  BY TopIs DEF FnPart, At, HeadAts
<1>2. Stay => current' = current /\ next' = next
  BY DEF Stay, text
<1>3. CASE Top.at = "fn_name"
  <2>1. stack' = Goto("fn_paren") /\ advance /\ Taken({"IDENTIFIER"})
    BY <1>3 DEF FnPart, At
  <2>2. "fn_paren" \in HeadAts /\ OwnAt(Top.at) = <<>> /\ OwnAt("fn_paren") = <<>>
    BY <1>1, <1>3, HeadIs DEF HeadAts
  <2>3. /\ odd' \in BOOLEAN
        /\ ~errors /\ ~odd' => ~odd /\ BracketStep(OwnAt(Top.at), OwnAt("fn_paren"))
    BY <1>1, <2>1, <2>2, TakenIs
  <2> QED
    BY <1>1, <1>3, <2>1, <2>2, <2>3, HeadStep DEF Doomed, advance
<1>4. CASE Top.at = "fn_open" /\ next = "PAREN_END"
  <2>1. stack' = Goto("fn_ret") /\ Stay /\ odd' = odd
    BY <1>4 DEF FnPart, At
  <2>2. "fn_ret" \in HeadAts /\ Doomed("fn_ret", current', next')
    BY <1>2, <1>4, <2>1 DEF HeadAts, Doomed
  <2> QED
    BY <1>1, <2>1, <2>2, HeadStep
<1>5. CASE Top.at = "fn_open" /\ next # "PAREN_END"
  <2>1. stack' = Goto("fn_params") /\ Stay /\ odd' = odd
    BY <1>5 DEF FnPart, At
  <2>2. "fn_params" \in HeadAts /\ OwnAt(Top.at) = OwnAt("fn_params")
    BY <1>1, <1>5, HeadIs DEF HeadAts
  <2>3. BracketStep(OwnAt(Top.at), OwnAt("fn_params"))
    BY <2>1, <2>2, NotBracket
  <2> QED
    BY <1>1, <1>5, <2>1, <2>2, <2>3, HeadStep DEF Doomed
<1>6. CASE Top.at = "fn_params" /\ current # "PAREN_END"
  <2>1. stack' = Goto("fn_param_name") /\ advance /\ Taken(Types)
    BY <1>6 DEF FnPart, At
  <2>2. "fn_param_name" \in HeadAts /\ OwnAt(Top.at) = OwnAt("fn_param_name")
    BY <1>1, <1>6, HeadIs DEF HeadAts
  <2>3. /\ odd' \in BOOLEAN
        /\ ~errors /\ ~odd' => ~odd /\ BracketStep(OwnAt(Top.at), OwnAt("fn_param_name"))
    BY <1>1, <2>1, <2>2, TakenIs DEF Types
  <2> QED
    BY <1>1, <1>6, <2>1, <2>2, <2>3, HeadStep DEF Doomed, advance
<1>7. CASE Top.at = "fn_param_name"
  <2>1. stack' = Goto("fn_param_end") /\ advance /\ Taken({"IDENTIFIER"})
    BY <1>7 DEF FnPart, At
  <2>2. "fn_param_end" \in HeadAts /\ OwnAt(Top.at) = OwnAt("fn_param_end")
    BY <1>1, <1>7, HeadIs DEF HeadAts
  <2>3. /\ odd' \in BOOLEAN
        /\ ~errors /\ ~odd' => ~odd /\ BracketStep(OwnAt(Top.at), OwnAt("fn_param_end"))
    BY <1>1, <2>1, <2>2, TakenIs
  <2> QED
    BY <1>1, <1>7, <2>1, <2>2, <2>3, HeadStep DEF Doomed, advance
<1>8. CASE Top.at = "fn_param_end" /\ current = "COMMA"
  <2>1. stack' = Goto("fn_params") /\ Move /\ odd' = odd
    BY <1>8 DEF FnPart, At
  <2>2. "fn_params" \in HeadAts /\ OwnAt(Top.at) = OwnAt("fn_params")
    BY <1>1, <1>8, HeadIs DEF HeadAts
  <2>3. BracketStep(OwnAt(Top.at), OwnAt("fn_params"))
    BY <1>8, <2>1, <2>2, NotBracket
  <2> QED
    BY <1>1, <1>8, <2>1, <2>2, <2>3, HeadStep DEF Doomed
<1>9. CASE Top.at = "fn_param_end" /\ current # "COMMA"
  <2>1. current = "PAREN_END" /\ stack' = Goto("fn_close") /\ Stay /\ odd' = odd
    BY <1>9 DEF FnPart, At
  <2>2. "fn_close" \in HeadAts /\ OwnAt(Top.at) = OwnAt("fn_close")
    BY <1>1, <1>9, HeadIs DEF HeadAts
  <2>3. BracketStep(OwnAt(Top.at), OwnAt("fn_close"))
    BY <2>1, <2>2, NotBracket
  <2> QED
    BY <1>1, <1>2, <1>9, <2>1, <2>2, <2>3, HeadStep DEF Doomed
<1>10. CASE Top.at = "fn_close" \/ (Top.at = "fn_params" /\ current = "PAREN_END")
  <2>1. stack' = Goto("fn_ret") /\ advance /\ odd' = odd
    BY <1>10 DEF FnPart, At
  <2>2. "fn_ret" \in HeadAts /\ OwnAt(Top.at) = <<"PAREN_START">> /\ OwnAt("fn_ret") = <<>>
    BY <1>1, <1>10, HeadIs DEF HeadAts
  <2>3. ~errors => current = "PAREN_END"
    BY <1>1, <1>10, TopIs DEF TextOK
  <2>4. ~errors => BracketStep(OwnAt(Top.at), OwnAt("fn_ret"))
    BY <2>1, <2>2, <2>3, ClosesIs DEF BracketStep, advance
  <2> QED
    BY <1>1, <1>10, <2>1, <2>2, <2>4, HeadStep DEF Doomed, advance
<1>11. CASE Top.at = "fn_ret" /\ current = "COLON"
  <2>1. stack' = Goto("fn_type") /\ Move /\ odd' = odd
    BY <1>11 DEF FnPart, At
  <2>2. "fn_type" \in HeadAts /\ OwnAt(Top.at) = OwnAt("fn_type")
    BY <1>1, <1>11, HeadIs DEF HeadAts
  <2>3. BracketStep(OwnAt(Top.at), OwnAt("fn_type"))
    BY <1>11, <2>1, <2>2, NotBracket
  <2>4. Doomed(Top.at, current, next) => Doomed("fn_type", current', next')
    BY <1>11, <2>1, SeenComes DEF Doomed
  <2> QED
    BY <1>1, <2>1, <2>2, <2>3, <2>4, HeadStep
<1>12. CASE Top.at = "fn_ret" /\ current # "COLON"
  <2>1. stack' = Goto("fn_brace") /\ Stay /\ odd' = odd
    BY <1>12 DEF FnPart, At
  <2>2. "fn_brace" \in HeadAts /\ OwnAt(Top.at) = OwnAt("fn_brace")
    BY <1>1, <1>12, HeadIs DEF HeadAts
  <2>3. BracketStep(OwnAt(Top.at), OwnAt("fn_brace"))
    BY <2>1, <2>2, NotBracket
  <2>4. Doomed(Top.at, current, next) => Doomed("fn_brace", current', next')
    BY <1>2, <1>12, <2>1 DEF Doomed
  <2> QED
    BY <1>1, <2>1, <2>2, <2>3, <2>4, HeadStep
<1>13. CASE Top.at = "fn_type"
  <2>1. stack' = Goto("fn_brace") /\ advance /\ Taken(Types)
    BY <1>13 DEF FnPart, At
  <2>2. "fn_brace" \in HeadAts /\ OwnAt(Top.at) = OwnAt("fn_brace")
    BY <1>1, <1>13, HeadIs DEF HeadAts
  <2>3. /\ odd' \in BOOLEAN
        /\ ~errors /\ ~odd' => /\ ~odd /\ current \in Types
                               /\ BracketStep(OwnAt(Top.at), OwnAt("fn_brace"))
    BY <1>1, <2>1, <2>2, TakenIs DEF Types
  <2>4. current \in Types => ~Doomed(Top.at, current, next)
    BY <1>13 DEF Doomed, Types
  <2> QED
    BY <1>1, <2>1, <2>2, <2>3, <2>4, HeadStep DEF advance
<1> QED
  BY <1>3, <1>4, <1>5, <1>6, <1>7, <1>8, <1>9, <1>10, <1>11, <1>12, <1>13 DEF FnPart, At

LEMMA BadParamInv == IInv /\ BadParam => IInv'
<1> SUFFICES ASSUME IInv, BadParam PROVE IInv'
  OBVIOUS
<1> DEFINE t == Goto("fn_close")
<1>1. /\ Running /\ Top.at = "fn_param_end" /\ Stay /\ node' = node
      /\ stack' = Append(t, Plain("sync"))
      /\ errors' = TRUE /\ crashed' = crashed /\ odd' = odd
  BY DEF BadParam, At, SyncAfter, Push, Report
<1>2. "fn_param_end" \in StmtAts /\ "fn_close" \in StmtAts
  BY DEF StmtAts, ParenAts
<1>3. "fn_close" \in Ats /\ Leads(Top.at, "fn_close")
  BY <1>1, <1>2, StmtAtsIs, StmtLeads
<1>4. StackOK(t) /\ t[Len(t)].at = "fn_close"
  BY <1>1, <1>3, GotoStack, GotoIs
<1>5. PairOK(t[Len(t)], Plain("sync")) /\ "sync" \in SkipAts
  BY <1>4 DEF PairOK, Plain, Frame, SkipAts
<1>6. node \in NodeRecs /\ Grouped(node) /\ crashed \in BOOLEAN /\ odd \in BOOLEAN
  BY <1>1, TopIs
<1> HIDE DEF t
<1> QED
  BY <1>1, <1>4, <1>5, <1>6, RecoveryStep

-----------------------------------------------------------------------------
\* The places of an expression.
LEMMA ExprAtsIs ==
  /\ \A at \in {"prefix", "unary", "paren", "lhs", "loop", "args", "arg_end", "rhs"} : at \in Ats
  /\ PrefixAts = {"prefix", "unary", "paren"}
  /\ GrownAts = {"loop", "args", "arg_end", "rhs"}
  /\ ExprAts = {"loop", "args", "arg_end", "rhs", "lhs"}
  /\ SkipAts = {"sync", "skip"}
  /\ \A at \in {"paren", "args", "arg_end"} : OwnAt(at) = <<"PAREN_START">>
  /\ \A at \in {"prefix", "unary", "lhs", "loop", "rhs"} : OwnAt(at) = <<>>
BY DEF Ats, PrefixAts, GrownAts, ExprAts, SkipAts, OwnAt, ParenAts, BraceAts

LEMMA BindsIs ==
  ASSUME NEW t
  PROVE  Binds(t) \in 0..Tight /\ Binds(t) <= Tight
BY DEF Binds, precedence, Tight

LEMMA NodeParts ==
  ASSUME NEW n \in NodeRecs
  PROVE  n.prec \in 0..Tight /\ n.prec \in Nat /\ n.kind \in Kinds
BY DEF NodeRecs, Tight

LEMMA FrameParts ==
  ASSUME NEW f \in Frames
  PROVE  /\ f.min \in 0..Tight /\ f.min <= Tight /\ f.op \in 0..Tight
         /\ f.min \in Nat /\ f.op \in Nat /\ f.lhs \in NodeRecs
BY DEF Frames, Tight

LEMMA PrefixInv == IInv /\ Prefix => IInv'
<1> SUFFICES ASSUME IInv, Prefix PROVE IInv'
  OBVIOUS
<1>1. Running /\ Top.at = "prefix" /\ crashed' = crashed /\ odd' = odd
  BY DEF Prefix, At
<1>2. /\ Own(Top) = <<>> /\ ~Doomed(Top.at, current, next)
      /\ Top.at \in PrefixAts /\ Top.at \notin ExprAts
  BY <1>1, ExprAtsIs DEF Own, Doomed
<1>3. /\ errors \in BOOLEAN /\ crashed \in BOOLEAN /\ odd \in BOOLEAN /\ ~crashed
      /\ node \in NodeRecs /\ Grouped(node) /\ stack \in Seq(Frames)
      /\ ~errors => /\ Whole(node) /\ WholeStack(stack)
                    /\ ~odd => Owned(stack, nest)
  BY <1>1, <1>2, TopIs
<1>4. CASE current \in {"MINUS", "NOT"}
  <2> DEFINE t == Goto("unary")
             f == Plain("prefix")
  <2>1. Move /\ stack' = Append(t, f) /\ node' = node /\ errors' = errors
    BY <1>4 DEF Prefix, Push, Leaves
  <2>2. "unary" \in Ats /\ Leads(Top.at, "unary")
    BY <1>1, ExprAtsIs DEF Leads
  <2>3. BracketStep(<<>>, <<>>)
    BY <1>4, <2>1, NotBracket
  <2>4. OwnAt("unary") = <<>>
    BY ExprAtsIs
  <2>5. /\ StackOK(t) /\ t[Len(t)].at = "unary" /\ (WholeStack(stack) => WholeStack(t))
        /\ ~errors /\ Owned(stack, nest) => Owned(t, nest')
    BY <1>1, <1>2, <2>2, <2>3, <2>4, GotoStack, GotoIs
  <2> HIDE DEF t
  <2>6. f \in Frames /\ f.at = "prefix" /\ FrameOK(f) /\ Whole(f.lhs) /\ Own(f) = <<>>
    BY PlainIs, ExprAtsIs DEF Own
  <2> HIDE DEF f
  <2>7. PairOK(t[Len(t)], f) /\ TopOK(f, node, current') /\ TextOK(f, current')
    BY <2>5, <2>6, ExprAtsIs DEF PairOK, TopOK, TextOK
  <2>8. ~errors /\ ~odd => Owned(Append(t, f), nest')
    <3>1. t \in Seq(Frames) /\ nest' \in Seq(Texts)
      BY <2>1, <2>5, TextStep DEF StackOK
    <3> QED
      BY <1>3, <2>5, <2>6, <3>1, OwnedPush
  <2> QED
    BY <1>1, <1>3, <2>1, <2>5, <2>6, <2>7, <2>8, PushStep
<1>5. CASE current \in DOMAIN Leaves
  <2>1. /\ Move /\ stack' = Popped /\ errors' = errors
        /\ node' \in {Node("AST_INT_LIT"), Node("AST_NAME")}
    BY <1>5 DEF Prefix, Return, Leaves
  <2>2. node' \in NodeRecs /\ Grouped(node') /\ Whole(node') /\ node'.prec = Tight
    BY <2>1, NodeIs DEF Kinds, Whole
  <2>3. BracketStep(Own(Top), <<>>)
    BY <1>2, <1>5, <2>1, NotBracket DEF Leaves
  <2> QED
    BY <1>1, <1>2, <1>3, <2>1, <2>2, <2>3, PopStep
<1>6. CASE current = "PAREN_START"
  <2>1. Move /\ stack' = CallExpr(Goto("paren"), 0) /\ node' = node /\ errors' = errors
    BY <1>6 DEF Prefix, Leaves
  <2>2. OwnAt("paren") = <<current>>
    BY <1>6, ExprAtsIs
  <2>3. BracketStep(Own(Top), OwnAt("paren"))
    BY <1>2, <1>6, <2>1, <2>2 DEF BracketStep
  <2>4. "paren" \in Ats /\ Leads(Top.at, "paren")
        /\ "paren" \notin {"lhs", "unary", "loop", "rhs", "prefix", "int_name", "assn_eq", "fn_close"}
                     \cup SkipAts
    BY <1>1, ExprAtsIs DEF Leads
  <2> QED
    BY <1>1, <1>2, <2>1, <2>3, <2>4, GotoCallStep
<1>7. CASE current \notin {"MINUS", "NOT", "PAREN_START"} \cup DOMAIN Leaves
  <2>1. Stay /\ stack' = Popped /\ errors' = TRUE /\ node' = Error
    BY <1>7 DEF Prefix, Return, Report
  <2>2. node' \in NodeRecs /\ Grouped(node') /\ node'.prec = Tight
    BY <2>1, NodeIs DEF Kinds, Error
  <2> QED
    BY <1>1, <1>2, <1>3, <2>1, <2>2, PopStep
<1> QED
  BY <1>4, <1>5, <1>6, <1>7

\* While nothing is reported there is no NULL to look into.
LEMMA NullIs ==
  ASSUME IInv, Running, node \in {Null, Error}
  PROVE  errors
<1>1. ~Whole(node)
  BY DEF Null, Error, Node, Whole
<1> QED
  BY <1>1, TopIs

LEMMA UnaryInv == IInv /\ Unary => IInv'
<1> SUFFICES ASSUME IInv, Unary PROVE IInv'
  OBVIOUS
<1>1. Running /\ Top.at = "unary"
  BY DEF Unary, At
<1>2. CASE node = Null
  BY <1>1, <1>2, NullIs, CrashStep DEF Unary
<1>3. CASE node # Null
  <2>1. /\ Stay /\ stack' = Popped /\ node' = Node("AST_UNARY_OP")
        /\ errors' = errors /\ crashed' = crashed /\ odd' = odd
    BY <1>3 DEF Unary, Return, Quiet
  <2>2. /\ Own(Top) = <<>> /\ ~Doomed(Top.at, current, next)
        /\ Top.at \notin ExprAts /\ errors \in BOOLEAN
    BY <1>1, ExprAtsIs, TopIs DEF Own, Doomed
  <2>3. node' \in NodeRecs /\ Grouped(node') /\ Whole(node') /\ node'.prec = Tight
    BY <2>1, NodeIs DEF Kinds, Whole
  <2>4. BracketStep(Own(Top), <<>>)
    BY <2>1, <2>2, NotBracket
  <2> QED
    BY <1>1, <2>1, <2>2, <2>3, <2>4, PopStep
<1> QED
  BY <1>2, <1>3

LEMMA ParenInv == IInv /\ Paren => IInv'
<1> SUFFICES ASSUME IInv, Paren PROVE IInv'
  OBVIOUS
<1>1. /\ Running /\ Top.at = "paren" /\ stack' = Popped /\ node' = Operand(node)
      /\ crashed' = crashed /\ odd' = odd
  BY DEF Paren, At, Return, Quiet
<1>2. /\ Own(Top) = <<"PAREN_START">> /\ ~Doomed(Top.at, current, next)
      /\ Top.at \notin ExprAts /\ errors \in BOOLEAN /\ node \in NodeRecs
      /\ ~errors => Whole(node)
  BY <1>1, ExprAtsIs, TopIs DEF Own, Doomed
<1>3. /\ node' \in NodeRecs /\ Grouped(node') /\ node'.prec = Tight
      /\ Whole(node) => Whole(node')
  BY <1>1, <1>2 DEF Operand, Node, NodeRecs, Grouped, Whole, Tight
<1>4. CASE current = "PAREN_END"
  <2>1. Move /\ errors' = errors
    BY <1>4 DEF Paren, Quiet
  <2>2. BracketStep(Own(Top), <<>>)
    BY <1>2, <1>4, <2>1, ClosesIs DEF BracketStep
  <2> QED
    BY <1>1, <1>2, <1>3, <2>1, <2>2, PopStep
<1>5. CASE current # "PAREN_END"
  <2>1. Stay /\ errors' = TRUE
    BY <1>5 DEF Paren, Report
  <2> QED
    BY <1>1, <1>2, <1>3, <2>1, PopStep
<1> QED
  BY <1>4, <1>5

-----------------------------------------------------------------------------
LEMMA LhsInv == IInv /\ Lhs => IInv'
<1> SUFFICES ASSUME IInv, Lhs PROVE IInv'
  OBVIOUS
<1>1. Running /\ Top.at = "lhs"
  BY DEF Lhs, At
<1>2. /\ Own(Top) = <<>> /\ ~Doomed(Top.at, current, next) /\ errors \in BOOLEAN
      /\ Top \in Frames /\ Top = stack[Len(stack)] /\ odd \in BOOLEAN
      /\ node \in NodeRecs /\ Grouped(node) /\ node.prec = Tight
      /\ ~errors => Whole(node)
  BY <1>1, ExprAtsIs, TopIs DEF Own, Doomed, TopOK
<1>3. CASE node = Null /\ Crash
  BY <1>1, <1>3, NullIs, CrashStep
<1>4. CASE node = Error /\ Return(Null) /\ Stay /\ Quiet
  <2>1. errors /\ Null \in NodeRecs /\ Grouped(Null)
    BY <1>1, <1>4, NullIs, NodeIs DEF Null, Kinds
  <2>2. /\ stack' = Popped /\ node' = Null
        /\ errors' = errors /\ crashed' = crashed /\ odd' = odd
    BY <1>4 DEF Return, Quiet
  <2> QED
    BY <1>1, <1>2, <1>4, <2>1, <2>2, ExprAtsIs, PopStep
<1>5. CASE /\ stack' = [stack EXCEPT ![Len(stack)].at = "loop", ![Len(stack)].lhs = node]
           /\ Stay /\ node' = node /\ Quiet
  <2> DEFINE f == [Top EXCEPT !.at = "loop", !.lhs = node]
  <2>1. stack' = [stack EXCEPT ![Len(stack)] = f]
    BY <1>2, <1>5, TopIs, <1>1 DEF Frames
  <2>2. f \in Frames /\ f.at = "loop" /\ f.lhs = node /\ f.min = Top.min
    BY <1>2, ExprAtsIs DEF Frames
  <2>3. errors' = errors /\ crashed' = crashed /\ odd' = odd
    BY <1>5 DEF Quiet
  <2> HIDE DEF f
  <2>4. FrameOK(f) /\ TopOK(f, node, current')
    <3>1. f.min <= Tight /\ Binds(current') <= Tight
      BY <2>2, FrameParts, BindsIs
    <3>2. node.prec >= f.min
      BY <1>2, <2>2, <3>1, FrameParts DEF Tight
    <3> QED
      BY <1>2, <2>2, <3>1, <3>2 DEF FrameOK, TopOK
  <2>5. Alike(Top, f) /\ TextOK(f, current') /\ Own(f) = <<>>
    BY <1>1, <2>2, ExprAtsIs DEF Alike, TextOK, Own
  <2>6. BracketStep(Own(Top), Own(f))
    BY <1>2, <1>5, <2>5, NotBracket
  <2> QED
    BY <1>1, <1>2, <1>5, <2>1, <2>2, <2>3, <2>4, <2>5, <2>6, ReplaceStep
<1> QED
  BY <1>3, <1>4, <1>5 DEF Lhs

LEMMA BeginCallInv == IInv /\ BeginCall => IInv'
<1> SUFFICES ASSUME IInv, BeginCall PROVE IInv'
  OBVIOUS
<1>1. /\ Running /\ Top.at = "loop" /\ current = "PAREN_START" /\ Move
      /\ stack' = Goto("args") /\ node' = node
      /\ errors' = errors /\ crashed' = crashed /\ odd' = odd
  BY DEF BeginCall, At, Quiet
<1>2. OwnAt("args") = <<current>> /\ Own(Top) = <<>>
  BY <1>1, ExprAtsIs DEF Own
<1>3. BracketStep(Own(Top), OwnAt("args")) /\ ~Doomed(Top.at, current, next)
  BY <1>1, <1>2 DEF BracketStep, Doomed
<1>4. "args" \in Ats /\ Leads(Top.at, "args")
      /\ "args" \notin {"lhs", "unary", "loop", "rhs", "int_name", "assn_eq"} \cup SkipAts
  BY <1>1, ExprAtsIs DEF Leads
<1>5. odd \in BOOLEAN
  BY <1>1, TopIs
<1> QED
  BY <1>1, <1>3, <1>4, <1>5, GotoStep

LEMMA ArgInv == IInv /\ Arg => IInv'
<1> SUFFICES ASSUME IInv, Arg PROVE IInv'
  OBVIOUS
<1>1. /\ Running /\ Top.at \in {"args", "arg_end"} /\ node' = node
      /\ errors' = errors /\ crashed' = crashed /\ odd' = odd
  BY DEF Arg, At, Quiet
<1>2. /\ Own(Top) = <<"PAREN_START">> /\ OwnAt("arg_end") = <<"PAREN_START">>
      /\ ~Doomed(Top.at, current, next)
  BY <1>1, ExprAtsIs DEF Own, Doomed
<1>3. CASE stack' = CallExpr(Goto("arg_end"), 0) /\ Stay
  <2>1. "arg_end" \in Ats /\ Leads(Top.at, "arg_end")
        /\ "arg_end" \notin {"lhs", "unary", "loop", "rhs", "prefix", "int_name", "assn_eq", "fn_close"}
                       \cup SkipAts
    BY <1>1, ExprAtsIs DEF Leads
  <2>2. BracketStep(Own(Top), OwnAt("arg_end"))
    BY <1>2, <1>3, NotBracket
  <2> QED
    BY <1>1, <1>2, <1>3, <2>1, <2>2, GotoCallStep
<1>4. CASE Top.at = "arg_end" /\ current = "COMMA" /\ stack' = CallExpr(stack, 0) /\ Move
  <2>1. /\ StackOK(stack) /\ Top = stack[Len(stack)]
        /\ ~errors => WholeStack(stack) /\ (~odd => Owned(stack, nest))
    BY <1>1, <1>2, TopIs
  <2>2. nest' = nest \/ errors
    BY <1>4, ClosesIs DEF Move
  <2>3. PairOK(Top, Frame("lhs", 0, Nothing)) /\ 0 \in 0..Tight
    BY <1>4 DEF PairOK, SkipAts, Tight
  <2> QED
    BY <1>1, <1>4, <2>1, <2>2, <2>3, CallStep
<1> QED
  BY <1>3, <1>4 DEF Arg, At

\* The loops of an expression go on with a new left-hand side.
LEMMA GrownIs ==
  ASSUME IInv, Running, Top.at \in ExprAts, NEW lhs \in NodeRecs, Grouped(lhs),
         lhs.prec >= Top.min
  PROVE  LET f == [Top EXCEPT !.at = "loop", !.lhs = lhs] IN
         /\ Grown(lhs) = [stack EXCEPT ![Len(stack)] = f]
         /\ f \in Frames /\ f.at = "loop" /\ f.lhs = lhs
         /\ FrameOK(f) /\ Alike(Top, f) /\ Own(f) = <<>>
         /\ \A t : TextOK(f, t)
<1> DEFINE f == [Top EXCEPT !.at = "loop", !.lhs = lhs]
<1>1. Top \in Frames /\ Top = stack[Len(stack)]
  BY TopIs
<1>2. Grown(lhs) = [stack EXCEPT ![Len(stack)] = f]
  BY <1>1 DEF Grown, Frames
<1>3. f \in Frames /\ f.at = "loop" /\ f.lhs = lhs /\ f.min = Top.min
  BY <1>1, ExprAtsIs DEF Frames
<1> HIDE DEF f
<1>4. FrameOK(f) /\ Alike(Top, f) /\ Own(f) = <<>> /\ \A t : TextOK(f, t)
  BY <1>3, ExprAtsIs DEF FrameOK, Alike, Own, TextOK
<1> QED
  BY <1>2, <1>3, <1>4 DEF f

LEMMA EndCallInv == IInv /\ EndCall => IInv'
<1> SUFFICES ASSUME IInv, EndCall PROVE IInv'
  OBVIOUS
<1> DEFINE lhs == CallNode(Top.lhs)
           f == [Top EXCEPT !.at = "loop", !.lhs = lhs]
<1>1. /\ Running /\ Top.at \in {"args", "arg_end"} /\ node' = node
      /\ crashed' = crashed /\ odd' = odd
  BY DEF EndCall, At, Quiet
<1>2. /\ Own(Top) = <<"PAREN_START">> /\ ~Doomed(Top.at, current, next)
      /\ Top.at \in ExprAts /\ Top.at \in GrownAts
  BY <1>1, ExprAtsIs DEF Own, Doomed
<1>3. /\ Top \in Frames /\ StackOK(stack) /\ stack # <<>> /\ Top = stack[Len(stack)]
      /\ node \in NodeRecs /\ Grouped(node)
      /\ crashed \in BOOLEAN /\ odd \in BOOLEAN
  BY <1>1, TopIs
<1>4. lhs \in NodeRecs /\ lhs.prec = Tight /\ Grouped(lhs) /\ Whole(lhs) /\ lhs.prec >= Top.min
  BY <1>3 DEF CallNode, Node, NodeRecs, Frames, Grouped, Whole, Kinds, Tight
<1> HIDE DEF lhs
<1>5. /\ Grown(lhs) = [stack EXCEPT ![Len(stack)] = f]
      /\ f \in Frames /\ f.at = "loop" /\ f.lhs = lhs
      /\ FrameOK(f) /\ Alike(Top, f) /\ Own(f) = <<>>
      /\ \A t : TextOK(f, t)
  BY <1>1, <1>2, <1>4, GrownIs
<1> HIDE DEF f
<1>6. CASE current = "PAREN_END" /\ stack' = Grown(lhs) /\ Move /\ errors' = errors
  <2>1. BracketStep(Own(Top), Own(f))
    BY <1>2, <1>5, <1>6, ClosesIs DEF BracketStep
  <2>2. TopOK(f, node, current')
    <3>1. Binds(current') <= Tight
      BY BindsIs
    <3> QED
      BY <1>4, <1>5, <3>1 DEF TopOK
  <2> QED
    BY <1>1, <1>2, <1>3, <1>4, <1>5, <1>6, <2>1, <2>2, ReplaceStep
<1>7. CASE stack' = Append(Grown(lhs), Plain("sync")) /\ errors' = TRUE /\ Stay
  <2> DEFINE t == [stack EXCEPT ![Len(stack)] = f]
  <2>1. StackOK(t) /\ t[Len(t)] = f
    BY <1>3, <1>5, StackReplace
  <2>2. "sync" \in SkipAts /\ Plain("sync").at \in SkipAts
    BY DEF SkipAts, Plain, Frame
  <2>3. PairOK(f, Plain("sync"))
    BY <1>4, <1>5, <2>2, ExprAtsIs DEF PairOK
  <2> HIDE DEF t
  <2>4. stack' = Append(t, Plain("sync"))
    BY <1>5, <1>7 DEF t
  <2> QED
    BY <1>1, <1>3, <1>7, <2>1, <2>2, <2>3, <2>4, RecoveryStep
<1> QED
  BY <1>6, <1>7 DEF EndCall, Quiet, SyncAfter, Push, Report, lhs

LEMMA InfixInv == IInv /\ Infix => IInv'
<1> SUFFICES ASSUME IInv, Infix PROVE IInv'
  OBVIOUS
<1> DEFINE op == precedence[current]
           f == [Top EXCEPT !.at = "rhs", !.op = op]
           t == [stack EXCEPT ![Len(stack)] = f]
<1>1. /\ Running /\ Top.at = "loop" /\ InfixAhead /\ Move /\ node' = node
      /\ errors' = errors /\ crashed' = crashed /\ odd' = odd
      /\ stack' = CallExpr([Goto("rhs") EXCEPT ![Len(stack)].op = op], op + 1)
  BY DEF Infix, At, Quiet
<1>2. /\ Own(Top) = <<>> /\ ~Doomed(Top.at, current, next)
  BY <1>1, ExprAtsIs DEF Own, Doomed
<1>3. /\ Top \in Frames /\ StackOK(stack) /\ stack # <<>> /\ Top = stack[Len(stack)]
      /\ stack \in Seq(Frames) /\ FrameOK(Top) /\ TopOK(Top, node, current)
      /\ ~errors => WholeStack(stack) /\ Whole(Top.lhs) /\ (~odd => Owned(stack, nest))
  BY <1>1, <1>2, TopIs
<1>4. /\ op \in 0..Tight /\ op + 1 \in 0..Tight /\ op >= Top.min /\ op = Binds(current)
      /\ current \in {"MULT", "PLUS", "MINUS", "LESS_THAN", "EQQ", "AND", "OR"}
  BY <1>1 DEF InfixAhead, precedence, Binds, Tight
<1>5. [Goto("rhs") EXCEPT ![Len(stack)].op = op] = t
  BY <1>3 DEF Goto, Frames
<1>6. f \in Frames /\ f.at = "rhs" /\ f.op = op /\ f.min = Top.min /\ f.lhs = Top.lhs
  BY <1>3, <1>4, ExprAtsIs DEF Frames
<1> HIDE DEF op, f
<1>7. FrameOK(f) /\ Alike(Top, f) /\ Own(f) = <<>>
  <2>1. Top.lhs.prec >= op
    <3>1. Top.lhs.prec \in Nat /\ op \in Nat
      BY <1>3, <1>4, FrameParts, NodeParts DEF Tight
    <3>2. op <= Top.lhs.prec
      BY <1>1, <1>3, <1>4 DEF TopOK
    <3> QED
      BY <3>1, <3>2
  <2> QED
    BY <1>1, <1>3, <1>4, <1>6, <2>1, ExprAtsIs DEF FrameOK, Alike, Own
<1>8. /\ StackOK(t) /\ t # <<>> /\ t[Len(t)] = f
      /\ WholeStack(stack) /\ Whole(f.lhs) => WholeStack(t)
  BY <1>3, <1>6, <1>7, StackReplace
<1>9. BracketStep(Own(Top), Own(f))
  BY <1>1, <1>2, <1>4, <1>7, NotBracket
<1>10. ~errors => WholeStack(t) /\ (~odd => Owned(t, nest'))
  BY <1>1, <1>3, <1>6, <1>8, <1>9, ReplaceBrackets
<1>11. PairOK(f, Frame("lhs", op + 1, Nothing))
  BY <1>6, ExprAtsIs DEF PairOK, Frame
<1> HIDE DEF t
<1>12. stack' = CallExpr(t, op + 1)
  BY <1>1, <1>5 DEF op
<1> QED
  BY <1>1, <1>4, <1>8, <1>10, <1>11, <1>12, CallStep

LEMMA RhsInv == IInv /\ Rhs => IInv'
<1> SUFFICES ASSUME IInv, Rhs PROVE IInv'
  OBVIOUS
<1> DEFINE lhs == BinOp(Top.op, Top.lhs, node)
           f == [Top EXCEPT !.at = "loop", !.lhs = lhs]
<1>1. Running /\ Top.at = "rhs"
  BY DEF Rhs, At
<1>2. CASE node = Null
  BY <1>1, <1>2, NullIs, CrashStep DEF Rhs
<1>3. CASE node # Null
  <2>1. /\ stack' = Grown(lhs) /\ Stay /\ node' = node
        /\ errors' = errors /\ crashed' = crashed /\ odd' = odd
    BY <1>3 DEF Rhs, Quiet
  <2>2. /\ Own(Top) = <<>> /\ ~Doomed(Top.at, current, next) /\ Top.at \in ExprAts
    BY <1>1, ExprAtsIs DEF Own, Doomed
  <2>3. /\ Top \in Frames /\ node \in NodeRecs /\ odd \in BOOLEAN
        /\ Top.op >= Top.min /\ Top.lhs.prec >= Top.op
        /\ node.prec > Top.op /\ Binds(current) <= Top.op
    BY <1>1, <1>3, ExprAtsIs, TopIs DEF FrameOK, TopOK
  <2>4. /\ lhs \in NodeRecs /\ lhs.prec = Top.op /\ lhs.lhs = Top.lhs.prec
        /\ lhs.rhs = node.prec /\ Whole(lhs)
    <3>1. Top.op \in 0..Tight /\ Top.lhs.prec \in 0..Tight /\ node.prec \in 0..Tight
      BY <2>3, FrameParts, NodeParts
    <3> QED
      BY <3>1 DEF BinOp, Node, NodeRecs, Whole, Kinds
  <2> HIDE DEF lhs
  <2>5. Grouped(lhs) /\ lhs.prec >= Top.min
    BY <2>3, <2>4 DEF Grouped
  <2>6. /\ Grown(lhs) = [stack EXCEPT ![Len(stack)] = f]
        /\ f \in Frames /\ f.at = "loop" /\ f.lhs = lhs
        /\ FrameOK(f) /\ Alike(Top, f) /\ Own(f) = <<>>
        /\ \A t : TextOK(f, t)
    BY <1>1, <2>2, <2>4, <2>5, GrownIs
  <2> HIDE DEF f
  <2>7. TopOK(f, node, current')
    BY <2>1, <2>3, <2>4, <2>6 DEF TopOK, Stay, text
  <2>8. BracketStep(Own(Top), Own(f))
    BY <2>1, <2>2, <2>6, NotBracket
  <2> QED
    BY <1>1, <2>1, <2>2, <2>3, <2>4, <2>6, <2>7, <2>8, ReplaceStep
<1> QED
  BY <1>2, <1>3

LEMMA EndExprInv == IInv /\ EndExpr => IInv'
<1> SUFFICES ASSUME IInv, EndExpr PROVE IInv'
  OBVIOUS
<1>1. /\ Running /\ Top.at = "loop" /\ stack' = Popped /\ node' = Top.lhs /\ Stay
      /\ errors' = errors /\ crashed' = crashed /\ odd' = odd /\ ~InfixAhead
  BY DEF EndExpr, At, Return, Quiet
<1>2. /\ Own(Top) = <<>> /\ ~Doomed(Top.at, current, next)
      /\ Top.at \notin PrefixAts /\ Top.at \in GrownAts
  BY <1>1, ExprAtsIs DEF Own, Doomed
<1>3. /\ Top \in Frames /\ FrameOK(Top) /\ errors \in BOOLEAN
      /\ ~errors => Whole(Top.lhs)
  BY <1>1, TopIs
<1>4. node' \in NodeRecs /\ Grouped(node') /\ node'.prec >= Top.min
  BY <1>1, <1>2, <1>3 DEF FrameOK, Frames
<1>5. Binds(current') < Top.min \/ Top.min = 0
  <2>1. current' = current /\ Top.min \in Nat
    BY <1>1, <1>3 DEF Stay, text, Frames, Tight
  <2>2. CASE current \in DOMAIN precedence
    <3>1. precedence[current] \in Nat /\ ~(precedence[current] >= Top.min)
      BY <1>1, <2>2 DEF InfixAhead, precedence
    <3> QED
      BY <2>1, <2>2, <3>1 DEF Binds
  <2>3. CASE current \notin DOMAIN precedence
    BY <2>1, <2>3 DEF Binds
  <2> QED
    BY <2>2, <2>3
<1>6. BracketStep(Own(Top), <<>>)
  BY <1>1, <1>2, NotBracket
<1> QED
  BY <1>1, <1>2, <1>3, <1>4, <1>5, <1>6, PopStep

-----------------------------------------------------------------------------
LEMMA NoFrames ==
  ASSUME NEW s
  PROVE  Owners(s, 0) = 0
<1>1. {k \in 1..0 : Own(s[k]) # <<>>} = {}
  OBVIOUS
<1> QED
  BY <1>1, FS_EmptySet DEF Owners

LEMMA InitInv == Init => IInv
<1> SUFFICES ASSUME Init PROVE IInv
  OBVIOUS
<1> DEFINE f == Plain("program")
<1>1. f \in Frames /\ f.at = "program" /\ Whole(f.lhs) /\ FrameOK(f)
  BY PlainIs DEF Ats, OtherAts, GrownAts
<1>2. Own(f) = <<>>
  BY <1>1 DEF Own, OwnAt, ParenAts, BraceAts
<1>3. PairOK(f, f)
  BY <1>1 DEF PairOK, SkipAts
<1> HIDE DEF f
<1>4. StackOK(<<>>) /\ WholeStack(<<>>) /\ Owned(<<>>, <<>>) /\ <<>> \in Seq(Frames)
      /\ <<>> \in Seq(Texts)
  <2>1. Owners(<<>>, Len(<<>>)) = 0
    BY NoFrames
  <2> QED
    BY <2>1 DEF StackOK, WholeStack, Owned
<1>5. /\ StackOK(Append(<<>>, f)) /\ WholeStack(Append(<<>>, f))
      /\ Append(<<>>, f)[Len(Append(<<>>, f))] = f
  BY <1>1, <1>4, StackPush
<1>6. Owned(Append(<<>>, f), <<>>)
  BY <1>1, <1>2, <1>4, OwnedPush
<1>7. stack = Append(<<>>, f)
  BY DEF Init, f
<1>8. current \in Texts /\ next \in {"EQ", "IDENTIFIER", "PAREN_START", "PAREN_END", "another"}
  BY Bounds DEF Init, TokensAt, Texts, Ahead, Seen
<1>9. node \in NodeRecs /\ Grouped(node) /\ Whole(node)
  BY NodeIs DEF Init, Nothing, Kinds, Whole
<1>10. TopOK(f, node, current) /\ TextOK(f, current)
  BY <1>1 DEF TopOK, TextOK, SkipAts
<1>11. Top = f
  BY <1>5, <1>7 DEF Top, Last
<1>12. TypeOK
  <2>1. stack \in Seq(Frames) /\ nest \in Seq(Texts)
    BY <1>4, <1>5, <1>7 DEF StackOK, Init
  <2>2. token_index \in Nat
    BY DEF Init
  <2>3. errors \in BOOLEAN /\ crashed \in BOOLEAN /\ odd \in BOOLEAN
    BY DEF Init
  <2> QED
    BY <1>8, <1>9, <2>1, <2>2, <2>3 DEF TypeOK
<1>13. CleanSoFar
  BY <1>5, <1>6, <1>7, <1>9, <1>10, <1>11 DEF CleanSoFar, Init
<1> QED
  BY <1>5, <1>7, <1>9, <1>10, <1>11, <1>12, <1>13 DEF IInv

LEMMA SameInv == IInv /\ UNCHANGED vars => IInv'
<1> SUFFICES ASSUME IInv, UNCHANGED vars PROVE IInv'
  OBVIOUS
<1>1. Stay /\ stack' = stack /\ node' = node /\ errors' = errors /\ crashed' = crashed
      /\ odd' = odd /\ nest' = nest /\ current' = current /\ next' = next
      /\ token_index' = token_index
  BY DEF vars, text, Stay
<1> QED
  BY <1>1 DEF IInv, TypeOK, CleanSoFar, Top, Last

\* Whatever the text, no step of the parser breaks the invariant.
THEOREM InductiveInvariant == Spec => []IInv
<1>1. Init => IInv
  BY InitInv
<1>2. IInv /\ [Next]_vars => IInv'
  <2> SUFFICES ASSUME IInv, [Next]_vars PROVE IInv'
    OBVIOUS
  <2>1. CASE Sync \/ Skip
    BY <2>1, SyncInv, SkipInv
  <2>2. CASE BeginItem \/ BeginCallStmt \/ BadInt \/ Unexpected \/ EndItems
    BY <2>2, BeginItemInv, BeginCallStmtInv, BadIntInv, UnexpectedInv, EndItemsInv
  <2>3. CASE IntName \/ IntInit \/ AssnEq \/ EndDecl \/ BeginReturn \/ EndStmt
    BY <2>3, IntNameInv, IntInitInv, AssnEqInv, EndDeclInv, BeginReturnInv, EndStmtInv
  <2>4. CASE ExpectToken \/ BeginPart \/ Else \/ EndCompound \/ FnPart \/ BadParam
    BY <2>4, ExpectTokenInv, BeginPartInv, ElseInv, EndCompoundInv, FnPartInv, BadParamInv
  <2>5. CASE Prefix \/ Unary \/ Paren \/ Lhs \/ BeginCall \/ Arg \/ EndCall
    BY <2>5, PrefixInv, UnaryInv, ParenInv, LhsInv, BeginCallInv, ArgInv, EndCallInv
  <2>6. CASE Infix \/ Rhs \/ EndExpr
    BY <2>6, InfixInv, RhsInv, EndExprInv
  <2>7. CASE Over \/ UNCHANGED vars
    BY <2>7, SameInv DEF Over
  <2> QED
    BY <2>1, <2>2, <2>3, <2>4, <2>5, <2>6, <2>7 DEF Next
<1> QED
  BY <1>1, <1>2, PTL DEF Spec

\* As long as nothing is reported the parser has not been killed and no node is
\* NULL or an error (WholeUntilReported), for texts of any length: a program
\* without syntax errors reaches the passes behind it whole.
THEOREM WholePrograms == Spec => []WholeUntilReported
<1>1. IInv => WholeUntilReported
  BY DEF IInv, CleanSoFar, Whole, WholeUntilReported, Null, Error, Node
<1> QED
  BY <1>1, InductiveInvariant, PTL

\* The Pratt loop of parse_expr groups operators by precedence and to the left
\* (OperatorsGroup), in expressions of any depth and after any errors.
THEOREM OperatorsBind == Spec => []OperatorsGroup
<1>1. IInv => OperatorsGroup
  BY DEF IInv, Grouped, OperatorsGroup
<1> QED
  BY <1>1, InductiveInvariant, PTL

\* A text that is parsed to its end without a message, with names for names
\* and types for types, has a match for every bracket (BracketsMatch), although
\* parse_parameter_list may go on behind a ')' it has not come to.
THEOREM AcceptedTextsNest == Spec => []BracketsMatch
<1>1. IInv => BracketsMatch
  <2> SUFFICES ASSUME IInv, stack = <<>>, ~errors, ~odd PROVE nest = <<>>
    BY DEF BracketsMatch
  <2>1. Owned(stack, nest) /\ nest \in Seq(Texts)
    BY DEF IInv, CleanSoFar, TypeOK
  <2>2. Len(nest) = Owners(stack, 0)
    BY <2>1 DEF Owned
  <2> QED
    BY <2>1, <2>2, NoFrames
<1> QED
  BY <1>1, InductiveInvariant, PTL
=============================================================================
