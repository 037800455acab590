------------------------------- MODULE MIRGen -------------------------------
(***************************************************************************)
(* The generator of the middle-level IR (mir.c): the AST of each function  *)
(* is walked once, expressions leave their values on val_stack, and        *)
(* statements emit instructions into the block at curr_block_index.  The   *)
(* blocks and the counters are those of the function being compiled; the   *)
(* value stack belongs to the builder and outlives it.                     *)
(*                                                                         *)
(* The function being compiled is not given in advance: every action is    *)
(* one callback of the walk on the next AST node, and the functions are    *)
(* all those whose walk the bound MaxNodes allows.  `walk' is the          *)
(* recursion of mir_gen_pre / mir_gen_post / lower_expr / lower_stmt: one  *)
(* frame per unfinished node.  Block number b here is BlockId b - 1.       *)
(***************************************************************************)
EXTENDS Integers, Sequences, FiniteSets

CONSTANTS
  MaxFunctions,  \* functions of the program
  MaxNodes,      \* AST nodes of all of them, statements and leaves counted
  NumParams,     \* parameters of each function
  Arities,       \* numbers of arguments of the functions it calls
  Constants,     \* classes of integer literals (zero, fits a 12-bit field, ..)
  ReturnsValue,  \* is its return type int (or void)
  Nodes          \* the kinds of AST nodes it is written with

AllNodes == {"AST_NAME", "AST_INT_LIT", "AST_UNARY_OP", "AST_BIN_OP",
             "AST_CMP_OP", "AST_FN_CALL", "AST_LOG_OP", "AST_VAR_DEC",
             "AST_ASSN", "AST_EXIT", "AST_IF", "AST_WHILE",
             "AST_BLOCK", "bare declaration", "bare return", "call statement",
             "pending AST_LOG_OP"}

ASSUME Bounds == /\ MaxFunctions \in Nat \ {0}
                 /\ MaxNodes \in Nat
                 /\ NumParams \in Nat
                 /\ Arities \subseteq Nat
                 /\ 0 \in Constants
                 /\ ReturnsValue \in BOOLEAN
                 /\ Nodes \subseteq AllNodes

VARIABLES
  blocks,      \* the function's blocks: instructions and terminator of each
  curr,        \* curr_block_index
  val_stack,   \* the values of the expressions evaluated so far
  next_temp,   \* next_temp_id
  next_slot,   \* next_slot_id
  walk,        \* the unfinished nodes, outermost first
  assigned,    \* slots of the variables def_assn takes for assigned
  nodes,       \* nodes walked, bounded by MaxNodes
  funcs,       \* functions begun, bounded by MaxFunctions
  unclaimed,   \* ghost: values on val_stack that no statement waits for
  foreign      \* ghost: has this function popped such a value of an earlier one

program == <<funcs, unclaimed, foreign>>
vars == <<blocks, curr, val_stack, next_temp, next_slot, walk, assigned, nodes,
          program>>

IMM(c)  == [kind |-> "IRVAL_IMM", id |-> c]
TEMP(t) == [kind |-> "IRVAL_TEMP", id |-> t]

\* An instruction: dst is the temp it defines, or NoTemp; slot the one it
\* loads or stores, or NoSlot; args the values it reads.
NoTemp == -1
NoSlot == -1
Inst(type, dst, slot, args) ==
  [type |-> type, dst |-> dst, slot |-> slot, args |-> args]
Load(t, s)        == Inst("IR_LOAD", t, s, <<>>)
Store(s, v)       == Inst("IR_STORE", NoTemp, s, <<v>>)
ArgInst(t)        == Inst("IR_ARG", t, NoSlot, <<>>)
BinOp(op, t, l, r) == Inst(op, t, NoSlot, <<l, r>>)
CmpOp(t, l, r)    == Inst("IR_CMPOP", t, NoSlot, <<l, r>>)
Call(t, args)     == Inst("IR_CALL", t, NoSlot, args)

\* A terminator and the blocks it goes to.
Undefined      == [type |-> "IR_UNDEFINED", args |-> <<>>, to |-> <<>>]
Halt(args)     == [type |-> "IR_HALT", args |-> args, to |-> <<>>]
Jump(b)        == [type |-> "IR_JUMP", args |-> <<>>, to |-> <<b>>]

\* Mutant: one target twice.
BranchIfZero_mutant(v, nonzero, zero) ==
  [type |-> "IR_BRANCH_IF_ZERO", args |-> <<v>>, to |-> <<nonzero, nonzero>>]

BranchIfZero(v, nonzero, zero) ==
  [type |-> "IR_BRANCH_IF_ZERO", args |-> <<v>>, to |-> <<nonzero, zero>>]

NewBlock == [insts |-> <<>>, term |-> Undefined]   \* block_init

\* insert_instruction: it does not look at the block's terminator.
Emit(bs, b, insts) == [bs EXCEPT ![b].insts = @ \o insts]

\* insert_terminator: it replaces whatever terminator the block had.
Terminate(bs, b, t) == [bs EXCEPT ![b].term = t]

Open(bs, b) == bs[b].term = Undefined

\* Mutant: the jump is forgotten.
JumpIfOpen_mutant(bs, b, to) == bs

\* The jumps that are emitted only if the block has no terminator yet.
JumpIfOpen(bs, b, to) == IF Open(bs, b) THEN Terminate(bs, b, Jump(to)) ELSE bs

\* The return that ends a function or an unreachable join block.
ImplicitHalt == IF ReturnsValue THEN Halt(<<IMM(0)>>) ELSE Halt(<<>>)
-----------------------------------------------------------------------------
\* Frames: base is the height of val_stack when the node was entered, to the
\* blocks the node still has to deal with, scope the variables in sight.
Frame(at, base, slot, to, scope) ==
  [at |-> at, base |-> base, slot |-> slot, to |-> to, reached |-> FALSE,
   scope |-> scope]

Height == Len(val_stack)
Push(s, x)    == Append(s, x)
Pop(s, n)     == SubSeq(s, 1, Len(s) - n)
Last(s)       == s[Len(s)]
Popped(n)     == SubSeq(val_stack, Height - n + 1, Height)

Running    == walk # <<>>
Top        == Last(walk)
StmtFrames == {"fn_block", "then_block", "else_block", "loop_block", "block"}
InStmts    == Running /\ Top.at \in StmtFrames
InExpr     == Running /\ Top.at \notin StmtFrames
Pending    == Height - Top.base        \* operands the node on top waits with
ExprDone   == InExpr /\ Pending = 1

\* The operands it needs: a call statement as many as the call has arguments.
Operands == IF Top.at = "call_stmt" THEN Top.slot ELSE 1

\* The bound: MaxNodes covers the nodes walked and the leaves still owed to
\* operators and statements already begun, so it cuts no walk short.
Owed == Cardinality({k \in DOMAIN walk : walk[k].at \in {"and_lhs", "or_lhs"}})
          + IF InExpr /\ Pending < Operands THEN 1 ELSE 0
Affords(n) == nodes + n + Owed <= MaxNodes

\* A leaf may come next.
LeafFits == InExpr /\ Operands > 0 /\ (Pending = 0 \/ Affords(1))
-----------------------------------------------------------------------------
\* mir_gen_pre, AST_FN_DEC: begin_function, then each parameter is fetched
\* and stored in a slot of its own.
Params(n) == [i \in 1..2 * n |-> IF i % 2 = 1 THEN ArgInst(i \div 2)
                                 ELSE Store(i \div 2 - 1, TEMP(i \div 2 - 1))]

Init ==
  /\ blocks = <<[NewBlock EXCEPT !.insts = Params(NumParams)]>>
  /\ curr = 1
  /\ val_stack = <<>>
  /\ next_temp = NumParams
  /\ next_slot = NumParams
  /\ walk = <<Frame("fn_block", 0, NoSlot, <<>>, 0..NumParams - 1)>>
  /\ assigned = 0..NumParams - 1
  /\ nodes = 0
  /\ funcs = 1
  /\ unclaimed = 0
  /\ foreign = FALSE

\* begin_function of the next function: everything starts anew but val_stack.
BeginFunction ==
  /\ ~Running /\ funcs < MaxFunctions
  /\ blocks' = <<[NewBlock EXCEPT !.insts = Params(NumParams)]>>
  /\ curr' = 1
  /\ next_temp' = NumParams
  /\ next_slot' = NumParams
  /\ walk' = <<Frame("fn_block", Height, NoSlot, <<>>, 0..NumParams - 1)>>
  /\ assigned' = 0..NumParams - 1
  /\ funcs' = funcs + 1
  /\ foreign' = FALSE
  /\ UNCHANGED <<val_stack, nodes, unclaimed>>

\* A value goes on the stack with the instructions that compute it.
Produce(v, insts) ==
  /\ val_stack' = Push(val_stack, v)
  /\ blocks' = Emit(blocks, curr, insts)

\* Mutant: the counter of temps stays.
Apply_mutant(n, inst) ==
  /\ val_stack' = Push(Pop(val_stack, n), TEMP(next_temp))
  /\ blocks' = Emit(blocks, curr, <<inst>>)
  /\ UNCHANGED <<curr, next_temp, next_slot, walk, assigned, program>>

\* The operands are the last n values; the result is a new temp.
Apply(n, inst) ==
  /\ val_stack' = Push(Pop(val_stack, n), TEMP(next_temp))
  /\ blocks' = Emit(blocks, curr, <<inst>>)
  /\ next_temp' = next_temp + 1
  /\ UNCHANGED <<curr, next_slot, walk, assigned, program>>

\* mir_gen_post, AST_INT_LIT (emit_rvalue): no instruction
IntLit(c) ==
  /\ "AST_INT_LIT" \in Nodes
  /\ LeafFits
  /\ Produce(IMM(c), <<>>)
  /\ nodes' = nodes + 1
  /\ UNCHANGED <<curr, next_temp, next_slot, walk, assigned, program>>

\* The names def_assn lets pass: declared, and assigned further up in the text.
Readable == Top.scope \cap assigned

\* mir_gen_post, AST_NAME (emit_rvalue): a load of the variable's slot
Name(s) ==
  /\ "AST_NAME" \in Nodes
  /\ LeafFits
  /\ s \in Readable
  /\ Produce(TEMP(next_temp), <<Load(next_temp, s)>>)
  /\ next_temp' = next_temp + 1
  /\ nodes' = nodes + 1
  /\ UNCHANGED <<curr, next_slot, walk, assigned, program>>

\* mir_gen_post, AST_UNARY_OP: -x is 0 - x and not x is 0 == x
Unary ==
  /\ "AST_UNARY_OP" \in Nodes
  /\ InExpr /\ Pending >= 1 /\ Affords(1)
  /\ nodes' = nodes + 1
  /\ \/ Apply(1, BinOp("BIN_SUB", next_temp, IMM(0), Last(val_stack)))
     \/ Apply(1, CmpOp(next_temp, IMM(0), Last(val_stack)))

\* mir_gen_post, AST_BIN_OP and AST_CMP_OP.  Two kinds stand for the five
\* operators: the LIR has an immediate form of + and -, none of * and /.
Binary ==
  /\ InExpr /\ Pending >= 2
  /\ LET lhs == val_stack[Height - 1]
         rhs == val_stack[Height] IN
     \/ /\ "AST_BIN_OP" \in Nodes
        /\ \E op \in {"BIN_ADD", "BIN_MUL"} :
             Apply(2, BinOp(op, next_temp, lhs, rhs))
     \/ /\ "AST_CMP_OP" \in Nodes
        /\ Apply(2, CmpOp(next_temp, lhs, rhs))
  /\ UNCHANGED nodes

\* mir_gen_post, AST_FN_CALL: the k arguments have been lowered one by one
\* (here they wait on val_stack, in the code in call.args).  The result gets
\* a temp whether the callee returns something or not.
FnCall(k) ==
  /\ "AST_FN_CALL" \in Nodes
  /\ InExpr /\ Pending >= k
  /\ IF k = 0 THEN LeafFits ELSE Affords(1)
  /\ Apply(k, Call(next_temp, Popped(k)))
  /\ nodes' = nodes + 1

\* mir_gen_pre, AST_LOG_OP, first part: the slot of the result, then the LHS
BeginLogOp(at) ==
  /\ "AST_LOG_OP" \in Nodes
  /\ InExpr /\ Operands > 0
  /\ Pending > 0 => "pending AST_LOG_OP" \in Nodes
  /\ Affords(IF Pending = 0 THEN 1 ELSE 2)
  /\ walk' = Push(walk, Frame(at, Height, next_slot, <<>>, Top.scope))
  /\ next_slot' = next_slot + 1
  /\ UNCHANGED <<blocks, curr, val_stack, next_temp, assigned, nodes, program>>

\* Mutant: the short-circuit value is stored too late.
FinishLhs_mutant ==
  LET rhs  == Len(blocks) + 1
      join == Len(blocks) + 2
      lhs  == Last(val_stack)
      bs   == blocks \o <<NewBlock, NewBlock>>
      and  == Top.at = "and_lhs"
  IN
  /\ ExprDone /\ Top.at \in {"and_lhs", "or_lhs"}
  /\ blocks' =
       Terminate(Emit(bs, rhs, <<Store(Top.slot, IMM(IF and THEN 0 ELSE 1))>>),
                 curr,
                 IF and THEN BranchIfZero(lhs, rhs, join)
                        ELSE BranchIfZero(lhs, join, rhs))
  /\ val_stack' = Pop(val_stack, 1)
  /\ curr' = rhs
  /\ walk' = Push(Pop(walk, 1),
                  Frame("rhs", Top.base, Top.slot, <<join>>, Top.scope))
  /\ UNCHANGED <<next_temp, next_slot, assigned, nodes, program>>

\* AST_LOG_OP, second part: the short-circuit value is stored, the LHS decides
\* whether the block of the RHS runs.
FinishLhs ==
  LET rhs  == Len(blocks) + 1
      join == Len(blocks) + 2
      lhs  == Last(val_stack)
      bs   == blocks \o <<NewBlock, NewBlock>>
      and  == Top.at = "and_lhs"
  IN
  /\ ExprDone /\ Top.at \in {"and_lhs", "or_lhs"}
  /\ blocks' =
       Terminate(Emit(bs, curr, <<Store(Top.slot, IMM(IF and THEN 0 ELSE 1))>>),
                 curr,
                 IF and THEN BranchIfZero(lhs, rhs, join)
                        ELSE BranchIfZero(lhs, join, rhs))
  /\ val_stack' = Pop(val_stack, 1)
  /\ curr' = rhs
  /\ walk' = Push(Pop(walk, 1),
                  Frame("rhs", Top.base, Top.slot, <<join>>, Top.scope))
  /\ UNCHANGED <<next_temp, next_slot, assigned, nodes, program>>

\* Mutant: the comparison, not the slot, is the result.
FinishRhs_mutant ==
  LET join == Top.to[1]
      bs   == Emit(blocks, curr, <<CmpOp(next_temp, Last(val_stack), IMM(0)),
                                   Store(Top.slot, TEMP(next_temp))>>)
  IN
  /\ ExprDone /\ Top.at = "rhs"
  /\ blocks' = JumpIfOpen(bs, curr, join)
  /\ val_stack' = Push(Pop(val_stack, 1), TEMP(next_temp))
  /\ next_temp' = next_temp + 1
  /\ curr' = join
  /\ walk' = Pop(walk, 1)
  /\ UNCHANGED <<next_slot, assigned, nodes, program>>

\* AST_LOG_OP, last part: RHS /= 0 is stored, the join block loads the result.
FinishRhs ==
  LET join == Top.to[1]
      bool == next_temp
      bs   == Emit(blocks, curr, <<CmpOp(bool, Last(val_stack), IMM(0)),
                                   Store(Top.slot, TEMP(bool))>>)
  IN
  /\ ExprDone /\ Top.at = "rhs"
  /\ blocks' = Emit(JumpIfOpen(bs, curr, join), join,
                    <<Load(next_temp + 1, Top.slot)>>)
  /\ val_stack' = Push(Pop(val_stack, 1), TEMP(next_temp + 1))
  /\ next_temp' = next_temp + 2
  /\ curr' = join
  /\ walk' = Pop(walk, 1)
  /\ UNCHANGED <<next_slot, assigned, nodes, program>>
-----------------------------------------------------------------------------
\* A statement that begins with n expressions.
BeginStmt(node, at, slot, n) ==
  /\ node \in Nodes
  /\ InStmts /\ Affords(1 + n)
  /\ walk' = Push(walk, Frame(at, Height, slot, <<>>, Top.scope))
  /\ nodes' = nodes + 1
  /\ UNCHANGED <<blocks, curr, val_stack, next_temp, next_slot, assigned, program>>

\* The variable is visible from here on in the enclosing statement list.
Declare(w, s) == [w EXCEPT ![Len(w)].scope = @ \cup {s}]

\* def_assn_post: from here on the variable counts as assigned, whichever
\* branch of an if this is.
assign_variable(s) == assigned' = assigned \cup {s}

\* The names the resolver lets stand on the left of an assignment: variables
\* in sight, parameters excepted.
Assignable == Top.scope \ 0..NumParams - 1

\* Mutant: the value is looked at, not popped.
VarDec_mutant ==
  /\ ExprDone /\ Top.at = "var_dec"
  /\ blocks' = Emit(blocks, curr, <<Store(next_slot, Last(val_stack))>>)
  /\ next_slot' = next_slot + 1
  /\ walk' = Declare(Pop(walk, 1), next_slot)
  /\ assign_variable(next_slot)
  /\ UNCHANGED <<curr, val_stack, next_temp, nodes, program>>

\* mir_gen_post, AST_VAR_DEC with an initialiser
VarDec ==
  /\ ExprDone /\ Top.at = "var_dec"
  /\ blocks' = Emit(blocks, curr, <<Store(next_slot, Last(val_stack))>>)
  /\ val_stack' = Pop(val_stack, 1)
  /\ next_slot' = next_slot + 1
  /\ walk' = Declare(Pop(walk, 1), next_slot)
  /\ assign_variable(next_slot)
  /\ UNCHANGED <<curr, next_temp, nodes, program>>

\* AST_VAR_DEC without one: a value is popped all the same, and stored if an
\* earlier statement has left one.
BareVarDec ==
  /\ "bare declaration" \in Nodes
  /\ InStmts /\ Affords(1)
  /\ IF val_stack = <<>>
       THEN UNCHANGED <<blocks, val_stack>>
       ELSE /\ blocks' = Emit(blocks, curr, <<Store(next_slot, Last(val_stack))>>)
            /\ val_stack' = Pop(val_stack, 1)
  /\ next_slot' = next_slot + 1
  /\ walk' = Declare(walk, next_slot)
  /\ nodes' = nodes + 1
  /\ unclaimed' = IF unclaimed = 0 THEN 0 ELSE unclaimed - 1
  /\ foreign' = (foreign \/ (unclaimed > 0 /\ Height <= walk[1].base))
  /\ UNCHANGED <<curr, next_temp, assigned, funcs>>

\* mir_gen_post, AST_ASSN
Assn ==
  /\ ExprDone /\ Top.at = "assn"
  /\ blocks' = Emit(blocks, curr, <<Store(Top.slot, Last(val_stack))>>)
  /\ val_stack' = Pop(val_stack, 1)
  /\ walk' = Pop(walk, 1)
  /\ assign_variable(Top.slot)
  /\ UNCHANGED <<curr, next_temp, next_slot, nodes, program>>

\* mir_gen_post, AST_EXIT: the terminator is set unconditionally.
Exit ==
  /\ ExprDone /\ Top.at = "exit"
  /\ blocks' = Terminate(blocks, curr, Halt(<<Last(val_stack)>>))
  /\ val_stack' = Pop(val_stack, 1)
  /\ walk' = Pop(walk, 1)
  /\ UNCHANGED <<curr, next_temp, next_slot, assigned, nodes, program>>

\* AST_EXIT without an expression, whatever the function is declared to return
BareExit ==
  /\ "bare return" \in Nodes
  /\ InStmts /\ Affords(1)
  /\ blocks' = Terminate(blocks, curr, Halt(<<>>))
  /\ nodes' = nodes + 1
  /\ UNCHANGED <<curr, val_stack, next_temp, next_slot, walk, assigned, program>>

\* `f(..);' with no argument or one: nobody pops the value of the call.
CallStmt ==
  /\ InExpr /\ Top.at = "call_stmt" /\ Pending = Operands
  /\ val_stack' = Push(Pop(val_stack, Operands), TEMP(next_temp))
  /\ blocks' = Emit(blocks, curr, <<Call(next_temp, Popped(Operands))>>)
  /\ next_temp' = next_temp + 1
  /\ walk' = Pop(walk, 1)
  /\ unclaimed' = unclaimed + 1
  /\ UNCHANGED <<curr, next_slot, assigned, nodes, funcs, foreign>>

\* A block among the statements: a list of statements of its own.
BeginBlock ==
  /\ "AST_BLOCK" \in Nodes
  /\ InStmts /\ Affords(1)
  /\ walk' = Push(walk, Frame("block", Height, NoSlot, <<>>, Top.scope))
  /\ nodes' = nodes + 1
  /\ UNCHANGED <<blocks, curr, val_stack, next_temp, next_slot, assigned, program>>

EndBlock ==
  /\ InStmts /\ Top.at = "block"
  /\ walk' = Pop(walk, 1)
  /\ UNCHANGED <<blocks, curr, val_stack, next_temp, next_slot, assigned, nodes,
                 program>>

\* mir_gen_pre, AST_IF, once the condition is lowered: the blocks are created
\* in the order then, else, join.
If(else) ==
  LET n    == Len(blocks)
      then == n + 1
      join == IF else THEN n + 3 ELSE n + 2
      bs   == blocks \o (IF else THEN <<NewBlock, NewBlock, NewBlock>>
                                 ELSE <<NewBlock, NewBlock>>)
  IN
  /\ ExprDone /\ Top.at = "if"
  /\ blocks' = Terminate(bs, curr, BranchIfZero(Last(val_stack), then, n + 2))
  /\ val_stack' = Pop(val_stack, 1)
  /\ curr' = then
  /\ walk' = Push(Pop(walk, 1),
                  Frame("then_block", Height - 1, NoSlot,
                        IF else THEN <<n + 2, join>> ELSE <<join>>, Top.scope))
  /\ UNCHANGED <<next_temp, next_slot, assigned, nodes, program>>

\* Mutant: the else block is not made the current one.
EndThen_mutant ==
  /\ InStmts /\ Top.at = "then_block" /\ Len(Top.to) = 2
  /\ blocks' = JumpIfOpen(blocks, curr, Top.to[2])
  /\ walk' = [walk EXCEPT ![Len(walk)] =
                [Frame("else_block", Top.base, NoSlot, <<Top.to[2]>>,
                       walk[Len(walk) - 1].scope)
                   EXCEPT !.reached = Open(blocks, curr)]]
  /\ UNCHANGED <<curr, val_stack, next_temp, next_slot, assigned, nodes, program>>

\* The end of the then block of an if that has an else block.
EndThen ==
  /\ InStmts /\ Top.at = "then_block" /\ Len(Top.to) = 2
  /\ blocks' = JumpIfOpen(blocks, curr, Top.to[2])
  /\ curr' = Top.to[1]
  /\ walk' = [walk EXCEPT ![Len(walk)] =
                [Frame("else_block", Top.base, NoSlot, <<Top.to[2]>>,
                       walk[Len(walk) - 1].scope)
                   EXCEPT !.reached = Open(blocks, curr)]]
  /\ UNCHANGED <<val_stack, next_temp, next_slot, assigned, nodes, program>>

\* The end of an if: a join block nobody jumps to is given a terminator.
EndIf ==
  LET join    == Last(Top.to)
      reached == \/ Top.at = "then_block"      \* no else block
                 \/ Top.reached
                 \/ Open(blocks, curr)
      bs      == JumpIfOpen(blocks, curr, join)
  IN
  /\ InStmts /\ Top.at \in {"then_block", "else_block"} /\ Len(Top.to) = 1
  /\ blocks' = IF reached THEN bs ELSE Terminate(bs, join, ImplicitHalt)
  /\ curr' = join
  /\ walk' = Pop(walk, 1)
  /\ UNCHANGED <<val_stack, next_temp, next_slot, assigned, nodes, program>>

\* mir_gen_pre, AST_WHILE, up to the condition.
BeginWhile ==
  LET header == Len(blocks) + 1
      bs     == blocks \o <<NewBlock, NewBlock, NewBlock>>
  IN
  /\ "AST_WHILE" \in Nodes
  /\ InStmts /\ Affords(2)
  /\ blocks' = JumpIfOpen(bs, curr, header)
  /\ curr' = header
  /\ walk' = Push(walk, Frame("while", Height, NoSlot,
                              <<header, header + 1, header + 2>>, Top.scope))
  /\ nodes' = nodes + 1
  /\ UNCHANGED <<val_stack, next_temp, next_slot, assigned, program>>

\* AST_WHILE, once the condition is lowered.
WhileBody ==
  LET loop == Top.to[2]
      join == Top.to[3]
  IN
  /\ ExprDone /\ Top.at = "while"
  /\ blocks' = IF Open(blocks, curr)
                 THEN Terminate(blocks, curr,
                                BranchIfZero(Last(val_stack), loop, join))
                 ELSE blocks
  /\ val_stack' = Pop(val_stack, 1)
  /\ curr' = loop
  /\ walk' = Push(Pop(walk, 1), Frame("loop_block", Height - 1, NoSlot,
                                      <<Top.to[1], join>>, Top.scope))
  /\ UNCHANGED <<next_temp, next_slot, assigned, nodes, program>>

EndWhile ==
  /\ InStmts /\ Top.at = "loop_block"
  /\ blocks' = JumpIfOpen(blocks, curr, Top.to[1])
  /\ curr' = Top.to[2]
  /\ walk' = Pop(walk, 1)
  /\ UNCHANGED <<val_stack, next_temp, next_slot, assigned, nodes, program>>

\* mir_gen_post, AST_FN_DEC: a missing return is supplied.
EndFunction ==
  /\ InStmts /\ Top.at = "fn_block"
  /\ blocks' = IF Open(blocks, curr) THEN Terminate(blocks, curr, ImplicitHalt)
                                     ELSE blocks
  /\ walk' = <<>>
  /\ UNCHANGED <<curr, val_stack, next_temp, next_slot, assigned, nodes, program>>

\* The walk of the program is over.
Finished == ~Running /\ funcs = MaxFunctions /\ UNCHANGED vars

Expression ==
  \/ \E c \in Constants : IntLit(c)
  \/ InExpr /\ \E s \in Top.scope : Name(s)
  \/ Unary
  \/ Binary
  \/ \E k \in Arities : FnCall(k)
  \/ \E at \in {"and_lhs", "or_lhs"} : BeginLogOp(at)
  \/ FinishLhs
  \/ FinishRhs

Statement ==
  \/ BeginStmt("AST_VAR_DEC", "var_dec", NoSlot, 1)
  \/ InStmts /\ \E s \in Assignable : BeginStmt("AST_ASSN", "assn", s, 1)
  \/ BeginStmt("AST_EXIT", "exit", NoSlot, 1)
  \/ \E k \in Arities \cap 0..1 : BeginStmt("call statement", "call_stmt", k, k)
  \/ BeginStmt("AST_IF", "if", NoSlot, 1)
  \/ VarDec \/ BareVarDec \/ Assn \/ Exit \/ BareExit \/ CallStmt
  \/ If(TRUE) \/ If(FALSE) \/ EndThen \/ EndIf
  \/ BeginWhile \/ WhileBody \/ EndWhile
  \/ BeginBlock \/ EndBlock
  \/ EndFunction

Next == Expression \/ Statement \/ BeginFunction \/ Finished

Spec == Init /\ [][Next]_vars
-----------------------------------------------------------------------------
Values   == [kind : {"IRVAL_IMM"}, id : Constants \cup {0, 1}]
              \cup [kind : {"IRVAL_TEMP"}, id : Nat]
BlockIds == 1..Len(blocks)
Insts(b) == DOMAIN blocks[b].insts
InstAt(b, i) == blocks[b].insts[i]

\* The types of the builder's state.
TypeOK ==
  /\ \A b \in BlockIds :
       /\ \A i \in Insts(b) :
            /\ InstAt(b, i).dst \in {NoTemp} \cup 0..next_temp - 1
            /\ InstAt(b, i).slot \in {NoSlot} \cup 0..next_slot
            /\ \A k \in DOMAIN InstAt(b, i).args : InstAt(b, i).args[k] \in Values
       /\ \A k \in DOMAIN blocks[b].term.to : blocks[b].term.to[k] \in BlockIds
  /\ curr \in BlockIds
  /\ \A k \in 1..Height : val_stack[k] \in Values
  /\ next_temp \in Nat /\ next_slot \in Nat
  /\ \A f \in DOMAIN walk : /\ walk[f].base \in Nat
                            /\ \A k \in DOMAIN walk[f].to : walk[f].to[k] \in BlockIds
  /\ assigned \subseteq 0..next_slot - 1
  /\ nodes \in 0..MaxNodes
  /\ funcs \in 1..MaxFunctions
  /\ unclaimed \in 0..MaxNodes
  /\ foreign \in BOOLEAN

DefinedIn(t, b, n) == \E i \in 1..n : InstAt(b, i).dst = t

ReadsOnly(args, b, n) ==
  \A k \in DOMAIN args :
    args[k].kind = "IRVAL_TEMP" => DefinedIn(args[k].id, b, n)

\* Every temp an instruction or a terminator reads is defined earlier in the
\* same block: the passes behind the generator treat a block as if nothing
\* but slots survived from one block to the next.
UsesAreLocal ==
  \A b \in BlockIds :
    /\ \A i \in Insts(b) : ReadsOnly(InstAt(b, i).args, b, i - 1)
    /\ ReadsOnly(blocks[b].term.args, b, Len(blocks[b].insts))

\* What instruction i of block b reads; the terminator comes after the last.
ArgsAt(b, i) == IF i \in Insts(b) THEN InstAt(b, i).args ELSE blocks[b].term.args
Places(b) == 1..Len(blocks[b].insts) + 1

\* The positions of val_stack above what earlier functions have left.
OwnValues == IF Running THEN walk[1].base + 1..Height ELSE {}

DefinedHere(t) == \E b \in BlockIds : DefinedIn(t, b, Len(blocks[b].insts))

\* No temp is defined twice, none is read twice, and none that has been read
\* is still on the stack: a live range is one definition and one use.  Not so
\* in a function that has taken a value an earlier one has left behind.
TempsAreUsedOnce ==
  ~foreign => \A b, c \in BlockIds : \A i \in Places(b), j \in Places(c) :
    /\ b # c \/ i # j =>
         /\ i \in Insts(b) /\ j \in Insts(c) /\ InstAt(b, i).dst # NoTemp
              => InstAt(b, i).dst # InstAt(c, j).dst
         /\ \A k \in DOMAIN ArgsAt(b, i), l \in DOMAIN ArgsAt(c, j) :
              ArgsAt(b, i)[k].kind = "IRVAL_TEMP"
                => ArgsAt(b, i)[k] # ArgsAt(c, j)[l]
    /\ \A k \in DOMAIN ArgsAt(b, i), l \in OwnValues :
         ArgsAt(b, i)[k].kind = "IRVAL_TEMP" => ArgsAt(b, i)[k] # val_stack[l]

\* When a statement begins or ends, the only values of expressions left over
\* are those of call statements, of this function or an earlier one, that no
\* bare declaration has taken since (lower_stmt's commented-out assertion says
\* there are none; "I have no idea why", says the comment).
StatementsBalanceTheStack == InStmts => Height = unclaimed

\* The value stack belongs to the builder, not to the function.  Even so, the
\* temps a function reads are its own, unless one of its bare declarations has
\* popped what a call statement of an earlier function left.
FunctionsAreSelfContained ==
  Running /\ ~foreign =>
    /\ \A b \in BlockIds : \A i \in Places(b) : \A k \in DOMAIN ArgsAt(b, i) :
         ArgsAt(b, i)[k].kind = "IRVAL_TEMP" => DefinedHere(ArgsAt(b, i)[k].id)
    /\ \A l \in OwnValues :
         val_stack[l].kind = "IRVAL_TEMP" => DefinedHere(val_stack[l].id)

\* A block without a terminator is the current one or one that an unfinished
\* node is still going to fill, so in the end every block has a terminator
\* (which the LIR generator asserts).
OpenBlocksAreAwaited ==
  \A b \in BlockIds :
    Open(blocks, b) => /\ Running
                       /\ \/ b = curr
                          \/ \E f \in DOMAIN walk :
                               \E k \in DOMAIN walk[f].to : walk[f].to[k] = b

Succs(b) == {blocks[b].term.to[k] : k \in DOMAIN blocks[b].term.to}

\* Blocks reached from the entry through blocks of S only.
ReachedThrough(S) ==
  LET grow[n \in Nat] ==
        IF n = 0 THEN {1}
        ELSE LET r == grow[n - 1] IN r \cup UNION {Succs(b) : b \in r \cap S}
  IN grow[Len(blocks)]

ReturnsEarly == \E b \in BlockIds \ {curr} : blocks[b].term.type = "IR_HALT"

\* As long as no return statement leaves the function early, no code is dead:
\* whatever blocks are created get connected.
NoDeadBlocks ==
  ~Running /\ ~ReturnsEarly => ReachedThrough(BlockIds) = BlockIds

StoresBefore(b, n, s) ==
  \E i \in 1..n : InstAt(b, i).type = "IR_STORE" /\ InstAt(b, i).slot = s

\* On every path to a load of a slot, a store to it comes first: the variable
\* is initialised, and the result of a short-circuit operator is in its slot
\* whichever side decided it.
LoadsFollowStores ==
  ~Running =>
    \A s \in 0..next_slot - 1 :
      LET silent == {b \in BlockIds : ~StoresBefore(b, Len(blocks[b].insts), s)}
      IN \A b \in ReachedThrough(silent) : \A i \in Insts(b) :
           InstAt(b, i).type = "IR_LOAD" /\ InstAt(b, i).slot = s
             => StoresBefore(b, i - 1, s)

\* A block that control has left by a jump or a branch is never touched again,
\* so what is appended to or put in place of the end of a block comes before
\* everything that runs after it.
LeftBlocksStay ==
  [][Running => \A b \in BlockIds :
       blocks[b].term.to # <<>> => blocks'[b] = blocks[b]]_vars

\* "no instructions allowed after exit" (ir_types.h): a block that ends in a
\* return is left alone from then on.
NothingAfterExit ==
  [][\A b \in BlockIds :
       blocks[b].term.type = "IR_HALT" => blocks'[b] = blocks[b]]_vars
=============================================================================
