------------------------------- MODULE Parser -------------------------------
(***************************************************************************)
(* The parser (parser.c): a recursive descent over the tokens, with a      *)
(* Pratt loop for expressions, and its recovery from syntax errors.  The   *)
(* recursion is a stack of frames, one for each parse function that waits  *)
(* for another; `at' is where it goes on.                                  *)
(*                                                                         *)
(* The text is any sequence of up to MaxTokens tokens, made up as it is    *)
(* read: the parser never looks further than the token after the current   *)
(* one and never back.  Of an AST node only what the properties are about  *)
(* is kept.                                                                *)
(***************************************************************************)
EXTENDS Integers, Sequences

CONSTANTS
  Tokens,     \* the kinds of tokens of the text, TOK_EOF excepted
  MaxTokens   \* length of the text

\* One kind stands for all those the parser treats alike: MULT for DIV,
\* LESS_THAN for the three other orders, EQQ for NEQ, INT_LITERAL.
TokenKinds == {"IF", "ELSE", "WHILE", "FN", "RETURN", "INT", "VOID", "IDENTIFIER",
               "INT_LITERAL", "CUR_BRACK_START", "CUR_BRACK_END", "PAREN_START",
               "PAREN_END", "SEMICOLON", "COLON", "COMMA", "PLUS", "MINUS", "MULT",
               "EQ", "EQQ", "LESS_THAN", "AND", "OR", "NOT"}

ASSUME Bounds == Tokens \subseteq TokenKinds /\ MaxTokens \in Nat

VARIABLES
  token_index,  \* the tokens consumed so far
  current,      \* current(parser)
  next,         \* what can be told of next(parser): see Seen
  stack,        \* the parse functions under way, innermost last
  node,         \* what the last of them to finish has returned
  errors,       \* are there messages in error_list or diags
  crashed,      \* has a member of a NULL node been read
  nest,         \* ghost: the brackets consumed and not yet closed
  odd           \* ghost: has something else been taken for a name or a type

text == <<token_index, current, next, nest>>
vars == <<text, stack, node, errors, crashed, odd>>

\* An expression node: how tightly its operator binds, and those of its two
\* operands; of a call, the kind of node that is called.
Tight == 25
Node(kind)        == [kind |-> kind, prec |-> Tight, lhs |-> Tight, rhs |-> Tight,
                      callee |-> "none"]
CallNode(callee)  == [Node("AST_FN_CALL") EXCEPT !.callee = callee.kind]
BinOp(prec, l, r) == [Node("AST_BIN_OP") EXCEPT !.prec = prec, !.lhs = l.prec,
                                                !.rhs = r.prec]
Operand(n) == [Node(n.kind) EXCEPT !.callee = n.callee]
Null     == Node("NULL")
Error    == Node("AST_ERROR")
Nothing  == Node("none")

\* is_infix and precedence
precedence == [MULT |-> 20, PLUS |-> 19, MINUS |-> 19, LESS_THAN |-> 18, EQQ |-> 17,
               AND |-> 16, OR |-> 15]

\* A frame; min is the least precedence of an expression's operators, op that
\* of the operator it waits with, lhs what it has parsed.
Frame(at, min, lhs) == [at |-> at, min |-> min, op |-> 0, lhs |-> lhs]
Plain(at) == Frame(at, 0, Nothing)

Last(s)    == s[Len(s)]
Push(s, f) == Append(s, f)
Popped     == SubSeq(stack, 1, Len(stack) - 1)
Top        == Last(stack)
Running    == stack # <<>> /\ ~crashed
At(places) == Running /\ Top.at \in places
Goto(at)   == [stack EXCEPT ![Len(stack)].at = at]

\* parse_expr begins with parse_prefix, and goes on with its result.
CallExpr(s, min) == s \o <<Frame("lhs", min, Nothing), Plain("prefix")>>
-----------------------------------------------------------------------------
\* What stands in place n of the text, and what the parser can tell of a token
\* it has not come to: it is one of the four that it ever looks ahead for.
TokensAt(n) == IF n > MaxTokens THEN {"TOK_EOF"} ELSE Tokens \cup {"TOK_EOF"}
Seen(t)     == IF t \in {"EQ", "IDENTIFIER", "PAREN_START", "PAREN_END"} THEN t
               ELSE "another"
Ahead(t, n) == IF t = "TOK_EOF" THEN {"another"} ELSE {Seen(u) : u \in TokensAt(n)}

Closes == [PAREN_END |-> "PAREN_START", CUR_BRACK_END |-> "CUR_BRACK_START"]

\* token_index++ at a token that is not the last.
Move ==
  /\ token_index' = token_index + 1
  /\ current' \in {t \in TokensAt(token_index + 2) : Seen(t) = next}
  /\ next' \in Ahead(current', token_index + 3)
  /\ nest' = IF errors THEN <<>>
             ELSE IF current \in {"PAREN_START", "CUR_BRACK_START"} THEN Append(nest, current)
             ELSE IF current \notin DOMAIN Closes THEN nest
             ELSE IF nest # <<>> /\ Last(nest) = Closes[current]
                    THEN SubSeq(nest, 1, Len(nest) - 1)
             ELSE Append(nest, current)

Stay    == UNCHANGED text
advance == IF current = "TOK_EOF" THEN Stay ELSE Move

starts_stmt == \/ current \in {"IF", "WHILE", "RETURN"}
               \/ current = "IDENTIFIER" /\ next \in {"EQ", "PAREN_START"}

Report   == errors' = TRUE
Crash    == crashed' = TRUE /\ UNCHANGED <<text, stack, node, errors, odd>>
NoCrash  == UNCHANGED crashed
Quiet    == UNCHANGED <<errors, crashed, odd>>
Return(n) == stack' = Popped /\ node' = n
SyncAfter(s) == Push(s, Plain("sync"))

Init ==
  /\ token_index = 0
  /\ current \in TokensAt(1)
  /\ next \in Ahead(current, 2)
  /\ stack = <<Plain("program")>>
  /\ node = Nothing
  /\ errors = FALSE /\ crashed = FALSE
  /\ nest = <<>> /\ odd = FALSE

\* sync_to_boundary, one round of the loop
Sync ==
  /\ At({"sync"})
  /\ IF \/ current \in {"TOK_EOF", "CUR_BRACK_START", "CUR_BRACK_END"}
        \/ starts_stmt
       THEN stack' = Popped /\ Stay
       ELSE /\ stack' = IF current = "SEMICOLON" THEN Popped ELSE stack
            /\ Move
  /\ UNCHANGED node /\ Quiet

\* expect_semicolon_or_recover, one round of the loop
Skip ==
  /\ At({"skip"})
  /\ stack' = IF current \in {"TOK_EOF", "SEMICOLON"} THEN Popped ELSE stack
  /\ advance
  /\ UNCHANGED node /\ Quiet
-----------------------------------------------------------------------------
\* parse_item_list: the tokens a parse function of its own is called for.
Starts == [t \in {"INT", "FN", "RETURN", "IF", "WHILE", "IDENTIFIER", "CUR_BRACK_START"} |->
             CASE t = "INT"             -> "int_name"
               [] t = "FN"              -> "fn_name"
               [] t = "RETURN"          -> "return"
               [] t = "IF"              -> "if_paren"
               [] t = "WHILE"           -> "while_paren"
               [] t = "IDENTIFIER"      -> "assn_eq"
               [] t = "CUR_BRACK_START" -> "block"]
Needs  == [INT |-> "IDENTIFIER", IDENTIFIER |-> "EQ"]

InItems == \/ At({"program"}) /\ current # "TOK_EOF"
           \/ At({"block"}) /\ current \notin {"TOK_EOF", "CUR_BRACK_END"}
CallAhead == current = "IDENTIFIER" /\ next = "PAREN_START"

BeginItem ==
  /\ InItems /\ current \in DOMAIN Starts
  /\ current \in DOMAIN Needs => next = Needs[current]
  /\ stack' = Push(stack, Plain(Starts[current]))
  /\ Move
  /\ UNCHANGED node /\ Quiet

BeginCallStmt ==
  /\ InItems /\ CallAhead
  /\ stack' = CallExpr(Push(stack, Plain("call_stmt")), 0)
  /\ Stay
  /\ UNCHANGED node /\ Quiet

\* "Expected 'IDENTIFIER' after 'int'."
BadInt ==
  /\ InItems /\ current = "INT" /\ next # "IDENTIFIER"
  /\ stack' = Push(stack, Plain("skip"))
  /\ Report
  /\ Stay
  /\ UNCHANGED <<node, crashed, odd>>

\* Mutant: the token stays where it is.
Unexpected_mutant ==
  /\ InItems /\ ~CallAhead
  /\ \/ current \notin DOMAIN Starts
     \/ current = "IDENTIFIER" /\ next # "EQ"
  /\ Report
  /\ Stay
  /\ UNCHANGED <<stack, node, crashed, odd>>

\* "Unexpected token."
Unexpected ==
  /\ InItems /\ ~CallAhead
  /\ \/ current \notin DOMAIN Starts
     \/ current = "IDENTIFIER" /\ next # "EQ"
  /\ Report
  /\ Move
  /\ UNCHANGED <<stack, node, crashed, odd>>

\* The end of parse_block_node, and of build_ast
EndItems ==
  \/ /\ At({"block"}) /\ current = "CUR_BRACK_END"
     /\ Return(Node("AST_BLOCK"))
     /\ Move
     /\ Quiet
  \/ /\ At({"block"}) /\ current = "TOK_EOF"
     /\ Return(Node("AST_BLOCK"))
     /\ Report
     /\ UNCHANGED <<text, crashed, odd>>
  \/ /\ At({"program"}) /\ current = "TOK_EOF"
     /\ Return(Node("AST_PROGRAM"))
     /\ UNCHANGED text /\ Quiet
-----------------------------------------------------------------------------
\* parse_int_decl and parse_assn up to the expression; the tokens that are
\* consumed unseen have been looked at by parse_item_list.
IntName ==
  /\ At({"int_name"})
  /\ stack' = Goto("int_init")
  /\ Move
  /\ UNCHANGED node /\ Quiet

IntInit ==
  /\ At({"int_init"})
  /\ \/ /\ current = "EQ"
        /\ stack' = CallExpr(Goto("int_end"), 0)
        /\ Move
        /\ UNCHANGED node /\ Quiet
     \/ /\ current = "SEMICOLON"
        /\ stack' = Goto("int_end")
        /\ Stay
        /\ UNCHANGED node /\ Quiet
     \/ /\ current \notin {"EQ", "SEMICOLON"}
        /\ stack' = Push(Popped, Plain("skip"))
        /\ node' = Error
        /\ Report
        /\ Stay
        /\ UNCHANGED <<crashed, odd>>

AssnEq ==
  /\ At({"assn_eq"})
  /\ stack' = CallExpr(Goto("assn_end"), 0)
  /\ Move
  /\ UNCHANGED node /\ Quiet

Terminated == [int_end |-> "AST_VAR_DEC", assn_end |-> "AST_ASSN"]

\* The semicolon: without it the node is an error, and the text goes on here.
EndDecl ==
  /\ At(DOMAIN Terminated)
  /\ IF current = "SEMICOLON"
       THEN Return(Node(Terminated[Top.at])) /\ Move /\ Quiet
       ELSE Return(Error) /\ Stay /\ Report /\ UNCHANGED <<crashed, odd>>

BeginReturn ==
  /\ At({"return"})
  /\ IF current = "SEMICOLON"
       THEN Return(Node("AST_EXIT")) /\ Move
       ELSE /\ stack' = CallExpr(Goto("return_end"), 0)
            /\ UNCHANGED <<text, node>>
  /\ Quiet

\* expect_token(SEMICOLON) after a call; parse_return first looks at the
\* expression, whatever parse_expr has returned.
EndStmt ==
  /\ At({"return_end", "call_stmt"})
  /\ IF Top.at = "return_end" /\ node = Null THEN Crash
     ELSE /\ node' = IF Top.at = "call_stmt" THEN node ELSE Node("AST_EXIT")
          /\ IF current = "SEMICOLON"
               THEN stack' = Popped /\ Move /\ Quiet
               ELSE stack' = SyncAfter(Popped) /\ Stay /\ Report /\ UNCHANGED <<crashed, odd>>
-----------------------------------------------------------------------------
\* expect_token on the way through if, while and fn: the token there must be,
\* and where it goes on, with or without it.
Expects ==
  [if_paren    |-> [kind |-> "PAREN_START",     then |-> "if_cond"],
   if_close    |-> [kind |-> "PAREN_END",       then |-> "if_brace"],
   if_brace    |-> [kind |-> "CUR_BRACK_START", then |-> "if_then"],
   else_brace  |-> [kind |-> "CUR_BRACK_START", then |-> "else_body"],
   while_paren |-> [kind |-> "PAREN_START",     then |-> "while_cond"],
   while_close |-> [kind |-> "PAREN_END",       then |-> "while_brace"],
   while_brace |-> [kind |-> "CUR_BRACK_START", then |-> "while_body"],
   fn_paren    |-> [kind |-> "PAREN_START",     then |-> "fn_open"],
   fn_brace    |-> [kind |-> "CUR_BRACK_START", then |-> "fn_body"]]

\* Mutant: it is not reported.
ExpectToken_mutant ==
  LET e == Expects[Top.at] IN
  /\ At(DOMAIN Expects)
  /\ IF current = e.kind
       THEN stack' = Goto(e.then) /\ Move /\ UNCHANGED node
       ELSE /\ IF Top.at \in {"while_paren", "fn_paren"}
                 THEN stack' = SyncAfter(Popped) /\ node' = Null
                 ELSE stack' = SyncAfter(Goto(e.then)) /\ UNCHANGED node
            /\ Stay
  /\ Quiet

ExpectToken ==
  LET e == Expects[Top.at] IN
  /\ At(DOMAIN Expects)
  /\ IF current = e.kind
       THEN stack' = Goto(e.then) /\ Move /\ UNCHANGED node /\ Quiet
       ELSE /\ IF Top.at \in {"while_paren", "fn_paren"}
                 THEN stack' = SyncAfter(Popped) /\ node' = Null
                 ELSE stack' = SyncAfter(Goto(e.then)) /\ UNCHANGED node
            /\ Report
            /\ Stay
            /\ UNCHANGED <<crashed, odd>>

Conditions == [if_cond |-> "if_close", while_cond |-> "while_close"]
Bodies     == [if_then |-> "if_else", else_body |-> "if_end", while_body |-> "while_end",
               fn_body |-> "fn_end"]
Compounds  == [if_end |-> "AST_IF", while_end |-> "AST_WHILE", fn_end |-> "AST_FN_DEC"]

BeginPart ==
  /\ \/ At(DOMAIN Conditions) /\ stack' = CallExpr(Goto(Conditions[Top.at]), 0)
     \/ At(DOMAIN Bodies) /\ stack' = Push(Goto(Bodies[Top.at]), Plain("block"))
  /\ Stay
  /\ UNCHANGED node /\ Quiet

Else ==
  /\ At({"if_else"})
  /\ IF current = "ELSE" THEN stack' = Goto("else_brace") /\ Move
                         ELSE stack' = Goto("if_end") /\ Stay
  /\ UNCHANGED node /\ Quiet

EndCompound ==
  /\ At(DOMAIN Compounds)
  /\ Return(Node(Compounds[Top.at]))
  /\ Stay
  /\ Quiet
-----------------------------------------------------------------------------
\* parse_fn_decl and parse_parameter_list take whatever stands there for a
\* name or a type.
Taken(kinds) == odd' = (~errors /\ (odd \/ current \notin kinds))
Types == {"INT", "VOID"}

FnPart ==
  /\ \/ /\ At({"fn_name"})
        /\ stack' = Goto("fn_paren")
        /\ advance /\ Taken({"IDENTIFIER"})
     \* after the '(': it is the token after the next that is compared with ')'
     \/ /\ At({"fn_open"})
        /\ stack' = Goto(IF next = "PAREN_END" THEN "fn_ret" ELSE "fn_params")
        /\ Stay /\ UNCHANGED odd
     \/ /\ At({"fn_params"}) /\ current # "PAREN_END"
        /\ stack' = Goto("fn_param_name")
        /\ advance /\ Taken(Types)
     \/ /\ At({"fn_param_name"})
        /\ stack' = Goto("fn_param_end")
        /\ advance /\ Taken({"IDENTIFIER"})
     \/ /\ At({"fn_param_end"}) /\ current = "COMMA"
        /\ stack' = Goto("fn_params")
        /\ Move /\ UNCHANGED odd
     \/ /\ At({"fn_param_end"}) /\ current = "PAREN_END"
        /\ stack' = Goto("fn_close")
        /\ Stay /\ UNCHANGED odd
     \/ /\ At({"fn_close", "fn_params"})
        /\ Top.at = "fn_params" => current = "PAREN_END"
        /\ stack' = Goto("fn_ret")
        /\ advance /\ UNCHANGED odd
     \/ /\ At({"fn_ret"}) /\ current = "COLON"
        /\ stack' = Goto("fn_type")
        /\ Move /\ UNCHANGED odd
     \/ /\ At({"fn_ret"}) /\ current # "COLON"
        /\ stack' = Goto("fn_brace")
        /\ Stay /\ UNCHANGED odd
     \/ /\ At({"fn_type"})
        /\ stack' = Goto("fn_brace")
        /\ advance /\ Taken(Types)
  /\ UNCHANGED <<node, errors, crashed>>

\* "Expected ',' or ')'"
BadParam ==
  /\ At({"fn_param_end"}) /\ current \notin {"COMMA", "PAREN_END"}
  /\ stack' = SyncAfter(Goto("fn_close"))
  /\ Report
  /\ Stay
  /\ UNCHANGED <<node, crashed, odd>>
-----------------------------------------------------------------------------
Leaves == [INT_LITERAL |-> "AST_INT_LIT", IDENTIFIER |-> "AST_NAME"]

\* parse_prefix and parse_primary
Prefix ==
  /\ At({"prefix"})
  /\ \/ /\ current \in {"MINUS", "NOT"}
        /\ stack' = Push(Goto("unary"), Plain("prefix"))
        /\ Move /\ UNCHANGED <<node, errors>>
     \/ /\ current \in DOMAIN Leaves
        /\ Return(Node(Leaves[current]))
        /\ Move /\ UNCHANGED errors
     \/ /\ current = "PAREN_START"
        /\ stack' = CallExpr(Goto("paren"), 0)
        /\ Move /\ UNCHANGED <<node, errors>>
     \/ /\ current \notin {"MINUS", "NOT", "PAREN_START"} \cup DOMAIN Leaves
        /\ Return(Error)
        /\ Stay /\ Report
  /\ UNCHANGED <<crashed, odd>>

\* The span of the operand is read.
Unary ==
  /\ At({"unary"})
  /\ IF node = Null THEN Crash
     ELSE Return(Node("AST_UNARY_OP")) /\ Stay /\ Quiet

\* Mutant: the parenthesis is not waited for.
Paren_mutant ==
  /\ At({"paren"})
  /\ Return(Operand(node))
  /\ IF current = "PAREN_END" THEN Move ELSE Stay
  /\ Quiet

\* Nothing is left of the parentheses but that what was in them is one operand.
Paren ==
  /\ At({"paren"})
  /\ Return(Operand(node))
  /\ IF current = "PAREN_END" THEN Move /\ Quiet
                              ELSE Stay /\ Report /\ UNCHANGED <<crashed, odd>>

\* parse_expr: what parse_prefix has returned
Lhs ==
  /\ At({"lhs"})
  /\ \/ node = Null /\ Crash
     \/ node = Error /\ Return(Null) /\ Stay /\ Quiet
     \/ /\ node \notin {Null, Error}
        /\ stack' = [stack EXCEPT ![Len(stack)].at = "loop", ![Len(stack)].lhs = node]
        /\ Stay /\ UNCHANGED node /\ Quiet

\* The loops of parse_postfix and parse_expr go on with a new left-hand side.
Grown(lhs) == [stack EXCEPT ![Len(stack)].at = "loop", ![Len(stack)].lhs = lhs]

BeginCall ==
  /\ At({"loop"}) /\ current = "PAREN_START"
  /\ stack' = Goto("args")
  /\ Move
  /\ UNCHANGED node /\ Quiet

Arg ==
  /\ \/ At({"args"}) /\ current # "PAREN_END" /\ stack' = CallExpr(Goto("arg_end"), 0) /\ Stay
     \/ At({"arg_end"}) /\ current = "COMMA" /\ stack' = CallExpr(stack, 0) /\ Move
  /\ UNCHANGED node /\ Quiet

EndCall ==
  \/ /\ At({"args", "arg_end"}) /\ current = "PAREN_END"
     /\ stack' = Grown(CallNode(Top.lhs))
     /\ Move
     /\ UNCHANGED node /\ Quiet
  \/ /\ At({"arg_end"}) /\ current \notin {"COMMA", "PAREN_END"}
     /\ stack' = SyncAfter(Grown(CallNode(Top.lhs)))
     /\ Report
     /\ Stay
     /\ UNCHANGED <<node, crashed, odd>>

InfixAhead == current \in DOMAIN precedence /\ precedence[current] >= Top.min

\* Mutant: operators of one precedence group to the right.
Infix_mutant ==
  LET op == precedence[current] IN
  /\ At({"loop"}) /\ InfixAhead
  /\ stack' = CallExpr([Goto("rhs") EXCEPT ![Len(stack)].op = op], op)
  /\ Move
  /\ UNCHANGED node /\ Quiet

Infix ==
  LET op == precedence[current] IN
  /\ At({"loop"}) /\ InfixAhead
  /\ stack' = CallExpr([Goto("rhs") EXCEPT ![Len(stack)].op = op], op + 1)
  /\ Move
  /\ UNCHANGED node /\ Quiet

\* The kind of the right-hand side is read.
Rhs ==
  /\ At({"rhs"})
  /\ IF node = Null THEN Crash
     ELSE /\ stack' = Grown(BinOp(Top.op, Top.lhs, node))
          /\ Stay
          /\ UNCHANGED node /\ Quiet

EndExpr ==
  /\ At({"loop"}) /\ current # "PAREN_START" /\ ~InfixAhead
  /\ Return(Top.lhs)
  /\ Stay
  /\ Quiet

Over == ~Running /\ UNCHANGED vars

Next ==
  \/ Sync \/ Skip
  \/ BeginItem \/ BeginCallStmt \/ BadInt \/ Unexpected \/ EndItems
  \/ IntName \/ IntInit \/ AssnEq \/ EndDecl \/ BeginReturn \/ EndStmt
  \/ ExpectToken \/ BeginPart \/ Else \/ EndCompound
  \/ FnPart \/ BadParam
  \/ Prefix \/ Unary \/ Paren \/ Lhs \/ BeginCall \/ Arg \/ EndCall
  \/ Infix \/ Rhs \/ EndExpr
  \/ Over

\* The parser runs on its own: it makes its next step.
Spec == Init /\ [][Next]_vars /\ WF_vars(Next)
-----------------------------------------------------------------------------
\* Every text is parsed to its end, or the parser is killed on the way: each
\* error path consumes a token or leaves the loop it is in, TOK_EOF included.
ParserTerminates == <>(stack = <<>> \/ crashed)

\* As long as nothing is reported, no node is NULL or an error, and none that
\* is NULL is looked into: a program without syntax errors does not bring the
\* parser down and its AST is whole, which is all the passes behind rely on.
WholeUntilReported == ~errors => ~crashed /\ node \notin {Null, Error}

\* Operators bind by their precedence and group to the left: a - b - c is
\* (a - b) - c, whatever unary operators, calls and parentheses are around.
OperatorsGroup ==
  node.prec < Tight => node.lhs >= node.prec /\ node.rhs > node.prec

\* In an accepted text (with names for names and types for types) every bracket
\* has its match.
BracketsMatch == stack = <<>> /\ ~errors /\ ~odd => nest = <<>>

\* "callee;  // AST_NAME/VarName" (ast.h): what is called in an accepted
\* program is a name, which the resolver reads without looking at its kind.
CalleesAreNames == ~errors /\ node.kind = "AST_FN_CALL" => node.callee = "AST_NAME"
=============================================================================
