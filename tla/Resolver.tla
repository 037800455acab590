------------------------------ MODULE Resolver ------------------------------
(***************************************************************************)
(* The resolver (scope.c) and the definite-assignment pass (def_assn.c).   *)
(* Both walk the AST with walk_node, in the same order, and the second     *)
(* looks at nothing but what the first has left in the nodes it has        *)
(* already met; so they are walked side by side here, and the verdict of   *)
(* the second counts only if the first has reported nothing (main.c).      *)
(*                                                                         *)
(* The functions' heads are there from the start, because the resolver     *)
(* reads them all before anything else; what is in their bodies is         *)
(* discovered node by node.  An expression is the names and calls in it,   *)
(* in the order of the walk.  Symbol s here has id s - 1.                  *)
(***************************************************************************)
EXTENDS Integers, Sequences, FiniteSets

CONSTANTS
  Names,         \* the names of functions, parameters and variables
  FnNames,       \* those functions may have
  VarNames,      \* those variables may have
  ParamLists,    \* the parameter lists functions may have
  Arities,       \* numbers of arguments at a call
  MaxFunctions,  \* functions declared
  MaxNodes,      \* nodes walked in all
  TopLevel       \* may there be statements outside functions

ASSUME Bounds == /\ FnNames \subseteq Names
                 /\ VarNames \subseteq Names
                 /\ ParamLists \subseteq Seq(Names)
                 /\ Arities \subseteq Nat
                 /\ MaxFunctions \in Nat
                 /\ MaxNodes \in Nat
                 /\ TopLevel \in BOOLEAN

VARIABLES
  decls,      \* the top-level functions, in the order of the text
  symbols,    \* semantics->name_resolution: the symbols by id
  scopes,     \* resolver->scope and its parents, innermost last
  use,        \* ghost: the name looked up last, the symbol found, and where
  reported,   \* has the resolver reported an error
  assigned,   \* defassn->assigned: the symbols whose bit is set
  refused,    \* has the definite-assignment pass reported an error
  definite,   \* ghost: symbols assigned on every path to this point
  arms,       \* ghost: symbols assigned in an arm or a loop body that is over
  walk,       \* the unfinished nodes, outermost first
  nodes,      \* nodes walked, bounded by MaxNodes
  aborted     \* has an assertion failed

scoping == <<symbols, scopes, use, reported>>
assigning == <<assigned, refused, definite, arms>>
vars == <<decls, scoping, assigning, walk, nodes, aborted>>

Sets == INSTANCE FiniteSetsExt

None == 0
Symbol(name, kind, params, fn) ==
  [name |-> name, kind |-> kind, params |-> params, fn |-> fn]
DeclType == [name : FnNames, params : ParamLists]
Frame(at, sym, entry) == [at |-> at, sym |-> sym, entry |-> entry]

Push(s, x) == Append(s, x)
Pop(s)     == SubSeq(s, 1, Len(s) - 1)
Top        == walk[Len(walk)]
Running    == walk # <<>> /\ ~aborted
Replace(f) == [walk EXCEPT ![Len(walk)] = f]

StmtFrames == {"block"} \cup (IF TopLevel THEN {"program"} ELSE {})
ExprFrames == {"var_dec", "assn", "exit", "expr_stmt", "if_cond", "loop_cond"}
InStmts    == Running /\ Top.at \in StmtFrames
InExpr     == Running /\ Top.at \in ExprFrames
Affords    == nodes < MaxNodes

\* The function the walk is in, 0 outside.
ThisFn == IF Len(walk) > 1 /\ walk[2].at \in {"fn", "fn_body"} THEN walk[1].sym - 1
          ELSE 0
-----------------------------------------------------------------------------
\* get_symbol: the list of a scope has its latest symbol at the head, and ids
\* only go up, so the first match is the greatest.

get_symbol(syms, scope, n) ==
  LET found == {s \in scope : syms[s].name = n} IN
  IF found = {} THEN None ELSE Sets!Max(found)

\* The loops over scope->parent, from the scope at depth d outwards.

\* Mutant: the outermost scope wins.
look_up_mutant(syms, scs, d, n) ==
  LET found == {c \in 1..d : get_symbol(syms, scs[c], n) # None} IN
  IF found = {} THEN None
  ELSE get_symbol(syms, scs[Sets!Min(found)], n)

look_up(syms, scs, d, n) ==
  LET found == {c \in 1..d : get_symbol(syms, scs[c], n) # None} IN
  IF found = {} THEN None
  ELSE get_symbol(syms, scs[Sets!Max(found)], n)

Found(n)           == look_up(symbols, scopes, Len(scopes), n)
symbol_in_scope(n) == \E s \in scopes[Len(scopes)] : symbols[s].name = n

Report(wrong) == reported' = (reported \/ wrong)

Uses(node, s) == use' = [node |-> node, sym |-> s, fn |-> ThisFn]

\* resolver_pre, AST_PROGRAM: collect_global_symbols.  A repeated name is
\* reported and entered all the same.
Init ==
  /\ decls \in UNION {[1..k -> DeclType] : k \in 0..MaxFunctions}
  /\ symbols = [i \in 1..Len(decls) |->
                  Symbol(decls[i].name, "SYM_FN", Len(decls[i].params), 0)]
  /\ scopes = <<1..Len(decls)>>
  /\ use = [node |-> "none", sym |-> None, fn |-> 0]
  /\ reported = (\/ \E i, j \in 1..Len(decls) : i # j /\ decls[i].name = decls[j].name
                 \/ \A i \in 1..Len(decls) : decls[i].name # "main")
  /\ assigned = {} /\ refused = FALSE
  /\ definite = {} /\ arms = {}
  /\ walk = <<Frame("program", 1, {})>>
  /\ nodes = 0
  /\ aborted = FALSE

\* AST_FN_DEC, both passes: a scope with the parameters, all of them assigned.

\* Mutant: the parameters stay unassigned.
FnDec_mutant ==
  LET i  == walk[1].sym
      ps == Len(symbols) + 1..Len(symbols) + Len(decls[i].params)
  IN
  /\ Running /\ Top.at = "program" /\ i <= Len(decls)
  /\ symbols' = symbols \o [k \in 1..Len(decls[i].params) |->
                              Symbol(decls[i].params[k], "SYM_PARAM", 0, i)]
  /\ scopes' = Push(scopes, ps)
  /\ Report(\E j, k \in 1..Len(decls[i].params) :
              j # k /\ decls[i].params[j] = decls[i].params[k])
  /\ definite' = definite \cup ps
  /\ walk' = <<Frame("program", i + 1, {}), Frame("fn", None, {})>>
  /\ UNCHANGED <<decls, use, assigned, refused, arms, nodes, aborted>>

FnDec ==
  LET i  == walk[1].sym
      ps == Len(symbols) + 1..Len(symbols) + Len(decls[i].params)
  IN
  /\ Running /\ Top.at = "program" /\ i <= Len(decls)
  /\ symbols' = symbols \o [k \in 1..Len(decls[i].params) |->
                              Symbol(decls[i].params[k], "SYM_PARAM", 0, i)]
  /\ scopes' = Push(scopes, ps)
  /\ Report(\E j, k \in 1..Len(decls[i].params) :
              j # k /\ decls[i].params[j] = decls[i].params[k])
  /\ assigned' = assigned \cup ps
  /\ definite' = definite \cup ps
  /\ walk' = <<Frame("program", i + 1, {}), Frame("fn", None, {})>>
  /\ UNCHANGED <<decls, use, refused, arms, nodes, aborted>>

\* AST_FN_DEC elsewhere: nobody has made a symbol for it (assert(fn_sym != NULL)).
NestedFnDec ==
  /\ Running /\ Top.at = "block" /\ Affords
  /\ aborted' = TRUE
  /\ UNCHANGED <<decls, scoping, assigning, walk, nodes>>

\* AST_BLOCK: the body of a function, of an arm or of a loop, or a statement.
Bodies == [fn |-> "fn_body", then |-> "then_body", else |-> "else_body",
           loop |-> "loop_body"]

EnterBlock ==
  /\ \/ /\ Running /\ Top.at \in DOMAIN Bodies
        /\ walk' = Push(Replace([Top EXCEPT !.at = Bodies[Top.at]]),
                        Frame("block", None, {}))
        /\ UNCHANGED nodes
     \/ /\ InStmts /\ Affords
        /\ walk' = Push(walk, Frame("block", None, {}))
        /\ nodes' = nodes + 1
  /\ scopes' = Push(scopes, {})
  /\ UNCHANGED <<decls, symbols, use, reported, assigning, aborted>>

\* resolver_post, AST_BLOCK and AST_FN_DEC
LeaveScope(at) ==
  /\ Running /\ Top.at = at
  /\ scopes' = Pop(scopes)
  /\ walk' = Pop(walk)
  /\ UNCHANGED <<decls, symbols, use, reported, assigning, nodes, aborted>>

\* Mutant: the innermost scope stays.
EndBlock_mutant ==
  /\ Running /\ Top.at = "block"
  /\ walk' = Pop(walk)
  /\ UNCHANGED <<decls, scoping, assigning, nodes, aborted>>

EndBlock == LeaveScope("block")
EndFn    == LeaveScope("fn_body")

\* resolver_post, AST_PROGRAM
EndProgram ==
  /\ Running /\ Top.at = "program" /\ Top.sym > Len(decls)
  /\ scopes' = Pop(scopes)
  /\ walk' = <<>>
  /\ UNCHANGED <<decls, symbols, use, reported, assigning, nodes, aborted>>
-----------------------------------------------------------------------------
\* Mutant: a name of this scope is declared again without a report.
BeginVarDec_mutant(n, initialised) ==
  LET s == Len(symbols) + 1 IN
  /\ InStmts /\ Affords
  /\ symbols' = Push(symbols, Symbol(n, "SYM_VAR", 0, ThisFn))
  /\ scopes' = [scopes EXCEPT ![Len(scopes)] = @ \cup {s}]
  /\ walk' = IF initialised THEN Push(walk, Frame("var_dec", s, {})) ELSE walk
  /\ nodes' = nodes + 1
  /\ UNCHANGED <<decls, use, reported, assigning, aborted>>

\* Mutant: a variable without an initialiser counts as assigned.
BeginVarDec_mutant2(n, initialised) ==
  LET s == Len(symbols) + 1 IN
  /\ InStmts /\ Affords /\ ~symbol_in_scope(n)
  /\ symbols' = Push(symbols, Symbol(n, "SYM_VAR", 0, ThisFn))
  /\ scopes' = [scopes EXCEPT ![Len(scopes)] = @ \cup {s}]
  /\ assigned' = assigned \cup {s}
  /\ walk' = IF initialised THEN Push(walk, Frame("var_dec", s, {})) ELSE walk
  /\ nodes' = nodes + 1
  /\ UNCHANGED <<decls, use, reported, refused, definite, arms, aborted>>

\* AST_VAR_DEC in resolver_pre: the variable is in scope in its initialiser.
\* Of a repeated one nothing is kept.
BeginVarDec(n, initialised) ==
  LET s == Len(symbols) + 1 IN
  /\ InStmts /\ Affords
  /\ Report(symbol_in_scope(n))
  /\ IF symbol_in_scope(n) THEN UNCHANGED <<symbols, scopes>>
     ELSE /\ symbols' = Push(symbols, Symbol(n, "SYM_VAR", 0, ThisFn))
          /\ scopes' = [scopes EXCEPT ![Len(scopes)] = @ \cup {s}]
  /\ walk' = IF ~initialised THEN walk
             ELSE Push(walk, Frame("var_dec", IF symbol_in_scope(n) THEN None ELSE s, {}))
  /\ nodes' = nodes + 1
  /\ UNCHANGED <<decls, use, assigning, aborted>>

\* AST_ASSN in resolver_pre
BeginAssn(n) ==
  LET s == Found(n) IN
  /\ InStmts /\ Affords
  /\ Uses("AST_ASSN", s)
  /\ Report(IF s = None THEN TRUE ELSE symbols[s].kind # "SYM_VAR")
  /\ walk' = Push(walk, Frame("assn", s, {}))
  /\ nodes' = nodes + 1
  /\ UNCHANGED <<decls, symbols, scopes, assigning, aborted>>

\* AST_EXIT, and the conditions of AST_IF and AST_WHILE
BeginExpr(at) ==
  /\ InStmts /\ Affords
  /\ walk' = Push(walk, Frame(at, None, {}))
  /\ nodes' = nodes + 1
  /\ UNCHANGED <<decls, scoping, assigning, aborted>>

\* AST_NAME in resolver_pre, which does not ask what kind of symbol it is, and
\* in def_assn_pre.
Name(n) ==
  LET s == Found(n) IN
  /\ InExpr /\ Affords
  /\ Uses("AST_NAME", s)
  /\ Report(s = None)
  /\ refused' = (refused \/ s \notin assigned)
  /\ nodes' = nodes + 1
  /\ UNCHANGED <<decls, symbols, scopes, assigned, definite, arms, walk, aborted>>

\* AST_FN_CALL in resolver_pre, before its arguments: `print' is built in, gets
\* a new symbol at each call, and may have any number of arguments.
FnCall(n, args) ==
  LET s == Found(n) IN
  /\ Affords
  /\ IF n = "print"
       THEN /\ symbols' = Push(symbols, Symbol(n, "SYM_BUILTIN_FN", 0, 0))
            /\ Uses("AST_FN_CALL", Len(symbols) + 1)
            /\ UNCHANGED reported
       ELSE /\ Uses("AST_FN_CALL", s)
            /\ Report(IF s = None THEN TRUE
                      ELSE symbols[s].kind # "SYM_FN" \/ symbols[s].params # args)
            /\ UNCHANGED symbols
  /\ nodes' = nodes + 1
  /\ UNCHANGED <<decls, scopes, assigning, aborted>>

Call(n, args) ==
  \/ InExpr /\ FnCall(n, args) /\ UNCHANGED walk
  \/ InStmts /\ FnCall(n, args) /\ walk' = Push(walk, Frame("expr_stmt", None, {}))
-----------------------------------------------------------------------------
\* def_assn_post: the bit is set after the initialiser or the right-hand side.
EndAssignment ==
  /\ InExpr /\ Top.at \in {"var_dec", "assn"}
  /\ assigned' = assigned \cup ({Top.sym} \ {None})
  /\ definite' = definite \cup ({Top.sym} \ {None})
  /\ walk' = Pop(walk)
  /\ UNCHANGED <<decls, scoping, refused, arms, nodes, aborted>>

EndExpr ==
  /\ InExpr /\ Top.at \in {"exit", "expr_stmt"}
  /\ walk' = Pop(walk)
  /\ UNCHANGED <<decls, scoping, assigning, nodes, aborted>>

\* The condition of an if or while is over: one way on leads through its body.
EndCond ==
  /\ InExpr /\ Top.at \in {"if_cond", "loop_cond"}
  /\ walk' = Replace(Frame(IF Top.at = "if_cond" THEN "then" ELSE "loop",
                           None, definite))
  /\ UNCHANGED <<decls, scoping, assigning, nodes, aborted>>

\* Where paths part or meet again only the ghosts change: for the pass what is
\* assigned anywhere above is assigned.
BeginElse ==
  /\ Running /\ Top.at = "then_body"
  /\ walk' = Replace(Frame("else", None, definite))
  /\ definite' = Top.entry
  /\ arms' = arms \cup definite
  /\ UNCHANGED <<decls, scoping, assigned, refused, nodes, aborted>>

EndBranch ==
  /\ Running /\ Top.at \in {"then_body", "else_body", "loop_body"}
  /\ walk' = Pop(walk)
  /\ definite' = definite \cap Top.entry
  /\ arms' = arms \cup definite
  /\ UNCHANGED <<decls, scoping, assigned, refused, nodes, aborted>>

Over == ~Running /\ UNCHANGED vars

Next ==
  \/ FnDec \/ NestedFnDec \/ EnterBlock \/ EndBlock \/ EndFn \/ EndProgram
  \/ \E n \in VarNames :
       \/ \E initialised \in BOOLEAN : BeginVarDec(n, initialised)
       \/ BeginAssn(n)
       \/ Name(n)
  \/ \E n \in Names, args \in Arities : Call(n, args)
  \/ \E at \in {"exit", "if_cond", "loop_cond"} : BeginExpr(at)
  \/ EndAssignment \/ EndExpr \/ EndCond \/ BeginElse \/ EndBranch
  \/ Over

Spec == Init /\ [][Next]_vars
-----------------------------------------------------------------------------
Symbols == 1..Len(symbols)
SymbolType == [name : Names, kind : {"SYM_FN", "SYM_PARAM", "SYM_VAR", "SYM_BUILTIN_FN"},
               params : Nat, fn : Nat]

\* The types of the two passes' state.
TypeOK ==
  /\ symbols \in Seq(SymbolType)
  /\ scopes \in Seq(SUBSET Symbols)
  /\ use \in [node : {"none", "AST_NAME", "AST_ASSN", "AST_FN_CALL"},
              sym : {None} \cup Symbols, fn : Nat]
  /\ reported \in BOOLEAN /\ refused \in BOOLEAN /\ aborted \in BOOLEAN
  /\ assigned \subseteq Symbols /\ definite \subseteq Symbols /\ arms \subseteq Symbols
  /\ nodes \in 0..MaxNodes

\* The scopes with their lists give every name the meaning the language
\* promises: the latest declaration in the innermost region that has one.
S == INSTANCE Scoping WITH
       env <- [d \in 1..Len(scopes) |->
                 [n \in Names |-> look_up(symbols, scopes, d, n)]],
       fresh <- Len(symbols),
       meaning <- use.sym
ScopingImplemented == S!Spec

\* In a program the resolver accepts no scope holds two symbols of one name,
\* so what a name means does not depend on the order of the list.
ScopesAreUnambiguous ==
  ~reported => \A d \in 1..Len(scopes) : \A s, t \in scopes[d] :
                 s # t => symbols[s].name # symbols[t].name

Accepted == ~reported /\ ~refused

\* A name both passes accept stands for a variable or a parameter of the
\* function it is used in: the MIR generator gives slots to no others.  The
\* exception is a variable declared by a statement outside any function.
NamesAreOwn ==
  Accepted /\ use.node \in {"AST_NAME", "AST_ASSN"} =>
    /\ symbols[use.sym].kind \in {"SYM_VAR", "SYM_PARAM"}
    /\ \/ symbols[use.sym].fn = use.fn
       \/ TopLevel /\ symbols[use.sym].fn = 0

\* The pass errs on one side for one reason: whatever it lets pass without a
\* value on some path has been assigned in an arm of an if or a loop body that
\* is over by now ("implying it was assigned/initialized", def_assn.c:15).
ReadsAreInitialised == assigned \subseteq definite \cup arms

\* It reports no variable that has a value on every path.
NoFalseAlarms == definite \subseteq assigned
=============================================================================
