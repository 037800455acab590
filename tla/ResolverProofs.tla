--------------------------- MODULE ResolverProofs ---------------------------
(***************************************************************************)
(* Theorems about Resolver, for programs of any size: the two passes keep  *)
(* their types, the scopes of an accepted program hold no name twice, the  *)
(* definite-assignment pass errs only where paths meet, and the scopes     *)
(* implement the environments of Scoping.                                  *)
(*                                                                         *)
(* What is needed beyond the properties themselves is the shape of the     *)
(* walk: its outermost frame is the program's, and what a frame remembers  *)
(* from its start was assigned then, so it is assigned now; that every     *)
(* scope belongs to a frame, so a function leaves with its last scope.     *)
(***************************************************************************)
EXTENDS Resolver, TLAPS, WellFoundedInduction, FiniteSetTheorems,
        SequenceTheorems

FnAts    == {"fn", "fn_body"}
ScopeAts == FnAts \cup {"program", "block"}
Ats      == ScopeAts \cup {"var_dec", "assn", "exit", "expr_stmt", "if_cond", "loop_cond",
                            "then", "then_body", "else", "else_body", "loop", "loop_body"}
Frames   == [at : Ats, sym : Nat, entry : SUBSET Nat]

\* The frames of a walk: the program's first, a function's second, and nothing
\* else there unless statements may stand outside functions.
ShapeOK(w) ==
  /\ w \in Seq(Frames)
  /\ w # <<>> => w[1].at = "program" /\ w[1].sym \in Nat \ {0}
  /\ \A k \in 2..Len(w) : w[k].at # "program"
  /\ \A k \in 1..Len(w) : w[k].at \in FnAts => k = 2
  /\ Len(w) > 1 => TopLevel \/ w[2].at \in FnAts
  /\ Len(w) > 1 /\ w[2].at \in FnAts => w[1].sym > 1

\* The function a walk is in, and the scopes it has opened.
Owner(w) == IF Len(w) > 1 /\ w[2].at \in FnAts THEN w[1].sym - 1 ELSE 0
Opened(w) == {k \in 1..Len(w) : w[k].at \in ScopeAts}

DeclsOK == decls \in Seq(DeclType)

GoodFrame(f) ==
  /\ f.entry \subseteq assigned
  /\ f.at \in {"var_dec", "assn"} =>
       /\ f.sym \in {None} \cup Symbols
       /\ ~reported /\ f.sym # None => symbols[f.sym].kind = "SYM_VAR"
FramesOK == \A k \in 1..Len(walk) : GoodFrame(walk[k])

\* Every scope has its frame.
DepthOK == Len(scopes) = Cardinality(Opened(walk))

\* Whose symbols are in sight, and who has symbols outside functions.
OwnersOK ==
  /\ \A d \in 1..Len(scopes) : \A s \in scopes[d] : symbols[s].fn \in {0, Owner(walk)}
  /\ scopes # <<>> => \A s \in scopes[1] : symbols[s].fn = 0
  /\ \A s \in Symbols :
       symbols[s].kind \in {"SYM_VAR", "SYM_PARAM"} /\ symbols[s].fn = 0 => TopLevel

KindsOK ==
  /\ ~reported => \A s \in assigned : symbols[s].kind \in {"SYM_VAR", "SYM_PARAM"}
  /\ Accepted /\ use.node \in {"AST_NAME", "AST_ASSN"} => use.sym \in Symbols

\* The inductive invariant.
IInv ==
  /\ TypeOK
  /\ DeclsOK
  /\ ShapeOK(walk)
  /\ FramesOK
  /\ DepthOK
  /\ ScopesAreUnambiguous
  /\ ReadsAreInitialised
  /\ NoFalseAlarms
  /\ OwnersOK
  /\ KindsOK
  /\ NamesAreOwn
-----------------------------------------------------------------------------
\* A bounded set of numbers that has a member has a greatest one.
LEMMA MaxIsMember ==
  ASSUME NEW N \in Nat, NEW T, T \subseteq 1..N, T # {}
  PROVE  /\ Sets!Max(T) \in T
         /\ \A y \in T : y <= Sets!Max(T)
<1> DEFINE D == {d \in Nat : \E t \in T : d = N - t}
<1>1. D \subseteq Nat /\ D # {}
  <2>1. PICK t \in T : TRUE
    OBVIOUS
  <2>2. N - t \in D
    BY <2>1
  <2> QED
    BY <2>2
<1> HIDE DEF D
<1>2. PICK d \in D : \A e \in D : ~(<<e, d>> \in OpToRel(<, Nat))
  BY <1>1, NatLessThanWellFounded, WFMin
<1>3. ASSUME NEW e \in D
      PROVE  d <= e
  <2>1. <<e, d>> \in Nat \X Nat
    BY <1>1
  <2>2. <<e, d>>[1] = e /\ <<e, d>>[2] = d
    OBVIOUS
  <2>3. ~(<<e, d>>[1] < <<e, d>>[2])
    BY <1>2, <2>1, Zenon DEF OpToRel
  <2> QED
    BY <1>1, <2>2, <2>3
<1>4. PICK x \in T : d = N - x
  BY DEF D
<1>5. \A y \in T : x >= y
  <2> SUFFICES ASSUME NEW y \in T PROVE x >= y
    OBVIOUS
  <2>1. N - y \in D
    BY DEF D
  <2> QED
    BY <1>3, <1>4, <2>1
<1>6. \E z \in T : \A y \in T : z >= y
  BY <1>5
<1>7. Sets!Max(T) \in T /\ \A y \in T : Sets!Max(T) >= y
  BY <1>6, Zenon DEF Sets!Max
<1>8. \A y \in T : y \in Nat
  OBVIOUS
<1> QED
  BY <1>7, <1>8

\* get_symbol returns a symbol of the scope, or none if none has the name.
LEMMA GetSymbol ==
  ASSUME NEW syms, NEW N \in Nat, NEW scope, scope \subseteq 1..N, NEW n
  PROVE  /\ get_symbol(syms, scope, n) \in {None} \cup scope
         /\ get_symbol(syms, scope, n) = None
              <=> \A s \in scope : syms[s].name # n
<1> DEFINE found == {s \in scope : syms[s].name = n}
<1>1. CASE found = {}
  BY <1>1 DEF get_symbol
<1>2. CASE found # {}
  <2>1. get_symbol(syms, scope, n) = Sets!Max(found)
    BY <1>2 DEF get_symbol
  <2>2. found \subseteq 1..N
    OBVIOUS
  <2>3. Sets!Max(found) \in found
    BY <1>2, <2>2, MaxIsMember
  <2>4. None \notin scope
    BY DEF None
  <2> QED
    BY <1>2, <2>1, <2>3, <2>4
<1> QED
  BY <1>1, <1>2

\* The loop over the scopes returns a symbol the program has, or none.
LEMMA LookUp ==
  ASSUME NEW syms, NEW N \in Nat, NEW scs, NEW d \in Nat,
         \A c \in 1..d : scs[c] \subseteq 1..N, NEW n
  PROVE  /\ look_up(syms, scs, d, n) \in 0..N
         /\ look_up(syms, scs, d, n) # None =>
              \E c \in 1..d : look_up(syms, scs, d, n) \in scs[c]
<1> DEFINE found == {c \in 1..d : get_symbol(syms, scs[c], n) # None}
<1>1. CASE found = {}
  BY <1>1 DEF look_up, None
<1>2. CASE found # {}
  <2>1. Sets!Max(found) \in found
    <3>1. found \subseteq 1..d
      OBVIOUS
    <3> HIDE DEF found
    <3> QED
      BY <1>2, <3>1, MaxIsMember
  <2>2. look_up(syms, scs, d, n) = get_symbol(syms, scs[Sets!Max(found)], n)
    BY <1>2 DEF look_up
  <2>3. Sets!Max(found) \in 1..d /\ scs[Sets!Max(found)] \subseteq 1..N
    BY <2>1
  <2> HIDE DEF found
  <2>4. get_symbol(syms, scs[Sets!Max(found)], n)
          \in {None} \cup scs[Sets!Max(found)]
    BY <2>3, GetSymbol
  <2>5. look_up(syms, scs, d, n) \in {None} \cup scs[Sets!Max(found)]
    BY <2>2, <2>4
  <2>6. None \in 0..N /\ scs[Sets!Max(found)] \subseteq 0..N
    BY <2>3 DEF None
  <2> QED
    BY <2>3, <2>5, <2>6
<1> QED
  BY <1>1, <1>2

\* It depends on nothing but the names of the symbols in the scopes up to d.
LEMMA GetSymbolKept ==
  ASSUME NEW syms, NEW syms2, NEW scope, NEW n,
         \A s \in scope : syms2[s].name = syms[s].name
  PROVE  get_symbol(syms2, scope, n) = get_symbol(syms, scope, n)
<1>1. {s \in scope : syms2[s].name = n} = {s \in scope : syms[s].name = n}
  OBVIOUS
<1> QED
  BY <1>1 DEF get_symbol

SameNames(syms, scs, syms2, scs2, d) ==
  \A c \in 1..d : /\ scs2[c] = scs[c]
                  /\ \A s \in scs[c] : syms2[s].name = syms[s].name

LEMMA LookUpKept ==
  ASSUME NEW syms, NEW syms2, NEW scs, NEW scs2, NEW d \in Nat, NEW n,
         SameNames(syms, scs, syms2, scs2, d)
  PROVE  look_up(syms2, scs2, d, n) = look_up(syms, scs, d, n)
<1> DEFINE found  == {c \in 1..d : get_symbol(syms, scs[c], n) # None}
           found2 == {c \in 1..d : get_symbol(syms2, scs2[c], n) # None}
<1>1. \A c \in 1..d : get_symbol(syms2, scs2[c], n) = get_symbol(syms, scs[c], n)
  BY GetSymbolKept DEF SameNames
<1>2. found2 = found
  BY <1>1
<1>3. CASE found = {}
  BY <1>2, <1>3 DEF look_up
<1>4. CASE found # {}
  <2>1. found \subseteq 1..d
    OBVIOUS
  <2>2. /\ look_up(syms, scs, d, n) = get_symbol(syms, scs[Sets!Max(found)], n)
        /\ look_up(syms2, scs2, d, n) = get_symbol(syms2, scs2[Sets!Max(found)], n)
    BY <1>2, <1>4 DEF look_up
  <2> HIDE DEF found, found2
  <2>3. Sets!Max(found) \in 1..d
    BY <1>4, <2>1, MaxIsMember
  <2> QED
    BY <1>1, <2>2, <2>3
<1> QED
  BY <1>3, <1>4

\* The innermost scope decides for the names it has.
LEMMA LookUpInner ==
  ASSUME NEW syms, NEW scs, NEW d \in Nat, NEW n
  PROVE  look_up(syms, scs, d + 1, n)
           = IF get_symbol(syms, scs[d + 1], n) = None THEN look_up(syms, scs, d, n)
             ELSE get_symbol(syms, scs[d + 1], n)
<1> DEFINE found  == {c \in 1..d : get_symbol(syms, scs[c], n) # None}
           found2 == {c \in 1..d + 1 : get_symbol(syms, scs[c], n) # None}
<1>1. CASE get_symbol(syms, scs[d + 1], n) = None
  <2>1. found2 = found
    BY <1>1
  <2> QED
    BY <1>1, <2>1 DEF look_up
<1>2. CASE get_symbol(syms, scs[d + 1], n) # None
  <2>1. d + 1 \in found2 /\ found2 \subseteq 1..d + 1
    BY <1>2
  <2>2. look_up(syms, scs, d + 1, n) = get_symbol(syms, scs[Sets!Max(found2)], n)
    BY <2>1 DEF look_up
  <2> HIDE DEF found2
  <2>3. Sets!Max(found2) \in 1..d + 1 /\ d + 1 <= Sets!Max(found2)
    <3>1. d + 1 \in Nat /\ found2 # {}
      BY <2>1
    <3>2. Sets!Max(found2) \in found2 /\ \A y \in found2 : y <= Sets!Max(found2)
      BY <2>1, <3>1, MaxIsMember
    <3> QED
      BY <2>1, <3>2
  <2>4. Sets!Max(found2) = d + 1
    BY <2>3
  <2> QED
    BY <1>2, <2>2, <2>4
<1> QED
  BY <1>1, <1>2
-----------------------------------------------------------------------------
LEMMA FrameIs ==
  ASSUME NEW at \in Ats, NEW sym \in Nat, NEW entry, entry \subseteq Nat
  PROVE  /\ Frame(at, sym, entry) \in Frames
         /\ Frame(at, sym, entry).at = at
         /\ Frame(at, sym, entry).sym = sym
         /\ Frame(at, sym, entry).entry = entry
<1>1. entry \in SUBSET Nat
  OBVIOUS
<1> QED
  BY <1>1 DEF Frame, Frames

\* Pop drops the last of a sequence.
LEMMA PopIs ==
  ASSUME NEW T, NEW s \in Seq(T), s # <<>>
  PROVE  /\ Pop(s) \in Seq(T)
         /\ Len(s) \in Nat \ {0}
         /\ Len(Pop(s)) = Len(s) - 1
         /\ \A k \in 1..Len(s) - 1 : Pop(s)[k] = s[k]
         /\ Len(s) = 1 => Pop(s) = <<>>
<1>1. Len(s) \in Nat \ {0}
  OBVIOUS
<1>2. /\ Pop(s) \in Seq(T) /\ Len(Pop(s)) = Len(s) - 1
      /\ \A k \in 1..Len(s) - 1 : Pop(s)[k] = s[k]
  <2> DEFINE n == Len(s) - 1
  <2>1. n \in Int /\ 1 \in Int /\ \A i \in 1..n : s[i] \in T
    BY <1>1
  <2>2. /\ SubSeq(s, 1, n) \in Seq(T)
        /\ Len(SubSeq(s, 1, n)) = IF 1 <= n THEN n - 1 + 1 ELSE 0
        /\ \A i \in 1..n - 1 + 1 : SubSeq(s, 1, n)[i] = s[1 + i - 1]
    <3> HIDE DEF n
    <3> QED
      BY <2>1, SubSeqProperties
  <2>3. Pop(s) = SubSeq(s, 1, n)
    BY DEF Pop
  <2>4. n - 1 + 1 = n /\ n \in Nat /\ (1 <= n \/ n = 0)
    <3>1. n \in Nat
      BY <1>1
    <3> HIDE DEF n
    <3> QED
      BY <3>1
  <2>5. Len(SubSeq(s, 1, n)) = n
    BY <2>2, <2>4
  <2>6. ASSUME NEW k \in 1..n
        PROVE  SubSeq(s, 1, n)[k] = s[k]
    <3>1. k \in 1..n - 1 + 1 /\ 1 + k - 1 = k
      BY <2>4
    <3> QED
      BY <2>2, <3>1
  <2> QED
    BY <2>2, <2>3, <2>5, <2>6
<1>3. Len(s) = 1 => Pop(s) = <<>>
  BY <1>2
<1> QED
  BY <1>1, <1>2, <1>3

\* What the three moves of the walk do to its shape.
LEMMA ShapePush ==
  ASSUME NEW w, ShapeOK(w), w # <<>>, NEW f \in Frames,
         f.at \notin FnAts, f.at # "program", Len(w) > 1 \/ TopLevel
  PROVE  /\ ShapeOK(Push(w, f))
         /\ Owner(Push(w, f)) = Owner(w)
<1> DEFINE v == Push(w, f)
<1>1. /\ v \in Seq(Frames) /\ Len(v) = Len(w) + 1 /\ v[Len(v)] = f
      /\ \A k \in 1..Len(w) : v[k] = w[k]
      /\ Len(w) \in Nat \ {0}
  BY DEF Push, ShapeOK
<1> HIDE DEF v
<1>2. ShapeOK(v)
  BY <1>1 DEF ShapeOK
<1>3. Owner(v) = Owner(w)
  BY <1>1 DEF ShapeOK, Owner
<1> QED
  BY <1>2, <1>3 DEF v

LEMMA ShapePop ==
  ASSUME NEW w, ShapeOK(w), w # <<>>
  PROVE  /\ ShapeOK(Pop(w))
         /\ w[Len(w)].at \notin FnAts => Owner(Pop(w)) = Owner(w)
         /\ w[Len(w)].at \in FnAts => Len(Pop(w)) = 1
<1> DEFINE v == Pop(w)
<1>1. /\ v \in Seq(Frames) /\ Len(v) = Len(w) - 1
      /\ \A k \in 1..Len(v) : v[k] = w[k]
      /\ Len(w) \in Nat \ {0}
      /\ Len(w) = 1 => v = <<>>
  BY PopIs DEF ShapeOK
<1> HIDE DEF v
<1>2. ShapeOK(v)
  BY <1>1 DEF ShapeOK
<1>3. w[Len(w)].at \notin FnAts => Owner(v) = Owner(w)
  BY <1>1 DEF ShapeOK, Owner
<1>4. w[Len(w)].at \in FnAts => Len(v) = 1
  BY <1>1 DEF ShapeOK
<1> QED
  BY <1>2, <1>3, <1>4 DEF v

LEMMA ShapeReplace ==
  ASSUME NEW w, ShapeOK(w), w # <<>>, NEW f \in Frames,
         w[Len(w)].at # "program", f.at # "program",
         f.at \in FnAts <=> w[Len(w)].at \in FnAts
  PROVE  /\ ShapeOK([w EXCEPT ![Len(w)] = f])
         /\ Owner([w EXCEPT ![Len(w)] = f]) = Owner(w)
         /\ Len(w) > 1
<1> DEFINE v == [w EXCEPT ![Len(w)] = f]
<1>1. /\ v \in Seq(Frames) /\ Len(v) = Len(w) /\ v[Len(w)] = f
      /\ \A k \in 1..Len(w) - 1 : v[k] = w[k]
      /\ Len(w) \in Nat /\ Len(w) > 1
  BY DEF ShapeOK
<1> HIDE DEF v
<1>2. ShapeOK(v)
  <2>1. v # <<>> /\ v[1].at = "program" /\ v[1].sym \in Nat \ {0}
    BY <1>1 DEF ShapeOK
  <2>2. \A k \in 2..Len(v) : v[k].at # "program"
    BY <1>1 DEF ShapeOK
  <2>3. \A k \in 1..Len(v) : v[k].at \in FnAts => k = 2
    BY <1>1 DEF ShapeOK
  <2>4. /\ TopLevel \/ v[2].at \in FnAts
        /\ v[2].at \in FnAts => v[1].sym > 1
    BY <1>1 DEF ShapeOK
  <2> QED
    BY <1>1, <2>1, <2>2, <2>3, <2>4 DEF ShapeOK
<1>3. Owner(v) = Owner(w)
  BY <1>1 DEF ShapeOK, Owner
<1> QED
  BY <1>1, <1>2, <1>3 DEF v

\* What they do to the number of open scopes.
LEMMA OpenedIsFinite ==
  ASSUME NEW w, ShapeOK(w)
  PROVE  /\ IsFiniteSet(Opened(w))
         /\ Cardinality(Opened(w)) \in Nat
         /\ w # <<>> => Cardinality(Opened(w)) >= 1
         /\ Len(w) = 1 => Cardinality(Opened(w)) = 1
         /\ w = <<>> => Cardinality(Opened(w)) = 0
<1>1. Len(w) \in Nat /\ Opened(w) \subseteq 1..Len(w)
  BY DEF ShapeOK, Opened
<1>2. IsFiniteSet(Opened(w)) /\ Cardinality(Opened(w)) \in Nat
  <2>1. IsFiniteSet(1..Len(w))
    BY <1>1, FS_Interval
  <2> QED
    BY <1>1, <2>1, FS_Subset, FS_CardinalityType
<1>3. w # <<>> => Opened(w) # {}
  BY DEF ShapeOK, Opened, ScopeAts
<1>4. w # <<>> => Cardinality(Opened(w)) >= 1
  BY <1>2, <1>3, FS_EmptySet
<1>5. Len(w) = 1 => Opened(w) = {1}
  BY <1>1, <1>3
<1>6. w = <<>> => Opened(w) = {}
  BY DEF Opened
<1> QED
  BY <1>2, <1>4, <1>5, <1>6, FS_Singleton, FS_EmptySet

LEMMA OpenedPush ==
  ASSUME NEW w, ShapeOK(w), NEW f \in Frames
  PROVE  Cardinality(Opened(Push(w, f)))
           = Cardinality(Opened(w)) + (IF f.at \in ScopeAts THEN 1 ELSE 0)
<1> DEFINE v == Push(w, f)
<1>1. /\ Len(v) = Len(w) + 1 /\ v[Len(v)] = f /\ Len(w) \in Nat
      /\ \A k \in 1..Len(w) : v[k] = w[k]
  BY DEF Push, ShapeOK
<1> HIDE DEF v
<1>2. CASE f.at \in ScopeAts
  <2>1. Opened(v) = Opened(w) \cup {Len(w) + 1} /\ Len(w) + 1 \notin Opened(w)
    BY <1>1, <1>2 DEF Opened
  <2> QED
    BY <1>2, <2>1, OpenedIsFinite, FS_AddElement DEF v
<1>3. CASE f.at \notin ScopeAts
  <2>1. Opened(v) = Opened(w)
    BY <1>1, <1>3 DEF Opened
  <2> QED
    BY <1>3, <2>1, OpenedIsFinite DEF v
<1> QED
  BY <1>2, <1>3

LEMMA OpenedPop ==
  ASSUME NEW w, ShapeOK(w), w # <<>>
  PROVE  Cardinality(Opened(Pop(w)))
           = Cardinality(Opened(w)) - (IF w[Len(w)].at \in ScopeAts THEN 1 ELSE 0)
<1> DEFINE v == Pop(w)
<1>1. /\ Len(v) = Len(w) - 1 /\ Len(w) \in Nat \ {0}
      /\ \A k \in 1..Len(v) : v[k] = w[k]
  BY PopIs DEF ShapeOK
<1> HIDE DEF v
<1>2. CASE w[Len(w)].at \in ScopeAts
  <2>1. Opened(v) = Opened(w) \ {Len(w)} /\ Len(w) \in Opened(w)
    BY <1>1, <1>2 DEF Opened
  <2> QED
    BY <1>2, <2>1, OpenedIsFinite, FS_RemoveElement DEF v
<1>3. CASE w[Len(w)].at \notin ScopeAts
  <2>1. Opened(v) = Opened(w)
    BY <1>1, <1>3 DEF Opened
  <2> QED
    BY <1>3, <2>1, OpenedIsFinite DEF v
<1> QED
  BY <1>2, <1>3

LEMMA OpenedReplace ==
  ASSUME NEW w, ShapeOK(w), w # <<>>, NEW f \in Frames,
         f.at \in ScopeAts <=> w[Len(w)].at \in ScopeAts
  PROVE  Opened([w EXCEPT ![Len(w)] = f]) = Opened(w)
BY DEF ShapeOK, Opened
-----------------------------------------------------------------------------
\* What the steps below need of the types.
LEMMA Types ==
  ASSUME IInv
  PROVE  /\ Len(symbols) \in Nat /\ Symbols = 1..Len(symbols)
         /\ Len(scopes) \in Nat /\ Len(walk) \in Nat
         /\ \A d \in 1..Len(scopes) : scopes[d] \subseteq Symbols
         /\ None \notin Symbols
         /\ Owner(walk) \in Nat
         /\ ThisFn = Owner(walk)
         /\ Running => /\ walk # <<>> /\ Len(walk) > 0 /\ Len(scopes) > 0
                       /\ Top \in Frames /\ Top = walk[Len(walk)]
                       /\ GoodFrame(Top)
         /\ InStmts => /\ TopLevel \/ Owner(walk) # 0
                       /\ TopLevel \/ Len(walk) > 1
                       /\ Owner(walk) # 0 => Len(scopes) > 1
<1>1. /\ Len(symbols) \in Nat /\ Symbols = 1..Len(symbols)
      /\ Len(scopes) \in Nat /\ Len(walk) \in Nat
      /\ \A d \in 1..Len(scopes) : scopes[d] \subseteq Symbols
  BY DEF IInv, TypeOK, ShapeOK, Symbols
<1>2. None \notin Symbols
  BY <1>1 DEF None
<1>3. Owner(walk) \in Nat /\ ThisFn = Owner(walk)
  BY DEF IInv, ShapeOK, Owner, ThisFn, FnAts, Frames
<1>4. ASSUME Running
      PROVE  /\ walk # <<>> /\ Len(walk) > 0 /\ Len(scopes) > 0
             /\ Top \in Frames /\ Top = walk[Len(walk)]
             /\ GoodFrame(Top)
  <2>1. walk # <<>> /\ Len(walk) > 0 /\ walk \in Seq(Frames)
    BY <1>4 DEF Running, IInv, ShapeOK
  <2>2. Top \in Frames /\ Top = walk[Len(walk)] /\ GoodFrame(Top)
    BY <1>1, <2>1 DEF Top, IInv, FramesOK
  <2>3. Len(scopes) > 0
    BY <1>1, <2>1, OpenedIsFinite DEF IInv, DepthOK
  <2> QED
    BY <2>1, <2>2, <2>3
<1>5. ASSUME InStmts
      PROVE  /\ TopLevel \/ Owner(walk) # 0
             /\ TopLevel \/ Len(walk) > 1
             /\ Owner(walk) # 0 => Len(scopes) > 1
  <2>1. walk # <<>> /\ walk[1].at = "program" /\ Top = walk[Len(walk)]
    BY <1>4, <1>5 DEF InStmts, IInv, ShapeOK
  <2>2. TopLevel \/ Top.at = "block"
    BY <1>5 DEF InStmts, StmtFrames
  <2>3. Top.at = "block" => Len(walk) > 1
    BY <1>1, <2>1
  <2>4. TopLevel \/ Owner(walk) # 0
    BY <2>2, <2>3 DEF IInv, ShapeOK, Owner, Frames
  <2>5. ASSUME Owner(walk) # 0
        PROVE  Len(scopes) > 1
    <3>1. Len(walk) > 1
      BY <2>5 DEF Owner
    <3>2. Top.at \in ScopeAts
      BY <1>5, <2>1, <3>1 DEF InStmts, StmtFrames, ScopeAts
    <3>3. ShapeOK(Pop(walk)) /\ Pop(walk) # <<>>
      <4>1. walk \in Seq(Frames)
        BY DEF IInv, ShapeOK
      <4> QED
        BY <2>1, <3>1, <4>1, ShapePop, PopIs DEF IInv
    <3>4. Cardinality(Opened(Pop(walk))) \in Nat \ {0}
      BY <3>3, OpenedIsFinite
    <3>5. Cardinality(Opened(walk)) \in Nat
      BY OpenedIsFinite DEF IInv
    <3>6. Cardinality(Opened(Pop(walk))) = Cardinality(Opened(walk)) - 1
      BY <2>1, <3>2, OpenedPop DEF IInv
    <3> QED
      BY <3>4, <3>5, <3>6 DEF IInv, DepthOK
  <2> QED
    BY <2>2, <2>3, <2>4, <2>5
<1> QED
  BY <1>1, <1>2, <1>3, <1>4, <1>5

\* A frame stays good as symbols, errors and assignments are added.
LEMMA FrameGrows ==
  ASSUME IInv, NEW f, GoodFrame(f), assigned \subseteq assigned',
         reported => reported', Len(symbols') \in Nat, Len(symbols) <= Len(symbols'),
         \A s \in Symbols : symbols'[s] = symbols[s]
  PROVE  GoodFrame(f)'
<1>1. Symbols \subseteq Symbols'
  BY Types DEF Symbols
<1>2. f.sym \in Symbols => symbols'[f.sym] = symbols[f.sym]
  OBVIOUS
<1> QED
  BY <1>1, <1>2 DEF GoodFrame

\* The three moves of the walk again, for the frames' contents.
LEMMA FramesPush ==
  ASSUME IInv, \A f \in Frames : GoodFrame(f) => GoodFrame(f)',
         NEW g \in Frames, GoodFrame(g)', walk' = Push(walk, g)
  PROVE  FramesOK'
BY DEF IInv, ShapeOK, FramesOK, Push

LEMMA FramesPop ==
  ASSUME IInv, \A f \in Frames : GoodFrame(f) => GoodFrame(f)',
         walk # <<>>, walk' = Pop(walk)
  PROVE  FramesOK'
<1>1. walk \in Seq(Frames)
  BY DEF IInv, ShapeOK
<1>2. /\ Len(walk') = Len(walk) - 1 /\ Len(walk) \in Nat
      /\ \A k \in 1..Len(walk) - 1 : walk'[k] = walk[k]
  BY <1>1, PopIs
<1> QED
  BY <1>1, <1>2 DEF IInv, FramesOK

LEMMA FramesReplace ==
  ASSUME IInv, \A f \in Frames : GoodFrame(f) => GoodFrame(f)',
         NEW g \in Frames, GoodFrame(g)', walk # <<>>, walk' = [walk EXCEPT ![Len(walk)] = g]
  PROVE  FramesOK'
BY DEF IInv, ShapeOK, FramesOK

\* A step that leaves the resolver alone and no scope opens or closes.
LEMMA QuietStep ==
  ASSUME IInv, UNCHANGED <<decls, scoping, refused>>, aborted' \in BOOLEAN,
         nodes' \in 0..MaxNodes, ShapeOK(walk'), FramesOK',
         Owner(walk') = Owner(walk),
         Cardinality(Opened(walk')) = Cardinality(Opened(walk)),
         assigned' \subseteq Symbols, definite' \subseteq Symbols, arms' \subseteq Symbols,
         ReadsAreInitialised', NoFalseAlarms',
         ~reported => \A s \in assigned' \ assigned :
                        symbols[s].kind \in {"SYM_VAR", "SYM_PARAM"}
  PROVE  IInv'
<1>1. /\ decls' = decls /\ symbols' = symbols /\ scopes' = scopes /\ use' = use
      /\ reported' = reported /\ refused' = refused /\ Symbols' = Symbols
  BY DEF scoping, Symbols
<1>2. TypeOK'
  BY <1>1 DEF IInv, TypeOK
<1>3. DeclsOK' /\ DepthOK' /\ OwnersOK'
  BY <1>1 DEF IInv, DeclsOK, DepthOK, OwnersOK
<1>4. ScopesAreUnambiguous'
  BY <1>1 DEF IInv, ScopesAreUnambiguous
<1>5. KindsOK'
  BY <1>1 DEF IInv, KindsOK, Accepted
<1>6. NamesAreOwn'
  BY <1>1 DEF IInv, NamesAreOwn, Accepted
<1> QED
  BY <1>2, <1>3, <1>4, <1>5, <1>6 DEF IInv

\* Steps that only go on in the walk.
LEMMA BeginExprIInv ==
  ASSUME IInv, NEW at \in {"exit", "if_cond", "loop_cond"}, BeginExpr(at)
  PROVE  IInv'
<1> DEFINE f == Frame(at, None, {})
<1>1. InStmts /\ Running /\ walk' = Push(walk, f) /\ nodes' = nodes + 1 /\ nodes < MaxNodes
  BY DEF BeginExpr, InStmts, Affords
<1>2. f \in Frames /\ f.at = at
  <2>1. at \in Ats /\ None \in Nat /\ {} \subseteq Nat
    BY DEF None, Ats
  <2> QED
    BY <2>1, FrameIs
<1>3. walk # <<>> /\ (Len(walk) > 1 \/ TopLevel)
  BY <1>1, Types
<1>4. at \notin ScopeAts /\ at \notin FnAts /\ at # "program"
  BY DEF ScopeAts, FnAts
<1>5. ShapeOK(walk') /\ Owner(walk') = Owner(walk)
  BY <1>1, <1>2, <1>3, <1>4, ShapePush DEF IInv
<1>6. Cardinality(Opened(walk')) = Cardinality(Opened(walk))
  BY <1>1, <1>2, <1>4, OpenedPush, OpenedIsFinite DEF IInv
<1>7. UNCHANGED <<decls, scoping, assigning, aborted>>
  BY DEF BeginExpr
<1>8. FramesOK'
  <2>1. GoodFrame(f)'
    BY DEF GoodFrame, Frame
  <2>2. \A g \in Frames : GoodFrame(g) => GoodFrame(g)'
    BY <1>7 DEF GoodFrame, scoping, assigning, Symbols
  <2> QED
    BY <1>1, <1>2, <2>1, <2>2, FramesPush
<1>9. nodes' \in 0..MaxNodes /\ aborted' \in BOOLEAN
  BY <1>1, <1>7, Bounds DEF IInv, TypeOK
<1>10. ReadsAreInitialised' /\ NoFalseAlarms'
  BY <1>7 DEF IInv, ReadsAreInitialised, NoFalseAlarms, assigning
<1>11. assigned' = assigned /\ definite' = definite /\ arms' = arms /\ refused' = refused
  BY <1>7 DEF assigning
<1>12. assigned' \subseteq Symbols /\ definite' \subseteq Symbols /\ arms' \subseteq Symbols
  BY <1>11 DEF IInv, TypeOK
<1> QED
  BY <1>5, <1>6, <1>7, <1>8, <1>9, <1>10, <1>11, <1>12, QuietStep

\* What a step that drops the last frame, not one with a scope, has in common.
LEMMA PopMove ==
  ASSUME IInv, Running, Top.at \notin ScopeAts, walk' = Pop(walk),
         UNCHANGED <<decls, scoping, nodes, aborted>>, assigned \subseteq assigned'
  PROVE  /\ ShapeOK(walk') /\ Owner(walk') = Owner(walk) /\ FramesOK'
         /\ Cardinality(Opened(walk')) = Cardinality(Opened(walk))
         /\ nodes' \in 0..MaxNodes /\ aborted' \in BOOLEAN
<1>1. walk # <<>> /\ Top = walk[Len(walk)] /\ Top.at \notin FnAts
  BY Types DEF ScopeAts
<1>2. ShapeOK(walk') /\ Owner(walk') = Owner(walk)
  BY <1>1, ShapePop DEF IInv
<1>3. Cardinality(Opened(walk')) = Cardinality(Opened(walk))
  BY <1>1, OpenedPop, OpenedIsFinite DEF IInv
<1>4. \A g \in Frames : GoodFrame(g) => GoodFrame(g)'
  BY DEF GoodFrame, scoping, Symbols
<1>5. FramesOK'
  BY <1>1, <1>4, FramesPop
<1>6. nodes' \in 0..MaxNodes /\ aborted' \in BOOLEAN
  BY DEF IInv, TypeOK
<1> QED
  BY <1>2, <1>3, <1>5, <1>6

LEMMA EndAssignmentIInv == ASSUME IInv, EndAssignment PROVE IInv'
<1>1. /\ Running /\ Top.at \in {"var_dec", "assn"} /\ walk' = Pop(walk)
      /\ assigned' = assigned \cup ({Top.sym} \ {None})
      /\ definite' = definite \cup ({Top.sym} \ {None})
      /\ UNCHANGED <<decls, scoping, refused, arms, nodes, aborted>>
  BY DEF EndAssignment, InExpr
<1>2. Top.at \notin ScopeAts
  BY <1>1 DEF ScopeAts, FnAts
<1>3. GoodFrame(Top)
  BY <1>1, Types
<1>4. /\ {Top.sym} \ {None} \subseteq Symbols
      /\ ~reported => \A s \in {Top.sym} \ {None} : symbols[s].kind = "SYM_VAR"
  BY <1>1, <1>3 DEF GoodFrame
<1>5. assigned' \subseteq Symbols /\ definite' \subseteq Symbols /\ arms' \subseteq Symbols
  BY <1>1, <1>4 DEF IInv, TypeOK
<1>6. ReadsAreInitialised' /\ NoFalseAlarms'
  BY <1>1 DEF IInv, ReadsAreInitialised, NoFalseAlarms
<1>7. ~reported => \A s \in assigned' \ assigned :
                     symbols[s].kind \in {"SYM_VAR", "SYM_PARAM"}
  BY <1>1, <1>4
<1> QED
  BY <1>1, <1>2, <1>5, <1>6, <1>7, PopMove, QuietStep

LEMMA EndExprIInv == ASSUME IInv, EndExpr PROVE IInv'
<1>1. /\ Running /\ Top.at \in {"exit", "expr_stmt"} /\ walk' = Pop(walk)
      /\ UNCHANGED <<decls, scoping, assigning, nodes, aborted>>
  BY DEF EndExpr, InExpr
<1>2. Top.at \notin ScopeAts
  BY <1>1 DEF ScopeAts, FnAts
<1>3. assigned' = assigned /\ definite' = definite /\ arms' = arms /\ refused' = refused
  BY <1>1 DEF assigning
<1>4. assigned' \subseteq Symbols /\ definite' \subseteq Symbols /\ arms' \subseteq Symbols
  BY <1>3 DEF IInv, TypeOK
<1>5. ReadsAreInitialised' /\ NoFalseAlarms'
  BY <1>3 DEF IInv, ReadsAreInitialised, NoFalseAlarms
<1> QED
  BY <1>1, <1>2, <1>3, <1>4, <1>5, PopMove, QuietStep

LEMMA EndBranchIInv == ASSUME IInv, EndBranch PROVE IInv'
<1>1. /\ Running /\ Top.at \in {"then_body", "else_body", "loop_body"}
      /\ walk' = Pop(walk) /\ assigned' = assigned
      /\ definite' = definite \cap Top.entry /\ arms' = arms \cup definite
      /\ UNCHANGED <<decls, scoping, refused, nodes, aborted>>
  BY DEF EndBranch
<1>2. Top.at \notin ScopeAts
  BY <1>1 DEF ScopeAts, FnAts
<1>3. assigned' \subseteq Symbols /\ definite' \subseteq Symbols /\ arms' \subseteq Symbols
  BY <1>1 DEF IInv, TypeOK
<1>4. ReadsAreInitialised' /\ NoFalseAlarms'
  BY <1>1 DEF IInv, ReadsAreInitialised, NoFalseAlarms
<1> QED
  BY <1>1, <1>2, <1>3, <1>4, PopMove, QuietStep

\* Steps that put another frame in the place of the last.
LEMMA ReplaceMove ==
  ASSUME IInv, Running, Top.at \notin ScopeAts, NEW g \in Frames, g.at \notin ScopeAts,
         g.entry \subseteq assigned, g.at \notin {"var_dec", "assn"},
         walk' = Replace(g), UNCHANGED <<decls, scoping, nodes, aborted, assigned>>
  PROVE  /\ ShapeOK(walk') /\ Owner(walk') = Owner(walk) /\ FramesOK'
         /\ Cardinality(Opened(walk')) = Cardinality(Opened(walk))
         /\ nodes' \in 0..MaxNodes /\ aborted' \in BOOLEAN
<1>1. /\ walk # <<>> /\ Top = walk[Len(walk)] /\ Top.at \notin FnAts
      /\ Top.at # "program" /\ g.at # "program" /\ g.at \notin FnAts
      /\ walk' = [walk EXCEPT ![Len(walk)] = g]
  BY Types DEF ScopeAts, Replace
<1>2. ShapeOK(walk') /\ Owner(walk') = Owner(walk)
  BY <1>1, ShapeReplace DEF IInv
<1>3. Opened(walk') = Opened(walk)
  BY <1>1, OpenedReplace DEF IInv
<1>4. \A f \in Frames : GoodFrame(f) => GoodFrame(f)'
  BY DEF GoodFrame, scoping, Symbols
<1>5. GoodFrame(g)'
  BY DEF GoodFrame
<1>6. FramesOK'
  BY <1>1, <1>4, <1>5, FramesReplace
<1>7. nodes' \in 0..MaxNodes /\ aborted' \in BOOLEAN
  BY DEF IInv, TypeOK
<1> QED
  BY <1>2, <1>3, <1>6, <1>7

LEMMA EndCondIInv == ASSUME IInv, EndCond PROVE IInv'
<1> DEFINE g == Frame(IF Top.at = "if_cond" THEN "then" ELSE "loop", None, definite)
<1>1. /\ Running /\ Top.at \in {"if_cond", "loop_cond"} /\ walk' = Replace(g)
      /\ UNCHANGED <<decls, scoping, assigning, nodes, aborted>>
  BY DEF EndCond, InExpr
<1>2. assigned' = assigned /\ definite' = definite /\ arms' = arms /\ refused' = refused
  BY <1>1 DEF assigning
<1>3. Top.at \notin ScopeAts
  BY <1>1 DEF ScopeAts, FnAts
<1>4. /\ g \in Frames /\ g.at \in {"then", "loop"} /\ g.entry = definite
  <2>1. definite \in SUBSET Nat
    BY Types DEF IInv, TypeOK
  <2> DEFINE at == IF Top.at = "if_cond" THEN "then" ELSE "loop"
  <2>2. at \in Ats /\ at \in {"then", "loop"} /\ None \in Nat
    BY DEF None, Ats
  <2> HIDE DEF at
  <2>3. /\ Frame(at, None, definite) \in Frames
        /\ Frame(at, None, definite).at = at
        /\ Frame(at, None, definite).entry = definite
    BY <2>1, <2>2 DEF Frame, Frames
  <2> QED
    BY <2>2, <2>3 DEF at
<1>5. g.at \notin ScopeAts /\ g.at \notin {"var_dec", "assn"}
  BY <1>4 DEF ScopeAts, FnAts
<1>6. g.entry \subseteq assigned
  BY <1>4 DEF IInv, NoFalseAlarms
<1>7. assigned' \subseteq Symbols /\ definite' \subseteq Symbols /\ arms' \subseteq Symbols
  BY <1>2 DEF IInv, TypeOK
<1>8. ReadsAreInitialised' /\ NoFalseAlarms'
  BY <1>2 DEF IInv, ReadsAreInitialised, NoFalseAlarms
<1> HIDE DEF g
<1> QED
  BY <1>1, <1>2, <1>3, <1>4, <1>5, <1>6, <1>7, <1>8, ReplaceMove, QuietStep

LEMMA BeginElseIInv == ASSUME IInv, BeginElse PROVE IInv'
<1> DEFINE g == Frame("else", None, definite)
<1>1. /\ Running /\ Top.at = "then_body" /\ walk' = Replace(g) /\ assigned' = assigned
      /\ definite' = Top.entry /\ arms' = arms \cup definite
      /\ UNCHANGED <<decls, scoping, refused, nodes, aborted>>
  BY DEF BeginElse
<1>2. Top.at \notin ScopeAts
  BY <1>1 DEF ScopeAts, FnAts
<1>3. g \in Frames /\ g.at = "else" /\ g.entry = definite
  <2>1. definite \in SUBSET Nat
    BY Types DEF IInv, TypeOK
  <2>2. "else" \in Ats /\ None \in Nat
    BY DEF None, Ats
  <2> QED
    BY <2>1, <2>2 DEF Frame, Frames
<1>4. g.at \notin ScopeAts /\ g.at \notin {"var_dec", "assn"}
  BY <1>3 DEF ScopeAts, FnAts
<1>5. g.entry \subseteq assigned
  BY <1>3 DEF IInv, NoFalseAlarms
<1>6. Top.entry \subseteq assigned
  BY <1>1, Types DEF GoodFrame
<1>7. assigned' \subseteq Symbols /\ definite' \subseteq Symbols /\ arms' \subseteq Symbols
  BY <1>1, <1>6 DEF IInv, TypeOK
<1>8. ReadsAreInitialised' /\ NoFalseAlarms'
  BY <1>1, <1>6 DEF IInv, ReadsAreInitialised, NoFalseAlarms
<1> HIDE DEF g
<1> QED
  BY <1>1, <1>2, <1>3, <1>4, <1>5, <1>7, <1>8, ReplaceMove, QuietStep

LEMMA AbortIInv ==
  ASSUME IInv, aborted' \in BOOLEAN, UNCHANGED <<decls, scoping, assigning, walk, nodes>>
  PROVE  IInv'
<1>1. UNCHANGED <<decls, scoping, assigning, walk, nodes>>
  OBVIOUS
<1>2. /\ assigned' = assigned /\ definite' = definite /\ arms' = arms
      /\ refused' = refused /\ walk' = walk
  BY <1>1 DEF assigning
<1>3. ShapeOK(walk') /\ Owner(walk') = Owner(walk)
  BY <1>2 DEF IInv
<1>4. Cardinality(Opened(walk')) = Cardinality(Opened(walk))
  BY <1>2
<1>5. FramesOK'
  BY <1>1, <1>2 DEF IInv, FramesOK, GoodFrame, scoping, Symbols
<1>6. nodes' \in 0..MaxNodes /\ aborted' \in BOOLEAN
  BY <1>1 DEF IInv, TypeOK
<1>7. assigned' \subseteq Symbols /\ definite' \subseteq Symbols /\ arms' \subseteq Symbols
  BY <1>2 DEF IInv, TypeOK
<1>8. ReadsAreInitialised' /\ NoFalseAlarms'
  BY <1>2 DEF IInv, ReadsAreInitialised, NoFalseAlarms
<1> QED
  BY <1>1, <1>2, <1>3, <1>4, <1>5, <1>6, <1>7, <1>8, QuietStep

\* A block: its frame is the new innermost, on the walk and among the scopes.
LEMMA EnterBlockWalk ==
  ASSUME IInv, EnterBlock
  PROVE  /\ Running
         /\ ShapeOK(walk') /\ Owner(walk') = Owner(walk) /\ FramesOK'
         /\ Cardinality(Opened(walk')) = Cardinality(Opened(walk)) + 1
         /\ nodes' \in 0..MaxNodes
<1> DEFINE b == Frame("block", None, {})
<1>1. /\ scopes' = Push(scopes, {})
      /\ UNCHANGED <<decls, symbols, use, reported, assigning, aborted>>
  BY DEF EnterBlock
<1>2. b \in Frames /\ b.at = "block" /\ GoodFrame(b)'
  <2>1. "block" \in Ats /\ None \in Nat /\ {} \subseteq Nat
    BY DEF Ats, ScopeAts, None
  <2>2. b \in Frames /\ b.at = "block" /\ b.entry = {}
    BY <2>1, FrameIs
  <2> HIDE DEF b
  <2> QED
    BY <2>2 DEF GoodFrame
<1>3. b.at \in ScopeAts /\ b.at \notin FnAts /\ b.at # "program"
  BY <1>2 DEF ScopeAts, FnAts
<1>4. \A f \in Frames : GoodFrame(f) => GoodFrame(f)'
  BY <1>1 DEF GoodFrame, Symbols, assigning
<1> HIDE DEF b
<1>5. CASE InStmts /\ Affords /\ walk' = Push(walk, b) /\ nodes' = nodes + 1
  <2>1. Running /\ walk # <<>> /\ (Len(walk) > 1 \/ TopLevel)
    BY <1>5, Types DEF InStmts
  <2>2. ShapeOK(walk') /\ Owner(walk') = Owner(walk)
    BY <1>2, <1>3, <1>5, <2>1, ShapePush DEF IInv
  <2>3. Cardinality(Opened(walk')) = Cardinality(Opened(walk)) + 1
    BY <1>2, <1>3, <1>5, OpenedPush DEF IInv
  <2>4. FramesOK'
    BY <1>2, <1>4, <1>5, FramesPush
  <2>5. nodes' \in 0..MaxNodes
    BY <1>5, Bounds DEF IInv, TypeOK, Affords
  <2> QED
    BY <2>1, <2>2, <2>3, <2>4, <2>5
<1>6. CASE /\ Running /\ Top.at \in DOMAIN Bodies
           /\ walk' = Push(Replace([Top EXCEPT !.at = Bodies[Top.at]]), b)
           /\ nodes' = nodes
  <2>1. /\ walk # <<>> /\ Top \in Frames /\ Top = walk[Len(walk)] /\ GoodFrame(Top)
        /\ Len(walk) \in Nat
    BY <1>6, Types
  <2>2. /\ Top.at \in {"fn", "then", "else", "loop"}
        /\ Top.at = "fn" => Bodies[Top.at] = "fn_body"
        /\ Top.at = "then" => Bodies[Top.at] = "then_body"
        /\ Top.at = "else" => Bodies[Top.at] = "else_body"
        /\ Top.at = "loop" => Bodies[Top.at] = "loop_body"
    BY <1>6 DEF Bodies
  <2>3. /\ Bodies[Top.at] \in Ats
        /\ Bodies[Top.at] \in FnAts <=> Top.at \in FnAts
        /\ Bodies[Top.at] \in ScopeAts <=> Top.at \in ScopeAts
        /\ Bodies[Top.at] \notin {"program", "var_dec", "assn"}
        /\ Top.at # "program"
    BY <2>2 DEF Ats, ScopeAts, FnAts
  <2>4. PICK g \in Frames : /\ g = [Top EXCEPT !.at = Bodies[Top.at]]
                            /\ g.at = Bodies[Top.at]
                            /\ g.entry = Top.entry /\ g.sym = Top.sym
    <3> DEFINE h == [Top EXCEPT !.at = Bodies[Top.at]]
    <3>1. /\ h \in Frames /\ h.at = Bodies[Top.at]
          /\ h.entry = Top.entry /\ h.sym = Top.sym
      BY <2>1, <2>3 DEF Frames
    <3> QED
      BY <3>1, Zenon
  <2>5. PICK v : v = [walk EXCEPT ![Len(walk)] = g] /\ walk' = Push(v, b)
    BY <1>6, <2>4 DEF Replace
  <2>6. ShapeOK(v) /\ Owner(v) = Owner(walk) /\ Len(walk) > 1
    <3>1. /\ ShapeOK([walk EXCEPT ![Len(walk)] = g])
          /\ Owner([walk EXCEPT ![Len(walk)] = g]) = Owner(walk)
          /\ Len(walk) > 1
      BY <2>1, <2>3, <2>4, ShapeReplace DEF IInv
    <3> QED
      BY <2>5, <3>1
  <2>7. Opened(v) = Opened(walk)
    BY <2>1, <2>3, <2>4, <2>5, OpenedReplace DEF IInv
  <2>8. Len(v) > 1 /\ v # <<>>
    BY <2>5, <2>6 DEF IInv, ShapeOK
  <2>9. \A k \in 1..Len(v) : GoodFrame(v[k])'
    <3>1. GoodFrame(g)'
      BY <1>1, <2>1, <2>3, <2>4 DEF GoodFrame, assigning
    <3>2. walk \in Seq(Frames) /\ \A k \in 1..Len(walk) : GoodFrame(walk[k])
      BY DEF IInv, ShapeOK, FramesOK
    <3> QED
      BY <1>4, <2>5, <3>1, <3>2
  <2>10. ShapeOK(walk') /\ Owner(walk') = Owner(walk)
    BY <1>2, <1>3, <2>5, <2>6, <2>8, ShapePush
  <2>11. Cardinality(Opened(walk')) = Cardinality(Opened(walk)) + 1
    BY <1>2, <1>3, <2>5, <2>6, <2>7, OpenedPush
  <2>12. FramesOK'
    BY <1>2, <2>5, <2>6, <2>9 DEF FramesOK, Push, ShapeOK
  <2>13. nodes' \in 0..MaxNodes
    BY <1>6 DEF IInv, TypeOK
  <2> QED
    BY <1>6, <2>10, <2>11, <2>12, <2>13
<1> QED
  BY <1>5, <1>6 DEF EnterBlock, b

LEMMA EnterBlockIInv == ASSUME IInv, EnterBlock PROVE IInv'
<1>1. /\ scopes' = Push(scopes, {}) /\ decls' = decls /\ symbols' = symbols
      /\ use' = use /\ reported' = reported /\ assigned' = assigned
      /\ refused' = refused /\ definite' = definite /\ arms' = arms
      /\ aborted' = aborted /\ Symbols' = Symbols
  BY DEF EnterBlock, assigning, Symbols
<1>2. scopes \in Seq(SUBSET Symbols) /\ Len(scopes) \in Nat \ {0}
  <2>1. Running
    BY EnterBlockWalk
  <2> QED
    BY <2>1, Types DEF IInv, TypeOK
<1>3. /\ scopes' \in Seq(SUBSET Symbols) /\ Len(scopes') = Len(scopes) + 1
      /\ scopes' # <<>> /\ scopes'[Len(scopes) + 1] = {}
      /\ \A d \in 1..Len(scopes) : scopes'[d] = scopes[d]
  BY <1>1, <1>2 DEF Push
<1>4. TypeOK'
  BY <1>1, <1>3, EnterBlockWalk DEF IInv, TypeOK
<1>5. DeclsOK' /\ ReadsAreInitialised' /\ NoFalseAlarms' /\ KindsOK' /\ NamesAreOwn'
  BY <1>1 DEF IInv, DeclsOK, ReadsAreInitialised, NoFalseAlarms, KindsOK, NamesAreOwn,
              Accepted
<1>6. DepthOK'
  BY <1>2, <1>3, EnterBlockWalk DEF IInv, DepthOK
<1>7. ScopesAreUnambiguous'
  BY <1>1, <1>2, <1>3 DEF IInv, ScopesAreUnambiguous
<1>8. OwnersOK'
  BY <1>1, <1>2, <1>3, EnterBlockWalk DEF IInv, OwnersOK
<1> QED
  BY <1>4, <1>5, <1>6, <1>7, <1>8, EnterBlockWalk DEF IInv

\* A scope closes with its frame; with a function's, the walk is outside again.
LEMMA LeaveScopeIInv ==
  ASSUME IInv, NEW at \in {"block", "fn_body"}, LeaveScope(at)
  PROVE  IInv'
<1>1. /\ Running /\ Top.at = at /\ scopes' = Pop(scopes) /\ walk' = Pop(walk)
      /\ decls' = decls /\ symbols' = symbols /\ nodes' = nodes
      /\ use' = use /\ reported' = reported /\ assigned' = assigned
      /\ refused' = refused /\ definite' = definite /\ arms' = arms
      /\ aborted' = aborted /\ Symbols' = Symbols
  BY DEF LeaveScope, assigning, Symbols
<1>2. /\ scopes \in Seq(SUBSET Symbols) /\ scopes # <<>> /\ Len(scopes) \in Nat \ {0}
      /\ walk # <<>> /\ Top = walk[Len(walk)]
  BY <1>1, Types DEF IInv, TypeOK
<1>3. /\ scopes' \in Seq(SUBSET Symbols) /\ Len(scopes') = Len(scopes) - 1
      /\ \A d \in 1..Len(scopes') : scopes'[d] = scopes[d]
      /\ scopes' # <<>> => Len(scopes') >= 1
  BY <1>1, <1>2, PopIs
<1>4. ShapeOK(walk')
  BY <1>1, <1>2, ShapePop DEF IInv
<1>5. Cardinality(Opened(walk')) = Cardinality(Opened(walk)) - 1
  BY <1>1, <1>2, OpenedPop DEF IInv, ScopeAts, FnAts
<1>6. FramesOK'
  <2>1. \A f \in Frames : GoodFrame(f) => GoodFrame(f)'
    BY <1>1 DEF GoodFrame
  <2> QED
    BY <1>1, <1>2, <2>1, FramesPop
<1>7. TypeOK'
  BY <1>1, <1>3 DEF IInv, TypeOK
<1>8. DeclsOK' /\ ReadsAreInitialised' /\ NoFalseAlarms' /\ KindsOK' /\ NamesAreOwn'
  BY <1>1 DEF IInv, DeclsOK, ReadsAreInitialised, NoFalseAlarms, KindsOK, NamesAreOwn,
              Accepted
<1>9. DepthOK'
  BY <1>2, <1>3, <1>5 DEF IInv, DepthOK
<1>10. ScopesAreUnambiguous'
  BY <1>1, <1>2, <1>3 DEF IInv, ScopesAreUnambiguous
<1>11. OwnersOK'
  <2>1. CASE at = "block"
    <3>1. Owner(walk') = Owner(walk)
      BY <1>1, <1>2, <2>1, ShapePop DEF IInv, FnAts
    <3> QED
      BY <1>1, <1>2, <1>3, <3>1 DEF IInv, OwnersOK
  <2>2. CASE at = "fn_body"
    <3>1. Len(walk') = 1 /\ Len(scopes') = 1
      <4>1. Len(walk') = 1
        BY <1>1, <1>2, <2>2, ShapePop DEF IInv, FnAts
      <4> QED
        BY <1>4, <1>9, <4>1, OpenedIsFinite DEF DepthOK
    <3>2. scopes'[1] = scopes[1] /\ \A s \in scopes[1] : symbols[s].fn = 0
      BY <1>2, <1>3, <3>1 DEF IInv, OwnersOK
    <3>3. \A d \in 1..Len(scopes') : d = 1
      BY <3>1
    <3>4. \A s \in Symbols : symbols[s].kind \in {"SYM_VAR", "SYM_PARAM"}
                                /\ symbols[s].fn = 0 => TopLevel
      BY DEF IInv, OwnersOK
    <3> QED
      BY <1>1, <3>2, <3>3, <3>4 DEF OwnersOK
  <2> QED
    BY <2>1, <2>2
<1> QED
  BY <1>4, <1>6, <1>7, <1>8, <1>9, <1>10, <1>11 DEF IInv

\* The last scope closes with the program.
LEMMA EndProgramIInv == ASSUME IInv, EndProgram PROVE IInv'
<1>1. /\ Running /\ Top.at = "program" /\ scopes' = Pop(scopes) /\ walk' = <<>>
      /\ decls' = decls /\ symbols' = symbols /\ nodes' = nodes
      /\ use' = use /\ reported' = reported /\ assigned' = assigned
      /\ refused' = refused /\ definite' = definite /\ arms' = arms
      /\ aborted' = aborted /\ Symbols' = Symbols
  BY DEF EndProgram, assigning, Symbols
<1>2. /\ scopes \in Seq(SUBSET Symbols) /\ scopes # <<>>
      /\ Len(walk) \in Nat /\ Len(walk) > 0
      /\ walk # <<>> /\ Top = walk[Len(walk)]
  BY <1>1, Types DEF IInv, TypeOK
<1>3. Len(walk) = 1 /\ Len(scopes) = 1
  <2>1. Len(walk) = 1
    <3>1. Len(walk) > 1 => Len(walk) \in 2..Len(walk)
      BY <1>2
    <3>2. \A k \in 2..Len(walk) : walk[k].at # "program"
      BY DEF IInv, ShapeOK
    <3>3. walk[Len(walk)].at = "program"
      BY <1>1, <1>2
    <3>4. ~(Len(walk) > 1)
      BY <3>1, <3>2, <3>3
    <3>5. Len(walk) \in Nat /\ Len(walk) > 0
      BY <1>2
    <3>6. \A n \in Nat : n > 0 /\ ~(n > 1) => n = 1
      OBVIOUS
    <3> QED
      BY <3>4, <3>5, <3>6, Zenon
  <2> QED
    BY <2>1, OpenedIsFinite DEF IInv, DepthOK
<1>4. scopes' = <<>>
  BY <1>1, <1>2, <1>3, PopIs
<1>5. ShapeOK(walk') /\ Cardinality(Opened(walk')) = 0 /\ FramesOK'
  <2>1. ShapeOK(<<>>)
    BY DEF ShapeOK
  <2> QED
    BY <1>1, <2>1, OpenedIsFinite DEF FramesOK
<1>6. TypeOK'
  BY <1>1, <1>4 DEF IInv, TypeOK
<1>7. DeclsOK' /\ ReadsAreInitialised' /\ NoFalseAlarms' /\ KindsOK' /\ NamesAreOwn'
  BY <1>1 DEF IInv, DeclsOK, ReadsAreInitialised, NoFalseAlarms, KindsOK, NamesAreOwn,
              Accepted
<1>8. DepthOK' /\ ScopesAreUnambiguous' /\ OwnersOK'
  BY <1>1, <1>4, <1>5 DEF IInv, DepthOK, ScopesAreUnambiguous, OwnersOK
<1> QED
  BY <1>5, <1>6, <1>7, <1>8 DEF IInv

\* What a lookup from here gives.
LEMMA FoundIs ==
  ASSUME IInv, NEW n
  PROVE  /\ Found(n) \in {None} \cup Symbols
         /\ Found(n) # None => /\ Found(n) \in Symbols
                               /\ symbols[Found(n)].fn \in {0, Owner(walk)}
<1>1. /\ Len(symbols) \in Nat /\ Symbols = 1..Len(symbols) /\ Len(scopes) \in Nat
      /\ \A d \in 1..Len(scopes) : scopes[d] \subseteq 1..Len(symbols)
  BY Types
<1>2. /\ Found(n) \in 0..Len(symbols)
      /\ Found(n) # None => \E d \in 1..Len(scopes) : Found(n) \in scopes[d]
  BY <1>1, LookUp DEF Found
<1> QED
  BY <1>1, <1>2 DEF IInv, OwnersOK, None

\* A step that pushes a frame of no scope, or none.
LEMMA PushMove ==
  ASSUME IInv, \A f \in Frames : GoodFrame(f) => GoodFrame(f)',
         \/ walk' = walk
         \/ \E f \in Frames : /\ f.at \notin ScopeAts /\ GoodFrame(f)'
                              /\ InStmts /\ walk' = Push(walk, f)
  PROVE  /\ ShapeOK(walk') /\ Owner(walk') = Owner(walk) /\ FramesOK'
         /\ Cardinality(Opened(walk')) = Cardinality(Opened(walk))
<1>1. CASE walk' = walk
  <2>1. walk \in Seq(Frames) /\ \A k \in 1..Len(walk) : GoodFrame(walk[k])
    BY DEF IInv, ShapeOK, FramesOK
  <2>2. \A k \in 1..Len(walk) : GoodFrame(walk[k])'
    <3>1. \A k \in 1..Len(walk) : walk[k] \in Frames
      BY <2>1
    <3> QED
      BY <1>1, <2>1, <3>1
  <2>3. FramesOK'
    BY <1>1, <2>2 DEF FramesOK
  <2> QED
    BY <1>1, <2>3 DEF IInv
<1>2. ASSUME NEW f \in Frames, f.at \notin ScopeAts, GoodFrame(f)', InStmts,
             walk' = Push(walk, f)
      PROVE  /\ ShapeOK(walk') /\ Owner(walk') = Owner(walk) /\ FramesOK'
             /\ Cardinality(Opened(walk')) = Cardinality(Opened(walk))
  <2>1. walk # <<>> /\ (Len(walk) > 1 \/ TopLevel)
    BY <1>2, Types DEF InStmts
  <2>2. f.at \notin FnAts /\ f.at # "program"
    BY <1>2 DEF ScopeAts
  <2>3. ShapeOK(walk') /\ Owner(walk') = Owner(walk)
    BY <1>2, <2>1, <2>2, ShapePush DEF IInv
  <2>4. Cardinality(Opened(walk')) = Cardinality(Opened(walk))
    BY <1>2, OpenedPush, OpenedIsFinite DEF IInv
  <2>5. FramesOK'
    BY <1>2, FramesPush
  <2> QED
    BY <2>3, <2>4, <2>5
<1> QED
  BY <1>1, <1>2

\* A name in an expression.
LEMMA NameIInv ==
  ASSUME IInv, NEW n, Name(n)
  PROVE  IInv'
<1> DEFINE s == Found(n)
<1>1. /\ use' = [node |-> "AST_NAME", sym |-> s, fn |-> Owner(walk)]
      /\ reported' = (reported \/ s = None)
      /\ refused' = (refused \/ s \notin assigned)
      /\ nodes' = nodes + 1 /\ nodes < MaxNodes
      /\ decls' = decls /\ symbols' = symbols /\ scopes' = scopes /\ walk' = walk
      /\ assigned' = assigned /\ definite' = definite /\ arms' = arms
      /\ aborted' = aborted /\ Symbols' = Symbols
  BY Types DEF Name, Report, Uses, Affords, Symbols
<1>2. s \in {None} \cup Symbols /\ (s # None => symbols[s].fn \in {0, Owner(walk)})
  BY FoundIs
<1>3. ~reported' => ~reported
  BY <1>1
<1>4. Accepted' => Accepted /\ s \in assigned
  BY <1>1 DEF Accepted
<1>5. Owner(walk) \in Nat /\ None \notin Symbols
  BY Types
<1> HIDE DEF s
<1>6. TypeOK'
  <2>1. use' \in [node : {"none", "AST_NAME", "AST_ASSN", "AST_FN_CALL"},
                  sym : {None} \cup Symbols, fn : Nat]
    BY <1>1, <1>2, <1>5
  <2>2. nodes' \in 0..MaxNodes
    BY <1>1, Bounds DEF IInv, TypeOK
  <2>3. reported' \in BOOLEAN /\ refused' \in BOOLEAN /\ aborted' \in BOOLEAN
    BY <1>1 DEF IInv, TypeOK
  <2> QED
    BY <1>1, <2>1, <2>2, <2>3 DEF IInv, TypeOK
<1>7. DeclsOK' /\ ShapeOK(walk') /\ DepthOK' /\ ReadsAreInitialised' /\ NoFalseAlarms'
      /\ OwnersOK'
  BY <1>1 DEF IInv, DeclsOK, DepthOK, ReadsAreInitialised, NoFalseAlarms, OwnersOK
<1>8. FramesOK'
  BY <1>1, <1>3 DEF IInv, FramesOK, GoodFrame
<1>9. ScopesAreUnambiguous'
  BY <1>1, <1>3 DEF IInv, ScopesAreUnambiguous
<1>10. KindsOK'
  BY <1>1, <1>3, <1>4 DEF IInv, TypeOK, KindsOK
<1>11. NamesAreOwn'
  <2> SUFFICES ASSUME Accepted'
               PROVE  /\ symbols[s].kind \in {"SYM_VAR", "SYM_PARAM"}
                      /\ symbols[s].fn = Owner(walk) \/ (TopLevel /\ symbols[s].fn = 0)
    BY <1>1 DEF NamesAreOwn
  <2>1. s \in assigned /\ s \in Symbols /\ ~reported
    BY <1>4 DEF IInv, TypeOK, Accepted
  <2>2. symbols[s].kind \in {"SYM_VAR", "SYM_PARAM"}
    BY <2>1 DEF IInv, KindsOK
  <2>3. symbols[s].fn \in {0, Owner(walk)}
    BY <1>2, <1>5, <2>1
  <2> QED
    BY <2>1, <2>2, <2>3 DEF IInv, OwnersOK
<1> QED
  BY <1>6, <1>7, <1>8, <1>9, <1>10, <1>11 DEF IInv

\* An assignment begins with its name.
LEMMA BeginAssnIInv ==
  ASSUME IInv, NEW n, BeginAssn(n)
  PROVE  IInv'
<1>1. PICK s : /\ s = Found(n)
               /\ use' = [node |-> "AST_ASSN", sym |-> s, fn |-> Owner(walk)]
               /\ reported' = (reported \/ (IF s = None THEN TRUE ELSE symbols[s].kind # "SYM_VAR"))
               /\ walk' = Push(walk, Frame("assn", s, {}))
  BY Types DEF BeginAssn, Report, Uses
<1>2. /\ nodes' = nodes + 1 /\ nodes < MaxNodes /\ InStmts
      /\ decls' = decls /\ symbols' = symbols /\ scopes' = scopes
      /\ assigned' = assigned /\ definite' = definite /\ arms' = arms
      /\ refused' = refused /\ aborted' = aborted /\ Symbols' = Symbols
  BY DEF BeginAssn, Affords, Symbols, assigning
<1>3. s \in {None} \cup Symbols /\ (s # None => symbols[s].fn \in {0, Owner(walk)})
  BY <1>1, FoundIs
<1>4. ~reported' => ~reported /\ s # None /\ symbols[s].kind = "SYM_VAR"
  BY <1>1
<1>5. Owner(walk) \in Nat /\ None \notin Symbols /\ Symbols \subseteq Nat /\ s \in Nat
  BY <1>3, Types DEF None
<1>6. TypeOK'
  <2>1. use' \in [node : {"none", "AST_NAME", "AST_ASSN", "AST_FN_CALL"},
                  sym : {None} \cup Symbols, fn : Nat]
    BY <1>1, <1>3, <1>5
  <2>2. nodes' \in 0..MaxNodes
    BY <1>2, Bounds DEF IInv, TypeOK
  <2>3. reported' \in BOOLEAN /\ refused' \in BOOLEAN /\ aborted' \in BOOLEAN
    BY <1>1, <1>2 DEF IInv, TypeOK
  <2> QED
    BY <1>2, <2>1, <2>2, <2>3 DEF IInv, TypeOK
<1>7. /\ ShapeOK(walk') /\ Owner(walk') = Owner(walk) /\ FramesOK'
      /\ Cardinality(Opened(walk')) = Cardinality(Opened(walk))
  <2>1. \A f \in Frames : GoodFrame(f) => GoodFrame(f)'
    BY <1>2, <1>4 DEF GoodFrame
  <2>2. PICK f \in Frames : /\ f = Frame("assn", s, {})
                            /\ f.at = "assn" /\ f.sym = s /\ f.entry = {}
    <3>1. "assn" \in Ats /\ {} \subseteq Nat
      BY DEF Ats
    <3> QED
      BY <1>5, <3>1, FrameIs
  <2>3. f.at \notin ScopeAts
    BY <2>2 DEF ScopeAts, FnAts
  <2>4. GoodFrame(f)'
    BY <1>2, <1>3, <1>4, <2>2 DEF GoodFrame
  <2> QED
    BY <1>1, <1>2, <2>1, <2>2, <2>3, <2>4, PushMove
<1>8. DeclsOK' /\ DepthOK' /\ ReadsAreInitialised' /\ NoFalseAlarms' /\ OwnersOK'
  BY <1>2, <1>7 DEF IInv, DeclsOK, DepthOK, ReadsAreInitialised, NoFalseAlarms, OwnersOK
<1>9. ScopesAreUnambiguous'
  BY <1>2, <1>4 DEF IInv, ScopesAreUnambiguous
<1>10. KindsOK'
  <2>1. use'.sym = s
    BY <1>1
  <2> QED
    BY <1>2, <1>3, <1>4, <2>1 DEF IInv, TypeOK, KindsOK, Accepted
<1>11. NamesAreOwn'
  <2> SUFFICES ASSUME ~reported'
               PROVE  /\ symbols[s].kind \in {"SYM_VAR", "SYM_PARAM"}
                      /\ symbols[s].fn = Owner(walk) \/ (TopLevel /\ symbols[s].fn = 0)
    BY <1>1, <1>2 DEF NamesAreOwn, Accepted
  <2>1. s \in Symbols /\ symbols[s].kind = "SYM_VAR" /\ symbols[s].fn \in {0, Owner(walk)}
    BY <1>3, <1>4
  <2> QED
    BY <2>1 DEF IInv, OwnersOK
<1> QED
  BY <1>6, <1>7, <1>8, <1>9, <1>10, <1>11 DEF IInv

\* A new symbol in no scope changes nothing about the others.
LEMMA SymbolsGrow ==
  ASSUME IInv, NEW r \in SymbolType,
         symbols' = Append(symbols, r)
  PROVE  /\ Len(symbols') = Len(symbols) + 1 /\ symbols'[Len(symbols) + 1] = r
         /\ Symbols' = Symbols \cup {Len(symbols) + 1}
         /\ Len(symbols) + 1 \notin Symbols
         /\ \A s \in Symbols : symbols'[s] = symbols[s]
         /\ \A d \in 1..Len(scopes) : \A s \in scopes[d] :
              s \in Symbols /\ symbols'[s] = symbols[s]
<1>1. /\ symbols \in Seq(SymbolType)
      /\ Len(symbols) \in Nat
  BY Types DEF IInv, TypeOK
<1>2. /\ Len(symbols') = Len(symbols) + 1 /\ symbols'[Len(symbols) + 1] = r
      /\ \A s \in 1..Len(symbols) : symbols'[s] = symbols[s]
  BY <1>1
<1>3. /\ Symbols' = Symbols \cup {Len(symbols) + 1}
      /\ Len(symbols) + 1 \notin Symbols
  BY <1>1, <1>2 DEF Symbols
<1>4. \A d \in 1..Len(scopes) : scopes[d] \subseteq Symbols
  BY Types
<1> QED
  BY <1>2, <1>3, <1>4 DEF Symbols

\* A call, in an expression or as a statement.
LEMMA CallIInv ==
  ASSUME IInv, NEW n \in Names, NEW args, Call(n, args)
  PROVE  IInv'
<1>1. /\ nodes' = nodes + 1 /\ nodes < MaxNodes
      /\ decls' = decls /\ scopes' = scopes
      /\ assigned' = assigned /\ definite' = definite /\ arms' = arms
      /\ refused' = refused /\ aborted' = aborted
      /\ use'.node = "AST_FN_CALL"
  <2>1. FnCall(n, args)
    BY DEF Call
  <2>2. use'.node = "AST_FN_CALL"
    <3>1. \E x : use' = [node |-> "AST_FN_CALL", sym |-> x, fn |-> ThisFn]
      BY <2>1, Zenon DEF FnCall, Uses
    <3> QED
      BY <3>1
  <2>3. UNCHANGED <<decls, scopes, assigning, aborted>> /\ nodes' = nodes + 1 /\ Affords
    BY <2>1, Zenon DEF FnCall
  <2> QED
    BY <2>2, <2>3 DEF assigning, Affords
<1>2. reported' \in BOOLEAN /\ (~reported' => ~reported)
  BY DEF Call, FnCall, Report, IInv, TypeOK
<1>3. /\ Len(symbols') \in Nat /\ Len(symbols) <= Len(symbols')
      /\ Symbols \subseteq Symbols'
      /\ \A s \in Symbols : symbols'[s] = symbols[s]
      /\ \A d \in 1..Len(scopes) : \A s \in scopes[d] :
           s \in Symbols /\ symbols'[s] = symbols[s]
      /\ \A s \in Symbols' : s \in Symbols \/ symbols'[s].kind = "SYM_BUILTIN_FN"
      /\ symbols' \in Seq(SymbolType)
      /\ use' \in [node : {"none", "AST_NAME", "AST_ASSN", "AST_FN_CALL"},
                   sym : {None} \cup Symbols', fn : Nat]
  <2>1. CASE n = "print"
    <3> DEFINE r == Symbol(n, "SYM_BUILTIN_FN", 0, 0)
    <3>1. /\ symbols' = Append(symbols, r)
          /\ use' = [node |-> "AST_FN_CALL", sym |-> Len(symbols) + 1, fn |-> Owner(walk)]
      BY <2>1, Types DEF Call, FnCall, Push, Uses
    <3>2. /\ r.kind = "SYM_BUILTIN_FN"
          /\ r \in SymbolType
      BY DEF Symbol, SymbolType
    <3> HIDE DEF r
    <3>3. Len(symbols) \in Nat /\ Owner(walk) \in Nat
      BY Types
    <3>4. symbols' \in Seq(SymbolType)
      BY <3>1, <3>2 DEF IInv, TypeOK
    <3>5. /\ Len(symbols') = Len(symbols) + 1 /\ symbols'[Len(symbols) + 1] = r
          /\ Symbols' = Symbols \cup {Len(symbols) + 1}
          /\ \A s \in Symbols : symbols'[s] = symbols[s]
          /\ \A d \in 1..Len(scopes) : \A s \in scopes[d] :
               s \in Symbols /\ symbols'[s] = symbols[s]
      BY <3>1, <3>2, SymbolsGrow
    <3>6. use' \in [node : {"none", "AST_NAME", "AST_ASSN", "AST_FN_CALL"},
                    sym : {None} \cup Symbols', fn : Nat]
      BY <3>1, <3>3, <3>5
    <3>7. /\ Len(symbols') \in Nat /\ Len(symbols) <= Len(symbols')
          /\ Symbols \subseteq Symbols'
          /\ \A s \in Symbols' : s \in Symbols \/ symbols'[s].kind = "SYM_BUILTIN_FN"
      BY <3>2, <3>3, <3>5
    <3> QED
      BY <3>4, <3>5, <3>6, <3>7
  <2>2. CASE n # "print"
    <3>1. /\ symbols' = symbols /\ Symbols' = Symbols
          /\ use' = [node |-> "AST_FN_CALL", sym |-> Found(n), fn |-> Owner(walk)]
      BY <2>2, Types DEF Call, FnCall, Uses, Symbols
    <3>2. Found(n) \in {None} \cup Symbols
      BY FoundIs
    <3> QED
      BY <3>1, <3>2, Types DEF IInv, TypeOK
  <2> QED
    BY <2>1, <2>2
<1>4. \A f \in Frames : GoodFrame(f) => GoodFrame(f)'
  <2>1. assigned \subseteq assigned' /\ (reported => reported')
    BY <1>1, <1>2
  <2> QED
    BY <1>3, <2>1, FrameGrows
<1>5. /\ ShapeOK(walk') /\ Owner(walk') = Owner(walk) /\ FramesOK'
      /\ Cardinality(Opened(walk')) = Cardinality(Opened(walk))
  <2>1. PICK f \in Frames : /\ f = Frame("expr_stmt", None, {})
                            /\ f.at = "expr_stmt" /\ f.entry = {}
    <3>1. "expr_stmt" \in Ats /\ {} \subseteq Nat /\ None \in Nat
      BY DEF Ats, None
    <3> QED
      BY <3>1, FrameIs
  <2>2. f.at \notin ScopeAts /\ GoodFrame(f)'
    BY <2>1 DEF ScopeAts, FnAts, GoodFrame
  <2>3. walk' = walk \/ (InStmts /\ walk' = Push(walk, f))
    BY <2>1 DEF Call
  <2> QED
    BY <1>4, <2>2, <2>3, PushMove
<1>6. TypeOK'
  <2>1. nodes' \in 0..MaxNodes /\ aborted' \in BOOLEAN /\ refused' \in BOOLEAN
    BY <1>1, Bounds DEF IInv, TypeOK
  <2>2. scopes' \in Seq(SUBSET Symbols')
    BY <1>1, <1>3 DEF IInv, TypeOK
  <2>3. assigned' \subseteq Symbols' /\ definite' \subseteq Symbols' /\ arms' \subseteq Symbols'
    BY <1>1, <1>3 DEF IInv, TypeOK
  <2> QED
    BY <1>2, <1>3, <2>1, <2>2, <2>3 DEF TypeOK
<1>7. DeclsOK' /\ DepthOK' /\ ReadsAreInitialised' /\ NoFalseAlarms'
  BY <1>1, <1>5 DEF IInv, DeclsOK, DepthOK, ReadsAreInitialised, NoFalseAlarms
<1>8. OwnersOK'
  <2>1. \A d \in 1..Len(scopes') : \A s \in scopes'[d] : symbols'[s].fn \in {0, Owner(walk)}
    BY <1>1, <1>3 DEF IInv, OwnersOK
  <2>2. scopes' # <<>> => \A s \in scopes'[1] : symbols'[s].fn = 0
    <3>1. scopes # <<>> => 1 \in 1..Len(scopes) /\ \A s \in scopes[1] : symbols[s].fn = 0
      BY Types DEF IInv, OwnersOK, TypeOK
    <3> QED
      BY <1>1, <1>3, <3>1
  <2>3. \A s \in Symbols' :
          symbols'[s].kind \in {"SYM_VAR", "SYM_PARAM"} /\ symbols'[s].fn = 0 => TopLevel
    BY <1>3 DEF IInv, OwnersOK
  <2> QED
    BY <1>5, <2>1, <2>2, <2>3 DEF OwnersOK
<1>9. ScopesAreUnambiguous'
  <2> SUFFICES ASSUME ~reported', NEW d \in 1..Len(scopes'),
                      NEW s \in scopes'[d], NEW t \in scopes'[d], s # t
               PROVE  symbols'[s].name # symbols'[t].name
    BY DEF ScopesAreUnambiguous
  <2>1. symbols[s].name # symbols[t].name
    BY <1>1, <1>2 DEF IInv, ScopesAreUnambiguous
  <2> QED
    BY <1>1, <1>3, <2>1
<1>10. KindsOK' /\ NamesAreOwn'
  <2>1. ~reported' => \A s \in assigned' : symbols'[s].kind \in {"SYM_VAR", "SYM_PARAM"}
    <3>1. assigned \subseteq Symbols
      BY DEF IInv, TypeOK
    <3> QED
      BY <1>1, <1>2, <1>3, <3>1 DEF IInv, KindsOK
  <2> QED
    BY <1>1, <2>1 DEF KindsOK, NamesAreOwn
<1> QED
  BY <1>5, <1>6, <1>7, <1>8, <1>9, <1>10 DEF IInv

\* A variable is declared: of a repeated name nothing is kept but the error.
LEMMA BeginVarDecIInv ==
  ASSUME IInv, NEW n \in Names, NEW initialised \in BOOLEAN, BeginVarDec(n, initialised)
  PROVE  IInv'
<1> DEFINE r == Symbol(n, "SYM_VAR", 0, Owner(walk))
           N == Len(symbols)
<1>1. /\ nodes' = nodes + 1 /\ nodes < MaxNodes /\ InStmts /\ Running
      /\ decls' = decls /\ use' = use
      /\ assigned' = assigned /\ definite' = definite /\ arms' = arms
      /\ refused' = refused /\ aborted' = aborted
      /\ reported' = (reported \/ symbol_in_scope(n))
  BY DEF BeginVarDec, InStmts, Affords, assigning, Report
<1>2. /\ r \in SymbolType
      /\ r.kind = "SYM_VAR" /\ r.name = n /\ r.fn = Owner(walk)
  BY Types DEF Symbol, SymbolType
<1>3. /\ N \in Nat /\ scopes \in Seq(SUBSET Symbols) /\ Len(scopes) \in Nat \ {0}
      /\ Symbols = 1..N
  BY <1>1, Types DEF IInv, TypeOK
<1>4. symbol_in_scope(n) => symbols' = symbols /\ scopes' = scopes
  BY DEF BeginVarDec
<1>5. ~symbol_in_scope(n) =>
        /\ symbols' = Append(symbols, r)
        /\ scopes' = [scopes EXCEPT ![Len(scopes)] = @ \cup {N + 1}]
  BY Types DEF BeginVarDec, Push
<1> HIDE DEF r
<1>6. /\ Len(symbols') \in Nat /\ N <= Len(symbols')
      /\ Symbols \subseteq Symbols'
      /\ \A s \in Symbols : symbols'[s] = symbols[s]
      /\ \A d \in 1..Len(scopes) : \A s \in scopes[d] :
           s \in Symbols /\ symbols'[s] = symbols[s]
      /\ \A s \in Symbols' : s \in Symbols \/ symbols'[s] = r
      /\ ~symbol_in_scope(n) =>
           N + 1 \in Symbols' /\ symbols'[N + 1] = r /\ N + 1 \notin Symbols
      /\ symbols' \in Seq(SymbolType)
  <2>1. CASE symbol_in_scope(n)
    <3>1. symbols' = symbols /\ Symbols' = Symbols
      BY <1>4, <2>1 DEF Symbols
    <3> QED
      BY <1>3, <2>1, <3>1, Types DEF IInv, TypeOK
  <2>2. CASE ~symbol_in_scope(n)
    <3>1. symbols' = Append(symbols, r)
      BY <1>5, <2>2
    <3>2. symbols' \in Seq(SymbolType)
      BY <1>2, <3>1 DEF IInv, TypeOK
    <3>3. /\ Len(symbols') = N + 1 /\ symbols'[N + 1] = r
          /\ Symbols' = Symbols \cup {N + 1} /\ N + 1 \notin Symbols
          /\ \A s \in Symbols : symbols'[s] = symbols[s]
          /\ \A d \in 1..Len(scopes) : \A s \in scopes[d] :
               s \in Symbols /\ symbols'[s] = symbols[s]
      BY <1>2, <3>1, SymbolsGrow
    <3> QED
      BY <1>3, <3>2, <3>3
  <2> QED
    BY <2>1, <2>2
<1>7. /\ Len(scopes') = Len(scopes) /\ scopes' \in Seq(SUBSET Symbols')
      /\ \A d \in 1..Len(scopes) - 1 : scopes'[d] = scopes[d]
      /\ symbol_in_scope(n) => scopes'[Len(scopes)] = scopes[Len(scopes)]
      /\ ~symbol_in_scope(n) =>
           scopes'[Len(scopes)] = scopes[Len(scopes)] \cup {N + 1}
  <2>1. CASE symbol_in_scope(n)
    BY <1>3, <1>4, <1>6, <2>1
  <2>2. CASE ~symbol_in_scope(n)
    <3>1. scopes \in Seq(SUBSET Symbols')
      BY <1>3, <1>6
    <3>2. scopes[Len(scopes)] \cup {N + 1} \in SUBSET Symbols'
      BY <1>3, <1>6, <2>2, <3>1
    <3> QED
      BY <1>3, <1>5, <2>2, <3>1, <3>2
  <2> QED
    BY <2>1, <2>2
<1>8. \A d \in 1..Len(scopes') : \A s \in scopes'[d] :
        \/ s \in scopes[d] /\ s \in Symbols /\ symbols'[s] = symbols[s]
        \/ /\ ~symbol_in_scope(n) /\ d = Len(scopes)
           /\ s = N + 1 /\ symbols'[s] = r
  <2> SUFFICES ASSUME NEW d \in 1..Len(scopes'), NEW s \in scopes'[d], s \notin scopes[d]
               PROVE  /\ ~symbol_in_scope(n) /\ d = Len(scopes)
                      /\ s = N + 1 /\ symbols'[s] = r
    BY <1>6, <1>7
  <2>1. d = Len(scopes)
    BY <1>3, <1>7
  <2>2. ~symbol_in_scope(n) /\ s = N + 1
    BY <1>7, <2>1
  <2> QED
    BY <1>6, <2>1, <2>2
<1>9. \A f \in Frames : GoodFrame(f) => GoodFrame(f)'
  <2>1. assigned \subseteq assigned' /\ (reported => reported')
    BY <1>1
  <2> QED
    BY <1>6, <2>1, FrameGrows
<1>10. /\ ShapeOK(walk') /\ Owner(walk') = Owner(walk) /\ FramesOK'
       /\ Cardinality(Opened(walk')) = Cardinality(Opened(walk))
  <2>1. PICK t : t = (IF symbol_in_scope(n) THEN None ELSE N + 1)
    OBVIOUS
  <2>2. PICK f \in Frames : /\ f = Frame("var_dec", t, {})
                            /\ f.at = "var_dec" /\ f.sym = t /\ f.entry = {}
    <3>1. "var_dec" \in Ats /\ {} \subseteq Nat /\ t \in Nat
      BY <1>3, <2>1 DEF Ats, None
    <3> QED
      BY <3>1, FrameIs
  <2>3. f.at \notin ScopeAts
    BY <2>2 DEF ScopeAts, FnAts
  <2>4. GoodFrame(f)'
    <3>1. t = None \/ (t \in Symbols' /\ symbols'[t].kind = "SYM_VAR")
      BY <1>2, <1>6, <2>1
    <3> QED
      BY <2>2, <3>1 DEF GoodFrame
  <2>5. walk' = walk \/ walk' = Push(walk, f)
    BY <2>1, <2>2 DEF BeginVarDec
  <2> QED
    BY <1>1, <1>9, <2>3, <2>4, <2>5, PushMove
<1>11. TypeOK'
  <2>1. nodes' \in 0..MaxNodes /\ aborted' \in BOOLEAN /\ refused' \in BOOLEAN
    BY <1>1, Bounds DEF IInv, TypeOK
  <2>2. reported' \in BOOLEAN
    BY <1>1 DEF IInv, TypeOK
  <2>3. assigned' \subseteq Symbols' /\ definite' \subseteq Symbols' /\ arms' \subseteq Symbols'
    BY <1>1, <1>6 DEF IInv, TypeOK
  <2>4. use' \in [node : {"none", "AST_NAME", "AST_ASSN", "AST_FN_CALL"},
                  sym : {None} \cup Symbols', fn : Nat]
    BY <1>1, <1>6 DEF IInv, TypeOK
  <2> QED
    BY <1>6, <1>7, <2>1, <2>2, <2>3, <2>4 DEF TypeOK
<1>12. DeclsOK' /\ DepthOK' /\ ReadsAreInitialised' /\ NoFalseAlarms'
  BY <1>1, <1>7, <1>10 DEF IInv, DeclsOK, DepthOK, ReadsAreInitialised, NoFalseAlarms
<1>13. OwnersOK'
  <2>1. \A d \in 1..Len(scopes') : \A s \in scopes'[d] : symbols'[s].fn \in {0, Owner(walk)}
    BY <1>2, <1>7, <1>8 DEF IInv, OwnersOK
  <2>2. \A s \in scopes'[1] : symbols'[s].fn = 0
    <3>1. Len(scopes) = 1 => Owner(walk) = 0
      BY <1>1, <1>3, Types
    <3>2. \A s \in scopes[1] : symbols[s].fn = 0
      BY <1>3 DEF IInv, OwnersOK
    <3>3. 1 \in 1..Len(scopes')
      BY <1>3, <1>7
    <3> QED
      BY <1>2, <1>3, <1>8, <3>1, <3>2, <3>3
  <2>3. \A s \in Symbols' :
          symbols'[s].kind \in {"SYM_VAR", "SYM_PARAM"} /\ symbols'[s].fn = 0 => TopLevel
    <3>1. r.fn = 0 => TopLevel
      BY <1>1, <1>2, Types
    <3> QED
      BY <1>6, <3>1 DEF IInv, OwnersOK
  <2> QED
    BY <1>10, <2>1, <2>2, <2>3 DEF OwnersOK
<1>14. ScopesAreUnambiguous'
  <2> SUFFICES ASSUME ~reported', NEW d \in 1..Len(scopes'),
                      NEW s \in scopes'[d], NEW t \in scopes'[d], s # t
               PROVE  symbols'[s].name # symbols'[t].name
    BY DEF ScopesAreUnambiguous
  <2>1. ~reported /\ ~symbol_in_scope(n)
    BY <1>1
  <2>2. \A u \in scopes[Len(scopes)] : symbols[u].name # n
    BY <2>1 DEF symbol_in_scope
  <2>3. \A u, v \in scopes[d] : u # v => symbols[u].name # symbols[v].name
    BY <1>7, <2>1 DEF IInv, ScopesAreUnambiguous
  <2> QED
    BY <1>2, <1>8, <2>2, <2>3
<1>15. KindsOK' /\ NamesAreOwn'
  <2>1. ~reported' => ~reported
    BY <1>1
  <2>2. assigned \subseteq Symbols
    BY DEF IInv, TypeOK
  <2>3. KindsOK'
    BY <1>1, <1>6, <2>1, <2>2 DEF IInv, KindsOK, Accepted
  <2>4. NamesAreOwn'
    BY <1>1, <1>6, <2>1 DEF IInv, KindsOK, NamesAreOwn, Accepted
  <2> QED
    BY <2>3, <2>4
<1> QED
  BY <1>10, <1>11, <1>12, <1>13, <1>14, <1>15 DEF IInv

\* A function begins: its parameters' scope is the only one besides the global.
LEMMA FnDecIInv == ASSUME IInv, FnDec PROVE IInv'
<1> DEFINE N == Len(symbols)
<1>1. PICK i, ps, P :
        /\ i = walk[1].sym /\ P = Len(decls[i].params) /\ ps = N + 1..N + P
        /\ i <= Len(decls)
        /\ symbols' = symbols \o [k \in 1..P |-> Symbol(decls[i].params[k], "SYM_PARAM", 0, i)]
        /\ scopes' = Push(scopes, ps)
        /\ reported' = (reported \/ \E j, k \in 1..P :
                          j # k /\ decls[i].params[j] = decls[i].params[k])
        /\ assigned' = assigned \cup ps /\ definite' = definite \cup ps
        /\ walk' = <<Frame("program", i + 1, {}), Frame("fn", None, {})>>
  BY Zenon DEF FnDec, Report
<1>2. /\ Running /\ Top.at = "program"
      /\ decls' = decls /\ use' = use /\ refused' = refused /\ arms' = arms
      /\ nodes' = nodes /\ aborted' = aborted
  BY DEF FnDec
<1>3. /\ scopes \in Seq(SUBSET Symbols) /\ Len(scopes) \in Nat \ {0}
      /\ walk # <<>> /\ Top = walk[Len(walk)] /\ N \in Nat /\ Symbols = 1..N
  BY <1>2, Types DEF IInv, TypeOK
<1>4. Len(walk) = 1
  <2>1. Len(walk) > 1 => Len(walk) \in 2..Len(walk)
    BY Types
  <2>2. \A k \in 2..Len(walk) : walk[k].at # "program"
    BY DEF IInv, ShapeOK
  <2>3. ~(Len(walk) > 1)
    BY <1>2, <1>3, <2>1, <2>2
  <2>4. Len(walk) \in Nat /\ Len(walk) > 0
    BY <1>2, Types
  <2>5. \A n \in Nat : n > 0 /\ ~(n > 1) => n = 1
    OBVIOUS
  <2> QED
    BY <2>3, <2>4, <2>5, Zenon
<1>5. Len(scopes) = 1 /\ i \in Nat \ {0}
  BY <1>1, <1>3, <1>4, OpenedIsFinite DEF IInv, DepthOK, ShapeOK
<1>6. P \in Nat /\ \A k \in 1..P : decls[i].params[k] \in Names
  <2>1. decls[i] \in DeclType
    <3>1. decls \in Seq(DeclType) /\ i \in 1..Len(decls)
      <4>1. i <= Len(decls) /\ decls \in Seq(DeclType)
        BY <1>1, Zenon DEF IInv, DeclsOK
      <4> QED
        BY <1>5, <4>1
    <3> QED
      BY <3>1
  <2>2. decls[i].params \in Seq(Names)
    BY <2>1, Bounds DEF DeclType
  <2>3. P = Len(decls[i].params)
    BY <1>1, Zenon
  <2>4. P \in Nat
    BY <2>2, <2>3
  <2> QED
    BY <2>2, <2>3, <2>4
<1>7. PICK q : /\ q = [k \in 1..P |-> Symbol(decls[i].params[k], "SYM_PARAM", 0, i)]
               /\ q \in Seq(SymbolType)
               /\ Len(q) = P
               /\ \A k \in 1..P : /\ q[k].kind = "SYM_PARAM" /\ q[k].fn = i
                                  /\ q[k].name = decls[i].params[k]
  <2> DEFINE p == [k \in 1..P |-> Symbol(decls[i].params[k], "SYM_PARAM", 0, i)]
  <2>1. \A k \in 1..P :
          /\ p[k] \in SymbolType
          /\ p[k].kind = "SYM_PARAM" /\ p[k].fn = i /\ p[k].name = decls[i].params[k]
    BY <1>5, <1>6 DEF Symbol, SymbolType
  <2>2. /\ p \in Seq(SymbolType)
        /\ Len(p) = P
    BY <1>6, <2>1
  <2> QED
    BY <2>1, <2>2, Zenon
<1>8. /\ symbols' \in Seq(SymbolType)
      /\ Len(symbols') = N + P
      /\ \A s \in 1..N : symbols'[s] = symbols[s]
      /\ \A s \in N + 1..N + P : symbols'[s] = q[s - N]
  <2>1. symbols \in Seq(SymbolType)
    BY DEF IInv, TypeOK
  <2>2. symbols' = symbols \o q
    BY <1>1, <1>7
  <2>3. /\ symbols' \in Seq(SymbolType)
        /\ Len(symbols') = Len(symbols) + Len(q)
        /\ \A j \in 1..Len(symbols) + Len(q) :
             symbols'[j] = IF j <= Len(symbols) THEN symbols[j] ELSE q[j - Len(symbols)]
    <3>1. q \in Seq(SymbolType)
      BY <1>7
    <3> QED
      BY <2>1, <2>2, <3>1, ConcatProperties
  <2>4. Len(q) = P /\ N \in Nat /\ P \in Nat
    BY <1>3, <1>6, <1>7
  <2> QED
    BY <2>3, <2>4
<1>9. /\ Symbols' = Symbols \cup ps /\ ps \cap Symbols = {} /\ ps \subseteq Nat
      /\ \A s \in ps : /\ s - N \in 1..P
                       /\ symbols'[s].kind = "SYM_PARAM" /\ symbols'[s].fn = i
                       /\ symbols'[s].name = decls[i].params[s - N]
  <2>1. Symbols = 1..N /\ Symbols' = 1..N + P /\ ps = N + 1..N + P
    BY <1>1, <1>8 DEF Symbols
  <2>2. N \in Nat /\ P \in Nat
    BY <1>3, <1>6
  <2>3. Symbols' = Symbols \cup ps /\ ps \cap Symbols = {} /\ ps \subseteq Nat
    BY <2>1, <2>2
  <2>4. \A s \in ps : s - N \in 1..P /\ symbols'[s] = q[s - N]
    BY <1>8, <2>1, <2>2
  <2> QED
    BY <1>7, <2>3, <2>4
<1>10. /\ scopes' \in Seq(SUBSET Symbols') /\ Len(scopes') = 2
       /\ scopes'[1] = scopes[1] /\ scopes'[2] = ps /\ scopes[1] \subseteq Symbols
  <2>1. scopes \in Seq(SUBSET Symbols') /\ ps \in SUBSET Symbols'
    BY <1>3, <1>9
  <2>2. Len(scopes) = 1 /\ scopes' = Append(scopes, ps)
    BY <1>1, <1>5 DEF Push
  <2>3. /\ scopes' \in Seq(SUBSET Symbols') /\ Len(scopes') = Len(scopes) + 1
        /\ scopes'[Len(scopes) + 1] = ps /\ scopes'[1] = scopes[1]
    <3>1. PICK Subsets : Subsets = SUBSET Symbols'
      OBVIOUS
    <3>2. scopes \in Seq(Subsets) /\ ps \in Subsets
      BY <2>1, <3>1
    <3>3. /\ Append(scopes, ps) \in Seq(Subsets)
          /\ Len(Append(scopes, ps)) = Len(scopes) + 1
          /\ \A j \in 1..Len(scopes) : Append(scopes, ps)[j] = scopes[j]
          /\ Append(scopes, ps)[Len(scopes) + 1] = ps
      BY <3>2, AppendProperties
    <3>4. 1 \in 1..Len(scopes)
      BY <2>2
    <3>5. Append(scopes, ps)[1] = scopes[1]
      BY <3>3, <3>4
    <3> QED
      BY <2>2, <3>1, <3>3, <3>5
  <2> QED
    BY <1>3, <2>2, <2>3
<1>11. PICK f \in Frames, g \in Frames :
         /\ walk' = <<f, g>>
         /\ f.at = "program" /\ f.sym = i + 1 /\ f.entry = {}
         /\ g.at = "fn" /\ g.sym = None /\ g.entry = {}
  <2>1. /\ "program" \in Ats /\ "fn" \in Ats /\ {} \subseteq Nat
        /\ None \in Nat /\ i + 1 \in Nat
    BY <1>5 DEF Ats, ScopeAts, FnAts, None
  <2>2. /\ Frame("program", i + 1, {}) \in Frames
        /\ Frame("program", i + 1, {}).at = "program"
        /\ Frame("program", i + 1, {}).sym = i + 1
        /\ Frame("program", i + 1, {}).entry = {}
    BY <2>1, FrameIs
  <2>3. /\ Frame("fn", None, {}) \in Frames /\ Frame("fn", None, {}).at = "fn"
        /\ Frame("fn", None, {}).sym = None /\ Frame("fn", None, {}).entry = {}
    BY <2>1, FrameIs
  <2> QED
    BY <1>1, <2>2, <2>3, Zenon
<1>12. Len(walk') = 2 /\ walk'[1] = f /\ walk'[2] = g /\ walk' \in Seq(Frames)
  BY <1>11
<1>13. ShapeOK(walk') /\ Owner(walk') = i
  BY <1>5, <1>11, <1>12 DEF ShapeOK, Owner, FnAts
<1>14. DepthOK'
  <2>1. Opened(walk') = 1..2
    BY <1>11, <1>12 DEF Opened, ScopeAts, FnAts
  <2>2. Cardinality(1..2) = 2
    <3>1. 1 \in Int /\ 2 \in Int
      OBVIOUS
    <3>2. Cardinality(1..2) = IF 1 > 2 THEN 0 ELSE 2 - 1 + 1
      BY <3>1, FS_Interval, Zenon
    <3> QED
      BY <3>2
  <2> QED
    BY <1>10, <2>1, <2>2 DEF DepthOK
<1>15. FramesOK'
  BY <1>11, <1>12 DEF FramesOK, GoodFrame
<1>16. TypeOK'
  <2>1. reported' \in BOOLEAN
    BY <1>1 DEF IInv, TypeOK
  <2>2. assigned' \subseteq Symbols' /\ definite' \subseteq Symbols' /\ arms' \subseteq Symbols'
    BY <1>1, <1>2, <1>9 DEF IInv, TypeOK
  <2>3. use' \in [node : {"none", "AST_NAME", "AST_ASSN", "AST_FN_CALL"},
                  sym : {None} \cup Symbols', fn : Nat]
    BY <1>2, <1>9 DEF IInv, TypeOK
  <2> QED
    BY <1>2, <1>8, <1>10, <2>1, <2>2, <2>3 DEF IInv, TypeOK
<1>17. DeclsOK' /\ ReadsAreInitialised' /\ NoFalseAlarms'
  BY <1>1, <1>2 DEF IInv, DeclsOK, ReadsAreInitialised, NoFalseAlarms
<1>18. \A s \in Symbols : symbols'[s] = symbols[s]
  BY <1>3, <1>8
<1>19. OwnersOK'
  <2>1. \A s \in scopes[1] : symbols'[s].fn = 0
    BY <1>3, <1>10, <1>18 DEF IInv, OwnersOK
  <2>2. \A d \in 1..Len(scopes') : d = 1 \/ d = 2
    BY <1>10
  <2>3. \A s \in Symbols' :
          symbols'[s].kind \in {"SYM_VAR", "SYM_PARAM"} /\ symbols'[s].fn = 0 => TopLevel
    BY <1>5, <1>9, <1>18 DEF IInv, OwnersOK
  <2> QED
    BY <1>9, <1>10, <1>13, <2>1, <2>2, <2>3 DEF OwnersOK
<1>20. ScopesAreUnambiguous'
  <2> SUFFICES ASSUME ~reported', NEW d \in 1..Len(scopes'),
                      NEW s \in scopes'[d], NEW t \in scopes'[d], s # t
               PROVE  symbols'[s].name # symbols'[t].name
    BY DEF ScopesAreUnambiguous
  <2>1. CASE d = 1
    <3>1. symbols[s].name # symbols[t].name
      <4>1. 1 \in 1..Len(scopes) /\ s \in scopes[1] /\ t \in scopes[1] /\ ~reported
        <5>1. ~reported
          BY <1>1
        <5> QED
          BY <1>5, <1>10, <2>1, <5>1
      <4> QED
        BY <4>1 DEF IInv, ScopesAreUnambiguous
    <3> QED
      BY <1>10, <1>18, <2>1, <3>1
  <2>2. CASE d = 2
    <3>1. s \in ps /\ t \in ps /\ s \in Nat /\ t \in Nat
      BY <1>9, <1>10, <2>2
    <3>2. s - N \in 1..P /\ t - N \in 1..P /\ s - N # t - N
      BY <1>3, <1>9, <3>1
    <3>3. \A j, k \in 1..P : j # k => decls[i].params[j] # decls[i].params[k]
      BY <1>1
    <3> QED
      BY <1>9, <3>1, <3>2, <3>3
  <2> QED
    BY <1>10, <2>1, <2>2
<1>21. KindsOK' /\ NamesAreOwn'
  <2>1. ~reported' => ~reported
    BY <1>1
  <2>2. \A s \in assigned' : (s \in assigned /\ s \in Symbols) \/ s \in ps
    BY <1>1 DEF IInv, TypeOK
  <2>3. ~reported' => \A s \in assigned' : symbols'[s].kind \in {"SYM_VAR", "SYM_PARAM"}
    BY <1>9, <1>18, <2>1, <2>2 DEF IInv, KindsOK
  <2>4. Accepted' => Accepted
    BY <1>2, <2>1 DEF Accepted
  <2>5. KindsOK'
    BY <1>2, <1>9, <2>3, <2>4 DEF IInv, KindsOK
  <2>6. NamesAreOwn'
    BY <1>2, <1>18, <2>4 DEF IInv, KindsOK, NamesAreOwn
  <2> QED
    BY <2>5, <2>6
<1> QED
  BY <1>13, <1>14, <1>15, <1>16, <1>17, <1>19, <1>20, <1>21 DEF IInv

LEMMA InitIInv == Init => IInv
<1> SUFFICES ASSUME Init PROVE IInv
  OBVIOUS
<1>1. PICK k \in 0..MaxFunctions : decls \in [1..k -> DeclType]
  BY DEF Init
<1>2. k \in Nat /\ DeclsOK /\ Len(decls) = k
  <2>1. k \in Nat
    BY Bounds
  <2> QED
    BY <1>1, <2>1 DEF DeclsOK
<1>3. \A i \in 1..k : decls[i].name \in Names /\ Len(decls[i].params) \in Nat
  <2> SUFFICES ASSUME NEW i \in 1..k
               PROVE  decls[i].name \in Names /\ Len(decls[i].params) \in Nat
    OBVIOUS
  <2>1. decls[i] \in DeclType
    BY <1>1
  <2>2. decls[i].params \in Seq(Names)
    BY <2>1, Bounds DEF DeclType
  <2> QED
    BY <2>1, <2>2, Bounds DEF DeclType
<1>4. symbols = [i \in 1..k |-> Symbol(decls[i].name, "SYM_FN", Len(decls[i].params), 0)]
  BY <1>2 DEF Init
<1>5. \A i \in 1..k :
        /\ symbols[i] \in SymbolType
        /\ symbols[i].name = decls[i].name /\ symbols[i].kind = "SYM_FN"
        /\ symbols[i].fn = 0
  BY <1>3, <1>4 DEF Symbol, SymbolType
<1>6. /\ symbols \in Seq(SymbolType)
      /\ Len(symbols) = k /\ Symbols = 1..k
  BY <1>2, <1>4, <1>5 DEF Symbols
<1>7. Len(scopes) = 1 /\ scopes[1] = 1..k /\ scopes \in Seq(SUBSET Symbols)
  BY <1>2, <1>6 DEF Init
<1>8. /\ walk = <<Frame("program", 1, {})>> /\ use = [node |-> "none", sym |-> None, fn |-> 0]
      /\ assigned = {} /\ definite = {} /\ arms = {} /\ nodes = 0
      /\ refused = FALSE /\ aborted = FALSE
  BY DEF Init
<1>9. reported \in BOOLEAN
      /\ (~reported => \A i, j \in 1..k : i # j => decls[i].name # decls[j].name)
  <2>1. reported = (\/ \E i, j \in 1..k : i # j /\ decls[i].name = decls[j].name
                    \/ \A i \in 1..k : decls[i].name # "main")
    BY <1>2, Zenon DEF Init
  <2> QED
    BY <2>1, Zenon
<1>10. TypeOK
  <2>1. use \in [node : {"none", "AST_NAME", "AST_ASSN", "AST_FN_CALL"},
                 sym : {None} \cup Symbols, fn : Nat]
    BY <1>8
  <2>2. nodes \in 0..MaxNodes
    BY <1>8, Bounds
  <2> QED
    BY <1>6, <1>7, <1>8, <1>9, <2>1, <2>2 DEF TypeOK
<1>11. PICK f \in Frames : walk = <<f>> /\ f.at = "program" /\ f.sym = 1 /\ f.entry = {}
  <2>1. "program" \in Ats /\ 1 \in Nat /\ {} \subseteq Nat
    BY DEF Ats, ScopeAts
  <2>2. /\ Frame("program", 1, {}) \in Frames /\ Frame("program", 1, {}).at = "program"
        /\ Frame("program", 1, {}).sym = 1 /\ Frame("program", 1, {}).entry = {}
    BY <2>1, FrameIs
  <2> QED
    BY <1>8, <2>2, Zenon
<1>12. Len(walk) = 1 /\ walk[1] = f /\ walk \in Seq(Frames)
  BY <1>11
<1>13. ShapeOK(walk)
  BY <1>11, <1>12 DEF ShapeOK, FnAts
<1>14. FramesOK
  BY <1>11, <1>12 DEF FramesOK, GoodFrame
<1>15. DepthOK
  BY <1>7, <1>12, <1>13, OpenedIsFinite DEF DepthOK
<1>16. ScopesAreUnambiguous
  BY <1>5, <1>7, <1>9 DEF ScopesAreUnambiguous
<1>17. OwnersOK
  BY <1>5, <1>6, <1>7 DEF OwnersOK
<1>18. ReadsAreInitialised /\ NoFalseAlarms /\ KindsOK /\ NamesAreOwn
  BY <1>8 DEF ReadsAreInitialised, NoFalseAlarms, KindsOK, NamesAreOwn
<1> QED
  BY <1>2, <1>10, <1>13, <1>14, <1>15, <1>16, <1>17, <1>18 DEF IInv

LEMMA NextIInv == ASSUME IInv, Next PROVE IInv'
<1>1. CASE FnDec
  BY <1>1, FnDecIInv
<1>2. CASE NestedFnDec
  BY <1>2, AbortIInv DEF NestedFnDec
<1>3. CASE EnterBlock
  BY <1>3, EnterBlockIInv
<1>4. CASE EndBlock \/ EndFn
  BY <1>4, LeaveScopeIInv DEF EndBlock, EndFn
<1>5. CASE EndProgram
  BY <1>5, EndProgramIInv
<1>6. ASSUME NEW n \in VarNames, NEW initialised \in BOOLEAN, BeginVarDec(n, initialised)
      PROVE  IInv'
  BY <1>6, Bounds, BeginVarDecIInv
<1>7. ASSUME NEW n \in VarNames, BeginAssn(n) \/ Name(n)
      PROVE  IInv'
  BY <1>7, BeginAssnIInv, NameIInv
<1>8. ASSUME NEW n \in Names, NEW args \in Arities, Call(n, args)
      PROVE  IInv'
  BY <1>8, CallIInv
<1>9. ASSUME NEW at \in {"exit", "if_cond", "loop_cond"}, BeginExpr(at)
      PROVE  IInv'
  BY <1>9, BeginExprIInv
<1>10. CASE EndAssignment \/ EndExpr \/ EndCond \/ BeginElse \/ EndBranch
  BY <1>10, EndAssignmentIInv, EndExprIInv, EndCondIInv, BeginElseIInv, EndBranchIInv
<1>11. CASE Over
  <2>1. aborted' \in BOOLEAN /\ UNCHANGED <<decls, scoping, assigning, walk, nodes>>
    BY <1>11 DEF Over, vars, IInv, TypeOK
  <2> QED
    BY <2>1, AbortIInv
<1> QED
  BY <1>1, <1>2, <1>3, <1>4, <1>5, <1>6, <1>7, <1>8, <1>9, <1>10, <1>11 DEF Next

LEMMA Invariance == Spec => []IInv
<1>1. Init => IInv
  BY InitIInv
<1>2. IInv /\ [Next]_vars => IInv'
  <2> SUFFICES ASSUME IInv, [Next]_vars PROVE IInv'
    OBVIOUS
  <2>1. CASE Next
    BY <2>1, NextIInv
  <2>2. CASE UNCHANGED vars
    <3>1. aborted' \in BOOLEAN /\ UNCHANGED <<decls, scoping, assigning, walk, nodes>>
      BY <2>2 DEF vars, IInv, TypeOK
    <3> QED
      BY <3>1, AbortIInv
  <2> QED
    BY <2>1, <2>2
<1> QED
  BY <1>1, <1>2, PTL DEF Spec
-----------------------------------------------------------------------------
\* The symbol table, the scopes and the two bit sets stay well-formed: every id
\* a scope, a node or a set holds is one of a symbol that has been created.
THEOREM TypesCorrect == Spec => []TypeOK
<1>1. IInv => TypeOK
  BY DEF IInv
<1> QED
  BY <1>1, Invariance, PTL

\* A scope of a program without errors holds no name twice, so the order in
\* which add_symbol links a scope's list never decides what a name means.
THEOREM ScopesUnambiguous == Spec => []ScopesAreUnambiguous
<1>1. IInv => ScopesAreUnambiguous
  BY DEF IInv
<1> QED
  BY <1>1, Invariance, PTL

\* Every read the definite-assignment pass lets through is of a symbol that has
\* a value on every path, or got one in an arm or a loop body left by now.
THEOREM ReadsInitialised == Spec => []ReadsAreInitialised
<1>1. IInv => ReadsAreInitialised
  BY DEF IInv
<1> QED
  BY <1>1, Invariance, PTL

\* The pass never refuses a read of a symbol that has a value on every path.
THEOREM NoFalseAlarm == Spec => []NoFalseAlarms
<1>1. IInv => NoFalseAlarms
  BY DEF IInv
<1> QED
  BY <1>1, Invariance, PTL

\* A name in an accepted program is a variable or parameter of the function
\* around it, so the MIR generator always has a slot for it.
THEOREM NamesOwn == Spec => []NamesAreOwn
<1>1. IInv => NamesAreOwn
  BY DEF IInv
<1> QED
  BY <1>1, Invariance, PTL

-----------------------------------------------------------------------------
(***************************************************************************)
(* The resolver implements Scoping: under the mapping of Resolver each of  *)
(* its steps opens or closes an environment, adds a name to the innermost  *)
(* one, looks a name up, or leaves them all alone.  The proof needs of the *)
(* inductive invariant only that the scopes hold symbols that exist.       *)
(***************************************************************************)
EnvOf(syms, scs) ==
  [d \in 1..Len(scs) |-> [n \in Names |-> look_up(syms, scs, d, n)]]
Env == EnvOf(symbols, scopes)

\* The environments have the types Scoping gives them.
LEMMA EnvTypesOf ==
  ASSUME NEW syms, NEW scs, Len(syms) \in Nat, Len(scs) \in Nat,
         \A d \in 1..Len(scs) : scs[d] \subseteq 1..Len(syms)
  PROVE  /\ EnvOf(syms, scs) \in Seq([Names -> 0..Len(syms)])
         /\ Len(EnvOf(syms, scs)) = Len(scs)
         /\ \A d \in 1..Len(scs) :
              EnvOf(syms, scs)[d] = [n \in Names |-> look_up(syms, scs, d, n)]
<1>1. \A d \in 1..Len(scs) : \A n \in Names : look_up(syms, scs, d, n) \in 0..Len(syms)
  <2> SUFFICES ASSUME NEW d \in 1..Len(scs), NEW n \in Names
               PROVE  look_up(syms, scs, d, n) \in 0..Len(syms)
    OBVIOUS
  <2>1. d \in Nat /\ \A c \in 1..d : scs[c] \subseteq 1..Len(syms)
    OBVIOUS
  <2> QED
    BY <2>1, LookUp
<1> QED
  BY <1>1 DEF EnvOf

LEMMA EnvTypes ==
  ASSUME IInv
  PROVE  /\ Env \in Seq([Names -> 0..Len(symbols)]) /\ Len(Env) = Len(scopes)
         /\ Len(symbols) \in Nat /\ Len(scopes) \in Nat
         /\ \A d \in 1..Len(scopes) :
              Env[d] = [n \in Names |-> look_up(symbols, scopes, d, n)]
<1>1. /\ Len(symbols) \in Nat /\ Symbols = 1..Len(symbols) /\ Len(scopes) \in Nat
      /\ \A d \in 1..Len(scopes) : scopes[d] \subseteq 1..Len(symbols)
  BY Types
<1> QED
  BY <1>1, EnvTypesOf DEF Env

LEMMA EnvTypesPrime ==
  ASSUME IInv'
  PROVE  /\ Env' \in Seq([Names -> 0..Len(symbols')]) /\ Len(Env') = Len(scopes')
         /\ Len(symbols') \in Nat /\ Len(scopes') \in Nat
         /\ \A d \in 1..Len(scopes') :
              /\ scopes'[d] \subseteq 1..Len(symbols')
              /\ Env'[d] = [n \in Names |-> look_up(symbols', scopes', d, n)]
<1>1. TypeOK'
  BY DEF IInv
<1>2. /\ Len(symbols') \in Nat /\ Len(scopes') \in Nat
      /\ \A d \in 1..Len(scopes') : scopes'[d] \subseteq 1..Len(symbols')
  BY <1>1 DEF TypeOK, Symbols
<1> QED
  BY <1>2, EnvTypesOf DEF Env

\* The environments of the scopes that stay keep their meaning, when only
\* symbols were added.
LEMMA EnvKept ==
  ASSUME IInv, NEW k \in 0..Len(scopes), k <= Len(scopes'), Len(scopes') \in Nat,
         \A d \in 1..k : scopes'[d] = scopes[d],
         \A s \in Symbols : symbols'[s] = symbols[s]
  PROVE  \A d \in 1..k : /\ Env'[d] = Env[d]
                         /\ \A n : look_up(symbols', scopes', d, n)
                                     = look_up(symbols, scopes, d, n)
<1> SUFFICES ASSUME NEW d \in 1..k
             PROVE  /\ Env'[d] = Env[d]
                    /\ \A n : look_up(symbols', scopes', d, n)
                                = look_up(symbols, scopes, d, n)
  OBVIOUS
<1>1. /\ Len(scopes) \in Nat /\ d \in Nat /\ d \in 1..Len(scopes) /\ d \in 1..Len(scopes')
      /\ \A c \in 1..d : c \in 1..k /\ c \in 1..Len(scopes)
  BY Types
<1>2. \A c \in 1..d : /\ scopes'[c] = scopes[c]
                      /\ \A s \in scopes[c] : symbols'[s].name = symbols[s].name
  BY <1>1, Types
<1>3. \A n : look_up(symbols', scopes', d, n) = look_up(symbols, scopes, d, n)
  <2> SUFFICES ASSUME NEW n
               PROVE  look_up(symbols', scopes', d, n) = look_up(symbols, scopes, d, n)
    OBVIOUS
  <2>1. PICK syms, scs, syms2, scs2 :
           syms = symbols /\ scs = scopes /\ syms2 = symbols' /\ scs2 = scopes'
    OBVIOUS
  <2>2. SameNames(syms, scs, syms2, scs2, d)
    <3>1. SameNames(symbols, scopes, symbols', scopes', d)
      BY <1>2, Zenon DEF SameNames
    <3> QED
      BY <2>1, <3>1
  <2>3. look_up(syms2, scs2, d, n) = look_up(syms, scs, d, n)
    <3>1. d \in Nat
      BY <1>1
    <3> QED
      BY <2>2, <3>1, LookUpKept
  <2> QED
    BY <2>1, <2>3
<1>4. Env'[d] = [n \in Names |-> look_up(symbols', scopes', d, n)]
  BY <1>1 DEF Env, EnvOf
<1>5. Env[d] = [n \in Names |-> look_up(symbols, scopes, d, n)]
  BY <1>1 DEF Env, EnvOf
<1> QED
  BY <1>3, <1>4, <1>5

LEMMA EnvSame ==
  ASSUME IInv, scopes' = scopes, \A s \in Symbols : symbols'[s] = symbols[s]
  PROVE  Env' = Env
<1>1. Len(scopes) \in Nat /\ Len(scopes) \in 0..Len(scopes)
  BY Types
<1>2. \A d \in 1..Len(scopes) : Env'[d] = Env[d]
  BY <1>1, EnvKept
<1>3. Env = [d \in 1..Len(scopes) |-> Env[d]] /\ Env' = [d \in 1..Len(scopes) |-> Env'[d]]
  BY DEF Env, EnvOf
<1> QED
  BY <1>2, <1>3
-----------------------------------------------------------------------------
LEMMA InitImplements == Init => S!Init
<1> SUFFICES ASSUME Init PROVE S!Init
  OBVIOUS
<1>1. IInv
  BY InitIInv
<1>2. Len(scopes) = 1 /\ use.sym = None
  BY DEF Init
<1>3. Len(Env) = 1 /\ Env[1] \in [Names -> 0..Len(symbols)] /\ Len(symbols) \in Nat
  <2>1. /\ Env \in Seq([Names -> 0..Len(symbols)]) /\ Len(Env) = Len(scopes)
        /\ Len(symbols) \in Nat
    BY <1>1, EnvTypes
  <2> QED
    BY <1>2, <2>1
<1> QED
  BY <1>2, <1>3 DEF S!Init, Env, EnvOf, S!None, None

\* A scope opens.  What its symbols are called does not matter.
LEMMA OpenImplements ==
  ASSUME IInv, IInv', use' = use,
         Len(scopes) > 0, Len(scopes') = Len(scopes) + 1,
         \A d \in 1..Len(scopes) : scopes'[d] = scopes[d],
         Len(symbols') >= Len(symbols),
         \A s \in Symbols : symbols'[s] = symbols[s],
         \A s \in scopes'[Len(scopes')] : s > Len(symbols)
  PROVE  S!Enter
<1> DEFINE L == Len(scopes)
<1>1. /\ Env \in Seq([Names -> 0..Len(symbols)]) /\ Len(Env) = L
      /\ L \in Nat \ {0} /\ Len(symbols) \in Nat
  BY EnvTypes
<1>2. /\ Env' \in Seq([Names -> 0..Len(symbols')]) /\ Len(Env') = L + 1
      /\ Len(symbols') \in Nat
      /\ Env'[L + 1] = [n \in Names |-> look_up(symbols', scopes', L + 1, n)]
  <2>1. /\ Env' \in Seq([Names -> 0..Len(symbols')]) /\ Len(Env') = Len(scopes')
        /\ Len(symbols') \in Nat /\ Len(scopes') \in Nat
        /\ \A d \in 1..Len(scopes') :
             Env'[d] = [n \in Names |-> look_up(symbols', scopes', d, n)]
    BY EnvTypesPrime
  <2>2. L + 1 \in 1..Len(scopes')
    BY <1>1
  <2> QED
    BY <2>1, <2>2
<1>3. \A d \in 1..L : /\ Env'[d] = Env[d]
                      /\ \A n : look_up(symbols', scopes', d, n)
                                  = look_up(symbols, scopes, d, n)
  BY <1>1, EnvKept
<1>4. Env' = Append(Env, Env'[L + 1])
  <2>1. /\ Env' = [d \in 1..L + 1 |-> Env'[d]]
        /\ Append(Env, Env'[L + 1]) = [d \in 1..L + 1 |-> IF d = L + 1 THEN Env'[L + 1] ELSE Env[d]]
    BY <1>1, <1>2
  <2>2. \A d \in 1..L + 1 : d = L + 1 \/ d \in 1..L
    BY <1>1
  <2> QED
    BY <1>3, <2>1, <2>2
<1>5. \A n \in Names : Env'[L + 1][n] = Env[L][n] \/ Env'[L + 1][n] > Len(symbols)
  <2> SUFFICES ASSUME NEW n \in Names
               PROVE  Env'[L + 1][n] = Env[L][n] \/ Env'[L + 1][n] > Len(symbols)
    OBVIOUS
  <2>1. look_up(symbols', scopes', L + 1, n)
          = IF get_symbol(symbols', scopes'[L + 1], n) = None
            THEN look_up(symbols', scopes', L, n)
            ELSE get_symbol(symbols', scopes'[L + 1], n)
    <3>1. PICK syms, scs : syms = symbols' /\ scs = scopes'
      OBVIOUS
    <3>2. PICK d \in Nat : d = L
      BY <1>1
    <3>3. look_up(syms, scs, d + 1, n)
            = IF get_symbol(syms, scs[d + 1], n) = None THEN look_up(syms, scs, d, n)
              ELSE get_symbol(syms, scs[d + 1], n)
      BY LookUpInner
    <3> QED
      BY <3>1, <3>2, <3>3
  <2>2. Env[L][n] = look_up(symbols', scopes', L, n)
    <3>1. L \in 1..L
      BY <1>1
    <3>2. Env[L] = [m \in Names |-> look_up(symbols, scopes, L, m)]
      BY <3>1, EnvTypes
    <3>3. look_up(symbols', scopes', L, n) = look_up(symbols, scopes, L, n)
      BY <1>3, <3>1
    <3> QED
      BY <3>2, <3>3
  <2>3. get_symbol(symbols', scopes'[L + 1], n) \in {None} \cup scopes'[L + 1]
    <3>1. scopes'[L + 1] \subseteq 1..Len(symbols') /\ Len(symbols') \in Nat
      <4>1. L + 1 \in 1..Len(scopes')
        BY <1>1
      <4> QED
        BY <4>1, EnvTypesPrime
    <3> QED
      BY <3>1, GetSymbol, Zenon
  <2> QED
    BY <1>2, <2>1, <2>2, <2>3
<1>6. /\ Env # <<>> /\ Env' # <<>> /\ Env[Len(Env)] = Env[L] /\ Env'[Len(Env')] = Env'[L + 1]
      /\ Env'[L + 1] \in [Names -> 0..Len(symbols')]
  BY <1>1, <1>2
<1> QED
  BY <1>4, <1>5, <1>6 DEF S!Enter, S!Innermost, Env, EnvOf

\* A scope closes.
LEMMA CloseImplements ==
  ASSUME IInv, IInv', Len(scopes) > 0, scopes' = Pop(scopes), symbols' = symbols, use' = use
  PROVE  S!Leave
<1> DEFINE L == Len(scopes)
<1>1. /\ Env \in Seq([Names -> 0..Len(symbols)]) /\ Len(Env) = L
      /\ L \in Nat \ {0} /\ Len(symbols) \in Nat
  BY EnvTypes
<1>2. /\ Len(scopes') = L - 1 /\ L - 1 \in 0..L /\ L - 1 \in Nat
      /\ \A d \in 1..L - 1 : scopes'[d] = scopes[d]
  <2>1. scopes \in Seq(SUBSET Symbols)
    BY DEF IInv, TypeOK
  <2> QED
    BY <1>1, <2>1, PopIs
<1>3. \A d \in 1..L - 1 : Env'[d] = Env[d]
  BY <1>2, EnvKept
<1>4. Env' = [d \in 1..L - 1 |-> Env'[d]]
  BY <1>2 DEF Env, EnvOf
<1>5. SubSeq(Env, 1, L - 1) = [d \in 1..L - 1 |-> Env[d]]
  BY <1>1
<1>6. Env' = SubSeq(Env, 1, Len(Env) - 1) /\ Env # <<>>
  BY <1>1, <1>3, <1>4, <1>5
<1> QED
  BY <1>6 DEF S!Leave, Env, EnvOf

\* Neither scopes nor symbols change.
LEMMA QuietImplements ==
  ASSUME IInv, scopes' = scopes, symbols' = symbols, use' = use
  PROVE  UNCHANGED S!svars
<1>1. Env' = Env
  BY EnvSame
<1> QED
  BY <1>1 DEF S!svars, Env, EnvOf

\* A new symbol in the innermost scope is what its name means there.
Adds(syms, syms2, N, scope, n) ==
  /\ scope \subseteq 1..N
  /\ syms2[N + 1].name = n
  /\ \A s \in scope : syms2[s].name = syms[s].name

LEMMA NewSymbolFound ==
  ASSUME NEW syms, NEW syms2, NEW N \in Nat, NEW scope, NEW n,
         Adds(syms, syms2, N, scope, n)
  PROVE  /\ get_symbol(syms2, scope \cup {N + 1}, n) = N + 1
         /\ \A m : m # n =>
              get_symbol(syms2, scope \cup {N + 1}, m) = get_symbol(syms, scope, m)
<1>1. get_symbol(syms2, scope \cup {N + 1}, n) = N + 1
  <2> DEFINE found == {s \in scope \cup {N + 1} : syms2[s].name = n}
  <2>1. N + 1 \in found /\ found \subseteq 1..N + 1 /\ N + 1 \in Nat
    <3>1. N + 1 \in found
      BY DEF Adds
    <3>2. scope \cup {N + 1} \subseteq 1..N + 1 /\ N + 1 \in Nat
      BY DEF Adds
    <3> QED
      BY <3>1, <3>2
  <2>2. get_symbol(syms2, scope \cup {N + 1}, n) = Sets!Max(found)
    BY <2>1 DEF get_symbol
  <2> HIDE DEF found
  <2>3. Sets!Max(found) \in found /\ \A y \in found : y <= Sets!Max(found)
    BY <2>1, MaxIsMember
  <2>4. N + 1 <= Sets!Max(found) /\ Sets!Max(found) \in 1..N + 1
    BY <2>1, <2>3
  <2> QED
    BY <2>2, <2>4
<1>2. ASSUME NEW m, m # n
      PROVE  get_symbol(syms2, scope \cup {N + 1}, m) = get_symbol(syms, scope, m)
  <2>1. {s \in scope \cup {N + 1} : syms2[s].name = m} = {s \in scope : syms[s].name = m}
    BY <1>2 DEF Adds
  <2> QED
    BY <2>1 DEF get_symbol
<1> QED
  BY <1>1, <1>2

LEMMA DeclareImplements ==
  ASSUME IInv, IInv', NEW n \in Names, NEW r \in SymbolType, r.name = n,
         Len(scopes) > 0, use' = use,
         symbols' = Append(symbols, r),
         scopes' = [scopes EXCEPT ![Len(scopes)] = @ \cup {Len(symbols) + 1}]
  PROVE  S!Declare
<1> DEFINE L == Len(scopes)
           N == Len(symbols)
<1>1. /\ Env \in Seq([Names -> 0..N]) /\ Len(Env) = L
      /\ L \in Nat \ {0} /\ N \in Nat /\ L \in 1..L
      /\ \A d \in 1..L : Env[d] = [m \in Names |-> look_up(symbols, scopes, d, m)]
  <2>1. L \in Nat
    BY EnvTypes
  <2> QED
    BY <2>1, EnvTypes
<1>2. /\ Len(symbols') = N + 1 /\ symbols'[N + 1] = r
      /\ \A s \in Symbols : symbols'[s] = symbols[s]
      /\ \A s \in scopes[L] : s \in Symbols
      /\ Symbols = 1..N
  <2>1. /\ Len(symbols') = N + 1 /\ symbols'[N + 1] = r
        /\ \A s \in Symbols : symbols'[s] = symbols[s]
    BY SymbolsGrow
  <2>2. Symbols = 1..N /\ \A d \in 1..L : scopes[d] \subseteq Symbols
    BY Types
  <2> QED
    BY <1>1, <2>1, <2>2
<1>3. /\ Len(scopes') = L
      /\ \A d \in 1..L - 1 : scopes'[d] = scopes[d]
      /\ scopes'[L] = scopes[L] \cup {N + 1}
  <2>1. scopes \in Seq(SUBSET Symbols)
    BY DEF IInv, TypeOK
  <2> QED
    BY <1>1, <2>1
<1>4. /\ Len(Env') = L
      /\ Env' \in Seq([Names -> 0..N + 1])
      /\ Env'[L] = [m \in Names |-> look_up(symbols', scopes', L, m)]
  BY <1>1, <1>2, <1>3, EnvTypesPrime
<1>5. \A d \in 1..L - 1 : /\ Env'[d] = Env[d]
                          /\ \A m : look_up(symbols', scopes', d, m)
                                      = look_up(symbols, scopes, d, m)
  <2>1. L - 1 \in 0..L /\ L - 1 <= Len(scopes') /\ Len(scopes') \in Nat
    BY <1>1, <1>3
  <2> QED
    BY <1>2, <1>3, <2>1, EnvKept
<1>6. \A m \in Names :
        look_up(symbols', scopes', L, m)
          = IF m = n THEN N + 1 ELSE look_up(symbols, scopes, L, m)
  <2> SUFFICES ASSUME NEW m \in Names
               PROVE  look_up(symbols', scopes', L, m)
                        = IF m = n THEN N + 1 ELSE look_up(symbols, scopes, L, m)
    OBVIOUS
  <2>1. PICK syms, scs, syms2, scs2 :
           syms = symbols /\ scs = scopes /\ syms2 = symbols' /\ scs2 = scopes'
    OBVIOUS
  <2>2. PICK d \in Nat, M \in Nat : d = L - 1 /\ d + 1 = L /\ M = N
    <3>1. L - 1 \in Nat /\ (L - 1) + 1 = L /\ N \in Nat
      BY <1>1
    <3> QED
      BY <3>1
  <2>3. /\ get_symbol(syms2, scs[d + 1] \cup {M + 1}, n) = M + 1
        /\ m # n => get_symbol(syms2, scs[d + 1] \cup {M + 1}, m)
                      = get_symbol(syms, scs[d + 1], m)
    <3>1. PICK scope : scope = scs[d + 1]
      OBVIOUS
    <3>2. Adds(syms, syms2, M, scope, n)
      BY <1>2, <2>1, <2>2, <3>1 DEF Adds
    <3>3. /\ get_symbol(syms2, scope \cup {M + 1}, n) = M + 1
          /\ \A k : k # n =>
               get_symbol(syms2, scope \cup {M + 1}, k) = get_symbol(syms, scope, k)
      BY <3>2, NewSymbolFound
    <3> QED
      BY <3>1, <3>3
  <2>4. scs2[d + 1] = scs[d + 1] \cup {M + 1}
    BY <1>3, <2>1, <2>2
  <2>5. /\ look_up(syms2, scs2, d + 1, m)
             = IF get_symbol(syms2, scs2[d + 1], m) = None THEN look_up(syms2, scs2, d, m)
               ELSE get_symbol(syms2, scs2[d + 1], m)
        /\ look_up(syms, scs, d + 1, m)
             = IF get_symbol(syms, scs[d + 1], m) = None THEN look_up(syms, scs, d, m)
               ELSE get_symbol(syms, scs[d + 1], m)
    BY LookUpInner
  <2>6. look_up(syms2, scs2, d, m) = look_up(syms, scs, d, m)
    <3>1. CASE d = 0
      BY <3>1 DEF look_up
    <3>2. CASE d # 0
      <4>1. d \in 1..L - 1
        BY <1>1, <2>2, <3>2
      <4> QED
        BY <1>5, <2>1, <4>1
    <3> QED
      BY <3>1, <3>2
  <2>7. look_up(syms2, scs2, d + 1, m) = IF m = n THEN M + 1 ELSE look_up(syms, scs, d + 1, m)
    BY <2>3, <2>4, <2>5, <2>6 DEF None
  <2> QED
    BY <2>1, <2>2, <2>7
<1>7. Env' = [Env EXCEPT ![L][n] = N + 1]
  <2>1. /\ Env = [d \in 1..L |-> Env[d]] /\ Env' = [d \in 1..L |-> Env'[d]]
    BY <1>1, <1>4
  <2>2. Env'[L] = [Env[L] EXCEPT ![n] = N + 1]
    <3>1. Env[L] = [m \in Names |-> look_up(symbols, scopes, L, m)]
      BY <1>1
    <3>2. Env'[L] = [m \in Names |-> IF m = n THEN N + 1 ELSE look_up(symbols, scopes, L, m)]
      BY <1>4, <1>6
    <3> QED
      BY <3>1, <3>2
  <2>3. \A d \in 1..L : d = L \/ d \in 1..L - 1
    BY <1>1
  <2>4. Env' = [Env EXCEPT ![L] = [Env[L] EXCEPT ![n] = N + 1]]
    BY <1>5, <2>1, <2>2, <2>3
  <2> QED
    BY <2>4
<1>8. Env # <<>> /\ Len(Env) = L /\ Len(symbols') = N + 1
  BY <1>1, <1>2
<1>9. Env' = [Env EXCEPT ![Len(Env)][n] = Len(symbols')]
  BY <1>7, <1>8
<1> QED
  BY <1>8, <1>9 DEF S!Declare, Env, EnvOf

\* A lookup finds what the innermost environment says.
LEMMA UseImplements ==
  ASSUME IInv, NEW n \in Names, Len(scopes) > 0,
         scopes' = scopes, symbols' = symbols, use'.sym = Found(n)
  PROVE  S!Use
<1>1. Len(scopes) \in Nat /\ Len(Env) = Len(scopes)
  BY EnvTypes
<1>2. Env[Len(scopes)] = [m \in Names |-> look_up(symbols, scopes, Len(scopes), m)]
  <2>1. Len(scopes) \in 1..Len(scopes)
    BY <1>1
  <2> QED
    BY <2>1, EnvTypes
<1>3. Env[Len(Env)][n] = Found(n) /\ Env # <<>>
  BY <1>1, <1>2 DEF Found
<1>4. Env' = Env
  BY EnvSame
<1> QED
  BY <1>3, <1>4 DEF S!Use, S!Innermost, Env, EnvOf

LEMMA BuiltinImplements ==
  ASSUME IInv, NEW r \in SymbolType, scopes' = scopes,
         symbols' = Append(symbols, r), use'.sym = Len(symbols) + 1
  PROVE  S!UseBuiltin
<1>1. /\ Len(symbols') = Len(symbols) + 1
      /\ \A s \in Symbols : symbols'[s] = symbols[s]
  BY SymbolsGrow
<1>2. Env' = Env
  BY <1>1, EnvSame
<1> QED
  BY <1>1, <1>2 DEF S!UseBuiltin, Env, EnvOf
-----------------------------------------------------------------------------
LEMMA FnDecImplements == ASSUME IInv, IInv', FnDec PROVE S!Enter
<1> DEFINE ps == Len(symbols) + 1..Len(symbols) + Len(decls[walk[1].sym].params)
           q  == [k \in 1..Len(decls[walk[1].sym].params) |->
                    Symbol(decls[walk[1].sym].params[k], "SYM_PARAM", 0, walk[1].sym)]
<1>1. /\ Running /\ walk[1].sym <= Len(decls) /\ Top.at = "program"
      /\ scopes' = Append(scopes, ps) /\ symbols' = symbols \o q /\ use' = use
  BY DEF FnDec, Push
<1>2. /\ Len(symbols) \in Nat /\ Len(scopes) \in Nat /\ Len(scopes) > 0
      /\ Symbols = 1..Len(symbols)
      /\ walk # <<>> /\ Len(walk) \in Nat
  BY <1>1, Types
<1>3. Len(decls[walk[1].sym].params) \in Nat
  <2>1. walk[1].sym \in Nat \ {0}
    BY <1>2 DEF IInv, ShapeOK
  <2>2. decls[walk[1].sym] \in DeclType
    BY <1>1, <2>1 DEF IInv, DeclsOK
  <2> QED
    BY <2>2, Bounds DEF DeclType
<1>4. /\ Len(symbols') >= Len(symbols)
      /\ \A s \in Symbols : symbols'[s] = symbols[s]
  <2>1. symbols \in Seq(SymbolType) /\ symbols' \in Seq(SymbolType)
    BY DEF IInv, TypeOK
  <2>2. PICK p \in Seq({q[k] : k \in 1..Len(q)}) : p = q /\ Len(p) \in Nat
    <3>1. q \in Seq({q[k] : k \in 1..Len(q)}) /\ Len(q) \in Nat
      BY <1>3
    <3> QED
      BY <3>1
  <2>3. symbols' = symbols \o p
    BY <1>1, <2>2
  <2> HIDE DEF q
  <2> QED
    BY <1>2, <2>1, <2>2, <2>3
<1>5. /\ Len(scopes') = Len(scopes) + 1
      /\ \A d \in 1..Len(scopes) : scopes'[d] = scopes[d]
      /\ scopes'[Len(scopes')] = ps
  <2>1. scopes \in Seq(SUBSET Symbols)
    BY DEF IInv, TypeOK
  <2> HIDE DEF ps
  <2> QED
    BY <1>1, <1>2, <2>1
<1>6. \A s \in ps : s > Len(symbols)
  BY <1>2, <1>3
<1> QED
  BY <1>1, <1>2, <1>4, <1>5, <1>6, OpenImplements

LEMMA EnterBlockImplements == ASSUME IInv, IInv', EnterBlock PROVE S!Enter
<1>1. /\ scopes' = Append(scopes, {}) /\ symbols' = symbols /\ use' = use
  BY DEF EnterBlock, Push
<1>2. Running
  BY EnterBlockWalk
<1>3. Len(symbols) \in Nat /\ Len(scopes) \in Nat /\ Len(scopes) > 0
  BY <1>2, Types
<1>4. /\ Len(scopes') = Len(scopes) + 1
      /\ \A d \in 1..Len(scopes) : scopes'[d] = scopes[d]
      /\ scopes'[Len(scopes')] = {}
  <2>1. scopes \in Seq(SUBSET Symbols)
    BY DEF IInv, TypeOK
  <2> QED
    BY <1>1, <1>3, <2>1
<1> QED
  BY <1>1, <1>3, <1>4, OpenImplements

LEMMA BeginVarDecImplements ==
  ASSUME IInv, IInv', NEW n \in Names, NEW initialised \in BOOLEAN,
         BeginVarDec(n, initialised)
  PROVE  S!Declare \/ UNCHANGED S!svars
<1> DEFINE r == Symbol(n, "SYM_VAR", 0, ThisFn)
<1>1. Running /\ use' = use
  BY DEF BeginVarDec, InStmts
<1>2. CASE symbol_in_scope(n)
  BY <1>1, <1>2, QuietImplements DEF BeginVarDec
<1>3. CASE ~symbol_in_scope(n)
  <2>1. /\ symbols' = Append(symbols, r)
        /\ scopes' = [scopes EXCEPT ![Len(scopes)] = @ \cup {Len(symbols) + 1}]
    BY <1>3 DEF BeginVarDec, Push
  <2>2. r \in SymbolType /\ r.name = n
    BY Types DEF Symbol, SymbolType
  <2>3. Len(scopes) > 0
    BY <1>1, Types
  <2> HIDE DEF r
  <2> QED
    BY <1>1, <2>1, <2>2, <2>3, DeclareImplements
<1> QED
  BY <1>2, <1>3

LEMMA CallImplements ==
  ASSUME IInv, NEW n \in Names, NEW args \in Arities, Call(n, args)
  PROVE  S!Use \/ S!UseBuiltin
<1>1. Running /\ FnCall(n, args) /\ scopes' = scopes
  BY DEF Call, FnCall, InExpr, InStmts
<1>2. Len(scopes) > 0
  BY <1>1, Types
<1>3. CASE n = "print"
  <2> DEFINE r == Symbol(n, "SYM_BUILTIN_FN", 0, 0)
  <2>1. symbols' = Append(symbols, r) /\ use'.sym = Len(symbols) + 1
    BY <1>1, <1>3 DEF FnCall, Uses, Push
  <2>2. r \in SymbolType
    BY DEF Symbol, SymbolType
  <2> HIDE DEF r
  <2> QED
    BY <1>1, <2>1, <2>2, BuiltinImplements
<1>4. CASE n # "print"
  <2>1. symbols' = symbols /\ use'.sym = Found(n)
    BY <1>1, <1>4 DEF FnCall, Uses
  <2> QED
    BY <1>1, <1>2, <2>1, UseImplements
<1> QED
  BY <1>3, <1>4

LEMMA NextImplements == ASSUME IInv, IInv', Next PROVE S!Next \/ UNCHANGED S!svars
<1>1. CASE FnDec
  BY <1>1, FnDecImplements DEF S!Next
<1>2. CASE NestedFnDec
  BY <1>2, QuietImplements DEF NestedFnDec, scoping
<1>3. CASE EnterBlock
  BY <1>3, EnterBlockImplements DEF S!Next
<1>4. CASE EndBlock \/ EndFn
  <2>1. Running /\ scopes' = Pop(scopes) /\ symbols' = symbols /\ use' = use
    BY <1>4 DEF EndBlock, EndFn, LeaveScope
  <2>2. Len(scopes) > 0
    BY <2>1, Types
  <2> QED
    BY <2>1, <2>2, CloseImplements DEF S!Next
<1>5. CASE EndProgram
  <2>1. Running /\ scopes' = Pop(scopes) /\ symbols' = symbols /\ use' = use
    BY <1>5 DEF EndProgram
  <2>2. Len(scopes) > 0
    BY <2>1, Types
  <2> QED
    BY <2>1, <2>2, CloseImplements DEF S!Next
<1>6. ASSUME NEW n \in VarNames, NEW initialised \in BOOLEAN, BeginVarDec(n, initialised)
      PROVE  S!Next \/ UNCHANGED S!svars
  BY <1>6, Bounds, BeginVarDecImplements DEF S!Next
<1>7. ASSUME NEW n \in VarNames, BeginAssn(n) \/ Name(n)
      PROVE  S!Next
  <2>1. /\ Running /\ scopes' = scopes /\ symbols' = symbols
        /\ use'.sym = Found(n)
    <3>1. CASE BeginAssn(n)
      BY <3>1 DEF BeginAssn, InStmts, Uses
    <3>2. CASE Name(n)
      BY <3>2 DEF Name, InExpr, Uses
    <3> QED
      BY <1>7, <3>1, <3>2
  <2>2. Len(scopes) > 0 /\ n \in Names
    BY <2>1, Types, Bounds
  <2> QED
    BY <2>1, <2>2, UseImplements DEF S!Next
<1>8. ASSUME NEW n \in Names, NEW args \in Arities, Call(n, args)
      PROVE  S!Next
  BY <1>8, CallImplements DEF S!Next
<1>9. ASSUME NEW at \in {"exit", "if_cond", "loop_cond"}, BeginExpr(at)
      PROVE  UNCHANGED S!svars
  BY <1>9, QuietImplements DEF BeginExpr, scoping
<1>10. CASE EndAssignment \/ EndExpr \/ EndCond \/ BeginElse \/ EndBranch
  <2>1. UNCHANGED scoping
    BY <1>10 DEF EndAssignment, EndExpr, EndCond, BeginElse, EndBranch
  <2> QED
    BY <2>1, QuietImplements DEF scoping
<1>11. CASE Over
  BY <1>11, QuietImplements DEF Over, vars, scoping
<1> QED
  BY <1>1, <1>2, <1>3, <1>4, <1>5, <1>6, <1>7, <1>8, <1>9, <1>10, <1>11 DEF Next

\* The scopes and their lists implement the environments of Scoping: whatever
\* is declared, shadowed and closed, a name means the latest declaration in the
\* innermost region around it that has one.
THEOREM ScopingCorrect == Spec => ScopingImplemented
<1>1. Init => S!Init
  BY InitImplements
<1>2. IInv /\ IInv' /\ [Next]_vars => [S!Next]_(S!svars)
  <2>1. ASSUME IInv, UNCHANGED vars PROVE UNCHANGED S!svars
    BY <2>1, QuietImplements DEF vars, scoping
  <2> QED
    BY <2>1, NextImplements
<1> QED
  BY <1>1, <1>2, Invariance, PTL DEF Spec, ScopingImplemented, S!Spec
=============================================================================
