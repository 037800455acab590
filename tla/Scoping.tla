------------------------------ MODULE Scoping -------------------------------
(***************************************************************************)
(* What a name means, as the language promises it: every region of the     *)
(* program text has an environment that says which symbol each name stands *)
(* for.  A region inside another begins with the environment around it,    *)
(* and its declarations are forgotten when it ends.                        *)
(***************************************************************************)
EXTENDS Integers, Sequences

CONSTANT Names

VARIABLES
  env,      \* the environments of the regions that are open, innermost last
  fresh,    \* the symbols made so far are 1..fresh
  meaning   \* what the name looked up last stands for

None == 0    \* nothing
svars == <<env, fresh, meaning>>

Innermost == env[Len(env)]

Init ==
  /\ fresh \in Nat
  /\ Len(env) = 1
  /\ env[1] \in [Names -> 0..fresh]
  /\ meaning = None

\* A region begins: a name keeps its meaning or gets a new symbol.
Enter ==
  LET inner == env'[Len(env')] IN
  /\ meaning' = meaning
  /\ fresh' >= fresh
  /\ env # <<>> /\ env' # <<>>
  /\ env' = Append(env, inner)
  /\ inner \in [Names -> 0..fresh']
  /\ \A n \in Names : inner[n] = Innermost[n] \/ inner[n] > fresh

Leave ==
  /\ UNCHANGED <<fresh, meaning>>
  /\ env # <<>>
  /\ env' = SubSeq(env, 1, Len(env) - 1)

Declare ==
  /\ UNCHANGED meaning
  /\ fresh' = fresh + 1
  /\ env # <<>>
  /\ \E n \in Names : env' = [env EXCEPT ![Len(env)][n] = fresh']

Use ==
  /\ UNCHANGED <<fresh, env>>
  /\ env # <<>>
  /\ \E n \in Names : meaning' = Innermost[n]

\* A name the language itself gives a meaning to.
UseBuiltin ==
  /\ fresh' = fresh + 1
  /\ meaning' = fresh'
  /\ UNCHANGED env

Next == Enter \/ Leave \/ Declare \/ Use \/ UseBuiltin

Spec == Init /\ [][Next]_svars
=============================================================================
