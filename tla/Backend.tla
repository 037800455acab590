------------------------------ MODULE Backend -------------------------------
(***************************************************************************)
(* One function on its way through the back half of the compiler: MIRGen   *)
(* walks it, LIRGen lowers it, LiveRanges finds the life of every virtual  *)
(* register, LinearScan places them, SpillRewrite puts machine registers   *)
(* in, and the code that results is run.                                   *)
(*                                                                         *)
(* Running the code is the yardstick, not part of the compiler: a machine  *)
(* register holds the name of the virtual register whose value was put     *)
(* there last, and every instruction should find the values it names.      *)
(***************************************************************************)
EXTENDS MIRGen, LinearScan, LiveRanges, SpillRewrite, TLC

VARIABLES
  stage,     \* where the function is in the pipeline
  lir,       \* its LIR
  loc,       \* ctx.locs: the location of each vreg, LOC_UNINIT without a range
  pc,        \* block and instruction the run is at
  scratch,   \* scratch registers given to the spilled operands there
  regs,      \* what each machine register holds
  frame      \* what each spill slot holds

runvars == <<pc, scratch, regs, frame>>
allvars == <<vars, scanvars, stage, lir, loc, runvars>>

VReg(v)   == [kind |-> "vreg", id |-> v]
Arg(k)    == [kind |-> "argument", id |-> k]
Caller(r) == [kind |-> "caller", id |-> r]
Junk      == [kind |-> "junk", id |-> 0]

\* The AArch64 procedure call standard.
ArgRegs     == 0..7
CallClobbers == 0..18

\* lir_gen.cpp asserts that a call has fewer than eight arguments; x19 to x28
\* are the registers a call keeps.
ASSUME MachineLimits == Arities \subseteq 0..7 /\ NumCallee <= 10

EmptyLIR == [blocks |-> <<>>, next_vreg |-> 0]

BackendInit ==
  /\ Init
  /\ ScanInit
  /\ stage = "mir"
  /\ lir = EmptyLIR
  /\ loc = <<>>
  /\ pc = <<1, 1>>
  /\ scratch = <<>>
  /\ regs = [r \in 0..28 |-> IF r \in ArgRegs THEN Arg(r)
                             ELSE IF r \in CallClobbers THEN Junk ELSE Caller(r)]
  /\ frame = <<>>
-----------------------------------------------------------------------------
\* The steps of the compiler, in the order of backend_driver.cpp.
Walk ==
  /\ stage = "mir"
  /\ Expression \/ Statement
  /\ UNCHANGED <<scanvars, stage, lir, loc, runvars>>

Lower ==
  /\ stage = "mir" /\ ~Running
  /\ lir' = lower_mir_to_lir(blocks, next_temp)
  /\ stage' = "lir"
  /\ UNCHANGED <<vars, scanvars, loc, runvars>>

\* A failed assertion ends the compiler.  A range whose definition was never
\* met has neither a start nor a vreg: nothing defined comes of it.
BuildRanges ==
  LET s == construct_ranges(lir)
      i == ScanInput(lir, s)
  IN
  /\ stage = "lir"
  /\ IF s.aborted THEN stage' = "aborted" /\ UNCHANGED scanvars
     ELSE IF ~WellFormed(i) THEN stage' = "undefined" /\ UNCHANGED scanvars
     ELSE stage' = "regalloc" /\ Begin(i)
  /\ UNCHANGED <<vars, lir, loc, runvars>>

Allocate ==
  /\ stage = "regalloc"
  /\ Scan
  /\ UNCHANGED <<vars, stage, lir, loc, runvars>>

Emitted ==
  /\ stage = "regalloc" /\ phase = "done"
  /\ loc' = [v \in VRegsOf(lir) |->
               IF \E k \in Ranges : in.vreg[k] = v
                 THEN locs[CHOOSE k \in Ranges : in.vreg[k] = v] ELSE UNINIT]
  /\ stage' = "operands"
  /\ UNCHANGED <<vars, scanvars, lir, runvars>>
-----------------------------------------------------------------------------
Code(b) == Append(lir.blocks[b].insts, lir.blocks[b].term)
Current == Code(pc[1])[pc[2]]
AtTerm  == pc[2] = Len(Code(pc[1]))

Reg(v)     == RegOf(v, loc, scratch)
InFrame(s) == IF s \in DOMAIN frame THEN frame[s] ELSE Junk
RegsOf(f)  == {f[v] : v \in DOMAIN f}

\* The loads put before an instruction for the operands that live in memory.
FetchOperands ==
  /\ stage = "operands"
  /\ \E f \in ScratchChoices(Current, loc) :
       /\ scratch' = f
       /\ regs' = [r \in DOMAIN regs |->
                     IF \E v \in DOMAIN f : v \in UsedBy(Current) /\ arch_reg_name(f[v]) = r
                       THEN InFrame(loc[CHOOSE v \in DOMAIN f :
                                          v \in UsedBy(Current) /\ f[v] = r].id)
                       ELSE regs[r]]
  /\ stage' = "execute"
  /\ UNCHANGED <<vars, scanvars, lir, loc, pc, frame>>

\* More spilled operands than scratch registers.
OutOfScratch ==
  /\ stage = "operands"
  /\ ScratchChoices(Current, loc) = {}
  /\ stage' = "undefined"
  /\ UNCHANGED <<vars, scanvars, lir, loc, runvars>>

\* Register r gets the value of the instruction's vreg; if that one is spilled
\* the store put after the instruction sends it to its slot.
Define(base, v) ==
  /\ regs' = [base EXCEPT ![Reg(v)] = VReg(v)]
  /\ frame' = IF loc[v].kind = "LOC_SLOT" THEN (loc[v].id :> VReg(v)) @@ frame
                                          ELSE frame

AfterCall == [r \in DOMAIN regs |-> IF r \in CallClobbers THEN Junk ELSE regs[r]]

Execute ==
  /\ stage = "execute" /\ ~AtTerm
  /\ \/ /\ Current.op = "LIRCall"
        /\ Define([AfterCall EXCEPT ![0] = VReg(Current.def)], Current.def)
     \/ /\ Current.op = "LIRArgPut"
        /\ regs' = [regs EXCEPT ![Current.args[1]] = regs[Reg(Current.uses[1])]]
        /\ UNCHANGED frame
     \/ /\ Current.op = "LIRStore"
        /\ UNCHANGED <<regs, frame>>
     \/ /\ Current.op \notin {"LIRCall", "LIRArgPut", "LIRStore"}
        /\ Define(regs, Current.def)
  /\ pc' = <<pc[1], pc[2] + 1>>
  /\ scratch' = <<>>
  /\ stage' = "operands"
  /\ UNCHANGED <<vars, scanvars, lir, loc>>

\* cbnz and b: either way, as far as this model knows.
Goto ==
  /\ stage = "execute" /\ AtTerm
  /\ \E s \in succs_of(lir, pc[1]) : pc' = <<s, 1>>
  /\ scratch' = <<>>
  /\ stage' = "operands"
  /\ UNCHANGED <<vars, scanvars, lir, loc, regs, frame>>

\* b to the epilogue, which reloads the callee-saved registers it has saved.
Return ==
  /\ stage = "execute" /\ AtTerm /\ Current.op = "LIRRet"
  /\ regs' = [r \in DOMAIN regs |-> IF r \in used_callee_regs THEN Caller(r)
                                                              ELSE regs[r]]
  /\ scratch' = <<>>
  /\ stage' = "returned"
  /\ UNCHANGED <<vars, scanvars, lir, loc, pc, frame>>

Over ==
  /\ \/ stage \in {"aborted", "undefined", "returned"}
     \/ stage = "regalloc" /\ phase = "undefined"
  /\ UNCHANGED allvars

BackendNext ==
  \/ Walk \/ Lower \/ BuildRanges \/ Allocate \/ Emitted
  \/ FetchOperands \/ OutOfScratch \/ Execute \/ Goto \/ Return
  \/ Over

BackendSpec == BackendInit /\ [][BackendNext]_allvars

\* The scan runs in one thread and waits for nobody: it goes on while it can
\* change anything.
FairBackendSpec == BackendSpec /\ WF_allvars(Allocate)
-----------------------------------------------------------------------------
\* Every instruction finds, in each register it reads, the value of the
\* virtual register the lowering named there.
OperandsHoldTheirValues ==
  stage = "execute" =>
    \A v \in UsedBy(Current) : regs[Reg(v)] = VReg(v)

\* At a call the argument registers hold the arguments, in order; on entry
\* each parameter is fetched from its register before that is overwritten.
ArgumentsArriveIntact ==
  stage = "execute" =>
    /\ Current.op = "LIRCall" =>
         \A k \in DOMAIN Current.args : regs[k - 1] = VReg(Current.args[k])
    /\ Current.op = "LIRArgGet" => regs[Current.def] = Arg(Current.def)

\* The caller gets its callee-saved registers back.
CalleeSavedPreserved ==
  stage = "returned" => \A r \in CalleeSaved : regs[r] = Caller(r)

\* In a compiled function a live range runs from the definition to one past
\* the use, and the vregs without a range are those nobody reads.
RangesAreExact ==
  stage = "regalloc" /\ cur = 1 /\ UsesAreLocal =>
    \A b \in DOMAIN lir.blocks : \A i, j \in DOMAIN Code(b) :
      LET d == Code(b)[i]
          u == Code(b)[j] IN
      d.def # NoVReg /\ d.def \in UsedBy(u) =>
        \E k \in Ranges : /\ in.vreg[k] = d.def
                          /\ in.start[k] = d.num
                          /\ in.end[k] = u.num + 1

\* The IN and OUT sets solve the equations the pass states, although it goes
\* over the blocks only once: either nothing but slots lives from one block to
\* the next, or no block leads back to one already met.
LivenessSolved ==
  stage = "lir" /\ (UsesAreLocal \/ LeadsForward(lir)) =>
    SolvesEquations(lir, construct_in_out(lir))

\* assert(!interval.ranges.empty()): no definition is met in a block out of
\* which its value is live.
AssertionsHold == stage # "aborted"

\* They do as long as every value is read in the block that computes it.
NeverAborts == UsesAreLocal => AssertionsHold

\* Whatever is compiled gets a register or slot for everything it uses, and no
\* instruction runs out of scratch registers: as long as the values are read in
\* the blocks that compute them and there is a register more than are alive.
NothingUndefined ==
  FewActiveVariables => /\ phase # "undefined"
                        /\ UsesAreLocal => stage # "undefined"
=============================================================================
