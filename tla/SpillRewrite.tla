---------------------------- MODULE SpillRewrite ----------------------------
(***************************************************************************)
(* From allocated LIR to instructions on machine registers: the operands   *)
(* spill_rewrite_before_after chooses and the register names the emitter   *)
(* prints.  A location is a record [kind, id], as in LinearScan.           *)
(***************************************************************************)
EXTENDS LIRGen

\* ScratchRegs: ARM_FREE_REGS and the number after it, as physical registers.
Scratch == {7, 8}

\* Mutant: one more entry is wrong.
arch_reg_name_mutant(p) == IF p \in {9, 10} THEN 8 ELSE p

\* arch_reg_name: the table has x8 in the place of x9.
arch_reg_name(p) == IF p = 9 THEN 8 ELSE p

\* CALLER_SAVED_IDS[0], for a definition nobody uses.
DeadDef == 9

VRegsIn(inst) == UsedBy(inst) \cup ({inst.def} \ {NoVReg})

SpilledIn(inst, loc) == {v \in VRegsIn(inst) : loc[v].kind = "LOC_SLOT"}

\* acquire hands out r0, then r1, in the order an unordered_set yields the
\* vregs: any way of pairing them up.  A third request gets no register.
ScratchChoices(inst, loc) ==
  LET vs == SpilledIn(inst, loc)
      rs == {r \in Scratch : r < 7 + Cardinality(vs)} IN
  {f \in [vs -> rs] : \A v, w \in vs : f[v] = f[w] => v = w}

\* The register a vreg of the instruction is rewritten to and printed as.
RegOf(v, loc, scratch) ==
  arch_reg_name(CASE loc[v].kind = "LOC_PREG" -> loc[v].id
                  [] loc[v].kind = "LOC_SLOT" -> scratch[v]
                  [] OTHER -> DeadDef)
=============================================================================
