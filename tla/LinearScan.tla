----------------------------- MODULE LinearScan -----------------------------
(***************************************************************************)
(* The linear-scan register allocator of the backend                       *)
(* (regalloc_analysis.cpp, linear_scan_regalloc and the helpers it calls), *)
(* for one function.                                                       *)
(*                                                                         *)
(* The input is what the range-construction pass leaves behind: the live   *)
(* ranges of the function, sorted by start, and the numbers of its call    *)
(* instructions.  A range is named by its place in that order.  The scan   *)
(* visits the ranges in order; for each it first retires the active        *)
(* ranges that have ended (one Expire step per erased entry), then gives   *)
(* the range a register or a stack slot, possibly by evicting another.     *)
(* Every function starts from a fresh RegAllocInfo, so one is modelled.    *)
(***************************************************************************)
EXTENDS Integers, FiniteSets

CONSTANTS
  NumCaller,   \* ARM_FREE_REGS: registers a call destroys, x9 upwards
  NumCallee,   \* ARM_FREE_CALLEE_REGS: registers a call keeps, x19 upwards
  Inputs       \* the functions that may be allocated

CALLER_SAVED_BASE == 9
CALLEE_SAVED_BASE == 19

CallerSaved == CALLER_SAVED_BASE .. CALLER_SAVED_BASE + NumCaller - 1
CalleeSaved == CALLEE_SAVED_BASE .. CALLEE_SAVED_BASE + NumCallee - 1
PReg        == CallerSaved \cup CalleeSaved

SIZE_MAX      == -1   \* what an evicted range keeps as its register
INDETERMINATE == -2   \* Range() leaves assigned_preg uninitialised

WellFormed(i) ==
  /\ i.n \in Nat
  /\ i.start \in [1..i.n -> Nat]
  /\ i.end \in [1..i.n -> Nat]
  /\ i.calls \subseteq Nat
  /\ i.max_slot_id \in Nat
  /\ \A v, w \in 1..i.n : v <= w => i.start[v] <= i.start[w]

\* The base test of remove_inactive_ranges tells the two files apart only
\* while the caller-saved file ends below x19.
ASSUME RegisterFiles == /\ NumCaller \in 1..10
                        /\ NumCallee \in Nat \ {0}

ASSUME InputsWellFormed == \A i \in Inputs : WellFormed(i)

VARIABLES
  in,                \* the function being allocated (never changes)
  cur,               \* the range the outer loop is at
  phase,             \* "idle", "scan", "done", or "undefined": a register id
                     \* was read that nobody had written
  active,            \* how often each range sits in the active vector
  free_regs,         \* caller-saved registers whose bit is 1 (in use)
  free_callee_regs,  \* callee-saved registers whose bit is 1 (in use)
  locs,              \* vreg -> Location
  assigned_preg,     \* Range::assigned_preg
  used_callee_regs,  \* what the prologue will save
  slot_counter,      \* next spill slot
  max_slot_id        \* LIRFunction::max_slot_id, written back at the end

scanvars == <<in, cur, phase, active, free_regs, free_callee_regs, locs,
          assigned_preg, used_callee_regs, slot_counter, max_slot_id>>

Ranges == 1..in.n
Start(v) == in.start[v]
End(v)   == in.end[v]

Preg(r)  == [kind |-> "LOC_PREG", id |-> r]
Slot(s)  == [kind |-> "LOC_SLOT", id |-> s]
UNINIT   == [kind |-> "LOC_UNINIT", id |-> SIZE_MAX]

InPreg(v) == locs[v].kind = "LOC_PREG"
InSlot(v) == locs[v].kind = "LOC_SLOT"

\* The test of remove_inactive_ranges for the file a register belongs to.
IsCalleeSaved(r) == r >= CALLEE_SAVED_BASE

\* Mutant: the slot of the last variable is given out again.
FirstSlot_mutant(i) == i.max_slot_id

\* The slot counter a RegAllocInfo starts with.
FirstSlot(i) == i.max_slot_id + 1

\* Mutant: only the first register is entered.
Tracked_mutant(reg) == IF used_callee_regs = {} THEN {reg} ELSE used_callee_regs

\* used_callee_regs once reg is in it; a register is entered once.
Tracked(reg) == used_callee_regs \cup {reg}

\* check_if_crosses_call
CrossesCall(v) == \E c \in in.calls : Start(v) < c /\ c < End(v)

\* Mutant: one register is never given out.
PregsAvailable_mutant == Cardinality(CallerSaved \ free_regs) > 1

\* pregs_available: only the caller-saved bits are looked at
PregsAvailable == free_regs # CallerSaved

\* get_first_zero_position on the callee bits finds no index below their number
CalleeExhausted == free_callee_regs = CalleeSaved

Lowest(S) == CHOOSE r \in S : \A s \in S : r <= s

Active == {v \in Ranges : active[v] > 0}

\* The active vector is sorted by end; the ties std::sort leaves are open.
EndsFirst(v) == v \in Active /\ \A w \in Active : End(v) <= End(w)
EndsLast(v)  == v \in Active /\ \A w \in Active : End(w) <= End(v)

\* Mutant: the end of the new range counts, not its start.
Expired_mutant(v) == End(v) < End(cur)

Expired(v) == End(v) < Start(cur)

\* The victim of allocate_slot gives way to a range that ends earlier.
OutlivesCurrent(v) == End(v) > End(cur)
-----------------------------------------------------------------------------
NoFunction == [n |-> 0, start |-> [v \in 1..0 |-> 0], end |-> [v \in 1..0 |-> 0],
               calls |-> {}, max_slot_id |-> 0]

ScanInit ==
  /\ in = NoFunction
  /\ cur = 1
  /\ phase = "idle"
  /\ active = [v \in Ranges |-> 0]
  /\ free_regs = {}
  /\ free_callee_regs = {}
  /\ locs = [v \in Ranges |-> UNINIT]
  /\ assigned_preg = [v \in Ranges |-> INDETERMINATE]
  /\ used_callee_regs = {}
  /\ slot_counter = 0
  /\ max_slot_id = 0

\* The loop of linear_scan_regalloc takes up a function: a new RegAllocInfo.
Begin(i) ==
  /\ phase = "idle"
  /\ phase' = "scan"
  /\ in' = i
  /\ active' = [v \in 1..i.n |-> 0]
  /\ locs' = [v \in 1..i.n |-> UNINIT]
  /\ assigned_preg' = [v \in 1..i.n |-> INDETERMINATE]
  /\ slot_counter' = FirstSlot(i)
  /\ max_slot_id' = i.max_slot_id
  /\ UNCHANGED <<cur, free_regs, free_callee_regs, used_callee_regs>>

\* The loop of remove_inactive_ranges is at entry v, which has ended.
AtExpired(v) ==
  /\ phase = "scan"
  /\ cur \in Ranges
  /\ Expired(v)
  /\ EndsFirst(v)

\* v has a register: clear its bit in the file its id belongs to, erase v.
Expire(v) ==
  /\ AtExpired(v)
  /\ InPreg(v)
  /\ IF IsCalleeSaved(locs[v].id)
       THEN /\ free_callee_regs' = free_callee_regs \ {locs[v].id}
            /\ UNCHANGED free_regs
       ELSE /\ free_regs' = free_regs \ {locs[v].id}
            /\ UNCHANGED free_callee_regs
  /\ active' = [active EXCEPT ![v] = @ - 1]
  /\ UNCHANGED <<in, cur, phase, locs, assigned_preg, used_callee_regs,
                 slot_counter, max_slot_id>>

\* v has a slot: "continue" without advancing the iterator.
Spin(v) ==
  /\ AtExpired(v)
  /\ InSlot(v)
  /\ UNCHANGED scanvars

\* remove_inactive_ranges has returned for the range cur.
Retired ==
  /\ phase = "scan"
  /\ cur \in Ranges
  /\ \A v \in Active : ~Expired(v)

\* Mutant: whether a call comes in between is not asked.
AllocateCallerSaved_mutant ==
  LET reg == Lowest(CallerSaved \ free_regs) IN
  /\ Retired
  /\ PregsAvailable
  /\ locs' = [locs EXCEPT ![cur] = Preg(reg)]
  /\ assigned_preg' = [assigned_preg EXCEPT ![cur] = reg]
  /\ free_regs' = free_regs \cup {reg}
  /\ active' = [active EXCEPT ![cur] = @ + 1]
  /\ cur' = cur + 1
  /\ UNCHANGED <<in, phase, free_callee_regs, used_callee_regs, slot_counter,
                 max_slot_id>>

\* allocate_preg, a register a call may destroy; cur is then pushed on active.
AllocateCallerSaved ==
  LET reg == Lowest(CallerSaved \ free_regs) IN
  /\ Retired
  /\ PregsAvailable
  /\ ~CrossesCall(cur)
  /\ locs' = [locs EXCEPT ![cur] = Preg(reg)]
  /\ assigned_preg' = [assigned_preg EXCEPT ![cur] = reg]
  /\ free_regs' = free_regs \cup {reg}
  /\ active' = [active EXCEPT ![cur] = @ + 1]
  /\ cur' = cur + 1
  /\ UNCHANGED <<in, phase, free_callee_regs, used_callee_regs, slot_counter,
                 max_slot_id>>

\* allocate_preg, a register a call keeps; the prologue will have to save it.
AllocateCalleeSaved ==
  LET reg == Lowest(CalleeSaved \ free_callee_regs) IN
  /\ Retired
  /\ PregsAvailable
  /\ CrossesCall(cur)
  /\ ~CalleeExhausted
  /\ locs' = [locs EXCEPT ![cur] = Preg(reg)]
  /\ assigned_preg' = [assigned_preg EXCEPT ![cur] = reg]
  /\ free_callee_regs' = free_callee_regs \cup {reg}
  /\ used_callee_regs' = Tracked(reg)
  /\ active' = [active EXCEPT ![cur] = @ + 1]
  /\ cur' = cur + 1
  /\ UNCHANGED <<in, phase, free_regs, slot_counter, max_slot_id>>

\* allocate_slot is reached from the outer loop when no caller-saved register
\* is free, and from allocate_preg when the callee-saved ones have run out.
NeedsSlot ==
  /\ Retired
  /\ PregsAvailable => CrossesCall(cur) /\ CalleeExhausted

\* Mutant: both ways push, one of them twice.
PushedByCaller_mutant == 2

\* In the second case the outer loop still pushes cur on active afterwards.
PushedByCaller == IF PregsAvailable THEN 1 ELSE 0

\* Mutant: the victim is not found.
HandOver_mutant(v) == [active EXCEPT ![cur] = 1 + PushedByCaller]

\* The active list once cur has taken the place of v.
HandOver(v) == [active EXCEPT ![v] = @ - 1, ![cur] = 1 + PushedByCaller]

\* allocate_slot, the victim ends later than cur: cur takes over its register,
\* the victim moves to a fresh slot and one entry of it leaves active.
EvictVictim(v) ==
  /\ NeedsSlot
  /\ OutlivesCurrent(v)
  /\ EndsLast(v)
  /\ locs' = [locs EXCEPT ![v] = Slot(slot_counter),
                          ![cur] = Preg(assigned_preg[v])]
  /\ assigned_preg' = [assigned_preg EXCEPT ![v] = SIZE_MAX,
                                            ![cur] = assigned_preg[v]]
  /\ slot_counter' = slot_counter + 1
  /\ active' = HandOver(v)
  /\ phase' = IF assigned_preg[v] \in PReg THEN "scan" ELSE "undefined"
  /\ cur' = cur + 1
  /\ UNCHANGED <<in, free_regs, free_callee_regs, used_callee_regs,
                 max_slot_id>>

\* allocate_slot, no active range ends later: cur itself is spilled.
SpillCurrent ==
  /\ NeedsSlot
  /\ Active # {} /\ \A v \in Active : ~OutlivesCurrent(v)
  /\ locs' = [locs EXCEPT ![cur] = Slot(slot_counter)]
  /\ slot_counter' = slot_counter + 1
  /\ active' = [active EXCEPT ![cur] = PushedByCaller]
  /\ cur' = cur + 1
  /\ UNCHANGED <<in, phase, free_regs, free_callee_regs, assigned_preg,
                 used_callee_regs, max_slot_id>>

\* The ranges are exhausted: the results go to the context and the function.
Finish ==
  /\ phase = "scan"
  /\ cur > in.n
  /\ phase' = "done"
  /\ max_slot_id' = slot_counter
  /\ UNCHANGED <<in, cur, active, free_regs, free_callee_regs, locs,
                 assigned_preg, used_callee_regs, slot_counter>>

Scan ==
  \/ \E v \in Ranges : Expire(v) \/ Spin(v) \/ EvictVictim(v)
  \/ AllocateCallerSaved
  \/ AllocateCalleeSaved
  \/ SpillCurrent
  \/ Finish

ScanNext == Scan \/ \E i \in Inputs : Begin(i)

ScanSpec == ScanInit /\ [][ScanNext]_scanvars
-----------------------------------------------------------------------------
Location == [kind : {"LOC_PREG"}, id : PReg \cup {SIZE_MAX, INDETERMINATE}]
              \cup [kind : {"LOC_SLOT"}, id : Nat] \cup {UNINIT}

\* The types of the allocator's state (RegAllocInfo and the ranges).
ScanTypeOK ==
  /\ WellFormed(in)
  /\ cur \in 1..in.n + 1
  /\ phase \in {"idle", "scan", "done", "undefined"}
  /\ active \in [Ranges -> 0..2]
  /\ free_regs \subseteq CallerSaved
  /\ free_callee_regs \subseteq CalleeSaved
  /\ locs \in [Ranges -> Location]
  /\ assigned_preg \in [Ranges -> PReg \cup {SIZE_MAX, INDETERMINATE}]
  /\ used_callee_regs \subseteq CalleeSaved
  /\ slot_counter \in Nat
  /\ max_slot_id \in Nat

\* [start, end) of v and of w meet.
Overlap(v, w) == Start(v) < End(w) /\ Start(w) < End(v)

\* Two values that are alive at the same time never sit in the same register,
\* whatever mixture of expiry, eviction and hand-over of registers led there.
NoSharedPreg ==
  \A v, w \in Ranges :
    v < w /\ InPreg(v) /\ InPreg(w) /\ Overlap(v, w)
      => locs[v].id # locs[w].id

\* A value that lives across a call is never in a register the call destroys:
\* also when it inherited the register of the range it evicted, a choice that
\* allocate_slot makes without looking at the calls.
SurvivesCalls ==
  \A v \in Ranges : InPreg(v) /\ CrossesCall(v) => locs[v].id \notin CallerSaved

\* Every callee-saved register some value lives in, inherited ones included,
\* is among those the prologue saves for the caller of this function.
CalleeSavedAreTracked ==
  \A v \in Ranges : InPreg(v) /\ locs[v].id \in CalleeSaved
                      => locs[v].id \in used_callee_regs

\* Spill slots are distinct from each other and from the slots the variables
\* already have, and once the scan is over the frame has room for all of them.
SpillSlotsAreFresh ==
  \A v \in Ranges : InSlot(v) =>
    /\ locs[v].id > in.max_slot_id
    /\ locs[v].id < IF phase = "done" THEN max_slot_id ELSE slot_counter
    /\ \A w \in Ranges : InSlot(w) /\ w # v => locs[v].id # locs[w].id

\* No register leaks: a bit that is set belongs to a value on the active list.
\* (The list of expired values and the two bit sets are updated separately.)
BusyPregsAreOwned ==
  \A r \in free_regs \cup free_callee_regs :
    \E v \in Active : InPreg(v) /\ locs[v].id = r

\* Ranges alive, by the test of remove_inactive_ranges, when w is allocated.
LiveAt(w) == {w} \cup {u \in 1..w : End(u) >= Start(w)}

\* A value goes to memory only if at some point more values were alive than
\* one of the two register files holds.
SpillsOnlyUnderPressure ==
  (\E v \in Ranges : InSlot(v)) =>
    \E w \in Ranges : \/ Cardinality(LiveAt(w)) > NumCaller
                      \/ Cardinality(LiveAt(w)) > NumCallee

\* "Programs with more than 16 active variables per function may not execute
\* at all" (README), 16 being one less than the registers there are: with no
\* more than that alive at any time, the scan of a function comes to its end.
FewActiveVariables ==
  \A w \in Ranges : Cardinality(LiveAt(w)) < NumCaller + NumCallee

ScanTerminates == phase = "scan" /\ FewActiveVariables ~> phase = "done"
=============================================================================
