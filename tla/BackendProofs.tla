---------------------------- MODULE BackendProofs ----------------------------
(***************************************************************************)
(* Theorems about LinearScan, for any two register files and any function  *)
(* whose ranges are sorted, and about the whole back end, for any function *)
(* MIRGen can produce and any two register files the machine has.          *)
(*                                                                         *)
(* None of the scan's properties is inductive.  What keeps two live values *)
(* apart is that a value still alive at the range under way is on the      *)
(* active list and has its bit set (LiveAreBusy), that no two values on    *)
(* the list share a register (ActiveAreDistinct), and that                 *)
(* Range::assigned_preg, from which the heir of an evicted range takes its *)
(* register, agrees with locs (AssignedAgrees).                            *)
(*                                                                         *)
(* What a pass relies on is what the one before it has made: a finished    *)
(* function lowers to code that is fit for the passes after it (LIRFits),  *)
(* on such code one walk backwards finds every range (BlocksWalked), and   *)
(* the code that is run writes no callee-saved register but those the      *)
(* prologue has saved (Owned).  A recursive function is reasoned about as  *)
(* a sequence of states, each a step from the one before (RecursiveTo),    *)
(* with induction over the numbers up to n (InductionUpTo).                *)
(***************************************************************************)
EXTENDS Backend, MIRGenCodeProofs

Busy == free_regs \cup free_callee_regs

IdleIsFresh ==
  phase = "idle" => cur = 1 /\ free_regs = {} /\ free_callee_regs = {}

\* Only ranges the outer loop has passed are on the active list.
ActiveArePast == \A v \in Ranges : active[v] > 0 => v < cur

LaterAreUntouched ==
  \A v \in Ranges : v >= cur => /\ locs[v] = UNINIT
                                /\ assigned_preg[v] = INDETERMINATE

EarlierArePlaced == \A v \in Ranges : v < cur => InPreg(v) \/ InSlot(v)

AssignedAgrees ==
  \A v \in Ranges :
    /\ InPreg(v) => /\ assigned_preg[v] = locs[v].id
                    /\ phase # "undefined" => locs[v].id \in PReg
    /\ InSlot(v) => assigned_preg[v] \notin PReg

\* A register whose value has not ended when cur begins is not up for grabs.
LiveAreBusy ==
  phase = "scan" /\ cur \in Ranges =>
    \A v \in Ranges : InPreg(v) /\ End(v) >= Start(cur) =>
      active[v] > 0 /\ locs[v].id \in Busy

ActiveAreDistinct ==
  \A v, w \in Ranges :
    v # w /\ active[v] > 0 /\ active[w] > 0 /\ InPreg(v) /\ InPreg(w)
      => locs[v].id # locs[w].id

SlotsAreCounted ==
  /\ phase # "idle" => slot_counter > in.max_slot_id
  /\ phase = "done" => max_slot_id = slot_counter
  /\ \A v \in Ranges : InSlot(v) =>
       /\ locs[v].id > in.max_slot_id
       /\ locs[v].id < slot_counter
       /\ \A w \in Ranges : InSlot(w) /\ w # v => locs[v].id # locs[w].id

\* The inductive invariant.
ScanInv ==
  /\ ScanTypeOK
  /\ IdleIsFresh
  /\ ActiveArePast
  /\ LaterAreUntouched
  /\ EarlierArePlaced
  /\ AssignedAgrees
  /\ LiveAreBusy
  /\ ActiveAreDistinct
  /\ SlotsAreCounted
  /\ NoSharedPreg
  /\ SurvivesCalls
  /\ CalleeSavedAreTracked
  /\ BusyPregsAreOwned
-----------------------------------------------------------------------------
\* The lowest register of a non-empty set is one of the set.
LEMMA LowestIsMember ==
  ASSUME NEW S, S \subseteq Nat, S # {}
  PROVE  Lowest(S) \in S
<1>1. IsWellFoundedOn(OpToRel(<, Nat), Nat)
  BY NatLessThanWellFounded
<1>2. PICK x \in S : \A y \in S : ~(<<y, x>> \in OpToRel(<, Nat))
  BY <1>1, WFMin
<1>3. ASSUME NEW y \in S
      PROVE  ~(y < x)
  <2>1. <<y, x>> \in Nat \X Nat
    OBVIOUS
  <2>2. <<y, x>>[1] = y /\ <<y, x>>[2] = x
    OBVIOUS
  <2>3. ~(<<y, x>>[1] < <<y, x>>[2])
    BY <1>2, <2>1, Zenon DEF OpToRel
  <2> QED
    BY <2>2, <2>3
<1>4. \A y \in S : x <= y
  BY <1>3
<1> QED
  BY <1>4 DEF Lowest

\* The two register files are apart, and no junk id is in either.
LEMMA FilesAreApart ==
  /\ CallerSaved \subseteq Nat
  /\ CalleeSaved \subseteq Nat
  /\ \A r \in CallerSaved : r < CALLEE_SAVED_BASE
  /\ \A r \in CalleeSaved : r >= CALLEE_SAVED_BASE
  /\ PReg = CallerSaved \cup CalleeSaved
  /\ SIZE_MAX \notin PReg /\ INDETERMINATE \notin PReg
BY RegisterFiles DEF CallerSaved, CalleeSaved, PReg, CALLER_SAVED_BASE,
   CALLEE_SAVED_BASE, SIZE_MAX, INDETERMINATE

\* The ranges have numbers for bounds and are sorted by their starts.
LEMMA RangesAreSorted ==
  ASSUME ScanInv
  PROVE  /\ \A v \in Ranges : Start(v) \in Nat /\ End(v) \in Nat
         /\ \A v, w \in Ranges : v <= w => Start(v) <= Start(w)
         /\ in.n \in Nat /\ Ranges \subseteq Nat /\ cur \in Nat
<1>1. WellFormed(in) /\ cur \in 1..in.n + 1
  BY DEF ScanInv, ScanTypeOK
<1>2. in.n \in Nat /\ cur \in Nat /\ Ranges \subseteq Nat
  BY <1>1 DEF WellFormed, Ranges
<1>3. \A v \in Ranges : Start(v) \in Nat /\ End(v) \in Nat
  BY <1>1 DEF WellFormed, Start, End, Ranges
<1>4. \A v, w \in Ranges : v <= w => Start(v) <= Start(w)
  BY <1>1 DEF WellFormed, Start, Ranges
<1> QED
  BY <1>2, <1>3, <1>4

LEMMA InitScanInv == ScanInit => ScanInv
<1> SUFFICES ASSUME ScanInit PROVE ScanInv
  OBVIOUS
<1>1. Ranges = {} /\ in.n = 0
  BY DEF ScanInit, NoFunction, Ranges
<1>2. WellFormed(in)
  BY DEF ScanInit, NoFunction, WellFormed
<1>3. ScanTypeOK
  BY <1>1, <1>2 DEF ScanInit, ScanTypeOK
<1> QED
  BY <1>1, <1>3 DEF ScanInit, ScanInv, IdleIsFresh, ActiveArePast, LaterAreUntouched,
     EarlierArePlaced, AssignedAgrees, LiveAreBusy, ActiveAreDistinct,
     SlotsAreCounted, NoSharedPreg, SurvivesCalls, CalleeSavedAreTracked,
     BusyPregsAreOwned

LEMMA BeginScanInv ==
  ASSUME ScanInv, NEW i, WellFormed(i), Begin(i)
  PROVE  ScanInv'
<1>1. WellFormed(in') /\ in' = i
  BY DEF Begin
<1>2. /\ \A v \in Ranges' : /\ locs'[v] = UNINIT
                            /\ assigned_preg'[v] = INDETERMINATE
                            /\ active'[v] = 0
      /\ cur' = 1 /\ phase' = "scan" /\ free_regs' = {} /\ free_callee_regs' = {}
  BY DEF Begin, Ranges, ScanInv, IdleIsFresh
<1>3. \A v \in Ranges' : ~InPreg(v)' /\ ~InSlot(v)' /\ v >= 1
  BY <1>2 DEF InPreg, InSlot, UNINIT, Ranges
<1>4. ScanTypeOK'
  <2>1. /\ active' \in [Ranges' -> 0..2]
        /\ locs' \in [Ranges' -> Location]
        /\ assigned_preg' \in [Ranges' -> PReg \cup {SIZE_MAX, INDETERMINATE}]
    BY DEF Begin, Ranges, Location
  <2>2. /\ cur' \in 1..in'.n + 1 /\ slot_counter' \in Nat /\ max_slot_id' \in Nat
    BY <1>1, <1>2 DEF Begin, FirstSlot, WellFormed
  <2>3. used_callee_regs' \subseteq CalleeSaved
    BY DEF Begin, ScanInv, ScanTypeOK
  <2> QED
    BY <1>1, <1>2, <2>1, <2>2, <2>3 DEF ScanTypeOK
<1>5. SlotsAreCounted'
  BY <1>1, <1>2, <1>3 DEF Begin, FirstSlot, WellFormed, SlotsAreCounted
<1>6. LiveAreBusy' /\ ActiveAreDistinct' /\ NoSharedPreg' /\ SurvivesCalls'
      /\ CalleeSavedAreTracked'
  BY <1>3 DEF LiveAreBusy, ActiveAreDistinct, NoSharedPreg, SurvivesCalls,
     CalleeSavedAreTracked
<1>7. LaterAreUntouched' /\ ActiveArePast' /\ IdleIsFresh' /\ BusyPregsAreOwned'
  BY <1>2 DEF LaterAreUntouched, ActiveArePast, IdleIsFresh, BusyPregsAreOwned
<1>8. EarlierArePlaced' /\ AssignedAgrees'
  BY <1>2, <1>3 DEF EarlierArePlaced, AssignedAgrees, Ranges
<1> QED
  BY <1>4, <1>5, <1>6, <1>7, <1>8 DEF ScanInv

\* Retiring v clears one bit, and v is the only one on the list to own it.
LEMMA ExpireScanInv ==
  ASSUME ScanInv, NEW v \in Ranges, Expire(v)
  PROVE  ScanInv'
<1>1. /\ in' = in /\ cur' = cur /\ phase' = phase /\ phase = "scan"
      /\ locs' = locs /\ assigned_preg' = assigned_preg
      /\ used_callee_regs' = used_callee_regs
      /\ slot_counter' = slot_counter /\ max_slot_id' = max_slot_id
      /\ cur \in Ranges /\ End(v) < Start(cur) /\ active[v] > 0 /\ InPreg(v)
  BY DEF Expire, AtExpired, Expired, EndsFirst, Active
<1>2. /\ active \in [Ranges -> 0..2]
      /\ active' = [active EXCEPT ![v] = @ - 1]
  BY DEF Expire, ScanInv, ScanTypeOK
<1>3. \A w \in Ranges : /\ active'[w] > 0 => active[w] > 0
                        /\ w # v => active'[w] = active[w]
  BY <1>2
<1>4. /\ free_regs' \subseteq free_regs
      /\ free_callee_regs' \subseteq free_callee_regs
      /\ Busy' = Busy \ {locs[v].id}
  <2>1. locs[v].id \in PReg
    BY <1>1 DEF ScanInv, AssignedAgrees
  <2>2. free_regs \subseteq CallerSaved /\ free_callee_regs \subseteq CalleeSaved
    BY DEF ScanInv, ScanTypeOK
  <2>3. CASE locs[v].id >= CALLEE_SAVED_BASE
    <3>1. \A r \in free_regs : r \in Nat /\ r < CALLEE_SAVED_BASE
      BY <2>2, FilesAreApart
    <3>2. locs[v].id \notin free_regs
      BY <2>3, <3>1 DEF CALLEE_SAVED_BASE
    <3> QED
      BY <2>3, <3>2 DEF Expire, IsCalleeSaved, Busy
  <2>4. CASE ~(locs[v].id >= CALLEE_SAVED_BASE)
    <3>1. locs[v].id \notin free_callee_regs
      BY <2>2, <2>4, FilesAreApart
    <3> QED
      BY <2>4, <3>1 DEF Expire, IsCalleeSaved, Busy
  <2> QED
    BY <2>3, <2>4
<1>5. ScanTypeOK'
  <2>1. active' \in [Ranges -> 0..2]
    BY <1>1, <1>2
  <2> QED
    BY <1>1, <1>4, <2>1 DEF ScanInv, ScanTypeOK, WellFormed, Ranges
<1>6. IdleIsFresh' /\ LaterAreUntouched' /\ EarlierArePlaced' /\ AssignedAgrees'
      /\ SlotsAreCounted' /\ NoSharedPreg' /\ SurvivesCalls'
      /\ CalleeSavedAreTracked'
  BY <1>1 DEF ScanInv, IdleIsFresh, LaterAreUntouched, EarlierArePlaced,
     AssignedAgrees, SlotsAreCounted, NoSharedPreg, SurvivesCalls,
     CalleeSavedAreTracked, Ranges, InPreg, InSlot, Overlap, CrossesCall,
     Start, End
<1>7. ActiveArePast' /\ ActiveAreDistinct'
  BY <1>1, <1>3 DEF ScanInv, ActiveArePast, ActiveAreDistinct, Ranges, InPreg
<1>8. LiveAreBusy'
  <2> SUFFICES ASSUME NEW w \in Ranges, InPreg(w), End(w) >= Start(cur)
               PROVE  active'[w] > 0 /\ locs[w].id \in Busy'
    BY <1>1 DEF LiveAreBusy, Ranges, InPreg, Start, End
  <2>1. w # v
    BY <1>1, RangesAreSorted
  <2>2. active[w] > 0 /\ locs[w].id \in Busy
    BY <1>1 DEF ScanInv, LiveAreBusy
  <2>3. locs[w].id # locs[v].id
    BY <1>1, <2>1, <2>2 DEF ScanInv, ActiveAreDistinct
  <2> QED
    BY <1>3, <1>4, <2>1, <2>2, <2>3
<1>9. BusyPregsAreOwned'
  <2> SUFFICES ASSUME NEW r \in Busy'
               PROVE  \E w \in Ranges : active'[w] > 0 /\ InPreg(w) /\ locs[w].id = r
    BY <1>1 DEF BusyPregsAreOwned, Busy, Active, Ranges, InPreg
  <2>1. PICK w \in Active : InPreg(w) /\ locs[w].id = r
    BY <1>4 DEF ScanInv, BusyPregsAreOwned, Busy
  <2>2. w # v
    BY <1>4, <2>1
  <2> QED
    BY <1>3, <2>1, <2>2 DEF Active
<1> QED
  BY <1>5, <1>6, <1>7, <1>8, <1>9 DEF ScanInv

\* When the expired ranges are gone, every value on the active list is alive
\* at cur, so no free register is the place of one of them.
LEMMA RetiredAreLive ==
  ASSUME ScanInv, Retired
  PROVE  /\ phase = "scan" /\ cur \in Ranges
         /\ \A w \in Ranges : active[w] > 0 => /\ w < cur
                                               /\ End(w) >= Start(cur)
                                               /\ InPreg(w) => locs[w].id \in Busy
         /\ active[cur] = 0
<1>1. phase = "scan" /\ cur \in Ranges
  BY DEF Retired
<1>2. ASSUME NEW w \in Ranges, active[w] > 0
      PROVE  /\ w < cur /\ End(w) >= Start(cur)
             /\ InPreg(w) => locs[w].id \in Busy
  <2>1. w < cur
    BY <1>2 DEF ScanInv, ActiveArePast
  <2>2. End(w) >= Start(cur)
    BY <1>1, <1>2, RangesAreSorted DEF Retired, Active, Expired
  <2> QED
    BY <1>1, <2>1, <2>2 DEF ScanInv, LiveAreBusy
<1>3. active[cur] = 0
  <2>1. active[cur] \in 0..2
    BY <1>1 DEF ScanInv, ScanTypeOK
  <2>2. ~(active[cur] > 0)
    BY <1>1, RangesAreSorted DEF ScanInv, ActiveArePast
  <2> QED
    BY <2>1, <2>2
<1> QED
  BY <1>1, <1>2, <1>3

\* What both ways of allocate_preg do: cur gets a register whose bit was 0.
PlaceIn(reg) ==
  /\ Retired
  /\ reg \in PReg \ Busy
  /\ CrossesCall(cur) => reg \notin CallerSaved
  /\ locs' = [locs EXCEPT ![cur] = Preg(reg)]
  /\ assigned_preg' = [assigned_preg EXCEPT ![cur] = reg]
  /\ free_regs' \subseteq CallerSaved
  /\ free_callee_regs' \subseteq CalleeSaved
  /\ Busy' = Busy \cup {reg}
  /\ used_callee_regs' \subseteq CalleeSaved
  /\ used_callee_regs \subseteq used_callee_regs'
  /\ reg \in CalleeSaved => reg \in used_callee_regs'
  /\ active' = [active EXCEPT ![cur] = @ + 1]
  /\ cur' = cur + 1
  /\ UNCHANGED <<in, phase, slot_counter, max_slot_id>>

LEMMA PlacedScanInv ==
  ASSUME ScanInv, NEW reg, PlaceIn(reg), NEW c, c = cur
  PROVE  ScanInv'
<1>1. /\ c = cur /\ in' = in /\ cur' = c + 1 /\ phase' = phase /\ phase = "scan"
      /\ slot_counter' = slot_counter /\ max_slot_id' = max_slot_id
      /\ c \in Ranges /\ active[c] = 0
      /\ reg \in PReg /\ reg \notin Busy
  BY RetiredAreLive DEF PlaceIn
<1>2. /\ c \in Nat /\ in.n \in Nat /\ Ranges \subseteq Nat /\ c <= in.n
      /\ \A v, w \in Ranges : v <= w => Start(v) <= Start(w)
      /\ \A v \in Ranges : Start(v) \in Nat /\ End(v) \in Nat
  BY <1>1, RangesAreSorted DEF Ranges
<1>3. /\ locs \in [Ranges -> Location]
      /\ active \in [Ranges -> 0..2]
      /\ assigned_preg \in [Ranges -> PReg \cup {SIZE_MAX, INDETERMINATE}]
  BY DEF ScanInv, ScanTypeOK
<1>4. /\ \A w \in Ranges : w # c => /\ locs'[w] = locs[w]
                                      /\ assigned_preg'[w] = assigned_preg[w]
                                      /\ active'[w] = active[w]
      /\ locs'[c] = Preg(reg) /\ assigned_preg'[c] = reg /\ active'[c] = 1
  BY <1>1, <1>3 DEF PlaceIn
<1>5. /\ Ranges' = Ranges
      /\ \A w \in Ranges : w # c => (InPreg(w)' <=> InPreg(w)) /\ (InSlot(w)' <=> InSlot(w))
      /\ InPreg(c)' /\ ~InSlot(c)' /\ ~InPreg(c) /\ ~InSlot(c)
      /\ locs'[c].id = reg
  <2>1. locs[c] = UNINIT
    BY <1>1, <1>2 DEF ScanInv, LaterAreUntouched
  <2> QED
    BY <1>1, <1>4, <2>1 DEF InPreg, InSlot, Preg, UNINIT, Ranges
<1>7. ScanTypeOK'
  <2>1. Preg(reg) \in Location
    BY <1>1 DEF Preg, Location
  <2>2. /\ locs' \in [Ranges -> Location]
        /\ active' \in [Ranges -> 0..2]
        /\ assigned_preg' \in [Ranges -> PReg \cup {SIZE_MAX, INDETERMINATE}]
    BY <1>1, <1>3, <2>1 DEF PlaceIn
  <2>3. cur' \in 1..in'.n + 1
    BY <1>1, <1>2 DEF Ranges
  <2>4. WellFormed(in') /\ slot_counter' \in Nat /\ max_slot_id' \in Nat
        /\ phase' \in {"idle", "scan", "done", "undefined"}
    BY <1>1 DEF ScanInv, ScanTypeOK
  <2> QED
    BY <1>5, <2>2, <2>3, <2>4 DEF ScanTypeOK, PlaceIn
<1>8. IdleIsFresh' /\ ActiveArePast' /\ EarlierArePlaced' /\ LaterAreUntouched'
  <2>1. IdleIsFresh'
    BY <1>1 DEF IdleIsFresh
  <2>2. ActiveArePast'
    BY <1>1, <1>2, <1>4, <1>5 DEF ScanInv, ActiveArePast
  <2>3. EarlierArePlaced'
    BY <1>1, <1>2, <1>5 DEF ScanInv, EarlierArePlaced
  <2>4. LaterAreUntouched'
    BY <1>1, <1>2, <1>4, <1>5 DEF ScanInv, LaterAreUntouched
  <2> QED
    BY <2>1, <2>2, <2>3, <2>4
<1>9. AssignedAgrees' /\ SlotsAreCounted'
  <2>1. AssignedAgrees'
    BY <1>1, <1>4, <1>5 DEF ScanInv, AssignedAgrees
  <2>2. SlotsAreCounted'
    BY <1>1, <1>4, <1>5 DEF ScanInv, SlotsAreCounted
  <2> QED
    BY <2>1, <2>2
<1>10. LiveAreBusy'
  <2> SUFFICES ASSUME c + 1 \in Ranges,
                      NEW w \in Ranges, InPreg(w)', End(w) >= Start(c + 1)
               PROVE  active'[w] > 0 /\ locs'[w].id \in Busy'
    BY <1>1, <1>5 DEF LiveAreBusy, Start, End
  <2>1. CASE w = c
    BY <1>4, <1>5, <2>1 DEF PlaceIn
  <2>2. CASE w # c
    <3>1. InPreg(w) /\ End(w) >= Start(c)
      BY <1>1, <1>2, <1>5, <2>2
    <3> QED
      BY <1>1, <1>4, <2>2, <3>1 DEF ScanInv, LiveAreBusy, PlaceIn
  <2> QED
    BY <2>1, <2>2
<1>11. \A w \in Ranges : w # c /\ active[w] > 0 /\ InPreg(w) => locs[w].id # reg
  BY <1>1, RetiredAreLive DEF PlaceIn
<1>12. ActiveAreDistinct'
  BY <1>4, <1>5, <1>11 DEF ScanInv, ActiveAreDistinct
<1>13. NoSharedPreg'
  <2> SUFFICES ASSUME NEW v \in Ranges, NEW w \in Ranges, v < w,
                      InPreg(v)', InPreg(w)', Overlap(v, w)
               PROVE  locs'[v].id # locs'[w].id
    BY <1>1, <1>5 DEF NoSharedPreg, Overlap, Start, End
  <2>1. CASE w = c
    <3>1. v # c /\ InPreg(v) /\ End(v) >= Start(c)
      BY <1>2, <1>5, <2>1 DEF Overlap
    <3>2. active[v] > 0 /\ locs[v].id \in Busy
      BY <1>1, <3>1 DEF ScanInv, LiveAreBusy
    <3> QED
      BY <1>1, <1>4, <1>5, <2>1, <3>1, <3>2
  <2>2. CASE v = c
    <3>1. locs[w] = UNINIT /\ w # c
      BY <1>2, <2>2 DEF ScanInv, LaterAreUntouched
    <3> QED
      BY <1>5, <3>1 DEF InPreg, UNINIT
  <2>3. CASE v # c /\ w # c
    BY <1>4, <1>5, <2>3 DEF ScanInv, NoSharedPreg
  <2> QED
    BY <2>1, <2>2, <2>3
<1>14. SurvivesCalls' /\ CalleeSavedAreTracked'
  <2>1. \A w \in Ranges : CrossesCall(w)' <=> CrossesCall(w)
    BY <1>1 DEF CrossesCall, Start, End
  <2>2. SurvivesCalls'
    BY <1>4, <1>5, <2>1 DEF ScanInv, SurvivesCalls, PlaceIn
  <2>3. CalleeSavedAreTracked'
    BY <1>4, <1>5 DEF ScanInv, CalleeSavedAreTracked, PlaceIn
  <2> QED
    BY <2>2, <2>3
<1>15. BusyPregsAreOwned'
  <2> SUFFICES ASSUME NEW r \in Busy'
               PROVE  \E w \in Ranges : active'[w] > 0 /\ InPreg(w)' /\ locs'[w].id = r
    BY <1>1, <1>5 DEF BusyPregsAreOwned, Busy, Active
  <2>1. CASE r = reg
    BY <1>1, <1>4, <1>5, <2>1
  <2>2. CASE r \in Busy
    <3>1. PICK w \in Active : InPreg(w) /\ locs[w].id = r
      BY <2>2 DEF ScanInv, BusyPregsAreOwned, Busy
    <3> QED
      BY <1>4, <1>5, <3>1 DEF Active
  <2> QED
    BY <2>1, <2>2 DEF PlaceIn
<1> QED
  BY <1>7, <1>8, <1>9, <1>10, <1>12, <1>13, <1>14, <1>15 DEF ScanInv

LEMMA AllocateScanInv ==
  ASSUME ScanInv, AllocateCallerSaved \/ AllocateCalleeSaved
  PROVE  ScanInv'
<1>1. PICK c : c = cur
  OBVIOUS
<1>2. /\ free_regs \subseteq CallerSaved /\ free_callee_regs \subseteq CalleeSaved
      /\ used_callee_regs \subseteq CalleeSaved
  BY DEF ScanInv, ScanTypeOK
<1>3. CASE AllocateCallerSaved
  <2>1. PICK reg : reg = Lowest(CallerSaved \ free_regs)
    OBVIOUS
  <2>2. CallerSaved \ free_regs # {}
    BY <1>2, <1>3 DEF AllocateCallerSaved, PregsAvailable
  <2>3. reg \in CallerSaved \ free_regs
    BY <2>1, <2>2, LowestIsMember, FilesAreApart
  <2>4. reg \in PReg \ Busy /\ reg \notin CalleeSaved
    <3>1. reg \notin CalleeSaved
      BY <2>3, FilesAreApart DEF CALLEE_SAVED_BASE
    <3> QED
      BY <1>2, <2>3, <3>1, FilesAreApart DEF Busy
  <2>5. PlaceIn(reg)
    BY <1>2, <1>3, <2>1, <2>3, <2>4 DEF AllocateCallerSaved, PlaceIn, Busy
  <2> QED
    BY <1>1, <2>5, PlacedScanInv
<1>4. CASE AllocateCalleeSaved
  <2>1. PICK reg : reg = Lowest(CalleeSaved \ free_callee_regs)
    OBVIOUS
  <2>2. CalleeSaved \ free_callee_regs # {}
    BY <1>2, <1>4 DEF AllocateCalleeSaved, CalleeExhausted
  <2>3. reg \in CalleeSaved \ free_callee_regs
    BY <2>1, <2>2, LowestIsMember, FilesAreApart
  <2>4. reg \in PReg \ Busy /\ reg \notin CallerSaved
    <3>1. reg \notin CallerSaved
      BY <2>3, FilesAreApart DEF CALLEE_SAVED_BASE
    <3> QED
      BY <1>2, <2>3, <3>1, FilesAreApart DEF Busy
  <2>5. PlaceIn(reg)
    BY <1>2, <1>4, <2>1, <2>3, <2>4 DEF AllocateCalleeSaved, PlaceIn, Busy, Tracked
  <2> QED
    BY <1>1, <2>5, PlacedScanInv
<1> QED
  BY <1>3, <1>4

\* cur itself is spilled.
LEMMA SpillScanInv ==
  ASSUME ScanInv, SpillCurrent, NEW c, c = cur
  PROVE  ScanInv'
<1>1. /\ c = cur /\ in' = in /\ cur' = c + 1 /\ phase' = phase /\ phase = "scan"
      /\ max_slot_id' = max_slot_id /\ slot_counter' = slot_counter + 1
      /\ free_regs' = free_regs /\ free_callee_regs' = free_callee_regs
      /\ assigned_preg' = assigned_preg /\ used_callee_regs' = used_callee_regs
      /\ c \in Ranges /\ active[c] = 0
  BY RetiredAreLive DEF SpillCurrent, NeedsSlot
<1>2. /\ c \in Nat /\ in.n \in Nat /\ Ranges \subseteq Nat /\ c <= in.n
      /\ \A v, w \in Ranges : v <= w => Start(v) <= Start(w)
      /\ \A v \in Ranges : Start(v) \in Nat /\ End(v) \in Nat
  BY <1>1, RangesAreSorted DEF Ranges
<1>3. /\ locs \in [Ranges -> Location]
      /\ active \in [Ranges -> 0..2]
      /\ slot_counter \in Nat /\ in.max_slot_id \in Nat
  BY DEF ScanInv, ScanTypeOK, WellFormed
<1>4. /\ \A w \in Ranges : w # c => /\ locs'[w] = locs[w]
                                    /\ active'[w] = active[w]
      /\ locs'[c] = Slot(slot_counter) /\ active'[c] \in 0..1
  BY <1>1, <1>3 DEF SpillCurrent, PushedByCaller
<1>5. /\ Ranges' = Ranges
      /\ \A w \in Ranges : w # c => (InPreg(w)' <=> InPreg(w)) /\ (InSlot(w)' <=> InSlot(w))
      /\ InSlot(c)' /\ ~InPreg(c)' /\ ~InPreg(c) /\ ~InSlot(c)
      /\ locs'[c].id = slot_counter /\ assigned_preg[c] = INDETERMINATE
  <2>1. locs[c] = UNINIT /\ assigned_preg[c] = INDETERMINATE
    BY <1>1, <1>2 DEF ScanInv, LaterAreUntouched
  <2> QED
    BY <1>1, <1>4, <2>1 DEF InPreg, InSlot, Slot, UNINIT, Ranges
<1>6. \A w \in Ranges : InPreg(w)' => w # c /\ InPreg(w) /\ locs'[w] = locs[w]
                                      /\ active'[w] = active[w]
  BY <1>4, <1>5
<1>7. ScanTypeOK'
  <2>1. Slot(slot_counter) \in Location
    BY <1>3 DEF Slot, Location
  <2>2. /\ locs' \in [Ranges -> Location]
        /\ active' \in [Ranges -> 0..2]
    BY <1>1, <1>3, <2>1 DEF SpillCurrent, PushedByCaller
  <2>3. cur' \in 1..in'.n + 1
    BY <1>1, <1>2 DEF Ranges
  <2> QED
    BY <1>1, <1>3, <1>5, <2>2, <2>3 DEF ScanInv, ScanTypeOK
<1>8. IdleIsFresh' /\ ActiveArePast' /\ EarlierArePlaced' /\ LaterAreUntouched'
  <2>1. IdleIsFresh'
    BY <1>1 DEF IdleIsFresh
  <2>2. ActiveArePast'
    BY <1>1, <1>2, <1>4, <1>5 DEF ScanInv, ActiveArePast
  <2>3. EarlierArePlaced'
    BY <1>1, <1>2, <1>5 DEF ScanInv, EarlierArePlaced
  <2>4. LaterAreUntouched'
    BY <1>1, <1>2, <1>4, <1>5 DEF ScanInv, LaterAreUntouched
  <2> QED
    BY <2>1, <2>2, <2>3, <2>4
<1>9. AssignedAgrees'
  BY <1>1, <1>4, <1>5, FilesAreApart DEF ScanInv, AssignedAgrees
<1>10. SlotsAreCounted'
  <2>1. slot_counter > in.max_slot_id
    BY <1>1 DEF ScanInv, SlotsAreCounted
  <2>2. \A w \in Ranges : InSlot(w) => /\ locs[w].id \in Nat
                                       /\ locs[w].id > in.max_slot_id
                                       /\ locs[w].id < slot_counter
    BY <1>3 DEF ScanInv, SlotsAreCounted, Location, InSlot, UNINIT
  <2> QED
    BY <1>1, <1>3, <1>4, <1>5, <2>1, <2>2 DEF ScanInv, SlotsAreCounted
<1>11. LiveAreBusy'
  <2> SUFFICES ASSUME c + 1 \in Ranges,
                      NEW w \in Ranges, InPreg(w)', End(w) >= Start(c + 1)
               PROVE  active'[w] > 0 /\ locs'[w].id \in Busy
    BY <1>1, <1>5 DEF LiveAreBusy, Start, End, Busy
  <2>1. InPreg(w) /\ End(w) >= Start(c)
    BY <1>1, <1>2, <1>6
  <2> QED
    BY <1>1, <1>6, <2>1 DEF ScanInv, LiveAreBusy
<1>12. ActiveAreDistinct' /\ NoSharedPreg'
  <2>1. ActiveAreDistinct'
    BY <1>5, <1>6 DEF ScanInv, ActiveAreDistinct
  <2>2. NoSharedPreg'
    BY <1>1, <1>5, <1>6 DEF ScanInv, NoSharedPreg, Overlap, Start, End
  <2> QED
    BY <2>1, <2>2
<1>13. SurvivesCalls' /\ CalleeSavedAreTracked'
  BY <1>1, <1>5, <1>6 DEF ScanInv, SurvivesCalls, CalleeSavedAreTracked,
     CrossesCall, Start, End
<1>14. BusyPregsAreOwned'
  BY <1>1, <1>4, <1>5 DEF ScanInv, BusyPregsAreOwned, Active
<1> QED
  BY <1>7, <1>8, <1>9, <1>10, <1>11, <1>12, <1>13, <1>14 DEF ScanInv

\* cur takes over the register r of the active range v that ends last.  If v
\* is only a stale entry of the list, r is no register and the scan is over.
LEMMA EvictScanInv ==
  ASSUME ScanInv, NEW v \in Ranges, EvictVictim(v),
         NEW c, c = cur, NEW r, r = assigned_preg[v]
  PROVE  ScanInv'
<1>1. /\ c = cur /\ in' = in /\ cur' = c + 1 /\ phase = "scan"
      /\ phase' = IF r \in PReg THEN "scan" ELSE "undefined"
      /\ max_slot_id' = max_slot_id /\ slot_counter' = slot_counter + 1
      /\ free_regs' = free_regs /\ free_callee_regs' = free_callee_regs
      /\ used_callee_regs' = used_callee_regs
      /\ c \in Ranges /\ active[c] = 0 /\ active[v] > 0 /\ End(v) > End(c)
      /\ v < c /\ End(v) >= Start(c)
  BY RetiredAreLive DEF EvictVictim, NeedsSlot, EndsLast, Active, OutlivesCurrent
<1>2. /\ c \in Nat /\ in.n \in Nat /\ Ranges \subseteq Nat /\ c <= in.n /\ v # c
      /\ \A u, w \in Ranges : u <= w => Start(u) <= Start(w)
      /\ \A w \in Ranges : Start(w) \in Nat /\ End(w) \in Nat
  BY <1>1, RangesAreSorted DEF Ranges
<1>3. /\ locs \in [Ranges -> Location]
      /\ active \in [Ranges -> 0..2]
      /\ assigned_preg \in [Ranges -> PReg \cup {SIZE_MAX, INDETERMINATE}]
      /\ slot_counter \in Nat /\ in.max_slot_id \in Nat
  BY DEF ScanInv, ScanTypeOK, WellFormed
<1>4. /\ \A w \in Ranges : w # c /\ w # v => /\ locs'[w] = locs[w]
                                             /\ active'[w] = active[w]
                                             /\ assigned_preg'[w] = assigned_preg[w]
      /\ locs'[v] = Slot(slot_counter) /\ locs'[c] = Preg(r)
      /\ active'[v] \in 0..1 /\ active'[c] \in 1..2
      /\ assigned_preg'[v] = SIZE_MAX /\ assigned_preg'[c] = r
  <2>1. locs' = [locs EXCEPT ![v] = Slot(slot_counter), ![c] = Preg(r)]
    BY <1>1 DEF EvictVictim
  <2>2. assigned_preg' = [assigned_preg EXCEPT ![v] = SIZE_MAX, ![c] = r]
    BY <1>1 DEF EvictVictim
  <2>3. active' = [active EXCEPT ![v] = @ - 1, ![c] = 1 + PushedByCaller]
    BY <1>1 DEF EvictVictim, HandOver
  <2>4. active[v] \in 1..2 /\ PushedByCaller \in 0..1
    BY <1>1, <1>3 DEF PushedByCaller
  <2>5. /\ locs'[v] = Slot(slot_counter) /\ locs'[c] = Preg(r)
        /\ assigned_preg'[v] = SIZE_MAX /\ assigned_preg'[c] = r
        /\ active'[v] = active[v] - 1 /\ active'[c] = 1 + PushedByCaller
    BY <1>1, <1>2, <1>3, <2>1, <2>2, <2>3
  <2> QED
    BY <1>3, <2>1, <2>2, <2>3, <2>4, <2>5
<1>5. /\ Ranges' = Ranges
      /\ \A w \in Ranges : w # c /\ w # v => (InPreg(w)' <=> InPreg(w))
                                             /\ (InSlot(w)' <=> InSlot(w))
      /\ InSlot(v)' /\ ~InPreg(v)' /\ InPreg(c)' /\ ~InSlot(c)'
      /\ ~InPreg(c) /\ ~InSlot(c)
      /\ locs'[v].id = slot_counter /\ locs'[c].id = r
  <2>1. locs[c] = UNINIT
    BY <1>1, <1>2 DEF ScanInv, LaterAreUntouched
  <2> QED
    BY <1>1, <1>2, <1>4, <2>1 DEF InPreg, InSlot, Slot, Preg, UNINIT, Ranges
<1>6. \A w \in Ranges : InPreg(w)' /\ w # c => /\ w # v /\ InPreg(w)
                                               /\ locs'[w] = locs[w]
                                               /\ active'[w] = active[w]
  BY <1>4, <1>5
<1>7. /\ r \in PReg => InPreg(v) /\ locs[v].id = r /\ r \in Busy
      /\ r \notin PReg => ~InPreg(v)
  <2>1. InPreg(v) \/ InSlot(v)
    BY <1>1 DEF ScanInv, EarlierArePlaced
  <2>2. InPreg(v) => r = locs[v].id /\ r \in PReg
    BY <1>1 DEF ScanInv, AssignedAgrees
  <2>3. InSlot(v) => r \notin PReg
    BY DEF ScanInv, AssignedAgrees
  <2>4. InPreg(v) => locs[v].id \in Busy
    BY <1>1 DEF ScanInv, LiveAreBusy
  <2> QED
    BY <2>1, <2>2, <2>3, <2>4
<1>8. \A w \in Ranges : w # v /\ active[w] > 0 /\ InPreg(w) => locs[w].id # r
  <2> SUFFICES ASSUME NEW w \in Ranges, w # v, active[w] > 0, InPreg(w)
               PROVE  locs[w].id # r
    OBVIOUS
  <2>1. locs[w].id \in PReg
    BY <1>1 DEF ScanInv, AssignedAgrees
  <2>2. CASE r \in PReg
    BY <1>1, <1>7, <2>2 DEF ScanInv, ActiveAreDistinct
  <2> QED
    BY <2>1, <2>2
<1>9. ScanTypeOK'
  <2>1. Slot(slot_counter) \in Location /\ Preg(r) \in Location
    BY <1>3 DEF Slot, Preg, Location
  <2>2. /\ locs' \in [Ranges -> Location]
        /\ assigned_preg' \in [Ranges -> PReg \cup {SIZE_MAX, INDETERMINATE}]
    BY <1>1, <1>3, <2>1 DEF EvictVictim
  <2>3. active' \in [Ranges -> 0..2]
    <3>1. DOMAIN active' = Ranges /\ active' = [w \in Ranges |-> active'[w]]
      BY <1>3 DEF EvictVictim, HandOver
    <3>2. \A w \in Ranges : active'[w] \in 0..2
      BY <1>3, <1>4
    <3> QED
      BY <3>1, <3>2
  <2>4. cur' \in 1..in'.n + 1
    BY <1>1, <1>2 DEF Ranges
  <2> QED
    BY <1>1, <1>3, <1>5, <2>2, <2>3, <2>4 DEF ScanInv, ScanTypeOK
<1>10. IdleIsFresh' /\ ActiveArePast' /\ EarlierArePlaced' /\ LaterAreUntouched'
  <2>1. IdleIsFresh'
    BY <1>1 DEF IdleIsFresh
  <2>2. ActiveArePast'
    BY <1>1, <1>2, <1>4, <1>5 DEF ScanInv, ActiveArePast
  <2>3. EarlierArePlaced'
    BY <1>1, <1>2, <1>5 DEF ScanInv, EarlierArePlaced
  <2>4. LaterAreUntouched'
    BY <1>1, <1>2, <1>4, <1>5 DEF ScanInv, LaterAreUntouched
  <2> QED
    BY <2>1, <2>2, <2>3, <2>4
<1>11. AssignedAgrees'
  <2> SUFFICES ASSUME NEW w \in Ranges
               PROVE  /\ InPreg(w)' => /\ assigned_preg'[w] = locs'[w].id
                                       /\ phase' # "undefined" => locs'[w].id \in PReg
                      /\ InSlot(w)' => assigned_preg'[w] \notin PReg
    BY <1>5 DEF AssignedAgrees, PReg, CallerSaved, CalleeSaved
  <2>1. CASE w = c
    BY <1>1, <1>4, <1>5, <2>1
  <2>2. CASE w = v
    BY <1>4, <1>5, <2>2, FilesAreApart
  <2>3. CASE w # c /\ w # v
    BY <1>1, <1>4, <1>5, <2>3 DEF ScanInv, AssignedAgrees
  <2> QED
    BY <2>1, <2>2, <2>3
<1>12. SlotsAreCounted'
  <2>1. slot_counter > in.max_slot_id
    BY <1>1 DEF ScanInv, SlotsAreCounted
  <2>2. \A w \in Ranges : InSlot(w) => /\ locs[w].id \in Nat
                                       /\ locs[w].id > in.max_slot_id
                                       /\ locs[w].id < slot_counter
    BY <1>3 DEF ScanInv, SlotsAreCounted, Location, InSlot, UNINIT
  <2>3. \A w \in Ranges : InSlot(w)' /\ w # v => InSlot(w) /\ locs'[w] = locs[w]
    BY <1>4, <1>5
  <2>4. \A u, w \in Ranges : InSlot(u) /\ InSlot(w) /\ u # w => locs[u].id # locs[w].id
    BY DEF ScanInv, SlotsAreCounted
  <2>5. \A w \in Ranges : InSlot(w)' => /\ locs'[w].id > in.max_slot_id
                                        /\ locs'[w].id < slot_counter + 1
    BY <1>3, <1>5, <2>1, <2>2, <2>3
  <2>6. \A u, w \in Ranges : InSlot(u)' /\ InSlot(w)' /\ u # w
                               => locs'[u].id # locs'[w].id
    BY <1>3, <1>5, <2>2, <2>3, <2>4
  <2>7. phase' # "done" /\ slot_counter' > in'.max_slot_id
    BY <1>1, <1>3, <2>1
  <2> QED
    BY <1>1, <1>5, <2>5, <2>6, <2>7 DEF SlotsAreCounted
<1>13. LiveAreBusy'
  <2> SUFFICES ASSUME r \in PReg, c + 1 \in Ranges,
                      NEW w \in Ranges, InPreg(w)', End(w) >= Start(c + 1)
               PROVE  active'[w] > 0 /\ locs'[w].id \in Busy
    BY <1>1, <1>5 DEF LiveAreBusy, Start, End, Busy
  <2>1. CASE w = c
    BY <1>4, <1>5, <1>7, <2>1
  <2>2. CASE w # c
    <3>1. InPreg(w) /\ End(w) >= Start(c)
      BY <1>1, <1>2, <1>6, <2>2
    <3> QED
      BY <1>1, <1>6, <2>2, <3>1 DEF ScanInv, LiveAreBusy
  <2> QED
    BY <2>1, <2>2
<1>14. ActiveAreDistinct'
  BY <1>4, <1>5, <1>6, <1>8 DEF ScanInv, ActiveAreDistinct
<1>15. NoSharedPreg'
  <2> SUFFICES ASSUME NEW u \in Ranges, NEW w \in Ranges, u < w,
                      InPreg(u)', InPreg(w)', Overlap(u, w)
               PROVE  locs'[u].id # locs'[w].id
    BY <1>1, <1>5 DEF NoSharedPreg, Overlap, Start, End
  <2>1. CASE w = c
    <3>1. u # c /\ u # v /\ InPreg(u) /\ End(u) >= Start(c) /\ locs'[u] = locs[u]
      BY <1>2, <1>6, <2>1 DEF Overlap
    <3>2. active[u] > 0
      BY <1>1, <3>1 DEF ScanInv, LiveAreBusy
    <3> QED
      BY <1>5, <1>8, <2>1, <3>1, <3>2
  <2>2. CASE u = c
    <3>1. locs[w] = UNINIT /\ w # c /\ w # v
      BY <1>1, <1>2, <2>2 DEF ScanInv, LaterAreUntouched
    <3> QED
      BY <1>5, <3>1 DEF InPreg, UNINIT
  <2>3. CASE u # c /\ w # c
    BY <1>6, <2>3 DEF ScanInv, NoSharedPreg
  <2> QED
    BY <2>1, <2>2, <2>3
<1>16. SurvivesCalls'
  <2> SUFFICES ASSUME NEW w \in Ranges, InPreg(w)', CrossesCall(w)
               PROVE  locs'[w].id \notin CallerSaved
    BY <1>1, <1>5 DEF SurvivesCalls, CrossesCall, Start, End, CallerSaved
  <2>1. CASE w = c
    <3>1. in.calls \subseteq Nat
      BY DEF ScanInv, ScanTypeOK, WellFormed
    <3>2. CrossesCall(v)
      BY <1>1, <1>2, <2>1, <3>1 DEF CrossesCall
    <3> QED
      BY <1>5, <1>7, <2>1, <3>2, FilesAreApart DEF ScanInv, SurvivesCalls
  <2>2. CASE w # c
    BY <1>6, <2>2 DEF ScanInv, SurvivesCalls
  <2> QED
    BY <2>1, <2>2
<1>17. CalleeSavedAreTracked'
  <2> SUFFICES ASSUME NEW w \in Ranges, InPreg(w)', locs'[w].id \in CalleeSaved
               PROVE  locs'[w].id \in used_callee_regs
    BY <1>1, <1>5 DEF CalleeSavedAreTracked, CalleeSaved
  <2>1. CASE w = c
    BY <1>5, <1>7, <2>1, FilesAreApart DEF ScanInv, CalleeSavedAreTracked
  <2>2. CASE w # c
    BY <1>6, <2>2 DEF ScanInv, CalleeSavedAreTracked
  <2> QED
    BY <2>1, <2>2
<1>18. BusyPregsAreOwned'
  <2> SUFFICES ASSUME NEW p \in Busy
               PROVE  \E w \in Ranges : active'[w] > 0 /\ InPreg(w)' /\ locs'[w].id = p
    BY <1>1, <1>5 DEF BusyPregsAreOwned, Busy, Active
  <2>1. PICK w \in Active : InPreg(w) /\ locs[w].id = p
    BY DEF ScanInv, BusyPregsAreOwned, Busy
  <2>2. CASE w = v
    <3>1. p = r
      BY <1>7, <2>1, <2>2
    <3> QED
      BY <1>1, <1>4, <1>5, <3>1
  <2>3. CASE w # v
    BY <1>4, <1>5, <2>1, <2>3 DEF Active
  <2> QED
    BY <2>2, <2>3
<1> QED
  BY <1>9, <1>10, <1>11, <1>12, <1>13, <1>14, <1>15, <1>16, <1>17, <1>18 DEF ScanInv

\* Writing back the slot counter only touches what SlotsAreCounted speaks of.
LEMMA FinishScanInv ==
  ASSUME ScanInv, Finish
  PROVE  ScanInv'
<1>1. /\ in' = in /\ cur' = cur /\ active' = active /\ locs' = locs
      /\ free_regs' = free_regs /\ free_callee_regs' = free_callee_regs
      /\ assigned_preg' = assigned_preg /\ used_callee_regs' = used_callee_regs
      /\ slot_counter' = slot_counter /\ max_slot_id' = slot_counter
      /\ phase = "scan" /\ phase' = "done"
  BY DEF Finish
<1>2. ScanTypeOK'
  BY <1>1 DEF ScanInv, ScanTypeOK, WellFormed, Ranges
<1>3. SlotsAreCounted'
  BY <1>1 DEF ScanInv, SlotsAreCounted, Ranges, InSlot
<1>4. IdleIsFresh' /\ ActiveArePast' /\ LaterAreUntouched' /\ EarlierArePlaced'
      /\ AssignedAgrees' /\ LiveAreBusy' /\ ActiveAreDistinct'
  BY <1>1 DEF ScanInv, IdleIsFresh, ActiveArePast, LaterAreUntouched,
     EarlierArePlaced, AssignedAgrees, LiveAreBusy, ActiveAreDistinct,
     Ranges, InPreg, InSlot
<1>5. NoSharedPreg' /\ SurvivesCalls' /\ CalleeSavedAreTracked' /\ BusyPregsAreOwned'
  BY <1>1 DEF ScanInv, NoSharedPreg, SurvivesCalls, CalleeSavedAreTracked,
     BusyPregsAreOwned, Active, Ranges, InPreg, Overlap, CrossesCall, Start, End
<1> QED
  BY <1>2, <1>3, <1>4, <1>5 DEF ScanInv

\* A step that changes nothing keeps everything.
LEMMA StutterScanInv ==
  ASSUME ScanInv, UNCHANGED scanvars
  PROVE  ScanInv'
<1>1. /\ in' = in /\ cur' = cur /\ phase' = phase /\ active' = active
      /\ free_regs' = free_regs /\ free_callee_regs' = free_callee_regs
      /\ locs' = locs /\ assigned_preg' = assigned_preg
      /\ used_callee_regs' = used_callee_regs
      /\ slot_counter' = slot_counter /\ max_slot_id' = max_slot_id
  BY DEF scanvars
<1>2. ScanTypeOK' /\ SlotsAreCounted'
  BY <1>1 DEF ScanInv, ScanTypeOK, WellFormed, SlotsAreCounted, Ranges, InSlot
<1>3. IdleIsFresh' /\ ActiveArePast' /\ LaterAreUntouched' /\ EarlierArePlaced'
      /\ AssignedAgrees' /\ LiveAreBusy' /\ ActiveAreDistinct'
  BY <1>1 DEF ScanInv, IdleIsFresh, ActiveArePast, LaterAreUntouched,
     EarlierArePlaced, AssignedAgrees, LiveAreBusy, ActiveAreDistinct,
     Ranges, InPreg, InSlot, Start, End, Busy
<1>4. NoSharedPreg' /\ SurvivesCalls' /\ CalleeSavedAreTracked' /\ BusyPregsAreOwned'
  BY <1>1 DEF ScanInv, NoSharedPreg, SurvivesCalls, CalleeSavedAreTracked,
     BusyPregsAreOwned, Active, Ranges, InPreg, Overlap, CrossesCall, Start, End
<1> QED
  BY <1>2, <1>3, <1>4 DEF ScanInv

LEMMA NextScanInv == ScanInv /\ [ScanNext]_scanvars => ScanInv'
<1> SUFFICES ASSUME ScanInv, [ScanNext]_scanvars
             PROVE  ScanInv'
  OBVIOUS
<1> PICK c : c = cur
  OBVIOUS
<1>1. ASSUME NEW v \in Ranges, Expire(v)
      PROVE  ScanInv'
  BY <1>1, ExpireScanInv
<1>2. ASSUME NEW v \in Ranges, Spin(v)
      PROVE  ScanInv'
  BY <1>2, StutterScanInv DEF Spin
<1>3. ASSUME NEW v \in Ranges, EvictVictim(v)
      PROVE  ScanInv'
  <2> PICK r : r = assigned_preg[v]
    OBVIOUS
  <2> QED
    BY <1>3, EvictScanInv
<1>4. CASE AllocateCallerSaved \/ AllocateCalleeSaved
  BY <1>4, AllocateScanInv
<1>5. CASE SpillCurrent
  BY <1>5, SpillScanInv
<1>6. CASE Finish
  BY <1>6, FinishScanInv
<1>7. ASSUME NEW i \in Inputs, Begin(i)
      PROVE  ScanInv'
  BY <1>7, BeginScanInv, InputsWellFormed
<1>8. CASE UNCHANGED scanvars
  BY <1>8, StutterScanInv
<1> QED
  BY <1>1, <1>2, <1>3, <1>4, <1>5, <1>6, <1>7, <1>8 DEF ScanNext, Scan
-----------------------------------------------------------------------------
\* The strengthened invariant holds in every reachable state of the scan.
THEOREM ScanInvariant == ScanSpec => []ScanInv
<1>1. ScanInit => ScanInv
  BY InitScanInv
<1>2. ScanInv /\ [ScanNext]_scanvars => ScanInv'
  BY NextScanInv
<1> QED
  BY <1>1, <1>2, PTL DEF ScanSpec

\* The allocator's state (RegAllocInfo, the ranges) always has its types: in
\* particular a range is on the active vector at most twice.
THEOREM ScanTypeCorrect == ScanSpec => []ScanTypeOK
<1>1. ScanInv => ScanTypeOK
  BY DEF ScanInv
<1> QED
  BY <1>1, ScanInvariant, PTL

\* linear_scan_regalloc never leaves two values that are alive at the same
\* time in one register, whatever ranges and calls the function has.
THEOREM LiveValuesAreApart == ScanSpec => []NoSharedPreg
<1>1. ScanInv => NoSharedPreg
  BY DEF ScanInv
<1> QED
  BY <1>1, ScanInvariant, PTL

\* No value that is needed after a call is in a register the call destroys,
\* although allocate_slot hands registers over without asking about calls.
THEOREM CallsDestroyNothing == ScanSpec => []SurvivesCalls
<1>1. ScanInv => SurvivesCalls
  BY DEF ScanInv
<1> QED
  BY <1>1, ScanInvariant, PTL

\* used_callee_regs, which the prologue saves, misses no callee-saved register
\* that a value has: the ones allocate_slot hands over were recorded before.
THEOREM PrologueSavesEnough == ScanSpec => []CalleeSavedAreTracked
<1>1. ScanInv => CalleeSavedAreTracked
  BY DEF ScanInv
<1> QED
  BY <1>1, ScanInvariant, PTL

\* spill_to_slot never gives out the slot of a variable or a slot twice, and
\* the max_slot_id written back is above every slot given out.
THEOREM SlotsAreFresh == ScanSpec => []SpillSlotsAreFresh
<1>1. ScanInv => SpillSlotsAreFresh
  BY DEF ScanInv, SlotsAreCounted, SpillSlotsAreFresh
<1> QED
  BY <1>1, ScanInvariant, PTL

\* remove_inactive_ranges, allocate_preg and allocate_slot keep the bit sets and
\* the active vector together: no bit stays set without a value that owns it.
THEOREM NoRegisterLeaks == ScanSpec => []BusyPregsAreOwned
<1>1. ScanInv => BusyPregsAreOwned
  BY DEF ScanInv
<1> QED
  BY <1>1, ScanInvariant, PTL
-----------------------------------------------------------------------------
\* There were more values alive at some point than a register file holds.
Pressed == \E w \in Ranges : \/ Cardinality(LiveAt(w)) > NumCaller
                             \/ Cardinality(LiveAt(w)) > NumCallee

\* Once the ended ranges are retired, each register that is taken has a value
\* of its own that is alive with the one that needs a place.
LEMMA TakenAreAlive ==
  ASSUME ScanInv, Retired, NEW F, F \subseteq Busy
  PROVE  Cardinality(LiveAt(cur)) > Cardinality(F)
<1> DEFINE own == [r \in F |-> CHOOSE v \in Active : InPreg(v) /\ locs[v].id = r]
           L == {v \in 1..cur - 1 : End(v) >= Start(cur)}
<1>1. cur \in Ranges /\ cur \in Nat /\ in.n \in Nat /\ Ranges \subseteq Nat
  BY RangesAreSorted DEF Retired
<1>2. \A r \in F : own[r] \in Active /\ locs[own[r]].id = r
  BY DEF ScanInv, BusyPregsAreOwned, Busy
<1>3. \A v \in Active : v \in L
  <2> SUFFICES ASSUME NEW v \in Active PROVE v \in L
    OBVIOUS
  <2>1. v \in Ranges /\ v < cur
    BY DEF ScanInv, ActiveArePast, Active
  <2>2. ~(End(v) < Start(cur))
    BY DEF Retired, Expired
  <2>3. End(v) \in Nat /\ Start(cur) \in Nat
    BY <1>1, <2>1, RangesAreSorted
  <2> QED
    BY <1>1, <2>1, <2>2, <2>3 DEF Ranges
<1> HIDE DEF own
<1>4. own \in Injection(F, L)
  <2>1. own \in [F -> L]
    BY <1>2, <1>3 DEF own
  <2>2. \A q, r \in F : own[q] = own[r] => q = r
    BY <1>2
  <2> QED
    BY <2>1, <2>2 DEF Injection, IsInjective
<1>5. LiveAt(cur) = L \cup {cur} /\ cur \notin L
  BY <1>1 DEF LiveAt
<1>6. IsFiniteSet(L)
  <2>1. IsFiniteSet(1..cur - 1)
    BY <1>1, FS_Interval
  <2> QED
    BY <2>1, FS_Subset
<1> HIDE DEF L
<1>7. Cardinality(F) <= Cardinality(L) /\ IsFiniteSet(F)
  BY <1>4, <1>6, FS_Injection
<1>8. Cardinality(L \cup {cur}) = Cardinality(L) + 1
  BY <1>5, <1>6, FS_AddElement
<1>9. Cardinality(F) \in Nat /\ Cardinality(L) \in Nat
  BY <1>6, <1>7, FS_CardinalityType
<1> QED
  BY <1>5, <1>7, <1>8, <1>9

\* What goes to memory when a range finds no register is pressed out.
LEMMA SlotsArePressedOut ==
  ASSUME ScanInv, NeedsSlot
  PROVE  Pressed
<1>1. cur \in Ranges /\ Retired
  BY DEF NeedsSlot, Retired
<1>2. Cardinality(CallerSaved) = NumCaller /\ Cardinality(CalleeSaved) = NumCallee
  BY FS_Interval, RegisterFiles
     DEF CallerSaved, CalleeSaved, CALLER_SAVED_BASE, CALLEE_SAVED_BASE
<1>3. CallerSaved \subseteq Busy \/ CalleeSaved \subseteq Busy
  BY DEF NeedsSlot, PregsAvailable, CalleeExhausted, Busy
<1> QED
  BY <1>1, <1>2, <1>3, TakenAreAlive DEF Pressed

LEMMA StepUnderPressure ==
  ASSUME ScanInv, SpillsOnlyUnderPressure, Scan \/ (\E i : Begin(i)) \/ UNCHANGED scanvars
  PROVE  SpillsOnlyUnderPressure'
<1> SUFFICES ASSUME (\E v \in Ranges : InSlot(v)) => Pressed
             PROVE  (\E v \in Ranges' : InSlot(v)') => Pressed'
  BY DEF SpillsOnlyUnderPressure, Pressed
<1>1. ASSUME in' = in PROVE Ranges' = Ranges /\ (Pressed => Pressed')
  BY <1>1 DEF Pressed, Ranges, LiveAt, Start, End
<1>2. CASE NeedsSlot /\ in' = in
  BY <1>1, <1>2, SlotsArePressedOut
<1>3. CASE in' = in /\ locs' = locs
  BY <1>1, <1>3 DEF InSlot
<1>4. CASE /\ in' = in
           /\ \E r : locs' = [locs EXCEPT ![cur] = Preg(r)]
  <2>1. locs \in [Ranges -> Location]
    BY DEF ScanInv, ScanTypeOK
  <2>2. \A v \in Ranges : InSlot(v)' => InSlot(v)
    BY <1>4, <2>1 DEF InSlot, Preg
  <2> QED
    BY <1>1, <1>4, <2>2
<1>5. ASSUME NEW i, Begin(i)
      PROVE  \A v \in Ranges' : ~InSlot(v)'
  BY <1>5 DEF Begin, InSlot, UNINIT, Ranges
<1>6. CASE UNCHANGED scanvars
  BY <1>3, <1>6 DEF scanvars
<1>7. ASSUME NEW v \in Ranges, Expire(v) \/ Spin(v) \/ EvictVictim(v)
      PROVE  (in' = in /\ locs' = locs) \/ (NeedsSlot /\ in' = in)
  BY <1>7 DEF Expire, Spin, EvictVictim, scanvars
<1>8. CASE AllocateCallerSaved \/ AllocateCalleeSaved
  BY <1>4, <1>8 DEF AllocateCallerSaved, AllocateCalleeSaved
<1>9. CASE SpillCurrent \/ Finish
  BY <1>2, <1>3, <1>9 DEF SpillCurrent, Finish
<1> QED
  BY <1>2, <1>3, <1>5, <1>6, <1>7, <1>8, <1>9 DEF Scan

\* allocate_slot sends a value to memory only if at some point more values were
\* alive than one of the two register files holds.
THEOREM SpillsNeedPressure == ScanSpec => []SpillsOnlyUnderPressure
<1>1. ScanInit => SpillsOnlyUnderPressure
  BY DEF ScanInit, SpillsOnlyUnderPressure, InSlot, UNINIT
<1>2. ScanInv /\ SpillsOnlyUnderPressure /\ [ScanNext]_scanvars => SpillsOnlyUnderPressure'
  BY StepUnderPressure, Zenon DEF ScanNext
<1> QED
  BY <1>1, <1>2, ScanInvariant, PTL DEF ScanSpec
-----------------------------------------------------------------------------
BodyOps == {"LIRLoad", "LIRStore", "LIRArgGet", "LIRBinOp", "LIRSetCC", "LIRConst",
            "LIRArgPut", "LIRCall"}
TermOps == {"LIRRet", "LIRJump", "LIRBranch"}
BodyInsts == [op : BodyOps, num : Nat, def : Int, uses : Seq(Int), slot : Int,
              args : Seq(Int)]
LInsts    == [op : BodyOps \cup TermOps, num : Nat, def : Int, uses : Seq(Int), slot : Int,
              args : Seq(Int)]
Builders  == [code : Seq(BodyInsts), vreg : Nat, num : Nat, uses : Seq(Int)]

LEMMA BodyFits == BodyInsts \subseteq LInsts
BY DEF BodyInsts, LInsts

\* A register that an LIRArgPut fills is one for an argument; what computes a
\* value has a vreg for it.
FitsOp(x) ==
  /\ x.op = "LIRArgPut" => x.args[1] \in ArgRegs
  /\ x.op \notin {"LIRArgPut", "LIRStore", "LIRRet", "LIRJump", "LIRBranch"}
       => x.def # NoVReg

Given(code, n, v) == \E i \in 1..n : code[i].def = v
Taken(code, v)    == \E i \in 1..Len(code) : v \in UsedBy(code[i])

\* Code that defines the temps of D, reads those of R, and has vregs of its own
\* from v to w - 1.  If L then what is used has been defined further up.
Lowered(code, v, w, D, R, L) ==
  /\ code \in Seq(LInsts) /\ v \in Nat /\ w \in Nat /\ v <= w
  /\ D \in SUBSET (0..v - 1) /\ R \in SUBSET (0..v - 1)
  /\ \A i \in 1..Len(code) :
       /\ FitsOp(code[i])
       /\ code[i].def = NoVReg \/ code[i].def \in D \cup v..w - 1
       /\ UsedBy(code[i]) \subseteq R \cup v..w - 1
       /\ L => \A u \in UsedBy(code[i]) : Given(code, i - 1, u)
  /\ \A u \in D \cup v..w - 1 : Given(code, Len(code), u)
  /\ \A i, j \in 1..Len(code) :
       /\ code[i].def = code[j].def => i = j \/ code[i].def = NoVReg
       /\ \A u \in UsedBy(code[i]) : u \in UsedBy(code[j]) => i = j

\* One more instruction.
LEMMA LoweredAppend ==
  ASSUME NEW code, NEW v, NEW w, NEW D, NEW R, NEW L, Lowered(code, v, w, D, R, L),
         NEW x \in LInsts, FitsOp(x), NEW w2 \in Nat, NEW D2 \in SUBSET (0..v - 1),
         NEW R2 \in SUBSET (0..v - 1), w <= w2, R \subseteq R2,
         D2 \cup v..w2 - 1 = D \cup v..w - 1 \cup ({x.def} \ {NoVReg}),
         x.def \notin D \cup v..w - 1,
         UsedBy(x) \subseteq R2 \cup v..w2 - 1,
         \A u \in UsedBy(x) : ~Taken(code, u),
         L => \A u \in UsedBy(x) : Given(code, Len(code), u)
  PROVE  Lowered(Append(code, x), v, w2, D2, R2, L)
<1> DEFINE new == Append(code, x)
           n == Len(code)
<1> SUFFICES Lowered(new, v, w2, D2, R2, L)
  OBVIOUS
<1>1. /\ code \in Seq(LInsts) /\ v \in Nat /\ w \in Nat /\ v <= w /\ n \in Nat
      /\ D \in SUBSET (0..v - 1) /\ R \in SUBSET (0..v - 1)
  BY DEF Lowered
<1>2. /\ \A i \in 1..n : FitsOp(code[i])
      /\ \A i \in 1..n : code[i].def = NoVReg \/ code[i].def \in D \cup v..w - 1
      /\ \A i \in 1..n : UsedBy(code[i]) \subseteq R \cup v..w - 1
      /\ L => \A i \in 1..n : \A u \in UsedBy(code[i]) : Given(code, i - 1, u)
      /\ \A u \in D \cup v..w - 1 : Given(code, n, u)
      /\ \A i, j \in 1..n : code[i].def = code[j].def => i = j \/ code[i].def = NoVReg
      /\ \A i, j \in 1..n : \A u \in UsedBy(code[i]) : u \in UsedBy(code[j]) => i = j
  BY DEF Lowered
<1>3. /\ new \in Seq(LInsts) /\ Len(new) = n + 1
      /\ \A i \in 1..n : new[i] = code[i]
      /\ new[n + 1] = x
  BY <1>1
<1> HIDE DEF n, new
<1>4. \A i \in 1..n + 1 : i \in 1..n \/ i = n + 1
  BY <1>1
<1>5. D \subseteq D2 \cup v..w2 - 1 /\ v..w - 1 \subseteq v..w2 - 1
  BY <1>1
<1>6. \A m \in 0..n : \A u : Given(code, m, u) => Given(new, m, u)
  BY <1>1, <1>3 DEF Given
<1>7. \A u : Given(new, n, u) => Given(new, n + 1, u)
  BY <1>1 DEF Given
<1>8. \A u \in D2 \cup v..w2 - 1 : Given(new, n + 1, u)
  <2> SUFFICES ASSUME NEW u \in D2 \cup v..w2 - 1 PROVE Given(new, n + 1, u)
    OBVIOUS
  <2>1. CASE u = x.def
    <3>1. n + 1 \in 1..n + 1
      BY <1>1
    <3> QED
      BY <1>3, <2>1, <3>1 DEF Given
  <2>2. CASE u \in D \cup v..w - 1
    <3>1. Given(code, n, u) /\ n \in 0..n
      BY <1>1, <1>2, <2>2
    <3> QED
      BY <1>6, <1>7, <3>1
  <2> QED
    BY <2>1, <2>2
<1>9. ASSUME NEW i \in 1..n + 1
      PROVE  /\ FitsOp(new[i])
             /\ new[i].def = NoVReg \/ new[i].def \in D2 \cup v..w2 - 1
             /\ UsedBy(new[i]) \subseteq R2 \cup v..w2 - 1
             /\ L => \A u \in UsedBy(new[i]) : Given(new, i - 1, u)
  <2>1. CASE i = n + 1
    <3>1. new[i] = x /\ i - 1 = n
      BY <1>1, <1>3, <2>1
    <3>2. x.def = NoVReg \/ x.def \in D2 \cup v..w2 - 1
      OBVIOUS
    <3>3. L => \A u \in UsedBy(x) : Given(new, n, u)
      BY <1>1, <1>6 DEF n
    <3> QED
      BY <3>1, <3>2, <3>3
  <2>2. CASE i \in 1..n
    <3>1. new[i] = code[i] /\ i - 1 \in 0..n
      BY <1>1, <1>3, <2>2
    <3>2. new[i].def = NoVReg \/ new[i].def \in D2 \cup v..w2 - 1
      BY <1>2, <1>5, <2>2, <3>1
    <3>3. UsedBy(new[i]) \subseteq R2 \cup v..w2 - 1
      BY <1>2, <1>5, <2>2, <3>1
    <3>4. L => \A u \in UsedBy(new[i]) : Given(new, i - 1, u)
      BY <1>2, <1>6, <2>2, <3>1
    <3> QED
      BY <1>2, <2>2, <3>1, <3>2, <3>3, <3>4
  <2> QED
    BY <1>4, <2>1, <2>2
<1>10. ASSUME NEW i \in 1..n + 1, NEW j \in 1..n + 1
       PROVE  /\ new[i].def = new[j].def => i = j \/ new[i].def = NoVReg
              /\ \A u \in UsedBy(new[i]) : u \in UsedBy(new[j]) => i = j
  <2>1. CASE i \in 1..n /\ j \in 1..n
    BY <1>2, <1>3, <2>1
  <2>2. CASE i = n + 1 /\ j = n + 1
    BY <2>2
  <2>3. \A k \in 1..n : x.def # code[k].def \/ x.def = NoVReg
    BY <1>2
  <2>4. \A k \in 1..n : \A u \in UsedBy(x) : u \notin UsedBy(code[k])
    BY DEF Taken, n
  <2>5. CASE i \in 1..n /\ j = n + 1
    BY <1>3, <2>3, <2>4, <2>5
  <2>6. CASE i = n + 1 /\ j \in 1..n
    BY <1>3, <2>3, <2>4, <2>6
  <2> QED
    BY <1>4, <2>1, <2>2, <2>5, <2>6
<1>11. v <= w2
  BY <1>1
<1>12. Len(new) = n + 1
  BY <1>3
<1>13. /\ \A i \in 1..Len(new) :
             /\ FitsOp(new[i])
             /\ new[i].def = NoVReg \/ new[i].def \in D2 \cup v..w2 - 1
             /\ UsedBy(new[i]) \subseteq R2 \cup v..w2 - 1
             /\ L => \A u \in UsedBy(new[i]) : Given(new, i - 1, u)
       /\ \A u \in D2 \cup v..w2 - 1 : Given(new, Len(new), u)
  BY Zenon, <1>8, <1>9, <1>12
<1>14. \A i, j \in 1..Len(new) :
         /\ new[i].def = new[j].def => i = j \/ new[i].def = NoVReg
         /\ \A u \in UsedBy(new[i]) : u \in UsedBy(new[j]) => i = j
  BY Zenon, <1>10, <1>12
<1>15. /\ new \in Seq(LInsts) /\ v \in Nat /\ w2 \in Nat /\ v <= w2
       /\ D2 \in SUBSET (0..v - 1) /\ R2 \in SUBSET (0..v - 1)
  BY Zenon, <1>1, <1>3, <1>11
<1> QED
  BY Zenon, <1>13, <1>14, <1>15 DEF Lowered

Building(b, v, D, R, L) == b \in Builders /\ Lowered(b.code, v, b.vreg, D, R, L)

\* u can be an operand of the next instruction.
Ready(b, u, v, R, L) ==
  /\ u \in R \cup v..b.vreg - 1
  /\ ~Taken(b.code, u)
  /\ L => Given(b.code, Len(b.code), u)
AllReady(b, v, R, L) == \A k \in 1..Len(b.uses) : Ready(b, b.uses[k], v, R, L)

\* An operand of the MIR whose temp, if it is one, can be.
Fit(val, b, R, L) ==
  val.kind = "IRVAL_TEMP" =>
    val.id \in R /\ ~Taken(b.code, val.id) /\ (L => Given(b.code, Len(b.code), val.id))

\* Between b and c nothing has been used.
OnlyGives(b, c) ==
  /\ b.vreg <= c.vreg
  /\ \A u : Given(b.code, Len(b.code), u) => Given(c.code, Len(c.code), u)
  /\ \A u : Taken(c.code, u) => Taken(b.code, u)

\* c is b with instruction x.
Inserted(b, c, x) ==
  /\ b \in Builders /\ c \in Builders /\ x \in BodyInsts
  /\ c.code = Append(b.code, x) /\ c.vreg = b.vreg /\ c.uses = b.uses

LEMMA InsertIs ==
  ASSUME NEW b \in Builders, NEW op \in BodyOps, NEW def \in Int, NEW uses \in Seq(Int),
         NEW slot \in Int, NEW args \in Seq(Int)
  PROVE  Inserted(b, insert_instruction(b, op, def, uses, slot, args),
                  LInst(op, b.num, def, uses, slot, args))
<1> DEFINE x == LInst(op, b.num, def, uses, slot, args)
           c == insert_instruction(b, op, def, uses, slot, args)
<1>1. b.num \in Nat /\ b.code \in Seq(BodyInsts) /\ b.num + 2 \in Nat
  BY DEF Builders
<1>2. x \in BodyInsts
  BY <1>1 DEF LInst, BodyInsts
<1>3. c = [b EXCEPT !.code = Append(@, x), !.num = @ + 2]
  BY DEF insert_instruction
<1> HIDE DEF x
<1>4. Append(b.code, x) \in Seq(BodyInsts)
  BY <1>1, <1>2
<1>5. c \in Builders /\ c.code = Append(b.code, x) /\ c.vreg = b.vreg /\ c.uses = b.uses
  BY <1>1, <1>3, <1>4 DEF Builders
<1> HIDE DEF c
<1>6. Inserted(b, c, x)
  BY <1>2, <1>5 DEF Inserted
<1> QED
  BY <1>6 DEF x, c

LEMMA UsedByNone == \A x : x.uses = <<>> => UsedBy(x) = {}
BY DEF UsedBy

LEMMA AppendGives ==
  ASSUME NEW code \in Seq(LInsts), NEW x \in LInsts, UsedBy(x) = {}
  PROVE  LET new == Append(code, x) IN
         /\ \A u : Given(code, Len(code), u) => Given(new, Len(new), u)
         /\ \A u : Taken(new, u) => Taken(code, u)
         /\ Given(new, Len(new), x.def)
<1> DEFINE new == Append(code, x)
           n == Len(code)
<1>1. /\ Len(new) = n + 1 /\ n \in Nat
      /\ \A i \in 1..n : new[i] = code[i]
      /\ new[n + 1] = x
  OBVIOUS
<1> HIDE DEF n, new
<1>2. \A i \in 1..n + 1 : i \in 1..n \/ i = n + 1
  BY <1>1
<1>3. 1..n \subseteq 1..n + 1 /\ n + 1 \in 1..n + 1
  BY <1>1
<1>4. \A u : Given(code, n, u) => Given(new, n + 1, u)
  BY <1>1, <1>3 DEF Given
<1>5. \A u : Taken(new, u) => Taken(code, u)
  BY <1>1, <1>2 DEF Taken, n
<1>6. Given(new, n + 1, x.def)
  BY <1>1, <1>3 DEF Given
<1> QED
  BY <1>1, <1>4, <1>5, <1>6 DEF new, n

LEMMA ConstCreated ==
  ASSUME NEW b, NEW v, NEW D, NEW R, NEW L, Building(b, v, D, R, L)
  PROVE  LET c == create_const(b) IN
         /\ Building(c, v, D, R, L) /\ OnlyGives(b, c)
         /\ c.vreg = b.vreg + 1 /\ c.uses = Append(b.uses, b.vreg)
         /\ ~Taken(c.code, b.vreg) /\ Given(c.code, Len(c.code), b.vreg)
<1> DEFINE x == LInst("LIRConst", b.num, b.vreg, <<>>, -1, <<>>)
           d == insert_instruction(b, "LIRConst", b.vreg, <<>>, -1, <<>>)
           c == create_const(b)
           w == b.vreg
<1>1. /\ b \in Builders /\ w \in Nat /\ w \in Int /\ w = b.vreg /\ b.uses \in Seq(Int)
      /\ b.code \in Seq(LInsts)
      /\ Lowered(b.code, v, w, D, R, L)
  BY DEF Building, Builders, Lowered
<1>2. "LIRConst" \in BodyOps /\ <<>> \in Seq(Int) /\ -1 \in Int
  BY DEF BodyOps
<1>3. /\ d \in Builders /\ x \in LInsts /\ d.code = Append(b.code, x)
      /\ d.vreg = w /\ d.uses = b.uses
      /\ x.op = "LIRConst" /\ x.def = w /\ x.uses = <<>>
  <2>1. Inserted(b, d, x)
    BY <1>1, <1>2, InsertIs
  <2>2. x.op = "LIRConst" /\ x.def = w /\ x.uses = <<>>
    BY DEF LInst
  <2> HIDE DEF d, x
  <2> QED
    BY <2>1, <2>2, BodyFits DEF Inserted
<1>4. c = [d EXCEPT !.vreg = @ + 1, !.uses = Append(@, w)]
  BY DEF create_const, w
<1> HIDE DEF x, d
<1>5. /\ c \in Builders /\ c.code = d.code /\ c.vreg = w + 1
      /\ c.uses = Append(b.uses, w)
  <2>1. Append(b.uses, w) \in Seq(Int) /\ w + 1 \in Nat
    BY <1>1
  <2> DEFINE f == [d EXCEPT !.vreg = @ + 1]
  <2>2. f \in Builders /\ f.code = d.code /\ f.vreg = w + 1 /\ f.uses = b.uses
    BY <1>1, <1>3, <2>1 DEF Builders
  <2>3. c = [f EXCEPT !.uses = Append(@, w)]
    BY <1>4
  <2> HIDE DEF f, c
  <2> QED
    BY <2>1, <2>2, <2>3 DEF Builders
<1> HIDE DEF c
<1>6. UsedBy(x) = {}
  BY <1>3, UsedByNone
<1>7. FitsOp(x)
  BY <1>1, <1>3 DEF FitsOp, NoVReg
<1>8. /\ v \in Nat /\ v <= w /\ D \in SUBSET (0..v - 1) /\ R \in SUBSET (0..v - 1)
  BY <1>1, Zenon DEF Lowered
<1>9. /\ D \cup v..(w + 1) - 1 = D \cup v..w - 1 \cup ({x.def} \ {NoVReg})
      /\ x.def \notin D \cup v..w - 1
      /\ w <= w + 1 /\ w + 1 \in Nat
  BY <1>1, <1>3, <1>8 DEF NoVReg
<1>10. Lowered(Append(b.code, x), v, w + 1, D, R, L)
  BY <1>1, <1>3, <1>6, <1>7, <1>8, <1>9, LoweredAppend
<1>11. Building(c, v, D, R, L)
  BY <1>3, <1>5, <1>10 DEF Building
<1>12. OnlyGives(b, c) /\ Given(c.code, Len(c.code), w)
  BY <1>1, <1>3, <1>5, <1>6, <1>9, AppendGives DEF OnlyGives, w
<1>13. ~Taken(b.code, w)
  <2>1. \A i \in 1..Len(b.code) : UsedBy(b.code[i]) \subseteq R \cup v..w - 1
    BY <1>1 DEF Lowered
  <2>2. w \notin R \cup v..w - 1
    BY <1>1, <1>8
  <2> QED
    BY <2>1, <2>2 DEF Taken
<1> QED
  BY <1>5, <1>11, <1>12, <1>13 DEF OnlyGives, c, w

LEMMA ReadyStays ==
  ASSUME NEW b, NEW c, NEW u, NEW v \in Int, NEW R, NEW L, b.vreg \in Int, c.vreg \in Int,
         OnlyGives(b, c), Ready(b, u, v, R, L)
  PROVE  Ready(c, u, v, R, L)
BY DEF Ready, OnlyGives

LEMMA FitStays ==
  ASSUME NEW b, NEW c, NEW val, NEW R, NEW L, OnlyGives(b, c), Fit(val, b, R, L)
  PROVE  Fit(val, c, R, L)
BY DEF Fit, OnlyGives

LEMMA OnlyGivesMore ==
  ASSUME NEW b, NEW c, NEW d, b.vreg \in Int, c.vreg \in Int, d.vreg \in Int,
         OnlyGives(b, c), OnlyGives(c, d)
  PROVE  OnlyGives(b, d)
BY DEF OnlyGives
-----------------------------------------------------------------------------
\* f is the function defined by recursion up to n.
RecursiveTo(f, n, X, x, step) ==
  f \in [0..n -> X] /\ f[0] = x /\ \A k \in 1..n : f[k] = step[k][f[k - 1]]

LEMMA RecursionUpTo ==
  ASSUME NEW X, NEW x \in X, NEW n \in Nat, NEW step \in [1..n -> [X -> X]]
  PROVE  \E f : RecursiveTo(f, n, X, x, step)
<1> DEFINE all == [i \in Nat |-> IF i + 1 \in 1..n THEN step[i + 1] ELSE [y \in X |-> y]]
<1>1. all \in [Nat -> [X -> X]]
  <2>1. [y \in X |-> y] \in [X -> X]
    OBVIOUS
  <2>2. \A i \in Nat : i + 1 \in 1..n => step[i + 1] \in [X -> X]
    OBVIOUS
  <2> QED
    BY <2>1, <2>2
<1>2. \A k \in 1..n : k - 1 \in Nat /\ all[k - 1] = step[k]
  OBVIOUS
<1> HIDE DEF all
<1>3. PICK g : IsRecursive(g, X, x, all)
  BY <1>1, Recursion
<1>4. g \in [Nat -> X] /\ g[0] = x /\ \A k \in Nat : g[k + 1] = all[k][g[k]]
  BY <1>3 DEF IsRecursive
<1> DEFINE f == [k \in 0..n |-> g[k]]
<1>5. f \in [0..n -> X] /\ f[0] = x
  BY <1>4
<1>6. ASSUME NEW k \in 1..n PROVE f[k] = step[k][f[k - 1]]
  <2>1. k - 1 \in Nat /\ k - 1 + 1 = k /\ k - 1 \in 0..n /\ k \in 0..n
    OBVIOUS
  <2>2. g[k] = all[k - 1][g[k - 1]]
    BY <1>4, <2>1
  <2> QED
    BY <1>2, <2>1, <2>2
<1> HIDE DEF f
<1> QED
  BY <1>5, <1>6 DEF RecursiveTo

\* Induction up to n.
LEMMA InductionUpTo ==
  ASSUME NEW S, NEW n \in Nat, 0 \in S, \A k \in 1..n : k - 1 \in S => k \in S
  PROVE  \A k \in 0..n : k \in S
<1> DEFINE U == {k \in Nat : k <= n => k \in S}
<1>1. 0 \in U
  OBVIOUS
<1>2. ASSUME NEW k \in Nat, k \in U PROVE k + 1 \in U
  <2>1. k + 1 <= n => k + 1 \in 1..n /\ k + 1 - 1 = k /\ k \in S
    BY <1>2
  <2> QED
    BY <2>1
<1> HIDE DEF U
<1>3. Nat \subseteq U
  BY <1>1, <1>2, Induction
<1> QED
  BY <1>3 DEF U

Valued(val) == /\ val.kind \in {"IRVAL_IMM", "IRVAL_TEMP"}
               /\ val.kind = "IRVAL_TEMP" => val.id \in Int

LEMMA UsesKept ==
  ASSUME NEW b \in Builders, NEW u \in Seq(Int)
  PROVE  LET c == [b EXCEPT !.uses = u] IN
         c \in Builders /\ c.code = b.code /\ c.vreg = b.vreg /\ c.uses = u
BY DEF Builders

LEMMA AddsUse ==
  ASSUME NEW b \in Builders, NEW u \in Int
  PROVE  LET c == [b EXCEPT !.uses = Append(@, u)] IN
         /\ c \in Builders /\ c.code = b.code /\ c.vreg = b.vreg
         /\ c.uses = Append(b.uses, u)
<1>1. Append(b.uses, u) \in Seq(Int)
  BY DEF Builders
<1> QED
  BY <1>1 DEF Builders

LEMMA ReadyAppend ==
  ASSUME NEW c \in Builders, NEW s \in Seq(Int), NEW u, NEW v, NEW R, NEW L,
         c.uses = Append(s, u), Ready(c, u, v, R, L),
         \A k \in 1..Len(s) : Ready(c, s[k], v, R, L)
  PROVE  AllReady(c, v, R, L)
<1>1. Len(c.uses) = Len(s) + 1 /\ Len(s) \in Nat
  OBVIOUS
<1>2. c.uses[Len(s) + 1] = u /\ \A k \in 1..Len(s) : c.uses[k] = s[k]
  OBVIOUS
<1>3. \A k \in 1..Len(s) + 1 : k \in 1..Len(s) \/ k = Len(s) + 1
  BY <1>1
<1> QED
  BY <1>1, <1>2, <1>3 DEF AllReady

LEMMA OperandLowered ==
  ASSUME NEW b, NEW v, NEW D, NEW R, NEW L, NEW R2, NEW val, NEW imm,
         Building(b, v, D, R, L), AllReady(b, v, R2, L), R2 \in SUBSET (0..v - 1),
         Valued(val), Fit(val, b, R2, L)
  PROVE  LET c == lower_operand(b, val, imm) IN
         Building(c, v, D, R, L) /\ AllReady(c, v, R2, L) /\ OnlyGives(b, c)
<1> DEFINE c == lower_operand(b, val, imm)
<1> SUFFICES Building(c, v, D, R, L) /\ AllReady(c, v, R2, L) /\ OnlyGives(b, c)
  OBVIOUS
<1>1. /\ b \in Builders /\ b.vreg \in Nat /\ b.uses \in Seq(Int) /\ v \in Nat /\ v <= b.vreg
      /\ Lowered(b.code, v, b.vreg, D, R, L)
  BY DEF Building, Builders, Lowered
<1>2. \A k \in 1..Len(b.uses) : Ready(b, b.uses[k], v, R2, L)
  BY DEF AllReady
<1>3. CASE val.kind = "IRVAL_TEMP"
  <2>1. c = [b EXCEPT !.uses = Append(@, val.id)] /\ val.id \in Int
    BY <1>3 DEF lower_operand, Valued
  <2> HIDE DEF c
  <2>2. c \in Builders /\ c.code = b.code /\ c.vreg = b.vreg /\ c.uses = Append(b.uses, val.id)
    BY <1>1, <2>1, AddsUse
  <2>3. Building(c, v, D, R, L) /\ OnlyGives(b, c)
    BY <1>1, <2>2 DEF Building, OnlyGives
  <2>4. Ready(c, val.id, v, R2, L)
    BY <1>3, <2>2 DEF Fit, Ready
  <2>5. \A k \in 1..Len(b.uses) : Ready(c, b.uses[k], v, R2, L)
    BY <1>2, <2>2 DEF Ready
  <2>6. AllReady(c, v, R2, L)
    BY <1>1, <2>2, <2>4, <2>5, ReadyAppend
  <2> QED
    BY <2>3, <2>6
<1>4. CASE c = b
  <2>1. OnlyGives(b, b)
    BY <1>1 DEF OnlyGives
  <2> HIDE DEF c
  <2> QED
    BY <1>4, <2>1
<1>5. CASE c = create_const(b)
  <2> HIDE DEF c
  <2> DEFINE w == b.vreg
  <2>1. /\ Building(c, v, D, R, L) /\ OnlyGives(b, c)
        /\ c.vreg = w + 1 /\ c.uses = Append(b.uses, w)
        /\ ~Taken(c.code, w) /\ Given(c.code, Len(c.code), w)
    BY <1>5, ConstCreated
  <2>2. Ready(c, w, v, R2, L)
    <3>1. w \in v..c.vreg - 1
      BY <1>1, <2>1
    <3> HIDE DEF w
    <3> QED
      BY <2>1, <3>1 DEF Ready
  <2>3. \A k \in 1..Len(b.uses) : Ready(c, b.uses[k], v, R2, L)
    <3>1. c.vreg \in Int /\ b.vreg \in Int /\ v \in Int
      BY <1>1, <2>1
    <3> QED
      BY <1>2, <2>1, <3>1, ReadyStays
  <2>4. c \in Builders
    BY <2>1 DEF Building
  <2> HIDE DEF w
  <2>5. AllReady(c, v, R2, L)
    BY <1>1, <2>1, <2>2, <2>3, <2>4, ReadyAppend
  <2> QED
    BY <2>1, <2>5
<1> QED
  BY <1>3, <1>4, <1>5 DEF lower_operand
-----------------------------------------------------------------------------
LEMMA OperandBuilds ==
  ASSUME NEW b \in Builders, NEW val, NEW imm, Valued(val)
  PROVE  lower_operand(b, val, imm) \in Builders
<1>1. CASE val.kind = "IRVAL_TEMP"
  <2>1. val.id \in Int
    BY <1>1 DEF Valued
  <2> QED
    BY <1>1, <2>1, AddsUse DEF lower_operand
<1>2. create_const(b) \in Builders
  <2> DEFINE d == insert_instruction(b, "LIRConst", b.vreg, <<>>, -1, <<>>)
             x == LInst("LIRConst", b.num, b.vreg, <<>>, -1, <<>>)
  <2>1. b.vreg \in Int /\ "LIRConst" \in BodyOps /\ <<>> \in Seq(Int) /\ -1 \in Int
    BY DEF Builders, BodyOps
  <2>2. Inserted(b, d, x)
    BY <2>1, InsertIs
  <2>3. create_const(b) = [d EXCEPT !.vreg = @ + 1, !.uses = Append(@, b.vreg)]
    BY DEF create_const
  <2> HIDE DEF d, x
  <2> DEFINE f == [d EXCEPT !.vreg = @ + 1]
  <2>4. d \in Builders
    BY <2>2 DEF Inserted
  <2>5. f \in Builders
    <3>1. d.vreg + 1 \in Nat
      BY <2>4 DEF Builders
    <3> QED
      BY <2>4, <3>1 DEF Builders
  <2>6. create_const(b) = [f EXCEPT !.uses = Append(@, b.vreg)]
    BY <2>3
  <2> HIDE DEF f
  <2> QED
    BY <2>1, <2>5, <2>6, AddsUse
<1> QED
  BY <1>1, <1>2 DEF lower_operand

\* The builder after each operand: the function that lower_operands computes.
OperandsAlong(f, b, inst) ==
  f = [k \in 0..Len(inst.args) |->
         IF k = 0 THEN [b EXCEPT !.uses = <<>>]
         ELSE lower_operand(f[k - 1], inst.args[k], ImmForm(inst.type, k))]

LEMMA OperandsAre ==
  ASSUME NEW b \in Builders, NEW inst, Len(inst.args) \in Nat,
         \A k \in 1..Len(inst.args) : Valued(inst.args[k])
  PROVE  \E f : /\ f[0] = [b EXCEPT !.uses = <<>>]
                /\ \A k \in 1..Len(inst.args) :
                     f[k] = lower_operand(f[k - 1], inst.args[k], ImmForm(inst.type, k))
                /\ lower_operands(b, inst) = f[Len(inst.args)]
<1> DEFINE n == Len(inst.args)
           x == [b EXCEPT !.uses = <<>>]
           step == [k \in 1..n |-> [y \in Builders |->
                      lower_operand(y, inst.args[k], ImmForm(inst.type, k))]]
           h == CHOOSE f : OperandsAlong(f, b, inst)
<1>1. x \in Builders
  <2>1. <<>> \in Seq(Int)
    OBVIOUS
  <2> QED
    BY <2>1, UsesKept
<1>2. step \in [1..n -> [Builders -> Builders]]
  BY OperandBuilds
<1>3. PICK g \in [0..n -> Builders] : g[0] = x /\ \A k \in 1..n : g[k] = step[k][g[k - 1]]
  <2>1. n \in Nat
    OBVIOUS
  <2> HIDE DEF x, step, n
  <2>2. \E g : RecursiveTo(g, n, Builders, x, step)
    BY <1>1, <1>2, <2>1, RecursionUpTo
  <2> QED
    BY <2>2 DEF RecursiveTo
<1>4. \A k \in 1..n : k - 1 \in 0..n /\ g[k - 1] \in Builders
  BY <1>3
<1>5. g = [k \in 0..n |-> IF k = 0 THEN x
                          ELSE lower_operand(g[k - 1], inst.args[k], ImmForm(inst.type, k))]
  <2> HIDE DEF x
  <2>1. \A k \in 0..n : k # 0 => k \in 1..n
    OBVIOUS
  <2>2. \A k \in 1..n : g[k] = lower_operand(g[k - 1], inst.args[k], ImmForm(inst.type, k))
    BY <1>3, <1>4
  <2> QED
    BY <1>3, <2>1, <2>2
<1>6. OperandsAlong(g, b, inst)
  BY <1>5 DEF OperandsAlong
<1>7. OperandsAlong(h, b, inst)
  BY <1>6
<1>8. lower_operands(b, inst) = h[n]
  BY DEF lower_operands, OperandsAlong
<1> HIDE DEF h, step
<1>9. \A k \in 0..n : h[k] = IF k = 0 THEN x
                             ELSE lower_operand(h[k - 1], inst.args[k], ImmForm(inst.type, k))
  BY Zenon, <1>7 DEF OperandsAlong
<1> HIDE DEF x
<1>10. h[0] = x
       /\ \A k \in 1..n : h[k] = lower_operand(h[k - 1], inst.args[k], ImmForm(inst.type, k))
  BY <1>9
<1> QED
  BY <1>8, <1>10 DEF x

\* The operands of an instruction, none of which has been used.
LEMMA OperandsLowered ==
  ASSUME NEW b, NEW v, NEW D, NEW R, NEW L, NEW R2, NEW inst,
         Building(b, v, D, R, L), R2 \in SUBSET (0..v - 1), Len(inst.args) \in Nat,
         \A k \in 1..Len(inst.args) : Valued(inst.args[k]) /\ Fit(inst.args[k], b, R2, L)
  PROVE  LET c == lower_operands(b, inst) IN
         Building(c, v, D, R, L) /\ AllReady(c, v, R2, L) /\ OnlyGives(b, c)
<1> DEFINE n == Len(inst.args)
<1>1. b \in Builders /\ b.vreg \in Nat /\ Lowered(b.code, v, b.vreg, D, R, L)
  BY DEF Building, Builders
<1>2. PICK f : /\ f[0] = [b EXCEPT !.uses = <<>>]
               /\ \A k \in 1..n : f[k] = lower_operand(f[k - 1], inst.args[k],
                                                       ImmForm(inst.type, k))
               /\ lower_operands(b, inst) = f[n]
  BY <1>1, OperandsAre
<1> HIDE DEF n
<1> DEFINE S == {k \in 0..n : /\ Building(f[k], v, D, R, L)
                              /\ AllReady(f[k], v, R2, L)
                              /\ OnlyGives(b, f[k])}
<1>3. 0 \in S
  <2> DEFINE c == [b EXCEPT !.uses = <<>>]
  <2>1. /\ c \in Builders /\ c.code = b.code /\ c.vreg = b.vreg /\ c.uses = <<>>
    <3>1. <<>> \in Seq(Int)
      OBVIOUS
    <3> QED
      BY <1>1, <3>1, UsesKept
  <2> HIDE DEF c
  <2>2. Building(c, v, D, R, L) /\ AllReady(c, v, R2, L) /\ OnlyGives(b, c)
    BY <1>1, <2>1 DEF Building, AllReady, OnlyGives
  <2>3. 0 \in 0..n
    BY DEF n
  <2> QED
    BY <1>2, <2>2, <2>3 DEF c
<1>4. ASSUME NEW k \in 1..n, k - 1 \in S PROVE k \in S
  <2> DEFINE c == f[k - 1]
             val == inst.args[k]
             d == f[k]
  <2>1. /\ Building(c, v, D, R, L) /\ AllReady(c, v, R2, L) /\ OnlyGives(b, c)
    BY <1>4
  <2>2. d = lower_operand(c, val, ImmForm(inst.type, k)) /\ k \in 0..n
    BY <1>2 DEF n
  <2>3. Valued(val) /\ Fit(val, b, R2, L)
    BY DEF n
  <2> HIDE DEF c, val, d
  <2>4. Fit(val, c, R2, L)
    BY <2>1, <2>3, FitStays
  <2>5. Building(d, v, D, R, L) /\ AllReady(d, v, R2, L) /\ OnlyGives(c, d)
    BY <2>1, <2>2, <2>3, <2>4, OperandLowered
  <2>6. OnlyGives(b, d)
    <3>1. c.vreg \in Int /\ d.vreg \in Int /\ b.vreg \in Int
      BY <1>1, <2>1, <2>5 DEF Building, Builders
    <3> QED
      BY <2>1, <2>5, <3>1, OnlyGivesMore
  <2> QED
    BY <2>2, <2>5, <2>6 DEF d
<1>5. n \in S
  <2> HIDE DEF S
  <2>1. n \in Nat /\ n \in 0..n
    BY DEF n
  <2> QED
    BY <1>3, <1>4, <2>1, InductionUpTo
<1> QED
  BY <1>2, <1>5
-----------------------------------------------------------------------------
\* new goes on from code; of the temps before v only those of R become used.
Continues(code, new, v, R) ==
  /\ \A u : Given(code, Len(code), u) => Given(new, Len(new), u)
  /\ \A u \in 0..v - 1 : Taken(new, u) => Taken(code, u) \/ u \in R

LEMMA AppendContinues ==
  ASSUME NEW code \in Seq(LInsts), NEW x \in LInsts, NEW v \in Nat, NEW R,
         UsedBy(x) \cap 0..v - 1 \subseteq R
  PROVE  Continues(code, Append(code, x), v, R)
<1> DEFINE new == Append(code, x)
           n == Len(code)
<1>1. /\ Len(new) = n + 1 /\ n \in Nat
      /\ \A i \in 1..n : new[i] = code[i]
      /\ new[n + 1] = x
  OBVIOUS
<1> HIDE DEF n, new
<1>2. \A i \in 1..n + 1 : i \in 1..n \/ i = n + 1
  BY <1>1
<1>3. 1..n \subseteq 1..n + 1
  BY <1>1
<1>4. \A u : Given(code, n, u) => Given(new, n + 1, u)
  BY <1>1, <1>3 DEF Given
<1>5. \A u \in 0..v - 1 : Taken(new, u) => Taken(code, u) \/ u \in R
  BY <1>1, <1>2 DEF Taken, n
<1>6. Continues(code, new, v, R)
  BY <1>1, <1>4, <1>5 DEF Continues, n
<1> QED
  BY <1>6 DEF new

\* The instruction that takes the operands.
LEMMA InstructionAdded ==
  ASSUME NEW b, NEW v, NEW D, NEW R, NEW L, NEW R2, NEW D2, NEW x \in LInsts,
         Building(b, v, D, R, L), FitsOp(x), R2 \in SUBSET (0..v - 1),
         D2 \in SUBSET (0..v - 1), D2 = D \cup ({x.def} \ {NoVReg}), x.def \notin D,
         \A u \in UsedBy(x) : Ready(b, u, v, R2, L)
  PROVE  /\ Lowered(Append(b.code, x), v, b.vreg, D2, R \cup R2, L)
         /\ Continues(b.code, Append(b.code, x), v, R2)
<1> DEFINE w == b.vreg
<1>1. Lowered(b.code, v, w, D, R, L) /\ w \in Nat /\ b.code \in Seq(LInsts)
  BY DEF Building, Builders, Lowered
<1>2. /\ v \in Nat /\ v <= w /\ D \in SUBSET (0..v - 1) /\ R \in SUBSET (0..v - 1)
  BY <1>1 DEF Lowered
<1>3. \A u \in UsedBy(x) : /\ u \in R2 \cup v..w - 1 /\ ~Taken(b.code, u)
                           /\ L => Given(b.code, Len(b.code), u)
  BY DEF Ready
<1> HIDE DEF w
<1>4. x.def \notin D \cup v..w - 1
  <2>1. x.def = NoVReg \/ x.def \in 0..v - 1
    OBVIOUS
  <2> QED
    BY <1>2, <2>1 DEF NoVReg
<1>5. D2 \cup v..w - 1 = D \cup v..w - 1 \cup ({x.def} \ {NoVReg})
  OBVIOUS
<1>6. UsedBy(x) \subseteq (R \cup R2) \cup v..w - 1
  BY <1>3
<1>7. /\ \A u \in UsedBy(x) : ~Taken(b.code, u)
      /\ L => \A u \in UsedBy(x) : Given(b.code, Len(b.code), u)
  BY <1>3
<1>8. w <= w /\ R \subseteq R \cup R2 /\ (R \cup R2) \in SUBSET (0..v - 1)
  BY <1>1, <1>2
<1>9. Lowered(Append(b.code, x), v, w, D2, R \cup R2, L)
  BY <1>1, <1>4, <1>5, <1>6, <1>7, <1>8, LoweredAppend
<1>10. UsedBy(x) \cap 0..v - 1 \subseteq R2
  BY <1>2, <1>3
<1>11. Continues(b.code, Append(b.code, x), v, R2)
  BY <1>1, <1>2, <1>10, AppendContinues
<1> QED
  BY <1>9, <1>11 DEF w

LEMMA ReadyUses ==
  ASSUME NEW b, NEW x, NEW v, NEW R, NEW L, b.uses \in Seq(Int), AllReady(b, v, R, L),
         x.uses = b.uses
  PROVE  \A u \in UsedBy(x) : Ready(b, u, v, R, L)
BY DEF AllReady, UsedBy

LEMMA GivesContinues ==
  ASSUME NEW b, NEW c, NEW new, NEW v, NEW R, OnlyGives(b, c), Continues(c.code, new, v, R)
  PROVE  Continues(b.code, new, v, R)
BY DEF OnlyGives, Continues

LEMMA ContinuesMore ==
  ASSUME NEW code, NEW mid, NEW new, NEW v, NEW R, NEW R2, Continues(code, mid, v, R),
         Continues(mid, new, v, R2)
  PROVE  Continues(code, new, v, R \cup R2)
BY DEF Continues

LEMMA ArgPutBuilds ==
  ASSUME NEW c \in Builders, NEW k \in Nat \ {0}, NEW val, Valued(val)
  PROVE  LET d == lower_operand([c EXCEPT !.uses = <<>>], val, FALSE)
             x == LInst("LIRArgPut", d.num, NoVReg, d.uses, -1, <<k - 1>>)
             e == create_arg_put(c, k, val) IN
         /\ e \in Builders /\ x \in BodyInsts /\ d \in Builders
         /\ e.code = Append(d.code, x) /\ e.vreg = d.vreg
         /\ x.op = "LIRArgPut" /\ x.def = NoVReg /\ x.uses = d.uses /\ x.args[1] = k - 1
<1> DEFINE d == lower_operand([c EXCEPT !.uses = <<>>], val, FALSE)
           x == LInst("LIRArgPut", d.num, NoVReg, d.uses, -1, <<k - 1>>)
           i == insert_instruction(d, "LIRArgPut", NoVReg, d.uses, -1, <<k - 1>>)
           e == create_arg_put(c, k, val)
<1>1. d \in Builders
  <2>1. <<>> \in Seq(Int)
    OBVIOUS
  <2>2. [c EXCEPT !.uses = <<>>] \in Builders
    BY <2>1, UsesKept
  <2> QED
    BY <2>2, OperandBuilds
<1>2. x.op = "LIRArgPut" /\ x.def = NoVReg /\ x.uses = d.uses /\ x.args[1] = k - 1
  BY DEF LInst
<1>3. e = [i EXCEPT !.uses = c.uses \o d.uses]
  BY DEF create_arg_put
<1> HIDE DEF d
<1>4. Inserted(d, i, x)
  <2>1. /\ "LIRArgPut" \in BodyOps /\ NoVReg \in Int /\ d.uses \in Seq(Int) /\ -1 \in Int
        /\ <<k - 1>> \in Seq(Int)
    BY <1>1 DEF BodyOps, NoVReg, Builders
  <2> QED
    BY <1>1, <2>1, InsertIs
<1> HIDE DEF i, x, e
<1>5. c.uses \o d.uses \in Seq(Int)
  BY <1>1 DEF Builders
<1>6. i \in Builders /\ x \in BodyInsts /\ i.code = Append(d.code, x) /\ i.vreg = d.vreg
  BY <1>4 DEF Inserted
<1>7. e \in Builders /\ e.code = i.code /\ e.vreg = i.vreg
  BY <1>3, <1>5, <1>6, UsesKept
<1>8. /\ e \in Builders /\ x \in BodyInsts /\ d \in Builders
      /\ e.code = Append(d.code, x) /\ e.vreg = d.vreg
  BY <1>1, <1>6, <1>7
<1> QED
  BY <1>2, <1>8 DEF d, x, e

LEMMA ArgPutAdded ==
  ASSUME NEW c, NEW v, NEW D, NEW R, NEW L, NEW R2, NEW k \in 1..8, NEW val,
         Building(c, v, D, R, L), R2 \in SUBSET (0..v - 1), Valued(val), Fit(val, c, R2, L)
  PROVE  LET e == create_arg_put(c, k, val) IN
         Building(e, v, D, R \cup R2, L) /\ Continues(c.code, e.code, v, R2)
<1> DEFINE c0 == [c EXCEPT !.uses = <<>>]
           d == lower_operand(c0, val, FALSE)
           x == LInst("LIRArgPut", d.num, NoVReg, d.uses, -1, <<k - 1>>)
           e == create_arg_put(c, k, val)
<1>1. c \in Builders /\ Lowered(c.code, v, c.vreg, D, R, L) /\ c.vreg \in Nat
  BY DEF Building, Builders
<1>2. /\ e \in Builders /\ x \in BodyInsts /\ d \in Builders
      /\ e.code = Append(d.code, x) /\ e.vreg = d.vreg
      /\ x.op = "LIRArgPut" /\ x.def = NoVReg /\ x.uses = d.uses /\ x.args[1] = k - 1
  <2>1. k \in Nat \ {0}
    OBVIOUS
  <2> QED
    BY <1>1, <2>1, ArgPutBuilds
<1> HIDE DEF x, e
<1>3. c0 \in Builders /\ c0.code = c.code /\ c0.vreg = c.vreg /\ c0.uses = <<>>
  <2>1. <<>> \in Seq(Int)
    OBVIOUS
  <2> QED
    BY <1>1, <2>1, UsesKept
<1> HIDE DEF c0
<1>4. /\ Building(c0, v, D, R, L) /\ AllReady(c0, v, R2, L) /\ Fit(val, c0, R2, L)
      /\ OnlyGives(c, c0)
  BY <1>1, <1>3 DEF Building, AllReady, Fit, OnlyGives
<1>5. Building(d, v, D, R, L) /\ AllReady(d, v, R2, L) /\ OnlyGives(c0, d)
  BY <1>4, OperandLowered
<1> HIDE DEF d
<1>6. \A u \in UsedBy(x) : Ready(d, u, v, R2, L)
  BY <1>2, <1>5, ReadyUses DEF Builders
<1>7. FitsOp(x)
  <2>1. x.args[1] \in ArgRegs
    BY <1>2 DEF ArgRegs
  <2> QED
    BY <1>2, <2>1 DEF FitsOp
<1>8. /\ Lowered(Append(d.code, x), v, d.vreg, D, R \cup R2, L)
      /\ Continues(d.code, Append(d.code, x), v, R2)
  <2>1. D \in SUBSET (0..v - 1) /\ x.def \notin D /\ D = D \cup ({x.def} \ {NoVReg})
    BY <1>1, <1>2 DEF Lowered, NoVReg
  <2> QED
    BY <1>2, <1>5, <1>6, <1>7, <2>1, BodyFits, InstructionAdded
<1>9. Building(e, v, D, R \cup R2, L)
  BY <1>2, <1>8 DEF Building
<1>10. Continues(c.code, e.code, v, R2)
  <2>1. Continues(c0.code, e.code, v, R2)
    BY <1>2, <1>5, <1>8, GivesContinues
  <2> QED
    BY <1>3, <2>1
<1> QED
  BY <1>9, <1>10 DEF e
-----------------------------------------------------------------------------
\* The builder after each argument: the function create_arg_puts computes.
ArgPutsAlong(f, b, args) ==
  f = [k \in 0..Len(args) |-> IF k = 0 THEN [b EXCEPT !.uses = <<>>]
                              ELSE create_arg_put(f[k - 1], k, args[k])]

LEMMA ArgPutsAre ==
  ASSUME NEW b \in Builders, NEW args, Len(args) \in Nat,
         \A k \in 1..Len(args) : Valued(args[k])
  PROVE  \E f : /\ f[0] = [b EXCEPT !.uses = <<>>]
                /\ \A k \in 1..Len(args) : f[k] = create_arg_put(f[k - 1], k, args[k])
                /\ create_arg_puts(b, args) = f[Len(args)]
<1> DEFINE n == Len(args)
           x == [b EXCEPT !.uses = <<>>]
           step == [k \in 1..n |-> [y \in Builders |-> create_arg_put(y, k, args[k])]]
           h == CHOOSE f : ArgPutsAlong(f, b, args)
<1>1. x \in Builders
  <2>1. <<>> \in Seq(Int)
    OBVIOUS
  <2> QED
    BY <2>1, UsesKept
<1>2. step \in [1..n -> [Builders -> Builders]]
  <2>1. ASSUME NEW k \in 1..n, NEW y \in Builders PROVE create_arg_put(y, k, args[k]) \in Builders
    <3>1. k \in Nat \ {0}
      OBVIOUS
    <3> QED
      BY <3>1, ArgPutBuilds
  <2> QED
    BY <2>1
<1>3. PICK g \in [0..n -> Builders] : g[0] = x /\ \A k \in 1..n : g[k] = step[k][g[k - 1]]
  <2>1. n \in Nat
    OBVIOUS
  <2> HIDE DEF x, step, n
  <2>2. \E g : RecursiveTo(g, n, Builders, x, step)
    BY <1>1, <1>2, <2>1, RecursionUpTo
  <2> QED
    BY <2>2 DEF RecursiveTo
<1>4. \A k \in 1..n : k - 1 \in 0..n /\ g[k - 1] \in Builders
  BY <1>3
<1>5. g = [k \in 0..n |-> IF k = 0 THEN x ELSE create_arg_put(g[k - 1], k, args[k])]
  <2> HIDE DEF x
  <2>1. \A k \in 0..n : k # 0 => k \in 1..n
    OBVIOUS
  <2>2. \A k \in 1..n : g[k] = create_arg_put(g[k - 1], k, args[k])
    BY <1>3, <1>4
  <2> QED
    BY <1>3, <2>1, <2>2
<1>6. ArgPutsAlong(g, b, args)
  BY <1>5 DEF ArgPutsAlong
<1>7. ArgPutsAlong(h, b, args)
  BY <1>6
<1>8. create_arg_puts(b, args) = h[n]
  BY DEF create_arg_puts, ArgPutsAlong
<1> HIDE DEF h, step
<1>9. \A k \in 0..n : h[k] = IF k = 0 THEN x ELSE create_arg_put(h[k - 1], k, args[k])
  BY Zenon, <1>7 DEF ArgPutsAlong
<1> HIDE DEF x
<1>10. h[0] = x /\ \A k \in 1..n : h[k] = create_arg_put(h[k - 1], k, args[k])
  BY <1>9
<1> QED
  BY <1>8, <1>10 DEF x

\* The temps among the first n arguments.
TempsOf(args, n) == {t \in Nat : \E k \in 1..n : args[k] = TEMP(t)}
Distinct(args)   == \A k, l \in 1..Len(args) :
                      args[k].kind = "IRVAL_TEMP" /\ args[k] = args[l] => k = l

LEMMA TempIs ==
  ASSUME NEW val \in Values
  PROVE  /\ Valued(val)
         /\ val.kind = "IRVAL_TEMP" => val.id \in Nat /\ val = TEMP(val.id)
BY DEF Values, Valued, TEMP

LEMMA TempsGrow ==
  ASSUME NEW args \in Seq(Values), NEW k \in 1..Len(args)
  PROVE  /\ TempsOf(args, k - 1) \cup TempsOf(<<args[k]>>, 1) = TempsOf(args, k)
         /\ args[k].kind = "IRVAL_TEMP" => args[k].id \in TempsOf(<<args[k]>>, 1)
<1>1. \A l \in 1..k : l \in 1..k - 1 \/ l = k
  OBVIOUS
<1>2. \A l \in 1..k - 1 : l \in 1..k
  OBVIOUS
<1>3. k \in 1..k /\ 1 \in 1..1 /\ <<args[k]>>[1] = args[k] /\ \A l \in 1..1 : l = 1
  OBVIOUS
<1>4. TempsOf(<<args[k]>>, 1) = {t \in Nat : args[k] = TEMP(t)}
  BY <1>3 DEF TempsOf
<1>5. TempsOf(args, k - 1) \cup {t \in Nat : args[k] = TEMP(t)} = TempsOf(args, k)
  BY <1>1, <1>2, <1>3 DEF TempsOf
<1>6. args[k] \in Values
  OBVIOUS
<1>7. args[k].kind = "IRVAL_TEMP" => args[k].id \in {t \in Nat : args[k] = TEMP(t)}
  BY <1>6, TempIs
<1> QED
  BY <1>4, <1>5, <1>7

\* Arguments that can all be operands.
AllFit(args, b, R, L) == \A k \in 1..Len(args) : Fit(args[k], b, R, L)

LEMMA ArgPutsAdded ==
  ASSUME NEW b, NEW v, NEW D, NEW R, NEW L, NEW args \in Seq(Values),
         Building(b, v, D, R, L), Len(args) <= 8, Distinct(args),
         TempsOf(args, Len(args)) \in SUBSET (0..v - 1),
         AllFit(args, b, TempsOf(args, Len(args)), L)
  PROVE  LET c == create_arg_puts(b, args) IN
         /\ Building(c, v, D, R \cup TempsOf(args, Len(args)), L)
         /\ Continues(b.code, c.code, v, TempsOf(args, Len(args)))
<1> DEFINE n == Len(args)
           U(k) == TempsOf(args, k)
<1>1. /\ b \in Builders /\ Lowered(b.code, v, b.vreg, D, R, L) /\ n \in Nat /\ n <= 8
      /\ \A k \in 1..n : args[k] \in Values /\ Valued(args[k])
  BY TempIs DEF Building
<1>2. PICK f : /\ f[0] = [b EXCEPT !.uses = <<>>]
               /\ \A k \in 1..n : f[k] = create_arg_put(f[k - 1], k, args[k])
               /\ create_arg_puts(b, args) = f[n]
  BY <1>1, ArgPutsAre
<1>3. \A k \in 1..n : Fit(args[k], b, U(n), L)
  BY DEF AllFit
<1>4. U(0) = {} /\ U(n) \in SUBSET (0..v - 1)
  BY DEF TempsOf
<1>5. \A k, l \in 1..n : args[k].kind = "IRVAL_TEMP" /\ args[k] = args[l] => k = l
  BY DEF Distinct
<1>6. \A k \in 1..n : /\ U(k - 1) \cup TempsOf(<<args[k]>>, 1) = U(k)
                      /\ args[k].kind = "IRVAL_TEMP" => args[k].id \in TempsOf(<<args[k]>>, 1)
  BY TempsGrow
<1>7. \A k \in 1..n : U(k) \subseteq U(n) /\ TempsOf(<<args[k]>>, 1) \subseteq U(n)
  <2> SUFFICES ASSUME NEW k \in 1..n PROVE U(k) \subseteq U(n)
    BY <1>6
  <2>1. \A l \in 1..k : l \in 1..n
    BY <1>1
  <2> QED
    BY <2>1 DEF TempsOf
<1> HIDE DEF n
<1> DEFINE S == {k \in 0..n : /\ Building(f[k], v, D, R \cup U(k), L)
                              /\ Continues(b.code, f[k].code, v, U(k))}
<1>8. 0 \in S
  <2> DEFINE c == [b EXCEPT !.uses = <<>>]
  <2>1. c \in Builders /\ c.code = b.code /\ c.vreg = b.vreg
    <3>1. <<>> \in Seq(Int)
      OBVIOUS
    <3> QED
      BY <1>1, <3>1, UsesKept
  <2> HIDE DEF c
  <2>2. Building(c, v, D, R, L) /\ Continues(b.code, c.code, v, {})
    BY <1>1, <2>1 DEF Building, Continues
  <2>3. 0 \in 0..n /\ R \cup U(0) = R
    BY <1>1, <1>4
  <2> QED
    BY <1>2, <1>4, <2>2, <2>3 DEF c
<1>9. ASSUME NEW k \in 1..n, k - 1 \in S PROVE k \in S
  <2> DEFINE c == f[k - 1]
             val == args[k]
             e == f[k]
             P == U(k - 1)
             Q == TempsOf(<<args[k]>>, 1)
  <2>1. Building(c, v, D, R \cup P, L) /\ Continues(b.code, c.code, v, P)
    BY <1>9
  <2>2. e = create_arg_put(c, k, val) /\ k \in 0..n /\ k \in 1..8
    BY <1>1, <1>2
  <2>3. /\ Valued(val) /\ Fit(val, b, U(n), L) /\ Q \in SUBSET (0..v - 1)
        /\ P \cup Q = U(k)
        /\ val.kind = "IRVAL_TEMP" => val.id \in Q
    BY <1>1, <1>3, <1>4, <1>6, <1>7
  <2>4. val.kind = "IRVAL_TEMP" => val.id \notin P
    <3> SUFFICES ASSUME val.kind = "IRVAL_TEMP", val.id \in P PROVE FALSE
      OBVIOUS
    <3>1. val = TEMP(val.id)
      BY <1>1, TempIs
    <3>2. PICK l \in 1..k - 1 : args[l] = TEMP(val.id)
      BY DEF TempsOf
    <3>3. l \in 1..n /\ l # k
      BY <1>1
    <3> QED
      BY <1>5, <3>1, <3>2, <3>3
  <2> HIDE DEF c, val, e, P, Q
  <2>5. Fit(val, c, Q, L)
    BY <2>1, <2>3, <2>4 DEF Fit, Continues
  <2>6. Building(e, v, D, (R \cup P) \cup Q, L) /\ Continues(c.code, e.code, v, Q)
    BY <2>1, <2>2, <2>3, <2>5, ArgPutAdded
  <2>7. Continues(b.code, e.code, v, P \cup Q)
    BY <2>1, <2>6, ContinuesMore
  <2>8. (R \cup P) \cup Q = R \cup U(k)
    BY <2>3
  <2> QED
    BY <2>2, <2>3, <2>6, <2>7, <2>8 DEF e
<1>10. n \in S
  <2> HIDE DEF S
  <2>1. n \in Nat /\ n \in 0..n
    BY <1>1
  <2> QED
    BY <1>8, <1>9, <2>1, InductionUpTo
<1> QED
  BY <1>2, <1>10 DEF n
-----------------------------------------------------------------------------
\* The temps an instruction or a terminator reads.
TempsRead(inst) == TempsOf(inst.args, Len(inst.args))
TempsDefined(inst) == {inst.dst} \ {NoTemp}

\* An instruction that can be lowered when b holds what has been lowered so far.
InstFits(inst, b, v, D, L) ==
  /\ inst.type # "IR_STORE" => inst.dst # NoTemp
  /\ TempsDefined(inst) \in SUBSET (0..v - 1) /\ inst.dst \notin D
  /\ inst.type = "IR_CALL" => Len(inst.args) <= 8 /\ Distinct(inst.args)
  /\ TempsRead(inst) \in SUBSET (0..v - 1) /\ AllFit(inst.args, b, TempsRead(inst), L)

LEMMA OpIs ==
  ASSUME NEW type \in InstTypes, type # "IR_CALL"
  PROVE  /\ OpOf[type] \in BodyOps \ {"LIRArgPut", "LIRCall"}
         /\ OpOf[type] = "LIRStore" <=> type = "IR_STORE"
BY DEF OpOf, InstTypes, BodyOps

LEMMA CallLowered ==
  ASSUME NEW b, NEW v, NEW D, NEW R, NEW L, NEW inst \in InstRecs,
         Building(b, v, D, R, L), InstFits(inst, b, v, D, L), inst.type = "IR_CALL"
  PROVE  LET c == lower_inst(b, inst) IN
         /\ Building(c, v, D \cup TempsDefined(inst), R \cup TempsRead(inst), L)
         /\ Continues(b.code, c.code, v, TempsRead(inst))
<1> DEFINE e == create_arg_puts(b, inst.args)
           x == LInst("LIRCall", e.num, inst.dst, <<>>, -1, e.uses)
           c == lower_inst(b, inst)
           U == TempsRead(inst)
           R3 == R \cup U
           D2 == D \cup TempsDefined(inst)
<1>1. /\ inst.args \in Seq(Values) /\ inst.dst \in Int /\ inst.dst # NoTemp
  BY DEF InstRecs, InstFits, NoTemp
<1>2. /\ Len(inst.args) <= 8 /\ Distinct(inst.args) /\ U \in SUBSET (0..v - 1)
      /\ AllFit(inst.args, b, U, L)
      /\ TempsDefined(inst) \in SUBSET (0..v - 1) /\ inst.dst \notin D
  BY DEF InstFits
<1>3. Building(e, v, D, R3, L) /\ Continues(b.code, e.code, v, U)
  BY <1>1, <1>2, ArgPutsAdded DEF TempsRead
<1>4. c = insert_instruction(e, "LIRCall", inst.dst, <<>>, -1, e.uses)
  BY DEF lower_inst
<1>5. x.op = "LIRCall" /\ x.def = inst.dst /\ x.uses = <<>>
  BY DEF LInst
<1> HIDE DEF e
<1>6. Inserted(e, c, x)
  <2>1. /\ "LIRCall" \in BodyOps /\ <<>> \in Seq(Int) /\ e.uses \in Seq(Int) /\ -1 \in Int
        /\ e \in Builders
    BY <1>3 DEF BodyOps, Building, Builders
  <2> QED
    BY <1>1, <1>4, <2>1, InsertIs
<1> HIDE DEF c, x
<1>7. /\ c \in Builders /\ x \in LInsts /\ c.code = Append(e.code, x) /\ c.vreg = e.vreg
  BY <1>6, BodyFits DEF Inserted
<1>8. UsedBy(x) = {} /\ FitsOp(x)
  BY <1>1, <1>5, UsedByNone DEF FitsOp, NoTemp, NoVReg
<1>9. /\ D2 \in SUBSET (0..v - 1) /\ D2 = D \cup ({x.def} \ {NoVReg}) /\ x.def \notin D
      /\ {} \in SUBSET (0..v - 1)
  <2>1. D \in SUBSET (0..v - 1)
    BY DEF Building, Lowered
  <2> QED
    BY <1>2, <1>5, <2>1 DEF TempsDefined, NoTemp, NoVReg
<1> HIDE DEF U, R3, D2
<1>10. /\ Lowered(Append(e.code, x), v, e.vreg, D2, R3 \cup {}, L)
       /\ Continues(e.code, Append(e.code, x), v, {})
  <2>1. \A u \in UsedBy(x) : Ready(e, u, v, {}, L)
    BY <1>8
  <2> QED
    BY <1>3, <1>7, <1>8, <1>9, <2>1, InstructionAdded
<1>11. Building(c, v, D2, R3, L)
  BY <1>7, <1>10 DEF Building
<1>12. Continues(b.code, c.code, v, U)
  <2>1. Continues(b.code, c.code, v, U \cup {})
    BY <1>3, <1>7, <1>10, ContinuesMore
  <2> QED
    BY <2>1
<1> QED
  BY <1>11, <1>12 DEF c, D2, R3, U

LEMMA OtherLowered ==
  ASSUME NEW b, NEW v, NEW D, NEW R, NEW L, NEW inst \in InstRecs,
         Building(b, v, D, R, L), InstFits(inst, b, v, D, L), inst.type # "IR_CALL"
  PROVE  LET c == lower_inst(b, inst) IN
         /\ Building(c, v, D \cup TempsDefined(inst), R \cup TempsRead(inst), L)
         /\ Continues(b.code, c.code, v, TempsRead(inst))
<1> DEFINE e == lower_operands(b, inst)
           op == OpOf[inst.type]
           x == LInst(op, e.num, inst.dst, e.uses, inst.slot, <<>>)
           c == lower_inst(b, inst)
           U == TempsRead(inst)
           D2 == D \cup TempsDefined(inst)
<1>1. /\ inst.args \in Seq(Values) /\ inst.dst \in Int /\ inst.slot \in Int
      /\ inst.type \in InstTypes
  BY DEF InstRecs, NoTemp, NoSlot
<1>2. /\ AllFit(inst.args, b, U, L) /\ U \in SUBSET (0..v - 1)
      /\ TempsDefined(inst) \in SUBSET (0..v - 1) /\ inst.dst \notin D
      /\ inst.type # "IR_STORE" => inst.dst # NoTemp
  BY DEF InstFits
<1>3. Building(e, v, D, R, L) /\ AllReady(e, v, U, L) /\ OnlyGives(b, e)
  <2>1. Len(inst.args) \in Nat /\ \A k \in 1..Len(inst.args) : inst.args[k] \in Values
    BY <1>1
  <2>2. \A k \in 1..Len(inst.args) : Valued(inst.args[k]) /\ Fit(inst.args[k], b, U, L)
    BY <1>2, <2>1, TempIs DEF AllFit
  <2> HIDE DEF U
  <2> QED
    BY <1>2, <2>1, <2>2, OperandsLowered
<1>4. c = insert_instruction(e, op, inst.dst, e.uses, inst.slot, <<>>)
  BY DEF lower_inst
<1>5. x.op = op /\ x.def = inst.dst /\ x.uses = e.uses
  BY DEF LInst
<1>6. op \in BodyOps \ {"LIRArgPut", "LIRCall"} /\ (op = "LIRStore" <=> inst.type = "IR_STORE")
  BY <1>1, OpIs
<1> HIDE DEF e, op
<1>7. Inserted(e, c, x)
  <2>1. /\ op \in BodyOps /\ <<>> \in Seq(Int) /\ e.uses \in Seq(Int) /\ e \in Builders
    BY <1>3, <1>6 DEF Building, Builders
  <2> QED
    BY <1>1, <1>4, <2>1, InsertIs
<1> HIDE DEF c, x
<1>8. /\ c \in Builders /\ x \in LInsts /\ c.code = Append(e.code, x) /\ c.vreg = e.vreg
  BY <1>7, BodyFits DEF Inserted
<1>9. FitsOp(x)
  BY <1>2, <1>5, <1>6 DEF FitsOp, NoTemp, NoVReg
<1>10. /\ D2 \in SUBSET (0..v - 1) /\ D2 = D \cup ({x.def} \ {NoVReg}) /\ x.def \notin D
  <2>1. D \in SUBSET (0..v - 1)
    BY DEF Building, Lowered
  <2> QED
    BY <1>2, <1>5, <2>1 DEF TempsDefined, NoTemp, NoVReg
<1>11. \A u \in UsedBy(x) : Ready(e, u, v, U, L)
  BY <1>3, <1>5, ReadyUses DEF Building, Builders
<1> HIDE DEF U, D2
<1>12. /\ Lowered(Append(e.code, x), v, e.vreg, D2, R \cup U, L)
       /\ Continues(e.code, Append(e.code, x), v, U)
  BY <1>2, <1>3, <1>8, <1>9, <1>10, <1>11, InstructionAdded
<1>13. Building(c, v, D2, R \cup U, L)
  BY <1>8, <1>12 DEF Building
<1>14. Continues(b.code, c.code, v, U)
  BY <1>3, <1>8, <1>12, GivesContinues
<1> QED
  BY <1>13, <1>14 DEF c, D2, U

LEMMA InstLowered ==
  ASSUME NEW b, NEW v, NEW D, NEW R, NEW L, NEW inst \in InstRecs,
         Building(b, v, D, R, L), InstFits(inst, b, v, D, L)
  PROVE  LET c == lower_inst(b, inst) IN
         /\ Building(c, v, D \cup TempsDefined(inst), R \cup TempsRead(inst), L)
         /\ Continues(b.code, c.code, v, TempsRead(inst))
BY CallLowered, OtherLowered
-----------------------------------------------------------------------------
LEMMA OperandsBuild ==
  ASSUME NEW b \in Builders, NEW inst, Len(inst.args) \in Nat,
         \A k \in 1..Len(inst.args) : Valued(inst.args[k])
  PROVE  lower_operands(b, inst) \in Builders
<1> DEFINE n == Len(inst.args)
<1>1. PICK f : /\ f[0] = [b EXCEPT !.uses = <<>>]
               /\ \A k \in 1..n : f[k] = lower_operand(f[k - 1], inst.args[k],
                                                       ImmForm(inst.type, k))
               /\ lower_operands(b, inst) = f[n]
  BY OperandsAre
<1> HIDE DEF n
<1> DEFINE S == {k \in 0..n : f[k] \in Builders}
<1>2. 0 \in S /\ n \in 0..n /\ n \in Nat
  <2>1. <<>> \in Seq(Int)
    OBVIOUS
  <2>2. [b EXCEPT !.uses = <<>>] \in Builders
    BY <2>1, UsesKept
  <2> QED
    BY <1>1, <2>2 DEF n
<1>3. ASSUME NEW k \in 1..n, k - 1 \in S PROVE k \in S
  <2>1. Valued(inst.args[k]) /\ k \in 0..n
    BY DEF n
  <2> QED
    BY <1>1, <1>3, <2>1, OperandBuilds
<1>4. n \in S
  <2> HIDE DEF S
  <2> QED
    BY <1>2, <1>3, InductionUpTo
<1> QED
  BY <1>1, <1>4

LEMMA ArgPutsBuild ==
  ASSUME NEW b \in Builders, NEW args, Len(args) \in Nat,
         \A k \in 1..Len(args) : Valued(args[k])
  PROVE  create_arg_puts(b, args) \in Builders
<1> DEFINE n == Len(args)
<1>1. PICK f : /\ f[0] = [b EXCEPT !.uses = <<>>]
               /\ \A k \in 1..n : f[k] = create_arg_put(f[k - 1], k, args[k])
               /\ create_arg_puts(b, args) = f[n]
  BY ArgPutsAre
<1> HIDE DEF n
<1> DEFINE S == {k \in 0..n : f[k] \in Builders}
<1>2. 0 \in S /\ n \in 0..n /\ n \in Nat
  <2>1. <<>> \in Seq(Int)
    OBVIOUS
  <2>2. [b EXCEPT !.uses = <<>>] \in Builders
    BY <2>1, UsesKept
  <2> QED
    BY <1>1, <2>2 DEF n
<1>3. ASSUME NEW k \in 1..n, k - 1 \in S PROVE k \in S
  <2>1. Valued(args[k]) /\ k \in 0..n /\ k \in Nat \ {0} /\ f[k - 1] \in Builders
    BY <1>3 DEF n
  <2>2. f[k] = create_arg_put(f[k - 1], k, args[k])
    BY <1>1
  <2>3. create_arg_put(f[k - 1], k, args[k]) \in Builders
    BY <2>1, ArgPutBuilds
  <2> QED
    BY <2>1, <2>2, <2>3
<1>4. n \in S
  <2> HIDE DEF S
  <2> QED
    BY <1>2, <1>3, InductionUpTo
<1> QED
  BY <1>1, <1>4

LEMMA InstBuilds ==
  ASSUME NEW b \in Builders, NEW inst \in InstRecs
  PROVE  lower_inst(b, inst) \in Builders
<1>1. /\ inst.args \in Seq(Values) /\ inst.dst \in Int /\ inst.slot \in Int
      /\ inst.type \in InstTypes
  BY DEF InstRecs, NoTemp, NoSlot
<1>2. Len(inst.args) \in Nat /\ \A k \in 1..Len(inst.args) : Valued(inst.args[k])
  BY <1>1, TempIs
<1>3. <<>> \in Seq(Int) /\ -1 \in Int /\ "LIRCall" \in BodyOps
  BY DEF BodyOps
<1>4. CASE inst.type = "IR_CALL"
  <2> DEFINE e == create_arg_puts(b, inst.args)
             x == LInst("LIRCall", e.num, inst.dst, <<>>, -1, e.uses)
             c == lower_inst(b, inst)
  <2>1. c = insert_instruction(e, "LIRCall", inst.dst, <<>>, -1, e.uses)
    BY <1>4 DEF lower_inst
  <2>2. e \in Builders /\ e.uses \in Seq(Int)
    BY <1>2, ArgPutsBuild DEF Builders
  <2> HIDE DEF e, c
  <2>3. Inserted(e, c, x)
    BY <1>1, <1>3, <2>1, <2>2, InsertIs
  <2> QED
    BY <2>3 DEF Inserted, c
<1>5. CASE inst.type # "IR_CALL"
  <2> DEFINE e == lower_operands(b, inst)
             op == OpOf[inst.type]
             x == LInst(op, e.num, inst.dst, e.uses, inst.slot, <<>>)
             c == lower_inst(b, inst)
  <2>1. c = insert_instruction(e, op, inst.dst, e.uses, inst.slot, <<>>)
    BY <1>5 DEF lower_inst
  <2>2. e \in Builders /\ e.uses \in Seq(Int) /\ op \in BodyOps
    BY <1>1, <1>2, <1>5, OperandsBuild, OpIs DEF Builders
  <2> HIDE DEF e, op, c
  <2>3. Inserted(e, c, x)
    BY <1>1, <1>3, <2>1, <2>2, InsertIs
  <2> QED
    BY <2>3 DEF Inserted, c
<1> QED
  BY <1>4, <1>5
-----------------------------------------------------------------------------
\* The builder after each instruction of a block.
InstsAlong(f, b, insts) ==
  f = [n \in 0..Len(insts) |-> IF n = 0 THEN [b EXCEPT !.code = <<>>]
                               ELSE lower_inst(f[n - 1], insts[n])]

\* What lower_block makes of it.
BlockOf(d, term) ==
  [block |-> [insts |-> d.code,
              term  |-> LInst(OpOf[term.type], d.num, NoVReg, d.uses, -1, <<>>),
              succs |-> term.to],
   builder |-> [d EXCEPT !.num = @ + 2]]

\* f is the builder after each instruction, from the first to the terminator.
InstsLeadTo(f, b, blk) ==
  /\ f[0] = [b EXCEPT !.code = <<>>]
  /\ \A k \in 1..Len(blk.insts) : f[k] = lower_inst(f[k - 1], blk.insts[k])
  /\ f[Len(blk.insts)] \in Builders
  /\ lower_block(b, blk) = BlockOf(lower_operands(f[Len(blk.insts)], blk.term), blk.term)

LEMMA InstsGoAlong ==
  ASSUME NEW b \in Builders, NEW blk \in BlockRecs
  PROVE  \E f : InstsLeadTo(f, b, blk)
<1> DEFINE n == Len(blk.insts)
           x == [b EXCEPT !.code = <<>>]
           step == [k \in 1..n |-> [y \in Builders |-> lower_inst(y, blk.insts[k])]]
           h == CHOOSE f : InstsAlong(f, b, blk.insts)
<1>1. x \in Builders /\ n \in Nat /\ \A k \in 1..n : blk.insts[k] \in InstRecs
  <2>1. blk.insts \in Seq(InstRecs) /\ <<>> \in Seq(BodyInsts)
    BY DEF BlockRecs
  <2>2. x \in Builders
    BY <2>1 DEF Builders
  <2> QED
    BY <2>1, <2>2
<1>2. step \in [1..n -> [Builders -> Builders]]
  BY <1>1, InstBuilds
<1>3. PICK g \in [0..n -> Builders] : g[0] = x /\ \A k \in 1..n : g[k] = step[k][g[k - 1]]
  <2> HIDE DEF x, step, n
  <2>1. \E g : RecursiveTo(g, n, Builders, x, step)
    BY <1>1, <1>2, RecursionUpTo
  <2> QED
    BY <2>1 DEF RecursiveTo
<1>4. \A k \in 1..n : k - 1 \in 0..n /\ g[k - 1] \in Builders
  BY <1>1, <1>3
<1>5. g = [k \in 0..n |-> IF k = 0 THEN x ELSE lower_inst(g[k - 1], blk.insts[k])]
  <2>1. \A k \in 0..n : k # 0 => k \in 1..n
    BY <1>1
  <2> HIDE DEF x, n
  <2>2. \A k \in 1..n : g[k] = lower_inst(g[k - 1], blk.insts[k])
    BY <1>3, <1>4
  <2> QED
    BY <1>3, <2>1, <2>2
<1>6. InstsAlong(g, b, blk.insts)
  BY <1>5 DEF InstsAlong
<1>7. InstsAlong(h, b, blk.insts)
  BY <1>6
<1>8. lower_block(b, blk) = BlockOf(lower_operands(h[n], blk.term), blk.term)
  BY DEF lower_block, InstsAlong, BlockOf
<1> HIDE DEF h, step
<1>9. \A k \in 0..n : h[k] = IF k = 0 THEN x ELSE lower_inst(h[k - 1], blk.insts[k])
  BY Zenon, <1>7 DEF InstsAlong
<1> HIDE DEF x, n
<1>10. h[0] = x /\ \A k \in 1..n : h[k] = lower_inst(h[k - 1], blk.insts[k])
  BY <1>1, <1>9
<1>11. h[n] \in Builders
  <2> DEFINE S == {k \in 0..n : h[k] \in Builders}
  <2>1. 0 \in S /\ n \in 0..n
    BY <1>1, <1>10
  <2>2. ASSUME NEW k \in 1..n, k - 1 \in S PROVE k \in S
    <3>1. blk.insts[k] \in InstRecs /\ k \in 0..n
      BY <1>1
    <3> QED
      BY <1>10, <2>2, <3>1, InstBuilds
  <2> HIDE DEF S
  <2>3. n \in S
    BY <1>1, <2>1, <2>2, InductionUpTo
  <2> QED
    BY <2>3 DEF S
<1>12. InstsLeadTo(h, b, blk)
  BY <1>8, <1>10, <1>11 DEF InstsLeadTo, x, n
<1> QED
  BY <1>12
-----------------------------------------------------------------------------
\* The temps that the first n instructions of a block define and read.
DefsUpTo(blk, n)  == UNION {TempsDefined(blk.insts[i]) : i \in 1..n}
ReadsUpTo(blk, n) == UNION {TempsRead(blk.insts[i]) : i \in 1..n}
ReadsIn(blk)      == ReadsUpTo(blk, Len(blk.insts)) \cup TempsRead(blk.term)

\* A block that can be lowered, with temps below v.
BlockFits(blk, v, L) ==
  /\ \A i \in 1..Len(blk.insts) :
       /\ blk.insts[i].type # "IR_STORE" => blk.insts[i].dst # NoTemp
       /\ TempsDefined(blk.insts[i]) \in SUBSET (0..v - 1)
       /\ blk.insts[i].type = "IR_CALL"
            => Len(blk.insts[i].args) <= 8 /\ Distinct(blk.insts[i].args)
       /\ TempsRead(blk.insts[i]) \in SUBSET (0..v - 1)
       /\ \A t \in TempsRead(blk.insts[i]) : t \notin TempsRead(blk.term)
  /\ \A i, j \in 1..Len(blk.insts) :
       /\ blk.insts[i].dst = blk.insts[j].dst => i = j \/ blk.insts[i].dst = NoTemp
       /\ \A t \in TempsRead(blk.insts[i]) : t \in TempsRead(blk.insts[j]) => i = j
  /\ TempsRead(blk.term) \in SUBSET (0..v - 1)
  /\ blk.term.type # "IR_UNDEFINED"
  /\ L => BlockLocal(blk)

LEMMA UpToGrows ==
  ASSUME NEW blk, NEW k \in Nat \ {0}
  PROVE  /\ DefsUpTo(blk, k) = DefsUpTo(blk, k - 1) \cup TempsDefined(blk.insts[k])
         /\ ReadsUpTo(blk, k) = ReadsUpTo(blk, k - 1) \cup TempsRead(blk.insts[k])
<1>1. \A i : i \in 1..k <=> i \in 1..k - 1 \/ i = k
  OBVIOUS
<1> QED
  BY <1>1 DEF DefsUpTo, ReadsUpTo

\* Arguments that nothing has read, and which are there, can be operands.
LEMMA ArgsFit ==
  ASSUME NEW b, NEW v, NEW D, NEW R, NEW L, NEW args \in Seq(Values), Building(b, v, D, R, L),
         NEW U, U = TempsOf(args, Len(args)), U \in SUBSET (0..v - 1),
         \A t \in U : t \notin R,
         L => \A k \in 1..Len(args) : args[k].kind = "IRVAL_TEMP" => args[k].id \in D
  PROVE  AllFit(args, b, U, L)
<1> SUFFICES ASSUME NEW k \in 1..Len(args), args[k].kind = "IRVAL_TEMP"
             PROVE  /\ args[k].id \in U /\ ~Taken(b.code, args[k].id)
                    /\ L => Given(b.code, Len(b.code), args[k].id)
  BY DEF AllFit, Fit
<1>1. /\ v \in Nat /\ b.vreg \in Nat
      /\ \A i \in 1..Len(b.code) : UsedBy(b.code[i]) \subseteq R \cup v..b.vreg - 1
      /\ \A u \in D \cup v..b.vreg - 1 : Given(b.code, Len(b.code), u)
  BY DEF Building, Lowered
<1>2. args[k] \in Values
  OBVIOUS
<1>3. args[k].id \in Nat /\ args[k] = TEMP(args[k].id)
  BY <1>2, TempIs
<1>4. args[k].id \in U
  BY <1>3 DEF TempsOf
<1>5. args[k].id \notin R \cup v..b.vreg - 1
  BY <1>1, <1>4
<1>6. ~Taken(b.code, args[k].id)
  BY <1>1, <1>5 DEF Taken
<1> QED
  BY <1>1, <1>4, <1>6

LEMMA NothingLowered ==
  ASSUME NEW b \in Builders, NEW L
  PROVE  Building([b EXCEPT !.code = <<>>], b.vreg, {}, {}, L)
<1> DEFINE c == [b EXCEPT !.code = <<>>]
<1>1. <<>> \in Seq(BodyInsts) /\ <<>> \in Seq(LInsts) /\ Len(<<>>) = 0
  OBVIOUS
<1>2. c \in Builders /\ c.code = <<>> /\ c.vreg = b.vreg /\ b.vreg \in Nat
  BY <1>1 DEF Builders
<1> HIDE DEF c
<1>3. b.vreg..b.vreg - 1 = {} /\ 1..0 = {}
  BY <1>2
<1>4. Lowered(<<>>, b.vreg, b.vreg, {}, {}, L)
  BY <1>1, <1>2, <1>3 DEF Lowered
<1> QED
  BY <1>2, <1>4 DEF Building, c

\* The instructions of a block.
LEMMA BlockBuilds ==
  ASSUME NEW b \in Builders, NEW blk \in BlockRecs, NEW L, BlockFits(blk, b.vreg, L),
         NEW f, InstsLeadTo(f, b, blk), NEW n, n = Len(blk.insts)
  PROVE  Building(f[n], b.vreg, DefsUpTo(blk, n), ReadsUpTo(blk, n), L)
<1> DEFINE v == b.vreg
           S == {k \in 0..n : Building(f[k], v, DefsUpTo(blk, k), ReadsUpTo(blk, k), L)}
<1>1. /\ f[0] = [b EXCEPT !.code = <<>>]
      /\ \A k \in 1..n : f[k] = lower_inst(f[k - 1], blk.insts[k])
      /\ blk.insts \in Seq(InstRecs) /\ n \in Nat
  BY DEF InstsLeadTo, BlockRecs
<1>2. 0 \in S /\ n \in 0..n
  <2>1. DefsUpTo(blk, 0) = {} /\ ReadsUpTo(blk, 0) = {}
    BY DEF DefsUpTo, ReadsUpTo
  <2>2. Building(f[0], b.vreg, {}, {}, L)
    BY <1>1, NothingLowered
  <2>3. 0 \in 0..n /\ n \in 0..n
    BY <1>1
  <2> QED
    BY <2>1, <2>2, <2>3
<1>3. ASSUME NEW k \in 1..n, k - 1 \in S PROVE k \in S
  <2> DEFINE inst == blk.insts[k]
             D == DefsUpTo(blk, k - 1)
             R == ReadsUpTo(blk, k - 1)
             c == f[k - 1]
  <2>1. inst \in InstRecs /\ inst.args \in Seq(Values) /\ inst.dst \in {NoTemp} \cup Nat
    <3>1. inst \in InstRecs
      BY <1>1
    <3> HIDE DEF inst
    <3> QED
      BY <3>1 DEF InstRecs
  <2>2. Building(c, v, D, R, L)
    BY <1>3
  <2>3. /\ inst.type # "IR_STORE" => inst.dst # NoTemp
        /\ TempsDefined(inst) \in SUBSET (0..v - 1)
        /\ inst.type = "IR_CALL" => Len(inst.args) <= 8 /\ Distinct(inst.args)
        /\ TempsRead(inst) \in SUBSET (0..v - 1)
        /\ \A i \in 1..k - 1 : i \in 1..n /\ i # k
    BY DEF BlockFits
  <2>4. inst.dst \notin D
    <3>1. \A i \in 1..k - 1 : blk.insts[i].dst = inst.dst => inst.dst = NoTemp
      BY <2>3 DEF BlockFits
    <3> HIDE DEF inst
    <3> QED
      BY <3>1 DEF DefsUpTo, TempsDefined
  <2>5. \A t \in TempsRead(inst) : t \notin R
    <3>1. \A i \in 1..k - 1 : \A t \in TempsRead(blk.insts[i]) : t \notin TempsRead(inst)
      BY <2>3 DEF BlockFits
    <3> QED
      BY <3>1 DEF ReadsUpTo
  <2>6. L => \A l \in 1..Len(inst.args) :
               inst.args[l].kind = "IRVAL_TEMP" => inst.args[l].id \in D
    <3> SUFFICES ASSUME L, NEW l \in 1..Len(inst.args), inst.args[l].kind = "IRVAL_TEMP"
                 PROVE  inst.args[l].id \in D
      OBVIOUS
    <3>1. Local(inst.args[l], blk.insts, k - 1)
      BY DEF BlockFits, BlockLocal
    <3>2. PICK i \in 1..k - 1 : blk.insts[i].dst = inst.args[l].id
      BY <3>1 DEF Local
    <3>3. inst.args[l] \in Values
      BY <2>1
    <3>4. inst.args[l].id \in Nat
      BY <3>3, TempIs
    <3> HIDE DEF inst
    <3> QED
      <4>1. inst.args[l].id \in TempsDefined(blk.insts[i])
        BY <3>2, <3>4 DEF TempsDefined, NoTemp
      <4> QED
        BY <4>1 DEF DefsUpTo
  <2>7. AllFit(inst.args, c, TempsRead(inst), L)
    <3> HIDE DEF inst, c, D, R, v
    <3> QED
      BY <2>1, <2>2, <2>3, <2>5, <2>6, ArgsFit DEF TempsRead
  <2>8. InstFits(inst, c, v, D, L)
    BY <2>3, <2>4, <2>7 DEF InstFits
  <2>9. Building(lower_inst(c, inst), v, D \cup TempsDefined(inst), R \cup TempsRead(inst), L)
    <3> HIDE DEF inst, c, D, R, v
    <3> QED
      BY <2>1, <2>2, <2>8, InstLowered
  <2>10. f[k] = lower_inst(c, inst) /\ k \in 0..n /\ k \in Nat \ {0}
    BY <1>1
  <2>11. /\ DefsUpTo(blk, k) = D \cup TempsDefined(inst)
         /\ ReadsUpTo(blk, k) = R \cup TempsRead(inst)
    BY <2>10, UpToGrows
  <2> HIDE DEF inst, c, D, R, v
  <2> QED
    BY <2>9, <2>10, <2>11
<1> HIDE DEF S
<1>4. n \in S
  BY <1>1, <1>2, <1>3, InductionUpTo
<1> QED
  BY <1>4 DEF S
-----------------------------------------------------------------------------
LEMMA TermOpIs ==
  ASSUME NEW type \in TermTypes, type # "IR_UNDEFINED"
  PROVE  OpOf[type] \in TermOps
BY DEF OpOf, TermTypes, TermOps

LEMMA TermAdded ==
  ASSUME NEW v, NEW D, NEW R, NEW L, NEW c, NEW term \in TermRecs, term.type # "IR_UNDEFINED",
         Building(c, v, D, R, L), TempsRead(term) \in SUBSET (0..v - 1),
         AllFit(term.args, c, TempsRead(term), L)
  PROVE  LET d == lower_operands(c, term)
             x == LInst(OpOf[term.type], d.num, NoVReg, d.uses, -1, <<>>) IN
         /\ d \in Builders /\ x \in LInsts /\ x.def = NoVReg /\ x.op \in TermOps
         /\ Lowered(Append(d.code, x), v, d.vreg, D, R \cup TempsRead(term), L)
<1> DEFINE d == lower_operands(c, term)
           x == LInst(OpOf[term.type], d.num, NoVReg, d.uses, -1, <<>>)
           U == TempsRead(term)
<1>1. /\ term.args \in Seq(Values) /\ term.type \in TermTypes
      /\ Len(term.args) \in Nat /\ \A k \in 1..Len(term.args) : term.args[k] \in Values
  BY DEF TermRecs
<1>2. /\ U \in SUBSET (0..v - 1)
      /\ \A k \in 1..Len(term.args) : Valued(term.args[k]) /\ Fit(term.args[k], c, U, L)
  BY <1>1, TempIs DEF AllFit
<1>3. Building(d, v, D, R, L) /\ AllReady(d, v, U, L)
  <2> HIDE DEF U
  <2> QED
    BY <1>1, <1>2, OperandsLowered
<1>4. /\ x.op = OpOf[term.type] /\ x.num = d.num /\ x.def = NoVReg /\ x.uses = d.uses
      /\ OpOf[term.type] \in TermOps
  BY <1>1, TermOpIs DEF LInst
<1>5. d \in Builders /\ d.num \in Nat /\ d.uses \in Seq(Int)
  BY <1>3 DEF Building, Builders
<1>6. x \in LInsts
  <2>1. NoVReg \in Int /\ -1 \in Int /\ <<>> \in Seq(Int)
    BY DEF NoVReg
  <2>2. OpOf[term.type] \in BodyOps \cup TermOps
    BY <1>4
  <2> HIDE DEF d
  <2> QED
    BY <1>5, <2>1, <2>2 DEF LInsts, LInst
<1>7. FitsOp(x)
  BY <1>4 DEF FitsOp, TermOps
<1> HIDE DEF d, x
<1>8. \A u \in UsedBy(x) : Ready(d, u, v, U, L)
  BY <1>3, <1>4, <1>5, ReadyUses
<1>9. D \in SUBSET (0..v - 1) /\ D = D \cup ({x.def} \ {NoVReg}) /\ x.def \notin D
  BY <1>3, <1>4 DEF Building, Lowered, NoVReg
<1> HIDE DEF U
<1>10. Lowered(Append(d.code, x), v, d.vreg, D, R \cup U, L)
  BY <1>3, <1>6, <1>7, <1>8, <1>9, InstructionAdded DEF U
<1> QED
  BY <1>4, <1>5, <1>6, <1>10 DEF d, x, U

\* What becomes of a block.
BlockLIR(r, b, blk, L) ==
  /\ r.builder \in Builders
  /\ r.block.insts \in Seq(BodyInsts)
  /\ r.block.term \in LInsts /\ r.block.term.def = NoVReg /\ r.block.term.op \in TermOps
  /\ r.block.succs = blk.term.to
  /\ Lowered(Append(r.block.insts, r.block.term), b.vreg, r.builder.vreg,
             DefsUpTo(blk, Len(blk.insts)), ReadsIn(blk), L)

LEMMA BlockLowered ==
  ASSUME NEW b \in Builders, NEW blk \in BlockRecs, NEW L, BlockFits(blk, b.vreg, L)
  PROVE  BlockLIR(lower_block(b, blk), b, blk, L)
<1> DEFINE n == Len(blk.insts)
           term == blk.term
           v == b.vreg
           D == DefsUpTo(blk, n)
           R == ReadsUpTo(blk, n)
<1>1. PICK f : InstsLeadTo(f, b, blk)
  BY InstsGoAlong
<1>2. Building(f[n], v, D, R, L)
  BY <1>1, BlockBuilds
<1>3. /\ term \in TermRecs /\ term.args \in Seq(Values) /\ term.type # "IR_UNDEFINED"
      /\ TempsRead(term) \in SUBSET (0..v - 1)
  <2>1. term \in TermRecs
    BY DEF BlockRecs
  <2> QED
    BY <2>1 DEF TermRecs, BlockFits
<1>4. \A t \in TempsRead(term) : t \notin R
  BY DEF BlockFits, ReadsUpTo
<1>5. L => \A k \in 1..Len(term.args) : term.args[k].kind = "IRVAL_TEMP" => term.args[k].id \in D
  <2> SUFFICES ASSUME L, NEW k \in 1..Len(term.args), term.args[k].kind = "IRVAL_TEMP"
               PROVE  term.args[k].id \in D
    OBVIOUS
  <2>1. Local(term.args[k], blk.insts, n)
    BY DEF BlockFits, BlockLocal
  <2>2. PICK i \in 1..n : blk.insts[i].dst = term.args[k].id
    BY <2>1 DEF Local
  <2>3. term.args[k] \in Values
    BY <1>3
  <2>4. term.args[k].id \in Nat
    BY <2>3, TempIs
  <2> HIDE DEF term, n
  <2> QED
    BY <2>2, <2>4 DEF DefsUpTo, TempsDefined, NoTemp
<1> DEFINE c == f[n]
           d == lower_operands(c, term)
           x == LInst(OpOf[term.type], d.num, NoVReg, d.uses, -1, <<>>)
<1>6. AllFit(term.args, c, TempsRead(term), L)
  <2> HIDE DEF c, D, R, v, term
  <2> QED
    BY <1>2, <1>3, <1>4, <1>5, ArgsFit DEF TempsRead, c
<1>7. /\ d \in Builders /\ x \in LInsts /\ x.def = NoVReg /\ x.op \in TermOps
      /\ Lowered(Append(d.code, x), v, d.vreg, D, R \cup TempsRead(term), L)
  <2> HIDE DEF c, D, R, v, term
  <2> QED
    BY <1>2, <1>3, <1>6, TermAdded DEF c
<1>8. lower_block(b, blk) = BlockOf(d, term)
  BY <1>1 DEF InstsLeadTo
<1> DEFINE r == BlockOf(d, term)
<1>9. /\ r.block.insts = d.code /\ r.block.term = x /\ r.block.succs = term.to
      /\ r.builder = [d EXCEPT !.num = @ + 2]
  BY DEF BlockOf
<1> HIDE DEF d, x, r
<1>10. r.builder \in Builders /\ r.builder.vreg = d.vreg /\ d.code \in Seq(BodyInsts)
  <2>1. d.num + 2 \in Nat
    BY <1>7 DEF Builders
  <2> QED
    BY <1>7, <1>9, <2>1 DEF Builders
<1>11. BlockLIR(r, b, blk, L)
  BY <1>7, <1>9, <1>10 DEF BlockLIR, ReadsIn
<1> QED
  BY <1>8, <1>11 DEF r
-----------------------------------------------------------------------------
\* A function whose blocks can be lowered: no temp is defined or read in two.
FunctionFits(bs, temps, L) ==
  /\ bs \in Seq(BlockRecs) /\ temps \in Nat
  /\ \A b \in 1..Len(bs) : BlockFits(bs[b], temps, L)
  /\ \A b, c \in 1..Len(bs) :
       b # c => /\ \A t \in DefsUpTo(bs[b], Len(bs[b].insts)) :
                     t \notin DefsUpTo(bs[c], Len(bs[c].insts))
                /\ \A t \in ReadsIn(bs[b]) : t \notin ReadsIn(bs[c])

LBlocks == [insts : Seq(BodyInsts), term : LInsts, succs : Seq(Nat)]
States(temps) == {x \in [blocks : Seq(LBlocks), builder : Builders] : x.builder.vreg >= temps}

After(x, blk) ==
  LET r == lower_block(x.builder, blk) IN
  [blocks |-> Append(x.blocks, r.block), builder |-> r.builder]

LEMMA FitsAbove ==
  ASSUME NEW blk, NEW temps \in Nat, NEW v \in Nat, temps <= v, NEW L, BlockFits(blk, temps, L)
  PROVE  BlockFits(blk, v, L)
<1>1. 0..temps - 1 \subseteq 0..v - 1
  OBVIOUS
<1> QED
  BY <1>1 DEF BlockFits

\* One more block.
LEMMA StateAfter ==
  ASSUME NEW temps \in Nat, NEW L, NEW x \in States(temps), NEW blk \in BlockRecs,
         BlockFits(blk, temps, L)
  PROVE  LET r == lower_block(x.builder, blk)
             y == After(x, blk) IN
         /\ y \in States(temps) /\ BlockLIR(r, x.builder, blk, L)
         /\ y.blocks = Append(x.blocks, r.block) /\ y.builder = r.builder
         /\ r.block \in LBlocks /\ x.builder.vreg <= r.builder.vreg
<1> DEFINE r == lower_block(x.builder, blk)
           y == After(x, blk)
<1>1. /\ x.builder \in Builders /\ x.blocks \in Seq(LBlocks) /\ x.builder.vreg \in Nat
      /\ temps <= x.builder.vreg
  BY DEF States, Builders
<1>2. BlockLIR(r, x.builder, blk, L)
  BY <1>1, FitsAbove, BlockLowered
<1>3. y.blocks = Append(x.blocks, r.block) /\ y.builder = r.builder
      /\ y = [blocks |-> Append(x.blocks, r.block), builder |-> r.builder]
  BY DEF After
<1>4. r.block = [insts |-> r.block.insts, term |-> r.block.term, succs |-> r.block.succs]
  BY DEF lower_block
<1> HIDE DEF r, y
<1>5. blk.term.to \in Seq(Nat)
  BY DEF BlockRecs, TermRecs
<1>6. r.block \in LBlocks /\ r.builder \in Builders /\ r.builder.vreg \in Nat
  BY <1>2, <1>4, <1>5 DEF BlockLIR, LBlocks, Builders
<1>7. x.builder.vreg <= r.builder.vreg
  BY <1>2 DEF BlockLIR, Lowered
<1>8. Append(x.blocks, r.block) \in Seq(LBlocks)
  BY <1>1, <1>6
<1>9. y \in States(temps)
  BY <1>1, <1>3, <1>6, <1>7, <1>8 DEF States
<1> QED
  BY <1>2, <1>3, <1>6, <1>7, <1>9 DEF r, y
-----------------------------------------------------------------------------
BlocksAlong(f, bs, temps) ==
  f = [n \in 0..Len(bs) |->
         IF n = 0 THEN [blocks |-> <<>>, builder |-> Builder(temps, 0)]
         ELSE After(f[n - 1], bs[n])]

\* f is what there is after each block.
BlocksLeadTo(f, bs, temps) ==
  /\ f[0] = [blocks |-> <<>>, builder |-> Builder(temps, 0)]
  /\ \A k \in 1..Len(bs) : f[k] = After(f[k - 1], bs[k])
  /\ \A k \in 0..Len(bs) : f[k] \in States(temps)
  /\ lower_mir_to_lir(bs, temps)
       = [blocks |-> f[Len(bs)].blocks, next_vreg |-> f[Len(bs)].builder.vreg]

LEMMA BlocksGoAlong ==
  ASSUME NEW bs, NEW temps, NEW L, FunctionFits(bs, temps, L)
  PROVE  \E f : BlocksLeadTo(f, bs, temps)
<1> DEFINE n == Len(bs)
           X == States(temps)
           x == [blocks |-> <<>>, builder |-> Builder(temps, 0)]
           step == [k \in 1..n |-> [y \in X |-> After(y, bs[k])]]
           h == CHOOSE f : BlocksAlong(f, bs, temps)
<1>1. x \in X /\ n \in Nat /\ temps \in Nat
      /\ \A k \in 1..n : bs[k] \in BlockRecs /\ BlockFits(bs[k], temps, L)
  <2>1. bs \in Seq(BlockRecs) /\ temps \in Nat
    BY DEF FunctionFits
  <2>2. <<>> \in Seq(BodyInsts) /\ <<>> \in Seq(Int) /\ <<>> \in Seq(LBlocks) /\ 0 \in Nat
    OBVIOUS
  <2>3. Builder(temps, 0) \in Builders /\ Builder(temps, 0).vreg = temps
    BY <2>1, <2>2 DEF Builder, Builders
  <2>4. x \in X
    BY <2>1, <2>2, <2>3 DEF States
  <2> QED
    BY <2>1, <2>4 DEF FunctionFits
<1>2. \A k \in 1..n : \A y \in X : After(y, bs[k]) \in X
  BY <1>1, StateAfter
<1>3. step \in [1..n -> [X -> X]]
  BY <1>2
<1>4. PICK g \in [0..n -> X] : g[0] = x /\ \A k \in 1..n : g[k] = step[k][g[k - 1]]
  <2> HIDE DEF x, step, n, X
  <2>1. \E g : RecursiveTo(g, n, X, x, step)
    BY <1>1, <1>3, RecursionUpTo
  <2> QED
    BY <2>1 DEF RecursiveTo
<1>5. \A k \in 1..n : k - 1 \in 0..n /\ g[k - 1] \in X
  BY <1>1, <1>4
<1>6. g = [k \in 0..n |-> IF k = 0 THEN x ELSE After(g[k - 1], bs[k])]
  <2>1. \A k \in 0..n : k # 0 => k \in 1..n
    BY <1>1
  <2> HIDE DEF x, n, X
  <2>2. \A k \in 1..n : g[k] = After(g[k - 1], bs[k])
    BY <1>4, <1>5
  <2> QED
    BY <1>4, <2>1, <2>2
<1>7. BlocksAlong(g, bs, temps)
  BY <1>6 DEF BlocksAlong
<1>8. BlocksAlong(h, bs, temps)
  BY <1>7
<1>9. lower_mir_to_lir(bs, temps) = [blocks |-> h[n].blocks, next_vreg |-> h[n].builder.vreg]
  BY DEF lower_mir_to_lir, BlocksAlong, After
<1> HIDE DEF h, step
<1>10. \A k \in 0..n : h[k] = IF k = 0 THEN x ELSE After(h[k - 1], bs[k])
  BY Zenon, <1>8 DEF BlocksAlong
<1> HIDE DEF x, n, X
<1>11. h[0] = x /\ \A k \in 1..n : h[k] = After(h[k - 1], bs[k])
  BY <1>1, <1>10
<1>12. \A k \in 0..n : h[k] \in X
  <2> DEFINE S == {k \in 0..n : h[k] \in X}
  <2>1. 0 \in S /\ n \in 0..n
    BY <1>1, <1>11
  <2>2. ASSUME NEW k \in 1..n, k - 1 \in S PROVE k \in S
    <3>1. k \in 0..n /\ h[k - 1] \in X
      BY <2>2, <1>1
    <3> QED
      BY <1>2, <1>11, <3>1
  <2> HIDE DEF S
  <2>3. \A k \in 0..n : k \in S
    BY <1>1, <2>1, <2>2, InductionUpTo
  <2> QED
    BY <2>3 DEF S
<1>13. BlocksLeadTo(h, bs, temps)
  BY <1>9, <1>11, <1>12 DEF BlocksLeadTo, x, n, X
<1> QED
  BY <1>13
-----------------------------------------------------------------------------
CodeOf(code, b) == Append(code.blocks[b].insts, code.blocks[b].term)

\* What the code of a function promises those who come after: every vreg is
\* one of the function's, is defined once and read in one place.  If L then
\* what is read has been defined further up in the same block.
LIRFits(code, L) ==
  /\ code.blocks \in Seq(LBlocks) /\ code.next_vreg \in Nat /\ Len(code.blocks) \in Nat \ {0}
  /\ \A b \in 1..Len(code.blocks) :
       /\ code.blocks[b].term.def = NoVReg /\ code.blocks[b].term.op \in TermOps
       /\ \A k \in 1..Len(code.blocks[b].succs) :
            code.blocks[b].succs[k] \in 1..Len(code.blocks)
       /\ \A i \in 1..Len(CodeOf(code, b)) :
            /\ FitsOp(CodeOf(code, b)[i])
            /\ CodeOf(code, b)[i].def \in {NoVReg} \cup VRegsOf(code)
            /\ UsedBy(CodeOf(code, b)[i]) \subseteq VRegsOf(code)
            /\ L => \A u \in UsedBy(CodeOf(code, b)[i]) : Given(CodeOf(code, b), i - 1, u)
  /\ \A b, c \in 1..Len(code.blocks) :
       \A i \in 1..Len(CodeOf(code, b)), j \in 1..Len(CodeOf(code, c)) :
         /\ CodeOf(code, b)[i].def = CodeOf(code, c)[j].def
              => (b = c /\ i = j) \/ CodeOf(code, b)[i].def = NoVReg
         /\ \A u \in UsedBy(CodeOf(code, b)[i]) :
              u \in UsedBy(CodeOf(code, c)[j]) => b = c /\ i = j

\* Block b of the code, lowered from blk between builders with vregs v and w.
Lowers(lblk, blk, v, w, L) ==
  /\ lblk.insts \in Seq(BodyInsts) /\ lblk.term \in LInsts /\ lblk.term.def = NoVReg
  /\ lblk.term.op \in TermOps /\ lblk.succs = blk.term.to
  /\ Lowered(Append(lblk.insts, lblk.term), v, w, DefsUpTo(blk, Len(blk.insts)),
             ReadsIn(blk), L)

\* The states grow, and with them the code.
LEMMA BlocksLowered ==
  ASSUME NEW bs, NEW temps, NEW L, FunctionFits(bs, temps, L), NEW f,
         BlocksLeadTo(f, bs, temps), NEW n, n = Len(bs)
  PROVE  /\ Len(f[n].blocks) = n
         /\ \A b \in 1..n : Lowers(f[n].blocks[b], bs[b], f[b - 1].builder.vreg,
                                   f[b].builder.vreg, L)
         /\ \A b, c \in 0..n : b <= c => f[b].builder.vreg <= f[c].builder.vreg
<1> DEFINE v(k) == f[k].builder.vreg
           P(k) == /\ Len(f[k].blocks) = k
                   /\ \A b \in 1..k : Lowers(f[k].blocks[b], bs[b], v(b - 1), v(b), L)
                   /\ \A b \in 0..k : v(b) <= v(k)
           S == {k \in 0..n : P(k)}
<1>1. /\ f[0] = [blocks |-> <<>>, builder |-> Builder(temps, 0)]
      /\ \A k \in 1..n : f[k] = After(f[k - 1], bs[k])
      /\ \A k \in 0..n : f[k] \in States(temps)
      /\ n \in Nat /\ temps \in Nat
      /\ \A k \in 1..n : bs[k] \in BlockRecs /\ BlockFits(bs[k], temps, L)
  BY DEF BlocksLeadTo, FunctionFits
<1>2. \A k \in 0..n : v(k) \in Nat /\ f[k].blocks \in Seq(LBlocks)
  BY <1>1 DEF States, Builders
<1>3. 0 \in S
  <2>1. Len(f[0].blocks) = 0 /\ 1..0 = {} /\ \A b \in 0..0 : b = 0
    BY <1>1
  <2>2. v(0) <= v(0) /\ 0 \in 0..n
    BY <1>1, <1>2
  <2>3. P(0)
    BY <2>1, <2>2
  <2> HIDE DEF P
  <2> QED
    BY <2>2, <2>3
<1>4. ASSUME NEW k \in 1..n, k - 1 \in S PROVE k \in S
  <2> DEFINE x == f[k - 1]
             r == lower_block(x.builder, bs[k])
  <2>1. P(k - 1) /\ k - 1 \in 0..n /\ k \in 0..n /\ x \in States(temps)
    <3> HIDE DEF P
    <3>1. P(k - 1)
      BY <1>4
    <3>2. k - 1 \in 0..n /\ k \in 0..n
      BY <1>1
    <3> QED
      BY <1>1, <3>1, <3>2
  <2>2. /\ f[k] = After(x, bs[k]) /\ BlockLIR(r, x.builder, bs[k], L)
        /\ f[k].blocks = Append(x.blocks, r.block) /\ f[k].builder = r.builder
        /\ x.builder.vreg <= r.builder.vreg
    <3>1. f[k] = After(x, bs[k])
      BY <1>1
    <3>2. /\ x \in States(temps) /\ bs[k] \in BlockRecs /\ BlockFits(bs[k], temps, L)
          /\ temps \in Nat
      BY <1>1, <2>1
    <3> HIDE DEF x
    <3>3. /\ BlockLIR(r, x.builder, bs[k], L)
          /\ After(x, bs[k]).blocks = Append(x.blocks, r.block)
          /\ After(x, bs[k]).builder = r.builder
          /\ x.builder.vreg <= r.builder.vreg
      BY <3>2, StateAfter
    <3> QED
      BY <3>1, <3>3
  <2>3. x.blocks \in Seq(LBlocks) /\ Len(x.blocks) = k - 1
    BY <1>2, <2>1
  <2>4. /\ Len(f[k].blocks) = k /\ f[k].blocks[k] = r.block
        /\ \A b \in 1..k - 1 : f[k].blocks[b] = x.blocks[b]
    <3>1. PICK bl : bl = x.blocks
      OBVIOUS
    <3>2. bl \in Seq(LBlocks) /\ Len(bl) = k - 1 /\ k \in Nat
      BY <1>1, <2>3, <3>1
    <3>3. f[k].blocks = Append(bl, r.block)
      BY <2>2, <3>1
    <3> HIDE DEF x, r
    <3> QED
      BY <3>1, <3>2, <3>3
  <2>5. Lowers(r.block, bs[k], v(k - 1), v(k), L)
    BY <2>2 DEF BlockLIR, Lowers
  <2>6. v(k - 1) <= v(k) /\ v(k) \in Nat /\ v(k - 1) \in Nat
    BY <1>2, <2>1, <2>2
  <2>7. \A b \in 0..k : b \in 0..k - 1 \/ b = k
    OBVIOUS
  <2>8. \A b \in 1..k : b \in 1..k - 1 \/ b = k
    OBVIOUS
  <2>9. \A b \in 0..k : v(b) <= v(k)
    <3>1. \A b \in 0..k - 1 : v(b) <= v(k - 1) /\ v(b) \in Nat
      BY <1>2, <2>1
    <3> HIDE DEF v, P
    <3> QED
      BY <2>6, <2>7, <3>1
  <2>10. \A b \in 1..k : Lowers(f[k].blocks[b], bs[b], v(b - 1), v(b), L)
    <3>1. \A b \in 1..k - 1 : Lowers(x.blocks[b], bs[b], v(b - 1), v(b), L)
      BY <2>1
    <3> HIDE DEF v, P, r, x
    <3> QED
      BY <2>4, <2>5, <2>8, <3>1
  <2>11. P(k)
    BY <2>4, <2>9, <2>10
  <2> HIDE DEF P
  <2> QED
    BY <2>1, <2>11
<1> HIDE DEF S
<1>5. \A k \in 0..n : k \in S
  BY <1>1, <1>3, <1>4, InductionUpTo
<1>6. \A k \in 0..n : P(k)
  BY <1>5 DEF S
<1>7. P(n)
  BY <1>1, <1>6
<1>8. \A b, c \in 0..n : b <= c => v(b) <= v(c)
  <2> SUFFICES ASSUME NEW b \in 0..n, NEW c \in 0..n, b <= c PROVE v(b) <= v(c)
    OBVIOUS
  <2>1. P(c) /\ b \in 0..c
    BY <1>6
  <2> QED
    BY <2>1
<1> QED
  BY <1>7, <1>8
-----------------------------------------------------------------------------
LEMMA FunctionLowered ==
  ASSUME NEW bs, NEW temps, NEW L, FunctionFits(bs, temps, L), bs # <<>>,
         \A b \in 1..Len(bs) : \A k \in 1..Len(bs[b].term.to) : bs[b].term.to[k] \in 1..Len(bs)
  PROVE  /\ LIRFits(lower_mir_to_lir(bs, temps), L)
         /\ Len(lower_mir_to_lir(bs, temps).blocks) = Len(bs)
<1> DEFINE n == Len(bs)
           code == lower_mir_to_lir(bs, temps)
<1>1. PICK f : BlocksLeadTo(f, bs, temps)
  BY BlocksGoAlong
<1> DEFINE v(k) == f[k].builder.vreg
           C(b) == CodeOf(code, b)
           D(b) == DefsUpTo(bs[b], Len(bs[b].insts))
           R(b) == ReadsIn(bs[b])
<1>2. /\ code.blocks = f[n].blocks /\ code.next_vreg = v(n)
      /\ \A k \in 0..n : f[k] \in States(temps)
      /\ n \in Nat \ {0} /\ temps \in Nat
  <2>1. bs \in Seq(BlockRecs) /\ temps \in Nat
    BY DEF FunctionFits
  <2>2. n \in Nat \ {0}
    BY <2>1
  <2> QED
    BY <1>1, <2>1, <2>2 DEF BlocksLeadTo
<1>3. \A k \in 0..n : v(k) \in Nat /\ temps <= v(k) /\ f[k].blocks \in Seq(LBlocks)
  BY <1>2 DEF States, Builders
<1>4. /\ Len(f[n].blocks) = n
      /\ \A b \in 1..n : Lowers(f[n].blocks[b], bs[b], v(b - 1), v(b), L)
      /\ \A b, c \in 0..n : b <= c => v(b) <= v(c)
  BY <1>1, BlocksLowered
<1>5. code.blocks \in Seq(LBlocks) /\ code.next_vreg \in Nat /\ Len(code.blocks) = n
  BY <1>2, <1>3, <1>4
<1>6. \A b \in 1..n : /\ code.blocks[b].term.def = NoVReg /\ code.blocks[b].term.op \in TermOps
                      /\ code.blocks[b].succs = bs[b].term.to
                      /\ Lowered(C(b), v(b - 1), v(b), D(b), R(b), L)
  BY <1>2, <1>4 DEF Lowers, CodeOf
<1>7. \A b, c \in 1..n : b # c => /\ \A t \in D(b) : t \notin D(c)
                                  /\ \A t \in R(b) : t \notin R(c)
  BY DEF FunctionFits
<1>8. \A b \in 1..n : D(b) \subseteq 0..temps - 1 /\ R(b) \subseteq 0..temps - 1
  <2> SUFFICES ASSUME NEW b \in 1..n
               PROVE  D(b) \subseteq 0..temps - 1 /\ R(b) \subseteq 0..temps - 1
    OBVIOUS
  <2>1. /\ \A i \in 1..Len(bs[b].insts) : /\ TempsDefined(bs[b].insts[i]) \subseteq 0..temps - 1
                                          /\ TempsRead(bs[b].insts[i]) \subseteq 0..temps - 1
        /\ TempsRead(bs[b].term) \subseteq 0..temps - 1
    BY DEF FunctionFits, BlockFits
  <2> QED
    BY <2>1 DEF DefsUpTo, ReadsUpTo, ReadsIn
<1> DEFINE Own(b) == v(b - 1)..v(b) - 1
<1>9. \A b \in 1..n : /\ v(b - 1) \in Nat /\ v(b) \in Nat /\ v(b - 1) <= v(b) /\ v(b) <= v(n)
                      /\ temps <= v(b - 1)
  <2> SUFFICES ASSUME NEW b \in 1..n
               PROVE  /\ v(b - 1) \in Nat /\ v(b) \in Nat /\ v(b - 1) <= v(b) /\ v(b) <= v(n)
                      /\ temps <= v(b - 1)
    OBVIOUS
  <2>1. b - 1 \in 0..n /\ b \in 0..n /\ n \in 0..n /\ b - 1 <= b /\ b <= n
    BY <1>2
  <2> HIDE DEF v
  <2> QED
    BY <1>3, <1>4, <2>1
<1>10. \A b \in 1..n :
         /\ D(b) \subseteq VRegsOf(code) /\ R(b) \subseteq VRegsOf(code)
         /\ Own(b) \subseteq VRegsOf(code)
         /\ \A t \in Own(b) : t \notin 0..temps - 1
  <2> SUFFICES ASSUME NEW b \in 1..n
               PROVE /\ D(b) \subseteq VRegsOf(code) /\ R(b) \subseteq VRegsOf(code)
                     /\ Own(b) \subseteq VRegsOf(code)
                     /\ \A t \in Own(b) : t \notin 0..temps - 1
    OBVIOUS
  <2>1. /\ v(b - 1) \in Nat /\ v(b) \in Nat /\ v(b - 1) <= v(b) /\ v(b) <= v(n)
        /\ temps <= v(b - 1) /\ v(n) \in Nat
    BY <1>5, <1>2, <1>9
  <2>2. VRegsOf(code) = 0..v(n) - 1
    BY <1>2 DEF VRegsOf
  <2>3. D(b) \subseteq 0..temps - 1 /\ R(b) \subseteq 0..temps - 1
    BY <1>8
  <2> HIDE DEF v, D, R, code
  <2> QED
    BY <1>2, <2>1, <2>2, <2>3
<1>11. \A b, c \in 1..n : b # c => \A t \in Own(b) : t \notin Own(c)
  <2>1. ASSUME NEW b \in 1..n, NEW c \in 1..n, b < c PROVE \A t \in Own(b) : t \notin Own(c)
    <3>1. b \in 0..n /\ c - 1 \in 0..n /\ b <= c - 1
      BY <2>1, <1>2
    <3>2. v(b) <= v(c - 1) /\ v(b) \in Nat /\ v(c - 1) \in Nat
      BY <1>3, <1>4, <3>1
    <3> HIDE DEF v
    <3> QED
      BY <3>2
  <2> SUFFICES ASSUME NEW b \in 1..n, NEW c \in 1..n, b # c PROVE \A t \in Own(b) : t \notin Own(c)
    OBVIOUS
  <2>2. b < c \/ c < b
    BY <1>2
  <2>3. CASE b < c
    BY <2>1, <2>3
  <2>4. CASE c < b
    <3> HIDE DEF Own
    <3> QED
      BY <2>1, <2>4
  <2> QED
    BY <2>2, <2>3, <2>4
<1> HIDE DEF code, v, D, R
<1>12. ASSUME NEW b \in 1..n, NEW i \in 1..Len(C(b))
       PROVE  /\ FitsOp(C(b)[i])
              /\ C(b)[i].def = NoVReg \/ C(b)[i].def \in D(b) \cup Own(b)
              /\ UsedBy(C(b)[i]) \subseteq R(b) \cup Own(b)
              /\ L => \A u \in UsedBy(C(b)[i]) : Given(C(b), i - 1, u)
  <2> HIDE DEF C
  <2> QED
    BY <1>6 DEF Lowered
<1>13. ASSUME NEW b \in 1..n, NEW c \in 1..n, NEW i \in 1..Len(C(b)), NEW j \in 1..Len(C(c))
       PROVE  /\ C(b)[i].def = C(c)[j].def => (b = c /\ i = j) \/ C(b)[i].def = NoVReg
              /\ \A u \in UsedBy(C(b)[i]) : u \in UsedBy(C(c)[j]) => b = c /\ i = j
  <2>1. CASE b = c
    <3>1. Lowered(C(b), v(b - 1), v(b), D(b), R(b), L)
      BY <1>6
    <3> HIDE DEF C
    <3> QED
      BY <2>1, <3>1 DEF Lowered
  <2>2. CASE b # c
    <3>1. /\ \A t \in D(b) \cup Own(b) : t \notin D(c) \cup Own(c)
          /\ \A t \in R(b) \cup Own(b) : t \notin R(c) \cup Own(c)
      <4> HIDE DEF Own
      <4> QED
        BY <1>7, <1>8, <1>10, <1>11, <2>2
    <3>2. /\ C(b)[i].def = NoVReg \/ C(b)[i].def \in D(b) \cup Own(b)
          /\ UsedBy(C(b)[i]) \subseteq R(b) \cup Own(b)
          /\ C(c)[j].def = NoVReg \/ C(c)[j].def \in D(c) \cup Own(c)
          /\ UsedBy(C(c)[j]) \subseteq R(c) \cup Own(c)
      BY <1>12
    <3> HIDE DEF C, Own
    <3> QED
      BY <3>1, <3>2
  <2> QED
    BY <2>1, <2>2
<1>14. ASSUME NEW b \in 1..n
       PROVE  /\ code.blocks[b].term.def = NoVReg /\ code.blocks[b].term.op \in TermOps
              /\ \A k \in 1..Len(code.blocks[b].succs) : code.blocks[b].succs[k] \in 1..n
              /\ \A i \in 1..Len(C(b)) :
                   /\ FitsOp(C(b)[i])
                   /\ C(b)[i].def \in {NoVReg} \cup VRegsOf(code)
                   /\ UsedBy(C(b)[i]) \subseteq VRegsOf(code)
                   /\ L => \A u \in UsedBy(C(b)[i]) : Given(C(b), i - 1, u)
  <2>1. \A k \in 1..Len(code.blocks[b].succs) : code.blocks[b].succs[k] \in 1..n
    BY <1>6
  <2>2. /\ D(b) \subseteq VRegsOf(code) /\ R(b) \subseteq VRegsOf(code)
        /\ Own(b) \subseteq VRegsOf(code)
    BY <1>10
  <2>3. code.blocks[b].term.def = NoVReg /\ code.blocks[b].term.op \in TermOps
    BY <1>6
  <2> HIDE DEF C, Own
  <2> QED
    BY <1>12, <2>1, <2>2, <2>3
<1>15. LIRFits(code, L)
  <2>1. Len(code.blocks) \in Nat \ {0}
    BY <1>2, <1>5
  <2> HIDE DEF Own, n
  <2> QED
    BY <1>5, <1>13, <1>14, <2>1 DEF LIRFits
<1> QED
  BY <1>5, <1>15 DEF code
-----------------------------------------------------------------------------
\* Whatever computes a value has a temp for it, and a call has as many arguments
\* as a function takes, each a value of its own.
Proper(inst) ==
  /\ inst.type # "IR_STORE" => inst.dst # NoTemp
  /\ inst.type = "IR_CALL" => Len(inst.args) \in Arities \cup 0..1 /\ Distinct(inst.args)

AllProper(bs) ==
  \A b \in 1..Len(bs) : \A i \in 1..Len(bs[b].insts) : Proper(bs[b].insts[i])

LEMMA ProperEmit ==
  ASSUME NEW bs \in Seq(BlockRecs), NEW b \in 1..Len(bs), NEW i \in InstRecs,
         AllProper(bs), Proper(i)
  PROVE  /\ AllProper(Emit(bs, b, <<i>>)) /\ Emit(bs, b, <<i>>) \in Seq(BlockRecs)
         /\ Len(Emit(bs, b, <<i>>)) = Len(bs)
<1> DEFINE new == Emit(bs, b, <<i>>)
<1>1. <<i>> \in Seq(InstRecs)
  OBVIOUS
<1>2. /\ new \in Seq(BlockRecs) /\ Len(new) = Len(bs)
      /\ \A c \in 1..Len(bs) : new[c].insts = IF c = b THEN bs[b].insts \o <<i>>
                                              ELSE bs[c].insts
  BY <1>1, EmitIs
<1> HIDE DEF new
<1>3. bs[b].insts \in Seq(InstRecs)
  <2>1. bs[b] \in BlockRecs
    OBVIOUS
  <2> QED
    BY <2>1 DEF BlockRecs
<1>4. bs[b].insts \o <<i>> = Append(bs[b].insts, i)
  BY <1>3
<1>5. ASSUME NEW c \in 1..Len(new), NEW k \in 1..Len(new[c].insts)
      PROVE  Proper(new[c].insts[k])
  <2>1. CASE c = b
    <3>1. new[c].insts = Append(bs[b].insts, i)
      BY <1>2, <1>4, <2>1
    <3>2. \/ k \in 1..Len(bs[b].insts) /\ new[c].insts[k] = bs[b].insts[k]
          \/ new[c].insts[k] = i
      BY <1>3, <3>1
    <3> QED
      BY <3>2 DEF AllProper
  <2>2. CASE c # b
    BY <1>2, <2>2 DEF AllProper
  <2> QED
    BY <2>1, <2>2
<1>6. AllProper(new)
  BY <1>5 DEF AllProper
<1> QED
  BY <1>2, <1>6 DEF new

LEMMA ProperKept ==
  ASSUME NEW bs, NEW new, AllProper(bs), Len(new) = Len(bs),
         \A b \in 1..Len(bs) : new[b].insts = bs[b].insts
  PROVE  AllProper(new)
BY DEF AllProper

LEMMA ProperTerminate ==
  ASSUME NEW bs \in Seq(BlockRecs), NEW b \in 1..Len(bs), NEW t \in TermRecs, AllProper(bs)
  PROVE  AllProper(Terminate(bs, b, t))
BY TerminateIs, ProperKept

LEMMA ProperJump ==
  ASSUME NEW bs \in Seq(BlockRecs), NEW b \in 1..Len(bs), NEW to \in 1..Len(bs), AllProper(bs)
  PROVE  AllProper(JumpIfOpen(bs, b, to)) /\ JumpIfOpen(bs, b, to) \in Seq(BlockRecs)
         /\ Len(JumpIfOpen(bs, b, to)) = Len(bs)
<1>1. to \in Nat
  OBVIOUS
<1>2. Jump(to) \in TermRecs
  BY <1>1, TermsAre
<1>3. CASE Open(bs, b)
  BY <1>2, <1>3, ProperTerminate, TerminateIs DEF JumpIfOpen
<1>4. CASE ~Open(bs, b)
  BY <1>4 DEF JumpIfOpen
<1> QED
  BY <1>3, <1>4

LEMMA ProperCreate ==
  ASSUME NEW bs \in Seq(BlockRecs), AllProper(bs),
         NEW news \in {<<NewBlock, NewBlock>>, <<NewBlock, NewBlock, NewBlock>>}
  PROVE  AllProper(bs \o news) /\ bs \o news \in Seq(BlockRecs)
         /\ Len(bs \o news) = Len(bs) + Len(news) /\ Len(bs) \in Nat
         /\ Len(news) \in {2, 3}
<1> DEFINE new == bs \o news
<1>1. /\ new \in Seq(BlockRecs) /\ Len(news) \in {2, 3} /\ Len(new) = Len(bs) + Len(news)
      /\ Len(bs) \in Nat
      /\ \A c \in 1..Len(bs) : new[c] = bs[c]
      /\ \A c \in 1..Len(new) : c \notin 1..Len(bs) => new[c] = NewBlock
  BY CreateIs
<1> HIDE DEF new
<1>2. Len(NewBlock.insts) = 0
  BY NewBlockIs
<1>3. AllProper(new)
  <2> SUFFICES ASSUME NEW c \in 1..Len(new), NEW i \in 1..Len(new[c].insts)
               PROVE  Proper(new[c].insts[i])
    BY DEF AllProper
  <2>1. CASE c \in 1..Len(bs)
    BY <1>1, <2>1 DEF AllProper
  <2>2. CASE c \notin 1..Len(bs)
    <3>1. new[c] = NewBlock /\ 1..0 = {}
      BY <1>1, <2>2
    <3> QED
      BY <1>2, <3>1
  <2> QED
    BY <2>1, <2>2
<1> QED
  BY <1>1, <1>3 DEF new

\* The instructions the generator uses.
LEMMA ProperInsts ==
  ASSUME NEW s \in Nat, NEW v \in Values, NEW t \in Nat
  PROVE  /\ Store(s, v) \in InstRecs /\ Proper(Store(s, v))
         /\ Load(t, s) \in InstRecs /\ Proper(Load(t, s))
         /\ CmpOp(t, v, IMM(0)) \in InstRecs /\ Proper(CmpOp(t, v, IMM(0)))
         /\ ArgInst(t) \in InstRecs /\ Proper(ArgInst(t))
BY InstsAre DEF Proper, NoTemp

LEMMA EntryProper == AllProper(Entry)
<1>1. /\ Len(Entry) = 1 /\ Entry[1].insts = Params(NumParams) /\ NumParams \in Nat
  BY EntryIs, Bounds
<1>2. /\ Len(Params(NumParams)) = 2 * NumParams
      /\ \A i \in 1..2 * NumParams :
           \/ \E p \in 0..NumParams - 1 : Params(NumParams)[i] = ArgInst(p)
           \/ \E p \in 0..NumParams - 1 : Params(NumParams)[i] = Store(p, TEMP(p))
  BY <1>1, ParamsAre
<1>3. \A p \in 0..NumParams - 1 : Proper(ArgInst(p)) /\ Proper(Store(p, TEMP(p)))
  BY <1>1, ProperInsts, ValuesAre
<1>4. \A i \in 1..Len(Entry[1].insts) : Proper(Entry[1].insts[i])
  BY <1>1, <1>2, <1>3
<1> QED
  BY <1>1, <1>4 DEF AllProper
-----------------------------------------------------------------------------
\* Of a call the arguments are values that wait on the stack, each once.
LEMMA CallProper ==
  ASSUME IInv, Running, ~foreign, Temps, InExpr, NEW n \in Nat, n <= Pending,
         NEW i, Computes(i, n)
  PROVE  Proper(i)
<1> DEFINE h == walk[1].base
           m == Len(i.args)
<1>1. /\ i \in InstRecs /\ i.dst = next_temp /\ next_temp \in Nat
      /\ i.type = "IR_CALL" => n = m /\ n \in Arities \cup 0..1
      /\ \A k \in 1..m : i.args[k] = IF k <= m - n THEN IMM(0)
                                     ELSE val_stack[Height - m + k]
  BY RunningIs DEF Computes
<1>2. Top.base \in Nat /\ Height \in Nat /\ Pending = Height - Top.base
  BY InExpression DEF Pending
<1>3. h \in Nat /\ h <= Top.base /\ Apart(val_stack, h) /\ Height = Len(val_stack)
  BY TempsRunning
<1>4. n <= Height - h
  <2> DEFINE p == Pending
             q == Height
             b == Top.base
  <2>1. n <= p /\ b \in Nat /\ q \in Nat /\ p = q - b /\ h \in Nat /\ h <= b
    BY <1>2, <1>3
  <2> HIDE DEF p, q, b, h
  <2>2. n <= q - h
    BY <2>1
  <2> QED
    BY <2>2 DEF q
<1> HIDE DEF h
<1>5. ASSUME i.type = "IR_CALL" PROVE Distinct(i.args)
  <2> SUFFICES ASSUME NEW k \in 1..m, NEW l \in 1..m, i.args[k].kind = "IRVAL_TEMP",
                      i.args[k] = i.args[l]
               PROVE  k = l
    BY DEF Distinct
  <2>1. m = n /\ i.args[k] = val_stack[Height - n + k] /\ i.args[l] = val_stack[Height - n + l]
    <3>1. m = n /\ ~(k <= m - n) /\ ~(l <= m - n)
      BY <1>1, <1>5
    <3> QED
      BY <1>1, <3>1
  <2>2. Height - n + k \in h + 1..Len(val_stack) /\ Height - n + l \in h + 1..Len(val_stack)
    <3> DEFINE q == Height
    <3>1. q \in Nat /\ h \in Nat /\ n <= q - h /\ k \in 1..n /\ l \in 1..n
      BY <1>2, <1>3, <1>4, <2>1
    <3>2. Len(val_stack) = q
      BY <1>3
    <3> HIDE DEF q
    <3>3. q - n + k \in h + 1..q /\ q - n + l \in h + 1..q
      BY <3>1
    <3> QED
      BY <3>2, <3>3 DEF q
  <2>3. Height - n + k = Height - n + l
    BY <1>3, <2>1, <2>2 DEF Apart
  <2> QED
    BY <1>2, <2>1, <2>3
<1>6. i.dst # NoTemp
  <2>1. i.dst \in Nat
    BY <1>1, Zenon
  <2> QED
    BY <2>1 DEF NoTemp
<1>7. i.type = "IR_CALL" => Len(i.args) \in Arities \cup 0..1
  BY <1>1, Zenon
<1> QED
  BY <1>5, <1>6, <1>7, Zenon DEF Proper

LEMMA EvalProper ==
  ASSUME IInv, Running, ~foreign, Temps, AllProper(blocks),
         NEW n, NEW v, NEW insts, Eval(n, v, insts)
  PROVE  AllProper(blocks')
<1>1. InExpr /\ n \in Nat /\ n <= Pending /\ blocks' = Emit(blocks, curr, insts)
  BY DEF Eval
<1>2. curr \in 1..Len(blocks) /\ blocks \in Seq(BlockRecs)
  BY RunningIs
<1>3. CASE insts = <<>>
  BY <1>1, <1>2, <1>3, EmitNothing
<1>4. CASE insts # <<>>
  <2> DEFINE i == insts[1]
  <2>1. insts \in Seq(InstRecs) /\ Len(insts) = 1 /\ Computes(i, n)
    BY <1>4 DEF Eval
  <2>2. insts = <<i>>
    BY <2>1
  <2>3. i \in InstRecs /\ Proper(i)
    BY <1>1, <2>1, CallProper DEF Computes
  <2> HIDE DEF i
  <2> QED
    BY <1>1, <1>2, <2>2, <2>3, ProperEmit
<1> QED
  BY <1>3, <1>4

LEMMA CallStmtProper ==
  ASSUME IInv, Running, ~foreign, Temps, AllProper(blocks), CallStmt
  PROVE  AllProper(blocks')
<1> DEFINE i == Call(next_temp, Popped(Operands))
<1>1. InExpr /\ Pending = Operands /\ blocks' = Emit(blocks, curr, <<i>>)
  BY DEF CallStmt
<1>2. Operands \in 0..1 /\ Pending \in Nat
  BY <1>1, InExpression
<1>3. Operands \in Arities \cup 0..1 /\ Operands <= Pending
  BY <1>1, <1>2
<1>4. Computes(i, Operands) /\ Operands \in Nat
  BY <1>1, <1>2, <1>3, OperatorsCompute
<1> HIDE DEF i
<1>5. i \in InstRecs /\ Proper(i)
  BY <1>1, <1>3, <1>4, CallProper DEF Computes
<1>6. curr \in 1..Len(blocks) /\ blocks \in Seq(BlockRecs)
  BY RunningIs
<1> QED
  BY <1>1, <1>5, <1>6, ProperEmit

LEMMA StoreProper ==
  ASSUME IInv, Running, AllProper(blocks), VarDec \/ Assn \/ BareVarDec
  PROVE  AllProper(blocks')
<1>1. curr \in 1..Len(blocks) /\ blocks \in Seq(BlockRecs) /\ next_slot \in Nat
      /\ val_stack \in Seq(Values) /\ next_temp \in Nat
  BY RunningIs
<1>2. \/ blocks' = blocks
      \/ \E s \in Nat, v \in Values : blocks' = Emit(blocks, curr, <<Store(s, v)>>)
  <2>1. CASE VarDec
    <3>1. ExprDone /\ blocks' = Emit(blocks, curr, <<Store(next_slot, Last(val_stack))>>)
      BY <2>1 DEF VarDec
    <3> QED
      BY <1>1, <3>1, OnValue
  <2>2. CASE Assn
    <3>1. /\ ExprDone /\ Top.at = "assn"
          /\ blocks' = Emit(blocks, curr, <<Store(Top.slot, Last(val_stack))>>)
      BY <2>2 DEF Assn
    <3>2. Last(val_stack) \in Values /\ FrameOK(Top, unclaimed, next_slot, Len(blocks))
      BY <3>1, OnValue
    <3>3. Top.slot \in Nat
      BY <1>1, <3>1, <3>2 DEF FrameOK
    <3> QED
      BY <3>1, <3>2, <3>3
  <2>3. CASE BareVarDec
    <3>1. \/ blocks' = blocks
          \/ /\ val_stack # <<>>
             /\ blocks' = Emit(blocks, curr, <<Store(next_slot, Last(val_stack))>>)
      BY <2>3 DEF BareVarDec
    <3>2. val_stack # <<>> => Last(val_stack) \in Values
      BY <1>1 DEF Last
    <3> QED
      BY <1>1, <3>1, <3>2
  <2> QED
    BY <2>1, <2>2, <2>3
<1>3. ASSUME NEW s \in Nat, NEW v \in Values, blocks' = Emit(blocks, curr, <<Store(s, v)>>)
      PROVE  AllProper(blocks')
  <2>1. Store(s, v) \in InstRecs /\ Proper(Store(s, v))
    BY <1>1, ProperInsts
  <2> QED
    BY <1>1, <1>3, <2>1, ProperEmit
<1> QED
  BY <1>2, <1>3
-----------------------------------------------------------------------------
LEMMA EndsProper ==
  ASSUME IInv, Running, AllProper(blocks), EndThen \/ EndWhile \/ EndIf \/ EndFunction
  PROVE  AllProper(blocks')
<1>1. curr \in 1..Len(blocks) /\ blocks \in Seq(BlockRecs)
  BY RunningIs
<1>2. CASE EndThen \/ EndWhile
  <2>1. InStmts /\ Top.at \in {"then_block", "loop_block"}
        /\ Len(Top.to) = 2
        /\ \E k \in {1, 2} : blocks' = JumpIfOpen(blocks, curr, Top.to[k])
    <3>1. CASE EndThen
      BY <3>1 DEF EndThen
    <3>2. CASE EndWhile
      <4>1. InStmts /\ Top.at = "loop_block" /\ blocks' = JumpIfOpen(blocks, curr, Top.to[1])
        BY <3>2 DEF EndWhile
      <4>2. FrameOK(Top, unclaimed, next_slot, Len(blocks))
        BY <4>1, OnList
      <4>3. Len(Top.to) = 2
        BY <4>1, <4>2 DEF FrameOK, Targets
      <4> QED
        BY <4>1, <4>3
    <3> QED
      BY <1>2, <3>1, <3>2
  <2>2. FrameOK(Top, unclaimed, next_slot, Len(blocks))
    BY <2>1, OnList
  <2>3. PICK to \in 1..Len(blocks) : blocks' = JumpIfOpen(blocks, curr, to)
    BY <2>1, <2>2 DEF FrameOK
  <2> QED
    BY <1>1, <2>3, ProperJump
<1>3. CASE EndIf
  <2> DEFINE join == Last(Top.to)
             bs == JumpIfOpen(blocks, curr, join)
  <2>1. /\ InStmts /\ Top.at \in {"then_block", "else_block"} /\ Len(Top.to) = 1
        /\ blocks' = bs \/ blocks' = Terminate(bs, join, ImplicitHalt)
    BY <1>3 DEF EndIf
  <2>2. FrameOK(Top, unclaimed, next_slot, Len(blocks))
    BY <2>1, OnList
  <2>3. join \in 1..Len(blocks)
    BY <2>1, <2>2 DEF FrameOK, Last
  <2>4. AllProper(bs) /\ bs \in Seq(BlockRecs) /\ Len(bs) = Len(blocks)
    BY <1>1, <2>3, ProperJump
  <2> HIDE DEF bs, join
  <2>5. AllProper(Terminate(bs, join, ImplicitHalt))
    BY <2>3, <2>4, ImplicitHaltIs, ProperTerminate
  <2> QED
    BY <2>1, <2>4, <2>5
<1>4. CASE EndFunction
  <2>1. blocks' = blocks \/ blocks' = Terminate(blocks, curr, ImplicitHalt)
    BY <1>4 DEF EndFunction
  <2> QED
    BY <1>1, <2>1, ImplicitHaltIs, ProperTerminate
<1> QED
  BY <1>2, <1>3, <1>4

LEMMA BranchesProper ==
  ASSUME IInv, Running, AllProper(blocks), Exit \/ BareExit \/ WhileBody
  PROVE  AllProper(blocks')
<1>1. curr \in 1..Len(blocks) /\ blocks \in Seq(BlockRecs)
  BY RunningIs
<1>2. blocks' = blocks \/ \E t \in TermRecs : blocks' = Terminate(blocks, curr, t)
  <2>1. CASE Exit
    <3>1. ExprDone /\ blocks' = Terminate(blocks, curr, Halt(<<Last(val_stack)>>))
      BY <2>1 DEF Exit
    <3> QED
      BY <3>1, OnValue, TermsAre
  <2>2. CASE BareExit
    <3>1. blocks' = Terminate(blocks, curr, Halt(<<>>))
      BY <2>2 DEF BareExit
    <3> QED
      BY <3>1, TermsAre
  <2>3. CASE WhileBody
    <3> DEFINE t == BranchIfZero(Last(val_stack), Top.to[2], Top.to[3])
    <3>1. /\ ExprDone /\ Top.at = "while"
          /\ blocks' = blocks \/ blocks' = Terminate(blocks, curr, t)
      BY <2>3 DEF WhileBody
    <3>2. Last(val_stack) \in Values /\ FrameOK(Top, unclaimed, next_slot, Len(blocks))
      BY <3>1, OnValue
    <3>3. Len(Top.to) = 3
      BY <3>1, <3>2 DEF FrameOK, Targets
    <3>4. Top.to[2] \in Nat /\ Top.to[3] \in Nat
      BY <3>2, <3>3 DEF FrameOK
    <3>5. t \in TermRecs
      BY <3>2, <3>4, TermsAre
    <3> HIDE DEF t
    <3> QED
      BY <3>1, <3>5
  <2> QED
    BY <2>1, <2>2, <2>3
<1> QED
  BY <1>1, <1>2, ProperTerminate

\* Blocks are created and the current one is ended.
LEMMA CreatesProper ==
  ASSUME IInv, Running, AllProper(blocks),
         BeginWhile \/ FinishLhs \/ \E else \in BOOLEAN : If(else)
  PROVE  AllProper(blocks')
<1> DEFINE n == Len(blocks)
<1>1. /\ n \in Nat /\ curr \in 1..n /\ blocks \in Seq(BlockRecs) /\ next_temp \in Nat
      /\ n + 1 \in Nat /\ n + 2 \in Nat
  BY RunningIs
<1>2. CASE BeginWhile
  <2> DEFINE news == <<NewBlock, NewBlock, NewBlock>>
             bs == blocks \o news
  <2>1. blocks' = JumpIfOpen(bs, curr, n + 1)
    BY <1>2 DEF BeginWhile
  <2>2. news \in {<<NewBlock, NewBlock>>, <<NewBlock, NewBlock, NewBlock>>} /\ Len(news) = 3
    OBVIOUS
  <2> HIDE DEF news
  <2>3. AllProper(bs) /\ bs \in Seq(BlockRecs) /\ Len(bs) = n + Len(news) /\ Len(news) \in {2, 3}
    BY <1>1, <2>2, ProperCreate
  <2> HIDE DEF bs
  <2>4. curr \in 1..Len(bs) /\ n + 1 \in 1..Len(bs)
    <3>1. Len(bs) = n + 3
      BY <2>2, <2>3
    <3> QED
      BY <1>1, <3>1
  <2> QED
    BY <2>1, <2>3, <2>4, ProperJump
<1>3. ASSUME NEW else \in BOOLEAN, If(else)
      PROVE  AllProper(blocks')
  <2> DEFINE news == IF else THEN <<NewBlock, NewBlock, NewBlock>> ELSE <<NewBlock, NewBlock>>
             bs == blocks \o news
             t == BranchIfZero(Last(val_stack), n + 1, n + 2)
  <2>1. ExprDone /\ blocks' = Terminate(bs, curr, t)
    BY <1>3 DEF If
  <2>2. news \in {<<NewBlock, NewBlock>>, <<NewBlock, NewBlock, NewBlock>>}
    OBVIOUS
  <2>3. Last(val_stack) \in Values
    BY <2>1, OnValue
  <2>4. t \in TermRecs
    BY <1>1, <2>3, TermsAre
  <2> HIDE DEF news, t
  <2>5. AllProper(bs) /\ bs \in Seq(BlockRecs) /\ Len(bs) = n + Len(news) /\ Len(news) \in {2, 3}
    BY <1>1, <2>2, ProperCreate
  <2> HIDE DEF bs
  <2>6. curr \in 1..Len(bs)
    BY <1>1, <2>5
  <2> QED
    BY <2>1, <2>4, <2>5, <2>6, ProperTerminate
<1>4. CASE FinishLhs
  <2> DEFINE news == <<NewBlock, NewBlock>>
             bs == blocks \o news
             c == IMM(IF Top.at = "and_lhs" THEN 0 ELSE 1)
             s == Emit(bs, curr, <<Store(Top.slot, c)>>)
             t == IF Top.at = "and_lhs" THEN BranchIfZero(Last(val_stack), n + 1, n + 2)
                  ELSE BranchIfZero(Last(val_stack), n + 2, n + 1)
  <2>1. ExprDone /\ Top.at \in {"and_lhs", "or_lhs"} /\ blocks' = Terminate(s, curr, t)
    BY <1>4 DEF FinishLhs
  <2>2. news \in {<<NewBlock, NewBlock>>, <<NewBlock, NewBlock, NewBlock>>}
    OBVIOUS
  <2>3. Last(val_stack) \in Values /\ FrameOK(Top, unclaimed, next_slot, n)
    BY <2>1, OnValue
  <2>4. t \in TermRecs
    <3>1. CASE Top.at = "and_lhs"
      BY <1>1, <2>3, <3>1, TermsAre
    <3>2. CASE Top.at # "and_lhs"
      BY <1>1, <2>3, <3>2, TermsAre
    <3> QED
      BY <3>1, <3>2
  <2>5. Top.slot \in Nat /\ c \in Values
    <3>1. Top.slot \in Nat
      BY <2>1, <2>3 DEF FrameOK, LogFrames
    <3>2. (IF Top.at = "and_lhs" THEN 0 ELSE 1) \in Constants \cup {0, 1}
      OBVIOUS
    <3> QED
      BY <3>1, <3>2, ValuesAre DEF Imms
  <2> HIDE DEF news, t, c
  <2>6. AllProper(bs) /\ bs \in Seq(BlockRecs) /\ Len(bs) = n + Len(news) /\ Len(news) \in {2, 3}
    BY <1>1, <2>2, ProperCreate
  <2> HIDE DEF bs
  <2>7. curr \in 1..Len(bs)
    BY <1>1, <2>6
  <2>8. AllProper(s) /\ s \in Seq(BlockRecs) /\ Len(s) = Len(bs)
    <3>1. Store(Top.slot, c) \in InstRecs /\ Proper(Store(Top.slot, c))
      BY <1>1, <2>5, ProperInsts
    <3> QED
      BY <2>6, <2>7, <3>1, ProperEmit
  <2> HIDE DEF s
  <2> QED
    BY <2>1, <2>4, <2>7, <2>8, ProperTerminate
<1> QED
  BY <1>2, <1>3, <1>4

LEMMA FinishRhsProper ==
  ASSUME IInv, Running, AllProper(blocks), FinishRhs
  PROVE  AllProper(blocks')
<1> DEFINE join == Top.to[1]
           x == CmpOp(next_temp, Last(val_stack), IMM(0))
           y == Store(Top.slot, TEMP(next_temp))
           z == Load(next_temp + 1, Top.slot)
           one == Emit(blocks, curr, <<x>>)
           two == Emit(one, curr, <<y>>)
           jump == JumpIfOpen(two, curr, join)
<1>1. /\ ExprDone /\ Top.at = "rhs"
      /\ blocks' = Emit(JumpIfOpen(Emit(blocks, curr, <<x, y>>), curr, join), join, <<z>>)
  BY DEF FinishRhs
<1>2. Last(val_stack) \in Values /\ FrameOK(Top, unclaimed, next_slot, Len(blocks))
  BY <1>1, OnValue
<1>3. curr \in 1..Len(blocks) /\ blocks \in Seq(BlockRecs) /\ next_temp \in Nat
      /\ next_temp + 1 \in Nat
  BY RunningIs
<1>4. Top.slot \in Nat /\ join \in 1..Len(blocks)
  BY <1>1, <1>2 DEF FrameOK, LogFrames, Targets
<1>5. /\ x \in InstRecs /\ Proper(x) /\ y \in InstRecs /\ Proper(y)
      /\ z \in InstRecs /\ Proper(z)
  <2>1. TEMP(next_temp) \in Values
    BY <1>3, ValuesAre
  <2> QED
    BY <1>2, <1>3, <1>4, <2>1, ProperInsts
<1> HIDE DEF x, y, z, join
<1>6. Emit(blocks, curr, <<x, y>>) = two
  BY <1>3, <1>5, EmitTwice
<1>7. AllProper(one) /\ one \in Seq(BlockRecs) /\ Len(one) = Len(blocks)
  BY <1>3, <1>5, ProperEmit
<1> HIDE DEF one
<1>8. AllProper(two) /\ two \in Seq(BlockRecs) /\ Len(two) = Len(blocks)
  BY <1>3, <1>5, <1>7, ProperEmit
<1> HIDE DEF two
<1>9. AllProper(jump) /\ jump \in Seq(BlockRecs) /\ Len(jump) = Len(blocks)
  BY <1>3, <1>4, <1>8, ProperJump
<1>10. blocks' = Emit(jump, join, <<z>>)
  BY <1>1, <1>6
<1> HIDE DEF jump
<1> QED
  BY <1>4, <1>5, <1>9, <1>10, ProperEmit

\* The generator makes nothing else.
LEMMA StepProper ==
  ASSUME IInv, ~foreign, Temps, AllProper(blocks), Running, [Next]_vars
  PROVE  AllProper(blocks')
<1>1. CASE UNCHANGED vars
  BY <1>1 DEF vars
<1>2. CASE BeginSimple \/ BeginBlock \/ EndBlock \/ \E at \in {"and_lhs", "or_lhs"} : BeginLogOp(at)
  <2>1. blocks' = blocks
    BY <1>2 DEF BeginLogOp, BeginSimple, BeginStmt, BeginBlock, EndBlock
  <2> QED
    BY <2>1
<1>3. ~BeginFunction
  BY DEF BeginFunction
<1> QED
  BY <1>1, <1>2, <1>3, StepIs, EvalProper, CallStmtProper, StoreProper, EndsProper,
     BranchesProper, CreatesProper, FinishRhsProper, Zenon
-----------------------------------------------------------------------------
\* The walk of the one function that goes through the back end: nothing is left
\* by an earlier one, so its code is in order.
GenInv ==
  /\ IInv /\ Temps /\ Control
  /\ ~foreign /\ AllProper(blocks)
  /\ Running => walk[1].base = 0

LEMMA InitGen == Init => GenInv
<1> SUFFICES ASSUME Init PROVE GenInv
  OBVIOUS
<1>1. IInv /\ Temps /\ Control
  BY InitIInv, InitTemps, InitControl
<1>2. blocks = Entry /\ walk = <<FirstFrame(0)>> /\ foreign = FALSE
  BY DEF Init, Entry, FirstFrame
<1>3. walk[1].base = 0
  BY <1>2, FirstWalk
<1> QED
  BY <1>1, <1>2, <1>3, EntryProper DEF GenInv

LEMMA WalkRuns ==
  ASSUME Expression \/ Statement
  PROVE  Running
<1> SUFFICES ASSUME ~Running PROVE FALSE
  OBVIOUS
<1>1. ~InExpr /\ ~InStmts /\ ~ExprDone /\ ~LeafFits
  BY DEF InExpr, InStmts, ExprDone, LeafFits
<1>2. /\ \A c : ~IntLit(c)
      /\ ~Unary /\ ~Binary
      /\ \A k : ~FnCall(k)
      /\ \A at : ~BeginLogOp(at)
      /\ ~FinishLhs /\ ~FinishRhs
  BY <1>1, Zenon DEF IntLit, Unary, Binary, FnCall, BeginLogOp, FinishLhs, FinishRhs
<1>3. ~Expression
  BY <1>1, <1>2, Zenon DEF Expression
<1>4. /\ \A node, at, slot, n : ~BeginStmt(node, at, slot, n)
      /\ ~VarDec /\ ~BareVarDec /\ ~Assn /\ ~Exit /\ ~BareExit /\ ~CallStmt
  BY <1>1, Zenon DEF BeginStmt, VarDec, BareVarDec, Assn, Exit, BareExit, CallStmt
<1>5. /\ \A else : ~If(else)
      /\ ~EndThen /\ ~EndIf /\ ~BeginWhile /\ ~WhileBody /\ ~EndWhile
      /\ ~BeginBlock /\ ~EndBlock /\ ~EndFunction
  BY <1>1, Zenon DEF If, EndThen, EndIf, BeginWhile, WhileBody, EndWhile, BeginBlock, EndBlock,
     EndFunction
<1>6. ~Statement
  BY <1>4, <1>5, Zenon DEF Statement
<1> QED
  BY <1>3, <1>6

LEMMA StepGen ==
  ASSUME GenInv, Expression \/ Statement
  PROVE  GenInv'
<1>1. Running /\ [Next]_vars /\ IInv /\ Temps /\ Control /\ ~foreign /\ AllProper(blocks)
      /\ walk[1].base = 0
  BY WalkRuns, Zenon DEF Next, GenInv
<1>2. IInv' /\ Temps' /\ Control'
  BY <1>1, StepIInv, StepTemps, StepControl
<1>3. AllProper(blocks')
  BY <1>1, StepProper
<1>4. ~foreign'
  <2>1. CASE BareVarDec
    <3>1. InStmts /\ foreign' = (foreign \/ (unclaimed > 0 /\ Height <= walk[1].base))
      BY <2>1, Zenon DEF BareVarDec
    <3>2. Height = unclaimed /\ Height \in Nat
      BY <1>1, <3>1, OnStatement, RunningIs
    <3>3. ~(unclaimed > 0 /\ Height <= walk[1].base)
      BY <1>1, <3>2
    <3> QED
      BY <1>1, <3>1, <3>3, Zenon
  <2>2. CASE ~BareVarDec
    BY <1>1, <2>2, ClaimsLess, Zenon
  <2> QED
    BY <2>1, <2>2
<1>5. Running' => walk'[1].base = 0
  <2>1. CASE UNCHANGED vars
    BY <1>1, <2>1 DEF vars
  <2>2. CASE ~UNCHANGED vars
    <3>1. ~BeginFunction
      BY <1>1 DEF BeginFunction
    <3>2. Bottom
      BY <1>1, <2>2, <3>1, StepIs, ExpressionsBottom, SimpleBottom, CompoundBottom, Zenon
    <3> QED
      BY <1>1, <3>2 DEF Bottom, Running
  <2> QED
    BY <2>1, <2>2
<1> QED
  BY <1>2, <1>3, <1>4, <1>5, Zenon DEF GenInv
-----------------------------------------------------------------------------
\* The temps that are defined, and read, in a block.
LEMMA TempsOfIs ==
  ASSUME NEW args \in Seq(Values), NEW t
  PROVE  t \in TempsOf(args, Len(args)) <=> t \in Nat /\ Uses(args, t)
BY DEF TempsOf, Uses

LEMMA BlockTemps ==
  ASSUME NEW bs \in Seq(BlockRecs), NEW b \in 1..Len(bs)
  PROVE  /\ b \in Nat /\ Len(bs[b].insts) \in Nat
         /\ bs[b].insts \in Seq(InstRecs) /\ bs[b].term \in TermRecs
         /\ \A i \in 1..Len(bs[b].insts) : bs[b].insts[i] \in InstRecs /\ i \in Nat
         /\ \A i \in 1..Len(bs[b].insts) : \A t \in TempsRead(bs[b].insts[i]) :
              t \in Nat /\ ReadAt(bs, t, b, i)
         /\ \A i \in 1..Len(bs[b].insts) : \A t \in TempsDefined(bs[b].insts[i]) :
              t \in Nat /\ DefAt(bs, t, b, i)
         /\ \A t \in TempsRead(bs[b].term) : t \in Nat /\ ReadAt(bs, t, b, 0)
<1>1. bs[b] \in BlockRecs /\ b \in Nat
  OBVIOUS
<1>2. bs[b].insts \in Seq(InstRecs) /\ bs[b].term \in TermRecs
  BY <1>1 DEF BlockRecs
<1>3. \A i \in 1..Len(bs[b].insts) : bs[b].insts[i] \in InstRecs /\ i \in Nat
  BY <1>2
<1>4. ASSUME NEW i \in 1..Len(bs[b].insts), NEW t \in TempsRead(bs[b].insts[i])
      PROVE  t \in Nat /\ ReadAt(bs, t, b, i)
  <2>1. bs[b].insts[i].args \in Seq(Values)
    BY <1>3 DEF InstRecs
  <2>2. t \in Nat /\ Uses(bs[b].insts[i].args, t)
    BY <2>1, TempsOfIs DEF TempsRead
  <2> QED
    BY <1>3, <2>2 DEF ReadAt
<1>5. ASSUME NEW i \in 1..Len(bs[b].insts), NEW t \in TempsDefined(bs[b].insts[i])
      PROVE  t \in Nat /\ DefAt(bs, t, b, i)
  <2>1. bs[b].insts[i].dst \in {NoTemp} \cup Nat
    BY <1>3 DEF InstRecs
  <2> QED
    BY <2>1 DEF TempsDefined, DefAt
<1>6. ASSUME NEW t \in TempsRead(bs[b].term)
      PROVE  t \in Nat /\ ReadAt(bs, t, b, 0)
  <2>1. bs[b].term.args \in Seq(Values)
    BY <1>2 DEF TermRecs
  <2>2. t \in Nat /\ Uses(bs[b].term.args, t)
    BY <2>1, TempsOfIs DEF TempsRead
  <2> QED
    BY <2>2 DEF ReadAt
<1> QED
  BY <1>1, <1>2, <1>3, <1>4, <1>5, <1>6

LEMMA DefsReadsAre ==
  ASSUME NEW bs \in Seq(BlockRecs), NEW b \in 1..Len(bs)
  PROVE  /\ \A t \in DefsUpTo(bs[b], Len(bs[b].insts)) :
              t \in Nat /\ \E i \in Nat : DefAt(bs, t, b, i)
         /\ \A t \in ReadsIn(bs[b]) : t \in Nat /\ \E i \in Nat : ReadAt(bs, t, b, i)
<1>1. ASSUME NEW t \in DefsUpTo(bs[b], Len(bs[b].insts))
      PROVE  t \in Nat /\ \E i \in Nat : DefAt(bs, t, b, i)
  <2>1. PICK i \in 1..Len(bs[b].insts) : t \in TempsDefined(bs[b].insts[i])
    BY DEF DefsUpTo
  <2> QED
    BY <2>1, BlockTemps
<1>2. ASSUME NEW t \in ReadsIn(bs[b])
      PROVE  t \in Nat /\ \E i \in Nat : ReadAt(bs, t, b, i)
  <2>1. CASE t \in TempsRead(bs[b].term)
    BY <2>1, BlockTemps
  <2>2. CASE t \notin TempsRead(bs[b].term)
    <3>1. PICK i \in 1..Len(bs[b].insts) : t \in TempsRead(bs[b].insts[i])
      BY <2>2 DEF ReadsIn, ReadsUpTo
    <3> QED
      BY <3>1, BlockTemps
  <2> QED
    BY <2>1, <2>2
<1> QED
  BY <1>1, <1>2

LEMMA UsesLocal ==
  ASSUME IInv, UsesAreLocal
  PROVE  AllLocal(blocks)
<1>1. BlocksOK(blocks, next_temp, next_slot)
  BY ShapeIs
<1>2. ASSUME NEW b \in 1..Len(blocks)
      PROVE  BlockLocal(blocks[b])
  <2>1. /\ blocks[b].insts \in Seq(InstRecs) /\ blocks[b].term \in TermRecs
    BY <1>1, BlockParts
  <2>2. Insts(b) = 1..Len(blocks[b].insts) /\ b \in BlockIds
    BY <2>1 DEF Insts, BlockIds
  <2>3. /\ \A i \in Insts(b) : ReadsOnly(InstAt(b, i).args, b, i - 1)
        /\ ReadsOnly(blocks[b].term.args, b, Len(blocks[b].insts))
    BY <2>2 DEF UsesAreLocal
  <2>4. ASSUME NEW i \in 1..Len(blocks[b].insts), NEW k \in 1..Len(blocks[b].insts[i].args)
        PROVE  Local(blocks[b].insts[i].args[k], blocks[b].insts, i - 1)
    <3>1. blocks[b].insts[i] \in InstRecs
      BY <2>1
    <3>2. blocks[b].insts[i].args \in Seq(Values)
      BY <3>1 DEF InstRecs
    <3>3. k \in DOMAIN (blocks[b].insts[i].args)
      BY <3>2
    <3>4. ReadsOnly(blocks[b].insts[i].args, b, i - 1)
      BY <2>2, <2>3 DEF InstAt
    <3> QED
      BY <3>3, <3>4 DEF ReadsOnly, DefinedIn, InstAt, Local
  <2>5. ASSUME NEW k \in 1..Len(blocks[b].term.args)
        PROVE  Local(blocks[b].term.args[k], blocks[b].insts, Len(blocks[b].insts))
    <3>1. blocks[b].term.args \in Seq(Values)
      BY <2>1 DEF TermRecs
    <3>2. k \in DOMAIN (blocks[b].term.args)
      BY <3>1
    <3> QED
      BY <2>3, <3>2 DEF ReadsOnly, DefinedIn, InstAt, Local
  <2> QED
    BY <2>4, <2>5 DEF BlockLocal
<1> QED
  BY <1>2 DEF AllLocal
-----------------------------------------------------------------------------
\* What the walk has made of the function can be lowered.
LEMMA FitsBlock ==
  ASSUME GenInv, ~Running, NEW b \in 1..Len(blocks)
  PROVE  BlockFits(blocks[b], next_temp, UsesAreLocal)
<1> DEFINE blk == blocks[b]
           n == Len(blocks[b].insts)
<1>1. /\ IInv /\ CodeOK(blocks, {}) /\ ~Open(blocks, b) /\ AllProper(blocks)
  BY Zenon DEF GenInv, Temps, Control
<1>2. BlocksOK(blocks, next_temp, next_slot) /\ blocks \in Seq(BlockRecs) /\ next_temp \in Nat
  BY <1>1, ShapeIs DEF BlocksOK
<1>3. /\ b \in Nat /\ n \in Nat /\ blk.term \in TermRecs
      /\ \A i \in 1..n : blk.insts[i] \in InstRecs /\ i \in Nat
      /\ \A i \in 1..n : \A t \in TempsRead(blk.insts[i]) : t \in Nat /\ ReadAt(blocks, t, b, i)
      /\ \A i \in 1..n : \A t \in TempsDefined(blk.insts[i]) : t \in Nat /\ DefAt(blocks, t, b, i)
      /\ \A t \in TempsRead(blk.term) : t \in Nat /\ ReadAt(blocks, t, b, 0)
  BY <1>2, BlockTemps
<1>4. \A c, k, t \in Nat : DefAt(blocks, t, c, k) => t \in 0..next_temp - 1
  <2> SUFFICES ASSUME NEW c \in Nat, NEW k \in Nat, NEW t \in Nat, DefAt(blocks, t, c, k)
               PROVE  t \in 0..next_temp - 1
    OBVIOUS
  <2>1. InstOK(blocks[c].insts[k], next_temp, next_slot) /\ blocks[c].insts[k].dst = t
    BY <1>2 DEF BlocksOK, DefAt
  <2> QED
    BY <2>1 DEF InstOK, NoTemp
<1>5. \A c, k, t \in Nat : ReadAt(blocks, t, c, k) => t \in 0..next_temp - 1
  BY <1>1, <1>4 DEF CodeOK
<1>6. ASSUME NEW i \in 1..n
      PROVE  /\ blk.insts[i].type # "IR_STORE" => blk.insts[i].dst # NoTemp
             /\ TempsDefined(blk.insts[i]) \in SUBSET (0..next_temp - 1)
             /\ blk.insts[i].type = "IR_CALL"
                  => Len(blk.insts[i].args) <= 8 /\ Distinct(blk.insts[i].args)
             /\ TempsRead(blk.insts[i]) \in SUBSET (0..next_temp - 1)
             /\ \A t \in TempsRead(blk.insts[i]) : t \notin TempsRead(blk.term)
  <2>1. Proper(blk.insts[i])
    BY <1>1 DEF AllProper
  <2>2. Arities \cup 0..1 \subseteq 0..7
    BY MachineLimits
  <2>3. \A m \in 0..7 : m <= 8
    OBVIOUS
  <2>4. /\ blk.insts[i].type # "IR_STORE" => blk.insts[i].dst # NoTemp
        /\ blk.insts[i].type = "IR_CALL"
             => Len(blk.insts[i].args) \in Arities \cup 0..1 /\ Distinct(blk.insts[i].args)
    BY <2>1, Zenon DEF Proper
  <2>5. blk.insts[i].type = "IR_CALL"
          => Len(blk.insts[i].args) <= 8 /\ Distinct(blk.insts[i].args)
    BY <2>2, <2>3, <2>4
  <2>6. /\ TempsDefined(blk.insts[i]) \in SUBSET (0..next_temp - 1)
        /\ TempsRead(blk.insts[i]) \in SUBSET (0..next_temp - 1)
    BY <1>3, <1>4, <1>5
  <2>7. \A t \in TempsRead(blk.insts[i]) : t \notin TempsRead(blk.term)
    <3> SUFFICES ASSUME NEW t \in TempsRead(blk.insts[i]), t \in TempsRead(blk.term)
                 PROVE  FALSE
      OBVIOUS
    <3>1. t \in Nat /\ ReadAt(blocks, t, b, i) /\ ReadAt(blocks, t, b, 0) /\ i \in Nat /\ 0 \in Nat
      BY <1>3
    <3>2. i = 0
      BY <1>1, <1>3, <3>1 DEF CodeOK
    <3> QED
      BY <3>2
  <2> QED
    BY <2>4, <2>5, <2>6, <2>7
<1>7. ASSUME NEW i \in 1..n, NEW j \in 1..n
      PROVE  /\ blk.insts[i].dst = blk.insts[j].dst => i = j \/ blk.insts[i].dst = NoTemp
             /\ \A t \in TempsRead(blk.insts[i]) : t \in TempsRead(blk.insts[j]) => i = j
  <2>1. ASSUME blk.insts[i].dst = blk.insts[j].dst, blk.insts[i].dst # NoTemp
        PROVE  i = j
    <3> DEFINE t == blk.insts[i].dst
    <3>1. t \in TempsDefined(blk.insts[i]) /\ t \in TempsDefined(blk.insts[j])
      BY <2>1 DEF TempsDefined
    <3>2. t \in Nat /\ DefAt(blocks, t, b, i) /\ DefAt(blocks, t, b, j) /\ i \in Nat /\ j \in Nat
      BY <1>3, <3>1
    <3> HIDE DEF t
    <3> QED
      BY <1>1, <1>3, <3>2 DEF CodeOK
  <2>2. ASSUME NEW t \in TempsRead(blk.insts[i]), t \in TempsRead(blk.insts[j])
        PROVE  i = j
    <3>1. t \in Nat /\ ReadAt(blocks, t, b, i) /\ ReadAt(blocks, t, b, j) /\ i \in Nat /\ j \in Nat
      BY <1>3, <2>2
    <3> QED
      BY <1>1, <1>3, <3>1 DEF CodeOK
  <2> QED
    BY <2>1, <2>2
<1>8. TempsRead(blk.term) \in SUBSET (0..next_temp - 1)
  BY <1>3, <1>5
<1>9. blk.term.type # "IR_UNDEFINED"
  <2>1. TermFits(blk.term) /\ blk.term # Undefined
    BY <1>1, <1>3 DEF TermRecs, Open
  <2> QED
    BY <2>1 DEF TermFits
<1>10. UsesAreLocal => BlockLocal(blk)
  BY <1>1, UsesLocal DEF AllLocal
<1> HIDE DEF blk
<1>11. BlockFits(blk, next_temp, UsesAreLocal)
  BY <1>6, <1>7, <1>8, <1>9, <1>10, Zenon DEF BlockFits, blk
<1> QED
  BY <1>11 DEF blk

LEMMA FitsFunction ==
  ASSUME GenInv, ~Running
  PROVE  /\ FunctionFits(blocks, next_temp, UsesAreLocal) /\ blocks # <<>>
         /\ \A b \in 1..Len(blocks) : \A k \in 1..Len(blocks[b].term.to) :
              blocks[b].term.to[k] \in 1..Len(blocks)
<1>1. IInv /\ CodeOK(blocks, {})
  BY Zenon DEF GenInv, Temps
<1>2. /\ BlocksOK(blocks, next_temp, next_slot) /\ blocks \in Seq(BlockRecs) /\ next_temp \in Nat
      /\ curr \in 1..Len(blocks)
  BY <1>1, ShapeIs DEF BlocksOK, IInv
<1>3. ASSUME NEW b \in 1..Len(blocks), NEW c \in 1..Len(blocks), b # c
      PROVE  /\ \A t \in DefsUpTo(blocks[b], Len(blocks[b].insts)) :
                  t \notin DefsUpTo(blocks[c], Len(blocks[c].insts))
             /\ \A t \in ReadsIn(blocks[b]) : t \notin ReadsIn(blocks[c])
  <2>1. b \in Nat /\ c \in Nat
    BY <1>2
  <2>2. ASSUME NEW t \in DefsUpTo(blocks[b], Len(blocks[b].insts)),
               t \in DefsUpTo(blocks[c], Len(blocks[c].insts))
        PROVE  FALSE
    <3>1. /\ t \in Nat /\ \E i \in Nat : DefAt(blocks, t, b, i)
          /\ \E i \in Nat : DefAt(blocks, t, c, i)
      BY <1>2, <2>2, DefsReadsAre
    <3> QED
      BY <1>1, <1>3, <2>1, <3>1 DEF CodeOK
  <2>3. ASSUME NEW t \in ReadsIn(blocks[b]), t \in ReadsIn(blocks[c])
        PROVE  FALSE
    <3>1. /\ t \in Nat /\ \E i \in Nat : ReadAt(blocks, t, b, i)
          /\ \E i \in Nat : ReadAt(blocks, t, c, i)
      BY <1>2, <2>3, DefsReadsAre
    <3> QED
      BY <1>1, <1>3, <2>1, <3>1 DEF CodeOK
  <2> QED
    BY <2>2, <2>3
<1>4. \A b \in 1..Len(blocks) : BlockFits(blocks[b], next_temp, UsesAreLocal)
  BY FitsBlock
<1>5. FunctionFits(blocks, next_temp, UsesAreLocal)
  BY <1>2, <1>3, <1>4, Zenon DEF FunctionFits
<1>6. blocks # <<>>
  BY <1>2
<1> QED
  BY <1>2, <1>5, <1>6 DEF BlocksOK

\* The LIR keeps its promise.
LEMMA LIRKept ==
  ASSUME GenInv, ~Running
  PROVE  LIRFits(lower_mir_to_lir(blocks, next_temp), UsesAreLocal)
BY FitsFunction, FunctionLowered
-----------------------------------------------------------------------------
\* In the back end the scan starts on whatever the passes before it made of the
\* function; none of the other stages touches its state.
LEMMA ScanStep ==
  ASSUME ScanInv, Scan
  PROVE  ScanInv'
<1>1. [ScanNext]_scanvars
  BY DEF ScanNext
<1> QED
  BY <1>1, NextScanInv

LEMMA OtherSteps ==
  ASSUME [BackendNext]_allvars, ~Allocate, ~BuildRanges
  PROVE  UNCHANGED scanvars
<1>1. CASE Walk
  BY <1>1, Zenon DEF Walk
<1>2. CASE Lower \/ Emitted
  BY <1>2, Zenon DEF Lower, Emitted
<1>3. CASE FetchOperands \/ OutOfScratch
  BY <1>3, Zenon DEF FetchOperands, OutOfScratch
<1>4. CASE Execute
  BY <1>4, Zenon DEF Execute
<1>5. CASE Goto \/ Return
  BY <1>5, Zenon DEF Goto, Return
<1>6. CASE Over \/ UNCHANGED allvars
  BY <1>6, Zenon DEF Over, allvars
<1> QED
  BY <1>1, <1>2, <1>3, <1>4, <1>5, <1>6, Zenon DEF BackendNext

LEMMA BackendScan ==
  ASSUME ScanInv, [BackendNext]_allvars
  PROVE  ScanInv'
<1>1. CASE UNCHANGED scanvars
  BY <1>1, StutterScanInv
<1>2. CASE Allocate
  BY <1>2, ScanStep DEF Allocate
<1>3. CASE BuildRanges
  <2> DEFINE s == construct_ranges(lir)
             i == ScanInput(lir, s)
  <2>1. UNCHANGED scanvars \/ (WellFormed(i) /\ Begin(i))
    BY <1>3, Zenon DEF BuildRanges
  <2> HIDE DEF i
  <2> QED
    BY <1>1, <2>1, BeginScanInv
<1> QED
  BY <1>1, <1>2, <1>3, OtherSteps
-----------------------------------------------------------------------------
\* What the pipeline hands on: once the walk is over the function stays as it
\* is, and what was lowered keeps the promises of the lowering.
Handed ==
  /\ GenInv
  /\ stage # "mir" => ~Running /\ lir = lower_mir_to_lir(blocks, next_temp)

LEMMA InitHanded == BackendInit => Handed
BY InitGen DEF BackendInit, Handed

LEMMA StutterGen ==
  ASSUME GenInv, UNCHANGED vars
  PROVE  GenInv'
<1>1. [Next]_vars /\ IInv /\ Temps /\ Control /\ ~foreign /\ AllProper(blocks)
      /\ (Running => walk[1].base = 0)
  BY Zenon DEF GenInv
<1>2. IInv' /\ Temps' /\ Control'
  BY <1>1, StepIInv, StepTemps, StepControl, Zenon
<1>3. walk' = walk /\ blocks' = blocks
  BY DEF vars
<1>5. foreign' = foreign
  BY DEF vars, program
<1>4. AllProper(blocks)' /\ ~foreign' /\ (Running' => walk'[1].base = 0)
  BY <1>1, <1>3, <1>5, Zenon DEF Running
<1> QED
  BY <1>2, <1>4, Zenon DEF GenInv

LEMMA StutterHanded ==
  ASSUME Handed, UNCHANGED <<vars, lir>>, stage # "mir" \/ stage' = stage
  PROVE  Handed'
<1>1. UNCHANGED vars
  BY Zenon
<1>2. GenInv' /\ (Running' <=> Running) /\ blocks' = blocks /\ next_temp' = next_temp
  <2>1. GenInv /\ UNCHANGED vars
    BY <1>1 DEF Handed
  <2> QED
    BY <2>1, StutterGen DEF vars, Running
<1>3. stage' # "mir" => stage # "mir"
  BY Zenon
<1> QED
  BY <1>2, <1>3, Zenon DEF Handed
-----------------------------------------------------------------------------
\* What a step of the back end does to the function and to the stage.
LEMMA LaterSteps ==
  ASSUME Emitted \/ FetchOperands \/ OutOfScratch \/ Execute \/ Goto \/ Return
  PROVE  UNCHANGED <<vars, lir>> /\ stage # "mir"
<1>1. CASE Emitted \/ OutOfScratch
  BY <1>1, Zenon DEF Emitted, OutOfScratch
<1>2. CASE FetchOperands
  BY <1>2, Zenon DEF FetchOperands
<1>3. CASE Execute
  BY <1>3, Zenon DEF Execute
<1>4. CASE Goto \/ Return
  BY <1>4, Zenon DEF Goto, Return
<1> QED
  BY <1>1, <1>2, <1>3, <1>4, Zenon

LEMMA StepHanded ==
  ASSUME Handed, [BackendNext]_allvars
  PROVE  Handed'
<1>1. CASE Walk
  <2>1. stage' = "mir" /\ GenInv'
    <3>1. GenInv /\ (Expression \/ Statement) /\ stage' = "mir"
      BY <1>1, Zenon DEF Walk, Handed
    <3> QED
      BY <3>1, StepGen
  <2> QED
    BY <2>1, Zenon DEF Handed
<1>2. CASE Lower
  <2>1. /\ GenInv /\ UNCHANGED vars /\ ~Running
        /\ lir' = lower_mir_to_lir(blocks, next_temp)
    BY <1>2, Zenon DEF Lower, Handed
  <2>2. GenInv'
    BY <2>1, StutterGen
  <2>3. blocks' = blocks /\ next_temp' = next_temp /\ walk' = walk
    BY <2>1 DEF vars
  <2>4. ~Running'
    BY <2>1, <2>3 DEF Running
  <2>5. lir' = lower_mir_to_lir(blocks', next_temp')
    BY <2>1, <2>3, Zenon
  <2> QED
    BY <2>2, <2>4, <2>5, Zenon DEF Handed
<1>3. CASE BuildRanges \/ Allocate
  <2>1. UNCHANGED <<vars, lir>> /\ stage # "mir"
    BY <1>3, Zenon DEF BuildRanges, Allocate
  <2> QED
    BY <2>1, StutterHanded
<1>4. CASE Emitted \/ FetchOperands \/ OutOfScratch \/ Execute \/ Goto \/ Return
  BY <1>4, LaterSteps, StutterHanded
<1>5. CASE Over \/ UNCHANGED allvars
  <2>1. UNCHANGED <<vars, lir>> /\ stage' = stage
    BY <1>5, Zenon DEF Over, allvars
  <2> QED
    BY <2>1, StutterHanded
<1> QED
  BY <1>1, <1>2, <1>3, <1>4, <1>5, Zenon DEF BackendNext

LEMMA LIRIsFit ==
  ASSUME Handed, stage # "mir"
  PROVE  LIRFits(lir, UsesAreLocal)
<1>1. GenInv /\ ~Running /\ lir = lower_mir_to_lir(blocks, next_temp)
  BY Zenon DEF Handed
<1>2. LIRFits(lower_mir_to_lir(blocks, next_temp), UsesAreLocal)
  BY <1>1, LIRKept
<1> QED
  BY <1>1, <1>2, Zenon
-----------------------------------------------------------------------------
\* The stages at which the code is being run.
AtRun == stage \in {"operands", "execute"}

\* A location the run can use: a register of the two files, and the prologue
\* saves it if it is a callee-saved one; a slot; or none.
Usable(l, used) ==
  l.kind = "LOC_PREG" => /\ l.id \in PReg
                         /\ l.id \in CalleeSaved => l.id \in used

\* The register file of the machine, of which a function owns the callee-saved
\* registers it saves and the ones a call may destroy.
Owned ==
  /\ DOMAIN regs = 0..28
  /\ stage \in {"mir", "lir", "regalloc"} =>
       /\ pc = <<1, 1>>
       /\ \A r \in CalleeSaved : regs[r] = Caller(r)
  /\ AtRun =>
       /\ \A v \in VRegsOf(lir) : Usable(loc[v], used_callee_regs)
       /\ pc[1] \in 1..Len(lir.blocks) /\ pc[2] \in 1..Len(CodeOf(lir, pc[1]))
       /\ \A r \in CalleeSaved \ used_callee_regs : regs[r] = Caller(r)
  /\ stage = "execute" => scratch \in ScratchChoices(Current, loc)
  /\ CalleeSavedPreserved

LEMMA CalleeIs ==
  /\ CalleeSaved \subseteq 19..28
  /\ PReg \subseteq 9..28 /\ CallerSaved \subseteq 9..18
BY MachineLimits, RegisterFiles DEF CalleeSaved, PReg, CallerSaved, CALLER_SAVED_BASE,
   CALLEE_SAVED_BASE

LEMMA InitOwned == BackendInit => Owned
<1> SUFFICES ASSUME BackendInit PROVE Owned
  OBVIOUS
<1>1. /\ stage = "mir" /\ pc = <<1, 1>>
      /\ regs = [r \in 0..28 |-> IF r \in ArgRegs THEN Arg(r)
                                 ELSE IF r \in CallClobbers THEN Junk ELSE Caller(r)]
  BY Zenon DEF BackendInit
<1>2. DOMAIN regs = 0..28
  BY <1>1
<1>3. ASSUME NEW r \in CalleeSaved PROVE regs[r] = Caller(r)
  <2>1. r \in 0..28 /\ r \notin ArgRegs /\ r \notin CallClobbers
    BY CalleeIs DEF ArgRegs, CallClobbers
  <2> QED
    BY <1>1, <2>1
<1> QED
  BY <1>1, <1>2, <1>3 DEF Owned, AtRun, CalleeSavedPreserved

\* The register a vreg is printed as is none the caller wants back.
LEMMA WritesAreOwned ==
  ASSUME NEW v, Usable(loc[v], used_callee_regs), NEW f,
         loc[v].kind = "LOC_SLOT" => f[v] \in Scratch
  PROVE  RegOf(v, loc, f) \in 0..28 \ (CalleeSaved \ used_callee_regs)
<1>1. arch_reg_name(9) = 8 /\ \A p : p # 9 => arch_reg_name(p) = p
  BY DEF arch_reg_name
<1>2. CASE loc[v].kind = "LOC_PREG"
  <2>1. RegOf(v, loc, f) = arch_reg_name(loc[v].id)
    BY <1>2 DEF RegOf
  <2>2. loc[v].id \in PReg /\ (loc[v].id \in CalleeSaved => loc[v].id \in used_callee_regs)
    BY <1>2 DEF Usable
  <2>3. CASE loc[v].id = 9
    BY <1>1, <2>1, <2>3, CalleeIs
  <2>4. CASE loc[v].id # 9
    <3>1. RegOf(v, loc, f) = loc[v].id
      BY <1>1, <2>1, <2>4, Zenon
    <3>2. loc[v].id \in 0..28
      <4>1. 9..28 \subseteq 0..28
        OBVIOUS
      <4> QED
        BY <2>2, <4>1, CalleeIs, Zenon
    <3>3. loc[v].id \notin CalleeSaved \ used_callee_regs
      BY <2>2, Zenon
    <3> QED
      BY <3>1, <3>2, <3>3, Zenon
  <2> QED
    BY <2>3, <2>4
<1>3. CASE loc[v].kind = "LOC_SLOT"
  <2>1. RegOf(v, loc, f) = arch_reg_name(f[v])
    BY <1>3 DEF RegOf
  <2> QED
    BY <1>1, <1>3, <2>1, CalleeIs DEF Scratch
<1>4. CASE loc[v].kind # "LOC_PREG" /\ loc[v].kind # "LOC_SLOT"
  <2>1. RegOf(v, loc, f) = arch_reg_name(DeadDef)
    BY <1>4 DEF RegOf
  <2> QED
    BY <1>1, <2>1, CalleeIs DEF DeadDef
<1> QED
  BY <1>2, <1>3, <1>4
-----------------------------------------------------------------------------
\* A step that leaves the machine, its code and the registers to save alone.
LEMMA IdleOwned ==
  ASSUME Owned, UNCHANGED <<regs, pc, lir, loc, used_callee_regs>>,
         ~AtRun', stage' # "returned" \/ stage = "returned",
         stage' \in {"mir", "lir", "regalloc"} => stage \in {"mir", "lir", "regalloc"}
  PROVE  Owned'
<1>1. stage' # "execute"
  BY DEF AtRun
<1> QED
  BY <1>1 DEF Owned, CalleeSavedPreserved

LEMMA StutterOwned ==
  ASSUME Owned, UNCHANGED allvars
  PROVE  Owned'
<1>1. /\ UNCHANGED <<regs, pc, lir, loc, used_callee_regs, scratch, stage>>
  BY DEF allvars, scanvars, runvars
<1>2. CalleeSavedPreserved' /\ AtRun' = AtRun
  BY <1>1 DEF CalleeSavedPreserved, Owned, AtRun
<1>3. stage = "execute" => scratch' \in ScratchChoices(Current', loc')
  BY <1>1, Zenon DEF Owned, Current, Code
<1>4. AtRun => \A v \in VRegsOf(lir') : Usable(loc'[v], used_callee_regs')
  BY <1>1 DEF Owned, AtRun
<1> QED
  BY <1>1, <1>2, <1>3, <1>4 DEF Owned, AtRun

LEMMA CompilerOwned ==
  ASSUME Owned, Walk \/ Lower \/ BuildRanges \/ Allocate
  PROVE  Owned'
<1>1. /\ UNCHANGED <<regs, pc, loc>> /\ stage \in {"mir", "lir", "regalloc"}
      /\ stage' \in {"mir", "lir", "regalloc", "aborted", "undefined"}
  <2>1. CASE Walk \/ Lower
    BY <2>1 DEF Walk, Lower, runvars
  <2>2. CASE BuildRanges
    <3>1. /\ UNCHANGED <<regs, pc, loc>> /\ stage = "lir"
          /\ stage' \in {"regalloc", "aborted", "undefined"}
      BY <2>2, Zenon DEF BuildRanges, runvars
    <3> QED
      BY <3>1
  <2>3. CASE Allocate
    BY <2>3 DEF Allocate, runvars
  <2> QED
    BY <2>1, <2>2, <2>3
<1>2. ~AtRun' /\ stage' # "execute" /\ stage' # "returned"
  BY <1>1 DEF AtRun
<1> QED
  BY <1>1, <1>2 DEF Owned, CalleeSavedPreserved

LEMMA EmittedOwned ==
  ASSUME Owned, ScanInv, LIRFits(lir, UsesAreLocal), Emitted
  PROVE  Owned'
<1>1. /\ stage = "regalloc" /\ stage' = "operands" /\ phase = "done"
      /\ loc' = [v \in VRegsOf(lir) |->
                   IF \E k \in Ranges : in.vreg[k] = v
                     THEN locs[CHOOSE k \in Ranges : in.vreg[k] = v] ELSE UNINIT]
      /\ lir' = lir /\ pc' = pc /\ regs' = regs /\ used_callee_regs' = used_callee_regs
  BY DEF Emitted, scanvars, runvars
<1>2. ASSUME NEW v \in VRegsOf(lir) PROVE Usable(loc'[v], used_callee_regs')
  <2>1. CASE \E k \in Ranges : in.vreg[k] = v
    <3>1. PICK k \in Ranges : loc'[v] = locs[k]
      BY <1>1, <2>1
    <3>2. /\ InPreg(k) => locs[k].id \in PReg
          /\ InPreg(k) /\ locs[k].id \in CalleeSaved => locs[k].id \in used_callee_regs
      BY <1>1, Zenon DEF ScanInv, AssignedAgrees, CalleeSavedAreTracked
    <3> QED
      BY <1>1, <3>1, <3>2 DEF Usable, InPreg
  <2>2. CASE ~\E k \in Ranges : in.vreg[k] = v
    <3>1. loc'[v] = UNINIT
      BY <1>1, <2>2
    <3> QED
      BY <3>1 DEF Usable, UNINIT
  <2> QED
    BY <2>1, <2>2
<1>3. pc' = <<1, 1>> /\ \A r \in CalleeSaved : regs[r] = Caller(r)
  BY <1>1 DEF Owned
<1>4. 1 \in 1..Len(lir.blocks) /\ 1 \in 1..Len(CodeOf(lir, 1))
  <2>1. Len(lir.blocks) \in Nat \ {0} /\ lir.blocks \in Seq(LBlocks)
    BY DEF LIRFits
  <2>2. lir.blocks[1].insts \in Seq(BodyInsts)
    <3>1. lir.blocks[1] \in LBlocks
      BY <2>1
    <3> QED
      BY <3>1 DEF LBlocks
  <2>3. Len(CodeOf(lir, 1)) = Len(lir.blocks[1].insts) + 1 /\ Len(lir.blocks[1].insts) \in Nat
    BY <2>2, AppendProperties DEF CodeOf
  <2> QED
    BY <2>1, <2>3
<1>5. /\ pc'[1] \in 1..Len(lir'.blocks) /\ pc'[2] \in 1..Len(CodeOf(lir', pc'[1]))
      /\ \A v \in VRegsOf(lir') : Usable(loc'[v], used_callee_regs')
  <2>1. pc'[1] = 1 /\ pc'[2] = 1 /\ lir' = lir
    BY <1>1, <1>3
  <2> QED
    BY <1>2, <1>4, <2>1, Zenon
<1>6. \A r \in CalleeSaved \ used_callee_regs' : regs'[r] = Caller(r)
  BY <1>1, <1>3
<1>7. CalleeSavedPreserved' /\ stage' = "operands" /\ DOMAIN regs' = 0..28
  BY <1>1 DEF CalleeSavedPreserved, Owned
<1> QED
  BY <1>5, <1>6, <1>7 DEF Owned
-----------------------------------------------------------------------------
\* The instruction under way is one of the code's.
LEMMA CurrentFits ==
  ASSUME Owned, LIRFits(lir, UsesAreLocal), AtRun
  PROVE  /\ FitsOp(Current)
         /\ Current.def \in {NoVReg} \cup VRegsOf(lir)
         /\ UsedBy(Current) \subseteq VRegsOf(lir)
         /\ Len(Code(pc[1])) \in Nat /\ pc[2] \in 1..Len(Code(pc[1]))
         /\ AtTerm => Current = lir.blocks[pc[1]].term
         /\ ~AtTerm => Current \in BodyInsts
<1> DEFINE b == pc[1]
           i == pc[2]
           code == CodeOf(lir, b)
<1>1. b \in 1..Len(lir.blocks) /\ i \in 1..Len(code)
  BY Zenon DEF Owned
<1>2. Code(b) = code /\ Current = code[i]
  BY Zenon DEF Code, CodeOf, Current
<1>3. /\ FitsOp(code[i]) /\ code[i].def \in {NoVReg} \cup VRegsOf(lir)
      /\ UsedBy(code[i]) \subseteq VRegsOf(lir)
  BY <1>1, Zenon DEF LIRFits
<1>4. lir.blocks[b].insts \in Seq(BodyInsts)
  <2>1. lir.blocks[b] \in LBlocks
    BY <1>1 DEF LIRFits
  <2> QED
    BY <2>1 DEF LBlocks
<1>5. /\ Len(code) = Len(lir.blocks[b].insts) + 1 /\ Len(lir.blocks[b].insts) \in Nat
      /\ code[Len(lir.blocks[b].insts) + 1] = lir.blocks[b].term
      /\ \A k \in 1..Len(lir.blocks[b].insts) : code[k] = lir.blocks[b].insts[k]
  <2> DEFINE s == lir.blocks[b].insts
             t == lir.blocks[b].term
  <2>1. code = Append(s, t)
    BY DEF CodeOf
  <2> HIDE DEF s, t, code
  <2>2. s \in Seq(BodyInsts)
    BY <1>4 DEF s
  <2>3. /\ Len(code) = Len(s) + 1 /\ Len(s) \in Nat
        /\ code[Len(s) + 1] = t
        /\ \A k \in 1..Len(s) : code[k] = s[k]
    BY <2>1, <2>2
  <2> QED
    BY <2>3 DEF s, t
<1> HIDE DEF code, b, i
<1>6. AtTerm <=> i = Len(code)
  BY <1>2, Zenon DEF AtTerm, b, i
<1>7. Len(code) \in Nat /\ (i = Len(code) => code[i] = lir.blocks[b].term)
  BY <1>5
<1>8. ASSUME i # Len(code) PROVE code[i] \in BodyInsts
  <2>1. i \in 1..Len(lir.blocks[b].insts)
    BY <1>1, <1>5, <1>8
  <2> QED
    BY <1>4, <1>5, <2>1
<1> QED
  BY <1>1, <1>2, <1>3, <1>6, <1>7, <1>8, Zenon DEF b, i

\* The spilled operands get scratch registers, which nobody else has.
LEMMA ScratchIs ==
  ASSUME NEW inst, NEW l, NEW f \in ScratchChoices(inst, l)
  PROVE  DOMAIN f = SpilledIn(inst, l) /\ \A v \in DOMAIN f : f[v] \in Scratch
<1>1. PICK rs \in SUBSET Scratch : f \in [SpilledIn(inst, l) -> rs]
  BY DEF ScratchChoices
<1> QED
  BY <1>1

LEMMA FetchOwned ==
  ASSUME Owned, LIRFits(lir, UsesAreLocal), FetchOperands
  PROVE  Owned'
<1>1. /\ stage = "operands" /\ stage' = "execute"
      /\ lir' = lir /\ pc' = pc /\ loc' = loc /\ used_callee_regs' = used_callee_regs
  BY Zenon DEF FetchOperands, scanvars
<1>2. PICK f \in ScratchChoices(Current, loc) :
        /\ scratch' = f
        /\ regs' = [r \in DOMAIN regs |->
                      IF \E v \in DOMAIN f : v \in UsedBy(Current) /\ arch_reg_name(f[v]) = r
                        THEN InFrame(loc[CHOOSE v \in DOMAIN f :
                                           v \in UsedBy(Current) /\ f[v] = r].id)
                        ELSE regs[r]]
  BY Zenon DEF FetchOperands
<1>3. \A v \in DOMAIN f : arch_reg_name(f[v]) \in Scratch
  <2>1. \A v \in DOMAIN f : f[v] \in Scratch
    BY ScratchIs
  <2>2. \A p \in Scratch : arch_reg_name(p) \in Scratch
    BY DEF Scratch, arch_reg_name
  <2> QED
    BY <2>1, <2>2
<1>4. DOMAIN regs' = 0..28
  BY <1>2 DEF Owned
<1>5. ASSUME NEW r \in CalleeSaved \ used_callee_regs PROVE regs'[r] = Caller(r)
  <2>1. r \notin Scratch /\ r \in DOMAIN regs
    BY CalleeIs DEF Scratch, Owned
  <2>2. regs'[r] = regs[r]
    BY <1>2, <1>3, <2>1
  <2> QED
    BY <1>1, <2>2 DEF Owned, AtRun
<1>6. Current' = Current
  BY <1>1, Zenon DEF Current, Code
<1>7. /\ pc'[1] \in 1..Len(lir'.blocks) /\ pc'[2] \in 1..Len(CodeOf(lir', pc'[1]))
      /\ \A v \in VRegsOf(lir') : Usable(loc'[v], used_callee_regs')
  BY <1>1 DEF Owned, AtRun
<1>8. scratch' \in ScratchChoices(Current', loc')
  BY <1>1, <1>2, <1>6
<1> QED
  BY <1>1, <1>4, <1>5, <1>7, <1>8 DEF Owned, CalleeSavedPreserved
-----------------------------------------------------------------------------
\* The place of the next instruction, here and in another block.
LEMMA SuccessorsAre ==
  ASSUME Owned, LIRFits(lir, UsesAreLocal), AtRun
  PROVE  /\ ~AtTerm => pc[2] + 1 \in 1..Len(CodeOf(lir, pc[1]))
         /\ \A s \in succs_of(lir, pc[1]) :
              s \in 1..Len(lir.blocks) /\ 1 \in 1..Len(CodeOf(lir, s))
<1>1. Code(pc[1]) = CodeOf(lir, pc[1]) /\ pc[1] \in 1..Len(lir.blocks)
  BY Zenon DEF Code, CodeOf, Owned
<1>2. Len(Code(pc[1])) \in Nat /\ pc[2] \in 1..Len(Code(pc[1]))
  BY CurrentFits
<1>3. ~AtTerm => pc[2] + 1 \in 1..Len(CodeOf(lir, pc[1]))
  <2>1. ~AtTerm => pc[2] # Len(Code(pc[1]))
    BY Zenon DEF AtTerm
  <2>2. pc[2] # Len(Code(pc[1])) => pc[2] + 1 \in 1..Len(Code(pc[1]))
    BY <1>2
  <2> QED
    BY <1>1, <2>1, <2>2, Zenon
<1>4. ASSUME NEW s \in succs_of(lir, pc[1])
      PROVE  s \in 1..Len(lir.blocks) /\ 1 \in 1..Len(CodeOf(lir, s))
  <2>1. lir.blocks \in Seq(LBlocks) /\ Len(lir.blocks) \in Nat
    BY DEF LIRFits
  <2>2. lir.blocks[pc[1]] \in LBlocks
    BY <1>1, <2>1
  <2>3. DOMAIN lir.blocks[pc[1]].succs = 1..Len(lir.blocks[pc[1]].succs)
    BY <2>2 DEF LBlocks
  <2>4. s \in 1..Len(lir.blocks)
    BY <1>1, <2>3 DEF succs_of, LIRFits
  <2>5. lir.blocks[s].insts \in Seq(BodyInsts)
    <3>1. lir.blocks[s] \in LBlocks
      BY <2>1, <2>4
    <3> QED
      BY <3>1 DEF LBlocks
  <2>6. Len(CodeOf(lir, s)) = Len(lir.blocks[s].insts) + 1 /\ Len(lir.blocks[s].insts) \in Nat
    BY <2>5, AppendProperties DEF CodeOf
  <2> QED
    BY <2>4, <2>6
<1> QED
  BY <1>3, <1>4

\* What the registers hold after a definition, or after a write to one the
\* function owns.
LEMMA WriteKeeps ==
  ASSUME NEW base, NEW r, NEW x, DOMAIN base = 0..28, r \notin CalleeSaved \ used_callee_regs,
         \A q \in CalleeSaved \ used_callee_regs : base[q] = Caller(q)
  PROVE  /\ DOMAIN [base EXCEPT ![r] = x] = 0..28
         /\ \A q \in CalleeSaved \ used_callee_regs : [base EXCEPT ![r] = x][q] = Caller(q)
OBVIOUS

LEMMA DefinitionOwned ==
  ASSUME Owned, LIRFits(lir, UsesAreLocal), stage = "execute", Current.def # NoVReg
  PROVE  Reg(Current.def) \in 0..28 \ (CalleeSaved \ used_callee_regs)
<1> DEFINE v == Current.def
<1>1. v \in VRegsOf(lir)
  BY CurrentFits, Zenon DEF AtRun
<1>2. Usable(loc[v], used_callee_regs)
  BY <1>1 DEF Owned, AtRun
<1>3. scratch \in ScratchChoices(Current, loc)
  BY DEF Owned
<1>4. loc[v].kind = "LOC_SLOT" => scratch[v] \in Scratch
  <2>1. v \in VRegsIn(Current)
    BY Zenon DEF VRegsIn
  <2>2. loc[v].kind = "LOC_SLOT" => v \in SpilledIn(Current, loc)
    BY <2>1, Zenon DEF SpilledIn
  <2> QED
    BY <1>3, <2>2, ScratchIs, Zenon
<1>5. RegOf(v, loc, scratch) \in 0..28 \ (CalleeSaved \ used_callee_regs)
  BY <1>2, <1>4, WritesAreOwned
<1> QED
  BY <1>5 DEF Reg

LEMMA ExecuteOwned ==
  ASSUME Owned, LIRFits(lir, UsesAreLocal), Execute
  PROVE  Owned'
<1>1. /\ stage = "execute" /\ stage' = "operands" /\ ~AtTerm
      /\ lir' = lir /\ loc' = loc /\ used_callee_regs' = used_callee_regs
      /\ pc' = <<pc[1], pc[2] + 1>>
  BY DEF Execute, scanvars
<1>2. AtRun
  BY <1>1 DEF AtRun
<1>3. FitsOp(Current) /\ Current \in BodyInsts
  BY <1>1, <1>2, CurrentFits
<1>4. /\ DOMAIN regs = 0..28
      /\ \A q \in CalleeSaved \ used_callee_regs : regs[q] = Caller(q)
  BY <1>2 DEF Owned
<1>5. /\ DOMAIN regs' = 0..28
      /\ \A q \in CalleeSaved \ used_callee_regs : regs'[q] = Caller(q)
  <2>1. CASE Current.op = "LIRCall"
    <3> DEFINE base == [AfterCall EXCEPT ![0] = VReg(Current.def)]
    <3>1. regs' = [base EXCEPT ![Reg(Current.def)] = VReg(Current.def)]
      BY <1>1, <2>1 DEF Execute, Define
    <3>2. Reg(Current.def) \notin CalleeSaved \ used_callee_regs
      BY <1>1, <1>3, <2>1, DefinitionOwned DEF FitsOp
    <3>3. /\ DOMAIN AfterCall = 0..28
          /\ \A q \in CalleeSaved \ used_callee_regs : AfterCall[q] = Caller(q)
      <4>1. \A q \in CalleeSaved : q \in 0..28 /\ q \notin CallClobbers
        BY CalleeIs DEF CallClobbers
      <4> QED
        BY <1>4, <4>1 DEF AfterCall
    <3>4. 0 \notin CalleeSaved \ used_callee_regs
      BY CalleeIs
    <3>5. /\ DOMAIN base = 0..28
          /\ \A q \in CalleeSaved \ used_callee_regs : base[q] = Caller(q)
      BY <3>3, <3>4, WriteKeeps
    <3> HIDE DEF base
    <3> QED
      BY <3>1, <3>2, <3>5, WriteKeeps
  <2>2. CASE Current.op = "LIRArgPut"
    <3>1. regs' = [regs EXCEPT ![Current.args[1]] = regs[Reg(Current.uses[1])]]
      BY <1>1, <2>2 DEF Execute
    <3>2. Current.args[1] \notin CalleeSaved \ used_callee_regs
      BY <1>3, <2>2, CalleeIs DEF FitsOp, ArgRegs
    <3> QED
      BY <1>4, <3>1, <3>2, WriteKeeps
  <2>3. CASE Current.op = "LIRStore"
    <3>1. regs' = regs
      BY <1>1, <2>3 DEF Execute
    <3> QED
      BY <1>4, <3>1
  <2>4. CASE Current.op \notin {"LIRCall", "LIRArgPut", "LIRStore"}
    <3>1. regs' = [regs EXCEPT ![Reg(Current.def)] = VReg(Current.def)]
      BY <1>1, <2>4 DEF Execute, Define
    <3>2. Current.op \in BodyOps
      BY <1>3 DEF BodyInsts
    <3>3. Current.def # NoVReg
      BY <1>3, <2>4, <3>2 DEF FitsOp, BodyOps
    <3>4. Reg(Current.def) \notin CalleeSaved \ used_callee_regs
      BY <1>1, <3>3, DefinitionOwned
    <3> QED
      BY <1>4, <3>1, <3>4, WriteKeeps
  <2> QED
    BY <2>1, <2>2, <2>3, <2>4
<1>6. /\ pc'[1] \in 1..Len(lir'.blocks) /\ pc'[2] \in 1..Len(CodeOf(lir', pc'[1]))
  <2>1. pc'[1] = pc[1] /\ pc'[2] = pc[2] + 1
    BY <1>1
  <2> QED
    <3>1. pc[2] + 1 \in 1..Len(CodeOf(lir, pc[1])) /\ pc[1] \in 1..Len(lir.blocks)
      BY <1>1, <1>2, SuccessorsAre DEF Owned
    <3> QED
      BY <1>1, <2>1, <3>1
<1>7. \A v \in VRegsOf(lir') : Usable(loc'[v], used_callee_regs')
  BY <1>1, <1>2 DEF Owned
<1> QED
  BY <1>1, <1>5, <1>6, <1>7 DEF Owned, CalleeSavedPreserved
-----------------------------------------------------------------------------
LEMMA GotoOwned ==
  ASSUME Owned, LIRFits(lir, UsesAreLocal), Goto
  PROVE  Owned'
<1>1. /\ stage = "execute" /\ stage' = "operands" /\ regs' = regs
      /\ lir' = lir /\ loc' = loc /\ used_callee_regs' = used_callee_regs
      /\ \E s \in succs_of(lir, pc[1]) : pc' = <<s, 1>>
  BY DEF Goto, scanvars
<1>2. AtRun
  BY <1>1 DEF AtRun
<1>3. PICK s \in succs_of(lir, pc[1]) : pc' = <<s, 1>>
  BY <1>1
<1>4. s \in 1..Len(lir.blocks) /\ 1 \in 1..Len(CodeOf(lir, s))
  BY <1>2, SuccessorsAre
<1>5. /\ pc'[1] \in 1..Len(lir'.blocks) /\ pc'[2] \in 1..Len(CodeOf(lir', pc'[1]))
  <2>1. pc'[1] = s /\ pc'[2] = 1
    BY <1>3
  <2> QED
    BY <1>1, <1>4, <2>1
<1>6. /\ \A v \in VRegsOf(lir') : Usable(loc'[v], used_callee_regs')
      /\ DOMAIN regs' = 0..28
      /\ \A r \in CalleeSaved \ used_callee_regs' : regs'[r] = Caller(r)
  BY <1>1, <1>2 DEF Owned
<1> QED
  BY <1>1, <1>5, <1>6 DEF Owned, CalleeSavedPreserved

\* The epilogue brings back what the prologue saved; the rest was never touched.
LEMMA ReturnOwned ==
  ASSUME Owned, Return
  PROVE  Owned'
<1>1. /\ stage = "execute" /\ stage' = "returned"
      /\ regs' = [r \in DOMAIN regs |-> IF r \in used_callee_regs THEN Caller(r) ELSE regs[r]]
  BY DEF Return
<1>2. /\ DOMAIN regs = 0..28
      /\ \A r \in CalleeSaved \ used_callee_regs : regs[r] = Caller(r)
  BY <1>1 DEF Owned, AtRun
<1>3. ASSUME NEW r \in CalleeSaved PROVE regs'[r] = Caller(r)
  <2>1. r \in DOMAIN regs
    BY <1>2, CalleeIs
  <2> QED
    BY <1>1, <1>2, <2>1
<1>4. DOMAIN regs' = 0..28
  BY <1>1, <1>2
<1>5. ~AtRun'
  BY <1>1 DEF AtRun
<1> QED
  BY <1>1, <1>3, <1>4, <1>5 DEF Owned, CalleeSavedPreserved

LEMMA StepOwned ==
  ASSUME Owned, ScanInv, Handed, [BackendNext]_allvars
  PROVE  Owned'
<1>1. CASE Walk \/ Lower \/ BuildRanges \/ Allocate
  BY <1>1, CompilerOwned
<1>2. CASE Emitted \/ FetchOperands \/ Execute \/ Goto
  <2>1. LIRFits(lir, UsesAreLocal)
    BY <1>2, LaterSteps, LIRIsFit
  <2> QED
    BY <1>2, <2>1, EmittedOwned, FetchOwned, ExecuteOwned, GotoOwned
<1>3. CASE Return
  BY <1>3, ReturnOwned
<1>4. CASE OutOfScratch
  <2>1. /\ UNCHANGED <<regs, pc, lir, loc, used_callee_regs>> /\ stage' = "undefined"
    BY <1>4 DEF OutOfScratch, scanvars, runvars
  <2>2. ~AtRun'
    BY <2>1 DEF AtRun
  <2> QED
    BY <2>1, <2>2, IdleOwned
<1>5. CASE Over \/ UNCHANGED allvars
  <2>1. UNCHANGED allvars
    BY <1>5, Zenon DEF Over
  <2> QED
    BY <2>1, StutterOwned
<1> QED
  BY <1>1, <1>2, <1>3, <1>4, <1>5, Zenon DEF BackendNext
-----------------------------------------------------------------------------
\* note_use and note_def for one instruction.
Noted(s, i) ==
  [use |-> s.use \cup (UsedBy(i) \ s.def), def |-> s.def \cup ({i.def} \ {NoVReg})]

NotedAlong(f, block) ==
  f = [n \in 0..Len(block.insts) |->
         IF n = 0 THEN [use |-> {}, def |-> {}] ELSE Noted(f[n - 1], block.insts[n])]

UseDefs == [use : SUBSET Int, def : SUBSET Int]

NotesLeadTo(f, block) ==
  /\ f[0] = [use |-> {}, def |-> {}]
  /\ \A k \in 1..Len(block.insts) : f[k] = Noted(f[k - 1], block.insts[k])
  /\ \A k \in 0..Len(block.insts) : f[k] \in UseDefs
  /\ use_def(block) = f[Len(block.insts)]

LEMMA UsedAreInts ==
  ASSUME NEW x, x \in LInsts \/ x \in BodyInsts
  PROVE  UsedBy(x) \in SUBSET Int /\ x.def \in Int
<1>1. x \in LInsts
  BY BodyFits
<1>2. x.uses \in Seq(Int) /\ x.def \in Int
  BY <1>1 DEF LInsts
<1>3. \A k \in DOMAIN x.uses : x.uses[k] \in Int
  BY <1>2
<1> QED
  BY <1>2, <1>3 DEF UsedBy

LEMMA NotedIs ==
  ASSUME NEW y \in UseDefs, NEW i \in BodyInsts
  PROVE  Noted(y, i) \in UseDefs
<1>1. UsedBy(i) \in SUBSET Int /\ i.def \in Int
  BY UsedAreInts
<1> QED
  BY <1>1 DEF Noted, UseDefs

LEMMA NotesGoAlong ==
  ASSUME NEW block \in LBlocks
  PROVE  \E f : NotesLeadTo(f, block)
<1> DEFINE n == Len(block.insts)
           X == UseDefs
           x == [use |-> {}, def |-> {}]
           step == [k \in 1..n |-> [y \in X |-> Noted(y, block.insts[k])]]
           h == CHOOSE f : NotedAlong(f, block)
<1>1. x \in X /\ n \in Nat /\ \A k \in 1..n : block.insts[k] \in BodyInsts
  <2>1. block.insts \in Seq(BodyInsts)
    BY DEF LBlocks
  <2> QED
    BY <2>1 DEF UseDefs
<1>2. \A k \in 1..n : \A y \in X : Noted(y, block.insts[k]) \in X
  BY <1>1, NotedIs
<1>3. step \in [1..n -> [X -> X]]
  BY <1>2
<1>4. PICK g \in [0..n -> X] : g[0] = x /\ \A k \in 1..n : g[k] = step[k][g[k - 1]]
  <2> HIDE DEF x, step, n, X
  <2>1. \E g : RecursiveTo(g, n, X, x, step)
    BY <1>1, <1>3, RecursionUpTo
  <2> QED
    BY <2>1 DEF RecursiveTo
<1>5. \A k \in 1..n : k - 1 \in 0..n /\ g[k - 1] \in X
  BY <1>1, <1>4
<1>6. g = [k \in 0..n |-> IF k = 0 THEN x ELSE Noted(g[k - 1], block.insts[k])]
  <2>1. \A k \in 0..n : k # 0 => k \in 1..n
    BY <1>1
  <2> HIDE DEF x, n, X
  <2>2. \A k \in 1..n : g[k] = Noted(g[k - 1], block.insts[k])
    BY <1>4, <1>5
  <2> QED
    BY <1>4, <2>1, <2>2
<1>7. NotedAlong(g, block)
  BY <1>6 DEF NotedAlong
<1>8. NotedAlong(h, block)
  BY <1>7
<1>9. use_def(block) = h[n]
  BY DEF use_def, NotedAlong, Noted
<1> HIDE DEF h, step
<1>10. \A k \in 0..n : h[k] = IF k = 0 THEN x ELSE Noted(h[k - 1], block.insts[k])
  BY Zenon, <1>8 DEF NotedAlong
<1> HIDE DEF x, n, X
<1>11. h[0] = x /\ \A k \in 1..n : h[k] = Noted(h[k - 1], block.insts[k])
  BY <1>1, <1>10
<1>12. \A k \in 0..n : h[k] \in X
  <2> DEFINE S == {k \in 0..n : h[k] \in X}
  <2>1. 0 \in S /\ n \in 0..n
    BY <1>1, <1>11
  <2>2. ASSUME NEW k \in 1..n, k - 1 \in S PROVE k \in S
    <3>1. k \in 0..n /\ h[k - 1] \in X
      BY <2>2, <1>1
    <3> QED
      BY <1>2, <1>11, <3>1
  <2> HIDE DEF S
  <2>3. \A k \in 0..n : k \in S
    BY <1>1, <2>1, <2>2, InductionUpTo
  <2> QED
    BY <2>3 DEF S
<1>13. NotesLeadTo(h, block)
  BY <1>9, <1>11, <1>12 DEF NotesLeadTo, x, n, X
<1> QED
  BY <1>13

LEMMA UseDefIs ==
  ASSUME NEW block \in LBlocks
  PROVE  use_def(block) \in UseDefs
<1>1. PICK f : NotesLeadTo(f, block)
  BY NotesGoAlong
<1>2. block.insts \in Seq(BodyInsts)
  BY DEF LBlocks
<1>3. Len(block.insts) \in 0..Len(block.insts)
  BY <1>2
<1> QED
  BY <1>1, <1>3 DEF NotesLeadTo

\* A block whose uses have their definitions further up uses nothing of before.
LEMMA NothingUsedFromBefore ==
  ASSUME NEW block \in LBlocks,
         \A i \in 1..Len(block.insts) : \A u \in UsedBy(block.insts[i]) :
           u # NoVReg /\ Given(block.insts, i - 1, u)
  PROVE  use_def(block).use = {}
<1> DEFINE n == Len(block.insts)
           code == block.insts
<1>1. n \in Nat /\ \A k \in 1..n : code[k] \in BodyInsts
  <2>1. block.insts \in Seq(BodyInsts)
    BY DEF LBlocks
  <2> QED
    BY <2>1
<1>2. PICK f : NotesLeadTo(f, block)
  BY NotesGoAlong
<1> DEFINE P(k) == /\ f[k].use = {}
                   /\ \A j \in 1..k : code[j].def \in f[k].def \cup {NoVReg}
           S == {k \in 0..n : P(k)}
<1>3. /\ f[0] = [use |-> {}, def |-> {}]
      /\ \A k \in 1..n : f[k] = Noted(f[k - 1], code[k])
      /\ use_def(block) = f[n]
  BY <1>2 DEF NotesLeadTo
<1>4. 0 \in S
  <2>1. f[0].use = {} /\ 1..0 = {} /\ 0 \in 0..n
    BY <1>1, <1>3
  <2> QED
    BY <2>1
<1>5. ASSUME NEW k \in 1..n, k - 1 \in S PROVE k \in S
  <2>1. P(k - 1) /\ k \in 0..n
    BY <1>1, <1>5
  <2>2. /\ f[k].use = f[k - 1].use \cup (UsedBy(code[k]) \ f[k - 1].def)
        /\ f[k].def = f[k - 1].def \cup ({code[k].def} \ {NoVReg})
    <3>1. f[k] = Noted(f[k - 1], code[k])
      BY <1>3
    <3> HIDE DEF code
    <3> QED
      BY <3>1 DEF Noted
  <2>3. UsedBy(code[k]) \subseteq f[k - 1].def
    <3>1. ASSUME NEW u \in UsedBy(code[k]) PROVE u \in f[k - 1].def
      <4>1. u # NoVReg /\ Given(code, k - 1, u)
        BY Zenon
      <4>2. PICK j \in 1..k - 1 : code[j].def = u
        BY <4>1, Zenon DEF Given
      <4> QED
        BY <2>1, <4>1, <4>2
    <3> QED
      BY <3>1
  <2>4. f[k].use = {}
    BY <2>1, <2>2, <2>3
  <2>5. ASSUME NEW j \in 1..k PROVE code[j].def \in f[k].def \cup {NoVReg}
    <3>1. j \in 1..k - 1 \/ j = k
      BY <1>1
    <3> QED
      BY <2>1, <2>2, <3>1
  <2> QED
    BY <2>1, <2>4, <2>5
<1>6. n \in S
  <2> HIDE DEF S, n
  <2>1. \A k \in 0..n : k \in S
    BY <1>1, <1>4, <1>5, InductionUpTo
  <2>2. n \in 0..n
    BY <1>1
  <2> QED
    BY <2>1, <2>2
<1> QED
  BY <1>3, <1>6
-----------------------------------------------------------------------------
\* A function whose blocks lead to blocks of its own.
Graph(code) ==
  /\ code.blocks \in Seq(LBlocks) /\ Len(code.blocks) \in Nat \ {0}
  /\ \A b \in 1..Len(code.blocks) : code.blocks[b].succs \in Seq(1..Len(code.blocks))

LEMMA GraphIs ==
  ASSUME NEW code, NEW L, LIRFits(code, L)
  PROVE  Graph(code)
<1>1. /\ code.blocks \in Seq(LBlocks) /\ Len(code.blocks) \in Nat \ {0}
  BY DEF LIRFits
<1>2. ASSUME NEW b \in 1..Len(code.blocks)
      PROVE  code.blocks[b].succs \in Seq(1..Len(code.blocks))
  <2> DEFINE s == code.blocks[b].succs
  <2>1. code.blocks[b] \in LBlocks
    BY <1>1
  <2>2. s \in Seq(Nat)
    BY <2>1 DEF LBlocks
  <2>3. \A k \in 1..Len(s) : s[k] \in 1..Len(code.blocks)
    BY DEF LIRFits
  <2> HIDE DEF s
  <2>4. s = [k \in 1..Len(s) |-> s[k]] /\ Len(s) \in Nat
    BY <2>2
  <2>5. s \in [1..Len(s) -> 1..Len(code.blocks)]
    BY <2>3, <2>4
  <2>6. s \in Seq(1..Len(code.blocks))
    BY <2>4, <2>5, IsASeq
  <2> QED
    BY <2>6 DEF s
<1> QED
  BY <1>1, <1>2 DEF Graph

Orders(code) == [visited : SUBSET DOMAIN code.blocks, stack : Seq(DOMAIN code.blocks)]
Visits(code) == [DOMAIN code.blocks -> [Orders(code) -> Orders(code)]]

\* What a call does that goes on with g for the successors of b.
SuccsAlong(f, g, succs, order, b) ==
  f = [n \in 0..Len(succs) |->
         IF n = 0 THEN [order EXCEPT !.visited = @ \cup {b}] ELSE g[succs[n]][f[n - 1]]]

AfterSuccs(g, succs, order, b) == CHOOSE f : SuccsAlong(f, g, succs, order, b)

Pushed(order, b) == [order EXCEPT !.stack = Append(@, b)]

VisitOf(g, code, order, b) ==
  LET succs == code.blocks[b].succs IN
  Pushed(AfterSuccs(g, succs, order, b)[Len(succs)], b)

CallsAlong(c, code) ==
  c = [depth \in 0..Len(code.blocks) + 1 |->
         [b \in DOMAIN code.blocks |-> [order \in Orders(code) |->
            IF depth = 0 \/ b \in order.visited THEN order
            ELSE VisitOf(c[depth - 1], code, order, b)]]]

LEMMA VisitedFirst ==
  ASSUME NEW code, NEW b \in DOMAIN code.blocks, NEW order \in Orders(code)
  PROVE  [order EXCEPT !.visited = @ \cup {b}] \in Orders(code)
BY DEF Orders

LEMMA PushedIs ==
  ASSUME NEW code, NEW b \in DOMAIN code.blocks, NEW order \in Orders(code)
  PROVE  /\ Pushed(order, b) \in Orders(code)
         /\ Pushed(order, b).visited = order.visited
         /\ Pushed(order, b).stack = Append(order.stack, b)
<1>1. order.stack \in Seq(DOMAIN code.blocks) /\ order.visited \in SUBSET DOMAIN code.blocks
  BY DEF Orders
<1>2. Append(order.stack, b) \in Seq(DOMAIN code.blocks)
  BY <1>1, AppendProperties
<1> QED
  BY <1>1, <1>2 DEF Orders, Pushed

\* f is the order after each successor.
SuccsLeadTo(f, g, code, succs, order, b) ==
  /\ f[0] = [order EXCEPT !.visited = @ \cup {b}]
  /\ \A k \in 1..Len(succs) : f[k] = g[succs[k]][f[k - 1]]
  /\ \A k \in 0..Len(succs) : f[k] \in Orders(code)
  /\ AfterSuccs(g, succs, order, b) = f

LEMMA SuccsGoAlong ==
  ASSUME NEW code, NEW g \in Visits(code), NEW succs \in Seq(DOMAIN code.blocks),
         NEW order \in Orders(code), NEW b \in DOMAIN code.blocks
  PROVE  \E f : SuccsLeadTo(f, g, code, succs, order, b)
<1> DEFINE n == Len(succs)
           X == Orders(code)
           x == [order EXCEPT !.visited = @ \cup {b}]
           step == [k \in 1..n |-> [y \in X |-> g[succs[k]][y]]]
           h == AfterSuccs(g, succs, order, b)
<1>1. x \in X /\ n \in Nat /\ \A k \in 1..n : succs[k] \in DOMAIN code.blocks
  BY VisitedFirst
<1>2. \A k \in 1..n : \A y \in X : g[succs[k]][y] \in X
  BY <1>1 DEF Visits
<1>3. step \in [1..n -> [X -> X]]
  BY <1>2
<1>4. PICK f \in [0..n -> X] : f[0] = x /\ \A k \in 1..n : f[k] = step[k][f[k - 1]]
  <2> HIDE DEF x, step, n, X
  <2>1. \E f : RecursiveTo(f, n, X, x, step)
    BY <1>1, <1>3, RecursionUpTo
  <2> QED
    BY <2>1 DEF RecursiveTo
<1>5. \A k \in 1..n : k - 1 \in 0..n /\ f[k - 1] \in X
  BY <1>1, <1>4
<1>6. f = [k \in 0..n |-> IF k = 0 THEN x ELSE g[succs[k]][f[k - 1]]]
  <2>1. \A k \in 0..n : k # 0 => k \in 1..n
    BY <1>1
  <2> HIDE DEF x, n, X
  <2>2. \A k \in 1..n : f[k] = g[succs[k]][f[k - 1]]
    BY <1>4, <1>5
  <2> QED
    BY <1>4, <2>1, <2>2
<1>7. SuccsAlong(f, g, succs, order, b)
  BY <1>6 DEF SuccsAlong
<1>8. SuccsAlong(h, g, succs, order, b)
  BY <1>7 DEF AfterSuccs
<1> HIDE DEF h, step
<1>9. \A k \in 0..n : h[k] = IF k = 0 THEN x ELSE g[succs[k]][h[k - 1]]
  BY Zenon, <1>8 DEF SuccsAlong
<1> HIDE DEF x, n, X
<1>10. h[0] = x /\ \A k \in 1..n : h[k] = g[succs[k]][h[k - 1]]
  BY <1>1, <1>9
<1>11. \A k \in 0..n : h[k] \in X
  <2> DEFINE S == {k \in 0..n : h[k] \in X}
  <2>1. 0 \in S /\ n \in 0..n
    BY <1>1, <1>10
  <2>2. ASSUME NEW k \in 1..n, k - 1 \in S PROVE k \in S
    <3>1. k \in 0..n /\ h[k - 1] \in X
      BY <2>2, <1>1
    <3> QED
      BY <1>2, <1>10, <3>1
  <2> HIDE DEF S
  <2>3. \A k \in 0..n : k \in S
    BY <1>1, <2>1, <2>2, InductionUpTo
  <2> QED
    BY <2>3 DEF S
<1>12. SuccsLeadTo(h, g, code, succs, order, b)
  BY <1>10, <1>11 DEF SuccsLeadTo, x, n, X, h
<1> QED
  BY <1>12
-----------------------------------------------------------------------------
LEMMA VisitIs ==
  ASSUME NEW code, Graph(code), NEW g \in Visits(code), NEW b \in DOMAIN code.blocks,
         NEW order \in Orders(code)
  PROVE  VisitOf(g, code, order, b) \in Orders(code)
<1> DEFINE succs == code.blocks[b].succs
<1>1. succs \in Seq(DOMAIN code.blocks) 
  <2>1. DOMAIN code.blocks = 1..Len(code.blocks)
    BY DEF Graph
  <2>2. code.blocks[b].succs \in Seq(1..Len(code.blocks))
    BY <2>1 DEF Graph
  <2> QED
    BY <2>1, <2>2, Zenon
<1>2. PICK f : SuccsLeadTo(f, g, code, succs, order, b)
  BY <1>1, SuccsGoAlong
<1>3. Len(succs) \in 0..Len(succs)
  BY <1>1
<1>4. f[Len(succs)] \in Orders(code)
  BY <1>2, <1>3 DEF SuccsLeadTo
<1>5. VisitOf(g, code, order, b) = Pushed(f[Len(succs)], b)
  BY <1>2, Zenon DEF VisitOf, SuccsLeadTo
<1> QED
  BY <1>4, <1>5, PushedIs

\* The call for b and what it does to the order, if it may call as deep as that.
CallOf(g, code, b) ==
  [order \in Orders(code) |->
     IF b \in order.visited THEN order ELSE VisitOf(g, code, order, b)]

\* c is what a call does, by how deep it may call.
CallsLeadTo(c, code) ==
  /\ \A k \in 0..Len(code.blocks) + 1 : c[k] \in Visits(code)
  /\ \A b \in DOMAIN code.blocks : \A order \in Orders(code) : c[0][b][order] = order
  /\ \A k \in 1..Len(code.blocks) + 1 :
       \A b \in DOMAIN code.blocks : \A order \in Orders(code) :
         c[k][b][order]
           = IF b \in order.visited THEN order ELSE VisitOf(c[k - 1], code, order, b)
  /\ add_succ_blocks(code) = c[Len(code.blocks) + 1]

LEMMA CallsGoAlong ==
  ASSUME NEW code, Graph(code)
  PROVE  \E c : CallsLeadTo(c, code)
<1> DEFINE D == DOMAIN code.blocks
           n == Len(code.blocks) + 1
           X == Visits(code)
           x == [b \in D |-> [order \in Orders(code) |-> order]]
           step == [k \in 1..n |-> [g \in X |-> [b \in D |-> CallOf(g, code, b)]]]
           h == CHOOSE c : CallsAlong(c, code)
<1>1. n \in Nat /\ 0 # n
  BY DEF Graph
<1>2. x \in X
  BY DEF Visits
<1>3. ASSUME NEW g \in X, NEW b \in D
      PROVE  CallOf(g, code, b) \in [Orders(code) -> Orders(code)]
  BY VisitIs DEF CallOf
<1>4. \A g \in X : [b \in D |-> CallOf(g, code, b)] \in X
  BY <1>3 DEF Visits
<1>5. step \in [1..n -> [X -> X]]
  BY <1>4
<1>6. PICK f \in [0..n -> X] : f[0] = x /\ \A k \in 1..n : f[k] = step[k][f[k - 1]]
  <2> HIDE DEF x, step, n, X
  <2>1. \E f : RecursiveTo(f, n, X, x, step)
    BY <1>1, <1>2, <1>5, RecursionUpTo
  <2> QED
    BY <2>1 DEF RecursiveTo
<1>7. \A k \in 1..n : k - 1 \in 0..n /\ f[k - 1] \in X
  BY <1>1, <1>6
<1> DEFINE at(c, k) ==
             [b \in D |-> [order \in Orders(code) |->
                IF k = 0 \/ b \in order.visited THEN order
                ELSE VisitOf(c[k - 1], code, order, b)]]
<1>8. f = [k \in 0..n |-> at(f, k)]
  <2>1. \A k \in 0..n : k # 0 => k \in 1..n
    BY <1>1
  <2>2. x = at(f, 0)
    OBVIOUS
  <2>3. \A k \in 1..n : f[k] = [b \in D |-> CallOf(f[k - 1], code, b)]
    BY <1>6, <1>7
  <2>4. ASSUME NEW k \in 1..n PROVE f[k] = at(f, k)
    <3>1. k # 0
      BY <1>1
    <3>2. \A b \in D : CallOf(f[k - 1], code, b)
                         = [order \in Orders(code) |->
                              IF k = 0 \/ b \in order.visited THEN order
                              ELSE VisitOf(f[k - 1], code, order, b)]
      BY <3>1 DEF CallOf
    <3> QED
      BY <2>3, <3>2
  <2> HIDE DEF x, n, X, at
  <2> QED
    BY <1>6, <2>1, <2>2, <2>4
<1>9. CallsAlong(f, code)
  BY <1>8 DEF CallsAlong
<1>10. CallsAlong(h, code)
  BY <1>9
<1>11. add_succ_blocks(code) = h[n]
  BY DEF add_succ_blocks, CallsAlong, VisitOf, AfterSuccs, SuccsAlong, Pushed, Orders
<1> HIDE DEF h, step
<1>12. h = [k \in 0..n |-> at(h, k)]
  BY <1>10, Zenon DEF CallsAlong
<1>13. \A k \in 0..n : \A b \in D : \A order \in Orders(code) :
         h[k][b][order] = IF k = 0 \/ b \in order.visited THEN order
                          ELSE VisitOf(h[k - 1], code, order, b)
  <2>1. \A k \in 0..n : h[k] = at(h, k)
    <3> HIDE DEF at
    <3> QED
      BY <1>12
  <2>2. \A k : \A b \in D : \A order \in Orders(code) :
          at(h, k)[b][order] = IF k = 0 \/ b \in order.visited THEN order
                               ELSE VisitOf(h[k - 1], code, order, b)
    OBVIOUS
  <2> HIDE DEF at, D, n
  <2> QED
    BY <2>1, <2>2
<1>14. \A k \in 0..n : h[k] \in X
  <2> DEFINE S == {k \in 0..n : h[k] \in X}
  <2>1. 0 \in S /\ n \in 0..n
    <3>1. h[0] = at(h, 0) /\ 0 \in 0..n /\ n \in 0..n
      BY <1>1, <1>12
    <3>2. at(h, 0) = x
      OBVIOUS
    <3> QED
      BY <1>2, <3>1, <3>2
  <2>2. ASSUME NEW k \in 1..n, k - 1 \in S PROVE k \in S
    <3>1. k \in 0..n /\ h[k - 1] \in X /\ k # 0
      BY <2>2, <1>1
    <3>2. h[k] = at(h, k)
      BY <1>12, <3>1
    <3>3. at(h, k) = [b \in D |-> CallOf(h[k - 1], code, b)]
      <4>1. \A b \in D : CallOf(h[k - 1], code, b)
                           = [order \in Orders(code) |->
                                IF k = 0 \/ b \in order.visited THEN order
                                ELSE VisitOf(h[k - 1], code, order, b)]
        BY <3>1 DEF CallOf
      <4> QED
        BY <4>1
    <3> QED
      BY <1>4, <3>1, <3>2, <3>3
  <2> HIDE DEF S
  <2>3. \A k \in 0..n : k \in S
    BY <1>1, <2>1, <2>2, InductionUpTo
  <2> QED
    BY <2>3 DEF S
<1>15. /\ \A b \in D : \A order \in Orders(code) : h[0][b][order] = order
       /\ \A k \in 1..n : \A b \in D : \A order \in Orders(code) :
            h[k][b][order] = IF b \in order.visited THEN order
                             ELSE VisitOf(h[k - 1], code, order, b)
  <2>1. 0 \in 0..n /\ \A k \in 1..n : k \in 0..n /\ k # 0
    BY <1>1
  <2> HIDE DEF n, D
  <2> QED
    BY <1>13, <2>1
<1>16. CallsLeadTo(h, code)
  BY <1>11, <1>14, <1>15, Zenon DEF CallsLeadTo
<1> QED
  BY <1>16

LEMMA BlockStackIs ==
  ASSUME NEW code, Graph(code)
  PROVE  block_stack(code) \in Seq(1..Len(code.blocks))
<1>1. PICK c : CallsLeadTo(c, code)
  BY CallsGoAlong
<1>2. Len(code.blocks) + 1 \in 0..Len(code.blocks) + 1 /\ 1 \in DOMAIN code.blocks
      /\ DOMAIN code.blocks = 1..Len(code.blocks)
  BY DEF Graph
<1>3. add_succ_blocks(code) \in Visits(code)
  BY <1>1, <1>2 DEF CallsLeadTo
<1>4. NothingVisited \in Orders(code)
  <2>1. <<>> \in Seq(DOMAIN code.blocks)
    OBVIOUS
  <2> QED
    BY <2>1 DEF NothingVisited, Orders
<1>5. add_succ_blocks(code)[1][NothingVisited] \in Orders(code)
  BY <1>2, <1>3, <1>4 DEF Visits
<1> QED
  BY <1>2, <1>5 DEF block_stack, Orders
-----------------------------------------------------------------------------
\* What the sweep over the blocks does for one of them.
OutOf(s, code, b) == UNION {s.in[c] : c \in succs_of(code, b)}

Swept(s, code, b) ==
  LET ud == use_def(code.blocks[b]) IN
  [in  |-> [s.in EXCEPT ![b] = ud.use \cup (OutOf(s, code, b) \ ud.def)],
   out |-> [s.out EXCEPT ![b] = OutOf(s, code, b)]]

InOuts(code) == [in : [DOMAIN code.blocks -> SUBSET Int],
                 out : [DOMAIN code.blocks -> SUBSET Int]]

EmptySets(code) == [in |-> [b \in DOMAIN code.blocks |-> {}],
                    out |-> [b \in DOMAIN code.blocks |-> {}]]

SweptAlong(f, code) ==
  f = [n \in 0..Len(block_stack(code)) |->
         IF n = 0 THEN EmptySets(code)
         ELSE Swept(f[n - 1], code, block_stack(code)[n])]

SweepsLeadTo(f, code) ==
  /\ f[0] = EmptySets(code)
  /\ \A k \in 1..Len(block_stack(code)) : f[k] = Swept(f[k - 1], code, block_stack(code)[k])
  /\ \A k \in 0..Len(block_stack(code)) : f[k] \in InOuts(code)
  /\ construct_in_out(code) = f[Len(block_stack(code))]

LEMMA SuccsOfIs ==
  ASSUME NEW code, Graph(code), NEW b \in DOMAIN code.blocks
  PROVE  succs_of(code, b) \subseteq DOMAIN code.blocks
<1>1. DOMAIN code.blocks = 1..Len(code.blocks)
  BY DEF Graph
<1>2. code.blocks[b].succs \in Seq(DOMAIN code.blocks)
  BY <1>1 DEF Graph
<1>3. \A k \in DOMAIN code.blocks[b].succs : code.blocks[b].succs[k] \in DOMAIN code.blocks
  BY <1>2
<1> QED
  BY <1>3 DEF succs_of

LEMMA SweptIs ==
  ASSUME NEW code, Graph(code), NEW s \in InOuts(code), NEW b \in DOMAIN code.blocks
  PROVE  /\ Swept(s, code, b) \in InOuts(code)
         /\ OutOf(s, code, b) \in SUBSET Int
<1> DEFINE out == OutOf(s, code, b)
           ud == use_def(code.blocks[b])
<1>1. s.in \in [DOMAIN code.blocks -> SUBSET Int] /\ s.out \in [DOMAIN code.blocks -> SUBSET Int]
  BY DEF InOuts
<1>2. out \in SUBSET Int
  <2>1. \A c \in succs_of(code, b) : s.in[c] \in SUBSET Int
    BY <1>1, SuccsOfIs
  <2> QED
    BY <2>1 DEF OutOf
<1>3. ud \in UseDefs
  <2>1. code.blocks[b] \in LBlocks
    BY DEF Graph
  <2> QED
    BY <2>1, UseDefIs
<1> HIDE DEF out, ud
<1>4. ud.use \cup (out \ ud.def) \in SUBSET Int
  BY <1>2, <1>3 DEF UseDefs
<1>5. /\ [s.in EXCEPT ![b] = ud.use \cup (out \ ud.def)] \in [DOMAIN code.blocks -> SUBSET Int]
      /\ [s.out EXCEPT ![b] = out] \in [DOMAIN code.blocks -> SUBSET Int]
  BY <1>1, <1>2, <1>4
<1>6. Swept(s, code, b) = [in |-> [s.in EXCEPT ![b] = ud.use \cup (out \ ud.def)],
                           out |-> [s.out EXCEPT ![b] = out]]
  BY Zenon DEF Swept, out, ud
<1>7. Swept(s, code, b) \in InOuts(code)
  BY <1>5, <1>6 DEF InOuts
<1> QED
  BY <1>2, <1>7 DEF out

LEMMA SweepsGoAlong ==
  ASSUME NEW code, Graph(code)
  PROVE  \E f : SweepsLeadTo(f, code)
<1> DEFINE stack == block_stack(code)
           n == Len(stack)
           X == InOuts(code)
           x == EmptySets(code)
           step == [k \in 1..n |-> [y \in X |-> Swept(y, code, stack[k])]]
           h == CHOOSE f : SweptAlong(f, code)
<1>1. n \in Nat /\ \A k \in 1..n : stack[k] \in DOMAIN code.blocks
  <2>1. stack \in Seq(1..Len(code.blocks)) /\ DOMAIN code.blocks = 1..Len(code.blocks)
    BY BlockStackIs DEF Graph
  <2> QED
    BY <2>1
<1>2. x \in X
  BY DEF EmptySets, InOuts
<1> HIDE DEF stack
<1>3. \A k \in 1..n : \A y \in X : Swept(y, code, stack[k]) \in X
  BY <1>1, SweptIs
<1>4. step \in [1..n -> [X -> X]]
  BY <1>3
<1>5. PICK f \in [0..n -> X] : f[0] = x /\ \A k \in 1..n : f[k] = step[k][f[k - 1]]
  <2> HIDE DEF x, step, n, X
  <2>1. \E f : RecursiveTo(f, n, X, x, step)
    BY <1>1, <1>2, <1>4, RecursionUpTo
  <2> QED
    BY <2>1 DEF RecursiveTo
<1>6. \A k \in 1..n : k - 1 \in 0..n /\ f[k - 1] \in X
  BY <1>1, <1>5
<1>7. f = [k \in 0..n |-> IF k = 0 THEN x ELSE Swept(f[k - 1], code, stack[k])]
  <2>1. \A k \in 0..n : k # 0 => k \in 1..n
    BY <1>1
  <2> HIDE DEF x, n, X
  <2>2. \A k \in 1..n : f[k] = Swept(f[k - 1], code, stack[k])
    BY <1>5, <1>6
  <2> QED
    BY <1>5, <2>1, <2>2
<1>8. SweptAlong(f, code)
  BY <1>7 DEF SweptAlong, stack
<1>9. SweptAlong(h, code)
  BY <1>8
<1>10. construct_in_out(code) = h[n]
  BY DEF construct_in_out, SweptAlong, Swept, OutOf, EmptySets, stack
<1> HIDE DEF h, step
<1>11. \A k \in 0..n : h[k] = IF k = 0 THEN x ELSE Swept(h[k - 1], code, stack[k])
  BY Zenon, <1>9 DEF SweptAlong, stack
<1> HIDE DEF x, n, X
<1>12. h[0] = x /\ \A k \in 1..n : h[k] = Swept(h[k - 1], code, stack[k])
  BY <1>1, <1>11
<1>13. \A k \in 0..n : h[k] \in X
  <2> DEFINE S == {k \in 0..n : h[k] \in X}
  <2>1. 0 \in S /\ n \in 0..n
    BY <1>1, <1>2, <1>12
  <2>2. ASSUME NEW k \in 1..n, k - 1 \in S PROVE k \in S
    <3>1. k \in 0..n /\ h[k - 1] \in X
      BY <2>2, <1>1
    <3> QED
      BY <1>3, <1>12, <3>1
  <2> HIDE DEF S
  <2>3. \A k \in 0..n : k \in S
    BY <1>1, <2>1, <2>2, InductionUpTo
  <2> QED
    BY <2>3 DEF S
<1>14. SweepsLeadTo(h, code)
  BY <1>10, <1>12, <1>13 DEF SweepsLeadTo, x, n, X, stack
<1> QED
  BY <1>14

\* Nothing is read out of its block: then nothing lives from one to another.
LEMMA NothingLivesOn ==
  ASSUME NEW code, Graph(code), \A b \in DOMAIN code.blocks : use_def(code.blocks[b]).use = {}
  PROVE  /\ construct_in_out(code) \in InOuts(code)
         /\ \A b \in DOMAIN code.blocks : /\ construct_in_out(code).in[b] = {}
                                          /\ construct_in_out(code).out[b] = {}
<1> DEFINE stack == block_stack(code)
           n == Len(stack)
           D == DOMAIN code.blocks
<1>1. PICK f : SweepsLeadTo(f, code)
  BY SweepsGoAlong
<1>2. n \in Nat /\ \A k \in 1..n : stack[k] \in D
  <2>1. stack \in Seq(1..Len(code.blocks)) /\ DOMAIN code.blocks = 1..Len(code.blocks)
    BY BlockStackIs DEF Graph
  <2> QED
    BY <2>1
<1>3. /\ f[0] = EmptySets(code)
      /\ \A k \in 1..n : f[k] = Swept(f[k - 1], code, stack[k])
      /\ \A k \in 0..n : f[k] \in InOuts(code)
      /\ construct_in_out(code) = f[n]
  BY <1>1, Zenon DEF SweepsLeadTo
<1> HIDE DEF stack, n
<1> DEFINE S == {k \in 0..n : \A b \in D : f[k].in[b] = {} /\ f[k].out[b] = {}}
<1>4. 0 \in S
  BY <1>2, <1>3 DEF EmptySets
<1>5. ASSUME NEW k \in 1..n, k - 1 \in S PROVE k \in S
  <2> DEFINE s == f[k - 1]
             c == stack[k]
             ud == use_def(code.blocks[c])
  <2>1. k \in 0..n /\ k - 1 \in 0..n /\ c \in D
    BY <1>2
  <2>2. s \in InOuts(code) /\ f[k] = Swept(s, code, c)
    BY <1>3, <2>1
  <2>3. \A b \in D : s.in[b] = {} /\ s.out[b] = {}
    BY <1>5
  <2>4. OutOf(s, code, c) = {}
    <3>1. \A b \in succs_of(code, c) : s.in[b] = {}
      BY <2>1, <2>3, SuccsOfIs
    <3> HIDE DEF s, c
    <3> QED
      BY <3>1 DEF OutOf
  <2>5. ud.use = {}
    BY <2>1
  <2> HIDE DEF s, c, ud
  <2>6. /\ f[k].in = [s.in EXCEPT ![c] = ud.use \cup ({} \ ud.def)]
        /\ f[k].out = [s.out EXCEPT ![c] = {}]
    BY <2>2, <2>4 DEF Swept, ud
  <2>7. s.in \in [D -> SUBSET Int] /\ s.out \in [D -> SUBSET Int]
    BY <2>2 DEF InOuts
  <2>8. \A b \in D : f[k].in[b] = {} /\ f[k].out[b] = {}
    BY <2>3, <2>5, <2>6, <2>7
  <2> QED
    BY <2>1, <2>8
<1>6. n \in S
  <2> HIDE DEF S
  <2>1. \A k \in 0..n : k \in S
    BY <1>2, <1>4, <1>5, InductionUpTo
  <2>2. n \in 0..n
    BY <1>2
  <2> QED
    BY <2>1, <2>2
<1>7. f[n] \in InOuts(code)
  <2>1. n \in 0..n
    BY <1>2
  <2> QED
    BY <1>3, <2>1
<1> QED
  BY <1>3, <1>6, <1>7
-----------------------------------------------------------------------------
GoesAlong(f, n, x, step) == f = [k \in 0..n |-> IF k = 0 THEN x ELSE step[k][f[k - 1]]]

StaysIn(f, n, W, x, step) ==
  f[0] = x /\ GoesAlong(f, n, x, step) /\ \A k \in 0..n : f[k] \in W[k]

\* A recursion that stays within W, whatever the step does elsewhere.
LEMMA RecursionWithin ==
  ASSUME NEW n \in Nat, NEW X, NEW W \in [0..n -> SUBSET X], NEW x \in W[0], NEW step,
         \A k \in 1..n : \A y \in W[k - 1] : step[k][y] \in W[k]
  PROVE  \E f : StaysIn(f, n, W, x, step)
<1> DEFINE go == [k \in 1..n |-> [y \in X |-> IF step[k][y] \in X THEN step[k][y] ELSE y]]
<1>1. x \in X /\ go \in [1..n -> [X -> X]] /\ \A k \in 0..n : W[k] \in SUBSET X
  OBVIOUS
<1>2. PICK f \in [0..n -> X] : f[0] = x /\ \A k \in 1..n : f[k] = go[k][f[k - 1]]
  <2> HIDE DEF go
  <2>1. \E f : RecursiveTo(f, n, X, x, go)
    BY <1>1, RecursionUpTo
  <2> QED
    BY <2>1 DEF RecursiveTo
<1> DEFINE S == {k \in 0..n : f[k] \in W[k] /\ (k # 0 => f[k] = step[k][f[k - 1]])}
<1>3. 0 \in S
  BY <1>2
<1>4. ASSUME NEW k \in 1..n, k - 1 \in S PROVE k \in S
  <2>1. k \in 0..n /\ k - 1 \in 0..n /\ f[k - 1] \in W[k - 1]
    BY <1>4
  <2>2. step[k][f[k - 1]] \in W[k]
    BY <2>1
  <2>3. step[k][f[k - 1]] \in X /\ f[k - 1] \in X
    BY <1>1, <1>2, <2>1, <2>2
  <2>4. f[k] = step[k][f[k - 1]]
    BY <1>2, <2>3
  <2> QED
    BY <2>1, <2>2, <2>4
<1>5. \A k \in 0..n : k \in S
  <2> HIDE DEF S
  <2> QED
    BY <1>3, <1>4, InductionUpTo
<1>6. GoesAlong(f, n, x, step)
  <2>1. \A k \in 0..n : f[k] = IF k = 0 THEN x ELSE step[k][f[k - 1]]
    BY <1>2, <1>5
  <2> QED
    BY <2>1 DEF GoesAlong
<1> QED
  BY <1>2, <1>5, <1>6 DEF StaysIn

\* The code of a block.
LEMMA CodeOfIs ==
  ASSUME NEW code, Graph(code), NEW b \in DOMAIN code.blocks
  PROVE  LET n == Len(code.blocks[b].insts) IN
         /\ code.blocks[b] \in LBlocks /\ code.blocks[b].insts \in Seq(BodyInsts)
         /\ CodeOf(code, b) \in Seq(LInsts) /\ n \in Nat /\ Len(CodeOf(code, b)) = n + 1
         /\ CodeOf(code, b)[n + 1] = code.blocks[b].term
         /\ \A k \in 1..n : CodeOf(code, b)[k] = code.blocks[b].insts[k]
<1> DEFINE s == code.blocks[b].insts
           t == code.blocks[b].term
<1>1. code.blocks[b] \in LBlocks
  BY DEF Graph
<1>2. s \in Seq(BodyInsts) /\ t \in LInsts
  BY <1>1 DEF LBlocks
<1>3. CodeOf(code, b) = Append(s, t)
  BY DEF CodeOf
<1> HIDE DEF s, t
<1>4. s \in Seq(LInsts)
  BY <1>2, BodyFits
<1>5. /\ Append(s, t) \in Seq(LInsts) /\ Len(s) \in Nat /\ Len(Append(s, t)) = Len(s) + 1
      /\ Append(s, t)[Len(s) + 1] = t
      /\ \A k \in 1..Len(s) : Append(s, t)[k] = s[k]
  BY <1>2, <1>4
<1> QED
  BY <1>1, <1>2, <1>3, <1>5 DEF s, t

\* If what is read has been defined further up in its block, no block has
\* anything alive before or after it.
LEMMA LocalCodeLivesInBlocks ==
  ASSUME NEW code, LIRFits(code, TRUE)
  PROVE  /\ Graph(code)
         /\ construct_in_out(code) \in InOuts(code)
         /\ \A b \in DOMAIN code.blocks : /\ use_def(code.blocks[b]).use = {}
                                          /\ construct_in_out(code).in[b] = {}
                                          /\ construct_in_out(code).out[b] = {}
<1>1. Graph(code)
  BY GraphIs
<1>2. ASSUME NEW b \in DOMAIN code.blocks PROVE use_def(code.blocks[b]).use = {}
  <2> DEFINE insts == code.blocks[b].insts
             n == Len(insts)
             all == CodeOf(code, b)
  <2>1. /\ code.blocks[b] \in LBlocks /\ n \in Nat /\ Len(all) = n + 1
        /\ \A k \in 1..n : all[k] = insts[k]
    BY <1>1, CodeOfIs
  <2>2. ASSUME NEW i \in 1..n, NEW u \in UsedBy(insts[i])
        PROVE  u # NoVReg /\ Given(insts, i - 1, u)
    <3>1. i \in 1..Len(all) /\ b \in 1..Len(code.blocks)
      BY <1>1, <2>1 DEF Graph
    <3>2. u \in UsedBy(all[i])
      BY <2>1, <2>2
    <3> HIDE DEF all, insts, n
    <3>3. u \in VRegsOf(code) /\ Given(all, i - 1, u)
      BY <3>1, <3>2, Zenon DEF LIRFits, all
    <3>4. u # NoVReg
      <4>1. code.next_vreg \in Nat
        BY DEF LIRFits
      <4> QED
        BY <3>3, <4>1 DEF VRegsOf, NoVReg
    <3>5. PICK j \in 1..i - 1 : all[j].def = u
      BY <3>3, Zenon DEF Given
    <3>6. j \in 1..n /\ insts[j].def = u
      BY <2>1, <3>5
    <3> QED
      BY <3>4, <3>5, <3>6 DEF Given
  <2> QED
    BY <2>1, <2>2, NothingUsedFromBefore
<1>3. /\ construct_in_out(code) \in InOuts(code)
      /\ \A b \in DOMAIN code.blocks : /\ construct_in_out(code).in[b] = {}
                                       /\ construct_in_out(code).out[b] = {}
  BY <1>1, <1>2, NothingLivesOn
<1> QED
  BY <1>1, <1>2, <1>3
-----------------------------------------------------------------------------
\* The states of the range construction.
Rng(first, last) == [start |-> first, end |-> last]
RangeRecs        == [start : Int, end : Int]
RangeStates(V)   == [live : SUBSET V, aborted : BOOLEAN, ranges : [V -> Seq(RangeRecs)]]

LEMMA OneRange ==
  ASSUME NEW a \in Int, NEW e \in Int
  PROVE  /\ <<Rng(a, e)>> \in Seq(RangeRecs) /\ <<Rng(a, e)>> # <<>>
         /\ Len(<<Rng(a, e)>>) = 1 /\ <<Rng(a, e)>>[1] = Rng(a, e)
         /\ Rng(a, e).start = a /\ Rng(a, e).end = e
<1>1. Rng(a, e) \in RangeRecs
  BY DEF Rng, RangeRecs
<1>2. Rng(a, e).start = a /\ Rng(a, e).end = e
  BY DEF Rng
<1> QED
  BY <1>1, <1>2

\* The end of the range is known, now the start is.
LEMMA RangeStarts ==
  ASSUME NEW V, NEW s \in RangeStates(V), NEW v \in V, NEW num \in Int, NEW e \in Int,
         s.ranges[v] = <<Rng(OPEN, e)>>, NEW t, t = insert_start_range(s, v, num)
  PROVE  t = [live |-> s.live, aborted |-> s.aborted,
              ranges |-> [s.ranges EXCEPT ![v] = <<Rng(num, e)>>]]
<1>1. OPEN \in Int
  BY DEF OPEN
<1>2. /\ s.ranges[v] # <<>> /\ Len(s.ranges[v]) = 1 /\ s.ranges[v][1].start = OPEN
      /\ s.ranges[v][1] = Rng(OPEN, e)
  BY <1>1, OneRange
<1>3. t = [s EXCEPT !.ranges[v][1].start = num]
  BY <1>2 DEF insert_start_range
<1>4. s = [live |-> s.live, aborted |-> s.aborted, ranges |-> s.ranges]
      /\ s.ranges \in [V -> Seq(RangeRecs)]
  BY DEF RangeStates
<1>5. [s.ranges[v] EXCEPT ![1].start = num] = <<Rng(num, e)>>
  <2>1. [Rng(OPEN, e) EXCEPT !.start = num] = Rng(num, e)
    BY DEF Rng
  <2>2. [s.ranges[v] EXCEPT ![1].start = num] = [s.ranges[v] EXCEPT ![1] = Rng(num, e)]
    BY <1>2, <2>1
  <2>3. [<<Rng(OPEN, e)>> EXCEPT ![1] = Rng(num, e)] = <<Rng(num, e)>>
    OBVIOUS
  <2> QED
    BY <2>2, <2>3
<1>6. [s.ranges EXCEPT ![v][1].start = num] = [s.ranges EXCEPT ![v] = <<Rng(num, e)>>]
  BY <1>4, <1>5
<1>7. [s EXCEPT !.ranges[v][1].start = num]
        = [live |-> s.live, aborted |-> s.aborted,
           ranges |-> [s.ranges EXCEPT ![v][1].start = num]]
  <2>1. [s EXCEPT !.ranges[v][1].start = num]
          = [s EXCEPT !.ranges = [s.ranges EXCEPT ![v][1].start = num]]
    BY <1>4
  <2> DEFINE r == [s.ranges EXCEPT ![v][1].start = num]
  <2> HIDE DEF r
  <2>2. [s EXCEPT !.ranges = r] = [live |-> s.live, aborted |-> s.aborted, ranges |-> r]
    BY <1>4
  <2> QED
    BY <2>1, <2>2, Zenon DEF r
<1> QED
  BY <1>3, <1>6, <1>7

\* d is s with the definition of x seen.
DefinitionEnded(d, s, x, V) ==
  /\ d \in RangeStates(V) /\ d.aborted = FALSE /\ d.live = s.live \ {x.def}
  /\ \A v \in V : v # x.def \/ v \notin s.live => d.ranges[v] = s.ranges[v]
  /\ \A e \in Int : x.def \in s.live /\ s.ranges[x.def] = <<Rng(OPEN, e)>>
       => d.ranges[x.def] = <<Rng(x.num, e)>>

LEMMA DefinitionEnds ==
  ASSUME NEW V, NoVReg \notin V, NEW s \in RangeStates(V), s.aborted = FALSE, NEW x,
         x.num \in Int, x.def \in {NoVReg} \cup V,
         x.def \in s.live => \E e \in Int : s.ranges[x.def] = <<Rng(OPEN, e)>>,
         NEW d, d = end_definition(s, x)
  PROVE  DefinitionEnded(d, s, x, V)
<1>1. s = [live |-> s.live, aborted |-> s.aborted, ranges |-> s.ranges]
      /\ s.ranges \in [V -> Seq(RangeRecs)] /\ s.live \in SUBSET V
  BY DEF RangeStates
<1>2. CASE x.def = NoVReg
  <2>1. d = s
    BY <1>2 DEF end_definition
  <2>2. x.def \notin s.live
    BY <1>1, <1>2
  <2> QED
    BY <2>1, <2>2 DEF DefinitionEnded
<1>3. CASE x.def # NoVReg /\ x.def \notin s.live
  <2>1. d = [s EXCEPT !.live = @ \ {x.def}]
    BY <1>3 DEF end_definition
  <2>2. d = [live |-> s.live \ {x.def}, aborted |-> s.aborted, ranges |-> s.ranges]
    BY <1>1, <2>1
  <2>3. d \in RangeStates(V)
    BY <1>1, <2>2 DEF RangeStates
  <2> QED
    BY <1>3, <2>2, <2>3 DEF DefinitionEnded
<1>4. CASE x.def # NoVReg /\ x.def \in s.live
  <2>1. PICK e \in Int : s.ranges[x.def] = <<Rng(OPEN, e)>>
    BY <1>4
  <2> DEFINE r == [s.ranges EXCEPT ![x.def] = <<Rng(x.num, e)>>]
  <2> PICK t : t = insert_start_range(s, x.def, x.num)
    OBVIOUS
  <2>2. t = [live |-> s.live, aborted |-> s.aborted, ranges |-> r] /\ x.def \in V
    <3>1. x.def \in V
      BY <1>1, <1>4
    <3>2. PICK num \in Int : num = x.num
      OBVIOUS
    <3>3. PICK v \in V : v = x.def
      BY <3>1
    <3>4. t = insert_start_range(s, v, num) /\ s.ranges[v] = <<Rng(OPEN, e)>>
      BY <2>1, <3>2, <3>3
    <3>5. t = [live |-> s.live, aborted |-> s.aborted,
               ranges |-> [s.ranges EXCEPT ![v] = <<Rng(num, e)>>]]
      BY <3>4, RangeStarts
    <3> QED
      BY <3>1, <3>2, <3>3, <3>5
  <2>3. d = [t EXCEPT !.live = @ \ {x.def}]
    BY <1>4 DEF end_definition
  <2> HIDE DEF r
  <2>4. d = [live |-> s.live \ {x.def}, aborted |-> s.aborted, ranges |-> r]
    BY <2>2, <2>3
  <2>5. <<Rng(x.num, e)>> \in Seq(RangeRecs)
    BY OneRange
  <2>6. r \in [V -> Seq(RangeRecs)] /\ r[x.def] = <<Rng(x.num, e)>>
        /\ \A v \in V : v # x.def => r[v] = s.ranges[v]
    BY <1>1, <2>2, <2>5 DEF r
  <2>7. d \in RangeStates(V)
    BY <1>1, <2>4, <2>6 DEF RangeStates
  <2>8. ASSUME NEW f \in Int, s.ranges[x.def] = <<Rng(OPEN, f)>>
        PROVE  f = e
    <3>1. OPEN \in Int
      BY DEF OPEN
    <3>2. Rng(OPEN, f) = Rng(OPEN, e)
      BY <2>1, <2>8
    <3> QED
      BY <3>1, <3>2, OneRange
  <2> QED
    BY <1>4, <2>4, <2>6, <2>7, <2>8 DEF DefinitionEnded
<1> QED
  BY <1>2, <1>3, <1>4

\* d is s with the first use of v seen, by the instruction numbered num.
UseBegun(d, s, v, num, V) ==
  /\ d \in RangeStates(V) /\ d.aborted = FALSE /\ d.live = s.live \cup {v}
  /\ v \notin s.live => d.ranges[v] = <<Rng(OPEN, num + 1)>>
  /\ \A w \in V : w # v \/ v \in s.live => d.ranges[w] = s.ranges[w]

LEMMA UseBegins ==
  ASSUME NEW V, NEW s \in RangeStates(V), s.aborted = FALSE, NEW v \in V, NEW num \in Int,
         v \notin s.live => s.ranges[v] = <<>>, NEW d, d = begin_use(s, v, num)
  PROVE  UseBegun(d, s, v, num, V)
<1>1. s = [live |-> s.live, aborted |-> s.aborted, ranges |-> s.ranges]
      /\ s.ranges \in [V -> Seq(RangeRecs)] /\ s.live \in SUBSET V /\ s.aborted \in BOOLEAN
  BY DEF RangeStates
<1>2. CASE v \in s.live
  <2>1. d = [s EXCEPT !.live = @ \cup {v}]
    BY <1>2 DEF begin_use
  <2>2. d = [live |-> s.live \cup {v}, aborted |-> s.aborted, ranges |-> s.ranges]
    BY <1>1, <2>1
  <2>3. d \in RangeStates(V)
    BY <1>1, <2>2 DEF RangeStates
  <2> QED
    BY <1>2, <2>2, <2>3 DEF UseBegun
<1>3. CASE v \notin s.live
  <2> DEFINE r == [s.ranges EXCEPT ![v] = <<Rng(OPEN, num + 1)>>]
             t == insert_end_range(s, v, num + 1)
  <2>1. s.ranges[v] = <<>>
    BY <1>3
  <2>2. t = [s EXCEPT !.ranges[v] = Append(@, [start |-> OPEN, end |-> num + 1])]
    BY <2>1 DEF insert_end_range
  <2>3. Append(<<>>, [start |-> OPEN, end |-> num + 1]) = <<Rng(OPEN, num + 1)>>
    BY DEF Rng
  <2>4. t = [live |-> s.live, aborted |-> s.aborted, ranges |-> r]
    BY <1>1, <2>1, <2>2, <2>3
  <2>5. d = [t EXCEPT !.live = @ \cup {v}]
    BY <1>3 DEF begin_use
  <2> HIDE DEF t, r
  <2>6. d = [live |-> s.live \cup {v}, aborted |-> s.aborted, ranges |-> r]
    BY <2>4, <2>5
  <2>7. <<Rng(OPEN, num + 1)>> \in Seq(RangeRecs)
    BY OneRange DEF OPEN
  <2>8. r \in [V -> Seq(RangeRecs)] /\ r[v] = <<Rng(OPEN, num + 1)>>
        /\ \A w \in V : w # v => r[w] = s.ranges[w]
    BY <1>1, <2>7 DEF r
  <2>9. d \in RangeStates(V)
    BY <1>1, <2>6, <2>8 DEF RangeStates
  <2> QED
    BY <1>3, <2>6, <2>8, <2>9 DEF UseBegun
<1> QED
  BY <1>2, <1>3
-----------------------------------------------------------------------------
\* The range construction goes from d on over the first k uses of x.
UsesAlong(f, d, x) ==
  f = [n \in 0..Len(x.uses) |-> IF n = 0 THEN d ELSE begin_use(f[n - 1], x.uses[n], x.num)]

UsesBegun(y, d, x, V, k) ==
  LET U == {x.uses[j] : j \in 1..k} IN
  /\ y \in RangeStates(V) /\ y.aborted = FALSE /\ y.live = d.live \cup U
  /\ \A v \in U : y.ranges[v] = <<Rng(OPEN, x.num + 1)>>
  /\ \A v \in V \ U : y.ranges[v] = d.ranges[v]

LEMMA OneUseBegun ==
  ASSUME NEW V, NEW d, NEW x \in LInsts, NEW k \in 1..Len(x.uses), NEW y,
         UsesBegun(y, d, x, V, k - 1), x.uses[k] \in V,
         x.uses[k] \notin d.live, d.ranges[x.uses[k]] = <<>>
  PROVE  UsesBegun(begin_use(y, x.uses[k], x.num), d, x, V, k)
<1> DEFINE U == {x.uses[j] : j \in 1..k - 1}
           W == {x.uses[j] : j \in 1..k}
           u == x.uses[k]
<1> PICK z : z = begin_use(y, u, x.num)
  OBVIOUS
<1>1. /\ y \in RangeStates(V) /\ y.aborted = FALSE /\ y.live = d.live \cup U
      /\ \A v \in U : y.ranges[v] = <<Rng(OPEN, x.num + 1)>>
      /\ \A v \in V \ U : y.ranges[v] = d.ranges[v]
  BY DEF UsesBegun
<1>2. W = U \cup {u} /\ x.num \in Int
  <2>1. x.uses \in Seq(Int) /\ x.num \in Int
    BY DEF LInsts
  <2>2. 1..k = (1..k - 1) \cup {k}
    BY <2>1
  <2> QED
    BY <2>1, <2>2
<1>3. u \notin y.live => y.ranges[u] = <<>>
  BY <1>1
<1> HIDE DEF U, W, u
<1>4. /\ z \in RangeStates(V) /\ z.aborted = FALSE /\ z.live = y.live \cup {u}
      /\ u \notin y.live => z.ranges[u] = <<Rng(OPEN, x.num + 1)>>
      /\ \A w \in V : w # u \/ u \in y.live => z.ranges[w] = y.ranges[w]
  <2>1. u \in V
    BY DEF u
  <2> QED
    <3>1. PICK num \in Int : num = x.num
      BY <1>2
    <3>2. PICK v \in V : v = u
      BY <2>1
    <3>3. z = begin_use(y, v, num) /\ (v \notin y.live => y.ranges[v] = <<>>)
      BY <1>3, <3>1, <3>2
    <3>4. UseBegun(z, y, v, num, V)
      BY <1>1, <3>3, UseBegins
    <3> QED
      BY <1>1, <3>1, <3>2, <3>4, Zenon DEF UseBegun
<1>5. u \in y.live => u \in U
  BY <1>1 DEF u
<1>6. \A v \in W : z.ranges[v] = <<Rng(OPEN, x.num + 1)>>
  <2>1. U \subseteq V
    <3>1. y.live \in SUBSET V
      BY <1>1 DEF RangeStates
    <3> QED
      BY <1>1, <3>1
  <2>2. u \in V
    BY DEF u
  <2> QED
    BY <1>1, <1>2, <1>4, <1>5, <2>1, <2>2
<1>7. \A v \in V \ W : z.ranges[v] = d.ranges[v]
  BY <1>1, <1>2, <1>4
<1>8. z.live = d.live \cup W
  BY <1>1, <1>2, <1>4
<1> QED
  BY <1>1, <1>4, <1>6, <1>7, <1>8 DEF UsesBegun, W, u

\* y is d with the uses of x seen.
UsesSeen(y, d, x, V) ==
  /\ y \in RangeStates(V) /\ y.aborted = FALSE /\ y.live = d.live \cup UsedBy(x)
  /\ \A v \in UsedBy(x) : y.ranges[v] = <<Rng(OPEN, x.num + 1)>>
  /\ \A v \in V \ UsedBy(x) : y.ranges[v] = d.ranges[v]

LEMMA UsesBegin ==
  ASSUME NEW V, NEW s, NEW x \in LInsts, NEW d, d = end_definition(s, x),
         d \in RangeStates(V), d.aborted = FALSE, UsedBy(x) \subseteq V,
         \A u \in UsedBy(x) : u \notin d.live /\ d.ranges[u] = <<>>
  PROVE  UsesSeen(visit_inst(s, x), d, x, V)
<1> DEFINE n == Len(x.uses)
           X == RangeStates(V)
           W == [k \in 0..n |-> {y \in X : UsesBegun(y, d, x, V, k)}]
           step == [k \in 1..n |-> [y \in X |-> begin_use(y, x.uses[k], x.num)]]
           h == CHOOSE f : UsesAlong(f, d, x)
<1>1. n \in Nat /\ x.uses \in Seq(Int) /\ \A k \in 1..n : x.uses[k] \in UsedBy(x)
  <2>1. x.uses \in Seq(Int)
    BY DEF LInsts
  <2> QED
    BY <2>1 DEF UsedBy
<1>2. d \in X /\ d.aborted = FALSE
      /\ \A u \in UsedBy(x) : u \notin d.live /\ d.ranges[u] = <<>>
  OBVIOUS
<1>3. visit_inst(s, x) = h[n]
  BY <1>2, Zenon DEF visit_inst, UsesAlong
<1> HIDE DEF h
<1>4. d \in W[0]
  <2>1. {x.uses[j] : j \in 1..0} = {} /\ 0 \in 0..n
    BY <1>1
  <2>2. UsesBegun(d, d, x, V, 0)
    BY <1>2, <2>1 DEF UsesBegun
  <2> QED
    BY <1>2, <2>1, <2>2
<1>5. ASSUME NEW k \in 1..n, NEW y \in W[k - 1]
      PROVE  begin_use(y, x.uses[k], x.num) \in W[k] /\ y \in X
  <2>1. k \in 0..n /\ k - 1 \in 0..n
    BY <1>1
  <2>2. y \in X /\ UsesBegun(y, d, x, V, k - 1)
    BY <2>1
  <2>3. x.uses[k] \in V /\ x.uses[k] \notin d.live /\ d.ranges[x.uses[k]] = <<>>
    BY <1>1, <1>2
  <2>4. UsesBegun(begin_use(y, x.uses[k], x.num), d, x, V, k)
    BY <2>2, <2>3, OneUseBegun
  <2>5. begin_use(y, x.uses[k], x.num) \in X
    BY <2>4 DEF UsesBegun
  <2> QED
    BY <2>1, <2>2, <2>4, <2>5
<1>6. W \in [0..n -> SUBSET X]
  OBVIOUS
<1>7. \A k \in 1..n : \A y \in W[k - 1] : step[k][y] = begin_use(y, x.uses[k], x.num)
  BY <1>5
<1> HIDE DEF W, X, step
<1>8. \A k \in 1..n : \A y \in W[k - 1] : step[k][y] \in W[k]
  BY <1>5, <1>7
<1>9. PICK f : /\ f[0] = d /\ GoesAlong(f, n, d, step)
               /\ \A k \in 0..n : f[k] \in W[k]
  <2>1. PICK m \in Nat : m = n
    BY <1>1
  <2> HIDE DEF n
  <2>2. /\ W \in [0..m -> SUBSET X] /\ d \in W[0]
        /\ \A k \in 1..m : \A y \in W[k - 1] : step[k][y] \in W[k]
    BY <1>4, <1>6, <1>8, <2>1
  <2>3. \E f : StaysIn(f, m, W, d, step)
    BY <2>2, RecursionWithin
  <2> QED
    BY <2>1, <2>3, Zenon DEF StaysIn
<1>10. UsesAlong(f, d, x)
  <2>1. \A k \in 0..n : k # 0 => k \in 1..n /\ k - 1 \in 0..n
    BY <1>1
  <2>2. \A k \in 1..n : step[k][f[k - 1]] = begin_use(f[k - 1], x.uses[k], x.num)
    <3>1. \A k \in 1..n : f[k - 1] \in W[k - 1]
      <4>1. \A k \in 1..n : k - 1 \in 0..n
        BY <1>1
      <4> QED
        BY <1>9, <4>1
    <3> QED
      BY <1>7, <3>1
  <2>3. f = [k \in 0..n |-> IF k = 0 THEN d ELSE begin_use(f[k - 1], x.uses[k], x.num)]
    BY <1>9, <2>1, <2>2 DEF GoesAlong
  <2> QED
    BY <2>3 DEF UsesAlong
<1>11. UsesAlong(h, d, x)
  BY <1>10 DEF h
<1>12. \A k \in 0..n : h[k] = IF k = 0 THEN d ELSE begin_use(h[k - 1], x.uses[k], x.num)
  BY Zenon, <1>11 DEF UsesAlong
<1>13. n \in 0..n /\ h[n] \in W[n]
  <2> DEFINE S == {k \in 0..n : h[k] \in W[k]}
  <2>1. 0 \in S /\ n \in 0..n
    BY <1>1, <1>4, <1>12
  <2>2. ASSUME NEW k \in 1..n, k - 1 \in S PROVE k \in S
    <3>1. k \in 0..n /\ h[k - 1] \in W[k - 1] /\ k # 0
      BY <2>2, <1>1
    <3>2. h[k] = begin_use(h[k - 1], x.uses[k], x.num)
      BY <1>12, <3>1
    <3> QED
      BY <1>5, <3>1, <3>2
  <2> HIDE DEF S
  <2>3. \A k \in 0..n : k \in S
    BY <1>1, <2>1, <2>2, InductionUpTo
  <2> QED
    BY <2>1, <2>3 DEF S
<1>14. UsesBegun(h[n], d, x, V, n)
  BY <1>13 DEF W
<1>15. {x.uses[j] : j \in 1..n} = UsedBy(x)
  <2>1. DOMAIN x.uses = 1..n
    BY <1>1
  <2> QED
    BY <2>1 DEF UsedBy
<1> QED
  BY <1>3, <1>14, <1>15 DEF UsesBegun, UsesSeen
-----------------------------------------------------------------------------
\* The code of a block, of a function with the vregs V, when r0 is what there
\* is of ranges: every use has its definition further up, and no range yet.
BlockCode(C, V, r0) ==
  /\ C \in Seq(LInsts) /\ NoVReg \notin V
  /\ \A i \in 1..Len(C) :
       /\ C[i].def \in {NoVReg} \cup V /\ UsedBy(C[i]) \subseteq V
       /\ \A u \in UsedBy(C[i]) : Given(C, i - 1, u) /\ r0[u] = <<>>
  /\ \A i, j \in 1..Len(C) :
       /\ C[i].def = C[j].def => i = j \/ C[i].def = NoVReg
       /\ \A u \in UsedBy(C[i]) : u \in UsedBy(C[j]) => i = j

\* The use of v at j has a range, open until the definition has been met.
RangeFor(s, C, v, j, p) ==
  /\ \A i \in p + 1..Len(C) : C[i].def = v
       => v \notin s.live /\ s.ranges[v] = <<Rng(C[i].num, C[j].num + 1)>>
  /\ (\A i \in p + 1..Len(C) : C[i].def # v)
       => v \in s.live /\ s.ranges[v] = <<Rng(OPEN, C[j].num + 1)>>

\* The walk has come backwards from the end of C to just behind place p.
WalkedTo(s, C, V, r0, p) ==
  /\ s \in RangeStates(V) /\ s.aborted = FALSE
  /\ \A v \in V : \A j \in p + 1..Len(C) : v \in UsedBy(C[j]) => RangeFor(s, C, v, j, p)
  /\ \A v \in V : (\A j \in p + 1..Len(C) : v \notin UsedBy(C[j]))
                    => v \notin s.live /\ s.ranges[v] = r0[v]

LEMMA VisitWalks ==
  ASSUME NEW V, NEW C, NEW r0, BlockCode(C, V, r0), NEW p \in 1..Len(C), NEW s,
         WalkedTo(s, C, V, r0, p)
  PROVE  WalkedTo(visit_inst(s, C[p]), C, V, r0, p - 1)
<1> DEFINE x == C[p]
           N == Len(C)
           y == visit_inst(s, x)
<1> PICK d : d = end_definition(s, x)
  OBVIOUS
<1>1. /\ N \in Nat /\ p \in 1..N /\ x \in LInsts /\ NoVReg \notin V
      /\ x.def \in {NoVReg} \cup V /\ UsedBy(x) \subseteq V /\ x.num \in Int
      /\ \A j \in 1..N : C[j].num \in Int
  <2>1. C \in Seq(LInsts) /\ NoVReg \notin V
    BY DEF BlockCode
  <2>2. \A j \in 1..N : C[j] \in LInsts
    BY <2>1
  <2>3. x \in LInsts /\ Len(C) \in Nat
    BY <2>1, <2>2
  <2>4. x.num \in Int /\ \A j \in 1..N : C[j].num \in Int
    BY <2>2, <2>3 DEF LInsts
  <2>5. x.def \in {NoVReg} \cup V /\ UsedBy(x) \subseteq V
    BY DEF BlockCode
  <2> QED
    BY <2>1, <2>3, <2>4, <2>5
<1>2. /\ s \in RangeStates(V) /\ s.aborted = FALSE /\ s.live \in SUBSET V
      /\ \A v \in V : \A j \in p + 1..N : v \in UsedBy(C[j]) => RangeFor(s, C, v, j, p)
      /\ \A v \in V : (\A j \in p + 1..N : v \notin UsedBy(C[j]))
                        => v \notin s.live /\ s.ranges[v] = r0[v]
  BY DEF WalkedTo, RangeStates
<1>3. /\ \A i, j \in 1..N : C[i].def = C[j].def => i = j \/ C[i].def = NoVReg
      /\ \A i, j \in 1..N : \A u \in UsedBy(C[i]) : u \in UsedBy(C[j]) => i = j
  BY DEF BlockCode
<1>4. p + 1..N \subseteq 1..N /\ p - 1 + 1 = p /\ p..N = (p + 1..N) \cup {p} /\ p \notin p + 1..N
  BY <1>1
<1> HIDE DEF N
\* What is used has been defined further up.
<1>5. ASSUME NEW j \in p..N, NEW u \in UsedBy(C[j]), NEW i \in j..N PROVE C[i].def # u
  <2>0. j \in 1..N /\ i \in 1..N
    BY <1>1
  <2>1. j \in 1..N /\ i \in 1..N /\ Given(C, j - 1, u)
    BY <2>0, <1>5, Zenon DEF BlockCode, N
  <2>2. PICK k \in 1..j - 1 : C[k].def = u
    BY <2>1 DEF Given
  <2>3. k \in 1..N /\ k # i
    BY <1>1, <2>1
  <2>4. u \in V
    BY <2>1 DEF BlockCode, N
  <2> QED
    BY <1>1, <1>3, <2>1, <2>2, <2>3, <2>4
<1>6. ASSUME x.def \in s.live
      PROVE  \E e \in Int : s.ranges[x.def] = <<Rng(OPEN, e)>>
  <2>1. x.def \in V
    BY <1>2, <1>6
  <2>2. PICK j \in p + 1..N : x.def \in UsedBy(C[j])
    BY <1>2, <1>6, <2>1
  <2>3. RangeFor(s, C, x.def, j, p)
    BY <1>2, <2>1, <2>2
  <2>4. s.ranges[x.def] = <<Rng(OPEN, C[j].num + 1)>>
    BY <1>6, <2>3 DEF RangeFor, N
  <2>5. C[j].num + 1 \in Int
    BY <1>1, <1>4, <2>2
  <2> QED
    BY <2>4, <2>5
<1>70. DefinitionEnded(d, s, x, V)
  <2> HIDE DEF x
  <2> QED
    BY <1>1, <1>2, <1>6, DefinitionEnds
<1>7. /\ d \in RangeStates(V) /\ d.aborted = FALSE /\ d.live = s.live \ {x.def}
      /\ \A v \in V : v # x.def \/ v \notin s.live => d.ranges[v] = s.ranges[v]
      /\ \A e \in Int : x.def \in s.live /\ s.ranges[x.def] = <<Rng(OPEN, e)>>
           => d.ranges[x.def] = <<Rng(x.num, e)>>
  BY <1>70, Zenon DEF DefinitionEnded
<1>8. ASSUME NEW u \in UsedBy(x)
      PROVE  /\ u \notin d.live /\ d.ranges[u] = <<>>
             /\ \A j \in p + 1..N : u \notin UsedBy(C[j])
  <2>1. \A j \in p + 1..N : u \notin UsedBy(C[j])
    BY <1>1, <1>3, <1>4
  <2>2. u \in V /\ r0[u] = <<>>
    BY <1>1 DEF BlockCode, N
  <2>3. u # x.def
    BY <1>1, <1>4, <1>5
  <2> HIDE DEF x
  <2> QED
    BY <1>2, <1>7, <2>1, <2>2, <2>3
<1>90. UsesSeen(y, d, x, V)
  <2> HIDE DEF x
  <2> QED
    BY <1>1, <1>7, <1>8, UsesBegin
<1>9. /\ y \in RangeStates(V) /\ y.aborted = FALSE /\ y.live = d.live \cup UsedBy(x)
      /\ \A v \in UsedBy(x) : y.ranges[v] = <<Rng(OPEN, x.num + 1)>>
      /\ \A v \in V \ UsedBy(x) : y.ranges[v] = d.ranges[v]
  BY <1>90, Zenon DEF UsesSeen
<1> HIDE DEF y
<1>10. ASSUME NEW v \in V, NEW j \in p..N, v \in UsedBy(C[j])
       PROVE  RangeFor(y, C, v, j, p - 1)
  <2>1. CASE j = p
    <3>1. \A i \in p..N : C[i].def # v
      BY <1>4, <1>5, <1>10, <2>1
    <3>2. v \in y.live /\ y.ranges[v] = <<Rng(OPEN, C[j].num + 1)>>
      BY <1>9, <1>10, <2>1
    <3> QED
      BY <1>4, <3>1, <3>2 DEF RangeFor, N
  <2>2. CASE j \in p + 1..N
    <3>1. RangeFor(s, C, v, j, p) /\ v \notin UsedBy(x)
      BY <1>1, <1>2, <1>3, <1>4, <1>10, <2>2
    <3>2. y.ranges[v] = d.ranges[v] /\ (v \in y.live <=> v \in s.live /\ v # x.def)
      BY <1>7, <1>9, <3>1
    <3>3. ASSUME NEW i \in p..N, C[i].def = v
          PROVE  v \notin y.live /\ y.ranges[v] = <<Rng(C[i].num, C[j].num + 1)>>
      <4>1. CASE i = p
        <5>1. \A k \in p + 1..N : C[k].def # v
          BY <1>1, <1>3, <1>4, <3>3, <4>1
        <5>2. v \in s.live /\ s.ranges[v] = <<Rng(OPEN, C[j].num + 1)>>
          BY <3>1, <5>1 DEF RangeFor, N
        <5>3. PICK e \in Int : e = C[j].num + 1
          BY <1>1, <1>4, <2>2
        <5>4. v = x.def
          BY <3>3, <4>1
        <5>5. d.ranges[v] = <<Rng(x.num, e)>>
          BY <1>7, <5>2, <5>3, <5>4, Zenon
        <5> QED
          BY <3>2, <4>1, <5>3, <5>4, <5>5
      <4>2. CASE i \in p + 1..N
        <5>1. v \notin s.live /\ s.ranges[v] = <<Rng(C[i].num, C[j].num + 1)>>
          BY <3>1, <3>3, <4>2 DEF RangeFor, N
        <5> QED
          BY <1>7, <3>2, <5>1
      <4> QED
        BY <1>4, <4>1, <4>2
    <3>4. ASSUME \A i \in p..N : C[i].def # v
          PROVE  v \in y.live /\ y.ranges[v] = <<Rng(OPEN, C[j].num + 1)>>
      <4>1. v # x.def /\ \A i \in p + 1..N : C[i].def # v
        BY <1>4, <3>4
      <4>2. v \in s.live /\ s.ranges[v] = <<Rng(OPEN, C[j].num + 1)>>
        BY <3>1, <4>1 DEF RangeFor, N
      <4> QED
        BY <1>7, <3>2, <4>1, <4>2
    <3> QED
      BY <1>4, <3>3, <3>4 DEF RangeFor, N
  <2> QED
    BY <1>4, <2>1, <2>2
<1>11. ASSUME NEW v \in V, \A j \in p..N : v \notin UsedBy(C[j])
       PROVE  v \notin y.live /\ y.ranges[v] = r0[v]
  <2>1. v \notin UsedBy(x) /\ \A j \in p + 1..N : v \notin UsedBy(C[j])
    BY <1>4, <1>11
  <2>2. v \notin s.live /\ s.ranges[v] = r0[v]
    BY <1>2, <2>1
  <2> QED
    BY <1>7, <1>9, <2>1, <2>2
<1> QED
  BY <1>4, <1>9, <1>10, <1>11 DEF WalkedTo, y, N
-----------------------------------------------------------------------------
\* The walk over a block, C its code.
WalkAlong(f, s, out, C) ==
  f = [n \in 0..Len(C) |->
         IF n = 0 THEN [s EXCEPT !.live = out] ELSE visit_inst(f[n - 1], C[Len(C) + 1 - n])]

LEMMA BlockWalked ==
  ASSUME NEW V, NEW block, NEW C, C = Append(block.insts, block.term),
         NEW s \in RangeStates(V), s.aborted = FALSE, BlockCode(C, V, s.ranges)
  PROVE  WalkedTo(visit_block_backwards(s, block, {}), C, V, s.ranges, 0)
<1> DEFINE n == Len(C)
           X == RangeStates(V)
           r0 == s.ranges
           x == [s EXCEPT !.live = {}]
           W == [k \in 0..n |-> {y \in X : WalkedTo(y, C, V, r0, n - k)}]
           step == [k \in 1..n |-> [y \in X |-> visit_inst(y, C[n + 1 - k])]]
           h == CHOOSE f : WalkAlong(f, s, {}, C)
<1>1. n \in Nat
  BY DEF BlockCode
<1>2. visit_block_backwards(s, block, {}) = h[n]
  BY DEF visit_block_backwards, WalkAlong
<1> HIDE DEF h
<1>3. x \in W[0]
  <2>1. x = [live |-> {}, aborted |-> FALSE, ranges |-> r0]
    <3>1. s = [live |-> s.live, aborted |-> FALSE, ranges |-> s.ranges]
      BY DEF RangeStates
    <3>2. PICK a, r : a = FALSE /\ r = s.ranges
      OBVIOUS
    <3>3. s = [live |-> s.live, aborted |-> a, ranges |-> r]
      BY <3>1, <3>2
    <3>4. PICK L : L = {}
      OBVIOUS
    <3>5. [s EXCEPT !.live = L] = [live |-> L, aborted |-> a, ranges |-> r]
      BY <3>3
    <3> QED
      BY <3>2, <3>4, <3>5
  <2>2. x \in X
    <3>1. r0 \in [V -> Seq(RangeRecs)]
      BY DEF RangeStates
    <3> QED
      BY <2>1, <3>1 DEF RangeStates
  <2>3. n + 1..n = {} /\ n - 0 = n /\ 0 \in 0..n
    BY <1>1
  <2> HIDE DEF x
  <2>4. WalkedTo(x, C, V, r0, n)
    BY <2>1, <2>2, <2>3 DEF WalkedTo
  <2> QED
    BY <2>2, <2>3, <2>4
<1> HIDE DEF x
<1>4. ASSUME NEW k \in 1..n, NEW y \in W[k - 1]
      PROVE  visit_inst(y, C[n + 1 - k]) \in W[k] /\ y \in X
  <2>1. k \in 0..n /\ k - 1 \in 0..n
    BY <1>1
  <2>2. PICK p \in 1..n : p = n + 1 - k
    BY <1>1
  <2>3. n - (k - 1) = p /\ n - k = p - 1
    BY <1>1, <2>2
  <2>4. y \in X /\ WalkedTo(y, C, V, r0, p)
    BY <2>1, <2>3
  <2>5. WalkedTo(visit_inst(y, C[p]), C, V, r0, p - 1)
    BY <2>4, VisitWalks
  <2>6. visit_inst(y, C[p]) \in X
    BY <2>5 DEF WalkedTo
  <2> QED
    BY <2>1, <2>2, <2>3, <2>4, <2>5, <2>6
<1>5. W \in [0..n -> SUBSET X]
  OBVIOUS
<1>6. \A k \in 1..n : \A y \in W[k - 1] : step[k][y] = visit_inst(y, C[n + 1 - k])
  BY <1>4
<1> HIDE DEF W, X, step
<1>7. \A k \in 1..n : \A y \in W[k - 1] : step[k][y] \in W[k]
  BY <1>4, <1>6
<1>8. PICK f : StaysIn(f, n, W, x, step)
  <2>1. PICK m \in Nat : m = n
    BY <1>1
  <2> HIDE DEF n
  <2>2. /\ W \in [0..m -> SUBSET X] /\ x \in W[0]
        /\ \A k \in 1..m : \A y \in W[k - 1] : step[k][y] \in W[k]
    BY <1>3, <1>5, <1>7, <2>1
  <2>3. \E f : StaysIn(f, m, W, x, step)
    BY <2>2, RecursionWithin
  <2> QED
    BY <2>1, <2>3, Zenon
<1>9. WalkAlong(f, s, {}, C)
  <2>1. \A k \in 0..n : k # 0 => k \in 1..n
    BY <1>1
  <2>2. \A k \in 1..n : step[k][f[k - 1]] = visit_inst(f[k - 1], C[n + 1 - k])
    <3>1. \A k \in 1..n : f[k - 1] \in W[k - 1]
      <4>1. \A k \in 1..n : k - 1 \in 0..n
        BY <1>1
      <4> QED
        BY <1>8, <4>1 DEF StaysIn
    <3> QED
      BY <1>6, <3>1
  <2> HIDE DEF n
  <2>3. f = [k \in 0..n |-> IF k = 0 THEN x ELSE visit_inst(f[k - 1], C[n + 1 - k])]
    BY <1>8, <2>1, <2>2 DEF StaysIn, GoesAlong
  <2> QED
    BY <2>3 DEF WalkAlong, x, n
<1>10. WalkAlong(h, s, {}, C)
  BY <1>9 DEF h
<1>11. \A k \in 0..n : h[k] = IF k = 0 THEN x ELSE visit_inst(h[k - 1], C[n + 1 - k])
  BY Zenon, <1>10 DEF WalkAlong, x
<1>12. n \in 0..n /\ h[n] \in W[n]
  <2> DEFINE S == {k \in 0..n : h[k] \in W[k]}
  <2>1. 0 \in S /\ n \in 0..n
    BY <1>1, <1>3, <1>11
  <2>2. ASSUME NEW k \in 1..n, k - 1 \in S PROVE k \in S
    <3>1. k \in 0..n /\ h[k - 1] \in W[k - 1] /\ k # 0
      BY <2>2, <1>1
    <3>2. h[k] = visit_inst(h[k - 1], C[n + 1 - k])
      BY <1>11, <3>1
    <3> QED
      BY <1>4, <3>1, <3>2
  <2> HIDE DEF S
  <2>3. \A k \in 0..n : k \in S
    BY <1>1, <2>1, <2>2, InductionUpTo
  <2> QED
    BY <2>1, <2>3 DEF S
<1>13. WalkedTo(h[n], C, V, r0, n - n) /\ n - n = 0
  BY <1>1, <1>12 DEF W
<1> QED
  BY <1>2, <1>13
-----------------------------------------------------------------------------
\* The ranges of a function, from the code of its first blocks.
FunctionWalkAlong(f, code) ==
  f = [n \in 0..Len(code.blocks) |->
         IF n = 0 THEN [live |-> {}, aborted |-> FALSE,
                        ranges |-> [v \in VRegsOf(code) |-> <<>>]]
         ELSE visit_block_backwards(f[n - 1], code.blocks[n],
                                    construct_in_out(code).out[n])]

\* The blocks up to b have been walked: a vreg they read has one range, from
\* its definition to one past the use, the others have none.
BlocksWalked(s, code, b) ==
  /\ s \in RangeStates(VRegsOf(code)) /\ s.aborted = FALSE
  /\ \A c \in 1..b : \A i, j \in 1..Len(CodeOf(code, c)) :
       LET v == CodeOf(code, c)[i].def IN
       v \in UsedBy(CodeOf(code, c)[j])
         => s.ranges[v] = <<Rng(CodeOf(code, c)[i].num, CodeOf(code, c)[j].num + 1)>>
  /\ \A v \in VRegsOf(code) :
       (\A c \in 1..b : \A j \in 1..Len(CodeOf(code, c)) : v \notin UsedBy(CodeOf(code, c)[j]))
         => s.ranges[v] = <<>>

LEMMA BlockOfFunction ==
  ASSUME NEW code, LIRFits(code, TRUE), NEW b \in 1..Len(code.blocks), NEW s,
         BlocksWalked(s, code, b - 1)
  PROVE  BlockCode(CodeOf(code, b), VRegsOf(code), s.ranges)
<1> DEFINE C == CodeOf(code, b)
           V == VRegsOf(code)
<1>1. Graph(code) /\ b \in DOMAIN code.blocks /\ Len(code.blocks) \in Nat
  <2>1. Graph(code)
    BY GraphIs
  <2> QED
    BY <2>1 DEF Graph
<1>2. C \in Seq(LInsts)
  BY <1>1, CodeOfIs
<1>3. V \subseteq Nat /\ NoVReg \notin V
  BY DEF VRegsOf, NoVReg, LIRFits
<1>4. /\ \A i \in 1..Len(C) : /\ C[i].def \in {NoVReg} \cup V /\ UsedBy(C[i]) \subseteq V
                              /\ \A u \in UsedBy(C[i]) : Given(C, i - 1, u)
      /\ \A i, j \in 1..Len(C) : /\ C[i].def = C[j].def => i = j \/ C[i].def = NoVReg
                                 /\ \A u \in UsedBy(C[i]) : u \in UsedBy(C[j]) => i = j
  <2>1. ASSUME NEW i \in 1..Len(C)
        PROVE  /\ C[i].def \in {NoVReg} \cup V /\ UsedBy(C[i]) \subseteq V
               /\ \A u \in UsedBy(C[i]) : Given(C, i - 1, u)
    BY Zenon DEF LIRFits
  <2>2. ASSUME NEW i \in 1..Len(C), NEW j \in 1..Len(C)
        PROVE  /\ C[i].def = C[j].def => i = j \/ C[i].def = NoVReg
               /\ \A u \in UsedBy(C[i]) : u \in UsedBy(C[j]) => i = j
    BY Zenon DEF LIRFits
  <2> QED
    BY <2>1, <2>2, Zenon
<1>5. ASSUME NEW i \in 1..Len(C), NEW u \in UsedBy(C[i]) PROVE s.ranges[u] = <<>>
  <2>1. ASSUME NEW c \in 1..b - 1, NEW j \in 1..Len(CodeOf(code, c)),
               u \in UsedBy(CodeOf(code, c)[j])
        PROVE  FALSE
    <3>1. c \in 1..Len(code.blocks) /\ c # b
      BY <1>1
    <3> QED
      BY <2>1, <3>1, <1>5, Zenon DEF LIRFits
  <2>2. u \in V
    BY <1>4
  <2> QED
    BY <2>1, <2>2 DEF BlocksWalked
<1> QED
  BY <1>2, <1>3, <1>4, <1>5, Zenon DEF BlockCode

LEMMA OneMoreBlockWalked ==
  ASSUME NEW code, LIRFits(code, TRUE), NEW b \in 1..Len(code.blocks), NEW s,
         BlocksWalked(s, code, b - 1)
  PROVE  BlocksWalked(visit_block_backwards(s, code.blocks[b], {}), code, b)
<1> DEFINE C == CodeOf(code, b)
           V == VRegsOf(code)
           N == Len(C)
<1> PICK y : y = visit_block_backwards(s, code.blocks[b], {})
  OBVIOUS
<1>1. BlockCode(C, V, s.ranges) /\ s \in RangeStates(V) /\ s.aborted = FALSE
  BY BlockOfFunction DEF BlocksWalked
<1>2. WalkedTo(y, C, V, s.ranges, 0)
  BY <1>1, BlockWalked DEF CodeOf
<1>3. /\ y \in RangeStates(V) /\ y.aborted = FALSE
      /\ \A v \in V : \A j \in 1..N : v \in UsedBy(C[j]) => RangeFor(y, C, v, j, 0)
      /\ \A v \in V : (\A j \in 1..N : v \notin UsedBy(C[j])) => y.ranges[v] = s.ranges[v]
  BY <1>2 DEF WalkedTo
<1>4. b \in Nat /\ 1..b = (1..b - 1) \cup {b} /\ 1..b \subseteq 1..Len(code.blocks)
      /\ b \notin 1..b - 1
  BY DEF LIRFits
<1>5. ASSUME NEW c \in 1..b, NEW i \in 1..Len(CodeOf(code, c)),
             NEW j \in 1..Len(CodeOf(code, c)), NEW v,
             v = CodeOf(code, c)[i].def, v \in UsedBy(CodeOf(code, c)[j])
      PROVE  y.ranges[v] = <<Rng(CodeOf(code, c)[i].num, CodeOf(code, c)[j].num + 1)>>
  <2>1. v \in V /\ c \in 1..Len(code.blocks)
    BY <1>4, <1>5, Zenon DEF LIRFits
  <2>2. CASE c = b
    <3>1. RangeFor(y, C, v, j, 0)
      BY <1>3, <1>5, <2>1, <2>2
    <3> QED
      BY <1>5, <2>2, <3>1 DEF RangeFor
  <2>3. CASE c \in 1..b - 1
    <3>1. s.ranges[v] = <<Rng(CodeOf(code, c)[i].num, CodeOf(code, c)[j].num + 1)>>
      BY <1>5, <2>3, Zenon DEF BlocksWalked
    <3>2. \A k \in 1..N : v \notin UsedBy(C[k])
      BY <1>4, <1>5, <2>1, <2>3, Zenon DEF LIRFits
    <3> QED
      BY <1>3, <2>1, <3>1, <3>2
  <2> QED
    BY <1>4, <2>2, <2>3
<1>6. ASSUME NEW v \in V,
             \A c \in 1..b : \A j \in 1..Len(CodeOf(code, c)) : v \notin UsedBy(CodeOf(code, c)[j])
      PROVE  y.ranges[v] = <<>>
  <2>1. \A j \in 1..N : v \notin UsedBy(C[j])
    BY <1>4, <1>6
  <2>2. s.ranges[v] = <<>>
    BY <1>4, <1>6 DEF BlocksWalked
  <2> QED
    BY <1>3, <2>1, <2>2
<1>7. BlocksWalked(y, code, b)
  BY <1>3, <1>5, <1>6, Zenon DEF BlocksWalked
<1> QED
  BY <1>7
-----------------------------------------------------------------------------
LEMMA FunctionWalked ==
  ASSUME NEW code, LIRFits(code, TRUE)
  PROVE  BlocksWalked(construct_ranges(code), code, Len(code.blocks))
<1> DEFINE n == Len(code.blocks)
           X == RangeStates(VRegsOf(code))
           x == [live |-> {}, aborted |-> FALSE, ranges |-> [v \in VRegsOf(code) |-> <<>>]]
           out == construct_in_out(code).out
           W == [k \in 0..n |-> {y \in X : BlocksWalked(y, code, k)}]
           step == [k \in 1..n |-> [y \in X |-> visit_block_backwards(y, code.blocks[k], out[k])]]
           h == CHOOSE f : FunctionWalkAlong(f, code)
<1>1. n \in Nat /\ \A k \in 1..n : out[k] = {}
  <2>1. \A b \in DOMAIN code.blocks : out[b] = {}
    BY LocalCodeLivesInBlocks
  <2>2. Graph(code)
    BY LocalCodeLivesInBlocks
  <2>3. n \in Nat /\ DOMAIN code.blocks = 1..n
    BY <2>2 DEF Graph
  <2> QED
    BY <2>1, <2>3
<1>2. construct_ranges(code) = h[n]
  BY DEF construct_ranges, FunctionWalkAlong
<1> HIDE DEF h, out
<1>3. x \in W[0]
  <2> DEFINE r == [v \in VRegsOf(code) |-> <<>>]
  <2>1. <<>> \in Seq(RangeRecs)
    OBVIOUS
  <2>2. r \in [VRegsOf(code) -> Seq(RangeRecs)] /\ \A v \in VRegsOf(code) : r[v] = <<>>
    BY <2>1
  <2>3. x = [live |-> {}, aborted |-> FALSE, ranges |-> r]
    OBVIOUS
  <2> HIDE DEF r, x
  <2>4. x.ranges = r /\ x.aborted = FALSE /\ x \in X
    BY <2>2, <2>3 DEF RangeStates
  <2>5. 1..0 = {} /\ 0 \in 0..n
    BY <1>1
  <2>6. BlocksWalked(x, code, 0)
    BY <2>2, <2>4, <2>5 DEF BlocksWalked
  <2> QED
    BY <2>4, <2>5, <2>6
<1> HIDE DEF x
<1>4. ASSUME NEW k \in 1..n, NEW y \in W[k - 1]
      PROVE  visit_block_backwards(y, code.blocks[k], out[k]) \in W[k] /\ y \in X
  <2>1. k \in 0..n /\ k - 1 \in 0..n
    BY <1>1
  <2>2. y \in X /\ BlocksWalked(y, code, k - 1)
    BY <2>1
  <2>3. BlocksWalked(visit_block_backwards(y, code.blocks[k], {}), code, k)
    BY <2>2, OneMoreBlockWalked
  <2>4. BlocksWalked(visit_block_backwards(y, code.blocks[k], out[k]), code, k)
    BY <1>1, <2>3
  <2>5. visit_block_backwards(y, code.blocks[k], out[k]) \in X
    BY <2>4 DEF BlocksWalked
  <2> QED
    BY <2>1, <2>2, <2>4, <2>5
<1>5. W \in [0..n -> SUBSET X]
  OBVIOUS
<1>6. \A k \in 1..n : \A y \in W[k - 1] :
        step[k][y] = visit_block_backwards(y, code.blocks[k], out[k])
  BY <1>4
<1> HIDE DEF W, X, step
<1>7. \A k \in 1..n : \A y \in W[k - 1] : step[k][y] \in W[k]
  BY <1>4, <1>6
<1>8. PICK f : StaysIn(f, n, W, x, step)
  <2>1. PICK m \in Nat : m = n
    BY <1>1
  <2> HIDE DEF n
  <2>2. /\ W \in [0..m -> SUBSET X] /\ x \in W[0]
        /\ \A k \in 1..m : \A y \in W[k - 1] : step[k][y] \in W[k]
    BY <1>3, <1>5, <1>7, <2>1
  <2>3. \E f : StaysIn(f, m, W, x, step)
    BY <2>2, RecursionWithin
  <2> QED
    BY <2>1, <2>3, Zenon
<1>9. FunctionWalkAlong(f, code)
  <2>1. \A k \in 0..n : k # 0 => k \in 1..n
    BY <1>1
  <2>2. \A k \in 1..n : step[k][f[k - 1]]
                          = visit_block_backwards(f[k - 1], code.blocks[k], out[k])
    <3>1. \A k \in 1..n : f[k - 1] \in W[k - 1]
      <4>1. \A k \in 1..n : k - 1 \in 0..n
        BY <1>1
      <4> QED
        BY <1>8, <4>1 DEF StaysIn
    <3> QED
      BY <1>6, <3>1
  <2> HIDE DEF n
  <2>3. f = [k \in 0..n |-> IF k = 0 THEN x
                            ELSE visit_block_backwards(f[k - 1], code.blocks[k], out[k])]
    BY <1>8, <2>1, <2>2 DEF StaysIn, GoesAlong
  <2> QED
    BY <2>3 DEF FunctionWalkAlong, x, n, out
<1>10. FunctionWalkAlong(h, code)
  BY <1>9 DEF h
<1>11. \A k \in 0..n : h[k] = IF k = 0 THEN x
                              ELSE visit_block_backwards(h[k - 1], code.blocks[k], out[k])
  BY Zenon, <1>10 DEF FunctionWalkAlong, x, out
<1>12. n \in 0..n /\ h[n] \in W[n]
  <2> DEFINE S == {k \in 0..n : h[k] \in W[k]}
  <2>1. 0 \in S /\ n \in 0..n
    BY <1>1, <1>3, <1>11
  <2>2. ASSUME NEW k \in 1..n, k - 1 \in S PROVE k \in S
    <3>1. k \in 0..n /\ h[k - 1] \in W[k - 1] /\ k # 0
      BY <2>2, <1>1
    <3>2. h[k] = visit_block_backwards(h[k - 1], code.blocks[k], out[k])
      BY <1>11, <3>1
    <3> QED
      BY <1>4, <3>1, <3>2
  <2> HIDE DEF S
  <2>3. \A k \in 0..n : k \in S
    BY <1>1, <2>1, <2>2, InductionUpTo
  <2> QED
    BY <2>1, <2>3 DEF S
<1>13. BlocksWalked(h[n], code, n)
  BY <1>12 DEF W
<1> QED
  BY <1>2, <1>13
-----------------------------------------------------------------------------
\* The vregs that have a range, and those that come before v by their starts.
RangedOf(s)      == {v \in DOMAIN s.ranges : s.ranges[v] # <<>>}
StartsBy(s, w, v) ==
  \/ s.ranges[w][1].start < s.ranges[v][1].start
  \/ s.ranges[w][1].start = s.ranges[v][1].start /\ w < v
Earlier(s, v)    == {w \in RangedOf(s) : StartsBy(s, w, v)}

\* It is a total order.
LEMMA StartsInOrder ==
  ASSUME NEW V, V \subseteq Nat, NEW s \in RangeStates(V)
  PROVE  /\ RangedOf(s) \subseteq V
         /\ \A u \in RangedOf(s) : ~StartsBy(s, u, u)
         /\ \A u, w \in RangedOf(s) : u = w \/ StartsBy(s, u, w) \/ StartsBy(s, w, u)
         /\ \A t, u, w \in RangedOf(s) :
              StartsBy(s, t, u) /\ StartsBy(s, u, w) => StartsBy(s, t, w)
<1> DEFINE R == RangedOf(s)
<1>1. R \subseteq V
  BY DEF RangedOf, RangeStates
<1>2. \A w \in R : s.ranges[w][1].start \in Int /\ w \in Nat
  <2> SUFFICES ASSUME NEW w \in R PROVE s.ranges[w][1].start \in Int
    BY <1>1
  <2>1. s.ranges[w] \in Seq(RangeRecs) /\ s.ranges[w] # <<>>
    BY <1>1 DEF RangedOf, RangeStates
  <2>2. s.ranges[w][1] \in RangeRecs
    BY <2>1
  <2> QED
    BY <2>2 DEF RangeRecs
<1> DEFINE first == [w \in R |-> s.ranges[w][1].start]
<1>3. first \in [R -> Int] /\ \A u, w \in R : StartsBy(s, u, w) <=>
                                \/ first[u] < first[w]
                                \/ first[u] = first[w] /\ u < w
  <2>1. first \in [R -> Int]
    BY <1>2
  <2>2. ASSUME NEW u \in R, NEW w \in R
        PROVE  StartsBy(s, u, w) <=> \/ first[u] < first[w]
                                     \/ first[u] = first[w] /\ u < w
    <3>1. first[u] = s.ranges[u][1].start /\ first[w] = s.ranges[w][1].start
      OBVIOUS
    <3> HIDE DEF first, R
    <3> QED
      BY <3>1, Zenon DEF StartsBy
  <2> QED
    BY <2>1, <2>2
<1> HIDE DEF first, R
<1>4. ASSUME NEW u \in R PROVE ~StartsBy(s, u, u)
  <2>1. first[u] \in Int /\ u \in Nat
    BY <1>2, <1>3
  <2> QED
    BY <1>3, <2>1
<1>5. ASSUME NEW u \in R, NEW w \in R PROVE u = w \/ StartsBy(s, u, w) \/ StartsBy(s, w, u)
  <2>1. first[u] \in Int /\ first[w] \in Int /\ u \in Nat /\ w \in Nat
    BY <1>2, <1>3
  <2> QED
    BY <1>3, <2>1
<1>6. ASSUME NEW t \in R, NEW u \in R, NEW w \in R, StartsBy(s, t, u), StartsBy(s, u, w)
      PROVE  StartsBy(s, t, w)
  <2>1. /\ first[t] \in Int /\ first[u] \in Int /\ first[w] \in Int
        /\ t \in Nat /\ u \in Nat /\ w \in Nat
    BY <1>2, <1>3
  <2> QED
    BY <1>3, <1>6, <2>1
<1> QED
  BY <1>1, <1>4, <1>5, <1>6 DEF R

LEMMA SortedIs ==
  ASSUME NEW V, V \subseteq Nat, IsFiniteSet(V), NEW s \in RangeStates(V),
         NEW v \in RangedOf(s)
  PROVE  /\ Cardinality(Earlier(s, v)) + 1 \in 1..Cardinality(RangedOf(s))
         /\ sorted_vregs(s)[Cardinality(Earlier(s, v)) + 1] = v
         /\ DOMAIN sorted_vregs(s) = 1..Cardinality(RangedOf(s))
         /\ Len(sorted_vregs(s)) = Cardinality(RangedOf(s))
         /\ Cardinality(RangedOf(s)) \in Nat
<1> DEFINE R == RangedOf(s)
<1>1. R \subseteq V /\ IsFiniteSet(R) /\ Cardinality(R) \in Nat
  <2>1. R \subseteq V
    BY StartsInOrder
  <2> QED
    BY <2>1, FS_Subset, FS_CardinalityType
<1>2. /\ \A u \in R : ~StartsBy(s, u, u)
      /\ \A u, w \in R : u = w \/ StartsBy(s, u, w) \/ StartsBy(s, w, u)
      /\ \A t, u, w \in R : StartsBy(s, t, u) /\ StartsBy(s, u, w) => StartsBy(s, t, w)
  BY StartsInOrder
<1>3. \A w \in R : /\ Earlier(s, w) = {u \in R : StartsBy(s, u, w)}
                   /\ Earlier(s, w) \subseteq R
  BY DEF Earlier
<1> HIDE DEF R
<1>4. ASSUME NEW u \in R, NEW w \in R, u \in Earlier(s, w)
      PROVE  Cardinality(Earlier(s, u)) < Cardinality(Earlier(s, w))
  <2>1. Earlier(s, u) \subseteq Earlier(s, w) /\ u \notin Earlier(s, u)
    BY <1>2, <1>3, <1>4
  <2>2. IsFiniteSet(Earlier(s, w)) /\ IsFiniteSet(Earlier(s, u))
    BY <1>1, <1>3, FS_Subset
  <2>3. Earlier(s, u) \cup {u} \subseteq Earlier(s, w)
    BY <1>4, <2>1
  <2>4. Cardinality(Earlier(s, u) \cup {u}) = Cardinality(Earlier(s, u)) + 1
    BY <2>1, <2>2, FS_AddElement
  <2>5. Cardinality(Earlier(s, u) \cup {u}) <= Cardinality(Earlier(s, w))
    BY <2>2, <2>3, FS_Subset
  <2>6. Cardinality(Earlier(s, u)) \in Nat /\ Cardinality(Earlier(s, w)) \in Nat
    BY <2>2, FS_CardinalityType
  <2> QED
    BY <2>4, <2>5, <2>6
<1>5. ASSUME NEW w \in R, Cardinality(Earlier(s, w)) = Cardinality(Earlier(s, v))
      PROVE  w = v
  <2>1. v \in R
    BY DEF R
  <2>2. w = v \/ w \in Earlier(s, v) \/ v \in Earlier(s, w)
    BY <1>2, <1>3, <2>1
  <2>3. Cardinality(Earlier(s, w)) \in Nat /\ Cardinality(Earlier(s, v)) \in Nat
    BY <1>1, <1>3, <2>1, FS_Subset, FS_CardinalityType
  <2> QED
    BY <1>4, <1>5, <2>1, <2>2, <2>3
<1>6. Cardinality(Earlier(s, v)) \in Nat /\ Cardinality(Earlier(s, v)) < Cardinality(R)
  <2>1. v \in R /\ v \notin Earlier(s, v) /\ Earlier(s, v) \subseteq R
    BY <1>2, <1>3 DEF R
  <2>2. IsFiniteSet(Earlier(s, v))
    BY <1>1, <2>1, FS_Subset
  <2>3. Cardinality(Earlier(s, v) \cup {v}) = Cardinality(Earlier(s, v)) + 1
    BY <2>1, <2>2, FS_AddElement
  <2>4. Earlier(s, v) \cup {v} \subseteq R
    BY <2>1
  <2>5. Cardinality(Earlier(s, v) \cup {v}) <= Cardinality(R)
    BY <1>1, <2>4, FS_Subset
  <2>6. Cardinality(Earlier(s, v)) \in Nat
    BY <2>2, FS_CardinalityType
  <2> QED
    BY <1>1, <2>3, <2>5, <2>6
<1>7. sorted_vregs(s) = [k \in 1..Cardinality(R) |->
                           CHOOSE w \in R : Cardinality(Earlier(s, w)) = k - 1]
  BY DEF sorted_vregs, R, RangedOf, Earlier, StartsBy
<1>8. PICK k \in 1..Cardinality(R) : k = Cardinality(Earlier(s, v)) + 1
  BY <1>1, <1>6
<1>9. sorted_vregs(s)[k] = v
  <2>1. sorted_vregs(s)[k] = CHOOSE w \in R : Cardinality(Earlier(s, w)) = k - 1
    BY <1>7
  <2>2. v \in R /\ Cardinality(Earlier(s, v)) = k - 1
    BY <1>6, <1>8 DEF R
  <2> QED
    BY <1>5, <2>1, <2>2
<1>10. Len(sorted_vregs(s)) = Cardinality(R)
  <2> DEFINE elem(m) == CHOOSE w \in R : Cardinality(Earlier(s, w)) = m - 1
  <2>1. PICK n \in Nat : n = Cardinality(R)
    BY <1>1
  <2>2. sorted_vregs(s) = [m \in 1..n |-> elem(m)]
    BY <1>7, <2>1
  <2> HIDE DEF elem
  <2> QED
    BY <2>1, <2>2
<1> QED
  BY <1>1, <1>7, <1>8, <1>9, <1>10 DEF R
-----------------------------------------------------------------------------
\* One of the ranges the scan is given.
IsRange(input, v, first, last) ==
  \E k \in 1..input.n : input.vreg[k] = v /\ input.start[k] = first /\ input.end[k] = last

\* A definition and the use of what it defines, in the same block, are the two
\* ends of one.
LEMMA RangeOfUse ==
  ASSUME NEW code, LIRFits(code, TRUE), NEW s, s = construct_ranges(code),
         NEW b \in 1..Len(code.blocks), NEW i \in 1..Len(CodeOf(code, b)),
         NEW j \in 1..Len(CodeOf(code, b)), NEW v, v = CodeOf(code, b)[i].def,
         v \in UsedBy(CodeOf(code, b)[j]), NEW input, input = ScanInput(code, s)
  PROVE  IsRange(input, v, CodeOf(code, b)[i].num, CodeOf(code, b)[j].num + 1)
<1> DEFINE V == VRegsOf(code)
           vs == sorted_vregs(s)
           k == Cardinality(Earlier(s, v)) + 1
           d == CodeOf(code, b)[i].num
           u == CodeOf(code, b)[j].num
<1>1. BlocksWalked(s, code, Len(code.blocks)) /\ Len(code.blocks) \in Nat
  BY FunctionWalked DEF LIRFits
<1>2. s \in RangeStates(V) /\ s.ranges[v] = <<Rng(d, u + 1)>> /\ v \in V
  <2>1. s \in RangeStates(V) /\ s.ranges[v] = <<Rng(d, u + 1)>>
    BY <1>1, Zenon DEF BlocksWalked
  <2>2. UsedBy(CodeOf(code, b)[j]) \subseteq V
    BY Zenon DEF LIRFits
  <2> QED
    BY <2>1, <2>2
<1>3. V \subseteq Nat /\ IsFiniteSet(V)
  <2>1. code.next_vreg \in Nat
    BY DEF LIRFits
  <2>2. PICK m \in Int : m = code.next_vreg - 1
    BY <2>1
  <2>3. V = 0..m
    BY <2>2 DEF VRegsOf, V
  <2>4. IsFiniteSet(0..m)
    BY FS_Interval
  <2> QED
    BY <2>3, <2>4
<1>4. v \in RangedOf(s)
  <2>1. <<Rng(d, u + 1)>> # <<>>
    OBVIOUS
  <2>2. DOMAIN s.ranges = V
    BY <1>2 DEF RangeStates
  <2> QED
    BY <1>2, <2>1, <2>2 DEF RangedOf
<1> HIDE DEF d, u, vs, k, V
<1>5. /\ k \in 1..Cardinality(RangedOf(s)) /\ vs[k] = v
      /\ DOMAIN vs = 1..Cardinality(RangedOf(s)) /\ Cardinality(RangedOf(s)) \in Nat
  BY <1>2, <1>3, <1>4, SortedIs DEF vs, k
<1>6. Len(vs) = Cardinality(RangedOf(s))
  BY <1>2, <1>3, <1>4, SortedIs DEF vs
<1>7. s.ranges[v][1].start = d /\ s.ranges[v][1].end = u + 1
  <2>1. <<Rng(d, u + 1)>>[1] = Rng(d, u + 1)
    OBVIOUS
  <2>2. Rng(d, u + 1).start = d /\ Rng(d, u + 1).end = u + 1
    BY DEF Rng
  <2> QED
    BY <1>2, <2>1, <2>2
<1>8. /\ input.n = Len(vs) /\ input.vreg = vs
      /\ input.start = [m \in DOMAIN vs |-> s.ranges[vs[m]][1].start]
      /\ input.end = [m \in DOMAIN vs |-> s.ranges[vs[m]][1].end]
  BY DEF ScanInput, vs
<1>9. /\ input.vreg[k] = v /\ input.start[k] = d /\ input.end[k] = u + 1
      /\ k \in 1..input.n
  <2>1. k \in 1..input.n
    BY <1>5, <1>6, <1>8
  <2>2. k \in DOMAIN vs /\ vs[k] = v
    BY <1>5
  <2>3. input.vreg[k] = v
    BY <1>8, <2>2
  <2>4. input.start[k] = d
    <3>1. input.start[k] = s.ranges[vs[k]][1].start
      BY <1>8, <2>2
    <3> QED
      BY <1>7, <2>2, <3>1
  <2>5. input.end[k] = u + 1
    <3>1. input.end[k] = s.ranges[vs[k]][1].end
      BY <1>8, <2>2
    <3> QED
      BY <1>7, <2>2, <3>1
  <2> QED
    BY <2>1, <2>3, <2>4, <2>5
<1> QED
  BY <1>9 DEF IsRange, d, u
-----------------------------------------------------------------------------
\* What the range construction hands to the scan, and that it comes through.
RangesHanded ==
  /\ stage = "regalloc" => in = ScanInput(lir, construct_ranges(lir))
  /\ NeverAborts

LEMMA StutterRangesHanded ==
  ASSUME RangesHanded, UNCHANGED <<blocks, lir, in>>,
         stage' \in {"regalloc", "aborted"} => stage' = stage
  PROVE  RangesHanded'
<1>1. UsesAreLocal' = UsesAreLocal
  BY DEF UsesAreLocal, ReadsOnly, DefinedIn, Insts, InstAt, BlockIds
<1>2. stage' = "regalloc" => in' = ScanInput(lir', construct_ranges(lir'))
  BY Zenon DEF RangesHanded
<1>3. NeverAborts'
  BY <1>1 DEF RangesHanded, NeverAborts, AssertionsHold
<1> QED
  BY <1>2, <1>3, Zenon DEF RangesHanded

LEMMA StepRangesHanded ==
  ASSUME Handed, RangesHanded, [BackendNext]_allvars
  PROVE  RangesHanded'
<1>1. CASE Walk \/ Lower
  <2>1. stage' = "mir" \/ stage' = "lir"
    BY <1>1, Zenon DEF Walk, Lower
  <2> QED
    BY <2>1 DEF RangesHanded, NeverAborts, AssertionsHold
<1>2. CASE BuildRanges
  <2> DEFINE s == construct_ranges(lir)
             i == ScanInput(lir, s)
  <2>1. UNCHANGED <<vars, lir>> /\ stage = "lir"
    BY <1>2, Zenon DEF BuildRanges
  <2>2. UNCHANGED <<blocks, lir>>
    BY <2>1 DEF vars
  <2>3. UsesAreLocal' = UsesAreLocal
    BY <2>2 DEF UsesAreLocal, ReadsOnly, DefinedIn, Insts, InstAt, BlockIds
  <2>4. ASSUME UsesAreLocal PROVE ~s.aborted
    <3>1. PICK L : L = TRUE
      OBVIOUS
    <3>2. LIRFits(lir, UsesAreLocal)
      BY <2>1, LIRIsFit
    <3>3. LIRFits(lir, TRUE)
      BY <2>4, <3>2 DEF LIRFits
    <3>4. BlocksWalked(s, lir, Len(lir.blocks))
      BY <3>3, FunctionWalked
    <3> QED
      BY <3>4, Zenon DEF BlocksWalked
  <2>5. CASE s.aborted
    <3>1. stage' = "aborted"
      BY <1>2, <2>5, Zenon DEF BuildRanges
    <3>2. ~UsesAreLocal'
      BY <2>3, <2>4, <2>5
    <3> QED
      BY <3>1, <3>2 DEF RangesHanded, NeverAborts
  <2>6. CASE ~s.aborted /\ ~WellFormed(i)
    <3>1. stage' = "undefined"
      BY <1>2, <2>6, Zenon DEF BuildRanges
    <3> QED
      BY <3>1 DEF RangesHanded, NeverAborts, AssertionsHold
  <2>7. CASE ~s.aborted /\ WellFormed(i)
    <3>1. stage' = "regalloc" /\ Begin(i)
      BY <1>2, <2>7, Zenon DEF BuildRanges
    <3>2. in' = i
      BY <3>1, Zenon DEF Begin
    <3>3. in' = ScanInput(lir', construct_ranges(lir'))
      BY <2>2, <3>2, Zenon
    <3> QED
      BY <3>1, <3>3 DEF RangesHanded, NeverAborts, AssertionsHold
  <2> QED
    BY <2>5, <2>6, <2>7, Zenon
<1>3. CASE Allocate
  <2>1. UNCHANGED <<vars, stage, lir>> /\ Scan
    BY <1>3, Zenon DEF Allocate
  <2>2. in' = in
    <3>1. ASSUME NEW v \in Ranges, Expire(v) \/ Spin(v) \/ EvictVictim(v)
          PROVE  in' = in
      BY <3>1 DEF Expire, Spin, EvictVictim, scanvars
    <3>2. CASE AllocateCallerSaved \/ AllocateCalleeSaved
      BY <3>2 DEF AllocateCallerSaved, AllocateCalleeSaved
    <3>3. CASE SpillCurrent \/ Finish
      BY <3>3 DEF SpillCurrent, Finish
    <3> QED
      BY <2>1, <3>1, <3>2, <3>3, Zenon DEF Scan
  <2>3. blocks' = blocks
    BY <2>1 DEF vars
  <2> QED
    BY <2>1, <2>2, <2>3, StutterRangesHanded
<1>4. CASE Emitted \/ FetchOperands \/ OutOfScratch \/ Execute \/ Goto \/ Return
  <2>1. stage' \notin {"regalloc", "aborted"}
    <3>1. CASE Emitted \/ OutOfScratch
      BY <3>1 DEF Emitted, OutOfScratch
    <3>2. CASE FetchOperands
      BY <3>2 DEF FetchOperands
    <3>3. CASE Execute
      BY <3>3 DEF Execute
    <3>4. CASE Goto \/ Return
      BY <3>4 DEF Goto, Return
    <3> QED
      BY <1>4, <3>1, <3>2, <3>3, <3>4, Zenon
  <2> QED
    BY <2>1 DEF RangesHanded, NeverAborts, AssertionsHold
<1>5. CASE Over \/ UNCHANGED allvars
  <2>1. UNCHANGED <<vars, scanvars, lir, stage>>
    BY <1>5, Zenon DEF Over, allvars
  <2>2. UNCHANGED <<blocks, lir, in>>
    BY <2>1 DEF vars, scanvars
  <2> QED
    BY <2>1, <2>2, StutterRangesHanded
<1> QED
  BY <1>1, <1>2, <1>3, <1>4, <1>5, Zenon DEF BackendNext

LEMMA GivenRangesAreExact ==
  ASSUME Handed, RangesHanded
  PROVE  RangesAreExact
<1> SUFFICES ASSUME stage = "regalloc", cur = 1, UsesAreLocal, NEW b \in DOMAIN lir.blocks,
                    NEW i \in DOMAIN Code(b), NEW j \in DOMAIN Code(b),
                    Code(b)[i].def # NoVReg, Code(b)[i].def \in UsedBy(Code(b)[j])
             PROVE  \E k \in Ranges : /\ in.vreg[k] = Code(b)[i].def
                                      /\ in.start[k] = Code(b)[i].num
                                      /\ in.end[k] = Code(b)[j].num + 1
  BY DEF RangesAreExact
<1>1. LIRFits(lir, UsesAreLocal)
  BY LIRIsFit
<1>2. LIRFits(lir, TRUE)
  BY <1>1 DEF LIRFits
<1>3. Code(b) = CodeOf(lir, b)
  BY DEF Code, CodeOf
<1>4. Graph(lir)
  BY <1>2, GraphIs
<1>5. b \in 1..Len(lir.blocks)
  BY <1>4 DEF Graph
<1>6. i \in 1..Len(CodeOf(lir, b)) /\ j \in 1..Len(CodeOf(lir, b))
  <2>1. b \in DOMAIN lir.blocks
    OBVIOUS
  <2>2. CodeOf(lir, b) \in Seq(LInsts)
    BY <1>4, <2>1, CodeOfIs
  <2> QED
    BY <1>3, <2>2
<1>7. in = ScanInput(lir, construct_ranges(lir))
  BY DEF RangesHanded
<1>8. \E k \in 1..in.n : /\ in.vreg[k] = CodeOf(lir, b)[i].def
                         /\ in.start[k] = CodeOf(lir, b)[i].num
                         /\ in.end[k] = CodeOf(lir, b)[j].num + 1
  <2>1. PICK s : s = construct_ranges(lir)
    OBVIOUS
  <2>2. PICK v : v = CodeOf(lir, b)[i].def
    OBVIOUS
  <2>3. PICK input : input = ScanInput(lir, s)
    OBVIOUS
  <2>4. v \in UsedBy(CodeOf(lir, b)[j])
    BY <1>3, <2>2
  <2>5. IsRange(input, v, CodeOf(lir, b)[i].num, CodeOf(lir, b)[j].num + 1)
    BY <1>2, <1>5, <1>6, <2>1, <2>2, <2>3, <2>4, RangeOfUse
  <2> QED
    BY <1>7, <2>1, <2>2, <2>3, <2>5, Zenon DEF IsRange
<1> QED
  BY <1>3, <1>8 DEF Ranges
-----------------------------------------------------------------------------
LEMMA StepSpills ==
  ASSUME ScanInv, SpillsOnlyUnderPressure, [BackendNext]_allvars
  PROVE  SpillsOnlyUnderPressure'
<1>1. CASE Allocate
  BY <1>1, StepUnderPressure DEF Allocate
<1>2. CASE BuildRanges
  <2>1. UNCHANGED scanvars \/ \E i : Begin(i)
    BY <1>2, Zenon DEF BuildRanges
  <2> QED
    BY <2>1, StepUnderPressure
<1>3. ASSUME ~Allocate, ~BuildRanges
      PROVE  UNCHANGED scanvars
  BY <1>3, OtherSteps
<1>4. CASE UNCHANGED scanvars
  BY <1>4, StepUnderPressure
<1> QED
  BY <1>1, <1>2, <1>3, <1>4

\* The inductive invariant of the pipeline: what the scan keeps, what each pass
\* hands to the next, and whose the callee-saved registers are.
PipelineInv ==
  ScanInv /\ SpillsOnlyUnderPressure /\ Handed /\ RangesHanded /\ Owned

\* It holds from the first node of the function to the last instruction run.
THEOREM PipelineInvariant == BackendSpec => []PipelineInv
<1>1. BackendInit => PipelineInv
  <2>1. BackendInit => SpillsOnlyUnderPressure
    BY DEF BackendInit, ScanInit, SpillsOnlyUnderPressure, InSlot, UNINIT
  <2>2. BackendInit => RangesHanded
    BY DEF BackendInit, RangesHanded, NeverAborts, AssertionsHold
  <2> QED
    BY <2>1, <2>2, InitScanInv, InitHanded, InitOwned DEF PipelineInv, BackendInit
<1>2. PipelineInv /\ [BackendNext]_allvars => PipelineInv'
  <2> SUFFICES ASSUME PipelineInv, [BackendNext]_allvars PROVE PipelineInv'
    OBVIOUS
  <2>1. ScanInv'
    BY BackendScan DEF PipelineInv
  <2>2. SpillsOnlyUnderPressure'
    BY StepSpills DEF PipelineInv
  <2>3. Handed'
    BY StepHanded DEF PipelineInv
  <2>4. RangesHanded'
    BY StepRangesHanded DEF PipelineInv
  <2>5. Owned'
    BY StepOwned DEF PipelineInv
  <2> QED
    BY <2>1, <2>2, <2>3, <2>4, <2>5 DEF PipelineInv
<1> QED
  BY <1>1, <1>2, PTL DEF BackendSpec

\* The code a compiled function ends up as gives its caller the callee-saved
\* registers back: those an instruction writes, a register handed over by an
\* evicted range included, are all among the ones the prologue has saved.
THEOREM CallerGetsItsRegistersBack == BackendSpec => []CalleeSavedPreserved
<1>1. PipelineInv => CalleeSavedPreserved
  BY DEF PipelineInv, Owned
<1> QED
  BY <1>1, PipelineInvariant, PTL

\* assert(!interval.ranges.empty()) in insert_start_range never fails on a
\* function whose values are read in the blocks that compute them.
THEOREM RangeAssertionHolds == BackendSpec => []NeverAborts
<1>1. PipelineInv => NeverAborts
  BY DEF PipelineInv, RangesHanded
<1> QED
  BY <1>1, PipelineInvariant, PTL

\* For such a function the range construction gives every value exactly the
\* stretch from its definition to one past its use, and the scan gets them all.
THEOREM RangesFitTheCode == BackendSpec => []RangesAreExact
<1>1. PipelineInv => RangesAreExact
  BY GivenRangesAreExact DEF PipelineInv
<1> QED
  BY <1>1, PipelineInvariant, PTL

\* What the scan keeps apart it keeps apart in every function the generator can
\* produce: no two live values in a register, none across a call in a register
\* the call destroys, and every slot fresh.
THEOREM CompiledValuesAreApart ==
  BackendSpec => [](/\ ScanTypeOK /\ NoSharedPreg /\ SurvivesCalls /\ CalleeSavedAreTracked
                    /\ SpillSlotsAreFresh /\ SpillsOnlyUnderPressure)
<1>1. PipelineInv => /\ ScanTypeOK /\ NoSharedPreg /\ SurvivesCalls /\ CalleeSavedAreTracked
                     /\ SpillSlotsAreFresh /\ SpillsOnlyUnderPressure
  BY DEF PipelineInv, ScanInv, SlotsAreCounted, SpillSlotsAreFresh
<1> QED
  BY <1>1, PipelineInvariant, PTL
=============================================================================
