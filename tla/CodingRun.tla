------------------------------- MODULE CodingRun -------------------------------
(***************************************************************************)
(* The durable record of one CodingRun (version 2) and the pure transitions *)
(* CodingRunEngine saves for it.  No variable lives here: CodingEngine       *)
(* interleaves these transitions with the working copy, the project history  *)
(* and the locks they are taken under.                                       *)
(*                                                                         *)
(* A snapshot id is a small number, a revision of the instruction is the     *)
(* number of constraints received.  A receipt is the pair it is bound to,    *)
(* <<instruction revision, working snapshot>>: the digests of the command,   *)
(* the task contract and the diff are functions of that pair.  Events,       *)
(* timestamps, the words of questions and the phase shown on the anchor are   *)
(* left out; the phase "mapping" is `map = None`.  The cumulative budget of   *)
(* decisions is a nondeterministic refusal (CodingEngine!LoopBudget).         *)
(***************************************************************************)
EXTENDS Integers, FiniteSets

CONSTANTS
  Snaps,         \* ids of snapshots of the project tree
  MaxInstr,      \* bound: constraints added to one run
  MaxPatches,    \* limits.maxPatches
  None           \* null

ASSUME BoundsAssumption ==
  /\ MaxInstr \in Nat /\ MaxPatches \in Nat
  /\ None \notin Snaps

LiveStatus == {"running", "waiting_input", "validating"}
TerminalStatus == {"completed", "failed", "cancelled", "stale", "partial"}
Instr == 0 .. MaxInstr
Receipt == Instr \X Snaps

(* writer: whose lease the record carries.  A restarted process has a new   *)
(* writerId, so a lease of its predecessor is "other" until it expires.     *)
Run == [st : LiveStatus \cup TerminalStatus, instr : Instr, applied : Instr,
        base : Nat,                       \* project revision it started from
        from : Snaps,                     \* and that revision's snapshot
        map : Snaps \cup {None}, plan : BOOLEAN,
        diff : Snaps,                     \* persisted working snapshot
        passed : SUBSET Receipt, approved : SUBSET Receipt,
        pend : Receipt \cup {None},
        writer : {"mine", "other", "expired"},
        patches : 0 .. MaxPatches]

ASSUME NoRecordIsNone == None \notin Receipt \cup Run

Terminal(r) == r.st \in TerminalStatus

NewRun(rev, snap) ==
  [st |-> "running", instr |-> 0, applied |-> 0, base |-> rev, from |-> snap,
   map |-> None, plan |-> FALSE, diff |-> snap, passed |-> {}, approved |-> {},
   pend |-> None, writer |-> "mine", patches |-> 0]

(* What requireMutableRun asks of the record itself. *)
Mutable(r, allowWaiting) ==
  /\ ~Terminal(r)
  /\ r.st = "waiting_input" => allowWaiting
  /\ r.pend = None

(* claimOrRenewWriter: a paused run can be claimed at once. *)
Claimable(r) == r.st = "waiting_input" \/ r.writer # "other"
Claimed(r) == [r EXCEPT !.writer = "mine"]

Paused(r) == [Claimed(r) EXCEPT !.st = "waiting_input"]
Resumed(r) == [Claimed(r) EXCEPT !.st = "running"]

Mapped(r, snap) == [Claimed(r) EXCEPT !.map = snap, !.plan = FALSE]

(* A new plan has a new digest, which no earlier review is bound to. *)
CanPlan(r, snap) == r.map = snap
Planned(r) ==
  [Claimed(r) EXCEPT !.plan = TRUE, !.applied = r.instr, !.approved = {}]

CurrentPlan(r) == r.map # None /\ r.plan

Revised(r) ==
  [Claimed(r) EXCEPT !.st = "running", !.instr = @ + 1, !.map = None,
                     !.plan = FALSE]

CanPatch(r) == CurrentPlan(r) /\ r.patches < MaxPatches
Patched(r, snap) ==
  [Claimed(r) EXCEPT !.diff = snap, !.applied = r.instr, !.patches = @ + 1]

(* A receipt taken at `at` counts only when nothing moved meanwhile. *)
Fresh(r, snap, at) == at = <<r.instr, snap>>
Validated(r, snap, at, ok) ==
  [Claimed(r) EXCEPT !.passed = IF ok /\ Fresh(r, snap, at) THEN @ \cup {at} ELSE @]
CanReview(r, snap) ==
  CurrentPlan(r) /\ r.applied = r.instr /\ <<r.instr, snap>> \in r.passed
Reviewed(r, snap, at, ok) ==
  [Claimed(r) EXCEPT !.approved = IF ok /\ Fresh(r, snap, at) THEN @ \cup {at} ELSE @]

(* Mutant: the review of the diff is not asked for. *)
CanFinalizeUnreviewed(r, snap, proofs) ==
  CanReview(r, snap) /\ <<r.instr, snap>> \in proofs

(* The commit barrier: assertRequiredValidators, the durable evidence of the *)
(* validator (`proofs`), and the review of the exact diff.                   *)
CanFinalize(r, snap, proofs) ==
  /\ CanReview(r, snap)
  /\ <<r.instr, snap>> \in proofs
  /\ <<r.instr, snap>> \in r.approved
Prepared(r, snap) ==
  [Claimed(r) EXCEPT !.st = "validating", !.diff = snap, !.pend = <<r.instr, snap>>]

Completed(r) == [r EXCEPT !.st = "completed", !.pend = None]
Ambiguous(r) == [r EXCEPT !.st = "partial", !.pend = None]
Cancelled(r) == [r EXCEPT !.st = "cancelled", !.pend = None]
Stale(r) == [r EXCEPT !.st = "stale"]
Failed(r) == [r EXCEPT !.st = "failed", !.pend = None]
================================================================================
