------------------------------ MODULE SandboxProofs ------------------------------
(***************************************************************************)
(* Proofs about SandboxLease: the invariant IInv, and from it the bound on    *)
(* the containers, the two fences and the refinement of SandboxPromise, for   *)
(* every set of leases, every limit and every environment.                    *)
(***************************************************************************)
EXTENDS SandboxLease, FiniteSetTheorems, TLAPS

(* A call that waits for an answer names its lease. *)
AdmNames == adm.pc \in {"sent", "activate"} => adm.l \in Leases

(* Every record was announced under a generated id; a copy that is not known  *)
(* to be stale is the journal's.                                              *)
Ids == \A l \in Leases : journal[l] # None => l \in used
Coherent == \A l \in Leases : mem[l] # None /\ l \notin stale => journal[l] = mem[l]

(* Nothing lives that has no record; a receipt proves it of a lease that still *)
(* has one; and a runner that has read the journal has a copy of all that      *)
(* lives.                                                                     *)
Contained == \A l \in Leases : journal[l] = None => Dead(l)
Receipt == \A l \in Leases : op[l].pc = "remove" => Dead(l) /\ bk[l] = "fenced"
HasRead == recovered \/ sweep.kind \in {"recover", "drain_recovery"}
Loaded == HasRead => \A l \in Leases : mem[l] = None => Dead(l)

(* Admission and the sweeps come after the recovery. *)
Staged ==
  (sweep.kind \in {"project", "drain"} \/ adm.pc \notin {"off", "queued"}) => recovered

Alive == {l \in Leases : ~Dead(l)}
CapInv == Cardinality(Alive) <= Cap

(* From the listing of a drain on, no allocation and no caller is left. *)
Closing ==
  /\ \A l \in Leases : op[l].pc = "exec" => op[l].by = "client"
  /\ (phase = "drained" \/ sweep.kind = "drain") =>
       adm.pc = "off" /\ \A l \in Leases : op[l].by # "client"
  /\ sweep.kind = "drain" => phase = "draining"
  /\ phase = "drained" =>
       sweep.kind = "off" /\ recovered /\ \A l \in Leases : journal[l] = None

IInv == /\ TypeOK /\ AdmNames /\ Ids /\ Coherent /\ Contained /\ Receipt
        /\ Loaded /\ Staged /\ CapInv /\ Closing
--------------------------------------------------------------------------------
(* What a compare-and-swap leaves behind. *)
LEMMA OutcomeFacts ==
  ASSUME TypeOK, Coherent, NEW l \in Leases, NEW to \in State \cup {None},
         NEW o \in Outcomes(l, to)
  PROVE  /\ o.j \in State \cup {None} /\ o.m \in State \cup {None}
         /\ o.s \in BOOLEAN /\ o.ok \in BOOLEAN
         /\ o.j # None => journal[l] # None
         /\ (o.j = None /\ journal[l] # None) => to = None /\ mem[l] # None
         /\ (o.m # None /\ ~o.s) => o.j = o.m
         /\ (o.m = None /\ mem[l] # None) => o.j = None
<1> DEFINE j == journal[l]
           m == mem[l]
<1>1. /\ j \in State \cup {None} /\ m \in State \cup {None}
      /\ m # None /\ l \notin stale => j = m
  BY DEF TypeOK, Coherent
<1> DEFINE Is(a, b, c, d) == o.j = a /\ o.m = b /\ o.s = c /\ o.ok = d
<1>2. \A a, b, c, d : o = Outcome(a, b, c, d) => Is(a, b, c, d)
  BY DEF Outcome
<1>3. CASE m = None
  <2>1. o = Outcome(j, None, FALSE, FALSE)
    BY <1>3 DEF Outcomes
  <2>2. Is(j, None, FALSE, FALSE)
    BY <1>2, <2>1
  <2> QED
    BY <1>1, <1>3, <2>2
<1>4. CASE m # None /\ l \in stale
  <2>1. o = Outcome(j, j, FALSE, FALSE) \/ o = Outcome(j, m, TRUE, FALSE)
    BY <1>4 DEF Outcomes
  <2>2. Is(j, j, FALSE, FALSE) \/ Is(j, m, TRUE, FALSE)
    BY <1>2, <2>1
  <2> QED
    BY <1>1, <1>4, <2>2
<1>5. CASE m # None /\ l \notin stale
  <2>1. \/ o = Outcome(to, to, FALSE, TRUE) \/ o = Outcome(j, m, FALSE, FALSE)
        \/ o = Outcome(to, to, FALSE, FALSE) \/ o = Outcome(to, m, TRUE, FALSE)
    BY <1>5 DEF Outcomes
  <2>2. \/ Is(to, to, FALSE, TRUE) \/ Is(j, m, FALSE, FALSE)
        \/ Is(to, to, FALSE, FALSE) \/ Is(to, m, TRUE, FALSE)
    BY <1>2, <2>1
  <2> QED
    BY <1>1, <1>5, <2>2
<1> QED
  BY <1>3, <1>4, <1>5

(* An empty journal, an idle runner and an empty backend satisfy the invariant. *)
LEMMA InitHolds == Init => IInv
<1> SUFFICES ASSUME Init PROVE IInv
  OBVIOUS
<1>1. TypeOK
  BY LeaseAssumption DEF Init, TypeOK, NoAdm, NoOp, NoSweep, AdmPc, OpPc, By
<1>2. \A l \in Leases : Dead(l)
  BY DEF Init, Dead, MayStart
<1>3. AdmNames /\ Ids /\ Coherent /\ Contained /\ Receipt /\ Loaded /\ Staged /\ Closing
  BY <1>2, LeaseAssumption DEF Init, AdmNames, Ids, Coherent, Contained, Receipt, Loaded, Staged,
     Closing, NoAdm, NoOp, NoSweep, HasRead
<1>4. CapInv
  <2>1. Alive = {}
    BY <1>2 DEF Alive
  <2> QED
    BY <2>1, FS_EmptySet, LeaseAssumption DEF CapInv
<1> QED
  BY <1>1, <1>3, <1>4 DEF IInv
--------------------------------------------------------------------------------
(* Types. *)

(* A compare-and-swap leaves records and copies in states of a record. *)
LEMMA ApplyType ==
  ASSUME TypeOK, Coherent, NEW l \in Leases, NEW to \in State \cup {None},
         NEW o \in Outcomes(l, to), Apply(l, o)
  PROVE  /\ journal' \in [Leases -> State \cup {None}]
         /\ mem' \in [Leases -> State \cup {None}]
         /\ stale' \subseteq Leases
<1>1. o.j \in State \cup {None} /\ o.m \in State \cup {None}
  BY OutcomeFacts
<1> QED
  BY <1>1 DEF Apply, TypeOK

(* An operation moves on to a stage, with at most one more fence request. *)
LEMMA MoveType ==
  ASSUME TypeOK, NEW l \in Leases, NEW pc \in OpPc, MoveTo(l, pc)
  PROVE  /\ op' \in [Leases -> [pc : OpPc, by : By]]
         /\ net' \subseteq Leases \X {"alloc", "fence"}
BY DEF MoveTo, TypeOK

(* The end of an operation frees its lease and may mark the sweep as failed. *)
LEMMA FinishType ==
  ASSUME TypeOK, NEW l \in Leases, NEW f \in BOOLEAN, Finish(l, f)
  PROVE  /\ op' \in [Leases -> [pc : OpPc, by : By]]
         /\ sweep' \in [kind : {"off", "recover", "drain_recovery", "project", "drain"},
                        todo : SUBSET Leases, bad : BOOLEAN]
BY DEF Finish, TypeOK, NoOp, OpPc, By

(* An operation begins at a stage, with at most one more fence request. *)
LEMMA BeginType ==
  ASSUME TypeOK, NEW l \in Leases, NEW pc \in OpPc, NEW by \in By, Begin(l, pc, by)
  PROVE  /\ op' \in [Leases -> [pc : OpPc, by : By]]
         /\ net' \subseteq Leases \X {"alloc", "fence"}
BY DEF Begin, TypeOK, OpPc

(* The steps of the operation that holds a lease keep the types. *)
LEMMA HeldType ==
  ASSUME TypeOK, Coherent, NEW l \in Leases, Held(l)
  PROVE  TypeOK'
<1> USE DEF runner, backend
<1>0. State \subseteq State \cup {None} /\ "disposing" \in State /\ "quarantined" \in State
  BY DEF State
<1>p. {"fencing", "retry", "doubt", "quarantine"} \subseteq OpPc
  BY DEF OpPc
<1>1. CASE ToDisposing(l)
  BY <1>0, <1>p, <1>1, ApplyType, MoveType, FinishType DEF ToDisposing, TypeOK
<1>2. CASE Reject(l)
  BY <1>0, <1>p, <1>2, ApplyType, MoveType, FinishType DEF Reject, TypeOK
<1>3. CASE Retry(l)
  BY <1>0, <1>p, <1>3, ApplyType, MoveType, FinishType DEF Retry, TypeOK
<1>4. CASE Quarantine(l)
  BY <1>0, <1>p, <1>4, ApplyType, MoveType, FinishType DEF Quarantine, TypeOK
<1>5. CASE Doubt(l)
  BY <1>0, <1>p, <1>5, ApplyType, MoveType, FinishType DEF Doubt, TypeOK
<1>6. CASE FenceUnconfirmed(l)
  BY <1>0, <1>6, ApplyType, FinishType DEF FenceUnconfirmed, TypeOK
<1>7. CASE Remove(l)
  BY <1>7, ApplyType, FinishType DEF Remove, TypeOK
<1>8. CASE ExecDone(l) \/ ExecDoubt(l)
  BY <1>8, <1>p DEF ExecDone, ExecDoubt, TypeOK, NoOp, OpPc, By
<1> QED
  BY <1>1, <1>2, <1>3, <1>4, <1>5, <1>6, <1>7, <1>8 DEF Held

(* The allocation after it was rebuilt from nothing. *)
LEMMA AdmShape ==
  /\ NoAdm \in [pc : AdmPc, l : Leases \cup {None}, todo : SUBSET Leases]
  /\ \A l \in Leases :
       /\ [NoAdm EXCEPT !.pc = "sent", !.l = l]
            \in [pc : AdmPc, l : Leases \cup {None}, todo : SUBSET Leases]
       /\ [NoAdm EXCEPT !.pc = "cleanup", !.todo = {l}]
            \in [pc : AdmPc, l : Leases \cup {None}, todo : SUBSET Leases]
BY DEF NoAdm, AdmPc

(* ... and its fields. *)
LEMMA AdmFields ==
  /\ NoAdm.pc = "off" /\ [NoAdm EXCEPT !.pc = "queued"].pc = "queued"
  /\ \A l : /\ [NoAdm EXCEPT !.pc = "sent", !.l = l].pc = "sent"
            /\ [NoAdm EXCEPT !.pc = "sent", !.l = l].l = l
            /\ [NoAdm EXCEPT !.pc = "cleanup", !.todo = {l}].pc = "cleanup"
BY DEF NoAdm

(* The steps that start an operation of a lease, or create one, keep the types. *)
LEMMA LeaseType ==
  ASSUME TypeOK, NEW l \in Leases,
         Exec(l) \/ Dispose(l) \/ AdmTake(l) \/ AdmCreate(l) \/ LateCleanup(l) \/ SweepTake(l)
  PROVE  TypeOK'
<1> USE DEF runner, backend
<1>p. {"exec", "dispose", "reject"} \subseteq OpPc /\ {"client", "adm", "late", "sweep"} \subseteq By
  BY DEF OpPc, By
<1>1. CASE Exec(l)
  BY <1>1, <1>p DEF Exec, TypeOK
<1>2. CASE Dispose(l)
  BY <1>2, <1>p, BeginType DEF Dispose, TypeOK
<1>3. CASE AdmTake(l)
  BY <1>3, <1>p, BeginType DEF AdmTake, TypeOK
<1>4. CASE AdmCreate(l)
  <2>1. "allocating" \in State /\ {"sent", "cleanup", "off"} \subseteq AdmPc
    BY DEF State, AdmPc
  <2>2. CreateSaved(l) \/ CreateFails(l)
    BY <1>4 DEF AdmCreate
  <2> DEFINE jm == /\ journal' \in [Leases -> State \cup {None}]
                   /\ mem' \in [Leases -> State \cup {None}]
  <2>3. CASE CreateSaved(l)
    <3>1. jm
      BY <2>1, <2>3 DEF CreateSaved, TypeOK
    <3>2. adm' \in [pc : AdmPc, l : Leases \cup {None}, todo : SUBSET Leases]
      BY <2>3, AdmShape DEF CreateSaved
    <3>3. net' \subseteq Leases \X {"alloc", "fence"}
      BY <2>3 DEF CreateSaved, TypeOK
    <3> QED
      BY <1>4, <3>1, <3>2, <3>3 DEF AdmCreate, TypeOK
  <2>4. CASE CreateFails(l)
    <3>1. jm
      BY <2>1, <2>4 DEF CreateFails, TypeOK
    <3>2. adm' \in [pc : AdmPc, l : Leases \cup {None}, todo : SUBSET Leases]
      BY <2>4, AdmShape DEF CreateFails
    <3> QED
      BY <1>4, <2>4, <3>1, <3>2 DEF AdmCreate, CreateFails, TypeOK
  <2> QED
    BY <2>2, <2>3, <2>4
<1>5. CASE LateCleanup(l)
  BY <1>5, <1>p, BeginType DEF LateCleanup, TypeOK
<1>6. CASE SweepTake(l)
  BY <1>6, <1>p, BeginType DEF SweepTake, TypeOK
<1> QED
  BY <1>1, <1>2, <1>3, <1>4, <1>5, <1>6

(* The steps of the backend keep the types. *)
LEMMA BackendType ==
  ASSUME TypeOK, NEW l \in Leases, Backend(l)
  PROVE  TypeOK'
<1> USE DEF runner, TypeOK
<1>1. CASE BkRefuse(l)
  BY <1>1 DEF BkRefuse, backend
<1>2. CASE BkAllocate(l)
  BY <1>2 DEF BkAllocate
<1>3. CASE BkCreate(l)
  BY <1>3 DEF BkCreate
<1>4. CASE BkReady(l)
  BY <1>4 DEF BkReady, AdmPc
<1>5. CASE BkFails(l)
  BY <1>5 DEF BkFails
<1>6. CASE BkEnds(l)
  BY <1>6 DEF BkEnds
<1>7. CASE BkFence(l)
  BY <1>7 DEF BkFence, OpPc
<1>8. CASE BkFenceFails(l)
  BY <1>8 DEF BkFenceFails
<1> QED
  BY <1>1, <1>2, <1>3, <1>4, <1>5, <1>6, <1>7, <1>8 DEF Backend

(* The steps that are of no single lease keep the types. *)
LEMMA GlobalType ==
  ASSUME TypeOK, Coherent, AdmNames,
         Admission \/ Sweeping \/ Allocate \/ FenceProject \/ Stop \/ Drain \/ BkRestart \/ Crash
  PROVE  TypeOK'
<1> USE DEF runner, backend
<1>p. {"queued", "expired", "unresolved", "check", "cleanup", "off"} \subseteq AdmPc
  BY DEF AdmPc
<1>1. CASE AdmStart
  BY <1>1, <1>p DEF AdmStart, TypeOK
<1>2. CASE AdmNext
  <2>1. adm' \in [pc : AdmPc, l : Leases \cup {None}, todo : SUBSET Leases]
    BY <1>2, <1>p DEF AdmNext, TypeOK, NoAdm, Known
  <2> QED
    BY <1>2, <2>1 DEF AdmNext, TypeOK
<1>3. CASE AdmRefuse
  BY <1>3, <1>p DEF AdmRefuse, TypeOK, NoAdm
<1>4. CASE AllocFails
  <2>1. adm.l \in Leases
    BY <1>4 DEF AllocFails, AdmNames
  <2>2. adm' \in [pc : AdmPc, l : Leases \cup {None}, todo : SUBSET Leases]
    BY <1>4, <1>p, <2>1 DEF AllocFails, NoAdm
  <2> QED
    BY <1>4, <2>1, <2>2 DEF AllocFails, TypeOK
<1>5. CASE Activate
  <2>1. adm.l \in Leases /\ "active" \in State
    BY <1>5 DEF Activate, AdmNames, State
  <2>2. PICK o \in Outcomes(adm.l, "active") :
          /\ Apply(adm.l, o)
          /\ IF o.ok
             THEN adm' = NoAdm /\ lease' = lease \cup {adm.l}
             ELSE adm' = [NoAdm EXCEPT !.pc = "cleanup", !.todo = {adm.l}] /\ UNCHANGED lease
    BY <1>5 DEF Activate
  <2>3. adm' \in [pc : AdmPc, l : Leases \cup {None}, todo : SUBSET Leases]
    <3>1. CASE o.ok
      BY <2>2, <3>1, AdmShape
    <3>2. CASE ~o.ok
      BY <2>1, <2>2, <3>2, AdmShape
    <3> QED
      BY <3>1, <3>2
  <2>4. lease' \subseteq Leases
    BY <2>1, <2>2 DEF TypeOK
  <2>5. /\ journal' \in [Leases -> State \cup {None}]
        /\ mem' \in [Leases -> State \cup {None}]
        /\ stale' \subseteq Leases
    BY <2>1, <2>2, ApplyType
  <2> QED
    BY <1>5, <2>3, <2>4, <2>5 DEF Activate, TypeOK
<1>6. CASE RecoverList
  BY <1>6 DEF RecoverList, TypeOK, Sweep, Journaled
<1>7. CASE DrainList
  BY <1>7 DEF DrainList, TypeOK, Reload, Sweep, Journaled
<1>8. CASE ListFails
  BY <1>8, <1>p DEF ListFails, TypeOK, NoSweep, NoAdm
<1>9. CASE RecoverEnd
  BY <1>9, <1>p DEF RecoverEnd, TypeOK, NoSweep, NoAdm
<1>10. CASE ProjectEnd
  BY <1>10 DEF ProjectEnd, TypeOK, NoSweep
<1>11. CASE DrainEnd
  BY <1>11 DEF DrainEnd, TypeOK, NoSweep, Reload
<1>12. CASE Allocate
  BY <1>12, <1>p DEF Allocate, TypeOK, NoAdm
<1>13. CASE FenceProject
  BY <1>13 DEF FenceProject, TypeOK, Sweep, Known
<1>14. CASE Stop \/ Drain
  BY <1>14 DEF Stop, Drain, TypeOK
<1>15. CASE BkRestart
  BY <1>15 DEF BkRestart, TypeOK
<1>16. CASE Crash
  BY <1>16, <1>p DEF Crash, TypeOK, NoAdm, NoOp, NoSweep, OpPc, By
<1> QED
  BY <1>1, <1>2, <1>3, <1>4, <1>5, <1>6, <1>7, <1>8, <1>9, <1>10, <1>11, <1>12, <1>13, <1>14,
     <1>15, <1>16 DEF Admission, Sweeping

(* Every step keeps the types. *)
LEMMA TypeStep == IInv /\ [Next]_vars => TypeOK'
<1> SUFFICES ASSUME IInv, [Next]_vars PROVE TypeOK'
  OBVIOUS
<1>1. TypeOK /\ Coherent /\ AdmNames
  BY DEF IInv
<1>2. CASE UNCHANGED vars
  BY <1>1, <1>2 DEF TypeOK, vars, runner, backend
<1>3. CASE Next
  BY <1>1, <1>3, HeldType, LeaseType, BackendType, GlobalType DEF Next
<1> QED
  BY <1>2, <1>3
--------------------------------------------------------------------------------
(* What the steps do to the backend. *)

(* An operation of a lease sends fence requests only, and leaves the backend   *)
(* alone.                                                                      *)
LEMMA HeldNet ==
  ASSUME NEW l \in Leases, Held(l)
  PROVE  /\ UNCHANGED <<box, bk, work>>
         /\ \A k \in Leases : <<k, "alloc">> \in net' => <<k, "alloc">> \in net
<1>1. UNCHANGED <<box, bk, work>>
  BY DEF Held, ToDisposing, Reject, Retry, Quarantine, Doubt, FenceUnconfirmed, Remove, ExecDone,
     ExecDoubt, backend
<1>2. net' = net \/ \E pc : MoveTo(l, pc)
  <2>1. CASE ToDisposing(l)
    BY <2>1 DEF ToDisposing
  <2>2. CASE Reject(l)
    BY <2>2 DEF Reject
  <2>3. CASE Retry(l)
    BY <2>3 DEF Retry
  <2>4. CASE Quarantine(l)
    BY <2>4 DEF Quarantine
  <2>5. CASE Doubt(l)
    BY <2>5 DEF Doubt
  <2>6. CASE FenceUnconfirmed(l) \/ Remove(l) \/ ExecDone(l) \/ ExecDoubt(l)
    BY <2>6 DEF FenceUnconfirmed, Remove, ExecDone, ExecDoubt
  <2> QED
    BY <2>1, <2>2, <2>3, <2>4, <2>5, <2>6 DEF Held
<1>3. \A k \in Leases : <<k, "alloc">> \in net' => <<k, "alloc">> \in net
  BY <1>2 DEF MoveTo
<1> QED
  BY <1>1, <1>3

(* Only the creation of a lease sends a request to allocate it, and only the  *)
(* backend's own steps change what the backend holds.                          *)
LEMMA RunnerFrame ==
  ASSUME [Next]_vars, ~BkRestart, \A l \in Leases : ~Backend(l)
  PROVE  /\ UNCHANGED <<box, bk, work>>
         /\ \A k \in Leases : <<k, "alloc">> \in net' =>
              <<k, "alloc">> \in net \/ (AdmCreate(k) /\ CreateSaved(k))
<1> USE DEF backend
<1>1. CASE UNCHANGED vars
  BY <1>1 DEF vars
<1>2. CASE \E l \in Leases : Held(l)
  BY <1>2, HeldNet
<1>3. ASSUME NEW l \in Leases,
             Exec(l) \/ Dispose(l) \/ AdmTake(l) \/ LateCleanup(l) \/ SweepTake(l)
      PROVE  /\ UNCHANGED <<box, bk, work>>
             /\ \A k \in Leases : <<k, "alloc">> \in net' => <<k, "alloc">> \in net
  <2>1. CASE Exec(l) \/ Dispose(l)
    BY <2>1 DEF Exec, Dispose, Begin
  <2>2. CASE AdmTake(l)
    BY <2>2 DEF AdmTake, Begin
  <2>3. CASE LateCleanup(l) \/ SweepTake(l)
    BY <2>3 DEF LateCleanup, SweepTake, Begin
  <2> QED
    BY <1>3, <2>1, <2>2, <2>3
<1>4. CASE \E l \in Leases : AdmCreate(l)
  BY <1>4 DEF AdmCreate, CreateSaved, CreateFails
<1>5. CASE Admission
  BY <1>5 DEF Admission, AdmStart, AdmNext, AdmRefuse, AllocFails, Activate
<1>6. CASE Sweeping
  BY <1>6 DEF Sweeping, RecoverList, DrainList, ListFails, RecoverEnd, ProjectEnd, DrainEnd
<1>7. CASE Allocate \/ FenceProject \/ Stop \/ Drain \/ Crash
  BY <1>7 DEF Allocate, FenceProject, Stop, Drain, Crash
<1> QED
  BY <1>1, <1>2, <1>3, <1>4, <1>5, <1>6, <1>7 DEF Next

(* A lease that is dead stays dead, unless it is created now. *)
LEMMA DeadStays ==
  ASSUME TypeOK, [Next]_vars, NEW l \in Leases, Dead(l), ~(AdmCreate(l) /\ CreateSaved(l))
  PROVE  Dead(l)'
<1> USE DEF Dead, MayStart, TypeOK
<1>1. CASE BkRestart
  BY <1>1 DEF BkRestart
<1>2. ASSUME NEW k \in Leases, Backend(k)
      PROVE  Dead(l)'
  <2>1. CASE BkRefuse(k)
    BY <2>1 DEF BkRefuse, backend
  <2>2. CASE BkAllocate(k)
    BY <2>2 DEF BkAllocate
  <2>3. CASE BkCreate(k)
    BY <2>3 DEF BkCreate
  <2>4. CASE BkReady(k)
    BY <2>4 DEF BkReady
  <2>5. CASE BkFails(k)
    BY <2>5 DEF BkFails
  <2>6. CASE BkEnds(k)
    BY <2>6 DEF BkEnds
  <2>7. CASE BkFence(k)
    BY <2>7 DEF BkFence
  <2>8. CASE BkFenceFails(k)
    BY <2>8 DEF BkFenceFails
  <2> QED
    BY <1>2, <2>1, <2>2, <2>3, <2>4, <2>5, <2>6, <2>7, <2>8 DEF Backend
<1>3. CASE ~BkRestart /\ \A k \in Leases : ~Backend(k)
  BY <1>3, RunnerFrame
<1> QED
  BY <1>1, <1>2, <1>3

(* A fenced lease without a container stays so for ever. *)
LEMMA FencedStays ==
  ASSUME TypeOK, [Next]_vars, NEW l \in Leases, l \notin box, l \notin work, bk[l] = "fenced"
  PROVE  Dead(l)' /\ bk'[l] = "fenced"
<1> USE DEF Dead, MayStart, TypeOK
<1>1. CASE BkRestart
  BY <1>1 DEF BkRestart
<1>2. ASSUME NEW k \in Leases, Backend(k)
      PROVE  Dead(l)' /\ bk'[l] = "fenced"
  <2>1. CASE BkRefuse(k) \/ BkFenceFails(k)
    BY <2>1 DEF BkRefuse, BkFenceFails, backend
  <2>2. CASE BkAllocate(k) \/ BkCreate(k)
    BY <2>2 DEF BkAllocate, BkCreate
  <2>3. CASE BkReady(k) \/ BkFails(k)
    BY <2>3 DEF BkReady, BkFails
  <2>4. CASE BkEnds(k) \/ BkFence(k)
    BY <2>4 DEF BkEnds, BkFence
  <2> QED
    BY <1>2, <2>1, <2>2, <2>3, <2>4 DEF Backend
<1>3. CASE ~BkRestart /\ \A k \in Leases : ~Backend(k)
  BY <1>3, RunnerFrame
<1> QED
  BY <1>1, <1>2, <1>3
--------------------------------------------------------------------------------
(* What the steps do to the records. *)

(* One compare-and-swap of the record of l; all records read; none touched. *)
Written(l) == \E to \in State \cup {None} : \E o \in Outcomes(l, to) :
                /\ Apply(l, o)
                /\ UNCHANGED used
                /\ to = None => op[l].pc = "remove"
Listed == UNCHANGED <<journal, used>> /\ mem' = journal /\ stale' = {}
Untouched == UNCHANGED <<journal, used, mem, stale>>

(* One operation of a lease makes at most one compare-and-swap of its record. *)
LEMMA HeldWrites ==
  ASSUME NEW l \in Leases, Held(l)
  PROVE  Untouched \/ Written(l)
<1> USE DEF runner, Untouched
<1>0. {"disposing", "quarantined", None} \subseteq State \cup {None} /\ "disposing" # None
      /\ "quarantined" # None
  BY LeaseAssumption DEF State
<1>1. CASE ToDisposing(l)
  BY <1>0, <1>1 DEF ToDisposing, Written
<1>2. CASE Reject(l)
  BY <1>0, <1>2 DEF Reject, Written
<1>3. CASE Retry(l)
  BY <1>0, <1>3 DEF Retry, Written
<1>4. CASE Quarantine(l)
  BY <1>0, <1>4 DEF Quarantine, Written
<1>5. CASE Doubt(l)
  BY <1>0, <1>5 DEF Doubt, Written
<1>6. CASE FenceUnconfirmed(l)
  BY <1>0, <1>6 DEF FenceUnconfirmed, Written
<1>7. CASE Remove(l)
  BY <1>0, <1>7 DEF Remove, Written
<1>8. CASE ExecDone(l) \/ ExecDoubt(l)
  BY <1>8 DEF ExecDone, ExecDoubt
<1> QED
  BY <1>1, <1>2, <1>3, <1>4, <1>5, <1>6, <1>7, <1>8 DEF Held

(* Every step of the system leaves the records alone, writes one, creates one, *)
(* reads them all, or forgets the copies.                                      *)
LEMMA Writes ==
  ASSUME AdmNames, [Next]_vars
  PROVE  \/ Untouched \/ (\E l \in Leases : Written(l)) \/ (\E l \in Leases : AdmCreate(l))
         \/ Listed \/ Crash
<1> USE DEF runner, Untouched, Listed
<1>1. CASE UNCHANGED vars
  BY <1>1 DEF vars
<1>2. CASE \E l \in Leases : Held(l)
  BY <1>2, HeldWrites
<1>3. CASE \E l \in Leases : Exec(l) \/ Dispose(l) \/ AdmTake(l) \/ LateCleanup(l) \/ SweepTake(l)
  BY <1>3 DEF Exec, Dispose, AdmTake, LateCleanup, SweepTake
<1>4. CASE \E l \in Leases : Backend(l)
  BY <1>4 DEF Backend, BkRefuse, BkAllocate, BkCreate, BkReady, BkFails, BkEnds, BkFence,
     BkFenceFails
<1>5. CASE AdmStart \/ AdmNext \/ AdmRefuse \/ AllocFails
  BY <1>5 DEF AdmStart, AdmNext, AdmRefuse, AllocFails
<1>6. CASE Activate
  <2>1. adm.l \in Leases /\ "active" \in State /\ "active" # None
    BY <1>6, LeaseAssumption DEF Activate, AdmNames, State
  <2> QED
    BY <1>6, <2>1 DEF Activate, Written
<1>7. CASE Sweeping
  BY <1>7 DEF Sweeping, RecoverList, DrainList, ListFails, RecoverEnd, ProjectEnd, DrainEnd, Reload
<1>8. CASE Allocate \/ FenceProject \/ Stop \/ Drain \/ BkRestart
  BY <1>8 DEF Allocate, FenceProject, Stop, Drain, BkRestart
<1> QED
  BY <1>1, <1>2, <1>3, <1>4, <1>5, <1>6, <1>7, <1>8 DEF Next, Admission

(* The records stay announced and the copies coherent. *)
LEMMA RecordStep ==
  ASSUME TypeOK, AdmNames, Ids, Coherent, [Next]_vars
  PROVE  Ids' /\ Coherent'
<1> USE DEF Ids, Coherent, TypeOK
<1>1. CASE Untouched
  BY <1>1 DEF Untouched
<1>2. ASSUME NEW l \in Leases, Written(l)
      PROVE  Ids' /\ Coherent'
  <2>1. PICK to \in State \cup {None} :
                \E o \in Outcomes(l, to) : Apply(l, o) /\ UNCHANGED used
    BY <1>2 DEF Written
  <2>o. PICK o \in Outcomes(l, to) : Apply(l, o) /\ UNCHANGED used
    BY <2>1
  <2>2. /\ o.s \in BOOLEAN
        /\ o.j # None => journal[l] # None
        /\ (o.m # None /\ ~o.s) => o.j = o.m
    BY OutcomeFacts
  <2> QED
    BY <2>o, <2>2 DEF Apply
<1>3. ASSUME NEW l \in Leases, AdmCreate(l)
      PROVE  Ids' /\ Coherent'
  <2>1. CASE CreateSaved(l)
    BY <1>3, <2>1 DEF AdmCreate, CreateSaved
  <2>2. CASE CreateFails(l)
    <3>1. journal[l] = None
      BY <1>3 DEF AdmCreate
    <3> QED
      BY <1>3, <2>2, <3>1 DEF AdmCreate, CreateFails
  <2> QED
    BY <1>3, <2>1, <2>2 DEF AdmCreate
<1>4. CASE Listed
  BY <1>4 DEF Listed
<1>5. CASE Crash
  BY <1>5 DEF Crash
<1> QED
  BY <1>1, <1>2, <1>3, <1>4, <1>5, Writes
--------------------------------------------------------------------------------
(* Who has read the journal, and who has a receipt. *)

(* A step of an operation ends it, or moves it on to another stage; a receipt  *)
(* is not a step of its own and a command is not started by one.               *)
LEMMA HeldControl ==
  ASSUME TypeOK, NEW l \in Leases, Held(l)
  PROVE  /\ UNCHANGED <<adm, phase, recovered>>
         /\ sweep'.kind = sweep.kind
         /\ \A k \in Leases :
              op'[k] = op[k] \/ (/\ op'[k].pc \notin {"exec", "remove"}
                                 /\ op'[k].by \in {op[k].by, "nobody"})
<1> DEFINE moved == \E pc \in OpPc \ {"exec", "remove"} : op' = [op EXCEPT ![l].pc = pc]
           ended == \E f \in BOOLEAN : Finish(l, f)
           over == op' = [op EXCEPT ![l] = NoOp]
<1>1. UNCHANGED <<adm, phase, recovered>>
  BY DEF Held, ToDisposing, Reject, Retry, Quarantine, Doubt, FenceUnconfirmed, Remove, ExecDone,
     ExecDoubt
<1>2. ended \/ ((moved \/ over) /\ sweep' = sweep)
  <2>1. {"fencing", "retry", "doubt", "quarantine"} \subseteq OpPc \ {"exec", "remove"}
    BY DEF OpPc
  <2>2. CASE ToDisposing(l)
    BY <2>1, <2>2 DEF ToDisposing, MoveTo
  <2>3. CASE Reject(l)
    BY <2>1, <2>3 DEF Reject, MoveTo
  <2>4. CASE Retry(l)
    BY <2>1, <2>4 DEF Retry, MoveTo
  <2>5. CASE Quarantine(l)
    BY <2>1, <2>5 DEF Quarantine, MoveTo
  <2>6. CASE Doubt(l)
    BY <2>1, <2>6 DEF Doubt, MoveTo
  <2>7. CASE FenceUnconfirmed(l)
    BY <2>7 DEF FenceUnconfirmed
  <2>8. CASE Remove(l)
    BY <2>8 DEF Remove
  <2>9. CASE ExecDone(l) \/ ExecDoubt(l)
    BY <2>1, <2>9 DEF ExecDone, ExecDoubt
  <2> QED
    BY <2>2, <2>3, <2>4, <2>5, <2>6, <2>7, <2>8, <2>9 DEF Held
<1>3. sweep'.kind = sweep.kind
  BY <1>2 DEF Finish, TypeOK
<1>4. moved \/ over
  BY <1>2 DEF Finish
<1>5. \A k \in Leases :
        op'[k] = op[k] \/ (op'[k].pc \notin {"exec", "remove"} /\ op'[k].by \in {op[k].by, "nobody"})
  BY <1>4 DEF NoOp, TypeOK
<1> QED
  BY <1>1, <1>3, <1>5

(* A runner knows the journal from its recovery on. *)
LEMMA ReadFirst ==
  ASSUME TypeOK, [Next]_vars, HasRead'
  PROVE  HasRead \/ RecoverList
<1> USE DEF HasRead
<1>1. CASE UNCHANGED vars
  BY <1>1 DEF vars
<1>2. CASE \E l \in Leases : Held(l)
  BY <1>2, HeldControl
<1>3. CASE \E l \in Leases : Exec(l) \/ Dispose(l) \/ AdmTake(l) \/ LateCleanup(l) \/ AdmCreate(l)
  BY <1>3 DEF Exec, Dispose, AdmTake, LateCleanup, AdmCreate
<1>4. ASSUME NEW l \in Leases, SweepTake(l) \/ Backend(l)
      PROVE  recovered' = recovered /\ sweep'.kind = sweep.kind
  <2>1. CASE SweepTake(l)
    BY <2>1 DEF SweepTake, TypeOK
  <2>2. CASE Backend(l)
    BY <2>2 DEF Backend, BkRefuse, BkAllocate, BkCreate, BkReady, BkFails, BkEnds, BkFence,
       BkFenceFails
  <2> QED
    BY <1>4, <2>1, <2>2
<1>5. CASE Admission
  BY <1>5 DEF Admission, AdmStart, AdmNext, AdmRefuse, AllocFails, Activate
<1>6. CASE Sweeping
  BY <1>6 DEF Sweeping, RecoverList, DrainList, ListFails, RecoverEnd, ProjectEnd, DrainEnd, Sweep,
     NoSweep, Recovering, Swept
<1>7. CASE Allocate \/ FenceProject \/ Stop \/ Drain \/ BkRestart \/ Crash
  BY <1>7 DEF Allocate, FenceProject, Stop, Drain, BkRestart, Crash, Sweep, NoSweep
<1> QED
  BY <1>1, <1>2, <1>3, <1>4, <1>5, <1>6, <1>7 DEF Next

(* A receipt is what cancelAndDispose answered. *)
LEMMA ReceiptSource ==
  ASSUME TypeOK, [Next]_vars, NEW l \in Leases, op'[l].pc = "remove"
  PROVE  op[l].pc = "remove" \/ BkFence(l)
<1> USE DEF TypeOK
<1>1. CASE UNCHANGED vars
  BY <1>1 DEF vars
<1>2. CASE \E k \in Leases : Held(k)
  BY <1>2, HeldControl
<1>3. CASE \E k \in Leases : Exec(k) \/ Dispose(k) \/ AdmTake(k) \/ LateCleanup(k) \/ SweepTake(k)
  <2>1. PICK k \in Leases : \/ op' = op
                            \/ op' = [op EXCEPT ![k] = [pc |-> "exec", by |-> "client"]]
                            \/ \E pc \in {"dispose", "reject"}, by \in By : Begin(k, pc, by)
    BY <1>3 DEF Exec, Dispose, AdmTake, LateCleanup, SweepTake, By
  <2> QED
    BY <2>1 DEF Begin
<1>4. ASSUME NEW k \in Leases, AdmCreate(k) \/ Backend(k)
      PROVE  op[l].pc = "remove" \/ BkFence(l)
  <2>1. CASE BkFence(k)
    <3>1. op' = op \/ op' = [op EXCEPT ![k].pc = "remove"]
      BY <2>1 DEF BkFence
    <3> QED
      BY <2>1, <3>1
  <2>2. CASE ~BkFence(k)
    <3>1. op' = op
      BY <1>4, <2>2 DEF AdmCreate, Backend, BkRefuse, BkAllocate, BkCreate, BkReady, BkFails,
         BkEnds, BkFenceFails
    <3> QED
      BY <3>1
  <2> QED
    BY <2>1, <2>2
<1>5. CASE Admission \/ Sweeping
  BY <1>5 DEF Admission, AdmStart, AdmNext, AdmRefuse, AllocFails, Activate, Sweeping, RecoverList,
     DrainList, ListFails, RecoverEnd, ProjectEnd, DrainEnd
<1>6. CASE Allocate \/ FenceProject \/ Stop \/ Drain \/ BkRestart \/ Crash
  BY <1>6 DEF Allocate, FenceProject, Stop, Drain, BkRestart, Crash, NoOp
<1> QED
  BY <1>1, <1>2, <1>3, <1>4, <1>5, <1>6 DEF Next
--------------------------------------------------------------------------------
(* What is dead. *)

(* No record, no container: a record goes only after its receipt. *)
LEMMA ContainedStep ==
  ASSUME TypeOK, AdmNames, Coherent, Contained, Receipt, [Next]_vars
  PROVE  Contained'
<1> SUFFICES ASSUME NEW l \in Leases, journal'[l] = None PROVE Dead(l)'
  BY DEF Contained
<1>1. ~CreateSaved(l)
  BY LeaseAssumption DEF CreateSaved, TypeOK, State
<1>2. Dead(l)
  <2>1. CASE journal[l] = None
    BY <2>1 DEF Contained
  <2>2. ASSUME journal[l] # None, NEW k \in Leases, Written(k)
        PROVE  Dead(l)
    <3>1. PICK to \in State \cup {None} :
                 \E o \in Outcomes(k, to) : Apply(k, o) /\ (to = None => op[k].pc = "remove")
      BY <2>2 DEF Written
    <3>2. PICK o \in Outcomes(k, to) : Apply(k, o) /\ (to = None => op[k].pc = "remove")
      BY <3>1
    <3>3. k = l /\ o.j = None
      BY <2>2, <3>2 DEF Apply, TypeOK
    <3>4. to = None
      BY <2>2, <3>3, OutcomeFacts
    <3> QED
      BY <3>2, <3>3, <3>4 DEF Receipt
  <2>3. ASSUME journal[l] # None PROVE ~Untouched /\ ~Listed /\ ~Crash
    BY <2>3 DEF Untouched, Listed, Crash
  <2>4. ASSUME journal[l] # None, NEW k \in Leases, AdmCreate(k) PROVE FALSE
    BY <2>4, LeaseAssumption DEF AdmCreate, CreateSaved, CreateFails, TypeOK, State
  <2> QED
    BY <2>1, <2>2, <2>3, <2>4, Writes
<1> QED
  BY <1>1, <1>2, DeadStays

(* A receipt stays true while its record is still there. *)
LEMMA ReceiptStep ==
  ASSUME TypeOK, Receipt, [Next]_vars
  PROVE  Receipt'
<1> SUFFICES ASSUME NEW l \in Leases, op'[l].pc = "remove" PROVE Dead(l)' /\ bk'[l] = "fenced"
  BY DEF Receipt
<1>1. CASE op[l].pc = "remove"
  BY <1>1, FencedStays DEF Receipt, Dead, MayStart
<1>2. CASE BkFence(l)
  BY <1>2 DEF BkFence, Dead, MayStart, TypeOK
<1> QED
  BY <1>1, <1>2, ReceiptSource

(* A runner that has read the journal has a copy of whatever is not dead. *)
LEMMA LoadedStep ==
  ASSUME TypeOK, AdmNames, Coherent, Loaded, Contained', [Next]_vars
  PROVE  Loaded'
<1> SUFFICES ASSUME HasRead', NEW l \in Leases, mem'[l] = None PROVE Dead(l)'
  BY DEF Loaded
<1>1. CASE journal'[l] = None
  BY <1>1 DEF Contained
<1>2. CASE journal'[l] # None
  <2>1. ~Listed /\ ~RecoverList
    BY <1>2 DEF Listed, RecoverList
  <2>2. HasRead
    BY <2>1, ReadFirst
  <2>3. ~Crash
    BY DEF Crash, HasRead, NoSweep
  <2>4. mem[l] = None
    <3>1. CASE Untouched
      BY <3>1 DEF Untouched
    <3>2. ASSUME NEW k \in Leases, Written(k)
          PROVE  mem[l] = None
      <4>1. PICK to \in State \cup {None} : \E o \in Outcomes(k, to) : Apply(k, o)
        BY <3>2 DEF Written
      <4>2. PICK o \in Outcomes(k, to) : Apply(k, o)
        BY <4>1
      <4>3. CASE k = l
        <5>1. o.m = None /\ o.j # None
          BY <1>2, <4>2, <4>3 DEF Apply, TypeOK
        <5> QED
          BY <4>3, <5>1, OutcomeFacts
      <4>4. CASE k # l
        BY <4>2, <4>4 DEF Apply, TypeOK
      <4> QED
        BY <4>3, <4>4
    <3>3. ASSUME NEW k \in Leases, AdmCreate(k)
          PROVE  mem[l] = None
      BY <3>3, LeaseAssumption DEF AdmCreate, CreateSaved, CreateFails, TypeOK, State
    <3> QED
      BY <2>1, <2>3, <3>1, <3>2, <3>3, Writes
  <2>5. ~CreateSaved(l)
    BY LeaseAssumption DEF CreateSaved, TypeOK, State
  <2> QED
    BY <2>2, <2>4, <2>5, DeadStays DEF Loaded
<1> QED
  BY <1>1, <1>2

(* The admission finds room among the records, and whatever lives has one. *)
LEMMA CapStep ==
  ASSUME TypeOK, Loaded, Staged, CapInv, [Next]_vars
  PROVE  CapInv'
<1>f. IsFiniteSet(Leases) /\ Cap \in Nat
  BY LeaseAssumption
<1>s. \A S \in SUBSET Leases : IsFiniteSet(S) /\ Cardinality(S) \in Nat
  BY <1>f, FS_Subset, FS_CardinalityType
<1>a. Alive \in SUBSET Leases /\ Alive' \in SUBSET Leases /\ Known \in SUBSET Leases
  BY DEF Alive, Known
<1>1. CASE \E l \in Leases : AdmCreate(l) /\ CreateSaved(l)
  <2>1. PICK l \in Leases : AdmCreate(l) /\ CreateSaved(l)
    BY <1>1
  <2>2. recovered /\ Cardinality(Known) < Cap
    BY <2>1 DEF AdmCreate, Staged, HasRoom
  <2>3. Alive \subseteq Known
    BY <2>2 DEF Loaded, HasRead, Alive, Known
  <2>4. Alive' \subseteq Known \cup {l}
    <3>1. ASSUME NEW k \in Leases, k # l, k \notin Alive PROVE k \notin Alive'
      <4>1. ~CreateSaved(k)
        <5>1. adm' = [NoAdm EXCEPT !.pc = "sent", !.l = l]
          BY <2>1 DEF CreateSaved
        <5> QED
          BY <3>1, <5>1 DEF CreateSaved, NoAdm
      <4> QED
        BY <3>1, <4>1, DeadStays DEF Alive
    <3> QED
      BY <2>3, <3>1, <1>a
  <2>5. Cardinality(Known \cup {l}) <= Cardinality(Known) + 1
    BY <1>s, <1>a, FS_AddElement
  <2>6. Cardinality(Alive') <= Cardinality(Known \cup {l})
    BY <1>s, <1>a, <2>4, FS_Subset
  <2> QED
    BY <1>f, <1>s, <1>a, <2>2, <2>5, <2>6 DEF CapInv
<1>2. CASE \A l \in Leases : ~(AdmCreate(l) /\ CreateSaved(l))
  <2>1. Alive' \subseteq Alive
    BY <1>2, DeadStays DEF Alive
  <2>2. Cardinality(Alive') <= Cardinality(Alive)
    BY <1>s, <1>a, <2>1, FS_Subset
  <2> QED
    BY <1>f, <1>s, <1>a, <2>2 DEF CapInv
<1> QED
  BY <1>1, <1>2
--------------------------------------------------------------------------------
(* The order of recovery, admission and drain. *)

(* Records come from admissions only. *)
LEMMA NothingReturns ==
  ASSUME TypeOK, AdmNames, Coherent, [Next]_vars, NEW l \in Leases, journal'[l] # None
  PROVE  journal[l] # None \/ AdmCreate(l)
<1>1. ASSUME NEW k \in Leases, Written(k)
      PROVE  journal[l] # None
  <2>1. PICK to \in State \cup {None} : \E o \in Outcomes(k, to) : Apply(k, o)
    BY <1>1 DEF Written
  <2>2. PICK o \in Outcomes(k, to) : Apply(k, o)
    BY <2>1
  <2>3. o.j # None => journal[k] # None
    BY OutcomeFacts
  <2> QED
    BY <2>2, <2>3 DEF Apply, TypeOK
<1>2. CASE Untouched \/ Listed \/ Crash
  BY <1>2 DEF Untouched, Listed, Crash
<1>3. ASSUME NEW k \in Leases, AdmCreate(k)
      PROVE  journal[l] # None \/ AdmCreate(l)
  BY <1>3 DEF AdmCreate, CreateSaved, CreateFails, TypeOK
<1> QED
  BY <1>1, <1>2, <1>3, Writes

(* The part of Closing that the control alone decides. *)
Ordered == /\ AdmNames /\ Staged
           /\ \A l \in Leases : op[l].pc = "exec" => op[l].by = "client"
           /\ (phase = "drained" \/ sweep.kind = "drain") =>
                adm.pc = "off" /\ \A l \in Leases : op[l].by # "client"
           /\ sweep.kind = "drain" => phase = "draining"
           /\ phase = "drained" => sweep.kind = "off" /\ recovered

(* Operations begin, and leases are created, in the order of recovery and drain. *)
LEMMA LeaseOrder ==
  ASSUME TypeOK, Ordered, NEW l \in Leases,
         Exec(l) \/ Dispose(l) \/ AdmTake(l) \/ AdmCreate(l) \/ LateCleanup(l) \/ SweepTake(l)
  PROVE  Ordered'
<1> USE DEF Ordered, AdmNames, Staged, TypeOK
<1>1. ASSUME NEW pc \in {"dispose", "reject"}, NEW by \in By, Begin(l, pc, by)
      PROVE  \A k \in Leases : op'[k] = op[k] \/ (op'[k].pc # "exec" /\ op'[k].by = by)
  BY <1>1 DEF Begin
<1>2. CASE Exec(l)
  BY <1>2 DEF Exec
<1>3. CASE Dispose(l)
  <2>1. Begin(l, "dispose", "client") /\ "client" \in By
    BY <1>3 DEF Dispose, By
  <2>2. \A k \in Leases : op'[k] = op[k] \/ (op'[k].pc # "exec" /\ op'[k].by = "client")
    BY <1>1, <2>1
  <2>3. phase \in {"open", "stopped"} /\ UNCHANGED <<adm, sweep, phase, recovered>>
    BY <1>3 DEF Dispose
  <2> QED
    BY <2>2, <2>3
<1>4. CASE AdmTake(l)
  <2>1. \/ op' = op
        \/ Begin(l, "dispose", "adm") \/ Begin(l, "reject", "adm")
    BY <1>4 DEF AdmTake
  <2>2. \A k \in Leases : op'[k] = op[k] \/ (op'[k].pc # "exec" /\ op'[k].by = "adm")
    BY <1>1, <2>1 DEF By
  <2>3. adm'.pc = adm.pc /\ adm'.l = adm.l /\ UNCHANGED <<sweep, phase, recovered>>
    BY <1>4 DEF AdmTake
  <2> QED
    BY <2>2, <2>3
<1>5. CASE AdmCreate(l)
  <2>1. adm.pc = "check" /\ UNCHANGED <<op, sweep, phase, recovered>>
    BY <1>5 DEF AdmCreate
  <2>2. \/ adm' = [NoAdm EXCEPT !.pc = "sent", !.l = l] \/ adm' = NoAdm
        \/ adm' = [NoAdm EXCEPT !.pc = "cleanup", !.todo = {l}]
    BY <1>5 DEF AdmCreate, CreateSaved, CreateFails
  <2>3. adm'.pc # "activate" /\ (adm'.pc = "sent" => adm'.l = l)
    <3>1. CASE adm' = [NoAdm EXCEPT !.pc = "sent", !.l = l]
      BY <3>1, AdmFields
    <3>2. CASE adm' = NoAdm
      BY <3>2, AdmFields
    <3>3. CASE adm' = [NoAdm EXCEPT !.pc = "cleanup", !.todo = {l}]
      <4>1. adm'.pc = "cleanup"
        BY <3>3, AdmFields
      <4> QED
        BY <4>1
    <3> QED
      BY <2>2, <3>1, <3>2, <3>3
  <2> QED
    BY <2>1, <2>3
<1>6. CASE LateCleanup(l)
  <2>1. op' = op \/ Begin(l, "reject", "late")
    BY <1>6 DEF LateCleanup
  <2>2. \A k \in Leases : op'[k] = op[k] \/ (op'[k].pc # "exec" /\ op'[k].by = "late")
    BY <1>1, <2>1 DEF By
  <2>3. UNCHANGED <<adm, sweep, phase, recovered>>
    BY <1>6 DEF LateCleanup
  <2> QED
    BY <2>2, <2>3
<1>7. CASE SweepTake(l)
  <2>1. op' = op \/ Begin(l, "dispose", "sweep")
    BY <1>7 DEF SweepTake
  <2>2. \A k \in Leases : op'[k] = op[k] \/ (op'[k].pc # "exec" /\ op'[k].by = "sweep")
    BY <1>1, <2>1 DEF By
  <2>3. sweep'.kind = sweep.kind /\ UNCHANGED <<adm, phase, recovered>>
    BY <1>7 DEF SweepTake
  <2> QED
    BY <2>2, <2>3
<1> QED
  BY <1>2, <1>3, <1>4, <1>5, <1>6, <1>7

(* The backend only answers an allocation that waits. *)
LEMMA BackendOrder ==
  ASSUME TypeOK, Ordered, NEW l \in Leases, Backend(l)
  PROVE  Ordered'
<1> USE DEF Ordered, AdmNames, Staged, TypeOK
<1>1. CASE BkReady(l)
  BY <1>1 DEF BkReady
<1>2. CASE BkFence(l)
  BY <1>2 DEF BkFence
<1>3. CASE BkRefuse(l) \/ BkAllocate(l) \/ BkCreate(l) \/ BkFails(l) \/ BkEnds(l) \/ BkFenceFails(l)
  <2>1. UNCHANGED <<adm, op, sweep, phase, recovered>>
    BY <1>3 DEF BkRefuse, BkAllocate, BkCreate, BkFails, BkEnds, BkFenceFails
  <2> QED
    BY <2>1
<1> QED
  BY <1>1, <1>2, <1>3 DEF Backend

(* The admission, the sweeps, a stop, a restart and a crash keep the order. *)
LEMMA GlobalOrder ==
  ASSUME TypeOK, Ordered,
         Admission \/ Sweeping \/ Allocate \/ FenceProject \/ Stop \/ Drain \/ BkRestart \/ Crash
  PROVE  Ordered'
<1> USE DEF Ordered, AdmNames, Staged, TypeOK
<1>1. CASE AdmStart \/ AdmNext \/ AdmRefuse
  <2>1. adm.pc \notin {"off", "sent", "activate"} /\ UNCHANGED <<op, sweep, phase, recovered>>
    BY <1>1 DEF AdmStart, AdmNext, AdmRefuse
  <2>2. adm'.pc \notin {"sent", "activate"}
    <3>1. CASE AdmStart
      BY <3>1 DEF AdmStart
    <3>2. CASE AdmNext
      BY <3>2, AdmFields DEF AdmNext
    <3>3. CASE AdmRefuse
      BY <3>3, AdmFields DEF AdmRefuse
    <3> QED
      BY <1>1, <3>1, <3>2, <3>3
  <2>3. adm.pc = "queued" => recovered
    BY <1>1 DEF AdmStart, AdmNext, AdmRefuse
  <2> QED
    BY <2>1, <2>2, <2>3
<1>2. CASE AllocFails
  BY <1>2 DEF AllocFails, NoAdm
<1>3. CASE Activate
  <2>1. PICK o \in Outcomes(adm.l, "active") :
          IF o.ok
          THEN adm' = NoAdm /\ lease' = lease \cup {adm.l}
          ELSE adm' = [NoAdm EXCEPT !.pc = "cleanup", !.todo = {adm.l}] /\ UNCHANGED lease
    BY <1>3 DEF Activate
  <2>3. adm'.pc \in {"off", "cleanup"}
    <3>1. CASE o.ok
      BY <2>1, <3>1, AdmFields
    <3>2. CASE ~o.ok
      <4>1. adm' = [NoAdm EXCEPT !.pc = "cleanup", !.todo = {adm.l}]
        BY <2>1, <3>2
      <4>2. adm'.pc = "cleanup"
        BY <4>1, AdmFields
      <4> QED
        BY <4>2
    <3> QED
      BY <3>1, <3>2
  <2>2. adm.pc = "activate" /\ UNCHANGED <<op, sweep, phase, recovered>>
    BY <1>3 DEF Activate
  <2> QED
    BY <2>2, <2>3
<1>4. CASE RecoverList
  <2>1. phase # "drained" /\ sweep.kind = "off"
    BY <1>4 DEF RecoverList, RecoverDue, DrainDue
  <2> QED
    BY <1>4, <2>1 DEF RecoverList, Sweep
<1>5. CASE DrainList
  <2>1. phase = "draining" /\ adm.pc = "off" /\ (\A k \in Leases : op[k].by # "client") /\ recovered
    BY <1>5 DEF DrainList, DrainDue, Tracked, Busy
  <2> QED
    BY <1>5, <2>1 DEF DrainList, Sweep
<1>6. CASE ListFails
  BY <1>6 DEF ListFails, NoSweep, NoAdm, RecoverDue, DrainDue, Swept
<1>7. CASE RecoverEnd
  BY <1>7 DEF RecoverEnd, Recovering, Swept, NoSweep, NoAdm
<1>8. CASE ProjectEnd \/ DrainEnd
  BY <1>8 DEF ProjectEnd, DrainEnd, Swept, NoSweep
<1>9. CASE Allocate \/ FenceProject
  BY <1>9 DEF Allocate, FenceProject, NoAdm, Sweep
<1>10. CASE Stop \/ Drain
  BY <1>10 DEF Stop, Drain
<1>11. CASE BkRestart \/ Crash
  BY <1>11 DEF BkRestart, Crash, NoAdm, NoSweep, NoOp
<1> QED
  BY <1>1, <1>2, <1>3, <1>4, <1>5, <1>6, <1>7, <1>8, <1>9, <1>10, <1>11 DEF Admission, Sweeping

(* No allocation before the recovery, and none after the listing of a drain. *)
LEMMA OrderStep ==
  ASSUME TypeOK, Coherent, AdmNames, Staged, Closing, [Next]_vars
  PROVE  AdmNames' /\ Staged' /\ Closing'
<1>1. Ordered
  BY DEF Ordered, Closing
<1>2. Ordered'
  <2>1. CASE UNCHANGED vars
    BY <1>1, <2>1 DEF Ordered, AdmNames, Staged, vars
  <2>2. ASSUME NEW l \in Leases, Held(l)
        PROVE  Ordered'
    BY <1>1, <2>2, HeldControl DEF Ordered, AdmNames, Staged
  <2> QED
    BY <1>1, <2>1, <2>2, LeaseOrder, BackendOrder, GlobalOrder DEF Next
<1>3. ASSUME phase' = "drained", NEW l \in Leases
      PROVE  journal'[l] = None
  <2>1. CASE phase = "drained"
    <3>1. ~AdmCreate(l)
      BY <1>1, <2>1 DEF Ordered, AdmCreate
    <3>2. journal[l] = None
      BY <2>1 DEF Closing
    <3> QED
      BY <3>1, <3>2, NothingReturns
  <2>2. CASE phase # "drained"
    <3>1. DrainEnd
      <4>1. ~\E k \in Leases : Held(k)
        BY <1>3, <2>2, HeldControl
      <4>2. ~\E k \in Leases : Backend(k)
        BY <1>3, <2>2 DEF Backend, BkRefuse, BkAllocate, BkCreate, BkReady, BkFails, BkEnds,
           BkFence, BkFenceFails
      <4>3. ~\E k \in Leases : \/ Exec(k) \/ Dispose(k) \/ AdmTake(k) \/ AdmCreate(k)
                               \/ LateCleanup(k) \/ SweepTake(k)
        BY <1>3, <2>2 DEF Exec, Dispose, AdmTake, AdmCreate, LateCleanup, SweepTake
      <4>4. ~Admission
        BY <1>3, <2>2 DEF Admission, AdmStart, AdmNext, AdmRefuse, AllocFails, Activate
      <4>5. ~(RecoverList \/ DrainList \/ ListFails \/ RecoverEnd \/ ProjectEnd)
        BY <1>3, <2>2 DEF RecoverList, DrainList, ListFails, RecoverEnd, ProjectEnd
      <4>6. ~(Allocate \/ FenceProject \/ Stop \/ Drain \/ BkRestart \/ Crash)
        BY <1>3, <2>2 DEF Allocate, FenceProject, Stop, Drain, BkRestart, Crash
      <4>7. ~UNCHANGED vars
        BY <1>3, <2>2 DEF vars
      <4> QED
        BY <4>1, <4>2, <4>3, <4>4, <4>5, <4>6, <4>7 DEF Next, Sweeping
    <3> QED
      BY <1>3, <3>1 DEF DrainEnd, Reload, Journaled
  <2> QED
    BY <2>1, <2>2
<1> QED
  BY <1>2, <1>3 DEF Ordered, Closing
--------------------------------------------------------------------------------
(* The invariant is inductive. *)
LEMMA StepHolds == IInv /\ [Next]_vars => IInv'
<1> SUFFICES ASSUME IInv, [Next]_vars PROVE IInv'
  OBVIOUS
<1>1. /\ TypeOK /\ AdmNames /\ Ids /\ Coherent /\ Contained /\ Receipt
      /\ Loaded /\ Staged /\ CapInv /\ Closing
  BY DEF IInv
<1>2. TypeOK'
  BY TypeStep
<1>3. Ids' /\ Coherent'
  BY <1>1, RecordStep
<1>4. Contained'
  BY <1>1, ContainedStep
<1>5. Receipt' /\ Loaded' /\ CapInv'
  BY <1>1, <1>4, ReceiptStep, LoadedStep, CapStep
<1>6. AdmNames' /\ Staged' /\ Closing'
  BY <1>1, OrderStep
<1> QED
  BY <1>2, <1>3, <1>4, <1>5, <1>6 DEF IInv

(* Every state of the runner, the journal and the backend is typed, nothing    *)
(* lives without a record, and the records are ahead of the requests.          *)
THEOREM Lifecycle == Spec => []IInv
<1>1. Init => IInv
  BY InitHolds
<1>2. IInv /\ [Next]_vars => IInv'
  BY StepHolds
<1> QED
  BY <1>1, <1>2, PTL DEF Spec

(* maxConcurrentLeases bounds the containers, whatever is lost, retried or     *)
(* restarted, for every number of leases and every limit.                      *)
THEOREM CapIsHeld == Spec => []CapHeld
<1>1. IInv => CapHeld
  <2> SUFFICES ASSUME IInv PROVE CapHeld
    OBVIOUS
  <2>1. box \in SUBSET Alive /\ Alive \in SUBSET Leases
    BY DEF IInv, TypeOK, Alive, Dead
  <2>2. IsFiniteSet(Leases) /\ Cap \in Nat
    BY LeaseAssumption
  <2>3. IsFiniteSet(Alive)
    BY <2>1, <2>2, FS_Subset
  <2>4. Cardinality(box) <= Cardinality(Alive) /\ IsFiniteSet(box)
    BY <2>1, <2>3, FS_Subset
  <2>5. Cardinality(box) \in Nat /\ Cardinality(Alive) \in Nat
    BY <2>3, <2>4, FS_CardinalityType
  <2> QED
    BY <2>2, <2>4, <2>5 DEF IInv, CapInv, CapHeld
<1> QED
  BY <1>1, Lifecycle, PTL

(* A drain that succeeded left no container and nothing that becomes one.      *)
THEOREM DrainEmpties == Spec => []ClosedEmpty
<1>1. IInv => ClosedEmpty
  <2> SUFFICES ASSUME IInv, phase = "drained" PROVE ClosedEmpty
    BY DEF ClosedEmpty
  <2>1. adm.pc = "off" /\ (\A l \in Leases : op[l].by # "client" /\ journal[l] = None)
    BY DEF IInv, Closing
  <2>2. \A l \in Leases : Dead(l) /\ op[l].pc # "exec"
    BY <2>1 DEF IInv, Contained, Closing
  <2> QED
    BY <2>1, <2>2 DEF ClosedEmpty
<1> QED
  BY <1>1, Lifecycle, PTL

(* fenceProjectRuns that reports success found the project without a record,   *)
(* and what has no record is dead.                                             *)
THEOREM FenceIsProof == Spec => FenceProven
<1> DEFINE proven == (sweep.kind = "project" /\ sweep'.kind = "off" /\ ~sweep'.bad)
                       => \A l \in Leases : Dead(l)'
<1>1. IInv /\ [Next]_vars => proven
  <2> SUFFICES ASSUME IInv, [Next]_vars, sweep.kind = "project", sweep'.kind = "off", ~sweep'.bad,
                      NEW l \in Leases
               PROVE  Dead(l)'
    BY DEF proven
  <2>1. TypeOK
    BY DEF IInv
  <2>2. sweep' # NoSweep /\ sweep' # sweep
    BY DEF NoSweep
  <2>3. ProjectEnd
    <3>1. ~\E k \in Leases : Held(k) \/ SweepTake(k)
      <4>1. ~\E k \in Leases : Held(k)
        BY <2>1, HeldControl
      <4>2. ~\E k \in Leases : SweepTake(k)
        BY <2>1 DEF SweepTake, TypeOK
      <4> QED
        BY <4>1, <4>2
    <3>2. ~\E k \in Leases : Backend(k)
      BY <2>2 DEF Backend, BkRefuse, BkAllocate, BkCreate, BkReady, BkFails, BkEnds, BkFence,
         BkFenceFails
    <3>3. ~\E k \in Leases : Exec(k) \/ Dispose(k) \/ AdmTake(k) \/ AdmCreate(k) \/ LateCleanup(k)
      BY <2>2 DEF Exec, Dispose, AdmTake, AdmCreate, LateCleanup
    <3>4. ~Admission
      BY <2>2 DEF Admission, AdmStart, AdmNext, AdmRefuse, AllocFails, Activate
    <3>5. ~(RecoverList \/ DrainList \/ ListFails \/ RecoverEnd \/ DrainEnd)
      BY <2>2 DEF RecoverList, DrainList, ListFails, RecoverEnd, DrainEnd, Sweep
    <3>6. ~(Allocate \/ FenceProject \/ Stop \/ Drain \/ BkRestart \/ Crash)
      BY <2>2 DEF Allocate, FenceProject, Stop, Drain, BkRestart, Crash, Sweep
    <3>7. ~UNCHANGED vars
      BY <2>2 DEF vars
    <3> QED
      BY <3>1, <3>2, <3>3, <3>4, <3>5, <3>6, <3>7 DEF Next, Sweeping
  <2>4. recovered /\ mem[l] = None
    <3>1. Known = {}
      BY <2>3 DEF ProjectEnd, NoSweep
    <3> QED
      BY <3>1 DEF Known, IInv, Staged
  <2>5. Dead(l)
    BY <2>4 DEF IInv, Loaded, HasRead
  <2>6. ~(AdmCreate(l) /\ CreateSaved(l))
    <3>1. adm' = adm
      BY <2>3 DEF ProjectEnd
    <3>2. AdmCreate(l) => adm.pc = "check"
      BY DEF AdmCreate
    <3>3. CreateSaved(l) => adm'.pc = "sent"
      BY AdmFields DEF CreateSaved
    <3> QED
      BY <3>1, <3>2, <3>3
  <2> QED
    BY <2>1, <2>5, <2>6, DeadStays
<1> QED
  BY <1>1, Lifecycle, PTL DEF Spec, FenceProven

(* The abstract state does not change. *)
LEMMA PromiseStutters ==
  ASSUME used \subseteq Leases, UNCHANGED <<used, box>>,
         \A l \in Leases : journal'[l] = None <=> journal[l] = None
  PROVE  UNCHANGED P!promise
<1>1. Journaled' = Journaled
  BY DEF Journaled
<1>2. {l \in used : journal[l] = None}' = {l \in used : journal[l] = None}
  OBVIOUS
<1> QED
  BY <1>1, <1>2 DEF P!promise

(* Every step of the runner and the backend is one of the promise, or none.    *)
LEMMA PromiseStep ==
  ASSUME IInv, [Next]_vars
  PROVE  [P!Next]_(P!promise)
<1> USE DEF P!promise, Journaled
<1>1. /\ TypeOK /\ AdmNames /\ Ids /\ Coherent /\ Contained /\ Receipt
      /\ used \subseteq Leases /\ box \subseteq Leases
  BY DEF IInv, TypeOK
<1>2. CASE BkRestart
  <2>1. P!Stop
    BY <1>2 DEF BkRestart, P!Stop
  <2> QED
    BY <2>1 DEF P!Next
<1>3. ASSUME NEW l \in Leases, Backend(l)
      PROVE  [P!Next]_(P!promise)
  <2>1. UNCHANGED <<journal, used>>
    BY <1>3 DEF Backend, BkRefuse, BkAllocate, BkCreate, BkReady, BkFails, BkEnds, BkFence,
       BkFenceFails
  <2>2. CASE BkCreate(l)
    <3>1. journal[l] # None
      BY <1>1, <2>2 DEF BkCreate, Contained, Dead, MayStart
    <3>2. P!Run(l)
      BY <2>1, <2>2, <3>1 DEF BkCreate, P!Run
    <3> QED
      BY <3>2 DEF P!Next
  <2>3. CASE ~BkCreate(l)
    <3>1. box' \in SUBSET box
      BY <1>3, <2>3 DEF Backend, BkRefuse, BkAllocate, BkReady, BkFails, BkEnds, BkFence,
         BkFenceFails, backend
    <3>2. P!Stop
      BY <2>1, <3>1 DEF P!Stop
    <3> QED
      BY <3>2 DEF P!Next
  <2> QED
    BY <2>2, <2>3
<1>4. CASE ~BkRestart /\ \A l \in Leases : ~Backend(l)
  <2>1. box' = box
    BY <1>4, RunnerFrame
  <2>2. CASE Untouched \/ Listed \/ Crash
    <3>1. UNCHANGED <<journal, used>>
      BY <2>2 DEF Untouched, Listed, Crash
    <3> QED
      BY <1>1, <2>1, <3>1, PromiseStutters
  <2>3. ASSUME NEW l \in Leases, Written(l)
        PROVE  [P!Next]_(P!promise)
    <3>1. PICK to \in State \cup {None} :
                 \E o \in Outcomes(l, to) :
                   Apply(l, o) /\ UNCHANGED used /\ (to = None => op[l].pc = "remove")
      BY <2>3 DEF Written
    <3>2. PICK o \in Outcomes(l, to) :
                 Apply(l, o) /\ UNCHANGED used /\ (to = None => op[l].pc = "remove")
      BY <3>1
    <3>3. journal' = [journal EXCEPT ![l] = o.j] /\ used' = used
      BY <3>2 DEF Apply
    <3>4. CASE journal[l] # None /\ o.j = None
      <4>1. op[l].pc = "remove"
        BY <1>1, <3>2, <3>4, OutcomeFacts
      <4>2. l \notin box
        BY <1>1, <4>1 DEF Receipt, Dead
      <4>3. l \in used
        BY <1>1, <3>4 DEF Ids
      <4>4. P!GiveUp(l)
        BY <1>1, <2>1, <3>3, <3>4, <4>2, <4>3 DEF P!GiveUp, TypeOK
      <4> QED
        BY <4>4 DEF P!Next
    <3>5. CASE ~(journal[l] # None /\ o.j = None)
      <4>1. o.j = None <=> journal[l] = None
        BY <1>1, <3>5, OutcomeFacts
      <4>2. \A k \in Leases : journal'[k] = None <=> journal[k] = None
        BY <1>1, <3>3, <4>1 DEF TypeOK
      <4> QED
        BY <1>1, <2>1, <3>3, <4>2, PromiseStutters
    <3> QED
      BY <3>4, <3>5
  <2>4. ASSUME NEW l \in Leases, AdmCreate(l)
        PROVE  [P!Next]_(P!promise)
    <3>1. l \notin used /\ used' = used \cup {l} /\ journal[l] = None
      BY <1>1, <2>4 DEF AdmCreate, Ids
    <3>2. l \notin box
      BY <1>1, <3>1 DEF Contained, Dead
    <3>3. CASE journal' = [journal EXCEPT ![l] = "allocating"]
      <4>1. "allocating" # None
        BY LeaseAssumption DEF State
      <4>2. P!Admit(l)
        BY <1>1, <2>1, <3>1, <3>3, <4>1 DEF P!Admit, TypeOK
      <4> QED
        BY <4>2 DEF P!Next
    <3>4. CASE journal' = journal
      <4>1. P!GiveUp(l)
        BY <1>1, <2>1, <3>1, <3>2, <3>4 DEF P!GiveUp
      <4> QED
        BY <4>1 DEF P!Next
    <3> QED
      BY <2>4, <3>3, <3>4 DEF AdmCreate, CreateSaved, CreateFails
  <2> QED
    BY <1>1, <2>2, <2>3, <2>4, Writes
<1> QED
  BY <1>2, <1>3, <1>4

(* The runner, its journal and the backend implement what the contract of      *)
(* cancelAndDispose promises: an id that was given up never runs again.        *)
THEOREM PromiseKept == Spec => ImplementsPromise
<1>1. Init => P!Init
  BY DEF Init, P!Init, Journaled
<1>2. IInv /\ [Next]_vars => [P!Next]_(P!promise)
  BY PromiseStep
<1> QED
  BY <1>1, <1>2, Lifecycle, PTL DEF Spec, ImplementsPromise, P!Spec

(* The backend never has a container the journal has forgotten: a record goes  *)
(* only when its container is known to be gone and cannot come any more,       *)
(* whichever create answers late, whichever answer is lost and whoever crashes. *)
THEOREM ContainersAreRecorded == Spec => [](box \subseteq Journaled)
<1>1. P!Init => P!Accounted
  BY DEF P!Init, P!Accounted
<1>2. P!Accounted /\ [P!Next]_(P!promise) => P!Accounted'
  <2> SUFFICES ASSUME P!Accounted, [P!Next]_(P!promise) PROVE P!Accounted'
    OBVIOUS
  <2>1. CASE P!Stop \/ UNCHANGED P!promise
    BY <2>1 DEF P!Stop, P!promise, P!Accounted
  <2>2. CASE \E l \in Leases : P!Admit(l) \/ P!Run(l) \/ P!GiveUp(l)
    BY <2>2 DEF P!Admit, P!Run, P!GiveUp, P!Accounted
  <2> QED
    BY <2>1, <2>2 DEF P!Next
<1>3. P!Accounted => box \subseteq Journaled
  BY DEF P!Accounted
<1> QED
  BY <1>1, <1>2, <1>3, PromiseKept, PTL DEF P!Spec, ImplementsPromise
--------------------------------------------------------------------------------
(* A command whose outcome was ambiguous. *)

(* The call to the backend of an allocation that is about l. *)
Pending(l) == adm.pc \in {"sent", "activate"} /\ adm.l = l

(* l was generated, and nothing can give out a usable handle of it any more. *)
Spent(l) == /\ l \in used /\ ~Pending(l) /\ op[l].pc # "exec"
            /\ l \in lease => l \in banned

(* A handle is given out once, when its allocation is over, and a command has *)
(* one; the lease that a command left in doubt is spent.                      *)
Served ==
  \A l \in Leases :
    /\ l \in lease => l \in used
    /\ Pending(l) => l \in used /\ l \notin lease
    /\ op[l].pc = "exec" => l \in used /\ ~Pending(l)
    /\ op[l].pc = "quarantine" => Spent(l)

(* What a step does to the handle of l, to its bans and to its commands. *)
HandleKept(l) ==
  /\ l \in used => l \in used'
  /\ l \in lease' => l \in lease \/ (Pending(l) /\ ~Pending(l)')
  /\ Pending(l)' => Pending(l) \/ (l \notin used /\ l \in used' /\ lease' = lease)
  /\ l \in banned /\ l \notin banned' => l \notin lease'
CommandKept(l) ==
  LET calm == UNCHANGED <<used, lease, adm>> IN
  /\ op'[l].pc = "exec" => op[l].pc = "exec" \/ (Usable(l) /\ calm)
  /\ op'[l].pc = "quarantine" =>
       op[l].pc = "quarantine" \/ (op[l].pc = "exec" /\ l \in banned' /\ calm)

(* The operation that holds a lease forgets a ban only with the handle, and    *)
(* starts a quarantine only where a command was in doubt.                      *)
LEMMA HeldHandle ==
  ASSUME TypeOK, NEW k \in Leases, Held(k), NEW l \in Leases
  PROVE  HandleKept(l) /\ CommandKept(l)
<1> USE DEF HandleKept, CommandKept, Pending, runner
<1>1. used' = used /\ adm' = adm
  BY DEF Held, ToDisposing, Reject, Retry, Quarantine, Doubt, FenceUnconfirmed, Remove, ExecDone,
     ExecDoubt
<1>2. op'[l].pc = "exec" => op[l].pc = "exec"
  BY HeldControl
<1> DEFINE moved == (\E pc \in {"fencing", "retry", "doubt"} : MoveTo(k, pc))
                    \/ (\E f \in BOOLEAN : Finish(k, f))
<1>3. ASSUME moved
      PROVE  op'[l].pc = "quarantine" => op[l].pc = "quarantine"
  <2>1. CASE \E pc \in {"fencing", "retry", "doubt"} : MoveTo(k, pc)
    BY <2>1 DEF MoveTo, TypeOK
  <2>2. CASE \E f \in BOOLEAN : Finish(k, f)
    BY <2>2 DEF Finish, NoOp, TypeOK
  <2> QED
    BY <1>3, <2>1, <2>2
<1>4. CASE ExecDoubt(k)
  BY <1>4 DEF ExecDoubt, TypeOK
<1>5. CASE ExecDone(k)
  BY <1>5 DEF ExecDone, NoOp, TypeOK
<1>6. CASE Remove(k)
  <2>1. UNCHANGED <<lease, banned>> \/ (lease' = lease \ {k} /\ banned' = banned \ {k})
    BY <1>6 DEF Remove
  <2>2. moved
    BY <1>6 DEF Remove
  <2> QED
    BY <1>1, <1>2, <1>3, <2>1, <2>2
<1>7. CASE ToDisposing(k) \/ Reject(k) \/ Retry(k) \/ Quarantine(k) \/ Doubt(k) \/ FenceUnconfirmed(k)
  <2>1. UNCHANGED <<lease, banned>>
    BY <1>7 DEF ToDisposing, Reject, Retry, Quarantine, Doubt, FenceUnconfirmed
  <2>2. moved
    <3>1. CASE ToDisposing(k)
      BY <3>1 DEF ToDisposing
    <3>2. CASE Reject(k)
      BY <3>2 DEF Reject
    <3>3. CASE Retry(k)
      BY <3>3 DEF Retry
    <3>4. CASE Quarantine(k)
      BY <3>4 DEF Quarantine
    <3>5. CASE Doubt(k)
      BY <3>5 DEF Doubt
    <3>6. CASE FenceUnconfirmed(k)
      BY <3>6 DEF FenceUnconfirmed
    <3> QED
      BY <1>7, <3>1, <3>2, <3>3, <3>4, <3>5, <3>6
  <2> QED
    BY <1>1, <1>2, <1>3, <2>1, <2>2
<1> QED
  BY <1>4, <1>5, <1>6, <1>7 DEF Held

(* A command starts on a usable lease only, and a call to allocate is sent    *)
(* once for each id.                                                          *)
LEMMA LeaseHandle ==
  ASSUME TypeOK, NEW k \in Leases, NEW l \in Leases,
         \/ Exec(k) \/ Dispose(k) \/ AdmTake(k) \/ AdmCreate(k) \/ LateCleanup(k) \/ SweepTake(k)
         \/ Backend(k)
  PROVE  HandleKept(l) /\ CommandKept(l)
<1> USE DEF HandleKept, CommandKept, Pending, runner, TypeOK
<1>1. CASE Exec(k)
  BY <1>1 DEF Exec
<1>2. ASSUME \E pc \in {"dispose", "reject"}, by \in By : Begin(k, pc, by)
      PROVE  op'[l] = op[l] \/ op'[l].pc \notin {"exec", "quarantine"}
  BY <1>2 DEF Begin
<1>b. {"client", "adm", "late", "sweep"} \subseteq By
  BY DEF By
<1>3. CASE Dispose(k)
  <2>1. Begin(k, "dispose", "client") /\ UNCHANGED <<used, lease, banned, adm>>
    BY <1>3 DEF Dispose
  <2> QED
    BY <1>2, <1>b, <2>1
<1>4. CASE AdmTake(k)
  <2>1. op' = op \/ (\E pc \in {"dispose", "reject"} : Begin(k, pc, "adm"))
    BY <1>4 DEF AdmTake
  <2>2. UNCHANGED <<used, lease, banned>> /\ adm'.pc = adm.pc /\ adm'.l = adm.l
    BY <1>4 DEF AdmTake
  <2> QED
    BY <1>2, <1>b, <2>1, <2>2
<1>5. CASE LateCleanup(k) \/ SweepTake(k)
  <2>1. op' = op \/ (\E by \in By, pc \in {"dispose", "reject"} : Begin(k, pc, by))
    BY <1>5, <1>b DEF LateCleanup, SweepTake
  <2>2. UNCHANGED <<used, lease, banned, adm>>
    BY <1>5 DEF LateCleanup, SweepTake
  <2> QED
    BY <1>2, <2>1, <2>2
<1>6. CASE AdmCreate(k)
  <2>1. k \notin used /\ used' = used \cup {k} /\ UNCHANGED <<lease, banned, op>>
    BY <1>6 DEF AdmCreate
  <2>2. adm'.pc \in {"off", "cleanup"} \/ (adm'.pc = "sent" /\ adm'.l = k)
    <3>1. CASE CreateSaved(k)
      BY <3>1, AdmFields DEF CreateSaved
    <3>2. CASE CreateFails(k)
      <4>1. adm' = NoAdm \/ adm' = [NoAdm EXCEPT !.pc = "cleanup", !.todo = {k}]
        BY <3>2 DEF CreateFails
      <4>2. CASE adm' = NoAdm
        BY <4>2, AdmFields
      <4>3. CASE adm' = [NoAdm EXCEPT !.pc = "cleanup", !.todo = {k}]
        BY <4>3, AdmFields
      <4> QED
        BY <4>1, <4>2, <4>3
    <3> QED
      BY <1>6, <3>1, <3>2 DEF AdmCreate
  <2> QED
    BY <2>1, <2>2
<1>7. CASE Backend(k)
  <2>1. UNCHANGED <<used, lease, banned>>
    BY <1>7 DEF Backend, BkRefuse, BkAllocate, BkCreate, BkReady, BkFails, BkEnds, BkFence,
       BkFenceFails
  <2>2. adm' = adm \/ (adm.pc = "sent" /\ adm' = [adm EXCEPT !.pc = "activate"])
    BY <1>7 DEF Backend, BkRefuse, BkAllocate, BkCreate, BkReady, BkFails, BkEnds, BkFence,
       BkFenceFails
  <2>3. op' = op \/ op' = [op EXCEPT ![k].pc = "remove"]
    BY <1>7 DEF Backend, BkRefuse, BkAllocate, BkCreate, BkReady, BkFails, BkEnds, BkFence,
       BkFenceFails
  <2> QED
    BY <2>1, <2>2, <2>3
<1> QED
  BY <1>1, <1>3, <1>4, <1>5, <1>6, <1>7

(* The only handle that is given out is that of an allocation that ends with  *)
(* it; a listing forgets a ban together with the handle.                      *)
LEMMA GlobalHandle ==
  ASSUME TypeOK, NEW l \in Leases,
         Admission \/ Sweeping \/ Allocate \/ FenceProject \/ Stop \/ Drain \/ BkRestart \/ Crash
  PROVE  HandleKept(l) /\ CommandKept(l)
<1> USE DEF HandleKept, CommandKept, Pending, runner
<1>1. CASE Activate
  <2>1. adm.pc = "activate" /\ UNCHANGED <<used, banned, op>>
    BY <1>1 DEF Activate
  <2>2. PICK o \in Outcomes(adm.l, "active") :
          IF o.ok
          THEN adm' = NoAdm /\ lease' = lease \cup {adm.l}
          ELSE adm' = [NoAdm EXCEPT !.pc = "cleanup", !.todo = {adm.l}] /\ UNCHANGED lease
    BY <1>1 DEF Activate
  <2>3. CASE o.ok
    BY <2>1, <2>2, <2>3, AdmFields
  <2>4. CASE ~o.ok
    BY <2>1, <2>2, <2>4, AdmFields
  <2> QED
    BY <2>3, <2>4
<1>2. CASE AdmStart \/ AdmNext \/ AdmRefuse \/ AllocFails
  <2>1. UNCHANGED <<used, runner, op>>
    <3>1. CASE AdmStart
      BY <3>1 DEF AdmStart
    <3>2. CASE AdmNext
      BY <3>2 DEF AdmNext
    <3>3. CASE AdmRefuse
      BY <3>3 DEF AdmRefuse
    <3>4. CASE AllocFails
      BY <3>4 DEF AllocFails
    <3> QED
      BY <1>2, <3>1, <3>2, <3>3, <3>4
  <2>2. adm'.pc \notin {"sent", "activate"}
    <3>1. CASE AdmStart
      BY <3>1 DEF AdmStart, TypeOK
    <3>2. CASE AdmNext
      BY <3>2, AdmFields DEF AdmNext, TypeOK
    <3>3. CASE AdmRefuse
      BY <3>3, AdmFields DEF AdmRefuse
    <3>4. CASE AllocFails
      BY <3>4, AdmFields DEF AllocFails
    <3> QED
      BY <1>2, <3>1, <3>2, <3>3, <3>4
  <2> QED
    BY <2>1, <2>2
<1>3. CASE RecoverList
  BY <1>3 DEF RecoverList
<1>4. CASE DrainList \/ DrainEnd
  BY <1>4 DEF DrainList, DrainEnd, Reload
<1>5. CASE ListFails \/ RecoverEnd \/ ProjectEnd
  BY <1>5, AdmFields DEF ListFails, RecoverEnd, ProjectEnd
<1>6. CASE Allocate
  BY <1>6, AdmFields DEF Allocate
<1>7. CASE FenceProject \/ Stop \/ Drain \/ BkRestart
  BY <1>7 DEF FenceProject, Stop, Drain, BkRestart
<1>8. CASE Crash
  BY <1>8, AdmFields DEF Crash, NoOp
<1> QED
  BY <1>1, <1>2, <1>3, <1>4, <1>5, <1>6, <1>7, <1>8 DEF Admission, Sweeping

(* Every step. *)
LEMMA HandleStep ==
  ASSUME TypeOK, [Next]_vars, NEW l \in Leases
  PROVE  HandleKept(l) /\ CommandKept(l)
<1>1. CASE UNCHANGED vars
  BY <1>1 DEF vars, runner, HandleKept, CommandKept, Pending
<1>2. CASE Next
  BY <1>2, HeldHandle, LeaseHandle, GlobalHandle DEF Next
<1> QED
  BY <1>1, <1>2

(* A lease that is spent stays spent: a ban outlives the handle, also through  *)
(* a listing of the journal and a crash of the runner.                         *)
LEMMA SpentStays ==
  ASSUME TypeOK, [Next]_vars, NEW l \in Leases, Spent(l)
  PROVE  Spent(l)'
<1>1. HandleKept(l) /\ CommandKept(l)
  BY HandleStep
<1>2. l \in used' /\ ~Pending(l)'
  BY <1>1 DEF Spent, HandleKept
<1>3. op'[l].pc # "exec"
  BY <1>1 DEF Spent, CommandKept, Usable
<1>4. l \in lease' => l \in banned'
  BY <1>1 DEF Spent, HandleKept
<1> QED
  BY <1>2, <1>3, <1>4 DEF Spent

(* The handles are given out once. *)
LEMMA ServedStep ==
  ASSUME TypeOK, Served, [Next]_vars
  PROVE  Served'
<1> SUFFICES ASSUME NEW l \in Leases
             PROVE  /\ l \in lease' => l \in used'
                    /\ Pending(l)' => l \in used' /\ l \notin lease'
                    /\ op'[l].pc = "exec" => l \in used' /\ ~Pending(l)'
                    /\ op'[l].pc = "quarantine" => Spent(l)'
  BY DEF Served
<1>1. HandleKept(l) /\ CommandKept(l)
  BY HandleStep
<1>2. /\ l \in lease => l \in used
      /\ Pending(l) => l \in used /\ l \notin lease
      /\ op[l].pc = "exec" => l \in used /\ ~Pending(l)
      /\ op[l].pc = "quarantine" => Spent(l)
  BY DEF Served
<1>3. l \in lease' => l \in used'
  BY <1>1, <1>2 DEF HandleKept
<1>4. Pending(l)' => l \in used' /\ l \notin lease'
  BY <1>1, <1>2 DEF HandleKept
<1>5. adm' = adm => (Pending(l)' <=> Pending(l))
  BY DEF Pending
<1>6. ASSUME op'[l].pc = "exec"
      PROVE  l \in used' /\ ~Pending(l)'
  <2>1. CASE op[l].pc = "exec"
    BY <1>1, <1>2, <2>1 DEF HandleKept
  <2>2. CASE Usable(l) /\ UNCHANGED <<used, lease, adm>>
    BY <1>2, <1>5, <2>2 DEF Usable
  <2> QED
    BY <1>1, <1>6, <2>1, <2>2 DEF CommandKept
<1>7. ASSUME op'[l].pc = "quarantine"
      PROVE  Spent(l)'
  <2>1. CASE op[l].pc = "quarantine"
    BY <1>2, <2>1, SpentStays
  <2>2. CASE op[l].pc = "exec" /\ l \in banned' /\ UNCHANGED <<used, lease, adm>>
    BY <1>2, <1>5, <1>7, <2>2 DEF Spent
  <2> QED
    BY <1>1, <1>7, <2>1, <2>2 DEF CommandKept
<1> QED
  BY <1>3, <1>4, <1>6, <1>7

(* Once the outcome of a command was ambiguous its lease runs nothing more:    *)
(* whatever becomes of the quarantine in the journal, of a listing that reads  *)
(* the record as active again, and of a runner that starts anew.               *)
THEOREM DoubtStays == Spec => DoubtIsFinal
<1> SUFFICES ASSUME NEW l \in Leases
             PROVE  Spec => [](op[l].pc = "quarantine" => [](op[l].pc # "exec"))
  BY DEF DoubtIsFinal
<1>1. Init => Served
  BY DEF Init, Served, Pending, NoAdm, NoOp
<1>2. IInv /\ Served /\ [Next]_vars => Served'
  BY ServedStep DEF IInv
<1>3. Served /\ op[l].pc = "quarantine" => Spent(l)
  BY DEF Served
<1>4. IInv /\ Spent(l) /\ [Next]_vars => Spent(l)'
  BY SpentStays DEF IInv
<1>5. Spent(l) => op[l].pc # "exec"
  BY DEF Spent
<1> QED
  BY <1>1, <1>2, <1>3, <1>4, <1>5, Lifecycle, PTL DEF Spec
================================================================================
