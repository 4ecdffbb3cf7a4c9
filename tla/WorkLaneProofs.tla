----------------------------- MODULE WorkLaneProofs -----------------------------
(***************************************************************************)
(* Theorems about the work lane of one owner, for all messages and prompts, *)
(* all capacities and numbers of passes, in every environment.              *)
(*                                                                         *)
(* The inductive invariant says what the worker, the handler on the owner's *)
(* chain and the reply being admitted know of the record at each of their   *)
(* stages, and that a record in progress has the worker it claims to have.  *)
(***************************************************************************)
EXTENDS WorkLane, ActiveRunProofs

-----------------------------------------------------------------------------
(* The transitions of the record, by what the lane tells apart. *)

(* The same run with the same messages. *)
Same(r, n) == n.id = r.id /\ n.mailbox = r.mailbox

(* A save raises the revision and nothing else. *)
LEMMA PutType ==
  ASSUME NEW n \in Run, Put(n)
  PROVE /\ run' \in Run /\ run' # None /\ Same(n, run')
        /\ run'.status = n.status /\ run'.effect = n.effect
  BY NoRecordIsNone DEF Put, Run, Same

(* A closed record keeps its messages and its effect. *)
LEMMA ClosedFields ==
  ASSUME NEW r \in Run, NEW status \in TerminalStatus
  PROVE LET n == Closed(r, status) IN
        n \in Run /\ Same(r, n) /\ n.status = status /\ n.effect = r.effect
  BY ClosedType DEF Closed, Run, Same

(* An effect that is settled leaves a record that no longer runs. *)
LEMMA EffectFields ==
  ASSUME NEW r \in Run, r.effect # None,
         NEW n \in {CommittedFinal(r), CommittedQuestion(r), UnknownDelivery(r)}
  PROVE n \in Run /\ Same(r, n) /\ n.status # "running" /\ n.effect = None
<1>1. n \in Run BY SettledEffectType
<1>2. \A status \in {"committed", "unknown"} :
        LET m == Receipted(r, status) IN m \in Run /\ Same(r, m) /\ m.effect = None
  BY ReceiptedType DEF Receipted, Run, Same
<1>3. CASE n = CommittedFinal(r)
  BY <1>1, <1>2, <1>3 DEF CommittedFinal, Run, Same
<1>4. CASE n = CommittedQuestion(r)
  BY <1>1, <1>2, <1>4 DEF CommittedQuestion, Run, Same
<1>5. CASE n = UnknownDelivery(r)
  <2>1. "partial" \in TerminalStatus BY DEF TerminalStatus
  <2> QED BY <1>2, <1>5, <2>1, ClosedFields DEF UnknownDelivery, Same
<1> QED BY <1>3, <1>4, <1>5

(* A failed run is closed and has nothing on its way. *)
LEMMA FailedFields ==
  ASSUME NEW r \in Run
  PROVE LET n == FailedRun(r) IN
        n \in Run /\ Same(r, n) /\ Terminal(n) /\ n.effect = None
<1>1. "partial" \in TerminalStatus /\ "failed" \in TerminalStatus BY DEF TerminalStatus
<1>2. CASE r.effect = None
  <2>1. FailedRun(r) = Closed(r, "failed") BY <1>2 DEF FailedRun
  <2> QED BY <1>1, <1>2, <2>1, ClosedFields DEF Terminal
<1>3. CASE r.effect # None
  <2>1. FailedRun(r) = UnknownDelivery(r) BY <1>3 DEF FailedRun
  <2>2. Receipted(r, "unknown") \in Run BY <1>3, ReceiptedType
  <2>3. UnknownDelivery(r).status = "partial" BY <1>1, <2>2, ClosedFields DEF UnknownDelivery
  <2> QED BY <1>1, <1>3, <2>1, <2>3, EffectFields DEF Terminal
<1> QED BY <1>2, <1>3

(* An attempt begins on a record without an effect and marks it running. *)
LEMMA BegunFields ==
  ASSUME NEW r \in Run
  PROVE LET n == Begun(r) IN
        n \in Run /\ Same(r, n) /\ n.status = "running" /\ n.effect = r.effect
<1>1. Begun(r) \in Run BY BegunType
<1> QED BY <1>1 DEF Begun, Run, Same

(* A prepared record is the running one with an effect. *)
LEMMA FinalFields ==
  ASSUME NEW r \in Run, NEW inRev \in Nat, NEW ck \in Checkpoint
  PROVE LET n == PreparedFinal(r, inRev, ck) IN
        n \in Run /\ Same(r, n) /\ n.status = r.status /\ n.effect # None
<1>1. PreparedFinal(r, inRev, ck) \in Run BY PreparedFinalType
<1>2. PreparedFinal(r, inRev, ck).effect = [id |-> NextId(r), purpose |-> "final", instr |-> inRev]
  BY DEF PreparedFinal, Run
<1>3. NextId(r) \in Nat BY DEF NextId, Run
<1>4. [id |-> NextId(r), purpose |-> "final", instr |-> inRev] # None
  BY <1>3, NoRecordIsNone DEF Effect, Purpose
<1> QED BY <1>1, <1>2, <1>4 DEF PreparedFinal, Run, Same

(* So is a prepared question. *)
LEMMA QuestionFields ==
  ASSUME NEW r \in Run, NEW inRev \in Nat, NEW ck \in Checkpoint, ck.ask \in Prompts
  PROVE LET n == PreparedQuestion(r, inRev, ck) IN
        n \in Run /\ Same(r, n) /\ n.status = r.status /\ n.effect # None
<1>1. PreparedQuestion(r, inRev, ck) \in Run BY PreparedQuestionType
<1>2. PreparedQuestion(r, inRev, ck).effect = [id |-> NextId(r), purpose |-> "question", instr |-> inRev]
  BY DEF PreparedQuestion, Run
<1>3. NextId(r) \in Nat BY DEF NextId, Run
<1>4. [id |-> NextId(r), purpose |-> "question", instr |-> inRev] # None
  BY <1>3, NoRecordIsNone DEF Effect, Purpose
<1> QED BY <1>1, <1>2, <1>4 DEF PreparedQuestion, Run, Same

(* An attempt that gives up queues the record again, pauses or closes it. *)
LEMMA RequeuedFields ==
  ASSUME NEW r \in Run, NEW inRev \in Nat, NEW ck \in Checkpoint
  PROVE LET n == Requeued(r, inRev, ck) IN
        n \in Run /\ Same(r, n) /\ n.status \in {"queued", "paused"} /\ n.effect = r.effect
<1>1. Requeued(r, inRev, ck) \in Run BY RequeuedType
<1> QED BY <1>1 DEF Requeued, Run, Same

(* A stopped attempt settles into one of the three. *)
LEMMA SettledFields ==
  ASSUME NEW r \in Run, NEW inRev \in Nat, NEW ck \in Checkpoint, NEW pause \in BOOLEAN
  PROVE LET n == Settled(r, inRev, ck, pause) IN
        /\ n \in Run /\ Same(r, n) /\ n.status \in {"queued", "paused", "failed"}
        /\ n.effect \in {r.effect, None}
<1>1. Settled(r, inRev, ck, pause) \in Run BY SettledType
<1>2. CASE r.instr # inRev BY <1>1, <1>2 DEF Settled, Run, Same
<1>3. CASE r.instr = inRev /\ pause BY <1>1, <1>3 DEF Settled, Run, Same
<1>4. CASE r.instr = inRev /\ ~pause
  <2>1. [r EXCEPT !.ckpt = ck] \in Run BY DEF Run
  <2>2. "failed" \in TerminalStatus BY DEF TerminalStatus
  <2>3. Same([r EXCEPT !.ckpt = ck], Closed([r EXCEPT !.ckpt = ck], "failed"))
    BY <2>1, <2>2, ClosedFields
  <2>4. Closed([r EXCEPT !.ckpt = ck], "failed") \in Run BY <2>1, <2>2, ClosedFields
  <2>5. Closed([r EXCEPT !.ckpt = ck], "failed").status = "failed" BY <2>1, <2>2, ClosedFields
  <2> QED BY <1>1, <1>4, <2>1, <2>3, <2>4, <2>5 DEF Settled, Run, Same
<1> QED BY <1>2, <1>3, <1>4

(* A message is added; the oldest may make room for it. *)
LEMMA PostedFields ==
  ASSUME NEW r \in Run, NEW kind \in Kind, NEW src \in Sources
  PROVE LET n == Posted(r, kind, src) IN
        /\ n \in Run /\ n.id = r.id /\ n.status = r.status /\ n.effect = r.effect
        /\ SourcesOf(n.mailbox) \subseteq SourcesOf(r.mailbox) \cup {src}
<1>1. Posted(r, kind, src) \in Run BY PostedType
<1>2. Posted(r, kind, src).mailbox \subseteq
        r.mailbox \cup {[rev |-> r.instr + 1, kind |-> kind, src |-> src]}
  BY DEF Posted, Run
<1>3. SourcesOf(Posted(r, kind, src).mailbox) \subseteq SourcesOf(r.mailbox) \cup {src}
  BY <1>2 DEF SourcesOf
<1> QED BY <1>1, <1>3 DEF Posted, Run

(* What a routed message does to the record. *)
LEMMA RoutedFields ==
  ASSUME NEW r \in Run, NEW kind \in Kind, NEW src \in Sources, kind = "answer" => r.question # None,
         NEW n, n = Routed(r, kind, src)
  PROVE /\ n \in Run /\ n.id = r.id /\ n.effect = r.effect
        /\ SourcesOf(n.mailbox) \subseteq SourcesOf(r.mailbox) \cup {src}
        /\ kind = "cancel" => n.status = "cancelled"
        /\ kind = "answer" => n.status = "queued"
        /\ kind = "constraint" => n.status = IF r.status = "running" THEN "running" ELSE "queued"
<1> DEFINE p == Posted(r, kind, src)
<1>1. n \in Run BY RoutedType
<1>2. /\ p \in Run /\ p.id = r.id /\ p.status = r.status /\ p.effect = r.effect
      /\ SourcesOf(p.mailbox) \subseteq SourcesOf(r.mailbox) \cup {src}
  BY PostedFields
<1>3. CASE kind = "cancel"
  <2>1. n = Closed(p, "cancelled") BY <1>3 DEF Routed, Cancelled
  <2>2. "cancelled" \in TerminalStatus BY DEF TerminalStatus
  <2> HIDE DEF p
  <2>3. n.id = p.id /\ n.mailbox = p.mailbox /\ n.status = "cancelled" /\ n.effect = p.effect
    BY <1>2, <2>1, <2>2, ClosedFields DEF Same
  <2> QED BY <1>1, <1>2, <1>3, <2>3
<1>4. CASE kind = "answer"
  <2>1. n = [p EXCEPT !.status = "queued", !.answer = [question |-> r.question.id, src |-> src]]
    BY <1>4 DEF Routed, Answered
  <2> HIDE DEF p
  <2>2. n.id = p.id /\ n.mailbox = p.mailbox /\ n.status = "queued" /\ n.effect = p.effect
    BY <1>2, <2>1 DEF Run
  <2> QED BY <1>1, <1>2, <1>4, <2>2
<1>5. CASE kind = "constraint"
  <2>1. n = [p EXCEPT !.status = IF @ = "running" THEN "running" ELSE "queued",
                      !.question = None, !.answer = None]
    BY <1>5 DEF Routed, Constrained
  <2> HIDE DEF p
  <2>2. /\ n.id = p.id /\ n.mailbox = p.mailbox /\ n.effect = p.effect
        /\ n.status = IF p.status = "running" THEN "running" ELSE "queued"
    BY <1>2, <2>1 DEF Run
  <2> QED BY <1>1, <1>2, <1>5, <2>2
<1> QED BY <1>3, <1>4, <1>5 DEF Kind

-----------------------------------------------------------------------------
(* The inductive invariant. *)

(* The stages of a worker that has its run marked as running.               *)
RunStage == {"plan", "gate", "commit", "barrier", "stale", "settle", "fail"}

(* A result that asks has a prompt, one that is committed is a result; the  *)
(* record of a commit stays as it was prepared until the delivery returns,  *)
(* and only an abort closes a record under its planner.                     *)
WorkerShape ==
  work # None =>
    /\ work.run \in 1 .. lastRun
    /\ work.stage \in {"gate", "commit"} /\ work.outcome = "ask" => work.ckpt.ask # None
    /\ work.stage = "commit" => work.outcome \in {"final", "ask"}
    /\ work.stage = "barrier" /\ run # None =>
         run.id = work.run /\ run.status = "running" /\ run.effect # None
    /\ work.stage = "plan" /\ Is(work.run) /\ ~work.aborted => run.status = "running"

(* A record that announces an effect or says it runs has its worker there.  *)
RecordShape ==
  run # None =>
    /\ run.id \in 1 .. lastRun
    /\ run.effect # None => Working("barrier")
    /\ run.status = "running" =>
         work # None /\ work.run = run.id /\ work.stage \in RunStage

Unlaunched == {"anchor", "launch", "unlaunched"}
Holding == {"cancel", "route", "wake", "withdraw", "await"} \cup Unlaunched

(* The record a handler has looked at is still the same run: nobody else    *)
(* starts or removes one.  A new run has no worker before its launch, and   *)
(* what a memory change is about to remove is closed.                       *)
TurnShape ==
  /\ turn.stage # "idle" => turn.src \in Sources
  /\ turn.kind # "cancel"
  /\ turn.stage \in Holding => Is(turn.run)
  /\ turn.stage \in Unlaunched => WorkGone(turn.run)
  /\ turn.stage = "await" => Terminal(run)
  /\ turn.stage = "erase" /\ run # None => Terminal(run)

Unposted(s) == run # None => s \notin SourcesOf(run.mailbox)

(* A message is routed once: until its handler posts it, the record does    *)
(* not have it, so the cancel of a memory change is never taken for a       *)
(* repeated message.                                                        *)
SourceShape ==
  /\ \A s \in inbox : Unposted(s) /\ s # turn.src /\ s # admission.src
  /\ turn.stage \in {"control", "cancel", "mailbox", "route", "discard", "withdraw"} =>
       Unposted(turn.src)
  /\ admission.stage \in {"expiring", "loading", "queued"} =>
       Unposted(admission.src) /\ admission.src # turn.src
  /\ admission.stage # "idle" => admission.src \in Sources

(* A quoted reply holds its reservation until its handler has ended.        *)
IngressShape ==
  /\ turn.bound <=> admission.stage = "handled"
  /\ turn.stage = "idle" => ~turn.bound
  /\ admission.stage \in {"queued", "handled"} => admission.run \in reserved

(* Work is stopped when the chains are empty, and the end comes after it.   *)
ModeShape ==
  /\ mode \in {"stopping", "down"} => turn.stage = "idle" /\ admission.stage = "idle"
  /\ mode = "down" => work = None
  /\ wakeups \subseteq 1 .. lastRun

IInv == TypeOK /\ WorkerShape /\ RecordShape /\ TurnShape /\ SourceShape
        /\ IngressShape /\ ModeShape

(* The lane starts empty. *)
LEMMA InitShape == Init => IInv
<1> SUFFICES ASSUME Init PROVE IInv OBVIOUS
<1>1. run = None /\ work = None /\ wakeups = {} /\ reserved = {} /\ inbox = Sources
      /\ lastRun = 0 /\ mode = "up" /\ admission = NoAdmission /\ turn = NoTurn
  BY DEF Init
<1>2. admission \in Admission /\ admission.stage = "idle" /\ admission.src = None
  BY <1>1 DEF NoAdmission, Admission
<1>3. turn \in Turn /\ turn.stage = "idle" /\ turn.src = None /\ ~turn.bound
      /\ turn.kind = "constraint"
  BY <1>1 DEF NoTurn, Turn, TurnStage, Kind
<1>4. TypeOK BY <1>1, <1>2, <1>3 DEF TypeOK
<1>5. WorkerShape /\ RecordShape /\ IngressShape /\ ModeShape
  BY <1>1, <1>2, <1>3 DEF WorkerShape, RecordShape, IngressShape, ModeShape
<1>6. TurnShape BY <1>3 DEF TurnShape, Holding, Unlaunched
<1>7. SourceShape BY <1>1, <1>2, <1>3, NoneAssumption DEF SourceShape, Unposted
<1> QED BY <1>4, <1>5, <1>6, <1>7 DEF IInv

-----------------------------------------------------------------------------
(* The worker. *)

(* A save of the worker is of its run, and of a record that is not closed.  *)
WorkerSaves ==
  run # None /\ run' # None /\ Same(run, run') /\ ~Terminal(run)

(* What the worker does beside its own state leaves the handlers alone.     *)
LEMMA WorkerFrame ==
  ASSUME IInv, work # None, work' # None, work'.run = work.run, Quiet,
         UNCHANGED run \/ WorkerSaves
  PROVE TurnShape' /\ SourceShape' /\ IngressShape' /\ ModeShape'
<1>1. /\ turn' = turn /\ admission' = admission /\ reserved' = reserved /\ inbox' = inbox
      /\ wakeups' = wakeups /\ lastRun' = lastRun /\ mode' = mode
  BY DEF Quiet, lane
<1>2. TurnShape'
  BY <1>1 DEF IInv, TurnShape, WorkerSaves, Same, Is, WorkGone, Terminal
<1>3. SourceShape' BY <1>1 DEF IInv, SourceShape, Unposted, WorkerSaves, Same
<1>4. IngressShape' /\ ModeShape' BY <1>1 DEF IInv, IngressShape, ModeShape
<1> QED BY <1>2, <1>3, <1>4

(* Types of a step of the worker. *)
LEMMA WorkerType ==
  ASSUME IInv, work' \in Work, Quiet, UNCHANGED run \/ run' \in Run
  PROVE TypeOK' /\ work' # None
  BY NoWorkerIsNone DEF IInv, TypeOK, Quiet, lane

(* A worker that only moves on.                                             *)
LEMMA WorkerMoves ==
  ASSUME IInv, NEW stage \in WorkStage, work # None, At(stage), UNCHANGED run, Quiet,
         stage \notin {"begin", "plan", "gate", "barrier"},
         stage = "commit" => work.stage = "gate" /\ work.outcome \in {"final", "ask"},
         run # None => run.effect = None,
         stage \notin RunStage => (run # None => run.status # "running")
  PROVE IInv' /\ work' # None
<1>1. work \in Work BY DEF IInv, TypeOK
<1>2. work' \in Work /\ work' = [work EXCEPT !.stage = stage] BY <1>1 DEF At, Work
<1>3. TypeOK' /\ work' # None BY <1>2, WorkerType
<1>4. work'.run = work.run /\ work'.stage = stage /\ work'.outcome = work.outcome
      /\ work'.ckpt = work.ckpt
  BY <1>1, <1>2 DEF Work
<1>5. TurnShape' /\ SourceShape' /\ IngressShape' /\ ModeShape'
  BY <1>3, <1>4, WorkerFrame
<1>6. run' = run /\ lastRun' = lastRun BY DEF Quiet
<1>7. WorkerShape' BY <1>4, <1>6 DEF IInv, WorkerShape, RunStage
<1>8. RecordShape' BY <1>3, <1>4, <1>6 DEF IInv, RecordShape, Working
<1> QED BY <1>3, <1>5, <1>7, <1>8 DEF IInv

(* A worker that saves its run, with what must be true of both afterwards.  *)
LEMMA WorkerPuts ==
  ASSUME IInv, Quiet, work # None, run # None, Is(work.run), ~Terminal(run),
         NEW n \in Run, Put(n), Same(run, n),
         work' \in Work, work'.run = work.run, work'.stage \notin {"gate", "commit"},
         n.effect # None <=> work'.stage = "barrier",
         work'.stage = "barrier" => n.status = "running",
         n.status = "running" => work'.stage \in RunStage,
         work'.stage = "plan" => n.status = "running"
  PROVE IInv' /\ work' # None
<1>1. /\ run' \in Run /\ run' # None /\ Same(n, run')
      /\ run'.status = n.status /\ run'.effect = n.effect
  BY PutType
<1>2. TypeOK' /\ work' # None BY <1>1, WorkerType
<1>3. WorkerSaves BY <1>1 DEF WorkerSaves, Same
<1>4. TurnShape' /\ SourceShape' /\ IngressShape' /\ ModeShape' BY <1>2, <1>3, WorkerFrame
<1>5. run'.id = run.id /\ lastRun' = lastRun BY <1>1 DEF Same, Quiet
<1>6. WorkerShape' BY <1>1, <1>2, <1>5 DEF IInv, WorkerShape, Is
<1>7. RecordShape' BY <1>1, <1>2, <1>5 DEF IInv, RecordShape, Working, Is
<1> QED BY <1>2, <1>4, <1>6, <1>7 DEF IInv

(* While no delivery holds the queue, nothing is announced in the record.   *)
LEMMA NothingAnnounced ==
  ASSUME IInv, run # None, work # None => work.stage # "barrier"
  PROVE run.effect = None
  BY DEF IInv, RecordShape, Working

(* A pass begins with what the record hands over: its revision, its answer. *)
LEMMA BeginKeeps == IInv /\ Begin => IInv' /\ work' # None
<1> SUFFICES ASSUME IInv, Begin PROVE IInv' /\ work' # None OBVIOUS
<1>1. work # None /\ work \in Work /\ work.stage = "begin" /\ Quiet
  BY DEF Begin, Working, IInv, TypeOK
<1>2. run # None => run.effect = None /\ run.status # "running" /\ run \in Run
  BY <1>1, NothingAnnounced DEF IInv, RecordShape, RunStage, TypeOK
<1>3. CASE ~Is(work.run)
  BY <1>1, <1>2, <1>3, WorkerMoves DEF Begin, WorkStage, RunStage
<1>4. CASE Is(work.run) /\ ~CanBegin(run)
  BY <1>1, <1>2, <1>4, WorkerMoves DEF Begin, WorkStage, RunStage
<1>5. CASE Is(work.run) /\ CanBegin(run)
  <2>1. run # None /\ run \in Run /\ ~Terminal(run) BY <1>2, <1>5 DEF Is, CanBegin
  <2> DEFINE r == Begun(run)
             ck == IF r.ckpt # None THEN r.ckpt
                   ELSE [seen |-> SourcesOf(Pending(run)), ask |-> None]
  <2>2. /\ Put(r)
        /\ work' = [work EXCEPT !.stage = "plan", !.inRev = r.instr, !.answer = r.answer, !.ckpt = ck]
    BY <1>5 DEF Begin
  <2>3. r \in Run /\ Same(run, r) /\ r.status = "running" /\ r.effect = run.effect
    BY <2>1, BegunFields
  <2>4. SourcesOf(Pending(run)) \in SUBSET Sources BY <2>1, PendingType, SourcesOfType
  <2> HIDE DEF r
  <2>5. ck \in Checkpoint BY <2>3, <2>4 DEF Run, Checkpoint
  <2> HIDE DEF ck
  <2>6. work' \in Work /\ work'.run = work.run /\ work'.stage = "plan"
    BY <1>1, <2>2, <2>3, <2>5 DEF Work, WorkStage, Run
  <2> QED BY <1>1, <1>2, <1>5, <2>1, <2>2, <2>3, <2>6, WorkerPuts DEF RunStage
<1> QED BY <1>3, <1>4, <1>5

(* A planning pass touches the worker's own notes and no record.            *)
LEMMA PlanKeeps == IInv /\ Plan => IInv' /\ work' # None
<1> SUFFICES ASSUME IInv, Plan PROVE IInv' /\ work' # None OBVIOUS
<1>1. work # None /\ work \in Work /\ work.stage = "plan" /\ UNCHANGED run /\ Quiet
  BY DEF Plan, Working, IInv, TypeOK
<1>2. Consumed \in Checkpoint BY <1>1 DEF Consumed, Work, Checkpoint, Answer
<1>3. \E outcome \in Outcome, ck \in Checkpoint :
        Ends(outcome, ck) /\ (outcome = "ask" => ck.ask # None)
  <2>1. CASE work.aborted
    <3>1. Ends("cancelled", work.ckpt) BY <2>1 DEF Plan
    <3> QED BY <1>1, <3>1 DEF Outcome, Work
  <2>2. CASE ~work.aborted /\ ~(Is(work.run) /\ Fresh(run, work.inRev))
    <3>1. Ends("stopped", work.ckpt) BY <2>2 DEF Plan
    <3> QED BY <1>1, <3>1 DEF Outcome, Work
  <2>3. CASE Ends("final", Consumed) BY <1>2, <2>3 DEF Outcome
  <2>4. CASE \E p \in Prompts : Ends("ask", [Consumed EXCEPT !.ask = IF @ = None THEN p ELSE @])
    <3>1. PICK p \in Prompts : Ends("ask", [Consumed EXCEPT !.ask = IF @ = None THEN p ELSE @])
      BY <2>4
    <3> DEFINE ck == [Consumed EXCEPT !.ask = IF @ = None THEN p ELSE @]
    <3>2. ck \in Checkpoint /\ ck.ask # None BY <1>2, NoneAssumption DEF Checkpoint
    <3> QED BY <3>1, <3>2 DEF Outcome
  <2>5. CASE Ends("stopped", Consumed) \/ Ends("approval", Consumed) BY <1>2, <2>5 DEF Outcome
  <2> QED BY <2>1, <2>2, <2>3, <2>4, <2>5 DEF Plan
<1>4. PICK outcome \in Outcome : \E ck \in Checkpoint :
        Ends(outcome, ck) /\ (outcome = "ask" => ck.ask # None)
  BY <1>3
<1>5. PICK ck \in Checkpoint : Ends(outcome, ck) /\ (outcome = "ask" => ck.ask # None)
  BY <1>4
<1>6. /\ work' \in Work /\ work'.run = work.run /\ work'.stage = "gate"
      /\ work'.outcome = outcome /\ work'.ckpt = ck
  BY <1>1, <1>5 DEF Ends, Work, WorkStage
<1>7. TypeOK' /\ work' # None BY <1>1, <1>6, WorkerType
<1>8. TurnShape' /\ SourceShape' /\ IngressShape' /\ ModeShape' BY <1>1, <1>6, <1>7, WorkerFrame
<1>9. lastRun' = lastRun BY <1>1 DEF Quiet
<1>10. WorkerShape' BY <1>1, <1>5, <1>6, <1>9 DEF IInv, WorkerShape
<1>11. RecordShape' BY <1>1, <1>6, <1>7, <1>9 DEF IInv, RecordShape, Working, RunStage
<1> QED BY <1>7, <1>8, <1>10, <1>11 DEF IInv

(* A result goes on to the stage its outcome names, and to no other.        *)
LEMMA GateKeeps == IInv /\ Gate => IInv' /\ work' # None
<1> SUFFICES ASSUME IInv, Gate PROVE IInv' /\ work' # None OBVIOUS
<1>1. work # None /\ work.stage = "gate" /\ UNCHANGED run /\ Quiet BY DEF Gate, Working
<1>2. run # None => run.effect = None BY <1>1, NothingAnnounced
<1>3. PICK stage \in {"commit", "fail", "settle"} :
        At(stage) /\ (stage = "commit" => work.outcome \in {"final", "ask"})
  BY DEF Gate
<1> QED BY <1>1, <1>2, <1>3, WorkerMoves DEF WorkStage, RunStage

(* Showing the message of a result moves its worker on and no record.       *)
LEMMA SurfaceKeeps == IInv /\ Surface => IInv' /\ work' # None
<1> SUFFICES ASSUME IInv, Surface PROVE IInv' /\ work' # None OBVIOUS
<1>1. work # None /\ work.stage = "surface" /\ At("exit") /\ UNCHANGED run /\ Quiet
  BY DEF Surface, Working
<1>2. run # None => run.effect = None /\ run.status # "running"
  BY <1>1, NothingAnnounced DEF IInv, RecordShape, RunStage
<1> QED BY <1>1, <1>2, WorkerMoves DEF WorkStage, RunStage

(* The draft of a commit is the running record with its effect.             *)
LEMMA DraftFields ==
  ASSUME IInv, work # None, work.stage = "commit", run # None
  PROVE Draft \in Run /\ Same(run, Draft) /\ Draft.status = run.status /\ Draft.effect # None
<1>1. work \in Work /\ run \in Run BY DEF IInv, TypeOK
<1>2. work.inRev \in Nat /\ work.ckpt \in Checkpoint BY <1>1 DEF Work
<1>3. CASE work.outcome = "final"
  <2>1. Draft = PreparedFinal(run, work.inRev, work.ckpt) BY <1>3 DEF Draft
  <2> QED BY <1>1, <1>2, <2>1, FinalFields
<1>4. CASE work.outcome # "final"
  <2>1. Draft = PreparedQuestion(run, work.inRev, work.ckpt) BY <1>4 DEF Draft
  <2>2. work.ckpt.ask \in Prompts BY <1>2, <1>4 DEF IInv, WorkerShape, Checkpoint
  <2> QED BY <1>1, <1>2, <2>1, <2>2, QuestionFields
<1> QED BY <1>3, <1>4

(* A stored result puts its worker at the barrier, a refused one does not.  *)
LEMMA CommitKeeps == IInv /\ Commit => IInv' /\ work' # None
<1> SUFFICES ASSUME IInv, Commit PROVE IInv' /\ work' # None OBVIOUS
<1>1. work # None /\ work \in Work /\ work.stage = "commit" /\ Quiet
  BY DEF Commit, Working, IInv, TypeOK
<1>2. run # None => run.effect = None BY <1>1, NothingAnnounced
<1>3. CASE Is(work.run) /\ Fresh(run, work.inRev) /\ Storable(Draft, FALSE)
  <2>1. Put(Draft) /\ At("barrier") BY <1>3 DEF Commit
  <2>2. run # None /\ run.status = "running" /\ ~Terminal(run)
    BY <1>3 DEF Is, Fresh, Terminal, TerminalStatus
  <2>3. Draft \in Run /\ Same(run, Draft) /\ Draft.status = "running" /\ Draft.effect # None
    BY <1>1, <2>2, DraftFields
  <2>4. work' \in Work /\ work'.run = work.run /\ work'.stage = "barrier"
    BY <1>1, <2>1 DEF At, Work, WorkStage
  <2> QED BY <1>1, <1>3, <2>1, <2>2, <2>3, <2>4, WorkerPuts DEF RunStage
<1>4. CASE ~(Is(work.run) /\ Fresh(run, work.inRev) /\ Storable(Draft, FALSE))
  <2>1. PICK stage \in {"stale", "fail"} : At(stage) /\ UNCHANGED run BY <1>4 DEF Commit
  <2> QED BY <1>1, <1>2, <2>1, WorkerMoves DEF WorkStage, RunStage
<1> QED BY <1>3, <1>4

(* A delivered result leaves a record that is over or waits for an answer.  *)
LEMMA DeliverKeeps == IInv /\ Deliver => IInv' /\ work' # None
<1> SUFFICES ASSUME IInv, Deliver PROVE IInv' /\ work' # None OBVIOUS
<1>1. work # None /\ work \in Work /\ work.stage = "barrier" /\ Quiet
  BY DEF Deliver, Working, IInv, TypeOK
<1>2. CASE ~Is(work.run)
  <2>1. run = None BY <1>1, <1>2 DEF IInv, WorkerShape, Is
  <2>2. At("fail") /\ UNCHANGED run BY <1>2 DEF Deliver
  <2> QED BY <1>1, <2>1, <2>2, WorkerMoves DEF WorkStage, RunStage
<1>3. CASE Is(work.run)
  <2>1. run # None /\ run \in Run /\ run.effect # None /\ ~Terminal(run)
    BY <1>1, <1>3 DEF IInv, WorkerShape, TypeOK, Is, Terminal, TerminalStatus
  <2>2. PICK n \in {CommittedFinal(run), CommittedQuestion(run), UnknownDelivery(run)} :
          Put(n) /\ (At("surface") \/ At("fail"))
    BY <1>3 DEF Deliver
  <2>3. n \in Run /\ Same(run, n) /\ n.status # "running" /\ n.effect = None
    BY <2>1, EffectFields
  <2>4. work' \in Work /\ work'.run = work.run /\ work'.stage \in {"surface", "fail"}
    BY <1>1, <2>2 DEF At, Work, WorkStage
  <2> QED BY <1>1, <1>3, <2>1, <2>2, <2>3, <2>4, WorkerPuts
<1> QED BY <1>2, <1>3

(* A further pass, or the end of them, within the bound on passes.          *)
LEMMA NextPassType ==
  ASSUME work \in Work, NextPass
  PROVE work' \in Work /\ work'.run = work.run /\ work'.stage \in {"begin", "fail"}
<1>1. work.pass \in 0 .. MaxPasses - 1 BY DEF Work
<1>2. CASE work.pass + 1 < MaxPasses
  <2>1. work' = [work EXCEPT !.stage = "begin", !.pass = work.pass + 1] BY <1>2 DEF NextPass
  <2>2. work.pass + 1 \in 0 .. MaxPasses - 1 BY <1>1, <1>2, LaneAssumption
  <2> QED BY <2>1, <2>2 DEF Work, WorkStage
<1>3. CASE ~(work.pass + 1 < MaxPasses) BY <1>3 DEF NextPass, At, Work, WorkStage
<1> QED BY <1>2, <1>3

(* A stale worker plans again on a record that is still running.            *)
LEMMA RequeueKeeps == IInv /\ Requeue => IInv' /\ work' # None
<1> SUFFICES ASSUME IInv, Requeue PROVE IInv' /\ work' # None OBVIOUS
<1>1. work # None /\ work \in Work /\ work.stage = "stale" /\ Quiet
  BY DEF Requeue, Working, IInv, TypeOK
<1>2. run # None => run.effect = None BY <1>1, NothingAnnounced
<1> DEFINE n == Requeued(run, work.inRev, work.ckpt)
<1>3. CASE Is(work.run) /\ Live(run) /\ Storable(n, FALSE)
  <2>1. Put(n) /\ (NextPass \/ At("fail")) BY <1>3 DEF Requeue
  <2>2. run # None /\ run \in Run /\ ~Terminal(run) BY <1>3 DEF Is, Live, IInv, TypeOK
  <2>3. work.inRev \in Nat /\ work.ckpt \in Checkpoint BY <1>1 DEF Work
  <2>4. n \in Run /\ Same(run, n) /\ n.status # "running" /\ n.effect = None
    BY <1>2, <2>2, <2>3, RequeuedFields
  <2> HIDE DEF n
  <2>5. work' \in Work /\ work'.run = work.run /\ work'.stage \in {"begin", "fail"}
    BY <1>1, <2>1, NextPassType DEF At, Work, WorkStage
  <2> QED BY <1>1, <1>3, <2>1, <2>2, <2>4, <2>5, WorkerPuts
<1>4. CASE ~(Is(work.run) /\ Live(run) /\ Storable(n, FALSE))
  <2>1. At("fail") /\ UNCHANGED run BY <1>4 DEF Requeue
  <2> QED BY <1>1, <1>2, <2>1, WorkerMoves DEF WorkStage, RunStage
<1> QED BY <1>3, <1>4

(* A stopped or cancelled pass closes the record it worked on, or leaves it.*)
LEMMA SettleKeeps == IInv /\ Settle => IInv' /\ work' # None
<1> SUFFICES ASSUME IInv, Settle PROVE IInv' /\ work' # None OBVIOUS
<1>1. work # None /\ work \in Work /\ work.stage = "settle" /\ Quiet
  BY DEF Settle, Working, IInv, TypeOK
<1>2. run # None => run.effect = None BY <1>1, NothingAnnounced
<1> DEFINE pause == work.outcome = "cancelled" \/ (mode = "stopping" /\ work.aborted)
           n == Settled(run, work.inRev, work.ckpt, pause)
<1>3. CASE UNCHANGED run /\ At("fail") BY <1>1, <1>2, <1>3, WorkerMoves DEF WorkStage, RunStage
<1>4. CASE Is(work.run) /\ Terminal(run) /\ UNCHANGED run /\ At("exit")
  <2>1. run # None => run.status # "running" BY <1>4 DEF Terminal, TerminalStatus
  <2> QED BY <1>1, <1>2, <1>4, <2>1, WorkerMoves DEF WorkStage, RunStage
<1>5. CASE Is(work.run) /\ ~Terminal(run) /\ Put(n) /\ (NextPass \/ At("exit"))
  <2>1. run # None /\ run \in Run BY <1>5 DEF Is, IInv, TypeOK
  <2>2. work.inRev \in Nat /\ work.ckpt \in Checkpoint /\ pause \in BOOLEAN BY <1>1 DEF Work
  <2> HIDE DEF pause
  <2>3. n \in Run /\ Same(run, n) /\ n.status # "running" /\ n.effect = None
    BY <1>2, <2>1, <2>2, SettledFields
  <2> HIDE DEF n
  <2>4. work' \in Work /\ work'.run = work.run /\ work'.stage \in {"begin", "fail", "exit"}
    BY <1>1, <1>5, NextPassType DEF At, Work, WorkStage
  <2> QED BY <1>1, <1>5, <2>1, <2>3, <2>4, WorkerPuts
<1> QED BY <1>3, <1>4, <1>5 DEF Settle

(* A failing worker closes its own record and no other.                     *)
LEMMA FailKeeps == IInv /\ Fail => IInv' /\ work' # None
<1> SUFFICES ASSUME IInv, Fail PROVE IInv' /\ work' # None OBVIOUS
<1>1. work # None /\ work \in Work /\ work.stage = "fail" /\ Quiet /\ At("exit")
  BY DEF Fail, Working, IInv, TypeOK
<1>2. run # None => run.effect = None BY <1>1, NothingAnnounced
<1>3. CASE Is(work.run) /\ Live(run)
  <2>1. run # None /\ run \in Run /\ ~Terminal(run) BY <1>3 DEF Is, Live, IInv, TypeOK
  <2>2. Put(FailedRun(run)) BY <1>3 DEF Fail
  <2>3. FailedRun(run) \in Run /\ Same(run, FailedRun(run)) /\ FailedRun(run).effect = None
        /\ FailedRun(run).status # "running"
    BY <2>1, FailedFields DEF Terminal, TerminalStatus
  <2>4. work' \in Work /\ work'.run = work.run /\ work'.stage = "exit"
    BY <1>1 DEF At, Work, WorkStage
  <2> QED BY <1>1, <1>3, <2>1, <2>2, <2>3, <2>4, WorkerPuts
<1>4. CASE ~(Is(work.run) /\ Live(run))
  <2>1. UNCHANGED run BY <1>4 DEF Fail
  <2>2. run # None => run.status # "running"
    BY <1>4 DEF IInv, RecordShape, Is, Live, Terminal, TerminalStatus
  <2> QED BY <1>1, <1>2, <2>1, <2>2, WorkerMoves DEF WorkStage, RunStage
<1> QED BY <1>3, <1>4

(* A worker that leaves hands its run over to the reload, unless stopping.  *)
LEMMA LeaveKeeps == IInv /\ Leave => IInv'
<1> SUFFICES ASSUME IInv, Leave PROVE IInv' OBVIOUS
<1>1. work # None /\ work \in Work /\ work.stage = "exit" /\ work' = None /\ UNCHANGED run
  BY DEF Leave, Working, IInv, TypeOK
<1>2. /\ turn' = turn /\ admission' = admission /\ reserved' = reserved /\ inbox' = inbox
      /\ lastRun' = lastRun /\ mode' = mode /\ wakeups' \subseteq wakeups \cup {work.run}
  BY DEF Leave, lane
<1>3. work.run \in 1 .. lastRun /\ work.run \in Nat BY <1>1 DEF IInv, WorkerShape, Work
<1>4. TypeOK' BY <1>1, <1>2, <1>3 DEF IInv, TypeOK
<1>5. run # None => run.effect = None /\ run.status # "running"
  BY <1>1, NothingAnnounced DEF IInv, RecordShape, RunStage
<1>6. WorkerShape' /\ RecordShape' BY <1>1, <1>2, <1>5 DEF IInv, WorkerShape, RecordShape
<1>7. TurnShape' BY <1>1, <1>2 DEF IInv, TurnShape, Is, WorkGone, Terminal
<1>8. SourceShape' BY <1>1, <1>2 DEF IInv, SourceShape, Unposted
<1>9. IngressShape' /\ ModeShape' BY <1>1, <1>2, <1>3 DEF IInv, IngressShape, ModeShape
<1> QED BY <1>4, <1>6, <1>7, <1>8, <1>9 DEF IInv

-----------------------------------------------------------------------------
(* Admission of quoted replies, and the ends of a turn. *)

(* The record and its worker as they were.                                  *)
LEMMA WorkStays ==
  ASSUME IInv, UNCHANGED <<run, work, lastRun>>
  PROVE WorkerShape' /\ RecordShape'
  BY DEF IInv, WorkerShape, RecordShape, Is, Working

(* The record has been looked at: it is the same, or its question expired.  *)
Looked ==
  \/ UNCHANGED run
  \/ /\ run # None /\ run' # None /\ run' \in Run /\ Same(run, run')
     /\ run.status = "waiting_input" /\ run'.status = "failed" /\ run'.effect = None

(* activeRunForIngress closes at most the record it reads. *)
LEMMA ReadLooks == IInv /\ ReadRun => Looked
<1> SUFFICES ASSUME IInv, ReadRun, run' # run PROVE Looked BY DEF Looked
<1>1. run # None /\ run.status = "waiting_input" /\ Put(Closed(run, "failed"))
  BY DEF ReadRun
<1>2. run \in Run /\ "failed" \in TerminalStatus BY <1>1 DEF IInv, TypeOK, TerminalStatus
<1>3. run.effect = None BY <1>1, NothingAnnounced DEF ReadRun, QueueFree, Working
<1> DEFINE n == Closed(run, "failed")
<1>4. n \in Run /\ Same(run, n) /\ n.status = "failed" /\ n.effect = None
  BY <1>2, <1>3, ClosedFields
<1>5. Put(n) BY <1>1
<1> HIDE DEF n
<1> QED BY <1>1, <1>4, <1>5, PutType DEF Looked, Same

(* Looking at the record disturbs neither it nor the worker. *)
LEMMA LookKeeps ==
  ASSUME IInv, Looked, UNCHANGED <<work, lastRun>>
  PROVE /\ WorkerShape' /\ RecordShape' /\ run' \in Run \cup {None}
        /\ \A id : Is(id) => run' # None /\ run'.id = id
        /\ run = None <=> run' = None
        /\ run # None => SourcesOf(run'.mailbox) = SourcesOf(run.mailbox)
        /\ run # None /\ Terminal(run) => Terminal(run')
<1>1. CASE UNCHANGED run BY <1>1, WorkStays DEF IInv, TypeOK, Is
<1>2. CASE ~UNCHANGED run
  <2>1. /\ run # None /\ run' # None /\ run' \in Run /\ run'.id = run.id /\ run'.mailbox = run.mailbox
        /\ run.status = "waiting_input" /\ run'.status = "failed" /\ run'.effect = None
    BY <1>2 DEF Looked, Same
  <2>2. WorkerShape' BY <2>1 DEF IInv, WorkerShape, Is
  <2>3. RecordShape' BY <2>1 DEF IInv, RecordShape
  <2> QED BY <2>1, <2>2, <2>3 DEF Is, Terminal, TerminalStatus
<1> QED BY <1>1, <1>2

(* A quote that is admitted reserves nothing yet.                           *)
LEMMA AdmitKeeps == IInv /\ Admit => IInv'
<1> SUFFICES ASSUME IInv, Admit PROVE IInv' OBVIOUS
<1>1. /\ run' = run /\ work' = work /\ wakeups' = wakeups /\ turn' = turn /\ reserved' = reserved
      /\ lastRun' = lastRun /\ mode' = mode /\ mode = "up" /\ admission.stage = "idle"
  BY DEF Admit
<1>2. PICK s \in inbox : admission' = [stage |-> "expiring", run |-> 0, src |-> s] /\ inbox' = inbox \ {s}
  BY DEF Admit
<1>3. s \in Sources BY DEF IInv, TypeOK
<1>4. TypeOK' BY <1>1, <1>2, <1>3 DEF IInv, TypeOK, Admission
<1>5. WorkerShape' /\ RecordShape' BY <1>1, WorkStays
<1>6. TurnShape' BY <1>1 DEF IInv, TurnShape, Is, WorkGone, Terminal
<1>7. SourceShape' BY <1>1, <1>2, <1>3 DEF IInv, SourceShape, Unposted
<1>8. IngressShape' /\ ModeShape' BY <1>1, <1>2 DEF IInv, IngressShape, ModeShape
<1> QED BY <1>4, <1>5, <1>6, <1>7, <1>8 DEF IInv

(* The barrier holds the run a reply quotes, or lets the reply go.          *)
LEMMA HoldKeeps ==
  ASSUME IInv, admission.stage \in {"expiring", "loading"}, NEW r \in Run, Hold(r)
  PROVE /\ admission' \in Admission /\ reserved' \subseteq Nat
        /\ \/ admission' = NoAdmission /\ reserved' = reserved
           \/ /\ admission'.stage = "queued" /\ admission'.src = admission.src
              /\ admission'.run \in reserved'
<1>1. admission \in Admission /\ reserved \subseteq Nat /\ r.id \in Nat BY DEF IInv, TypeOK, Run
<1>2. CASE r.anchored
  <2>1. /\ admission' = [admission EXCEPT !.stage = "queued", !.run = r.id]
        /\ reserved' = reserved \cup {r.id}
    BY <1>2 DEF Hold
  <2> QED BY <1>1, <2>1 DEF Admission
<1>3. CASE ~r.anchored
  <2>1. admission' = NoAdmission /\ reserved' = reserved BY <1>3 DEF Hold
  <2> QED BY <1>1, <2>1 DEF Admission, NoAdmission
<1> QED BY <1>2, <1>3

(* What an admission in progress may become beside the handler.             *)
LEMMA AdmissionSteps ==
  ASSUME IInv, admission.stage \in {"expiring", "loading"}, Looked,
         UNCHANGED <<work, wakeups, turn, inbox, lastRun, mode>>,
         admission' \in Admission, reserved' \subseteq Nat,
         \/ admission' = NoAdmission /\ reserved' = reserved
         \/ /\ admission'.stage = "loading" /\ admission'.src = admission.src
            /\ reserved' = reserved
         \/ /\ admission'.stage = "queued" /\ admission'.src = admission.src
            /\ admission'.run \in reserved'
  PROVE IInv'
<1>1. /\ WorkerShape' /\ RecordShape' /\ run' \in Run \cup {None}
      /\ \A id : Is(id) => run' # None /\ run'.id = id
      /\ run = None <=> run' = None
      /\ run # None => SourcesOf(run'.mailbox) = SourcesOf(run.mailbox)
      /\ run # None /\ Terminal(run) => Terminal(run')
  BY LookKeeps
<1>2. TypeOK' BY <1>1 DEF IInv, TypeOK
<1>3. TurnShape' BY <1>1 DEF IInv, TurnShape, Is, WorkGone, Holding
<1>4. SourceShape' BY <1>1, NoneAssumption DEF IInv, TypeOK, SourceShape, Unposted, NoAdmission
<1>5. IngressShape' /\ ModeShape' BY DEF IInv, IngressShape, ModeShape, NoAdmission
<1> QED BY <1>1, <1>2, <1>3, <1>4, <1>5 DEF IInv

(* A quoted question that expires is reserved under its own run.            *)
LEMMA AdmitReadsKeeps == IInv /\ AdmitReads => IInv'
<1> SUFFICES ASSUME IInv, AdmitReads PROVE IInv' OBVIOUS
<1>1. /\ admission.stage = "expiring" /\ Looked
      /\ UNCHANGED <<work, wakeups, turn, inbox, lastRun, mode>>
  BY ReadLooks DEF AdmitReads
<1>2. CASE run' # run
  <2>1. run' \in Run /\ Hold(run') BY <1>1, <1>2 DEF Looked, AdmitReads
  <2>2. /\ admission' \in Admission /\ reserved' \subseteq Nat
        /\ \/ admission' = NoAdmission /\ reserved' = reserved
           \/ /\ admission'.stage = "queued" /\ admission'.src = admission.src
              /\ admission'.run \in reserved'
    BY <1>1, <2>1, HoldKeeps
  <2> QED BY <1>1, <2>2, AdmissionSteps
<1>3. CASE run' = run
  <2>1. admission' = [admission EXCEPT !.stage = "loading"] /\ reserved' = reserved
    BY <1>3 DEF AdmitReads
  <2>2. admission' \in Admission /\ admission'.stage = "loading" /\ admission'.src = admission.src
        /\ reserved' \subseteq Nat
    BY <2>1 DEF IInv, TypeOK, Admission
  <2> QED BY <1>1, <2>1, <2>2, AdmissionSteps
<1> QED BY <1>2, <1>3

(* A reservation is made for the run the quote was found to mean.           *)
LEMMA ReserveKeeps == IInv /\ Reserve => IInv'
<1> SUFFICES ASSUME IInv, Reserve PROVE IInv' OBVIOUS
<1>1. /\ admission.stage = "loading" /\ Looked
      /\ UNCHANGED <<work, wakeups, turn, inbox, lastRun, mode>>
  BY DEF Reserve, Looked
<1>2. CASE Live(run)
  <2>1. run \in Run /\ Hold(run) BY <1>2 DEF Live, Reserve, IInv, TypeOK
  <2>2. /\ admission' \in Admission /\ reserved' \subseteq Nat
        /\ \/ admission' = NoAdmission /\ reserved' = reserved
           \/ /\ admission'.stage = "queued" /\ admission'.src = admission.src
              /\ admission'.run \in reserved'
    BY <1>1, <2>1, HoldKeeps
  <2> QED BY <1>1, <2>2, AdmissionSteps
<1>3. CASE ~Live(run)
  <2>1. admission' = NoAdmission /\ reserved' = reserved BY <1>3 DEF Reserve
  <2>2. admission' \in Admission /\ reserved' \subseteq Nat
    BY <2>1 DEF NoAdmission, Admission, IInv, TypeOK
  <2> QED BY <1>1, <2>1, <2>2, AdmissionSteps
<1> QED BY <1>2, <1>3

(* A bound turn holds the message and the reservation it came with.         *)
LEMMA BoundTurnKeeps == IInv /\ BoundTurn => IInv'
<1> SUFFICES ASSUME IInv, BoundTurn PROVE IInv' OBVIOUS
<1>1. /\ run' = run /\ work' = work /\ wakeups' = wakeups /\ reserved' = reserved
      /\ inbox' = inbox /\ lastRun' = lastRun /\ mode' = mode
      /\ admission.stage = "queued" /\ turn.stage = "idle"
  BY DEF BoundTurn
<1>2. /\ admission \in Admission /\ turn \in Turn /\ admission.src \in Sources
      /\ turn' = [NoTurn EXCEPT !.stage = "control", !.bound = TRUE, !.src = admission.src]
      /\ admission' = [admission EXCEPT !.stage = "handled"]
  BY <1>1 DEF BoundTurn, IInv, TypeOK, SourceShape
<1>3. /\ turn' \in Turn /\ turn'.stage = "control" /\ turn'.bound /\ turn'.src = admission.src
      /\ turn'.kind = "constraint"
  BY <1>2 DEF NoTurn, Turn, TurnStage, Kind
<1>4. /\ admission' \in Admission /\ admission'.stage = "handled"
      /\ admission'.run = admission.run /\ admission'.src = admission.src
  BY <1>2 DEF Admission
<1>5. TypeOK' BY <1>1, <1>3, <1>4 DEF IInv, TypeOK
<1>6. WorkerShape' /\ RecordShape' BY <1>1, WorkStays
<1>7. TurnShape' BY <1>2, <1>3 DEF TurnShape, Holding, Unlaunched
<1>8. SourceShape' BY <1>1, <1>2, <1>3, <1>4 DEF IInv, SourceShape, Unposted
<1>9. IngressShape' /\ ModeShape' BY <1>1, <1>3, <1>4 DEF IInv, IngressShape, ModeShape
<1> QED BY <1>5, <1>6, <1>7, <1>8, <1>9 DEF IInv

(* A turn that starts holds a message and no run.                           *)
LEMMA StartTurnKeeps == IInv /\ StartTurn => IInv'
<1> SUFFICES ASSUME IInv, StartTurn PROVE IInv' OBVIOUS
<1>1. /\ run' = run /\ work' = work /\ wakeups' = wakeups /\ reserved' = reserved
      /\ admission' = admission /\ lastRun' = lastRun /\ mode' = mode
      /\ mode = "up" /\ turn.stage = "idle"
  BY DEF StartTurn
<1>2. PICK s \in inbox, stage \in {"control", "discard"} :
        turn' = [NoTurn EXCEPT !.stage = stage, !.src = s] /\ inbox' = inbox \ {s}
  BY DEF StartTurn
<1>3. s \in Sources BY DEF IInv, TypeOK
<1>4. /\ turn' \in Turn /\ turn'.stage = stage /\ ~turn'.bound /\ turn'.src = s
      /\ turn'.kind = "constraint"
  BY <1>2, <1>3 DEF NoTurn, Turn, TurnStage, Kind
<1>5. TypeOK' BY <1>1, <1>2, <1>4 DEF IInv, TypeOK
<1>6. WorkerShape' /\ RecordShape' BY <1>1, WorkStays
<1>7. TurnShape' BY <1>3, <1>4 DEF TurnShape, Holding, Unlaunched
<1>8. SourceShape' BY <1>1, <1>2, <1>3, <1>4 DEF IInv, SourceShape, Unposted
<1>9. IngressShape' /\ ModeShape' BY <1>1, <1>4 DEF IInv, IngressShape, ModeShape
<1> QED BY <1>5, <1>6, <1>7, <1>8, <1>9 DEF IInv

(* A turn that ends gives back its reservation with its message.            *)
LEMMA EndTurnKeeps == IInv /\ EndTurn => IInv'
<1> SUFFICES ASSUME IInv, EndTurn PROVE IInv' OBVIOUS
<1>1. /\ run' = run /\ work' = work /\ wakeups' = wakeups /\ inbox' = inbox
      /\ lastRun' = lastRun /\ mode' = mode /\ turn' = NoTurn /\ turn.stage = "done"
  BY DEF EndTurn
<1>2. IF turn.bound THEN reserved' = reserved \ {admission.run} /\ admission' = NoAdmission
                    ELSE reserved' = reserved /\ admission' = admission
  BY DEF EndTurn
<1>3. turn' \in Turn /\ turn'.stage = "idle" /\ turn'.src = None /\ ~turn'.bound
      /\ turn'.kind = "constraint"
  BY <1>1 DEF NoTurn, Turn, TurnStage, Kind
<1>4. NoAdmission \in Admission /\ NoAdmission.stage = "idle" /\ NoAdmission.src = None
  BY DEF NoAdmission, Admission
<1>5. TypeOK' BY <1>1, <1>2, <1>3, <1>4 DEF IInv, TypeOK
<1>6. WorkerShape' /\ RecordShape' BY <1>1, WorkStays
<1>7. TurnShape' BY <1>3 DEF TurnShape, Holding, Unlaunched
<1>8. SourceShape' BY <1>1, <1>2, <1>3, <1>4, NoneAssumption DEF IInv, SourceShape, Unposted, TypeOK
<1>9. IngressShape' /\ ModeShape' BY <1>1, <1>2, <1>3, <1>4 DEF IInv, IngressShape, ModeShape
<1> QED BY <1>5, <1>6, <1>7, <1>8, <1>9 DEF IInv

-----------------------------------------------------------------------------
(* Handlers on the owner's chain. *)

Unrouted == {"control", "cancel", "mailbox", "route", "discard", "withdraw"}

(* What every step of a handler but its last leaves in place. *)
LEMMA HandlerFrame ==
  ASSUME IInv, turn.stage # "idle", UNCHANGED <<wakeups, admission, reserved, inbox, mode>>,
         turn' \in Turn, turn'.bound = turn.bound, turn'.src = turn.src, turn'.stage # "idle",
         run' \in Run \cup {None}, work' \in Work \cup {None},
         lastRun' \in Nat, lastRun <= lastRun',
         WorkerShape', RecordShape', TurnShape',
         \A s : Unposted(s) /\ s # turn.src => Unposted(s)',
         turn'.stage \in Unrouted => turn.stage \in Unrouted /\ (Unposted(turn.src) => Unposted(turn.src)')
  PROVE IInv'
<1>1. TypeOK' BY DEF IInv, TypeOK
<1>2. SourceShape'
  <2>1. \A s \in inbox' : Unposted(s)' /\ s # turn'.src /\ s # admission'.src BY DEF IInv, SourceShape
  <2>2. turn'.stage \in Unrouted => Unposted(turn.src)' BY DEF IInv, SourceShape, Unrouted
  <2>3. admission'.stage \in {"expiring", "loading", "queued"} =>
          Unposted(admission.src)' /\ admission'.src # turn'.src
    BY DEF IInv, SourceShape
  <2>4. admission'.stage # "idle" => admission'.src \in Sources BY DEF IInv, SourceShape
  <2> QED BY <2>1, <2>2, <2>3, <2>4 DEF SourceShape, Unposted, Unrouted
<1>3. IngressShape' BY DEF IInv, IngressShape
<1>4. ModeShape'
  <2>1. mode \notin {"stopping", "down"} BY DEF IInv, ModeShape
  <2>2. wakeups \subseteq 1 .. lastRun' BY DEF IInv, TypeOK, ModeShape
  <2> QED BY <2>1, <2>2 DEF ModeShape
<1> QED BY <1>1, <1>2, <1>3, <1>4 DEF IInv

(* A handler moves on. *)
LEMMA ToType ==
  ASSUME turn \in Turn, NEW stage \in TurnStage, To(stage)
  PROVE /\ turn' \in Turn /\ turn'.stage = stage /\ turn'.bound = turn.bound /\ turn'.src = turn.src
        /\ turn'.run = turn.run /\ turn'.kind = turn.kind
  BY DEF To, Turn

(* A handler saves the record: it stops no worker but by aborting it.       *)
LEMMA HandlerPuts ==
  ASSUME IInv, QueueFree, run # None, NEW n \in Run, Put(n), n.id = run.id,
         n.effect \in {run.effect, None}, lastRun' = lastRun,
         \/ work' = work /\ (n.status = "running" <=> run.status = "running")
         \/ work' = Aborted(run.id) /\ n.status # "running"
         \/ work' = work /\ n.status # "running" /\ (work # None => work.run # run.id)
  PROVE /\ WorkerShape' /\ RecordShape' /\ work' \in Work \cup {None}
        /\ run' \in Run /\ run' # None /\ run'.id = run.id /\ run'.mailbox = n.mailbox
        /\ run'.status = n.status
<1>1. /\ run' \in Run /\ run' # None /\ run'.id = run.id /\ run'.mailbox = n.mailbox
      /\ run'.status = n.status /\ run'.effect = n.effect
  BY PutType DEF Same
<1>2. run'.effect = None BY <1>1, NothingAnnounced DEF QueueFree, Working
<1>3. work # None => work \in Work /\ work.stage # "barrier"
  BY DEF IInv, TypeOK, QueueFree, Working
<1>4. CASE /\ work' = work
           /\ \/ n.status = "running" <=> run.status = "running"
              \/ n.status # "running" /\ (work # None => work.run # run.id)
  <2>1. WorkerShape' BY <1>1, <1>3, <1>4 DEF IInv, WorkerShape, RecordShape, Is
  <2>2. RecordShape' BY <1>1, <1>2, <1>4 DEF IInv, RecordShape
  <2> QED BY <1>1, <1>3, <1>4, <2>1, <2>2
<1>5. CASE work' = Aborted(run.id) /\ n.status # "running" /\ work # None /\ work.run = run.id
  <2>1. work' = [work EXCEPT !.aborted = TRUE] BY <1>5 DEF Aborted
  <2>2. /\ work' \in Work /\ work'.stage = work.stage /\ work'.run = work.run /\ work'.aborted
        /\ work'.outcome = work.outcome /\ work'.ckpt = work.ckpt
    BY <1>3, <1>5, <2>1 DEF Work
  <2>3. WorkerShape' BY <1>1, <1>3, <1>5, <2>2 DEF IInv, WorkerShape
  <2>4. RecordShape' BY <1>1, <1>2, <1>5 DEF IInv, RecordShape
  <2> QED BY <1>1, <2>2, <2>3, <2>4
<1>6. CASE work' = Aborted(run.id) /\ ~(work # None /\ work.run = run.id)
  <2>1. work' = work BY <1>6 DEF Aborted
  <2>2. n.status = "running" <=> run.status = "running" BY <1>6 DEF IInv, RecordShape
  <2> QED BY <1>4, <2>1, <2>2
<1> QED BY <1>4, <1>5, <1>6

(* A message is posted to the record the handler has in hand.               *)
LEMMA Posts ==
  ASSUME IInv, turn.stage # "idle", NEW kind \in Kind, Is(turn.run), Routable(run, kind, turn.src, turn.question, FALSE),
         NEW n, n = Routed(run, kind, turn.src)
  PROVE /\ run # None /\ ~Terminal(run) /\ n \in Run /\ n.id = run.id /\ n.effect = run.effect
        /\ SourcesOf(n.mailbox) \subseteq SourcesOf(run.mailbox) \cup {turn.src}
        /\ kind = "cancel" => n.status = "cancelled"
        /\ kind = "answer" => n.status = "queued" /\ run.status = "waiting_input"
        /\ kind = "constraint" => n.status = IF run.status = "running" THEN "running" ELSE "queued"
<1>1. run # None /\ run \in Run /\ turn.src \in Sources BY DEF Is, IInv, TypeOK, TurnShape
<1>2. ~Terminal(run) BY DEF Routable
<1>3. kind = "answer" => run.question # None /\ run.status = "waiting_input"
  BY DEF Routable, AnswerBinds
<1> QED BY <1>1, <1>2, <1>3, RoutedFields

(* A cancel is recognised on a run that was live when it was read.          *)
LEMMA ControlKeeps == IInv /\ Control => IInv'
<1> SUFFICES ASSUME IInv, Control PROVE IInv' OBVIOUS
<1>1. /\ turn.stage = "control" /\ Looked /\ turn \in Turn /\ lastRun \in Nat
      /\ UNCHANGED <<work, wakeups, admission, reserved, inbox, lastRun, mode>>
  BY ReadLooks DEF Control, IInv, TypeOK
<1>2. /\ WorkerShape' /\ RecordShape' /\ run' \in Run \cup {None}
      /\ run = None <=> run' = None
      /\ run # None => SourcesOf(run'.mailbox) = SourcesOf(run.mailbox)
  BY <1>1, LookKeeps
<1>3. /\ turn' \in Turn /\ turn'.bound = turn.bound /\ turn'.src = turn.src /\ turn'.kind = turn.kind
      /\ \/ turn'.stage = "cancel" /\ run' # None /\ turn'.run = run'.id
         \/ turn'.stage \in {"done", "mailbox"}
  <2>1. CASE Live(run') /\ turn' = [turn EXCEPT !.stage = "cancel", !.run = run'.id]
    BY <1>1, <1>2, <2>1 DEF Live, Turn, TurnStage, Run
  <2>2. CASE To("done") BY <1>1, <2>2, ToType DEF TurnStage
  <2>3. CASE To("mailbox") BY <1>1, <2>3, ToType DEF TurnStage
  <2> QED BY <2>1, <2>2, <2>3 DEF Control
<1>4. TurnShape' BY <1>1, <1>3 DEF IInv, TurnShape, Holding, Unlaunched, Is
<1>5. \A s : Unposted(s) => Unposted(s)' BY <1>2 DEF Unposted
<1>6. work' \in Work \cup {None} BY <1>1 DEF IInv, TypeOK
<1> QED BY <1>1, <1>2, <1>3, <1>4, <1>5, <1>6, HandlerFrame DEF Unrouted

(* A stored cancel closes the record and stops the worker of that run.      *)
LEMMA CancellingKeeps == IInv /\ Cancelling => IInv'
<1> SUFFICES ASSUME IInv, Cancelling PROVE IInv' OBVIOUS
<1>1. /\ turn.stage = "cancel" /\ QueueFree /\ turn \in Turn /\ lastRun \in Nat
      /\ UNCHANGED <<wakeups, admission, reserved, inbox, lastRun, mode>>
  BY DEF Cancelling, IInv, TypeOK
<1>2. CASE Is(turn.run) /\ Routable(run, "cancel", turn.src, 0, FALSE)
  <2> DEFINE n == Routed(run, "cancel", turn.src)
  <2>1. Put(n) /\ work' = Aborted(turn.run) /\ To("done") BY <1>2 DEF Cancelling
  <2>2. Routable(run, "cancel", turn.src, turn.question, FALSE) BY <1>2 DEF Routable
  <2>3. /\ run # None /\ n \in Run /\ n.id = run.id /\ n.effect = run.effect
        /\ SourcesOf(n.mailbox) \subseteq SourcesOf(run.mailbox) \cup {turn.src}
        /\ n.status = "cancelled"
    BY <1>1, <1>2, <2>2, Posts DEF Kind
  <2> HIDE DEF n
  <2>4. turn.run = run.id BY <1>2 DEF Is
  <2>5. /\ WorkerShape' /\ RecordShape' /\ work' \in Work \cup {None}
        /\ run' \in Run /\ run' # None /\ run'.mailbox = n.mailbox
    BY <1>1, <2>1, <2>3, <2>4, HandlerPuts
  <2>6. /\ turn' \in Turn /\ turn'.stage = "done" /\ turn'.bound = turn.bound
        /\ turn'.src = turn.src /\ turn'.kind = turn.kind
    BY <1>1, <2>1, ToType DEF TurnStage
  <2>7. TurnShape' BY <1>1, <2>6 DEF IInv, TurnShape, Holding, Unlaunched
  <2>8. \A s : Unposted(s) /\ s # turn.src => Unposted(s)' BY <2>3, <2>5 DEF Unposted
  <2> QED BY <1>1, <2>5, <2>6, <2>7, <2>8, HandlerFrame DEF Unrouted
<1>3. CASE ~(Is(turn.run) /\ Routable(run, "cancel", turn.src, 0, FALSE))
  <2>1. UNCHANGED <<run, work>> /\ To("mailbox") BY <1>3 DEF Cancelling
  <2>2. /\ turn' \in Turn /\ turn'.stage = "mailbox" /\ turn'.bound = turn.bound
        /\ turn'.src = turn.src /\ turn'.kind = turn.kind
    BY <1>1, <2>1, ToType DEF TurnStage
  <2>3. WorkerShape' /\ RecordShape' BY <1>1, <2>1, WorkStays
  <2>4. TurnShape' BY <1>1, <2>2 DEF IInv, TurnShape, Holding, Unlaunched
  <2>5. \A s : Unposted(s) => Unposted(s)' BY <2>1 DEF Unposted
  <2>6. work' \in Work \cup {None} /\ run' \in Run \cup {None} BY <2>1 DEF IInv, TypeOK
  <2> QED BY <1>1, <2>2, <2>3, <2>4, <2>5, <2>6, HandlerFrame DEF Unrouted
<1> QED BY <1>2, <1>3

(* A message is routed to a run that was live when it was read.             *)
LEMMA MailboxKeeps == IInv /\ Mailbox => IInv'
<1> SUFFICES ASSUME IInv, Mailbox PROVE IInv' OBVIOUS
<1>1. /\ turn.stage = "mailbox" /\ Looked /\ turn \in Turn /\ lastRun \in Nat
      /\ UNCHANGED <<work, wakeups, admission, reserved, inbox, lastRun, mode>>
  BY ReadLooks DEF Mailbox, IInv, TypeOK
<1>2. /\ WorkerShape' /\ RecordShape' /\ run' \in Run \cup {None}
      /\ run = None <=> run' = None
      /\ run # None => SourcesOf(run'.mailbox) = SourcesOf(run.mailbox)
  BY <1>1, LookKeeps
<1>3. /\ turn' \in Turn /\ turn'.bound = turn.bound /\ turn'.src = turn.src
      /\ turn'.kind # "cancel"
      /\ \/ turn'.stage = "route" /\ run' # None /\ turn'.run = run'.id
         \/ turn'.stage \in {"done", "discard", "start"}
  <2>0. turn.kind # "cancel" BY DEF IInv, TurnShape
  <2>1. CASE /\ Live(run')
             /\ \E kind \in {"constraint", "answer"} :
                  turn' = [turn EXCEPT !.stage = "route", !.run = run'.id, !.kind = kind,
                             !.question = IF run'.question = None THEN 0 ELSE run'.question.id]
    <3>1. PICK kind \in {"constraint", "answer"} :
            turn' = [turn EXCEPT !.stage = "route", !.run = run'.id, !.kind = kind,
                       !.question = IF run'.question = None THEN 0 ELSE run'.question.id]
      BY <2>1
    <3>2. run' # None /\ run' \in Run BY <1>2, <2>1 DEF Live
    <3> DEFINE q == IF run'.question = None THEN 0 ELSE run'.question.id
    <3>3. q \in Nat /\ run'.id \in Nat BY <3>2 DEF Run, Question
    <3> HIDE DEF q
    <3> QED BY <1>1, <3>1, <3>2, <3>3 DEF q, Turn, TurnStage, Kind
  <2>2. CASE To("done") BY <1>1, <2>0, <2>2, ToType DEF TurnStage
  <2>3. CASE To("discard") BY <1>1, <2>0, <2>3, ToType DEF TurnStage
  <2>4. CASE To("start") BY <1>1, <2>0, <2>4, ToType DEF TurnStage
  <2> QED BY <2>1, <2>2, <2>3, <2>4 DEF Mailbox
<1>4. TurnShape' BY <1>1, <1>3 DEF IInv, TurnShape, Holding, Unlaunched, Is
<1>5. \A s : Unposted(s) => Unposted(s)' BY <1>2 DEF Unposted
<1>6. work' \in Work \cup {None} BY <1>1 DEF IInv, TypeOK
<1> QED BY <1>1, <1>2, <1>3, <1>4, <1>5, <1>6, HandlerFrame DEF Unrouted

(* A routed message that leaves the run queued makes the turn wake it.      *)
LEMMA RouteKeeps == IInv /\ Route => IInv'
<1> SUFFICES ASSUME IInv, Route PROVE IInv' OBVIOUS
<1>1. /\ turn.stage = "route" /\ QueueFree /\ turn \in Turn /\ lastRun \in Nat
      /\ UNCHANGED <<work, wakeups, admission, reserved, inbox, lastRun, mode>>
  BY DEF Route, IInv, TypeOK
<1>2. CASE Is(turn.run) /\ Routable(run, turn.kind, turn.src, turn.question, FALSE)
  <2> DEFINE n == Routed(run, turn.kind, turn.src)
  <2>1. Put(n) /\ To(IF run'.status = "queued" THEN "wake" ELSE "done") BY <1>2 DEF Route
  <2>2. turn.kind \in {"constraint", "answer"} /\ turn.kind \in Kind
    BY <1>1 DEF IInv, TurnShape, Turn, Kind
  <2>3. /\ run # None /\ n \in Run /\ n.id = run.id /\ n.effect = run.effect
        /\ SourcesOf(n.mailbox) \subseteq SourcesOf(run.mailbox) \cup {turn.src}
        /\ n.status = "running" <=> run.status = "running"
    BY <1>1, <1>2, <2>2, Posts
  <2> HIDE DEF n
  <2>4. /\ WorkerShape' /\ RecordShape' /\ work' \in Work \cup {None}
        /\ run' \in Run /\ run' # None /\ run'.id = run.id /\ run'.mailbox = n.mailbox
    BY <1>1, <2>1, <2>3, HandlerPuts
  <2>5. PICK stage \in {"wake", "done"} : To(stage) BY <2>1
  <2>6. /\ turn' \in Turn /\ turn'.stage = stage /\ turn'.bound = turn.bound
        /\ turn'.src = turn.src /\ turn'.kind = turn.kind /\ turn'.run = turn.run
    BY <1>1, <2>5, ToType DEF TurnStage
  <2>7. TurnShape' BY <1>1, <1>2, <2>4, <2>6 DEF IInv, TurnShape, Holding, Unlaunched, Is
  <2>8. \A s : Unposted(s) /\ s # turn.src => Unposted(s)' BY <2>3, <2>4 DEF Unposted
  <2> QED BY <1>1, <2>4, <2>6, <2>7, <2>8, HandlerFrame DEF Unrouted
<1>3. CASE ~(Is(turn.run) /\ Routable(run, turn.kind, turn.src, turn.question, FALSE))
  <2>1. run' = run /\ To("done") BY <1>3 DEF Route
  <2>2. /\ turn' \in Turn /\ turn'.stage = "done" /\ turn'.bound = turn.bound
        /\ turn'.src = turn.src /\ turn'.kind = turn.kind
    BY <1>1, <2>1, ToType DEF TurnStage
  <2>3. WorkerShape' /\ RecordShape' BY <1>1, <2>1, WorkStays
  <2>4. TurnShape' BY <1>1, <2>2 DEF IInv, TurnShape, Holding, Unlaunched
  <2>5. \A s : Unposted(s) => Unposted(s)' BY <2>1 DEF Unposted
  <2>6. work' \in Work \cup {None} /\ run' \in Run \cup {None} BY <1>1, <2>1 DEF IInv, TypeOK
  <2> QED BY <1>1, <2>2, <2>3, <2>4, <2>5, <2>6, HandlerFrame DEF Unrouted
<1> QED BY <1>2, <1>3

(* A worker is launched where none is, and marks nothing before it begins.  *)
LEMMA LaunchKeeps ==
  ASSUME IInv, NEW id \in 1 .. lastRun, Launch(id), UNCHANGED <<run, lastRun>>
  PROVE /\ WorkerShape' /\ RecordShape' /\ work' \in Work \cup {None}
        /\ \/ work' = work
           \/ work = None /\ mode \notin {"stopping", "down"} /\ work' # None /\ work'.run = id
<1>1. CASE mode \in {"stopping", "down"} \/ work # None
  <2>1. work' = work BY <1>1 DEF Launch
  <2> QED BY <2>1, WorkStays DEF IInv, TypeOK
<1>2. CASE mode \notin {"stopping", "down"} /\ work = None
  <2> DEFINE ck == [seen |-> {}, ask |-> None]
  <2>1. work' = [run |-> id, stage |-> "begin", pass |-> 0, inRev |-> 0, ckpt |-> ck,
                 answer |-> None, outcome |-> "none", aborted |-> FALSE]
    BY <1>2 DEF Launch
  <2>2. ck \in Checkpoint BY DEF Checkpoint
  <2>3. id \in Nat /\ 0 \in 0 .. MaxPasses - 1 BY LaneAssumption DEF IInv, TypeOK
  <2> HIDE DEF ck
  <2>4. work' \in Work /\ work'.run = id /\ work'.stage = "begin"
    BY <2>1, <2>2, <2>3 DEF Work, WorkStage, Outcome
  <2>5. work' # None BY <2>4, NoWorkerIsNone
  <2>6. WorkerShape' BY <2>4 DEF WorkerShape
  <2>7. RecordShape' BY <1>2 DEF IInv, RecordShape, Working
  <2> QED BY <1>2, <2>4, <2>5, <2>6, <2>7
<1> QED BY <1>1, <1>2

(* The worker woken, if any, is one of the run the turn had routed to.      *)
LEMMA WakeWorkerKeeps == IInv /\ WakeWorker => IInv'
<1> SUFFICES ASSUME IInv, WakeWorker PROVE IInv' OBVIOUS
<1>1. /\ turn.stage = "wake" /\ turn \in Turn /\ lastRun \in Nat /\ To("done")
      /\ Launch(turn.run) \/ UNCHANGED work
      /\ run' = run /\ UNCHANGED <<wakeups, admission, reserved, inbox, lastRun, mode>>
  BY DEF WakeWorker, IInv, TypeOK
<1>2. turn.run \in 1 .. lastRun
  BY <1>1 DEF IInv, TurnShape, Holding, Is, RecordShape
<1>3. WorkerShape' /\ RecordShape' /\ work' \in Work \cup {None}
  BY <1>1, <1>2, LaunchKeeps, WorkStays DEF IInv, TypeOK
<1>4. /\ turn' \in Turn /\ turn'.stage = "done" /\ turn'.bound = turn.bound
      /\ turn'.src = turn.src /\ turn'.kind = turn.kind
  BY <1>1, ToType DEF TurnStage
<1>5. TurnShape' BY <1>1, <1>4 DEF IInv, TurnShape, Holding, Unlaunched
<1>6. \A s : Unposted(s) => Unposted(s)' BY <1>1 DEF Unposted
<1>7. run' \in Run \cup {None} BY <1>1 DEF IInv, TypeOK
<1> QED BY <1>1, <1>3, <1>4, <1>5, <1>6, <1>7, HandlerFrame DEF Unrouted

(* A run that starts replaces a finished record, never a live one.          *)
LEMMA StartKeeps == IInv /\ Start => IInv'
<1> SUFFICES ASSUME IInv, Start PROVE IInv' OBVIOUS
<1>1. /\ turn.stage = "start" /\ QueueFree /\ turn \in Turn /\ lastRun \in Nat
      /\ UNCHANGED <<work, wakeups, admission, reserved, inbox, mode>>
  BY DEF Start, IInv, TypeOK
<1>2. CASE Live(run)
  <2>1. run' = run /\ lastRun' = lastRun /\ To("done") BY <1>2 DEF Start
  <2>2. /\ turn' \in Turn /\ turn'.stage = "done" /\ turn'.bound = turn.bound
        /\ turn'.src = turn.src /\ turn'.kind = turn.kind
    BY <1>1, <2>1, ToType DEF TurnStage
  <2>3. WorkerShape' /\ RecordShape' BY <1>1, <2>1, WorkStays
  <2>4. TurnShape' BY <1>1, <2>2 DEF IInv, TurnShape, Holding, Unlaunched
  <2>5. \A s : Unposted(s) => Unposted(s)' BY <2>1 DEF Unposted
  <2>6. work' \in Work \cup {None} /\ run' \in Run \cup {None} BY <1>1, <2>1 DEF IInv, TypeOK
  <2> QED BY <1>1, <2>1, <2>2, <2>3, <2>4, <2>5, <2>6, HandlerFrame DEF Unrouted
<1>3. CASE ~Live(run)
  <2>1. /\ lastRun' = lastRun + 1 /\ Put(NewRun(lastRun'))
        /\ turn' = [turn EXCEPT !.stage = "anchor", !.run = lastRun']
    BY <1>3 DEF Start
  <2>2. lastRun' \in Nat BY <1>1, <2>1
  <2> DEFINE n == NewRun(lastRun')
  <2>3. n \in Run /\ n.id = lastRun' /\ n.mailbox = {} /\ n.status = "queued" /\ n.effect = None
    BY <2>2, NewRunType DEF NewRun
  <2>4. Put(n) BY <2>1
  <2> HIDE DEF n
  <2>5. /\ run' \in Run /\ run' # None /\ run'.id = lastRun' /\ run'.mailbox = {}
        /\ run'.status = "queued" /\ run'.effect = None
    BY <2>3, <2>4, PutType DEF Same
  <2>6. /\ turn' \in Turn /\ turn'.stage = "anchor" /\ turn'.bound = turn.bound
        /\ turn'.src = turn.src /\ turn'.kind = turn.kind /\ turn'.run = lastRun'
    BY <1>1, <2>1, <2>2 DEF Turn, TurnStage
  <2>7. work # None => work.run \in 1 .. lastRun /\ work.stage # "barrier"
    BY <1>1 DEF IInv, WorkerShape, QueueFree, Working
  <2>8. WorkerShape' BY <1>1, <2>1, <2>5, <2>7 DEF IInv, WorkerShape, Is
  <2>9. RecordShape' BY <1>1, <2>1, <2>5 DEF RecordShape
  <2>10. WorkGone(turn.run)' BY <1>1, <2>1, <2>6, <2>7 DEF IInv, ModeShape, WorkGone
  <2>11. TurnShape' BY <1>1, <2>5, <2>6, <2>10 DEF IInv, TurnShape, Holding, Unlaunched, Is
  <2>12. \A s : Unposted(s)' BY <2>5 DEF Unposted, SourcesOf
  <2>13. work' \in Work \cup {None} BY <1>1 DEF IInv, TypeOK
  <2> QED BY <1>1, <2>1, <2>2, <2>5, <2>6, <2>8, <2>9, <2>11, <2>12, <2>13, HandlerFrame DEF Unrouted
<1> QED BY <1>2, <1>3

(* The anchor is attached to the run the turn itself has started.           *)
LEMMA AnchorKeeps == IInv /\ Anchor => IInv'
<1> SUFFICES ASSUME IInv, Anchor PROVE IInv' OBVIOUS
<1>1. /\ turn.stage = "anchor" /\ turn \in Turn /\ lastRun \in Nat
      /\ UNCHANGED <<work, wakeups, admission, reserved, inbox, lastRun, mode>>
  BY DEF Anchor, IInv, TypeOK
<1>2. PICK stage \in {"unlaunched", "launch"} : To(stage) BY DEF Anchor
<1>3. /\ turn' \in Turn /\ turn'.stage = stage /\ turn'.bound = turn.bound
      /\ turn'.src = turn.src /\ turn'.kind = turn.kind /\ turn'.run = turn.run
  BY <1>1, <1>2, ToType DEF TurnStage
<1>4. run # None /\ run \in Run BY <1>1 DEF IInv, TypeOK, TurnShape, Holding, Unlaunched, Is
<1>5. /\ WorkerShape' /\ RecordShape' /\ run' \in Run /\ run' # None
      /\ run'.id = run.id /\ run'.mailbox = run.mailbox
  <2>1. CASE run' = run BY <1>1, <1>4, <2>1, WorkStays
  <2>2. CASE QueueFree /\ Put([run EXCEPT !.anchored = TRUE])
    <3> DEFINE n == [run EXCEPT !.anchored = TRUE]
    <3>1. n \in Run /\ n.id = run.id /\ n.mailbox = run.mailbox /\ n.effect = run.effect
          /\ n.status = run.status
      BY <1>4 DEF Run
    <3>2. Put(n) BY <2>2
    <3> HIDE DEF n
    <3> QED BY <1>1, <1>4, <2>2, <3>1, <3>2, HandlerPuts
  <2> QED BY <2>1, <2>2 DEF Anchor
<1>6. TurnShape'
  BY <1>1, <1>3, <1>5 DEF IInv, TurnShape, Holding, Unlaunched, Is, WorkGone
<1>7. \A s : Unposted(s) => Unposted(s)' BY <1>4, <1>5 DEF Unposted
<1>8. work' \in Work \cup {None} BY <1>1 DEF IInv, TypeOK
<1> QED BY <1>1, <1>3, <1>5, <1>6, <1>7, <1>8, HandlerFrame DEF Unrouted

(* The run of a turn is launched, or is left to be failed by that turn.     *)
LEMMA LaunchWorkKeeps == IInv /\ LaunchWork => IInv'
<1> SUFFICES ASSUME IInv, LaunchWork PROVE IInv' OBVIOUS
<1>1. /\ turn.stage = "launch" /\ turn \in Turn /\ lastRun \in Nat /\ run' = run
      /\ UNCHANGED <<wakeups, admission, reserved, inbox, lastRun, mode>>
  BY DEF LaunchWork, IInv, TypeOK
<1>2. Is(turn.run) /\ WorkGone(turn.run)
  BY <1>1 DEF IInv, TurnShape, Holding, Unlaunched
<1>3. turn.run \in 1 .. lastRun BY <1>2 DEF IInv, RecordShape, Is
<1>4. \A s : Unposted(s) => Unposted(s)' BY <1>1 DEF Unposted
<1>5. run' \in Run \cup {None} BY <1>1 DEF IInv, TypeOK
<1>6. CASE Launch(turn.run) /\ To("done")
  <2>1. WorkerShape' /\ RecordShape' /\ work' \in Work \cup {None}
    BY <1>1, <1>3, <1>6, LaunchKeeps
  <2>2. /\ turn' \in Turn /\ turn'.stage = "done" /\ turn'.bound = turn.bound
        /\ turn'.src = turn.src /\ turn'.kind = turn.kind
    BY <1>1, <1>6, ToType DEF TurnStage
  <2>3. TurnShape' BY <1>1, <2>2 DEF IInv, TurnShape, Holding, Unlaunched
  <2> QED BY <1>1, <1>4, <1>5, <2>1, <2>2, <2>3, HandlerFrame DEF Unrouted
<1>7. CASE To("unlaunched") /\ UNCHANGED work
  <2>1. WorkerShape' /\ RecordShape' BY <1>1, <1>7, WorkStays
  <2>2. /\ turn' \in Turn /\ turn'.stage = "unlaunched" /\ turn'.bound = turn.bound
        /\ turn'.src = turn.src /\ turn'.kind = turn.kind /\ turn'.run = turn.run
    BY <1>1, <1>7, ToType DEF TurnStage
  <2>3. TurnShape'
    BY <1>1, <1>2, <1>7, <2>2 DEF IInv, TurnShape, Holding, Unlaunched, Is, WorkGone
  <2>4. work' \in Work \cup {None} BY <1>7 DEF IInv, TypeOK
  <2> QED BY <1>1, <1>4, <1>5, <2>1, <2>2, <2>3, <2>4, HandlerFrame DEF Unrouted
<1> QED BY <1>6, <1>7 DEF LaunchWork

(* A turn that could not launch closes its own run.                         *)
LEMMA FailUnlaunchedKeeps == IInv /\ FailUnlaunched => IInv'
<1> SUFFICES ASSUME IInv, FailUnlaunched PROVE IInv' OBVIOUS
<1>1. /\ turn.stage = "unlaunched" /\ QueueFree /\ turn \in Turn /\ lastRun \in Nat /\ To("done")
      /\ UNCHANGED <<work, wakeups, admission, reserved, inbox, lastRun, mode>>
  BY DEF FailUnlaunched, IInv, TypeOK
<1>2. Is(turn.run) /\ WorkGone(turn.run)
  BY <1>1 DEF IInv, TurnShape, Holding, Unlaunched
<1>3. run # None /\ run \in Run /\ turn.run = run.id BY <1>2 DEF Is, IInv, TypeOK
<1>4. /\ WorkerShape' /\ RecordShape' /\ run' \in Run /\ run' # None /\ run'.mailbox = run.mailbox
  <2>1. CASE run' = run BY <1>1, <1>3, <2>1, WorkStays
  <2>2. CASE Put(FailedRun(run))
    <3> DEFINE n == FailedRun(run)
    <3>1. n \in Run /\ n.id = run.id /\ n.mailbox = run.mailbox /\ n.effect = None
          /\ n.status # "running"
      BY <1>3, FailedFields DEF Same, Terminal, TerminalStatus
    <3>2. Put(n) BY <2>2
    <3> HIDE DEF n
    <3>3. work # None => work.run # run.id BY <1>2, <1>3 DEF WorkGone
    <3> QED BY <1>1, <1>3, <3>1, <3>2, <3>3, HandlerPuts
  <2> QED BY <2>1, <2>2 DEF FailUnlaunched
<1>5. /\ turn' \in Turn /\ turn'.stage = "done" /\ turn'.bound = turn.bound
      /\ turn'.src = turn.src /\ turn'.kind = turn.kind
  BY <1>1, ToType DEF TurnStage
<1>6. TurnShape' BY <1>1, <1>5 DEF IInv, TurnShape, Holding, Unlaunched
<1>7. \A s : Unposted(s) => Unposted(s)' BY <1>3, <1>4 DEF Unposted
<1>8. work' \in Work \cup {None} BY <1>1 DEF IInv, TypeOK
<1> QED BY <1>1, <1>4, <1>5, <1>6, <1>7, <1>8, HandlerFrame DEF Unrouted

(* A memory change knows that what it is about to remove is closed.         *)
LEMMA DiscardReadsKeeps == IInv /\ DiscardReads => IInv'
<1> SUFFICES ASSUME IInv, DiscardReads PROVE IInv' OBVIOUS
<1>1. /\ turn.stage = "discard" /\ turn \in Turn /\ lastRun \in Nat /\ run' = run
      /\ UNCHANGED <<work, wakeups, admission, reserved, inbox, lastRun, mode>>
  BY DEF DiscardReads, IInv, TypeOK
<1>2. WorkerShape' /\ RecordShape' BY <1>1, WorkStays
<1>3. \A s : Unposted(s) => Unposted(s)' BY <1>1 DEF Unposted
<1>4. work' \in Work \cup {None} /\ run' \in Run \cup {None} BY <1>1 DEF IInv, TypeOK
<1>5. /\ turn' \in Turn /\ turn'.bound = turn.bound /\ turn'.src = turn.src /\ turn'.kind = turn.kind
      /\ \/ turn'.stage = "withdraw" /\ run # None /\ turn'.run = run.id
         \/ turn'.stage = "erase" /\ (run # None => Terminal(run))
  <2>1. CASE Live(run)
    <3>1. turn' = [turn EXCEPT !.stage = "withdraw", !.run = run.id] /\ run # None /\ run \in Run
      BY <2>1 DEF DiscardReads, Live, IInv, TypeOK
    <3> QED BY <1>1, <3>1 DEF Turn, TurnStage, Run
  <2>2. CASE ~Live(run)
    <3>1. To("erase") BY <2>2 DEF DiscardReads
    <3> QED BY <1>1, <2>2, <3>1, ToType DEF TurnStage, Live
  <2> QED BY <2>1, <2>2
<1>6. TurnShape' BY <1>1, <1>5 DEF IInv, TurnShape, Holding, Unlaunched, Is, Terminal
<1> QED BY <1>1, <1>2, <1>3, <1>4, <1>5, <1>6, HandlerFrame DEF Unrouted

(* Its cancel is not refused as a repeated message, so the run is closed.   *)
LEMMA DiscardCancelsKeeps == IInv /\ DiscardCancels => IInv'
<1> SUFFICES ASSUME IInv, DiscardCancels PROVE IInv' OBVIOUS
<1>1. /\ turn.stage = "withdraw" /\ QueueFree /\ turn \in Turn /\ lastRun \in Nat
      /\ work' = Aborted(turn.run)
      /\ To(IF work # None /\ work.run = turn.run THEN "await" ELSE "erase")
      /\ UNCHANGED <<wakeups, admission, reserved, inbox, lastRun, mode>>
  BY DEF DiscardCancels, IInv, TypeOK
<1>2. /\ Is(turn.run) /\ run # None /\ turn.run = run.id /\ run \in Run
      /\ turn.src \notin SourcesOf(run.mailbox)
  BY <1>1 DEF IInv, TypeOK, TurnShape, SourceShape, Holding, Is, Unposted
<1>3. PICK stage \in {"await", "erase"} : To(stage) BY <1>1
<1>4. /\ turn' \in Turn /\ turn'.stage = stage /\ turn'.bound = turn.bound
      /\ turn'.src = turn.src /\ turn'.kind = turn.kind /\ turn'.run = turn.run
  BY <1>1, <1>3, ToType DEF TurnStage
<1>5. PICK n \in Run :
        \/ /\ Put(n) /\ n.id = run.id /\ n.effect = run.effect /\ Terminal(n)
           /\ SourcesOf(n.mailbox) \subseteq SourcesOf(run.mailbox) \cup {turn.src}
        \/ run' = run /\ Terminal(run)
  <2>1. CASE Routable(run, "cancel", turn.src, 0, FALSE)
    <3> DEFINE n == Routed(run, "cancel", turn.src)
    <3>1. Put(n) BY <1>2, <2>1 DEF DiscardCancels
    <3>2. Routable(run, "cancel", turn.src, turn.question, FALSE) BY <2>1 DEF Routable
    <3>3. /\ n \in Run /\ n.id = run.id /\ n.effect = run.effect /\ n.status = "cancelled"
          /\ SourcesOf(n.mailbox) \subseteq SourcesOf(run.mailbox) \cup {turn.src}
      BY <1>1, <1>2, <3>2, Posts DEF Kind
    <3> HIDE DEF n
    <3> QED BY <3>1, <3>3 DEF Terminal, TerminalStatus
  <2>2. CASE ~Routable(run, "cancel", turn.src, 0, FALSE)
    <3>1. Terminal(run) BY <1>2, <2>2 DEF Routable, Replayed
    <3>2. run' = run BY <2>2 DEF DiscardCancels
    <3> QED BY <1>2, <3>1, <3>2
  <2> QED BY <2>1, <2>2
<1>6. /\ WorkerShape' /\ RecordShape' /\ work' \in Work \cup {None}
      /\ run' \in Run /\ run' # None /\ run'.id = run.id /\ Terminal(run')
      /\ SourcesOf(run'.mailbox) \subseteq SourcesOf(run.mailbox) \cup {turn.src}
  <2>1. CASE Put(n) /\ n.id = run.id /\ n.effect = run.effect /\ Terminal(n)
             /\ SourcesOf(n.mailbox) \subseteq SourcesOf(run.mailbox) \cup {turn.src}
    <3>1. n.status # "running" BY <2>1 DEF Terminal, TerminalStatus
    <3> QED BY <1>1, <1>2, <2>1, <3>1, HandlerPuts DEF Terminal
  <2>2. CASE run' = run /\ Terminal(run)
    <3>1. run.status # "running" BY <2>2 DEF Terminal, TerminalStatus
    <3>2. CASE work # None /\ work.run = run.id
      <4>1. work' = [work EXCEPT !.aborted = TRUE] /\ work \in Work
        BY <1>1, <1>2, <3>2 DEF Aborted, IInv, TypeOK
      <4>2. /\ work' \in Work /\ work'.stage = work.stage /\ work'.run = work.run /\ work'.aborted
            /\ work'.outcome = work.outcome /\ work'.ckpt = work.ckpt
        BY <4>1 DEF Work
      <4>3. WorkerShape' BY <1>1, <2>2, <3>2, <4>2 DEF IInv, WorkerShape
      <4>4. RecordShape' BY <1>1, <2>2, <3>1, <4>2, <1>2, NothingAnnounced
            DEF IInv, RecordShape, QueueFree, Working
      <4> QED BY <1>2, <2>2, <4>2, <4>3, <4>4
    <3>3. CASE ~(work # None /\ work.run = run.id)
      <4>1. work' = work BY <1>1, <1>2, <3>3 DEF Aborted
      <4> QED BY <1>1, <1>2, <2>2, <4>1, WorkStays DEF IInv, TypeOK
    <3> QED BY <3>2, <3>3
  <2> QED BY <1>5, <2>1, <2>2
<1>7. TurnShape' BY <1>1, <1>2, <1>4, <1>6 DEF IInv, TurnShape, Holding, Unlaunched, Is
<1>8. \A s : Unposted(s) /\ s # turn.src => Unposted(s)' BY <1>2, <1>6 DEF Unposted
<1> QED BY <1>1, <1>4, <1>6, <1>7, <1>8, HandlerFrame DEF Unrouted

(* A memory change goes on when the worker of the run is gone.              *)
LEMMA DiscardWaitsKeeps == IInv /\ DiscardWaits => IInv'
<1> SUFFICES ASSUME IInv, DiscardWaits PROVE IInv' OBVIOUS
<1>1. /\ turn.stage = "await" /\ turn \in Turn /\ lastRun \in Nat /\ run' = run /\ To("erase")
      /\ UNCHANGED <<work, wakeups, admission, reserved, inbox, lastRun, mode>>
  BY DEF DiscardWaits, IInv, TypeOK
<1>2. WorkerShape' /\ RecordShape' BY <1>1, WorkStays
<1>3. \A s : Unposted(s) => Unposted(s)' BY <1>1 DEF Unposted
<1>4. work' \in Work \cup {None} /\ run' \in Run \cup {None} BY <1>1 DEF IInv, TypeOK
<1>5. /\ turn' \in Turn /\ turn'.stage = "erase" /\ turn'.bound = turn.bound
      /\ turn'.src = turn.src /\ turn'.kind = turn.kind
  BY <1>1, ToType DEF TurnStage
<1>6. TurnShape' BY <1>1, <1>5 DEF IInv, TurnShape, Holding, Unlaunched, Terminal
<1> QED BY <1>1, <1>2, <1>3, <1>4, <1>5, <1>6, HandlerFrame DEF Unrouted

(* The record is erased when nobody works on it.                            *)
LEMMA DiscardErasesKeeps == IInv /\ DiscardErases => IInv'
<1> SUFFICES ASSUME IInv, DiscardErases PROVE IInv' OBVIOUS
<1>1. /\ turn.stage = "erase" /\ turn \in Turn /\ lastRun \in Nat /\ run' = None /\ To("done")
      /\ UNCHANGED <<work, wakeups, admission, reserved, inbox, lastRun, mode>>
  BY DEF DiscardErases, IInv, TypeOK
<1>2. WorkerShape' BY <1>1 DEF IInv, WorkerShape, Is
<1>3. RecordShape' BY <1>1 DEF RecordShape
<1>4. \A s : Unposted(s)' BY <1>1 DEF Unposted
<1>5. work' \in Work \cup {None} BY <1>1 DEF IInv, TypeOK
<1>6. /\ turn' \in Turn /\ turn'.stage = "done" /\ turn'.bound = turn.bound
      /\ turn'.src = turn.src /\ turn'.kind = turn.kind
  BY <1>1, ToType DEF TurnStage
<1>7. TurnShape' BY <1>1, <1>6 DEF IInv, TurnShape, Holding, Unlaunched
<1> QED BY <1>1, <1>2, <1>3, <1>4, <1>5, <1>6, <1>7, HandlerFrame DEF Unrouted

-----------------------------------------------------------------------------
(* Wake-ups and shutdown. *)

(* A reload launches the run that is queued and forgets every other.        *)
LEMMA WakeKeeps == IInv /\ Wake => IInv'
<1> SUFFICES ASSUME IInv, Wake PROVE IInv' OBVIOUS
<1>1. PICK id \in wakeups :
        /\ wakeups' = wakeups \ {id}
        /\ IF Wanted(id) THEN Launch(id) ELSE UNCHANGED work
        /\ UNCHANGED <<run, lane, lastRun, mode>>
  BY DEF Wake
<1>2. /\ turn' = turn /\ admission' = admission /\ reserved' = reserved /\ inbox' = inbox
      /\ run' = run /\ lastRun' = lastRun /\ mode' = mode
  BY <1>1 DEF lane
<1>3. id \in 1 .. lastRun BY DEF IInv, ModeShape
<1>4. /\ WorkerShape' /\ RecordShape' /\ work' \in Work \cup {None}
      /\ \/ work' = work
         \/ work = None /\ mode \notin {"stopping", "down"} /\ work' # None /\ work'.run = id
  <2>1. CASE Wanted(id) BY <1>1, <1>2, <1>3, <2>1, LaunchKeeps
  <2>2. CASE ~Wanted(id) BY <1>1, <1>2, <2>2, WorkStays DEF IInv, TypeOK
  <2> QED BY <2>1, <2>2
<1>5. TypeOK' BY <1>1, <1>2, <1>4 DEF IInv, TypeOK
<1>6. TurnShape' BY <1>1, <1>2, <1>4 DEF IInv, TurnShape, Is, WorkGone, Terminal
<1>7. SourceShape' BY <1>2 DEF IInv, SourceShape, Unposted
<1>8. IngressShape' /\ ModeShape' BY <1>1, <1>2, <1>4 DEF IInv, IngressShape, ModeShape
<1> QED BY <1>4, <1>5, <1>6, <1>7, <1>8 DEF IInv

(* Draining the chains moves the mode of the process and nothing else.      *)
LEMMA DrainKeeps == IInv /\ (Drain \/ Drained) => IInv'
<1> SUFFICES ASSUME IInv, Drain \/ Drained PROVE IInv' OBVIOUS
<1>1. /\ turn' = turn /\ admission' = admission /\ reserved' = reserved /\ inbox' = inbox
      /\ run' = run /\ work' = work /\ wakeups' = wakeups /\ lastRun' = lastRun
      /\ \/ mode' = "draining"
         \/ mode = "stopping" /\ mode' = "down" /\ work = None
  BY DEF Drain, Drained, lane
<1>2. TypeOK' BY <1>1 DEF IInv, TypeOK
<1>3. WorkerShape' /\ RecordShape' BY <1>1, WorkStays
<1>4. TurnShape' BY <1>1 DEF IInv, TurnShape, Is, WorkGone, Terminal
<1>5. SourceShape' BY <1>1 DEF IInv, SourceShape, Unposted
<1>6. IngressShape' /\ ModeShape' BY <1>1 DEF IInv, IngressShape, ModeShape
<1> QED BY <1>2, <1>3, <1>4, <1>5, <1>6 DEF IInv

(* Stopping aborts the worker and leaves its record to the next process.    *)
LEMMA StopWorkKeeps == IInv /\ StopWork => IInv'
<1> SUFFICES ASSUME IInv, StopWork PROVE IInv' OBVIOUS
<1>1. /\ turn' = turn /\ admission' = admission /\ inbox' = inbox /\ run' = run
      /\ wakeups' = wakeups /\ lastRun' = lastRun /\ mode' = "stopping" /\ reserved' = {}
      /\ turn.stage = "idle" /\ admission.stage = "idle"
  BY DEF StopWork
<1>2. /\ work' \in Work \cup {None}
      /\ work = None <=> work' = None
      /\ work # None => /\ work'.stage = work.stage /\ work'.run = work.run /\ work'.aborted
                        /\ work'.outcome = work.outcome /\ work'.ckpt = work.ckpt
  <2>1. CASE work = None BY <2>1 DEF StopWork
  <2>2. CASE work # None
    <3>1. work' = [work EXCEPT !.aborted = TRUE] /\ work \in Work
      BY <2>2 DEF StopWork, IInv, TypeOK
    <3>2. work' \in Work BY <3>1 DEF Work
    <3>3. work' # None BY <3>2, NoWorkerIsNone
    <3> QED BY <2>2, <3>1, <3>2, <3>3 DEF Work
  <2> QED BY <2>1, <2>2
<1>3. TypeOK' BY <1>1, <1>2 DEF IInv, TypeOK
<1>4. WorkerShape' BY <1>1, <1>2 DEF IInv, WorkerShape, Is
<1>5. RecordShape' BY <1>1, <1>2 DEF IInv, RecordShape, Working
<1>6. TurnShape' BY <1>1, <1>2 DEF IInv, TurnShape, Holding, Unlaunched
<1>7. SourceShape' BY <1>1 DEF IInv, SourceShape, Unposted
<1>8. IngressShape' /\ ModeShape' BY <1>1, <1>2 DEF IInv, IngressShape, ModeShape
<1> QED BY <1>3, <1>4, <1>5, <1>6, <1>7, <1>8 DEF IInv

-----------------------------------------------------------------------------
(* The theorems. *)

(* Every step of the lane keeps its shape.                                 *)
LEMMA StepShape == IInv /\ [Next]_vars => IInv'
<1> SUFFICES ASSUME IInv, [Next]_vars PROVE IInv' OBVIOUS
<1>1. CASE Ingress
  BY <1>1, AdmitReadsKeeps, ReserveKeeps, BoundTurnKeeps DEF Ingress
<1>2. CASE Handler
  BY <1>2, ControlKeeps, CancellingKeeps, MailboxKeeps, RouteKeeps, WakeWorkerKeeps, StartKeeps,
     AnchorKeeps, LaunchWorkKeeps, FailUnlaunchedKeeps, DiscardReadsKeeps, DiscardCancelsKeeps,
     DiscardWaitsKeeps, DiscardErasesKeeps, EndTurnKeeps DEF Handler
<1>3. CASE Worker
  BY <1>3, BeginKeeps, PlanKeeps, GateKeeps, CommitKeeps, DeliverKeeps, SurfaceKeeps,
     RequeueKeeps, SettleKeeps, FailKeeps, LeaveKeeps DEF Worker
<1>4. CASE UNCHANGED vars
  <2>1. /\ turn' = turn /\ admission' = admission /\ reserved' = reserved /\ inbox' = inbox
        /\ run' = run /\ work' = work /\ wakeups' = wakeups /\ lastRun' = lastRun /\ mode' = mode
    BY <1>4 DEF vars, lane
  <2>2. TypeOK' BY <2>1 DEF IInv, TypeOK
  <2>3. WorkerShape' /\ RecordShape' BY <2>1, WorkStays
  <2>4. TurnShape' BY <2>1 DEF IInv, TurnShape, Is, WorkGone, Terminal
  <2>5. SourceShape' BY <2>1 DEF IInv, SourceShape, Unposted
  <2>6. IngressShape' /\ ModeShape' BY <2>1 DEF IInv, IngressShape, ModeShape
  <2> QED BY <2>2, <2>3, <2>4, <2>5, <2>6 DEF IInv
<1> QED BY <1>1, <1>2, <1>3, <1>4, AdmitKeeps, StartTurnKeeps, DrainKeeps, WakeKeeps, StopWorkKeeps
        DEF Next

(* Worker, handlers and record are in line in every state of the lane.      *)
LEMMA LaneInvariant == Spec => []IInv
  BY InitShape, StepShape, PTL DEF Spec

(* Every variable of the lane keeps its type; no worker makes more than its *)
(* passes.                                                                  *)
THEOREM LaneTypes == Spec => []TypeOK
<1>1. IInv => TypeOK BY DEF IInv
<1> QED BY <1>1, LaneInvariant, PTL

(* drainPending ends with no worker and no record that claims to run.       *)
THEOREM ShutdownIsOrderly == Spec => []OrderlyExit
<1>1. IInv => OrderlyExit BY DEF IInv, ModeShape, RecordShape, OrderlyExit
<1> QED BY <1>1, LaneInvariant, PTL

(* What removes the record for a memory change.                             *)
LEMMA OnlyDiscardErases ==
  ASSUME IInv, [Next]_vars, run # None, run' = None
  PROVE DiscardErases
<1>1. \A n \in Run : Put(n) => run' # None BY PutType
<1>2. run \in Run BY DEF IInv, TypeOK
<1>3. ASSUME NEW n, Put(n) PROVE n \notin Run BY <1>1, <1>3
<1>4. CASE Ingress
  BY <1>4, ReadLooks DEF Ingress, AdmitReads, Reserve, BoundTurn, Looked
<1>5. CASE Handler
  <2>1. CASE Control \/ Mailbox BY <2>1, ReadLooks DEF Control, Mailbox, Looked
  <2>2. CASE Cancelling \/ Route \/ DiscardCancels
    <3>1. PICK kind \in Kind : /\ Put(Routed(run, kind, turn.src)) /\ turn.stage # "idle"
                             /\ Is(turn.run) /\ Routable(run, kind, turn.src, turn.question, FALSE)
      BY <2>2 DEF Cancelling, Route, DiscardCancels, IInv, TypeOK, Turn, Kind, Routable
    <3> DEFINE n == Routed(run, kind, turn.src)
    <3>2. n \in Run BY <3>1, Posts
    <3> QED BY <1>1, <3>1, <3>2
  <2>3. CASE Start
    <3>1. lastRun' = lastRun + 1 /\ Put(NewRun(lastRun')) BY <2>3 DEF Start
    <3>2. NewRun(lastRun') \in Run BY <3>1, NewRunType DEF IInv, TypeOK
    <3> QED BY <1>1, <3>1, <3>2
  <2>4. CASE Anchor
    <3>1. Put([run EXCEPT !.anchored = TRUE]) BY <2>4 DEF Anchor
    <3>2. [run EXCEPT !.anchored = TRUE] \in Run BY <1>2 DEF Run
    <3> QED BY <1>1, <3>1, <3>2
  <2>5. CASE FailUnlaunched BY <1>1, <1>2, <2>5, FailedRunType DEF FailUnlaunched
  <2>6. CASE WakeWorker \/ LaunchWork \/ DiscardReads \/ DiscardWaits \/ EndTurn
    BY <2>6 DEF WakeWorker, LaunchWork, DiscardReads, DiscardWaits, EndTurn
  <2> QED BY <1>5, <2>1, <2>2, <2>3, <2>4, <2>5, <2>6 DEF Handler
<1>6. CASE Worker
  <2>1. work # None /\ work \in Work BY <1>6
    DEF Worker, Begin, Plan, Gate, Commit, Deliver, Surface, Requeue, Settle, Fail, Leave, Working, IInv, TypeOK
  <2>2. work.inRev \in Nat /\ work.ckpt \in Checkpoint BY <2>1 DEF Work
  <2>3. CASE Begin BY <1>1, <1>2, <2>3, BegunType DEF Begin
  <2>4. CASE Plan \/ Gate \/ Surface \/ Leave BY <2>4 DEF Plan, Gate, Surface, Leave
  <2>5. CASE Commit
    <3>1. Put(Draft) /\ work.stage = "commit" BY <2>5 DEF Commit, Working
    <3> QED BY <1>1, <2>1, <3>1, DraftFields
  <2>6. CASE Deliver
    <3>1. Is(work.run) /\ run.effect # None
      BY <2>6 DEF Deliver, Working, IInv, WorkerShape
    <3> QED BY <1>1, <1>2, <2>6, <3>1, SettledEffectType DEF Deliver
  <2>7. CASE Requeue
    <3>1. Put(Requeued(run, work.inRev, work.ckpt)) BY <2>7 DEF Requeue
    <3> QED BY <1>1, <1>2, <2>2, <3>1, RequeuedType
  <2>8. CASE Settle
    <3>1. PICK pause \in BOOLEAN : Put(Settled(run, work.inRev, work.ckpt, pause)) BY <2>8 DEF Settle
    <3> QED BY <1>1, <1>2, <2>2, <3>1, SettledType
  <2>9. CASE Fail BY <1>1, <1>2, <2>9, FailedRunType DEF Fail
  <2> QED BY <1>6, <2>3, <2>4, <2>5, <2>6, <2>7, <2>8, <2>9 DEF Worker
<1>7. CASE Admit \/ StartTurn \/ Drain \/ Wake \/ StopWork \/ Drained \/ UNCHANGED vars
  BY <1>7 DEF Admit, StartTurn, Drain, Wake, StopWork, Drained, vars
<1> QED BY <1>4, <1>5, <1>6, <1>7 DEF Next

(* A memory change removes the run only after it was closed and its planner *)
(* told so.                                                                 *)
THEOREM MemoryChangeWaits == Spec => ErasedWhenSettled
<1>1. IInv /\ [Next]_vars =>
        (run # None /\ run' = None =>
           /\ Terminal(run)
           /\ Working("plan") /\ work.run = run.id => work.aborted)
  <2> SUFFICES ASSUME IInv, [Next]_vars, run # None, run' = None
               PROVE /\ Terminal(run)
                     /\ Working("plan") /\ work.run = run.id => work.aborted
    OBVIOUS
  <2>1. Terminal(run) BY OnlyDiscardErases DEF DiscardErases, IInv, TurnShape
  <2>2. run.status # "running" BY <2>1 DEF Terminal, TerminalStatus
  <2>3. work \in Work \cup {None} BY DEF IInv, TypeOK
  <2>4. Working("plan") /\ work.run = run.id => work.aborted
    BY <2>2, <2>3 DEF IInv, WorkerShape, Is, Working, Work
  <2> QED BY <2>1, <2>4
<1> QED BY <1>1, LaneInvariant, PTL DEF Spec, ErasedWhenSettled

(* A delivery that returns has not overtaken a reply reserved before it.    *)
THEOREM QuotesComeFirst == Spec => QuoteNotOvertaken
<1>1. IInv /\ [Next]_vars =>
        (Working("barrier") /\ work' # None /\ work'.stage = "surface" => ~Unresolved(work.run))
  <2> SUFFICES ASSUME IInv, [Next]_vars, Working("barrier"), work' # None, work'.stage = "surface"
               PROVE ~Unresolved(work.run)
    OBVIOUS
  <2>1. work # None /\ work.stage = "barrier" /\ work \in Work BY DEF Working, IInv, TypeOK
  <2>2. work' # work /\ work' # [work EXCEPT !.aborted = TRUE] BY <2>1 DEF Work
  <2>3. ~Ingress
    BY <2>2 DEF Ingress, AdmitReads, Reserve, BoundTurn
  <2>4. ~Handler
    <3>1. \A id : Launch(id) => work' = work BY <2>1 DEF Launch
    <3>2. \A id : Aborted(id) \in {work, [work EXCEPT !.aborted = TRUE]} BY DEF Aborted
    <3> QED BY <2>2, <3>1, <3>2
      DEF Handler, Control, Cancelling, Mailbox, Route, WakeWorker, Start, Anchor, LaunchWork,
          FailUnlaunched, DiscardReads, DiscardCancels, DiscardWaits, DiscardErases, EndTurn
  <2>5. ~(Admit \/ StartTurn \/ Drain \/ Drained \/ StopWork \/ UNCHANGED vars)
    BY <2>1, <2>2 DEF Admit, StartTurn, Drain, Drained, StopWork, vars
  <2>6. ~Wake
    <3>1. \A id : Launch(id) => work' = work BY <2>1 DEF Launch
    <3> QED BY <2>2, <3>1 DEF Wake
  <2>7. Worker BY <2>3, <2>4, <2>5, <2>6 DEF Next
  <2>8. Deliver
    BY <2>1, <2>7 DEF Worker, Begin, Plan, Gate, Commit, Surface, Requeue, Settle, Fail, Leave, Working
  <2>9. work.run \notin reserved BY <2>8 DEF Deliver, IngressIdle
  <2> QED BY <2>9 DEF IInv, IngressShape, Unresolved
<1> QED BY <1>1, LaneInvariant, PTL DEF Spec, QuoteNotOvertaken

-----------------------------------------------------------------------------
(* Who holds the work: no worker and no finally block drops it.             *)

(* A step of the worker, its last one aside, is about its own run.          *)
LEMMA WorkerKeepsRun ==
  ASSUME IInv, Worker, ~Leave
  PROVE /\ work # None /\ work' # None /\ work'.run = work.run
        /\ run' = run \/ (Is(work.run) /\ run' # None /\ run'.id = run.id)
        /\ UNCHANGED <<turn, wakeups, mode, lastRun>>
<1>1. work # None /\ work \in Work /\ Quiet
  BY DEF Worker, Begin, Plan, Gate, Commit, Deliver, Surface, Requeue, Settle, Fail, Working,
         IInv, TypeOK
<1>2. work' # None
  BY BeginKeeps, PlanKeeps, GateKeeps, CommitKeeps, DeliverKeeps, SurfaceKeeps, RequeueKeeps,
     SettleKeeps, FailKeeps DEF Worker
<1>3. \A stage : At(stage) => work'.run = work.run BY <1>1 DEF At, Work
<1>4. NextPass => work'.run = work.run BY <1>1, NextPassType
<1>5. \A n \in Run : Put(n) /\ Same(run, n) => run' # None /\ run'.id = run.id
  BY PutType DEF Same
<1>6. work.inRev \in Nat /\ work.ckpt \in Checkpoint BY <1>1 DEF Work
<1>7. Is(work.run) => run # None /\ run \in Run BY DEF Is, IInv, TypeOK
<1>8. CASE Begin
  <2>1. work'.run = work.run BY <1>1, <1>3, <1>8 DEF Begin, Work
  <2>2. run' = run \/ (Is(work.run) /\ Put(Begun(run))) BY <1>8 DEF Begin
  <2> QED BY <1>1, <1>2, <1>5, <1>7, <2>1, <2>2, BegunFields DEF Quiet, lane
<1>9. CASE Plan \/ Gate \/ Surface
  <2>1. run' = run BY <1>9 DEF Plan, Gate, Surface
  <2>2. work'.run = work.run BY <1>1, <1>3, <1>9 DEF Plan, Ends, Gate, Surface, Work
  <2> QED BY <1>1, <1>2, <2>1, <2>2 DEF Quiet, lane
<1>10. CASE Commit
  <2>1. work'.run = work.run BY <1>3, <1>10 DEF Commit
  <2>2. run' = run \/ (Is(work.run) /\ Put(Draft) /\ work.stage = "commit")
    BY <1>10 DEF Commit, Working
  <2> QED BY <1>1, <1>2, <1>5, <1>7, <2>1, <2>2, DraftFields DEF Quiet, lane
<1>11. CASE Deliver
  <2>1. work'.run = work.run BY <1>3, <1>11 DEF Deliver
  <2>2. \/ run' = run
        \/ /\ Is(work.run) /\ run.effect # None
           /\ \E n \in {CommittedFinal(run), CommittedQuestion(run), UnknownDelivery(run)} : Put(n)
    BY <1>11 DEF Deliver, Working, IInv, WorkerShape, Is
  <2> QED BY <1>1, <1>2, <1>5, <1>7, <2>1, <2>2, EffectFields DEF Quiet, lane
<1>12. CASE Requeue
  <2>1. work'.run = work.run BY <1>3, <1>4, <1>12 DEF Requeue
  <2>2. run' = run \/ (Is(work.run) /\ Put(Requeued(run, work.inRev, work.ckpt)))
    BY <1>12 DEF Requeue
  <2> QED BY <1>1, <1>2, <1>5, <1>6, <1>7, <2>1, <2>2, RequeuedFields DEF Quiet, lane
<1>13. CASE Settle
  <2>1. work'.run = work.run BY <1>3, <1>4, <1>13 DEF Settle
  <2>2. run' = run \/ (Is(work.run)
          /\ \E pause \in BOOLEAN : Put(Settled(run, work.inRev, work.ckpt, pause)))
    BY <1>13 DEF Settle
  <2> QED BY <1>1, <1>2, <1>5, <1>6, <1>7, <2>1, <2>2, SettledFields DEF Quiet, lane
<1>14. CASE Fail
  <2>1. work'.run = work.run BY <1>3, <1>14 DEF Fail
  <2>2. run' = run \/ (Is(work.run) /\ Put(FailedRun(run))) BY <1>14 DEF Fail
  <2> QED BY <1>1, <1>2, <1>5, <1>7, <2>1, <2>2, FailedFields DEF Quiet, lane
<1> QED BY <1>8, <1>9, <1>10, <1>11, <1>12, <1>13, <1>14 DEF Worker

(* A handler starts the next run. *)
Renewed == turn'.stage = "anchor" /\ turn'.run = lastRun + 1 /\ UNCHANGED <<work, wakeups>>

(* A new record is a new run; every other step leaves the record or its id. *)
LEMMA SameRun ==
  ASSUME IInv, IInv', [Next]_vars, run' # None, run' # run
  PROVE \/ run # None /\ run'.id = run.id
        \/ Renewed /\ run'.id = lastRun + 1
<1>1. CASE Ingress
  BY <1>1, ReadLooks DEF Ingress, AdmitReads, Reserve, BoundTurn, Looked, Same
<1>2. CASE Worker
  <2>1. ~Leave BY DEF Leave
  <2> QED BY <1>2, <2>1, WorkerKeepsRun DEF Is
<1>3. CASE Handler
  <2>1. CASE Control \/ Mailbox BY <2>1, ReadLooks DEF Control, Mailbox, Looked, Same
  <2>2. CASE Cancelling \/ Route \/ DiscardCancels
    <3>1. PICK kind \in Kind : /\ Put(Routed(run, kind, turn.src)) /\ turn.stage # "idle"
                             /\ Is(turn.run) /\ Routable(run, kind, turn.src, turn.question, FALSE)
      BY <2>2 DEF Cancelling, Route, DiscardCancels, IInv, TypeOK, Turn, Kind, Routable
    <3> DEFINE n == Routed(run, kind, turn.src)
    <3>2. n \in Run /\ n.id = run.id /\ run # None BY <3>1, Posts
    <3>3. Put(n) BY <3>1
    <3> HIDE DEF n
    <3> QED BY <3>2, <3>3, PutType DEF Same
  <2>3. CASE Start
    <3>1. /\ lastRun' = lastRun + 1 /\ Put(NewRun(lastRun')) /\ UNCHANGED <<work, wakeups>>
          /\ turn' = [turn EXCEPT !.stage = "anchor", !.run = lastRun']
      BY <2>3 DEF Start
    <3>2. NewRun(lastRun') \in Run BY <3>1, NewRunType DEF IInv, TypeOK
    <3>3. run'.id = NewRun(lastRun').id BY <3>1, <3>2, PutType DEF Same
    <3>4. NewRun(lastRun').id = lastRun' BY DEF NewRun
    <3>5. turn \in Turn BY DEF IInv, TypeOK
    <3> QED BY <3>1, <3>3, <3>4, <3>5 DEF Renewed, Turn
  <2>4. CASE Anchor
    <3>1. Put([run EXCEPT !.anchored = TRUE]) /\ Is(turn.run) BY <2>4 DEF Anchor
    <3>2. run # None /\ run \in Run BY <3>1 DEF Is, IInv, TypeOK
    <3>3. [run EXCEPT !.anchored = TRUE] \in Run /\ [run EXCEPT !.anchored = TRUE].id = run.id
      BY <3>2 DEF Run
    <3> QED BY <3>1, <3>2, <3>3, PutType DEF Same
  <2>5. CASE FailUnlaunched
    <3>1. Put(FailedRun(run)) /\ run # None /\ run \in Run
      BY <2>5 DEF FailUnlaunched, Is, IInv, TypeOK
    <3> QED BY <3>1, FailedFields, PutType DEF Same
  <2>6. ~(WakeWorker \/ LaunchWork \/ DiscardReads \/ DiscardWaits \/ DiscardErases \/ EndTurn)
    BY DEF WakeWorker, LaunchWork, DiscardReads, DiscardWaits, DiscardErases, EndTurn
  <2> QED BY <1>3, <2>1, <2>2, <2>3, <2>4, <2>5, <2>6 DEF Handler
<1>4. ~(Admit \/ StartTurn \/ Drain \/ Wake \/ StopWork \/ Drained \/ UNCHANGED vars)
  BY DEF Admit, StartTurn, Drain, Wake, StopWork, Drained, vars
<1> QED BY <1>1, <1>2, <1>3, <1>4 DEF Next

(* A run whose finally block is still to look has no rival in the map.      *)
FirstHand ==
  run # None /\ run.id \in wakeups /\ work # None => work.run = run.id

(* What a step may do to the worker, in terms of the run it finds there.    *)
LEMMA WorkerOf ==
  ASSUME IInv, [Next]_vars
  PROVE \/ work' = None
        \/ work # None /\ work' # None /\ work'.run = work.run /\ wakeups' \subseteq wakeups
        \/ run # None /\ run' = run /\ work' # None /\ work'.run = run.id
<1>1. ASSUME NEW id, Launch(id), work' # None
      PROVE (work # None /\ work'.run = work.run) \/ work'.run = id
  BY <1>1 DEF Launch
<1>2. ASSUME NEW id, work' = Aborted(id) \/ work' = [work EXCEPT !.aborted = TRUE], work # None
      PROVE work' # None /\ work'.run = work.run
  <2>1. work \in Work BY <1>2 DEF IInv, TypeOK
  <2>2. [work EXCEPT !.aborted = TRUE] \in Work /\ [work EXCEPT !.aborted = TRUE].run = work.run
    BY <2>1 DEF Work
  <2> QED BY <1>2, <2>2, NoWorkerIsNone DEF Aborted
<1>3. CASE work' = work /\ wakeups' \subseteq wakeups BY <1>3
<1>4. CASE Ingress \/ Admit \/ StartTurn \/ Drain \/ Drained \/ UNCHANGED vars
  BY <1>3, <1>4 DEF Ingress, AdmitReads, Reserve, BoundTurn, Admit, StartTurn, Drain, Drained, vars
<1>5. CASE Worker
  BY <1>5, WorkerKeepsRun DEF Leave
<1>6. CASE WakeWorker \/ LaunchWork
  <2>1. /\ run' = run /\ wakeups' = wakeups /\ turn.stage \in {"wake", "launch"}
        /\ Launch(turn.run) \/ work' = work
    BY <1>6 DEF WakeWorker, LaunchWork
  <2>2. Is(turn.run) BY <2>1 DEF IInv, TurnShape, Holding, Unlaunched
  <2>3. CASE work' = work BY <1>3, <2>1, <2>3
  <2>4. CASE Launch(turn.run)
    <3>1. work # None => work' = work BY <2>4 DEF Launch
    <3> QED BY <1>1, <1>3, <2>1, <2>2, <2>4, <3>1 DEF Is
  <2> QED BY <2>1, <2>3, <2>4
<1>7. CASE Wake
  <2>1. PICK id \in wakeups : /\ wakeups' = wakeups \ {id} /\ run' = run
                             /\ IF Wanted(id) THEN Launch(id) ELSE UNCHANGED work
    BY <1>7 DEF Wake
  <2>2. CASE work' = work BY <1>3, <2>1, <2>2
  <2>3. CASE work' # work
    <3>1. Wanted(id) /\ Launch(id) BY <2>1, <2>3
    <3>2. work = None BY <2>3, <3>1 DEF Launch
    <3> QED BY <1>1, <2>1, <3>1, <3>2 DEF Wanted, Is
  <2> QED BY <2>2, <2>3
<1>8. CASE Cancelling \/ DiscardCancels
  <2>1. wakeups' = wakeups /\ (work' = work \/ work' = Aborted(turn.run))
    BY <1>8 DEF Cancelling, DiscardCancels
  <2>2. work = None => work' = work BY <2>1 DEF Aborted
  <2> QED BY <1>2, <1>3, <2>1, <2>2
<1>9. CASE StopWork
  <2>1. /\ wakeups' = wakeups
        /\ work' = IF work = None THEN None ELSE [work EXCEPT !.aborted = TRUE]
    BY <1>9 DEF StopWork
  <2> QED BY <1>2, <2>1
<1>10. CASE Control \/ Mailbox \/ Route \/ Start \/ Anchor \/ FailUnlaunched \/ DiscardReads
            \/ DiscardWaits \/ DiscardErases \/ EndTurn
  BY <1>3, <1>10 DEF Control, Mailbox, Route, Start, Anchor, FailUnlaunched, DiscardReads,
                     DiscardWaits, DiscardErases, EndTurn
<1> QED BY <1>4, <1>5, <1>6, <1>7, <1>8, <1>9, <1>10 DEF Next, Handler

(* No step lets a worker of another run in before the finally block looked. *)
LEMMA FirstHandKept == IInv /\ IInv' /\ FirstHand /\ [Next]_vars => FirstHand'
<1> SUFFICES ASSUME IInv, IInv', FirstHand, [Next]_vars,
                    run' # None, run'.id \in wakeups', work' # None
             PROVE work'.run = run'.id
  BY DEF FirstHand
<1>1. lastRun \in Nat /\ wakeups \subseteq 1 .. lastRun BY DEF IInv, TypeOK, ModeShape
<1>2. ~(Renewed /\ run'.id = lastRun + 1) BY <1>1 DEF Renewed
<1>3. run # None /\ run'.id = run.id BY <1>2, SameRun
<1>4. CASE work # None /\ work'.run = work.run /\ wakeups' \subseteq wakeups
  BY <1>3, <1>4 DEF FirstHand
<1> QED BY <1>3, <1>4, WorkerOf

(* A step that leaves queued or running work with nobody is one of the two. *)
LEMMA HandsKept ==
  ASSUME IInv, IInv', FirstHand, Attended, [Next]_vars
  PROVE Attended' \/ Unwoken \/ KeptOut
<1> DEFINE Hands == {"anchor", "launch", "unlaunched", "wake"}
<1> SUFFICES ASSUME mode' \in {"up", "draining"}, Busy', ~InWork', ~Unwoken, ~KeptOut
             PROVE turn'.run = run'.id /\ turn'.stage \in Hands
  BY DEF Attended
<1>1. run' # None /\ run'.status = "queued"
  BY DEF Busy, InWork, IInv, RecordShape
<1>2. mode \in {"up", "draining"}
  <2>1. CASE Ingress BY <2>1 DEF Ingress, AdmitReads, Reserve, BoundTurn
  <2>2. CASE Handler
    BY <2>2 DEF Handler, Control, Cancelling, Mailbox, Route, WakeWorker, Start, Anchor, LaunchWork,
                FailUnlaunched, DiscardReads, DiscardCancels, DiscardWaits, DiscardErases, EndTurn
  <2>3. CASE Worker
    BY <2>3 DEF Worker, Begin, Plan, Gate, Commit, Deliver, Surface, Requeue, Settle, Fail, Leave, Quiet
  <2>4. CASE Admit \/ StartTurn \/ Drain \/ Wake \/ StopWork \/ Drained \/ UNCHANGED vars
    BY <2>4 DEF Admit, StartTurn, Drain, Wake, StopWork, Drained, vars
  <2> QED BY <2>1, <2>2, <2>3, <2>4 DEF Next
<1>3. turn \in Turn /\ turn' \in Turn /\ (work # None => work \in Work) BY DEF IInv, TypeOK
<1>4. ASSUME run' = run, ~InWork PROVE turn.run = run.id /\ turn.stage \in Hands
  BY <1>1, <1>2, <1>4 DEF Attended, Busy
<1>5. ASSUME run' = run, wakeups \subseteq wakeups',
             work # None => work' # None /\ work'.run = work.run
      PROVE turn.run = run.id /\ turn.stage \in Hands
  <2>1. ~InWork BY <1>5 DEF InWork
  <2> QED BY <1>4, <1>5, <2>1
<1>6. ASSUME NEW id, Launch(id), run # None, run' = run, id = run.id PROVE work # None /\ work.run # id
  <2>1. work' # None => work'.run # id BY <1>1, <1>6 DEF InWork
  <2>2. CASE work # None
    <3>1. work' = work BY <1>6, <2>2 DEF Launch
    <3> QED BY <2>1, <2>2, <3>1
  <2>3. CASE work = None
    <3> DEFINE ck == [seen |-> {}, ask |-> None]
    <3>1. work' = [run |-> id, stage |-> "begin", pass |-> 0, inRev |-> 0, ckpt |-> ck,
                   answer |-> None, outcome |-> "none", aborted |-> FALSE]
      BY <1>2, <1>6, <2>3 DEF Launch
    <3>2. work'.run = id BY <3>1
    <3>3. work' # None
      <4>1. ck \in Checkpoint BY DEF Checkpoint
      <4>2. 0 \in 0 .. MaxPasses - 1 BY LaneAssumption
      <4>3. id \in Nat BY <1>6 DEF IInv, TypeOK, RecordShape
      <4> HIDE DEF ck
      <4>4. work' \in Work BY <3>1, <4>1, <4>2, <4>3 DEF Work, WorkStage, Outcome
      <4> QED BY <4>4, NoWorkerIsNone
    <3> QED BY <2>1, <3>2, <3>3
  <2> QED BY <2>2, <2>3
<1>7. CASE Worker
  <2>1. CASE Leave
    <3>1. run' = run /\ turn' = turn /\ wakeups' = wakeups \cup {work.run}
      BY <1>2, <2>1 DEF Leave, lane
    <3>2. ~InWork BY <3>1, <2>1 DEF InWork
    <3> QED BY <1>4, <3>1, <3>2
  <2>2. CASE ~Leave
    <3>1. /\ work # None /\ work' # None /\ work'.run = work.run
          /\ run' = run \/ (Is(work.run) /\ run' # None /\ run'.id = run.id)
          /\ UNCHANGED <<turn, wakeups, mode, lastRun>>
      BY <1>7, <2>2, WorkerKeepsRun
    <3>2. run' = run BY <3>1 DEF InWork, Is
    <3> QED BY <1>5, <3>1, <3>2
  <2> QED BY <2>1, <2>2
<1>8. CASE Wake
  <2>1. PICK id \in wakeups : /\ wakeups' = wakeups \ {id} /\ run' = run /\ turn' = turn
                             /\ IF Wanted(id) THEN Launch(id) ELSE UNCHANGED work
    BY <1>8 DEF Wake, lane
  <2>2. CASE id = run.id
    <3>1. Wanted(id) BY <1>1, <2>1, <2>2 DEF Wanted, Is
    <3>2. work # None /\ work.run # id BY <1>1, <1>6, <2>1, <2>2, <3>1
    <3> QED BY <1>1, <2>1, <2>2, <3>2 DEF FirstHand
  <2>3. CASE id # run.id
    <3>1. work' = work BY <2>1, <2>3 DEF Wanted, Is
    <3>2. ~InWork BY <2>1, <2>3, <3>1 DEF InWork
    <3> QED BY <1>4, <2>1, <3>2
  <2> QED BY <2>2, <2>3
<1>9. CASE Ingress \/ Control \/ Mailbox
  <2>1. work' = work /\ wakeups' = wakeups
    BY <1>9 DEF Ingress, AdmitReads, Reserve, BoundTurn, Control, Mailbox
  <2>2. ReadRun \/ run' = run
    BY <1>9 DEF Ingress, AdmitReads, Reserve, BoundTurn, Control, Mailbox
  <2>3. run' = run BY <1>1, <2>2, ReadLooks DEF Looked
  <2>4. turn.stage \notin Hands \/ turn' = turn
    BY <1>9 DEF Ingress, AdmitReads, Reserve, BoundTurn, Control, Mailbox
  <2> QED BY <1>5, <2>1, <2>3, <2>4
<1>10. CASE Cancelling \/ DiscardCancels
  <2>1. /\ turn.stage \in {"cancel", "withdraw"} /\ wakeups' = wakeups
        /\ work' = work \/ work' = Aborted(turn.run)
    BY <1>10 DEF Cancelling, DiscardCancels
  <2>2. work # None => work' # None /\ work'.run = work.run
    <3>1. work # None => /\ [work EXCEPT !.aborted = TRUE] \in Work
                         /\ [work EXCEPT !.aborted = TRUE].run = work.run
      BY <1>3 DEF Work
    <3> QED BY <2>1, <3>1, NoWorkerIsNone DEF Aborted
  <2>3. run' = run
    <3>1. SUFFICES ASSUME run' # run PROVE FALSE OBVIOUS
    <3>2. /\ Put(Routed(run, "cancel", turn.src)) /\ Is(turn.run)
          /\ Routable(run, "cancel", turn.src, 0, FALSE)
      BY <1>10, <3>1 DEF Cancelling, DiscardCancels
    <3>3. Routable(run, "cancel", turn.src, turn.question, FALSE) BY <3>2 DEF Routable
    <3> DEFINE n == Routed(run, "cancel", turn.src)
    <3>4. n \in Run /\ n.status = "cancelled" BY <2>1, <3>2, <3>3, Posts DEF Kind
    <3>5. Put(n) BY <3>2
    <3> HIDE DEF n
    <3>6. run'.status = "cancelled" BY <3>4, <3>5, PutType
    <3> QED BY <1>1, <3>6
  <2> QED BY <1>5, <2>1, <2>2, <2>3
<1>11. CASE Route
  <2>1. turn.stage = "route" /\ wakeups' = wakeups /\ work' = work BY <1>11 DEF Route
  <2>2. CASE run' = run BY <1>5, <2>1, <2>2
  <2>3. CASE run' # run
    <3>1. Is(turn.run) /\ To("wake") BY <1>1, <1>11, <2>3 DEF Route
    <3>2. turn'.stage = "wake" BY <1>3, <3>1, ToType DEF TurnStage
    <3>3. turn'.run = run'.id BY <3>2 DEF IInv, TurnShape, Holding, Is
    <3> QED BY <3>2, <3>3
  <2> QED BY <2>2, <2>3
<1>12. ~WakeWorker
  <2>1. WakeWorker => turn.stage = "wake" /\ turn'.stage = "done"
    BY <1>3, ToType DEF WakeWorker, TurnStage
  <2> QED BY <2>1 DEF Unwoken
<1>13. CASE Start
  <2>1. CASE Live(run)
    <3>1. run' = run /\ work' = work /\ wakeups' = wakeups /\ turn.stage = "start"
      BY <1>13, <2>1 DEF Start
    <3> QED BY <1>5, <3>1
  <2>2. CASE ~Live(run)
    <3>1. turn'.stage = "anchor" BY <1>3, <1>13, <2>2 DEF Start, Turn
    <3>2. turn'.run = run'.id BY <3>1 DEF IInv, TurnShape, Holding, Unlaunched, Is
    <3> QED BY <3>1, <3>2
  <2> QED BY <2>1, <2>2
<1>14. CASE Anchor
  <2>1. To("launch") \/ To("unlaunched") BY <1>14 DEF Anchor
  <2>2. turn'.stage \in {"launch", "unlaunched"} BY <1>3, <2>1, ToType DEF TurnStage
  <2> QED BY <2>2 DEF IInv, TurnShape, Holding, Unlaunched, Is
<1>15. CASE LaunchWork
  <2>1. turn.stage = "launch" /\ run' = run BY <1>15 DEF LaunchWork
  <2>2. run # None /\ turn.run = run.id
    BY <1>1, <2>1 DEF IInv, TurnShape, Holding, Unlaunched, Is
  <2>3. ~Launch(turn.run) BY <1>6, <2>1, <2>2 DEF KeptOut
  <2>4. turn'.stage = "unlaunched" BY <1>3, <1>15, <2>3, ToType DEF LaunchWork, TurnStage
  <2> QED BY <2>4 DEF IInv, TurnShape, Holding, Unlaunched, Is
<1>16. CASE FailUnlaunched
  <2>1. turn.stage = "unlaunched" BY <1>16 DEF FailUnlaunched
  <2>2. Is(turn.run) /\ run # None /\ run \in Run
    BY <2>1 DEF IInv, TypeOK, TurnShape, Holding, Unlaunched, Is
  <2>3. CASE Live(run)
    <3> DEFINE n == FailedRun(run)
    <3>1. Put(n) BY <1>16, <2>2, <2>3 DEF FailUnlaunched
    <3>2. n \in Run /\ Terminal(n) BY <2>2, FailedFields
    <3> HIDE DEF n
    <3> QED BY <1>1, <3>1, <3>2, PutType DEF Terminal, TerminalStatus
  <2>4. CASE ~Live(run)
    <3>1. run' = run BY <1>16, <2>4 DEF FailUnlaunched
    <3> QED BY <1>1, <2>2, <2>4, <3>1 DEF Live, Terminal, TerminalStatus
  <2> QED BY <2>3, <2>4
<1>17. CASE DiscardReads \/ DiscardWaits \/ EndTurn
  <2>1. run' = run /\ work' = work /\ wakeups' = wakeups /\ turn.stage \notin Hands
    BY <1>17 DEF DiscardReads, DiscardWaits, EndTurn
  <2> QED BY <1>5, <2>1
<1>18. ~DiscardErases BY <1>1 DEF DiscardErases
<1>19. CASE Admit \/ StartTurn \/ Drain \/ StopWork \/ Drained \/ UNCHANGED vars
  <2>1. run' = run /\ wakeups' = wakeups
    BY <1>19 DEF Admit, StartTurn, Drain, StopWork, Drained, vars
  <2>2. turn.stage \notin Hands \/ turn' = turn
    BY <1>19 DEF Admit, StartTurn, Drain, StopWork, Drained, vars, lane
  <2>3. ~StopWork BY <1>2 DEF StopWork
  <2>4. work' = work BY <1>19, <2>3 DEF Admit, StartTurn, Drain, Drained, vars
  <2> QED BY <1>5, <2>1, <2>2, <2>4
<1> QED BY <1>7, <1>8, <1>9, <1>10, <1>11, <1>12, <1>13, <1>14, <1>15, <1>16, <1>17, <1>18, <1>19
        DEF Next, Handler

(* While the process is up or draining, queued or running work loses its    *)
(* last hand only by a handler that ends without waking the run, or by the  *)
(* launch of a new run that its predecessor's worker keeps out: for every   *)
(* number of runs, messages and passes.                                     *)
THEOREM WorkNotDropped == Spec => NotDropped
<1>1. Init => FirstHand BY DEF Init, FirstHand
<1>2. IInv /\ FirstHand /\ [Next]_vars => FirstHand' BY StepShape, FirstHandKept
<1>3. IInv /\ FirstHand /\ [Next]_vars => (Attended => Attended' \/ Unwoken \/ KeptOut)
  BY StepShape, HandsKept
<1> QED BY <1>1, <1>2, <1>3, LaneInvariant, PTL DEF Spec, NotDropped
=============================================================================
