----------------------------- MODULE AgentRunProofs -----------------------------
(***************************************************************************)
(* Type correctness, scope exclusion and the finality of an erasure, for    *)
(* any messages, prompts, capacities and bounds, and any environment.       *)
(*                                                                         *)
(* TypeOK is not inductive: a step reads fields of `op.snap` or `attempt`   *)
(* that are only there because of how the operation came to its stage.      *)
(* IInv adds what each stage knows.                                         *)
(***************************************************************************)
EXTENDS AgentRun, ActiveRunProofs

QueueReq == {"op", "startDrop"}
WorkerKind == {"prepare", "finish", "unknown", "requeue", "settle", "fail"}
CommitStage == {"deliver", "sending", "sent", "unknown"}

(* What the holder of the active queue knows at each stage: an operation of *)
(* the worker has its attempt, a delivery has its effect and its checkpoint.*)
OpShape ==
  op # None =>
    /\ op.stage \in {"dropping", "start"} => op.kind = "start"
    /\ op.stage = "loaded" => op.kind \in {"none", "start"}
    /\ op.stage = "saving" /\ op.kind # "start" => op.snap # None
    /\ op.stage # "loaded" /\ op.kind \in WorkerKind =>
         attempt # None /\ attempt.stage \notin {"begun", "planning", "after"}
    /\ op.stage \in CommitStage \/ (op.stage = "saving" /\ op.kind = "finish") =>
         /\ op.kind \in WorkerKind
         /\ op.snap # None /\ op.snap.effect # None /\ op.snap.ckpt # None

(* An attempt about to ask has something to ask. *)
AskShape == attempt # None /\ attempt.stage = "ask" => attempt.ckpt.ask \in Prompts

(* At most one write of the active queue waits for the file, that of the    *)
(* operation that holds the queue.                                          *)
PendShape ==
  \A i \in 1 .. Len(pend) : pend[i].by \in QueueReq =>
    /\ op # None
    /\ op.stage = IF pend[i].by = "op" THEN "saving" ELSE "dropping"
    /\ pend[i].by = "op" /\ op.kind = "prepare" =>
         pend[i].draft.effect # None /\ pend[i].draft.ckpt # None
    /\ \A j \in 1 .. Len(pend) : pend[j].by \in QueueReq => i = j

IInv == TypeOK /\ OpShape /\ AskShape /\ PendShape

-----------------------------------------------------------------------------
(* The queue of writes. *)

(* Appending a write keeps the queue typed and the writes before it.        *)
LEMMA IssueAppends ==
  ASSUME TypeOK, NEW req \in Request, Issue(req)
  PROVE /\ pend' \in Seq(Request)
        /\ Len(pend') = Len(pend) + 1
        /\ \A i \in 1 .. Len(pend) : pend'[i] = pend[i]
        /\ pend'[Len(pend')] = req
  BY DEF TypeOK, Issue

(* A write that does not come from the active queue disturbs nothing.       *)
LEMMA IssueOther ==
  ASSUME IInv, NEW req \in Request, Issue(req), req.by \notin QueueReq, op' = op
  PROVE pend' \in Seq(Request) /\ PendShape'
<1> DEFINE n == Len(pend)
<1>0. TypeOK /\ PendShape BY DEF IInv
<1>1. /\ pend' \in Seq(Request) /\ Len(pend') = n + 1 /\ n \in Nat
      /\ \A i \in 1 .. n : pend'[i] = pend[i]
      /\ pend'[n + 1] = req
  BY <1>0, IssueAppends DEF TypeOK
<1>2. \A i \in 1 .. Len(pend') : pend'[i].by \in QueueReq => i \in 1 .. n
  BY <1>1
<1> QED BY <1>0, <1>1, <1>2 DEF PendShape

(* When the holder of the active queue has no write under way, none of the  *)
(* queued writes is its own.                                                *)
LEMMA NoQueueReq ==
  ASSUME IInv, op = None \/ op.stage \notin {"saving", "dropping"}
  PROVE \A i \in 1 .. Len(pend) : pend[i].by \notin QueueReq
  BY DEF IInv, PendShape

(* The holder issues its own write. *)
LEMMA IssueOwn ==
  ASSUME IInv, NEW req \in Request, Issue(req), req.by \in QueueReq,
         op = None \/ op.stage \notin {"saving", "dropping"},
         op' # None, op'.stage = IF req.by = "op" THEN "saving" ELSE "dropping",
         req.by = "op" /\ op'.kind = "prepare" => req.draft.effect # None /\ req.draft.ckpt # None
  PROVE pend' \in Seq(Request) /\ PendShape'
<1> DEFINE n == Len(pend)
<1>1. /\ pend' \in Seq(Request) /\ Len(pend') = n + 1 /\ n \in Nat
      /\ \A i \in 1 .. n : pend'[i] = pend[i]
      /\ pend'[n + 1] = req
  BY IssueAppends DEF TypeOK, IInv
<1>2. \A i \in 1 .. n : pend[i].by \notin QueueReq BY NoQueueReq
<1>3. \A i \in 1 .. Len(pend') : pend'[i].by \in QueueReq => i = n + 1
  BY <1>1, <1>2
<1> QED BY <1>1, <1>3 DEF PendShape

(* The oldest write is taken from the queue. *)
LEMMA TakeFirst ==
  ASSUME TypeOK, pend # <<>>, pend' = Tail(pend)
  PROVE /\ First \in Request /\ First = pend[1] /\ 1 \in 1 .. Len(pend)
        /\ pend' \in Seq(Request) /\ Len(pend') = Len(pend) - 1
        /\ \A i \in 1 .. Len(pend') : i + 1 \in 1 .. Len(pend) /\ pend'[i] = pend[i + 1]
  BY DEF TypeOK, First

(* Taking another write leaves the holder's own in place. *)
LEMMA TakeOther ==
  ASSUME IInv, pend # <<>>, pend' = Tail(pend), op' = op
  PROVE pend' \in Seq(Request) /\ PendShape'
<1>0. TypeOK /\ PendShape BY DEF IInv
<1>1. /\ pend' \in Seq(Request) /\ Len(pend') \in Nat
      /\ \A i \in 1 .. Len(pend') : i + 1 \in 1 .. Len(pend) /\ pend'[i] = pend[i + 1]
  BY <1>0, TakeFirst DEF TypeOK
<1>2. SUFFICES ASSUME NEW i \in 1 .. Len(pend'), pend'[i].by \in QueueReq
               PROVE  /\ op # None
                      /\ op.stage = IF pend'[i].by = "op" THEN "saving" ELSE "dropping"
                      /\ pend'[i].by = "op" /\ op.kind = "prepare" =>
                           pend'[i].draft.effect # None /\ pend'[i].draft.ckpt # None
                      /\ \A j \in 1 .. Len(pend') : pend'[j].by \in QueueReq => i = j
  BY <1>1 DEF PendShape
<1>3. \A j \in 1 .. Len(pend') : pend'[j].by \in QueueReq => i + 1 = j + 1
  BY <1>0, <1>1, <1>2 DEF PendShape
<1>4. \A j \in 1 .. Len(pend') : pend'[j].by \in QueueReq => i = j
  BY <1>3
<1> QED BY <1>0, <1>1, <1>2, <1>4 DEF PendShape

(* After the holder's own write, the queue holds nothing of its kind.       *)
LEMMA TakeOwn ==
  ASSUME IInv, pend # <<>>, pend' = Tail(pend), First.by \in QueueReq
  PROVE pend' \in Seq(Request) /\ PendShape'
<1>0. TypeOK /\ PendShape BY DEF IInv
<1>1. /\ pend' \in Seq(Request) /\ Len(pend') \in Nat /\ First = pend[1] /\ 1 \in 1 .. Len(pend)
      /\ \A i \in 1 .. Len(pend') : i + 1 \in 1 .. Len(pend) /\ pend'[i] = pend[i + 1]
  BY <1>0, TakeFirst DEF TypeOK
<1>2. \A i \in 1 .. Len(pend') : pend[i + 1].by \in QueueReq => 1 = i + 1
  BY <1>0, <1>1 DEF PendShape
<1>3. \A i \in 1 .. Len(pend') : pend'[i].by \notin QueueReq
  BY <1>1, <1>2
<1> QED BY <1>1, <1>3 DEF PendShape

(* A step that leaves the queue alone, and is not the holder waiting for it.*)
LEMMA PendKept ==
  ASSUME IInv, pend' = pend,
         op' = op \/ op = None \/ op.stage \notin {"saving", "dropping"}
  PROVE pend' \in Seq(Request) /\ PendShape'
<1>1. CASE op' = op BY <1>1 DEF IInv, TypeOK, PendShape
<1>2. CASE op = None \/ op.stage \notin {"saving", "dropping"}
  <2>1. \A i \in 1 .. Len(pend) : pend[i].by \notin QueueReq BY <1>2, NoQueueReq
  <2> QED BY <2>1 DEF IInv, TypeOK, PendShape
<1> QED BY <1>1, <1>2

-----------------------------------------------------------------------------
(* Every action preserves the invariant. *)

(* The program starts in the invariant. *)
LEMMA InitShape == Init => IInv
<1> SUFFICES ASSUME Init PROVE IInv OBVIOUS
<1>1. pend \in Seq(Request) /\ Len(pend) = 0 BY DEF Init
<1>2. chain \in Chain BY DEF Init, Idle, Chain
<1>3. TypeOK BY <1>1, <1>2 DEF Init, TypeOK, Lateness, Modes
<1>4. OpShape /\ AskShape BY DEF Init, OpShape, AskShape
<1>5. PendShape BY <1>1 DEF PendShape
<1> QED BY <1>3, <1>4, <1>5 DEF IInv

(* What an operation knows of the record it loaded. *)
LEMMA SnapType == ASSUME TypeOK, op # None PROVE op \in Op /\ (op.snap # None => op.snap \in Run)
  BY DEF TypeOK, Op

(* A compare-and-swap save is issued by an operation that has a snapshot.   *)
LEMMA SaveShape ==
  ASSUME IInv, op # None, op.stage \notin {"saving", "dropping"}, op.snap # None,
         NEW kind \in SaveKind, NEW n \in Run, Save(kind, n), kind # "start",
         kind = "prepare" => n.effect # None /\ n.ckpt # None,
         kind = "finish" => op.stage \in CommitStage,
         kind \in WorkerKind => attempt # None /\ attempt.stage \notin {"begun", "planning", "after"},
         attempt' = attempt
  PROVE /\ op' \in Op /\ pend' \in Seq(Request)
        /\ OpShape' /\ PendShape' /\ AskShape'
<1> DEFINE req == [by |-> "op", draft |-> n, expect |-> n.rev]
<1>0. TypeOK /\ OpShape /\ AskShape BY DEF IInv
<1>1. op' = [op EXCEPT !.stage = "saving", !.kind = kind] /\ Issue(req) BY DEF Save
<1>2. op \in Op BY <1>0 DEF TypeOK
<1>3. op' \in Op /\ op'.stage = "saving" /\ op'.kind = kind /\ op'.snap = op.snap
  BY <1>1, <1>2 DEF Op
<1>4. op' # None BY <1>3, NoMemoryIsNone
<1>5. n.rev \in Nat BY DEF Run
<1>6. req \in Request /\ req.by = "op" /\ req.draft = n BY <1>5 DEF Request, SaveReq
<1>7. pend' \in Seq(Request) /\ PendShape'
  BY <1>1, <1>3, <1>4, <1>6, IssueOwn DEF QueueReq
<1>8. OpShape' BY <1>0, <1>3 DEF OpShape, CommitStage, WorkerKind
<1>9. AskShape' BY <1>0 DEF AskShape
<1> QED BY <1>3, <1>7, <1>8, <1>9

(* Steps that touch neither the active queue nor the queue of writes. *)
LEMMA QuietShape ==
  ASSUME IInv, UNCHANGED <<op, pend>>, AskShape',
         \/ attempt' = attempt
         \/ attempt # None /\ attempt.stage \in {"begun", "planning", "after"}
         \/ attempt # None /\ attempt' # None /\ attempt'.stage = attempt.stage
  PROVE pend' \in Seq(Request) /\ op' \in Op \cup {None} /\ OpShape' /\ PendShape'
<1>0. OpShape /\ op \in Op \cup {None} BY DEF IInv, TypeOK
<1>1. pend' \in Seq(Request) /\ PendShape' BY PendKept
<1>2. OpShape' BY <1>0 DEF OpShape
<1> QED BY <1>0, <1>1, <1>2

(* Operations of ingress and recovery. *)
LEMMA ServiceShape == IInv /\ Service => IInv'
<1> SUFFICES ASSUME IInv, Service PROVE IInv' OBVIOUS
<1>0. TypeOK /\ OpShape /\ AskShape BY DEF IInv
<1> USE DEF file, world
<1>a. ASSUME NEW kind \in {"attach", "route", "expire", "recover", "failExternally"},
             NEW n \in Run, Loaded, op.snap # None, Save(kind, n),
             UNCHANGED <<file, blocked, attempt, chain, mode, lastId, world>>
      PROVE IInv'
  <2>1. op # None /\ op.stage \notin {"saving", "dropping"} BY <1>a DEF Loaded
  <2>2. kind \in SaveKind /\ kind \notin WorkerKind /\ kind # "start"
    BY DEF SaveKind, WorkerKind
  <2>3. kind # "prepare" /\ kind # "finish" BY DEF SaveKind
  <2>4. op' \in Op /\ pend' \in Seq(Request) /\ OpShape' /\ PendShape' /\ AskShape'
    BY <1>a, <2>1, <2>2, <2>3, SaveShape
  <2> QED BY <1>0, <1>a, <2>4 DEF IInv, TypeOK
<1>1. CASE Enter
  <2>1. op' \in Op BY <1>0, <1>1 DEF Enter, TypeOK, Op
  <2>2. OpShape' BY <1>1 DEF Enter, OpShape, WorkerKind, CommitStage
  <2>3. PendShape' BY <1>1, PendKept DEF Enter
  <2> QED BY <1>0, <1>1, <2>1, <2>2, <2>3 DEF Enter, IInv, TypeOK, AskShape
<1>2. CASE Return
  <2>1. PendShape' BY <1>2, PendKept DEF Return
  <2>2. chain' \in Chain BY <1>0, <1>2 DEF Return, TypeOK, Chain
  <2> QED BY <1>0, <1>2, <2>1, <2>2 DEF Return, IInv, TypeOK, OpShape, AskShape
<1>3. CASE EnterStart
  <2>1. op' \in Op BY <1>0, <1>3 DEF EnterStart, TypeOK, Op, SaveKind
  <2>2. OpShape' BY <1>3 DEF EnterStart, OpShape, WorkerKind, CommitStage
  <2>3. PendShape' BY <1>3, PendKept DEF EnterStart
  <2>4. chain' \in Chain BY <1>0, <1>3 DEF EnterStart, TypeOK, Chain
  <2> QED BY <1>0, <1>3, <2>1, <2>2, <2>3, <2>4 DEF EnterStart, IInv, TypeOK, AskShape
<1>4. CASE StartMeetsLegacy
  <2>1. op' \in Op /\ op' # None BY <1>0, <1>4, NoMemoryIsNone DEF StartMeetsLegacy, TypeOK, Op
  <2>2. op'.kind = "start" /\ op'.stage = IF legacy = None THEN "start" ELSE "dropping"
    BY <1>0, <1>4 DEF StartMeetsLegacy, TypeOK, Op
  <2>3. OpShape' BY <2>2 DEF OpShape, WorkerKind, CommitStage
  <2>4. pend' \in Seq(Request) /\ PendShape'
    <3>1. CASE legacy = None
      <4>1. pend' = pend /\ op.stage = "loaded" BY <1>4, <3>1 DEF StartMeetsLegacy
      <4> QED BY <4>1, PendKept
    <3>2. CASE legacy # None
      <4> DEFINE req == [by |-> "startDrop", id |-> legacy.id, rev |-> legacy.rev]
      <4>1. Issue(req) /\ op.stage = "loaded" BY <1>4, <3>2 DEF StartMeetsLegacy
      <4>2. legacy \in Legacy BY <1>0, <3>2 DEF TypeOK
      <4>3. req \in Request /\ req.by = "startDrop" BY <4>2 DEF Request, DropReq, Legacy
      <4> HIDE DEF req
      <4> QED BY <2>1, <2>2, <3>2, <4>1, <4>3, IssueOwn DEF QueueReq
    <3> QED BY <3>1, <3>2
  <2> QED BY <1>0, <1>4, <2>1, <2>3, <2>4 DEF StartMeetsLegacy, IInv, TypeOK, AskShape
<1>5. CASE StartActive
  <2> DEFINE req == [by |-> "op", draft |-> NewRun(lastId + 1), expect |-> 0]
  <2>1. op \in Op /\ op.kind = "start" /\ op.stage = "start"
    BY <1>0, <1>5 DEF StartActive, TypeOK, OpShape
  <2>2. op' \in Op /\ op'.kind = "start" /\ op'.stage = "saving"
    BY <1>5, <2>1 DEF StartActive, Op
  <2>3. op' # None BY <2>2, NoMemoryIsNone
  <2>4. OpShape' BY <2>2 DEF OpShape, WorkerKind, CommitStage
  <2>5. lastId' \in Nat BY <1>0, <1>5 DEF StartActive, TypeOK
  <2>6. NewRun(lastId + 1) \in Run BY <1>5, <2>5, NewRunType DEF StartActive
  <2>7. req \in Request /\ req.by = "op" /\ Issue(req)
    BY <1>5, <2>6 DEF StartActive, Request, SaveReq
  <2> HIDE DEF req
  <2>8. pend' \in Seq(Request) /\ PendShape'
    BY <2>1, <2>2, <2>3, <2>7, IssueOwn DEF QueueReq
  <2> QED BY <1>0, <1>5, <2>2, <2>4, <2>5, <2>8 DEF StartActive, IInv, TypeOK, AskShape
<1>6. CASE Anchor
  <2>1. op.snap \in Run BY <1>0, <1>6, SnapType DEF Anchor, Loaded
  <2>2. [op.snap EXCEPT !.anchored = TRUE] \in Run BY <2>1 DEF Run
  <2> QED BY <1>6, <1>a, <2>2 DEF Anchor
<1>7. CASE RouteMessage
  <2>1. PICK kind \in Kind, src \in Sources, q \in 0 .. MaxRev + 2 :
          /\ Loaded /\ op.snap # None
          /\ Routable(op.snap, kind, src, q, late # "no")
          /\ Save("route", Routed(op.snap, kind, src))
          /\ UNCHANGED <<file, blocked, attempt, chain, mode, lastId, world>>
    BY <1>7 DEF RouteMessage
  <2>2. op.snap \in Run BY <1>0, <2>1, SnapType DEF Loaded
  <2>3. kind = "answer" => op.snap.question # None BY <2>1 DEF Routable, AnswerBinds
  <2>4. Routed(op.snap, kind, src) \in Run BY <2>2, <2>3, RoutedType
  <2> QED BY <2>1, <2>4, <1>a
<1>8. CASE ExpireWaiting
  <2>1. op.snap \in Run BY <1>0, <1>8, SnapType DEF ExpireWaiting, Loaded
  <2>2. Closed(op.snap, "failed") \in Run BY <2>1, ClosedType DEF TerminalStatus
  <2> QED BY <1>8, <1>a, <2>2 DEF ExpireWaiting
<1>9. CASE FailUnlaunched
  <2>1. op.snap \in Run BY <1>0, <1>9, SnapType DEF FailUnlaunched, Loaded
  <2> QED BY <1>9, <1>a, <2>1, FailedRunType DEF FailUnlaunched
<1>10. CASE Recover
  <2>1. op.snap \in Run /\ op.stage = "loaded" BY <1>0, <1>10, SnapType DEF Recover, Loaded
  <2>2. CASE late = "run" /\ ~Terminal(op.snap)
    <3> DEFINE req == [by |-> "drop", id |-> op.snap.id, rev |-> op.snap.rev]
    <3>1. Issue(req) /\ op' = None BY <1>10, <2>2 DEF Recover
    <3>2. req \in Request /\ req.by = "drop" BY <2>1 DEF Request, DropReq, Run
    <3> HIDE DEF req
    <3>3. pend' \in Seq(Request) /\ PendShape'
      <4>0. TypeOK BY <1>0
      <4>1. /\ pend' \in Seq(Request) /\ Len(pend') = Len(pend) + 1 /\ Len(pend) \in Nat
            /\ \A i \in 1 .. Len(pend) : pend'[i] = pend[i]
            /\ pend'[Len(pend')] = req
        BY <1>0, <3>1, <3>2, IssueAppends DEF TypeOK
      <4>2. \A i \in 1 .. Len(pend) : pend[i].by \notin QueueReq BY <2>1, NoQueueReq
      <4>3. req.by \notin QueueReq BY <3>2 DEF QueueReq
      <4>4. \A i \in 1 .. Len(pend') : i \in 1 .. Len(pend) \/ i = Len(pend') BY <4>1
      <4>5. \A i \in 1 .. Len(pend') : pend'[i].by \notin QueueReq BY <4>1, <4>2, <4>3, <4>4
      <4> QED BY <4>1, <4>5 DEF PendShape
    <3> QED BY <1>0, <1>10, <3>1, <3>3 DEF Recover, IInv, TypeOK, OpShape, AskShape
  <2>3. CASE ~(late = "run" /\ ~Terminal(op.snap))
    <3>1. Recovered(op.snap, late # "no") \in Run BY <2>1, RecoveredType
    <3> QED BY <1>10, <1>a, <2>3, <3>1 DEF Recover
  <2> QED BY <2>2, <2>3
<1>11. CASE Booted
  <2>1. AskShape' BY <1>0, <1>11 DEF Booted, AskShape
  <2>2. pend' \in Seq(Request) /\ op' \in Op \cup {None} /\ OpShape' /\ PendShape'
    BY <1>11, <2>1, QuietShape DEF Booted
  <2> QED BY <1>0, <1>11, <2>1, <2>2 DEF Booted, IInv, TypeOK, Modes
<1> QED BY <1>1, <1>2, <1>3, <1>4, <1>5, <1>6, <1>7, <1>8, <1>9, <1>10, <1>11 DEF Service

(* What beginActiveAttempt returns is an attempt. *)
LEMMA AttemptType ==
  ASSUME NEW r \in Run
  PROVE /\ AttemptOn(r) \in Attempt /\ AttemptOn(r).stage = "begun"
        /\ FailingOn(r) \in Attempt /\ FailingOn(r).stage = "failing"
<1>1. Begun(r) \in Run BY BegunType
<1>2. SourcesOf(Pending(r)) \in SUBSET Sources BY PendingType, SourcesOfType
<1>3. [EmptyCkpt EXCEPT !.seen = SourcesOf(Pending(r))] \in Checkpoint
  BY <1>2 DEF EmptyCkpt, Checkpoint
<1> DEFINE ck == IF Begun(r).ckpt # None THEN Begun(r).ckpt
                 ELSE [EmptyCkpt EXCEPT !.seen = SourcesOf(Pending(r))]
<1>4. ck \in Checkpoint BY <1>1, <1>3 DEF Run
<1>5. AttemptOn(r) = [run |-> Begun(r).id, inRev |-> Begun(r).instr, answer |-> Begun(r).answer,
                      stage |-> "begun", aborted |-> mode = "stopping", ckpt |-> ck]
  BY DEF AttemptOn
<1> HIDE DEF ck
<1>6. AttemptOn(r) \in Attempt /\ AttemptOn(r).stage = "begun"
  BY <1>1, <1>4, <1>5 DEF Attempt, WorkStage, Run
<1>7. FailingOn(r) \in Attempt /\ FailingOn(r).stage = "failing"
  BY <1>6 DEF FailingOn, Attempt, WorkStage
<1> QED BY <1>6, <1>7

(* The worker moves to its next stage. *)
LEMMA AtType ==
  ASSUME TypeOK, attempt # None, NEW stage \in WorkStage, At(stage)
  PROVE attempt' \in Attempt /\ attempt' # None /\ attempt'.stage = stage /\ attempt'.ckpt = attempt.ckpt
<1>1. attempt \in Attempt BY DEF TypeOK
<1>2. attempt' \in Attempt BY <1>1 DEF At, Attempt
<1> QED BY <1>1, <1>2, NoMemoryIsNone DEF At, Attempt

(* Steps of the harness, which never hold the active queue. *)
LEMMA HarnessShape == IInv /\ (Resume \/ Decide \/ StopWork \/ Leave \/ AbortWorker) => IInv'
<1> SUFFICES ASSUME IInv, Resume \/ Decide \/ StopWork \/ Leave \/ AbortWorker PROVE IInv' OBVIOUS
<1>0. TypeOK /\ OpShape /\ AskShape BY DEF IInv
<1> USE DEF file, world
<1>a. ASSUME attempt # None, attempt.stage \in {"begun", "planning", "after"},
             attempt' \in Attempt \cup {None}, AskShape',
             UNCHANGED <<file, blocked, op, pend, chain, mode, lastId, world>>
      PROVE IInv'
  <2>1. pend' \in Seq(Request) /\ op' \in Op \cup {None} /\ OpShape' /\ PendShape'
    BY <1>a, QuietShape
  <2> QED BY <1>0, <1>a, <2>1 DEF IInv, TypeOK
<1>b. ASSUME NEW stage \in WorkStage, stage # "ask", At(stage),
             attempt # None, attempt.stage \in {"begun", "planning", "after"},
             UNCHANGED <<file, blocked, op, pend, chain, mode, lastId, world>>
      PROVE IInv'
  <2>1. attempt' \in Attempt /\ attempt'.stage = stage BY <1>0, <1>b, AtType
  <2>2. AskShape' BY <1>b, <2>1 DEF AskShape
  <2> QED BY <1>a, <1>b, <2>1, <2>2
<1>1. CASE Resume
  <2>0. attempt \in Attempt /\ attempt # None /\ attempt.stage = "begun"
    BY <1>0, <1>1 DEF Resume, Working, TypeOK
  <2>1. CASE attempt.ckpt.ask = None
    BY <1>1, <1>b, <2>0, <2>1 DEF Resume, WorkStage
  <2>2. CASE attempt.ckpt.ask # None /\ attempt.answer = None
    <3>1. At("ask") BY <1>1, <2>2 DEF Resume
    <3>2. attempt' \in Attempt /\ attempt'.ckpt = attempt.ckpt BY <1>0, <2>0, <3>1, AtType DEF WorkStage
    <3>3. AskShape' BY <2>0, <2>2, <3>2 DEF AskShape, Attempt, Checkpoint
    <3> QED BY <1>1, <1>a, <2>0, <3>2, <3>3 DEF Resume
  <2>3. CASE attempt.ckpt.ask # None /\ attempt.answer # None
    <3> DEFINE ck == [seen |-> attempt.ckpt.seen \cup {attempt.answer.src}, ask |-> None]
    <3>1. attempt.answer \in Answer /\ attempt.ckpt \in Checkpoint BY <2>0, <2>3 DEF Attempt
    <3>2. ck \in Checkpoint BY <3>1 DEF Answer, Checkpoint
    <3>3. attempt' = [attempt EXCEPT !.stage = "planning", !.ckpt = ck] BY <1>1, <2>3 DEF Resume
    <3> HIDE DEF ck
    <3>4. attempt' \in Attempt /\ attempt'.stage = "planning" BY <2>0, <3>2, <3>3 DEF Attempt, WorkStage
    <3>5. AskShape' BY <3>4 DEF AskShape
    <3> QED BY <1>1, <1>a, <2>0, <3>4, <3>5 DEF Resume
  <2> QED BY <2>1, <2>2, <2>3
<1>2. CASE Decide
  <2>0. attempt \in Attempt /\ attempt # None /\ attempt.stage = "planning"
    BY <1>0, <1>2 DEF Decide, Working, TypeOK
  <2>1. CASE At("final") BY <1>2, <1>b, <2>0, <2>1 DEF Decide, WorkStage
  <2>2. CASE At("stopped") \/ At("approval") BY <1>2, <1>b, <2>0, <2>2 DEF Decide, WorkStage
  <2>3. CASE \E q \in Prompts : attempt' = [attempt EXCEPT !.stage = "ask", !.ckpt.ask = q]
    <3>1. PICK q \in Prompts : attempt' = [attempt EXCEPT !.stage = "ask", !.ckpt.ask = q] BY <2>3
    <3>2. [attempt.ckpt EXCEPT !.ask = q] \in Checkpoint BY <2>0 DEF Attempt, Checkpoint
    <3>3. attempt' \in Attempt /\ attempt'.ckpt.ask = q
      BY <2>0, <3>1, <3>2 DEF Attempt, WorkStage, Checkpoint
    <3>4. AskShape' BY <3>3 DEF AskShape
    <3> QED BY <1>2, <1>a, <2>0, <3>3, <3>4 DEF Decide
  <2> QED BY <1>2, <2>1, <2>2, <2>3 DEF Decide
<1>3. CASE StopWork
  BY <1>3, <1>b DEF StopWork, Working, WorkStage
<1>4. CASE Leave
  <2>1. CASE attempt' = None
    <3>1. AskShape' BY <2>1 DEF AskShape
    <3> QED BY <1>4, <1>a, <2>1, <3>1 DEF Leave, Working
  <2>2. CASE At("failing") BY <1>4, <1>b, <2>2 DEF Leave, Working, WorkStage
  <2> QED BY <1>4, <2>1, <2>2 DEF Leave
<1>5. CASE AbortWorker
  <2>1. attempt \in Attempt /\ attempt # None /\ attempt' = [attempt EXCEPT !.aborted = TRUE]
    BY <1>0, <1>5 DEF AbortWorker, TypeOK
  <2>2. /\ attempt' \in Attempt /\ attempt' # None
        /\ attempt'.stage = attempt.stage /\ attempt'.ckpt = attempt.ckpt
    BY <2>1, NoMemoryIsNone DEF Attempt
  <2>3. AskShape' BY <1>0, <2>1, <2>2 DEF AskShape
  <2>4. pend' \in Seq(Request) /\ op' \in Op \cup {None} /\ OpShape' /\ PendShape'
    BY <1>5, <2>1, <2>2, <2>3, QuietShape DEF AbortWorker
  <2> QED BY <1>0, <1>5, <2>2, <2>3, <2>4 DEF AbortWorker, IInv, TypeOK
<1> QED BY <1>1, <1>2, <1>3, <1>4, <1>5

(* Operations of the worker that return without a save. *)
LEMMA RefusedShape ==
  ASSUME IInv, op # None, op.stage \notin {"saving", "dropping"}, op' = None,
         attempt' \in Attempt \cup {None}, attempt' # None => attempt'.stage # "ask",
         UNCHANGED <<file, blocked, pend, chain, mode, lastId, world>>
  PROVE IInv'
<1>1. pend' \in Seq(Request) /\ PendShape' BY PendKept
<1>2. OpShape' /\ AskShape' BY DEF OpShape, AskShape
<1> QED BY <1>1, <1>2 DEF IInv, TypeOK, file, world

(* Operations of the worker that save. *)
LEMMA WorkSaveShape ==
  ASSUME IInv, op # None, op.stage \notin {"saving", "dropping"}, op.snap # None,
         NEW kind \in SaveKind, NEW n \in Run, Save(kind, n), kind # "start",
         kind = "prepare" => n.effect # None /\ n.ckpt # None,
         kind = "finish" => op.stage \in CommitStage,
         kind \in WorkerKind => attempt # None /\ attempt.stage \notin {"begun", "planning", "after"},
         UNCHANGED <<file, blocked, attempt, chain, mode, lastId, world>>
  PROVE IInv'
<1>1. op' \in Op /\ pend' \in Seq(Request) /\ OpShape' /\ PendShape' /\ AskShape'
  BY SaveShape
<1> QED BY <1>1 DEF IInv, TypeOK, file, world

(* The draft of a commit announces an effect and carries the checkpoint.    *)
LEMMA DraftType ==
  ASSUME IInv, op # None, op.snap # None, Working("final") \/ Working("ask")
  PROVE Draft \in Run /\ Draft.effect # None /\ Draft.ckpt # None
<1>0. TypeOK /\ AskShape BY DEF IInv
<1>1. op.snap \in Run BY <1>0, SnapType
<1>2. attempt.inRev \in Nat /\ attempt.ckpt \in Checkpoint BY <1>0 DEF TypeOK, Attempt, Working
<1>3. CASE attempt.stage = "final"
  <2>1. Draft = PreparedFinal(op.snap, attempt.inRev, attempt.ckpt) BY <1>3 DEF Draft
  <2>2. Draft \in Run BY <1>1, <1>2, <2>1, PreparedFinalType
  <2>3. Draft.ckpt = attempt.ckpt /\ Draft.effect.purpose = "final" /\ Draft.effect \in Effect \cup {None}
    BY <1>1, <1>2, <2>1, <2>2 DEF PreparedFinal, Run
  <2>4. Draft.effect = [id |-> NextId(op.snap), purpose |-> "final", instr |-> attempt.inRev]
    BY <1>1, <2>1 DEF PreparedFinal, Run
  <2>5. Draft.effect \in Effect BY <1>1, <1>2, <2>4 DEF Effect, Purpose, NextId, Run
  <2> QED BY <1>2, <2>2, <2>3, <2>5, NoRecordIsNone
<1>4. CASE attempt.stage # "final"
  <2>0. attempt.ckpt.ask \in Prompts BY <1>0, <1>4 DEF Working, AskShape
  <2>1. Draft = PreparedQuestion(op.snap, attempt.inRev, attempt.ckpt) BY <1>4 DEF Draft
  <2>2. Draft \in Run BY <1>1, <1>2, <2>0, <2>1, PreparedQuestionType
  <2>3. Draft.ckpt = attempt.ckpt BY <1>1, <2>1 DEF PreparedQuestion, Run
  <2>4. Draft.effect = [id |-> NextId(op.snap), purpose |-> "question", instr |-> attempt.inRev]
    BY <1>1, <2>1 DEF PreparedQuestion, Run
  <2>5. Draft.effect \in Effect BY <1>1, <1>2, <2>4 DEF Effect, Purpose, NextId, Run
  <2> QED BY <1>2, <2>2, <2>3, <2>5, NoRecordIsNone
<1> QED BY <1>3, <1>4

(* Operations of the worker in the active queue. *)
LEMMA WorkerShape == IInv /\ Worker => IInv'
<1> SUFFICES ASSUME IInv, Worker PROVE IInv' OBVIOUS
<1>0. TypeOK /\ OpShape /\ AskShape BY DEF IInv
<1>a. Loaded => op # None /\ op.stage = "loaded" /\ (op.snap # None => op.snap \in Run)
  BY <1>0, SnapType DEF Loaded
<1>b. attempt # None => attempt \in Attempt /\ attempt.inRev \in Nat /\ attempt.ckpt \in Checkpoint
  BY <1>0 DEF TypeOK, Attempt
<1>c. \A k \in {"begin", "prepare", "finish", "unknown", "requeue", "settle", "fail"} :
        k \in SaveKind /\ k # "start"
  BY DEF SaveKind
<1>d. ASSUME NEW stage \in WorkStage \ {"ask"}, attempt # None, At(stage)
      PROVE attempt' \in Attempt \cup {None} /\ attempt'.stage # "ask"
  BY <1>0, <1>d, AtType
<1>e. op # None /\ op.stage \in CommitStage =>
        /\ attempt # None /\ attempt.stage \notin {"begun", "planning", "after"}
        /\ op \in Op /\ op.kind \in WorkerKind
        /\ op.snap \in Run /\ op.snap # None /\ op.snap.effect # None /\ op.snap.ckpt # None
  BY <1>0, SnapType DEF OpShape, CommitStage
<1>1. CASE BeginAttempt
  <2>0. op.snap \in Run /\ op.snap # None /\ op # None /\ op.stage = "loaded"
    BY <1>1, <1>a DEF BeginAttempt
  <2>1. CASE Save("begin", Begun(op.snap)) /\ UNCHANGED attempt
    <3>1. Begun(op.snap) \in Run BY <2>0, BegunType
    <3> QED BY <1>1, <1>c, <2>0, <2>1, <3>1, WorkSaveShape DEF BeginAttempt, WorkerKind
  <2>2. CASE attempt' = FailingOn(op.snap) /\ op' = None /\ UNCHANGED pend
    <3>1. attempt' \in Attempt /\ attempt'.stage # "ask" BY <2>0, <2>2, AttemptType
    <3> QED BY <1>1, <2>0, <2>2, <3>1, RefusedShape DEF BeginAttempt
  <2> QED BY <1>1, <2>1, <2>2 DEF BeginAttempt
<1>2. CASE Prepare
  <2>1. op.snap # None /\ op # None /\ op.stage = "loaded" /\ attempt # None
        /\ attempt.stage \in {"final", "ask"} /\ Save("prepare", Draft)
    BY <1>2, <1>a DEF Prepare, Reached, Found, Working
  <2>2. Draft \in Run /\ Draft.effect # None /\ Draft.ckpt # None
    BY <1>2, <2>1, DraftType DEF Prepare
  <2> QED BY <1>2, <1>c, <2>1, <2>2, WorkSaveShape DEF Prepare
<1>3. CASE CommitRefused
  <2>1. attempt # None /\ (At("failing") \/ At("stale")) BY <1>3 DEF CommitRefused, Working
  <2>2. attempt' \in Attempt \cup {None} /\ attempt'.stage # "ask" BY <1>d, <2>1 DEF WorkStage
  <2> QED BY <1>3, <1>a, <2>2, RefusedShape DEF CommitRefused
<1>4. CASE CallDeliver
  <2>1. op # None /\ op.stage = "deliver" BY <1>4 DEF CallDeliver
  <2>2. op' \in Op /\ op'.stage \in {"unknown", "sending"} /\ op'.kind = op.kind /\ op'.snap = op.snap
    BY <1>4, <1>e, <2>1 DEF CallDeliver, Op, CommitStage
  <2>3. OpShape' BY <1>4, <1>e, <2>1, <2>2 DEF CallDeliver, OpShape, CommitStage
  <2>4. PendShape' BY <1>4, <2>1, PendKept DEF CallDeliver
  <2> QED BY <1>0, <1>4, <2>2, <2>3, <2>4 DEF CallDeliver, IInv, TypeOK, AskShape, file, world
<1>5. CASE Deliver
  <2>1. op # None /\ op.stage = "sending" BY <1>5 DEF Deliver
  <2>2. op' \in Op /\ op'.stage \in {"unknown", "sent"} /\ op'.kind = op.kind /\ op'.snap = op.snap
    BY <1>5, <1>e, <2>1 DEF Deliver, Op, CommitStage
  <2>3. OpShape' BY <1>5, <1>e, <2>1, <2>2 DEF Deliver, OpShape, CommitStage
  <2>4. PendShape' BY <1>5, <2>1, PendKept DEF Deliver
  <2>5. op.snap \in Run /\ op.snap.effect \in Effect /\ op.snap.ckpt \in Checkpoint
    BY <1>e, <2>1 DEF CommitStage, Run
  <2>6. Outgoing(op.snap) \in Sent BY <2>5 DEF Outgoing, Sent, Run, Effect, Checkpoint
  <2>7. sent' \subseteq Sent BY <1>0, <1>5, <2>6 DEF Deliver, TypeOK
  <2> QED BY <1>0, <1>5, <2>2, <2>3, <2>4, <2>7 DEF Deliver, IInv, TypeOK, AskShape, file
<1>6. CASE FinishCommit
  <2>1. op # None /\ op.stage = "sent" BY <1>6 DEF FinishCommit
  <2>2. Committed(op.snap) \in Run BY <1>e, <2>1, SettledEffectType DEF Committed, CommitStage
  <2>3. CASE Save("finish", Committed(op.snap))
    BY <1>6, <1>c, <1>e, <2>1, <2>2, <2>3, WorkSaveShape DEF FinishCommit, CommitStage
  <2>4. CASE op' = [op EXCEPT !.stage = "unknown"] /\ UNCHANGED pend
    <3>1. op' \in Op /\ op'.stage = "unknown" /\ op'.kind = op.kind /\ op'.snap = op.snap
      BY <1>e, <2>1, <2>4 DEF Op, CommitStage
    <3>2. OpShape' BY <1>6, <1>e, <2>1, <3>1 DEF FinishCommit, OpShape, CommitStage
    <3>3. PendShape' BY <2>1, <2>4, PendKept
    <3> QED BY <1>0, <1>6, <2>4, <3>1, <3>2, <3>3 DEF FinishCommit, IInv, TypeOK, AskShape, file, world
  <2> QED BY <1>6, <2>3, <2>4 DEF FinishCommit
<1>7. CASE PersistUnknown
  <2>1. op # None /\ op.stage = "unknown" BY <1>7 DEF PersistUnknown
  <2>2. CASE Save("unknown", UnknownDelivery(op.snap)) /\ UNCHANGED attempt
    <3>1. UnknownDelivery(op.snap) \in Run BY <1>e, <2>1, SettledEffectType DEF CommitStage
    <3> QED BY <1>7, <1>c, <1>e, <2>1, <2>2, <3>1, WorkSaveShape DEF PersistUnknown, CommitStage
  <2>3. CASE op' = None /\ At("failing") /\ UNCHANGED pend
    <3>1. attempt # None BY <1>e, <2>1 DEF CommitStage
    <3>2. attempt' \in Attempt \cup {None} /\ attempt'.stage # "ask" BY <1>d, <2>3, <3>1 DEF WorkStage
    <3> QED BY <1>7, <2>1, <2>3, <3>2, RefusedShape DEF PersistUnknown
  <2> QED BY <1>7, <2>2, <2>3 DEF PersistUnknown
<1>8. CASE Settle
  <2>1. op.snap # None /\ op # None /\ op.stage = "loaded" /\ attempt # None
        /\ attempt.stage \in {"cancelled", "stopped"} /\ Save("settle", SettledDraft)
    BY <1>8, <1>a DEF Settle, Open, Reached, Found, Working
  <2>2. PauseWanted \in BOOLEAN BY <1>b, <2>1 DEF PauseWanted, Attempt
  <2>3. SettledDraft \in Run BY <1>8, <1>a, <1>b, <2>1, <2>2, SettledType DEF Settle, SettledDraft
  <2> QED BY <1>8, <1>c, <2>1, <2>3, WorkSaveShape DEF Settle
<1>9. CASE SettleRefused
  <2>1. attempt # None /\ (At("failing") \/ attempt' = None) BY <1>9 DEF SettleRefused, Working
  <2>2. attempt' \in Attempt \cup {None} /\ (attempt' # None => attempt'.stage # "ask")
    BY <1>d, <2>1 DEF WorkStage
  <2> QED BY <1>9, <1>a, <2>2, RefusedShape DEF SettleRefused
<1>10. CASE Requeue
  <2>1. op.snap # None /\ op # None /\ op.stage = "loaded" /\ attempt # None
        /\ attempt.stage = "stale" /\ op.snap \in Run
        /\ Save("requeue", Requeued(op.snap, attempt.inRev, attempt.ckpt))
    BY <1>10, <1>a DEF Requeue, Open, Reached, Found, Working
  <2>2. Requeued(op.snap, attempt.inRev, attempt.ckpt) \in Run BY <1>b, <2>1, RequeuedType
  <2> QED BY <1>10, <1>c, <2>1, <2>2, WorkSaveShape DEF Requeue
<1>11. CASE RequeueRefused
  <2>1. attempt # None /\ At("failing") BY <1>11 DEF RequeueRefused, Working
  <2>2. attempt' \in Attempt \cup {None} /\ attempt'.stage # "ask" BY <1>d, <2>1 DEF WorkStage
  <2> QED BY <1>11, <1>a, <2>2, RefusedShape DEF RequeueRefused
<1>12. CASE FailActive
  <2>1. op.snap # None /\ op # None /\ op.stage = "loaded" /\ attempt # None
        /\ attempt.stage \in {"approval", "failing"} /\ op.snap \in Run
        /\ Save("fail", FailedRun(op.snap))
    BY <1>12, <1>a DEF FailActive, Open, Reached, Found, Working
  <2> QED BY <1>12, <1>c, <2>1, FailedRunType, WorkSaveShape DEF FailActive
<1>13. CASE FailRefused
  <2>1. attempt # None /\ (At("failing") \/ attempt' = None) BY <1>13 DEF FailRefused, Working
  <2>2. attempt' \in Attempt \cup {None} /\ (attempt' # None => attempt'.stage # "ask")
    BY <1>d, <2>1 DEF WorkStage
  <2> QED BY <1>13, <1>a, <2>2, RefusedShape DEF FailRefused
<1> QED BY <1>1, <1>2, <1>3, <1>4, <1>5, <1>6, <1>7, <1>8, <1>9, <1>10, <1>11, <1>12, <1>13,
           HarnessShape DEF Worker

(* A save of the active queue executes, or is refused or fails. *)
LEMMA ExecuteSaveShape == IInv /\ ExecuteSave => IInv'
<1> SUFFICES ASSUME IInv, ExecuteSave PROVE IInv' OBVIOUS
<1>0. TypeOK /\ OpShape /\ AskShape /\ PendShape BY DEF IInv
<1>1. pend # <<>> /\ First.by = "op" /\ pend' = Tail(pend) BY DEF ExecuteSave, Executes
<1>2. First \in Request /\ First = pend[1] /\ 1 \in 1 .. Len(pend) BY <1>0, <1>1, TakeFirst
<1>3. First \in SaveReq /\ First.draft \in Run /\ First.expect \in Nat
  BY <1>1, <1>2 DEF Request, SaveReq, ChatReq, DropReq, EraseReq, OtherReq
<1>4. pend' \in Seq(Request) /\ PendShape' BY <1>1, TakeOwn DEF QueueReq
<1>5. op # None /\ op.stage = "saving" BY <1>0, <1>1, <1>2 DEF PendShape, QueueReq
<1>6. op.kind = "prepare" => First.draft.effect # None /\ First.draft.ckpt # None
  BY <1>0, <1>1, <1>2 DEF PendShape, QueueReq
<1>7. op \in Op /\ op.kind \in SaveKind \cup {"none"} BY <1>0, <1>5 DEF TypeOK, Op
<1>8. op.kind # "start" => op.snap # None /\ op.snap \in Run BY <1>0, <1>5, <1>7 DEF OpShape, Op
<1>9. op.kind \in WorkerKind =>
        attempt # None /\ attempt \in Attempt /\ attempt.stage \notin {"begun", "planning", "after"}
  BY <1>0, <1>5 DEF OpShape, TypeOK
<1>10. active' \in Run \cup {None} /\ late' \in Lateness /\ legacy' = legacy /\ legacyLate' = legacyLate
  <2>1. CASE Write(First)
    <3>1. active' \in Run BY <1>3, <2>1 DEF Write, Run
    <3>2. late' \in Lateness BY <1>0, <2>1 DEF Write, LatenessAfter, Lateness, TypeOK
    <3> QED BY <2>1, <3>1, <3>2 DEF Write
  <2>2. CASE KeepFile(First) BY <1>0, <2>2 DEF KeepFile, file, TypeOK
  <2> QED BY <2>1, <2>2 DEF ExecuteSave
<1>11. chain' \in Chain BY <1>0 DEF ExecuteSave, ChainAfter, TypeOK, Chain
<1>d. ASSUME NEW stage \in WorkStage \ {"ask"}, attempt # None, At(stage)
      PROVE attempt' \in Attempt \cup {None} /\ attempt'.stage # "ask"
  BY <1>0, <1>d, AtType
<1>e. ASSUME op' = None, attempt' \in Attempt \cup {None},
             attempt' = attempt \/ (attempt' # None => attempt'.stage # "ask")
      PROVE op' \in Op \cup {None} /\ attempt' \in Attempt \cup {None} /\ OpShape' /\ AskShape'
  BY <1>0, <1>e DEF OpShape, AskShape
<1>12. op' \in Op \cup {None} /\ attempt' \in Attempt \cup {None} /\ OpShape' /\ AskShape'
  <2>1. CASE Write(First) /\ Saved
    <3>1. CASE op.kind = "begin"
      <4>1. attempt' = AttemptOn(op.snap) /\ op' = None BY <2>1, <3>1 DEF Saved
      <4>2. attempt' \in Attempt /\ attempt'.stage # "ask" BY <1>8, <3>1, <4>1, AttemptType
      <4> QED BY <1>e, <4>1, <4>2
    <3>2. CASE op.kind = "prepare"
      <4>1. op' = [op EXCEPT !.stage = "deliver", !.snap = active'] /\ UNCHANGED attempt
        BY <2>1, <3>2 DEF Saved
      <4>2. active' = [First.draft EXCEPT !.rev = First.expect + 1] BY <2>1 DEF Write
      <4>3. active' \in Run /\ active'.effect # None /\ active'.ckpt # None
        BY <1>3, <1>6, <3>2, <4>2 DEF Run
      <4>4. active' # None BY <4>3, NoRecordIsNone
      <4>5. op' \in Op /\ op'.stage = "deliver" /\ op'.kind = "prepare" /\ op'.snap = active'
        BY <1>7, <3>2, <4>1, <4>3 DEF Op
      <4>6. OpShape' BY <1>9, <3>2, <4>1, <4>3, <4>4, <4>5 DEF OpShape, CommitStage, WorkerKind
      <4> QED BY <1>0, <4>1, <4>5, <4>6 DEF TypeOK, AskShape
    <3>3. CASE op.kind \in {"finish", "unknown"}
      <4>1. op' = None /\ (At("after") \/ At("failing")) BY <2>1, <3>3 DEF Saved
      <4>2. attempt # None BY <1>9, <3>3 DEF WorkerKind
      <4> QED BY <1>d, <1>e, <4>1, <4>2 DEF WorkStage
    <3>4. CASE op.kind = "requeue"
      <4>1. op' = None /\ (attempt' = None \/ At("failing")) BY <2>1, <3>4 DEF Saved
      <4>2. attempt # None BY <1>9, <3>4 DEF WorkerKind
      <4> QED BY <1>d, <1>e, <4>1, <4>2 DEF WorkStage
    <3>5. CASE op.kind \in {"settle", "fail"}
      <4>1. op' = None /\ attempt' = None BY <2>1, <3>5 DEF Saved
      <4> QED BY <1>e, <4>1
    <3>6. CASE op.kind \notin {"begin", "prepare", "finish", "unknown", "requeue", "settle", "fail"}
      <4>1. op' = None /\ attempt' = attempt BY <2>1, <3>6 DEF Saved
      <4> QED BY <1>0, <1>e, <4>1 DEF TypeOK
    <3> QED BY <3>1, <3>2, <3>3, <3>4, <3>5, <3>6
  <2>2. CASE Threw
    <3>1. CASE op.kind = "begin"
      <4>1. attempt' = FailingOn(op.snap) /\ op' = None BY <2>2, <3>1 DEF Threw
      <4>2. attempt' \in Attempt /\ attempt'.stage # "ask" BY <1>8, <3>1, <4>1, AttemptType
      <4> QED BY <1>e, <4>1, <4>2
    <3>2. CASE op.kind = "finish"
      <4>1. op' = [op EXCEPT !.stage = "unknown"] /\ UNCHANGED attempt BY <2>2, <3>2 DEF Threw
      <4>2. op' \in Op /\ op'.stage = "unknown" /\ op'.kind = "finish" /\ op'.snap = op.snap
        BY <1>7, <3>2, <4>1 DEF Op
      <4>3. op.snap # None /\ op.snap.effect # None /\ op.snap.ckpt # None
        BY <1>0, <1>5, <3>2 DEF OpShape
      <4>4. OpShape' BY <1>9, <3>2, <4>1, <4>2, <4>3 DEF OpShape, CommitStage, WorkerKind
      <4> QED BY <1>0, <4>1, <4>2, <4>4 DEF TypeOK, AskShape
    <3>3. CASE op.kind \in {"prepare", "unknown", "requeue", "settle"}
      <4>1. op' = None /\ At("failing") BY <2>2, <3>3 DEF Threw
      <4>2. attempt # None BY <1>9, <3>3 DEF WorkerKind
      <4> QED BY <1>d, <1>e, <4>1, <4>2 DEF WorkStage
    <3>4. CASE op.kind = "fail"
      <4>1. op' = None /\ (attempt' = None \/ At("failing")) BY <2>2, <3>4 DEF Threw
      <4>2. attempt # None BY <1>9, <3>4 DEF WorkerKind
      <4> QED BY <1>d, <1>e, <4>1, <4>2 DEF WorkStage
    <3>5. CASE op.kind \notin {"begin", "prepare", "finish", "unknown", "requeue", "settle", "fail"}
      <4>1. op' = None /\ attempt' = attempt BY <2>2, <3>5 DEF Threw
      <4> QED BY <1>0, <1>e, <4>1 DEF TypeOK
    <3> QED BY <3>1, <3>2, <3>3, <3>4, <3>5
  <2> QED BY <2>1, <2>2 DEF ExecuteSave
<1> QED BY <1>0, <1>4, <1>10, <1>11, <1>12 DEF ExecuteSave, IInv, TypeOK, world

(* A write of somebody else executes; the holder of the queue and the       *)
(* worker notice nothing.                                                   *)
LEMMA ExecuteOtherShape ==
  ASSUME IInv, pend # <<>>, pend' = Tail(pend), op' = op, attempt' = attempt
  PROVE /\ pend' \in Seq(Request) /\ op' \in Op \cup {None} /\ attempt' \in Attempt \cup {None}
        /\ OpShape' /\ AskShape' /\ PendShape'
<1>1. pend' \in Seq(Request) /\ PendShape' BY TakeOther
<1>2. OpShape' /\ AskShape' BY DEF IInv, OpShape, AskShape
<1> QED BY <1>1, <1>2 DEF IInv, TypeOK

(* Removals and clarification checkpoints execute. *)
LEMMA FileShape == IInv /\ File => IInv'
<1> SUFFICES ASSUME IInv, File PROVE IInv' OBVIOUS
<1>0. TypeOK /\ OpShape /\ AskShape /\ PendShape BY DEF IInv
<1> USE DEF world
<1>a. ASSUME pend # <<>>, pend' = Tail(pend), op' = op, attempt' = attempt,
             active' \in Run \cup {None}, late' \in Lateness,
             legacy' \in Legacy \cup {None}, legacyLate' \in BOOLEAN,
             blocked' \in BOOLEAN, chain' \in Chain, erased' \subseteq Nat,
             UNCHANGED <<mode, lastId, sent>>
      PROVE IInv'
  BY <1>0, <1>a, ExecuteOtherShape DEF IInv, TypeOK
<1>b. Idle \in Chain /\ [Idle EXCEPT !.stage = "abandon"] \in Chain /\ "no" \in Lateness
  BY DEF Idle, Chain, Lateness
<1>1. CASE ExecuteSave BY <1>1, ExecuteSaveShape
<1>2. CASE ExecuteStartDrop
  <2>1. pend # <<>> /\ First.by = "startDrop" /\ pend' = Tail(pend)
    BY <1>2 DEF ExecuteStartDrop, Executes
  <2>2. First = pend[1] /\ 1 \in 1 .. Len(pend) BY <1>0, <2>1, TakeFirst
  <2>3. op # None /\ op.stage = "dropping" BY <1>0, <2>1, <2>2 DEF PendShape, QueueReq
  <2>4. op \in Op /\ op.kind = "start" BY <1>0, <2>3 DEF TypeOK, OpShape
  <2>5. pend' \in Seq(Request) /\ PendShape' BY <2>1, TakeOwn DEF QueueReq
  <2>6. op' = None \/ op' = [op EXCEPT !.stage = "start"] BY <1>2 DEF ExecuteStartDrop
  <2>7. op' = None \/ (op' \in Op /\ op'.stage = "start" /\ op'.kind = "start")
    BY <2>4, <2>6 DEF Op
  <2>8. OpShape' /\ AskShape'
    BY <1>0, <1>2, <2>7 DEF ExecuteStartDrop, OpShape, AskShape, WorkerKind, CommitStage
  <2>9. chain' \in Chain BY <1>0, <1>2 DEF ExecuteStartDrop, TypeOK, Chain
  <2>10. legacy' \in Legacy \cup {None} /\ legacyLate' \in BOOLEAN
    BY <1>0, <1>2 DEF ExecuteStartDrop, TypeOK
  <2> QED BY <1>0, <1>2, <2>5, <2>7, <2>8, <2>9, <2>10 DEF ExecuteStartDrop, IInv, TypeOK
<1>3. CASE ExecuteDrop
  <2>1. pend # <<>> /\ pend' = Tail(pend) BY <1>3 DEF ExecuteDrop, Executes
  <2> QED BY <1>0, <1>3, <1>a, <1>b, <2>1 DEF ExecuteDrop, TypeOK
<1>4. CASE ExecutePurge
  <2>1. pend # <<>> /\ pend' = Tail(pend) BY <1>4 DEF ExecutePurge, Executes
  <2> QED BY <1>0, <1>4, <1>a, <1>b, <2>1 DEF ExecutePurge, TypeOK
<1>5. CASE ExecuteClear
  <2>1. pend # <<>> /\ pend' = Tail(pend) BY <1>5 DEF ExecuteClear, Executes
  <2> QED BY <1>0, <1>5, <1>a, <2>1 DEF ExecuteClear, TypeOK
<1>6. CASE ExecuteChatSave
  <2>1. PICK by \in {"chat", "claim"} :
          /\ Executes(by)
          /\ \/ /\ LegacySaveApplies(First)
                /\ legacy' = [id |-> First.id, rev |-> First.expect + 1]
                /\ legacyLate' = IF by = "chat" THEN FALSE ELSE legacyLate
                /\ active' = RecordBeside(First)
                /\ late' = IF First.expect = 0 THEN "no" ELSE late
                /\ chain' = IF blocked THEN [Idle EXCEPT !.stage = "abandon"]
                            ELSE [stage |-> "idle", known |-> legacy']
             \/ /\ ~LegacySaveApplies(First) \/ "io" \in Env
                /\ UNCHANGED file
                /\ chain' = IF by = "chat" THEN [Idle EXCEPT !.stage = "abandon"] ELSE Idle
          /\ UNCHANGED <<blocked, op, attempt, mode, lastId, world>>
    BY <1>6 DEF ExecuteChatSave
  <2>2. pend # <<>> /\ pend' = Tail(pend) /\ First.by \in {"chat", "claim"} BY <2>1 DEF Executes
  <2>3. First \in ChatReq
    BY <1>0, <2>2, TakeFirst DEF Request, SaveReq, ChatReq, DropReq, EraseReq, OtherReq
  <2>4. CASE LegacySaveApplies(First) /\ legacy' = [id |-> First.id, rev |-> First.expect + 1]
             /\ legacyLate' = (IF by = "chat" THEN FALSE ELSE legacyLate)
             /\ active' = RecordBeside(First)
             /\ late' = (IF First.expect = 0 THEN "no" ELSE late)
             /\ chain' = (IF blocked THEN [Idle EXCEPT !.stage = "abandon"]
                         ELSE [stage |-> "idle", known |-> legacy'])
    <3>1. legacy' \in Legacy BY <2>3, <2>4 DEF ChatReq, Legacy
    <3>2. chain' \in Chain BY <1>b, <2>4, <3>1 DEF Chain
    <3> QED BY <1>0, <1>a, <1>b, <2>1, <2>2, <2>4, <3>1, <3>2 DEF TypeOK, RecordBeside
  <2>5. CASE UNCHANGED file /\ chain' = (IF by = "chat" THEN [Idle EXCEPT !.stage = "abandon"] ELSE Idle)
    BY <1>0, <1>a, <1>b, <2>1, <2>2, <2>5 DEF TypeOK, file
  <2> QED BY <2>1, <2>4, <2>5
<1>7. CASE ExecuteErase
  <2>1. pend # <<>> /\ pend' = Tail(pend) BY <1>7 DEF ExecuteErase, Executes
  <2>2. First \in EraseReq /\ First.was \in BOOLEAN
    BY <1>0, <1>7, <2>1, TakeFirst
    DEF ExecuteErase, Executes, Request, SaveReq, ChatReq, DropReq, EraseReq, OtherReq
  <2>3. Ids \subseteq Nat BY <1>0 DEF Ids, TypeOK, Run, Legacy
  <2>4. /\ active' \in Run \cup {None} /\ late' \in Lateness /\ erased' \subseteq Nat
        /\ legacy' \in Legacy \cup {None} /\ legacyLate' \in BOOLEAN /\ blocked' \in BOOLEAN
    BY <1>0, <1>7, <1>b, <2>2, <2>3 DEF ExecuteErase, TypeOK, file
  <2> QED BY <1>7, <1>a, <1>b, <2>1, <2>4 DEF ExecuteErase
<1> QED BY <1>1, <1>2, <1>3, <1>4, <1>5, <1>6, <1>7 DEF File

(* A step that leaves the operation and the attempt alone, and issues at    *)
(* most a write that is not the holder's.                                   *)
LEMMA OutsideShape ==
  ASSUME IInv, op' = op, attempt' = attempt,
         pend' = pend \/ \E req \in Request : req.by \notin QueueReq /\ Issue(req)
  PROVE /\ pend' \in Seq(Request) /\ op' \in Op \cup {None} /\ attempt' \in Attempt \cup {None}
        /\ OpShape' /\ AskShape' /\ PendShape'
<1>1. pend' \in Seq(Request) /\ PendShape' BY PendKept, IssueOther
<1>2. OpShape' /\ AskShape' BY DEF IInv, OpShape, AskShape
<1> QED BY <1>1, <1>2 DEF IInv, TypeOK

(* The writes the chat, the rights of the owner and the timers issue.       *)
LEMMA OutsideRequests ==
  /\ \A i \in Nat, e \in Nat :
       /\ [by |-> "chat", id |-> i, expect |-> e] \in Request
       /\ [by |-> "claim", id |-> i, expect |-> e] \in Request
       /\ [by |-> "drop", id |-> i, rev |-> e] \in Request
       /\ [by |-> "dropLegacy", id |-> i, rev |-> e] \in Request
  /\ \A why \in {"forget", "discard", "abandon", "accept"}, was \in BOOLEAN :
       [by |-> "erase", why |-> why, was |-> was] \in Request
  /\ [by |-> "purge"] \in Request /\ [by |-> "clear"] \in Request
  BY DEF Request, ChatReq, DropReq, EraseReq, OtherReq

(* The clarification checkpoint of the chat. *)
LEMMA ChatShape == IInv /\ Chat => IInv'
<1> SUFFICES ASSUME IInv, Chat PROVE IInv' OBVIOUS
<1>0. TypeOK BY DEF IInv
<1> USE DEF file, world
<1>a. ASSUME pend' = pend \/ \E req \in Request : req.by \notin QueueReq /\ Issue(req),
             lastId' \in Nat, chain' \in Chain, blocked' \in BOOLEAN,
             UNCHANGED <<file, op, attempt, mode, world>>
      PROVE IInv'
  BY <1>0, <1>a, OutsideShape DEF IInv, TypeOK
<1>b. Idle \in Chain /\ \A st \in {"saving", "claiming", "erasing"} : [chain EXCEPT !.stage = st] \in Chain
  BY <1>0 DEF Idle, Chain, TypeOK
<1>c. [Idle EXCEPT !.stage = "erasing"] \in Chain BY <1>b DEF Chain
<1>d. legacy # None => legacy.id \in Nat /\ legacy.rev \in Nat BY <1>0 DEF TypeOK, Legacy
<1>e. chain.known # None => chain.known.id \in Nat /\ chain.known.rev \in Nat
  BY <1>0 DEF TypeOK, Chain, Legacy
<1>1. CASE ChatRestore
  <2>1. [chain EXCEPT !.known = legacy] \in Chain BY <1>0 DEF TypeOK, Chain
  <2>2. CASE UNCHANGED chain /\ Issue([by |-> "dropLegacy", id |-> legacy.id, rev |-> legacy.rev])
    <3>1. \E req \in Request : req.by \notin QueueReq /\ Issue(req)
      BY <1>1, <1>d, <2>2, OutsideRequests DEF ChatRestore, QueueReq
    <3> QED BY <1>0, <1>1, <1>a, <2>2, <3>1 DEF ChatRestore, TypeOK
  <2>3. CASE UNCHANGED pend /\ chain' = [chain EXCEPT !.known = legacy]
    BY <1>0, <1>1, <1>a, <2>1, <2>3 DEF ChatRestore, TypeOK
  <2> QED BY <1>1, <2>2, <2>3 DEF ChatRestore
<1>2. CASE ChatAsks
  <2>1. chain' \in Chain BY <1>2, <1>b DEF ChatAsks
  <2>2. CASE lastId' = lastId + 1 /\ Issue([by |-> "chat", id |-> lastId + 1, expect |-> 0])
    <3>1. lastId' \in Nat BY <1>0, <2>2 DEF TypeOK
    <3>2. [by |-> "chat", id |-> lastId + 1, expect |-> 0] \in Request
      BY <2>2, <3>1, OutsideRequests
    <3>3. \E req \in Request : req.by \notin QueueReq /\ Issue(req) BY <2>2, <3>2 DEF QueueReq
    <3> QED BY <1>0, <1>2, <1>a, <2>1, <3>1, <3>3 DEF ChatAsks, TypeOK
  <2>3. CASE chain.known # None /\ UNCHANGED lastId
             /\ Issue([by |-> "chat", id |-> chain.known.id, expect |-> chain.known.rev])
    <3>1. \E req \in Request : req.by \notin QueueReq /\ Issue(req)
      BY <1>e, <2>3, OutsideRequests DEF QueueReq
    <3> QED BY <1>0, <1>2, <1>a, <2>1, <2>3, <3>1 DEF ChatAsks, TypeOK
  <2> QED BY <1>2, <2>2, <2>3 DEF ChatAsks
<1>3. CASE ChatClaims
  <2>1. chain' \in Chain BY <1>3, <1>b DEF ChatClaims
  <2>2. pend' = pend \/ \E req \in Request : req.by \notin QueueReq /\ Issue(req)
    BY <1>3, <1>d, <1>e, OutsideRequests DEF ChatClaims, QueueReq
  <2> QED BY <1>0, <1>3, <1>a, <2>1, <2>2 DEF ChatClaims, TypeOK
<1>4. CASE ChatClears
  <2>1. pend' = pend \/ \E req \in Request : req.by \notin QueueReq /\ Issue(req)
    BY <1>4, <1>e, OutsideRequests DEF ChatClears, QueueReq
  <2> QED BY <1>0, <1>4, <1>a, <1>b, <2>1 DEF ChatClears, TypeOK
<1>5. CASE ChatAbandons
  <2>1. \E req \in Request : req.by \notin QueueReq /\ Issue(req)
    BY <1>0, <1>5, OutsideRequests DEF ChatAbandons, Erase, QueueReq, TypeOK
  <2> QED BY <1>0, <1>5, <1>a, <1>c, <2>1 DEF ChatAbandons, Erase, TypeOK
<1> QED BY <1>1, <1>2, <1>3, <1>4, <1>5 DEF Chat

(* The worker is aborted from outside; its operation goes on. *)
LEMMA AbortedShape ==
  ASSUME IInv, attempt' = IF attempt = None THEN None ELSE [attempt EXCEPT !.aborted = TRUE],
         UNCHANGED <<op, pend>>
  PROVE /\ pend' \in Seq(Request) /\ op' \in Op \cup {None} /\ attempt' \in Attempt \cup {None}
        /\ OpShape' /\ AskShape' /\ PendShape'
<1>0. TypeOK /\ AskShape BY DEF IInv
<1>1. CASE attempt = None
  <2>1. AskShape' BY <1>1 DEF AskShape
  <2> QED BY <1>1, <2>1, QuietShape
<1>2. CASE attempt # None
  <2>1. attempt \in Attempt BY <1>0, <1>2 DEF TypeOK
  <2>2. attempt' \in Attempt /\ attempt'.stage = attempt.stage /\ attempt'.ckpt = attempt.ckpt
    BY <1>2, <2>1 DEF Attempt
  <2>3. attempt' # None BY <2>2, NoMemoryIsNone
  <2>4. AskShape' BY <1>0, <1>2, <2>2 DEF AskShape
  <2> QED BY <1>2, <2>2, <2>3, <2>4, QuietShape
<1> QED BY <1>1, <1>2

(* Consent, deletion and memory changes. *)
LEMMA RightsShape == IInv /\ Rights => IInv'
<1> SUFFICES ASSUME IInv, Rights PROVE IInv' OBVIOUS
<1>0. TypeOK BY DEF IInv
<1> USE DEF file, world
<1>1. CASE Withdraw
  <2>1. chain' \in Chain BY <1>0, <1>1 DEF Withdraw, TypeOK, Chain
  <2>2. /\ pend' \in Seq(Request) /\ op' \in Op \cup {None} /\ attempt' \in Attempt \cup {None}
        /\ OpShape' /\ AskShape' /\ PendShape'
    BY <1>1, AbortedShape DEF Withdraw
  <2> QED BY <1>0, <1>1, <2>1, <2>2 DEF Withdraw, IInv, TypeOK
<1>2. CASE Forget \/ Accept \/ Discard
  <2>1. UNCHANGED attempt /\ \E why \in {"forget", "accept", "discard"} : Erase(why)
    BY <1>2 DEF Forget, Accept, Discard
  <2>2. \E req \in Request : req.by \notin QueueReq /\ Issue(req)
    BY <1>0, <2>1, OutsideRequests DEF Erase, QueueReq, TypeOK
  <2>3. chain' \in Chain BY <2>1 DEF Erase, Idle, Chain
  <2>4. op' = op /\ attempt' = attempt BY <2>1 DEF Erase
  <2>5. /\ pend' \in Seq(Request) /\ op' \in Op \cup {None} /\ attempt' \in Attempt \cup {None}
        /\ OpShape' /\ AskShape' /\ PendShape'
    BY <2>2, <2>4, OutsideShape
  <2> QED BY <1>0, <2>1, <2>3, <2>5 DEF Erase, IInv, TypeOK
<1> QED BY <1>1, <1>2 DEF Rights

(* Time passes, the process stops, dies and starts again. *)
LEMMA EnvironmentShape == IInv /\ Environment => IInv'
<1> SUFFICES ASSUME IInv, Environment PROVE IInv' OBVIOUS
<1>0. TypeOK /\ OpShape BY DEF IInv
<1> USE DEF file, world
<1>1. CASE QuestionLapses \/ HorizonPasses \/ LegacyLapses
  <2>1. UNCHANGED <<active, legacy, blocked, op, pend, attempt, chain, mode, lastId, world>>
    BY <1>1 DEF QuestionLapses, HorizonPasses, LegacyLapses
  <2>2. late' \in Lateness /\ legacyLate' \in BOOLEAN
    BY <1>0, <1>1 DEF QuestionLapses, HorizonPasses, LegacyLapses, Lateness, TypeOK
  <2> QED BY <1>0, <2>1, <2>2, OutsideShape DEF IInv, TypeOK
<1>2. CASE DropExpired \/ Purge
  <2>1. active # None => active.id \in Nat /\ active.rev \in Nat BY <1>0 DEF TypeOK, Run
  <2>2. \E req \in Request : req.by \notin QueueReq /\ Issue(req)
    BY <1>2, <2>1, OutsideRequests DEF DropExpired, Purge, QueueReq
  <2>3. UNCHANGED <<file, blocked, op, attempt, chain, mode, lastId, world>>
    BY <1>2 DEF DropExpired, Purge
  <2> QED BY <1>0, <2>2, <2>3, OutsideShape DEF IInv, TypeOK
<1>3. CASE Shutdown
  <2>1. /\ pend' \in Seq(Request) /\ op' \in Op \cup {None} /\ attempt' \in Attempt \cup {None}
        /\ OpShape' /\ AskShape' /\ PendShape'
    BY <1>3, AbortedShape DEF Shutdown
  <2> QED BY <1>0, <1>3, <2>1 DEF Shutdown, IInv, TypeOK, Modes
<1>4. CASE Restart
  <2>1. pend' \in Seq(Request) /\ Len(pend') = 0 BY <1>4 DEF Restart
  <2>2. OpShape' /\ AskShape' BY <1>4 DEF Restart, OpShape, AskShape
  <2>3. PendShape' BY <2>1 DEF PendShape
  <2>4. chain' \in Chain BY <1>4 DEF Restart, Idle, Chain
  <2> QED BY <1>0, <1>4, <2>1, <2>2, <2>3, <2>4 DEF Restart, IInv, TypeOK, Modes
<1> QED BY <1>1, <1>2, <1>3, <1>4 DEF Environment

-----------------------------------------------------------------------------
(* The theorems. *)

(* A step that changes nothing. *)
LEMMA StutterShape == IInv /\ UNCHANGED vars => IInv'
  BY DEF vars, file, world, IInv, TypeOK, OpShape, AskShape, PendShape

(* IInv is inductive. *)
LEMMA NextShape == IInv /\ [Next]_vars => IInv'
  BY ServiceShape, WorkerShape, FileShape, ChatShape, RightsShape, EnvironmentShape, StutterShape
  DEF Next

(* So it holds in every reachable state. *)
LEMMA IInvAlways == Spec => []IInv
  BY InitShape, NextShape, PTL DEF Spec

(* Type correctness of AgentRunService, its repository, its worker and the  *)
(* chat handler, through every crash, race and refusal.                     *)
THEOREM TypeCorrect == Spec => []TypeOK
<1>1. IInv => TypeOK BY DEF IInv
<1> QED BY IInvAlways, <1>1, PTL

(* One step never puts a record beside a checkpoint: saveActive looks for a *)
(* checkpoint, and a first checkpoint takes the record's place.             *)
LEMMA NoCollisionStep == IInv /\ NoScopeCollision /\ [Next]_vars => NoScopeCollision'
<1> SUFFICES ASSUME IInv, NoScopeCollision, [Next]_vars PROVE NoScopeCollision' OBVIOUS
<1>0. TypeOK BY DEF IInv
<1>a. (active' = active \/ active' = None) /\ (legacy' = legacy \/ legacy' = None) => NoScopeCollision'
  BY DEF NoScopeCollision
<1>1. CASE ExecuteSave
  <2>1. CASE Write(First) BY <2>1 DEF Write, SaveApplies, NoScopeCollision
  <2>2. CASE KeepFile(First) BY <2>2, <1>a DEF KeepFile, file
  <2> QED BY <1>1, <2>1, <2>2 DEF ExecuteSave
<1>2. CASE ExecuteChatSave
  <2>1. CASE UNCHANGED file BY <2>1, <1>a DEF file
  <2>2. CASE LegacySaveApplies(First) /\ active' = RecordBeside(First)
    <3>1. CASE First.expect = 0 BY <2>2, <3>1 DEF NoScopeCollision, RecordBeside
    <3>2. CASE First.expect # 0
      <4>1. legacy = [id |-> First.id, rev |-> First.expect] BY <2>2, <3>2 DEF LegacySaveApplies
      <4>2. First \in ChatReq
        BY <1>0, <1>2, TakeFirst
        DEF ExecuteChatSave, Executes, Request, SaveReq, ChatReq, DropReq, EraseReq, OtherReq
      <4>3. legacy \in Legacy BY <4>1, <4>2 DEF Legacy, ChatReq
      <4>4. legacy # None BY <4>3, NoMemoryIsNone
      <4> QED BY <2>2, <3>2, <4>4 DEF NoScopeCollision, RecordBeside
    <3> QED BY <3>1, <3>2
  <2> QED BY <1>2, <2>1, <2>2 DEF ExecuteChatSave
<1>3. CASE ExecuteStartDrop \/ ExecuteDrop \/ ExecutePurge \/ ExecuteClear \/ ExecuteErase
  BY <1>3, <1>a
  DEF ExecuteStartDrop, ExecuteDrop, ExecutePurge, ExecuteClear, ExecuteErase, file
<1>4. CASE Service
  BY <1>4, <1>a
  DEF Service, Enter, Return, EnterStart, StartMeetsLegacy, StartActive, Anchor, RouteMessage,
      ExpireWaiting, FailUnlaunched, Recover, Booted, file
<1>5. CASE Worker
  BY <1>5, <1>a
  DEF Worker, BeginAttempt, Resume, Decide, StopWork, Prepare, CommitRefused, CallDeliver, Deliver,
      FinishCommit, PersistUnknown, Settle, SettleRefused, Requeue, RequeueRefused, FailActive,
      FailRefused, Leave, AbortWorker, file
<1>6. CASE Chat \/ Rights
  BY <1>6, <1>a
  DEF Chat, ChatRestore, ChatAsks, ChatClaims, ChatClears, ChatAbandons, Rights, Withdraw, Forget,
      Accept, Discard, Erase, file
<1>7. CASE Environment
  BY <1>7, <1>a
  DEF Environment, QuestionLapses, HorizonPasses, LegacyLapses, DropExpired, Purge, Shutdown,
      Restart, file
<1>8. CASE UNCHANGED vars BY <1>8, <1>a DEF vars, file
<1> QED BY <1>1, <1>2, <1>3, <1>4, <1>5, <1>6, <1>7, <1>8 DEF Next, File

(* The scope never holds a version 1 checkpoint and a version 2 record, in  *)
(* any interleaving of the active service with the clarification chat.      *)
THEOREM ScopeExclusion == Spec => []NoScopeCollision
<1>1. Init => NoScopeCollision BY DEF Init, NoScopeCollision
<1> QED BY IInvAlways, NoCollisionStep, <1>1, PTL DEF Spec

-----------------------------------------------------------------------------
(* Which saves the active queue can issue, and why a save that creates a    *)
(* record brings an id nobody has seen: from this, what the owner had       *)
(* deleted stays deleted.                                                   *)

(* A save without an expected revision creates a record or a checkpoint.    *)
Creates(req) == req.by \in {"op", "chat", "claim"} /\ req.expect = 0
NewId(req) == IF req.by = "op" THEN req.draft.id ELSE req.id

(* The transitions a save of the active queue can carry, by its kind.       *)
InHand(stages, r) == attempt # None /\ attempt.stage \in stages /\ attempt.run = r.id

Transition(kind, r, n) ==
  \/ kind = "attach" /\ n = [r EXCEPT !.anchored = TRUE]
  \/ /\ kind = "route"
     /\ \E k \in Kind, src \in Sources, q \in Nat, passed \in BOOLEAN :
          Routable(r, k, src, q, passed) /\ n = Routed(r, k, src)
  \/ kind = "expire" /\ r.status = "waiting_input" /\ n = Closed(r, "failed")
  \/ kind = "failExternally" /\ ~Terminal(r) /\ n = FailedRun(r)
  \/ /\ kind = "recover"
     /\ \E passed \in BOOLEAN : NeedsRecovery(r, passed) /\ n = Recovered(r, passed)
  \/ kind = "begin" /\ attempt = None /\ CanBegin(r) /\ n = Begun(r)
  \/ /\ kind = "prepare" /\ InHand({"final", "ask"}, r) /\ Fresh(r, attempt.inRev)
     /\ IF attempt.stage = "final" THEN n = PreparedFinal(r, attempt.inRev, attempt.ckpt)
        ELSE attempt.ckpt.ask \in Prompts /\ n = PreparedQuestion(r, attempt.inRev, attempt.ckpt)
  \/ kind = "finish" /\ r.effect # None /\ n = Committed(r)
  \/ kind = "unknown" /\ r.effect # None /\ n = UnknownDelivery(r)
  \/ /\ kind = "requeue" /\ InHand({"stale"}, r) /\ ~Terminal(r)
     /\ n = Requeued(r, attempt.inRev, attempt.ckpt)
  \/ /\ kind = "settle" /\ InHand({"cancelled", "stopped"}, r) /\ ~Terminal(r)
     /\ \E pause \in BOOLEAN : n = Settled(r, attempt.inRev, attempt.ckpt, pause)
  \/ kind = "fail" /\ ~Terminal(r) /\ n = FailedRun(r)

(* The stage from which an operation issues a save of that kind. *)
StageOf(kind) ==
  IF kind = "finish" THEN "sent" ELSE IF kind = "unknown" THEN "unknown" ELSE "loaded"

Saves(kind, n) ==
  /\ kind \in SaveKind \ {"start"}
  /\ op # None /\ op.snap # None
  /\ op.stage = StageOf(kind)
  /\ Transition(kind, op.snap, n)
  /\ n \in Run /\ n.id = op.snap.id /\ n.rev = op.snap.rev
  /\ Save(kind, n)
  /\ UNCHANGED <<file, blocked, attempt, chain, mode, lastId, world>>
SaveStep == \E kind \in SaveKind, n \in Run : Saves(kind, n)

(* A transition keeps the identity and the revision of its record.          *)
LEMMA ClosedKeepsId ==
  ASSUME NEW r \in Run, NEW status \in TerminalStatus
  PROVE /\ Closed(r, status).id = r.id /\ Closed(r, status).rev = r.rev
        /\ FailedRun(r).id = r.id /\ FailedRun(r).rev = r.rev
        /\ UnknownDelivery(r).id = r.id /\ UnknownDelivery(r).rev = r.rev
  BY DEF Closed, FailedRun, UnknownDelivery, Receipted, Run

(* Routing keeps the identity of the record. *)
LEMMA RoutedKeepsId ==
  ASSUME NEW r \in Run, NEW kind \in Kind, NEW src \in Sources
  PROVE Routed(r, kind, src).id = r.id /\ Routed(r, kind, src).rev = r.rev
  BY DEF Routed, Cancelled, Answered, Constrained, Posted, Closed, Run

(* Settling keeps the identity of the record. *)
LEMMA SettledKeepsId ==
  ASSUME NEW r \in Run, NEW inRev \in Nat, NEW ck \in Checkpoint, NEW pause \in BOOLEAN
  PROVE /\ Settled(r, inRev, ck, pause).id = r.id /\ Settled(r, inRev, ck, pause).rev = r.rev
        /\ Requeued(r, inRev, ck).id = r.id /\ Requeued(r, inRev, ck).rev = r.rev
        /\ PreparedFinal(r, inRev, ck).id = r.id /\ PreparedFinal(r, inRev, ck).rev = r.rev
        /\ PreparedQuestion(r, inRev, ck).id = r.id /\ PreparedQuestion(r, inRev, ck).rev = r.rev
  BY DEF Settled, Requeued, PreparedFinal, PreparedQuestion, Closed, Run

(* The draft of a transition is a record with the identity of its snapshot. *)
LEMMA TransitionType ==
  ASSUME TypeOK, NEW r \in Run, NEW kind, NEW n, Transition(kind, r, n)
  PROVE n \in Run /\ n.id = r.id /\ n.rev = r.rev
<1>1. CASE kind = "attach" /\ n = [r EXCEPT !.anchored = TRUE] BY <1>1 DEF Run
<1>2. CASE \E k \in Kind, src \in Sources, q \in Nat, passed \in BOOLEAN :
             Routable(r, k, src, q, passed) /\ n = Routed(r, k, src)
  <2>1. PICK k \in Kind, src \in Sources, q \in Nat, passed \in BOOLEAN :
          Routable(r, k, src, q, passed) /\ n = Routed(r, k, src)
    BY <1>2
  <2>2. k = "answer" => r.question # None BY <2>1 DEF Routable, AnswerBinds
  <2> QED BY <2>1, <2>2, RoutedType, RoutedKeepsId
<1>3. CASE n = Closed(r, "failed") BY <1>3, ClosedType, ClosedKeepsId DEF TerminalStatus
<1>4. CASE n = FailedRun(r) BY <1>4, FailedRunType, ClosedKeepsId DEF TerminalStatus
<1>5. CASE \E passed \in BOOLEAN : n = Recovered(r, passed)
  <2>1. PICK passed \in BOOLEAN : n = Recovered(r, passed) BY <1>5
  <2>2. n \in Run BY <2>1, RecoveredType
  <2>3. [r EXCEPT !.status = "queued"].id = r.id /\ [r EXCEPT !.status = "queued"].rev = r.rev BY DEF Run
  <2> QED BY <2>1, <2>2, <2>3, ClosedKeepsId DEF Recovered, TerminalStatus
<1>6. CASE n = Begun(r)
  <2>1. n.id = r.id /\ n.rev = r.rev BY <1>6 DEF Begun, Run
  <2> QED BY <1>6, <2>1, BegunType
<1>a. attempt # None => attempt.inRev \in Nat /\ attempt.ckpt \in Checkpoint BY DEF TypeOK, Attempt
<1>7. CASE attempt # None /\ n = PreparedFinal(r, attempt.inRev, attempt.ckpt)
  BY <1>7, <1>a, PreparedFinalType, SettledKeepsId
<1>8. CASE attempt # None /\ attempt.ckpt.ask \in Prompts /\ n = PreparedQuestion(r, attempt.inRev, attempt.ckpt)
  BY <1>8, <1>a, PreparedQuestionType, SettledKeepsId
<1>9. CASE r.effect # None /\ n = Committed(r)
  <2>1. n \in Run BY <1>9, SettledEffectType DEF Committed
  <2>2. n.id = r.id /\ n.rev = r.rev BY <1>9 DEF Committed, CommittedFinal, CommittedQuestion, Receipted, Run
  <2> QED BY <2>1, <2>2
<1>10. CASE r.effect # None /\ n = UnknownDelivery(r)
  BY <1>10, SettledEffectType, ClosedKeepsId DEF TerminalStatus
<1>11. CASE attempt # None /\ n = Requeued(r, attempt.inRev, attempt.ckpt)
  BY <1>11, <1>a, RequeuedType, SettledKeepsId
<1>12. CASE attempt # None /\ \E pause \in BOOLEAN : n = Settled(r, attempt.inRev, attempt.ckpt, pause)
  BY <1>12, <1>a, SettledType, SettledKeepsId
<1> QED BY <1>1, <1>2, <1>3, <1>4, <1>5, <1>6, <1>7, <1>8, <1>9, <1>10, <1>11, <1>12
        DEF Transition, InHand

(* Every operation that saves a loaded record saves a transition of it.     *)
LEMMA SaveActions ==
  ASSUME IInv,
         \/ Anchor \/ RouteMessage \/ ExpireWaiting \/ FailUnlaunched
         \/ Recover /\ op' # None
         \/ BeginAttempt /\ op' # None
         \/ Prepare \/ Settle \/ Requeue \/ FailActive
         \/ FinishCommit /\ op'.stage = "saving"
         \/ PersistUnknown /\ op' # None
  PROVE SaveStep
<1>0. TypeOK /\ OpShape /\ AskShape BY DEF IInv
<1>a. ASSUME NEW kind \in SaveKind, kind # "start", NEW n,
             op # None, op.snap # None,
             op.stage = StageOf(kind),
             Transition(kind, op.snap, n), Save(kind, n),
             UNCHANGED <<file, blocked, attempt, chain, mode, lastId, world>>
      PROVE SaveStep
  <2>1. op.snap \in Run BY <1>0, <1>a, SnapType
  <2>2. n \in Run /\ n.id = op.snap.id /\ n.rev = op.snap.rev BY <1>0, <1>a, <2>1, TransitionType
  <2>3. Saves(kind, n) BY <1>a, <2>2 DEF Saves
  <2> QED BY <2>2, <2>3 DEF SaveStep
<1> USE DEF StageOf
<1>b. \A k \in {"attach", "route", "expire", "recover", "begin", "prepare", "finish", "unknown",
                "requeue", "settle", "fail", "failExternally"} : k \in SaveKind /\ k # "start"
  BY DEF SaveKind
<1>c. op # None => op \in Op BY <1>0 DEF TypeOK
<1>d. attempt # None => attempt \in Attempt BY <1>0 DEF TypeOK
<1>1. CASE Anchor
  BY <1>1, <1>a, <1>b DEF Anchor, Loaded, Transition
<1>2. CASE RouteMessage
  <2>1. PICK kind \in Kind, src \in Sources, q \in 0 .. MaxRev + 2 :
          /\ Loaded /\ op.snap # None
          /\ Routable(op.snap, kind, src, q, late # "no")
          /\ Save("route", Routed(op.snap, kind, src))
          /\ UNCHANGED <<file, blocked, attempt, chain, mode, lastId, world>>
    BY <1>2 DEF RouteMessage
  <2>2. q \in Nat /\ (late # "no") \in BOOLEAN BY BoundAssumption
  <2>3. Transition("route", op.snap, Routed(op.snap, kind, src)) BY <2>1, <2>2 DEF Transition
  <2> QED BY <2>1, <2>3, <1>a, <1>b DEF Loaded
<1>3. CASE ExpireWaiting
  BY <1>3, <1>a, <1>b DEF ExpireWaiting, Loaded, Transition, QuestionExpired
<1>4. CASE FailUnlaunched
  BY <1>4, <1>a, <1>b DEF FailUnlaunched, Loaded, Transition
<1>5. CASE Recover /\ op' # None
  <2>1. Loaded /\ op.snap # None /\ NeedsRecovery(op.snap, late # "no")
        /\ Save("recover", Recovered(op.snap, late # "no"))
    BY <1>5 DEF Recover
  <2>2. (late # "no") \in BOOLEAN OBVIOUS
  <2>3. Transition("recover", op.snap, Recovered(op.snap, late # "no")) BY <2>1, <2>2 DEF Transition
  <2> QED BY <1>5, <2>1, <2>3, <1>a, <1>b DEF Loaded, Recover
<1>6. CASE BeginAttempt /\ op' # None
  BY <1>6, <1>a, <1>b DEF BeginAttempt, Loaded, Transition
<1>7. CASE Prepare
  <2>1. Transition("prepare", op.snap, Draft)
    BY <1>0, <1>7 DEF Prepare, Transition, InHand, Working, Reached, Found, Draft, AskShape
  <2> QED BY <1>7, <1>a, <1>b, <2>1 DEF Prepare, Loaded, Reached, Found
<1>8. CASE Settle
  <2>1. PauseWanted \in BOOLEAN BY <1>8, <1>d DEF PauseWanted, Settle, Working, Attempt
  <2>2. Transition("settle", op.snap, SettledDraft)
    BY <1>8, <2>1 DEF Settle, Transition, InHand, Working, Open, Reached, Found, SettledDraft
  <2> QED BY <1>8, <1>a, <1>b, <2>2 DEF Settle, Loaded, Open, Reached, Found
<1>9. CASE Requeue
  <2>1. Transition("requeue", op.snap, Requeued(op.snap, attempt.inRev, attempt.ckpt))
    BY <1>9 DEF Requeue, Transition, InHand, Working, Open, Reached, Found
  <2> QED BY <1>9, <1>a, <1>b, <2>1 DEF Requeue, Loaded, Open, Reached, Found
<1>10. CASE FailActive
  BY <1>10, <1>a, <1>b DEF FailActive, Loaded, Open, Reached, Found, Transition
<1>11. CASE FinishCommit /\ op'.stage = "saving"
  <2>1. op # None /\ op.stage = "sent" /\ op.snap # None /\ op.snap.effect # None
    BY <1>0, <1>11 DEF FinishCommit, OpShape, CommitStage
  <2>2. ~(op' = [op EXCEPT !.stage = "unknown"]) BY <1>11, <1>c, <2>1 DEF Op
  <2>3. Save("finish", Committed(op.snap)) BY <1>11, <2>2 DEF FinishCommit
  <2> QED BY <1>11, <1>a, <1>b, <2>1, <2>3 DEF FinishCommit, Transition
<1>12. CASE PersistUnknown /\ op' # None
  <2>1. op # None /\ op.stage = "unknown" /\ op.snap # None /\ op.snap.effect # None
    BY <1>0, <1>12 DEF PersistUnknown, OpShape, CommitStage
  <2> QED BY <1>12, <1>a, <1>b, <2>1 DEF PersistUnknown, Transition
<1> QED BY <1>1, <1>2, <1>3, <1>4, <1>5, <1>6, <1>7, <1>8, <1>9, <1>10, <1>11, <1>12

-----------------------------------------------------------------------------
(* What is stored has been saved at least once.                             *)
Revised ==
  /\ active # None => active.rev >= 1
  /\ legacy # None => legacy.rev >= 1
  /\ op # None /\ op.snap # None => op.snap.rev >= 1
  /\ chain.known # None => chain.known.rev >= 1


(* The program starts with nothing stored. *)
LEMMA RevisedInit == Init => Revised
  BY DEF Init, Revised, Idle

(* Every step keeps the revisions positive: a write stores a successor.     *)
LEMMA RevisedStep == IInv /\ Revised /\ [Next]_vars => Revised'
<1> SUFFICES ASSUME IInv, Revised, [Next]_vars PROVE Revised' OBVIOUS
<1>0. TypeOK BY DEF IInv
<1> USE DEF file
<1>a. op # None => op \in Op BY <1>0 DEF TypeOK
<1>b. chain \in Chain BY <1>0 DEF TypeOK
<1>c. \A st : /\ [chain EXCEPT !.stage = st].known = chain.known
              /\ [Idle EXCEPT !.stage = st].known = None /\ Idle.known = None
  BY <1>b DEF Chain, Idle
<1>d. ASSUME op # None PROVE /\ \A st, k : [op EXCEPT !.stage = st, !.kind = k].snap = op.snap
                             /\ \A st : [op EXCEPT !.stage = st].snap = op.snap
  BY <1>a, <1>d DEF Op
<1>1. CASE SaveStep
  BY <1>1, <1>d DEF SaveStep, Saves, Save, Revised
<1>2. CASE Enter \/ EnterStart
  <2>1. op'.snap = active /\ active' = active /\ legacy' = legacy
    BY <1>2 DEF Enter, EnterStart
  <2>2. chain'.known = chain.known BY <1>2, <1>c DEF Enter, EnterStart
  <2> QED BY <2>1, <2>2 DEF Revised
<1>3. CASE StartMeetsLegacy \/ StartActive
  <2>1. op # None /\ active' = active /\ legacy' = legacy /\ chain' = chain
    BY <1>3 DEF StartMeetsLegacy, StartActive
  <2>2. \E st : op' = [op EXCEPT !.stage = st] BY <1>3 DEF StartMeetsLegacy, StartActive
  <2> QED BY <1>d, <2>1, <2>2 DEF Revised
<1>4. CASE Return BY <1>4, <1>c DEF Return, Revised
<1>5. CASE Recover /\ op' = None BY <1>5 DEF Recover, Revised
<1>6. CASE Booted BY <1>6 DEF Booted, Revised
<1>7. CASE Service
  BY <1>1, <1>2, <1>3, <1>4, <1>5, <1>6, <1>7, SaveActions DEF Service
<1>8. CASE Resume \/ Decide \/ StopWork \/ Leave \/ AbortWorker
  BY <1>8 DEF Resume, Decide, StopWork, Leave, AbortWorker, Revised
<1>9. CASE CommitRefused \/ SettleRefused \/ RequeueRefused \/ FailRefused
  BY <1>9 DEF CommitRefused, SettleRefused, RequeueRefused, FailRefused, Revised
<1>10. CASE CallDeliver BY <1>10, <1>d DEF CallDeliver, Revised
<1>11. CASE Deliver
  <2>1. op # None /\ active' = active /\ legacy' = legacy /\ chain' = chain
    BY <1>11 DEF Deliver
  <2>2. \E st : op' = [op EXCEPT !.stage = st] BY <1>11 DEF Deliver
  <2> QED BY <1>d, <2>1, <2>2 DEF Revised
<1>12. CASE FinishCommit
  <2>1. op # None /\ active' = active /\ legacy' = legacy /\ chain' = chain
    BY <1>12 DEF FinishCommit
  <2>2. op'.snap = op.snap BY <1>12, <1>a, <2>1 DEF FinishCommit, Save, Op
  <2> QED BY <2>1, <2>2 DEF Revised
<1>13. CASE BeginAttempt \/ PersistUnknown
  BY <1>1, <1>13, SaveActions DEF BeginAttempt, PersistUnknown, Revised
<1>14. CASE Worker
  BY <1>1, <1>8, <1>9, <1>10, <1>11, <1>12, <1>13, <1>14, SaveActions DEF Worker
<1>15. CASE ExecuteSave
  <2>1. pend # <<>> /\ First.by = "op" /\ pend' = Tail(pend) BY <1>15 DEF ExecuteSave, Executes
  <2>2. First \in Request BY <1>0, <2>1, TakeFirst
  <2>3. First.draft \in Run /\ First.expect \in Nat
    BY <2>1, <2>2 DEF Request, SaveReq, ChatReq, DropReq, EraseReq, OtherReq
  <2>4. active' # None => active'.rev >= 1
    <3>1. CASE Write(First)
      <4>1. active'.rev = First.expect + 1 BY <2>3, <3>1 DEF Write, Run
      <4> QED BY <2>3, <4>1
    <3>2. CASE KeepFile(First) BY <3>2 DEF KeepFile, Revised
    <3> QED BY <1>15, <3>1, <3>2 DEF ExecuteSave
  <2>5. op' # None => op' = [op EXCEPT !.stage = "unknown"] \/ op' = [op EXCEPT !.stage = "deliver", !.snap = active']
    BY <1>15 DEF ExecuteSave, Saved, Threw
  <2>6. op # None /\ op.stage = "saving"
    BY <1>0, <2>1, TakeFirst DEF IInv, PendShape, QueueReq
  <2>7. op' # None => op'.snap = op.snap \/ op'.snap = active' BY <1>a, <2>5, <2>6 DEF Op
  <2>8. legacy' = legacy BY <1>15 DEF ExecuteSave, Write, KeepFile
  <2>9. chain'.known = chain.known BY <1>15, <1>c DEF ExecuteSave, ChainAfter
  <2> QED BY <2>4, <2>6, <2>7, <2>8, <2>9 DEF Revised
<1>16. CASE ExecuteStartDrop
  <2>1. pend # <<>> /\ First.by = "startDrop" BY <1>16 DEF ExecuteStartDrop, Executes
  <2>2. op # None BY <1>0, <2>1, <1>16, TakeFirst DEF IInv, PendShape, QueueReq, ExecuteStartDrop, Executes
  <2> QED BY <1>16, <1>c, <1>d, <2>2 DEF ExecuteStartDrop, Revised
<1>17. CASE ExecuteDrop BY <1>17 DEF ExecuteDrop, Revised
<1>18. CASE ExecutePurge BY <1>18 DEF ExecutePurge, Revised
<1>19. CASE ExecuteClear BY <1>19 DEF ExecuteClear, Revised
<1>20. CASE ExecuteErase BY <1>20, <1>c DEF ExecuteErase, Revised
<1>21. CASE ExecuteChatSave
  <2>1. pend # <<>> /\ First.by \in {"chat", "claim"} /\ pend' = Tail(pend)
    BY <1>21 DEF ExecuteChatSave, Executes
  <2>2. First \in ChatReq
    BY <1>0, <2>1, TakeFirst DEF Request, SaveReq, ChatReq, DropReq, EraseReq, OtherReq
  <2>3. First.expect + 1 >= 1 BY <2>2 DEF ChatReq
  <2>4. active' = active \/ active' = None BY <1>21 DEF ExecuteChatSave, RecordBeside
  <2>5. legacy' = legacy \/ legacy' = [id |-> First.id, rev |-> First.expect + 1]
    BY <1>21 DEF ExecuteChatSave
  <2>6. chain'.known = None \/ chain'.known = legacy'
    <3>1. \/ chain' = [Idle EXCEPT !.stage = "abandon"] \/ chain' = Idle
          \/ chain' = [stage |-> "idle", known |-> legacy']
      BY <1>21 DEF ExecuteChatSave
    <3>2. [stage |-> "idle", known |-> legacy'].known = legacy' OBVIOUS
    <3> QED BY <1>c, <3>1, <3>2
  <2> QED BY <1>21, <2>3, <2>4, <2>5, <2>6 DEF ExecuteChatSave, Revised
<1>22. CASE Chat
  BY <1>22, <1>b, <1>c
  DEF Chat, ChatRestore, ChatAsks, ChatClaims, ChatClears, ChatAbandons, Erase, Revised, Chain
<1>23. CASE Rights
  <2>1. CASE Withdraw
    <3>1. active' = active /\ legacy' = legacy /\ op' = op /\ chain' = [chain EXCEPT !.stage = "withdrawing"]
      BY <2>1 DEF Withdraw
    <3> QED BY <1>c, <3>1 DEF Revised
  <2>2. CASE \E why : Erase(why)
    <3>1. active' = active /\ legacy' = legacy /\ op' = op /\ chain' = [Idle EXCEPT !.stage = "erasing"]
      BY <2>2 DEF Erase
    <3> QED BY <1>c, <3>1 DEF Revised
  <2> QED BY <1>23, <2>1, <2>2 DEF Rights, Forget, Accept, Discard
<1>24. CASE Environment
  BY <1>24, <1>c
  DEF Environment, QuestionLapses, HorizonPasses, LegacyLapses, DropExpired, Purge, Shutdown, Restart, Revised
<1>25. CASE UNCHANGED vars BY <1>25 DEF vars, Revised
<1> QED BY <1>7, <1>14, <1>15, <1>16, <1>17, <1>18, <1>19, <1>20, <1>21, <1>22, <1>23, <1>24, <1>25
        DEF Next, File


-----------------------------------------------------------------------------
(* The kinds of steps the queue and the file can take; what the later       *)
(* invariants need to know of each.                                         *)

(* An attempt is left, or keeps its run and revision and sees no less.      *)
AttemptKept ==
  \/ attempt' = None
  \/ /\ attempt # None /\ attempt' # None
     /\ attempt'.run = attempt.run /\ attempt'.inRev = attempt.inRev
     /\ attempt.ckpt.seen \subseteq attempt'.ckpt.seen
     /\ attempt.stage = "failing" => attempt'.stage = "failing"

(* Nothing is stored, issued or sent. *)
Quiet ==
  /\ UNCHANGED <<active, legacy, op, pend, lastId, world>>
  /\ AttemptKept
  /\ late = "run" => late' = "run"

(* A write is issued from outside the active queue.                         *)
Issues(req) ==
  /\ Issue(req) /\ req.by \notin QueueReq
  /\ \/ ~Creates(req) /\ lastId' = lastId
     \/ Creates(req) /\ lastId' = lastId + 1 /\ NewId(req) = lastId + 1
  /\ req.by = "drop" => active # None /\ late = "run" /\ req.id = active.id /\ req.rev = active.rev
  /\ UNCHANGED <<file, op, attempt, world>>

(* An operation takes the queue. *)
Enters ==
  /\ op = None /\ op' # None /\ op' \in Op
  /\ op'.stage = "loaded" /\ op'.kind \in {"none", "start"} /\ op'.snap = active
  /\ UNCHANGED <<file, pend, attempt, lastId, world>>

(* An operation leaves the queue without a save; recovery may remove what   *)
(* it found expired.                                                        *)
Leaves ==
  /\ op # None /\ op.stage \notin {"saving", "dropping"} /\ op' = None
  /\ \/ pend' = pend
     \/ /\ op.snap # None /\ late = "run"
        /\ Issue([by |-> "drop", id |-> op.snap.id, rev |-> op.snap.rev])
  /\ \/ AttemptKept /\ (attempt' # None => attempt'.stage = "failing" \/ op.stage \in {"loaded", "start"})
     \/ attempt = None /\ op.snap # None /\ CanBegin(op.snap) /\ attempt' = FailingOn(op.snap)
  /\ UNCHANGED <<file, lastId, world>>

(* An operation goes on to its next stage. *)
Advances(stage) ==
  /\ op # None /\ op' = [op EXCEPT !.stage = stage]
  /\ \/ /\ op.stage = "loaded" /\ op.kind = "start"
        /\ \/ stage = "start" /\ pend' = pend
           \/ /\ stage = "dropping"
              /\ \E req \in Request : Issue(req) /\ req.by = "startDrop"
        /\ sent' = sent
     \/ /\ op.stage = "deliver" /\ stage \in {"sending", "unknown"} /\ pend' = pend /\ sent' = sent
     \/ /\ op.stage = "sending" /\ pend' = pend
        /\ \/ sent' = sent \cup {Outgoing(op.snap)} /\ stage \in {"sent", "unknown"}
           \/ sent' = sent /\ stage = "unknown"
     \/ /\ op.stage = "sent" /\ stage = "unknown" /\ pend' = pend /\ sent' = sent
  /\ UNCHANGED <<file, attempt, lastId, erased>>

(* What a step of the service or the worker is. *)
LEMMA ServiceSteps ==
  IInv /\ Service =>
    \/ SaveStep \/ Quiet \/ Enters \/ Leaves \/ StartActive
    \/ \E stage \in {"start", "dropping"} : Advances(stage)
<1> SUFFICES ASSUME IInv, Service
             PROVE \/ SaveStep \/ Quiet \/ Enters \/ Leaves \/ StartActive
                   \/ \E stage \in {"start", "dropping"} : Advances(stage)
  OBVIOUS
<1>0. TypeOK BY DEF IInv
<1> USE DEF file, world
<1>a. IInv' BY ServiceShape
<1>b. op' # None => op' \in Op BY <1>a DEF IInv, TypeOK
<1>c. attempt' = attempt => AttemptKept BY <1>0 DEF TypeOK, Attempt, AttemptKept
<1>1. CASE Enter \/ EnterStart
  <2>1. op = None /\ op'.stage = "loaded" /\ op'.kind \in {"none", "start"} /\ op'.snap = active
    BY <1>1 DEF Enter, EnterStart
  <2>2. op' # None
    <3>1. [stage |-> "loaded", kind |-> "none", snap |-> active] \in Op
      BY <1>0 DEF TypeOK, Op
    <3>2. [stage |-> "loaded", kind |-> "start", snap |-> active] \in Op
      BY <1>0 DEF TypeOK, Op, SaveKind
    <3> QED BY <1>1, <3>1, <3>2, NoMemoryIsNone DEF Enter, EnterStart
  <2> QED BY <1>1, <1>b, <2>1, <2>2 DEF Enters, Enter, EnterStart
<1>2. CASE Return
  <2>1. op.stage \in {"loaded", "start"} BY <1>2 DEF Return
  <2> QED BY <1>2, <1>c, <2>1 DEF Return, Leaves
<1>3. CASE StartMeetsLegacy
  <2>1. CASE legacy = None BY <1>3, <2>1 DEF StartMeetsLegacy, Advances
  <2>2. CASE legacy # None
    <3> DEFINE req == [by |-> "startDrop", id |-> legacy.id, rev |-> legacy.rev]
    <3>1. req \in Request /\ req.by = "startDrop"
      BY <1>0, <2>2 DEF TypeOK, Legacy, Request, DropReq
    <3>2. Issue(req) BY <1>3, <2>2 DEF StartMeetsLegacy
    <3> HIDE DEF req
    <3>3. \E rq \in Request : Issue(rq) /\ rq.by = "startDrop" BY <3>1, <3>2
    <3> QED BY <1>3, <2>2, <3>3 DEF StartMeetsLegacy, Advances
  <2> QED BY <2>1, <2>2
<1>4. CASE StartActive BY <1>4
<1>5. CASE Anchor \/ RouteMessage \/ ExpireWaiting \/ FailUnlaunched BY <1>5, SaveActions
<1>6. CASE Recover
  <2>1. CASE op' # None BY <1>6, <2>1, SaveActions
  <2>2. CASE op' = None
    <3>2. op # None /\ op.stage = "loaded" /\ op.snap # None BY <1>6 DEF Recover, Loaded
    <3>3. [op EXCEPT !.stage = "saving", !.kind = "recover"] \in Op
      BY <1>0, <3>2 DEF TypeOK, Op, SaveKind
    <3>4. late = "run" /\ Issue([by |-> "drop", id |-> op.snap.id, rev |-> op.snap.rev])
      BY <1>6, <2>2, <3>3, NoMemoryIsNone DEF Recover, Save
    <3> QED BY <1>6, <1>c, <2>2, <3>2, <3>4 DEF Recover, Leaves
  <2> QED BY <2>1, <2>2
<1>7. CASE Booted
  <2>1. UNCHANGED <<active, late, legacy, op, pend, attempt, lastId, sent, erased>>
    BY <1>7 DEF Booted
  <2> QED BY <1>c, <2>1 DEF Quiet
<1> QED BY <1>1, <1>2, <1>3, <1>4, <1>5, <1>6, <1>7 DEF Service

(* Moving to a stage keeps the attempt. *)
LEMMA AtKeeps ==
  ASSUME TypeOK, attempt # None, NEW stage \in WorkStage, At(stage),
         attempt.stage = "failing" => stage = "failing"
  PROVE AttemptKept /\ attempt' # None /\ attempt'.stage = stage
<1>1. attempt \in Attempt BY DEF TypeOK
<1>2. /\ attempt' \in Attempt /\ attempt'.stage = stage /\ attempt'.ckpt = attempt.ckpt
      /\ attempt'.run = attempt.run /\ attempt'.inRev = attempt.inRev
  BY <1>1 DEF At, Attempt
<1> QED BY <1>2, NoMemoryIsNone DEF AttemptKept


(* What a step of the worker is. *)
LEMMA WorkerSteps ==
  IInv /\ Worker =>
    SaveStep \/ Quiet \/ Leaves \/ \E stage \in {"sending", "sent", "unknown"} : Advances(stage)
<1> SUFFICES ASSUME IInv, Worker
             PROVE SaveStep \/ Quiet \/ Leaves
                   \/ \E stage \in {"sending", "sent", "unknown"} : Advances(stage)
  OBVIOUS
<1>0. TypeOK /\ OpShape BY DEF IInv
<1>a. attempt # None => attempt \in Attempt BY <1>0 DEF TypeOK
<1>b. op # None => op \in Op BY <1>0 DEF TypeOK
<1>c. ASSUME AttemptKept, UNCHANGED <<file, op, pend, lastId, world>> PROVE Quiet
  BY <1>c DEF Quiet, file
<1>d. ASSUME op # None, op.stage = "loaded", op' = None, AttemptKept,
             UNCHANGED <<file, pend, lastId, world>>
      PROVE Leaves
  BY <1>d DEF Leaves
<1>e. \A st \in WorkStage : attempt # None /\ attempt.stage # "failing" /\ At(st) => AttemptKept
  BY <1>0, AtKeeps
<1>1. CASE BeginAttempt
  <2>1. CASE op' # None BY <1>1, <2>1, SaveActions
  <2>2. CASE op' = None
    <3>1. op # None /\ op.stage = "loaded" /\ op.snap # None /\ attempt = None /\ CanBegin(op.snap)
      BY <1>1 DEF BeginAttempt, Loaded
    <3>2. [op EXCEPT !.stage = "saving", !.kind = "begin"] \in Op BY <1>b, <3>1 DEF Op, SaveKind
    <3>3. attempt' = FailingOn(op.snap) /\ pend' = pend
      BY <1>1, <2>2, <3>2, NoMemoryIsNone DEF BeginAttempt, Save
    <3> QED BY <1>1, <2>2, <3>1, <3>3 DEF BeginAttempt, Leaves
  <2> QED BY <2>1, <2>2
<1>2. CASE Resume
  <2>1. attempt \in Attempt /\ attempt # None /\ attempt.stage = "begun"
    BY <1>a, <1>2 DEF Resume, Working
  <2>2. CASE At("planning") \/ At("ask")
    BY <1>2, <1>c, <1>e, <2>1, <2>2 DEF Resume, WorkStage
  <2>3. CASE ~(At("planning") \/ At("ask"))
    <3> DEFINE ck == [seen |-> attempt.ckpt.seen \cup {attempt.answer.src}, ask |-> None]
    <3>0. attempt.answer \in Answer /\ attempt.ckpt \in Checkpoint
      BY <1>2, <2>1, <2>3 DEF Resume, Attempt
    <3>1. attempt' = [attempt EXCEPT !.stage = "planning", !.ckpt = ck] BY <1>2, <2>3 DEF Resume
    <3>2. ck.seen = attempt.ckpt.seen \cup {attempt.answer.src} OBVIOUS
    <3> HIDE DEF ck
    <3>3. /\ attempt'.run = attempt.run /\ attempt'.inRev = attempt.inRev /\ attempt'.ckpt = ck
          /\ attempt'.stage = "planning"
      BY <2>1, <3>1 DEF Attempt
    <3>4. attempt' # None
      <4>1. ck \in Checkpoint BY <3>0 DEF ck, Answer, Checkpoint
      <4>2. attempt' \in Attempt BY <2>1, <3>1, <4>1 DEF Attempt, WorkStage
      <4> QED BY <4>2, NoMemoryIsNone
    <3> QED BY <1>2, <1>c, <2>1, <3>2, <3>3, <3>4 DEF Resume, AttemptKept
  <2> QED BY <2>2, <2>3

<1>3. CASE Decide
  <2>1. attempt \in Attempt /\ attempt # None /\ attempt.stage = "planning"
    BY <1>a, <1>3 DEF Decide, Working
  <2>2. CASE At("final") \/ At("stopped") \/ At("approval")
    BY <1>3, <1>c, <1>e, <2>1, <2>2 DEF Decide, WorkStage
  <2>3. CASE \E q \in Prompts : attempt' = [attempt EXCEPT !.stage = "ask", !.ckpt.ask = q]
    <3>1. PICK q \in Prompts : attempt' = [attempt EXCEPT !.stage = "ask", !.ckpt.ask = q] BY <2>3
    <3>2. [attempt.ckpt EXCEPT !.ask = q] \in Checkpoint
          /\ [attempt.ckpt EXCEPT !.ask = q].seen = attempt.ckpt.seen
      BY <2>1 DEF Attempt, Checkpoint
    <3>3. /\ attempt' \in Attempt /\ attempt'.ckpt.seen = attempt.ckpt.seen
          /\ attempt'.run = attempt.run /\ attempt'.inRev = attempt.inRev
      BY <2>1, <3>1, <3>2 DEF Attempt, WorkStage, Checkpoint
    <3>4. AttemptKept BY <2>1, <3>3, NoMemoryIsNone DEF AttemptKept
    <3> QED BY <1>3, <1>c, <3>4 DEF Decide
  <2> QED BY <1>3, <2>1, <2>2, <2>3 DEF Decide
<1>4. CASE StopWork
  <2>1. attempt # None /\ attempt.stage \in {"begun", "planning"} /\ (At("cancelled") \/ At("stopped"))
    BY <1>4 DEF StopWork, Working
  <2> QED BY <1>4, <1>c, <1>e, <2>1 DEF StopWork, WorkStage
<1>5. CASE Leave
  <2>1. attempt # None /\ attempt.stage = "after" /\ (attempt' = None \/ At("failing"))
    BY <1>5 DEF Leave, Working
  <2>2. AttemptKept BY <1>e, <2>1 DEF WorkStage, AttemptKept
  <2> QED BY <1>5, <1>c, <2>2 DEF Leave
<1>6. CASE AbortWorker
  <2>1. attempt \in Attempt /\ attempt # None /\ attempt' = [attempt EXCEPT !.aborted = TRUE]
    BY <1>a, <1>6 DEF AbortWorker
  <2>2. attempt' \in Attempt /\ attempt'.run = attempt.run /\ attempt'.inRev = attempt.inRev
        /\ attempt'.ckpt = attempt.ckpt /\ attempt'.stage = attempt.stage
    BY <2>1 DEF Attempt
  <2>3. AttemptKept BY <2>1, <2>2, NoMemoryIsNone DEF AttemptKept
  <2> QED BY <1>6, <1>c, <2>3 DEF AbortWorker
<1>7. CASE Prepare \/ Settle \/ Requeue \/ FailActive BY <1>7, SaveActions
<1>8. CASE CommitRefused
  <2>1. attempt # None /\ attempt.stage \in {"final", "ask"} /\ (At("failing") \/ At("stale"))
    BY <1>8 DEF CommitRefused, Working
  <2>2. AttemptKept BY <1>e, <2>1 DEF WorkStage
  <2> QED BY <1>8, <1>d, <2>2 DEF CommitRefused, Loaded
<1>9. CASE SettleRefused
  <2>1. attempt # None /\ attempt.stage \in {"cancelled", "stopped"} /\ (At("failing") \/ attempt' = None)
    BY <1>9 DEF SettleRefused, Working
  <2>2. AttemptKept BY <1>e, <2>1 DEF WorkStage, AttemptKept
  <2> QED BY <1>9, <1>d, <2>2 DEF SettleRefused, Loaded
<1>10. CASE RequeueRefused
  <2>1. attempt # None /\ attempt.stage = "stale" /\ At("failing")
    BY <1>10 DEF RequeueRefused, Working
  <2>2. AttemptKept BY <1>e, <2>1 DEF WorkStage
  <2> QED BY <1>10, <1>d, <2>2 DEF RequeueRefused, Loaded
<1>11. CASE FailRefused
  <2>1. attempt # None /\ (At("failing") \/ attempt' = None) BY <1>11 DEF FailRefused, Working
  <2>2. AttemptKept BY <1>0, <2>1, AtKeeps DEF WorkStage, AttemptKept
  <2> QED BY <1>11, <1>d, <2>2 DEF FailRefused, Loaded
<1>12. CASE CallDeliver
  BY <1>12 DEF CallDeliver, Advances, world
<1>13. CASE Deliver
  BY <1>13 DEF Deliver, Advances
<1>14. CASE FinishCommit
  <2>1. CASE op'.stage = "saving" BY <1>14, <2>1, SaveActions
  <2>2. CASE op'.stage # "saving"
    <3>1. op # None /\ op.stage = "sent" /\ op \in Op BY <1>14, <1>b DEF FinishCommit
    <3>2. ~(op' = [op EXCEPT !.stage = "saving", !.kind = "finish"]) BY <2>2, <3>1 DEF Op
    <3>3. op' = [op EXCEPT !.stage = "unknown"] /\ pend' = pend BY <1>14, <3>2 DEF FinishCommit, Save
    <3> QED BY <1>14, <3>1, <3>3 DEF FinishCommit, Advances, world
  <2> QED BY <2>1, <2>2
<1>15. CASE PersistUnknown
  <2>1. CASE op' # None BY <1>15, <2>1, SaveActions
  <2>2. CASE op' = None
    <3>1. op # None /\ op.stage = "unknown" /\ op \in Op BY <1>15, <1>b DEF PersistUnknown
    <3>2. [op EXCEPT !.stage = "saving", !.kind = "unknown"] \in Op BY <3>1 DEF Op, SaveKind
    <3>3. At("failing") /\ pend' = pend BY <1>15, <2>2, <3>2, NoMemoryIsNone DEF PersistUnknown, Save
    <3>4. attempt # None BY <1>0, <3>1 DEF OpShape, CommitStage
    <3>5. AttemptKept /\ attempt'.stage = "failing" BY <1>0, <3>3, <3>4, AtKeeps DEF WorkStage
    <3> QED BY <1>15, <2>2, <3>1, <3>3, <3>5 DEF PersistUnknown, Leaves
  <2> QED BY <2>1, <2>2
<1> QED BY <1>1, <1>2, <1>3, <1>4, <1>5, <1>6, <1>7, <1>8, <1>9, <1>10, <1>11, <1>12, <1>13, <1>14,
           <1>15 DEF Worker


(* What the chat, the owner's rights and the environment do. *)
LEMMA OutsideSteps ==
  IInv /\ Revised /\ (Chat \/ Rights \/ Environment) =>
    Quiet \/ Restart \/ \E req \in Request : Issues(req)
<1> SUFFICES ASSUME IInv, Revised, Chat \/ Rights \/ Environment
             PROVE Quiet \/ Restart \/ \E req \in Request : Issues(req)
  OBVIOUS
<1>0. TypeOK BY DEF IInv
<1>a. attempt # None => attempt \in Attempt BY <1>0 DEF TypeOK
<1>b. attempt' = attempt => AttemptKept BY DEF AttemptKept
<1>c. ASSUME attempt' = attempt, UNCHANGED <<file, op, pend, lastId, world>> PROVE Quiet
  BY <1>b, <1>c DEF Quiet, file
<1>d. attempt' = (IF attempt = None THEN None ELSE [attempt EXCEPT !.aborted = TRUE]) => AttemptKept
  <2> SUFFICES ASSUME attempt' = IF attempt = None THEN None ELSE [attempt EXCEPT !.aborted = TRUE],
                      attempt # None
               PROVE AttemptKept
    BY DEF AttemptKept
  <2>1. attempt' \in Attempt /\ attempt'.run = attempt.run /\ attempt'.inRev = attempt.inRev
        /\ attempt'.ckpt = attempt.ckpt /\ attempt'.stage = attempt.stage
    BY <1>a DEF Attempt
  <2> QED BY <2>1, NoMemoryIsNone DEF AttemptKept
<1>e. ASSUME NEW req \in Request, Issue(req), req.by \in {"dropLegacy", "erase", "purge", "clear"},
             UNCHANGED <<file, op, attempt, lastId, world>>
      PROVE \E rq \in Request : Issues(rq)
  <2>1. req.by \notin QueueReq /\ ~Creates(req) /\ req.by # "drop" BY <1>e DEF QueueReq, Creates
  <2> QED BY <1>e, <2>1 DEF Issues
<1>f. ASSUME NEW by \in {"chat", "claim"}, NEW i \in Nat, NEW e \in Nat, e # 0,
             Issue([by |-> by, id |-> i, expect |-> e]),
             UNCHANGED <<file, op, attempt, lastId, world>>
      PROVE \E rq \in Request : Issues(rq)
  <2> DEFINE req == [by |-> by, id |-> i, expect |-> e]
  <2>1. req \in Request /\ Issue(req) /\ req.by = by /\ req.expect = e BY <1>f, OutsideRequests
  <2> HIDE DEF req
  <2>2. req.by \notin QueueReq /\ ~Creates(req) /\ req.by # "drop" BY <1>f, <2>1 DEF QueueReq, Creates
  <2> QED BY <1>f, <2>1, <2>2 DEF Issues
<1>g. legacy # None => legacy.id \in Nat /\ legacy.rev \in Nat BY <1>0 DEF TypeOK, Legacy
<1>h. chain.known # None => chain.known.id \in Nat /\ chain.known.rev \in Nat /\ chain.known.rev # 0
  BY <1>0 DEF TypeOK, Chain, Legacy, Revised
<1>i. ASSUME NEW why \in {"forget", "discard", "abandon", "accept"}, Erase(why), attempt' = attempt
      PROVE \E rq \in Request : Issues(rq)
  <2> DEFINE req == [by |-> "erase", why |-> why, was |-> blocked]
  <2>1. req \in Request /\ req.by = "erase" BY <1>0, OutsideRequests DEF TypeOK
  <2>2. Issue(req) BY <1>i DEF Erase
  <2> HIDE DEF req
  <2> QED BY <1>e, <1>i, <2>1, <2>2 DEF Erase
<1>j. \A i, e \in Nat : [by |-> "dropLegacy", id |-> i, rev |-> e] \in Request
                        /\ [by |-> "dropLegacy", id |-> i, rev |-> e].by = "dropLegacy"
  BY OutsideRequests
<1>1. CASE ChatRestore
  <2>1. legacy # None /\ UNCHANGED <<file, op, attempt, lastId, world>> BY <1>1 DEF ChatRestore
  <2>2. CASE Issue([by |-> "dropLegacy", id |-> legacy.id, rev |-> legacy.rev])
    BY <1>e, <1>g, <1>j, <2>1, <2>2
  <2>3. CASE UNCHANGED pend BY <1>c, <2>1, <2>3
  <2> QED BY <1>1, <2>2, <2>3 DEF ChatRestore
<1>2. CASE ChatAsks
  <2>1. UNCHANGED <<file, op, attempt, world>> BY <1>2 DEF ChatAsks
  <2>2. CASE lastId' = lastId + 1 /\ Issue([by |-> "chat", id |-> lastId + 1, expect |-> 0])
    <3> DEFINE req == [by |-> "chat", id |-> lastId + 1, expect |-> 0]
    <3>1. lastId + 1 \in Nat BY <1>0 DEF TypeOK
    <3>2. req \in Request /\ Issue(req) /\ req.by = "chat" /\ Creates(req) /\ NewId(req) = lastId + 1
      BY <2>2, <3>1, OutsideRequests DEF Creates, NewId
    <3> HIDE DEF req
    <3>3. req.by \notin QueueReq /\ req.by # "drop" BY <3>2 DEF QueueReq
    <3> QED BY <2>1, <2>2, <3>2, <3>3 DEF Issues
  <2>3. CASE chain.known # None /\ UNCHANGED lastId
             /\ Issue([by |-> "chat", id |-> chain.known.id, expect |-> chain.known.rev])
    BY <1>f, <1>h, <2>1, <2>3
  <2> QED BY <1>2, <2>2, <2>3 DEF ChatAsks
<1>3. CASE ChatClaims
  <2>1. chain.known # None /\ UNCHANGED <<file, op, attempt, lastId, world>> BY <1>3 DEF ChatClaims
  <2>2. CASE Issue([by |-> "claim", id |-> chain.known.id, expect |-> chain.known.rev])
    BY <1>f, <1>h, <2>1, <2>2
  <2>3. CASE UNCHANGED pend BY <1>c, <2>1, <2>3
  <2>4. CASE legacy = chain.known
             /\ Issue([by |-> "dropLegacy", id |-> legacy.id, rev |-> legacy.rev])
    BY <1>e, <1>h, <1>j, <2>1, <2>4
  <2> QED BY <1>3, <2>2, <2>3, <2>4 DEF ChatClaims
<1>4. CASE ChatClears
  <2>1. UNCHANGED <<file, op, attempt, lastId, world>> BY <1>4 DEF ChatClears
  <2>2. CASE chain.known # None
             /\ Issue([by |-> "dropLegacy", id |-> chain.known.id, rev |-> chain.known.rev])
    BY <1>e, <1>h, <1>j, <2>1, <2>2
  <2>3. CASE Issue([by |-> "clear"])
    <3>1. [by |-> "clear"] \in Request /\ [by |-> "clear"].by = "clear" BY OutsideRequests
    <3> QED BY <1>e, <2>1, <2>3, <3>1
  <2> QED BY <1>4, <2>2, <2>3 DEF ChatClears
<1>5. CASE ChatAbandons BY <1>5, <1>i DEF ChatAbandons
<1>6. CASE Withdraw
  <2>1. AttemptKept /\ UNCHANGED <<file, op, pend, lastId, world>> BY <1>6, <1>d DEF Withdraw
  <2> QED BY <2>1 DEF Quiet, file
<1>7. CASE Forget \/ Accept \/ Discard BY <1>7, <1>i DEF Forget, Accept, Discard
<1>8. CASE QuestionLapses \/ HorizonPasses \/ LegacyLapses
  <2>1. attempt' = attempt /\ UNCHANGED <<active, legacy, op, pend, lastId, world>>
        /\ (late = "run" => late' = "run")
    BY <1>8 DEF QuestionLapses, HorizonPasses, LegacyLapses
  <2> QED BY <1>b, <2>1 DEF Quiet
<1>9. CASE DropExpired
  <2> DEFINE req == [by |-> "drop", id |-> active.id, rev |-> active.rev]
  <2>1. active # None /\ late = "run" /\ Issue(req) /\ UNCHANGED <<file, op, attempt, lastId, world>>
    BY <1>9 DEF DropExpired
  <2>2. active.id \in Nat /\ active.rev \in Nat BY <1>0, <2>1 DEF TypeOK, Run
  <2>3. req \in Request /\ req.by = "drop" /\ req.id = active.id /\ req.rev = active.rev
    BY <2>2, OutsideRequests
  <2> HIDE DEF req
  <2>4. req.by \notin QueueReq /\ ~Creates(req) BY <2>3 DEF QueueReq, Creates
  <2> QED BY <2>1, <2>3, <2>4 DEF Issues
<1>10. CASE Purge
  <2>1. [by |-> "purge"] \in Request /\ [by |-> "purge"].by = "purge" BY OutsideRequests
  <2>2. Issue([by |-> "purge"]) /\ UNCHANGED <<file, op, attempt, lastId, world>> BY <1>10 DEF Purge
  <2> QED BY <1>e, <2>1, <2>2
<1>11. CASE Shutdown
  <2>1. AttemptKept /\ UNCHANGED <<file, op, pend, lastId, world>> BY <1>11, <1>d DEF Shutdown
  <2> QED BY <2>1 DEF Quiet, file
<1>12. CASE Restart BY <1>12
<1> QED BY <1>1, <1>2, <1>3, <1>4, <1>5, <1>6, <1>7, <1>8, <1>9, <1>10, <1>11, <1>12
        DEF Chat, Rights, Environment

(* Every step is one of these, or executes the oldest write. *)
LEMMA Steps ==
  IInv /\ Revised /\ [Next]_vars =>
    \/ SaveStep \/ Quiet \/ Enters \/ Leaves \/ StartActive \/ Restart \/ File
    \/ \E stage \in {"start", "dropping", "sending", "sent", "unknown"} : Advances(stage)
    \/ \E req \in Request : Issues(req)
<1> SUFFICES ASSUME IInv, Revised, [Next]_vars
             PROVE \/ SaveStep \/ Quiet \/ Enters \/ Leaves \/ StartActive \/ Restart \/ File
                   \/ \E stage \in {"start", "dropping", "sending", "sent", "unknown"} : Advances(stage)
                   \/ \E req \in Request : Issues(req)
  OBVIOUS
<1>1. CASE UNCHANGED vars
  BY <1>1 DEF vars, file, world, Quiet, AttemptKept
<1> QED BY <1>1, ServiceSteps, WorkerSteps, OutsideSteps DEF Next


-----------------------------------------------------------------------------
(* The oldest write executes. *)

(* How the holder and its worker go on after their save.                    *)
SaveExecutes ==
  /\ pend # <<>> /\ First.by = "op" /\ First \in SaveReq /\ pend' = Tail(pend)
  /\ op # None /\ op.stage = "saving"
  /\ Write(First) \/ KeepFile(First)
  /\ \/ op' = None
     \/ /\ op.kind = "prepare" /\ Write(First) /\ attempt' = attempt
        /\ op' = [op EXCEPT !.stage = "deliver", !.snap = active']
     \/ /\ op.kind = "finish" /\ attempt' = attempt /\ op' = [op EXCEPT !.stage = "unknown"]
  /\ \/ attempt' = attempt \/ attempt' = None
     \/ /\ attempt # None /\ attempt' # None
        /\ attempt'.run = attempt.run /\ attempt'.inRev = attempt.inRev
        /\ attempt'.ckpt = attempt.ckpt
        /\ attempt'.stage = "failing" \/ (op.kind = "finish" /\ Write(First))
     \/ op.kind = "begin" /\ Write(First) /\ attempt' = AttemptOn(op.snap)
     \/ op.kind = "begin" /\ attempt' = FailingOn(op.snap)
  /\ op.kind = "finish" /\ op' = None => Write(First)
  /\ op.kind \in {"unknown", "prepare"} /\ op' = None => attempt' # None /\ attempt'.stage = "failing"
  /\ UNCHANGED <<legacy, lastId, world>>

(* Any other write takes something away, or stores a checkpoint.            *)
OtherExecutes ==
  /\ pend # <<>> /\ First \in Request /\ First.by # "op" /\ pend' = Tail(pend)
  /\ \/ UNCHANGED <<active, late>>
     \/ /\ active' = None
        /\ First.by \in {"drop", "purge"} =>
             late = "run" \/ (First.by = "drop" /\ active # None
                              /\ active.id = First.id /\ active.rev = First.rev)
  /\ \/ op' = op
     \/ /\ op # None /\ op.stage = "dropping" /\ First.by = "startDrop"
        /\ op' = None \/ op' = [op EXCEPT !.stage = "start"]
  /\ \/ legacy' = legacy \/ legacy' = None
     \/ /\ First.by \in {"chat", "claim"} /\ legacy' # None /\ legacy'.id = First.id
        /\ First.expect = 0 \/ (legacy # None /\ legacy.id = First.id)
  /\ \/ erased' = erased
     \/ active' = None /\ legacy' = None /\ erased' = erased \cup Ids
  /\ UNCHANGED <<attempt, sent, lastId>>

(* A save of the queue executes. *)
LEMMA SaveExecution == IInv /\ ExecuteSave => SaveExecutes
<1> SUFFICES ASSUME IInv, ExecuteSave PROVE SaveExecutes OBVIOUS
<1>0. TypeOK /\ OpShape /\ PendShape BY DEF IInv
<1>1. pend # <<>> /\ First.by = "op" /\ pend' = Tail(pend) BY DEF ExecuteSave, Executes
<1>2. First \in Request /\ First = pend[1] /\ 1 \in 1 .. Len(pend) BY <1>0, <1>1, TakeFirst
<1>3. First \in SaveReq
  BY <1>1, <1>2 DEF Request, SaveReq, ChatReq, DropReq, EraseReq, OtherReq
<1>4. op # None /\ op.stage = "saving" BY <1>0, <1>1, <1>2 DEF PendShape, QueueReq
<1>5. op.kind \in WorkerKind => attempt # None BY <1>0, <1>4 DEF OpShape
<1>6. UNCHANGED <<legacy, lastId, world>> BY DEF ExecuteSave, Write, KeepFile, file
<1>7. Write(First) \/ KeepFile(First) BY DEF ExecuteSave
<1>a. \A st \in WorkStage : attempt # None /\ At(st) =>
        /\ attempt' # None /\ attempt'.run = attempt.run /\ attempt'.inRev = attempt.inRev
        /\ attempt'.ckpt = attempt.ckpt /\ attempt'.stage = st
  <2> SUFFICES ASSUME NEW st \in WorkStage, attempt # None, At(st)
               PROVE /\ attempt' # None /\ attempt'.run = attempt.run /\ attempt'.inRev = attempt.inRev
                     /\ attempt'.ckpt = attempt.ckpt /\ attempt'.stage = st
    OBVIOUS
  <2>1. attempt \in Attempt BY <1>0 DEF TypeOK
  <2>2. attempt' \in Attempt /\ attempt'.run = attempt.run /\ attempt'.inRev = attempt.inRev
        /\ attempt'.ckpt = attempt.ckpt /\ attempt'.stage = st
    BY <2>1 DEF At, Attempt
  <2> QED BY <2>2, NoMemoryIsNone
<1>b. "failing" \in WorkStage /\ "after" \in WorkStage BY DEF WorkStage
<1>c. ASSUME op' = None, At("failing"), attempt # None, op.kind # "finish" PROVE SaveExecutes
  BY <1>1, <1>3, <1>4, <1>6, <1>7, <1>a, <1>b, <1>c DEF SaveExecutes
<1>d. ASSUME op' = None, attempt' = None \/ attempt' = attempt,
             op.kind \notin {"finish", "unknown", "prepare"}
      PROVE SaveExecutes
  BY <1>1, <1>3, <1>4, <1>6, <1>7, <1>d DEF SaveExecutes
<1>8. CASE Write(First) /\ Saved
  <2>1. CASE op.kind = "begin"
    <3>1. attempt' = AttemptOn(op.snap) /\ op' = None BY <1>8, <2>1 DEF Saved
    <3> QED BY <1>1, <1>3, <1>4, <1>6, <1>8, <2>1, <3>1 DEF SaveExecutes
  <2>2. CASE op.kind = "prepare"
    <3>1. op' = [op EXCEPT !.stage = "deliver", !.snap = active'] /\ attempt' = attempt
      BY <1>8, <2>2 DEF Saved
    <3>2. op' # None
      <4>1. IInv' BY ExecuteSaveShape
      <4>2. op \in Op BY <1>0, <1>4 DEF TypeOK
      <4>3. active' \in Run \cup {None} BY <4>1 DEF IInv, TypeOK
      <4>4. op' \in Op BY <3>1, <4>2, <4>3 DEF Op
      <4> QED BY <4>4, NoMemoryIsNone
    <3> QED BY <1>1, <1>3, <1>4, <1>6, <1>8, <2>2, <3>1, <3>2 DEF SaveExecutes
  <2>3. CASE op.kind = "finish"
    <3>1. At("after") /\ op' = None BY <1>8, <2>3 DEF Saved
    <3>2. attempt # None BY <1>5, <2>3 DEF WorkerKind
    <3> QED BY <1>1, <1>3, <1>4, <1>6, <1>8, <1>a, <1>b, <2>3, <3>1, <3>2 DEF SaveExecutes
  <2>4. CASE op.kind = "unknown"
    <3>1. At("failing") /\ op' = None BY <1>8, <2>4 DEF Saved
    <3> QED BY <1>5, <1>c, <2>4, <3>1 DEF WorkerKind
  <2>5. CASE op.kind = "requeue"
    <3>1. op' = None /\ (attempt' = None \/ At("failing")) BY <1>8, <2>5 DEF Saved
    <3> QED BY <1>5, <1>c, <1>d, <2>5, <3>1 DEF WorkerKind
  <2>6. CASE op.kind \in {"settle", "fail"}
    <3>1. op' = None /\ attempt' = None BY <1>8, <2>6 DEF Saved
    <3> QED BY <1>d, <2>6, <3>1
  <2>7. CASE op.kind \notin {"begin", "prepare", "finish", "unknown", "requeue", "settle", "fail"}
    <3>1. op' = None /\ attempt' = attempt BY <1>8, <2>7 DEF Saved
    <3> QED BY <1>d, <2>7, <3>1
  <2> QED BY <2>1, <2>2, <2>3, <2>4, <2>5, <2>6, <2>7
<1>9. CASE Threw
  <2>1. CASE op.kind = "begin"
    <3>1. attempt' = FailingOn(op.snap) /\ op' = None BY <1>9, <2>1 DEF Threw
    <3> QED BY <1>1, <1>3, <1>4, <1>6, <1>7, <2>1, <3>1 DEF SaveExecutes
  <2>2. CASE op.kind = "finish"
    <3>1. op' = [op EXCEPT !.stage = "unknown"] /\ attempt' = attempt BY <1>9, <2>2 DEF Threw
    <3>2. op' # None
      <4>1. op \in Op BY <1>0, <1>4 DEF TypeOK
      <4>2. op' \in Op BY <3>1, <4>1 DEF Op
      <4> QED BY <4>2, NoMemoryIsNone
    <3> QED BY <1>1, <1>3, <1>4, <1>6, <1>7, <2>2, <3>1, <3>2 DEF SaveExecutes
  <2>3. CASE op.kind \in {"prepare", "unknown", "requeue", "settle"}
    <3>1. At("failing") /\ op' = None BY <1>9, <2>3 DEF Threw
    <3> QED BY <1>5, <1>c, <2>3, <3>1 DEF WorkerKind
  <2>4. CASE op.kind = "fail"
    <3>1. op' = None /\ (attempt' = None \/ At("failing")) BY <1>9, <2>4 DEF Threw
    <3> QED BY <1>5, <1>c, <1>d, <2>4, <3>1 DEF WorkerKind
  <2>5. CASE op.kind \notin {"begin", "prepare", "finish", "unknown", "requeue", "settle", "fail"}
    <3>1. op' = None /\ attempt' = attempt BY <1>9, <2>5 DEF Threw
    <3> QED BY <1>d, <2>5, <3>1
  <2> QED BY <2>1, <2>2, <2>3, <2>4, <2>5
<1> QED BY <1>8, <1>9 DEF ExecuteSave

(* Any other write executes. *)
LEMMA OtherExecution == IInv /\ File => ExecuteSave \/ OtherExecutes
<1> SUFFICES ASSUME IInv, File, ~ExecuteSave PROVE OtherExecutes OBVIOUS
<1>0. TypeOK /\ PendShape BY DEF IInv
<1>1. CASE ExecuteStartDrop
  <2>1. pend # <<>> /\ First.by = "startDrop" /\ pend' = Tail(pend)
    BY <1>1 DEF ExecuteStartDrop, Executes
  <2>2. First \in Request /\ First = pend[1] /\ 1 \in 1 .. Len(pend) BY <1>0, <2>1, TakeFirst
  <2>3. op # None /\ op.stage = "dropping" BY <1>0, <2>1, <2>2 DEF PendShape, QueueReq
  <2>4. op' = None \/ op' = [op EXCEPT !.stage = "start"] BY <1>1 DEF ExecuteStartDrop
  <2>5. legacy' = legacy \/ legacy' = None BY <1>1 DEF ExecuteStartDrop
  <2>6. UNCHANGED <<active, late, attempt, sent, erased, lastId>> BY <1>1 DEF ExecuteStartDrop, world
  <2> QED BY <2>1, <2>2, <2>3, <2>4, <2>5, <2>6 DEF OtherExecutes
<1>2. CASE ExecuteDrop
  <2>1. pend # <<>> /\ First.by \in {"drop", "dropLegacy"} /\ pend' = Tail(pend)
    BY <1>2 DEF ExecuteDrop, Executes
  <2>2. First \in Request BY <1>0, <2>1, TakeFirst
  <2>3. \/ UNCHANGED <<active, late>>
        \/ active' = None /\ First.by = "drop" /\ DropHits(First)
    BY <1>2 DEF ExecuteDrop, Executes
  <2>4. legacy' = legacy \/ legacy' = None BY <1>2 DEF ExecuteDrop
  <2>5. UNCHANGED <<op, attempt, sent, erased, lastId>> BY <1>2 DEF ExecuteDrop, world
  <2> QED BY <2>1, <2>2, <2>3, <2>4, <2>5 DEF OtherExecutes, DropHits
<1>3. CASE ExecutePurge
  <2>1. pend # <<>> /\ First.by = "purge" /\ pend' = Tail(pend) BY <1>3 DEF ExecutePurge, Executes
  <2>2. First \in Request BY <1>0, <2>1, TakeFirst
  <2>3. UNCHANGED <<active, late>> \/ (active' = None /\ late = "run")
    <3>1. CASE late = "run" BY <1>3, <3>1 DEF ExecutePurge
    <3>2. CASE late # "run" BY <1>3, <3>2 DEF ExecutePurge
    <3> QED BY <3>1, <3>2
  <2>4. legacy' = legacy \/ legacy' = None BY <1>3 DEF ExecutePurge
  <2>5. UNCHANGED <<op, attempt, sent, erased, lastId>> BY <1>3 DEF ExecutePurge, world
  <2> QED BY <2>1, <2>2, <2>3, <2>4, <2>5 DEF OtherExecutes
<1>4. CASE ExecuteClear
  <2>1. pend # <<>> /\ First.by = "clear" /\ pend' = Tail(pend) BY <1>4 DEF ExecuteClear, Executes
  <2>2. First \in Request BY <1>0, <2>1, TakeFirst
  <2> QED BY <1>4, <2>1, <2>2 DEF ExecuteClear, OtherExecutes, world
<1>5. CASE ExecuteChatSave
  <2>1. pend # <<>> /\ First.by \in {"chat", "claim"} /\ pend' = Tail(pend)
    BY <1>5 DEF ExecuteChatSave, Executes
  <2>2. First \in Request BY <1>0, <2>1, TakeFirst
  <2>3. First \in ChatReq
    BY <2>1, <2>2 DEF Request, SaveReq, ChatReq, DropReq, EraseReq, OtherReq
  <2>4. \/ /\ LegacySaveApplies(First)
           /\ legacy' = [id |-> First.id, rev |-> First.expect + 1]
           /\ active' = RecordBeside(First)
           /\ late' = IF First.expect = 0 THEN "no" ELSE late
        \/ UNCHANGED file
    BY <1>5 DEF ExecuteChatSave
  <2>5. UNCHANGED <<active, late>> \/ active' = None BY <2>4 DEF RecordBeside, file
  <2>6. \/ legacy' = legacy
        \/ /\ legacy' # None /\ legacy'.id = First.id
           /\ First.expect = 0 \/ (legacy # None /\ legacy.id = First.id)
    <3>1. CASE UNCHANGED file BY <3>1 DEF file
    <3>2. CASE LegacySaveApplies(First) /\ legacy' = [id |-> First.id, rev |-> First.expect + 1]
      <4>1. legacy' \in Legacy BY <2>3, <3>2 DEF Legacy, ChatReq
      <4>2. First.expect # 0 => legacy = [id |-> First.id, rev |-> First.expect]
        BY <3>2 DEF LegacySaveApplies
      <4>3. [id |-> First.id, rev |-> First.expect] \in Legacy BY <2>3 DEF Legacy, ChatReq
      <4> QED BY <3>2, <4>1, <4>2, <4>3, NoMemoryIsNone
    <3> QED BY <2>4, <3>1, <3>2
  <2>7. UNCHANGED <<op, attempt, sent, erased, lastId>> BY <1>5 DEF ExecuteChatSave, world
  <2> QED BY <2>1, <2>2, <2>5, <2>6, <2>7 DEF OtherExecutes
<1>6. CASE ExecuteErase
  <2>1. pend # <<>> /\ First.by = "erase" /\ pend' = Tail(pend) BY <1>6 DEF ExecuteErase, Executes
  <2>2. First \in Request BY <1>0, <2>1, TakeFirst
  <2>3. \/ active' = None /\ legacy' = None /\ erased' = erased \cup Ids
        \/ UNCHANGED <<active, late, legacy, erased>>
    BY <1>6 DEF ExecuteErase, file
  <2>4. UNCHANGED <<op, attempt, sent, lastId>> BY <1>6 DEF ExecuteErase
  <2> QED BY <2>1, <2>2, <2>3, <2>4 DEF OtherExecutes
<1> QED BY <1>1, <1>2, <1>3, <1>4, <1>5, <1>6 DEF File


-----------------------------------------------------------------------------
(* Ids.                                                                     *)

(* An id that anything still refers to, or that the owner had deleted.      *)
Dropping(x) == \E i \in 1 .. Len(pend) : pend[i].by = "drop" /\ pend[i].id = x
Known(x) ==
  \/ active # None /\ active.id = x
  \/ legacy # None /\ legacy.id = x
  \/ op # None /\ op.snap # None /\ op.snap.id = x
  \/ attempt # None /\ attempt.run = x
  \/ \E s \in sent : s.run = x
  \/ x \in erased
  \/ Dropping(x)

(* A save that creates something brings an id that is not known yet.        *)
FreshIds ==
  /\ \A x \in Nat : Known(x) => x <= lastId
  /\ \A i \in 1 .. Len(pend) : Creates(pend[i]) =>
       \A x \in Nat : x = NewId(pend[i]) => x <= lastId /\ ~Known(x)
  /\ \A i, j \in 1 .. Len(pend) :
       Creates(pend[i]) /\ Creates(pend[j]) /\ NewId(pend[i]) = NewId(pend[j]) => i = j

(* Every write that creates names a natural number. *)
LEMMA NewIdType ==
  ASSUME NEW req \in Request, Creates(req)
  PROVE NewId(req) \in Nat
  BY DEF Creates, NewId, Request, SaveReq, ChatReq, DropReq, EraseReq, OtherReq, Run

(* Nothing is queued to be dropped that was not before, but by an append.   *)
LEMMA DroppingKept ==
  ASSUME TypeOK, NEW x, Dropping(x)'
  PROVE /\ pend' = pend => Dropping(x)
        /\ pend # <<>> /\ pend' = Tail(pend) => Dropping(x)
        /\ pend' # <<>>
        /\ \A req \in Request : Issue(req) => Dropping(x) \/ (req.by = "drop" /\ req.id = x)
<1>1. PICK i \in 1 .. Len(pend') : pend'[i].by = "drop" /\ pend'[i].id = x BY DEF Dropping
<1>2. pend' = pend => Dropping(x) BY <1>1 DEF Dropping
<1>3. pend # <<>> /\ pend' = Tail(pend) => Dropping(x) BY <1>1, TakeFirst DEF Dropping
<1>4. pend' # <<>> BY <1>1
<1>5. ASSUME NEW req \in Request, Issue(req) PROVE Dropping(x) \/ (req.by = "drop" /\ req.id = x)
  <2>1. Len(pend') = Len(pend) + 1 /\ Len(pend) \in Nat BY <1>5, IssueAppends DEF TypeOK
  <2>2. i \in 1 .. Len(pend) \/ i = Len(pend') BY <2>1
  <2> QED BY <1>1, <1>5, <2>2, IssueAppends DEF Dropping
<1> QED BY <1>2, <1>3, <1>4, <1>5

(* A step that issues nothing, or a write that creates nothing. *)
LEMMA FreshKept ==
  ASSUME TypeOK, FreshIds, lastId' = lastId, \A x \in Nat : Known(x)' => Known(x),
         \/ pend' = pend
         \/ pend # <<>> /\ pend' = Tail(pend)
         \/ pend' = <<>>
         \/ \E req \in Request : Issue(req) /\ ~Creates(req)
  PROVE FreshIds'
<1>1. ASSUME NEW f,
             \A i \in 1 .. Len(pend') : Creates(pend'[i]) =>
                f[i] \in 1 .. Len(pend) /\ pend'[i] = pend[f[i]],
             \A i, j \in 1 .. Len(pend') : f[i] = f[j] => i = j
      PROVE FreshIds'
  <2>1. \A x \in Nat : Known(x)' => x <= lastId' BY DEF FreshIds
  <2>2. ASSUME NEW i \in 1 .. Len(pend'), Creates(pend'[i])
        PROVE \A x \in Nat : x = NewId(pend'[i]) => x <= lastId' /\ ~Known(x)'
    <3>1. f[i] \in 1 .. Len(pend) /\ pend'[i] = pend[f[i]] BY <1>1, <2>2
    <3>2. \A x \in Nat : x = NewId(pend[f[i]]) => x <= lastId /\ ~Known(x)
      BY <2>2, <3>1 DEF FreshIds
    <3> QED BY <3>1, <3>2
  <2>3. ASSUME NEW i \in 1 .. Len(pend'), NEW j \in 1 .. Len(pend'),
               Creates(pend'[i]), Creates(pend'[j]), NewId(pend'[i]) = NewId(pend'[j])
        PROVE i = j
    <3>1. /\ f[i] \in 1 .. Len(pend) /\ pend'[i] = pend[f[i]]
          /\ f[j] \in 1 .. Len(pend) /\ pend'[j] = pend[f[j]]
      BY <1>1, <2>3
    <3>2. f[i] = f[j] BY <2>3, <3>1 DEF FreshIds
    <3> QED BY <1>1, <3>2
  <2> QED BY <2>1, <2>2, <2>3 DEF FreshIds
<1>2. CASE pend' = pend
  <2> DEFINE f == [i \in 1 .. Len(pend') |-> i]
  <2>1. \A i \in 1 .. Len(pend') : f[i] = i OBVIOUS
  <2> HIDE DEF f
  <2> QED BY <1>1, <1>2, <2>1
<1>3. CASE pend # <<>> /\ pend' = Tail(pend)
  <2> DEFINE f == [i \in 1 .. Len(pend') |-> i + 1]
  <2>1. \A i \in 1 .. Len(pend') : i + 1 \in 1 .. Len(pend) /\ pend'[i] = pend[i + 1]
    BY <1>3, TakeFirst
  <2>2. \A i, j \in 1 .. Len(pend') : f[i] = f[j] => i = j OBVIOUS
  <2>3. \A i \in 1 .. Len(pend') : f[i] = i + 1 OBVIOUS
  <2> HIDE DEF f
  <2>4. \A i \in 1 .. Len(pend') : f[i] \in 1 .. Len(pend) /\ pend'[i] = pend[f[i]]
    BY <2>1, <2>3
  <2> QED BY <1>1, <2>2, <2>4
<1>4. CASE pend' = <<>>
  <2>1. Len(pend') = 0 BY <1>4
  <2> DEFINE f == [i \in 1 .. Len(pend') |-> i]
  <2>2. \A i \in 1 .. Len(pend') : f[i] = i OBVIOUS
  <2> HIDE DEF f
  <2> QED BY <1>1, <2>1, <2>2
<1>5. CASE \E req \in Request : Issue(req) /\ ~Creates(req)
  <2>1. PICK req \in Request : Issue(req) /\ ~Creates(req) BY <1>5
  <2>2. /\ Len(pend') = Len(pend) + 1 /\ Len(pend) \in Nat
        /\ \A i \in 1 .. Len(pend) : pend'[i] = pend[i]
        /\ pend'[Len(pend')] = req
    BY <2>1, IssueAppends DEF TypeOK
  <2> DEFINE f == [i \in 1 .. Len(pend') |-> i]
  <2>3. \A i \in 1 .. Len(pend') : f[i] = i OBVIOUS
  <2>4. \A i \in 1 .. Len(pend') : i \in 1 .. Len(pend) \/ i = Len(pend') BY <2>2
  <2>5. \A i \in 1 .. Len(pend') : Creates(pend'[i]) => i \in 1 .. Len(pend) /\ pend'[i] = pend[i]
    BY <2>1, <2>2, <2>4
  <2> HIDE DEF f
  <2> QED BY <1>1, <2>3, <2>5
<1> QED BY <1>2, <1>3, <1>4, <1>5

(* A write that creates something is issued with the next id. *)
LEMMA FreshIssued ==
  ASSUME TypeOK, FreshIds, lastId' = lastId + 1, \A x \in Nat : Known(x)' => Known(x),
         NEW req \in Request, Issue(req), Creates(req), NewId(req) = lastId + 1
  PROVE FreshIds'
<1>0. lastId \in Nat /\ \A i \in 1 .. Len(pend) : pend[i] \in Request BY DEF TypeOK
<1>1. /\ Len(pend') = Len(pend) + 1 /\ Len(pend) \in Nat
      /\ \A i \in 1 .. Len(pend) : pend'[i] = pend[i]
      /\ pend'[Len(pend')] = req
  BY IssueAppends DEF TypeOK
<1>2. \A i \in 1 .. Len(pend') : i \in 1 .. Len(pend) \/ i = Len(pend') BY <1>1
<1>4. \A x \in Nat : Known(x)' => x <= lastId BY DEF FreshIds
<1>5. \A x \in Nat : Known(x)' => x <= lastId' BY <1>0, <1>4
<1>6. \A x \in Nat : x = lastId + 1 => ~Known(x)' BY <1>0, <1>4
<1>7. \A i \in 1 .. Len(pend) : Creates(pend[i]) => NewId(pend[i]) \in Nat /\ NewId(pend[i]) <= lastId
  <2> SUFFICES ASSUME NEW i \in 1 .. Len(pend), Creates(pend[i])
               PROVE NewId(pend[i]) \in Nat /\ NewId(pend[i]) <= lastId
    OBVIOUS
  <2>1. NewId(pend[i]) \in Nat BY <1>0, NewIdType
  <2> QED BY <2>1 DEF FreshIds
<1>8. ASSUME NEW i \in 1 .. Len(pend'), Creates(pend'[i])
      PROVE \A x \in Nat : x = NewId(pend'[i]) => x <= lastId' /\ ~Known(x)'
  <2>1. CASE i \in 1 .. Len(pend)
    <3>1. pend'[i] = pend[i] /\ NewId(pend[i]) \in Nat /\ NewId(pend[i]) <= lastId
      BY <1>1, <1>7, <1>8, <2>1
    <3>2. \A x \in Nat : x = NewId(pend[i]) => ~Known(x) BY <1>8, <2>1, <3>1 DEF FreshIds
    <3> QED BY <1>0, <3>1, <3>2
  <2>2. CASE i = Len(pend') BY <1>0, <1>1, <1>6, <2>2
  <2> QED BY <1>2, <2>1, <2>2
<1>9. ASSUME NEW i \in 1 .. Len(pend'), NEW j \in 1 .. Len(pend'),
             Creates(pend'[i]), Creates(pend'[j]), NewId(pend'[i]) = NewId(pend'[j])
      PROVE i = j
  <2>1. CASE i \in 1 .. Len(pend) /\ j \in 1 .. Len(pend) BY <1>1, <1>9, <2>1 DEF FreshIds
  <2>2. \A k \in 1 .. Len(pend) : Creates(pend'[k]) => NewId(pend'[k]) # lastId + 1
    BY <1>0, <1>1, <1>7
  <2> QED BY <1>1, <1>2, <1>9, <2>1, <2>2
<1> QED BY <1>5, <1>8, <1>9 DEF FreshIds

(* The write that creates something executes. *)
LEMMA FreshCreated ==
  ASSUME TypeOK, FreshIds, lastId' = lastId, pend # <<>>, pend' = Tail(pend), Creates(First),
         \A x \in Nat : Known(x)' => Known(x) \/ x = NewId(First)
  PROVE FreshIds'
<1>0. lastId \in Nat /\ \A i \in 1 .. Len(pend) : pend[i] \in Request BY DEF TypeOK
<1>1. /\ First = pend[1] /\ 1 \in 1 .. Len(pend) /\ Len(pend) \in Nat /\ Len(pend') = Len(pend) - 1
      /\ \A i \in 1 .. Len(pend') : i + 1 \in 1 .. Len(pend) /\ pend'[i] = pend[i + 1]
  BY TakeFirst DEF TypeOK
<1>4. NewId(First) \in Nat /\ NewId(First) <= lastId
  <2>1. NewId(pend[1]) \in Nat BY <1>0, <1>1, NewIdType
  <2> QED BY <1>1, <2>1 DEF FreshIds
<1>5. \A x \in Nat : Known(x)' => x <= lastId' BY <1>4 DEF FreshIds
<1>6. ASSUME NEW i \in 1 .. Len(pend'), Creates(pend'[i])
      PROVE \A x \in Nat : x = NewId(pend'[i]) => x <= lastId' /\ ~Known(x)'
  <2>1. i + 1 \in 1 .. Len(pend) /\ pend'[i] = pend[i + 1] BY <1>1
  <2>2. i + 1 # 1 OBVIOUS
  <2>3. NewId(pend[i + 1]) # NewId(First) BY <1>1, <1>6, <2>1, <2>2 DEF FreshIds
  <2>4. NewId(pend[i + 1]) \in Nat BY <1>0, <1>6, <2>1, NewIdType
  <2>5. \A x \in Nat : x = NewId(pend[i + 1]) => x <= lastId /\ ~Known(x) BY <1>6, <2>1 DEF FreshIds
  <2> QED BY <2>1, <2>3, <2>4, <2>5
<1>7. ASSUME NEW i \in 1 .. Len(pend'), NEW j \in 1 .. Len(pend'),
             Creates(pend'[i]), Creates(pend'[j]), NewId(pend'[i]) = NewId(pend'[j])
      PROVE i = j
  <2>1. i + 1 = j + 1 BY <1>1, <1>7 DEF FreshIds
  <2> QED BY <2>1
<1> QED BY <1>5, <1>6, <1>7 DEF FreshIds

(* The attempt a save begins belongs to the record it loaded. *)
LEMMA AttemptRun ==
  ASSUME NEW r \in Run
  PROVE AttemptOn(r).run = r.id /\ FailingOn(r).run = r.id
<1>1. Begun(r).id = r.id BY DEF Begun, Run
<1>2. AttemptOn(r).run = Begun(r).id BY DEF AttemptOn
<1>3. AttemptOn(r) \in Attempt BY AttemptType
<1>4. FailingOn(r).run = AttemptOn(r).run BY <1>3 DEF FailingOn, Attempt
<1> QED BY <1>1, <1>2, <1>4

(* The file and the queue keep the ids fresh at every step. *)
LEMMA FreshStep == IInv /\ Revised /\ FreshIds /\ [Next]_vars => FreshIds'
<1> SUFFICES ASSUME IInv, Revised, FreshIds, [Next]_vars PROVE FreshIds' OBVIOUS
<1>0. TypeOK BY DEF IInv
<1>a. op # None => op \in Op /\ (op.snap # None => op.snap \in Run) BY <1>0, SnapType
<1>b. ASSUME op # None PROVE /\ \A st, k : [op EXCEPT !.stage = st, !.kind = k].snap = op.snap
                             /\ \A st : [op EXCEPT !.stage = st].snap = op.snap
  BY <1>a, <1>b DEF Op
<1>c. ASSUME AttemptKept PROVE attempt' # None => attempt # None /\ attempt'.run = attempt.run
  BY <1>c DEF AttemptKept
<1> USE DEF file, world
<1>1. CASE SaveStep
  <2>1. PICK kind \in SaveKind, n \in Run : Saves(kind, n) BY <1>1 DEF SaveStep
  <2> DEFINE req == [by |-> "op", draft |-> n, expect |-> n.rev]
  <2>2. op # None /\ op.snap # None /\ op.snap.rev >= 1 /\ n.rev = op.snap.rev /\ n.rev \in Nat
    BY <1>a, <2>1 DEF Saves, Revised, Run
  <2>3. req \in Request /\ req.by = "op" /\ req.expect # 0 BY <2>2 DEF Request, SaveReq
  <2>4. Issue(req) BY <2>1 DEF Saves, Save
  <2>5. op'.snap = op.snap BY <1>b, <2>1, <2>2 DEF Saves, Save
  <2>6. UNCHANGED <<active, legacy, attempt, lastId, sent, erased>> BY <2>1 DEF Saves
  <2> HIDE DEF req
  <2>7. ASSUME NEW x \in Nat, Known(x)' PROVE Known(x)
    <3>1. Dropping(x)' => Dropping(x) BY <1>0, <2>3, <2>4, DroppingKept
    <3> QED BY <2>2, <2>5, <2>6, <2>7, <3>1 DEF Known
  <2>8. ~Creates(req) BY <2>3 DEF Creates
  <2> QED BY <1>0, <2>3, <2>4, <2>6, <2>7, <2>8, FreshKept
<1>2. CASE Quiet \/ Enters
  <2>1. UNCHANGED <<active, legacy, pend, lastId, sent, erased>> BY <1>2 DEF Quiet, Enters
  <2>2. ASSUME NEW x \in Nat, Known(x)' PROVE Known(x)
    <3>1. Dropping(x)' => Dropping(x) BY <1>0, <2>1, DroppingKept
    <3>2. op' = op \/ op'.snap = active BY <1>2 DEF Quiet, Enters
    <3>3. attempt' # None => attempt # None /\ attempt'.run = attempt.run
      BY <1>2, <1>c DEF Quiet, Enters
    <3> QED BY <2>1, <2>2, <3>1, <3>2, <3>3 DEF Known
  <2> QED BY <1>0, <2>1, <2>2, FreshKept
<1>3. CASE Leaves
  <2>1. op # None /\ op' = None /\ UNCHANGED <<active, legacy, lastId, sent, erased>> BY <1>3 DEF Leaves
  <2>2. attempt' # None => \/ attempt # None /\ attempt'.run = attempt.run
                           \/ op.snap # None /\ attempt'.run = op.snap.id
    BY <1>3, <1>a, <1>c, AttemptRun DEF Leaves
  <2>3. CASE pend' = pend
    <3>1. ASSUME NEW x \in Nat, Known(x)' PROVE Known(x)
      <4>1. Dropping(x)' => Dropping(x) BY <1>0, <2>3, DroppingKept
      <4> QED BY <2>1, <2>2, <3>1, <4>1 DEF Known
    <3> QED BY <1>0, <2>1, <2>3, <3>1, FreshKept
  <2>4. CASE op.snap # None /\ Issue([by |-> "drop", id |-> op.snap.id, rev |-> op.snap.rev])
    <3> DEFINE req == [by |-> "drop", id |-> op.snap.id, rev |-> op.snap.rev]
    <3>1. req \in Request /\ req.by = "drop" /\ req.id = op.snap.id
      BY <1>a, <2>1, <2>4 DEF Request, DropReq, Run
    <3>2. Issue(req) BY <2>4
    <3> HIDE DEF req
    <3>3. ASSUME NEW x \in Nat, Known(x)' PROVE Known(x)
      <4>1. Dropping(x)' => Dropping(x) \/ x = op.snap.id BY <1>0, <3>1, <3>2, DroppingKept
      <4> QED BY <2>1, <2>2, <2>4, <3>3, <4>1 DEF Known
    <3>4. ~Creates(req) BY <3>1 DEF Creates
    <3> QED BY <1>0, <2>1, <3>1, <3>2, <3>3, <3>4, FreshKept
  <2> QED BY <1>3, <2>3, <2>4 DEF Leaves
<1>4. CASE StartActive
  <2> DEFINE req == [by |-> "op", draft |-> NewRun(lastId + 1), expect |-> 0]
  <2>1. op # None /\ UNCHANGED <<active, legacy, attempt, sent, erased>> /\ lastId' = lastId + 1
    BY <1>4 DEF StartActive
  <2>2. NewRun(lastId + 1) \in Run /\ NewRun(lastId + 1).id = lastId + 1
    BY <1>0, NewRunType DEF TypeOK, NewRun
  <2>3. req \in Request /\ req.by = "op" /\ req.expect = 0 /\ req.draft.id = lastId + 1
    BY <2>2 DEF Request, SaveReq
  <2>4. Issue(req) BY <1>4 DEF StartActive
  <2>5. op'.snap = op.snap BY <1>4, <1>b, <2>1 DEF StartActive
  <2> HIDE DEF req
  <2>6. ASSUME NEW x \in Nat, Known(x)' PROVE Known(x)
    <3>1. Dropping(x)' => Dropping(x) BY <1>0, <2>3, <2>4, DroppingKept
    <3> QED BY <2>1, <2>5, <2>6, <3>1 DEF Known
  <2>7. Creates(req) /\ NewId(req) = lastId + 1 BY <2>3 DEF Creates, NewId
  <2> QED BY <1>0, <2>1, <2>3, <2>4, <2>6, <2>7, FreshIssued
<1>5. CASE Restart
  <2>1. UNCHANGED <<active, legacy, lastId, sent, erased>> /\ op' = None /\ attempt' = None /\ pend' = <<>>
    BY <1>5 DEF Restart
  <2>2. ASSUME NEW x \in Nat, Known(x)' PROVE Known(x)
    <3>1. ~Dropping(x)' BY <1>0, <2>1, DroppingKept
    <3> QED BY <2>1, <2>2, <3>1 DEF Known
  <2> QED BY <1>0, <2>1, <2>2, FreshKept
<1>6. CASE \E stage \in {"start", "dropping", "sending", "sent", "unknown"} : Advances(stage)
  <2>1. PICK stage \in {"start", "dropping", "sending", "sent", "unknown"} : Advances(stage) BY <1>6
  <2>2. op # None /\ op'.snap = op.snap /\ UNCHANGED <<active, legacy, attempt, lastId, erased>>
    BY <1>b, <2>1 DEF Advances
  <2>3. sent' = sent \/ (op.stage = "sending" /\ sent' = sent \cup {Outgoing(op.snap)})
    BY <2>1 DEF Advances
  <2>4. op.stage = "sending" => op.snap # None BY <2>2 DEF IInv, OpShape, CommitStage
  <2>5. Outgoing(op.snap).run = op.snap.id BY DEF Outgoing
  <2>6. ASSUME NEW x, \E s \in sent' : s.run = x
        PROVE (\E s \in sent : s.run = x) \/ (op.snap # None /\ op.snap.id = x)
    BY <2>3, <2>4, <2>5, <2>6
  <2>7. CASE pend' = pend
    <3>1. ASSUME NEW x \in Nat, Known(x)' PROVE Known(x)
      <4>1. Dropping(x)' => Dropping(x) BY <1>0, <2>7, DroppingKept
      <4> QED BY <2>2, <2>6, <3>1, <4>1 DEF Known
    <3> QED BY <1>0, <2>2, <2>7, <3>1, FreshKept
  <2>8. CASE \E req \in Request : Issue(req) /\ req.by = "startDrop"
    <3>1. PICK req \in Request : Issue(req) /\ req.by = "startDrop" BY <2>8
    <3>2. ASSUME NEW x \in Nat, Known(x)' PROVE Known(x)
      <4>1. Dropping(x)' => Dropping(x) BY <1>0, <3>1, DroppingKept
      <4> QED BY <2>2, <2>6, <3>2, <4>1 DEF Known
    <3>3. ~Creates(req) BY <3>1 DEF Creates
    <3> QED BY <1>0, <2>2, <3>1, <3>2, <3>3, FreshKept
  <2> QED BY <2>1, <2>7, <2>8 DEF Advances
<1>7. CASE \E req \in Request : Issues(req)
  <2>1. PICK req \in Request : Issues(req) BY <1>7
  <2>2. Issue(req) /\ UNCHANGED <<active, legacy, op, attempt, sent, erased>> BY <2>1 DEF Issues
  <2>3. ASSUME NEW x \in Nat, Known(x)' PROVE Known(x)
    <3>1. Dropping(x)' => Dropping(x) \/ (req.by = "drop" /\ req.id = x) BY <1>0, <2>2, DroppingKept
    <3>2. req.by = "drop" => active # None /\ req.id = active.id BY <2>1 DEF Issues
    <3> QED BY <2>2, <2>3, <3>1, <3>2 DEF Known
  <2>4. \/ ~Creates(req) /\ lastId' = lastId
        \/ Creates(req) /\ lastId' = lastId + 1 /\ NewId(req) = lastId + 1
    BY <2>1 DEF Issues
  <2> QED BY <1>0, <2>2, <2>3, <2>4, FreshKept, FreshIssued
<1>8. CASE ExecuteSave
  <2>1. SaveExecutes BY <1>8, SaveExecution
  <2>2. /\ pend # <<>> /\ First.by = "op" /\ First \in SaveReq /\ pend' = Tail(pend) /\ op # None
        /\ UNCHANGED <<legacy, lastId, sent, erased>>
    BY <2>1 DEF SaveExecutes
  <2>3. \/ active' = active
        \/ active # None /\ active' # None /\ active'.id = active.id
        \/ Creates(First) /\ active' # None /\ active'.id = NewId(First)
    <3>1. CASE KeepFile(First) BY <3>1 DEF KeepFile
    <3>2. CASE Write(First)
      <4>1. First.draft \in Run /\ First.expect \in Nat BY <2>2 DEF SaveReq
      <4>2. active' = [First.draft EXCEPT !.rev = First.expect + 1] BY <3>2 DEF Write
      <4>3. active' \in Run /\ active'.id = First.draft.id BY <4>1, <4>2 DEF Run
      <4>4. active' # None BY <4>3, NoRecordIsNone
      <4>5. First.expect = 0 \/ (active # None /\ active.id = First.draft.id)
        BY <3>2 DEF Write, SaveApplies
      <4> QED BY <2>2, <4>3, <4>4, <4>5 DEF Creates, NewId
    <3> QED BY <2>1, <3>1, <3>2 DEF SaveExecutes
  <2>4. op' # None => op'.snap = op.snap \/ op'.snap = active'
    BY <1>a, <2>1, <2>2 DEF SaveExecutes, Op
  <2>5. op.kind = "begin" => op.snap # None
    <3>1. op.stage = "saving" BY <2>1 DEF SaveExecutes
    <3> QED BY <2>2, <3>1 DEF IInv, OpShape
  <2>6. attempt' # None => \/ attempt # None /\ attempt'.run = attempt.run
                           \/ op.snap # None /\ attempt'.run = op.snap.id
    BY <1>a, <2>1, <2>2, <2>5, AttemptRun DEF SaveExecutes
  <2>7. ASSUME NEW x \in Nat, Known(x)' PROVE Known(x) \/ (Creates(First) /\ x = NewId(First))
    <3>1. Dropping(x)' => Dropping(x) BY <1>0, <2>2, DroppingKept
    <3> QED BY <2>2, <2>3, <2>4, <2>6, <2>7, <3>1 DEF Known
  <2>8. CASE Creates(First) BY <1>0, <2>2, <2>7, <2>8, FreshCreated
  <2>9. CASE ~Creates(First) BY <1>0, <2>2, <2>7, <2>9, FreshKept
  <2> QED BY <2>8, <2>9
<1>9. CASE OtherExecutes
  <2>1. /\ pend # <<>> /\ First \in Request /\ First.by # "op" /\ pend' = Tail(pend)
        /\ UNCHANGED <<attempt, sent, lastId>>
        /\ active' = active \/ active' = None
    BY <1>9 DEF OtherExecutes
  <2>2. op' # None => op # None /\ op'.snap = op.snap BY <1>9, <1>b DEF OtherExecutes
  <2>3. legacy' # None => \/ legacy # None /\ legacy'.id = legacy.id
                          \/ Creates(First) /\ legacy'.id = NewId(First)
    BY <1>9 DEF OtherExecutes, Creates, NewId
  <2>4. \A x : x \in erased' => \/ x \in erased
                                \/ active # None /\ x = active.id
                                \/ legacy # None /\ x = legacy.id
    BY <1>9 DEF OtherExecutes, Ids
  <2>5. ASSUME NEW x \in Nat, Known(x)' PROVE Known(x) \/ (Creates(First) /\ x = NewId(First))
    <3>1. Dropping(x)' => Dropping(x) BY <1>0, <2>1, DroppingKept
    <3> QED BY <2>1, <2>2, <2>3, <2>4, <2>5, <3>1 DEF Known
  <2>6. CASE Creates(First) BY <1>0, <2>1, <2>5, <2>6, FreshCreated
  <2>7. CASE ~Creates(First) BY <1>0, <2>1, <2>5, <2>7, FreshKept
  <2> QED BY <2>6, <2>7
<1> QED BY <1>1, <1>2, <1>3, <1>4, <1>5, <1>6, <1>7, <1>8, <1>9, Steps, OtherExecution

(* No step stores a run or a checkpoint the owner had deleted.              *)
LEMMA ResurrectionStep ==
  IInv /\ Revised /\ FreshIds /\ NoResurrection /\ [Next]_vars => NoResurrection'
<1> SUFFICES ASSUME IInv, Revised, FreshIds, NoResurrection, [Next]_vars PROVE NoResurrection' OBVIOUS
<1>0. TypeOK BY DEF IInv
<1> USE DEF file, world
<1>1. CASE UNCHANGED <<active, legacy, erased>> BY <1>1 DEF NoResurrection
<1>2. CASE ExecuteSave
  <2>1. SaveExecutes BY <1>2, SaveExecution
  <2>2. pend # <<>> /\ First.by = "op" /\ First \in SaveReq /\ pend' = Tail(pend)
        /\ UNCHANGED <<legacy, erased>> /\ First = pend[1] /\ 1 \in 1 .. Len(pend)
    BY <1>0, <2>1, TakeFirst DEF SaveExecutes
  <2>3. CASE KeepFile(First) BY <2>2, <2>3 DEF KeepFile, NoResurrection
  <2>4. CASE Write(First)
    <3>1. First.draft \in Run /\ First.expect \in Nat BY <2>2 DEF SaveReq
    <3>2. active'.id = First.draft.id BY <2>4, <3>1 DEF Write, Run
    <3>3. First.expect = 0 => First.draft.id \notin erased
      <4>1. First.expect = 0 => Creates(pend[1]) /\ NewId(pend[1]) = First.draft.id
        BY <2>2 DEF Creates, NewId
      <4>2. First.draft.id \in Nat BY <3>1 DEF Run
      <4> QED BY <2>2, <4>1, <4>2 DEF FreshIds, Known
    <3>4. First.expect # 0 => active # None /\ active.id = First.draft.id
      BY <2>4 DEF Write, SaveApplies
    <3> QED BY <2>2, <3>2, <3>3, <3>4 DEF NoResurrection, Known
  <2> QED BY <2>1, <2>3, <2>4 DEF SaveExecutes
<1>3. CASE OtherExecutes
  <2>1. pend # <<>> /\ First.by # "op" /\ pend' = Tail(pend)
        /\ First = pend[1] /\ 1 \in 1 .. Len(pend)
    BY <1>0, <1>3, TakeFirst DEF OtherExecutes
  <2>2. active' = active \/ active' = None BY <1>3 DEF OtherExecutes
  <2>3. CASE active' = None /\ legacy' = None BY <2>3 DEF NoResurrection
  <2>4. CASE erased' = erased
    <3>1. legacy' # None => \/ legacy' = legacy
                            \/ legacy # None /\ legacy'.id = legacy.id
                            \/ Creates(pend[1]) /\ legacy'.id = NewId(pend[1])
      BY <1>3, <2>1 DEF OtherExecutes, Creates, NewId
    <3>2. Creates(pend[1]) => NewId(pend[1]) \notin erased
      <4>1. Creates(pend[1]) => NewId(pend[1]) \in Nat BY <1>0, <2>1, NewIdType DEF TypeOK
      <4> QED BY <2>1, <4>1 DEF FreshIds, Known
    <3> QED BY <2>2, <2>4, <3>1, <3>2 DEF NoResurrection
  <2> QED BY <1>3, <2>3, <2>4 DEF OtherExecutes
<1>4. CASE SaveStep \/ Quiet \/ Enters \/ Leaves \/ StartActive \/ Restart
  BY <1>1, <1>4 DEF SaveStep, Saves, Quiet, Enters, Leaves, StartActive, Restart
<1>5. CASE \E stage \in {"start", "dropping", "sending", "sent", "unknown"} : Advances(stage)
  BY <1>1, <1>5 DEF Advances
<1>6. CASE \E req \in Request : Issues(req) BY <1>1, <1>6 DEF Issues
<1> QED BY <1>2, <1>3, <1>4, <1>5, <1>6, Steps, OtherExecution

(* Every id is fresh when the program starts. *)
LEMMA FreshInit == Init => FreshIds /\ NoResurrection
<1> SUFFICES ASSUME Init PROVE FreshIds /\ NoResurrection OBVIOUS
<1>1. Len(pend) = 0 BY DEF Init
<1>2. \A x : ~Known(x) BY <1>1 DEF Init, Known, Dropping
<1> QED BY <1>1, <1>2 DEF Init, FreshIds, NoResurrection

(* What holds in every reachable state: the shapes, and fresh ids.          *)
LEMMA IdsInvariant == Spec => [](IInv /\ Revised /\ FreshIds /\ NoResurrection)
<1>1. Init => IInv /\ Revised /\ FreshIds /\ NoResurrection
  BY InitShape, RevisedInit, FreshInit
<1>2. IInv /\ Revised /\ FreshIds /\ NoResurrection /\ [Next]_vars
        => (IInv /\ Revised /\ FreshIds /\ NoResurrection)'
  BY NextShape, RevisedStep, FreshStep, ResurrectionStep
<1> QED BY <1>1, <1>2, PTL DEF Spec

(* What the owner had deleted stays deleted, for any number of runs, ids and *)
(* queued writes: no late save, no operation holding an old snapshot and no  *)
(* checkpoint of the chat stores an erased run again.                        *)
THEOREM StaysErased == Spec => []NoResurrection
  BY IdsInvariant, PTL
=============================================================================
