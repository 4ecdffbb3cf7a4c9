---------------------------- MODULE ActiveRunProofs ----------------------------
(***************************************************************************)
(* Facts about the transitions of ActiveRun: each maps a well-formed record *)
(* to a well-formed record, for any sets of messages and prompts and any    *)
(* capacities.  AgentRunProofs cites them for every save of the service.    *)
(***************************************************************************)
EXTENDS ActiveRun, TLAPS

(* The record a run starts from. *)
LEMMA NewRunType == ASSUME NEW id \in Nat PROVE NewRun(id) \in Run
  BY DEF NewRun, Run, LiveStatus, TerminalStatus, Message, Receipt

(* Sources of messages are sources. *)
LEMMA SourcesOfType ==
  ASSUME NEW ms \in SUBSET Message PROVE SourcesOf(ms) \in SUBSET Sources
  BY DEF SourcesOf, Message

(* Pending instructions are mailbox messages. *)
LEMMA PendingType == ASSUME NEW r \in Run PROVE Pending(r) \in SUBSET Message
  BY DEF Pending, Run

(* beginActiveAttempt rebases a checkpoint it has. *)
LEMMA BegunType == ASSUME NEW r \in Run PROVE Begun(r) \in Run
<1>1. r.ckpt # None => Rebased(r) \in Checkpoint
  BY PendingType, SourcesOfType DEF Rebased, Run, Checkpoint
<1>2. NeedsRebase(r) => r.ckpt # None BY DEF NeedsRebase
<1> QED BY <1>1, <1>2 DEF Begun, Run, LiveStatus

(* Closing a record. *)
LEMMA ClosedType ==
  ASSUME NEW r \in Run, NEW status \in TerminalStatus PROVE Closed(r, status) \in Run
<1>1. ClosedCkpt(r) \in Checkpoint \cup {None} BY DEF ClosedCkpt, Run, Checkpoint
<1> QED BY <1>1 DEF Closed, Run

(* The mailbox takes a message. *)
LEMMA PostedType ==
  ASSUME NEW r \in Run, NEW kind \in Kind, NEW src \in Sources
  PROVE Posted(r, kind, src) \in Run
<1> DEFINE new == [rev |-> r.instr + 1, kind |-> kind, src |-> src]
           box == (IF HasRoom(r, kind) THEN r.mailbox ELSE r.mailbox \ Oldest(r.mailbox))
                    \cup {new}
<1>1. r.instr + 1 \in Nat /\ r.mailbox \in SUBSET Message BY DEF Run
<1>2. new \in Message BY <1>1 DEF Message
<1>3. box \in SUBSET Message BY <1>1, <1>2
<1>4. Posted(r, kind, src) = [r EXCEPT !.instr = r.instr + 1, !.mailbox = box] BY DEF Posted
<1> HIDE DEF new, box
<1> QED BY <1>1, <1>3, <1>4 DEF Run

(* routeActiveMessage: an answer is routed only to an open question. *)
LEMMA RoutedType ==
  ASSUME NEW r \in Run, NEW kind \in Kind, NEW src \in Sources, kind = "answer" => r.question # None
  PROVE Routed(r, kind, src) \in Run
<1>1. CASE kind = "cancel"
  BY <1>1, PostedType, ClosedType DEF Routed, Cancelled, TerminalStatus
<1>2. CASE kind = "answer"
  <2>1. [question |-> r.question.id, src |-> src] \in Answer BY <1>2 DEF Run, Question, Answer
  <2> QED BY <1>2, <2>1, PostedType DEF Routed, Answered, Run, LiveStatus
<1>3. CASE kind = "constraint"
  <2>1. Posted(r, "constraint", src) \in Run BY PostedType DEF Kind
  <2> DEFINE p == Posted(r, "constraint", src)
  <2>2. Constrained(r, src) = [p EXCEPT !.status = IF p.status = "running" THEN "running" ELSE "queued",
                                        !.question = None, !.answer = None]
    BY DEF Constrained
  <2>3. p \in Run BY <2>1
  <2> HIDE DEF p
  <2>4. Constrained(r, src) \in Run BY <2>2, <2>3 DEF Run, LiveStatus
  <2> QED BY <1>3, <2>4 DEF Routed
<1> QED
  <2>1. kind \in {"constraint", "answer", "cancel"} BY DEF Kind
  <2> QED BY <1>1, <1>2, <1>3, <2>1

(* The draft of a commit of a final reply. *)
LEMMA PreparedFinalType ==
  ASSUME NEW r \in Run, NEW inRev \in Nat, NEW ck \in Checkpoint
  PROVE PreparedFinal(r, inRev, ck) \in Run
<1> DEFINE e == [id |-> NextId(r), purpose |-> "final", instr |-> inRev]
<1>1. e \in Effect BY DEF NextId, Run, Effect, Purpose
<1>2. PreparedFinal(r, inRev, ck) =
        [r EXCEPT !.ckpt = ck, !.question = None, !.answer = None, !.effect = e, !.applied = inRev]
  BY DEF PreparedFinal
<1> HIDE DEF e
<1> QED BY <1>1, <1>2 DEF Run

(* The draft of a commit of a question. *)
LEMMA PreparedQuestionType ==
  ASSUME NEW r \in Run, NEW inRev \in Nat, NEW ck \in Checkpoint, ck.ask \in Prompts
  PROVE PreparedQuestion(r, inRev, ck) \in Run
<1> DEFINE e == [id |-> NextId(r), purpose |-> "question", instr |-> inRev]
           q == [id |-> NextId(r), prompt |-> ck.ask]
<1>1. e \in Effect BY DEF NextId, Run, Effect, Purpose
<1>2. q \in Question BY DEF NextId, Run, Question
<1>3. PreparedQuestion(r, inRev, ck) =
        [r EXCEPT !.ckpt = ck, !.question = q, !.effect = e, !.applied = inRev]
  BY DEF PreparedQuestion
<1> HIDE DEF e, q
<1> QED BY <1>1, <1>2, <1>3 DEF Run

(* A receipt takes the place of the effect. *)
LEMMA ReceiptedType ==
  ASSUME NEW r \in Run, r.effect # None, NEW status \in {"committed", "unknown"}
  PROVE Receipted(r, status) \in Run
<1>1. [effect |-> r.effect.id, purpose |-> r.effect.purpose, status |-> status] \in Receipt
  BY DEF Run, Effect, Receipt
<1> QED BY <1>1 DEF Receipted, Run

(* The three ways an effect ends. *)
LEMMA SettledEffectType ==
  ASSUME NEW r \in Run, r.effect # None
  PROVE /\ CommittedFinal(r) \in Run
        /\ CommittedQuestion(r) \in Run
        /\ UnknownDelivery(r) \in Run
<1>1. CommittedFinal(r) \in Run BY ReceiptedType DEF CommittedFinal, Run, TerminalStatus
<1>2. CommittedQuestion(r) \in Run BY ReceiptedType DEF CommittedQuestion, Run, LiveStatus
<1>3. UnknownDelivery(r) \in Run BY ReceiptedType, ClosedType DEF UnknownDelivery, TerminalStatus
<1> QED BY <1>1, <1>2, <1>3

(* A stale result goes back to the queue. *)
LEMMA RequeuedType ==
  ASSUME NEW r \in Run, NEW inRev \in Nat, NEW ck \in Checkpoint
  PROVE Requeued(r, inRev, ck) \in Run
  BY DEF Requeued, Larger, Run, LiveStatus

(* Failing a run, whatever it was about to deliver. *)
LEMMA FailedRunType == ASSUME NEW r \in Run PROVE FailedRun(r) \in Run
  BY SettledEffectType, ClosedType DEF FailedRun, TerminalStatus

(* Settling a stopped attempt. *)
LEMMA SettledType ==
  ASSUME NEW r \in Run, NEW inRev \in Nat, NEW ck \in Checkpoint, NEW pause \in BOOLEAN
  PROVE Settled(r, inRev, ck, pause) \in Run
<1>1. CASE r.instr # inRev BY <1>1 DEF Settled, Larger, Run, LiveStatus
<1>2. CASE r.instr = inRev /\ pause BY <1>2 DEF Settled, Run, LiveStatus
<1>3. CASE r.instr = inRev /\ ~pause
  <2>1. [r EXCEPT !.ckpt = ck] \in Run BY DEF Run
  <2>2. Closed([r EXCEPT !.ckpt = ck], "failed") \in Run BY <2>1, ClosedType DEF TerminalStatus
  <2> QED BY <1>3, <2>2 DEF Settled, Run
<1> QED BY <1>1, <1>2, <1>3

(* Recovery. *)
LEMMA RecoveredType == ASSUME NEW r \in Run, NEW late \in BOOLEAN PROVE Recovered(r, late) \in Run
<1>1. [r EXCEPT !.status = "queued"] \in Run BY DEF Run, LiveStatus
<1> QED BY <1>1, SettledEffectType, ClosedType DEF Recovered, TerminalStatus
=============================================================================
