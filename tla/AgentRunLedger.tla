----------------------------- MODULE AgentRunLedger -----------------------------
(***************************************************************************)
(* The inductive invariant behind the ledger and freshness properties of    *)
(* AgentRun, and the theorems it gives.                                     *)
(*                                                                         *)
(* Its core is Coherent: while an operation holds the active queue, the     *)
(* file has the record that operation loaded, or none.  With it every save  *)
(* that reaches the file is a transition of the record in the file          *)
(* (Evolves), and what holds of a record (Sound) is kept by every           *)
(* transition.  The other parts tie the record to the attempt of the        *)
(* worker, to the delivery under way and to the messages that left.         *)
(*                                                                         *)
(* Then the purge of expired records, and last the refinement: what the     *)
(* service does to intent, delivery, messages and receipts is a step of     *)
(* CommitBarrier or a stutter.                                              *)
(***************************************************************************)
EXTENDS AgentRunProofs

-----------------------------------------------------------------------------
(* Records. *)

Shown(r) ==
  \A m \in ConstraintsOf(r) : m.rev <= r.applied => r.ckpt # None /\ m.src \in r.ckpt.seen
UpToDate(r) == \A m \in ConstraintsOf(r) : m.rev <= r.applied
Committing(r) ==
  r.answer # None \/ r.effect # None \/ (r.status = "waiting_input" /\ r.question # None)

(* What holds of every record in the file by itself: the instructions it    *)
(* books as applied have been shown to the planner, and while something it  *)
(* computed is on its way to the user, that is all of them.                 *)
EffectSound(r) ==
  r.effect # None =>
    /\ r.effect.instr = r.instr /\ r.status = "running"
    /\ r.effect.purpose = "question" => r.question # None /\ r.question.id = r.effect.id
Sound(r) ==
  /\ r.applied <= r.instr
  /\ \A m \in r.mailbox : m.rev <= r.instr
  /\ EffectSound(r)
  /\ ~Terminal(r) => Shown(r) /\ (Committing(r) => UpToDate(r))

ReceiptOf(r, status) ==
  [effect |-> r.effect.id, purpose |-> r.effect.purpose, status |-> status]

(* What a transition does to the effect and the receipts.                   *)
Ledgers(kind, r, n) ==
  \/ /\ n.effect = r.effect /\ n.receipts = r.receipts
     /\ kind # "prepare" /\ (kind \in {"begin", "finish", "unknown"} => r.effect = None)
  \/ /\ kind = "prepare" /\ r.effect = None /\ r.status = "running"
     /\ n.effect # None /\ n.effect.id = r.rev + 1
     /\ n.receipts = r.receipts
  \/ /\ r.effect # None /\ n.effect = None /\ kind \notin {"prepare", "begin"}
     /\ \E status \in {"committed", "unknown"} :
          /\ status = "committed" => kind = "finish"
          /\ n.receipts = r.receipts \cup {ReceiptOf(r, status)}
     /\ r.effect.purpose = "final" => Terminal(n)

(* What it does to the question and the answer.                             *)
Asks(kind, r, n) ==
  /\ n.answer # None =>
       \/ n.answer = r.answer
       \/ /\ r.status = "waiting_input" /\ r.question # None
          /\ n.answer.question = r.question.id
  /\ n.status = "waiting_input" /\ n.question # None =>
       \/ r.status = "waiting_input" /\ n.question = r.question
       \/ /\ kind = "finish" /\ n.question = r.question
          /\ r.effect # None /\ r.effect.purpose = "question"

(* A transition is a step of the same run: an outcome and its receipts are  *)
(* final, and the messages of a live run stay.                              *)
Evolves(kind, r, n) ==
  /\ n.id = r.id /\ n.rev = r.rev
  /\ Terminal(r) => n.status = r.status /\ n.receipts = r.receipts
  /\ ~Terminal(n) => r.mailbox \subseteq n.mailbox
  /\ Ledgers(kind, r, n)
  /\ Asks(kind, r, n)

(* What the attempt has seen is all that its revision claims.               *)
SeenBy(a, r) ==
  /\ r.applied <= a.inRev /\ a.inRev <= r.instr
  /\ \A m \in ConstraintsOf(r) : m.rev <= a.inRev => m.src \in a.ckpt.seen

-----------------------------------------------------------------------------
(* Lemmas about single transitions: what each does to the parts of a record *)
(* Sound and Evolves speak of.                                              *)

(* Fields a record keeps when it is closed.                                 *)
LEMMA ClosedFields ==
  ASSUME NEW r \in Run, NEW status \in TerminalStatus
  PROVE /\ Closed(r, status).status = status /\ Terminal(Closed(r, status))
        /\ Closed(r, status).applied = r.applied /\ Closed(r, status).instr = r.instr
        /\ Closed(r, status).mailbox = r.mailbox /\ Closed(r, status).effect = r.effect
        /\ Closed(r, status).receipts = r.receipts /\ Closed(r, status).answer = None
        /\ Closed(r, status).question = None
  BY DEF Closed, Run, Terminal

(* Fields of a record whose delivery is settled as unknown. *)
LEMMA UnknownFields ==
  ASSUME NEW r \in Run, r.effect # None
  PROVE /\ UnknownDelivery(r).status = "partial" /\ Terminal(UnknownDelivery(r))
        /\ UnknownDelivery(r).applied = r.applied /\ UnknownDelivery(r).instr = r.instr
        /\ UnknownDelivery(r).mailbox = r.mailbox /\ UnknownDelivery(r).effect = None
        /\ UnknownDelivery(r).receipts = r.receipts \cup {ReceiptOf(r, "unknown")}
        /\ UnknownDelivery(r).answer = None /\ UnknownDelivery(r).question = None
<1>1. Receipted(r, "unknown") \in Run BY ReceiptedType
<1>2. /\ Receipted(r, "unknown").applied = r.applied /\ Receipted(r, "unknown").instr = r.instr
      /\ Receipted(r, "unknown").mailbox = r.mailbox /\ Receipted(r, "unknown").effect = None
      /\ Receipted(r, "unknown").receipts = r.receipts \cup {ReceiptOf(r, "unknown")}
  BY DEF Receipted, Run, ReceiptOf
<1>3. "partial" \in TerminalStatus BY DEF TerminalStatus
<1> QED BY <1>1, <1>2, <1>3, ClosedFields DEF UnknownDelivery

(* Fields of a record whose message was delivered. *)
LEMMA CommittedFields ==
  ASSUME NEW r \in Run, r.effect # None
  PROVE /\ Committed(r).applied = r.applied /\ Committed(r).instr = r.instr
        /\ Committed(r).mailbox = r.mailbox /\ Committed(r).effect = None
        /\ Committed(r).receipts = r.receipts \cup {ReceiptOf(r, "committed")}
        /\ Committed(r).question = r.question /\ Committed(r).ckpt = r.ckpt
        /\ IF r.effect.purpose = "final"
             THEN Committed(r).status = "completed" /\ Committed(r).answer = r.answer
             ELSE Committed(r).status = "waiting_input" /\ Committed(r).answer = None
<1>1. Receipted(r, "committed") \in Run BY ReceiptedType
<1>2. /\ Receipted(r, "committed").applied = r.applied /\ Receipted(r, "committed").instr = r.instr
      /\ Receipted(r, "committed").mailbox = r.mailbox /\ Receipted(r, "committed").effect = None
      /\ Receipted(r, "committed").receipts = r.receipts \cup {ReceiptOf(r, "committed")}
      /\ Receipted(r, "committed").question = r.question /\ Receipted(r, "committed").ckpt = r.ckpt
      /\ Receipted(r, "committed").answer = r.answer
  BY DEF Receipted, Run, ReceiptOf
<1>3. CASE r.effect.purpose = "final"
  BY <1>1, <1>2, <1>3 DEF Committed, CommittedFinal, Run
<1>4. CASE r.effect.purpose # "final"
  BY <1>1, <1>2, <1>4 DEF Committed, CommittedQuestion, Run
<1> QED BY <1>3, <1>4

(* A record that is closed without an effect. *)
LEMMA ClosedSound ==
  ASSUME NEW r \in Run, Sound(r), ~Terminal(r), r.effect = None,
         NEW status \in TerminalStatus, NEW n \in Run, n = Closed(r, status),
         NEW kind, kind \notin {"prepare", "begin", "finish", "unknown"}
  PROVE Sound(n) /\ Terminal(n) /\ Evolves(kind, r, n)
<1>1. n.id = r.id /\ n.rev = r.rev BY ClosedKeepsId
<1>2. Sound(n) /\ Terminal(n) BY ClosedFields DEF Sound, EffectSound
<1>3. Ledgers(kind, r, n) BY ClosedFields DEF Ledgers
<1>4. Asks(kind, r, n) BY ClosedFields, <1>2 DEF Asks, Terminal, TerminalStatus
<1> QED BY <1>1, <1>2, <1>3, <1>4 DEF Evolves

(* A record that is settled as unknown. *)
LEMMA UnknownSound ==
  ASSUME NEW r \in Run, Sound(r), r.effect # None, NEW n \in Run, n = UnknownDelivery(r),
         NEW kind, kind \notin {"prepare", "begin"}
  PROVE Sound(n) /\ Terminal(n) /\ Evolves(kind, r, n)
<1>1. n.id = r.id /\ n.rev = r.rev BY ClosedKeepsId DEF TerminalStatus
<1>2. Sound(n) /\ Terminal(n) BY UnknownFields DEF Sound, EffectSound
<1>3. Ledgers(kind, r, n) BY UnknownFields, <1>2 DEF Ledgers
<1>4. Asks(kind, r, n) BY UnknownFields DEF Asks
<1>5. ~Terminal(r) BY DEF Sound, EffectSound, Terminal, TerminalStatus
<1> QED BY <1>1, <1>2, <1>3, <1>4, <1>5 DEF Evolves

(* A failed run, with or without an effect. *)
LEMMA FailedSound ==
  ASSUME NEW r \in Run, Sound(r), ~Terminal(r), NEW n \in Run, n = FailedRun(r),
         NEW kind, kind \notin {"prepare", "begin", "finish", "unknown"}
  PROVE Sound(n) /\ Terminal(n) /\ Evolves(kind, r, n)
<1>1. CASE r.effect # None BY <1>1, UnknownSound DEF FailedRun
<1>2. CASE r.effect = None BY <1>2, ClosedSound DEF FailedRun, TerminalStatus
<1> QED BY <1>1, <1>2

(* A record whose message was delivered waits for the answer, or is done.   *)
LEMMA CommittedSound ==
  ASSUME NEW r \in Run, Sound(r), r.effect # None, NEW n \in Run, n = Committed(r)
  PROVE Sound(n) /\ Evolves("finish", r, n)
<1>1. n.id = r.id /\ n.rev = r.rev
  BY DEF Committed, CommittedFinal, CommittedQuestion, Receipted, Run
<1>2. ~Terminal(r) /\ UpToDate(r) /\ Shown(r)
  BY DEF Sound, EffectSound, Terminal, TerminalStatus, Committing
<1>3. ConstraintsOf(n) = ConstraintsOf(r) BY CommittedFields DEF ConstraintsOf
<1>4. UpToDate(n) /\ Shown(n) BY <1>2, <1>3, CommittedFields DEF UpToDate, Shown
<1>5. Sound(n) BY <1>4, CommittedFields DEF Sound, EffectSound
<1>6. r.effect.purpose = "final" => Terminal(n) BY CommittedFields DEF Terminal, TerminalStatus
<1>7. Ledgers("finish", r, n)
  <2>1. n.receipts = r.receipts \cup {ReceiptOf(r, "committed")} /\ n.effect = None BY CommittedFields
  <2> QED BY <1>6, <2>1 DEF Ledgers
<1>8. r.effect.purpose \in {"question", "final"} BY DEF Run, Effect, Purpose
<1>9. Asks("finish", r, n)
  BY <1>8, CommittedFields DEF Asks
<1>10. n.mailbox = r.mailbox BY CommittedFields
<1> QED BY <1>1, <1>2, <1>5, <1>7, <1>9, <1>10 DEF Evolves

(* What a message adds to a record that has room for it. *)
LEMMA PostedFields ==
  ASSUME NEW r \in Run, NEW kind \in Kind, NEW src \in Sources
  PROVE /\ Posted(r, kind, src) \in Run
        /\ Posted(r, kind, src).instr = r.instr + 1 /\ Posted(r, kind, src).applied = r.applied
        /\ Posted(r, kind, src).effect = r.effect /\ Posted(r, kind, src).receipts = r.receipts
        /\ Posted(r, kind, src).status = r.status /\ Posted(r, kind, src).ckpt = r.ckpt
        /\ Posted(r, kind, src).question = r.question /\ Posted(r, kind, src).answer = r.answer
        /\ Posted(r, kind, src).mailbox \subseteq
             r.mailbox \cup {[rev |-> r.instr + 1, kind |-> kind, src |-> src]}
        /\ HasRoom(r, kind) => Posted(r, kind, src).mailbox =
             r.mailbox \cup {[rev |-> r.instr + 1, kind |-> kind, src |-> src]}
<1> DEFINE new == [rev |-> r.instr + 1, kind |-> kind, src |-> src]
           box == (IF HasRoom(r, kind) THEN r.mailbox ELSE r.mailbox \ Oldest(r.mailbox))
                    \cup {new}
<1>1. Posted(r, kind, src) \in Run BY PostedType
<1>2. Posted(r, kind, src) = [r EXCEPT !.instr = r.instr + 1, !.mailbox = box] BY DEF Posted
<1>3. box \subseteq r.mailbox \cup {new} /\ (HasRoom(r, kind) => box = r.mailbox \cup {new}) OBVIOUS
<1> HIDE DEF new, box
<1>4. /\ Posted(r, kind, src).instr = r.instr + 1 /\ Posted(r, kind, src).applied = r.applied
      /\ Posted(r, kind, src).effect = r.effect /\ Posted(r, kind, src).receipts = r.receipts
      /\ Posted(r, kind, src).status = r.status /\ Posted(r, kind, src).ckpt = r.ckpt
      /\ Posted(r, kind, src).question = r.question /\ Posted(r, kind, src).answer = r.answer
      /\ Posted(r, kind, src).mailbox = box
  BY <1>2 DEF Run
<1> QED BY <1>1, <1>3, <1>4 DEF new

(* Every step of a record but a commit: what was seen stays seen. *)
SeenKept(r, n) ==
  /\ n.applied = r.applied /\ r.instr <= n.instr
  /\ \A m \in n.mailbox : m \in r.mailbox \/ m.rev > r.instr

(* Then an attempt that had seen what it claims still has. *)
LEMMA SeenByKept ==
  ASSUME NEW r \in Run, NEW n \in Run, NEW a \in Attempt, SeenBy(a, r), SeenKept(r, n)
  PROVE SeenBy(a, n)
<1>1. r.applied \in Nat /\ r.instr \in Nat /\ n.instr \in Nat /\ a.inRev \in Nat
      /\ \A m \in n.mailbox : m.rev \in Nat
  BY DEF Run, Attempt, Message
<1>2. ASSUME NEW m \in ConstraintsOf(n), m.rev <= a.inRev PROVE m.src \in a.ckpt.seen
  <2>1. m \in n.mailbox /\ m.kind = "constraint" BY DEF ConstraintsOf
  <2>2. m \in r.mailbox BY <1>1, <1>2, <2>1 DEF SeenBy, SeenKept
  <2>3. m \in ConstraintsOf(r) BY <2>1, <2>2 DEF ConstraintsOf
  <2> QED BY <1>2, <2>3 DEF SeenBy
<1>3. n.applied <= a.inRev /\ a.inRev <= n.instr BY <1>1 DEF SeenBy, SeenKept
<1> QED BY <1>2, <1>3 DEF SeenBy

(* Routing a message keeps the record sound: a constraint withdraws what    *)
(* was computed without it, an answer meets a question that was up to date. *)
LEMMA RoutedSound ==
  ASSUME NEW r \in Run, Sound(r), NEW k \in Kind, NEW src \in Sources, NEW q, NEW passed,
         Routable(r, k, src, q, passed), NEW n \in Run, n = Routed(r, k, src), ValidEffect(n)
  PROVE Sound(n) /\ Evolves("route", r, n) /\ (~Terminal(n) => SeenKept(r, n))
<1> DEFINE p == Posted(r, k, src)
           new == [rev |-> r.instr + 1, kind |-> k, src |-> src]
<1>0. n.id = r.id /\ n.rev = r.rev BY RoutedKeepsId
<1>1. ~Terminal(r) BY DEF Routable
<1>2. /\ p \in Run /\ p.instr = r.instr + 1 /\ p.applied = r.applied /\ p.effect = r.effect
      /\ p.receipts = r.receipts /\ p.status = r.status /\ p.ckpt = r.ckpt
      /\ p.question = r.question /\ p.answer = r.answer
      /\ p.mailbox \subseteq r.mailbox \cup {new}
      /\ HasRoom(r, k) => p.mailbox = r.mailbox \cup {new}
  BY PostedFields
<1>3. new.rev = r.instr + 1 /\ new.kind = k OBVIOUS
<1> HIDE DEF new
<1>4. r.instr \in Nat /\ r.applied \in Nat /\ \A m \in r.mailbox : m.rev \in Nat
  BY DEF Run, Message
<1>5. \A m \in p.mailbox : m \in r.mailbox \/ (m.rev = r.instr + 1 /\ m.kind = k) BY <1>2, <1>3
<1>6. p.applied <= p.instr /\ \A m \in p.mailbox : m.rev <= p.instr
  BY <1>2, <1>4, <1>5 DEF Sound
<1>a. k \in {"constraint", "answer", "cancel"} BY DEF Kind
<1>7. CASE k = "cancel"
  <2>1. n = Closed(p, "cancelled") /\ "cancelled" \in TerminalStatus
    BY <1>7 DEF Routed, Cancelled, TerminalStatus
  <2> HIDE DEF p
  <2>2. /\ Terminal(n) /\ n.applied = p.applied /\ n.instr = p.instr /\ n.mailbox = p.mailbox
        /\ n.effect = p.effect /\ n.receipts = p.receipts /\ n.answer = None /\ n.question = None
        /\ n.status = "cancelled"
    BY <1>2, <2>1, ClosedFields
  <2>3. n.effect = None
    <3>1. SUFFICES ASSUME n.effect # None PROVE FALSE OBVIOUS
    <3>2. r.effect.instr = r.instr /\ n.effect = r.effect BY <1>2, <2>2, <3>1 DEF Sound, EffectSound
    <3>3. n.effect.instr = r.instr + 1 BY <1>2, <2>2, <3>1 DEF ValidEffect
    <3> QED BY <1>4, <3>2, <3>3
  <2>4. Sound(n) BY <1>6, <2>2, <2>3 DEF Sound, EffectSound
  <2>5. Ledgers("route", r, n) BY <1>2, <2>2 DEF Ledgers
  <2>6. Asks("route", r, n) BY <2>2 DEF Asks
  <2> QED BY <1>0, <1>1, <2>2, <2>4, <2>5, <2>6 DEF Evolves
<1>8. CASE k # "cancel"
  <2>0. HasRoom(r, k) BY <1>8 DEF Routable
  <2>1. /\ n.applied = p.applied /\ n.instr = p.instr /\ n.mailbox = p.mailbox
        /\ n.effect = p.effect /\ n.receipts = p.receipts /\ n.ckpt = p.ckpt
        /\ IF k = "answer"
             THEN n.status = "queued" /\ n.answer = [question |-> r.question.id, src |-> src]
             ELSE /\ n.status = (IF p.status = "running" THEN "running" ELSE "queued")
                  /\ n.question = None /\ n.answer = None
    <3>1. CASE k = "answer"
      <4>1. n = [p EXCEPT !.status = "queued", !.answer = [question |-> r.question.id, src |-> src]]
        BY <3>1 DEF Routed, Answered
      <4> HIDE DEF p
      <4> QED BY <1>2, <3>1, <4>1 DEF Run
    <3>2. CASE k = "constraint"
      <4>1. n = [p EXCEPT !.status = IF @ = "running" THEN "running" ELSE "queued",
                          !.question = None, !.answer = None]
        BY <3>2 DEF Routed, Constrained
      <4> HIDE DEF p
      <4> QED BY <1>2, <3>2, <4>1 DEF Run
    <3> QED BY <1>a, <1>8, <3>1, <3>2
  <2> HIDE DEF p
  <2>2. n.effect = None
    <3>1. SUFFICES ASSUME n.effect # None PROVE FALSE OBVIOUS
    <3>2. r.effect.instr = r.instr /\ n.effect = r.effect BY <1>2, <2>1, <3>1 DEF Sound, EffectSound
    <3>3. n.effect.instr = r.instr + 1 BY <1>2, <2>1, <3>1 DEF ValidEffect
    <3> QED BY <1>4, <3>2, <3>3
  <2>3. n.mailbox = r.mailbox \cup {new} BY <1>2, <2>0, <2>1
  <2>4. Shown(r) BY <1>1 DEF Sound
  <2>5. Shown(n)
    <3> SUFFICES ASSUME NEW m \in ConstraintsOf(n), m.rev <= n.applied
                 PROVE n.ckpt # None /\ m.src \in n.ckpt.seen
      BY DEF Shown
    <3>1. m \in n.mailbox /\ m.kind = "constraint" BY DEF ConstraintsOf
    <3>2. m \in r.mailbox BY <1>2, <1>3, <1>4, <2>1, <2>3, <3>1 DEF Sound
    <3>3. m \in ConstraintsOf(r) BY <3>1, <3>2 DEF ConstraintsOf
    <3> QED BY <1>2, <2>1, <2>4, <3>3 DEF Shown
  <2>6. Committing(n) => UpToDate(n)
    <3> SUFFICES ASSUME Committing(n), NEW m \in ConstraintsOf(n) PROVE m.rev <= n.applied
      BY DEF UpToDate
    <3>1. k = "answer" BY <1>a, <1>8, <2>1, <2>2 DEF Committing
    <3>2. m \in r.mailbox /\ m.kind = "constraint" BY <1>3, <2>3, <3>1 DEF ConstraintsOf
    <3>3. Committing(r) BY <3>1 DEF Routable, AnswerBinds, Committing
    <3>4. UpToDate(r) BY <1>1, <3>3 DEF Sound
    <3>5. m \in ConstraintsOf(r) BY <3>2 DEF ConstraintsOf
    <3> QED BY <1>2, <2>1, <3>4, <3>5 DEF UpToDate
  <2>7. Sound(n) BY <1>6, <2>1, <2>2, <2>5, <2>6 DEF Sound, EffectSound
  <2>8. Ledgers("route", r, n) BY <1>2, <2>1 DEF Ledgers
  <2>9. n.status # "waiting_input" BY <1>a, <1>8, <2>1
  <2>10. Asks("route", r, n)
    <3>1. k = "answer" => r.status = "waiting_input" /\ r.question # None
      BY DEF Routable, AnswerBinds
    <3>2. [question |-> r.question.id, src |-> src].question = r.question.id OBVIOUS
    <3> QED BY <1>a, <1>8, <2>1, <2>9, <3>1, <3>2 DEF Asks
  <2>11. SeenKept(r, n) BY <1>2, <1>4, <1>5, <2>1 DEF SeenKept
  <2> QED BY <1>0, <1>1, <2>3, <2>7, <2>8, <2>10, <2>11 DEF Evolves
<1> QED BY <1>7, <1>8

(* What an attempt is handed carries every instruction of the record it     *)
(* begins, and so does the record that is saved.                            *)
LEMMA BegunSound ==
  ASSUME NEW r \in Run, Sound(r), CanBegin(r), NEW n \in Run, n = Begun(r)
  PROVE /\ Sound(n) /\ Evolves("begin", r, n)
        /\ SeenBy(AttemptOn(r), r) /\ SeenBy(AttemptOn(r), n)
        /\ SeenBy(FailingOn(r), r) /\ SeenBy(FailingOn(r), n)
<1>0. ~Terminal(r) /\ r.effect = None /\ Shown(r) BY DEF CanBegin, Sound
<1>1. /\ n.id = r.id /\ n.rev = r.rev /\ n.status = "running" /\ n.instr = r.instr
      /\ n.mailbox = r.mailbox /\ n.effect = r.effect /\ n.receipts = r.receipts
      /\ n.question = r.question /\ n.answer = r.answer
      /\ n.ckpt = (IF NeedsRebase(r) THEN Rebased(r) ELSE r.ckpt)
      /\ n.applied = (IF NeedsRebase(r) THEN r.instr ELSE r.applied)
  BY DEF Begun, Run
<1>2. r.instr \in Nat /\ r.applied \in Nat /\ r.applied <= r.instr
      /\ \A m \in r.mailbox : m.rev \in Nat /\ m.rev <= r.instr
  BY DEF Sound, Run, Message
<1>3. ConstraintsOf(n) = ConstraintsOf(r) BY <1>1 DEF ConstraintsOf
<1>a. \A m \in ConstraintsOf(r) : m \in r.mailbox /\ m.kind = "constraint" BY DEF ConstraintsOf
<1>b. \A m \in ConstraintsOf(r) : ~(m.rev <= r.applied) => m.src \in SourcesOf(Pending(r))
  BY <1>2, <1>a DEF Pending, SourcesOf
<1>4. NeedsRebase(r) =>
        /\ n.ckpt # None /\ \A m \in ConstraintsOf(r) : m.src \in n.ckpt.seen
  <2> SUFFICES ASSUME NeedsRebase(r)
               PROVE n.ckpt # None /\ \A m \in ConstraintsOf(r) : m.src \in n.ckpt.seen
    OBVIOUS
  <2>1. r.ckpt # None /\ n.ckpt = Rebased(r) BY <1>1 DEF NeedsRebase
  <2>2. CASE Pending(r) = {}
    <3>1. n.ckpt = r.ckpt BY <2>1, <2>2 DEF Rebased
    <3>2. \A m \in ConstraintsOf(r) : m.rev <= r.applied BY <1>2, <1>a, <2>2 DEF Pending
    <3> QED BY <1>0, <2>1, <3>1, <3>2 DEF Shown
  <2>3. CASE Pending(r) # {}
    <3>1. n.ckpt = [seen |-> r.ckpt.seen \cup SourcesOf(Pending(r)), ask |-> None]
      BY <2>1, <2>3 DEF Rebased
    <3>2. n.ckpt.seen = r.ckpt.seen \cup SourcesOf(Pending(r)) BY <3>1
    <3>3. n.ckpt # None
      <4>1. n.ckpt \in Checkpoint
        BY <2>1, <3>1, PendingType, SourcesOfType DEF Checkpoint, Run
      <4> QED BY <4>1, NoRecordIsNone
    <3> QED BY <1>0, <1>b, <3>2, <3>3 DEF Shown
  <2> QED BY <2>2, <2>3
<1>5. ~NeedsRebase(r) /\ r.ckpt # None => UpToDate(r) /\ n.ckpt = r.ckpt
  <2> SUFFICES ASSUME ~NeedsRebase(r), r.ckpt # None PROVE UpToDate(r) /\ n.ckpt = r.ckpt OBVIOUS
  <2>1. CASE r.answer # None BY <1>0, <1>1, <2>1 DEF Sound, Committing
  <2>2. CASE ~(r.applied < r.instr) BY <1>1, <1>2, <1>a, <2>2 DEF UpToDate
  <2> QED BY <2>1, <2>2 DEF NeedsRebase
<1>6. Shown(n) BY <1>0, <1>1, <1>3, <1>4 DEF Shown
<1>7. Committing(n) => UpToDate(n)
  <2>1. NeedsRebase(r) => UpToDate(n) BY <1>1, <1>2, <1>3, <1>a DEF UpToDate
  <2>2. ~NeedsRebase(r) /\ Committing(n) => UpToDate(r)
    BY <1>0, <1>1 DEF Committing, Sound
  <2>3. ~NeedsRebase(r) /\ UpToDate(r) => UpToDate(n) BY <1>1, <1>3 DEF UpToDate
  <2> QED BY <2>1, <2>2, <2>3
<1>8. Sound(n) BY <1>0, <1>1, <1>2, <1>6, <1>7 DEF Sound, EffectSound
<1>9. Evolves("begin", r, n) BY <1>0, <1>1 DEF Evolves, Ledgers, Asks
<1> DEFINE a == AttemptOn(r)
<1>10. a.inRev = r.instr /\ a.ckpt = (IF n.ckpt # None THEN n.ckpt
              ELSE [EmptyCkpt EXCEPT !.seen = SourcesOf(Pending(r))])
  BY <1>1 DEF AttemptOn
<1>11. a \in Attempt BY AttemptType
<1>12. FailingOn(r).inRev = a.inRev /\ FailingOn(r).ckpt = a.ckpt BY <1>11 DEF FailingOn, Attempt
<1> HIDE DEF a
<1>13. \A m \in ConstraintsOf(r) : m.src \in a.ckpt.seen
  <2> SUFFICES ASSUME NEW m \in ConstraintsOf(r) PROVE m.src \in a.ckpt.seen OBVIOUS
  <2>1. CASE NeedsRebase(r) BY <1>4, <1>10, <2>1
  <2>2. CASE ~NeedsRebase(r) /\ r.ckpt # None
    BY <1>0, <1>5, <1>10, <2>2 DEF Shown, UpToDate
  <2>3. CASE ~NeedsRebase(r) /\ r.ckpt = None
    <3>1. ~(m.rev <= r.applied) BY <1>0, <2>3 DEF Shown
    <3>2. a.ckpt.seen = SourcesOf(Pending(r)) BY <1>1, <1>10, <2>3 DEF EmptyCkpt
    <3> QED BY <1>b, <3>1, <3>2
  <2> QED BY <2>1, <2>2, <2>3
<1>14. SeenBy(a, r) BY <1>2, <1>10, <1>13 DEF SeenBy
<1>15. SeenBy(a, n) BY <1>1, <1>2, <1>3, <1>10, <1>13 DEF SeenBy
<1>16. SeenBy(FailingOn(r), r) /\ SeenBy(FailingOn(r), n) BY <1>12, <1>14, <1>15 DEF SeenBy
<1> QED BY <1>8, <1>9, <1>14, <1>15, <1>16 DEF a

(* A prepared commit is computed from every instruction of the run.         *)
LEMMA PreparedSound ==
  ASSUME NEW r \in Run, Sound(r), NEW a \in Attempt, SeenBy(a, r), Fresh(r, a.inRev),
         NEW n \in Run,
         \/ n = PreparedFinal(r, a.inRev, a.ckpt)
         \/ a.ckpt.ask \in Prompts /\ n = PreparedQuestion(r, a.inRev, a.ckpt)
  PROVE Sound(n) /\ Evolves("prepare", r, n) /\ SeenBy(a, n)
<1>0. r.status = "running" /\ r.instr = a.inRev /\ r.effect = None BY DEF Fresh
<1>1. /\ n.id = r.id /\ n.rev = r.rev /\ n.status = "running" /\ n.instr = r.instr
      /\ n.mailbox = r.mailbox /\ n.receipts = r.receipts
      /\ n.answer = r.answer \/ n.answer = None
      /\ n.ckpt = a.ckpt /\ n.applied = a.inRev
      /\ \/ n.effect = [id |-> NextId(r), purpose |-> "final", instr |-> a.inRev]
         \/ /\ n.effect = [id |-> NextId(r), purpose |-> "question", instr |-> a.inRev]
            /\ a.ckpt.ask \in Prompts
            /\ n.question = [id |-> NextId(r), prompt |-> a.ckpt.ask]
  <2>1. CASE n = PreparedFinal(r, a.inRev, a.ckpt)
    <3> DEFINE e == [id |-> NextId(r), purpose |-> "final", instr |-> a.inRev]
    <3>1. n = [r EXCEPT !.ckpt = a.ckpt, !.question = None, !.answer = None, !.effect = e,
                        !.applied = a.inRev]
      BY <2>1 DEF PreparedFinal
    <3>2. n.effect = e BY <3>1 DEF Run
    <3> HIDE DEF e
    <3> QED BY <1>0, <3>1, <3>2 DEF Run, e
  <2>2. CASE a.ckpt.ask \in Prompts /\ n = PreparedQuestion(r, a.inRev, a.ckpt)
    <3> DEFINE e == [id |-> NextId(r), purpose |-> "question", instr |-> a.inRev]
               q == [id |-> NextId(r), prompt |-> a.ckpt.ask]
    <3>1. n = [r EXCEPT !.ckpt = a.ckpt, !.question = q, !.effect = e, !.applied = a.inRev]
      BY <2>2 DEF PreparedQuestion
    <3>2. n.effect = e /\ n.question = q BY <3>1 DEF Run
    <3> HIDE DEF e, q
    <3> QED BY <1>0, <2>2, <3>1, <3>2 DEF Run, e, q
  <2> QED BY <2>1, <2>2
<1>2. a.inRev \in Nat /\ a.ckpt \in Checkpoint /\ a.ckpt # None
  BY NoRecordIsNone DEF Attempt
<1>3. \A m \in ConstraintsOf(n) : m \in ConstraintsOf(r) /\ m.rev <= a.inRev
  BY <1>0, <1>1 DEF ConstraintsOf, Sound
<1>4. Shown(n) /\ UpToDate(n) BY <1>1, <1>2, <1>3 DEF Shown, UpToDate, SeenBy
<1>5. NextId(r) = r.rev + 1 BY DEF NextId
<1>6. /\ n.effect # None /\ n.effect.id = r.rev + 1 /\ n.effect.instr = a.inRev
      /\ n.effect.purpose = "question" => n.question # None /\ n.question.id = n.effect.id
  <2>1. r.rev \in Nat BY DEF Run
  <2>2. CASE n.effect = [id |-> NextId(r), purpose |-> "final", instr |-> a.inRev]
    <3>1. [id |-> NextId(r), purpose |-> "final", instr |-> a.inRev] \in Effect
      BY <1>2, <1>5, <2>1 DEF Effect, Purpose
    <3> QED BY <1>5, <2>2, <3>1, NoRecordIsNone
  <2>3. CASE /\ n.effect = [id |-> NextId(r), purpose |-> "question", instr |-> a.inRev]
             /\ a.ckpt.ask \in Prompts
             /\ n.question = [id |-> NextId(r), prompt |-> a.ckpt.ask]
    <3>1. [id |-> NextId(r), purpose |-> "question", instr |-> a.inRev] \in Effect
      BY <1>2, <1>5, <2>1 DEF Effect, Purpose
    <3>2. n.effect # None BY <2>3, <3>1, NoRecordIsNone
    <3>3. n.question \in Question BY <1>5, <2>1, <2>3 DEF Question
    <3>4. n.question # None BY <3>3, NoRecordIsNone
    <3> QED BY <1>5, <2>3, <3>2, <3>4
  <2> QED BY <1>1, <2>2, <2>3
<1>7. Sound(n) BY <1>0, <1>1, <1>2, <1>4, <1>6 DEF Sound, EffectSound
<1>8. Evolves("prepare", r, n)
  <2>1. ~Terminal(r) BY <1>0 DEF Terminal, TerminalStatus
  <2>2. Ledgers("prepare", r, n) BY <1>0, <1>1, <1>6 DEF Ledgers
  <2>3. Asks("prepare", r, n) BY <1>1 DEF Asks
  <2> QED BY <1>1, <2>1, <2>2, <2>3 DEF Evolves
<1>9. SeenBy(a, n) BY <1>0, <1>1, <1>2, <1>3 DEF SeenBy
<1> QED BY <1>7, <1>8, <1>9

(* Giving work back: the checkpoint is booked at the revision of the        *)
(* attempt, and no further.                                                 *)
LEMMA RequeuedSound ==
  ASSUME NEW r \in Run, Sound(r), ~Terminal(r), r.effect = None,
         NEW a \in Attempt, SeenBy(a, r), NEW n \in Run, NEW kind \in {"requeue", "settle"},
         \/ n = Requeued(r, a.inRev, a.ckpt)
         \/ \E pause \in BOOLEAN : n = Settled(r, a.inRev, a.ckpt, pause)
  PROVE Sound(n) /\ Evolves(kind, r, n) /\ (~Terminal(n) => SeenBy(a, n))
<1>0. /\ r.instr \in Nat /\ r.applied \in Nat /\ a.inRev \in Nat
      /\ a.ckpt \in Checkpoint /\ a.ckpt # None
      /\ r.applied <= a.inRev /\ a.inRev <= r.instr
      /\ \A m \in r.mailbox : m.rev \in Nat /\ m.rev <= r.instr
  BY NoRecordIsNone DEF SeenBy, Run, Attempt, Message, Sound
<1>1. Larger(r.applied, a.inRev) = a.inRev BY <1>0 DEF Larger
<1>2. \/ /\ n.status \in {"queued", "paused"} /\ n.question = r.question /\ n.answer = r.answer
         /\ n.id = r.id /\ n.rev = r.rev /\ n.instr = r.instr /\ n.mailbox = r.mailbox
         /\ n.effect = None /\ n.receipts = r.receipts /\ n.ckpt = a.ckpt /\ n.applied = a.inRev
      \/ /\ n.status = "failed" /\ n.answer = None /\ n.question = None
         /\ n.id = r.id /\ n.rev = r.rev /\ n.instr = r.instr /\ n.mailbox = r.mailbox
         /\ n.effect = None /\ n.receipts = r.receipts /\ n.applied = a.inRev
  <2>1. CASE n = Requeued(r, a.inRev, a.ckpt) BY <1>1, <2>1 DEF Requeued, Run
  <2>2. CASE \E pause \in BOOLEAN : n = Settled(r, a.inRev, a.ckpt, pause)
    <3>1. PICK pause \in BOOLEAN : n = Settled(r, a.inRev, a.ckpt, pause) BY <2>2
    <3>2. CASE r.instr # a.inRev BY <1>1, <3>1, <3>2 DEF Settled, Run
    <3>3. CASE r.instr = a.inRev /\ pause BY <3>1, <3>3 DEF Settled, Run
    <3>4. CASE r.instr = a.inRev /\ ~pause
      <4> DEFINE c == [r EXCEPT !.ckpt = a.ckpt]
      <4>1. c \in Run /\ c.instr = r.instr /\ c.mailbox = r.mailbox /\ c.receipts = r.receipts
            /\ c.id = r.id /\ c.rev = r.rev
        BY <1>0 DEF Run
      <4>2. n = [Closed(c, "failed") EXCEPT !.applied = a.inRev, !.effect = None]
        BY <3>1, <3>4 DEF Settled
      <4>3. "failed" \in TerminalStatus BY DEF TerminalStatus
      <4> HIDE DEF c
      <4>4. Closed(c, "failed") \in Run BY <4>1, <4>3, ClosedType
      <4>5. Closed(c, "failed").id = r.id /\ Closed(c, "failed").rev = r.rev
        BY <4>1, <4>3, ClosedKeepsId
      <4>6. /\ Closed(c, "failed").instr = r.instr /\ Closed(c, "failed").mailbox = r.mailbox
            /\ Closed(c, "failed").receipts = r.receipts /\ Closed(c, "failed").status = "failed"
            /\ Closed(c, "failed").answer = None /\ Closed(c, "failed").question = None
        BY <4>1, <4>3, ClosedFields
      <4> QED BY <4>2, <4>4, <4>5, <4>6 DEF Run
    <3> QED BY <3>2, <3>3, <3>4
  <2> QED BY <2>1, <2>2
<1>3. ConstraintsOf(n) = ConstraintsOf(r) BY <1>2 DEF ConstraintsOf
<1>4. ~Terminal(n) => Shown(n) /\ (Committing(n) => UpToDate(n)) /\ SeenBy(a, n)
  <2> SUFFICES ASSUME ~Terminal(n) PROVE Shown(n) /\ (Committing(n) => UpToDate(n)) /\ SeenBy(a, n)
    OBVIOUS
  <2>1. n.status \in {"queued", "paused"} /\ n.answer = r.answer /\ n.ckpt = a.ckpt
    BY <1>2 DEF Terminal, TerminalStatus
  <2>2. Shown(n) BY <1>0, <1>2, <1>3, <2>1 DEF Shown, SeenBy
  <2>3. Committing(n) => UpToDate(r) BY <1>2, <2>1 DEF Committing, Sound
  <2>4. \A m \in ConstraintsOf(r) : m.rev \in Nat BY <1>0 DEF ConstraintsOf
  <2>5. UpToDate(r) => UpToDate(n) BY <1>0, <1>2, <1>3, <2>4 DEF UpToDate
  <2>6. SeenBy(a, n) BY <1>0, <1>2, <1>3 DEF SeenBy
  <2> QED BY <2>2, <2>3, <2>5, <2>6
<1>5. Sound(n)
  <2>1. n.applied <= n.instr /\ \A m \in n.mailbox : m.rev <= n.instr BY <1>0, <1>2
  <2>2. EffectSound(n) BY <1>2 DEF EffectSound
  <2> QED BY <1>4, <2>1, <2>2 DEF Sound
<1>6. Ledgers(kind, r, n) BY <1>2 DEF Ledgers
<1>7. Asks(kind, r, n) BY <1>2 DEF Asks
<1> QED BY <1>2, <1>4, <1>5, <1>6, <1>7 DEF Evolves

(* Recovery queues the work again, or closes what it cannot decide. *)
LEMMA RecoveredSound ==
  ASSUME NEW r \in Run, Sound(r), NEW passed \in BOOLEAN, NeedsRecovery(r, passed),
         NEW n \in Run, n = Recovered(r, passed)
  PROVE Sound(n) /\ Evolves("recover", r, n) /\ (~Terminal(n) => SeenKept(r, n))
<1>0. ~Terminal(r) BY DEF NeedsRecovery
<1>1. CASE r.effect # None BY <1>1, UnknownSound DEF Recovered
<1>2. CASE r.effect = None /\ QuestionExpired(r, passed)
  BY <1>0, <1>2, ClosedSound DEF Recovered, TerminalStatus
<1>3. CASE r.effect = None /\ ~QuestionExpired(r, passed)
  <2>1. n = [r EXCEPT !.status = "queued"] BY <1>3 DEF Recovered
  <2>2. /\ n.id = r.id /\ n.rev = r.rev /\ n.status = "queued" /\ n.instr = r.instr
        /\ n.applied = r.applied /\ n.mailbox = r.mailbox /\ n.effect = None
        /\ n.receipts = r.receipts /\ n.ckpt = r.ckpt /\ n.answer = r.answer
        /\ n.question = r.question
    BY <1>3, <2>1 DEF Run
  <2>3. ConstraintsOf(n) = ConstraintsOf(r) BY <2>2 DEF ConstraintsOf
  <2>4. Shown(n) /\ (Committing(n) => UpToDate(n))
    BY <1>0, <2>2, <2>3 DEF Sound, Shown, UpToDate, Committing
  <2>5. Sound(n) BY <2>2, <2>4 DEF Sound, EffectSound
  <2>6. Evolves("recover", r, n) BY <1>0, <1>3, <2>2 DEF Evolves, Ledgers, Asks
  <2>7. SeenKept(r, n) BY <2>2 DEF SeenKept, Run
  <2> QED BY <2>5, <2>6, <2>7
<1> QED BY <1>1, <1>2, <1>3

(* The anchor is remembered and nothing else changes. *)
LEMMA AnchoredSound ==
  ASSUME NEW r \in Run, Sound(r), NEW n \in Run, n = [r EXCEPT !.anchored = TRUE]
  PROVE Sound(n) /\ Evolves("attach", r, n) /\ SeenKept(r, n)
<1>1. /\ n.id = r.id /\ n.rev = r.rev /\ n.status = r.status /\ n.instr = r.instr
      /\ n.applied = r.applied /\ n.mailbox = r.mailbox /\ n.effect = r.effect
      /\ n.receipts = r.receipts /\ n.ckpt = r.ckpt /\ n.answer = r.answer
      /\ n.question = r.question
  BY DEF Run
<1>2. ConstraintsOf(n) = ConstraintsOf(r) /\ (Terminal(n) <=> Terminal(r))
  BY <1>1 DEF ConstraintsOf, Terminal
<1>3. ~Terminal(n) => Shown(n) /\ (Committing(n) => UpToDate(n))
  BY <1>1, <1>2 DEF Sound, Shown, UpToDate, Committing
<1>4. EffectSound(n) BY <1>1 DEF EffectSound, Sound
<1>5. Sound(n) BY <1>1, <1>3, <1>4 DEF Sound
<1>6. Evolves("attach", r, n) BY <1>1 DEF Evolves, Ledgers, Asks
<1>7. SeenKept(r, n) BY <1>1 DEF SeenKept, Run
<1> QED BY <1>5, <1>6, <1>7

(* The attempt of the worker has seen what the record books as seen.        *)
AttemptSees(r) ==
  attempt # None /\ attempt.run = r.id /\ ~Terminal(r) => SeenBy(attempt, r)

(* Whatever the active queue saves over a sound record is a sound record,   *)
(* a step of the same run, and no less than the attempt has seen.           *)
LEMMA TransitionSound ==
  ASSUME TypeOK, NEW r \in Run, NEW kind, NEW n \in Run, Transition(kind, r, n),
         Sound(r), AttemptSees(r), ValidEffect(n),
         kind \in {"requeue", "settle"} => r.effect = None
  PROVE Sound(n) /\ AttemptSees(n) /\ Evolves(kind, r, n)
<1>0. attempt # None => attempt \in Attempt BY DEF TypeOK
<1>a. ASSUME Sound(n), Evolves(kind, r, n), ~Terminal(n) => SeenKept(r, n) PROVE AttemptSees(n)
  <2> SUFFICES ASSUME attempt # None, attempt.run = n.id, ~Terminal(n) PROVE SeenBy(attempt, n)
    BY DEF AttemptSees
  <2>1. n.id = r.id /\ ~Terminal(r) BY <1>a DEF Evolves, Terminal
  <2>2. SeenBy(attempt, r) BY <2>1 DEF AttemptSees
  <2> QED BY <1>0, <1>a, <2>2, SeenByKept
<1>1. CASE kind = "attach" /\ n = [r EXCEPT !.anchored = TRUE] BY <1>1, <1>a, AnchoredSound
<1>2. CASE kind = "route" /\ \E k \in Kind, src \in Sources, q \in Nat, passed \in BOOLEAN :
             Routable(r, k, src, q, passed) /\ n = Routed(r, k, src)
  <2>1. PICK k \in Kind, src \in Sources, q \in Nat, passed \in BOOLEAN :
          Routable(r, k, src, q, passed) /\ n = Routed(r, k, src)
    BY <1>2
  <2> QED BY <1>2, <1>a, <2>1, RoutedSound
<1>3. CASE kind = "expire" /\ r.status = "waiting_input" /\ n = Closed(r, "failed")
  <2>1. ~Terminal(r) /\ r.effect = None
    BY <1>3 DEF Terminal, TerminalStatus, Sound, EffectSound
  <2> QED BY <1>3, <1>a, <2>1, ClosedSound DEF TerminalStatus
<1>4. CASE kind \in {"failExternally", "fail"} /\ ~Terminal(r) /\ n = FailedRun(r)
  BY <1>4, <1>a, FailedSound
<1>5. CASE kind = "recover"
           /\ \E passed \in BOOLEAN : NeedsRecovery(r, passed) /\ n = Recovered(r, passed)
  <2>1. PICK passed \in BOOLEAN : NeedsRecovery(r, passed) /\ n = Recovered(r, passed) BY <1>5
  <2> QED BY <1>5, <1>a, <2>1, RecoveredSound
<1>6. CASE kind = "begin" /\ attempt = None /\ CanBegin(r) /\ n = Begun(r)
  BY <1>6, BegunSound DEF AttemptSees
<1>7. CASE /\ kind = "prepare" /\ InHand({"final", "ask"}, r) /\ Fresh(r, attempt.inRev)
           /\ IF attempt.stage = "final" THEN n = PreparedFinal(r, attempt.inRev, attempt.ckpt)
              ELSE /\ attempt.ckpt.ask \in Prompts
                   /\ n = PreparedQuestion(r, attempt.inRev, attempt.ckpt)
  <2>1. ~Terminal(r) BY <1>7 DEF Fresh, Terminal, TerminalStatus
  <2>2. SeenBy(attempt, r) /\ attempt \in Attempt BY <1>0, <1>7, <2>1 DEF InHand, AttemptSees
  <2> QED BY <1>7, <2>2, PreparedSound DEF AttemptSees
<1>8. CASE kind = "finish" /\ r.effect # None /\ n = Committed(r)
  <2>1. Sound(n) /\ Evolves(kind, r, n) BY <1>8, CommittedSound
  <2>2. SeenKept(r, n) BY <1>8, CommittedFields DEF SeenKept, Run
  <2> QED BY <1>a, <2>1, <2>2
<1>9. CASE kind = "unknown" /\ r.effect # None /\ n = UnknownDelivery(r)
  BY <1>9, <1>a, UnknownSound
<1>10. CASE /\ ~Terminal(r)
            /\ \/ /\ kind = "requeue" /\ InHand({"stale"}, r)
                  /\ n = Requeued(r, attempt.inRev, attempt.ckpt)
               \/ /\ kind = "settle" /\ InHand({"cancelled", "stopped"}, r)
                  /\ \E pause \in BOOLEAN : n = Settled(r, attempt.inRev, attempt.ckpt, pause)
  <2>1. attempt # None /\ attempt.run = r.id /\ kind \in {"requeue", "settle"}
    BY <1>10 DEF InHand
  <2>2. SeenBy(attempt, r) /\ attempt \in Attempt BY <1>0, <1>10, <2>1 DEF AttemptSees
  <2> QED BY <1>10, <2>1, <2>2, RequeuedSound DEF AttemptSees
<1> QED BY <1>1, <1>2, <1>3, <1>4, <1>5, <1>6, <1>7, <1>8, <1>9, <1>10 DEF Transition

-----------------------------------------------------------------------------
(* The record, the operation and its save.                                  *)

(* While an operation holds the queue the file has its snapshot, or nothing;*)
(* except after a receipt that was stored but not acknowledged.             *)
Coherent ==
  op # None =>
    \/ active = None
    \/ active = op.snap
    \/ /\ op.stage = "unknown" \/ (op.stage = "saving" /\ op.kind = "unknown")
       /\ op.snap # None
       /\ active.id = op.snap.id /\ active.rev = op.snap.rev + 1

(* The save of the active queue is a transition of the snapshot.            *)
Waiting(d, x) ==
  \E i \in 1 .. Len(pend) : pend[i].by = "op" /\ pend[i].draft = d /\ pend[i].expect = x
OwnDraft(d, x) ==
  IF op.kind = "start" THEN x = 0 /\ d = NewRun(d.id)
  ELSE /\ op.snap # None /\ x = op.snap.rev /\ d.id = op.snap.id
       /\ op.kind = "begin" => CanBegin(op.snap) /\ d = Begun(op.snap)
       /\ active = op.snap =>
            Evolves(op.kind, op.snap, d) /\ Sound(d) /\ AttemptSees(d)
DraftShape == \A d \in Run, x \in Nat : Waiting(d, x) => OwnDraft(d, x)

RecordSound == \A r \in Run : r = active => Sound(r) /\ AttemptSees(r)

(* An attempt is begun when there is none.                                  *)
BeginAlone == op # None /\ op.kind = "begin" => attempt = None

(* An effect in the record of a worker is being delivered, or the worker    *)
(* gave up.                                                                 *)
EffectHeld ==
  active # None /\ active.effect # None /\ attempt # None /\ attempt.run = active.id =>
    attempt.stage = "failing" \/ Delivering

QueueInv == Coherent /\ DraftShape /\ RecordSound /\ BeginAlone /\ EffectHeld

(* The save that waits is the one that was issued. *)
LEMMA WaitingKept ==
  ASSUME IInv, NEW d, NEW x, Waiting(d, x)'
  PROVE /\ pend' = pend => Waiting(d, x)
        /\ pend # <<>> /\ pend' = Tail(pend) => Waiting(d, x)
        /\ pend' # <<>>
        /\ \A req \in Request : Issue(req) =>
             \/ Waiting(d, x)
             \/ req.by = "op" /\ req.draft = d /\ req.expect = x
<1>0. TypeOK BY DEF IInv
<1>1. PICK i \in 1 .. Len(pend') : pend'[i].by = "op" /\ pend'[i].draft = d /\ pend'[i].expect = x
  BY DEF Waiting
<1>2. pend' = pend => Waiting(d, x) BY <1>1 DEF Waiting
<1>3. pend # <<>> /\ pend' = Tail(pend) => Waiting(d, x) BY <1>0, <1>1, TakeFirst DEF Waiting
<1>4. pend' # <<>> BY <1>1
<1>5. ASSUME NEW req \in Request, Issue(req)
      PROVE Waiting(d, x) \/ (req.by = "op" /\ req.draft = d /\ req.expect = x)
  <2>1. Len(pend') = Len(pend) + 1 /\ Len(pend) \in Nat BY <1>0, <1>5, IssueAppends DEF TypeOK
  <2>2. i \in 1 .. Len(pend) \/ i = Len(pend') BY <2>1
  <2> QED BY <1>0, <1>1, <1>5, <2>2, IssueAppends DEF Waiting
<1> QED BY <1>2, <1>3, <1>4, <1>5

(* No save of the queue waits unless its operation is saving. *)
LEMMA NoneWaits ==
  ASSUME IInv, op = None \/ op.stage # "saving", NEW d, NEW x
  PROVE ~Waiting(d, x)
  BY DEF IInv, PendShape, Waiting, QueueReq

(* Storing a record changes its revision and nothing else.                  *)
LEMMA RevOnly ==
  ASSUME NEW d \in Run, NEW rev \in Nat, NEW n, n = [d EXCEPT !.rev = rev]
  PROVE /\ n \in Run /\ n # None /\ n.rev = rev /\ n.id = d.id /\ n.status = d.status
        /\ n.effect = d.effect /\ n.receipts = d.receipts /\ n.mailbox = d.mailbox
        /\ n.instr = d.instr /\ n.ckpt = d.ckpt /\ n.answer = d.answer /\ n.question = d.question
        /\ Terminal(n) <=> Terminal(d)
        /\ Sound(d) => Sound(n)
        /\ \A a : SeenBy(a, d) => SeenBy(a, n)
<1>1. /\ n \in Run /\ n.rev = rev /\ n.id = d.id /\ n.status = d.status
      /\ n.effect = d.effect /\ n.receipts = d.receipts /\ n.mailbox = d.mailbox
      /\ n.instr = d.instr /\ n.ckpt = d.ckpt /\ n.answer = d.answer /\ n.question = d.question
      /\ n.applied = d.applied
  BY DEF Run
<1>2. n # None BY <1>1, NoRecordIsNone
<1>3. (Terminal(n) <=> Terminal(d)) /\ ConstraintsOf(n) = ConstraintsOf(d)
  BY <1>1 DEF Terminal, ConstraintsOf
<1>4. Sound(d) => Sound(n)
  BY <1>1, <1>3 DEF Sound, EffectSound, Shown, UpToDate, Committing
<1>5. \A a : SeenBy(a, d) => SeenBy(a, n) BY <1>1, <1>3 DEF SeenBy
<1> QED BY <1>1, <1>2, <1>3, <1>4, <1>5

(* The record a run starts from is sound. *)
LEMMA NewRunSound ==
  ASSUME NEW id \in Nat
  PROVE Sound(NewRun(id)) /\ NewRun(id).effect = None /\ NewRun(id).receipts = {}
        /\ NewRun(id).answer = None /\ NewRun(id).question = None /\ NewRun(id).status = "queued"
  BY DEF NewRun, Sound, EffectSound, Shown, UpToDate, Committing, ConstraintsOf

(* A save starts a run nobody has seen, or takes the record that is in the  *)
(* file one step further.                                                   *)
SaveTakes(d) ==
  /\ active' = [d EXCEPT !.rev = First.expect + 1]
  /\ \/ op.kind = "start" /\ d = NewRun(d.id) /\ ~Known(d.id)
     \/ /\ op.kind # "start" /\ op.snap # None /\ active = op.snap /\ First.expect = active.rev
        /\ Evolves(op.kind, op.snap, d) /\ Sound(d) /\ AttemptSees(d)
        /\ op.kind = "begin" => CanBegin(op.snap) /\ d = Begun(op.snap)

(* That is what every save that is not refused does.                        *)
LEMMA SaveReaches ==
  ASSUME IInv, Revised, FreshIds, QueueInv, SaveExecutes, Write(First)
  PROVE First.draft \in Run /\ First.expect \in Nat /\ SaveTakes(First.draft)
<1>0. TypeOK BY DEF IInv
<1>1. /\ pend # <<>> /\ First.by = "op" /\ First \in SaveReq /\ pend' = Tail(pend)
      /\ op # None /\ op.stage = "saving"
  BY DEF SaveExecutes
<1>2. First.draft \in Run /\ First.expect \in Nat BY <1>1 DEF SaveReq
<1>3. First = pend[1] /\ 1 \in 1 .. Len(pend) BY <1>0, <1>1, TakeFirst
<1>4. OwnDraft(First.draft, First.expect)
  <2>1. Waiting(First.draft, First.expect) BY <1>1, <1>3 DEF Waiting
  <2> QED BY <1>2, <2>1 DEF QueueInv, DraftShape
<1>5. active' = [First.draft EXCEPT !.rev = First.expect + 1] /\ SaveApplies(First) BY DEF Write
<1>6. CASE op.kind = "start"
  <2>1. First.expect = 0 /\ First.draft = NewRun(First.draft.id) BY <1>4, <1>6 DEF OwnDraft
  <2>2. Creates(pend[1]) /\ NewId(pend[1]) = First.draft.id BY <1>1, <1>3, <2>1 DEF Creates, NewId
  <2>3. First.draft.id \in Nat BY <1>2 DEF Run
  <2>4. ~Known(First.draft.id) BY <1>3, <2>2, <2>3 DEF FreshIds
  <2> QED BY <1>2, <1>5, <1>6, <2>1, <2>4 DEF SaveTakes
<1>7. CASE op.kind # "start"
  <2>1. op.snap # None /\ First.expect = op.snap.rev /\ First.draft.id = op.snap.id
    BY <1>4, <1>7 DEF OwnDraft
  <2>2. op.snap.rev \in Nat /\ op.snap.rev >= 1 BY <1>0, <1>1, <2>1, SnapType DEF Revised, Run
  <2>3. active # None /\ active.rev = op.snap.rev BY <1>5, <2>1, <2>2 DEF SaveApplies
  <2>4. active = op.snap BY <1>1, <2>2, <2>3 DEF QueueInv, Coherent
  <2> QED BY <1>2, <1>4, <1>5, <1>7, <2>1, <2>4 DEF SaveTakes, OwnDraft
<1> QED BY <1>6, <1>7

(* The attempt keeps what it has seen. *)
LEMMA SeesKept ==
  ASSUME AttemptKept, NEW r, AttemptSees(r) PROVE AttemptSees(r)'
  BY DEF AttemptKept, AttemptSees, SeenBy

(* A step that leaves the record, the holder and its save alone. *)
LEMMA QuietQueue ==
  ASSUME IInv, QueueInv, UNCHANGED <<active, op>>, AttemptKept,
         \/ pend' = pend
         \/ pend # <<>> /\ pend' = Tail(pend)
         \/ \E req \in Request : Issue(req) /\ req.by # "op"
  PROVE QueueInv'
<1>1. Coherent' BY DEF QueueInv, Coherent
<1>2. DraftShape'
  <2> SUFFICES ASSUME NEW d \in Run, NEW x \in Nat, Waiting(d, x)' PROVE OwnDraft(d, x)'
    BY DEF DraftShape
  <2>1. Waiting(d, x) BY WaitingKept
  <2>2. OwnDraft(d, x) BY <2>1 DEF QueueInv, DraftShape
  <2> QED BY <2>2, SeesKept DEF OwnDraft
<1>3. RecordSound' BY SeesKept DEF QueueInv, RecordSound
<1>4. BeginAlone' BY DEF QueueInv, BeginAlone, AttemptKept
<1>5. EffectHeld' BY DEF QueueInv, EffectHeld, AttemptKept, Delivering
<1> QED BY <1>1, <1>2, <1>3, <1>4, <1>5 DEF QueueInv

(* A step that leaves the record alone, after which no save waits. *)
LEMMA BetweenSaves ==
  ASSUME IInv', active' = active, op' = None \/ op'.stage # "saving",
         Coherent', RecordSound', EffectHeld', BeginAlone'
  PROVE QueueInv'
<1>1. DraftShape'
  <2>1. \A d \in Run, x \in Nat : ~Waiting(d, x)'
    BY DEF IInv, PendShape, Waiting, QueueReq
  <2> QED BY <2>1 DEF DraftShape
<1> QED BY <1>1 DEF QueueInv

(* An operation takes the queue. *)
LEMMA EntersQueue == IInv /\ IInv' /\ QueueInv /\ Enters => QueueInv'
<1> SUFFICES ASSUME IInv, IInv', QueueInv, Enters PROVE QueueInv' OBVIOUS
<1>1. op'.snap = active' /\ op'.stage = "loaded" /\ op'.kind \in {"none", "start"}
      /\ active' = active /\ attempt' = attempt /\ op = None
  BY DEF Enters, file
<1>2. Coherent' BY <1>1 DEF Coherent
<1>3. RecordSound' BY <1>1 DEF QueueInv, RecordSound, AttemptSees
<1>4. EffectHeld' BY <1>1 DEF QueueInv, EffectHeld, Delivering
<1>5. BeginAlone' BY <1>1 DEF BeginAlone
<1> QED BY <1>1, <1>2, <1>3, <1>4, <1>5, BetweenSaves

(* An operation leaves the queue. *)
LEMMA LeavesQueue == IInv /\ IInv' /\ QueueInv /\ Leaves => QueueInv'
<1> SUFFICES ASSUME IInv, IInv', QueueInv, Leaves PROVE QueueInv' OBVIOUS
<1>0. TypeOK BY DEF IInv
<1>1. op # None /\ op.stage \notin {"saving", "dropping"} /\ op' = None /\ active' = active
  BY DEF Leaves, file
<1>2. Coherent' /\ BeginAlone' BY <1>1 DEF Coherent, BeginAlone
<1>3. CASE AttemptKept /\ (attempt' # None => attempt'.stage = "failing" \/ op.stage \in {"loaded", "start"})
  <2>1. RecordSound' BY <1>1, <1>3, SeesKept DEF QueueInv, RecordSound
  <2>2. EffectHeld' BY <1>1, <1>3 DEF QueueInv, EffectHeld, AttemptKept, Delivering
  <2> QED BY <1>1, <1>2, <2>1, <2>2, BetweenSaves
<1>4. CASE attempt = None /\ op.snap # None /\ CanBegin(op.snap) /\ attempt' = FailingOn(op.snap)
  <2>1. op.snap \in Run BY <1>0, <1>1, <1>4, SnapType
  <2>2. attempt'.stage = "failing" /\ attempt'.run = op.snap.id BY <1>4, <2>1, AttemptType, AttemptRun
  <2>3. EffectHeld' BY <2>2 DEF EffectHeld
  <2>4. op.snap.effect = None BY <1>4 DEF CanBegin
  <2>5. op.stage # "unknown" BY <1>1, <2>4 DEF IInv, OpShape, CommitStage
  <2>6. active = None \/ active = op.snap BY <1>1, <2>5 DEF QueueInv, Coherent
  <2>7. RecordSound'
    <3> SUFFICES ASSUME NEW r \in Run, r = active' PROVE Sound(r) /\ AttemptSees(r)'
      BY DEF RecordSound
    <3>1. r = op.snap BY <1>1, <2>6, NoRecordIsNone
    <3>2. Sound(r) BY <1>1 DEF QueueInv, RecordSound
    <3>3. SeenBy(FailingOn(r), r) BY <1>4, <2>1, <3>1, <3>2, BegunSound, BegunType
    <3> QED BY <1>4, <3>1, <3>2, <3>3 DEF AttemptSees
  <2> QED BY <1>1, <1>2, <2>3, <2>7, BetweenSaves
<1> QED BY <1>3, <1>4 DEF Leaves

(* An operation goes on to its next stage. *)
LEMMA AdvancesQueue ==
  ASSUME IInv, IInv', QueueInv,
         NEW stage \in {"start", "dropping", "sending", "sent", "unknown"}, Advances(stage)
  PROVE QueueInv'
<1>0. TypeOK BY DEF IInv
<1>1. op # None /\ op \in Op /\ op' = [op EXCEPT !.stage = stage] /\ active' = active /\ attempt' = attempt
  BY <1>0, SnapType DEF Advances, file
<1>2. op' \in Op /\ op' # None /\ op'.stage = stage /\ op'.kind = op.kind /\ op'.snap = op.snap
  <2>1. op' \in Op /\ op'.stage = stage /\ op'.kind = op.kind /\ op'.snap = op.snap
    BY <1>1 DEF Op
  <2> QED BY <2>1, NoMemoryIsNone
<1>3. op.stage \in {"loaded", "deliver", "sending", "sent"}
      /\ (op.stage # "loaded" => stage \in {"sending", "sent", "unknown"})
  BY DEF Advances
<1>4. Coherent' BY <1>1, <1>2, <1>3 DEF QueueInv, Coherent
<1>5. RecordSound' BY <1>1 DEF QueueInv, RecordSound, AttemptSees
<1>6. EffectHeld' BY <1>1, <1>2, <1>3 DEF QueueInv, EffectHeld, Delivering
<1>7. BeginAlone' BY <1>1, <1>2 DEF QueueInv, BeginAlone
<1> QED BY <1>1, <1>2, <1>4, <1>5, <1>6, <1>7, BetweenSaves

(* A run is started. *)
LEMMA StartQueue == IInv /\ IInv' /\ QueueInv /\ StartActive => QueueInv'
<1> SUFFICES ASSUME IInv, IInv', QueueInv, StartActive PROVE QueueInv' OBVIOUS
<1>0. TypeOK /\ OpShape BY DEF IInv
<1>1. op # None /\ op.stage = "start" /\ op' = [op EXCEPT !.stage = "saving"] /\ op.kind = "start"
      /\ UNCHANGED <<active, attempt>> /\ lastId \in Nat
  BY <1>0 DEF StartActive, OpShape, file, TypeOK
<1>2. op \in Op BY <1>0, <1>1, SnapType
<1>3. op'.stage = "saving" /\ op'.kind = "start" /\ op'.snap = op.snap BY <1>1, <1>2 DEF Op
<1>4. Coherent' BY <1>1, <1>3 DEF QueueInv, Coherent
<1>5. DraftShape'
  <2> SUFFICES ASSUME NEW d \in Run, NEW x \in Nat, Waiting(d, x)' PROVE OwnDraft(d, x)'
    BY DEF DraftShape
  <2> DEFINE req == [by |-> "op", draft |-> NewRun(lastId + 1), expect |-> 0]
  <2>1. NewRun(lastId + 1) \in Run BY <1>1, NewRunType
  <2>2. req \in Request /\ req.draft = NewRun(lastId + 1) /\ req.expect = 0
    BY <2>1 DEF Request, SaveReq
  <2>3. Issue(req) BY DEF StartActive
  <2> HIDE DEF req
  <2>4. ~Waiting(d, x) BY <1>1, NoneWaits
  <2>5. d = NewRun(lastId + 1) /\ x = 0 BY <2>2, <2>3, <2>4, WaitingKept
  <2>6. NewRun(lastId + 1).id = lastId + 1 BY DEF NewRun
  <2>7. d = NewRun(d.id) BY <2>5, <2>6
  <2> QED BY <1>3, <2>5, <2>7 DEF OwnDraft
<1>6. RecordSound' BY <1>1 DEF QueueInv, RecordSound, AttemptSees
<1>7. EffectHeld' BY <1>1, <1>3 DEF QueueInv, EffectHeld, Delivering
<1>8. BeginAlone' BY <1>3 DEF BeginAlone
<1> QED BY <1>4, <1>5, <1>6, <1>7, <1>8 DEF QueueInv

(* The queue issues a save of what it loaded.                               *)
LEMMA SaveQueue == IInv /\ IInv' /\ QueueInv /\ SaveStep => QueueInv'
<1> SUFFICES ASSUME IInv, IInv', QueueInv, SaveStep PROVE QueueInv' OBVIOUS
<1>0. TypeOK BY DEF IInv
<1>1. PICK kind \in SaveKind, n \in Run : Saves(kind, n) BY DEF SaveStep
<1>2. /\ kind # "start" /\ op # None /\ op.snap # None /\ op.stage = StageOf(kind)
      /\ Transition(kind, op.snap, n) /\ n.id = op.snap.id /\ n.rev = op.snap.rev
      /\ Savable(op.snap, n) /\ op' = [op EXCEPT !.stage = "saving", !.kind = kind]
      /\ UNCHANGED <<active, attempt>>
  BY <1>1 DEF Saves, Save, file
<1>3. op \in Op /\ op.snap \in Run BY <1>0, <1>2, SnapType
<1>4. op' # None /\ op'.stage = "saving" /\ op'.kind = kind /\ op'.snap = op.snap
  <2>1. op' \in Op /\ op'.stage = "saving" /\ op'.kind = kind /\ op'.snap = op.snap
    BY <1>2, <1>3 DEF Op
  <2> QED BY <2>1, NoMemoryIsNone
<1>5. op.stage \in {"loaded", "sent", "unknown"} /\ op.stage # "saving"
      /\ (op.stage = "unknown" => kind = "unknown") /\ (op.stage = "sent" => kind = "finish")
      /\ (kind \in {"requeue", "settle", "begin"} => op.stage = "loaded")
  BY <1>2 DEF StageOf
<1>6. Coherent' BY <1>2, <1>4, <1>5 DEF QueueInv, Coherent
<1>7. RecordSound' BY <1>2 DEF QueueInv, RecordSound, AttemptSees
<1>8. EffectHeld' BY <1>2, <1>4, <1>5 DEF QueueInv, EffectHeld, Delivering
<1>9. BeginAlone' BY <1>2, <1>4 DEF BeginAlone, Transition
<1>10. DraftShape'
  <2> SUFFICES ASSUME NEW d \in Run, NEW x \in Nat, Waiting(d, x)' PROVE OwnDraft(d, x)'
    BY DEF DraftShape
  <2> DEFINE req == [by |-> "op", draft |-> n, expect |-> n.rev]
  <2>1. n.rev \in Nat BY DEF Run
  <2>2. req \in Request /\ req.draft = n /\ req.expect = n.rev BY <2>1 DEF Request, SaveReq
  <2>3. Issue(req) BY <1>1 DEF Saves, Save
  <2> HIDE DEF req
  <2>4. ~Waiting(d, x) BY <1>2, <1>5, NoneWaits
  <2>5. d = n /\ x = op.snap.rev BY <1>2, <2>2, <2>3, <2>4, WaitingKept
  <2>6. kind = "begin" => CanBegin(op.snap) /\ n = Begun(op.snap) BY <1>2 DEF Transition
  <2>7. ASSUME active = op.snap PROVE Evolves(kind, op.snap, n) /\ Sound(n) /\ AttemptSees(n)
    <3>1. Sound(op.snap) /\ AttemptSees(op.snap) BY <1>3, <2>7 DEF QueueInv, RecordSound
    <3>2. ValidEffect(n) BY <1>2 DEF Savable, Storable
    <3>3. kind \in {"requeue", "settle"} => op.snap.effect = None
      <4>1. kind \in {"requeue", "settle"} =>
              attempt # None /\ attempt.run = op.snap.id /\ attempt.stage # "failing"
        BY <1>2 DEF Transition, InHand
      <4>2. kind \in {"requeue", "settle"} => ~Delivering BY <1>5 DEF Delivering
      <4> QED BY <1>2, <2>7, <4>1, <4>2 DEF QueueInv, EffectHeld
    <3> QED BY <1>0, <1>2, <1>3, <3>1, <3>2, <3>3, TransitionSound
  <2>8. AttemptSees(n)' <=> AttemptSees(n) BY <1>2 DEF AttemptSees
  <2> QED BY <1>2, <1>4, <2>5, <2>6, <2>7, <2>8 DEF OwnDraft
<1> QED BY <1>6, <1>7, <1>8, <1>9, <1>10 DEF QueueInv

(* The save reaches the file, or fails. *)
LEMMA ExecuteQueue == IInv /\ IInv' /\ Revised /\ FreshIds /\ QueueInv /\ SaveExecutes => QueueInv'
<1> SUFFICES ASSUME IInv, IInv', Revised, FreshIds, QueueInv, SaveExecutes PROVE QueueInv' OBVIOUS
<1>0. TypeOK /\ OpShape BY DEF IInv
<1>1. /\ pend # <<>> /\ First.by = "op" /\ pend' = Tail(pend) /\ op # None /\ op \in Op
      /\ op.stage = "saving" /\ lastId' = lastId
  BY <1>0, SnapType DEF SaveExecutes
<1>2. op.kind # "start" => op.snap # None /\ op.snap \in Run BY <1>0, <1>1, SnapType DEF OpShape
<1>3. \/ op' = None
      \/ /\ op.kind = "prepare" /\ Write(First) /\ attempt' = attempt
         /\ op' # None /\ op'.stage = "deliver" /\ op'.kind = "prepare" /\ op'.snap = active'
      \/ /\ op.kind = "finish" /\ attempt' = attempt
         /\ op' # None /\ op'.stage = "unknown" /\ op'.kind = "finish" /\ op'.snap = op.snap
  <2>1. CASE op' = None BY <2>1
  <2>2. CASE op' = [op EXCEPT !.stage = "deliver", !.snap = active'] /\ op' # None
             /\ op.kind = "prepare" /\ Write(First) /\ attempt' = attempt
    BY <1>1, <2>2 DEF Op
  <2>3. CASE op' = [op EXCEPT !.stage = "unknown"] /\ op' # None
             /\ op.kind = "finish" /\ attempt' = attempt
    BY <1>1, <2>3 DEF Op
  <2> QED BY <2>1, <2>2, <2>3 DEF SaveExecutes
<1>4. op' = None \/ op'.stage # "saving" BY <1>3
<1>5. BeginAlone' BY <1>3 DEF BeginAlone
<1>6. DraftShape'
  <2>1. \A d \in Run, x \in Nat : ~Waiting(d, x)'
    BY <1>4 DEF IInv, PendShape, Waiting, QueueReq
  <2> QED BY <2>1 DEF DraftShape
<1>7. \/ attempt' = attempt \/ attempt' = None
      \/ /\ attempt # None /\ attempt' # None /\ attempt'.run = attempt.run
         /\ attempt'.inRev = attempt.inRev /\ attempt'.ckpt = attempt.ckpt
         /\ attempt'.stage = "failing" \/ (op.kind = "finish" /\ Write(First))
      \/ /\ op.kind = "begin" /\ attempt = None
         /\ \/ Write(First) /\ attempt' = AttemptOn(op.snap)
            \/ attempt' = FailingOn(op.snap)
  BY <1>1 DEF SaveExecutes, QueueInv, BeginAlone
<1>8. op.kind = "begin" =>
        /\ AttemptOn(op.snap).run = op.snap.id /\ FailingOn(op.snap).run = op.snap.id
        /\ FailingOn(op.snap).stage = "failing"
  BY <1>2, AttemptRun, AttemptType
<1>9. CASE Write(First)
  <2> DEFINE d == First.draft
  <2>1. d \in Run /\ First.expect + 1 \in Nat /\ SaveTakes(d) BY <1>9, SaveReaches
  <2> HIDE DEF d
  <2>2. active' = [d EXCEPT !.rev = First.expect + 1] BY <2>1 DEF SaveTakes
  <2>3. /\ active' \in Run /\ active' # None /\ active'.rev = First.expect + 1 /\ active'.id = d.id
        /\ active'.effect = d.effect /\ (Terminal(active') <=> Terminal(d))
        /\ Sound(d) => Sound(active')
        /\ \A a : SeenBy(a, d) => SeenBy(a, active')
    BY <2>1, <2>2, RevOnly
  <2>4. CASE op.kind = "start"
    <3>1. d = NewRun(d.id) /\ ~Known(d.id) /\ d.id \in Nat BY <2>1, <2>4 DEF SaveTakes, Run
    <3>2. Sound(d) /\ d.effect = None BY <3>1, NewRunSound
    <3>3. op' = None BY <1>3, <2>4
    <3>4. attempt' # None => attempt'.run # d.id BY <1>7, <2>4, <3>1 DEF Known
    <3>5. RecordSound' BY <2>3, <3>2, <3>4 DEF RecordSound, AttemptSees
    <3>6. EffectHeld' BY <2>3, <3>2 DEF EffectHeld
    <3>7. Coherent' BY <3>3 DEF Coherent
    <3> QED BY <1>5, <1>6, <3>5, <3>6, <3>7 DEF QueueInv
  <2>5. CASE op.kind # "start"
    <3>1. /\ active = op.snap /\ First.expect = active.rev /\ Evolves(op.kind, op.snap, d)
          /\ Sound(d) /\ AttemptSees(d) /\ (op.kind = "begin" => CanBegin(op.snap) /\ d = Begun(op.snap))
      BY <2>1, <2>5 DEF SaveTakes
    <3>2. d.id = op.snap.id /\ Ledgers(op.kind, op.snap, d) BY <3>1 DEF Evolves
    <3>3. Coherent' BY <1>2, <1>3, <2>3, <2>5, <3>1, <3>2 DEF Coherent
    <3>4. RecordSound'
      <4> SUFFICES ASSUME NEW r \in Run, r = active' PROVE Sound(r) /\ AttemptSees(r)'
        BY DEF RecordSound
      <4>1. Sound(r) BY <2>3, <3>1
      <4>2. AttemptSees(r)'
        <5> SUFFICES ASSUME attempt' # None, attempt'.run = r.id, ~Terminal(r)
                     PROVE SeenBy(attempt', r)
          BY DEF AttemptSees
        <5>1. CASE attempt # None /\ attempt'.run = attempt.run
                   /\ attempt'.inRev = attempt.inRev /\ attempt'.ckpt = attempt.ckpt
          <6>1. SeenBy(attempt, d) BY <2>3, <3>1, <5>1 DEF AttemptSees
          <6>2. SeenBy(attempt', d) BY <5>1, <6>1 DEF SeenBy
          <6> QED BY <2>3, <6>2
        <5>2. CASE op.kind = "begin" /\ (attempt' = AttemptOn(op.snap) \/ attempt' = FailingOn(op.snap))
          <6>1. Sound(op.snap) BY <1>2, <2>5, <3>1 DEF QueueInv, RecordSound
          <6>2. SeenBy(attempt', d) BY <1>2, <2>1, <2>5, <3>1, <5>2, <6>1, BegunSound
          <6> QED BY <2>3, <6>2
        <5> QED BY <1>7, <5>1, <5>2
      <4> QED BY <4>1, <4>2
    <3>5. EffectHeld'
      <4> SUFFICES ASSUME active'.effect # None, attempt' # None, attempt'.run = active'.id
                   PROVE attempt'.stage = "failing" \/ Delivering'
        BY DEF EffectHeld
      <4>1. CASE op.kind = "prepare"
        <5>1. CASE op' = None BY <4>1, <5>1 DEF SaveExecutes
        <5>2. CASE op' # None BY <1>3, <4>1, <5>2 DEF Delivering
        <5> QED BY <5>1, <5>2
      <4>2. CASE op.kind # "prepare"
        <5>1. d.effect = op.snap.effect /\ op.kind \notin {"begin", "finish", "unknown"}
          BY <2>3, <3>2, <4>2 DEF Ledgers
        <5>2. attempt # None /\ attempt'.run = attempt.run
              /\ (attempt' = attempt \/ attempt'.stage = "failing")
          BY <1>7, <5>1
        <5>3. active # None /\ active.effect # None /\ attempt.run = active.id
          BY <1>2, <2>3, <2>5, <3>1, <3>2, <5>1, <5>2
        <5>4. ~Delivering BY <1>1, <5>1 DEF Delivering
        <5> QED BY <5>2, <5>3, <5>4 DEF QueueInv, EffectHeld
      <4> QED BY <4>1, <4>2
    <3> QED BY <1>5, <1>6, <3>3, <3>4, <3>5 DEF QueueInv
  <2> QED BY <2>4, <2>5
<1>10. CASE KeepFile(First) /\ ~Write(First)
  <2>1. active' = active BY <1>10 DEF KeepFile, file
  <2>2. Coherent' BY <1>1, <1>3, <1>10, <2>1 DEF QueueInv, Coherent
  <2>3. op.kind = "begin" => CanBegin(op.snap) /\ (active = None \/ active = op.snap)
    <3>1. First \in SaveReq /\ First = pend[1] /\ 1 \in 1 .. Len(pend)  BY <1>0, <1>1, TakeFirst DEF SaveExecutes
    <3>2. Waiting(First.draft, First.expect) BY <1>1, <3>1 DEF Waiting
    <3>3. First.draft \in Run /\ First.expect \in Nat BY <3>1 DEF SaveReq
    <3>4. OwnDraft(First.draft, First.expect) BY <3>2, <3>3 DEF QueueInv, DraftShape
    <3> QED BY <1>1, <3>4 DEF QueueInv, Coherent, OwnDraft
  <2>4. RecordSound'
    <3> SUFFICES ASSUME NEW r \in Run, r = active' PROVE Sound(r) /\ AttemptSees(r)'
      BY DEF RecordSound
    <3>1. Sound(r) /\ AttemptSees(r) BY <2>1 DEF QueueInv, RecordSound
    <3>2. CASE attempt' = attempt \/ attempt' = None
               \/ /\ attempt # None /\ attempt'.run = attempt.run
                  /\ attempt'.inRev = attempt.inRev /\ attempt'.ckpt = attempt.ckpt
      BY <3>1, <3>2 DEF AttemptSees, SeenBy
    <3>3. CASE op.kind = "begin" /\ attempt' = FailingOn(op.snap)
      <4>1. r = op.snap /\ CanBegin(r) BY <2>1, <2>3, <3>3, NoRecordIsNone
      <4>2. SeenBy(FailingOn(r), r) BY <3>1, BegunSound, BegunType, <4>1, <3>3
      <4> QED BY <3>1, <3>3, <4>1, <4>2 DEF AttemptSees
    <3>4. \/ attempt' = attempt \/ attempt' = None
          \/ /\ attempt # None /\ attempt'.run = attempt.run
             /\ attempt'.inRev = attempt.inRev /\ attempt'.ckpt = attempt.ckpt
          \/ op.kind = "begin" /\ attempt' = FailingOn(op.snap)
      BY <1>7, <1>10
    <3> QED BY <3>2, <3>3, <3>4
  <2>5. EffectHeld'
    <3> SUFFICES ASSUME active.effect # None, active # None, attempt' # None, attempt'.run = active.id
                 PROVE attempt'.stage = "failing" \/ Delivering'
      BY <2>1 DEF EffectHeld
    <3>1. CASE attempt # None /\ attempt'.run = attempt.run
               /\ (attempt' = attempt \/ attempt'.stage = "failing")
      <4>1. attempt.stage = "failing" \/ Delivering BY <3>1 DEF QueueInv, EffectHeld
      <4>2. CASE attempt.stage = "failing" BY <3>1, <4>2
      <4>3. CASE Delivering
        <5>1. op.kind \in {"finish", "unknown"} BY <1>1, <4>3 DEF Delivering
        <5>2. CASE op' = None BY <1>10, <5>1, <5>2 DEF SaveExecutes
        <5>3. CASE op' # None BY <1>3, <5>1, <5>3 DEF Delivering
        <5> QED BY <5>2, <5>3
      <4> QED BY <4>1, <4>2, <4>3
    <3>2. CASE op.kind = "begin" /\ attempt' = FailingOn(op.snap) BY <1>8, <3>2
    <3> QED BY <1>7, <1>10, <3>1, <3>2
  <2> QED BY <1>5, <1>6, <2>2, <2>4, <2>5 DEF QueueInv
<1> QED BY <1>9, <1>10 DEF SaveExecutes

(* Another write executes: the record stays or goes. *)
LEMMA OtherQueue == IInv /\ IInv' /\ QueueInv /\ OtherExecutes => QueueInv'
<1> SUFFICES ASSUME IInv, IInv', QueueInv, OtherExecutes PROVE QueueInv' OBVIOUS
<1>0. TypeOK BY DEF IInv
<1>1. /\ pend # <<>> /\ pend' = Tail(pend) /\ attempt' = attempt
      /\ active' = active \/ active' = None
  BY DEF OtherExecutes
<1>2. RecordSound'
  <2> SUFFICES ASSUME NEW r \in Run, r = active' PROVE Sound(r) /\ AttemptSees(r)'
    BY DEF RecordSound
  <2>1. r = active BY <1>1, NoRecordIsNone
  <2> QED BY <1>1, <2>1 DEF QueueInv, RecordSound, AttemptSees
<1>3. CASE op' = op
  <2>1. Coherent' /\ BeginAlone' BY <1>1, <1>3 DEF QueueInv, Coherent, BeginAlone
  <2>2. EffectHeld' BY <1>1, <1>3 DEF QueueInv, EffectHeld, Delivering
  <2>3. DraftShape'
    <3> SUFFICES ASSUME NEW d \in Run, NEW x \in Nat, Waiting(d, x)' PROVE OwnDraft(d, x)'
      BY DEF DraftShape
    <3>1. Waiting(d, x) BY <1>1, WaitingKept
    <3>2. OwnDraft(d, x) BY <3>1 DEF QueueInv, DraftShape
    <3>3. active' = active \/ active' # op.snap \/ op.snap = None BY <1>1
    <3> QED BY <1>1, <1>3, <3>2, <3>3 DEF OwnDraft, AttemptSees
  <2> QED BY <1>2, <2>1, <2>2, <2>3 DEF QueueInv
<1>4. CASE /\ op # None /\ op.stage = "dropping"
           /\ op' = None \/ op' = [op EXCEPT !.stage = "start"]
  <2>1. op \in Op /\ op.kind = "start" BY <1>0, <1>4, SnapType DEF IInv, OpShape
  <2>2. op' = None \/ (op' \in Op /\ op'.stage = "start" /\ op'.kind = "start" /\ op'.snap = op.snap)
    BY <1>4, <2>1 DEF Op
  <2>3. Coherent' BY <1>1, <1>4, <2>2 DEF QueueInv, Coherent
  <2>4. BeginAlone' BY <2>2 DEF BeginAlone
  <2>5. ~Delivering BY <1>4 DEF Delivering
  <2>6. EffectHeld' BY <1>1, <2>5 DEF QueueInv, EffectHeld
  <2>7. DraftShape'
    <3>1. \A d \in Run, x \in Nat : ~Waiting(d, x)' BY <2>2 DEF IInv, PendShape, Waiting, QueueReq
    <3> QED BY <3>1 DEF DraftShape
  <2> QED BY <1>2, <2>3, <2>4, <2>6, <2>7 DEF QueueInv
<1> QED BY <1>3, <1>4 DEF OtherExecutes

(* The process starts again. *)
LEMMA RestartQueue == IInv' /\ QueueInv /\ Restart => QueueInv'
<1> SUFFICES ASSUME IInv', QueueInv, Restart PROVE QueueInv' OBVIOUS
<1>1. active' = active /\ op' = None /\ attempt' = None BY DEF Restart, file
<1>2. Coherent' /\ BeginAlone' /\ EffectHeld' BY <1>1 DEF Coherent, BeginAlone, EffectHeld
<1>3. RecordSound' BY <1>1 DEF QueueInv, RecordSound, AttemptSees
<1> QED BY <1>1, <1>2, <1>3, BetweenSaves

(* Every step keeps the record, the queue and the attempt in line. *)
LEMMA QueueStep == IInv /\ Revised /\ FreshIds /\ QueueInv /\ [Next]_vars => QueueInv'
<1> SUFFICES ASSUME IInv, Revised, FreshIds, QueueInv, [Next]_vars PROVE QueueInv' OBVIOUS
<1>0. IInv' BY NextShape
<1>1. CASE SaveStep BY <1>0, <1>1, SaveQueue
<1>2. CASE Quiet BY <1>2, QuietQueue DEF Quiet
<1>3. CASE Enters BY <1>0, <1>3, EntersQueue
<1>4. CASE Leaves BY <1>0, <1>4, LeavesQueue
<1>5. CASE StartActive BY <1>0, <1>5, StartQueue
<1>6. CASE Restart BY <1>0, <1>6, RestartQueue
<1>7. CASE \E stage \in {"start", "dropping", "sending", "sent", "unknown"} : Advances(stage)
  BY <1>0, <1>7, AdvancesQueue
<1>8. CASE \E req \in Request : Issues(req)
  <2>1. PICK req \in Request : Issues(req) BY <1>8
  <2>2. Issue(req) /\ req.by # "op" /\ UNCHANGED <<active, op>> /\ attempt' = attempt
    BY <2>1 DEF Issues, QueueReq, file
  <2>3. AttemptKept BY <2>2 DEF AttemptKept
  <2> QED BY <2>2, <2>3, QuietQueue
<1>9. CASE ExecuteSave BY <1>0, <1>9, SaveExecution, ExecuteQueue
<1>10. CASE OtherExecutes BY <1>0, <1>10, OtherQueue
<1> QED BY <1>1, <1>2, <1>3, <1>4, <1>5, <1>6, <1>7, <1>8, <1>9, <1>10, Steps, OtherExecution

(* The program starts in line. *)
LEMMA QueueInit == Init => QueueInv
<1> SUFFICES ASSUME Init PROVE QueueInv OBVIOUS
<1>1. active = None /\ op = None /\ Len(pend) = 0 BY DEF Init
<1>2. \A r \in Run : r # active BY <1>1, NoRecordIsNone
<1>3. \A d \in Run, x \in Nat : ~Waiting(d, x) BY <1>1 DEF Waiting
<1> QED BY <1>1, <1>2, <1>3
        DEF QueueInv, Coherent, DraftShape, RecordSound, BeginAlone, EffectHeld

(* The record, the queue and the worker, whatever the environment does.     *)
Core == IInv /\ Revised /\ FreshIds /\ QueueInv

(* They stay in line in every state of the service.                         *)
LEMMA CoreInvariant == Spec => []Core
<1>1. Init => Core BY InitShape, RevisedInit, FreshInit, QueueInit DEF Core
<1>2. Core /\ [Next]_vars => Core'
  BY NextShape, RevisedStep, FreshStep, QueueStep DEF Core
<1> QED BY <1>1, <1>2, PTL DEF Spec

(* The revision a checkpoint is booked at tells the truth, for any number   *)
(* of messages and attempts: it carries every instruction up to it.         *)
THEOREM BookedIsSeen == Spec => []AppliedIsSeen
<1>1. Core => AppliedIsSeen
  <2> SUFFICES ASSUME Core, active # None, ~Terminal(active), active.ckpt # None,
                      NEW m \in ConstraintsOf(active), m.rev <= active.applied
               PROVE m.src \in active.ckpt.seen
    BY DEF AppliedIsSeen
  <2>1. active \in Run BY DEF Core, IInv, TypeOK
  <2> QED BY <2>1 DEF Core, QueueInv, RecordSound, Sound, Shown
<1> QED BY <1>1, CoreInvariant, PTL

(* The record changes in one way only: the active queue's save is written.  *)
LEMMA RecordChanges ==
  Core /\ [Next]_vars =>
    \/ active' = active \/ active' = None
    \/ /\ SaveExecutes /\ Write(First)
       /\ First.draft \in Run /\ First.expect \in Nat /\ SaveTakes(First.draft)
<1> SUFFICES ASSUME Core, [Next]_vars, active' # active, active' # None
             PROVE /\ SaveExecutes /\ Write(First)
                   /\ First.draft \in Run /\ First.expect \in Nat /\ SaveTakes(First.draft)
  OBVIOUS
<1>1. IInv /\ Revised /\ FreshIds /\ QueueInv BY DEF Core
<1>2. ~SaveStep /\ ~Quiet /\ ~Enters /\ ~Leaves /\ ~StartActive /\ ~Restart
  BY DEF SaveStep, Saves, Quiet, Enters, Leaves, StartActive, Restart, file
<1>3. ~\E stage \in {"start", "dropping", "sending", "sent", "unknown"} : Advances(stage)
  BY DEF Advances, file
<1>4. ~\E req \in Request : Issues(req) BY DEF Issues, file
<1>5. ~OtherExecutes BY DEF OtherExecutes
<1>6. ExecuteSave BY <1>1, <1>2, <1>3, <1>4, <1>5, Steps, OtherExecution
<1>7. SaveExecutes BY <1>1, <1>6, SaveExecution
<1>8. Write(First) BY <1>7 DEF SaveExecutes, KeepFile, file
<1> QED BY <1>1, <1>7, <1>8, SaveReaches

(* A record that is replaced by another of the same run evolves. *)
LEMMA SameEvolves ==
  Core /\ [Next]_vars /\ Same /\ active' # active =>
    \E d \in Run : /\ Evolves(op.kind, active, d) /\ active'.status = d.status
                  /\ active'.receipts = d.receipts /\ active'.mailbox = d.mailbox
<1> SUFFICES ASSUME Core, [Next]_vars, Same, active' # active
             PROVE \E d \in Run :
                     /\ Evolves(op.kind, active, d) /\ active'.status = d.status
                     /\ active'.receipts = d.receipts /\ active'.mailbox = d.mailbox
  OBVIOUS
<1> DEFINE d == First.draft
<1>1. d \in Run /\ First.expect + 1 \in Nat /\ SaveTakes(d) BY RecordChanges DEF Same
<1> HIDE DEF d
<1>2. active' = [d EXCEPT !.rev = First.expect + 1] BY <1>1 DEF SaveTakes
<1>3. active'.id = d.id /\ active'.status = d.status /\ active'.receipts = d.receipts
      /\ active'.mailbox = d.mailbox
  BY <1>1, <1>2, RevOnly
<1>4. Known(d.id) BY <1>3 DEF Same, Known
<1>5. op.snap = active /\ Evolves(op.kind, op.snap, d) BY <1>1, <1>4 DEF SaveTakes
<1> QED BY <1>1, <1>3, <1>5

(* An outcome is final: nothing a worker, an answer or a recovery stores    *)
(* late changes the status of a closed run or its receipts.                 *)
THEOREM OutcomeIsFinal == Spec => TerminalAbsorbing
<1>1. Core /\ [Next]_vars =>
        (Same /\ Terminal(active) =>
           active'.status = active.status /\ active'.receipts = active.receipts)
  BY SameEvolves DEF Evolves
<1> QED BY <1>1, CoreInvariant, PTL DEF Spec, TerminalAbsorbing

(* The ledger of a live run only grows: no accepted message is evicted,     *)
(* whatever the capacities are.                                             *)
THEOREM MessagesAreKept == Spec => MailboxKept
<1>1. Core /\ [Next]_vars =>
        (Same /\ ~Terminal(active') => active.mailbox \subseteq active'.mailbox)
  BY SameEvolves DEF Evolves, Terminal
<1> QED BY <1>1, CoreInvariant, PTL DEF Spec, MailboxKept

(* A message leaves in one way only: the transport is called for the effect *)
(* the holder of the queue prepared.                                        *)
LEMMA MessageLeaves ==
  ASSUME Core, [Next]_vars, NEW s \in sent' \ sent
  PROVE op # None /\ op.stage = "sending" /\ s = Outgoing(op.snap)
<1>1. IInv /\ Revised /\ sent' # sent BY DEF Core
<1>2. ~SaveStep /\ ~Quiet /\ ~Enters /\ ~Leaves /\ ~StartActive /\ ~Restart
  BY <1>1 DEF SaveStep, Saves, Quiet, Enters, Leaves, StartActive, Restart, world
<1>3. ~\E req \in Request : Issues(req) BY <1>1 DEF Issues, world
<1>4. ~OtherExecutes BY <1>1 DEF OtherExecutes
<1>5. ~ExecuteSave BY <1>1, SaveExecution DEF SaveExecutes, world
<1>6. PICK stage \in {"start", "dropping", "sending", "sent", "unknown"} : Advances(stage)
  BY <1>1, <1>2, <1>3, <1>4, <1>5, Steps, OtherExecution
<1> QED BY <1>6 DEF Advances

(* What leaves for the user was computed from every instruction the run has *)
(* accepted at that moment; a result of an older revision never leaves.     *)
THEOREM ResultsAreFresh == Spec => FreshDelivery
<1>1. Core /\ [Next]_vars =>
        \A s \in sent' \ sent : active # None /\ active.id = s.run =>
          /\ active.instr = s.instr
          /\ SourcesOf(ConstraintsOf(active)) \subseteq s.seen
  <2> SUFFICES ASSUME Core, [Next]_vars, NEW s \in sent' \ sent, active # None, active.id = s.run
               PROVE active.instr = s.instr /\ SourcesOf(ConstraintsOf(active)) \subseteq s.seen
    OBVIOUS
  <2>1. op # None /\ op.stage = "sending" /\ s = Outgoing(op.snap) BY MessageLeaves
  <2>2. active = op.snap BY <2>1 DEF Core, QueueInv, Coherent
  <2>3. active \in Run /\ active.effect # None
    BY <2>1, <2>2 DEF Core, IInv, TypeOK, OpShape, CommitStage
  <2>4. Sound(active) BY <2>3 DEF Core, QueueInv, RecordSound
  <2>5. active.effect.instr = active.instr /\ ~Terminal(active)
    BY <2>3, <2>4 DEF Sound, EffectSound, Terminal, TerminalStatus
  <2>6. Shown(active) /\ UpToDate(active) BY <2>3, <2>4, <2>5 DEF Sound, Committing
  <2>7. s.instr = active.effect.instr /\ s.seen = active.ckpt.seen BY <2>1, <2>2 DEF Outgoing
  <2> QED BY <2>5, <2>6, <2>7 DEF Shown, UpToDate, SourcesOf
<1> QED BY <1>1, CoreInvariant, PTL DEF Spec, FreshDelivery

-----------------------------------------------------------------------------
(* The messages that left.                                                  *)

(* Before the transport is called, the effect is newer than all the run has *)
(* sent, and none of that was final; a receipt says `committed` after the   *)
(* transport was called.                                                    *)
FlightInv ==
  op # None =>
    /\ op.stage \in {"deliver", "sending"} =>
         \A s \in sent : s.run = op.snap.id => s.effect < op.snap.effect.id /\ s.purpose # "final"
    /\ op.stage = "sent" \/ (op.stage = "saving" /\ op.kind = "finish") =>
         Outgoing(op.snap) \in sent

(* An effect takes the revision of its record as id.                        *)
EffectAge == active # None /\ active.effect # None => active.effect.id <= active.rev

(* The record accounts for a message, and knows a final one as the end.     *)
Accounted(r, s) ==
  /\ s.effect <= r.rev
  /\ \/ r.effect # None /\ r.effect.id = s.effect /\ r.effect.purpose = s.purpose
     \/ /\ \E c \in r.receipts : c.effect = s.effect
        /\ s.purpose = "final" => Terminal(r)
AllAccounted == active # None => \A s \in sent : s.run = active.id => Accounted(active, s)

(* A record waits for the answer to a question that was delivered.          *)
Asked(run, question) ==
  \E s \in sent : s.run = run /\ s.purpose = "question" /\ s.effect = question
WaitsForAsked ==
  active # None /\ active.status = "waiting_input" /\ active.question # None =>
    Asked(active.id, active.question.id)

RecordLedger ==
  /\ EffectAge /\ AllAccounted /\ ReceiptsTruthful /\ WaitsForAsked /\ AnswerToDelivered
  /\ FinalOnce
LedgerInv == FlightInv /\ RecordLedger

(* What is on the record stays true as long as nothing is stored or sent.   *)
LEMMA LedgerKept ==
  ASSUME RecordLedger, active' = active \/ active' = None, sent' = sent
  PROVE RecordLedger'
<1>1. CASE active' = active
  BY <1>1 DEF RecordLedger, EffectAge, AllAccounted, ReceiptsTruthful, WaitsForAsked, Asked,
              AnswerToDelivered, FinalOnce
<1>2. CASE active' = None
  BY <1>2 DEF RecordLedger, EffectAge, AllAccounted, ReceiptsTruthful, WaitsForAsked, Asked,
              AnswerToDelivered, FinalOnce
<1> QED BY <1>1, <1>2

(* A transition accounts for all that its record accounts for. *)
LEMMA AccountedKept ==
  ASSUME NEW r \in Run, NEW n \in Run, NEW kind, Ledgers(kind, r, n),
         Terminal(r) => Terminal(n), NEW rev \in Nat, rev = r.rev + 1,
         NEW m \in Run, m.rev = rev, m.effect = n.effect, m.receipts = n.receipts,
         Terminal(m) <=> Terminal(n),
         NEW s \in Sent, Accounted(r, s)
  PROVE Accounted(m, s)
<1>1. s.effect <= m.rev BY DEF Accounted, Sent, Run
<1>2. CASE n.effect = r.effect /\ n.receipts = r.receipts BY <1>1, <1>2 DEF Accounted
<1>3. CASE r.effect = None /\ n.receipts = r.receipts BY <1>1, <1>3 DEF Accounted
<1>4. CASE /\ r.effect # None
           /\ \E status \in {"committed", "unknown"} : n.receipts = r.receipts \cup {ReceiptOf(r, status)}
           /\ r.effect.purpose = "final" => Terminal(n)
  <2>1. PICK status \in {"committed", "unknown"} : n.receipts = r.receipts \cup {ReceiptOf(r, status)}
    BY <1>4
  <2>2. ReceiptOf(r, status) \in m.receipts /\ ReceiptOf(r, status).effect = r.effect.id
    BY <2>1 DEF ReceiptOf
  <2> QED BY <1>1, <1>4, <2>1, <2>2 DEF Accounted
<1> QED BY <1>2, <1>3, <1>4 DEF Ledgers

(* A save that reaches the file keeps the account of what was sent. *)
LEMMA SaveLedger ==
  ASSUME Core, FlightInv, RecordLedger, SaveExecutes, Write(First), IInv'
  PROVE RecordLedger'
<1> DEFINE d == First.draft
<1>0. IInv /\ Revised /\ FreshIds /\ QueueInv /\ TypeOK BY DEF Core, IInv
<1>1. d \in Run /\ First.expect \in Nat /\ First.expect + 1 \in Nat /\ SaveTakes(d)
  BY <1>0, SaveReaches
<1> HIDE DEF d
<1>2. active' = [d EXCEPT !.rev = First.expect + 1] BY <1>1 DEF SaveTakes
<1>3. /\ active' \in Run /\ active' # None /\ active'.rev = First.expect + 1 /\ active'.id = d.id
      /\ active'.status = d.status /\ active'.effect = d.effect /\ active'.receipts = d.receipts
      /\ active'.answer = d.answer /\ active'.question = d.question
      /\ (Terminal(active') <=> Terminal(d))
  BY <1>1, <1>2, RevOnly
<1>4. sent' = sent /\ sent \subseteq Sent BY <1>0 DEF SaveExecutes, world, TypeOK
<1>5. FinalOnce' BY <1>4 DEF RecordLedger, FinalOnce
<1>6. CASE op.kind = "start"
  <2>1. d = NewRun(d.id) /\ ~Known(d.id) /\ d.id \in Nat BY <1>1, <1>6 DEF SaveTakes, Run
  <2>2. /\ d.effect = None /\ d.receipts = {} /\ d.answer = None /\ d.question = None
    BY <2>1, NewRunSound
  <2>3. \A s \in sent : s.run # d.id BY <2>1 DEF Known
  <2>4. EffectAge' /\ AllAccounted' BY <1>3, <1>4, <2>2, <2>3 DEF EffectAge, AllAccounted
  <2>5. ReceiptsTruthful' /\ AnswerToDelivered' BY <1>3, <2>2 DEF ReceiptsTruthful, AnswerToDelivered
  <2>6. WaitsForAsked' BY <1>3, <2>2 DEF WaitsForAsked
  <2> QED BY <1>5, <2>4, <2>5, <2>6 DEF RecordLedger
<1>7. CASE op.kind # "start"
  <2>1. /\ op.snap # None /\ active = op.snap /\ active \in Run /\ First.expect = active.rev
        /\ Evolves(op.kind, active, d) /\ Sound(active)
    BY <1>0, <1>1, <1>7 DEF SaveTakes, TypeOK, QueueInv, RecordSound
  <2>2. /\ d.id = active.id /\ Ledgers(op.kind, active, d) /\ Asks(op.kind, active, d)
        /\ (Terminal(active) => Terminal(d)) /\ active.rev \in Nat
    BY <2>1 DEF Evolves, Terminal, Run
  <2>3. op # None /\ op.stage = "saving" BY DEF SaveExecutes
  <2>4. op.kind = "finish" => Outgoing(active) \in sent BY <2>1, <2>3 DEF FlightInv
  <2>5. EffectAge'
    <3> SUFFICES ASSUME d.effect # None PROVE d.effect.id <= active.rev + 1
      BY <1>3, <2>1 DEF EffectAge
    <3>1. CASE d.effect = active.effect
      <4>1. active.effect.id \in Nat /\ active.effect.id <= active.rev
        BY <2>1, <3>1 DEF RecordLedger, EffectAge, Run, Effect
      <4> QED BY <2>2, <3>1, <4>1
    <3>2. CASE d.effect.id = active.rev + 1 BY <2>2, <3>2
    <3> QED BY <2>2, <3>1, <3>2 DEF Ledgers
  <2>6. AllAccounted'
    <3> SUFFICES ASSUME NEW s \in sent, s.run = active.id PROVE Accounted(active', s)
      BY <1>3, <1>4, <2>2 DEF AllAccounted
    <3>1. Accounted(active, s) /\ s \in Sent BY <1>4, <2>1 DEF RecordLedger, AllAccounted
    <3> QED BY <1>1, <1>3, <2>1, <2>2, <3>1, AccountedKept
  <2>7. ReceiptsTruthful'
    <3> SUFFICES ASSUME NEW c \in d.receipts, c.status = "committed"
                 PROVE \E s \in sent : s.run = active.id /\ s.effect = c.effect
      BY <1>3, <1>4, <2>2 DEF ReceiptsTruthful
    <3>1. CASE c \in active.receipts BY <2>1, <3>1 DEF RecordLedger, ReceiptsTruthful
    <3>2. CASE /\ op.kind = "finish" /\ c = ReceiptOf(active, "committed")
      BY <2>4, <3>2 DEF Outgoing, ReceiptOf
    <3>3. CASE c = ReceiptOf(active, "unknown") BY <3>3 DEF ReceiptOf
    <3> QED BY <2>2, <3>1, <3>2, <3>3 DEF Ledgers
  <2>8. WaitsForAsked'
    <3> SUFFICES ASSUME d.status = "waiting_input", d.question # None
                 PROVE Asked(active.id, d.question.id)
      BY <1>3, <1>4, <2>2 DEF WaitsForAsked, Asked
    <3>1. CASE active.status = "waiting_input" /\ d.question = active.question
      BY <2>1, <3>1 DEF RecordLedger, WaitsForAsked
    <3>2. CASE /\ op.kind = "finish" /\ d.question = active.question
               /\ active.effect # None /\ active.effect.purpose = "question"
      <4>1. active.question.id = active.effect.id BY <2>1, <3>2 DEF Sound, EffectSound
      <4> QED BY <2>4, <3>2, <4>1 DEF Outgoing, Asked
    <3> QED BY <2>2, <3>1, <3>2 DEF Asks
  <2>9. AnswerToDelivered'
    <3> SUFFICES ASSUME d.answer # None
                 PROVE \E s \in sent : /\ s.run = active.id /\ s.purpose = "question"
                                      /\ s.effect = d.answer.question
      BY <1>3, <1>4, <2>2 DEF AnswerToDelivered
    <3>1. CASE d.answer = active.answer BY <2>1, <3>1 DEF RecordLedger, AnswerToDelivered
    <3>2. CASE /\ active.status = "waiting_input" /\ active.question # None
               /\ d.answer.question = active.question.id
      BY <2>1, <3>2 DEF RecordLedger, WaitsForAsked, Asked
    <3> QED BY <2>2, <3>1, <3>2 DEF Asks
  <2> QED BY <1>5, <2>5, <2>6, <2>7, <2>8, <2>9 DEF RecordLedger
<1> QED BY <1>6, <1>7

(* The transport is called for an effect that is newer than all that left.  *)
LEMMA SendLedger ==
  ASSUME Core, FlightInv, RecordLedger, op # None, op.stage = "sending",
         active' = active, sent' = sent \cup {Outgoing(op.snap)}
  PROVE RecordLedger'
<1> DEFINE o == Outgoing(op.snap)
<1>0. IInv /\ TypeOK /\ QueueInv /\ op.snap # None /\ op.snap \in Run /\ op.snap.effect # None
  BY SnapType DEF Core, IInv, OpShape, CommitStage
<1>1. /\ o.run = op.snap.id /\ o.effect = op.snap.effect.id /\ o.purpose = op.snap.effect.purpose
      /\ o.effect \in Nat
  BY <1>0 DEF Outgoing, Run, Effect
<1> HIDE DEF o
<1>2. sent' = sent \cup {o} /\ sent \subseteq Sent BY <1>0 DEF o, TypeOK
<1>3. \A s \in sent : s.run = o.run => s.effect < o.effect /\ s.purpose # "final"
  BY <1>1 DEF FlightInv
<1>4. FinalOnce'
  <2> SUFFICES ASSUME NEW s \in sent', NEW t \in sent', s.run = t.run, s.purpose = "final"
               PROVE t.effect <= s.effect
    BY DEF FinalOnce
  <2>1. CASE s \in sent /\ t \in sent BY <2>1 DEF RecordLedger, FinalOnce
  <2>2. CASE s \in sent /\ t = o BY <1>3, <2>2
  <2>3. CASE s = o /\ t = o BY <1>1, <2>3
  <2>4. CASE s = o /\ t \in sent
    <3>1. t.effect \in Nat /\ t.effect < o.effect BY <1>2, <1>3, <2>4 DEF Sent
    <3> QED BY <1>1, <2>4, <3>1
  <2> QED BY <1>2, <2>1, <2>2, <2>3, <2>4
<1>5. AllAccounted'
  <2> SUFFICES ASSUME active # None, NEW s \in sent', s.run = active.id PROVE Accounted(active, s)
    BY DEF AllAccounted
  <2>1. CASE s \in sent BY <2>1 DEF RecordLedger, AllAccounted
  <2>2. CASE s = o
    <3>1. active = op.snap BY DEF Core, QueueInv, Coherent
    <3> QED BY <1>0, <1>1, <2>2, <3>1 DEF RecordLedger, EffectAge, Accounted
  <2> QED BY <1>2, <2>1, <2>2
<1>6. EffectAge' BY DEF RecordLedger, EffectAge
<1>7. ReceiptsTruthful' /\ AnswerToDelivered'
  BY <1>2 DEF RecordLedger, ReceiptsTruthful, AnswerToDelivered
<1>8. WaitsForAsked' BY <1>2 DEF RecordLedger, WaitsForAsked, Asked
<1> QED BY <1>4, <1>5, <1>6, <1>7, <1>8 DEF RecordLedger

(* An operation that goes on keeps the account. *)
LEMMA AdvancesLedger ==
  ASSUME Core, LedgerInv, NEW stage \in {"start", "dropping", "sending", "sent", "unknown"},
         Advances(stage)
  PROVE LedgerInv'
<1>0. IInv /\ TypeOK BY DEF Core, IInv
<1>1. op # None /\ op \in Op /\ op' = [op EXCEPT !.stage = stage] /\ active' = active
  BY <1>0, SnapType DEF Advances, file
<1>2. op'.stage = stage /\ op'.kind = op.kind /\ op'.snap = op.snap BY <1>1 DEF Op
<1>3. CASE sent' = sent /\ stage # "sent"
  <2>1. RecordLedger' BY <1>1, <1>3, LedgerKept DEF LedgerInv
  <2>2. stage = "sending" => op.stage = "deliver" BY <1>3 DEF Advances
  <2>3. FlightInv' BY <1>1, <1>2, <1>3, <2>2 DEF LedgerInv, FlightInv
  <2> QED BY <2>1, <2>3 DEF LedgerInv
<1>4. CASE op.stage = "sending" /\ sent' = sent \cup {Outgoing(op.snap)} /\ stage \in {"sent", "unknown"}
  <2>1. RecordLedger' BY <1>1, <1>4, SendLedger DEF LedgerInv
  <2>2. FlightInv' BY <1>2, <1>4 DEF LedgerInv, FlightInv
  <2> QED BY <2>1, <2>2 DEF LedgerInv
<1> QED BY <1>3, <1>4 DEF Advances

(* The save executes; a prepared effect is newer than all that was sent.    *)
LEMMA ExecuteLedger ==
  ASSUME Core, IInv', LedgerInv, SaveExecutes
  PROVE LedgerInv'
<1>0. IInv /\ TypeOK /\ Revised /\ FreshIds /\ QueueInv /\ FlightInv /\ RecordLedger
  BY DEF Core, IInv, LedgerInv
<1>1. sent' = sent /\ sent \subseteq Sent /\ op # None /\ op \in Op /\ op.stage = "saving"
  BY <1>0, SnapType DEF SaveExecutes, world, TypeOK
<1>2. RecordLedger'
  <2>1. CASE Write(First) BY <1>0, <2>1, SaveLedger
  <2>2. CASE KeepFile(First) BY <1>0, <1>1, <2>2, LedgerKept DEF KeepFile, file
  <2> QED BY <2>1, <2>2 DEF SaveExecutes
<1>3. ASSUME op' = None PROVE FlightInv' BY <1>3 DEF FlightInv
<1>4. ASSUME op.kind = "finish", op' = [op EXCEPT !.stage = "unknown"]
      PROVE FlightInv'
  <2>1. op'.stage = "unknown" /\ op'.stage \notin {"deliver", "sending", "sent", "saving"}
    BY <1>1, <1>4 DEF Op
  <2> QED BY <2>1 DEF FlightInv
<1>5. ASSUME op.kind = "prepare", Write(First), op' = [op EXCEPT !.stage = "deliver", !.snap = active']
      PROVE FlightInv'
  <2> DEFINE d == First.draft
  <2>1. d \in Run /\ First.expect + 1 \in Nat /\ SaveTakes(d) BY <1>0, <1>5, SaveReaches
  <2> HIDE DEF d
  <2>2. active' = [d EXCEPT !.rev = First.expect + 1] BY <2>1 DEF SaveTakes
  <2>3. active'.id = d.id /\ active'.effect = d.effect BY <2>1, <2>2, RevOnly
  <2>4. op'.stage = "deliver" /\ op'.snap = active' BY <1>1, <1>5 DEF Op
  <2>5. op.snap # None /\ active = op.snap /\ Evolves(op.kind, active, d) BY <1>5, <2>1 DEF SaveTakes
  <2>6. active # None /\ active \in Run /\ d.id = active.id /\ active.effect = None
        /\ d.effect.id = active.rev + 1 /\ active.status = "running"
    BY <1>0, <1>5, <2>5 DEF Evolves, Ledgers, TypeOK
  <2>7. ASSUME NEW s \in sent, s.run = active.id
        PROVE s.effect < active.rev + 1 /\ s.purpose # "final"
    <3>1. Accounted(active, s) BY <1>0, <2>6, <2>7 DEF RecordLedger, AllAccounted
    <3>2. s.effect \in Nat /\ active.rev \in Nat BY <1>1, <2>6, <2>7 DEF Sent, Run
    <3>3. ~Terminal(active) BY <2>6 DEF Terminal, TerminalStatus
    <3> QED BY <2>6, <3>1, <3>2, <3>3 DEF Accounted
  <2> QED BY <1>1, <2>3, <2>4, <2>6, <2>7 DEF FlightInv
<1>6. FlightInv' BY <1>3, <1>4, <1>5 DEF SaveExecutes
<1> QED BY <1>2, <1>6 DEF LedgerInv

(* Every step keeps the account of what was sent. *)
LEMMA LedgerStep == Core /\ LedgerInv /\ [Next]_vars => LedgerInv'
<1> SUFFICES ASSUME Core, LedgerInv, [Next]_vars PROVE LedgerInv' OBVIOUS
<1>0. IInv /\ TypeOK /\ Revised /\ FlightInv /\ RecordLedger BY DEF Core, IInv, LedgerInv
<1>a. op # None => op \in Op BY <1>0, SnapType
<1>b. IInv' BY <1>0, NextShape
<1> USE DEF file, world
<1>1. CASE SaveStep
  <2>1. PICK kind \in SaveKind, n \in Run : Saves(kind, n) BY <1>1 DEF SaveStep
  <2>2. /\ op # None /\ op.stage = StageOf(kind) /\ op' = [op EXCEPT !.stage = "saving", !.kind = kind]
        /\ active' = active /\ sent' = sent
    BY <2>1 DEF Saves, Save
  <2>3. op'.stage = "saving" /\ op'.kind = kind /\ op'.snap = op.snap BY <1>a, <2>2 DEF Op
  <2>4. kind = "finish" => op.stage = "sent" BY <2>2 DEF StageOf
  <2>5. FlightInv' BY <1>0, <2>2, <2>3, <2>4 DEF FlightInv
  <2>6. RecordLedger' BY <1>0, <2>2, LedgerKept
  <2> QED BY <2>5, <2>6 DEF LedgerInv
<1>2. CASE Quiet \/ \E req \in Request : Issues(req)
  <2>1. op' = op /\ active' = active /\ sent' = sent BY <1>2 DEF Quiet, Issues
  <2>2. FlightInv' BY <1>0, <2>1 DEF FlightInv
  <2>3. RecordLedger' BY <1>0, <2>1, LedgerKept
  <2> QED BY <2>2, <2>3 DEF LedgerInv
<1>3. CASE Enters \/ Leaves \/ Restart
  <2>1. (op' = None \/ op'.stage = "loaded") /\ active' = active /\ sent' = sent
    BY <1>3 DEF Enters, Leaves, Restart
  <2>2. FlightInv' BY <2>1 DEF FlightInv
  <2>3. RecordLedger' BY <1>0, <2>1, LedgerKept
  <2> QED BY <2>2, <2>3 DEF LedgerInv
<1>4. CASE StartActive
  <2>1. op # None /\ op.stage = "start" /\ op' = [op EXCEPT !.stage = "saving"]
        /\ active' = active /\ sent' = sent
    BY <1>4 DEF StartActive
  <2>2. op.kind = "start" BY <1>0, <2>1 DEF IInv, OpShape
  <2>3. op'.stage = "saving" /\ op'.kind = "start" BY <1>a, <2>1, <2>2 DEF Op
  <2>4. FlightInv' BY <2>3 DEF FlightInv
  <2>5. RecordLedger' BY <1>0, <2>1, LedgerKept
  <2> QED BY <2>4, <2>5 DEF LedgerInv
<1>5. CASE \E stage \in {"start", "dropping", "sending", "sent", "unknown"} : Advances(stage)
  BY <1>5, AdvancesLedger
<1>6. CASE ExecuteSave BY <1>0, <1>b, <1>6, SaveExecution, ExecuteLedger
<1>7. CASE OtherExecutes
  <2>1. (active' = active \/ active' = None) /\ sent' = sent BY <1>7 DEF OtherExecutes
  <2>2. op' = op \/ op' = None \/ (op # None /\ op' = [op EXCEPT !.stage = "start"])
    BY <1>7 DEF OtherExecutes
  <2>3. op' = op \/ op' = None \/ op'.stage = "start" BY <1>a, <2>2 DEF Op
  <2>4. FlightInv' BY <1>0, <2>1, <2>3 DEF FlightInv
  <2>5. RecordLedger' BY <1>0, <2>1, LedgerKept
  <2> QED BY <2>4, <2>5 DEF LedgerInv
<1> QED BY <1>0, <1>1, <1>2, <1>3, <1>4, <1>5, <1>6, <1>7, Steps, OtherExecution

(* The account is right in every reachable state. *)
LEMMA LedgerInvariant == Spec => [](Core /\ LedgerInv)
<1>1. Init => LedgerInv
  BY DEF Init, LedgerInv, FlightInv, RecordLedger, EffectAge, AllAccounted, ReceiptsTruthful,
         WaitsForAsked, AnswerToDelivered, FinalOnce
<1>2. Init => Core BY InitShape, RevisedInit, FreshInit, QueueInit DEF Core
<1>3. Core /\ [Next]_vars => Core'
  BY NextShape, RevisedStep, FreshStep, QueueStep DEF Core
<1> QED BY <1>1, <1>2, <1>3, LedgerStep, PTL DEF Spec

(* A run sends at most one final message and nothing after it, whatever     *)
(* fails, crashes or is recovered in between.                               *)
THEOREM OneFinalMessage == Spec => []FinalOnce
<1>1. LedgerInv => FinalOnce BY DEF LedgerInv, RecordLedger
<1> QED BY <1>1, LedgerInvariant, PTL

(* As long as the record exists it accounts for every message of its run.   *)
THEOREM MessagesAreLedgered == Spec => []SentIsLedgered
<1>1. LedgerInv => SentIsLedgered
  BY DEF LedgerInv, RecordLedger, AllAccounted, Accounted, SentIsLedgered, Ledgered
<1> QED BY <1>1, LedgerInvariant, PTL

(* A receipt says `committed` only of a message that did leave.             *)
THEOREM ReceiptsAreTrue == Spec => []ReceiptsTruthful
<1>1. LedgerInv => ReceiptsTruthful BY DEF LedgerInv, RecordLedger
<1> QED BY <1>1, LedgerInvariant, PTL

(* An answer is only ever stored for a question that reached the user.      *)
THEOREM AnswersHaveQuestions == Spec => []AnswerToDelivered
<1>1. LedgerInv => AnswerToDelivered BY DEF LedgerInv, RecordLedger
<1> QED BY <1>1, LedgerInvariant, PTL

-----------------------------------------------------------------------------
(* Removals by expiry.                                                      *)

(* A removal by id and revision was issued for a record past its horizon.   *)
DropsExpired ==
  \A i \in 1 .. Len(pend) : pend[i].by = "drop" /\ active # None /\ active.id = pend[i].id =>
    pend[i].rev <= active.rev /\ (pend[i].rev = active.rev => late = "run")

(* A removal that waits was there before, or is the one just issued. *)
LEMMA DropsKept ==
  ASSUME TypeOK, DropsExpired, active' = active, late = "run" => late' = "run",
         \/ pend' = pend \/ pend' = <<>>
         \/ pend # <<>> /\ pend' = Tail(pend)
         \/ \E req \in Request :
              /\ Issue(req)
              /\ req.by = "drop" /\ active # None /\ active.id = req.id =>
                   req.rev <= active.rev /\ (req.rev = active.rev => late = "run")
  PROVE DropsExpired'
<1> SUFFICES ASSUME NEW i \in 1 .. Len(pend'), pend'[i].by = "drop", active # None,
                    active.id = pend'[i].id
             PROVE pend'[i].rev <= active.rev /\ (pend'[i].rev = active.rev => late = "run")
  BY DEF DropsExpired
<1>1. CASE pend' = pend BY <1>1 DEF DropsExpired
<1>2. CASE pend # <<>> /\ pend' = Tail(pend) BY <1>2, TakeFirst DEF DropsExpired
<1>3. CASE pend' = <<>> BY <1>3
<1>4. ASSUME NEW req \in Request, Issue(req),
             req.by = "drop" /\ active # None /\ active.id = req.id =>
               req.rev <= active.rev /\ (req.rev = active.rev => late = "run")
      PROVE pend'[i].rev <= active.rev /\ (pend'[i].rev = active.rev => late = "run")
  <2>1. Len(pend') = Len(pend) + 1 /\ Len(pend) \in Nat BY <1>4, IssueAppends DEF TypeOK
  <2>2. i \in 1 .. Len(pend) \/ i = Len(pend') BY <2>1
  <2> QED BY <1>4, <2>2, IssueAppends DEF DropsExpired
<1> QED BY <1>1, <1>2, <1>3, <1>4

(* Every removal that waits stays right about the record it names.          *)
LEMMA DropsStep == Core /\ DropsExpired /\ [Next]_vars => DropsExpired'
<1> SUFFICES ASSUME Core, DropsExpired, [Next]_vars PROVE DropsExpired' OBVIOUS
<1>0. IInv /\ TypeOK /\ Revised /\ FreshIds /\ QueueInv BY DEF Core, IInv
<1> USE DEF file, world
<1>1. CASE SaveStep
  <2>1. PICK kind \in SaveKind, n \in Run : Saves(kind, n) BY <1>1 DEF SaveStep
  <2> DEFINE req == [by |-> "op", draft |-> n, expect |-> n.rev]
  <2>2. Issue(req) /\ UNCHANGED <<active, late>> BY <2>1 DEF Saves, Save
  <2>3. req \in Request /\ req.by = "op" BY DEF Request, SaveReq, Run
  <2> HIDE DEF req
  <2> QED BY <1>0, <2>2, <2>3, DropsKept
<1>2. CASE Quiet \/ Enters \/ Restart
  BY <1>0, <1>2, DropsKept DEF Quiet, Enters, Restart
<1>3. CASE Leaves
  <2>1. op # None /\ op.stage # "saving" /\ UNCHANGED <<active, late>> BY <1>3 DEF Leaves
  <2>2. CASE pend' = pend BY <1>0, <2>1, <2>2, DropsKept
  <2>3. CASE op.snap # None /\ late = "run" /\ Issue([by |-> "drop", id |-> op.snap.id, rev |-> op.snap.rev])
    <3> DEFINE req == [by |-> "drop", id |-> op.snap.id, rev |-> op.snap.rev]
    <3>1. op.snap \in Run BY <1>0, <2>1, <2>3, SnapType
    <3>2. req \in Request /\ req.id = op.snap.id /\ req.rev = op.snap.rev /\ req.rev \in Nat
      BY <3>1 DEF Request, DropReq, Run
    <3>3. Issue(req) BY <2>3
    <3> HIDE DEF req
    <3>4. active # None => active.rev = req.rev \/ active.rev = req.rev + 1
      BY <1>0, <2>1, <3>2 DEF QueueInv, Coherent
    <3> QED BY <1>0, <2>1, <2>3, <3>2, <3>3, <3>4, DropsKept
  <2> QED BY <1>3, <2>2, <2>3 DEF Leaves
<1>4. CASE StartActive
  <2> DEFINE req == [by |-> "op", draft |-> NewRun(lastId + 1), expect |-> 0]
  <2>1. Issue(req) /\ UNCHANGED <<active, late>> BY <1>4 DEF StartActive
  <2>2. NewRun(lastId + 1) \in Run BY <1>0, NewRunType DEF TypeOK
  <2>3. req \in Request /\ req.by = "op" BY <2>2 DEF Request, SaveReq
  <2> HIDE DEF req
  <2> QED BY <1>0, <2>1, <2>3, DropsKept
<1>5. CASE \E stage \in {"start", "dropping", "sending", "sent", "unknown"} : Advances(stage)
  <2>1. pend' = pend \/ \E req \in Request : Issue(req) /\ req.by = "startDrop" BY <1>5 DEF Advances
  <2>2. UNCHANGED <<active, late>> BY <1>5 DEF Advances
  <2> QED BY <1>0, <2>1, <2>2, DropsKept
<1>6. CASE \E req \in Request : Issues(req)
  <2>1. PICK req \in Request : Issues(req) BY <1>6
  <2>2. active # None => active.rev \in Nat BY <1>0 DEF TypeOK, Run
  <2>3. Issue(req) /\ UNCHANGED <<active, late>>
        /\ (req.by = "drop" => active # None /\ late = "run" /\ req.rev = active.rev)
    BY <2>1 DEF Issues
  <2> QED BY <1>0, <2>2, <2>3, DropsKept
<1>7. CASE ExecuteSave
  <2>1. SaveExecutes BY <1>0, <1>7, SaveExecution
  <2>2. pend # <<>> /\ pend' = Tail(pend) BY <2>1 DEF SaveExecutes
  <2>3. CASE KeepFile(First) BY <1>0, <2>2, <2>3, DropsKept DEF KeepFile
  <2>4. CASE Write(First)
    <3> DEFINE d == First.draft
    <3>1. d \in Run /\ First.expect \in Nat /\ SaveTakes(d) BY <1>0, <2>1, <2>4, SaveReaches
    <3> HIDE DEF d
    <3>2. active' = [d EXCEPT !.rev = First.expect + 1] BY <3>1 DEF SaveTakes
    <3>3. active'.rev = First.expect + 1 /\ active'.id = d.id BY <3>1, <3>2, RevOnly
    <3>4. DropsExpired'
      <4> SUFFICES ASSUME NEW i \in 1 .. Len(pend'), pend'[i].by = "drop", pend'[i].id = d.id
                   PROVE pend'[i].rev < active'.rev
        <5>1. \A i \in 1 .. Len(pend') : pend'[i].by = "drop" => pend'[i].rev \in Nat
          BY <1>0, NextShape DEF IInv, TypeOK, Request, SaveReq, ChatReq, DropReq, EraseReq, OtherReq
        <5> QED BY <3>1, <3>3, <5>1 DEF DropsExpired
      <4>1. Len(pend') = Len(pend) - 1 /\ pend'[i] = pend[i + 1] /\ i + 1 \in 1 .. Len(pend)
        BY <1>0, <2>2, TakeFirst
      <4>2. Known(d.id) BY <4>1 DEF Known, Dropping
      <4>3. active = op.snap /\ First.expect = active.rev /\ d.id = active.id /\ active # None
        BY <3>1, <4>2 DEF SaveTakes, Evolves
      <4>4. pend[i + 1].rev <= active.rev BY <4>1, <4>3 DEF DropsExpired
      <4>5. pend[i + 1].rev \in Nat
        BY <1>0, <4>1 DEF TypeOK, Request, SaveReq, ChatReq, DropReq, EraseReq, OtherReq
      <4> QED BY <3>1, <3>3, <4>1, <4>3, <4>4, <4>5
    <3> QED BY <3>4
  <2> QED BY <2>1, <2>3, <2>4 DEF SaveExecutes
<1>8. CASE OtherExecutes
  <2>1. pend # <<>> /\ pend' = Tail(pend) BY <1>8 DEF OtherExecutes
  <2>2. CASE active' = None BY <2>2 DEF DropsExpired
  <2>3. CASE UNCHANGED <<active, late>> BY <1>0, <2>1, <2>3, DropsKept
  <2> QED BY <1>8, <2>2, <2>3 DEF OtherExecutes
<1> QED BY <1>0, <1>1, <1>2, <1>3, <1>4, <1>5, <1>6, <1>7, <1>8, Steps, OtherExecution

(* A removal takes a record away only past its horizon: one that was closed *)
(* and renewed after the reader saw it expired is left alone.               *)
THEOREM ExpiryIsExpired == Spec => ExpiryTakesExpired
<1>1. Init => DropsExpired BY DEF Init, DropsExpired
<1>2. Init => Core BY InitShape, RevisedInit, FreshInit, QueueInit DEF Core
<1>3. Core /\ [Next]_vars => Core'
  BY NextShape, RevisedStep, FreshStep, QueueStep DEF Core
<1>4. Core /\ DropsExpired /\ [Next]_vars =>
        (active # None /\ active' = None /\ First.by \in {"drop", "purge"} => late = "run")
  <2> SUFFICES ASSUME Core, DropsExpired, [Next]_vars,
                      active # None, active' = None, First.by \in {"drop", "purge"}
               PROVE late = "run"
    OBVIOUS
  <2>0. IInv /\ TypeOK /\ Revised /\ FreshIds /\ QueueInv BY DEF Core, IInv
  <2>1. ~SaveStep /\ ~Quiet /\ ~Enters /\ ~Leaves /\ ~StartActive /\ ~Restart
    BY DEF SaveStep, Saves, Quiet, Enters, Leaves, StartActive, Restart, file
  <2>2. ~\E stage \in {"start", "dropping", "sending", "sent", "unknown"} : Advances(stage)
    BY DEF Advances, file
  <2>3. ~\E req \in Request : Issues(req) BY DEF Issues, file
  <2>4. ~ExecuteSave BY <2>0, SaveExecution DEF SaveExecutes
  <2>5. OtherExecutes BY <2>0, <2>1, <2>2, <2>3, <2>4, Steps, OtherExecution
  <2>6. /\ pend # <<>> /\ pend' = Tail(pend)
        /\ late = "run" \/ (First.by = "drop" /\ active.id = First.id /\ active.rev = First.rev)
    BY <2>5 DEF OtherExecutes
  <2>7. First = pend[1] /\ 1 \in 1 .. Len(pend) BY <2>0, <2>6, TakeFirst
  <2> QED BY <2>6, <2>7 DEF DropsExpired
<1> QED BY <1>1, <1>2, <1>3, <1>4, DropsStep, PTL DEF Spec, ExpiryTakesExpired

-----------------------------------------------------------------------------
(* The abstract barrier.                                                    *)

(* What CommitBarrier sees of the service. *)
Intent == IF active # None /\ active.effect # None THEN Abstract(active) ELSE None
Flight == IF Delivering THEN Abstract(op.snap) ELSE None
Out == {[run |-> s.run, effect |-> s.effect, purpose |-> s.purpose] : s \in sent}
Booked == IF active # None THEN active.receipts ELSE {}

Stays == UNCHANGED <<Intent, Flight, Out, Booked>>
GivesUp == Flight' = None /\ UNCHANGED <<Intent, Out, Booked>>
Vanishes == Intent' = None /\ Booked' = {} /\ UNCHANGED <<Flight, Out>>
Sends == Flight # None /\ Flight \notin Out /\ Out' = Out \cup {Flight}
         /\ UNCHANGED <<Intent, Flight, Booked>>
Announces ==
  /\ Intent = None /\ Flight = None /\ Intent' \in Announced
  /\ \A o \in Out : o.run = Intent'.run => o.effect < Intent'.effect /\ o.purpose # "final"
  /\ Flight' \in {Intent', None}
  /\ UNCHANGED <<Out, Booked>>
SettlesAs(status) ==
  /\ Intent # None
  /\ status = "committed" => Intent \in Out
  /\ Booked' = Booked \cup {[effect |-> Intent.effect, purpose |-> Intent.purpose, status |-> status]}
  /\ Intent' = None
  /\ Flight' = None \/ (Intent \in Out /\ Flight' = Flight)
  /\ UNCHANGED Out

(* These are the steps of the barrier. *)
LEMMA BarrierSteps ==
  Stays \/ GivesUp \/ Vanishes \/ Sends \/ Announces \/ (\E status \in {"committed", "unknown"} : SettlesAs(status))
    => [Barrier!Next]_(Barrier!vars)
<1>1. CASE Stays BY <1>1 DEF Stays, Intent, Flight, Out, Booked, Barrier!vars
<1>2. CASE GivesUp
  <2>1. Barrier!Abandon BY <1>2 DEF GivesUp, Intent, Flight, Out, Booked, Barrier!Abandon
  <2> QED BY <2>1 DEF Barrier!Next
<1>3. CASE Vanishes
  <2>1. Barrier!Vanish BY <1>3 DEF Vanishes, Intent, Flight, Out, Booked, Barrier!Vanish
  <2> QED BY <2>1 DEF Barrier!Next
<1>4. CASE Sends
  <2>1. Barrier!Send BY <1>4 DEF Sends, Intent, Flight, Out, Booked, Barrier!Send
  <2> QED BY <2>1 DEF Barrier!Next
<1>5. CASE Announces
  <2>1. Barrier!Prepare
    BY <1>5 DEF Announces, Announced, Intent, Flight, Out, Booked, Barrier!Prepare,
                Barrier!Effects, Barrier!Purpose, Purpose
  <2> QED BY <2>1 DEF Barrier!Next
<1>6. CASE \E status \in {"committed", "unknown"} : SettlesAs(status)
  <2>1. Barrier!Settle
    BY <1>6 DEF SettlesAs, Intent, Flight, Out, Booked, Barrier!Settle, Barrier!Outcome
  <2> QED BY <2>1 DEF Barrier!Next
<1> QED BY <1>1, <1>2, <1>3, <1>4, <1>5, <1>6

(* What the barrier sees of the file changes only with the record.          *)
LEMMA ViewKept ==
  /\ sent' = sent => Out' = Out
  /\ active' = active => Intent' = Intent /\ Booked' = Booked
  /\ active' = None => Intent' = None /\ Booked' = {}
  /\ op' = None => Flight' = None
  BY DEF Out, Intent, Booked, Flight, Delivering

(* A save that reaches the file announces, settles or leaves alone.         *)
LEMMA SaveBarrier ==
  ASSUME Core, LedgerInv, SaveExecutes, Write(First)
  PROVE GivesUp \/ Vanishes \/ Announces \/ \E status \in {"committed", "unknown"} : SettlesAs(status)
<1> DEFINE d == First.draft
<1>0. IInv /\ TypeOK /\ Revised /\ FreshIds /\ QueueInv /\ FlightInv /\ RecordLedger
  BY DEF Core, IInv, LedgerInv
<1>1. d \in Run /\ First.expect + 1 \in Nat /\ SaveTakes(d) BY <1>0, SaveReaches
<1> HIDE DEF d
<1>2. active' = [d EXCEPT !.rev = First.expect + 1] BY <1>1 DEF SaveTakes
<1>3. active' # None /\ active'.id = d.id /\ active'.effect = d.effect /\ active'.receipts = d.receipts
  BY <1>1, <1>2, RevOnly
<1>4. op # None /\ op \in Op /\ op.stage = "saving" /\ sent' = sent /\ sent \subseteq Sent
  BY <1>0, SnapType DEF SaveExecutes, world, TypeOK
<1>5. Out' = Out BY <1>4, ViewKept
<1>6. Booked' = d.receipts /\ Intent' = IF d.effect # None THEN Abstract(active') ELSE None
  BY <1>3 DEF Booked, Intent
<1>7. \/ op' = None /\ Flight' = None
      \/ op.kind = "prepare" /\ op'.stage = "deliver" /\ op'.snap = active' /\ Flight' = Abstract(active')
      \/ op.kind = "finish" /\ op'.snap = op.snap /\ Flight' = Flight
  <2>1. CASE op' = None BY <2>1, ViewKept
  <2>2. CASE op.kind = "prepare" /\ op' = [op EXCEPT !.stage = "deliver", !.snap = active']
    <3>1. op' \in Op /\ op'.stage = "deliver" /\ op'.snap = active'
      <4>1. active' \in Run BY <1>1, <1>2, RevOnly
      <4> QED BY <1>4, <2>2, <4>1 DEF Op
    <3>2. op' # None BY <3>1, NoMemoryIsNone
    <3> QED BY <2>2, <3>1, <3>2 DEF Flight, Delivering
  <2>3. CASE op.kind = "finish" /\ op' = [op EXCEPT !.stage = "unknown"]
    <3>1. op' \in Op /\ op'.stage = "unknown" /\ op'.snap = op.snap BY <1>4, <2>3 DEF Op
    <3>2. op' # None BY <3>1, NoMemoryIsNone
    <3> QED BY <1>4, <2>3, <3>1, <3>2 DEF Flight, Delivering
  <2> QED BY <2>1, <2>2, <2>3 DEF SaveExecutes
<1>8. CASE op.kind = "start"
  <2>1. d = NewRun(d.id) /\ d.id \in Nat BY <1>1, <1>8 DEF SaveTakes, Run
  <2>2. d.effect = None /\ d.receipts = {} BY <2>1, NewRunSound
  <2>3. Flight = None BY <1>4, <1>8 DEF Flight, Delivering
  <2> QED BY <1>5, <1>6, <1>7, <1>8, <2>2, <2>3 DEF Vanishes
<1>9. CASE op.kind # "start"
  <2>1. /\ op.snap # None /\ active = op.snap /\ active # None /\ active \in Run
        /\ Evolves(op.kind, active, d)
    BY <1>0, <1>1, <1>9 DEF SaveTakes, TypeOK
  <2>2. d.id = active.id /\ Ledgers(op.kind, active, d) BY <2>1 DEF Evolves
  <2>3. Booked = active.receipts /\ Intent = IF active.effect # None THEN Abstract(active) ELSE None
    BY <2>1 DEF Booked, Intent
  <2>4. op.kind = "finish" => active.effect # None /\ Outgoing(active) \in sent
    BY <1>0, <1>4, <2>1 DEF IInv, OpShape, FlightInv
  <2>5. CASE /\ d.effect = active.effect /\ d.receipts = active.receipts
             /\ op.kind # "prepare" /\ (op.kind = "finish" => active.effect = None)
    <3>1. Flight' = None BY <1>7, <2>4, <2>5
    <3>2. Intent' = Intent BY <1>3, <1>6, <2>2, <2>3, <2>5 DEF Abstract
    <3> QED BY <1>5, <1>6, <2>3, <2>5, <3>1, <3>2 DEF GivesUp
  <2>6. CASE /\ op.kind = "prepare" /\ active.effect = None /\ active.status = "running"
             /\ d.effect # None /\ d.effect.id = active.rev + 1 /\ d.receipts = active.receipts
    <3>1. Intent = None /\ Flight = None BY <1>4, <2>3, <2>6 DEF Flight, Delivering
    <3>2. /\ Intent'.run = active.id /\ Intent'.effect = active.rev + 1
          /\ Intent' \in Announced /\ Intent' = Abstract(active')
      <4>1. d.effect \in Effect /\ active.id \in Nat BY <1>1, <2>1, <2>6 DEF Run
      <4> QED BY <1>3, <1>6, <2>2, <2>6, <4>1 DEF Abstract, Announced, Effect
    <3>3. ASSUME NEW o \in Out, o.run = active.id
          PROVE o.effect < active.rev + 1 /\ o.purpose # "final"
      <4>1. PICK s \in sent : o = [run |-> s.run, effect |-> s.effect, purpose |-> s.purpose]
        BY DEF Out
      <4>2. s.run = active.id /\ o.effect = s.effect /\ o.purpose = s.purpose BY <3>3, <4>1
      <4>3. Accounted(active, s) BY <1>0, <2>1, <4>2 DEF RecordLedger, AllAccounted
      <4>4. s.effect \in Nat /\ active.rev \in Nat BY <1>4, <2>1 DEF Sent, Run
      <4>5. ~Terminal(active) BY <2>6 DEF Terminal, TerminalStatus
      <4> QED BY <2>6, <4>2, <4>3, <4>4, <4>5 DEF Accounted
    <3>4. Flight' \in {Intent', None} BY <1>7, <2>6, <3>2
    <3> QED BY <1>5, <1>6, <2>3, <2>6, <3>1, <3>2, <3>3, <3>4 DEF Announces
  <2>7. CASE /\ active.effect # None /\ d.effect = None /\ op.kind # "prepare"
             /\ \E status \in {"committed", "unknown"} :
                  /\ status = "committed" => op.kind = "finish"
                  /\ d.receipts = active.receipts \cup {ReceiptOf(active, status)}
    <3>1. PICK status \in {"committed", "unknown"} :
            /\ status = "committed" => op.kind = "finish"
            /\ d.receipts = active.receipts \cup {ReceiptOf(active, status)}
      BY <2>7
    <3>2. Intent = Abstract(active) /\ Intent # None /\ Intent' = None
      <4>1. Abstract(active) \in Announced BY <2>1, <2>7 DEF Abstract, Announced, Run, Effect
      <4> QED BY <1>6, <2>3, <2>7, <4>1, NoMemoryIsNone
    <3>3. Intent.effect = active.effect.id /\ Intent.purpose = active.effect.purpose
      BY <3>2 DEF Abstract
    <3>4. op.kind = "finish" => Intent \in Out BY <2>4, <3>2 DEF Out, Outgoing, Abstract
    <3>5. Flight' = None \/ (Intent \in Out /\ Flight' = Flight) BY <1>7, <2>7, <3>4
    <3>6. SettlesAs(status)
      BY <1>5, <1>6, <2>3, <3>1, <3>2, <3>3, <3>4, <3>5 DEF SettlesAs, ReceiptOf
    <3> QED BY <3>6
  <2> QED BY <2>2, <2>5, <2>6, <2>7 DEF Ledgers
<1> QED BY <1>8, <1>9

(* Every step of the service does one of these to what the barrier sees.     *)
LEMMA BarrierSorts ==
  ASSUME Core, LedgerInv, [Next]_vars
  PROVE Stays \/ GivesUp \/ Vanishes \/ Sends \/ Announces
        \/ \E status \in {"committed", "unknown"} : SettlesAs(status)
<1>0. IInv /\ TypeOK /\ Revised /\ FlightInv BY DEF Core, IInv, LedgerInv
<1>a. op # None => op \in Op BY <1>0, SnapType
<1>b. ASSUME active' = active, sent' = sent, Flight' = Flight PROVE Stays BY <1>b, ViewKept DEF Stays
<1>c. ASSUME active' = active, sent' = sent, Flight' = None PROVE GivesUp BY <1>c, ViewKept DEF GivesUp
<1> USE DEF file, world
<1>1. CASE SaveStep
  <2>1. PICK kind \in SaveKind, n \in Run : Saves(kind, n) BY <1>1 DEF SaveStep
  <2>2. /\ op # None /\ op.stage = StageOf(kind) /\ op' = [op EXCEPT !.stage = "saving", !.kind = kind]
        /\ active' = active /\ sent' = sent
    BY <2>1 DEF Saves, Save
  <2>3. op' \in Op /\ op'.stage = "saving" /\ op'.kind = kind /\ op'.snap = op.snap BY <1>a, <2>2 DEF Op
  <2>4. op' # None BY <2>3, NoMemoryIsNone
  <2>5. Delivering' <=> Delivering BY <2>2, <2>3, <2>4 DEF Delivering, StageOf
  <2>6. Flight' = Flight BY <2>3, <2>5 DEF Flight
  <2> QED BY <1>b, <2>2, <2>6
<1>2. CASE Quiet \/ \E req \in Request : Issues(req)
  <2>1. op' = op /\ active' = active /\ sent' = sent BY <1>2 DEF Quiet, Issues
  <2>2. Flight' = Flight BY <2>1 DEF Flight, Delivering
  <2> QED BY <1>b, <2>1, <2>2
<1>3. CASE Enters \/ Leaves \/ Restart
  <2>1. (op' = None \/ op'.stage = "loaded") /\ active' = active /\ sent' = sent
    BY <1>3 DEF Enters, Leaves, Restart
  <2>2. Flight' = None BY <2>1 DEF Flight, Delivering
  <2> QED BY <1>c, <2>1, <2>2
<1>4. CASE StartActive
  <2>1. op # None /\ op.stage = "start" /\ op' = [op EXCEPT !.stage = "saving"]
        /\ active' = active /\ sent' = sent
    BY <1>4 DEF StartActive
  <2>2. op.kind = "start" BY <1>0, <2>1 DEF IInv, OpShape
  <2>3. op'.stage = "saving" /\ op'.kind = "start" BY <1>a, <2>1, <2>2 DEF Op
  <2>4. Flight' = None BY <2>3 DEF Flight, Delivering
  <2> QED BY <1>c, <2>1, <2>4
<1>5. CASE \E stage \in {"start", "dropping", "sending", "sent", "unknown"} : Advances(stage)
  <2>1. PICK stage \in {"start", "dropping", "sending", "sent", "unknown"} : Advances(stage) BY <1>5
  <2>2. op # None /\ op' = [op EXCEPT !.stage = stage] /\ active' = active BY <2>1 DEF Advances
  <2>3. op' \in Op /\ op'.stage = stage /\ op'.kind = op.kind /\ op'.snap = op.snap
    BY <1>a, <2>2 DEF Op
  <2>4. op' # None BY <2>3, NoMemoryIsNone
  <2>5. Delivering' <=> Delivering BY <2>1, <2>2, <2>3, <2>4 DEF Delivering, Advances
  <2>6. Flight' = Flight BY <2>3, <2>5 DEF Flight
  <2>7. CASE sent' = sent BY <1>b, <2>2, <2>6, <2>7
  <2>8. CASE op.stage = "sending" /\ sent' = sent \cup {Outgoing(op.snap)}
    <3>1. op.snap \in Run /\ op.snap.effect # None
      BY <1>0, <2>2, <2>8, SnapType DEF IInv, OpShape, CommitStage
    <3>2. Flight = Abstract(op.snap) /\ Flight \in Announced
      <4>1. Abstract(op.snap) \in Announced BY <3>1 DEF Abstract, Announced, Run, Effect
      <4> QED BY <2>2, <2>8, <4>1 DEF Flight, Delivering
    <3>3. Flight # None BY <3>2, NoMemoryIsNone
    <3>4. Flight \notin Out
      <4> SUFFICES ASSUME NEW s \in sent,
                          Flight = [run |-> s.run, effect |-> s.effect, purpose |-> s.purpose]
                   PROVE FALSE
        BY DEF Out
      <4>1. s.run = op.snap.id /\ s.effect = op.snap.effect.id BY <3>2 DEF Abstract
      <4>2. s.effect < op.snap.effect.id BY <1>0, <2>2, <2>8, <4>1 DEF FlightInv
      <4>3. s.effect \in Nat BY <1>0 DEF TypeOK, Sent
      <4> QED BY <4>1, <4>2, <4>3
    <3>5. Out' = Out \cup {Flight}
      <4> DEFINE o == Outgoing(op.snap)
      <4>1. Flight = [run |-> o.run, effect |-> o.effect, purpose |-> o.purpose]
        BY <3>2 DEF Abstract, Outgoing
      <4>2. sent' = sent \cup {o} BY <2>8
      <4> HIDE DEF o
      <4>3. Out' = {[run |-> s.run, effect |-> s.effect, purpose |-> s.purpose] : s \in sent \cup {o}}
        BY <4>2 DEF Out
      <4> QED BY <4>1, <4>3 DEF Out
    <3> QED BY <2>2, <2>6, <3>3, <3>4, <3>5, ViewKept DEF Sends
  <2> QED BY <2>1, <2>7, <2>8 DEF Advances
<1>6. CASE ExecuteSave
  <2>1. SaveExecutes BY <1>0, <1>6, SaveExecution
  <2>2. CASE Write(First) BY <2>1, <2>2, SaveBarrier
  <2>3. CASE KeepFile(First) /\ ~Write(First)
    <3>1. active' = active /\ sent' = sent /\ op # None /\ op.stage = "saving"
      BY <2>1, <2>3 DEF KeepFile, SaveExecutes
    <3>2. CASE op' = None BY <1>c, <3>1, <3>2, ViewKept
    <3>3. CASE op.kind = "finish" /\ op' = [op EXCEPT !.stage = "unknown"]
      <4>1. op' \in Op /\ op'.stage = "unknown" /\ op'.snap = op.snap BY <1>a, <3>1, <3>3 DEF Op
      <4>2. op' # None BY <4>1, NoMemoryIsNone
      <4>3. Flight' = Flight BY <3>1, <3>3, <4>1, <4>2 DEF Flight, Delivering
      <4> QED BY <1>b, <3>1, <4>3
    <3> QED BY <2>1, <2>3, <3>2, <3>3 DEF SaveExecutes
  <2> QED BY <2>1, <2>2, <2>3 DEF SaveExecutes
<1>7. CASE OtherExecutes
  <2>1. (active' = active \/ active' = None) /\ sent' = sent BY <1>7 DEF OtherExecutes
  <2>2. Flight' = Flight
    <3>1. CASE op' = op BY <3>1 DEF Flight, Delivering
    <3>2. CASE /\ op # None /\ op.stage = "dropping"
               /\ op' = None \/ op' = [op EXCEPT !.stage = "start"]
      <4>1. op' = None \/ op'.stage = "start" BY <1>a, <3>2 DEF Op
      <4> QED BY <3>2, <4>1 DEF Flight, Delivering
    <3> QED BY <1>7, <3>1, <3>2 DEF OtherExecutes
  <2>3. CASE active' = active BY <1>b, <2>1, <2>2, <2>3
  <2>4. CASE active' = None BY <2>1, <2>2, <2>4, ViewKept DEF Vanishes
  <2> QED BY <2>1, <2>3, <2>4
<1> QED BY <1>0, <1>1, <1>2, <1>3, <1>4, <1>5, <1>6, <1>7, Steps, OtherExecution

(* The record, the queue and the transport implement the abstract barrier   *)
(* in every environment: an effect is recorded before it is sent, sent at   *)
(* most once, and leaves the record only into a receipt or with the record. *)
THEOREM BarrierIsKept == Spec => ImplementsBarrier
<1>1. Init => Barrier!Init
  BY DEF Init, Barrier!Init, Delivering
<1>2. Core /\ LedgerInv /\ [Next]_vars => [Barrier!Next]_(Barrier!vars)
  BY BarrierSorts, BarrierSteps
<1> QED BY <1>1, <1>2, LedgerInvariant, PTL DEF Spec, ImplementsBarrier, Barrier!Spec

(* The effect in delivery is newer than everything its run has sent, unless  *)
(* it has left itself; that is why nothing can follow a final message.       *)
Newest ==
  /\ Out \subseteq Announced
  /\ Flight # None =>
       /\ Flight \in Announced
       /\ \A o \in Out : o.run = Flight.run =>
            o = Flight \/ (o.effect < Flight.effect /\ o.purpose # "final")
LastWord == \A o, p \in Out : o.run = p.run /\ o.purpose = "final" => p.effect <= o.effect

(* Whatever happens to the record, this stays.                              *)
LEMMA LastWordKept ==
  ASSUME Newest, LastWord,
         Stays \/ GivesUp \/ Vanishes \/ Sends \/ Announces
           \/ \E status \in {"committed", "unknown"} : SettlesAs(status)
  PROVE Newest' /\ LastWord'
<1>1. ASSUME Out' = Out, Flight' = Flight \/ Flight' = None PROVE Newest' /\ LastWord'
  BY <1>1 DEF Newest, LastWord
<1>2. CASE Sends
  <2>1. Flight \in Announced /\ Out' = Out \cup {Flight} /\ Flight' = Flight
    BY <1>2 DEF Sends, Newest
  <2>2. \A o \in Out : o.run = Flight.run => o.effect < Flight.effect /\ o.purpose # "final"
    BY <1>2 DEF Sends, Newest
  <2>3. \A o \in Out \cup {Flight} : o.effect \in Nat BY <2>1 DEF Newest, Announced
  <2>4. Newest' BY <2>1, <2>2 DEF Newest
  <2>5. LastWord' BY <2>1, <2>2, <2>3 DEF LastWord
  <2> QED BY <2>4, <2>5
<1>3. CASE Announces
  <2>1. Out' = Out /\ (Flight' = Intent' \/ Flight' = None) /\ Intent' \in Announced
        /\ \A o \in Out : o.run = Intent'.run => o.effect < Intent'.effect /\ o.purpose # "final"
    BY <1>3 DEF Announces
  <2> QED BY <2>1 DEF Newest, LastWord
<1>4. CASE Stays \/ GivesUp \/ Vanishes BY <1>1, <1>4 DEF Stays, GivesUp, Vanishes
<1>5. CASE \E status \in {"committed", "unknown"} : SettlesAs(status)
  BY <1>1, <1>5 DEF SettlesAs
<1> QED BY <1>2, <1>3, <1>4, <1>5

(* A run's final message is the last of its messages that leave: nothing     *)
(* follows it out of an abandoned delivery, after a restart, or for a record *)
(* that expired or was erased meanwhile.                                     *)
THEOREM NothingAfterFinal == Spec => []Barrier!FinalLast
<1>1. Init => Newest /\ LastWord
  BY DEF Init, Newest, LastWord, Out, Flight, Delivering
<1>2. Core /\ LedgerInv /\ [Next]_vars /\ Newest /\ LastWord => Newest' /\ LastWord'
  BY BarrierSorts, LastWordKept
<1>3. LastWord => Barrier!FinalLast BY DEF LastWord, Out, Barrier!FinalLast
<1> QED BY <1>1, <1>2, <1>3, LedgerInvariant, PTL DEF Spec
=============================================================================
