------------------------- MODULE ReplyReviewProofs -------------------------
(***************************************************************************)
(* Proofs about ReplyReview, for any number of drafts, operators and       *)
(* failing audit writes and for either store.                              *)
(***************************************************************************)
EXTENDS ReplyReview, TLAPS

Row == [draft : Drafts, status : {"queued", "cancelled", "blocked"},
        queued_by : Requests, cancelled_by : Requests \cup {None},
        blocked_by : Requests \cup {None}]

-----------------------------------------------------------------------------
(* The inductive invariant                                                  *)

(* What was done is explained, or its handler is about to write the audit.  *)
Owed(action, id, by) ==
  /\ by \in Requests
  /\ \/ Explained(action, id, by)
     \/ pc[by] = "audit" /\ doing[by] = [kind |-> action, id |-> id]

DraftsOwed ==
  \A d \in Drafts :
    /\ draft[d].status = "approved" => Owed("approved", d, draft[d].approved_by)
    /\ draft[d].status = "rejected" => Owed("rejected", d, draft[d].rejected_by)

RowsOwed ==
  \A i \in DOMAIN outbox :
    /\ Owed("queued", i, outbox[i].queued_by)
    /\ outbox[i].status = "cancelled" =>
         Owed("cancelled", i, outbox[i].cancelled_by)
    /\ outbox[i].status = "blocked" => Owed("blocked", i, outbox[i].blocked_by)

(* A handler that may answer, or has, wrote its audit row; who has not      *)
(* begun has done nothing.                                                  *)
AnswersAudited ==
  \A r \in Requests :
    /\ pc[r] = "idle" => doing[r] = Nothing
    /\ pc[r] = "answer" => Audited(doing[r].kind, doing[r].id, r)
    /\ answer[r] # NoAnswer => pc[r] = "done"
    /\ answer[r].status \in Kinds => Audited(answer[r].status, doing[r].id, r)

(* Every decision and every end of a row is the doing of some request.      *)
Authored ==
  /\ \A d \in Drafts : draft[d].status # "pending" =>
       \E q \in Requests : Did(q, draft[d].status, d)
  /\ \A i \in DOMAIN outbox : outbox[i].status # "queued" =>
       \E q \in Requests : Did(q, outbox[i].status, i)

(* What handler r is going to answer: its subject is past the staging state *)
(* it found it in, and the copy it holds says what r or another did to it.  *)
Tells(r) ==
  /\ doing[r].kind \in Decisions => draft[doing[r].id].status # "pending"
  /\ doing[r].kind \in {"cancelled", "blocked"} =>
       outbox[doing[r].id].status # "queued"
  /\ \/ held[r] = doing[r].kind
     \/ /\ doing[r].kind = "queued" /\ held[r] \in {"cancelled", "blocked"}
        /\ \E q \in Requests \ {r} : Did(q, held[r], doing[r].id)

Told == \A r \in Requests : pc[r] \in {"audit", "answer"} => Tells(r)

IInv ==
  /\ OneRowPerDraft /\ QueuedWasApproved
  /\ DraftsOwed /\ RowsOwed
  /\ AnswersAudited
  /\ Authored
  /\ Told /\ AnswerExplained

-----------------------------------------------------------------------------
(* Lemmas about the outbox                                                  *)

(* A row of the outbox, and the outbox with that row replaced.              *)
LEMMA RowFacts ==
  ASSUME NEW q \in Seq(Row), NEW i \in DOMAIN q
  PROVE  /\ i \in Nat /\ i # Len(q) + 1
         /\ q[i] \in Row /\ q[i].status \in {"queued", "cancelled", "blocked"}
         /\ \A row \in Row : /\ [q EXCEPT ![i] = row] \in Seq(Row)
                             /\ DOMAIN [q EXCEPT ![i] = row] = DOMAIN q
                             /\ Len([q EXCEPT ![i] = row]) = Len(q)
<1>1. Len(q) \in Nat /\ DOMAIN q = 1 .. Len(q) /\ i \in 1 .. Len(q)
  OBVIOUS
<1>2. q[i] \in Row /\ i \in Nat
  BY <1>1
<1>3. q[i].status \in {"queued", "cancelled", "blocked"}
  BY <1>2 DEF Row
<1>4. ASSUME NEW row \in Row
      PROVE  /\ [q EXCEPT ![i] = row] \in Seq(Row)
             /\ DOMAIN [q EXCEPT ![i] = row] = DOMAIN q
             /\ Len([q EXCEPT ![i] = row]) = Len(q)
  BY <1>1
<1> QED
  BY <1>1, <1>2, <1>3, <1>4

LEMMA Statuses ==
  ASSUME TypeOK
  PROVE  /\ \A d \in Drafts : draft[d].status # "pending" => draft[d].status \in Kinds
         /\ \A i \in DOMAIN outbox : outbox[i].status \in Kinds
BY RowFacts DEF TypeOK, Row, Kinds, Decisions

(* What the outbox has become after queue-send: one more row, or the same   *)
(* rows; and draft d has a row in it.                                       *)
LEMMA QueueFacts ==
  ASSUME NEW d \in Drafts, NEW r \in Requests, outbox \in Seq(Row)
  PROVE  LET q == OutboxWith(d, r) IN
         /\ q \in Seq(Row)
         /\ \E i \in DOMAIN q : q[i].draft = d
         /\ \A i \in DOMAIN outbox : i \in DOMAIN q /\ q[i] = outbox[i]
         /\ q = outbox \/ /\ RowsOf(d) = {}
                          /\ DOMAIN q = DOMAIN outbox \cup {Len(outbox) + 1}
                          /\ q[Len(outbox) + 1] = NewRow(d, r)
<1>1. NewRow(d, r) \in Row
  BY DEF NewRow, Row
<1>2. CASE RowsOf(d) = {}
  <2> DEFINE q == Append(outbox, NewRow(d, r))
  <2>1. OutboxWith(d, r) = q
    BY <1>2 DEF OutboxWith
  <2>2. /\ q \in Seq(Row) /\ Len(q) = Len(outbox) + 1
        /\ \A i \in 1 .. Len(outbox) : q[i] = outbox[i]
        /\ q[Len(outbox) + 1] = NewRow(d, r)
    BY <1>1
  <2>3. Len(outbox) \in Nat /\ DOMAIN outbox = 1 .. Len(outbox)
        /\ DOMAIN q = 1 .. Len(q)
    BY <2>2
  <2>4. NewRow(d, r).draft = d
    BY DEF NewRow
  <2> HIDE DEF q
  <2> QED
    BY <1>2, <2>1, <2>2, <2>3, <2>4
<1>3. CASE RowsOf(d) # {}
  <2>1. OutboxWith(d, r) = outbox
    BY <1>3 DEF OutboxWith
  <2>2. \E i \in DOMAIN outbox : outbox[i].draft = d
    BY <1>3 DEF RowsOf
  <2> QED
    BY <2>1, <2>2
<1> QED
  BY <1>2, <1>3

-----------------------------------------------------------------------------
(* Every variable keeps its shape: the type invariant of ReplyReview.       *)
THEOREM TypeInvariant == Spec => []TypeOK
<1> USE ReviewAssumption DEF Kinds, Decisions
<1>1. Init => TypeOK
  BY DEF Init, TypeOK, NewDraft, Nothing, NoAnswer
<1>2. TypeOK /\ [Next]_vars => TypeOK'
  <2> SUFFICES ASSUME TypeOK, [Next]_vars PROVE TypeOK'
    OBVIOUS
  <2>1. ASSUME NEW r \in Requests, NEW d \in Drafts, NEW decision \in Decisions,
               Review(r, d, decision)
        PROVE  TypeOK'
    <3>1. draft[d] \in [status : {"pending"} \cup Decisions,
                        approved_by : Requests \cup {None},
                        rejected_by : Requests \cup {None}]
      BY DEF TypeOK
    <3>2. Reviewed(draft[d], decision, r) \in
            [status : {"pending"} \cup Decisions,
             approved_by : Requests \cup {None},
             rejected_by : Requests \cup {None}]
      BY <3>1 DEF Reviewed
    <3> QED
      BY <2>1, <3>2 DEF TypeOK, Review, Begin
  <2>2. ASSUME NEW r \in Requests, NEW d \in Drafts, QueueApproved(r, d)
        PROVE  TypeOK'
    <3> DEFINE i == CHOOSE i \in DOMAIN outbox' : outbox'[i].draft = d
    <3>1. outbox \in Seq(Row)
      BY DEF Row, TypeOK
    <3>2. outbox' = OutboxWith(d, r)
      BY <2>2 DEF QueueApproved
    <3>3. /\ outbox' \in Seq(Row)
          /\ \E j \in DOMAIN outbox' : outbox'[j].draft = d
          /\ DOMAIN outbox \subseteq DOMAIN outbox'
      BY <3>1, <3>2, QueueFacts
    <3>4. i \in DOMAIN outbox'
      BY <3>3
    <3>5. i \in Nat /\ outbox'[i].status \in {"queued", "cancelled", "blocked"}
      BY <3>3, <3>4, RowFacts
    <3>6. Begin(r, "queued", i, outbox'[i].status, "audit")
          /\ UNCHANGED <<store, draft, audits, answer, faults>>
      BY <2>2 DEF QueueApproved
    <3> HIDE DEF i
    <3> QED
      BY <3>3, <3>4, <3>5, <3>6 DEF Begin, Row, TypeOK
  <2>3. ASSUME NEW r \in Requests, Refuse(r)
        PROVE  TypeOK'
    BY <2>3 DEF TypeOK, Refuse, NoAnswer
  <2>4. ASSUME NEW r \in Requests, NEW i \in DOMAIN outbox, Cancel(r, i)
        PROVE  TypeOK'
    <3> DEFINE row == [outbox[i] EXCEPT !.status = "cancelled", !.cancelled_by = r]
    <3>1. outbox \in Seq(Row)
      BY DEF TypeOK, Row
    <3>2. i \in Nat /\ outbox[i] \in Row
      BY <3>1, RowFacts
    <3>3. row \in Row
      BY <3>2 DEF Row
    <3>4. outbox' = [outbox EXCEPT ![i] = row]
      BY <2>4, <3>1 DEF Cancel
    <3> HIDE DEF row
    <3>5. outbox' \in Seq(Row) /\ DOMAIN outbox' = DOMAIN outbox
      BY <3>1, <3>3, <3>4, RowFacts
    <3> QED
      BY <2>4, <3>2, <3>5 DEF TypeOK, Cancel, Begin, Row
  <2>5. ASSUME NEW r \in Requests, NEW i \in DOMAIN outbox, ReadItem(r, i)
        PROVE  TypeOK'
    <3>1. outbox \in Seq(Row)
      BY DEF TypeOK, Row
    <3>2. i \in Nat /\ outbox[i].status \in {"queued", "cancelled", "blocked"}
      BY <3>1, RowFacts
    <3> QED
      BY <2>5, <3>2 DEF TypeOK, ReadItem, Begin
  <2>6. ASSUME NEW r \in Requests, MarkBlocked(r)
        PROVE  TypeOK'
    <3>1. outbox \in Seq(Row)
      BY DEF TypeOK, Row
    <3>2. doing[r].id \in DOMAIN outbox
      BY <2>6 DEF TypeOK, MarkBlocked
    <3>3. \A row \in Row : Blocked(row, r) \in Row
      <4>1. ASSUME NEW row \in Row PROVE Blocked(row, r) \in Row
        <5>1. (IF store = "memory" THEN None ELSE row.cancelled_by)
                \in Requests \cup {None}
          BY DEF Row
        <5> QED
          BY <5>1 DEF Blocked, Row
      <4> QED
        BY <4>1
    <3>4. Blocked(outbox[doing[r].id], r) \in Row
      BY <3>1, <3>2, <3>3, RowFacts
    <3>5. outbox' = [outbox EXCEPT ![doing[r].id] = Blocked(outbox[doing[r].id], r)]
      BY <2>6, <3>1 DEF MarkBlocked
    <3>6. outbox' \in Seq(Row) /\ DOMAIN outbox' = DOMAIN outbox
      BY <3>1, <3>2, <3>4, <3>5, RowFacts
    <3> QED
      BY <2>6, <3>6 DEF TypeOK, MarkBlocked, Row
  <2>7. ASSUME NEW r \in Requests, WriteAudit(r)
        PROVE  TypeOK'
    BY <2>7 DEF TypeOK, WriteAudit
  <2>8. ASSUME NEW r \in Requests, CallFails(r)
        PROVE  TypeOK'
    <3>1. doing' \in [Requests -> [kind : Kinds \cup {"none"}, id : Drafts \cup Nat]]
      <4>1. Nothing \in [kind : Kinds \cup {"none"}, id : Drafts \cup Nat]
        BY DEF Nothing
      <4> QED
        BY <2>8, <4>1 DEF TypeOK, CallFails
    <3>2. \A q \in Requests :
            /\ pc'[q] \in {"mark", "audit", "answer"} => pc'[q] = pc[q] /\ doing'[q] = doing[q]
            /\ pc'[q] \in {"idle", "mark", "audit", "answer", "done"}
      BY <2>8 DEF TypeOK, CallFails
    <3>3. /\ UNCHANGED <<store, draft, outbox, held>> /\ faults' \in Nat
          /\ pc' \in [Requests -> {"idle", "mark", "audit", "answer", "done"}]
      BY <2>8 DEF TypeOK, CallFails
    <3>4. answer' \in [Requests -> [status : Kinds \cup {"none", "server_error"},
                                   row : Kinds \cup {"none", "pending"}]]
      BY <2>8 DEF TypeOK, CallFails, NoAnswer
    <3> QED
      BY <3>1, <3>2, <3>3, <3>4 DEF TypeOK
  <2>9. ASSUME NEW r \in Requests, Respond(r)
        PROVE  TypeOK'
    <3>1. pc[r] = "answer"
      BY <2>9 DEF Respond, Answerable
    <3>2. Subject(r) \in Kinds \cup {"none", "pending"}
      <4>1. \A d \in Drafts : draft[d].status \in {"pending"} \cup Decisions
        BY DEF TypeOK
      <4>2. \A i \in DOMAIN outbox :
              outbox[i].status \in {"queued", "cancelled", "blocked"}
        BY RowFacts DEF TypeOK, Row
      <4>3. \/ doing[r].kind \in Decisions /\ doing[r].id \in Drafts
            \/ doing[r].kind \in Kinds \ Decisions /\ doing[r].id \in DOMAIN outbox
        BY <3>1 DEF TypeOK
      <4> QED
        BY <4>1, <4>2, <4>3 DEF Subject
    <3>3. doing[r].kind \in Kinds /\ held[r] \in Kinds \cup {"none", "pending"}
      BY <3>1 DEF TypeOK
    <3> QED
      BY <2>9, <3>2, <3>3 DEF TypeOK, Respond, Seen
  <2>10. CASE UNCHANGED vars
    BY <2>10 DEF TypeOK, vars
  <2> QED
    BY <2>7, <2>8, <2>9, <2>10, <2>1, <2>2, <2>3, <2>4, <2>5, <2>6
       DEF Next, Start, Continue
<1> QED
  BY <1>1, <1>2, PTL DEF Spec

-----------------------------------------------------------------------------
(* How handler r goes on                                                    *)

(* What all of its steps have in common, whatever they do to the tables.    *)
Going(r) ==
  /\ \A q \in Requests \ {r} : /\ pc'[q] = pc[q] /\ doing'[q] = doing[q]
                              /\ held'[q] = held[q] /\ answer'[q] = answer[q]
  /\ pc[r] # "done" /\ pc'[r] # "idle"
  /\ pc[r] \in {"audit", "answer"} =>
       doing'[r] = doing[r] /\ held'[r] = held[r] /\ pc'[r] \in {"answer", "done"}
  /\ pc[r] = "audit" =>
       \/ pc'[r] = "answer" /\ Entry(r) \in audits'
       \/ faults' > 0 /\ answer'[r].status = "server_error" /\ pc'[r] = "done"
  /\ pc'[r] = "answer" => pc[r] = "audit"
  /\ answer'[r] # answer[r] => pc'[r] = "done"
  /\ answer'[r] # answer[r] /\ answer'[r].status \in Kinds =>
       /\ pc[r] = "answer" /\ answer'[r].status = doing[r].kind
       /\ answer'[r].row = Seen(r)
  /\ audits \subseteq audits' /\ store' = store
  /\ faults > 0 => faults' > 0

LEMMA StepsGo ==
  ASSUME NEW r \in Requests, TypeOK, Start(r) \/ Continue(r)
  PROVE  Going(r)
<1> USE DEF Going
<1>1. ASSUME NEW kind, NEW id, NEW status, NEW next, Begin(r, kind, id, status, next),
             next \in {"mark", "audit"}, UNCHANGED <<store, audits, answer, faults>>
      PROVE  Going(r)
  BY <1>1 DEF TypeOK, Begin
<1>2. CASE \E d \in Drafts, decision \in Decisions : Review(r, d, decision)
  BY <1>1, <1>2 DEF Review
<1>3. CASE \E d \in Drafts : QueueApproved(r, d)
  BY <1>1, <1>3 DEF QueueApproved
<1>4. CASE \E i \in DOMAIN outbox : Cancel(r, i) \/ ReadItem(r, i)
  BY <1>1, <1>4 DEF Cancel, ReadItem
<1>5. CASE Refuse(r)
  BY <1>5 DEF TypeOK, Refuse, NoAnswer, Kinds, Decisions
<1>6. CASE MarkBlocked(r)
  BY <1>6 DEF TypeOK, MarkBlocked
<1>7. CASE WriteAudit(r)
  BY <1>7 DEF TypeOK, WriteAudit
<1>8. CASE CallFails(r)
  BY <1>8 DEF TypeOK, CallFails, NoAnswer, Kinds, Decisions
<1>9. CASE Respond(r)
  BY <1>9 DEF TypeOK, Respond, Answerable
<1> QED
  BY <1>2, <1>3, <1>4, <1>5, <1>6, <1>7, <1>8, <1>9 DEF Start, Continue

(* What was done stays done.                                                *)
LEMMA DidKept ==
  ASSUME NEW r \in Requests, TypeOK, IInv, Going(r)
  PROVE  \A q \in Requests, kind \in Kinds : \A id : Did(q, kind, id) => Did(q, kind, id)'
<1> SUFFICES ASSUME NEW q \in Requests, NEW kind \in Kinds, NEW id, Did(q, kind, id)
             PROVE  Did(q, kind, id)'
  OBVIOUS
<1>1. CASE q # r
  BY <1>1 DEF Going, Did
<1>2. CASE q = r
  <2>1. pc[r] # "idle"
    BY <1>2 DEF IInv, AnswersAudited, Did, Nothing, Kinds, Decisions
  <2>2. pc[r] \in {"audit", "answer"}
    BY <1>2, <2>1 DEF Going, Did, TypeOK
  <2> QED
    BY <1>2, <2>2 DEF Going, Did
<1> QED
  BY <1>1, <1>2

(* What was explained or owed stays so.                                     *)
LEMMA OwedKept ==
  ASSUME NEW r \in Requests, TypeOK, IInv, Going(r)
  PROVE  /\ \A action, id, by : Audited(action, id, by) => Audited(action, id, by)'
         /\ \A action \in Kinds : \A id, by : Owed(action, id, by) => Owed(action, id, by)'
<1>1. \A action, id, by : Audited(action, id, by) => Audited(action, id, by)'
  BY DEF Going, Audited
<1>2. ASSUME NEW action \in Kinds, NEW id, NEW by, Owed(action, id, by)
      PROVE  Owed(action, id, by)'
  <2>1. CASE Audited(action, id, by)
    BY <1>1, <1>2, <2>1 DEF Owed, Explained
  <2>2. CASE faults > 0 /\ answer[by].status = "server_error" /\ Did(by, action, id)
    <3>1. pc[by] = "done"
      BY <1>2, <2>2 DEF IInv, AnswersAudited, NoAnswer, Owed
    <3>2. by # r /\ answer'[by] = answer[by] /\ faults' > 0
      BY <1>2, <2>2, <3>1 DEF Going, Owed
    <3>3. Did(by, action, id)'
      BY <1>2, <2>2, DidKept DEF Owed
    <3> QED
      BY <1>2, <2>2, <3>2, <3>3 DEF Owed, Explained
  <2>3. CASE pc[by] = "audit" /\ doing[by] = [kind |-> action, id |-> id]
    <3>1. CASE by # r
      BY <1>2, <2>3, <3>1 DEF Going, Owed
    <3>2. CASE by = r /\ pc'[r] = "answer" /\ Entry(r) \in audits'
      <4>1. Entry(r).action = action /\ Entry(r).id = id /\ Entry(r).by = by
        BY <2>3, <3>2 DEF Entry
      <4> QED
        BY <1>2, <3>2, <4>1 DEF Owed, Explained, Audited
    <3>3. CASE /\ by = r /\ faults' > 0 /\ pc'[r] = "done"
               /\ answer'[r].status = "server_error"
      <4>1. Did(by, action, id)'
        BY <2>3, <3>3 DEF Going, Did
      <4> QED
        BY <1>2, <3>3, <4>1 DEF Owed, Explained
    <3> QED
      BY <2>3, <3>1, <3>2, <3>3 DEF Going
  <2> QED
    BY <1>2, <2>1, <2>2, <2>3 DEF Owed, Explained
<1> QED
  BY <1>1, <1>2

(* The answers given stay audited.                                          *)
LEMMA AnswersKept ==
  ASSUME NEW r \in Requests, TypeOK, IInv, Going(r)
  PROVE  AnswersAudited'
<1>1. \A action, id, by : Audited(action, id, by) => Audited(action, id, by)'
  BY OwedKept
<1>2. \A q \in Requests \ {r} :
        /\ pc'[q] = "idle" => doing'[q] = Nothing
        /\ pc'[q] = "answer" => Audited(doing[q].kind, doing[q].id, q)'
        /\ answer'[q] # NoAnswer => pc'[q] = "done"
        /\ answer'[q].status \in Kinds => Audited(answer[q].status, doing[q].id, q)'
  <2> TAKE q \in Requests \ {r}
  <2>1. /\ pc'[q] = pc[q] /\ doing'[q] = doing[q] /\ answer'[q] = answer[q]
        /\ pc[q] = "idle" => doing[q] = Nothing
        /\ pc[q] = "answer" => Audited(doing[q].kind, doing[q].id, q)
        /\ answer[q] # NoAnswer => pc[q] = "done"
        /\ answer[q].status \in Kinds => Audited(answer[q].status, doing[q].id, q)
    BY DEF Going, IInv, AnswersAudited
  <2> QED
    BY <1>1, <2>1 DEF Audited
<1>3. pc'[r] = "answer" => Audited(doing[r].kind, doing[r].id, r)'
  <2> SUFFICES ASSUME pc'[r] = "answer" PROVE Audited(doing[r].kind, doing[r].id, r)'
    OBVIOUS
  <2>1. Entry(r) \in audits' /\ doing'[r] = doing[r]
    BY DEF Going
  <2> QED
    BY <2>1 DEF Audited, Entry
<1>4. answer[r] = NoAnswer
  BY DEF Going, IInv, AnswersAudited
<1>5. answer'[r].status \in Kinds => Audited(answer[r].status, doing[r].id, r)'
  <2> SUFFICES ASSUME answer'[r].status \in Kinds
               PROVE  Audited(answer[r].status, doing[r].id, r)'
    OBVIOUS
  <2>1. answer'[r] # answer[r]
    BY <1>4 DEF NoAnswer, Kinds, Decisions
  <2>2. /\ pc[r] = "answer" /\ answer'[r].status = doing[r].kind
        /\ doing'[r] = doing[r]
    BY <2>1 DEF Going
  <2>3. Audited(doing[r].kind, doing[r].id, r)
    BY <2>2 DEF IInv, AnswersAudited
  <2> QED
    BY <1>1, <2>2, <2>3 DEF Audited
<1>6. pc'[r] # "idle" /\ (answer'[r] # NoAnswer => pc'[r] = "done")
  BY <1>4 DEF Going
<1> QED
  BY <1>2, <1>3, <1>5, <1>6 DEF AnswersAudited

(* The answers given stay explained, and the one given now is: with         *)
(* Postgres by the copy that is held, with the in-memory store by whoever   *)
(* wrote the row last.                                                      *)
LEMMA ExplainedKept ==
  ASSUME NEW r \in Requests, TypeOK, IInv, Going(r)
  PROVE  AnswerExplained'
<1>1. ASSUME NEW q \in Requests, answer'[q].status \in Kinds,
             answer'[q].row # answer'[q].status
      PROVE  /\ store' = "memory" \/ answer'[q].status = "queued"
             /\ answer'[q].row \in Kinds \ {"queued"}
             /\ \E p \in Requests \ {q} : Did(p, answer[q].row, doing[q].id)'
  <2>1. CASE answer'[q] = answer[q]
    <3>1. /\ store = "memory" \/ answer[q].status = "queued"
          /\ answer[q].row \in Kinds \ {"queued"}
      BY <1>1, <2>1 DEF IInv, AnswerExplained
    <3>2. PICK p \in Requests \ {q} : Did(p, answer[q].row, doing[q].id)
      BY <1>1, <2>1 DEF IInv, AnswerExplained
    <3>3. doing'[q] = doing[q]
      <4>1. pc[q] = "done"
        BY <1>1, <2>1 DEF IInv, AnswersAudited, NoAnswer, Kinds, Decisions
      <4> QED
        BY <4>1 DEF Going
    <3>4. Did(p, answer[q].row, doing[q].id)'
      BY <2>1, <3>1, <3>2, <3>3, DidKept DEF Did
    <3> QED
      BY <2>1, <3>1, <3>4 DEF Going
  <2>2. CASE answer'[q] # answer[q]
    <3>1. /\ q = r /\ pc[r] = "answer" /\ answer'[r].status = doing[r].kind
          /\ answer'[r].row = Seen(r) /\ doing'[r] = doing[r] /\ store' = store
      BY <1>1, <2>2 DEF Going
    <3>2. Seen(r) # doing[r].kind /\ Tells(r)
      BY <1>1, <3>1 DEF IInv, Told
    <3>3. /\ store = "memory" \/ doing[r].kind = "queued"
          /\ Seen(r) \in Kinds \ {"queued"}
          /\ \E p \in Requests \ {r} : Did(p, Seen(r), doing[r].id)
      <4>1. CASE store # "memory"
        BY <3>2, <4>1 DEF Seen, Tells, Kinds
      <4>2. CASE store = "memory" /\ doing[r].kind \in Decisions
        <5>1. doing[r].id \in Drafts
          BY <3>1, <4>2 DEF TypeOK
        <5>2. Seen(r) = draft[doing[r].id].status /\ Seen(r) \in Decisions
          BY <3>2, <4>2, <5>1 DEF Seen, Subject, Tells, TypeOK
        <5>3. PICK p \in Requests : Did(p, Seen(r), doing[r].id)
          BY <5>1, <5>2 DEF IInv, Authored, Decisions
        <5>4. p # r
          BY <3>2, <5>3 DEF Did
        <5> QED
          BY <4>2, <5>2, <5>3, <5>4 DEF Kinds, Decisions
      <4>3. CASE store = "memory" /\ doing[r].kind \notin Decisions
        <5>1. doing[r].id \in DOMAIN outbox /\ doing[r].kind \in Kinds \ Decisions
          BY <3>1, <4>3 DEF TypeOK
        <5>2. Seen(r) = outbox[doing[r].id].status
          BY <4>3 DEF Seen, Subject
        <5>3. Seen(r) \in {"cancelled", "blocked"}
          <6>1. outbox[doing[r].id].status \in {"queued", "cancelled", "blocked"}
            BY <5>1, RowFacts DEF TypeOK, Row
          <6> QED
            BY <3>2, <5>1, <5>2, <6>1 DEF Tells, Kinds, Decisions
        <5>4. PICK p \in Requests : Did(p, Seen(r), doing[r].id)
          BY <5>1, <5>2, <5>3 DEF IInv, Authored
        <5>5. p # r
          BY <3>2, <5>4 DEF Did
        <5> QED
          BY <4>3, <5>3, <5>4, <5>5 DEF Kinds
      <4> QED
        BY <4>1, <4>2, <4>3
    <3>4. PICK p \in Requests \ {r} : Did(p, Seen(r), doing[r].id)
      BY <3>3
    <3>5. Did(p, answer[r].row, doing[r].id)'
      BY <3>1, <3>3, <3>4, DidKept DEF Did
    <3> QED
      BY <3>1, <3>3, <3>5
  <2> QED
    BY <2>1, <2>2
<1> QED
  BY <1>1 DEF AnswerExplained

(* No draft goes back to pending, no row to queued.                         *)
Forward ==
  /\ \A d \in Drafts : draft[d].status # "pending" => draft'[d].status # "pending"
  /\ \A i \in DOMAIN outbox :
       /\ i \in DOMAIN outbox'
       /\ outbox[i].status # "queued" => outbox'[i].status # "queued"

(* What the handlers are going to answer stays true of their subjects.      *)
LEMMA ToldKept ==
  ASSUME NEW r \in Requests, TypeOK, IInv, Going(r), Forward,
         pc'[r] = "audit" => Tells(r)'
  PROVE  Told'
<1>1. ASSUME NEW q \in Requests, pc[q] \in {"audit", "answer"},
             doing'[q] = doing[q], held'[q] = held[q]
      PROVE  Tells(q)'
  <2>1. \/ doing[q].kind \in Decisions /\ doing[q].id \in Drafts
        \/ doing[q].kind \in Kinds \ Decisions /\ doing[q].id \in DOMAIN outbox
    BY <1>1 DEF TypeOK
  <2>2. Tells(q)
    BY <1>1 DEF IInv, Told
  <2>3. /\ doing'[q].kind \in Decisions => draft'[doing'[q].id].status # "pending"
        /\ doing'[q].kind \in {"cancelled", "blocked"} =>
             outbox'[doing'[q].id].status # "queued"
    BY <1>1, <2>1, <2>2 DEF Tells, Forward, Decisions
  <2>4. CASE held[q] = doing[q].kind
    BY <1>1, <2>3, <2>4 DEF Tells
  <2>5. CASE held[q] # doing[q].kind
    <3>1. /\ doing[q].kind = "queued" /\ held[q] \in {"cancelled", "blocked"}
          /\ held[q] \in Kinds
      BY <2>2, <2>5 DEF Tells, Kinds
    <3>2. PICK p \in Requests \ {q} : Did(p, held[q], doing[q].id)
      BY <2>2, <2>5 DEF Tells
    <3>3. Did(p, held[q], doing[q].id)'
      BY <1>1, <3>1, <3>2, DidKept DEF Did
    <3> QED
      BY <1>1, <2>3, <3>1, <3>3 DEF Tells
  <2> QED
    BY <2>4, <2>5
<1>2. ASSUME NEW q \in Requests, pc'[q] \in {"audit", "answer"}
      PROVE  Tells(q)'
  <2>1. CASE q = r /\ pc'[r] = "audit"
    BY <2>1
  <2>2. CASE q = r /\ pc'[r] = "answer"
    BY <1>1, <2>2 DEF Going
  <2>3. CASE q # r
    BY <1>1, <1>2, <2>3 DEF Going
  <2> QED
    BY <1>2, <2>1, <2>2, <2>3
<1> QED
  BY <1>2 DEF Told

-----------------------------------------------------------------------------
(* Every step keeps the inductive invariant                                 *)

(* A step that leaves the tables alone.                                     *)
LEMMA TablesKept ==
  ASSUME NEW r \in Requests, TypeOK, IInv, Going(r), draft' = draft, outbox' = outbox,
         pc'[r] # "audit"
  PROVE  IInv'
<1>1. /\ \A q \in Requests, kind \in Kinds : \A id : Did(q, kind, id) => Did(q, kind, id)'
      /\ \A action \in Kinds : \A id, by : Owed(action, id, by) => Owed(action, id, by)'
  BY DidKept, OwedKept
<1>2. OneRowPerDraft' /\ QueuedWasApproved'
  <2>1. "approved" \in Kinds
    BY DEF Kinds, Decisions
  <2> QED
    BY <1>1, <2>1 DEF IInv, OneRowPerDraft, QueuedWasApproved
<1>3. DraftsOwed' /\ RowsOwed'
  BY <1>1 DEF IInv, DraftsOwed, RowsOwed, Kinds, Decisions
<1>4. Authored'
  <2>1. /\ \A d \in Drafts : draft[d].status # "pending" => draft[d].status \in Kinds
        /\ \A i \in DOMAIN outbox : outbox[i].status \in Kinds
    BY Statuses
  <2> QED
    BY <1>1, <2>1 DEF IInv, Authored
<1>5. AnswersAudited' /\ Told' /\ AnswerExplained'
  BY AnswersKept, ToldKept, ExplainedKept DEF Forward
<1> QED
  BY <1>2, <1>3, <1>4, <1>5 DEF IInv

LEMMA ReviewKeeps ==
  ASSUME NEW r \in Requests, NEW d \in Drafts, NEW decision \in Decisions,
         TypeOK, IInv, Going(r), Review(r, d, decision)
  PROVE  IInv'
<1>1. /\ pc'[r] = "audit" /\ held'[r] = decision
      /\ doing'[r] = [kind |-> decision, id |-> d]
      /\ draft'[d] = Reviewed(draft[d], decision, r)
      /\ \A e \in Drafts \ {d} : draft'[e] = draft[e]
      /\ outbox' = outbox
  BY DEF Review, Begin, TypeOK
<1>2. /\ \A q \in Requests, kind \in Kinds : \A id : Did(q, kind, id) => Did(q, kind, id)'
      /\ \A action \in Kinds : \A id, by : Owed(action, id, by) => Owed(action, id, by)'
  BY DidKept, OwedKept
<1>3. Did(r, decision, d)' /\ Owed(decision, d, r)'
  BY <1>1 DEF Did, Owed
<1>4. /\ draft'[d].status = decision
      /\ decision = "approved" => draft'[d].approved_by = r
      /\ decision = "rejected" => draft'[d].rejected_by = r
  BY <1>1 DEF Reviewed, Decisions
<1>5. DraftsOwed' /\ RowsOwed'
  BY <1>1, <1>2, <1>3, <1>4 DEF IInv, DraftsOwed, RowsOwed, Kinds, Decisions
<1>6. OneRowPerDraft' /\ QueuedWasApproved'
  <2>1. "approved" \in Kinds
    BY DEF Kinds, Decisions
  <2> QED
    BY <1>1, <1>2, <2>1 DEF IInv, OneRowPerDraft, QueuedWasApproved
<1>7. Authored'
  <2>1. /\ \A e \in Drafts : draft[e].status # "pending" => draft[e].status \in Kinds
        /\ \A i \in DOMAIN outbox : outbox[i].status \in Kinds
    BY Statuses
  <2>2. \A e \in Drafts \ {d} : draft'[e].status # "pending" =>
          \E q \in Requests : Did(q, draft[e].status, e)'
    BY <1>1, <1>2, <2>1 DEF IInv, Authored
  <2>3. \A i \in DOMAIN outbox' : outbox'[i].status # "queued" =>
          \E q \in Requests : Did(q, outbox[i].status, i)'
    BY <1>1, <1>2, <2>1 DEF IInv, Authored
  <2>4. Did(r, draft[d].status, d)'
    BY <1>1, <1>4 DEF Did
  <2> QED
    BY <2>2, <2>3, <2>4 DEF Authored, Did
<1>8. Forward /\ Tells(r)'
  BY <1>1, <1>4 DEF Forward, Tells, Decisions
<1>9. AnswersAudited' /\ Told' /\ AnswerExplained'
  BY <1>8, AnswersKept, ToldKept, ExplainedKept
<1> QED
  BY <1>5, <1>6, <1>7, <1>9 DEF IInv

(* The tables when a row of the outbox is cancelled or blocked.             *)
LEMMA ClosedKeeps ==
  ASSUME NEW r \in Requests, NEW i \in DOMAIN outbox, NEW kind \in {"cancelled", "blocked"},
         TypeOK, IInv, Going(r), draft' = draft,
         pc'[r] = "audit", held'[r] = kind, doing'[r] = [kind |-> kind, id |-> i],
         /\ DOMAIN outbox' = DOMAIN outbox
         /\ \A j \in DOMAIN outbox : j # i => outbox'[j] = outbox[j]
         /\ outbox'[i].draft = outbox[i].draft
         /\ outbox'[i].queued_by = outbox[i].queued_by
         /\ outbox'[i].status = kind
         /\ kind = "cancelled" => outbox'[i].cancelled_by = r
         /\ kind = "blocked" => outbox'[i].blocked_by = r
  PROVE  IInv'
<1>1. /\ \A q \in Requests, k \in Kinds : \A id : Did(q, k, id) => Did(q, k, id)'
      /\ \A action \in Kinds : \A id, by : Owed(action, id, by) => Owed(action, id, by)'
  BY DidKept, OwedKept
<1>2. Did(r, kind, i)' /\ Owed(kind, i, r)'
  BY DEF Did, Owed
<1>3. OneRowPerDraft' /\ QueuedWasApproved'
  <2>1. "approved" \in Kinds /\ \A j \in DOMAIN outbox : outbox'[j].draft = outbox[j].draft
    BY DEF Kinds, Decisions
  <2> QED
    BY <1>1, <2>1 DEF IInv, OneRowPerDraft, QueuedWasApproved
<1>4. DraftsOwed'
  BY <1>1 DEF IInv, DraftsOwed, Kinds, Decisions
<1>5. RowsOwed'
  <2>1. \A j \in DOMAIN outbox : Owed("queued", j, outbox[j].queued_by)'
    BY <1>1 DEF IInv, RowsOwed, Kinds
  <2>2. \A j \in DOMAIN outbox : j # i =>
          /\ outbox'[j].status = "cancelled" =>
               Owed("cancelled", j, outbox[j].cancelled_by)'
          /\ outbox'[j].status = "blocked" => Owed("blocked", j, outbox[j].blocked_by)'
    BY <1>1 DEF IInv, RowsOwed, Kinds
  <2>3. /\ outbox'[i].status = "cancelled" =>
             Owed("cancelled", i, outbox[i].cancelled_by)'
        /\ outbox'[i].status = "blocked" => Owed("blocked", i, outbox[i].blocked_by)'
    BY <1>2 DEF Owed
  <2> QED
    BY <2>1, <2>2, <2>3 DEF RowsOwed
<1>6. Authored'
  <2>1. /\ \A e \in Drafts : draft[e].status # "pending" => draft[e].status \in Kinds
        /\ \A j \in DOMAIN outbox : outbox[j].status \in Kinds
    BY Statuses
  <2>2. \A e \in Drafts : draft'[e].status # "pending" =>
          \E q \in Requests : Did(q, draft[e].status, e)'
    BY <1>1, <2>1 DEF IInv, Authored
  <2>3. \A j \in DOMAIN outbox : j # i /\ outbox'[j].status # "queued" =>
          \E q \in Requests : Did(q, outbox[j].status, j)'
    BY <1>1, <2>1 DEF IInv, Authored
  <2>4. Did(r, outbox[i].status, i)'
    BY DEF Did
  <2> QED
    BY <2>2, <2>3, <2>4 DEF Authored, Did
<1>7. Forward /\ Tells(r)'
  BY DEF Forward, Tells, Decisions
<1>8. AnswersAudited' /\ Told' /\ AnswerExplained'
  BY <1>7, AnswersKept, ToldKept, ExplainedKept
<1> QED
  BY <1>3, <1>4, <1>5, <1>6, <1>8 DEF IInv

LEMMA CancelKeeps ==
  ASSUME NEW r \in Requests, NEW i \in DOMAIN outbox, TypeOK, IInv, Going(r), Cancel(r, i)
  PROVE  IInv'
<1> DEFINE row == [outbox[i] EXCEPT !.status = "cancelled", !.cancelled_by = r]
<1>1. /\ pc'[r] = "audit" /\ held'[r] = "cancelled"
      /\ doing'[r] = [kind |-> "cancelled", id |-> i] /\ draft' = draft
  BY DEF Cancel, Begin, TypeOK
<1>2. outbox \in Seq(Row) /\ outbox[i] \in Row
  BY RowFacts DEF TypeOK, Row
<1>3. outbox' = [outbox EXCEPT ![i] = row]
  BY <1>2 DEF Cancel
<1>4. /\ DOMAIN outbox' = DOMAIN outbox
      /\ \A j \in DOMAIN outbox : j # i => outbox'[j] = outbox[j]
      /\ outbox'[i].draft = outbox[i].draft
      /\ outbox'[i].queued_by = outbox[i].queued_by
      /\ outbox'[i].status = "cancelled" /\ outbox'[i].cancelled_by = r
  BY <1>2, <1>3 DEF Row
<1> HIDE DEF row
<1> QED
  BY <1>1, <1>4, ClosedKeeps

LEMMA MarkBlockedKeeps ==
  ASSUME NEW r \in Requests, TypeOK, IInv, Going(r), MarkBlocked(r)
  PROVE  IInv'
<1>0. PICK i : i = doing[r].id
  OBVIOUS
<1>1. /\ pc[r] = "mark" /\ pc'[r] = "audit" /\ held'[r] = "blocked"
      /\ doing' = doing /\ draft' = draft
  BY DEF MarkBlocked, TypeOK
<1>2. i \in DOMAIN outbox /\ doing[r] = [kind |-> "blocked", id |-> i]
  <2>1. doing[r].kind = "blocked" /\ i \in DOMAIN outbox
    BY <1>0, <1>1 DEF TypeOK, Decisions
  <2>2. doing[r] \in [kind : Kinds \cup {"none"}, id : Drafts \cup Nat]
    BY DEF TypeOK
  <2>3. doing[r] = [kind |-> doing[r].kind, id |-> doing[r].id]
    BY <2>2
  <2> QED
    BY <1>0, <2>1, <2>3
<1>3. outbox \in Seq(Row) /\ outbox[i] \in Row
  BY <1>2, RowFacts DEF TypeOK, Row
<1>4. outbox' = [outbox EXCEPT ![i] = Blocked(outbox[i], r)]
  BY <1>0, <1>3 DEF MarkBlocked
<1>5. /\ DOMAIN outbox' = DOMAIN outbox
      /\ \A j \in DOMAIN outbox : j # i => outbox'[j] = outbox[j]
      /\ outbox'[i].draft = outbox[i].draft
      /\ outbox'[i].queued_by = outbox[i].queued_by
      /\ outbox'[i].status = "blocked" /\ outbox'[i].blocked_by = r
  BY <1>2, <1>3, <1>4 DEF Row, Blocked
<1> QED
  BY <1>1, <1>2, <1>5, ClosedKeeps

LEMMA QueueApprovedKeeps ==
  ASSUME NEW r \in Requests, NEW d \in Drafts, TypeOK, IInv, Going(r),
         QueueApproved(r, d)
  PROVE  IInv'
<1>0. PICK n : n = CHOOSE i \in DOMAIN outbox' : outbox'[i].draft = d
  OBVIOUS
<1>1. /\ pc'[r] = "audit" /\ held'[r] = outbox'[n].status
      /\ doing'[r] = [kind |-> "queued", id |-> n]
      /\ draft[d].status = "approved" /\ draft' = draft
      /\ outbox' = OutboxWith(d, r)
  BY <1>0 DEF QueueApproved, Queueable, Begin, TypeOK
<1>2. outbox \in Seq(Row)
  BY DEF TypeOK, Row
<1>3. /\ outbox' \in Seq(Row)
      /\ \E i \in DOMAIN outbox' : outbox'[i].draft = d
      /\ \A i \in DOMAIN outbox : i \in DOMAIN outbox' /\ outbox'[i] = outbox[i]
      /\ outbox' = outbox \/ /\ RowsOf(d) = {}
                             /\ DOMAIN outbox' = DOMAIN outbox \cup {Len(outbox) + 1}
                             /\ outbox'[Len(outbox) + 1] = NewRow(d, r)
  <2>1. outbox' = OutboxWith(d, r)
    BY <1>1
  <2>2. outbox' \in Seq(Row) /\ \E i \in DOMAIN outbox' : outbox'[i].draft = d
    BY <1>2, <2>1, QueueFacts
  <2>3. \A i \in DOMAIN outbox : i \in DOMAIN outbox' /\ outbox'[i] = outbox[i]
    BY <1>2, <2>1, QueueFacts
  <2>4. \/ outbox' = outbox
        \/ /\ RowsOf(d) = {}
           /\ DOMAIN outbox' = DOMAIN outbox \cup {Len(outbox) + 1}
           /\ outbox'[Len(outbox) + 1] = NewRow(d, r)
    BY <1>2, <2>1, QueueFacts
  <2> QED
    BY <2>2, <2>3, <2>4
<1>4. n \in DOMAIN outbox' /\ outbox'[n].draft = d
  BY <1>0, <1>3
<1>5. \/ n \in DOMAIN outbox /\ DOMAIN outbox' = DOMAIN outbox
      \/ /\ n \notin DOMAIN outbox /\ outbox'[n] = NewRow(d, r)
         /\ DOMAIN outbox' = DOMAIN outbox \cup {n} /\ RowsOf(d) = {}
  <2>1. CASE outbox' = outbox
    BY <1>4, <2>1
  <2>2. CASE outbox' # outbox
    <3>1. \A j \in DOMAIN outbox : outbox'[j].draft # d
      BY <1>3, <2>2 DEF RowsOf
    <3> QED
      BY <1>3, <1>4, <2>2, <3>1
  <2> QED
    BY <2>1, <2>2
<1>6. /\ \A q \in Requests, k \in Kinds : \A id : Did(q, k, id) => Did(q, k, id)'
      /\ \A action \in Kinds : \A id, by : Owed(action, id, by) => Owed(action, id, by)'
  BY DidKept, OwedKept
<1>7. Owed("queued", n, r)'
  BY <1>1 DEF Owed
<1>8. NewRow(d, r).status = "queued" /\ NewRow(d, r).queued_by = r
  BY DEF NewRow
<1>9. OneRowPerDraft'
  <2>1. CASE DOMAIN outbox' = DOMAIN outbox
    BY <1>3, <2>1 DEF IInv, OneRowPerDraft
  <2>2. CASE DOMAIN outbox' = DOMAIN outbox \cup {n} /\ RowsOf(d) = {}
    BY <1>3, <1>4, <2>2 DEF IInv, OneRowPerDraft, RowsOf
  <2> QED
    BY <1>5, <2>1, <2>2
<1>10. QueuedWasApproved'
  <2>1. "approved" \in Kinds
    BY DEF Kinds, Decisions
  <2>2. \E q \in Requests : Did(q, "approved", d)
    BY <1>1 DEF IInv, Authored
  <2>3. \E q \in Requests : Did(q, "approved", d)'
    BY <1>6, <2>1, <2>2
  <2>4. \A i \in DOMAIN outbox : \E q \in Requests : Did(q, "approved", outbox[i].draft)'
    BY <1>6, <2>1, <1>3 DEF IInv, QueuedWasApproved, Did
  <2>5. \A i \in DOMAIN outbox' : i \in DOMAIN outbox \/ i = n
    BY <1>5
  <2> QED
    BY <1>3, <1>4, <2>3, <2>4, <2>5 DEF QueuedWasApproved, Did
<1>11. DraftsOwed'
  BY <1>1, <1>6 DEF IInv, DraftsOwed, Kinds, Decisions
<1>12. RowsOwed'
  <2>1. \A i \in DOMAIN outbox :
          /\ Owed("queued", i, outbox[i].queued_by)'
          /\ outbox'[i].status = "cancelled" =>
               Owed("cancelled", i, outbox[i].cancelled_by)'
          /\ outbox'[i].status = "blocked" => Owed("blocked", i, outbox[i].blocked_by)'
    BY <1>3, <1>6 DEF IInv, RowsOwed, Kinds
  <2>2. CASE DOMAIN outbox' = DOMAIN outbox
    BY <2>1, <2>2 DEF RowsOwed
  <2>3. CASE /\ outbox'[n] = NewRow(d, r) /\ DOMAIN outbox' = DOMAIN outbox \cup {n}
    <3>1. /\ Owed("queued", n, outbox[n].queued_by)'
          /\ outbox'[n].status \notin {"cancelled", "blocked"}
      BY <1>7, <1>8, <2>3 DEF Owed
    <3> QED
      BY <2>1, <2>3, <3>1 DEF RowsOwed
  <2> QED
    BY <1>5, <2>2, <2>3
<1>13. Authored'
  <2>1. /\ \A e \in Drafts : draft[e].status # "pending" => draft[e].status \in Kinds
        /\ \A i \in DOMAIN outbox : outbox[i].status \in Kinds
    BY Statuses
  <2>2. \A e \in Drafts : draft'[e].status # "pending" =>
          \E q \in Requests : Did(q, draft[e].status, e)'
    BY <1>1, <1>6, <2>1 DEF IInv, Authored
  <2>3. \A i \in DOMAIN outbox : outbox'[i].status # "queued" =>
          \E q \in Requests : Did(q, outbox[i].status, i)'
    BY <1>3, <1>6, <2>1 DEF IInv, Authored
  <2> QED
    BY <1>5, <1>8, <2>2, <2>3 DEF Authored, Did
<1>14. Forward
  BY <1>1, <1>3 DEF Forward
<1>15. Tells(r)'
  <2>1. CASE held'[r] = "queued"
    BY <1>1, <2>1 DEF Tells, Decisions
  <2>2. CASE held'[r] # "queued"
    <3>1. n \in DOMAIN outbox /\ outbox'[n] = outbox[n]
      BY <1>1, <1>3, <1>5, <1>8, <2>2
    <3>2. PICK status : status = outbox[n].status
      OBVIOUS
    <3>3. held'[r] = status /\ status \in {"cancelled", "blocked"} /\ status \in Kinds
      BY <1>1, <1>2, <2>2, <3>1, <3>2, RowFacts DEF Kinds
    <3>4. PICK q \in Requests : Did(q, status, n)
      BY <3>1, <3>2, <3>3 DEF IInv, Authored
    <3>5. Did(q, status, n)'
      BY <1>6, <3>3, <3>4
    <3>6. q # r
      BY <1>1, <3>3, <3>5 DEF Did
    <3> QED
      BY <1>1, <3>3, <3>5, <3>6 DEF Tells, Did, Decisions
  <2> QED
    BY <2>1, <2>2
<1>16. AnswersAudited' /\ Told' /\ AnswerExplained'
  BY <1>14, <1>15, AnswersKept, ToldKept, ExplainedKept
<1> QED
  BY <1>9, <1>10, <1>11, <1>12, <1>13, <1>16 DEF IInv

LEMMA Invariant == Spec => []IInv
<1>1. Init => IInv
  BY DEF Init, IInv, OneRowPerDraft, QueuedWasApproved, DraftsOwed, RowsOwed,
         AnswersAudited, Authored, Told, AnswerExplained, NewDraft, NoAnswer, Kinds,
         Decisions
<1>2. TypeOK /\ IInv /\ [Next]_vars => IInv'
  <2> SUFFICES ASSUME TypeOK, IInv, [Next]_vars PROVE IInv'
    OBVIOUS
  <2>1. CASE UNCHANGED vars
    BY <2>1 DEF vars, IInv, OneRowPerDraft, QueuedWasApproved, DraftsOwed, RowsOwed,
                AnswersAudited, Authored, Told, Tells, AnswerExplained, Owed,
                Explained, Audited, Did
  <2>2. ASSUME NEW r \in Requests, Start(r) \/ Continue(r)
        PROVE  IInv'
    <3>1. Going(r)
      BY <2>2, StepsGo
    <3>2. CASE \E d \in Drafts, decision \in Decisions : Review(r, d, decision)
      BY <3>1, <3>2, ReviewKeeps
    <3>3. CASE \E d \in Drafts : QueueApproved(r, d)
      BY <3>1, <3>3, QueueApprovedKeeps
    <3>4. CASE \E i \in DOMAIN outbox : Cancel(r, i)
      BY <3>1, <3>4, CancelKeeps
    <3>5. CASE MarkBlocked(r)
      BY <3>1, <3>5, MarkBlockedKeeps
    <3>6. ASSUME draft' = draft, outbox' = outbox, pc'[r] # "audit"
          PROVE  IInv'
      BY <3>1, <3>6, TablesKept
    <3>7. CASE \E i \in DOMAIN outbox : ReadItem(r, i)
      BY <3>6, <3>7 DEF TypeOK, ReadItem, Begin
    <3>8. CASE Refuse(r) \/ WriteAudit(r) \/ CallFails(r) \/ Respond(r)
      BY <3>6, <3>8 DEF TypeOK, Refuse, WriteAudit, CallFails, Respond
    <3> QED
      BY <2>2, <3>2, <3>3, <3>4, <3>5, <3>7, <3>8 DEF Start, Continue
  <2> QED
    BY <2>1, <2>2 DEF Next
<1> QED
  BY <1>1, <1>2, TypeInvariant, PTL DEF Spec

-----------------------------------------------------------------------------
(* Theorems                                                                 *)

(* Whatever the operators do at the same time, no draft gets a second       *)
(* outbox row, so it cannot be sent twice (createReplyOutboxFromApproved-   *)
(* Draft).                                                                  *)
THEOREM OutboxUnique == Spec => []OneRowPerDraft
BY Invariant, PTL DEF IInv

(* No reply leaves the approval queue that nobody approved, whatever was    *)
(* decided about it otherwise (updateReplyDraftStatus,                      *)
(* createReplyOutboxFromApprovedDraft).                                     *)
THEOREM NothingQueuedUnapproved == Spec => []QueuedWasApproved
BY Invariant, PTL DEF IInv

(* However many audit writes fail, a handler that answered with success     *)
(* has its audit row (reviewReplyDraft and the outbox handlers).            *)
THEOREM SuccessIsAudited == Spec => []AnsweredMeansAudited
<1>1. IInv => AnsweredMeansAudited
  BY DEF IInv, AnswersAudited, AnsweredMeansAudited
<1> QED
  BY <1>1, Invariant, PTL

(* When nobody is at work, the audit log explains every review and outbox   *)
(* state and names who is responsible, save for the changes of requests     *)
(* that were answered 500 because their audit write failed.                 *)
THEOREM StatesExplained == Spec => []StateAudited
<1>1. IInv => StateAudited
  BY DEF IInv, DraftsOwed, RowsOwed, Owed, StateAudited, Quiet
<1> QED
  BY <1>1, Invariant, PTL

(* No step returns a cancelled or blocked item to the staging state, a      *)
(* repeated queue-send included.                                            *)
THEOREM NothingRestaged == Spec => NeverRestaged
<1> DEFINE Kept == \A i \in DOMAIN outbox :
                     outbox'[i].status = "queued" => outbox[i].status = "queued"
<1>1. TypeOK /\ [Next]_vars => [Kept]_outbox
  <2> SUFFICES ASSUME TypeOK, [Next]_vars, outbox' # outbox PROVE Kept
    OBVIOUS
  <2>1. outbox \in Seq(Row)
    BY DEF TypeOK, Row
  <2>2. ASSUME NEW r \in Requests, NEW d \in Drafts, QueueApproved(r, d)
        PROVE  Kept
    <3>1. outbox' = OutboxWith(d, r)
      BY <2>2 DEF QueueApproved
    <3>2. \A i \in DOMAIN outbox : outbox'[i] = outbox[i]
      BY <2>1, <3>1, QueueFacts
    <3> QED
      BY <3>2
  <2>3. ASSUME NEW r \in Requests, NEW i \in DOMAIN outbox, Cancel(r, i)
        PROVE  Kept
    BY <2>1, <2>3 DEF Cancel, Row
  <2>4. ASSUME NEW r \in Requests, MarkBlocked(r)
        PROVE  Kept
    <3>1. outbox' = [outbox EXCEPT ![doing[r].id] = Blocked(outbox[doing[r].id], r)]
      BY <2>1, <2>4 DEF MarkBlocked
    <3>2. doing[r].id \in DOMAIN outbox
      BY <2>4 DEF TypeOK, MarkBlocked
    <3>3. Blocked(outbox[doing[r].id], r).status = "blocked"
      BY <2>1, <3>2, RowFacts DEF Blocked, Row
    <3> QED
      BY <2>1, <3>1, <3>3
  <2> QED
    BY <2>2, <2>3, <2>4 DEF Next, Start, Continue, Review, Refuse, ReadItem,
       WriteAudit, CallFails, Respond, vars
<1> QED
  BY <1>1, TypeInvariant, PTL DEF Spec, NeverRestaged

(* Whatever the operators do at the same time and with either store, an     *)
(* answer that does not show what its request did shows what another        *)
(* request did to the same draft or item, and that only with the in-memory  *)
(* store's live rows or for a repeated queue-send.                          *)
THEOREM AnswersExplained == Spec => []AnswerExplained
BY Invariant, PTL DEF IInv
=============================================================================
