------------------------ MODULE LeadPipelineProofs ------------------------
(***************************************************************************)
(* Proofs about LeadPipeline, for any submissions, replays, store faults   *)
(* and number of retries and for either store.                             *)
(***************************************************************************)
EXTENDS LeadPipeline, FiniteSetTheorems, TLAPS

Counts == [Tables -> [Submissions -> Nat]]
Letter == [of : Submissions, throws : BOOLEAN, replayed : BOOLEAN]

-----------------------------------------------------------------------------
(* The inductive invariants                                                 *)

Holding == AttemptCalls \cup {"failed", "dead_letters", "dlq_audit"}

(* A handler suspended at a store call of an attempt holds a message; a     *)
(* replay under way knows its dead letter; nobody else marks one.           *)
HandlersTyped ==
  /\ \A w \in Workers : pc[w] \in Holding => hands[w] \in Messages
  /\ \A c \in Callers : pc[c] \in {"mark_replayed", "replay_audit"} => c \in Replayers
  /\ \A w \in Replayers : pc[w] \notin {"idle", "done"} =>
       target[w] \in DOMAIN deadLetters

Typed == TypeOK /\ HandlersTyped

(* A submission that was not handled yet is nowhere; a worker that has no   *)
(* message says so; what is replayed, or was given up, is dead-lettered.    *)
Flow ==
  /\ \A s \in Submissions :
       pc[s] = "idle" =>
         ~InQueue(s) /\ HeldBy(s) = {} /\ ~Finished(s) /\ s \notin lost
  /\ \A w \in Workers : pc[w] \in {"idle", "consume"} => hands[w] = NoMessage
  /\ \A w \in Replayers :
       hands[w] # NoMessage => DeadLettersOf(hands[w].of) # {}
  /\ \A w \in Workers : pc[w] = "dlq_audit" => DeadLettersOf(hands[w].of) # {}

(* An accepted event is queued, was taken on by a consumer that is under    *)
(* way or came to its end with it, is settled or was lost; so is one for    *)
(* every key the process remembers, and that one was not lost.              *)
Accounted ==
  /\ \A s \in Submissions :
       Accepted(s) => InQueue(s) \/ HeldBy(s) # {} \/ Finished(s) \/ s \in lost
  /\ \A k \in idempotency : \E x \in Submissions :
       /\ Key[x] = k /\ x \notin lost
       /\ InQueue(x) \/ HeldBy(x) # {} \/ Finished(x)

IInv == HandledOnce /\ Accounted /\ Flow

LEMMA Actors ==
  /\ Workers \subseteq Callers /\ Consumers \subseteq Submissions
  /\ Consumers \cap Replayers = {} /\ Callers = Submissions \cup Replayers
  /\ Workers = Consumers \cup Replayers
  /\ None \notin Callers /\ MaxRetries \in Nat /\ MaxRetries > 0
BY PipelineAssumption DEF Workers, Callers, Consumers

-----------------------------------------------------------------------------
(* Lemmas about the store                                                   *)

(* A row more in one table for one submission, and nothing else.            *)
LEMMA WrittenFacts ==
  ASSUME rows \in Counts, NEW t \in Tables, NEW s \in Submissions
  PROVE  /\ Written(t, s) \in Counts
         /\ \A u \in Tables, x \in Submissions :
              Written(t, s)[u][x] =
                IF u = t /\ x = s THEN rows[u][x] + 1 ELSE rows[u][x]
<1> DEFINE row == [rows[t] EXCEPT ![s] = rows[t][s] + 1]
<1>1. rows[t] \in [Submissions -> Nat]
  BY DEF Counts
<1>2. row \in [Submissions -> Nat]
      /\ \A x \in Submissions : row[x] = IF x = s THEN rows[t][x] + 1 ELSE rows[t][x]
  BY <1>1
<1>3. Written(t, s) = [rows EXCEPT ![t] = row]
  BY <1>1 DEF Written, Counts
<1> HIDE DEF row
<1> QED
  BY <1>2, <1>3 DEF Counts

(* A dead letter more, which is the last.                                   *)
LEMMA LetterAppended ==
  ASSUME deadLetters \in Seq(Letter), NEW m \in Messages
  PROVE  LET q == Append(deadLetters, DeadLetter(m)) IN
         /\ q \in Seq(Letter)
         /\ DOMAIN q = DOMAIN deadLetters \cup {Len(deadLetters) + 1}
         /\ \A d \in DOMAIN deadLetters : q[d] = deadLetters[d]
         /\ q[Len(deadLetters) + 1].of = m.of
<1>1. DeadLetter(m) \in Letter /\ DeadLetter(m).of = m.of
  BY DEF DeadLetter, Letter, Messages
<1> DEFINE q == Append(deadLetters, DeadLetter(m))
<1>2. /\ q \in Seq(Letter) /\ Len(q) = Len(deadLetters) + 1
      /\ \A i \in 1 .. Len(deadLetters) : q[i] = deadLetters[i]
      /\ q[Len(deadLetters) + 1] = DeadLetter(m)
  BY <1>1
<1>3. /\ Len(deadLetters) \in Nat /\ DOMAIN deadLetters = 1 .. Len(deadLetters)
      /\ DOMAIN q = 1 .. Len(q)
  BY <1>2
<1>4. DOMAIN q = DOMAIN deadLetters \cup {Len(deadLetters) + 1}
  BY <1>2, <1>3
<1> HIDE DEF q
<1>5. \A d \in DOMAIN deadLetters : q[d] = deadLetters[d]
  BY <1>2, <1>3
<1> QED
  BY <1>1, <1>2, <1>4, <1>5 DEF q

(* A dead letter marked as replayed is otherwise what it was.               *)
LEMMA LetterMarked ==
  ASSUME deadLetters \in Seq(Letter), NEW d \in DOMAIN deadLetters
  PROVE  LET q == [deadLetters EXCEPT ![d].replayed = TRUE] IN
         /\ q \in Seq(Letter)
         /\ DOMAIN q = DOMAIN deadLetters
         /\ \A e \in DOMAIN deadLetters : q[e].of = deadLetters[e].of
<1>1. deadLetters[d] \in Letter
  OBVIOUS
<1> DEFINE l == [deadLetters[d] EXCEPT !.replayed = TRUE]
<1>2. l \in Letter /\ l.of = deadLetters[d].of
  BY <1>1 DEF Letter
<1> DEFINE q == [deadLetters EXCEPT ![d].replayed = TRUE]
<1>3. q = [deadLetters EXCEPT ![d] = l]
  OBVIOUS
<1> HIDE DEF l, q
<1>4. q \in Seq(Letter) /\ DOMAIN q = DOMAIN deadLetters
  BY <1>2, <1>3
<1>5. \A e \in DOMAIN deadLetters : q[e].of = deadLetters[e].of
  BY <1>2, <1>3
<1> QED
  BY <1>4, <1>5 DEF q

(* What a store call of worker w may do to the tables: dead letters are     *)
(* kept, a new one and a new processed row are about w's message.           *)
StoreStep(w) ==
  /\ rows' \in Counts /\ deadLetters' \in Seq(Letter)
  /\ newestEstimate' \in Submissions \cup {None}
  /\ DOMAIN deadLetters \subseteq DOMAIN deadLetters'
  /\ \A d \in DOMAIN deadLetters : deadLetters'[d].of = deadLetters[d].of
  /\ \A d \in DOMAIN deadLetters' \ DOMAIN deadLetters :
       deadLetters'[d].of = hands[w].of
  /\ \A x \in Submissions :
       /\ rows'["received"][x] = rows["received"][x]
       /\ rows["processed"][x] > 0 => rows'["processed"][x] > 0
       /\ rows'["processed"][x] > 0 => rows["processed"][x] > 0 \/ x = hands[w].of

LEMMA StoreTyped ==
  ASSUME Typed
  PROVE  /\ rows \in Counts /\ deadLetters \in Seq(Letter)
         /\ newestEstimate \in Submissions \cup {None}
         /\ \A t \in Tables, x \in Submissions : rows[t][x] \in Nat
         /\ \A d \in DOMAIN deadLetters : deadLetters[d].of \in Submissions
<1>1. rows \in Counts /\ deadLetters \in Seq(Letter)
      /\ newestEstimate \in Submissions \cup {None}
  BY DEF Typed, TypeOK, Counts, Letter
<1>2. \A t \in Tables, x \in Submissions : rows[t][x] \in Nat
  BY <1>1 DEF Counts
<1>3. \A d \in DOMAIN deadLetters : deadLetters[d] \in Letter
  BY <1>1
<1> QED
  BY <1>1, <1>2, <1>3 DEF Letter

LEMMA StoreUnchanged ==
  ASSUME Typed, NEW w \in Workers, UNCHANGED storeVars
  PROVE  StoreStep(w)
BY StoreTyped DEF StoreStep, storeVars

LEMMA StoreWritten ==
  ASSUME Typed, NEW w \in Workers, NEW t \in Tables \ {"received"},
         NEW s \in Submissions, t = "processed" => s = hands[w].of,
         rows' = Written(t, s), deadLetters' = deadLetters,
         newestEstimate' \in Submissions \cup {None}
  PROVE  StoreStep(w)
<1>1. "received" \in Tables /\ "processed" \in Tables
  BY DEF Tables, AttemptCalls
<1>2. rows \in Counts
  BY StoreTyped
<1>3. \A u \in Tables, x \in Submissions :
        rows'[u][x] = IF u = t /\ x = s THEN rows[u][x] + 1 ELSE rows[u][x]
  BY <1>2, WrittenFacts
<1>4. rows' \in Counts
  BY <1>2, WrittenFacts
<1> QED
  BY <1>1, <1>3, <1>4, StoreTyped DEF StoreStep

LEMMA StoreAppended ==
  ASSUME Typed, NEW w \in Workers, hands[w] \in Messages, rows' = rows,
         deadLetters' = Append(deadLetters, DeadLetter(hands[w])),
         newestEstimate' = newestEstimate
  PROVE  StoreStep(w) /\ \E d \in DOMAIN deadLetters' : deadLetters'[d].of = hands[w].of
<1>1. deadLetters \in Seq(Letter)
  BY StoreTyped
<1>2. /\ deadLetters' \in Seq(Letter)
      /\ DOMAIN deadLetters' = DOMAIN deadLetters \cup {Len(deadLetters) + 1}
      /\ \A d \in DOMAIN deadLetters : deadLetters'[d] = deadLetters[d]
      /\ deadLetters'[Len(deadLetters) + 1].of = hands[w].of
  BY <1>1, LetterAppended
<1> QED
  BY <1>2, StoreTyped DEF StoreStep

LEMMA StoreMarked ==
  ASSUME Typed, NEW w \in Workers, NEW d \in DOMAIN deadLetters, rows' = rows,
         deadLetters' = [deadLetters EXCEPT ![d].replayed = TRUE],
         newestEstimate' = newestEstimate
  PROVE  StoreStep(w)
<1>1. deadLetters \in Seq(Letter)
  BY StoreTyped
<1>2. /\ deadLetters' \in Seq(Letter)
      /\ DOMAIN deadLetters' = DOMAIN deadLetters
      /\ \A e \in DOMAIN deadLetters : deadLetters'[e].of = deadLetters[e].of
  BY <1>1, LetterMarked
<1> QED
  BY <1>2, StoreTyped DEF StoreStep

-----------------------------------------------------------------------------
(* Every store call of a worker is such a step                              *)

LEMMA AttemptStores ==
  ASSUME Typed, NEW w \in Workers, Attempt(w)
  PROVE  StoreStep(w)
<1>1. pc[w] \in AttemptCalls
  BY DEF Attempt, CreateLead, CreateLeadConflicts, SaveLeadEvent,
         SaveLeadEventConflicts, SaveSolarEstimate, SaveReplyDraft, SaveDraftAudit,
         SaveProcessedLog, Insert, AttemptCalls
<1>2. hands[w] \in Messages /\ hands[w].of \in Submissions
  BY <1>1 DEF Typed, HandlersTyped, Holding, Messages
<1>3. newestEstimate \in Submissions \cup {None}
  BY StoreTyped
<1>4. CASE CreateLeadConflicts(w) \/ SaveLeadEventConflicts(w)
  BY <1>4, StoreUnchanged DEF CreateLeadConflicts, SaveLeadEventConflicts
<1>5. CASE ~(CreateLeadConflicts(w) \/ SaveLeadEventConflicts(w))
  <2>1. \E t \in AttemptCalls : rows' = Written(t, hands[w].of)
        /\ deadLetters' = deadLetters
        /\ newestEstimate' \in Submissions \cup {None}
    BY <1>2, <1>3, <1>5 DEF Attempt, CreateLead, SaveLeadEvent,
         SaveSolarEstimate, SaveReplyDraft, SaveDraftAudit, SaveProcessedLog,
         Insert, AttemptCalls
  <2>2. AttemptCalls \subseteq Tables \ {"received"}
    BY DEF Tables, AttemptCalls
  <2> QED
    BY <1>2, <2>1, <2>2, StoreWritten
<1> QED
  BY <1>4, <1>5

LEMMA GiveUpStores ==
  ASSUME Typed, NEW w \in Workers, GiveUp(w)
  PROVE  /\ StoreStep(w)
         /\ pc[w] = "dead_letters" =>
              \E d \in DOMAIN deadLetters' : deadLetters'[d].of = hands[w].of
<1>1. pc[w] \in {"failed", "dead_letters", "dlq_audit"}
  BY DEF GiveUp, SaveFailedLog, CreateDeadLetter, SaveDlqAudit
<1>2. hands[w] \in Messages /\ hands[w].of \in Submissions
  BY <1>1 DEF Typed, HandlersTyped, Holding, Messages
<1>3. {"failed", "dlq_audit"} \subseteq Tables \ {"received", "processed"}
  BY DEF Tables, AttemptCalls
<1>4. newestEstimate \in Submissions \cup {None}
  BY StoreTyped
<1>5. CASE CreateDeadLetter(w)
  BY <1>2, <1>5, StoreAppended DEF CreateDeadLetter
<1>6. CASE SaveFailedLog(w)
  BY <1>2, <1>3, <1>4, <1>6, StoreWritten DEF SaveFailedLog
<1>7. CASE SaveDlqAudit(w)
  BY <1>2, <1>3, <1>4, <1>7, StoreWritten DEF SaveDlqAudit
<1> QED
  BY <1>5, <1>6, <1>7 DEF GiveUp

LEMMA FinishReplayStores ==
  ASSUME Typed, NEW w \in Replayers, FinishReplay(w)
  PROVE  StoreStep(w)
<1>1. pc[w] \in {"mark_replayed", "replay_audit"} /\ w \in Workers
  BY DEF FinishReplay, MarkReplayed, SaveReplayAudit, Workers
<1>2. target[w] \in DOMAIN deadLetters
  BY <1>1 DEF Typed, HandlersTyped
<1>3. deadLetters[target[w]].of \in Submissions
      /\ newestEstimate \in Submissions \cup {None}
  BY <1>2, StoreTyped
<1>4. "replay_audit" \in Tables \ {"received", "processed"}
  BY DEF Tables, AttemptCalls
<1>5. CASE MarkReplayed(w)
  BY <1>1, <1>2, <1>5, StoreMarked DEF MarkReplayed
<1>6. CASE SaveReplayAudit(w)
  BY <1>1, <1>3, <1>4, <1>6, StoreWritten DEF SaveReplayAudit
<1> QED
  BY <1>5, <1>6 DEF FinishReplay

LEMMA FaultStores ==
  ASSUME Typed, NEW w \in Workers, Fault(w)
  PROVE  StoreStep(w)
<1>1. pc[w] \in AttemptCalls \cup UnguardedCalls
      /\ (Landed(w) \/ UNCHANGED storeVars)
  BY DEF Fault, AttemptCallFails, UnguardedCallFails
<1>2. CASE UNCHANGED storeVars
  BY <1>2, StoreUnchanged
<1>3. CASE Landed(w) /\ pc[w] \in Holding /\ ~UNCHANGED storeVars
  <2>1. hands[w] \in Messages /\ hands[w].of \in Submissions
    BY <1>3 DEF Typed, HandlersTyped, Messages
  <2>2. CASE pc[w] = "dead_letters"
    BY <1>3, <2>1, <2>2, StoreAppended DEF Landed
  <2>3. CASE pc[w] # "dead_letters"
    <3>1. pc[w] \notin {"mark_replayed", "replay_audit", "dead_letters"}
      BY <1>3, <2>3 DEF Holding, AttemptCalls
    <3>2. /\ rows' = Written(pc[w], hands[w].of) /\ deadLetters' = deadLetters
          /\ newestEstimate' = newestEstimate
      BY <1>3, <3>1 DEF Landed
    <3>3. pc[w] \in Tables \ {"received"}
      BY <1>3, <3>1 DEF Holding, AttemptCalls, Tables
    <3>4. newestEstimate \in Submissions \cup {None}
      BY StoreTyped
    <3> QED
      BY <2>1, <3>2, <3>3, <3>4, StoreWritten
  <2> QED
    BY <2>2, <2>3
<1>4. CASE Landed(w) /\ pc[w] \in {"mark_replayed", "replay_audit"}
  <2>1. w \in Replayers
    BY <1>4, Actors DEF Typed, HandlersTyped
  <2>2. target[w] \in DOMAIN deadLetters
    BY <1>4, <2>1 DEF Typed, HandlersTyped
  <2>3. deadLetters[target[w]].of \in Submissions
        /\ newestEstimate \in Submissions \cup {None}
    BY <2>2, StoreTyped
  <2>4. "replay_audit" \in Tables \ {"received", "processed"}
    BY DEF Tables, AttemptCalls
  <2>5. CASE pc[w] = "mark_replayed"
    BY <1>4, <2>2, <2>5, StoreMarked DEF Landed
  <2>6. CASE pc[w] = "replay_audit"
    BY <1>4, <2>3, <2>4, <2>6, StoreWritten DEF Landed
  <2> QED
    BY <1>4, <2>5, <2>6
<1> QED
  BY <1>1, <1>2, <1>3, <1>4 DEF UnguardedCalls, Holding

-----------------------------------------------------------------------------
(* Type correctness                                                         *)

Places == AttemptCalls \cup UnguardedCalls \cup {"idle", "consume", "respond", "done"}
Statuses == {"none", "invalid_event", "duplicate_ignored", "accepted", "queued",
             "dead_lettered", "estimate_created", "replayed", "server_error",
             "connection_lost"}
Responses == [status : Statuses, lead : Submissions \cup {None},
              estimate : Submissions \cup {None}]
Results == [status : {"none", "processed", "dead_lettered"},
            of : Submissions \cup {None}]

(* The variables other than pc and the tables.                              *)
RestTyped ==
  /\ idempotency \subseteq {Key[s] : s \in Submissions}
  /\ queue \in Seq(Messages)
  /\ receipts \subseteq Submissions
  /\ hands \in [Workers -> Messages \cup {NoMessage}]
  /\ attempt \in [Workers -> 0 .. MaxRetries]
  /\ result \in [Workers -> Results]
  /\ response \in [Callers -> Responses]
  /\ faults \in Nat /\ deaths \in Nat
  /\ lost \subseteq Submissions

TablesTyped ==
  /\ rows \in Counts /\ deadLetters \in Seq(Letter)
  /\ newestEstimate \in Submissions \cup {None}

LEMMA TypedParts ==
  /\ TypeOK <=> /\ RestTyped /\ TablesTyped /\ pc \in [Callers -> Places]
                /\ target \in [Replayers -> Nat]
  /\ TypeOK' <=> /\ RestTyped' /\ TablesTyped' /\ pc' \in [Callers -> Places]
                 /\ target' \in [Replayers -> Nat]
<1>1. TypeOK <=> /\ RestTyped /\ TablesTyped /\ pc \in [Callers -> Places]
                 /\ target \in [Replayers -> Nat]
  BY DEF TypeOK, RestTyped, TablesTyped, Counts, Letter, Places, Statuses,
         Responses, Results
<1>2. TypeOK' <=> /\ RestTyped' /\ TablesTyped' /\ pc' \in [Callers -> Places]
                  /\ target' \in [Replayers -> Nat]
  BY DEF TypeOK, RestTyped, TablesTyped, Counts, Letter, Places, Statuses,
         Responses, Results
<1> QED
  BY <1>1, <1>2

(* One caller moves to a place it may be at; the rest of the handlers stay. *)
LEMMA Moved ==
  ASSUME Typed, NEW c \in Callers, NEW next \in Places, pc' = [pc EXCEPT ![c] = next],
         c \in Workers /\ next \in Holding => hands'[c] \in Messages,
         \A w \in Workers \ {c} : hands'[w] = hands[w],
         next \in {"mark_replayed", "replay_audit"} => c \in Replayers,
         c \in Replayers /\ next \notin {"idle", "done"} =>
           target'[c] \in DOMAIN deadLetters,
         \A w \in Replayers \ {c} : target'[w] = target[w],
         DOMAIN deadLetters \subseteq DOMAIN deadLetters'
  PROVE  pc' \in [Callers -> Places] /\ HandlersTyped'
<1>1. pc \in [Callers -> Places]
  BY TypedParts DEF Typed
<1>2. /\ pc' \in [Callers -> Places] /\ pc'[c] = next
      /\ \A d \in Callers \ {c} : pc'[d] = pc[d]
  BY <1>1
<1>3. \A w \in Workers : pc'[w] \in Holding => hands'[w] \in Messages
  BY <1>2, Actors DEF Typed, HandlersTyped
<1>4. \A d \in Callers :
        pc'[d] \in {"mark_replayed", "replay_audit"} => d \in Replayers
  BY <1>2, Actors DEF Typed, HandlersTyped
<1>5. \A w \in Replayers : pc'[w] \notin {"idle", "done"} =>
        target'[w] \in DOMAIN deadLetters'
  BY <1>2, Actors DEF Typed, HandlersTyped
<1> QED
  BY <1>2, <1>3, <1>4, <1>5 DEF HandlersTyped

LEMMA AnswerTyped ==
  ASSUME Typed, NEW c \in Callers, NEW status \in Statuses, Answer(c, status)
  PROVE  response' \in [Callers -> Responses]
<1>1. [NoResponse EXCEPT !.status = status] \in Responses
  BY DEF NoResponse, Responses
<1>2. response \in [Callers -> Responses]
  BY TypedParts DEF Typed, RestTyped
<1> QED
  BY <1>1, <1>2 DEF Answer

LEMMA FirstCallPlace ==
  \A m : FirstCall(m) \in {"failed", "leads"}
BY DEF FirstCall

LEMMA SubmitTyped ==
  ASSUME Typed, NEW s \in Submissions, Submit(s)
  PROVE  Typed'
<1> USE Actors DEF Statuses
<1>1. s \in Callers /\ {"idle", "done", "consume"} \subseteq Places
      /\ Holding \cap {"idle", "done", "consume"} = {}
  BY DEF Places, Holding, AttemptCalls
<1>2. RestTyped /\ TablesTyped /\ target \in [Replayers -> Nat]
  BY TypedParts DEF Typed
<1>3. s \notin Replayers
  BY PipelineAssumption
<1>4. CASE RejectInvalid(s) \/ IgnoreDuplicate(s)
  <2>1. /\ pc' = [pc EXCEPT ![s] = "done"]
        /\ response' \in [Callers -> Responses]
        /\ UNCHANGED <<idempotency, queue, receipts, workerVars, storeVars, faultVars>>
    <3>1. CASE RejectInvalid(s)
      BY <1>1, <3>1, AnswerTyped DEF RejectInvalid, Goto
    <3>2. CASE IgnoreDuplicate(s)
      BY <1>1, <3>2, AnswerTyped DEF IgnoreDuplicate, Goto
    <3> QED
      BY <1>4, <3>1, <3>2
  <2>2. pc' \in [Callers -> Places] /\ HandlersTyped'
    BY <1>1, <1>3, <2>1, Moved DEF workerVars, storeVars
  <2> QED
    BY <1>2, <2>1, <2>2, TypedParts
       DEF Typed, RestTyped, TablesTyped, workerVars, storeVars, faultVars
<1>5. CASE Accept(s)
  <2>1. UNCHANGED <<workerVars, deadLetters, newestEstimate, faultVars>>
    BY <1>5 DEF Accept
  <2>2. response' \in [Callers -> Responses]
    BY <1>1, <1>2, <1>5, AnswerTyped DEF Accept, RestTyped
  <2>3. pc' \in [Callers -> Places] /\ HandlersTyped'
    <3>1. CASE pc' = [pc EXCEPT ![s] = "done"]
      BY <1>1, <1>3, <2>1, <3>1, Moved DEF workerVars
    <3>2. CASE pc' = [pc EXCEPT ![s] = "consume"]
      BY <1>1, <1>3, <2>1, <3>2, Moved DEF workerVars
    <3> QED
      BY <1>5, <3>1, <3>2 DEF Accept, Goto
  <2>4. idempotency' \subseteq {Key[x] : x \in Submissions}
    BY <1>2, <1>5 DEF Accept, Remembered, RestTyped
  <2>5. queue' \in Seq(Messages)
    <3>1. Message(s) \in Messages
      BY DEF Message, Messages
    <3> QED
      BY <1>2, <1>5, <3>1 DEF Accept, Enqueued, RestTyped
  <2>6. receipts' \subseteq Submissions /\ rows' \in Counts
    <3>1. Written("received", s) \in Counts
      BY <1>2, WrittenFacts DEF TablesTyped, Tables
    <3> QED
      BY <1>2, <1>5, <3>1 DEF Accept, RestTyped, TablesTyped
  <2> QED
    BY <1>2, <2>1, <2>2, <2>3, <2>4, <2>5, <2>6, TypedParts
       DEF Typed, RestTyped, TablesTyped, workerVars, faultVars
<1> QED
  BY <1>4, <1>5 DEF Submit

LEMMA DeathTyped ==
  ASSUME Typed, Dies, faults' \in Nat
  PROVE  Typed'
<1>1. /\ RestTyped /\ TablesTyped /\ target \in [Replayers -> Nat]
      /\ pc \in [Callers -> Places]
  BY TypedParts DEF Typed
<1>2. pc' \in [Callers -> Places]
      /\ \A c \in Callers : pc'[c] \in {"idle", "done"}
  BY <1>1 DEF Dies, Places
<1>3. HandlersTyped'
  BY <1>2, Actors DEF HandlersTyped, Holding, AttemptCalls
<1>4. response' \in [Callers -> Responses]
  <2>1. [NoResponse EXCEPT !.status = "connection_lost"] \in Responses
    BY DEF NoResponse, Responses, Statuses
  <2> QED
    BY <1>1, <2>1 DEF Dies, RestTyped
<1>5. /\ idempotency' = {} /\ queue' = <<>> /\ receipts' = {}
      /\ deaths' = deaths + 1
      /\ UNCHANGED <<workerVars, storeVars>>
  BY DEF Dies, AfterDeath
<1>6. lost' \subseteq Submissions
  BY <1>1 DEF Dies, RestTyped
<1> QED
  BY <1>1, <1>2, <1>3, <1>4, <1>5, <1>6, TypedParts
     DEF Typed, RestTyped, TablesTyped, workerVars, storeVars

LEMMA ReceiptTyped ==
  ASSUME Typed, NEW s \in Submissions, ReceiptLands(s) \/ ReceiptFails(s)
  PROVE  Typed'
<1>1. /\ RestTyped /\ TablesTyped /\ target \in [Replayers -> Nat]
      /\ pc \in [Callers -> Places]
  BY TypedParts DEF Typed
<1>2. CASE ReceiptLands(s)
  <2>1. Written("received", s) \in Counts
    BY <1>1, WrittenFacts DEF TablesTyped, Tables
  <2>2. HandlersTyped'
    BY <1>2 DEF ReceiptLands, Typed, HandlersTyped, workerVars
  <2> QED
    BY <1>1, <1>2, <2>1, <2>2, TypedParts
       DEF Typed, RestTyped, TablesTyped, ReceiptLands, workerVars, faultVars
<1>3. CASE ReceiptFails(s)
  BY <1>1, <1>3, DeathTyped DEF ReceiptFails, RestTyped
<1> QED
  BY <1>2, <1>3

LEMMA KillTyped ==
  ASSUME Typed, Killed
  PROVE  Typed'
BY DeathTyped, TypedParts DEF Killed, Typed, RestTyped

(* processWithRetries returning, from a consumer or from a replay.          *)
LEMMA ReturnTyped ==
  ASSUME Typed, NEW w \in Workers, NEW status \in {"processed", "dead_lettered"},
         pc[w] \in Holding, Return(w, status), target' = target,
         DOMAIN deadLetters \subseteq DOMAIN deadLetters'
  PROVE  /\ pc' \in [Callers -> Places] /\ HandlersTyped'
         /\ hands' \in [Workers -> Messages \cup {NoMessage}]
         /\ result' \in [Workers -> Results]
<1>1. hands[w].of \in Submissions /\ RestTyped
  BY TypedParts DEF Typed, HandlersTyped, Messages
<1>2. result' \in [Workers -> Results]
  BY <1>1 DEF Return, Results, RestTyped
<1>3. hands' \in [Workers -> Messages \cup {NoMessage}]
      /\ \A v \in Workers \ {w} : hands'[v] = hands[v]
  BY <1>1 DEF Return, RestTyped
<1> DEFINE next == IF w \in Consumers THEN "consume" ELSE "mark_replayed"
<1>4. next \in Places /\ next \notin Holding
  BY DEF Places, Holding, AttemptCalls, UnguardedCalls
<1>5. w \in Replayers => target[w] \in DOMAIN deadLetters
  BY DEF Typed, HandlersTyped, Holding, AttemptCalls
<1>6. next = "mark_replayed" => w \in Replayers
  BY Actors
<1>7. w \in Callers /\ pc' = [pc EXCEPT ![w] = next]
  BY Actors DEF Return, Goto
<1>8. next # "replay_audit"
  OBVIOUS
<1> HIDE DEF next
<1> QED
  BY <1>2, <1>3, <1>4, <1>5, <1>6, <1>7, <1>8, Moved

(* A worker that goes from one call of an attempt to another with the same  *)
(* message.                                                                 *)
LEMMA NextCall ==
  ASSUME Typed, NEW w \in Workers, pc[w] \in Holding, NEW next \in Holding,
         Goto(w, next), hands' = hands, target' = target,
         DOMAIN deadLetters \subseteq DOMAIN deadLetters'
  PROVE  pc' \in [Callers -> Places] /\ HandlersTyped'
<1>1. next \in Places /\ next \notin {"mark_replayed", "replay_audit"}
  BY DEF Places, Holding, AttemptCalls, UnguardedCalls
<1>2. hands[w] \in Messages
      /\ (w \in Replayers => target[w] \in DOMAIN deadLetters)
  BY DEF Typed, HandlersTyped, Holding, AttemptCalls
<1> QED
  BY <1>1, <1>2, Actors, Moved DEF Goto

LEMMA AttemptTyped ==
  ASSUME Typed, NEW w \in Workers, Attempt(w)
  PROVE  Typed'
<1>1. StoreStep(w)
  BY AttemptStores
<1>2. RestTyped /\ target \in [Replayers -> Nat]
  BY TypedParts DEF Typed
<1>3. CASE SaveProcessedLog(w)
  <2>1. pc[w] \in Holding /\ target' = target /\ Return(w, "processed")
    BY <1>3 DEF SaveProcessedLog, Holding, AttemptCalls
  <2>2. DOMAIN deadLetters \subseteq DOMAIN deadLetters'
    BY <1>1 DEF StoreStep
  <2>3. /\ pc' \in [Callers -> Places] /\ HandlersTyped'
        /\ hands' \in [Workers -> Messages \cup {NoMessage}]
        /\ result' \in [Workers -> Results]
    BY <2>1, <2>2, ReturnTyped
  <2>4. UNCHANGED <<idempotency, queue, receipts, attempt, target, response,
                    faultVars>>
    BY <1>3 DEF SaveProcessedLog
  <2> QED
    BY <1>1, <1>2, <2>3, <2>4, TypedParts
       DEF Typed, RestTyped, TablesTyped, StoreStep, faultVars
<1>4. CASE ~SaveProcessedLog(w)
  <2>1. /\ pc[w] \in Holding
        /\ \E next \in Holding : Goto(w, next)
        /\ UNCHANGED <<idempotency, queue, receipts, workerVars, response, faultVars>>
    BY <1>4 DEF Attempt, CreateLead, CreateLeadConflicts, SaveLeadEvent,
         SaveLeadEventConflicts, SaveSolarEstimate, SaveReplyDraft, SaveDraftAudit,
         Insert, AttemptCalls, Holding
  <2>2. pc' \in [Callers -> Places] /\ HandlersTyped'
    BY <1>1, <2>1, NextCall DEF StoreStep, workerVars
  <2> QED
    BY <1>1, <1>2, <2>1, <2>2, TypedParts
       DEF Typed, RestTyped, TablesTyped, StoreStep, workerVars, faultVars
<1> QED
  BY <1>3, <1>4

LEMMA GiveUpTyped ==
  ASSUME Typed, NEW w \in Workers, GiveUp(w)
  PROVE  Typed'
<1>1. StoreStep(w)
  BY GiveUpStores
<1>2. RestTyped /\ target \in [Replayers -> Nat]
  BY TypedParts DEF Typed
<1>3. CASE SaveDlqAudit(w)
  <2>1. pc[w] \in Holding /\ target' = target /\ Return(w, "dead_lettered")
    BY <1>3 DEF SaveDlqAudit, Holding
  <2>2. DOMAIN deadLetters \subseteq DOMAIN deadLetters'
    BY <1>1 DEF StoreStep
  <2>3. /\ pc' \in [Callers -> Places] /\ HandlersTyped'
        /\ hands' \in [Workers -> Messages \cup {NoMessage}]
        /\ result' \in [Workers -> Results]
    BY <2>1, <2>2, ReturnTyped
  <2>4. UNCHANGED <<idempotency, queue, receipts, attempt, target, response,
                    faultVars>>
    BY <1>3 DEF SaveDlqAudit
  <2> QED
    BY <1>1, <1>2, <2>3, <2>4, TypedParts
       DEF Typed, RestTyped, TablesTyped, StoreStep, faultVars
<1>4. CASE ~SaveDlqAudit(w)
  <2>1. /\ pc[w] \in Holding
        /\ \E next \in Holding : Goto(w, next)
        /\ UNCHANGED <<idempotency, queue, receipts, hands, result, target, response,
                       faultVars>>
    BY <1>4, FirstCallPlace DEF GiveUp, SaveFailedLog, CreateDeadLetter, AfterRetries,
         AttemptCalls, Holding, workerVars
  <2>2. pc' \in [Callers -> Places] /\ HandlersTyped'
    BY <1>1, <2>1, NextCall DEF StoreStep
  <2>3. attempt' \in [Workers -> 0 .. MaxRetries]
    <3>1. CASE attempt' = attempt
      BY <1>2, <3>1 DEF RestTyped
    <3>2. CASE attempt[w] < MaxRetries /\ attempt' = [attempt EXCEPT ![w] = @ + 1]
      BY <1>2, <3>2, Actors DEF RestTyped
    <3> QED
      BY <1>4, <3>1, <3>2 DEF GiveUp, SaveFailedLog, MoreAttempts, CreateDeadLetter,
         workerVars
  <2> QED
    BY <1>1, <1>2, <2>1, <2>2, <2>3, TypedParts
       DEF Typed, RestTyped, TablesTyped, StoreStep, faultVars
<1> QED
  BY <1>3, <1>4

LEMMA BeginTyped ==
  ASSUME Typed, NEW w \in Workers, NEW m \in Messages, BeginAttempts(w, m)
  PROVE  /\ hands' \in [Workers -> Messages \cup {NoMessage}]
         /\ attempt' \in [Workers -> 0 .. MaxRetries]
         /\ hands'[w] = m /\ \A v \in Workers \ {w} : hands'[v] = hands[v]
<1>1. /\ hands \in [Workers -> Messages \cup {NoMessage}]
      /\ attempt \in [Workers -> 0 .. MaxRetries]
  BY TypedParts DEF Typed, RestTyped
<1>2. 1 \in 0 .. MaxRetries
  BY Actors
<1> QED
  BY <1>1, <1>2 DEF BeginAttempts

LEMMA ConsumeTyped ==
  ASSUME Typed, NEW w \in Consumers, Consume(w)
  PROVE  Typed'
<1>1. /\ w \in Callers /\ w \in Workers /\ w \notin Replayers
  BY Actors
<1>2. RestTyped /\ TablesTyped /\ target \in [Replayers -> Nat]
  BY TypedParts DEF Typed
<1>3. CASE TakeMessage(w)
  <2>1. Head(queue) \in Messages /\ Tail(queue) \in Seq(Messages)
    BY <1>2, <1>3 DEF TakeMessage, RestTyped
  <2>2. /\ hands' \in [Workers -> Messages \cup {NoMessage}]
        /\ attempt' \in [Workers -> 0 .. MaxRetries]
        /\ hands'[w] \in Messages
        /\ \A v \in Workers \ {w} : hands'[v] = hands[v]
    BY <1>1, <1>3, <2>1, BeginTyped DEF TakeMessage
  <2>3. /\ queue' = Tail(queue)
        /\ UNCHANGED <<idempotency, receipts, result, target, response, storeVars,
                       faultVars>>
    BY <1>3 DEF TakeMessage, Shifted
  <2>4. \E next \in {"failed", "leads"} : pc' = [pc EXCEPT ![w] = next]
    BY <1>3, FirstCallPlace DEF TakeMessage, Goto
  <2>5. {"failed", "leads"} \subseteq Places
    BY DEF Places, AttemptCalls, UnguardedCalls
  <2>6. pc' \in [Callers -> Places] /\ HandlersTyped'
    BY <1>1, <2>2, <2>3, <2>4, <2>5, Moved DEF storeVars
  <2> QED
    BY <1>2, <2>1, <2>2, <2>3, <2>6, TypedParts
       DEF Typed, RestTyped, TablesTyped, storeVars, faultVars
<1>4. CASE QueueDrained(w) \/ Respond(w)
  <2>1. /\ \E next \in {"respond", "done"} : pc' = [pc EXCEPT ![w] = next]
        /\ UNCHANGED <<idempotency, queue, receipts, workerVars, storeVars, faultVars>>
    BY <1>4 DEF QueueDrained, Respond, Goto
  <2>2. {"respond", "done"} \subseteq Places /\ {"respond", "done"} \cap Holding = {}
    BY DEF Places, Holding, AttemptCalls
  <2>3. pc' \in [Callers -> Places] /\ HandlersTyped'
    BY <1>1, <2>1, <2>2, Moved DEF workerVars, storeVars
  <2>4. response' \in [Callers -> Responses]
    <3>1. CASE QueueDrained(w)
      BY <1>2, <3>1 DEF QueueDrained, RestTyped
    <3>2. CASE Respond(w)
      <4>1. {"queued", "dead_lettered", "server_error"} \subseteq Statuses
        BY DEF Statuses
      <4>2. result[w].of \in Submissions \cup {None}
        BY <1>1, <1>2 DEF RestTyped, Results
      <4>3. [status |-> "estimate_created", lead |-> result[w].of,
             estimate |-> newestEstimate] \in Responses
        BY <1>2, <4>2 DEF Responses, Statuses, TablesTyped
      <4>4. \/ \E status \in {"queued", "dead_lettered", "server_error"} :
                  Answer(w, status)
            \/ response' = [response EXCEPT ![w] =
                  [status |-> "estimate_created", lead |-> result[w].of,
                   estimate |-> newestEstimate]]
        BY <3>2 DEF Respond
      <4> QED
        BY <1>1, <1>2, <4>1, <4>3, <4>4, AnswerTyped DEF RestTyped
    <3> QED
      BY <1>4, <3>1, <3>2
  <2> QED
    BY <1>2, <2>1, <2>3, <2>4, TypedParts
       DEF Typed, RestTyped, TablesTyped, workerVars, storeVars, faultVars
<1> QED
  BY <1>3, <1>4 DEF Consume

LEMMA ReplayTyped ==
  ASSUME Typed, NEW w \in Replayers, Replay(w)
  PROVE  Typed'
<1>1. w \in Callers /\ w \in Workers
  BY Actors
<1>2. RestTyped /\ TablesTyped /\ target \in [Replayers -> Nat]
  BY TypedParts DEF Typed
<1>3. ASSUME NEW d \in DOMAIN deadLetters, NEW throws \in BOOLEAN,
             StartReplay(w, d, throws)
      PROVE  Typed'
  <2> DEFINE m == [of |-> deadLetters[d].of, throws |-> throws]
  <2>1. m \in Messages /\ d \in Nat
    <3>1. deadLetters \in Seq(Letter)
      BY <1>2 DEF TablesTyped
    <3>2. deadLetters[d] \in Letter /\ d \in Nat
      BY <3>1
    <3>3. deadLetters[d].of \in Submissions
      BY <3>2 DEF Letter
    <3> QED
      BY <3>2, <3>3 DEF Messages
  <2>2. /\ BeginAttempts(w, m) /\ Goto(w, FirstCall(m))
        /\ target' = [target EXCEPT ![w] = d]
        /\ UNCHANGED <<idempotency, queue, receipts, result, response, storeVars,
                       faultVars>>
    BY <1>3 DEF StartReplay
  <2> HIDE DEF m
  <2>3. /\ hands' \in [Workers -> Messages \cup {NoMessage}]
        /\ attempt' \in [Workers -> 0 .. MaxRetries]
        /\ hands'[w] \in Messages
        /\ \A v \in Workers \ {w} : hands'[v] = hands[v]
    BY <1>1, <2>1, <2>2, BeginTyped
  <2>4. /\ target' \in [Replayers -> Nat] /\ target'[w] = d
        /\ \A v \in Replayers \ {w} : target'[v] = target[v]
    BY <1>2, <2>1, <2>2
  <2>5. \E next \in {"failed", "leads"} : pc' = [pc EXCEPT ![w] = next]
    BY <2>2, FirstCallPlace DEF Goto
  <2>6. {"failed", "leads"} \subseteq Places
    BY DEF Places, AttemptCalls, UnguardedCalls
  <2>7. pc' \in [Callers -> Places] /\ HandlersTyped'
    BY <1>1, <2>2, <2>3, <2>4, <2>5, <2>6, Moved DEF storeVars
  <2> QED
    BY <1>2, <2>2, <2>3, <2>4, <2>7, TypedParts
       DEF Typed, RestTyped, TablesTyped, storeVars, faultVars
<1>4. CASE ReplayUnknown(w)
  <2>1. /\ pc' = [pc EXCEPT ![w] = "done"]
        /\ response' \in [Callers -> Responses]
        /\ UNCHANGED <<idempotency, queue, receipts, workerVars, storeVars, faultVars>>
    BY <1>1, <1>4, AnswerTyped DEF ReplayUnknown, Goto, Statuses
  <2>2. "done" \in Places /\ "done" \notin Holding
    BY DEF Places, Holding, AttemptCalls
  <2>3. pc' \in [Callers -> Places] /\ HandlersTyped'
    BY <1>1, <2>1, <2>2, Moved DEF workerVars, storeVars
  <2> QED
    BY <1>2, <2>1, <2>3, TypedParts
       DEF Typed, RestTyped, TablesTyped, workerVars, storeVars, faultVars
<1> QED
  BY <1>3, <1>4 DEF Replay

LEMMA FinishReplayTyped ==
  ASSUME Typed, NEW w \in Replayers, FinishReplay(w)
  PROVE  Typed'
<1>1. w \in Callers /\ w \in Workers /\ StoreStep(w)
  BY Actors, FinishReplayStores
<1>2. RestTyped /\ target \in [Replayers -> Nat]
  BY TypedParts DEF Typed
<1>3. target[w] \in DOMAIN deadLetters
  BY DEF Typed, HandlersTyped, FinishReplay, MarkReplayed, SaveReplayAudit
<1>4. /\ \E next \in {"replay_audit", "done"} : pc' = [pc EXCEPT ![w] = next]
      /\ UNCHANGED <<idempotency, queue, receipts, workerVars, faultVars>>
  BY DEF FinishReplay, MarkReplayed, SaveReplayAudit, Goto
<1>5. {"replay_audit", "done"} \subseteq Places
      /\ {"replay_audit", "done"} \cap Holding = {}
  BY DEF Places, Holding, AttemptCalls, UnguardedCalls
<1>6. pc' \in [Callers -> Places] /\ HandlersTyped'
  BY <1>1, <1>3, <1>4, <1>5, Moved DEF workerVars, StoreStep
<1>7. response' \in [Callers -> Responses]
  BY <1>1, <1>2, AnswerTyped
     DEF FinishReplay, MarkReplayed, SaveReplayAudit, RestTyped, Statuses
<1> QED
  BY <1>1, <1>2, <1>4, <1>6, <1>7, TypedParts
     DEF Typed, RestTyped, TablesTyped, StoreStep, workerVars, faultVars

LEMMA FaultTyped ==
  ASSUME Typed, NEW w \in Workers, Fault(w)
  PROVE  Typed'
<1>1. w \in Callers /\ StoreStep(w)
  BY Actors, FaultStores
<1>2. RestTyped /\ target \in [Replayers -> Nat]
  BY TypedParts DEF Typed
<1>3. /\ faults' = faults + 1
      /\ UNCHANGED <<idempotency, queue, receipts, workerVars, deaths, lost>>
  BY DEF Fault, AttemptCallFails, UnguardedCallFails, StoreFault
<1>4. pc' \in [Callers -> Places] /\ HandlersTyped'
  <2>1. CASE AttemptCallFails(w)
    <3>1. pc[w] \in Holding /\ Goto(w, "failed") /\ "failed" \in Holding
      BY <2>1 DEF AttemptCallFails, Holding
    <3> QED
      BY <1>1, <1>3, <3>1, NextCall DEF StoreStep, workerVars
  <2>2. CASE UnguardedCallFails(w)
    <3>1. pc' = [pc EXCEPT ![w] = "done"]
      BY <2>2 DEF UnguardedCallFails, Goto
    <3>2. "done" \in Places /\ "done" \notin Holding
      BY DEF Places, Holding, AttemptCalls
    <3> QED
      BY <1>1, <1>3, <3>1, <3>2, Moved DEF StoreStep, workerVars
  <2> QED
    BY <2>1, <2>2 DEF Fault
<1>5. response' \in [Callers -> Responses]
  BY <1>1, <1>2, AnswerTyped
     DEF Fault, AttemptCallFails, UnguardedCallFails, RestTyped, Statuses
<1> QED
  BY <1>1, <1>2, <1>3, <1>4, <1>5, TypedParts
     DEF Typed, RestTyped, TablesTyped, StoreStep, workerVars

LEMMA TypeInvariant == Spec => []Typed
<1>1. Init => Typed
  <2> SUFFICES ASSUME Init PROVE Typed
    OBVIOUS
  <2>1. RestTyped
    <3>1. NoResult \in Results /\ NoResponse \in Responses
      BY DEF NoResult, Results, NoResponse, Responses, Statuses
    <3>2. 0 \in 0 .. MaxRetries
      BY Actors
    <3>3. queue \in Seq(Messages) /\ receipts \subseteq Submissions /\ faults \in Nat
          /\ idempotency \subseteq {Key[s] : s \in Submissions}
      BY DEF Init
    <3>4. deaths \in Nat /\ lost \subseteq Submissions
      BY DEF Init
    <3>5. /\ hands \in [Workers -> Messages \cup {NoMessage}]
          /\ attempt \in [Workers -> 0 .. MaxRetries]
      BY <3>2 DEF Init
    <3>6. result \in [Workers -> Results] /\ response \in [Callers -> Responses]
      BY <3>1 DEF Init
    <3> QED
      BY <3>3, <3>4, <3>5, <3>6 DEF RestTyped
  <2>2. TablesTyped /\ pc \in [Callers -> Places] /\ target \in [Replayers -> Nat]
    BY DEF Init, TablesTyped, Counts, Places
  <2>3. HandlersTyped
    BY Actors DEF Init, HandlersTyped, Holding, AttemptCalls
  <2> QED
    BY <2>1, <2>2, <2>3, TypedParts DEF Typed
<1>2. Typed /\ [Next]_vars => Typed'
  <2> SUFFICES ASSUME Typed, [Next]_vars PROVE Typed'
    OBVIOUS
  <2>1. CASE Next
    <3>1. ASSUME NEW w \in Workers, Work(w) PROVE Typed'
      BY <3>1, ConsumeTyped, AttemptTyped, GiveUpTyped, FinishReplayTyped DEF Work
    <3> QED
      BY <2>1, <3>1, SubmitTyped, ReceiptTyped, KillTyped, FaultTyped, ReplayTyped
         DEF Next
  <2>2. CASE UNCHANGED vars
    <3>1. TypeOK' /\ HandlersTyped'
      BY <2>2 DEF vars, workerVars, storeVars, faultVars, Typed, TypeOK, HandlersTyped
    <3> QED
      BY <3>1 DEF Typed
  <2> QED
    BY <2>1, <2>2
<1> QED
  BY <1>1, <1>2, PTL DEF Spec

-----------------------------------------------------------------------------
(* Where submissions are                                                    *)

(* A store call of w finishes nothing but w's message.                      *)
LEMMA StepFinishes ==
  ASSUME Typed, NEW w \in Workers, StoreStep(w), NEW s \in Submissions
  PROVE  /\ DeadLettersOf(s) # {} => DeadLettersOf(s)' # {}
         /\ Finished(s) => Finished(s)'
         /\ Finished(s)' => Finished(s) \/ s = hands[w].of
         /\ rows'["received"][s] = rows["received"][s]
BY DEF StoreStep, DeadLettersOf, Finished

(* What a worker holds is not in the queue and was submitted.               *)
LEMMA HeldElsewhere ==
  ASSUME Typed, IInv, NEW w \in Workers, hands[w].of \in Submissions
  PROVE  ~InQueue(hands[w].of) /\ pc[hands[w].of] # "idle"
<1>1. hands[w] # NoMessage
  BY Actors DEF NoMessage
<1>2. CASE w \in Consumers
  <2>1. HeldBy(hands[w].of) # {}
    BY <1>2 DEF HeldBy
  <2> QED
    BY <2>1 DEF IInv, HandledOnce, Flow
<1>3. CASE w \in Replayers
  <2>1. Finished(hands[w].of)
    BY <1>1, <1>3 DEF IInv, Flow, Finished
  <2> QED
    BY <2>1 DEF IInv, HandledOnce, Flow
<1> QED
  BY <1>2, <1>3, Actors

(* A worker makes a store call and keeps its message, or lets go of one     *)
(* that is finished.                                                        *)
LEMMA StoreKeeps ==
  ASSUME Typed, IInv, NEW w \in Workers, NEW h, h = hands[w].of, StoreStep(w),
         queue' = queue, receipts' = receipts, lost' = lost,
         idempotency' = idempotency,
         \A v \in Workers \ {w} : hands'[v] = hands[v],
         \/ hands'[w] = hands[w]
         \/ hands'[w] = NoMessage /\ (h \in Submissions => Finished(h)'),
         \A c \in Callers \ {w} : pc'[c] = pc[c],
         pc'[w] # "idle",
         pc'[w] = "consume" => hands'[w] = NoMessage,
         pc'[w] = "dlq_audit" => hands'[w] = hands[w] /\ DeadLettersOf(h)' # {}
  PROVE  IInv'
<1> USE Actors
<1>1. \A s \in Submissions :
        /\ DeadLettersOf(s) # {} => DeadLettersOf(s)' # {}
        /\ Finished(s) => Finished(s)'
        /\ Finished(s)' => Finished(s) \/ s = hands[w].of
        /\ Accepted(s)' <=> Accepted(s)
        /\ InQueue(s)' <=> InQueue(s)
  BY StepFinishes DEF Accepted, InQueue
<1>2. NoMessage.of \notin Submissions
  BY DEF NoMessage
<1>3. \A v \in Workers : hands'[v] # NoMessage => hands'[v] = hands[v]
  OBVIOUS
<1>4. \A s \in Submissions : HeldBy(s)' \subseteq HeldBy(s)
  BY <1>2, <1>3 DEF HeldBy
<1>5. ASSUME NEW s \in Submissions, HeldBy(s) # {}
      PROVE  HeldBy(s)' # {} \/ Finished(s)'
  <2>1. PICK v \in Consumers : hands[v].of = s
    BY <1>5 DEF HeldBy
  <2>2. CASE hands'[v] = hands[v]
    BY <2>1, <2>2 DEF HeldBy
  <2>3. CASE hands'[v] # hands[v]
    <3>1. v = w /\ h = s
      BY <2>1, <2>3
    <3> QED
      BY <2>3, <3>1
  <2> QED
    BY <2>2, <2>3
<1>6. \A s \in Submissions : Finished(s)' => Finished(s) \/ (~InQueue(s) /\ pc[s] # "idle")
  BY <1>1, HeldElsewhere
<1>7. \A v \in Workers : hands[v] \in Messages \cup {NoMessage}
  BY TypedParts DEF Typed, RestTyped
<1>8. HandledOnce'
  <2>1. \A i, j \in DOMAIN queue' : queue'[i].of = queue'[j].of => i = j
    BY DEF IInv, HandledOnce
  <2>2. \A s \in Submissions : InQueue(s)' => HeldBy(s)' = {} /\ ~Finished(s)'
    BY <1>1, <1>4, <1>6 DEF IInv, HandledOnce
  <2>3. \A u, v \in Consumers :
          hands'[u].of = hands'[v].of /\ hands'[u] # NoMessage => u = v
    <3>1. ASSUME NEW u \in Consumers, NEW v \in Consumers,
                 hands'[u].of = hands'[v].of, hands'[u] # NoMessage
          PROVE  u = v
      <4>1. hands'[u] = hands[u] /\ hands[u] \in Messages
        BY <1>3, <1>7, <3>1
      <4>2. hands[u].of \in Submissions
        BY <4>1 DEF Messages
      <4>3. hands'[v] # NoMessage
        BY <1>2, <3>1, <4>1, <4>2
      <4>4. hands'[v] = hands[v]
        BY <1>3, <4>3
      <4> QED
        BY <3>1, <4>1, <4>4 DEF IInv, HandledOnce
    <3> QED
      BY <3>1
  <2> QED
    BY <2>1, <2>2, <2>3 DEF HandledOnce
<1>9. Accounted'
  BY <1>1, <1>5 DEF IInv, Accounted
<1>10. Flow'
  <2>1. \A s \in Submissions :
          pc'[s] = "idle" =>
            ~InQueue(s)' /\ HeldBy(s)' = {} /\ ~Finished(s)' /\ s \notin lost'
    BY <1>1, <1>4, <1>6 DEF IInv, Flow
  <2>2. \A v \in Workers : pc'[v] \in {"idle", "consume"} => hands'[v] = NoMessage
    BY DEF IInv, Flow
  <2>3. \A v \in Replayers :
          hands'[v] # NoMessage => \E m : m = hands'[v].of /\ DeadLettersOf(m)' # {}
    <3>1. ASSUME NEW v \in Replayers, hands'[v] # NoMessage
          PROVE  \E m : m = hands'[v].of /\ DeadLettersOf(m)' # {}
      <4>1. hands'[v] = hands[v] /\ hands[v] \in Messages
        BY <1>3, <1>7, <3>1
      <4>2. PICK m : m = hands[v].of
        OBVIOUS
      <4>3. m \in Submissions
        BY <4>1, <4>2 DEF Messages
      <4>4. DeadLettersOf(m) # {}
        BY <3>1, <4>1, <4>2 DEF IInv, Flow
      <4> QED
        BY <1>1, <4>1, <4>2, <4>3, <4>4
    <3> QED
      BY <3>1
  <2>4. \A v \in Workers :
          pc'[v] = "dlq_audit" => \E m : m = hands'[v].of /\ DeadLettersOf(m)' # {}
    <3>1. ASSUME NEW v \in Workers \ {w}, pc'[v] = "dlq_audit"
          PROVE  \E m : m = hands'[v].of /\ DeadLettersOf(m)' # {}
      <4>1. pc[v] = "dlq_audit" /\ hands'[v] = hands[v]
        BY <3>1
      <4>2. PICK m : m = hands[v].of
        OBVIOUS
      <4>3. m \in Submissions
        BY <4>1, <4>2 DEF Typed, HandlersTyped, Holding, Messages
      <4>4. DeadLettersOf(m) # {}
        BY <4>1, <4>2 DEF IInv, Flow
      <4> QED
        BY <1>1, <4>1, <4>2, <4>3, <4>4
    <3> QED
      BY <3>1
  <2>5. \A v \in Replayers : hands'[v] # NoMessage => (DeadLettersOf(hands[v].of))' # {}
    BY <2>3 DEF DeadLettersOf
  <2>6. \A v \in Workers : pc'[v] = "dlq_audit" => (DeadLettersOf(hands[v].of))' # {}
    BY <2>4 DEF DeadLettersOf
  <2> QED
    BY <2>1, <2>2, <2>5, <2>6 DEF Flow
<1> QED
  BY <1>8, <1>9, <1>10 DEF IInv

LEMMA PcFacts ==
  ASSUME Typed, NEW c \in Callers, NEW next, Goto(c, next)
  PROVE  pc'[c] = next /\ \A d \in Callers \ {c} : pc'[d] = pc[d]
<1>1. pc \in [Callers -> Places]
  BY TypedParts DEF Typed
<1> QED
  BY <1>1 DEF Goto

LEMMA ReturnFacts ==
  ASSUME Typed, NEW w \in Workers, NEW status, Return(w, status)
  PROVE  /\ hands'[w] = NoMessage /\ \A v \in Workers \ {w} : hands'[v] = hands[v]
         /\ pc'[w] \in {"consume", "mark_replayed"}
         /\ \A c \in Callers \ {w} : pc'[c] = pc[c]
<1>1. hands \in [Workers -> Messages \cup {NoMessage}] /\ w \in Callers
  BY Actors, TypedParts DEF Typed, RestTyped
<1> QED
  BY <1>1, PcFacts DEF Return

LEMMA AttemptKeeps ==
  ASSUME Typed, IInv, NEW w \in Workers, Attempt(w)
  PROVE  IInv'
<1>1. StoreStep(w) /\ w \in Callers
  BY AttemptStores, Actors
<1>2. PICK h : h = hands[w].of
  OBVIOUS
<1>3. UNCHANGED <<idempotency, queue, receipts, lost>>
  BY DEF Attempt, CreateLead, CreateLeadConflicts, SaveLeadEvent,
         SaveLeadEventConflicts, SaveSolarEstimate, SaveReplyDraft, SaveDraftAudit,
         SaveProcessedLog, Insert, faultVars
<1>4. CASE SaveProcessedLog(w)
  <2>1. /\ hands'[w] = NoMessage /\ \A v \in Workers \ {w} : hands'[v] = hands[v]
        /\ pc'[w] \in {"consume", "mark_replayed"}
        /\ \A c \in Callers \ {w} : pc'[c] = pc[c]
    BY <1>4, ReturnFacts DEF SaveProcessedLog
  <2>2. h \in Submissions => Finished(h)'
    <3>1. rows' = Written("processed", h)
      BY <1>2, <1>4 DEF SaveProcessedLog
    <3>2. "processed" \in Tables /\ rows \in Counts
      BY StoreTyped DEF Tables, AttemptCalls
    <3>3. h \in Submissions => rows[ "processed"][h] \in Nat
      BY <3>2 DEF Counts
    <3>4. h \in Submissions => rows'["processed"][h] > 0
      BY <3>1, <3>2, <3>3, WrittenFacts
    <3> QED
      BY <3>4 DEF Finished
  <2> QED
    BY <1>1, <1>2, <1>3, <2>1, <2>2, StoreKeeps
<1>5. CASE ~SaveProcessedLog(w)
  <2>1. /\ \E next \in AttemptCalls \cup {"failed"} : Goto(w, next)
        /\ hands' = hands
    BY <1>5 DEF Attempt, CreateLead, CreateLeadConflicts, SaveLeadEvent,
         SaveLeadEventConflicts, SaveSolarEstimate, SaveReplyDraft, SaveDraftAudit,
         Insert, AttemptCalls, workerVars
  <2>2. /\ pc'[w] \in AttemptCalls \cup {"failed"}
        /\ \A c \in Callers \ {w} : pc'[c] = pc[c]
    BY <1>1, <2>1, PcFacts
  <2> QED
    BY <1>1, <1>2, <1>3, <2>1, <2>2, StoreKeeps DEF AttemptCalls
<1> QED
  BY <1>4, <1>5

LEMMA GiveUpKeeps ==
  ASSUME Typed, IInv, NEW w \in Workers, GiveUp(w)
  PROVE  IInv'
<1>1. StoreStep(w) /\ w \in Callers
  BY GiveUpStores, Actors
<1>2. PICK h : h = hands[w].of
  OBVIOUS
<1>3. UNCHANGED <<idempotency, queue, receipts, lost>>
  BY DEF GiveUp, SaveFailedLog, CreateDeadLetter, SaveDlqAudit, faultVars
<1>4. CASE SaveDlqAudit(w)
  <2>1. /\ hands'[w] = NoMessage /\ \A v \in Workers \ {w} : hands'[v] = hands[v]
        /\ pc'[w] \in {"consume", "mark_replayed"}
        /\ \A c \in Callers \ {w} : pc'[c] = pc[c]
    BY <1>4, ReturnFacts DEF SaveDlqAudit
  <2>2. DeadLettersOf(h) # {}
    BY <1>2, <1>4 DEF SaveDlqAudit, IInv, Flow
  <2>3. h \in Submissions => Finished(h)'
    BY <1>1, <2>2, StepFinishes DEF Finished
  <2> QED
    BY <1>1, <1>2, <1>3, <2>1, <2>3, StoreKeeps
<1>5. CASE SaveFailedLog(w)
  <2>1. /\ \E next \in {"failed", "leads", "dead_letters"} : Goto(w, next)
        /\ hands' = hands
    BY <1>5, FirstCallPlace DEF SaveFailedLog, AfterRetries
  <2>2. /\ pc'[w] \in {"failed", "leads", "dead_letters"}
        /\ \A c \in Callers \ {w} : pc'[c] = pc[c]
    BY <1>1, <2>1, PcFacts
  <2> QED
    BY <1>1, <1>2, <1>3, <2>1, <2>2, StoreKeeps
<1>6. CASE CreateDeadLetter(w)
  <2>1. Goto(w, "dlq_audit") /\ hands' = hands /\ pc[w] = "dead_letters"
    BY <1>6 DEF CreateDeadLetter, workerVars
  <2>2. /\ pc'[w] = "dlq_audit"
        /\ \A c \in Callers \ {w} : pc'[c] = pc[c]
    BY <1>1, <2>1, PcFacts
  <2>3. DeadLettersOf(h)' # {}
    BY <1>2, <2>1, GiveUpStores DEF DeadLettersOf
  <2> QED
    BY <1>1, <1>2, <1>3, <2>1, <2>2, <2>3, StoreKeeps
<1> QED
  BY <1>4, <1>5, <1>6 DEF GiveUp

LEMMA FinishReplayKeeps ==
  ASSUME Typed, IInv, NEW w \in Replayers, FinishReplay(w)
  PROVE  IInv'
<1>1. StoreStep(w) /\ w \in Callers /\ w \in Workers
  BY FinishReplayStores, Actors
<1>2. PICK h : h = hands[w].of
  OBVIOUS
<1>3. /\ UNCHANGED <<idempotency, queue, receipts, lost, hands>>
      /\ \E next \in {"replay_audit", "done"} : Goto(w, next)
  BY DEF FinishReplay, MarkReplayed, SaveReplayAudit, faultVars, workerVars
<1>4. /\ pc'[w] \in {"replay_audit", "done"}
      /\ \A c \in Callers \ {w} : pc'[c] = pc[c]
  BY <1>1, <1>3, PcFacts
<1> QED
  BY <1>1, <1>2, <1>3, <1>4, StoreKeeps

LEMMA FaultKeeps ==
  ASSUME Typed, IInv, NEW w \in Workers, Fault(w)
  PROVE  IInv'
<1>1. StoreStep(w) /\ w \in Callers
  BY FaultStores, Actors
<1>2. PICK h : h = hands[w].of
  OBVIOUS
<1>3. /\ UNCHANGED <<idempotency, queue, receipts, lost, hands>>
      /\ \E next \in {"failed", "done"} : Goto(w, next)
  BY DEF Fault, AttemptCallFails, UnguardedCallFails, StoreFault, workerVars
<1>4. /\ pc'[w] \in {"failed", "done"}
      /\ \A c \in Callers \ {w} : pc'[c] = pc[c]
  BY <1>1, <1>3, PcFacts
<1> QED
  BY <1>1, <1>2, <1>3, <1>4, StoreKeeps

(* A caller is answered, or finds the queue empty; nothing else changes.    *)
LEMMA OnlyMoved ==
  ASSUME Typed, IInv, NEW c \in Callers, NEW next \in {"done", "respond"},
         Goto(c, next),
         UNCHANGED <<idempotency, queue, receipts, hands, lost, storeVars>>
  PROVE  IInv'
<1>1. pc'[c] = next /\ \A d \in Callers \ {c} : pc'[d] = pc[d]
  BY PcFacts
<1>2. HandledOnce' /\ Accounted'
  BY DEF IInv, HandledOnce, Accounted, InQueue, HeldBy, Finished, Accepted,
         DeadLettersOf, storeVars
<1>3. Flow'
  BY <1>1, Actors DEF IInv, Flow, InQueue, HeldBy, Finished, DeadLettersOf, storeVars
<1> QED
  BY <1>2, <1>3 DEF IInv

LEMMA AcceptKeeps ==
  ASSUME Typed, IInv, NEW s \in Submissions, Accept(s)
  PROVE  IInv'
<1> USE Actors
<1>1. /\ s \in Callers /\ pc[s] = "idle" /\ queue' = Append(queue, Message(s))
      /\ idempotency' = idempotency \cup {Key[s]}
      /\ UNCHANGED <<hands, deadLetters, lost>>
      /\ \E next \in {"consume", "done"} : Goto(s, next)
  BY DEF Accept, Enqueued, Remembered, workerVars, faultVars
<1>2. pc'[s] \in {"consume", "done"} /\ \A d \in Callers \ {s} : pc'[d] = pc[d]
  BY <1>1, PcFacts
<1>3. \A x \in Submissions :
        /\ Finished(x)' <=> Finished(x)
        /\ Accepted(x)' => Accepted(x) \/ x = s
  <2>1. {"received", "processed"} \subseteq Tables /\ rows \in Counts
    BY StoreTyped DEF Tables, AttemptCalls
  <2>2. CASE rows' = Written("received", s) /\ receipts' = receipts
    <3>1. \A x \in Submissions :
            /\ rows'["processed"][x] = rows["processed"][x]
            /\ x # s => rows'["received"][x] = rows["received"][x]
      BY <2>1, <2>2, WrittenFacts
    <3> QED
      BY <1>1, <2>2, <3>1 DEF Finished, Accepted, DeadLettersOf
  <2>3. CASE receipts' = receipts \cup {s} /\ rows' = rows
    BY <1>1, <2>3 DEF Finished, Accepted, DeadLettersOf
  <2> QED
    BY <2>2, <2>3 DEF Accept
<1>4. /\ DOMAIN queue' = DOMAIN queue \cup {Len(queue) + 1}
      /\ \A i \in DOMAIN queue : queue'[i] = queue[i]
      /\ queue'[Len(queue) + 1].of = s
  <2>1. queue \in Seq(Messages) /\ Message(s) \in Messages /\ Message(s).of = s
    BY TypedParts DEF Typed, RestTyped, Message, Messages
  <2>2. /\ queue' \in Seq(Messages) /\ Len(queue') = Len(queue) + 1
        /\ \A i \in 1 .. Len(queue) : queue'[i] = queue[i]
        /\ queue'[Len(queue) + 1] = Message(s)
    BY <1>1, <2>1
  <2>3. /\ Len(queue) \in Nat /\ DOMAIN queue = 1 .. Len(queue)
        /\ DOMAIN queue' = 1 .. Len(queue')
    BY <2>1, <2>2
  <2>4. DOMAIN queue' = DOMAIN queue \cup {Len(queue) + 1}
    BY <2>2, <2>3
  <2> QED
    BY <2>1, <2>2, <2>3, <2>4
<1>5. \A x \in Submissions : InQueue(x)' <=> InQueue(x) \/ x = s
  BY <1>4 DEF InQueue
<1>6. ~InQueue(s) /\ HeldBy(s) = {} /\ ~Finished(s) /\ s \notin lost
  BY <1>1 DEF IInv, Flow
<1>7. \A x \in Submissions : HeldBy(x)' = HeldBy(x)
  BY <1>1 DEF HeldBy
<1>8. HandledOnce'
  <2>1. \A i, j \in DOMAIN queue' : queue'[i].of = queue'[j].of => i = j
    BY <1>4, <1>6 DEF IInv, HandledOnce, InQueue
  <2> QED
    BY <1>1, <1>3, <1>5, <1>6, <1>7, <2>1 DEF IInv, HandledOnce
<1>9. Accounted'
  <2>1. InQueue(s)' /\ s \notin lost'
    BY <1>1, <1>5, <1>6
  <2> QED
    BY <1>1, <1>3, <1>5, <1>7, <2>1 DEF IInv, Accounted
<1>10. Flow'
  <2>1. \A x \in Submissions :
          pc'[x] = "idle" =>
            ~InQueue(x)' /\ HeldBy(x)' = {} /\ ~Finished(x)' /\ x \notin lost'
    BY <1>1, <1>2, <1>3, <1>5, <1>7 DEF IInv, Flow
  <2>2. \A w \in Workers : pc'[w] \in {"idle", "consume"} => hands'[w] = NoMessage
    BY <1>1, <1>2 DEF IInv, Flow
  <2>3. \A w \in Workers : pc'[w] = "dlq_audit" => pc[w] = "dlq_audit"
    BY <1>2
  <2> QED
    BY <1>1, <2>1, <2>2, <2>3 DEF IInv, Flow, DeadLettersOf
<1> QED
  BY <1>8, <1>9, <1>10 DEF IInv

LEMMA DeathKeeps ==
  ASSUME Typed, IInv, Dies
  PROVE  IInv'
<1>1. /\ idempotency' = {} /\ queue' = <<>> /\ receipts' = {}
      /\ UNCHANGED <<hands, rows, deadLetters>>
      /\ lost' = lost \cup {s \in Submissions : InQueue(s) \/ Live(s)}
      /\ \A c \in Callers : /\ pc'[c] \in {"idle", "done"}
                            /\ pc'[c] = "idle" => pc[c] = "idle"
  BY DEF Dies, AfterDeath, workerVars, storeVars
<1>2. \A x \in Submissions :
        /\ ~InQueue(x)' /\ HeldBy(x)' = HeldBy(x)
        /\ Finished(x)' <=> Finished(x)
        /\ Accepted(x)' => Accepted(x)
  BY <1>1 DEF InQueue, HeldBy, Finished, DeadLettersOf, Accepted
<1>3. HandledOnce'
  BY <1>1, <1>2 DEF IInv, HandledOnce
<1>4. Accounted'
  BY <1>1, <1>2 DEF IInv, Accounted
<1>5. Flow'
  <2>1. \A x \in Submissions : pc'[x] = "idle" => x \notin lost'
    <3>1. \A x \in Submissions : HeldBy(x) = {} => ~Live(x)
      BY DEF Live
    <3> QED
      BY <1>1, <3>1, Actors DEF IInv, Flow
  <2> QED
    BY <1>1, <1>2, <2>1, Actors DEF IInv, Flow, DeadLettersOf
<1> QED
  BY <1>3, <1>4, <1>5 DEF IInv

LEMMA ReceiptKeeps ==
  ASSUME Typed, IInv, NEW s \in Submissions, ReceiptLands(s) \/ ReceiptFails(s)
  PROVE  IInv'
<1>1. CASE ReceiptLands(s)
  <2>1. /\ s \in receipts /\ receipts' = receipts \ {s}
        /\ rows' = Written("received", s)
        /\ UNCHANGED <<idempotency, queue, hands, pc, deadLetters, lost>>
    BY <1>1 DEF ReceiptLands, workerVars, faultVars
  <2>2. {"received", "processed"} \subseteq Tables /\ rows \in Counts
    BY StoreTyped DEF Tables, AttemptCalls
  <2>3. \A x \in Submissions :
          /\ rows'["processed"][x] = rows["processed"][x]
          /\ x # s => rows'["received"][x] = rows["received"][x]
    BY <2>1, <2>2, WrittenFacts
  <2>4. \A x \in Submissions :
          /\ Finished(x)' <=> Finished(x)
          /\ Accepted(x)' => Accepted(x)
          /\ InQueue(x)' <=> InQueue(x)
          /\ HeldBy(x)' = HeldBy(x)
    BY <2>1, <2>3 DEF Finished, Accepted, DeadLettersOf, InQueue, HeldBy
  <2>5. HandledOnce' /\ Accounted'
    BY <2>1, <2>4 DEF IInv, HandledOnce, Accounted
  <2>6. Flow'
    BY <2>1, <2>4 DEF IInv, Flow, DeadLettersOf
  <2> QED
    BY <2>5, <2>6 DEF IInv
<1>2. CASE ReceiptFails(s)
  BY <1>2, DeathKeeps DEF ReceiptFails
<1> QED
  BY <1>1, <1>2

LEMMA TakeMessageKeeps ==
  ASSUME Typed, IInv, NEW w \in Consumers, TakeMessage(w)
  PROVE  IInv'
<1> USE Actors
<1>1. /\ pc[w] = "consume" /\ queue # <<>> /\ queue' = Tail(queue)
      /\ \E next \in {"failed", "leads"} : Goto(w, next)
      /\ UNCHANGED <<idempotency, receipts, storeVars, lost>>
      /\ hands' = [hands EXCEPT ![w] = Head(queue)]
  BY FirstCallPlace DEF TakeMessage, Shifted, BeginAttempts, faultVars
<1>2. /\ w \in Workers /\ w \in Callers
      /\ pc'[w] \in {"failed", "leads"} /\ \A c \in Callers \ {w} : pc'[c] = pc[c]
  BY <1>1, PcFacts
<1>3. PICK m \in Messages : m = Head(queue)
  BY <1>1, TypedParts DEF Typed, RestTyped
<1>4. /\ m.of \in Submissions /\ m # NoMessage /\ NoMessage.of \notin Submissions
  BY DEF Messages, NoMessage
<1>5. /\ hands[w] = NoMessage /\ hands'[w] = m
      /\ \A v \in Workers \ {w} : hands'[v] = hands[v]
  BY <1>1, <1>2, <1>3, TypedParts DEF Typed, RestTyped, IInv, Flow
<1>6. /\ DOMAIN queue' \subseteq Nat \ {0}
      /\ \A i \in DOMAIN queue' : i + 1 \in DOMAIN queue /\ queue'[i] = queue[i + 1]
      /\ \A i \in DOMAIN queue : i # 1 => i - 1 \in DOMAIN queue' /\ queue'[i - 1] = queue[i]
      /\ 1 \in DOMAIN queue /\ queue[1] = m
  <2>1. queue \in Seq(Messages)
    BY TypedParts DEF Typed, RestTyped
  <2>2. /\ Len(queue) \in Nat /\ Len(queue) > 0 /\ DOMAIN queue = 1 .. Len(queue)
        /\ queue[1] = m
    BY <1>1, <1>3, <2>1
  <2>3. /\ queue' \in Seq(Messages) /\ Len(queue') = Len(queue) - 1
        /\ DOMAIN queue' = 1 .. Len(queue')
        /\ \A i \in 1 .. Len(queue') : queue'[i] = queue[i + 1]
    BY <1>1, <2>1, <2>2
  <2>4. \A i \in DOMAIN queue : i # 1 => i - 1 \in DOMAIN queue' /\ queue'[i - 1] = queue[i]
    BY <2>2, <2>3
  <2>5. \A i \in DOMAIN queue' : i + 1 \in DOMAIN queue /\ queue'[i] = queue[i + 1]
    BY <2>2, <2>3
  <2>6. DOMAIN queue' \subseteq Nat \ {0} /\ 1 \in DOMAIN queue
    BY <2>2, <2>3
  <2> QED
    BY <2>2, <2>4, <2>5, <2>6
<1>7. \A i, j \in DOMAIN queue : queue[i].of = queue[j].of => i = j
  BY DEF IInv, HandledOnce
<1>8. \A i \in DOMAIN queue' : i + 1 # 1 /\ queue'[i].of # m.of
  <2>1. \A i \in DOMAIN queue' : i + 1 # 1
    BY <1>6
  <2> QED
    BY <1>6, <1>7, <2>1
<1>9. \A x \in Submissions : InQueue(x)' <=> InQueue(x) /\ x # m.of
  <2>1. \A x \in Submissions : InQueue(x)' => InQueue(x) /\ x # m.of
    BY <1>6, <1>8 DEF InQueue
  <2>2. \A x \in Submissions : InQueue(x) /\ x # m.of => InQueue(x)'
    BY <1>6 DEF InQueue
  <2> QED
    BY <2>1, <2>2
<1>10. InQueue(m.of) /\ HeldBy(m.of) = {} /\ ~Finished(m.of) /\ pc[m.of] # "idle"
  <2>1. InQueue(m.of)
    BY <1>6 DEF InQueue
  <2> QED
    BY <1>4, <2>1 DEF IInv, HandledOnce, Flow
<1>11. \A x \in Submissions :
         HeldBy(x)' = IF x = m.of THEN {w} ELSE HeldBy(x)
  BY <1>4, <1>5, <1>10 DEF HeldBy
<1>12. \A x \in Submissions :
         /\ Finished(x)' <=> Finished(x)
         /\ Accepted(x)' <=> Accepted(x)
  BY <1>1 DEF Finished, Accepted, DeadLettersOf, storeVars
<1>13. HandledOnce'
  <2>1. \A i, j \in DOMAIN queue' : queue'[i].of = queue'[j].of => i = j
    <3>1. \A i, j \in DOMAIN queue' : queue'[i].of = queue'[j].of => i + 1 = j + 1
      BY <1>6, <1>7
    <3> QED
      BY <1>6, <3>1
  <2>2. \A x \in Submissions : InQueue(x)' => HeldBy(x)' = {} /\ ~Finished(x)'
    BY <1>9, <1>11, <1>12 DEF IInv, HandledOnce
  <2>3. \A u, v \in Consumers :
          hands'[u].of = hands'[v].of /\ hands'[u] # NoMessage => u = v
    <3>1. \A v \in Consumers : v # w => hands'[v].of # m.of
      BY <1>5, <1>10 DEF HeldBy
    <3> QED
      BY <1>5, <3>1 DEF IInv, HandledOnce
  <2> QED
    BY <2>1, <2>2, <2>3 DEF HandledOnce
<1>14. Accounted'
  <2>1. \A x \in Submissions :
          InQueue(x) \/ HeldBy(x) # {} \/ Finished(x) =>
            InQueue(x)' \/ HeldBy(x)' # {} \/ Finished(x)'
    BY <1>9, <1>11, <1>12
  <2> QED
    BY <1>1, <1>12, <2>1 DEF IInv, Accounted
<1>15. Flow'
  <2>1. \A x \in Submissions :
          pc'[x] = "idle" =>
            ~InQueue(x)' /\ HeldBy(x)' = {} /\ ~Finished(x)' /\ x \notin lost'
    BY <1>1, <1>2, <1>9, <1>10, <1>11, <1>12 DEF IInv, Flow
  <2>2. \A v \in Workers : pc'[v] \in {"idle", "consume"} => hands'[v] = NoMessage
    BY <1>2, <1>5 DEF IInv, Flow
  <2>3. /\ \A v \in Workers : pc'[v] = "dlq_audit" => pc[v] = "dlq_audit" /\ v # w
        /\ w \notin Replayers
    BY <1>2
  <2> QED
    BY <1>1, <1>5, <2>1, <2>2, <2>3 DEF IInv, Flow, DeadLettersOf, storeVars
<1> QED
  BY <1>13, <1>14, <1>15 DEF IInv

LEMMA StartReplayKeeps ==
  ASSUME Typed, IInv, NEW w \in Replayers, NEW d \in DOMAIN deadLetters,
         NEW throws \in BOOLEAN, StartReplay(w, d, throws)
  PROVE  IInv'
<1> USE Actors
<1>1. /\ UNCHANGED <<idempotency, queue, receipts, storeVars, lost>>
      /\ \E next \in {"failed", "leads"} : Goto(w, next)
      /\ hands' = [hands EXCEPT ![w] =
           [of |-> deadLetters[d].of, throws |-> throws]]
  BY FirstCallPlace DEF StartReplay, BeginAttempts, faultVars
<1>2. /\ w \in Workers /\ w \in Callers /\ w \notin Consumers
      /\ pc'[w] \in {"failed", "leads"} /\ \A c \in Callers \ {w} : pc'[c] = pc[c]
  BY <1>1, PcFacts
<1>3. /\ hands'[w].of = deadLetters[d].of
      /\ \A v \in Workers \ {w} : hands'[v] = hands[v]
  BY <1>1, <1>2, TypedParts DEF Typed, RestTyped
<1>4. \A x \in Submissions : HeldBy(x)' = HeldBy(x)
  BY <1>2, <1>3 DEF HeldBy
<1>5. HandledOnce' /\ Accounted'
  BY <1>1, <1>2, <1>3, <1>4 DEF IInv, HandledOnce, Accounted,
     InQueue, Finished, Accepted, DeadLettersOf, storeVars
<1>6. Flow'
  <2>1. \A x \in Submissions :
          pc'[x] = "idle" =>
            ~InQueue(x)' /\ HeldBy(x)' = {} /\ ~Finished(x)' /\ x \notin lost'
    BY <1>1, <1>2, <1>4 DEF IInv, Flow, InQueue, Finished, DeadLettersOf, storeVars
  <2>2. \A v \in Workers : pc'[v] \in {"idle", "consume"} => hands'[v] = NoMessage
    BY <1>2, <1>3 DEF IInv, Flow
  <2>3. \A v \in Replayers :
          hands'[v] # NoMessage => \E e \in DOMAIN deadLetters : deadLetters[e].of = hands'[v].of
    BY <1>3 DEF IInv, Flow, DeadLettersOf
  <2>4. \A v \in Workers :
          pc'[v] = "dlq_audit" => \E e \in DOMAIN deadLetters : deadLetters[e].of = hands'[v].of
    BY <1>2, <1>3 DEF IInv, Flow, DeadLettersOf
  <2> QED
    BY <1>1, <2>1, <2>2, <2>3, <2>4 DEF Flow, DeadLettersOf, storeVars
<1> QED
  BY <1>5, <1>6 DEF IInv

LEMMA Invariant == Spec => []IInv
<1>1. Init => IInv
  BY Actors DEF Init, IInv, HandledOnce, Accounted, Flow, InQueue, HeldBy, Finished,
     Accepted, DeadLettersOf, Tables, AttemptCalls, NoMessage
<1>2. Typed /\ IInv /\ [Next]_vars => IInv'
  <2> SUFFICES ASSUME Typed, IInv, [Next]_vars PROVE IInv'
    OBVIOUS
  <2>1. ASSUME NEW s \in Submissions, Submit(s) PROVE IInv'
    <3>1. CASE RejectInvalid(s) \/ IgnoreDuplicate(s)
      <4>1. s \in Callers /\ Goto(s, "done")
            /\ UNCHANGED <<idempotency, queue, receipts, hands, lost, storeVars>>
        BY <3>1, Actors DEF RejectInvalid, IgnoreDuplicate, workerVars, faultVars
      <4> QED
        BY <4>1, OnlyMoved
    <3> QED
      BY <2>1, <3>1, AcceptKeeps DEF Submit
  <2>2. ASSUME NEW s \in Submissions, ReceiptLands(s) \/ ReceiptFails(s) PROVE IInv'
    BY <2>2, ReceiptKeeps
  <2>9. CASE Killed
    BY <2>9, DeathKeeps DEF Killed
  <2>3. ASSUME NEW w \in Consumers, Consume(w) PROVE IInv'
    <3>1. CASE QueueDrained(w) \/ Respond(w)
      <4>1. /\ w \in Callers /\ \E next \in {"respond", "done"} : Goto(w, next)
            /\ UNCHANGED <<idempotency, queue, receipts, hands, lost, storeVars>>
        BY <3>1, Actors DEF QueueDrained, Respond, workerVars, faultVars
      <4> QED
        BY <4>1, OnlyMoved
    <3> QED
      BY <2>3, <3>1, TakeMessageKeeps DEF Consume
  <2>4. ASSUME NEW w \in Workers, Work(w) PROVE IInv'
    BY <2>3, <2>4, AttemptKeeps, GiveUpKeeps, FinishReplayKeeps DEF Work
  <2>5. ASSUME NEW w \in Workers, Fault(w) PROVE IInv'
    BY <2>5, FaultKeeps
  <2>6. ASSUME NEW w \in Replayers, Replay(w) PROVE IInv'
    <3>1. CASE ReplayUnknown(w)
      <4>1. w \in Callers /\ Goto(w, "done")
            /\ UNCHANGED <<idempotency, queue, receipts, hands, lost, storeVars>>
        BY <3>1, Actors DEF ReplayUnknown, workerVars, faultVars
      <4> QED
        BY <4>1, OnlyMoved
    <3> QED
      BY <2>6, <3>1, StartReplayKeeps DEF Replay
  <2>7. CASE UNCHANGED vars
    BY <2>7 DEF vars, workerVars, storeVars, faultVars, IInv, HandledOnce,
       Accounted, Flow, InQueue, HeldBy, Finished, Accepted, DeadLettersOf
  <2> QED
    BY <2>1, <2>2, <2>4, <2>5, <2>6, <2>7, <2>9 DEF Next
<1> QED
  BY <1>1, <1>2, TypeInvariant, PTL DEF Spec

-----------------------------------------------------------------------------
(* What a handler that came to its end was holding                          *)

(* The consumers that were answered 500 with a message in hands.            *)
Dropping ==
  {w \in Consumers : /\ pc[w] = "done" /\ hands[w] # NoMessage
                     /\ response[w].status = "server_error"}

(* A consumer that answers has let its message go; one that came to its end *)
(* with one was answered 500, for which a store call failed, or went down   *)
(* with its process.                                                        *)
Endings ==
  /\ \A w \in Consumers : pc[w] = "respond" => hands[w] = NoMessage
  /\ \A w \in Consumers : pc[w] = "done" /\ hands[w] # NoMessage =>
       \/ response[w].status = "server_error"
       \/ response[w].status = "connection_lost" /\ hands[w].of \in lost
  /\ IsFiniteSet(Dropping) /\ Cardinality(Dropping) <= faults

(* A consumer that moves goes on with its attempts or has no message; who   *)
(* came to his end stays there.                                             *)
Stays(w) == pc'[w] = pc[w] /\ hands'[w] = hands[w] /\ response'[w] = response[w]
GoesOn(w) == pc'[w] \notin {"respond", "done"} \/ hands'[w] = NoMessage
Tame ==
  /\ \A w \in Consumers : Stays(w) \/ GoesOn(w)
  /\ \A w \in Workers : pc[w] = "done" => Stays(w)
  /\ lost' = lost /\ faults' \in Nat /\ faults' >= faults

LEMMA AnswerOthers ==
  ASSUME Typed, NEW c \in Callers, NEW status, Answer(c, status)
  PROVE  /\ response'[c].status = status
         /\ \A d \in Callers \ {c} : response'[d] = response[d]
<1>1. response \in [Callers -> Responses]
  BY TypedParts DEF Typed, RestTyped
<1>2. [NoResponse EXCEPT !.status = status].status = status
  BY DEF NoResponse
<1> QED
  BY <1>1, <1>2 DEF Answer

(* One caller moves and nobody else's message or answer changes.            *)
LEMMA OneIsTame ==
  ASSUME Typed, NEW c \in Callers, pc[c] # "done", NEW next, Goto(c, next),
         \A d \in Callers \ {c} : response'[d] = response[d],
         \A w \in Workers \ {c} : hands'[w] = hands[w],
         c \in Consumers => next \notin {"respond", "done"} \/ hands'[c] = NoMessage,
         lost' = lost, faults' = faults \/ faults' = faults + 1
  PROVE  Tame
<1>1. pc'[c] = next /\ \A d \in Callers \ {c} : pc'[d] = pc[d]
  BY PcFacts
<1>2. faults \in Nat
  BY TypedParts DEF Typed, RestTyped
<1>3. \A w \in Consumers : Stays(w) \/ GoesOn(w)
  BY <1>1, Actors DEF Stays, GoesOn
<1>4. \A w \in Workers : pc[w] = "done" => Stays(w)
  BY <1>1, Actors DEF Stays
<1> QED
  BY <1>2, <1>3, <1>4 DEF Tame

(* Every step is tame, but the end of the process and a call that fails     *)
(* outside the try block.                                                   *)
LEMMA TameSteps ==
  ASSUME Typed, IInv, Endings, [Next]_vars
  PROVE  \/ Tame
         \/ Dies /\ faults \in Nat /\ faults' \in {faults, faults + 1}
         \/ \E w \in Workers : UnguardedCallFails(w)
<1> USE Actors
<1>1. ASSUME NEW s \in Submissions, Submit(s) PROVE Tame
  <2>1. /\ pc[s] = "idle" /\ UNCHANGED <<hands, lost, faults>>
        /\ \E next \in {"consume", "done"} : Goto(s, next)
        /\ response' = response \/ \E status : Answer(s, status)
    BY <1>1 DEF Submit, RejectInvalid, IgnoreDuplicate, Accept, workerVars, faultVars
  <2>2. s \in Consumers => hands'[s] = NoMessage
    BY <2>1 DEF IInv, Flow
  <2> QED
    BY <2>1, <2>2, OneIsTame, AnswerOthers
<1>2. ASSUME NEW s \in Submissions, ReceiptLands(s) PROVE Tame
  BY <1>2, TypedParts DEF ReceiptLands, workerVars, faultVars, Tame, Stays, Typed, RestTyped
<1>3. ASSUME NEW w \in Consumers, Consume(w) PROVE Tame
  <2>1. /\ pc[w] \in {"consume", "respond"} /\ UNCHANGED <<lost, faults>>
        /\ \A v \in Workers \ {w} : hands'[v] = hands[v]
        /\ \E next \in {"leads", "failed", "respond", "done"} : Goto(w, next)
        /\ \A d \in Callers \ {w} : response'[d] = response[d]
    <3>1. CASE TakeMessage(w)
      BY <3>1, FirstCallPlace, TypedParts
         DEF TakeMessage, BeginAttempts, faultVars, Typed, RestTyped
    <3>2. CASE QueueDrained(w)
      BY <3>2 DEF QueueDrained, workerVars, faultVars
    <3>3. CASE Respond(w)
      <4>1. /\ pc[w] = "respond" /\ Goto(w, "done") /\ UNCHANGED <<hands, lost, faults>>
            /\ \/ \E status : Answer(w, status)
               \/ \E a : response' = [response EXCEPT ![w] = a]
        BY <3>3 DEF Respond, workerVars, faultVars
      <4>2. \A d \in Callers \ {w} : response'[d] = response[d]
        BY <4>1, AnswerOthers, TypedParts DEF Typed, RestTyped
      <4> QED
        BY <4>1, <4>2
    <3> QED
      BY <1>3, <3>1, <3>2, <3>3 DEF Consume
  <2>2. ASSUME NEW next \in {"respond", "done"}, Goto(w, next) PROVE hands'[w] = NoMessage
    <3>1. pc'[w] = next
      BY <2>2, PcFacts
    <3>2. hands[w] = NoMessage
      BY <2>1 DEF Endings, IInv, Flow
    <3>3. ~TakeMessage(w)
      BY <3>1, FirstCallPlace, PcFacts DEF TakeMessage
    <3> QED
      BY <1>3, <3>2, <3>3 DEF Consume, QueueDrained, Respond, workerVars
  <2> QED
    BY <2>1, <2>2, OneIsTame
<1>4. ASSUME NEW w \in Workers, Attempt(w) \/ GiveUp(w) PROVE Tame
  <2>0. pc[w] # "done"
    BY <1>4 DEF Attempt, CreateLead, CreateLeadConflicts, SaveLeadEvent,
       SaveLeadEventConflicts, SaveSolarEstimate, SaveReplyDraft, SaveDraftAudit,
       SaveProcessedLog, Insert, GiveUp, SaveFailedLog, CreateDeadLetter, SaveDlqAudit
  <2>1. /\ UNCHANGED <<response, lost, faults>>
        /\ \A v \in Workers \ {w} : hands'[v] = hands[v]
        /\ \E next \in Holding \cup {"consume", "mark_replayed"} : Goto(w, next)
    <3>1. CASE Attempt(w)
      <4>1. UNCHANGED <<response, lost, faults>>
        BY <3>1 DEF Attempt, CreateLead, CreateLeadConflicts, SaveLeadEvent,
           SaveLeadEventConflicts, SaveSolarEstimate, SaveReplyDraft, SaveDraftAudit,
           SaveProcessedLog, Insert, faultVars
      <4>2. \/ hands' = hands /\ \E next \in Holding : Goto(w, next)
            \/ \E status : Return(w, status)
        BY <3>1 DEF Attempt, CreateLead, CreateLeadConflicts, SaveLeadEvent,
           SaveLeadEventConflicts, SaveSolarEstimate, SaveReplyDraft, SaveDraftAudit,
           SaveProcessedLog, Insert, workerVars, Holding, AttemptCalls
      <4> QED
        BY <4>1, <4>2, ReturnFacts DEF Return
    <3>2. CASE GiveUp(w)
      <4>1. UNCHANGED <<response, lost, faults>>
        BY <3>2 DEF GiveUp, SaveFailedLog, CreateDeadLetter, SaveDlqAudit, faultVars
      <4>2. \/ hands' = hands /\ \E next \in Holding : Goto(w, next)
            \/ \E status : Return(w, status)
        BY <3>2, FirstCallPlace DEF GiveUp, SaveFailedLog, CreateDeadLetter,
           SaveDlqAudit, AfterRetries, workerVars, Holding, AttemptCalls
      <4> QED
        BY <4>1, <4>2, ReturnFacts DEF Return
    <3> QED
      BY <1>4, <3>1, <3>2
  <2>2. {"respond", "done"} \cap (Holding \cup {"consume", "mark_replayed"}) = {}
    BY DEF Holding, AttemptCalls
  <2> QED
    BY <2>0, <2>1, <2>2, OneIsTame
<1>5. ASSUME NEW w \in Replayers, FinishReplay(w) \/ Replay(w) PROVE Tame
  <2>1. /\ UNCHANGED <<lost, faults>> /\ \E next \in Places : Goto(w, next)
        /\ \A v \in Workers \ {w} : hands'[v] = hands[v]
        /\ \A d \in Callers \ {w} : response'[d] = response[d]
    <3>1. CASE FinishReplay(w)
      BY <3>1, AnswerOthers DEF FinishReplay, MarkReplayed, SaveReplayAudit,
         workerVars, faultVars, Places, UnguardedCalls
    <3>2. CASE ReplayUnknown(w)
      BY <3>2, AnswerOthers DEF ReplayUnknown, workerVars, faultVars, Places
    <3>3. ASSUME NEW d \in DOMAIN deadLetters, NEW throws \in BOOLEAN,
                 StartReplay(w, d, throws)
          PROVE  /\ UNCHANGED <<lost, faults, response>>
                 /\ \E next \in Places : Goto(w, next)
                 /\ \A v \in Workers \ {w} : hands'[v] = hands[v]
      BY <3>3, FirstCallPlace, TypedParts
         DEF StartReplay, BeginAttempts, faultVars, Typed, RestTyped, Places,
             AttemptCalls, UnguardedCalls
    <3> QED
      BY <1>5, <3>1, <3>2, <3>3 DEF Replay
  <2>2. pc[w] # "done"
    BY <1>5 DEF FinishReplay, MarkReplayed, SaveReplayAudit, Replay, StartReplay,
       ReplayUnknown
  <2> QED
    BY <2>1, <2>2, OneIsTame
<1>6. ASSUME NEW w \in Workers, AttemptCallFails(w) PROVE Tame
  <2>1. pc[w] # "done"
    BY <1>6 DEF AttemptCallFails, AttemptCalls
  <2> QED
    BY <1>6, <2>1, OneIsTame DEF AttemptCallFails, StoreFault, workerVars
<1>7. ASSUME Killed \/ \E s \in Submissions : ReceiptFails(s)
      PROVE  Dies /\ faults \in Nat /\ faults' \in {faults, faults + 1}
  BY <1>7, TypedParts DEF Killed, ReceiptFails, Typed, RestTyped
<1>8. CASE UNCHANGED vars
  BY <1>8, TypedParts DEF vars, workerVars, faultVars, Tame, Stays, Typed, RestTyped
<1> QED
  BY <1>1, <1>2, <1>3, <1>4, <1>5, <1>6, <1>7, <1>8 DEF Next, Work, Fault

LEMMA EndingsKept ==
  ASSUME Typed, IInv, Endings, [Next]_vars
  PROVE  Endings'
<1> USE Actors
<1>1. CASE Tame
  <2>1. Dropping' \subseteq Dropping
    BY <1>1 DEF Tame, Stays, GoesOn, Dropping
  <2>2. IsFiniteSet(Dropping') /\ Cardinality(Dropping') <= Cardinality(Dropping)
    BY <2>1, FS_Subset DEF Endings
  <2>3. Cardinality(Dropping) \in Nat /\ Cardinality(Dropping') \in Nat /\ faults \in Nat
    BY <2>2, FS_CardinalityType, TypedParts DEF Endings, Typed, RestTyped
  <2> QED
    BY <1>1, <2>2, <2>3 DEF Endings, Tame, Stays, GoesOn
<1>2. CASE Dies /\ faults \in Nat /\ faults' \in {faults, faults + 1}
  <2>1. /\ hands' = hands
        /\ lost' = lost \cup {s \in Submissions : InQueue(s) \/ Live(s)}
        /\ \A w \in Consumers :
             \/ pc[w] = "idle" /\ pc'[w] = "idle"
             \/ pc[w] = "done" /\ pc'[w] = "done" /\ response'[w] = response[w]
             \/ /\ pc[w] \notin {"idle", "done"} /\ pc'[w] = "done"
                /\ response'[w].status = "connection_lost"
    BY <1>2 DEF Dies, workerVars, NoResponse
  <2>2. ASSUME NEW w \in Consumers, pc[w] \notin {"idle", "done"}, hands[w] # NoMessage
        PROVE  hands[w].of \in lost'
    <3>1. hands[w] \in Messages
      BY <2>2, TypedParts DEF Typed, RestTyped
    <3> QED
      BY <2>1, <2>2, <3>1 DEF Messages, Live, HeldBy
  <2>3. Dropping' \subseteq Dropping
    BY <2>1 DEF Dropping
  <2>4. IsFiniteSet(Dropping') /\ Cardinality(Dropping') <= Cardinality(Dropping)
    BY <2>3, FS_Subset DEF Endings
  <2>5. Cardinality(Dropping) \in Nat /\ Cardinality(Dropping') \in Nat
    BY <2>4, FS_CardinalityType DEF Endings
  <2>6. Cardinality(Dropping') <= faults'
    BY <1>2, <2>4, <2>5 DEF Endings
  <2> QED
    BY <2>1, <2>2, <2>4, <2>6 DEF Endings
<1>3. ASSUME NEW w \in Workers, UnguardedCallFails(w) PROVE Endings'
  <2>1. /\ Goto(w, "done") /\ Answer(w, "server_error") /\ UNCHANGED <<hands, lost>>
        /\ faults \in Nat /\ faults' = faults + 1
    BY <1>3, TypedParts
       DEF UnguardedCallFails, StoreFault, workerVars, Typed, RestTyped
  <2>2. /\ pc'[w] = "done" /\ \A v \in Callers \ {w} : pc'[v] = pc[v]
        /\ response'[w].status = "server_error"
        /\ \A v \in Callers \ {w} : response'[v] = response[v]
    BY <2>1, PcFacts, AnswerOthers
  <2>3. Dropping' \subseteq Dropping \cup {w}
    BY <2>1, <2>2 DEF Dropping
  <2>4. /\ IsFiniteSet(Dropping \cup {w})
        /\ Cardinality(Dropping \cup {w}) <= Cardinality(Dropping) + 1
        /\ Cardinality(Dropping) \in Nat
    <3>1. IsFiniteSet(Dropping) /\ Cardinality(Dropping) \in Nat
      BY FS_CardinalityType DEF Endings
    <3>2. w \in Dropping => Dropping \cup {w} = Dropping
      OBVIOUS
    <3>3. /\ IsFiniteSet(Dropping \cup {w})
          /\ w \notin Dropping => Cardinality(Dropping \cup {w}) = Cardinality(Dropping) + 1
      BY <3>1, FS_AddElement
    <3> HIDE DEF Dropping
    <3> QED
      BY <3>1, <3>2, <3>3
  <2>5. IsFiniteSet(Dropping') /\ Cardinality(Dropping') <= Cardinality(Dropping \cup {w})
    BY <2>3, <2>4, FS_Subset
  <2>6. Cardinality(Dropping') \in Nat /\ Cardinality(Dropping \cup {w}) \in Nat
    BY <2>4, <2>5, FS_CardinalityType
  <2>7. Cardinality(Dropping') <= faults'
    BY <2>1, <2>4, <2>5, <2>6 DEF Endings
  <2> QED
    BY <2>1, <2>2, <2>5, <2>7 DEF Endings
<1> QED
  BY <1>1, <1>2, <1>3, TameSteps

LEMMA EndingsAlways == Spec => []Endings
<1>1. Init => Endings
  <2> SUFFICES ASSUME Init PROVE Endings
    OBVIOUS
  <2>1. Dropping = {}
    BY Actors DEF Init, Dropping
  <2> QED
    BY <2>1, FS_EmptySet, Actors DEF Init, Endings
<1> QED
  BY <1>1, EndingsKept, TypeInvariant, Invariant, PTL DEF Spec

(* A handler that came to its end stays there, with what it held and was    *)
(* answered.                                                                *)
LEMMA DoneForGood ==
  ASSUME Typed, IInv, Endings, [Next]_vars, NEW w \in Workers, pc[w] = "done"
  PROVE  Stays(w)
<1>1. CASE Tame
  BY <1>1 DEF Tame
<1>2. CASE Dies
  BY <1>2, Actors DEF Dies, workerVars, Stays
<1>3. ASSUME NEW v \in Workers, UnguardedCallFails(v) PROVE Stays(w)
  <2>1. /\ Goto(v, "done") /\ Answer(v, "server_error") /\ hands' = hands /\ v # w
        /\ v \in Callers /\ w \in Callers
    BY <1>3, Actors DEF UnguardedCallFails, UnguardedCalls, workerVars
  <2> QED
    BY <2>1, PcFacts, AnswerOthers DEF Stays
<1> QED
  BY <1>1, <1>2, <1>3, TameSteps

(* Each of the things P that went wrong stands for a consumer that was      *)
(* answered 500, which no two of them share.                                *)
LEMMA PaidFor ==
  ASSUME Typed, Endings, NEW P, NEW f,
         \A x \in P : \E w \in Dropping : x = f[hands[w].of],
         DOMAIN f = Submissions
  PROVE  IsFiniteSet(P) /\ Cardinality(P) <= faults
<1> DEFINE g == [x \in P |-> CHOOSE w \in Dropping : x = f[hands[w].of]]
<1>1. \A x \in P : g[x] \in Dropping /\ x = f[hands[g[x]].of]
  OBVIOUS
<1>2. g \in [P -> Dropping]
  BY <1>1
<1> HIDE DEF g
<1>3. g \in Injection(P, Dropping)
  BY <1>1, <1>2 DEF Injection, IsInjective
<1>4. IsFiniteSet(P) /\ Cardinality(P) <= Cardinality(Dropping)
  BY <1>3, FS_Injection DEF Endings
<1>5. Cardinality(P) \in Nat /\ Cardinality(Dropping) \in Nat /\ faults \in Nat
  BY <1>4, FS_CardinalityType, TypedParts DEF Endings, Typed, RestTyped
<1> QED
  BY <1>4, <1>5 DEF Endings

(* An event that was not lost, is held by somebody and by nobody under way  *)
(* is one of a consumer that was answered 500.                              *)
LEMMA HeldByDropping ==
  ASSUME Endings, NEW s \in Submissions, s \notin lost, HeldBy(s) # {}, ~Live(s)
  PROVE  \E w \in Dropping : hands[w].of = s
<1>1. PICK w \in Consumers : hands[w].of = s /\ pc[w] = "done"
  BY DEF HeldBy, Live
<1>2. hands[w] # NoMessage
  BY <1>1, Actors DEF NoMessage
<1> QED
  BY <1>1, <1>2 DEF Endings, Dropping

-----------------------------------------------------------------------------
(* Theorems                                                                 *)

(* The variables of the pipeline keep their shape, and a handler suspended  *)
(* in the middle of an attempt or of a replay knows what it works on.       *)
THEOREM PipelineTyped == Spec => []TypeOK
BY TypeInvariant, PTL DEF Typed

(* Any number of concurrent consumers share the queue without handing a     *)
(* message to two of them (InMemoryEventQueue.consume).                     *)
THEOREM NobodySharesAMessage == Spec => []HandledOnce
BY Invariant, PTL DEF IInv

(* Whatever store calls fail, however often events are retried, given up    *)
(* and replayed and processes die, an accepted event is queued, under way,  *)
(* processed or dead-lettered, or was lost with the process that had it;    *)
(* each call that fails drops one at most, so none without a failing call   *)
(* (handleMockWebhook, processWithRetries, replayDeadLetter).               *)
THEOREM AcceptedIsAccountedFor == Spec => []NothingVanishes
<1>1. Typed /\ IInv /\ Endings => NothingVanishes
  <2> SUFFICES ASSUME Typed, IInv, Endings PROVE NothingVanishes
    OBVIOUS
  <2> DEFINE f == [s \in Submissions |-> s]
             P == {s \in Submissions : Missing(s)}
  <2>1. ASSUME NEW s \in P PROVE \E w \in Dropping : s = f[hands[w].of]
    <3>1. s \in Submissions /\ s \notin lost /\ HeldBy(s) # {} /\ ~Live(s)
      BY DEF IInv, Accounted, Missing
    <3> QED
      BY <3>1, HeldByDropping
  <2> HIDE DEF f
  <2>2. DOMAIN f = Submissions
    BY DEF f
  <2> HIDE DEF P
  <2>3. Cardinality(P) <= faults
    BY <2>1, <2>2, PaidFor
  <2> QED
    BY <2>3 DEF P, NothingVanishes
<1> QED
  BY <1>1, TypeInvariant, Invariant, EndingsAlways, PTL

(* However often processes die and requests are repeated, a repeat is told  *)
(* duplicate_ignored about an event the running process has queued, is      *)
(* working on or has settled, but for one key at most for each store call   *)
(* that failed (handleMockWebhook, createWebhookGateway).                   *)
THEOREM DuplicatesAreAccountedFor == Spec => []RememberedIsAccounted
<1>1. Typed /\ IInv /\ Endings => RememberedIsAccounted
  <2> SUFFICES ASSUME Typed, IInv, Endings PROVE RememberedIsAccounted
    OBVIOUS
  <2> DEFINE P == {k \in idempotency : Orphaned(k)}
  <2>1. ASSUME NEW k \in P PROVE \E w \in Dropping : k = Key[hands[w].of]
    <3>1. PICK x \in Submissions :
            /\ Key[x] = k /\ x \notin lost
            /\ InQueue(x) \/ HeldBy(x) # {} \/ Finished(x)
      BY DEF IInv, Accounted
    <3>2. HeldBy(x) # {} /\ ~Live(x)
      BY <3>1 DEF Orphaned
    <3> QED
      BY <3>1, <3>2, HeldByDropping
  <2>2. DOMAIN Key = Submissions
    BY PipelineAssumption
  <2> HIDE DEF P
  <2>3. Cardinality(P) <= faults
    BY <2>1, <2>2, PaidFor
  <2> QED
    BY <2>3 DEF P, RememberedIsAccounted
<1> QED
  BY <1>1, TypeInvariant, Invariant, EndingsAlways, PTL

-----------------------------------------------------------------------------
(* One row per event_id                                                     *)

(* With Postgres the only rows of lead_events are those of saveLeadEvent,   *)
(* answered or not, for an event_id that has none.                          *)
LeadEventsStep(w) ==
  \/ rows'["lead_events"] = rows["lead_events"]
  \/ /\ hands[w].of \in Submissions /\ ~EventIdTaken(hands[w].of)
     /\ \A x \in Submissions :
          rows'["lead_events"][x] =
            IF x = hands[w].of THEN rows["lead_events"][x] + 1
            ELSE rows["lead_events"][x]

LEMMA OtherTableWritten ==
  ASSUME Typed, NEW t \in Tables, NEW s \in Submissions, rows' = Written(t, s),
         NEW u \in Tables \ {t}
  PROVE  rows'[u] = rows[u]
<1>1. rows \in Counts /\ rows' \in Counts
      /\ \A x \in Submissions : rows'[u][x] = rows[u][x]
  BY StoreTyped, WrittenFacts
<1>2. rows[u] \in [Submissions -> Nat] /\ rows'[u] \in [Submissions -> Nat]
  BY <1>1 DEF Counts
<1> QED
  BY <1>1, <1>2

LEMMA WorkerLeadEvents ==
  ASSUME Typed, NEW w \in Workers, Attempt(w) \/ GiveUp(w) \/ Fault(w)
  PROVE  LeadEventsStep(w)
<1>1. "lead_events" \in Tables /\ {"failed", "dlq_audit"} \subseteq Tables
      /\ AttemptCalls \subseteq Tables /\ rows \in Counts
  BY StoreTyped DEF Tables, AttemptCalls
<1>2. pc[w] \in Holding \cup UnguardedCalls
  BY DEF Attempt, CreateLead, CreateLeadConflicts, SaveLeadEvent,
         SaveLeadEventConflicts, SaveSolarEstimate, SaveReplyDraft, SaveDraftAudit,
         SaveProcessedLog, Insert, GiveUp, SaveFailedLog, CreateDeadLetter,
         SaveDlqAudit, Fault, AttemptCallFails, UnguardedCallFails, Holding,
         AttemptCalls
<1>3. ASSUME NEW h, h = hands[w].of, h \in Submissions, NEW t \in Tables,
             rows' = Written(t, h), t = "lead_events" => ~EventIdTaken(h)
      PROVE  LeadEventsStep(w)
  <2>1. CASE t = "lead_events"
    BY <1>1, <1>3, <2>1, WrittenFacts DEF LeadEventsStep
  <2>2. CASE t # "lead_events"
    BY <1>1, <1>3, <2>2, OtherTableWritten DEF LeadEventsStep
  <2> QED
    BY <2>1, <2>2
<1>4. CASE rows' = rows
  BY <1>4 DEF LeadEventsStep
<1>5. CASE pc[w] \in Holding /\ rows' # rows
  <2>1. hands[w].of \in Submissions
    BY <1>5 DEF Typed, HandlersTyped, Messages
  <2>2. \E t \in Tables : /\ rows' = Written(t, hands[w].of)
                          /\ t = "lead_events" => ~EventIdTaken(hands[w].of)
    <3>1. CASE Attempt(w)
      <4>1. \E t \in AttemptCalls :
              /\ rows' = Written(t, hands[w].of)
              /\ t = "lead_events" => ~EventIdTaken(hands[w].of)
        BY <1>5, <3>1 DEF Attempt, CreateLead, CreateLeadConflicts, SaveLeadEvent,
           SaveLeadEventConflicts, SaveSolarEstimate, SaveReplyDraft,
           SaveDraftAudit, SaveProcessedLog, Insert, AttemptCalls, storeVars
      <4> QED
        BY <1>1, <4>1
    <3>2. CASE GiveUp(w)
      BY <1>1, <1>5, <3>2
         DEF GiveUp, SaveFailedLog, CreateDeadLetter, SaveDlqAudit
    <3>3. CASE Fault(w)
      <4>1. Landed(w)
        BY <1>5, <3>3 DEF Fault, AttemptCallFails, UnguardedCallFails, storeVars
      <4>2. pc[w] \notin {"mark_replayed", "replay_audit"}
        BY <1>5 DEF Holding, AttemptCalls
      <4>3. /\ pc[w] # "dead_letters" /\ rows' = Written(pc[w], hands[w].of)
            /\ pc[w] = "lead_events" => ~EventIdTaken(hands[w].of)
        BY <1>5, <4>1, <4>2 DEF Landed, storeVars
      <4> QED
        BY <1>1, <1>5, <4>3 DEF Holding
    <3> QED
      BY <3>1, <3>2, <3>3
  <2> QED
    BY <1>3, <2>1, <2>2
<1>6. CASE pc[w] \in {"mark_replayed", "replay_audit"} /\ rows' # rows
  <2>1. Landed(w)
    BY <1>6 DEF Attempt, CreateLead, CreateLeadConflicts, SaveLeadEvent,
       SaveLeadEventConflicts, SaveSolarEstimate, SaveReplyDraft, SaveDraftAudit,
       SaveProcessedLog, Insert, GiveUp, SaveFailedLog, CreateDeadLetter,
       SaveDlqAudit, Fault, AttemptCallFails, UnguardedCallFails, storeVars
  <2>2. rows' = Written("replay_audit", deadLetters[target[w]].of)
    BY <1>6, <2>1 DEF Landed
  <2>3. w \in Replayers
    BY <1>6, Actors DEF Typed, HandlersTyped
  <2>4. deadLetters[target[w]].of \in Submissions
    BY <1>6, <2>3, StoreTyped DEF Typed, HandlersTyped
  <2>5. "replay_audit" \in Tables \ {"lead_events"}
    BY DEF Tables, AttemptCalls
  <2> QED
    BY <1>1, <2>2, <2>4, <2>5, OtherTableWritten DEF LeadEventsStep
<1> QED
  BY <1>2, <1>4, <1>5, <1>6 DEF Holding, UnguardedCalls

(* With Postgres, whatever calls fail after their statement was committed,  *)
(* however often events are retried and replayed and processes restarted,   *)
(* an event_id has one lead_events row (saveLeadEvent, migration 001:45).   *)
THEOREM OneRowPerEventId ==
  ASSUME Adapter = "postgres"
  PROVE  Spec => []LeadEventUnique
<1>1. Init => LeadEventUnique
  BY DEF Init, LeadEventUnique, Tables, AttemptCalls
<1>2. Typed /\ LeadEventUnique /\ [Next]_vars => LeadEventUnique'
  <2> SUFFICES ASSUME Typed, LeadEventUnique, [Next]_vars PROVE LeadEventUnique'
    OBVIOUS
  <2>1. {"lead_events", "received", "replay_audit"} \subseteq Tables
        /\ rows \in Counts
        /\ \A x \in Submissions : rows["lead_events"][x] \in Nat
    BY StoreTyped DEF Tables, AttemptCalls
  <2>2. CASE rows'["lead_events"] = rows["lead_events"]
    BY <2>2 DEF LeadEventUnique
  <2>3. ASSUME NEW w \in Workers, Attempt(w) \/ GiveUp(w) \/ Fault(w)
        PROVE  LeadEventUnique'
    <3>1. CASE rows'["lead_events"] # rows["lead_events"]
      <4>1. PICK h \in Submissions :
              /\ ~EventIdTaken(h)
              /\ \A x \in Submissions :
                   rows'["lead_events"][x] =
                     IF x = h THEN rows["lead_events"][x] + 1
                     ELSE rows["lead_events"][x]
        BY <2>3, <3>1, WorkerLeadEvents DEF LeadEventsStep
      <4>2. \A x \in Submissions :
              EventId[x] = EventId[h] => rows["lead_events"][x] = 0
        BY <2>1, <4>1 DEF EventIdTaken
      <4>3. \A x \in Submissions : rows'["lead_events"][x] < 2
        BY <2>1, <4>1, <4>2 DEF LeadEventUnique
      <4>4. ASSUME NEW x \in Submissions, NEW y \in Submissions,
                   EventId[x] = EventId[y], rows'["lead_events"][x] > 0,
                   rows'["lead_events"][y] > 0
            PROVE  x = y
        BY <2>1, <4>1, <4>2, <4>4 DEF LeadEventUnique
      <4> QED
        BY <4>3, <4>4 DEF LeadEventUnique
    <3> QED
      BY <2>2, <3>1
  <2>4. ASSUME NEW s \in Submissions, rows' = Written("received", s)
        PROVE  LeadEventUnique'
    BY <2>1, <2>2, <2>4, OtherTableWritten
  <2>5. ASSUME NEW w \in Replayers, FinishReplay(w)
        PROVE  LeadEventUnique'
    <3>1. CASE MarkReplayed(w)
      BY <2>2, <3>1 DEF MarkReplayed
    <3>2. CASE SaveReplayAudit(w)
      <4>1. deadLetters[target[w]].of \in Submissions
        BY <3>2, StoreTyped DEF SaveReplayAudit, Typed, HandlersTyped
      <4> QED
        BY <2>1, <2>2, <3>2, <4>1, OtherTableWritten DEF SaveReplayAudit
    <3> QED
      BY <2>5, <3>1, <3>2 DEF FinishReplay
  <2>6. CASE UNCHANGED vars
    BY <2>2, <2>6 DEF vars, storeVars
  <2>7. ASSUME NEW s \in Submissions,
               Submit(s) \/ ReceiptLands(s) \/ ReceiptFails(s) \/ Killed
        PROVE  LeadEventUnique'
    BY <2>2, <2>4, <2>7 DEF Submit, RejectInvalid, IgnoreDuplicate, Accept,
       ReceiptLands, ReceiptFails, Killed, Dies, storeVars
  <2>8. CASE Killed
    BY <2>2, <2>8 DEF Killed, Dies, storeVars
  <2>9. ASSUME NEW w \in Consumers, Consume(w) PROVE LeadEventUnique'
    BY <2>2, <2>9 DEF Consume, TakeMessage, QueueDrained, Respond, storeVars
  <2>10. ASSUME NEW w \in Replayers, Replay(w) PROVE LeadEventUnique'
    BY <2>2, <2>10 DEF Replay, StartReplay, ReplayUnknown, storeVars
  <2> QED
    BY <2>3, <2>5, <2>6, <2>7, <2>8, <2>9, <2>10 DEF Next, Work
<1> QED
  BY <1>1, <1>2, TypeInvariant, PTL DEF Spec

-----------------------------------------------------------------------------
(* A calculator request does not leave its event in the queue               *)

(* Who drained the queue found nothing in it, and nobody queues the event   *)
(* of a request again.                                                      *)
NotLeftQueued ==
  \A s \in Solar :
    pc[s] = "respond" \/ (pc[s] = "done" /\ response[s].status # "server_error")
      => ~InQueue(s)

LEMMA AnswerFacts ==
  ASSUME Typed, NEW c \in Callers, NEW status, Answer(c, status)
  PROVE  /\ response'[c].status = status
         /\ \A d \in Callers \ {c} : response'[d] = response[d]
<1>1. response \in [Callers -> Responses]
  BY TypedParts DEF Typed, RestTyped
<1> QED
  BY <1>1 DEF Answer, NoResponse

(* A step of one caller that queues nothing leaves the others as they are.  *)
LEMMA NotLeftQueuedKept ==
  ASSUME Typed, NotLeftQueued, NEW c \in Callers,
         \A s \in Submissions : InQueue(s)' => InQueue(s),
         \A d \in Callers \ {c} : pc'[d] = pc[d] /\ response'[d] = response[d],
         \/ c \in Replayers \/ pc'[c] \notin {"respond", "done"}
         \/ pc'[c] = "done" /\ response'[c].status = "server_error"
         \/ ~InQueue(c) \/ c \notin Solar
  PROVE  NotLeftQueued'
BY Actors DEF NotLeftQueued, Consumers

(* However many consumers run and whatever store calls fail, an answered    *)
(* calculator request has its event off the queue, unless it was answered   *)
(* 500 (createSolarEstimate.mjs:28-33, inMemoryQueue.mjs:9-18).             *)
THEOREM NothingAnsweredIsQueued == Spec => []AnsweredNotQueued
<1>1. Init => NotLeftQueued
  BY DEF Init, NotLeftQueued, InQueue
<1>2. Typed /\ IInv /\ NotLeftQueued /\ [Next]_vars => NotLeftQueued'
  <2> SUFFICES ASSUME Typed, IInv, NotLeftQueued, [Next]_vars PROVE NotLeftQueued'
    OBVIOUS
  <2> USE Actors
  <2>1. queue' = queue => \A s \in Submissions : InQueue(s)' => InQueue(s)
    BY DEF InQueue
  <2>2. ASSUME NEW s \in Submissions, Submit(s) PROVE NotLeftQueued'
    <3>1. pc[s] = "idle" /\ s \in Callers /\ ~InQueue(s)
      BY <2>2 DEF Submit, RejectInvalid, IgnoreDuplicate, Accept, IInv, Flow
    <3>2. CASE RejectInvalid(s) \/ IgnoreDuplicate(s)
      <4>1. /\ Goto(s, "done") /\ queue' = queue
            /\ \E status : Answer(s, status)
        BY <3>2 DEF RejectInvalid, IgnoreDuplicate
      <4> QED
        BY <2>1, <3>1, <4>1, PcFacts, AnswerFacts, NotLeftQueuedKept
    <3>3. CASE Accept(s)
      <4>1. \A x \in Submissions : InQueue(x)' => InQueue(x) \/ x = s
        <5>1. queue \in Seq(Messages) /\ Message(s) \in Messages /\ Message(s).of = s
          BY TypedParts DEF Typed, RestTyped, Message, Messages
        <5>2. queue' = Append(queue, Message(s))
          BY <3>3 DEF Accept, Enqueued
        <5>3. \A i \in DOMAIN queue' :
                \/ i \in DOMAIN queue /\ queue'[i] = queue[i]
                \/ queue'[i] = Message(s)
          BY <5>1, <5>2
        <5> QED
          BY <5>1, <5>3 DEF InQueue
      <4>2. s \in Solar => pc'[s] = "consume"
        BY <3>1, <3>3, PcFacts DEF Accept
      <4>3. \A d \in Callers \ {s} : pc'[d] = pc[d] /\ response'[d] = response[d]
        <5>1. CASE s \in Solar
          BY <3>1, <3>3, <5>1, PcFacts DEF Accept
        <5>2. CASE s \notin Solar
          BY <3>1, <3>3, <5>2, PcFacts, AnswerFacts DEF Accept
        <5> QED
          BY <5>1, <5>2
      <4> QED
        BY <4>1, <4>2, <4>3, <3>1 DEF NotLeftQueued, Consumers
    <3> QED
      BY <2>2, <3>2, <3>3 DEF Submit
  <2>3. CASE Killed \/ \E s \in Submissions : ReceiptFails(s)
    <3>1. queue' = <<>>
      BY <2>3 DEF Killed, ReceiptFails, Dies
    <3> QED
      BY <3>1 DEF NotLeftQueued, InQueue
  <2>4. ASSUME NEW s \in Submissions, ReceiptLands(s) PROVE NotLeftQueued'
    BY <2>4 DEF ReceiptLands, NotLeftQueued, InQueue
  <2>5. ASSUME NEW w \in Consumers, TakeMessage(w) PROVE NotLeftQueued'
    <3>1. /\ queue # <<>> /\ queue' = Tail(queue) /\ response' = response
          /\ \E next \in {"failed", "leads"} : Goto(w, next)
      BY <2>5, FirstCallPlace DEF TakeMessage, Shifted
    <3>2. \A s \in Submissions : InQueue(s)' => InQueue(s)
      <4>1. queue \in Seq(Messages)
        BY TypedParts DEF Typed, RestTyped
      <4>2. \A i \in DOMAIN queue' : i + 1 \in DOMAIN queue /\ queue'[i] = queue[i + 1]
        BY <3>1, <4>1
      <4> QED
        BY <4>2 DEF InQueue
    <3> QED
      BY <3>1, <3>2, PcFacts, NotLeftQueuedKept
  <2>6. ASSUME NEW w \in Consumers, QueueDrained(w) PROVE NotLeftQueued'
    <3>1. queue' = <<>>
      BY <2>6 DEF QueueDrained, Drained
    <3> QED
      BY <3>1 DEF NotLeftQueued, InQueue
  <2>7. ASSUME NEW w \in Consumers, Respond(w) PROVE NotLeftQueued'
    <3>1. pc[w] = "respond" /\ queue' = queue /\ w \in Callers /\ Goto(w, "done")
      BY <2>7 DEF Respond
    <3>2. ~InQueue(w)
      BY <3>1 DEF NotLeftQueued, Consumers
    <3>3. \A d \in Callers \ {w} : response'[d] = response[d]
      <4>1. response \in [Callers -> Responses]
        BY TypedParts DEF Typed, RestTyped
      <4>2. \E r : response' = [response EXCEPT ![w] = r]
        BY <2>7 DEF Respond, Answer
      <4> QED
        BY <4>1, <4>2
    <3> QED
      BY <2>1, <3>1, <3>2, <3>3, PcFacts, NotLeftQueuedKept
  <2>8. ASSUME NEW w \in Workers, Attempt(w) \/ GiveUp(w) PROVE NotLeftQueued'
    <3>1. queue' = queue /\ response' = response /\ w \in Callers
      BY <2>8 DEF Attempt, CreateLead, CreateLeadConflicts, SaveLeadEvent,
         SaveLeadEventConflicts, SaveSolarEstimate, SaveReplyDraft, SaveDraftAudit,
         SaveProcessedLog, Insert, GiveUp, SaveFailedLog, CreateDeadLetter,
         SaveDlqAudit
    <3>2. \E next \in Holding \cup {"consume", "mark_replayed"} : Goto(w, next)
      BY <2>8, FirstCallPlace
         DEF Attempt, CreateLead, CreateLeadConflicts, SaveLeadEvent,
         SaveLeadEventConflicts, SaveSolarEstimate, SaveReplyDraft, SaveDraftAudit,
         SaveProcessedLog, Insert, GiveUp, SaveFailedLog, CreateDeadLetter,
         SaveDlqAudit, Return, Holding, AttemptCalls, AfterRetries
    <3>3. pc'[w] \notin {"respond", "done"} /\ \A d \in Callers \ {w} : pc'[d] = pc[d]
      BY <3>1, <3>2, PcFacts DEF Holding, AttemptCalls
    <3> QED
      BY <2>1, <3>1, <3>3, NotLeftQueuedKept
  <2>9. ASSUME NEW w \in Workers, Fault(w) PROVE NotLeftQueued'
    <3>1. queue' = queue /\ w \in Callers
      BY <2>9 DEF Fault, AttemptCallFails, UnguardedCallFails
    <3>2. CASE AttemptCallFails(w)
      BY <2>1, <3>1, <3>2, PcFacts, NotLeftQueuedKept DEF AttemptCallFails
    <3>3. CASE UnguardedCallFails(w)
      BY <2>1, <3>1, <3>3, PcFacts, AnswerFacts, NotLeftQueuedKept
         DEF UnguardedCallFails
    <3> QED
      BY <2>9, <3>2, <3>3 DEF Fault
  <2>10. ASSUME NEW w \in Replayers, FinishReplay(w) \/ Replay(w)
         PROVE  NotLeftQueued'
    <3>1. /\ queue' = queue /\ w \in Callers /\ \E next : Goto(w, next)
          /\ response' = response \/ \E status : Answer(w, status)
      BY <2>10 DEF FinishReplay, MarkReplayed, SaveReplayAudit, Replay, StartReplay,
         ReplayUnknown
    <3> QED
      BY <2>1, <3>1, PcFacts, AnswerFacts, NotLeftQueuedKept
  <2>11. CASE UNCHANGED vars
    BY <2>11 DEF vars, NotLeftQueued, InQueue
  <2> QED
    BY <2>2, <2>3, <2>4, <2>5, <2>6, <2>7, <2>8, <2>9, <2>10, <2>11
       DEF Next, Work, Consume
<1>3. NotLeftQueued => AnsweredNotQueued
  BY DEF NotLeftQueued, AnsweredNotQueued
<1> QED
  BY <1>1, <1>2, <1>3, TypeInvariant, Invariant, PTL DEF Spec

-----------------------------------------------------------------------------
(* A dead letter marked replayed was reprocessed                            *)

Reprocessed(d) ==
  \/ rows["processed"][deadLetters[d].of] > 0
  \/ \E e \in DeadLettersOf(deadLetters[d].of) : e > d

(* A replay works on the message of its dead letter; when it is about to    *)
(* mark it, or to audit a new one, the outcome is on record.                *)
ReplaysWork ==
  /\ ReplayedWasReprocessed
  /\ \A w \in Replayers : hands[w] # NoMessage =>
       target[w] \in DOMAIN deadLetters /\ hands[w].of = deadLetters[target[w]].of
  /\ \A w \in Replayers : pc[w] = "mark_replayed" => Reprocessed(target[w])
  /\ \A w \in Replayers : pc[w] = "dlq_audit" =>
       \E e \in DOMAIN deadLetters : deadLetters[e].of = hands[w].of /\ e > target[w]

(* What a store call of worker w may do to the dead letters.                *)
LEMMA LettersBecome ==
  ASSUME NEW w \in Workers,
         Attempt(w) \/ GiveUp(w) \/ Fault(w) \/ (w \in Replayers /\ FinishReplay(w))
  PROVE  \/ deadLetters' = deadLetters
         \/ /\ pc[w] = "dead_letters"
            /\ deadLetters' = Append(deadLetters, DeadLetter(hands[w]))
         \/ /\ pc[w] = "mark_replayed"
            /\ deadLetters' = [deadLetters EXCEPT ![target[w]].replayed = TRUE]
<1>1. CASE Attempt(w)
  BY <1>1 DEF Attempt, CreateLead, CreateLeadConflicts, SaveLeadEvent,
     SaveLeadEventConflicts, SaveSolarEstimate, SaveReplyDraft, SaveDraftAudit,
     SaveProcessedLog, Insert, storeVars
<1>2. CASE GiveUp(w)
  BY <1>2 DEF GiveUp, SaveFailedLog, CreateDeadLetter, SaveDlqAudit
<1>3. CASE Fault(w)
  <2>1. Landed(w) \/ deadLetters' = deadLetters
    BY <1>3 DEF Fault, AttemptCallFails, UnguardedCallFails, storeVars
  <2> QED
    BY <2>1 DEF Landed, storeVars
<1>4. CASE FinishReplay(w)
  BY <1>4 DEF FinishReplay, MarkReplayed, SaveReplayAudit
<1> QED
  BY <1>1, <1>2, <1>3, <1>4

(* Only the letter a replay is about to mark becomes a replayed one.        *)
LEMMA MarksStep ==
  ASSUME Typed, NEW w \in Workers,
         Attempt(w) \/ GiveUp(w) \/ Fault(w) \/ (w \in Replayers /\ FinishReplay(w)),
         NEW d \in DOMAIN deadLetters', deadLetters'[d].replayed
  PROVE  /\ d \in DOMAIN deadLetters
         /\ deadLetters[d].replayed \/ (pc[w] = "mark_replayed" /\ d = target[w])
<1>1. deadLetters \in Seq(Letter)
  BY StoreTyped
<1>2. CASE /\ pc[w] = "dead_letters"
           /\ deadLetters' = Append(deadLetters, DeadLetter(hands[w]))
  <2>1. hands[w] \in Messages
    BY <1>2 DEF Typed, HandlersTyped, Holding
  <2>2. DeadLetter(hands[w]) \in Letter /\ ~DeadLetter(hands[w]).replayed
    BY <2>1 DEF DeadLetter, Letter, Messages
  <2>3. /\ DOMAIN deadLetters' = DOMAIN deadLetters \cup {Len(deadLetters) + 1}
        /\ \A e \in DOMAIN deadLetters : deadLetters'[e] = deadLetters[e]
    BY <1>1, <1>2, <2>1, LetterAppended
  <2>4. deadLetters'[Len(deadLetters) + 1] = DeadLetter(hands[w])
    BY <1>1, <1>2, <2>2
  <2> QED
    BY <2>2, <2>3, <2>4
<1>3. CASE /\ pc[w] = "mark_replayed"
           /\ deadLetters' = [deadLetters EXCEPT ![target[w]].replayed = TRUE]
  BY <1>1, <1>3
<1> QED
  BY <1>2, <1>3, LettersBecome

(* What was reprocessed stays so.                                           *)
LEMMA ReprocessedKept ==
  ASSUME Typed, NEW w \in Workers, StoreStep(w),
         NEW d \in DOMAIN deadLetters, Reprocessed(d)
  PROVE  Reprocessed(d)'
<1>1. deadLetters[d].of \in Submissions /\ deadLetters'[d].of = deadLetters[d].of
  BY StoreTyped DEF StoreStep
<1> QED
  BY <1>1 DEF StoreStep, Reprocessed, DeadLettersOf

LEMMA ReplaysWorkKept ==
  ASSUME Typed, ReplaysWork, NEW w \in Workers, StoreStep(w),
         Attempt(w) \/ GiveUp(w) \/ Fault(w) \/ (w \in Replayers /\ FinishReplay(w)),
         target' = target, hands'[w] = hands[w] \/ hands'[w] = NoMessage,
         \A v \in Workers \ {w} : hands'[v] = hands[v] /\ pc'[v] = pc[v],
         NEW k, k = IF w \in Replayers THEN target[w] ELSE 0,
         w \in Replayers /\ pc'[w] = "mark_replayed" => Reprocessed(k)',
         w \in Replayers /\ pc'[w] = "dlq_audit" =>
           \E e \in DOMAIN deadLetters' :
             deadLetters'[e].of = hands'[w].of /\ e > k
  PROVE  ReplaysWork'
<1> USE Actors
<1>1. ReplayedWasReprocessed'
  <2>1. ASSUME NEW d \in DOMAIN deadLetters', deadLetters'[d].replayed
        PROVE  Reprocessed(d)'
    <3>1. /\ d \in DOMAIN deadLetters
          /\ deadLetters[d].replayed \/ (pc[w] = "mark_replayed" /\ d = target[w])
      BY <2>1, MarksStep
    <3>2. Reprocessed(d)
      <4>1. CASE deadLetters[d].replayed
        BY <3>1, <4>1 DEF ReplaysWork, ReplayedWasReprocessed, Reprocessed
      <4>2. CASE pc[w] = "mark_replayed" /\ d = target[w]
        <5>1. w \in Replayers
          BY <4>2 DEF Typed, HandlersTyped
        <5> QED
          BY <4>2, <5>1 DEF ReplaysWork
      <4> QED
        BY <3>1, <4>1, <4>2
    <3> QED
      BY <3>1, <3>2, ReprocessedKept
  <2> QED
    BY <2>1 DEF ReplayedWasReprocessed, Reprocessed
<1>2. \A v \in Replayers : hands'[v] # NoMessage =>
        target'[v] \in DOMAIN deadLetters' /\ hands'[v].of = deadLetters'[target'[v]].of
  BY DEF ReplaysWork, StoreStep
<1>3. ASSUME NEW v \in Replayers, pc'[v] = "mark_replayed"
      PROVE  \E d : d = target'[v] /\ Reprocessed(d)'
  <2>1. CASE v = w
    BY <1>3, <2>1
  <2>2. CASE v # w
    <3>1. pc[v] = "mark_replayed" /\ v \in Workers
      BY <1>3, <2>2
    <3>2. target[v] \in DOMAIN deadLetters /\ Reprocessed(target[v])
      BY <3>1 DEF ReplaysWork, Typed, HandlersTyped
    <3>3. PICK d \in DOMAIN deadLetters : d = target[v] /\ Reprocessed(d)
      BY <3>2
    <3> QED
      BY <3>3, ReprocessedKept
  <2> QED
    BY <2>1, <2>2
<1>4. ASSUME NEW v \in Replayers, pc'[v] = "dlq_audit"
      PROVE  \E e \in DOMAIN deadLetters' :
               deadLetters'[e].of = hands'[v].of /\ e > target'[v]
  <2>1. CASE v = w
    BY <1>4, <2>1
  <2>2. CASE v # w
    <3>1. pc[v] = "dlq_audit" /\ hands'[v] = hands[v] /\ v \in Workers
      BY <1>4, <2>2
    <3> QED
      BY <3>1 DEF ReplaysWork, StoreStep
  <2> QED
    BY <2>1, <2>2
<1>5. \A v \in Replayers : pc'[v] = "mark_replayed" => Reprocessed(target[v])'
  BY <1>3 DEF Reprocessed, DeadLettersOf
<1> QED
  BY <1>1, <1>2, <1>4, <1>5 DEF ReplaysWork

(* A step that touches neither replays nor the tables they look at.         *)
LEMMA ReplaysUntouched ==
  ASSUME Typed, ReplaysWork, target' = target, deadLetters' = deadLetters,
         rows'["processed"] = rows["processed"],
         \A w \in Replayers : hands'[w] = hands[w],
         \A w \in Replayers : pc'[w] = pc[w] \/ pc'[w] = "done"
  PROVE  ReplaysWork'
<1>1. \A d : Reprocessed(d) => Reprocessed(d)'
  BY DEF Reprocessed, DeadLettersOf
<1>2. ReplayedWasReprocessed'
  BY DEF ReplaysWork, ReplayedWasReprocessed, DeadLettersOf
<1>3. \A w \in Replayers : pc'[w] = "mark_replayed" => Reprocessed(target[w])'
  BY DEF ReplaysWork, Reprocessed, DeadLettersOf
<1>4. \A w \in Replayers : hands'[w] # NoMessage =>
        target'[w] \in DOMAIN deadLetters' /\ hands'[w].of = deadLetters'[target'[w]].of
  <2>1. \A w \in Replayers : hands'[w] = hands[w]
    OBVIOUS
  <2>2. \A w \in Replayers : hands[w] # NoMessage =>
          target[w] \in DOMAIN deadLetters /\ hands[w].of = deadLetters[target[w]].of
    BY DEF ReplaysWork
  <2> QED
    BY <2>1, <2>2
<1>5. \A w \in Replayers : pc'[w] = "dlq_audit" =>
        \E e \in DOMAIN deadLetters' :
          deadLetters'[e].of = hands'[w].of /\ e > target'[w]
  <2>1. \A w \in Replayers : pc'[w] = "dlq_audit" =>
          pc[w] = "dlq_audit" /\ hands'[w] = hands[w]
    OBVIOUS
  <2>2. \A w \in Replayers : pc[w] = "dlq_audit" =>
          \E e \in DOMAIN deadLetters : deadLetters[e].of = hands[w].of /\ e > target[w]
    BY DEF ReplaysWork
  <2> QED
    BY <2>1, <2>2
<1> QED
  BY <1>2, <1>3, <1>4, <1>5 DEF ReplaysWork

LEMMA ReplaysWorkNext ==
  ASSUME Typed, ReplaysWork, [Next]_vars
  PROVE  ReplaysWork'
<1> USE Actors
<1>1. ASSUME NEW w \in Workers, Attempt(w) PROVE ReplaysWork'
  <2>1. StoreStep(w) /\ target' = target /\ w \in Callers
    BY <1>1, AttemptStores DEF Attempt, CreateLead, CreateLeadConflicts, SaveLeadEvent,
       SaveLeadEventConflicts, SaveSolarEstimate, SaveReplyDraft, SaveDraftAudit,
       SaveProcessedLog, Insert, workerVars
  <2>2. PICK k : k = IF w \in Replayers THEN target[w] ELSE 0
    OBVIOUS
  <2>3. CASE SaveProcessedLog(w)
    <3>1. PICK h : h = hands[w].of
      OBVIOUS
    <3>2. /\ hands'[w] = NoMessage /\ \A v \in Workers \ {w} : hands'[v] = hands[v]
          /\ pc'[w] \in {"consume", "mark_replayed"}
          /\ \A c \in Callers \ {w} : pc'[c] = pc[c]
      BY <2>3, ReturnFacts DEF SaveProcessedLog
    <3>3. h \in Submissions /\ hands[w] # NoMessage
      BY <2>3, <3>1 DEF SaveProcessedLog, Typed, HandlersTyped, Holding,
         AttemptCalls, Messages, NoMessage
    <3>4. rows'["processed"][h] > 0
      <4>1. rows' = Written("processed", h) /\ "processed" \in Tables
            /\ rows \in Counts /\ rows["processed"][h] \in Nat
        BY <2>3, <3>1, <3>3, StoreTyped DEF SaveProcessedLog, Tables, AttemptCalls
      <4> QED
        BY <3>3, <4>1, WrittenFacts
    <3>5. w \in Replayers => Reprocessed(k)'
      <4>1. w \in Replayers => k \in DOMAIN deadLetters /\ deadLetters'[k].of = h
        BY <2>1, <2>2, <3>1, <3>3 DEF ReplaysWork, StoreStep
      <4> QED
        BY <3>4, <4>1 DEF Reprocessed
    <3> QED
      BY <1>1, <2>1, <2>2, <3>2, <3>5, ReplaysWorkKept
  <2>4. CASE ~SaveProcessedLog(w)
    <3>1. /\ \E next \in AttemptCalls \cup {"failed"} : Goto(w, next)
          /\ hands' = hands
      BY <1>1, <2>4 DEF Attempt, CreateLead, CreateLeadConflicts, SaveLeadEvent,
         SaveLeadEventConflicts, SaveSolarEstimate, SaveReplyDraft, SaveDraftAudit,
         Insert, AttemptCalls, workerVars
    <3>2. /\ pc'[w] \in AttemptCalls \cup {"failed"}
          /\ \A c \in Callers \ {w} : pc'[c] = pc[c]
      BY <2>1, <3>1, PcFacts
    <3>3. pc'[w] \notin {"mark_replayed", "dlq_audit"}
      BY <3>2 DEF AttemptCalls
    <3> QED
      BY <1>1, <2>1, <2>2, <3>1, <3>2, <3>3, ReplaysWorkKept
  <2> QED
    BY <2>3, <2>4
<1>2. ASSUME NEW w \in Workers, GiveUp(w) PROVE ReplaysWork'
  <2>1. StoreStep(w) /\ target' = target /\ w \in Callers
    BY <1>2, GiveUpStores DEF GiveUp, SaveFailedLog, CreateDeadLetter, SaveDlqAudit,
       workerVars
  <2>2. PICK k : k = IF w \in Replayers THEN target[w] ELSE 0
    OBVIOUS
  <2>3. CASE SaveFailedLog(w)
    <3>1. /\ \E next \in {"failed", "leads", "dead_letters"} : Goto(w, next)
          /\ hands' = hands
      BY <2>3, FirstCallPlace DEF SaveFailedLog, AfterRetries
    <3>2. /\ pc'[w] \in {"failed", "leads", "dead_letters"}
          /\ \A c \in Callers \ {w} : pc'[c] = pc[c]
      BY <2>1, <3>1, PcFacts
    <3> QED
      BY <1>2, <2>1, <2>2, <3>1, <3>2, ReplaysWorkKept
  <2>4. CASE CreateDeadLetter(w)
    <3>1. /\ Goto(w, "dlq_audit") /\ hands' = hands /\ pc[w] = "dead_letters"
          /\ deadLetters' = Append(deadLetters, DeadLetter(hands[w]))
      BY <2>4 DEF CreateDeadLetter, workerVars
    <3>2. /\ pc'[w] = "dlq_audit"
          /\ \A c \in Callers \ {w} : pc'[c] = pc[c]
      BY <2>1, <3>1, PcFacts
    <3>3. hands[w] \in Messages /\ deadLetters \in Seq(Letter)
      BY <3>1, StoreTyped DEF Typed, HandlersTyped, Holding
    <3>4. /\ Len(deadLetters) + 1 \in DOMAIN deadLetters'
          /\ deadLetters'[Len(deadLetters) + 1].of = hands'[w].of
      BY <3>1, <3>3, LetterAppended
    <3>5. w \in Replayers => Len(deadLetters) + 1 > k
      <4>1. w \in Replayers => k \in DOMAIN deadLetters
        BY <2>2, <3>1 DEF Typed, HandlersTyped
      <4> QED
        BY <3>3, <4>1
    <3> QED
      BY <1>2, <2>1, <2>2, <3>1, <3>2, <3>4, <3>5, ReplaysWorkKept
  <2>5. CASE SaveDlqAudit(w)
    <3>1. /\ hands'[w] = NoMessage /\ \A v \in Workers \ {w} : hands'[v] = hands[v]
          /\ pc'[w] \in {"consume", "mark_replayed"}
          /\ \A c \in Callers \ {w} : pc'[c] = pc[c]
      BY <2>5, ReturnFacts DEF SaveDlqAudit
    <3>2. w \in Replayers => Reprocessed(k)'
      <4>1. hands[w] # NoMessage /\ pc[w] = "dlq_audit"
        BY <2>5 DEF SaveDlqAudit, Typed, HandlersTyped, Holding, Messages, NoMessage
      <4>2. w \in Replayers =>
              /\ k \in DOMAIN deadLetters /\ hands[w].of = deadLetters[k].of
              /\ \E e \in DOMAIN deadLetters : deadLetters[e].of = hands[w].of /\ e > k
        BY <2>2, <4>1 DEF ReplaysWork
      <4>3. w \in Replayers => Reprocessed(k)
        BY <4>2 DEF Reprocessed, DeadLettersOf
      <4> QED
        BY <2>1, <4>2, <4>3, ReprocessedKept
    <3> QED
      BY <1>2, <2>1, <2>2, <3>1, <3>2, ReplaysWorkKept
  <2> QED
    BY <1>2, <2>3, <2>4, <2>5 DEF GiveUp
<1>3. ASSUME NEW w \in Workers, Fault(w) \/ (w \in Replayers /\ FinishReplay(w))
      PROVE  ReplaysWork'
  <2>1. PICK k : k = IF w \in Replayers THEN target[w] ELSE 0
    OBVIOUS
  <2>2. /\ StoreStep(w) /\ target' = target /\ hands' = hands /\ w \in Callers
        /\ \E next \in {"failed", "replay_audit", "done"} : Goto(w, next)
    BY <1>3, FaultStores, FinishReplayStores
       DEF FinishReplay, MarkReplayed, SaveReplayAudit, Fault, AttemptCallFails,
           UnguardedCallFails, workerVars
  <2>3. /\ pc'[w] \notin {"mark_replayed", "dlq_audit"}
        /\ \A c \in Callers \ {w} : pc'[c] = pc[c]
    BY <2>2, PcFacts
  <2> QED
    BY <1>3, <2>1, <2>2, <2>3, ReplaysWorkKept
<1>4. ASSUME NEW s \in Submissions, Submit(s) \/ ReceiptLands(s) PROVE ReplaysWork'
  <2>1. /\ target' = target /\ deadLetters' = deadLetters /\ hands' = hands
        /\ pc' = pc \/ \E next : Goto(s, next)
        /\ rows' = rows \/ rows' = Written("received", s)
    BY <1>4 DEF Submit, RejectInvalid, IgnoreDuplicate, Accept, ReceiptLands,
       workerVars, storeVars
  <2>2. rows'["processed"] = rows["processed"]
    BY <2>1, OtherTableWritten DEF Tables, AttemptCalls
  <2>3. s \in Callers /\ s \notin Replayers
    BY PipelineAssumption
  <2> QED
    BY <2>1, <2>2, <2>3, PcFacts, ReplaysUntouched
<1>5. CASE Killed \/ \E s \in Submissions : ReceiptFails(s)
  <2>1. Dies
    BY <1>5 DEF Killed, ReceiptFails
  <2>2. /\ UNCHANGED <<hands, target, rows, deadLetters>>
        /\ \A c \in Callers : pc'[c] = pc[c] \/ pc'[c] = "done"
    BY <2>1 DEF Dies, workerVars, storeVars
  <2> QED
    BY <2>2, ReplaysUntouched
<1>6. ASSUME NEW w \in Consumers, Consume(w) PROVE ReplaysWork'
  <2>1. /\ UNCHANGED <<target, rows, deadLetters>> /\ \E next : Goto(w, next)
        /\ \A v \in Workers \ {w} : hands'[v] = hands[v]
    <3>1. hands \in [Workers -> Messages \cup {NoMessage}]
      BY TypedParts DEF Typed, RestTyped
    <3> QED
      BY <1>6, <3>1 DEF Consume, TakeMessage, QueueDrained, Respond, BeginAttempts,
         workerVars, storeVars
  <2>2. w \in Callers /\ w \notin Replayers
    OBVIOUS
  <2> QED
    BY <2>1, <2>2, PcFacts, ReplaysUntouched
<1>7. ASSUME NEW w \in Replayers, ReplayUnknown(w) PROVE ReplaysWork'
  <2>1. /\ UNCHANGED <<target, rows, deadLetters, hands>> /\ Goto(w, "done")
        /\ w \in Callers
    BY <1>7 DEF ReplayUnknown, workerVars, storeVars
  <2> QED
    BY <2>1, PcFacts, ReplaysUntouched
<1>8. ASSUME NEW w \in Replayers, NEW d \in DOMAIN deadLetters, NEW throws \in BOOLEAN,
             StartReplay(w, d, throws)
      PROVE  ReplaysWork'
  <2>1. /\ UNCHANGED <<rows, deadLetters>> /\ w \in Workers /\ w \in Callers
        /\ \E next \in {"failed", "leads"} : Goto(w, next)
        /\ target' = [target EXCEPT ![w] = d]
        /\ hands' = [hands EXCEPT ![w] =
             [of |-> deadLetters[d].of, throws |-> throws]]
    BY <1>8, FirstCallPlace DEF StartReplay, BeginAttempts, storeVars
  <2>2. /\ target'[w] = d /\ hands'[w].of = deadLetters[d].of
        /\ \A v \in Replayers \ {w} : target'[v] = target[v] /\ hands'[v] = hands[v]
    BY <2>1, TypedParts DEF Typed, RestTyped
  <2>3. /\ pc'[w] \in {"failed", "leads"}
        /\ \A v \in Replayers \ {w} : pc'[v] = pc[v]
    BY <2>1, PcFacts
  <2>4. \A v \in Replayers : pc'[v] = "mark_replayed" => Reprocessed(target[v])'
    BY <2>1, <2>2, <2>3 DEF ReplaysWork, Reprocessed, DeadLettersOf
  <2>5. ReplayedWasReprocessed'
    BY <2>1 DEF ReplaysWork, ReplayedWasReprocessed, DeadLettersOf
  <2> QED
    BY <2>1, <2>2, <2>3, <2>4, <2>5 DEF ReplaysWork
<1>9. CASE UNCHANGED vars
  BY <1>9, ReplaysUntouched DEF vars, workerVars, storeVars
<1> QED
  BY <1>1, <1>2, <1>3, <1>4, <1>5, <1>6, <1>7, <1>8, <1>9 DEF Next, Work, Replay

(* Whatever the outcome of reprocessing and whatever store calls fail, a    *)
(* dead letter is marked replayed only after its event was processed or     *)
(* dead-lettered again (replayDeadLetter, processLeadIntent.mjs:117-153).   *)
THEOREM MarkedWasReprocessed == Spec => []ReplayedWasReprocessed
<1>1. Init => ReplaysWork
  BY Actors DEF Init, ReplaysWork, ReplayedWasReprocessed, Reprocessed, NoMessage
<1>2. Typed /\ ReplaysWork /\ [Next]_vars => ReplaysWork'
  BY ReplaysWorkNext
<1>3. ReplaysWork => ReplayedWasReprocessed
  BY DEF ReplaysWork
<1> QED
  BY <1>1, <1>2, <1>3, TypeInvariant, PTL DEF Spec
=============================================================================
