---------------------------- MODULE LeadPipeline ----------------------------
(***************************************************************************)
(* The lead pipeline: webhook ingress with idempotency keys, the in-memory *)
(* event queue, the queue consumers with retries, the dead-letter table    *)
(* and its replay.                                                         *)
(*                                                                         *)
(* The gateway is one Node process, so code runs alone until its next      *)
(* await: an action is the code between two awaits.  Every store call is a *)
(* step of its own, because a store is injected and may be the networked   *)
(* Postgres adapter; with the in-memory store the same steps are separated *)
(* by the microtask turns of the awaits.                                   *)
(***************************************************************************)
EXTENDS Naturals, Sequences, FiniteSets

CONSTANTS
  Submissions,  (* the POSTs of lead events the environment may make          *)
  Solar,        (* those made to /api/solar-estimate; the rest go to          *)
                (* /webhooks/mock                                             *)
  Replayers,    (* the POSTs to /dlq/replay/:deadLetterId                     *)
  None,         (* null                                                       *)
  Key,          (* Key[s]: the idempotency key of submission s                *)
  EventId,      (* EventId[s]: its event_id                                   *)
  LeadId,       (* LeadId[s]: the lead_id the event carries, or None          *)
  Invalid,      (* submissions the schema validation rejects                  *)
  Unprocessable,  (* submissions with payload.force_error, or whose Hermes    *)
                (* draft the guardrail rejects                                *)
  Adapter,      (* "memory" or "postgres": which store is injected            *)
  MaxRetries,   (* processWithRetries' maxRetries, 3 in the code              *)
  MaxFaults,    (* bound: how many Postgres calls may fail                    *)
  MaxDeaths     (* bound: how often the process is killed                     *)

Consumers == Solar
Workers   == Consumers \cup Replayers
Callers   == Submissions \cup Replayers
(* A message is about a submission; its payload makes every attempt throw   *)
(* before the first store call, or none.                                    *)
Messages  == [of : Submissions, throws : BOOLEAN]
NoMessage == [of |-> None, throws |-> FALSE]

(* The store calls of one attempt, in program order. *)
AttemptCalls ==
  {"leads", "lead_events", "solar_estimates", "reply_drafts", "draft_audit",
   "processed"}
(* The store calls outside the try block: an error there leaves the loop. *)
UnguardedCalls ==
  {"failed", "dead_letters", "dlq_audit", "mark_replayed", "replay_audit"}
Tables == AttemptCalls \cup {"received", "failed", "dlq_audit", "replay_audit"}

ASSUME PipelineAssumption ==
  /\ Solar \subseteq Submissions
  /\ Replayers \cap Submissions = {}
  /\ None \notin Submissions \cup Replayers
  /\ DOMAIN Key = Submissions /\ DOMAIN EventId = Submissions
  /\ DOMAIN LeadId = Submissions
  /\ Adapter \in {"memory", "postgres"}
  /\ MaxRetries \in Nat \ {0}
  /\ MaxFaults \in Nat /\ MaxDeaths \in Nat

VARIABLES
  idempotency,    (* the keys seen by this process                           *)
  queue,          (* InMemoryEventQueue.messages                             *)
  receipts,       (* submissions whose un-awaited "received" log write is    *)
                  (* still under way                                         *)
  pc,             (* the await a caller's handler is suspended at            *)
  hands,          (* the message a worker is processing                      *)
  attempt,        (* its attempt number                                      *)
  result,         (* the last element of consume's results array             *)
  target,         (* the dead letter a replay works on                       *)
  response,       (* what the caller was answered                            *)
  rows,           (* rows[t][s]: rows of table t written for submission s    *)
  deadLetters,    (* the dead_letter_events table                            *)
  newestEstimate, (* whose row state.solar_estimates.at(-1) is               *)
  faults,         (* store calls that have failed                            *)
  deaths,         (* processes that have died                                *)
  lost            (* what they had queued or in hands when they died         *)

workerVars == <<hands, attempt, result, target>>
storeVars  == <<rows, deadLetters, newestEstimate>>
faultVars  == <<faults, deaths, lost>>
vars == <<idempotency, queue, receipts, pc, workerVars, response, storeVars,
          faultVars>>

NoResult   == [status |-> "none", of |-> None]
NoResponse == [status |-> "none", lead |-> None, estimate |-> None]

Init ==
  /\ idempotency = {}
  /\ queue = <<>>
  /\ receipts = {}
  /\ pc = [c \in Callers |-> "idle"]
  /\ hands = [w \in Workers |-> NoMessage]
  /\ attempt = [w \in Workers |-> 0]
  /\ result = [w \in Workers |-> NoResult]
  /\ target = [w \in Replayers |-> 0]
  /\ response = [c \in Callers |-> NoResponse]
  /\ rows = [t \in Tables |-> [s \in Submissions |-> 0]]
  /\ deadLetters = <<>>
  /\ newestEstimate = None
  /\ faults = 0
  /\ deaths = 0
  /\ lost = {}

-----------------------------------------------------------------------------
(* Where a submission is                                                    *)

Accepted(s) == s \in receipts \/ rows["received"][s] > 0
InQueue(s)  == \E i \in DOMAIN queue : queue[i].of = s
(* hands keeps what a handler held when it was answered 500 or went down    *)
(* with its process.                                                        *)
HeldBy(s)   == {w \in Consumers : hands[w].of = s}
DeadLettersOf(s) == {d \in DOMAIN deadLetters : deadLetters[d].of = s}
Finished(s) == rows["processed"][s] > 0 \/ DeadLettersOf(s) # {}
(* A request that is still under way holds it. *)
Live(s)     == \E w \in HeldBy(s) : pc[w] # "done"
(* Nobody is working on it, or will without a replay. *)
AtRest(s)   == ~InQueue(s) /\ \A w \in Workers : hands[w].of = s => pc[w] = "done"
(* The handlers that went down with their process while they worked on it. *)
CutOff(s)   == {w \in Workers : /\ hands[w].of = s /\ pc[w] = "done"
                                /\ response[w].status = "connection_lost"}
(* Accepted, and nowhere any more. *)
Missing(s)  == /\ Accepted(s) /\ s \notin lost
               /\ ~InQueue(s) /\ ~Live(s) /\ ~Finished(s)
ReplaysOf(s) ==
  {w \in Replayers : target[w] # 0 /\ deadLetters[target[w]].of = s}

-----------------------------------------------------------------------------
(* Helpers *)

Goto(c, next)  == pc' = [pc EXCEPT ![c] = next]
Answer(c, status) ==
  response' = [response EXCEPT ![c] = [NoResponse EXCEPT !.status = status]]

(* A row of table t for submission s. *)
Written(t, s) == [rows EXCEPT ![t][s] = @ + 1]

(* assertValid, the force_error check, matchTier and createHermesDraft run  *)
(* before the first store call of an attempt.                               *)
(* Mutant: the throw is lost in a promise nobody settles. *)
FirstCallHanging(m) == IF m.throws THEN "hung" ELSE "leads"
FirstCall(m) == IF m.throws THEN "failed" ELSE "leads"

BeginAttempts(w, m) ==
  /\ hands' = [hands EXCEPT ![w] = m]
  /\ attempt' = [attempt EXCEPT ![w] = 1]

(* processWithRetries returns to consume's loop or to replayDeadLetter. *)
Return(w, status) ==
  /\ result' = [result EXCEPT ![w] = [status |-> status, of |-> hands[w].of]]
  /\ hands' = [hands EXCEPT ![w] = NoMessage]
  /\ Goto(w, IF w \in Consumers THEN "consume" ELSE "mark_replayed")

-----------------------------------------------------------------------------
(* Ingress: handleMockWebhook, called by /webhooks/mock and by              *)
(* createSolarEstimate                                                      *)

RejectInvalid(s) ==
  /\ pc[s] = "idle"
  /\ s \in Invalid
  /\ Goto(s, "done")
  /\ Answer(s, "invalid_event")
  /\ UNCHANGED <<idempotency, queue, receipts, workerVars, storeVars, faultVars>>

IgnoreDuplicate(s) ==
  /\ pc[s] = "idle"
  /\ s \notin Invalid
  /\ Key[s] \in idempotency
  /\ Goto(s, "done")
  /\ Answer(s, "duplicate_ignored")
  /\ UNCHANGED <<idempotency, queue, receipts, workerVars, storeVars, faultVars>>

Message(s) == [of |-> s, throws |-> s \in Unprocessable]
(* Mutants: the key is not remembered; the queue is overwritten. *)
RememberedNot(s) == idempotency
Remembered(s)    == idempotency \cup {Key[s]}
EnqueuedOver(s)  == <<Message(s)>>
Enqueued(s)      == Append(queue, Message(s))

(* The key is remembered, the un-awaited log write is started and the       *)
(* message pushed before the first await.  A solar request then consumes.   *)
Accept(s) ==
  /\ pc[s] = "idle"
  /\ s \notin Invalid
  /\ Key[s] \notin idempotency
  /\ idempotency' = Remembered(s)
  /\ queue' = Enqueued(s)
  /\ IF Adapter = "memory"
       THEN rows' = Written("received", s) /\ UNCHANGED receipts
       ELSE receipts' = receipts \cup {s} /\ UNCHANGED rows
  /\ IF s \in Solar
       THEN Goto(s, "consume") /\ UNCHANGED response
       ELSE Goto(s, "done") /\ Answer(s, "accepted")
  /\ UNCHANGED <<workerVars, deadLetters, newestEstimate, faultVars>>

ReceiptLands(s) ==
  /\ s \in receipts
  /\ receipts' = receipts \ {s}
  /\ rows' = Written("received", s)
  /\ UNCHANGED <<idempotency, queue, pc, workerVars, response, deadLetters,
                 newestEstimate, faultVars>>

(* Mutant: the keys outlive the process. *)
RememberedAfterDeath == idempotency
AfterDeath           == {}

(* The process ends with its queue, its idempotency keys and every request  *)
(* in flight, the receipts among them; the process manager starts an empty  *)
(* one over the same tables.                                                *)
Dies ==
  /\ deaths' = deaths + 1
  /\ lost' = lost \cup {s \in Submissions : InQueue(s) \/ Live(s)}
  /\ receipts' = {}
  /\ idempotency' = AfterDeath
  /\ queue' = <<>>
  /\ pc' = [c \in Callers |-> IF pc[c] = "idle" THEN "idle" ELSE "done"]
  /\ response' = [c \in Callers |->
                    IF pc[c] \in {"idle", "done"} THEN response[c]
                    ELSE [NoResponse EXCEPT !.status = "connection_lost"]]
  /\ UNCHANGED <<workerVars, storeVars>>

(* Nobody awaits that promise: its rejection ends the Node process.         *)
ReceiptFails(s) ==
  /\ s \in receipts
  /\ faults < MaxFaults
  /\ faults' = faults + 1
  /\ Dies

(* The process is stopped from outside.  With the in-memory store nothing   *)
(* is left of it and the state is Init again; the tables of Postgres stay.  *)
Killed ==
  /\ Adapter = "postgres"
  /\ deaths < MaxDeaths
  /\ UNCHANGED faults
  /\ Dies

-----------------------------------------------------------------------------
(* The queue consumer: InMemoryEventQueue.consume(processWithRetries)       *)

(* Mutants: the message is read but not shifted; consume stops after one. *)
Peeked           == queue
Shifted          == Tail(queue)
DrainedByOne(w)  == queue = <<>> \/ result[w] # NoResult
Drained(w)       == queue = <<>>

TakeMessage(w) ==
  /\ pc[w] = "consume"
  /\ queue # <<>>
  /\ queue' = Shifted
  /\ BeginAttempts(w, Head(queue))
  /\ Goto(w, FirstCall(Head(queue)))
  /\ UNCHANGED <<idempotency, receipts, result, target, response, storeVars,
                 faultVars>>

(* consume found the queue empty and resolves; createSolarEstimate resumes  *)
(* in a later turn.                                                         *)
QueueDrained(w) ==
  /\ pc[w] = "consume"
  /\ Drained(w)
  /\ Goto(w, "respond")
  /\ UNCHANGED <<idempotency, queue, receipts, workerVars, response, storeVars,
                 faultVars>>

(* createSolarEstimate after the await: it reports the last result of its   *)
(* own consume call and the newest estimate row of the store.  Only the     *)
(* in-memory store has the state property those lines read.                 *)
Respond(w) ==
  /\ pc[w] = "respond"
  /\ Goto(w, "done")
  /\ CASE result[w].status = "none" -> Answer(w, "queued")
       [] result[w].status = "dead_lettered" -> Answer(w, "dead_lettered")
       [] result[w].status = "processed" /\ Adapter = "postgres" ->
            Answer(w, "server_error")
       [] OTHER ->
            response' = [response EXCEPT ![w] =
              [status |-> "estimate_created", lead |-> result[w].of,
               estimate |-> newestEstimate]]
  /\ UNCHANGED <<idempotency, queue, receipts, workerVars, storeVars, faultVars>>

-----------------------------------------------------------------------------
(* processLeadIntent's store calls                                          *)

(* An insert by w for its message, after which w is suspended at next. *)
Insert(w, table, next) ==
  /\ pc[w] = table
  /\ rows' = Written(table, hands[w].of)
  /\ Goto(w, next)
  /\ UNCHANGED <<idempotency, queue, receipts, workerVars, response, deadLetters,
                 newestEstimate, faultVars>>

(* Only Postgres has the constraints of migration 001: leads' primary key   *)
(* and lead_events' unique event_id.                                        *)
LeadIdTaken(s) ==
  /\ Adapter = "postgres"
  /\ LeadId[s] # None
  /\ \E x \in Submissions : LeadId[x] = LeadId[s] /\ rows["leads"][x] > 0
EventIdTaken(s) ==
  /\ Adapter = "postgres"
  /\ \E x \in Submissions : EventId[x] = EventId[s] /\ rows["lead_events"][x] > 0

CreateLead(w) ==
  /\ Insert(w, "leads", "lead_events")
  /\ ~LeadIdTaken(hands[w].of)

CreateLeadConflicts(w) ==
  /\ pc[w] = "leads"
  /\ LeadIdTaken(hands[w].of)
  /\ Goto(w, "failed")
  /\ UNCHANGED <<idempotency, queue, receipts, workerVars, response, storeVars,
                 faultVars>>

(* Mutant: the insert has no on-conflict clause and no unique index. *)
SaveLeadEventUnchecked(w) == Insert(w, "lead_events", "solar_estimates")

SaveLeadEvent(w) ==
  /\ Insert(w, "lead_events", "solar_estimates")
  /\ ~EventIdTaken(hands[w].of)

(* on conflict (event_id) do nothing *)
SaveLeadEventConflicts(w) ==
  /\ pc[w] = "lead_events"
  /\ EventIdTaken(hands[w].of)
  /\ Goto(w, "solar_estimates")
  /\ UNCHANGED <<idempotency, queue, receipts, workerVars, response, storeVars,
                 faultVars>>

SaveSolarEstimate(w) ==
  /\ pc[w] = "solar_estimates"
  /\ rows' = Written("solar_estimates", hands[w].of)
  /\ newestEstimate' = hands[w].of
  /\ Goto(w, "reply_drafts")
  /\ UNCHANGED <<idempotency, queue, receipts, workerVars, response, deadLetters,
                 faultVars>>

(* Mutant: the draft is not audited. *)
SaveReplyDraftUnaudited(w) == Insert(w, "reply_drafts", "processed")

SaveReplyDraft(w) == Insert(w, "reply_drafts", "draft_audit")

SaveDraftAudit(w) == Insert(w, "draft_audit", "processed")

SaveProcessedLog(w) ==
  /\ pc[w] = "processed"
  /\ rows' = Written("processed", hands[w].of)
  /\ Return(w, "processed")
  /\ UNCHANGED <<idempotency, queue, receipts, attempt, target, response,
                 deadLetters, newestEstimate, faultVars>>

-----------------------------------------------------------------------------
(* processWithRetries' catch block and what follows the loop                *)

(* Mutants: one attempt too many, one too few, no dead letter written. *)
MoreAttemptsOver(w)  == attempt[w] <= MaxRetries
MoreAttemptsUnder(w) == attempt[w] + 1 < MaxRetries
MoreAttempts(w)      == attempt[w] < MaxRetries
AfterRetriesAuditOnly == "dlq_audit"
AfterRetries          == "dead_letters"

SaveFailedLog(w) ==
  /\ pc[w] = "failed"
  /\ rows' = Written("failed", hands[w].of)
  /\ IF MoreAttempts(w)
       THEN /\ attempt' = [attempt EXCEPT ![w] = @ + 1]
            /\ Goto(w, FirstCall(hands[w]))
       ELSE /\ UNCHANGED attempt
            /\ Goto(w, AfterRetries)
  /\ UNCHANGED <<idempotency, queue, receipts, hands, result, target, response,
                 deadLetters, newestEstimate, faultVars>>

DeadLetter(m) == [of |-> m.of, throws |-> m.throws, replayed |-> FALSE]

CreateDeadLetter(w) ==
  /\ pc[w] = "dead_letters"
  /\ deadLetters' = Append(deadLetters, DeadLetter(hands[w]))
  /\ Goto(w, "dlq_audit")
  /\ UNCHANGED <<idempotency, queue, receipts, workerVars, response, rows,
                 newestEstimate, faultVars>>

SaveDlqAudit(w) ==
  /\ pc[w] = "dlq_audit"
  /\ rows' = Written("dlq_audit", hands[w].of)
  /\ Return(w, "dead_lettered")
  /\ UNCHANGED <<idempotency, queue, receipts, attempt, target, response,
                 deadLetters, newestEstimate, faultVars>>

-----------------------------------------------------------------------------
(* replayDeadLetter                                                         *)

(* Mutant: the row is marked without reprocessing. *)
StartReplayMarksOnly(w, d, throws) ==
  /\ pc[w] = "idle"
  /\ target' = [target EXCEPT ![w] = d]
  /\ Goto(w, "mark_replayed")
  /\ UNCHANGED <<idempotency, queue, receipts, hands, attempt, result, response,
                 storeVars, faultVars>>

(* The payload read from the row is patched with whatever the operator      *)
(* sends, which may make the message processable or unprocessable; its      *)
(* event_id and lead_id stay.  replay_status is not looked at.              *)
StartReplay(w, d, throws) ==
  LET m == [of |-> deadLetters[d].of, throws |-> throws]
  IN  /\ pc[w] = "idle"
      /\ target' = [target EXCEPT ![w] = d]
      /\ BeginAttempts(w, m)
      /\ Goto(w, FirstCall(m))
      /\ UNCHANGED <<idempotency, queue, receipts, result, response, storeVars,
                     faultVars>>

(* getDeadLetterById finds no such row: the router answers 500. *)
ReplayUnknown(w) ==
  /\ pc[w] = "idle"
  /\ Goto(w, "done")
  /\ Answer(w, "server_error")
  /\ UNCHANGED <<idempotency, queue, receipts, workerVars, storeVars, faultVars>>

(* Whatever the outcome of the reprocessing was. *)
MarkReplayed(w) ==
  /\ pc[w] = "mark_replayed"
  /\ deadLetters' = [deadLetters EXCEPT ![target[w]].replayed = TRUE]
  /\ Goto(w, "replay_audit")
  /\ UNCHANGED <<idempotency, queue, receipts, workerVars, response, rows,
                 newestEstimate, faultVars>>

SaveReplayAudit(w) ==
  /\ pc[w] = "replay_audit"
  /\ rows' = Written("replay_audit", deadLetters[target[w]].of)
  /\ Goto(w, "done")
  /\ Answer(w, "replayed")
  /\ UNCHANGED <<idempotency, queue, receipts, workerVars, deadLetters,
                 newestEstimate, faultVars>>

-----------------------------------------------------------------------------
(* A Postgres call that rejects                                             *)

(* The statement may have been committed before the connection broke: the   *)
(* insert of the call w is suspended at landed, or it did not.              *)
Landed(w) ==
  LET s == hands[w].of IN
  CASE pc[w] = "leads" /\ LeadIdTaken(s) -> UNCHANGED storeVars
    [] pc[w] = "lead_events" /\ EventIdTaken(s) -> UNCHANGED storeVars
    [] pc[w] = "dead_letters" ->
         /\ deadLetters' = Append(deadLetters, DeadLetter(hands[w]))
         /\ UNCHANGED <<rows, newestEstimate>>
    [] pc[w] = "mark_replayed" ->
         /\ deadLetters' = [deadLetters EXCEPT ![target[w]].replayed = TRUE]
         /\ UNCHANGED <<rows, newestEstimate>>
    [] pc[w] = "replay_audit" ->
         /\ rows' = Written("replay_audit", deadLetters[target[w]].of)
         /\ UNCHANGED <<deadLetters, newestEstimate>>
    [] OTHER ->
         /\ rows' = Written(pc[w], s)
         /\ UNCHANGED <<deadLetters, newestEstimate>>

StoreFault ==
  /\ Adapter = "postgres"
  /\ faults < MaxFaults
  /\ faults' = faults + 1
  /\ UNCHANGED <<deaths, lost>>

(* Inside the try block: the attempt has failed. *)
AttemptCallFails(w) ==
  /\ pc[w] \in AttemptCalls
  /\ StoreFault
  /\ Landed(w) \/ UNCHANGED storeVars
  /\ Goto(w, "failed")
  /\ UNCHANGED <<idempotency, queue, receipts, workerVars, response>>

(* In the catch block or after the loop: the error leaves consume or        *)
(* replayDeadLetter, and the router answers 500.  hands keeps what the      *)
(* abandoned call was holding; the queue no longer has it.                  *)
UnguardedCallFails(w) ==
  /\ pc[w] \in UnguardedCalls
  /\ StoreFault
  /\ Landed(w) \/ UNCHANGED storeVars
  /\ Goto(w, "done")
  /\ Answer(w, "server_error")
  /\ UNCHANGED <<idempotency, queue, receipts, workerVars>>

-----------------------------------------------------------------------------
Submit(s) == RejectInvalid(s) \/ IgnoreDuplicate(s) \/ Accept(s)

Consume(w) == TakeMessage(w) \/ QueueDrained(w) \/ Respond(w)

Attempt(w) ==
  \/ CreateLead(w) \/ CreateLeadConflicts(w)
  \/ SaveLeadEvent(w) \/ SaveLeadEventConflicts(w)
  \/ SaveSolarEstimate(w) \/ SaveReplyDraft(w)
  \/ SaveDraftAudit(w) \/ SaveProcessedLog(w)

GiveUp(w) == SaveFailedLog(w) \/ CreateDeadLetter(w) \/ SaveDlqAudit(w)

Replay(w) ==
  \/ \E d \in DOMAIN deadLetters, throws \in BOOLEAN : StartReplay(w, d, throws)
  \/ ReplayUnknown(w)

FinishReplay(w) == MarkReplayed(w) \/ SaveReplayAudit(w)

(* What a worker does once it runs, store faults aside. *)
Work(w) ==
  \/ w \in Consumers /\ Consume(w)
  \/ Attempt(w) \/ GiveUp(w)
  \/ w \in Replayers /\ FinishReplay(w)

Fault(w) == AttemptCallFails(w) \/ UnguardedCallFails(w)

Next ==
  \/ \E s \in Submissions : Submit(s)
  \/ \E s \in Submissions : ReceiptLands(s) \/ ReceiptFails(s)
  \/ Killed
  \/ \E w \in Workers : Work(w) \/ Fault(w)
  \/ \E w \in Replayers : Replay(w)

Spec == Init /\ [][Next]_vars

(* The event loop resumes every suspended handler whose promise settles;    *)
(* nothing makes a client submit or an operator replay.                     *)
Fairness ==
  /\ \A w \in Workers : WF_vars(Work(w))
  /\ \A s \in Submissions : WF_vars(ReceiptLands(s))

FairSpec == Spec /\ Fairness
-----------------------------------------------------------------------------
(* The ledger the pipeline keeps                                            *)

OpenEvents  == {s \in Submissions : Accepted(s) /\ ~Finished(s) /\ s \notin lost}
LetterEvents == [d \in DOMAIN deadLetters |-> deadLetters[d].of]

Ledger == INSTANCE EventLedger WITH
  Events <- Submissions, Reliable <- MaxFaults = 0,
  keys <- idempotency, open <- OpenEvents, processed <- rows["processed"],
  letters <- LetterEvents

-----------------------------------------------------------------------------
(* Properties                                                               *)

(* Every variable keeps its shape: the queue holds messages, a worker at a  *)
(* store call holds one, tables hold counts (inMemoryQueue.mjs,             *)
(* processLeadIntent.mjs, leadCoreStore.mjs).                               *)
TypeOK ==
  /\ idempotency \subseteq {Key[s] : s \in Submissions}
  /\ queue \in Seq(Messages)
  /\ receipts \subseteq Submissions
  /\ pc \in [Callers -> AttemptCalls \cup UnguardedCalls
                          \cup {"idle", "consume", "respond", "done"}]
  /\ hands \in [Workers -> Messages \cup {NoMessage}]
  /\ attempt \in [Workers -> 0 .. MaxRetries]
  /\ result \in [Workers -> [status : {"none", "processed", "dead_lettered"},
                             of : Submissions \cup {None}]]
  /\ target \in [Replayers -> Nat]
  /\ response \in [Callers ->
       [status : {"none", "invalid_event", "duplicate_ignored", "accepted",
                  "queued", "dead_lettered", "estimate_created", "replayed",
                  "server_error", "connection_lost"},
        lead : Submissions \cup {None}, estimate : Submissions \cup {None}]]
  /\ rows \in [Tables -> [Submissions -> Nat]]
  /\ deadLetters \in Seq([of : Submissions, throws : BOOLEAN, replayed : BOOLEAN])
  /\ newestEstimate \in Submissions \cup {None}
  /\ faults \in Nat
  /\ deaths \in Nat /\ lost \subseteq Submissions

(* However consumers interleave, a message is shifted off the queue by one  *)
(* of them only: it is queued at most once, never queued and held, never    *)
(* held twice (shift before the await, inMemoryQueue.mjs:12-14).            *)
HandledOnce ==
  /\ \A i, j \in DOMAIN queue : queue[i].of = queue[j].of => i = j
  /\ \A s \in Submissions : InQueue(s) => HeldBy(s) = {} /\ ~Finished(s)
  /\ \A v, w \in Consumers :
       hands[v].of = hands[w].of /\ hands[v] # NoMessage => v = w

(* An accepted event is in the queue, in the hands of a request under way,  *)
(* logged as processed, dead-lettered, or was queued or under way when a    *)
(* process died; a store call that fails outside the try block may drop     *)
(* one, and never more than one (processLeadIntent.mjs:79-102).             *)
NothingVanishes == Cardinality({s \in Submissions : Missing(s)}) <= faults

(* A key the process remembers, so that a repeat of the request is told     *)
(* duplicate_ignored, stands for an event that this process, and no former  *)
(* one, has queued, is working on or has settled; each store call that      *)
(* fails leaves one key at most without such an event (server.mjs:26,       *)
(* 45-57).                                                                  *)
Orphaned(k) ==
  \A x \in Submissions :
    Key[x] = k => x \in lost \/ ~(InQueue(x) \/ Live(x) \/ Finished(x))
RememberedIsAccounted == Cardinality({k \in idempotency : Orphaned(k)}) <= faults

(* The rows of an attempt are written in order, none without the ones       *)
(* before it; once nobody is working on an event, an attempt that left only *)
(* some of them was cut off by the end of its process or by a store call    *)
(* that failed.  Without either an event has left all the rows of its       *)
(* attempts or none (processLeadIntent.mjs:25-53).                          *)
AllOrNothing ==
  \A s \in Submissions :
    /\ rows["processed"][s] <= rows["draft_audit"][s]
    /\ rows["draft_audit"][s] <= rows["reply_drafts"][s]
    /\ rows["reply_drafts"][s] <= rows["solar_estimates"][s]
    /\ rows["solar_estimates"][s] <= rows["leads"][s]
    /\ Adapter = "memory" => /\ rows["solar_estimates"][s] <= rows["lead_events"][s]
                             /\ rows["lead_events"][s] <= rows["leads"][s]
    /\ AtRest(s) => rows["leads"][s] <=
                      rows["processed"][s] + Cardinality(CutOff(s)) + faults

(* A dead letter has MaxRetries recorded failures, whatever fails, and an   *)
(* audit row is about a dead letter.  As long as no store call fails and    *)
(* once nobody is working on the event, there are no other failures and no  *)
(* letter without its audit row, except of handlers that went down with     *)
(* their process (processLeadIntent.mjs:74-114).                            *)
DeadLetterBacked ==
  \A s \in Submissions :
    LET dead == Cardinality(DeadLettersOf(s))
        cut  == Cardinality(CutOff(s))
    IN  /\ MaxRetries * dead <= rows["failed"][s]
        /\ rows["dlq_audit"][s] <= dead
        /\ faults = 0 /\ AtRest(s) =>
             /\ rows["failed"][s] <= MaxRetries * (dead + cut)
             /\ dead <= rows["dlq_audit"][s] + cut

(* One idempotency key is accepted once by each process, and each event     *)
(* becomes one lead at most, or one for each replay of its dead letters     *)
(* (server.mjs:45-64, processLeadIntent.mjs:25).                            *)
OneLeadPerKey ==
  faults = 0 =>
    /\ \A s \in Submissions :
         Cardinality({t \in Submissions : Accepted(t) /\ Key[t] = Key[s]})
           <= 1 + deaths
    /\ \A s \in Submissions :
         \/ rows["leads"][s] < 2
         \/ rows["leads"][s] <= Cardinality(ReplaysOf(s))

(* When /api/solar-estimate answers, the event it accepted is not left in   *)
(* the queue, unless an error took the consumer out of its loop             *)
(* (createSolarEstimate.mjs:28-33).                                         *)
AnsweredNotQueued ==
  \A s \in Solar :
    pc[s] = "done" /\ response[s].status \notin {"server_error"} => ~InQueue(s)

(* A dead letter marked replayed was reprocessed: its event has a processed *)
(* log or a dead letter younger than it (processLeadIntent.mjs:133-141).    *)
ReplayedWasReprocessed ==
  \A d \in DOMAIN deadLetters :
    deadLetters[d].replayed =>
      \/ rows["processed"][deadLetters[d].of] > 0
      \/ \E e \in DeadLettersOf(deadLetters[d].of) : e > d

(* The solar response names the lead, and the budget, of the event that was *)
(* posted.  False: the last result of consume and the newest estimate may   *)
(* be somebody else's (createSolarEstimate.mjs:33, 46).                     *)
OwnLeadReported ==
  \A s \in Solar : response[s].status = "estimate_created" =>
    response[s].lead = s /\ response[s].estimate = s

(* At most one lead_events row per event_id, as migration 001:45 declares:  *)
(* kept by the Postgres adapter, not by the in-memory store.                *)
LeadEventUnique ==
  \A s, t \in Submissions :
    /\ rows["lead_events"][s] < 2
    /\ EventId[s] = EventId[t] /\ rows["lead_events"][s] > 0
         /\ rows["lead_events"][t] > 0 => s = t

(* Failed events are not dropped: what a process accepted and did not take  *)
(* to its grave is in the queue or in a live handler, or else processed or  *)
(* dead-lettered.  False: a Postgres error in the catch block or in         *)
(* createDeadLetter loses it (SECURITY_GUARDRAILS.md:36).                   *)
FailedNotDropped == \A s \in Submissions : ~Missing(s)

(* An event accepted from the calculator is processed or dead-lettered in   *)
(* the end: its own request, or a concurrent one, drains the queue.         *)
SolarEventFinishes ==
  \A s \in Solar : Accepted(s) ~> Finished(s) \/ s \in lost

(* Every calculator request that was made and every replay that was started *)
(* is answered in the end.                                                  *)
EveryoneAnswered == \A w \in Workers : pc[w] # "idle" ~> pc[w] = "done"

(* The pipeline implements the ledger of events: a key is taken once by a   *)
(* process, an event is settled by one processed log or one dead letter     *)
(* (again only by replays of its dead letters, or when a store call that    *)
(* failed had settled it already), and nothing that was not accepted ever   *)
(* is.                                                                      *)
ImplementsLedger == Ledger!Spec

(* An event accepted on /webhooks/mock is processed or dead-lettered in the *)
(* end.  False: only calculator requests run the consumer.                  *)
MockEventFinishes == \A s \in Submissions \ Solar : Accepted(s) ~> Finished(s)
=============================================================================
