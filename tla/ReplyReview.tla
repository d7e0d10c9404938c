---------------------------- MODULE ReplyReview ----------------------------
(***************************************************************************)
(* The human approval queue and the gated reply outbox: operators approve  *)
(* or reject Hermes drafts, queue approved ones, cancel outbox items and   *)
(* run the send-disabled worker on them.  Each handler of the gateway      *)
(* makes one state-changing store call, awaits it, writes an audit row,    *)
(* awaits that, and answers; handlers interleave at the awaits.            *)
(***************************************************************************)
EXTENDS Naturals, Sequences, FiniteSets

CONSTANTS
  Drafts,     (* reply drafts the pipeline has created                       *)
  Requests,   (* POSTs of authorized operators; a request is its operator    *)
  None,       (* null                                                        *)
  MaxFaults   (* bound: how many Postgres calls may fail              *)

ASSUME ReviewAssumption ==
  /\ None \notin Drafts \cup Requests
  /\ MaxFaults \in Nat

Decisions == {"approved", "rejected"}
Kinds     == Decisions \cup {"queued", "cancelled", "blocked"}

VARIABLES
  store,     (* the adapter the process was started with                     *)
  draft,     (* the reply_drafts table                                       *)
  outbox,    (* the reply_outbox table; a row's id is its place              *)
  audits,    (* agent_audit_logs: what was done to what by which request     *)
  pc,        (* the await each handler is suspended at                       *)
  doing,     (* what each request does or did: kind, draft or outbox id      *)
  held,      (* the row its store call returned, or the item it read         *)
  answer,    (* the response: its status and the row in its body             *)
  faults

vars == <<store, draft, outbox, audits, pc, doing, held, answer, faults>>

NewDraft == [status |-> "pending", approved_by |-> None, rejected_by |-> None]
NewRow(d, r) ==
  [draft |-> d, status |-> "queued", queued_by |-> r, cancelled_by |-> None,
   blocked_by |-> None]
Nothing  == [kind |-> "none", id |-> 0]
NoAnswer == [status |-> "none", row |-> "none"]

Init ==
  /\ store \in {"memory", "postgres"}
  /\ draft = [d \in Drafts |-> NewDraft]
  /\ outbox = <<>>
  /\ audits = {}
  /\ pc = [r \in Requests |-> "idle"]
  /\ doing = [r \in Requests |-> Nothing]
  /\ held = [r \in Requests |-> "none"]
  /\ answer = [r \in Requests |-> NoAnswer]
  /\ faults = 0

-----------------------------------------------------------------------------
(* Helpers *)

Begin(r, kind, id, status, next) ==
  /\ pc[r] = "idle"
  /\ pc' = [pc EXCEPT ![r] = next]
  /\ doing' = [doing EXCEPT ![r] = [kind |-> kind, id |-> id]]
  /\ held' = [held EXCEPT ![r] = status]

(* The ids of the rows of draft d. *)
RowsOf(d) == {i \in DOMAIN outbox : outbox[i].draft = d}

(* The status of the row a handler names in its audit and its answer: the   *)
(* in-memory store hands out the live row, Postgres a copy.                 *)
Subject(r) ==
  IF doing[r].kind \in Decisions THEN draft[doing[r].id].status
  ELSE outbox[doing[r].id].status
(* Mutant: the answer is read from the table again. *)
SeenLive(r) == Subject(r)
Seen(r) == IF store = "memory" THEN Subject(r) ELSE held[r]

-----------------------------------------------------------------------------
(* reviewReplyDraft: updateReplyDraftStatus does not look at the status the *)
(* draft has.  The in-memory store clears the other reviewer, Postgres sets *)
(* one column only.                                                         *)

(* Mutant: the reviewer column of the other decision is set. *)
ReviewedSwapped(row, decision, r) ==
  IF decision = "approved"
  THEN [row EXCEPT !.status = decision, !.rejected_by = r, !.approved_by = None]
  ELSE [row EXCEPT !.status = decision, !.approved_by = r, !.rejected_by = None]

Reviewed(row, decision, r) ==
  LET other == IF store = "memory" THEN None
               ELSE IF decision = "approved" THEN row.rejected_by
               ELSE row.approved_by
  IN  IF decision = "approved"
      THEN [status |-> decision, approved_by |-> r, rejected_by |-> other]
      ELSE [status |-> decision, approved_by |-> other, rejected_by |-> r]

Review(r, d, decision) ==
  /\ Begin(r, decision, d, decision, "audit")
  /\ draft' = [draft EXCEPT ![d] = Reviewed(@, decision, r)]
  /\ UNCHANGED <<store, outbox, audits, answer, faults>>

-----------------------------------------------------------------------------
(* queueApprovedReplyDraft: an existing row is returned whatever its status *)

(* Mutant: a rejected draft may be queued as well. *)
QueueableReviewed(d) == draft[d].status # "pending"
Queueable(d) == draft[d].status = "approved"

(* Mutants: the row is not looked for; an existing row is queued again. *)
OutboxWithoutLookup(d, r) == Append(outbox, NewRow(d, r))
OutboxRequeueing(d, r) ==
  IF RowsOf(d) = {} THEN Append(outbox, NewRow(d, r))
  ELSE [i \in DOMAIN outbox |->
          IF i \in RowsOf(d) THEN NewRow(d, r) ELSE outbox[i]]
OutboxWith(d, r) ==
  IF RowsOf(d) = {} THEN Append(outbox, NewRow(d, r)) ELSE outbox

QueueApproved(r, d) ==
  /\ Queueable(d)
  /\ outbox' = OutboxWith(d, r)
  /\ LET i == CHOOSE i \in DOMAIN outbox' : outbox'[i].draft = d
     IN  Begin(r, "queued", i, outbox'[i].status, "audit")
  /\ UNCHANGED <<store, draft, audits, answer, faults>>

(* The store throws, or Postgres returns no row and the handler trips over  *)
(* null: nothing is written, the router answers 500.                        *)
Refuse(r) ==
  /\ pc[r] = "idle"
  /\ pc' = [pc EXCEPT ![r] = "done"]
  /\ answer' = [answer EXCEPT ![r] = [NoAnswer EXCEPT !.status = "server_error"]]
  /\ UNCHANGED <<store, draft, outbox, audits, doing, held, faults>>

-----------------------------------------------------------------------------
(* cancelReplyOutbox: the row's status is not looked at *)

Cancel(r, i) ==
  /\ Begin(r, "cancelled", i, "cancelled", "audit")
  /\ outbox' = [outbox EXCEPT ![i].status = "cancelled", ![i].cancelled_by = r]
  /\ UNCHANGED <<store, draft, audits, answer, faults>>

-----------------------------------------------------------------------------
(* simulateReplyOutboxSend: the item is read, then marked blocked, whatever *)
(* has become of it since; the in-memory store erases who cancelled it.     *)

ReadItem(r, i) ==
  /\ Begin(r, "blocked", i, outbox[i].status, "mark")
  /\ UNCHANGED <<store, draft, outbox, audits, answer, faults>>

(* Mutant: the worker sends. *)
BlockedSent(row, r) == [row EXCEPT !.status = "sent", !.blocked_by = r]
Blocked(row, r) ==
  [row EXCEPT !.status = "blocked", !.blocked_by = r,
              !.cancelled_by = IF store = "memory" THEN None ELSE @]

MarkBlocked(r) ==
  /\ pc[r] = "mark"
  /\ outbox' = [outbox EXCEPT ![doing[r].id] = Blocked(@, r)]
  /\ held' = [held EXCEPT ![r] = "blocked"]
  /\ pc' = [pc EXCEPT ![r] = "audit"]
  /\ UNCHANGED <<store, draft, audits, doing, answer, faults>>

-----------------------------------------------------------------------------
(* What every handler ends with *)

Entry(r) == [action |-> doing[r].kind, id |-> doing[r].id, by |-> r]

WriteAudit(r) ==
  /\ pc[r] = "audit"
  /\ audits' = audits \cup {Entry(r)}
  /\ pc' = [pc EXCEPT ![r] = "answer"]
  /\ UNCHANGED <<store, draft, outbox, doing, held, answer, faults>>

(* A Postgres call rejects: the row stays as it is and the router answers   *)
(* 500.  The audit row may have been committed before the connection broke. *)
(* (A change that was committed and whose reply was lost looks the same.)   *)
CallFails(r) ==
  /\ pc[r] \in {"mark", "audit"}
  /\ store = "postgres"
  /\ faults < MaxFaults
  /\ faults' = faults + 1
  /\ \/ pc[r] = "audit" /\ audits' = audits \cup {Entry(r)}
     \/ UNCHANGED audits
  /\ pc' = [pc EXCEPT ![r] = "done"]
  /\ doing' = [doing EXCEPT ![r] = IF pc[r] = "mark" THEN Nothing ELSE @]
  /\ answer' = [answer EXCEPT ![r] = [NoAnswer EXCEPT !.status = "server_error"]]
  /\ UNCHANGED <<store, draft, outbox, held>>

(* Mutant: the answer does not wait for the audit row. *)
AnswerableEarly(r) == pc[r] \in {"audit", "answer"}
Answerable(r)      == pc[r] = "answer"

Respond(r) ==
  /\ Answerable(r)
  /\ pc' = [pc EXCEPT ![r] = "done"]
  /\ answer' = [answer EXCEPT ![r] = [status |-> doing[r].kind, row |-> Seen(r)]]
  /\ UNCHANGED <<store, draft, outbox, audits, doing, held, faults>>

-----------------------------------------------------------------------------
Start(r) ==
  \/ \E d \in Drafts, decision \in Decisions : Review(r, d, decision)
  \/ \E d \in Drafts : QueueApproved(r, d)
  \/ Refuse(r)
  \/ \E i \in DOMAIN outbox : Cancel(r, i) \/ ReadItem(r, i)

Continue(r) == MarkBlocked(r) \/ WriteAudit(r) \/ CallFails(r) \/ Respond(r)

Next == \E r \in Requests : Start(r) \/ Continue(r)

Spec == Init /\ [][Next]_vars

-----------------------------------------------------------------------------
(* Properties *)

Quiet == \A r \in Requests : pc[r] \in {"idle", "done"}

(* Request q has made its change: its handler is past the store call. *)
Did(q, kind, id) == doing[q] = [kind |-> kind, id |-> id] /\ pc[q] # "mark"

Audited(action, id, by) ==
  \E a \in audits : a.action = action /\ a.id = id /\ a.by = by

(* Every variable keeps its shape: rows have the statuses migrations 003 to *)
(* 005 allow, a suspended handler knows its row (server.mjs:113-279).       *)
TypeOK ==
  /\ store \in {"memory", "postgres"}
  /\ draft \in [Drafts -> [status : {"pending"} \cup Decisions,
                           approved_by : Requests \cup {None},
                           rejected_by : Requests \cup {None}]]
  /\ outbox \in Seq([draft : Drafts, status : {"queued", "cancelled", "blocked"},
                     queued_by : Requests, cancelled_by : Requests \cup {None},
                     blocked_by : Requests \cup {None}])
  /\ pc \in [Requests -> {"idle", "mark", "audit", "answer", "done"}]
  /\ doing \in [Requests -> [kind : Kinds \cup {"none"},
                             id : Drafts \cup Nat]]
  /\ \A r \in Requests : pc[r] \in {"mark", "audit", "answer"} =>
       \/ doing[r].kind \in Decisions /\ doing[r].id \in Drafts
       \/ doing[r].kind \in Kinds \ Decisions /\ doing[r].id \in DOMAIN outbox
  /\ \A r \in Requests : pc[r] = "mark" => doing[r].kind = "blocked"
  /\ held \in [Requests -> Kinds \cup {"none", "pending"}]
  /\ answer \in [Requests -> [status : Kinds \cup {"none", "server_error"},
                              row : Kinds \cup {"none", "pending"}]]
  /\ faults \in Nat

(* However the handlers interleave, a draft has one outbox row at most:     *)
(* the lookup and the insert are in one turn (leadCoreStore.mjs:140-164),   *)
(* or one statement with on-conflict (postgresLeadCoreAdapter.mjs:163-212). *)
OneRowPerDraft ==
  \A i, j \in DOMAIN outbox : outbox[i].draft = outbox[j].draft => i = j

(* Somebody approved every draft that has an outbox row, however often it  *)
(* has been rejected before or since ("a pending draft cannot be queued",   *)
(* SPRINT6_CHANNEL_GATE_SIMULATOR.md).                                      *)
QueuedWasApproved ==
  \A i \in DOMAIN outbox :
    \E q \in Requests : Did(q, "approved", outbox[i].draft)

(* Whatever fails, a request answered with success has left its audit row:  *)
(* no handler answers before the audit write settled.                       *)
AnsweredMeansAudited ==
  \A r \in Requests : answer[r].status \in Kinds =>
    Audited(answer[r].status, doing[r].id, r)

(* An audit row says that by did it, or the call that was to write it      *)
(* failed after the row had changed, and by was answered 500.               *)
Explained(action, id, by) ==
  \/ Audited(action, id, by)
  \/ /\ by \in Requests /\ faults > 0
     /\ answer[by].status = "server_error" /\ Did(by, action, id)

(* When no handler is under way, what each table row says was done last,    *)
(* and by whom, is what an audit row says, although the row and its audit   *)
(* are written in different turns; the exceptions are the changes of        *)
(* requests that were told they had failed.                                 *)
StateAudited ==
  Quiet =>
    /\ \A d \in Drafts :
         /\ draft[d].status = "approved" =>
              Explained("approved", d, draft[d].approved_by)
         /\ draft[d].status = "rejected" =>
              Explained("rejected", d, draft[d].rejected_by)
    /\ \A i \in DOMAIN outbox :
         /\ Explained("queued", i, outbox[i].queued_by)
         /\ outbox[i].status = "cancelled" =>
              Explained("cancelled", i, outbox[i].cancelled_by)
         /\ outbox[i].status = "blocked" =>
              Explained("blocked", i, outbox[i].blocked_by)

(* A message leaves the staging state for good: no handler, a repeated      *)
(* queue-send included, returns a cancelled or blocked item to "queued".    *)
NeverRestaged ==
  [][\A i \in DOMAIN outbox :
       outbox'[i].status = "queued" => outbox[i].status = "queued"]_outbox

(* An answer whose row says something else than what the request did, an    *)
(* "approved" with a rejected draft in it, shows what another operator did  *)
(* to that draft or item, and never one still pending or queued.  It        *)
(* happens with the live rows of the in-memory store, and with either one   *)
(* to a queue-send of a draft whose row had been cancelled or blocked.      *)
AnswerExplained ==
  \A r \in Requests : answer[r].status \in Kinds =>
    \/ answer[r].row = answer[r].status
    \/ /\ store = "memory" \/ answer[r].status = "queued"
       /\ answer[r].row \in Kinds \ {"queued"}
       /\ \E q \in Requests \ {r} : Did(q, answer[r].row, doing[r].id)
=============================================================================
