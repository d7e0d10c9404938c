------------------------- MODULE LeadPipelineLedger -------------------------
(***************************************************************************)
(* LeadPipeline implements EventLedger, for any submissions, replays, store*)
(* faults, deaths and number of retries and for either store; and its      *)
(* tables agree in number: what one table has more than the next is held   *)
(* by workers in between, or was by one that went down with its process or *)
(* had a store call fail.                                                  *)
(***************************************************************************)
EXTENDS LeadPipelineProofs

-----------------------------------------------------------------------------
(* The inductive invariant, beside Typed and IInv                           *)

(* What is queued or under way was accepted and is not lost, and what was   *)
(* not posted yet was not accepted.                                         *)
Owned ==
  /\ \A s \in Submissions : pc[s] = "idle" => ~Accepted(s)
  /\ \A s \in Submissions : InQueue(s) \/ Live(s) => Accepted(s) /\ s \notin lost

(* As long as no store call can fail, a consumer that has not come to the   *)
(* end of its attempts works on an event that nobody has settled.           *)
Unsettled == AttemptCalls \cup {"failed", "dead_letters"}
NotSettledTwice ==
  MaxFaults = 0 =>
    \A w \in Consumers : pc[w] \in Unsettled => ~Finished(hands[w].of)

LInv == Owned /\ NotSettledTwice

LedgerVars == <<idempotency, OpenEvents, rows["processed"], LetterEvents>>
LedgerStep == Ledger!Next \/ UNCHANGED LedgerVars

LEMMA NoMessageOf == NoMessage.of \notin Submissions
BY Actors DEF NoMessage

LEMMA UnsettledHolding == Unsettled \subseteq Holding /\ "done" \notin Holding
BY DEF Unsettled, Holding, AttemptCalls

(* A step of one caller that takes no message: what it lets go of is its    *)
(* own.                                                                     *)
LEMMA OwnedKept ==
  ASSUME Typed, Owned, NEW c \in Callers, pc[c] # "done", pc'[c] # "idle",
         \A d \in Callers \ {c} : pc'[d] = pc[d],
         \A w \in Consumers : hands'[w] = hands[w] \/ hands'[w] = NoMessage,
         queue' = queue, lost' = lost,
         \A s \in Submissions : Accepted(s)' <=> Accepted(s)
  PROVE  Owned'
<1>1. \A s \in Submissions : pc'[s] = "idle" => ~Accepted(s)'
  BY Actors DEF Owned
<1>2. ASSUME NEW s \in Submissions, Live(s)'
      PROVE  Live(s)
  <2>1. PICK w \in Consumers : hands'[w].of = s /\ pc'[w] # "done"
    BY <1>2 DEF Live, HeldBy
  <2>2. hands[w].of = s /\ pc[w] # "done"
    BY <2>1, NoMessageOf, Actors
  <2> QED
    BY <2>2 DEF Live, HeldBy
<1>3. \A s \in Submissions : InQueue(s)' => InQueue(s)
  BY DEF InQueue
<1> QED
  BY <1>1, <1>2, <1>3 DEF Owned

(* A step of one caller that settles nothing but the message it holds, and  *)
(* goes on with its attempts only if it has not settled it.                 *)
LEMMA NotSettledKept ==
  ASSUME Typed, IInv, NotSettledTwice, NEW c \in Callers,
         \A d \in Callers \ {c} : pc'[d] = pc[d],
         \A w \in Workers \ {c} : hands'[w] = hands[w],
         \A s \in Submissions :
           Finished(s)' => Finished(s) \/ (c \in Workers /\ s = hands[c].of),
         c \in Workers /\ pc'[c] \in Unsettled =>
           /\ pc[c] \in Unsettled /\ hands'[c] = hands[c]
           /\ \A s \in Submissions : Finished(s)' => Finished(s)
  PROVE  NotSettledTwice'
<1> SUFFICES ASSUME MaxFaults = 0, NEW w \in Consumers, pc'[w] \in Unsettled,
                    NEW h, h = hands'[w].of, Finished(h)'
             PROVE  FALSE
  BY DEF NotSettledTwice, Finished, DeadLettersOf
<1>1. pc[w] \in Unsettled /\ hands'[w] = hands[w] /\ w \in Workers
  BY Actors
<1>2. hands[w] \in Messages /\ h \in Submissions
  BY <1>1, UnsettledHolding DEF Typed, HandlersTyped, Messages
<1>3. ~Finished(h)
  BY <1>1 DEF NotSettledTwice
<1>4. c \in Workers /\ h = hands[c].of /\ c # w
  BY <1>2, <1>3, Actors
<1>5. CASE c \in Consumers
  <2>1. hands[w] # NoMessage
    BY <1>1, <1>2, NoMessageOf
  <2>2. \A u, v \in Consumers :
          hands[u].of = hands[v].of /\ hands[u] # NoMessage => u = v
    BY DEF IInv, HandledOnce
  <2>3. hands[w].of = hands[c].of
    BY <1>1, <1>4
  <2> QED
    BY <1>4, <1>5, <2>1, <2>2, <2>3
<1>6. CASE c \in Replayers
  <2>1. hands[c] # NoMessage
    BY <1>2, <1>4, NoMessageOf
  <2>2. DeadLettersOf(h) # {}
    BY <1>4, <1>6, <2>1 DEF IInv, Flow
  <2> QED
    BY <1>3, <2>2 DEF Finished
<1> QED
  BY <1>4, <1>5, <1>6, Actors

-----------------------------------------------------------------------------
(* What store calls are to the ledger                                       *)

(* The ledger sees the same if the keys, the processed logs, the letters    *)
(* and what was accepted or lost are the same.                              *)
LEMMA SameLedger ==
  ASSUME Typed, idempotency' = idempotency, lost' = lost,
         rows'["processed"] = rows["processed"],
         DOMAIN deadLetters' = DOMAIN deadLetters,
         \A d \in DOMAIN deadLetters : deadLetters'[d].of = deadLetters[d].of,
         \A s \in Submissions : Accepted(s)' <=> Accepted(s)
  PROVE  UNCHANGED LedgerVars /\ \A s \in Submissions : Finished(s)' <=> Finished(s)
<1>1. \A s \in Submissions : Finished(s)' <=> Finished(s)
  BY DEF Finished, DeadLettersOf
<1>2. LetterEvents' = LetterEvents
  BY DEF LetterEvents
<1>3. OpenEvents' = OpenEvents
  BY <1>1 DEF OpenEvents
<1> QED
  BY <1>1, <1>2, <1>3 DEF LedgerVars

LEMMA WorkerMaySettle ==
  ASSUME Typed, IInv, LInv, NEW w \in Workers, pc[w] \in Unsettled
  PROVE  hands[w].of \in Submissions /\ Ledger!MaySettle(hands[w].of)
<1>1. hands[w] \in Messages
  BY UnsettledHolding DEF Typed, HandlersTyped
<1>2. PICK h \in Submissions : h = hands[w].of
  BY <1>1 DEF Messages
<1>3. DeadLettersOf(h) # {} => Ledger!Buried(h)
  BY DEF DeadLettersOf, Ledger!Buried, LetterEvents
<1>4. CASE w \in Replayers
  <2>1. hands[w] # NoMessage
    BY <1>2, NoMessageOf
  <2> QED
    BY <1>2, <1>3, <1>4, <2>1 DEF IInv, Flow, Ledger!MaySettle
<1>5. CASE w \in Consumers
  <2>1. Live(h)
    BY <1>2, <1>5, UnsettledHolding DEF Live, HeldBy
  <2>2. Accepted(h) /\ h \notin lost
    BY <2>1 DEF LInv, Owned
  <2>3. CASE ~Finished(h)
    BY <1>2, <2>2, <2>3 DEF OpenEvents, Ledger!MaySettle
  <2>4. CASE Finished(h)
    <3>1. MaxFaults # 0
      BY <1>2, <1>5, <2>4 DEF LInv, NotSettledTwice
    <3>2. Ledger!Settled(h)
      BY <1>3, <2>4 DEF Finished, Ledger!Settled
    <3> QED
      BY <1>2, <3>1, <3>2 DEF Ledger!MaySettle
  <2> QED
    BY <2>3, <2>4
<1> QED
  BY <1>2, <1>4, <1>5, Actors

(* A row more: a step of the ledger if it is a processed log.               *)
LEMMA WrittenToLedger ==
  ASSUME Typed, NEW t \in Tables \ {"received"}, NEW h \in Submissions,
         rows' = Written(t, h), deadLetters' = deadLetters,
         idempotency' = idempotency, receipts' = receipts, lost' = lost,
         t = "processed" => Ledger!MaySettle(h)
  PROVE  /\ LedgerStep
         /\ \A s \in Submissions :
              /\ Accepted(s)' <=> Accepted(s)
              /\ Finished(s)' <=> Finished(s) \/ (t = "processed" /\ s = h)
<1>1. rows \in Counts /\ {"received", "processed"} \subseteq Tables
  BY StoreTyped DEF Tables, AttemptCalls
<1>2. /\ rows' \in Counts
      /\ \A u \in Tables, x \in Submissions :
           rows'[u][x] = IF u = t /\ x = h THEN rows[u][x] + 1 ELSE rows[u][x]
  BY <1>1, WrittenFacts
<1>3. \A s \in Submissions : Accepted(s)' <=> Accepted(s)
  BY <1>1, <1>2 DEF Accepted
<1>4. rows["processed"] \in [Submissions -> Nat] /\ rows'["processed"] \in [Submissions -> Nat]
  BY <1>1, <1>2 DEF Counts
<1>5. CASE t = "processed"
  <2>1. rows'["processed"] = [rows["processed"] EXCEPT ![h] = @ + 1]
    BY <1>1, <1>2, <1>4, <1>5
  <2>2. \A s \in Submissions : Finished(s)' <=> Finished(s) \/ s = h
    <3>1. rows["processed"][h] + 1 > 0
      BY <1>4
    <3>2. rows'["processed"][h] > 0
          /\ \A s \in Submissions \ {h} : rows'["processed"][s] = rows["processed"][s]
      BY <1>4, <2>1, <3>1
    <3> QED
      BY <3>2 DEF Finished, DeadLettersOf
  <2>3. OpenEvents' = OpenEvents \ {h}
    BY <1>3, <2>2 DEF OpenEvents
  <2>4. LetterEvents' = LetterEvents
    BY DEF LetterEvents
  <2>5. Ledger!Process(h)
    BY <1>5, <2>1, <2>3, <2>4 DEF Ledger!Process
  <2> QED
    BY <1>3, <1>5, <2>2, <2>5 DEF LedgerStep, Ledger!Next
<1>6. CASE t # "processed"
  <2>1. rows'["processed"] = rows["processed"]
    BY <1>1, <1>2, <1>4, <1>6
  <2> QED
    BY <1>3, <1>6, <2>1, SameLedger DEF LedgerStep
<1> QED
  BY <1>5, <1>6

(* A dead letter more.                                                      *)
LEMMA BuriedInLedger ==
  ASSUME Typed, NEW m \in Messages, Ledger!MaySettle(m.of), rows' = rows,
         deadLetters' = Append(deadLetters, DeadLetter(m)),
         idempotency' = idempotency, receipts' = receipts, lost' = lost
  PROVE  /\ LedgerStep
         /\ \A s \in Submissions :
              /\ Accepted(s)' <=> Accepted(s)
              /\ Finished(s)' <=> Finished(s) \/ s = m.of
<1>1. deadLetters \in Seq(Letter) /\ m.of \in Submissions
  BY StoreTyped DEF Messages
<1>2. /\ deadLetters' \in Seq(Letter)
      /\ DOMAIN deadLetters' = DOMAIN deadLetters \cup {Len(deadLetters) + 1}
      /\ \A d \in DOMAIN deadLetters : deadLetters'[d] = deadLetters[d]
      /\ deadLetters'[Len(deadLetters) + 1].of = m.of
  BY <1>1, LetterAppended
<1>3. \A s \in Submissions :
        /\ Accepted(s)' <=> Accepted(s)
        /\ Finished(s)' <=> Finished(s) \/ s = m.of
  BY <1>2 DEF Accepted, Finished, DeadLettersOf
<1>4. OpenEvents' = OpenEvents \ {m.of}
  BY <1>3 DEF OpenEvents
<1>5. LetterEvents' = Append(LetterEvents, m.of)
  <2>1. /\ Len(deadLetters) \in Nat /\ DOMAIN deadLetters = 1 .. Len(deadLetters)
        /\ \A d \in DOMAIN deadLetters : deadLetters[d].of \in Submissions
    BY <1>1, StoreTyped
  <2>2. LetterEvents \in Seq(Submissions) /\ Len(LetterEvents) = Len(deadLetters)
    BY <2>1 DEF LetterEvents
  <2> DEFINE q == Append(LetterEvents, m.of)
  <2>3. /\ q \in Seq(Submissions) /\ Len(q) = Len(deadLetters) + 1
        /\ \A i \in 1 .. Len(deadLetters) : q[i] = LetterEvents[i]
        /\ q[Len(deadLetters) + 1] = m.of
    BY <1>1, <2>2
  <2>4. DOMAIN q = 1 .. Len(deadLetters) + 1 /\ q = [d \in DOMAIN q |-> q[d]]
    BY <2>3
  <2>5. DOMAIN deadLetters' = 1 .. Len(deadLetters) + 1
    BY <1>2, <2>1
  <2>6. \A d \in DOMAIN q : q[d] = deadLetters'[d].of
    <3>1. \A d \in DOMAIN deadLetters : q[d] = deadLetters'[d].of
      BY <1>2, <2>1, <2>3 DEF LetterEvents
    <3> QED
      BY <1>2, <2>1, <2>3, <2>4, <3>1
  <2> HIDE DEF q
  <2>7. q = [d \in DOMAIN deadLetters' |-> deadLetters'[d].of]
    BY <2>4, <2>5, <2>6
  <2> QED
    BY <2>7 DEF LetterEvents, q
<1>6. Ledger!Bury(m.of)
  BY <1>4, <1>5 DEF Ledger!Bury
<1> QED
  BY <1>1, <1>3, <1>6 DEF LedgerStep, Ledger!Next

(* A dead letter marked as replayed.                                        *)
LEMMA MarkedInLedger ==
  ASSUME Typed, NEW d \in DOMAIN deadLetters, rows' = rows,
         deadLetters' = [deadLetters EXCEPT ![d].replayed = TRUE],
         idempotency' = idempotency, receipts' = receipts, lost' = lost
  PROVE  /\ LedgerStep
         /\ \A s \in Submissions :
              /\ Accepted(s)' <=> Accepted(s)
              /\ Finished(s)' <=> Finished(s)
<1>1. DOMAIN deadLetters' = DOMAIN deadLetters
      /\ \A e \in DOMAIN deadLetters : deadLetters'[e].of = deadLetters[e].of
  BY StoreTyped, LetterMarked
<1>2. \A s \in Submissions : Accepted(s)' <=> Accepted(s)
  BY DEF Accepted
<1> QED
  BY <1>1, <1>2, SameLedger DEF LedgerStep
-----------------------------------------------------------------------------
(* Every step of the pipeline                                               *)

LEMMA Waiting ==
  ASSUME Typed, NEW c \in Callers, NEW next, next \notin Unsettled \cup {"idle"},
         Goto(c, next), pc[c] # "done", LInv, IInv,
         UNCHANGED <<idempotency, queue, receipts, hands, storeVars, lost>>
  PROVE  LInv' /\ LedgerStep
<1>1. pc'[c] = next /\ \A d \in Callers \ {c} : pc'[d] = pc[d]
  BY PcFacts
<1>6. /\ idempotency' = idempotency /\ queue' = queue /\ receipts' = receipts
      /\ hands' = hands /\ rows' = rows /\ deadLetters' = deadLetters
      /\ lost' = lost
  BY DEF storeVars
<1>2. \A s \in Submissions : /\ Accepted(s)' <=> Accepted(s)
                             /\ Finished(s)' <=> Finished(s)
  BY <1>6 DEF Accepted, Finished, DeadLettersOf
<1>3. Owned'
  BY <1>1, <1>2, <1>6, OwnedKept DEF LInv
<1>4. NotSettledTwice'
  BY <1>1, <1>2, <1>6, NotSettledKept DEF LInv
<1>5. LedgerStep
  <2>1. UNCHANGED LedgerVars
    BY <1>2, <1>6, SameLedger
  <2> QED
    BY <2>1 DEF LedgerStep
<1> QED
  BY <1>3, <1>4, <1>5 DEF LInv

LEMMA AcceptLedger ==
  ASSUME Typed, IInv, LInv, NEW s \in Submissions, Accept(s)
  PROVE  LInv' /\ LedgerStep
<1> USE Actors
<1>1. /\ s \in Callers /\ pc[s] = "idle" /\ queue' = Append(queue, Message(s))
      /\ Key[s] \notin idempotency /\ idempotency' = idempotency \cup {Key[s]}
      /\ UNCHANGED <<hands, deadLetters, lost>>
      /\ \E next \in {"consume", "done"} : Goto(s, next)
  BY DEF Accept, Enqueued, Remembered, workerVars, faultVars
<1>2. pc'[s] \in {"consume", "done"} /\ \A d \in Callers \ {s} : pc'[d] = pc[d]
  BY <1>1, PcFacts
<1>3. rows'["processed"] = rows["processed"]
      /\ \A x \in Submissions : Accepted(x)' <=> Accepted(x) \/ x = s
  <2>1. {"received", "processed"} \subseteq Tables /\ rows \in Counts
        /\ rows["received"][s] \in Nat
    BY StoreTyped DEF Tables, AttemptCalls
  <2>2. CASE rows' = Written("received", s) /\ receipts' = receipts
    <3>1. /\ rows' \in Counts
          /\ \A u \in Tables, x \in Submissions :
               rows'[u][x] = IF u = "received" /\ x = s THEN rows[u][x] + 1 ELSE rows[u][x]
      BY <2>1, <2>2, WrittenFacts
    <3>2. rows'["processed"] = rows["processed"]
      BY <2>1, <3>1 DEF Counts
    <3>3. \A x \in Submissions :
            rows'["received"][x] = IF x = s THEN rows["received"][x] + 1
                                   ELSE rows["received"][x]
      BY <2>1, <3>1
    <3>4. rows'["received"][s] > 0
      BY <2>1, <3>3
    <3> QED
      BY <2>2, <3>2, <3>3, <3>4 DEF Accepted
  <2>3. CASE receipts' = receipts \cup {s} /\ rows' = rows
    BY <2>3 DEF Accepted
  <2> QED
    BY <2>2, <2>3 DEF Accept
<1>4. \A x \in Submissions : Finished(x)' <=> Finished(x)
  BY <1>1, <1>3 DEF Finished, DeadLettersOf
<1>5. ~InQueue(s) /\ HeldBy(s) = {} /\ ~Finished(s) /\ s \notin lost /\ ~Accepted(s)
  BY <1>1 DEF IInv, Flow, LInv, Owned
<1>6. Owned'
  <2>1. \A x \in Submissions : InQueue(x)' => InQueue(x) \/ x = s
    <3>1. queue \in Seq(Messages) /\ Message(s) \in Messages /\ Message(s).of = s
      BY TypedParts DEF Typed, RestTyped, Message, Messages
    <3> QED
      BY <1>1, <3>1 DEF InQueue
  <2>2. \A x \in Submissions : Live(x)' => Live(x) \/ x = s
    <3>1. ASSUME NEW x \in Submissions, Live(x)', x # s
          PROVE  Live(x)
      <4>1. PICK w \in Consumers : hands[w].of = x /\ pc'[w] # "done"
        BY <1>1, <3>1 DEF Live, HeldBy
      <4>2. w # s
        <5>1. hands[w] # NoMessage
          BY <4>1, NoMessageOf
        <5> QED
          BY <1>1, <5>1 DEF IInv, Flow
      <4> QED
        BY <1>2, <4>1, <4>2 DEF Live, HeldBy
    <3> QED
      BY <3>1
  <2>3. \A x \in Submissions : pc'[x] = "idle" => x # s /\ pc[x] = "idle"
    BY <1>2
  <2> QED
    BY <1>1, <1>3, <1>5, <2>1, <2>2, <2>3 DEF LInv, Owned
<1>7. NotSettledTwice'
  <2>1. pc'[s] \notin Unsettled
    BY <1>2 DEF Unsettled, AttemptCalls
  <2> QED
    BY <1>1, <1>2, <1>4, <2>1, NotSettledKept DEF LInv
<1>8. Ledger!TakeOn(s)
  <2>1. OpenEvents' = OpenEvents \cup {s}
    BY <1>1, <1>3, <1>4, <1>5 DEF OpenEvents
  <2>2. s \notin OpenEvents /\ LetterEvents' = LetterEvents
    BY <1>1, <1>5 DEF OpenEvents, LetterEvents
  <2>3. ~Ledger!Settled(s)
    BY <1>5 DEF Ledger!Settled, Ledger!Buried, LetterEvents, Finished, DeadLettersOf
  <2> QED
    BY <1>1, <1>3, <2>1, <2>2, <2>3 DEF Ledger!TakeOn
<1> QED
  BY <1>6, <1>7, <1>8 DEF LInv, LedgerStep, Ledger!Next

LEMMA ReceiptLandsLedger ==
  ASSUME Typed, IInv, LInv, NEW s \in Submissions, ReceiptLands(s)
  PROVE  LInv' /\ LedgerStep
<1>1. /\ s \in receipts /\ receipts' = receipts \ {s}
      /\ rows' = Written("received", s)
      /\ UNCHANGED <<idempotency, queue, hands, pc, deadLetters, lost>>
  BY DEF ReceiptLands, workerVars, faultVars
<1>2. {"received", "processed"} \subseteq Tables /\ rows \in Counts
      /\ rows["received"][s] \in Nat
  BY StoreTyped DEF Tables, AttemptCalls
<1>3. /\ rows' \in Counts
      /\ \A u \in Tables, x \in Submissions :
           rows'[u][x] = IF u = "received" /\ x = s THEN rows[u][x] + 1 ELSE rows[u][x]
  BY <1>1, <1>2, WrittenFacts
<1>4. rows'["processed"] = rows["processed"]
  BY <1>2, <1>3 DEF Counts
<1>5. rows'["received"][s] > 0
      /\ \A x \in Submissions \ {s} : rows'["received"][x] = rows["received"][x]
  BY <1>2, <1>3
<1>6. \A x \in Submissions : Accepted(x)' <=> Accepted(x)
  BY <1>1, <1>5 DEF Accepted
<1>7. /\ UNCHANGED LedgerVars
      /\ \A x \in Submissions : Finished(x)' <=> Finished(x)
  BY <1>1, <1>4, <1>6, SameLedger
<1>8. Owned'
  BY <1>1, <1>6 DEF LInv, Owned, InQueue, Live, HeldBy
<1>9. NotSettledTwice'
  <2>1. \A w \in Consumers : pc[w] \in Unsettled => hands[w].of \in Submissions
    BY UnsettledHolding, Actors DEF Typed, HandlersTyped, Messages
  <2> QED
    BY <1>1, <1>7, <2>1 DEF LInv, NotSettledTwice, Finished, DeadLettersOf
<1> QED
  BY <1>7, <1>8, <1>9 DEF LInv, LedgerStep

LEMMA DeathLedger ==
  ASSUME Typed, IInv, LInv, Dies
  PROVE  LInv' /\ LedgerStep
<1>1. /\ idempotency' = {} /\ queue' = <<>> /\ receipts' = {}
      /\ UNCHANGED <<hands, rows, deadLetters>>
      /\ lost \subseteq lost'
      /\ \A c \in Callers : /\ pc'[c] \in {"idle", "done"}
                            /\ pc'[c] = "idle" => pc[c] = "idle"
  BY DEF Dies, AfterDeath, workerVars, storeVars
<1>2. \A x \in Submissions : /\ Finished(x)' <=> Finished(x)
                             /\ Accepted(x)' => Accepted(x)
                             /\ ~InQueue(x)'
  BY <1>1 DEF InQueue, Finished, DeadLettersOf, Accepted
<1>3. \A x \in Submissions : ~Live(x)'
  <2>1. \A x \in Submissions : \A w \in HeldBy(x) : hands[w] # NoMessage /\ w \in Workers
    BY NoMessageOf, Actors DEF HeldBy
  <2>2. \A x \in Submissions : \A w \in HeldBy(x) : pc'[w] = "done"
    BY <1>1, <2>1, Actors DEF IInv, Flow
  <2> QED
    BY <1>1, <2>2 DEF Live, HeldBy
<1>4. Owned'
  <2>1. \A x \in Submissions : pc'[x] = "idle" => ~Accepted(x)'
    BY <1>1, <1>2, Actors DEF LInv, Owned
  <2> QED
    BY <1>2, <1>3, <2>1 DEF Owned
<1>5. NotSettledTwice'
  <2>1. {"idle", "done"} \cap Unsettled = {}
    BY DEF Unsettled, AttemptCalls
  <2> QED
    BY <1>1, <2>1, Actors DEF NotSettledTwice
<1>6. Ledger!Restart
  <2>1. OpenEvents' \subseteq OpenEvents
    BY <1>1, <1>2 DEF OpenEvents
  <2> QED
    BY <1>1, <2>1 DEF Ledger!Restart, LetterEvents
<1> QED
  BY <1>4, <1>5, <1>6 DEF LInv, LedgerStep, Ledger!Next

LEMMA TakeMessageLedger ==
  ASSUME Typed, IInv, LInv, NEW w \in Consumers, TakeMessage(w)
  PROVE  LInv' /\ LedgerStep
<1> USE Actors
<1>1. /\ pc[w] = "consume" /\ queue # <<>> /\ queue' = Tail(queue)
      /\ \E next \in {"failed", "leads"} : Goto(w, next)
      /\ UNCHANGED <<idempotency, receipts, storeVars, lost>>
      /\ hands' = [hands EXCEPT ![w] = Head(queue)]
  BY FirstCallPlace DEF TakeMessage, Shifted, BeginAttempts, faultVars
<1>2. /\ w \in Workers /\ w \in Callers
      /\ pc'[w] \in {"failed", "leads"} /\ \A c \in Callers \ {w} : pc'[c] = pc[c]
  BY <1>1, PcFacts
<1>3. queue \in Seq(Messages)
  BY TypedParts DEF Typed, RestTyped
<1>4. PICK m \in Messages : m = Head(queue) /\ m = queue[1] /\ 1 \in DOMAIN queue
  BY <1>1, <1>3
<1>5. InQueue(m.of) /\ m.of \in Submissions
  BY <1>4 DEF InQueue, Messages
<1>6. hands'[w] = m /\ \A v \in Workers \ {w} : hands'[v] = hands[v]
  BY <1>1, <1>2, <1>4, TypedParts DEF Typed, RestTyped
<1>7. \A x \in Submissions : InQueue(x)' => InQueue(x)
  <2>1. \A i \in DOMAIN queue' : i + 1 \in DOMAIN queue /\ queue'[i] = queue[i + 1]
    BY <1>1, <1>3
  <2> QED
    BY <2>1 DEF InQueue
<1>8. \A x \in Submissions : Live(x)' => Live(x) \/ x = m.of
  BY <1>2, <1>6 DEF Live, HeldBy
<1>9. \A x \in Submissions : /\ Accepted(x)' <=> Accepted(x)
                             /\ Finished(x)' <=> Finished(x)
  BY <1>1 DEF Accepted, Finished, DeadLettersOf, storeVars
<1>10. Owned'
  <2>1. \A x \in Submissions : pc'[x] = "idle" => pc[x] = "idle"
    BY <1>2
  <2>2. \A x \in Submissions : pc'[x] = "idle" => ~Accepted(x)'
    BY <1>9, <2>1 DEF LInv, Owned
  <2>3. \A x \in Submissions : InQueue(x)' \/ Live(x)' => Accepted(x)' /\ x \notin lost'
    BY <1>1, <1>5, <1>7, <1>8, <1>9 DEF LInv, Owned
  <2> QED
    BY <2>2, <2>3 DEF Owned
<1>11. NotSettledTwice'
  <2>1. ~Finished(m.of)
    BY <1>5 DEF IInv, HandledOnce
  <2>2. \A v \in Consumers \ {w} : pc'[v] = pc[v] /\ hands'[v] = hands[v]
    BY <1>2, <1>6
  <2> QED
    BY <1>1, <1>6, <2>1, <2>2
       DEF LInv, NotSettledTwice, Finished, DeadLettersOf, storeVars
<1>12. LedgerStep
  <2>1. rows' = rows /\ deadLetters' = deadLetters /\ idempotency' = idempotency
        /\ lost' = lost
    BY <1>1 DEF storeVars
  <2>2. UNCHANGED LedgerVars
    BY <1>9, <2>1, SameLedger
  <2> QED
    BY <2>2 DEF LedgerStep
<1> QED
  BY <1>10, <1>11, <1>12 DEF LInv

(* A worker's step that neither takes nor enqueues a message.               *)
LEMMA WorkerKept ==
  ASSUME Typed, IInv, LInv, NEW w \in Workers, pc[w] # "done", pc'[w] # "idle",
         \A c \in Callers \ {w} : pc'[c] = pc[c],
         \A v \in Workers \ {w} : hands'[v] = hands[v],
         hands'[w] = hands[w] \/ hands'[w] = NoMessage,
         queue' = queue, lost' = lost,
         \A s \in Submissions : Accepted(s)' <=> Accepted(s),
         \A s \in Submissions : Finished(s)' => Finished(s) \/ s = hands[w].of,
         pc'[w] \in Unsettled =>
           /\ pc[w] \in Unsettled /\ hands'[w] = hands[w]
           /\ \A s \in Submissions : Finished(s)' => Finished(s)
  PROVE  LInv'
<1>1. w \in Callers /\ Consumers \subseteq Workers
  BY Actors
<1>2. Owned'
  BY <1>1, OwnedKept DEF LInv
<1>3. NotSettledTwice'
  BY <1>1, NotSettledKept DEF LInv
<1> QED
  BY <1>2, <1>3 DEF LInv

LEMMA AttemptLedger ==
  ASSUME Typed, IInv, LInv, NEW w \in Workers, Attempt(w)
  PROVE  LInv' /\ LedgerStep
<1>1. pc[w] \in AttemptCalls
  BY DEF Attempt, CreateLead, CreateLeadConflicts, SaveLeadEvent,
         SaveLeadEventConflicts, SaveSolarEstimate, SaveReplyDraft, SaveDraftAudit,
         SaveProcessedLog, Insert, AttemptCalls
<1>2. pc[w] \in Unsettled /\ pc[w] # "done" /\ w \in Callers
  BY <1>1, Actors DEF Unsettled, AttemptCalls
<1>3. PICK h \in Submissions : h = hands[w].of /\ Ledger!MaySettle(h)
  BY <1>2, WorkerMaySettle
<1>4. /\ idempotency' = idempotency /\ queue' = queue /\ receipts' = receipts
      /\ lost' = lost /\ deadLetters' = deadLetters
  BY DEF Attempt, CreateLead, CreateLeadConflicts, SaveLeadEvent,
         SaveLeadEventConflicts, SaveSolarEstimate, SaveReplyDraft, SaveDraftAudit,
         SaveProcessedLog, Insert, faultVars, storeVars
<1>5. CASE SaveProcessedLog(w)
  <2>1. /\ hands'[w] = NoMessage /\ \A v \in Workers \ {w} : hands'[v] = hands[v]
        /\ pc'[w] \in {"consume", "mark_replayed"}
        /\ \A c \in Callers \ {w} : pc'[c] = pc[c]
    BY <1>5, ReturnFacts DEF SaveProcessedLog
  <2>2. rows' = Written("processed", h) /\ "processed" \in Tables \ {"received"}
    BY <1>3, <1>5 DEF SaveProcessedLog, Tables, AttemptCalls
  <2>3. /\ LedgerStep
        /\ \A s \in Submissions : /\ Accepted(s)' <=> Accepted(s)
                                  /\ Finished(s)' => Finished(s) \/ s = h
    BY <1>3, <1>4, <2>2, WrittenToLedger
  <2>4. pc'[w] \notin Unsettled \cup {"idle"}
    BY <2>1 DEF Unsettled, AttemptCalls
  <2> QED
    BY <1>2, <1>3, <1>4, <2>1, <2>3, <2>4, WorkerKept
<1>6. CASE ~SaveProcessedLog(w)
  <2>1. /\ \E next \in AttemptCalls \cup {"failed"} : Goto(w, next)
        /\ hands' = hands
    BY <1>6 DEF Attempt, CreateLead, CreateLeadConflicts, SaveLeadEvent,
         SaveLeadEventConflicts, SaveSolarEstimate, SaveReplyDraft, SaveDraftAudit,
         Insert, AttemptCalls, workerVars
  <2>2. /\ pc'[w] \in AttemptCalls \cup {"failed"}
        /\ \A c \in Callers \ {w} : pc'[c] = pc[c]
    BY <1>2, <2>1, PcFacts
  <2>3. /\ LedgerStep
        /\ \A s \in Submissions : /\ Accepted(s)' <=> Accepted(s)
                                  /\ Finished(s)' => Finished(s)
    <3>1. CASE rows' = rows
      <4>1. \A s \in Submissions : Accepted(s)' <=> Accepted(s)
        BY <1>4, <3>1 DEF Accepted
      <4>2. /\ UNCHANGED LedgerVars
            /\ \A s \in Submissions : Finished(s)' <=> Finished(s)
        BY <1>4, <3>1, <4>1, SameLedger
      <4> QED
        BY <4>1, <4>2 DEF LedgerStep
    <3>2. ASSUME NEW t \in AttemptCalls \ {"processed"}, rows' = Written(t, h)
          PROVE  /\ LedgerStep
                 /\ \A s \in Submissions : /\ Accepted(s)' <=> Accepted(s)
                                           /\ Finished(s)' => Finished(s)
      <4>1. t \in Tables \ {"received"} /\ t # "processed"
        BY DEF Tables, AttemptCalls
      <4> QED
        BY <1>3, <1>4, <3>2, <4>1, WrittenToLedger
    <3>3. \/ rows' = rows
          \/ \E t \in AttemptCalls \ {"processed"} : rows' = Written(t, h)
      BY <1>3, <1>6 DEF Attempt, CreateLead, CreateLeadConflicts, SaveLeadEvent,
         SaveLeadEventConflicts, SaveSolarEstimate, SaveReplyDraft, SaveDraftAudit,
         Insert, AttemptCalls, storeVars
    <3> QED
      BY <3>1, <3>2, <3>3
  <2>4. pc'[w] # "idle"
    BY <2>2 DEF AttemptCalls
  <2> QED
    BY <1>2, <1>4, <2>1, <2>2, <2>3, <2>4, WorkerKept
<1> QED
  BY <1>5, <1>6

LEMMA GiveUpLedger ==
  ASSUME Typed, IInv, LInv, NEW w \in Workers, GiveUp(w)
  PROVE  LInv' /\ LedgerStep
<1>1. pc[w] \in {"failed", "dead_letters", "dlq_audit"} /\ w \in Callers
  BY Actors DEF GiveUp, SaveFailedLog, CreateDeadLetter, SaveDlqAudit
<1>2. hands[w] \in Messages
  BY <1>1 DEF Typed, HandlersTyped, Holding
<1>3. PICK h \in Submissions : h = hands[w].of
  BY <1>2 DEF Messages
<1>4. /\ idempotency' = idempotency /\ queue' = queue /\ receipts' = receipts
      /\ lost' = lost
  BY DEF GiveUp, SaveFailedLog, CreateDeadLetter, SaveDlqAudit, faultVars
<1>5. {"failed", "dlq_audit"} \subseteq Tables \ {"received", "processed"}
  BY DEF Tables, AttemptCalls
<1>6. {"consume", "mark_replayed", "dlq_audit"} \cap (Unsettled \cup {"idle"}) = {}
  BY DEF Unsettled, AttemptCalls
<1>7. CASE CreateDeadLetter(w)
  <2>1. /\ Goto(w, "dlq_audit") /\ hands' = hands /\ rows' = rows
        /\ pc[w] = "dead_letters"
        /\ deadLetters' = Append(deadLetters, DeadLetter(hands[w]))
    BY <1>7 DEF CreateDeadLetter, workerVars
  <2>2. /\ pc'[w] = "dlq_audit" /\ \A c \in Callers \ {w} : pc'[c] = pc[c]
    BY <1>1, <2>1, PcFacts
  <2>3. Ledger!MaySettle(hands[w].of)
    BY <2>1, WorkerMaySettle DEF Unsettled
  <2>4. /\ LedgerStep
        /\ \A s \in Submissions : /\ Accepted(s)' <=> Accepted(s)
                                  /\ Finished(s)' => Finished(s) \/ s = hands[w].of
    BY <1>2, <1>4, <2>1, <2>3, BuriedInLedger
  <2> QED
    BY <1>1, <1>4, <1>6, <2>1, <2>2, <2>4, WorkerKept
<1>8. CASE SaveFailedLog(w)
  <2>1. /\ \E next \in {"failed", "leads", "dead_letters"} : Goto(w, next)
        /\ hands' = hands /\ pc[w] = "failed"
        /\ rows' = Written("failed", h) /\ deadLetters' = deadLetters
    BY <1>3, <1>8, FirstCallPlace DEF SaveFailedLog, AfterRetries
  <2>2. /\ pc'[w] \in {"failed", "leads", "dead_letters"}
        /\ \A c \in Callers \ {w} : pc'[c] = pc[c]
    BY <1>1, <2>1, PcFacts
  <2>3. /\ LedgerStep
        /\ \A s \in Submissions : /\ Accepted(s)' <=> Accepted(s)
                                  /\ Finished(s)' => Finished(s)
    BY <1>4, <1>5, <2>1, WrittenToLedger
  <2> QED
    BY <1>4, <2>1, <2>2, <2>3, WorkerKept DEF Unsettled
<1>9. CASE SaveDlqAudit(w)
  <2>1. /\ hands'[w] = NoMessage /\ \A v \in Workers \ {w} : hands'[v] = hands[v]
        /\ pc'[w] \in {"consume", "mark_replayed"}
        /\ \A c \in Callers \ {w} : pc'[c] = pc[c]
        /\ rows' = Written("dlq_audit", h) /\ deadLetters' = deadLetters
    BY <1>3, <1>9, ReturnFacts DEF SaveDlqAudit
  <2>2. /\ LedgerStep
        /\ \A s \in Submissions : /\ Accepted(s)' <=> Accepted(s)
                                  /\ Finished(s)' => Finished(s)
    BY <1>4, <1>5, <2>1, WrittenToLedger
  <2> QED
    BY <1>1, <1>4, <1>6, <2>1, <2>2, WorkerKept
<1> QED
  BY <1>7, <1>8, <1>9 DEF GiveUp

LEMMA FinishReplayLedger ==
  ASSUME Typed, IInv, LInv, NEW w \in Replayers, FinishReplay(w)
  PROVE  LInv' /\ LedgerStep
<1>1. pc[w] \in {"mark_replayed", "replay_audit"} /\ w \in Workers /\ w \in Callers
  BY Actors DEF FinishReplay, MarkReplayed, SaveReplayAudit
<1>2. target[w] \in DOMAIN deadLetters /\ deadLetters[target[w]].of \in Submissions
  BY <1>1, StoreTyped DEF Typed, HandlersTyped
<1>3. /\ idempotency' = idempotency /\ queue' = queue /\ receipts' = receipts
      /\ lost' = lost /\ hands' = hands
      /\ \E next \in {"replay_audit", "done"} : Goto(w, next)
  BY DEF FinishReplay, MarkReplayed, SaveReplayAudit, faultVars, workerVars
<1>4. /\ pc'[w] \in {"replay_audit", "done"}
      /\ \A c \in Callers \ {w} : pc'[c] = pc[c]
  BY <1>1, <1>3, PcFacts
<1>5. pc'[w] \notin Unsettled \cup {"idle"}
  BY <1>4 DEF Unsettled, AttemptCalls
<1>6. /\ LedgerStep
      /\ \A s \in Submissions : /\ Accepted(s)' <=> Accepted(s)
                                /\ Finished(s)' => Finished(s)
  <2>1. CASE MarkReplayed(w)
    <3>1. rows' = rows
          /\ deadLetters' = [deadLetters EXCEPT ![target[w]].replayed = TRUE]
      BY <2>1 DEF MarkReplayed
    <3> QED
      BY <1>2, <1>3, <3>1, MarkedInLedger
  <2>2. CASE SaveReplayAudit(w)
    <3>1. rows' = Written("replay_audit", deadLetters[target[w]].of)
          /\ deadLetters' = deadLetters
      BY <2>2 DEF SaveReplayAudit
    <3>2. "replay_audit" \in Tables \ {"received"} /\ "replay_audit" # "processed"
      BY DEF Tables
    <3> QED
      BY <1>2, <1>3, <3>1, <3>2, WrittenToLedger
  <2> QED
    BY <2>1, <2>2 DEF FinishReplay
<1> QED
  BY <1>1, <1>3, <1>4, <1>5, <1>6, WorkerKept

LEMMA StartReplayLedger ==
  ASSUME Typed, IInv, LInv, NEW w \in Replayers, NEW d \in DOMAIN deadLetters,
         NEW throws \in BOOLEAN, StartReplay(w, d, throws)
  PROVE  LInv' /\ LedgerStep
<1>1. /\ idempotency' = idempotency /\ queue' = queue /\ receipts' = receipts
      /\ lost' = lost /\ rows' = rows /\ deadLetters' = deadLetters
      /\ \E next \in {"failed", "leads"} : Goto(w, next)
      /\ \E m : hands' = [hands EXCEPT ![w] = m]
  BY FirstCallPlace DEF StartReplay, BeginAttempts, faultVars, storeVars
<1>2. /\ w \in Workers /\ w \in Callers /\ w \notin Consumers /\ w \notin Submissions
      /\ pc'[w] \in {"failed", "leads"} /\ \A c \in Callers \ {w} : pc'[c] = pc[c]
  BY <1>1, PcFacts, Actors, PipelineAssumption
<1>3. \A v \in Consumers : hands'[v] = hands[v] /\ pc'[v] = pc[v]
  BY <1>1, <1>2, TypedParts, Actors DEF Typed, RestTyped
<1>4. \A s \in Submissions : Accepted(s)' <=> Accepted(s)
  BY <1>1 DEF Accepted
<1>5. /\ UNCHANGED LedgerVars
      /\ \A s \in Submissions : Finished(s)' <=> Finished(s)
  BY <1>1, <1>4, SameLedger
<1>6. Owned'
  <2>1. \A s \in Submissions : (InQueue(s)' <=> InQueue(s)) /\ (Live(s)' <=> Live(s))
    BY <1>1, <1>3 DEF InQueue, Live, HeldBy
  <2>2. \A s \in Submissions : pc'[s] = pc[s]
    BY <1>2, Actors
  <2> QED
    BY <1>1, <1>4, <2>1, <2>2 DEF LInv, Owned
<1>7. NotSettledTwice'
  BY <1>1, <1>3 DEF LInv, NotSettledTwice, Finished, DeadLettersOf
<1> QED
  BY <1>5, <1>6, <1>7 DEF LInv, LedgerStep

LEMMA FaultLedger ==
  ASSUME Typed, IInv, LInv, NEW w \in Workers, Fault(w)
  PROVE  LInv' /\ LedgerStep
<1>1. pc[w] \in AttemptCalls \cup UnguardedCalls /\ w \in Callers
      /\ (Landed(w) \/ UNCHANGED storeVars)
  BY Actors DEF Fault, AttemptCallFails, UnguardedCallFails
<1>2. /\ idempotency' = idempotency /\ queue' = queue /\ receipts' = receipts
      /\ lost' = lost /\ hands' = hands /\ faults < MaxFaults
      /\ \E next \in {"failed", "done"} : Goto(w, next)
  BY DEF Fault, AttemptCallFails, UnguardedCallFails, StoreFault, workerVars
<1>3. /\ pc'[w] \in {"failed", "done"}
      /\ \A c \in Callers \ {w} : pc'[c] = pc[c]
  BY <1>1, <1>2, PcFacts
<1>4. MaxFaults # 0
  BY <1>2, TypedParts DEF Typed, RestTyped
<1>5. pc[w] # "done" /\ "replay_audit" \in Tables \ {"received", "processed"}
  BY <1>1 DEF AttemptCalls, UnguardedCalls, Tables
<1>6. /\ LedgerStep
      /\ \A s \in Submissions : Accepted(s)' <=> Accepted(s)
  <2>1. CASE UNCHANGED storeVars
    <3>1. rows' = rows /\ deadLetters' = deadLetters
      BY <2>1 DEF storeVars
    <3>2. \A s \in Submissions : Accepted(s)' <=> Accepted(s)
      BY <1>2, <3>1 DEF Accepted
    <3>3. UNCHANGED LedgerVars
      BY <1>2, <3>1, <3>2, SameLedger
    <3> QED
      BY <3>2, <3>3 DEF LedgerStep
  <2>2. CASE Landed(w) /\ pc[w] \in {"mark_replayed", "replay_audit"}
    <3>1. target[w] \in DOMAIN deadLetters
      BY <1>1, <2>2 DEF Typed, HandlersTyped
    <3>2. deadLetters[target[w]].of \in Submissions
      BY <3>1, StoreTyped
    <3>3. CASE pc[w] = "mark_replayed"
      <4>1. rows' = rows
            /\ deadLetters' = [deadLetters EXCEPT ![target[w]].replayed = TRUE]
        BY <2>2, <3>3 DEF Landed
      <4> QED
        BY <1>2, <3>1, <4>1, MarkedInLedger
    <3>4. CASE pc[w] = "replay_audit"
      <4>1. rows' = Written("replay_audit", deadLetters[target[w]].of)
            /\ deadLetters' = deadLetters
        BY <2>2, <3>4 DEF Landed
      <4> QED
        BY <1>2, <1>5, <3>2, <4>1, WrittenToLedger
    <3> QED
      BY <2>2, <3>3, <3>4
  <2>3. CASE /\ Landed(w) /\ ~UNCHANGED storeVars
             /\ pc[w] \notin {"mark_replayed", "replay_audit"}
    <3>1. pc[w] \in Holding
      BY <1>1, <2>3 DEF UnguardedCalls, Holding
    <3>2. hands[w] \in Messages
      BY <3>1 DEF Typed, HandlersTyped
    <3>3. PICK h \in Submissions : h = hands[w].of
      BY <3>2 DEF Messages
    <3>4. CASE pc[w] = "dead_letters"
      <4>1. rows' = rows /\ deadLetters' = Append(deadLetters, DeadLetter(hands[w]))
        BY <2>3, <3>4 DEF Landed
      <4>2. Ledger!MaySettle(hands[w].of)
        BY <3>4, WorkerMaySettle DEF Unsettled
      <4> QED
        BY <1>2, <3>2, <4>1, <4>2, BuriedInLedger
    <3>5. CASE pc[w] # "dead_letters"
      <4>1. rows' = Written(pc[w], h) /\ deadLetters' = deadLetters
        BY <2>3, <3>3, <3>5 DEF Landed
      <4>2. pc[w] \in Tables \ {"received"}
        BY <3>1, <3>5 DEF Holding, AttemptCalls, Tables
      <4>3. pc[w] = "processed" => Ledger!MaySettle(h)
        BY <3>3, WorkerMaySettle DEF Unsettled, AttemptCalls
      <4> QED
        BY <1>2, <3>3, <4>1, <4>2, <4>3, WrittenToLedger
    <3> QED
      BY <3>4, <3>5
  <2> QED
    BY <1>1, <2>1, <2>2, <2>3
<1>7. Owned'
  BY <1>1, <1>2, <1>3, <1>5, <1>6, OwnedKept DEF LInv
<1>8. NotSettledTwice'
  BY <1>4 DEF NotSettledTwice
<1> QED
  BY <1>6, <1>7, <1>8 DEF LInv

-----------------------------------------------------------------------------
(* The refinement                                                           *)

LEMMA LedgerInit == Init => LInv /\ Ledger!Init
<1> SUFFICES ASSUME Init PROVE LInv /\ Ledger!Init
  OBVIOUS
<1>1. {"received", "processed"} \subseteq Tables
  BY DEF Tables, AttemptCalls
<1>2. \A s \in Submissions : /\ ~Accepted(s) /\ ~Finished(s) /\ ~InQueue(s)
                             /\ ~Live(s)
  BY <1>1, NoMessageOf, Actors
     DEF Init, Accepted, Finished, DeadLettersOf, InQueue, Live, HeldBy
<1>3. LInv
  <2>1. "idle" \notin Unsettled
    BY DEF Unsettled, AttemptCalls
  <2> QED
    BY <1>2, <2>1, Actors DEF Init, LInv, Owned, NotSettledTwice
<1>4. Ledger!Init
  <2>1. OpenEvents = {}
    BY <1>2 DEF OpenEvents
  <2>2. rows["processed"] = [s \in Submissions |-> 0]
    BY <1>1 DEF Init
  <2>3. LetterEvents = <<>>
    BY DEF Init, LetterEvents
  <2> QED
    BY <2>1, <2>2, <2>3 DEF Init, Ledger!Init
<1> QED
  BY <1>3, <1>4

LEMMA LedgerNext ==
  ASSUME Typed, IInv, LInv, [Next]_vars
  PROVE  LInv' /\ LedgerStep
<1>1. ASSUME NEW c \in Callers, NEW next \in {"done", "respond"}, Goto(c, next),
             pc[c] # "done",
             UNCHANGED <<idempotency, queue, receipts, hands, lost, storeVars>>
      PROVE  LInv' /\ LedgerStep
  <2>1. next \notin Unsettled \cup {"idle"}
    BY DEF Unsettled, AttemptCalls
  <2> QED
    BY <1>1, <2>1, Waiting
<1>2. ASSUME NEW s \in Submissions, Submit(s) PROVE LInv' /\ LedgerStep
  <2>1. CASE RejectInvalid(s) \/ IgnoreDuplicate(s)
    <3>1. s \in Callers /\ Goto(s, "done") /\ pc[s] # "done"
          /\ UNCHANGED <<idempotency, queue, receipts, hands, lost, storeVars>>
      BY <2>1, Actors DEF RejectInvalid, IgnoreDuplicate, workerVars, faultVars
    <3> QED
      BY <1>1, <3>1
  <2> QED
    BY <1>2, <2>1, AcceptLedger DEF Submit
<1>3. ASSUME NEW s \in Submissions, ReceiptLands(s) \/ ReceiptFails(s)
      PROVE  LInv' /\ LedgerStep
  BY <1>3, ReceiptLandsLedger, DeathLedger DEF ReceiptFails
<1>4. CASE Killed
  BY <1>4, DeathLedger DEF Killed
<1>5. ASSUME NEW w \in Consumers, Consume(w) PROVE LInv' /\ LedgerStep
  <2>1. CASE QueueDrained(w) \/ Respond(w)
    <3>1. /\ w \in Callers /\ \E next \in {"respond", "done"} : Goto(w, next)
          /\ pc[w] # "done"
          /\ UNCHANGED <<idempotency, queue, receipts, hands, lost, storeVars>>
      BY <2>1, Actors DEF QueueDrained, Respond, workerVars, faultVars
    <3> QED
      BY <1>1, <3>1
  <2> QED
    BY <1>5, <2>1, TakeMessageLedger DEF Consume
<1>6. ASSUME NEW w \in Workers, Work(w) PROVE LInv' /\ LedgerStep
  BY <1>5, <1>6, AttemptLedger, GiveUpLedger, FinishReplayLedger DEF Work
<1>7. ASSUME NEW w \in Workers, Fault(w) PROVE LInv' /\ LedgerStep
  BY <1>7, FaultLedger
<1>8. ASSUME NEW w \in Replayers, Replay(w) PROVE LInv' /\ LedgerStep
  <2>1. CASE ReplayUnknown(w)
    <3>1. w \in Callers /\ Goto(w, "done") /\ pc[w] # "done"
          /\ UNCHANGED <<idempotency, queue, receipts, hands, lost, storeVars>>
      BY <2>1, Actors DEF ReplayUnknown, workerVars, faultVars
    <3> QED
      BY <1>1, <3>1
  <2> QED
    BY <1>8, <2>1, StartReplayLedger DEF Replay
<1>9. CASE UNCHANGED vars
  <2>1. LInv'
    BY <1>9 DEF vars, workerVars, storeVars, faultVars, LInv, Owned, NotSettledTwice,
       InQueue, Live, HeldBy, Accepted, Finished, DeadLettersOf
  <2>2. UNCHANGED LedgerVars
    BY <1>9 DEF vars, workerVars, storeVars, faultVars, LedgerVars, OpenEvents,
       LetterEvents, Accepted, Finished, DeadLettersOf
  <2> QED
    BY <2>1, <2>2 DEF LedgerStep
<1> QED
  BY <1>2, <1>3, <1>4, <1>6, <1>7, <1>8, <1>9 DEF Next

LEMMA LedgerInvariant == Spec => []LInv
<1>1. Init => LInv
  BY LedgerInit
<1>2. Typed /\ IInv /\ LInv /\ [Next]_vars => LInv'
  BY LedgerNext
<1> QED
  BY <1>1, <1>2, TypeInvariant, Invariant, PTL DEF Spec

-----------------------------------------------------------------------------
(* Theorems                                                                 *)

(* Interleaved consumers, retries, replays, failing store calls, deaths and *)
(* restarts together do no more than the ledger allows: a process takes a   *)
(* key on once, and an event is processed or dead-lettered only while it is *)
(* open, when a dead letter of it is replayed, or after a store call that   *)
(* failed (handleMockWebhook, processWithRetries, replayDeadLetter).        *)
THEOREM PipelineImplementsLedger == Spec => ImplementsLedger
<1>1. Init => Ledger!Init
  BY LedgerInit
<1>2. Typed /\ IInv /\ LInv /\ [Next]_vars =>
        [Ledger!Next]_<<idempotency, OpenEvents, rows["processed"], LetterEvents>>
  BY LedgerNext DEF LedgerStep, LedgerVars
<1> QED
  BY <1>1, <1>2, TypeInvariant, Invariant, LedgerInvariant, PTL
     DEF Spec, ImplementsLedger, Ledger!Spec

-----------------------------------------------------------------------------
(* The steps of the pipeline, as the books see them                         *)

(* The workers at a store call of P for submission s.                       *)
Holders(s, P) == {w \in Workers : hands[w].of = s /\ pc[w] \in P}
Busy          == {w \in Workers : pc[w] # "idle"}

(* No attempt is begun, continued or given up.                              *)
QuietStep ==
  /\ hands' = hands /\ attempt' = attempt /\ target' = target
  /\ \A w \in Workers :
       \/ pc'[w] = pc[w]
       \/ pc[w] \notin Holding \cup {"done"} /\ pc'[w] \notin Holding \cup {"idle"}
  /\ \A t \in Tables \ {"received", "replay_audit"} : rows'[t] = rows[t]
  /\ DOMAIN deadLetters' = DOMAIN deadLetters
  /\ \A d \in DOMAIN deadLetters : deadLetters'[d].of = deadLetters[d].of

(* The other workers stay where they are.                                   *)
Alone(w) ==
  /\ \A v \in Workers \ {w} :
       hands'[v] = hands[v] /\ pc'[v] = pc[v] /\ attempt'[v] = attempt[v]
  /\ \A v \in Replayers \ {w} : target'[v] = target[v]

BeginStep(w) ==
  /\ Alone(w) /\ UNCHANGED storeVars
  /\ pc[w] \in {"idle", "consume"} /\ hands[w] = NoMessage
  /\ hands'[w] \in Messages /\ attempt'[w] = 1
  /\ pc'[w] = FirstCall(hands'[w])
  /\ w \in Consumers => InQueue(hands'[w].of)
  /\ w \in Replayers => /\ pc[w] = "idle" /\ target'[w] \in DOMAIN deadLetters
                        /\ deadLetters[target'[w]].of = hands'[w].of

(* One more row in table t for h, and no other.                             *)
Wrote(t, h) ==
  \A u \in Tables, x \in Submissions :
    rows'[u][x] = IF u = t /\ x = h THEN rows[u][x] + 1 ELSE rows[u][x]

(* A store call of w fails: its insert may have landed, and the attempt has *)
(* failed or the request is answered 500.                                   *)
FaultStep(w) ==
  /\ Alone(w) /\ hands'[w] = hands[w] /\ attempt'[w] = attempt[w]
  /\ pc[w] \in AttemptCalls \cup UnguardedCalls /\ faults' = faults + 1
  /\ pc'[w] = IF pc[w] \in AttemptCalls THEN "failed" ELSE "done"
  /\ \/ \A t \in Tables \ {"replay_audit"} : rows'[t] = rows[t]
     \/ pc[w] \in Holding \ {"dead_letters"} /\ Wrote(pc[w], hands[w].of)
  /\ \/ /\ DOMAIN deadLetters' = DOMAIN deadLetters
        /\ \A d \in DOMAIN deadLetters : deadLetters'[d].of = deadLetters[d].of
     \/ /\ pc[w] = "dead_letters" /\ hands[w] \in Messages
        /\ deadLetters' = Append(deadLetters, DeadLetter(hands[w]))

LEMMA SubmitQuiet ==
  ASSUME Typed, NEW s \in Submissions, Submit(s) \/ ReceiptLands(s)
  PROVE  QuietStep
<1>1. /\ UNCHANGED <<workerVars, deadLetters>>
      /\ pc' = pc \/ (pc[s] = "idle" /\ \E next \in {"consume", "done"} : Goto(s, next))
      /\ rows' = rows \/ rows' = Written("received", s)
  BY DEF Submit, RejectInvalid, IgnoreDuplicate, Accept, ReceiptLands, storeVars
<1>2. \A t \in Tables \ {"received", "replay_audit"} : rows'[t] = rows[t]
  <2>1. "received" \in Tables
    BY DEF Tables
  <2> QED
    BY <1>1, <2>1, OtherTableWritten
<1>3. \A w \in Workers :
        \/ pc'[w] = pc[w]
        \/ pc[w] = "idle" /\ pc'[w] \in {"consume", "done"}
  BY <1>1, Actors, PcFacts
<1> QED
  BY <1>1, <1>2, <1>3 DEF QuietStep, workerVars, Holding, AttemptCalls

LEMMA MoveQuiet ==
  ASSUME Typed, NEW w \in Workers, NEW next \in {"respond", "done"}, Goto(w, next),
         pc[w] \notin Holding \cup {"done"}, UNCHANGED <<workerVars, storeVars>>
  PROVE  QuietStep
BY Actors, PcFacts DEF QuietStep, workerVars, storeVars, Holding, AttemptCalls

LEMMA FinishReplayQuiet ==
  ASSUME Typed, NEW w \in Replayers, FinishReplay(w)
  PROVE  QuietStep
<1>1. /\ UNCHANGED workerVars /\ pc[w] \in {"mark_replayed", "replay_audit"}
      /\ \E next \in {"replay_audit", "done"} : Goto(w, next)
  BY DEF FinishReplay, MarkReplayed, SaveReplayAudit
<1>2. \A v \in Workers :
        \/ pc'[v] = pc[v]
        \/ pc[v] \in {"mark_replayed", "replay_audit"} /\ pc'[v] \in {"replay_audit", "done"}
  BY <1>1, Actors, PcFacts
<1>3. target[w] \in DOMAIN deadLetters /\ deadLetters \in Seq(Letter)
      /\ deadLetters[target[w]].of \in Submissions /\ "replay_audit" \in Tables
  BY <1>1, StoreTyped DEF Typed, HandlersTyped, Tables
<1>4. CASE MarkReplayed(w)
  <2>1. rows' = rows /\ deadLetters' = [deadLetters EXCEPT ![target[w]].replayed = TRUE]
    BY <1>4 DEF MarkReplayed
  <2>2. /\ DOMAIN deadLetters' = DOMAIN deadLetters
        /\ \A d \in DOMAIN deadLetters : deadLetters'[d].of = deadLetters[d].of
    BY <1>3, <2>1, LetterMarked
  <2> QED
    BY <1>1, <1>2, <2>1, <2>2 DEF QuietStep, workerVars, Holding, AttemptCalls
<1>5. CASE SaveReplayAudit(w)
  <2>1. /\ rows' = Written("replay_audit", deadLetters[target[w]].of)
        /\ deadLetters' = deadLetters
    BY <1>5 DEF SaveReplayAudit
  <2>2. \A t \in Tables \ {"received", "replay_audit"} : rows'[t] = rows[t]
    BY <1>3, <2>1, OtherTableWritten
  <2> QED
    BY <1>1, <1>2, <2>1, <2>2 DEF QuietStep, workerVars, Holding, AttemptCalls
<1> QED
  BY <1>4, <1>5 DEF FinishReplay

LEMMA TakeBegins ==
  ASSUME Typed, IInv, NEW w \in Consumers, TakeMessage(w)
  PROVE  BeginStep(w) /\ hands'[w] = Head(queue)
<1>1. /\ queue \in Seq(Messages) /\ queue # <<>>
      /\ hands \in [Workers -> Messages \cup {NoMessage}]
      /\ attempt \in [Workers -> 0 .. MaxRetries]
  BY TypedParts DEF Typed, RestTyped, TakeMessage
<1>2. w \in Workers /\ w \in Callers /\ w \notin Replayers
  BY Actors
<1>3. Head(queue) \in Messages /\ InQueue(Head(queue).of)
  <2>1. 1 \in DOMAIN queue /\ queue[1] = Head(queue) /\ Head(queue) \in Messages
    BY <1>1
  <2> QED
    BY <2>1 DEF InQueue
<1>4. /\ pc[w] = "consume" /\ BeginAttempts(w, Head(queue))
      /\ Goto(w, FirstCall(Head(queue)))
      /\ UNCHANGED <<target, storeVars>>
  BY DEF TakeMessage
<1>5. hands[w] = NoMessage
  BY <1>2, <1>4 DEF IInv, Flow
<1>6. /\ hands'[w] = Head(queue) /\ attempt'[w] = 1
      /\ \A v \in Workers \ {w} : hands'[v] = hands[v] /\ attempt'[v] = attempt[v]
  BY <1>1, <1>2, <1>4 DEF BeginAttempts
<1>7. pc'[w] = FirstCall(Head(queue)) /\ \A c \in Callers \ {w} : pc'[c] = pc[c]
  BY <1>2, <1>4, PcFacts
<1> QED
  BY <1>2, <1>3, <1>4, <1>5, <1>6, <1>7, Actors DEF BeginStep, Alone

LEMMA ReplayBegins ==
  ASSUME Typed, IInv, NEW w \in Replayers, NEW d \in DOMAIN deadLetters,
         NEW throws \in BOOLEAN, StartReplay(w, d, throws)
  PROVE  BeginStep(w) /\ hands'[w].of = deadLetters[d].of /\ target'[w] = d
<1> DEFINE m == [of |-> deadLetters[d].of, throws |-> throws]
<1>1. /\ hands \in [Workers -> Messages \cup {NoMessage}]
      /\ attempt \in [Workers -> 0 .. MaxRetries] /\ target \in [Replayers -> Nat]
  BY TypedParts DEF Typed, RestTyped
<1>2. w \in Workers /\ w \in Callers
  BY Actors
<1>3. m \in Messages /\ m.of = deadLetters[d].of
  <2>1. deadLetters[d].of \in Submissions
    BY StoreTyped
  <2> QED
    BY <2>1 DEF Messages
<1>4. /\ pc[w] = "idle" /\ BeginAttempts(w, m) /\ Goto(w, FirstCall(m))
      /\ target' = [target EXCEPT ![w] = d] /\ UNCHANGED storeVars
  BY DEF StartReplay
<1> HIDE DEF m
<1>5. hands[w] = NoMessage
  BY <1>2, <1>4 DEF IInv, Flow
<1>6. /\ hands'[w] = m /\ attempt'[w] = 1 /\ target'[w] = d
      /\ \A v \in Workers \ {w} : hands'[v] = hands[v] /\ attempt'[v] = attempt[v]
      /\ \A v \in Replayers \ {w} : target'[v] = target[v]
  BY <1>1, <1>2, <1>4 DEF BeginAttempts
<1>7. pc'[w] = FirstCall(m) /\ \A c \in Callers \ {w} : pc'[c] = pc[c]
  BY <1>2, <1>4, PcFacts
<1> QED
  BY <1>2, <1>3, <1>4, <1>5, <1>6, <1>7, Actors DEF BeginStep, Alone

LEMMA FaultSteps ==
  ASSUME Typed, NEW w \in Workers, Fault(w)
  PROVE  FaultStep(w)
<1>1. /\ pc[w] \in AttemptCalls \cup UnguardedCalls /\ faults' = faults + 1
      /\ Landed(w) \/ UNCHANGED storeVars
      /\ UNCHANGED workerVars
      /\ Goto(w, IF pc[w] \in AttemptCalls THEN "failed" ELSE "done")
  <2>1. AttemptCalls \cap UnguardedCalls = {}
    BY DEF AttemptCalls, UnguardedCalls
  <2> QED
    BY <2>1 DEF Fault, AttemptCallFails, UnguardedCallFails, StoreFault
<1>2. /\ pc'[w] = IF pc[w] \in AttemptCalls THEN "failed" ELSE "done"
      /\ Alone(w) /\ hands'[w] = hands[w] /\ attempt'[w] = attempt[w]
  BY <1>1, PcFacts, Actors DEF Alone, workerVars
<1> DEFINE Same == \A t \in Tables \ {"replay_audit"} : rows'[t] = rows[t]
           Old == /\ DOMAIN deadLetters' = DOMAIN deadLetters
                  /\ \A d \in DOMAIN deadLetters : deadLetters'[d].of = deadLetters[d].of
           Wrote1 == pc[w] \in Holding \ {"dead_letters"} /\ Wrote(pc[w], hands[w].of)
           Wrote2 == /\ pc[w] = "dead_letters" /\ hands[w] \in Messages
                     /\ deadLetters' = Append(deadLetters, DeadLetter(hands[w]))
<1>3. (Same \/ Wrote1) /\ (Old \/ Wrote2)
  <2>1. CASE UNCHANGED storeVars
    BY <2>1 DEF storeVars
  <2>2. CASE Landed(w) /\ pc[w] \in {"mark_replayed", "replay_audit"}
    <3>1. target[w] \in DOMAIN deadLetters /\ deadLetters \in Seq(Letter)
          /\ deadLetters[target[w]].of \in Submissions
      BY <1>1, <2>2, StoreTyped, Actors DEF Typed, HandlersTyped
    <3>2. CASE pc[w] = "mark_replayed"
      <4>1. rows' = rows
            /\ deadLetters' = [deadLetters EXCEPT ![target[w]].replayed = TRUE]
        BY <2>2, <3>2 DEF Landed
      <4> QED
        BY <3>1, <4>1, LetterMarked
    <3>3. CASE pc[w] = "replay_audit"
      <4>1. rows' = Written("replay_audit", deadLetters[target[w]].of)
            /\ deadLetters' = deadLetters /\ "replay_audit" \in Tables
        BY <2>2, <3>3 DEF Landed, Tables
      <4> QED
        BY <3>1, <4>1, OtherTableWritten
    <3> QED
      BY <2>2, <3>2, <3>3
  <2>3. CASE /\ Landed(w) /\ ~UNCHANGED storeVars
             /\ pc[w] \notin {"mark_replayed", "replay_audit"}
    <3>1. pc[w] \in Holding
      BY <1>1, <2>3 DEF UnguardedCalls, Holding
    <3>2. hands[w] \in Messages /\ hands[w].of \in Submissions
      BY <3>1 DEF Typed, HandlersTyped, Messages
    <3>3. CASE pc[w] = "dead_letters"
      BY <2>3, <3>2, <3>3 DEF Landed
    <3>4. CASE pc[w] # "dead_letters"
      <4>1. rows' = Written(pc[w], hands[w].of) /\ deadLetters' = deadLetters
        BY <2>3, <3>4 DEF Landed
      <4>2. pc[w] \in Tables
        BY <3>1, <3>4 DEF Holding, AttemptCalls, Tables
      <4>3. Wrote(pc[w], hands[w].of)
        BY <3>2, <4>1, <4>2, StoreTyped, WrittenFacts DEF Wrote
      <4> QED
        BY <3>1, <3>4, <4>1, <4>3
    <3> QED
      BY <3>3, <3>4
  <2> QED
    BY <1>1, <2>1, <2>2, <2>3
<1> QED
  BY <1>1, <1>2, <1>3 DEF FaultStep

(* A step begins an attempt, is a call of one, a call that fails, the end   *)
(* of the process, or nothing to the books.                                 *)
LEMMA Steps ==
  ASSUME Typed, IInv, [Next]_vars
  PROVE  \/ /\ faults' = faults
            /\ \/ QuietStep
               \/ \E w \in Workers : BeginStep(w) \/ Attempt(w) \/ GiveUp(w)
         \/ Dies /\ (Killed \/ faults' = faults + 1)
         \/ \E w \in Workers : FaultStep(w)
<1>2. ASSUME NEW s \in Submissions, Submit(s) \/ ReceiptLands(s)
      PROVE  faults' = faults /\ QuietStep
  BY <1>2, SubmitQuiet
     DEF Submit, RejectInvalid, IgnoreDuplicate, Accept, ReceiptLands, faultVars
<1>3. ASSUME NEW s \in Submissions, ReceiptFails(s) PROVE Dies /\ faults' = faults + 1
  BY <1>3 DEF ReceiptFails
<1>4. ASSUME NEW w \in Workers, Fault(w) PROVE FaultStep(w)
  BY <1>4, FaultSteps
<1>5. CASE Killed
  BY <1>5 DEF Killed
<1>6. ASSUME NEW w \in Workers, Work(w)
      PROVE  faults' = faults /\ (QuietStep \/ BeginStep(w) \/ Attempt(w) \/ GiveUp(w))
  <2>1. faults' = faults
    BY <1>6 DEF Work, Consume, TakeMessage, QueueDrained, Respond, Attempt,
       CreateLead, CreateLeadConflicts, SaveLeadEvent, SaveLeadEventConflicts,
       SaveSolarEstimate, SaveReplyDraft, SaveDraftAudit, SaveProcessedLog, Insert,
       GiveUp, SaveFailedLog, CreateDeadLetter, SaveDlqAudit, FinishReplay,
       MarkReplayed, SaveReplayAudit, faultVars
  <2>2. ASSUME w \in Consumers, QueueDrained(w) \/ Respond(w) PROVE QuietStep
    <3>1. /\ \E next \in {"respond", "done"} : Goto(w, next)
          /\ UNCHANGED <<workerVars, storeVars>> /\ pc[w] \in {"consume", "respond"}
      BY <2>2 DEF QueueDrained, Respond
    <3>2. pc[w] \notin Holding \cup {"done"}
      BY <3>1 DEF Holding, AttemptCalls
    <3> QED
      BY <3>1, <3>2, MoveQuiet
  <2> QED
    BY <1>6, <2>1, <2>2, TakeBegins, FinishReplayQuiet DEF Work, Consume
<1>7. ASSUME NEW w \in Replayers, Replay(w)
      PROVE  faults' = faults /\ (QuietStep \/ BeginStep(w)) /\ w \in Workers
  <2>1. CASE ReplayUnknown(w)
    <3>1. /\ Goto(w, "done") /\ UNCHANGED <<workerVars, storeVars>> /\ pc[w] = "idle"
          /\ faults' = faults /\ w \in Workers
      BY <2>1, Actors DEF ReplayUnknown, faultVars
    <3>2. pc[w] \notin Holding \cup {"done"}
      BY <3>1 DEF Holding, AttemptCalls
    <3> QED
      BY <3>1, <3>2, MoveQuiet
  <2>2. ASSUME NEW d \in DOMAIN deadLetters, NEW throws \in BOOLEAN,
               StartReplay(w, d, throws)
        PROVE  faults' = faults /\ BeginStep(w)
    BY <2>2, ReplayBegins DEF StartReplay, faultVars
  <2> QED
    BY <1>7, <2>1, <2>2, Actors DEF Replay
<1>8. CASE UNCHANGED vars
  BY <1>8 DEF vars, workerVars, storeVars, faultVars, QuietStep
<1> QED
  BY <1>2, <1>3, <1>4, <1>5, <1>6, <1>7, <1>8 DEF Next

(* As long as no store call fails.                                          *)
LEMMA StepKinds ==
  ASSUME Typed, IInv, [Next]_vars, faults' = 0
  PROVE  /\ faults = 0
         /\ \/ QuietStep \/ Killed
            \/ \E w \in Workers : BeginStep(w) \/ Attempt(w) \/ GiveUp(w)
<1>1. faults \in Nat
  BY TypedParts DEF Typed, RestTyped
<1>2. faults' # faults + 1
  BY <1>1
<1>3. Killed => faults' = faults
  BY DEF Killed
<1> QED
  BY <1>2, <1>3, Steps DEF FaultStep

-----------------------------------------------------------------------------
(* Counting workers                                                         *)

(* Finitely many requests have been made.                                   *)
LEMMA BusyFinite == Spec => []IsFiniteSet(Busy)
<1>1. Init => IsFiniteSet(Busy)
  <2>1. Init => Busy = {}
    BY Actors DEF Init, Busy
  <2> QED
    BY <2>1, FS_EmptySet
<1>2. Typed /\ IsFiniteSet(Busy) /\ [Next]_vars => IsFiniteSet(Busy)'
  <2> SUFFICES ASSUME Typed, IsFiniteSet(Busy), [Next]_vars PROVE IsFiniteSet(Busy')
    OBVIOUS
  <2>1. ASSUME NEW c \in Callers, NEW next, Goto(c, next) PROVE Busy' \subseteq Busy \cup {c}
    BY <2>1, PcFacts, Actors DEF Busy
  <2>2. \/ pc' = pc \/ Dies
        \/ \E c \in Callers, next \in Places : Goto(c, next)
    <3>1. ASSUME NEW s \in Submissions, Submit(s) \/ ReceiptLands(s) \/ ReceiptFails(s)
          PROVE  pc' = pc \/ Dies \/ \E next \in Places : Goto(s, next)
      BY <3>1 DEF Submit, RejectInvalid, IgnoreDuplicate, Accept, ReceiptLands,
         ReceiptFails, Places
    <3>2. ASSUME NEW w \in Workers, Work(w) \/ Fault(w)
          PROVE  \E next \in Places : Goto(w, next)
      <4>1. ASSUME w \in Consumers, Consume(w) PROVE \E next \in Places : Goto(w, next)
        BY <4>1, FirstCallPlace DEF Consume, TakeMessage, QueueDrained, Respond,
           Places, AttemptCalls, UnguardedCalls
      <4>2. ASSUME Attempt(w) PROVE \E next \in Places : Goto(w, next)
        BY <4>2 DEF Attempt, CreateLead, CreateLeadConflicts, SaveLeadEvent,
           SaveLeadEventConflicts, SaveSolarEstimate, SaveReplyDraft, SaveDraftAudit,
           SaveProcessedLog, Insert, Return, Places, AttemptCalls, UnguardedCalls
      <4>3. ASSUME GiveUp(w) PROVE \E next \in Places : Goto(w, next)
        BY <4>3, FirstCallPlace DEF GiveUp, SaveFailedLog, CreateDeadLetter,
           SaveDlqAudit, Return, AfterRetries, Places, AttemptCalls, UnguardedCalls
      <4>4. ASSUME FinishReplay(w) \/ Fault(w) PROVE \E next \in Places : Goto(w, next)
        BY <4>4 DEF FinishReplay, MarkReplayed, SaveReplayAudit, Fault,
           AttemptCallFails, UnguardedCallFails, Places, UnguardedCalls
      <4> QED
        BY <3>2, <4>1, <4>2, <4>3, <4>4 DEF Work
    <3>3. ASSUME NEW w \in Replayers, Replay(w) PROVE \E next \in Places : Goto(w, next)
      BY <3>3, FirstCallPlace DEF Replay, StartReplay, ReplayUnknown, Places,
         AttemptCalls, UnguardedCalls
    <3> QED
      BY <3>1, <3>2, <3>3, Actors DEF Next, Killed, vars
  <2>3. \E c : Busy' \subseteq Busy \cup {c}
    <3>1. CASE pc' = pc
      BY <3>1 DEF Busy
    <3>2. CASE Dies
      BY <3>2, Actors DEF Dies, Busy
    <3> QED
      BY <2>1, <2>2, <3>1, <3>2
  <2>4. PICK c : Busy' \subseteq Busy \cup {c}
    BY <2>3
  <2>5. IsFiniteSet(Busy \cup {c})
    BY FS_AddElement
  <2> QED
    BY <2>4, <2>5, FS_Subset
<1> QED
  BY <1>1, <1>2, TypeInvariant, PTL DEF Spec

LEMMA HoldersFinite ==
  ASSUME IsFiniteSet(Busy), NEW s, NEW P, "idle" \notin P
  PROVE  IsFiniteSet(Holders(s, P)) /\ Cardinality(Holders(s, P)) \in Nat
<1>1. Holders(s, P) \subseteq Busy
  BY DEF Holders, Busy
<1> QED
  BY <1>1, FS_Subset, FS_CardinalityType

LEMMA CutOffFinite ==
  ASSUME IsFiniteSet(Busy), NEW s
  PROVE  IsFiniteSet(CutOff(s)) /\ Cardinality(CutOff(s)) \in Nat
<1>1. CutOff(s) \subseteq Busy
  BY DEF CutOff, Busy
<1> QED
  BY <1>1, FS_Subset, FS_CardinalityType

(* When only w moves, the others that are held stay.                        *)
LEMMA HoldersMove ==
  ASSUME IsFiniteSet(Busy), NEW w \in Workers, Alone(w), NEW s, NEW P, "idle" \notin P
  PROVE  LET before == hands[w].of = s /\ pc[w] \in P
             after  == hands'[w].of = s /\ pc'[w] \in P
             n      == Cardinality(Holders(s, P))
             n2     == Cardinality(Holders(s, P)')
         IN  /\ n \in Nat /\ n2 \in Nat
             /\ (before <=> after) => n2 = n
             /\ ~before /\ after => n2 = n + 1
             /\ before /\ ~after => n = n2 + 1
<1>1. IsFiniteSet(Holders(s, P)) /\ Cardinality(Holders(s, P)) \in Nat
  BY HoldersFinite
<1>2. /\ w \in Holders(s, P) <=> hands[w].of = s /\ pc[w] \in P
      /\ w \in Holders(s, P)' <=> hands'[w].of = s /\ pc'[w] \in P
      /\ Holders(s, P) \ {w} = Holders(s, P)' \ {w}
  BY DEF Holders, Alone
<1>3. CASE w \in Holders(s, P) <=> w \in Holders(s, P)'
  <2>1. Holders(s, P)' = Holders(s, P)
    BY <1>2, <1>3
  <2> QED
    BY <1>1, <1>2, <1>3, <2>1
<1>4. CASE w \notin Holders(s, P) /\ w \in Holders(s, P)'
  <2>1. Holders(s, P)' = Holders(s, P) \cup {w}
    BY <1>2, <1>4
  <2>2. Cardinality(Holders(s, P)') = Cardinality(Holders(s, P)) + 1
    BY <1>1, <1>4, <2>1, FS_AddElement
  <2> QED
    BY <1>1, <1>2, <1>4, <2>2
<1>5. CASE w \in Holders(s, P) /\ w \notin Holders(s, P)'
  <2>1. Holders(s, P)' = Holders(s, P) \ {w}
    BY <1>2, <1>5
  <2>2. /\ Cardinality(Holders(s, P)') = Cardinality(Holders(s, P)) - 1
        /\ Cardinality(Holders(s, P)') \in Nat
    BY <1>1, <1>5, <2>1, FS_RemoveElement, FS_CardinalityType
  <2> QED
    BY <1>1, <1>2, <1>5, <2>2
<1> QED
  BY <1>3, <1>4, <1>5

(* The step of w leaves the two counts and w's part in between as they are, *)
(* or w's message enters, or it comes through.                              *)
EntryMove(w, s, P, a, b, a2, b2) ==
  \/ /\ a2 = a /\ b2 = b
     /\ (hands[w].of = s /\ pc[w] \in P) <=> (hands'[w].of = s /\ pc'[w] \in P)
  \/ /\ a2 = a + 1 /\ b2 = b
     /\ ~(hands[w].of = s /\ pc[w] \in P) /\ hands'[w].of = s /\ pc'[w] \in P
  \/ /\ a2 = a /\ b2 = b + 1
     /\ hands[w].of = s /\ pc[w] \in P /\ ~(hands'[w].of = s /\ pc'[w] \in P)

(* Then what one table has more than the next, over what is held in         *)
(* between, stays: a and b are the counts of the two, before and after.     *)
LEMMA EntryKept ==
  ASSUME IsFiniteSet(Busy), NEW w \in Workers, Alone(w), NEW s, NEW P, "idle" \notin P,
         NEW a \in Nat, NEW b \in Nat, NEW a2, NEW b2,
         EntryMove(w, s, P, a, b, a2, b2)
  PROVE  /\ Cardinality(Holders(s, P)) \in Nat /\ Cardinality(Holders(s, P)') \in Nat
         /\ a2 \in Nat /\ b2 \in Nat
         /\ a2 + b + Cardinality(Holders(s, P)) = a + b2 + Cardinality(Holders(s, P)')
<1> DEFINE n  == Cardinality(Holders(s, P))
           n2 == Cardinality(Holders(s, P)')
           before == hands[w].of = s /\ pc[w] \in P
           after  == hands'[w].of = s /\ pc'[w] \in P
<1>1. /\ n \in Nat /\ n2 \in Nat
      /\ (before <=> after) => n2 = n
      /\ ~before /\ after => n2 = n + 1
      /\ before /\ ~after => n = n2 + 1
  BY HoldersMove
<1>2. \/ a2 = a /\ b2 = b /\ (before <=> after)
      \/ a2 = a + 1 /\ b2 = b /\ ~before /\ after
      \/ a2 = a /\ b2 = b + 1 /\ before /\ ~after
  BY DEF EntryMove
<1> HIDE DEF n, n2
<1>3. a2 \in Nat /\ b2 \in Nat /\ a2 + b + n = a + b2 + n2
  BY <1>1, <1>2
<1> QED
  BY <1>1, <1>3 DEF n, n2

(* The call of w fails: what it held in between, if it did, is not held any *)
(* more, and has come through at most.                                      *)
EntryLoss(w, s, P, a, b, a2, b2) ==
  /\ ~(hands'[w].of = s /\ pc'[w] \in P)
  /\ a2 \in {a, a + 1} /\ b2 \in {b, b + 1}
  /\ a2 # a => ~(hands[w].of = s /\ pc[w] \in P)
  /\ b2 # b => hands[w].of = s /\ pc[w] \in P

LEMMA EntryLost ==
  ASSUME IsFiniteSet(Busy), NEW w \in Workers, Alone(w), NEW s, NEW P, "idle" \notin P,
         NEW a \in Nat, NEW b \in Nat, NEW a2, NEW b2,
         EntryLoss(w, s, P, a, b, a2, b2)
  PROVE  /\ Cardinality(Holders(s, P)) \in Nat /\ Cardinality(Holders(s, P)') \in Nat
         /\ a2 \in Nat /\ b2 \in Nat
         /\ a + b2 + Cardinality(Holders(s, P)') <= a2 + b + Cardinality(Holders(s, P))
         /\ a2 + b + Cardinality(Holders(s, P))
              <= a + b2 + Cardinality(Holders(s, P)') + 1
<1> DEFINE n  == Cardinality(Holders(s, P))
           n2 == Cardinality(Holders(s, P)')
           before == hands[w].of = s /\ pc[w] \in P
           after  == hands'[w].of = s /\ pc'[w] \in P
<1>1. /\ n \in Nat /\ n2 \in Nat
      /\ (before <=> after) => n2 = n
      /\ before /\ ~after => n = n2 + 1
  BY HoldersMove
<1>2. /\ ~after
      /\ a2 \in {a, a + 1} /\ b2 \in {b, b + 1}
      /\ a2 # a => ~before
      /\ b2 # b => before
  BY DEF EntryLoss
<1> HIDE DEF n, n2
<1>3. /\ a2 \in Nat /\ b2 \in Nat
      /\ a + b2 + n2 <= a2 + b + n /\ a2 + b + n <= a + b2 + n2 + 1
  BY <1>1, <1>2
<1> QED
  BY <1>1, <1>3 DEF n, n2

(* A quiet step leaves everybody at his call.                               *)
LEMMA QuietHolders ==
  ASSUME QuietStep, NEW s, NEW P \in SUBSET Holding
  PROVE  Holders(s, P)' = Holders(s, P)
BY DEF QuietStep, Holders

(* The handlers that went down with their process stay what they are, and   *)
(* at the end of one those that are under way become some of them.          *)
LEMMA CutOffGrows ==
  ASSUME Typed, IInv, Endings, [Next]_vars, IsFiniteSet(Busy)', NEW s
  PROVE  /\ CutOff(s) \subseteq CutOff(s)' /\ Cardinality(CutOff(s)') \in Nat
         /\ Cardinality(CutOff(s)) <= Cardinality(CutOff(s)')
<1>1. CutOff(s) \subseteq CutOff(s)'
  BY DoneForGood DEF CutOff, Stays
<1>2. IsFiniteSet(CutOff(s)')
  <2>1. CutOff(s)' \subseteq Busy'
    BY DEF CutOff, Busy
  <2> QED
    BY <2>1, FS_Subset
<1> QED
  BY <1>1, <1>2, FS_Subset, FS_CardinalityType

LEMMA DeathCut ==
  ASSUME Typed, IInv, Endings, [Next]_vars, Dies, IsFiniteSet(Busy), IsFiniteSet(Busy)',
         NEW s, NEW P \in SUBSET Holding
  PROVE  /\ Holders(s, P)' = {} /\ Cardinality(Holders(s, P)) \in Nat
         /\ Cardinality(CutOff(s)) \in Nat /\ Cardinality(CutOff(s)') \in Nat
         /\ Cardinality(Holders(s, P)) + Cardinality(CutOff(s)) <= Cardinality(CutOff(s)')
<1>1. /\ hands' = hands
      /\ \A w \in Workers :
           pc[w] \notin {"idle", "done"} =>
             pc'[w] = "done" /\ response'[w].status = "connection_lost"
      /\ \A w \in Workers : pc'[w] \in {"idle", "done"}
  BY Actors DEF Dies, workerVars, NoResponse
<1>2. "idle" \notin P /\ "done" \notin P
  BY DEF Holding, AttemptCalls
<1>3. Holders(s, P)' = {}
  BY <1>1, <1>2 DEF Holders
<1>4. Holders(s, P) \cup CutOff(s) \subseteq CutOff(s)'
  BY <1>1, <1>2, CutOffGrows DEF Holders, CutOff
<1>5. Holders(s, P) \cap CutOff(s) = {}
  BY <1>2 DEF Holders, CutOff
<1>6. /\ IsFiniteSet(Holders(s, P)) /\ Cardinality(Holders(s, P)) \in Nat
      /\ IsFiniteSet(CutOff(s)) /\ Cardinality(CutOff(s)) \in Nat
  BY <1>2, HoldersFinite, CutOffFinite
<1>7. IsFiniteSet(CutOff(s)')
  <2>1. CutOff(s)' \subseteq Busy'
    BY DEF CutOff, Busy
  <2> QED
    BY <2>1, FS_Subset
<1>8. Cardinality(Holders(s, P) \cup CutOff(s)) <= Cardinality(CutOff(s)')
      /\ Cardinality(CutOff(s)') \in Nat
  BY <1>4, <1>7, FS_Subset, FS_CardinalityType
<1>9. Cardinality(Holders(s, P) \cup CutOff(s))
        = Cardinality(Holders(s, P)) + Cardinality(CutOff(s))
  <2> DEFINE H == Holders(s, P)
             C == CutOff(s)
  <2>1. /\ IsFiniteSet(H) /\ IsFiniteSet(C) /\ H \cap C = {}
        /\ Cardinality(H) \in Nat /\ Cardinality(C) \in Nat
    BY <1>5, <1>6
  <2> HIDE DEF H, C
  <2>2. Cardinality(H \cup C) = Cardinality(H) + Cardinality(C) - Cardinality(H \cap C)
    BY <2>1, FS_Union
  <2>3. Cardinality(H \cap C) = 0
    BY <2>1, FS_EmptySet
  <2>4. Cardinality(H \cup C) = Cardinality(H) + Cardinality(C)
    BY <2>1, <2>2, <2>3
  <2> QED
    BY <2>4 DEF H, C
<1> QED
  BY <1>3, <1>6, <1>8, <1>9

-----------------------------------------------------------------------------
(* The calls of an attempt                                                  *)

(* Worker w's call of table t is answered; it goes on to place u with the   *)
(* message it has, or lets it go.                                           *)
Call(w, t, u) ==
  /\ Alone(w) /\ pc[w] = t /\ pc'[w] = u /\ hands[w] \in Messages
  /\ IF u \in Holding THEN hands'[w] = hands[w] ELSE hands'[w] = NoMessage
  /\ u # "done" /\ u # "idle"

LEMMA WrittenWrote ==
  ASSUME Typed, NEW t \in Tables, NEW h \in Submissions, rows' = Written(t, h)
  PROVE  Wrote(t, h)
BY StoreTyped, WrittenFacts DEF Wrote

LEMMA CallFacts ==
  ASSUME Typed, NEW w \in Workers, NEW t \in Holding, NEW u \in Holding, pc[w] = t,
         Goto(w, u), hands' = hands, target' = target,
         \A v \in Workers \ {w} : attempt'[v] = attempt[v]
  PROVE  Call(w, t, u)
<1>1. pc'[w] = u /\ \A c \in Callers \ {w} : pc'[c] = pc[c]
  BY PcFacts, Actors
<1>2. hands[w] \in Messages
  BY DEF Typed, HandlersTyped
<1>3. u # "done" /\ u # "idle"
  BY DEF Holding, AttemptCalls
<1> QED
  BY <1>1, <1>2, <1>3, Actors DEF Call, Alone

LEMMA ReturnCall ==
  ASSUME Typed, NEW w \in Workers, NEW t \in Holding, pc[w] = t, NEW status,
         Return(w, status), UNCHANGED <<attempt, target>>
  PROVE  \E u \in {"consume", "mark_replayed"} : Call(w, t, u)
<1>1. /\ hands'[w] = NoMessage /\ \A v \in Workers \ {w} : hands'[v] = hands[v]
      /\ pc'[w] \in {"consume", "mark_replayed"}
      /\ \A c \in Callers \ {w} : pc'[c] = pc[c]
  BY ReturnFacts
<1>2. hands[w] \in Messages
  BY DEF Typed, HandlersTyped
<1>3. {"consume", "mark_replayed"} \cap Holding = {}
  BY DEF Holding, AttemptCalls
<1> QED
  BY <1>1, <1>2, <1>3, Actors DEF Call, Alone

(* The calls of an attempt, in program order.                               *)
LEMMA AttemptCall ==
  ASSUME Typed, NEW w \in Workers, Attempt(w)
  PROVE  \E h \in Submissions :
           /\ h = hands[w].of /\ deadLetters' = deadLetters /\ attempt' = attempt
           /\ target' = target
           /\ \/ /\ Call(w, "leads", "lead_events") /\ Wrote("leads", h)
                 /\ ~LeadIdTaken(h)
              \/ Call(w, "leads", "failed") /\ rows' = rows /\ LeadIdTaken(h)
              \/ Call(w, "lead_events", "solar_estimates") /\ Wrote("lead_events", h)
              \/ /\ Call(w, "lead_events", "solar_estimates") /\ rows' = rows
                 /\ Adapter = "postgres"
              \/ Call(w, "solar_estimates", "reply_drafts") /\ Wrote("solar_estimates", h)
              \/ Call(w, "reply_drafts", "draft_audit") /\ Wrote("reply_drafts", h)
              \/ Call(w, "draft_audit", "processed") /\ Wrote("draft_audit", h)
              \/ \E u \in {"consume", "mark_replayed"} :
                   Call(w, "processed", u) /\ Wrote("processed", h)
<1>1. pc[w] \in AttemptCalls
  BY DEF Attempt, CreateLead, CreateLeadConflicts, SaveLeadEvent,
         SaveLeadEventConflicts, SaveSolarEstimate, SaveReplyDraft, SaveDraftAudit,
         SaveProcessedLog, Insert, AttemptCalls
<1>2. PICK h \in Submissions : h = hands[w].of
  BY <1>1 DEF Typed, HandlersTyped, Holding, Messages
<1>3. /\ AttemptCalls \subseteq Tables /\ AttemptCalls \subseteq Holding
      /\ "failed" \in Holding
  BY DEF Tables, Holding
<1>4. deadLetters' = deadLetters /\ attempt' = attempt /\ target' = target
  BY DEF Attempt, CreateLead, CreateLeadConflicts, SaveLeadEvent,
         SaveLeadEventConflicts, SaveSolarEstimate, SaveReplyDraft, SaveDraftAudit,
         SaveProcessedLog, Insert, workerVars, storeVars
<1>5. ASSUME NEW t \in AttemptCalls, NEW u \in AttemptCalls, Insert(w, t, u)
      PROVE  Call(w, t, u) /\ Wrote(t, h)
  BY <1>2, <1>3, <1>5, CallFacts, WrittenWrote DEF Insert, workerVars
<1>6. CASE CreateLead(w)
  BY <1>2, <1>4, <1>5, <1>6 DEF CreateLead, AttemptCalls
<1>7. CASE CreateLeadConflicts(w)
  BY <1>1, <1>2, <1>3, <1>4, <1>7, CallFacts
     DEF CreateLeadConflicts, workerVars, storeVars, AttemptCalls
<1>8. CASE SaveLeadEvent(w)
  BY <1>2, <1>4, <1>5, <1>8 DEF SaveLeadEvent, AttemptCalls
<1>9. CASE SaveLeadEventConflicts(w)
  <2>1. Call(w, "lead_events", "solar_estimates")
    BY <1>3, <1>9, CallFacts DEF SaveLeadEventConflicts, workerVars, AttemptCalls
  <2>2. rows' = rows /\ Adapter = "postgres"
    BY <1>9 DEF SaveLeadEventConflicts, storeVars, EventIdTaken
  <2> QED
    BY <1>2, <1>4, <2>1, <2>2
<1>10. CASE SaveSolarEstimate(w)
  <2>1. Call(w, "solar_estimates", "reply_drafts")
    BY <1>3, <1>10, CallFacts DEF SaveSolarEstimate, workerVars, AttemptCalls
  <2>2. Wrote("solar_estimates", h)
    BY <1>2, <1>3, <1>10, WrittenWrote DEF SaveSolarEstimate, AttemptCalls
  <2> QED
    BY <1>2, <1>4, <2>1, <2>2
<1>11. CASE SaveReplyDraft(w)
  BY <1>2, <1>4, <1>5, <1>11 DEF SaveReplyDraft, AttemptCalls
<1>12. CASE SaveDraftAudit(w)
  BY <1>2, <1>4, <1>5, <1>12 DEF SaveDraftAudit, AttemptCalls
<1>13. CASE SaveProcessedLog(w)
  <2>1. \E u \in {"consume", "mark_replayed"} : Call(w, "processed", u)
    BY <1>3, <1>13, ReturnCall DEF SaveProcessedLog, AttemptCalls
  <2>2. Wrote("processed", h)
    BY <1>2, <1>3, <1>13, WrittenWrote DEF SaveProcessedLog, AttemptCalls
  <2> QED
    BY <1>2, <1>4, <2>1, <2>2
<1> QED
  BY <1>6, <1>7, <1>8, <1>9, <1>10, <1>11, <1>12, <1>13 DEF Attempt

(* The calls after an attempt has failed.                                   *)
LEMMA GiveUpCall ==
  ASSUME Typed, NEW w \in Workers, GiveUp(w)
  PROVE  \E h \in Submissions :
           /\ h = hands[w].of /\ target' = target
           /\ \/ /\ Call(w, "failed", FirstCall(hands[w])) /\ Wrote("failed", h)
                 /\ attempt[w] < MaxRetries /\ attempt'[w] = attempt[w] + 1
                 /\ deadLetters' = deadLetters
              \/ /\ Call(w, "failed", "dead_letters") /\ Wrote("failed", h)
                 /\ ~(attempt[w] < MaxRetries) /\ attempt' = attempt
                 /\ deadLetters' = deadLetters
              \/ /\ Call(w, "dead_letters", "dlq_audit") /\ rows' = rows
                 /\ attempt' = attempt
                 /\ deadLetters' = Append(deadLetters, DeadLetter(hands[w]))
              \/ \E u \in {"consume", "mark_replayed"} :
                   /\ Call(w, "dlq_audit", u) /\ Wrote("dlq_audit", h)
                   /\ attempt' = attempt /\ deadLetters' = deadLetters
<1>1. pc[w] \in {"failed", "dead_letters", "dlq_audit"}
  BY DEF GiveUp, SaveFailedLog, CreateDeadLetter, SaveDlqAudit
<1>2. PICK h \in Submissions : h = hands[w].of
  BY <1>1 DEF Typed, HandlersTyped, Holding, Messages
<1>3. /\ {"failed", "dlq_audit"} \subseteq Tables
      /\ {"failed", "leads", "dead_letters", "dlq_audit"} \subseteq Holding
  BY DEF Tables, Holding, AttemptCalls
<1>4. attempt \in [Workers -> 0 .. MaxRetries]
  BY TypedParts DEF Typed, RestTyped
<1>5. CASE SaveFailedLog(w)
  <2>1. /\ pc[w] = "failed" /\ rows' = Written("failed", h)
        /\ hands' = hands /\ target' = target /\ deadLetters' = deadLetters
    BY <1>2, <1>5 DEF SaveFailedLog
  <2>2. Wrote("failed", h)
    BY <1>3, <2>1, WrittenWrote
  <2>3. CASE attempt[w] < MaxRetries
    <3>1. /\ attempt' = [attempt EXCEPT ![w] = attempt[w] + 1]
          /\ Goto(w, FirstCall(hands[w]))
      BY <1>5, <2>3 DEF SaveFailedLog, MoreAttempts
    <3>2. /\ attempt'[w] = attempt[w] + 1
          /\ \A v \in Workers \ {w} : attempt'[v] = attempt[v]
      BY <1>4, <3>1
    <3>3. Call(w, "failed", FirstCall(hands[w]))
      BY <1>3, <2>1, <3>1, <3>2, FirstCallPlace, CallFacts
    <3> QED
      BY <1>2, <2>1, <2>2, <2>3, <3>2, <3>3
  <2>4. CASE ~(attempt[w] < MaxRetries)
    <3>1. attempt' = attempt /\ Goto(w, "dead_letters")
      BY <1>5, <2>4 DEF SaveFailedLog, MoreAttempts, AfterRetries
    <3>2. Call(w, "failed", "dead_letters")
      BY <1>3, <2>1, <3>1, CallFacts
    <3> QED
      BY <1>2, <2>1, <2>2, <2>4, <3>1, <3>2
  <2> QED
    BY <2>3, <2>4
<1>6. CASE CreateDeadLetter(w)
  BY <1>2, <1>3, <1>6, CallFacts DEF CreateDeadLetter, workerVars
<1>7. CASE SaveDlqAudit(w)
  <2>1. \E u \in {"consume", "mark_replayed"} : Call(w, "dlq_audit", u)
    BY <1>3, <1>7, ReturnCall DEF SaveDlqAudit
  <2>2. Wrote("dlq_audit", h)
    BY <1>2, <1>3, <1>7, WrittenWrote DEF SaveDlqAudit
  <2> QED
    BY <1>2, <1>7, <2>1, <2>2 DEF SaveDlqAudit
<1> QED
  BY <1>5, <1>6, <1>7 DEF GiveUp

-----------------------------------------------------------------------------
(* All the rows of an attempt, or none                                      *)

(* What an attempt has begun and not yet finished.                          *)
Midway == {"lead_events", "solar_estimates", "reply_drafts", "draft_audit", "processed"}

(* The tables of an attempt with what is held between them.                 *)
Between ==
  {<<"leads", "processed", Midway>>,
   <<"leads", "solar_estimates", {"lead_events", "solar_estimates"}>>,
   <<"solar_estimates", "reply_drafts", {"reply_drafts"}>>,
   <<"reply_drafts", "draft_audit", {"draft_audit"}>>,
   <<"draft_audit", "processed", {"processed"}>>}
  \cup (IF Adapter = "memory"
        THEN {<<"leads", "lead_events", {"lead_events"}>>,
              <<"lead_events", "solar_estimates", {"solar_estimates"}>>}
        ELSE {})

(* A table has what the next has and what is held in between, or more.      *)
Chain(e, s) == rows[e[2]][s] + Cardinality(Holders(s, e[3])) <= rows[e[1]][s]

(* A lead was processed, or its attempt is in the middle, went down with    *)
(* its process or had a store call fail.                                    *)
LeadsSpent(s) ==
  rows["leads"][s] <= rows["processed"][s] + Cardinality(Holders(s, Midway))
                        + Cardinality(CutOff(s)) + faults

Chained == \A s \in Submissions : LeadsSpent(s) /\ \A e \in Between : Chain(e, s)

(* A call of table t moves its message on, for two tables early and late    *)
(* that fit the program's order.                                            *)
LEMMA WritingMoves ==
  ASSUME NEW w \in Workers, NEW t \in Tables, NEW u, Call(w, t, u), Wrote(t, hands[w].of),
         NEW P \in SUBSET Holding, NEW early \in Tables, NEW late \in Tables \ {early},
         t = early => t \notin P /\ u \in P,
         t = late => t \in P /\ u \notin P,
         t \notin {early, late} => (t \in P <=> u \in P),
         NEW s \in Submissions
  PROVE  EntryMove(w, s, P, rows[early][s], rows[late][s], rows'[early][s], rows'[late][s])
<1>1. hands'[w] = hands[w] \/ (u \notin P /\ hands'[w].of \notin Submissions)
  BY NoMessageOf DEF Call
<1>2. pc[w] = t /\ pc'[w] = u
  BY DEF Call
<1>3. CASE hands[w].of # s
  <2>1. rows'[early][s] = rows[early][s] /\ rows'[late][s] = rows[late][s]
    BY <1>3 DEF Wrote
  <2> QED
    BY <1>1, <1>2, <1>3, <2>1 DEF EntryMove
<1>4. CASE hands[w].of = s
  <2>1. /\ rows'[early][s] = IF t = early THEN rows[early][s] + 1 ELSE rows[early][s]
        /\ rows'[late][s] = IF t = late THEN rows[late][s] + 1 ELSE rows[late][s]
    BY <1>4 DEF Wrote
  <2> QED
    BY <1>1, <1>2, <1>4, <2>1 DEF EntryMove
<1> QED
  BY <1>3, <1>4

LEMMA KeepingMoves ==
  ASSUME NEW w \in Workers, NEW t, NEW u, Call(w, t, u), NEW P \in SUBSET Holding,
         t \in P <=> u \in P, NEW s \in Submissions, NEW early, NEW late,
         rows'[early][s] = rows[early][s], rows'[late][s] = rows[late][s]
  PROVE  EntryMove(w, s, P, rows[early][s], rows[late][s], rows'[early][s], rows'[late][s])
<1>1. hands'[w] = hands[w] \/ (u \notin P /\ hands'[w].of \notin Submissions)
  BY NoMessageOf DEF Call
<1> QED
  BY <1>1 DEF Call, EntryMove

(* A call of an attempt moves its message on by one table.                  *)
LEMMA CallMoves ==
  ASSUME Typed, NEW w \in Workers, Attempt(w) \/ GiveUp(w), NEW s \in Submissions,
         NEW e \in Between
  PROVE  /\ Alone(w) /\ pc[w] # "done"
         /\ EntryMove(w, s, e[3], rows[e[1]][s], rows[e[2]][s],
                      rows'[e[1]][s], rows'[e[2]][s])
<1> DEFINE early == e[1]
           late == e[2]
           P == e[3]
           Kept == \A t \in AttemptCalls, x \in Submissions : rows'[t][x] = rows[t][x]
           Quits == {"leads", "failed", "dead_letters", "dlq_audit"}
<1>0. \/ early = "leads" /\ late = "processed"
         /\ P = {"lead_events", "solar_estimates", "reply_drafts", "draft_audit",
                 "processed"}
      \/ early = "leads" /\ late = "solar_estimates"
         /\ P = {"lead_events", "solar_estimates"}
      \/ early = "solar_estimates" /\ late = "reply_drafts" /\ P = {"reply_drafts"}
      \/ early = "reply_drafts" /\ late = "draft_audit" /\ P = {"draft_audit"}
      \/ early = "draft_audit" /\ late = "processed" /\ P = {"processed"}
      \/ /\ early = "leads" /\ late = "lead_events" /\ P = {"lead_events"}
         /\ Adapter = "memory"
      \/ /\ early = "lead_events" /\ late = "solar_estimates" /\ P = {"solar_estimates"}
         /\ Adapter = "memory"
  BY DEF Between, Midway
<1> HIDE DEF early, late, P
<1>1. /\ early \in AttemptCalls /\ late \in AttemptCalls \ {early}
      /\ P \in SUBSET Holding /\ AttemptCalls \subseteq Tables
  BY <1>0 DEF AttemptCalls, Holding, Tables
<1>2. ASSUME NEW t \in Quits, NEW u \in Quits \cup {"consume", "mark_replayed"},
             Call(w, t, u), Kept
      PROVE  EntryMove(w, s, P, rows[early][s], rows[late][s],
                       rows'[early][s], rows'[late][s])
  <2>1. t \in P <=> u \in P
    BY <1>0
  <2> QED
    BY <1>1, <1>2, <2>1, KeepingMoves
<1>3. CASE Attempt(w)
  <2> DEFINE Order == {<<"leads", "lead_events">>, <<"lead_events", "solar_estimates">>,
                       <<"solar_estimates", "reply_drafts">>,
                       <<"reply_drafts", "draft_audit">>, <<"draft_audit", "processed">>,
                       <<"processed", "consume">>, <<"processed", "mark_replayed">>}
             Went(t, u) == Call(w, t, u) /\ Wrote(t, hands[w].of) /\ <<t, u>> \in Order
  <2>1. \/ \E t \in AttemptCalls, u \in Places : Went(t, u)
        \/ Call(w, "leads", "failed") /\ Kept
        \/ Call(w, "lead_events", "solar_estimates") /\ Kept /\ Adapter = "postgres"
    BY <1>3, AttemptCall DEF AttemptCalls, Places, UnguardedCalls
  <2>2. ASSUME NEW t \in AttemptCalls, NEW u \in Places, Went(t, u)
        PROVE  EntryMove(w, s, P, rows[early][s], rows[late][s],
                         rows'[early][s], rows'[late][s])
    <3>1. /\ t = early => t \notin P /\ u \in P
          /\ t = late => t \in P /\ u \notin P
          /\ t \notin {early, late} => (t \in P <=> u \in P)
      BY <1>0, <2>2
    <3>2. t \in Tables /\ early \in Tables /\ late \in Tables \ {early}
      BY <1>1
    <3> QED
      BY <1>1, <2>2, <3>1, <3>2, WritingMoves
  <2>3. ASSUME Call(w, "lead_events", "solar_estimates"), Kept, Adapter = "postgres"
        PROVE  EntryMove(w, s, P, rows[early][s], rows[late][s],
                         rows'[early][s], rows'[late][s])
    <3>1. "lead_events" \in P <=> "solar_estimates" \in P
      BY <1>0, <2>3
    <3> QED
      BY <1>1, <2>3, <3>1, KeepingMoves
  <2> QED
    BY <1>2, <2>1, <2>2, <2>3 DEF Call, P, early, late
<1>4. CASE GiveUp(w)
  <2>1. \A t \in {"failed", "dlq_audit"}, x \in Submissions : Wrote(t, x) => Kept
    BY DEF Wrote, Tables, AttemptCalls
  <2>2. rows' = rows => Kept
    OBVIOUS
  <2>3. FirstCall(hands[w]) \in Quits
    BY FirstCallPlace
  <2> HIDE DEF Kept
  <2>4. \E t \in Quits, u \in Quits \cup {"consume", "mark_replayed"} :
          Call(w, t, u) /\ Kept
    BY <1>4, <2>1, <2>2, <2>3, GiveUpCall
  <2> QED
    BY <1>2, <2>4 DEF Call, P, early, late
<1> QED
  BY <1>3, <1>4

LEMMA BetweenFacts ==
  ASSUME NEW e \in Between
  PROVE  e[1] \in Tables /\ e[2] \in Tables /\ e[3] \in SUBSET Holding
BY DEF Between, Midway, Tables, Holding, AttemptCalls

(* A call that fails leaves the chain: its row may be there, and nobody     *)
(* goes on from it.                                                         *)
LEMMA FaultLoses ==
  ASSUME Typed, NEW w \in Workers, FaultStep(w), NEW s \in Submissions, NEW e \in Between
  PROVE  EntryLoss(w, s, e[3], rows[e[1]][s], rows[e[2]][s], rows'[e[1]][s], rows'[e[2]][s])
<1> DEFINE early == e[1]
           late == e[2]
           P == e[3]
<1>1. /\ early \in AttemptCalls \ P /\ late \in P
      /\ "failed" \notin P /\ "done" \notin P /\ AttemptCalls \subseteq Tables \ {"replay_audit"}
  BY DEF Between, Midway, AttemptCalls, Tables
<1> HIDE DEF early, late, P
<1>2. late \in AttemptCalls
  BY DEF Between, AttemptCalls, late
<1>3. rows[early][s] \in Nat /\ rows[late][s] \in Nat
  BY <1>1, <1>2, StoreTyped
<1>4. pc'[w] \notin P
  BY <1>1 DEF FaultStep
<1>5. CASE \A t \in Tables \ {"replay_audit"} : rows'[t] = rows[t]
  <2>1. rows'[early] = rows[early] /\ rows'[late] = rows[late]
    BY <1>1, <1>2, <1>5
  <2> QED
    BY <1>3, <1>4, <2>1 DEF EntryLoss, early, late, P
<1>6. CASE Wrote(pc[w], hands[w].of)
  <2>1. /\ rows'[early][s] = IF early = pc[w] /\ s = hands[w].of THEN rows[early][s] + 1
                             ELSE rows[early][s]
        /\ rows'[late][s] = IF late = pc[w] /\ s = hands[w].of THEN rows[late][s] + 1
                            ELSE rows[late][s]
    BY <1>1, <1>2, <1>6 DEF Wrote
  <2>2. EntryLoss(w, s, P, rows[early][s], rows[late][s], rows'[early][s], rows'[late][s])
    BY <1>1, <1>3, <1>4, <2>1 DEF EntryLoss
  <2> QED
    BY <2>2 DEF early, late, P
<1> QED
  BY <1>5, <1>6 DEF FaultStep

LEMMA ChainedKept ==
  ASSUME Typed, IInv, Endings, IsFiniteSet(Busy), IsFiniteSet(Busy)', Chained, [Next]_vars
  PROVE  Chained'
<1> SUFFICES ASSUME NEW s \in Submissions
             PROVE  LeadsSpent(s)' /\ \A e \in Between : Chain(e, s)'
  BY DEF Chained, Between
<1> DEFINE whole == <<"leads", "processed", Midway>>
           N(e)  == Cardinality(Holders(s, e[3]))
           N2(e) == Cardinality(Holders(s, e[3])')
           C  == Cardinality(CutOff(s))
           C2 == Cardinality(CutOff(s)')
<1>1. LeadsSpent(s) /\ \A e \in Between : Chain(e, s)
  BY DEF Chained
<1>2. /\ whole \in Between /\ Midway \in SUBSET Holding
      /\ \A e \in Between : "idle" \notin e[3]
  BY DEF Between, Midway, Holding, AttemptCalls
<1>3. /\ \A e \in Between : rows[e[1]][s] \in Nat /\ rows[e[2]][s] \in Nat
      /\ rows["leads"][s] \in Nat /\ rows["processed"][s] \in Nat /\ faults \in Nat
  BY BetweenFacts, StoreTyped, TypedParts DEF Tables, AttemptCalls, Typed, RestTyped
<1>4. C \in Nat /\ C2 \in Nat /\ C <= C2
  BY CutOffFinite, CutOffGrows
<1>5. \A e \in Between : N(e) \in Nat
  BY <1>2, HoldersFinite
<1>6. /\ rows["leads"][s] <= rows["processed"][s] + N(whole) + C + faults
      /\ \A e \in Between : rows[e[2]][s] + N(e) <= rows[e[1]][s]
  BY <1>1 DEF LeadsSpent, Chain
<1>7. ASSUME /\ rows'["leads"][s] <= rows'["processed"][s] + N2(whole) + C2 + faults'
             /\ \A e \in Between : rows'[e[2]][s] + N2(e) <= rows'[e[1]][s]
      PROVE  LeadsSpent(s)' /\ \A e \in Between : Chain(e, s)'
  BY <1>7 DEF LeadsSpent, Chain
<1>8. ASSUME \A e \in Between :
               /\ N2(e) \in Nat /\ rows'[e[1]][s] \in Nat /\ rows'[e[2]][s] \in Nat
               /\ rows'[e[1]][s] + rows[e[2]][s] + N(e) = rows[e[1]][s] + rows'[e[2]][s] + N2(e),
             faults' = faults
      PROVE  LeadsSpent(s)' /\ \A e \in Between : Chain(e, s)'
  <2>1. \A e \in Between : rows'[e[2]][s] + N2(e) <= rows'[e[1]][s]
    <3> SUFFICES ASSUME NEW e \in Between PROVE rows'[e[2]][s] + N2(e) <= rows'[e[1]][s]
      OBVIOUS
    <3> DEFINE a == rows[e[1]][s]
               b == rows[e[2]][s]
               a2 == rows'[e[1]][s]
               b2 == rows'[e[2]][s]
               n == N(e)
               n2 == N2(e)
    <3>1. /\ a \in Nat /\ b \in Nat /\ a2 \in Nat /\ b2 \in Nat /\ n \in Nat /\ n2 \in Nat
          /\ b + n <= a /\ a2 + b + n = a + b2 + n2
      BY <1>3, <1>5, <1>6, <1>8
    <3> HIDE DEF a, b, a2, b2, n, n2
    <3>2. b2 + n2 <= a2
      BY <3>1
    <3> QED
      BY <3>2 DEF a2, b2, n2
  <2>2. rows'["leads"][s] <= rows'["processed"][s] + N2(whole) + C2 + faults'
    <3> DEFINE a == rows["leads"][s]
               b == rows["processed"][s]
               a2 == rows'["leads"][s]
               b2 == rows'["processed"][s]
               n == N(whole)
               n2 == N2(whole)
    <3>1. /\ a \in Nat /\ b \in Nat /\ a2 \in Nat /\ b2 \in Nat /\ n \in Nat /\ n2 \in Nat
          /\ a <= b + n + C + faults /\ a2 + b + n = a + b2 + n2
      BY <1>2, <1>3, <1>5, <1>6, <1>8
    <3> HIDE DEF a, b, a2, b2, n, n2, C, C2
    <3>2. a2 <= b2 + n2 + C2 + faults'
      BY <1>3, <1>4, <1>8, <3>1
    <3> QED
      BY <3>2 DEF a2, b2, n2
  <2> QED
    BY <1>7, <2>1, <2>2
<1>9. CASE QuietStep /\ faults' = faults
  <2> SUFFICES ASSUME NEW e \in Between
               PROVE
        /\ N2(e) \in Nat /\ rows'[e[1]][s] \in Nat /\ rows'[e[2]][s] \in Nat
        /\ rows'[e[1]][s] + rows[e[2]][s] + N(e) = rows[e[1]][s] + rows'[e[2]][s] + N2(e)
    BY <1>8, <1>9
  <2>1. e[1] \notin {"received", "replay_audit"} /\ e[2] \notin {"received", "replay_audit"}
    BY DEF Between
  <2>2. Holders(s, e[3])' = Holders(s, e[3])
    BY <1>9, BetweenFacts, QuietHolders
  <2>3. rows'[e[1]] = rows[e[1]] /\ rows'[e[2]] = rows[e[2]]
    BY <1>9, <2>1, BetweenFacts DEF QuietStep
  <2> QED
    BY <1>3, <1>5, <2>2, <2>3
<1>10. CASE Dies /\ (Killed \/ faults' = faults + 1)
  <2>1. rows' = rows /\ faults' >= faults /\ faults' \in Nat
    BY <1>3, <1>10 DEF Dies, storeVars, Killed
  <2>2. \A e \in Between : N2(e) = 0
    BY <1>10, BetweenFacts, DeathCut, FS_EmptySet
  <2>3. \A e \in Between : rows'[e[2]][s] + N2(e) <= rows'[e[1]][s]
    BY <1>3, <1>5, <1>6, <2>1, <2>2
  <2>4. N(whole) + C <= C2
    BY <1>2, <1>10, DeathCut
  <2>5. rows'["leads"][s] <= rows'["processed"][s] + N2(whole) + C2 + faults'
    <3> DEFINE n == N(whole)
    <3>1. n \in Nat /\ n + C <= C2 /\ N2(whole) = 0
          /\ rows["leads"][s] <= rows["processed"][s] + n + C + faults
      BY <1>2, <1>5, <1>6, <2>2, <2>4
    <3> HIDE DEF n, C, C2
    <3>2. rows["leads"][s] <= rows["processed"][s] + C2 + faults'
      BY <1>3, <1>4, <2>1, <3>1
    <3> QED
      BY <1>3, <1>4, <2>1, <3>1, <3>2
  <2> QED
    BY <1>7, <2>3, <2>5
<1>11. ASSUME NEW w \in Workers, BeginStep(w) \/ Attempt(w) \/ GiveUp(w), faults' = faults
       PROVE  LeadsSpent(s)' /\ \A e \in Between : Chain(e, s)'
  <2>1. ASSUME NEW e \in Between
        PROVE  Alone(w) /\ EntryMove(w, s, e[3], rows[e[1]][s], rows[e[2]][s],
                                     rows'[e[1]][s], rows'[e[2]][s])
    <3>1. CASE BeginStep(w)
      <4>1. /\ Alone(w) /\ hands[w] = NoMessage /\ rows' = rows
            /\ pc'[w] \in {"failed", "leads"}
        BY <3>1, FirstCallPlace DEF BeginStep, storeVars
      <4>2. pc'[w] \notin e[3] /\ hands[w].of # s
        BY <4>1, NoMessageOf DEF Between, Midway
      <4> QED
        BY <4>1, <4>2 DEF EntryMove
    <3>2. CASE Attempt(w) \/ GiveUp(w)
      BY <3>2, CallMoves
    <3> QED
      BY <1>11, <3>1, <3>2
  <2>2. ASSUME NEW e \in Between
        PROVE
          /\ N2(e) \in Nat /\ rows'[e[1]][s] \in Nat /\ rows'[e[2]][s] \in Nat
          /\ rows'[e[1]][s] + rows[e[2]][s] + N(e) = rows[e[1]][s] + rows'[e[2]][s] + N2(e)
    BY <1>2, <1>3, <2>1, EntryKept
  <2> QED
    BY <1>8, <1>11, <2>2
<1>12. ASSUME NEW w \in Workers, FaultStep(w)
       PROVE  LeadsSpent(s)' /\ \A e \in Between : Chain(e, s)'
  <2>1. ASSUME NEW e \in Between
        PROVE
          /\ N2(e) \in Nat /\ rows'[e[1]][s] \in Nat /\ rows'[e[2]][s] \in Nat
          /\ rows[e[1]][s] + rows'[e[2]][s] + N2(e) <= rows'[e[1]][s] + rows[e[2]][s] + N(e)
          /\ rows'[e[1]][s] + rows[e[2]][s] + N(e)
               <= rows[e[1]][s] + rows'[e[2]][s] + N2(e) + 1
    <3>1. EntryLoss(w, s, e[3], rows[e[1]][s], rows[e[2]][s],
                    rows'[e[1]][s], rows'[e[2]][s])
      BY <1>12, FaultLoses
    <3>2. Alone(w)
      BY <1>12 DEF FaultStep
    <3> QED
      BY <1>2, <1>3, <3>1, <3>2, EntryLost
  <2>2. \A e \in Between : rows'[e[2]][s] + N2(e) <= rows'[e[1]][s]
    <3> SUFFICES ASSUME NEW e \in Between PROVE rows'[e[2]][s] + N2(e) <= rows'[e[1]][s]
      OBVIOUS
    <3> DEFINE a == rows[e[1]][s]
               b == rows[e[2]][s]
               a2 == rows'[e[1]][s]
               b2 == rows'[e[2]][s]
               n == N(e)
               n2 == N2(e)
    <3>1. /\ a \in Nat /\ b \in Nat /\ a2 \in Nat /\ b2 \in Nat /\ n \in Nat /\ n2 \in Nat
          /\ b + n <= a /\ a + b2 + n2 <= a2 + b + n
      BY <1>3, <1>5, <1>6, <2>1
    <3> HIDE DEF a, b, a2, b2, n, n2
    <3>2. b2 + n2 <= a2
      BY <3>1
    <3> QED
      BY <3>2 DEF a2, b2, n2
  <2>3. rows'["leads"][s] <= rows'["processed"][s] + N2(whole) + C2 + faults'
    <3> DEFINE a == rows["leads"][s]
               b == rows["processed"][s]
               a2 == rows'["leads"][s]
               b2 == rows'["processed"][s]
               n == N(whole)
               n2 == N2(whole)
    <3>1. /\ a \in Nat /\ b \in Nat /\ a2 \in Nat /\ b2 \in Nat /\ n \in Nat /\ n2 \in Nat
          /\ a <= b + n + C + faults /\ a2 + b + n <= a + b2 + n2 + 1
          /\ faults' = faults + 1
      BY <1>2, <1>3, <1>5, <1>6, <1>12, <2>1 DEF FaultStep
    <3> HIDE DEF a, b, a2, b2, n, n2, C, C2
    <3>2. a2 <= b2 + n2 + C2 + faults'
      BY <1>3, <1>4, <3>1
    <3> QED
      BY <3>2 DEF a2, b2, n2
  <2> QED
    BY <1>7, <2>2, <2>3
<1> HIDE DEF whole, N, N2, C, C2
<1> QED
  BY <1>9, <1>10, <1>11, <1>12, Steps

LEMMA ChainedAlways == Spec => []Chained
<1>1. Init => Chained
  <2> SUFFICES ASSUME Init, NEW s \in Submissions
               PROVE  LeadsSpent(s) /\ \A e \in Between : Chain(e, s)
    BY DEF Chained
  <2>1. \A t \in Tables : rows[t][s] = 0
    BY DEF Init
  <2>2. /\ \A P : Holders(s, P) = {}
        /\ CutOff(s) = {} /\ faults = 0
    BY NoMessageOf DEF Init, Holders, CutOff
  <2>3. ASSUME NEW e \in Between PROVE Chain(e, s)
    <3>1. rows[e[1]][s] = 0 /\ rows[e[2]][s] = 0
      BY <2>1, BetweenFacts
    <3>2. Cardinality(Holders(s, e[3])) = 0
      BY <2>2, FS_EmptySet
    <3> QED
      BY <3>1, <3>2 DEF Chain
  <2>4. LeadsSpent(s)
    BY <2>1, <2>2, FS_EmptySet DEF LeadsSpent, Tables, AttemptCalls
  <2> QED
    BY <2>3, <2>4
<1> QED
  BY <1>1, ChainedKept, TypeInvariant, Invariant, EndingsAlways, BusyFinite, PTL DEF Spec

(* An event at rest is in nobody's hands.                                   *)
LEMMA RestHolders ==
  ASSUME NEW s \in Submissions, AtRest(s), NEW P \in SUBSET Holding
  PROVE  Holders(s, P) = {}
BY DEF AtRest, Holders, Holding, AttemptCalls

(* Whatever store calls fail and whenever processes die, an event has no    *)
(* row of an attempt without the rows before it; and once nobody is working *)
(* on it, each of its leads has its processed log, but for one of every     *)
(* handler that went down with its process and of every call that failed    *)
(* (processLeadIntent.mjs:25-53).                                           *)
THEOREM AttemptsLeaveAllOrNothing == Spec => []AllOrNothing
<1>1. Typed /\ IsFiniteSet(Busy) /\ Chained => AllOrNothing
  <2> SUFFICES ASSUME Typed, IsFiniteSet(Busy), Chained, NEW s \in Submissions
               PROVE
        /\ rows["processed"][s] <= rows["draft_audit"][s]
        /\ rows["draft_audit"][s] <= rows["reply_drafts"][s]
        /\ rows["reply_drafts"][s] <= rows["solar_estimates"][s]
        /\ rows["solar_estimates"][s] <= rows["leads"][s]
        /\ Adapter = "memory" => /\ rows["solar_estimates"][s] <= rows["lead_events"][s]
                                 /\ rows["lead_events"][s] <= rows["leads"][s]
        /\ AtRest(s) => rows["leads"][s] <=
                          rows["processed"][s] + Cardinality(CutOff(s)) + faults
    BY DEF AllOrNothing
  <2>1. ASSUME NEW t, NEW u, NEW P, <<t, u, P>> \in Between
        PROVE  rows[u][s] <= rows[t][s]
    <3>1. rows[u][s] + Cardinality(Holders(s, P)) <= rows[t][s]
      BY <2>1 DEF Chained, Chain
    <3>2. t \in Tables /\ u \in Tables /\ P \in SUBSET Holding
      BY <2>1, BetweenFacts
    <3>3. "idle" \notin P
      BY <3>2 DEF Holding, AttemptCalls
    <3>4. /\ rows[t][s] \in Nat /\ rows[u][s] \in Nat
          /\ Cardinality(Holders(s, P)) \in Nat
      BY <3>2, <3>3, StoreTyped, HoldersFinite
    <3> QED
      BY <3>1, <3>4
  <2>2. /\ rows["processed"][s] <= rows["draft_audit"][s]
        /\ rows["draft_audit"][s] <= rows["reply_drafts"][s]
        /\ rows["reply_drafts"][s] <= rows["solar_estimates"][s]
        /\ rows["solar_estimates"][s] <= rows["leads"][s]
        /\ Adapter = "memory" => /\ rows["solar_estimates"][s] <= rows["lead_events"][s]
                                 /\ rows["lead_events"][s] <= rows["leads"][s]
    BY <2>1 DEF Between
  <2>3. ASSUME AtRest(s)
        PROVE  rows["leads"][s] <= rows["processed"][s] + Cardinality(CutOff(s)) + faults
    <3>1. Midway \in SUBSET Holding
      BY DEF Midway, Holding, AttemptCalls
    <3>2. Cardinality(Holders(s, Midway)) = 0
      BY <2>3, <3>1, RestHolders, FS_EmptySet
    <3>3. rows["processed"][s] \in Nat /\ Cardinality(CutOff(s)) \in Nat /\ faults \in Nat
      BY StoreTyped, CutOffFinite, TypedParts
         DEF Tables, AttemptCalls, Typed, RestTyped
    <3> QED
      BY <3>2, <3>3 DEF Chained, LeadsSpent
  <2> QED
    BY <2>2, <2>3
<1> QED
  BY <1>1, ChainedAlways, BusyFinite, TypeInvariant, PTL

-----------------------------------------------------------------------------
(* Failures and dead letters                                                *)

(* What will make every further attempt of w fail: a payload that throws,   *)
(* or a lead_id another row has.                                            *)
Doomed(w) == hands[w].throws \/ LeadIdTaken(hands[w].of)

(* As long as no store call fails, an attempt that comes to its first store *)
(* call after another one failed will fail there, and the only one to come  *)
(* past it is the first.                                                    *)
AttemptsFor(w) ==
  /\ pc[w] = "leads" => ~hands[w].throws /\ (attempt[w] > 1 => Doomed(w))
  /\ pc[w] = "failed" => Doomed(w)
  /\ pc[w] \in AttemptCalls \ {"leads"} => attempt[w] = 1

Trying == AttemptCalls \cup {"failed"}
Attempts ==
  /\ \A w \in Workers : pc[w] \in Trying => attempt[w] > 0
  /\ faults = 0 => \A w \in Workers : AttemptsFor(w)

(* The failures w has logged for its message, and not yet dead-lettered.    *)
Failures(w) ==
  CASE pc[w] = "dead_letters" -> MaxRetries
    [] pc[w] \in Trying -> attempt[w] - 1
    [] OTHER -> 0

Share(w, s) == IF hands[w].of = s THEN Failures(w) ELSE 0

Recorded(s) == {p \in Workers \X (1 .. MaxRetries) : p[2] <= Share(p[1], s)}
Dead(s)     == Cardinality(DeadLettersOf(s))

(* The failures logged for s are those its dead letters stand for and those *)
(* on somebody's account, or more.                                          *)
Owed(s) == MaxRetries * Dead(s) + Cardinality(Recorded(s)) <= rows["failed"][s]
Audited(s) ==
  rows["dlq_audit"][s] + Cardinality(Holders(s, {"dlq_audit"})) <= Dead(s)

(* As long as no store call fails, not more than that and what handlers     *)
(* that went down with their process leave.                                 *)
Exact(s) ==
  /\ rows["failed"][s] <=
       MaxRetries * (Dead(s) + Cardinality(CutOff(s))) + Cardinality(Recorded(s))
  /\ Dead(s) <= rows["dlq_audit"][s] + Cardinality(Holders(s, {"dlq_audit"}))
                  + Cardinality(CutOff(s))

Failing ==
  \A s \in Submissions : Owed(s) /\ Audited(s) /\ (faults = 0 => Exact(s))

(* Leads are never taken back.                                              *)
LEMMA LeadsKept ==
  ASSUME NEW h,
         \A x \in Submissions : rows["leads"][x] > 0 => rows'["leads"][x] > 0
  PROVE  LeadIdTaken(h) => LeadIdTaken(h)'
BY DEF LeadIdTaken

LEMMA AttemptsOthers ==
  ASSUME NEW v \in Workers, AttemptsFor(v), hands'[v] = hands[v], pc'[v] = pc[v],
         attempt'[v] = attempt[v],
         \A x \in Submissions : rows["leads"][x] > 0 => rows'["leads"][x] > 0
  PROVE  AttemptsFor(v)'
<1>1. PICK h : h = hands[v].of
  OBVIOUS
<1>2. LeadIdTaken(h) => LeadIdTaken(h)'
  BY LeadsKept
<1>3. Doomed(v) => Doomed(v)'
  BY <1>1, <1>2 DEF Doomed
<1> QED
  BY <1>3 DEF AttemptsFor

(* A call leaves every lead that is there.                                  *)
LEMMA CallKeepsLeads ==
  ASSUME Typed, NEW w \in Workers, Attempt(w) \/ GiveUp(w), NEW x \in Submissions
  PROVE  rows["leads"][x] > 0 => rows'["leads"][x] > 0
<1>1. rows["leads"][x] \in Nat /\ "leads" \in Tables
  BY StoreTyped DEF Tables, AttemptCalls
<1>2. rows' = rows \/ \E t \in Tables, h \in Submissions : Wrote(t, h)
  <2>1. CASE Attempt(w)
    BY <2>1, AttemptCall DEF Tables, AttemptCalls
  <2>2. CASE GiveUp(w)
    BY <2>2, GiveUpCall DEF Tables
  <2> QED
    BY <2>1, <2>2
<1> QED
  BY <1>1, <1>2 DEF Wrote

(* Where a call of w leads to and what becomes of its attempt number.       *)
LEMMA CallAttempt ==
  ASSUME Typed, NEW w \in Workers, Attempt(w) \/ GiveUp(w)
  PROVE  /\ Alone(w) /\ hands[w].of \in Submissions
         /\ pc[w] \in Holding /\ pc'[w] \in Holding => hands'[w] = hands[w]
         /\ \/ pc'[w] \notin Trying
            \/ /\ pc[w] = "leads" /\ pc'[w] = "lead_events" /\ attempt' = attempt
               /\ ~LeadIdTaken(hands[w].of)
            \/ /\ pc[w] = "leads" /\ pc'[w] = "failed" /\ attempt' = attempt
               /\ LeadIdTaken(hands[w].of)
            \/ /\ pc[w] \in AttemptCalls \ {"leads"} /\ attempt' = attempt
               /\ pc'[w] \in AttemptCalls \ {"leads"}
            \/ /\ pc[w] = "failed" /\ pc'[w] = FirstCall(hands[w])
               /\ attempt'[w] = attempt[w] + 1
<1>1. CASE Attempt(w)
  <2>1. PICK h \in Submissions, t \in AttemptCalls, u \in Places :
          /\ h = hands[w].of /\ attempt' = attempt /\ Call(w, t, u)
          /\ \/ t = "leads" /\ u = "lead_events" /\ ~LeadIdTaken(h)
             \/ t = "leads" /\ u = "failed" /\ LeadIdTaken(h)
             \/ t # "leads" /\ u \in AttemptCalls \ {"leads"}
             \/ t = "processed" /\ u \in {"consume", "mark_replayed"}
    BY <1>1, AttemptCall DEF AttemptCalls, Places, UnguardedCalls
  <2>2. /\ Alone(w) /\ pc[w] = t /\ pc'[w] = u /\ t \in Holding
        /\ u \in Holding => hands'[w] = hands[w]
    BY <2>1 DEF Call, Holding
  <2>3. {"consume", "mark_replayed"} \cap Trying = {}
    BY DEF Trying, AttemptCalls
  <2> QED
    BY <2>1, <2>2, <2>3
<1>2. CASE GiveUp(w)
  <2>1. PICK h \in Submissions, t \in {"failed", "dead_letters", "dlq_audit"}, u \in Places :
          /\ h = hands[w].of /\ Call(w, t, u)
          /\ \/ t = "failed" /\ u = FirstCall(hands[w]) /\ attempt'[w] = attempt[w] + 1
             \/ u \in {"dead_letters", "dlq_audit", "consume", "mark_replayed"}
    <3>1. FirstCall(hands[w]) \in Places
          /\ {"dead_letters", "dlq_audit", "consume", "mark_replayed"} \subseteq Places
      BY FirstCallPlace DEF Places, AttemptCalls, UnguardedCalls
    <3> QED
      BY <1>2, <3>1, GiveUpCall
  <2>2. /\ Alone(w) /\ pc[w] = t /\ pc'[w] = u /\ t \in Holding
        /\ u \in Holding => hands'[w] = hands[w]
    BY <2>1 DEF Call, Holding
  <2>3. {"dead_letters", "dlq_audit", "consume", "mark_replayed"} \cap Trying = {}
    BY DEF Trying, AttemptCalls
  <2> QED
    BY <2>1, <2>2, <2>3
<1> QED
  BY <1>1, <1>2

LEMMA AttemptsKept ==
  ASSUME Typed, IInv, Attempts, [Next]_vars
  PROVE  Attempts'
<1>1. \A v \in Workers : pc[v] \in Trying => attempt[v] > 0
  BY DEF Attempts
<1>2. \A v \in Workers : attempt[v] \in Nat
  BY TypedParts DEF Typed, RestTyped
<1>3. "leads" \in Tables /\ "idle" \notin Trying /\ "done" \notin Trying
      /\ Trying \subseteq Holding /\ {"leads", "failed"} \subseteq Trying
      /\ AttemptCalls \subseteq Trying
  BY DEF Tables, AttemptCalls, Trying, Holding
<1>4. ASSUME NEW v \in Workers
      PROVE  pc'[v] \in Trying => attempt'[v] > 0
  <2>1. CASE pc'[v] \notin Trying
    BY <2>1
  <2>2. CASE pc'[v] = pc[v] /\ attempt'[v] = attempt[v]
    BY <1>1, <2>2
  <2>3. CASE QuietStep
    BY <1>3, <2>1, <2>2, <2>3 DEF QuietStep
  <2>4. CASE Dies
    BY <1>3, <2>1, <2>4, Actors DEF Dies
  <2>5. ASSUME NEW w \in Workers, BeginStep(w) PROVE pc'[v] \in Trying => attempt'[v] > 0
    BY <1>1, <2>5 DEF BeginStep, Alone
  <2>6. ASSUME NEW w \in Workers, Attempt(w) \/ GiveUp(w)
        PROVE  pc'[v] \in Trying => attempt'[v] > 0
    <3>1. CASE v # w
      BY <2>2, <2>6, <3>1, CallAttempt DEF Alone
    <3>2. CASE v = w
      BY <1>1, <1>2, <1>3, <2>6, <3>2, CallAttempt
    <3> QED
      BY <3>1, <3>2
  <2>7. ASSUME NEW w \in Workers, FaultStep(w)
        PROVE  pc'[v] \in Trying => attempt'[v] > 0
    <3>1. CASE v # w
      BY <2>2, <2>7, <3>1 DEF FaultStep, Alone
    <3>2. CASE v = w
      BY <1>1, <1>3, <2>7, <3>2 DEF FaultStep
    <3> QED
      BY <3>1, <3>2
  <2> QED
    BY <2>3, <2>4, <2>5, <2>6, <2>7, Steps
<1>5. ASSUME faults' = 0, NEW v \in Workers PROVE AttemptsFor(v)'
  <2>1. /\ faults = 0
        /\ \/ QuietStep \/ Killed
           \/ \E w \in Workers : BeginStep(w) \/ Attempt(w) \/ GiveUp(w)
    BY <1>5, StepKinds
  <2>2. AttemptsFor(v)
    BY <2>1 DEF Attempts
  <2>3. rows["leads"] \in [Submissions -> Nat]
    BY <1>3, StoreTyped DEF Counts
  <2>4. CASE pc'[v] \notin Trying
    BY <1>3, <2>4 DEF AttemptsFor
  <2>5. CASE QuietStep
    <3>1. rows'["leads"] = rows["leads"]
      BY <1>3, <2>5 DEF QuietStep
    <3>2. CASE pc'[v] = pc[v]
      BY <2>2, <2>5, <3>1, <3>2, AttemptsOthers DEF QuietStep
    <3> QED
      BY <1>3, <2>4, <2>5, <3>2 DEF QuietStep
  <2>6. CASE Killed
    BY <1>3, <2>4, <2>6, Actors DEF Killed, Dies
  <2>7. ASSUME NEW w \in Workers, BeginStep(w) PROVE AttemptsFor(v)'
    <3>1. CASE v = w
      <4>1. attempt'[w] = 1 /\ pc'[w] = FirstCall(hands'[w])
        BY <2>7 DEF BeginStep
      <4>2. pc'[w] = IF hands'[w].throws THEN "failed" ELSE "leads"
        BY <4>1 DEF FirstCall
      <4> QED
        BY <3>1, <4>1, <4>2 DEF AttemptsFor, Doomed, AttemptCalls
    <3>2. CASE v # w
      <4>1. hands'[v] = hands[v] /\ pc'[v] = pc[v] /\ attempt'[v] = attempt[v]
            /\ rows' = rows
        BY <2>7, <3>2 DEF BeginStep, Alone, storeVars
      <4> QED
        BY <2>2, <4>1, AttemptsOthers
    <3> QED
      BY <3>1, <3>2
  <2>8. ASSUME NEW w \in Workers, Attempt(w) \/ GiveUp(w) PROVE AttemptsFor(v)'
    <3>1. \A x \in Submissions : rows["leads"][x] > 0 => rows'["leads"][x] > 0
      BY <2>8, CallKeepsLeads
    <3>2. CASE v # w
      <4>1. hands'[v] = hands[v] /\ pc'[v] = pc[v] /\ attempt'[v] = attempt[v]
        BY <2>8, <3>2, CallAttempt DEF Alone
      <4> QED
        BY <2>2, <3>1, <4>1, AttemptsOthers
    <3>3. CASE v = w /\ pc'[w] \in Trying
      <4> DEFINE h == hands[w].of
      <4>1. hands'[w] = hands[w] /\ (LeadIdTaken(h) => LeadIdTaken(h)')
        BY <1>3, <2>8, <3>1, <3>3, CallAttempt, LeadsKept
      <4>2. CASE pc[w] = "leads" /\ pc'[w] = "lead_events" /\ attempt' = attempt
                 /\ ~LeadIdTaken(h)
        <5>1. ~Doomed(w) /\ attempt[w] > 0 /\ ~(attempt[w] > 1)
          BY <1>1, <1>3, <2>2, <3>3, <4>2 DEF AttemptsFor, Doomed
        <5>2. attempt'[w] = 1
          BY <1>2, <4>2, <5>1
        <5> QED
          BY <3>3, <4>2, <5>2 DEF AttemptsFor
      <4>3. CASE pc[w] = "leads" /\ pc'[w] = "failed" /\ attempt' = attempt
                 /\ LeadIdTaken(h)
        BY <3>3, <4>1, <4>3 DEF AttemptsFor, Doomed, AttemptCalls
      <4>4. CASE pc[w] \in AttemptCalls \ {"leads"} /\ attempt' = attempt
                 /\ pc'[w] \in AttemptCalls \ {"leads"}
        BY <2>2, <3>3, <4>4 DEF AttemptsFor, AttemptCalls
      <4>5. CASE pc[w] = "failed" /\ pc'[w] = FirstCall(hands[w])
                 /\ attempt'[w] = attempt[w] + 1
        <5>1. Doomed(w)
          BY <2>2, <3>3, <4>5 DEF AttemptsFor
        <5>2. Doomed(w)'
          BY <4>1, <5>1 DEF Doomed
        <5>3. pc'[w] = IF hands'[w].throws THEN "failed" ELSE "leads"
          BY <4>1, <4>5 DEF FirstCall
        <5> QED
          BY <3>3, <5>2, <5>3 DEF AttemptsFor, AttemptCalls
      <4> QED
        BY <2>8, <3>3, <4>2, <4>3, <4>4, <4>5, CallAttempt
    <3> QED
      BY <2>4, <3>2, <3>3
  <2> QED
    BY <2>1, <2>5, <2>6, <2>7, <2>8
<1> QED
  BY <1>4, <1>5 DEF Attempts

(* Who has failures to his account is at work.                              *)
LEMMA RecordedFinite ==
  ASSUME IsFiniteSet(Busy), NEW s
  PROVE  IsFiniteSet(Recorded(s)) /\ Cardinality(Recorded(s)) \in Nat
<1>1. Recorded(s) \subseteq Busy \X (1 .. MaxRetries)
  <2> SUFFICES ASSUME NEW p \in Recorded(s) PROVE p[1] \in Busy
    BY DEF Recorded
  <2>1. p[1] \in Workers /\ p[2] \in 1 .. MaxRetries /\ p[2] <= Share(p[1], s)
    BY DEF Recorded
  <2>2. Share(p[1], s) # 0
    BY <2>1
  <2>3. pc[p[1]] # "idle"
    BY <2>2 DEF Share, Failures, Trying, AttemptCalls
  <2> QED
    BY <2>1, <2>3 DEF Busy
<1>2. IsFiniteSet(1 .. MaxRetries)
  <2>1. 1 \in Int /\ MaxRetries \in Int
    BY Actors
  <2> QED
    BY <2>1, FS_Interval
<1>3. IsFiniteSet(Busy \X (1 .. MaxRetries))
  BY <1>2, FS_Product
<1> QED
  BY <1>1, <1>3, FS_Subset, FS_CardinalityType

(* A step of w that changes no share of another worker, and leaves w's as   *)
(* it is, adds a failure to it, or writes MaxRetries of them off.           *)
LEMMA RecordedKept ==
  ASSUME NEW s, \A v \in Workers : Share(v, s)' = Share(v, s)
  PROVE  Recorded(s)' = Recorded(s)
BY DEF Recorded

LEMMA RecordedGrows ==
  ASSUME IsFiniteSet(Busy), NEW s, NEW w \in Workers,
         \A v \in Workers \ {w} : Share(v, s)' = Share(v, s),
         NEW n \in 1 .. MaxRetries, Share(w, s) = n - 1, Share(w, s)' = n
  PROVE  Cardinality(Recorded(s)') = Cardinality(Recorded(s)) + 1
<1>1. \A i \in 1 .. MaxRetries : i <= n <=> i <= n - 1 \/ i = n
  BY Actors
<1>2. Recorded(s)' = Recorded(s) \cup {<<w, n>>}
  BY <1>1 DEF Recorded
<1>3. <<w, n>> \notin Recorded(s)
  <2>1. ~(n <= n - 1)
    BY Actors
  <2> QED
    BY <2>1 DEF Recorded
<1> QED
  BY <1>2, <1>3, RecordedFinite, FS_AddElement

LEMMA RecordedWrittenOff ==
  ASSUME IsFiniteSet(Busy), NEW s, NEW w \in Workers,
         \A v \in Workers \ {w} : Share(v, s)' = Share(v, s),
         Share(w, s) = MaxRetries, Share(w, s)' = 0
  PROVE  Cardinality(Recorded(s)) = Cardinality(Recorded(s)') + MaxRetries
<1> DEFINE mine == {w} \X (1 .. MaxRetries)
           others == Recorded(s) \ mine
<1>1. /\ IsFiniteSet(1 .. MaxRetries) /\ Cardinality(1 .. MaxRetries) = MaxRetries
      /\ IsFiniteSet({w}) /\ Cardinality({w}) = 1
  <2>1. 1 \in Int /\ MaxRetries \in Int /\ ~(1 > MaxRetries) /\ MaxRetries - 1 + 1 = MaxRetries
    BY Actors
  <2> QED
    BY <2>1, FS_Interval, FS_Singleton
<1>2. IsFiniteSet(mine) /\ Cardinality(mine) = MaxRetries
  <2>1. IsFiniteSet(mine) /\ Cardinality(mine) = Cardinality({w}) * Cardinality(1 .. MaxRetries)
    BY <1>1, FS_Product
  <2> QED
    BY <1>1, <2>1, Actors
<1>3. \A i \in 1 .. MaxRetries : i <= MaxRetries /\ ~(i <= 0)
  BY Actors
<1>4. Recorded(s)' = others
  BY <1>3 DEF Recorded
<1>5. Recorded(s) = others \cup mine /\ others \cap mine = {}
  BY <1>3 DEF Recorded
<1>6. IsFiniteSet(Recorded(s)) /\ IsFiniteSet(others)
  BY RecordedFinite, FS_Subset
<1> HIDE DEF mine, others
<1>7. Cardinality(Recorded(s)) = Cardinality(others) + Cardinality(mine) - 0
  BY <1>2, <1>5, <1>6, FS_Union, FS_EmptySet
<1>8. Cardinality(others) \in Nat
  BY <1>6, FS_CardinalityType
<1> QED
  BY <1>2, <1>4, <1>7, <1>8, Actors

LEMMA RecordedForgotten ==
  ASSUME IsFiniteSet(Busy), NEW s, NEW w \in Workers,
         \A v \in Workers \ {w} : Share(v, s)' = Share(v, s), Share(w, s)' = 0
  PROVE  /\ Cardinality(Recorded(s)') \in Nat
         /\ Cardinality(Recorded(s)') <= Cardinality(Recorded(s))
<1>1. Recorded(s)' \subseteq Recorded(s)
  <2>1. \A i \in 1 .. MaxRetries : ~(i <= 0)
    OBVIOUS
  <2> QED
    BY <2>1 DEF Recorded
<1> QED
  BY <1>1, RecordedFinite, FS_Subset, FS_CardinalityType

LEMMA DeadFinite ==
  ASSUME Typed, NEW s
  PROVE  IsFiniteSet(DeadLettersOf(s)) /\ Dead(s) \in Nat
<1>1. DOMAIN deadLetters = 1 .. Len(deadLetters) /\ Len(deadLetters) \in Int
  BY StoreTyped
<1>2. IsFiniteSet(DOMAIN deadLetters)
  <2>1. 1 \in Int
    OBVIOUS
  <2> QED
    BY <1>1, <2>1, FS_Interval
<1>3. DeadLettersOf(s) \subseteq DOMAIN deadLetters
  BY DEF DeadLettersOf
<1> QED
  BY <1>2, <1>3, FS_Subset, FS_CardinalityType DEF Dead

(* One more dead letter, of the message m.                                  *)
LEMMA DeadGrows ==
  ASSUME Typed, NEW m \in Messages, deadLetters' = Append(deadLetters, DeadLetter(m)), NEW s
  PROVE  /\ m.of # s => Dead(s)' = Dead(s)
         /\ m.of = s => Dead(s)' = Dead(s) + 1
<1> DEFINE new == Len(deadLetters) + 1
<1>1. /\ DOMAIN deadLetters' = DOMAIN deadLetters \cup {new}
      /\ \A d \in DOMAIN deadLetters : deadLetters'[d] = deadLetters[d]
      /\ deadLetters'[new].of = m.of
  BY StoreTyped, LetterAppended
<1>2. new \notin DOMAIN deadLetters
  BY StoreTyped
<1> HIDE DEF new
<1>3. CASE m.of # s
  <2>1. DeadLettersOf(s)' = DeadLettersOf(s)
    BY <1>1, <1>2, <1>3 DEF DeadLettersOf
  <2> QED
    BY <1>3, <2>1 DEF Dead
<1>4. CASE m.of = s
  <2>1. DeadLettersOf(s)' = DeadLettersOf(s) \cup {new} /\ new \notin DeadLettersOf(s)
    BY <1>1, <1>2, <1>4 DEF DeadLettersOf
  <2>2. Cardinality(DeadLettersOf(s)') = Cardinality(DeadLettersOf(s)) + 1
    BY <2>1, DeadFinite, FS_AddElement
  <2> QED
    BY <1>4, <2>2 DEF Dead
<1> QED
  BY <1>3, <1>4

LEMMA DeadSame ==
  ASSUME NEW s, DOMAIN deadLetters' = DOMAIN deadLetters,
         \A d \in DOMAIN deadLetters : deadLetters'[d].of = deadLetters[d].of
  PROVE  Dead(s)' = Dead(s)
<1>1. DeadLettersOf(s)' = DeadLettersOf(s)
  BY DEF DeadLettersOf
<1> QED
  BY <1>1 DEF Dead

(* What a step does to the failures of s: nothing, one more, MaxRetries of  *)
(* them become a dead letter, or what w had on its account is forgotten.    *)
FailureMove(w, s) ==
  \/ /\ Share(w, s)' = Share(w, s) /\ rows'["failed"][s] = rows["failed"][s]
     /\ Dead(s)' = Dead(s)
  \/ /\ \E n \in 1 .. MaxRetries : Share(w, s) = n - 1 /\ Share(w, s)' = n
     /\ rows'["failed"][s] = rows["failed"][s] + 1 /\ Dead(s)' = Dead(s)
  \/ /\ Share(w, s) = MaxRetries /\ Share(w, s)' = 0
     /\ rows'["failed"][s] = rows["failed"][s] /\ Dead(s)' = Dead(s) + 1
FailureLoss(w, s) ==
  /\ Share(w, s)' = 0 /\ Dead(s)' = Dead(s)
  /\ rows'["failed"][s] \in {rows["failed"][s], rows["failed"][s] + 1}

LetterMove(w, s) ==
  EntryMove(w, s, {"dlq_audit"}, Dead(s), rows["dlq_audit"][s],
            Dead(s)', rows'["dlq_audit"][s])
LetterLoss(w, s) ==
  EntryLoss(w, s, {"dlq_audit"}, Dead(s), rows["dlq_audit"][s],
            Dead(s)', rows'["dlq_audit"][s])

LEMMA Times ==
  ASSUME NEW a \in Nat, NEW b \in Nat
  PROVE  /\ MaxRetries * a \in Nat /\ MaxRetries * b \in Nat
         /\ MaxRetries * (a + b) = MaxRetries * a + MaxRetries * b
         /\ a <= b => MaxRetries * a <= MaxRetries * b
<1>1. MaxRetries \in Nat
  BY Actors
<1> QED
  BY <1>1

(* The counts of s a step is about.                                         *)
LEMMA FailingCounts ==
  ASSUME Typed, IsFiniteSet(Busy), NEW s \in Submissions
  PROVE  /\ rows["failed"][s] \in Nat /\ rows["dlq_audit"][s] \in Nat
         /\ Dead(s) \in Nat /\ Cardinality(Recorded(s)) \in Nat
         /\ Cardinality(Holders(s, {"dlq_audit"})) \in Nat
         /\ Cardinality(CutOff(s)) \in Nat /\ MaxRetries \in Nat
<1>1. "idle" \notin {"dlq_audit"}
  OBVIOUS
<1> QED
  BY <1>1, StoreTyped, DeadFinite, RecordedFinite, CutOffFinite, HoldersFinite, Actors
     DEF Tables

LEMMA OthersShare ==
  ASSUME NEW w \in Workers, Alone(w), NEW s
  PROVE  \A v \in Workers \ {w} : Share(v, s)' = Share(v, s)
BY DEF Alone, Share, Failures

LEMMA FailureKept ==
  ASSUME Typed, IsFiniteSet(Busy), NEW w \in Workers, Alone(w), NEW s \in Submissions,
         FailureMove(w, s)
  PROVE  /\ Cardinality(Recorded(s)') \in Nat /\ Dead(s)' \in Nat
         /\ rows'["failed"][s] + MaxRetries * Dead(s) + Cardinality(Recorded(s))
              = rows["failed"][s] + MaxRetries * Dead(s)' + Cardinality(Recorded(s)')
<1>1. /\ rows["failed"][s] \in Nat /\ Dead(s) \in Nat
      /\ Cardinality(Recorded(s)) \in Nat /\ MaxRetries \in Nat
  BY FailingCounts
<1>2. MaxRetries * Dead(s) \in Nat
      /\ MaxRetries * (Dead(s) + 1) = MaxRetries * Dead(s) + MaxRetries
  BY <1>1
<1>3. \A v \in Workers \ {w} : Share(v, s)' = Share(v, s)
  BY OthersShare
<1>4. CASE Share(w, s)' = Share(w, s) /\ rows'["failed"][s] = rows["failed"][s]
           /\ Dead(s)' = Dead(s)
  <2>1. Recorded(s)' = Recorded(s)
    BY <1>3, <1>4, RecordedKept
  <2> QED
    BY <1>1, <1>2, <1>4, <2>1
<1>5. ASSUME NEW n \in 1 .. MaxRetries, Share(w, s) = n - 1, Share(w, s)' = n,
             rows'["failed"][s] = rows["failed"][s] + 1, Dead(s)' = Dead(s)
      PROVE  /\ Cardinality(Recorded(s)') \in Nat /\ Dead(s)' \in Nat
             /\ rows'["failed"][s] + MaxRetries * Dead(s) + Cardinality(Recorded(s))
                  = rows["failed"][s] + MaxRetries * Dead(s)' + Cardinality(Recorded(s)')
  <2>1. Cardinality(Recorded(s)') = Cardinality(Recorded(s)) + 1
    BY <1>3, <1>5, RecordedGrows
  <2> QED
    BY <1>1, <1>2, <1>5, <2>1
<1>6. CASE /\ Share(w, s) = MaxRetries /\ Share(w, s)' = 0
           /\ rows'["failed"][s] = rows["failed"][s] /\ Dead(s)' = Dead(s) + 1
  <2>1. Cardinality(Recorded(s)) = Cardinality(Recorded(s)') + MaxRetries
    BY <1>3, <1>6, RecordedWrittenOff
  <2>2. Cardinality(Recorded(s)') \in Nat
    BY <1>3, <1>6, RecordedForgotten
  <2> QED
    BY <1>1, <1>2, <1>6, <2>1, <2>2
<1> QED
  BY <1>4, <1>5, <1>6 DEF FailureMove

(* A step of w after which the books are as before: exact if they were, or  *)
(* some failures are on no account any more.                                *)
LEMMA FailingStep ==
  ASSUME Typed, IInv, Endings, [Next]_vars, IsFiniteSet(Busy), IsFiniteSet(Busy)',
         NEW w \in Workers, Alone(w), NEW s \in Submissions, Owed(s), Audited(s),
         FailureMove(w, s) \/ FailureLoss(w, s), LetterMove(w, s) \/ LetterLoss(w, s)
  PROVE  /\ Owed(s)' /\ Audited(s)'
         /\ FailureMove(w, s) /\ LetterMove(w, s) /\ Exact(s) => Exact(s)'
<1> DEFINE F == rows["failed"][s]
           F2 == rows'["failed"][s]
           Q == rows["dlq_audit"][s]
           Q2 == rows'["dlq_audit"][s]
           D == Dead(s)
           D2 == Dead(s)'
           R == Cardinality(Recorded(s))
           R2 == Cardinality(Recorded(s)')
           H == Cardinality(Holders(s, {"dlq_audit"}))
           H2 == Cardinality(Holders(s, {"dlq_audit"})')
           C == Cardinality(CutOff(s))
           C2 == Cardinality(CutOff(s)')
<1>1. /\ F \in Nat /\ Q \in Nat /\ D \in Nat /\ R \in Nat /\ H \in Nat /\ C \in Nat
      /\ C2 \in Nat /\ C <= C2
  BY FailingCounts, CutOffGrows
<1>2. "idle" \notin {"dlq_audit"}
  OBVIOUS
<1>3. /\ H2 \in Nat /\ D2 \in Nat /\ Q2 \in Nat
      /\ D + Q2 + H2 <= D2 + Q + H
      /\ LetterMove(w, s) => D2 + Q + H = D + Q2 + H2
  <2>1. CASE LetterMove(w, s)
    <3>1. /\ H2 \in Nat /\ D2 \in Nat /\ Q2 \in Nat /\ D2 + Q + H = D + Q2 + H2
      BY <1>1, <1>2, <2>1, EntryKept DEF LetterMove
    <3> HIDE DEF D, D2, Q, Q2, H, H2
    <3> QED
      BY <1>1, <3>1
  <2>2. CASE LetterLoss(w, s) /\ ~LetterMove(w, s)
    BY <1>1, <1>2, <2>2, EntryLost DEF LetterLoss
  <2> QED
    BY <2>1, <2>2
<1>4. /\ R2 \in Nat /\ F2 \in Nat
      /\ F + MaxRetries * D2 + R2 <= F2 + MaxRetries * D + R
      /\ FailureMove(w, s) => F2 + MaxRetries * D + R = F + MaxRetries * D2 + R2
  <2>1. CASE FailureMove(w, s)
    <3>1. R2 \in Nat /\ F2 + MaxRetries * D + R = F + MaxRetries * D2 + R2
      BY <2>1, FailureKept
    <3>2. F2 \in {F, F + 1}
      BY <2>1 DEF FailureMove
    <3>3. MaxRetries * D \in Nat /\ MaxRetries * D2 \in Nat
      BY <1>1, <1>3, Times
    <3> HIDE DEF F, F2, R, R2, D, D2
    <3> QED
      BY <1>1, <3>1, <3>2, <3>3
  <2>2. CASE FailureLoss(w, s) /\ ~FailureMove(w, s)
    <3>1. F2 \in {F, F + 1} /\ D2 = D
      BY <2>2 DEF FailureLoss
    <3>2. R2 \in Nat /\ R2 <= R
      <4>1. \A v \in Workers \ {w} : Share(v, s)' = Share(v, s)
        BY OthersShare
      <4>2. Share(w, s)' = 0
        BY <2>2 DEF FailureLoss
      <4> QED
        BY <4>1, <4>2, RecordedForgotten
    <3>3. MaxRetries * D \in Nat
      BY <1>1, Times
    <3> HIDE DEF F, F2, R, R2, D, D2
    <3> QED
      BY <1>1, <2>2, <3>1, <3>2, <3>3
  <2> QED
    BY <2>1, <2>2
<1>5. /\ MaxRetries * D \in Nat /\ MaxRetries * D2 \in Nat
      /\ MaxRetries * C \in Nat /\ MaxRetries * C2 \in Nat
      /\ MaxRetries * C <= MaxRetries * C2
      /\ MaxRetries * (D + C) = MaxRetries * D + MaxRetries * C
      /\ MaxRetries * (D2 + C2) = MaxRetries * D2 + MaxRetries * C2
  BY <1>1, <1>3, Times
<1>6. /\ Owed(s) <=> MaxRetries * D + R <= F
      /\ Owed(s)' <=> MaxRetries * D2 + R2 <= F2
      /\ Audited(s) <=> Q + H <= D
      /\ Audited(s)' <=> Q2 + H2 <= D2
      /\ Exact(s) <=> F <= MaxRetries * (D + C) + R /\ D <= Q + H + C
      /\ Exact(s)' <=> F2 <= MaxRetries * (D2 + C2) + R2 /\ D2 <= Q2 + H2 + C2
  BY DEF Owed, Audited, Exact
<1> DEFINE MD == MaxRetries * D
           MD2 == MaxRetries * D2
           MC == MaxRetries * C
           MC2 == MaxRetries * C2
<1>7. /\ MD \in Nat /\ MD2 \in Nat /\ MC \in Nat /\ MC2 \in Nat /\ MC <= MC2
      /\ F + MD2 + R2 <= F2 + MD + R /\ MD + R <= F
      /\ FailureMove(w, s) => F2 + MD + R = F + MD2 + R2
      /\ Exact(s) => F <= MD + MC + R
  BY <1>4, <1>5, <1>6
<1>8. /\ Owed(s)' <=> MD2 + R2 <= F2
      /\ Exact(s)' <=> F2 <= MD2 + MC2 + R2 /\ D2 <= Q2 + H2 + C2
  BY <1>5, <1>6
<1> HIDE DEF F, F2, Q, Q2, D, D2, R, R2, H, H2, C, C2, MD, MD2, MC, MC2
<1>9. Owed(s)'
  BY <1>1, <1>4, <1>7, <1>8
<1>10. Audited(s)'
  BY <1>1, <1>3, <1>6
<1>11. ASSUME FailureMove(w, s), LetterMove(w, s), Exact(s) PROVE Exact(s)'
  <2>1. F2 <= MD2 + MC2 + R2
    BY <1>1, <1>4, <1>7, <1>11
  <2>2. D2 <= Q2 + H2 + C2
    BY <1>1, <1>3, <1>6, <1>11
  <2> QED
    BY <1>8, <2>1, <2>2
<1> QED
  BY <1>9, <1>10, <1>11

(* The calls of an attempt add no failure, and a success forgets those of   *)
(* the attempts before it, which it has none of if no store call failed.    *)
LEMMA AttemptFails ==
  ASSUME Typed, NEW w \in Workers, Attempt(w), NEW s \in Submissions
  PROVE  /\ Alone(w) /\ LetterMove(w, s)
         /\ FailureMove(w, s) \/ FailureLoss(w, s)
         /\ AttemptsFor(w) => FailureMove(w, s)
<1> DEFINE Plain == {"lead_events", "solar_estimates", "reply_drafts", "draft_audit",
                     "processed", "failed"}
<1>1. PICK h \in Submissions, t \in AttemptCalls,
           u \in Plain \cup {"consume", "mark_replayed"} :
        /\ h = hands[w].of /\ deadLetters' = deadLetters /\ attempt' = attempt
        /\ Call(w, t, u) /\ (rows' = rows \/ Wrote(t, h))
        /\ u \in {"consume", "mark_replayed"} => t = "processed"
  BY AttemptCall DEF AttemptCalls
<1>2. /\ rows'["failed"][s] = rows["failed"][s] /\ rows'["dlq_audit"][s] = rows["dlq_audit"][s]
      /\ t # "failed" /\ t # "dlq_audit" /\ u # "dlq_audit" /\ t # "dead_letters"
  BY <1>1 DEF Wrote, Tables, AttemptCalls
<1>3. Dead(s)' = Dead(s)
  BY <1>1, DeadSame
<1>4. /\ pc[w] = t /\ pc'[w] = u /\ Alone(w)
      /\ IF u \in Holding THEN hands'[w] = hands[w] ELSE hands'[w] = NoMessage
  BY <1>1 DEF Call
<1>5. LetterMove(w, s)
  BY <1>2, <1>3, <1>4 DEF LetterMove, EntryMove
<1>6. CASE u \in Plain
  <2>1. u \in Holding /\ t \in Trying /\ u \in Trying /\ u # "dead_letters"
    BY <1>6 DEF Holding, Trying, AttemptCalls
  <2>2. Failures(w)' = Failures(w) /\ hands'[w] = hands[w]
    BY <1>1, <1>2, <1>4, <2>1 DEF Failures
  <2>3. Share(w, s)' = Share(w, s)
    BY <2>2 DEF Share
  <2> QED
    BY <1>2, <1>3, <1>4, <1>5, <2>3 DEF FailureMove
<1>7. CASE u \in {"consume", "mark_replayed"}
  <2>1. Share(w, s)' = 0
    BY <1>4, <1>7 DEF Share, Failures, Trying, AttemptCalls
  <2>2. AttemptsFor(w) => Share(w, s) = 0
    BY <1>1, <1>4, <1>7 DEF AttemptsFor, Share, Failures, Trying, AttemptCalls
  <2> QED
    BY <1>2, <1>3, <1>4, <1>5, <2>1, <2>2 DEF FailureMove, FailureLoss
<1> QED
  BY <1>1, <1>6, <1>7

LEMMA GiveUpFails ==
  ASSUME Typed, NEW w \in Workers, GiveUp(w), Attempts, NEW s \in Submissions
  PROVE  Alone(w) /\ FailureMove(w, s) /\ LetterMove(w, s)
<1>0. pc[w] = "failed" => attempt[w] > 0
  BY DEF Attempts, Trying
<1>1. PICK h \in Submissions :
           /\ h = hands[w].of
           /\ \/ /\ Call(w, "failed", FirstCall(hands[w])) /\ Wrote("failed", h)
                 /\ attempt[w] < MaxRetries /\ attempt'[w] = attempt[w] + 1
                 /\ deadLetters' = deadLetters
              \/ /\ Call(w, "failed", "dead_letters") /\ Wrote("failed", h)
                 /\ ~(attempt[w] < MaxRetries) /\ attempt' = attempt
                 /\ deadLetters' = deadLetters
              \/ /\ Call(w, "dead_letters", "dlq_audit") /\ rows' = rows
                 /\ attempt' = attempt
                 /\ deadLetters' = Append(deadLetters, DeadLetter(hands[w]))
              \/ \E u \in {"consume", "mark_replayed"} :
                   /\ Call(w, "dlq_audit", u) /\ Wrote("dlq_audit", h)
                   /\ attempt' = attempt /\ deadLetters' = deadLetters
  BY GiveUpCall
<1>2. Alone(w)
  BY <1>1 DEF Call
<1>3. attempt[w] \in 0 .. MaxRetries /\ MaxRetries \in Nat
  BY TypedParts, Actors DEF Typed, RestTyped
<1>4. deadLetters' = deadLetters => Dead(s)' = Dead(s)
  BY DeadSame
<1>5. {"failed", "dlq_audit"} \subseteq Tables
  BY DEF Tables
<1>6. CASE /\ Call(w, "failed", FirstCall(hands[w])) /\ Wrote("failed", h)
           /\ attempt[w] < MaxRetries /\ attempt'[w] = attempt[w] + 1
           /\ deadLetters' = deadLetters
  <2>1. /\ pc[w] = "failed" /\ pc'[w] \in {"leads", "failed"} /\ hands'[w] = hands[w]
        /\ attempt[w] > 0
    BY <1>0, <1>6, FirstCallPlace DEF Call, Holding, AttemptCalls
  <2>2. Failures(w) = attempt[w] - 1 /\ Failures(w)' = attempt[w] /\ attempt[w] \in 1 .. MaxRetries
    BY <1>3, <1>6, <2>1 DEF Failures, Trying, AttemptCalls
  <2>3. rows'["failed"][s] = (IF s = h THEN rows["failed"][s] + 1 ELSE rows["failed"][s])
        /\ rows'["dlq_audit"][s] = rows["dlq_audit"][s]
    BY <1>5, <1>6 DEF Wrote
  <2>4. LetterMove(w, s)
    BY <1>4, <1>6, <2>1, <2>3 DEF LetterMove, EntryMove
  <2>5. FailureMove(w, s)
    BY <1>1, <1>4, <1>6, <2>1, <2>2, <2>3 DEF FailureMove, Share
  <2> QED
    BY <1>2, <2>4, <2>5
<1>7. CASE /\ Call(w, "failed", "dead_letters") /\ Wrote("failed", h)
           /\ ~(attempt[w] < MaxRetries) /\ attempt' = attempt
           /\ deadLetters' = deadLetters
  <2>1. /\ pc[w] = "failed" /\ pc'[w] = "dead_letters" /\ hands'[w] = hands[w]
        /\ attempt[w] > 0 /\ attempt[w] = MaxRetries
    BY <1>0, <1>3, <1>7 DEF Call, Holding
  <2>2. Failures(w) = attempt[w] - 1 /\ Failures(w)' = attempt[w] /\ attempt[w] \in 1 .. MaxRetries
    BY <1>3, <1>7, <2>1 DEF Failures, Trying, AttemptCalls
  <2>3. rows'["failed"][s] = (IF s = h THEN rows["failed"][s] + 1 ELSE rows["failed"][s])
        /\ rows'["dlq_audit"][s] = rows["dlq_audit"][s]
    BY <1>5, <1>7 DEF Wrote
  <2>4. LetterMove(w, s)
    BY <1>4, <1>7, <2>1, <2>3 DEF LetterMove, EntryMove
  <2>5. FailureMove(w, s)
    BY <1>1, <1>4, <1>7, <2>1, <2>2, <2>3 DEF FailureMove, Share
  <2> QED
    BY <1>2, <2>4, <2>5
<1>8. CASE /\ Call(w, "dead_letters", "dlq_audit") /\ rows' = rows
           /\ attempt' = attempt
           /\ deadLetters' = Append(deadLetters, DeadLetter(hands[w]))
  <2>1. /\ pc[w] = "dead_letters" /\ pc'[w] = "dlq_audit" /\ hands'[w] = hands[w]
        /\ hands[w] \in Messages
    BY <1>8 DEF Call, Holding
  <2>2. Failures(w) = MaxRetries /\ Failures(w)' = 0
    BY <2>1 DEF Failures, Trying, AttemptCalls
  <2>3. Dead(s)' = IF h = s THEN Dead(s) + 1 ELSE Dead(s)
    BY <1>1, <1>8, <2>1, DeadGrows
  <2>4. LetterMove(w, s)
    BY <1>1, <1>8, <2>1, <2>3 DEF LetterMove, EntryMove
  <2>5. FailureMove(w, s)
    BY <1>1, <1>8, <2>1, <2>2, <2>3 DEF FailureMove, Share
  <2> QED
    BY <1>2, <2>4, <2>5
<1>9. ASSUME NEW u \in {"consume", "mark_replayed"}, Call(w, "dlq_audit", u),
             Wrote("dlq_audit", h), deadLetters' = deadLetters
      PROVE  FailureMove(w, s) /\ LetterMove(w, s)
  <2>1. /\ pc[w] = "dlq_audit" /\ pc'[w] = u /\ hands'[w] = NoMessage
    BY <1>9 DEF Call, Holding, AttemptCalls
  <2>2. Failures(w) = 0 /\ Failures(w)' = 0
    BY <2>1 DEF Failures, Trying, AttemptCalls
  <2>3. rows'["dlq_audit"][s] = (IF s = h THEN rows["dlq_audit"][s] + 1 ELSE rows["dlq_audit"][s])
        /\ rows'["failed"][s] = rows["failed"][s]
    BY <1>5, <1>9 DEF Wrote
  <2>4. LetterMove(w, s)
    BY <1>1, <1>4, <1>9, <2>1, <2>3, NoMessageOf DEF LetterMove, EntryMove
  <2>5. FailureMove(w, s)
    BY <1>4, <1>9, <2>2, <2>3 DEF FailureMove, Share
  <2> QED
    BY <2>4, <2>5
<1> QED
  BY <1>1, <1>2, <1>6, <1>7, <1>8, <1>9

(* A call that fails: the attempt has a failure to log if it was one of its *)
(* calls, and otherwise nobody has its failures on his account any more.    *)
LEMMA FaultFails ==
  ASSUME Typed, NEW w \in Workers, FaultStep(w), NEW s \in Submissions
  PROVE  /\ Alone(w)
         /\ FailureMove(w, s) \/ FailureLoss(w, s)
         /\ LetterMove(w, s) \/ LetterLoss(w, s)
<1> USE DEF FaultStep
<1>1. {"failed", "dlq_audit"} \subseteq Tables \ {"replay_audit"}
      /\ AttemptCalls \cap (UnguardedCalls \cup {"done"}) = {}
  BY DEF Tables, AttemptCalls, UnguardedCalls
<1>2. rows["failed"][s] \in Nat /\ rows["dlq_audit"][s] \in Nat /\ Dead(s) \in Nat
  BY <1>1, StoreTyped, DeadFinite
<1>3. /\ \/ rows'["failed"][s] = rows["failed"][s]
         \/ pc[w] = "failed" /\ rows'["failed"][s] = rows["failed"][s] + 1
      /\ \/ rows'["dlq_audit"][s] = rows["dlq_audit"][s]
         \/ /\ pc[w] = "dlq_audit" /\ hands[w].of = s
            /\ rows'["dlq_audit"][s] = rows["dlq_audit"][s] + 1
  <2>1. CASE Wrote(pc[w], hands[w].of)
    BY <1>1, <2>1 DEF Wrote
  <2>2. CASE \A t \in Tables \ {"replay_audit"} : rows'[t] = rows[t]
    BY <1>1, <2>2
  <2> QED
    BY <2>1, <2>2
<1>4. \/ Dead(s)' = Dead(s)
      \/ pc[w] = "dead_letters" /\ hands[w].of = s /\ Dead(s)' = Dead(s) + 1
  BY DeadSame, DeadGrows
<1>5. LetterMove(w, s) \/ LetterLoss(w, s)
  <2>1. pc'[w] # "dlq_audit"
    OBVIOUS
  <2>2. Dead(s)' \in {Dead(s), Dead(s) + 1}
        /\ rows'["dlq_audit"][s] \in {rows["dlq_audit"][s], rows["dlq_audit"][s] + 1}
    BY <1>3, <1>4
  <2>3. Dead(s)' # Dead(s) => pc[w] = "dead_letters"
    BY <1>4
  <2>4. rows'["dlq_audit"][s] # rows["dlq_audit"][s] => pc[w] = "dlq_audit" /\ hands[w].of = s
    BY <1>3
  <2> QED
    BY <2>1, <2>2, <2>3, <2>4 DEF LetterLoss, EntryLoss
<1>6. CASE pc[w] \in AttemptCalls
  <2>1. /\ pc'[w] = "failed" /\ pc[w] # "dead_letters" /\ pc[w] # "failed"
        /\ pc[w] \in Trying
    BY <1>6 DEF AttemptCalls, Trying
  <2>2. Failures(w)' = Failures(w)
    BY <2>1 DEF Failures, Trying
  <2> QED
    BY <1>3, <1>4, <1>5, <2>1, <2>2 DEF FailureMove, Share
<1>7. CASE pc[w] \notin AttemptCalls
  <2>1. pc'[w] = "done"
    BY <1>7
  <2>2. Share(w, s)' = 0
    BY <2>1 DEF Share, Failures, Trying, AttemptCalls
  <2>3. CASE Dead(s)' = Dead(s)
    BY <1>3, <1>5, <2>2, <2>3 DEF FailureLoss
  <2>4. CASE pc[w] = "dead_letters" /\ hands[w].of = s /\ Dead(s)' = Dead(s) + 1
    <3>1. Share(w, s) = MaxRetries
      BY <2>4 DEF Share, Failures, Trying, AttemptCalls
    <3>2. rows'["failed"][s] = rows["failed"][s]
      BY <1>3, <2>4
    <3>3. FailureMove(w, s)
      BY <2>2, <2>4, <3>1, <3>2 DEF FailureMove
    <3> QED
      BY <1>5, <3>3
  <2> QED
    BY <1>4, <2>3, <2>4
<1> QED
  BY <1>6, <1>7

(* What is on the accounts of handlers that go down with their process.     *)
LEMMA RecordedHeld ==
  ASSUME IsFiniteSet(Busy), NEW s
  PROVE  /\ Cardinality(Holders(s, Unsettled)) \in Nat
         /\ Cardinality(Recorded(s)) <= MaxRetries * Cardinality(Holders(s, Unsettled))
<1> DEFINE H == Holders(s, Unsettled)
           I == 1 .. MaxRetries
<1>1. MaxRetries \in Nat /\ "idle" \notin Unsettled
  BY Actors DEF Unsettled, AttemptCalls
<1>2. IsFiniteSet(H) /\ Cardinality(H) \in Nat
  BY <1>1, HoldersFinite
<1>3. IsFiniteSet(I) /\ Cardinality(I) = MaxRetries
  <2>1. 1 \in Int /\ MaxRetries \in Int /\ ~(1 > MaxRetries) /\ MaxRetries - 1 + 1 = MaxRetries
    BY Actors
  <2> QED
    BY <2>1, FS_Interval
<1>4. Recorded(s) \subseteq H \X I
  <2> SUFFICES ASSUME NEW p \in Recorded(s) PROVE p[1] \in H
    BY DEF Recorded
  <2>1. p[1] \in Workers /\ p[2] \in 1 .. MaxRetries /\ p[2] <= Share(p[1], s)
    BY DEF Recorded
  <2>2. Share(p[1], s) # 0
    BY <2>1
  <2>3. hands[p[1]].of = s /\ pc[p[1]] \in Unsettled
    BY <2>2 DEF Share, Failures, Trying, Unsettled
  <2> QED
    BY <2>1, <2>3 DEF Holders
<1> HIDE DEF H, I
<1>5. IsFiniteSet(H \X I) /\ Cardinality(H \X I) = Cardinality(H) * MaxRetries
  BY <1>2, <1>3, FS_Product
<1>6. Cardinality(Recorded(s)) <= Cardinality(H \X I)
  BY <1>4, <1>5, FS_Subset
<1>7. Cardinality(H) * MaxRetries = MaxRetries * Cardinality(H)
  BY <1>1, <1>2
<1>8. Cardinality(Recorded(s)) <= MaxRetries * Cardinality(H)
  BY <1>5, <1>6, <1>7
<1> QED
  BY <1>2, <1>8 DEF H

(* The end of the process leaves what was logged.                           *)
LEMMA FailingDeath ==
  ASSUME Typed, IInv, Endings, [Next]_vars, Dies, IsFiniteSet(Busy), IsFiniteSet(Busy)',
         NEW s \in Submissions, Owed(s), Audited(s)
  PROVE  Owed(s)' /\ Audited(s)' /\ (Exact(s) => Exact(s)')
<1>1. rows' = rows /\ deadLetters' = deadLetters
      /\ \A w \in Workers : pc'[w] \in {"idle", "done"}
  BY Actors DEF Dies, storeVars
<1>2. Dead(s)' = Dead(s)
  BY <1>1, DeadSame
<1>3. Cardinality(Recorded(s)') = 0
  <2>1. \A w \in Workers : Share(w, s)' = 0
    BY <1>1 DEF Share, Failures, Trying, AttemptCalls
  <2>2. \A i \in 1 .. MaxRetries : ~(i <= 0)
    OBVIOUS
  <2>3. Recorded(s)' = {}
    BY <2>1, <2>2 DEF Recorded
  <2> QED
    BY <2>3, FS_EmptySet
<1>4. {"dlq_audit"} \in SUBSET Holding /\ Unsettled \in SUBSET Holding
  BY UnsettledHolding DEF Holding
<1> DEFINE F == rows["failed"][s]
           Q == rows["dlq_audit"][s]
           D == Dead(s)
           R == Cardinality(Recorded(s))
           U == Cardinality(Holders(s, Unsettled))
           H == Cardinality(Holders(s, {"dlq_audit"}))
           H2 == Cardinality(Holders(s, {"dlq_audit"})')
           C == Cardinality(CutOff(s))
           C2 == Cardinality(CutOff(s)')
<1>5. F \in Nat /\ Q \in Nat /\ D \in Nat /\ R \in Nat /\ H \in Nat /\ C \in Nat
  BY FailingCounts
<1>6. /\ C2 \in Nat /\ H + C <= C2 /\ H2 = 0
  BY <1>4, DeathCut, FS_EmptySet
<1>7. U \in Nat /\ U + C <= C2
  BY <1>4, DeathCut
<1>8. R <= MaxRetries * U
  BY RecordedHeld
<1>9. /\ MaxRetries * D \in Nat /\ MaxRetries * C \in Nat /\ MaxRetries * U \in Nat
      /\ MaxRetries * C2 \in Nat
      /\ MaxRetries * (D + C) = MaxRetries * D + MaxRetries * C
      /\ MaxRetries * (D + C2) = MaxRetries * D + MaxRetries * C2
      /\ MaxRetries * U + MaxRetries * C <= MaxRetries * C2
  <2>1. U + C \in Nat
    BY <1>5, <1>7
  <2>2. MaxRetries * (U + C) = MaxRetries * U + MaxRetries * C
        /\ MaxRetries * (U + C) <= MaxRetries * C2
    BY <1>5, <1>6, <1>7, <2>1, Times
  <2>3. /\ MaxRetries * D \in Nat /\ MaxRetries * C \in Nat /\ MaxRetries * U \in Nat
        /\ MaxRetries * C2 \in Nat
        /\ MaxRetries * (D + C) = MaxRetries * D + MaxRetries * C
        /\ MaxRetries * (D + C2) = MaxRetries * D + MaxRetries * C2
    BY <1>5, <1>6, <1>7, Times
  <2> QED
    BY <2>2, <2>3
<1>10. /\ MaxRetries * D + R <= F /\ Q + H <= D
       /\ Owed(s)' <=> MaxRetries * D + 0 <= F
       /\ Audited(s)' <=> Q + H2 <= D
       /\ Exact(s) <=> F <= MaxRetries * (D + C) + R /\ D <= Q + H + C
       /\ Exact(s)' <=> F <= MaxRetries * (D + C2) + 0 /\ D <= Q + H2 + C2
  BY <1>1, <1>2, <1>3 DEF Owed, Audited, Exact
<1> DEFINE MD == MaxRetries * D
           MC == MaxRetries * C
           MC2 == MaxRetries * C2
           MU == MaxRetries * U
<1>11. /\ MD \in Nat /\ MC \in Nat /\ MC2 \in Nat /\ MU \in Nat /\ MU + MC <= MC2
       /\ R <= MU /\ MD + R <= F
       /\ Owed(s)' <=> MD + 0 <= F
       /\ Exact(s) => F <= MD + MC + R /\ D <= Q + H + C
       /\ Exact(s)' <=> F <= MD + MC2 + 0 /\ D <= Q + H2 + C2
  BY <1>8, <1>9, <1>10
<1> HIDE DEF F, Q, D, R, U, H, H2, C, C2, MD, MC, MC2, MU
<1>12. Owed(s)'
  BY <1>5, <1>11
<1>13. Audited(s)'
  BY <1>5, <1>6, <1>10
<1>14. ASSUME Exact(s) PROVE Exact(s)'
  BY <1>5, <1>6, <1>11, <1>14
<1> QED
  BY <1>12, <1>13, <1>14

LEMMA FailingKept ==
  ASSUME Typed, IInv, Endings, IsFiniteSet(Busy), IsFiniteSet(Busy)', Attempts, Failing,
         [Next]_vars
  PROVE  Failing'
<1> SUFFICES ASSUME NEW s \in Submissions
             PROVE  Owed(s)' /\ Audited(s)' /\ (faults' = 0 => Exact(s)')
  BY DEF Failing
<1>1. Owed(s) /\ Audited(s) /\ (faults = 0 => Exact(s))
  BY DEF Failing
<1>2. {"dlq_audit"} \in SUBSET Holding /\ {"failed", "dlq_audit"} \subseteq Tables
  BY DEF Holding, Tables
<1>3. faults \in Nat
  BY TypedParts DEF Typed, RestTyped
<1>4. CASE QuietStep /\ faults' = faults
  <2>1. Holders(s, {"dlq_audit"})' = Holders(s, {"dlq_audit"})
    BY <1>2, <1>4, QuietHolders
  <2>2. ASSUME NEW v \in Workers PROVE Share(v, s)' = Share(v, s)
    <3>1. \/ pc'[v] = pc[v]
          \/ /\ pc[v] \notin Trying \cup {"dead_letters"}
             /\ pc'[v] \notin Trying \cup {"dead_letters"}
      BY <1>4 DEF QuietStep, Holding, Trying
    <3> QED
      BY <1>4, <3>1 DEF QuietStep, Share, Failures
  <2>3. Recorded(s)' = Recorded(s)
    BY <2>2, RecordedKept
  <2>4. Dead(s)' = Dead(s)
    BY <1>4, DeadSame DEF QuietStep
  <2>5. rows'["failed"] = rows["failed"] /\ rows'["dlq_audit"] = rows["dlq_audit"]
    BY <1>2, <1>4 DEF QuietStep
  <2>6. Owed(s)' /\ Audited(s)'
    BY <1>1, <2>1, <2>3, <2>4, <2>5 DEF Owed, Audited
  <2>7. ASSUME Exact(s) PROVE Exact(s)'
    <3> DEFINE F == rows["failed"][s]
               Q == rows["dlq_audit"][s]
               D == Dead(s)
               R == Cardinality(Recorded(s))
               H == Cardinality(Holders(s, {"dlq_audit"}))
               C == Cardinality(CutOff(s))
               C2 == Cardinality(CutOff(s)')
               MD == MaxRetries * (D + C)
               MD2 == MaxRetries * (D + C2)
    <3>1. /\ F \in Nat /\ Q \in Nat /\ D \in Nat /\ R \in Nat /\ H \in Nat /\ C \in Nat
          /\ C2 \in Nat /\ C <= C2
      BY FailingCounts, CutOffGrows
    <3>2. MD \in Nat /\ MD2 \in Nat /\ MD <= MD2
      <4>1. D + C \in Nat /\ D + C2 \in Nat /\ D + C <= D + C2
        BY <3>1
      <4> QED
        BY <4>1, Times
    <3>3. /\ F <= MD + R /\ D <= Q + H + C
          /\ Exact(s)' <=> F <= MD2 + R /\ D <= Q + H + C2
      BY <2>1, <2>3, <2>4, <2>5, <2>7 DEF Exact
    <3> HIDE DEF F, Q, D, R, H, C, C2, MD, MD2
    <3> QED
      BY <3>1, <3>2, <3>3
  <2> QED
    BY <1>1, <1>4, <2>6, <2>7
<1>5. CASE Dies /\ (Killed \/ faults' = faults + 1)
  <2>1. faults' = 0 => faults = 0
    BY <1>3, <1>5 DEF Killed
  <2> QED
    BY <1>1, <1>5, <2>1, FailingDeath
<1>6. ASSUME NEW w \in Workers, BeginStep(w), faults' = faults
      PROVE  Owed(s)' /\ Audited(s)' /\ (faults' = 0 => Exact(s)')
  <2>1. /\ Alone(w) /\ pc[w] \in {"idle", "consume"} /\ hands[w] = NoMessage
        /\ rows' = rows /\ deadLetters' = deadLetters /\ attempt'[w] = 1
        /\ pc'[w] \in {"leads", "failed"}
    BY <1>6, FirstCallPlace DEF BeginStep, storeVars
  <2>2. Dead(s)' = Dead(s)
    BY <2>1, DeadSame
  <2>3. Share(w, s) = 0 /\ Share(w, s)' = 0
    BY <2>1 DEF Share, Failures, Trying, AttemptCalls
  <2>4. FailureMove(w, s) /\ LetterMove(w, s)
    BY <2>1, <2>2, <2>3 DEF FailureMove, LetterMove, EntryMove
  <2> QED
    BY <1>1, <1>6, <2>1, <2>4, FailingStep
<1>7. ASSUME NEW w \in Workers, Attempt(w) \/ GiveUp(w), faults' = faults
      PROVE  Owed(s)' /\ Audited(s)' /\ (faults' = 0 => Exact(s)')
  <2>1. faults = 0 => AttemptsFor(w)
    BY DEF Attempts
  <2>2. /\ Alone(w) /\ LetterMove(w, s) /\ (FailureMove(w, s) \/ FailureLoss(w, s))
        /\ faults = 0 => FailureMove(w, s)
    BY <1>7, <2>1, AttemptFails, GiveUpFails
  <2> QED
    BY <1>1, <1>7, <2>2, FailingStep
<1>8. ASSUME NEW w \in Workers, FaultStep(w)
      PROVE  Owed(s)' /\ Audited(s)' /\ (faults' = 0 => Exact(s)')
  <2>1. faults' # 0
    BY <1>3, <1>8 DEF FaultStep
  <2> QED
    BY <1>1, <1>8, <2>1, FaultFails, FailingStep
<1> QED
  BY <1>4, <1>5, <1>6, <1>7, <1>8, Steps

LEMMA FailingAlways == Spec => [](Attempts /\ Failing)
<1>1. Init => Attempts /\ Failing
  <2> SUFFICES ASSUME Init PROVE Attempts /\ Failing
    OBVIOUS
  <2>1. \A w \in Workers : pc[w] = "idle" /\ hands[w] = NoMessage
    BY Actors DEF Init
  <2>2. Attempts
    BY <2>1 DEF Attempts, AttemptsFor, Trying, AttemptCalls
  <2>3. ASSUME NEW s \in Submissions PROVE Owed(s) /\ Audited(s) /\ Exact(s)
    <3>1. \A w \in Workers : Share(w, s) = 0
      BY <2>1 DEF Share, Failures, Trying, AttemptCalls
    <3>2. \A i \in 1 .. MaxRetries : ~(i <= 0)
      OBVIOUS
    <3>3. /\ Recorded(s) = {} /\ Holders(s, {"dlq_audit"}) = {} /\ DeadLettersOf(s) = {}
          /\ CutOff(s) = {}
      BY <2>1, <3>1, <3>2 DEF Recorded, Holders, CutOff, DeadLettersOf, Init
    <3>4. rows["failed"][s] = 0 /\ rows["dlq_audit"][s] = 0
      BY DEF Init, Tables
    <3>5. /\ Dead(s) = 0 /\ Cardinality(Recorded(s)) = 0
          /\ Cardinality(Holders(s, {"dlq_audit"})) = 0 /\ Cardinality(CutOff(s)) = 0
      BY <3>3, FS_EmptySet DEF Dead
    <3> QED
      BY <3>4, <3>5, Actors DEF Owed, Audited, Exact
  <2> QED
    BY <2>2, <2>3 DEF Failing
<1>2. Typed /\ IInv /\ Endings /\ IsFiniteSet(Busy) /\ IsFiniteSet(Busy)'
        /\ Attempts /\ Failing /\ [Next]_vars => (Attempts /\ Failing)'
  BY AttemptsKept, FailingKept
<1> QED
  BY <1>1, <1>2, TypeInvariant, Invariant, EndingsAlways, BusyFinite, PTL DEF Spec

(* Whatever store calls fail and whenever processes die, a dead letter has  *)
(* MaxRetries failed logs, replays included, and an audit row has its       *)
(* letter.  As long as no call fails, an event nobody is working on has no  *)
(* other failed log and no letter without its row, but for those of every   *)
(* handler that went down with its process (processLeadIntent.mjs:74-114).  *)
THEOREM DeadLettersAreBacked == Spec => []DeadLetterBacked
<1>1. Typed /\ IsFiniteSet(Busy) /\ Failing => DeadLetterBacked
  <2> SUFFICES ASSUME Typed, IsFiniteSet(Busy), Failing, NEW s \in Submissions
               PROVE
        /\ MaxRetries * Dead(s) <= rows["failed"][s]
        /\ rows["dlq_audit"][s] <= Dead(s)
        /\ faults = 0 /\ AtRest(s) =>
             /\ rows["failed"][s] <= MaxRetries * (Dead(s) + Cardinality(CutOff(s)))
             /\ Dead(s) <= rows["dlq_audit"][s] + Cardinality(CutOff(s))
    BY DEF DeadLetterBacked, Dead
  <2>1. /\ rows["failed"][s] \in Nat /\ rows["dlq_audit"][s] \in Nat
        /\ Dead(s) \in Nat /\ Cardinality(Recorded(s)) \in Nat
        /\ Cardinality(Holders(s, {"dlq_audit"})) \in Nat
        /\ Cardinality(CutOff(s)) \in Nat
    BY FailingCounts
  <2>2. /\ MaxRetries * Dead(s) \in Nat
        /\ MaxRetries * (Dead(s) + Cardinality(CutOff(s))) \in Nat
    <3>1. Dead(s) + Cardinality(CutOff(s)) \in Nat
      BY <2>1
    <3> QED
      BY <2>1, <3>1, Times
  <2>3. Owed(s) /\ Audited(s) /\ (faults = 0 => Exact(s))
    BY DEF Failing
  <2>4. MaxRetries * Dead(s) <= rows["failed"][s] /\ rows["dlq_audit"][s] <= Dead(s)
    BY <2>1, <2>2, <2>3 DEF Owed, Audited
  <2>5. ASSUME faults = 0, AtRest(s)
        PROVE  /\ rows["failed"][s] <= MaxRetries * (Dead(s) + Cardinality(CutOff(s)))
               /\ Dead(s) <= rows["dlq_audit"][s] + Cardinality(CutOff(s))
    <3>1. {"dlq_audit"} \in SUBSET Holding
      BY DEF Holding
    <3>2. Cardinality(Holders(s, {"dlq_audit"})) = 0
      BY <2>5, <3>1, RestHolders, FS_EmptySet
    <3>3. Cardinality(Recorded(s)) = 0
      <4>1. \A w \in Workers : Share(w, s) = 0
        BY <2>5 DEF AtRest, Share, Failures, Trying, AttemptCalls
      <4>2. \A i \in 1 .. MaxRetries : ~(i <= 0)
        OBVIOUS
      <4>3. Recorded(s) = {}
        BY <4>1, <4>2 DEF Recorded
      <4> QED
        BY <4>3, FS_EmptySet
    <3> QED
      BY <2>1, <2>2, <2>3, <2>5, <3>2, <3>3 DEF Exact
  <2> QED
    BY <2>4, <2>5
<1> QED
  BY <1>1, FailingAlways, BusyFinite, TypeInvariant, PTL

-----------------------------------------------------------------------------
(* One lead for a submission, or one for each replay of it                  *)

(* As long as no store call fails, a replay is of a dead letter that is     *)
(* there, and what it holds is what that letter is about.                   *)
AimedAt(w) ==
  /\ target[w] # 0 => pc[w] # "idle" /\ target[w] \in DOMAIN deadLetters
  /\ pc[w] \in Holding => target[w] # 0 /\ deadLetters[target[w]].of = hands[w].of

Aimed == faults = 0 => \A w \in Replayers : AimedAt(w)

LEMMA AimedKept ==
  ASSUME Typed, IInv, Aimed, [Next]_vars
  PROVE  Aimed'
<1> SUFFICES ASSUME faults' = 0, NEW v \in Replayers PROVE AimedAt(v)'
  BY DEF Aimed
<1>1. /\ faults = 0
      /\ \/ QuietStep \/ Killed
         \/ \E w \in Workers : BeginStep(w) \/ Attempt(w) \/ GiveUp(w)
  BY StepKinds
<1>2. AimedAt(v) /\ v \in Workers
  BY <1>1, Actors DEF Aimed
<1>3. ASSUME target'[v] = target[v], DOMAIN deadLetters \subseteq DOMAIN deadLetters',
             \A d \in DOMAIN deadLetters : deadLetters'[d].of = deadLetters[d].of,
             pc'[v] = "idle" => pc[v] = "idle",
             pc'[v] \in Holding => pc[v] \in Holding /\ hands'[v] = hands[v]
      PROVE  AimedAt(v)'
  BY <1>2, <1>3 DEF AimedAt
<1>4. CASE QuietStep
  BY <1>2, <1>3, <1>4 DEF QuietStep
<1>5. CASE Killed
  <2>1. pc'[v] = (IF pc[v] = "idle" THEN "idle" ELSE "done")
        /\ UNCHANGED <<workerVars, storeVars>>
    BY <1>2, <1>5, Actors DEF Killed, Dies
  <2> QED
    BY <1>3, <2>1 DEF workerVars, storeVars, Holding, AttemptCalls
<1>6. ASSUME NEW w \in Workers, BeginStep(w) PROVE AimedAt(v)'
  <2>1. deadLetters' = deadLetters /\ Alone(w)
    BY <1>6 DEF BeginStep, storeVars
  <2>2. CASE v # w
    BY <1>2, <1>3, <2>1, <2>2 DEF Alone
  <2>3. CASE v = w
    <3>1. /\ pc'[w] \in {"failed", "leads"} /\ target'[w] \in DOMAIN deadLetters
          /\ deadLetters[target'[w]].of = hands'[w].of
      BY <1>6, <2>3, FirstCallPlace DEF BeginStep
    <3>2. target'[w] # 0
      BY <3>1, StoreTyped
    <3> QED
      BY <2>1, <2>3, <3>1, <3>2 DEF AimedAt
  <2> QED
    BY <2>2, <2>3
<1>7. ASSUME NEW w \in Workers, Attempt(w) \/ GiveUp(w) PROVE AimedAt(v)'
  <2>1. StoreStep(w)
    BY <1>7, AttemptStores, GiveUpStores
  <2>2. PICK t \in Holding, u \in Places : Call(w, t, u) /\ target' = target
    <3>1. CASE Attempt(w)
      BY <3>1, AttemptCall DEF Holding, AttemptCalls, Places, UnguardedCalls
    <3>2. CASE GiveUp(w)
      <4>1. FirstCall(hands[w]) \in Places /\ {"consume", "mark_replayed", "dead_letters", "dlq_audit"} \subseteq Places
        BY FirstCallPlace DEF Places, AttemptCalls, UnguardedCalls
      <4>2. {"failed", "dead_letters", "dlq_audit"} \subseteq Holding
        BY DEF Holding
      <4> QED
        BY <3>2, <4>1, <4>2, GiveUpCall
    <3> QED
      BY <1>7, <3>1, <3>2
  <2>3. CASE v # w
    BY <1>2, <1>3, <2>1, <2>2, <2>3 DEF StoreStep, Call, Alone
  <2>4. CASE v = w
    BY <1>3, <2>1, <2>2, <2>4 DEF StoreStep, Call
  <2> QED
    BY <2>3, <2>4
<1> QED
  BY <1>1, <1>4, <1>5, <1>6, <1>7

(* The replays of s whose attempts have come past the first store call, or  *)
(* to an end, and did or did not create a lead.                             *)
Past(s)  == {w \in ReplaysOf(s) : pc[w] \notin {"leads", "failed"}}
Fresh(s) == pc[s] = "idle" \/ InQueue(s)

LeadsFor(s) ==
  /\ DeadLettersOf(s) = {} => rows["leads"][s] <= 1
  /\ DeadLettersOf(s) # {} => rows["leads"][s] <= Cardinality(Past(s))
  /\ Fresh(s) => rows["leads"][s] = 0
  /\ \A w \in Consumers :
       hands[w].of = s /\ pc[w] \in {"leads", "failed", "dead_letters"} =>
         rows["leads"][s] = 0 /\ DeadLettersOf(s) = {}

LeadsMade == faults = 0 => \A s \in Submissions : LeadsFor(s)

LEMMA ReplaysFinite ==
  ASSUME IsFiniteSet(Busy), \A w \in Replayers : AimedAt(w), NEW s
  PROVE  /\ IsFiniteSet(ReplaysOf(s)) /\ IsFiniteSet(Past(s)) /\ Cardinality(Past(s)) \in Nat
         /\ Cardinality(ReplaysOf(s)) \in Nat
         /\ Cardinality(Past(s)) <= Cardinality(ReplaysOf(s))
<1>1. ReplaysOf(s) \subseteq Busy /\ Past(s) \subseteq ReplaysOf(s)
  BY Actors DEF ReplaysOf, AimedAt, Busy, Past
<1> QED
  BY <1>1, FS_Subset, FS_CardinalityType

(* Nobody becomes fresh.                                                    *)
LEMMA FreshOnce ==
  ASSUME Typed, [Next]_vars, NEW s \in Submissions, Fresh(s)'
  PROVE  Fresh(s)
<1>1. queue \in Seq(Messages) /\ pc \in [Callers -> Places]
  BY TypedParts DEF Typed, RestTyped
<1>2. ASSUME NEW c \in Callers, NEW next \in Places \ {"idle"}, Goto(c, next), queue' = queue
      PROVE  Fresh(s)
  <2>1. pc'[s] = "idle" => pc[s] = "idle"
    BY <1>2, PcFacts, Actors
  <2> QED
    BY <1>2, <2>1 DEF Fresh, InQueue
<1>3. CASE UNCHANGED vars
  BY <1>3 DEF vars, Fresh, InQueue
<1>4. ASSUME NEW x \in Submissions, Submit(x)
      PROVE  Fresh(s)
  <2>1. CASE Accept(x)
    <3>1. /\ pc[x] = "idle" /\ queue' = Append(queue, Message(x))
          /\ \E next \in {"consume", "done"} : Goto(x, next)
      BY <2>1 DEF Accept, Enqueued
    <3>2. pc'[s] = "idle" => pc[s] = "idle"
      BY <3>1, PcFacts, Actors
    <3>3. Message(x) \in Messages /\ Message(x).of = x
      BY DEF Message, Messages
    <3>4. InQueue(s)' => InQueue(s) \/ s = x
      <4>1. \A i \in DOMAIN Append(queue, Message(x)) :
              \/ i \in DOMAIN queue /\ Append(queue, Message(x))[i] = queue[i]
              \/ Append(queue, Message(x))[i] = Message(x)
        BY <1>1, <3>3
      <4> QED
        BY <3>1, <3>3, <4>1 DEF InQueue
    <3> QED
      BY <3>1, <3>2, <3>4 DEF Fresh
  <2> QED
    BY <1>2, <1>4, <2>1, Actors DEF Submit, RejectInvalid, IgnoreDuplicate, Places
<1>5. ASSUME NEW x \in Submissions, ReceiptLands(x) PROVE Fresh(s)
  BY <1>5 DEF ReceiptLands, Fresh, InQueue
<1>6. CASE Dies
  <2>1. pc'[s] = "idle" => pc[s] = "idle"
    BY <1>6, Actors DEF Dies
  <2>2. ~InQueue(s)'
    BY <1>6 DEF Dies, InQueue
  <2> QED
    BY <2>1, <2>2 DEF Fresh
<1>7. ASSUME NEW w \in Consumers, Consume(w) PROVE Fresh(s)
  <2>1. CASE TakeMessage(w)
    <3>1. queue # <<>> /\ queue' = Tail(queue) /\ \E next \in {"leads", "failed"} : Goto(w, next)
      BY <2>1, FirstCallPlace DEF TakeMessage, Shifted
    <3>2. pc'[s] = "idle" => pc[s] = "idle"
      BY <3>1, PcFacts, Actors
    <3>3. InQueue(s)' => InQueue(s)
      <4>1. \A i \in DOMAIN Tail(queue) : i + 1 \in DOMAIN queue /\ Tail(queue)[i] = queue[i + 1]
        BY <1>1, <3>1
      <4> QED
        BY <3>1, <4>1 DEF InQueue
    <3> QED
      BY <3>2, <3>3 DEF Fresh
  <2> QED
    BY <1>2, <1>7, <2>1, Actors DEF Consume, QueueDrained, Respond, Places
<1>8. ASSUME NEW w \in Workers, Attempt(w) PROVE Fresh(s)
  <2>1. queue' = queue /\ \E next \in Places \ {"idle"} : Goto(w, next)
    BY <1>8 DEF Attempt, CreateLead, CreateLeadConflicts, SaveLeadEvent,
       SaveLeadEventConflicts, SaveSolarEstimate, SaveReplyDraft, SaveDraftAudit,
       SaveProcessedLog, Insert, Return, Places, AttemptCalls, UnguardedCalls
  <2> QED
    BY <1>2, <2>1, Actors
<1>9. ASSUME NEW w \in Workers, GiveUp(w) PROVE Fresh(s)
  <2>1. queue' = queue /\ \E next \in Places \ {"idle"} : Goto(w, next)
    BY <1>9, FirstCallPlace DEF GiveUp, SaveFailedLog, CreateDeadLetter,
       SaveDlqAudit, Return, AfterRetries, Places, AttemptCalls, UnguardedCalls
  <2> QED
    BY <1>2, <2>1, Actors
<1>10. ASSUME NEW w \in Workers, FinishReplay(w) \/ Fault(w) PROVE Fresh(s)
  <2>1. queue' = queue /\ \E next \in Places \ {"idle"} : Goto(w, next)
    BY <1>10 DEF FinishReplay, MarkReplayed, SaveReplayAudit, Fault,
       AttemptCallFails, UnguardedCallFails, Places, UnguardedCalls
  <2> QED
    BY <1>2, <2>1, Actors
<1>11. ASSUME NEW w \in Replayers, Replay(w) PROVE Fresh(s)
  <2>1. queue' = queue /\ \E next \in Places \ {"idle"} : Goto(w, next)
    BY <1>11, FirstCallPlace DEF Replay, StartReplay, ReplayUnknown, Places,
       AttemptCalls, UnguardedCalls
  <2> QED
    BY <1>2, <2>1, Actors
<1> QED
  BY <1>3, <1>4, <1>5, <1>6, <1>7, <1>8, <1>9, <1>10, <1>11
     DEF Next, Killed, ReceiptFails, Work

(* What a step may do to the replays of s: they become no fewer.            *)
LEMMA PastGrows ==
  ASSUME IsFiniteSet(Busy), IsFiniteSet(Busy)', NEW s, NEW n \in Nat,
         \A w \in Replayers : AimedAt(w) /\ AimedAt(w)',
         n <= Cardinality(Past(s)), Past(s) \subseteq Past(s)'
  PROVE  n <= Cardinality(Past(s)')
<1>1. IsFiniteSet(Past(s)')
  <2>1. Past(s)' \subseteq Busy'
    BY Actors DEF Past, ReplaysOf, AimedAt, Busy
  <2> QED
    BY <2>1, FS_Subset
<1>2. /\ Cardinality(Past(s)) <= Cardinality(Past(s)')
      /\ Cardinality(Past(s)) \in Nat /\ Cardinality(Past(s)') \in Nat
  BY <1>1, FS_Subset, FS_CardinalityType
<1> QED
  BY <1>2

(* A step that writes no lead, moves no consumer to a place before its      *)
(* lead, and takes no replay back.                                          *)
LEMMA LeadsForKept ==
  ASSUME Typed, IsFiniteSet(Busy), IsFiniteSet(Busy)', NEW s \in Submissions, LeadsFor(s),
         \A w \in Replayers : AimedAt(w) /\ AimedAt(w)',
         Fresh(s)' => Fresh(s), rows'["leads"][s] = rows["leads"][s],
         (DeadLettersOf(s) = {})' <=> DeadLettersOf(s) = {},
         Past(s) \subseteq Past(s)',
         \A w \in Consumers :
           hands'[w].of = s /\ pc'[w] \in {"leads", "failed", "dead_letters"} =>
             \/ hands[w].of = s /\ pc[w] \in {"leads", "failed", "dead_letters"}
             \/ Fresh(s) /\ DeadLettersOf(s) = {}
  PROVE  LeadsFor(s)'
<1>1. rows["leads"][s] \in Nat
  BY StoreTyped DEF Tables, AttemptCalls
<1>2. ASSUME DeadLettersOf(s) # {} PROVE rows'["leads"][s] <= Cardinality(Past(s)')
  BY <1>1, <1>2, PastGrows DEF LeadsFor
<1> QED
  BY <1>1, <1>2 DEF LeadsFor

(* Who is past his first store call stays so.                               *)
LEMMA PastKept ==
  ASSUME NEW s, \A w \in Replayers : AimedAt(w),
         DOMAIN deadLetters \subseteq DOMAIN deadLetters',
         \A d \in DOMAIN deadLetters : deadLetters'[d].of = deadLetters[d].of,
         \A w \in Replayers : target[w] # 0 =>
           /\ target'[w] = target[w]
           /\ pc[w] \notin {"leads", "failed"} => pc'[w] \notin {"leads", "failed"}
  PROVE  Past(s) \subseteq Past(s)'
BY DEF Past, ReplaysOf, AimedAt

(* Nobody but w has w's message, if w is a consumer.                        *)
LEMMA HeldAlone ==
  ASSUME IInv, NEW v \in Consumers, NEW w \in Consumers, hands[v].of = hands[w].of,
         hands[v].of \in Submissions
  PROVE  v = w
BY NoMessageOf DEF IInv, HandledOnce

(* A worker creates the lead of its message: a consumer the first one, a    *)
(* replay one of its own.                                                   *)
LEMMA LeadCreated ==
  ASSUME Typed, Typed', IInv, IsFiniteSet(Busy), IsFiniteSet(Busy)',
         NEW w \in Workers, Call(w, "leads", "lead_events"), Wrote("leads", hands[w].of),
         deadLetters' = deadLetters, target' = target, NEW s \in Submissions, LeadsFor(s),
         \A v \in Replayers : AimedAt(v) /\ AimedAt(v)', Fresh(s)' => Fresh(s)
  PROVE  LeadsFor(s)'
<1>1. /\ Alone(w) /\ pc[w] = "leads" /\ pc'[w] = "lead_events" /\ hands'[w] = hands[w]
      /\ hands[w].of \in Submissions
  BY DEF Call, Holding, AttemptCalls, Messages
<1>2. DeadLettersOf(s)' = DeadLettersOf(s)
  BY DEF DeadLettersOf
<1>3. Past(s) \subseteq Past(s)'
  BY <1>1, Actors DEF Past, ReplaysOf, Alone
<1>4. CASE hands[w].of # s
  <2>1. rows'["leads"][s] = rows["leads"][s]
    BY <1>4 DEF Wrote, Tables, AttemptCalls
  <2> QED
    BY <1>1, <1>2, <1>3, <2>1, LeadsForKept, Actors DEF Alone
<1>5. CASE hands[w].of = s
  <2>1. rows["leads"][s] \in Nat /\ rows'["leads"][s] = rows["leads"][s] + 1
    BY <1>5, StoreTyped DEF Wrote, Tables, AttemptCalls
  <2>2. ~Fresh(s)
    BY <1>5, HeldElsewhere DEF Fresh
  <2>3. CASE w \in Consumers
    <3>1. rows["leads"][s] = 0 /\ DeadLettersOf(s) = {}
      BY <1>1, <1>5, <2>3 DEF LeadsFor
    <3>2. \A v \in Consumers : ~(hands'[v].of = s /\ pc'[v] \in {"leads", "failed", "dead_letters"})
      BY <1>1, <1>5, <2>3, HeldAlone, Actors DEF Alone
    <3> QED
      BY <1>2, <2>1, <2>2, <3>1, <3>2 DEF LeadsFor
  <2>4. CASE w \in Replayers
    <3>1. hands[w] # NoMessage
      BY <1>1, NoMessageOf
    <3>2. DeadLettersOf(s) # {}
      BY <1>5, <2>4, <3>1 DEF IInv, Flow
    <3>3. w \in ReplaysOf(s) /\ w \notin Past(s)
      BY <1>1, <1>5, <2>4 DEF AimedAt, ReplaysOf, Past, Holding, AttemptCalls
    <3>4. Past(s)' = Past(s) \cup {w}
      BY <1>1, <2>4, <3>3, Actors DEF Past, ReplaysOf, Alone
    <3>5. Cardinality(Past(s)') = Cardinality(Past(s)) + 1 /\ Cardinality(Past(s)) \in Nat
      BY <3>3, <3>4, ReplaysFinite, FS_AddElement
    <3>6. rows'["leads"][s] <= Cardinality(Past(s)')
      BY <2>1, <3>2, <3>5 DEF LeadsFor
    <3>7. \A v \in Consumers : ~(hands'[v].of = s /\ pc'[v] \in {"leads", "failed", "dead_letters"})
      BY <1>1, <2>4, <3>2, Actors DEF Alone, LeadsFor
    <3> QED
      BY <1>2, <2>2, <3>2, <3>6, <3>7 DEF LeadsFor
  <2> QED
    BY <2>3, <2>4, Actors
<1> QED
  BY <1>4, <1>5

(* A dead letter is written: by a consumer for an event without a lead, or  *)
(* by a replay for one that had letters before.                             *)
LEMMA LetterCreated ==
  ASSUME Typed, IInv, IsFiniteSet(Busy), IsFiniteSet(Busy)',
         NEW w \in Workers, Call(w, "dead_letters", "dlq_audit"), rows' = rows,
         deadLetters' = Append(deadLetters, DeadLetter(hands[w])), target' = target,
         NEW s \in Submissions, LeadsFor(s),
         \A v \in Replayers : AimedAt(v) /\ AimedAt(v)', Fresh(s)' => Fresh(s)
  PROVE  LeadsFor(s)'
<1>1. /\ Alone(w) /\ pc[w] = "dead_letters" /\ pc'[w] = "dlq_audit" /\ hands'[w] = hands[w]
      /\ hands[w] \in Messages /\ hands[w].of \in Submissions
  BY DEF Call, Holding, AttemptCalls, Messages
<1> DEFINE new == Len(deadLetters) + 1
<1>2. /\ DOMAIN deadLetters' = DOMAIN deadLetters \cup {new}
      /\ \A d \in DOMAIN deadLetters : deadLetters'[d] = deadLetters[d]
      /\ deadLetters'[new].of = hands[w].of
  BY <1>1, StoreTyped, LetterAppended
<1> HIDE DEF new
<1>3. Past(s) \subseteq Past(s)'
  BY <1>1, <1>2, PastKept, Actors DEF Alone
<1>4. rows["leads"][s] \in Nat
  BY StoreTyped DEF Tables, AttemptCalls
<1>5. CASE hands[w].of # s
  <2>1. (DeadLettersOf(s) = {})' <=> DeadLettersOf(s) = {}
    BY <1>2, <1>5 DEF DeadLettersOf
  <2> QED
    BY <1>1, <1>3, <2>1, LeadsForKept, Actors DEF Alone
<1>6. CASE hands[w].of = s
  <2>1. DeadLettersOf(s)' # {}
    BY <1>2, <1>6 DEF DeadLettersOf
  <2>2. ~Fresh(s)
    BY <1>6, HeldElsewhere DEF Fresh
  <2>3. CASE w \in Consumers
    <3>1. rows["leads"][s] = 0
      BY <1>1, <1>6, <2>3 DEF LeadsFor
    <3>2. 0 <= Cardinality(Past(s)) /\ 0 \in Nat
      BY ReplaysFinite
    <3>3. rows'["leads"][s] <= Cardinality(Past(s)')
      BY <1>3, <3>1, <3>2, PastGrows
    <3>4. \A v \in Consumers : ~(hands'[v].of = s /\ pc'[v] \in {"leads", "failed", "dead_letters"})
      BY <1>1, <1>6, <2>3, HeldAlone, Actors DEF Alone
    <3> QED
      BY <2>1, <2>2, <3>3, <3>4 DEF LeadsFor
  <2>4. CASE w \in Replayers
    <3>1. hands[w] # NoMessage
      BY <1>1, NoMessageOf
    <3>2. DeadLettersOf(s) # {}
      BY <1>6, <2>4, <3>1 DEF IInv, Flow
    <3> QED
      BY <1>1, <1>3, <2>1, <2>4, <3>2, LeadsForKept, Actors DEF Alone
  <2> QED
    BY <2>3, <2>4, Actors
<1> QED
  BY <1>5, <1>6

(* Any other call of an attempt leaves leads and letters as they are.       *)
LEMMA OtherCalls ==
  ASSUME Typed, IsFiniteSet(Busy), IsFiniteSet(Busy)', NEW w \in Workers,
         NEW t, NEW u, Call(w, t, u), target' = target, deadLetters' = deadLetters,
         NEW s \in Submissions, rows'["leads"][s] = rows["leads"][s],
         u \in {"leads", "failed", "dead_letters"} => t \in {"leads", "failed"},
         LeadsFor(s),
         \A v \in Replayers : AimedAt(v) /\ AimedAt(v)', Fresh(s)' => Fresh(s)
  PROVE  LeadsFor(s)'
<1>1. /\ Alone(w) /\ pc[w] = t /\ pc'[w] = u
      /\ hands'[w] = hands[w] \/ hands'[w] = NoMessage
  BY DEF Call
<1>2. (DeadLettersOf(s) = {})' <=> DeadLettersOf(s) = {}
  BY DEF DeadLettersOf
<1>3. Past(s) \subseteq Past(s)'
  BY <1>1, Actors DEF Past, ReplaysOf, Alone
<1> QED
  BY <1>1, <1>2, <1>3, LeadsForKept, NoMessageOf, Actors DEF Alone

LEMMA LeadsMadeKept ==
  ASSUME Typed, Typed', IInv, IsFiniteSet(Busy), IsFiniteSet(Busy)', Aimed, Aimed',
         LeadsMade, [Next]_vars
  PROVE  LeadsMade'
<1> SUFFICES ASSUME faults' = 0, NEW s \in Submissions PROVE LeadsFor(s)'
  BY DEF LeadsMade
<1>1. /\ faults = 0
      /\ \/ QuietStep \/ Killed
         \/ \E w \in Workers : BeginStep(w) \/ Attempt(w) \/ GiveUp(w)
  BY StepKinds
<1>2. LeadsFor(s) /\ \A v \in Replayers : AimedAt(v) /\ AimedAt(v)'
  BY <1>1 DEF LeadsMade, Aimed
<1>3. Fresh(s)' => Fresh(s)
  BY FreshOnce
<1>4. "leads" \in Tables
  BY DEF Tables, AttemptCalls
<1>5. CASE QuietStep
  <2>1. \A v \in Workers : pc'[v] \in {"leads", "failed", "dead_letters"} => pc'[v] = pc[v]
    BY <1>5 DEF QuietStep, Holding, AttemptCalls
  <2>2. Past(s) \subseteq Past(s)'
    BY <1>2, <1>5, <2>1, PastKept, Actors DEF QuietStep
  <2>3. (DeadLettersOf(s) = {})' <=> DeadLettersOf(s) = {}
    BY <1>5 DEF QuietStep, DeadLettersOf
  <2>4. rows'["leads"][s] = rows["leads"][s] /\ hands' = hands
    BY <1>4, <1>5 DEF QuietStep
  <2> QED
    BY <1>2, <1>3, <2>1, <2>2, <2>3, <2>4, LeadsForKept, Actors
<1>6. CASE Killed
  <2>1. UNCHANGED <<workerVars, storeVars>> /\ \A v \in Workers : pc'[v] \in {"idle", "done"}
    BY <1>6, Actors DEF Killed, Dies
  <2>2. Past(s) \subseteq Past(s)'
    BY <1>2, <2>1, PastKept, Actors DEF workerVars, storeVars
  <2>3. (DeadLettersOf(s) = {})' <=> DeadLettersOf(s) = {}
    BY <2>1 DEF storeVars, DeadLettersOf
  <2>4. rows'["leads"][s] = rows["leads"][s]
    BY <2>1 DEF storeVars
  <2> QED
    BY <1>2, <1>3, <2>1, <2>2, <2>3, <2>4, LeadsForKept, Actors
<1>7. ASSUME NEW w \in Workers, BeginStep(w) PROVE LeadsFor(s)'
  <2>1. Alone(w) /\ UNCHANGED storeVars /\ (w \in Consumers => InQueue(hands'[w].of))
        /\ (w \in Replayers => pc[w] = "idle")
    BY <1>7 DEF BeginStep
  <2>2. Past(s) \subseteq Past(s)'
    <3>1. \A v \in Replayers : target[v] # 0 => v # w
      BY <1>2, <2>1 DEF AimedAt
    <3> QED
      BY <1>2, <2>1, <3>1, PastKept, Actors DEF Alone, storeVars
  <2>3. (DeadLettersOf(s) = {})' <=> DeadLettersOf(s) = {}
    BY <2>1 DEF storeVars, DeadLettersOf
  <2>4. rows'["leads"][s] = rows["leads"][s]
    BY <2>1 DEF storeVars
  <2>5. InQueue(s) => Fresh(s) /\ DeadLettersOf(s) = {}
    BY DEF Fresh, IInv, HandledOnce, Finished
  <2>6. \A v \in Consumers : hands'[v].of = s =>
          \/ hands'[v] = hands[v] /\ pc'[v] = pc[v]
          \/ Fresh(s) /\ DeadLettersOf(s) = {}
    BY <2>1, <2>5, Actors DEF Alone
  <2> QED
    BY <1>2, <1>3, <2>2, <2>3, <2>4, <2>6, LeadsForKept
<1>8. ASSUME NEW w \in Workers, Attempt(w) PROVE LeadsFor(s)'
  <2>1. PICK h \in Submissions, t \in AttemptCalls, u \in Places :
          /\ h = hands[w].of /\ deadLetters' = deadLetters /\ target' = target
          /\ Call(w, t, u) /\ (rows' = rows \/ Wrote(t, h))
          /\ \/ t = "leads" /\ u = "lead_events" /\ Wrote("leads", h)
             \/ t = "leads" /\ u = "failed" /\ rows' = rows
             \/ t # "leads" /\ u \notin {"leads", "failed", "dead_letters"}
    BY <1>8, AttemptCall DEF AttemptCalls, Places, UnguardedCalls
  <2>2. CASE t = "leads" /\ u = "lead_events" /\ Wrote("leads", h)
    BY <1>2, <1>3, <2>1, <2>2, LeadCreated
  <2>3. CASE ~(t = "leads" /\ u = "lead_events")
    <3>1. rows'["leads"][s] = rows["leads"][s]
      BY <1>4, <2>1, <2>3 DEF Wrote
    <3>2. u \in {"leads", "failed", "dead_letters"} => t \in {"leads", "failed"}
      BY <2>1, <2>3
    <3> QED
      BY <1>2, <1>3, <2>1, <3>1, <3>2, OtherCalls
  <2> QED
    BY <2>1, <2>2, <2>3
<1>9. ASSUME NEW w \in Workers, GiveUp(w) PROVE LeadsFor(s)'
  <2>1. PICK h \in Submissions :
          /\ h = hands[w].of /\ target' = target
          /\ \/ /\ deadLetters' = deadLetters
                /\ \E t \in {"failed", "dlq_audit"}, u \in Places :
                     /\ Call(w, t, u) /\ Wrote(t, h)
                     /\ u \in {"leads", "failed", "dead_letters"} => t = "failed"
             \/ /\ Call(w, "dead_letters", "dlq_audit") /\ rows' = rows
                /\ deadLetters' = Append(deadLetters, DeadLetter(hands[w]))
    <3>1. {FirstCall(hands[w]), "consume", "mark_replayed", "dead_letters"} \subseteq Places
      BY FirstCallPlace DEF Places, AttemptCalls, UnguardedCalls
    <3> QED
      BY <1>9, <3>1, GiveUpCall
  <2>2. CASE /\ Call(w, "dead_letters", "dlq_audit") /\ rows' = rows
             /\ deadLetters' = Append(deadLetters, DeadLetter(hands[w]))
    BY <1>2, <1>3, <2>1, <2>2, LetterCreated
  <2>3. ASSUME NEW t \in {"failed", "dlq_audit"}, NEW u \in Places, Call(w, t, u),
               Wrote(t, h), u \in {"leads", "failed", "dead_letters"} => t = "failed",
               deadLetters' = deadLetters
        PROVE  LeadsFor(s)'
    <3>1. rows'["leads"][s] = rows["leads"][s]
      BY <1>4, <2>3 DEF Wrote
    <3> QED
      BY <1>2, <1>3, <2>1, <2>3, <3>1, OtherCalls
  <2> QED
    BY <2>1, <2>2, <2>3
<1> QED
  BY <1>1, <1>5, <1>6, <1>7, <1>8, <1>9

LEMMA LeadsAlways == Spec => [](Aimed /\ LeadsMade)
<1>1. Init => Aimed /\ LeadsMade
  <2> SUFFICES ASSUME Init PROVE Aimed /\ LeadsMade
    OBVIOUS
  <2>1. \A w \in Workers : pc[w] = "idle" /\ hands[w] = NoMessage
    BY Actors DEF Init
  <2>2. Aimed
    BY <2>1, Actors DEF Aimed, AimedAt, Init, Holding, AttemptCalls
  <2>3. ASSUME NEW s \in Submissions PROVE LeadsFor(s)
    <3>1. rows["leads"][s] = 0 /\ DeadLettersOf(s) = {}
      BY DEF Init, Tables, AttemptCalls, DeadLettersOf
    <3>2. \A w \in Consumers : hands[w].of # s
      BY <2>1, NoMessageOf, Actors
    <3> QED
      BY <3>1, <3>2 DEF LeadsFor
  <2> QED
    BY <2>2, <2>3 DEF LeadsMade
<1>2. /\ Typed /\ Typed' /\ IInv /\ IsFiniteSet(Busy) /\ IsFiniteSet(Busy)'
      /\ Aimed /\ LeadsMade /\ [Next]_vars
      => (Aimed /\ LeadsMade)'
  BY AimedKept, LeadsMadeKept
<1> QED
  BY <1>1, <1>2, TypeInvariant, Invariant, BusyFinite, PTL DEF Spec

(* The submissions a key was accepted for.                                  *)
Takers(k) == {t \in Submissions : Accepted(t) /\ Key[t] = k}

KeyTaken(k) ==
  /\ IsFiniteSet(Takers(k))
  /\ Cardinality(Takers(k)) <= deaths + (IF k \in idempotency THEN 1 ELSE 0)

KeysTaken == \A s \in Submissions : KeyTaken(Key[s])

(* Only Accept adds to what was accepted, and remembers its key; only a     *)
(* death forgets keys.                                                      *)
LEMMA AcceptanceSteps ==
  ASSUME Typed, [Next]_vars
  PROVE  \/ Dies /\ \A t \in Submissions : Accepted(t)' => Accepted(t)
         \/ /\ deaths' = deaths
            /\ \E s \in Submissions :
                 /\ Key[s] \notin idempotency /\ idempotency' = idempotency \cup {Key[s]}
                 /\ \A t \in Submissions : Accepted(t)' => Accepted(t) \/ t = s
         \/ /\ deaths' = deaths /\ idempotency' = idempotency
            /\ \A t \in Submissions : Accepted(t)' => Accepted(t)
<1>1. \A t \in Submissions : rows["received"][t] \in Nat
  BY StoreTyped DEF Tables
<1>2. ASSUME NEW s \in Submissions, rows' = Written("received", s)
      PROVE  \A t \in Submissions : t # s => rows'["received"][t] = rows["received"][t]
  <2>1. "received" \in Tables /\ rows \in Counts
    BY StoreTyped DEF Tables
  <2> QED
    BY ONLY <1>2, <2>1, s \in Submissions, WrittenFacts
<1>3. CASE Dies
  BY <1>3 DEF Dies, storeVars, Accepted
<1>4. ASSUME NEW s \in Submissions, Submit(s) \/ ReceiptLands(s)
      PROVE  \/ /\ deaths' = deaths
                /\ Key[s] \notin idempotency /\ idempotency' = idempotency \cup {Key[s]}
                /\ \A t \in Submissions : Accepted(t)' => Accepted(t) \/ t = s
             \/ /\ deaths' = deaths /\ idempotency' = idempotency
                /\ \A t \in Submissions : Accepted(t)' => Accepted(t)
  <2>1. CASE Accept(s)
    <3>1. /\ Key[s] \notin idempotency /\ idempotency' = idempotency \cup {Key[s]}
          /\ deaths' = deaths
          /\ \/ rows' = Written("received", s) /\ receipts' = receipts
             \/ receipts' = receipts \cup {s} /\ rows' = rows
      BY <2>1 DEF Accept, Remembered, faultVars
    <3>2. \A t \in Submissions : Accepted(t)' => Accepted(t) \/ t = s
      BY <1>2, <3>1 DEF Accepted
    <3> QED
      BY <3>1, <3>2
  <2>2. CASE ReceiptLands(s)
    <3>1. /\ s \in receipts /\ receipts' = receipts \ {s} /\ rows' = Written("received", s)
          /\ idempotency' = idempotency /\ deaths' = deaths
      BY <2>2 DEF ReceiptLands, faultVars
    <3>2. \A t \in Submissions : Accepted(t)' => Accepted(t)
      BY <1>2, <3>1 DEF Accepted
    <3> QED
      BY <3>1, <3>2
  <2> QED
    BY <1>4, <2>1, <2>2
       DEF Submit, RejectInvalid, IgnoreDuplicate, storeVars, faultVars, Accepted
<1>5. ASSUME UNCHANGED <<idempotency, receipts, deaths>>,
             \A t \in Submissions : rows'["received"][t] = rows["received"][t]
      PROVE  /\ deaths' = deaths /\ idempotency' = idempotency
             /\ \A t \in Submissions : Accepted(t)' => Accepted(t)
  BY <1>5 DEF Accepted
<1>6. ASSUME NEW w \in Workers, Work(w) \/ Fault(w)
      PROVE  /\ UNCHANGED <<idempotency, receipts, deaths>>
             /\ \A t \in Submissions : rows'["received"][t] = rows["received"][t]
  <2>1. UNCHANGED <<idempotency, receipts, deaths>>
    BY <1>6 DEF Work, Fault, Consume, TakeMessage, QueueDrained, Respond, Attempt,
       CreateLead, CreateLeadConflicts, SaveLeadEvent, SaveLeadEventConflicts,
       SaveSolarEstimate, SaveReplyDraft, SaveDraftAudit, SaveProcessedLog, Insert,
       GiveUp, SaveFailedLog, CreateDeadLetter, SaveDlqAudit, FinishReplay,
       MarkReplayed, SaveReplayAudit, AttemptCallFails, UnguardedCallFails, StoreFault,
       faultVars
  <2>2. ASSUME w \in Consumers, Consume(w) PROVE rows' = rows
    BY <2>2 DEF Consume, TakeMessage, QueueDrained, Respond, storeVars
  <2>3. ASSUME Attempt(w) \/ GiveUp(w) \/ (w \in Replayers /\ FinishReplay(w)) \/ Fault(w)
        PROVE  \A t \in Submissions : rows'["received"][t] = rows["received"][t]
    <3>1. StoreStep(w)
      BY <2>3, AttemptStores, GiveUpStores, FinishReplayStores, FaultStores
    <3> QED
      BY <3>1 DEF StoreStep
  <2>4. \A t \in Submissions : rows'["received"][t] = rows["received"][t]
    BY <1>6, <2>2, <2>3 DEF Work
  <2> QED
    BY <2>1, <2>4
<1>7. ASSUME NEW w \in Replayers, Replay(w)
      PROVE  /\ UNCHANGED <<idempotency, receipts, deaths>>
             /\ \A t \in Submissions : rows'["received"][t] = rows["received"][t]
  BY <1>7 DEF Replay, StartReplay, ReplayUnknown, storeVars, faultVars
<1>8. CASE UNCHANGED vars
  BY <1>5, <1>8 DEF vars, storeVars, faultVars
<1> QED
  BY <1>3, <1>4, <1>5, <1>6, <1>7, <1>8 DEF Next, Killed, ReceiptFails

LEMMA KeysTakenAlways == Spec => []KeysTaken
<1>1. Init => KeysTaken
  <2> SUFFICES ASSUME Init, NEW s \in Submissions PROVE KeyTaken(Key[s])
    BY DEF KeysTaken
  <2>1. Takers(Key[s]) = {}
    BY DEF Init, Takers, Accepted, Tables
  <2>2. IsFiniteSet(Takers(Key[s])) /\ Cardinality(Takers(Key[s])) = 0
    BY <2>1, FS_EmptySet
  <2> QED
    BY <2>2 DEF KeyTaken, Init
<1>2. Typed /\ KeysTaken /\ [Next]_vars => KeysTaken'
  <2> SUFFICES ASSUME Typed, KeysTaken, [Next]_vars, NEW s \in Submissions,
                      NEW k, k = Key[s]
               PROVE  KeyTaken(k)'
    BY DEF KeysTaken
  <2>1. /\ IsFiniteSet(Takers(k)) /\ Cardinality(Takers(k)) \in Nat /\ deaths \in Nat
        /\ Cardinality(Takers(k)) <= deaths + (IF k \in idempotency THEN 1 ELSE 0)
    BY FS_CardinalityType, TypedParts DEF KeysTaken, KeyTaken, Typed, RestTyped
  <2>2. ASSUME \A t \in Submissions : Accepted(t)' => Accepted(t)
        PROVE  /\ IsFiniteSet(Takers(k)') /\ Cardinality(Takers(k)') <= Cardinality(Takers(k))
               /\ Cardinality(Takers(k)') \in Nat
    <3>1. Takers(k)' \subseteq Takers(k)
      BY <2>2 DEF Takers
    <3> QED
      BY <2>1, <3>1, FS_Subset, FS_CardinalityType
  <2>3. CASE Dies /\ \A t \in Submissions : Accepted(t)' => Accepted(t)
    <3>1. deaths' = deaths + 1 /\ k \notin idempotency'
      BY <2>3 DEF Dies, AfterDeath
    <3>2. Cardinality(Takers(k)') <= deaths + 1
      BY <2>1, <2>2, <2>3
    <3> QED
      BY <2>1, <2>2, <2>3, <3>1, <3>2 DEF KeyTaken
  <2>4. ASSUME NEW x \in Submissions, deaths' = deaths, Key[x] \notin idempotency,
               idempotency' = idempotency \cup {Key[x]},
               \A t \in Submissions : Accepted(t)' => Accepted(t) \/ t = x
        PROVE  KeyTaken(k)'
    <3>1. CASE k = Key[x]
      <4>1. Takers(k)' \subseteq Takers(k) \cup {x}
        BY <2>4 DEF Takers
      <4>2. /\ IsFiniteSet(Takers(k) \cup {x})
            /\ \/ Cardinality(Takers(k) \cup {x}) = Cardinality(Takers(k))
               \/ Cardinality(Takers(k) \cup {x}) = Cardinality(Takers(k)) + 1
        BY <2>1, FS_AddElement
      <4>3. /\ IsFiniteSet(Takers(k)') /\ Cardinality(Takers(k)') \in Nat
            /\ Cardinality(Takers(k)') <= Cardinality(Takers(k) \cup {x})
        BY <4>1, <4>2, FS_Subset, FS_CardinalityType
      <4>4. k \notin idempotency /\ k \in idempotency'
        BY <2>4, <3>1
      <4>5. Cardinality(Takers(k)') <= deaths' + 1
        BY <2>1, <2>4, <4>2, <4>3, <4>4
      <4> QED
        BY <4>3, <4>4, <4>5 DEF KeyTaken
    <3>2. CASE k # Key[x]
      <4>1. Takers(k)' \subseteq Takers(k)
        BY <2>4, <3>2 DEF Takers
      <4>2. /\ IsFiniteSet(Takers(k)') /\ Cardinality(Takers(k)') <= Cardinality(Takers(k))
            /\ Cardinality(Takers(k)') \in Nat
        BY <2>1, <4>1, FS_Subset, FS_CardinalityType
      <4>3. k \in idempotency' <=> k \in idempotency
        BY <2>4, <3>2
      <4> QED
        BY <2>1, <2>4, <4>2, <4>3 DEF KeyTaken
    <3> QED
      BY <3>1, <3>2
  <2>5. CASE /\ deaths' = deaths /\ idempotency' = idempotency
             /\ \A t \in Submissions : Accepted(t)' => Accepted(t)
    BY <2>1, <2>2, <2>5 DEF KeyTaken
  <2> QED
    BY <2>3, <2>4, <2>5, AcceptanceSteps
<1> QED
  BY <1>1, <1>2, TypeInvariant, PTL DEF Spec

(* A process accepts an idempotency key once, so that it is accepted at     *)
(* most once more than processes have died, whatever keys requests share    *)
(* and however they overlap; and, as long as no store call fails, an event  *)
(* becomes one lead, or as many as there are replays of its dead letters    *)
(* (server.mjs:45-64, processLeadIntent.mjs:25).                            *)
THEOREM KeysBecomeOneLead == Spec => []OneLeadPerKey
<1>1. Typed /\ IsFiniteSet(Busy) /\ Aimed /\ LeadsMade /\ KeysTaken => OneLeadPerKey
  <2> SUFFICES ASSUME Typed, IsFiniteSet(Busy), Aimed, LeadsMade, KeysTaken, faults = 0,
                      NEW s \in Submissions
               PROVE  /\ Cardinality(Takers(Key[s])) <= 1 + deaths
                      /\ \/ rows["leads"][s] < 2
                         \/ rows["leads"][s] <= Cardinality(ReplaysOf(s))
    BY DEF OneLeadPerKey, Takers
  <2>1. Cardinality(Takers(Key[s])) <= 1 + deaths
    <3>1. /\ Cardinality(Takers(Key[s])) \in Nat /\ deaths \in Nat
          /\ Cardinality(Takers(Key[s])) <= deaths + (IF Key[s] \in idempotency THEN 1 ELSE 0)
      BY FS_CardinalityType, TypedParts DEF KeysTaken, KeyTaken, Typed, RestTyped
    <3> QED
      BY <3>1
  <2>2. \/ rows["leads"][s] < 2
        \/ rows["leads"][s] <= Cardinality(ReplaysOf(s))
    <3>1. rows["leads"][s] \in Nat
      BY StoreTyped DEF Tables, AttemptCalls
    <3>2. /\ Cardinality(Past(s)) \in Nat /\ Cardinality(ReplaysOf(s)) \in Nat
          /\ Cardinality(Past(s)) <= Cardinality(ReplaysOf(s))
      BY ReplaysFinite DEF Aimed
    <3>3. rows["leads"][s] <= 1 \/ rows["leads"][s] <= Cardinality(Past(s))
      BY DEF LeadsMade, LeadsFor
    <3> QED
      BY <3>1, <3>2, <3>3
  <2> QED
    BY <2>1, <2>2
<1> QED
  BY <1>1, LeadsAlways, KeysTakenAlways, TypeInvariant, BusyFinite, PTL
=============================================================================
