--------------------------- MODULE IndexerProofs ---------------------------
(***************************************************************************)
(* Theorems about Indexer, for any number of processes, any pages and      *)
(* domains, any batch size, MAXLEN, MAX_RETRIES and bounds.                *)
(*                                                                         *)
(* The invariant follows a document from its delivery: it is in at most    *)
(* one batch, what a message still waits for is what has no outcome yet,   *)
(* and what the crawl log has is no longer waited for.                     *)
(***************************************************************************)
EXTENDS Indexer, StreamProofs

Left(c, i) == consumer[c].msg[i].left
Logged == {crawlLog[k] : k \in DOMAIN crawlLog}
Settled(i) == \A b \in Backends : outcome[i][b] # "none"

\* What a message in hand knows of its document.
MessageInv(c, i) ==
    /\ consumer[c].msg[i].pc \in {"fail", "backoff"} => ~Good(i)
    /\ consumer[c].msg[i].pc = "ack" => Left(c, i) = {}
    /\ Good(i) => \A b \in Backends : \/ outcome[i][b] # "none" \/ b \in Left(c, i)
                                      \/ b = "signals" /\ "commit" \in Left(c, i)
    /\ i \in Logged => "postgres" \notin Left(c, i)

HeldIsPending == \A c \in Consumers : consumer[c].batch \subseteq docs.pending
HeldByOne == \A c, d \in Consumers : c # d => consumer[c].batch \cap consumer[d].batch = {}
MessagesInv == \A c \in Consumers : \A i \in consumer[c].batch : MessageInv(c, i)
LoggedWasDelivered == \A i \in Logged : i <= docs.cursor
AcknowledgedIsSettled ==
    \A i \in 1..docs.cursor : (i \notin docs.pending /\ i >= docs.first /\ Good(i)) => Settled(i)

IndexerInv ==
    /\ HeldIsPending /\ HeldByOne /\ MessagesInv
    /\ LoggedOnce /\ LoggedWasDelivered /\ AcknowledgedIsSettled

-----------------------------------------------------------------------------
\* The stream's fields, and where its pending entries lie.
LEMMA DocsFields ==
    ASSUME TypeOK
    PROVE  /\ docs \in StreamOf(Payload) /\ docs.log \in Seq(Payload)
           /\ Len(docs.log) \in Nat /\ Len(docs.log) <= MaxDocs /\ MaxDocs \in Nat
           /\ docs.cursor \in Nat /\ docs.cursor <= Len(docs.log)
           /\ docs.first \in Nat \ {0}
           /\ docs.pending \subseteq 1..docs.cursor /\ docs.pending \subseteq Docs
           /\ docs.pending \subseteq Entries(docs)
  BY StreamFields, IndexerAssumption DEF TypeOK, IndexerAssumption, Docs, Entries

\* The fields of a consumer.
LEMMA Fields ==
    ASSUME TypeOK, NEW c \in Consumers
    PROVE  /\ consumer[c].running \in BOOLEAN /\ consumer[c].exited \in BOOLEAN
           /\ consumer[c].batch \subseteq Docs
           /\ consumer[c].msg \in [Docs -> MsgState] /\ consumer[c].retries \in [Docs -> Nat]
  BY DEF TypeOK

\* A message in hand is about a document of the stream.
LEMMA InHand ==
    ASSUME TypeOK, IndexerInv, NEW c \in Consumers, NEW i \in consumer[c].batch
    PROVE  /\ i \in Docs /\ i \in docs.pending /\ i \in Entries(docs) /\ i <= docs.cursor
           /\ i \in Nat \ {0} /\ docs.log[i] \in Payload /\ MessageInv(c, i)
<1>1. i \in docs.pending /\ MessageInv(c, i)
  BY DEF IndexerInv, HeldIsPending, MessagesInv
<1>2. i \in Docs /\ i \in Entries(docs) /\ i <= docs.cursor /\ i \in Nat \ {0}
  BY <1>1, DocsFields DEF Entries
<1>3. docs.log[i] \in Payload
  BY <1>2, DocsFields DEF Entries
<1> QED
  BY <1>1, <1>2, <1>3

\* The types of the initial state, and the invariant: nothing was delivered.
LEMMA IndexerInit == Init => TypeOK /\ IndexerInv
<1> SUFFICES ASSUME Init PROVE TypeOK /\ IndexerInv
  OBVIOUS
<1> USE IndexerAssumption DEF IndexerAssumption
<1>1. TypeOK
  <2>1. docs \in StreamOf(Payload) /\ Len(docs.log) <= MaxDocs
    BY EmptyIsStream DEF Init
  <2>2. consumer \in [Consumers -> [running : BOOLEAN, exited : BOOLEAN, batch : SUBSET Docs,
                                    msg : [Docs -> MsgState], retries : [Docs -> Nat]]]
    BY DEF Init, Polling, NoRetries, Doing, MsgState
  <2>3. /\ row \in [Urls -> 0..MaxDocs] /\ domains \subseteq Domains
        /\ crawlLog \in Seq(Docs) /\ commits \subseteq Docs /\ dlq \subseteq Docs
        /\ outcome \in [Docs -> [Backends -> {"none", "ok", "bad"}]]
        /\ failures \in 0..MaxUpsets /\ upsets \in 0..MaxUpsets
    BY DEF Init
  <2> QED
    BY <2>1, <2>2, <2>3 DEF TypeOK
<1>2. \A c \in Consumers : consumer[c].batch = {}
  BY DEF Init, Polling
<1>3. Logged = {} /\ docs.cursor = 0
  BY DEF Init, Logged, EmptyStream
<1>4. HeldIsPending /\ HeldByOne /\ MessagesInv /\ LoggedWasDelivered /\ AcknowledgedIsSettled
  BY <1>2, <1>3 DEF HeldIsPending, HeldByOne, MessagesInv, LoggedWasDelivered, AcknowledgedIsSettled
<1>5. LoggedOnce
  BY DEF Init, LoggedOnce
<1> QED
  BY <1>1, <1>4, <1>5 DEF IndexerInv

-----------------------------------------------------------------------------
ConsumerType == [running : BOOLEAN, exited : BOOLEAN, batch : SUBSET Docs,
                 msg : [Docs -> MsgState], retries : [Docs -> Nat]]

\* What is still to be done, and nothing of the kind, are states of a message.
LEMMA WritingIsState ==
    ASSUME NEW left \in SUBSET (Backends \cup {"commit"})
    PROVE  /\ Writing(left) \in MsgState /\ Writing(left).left = left
           /\ Writing(left).pc = IF left = {} THEN "ack" ELSE "write"
  BY DEF Writing, MsgState

LEMMA DoingIsState ==
    ASSUME NEW pc \in {"none", "ack", "fail", "backoff"}
    PROVE  /\ Doing(pc) \in MsgState /\ Doing(pc).left = {} /\ Doing(pc).pc = pc
  BY DEF Doing, MsgState

\* A message goes to its next step: nothing else of any consumer changes.
LEMMA GoChanges ==
    ASSUME TypeOK, NEW c \in Consumers, NEW i \in Docs, NEW state \in MsgState, Go(c, i, state)
    PROVE  /\ consumer' \in [Consumers -> ConsumerType]
           /\ consumer'[c].batch = consumer[c].batch
           /\ consumer'[c].msg[i] = state
           /\ \A j \in Docs \ {i} : consumer'[c].msg[j] = consumer[c].msg[j]
           /\ \A d \in Consumers \ {c} : consumer'[d] = consumer[d]
  BY DEF Go, TypeOK, ConsumerType

\* A message is over: it leaves its batch.
LEMMA ReturnChanges ==
    ASSUME TypeOK, NEW c \in Consumers, NEW i \in Docs,
           \/ Return(c, i)
           \/ consumer' = [consumer EXCEPT ![c] = [Without(@, i) EXCEPT !.retries[i] = 0]]
    PROVE  /\ consumer' \in [Consumers -> ConsumerType]
           /\ consumer'[c].batch = consumer[c].batch \ {i}
           /\ \A j \in Docs \ {i} : consumer'[c].msg[j] = consumer[c].msg[j]
           /\ \A d \in Consumers \ {c} : consumer'[d] = consumer[d]
<1> DEFINE rest == Without(consumer[c], i)
           forgets == [rest EXCEPT !.retries[i] = 0]
<1>1. consumer \in [Consumers -> ConsumerType] /\ consumer[c] \in ConsumerType
  BY DEF TypeOK, ConsumerType
<1>2. /\ rest \in ConsumerType /\ rest.batch = consumer[c].batch \ {i}
      /\ \A j \in Docs \ {i} : rest.msg[j] = consumer[c].msg[j]
  BY <1>1, DoingIsState DEF ConsumerType, Without
<1> HIDE DEF rest
<1>3. /\ forgets \in ConsumerType /\ forgets.batch = rest.batch /\ forgets.msg = rest.msg
  BY <1>2 DEF ConsumerType
<1> HIDE DEF forgets
<1>4. CASE consumer' = [consumer EXCEPT ![c] = rest]
  BY <1>1, <1>2, <1>4
<1>5. CASE consumer' = [consumer EXCEPT ![c] = forgets]
  BY <1>1, <1>2, <1>3, <1>5
<1> QED
  BY <1>4, <1>5 DEF Return, rest, forgets

\* The outcome of one write is noted, and of no other.
LEMMA OutcomeChanges ==
    ASSUME TypeOK, NEW i \in Docs, NEW b \in Backends, NEW result \in {"ok", "bad"}, Outcome(i, b, result)
    PROVE  /\ outcome' \in [Docs -> [Backends -> {"none", "ok", "bad"}]]
           /\ outcome'[i][b] = result
           /\ \A x \in Backends \ {b} : outcome'[i][x] = outcome[i][x]
           /\ \A j \in Docs \ {i} : outcome'[j] = outcome[j]
  BY DEF TypeOK, Outcome

\* What a message still waits for.
LEMMA LeftIsSet ==
    ASSUME TypeOK, NEW c \in Consumers, NEW i \in Docs
    PROVE  Left(c, i) \in SUBSET (Backends \cup {"commit"})
  BY Fields DEF Left, MsgState

\* The counters of failing calls and of upsets stay in their bounds.
LEMMA BoundsKept ==
    ASSUME TypeOK, CallSucceeds \/ Upset \/ Failure
    PROVE  failures' \in 0..MaxUpsets /\ upsets' \in 0..MaxUpsets
  BY IndexerAssumption DEF TypeOK, CallSucceeds, Upset, Failure, IndexerAssumption

\* PostgreSQL's transaction keeps the types of its tables.
LEMMA TransactionTypes ==
    ASSUME TypeOK, NEW i \in Docs, docs.log[i] \in Payload, Transaction(i) \/ RolledBack
    PROVE  /\ row' \in [Urls -> 0..MaxDocs] /\ domains' \subseteq Domains
           /\ crawlLog' \in Seq(Docs)
<1>1. Url(i) \in Urls /\ DomainOf[Url(i)] \in Domains
  BY IndexerAssumption DEF Url, Payload, IndexerAssumption
<1>2. i \in 0..MaxDocs
  BY IndexerAssumption DEF Docs, IndexerAssumption
<1>3. row \in [Urls -> 0..MaxDocs] /\ domains \subseteq Domains /\ crawlLog \in Seq(Docs)
  BY DEF TypeOK
<1>4. CASE Transaction(i)
  <2>1. row' \in [Urls -> 0..MaxDocs] /\ domains' \subseteq Domains
    BY <1>1, <1>2, <1>3, <1>4 DEF Transaction
  <2>2. crawlLog' \in Seq(Docs)
    BY <1>3, <1>4 DEF Transaction
  <2> QED
    BY <2>1, <2>2
<1> QED
  BY <1>3, <1>4 DEF RolledBack

\* A batch comes from behind everything delivered so far.
LEMMA BatchIsNew ==
    ASSUME TypeOK, NextBatch(docs, BatchSize) # {}, docs' = XReadGroup(docs, BatchSize)
    PROVE  LET batch == NextBatch(docs, BatchSize) IN
           /\ docs' \in StreamOf(Payload) /\ docs'.log = docs.log /\ docs'.first = docs.first
           /\ docs'.pending = docs.pending \cup batch
           /\ batch \subseteq Docs /\ batch \subseteq Entries(docs)
           /\ docs'.cursor \in Nat /\ docs'.cursor >= docs.cursor
           /\ \A i \in batch : i > docs.cursor /\ i <= docs'.cursor
           /\ \A i \in Nat : (i > docs.cursor /\ i <= docs'.cursor /\ i >= docs.first) => i \in batch
<1> USE IndexerAssumption DEF IndexerAssumption
<1> DEFINE from == Unread(docs)
           to == LastOfBatch(docs, BatchSize)
<1>1. /\ docs' \in StreamOf(Payload) /\ docs'.log = docs.log /\ docs'.first = docs.first
      /\ docs'.cursor = to /\ docs'.pending = docs.pending \cup NextBatch(docs, BatchSize)
      /\ to \in from..Len(docs.log) /\ NextBatch(docs, BatchSize) = from..to
  BY XReadGroupIsStream, DocsFields DEF NextBatch
<1>2. from \in Nat \ {0} /\ from > docs.cursor
  BY UnreadIsBehind, DocsFields
<1>3. from = IF docs.cursor < docs.first THEN docs.first ELSE docs.cursor + 1
  BY DEF Unread
<1> HIDE DEF from, to
<1>4. to \in Nat /\ from <= to /\ to <= Len(docs.log)
  BY <1>1, <1>2, DocsFields
<1>5. NextBatch(docs, BatchSize) \subseteq Docs /\ NextBatch(docs, BatchSize) \subseteq Entries(docs)
  BY <1>1, <1>2, <1>4, DocsFields DEF Docs, Entries
<1>6. /\ \A i \in from..to : i > docs.cursor /\ i <= to
      /\ \A i \in Nat : (i > docs.cursor /\ i <= to /\ i >= docs.first) => i \in from..to
  BY <1>2, <1>3, <1>4, DocsFields
<1> QED
  BY <1>1, <1>2, <1>4, <1>5, <1>6, DocsFields

\* A call's acknowledgement, executed or not, keeps the stream one.
LEMMA AckKeepsDocs ==
    ASSUME TypeOK, NEW i, docs' \in {docs, XAck(docs, i)}
    PROVE  /\ docs' \in StreamOf(Payload) /\ docs'.log = docs.log /\ docs'.first = docs.first
           /\ docs'.cursor = docs.cursor
           /\ docs'.pending = docs.pending \/ docs'.pending = docs.pending \ {i}
  BY XAckIsStream, DocsFields

\* Every step keeps the types.
LEMMA IndexerTypeStep == TypeOK /\ IndexerInv /\ [Next]_vars => TypeOK'
<1> SUFFICES ASSUME TypeOK, IndexerInv, [Next]_vars PROVE TypeOK'
  OBVIOUS
<1> USE IndexerAssumption DEF IndexerAssumption
<1>1. /\ docs \in StreamOf(Payload) /\ Len(docs.log) <= MaxDocs
      /\ consumer \in [Consumers -> ConsumerType]
      /\ row \in [Urls -> 0..MaxDocs] /\ domains \subseteq Domains
      /\ crawlLog \in Seq(Docs) /\ commits \subseteq Docs /\ dlq \subseteq Docs
      /\ outcome \in [Docs -> [Backends -> {"none", "ok", "bad"}]]
      /\ failures \in 0..MaxUpsets /\ upsets \in 0..MaxUpsets
  BY DEF TypeOK, ConsumerType
<1>2. ASSUME NEW c \in Consumers, NEW i, NEW b, Pending(c, i, b)
      PROVE  i \in Docs /\ docs.log[i] \in Payload /\ MessageInv(c, i)
  BY <1>2, InHand DEF Pending, At
<1>3. ASSUME NEW c \in Consumers, NEW i \in Docs, NEW b \in Backends,
             NEW result \in {"ok", "bad"}, Ends(c, i, b, result)
      PROVE  /\ consumer' \in [Consumers -> ConsumerType]
             /\ outcome' \in [Docs -> [Backends -> {"none", "ok", "bad"}]]
  <2>1. Go(c, i, Writing(Left(c, i) \ {b})) /\ Outcome(i, b, result)
    BY <1>3 DEF Ends, Left
  <2>2. Writing(Left(c, i) \ {b}) \in MsgState
    BY LeftIsSet, WritingIsState
  <2> QED
    BY <2>1, <2>2, GoChanges, OutcomeChanges
<1>4. ASSUME NEW doc \in Payload, Published(doc) PROVE TypeOK'
  <2>1. docs' \in StreamOf(Payload) /\ Len(docs'.log) = Len(docs.log) + 1
    BY <1>4, XAddAppends, DocsFields DEF Published
  <2>2. Len(docs'.log) <= MaxDocs
    BY <1>4, <2>1, DocsFields DEF Published
  <2> QED
    BY <1>1, <1>4, <2>1, <2>2 DEF Published, stores, TypeOK, ConsumerType
<1>5. ASSUME NEW c \in Consumers, Poll(c) PROVE TypeOK'
  <2> DEFINE batch == NextBatch(docs, BatchSize)
             new == [consumer[c] EXCEPT !.batch = batch,
                        !.msg = [i \in Docs |-> IF i \in batch THEN Begin(i) ELSE Doing("none")]]
  <2>1. docs' \in StreamOf(Payload) /\ docs'.log = docs.log /\ batch \subseteq Docs
    BY <1>5, BatchIsNew DEF Poll
  <2>2. \A i \in Docs : Begin(i) \in MsgState
    BY DoingIsState, WritingIsState DEF Begin
  <2> HIDE DEF batch
  <2>3. new \in ConsumerType
    <3>1. [i \in Docs |-> IF i \in batch THEN Begin(i) ELSE Doing("none")] \in [Docs -> MsgState]
      BY <2>2, DoingIsState
    <3>2. consumer[c] \in ConsumerType
      BY <1>1
    <3> QED
      BY <2>1, <3>1, <3>2 DEF ConsumerType
  <2> HIDE DEF new
  <2>4. consumer' \in [Consumers -> ConsumerType]
    <3>1. consumer' = [consumer EXCEPT ![c] = new] \/ consumer' = consumer
      BY <1>5 DEF Poll, new, batch
    <3> QED
      BY <1>1, <2>3, <3>1
  <2>5. failures' \in 0..MaxUpsets /\ upsets' \in 0..MaxUpsets
    BY <1>5, BoundsKept DEF Poll
  <2> QED
    BY <1>1, <1>5, <2>1, <2>4, <2>5 DEF Poll, stores, TypeOK, ConsumerType
<1>6. ASSUME NEW c \in Consumers, Exit(c) \/ Stop(c) \/ Restart(c) PROVE TypeOK'
  <2>1. Polling(TRUE, NoRetries) \in ConsumerType
    BY DoingIsState DEF Polling, NoRetries, ConsumerType
  <2>2. consumer' \in [Consumers -> ConsumerType]
    <3>1. CASE Exit(c)
      <4>1. [consumer[c] EXCEPT !.exited = TRUE] \in ConsumerType
        BY <1>1 DEF ConsumerType
      <4> QED
        BY <1>1, <3>1, <4>1 DEF Exit
    <3>2. CASE Stop(c)
      <4>1. [consumer[c] EXCEPT !.running = FALSE] \in ConsumerType
        BY <1>1 DEF ConsumerType
      <4> QED
        BY <1>1, <3>2, <4>1 DEF Stop
    <3>3. CASE Restart(c)
      BY <1>1, <2>1, <3>3 DEF Restart
    <3> QED
      BY <1>6, <3>1, <3>2, <3>3
  <2>3. failures' \in 0..MaxUpsets /\ upsets' \in 0..MaxUpsets
    BY <1>1, <1>6, BoundsKept DEF Exit, Stop, Restart
  <2> QED
    BY <1>1, <1>6, <2>2, <2>3 DEF Exit, Stop, Restart, stores, TypeOK, ConsumerType
<1>7. ASSUME NEW c \in Consumers, NEW i \in Docs, WriteMeili(c, i) \/ WriteQdrant(c, i) PROVE TypeOK'
  <2>1. /\ consumer' \in [Consumers -> ConsumerType]
        /\ outcome' \in [Docs -> [Backends -> {"none", "ok", "bad"}]]
    BY <1>3, <1>7 DEF WriteMeili, WriteQdrant, Backends
  <2>2. failures' \in 0..MaxUpsets /\ upsets' \in 0..MaxUpsets
    BY <1>7, BoundsKept DEF WriteMeili, WriteQdrant
  <2> QED
    BY <1>1, <1>7, <2>1, <2>2 DEF WriteMeili, WriteQdrant, TypeOK, ConsumerType
<1>8. ASSUME NEW c \in Consumers, NEW i \in Docs, WritePostgres(c, i) PROVE TypeOK'
  <2>1. /\ consumer' \in [Consumers -> ConsumerType]
        /\ outcome' \in [Docs -> [Backends -> {"none", "ok", "bad"}]]
    BY <1>3, <1>8 DEF WritePostgres, Backends
  <2>2. failures' \in 0..MaxUpsets /\ upsets' \in 0..MaxUpsets
    BY <1>8, BoundsKept DEF WritePostgres, ClosableCallFails
  <2>3. row' \in [Urls -> 0..MaxDocs] /\ domains' \subseteq Domains /\ crawlLog' \in Seq(Docs)
    BY <1>2, <1>8, TransactionTypes DEF WritePostgres
  <2> QED
    BY <1>1, <1>8, <2>1, <2>2, <2>3 DEF WritePostgres, TypeOK, ConsumerType
<1>9. ASSUME NEW c \in Consumers, NEW i \in Docs, WriteSignals(c, i) PROVE TypeOK'
  <2>1. CASE Ends(c, i, "signals", "bad")
    <3>1. /\ consumer' \in [Consumers -> ConsumerType]
          /\ outcome' \in [Docs -> [Backends -> {"none", "ok", "bad"}]]
      BY <1>3, <2>1 DEF Backends
    <3> QED
      BY <1>1, <1>9, <3>1, BoundsKept DEF WriteSignals, ClosableCallFails, TypeOK, ConsumerType
  <2>2. CASE /\ Go(c, i, Writing((Left(c, i) \ {"signals"}) \cup {"commit"}))
             /\ UNCHANGED outcome
    <3>1. Left(c, i) \in SUBSET (Backends \cup {"commit"})
      BY LeftIsSet
    <3>2. consumer' \in [Consumers -> ConsumerType]
      BY <2>2, <3>1, WritingIsState, GoChanges
    <3> QED
      BY <1>1, <1>9, <2>2, <3>2, BoundsKept DEF WriteSignals, ClosableCallFails, TypeOK, ConsumerType
  <2> QED
    BY <1>9, <2>1, <2>2 DEF WriteSignals, Left
<1>10. ASSUME NEW c \in Consumers, NEW i \in Docs, Commit(c, i) PROVE TypeOK'
  <2>1. Left(c, i) \in SUBSET (Backends \cup {"commit"})
    BY LeftIsSet
  <2>2. consumer' \in [Consumers -> ConsumerType]
    BY <1>10, <2>1, WritingIsState, GoChanges DEF Commit, Left
  <2>3. outcome' \in [Docs -> [Backends -> {"none", "ok", "bad"}]] /\ commits' \subseteq Docs
    <3>1. i \in Docs /\ commits' \subseteq Docs
      BY <1>1, <1>10 DEF Commit
    <3>2. Outcome(i, "signals", "ok") \/ Outcome(i, "signals", "bad")
      BY <1>10 DEF Commit
    <3>3. outcome' \in [Docs -> [Backends -> {"none", "ok", "bad"}]]
      BY <3>1, <3>2, OutcomeChanges DEF Backends
    <3> QED
      BY <3>1, <3>3
  <2> QED
    BY <1>1, <1>10, <2>2, <2>3, BoundsKept DEF Commit, ClosableCallFails, TypeOK, ConsumerType
<1>11. ASSUME NEW c \in Consumers, NEW i \in Docs, Ack(c, i) PROVE TypeOK'
  <2>1. consumer' \in [Consumers -> ConsumerType]
    BY <1>11, ReturnChanges DEF Ack
  <2>2. docs' \in StreamOf(Payload) /\ docs'.log = docs.log
    BY <1>11, AckKeepsDocs DEF Ack
  <2> QED
    BY <1>1, <1>11, <2>1, <2>2, BoundsKept DEF Ack, ClosableCallFails, stores, TypeOK, ConsumerType
<1>12. ASSUME NEW c \in Consumers, NEW i \in Docs, HandleFailure(c, i) \/ Wake(c, i) PROVE TypeOK'
  <2>1. consumer' \in [Consumers -> ConsumerType]
    <3>1. CASE Return(c, i)
      BY <3>1, ReturnChanges
    <3>2. CASE Go(c, i, Doing("ack"))
      BY <3>2, GoChanges, DoingIsState
    <3>3. CASE consumer' = [consumer EXCEPT ![c] = [@ EXCEPT !.retries[i] = consumer[c].retries[i] + 1,
                                                              !.msg[i] = Doing("backoff")]]
      <4> DEFINE new == [consumer[c] EXCEPT !.retries[i] = consumer[c].retries[i] + 1,
                                            !.msg[i] = Doing("backoff")]
      <4>1. new \in ConsumerType
        <5>1. consumer[c] \in ConsumerType /\ consumer[c].retries[i] + 1 \in Nat
          BY <1>1 DEF ConsumerType
        <5> QED
          BY <5>1, DoingIsState DEF ConsumerType
      <4> HIDE DEF new
      <4> QED
        BY <1>1, <3>3, <4>1 DEF new
    <3> QED
      BY <1>12, <3>1, <3>2, <3>3 DEF HandleFailure, Wake
  <2> QED
    BY <1>1, <1>12, <2>1, BoundsKept DEF HandleFailure, Wake, ClosableCallFails, stores, TypeOK, ConsumerType
<1>13. CASE UNCHANGED vars
  BY <1>13 DEF vars, TypeOK
<1> QED
  BY <1>4, <1>5, <1>6, <1>7, <1>8, <1>9, <1>10, <1>11, <1>12, <1>13 DEF Next, Handle

-----------------------------------------------------------------------------
\* A message goes to its next step: what it no longer waits for has an outcome,
\* and what was logged it does not write again.
LEMMA MessageAdvances ==
    ASSUME TypeOK, IndexerInv, NEW c \in Consumers, NEW i \in consumer[c].batch,
           NEW state \in MsgState, Go(c, i, state), docs' = docs,
           \A j \in Docs \ {i} : outcome'[j] = outcome[j],
           \A b \in Backends : outcome[i][b] # "none" => outcome'[i][b] # "none",
           Logged' \subseteq Logged \cup {i}, LoggedOnce',
           state.pc \in {"fail", "backoff"} => ~Good(i),
           state.pc = "ack" => state.left = {},
           Good(i) => \A b \in Backends : \/ outcome'[i][b] # "none" \/ b \in state.left
                                          \/ b = "signals" /\ "commit" \in state.left,
           i \in Logged' => "postgres" \notin state.left
    PROVE  IndexerInv'
<1>1. /\ i \in Docs /\ i \in docs.pending /\ i <= docs.cursor
      /\ \A d \in Consumers : consumer[d].batch \subseteq Docs
  BY InHand, Fields
<1>2. /\ consumer'[c].batch = consumer[c].batch /\ consumer'[c].msg[i] = state
      /\ \A j \in Docs \ {i} : consumer'[c].msg[j] = consumer[c].msg[j]
      /\ \A d \in Consumers \ {c} : consumer'[d] = consumer[d]
  BY <1>1, GoChanges
<1>3. \A d \in Consumers : consumer'[d].batch = consumer[d].batch
  BY <1>2
<1>4. HeldIsPending' /\ HeldByOne'
  BY <1>3 DEF IndexerInv, HeldIsPending, HeldByOne
<1>5. ASSUME NEW d \in Consumers, NEW j \in consumer'[d].batch PROVE MessageInv(d, j)'
  <2>1. j \in consumer[d].batch /\ j \in Docs /\ MessageInv(d, j) /\ Good(j)' = Good(j)
    BY <1>1, <1>3, <1>5 DEF IndexerInv, MessagesInv, Good, Form
  <2>2. CASE d = c /\ j = i
    BY <1>2, <2>1, <2>2 DEF MessageInv, Left
  <2>3. CASE ~(d = c /\ j = i)
    <3>1. j # i
      BY <1>3, <2>1, <2>3 DEF IndexerInv, HeldByOne
    <3>2. consumer'[d].msg[j] = consumer[d].msg[j] /\ outcome'[j] = outcome[j]
      BY <1>2, <2>1, <3>1
    <3>3. j \in Logged' => j \in Logged
      BY <3>1
    <3> QED
      BY <2>1, <3>2, <3>3 DEF MessageInv, Left
  <2> QED
    BY <2>2, <2>3
<1>6. LoggedWasDelivered'
  BY <1>1 DEF IndexerInv, LoggedWasDelivered
<1>7. AcknowledgedIsSettled'
  <2> SUFFICES ASSUME NEW j \in 1..docs.cursor, j \notin docs.pending, j >= docs.first, Good(j)
               PROVE  Settled(j)'
    BY DEF AcknowledgedIsSettled, Good, Form
  <2>1. Settled(j) /\ j # i /\ j \in Docs
    BY <1>1, DocsFields DEF IndexerInv, AcknowledgedIsSettled, Docs
  <2> QED
    BY <2>1 DEF Settled
<1> QED
  BY <1>4, <1>5, <1>6, <1>7 DEF IndexerInv, MessagesInv

\* Messages leave the batches, and the stream when they are done with.
LEMMA MessagesLeave ==
    ASSUME TypeOK, IndexerInv, NEW c \in Consumers, NEW i,
           consumer' \in [Consumers -> ConsumerType],
           consumer'[c].batch \subseteq consumer[c].batch,
           \A j \in consumer'[c].batch : consumer'[c].msg[j] = consumer[c].msg[j],
           \A d \in Consumers \ {c} : consumer'[d] = consumer[d],
           \/ docs' = docs
           \/ /\ docs' = XAck(docs, i) /\ i \in consumer[c].batch /\ i \notin consumer'[c].batch
              /\ consumer[c].msg[i].pc = "ack",
           outcome' = outcome, crawlLog' = crawlLog
    PROVE  IndexerInv'
<1>1. /\ docs'.log = docs.log /\ docs'.cursor = docs.cursor /\ docs'.first = docs.first
      /\ \/ docs'.pending = docs.pending
         \/ /\ docs'.pending = docs.pending \ {i}
            /\ i \in consumer[c].batch /\ i \notin consumer'[c].batch /\ consumer[c].msg[i].pc = "ack"
  BY AckKeepsDocs
<1>2. \A d \in Consumers : consumer'[d].batch \subseteq consumer[d].batch
  BY DEF ConsumerType
<1>3. HeldByOne'
  BY <1>2 DEF IndexerInv, HeldByOne
<1>4. HeldIsPending'
  <2> SUFFICES ASSUME NEW d \in Consumers, NEW j \in consumer'[d].batch PROVE j \in docs'.pending
    BY DEF HeldIsPending
  <2>1. j \in docs.pending /\ j \in consumer[d].batch
    BY <1>2 DEF IndexerInv, HeldIsPending
  <2>2. CASE docs'.pending = docs.pending
    BY <2>1, <2>2
  <2>3. CASE docs'.pending = docs.pending \ {i} /\ i \in consumer[c].batch /\ i \notin consumer'[c].batch
    BY <2>1, <2>3 DEF IndexerInv, HeldByOne
  <2> QED
    BY <1>1, <2>2, <2>3
<1>5. ASSUME NEW d \in Consumers, NEW j \in consumer'[d].batch PROVE MessageInv(d, j)'
  <2>1. j \in consumer[d].batch /\ MessageInv(d, j) /\ consumer'[d].msg[j] = consumer[d].msg[j]
    BY <1>2 DEF IndexerInv, MessagesInv
  <2>2. Good(j)' = Good(j) /\ Logged' = Logged
    BY <1>1 DEF Good, Form, Logged
  <2> QED
    BY <2>1, <2>2 DEF MessageInv, Left
<1>6. LoggedOnce' /\ LoggedWasDelivered'
  BY <1>1 DEF IndexerInv, LoggedOnce, LoggedWasDelivered, Logged
<1>7. AcknowledgedIsSettled'
  <2> SUFFICES ASSUME NEW j \in 1..docs.cursor, j \notin docs'.pending, j >= docs.first, Good(j)
               PROVE  Settled(j)
    BY <1>1 DEF AcknowledgedIsSettled, Good, Form, Settled
  <2>1. CASE j \notin docs.pending
    BY <2>1 DEF IndexerInv, AcknowledgedIsSettled
  <2>2. CASE j = i /\ i \in consumer[c].batch /\ consumer[c].msg[i].pc = "ack"
    BY <2>2, InHand DEF MessageInv, Settled
  <2> QED
    BY <1>1, <2>1, <2>2
<1> QED
  BY <1>3, <1>4, <1>5, <1>6, <1>7 DEF IndexerInv, MessagesInv

\* A processor adds a document: nothing delivered is touched.
LEMMA PublishedKeeps ==
    ASSUME TypeOK, IndexerInv, NEW doc \in Payload, Published(doc) PROVE IndexerInv'
<1> USE IndexerAssumption DEF IndexerAssumption
<1>1. /\ \A i \in Entries(docs) : docs'.log[i] = docs.log[i]
      /\ docs'.cursor = docs.cursor /\ docs'.pending = docs.pending
      /\ docs.first <= docs'.first /\ docs'.first \in Nat
  BY XAddAppends, DocsFields, StreamFields DEF Published
<1>2. consumer' = consumer /\ outcome' = outcome /\ crawlLog' = crawlLog /\ Logged' = Logged
  BY DEF Published, stores, Logged
<1>3. \A i \in Entries(docs) : Good(i)' = Good(i)
  BY <1>1 DEF Good, Form
<1>4. ASSUME NEW d \in Consumers, NEW i \in consumer[d].batch PROVE MessageInv(d, i)'
  <2>1. MessageInv(d, i) /\ Good(i)' = Good(i)
    BY <1>3, <1>4, InHand
  <2> QED
    BY <1>2, <2>1 DEF MessageInv, Left
<1>5. AcknowledgedIsSettled'
  <2> SUFFICES ASSUME NEW i \in 1..docs.cursor, i \notin docs.pending, i >= docs'.first, Good(i)'
               PROVE  Settled(i)
    BY <1>1, <1>2 DEF AcknowledgedIsSettled, Settled
  <2>1. i \in Entries(docs) /\ i >= docs.first
    BY <1>1, DocsFields DEF Entries
  <2> QED
    BY <1>3, <2>1 DEF IndexerInv, AcknowledgedIsSettled
<1> QED
  BY <1>1, <1>2, <1>4, <1>5 DEF IndexerInv, HeldIsPending, HeldByOne, MessagesInv, LoggedOnce, LoggedWasDelivered

\* A batch is delivered: nobody has it, and none of it is logged.
LEMMA PollKeeps ==
    ASSUME TypeOK, IndexerInv, NEW c \in Consumers, Poll(c) PROVE IndexerInv'
<1> DEFINE batch == NextBatch(docs, BatchSize)
           msg == [i \in Docs |-> IF i \in batch THEN Begin(i) ELSE Doing("none")]
<1>1. /\ docs'.log = docs.log /\ docs'.first = docs.first
      /\ docs'.pending = docs.pending \cup batch
      /\ batch \subseteq Docs /\ docs'.cursor \in Nat /\ docs'.cursor >= docs.cursor
      /\ \A i \in batch : i > docs.cursor /\ i <= docs'.cursor
      /\ \A i \in Nat : (i > docs.cursor /\ i <= docs'.cursor /\ i >= docs.first) => i \in batch
  BY BatchIsNew DEF Poll
<1>2. outcome' = outcome /\ crawlLog' = crawlLog /\ Logged' = Logged
  BY DEF Poll, stores, Logged
<1>3. \/ consumer' = consumer
      \/ /\ consumer[c].batch = {} /\ consumer'[c].batch = batch /\ consumer'[c].msg = msg
         /\ \A d \in Consumers \ {c} : consumer'[d] = consumer[d]
  <2>1. consumer \in [Consumers -> ConsumerType] /\ consumer[c] \in ConsumerType
    BY DEF TypeOK, ConsumerType
  <2> HIDE DEF batch, msg
  <2>2. \/ consumer' = consumer
        \/ /\ consumer[c].batch = {}
           /\ consumer' = [consumer EXCEPT ![c] = [@ EXCEPT !.batch = batch, !.msg = msg]]
    BY DEF Poll, AtPoll, batch, msg
  <2> DEFINE new == [consumer[c] EXCEPT !.batch = batch, !.msg = msg]
  <2>3. new.batch = batch /\ new.msg = msg
    BY <2>1 DEF ConsumerType
  <2>4. CASE consumer' = [consumer EXCEPT ![c] = new]
    <3> HIDE DEF new
    <3> QED
      BY <2>1, <2>2, <2>3, <2>4
  <2> QED
    BY <2>2, <2>4
<1> HIDE DEF batch
<1>4. \A d \in Consumers : consumer[d].batch \subseteq docs.pending /\ consumer[d].batch \cap batch = {}
  BY <1>1, DocsFields DEF IndexerInv, HeldIsPending
<1>5. \A i \in batch : i \notin Logged
  BY <1>1, DocsFields DEF IndexerInv, LoggedWasDelivered, Docs
<1>6. HeldIsPending' /\ HeldByOne'
  BY <1>1, <1>3, <1>4 DEF IndexerInv, HeldIsPending, HeldByOne
<1>7. ASSUME NEW d \in Consumers, NEW i \in consumer'[d].batch PROVE MessageInv(d, i)'
  <2>1. Good(i)' = Good(i)
    BY <1>1 DEF Good, Form
  <2>2. CASE i \in consumer[d].batch /\ consumer'[d].msg[i] = consumer[d].msg[i]
    BY <1>2, <2>1, <2>2 DEF IndexerInv, MessagesInv, MessageInv, Left
  <2>3. CASE i \in batch /\ d = c /\ consumer'[d].msg[i] = Begin(i)
    <3>1. /\ Begin(i).pc \in {"fail", "backoff"} => ~Good(i)
          /\ Begin(i).pc = "ack" => Begin(i).left = {}
          /\ Good(i) => Begin(i).left = Backends
      BY DEF Begin, Doing, Writing, Good, Backends
    <3> QED
      BY <1>2, <1>5, <2>1, <2>3, <3>1 DEF MessageInv, Left
  <2> QED
    BY <1>1, <1>3, <1>7, <2>2, <2>3
<1>8. LoggedWasDelivered'
  <2>1. \A i \in Logged : i \in Nat
    BY IndexerAssumption DEF TypeOK, Logged, Docs, IndexerAssumption
  <2> QED
    BY <1>1, <1>2, <2>1, DocsFields DEF IndexerInv, LoggedWasDelivered
<1>9. AcknowledgedIsSettled'
  <2> SUFFICES ASSUME NEW i \in 1..docs'.cursor, i \notin docs'.pending, i >= docs.first, Good(i)
               PROVE  Settled(i)
    BY <1>1, <1>2 DEF AcknowledgedIsSettled, Settled, Good, Form
  <2>1. i \in 1..docs.cursor
    BY <1>1, DocsFields
  <2> QED
    BY <1>1, <2>1 DEF IndexerInv, AcknowledgedIsSettled
<1> QED
  BY <1>2, <1>6, <1>7, <1>8, <1>9 DEF IndexerInv, MessagesInv, LoggedOnce

\* A write of a message ends, and the crawl log has its document at most from
\* PostgreSQL's.
LEMMA WriteKeeps ==
    ASSUME TypeOK, IndexerInv, NEW c \in Consumers, NEW i, NEW b \in Backends,
           NEW result \in {"ok", "bad"}, Pending(c, i, b), Ends(c, i, b, result), docs' = docs,
           \/ crawlLog' = crawlLog
           \/ b = "postgres" /\ crawlLog' = Append(crawlLog, i)
    PROVE  IndexerInv'
<1> DEFINE left == Left(c, i) \ {b}
<1>1. /\ i \in consumer[c].batch /\ i \in Docs /\ MessageInv(c, i)
      /\ consumer[c].msg[i].pc = "write" /\ b \in Left(c, i)
  BY InHand DEF Pending, At, Left
<1>2. /\ Writing(left) \in MsgState /\ Writing(left).left = left
      /\ Writing(left).pc = IF left = {} THEN "ack" ELSE "write"
  BY <1>1, LeftIsSet, WritingIsState
<1>3. /\ Go(c, i, Writing(left)) /\ outcome'[i][b] = result
      /\ \A x \in Backends \ {b} : outcome'[i][x] = outcome[i][x]
      /\ \A j \in Docs \ {i} : outcome'[j] = outcome[j]
  BY <1>1, OutcomeChanges DEF Ends, Left
<1> HIDE DEF left
<1>4. /\ Logged' \subseteq Logged \cup {i} /\ LoggedOnce'
      /\ b # "postgres" => Logged' = Logged
  <2>1. CASE crawlLog' = crawlLog
    BY <2>1 DEF Logged, IndexerInv, LoggedOnce
  <2>2. CASE b = "postgres" /\ crawlLog' = Append(crawlLog, i)
    <3>1. i \notin Logged
      BY <1>1, <2>2 DEF MessageInv
    <3>2. crawlLog \in Seq(Docs) /\ Len(crawlLog) \in Nat
      BY DEF TypeOK
    <3>3. /\ DOMAIN crawlLog' = DOMAIN crawlLog \cup {Len(crawlLog) + 1}
          /\ \A k \in DOMAIN crawlLog : crawlLog'[k] = crawlLog[k]
          /\ crawlLog'[Len(crawlLog) + 1] = i
      BY <1>1, <2>2, <3>2
    <3>4. Logged' \subseteq Logged \cup {i}
      BY <3>3 DEF Logged
    <3>5. LoggedOnce'
      <4>1. \A k \in DOMAIN crawlLog : crawlLog[k] # i
        BY <3>1 DEF Logged
      <4> QED
        BY <3>3, <4>1 DEF IndexerInv, LoggedOnce
    <3> QED
      BY <2>2, <3>4, <3>5
  <2> QED
    BY <2>1, <2>2
<1>5. Good(i) => \A x \in Backends : \/ outcome'[i][x] # "none" \/ x \in left
                                     \/ x = "signals" /\ "commit" \in left
  <2> SUFFICES ASSUME Good(i), NEW x \in Backends, x # b
               PROVE  \/ outcome'[i][x] # "none" \/ x \in left \/ (x = "signals" /\ "commit" \in left)
    BY <1>3
  <2>1. \/ outcome[i][x] # "none" \/ x \in Left(c, i) \/ (x = "signals" /\ "commit" \in Left(c, i))
    BY <1>1 DEF MessageInv
  <2> QED
    BY <1>3, <2>1 DEF left, Backends
<1>6. i \in Logged' => "postgres" \notin left
  BY <1>1, <1>4 DEF MessageInv, left
<1>7. \A x \in Backends : outcome[i][x] # "none" => outcome'[i][x] # "none"
  BY <1>3
<1>8. /\ Writing(left).pc \notin {"fail", "backoff"}
      /\ Writing(left).pc = "ack" => Writing(left).left = {}
  BY <1>2
<1> QED
  BY <1>1, <1>2, <1>3, <1>4, <1>5, <1>6, <1>7, <1>8, MessageAdvances

\* Every step keeps the invariant.
LEMMA IndexerInvStep == TypeOK /\ IndexerInv /\ [Next]_vars => IndexerInv'
<1> SUFFICES ASSUME TypeOK, IndexerInv, [Next]_vars PROVE IndexerInv'
  OBVIOUS
<1>1. consumer \in [Consumers -> ConsumerType] /\ \A c \in Consumers : consumer[c] \in ConsumerType
  BY DEF TypeOK, ConsumerType
<1>2. IndexerInv /\ TypeOK /\ TypeOK' /\ consumer' \in [Consumers -> ConsumerType]
  BY IndexerTypeStep DEF TypeOK, ConsumerType
<1>3. ASSUME NEW c \in Consumers, Exit(c) \/ Stop(c) \/ Restart(c) PROVE IndexerInv'
  <2>1. /\ consumer'[c].batch \subseteq consumer[c].batch
        /\ \A j \in consumer'[c].batch : consumer'[c].msg[j] = consumer[c].msg[j]
        /\ \A d \in Consumers \ {c} : consumer'[d] = consumer[d]
    <3>1. CASE Exit(c)
      BY <1>1, <3>1 DEF Exit, ConsumerType
    <3>2. CASE Stop(c)
      BY <1>1, <3>2 DEF Stop, ConsumerType
    <3>3. CASE Restart(c)
      BY <1>1, <3>3 DEF Restart, Polling
    <3> QED
      BY <1>3, <3>1, <3>2, <3>3
  <2>2. docs' = docs /\ outcome' = outcome /\ crawlLog' = crawlLog
    BY <1>3 DEF Exit, Stop, Restart, stores
  <2> QED
    BY <1>2, <2>1, <2>2, MessagesLeave
<1>4. ASSUME NEW c \in Consumers, NEW i \in Docs, WriteMeili(c, i) PROVE IndexerInv'
  BY <1>4, WriteKeeps DEF WriteMeili, Backends
<1>5. ASSUME NEW c \in Consumers, NEW i \in Docs, WriteQdrant(c, i) PROVE IndexerInv'
  BY <1>5, WriteKeeps DEF WriteQdrant, Backends
<1>6. ASSUME NEW c \in Consumers, NEW i \in Docs, WritePostgres(c, i) PROVE IndexerInv'
  BY <1>6, WriteKeeps DEF WritePostgres, Transaction, RolledBack, Backends
<1>7. ASSUME NEW c \in Consumers, NEW i \in Docs, WriteSignals(c, i) PROVE IndexerInv'
  <2>1. CASE Ends(c, i, "signals", "bad")
    BY <1>7, <2>1, WriteKeeps DEF WriteSignals, Backends
  <2>2. CASE Go(c, i, Writing((Left(c, i) \ {"signals"}) \cup {"commit"})) /\ outcome' = outcome
    <3> DEFINE left == (Left(c, i) \ {"signals"}) \cup {"commit"}
    <3>1. i \in consumer[c].batch /\ MessageInv(c, i)
      BY <1>7, InHand DEF WriteSignals, Pending, At
    <3>2. Writing(left) \in MsgState /\ Writing(left).left = left /\ Writing(left).pc = "write"
      BY LeftIsSet, WritingIsState
    <3>3. docs' = docs /\ Logged' = Logged /\ LoggedOnce'
      BY <1>7 DEF WriteSignals, Logged, IndexerInv, LoggedOnce
    <3>4. /\ Good(i) => \A b \in Backends : \/ outcome[i][b] # "none" \/ b \in left
                                            \/ b = "signals" /\ "commit" \in left
          /\ i \in Logged => "postgres" \notin left
      BY <3>1 DEF MessageInv
    <3> HIDE DEF left
    <3>5. Go(c, i, Writing(left))
      BY <2>2 DEF left
    <3> QED
      BY <2>2, <3>1, <3>2, <3>3, <3>4, <3>5, MessageAdvances
  <2> QED
    BY <1>7, <2>1, <2>2 DEF WriteSignals, Left
<1>8. ASSUME NEW c \in Consumers, NEW i \in Docs, Commit(c, i) PROVE IndexerInv'
  <2> DEFINE left == Left(c, i) \ {"commit"}
  <2>1. i \in consumer[c].batch /\ MessageInv(c, i)
    BY <1>8, InHand DEF Commit, Pending, At
  <2>2. /\ Writing(left) \in MsgState /\ Writing(left).left = left
        /\ Writing(left).pc = IF left = {} THEN "ack" ELSE "write"
    BY LeftIsSet, WritingIsState
  <2>3. docs' = docs /\ Logged' = Logged /\ LoggedOnce'
    BY <1>8 DEF Commit, Logged, IndexerInv, LoggedOnce
  <2>4. /\ outcome'[i]["signals"] # "none"
        /\ \A b \in Backends \ {"signals"} : outcome'[i][b] = outcome[i][b]
        /\ \A j \in Docs \ {i} : outcome'[j] = outcome[j]
    <3>1. \E result \in {"ok", "bad"} : Outcome(i, "signals", result)
      BY <1>8 DEF Commit
    <3> QED
      BY <3>1, OutcomeChanges DEF Backends
  <2>5. /\ Good(i) => \A b \in Backends : \/ outcome'[i][b] # "none" \/ b \in left
                                          \/ b = "signals" /\ "commit" \in left
        /\ i \in Logged => "postgres" \notin left
    <3>1. i \in Logged => "postgres" \notin left
      BY <2>1 DEF MessageInv
    <3>2. ASSUME Good(i), NEW b \in Backends \ {"signals"} PROVE outcome'[i][b] # "none" \/ b \in left
      <4>1. outcome[i][b] # "none" \/ b \in Left(c, i)
        BY <2>1, <3>2 DEF MessageInv
      <4> QED
        BY <2>4, <4>1 DEF Backends
    <3> QED
      BY <2>4, <3>1, <3>2
  <2>6. \A b \in Backends : outcome[i][b] # "none" => outcome'[i][b] # "none"
    BY <2>4
  <2> HIDE DEF left
  <2>7. Go(c, i, Writing(left))
    BY <1>8 DEF Commit, left, Left
  <2> QED
    BY <2>1, <2>2, <2>3, <2>4, <2>5, <2>6, <2>7, MessageAdvances
<1>9. ASSUME NEW c \in Consumers, NEW i \in Docs, Ack(c, i) PROVE IndexerInv'
  <2>1. /\ consumer'[c].batch = consumer[c].batch \ {i}
        /\ \A j \in Docs \ {i} : consumer'[c].msg[j] = consumer[c].msg[j]
        /\ \A d \in Consumers \ {c} : consumer'[d] = consumer[d]
    BY <1>9, ReturnChanges DEF Ack
  <2>2. /\ docs' \in {docs, XAck(docs, i)} /\ outcome' = outcome /\ crawlLog' = crawlLog
        /\ i \in consumer[c].batch /\ consumer[c].msg[i].pc = "ack" /\ consumer[c].batch \subseteq Docs
    BY <1>9, Fields DEF Ack, stores, At
  <2> QED
    BY <1>2, <2>1, <2>2, MessagesLeave
<1>10. ASSUME NEW c \in Consumers, NEW i \in Docs, Return(c, i), docs' = docs, UNCHANGED stores
       PROVE  IndexerInv'
  <2>1. /\ consumer'[c].batch = consumer[c].batch \ {i}
        /\ \A j \in Docs \ {i} : consumer'[c].msg[j] = consumer[c].msg[j]
        /\ \A d \in Consumers \ {c} : consumer'[d] = consumer[d]
    BY <1>10, ReturnChanges
  <2>2. outcome' = outcome /\ crawlLog' = crawlLog /\ consumer[c].batch \subseteq Docs
    BY <1>10, Fields DEF stores
  <2> QED
    BY <1>2, <1>10, <2>1, <2>2, MessagesLeave
<1>11. ASSUME NEW c \in Consumers, NEW i \in Docs, HandleFailure(c, i) PROVE IndexerInv'
  <2>1. /\ i \in consumer[c].batch /\ ~Good(i) /\ MessageInv(c, i)
        /\ docs' = docs /\ outcome' = outcome /\ crawlLog' = crawlLog /\ Logged' = Logged
    BY <1>11, InHand DEF HandleFailure, At, MessageInv, stores, Logged
  <2>2. CASE Return(c, i)
    BY <1>10, <1>11, <2>2 DEF HandleFailure
  <2>3. CASE Go(c, i, Doing("ack"))
    <3>1. Doing("ack") \in MsgState /\ Doing("ack").left = {} /\ Doing("ack").pc = "ack"
      BY DoingIsState
    <3>2. LoggedOnce'
      BY <2>1 DEF IndexerInv, LoggedOnce
    <3> QED
      BY <2>1, <2>3, <3>1, <3>2, MessageAdvances
  <2>4. CASE consumer' = [consumer EXCEPT ![c] = [@ EXCEPT !.retries[i] = consumer[c].retries[i] + 1,
                                                            !.msg[i] = Doing("backoff")]]
    <3> DEFINE new == [consumer[c] EXCEPT !.retries[i] = consumer[c].retries[i] + 1,
                                          !.msg[i] = Doing("backoff")]
    <3>1. /\ new.batch = consumer[c].batch /\ new.msg[i].left = {} /\ new.msg[i].pc = "backoff"
          /\ \A j \in Docs \ {i} : new.msg[j] = consumer[c].msg[j]
      BY <1>1, DoingIsState DEF ConsumerType
    <3> HIDE DEF new
    <3>2. consumer'[c] = new /\ \A d \in Consumers \ {c} : consumer'[d] = consumer[d]
      BY <1>1, <2>4 DEF new
    <3>3. \A d \in Consumers : consumer'[d].batch = consumer[d].batch /\ consumer[d].batch \subseteq Docs
      BY <3>1, <3>2, Fields
    <3>4. \A j \in Docs : Good(j)' = Good(j)
      BY <2>1 DEF Good, Form
    <3>5. ASSUME NEW d \in Consumers, NEW j \in consumer'[d].batch PROVE MessageInv(d, j)'
      <4>1. j \in consumer[d].batch /\ j \in Docs /\ MessageInv(d, j) /\ Good(j)' = Good(j)
        BY <3>3, <3>4 DEF IndexerInv, MessagesInv
      <4>2. CASE d = c /\ j = i
        BY <2>1, <3>1, <3>2, <4>1, <4>2 DEF MessageInv, Left
      <4>3. CASE ~(d = c /\ j = i)
        <5>1. consumer'[d].msg[j] = consumer[d].msg[j]
          BY <3>1, <3>2, <4>1, <4>3
        <5> QED
          BY <2>1, <4>1, <5>1 DEF MessageInv, Left
      <4> QED
        BY <4>2, <4>3
    <3> QED
      BY <2>1, <3>3, <3>5 DEF IndexerInv, HeldIsPending, HeldByOne, MessagesInv, LoggedOnce,
                              LoggedWasDelivered, AcknowledgedIsSettled, Settled, Good, Form
  <2> QED
    BY <1>11, <2>2, <2>3, <2>4 DEF HandleFailure
<1>12. ASSUME NEW c \in Consumers, NEW i \in Docs, Wake(c, i) PROVE IndexerInv'
  BY <1>10, <1>12 DEF Wake
<1>13. CASE UNCHANGED vars
  BY <1>13 DEF vars, IndexerInv, HeldIsPending, HeldByOne, MessagesInv, MessageInv, Left, Logged, LoggedOnce,
               LoggedWasDelivered, AcknowledgedIsSettled, Settled, Good, Form
<1> QED
  BY <1>3, <1>4, <1>5, <1>6, <1>7, <1>8, <1>9, <1>11, <1>12, <1>13, PublishedKeeps, PollKeeps
     DEF Next, Handle

-----------------------------------------------------------------------------
LEMMA IndexerInvariant == Spec => [](TypeOK /\ IndexerInv)
<1>1. TypeOK /\ IndexerInv /\ [Next]_vars => (TypeOK /\ IndexerInv)'
  BY IndexerTypeStep, IndexerInvStep
<1> QED
  BY IndexerInit, <1>1, PTL DEF Spec

\* The indexer's state is well typed.
THEOREM IndexerTypes == Spec => []TypeOK
  BY IndexerInvariant, PTL

\* "Messages are ACK'd only after all writes complete": what no longer is
\* pending has an outcome in each of the four stores, and nobody still writes
\* it, whichever writes and acknowledgements fail and whoever restarts.
THEOREM AcknowledgedAfterWrites == Spec => []AckedAfterWrites
<1>1. TypeOK /\ IndexerInv => AckedAfterWrites
  <2> SUFFICES ASSUME TypeOK, IndexerInv, NEW i \in Docs, Over(i), Good(i), i >= docs.first
               PROVE  Settled(i) /\ \A c \in Consumers : i \notin consumer[c].batch
    BY DEF AckedAfterWrites, Settled
  <2>1. i \in 1..docs.cursor /\ i \notin docs.pending
    BY DocsFields DEF Over, Entries
  <2> QED
    BY <2>1 DEF IndexerInv, AcknowledgedIsSettled, HeldIsPending
<1> QED
  BY <1>1, IndexerInvariant, PTL

\* The crawl log has a document once: no redelivery, retry or restart of
\* _write_all_backends inserts its row again.
THEOREM LoggedAtMostOnce == Spec => []LoggedOnce
<1>1. IndexerInv => LoggedOnce
  BY DEF IndexerInv
<1> QED
  BY <1>1, IndexerInvariant, PTL

-----------------------------------------------------------------------------
\* Every step of the indexers is a step of StreamGroup, or leaves the group
\* as it is.
LEMMA GroupStep == TypeOK /\ IndexerInv /\ [Next]_vars => [Readers!Next]_([i \in Docs |-> Phase(docs, i)])
<1> SUFFICES ASSUME TypeOK, IndexerInv, [Next]_vars
             PROVE  [Readers!Next]_([i \in Docs |-> Phase(docs, i)])
  OBVIOUS
<1> USE IndexerAssumption DEF IndexerAssumption
<1> DEFINE phase == [i \in Docs |-> Phase(docs, i)]
<1>1. Docs \subseteq Nat \ {0}
  BY DEF Docs
<1>2. ASSUME NEW doc \in Payload, Published(doc)
      PROVE  \E i \in Docs, dropped \in SUBSET Docs : Readers!Add(i, dropped)
  <2> DEFINE new == Len(docs.log) + 1
             dropped == {j \in Docs : Phase(docs, j) = "waiting" /\ j < docs'.first}
  <2>1. new \in Docs /\ Phase(docs, new) = "absent"
    BY <1>2, DocsFields DEF Published, Docs, Phase, Entries
  <2>2. \A j \in Docs : Phase(docs', j) = IF j = new THEN "waiting"
                                 ELSE IF Phase(docs, j) = "waiting" /\ j < docs'.first THEN "over"
                                 ELSE Phase(docs, j)
    BY <1>1, <1>2, XAddPhase, DocsFields DEF Published
  <2>3. phase' = [j \in Docs |-> CASE j = new -> "waiting"
                                   [] j \in dropped -> "over"
                                   [] OTHER -> phase[j]]
    <3>1. ASSUME NEW j \in Docs
          PROVE  Phase(docs', j) = CASE j = new -> "waiting"
                                     [] j \in dropped -> "over"
                                     [] OTHER -> phase[j]
      <4>1. new \notin dropped
        BY <2>1
      <4> QED
        BY <2>2, <4>1
    <3> QED
      BY <3>1 DEF Docs
  <2>4. new \in Readers!In("absent") /\ dropped \subseteq Readers!In("waiting")
    BY <2>1 DEF Readers!In
  <2> HIDE DEF new, dropped
  <2>5. Readers!Add(new, dropped)
    BY <2>3, <2>4 DEF Readers!Add
  <2>6. dropped \in SUBSET Docs
    BY DEF dropped
  <2> QED
    BY <2>1, <2>5, <2>6
<1>3. ASSUME NEW c \in Consumers, Poll(c) PROVE \E batch \in SUBSET Docs : Readers!Deliver(batch)
  <2> DEFINE batch == NextBatch(docs, BatchSize)
  <2>1. batch # {} /\ batch \subseteq Docs
    BY <1>3, BatchIsNew DEF Poll
  <2>2. \A i \in Docs : /\ i \in batch => Phase(docs, i) = "waiting"
                        /\ Phase(docs', i) = IF i \in batch THEN "pending" ELSE Phase(docs, i)
    BY <1>1, <1>3, <2>1, XReadGroupPhase, DocsFields DEF Poll
  <2> HIDE DEF batch
  <2>3. Readers!Deliver(batch)
    BY <2>1, <2>2 DEF Readers!Deliver, Readers!In, Readers!Move, Docs
  <2> QED
    BY <2>1, <2>3
<1>4. ASSUME NEW c \in Consumers, NEW i \in Docs, Ack(c, i), docs' # docs
      PROVE  Readers!Acknowledge(i)
  <2>1. docs' = XAck(docs, i) /\ i \in docs.pending
    BY <1>4, InHand DEF Ack, At
  <2>2. Phase(docs, i) = "pending" /\ \A j \in Docs :
           Phase(docs', j) = IF j = i THEN "over" ELSE Phase(docs, j)
    BY <1>1, <2>1, XAckPhase, DocsFields
  <2> QED
    BY <2>2 DEF Readers!Acknowledge, Readers!In, Readers!Move, Docs
<1>5. ASSUME docs' = docs PROVE phase' = phase
  BY <1>5 DEF Docs
<1>6. \/ docs' = docs
      \/ \E doc \in Payload : Published(doc)
      \/ \E c \in Consumers : Poll(c)
      \/ \E c \in Consumers : \E i \in Docs : Ack(c, i)
  <2>1. ASSUME NEW c \in Consumers, Exit(c) \/ Stop(c) \/ Restart(c) PROVE docs' = docs
    BY <2>1 DEF Exit, Stop, Restart
  <2>2. ASSUME NEW c \in Consumers, NEW i \in Docs, Handle(c, i), ~Ack(c, i) PROVE docs' = docs
    BY <2>2 DEF Handle, WriteMeili, WriteQdrant, WritePostgres, WriteSignals, Commit, HandleFailure, Wake
  <2>3. CASE UNCHANGED vars
    BY <2>3 DEF vars
  <2> QED
    BY <2>1, <2>2, <2>3 DEF Next
<1> QED
  BY <1>2, <1>3, <1>4, <1>5, <1>6 DEF Readers!Next

\* The indexers implement StreamGroup: a document is handed to one of them
\* once, is over when it is acknowledged, and is never handed out again.
THEOREM IndexersReadOnce == Spec => RefinesStreamGroup
<1>1. Init => Readers!Init
  BY DEF Init, Readers!Init, EmptyStream, Phase, Entries
<1> QED
  BY <1>1, GroupStep, IndexerInvariant, PTL DEF Spec, RefinesStreamGroup, Readers!Spec
=============================================================================
