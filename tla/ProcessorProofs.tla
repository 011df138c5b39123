-------------------------- MODULE ProcessorProofs --------------------------
(***************************************************************************)
(* Theorems about Processor, for any number of replicas, any batch size,   *)
(* any MAXLEN and any bounds.                                              *)
(***************************************************************************)
EXTENDS Processor, StreamProofs

\* What a consumer knows of the batch it works on.
InHand(c) == consumer[c].from..consumer[c].to

ConsumerInv(c) ==
    /\ IF consumer[c].from > consumer[c].to
       THEN consumer[c].pc \in {"poll", "exited"}
       ELSE consumer[c].pc \in {"fetch", "pipeline", "publish", "dismiss", "ack"}
    /\ InHand(c) \subseteq crawl.pending
    /\ \A i \in InHand(c) : i \in Published => i = consumer[c].from /\ At(c, "ack")
    /\ At(c, "ack") => consumer[c].from \in Published
    /\ At(c, "dismiss") => \/ crawl.log[consumer[c].from] # "page"
                           \/ consumer[c].from \in unreadable

OneHolder == \A c, d \in Consumers : InHand(c) \cap InHand(d) # {} => c = d
PublishedWasDelivered == \A i \in Published : i <= crawl.cursor
Settled == \A i \in 1..crawl.cursor :
              (i >= crawl.first /\ i \notin crawl.pending /\ crawl.log[i] = "page")
                  => i \in Published \cup unreadable

ProcessorInv ==
    /\ \A c \in Consumers : ConsumerInv(c)
    /\ OneHolder /\ PublishedOnce /\ PublishedWasDelivered /\ Settled

\* The types of the initial state, and the invariant: nothing is in hand.
LEMMA ProcessorInit == Init => TypeOK /\ ProcessorInv
<1> SUFFICES ASSUME Init PROVE TypeOK /\ ProcessorInv
  OBVIOUS
<1>1. TypeOK
  BY EmptyIsStream, ProcessorAssumption DEF Init, TypeOK, ConsumerState, Polling, State, Pcs, ProcessorAssumption
<1>2. Published = {} /\ Entries(docs) = {}
  BY DEF Init, Published, Entries, EmptyStream
<1>3. \A c \in Consumers : ConsumerInv(c) /\ InHand(c) = {}
  BY DEF Init, Polling, State, ConsumerInv, InHand, At
<1>4. OneHolder /\ PublishedOnce /\ PublishedWasDelivered /\ Settled
  BY <1>2, <1>3 DEF Init, OneHolder, PublishedOnce, PublishedWasDelivered, Settled, EmptyStream
<1> QED
  BY <1>1, <1>3, <1>4 DEF ProcessorInv

\* The fields of a consumer.
LEMMA Fields ==
    ASSUME TypeOK, NEW c \in Consumers
    PROVE  /\ consumer[c] = State(consumer[c].pc, consumer[c].running, consumer[c].from, consumer[c].to)
           /\ consumer[c].pc \in Pcs /\ consumer[c].running \in BOOLEAN
           /\ consumer[c].from \in Nat \ {0} /\ consumer[c].to \in 0..MaxEvents
  BY DEF TypeOK, ConsumerState, State

\* The crawl stream's fields, and where its pending entries lie.
LEMMA CrawlFields ==
    ASSUME TypeOK
    PROVE  /\ crawl \in StreamOf(Kinds) /\ docs \in StreamOf(Events)
           /\ Len(crawl.log) \in Nat /\ Len(crawl.log) <= MaxEvents /\ MaxEvents \in Nat
           /\ crawl.cursor \in Nat /\ crawl.cursor <= Len(crawl.log)
           /\ crawl.first \in Nat \ {0}
           /\ crawl.pending \subseteq 1..crawl.cursor
  BY StreamFields, ProcessorAssumption DEF TypeOK, ProcessorAssumption

\* What a consumer turns to next has its type.
LEMMA ConsumingIsState ==
    ASSUME TypeOK, NEW running \in BOOLEAN, NEW from \in Nat \ {0}, NEW to \in 0..MaxEvents
    PROVE  /\ Consuming(running, from, to) \in ConsumerState
           /\ Polling(running) \in ConsumerState
  BY CrawlFields DEF Consuming, ConsumerState, Polling, State, Pcs

\* XADD to docs_ready adds one document.
LEMMA PublishedGrows ==
    ASSUME TypeOK, NEW i \in Events, docs' \in XAdd(docs, i, DocsMaxLen)
    PROVE  /\ docs' \in StreamOf(Events)
           /\ Published' = Published \cup {i}
           /\ (PublishedOnce /\ i \notin Published) => PublishedOnce'
<1>1. /\ docs' \in StreamOf(Events) /\ Len(docs'.log) = Len(docs.log) + 1
      /\ docs'.log[Len(docs'.log)] = i /\ \A k \in Entries(docs) : docs'.log[k] = docs.log[k]
  BY XAddAppends, CrawlFields, ProcessorAssumption DEF ProcessorAssumption
<1>2. Entries(docs)' = Entries(docs) \cup {Len(docs.log) + 1} /\ Len(docs.log) \in Nat
  BY <1>1, StreamFields, CrawlFields DEF Entries
<1>3. Published' = Published \cup {i}
  BY <1>1, <1>2 DEF Published
<1>4. ASSUME PublishedOnce, i \notin Published PROVE PublishedOnce'
  BY <1>1, <1>2, <1>4 DEF PublishedOnce, Published
<1> QED
  BY <1>1, <1>3, <1>4

-----------------------------------------------------------------------------
\* Every step keeps the types.
LEMMA ProcessorTypeStep == TypeOK /\ ProcessorInv /\ [Next]_vars => TypeOK'
<1> SUFFICES ASSUME TypeOK, ProcessorInv, [Next]_vars PROVE TypeOK'
  OBVIOUS
<1> USE ProcessorAssumption DEF ProcessorAssumption
<1>1. ASSUME NEW c \in Consumers, At(c, "fetch") \/ At(c, "pipeline") \/ At(c, "publish")
                \/ At(c, "dismiss") \/ At(c, "ack")
      PROVE  Message(c) \in Events /\ Message(c) \in crawl.pending /\ Message(c) <= consumer[c].to
  BY <1>1, Fields, CrawlFields DEF ProcessorInv, ConsumerInv, InHand, At, Message, Events
<1>2. ASSUME NEW c \in Consumers, NEW state, Become(c, state),
             state \in ConsumerState
      PROVE  consumer' \in [Consumers -> ConsumerState]
  BY <1>2 DEF Become, TypeOK
<1>3. ASSUME NEW c \in Consumers, NEW pc \in Pcs, Go(c, pc)
      PROVE  consumer' \in [Consumers -> ConsumerState]
  BY <1>2, <1>3, Fields DEF Go, ConsumerState, State
<1>4. ASSUME NEW c \in Consumers, NextMessage(c) \/ AbandonBatch(c)
      PROVE  consumer' \in [Consumers -> ConsumerState]
  BY <1>2, <1>4, Fields, ConsumingIsState DEF NextMessage, AbandonBatch
<1>5. upsets' = upsets \/ Upset => upsets' \in 0..MaxUpsets
  BY DEF Upset, TypeOK
<1>6. ASSUME NEW c \in Consumers, crawl' = crawl \/ Acknowledged(c)
      PROVE  crawl' \in StreamOf(Kinds) /\ Len(crawl'.log) <= MaxEvents
  BY <1>6, XAckIsStream, CrawlFields DEF Acknowledged
<1>7. ASSUME NEW kind \in Kinds, Crawled(kind) PROVE TypeOK'
  <2>1. crawl' \in StreamOf(Kinds) /\ Len(crawl'.log) = Len(crawl.log) + 1
    BY <1>7, XAddAppends, CrawlFields DEF Crawled
  <2>2. Len(crawl'.log) <= MaxEvents
    BY <1>7, <2>1, CrawlFields DEF Crawled
  <2> QED
    BY <1>7, <2>1, <2>2 DEF Crawled, TypeOK
<1>8. ASSUME NEW c \in Consumers, Poll(c) PROVE TypeOK'
  <2>1. /\ crawl' \in StreamOf(Kinds) /\ crawl'.log = crawl.log
        /\ LastOfBatch(crawl, BatchSize) \in Unread(crawl)..Len(crawl.log)
    BY <1>8, XReadGroupIsStream, CrawlFields DEF Poll
  <2>2. Consuming(TRUE, Unread(crawl), LastOfBatch(crawl, BatchSize))
           \in ConsumerState
    <3>1. Unread(crawl) \in Nat \ {0}
      BY UnreadIsBehind, CrawlFields
    <3>2. LastOfBatch(crawl, BatchSize) \in 0..MaxEvents
      BY <2>1, <3>1, CrawlFields
    <3> QED
      BY <3>1, <3>2, ConsumingIsState
  <2>3. consumer' \in [Consumers -> ConsumerState]
    BY <1>2, <1>8, <2>2 DEF Poll, TypeOK
  <2> QED
    BY <1>5, <1>8, <2>1, <2>3, CrawlFields DEF Poll, TypeOK, CallSucceeds
<1>9. ASSUME NEW c \in Consumers, Exit(c) \/ Stop(c) \/ Restart(c) PROVE TypeOK'
  <2>1. consumer' \in [Consumers -> ConsumerState]
    <3>1. Polling(TRUE) \in ConsumerState /\ Exited \in ConsumerState
      BY DEF Polling, Exited, State, ConsumerState, Pcs
    <3>2. State(consumer[c].pc, FALSE, consumer[c].from, consumer[c].to) \in ConsumerState
      BY Fields DEF State, ConsumerState
    <3> QED
      BY <1>2, <1>9, <3>1, <3>2 DEF Exit, Stop, Restart
  <2> QED
    BY <1>5, <1>9, <2>1 DEF Exit, Stop, Restart, TypeOK
<1>10. ASSUME NEW c \in Consumers, Fetch(c) PROVE TypeOK'
  <2>1. consumer' \in [Consumers -> ConsumerState]
    BY <1>3, <1>10 DEF Fetch, Pcs
  <2> QED
    BY <1>1, <1>5, <1>10, <2>1 DEF Fetch, TypeOK, CallSucceeds
<1>11. ASSUME NEW c \in Consumers, RunPipeline(c) PROVE TypeOK'
  <2>1. consumer' \in [Consumers -> ConsumerState]
    BY <1>3, <1>4, <1>11 DEF RunPipeline, GiveUp, Pcs
  <2> QED
    BY <1>1, <1>5, <1>11, <2>1 DEF RunPipeline, GiveUp, TypeOK, CallSucceeds
<1>12. ASSUME NEW c \in Consumers, Publish(c) PROVE TypeOK'
  <2>1. consumer' \in [Consumers -> ConsumerState]
    BY <1>3, <1>4, <1>12 DEF Publish, GiveUp, Pcs
  <2>2. docs' \in StreamOf(Events)
    BY <1>1, <1>12, PublishedGrows, CrawlFields DEF Publish
  <2> QED
    BY <1>1, <1>5, <1>12, <2>1, <2>2 DEF Publish, GiveUp, TypeOK, CallSucceeds, CallFails
<1>13. ASSUME NEW c \in Consumers, Dismiss(c) \/ Ack(c) PROVE TypeOK'
  <2>1. consumer' \in [Consumers -> ConsumerState]
    BY <1>4, <1>13 DEF Dismiss, Ack, GiveUp
  <2>2. crawl' \in StreamOf(Kinds) /\ Len(crawl'.log) <= MaxEvents
    BY <1>6, <1>13 DEF Dismiss, Ack
  <2> QED
    BY <1>1, <1>5, <1>13, <2>1, <2>2 DEF Dismiss, Ack, GiveUp, TypeOK, CallSucceeds, CallFails
<1>14. CASE UNCHANGED vars
  BY <1>14 DEF vars, TypeOK
<1> QED
  BY <1>7, <1>8, <1>9, <1>10, <1>11, <1>12, <1>13, <1>14 DEF Next, Work

-----------------------------------------------------------------------------
\* One consumer turns to `state`, and loses hold of nothing another one has:
\* the others are where they were.
LEMMA OthersKeep ==
    ASSUME TypeOK, ProcessorInv, NEW c \in Consumers, NEW state \in ConsumerState, Become(c, state),
           \A d \in Consumers \ {c} : (state.from..state.to) \cap InHand(d) = {},
           \A i \in Entries(crawl) : crawl'.log[i] = crawl.log[i],
           \A d \in Consumers \ {c} : InHand(d) \subseteq crawl'.pending,
           \A d \in Consumers \ {c} : InHand(d) \cap Published' \subseteq Published,
           Published \subseteq Published', unreadable \subseteq unreadable'
    PROVE  /\ OneHolder' /\ InHand(c)' = state.from..state.to
           /\ consumer'[c] = state /\ \A d \in Consumers \ {c} : ConsumerInv(d)'
<1>1. consumer'[c] = state /\ \A d \in Consumers \ {c} : consumer'[d] = consumer[d]
  BY DEF Become, TypeOK
<1>2. InHand(c)' = state.from..state.to /\ \A d \in Consumers \ {c} : InHand(d)' = InHand(d)
  BY <1>1 DEF InHand
<1>3. ASSUME NEW d \in Consumers, NEW e \in Consumers, (InHand(d) \cap InHand(e))' # {} PROVE d = e
  <2>1. CASE d = c /\ e # c
    <3>1. InHand(d)' = state.from..state.to /\ InHand(e)' = InHand(e)
      BY <1>2, <2>1
    <3> QED
      BY <1>3, <2>1, <3>1
  <2>2. CASE e = c /\ d # c
    <3>1. InHand(e)' = state.from..state.to /\ InHand(d)' = InHand(d)
      BY <1>2, <2>2
    <3> QED
      BY <1>3, <2>2, <3>1
  <2>3. CASE d # c /\ e # c
    BY <1>2, <1>3, <2>3 DEF ProcessorInv, OneHolder
  <2> QED
    BY <2>1, <2>2, <2>3
<1>4. ASSUME NEW d \in Consumers \ {c} PROVE ConsumerInv(d)'
  <2>1. ConsumerInv(d) /\ consumer'[d] = consumer[d] /\ InHand(d)' = InHand(d)
    BY <1>1, <1>2 DEF ProcessorInv
  <2>2. At(d, "dismiss") => consumer[d].from \in Entries(crawl)
    BY <2>1, Fields, CrawlFields DEF ConsumerInv, InHand, At, Entries
  <2> QED
    BY <2>1, <2>2 DEF ConsumerInv, At
<1> QED
  BY <1>1, <1>2, <1>3, <1>4 DEF OneHolder

\* What a consumer turns to next is its own range of messages, and it is at the
\* step its first message calls for.
LEMMA ConsumingKeeps ==
    ASSUME NEW running, NEW from \in Nat \ {0}, NEW to \in Nat,
           NEW state, state = Consuming(running, from, to)
    PROVE  /\ state.from..state.to = from..to
           /\ from > to => state.from > state.to /\ state.pc = "poll"
           /\ from <= to => /\ state.from = from /\ state.to = to /\ state.pc \in {"fetch", "dismiss"}
                            /\ state.pc = "dismiss" => crawl.log[from] = "other"
  BY DEF Consuming, Polling, State

\* What is settled stays so, when an acknowledgement, if any, is deserved.
LEMMA SettledKeeps ==
    ASSUME Settled, NEW m, crawl'.log = crawl.log, crawl'.first = crawl.first,
           crawl'.cursor = crawl.cursor,
           crawl'.pending = crawl.pending \/ crawl'.pending = crawl.pending \ {m},
           crawl'.pending # crawl.pending =>
               crawl.log[m] # "page" \/ m \in Published' \cup unreadable',
           Published \subseteq Published', unreadable \subseteq unreadable'
    PROVE  Settled'
  BY DEF Settled

\* A consumer drops the message in its hands, acknowledged or not, for what is
\* left of its batch, or all of it: Dismiss, Ack, the failures, Restart and Exit.
LEMMA Drops ==
    ASSUME TypeOK, ProcessorInv, NEW c \in Consumers, NEW state \in ConsumerState, Become(c, state),
           state.from..state.to \subseteq InHand(c) \ {Message(c)},
           IF state.from > state.to THEN state.pc \in {"poll", "exited"}
           ELSE /\ state.pc \in {"fetch", "dismiss"}
                /\ state.pc = "dismiss" => crawl.log[state.from] = "other",
           \/ crawl' = crawl
           \/ /\ Acknowledged(c) /\ Message(c) \in InHand(c)
              /\ crawl.log[Message(c)] # "page" \/ Message(c) \in Published \cup unreadable,
           \/ docs' = docs
           \/ docs' \in XAdd(docs, Message(c), DocsMaxLen) /\ At(c, "publish"),
           unreadable' = unreadable
    PROVE  ProcessorInv'
<1> USE ProcessorAssumption DEF ProcessorAssumption
<1>1. /\ crawl'.log = crawl.log /\ crawl'.first = crawl.first /\ crawl'.cursor = crawl.cursor
      /\ crawl'.pending = crawl.pending \/ crawl'.pending = crawl.pending \ {Message(c)}
      /\ crawl'.pending # crawl.pending =>
            /\ Message(c) \in InHand(c)
            /\ crawl.log[Message(c)] # "page" \/ Message(c) \in Published \cup unreadable
  BY XAckIsStream, CrawlFields DEF Acknowledged
<1>2. ASSUME At(c, "publish")
      PROVE  /\ Message(c) \in Events \ Published /\ Message(c) \in InHand(c)
             /\ Message(c) <= crawl.cursor
  BY <1>2, Fields, CrawlFields DEF ProcessorInv, ConsumerInv, InHand, At, Message, Events
<1>3. /\ Published' = Published \/ (At(c, "publish") /\ Published' = Published \cup {Message(c)})
      /\ PublishedOnce'
  <2>1. CASE docs' = docs
    BY <2>1 DEF Published, ProcessorInv, PublishedOnce, Entries
  <2>2. CASE docs' \in XAdd(docs, Message(c), DocsMaxLen) /\ At(c, "publish")
    BY <1>2, <2>2, PublishedGrows DEF ProcessorInv
  <2> QED
    BY <2>1, <2>2
<1>4. \A d \in Consumers \ {c} : InHand(d) \cap InHand(c) = {} /\ InHand(d) \subseteq crawl.pending
  BY DEF ProcessorInv, OneHolder, ConsumerInv
<1>5. /\ OneHolder' /\ InHand(c)' = state.from..state.to /\ consumer'[c] = state
      /\ \A d \in Consumers \ {c} : ConsumerInv(d)'
  <2>1. \A d \in Consumers \ {c} : (state.from..state.to) \cap InHand(d) = {}
    BY <1>4
  <2>2. \A d \in Consumers \ {c} : InHand(d) \subseteq crawl'.pending
    BY <1>1, <1>4
  <2>3. \A d \in Consumers \ {c} : InHand(d) \cap Published' \subseteq Published
    BY <1>2, <1>3, <1>4
  <2> QED
    BY <1>1, <1>3, <2>1, <2>2, <2>3, OthersKeep
<1>6. ConsumerInv(c)'
  <2>1. InHand(c) \subseteq crawl.pending
    BY DEF ProcessorInv, ConsumerInv
  <2>2. InHand(c)' \subseteq crawl'.pending
    BY <1>1, <1>5, <2>1
  <2>3. \A i \in InHand(c) \ {Message(c)} : i \notin Published
    BY DEF ProcessorInv, ConsumerInv, Message
  <2>4. \A i \in InHand(c)' : i \notin Published'
    BY <1>3, <1>5, <2>3
  <2> QED
    BY <1>1, <1>5, <2>2, <2>4 DEF ConsumerInv, At
<1>7. PublishedWasDelivered'
  BY <1>1, <1>2, <1>3 DEF ProcessorInv, PublishedWasDelivered
<1>8. Settled'
  <2>1. Settled /\ Published \subseteq Published'
    BY <1>3 DEF ProcessorInv
  <2> QED
    BY <1>1, <2>1, SettledKeeps
<1>9. \A d \in Consumers : ConsumerInv(d)'
  BY <1>5, <1>6
<1> QED
  BY <1>3, <1>5, <1>7, <1>8, <1>9 DEF ProcessorInv

\* A consumer goes to the next step of the message in its hands, or is told to
\* stop: Fetch, RunPipeline, Publish and Stop.
LEMMA Advances ==
    ASSUME TypeOK, ProcessorInv, NEW c \in Consumers, NEW pc \in Pcs, NEW running \in BOOLEAN,
           Become(c, State(pc, running, consumer[c].from, consumer[c].to)),
           crawl' = crawl, unreadable \subseteq unreadable',
           \/ pc = consumer[c].pc /\ docs' = docs
           \/ /\ At(c, "fetch") \/ At(c, "pipeline")
              /\ pc \in {"pipeline", "publish", "dismiss"} /\ docs' = docs
              /\ pc = "dismiss" => crawl.log[Message(c)] # "page" \/ Message(c) \in unreadable'
           \/ /\ At(c, "publish") /\ pc = "ack"
              /\ docs' \in XAdd(docs, Message(c), DocsMaxLen)
    PROVE  ProcessorInv'
<1> USE ProcessorAssumption DEF ProcessorAssumption
<1> DEFINE state == State(pc, running, consumer[c].from, consumer[c].to)
<1>1. /\ state \in ConsumerState /\ state.from..state.to = InHand(c)
      /\ state.pc = pc /\ state.from = consumer[c].from /\ state.to = consumer[c].to
  BY Fields DEF State, ConsumerState, InHand
<1>2. ASSUME At(c, "publish")
      PROVE  /\ Message(c) \in Events \ Published /\ Message(c) \in InHand(c)
             /\ Message(c) <= crawl.cursor
  BY <1>2, Fields, CrawlFields DEF ProcessorInv, ConsumerInv, InHand, At, Message, Events
<1>3. /\ \/ (pc = consumer[c].pc \/ pc # "ack") /\ docs' = docs /\ Published' = Published
         \/ At(c, "publish") /\ pc = "ack" /\ Published' = Published \cup {Message(c)}
      /\ PublishedOnce'
  <2>1. CASE (pc = consumer[c].pc \/ pc # "ack") /\ docs' = docs
    BY <2>1 DEF Published, ProcessorInv, PublishedOnce, Entries
  <2>2. CASE docs' \in XAdd(docs, Message(c), DocsMaxLen) /\ At(c, "publish") /\ pc = "ack"
    BY <1>2, <2>2, PublishedGrows DEF ProcessorInv
  <2> QED
    BY <2>1, <2>2 DEF At
<1>4. \A d \in Consumers \ {c} : InHand(d) \cap InHand(c) = {} /\ InHand(d) \subseteq crawl.pending
  BY DEF ProcessorInv, OneHolder, ConsumerInv
<1>5. /\ OneHolder' /\ InHand(c)' = InHand(c) /\ consumer'[c] = state
      /\ \A d \in Consumers \ {c} : ConsumerInv(d)'
  <2>1. \A d \in Consumers \ {c} : (state.from..state.to) \cap InHand(d) = {}
    BY <1>1, <1>4
  <2>2. \A d \in Consumers \ {c} : InHand(d) \cap Published' \subseteq Published
    BY <1>2, <1>3, <1>4
  <2> HIDE DEF state
  <2>3. Become(c, state)
    BY DEF state
  <2> QED
    BY <1>1, <1>3, <1>4, <2>1, <2>2, <2>3, OthersKeep
<1>6. ConsumerInv(c)'
  <2>1. ConsumerInv(c)
    BY DEF ProcessorInv
  <2>2. consumer[c].from > consumer[c].to =>
            pc = consumer[c].pc /\ docs' = docs /\ pc \in {"poll", "exited"}
    BY <2>1 DEF ConsumerInv, At
  <2>3. consumer[c].from <= consumer[c].to =>
            pc \in {"fetch", "pipeline", "publish", "dismiss", "ack"}
    BY <2>1, Fields DEF ConsumerInv, At
  <2>4. \A i \in InHand(c) : i \in Published' => i = consumer[c].from /\ pc = "ack"
    BY <1>2, <1>3, <2>1 DEF ConsumerInv, At, Message
  <2>5. pc = "ack" => consumer[c].from \in Published'
    BY <1>3, <2>1 DEF ConsumerInv, At, Message
  <2>6. pc = "dismiss" => crawl.log[consumer[c].from] # "page" \/ consumer[c].from \in unreadable'
    BY <2>1 DEF ConsumerInv, At, Message
  <2> HIDE DEF state
  <2> QED
    BY <1>1, <1>5, <2>1, <2>2, <2>3, <2>4, <2>5, <2>6, Fields DEF ConsumerInv, At
<1>7. PublishedWasDelivered'
  BY <1>2, <1>3 DEF ProcessorInv, PublishedWasDelivered
<1>8. Settled'
  BY <1>3 DEF ProcessorInv, Settled
<1>9. \A d \in Consumers : ConsumerInv(d)'
  BY <1>5, <1>6
<1> QED
  BY <1>3, <1>5, <1>7, <1>8, <1>9 DEF ProcessorInv

\* The producer adds an event: nothing delivered is touched.
LEMMA CrawledKeeps ==
    ASSUME TypeOK, ProcessorInv, NEW kind \in Kinds, Crawled(kind) PROVE ProcessorInv'
<1> USE ProcessorAssumption DEF ProcessorAssumption
<1>1. /\ \A i \in Entries(crawl) : crawl'.log[i] = crawl.log[i]
      /\ crawl'.cursor = crawl.cursor /\ crawl'.pending = crawl.pending
      /\ crawl.first <= crawl'.first /\ crawl'.first \in Nat
  BY XAddAppends, CrawlFields, StreamFields DEF Crawled
<1>2. Published' = Published /\ PublishedOnce' /\ consumer' = consumer /\ unreadable' = unreadable
  BY DEF Crawled, Published, ProcessorInv, PublishedOnce, Entries
<1>3. ASSUME NEW d \in Consumers PROVE ConsumerInv(d)'
  <2>1. ConsumerInv(d) /\ InHand(d)' = InHand(d)
    BY <1>2 DEF ProcessorInv, InHand
  <2>2. At(d, "dismiss") => consumer[d].from \in Entries(crawl)
    BY <2>1, Fields, CrawlFields DEF ConsumerInv, InHand, At, Entries
  <2> QED
    BY <1>1, <1>2, <2>1, <2>2 DEF ConsumerInv, At
<1>4. OneHolder'
  BY <1>2 DEF ProcessorInv, OneHolder, InHand
<1>5. Settled'
  BY <1>1, <1>2, CrawlFields DEF ProcessorInv, Settled, Entries
<1> QED
  BY <1>1, <1>2, <1>3, <1>4, <1>5 DEF ProcessorInv, PublishedWasDelivered

\* A batch comes from behind everything delivered so far: nobody has it, and
\* none of it is published.
LEMMA PollKeeps ==
    ASSUME TypeOK, ProcessorInv, NEW c \in Consumers, Poll(c) PROVE ProcessorInv'
<1> USE ProcessorAssumption DEF ProcessorAssumption
<1> DEFINE from == Unread(crawl)
           to == LastOfBatch(crawl, BatchSize)
<1>1. /\ crawl'.log = crawl.log /\ crawl'.first = crawl.first /\ crawl'.cursor = to
      /\ crawl'.pending = crawl.pending \cup (from..to)
      /\ from \in Nat \ {0} /\ from > crawl.cursor /\ from >= crawl.first
      /\ from <= to /\ to \in 0..MaxEvents /\ to \in Nat
  <2>1. /\ crawl' = XReadGroup(crawl, BatchSize) /\ NextBatch(crawl, BatchSize) # {}
        /\ NextBatch(crawl, BatchSize) = from..to
    BY DEF Poll, NextBatch
  <2>2. /\ crawl'.log = crawl.log /\ crawl'.first = crawl.first /\ crawl'.cursor = to
        /\ crawl'.pending = crawl.pending \cup (from..to) /\ to \in from..Len(crawl.log)
    BY <2>1, XReadGroupIsStream, CrawlFields
  <2>3. from \in Nat \ {0} /\ from > crawl.cursor /\ from >= crawl.first
    BY UnreadIsBehind, CrawlFields
  <2>4. QED
    BY <2>2, <2>3, CrawlFields
<1>2. Published' = Published /\ PublishedOnce' /\ unreadable' = unreadable
  BY DEF Poll, Published, ProcessorInv, PublishedOnce, Entries
<1>3. \A d \in Consumers : InHand(d) \subseteq crawl.pending /\ (from..to) \cap InHand(d) = {}
  BY <1>1, CrawlFields DEF ProcessorInv, ConsumerInv
<1>4. \A i \in from..to : i \notin Published
  BY <1>1, CrawlFields DEF ProcessorInv, PublishedWasDelivered
<1>5. from = Unread(crawl) /\ \A i \in Nat : (i > crawl.cursor /\ i < from) => i < crawl.first
  BY CrawlFields DEF Unread
<1> HIDE DEF from, to
<1>6. (\A d \in Consumers : ConsumerInv(d)') /\ OneHolder'
  <2>1. CASE consumer' = consumer
    <3>1. \A d \in Consumers : ConsumerInv(d)'
      BY <1>1, <1>2, <2>1 DEF ProcessorInv, ConsumerInv, InHand, At
    <3> QED
      BY <2>1, <3>1 DEF ProcessorInv, OneHolder, InHand
  <2>2. CASE Become(c, Consuming(TRUE, from, to))
    <3> DEFINE state == Consuming(TRUE, from, to)
    <3>1. state \in ConsumerState
      BY <1>1, ConsumingIsState
    <3>2. /\ state.from..state.to = from..to
          /\ state.from = from /\ state.to = to /\ state.pc \in {"fetch", "dismiss"}
          /\ state.pc = "dismiss" => crawl.log[from] = "other"
      <4>1. from \in Nat \ {0} /\ to \in Nat /\ from <= to
        BY <1>1
      <4> HIDE DEF state
      <4>2. state = Consuming(TRUE, from, to)
        BY DEF state
      <4> QED
        BY <4>1, <4>2, ConsumingKeeps
    <3> HIDE DEF state
    <3>3. Become(c, state)
      BY <2>2 DEF state
    <3>4. /\ OneHolder' /\ InHand(c)' = from..to /\ consumer'[c] = state
          /\ \A d \in Consumers \ {c} : ConsumerInv(d)'
      BY <1>1, <1>2, <1>3, <3>1, <3>2, <3>3, OthersKeep
    <3>5. ConsumerInv(c)'
      BY <1>1, <1>2, <1>4, <3>2, <3>4 DEF ConsumerInv, At
    <3> QED
      BY <3>4, <3>5
  <2> QED
    BY <2>1, <2>2 DEF Poll, from, to
<1>7. PublishedWasDelivered'
  <2>1. Published \subseteq Nat
    <3>1. docs.log \in Seq(Events)
      BY StreamFields, CrawlFields
    <3> QED
      BY <3>1 DEF Published, Entries, Events
  <2> QED
    BY <1>1, <1>2, <2>1, CrawlFields DEF ProcessorInv, PublishedWasDelivered
<1>8. Settled'
  BY <1>1, <1>2, <1>5, CrawlFields DEF ProcessorInv, Settled
<1> QED
  BY <1>2, <1>6, <1>7, <1>8 DEF ProcessorInv

\* The same, with the two ways a consumer is done with a message.
LEMMA LeavesMessage ==
    ASSUME TypeOK, ProcessorInv, NEW c \in Consumers, NextMessage(c) \/ AbandonBatch(c),
           consumer[c].from <= consumer[c].to,
           \/ crawl' = crawl
           \/ /\ Acknowledged(c)
              /\ crawl.log[Message(c)] # "page" \/ Message(c) \in Published \cup unreadable,
           \/ docs' = docs
           \/ docs' \in XAdd(docs, Message(c), DocsMaxLen) /\ At(c, "publish"),
           unreadable' = unreadable
    PROVE  ProcessorInv'
<1> USE ProcessorAssumption DEF ProcessorAssumption
<1>1. /\ consumer[c].from \in Nat \ {0} /\ consumer[c].to \in 0..MaxEvents
      /\ consumer[c].to \in Nat /\ consumer[c].running \in BOOLEAN
      /\ consumer[c].from + 1 \in Nat \ {0} /\ Message(c) \in InHand(c)
      /\ Message(c) = consumer[c].from
  BY Fields DEF Message, InHand
<1>2. CASE NextMessage(c)
  <2> DEFINE state == Consuming(consumer[c].running, consumer[c].from + 1, consumer[c].to)
  <2>1. state \in ConsumerState
    BY <1>1, ConsumingIsState
  <2>2. /\ state.from..state.to = (consumer[c].from + 1)..consumer[c].to
        /\ consumer[c].from + 1 > consumer[c].to => state.from > state.to /\ state.pc = "poll"
        /\ consumer[c].from + 1 <= consumer[c].to =>
              /\ state.from = consumer[c].from + 1 /\ state.to = consumer[c].to
              /\ state.pc \in {"fetch", "dismiss"}
              /\ state.pc = "dismiss" => crawl.log[consumer[c].from + 1] = "other"
    BY <1>1, ConsumingKeeps
  <2>3. Become(c, state)
    BY <1>2 DEF NextMessage
  <2> HIDE DEF state
  <2>4. state.from..state.to \subseteq InHand(c) \ {Message(c)}
    <3>1. ASSUME NEW i \in (consumer[c].from + 1)..consumer[c].to
          PROVE  i \in consumer[c].from..consumer[c].to /\ i # consumer[c].from
      BY <1>1
    <3> QED
      BY <1>1, <2>2, <3>1 DEF InHand
  <2>5. IF state.from > state.to THEN state.pc \in {"poll", "exited"}
        ELSE /\ state.pc \in {"fetch", "dismiss"}
             /\ state.pc = "dismiss" => crawl.log[state.from] = "other"
    BY <1>1, <2>2
  <2> QED
    BY <1>1, <2>1, <2>3, <2>4, <2>5, Drops
<1>3. CASE AbandonBatch(c)
  <2>1. /\ Polling(consumer[c].running) \in ConsumerState
        /\ Polling(consumer[c].running).from > Polling(consumer[c].running).to
        /\ Polling(consumer[c].running).from..Polling(consumer[c].running).to = {}
        /\ Polling(consumer[c].running).pc = "poll"
    BY <1>1 DEF Polling, State, ConsumerState, Pcs
  <2> QED
    BY <1>1, <1>3, <2>1, Drops DEF AbandonBatch
<1> QED
  BY <1>2, <1>3

\* Every step keeps the invariant.
LEMMA ProcessorInvStep == TypeOK /\ ProcessorInv /\ [Next]_vars => ProcessorInv'
<1> SUFFICES ASSUME TypeOK, ProcessorInv, [Next]_vars PROVE ProcessorInv'
  OBVIOUS
<1> USE ProcessorAssumption DEF ProcessorAssumption
<1>1. ASSUME NEW c \in Consumers, At(c, "fetch") \/ At(c, "pipeline") \/ At(c, "publish")
                \/ At(c, "dismiss") \/ At(c, "ack")
      PROVE  consumer[c].from <= consumer[c].to
  BY <1>1, Fields DEF ProcessorInv, ConsumerInv, At
<1>2. ASSUME NEW c \in Consumers, NEW pc \in Pcs, Go(c, pc)
      PROVE  /\ Become(c, State(pc, consumer[c].running, consumer[c].from, consumer[c].to))
             /\ consumer[c].running \in BOOLEAN
  BY <1>2, Fields DEF Go
<1>3. ASSUME NEW c \in Consumers, Exit(c) \/ Restart(c) PROVE ProcessorInv'
  <2>1. /\ Exited \in ConsumerState /\ Exited.from > Exited.to /\ Exited.pc = "exited"
        /\ Exited.from..Exited.to = {}
    BY DEF Exited, State, ConsumerState, Pcs
  <2>2. /\ Polling(TRUE) \in ConsumerState /\ Polling(TRUE).from > Polling(TRUE).to
        /\ Polling(TRUE).pc = "poll" /\ Polling(TRUE).from..Polling(TRUE).to = {}
    BY DEF Polling, State, ConsumerState, Pcs
  <2>3. CASE Exit(c)
    BY <2>1, <2>3, Drops DEF Exit
  <2>4. CASE Restart(c)
    BY <2>2, <2>4, Drops DEF Restart
  <2> QED
    BY <1>3, <2>3, <2>4
<1>4. ASSUME NEW c \in Consumers, Stop(c) PROVE ProcessorInv'
  BY <1>4, Fields, Advances DEF Stop
<1>5. ASSUME NEW c \in Consumers, Fetch(c) PROVE ProcessorInv'
  <2>1. CASE Go(c, "pipeline") /\ UNCHANGED unreadable
    BY <1>2, <1>5, <2>1, Advances DEF Fetch, Pcs
  <2>2. CASE Go(c, "dismiss") /\ unreadable' = unreadable \cup {Message(c)}
    BY <1>2, <1>5, <2>2, Advances DEF Fetch, Pcs
  <2> QED
    BY <1>5, <2>1, <2>2 DEF Fetch
<1>6. ASSUME NEW c \in Consumers, RunPipeline(c) PROVE ProcessorInv'
  <2>1. CASE GiveUp(c)
    BY <1>1, <1>6, <2>1, LeavesMessage DEF RunPipeline, GiveUp
  <2>2. CASE Go(c, "dismiss") /\ crawl.log[Message(c)] = "thin"
    BY <1>2, <1>6, <2>2, Advances DEF RunPipeline, Pcs
  <2>3. CASE Go(c, "publish")
    BY <1>2, <1>6, <2>3, Advances DEF RunPipeline, Pcs
  <2> QED
    BY <1>6, <2>1, <2>2, <2>3 DEF RunPipeline
<1>7. ASSUME NEW c \in Consumers, Publish(c) PROVE ProcessorInv'
  <2>1. CASE GiveUp(c) /\ docs' \in XAdd(docs, Message(c), DocsMaxLen) \cup {docs}
    BY <1>1, <1>7, <2>1, LeavesMessage DEF Publish, GiveUp
  <2>2. CASE Go(c, "ack") /\ docs' \in XAdd(docs, Message(c), DocsMaxLen)
    BY <1>2, <1>7, <2>2, Advances DEF Publish, Pcs
  <2> QED
    BY <1>7, <2>1, <2>2 DEF Publish
<1>8. ASSUME NEW c \in Consumers, Dismiss(c) PROVE ProcessorInv'
  <2>1. crawl.log[Message(c)] # "page" \/ Message(c) \in Published \cup unreadable
    BY <1>8 DEF Dismiss, ProcessorInv, ConsumerInv, Message
  <2> QED
    BY <1>1, <1>8, <2>1, LeavesMessage DEF Dismiss, GiveUp
<1>9. ASSUME NEW c \in Consumers, Ack(c) PROVE ProcessorInv'
  <2>1. Message(c) \in Published \cup unreadable
    BY <1>9 DEF Ack, ProcessorInv, ConsumerInv, Message
  <2> QED
    BY <1>1, <1>9, <2>1, LeavesMessage DEF Ack
<1>10. CASE UNCHANGED vars
  BY <1>10 DEF vars, ProcessorInv, ConsumerInv, InHand, At, OneHolder, PublishedOnce,
               PublishedWasDelivered, Settled, Published, Entries
<1> QED
  BY <1>3, <1>4, <1>5, <1>6, <1>7, <1>8, <1>9, <1>10, CrawledKeeps, PollKeeps DEF Next, Work

-----------------------------------------------------------------------------
\* Every reachable state has its types and satisfies the invariant.
LEMMA ProcessorInvariant == Spec => [](TypeOK /\ ProcessorInv)
<1>1. TypeOK /\ ProcessorInv /\ [Next]_vars => (TypeOK /\ ProcessorInv)'
  BY ProcessorTypeStep, ProcessorInvStep
<1> QED
  BY <1>1, ProcessorInit, PTL DEF Spec

\* The state of the streams and of the consumers keeps its types: no replica
\* works on a message that is not there.
THEOREM ProcessorTypes == Spec => []TypeOK
  BY ProcessorInvariant, PTL

\* A message is worked on by one replica at most, and is pending meanwhile,
\* whatever fails and whoever is restarted.
THEOREM Exclusion == Spec => []HeldByOneAndPending
<1>1. TypeOK /\ ProcessorInv => HeldByOneAndPending
  <2> SUFFICES ASSUME ProcessorInv, NEW i \in Group, Held(i) # {} PROVE
         i \in crawl.pending /\ \E c \in Consumers : Held(i) = {c}
    BY DEF HeldByOneAndPending
  <2>1. PICK c \in Consumers : i \in InHand(c)
    BY DEF Held, InHand
  <2>2. i \in crawl.pending
    BY <2>1 DEF ProcessorInv, ConsumerInv
  <2>3. Held(i) = {c}
    BY <2>1 DEF Held, InHand, ProcessorInv, OneHolder
  <2> QED
    BY <2>2, <2>3
<1> QED
  BY <1>1, ProcessorInvariant, PTL

\* No page is published twice: a failed acknowledgement or a crash after the
\* XADD costs a pending entry, never a second document.
THEOREM AtMostOneDocument == Spec => []PublishedOnce
  BY ProcessorInvariant, PTL DEF ProcessorInv

\* An acknowledged page has its document on the stream, unless MinIO did not
\* give the HTML.
THEOREM AcknowledgedAfterPublishing == Spec => []AcknowledgedIsPublished
<1>1. TypeOK /\ ProcessorInv => AcknowledgedIsPublished
  <2> SUFFICES ASSUME TypeOK, ProcessorInv, NEW i \in Group, Phase(crawl, i) = "over",
                      crawl.log[i] = "page", i >= crawl.first
               PROVE  i \in Published \cup unreadable
    BY DEF AcknowledgedIsPublished
  <2>1. i \notin crawl.pending /\ ~(i >= Unread(crawl))
    BY DEF Phase
  <2>2. i \in 1..crawl.cursor
    BY <2>1, CrawlFields DEF Unread, Group, Entries
  <2> QED
    BY <2>1, <2>2 DEF ProcessorInv, Settled
<1> QED
  BY <1>1, ProcessorInvariant, PTL

-----------------------------------------------------------------------------
\* Every step of the processors is a step of StreamGroup, or leaves the group
\* as it is.
LEMMA GroupStep == TypeOK /\ ProcessorInv /\ [Next]_vars => [Readers!Next]_([i \in Events |-> Phase(crawl, i)])
<1> SUFFICES ASSUME TypeOK, ProcessorInv, [Next]_vars
             PROVE  [Readers!Next]_([i \in Events |-> Phase(crawl, i)])
  OBVIOUS
<1> USE ProcessorAssumption DEF ProcessorAssumption
<1> DEFINE phase == [i \in Events |-> Phase(crawl, i)]
<1>1. Events \subseteq Nat \ {0}
  BY DEF Events
<1>2. ASSUME NEW kind \in Kinds, Crawled(kind)
      PROVE  \E i \in Events, dropped \in SUBSET Events : Readers!Add(i, dropped)
  <2> DEFINE new == Len(crawl.log) + 1
             dropped == {j \in Events : Phase(crawl, j) = "waiting" /\ j < crawl'.first}
  <2>1. new \in Events /\ Phase(crawl, new) = "absent"
    BY <1>2, CrawlFields DEF Crawled, Events, Phase, Entries
  <2>2. \A j \in Events : Phase(crawl', j) = IF j = new THEN "waiting"
                                   ELSE IF Phase(crawl, j) = "waiting" /\ j < crawl'.first THEN "over"
                                   ELSE Phase(crawl, j)
    BY <1>1, <1>2, XAddPhase, CrawlFields DEF Crawled
  <2>3. phase' = [j \in Events |-> CASE j = new -> "waiting"
                                     [] j \in dropped -> "over"
                                     [] OTHER -> phase[j]]
    <3>1. ASSUME NEW j \in Events
          PROVE  Phase(crawl', j) = CASE j = new -> "waiting"
                                      [] j \in dropped -> "over"
                                      [] OTHER -> phase[j]
      <4>1. new \notin dropped
        BY <2>1
      <4> QED
        BY <2>2, <4>1
    <3> QED
      BY <3>1 DEF Events
  <2>4. new \in Readers!In("absent") /\ dropped \subseteq Readers!In("waiting")
    BY <2>1 DEF Readers!In
  <2> HIDE DEF new, dropped
  <2>5. Readers!Add(new, dropped)
    BY <2>3, <2>4 DEF Readers!Add
  <2>6. dropped \in SUBSET Events
    BY DEF dropped
  <2> QED
    BY <2>1, <2>5, <2>6
<1>3. ASSUME NEW c \in Consumers, Poll(c) PROVE \E batch \in SUBSET Events : Readers!Deliver(batch)
  <2> DEFINE batch == NextBatch(crawl, BatchSize)
  <2>1. batch # {} /\ batch \subseteq Events
    <3>1. NextBatch(crawl, BatchSize) # {} /\ Unread(crawl) \in Nat \ {0}
      BY <1>3, UnreadIsBehind, CrawlFields DEF Poll
    <3>2. LastOfBatch(crawl, BatchSize) \in Unread(crawl)..Len(crawl.log)
      BY <3>1, XReadGroupIsStream, CrawlFields
    <3> QED
      BY <3>1, <3>2, CrawlFields DEF NextBatch, Events
  <2>2. \A i \in Events : /\ i \in batch => Phase(crawl, i) = "waiting"
                          /\ Phase(crawl', i) = IF i \in batch THEN "pending" ELSE Phase(crawl, i)
    BY <1>1, <1>3, <2>1, XReadGroupPhase, CrawlFields DEF Poll
  <2> HIDE DEF batch
  <2>3. Readers!Deliver(batch)
    BY <2>1, <2>2 DEF Readers!Deliver, Readers!In, Readers!Move, Events
  <2> QED
    BY <2>1, <2>3
<1>4. ASSUME NEW i \in Events, i \in crawl.pending, crawl' = XAck(crawl, i)
      PROVE  \E j \in Events : Readers!Acknowledge(j)
  <2>1. Phase(crawl, i) = "pending" /\ \A j \in Events :
           Phase(crawl', j) = IF j = i THEN "over" ELSE Phase(crawl, j)
    BY <1>1, <1>4, XAckPhase, CrawlFields
  <2>2. Readers!Acknowledge(i)
    BY <2>1 DEF Readers!Acknowledge, Readers!In, Readers!Move, Events
  <2> QED
    BY <2>2
<1>5. ASSUME crawl' = crawl PROVE phase' = phase
  BY <1>5 DEF Events
<1>6. ASSUME NEW c \in Consumers, Dismiss(c) \/ Ack(c), Acknowledged(c)
      PROVE  \E j \in Events : Readers!Acknowledge(j)
  <2>1. consumer[c].from \in crawl.pending /\ consumer[c].from \in Events
    BY <1>6, Fields, CrawlFields DEF ProcessorInv, ConsumerInv, InHand, At, Dismiss, Ack, Events
  <2> QED
    BY <1>4, <1>6, <2>1 DEF Acknowledged, Message
<1>7. \/ crawl' = crawl
      \/ \E kind \in Kinds : Crawled(kind)
      \/ \E c \in Consumers : Poll(c) \/ ((Dismiss(c) \/ Ack(c)) /\ Acknowledged(c))
  <2>1. ASSUME NEW c \in Consumers, Exit(c) \/ Stop(c) \/ Restart(c) \/ Fetch(c) \/ RunPipeline(c) \/ Publish(c)
        PROVE  crawl' = crawl
    BY <2>1 DEF Exit, Stop, Restart, Fetch, RunPipeline, Publish
  <2>2. ASSUME NEW c \in Consumers, Dismiss(c) \/ Ack(c)
        PROVE  crawl' = crawl \/ Acknowledged(c)
    BY <2>2 DEF Dismiss, Ack
  <2> QED
    BY <2>1, <2>2 DEF Next, Work, vars
<1> QED
  BY <1>2, <1>3, <1>5, <1>6, <1>7 DEF Readers!Next

\* The processors implement StreamGroup: a message is handed to one consumer
\* once, is over when it is acknowledged, and is never handed out again.
THEOREM ProcessorsReadOnce == Spec => RefinesStreamGroup
<1>1. Init => Readers!Init
  BY DEF Init, Readers!Init, EmptyStream, Phase, Entries
<1> QED
  BY <1>1, GroupStep, ProcessorInvariant, PTL DEF Spec, RefinesStreamGroup, Readers!Spec
=============================================================================
