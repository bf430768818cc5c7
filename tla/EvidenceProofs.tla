---------------------------- MODULE EvidenceProofs ----------------------------
(***************************************************************************)
(* Theorems about what is kept as evidence: AuditChain, for any streams,   *)
(* callers and payloads and any number of events; Recovery, for any        *)
(* number of backup runs, workers, digests, events, restores and faults,   *)
(* and through it ArtifactStore.                                           *)
(***************************************************************************)
EXTENDS AuditChain, Recovery, FiniteSetTheorems, TLAPS

\* An event that continues the head of a chain, with a higher number, extends it.
LEMMA ChainExtends ==
  ASSUME NEW rows \in SUBSET Event, NEW last \in HeadRow, Chain(rows, last), NEW f \in Event,
         last.sequence < f.sequence, f.previous = last.hash,
         f.hash = compute_event_hash(f.sequence, f.payload, f.previous)
  PROVE  Chain(rows \cup {f}, [sequence |-> f.sequence, hash |-> f.hash])
  <1> DEFINE new == rows \cup {f}
             tail == [sequence |-> f.sequence, hash |-> f.hash]
  <1>1. /\ \A e \in new : e.sequence \in Int
        /\ last.sequence \in Int
        /\ \A e \in rows : e.sequence <= last.sequence /\ e.sequence < f.sequence
    BY AuditChainAssumption DEF Event, HeadRow, Sequence, Chain
  <1>2. ASSUME NEW g \in new
        PROVE  /\ g.hash = compute_event_hash(g.sequence, g.payload, g.previous)
               /\ \/ \E e \in new : Precedes(e, g, new) /\ g.previous = e.hash
                  \/ (\A e \in new : g.sequence <= e.sequence) /\ g.previous = Genesis
    <2>1. CASE g \in rows
      <3>1. /\ g.hash = compute_event_hash(g.sequence, g.payload, g.previous)
            /\ \/ \E e \in rows : Precedes(e, g, rows) /\ g.previous = e.hash
               \/ (\A e \in rows : g.sequence <= e.sequence) /\ g.previous = Genesis
        BY <2>1 DEF Chain, Linked
      <3>2. ASSUME NEW e \in rows, Precedes(e, g, rows) PROVE Precedes(e, g, new)
        BY <3>2, <2>1, <1>1 DEF Precedes
      <3>3. CASE \E e \in rows : Precedes(e, g, rows) /\ g.previous = e.hash
        BY <3>1, <3>2, <3>3
      <3>4. CASE (\A e \in rows : g.sequence <= e.sequence) /\ g.previous = Genesis
        BY <3>1, <3>4, <1>1, <2>1
      <3> QED BY <3>1, <3>3, <3>4
    <2>2. CASE g = f /\ rows = {}
      <3>1. g.previous = Genesis
        BY <2>2 DEF Chain, NoHead
      <3> QED BY <3>1, <2>2, <1>1
    <2>3. CASE g = f /\ rows # {}
      <3>1. PICK e \in rows : e.sequence = last.sequence /\ e.hash = last.hash
        BY <2>3 DEF Chain
      <3>2. Precedes(e, f, new)
        BY <3>1, <1>1 DEF Precedes
      <3> QED BY <3>1, <3>2, <2>3
    <2> QED BY <2>1, <2>2, <2>3
  <1>3. Linked(new, tail)
    <2>1. ASSUME NEW g \in new, \A e \in new : e.sequence <= g.sequence
          PROVE  tail = [sequence |-> g.sequence, hash |-> g.hash]
      <3>1. g = f
        BY <2>1, <1>1
      <3> QED BY <3>1
    <2> QED BY <1>2, <2>1 DEF Linked
  <1>4. /\ new # {} /\ \E e \in new : e.sequence = tail.sequence /\ e.hash = tail.hash
        /\ \A e \in new : e.sequence <= tail.sequence
        /\ \A e, g \in new : e.sequence = g.sequence => e = g
    BY <1>1 DEF Chain
  <1> QED BY <1>3, <1>4 DEF Chain

-----------------------------------------------------------------------------
\* The empty trail satisfies the invariant.
LEMMA InitInv == Init => IInv
  <1> SUFFICES ASSUME Init PROVE IInv
    OBVIOUS
  <1> USE DEF Init
  <1>1. NoHead \in HeadRow
    BY AuditChainAssumption DEF NoHead, HeadRow, Hash, Genesis
  <1>2. TypeOK
    BY <1>1, AuditChainAssumption DEF TypeOK
  <1>3. StreamsInv
    BY AuditChainAssumption DEF StreamsInv, EventsOf, Chain, Linked, NoHead
  <1>4. CheckpointsInv /\ LockInv /\ TransactionsInv /\ ReadingInv
    BY DEF CheckpointsInv, LockInv, TransactionsInv, ReadingInv, Holds, Open
  <1> QED BY <1>2, <1>3, <1>4 DEF IInv

\* A caller that opens or gives up a transaction, or takes the head of a stream,
\* leaves the tables and the other callers alone.
LEMMA CallerInv ==
  ASSUME IInv, NEW c \in Callers, UNCHANGED <<tables, sequence>>, ReadingInv',
         NEW t \in Transaction \cup {None}, tx' = [tx EXCEPT ![c] = t],
         reading' = None \/ reading' \in [stream : Streams, rows : SUBSET Event, head : HeadRow],
         verified' \in BOOLEAN \cup {None},
         t # None /\ t.locked =>
           HolderInv(c)' /\ \A d \in Callers \ {c} : Holds(d) => tx[d].stream # t.stream,
         t # None /\ ~t.locked => t.events = {} /\ t.checkpoints = {}
  PROVE  IInv'
  <1>1. tx'[c] = t /\ \A d \in Callers \ {c} : tx'[d] = tx[d]
    BY DEF IInv, TypeOK
  <1>2. TypeOK'
    BY DEF IInv, TypeOK, tables
  <1>3. StreamsInv' /\ CheckpointsInv'
    BY DEF IInv, StreamsInv, CheckpointsInv, tables
  <1>4. LockInv'
    BY <1>1 DEF IInv, LockInv, Holds, Open
  <1>5. ASSUME NEW d \in Callers, d # c, Holds(d)' PROVE HolderInv(d)'
    <2>1. tx'[d] = tx[d] /\ UNCHANGED <<audit_event, sequence>>
      BY <1>1, <1>5 DEF tables
    <2>2. HolderInv(d)
      BY <2>1, <1>5 DEF IInv, TransactionsInv, Holds, Open
    <2> QED BY <2>1, <2>2 DEF HolderInv, View
  <1>6. TransactionsInv'
    BY <1>1, <1>5 DEF IInv, TransactionsInv, Holds, Open
  <1> QED BY <1>2, <1>3, <1>4, <1>6 DEF IInv

LEMMA BeginInv == ASSUME IInv, NEW c \in Callers, NEW s \in Streams, Begin(c, s) PROVE IInv'
  <1> DEFINE t == [stream |-> s, locked |-> FALSE, head |-> NoHead, events |-> {},
                   checkpoints |-> {}]
  <1>1. t \in Transaction
    BY AuditChainAssumption DEF Transaction, NoHead, HeadRow, Hash, Genesis
  <1>2. /\ UNCHANGED <<tables, sequence>> /\ ReadingInv' /\ tx' = [tx EXCEPT ![c] = t]
        /\ reading' = None \/ reading' \in [stream : Streams, rows : SUBSET Event, head : HeadRow]
        /\ verified' \in BOOLEAN \cup {None}
    BY DEF Begin, verification, IInv, ReadingInv, TypeOK
  <1> QED BY <1>1, <1>2, CallerInv

LEMMA RollbackInv == ASSUME IInv, NEW c \in Callers, Rollback(c) PROVE IInv'
  <1>1. /\ UNCHANGED <<tables, sequence>> /\ ReadingInv' /\ tx' = [tx EXCEPT ![c] = None]
        /\ reading' = None \/ reading' \in [stream : Streams, rows : SUBSET Event, head : HeadRow]
        /\ verified' \in BOOLEAN \cup {None}
    BY DEF Rollback, verification, IInv, ReadingInv, TypeOK
  <1> QED BY <1>1, CallerInv

\* The head is taken with nothing appended yet.
LEMMA LockHeadInv == ASSUME IInv, NEW c \in Callers, LockHead(c) PROVE IInv'
  <1> DEFINE s == tx[c].stream
             t == [tx[c] EXCEPT !.locked = TRUE, !.head = audit_chain_head[s]]
  <1>1. tx[c] \in Transaction /\ s \in Streams /\ tx[c].events = {} /\ tx[c].checkpoints = {}
    BY DEF LockHead, Open, Holds, IInv, TypeOK, TransactionsInv, Transaction
  <1>2. t \in Transaction /\ t.stream = s /\ t.head = audit_chain_head[s] /\ t.locked
        /\ t.events = {} /\ t.checkpoints = {}
    BY <1>1 DEF Transaction, IInv, TypeOK
  <1>3. tx' = [tx EXCEPT ![c] = t] /\ tx'[c] = t
    BY DEF LockHead, IInv, TypeOK
  <1>4. /\ UNCHANGED <<tables, sequence>> /\ ReadingInv'
        /\ reading' = None \/ reading' \in [stream : Streams, rows : SUBSET Event, head : HeadRow]
        /\ verified' \in BOOLEAN \cup {None}
    BY DEF LockHead, verification, IInv, ReadingInv, TypeOK
  <1>5. HolderInv(c)'
    <2>1. Chain(EventsOf(s, audit_event), audit_chain_head[s]) /\ audit_chain_head[s].sequence <= sequence
      BY <1>1 DEF IInv, StreamsInv
    <2>2. View(c)' = EventsOf(s, audit_event)
      BY <1>2, <1>3, <1>4 DEF View, tables
    <2> QED BY <2>1, <2>2, <1>2, <1>3, <1>4 DEF HolderInv, tables
  <1>6. \A d \in Callers \ {c} : Holds(d) => tx[d].stream # t.stream
    BY <1>2 DEF LockHead
  <1> QED BY <1>2, <1>3, <1>4, <1>5, <1>6, CallerInv
\* The next number is above all the holder of the head can see.
LEMMA AppendInv == ASSUME IInv, NEW c \in Callers, NEW p \in Payloads, AppendEvent(c, p) PROVE IInv'
  <1> DEFINE s == tx[c].stream
             number == sequence + 1
             hash == compute_event_hash(number, p, tx[c].head.hash)
             event == [stream |-> s, sequence |-> number, payload |-> p,
                       previous |-> tx[c].head.hash, hash |-> hash]
             last == [sequence |-> number, hash |-> hash]
  <1>1. /\ Holds(c) /\ HolderInv(c) /\ tx[c] \in Transaction
        /\ s \in Streams /\ tx[c].head \in HeadRow /\ tx[c].events \in SUBSET Event
        /\ sequence \in Nat /\ number \in Sequence /\ UNCHANGED <<tables, verification>>
    BY AuditChainAssumption
       DEF AppendEvent, Holds, Open, IInv, TypeOK, TransactionsInv, Transaction, Sequence
  <1>2. event \in Event /\ last \in HeadRow
    BY <1>1, AuditChainAssumption DEF Event, HeadRow, Hash, Sequence, compute_event_hash
  <1>3. /\ sequence' = number
        /\ tx' = [tx EXCEPT ![c] = [tx[c] EXCEPT !.events = @ \cup {event}, !.head = last]]
    BY <1>1 DEF AppendEvent, IInv, TypeOK
  <1>4. /\ tx'[c] \in Transaction /\ tx'[c].stream = s /\ tx'[c].locked /\ tx'[c].head = last
        /\ tx'[c].events = tx[c].events \cup {event} /\ tx'[c].checkpoints = tx[c].checkpoints
        /\ \A d \in Callers \ {c} : tx'[d] = tx[d]
    BY <1>1, <1>2, <1>3 DEF IInv, TypeOK, Transaction, Holds
  <1>5. Holds(c)' /\ \A d \in Callers : Holds(d)' <=> Holds(d)
    BY <1>1, <1>4, AuditChainAssumption DEF Holds, Open
  <1>6. TypeOK'
    BY <1>1, <1>3, <1>4, AuditChainAssumption DEF IInv, TypeOK, tables, verification, Sequence
  <1>7. StreamsInv' /\ CheckpointsInv' /\ ReadingInv' /\ LockInv'
    <2>1. StreamsInv'
      BY <1>1, <1>3 DEF IInv, TypeOK, StreamsInv, tables, HeadRow
    <2>2. CheckpointsInv' /\ ReadingInv'
      BY <1>1 DEF IInv, CheckpointsInv, ReadingInv, tables, verification
    <2>3. \A d \in Callers : tx'[d].stream = tx[d].stream
      BY <1>4
    <2>4. LockInv'
      BY <1>5, <2>3 DEF IInv, LockInv
    <2> QED BY <2>1, <2>2, <2>4
  <1>8. HolderInv(c)'
    <2>1. View(c)' = View(c) \cup {event} /\ View(c) \in SUBSET Event
      BY <1>1, <1>4 DEF View, EventsOf, IInv, TypeOK, tables
    <2>2. /\ tx[c].head.sequence < number /\ event.sequence = number
          /\ Chain(View(c), tx[c].head)
      BY <1>1 DEF HolderInv, HeadRow
    <2>3. Chain(View(c)', tx'[c].head)
      BY <2>1, <2>2, <1>1, <1>2, <1>4, ChainExtends
    <2>4. \A e \in tx'[c].events : e.stream = s
              /\ \A f \in EventsOf(s, audit_event) : f.sequence < e.sequence
      <3>1. \A f \in EventsOf(s, audit_event) : f.sequence \in Int /\ f.sequence <= sequence
        <4>1. Chain(EventsOf(s, audit_event), audit_chain_head[s])
              /\ audit_chain_head[s].sequence <= sequence /\ audit_chain_head[s] \in HeadRow
          BY <1>1 DEF IInv, TypeOK, StreamsInv
        <4>2. \A f \in EventsOf(s, audit_event) : f.sequence \in Int
          BY AuditChainAssumption DEF IInv, TypeOK, EventsOf, Event, Sequence
        <4> QED BY <4>1, <4>2, <1>1, AuditChainAssumption DEF Chain, HeadRow
      <3> QED BY <3>1, <1>1, <1>4 DEF HolderInv
    <2>5. \A k \in tx[c].checkpoints : k.stream = s /\ Covers(k, View(c)')
      <3>1. SUFFICES ASSUME NEW k \in tx[c].checkpoints
                     PROVE  k.stream = s /\ Covers(k, View(c) \cup {event})
        BY <2>1
      <3>2. k.stream = s /\ Covers(k, View(c)) /\ k \in Checkpoint
        BY <1>1 DEF HolderInv, Transaction
      <3>3. k.from <= event.sequence
        BY <3>2, <2>1, <2>2, <1>1, AuditChainAssumption
           DEF Covers, Chain, Checkpoint, Sequence, Event, HeadRow
      <3> QED BY <3>2, <3>3 DEF Covers
    <2> QED BY <1>1, <1>3, <1>4, <2>3, <2>4, <2>5 DEF HolderInv, tables
  <1>9. ASSUME NEW d \in Callers, d # c, Holds(d) PROVE HolderInv(d)'
    <2>1. tx'[d] = tx[d] /\ audit_event' = audit_event /\ HolderInv(d) /\ tx[d] \in Transaction
      BY <1>1, <1>4, <1>9 DEF IInv, TypeOK, TransactionsInv, tables, Holds, Open
    <2>2. tx[d].head.sequence <= sequence'
      BY <2>1, <1>1, <1>3 DEF HolderInv, Transaction, HeadRow
    <2> QED BY <2>1, <2>2 DEF HolderInv, View
  <1>10. TransactionsInv'
    BY <1>4, <1>5, <1>8, <1>9 DEF IInv, TransactionsInv, Holds, Open
  <1> QED BY <1>6, <1>7, <1>10 DEF IInv

\* A checkpoint covers what the holder of the head sees.
LEMMA CheckpointInv == ASSUME IInv, NEW c \in Callers, CreateCheckpoint(c) PROVE IInv'
  <1>1. /\ Holds(c) /\ HolderInv(c) /\ tx[c] \in Transaction
        /\ UNCHANGED <<tables, sequence, verification>>
    BY DEF CreateCheckpoint, Holds, Open, IInv, TypeOK, TransactionsInv
  <1>2. PICK from \in Numbers(c) :
          /\ \A n \in Numbers(c) : from <= n
          /\ \E new \in SUBSET {[stream |-> tx[c].stream, from |-> from,
                                to |-> tx[c].head.sequence, hash |-> tx[c].head.hash]} :
               tx' = [tx EXCEPT ![c] = [tx[c] EXCEPT !.checkpoints = @ \cup new]]
    BY DEF CreateCheckpoint, IInv, TypeOK
  <1>3. PICK new \in SUBSET {[stream |-> tx[c].stream, from |-> from,
                              to |-> tx[c].head.sequence, hash |-> tx[c].head.hash]} :
          tx' = [tx EXCEPT ![c] = [tx[c] EXCEPT !.checkpoints = @ \cup new]]
    BY <1>2
  <1>4. /\ View(c) \in SUBSET Event /\ Numbers(c) = {e.sequence : e \in View(c)}
        /\ from \in Sequence /\ View(c) # {}
    BY <1>1, <1>2 DEF View, Numbers, EventsOf, IInv, TypeOK, Transaction, Event
  <1>5. \A k \in new : k \in Checkpoint /\ k.stream = tx[c].stream /\ Covers(k, View(c))
    <2>1. PICK e \in View(c) : e.sequence = tx[c].head.sequence /\ e.hash = tx[c].head.hash
      BY <1>1, <1>4 DEF HolderInv, Chain
    <2>2. e \in Event /\ e.stream = tx[c].stream
      BY <2>1, <1>1, <1>4 DEF View, EventsOf, HolderInv
    <2>3. \A k \in new : k = [stream |-> tx[c].stream, from |-> from,
                               to |-> e.sequence, hash |-> e.hash]
      BY <2>1
    <2> QED BY <2>1, <2>2, <2>3, <1>2, <1>4, <1>1 DEF Covers, Checkpoint, Event, Transaction
  <1> DEFINE t == [tx[c] EXCEPT !.checkpoints = @ \cup new]
  <1>6. /\ t \in Transaction /\ t.stream = tx[c].stream /\ t.locked /\ t.head = tx[c].head
        /\ t.events = tx[c].events /\ t.checkpoints = tx[c].checkpoints \cup new /\ tx'[c] = t
    BY <1>1, <1>3, <1>5 DEF Transaction, IInv, TypeOK, Holds
  <1>7. HolderInv(c)'
    <2>1. View(c)' = View(c)
      BY <1>1, <1>6 DEF View, tables
    <2>2. UNCHANGED <<audit_event, sequence>>
      BY <1>1 DEF tables
    <2>3. \A k \in tx'[c].checkpoints : k.stream = tx'[c].stream /\ Covers(k, View(c))
      BY <1>1, <1>5, <1>6 DEF HolderInv
    <2> QED BY <2>1, <2>2, <2>3, <1>1, <1>6 DEF HolderInv
  <1>8. \A d \in Callers \ {c} : Holds(d) => tx[d].stream # t.stream
    BY <1>1, <1>6 DEF IInv, LockInv
  <1>9. /\ UNCHANGED <<tables, sequence>> /\ ReadingInv' /\ tx' = [tx EXCEPT ![c] = t]
        /\ reading' = None \/ reading' \in [stream : Streams, rows : SUBSET Event, head : HeadRow]
        /\ verified' \in BOOLEAN \cup {None}
    BY <1>1, <1>3 DEF verification, IInv, ReadingInv, TypeOK
  <1> QED BY <1>6, <1>7, <1>8, <1>9, CallerInv

\* The rows of the holder become those of the stream; other streams, and callers that
\* wait for this one, see nothing else.
LEMMA CommitInv == ASSUME IInv, NEW c \in Callers, Commit(c) PROVE IInv'
  <1> DEFINE s == tx[c].stream
  <1>1. /\ Holds(c) /\ HolderInv(c) /\ tx[c] \in Transaction /\ s \in Streams
        /\ UNCHANGED <<sequence, verification>>
        /\ audit_event' = audit_event \cup tx[c].events
        /\ audit_chain_head' = [audit_chain_head EXCEPT ![s] = tx[c].head]
        /\ audit_checkpoint' = audit_checkpoint \cup tx[c].checkpoints
        /\ tx' = [tx EXCEPT ![c] = None]
    BY DEF Commit, Holds, Open, IInv, TypeOK, TransactionsInv, Transaction
  <1>2. tx'[c] = None /\ \A d \in Callers \ {c} : tx'[d] = tx[d]
    BY <1>1 DEF IInv, TypeOK
  <1>3. /\ EventsOf(s, audit_event') = View(c)
        /\ \A r \in Streams \ {s} : EventsOf(r, audit_event') = EventsOf(r, audit_event)
    BY <1>1 DEF EventsOf, View, HolderInv
  <1>4. TypeOK'
    BY <1>1, <1>2 DEF IInv, TypeOK, Transaction, verification
  <1>5. StreamsInv'
    <2> SUFFICES ASSUME NEW r \in Streams
                 PROVE  /\ Chain(EventsOf(r, audit_event'), audit_chain_head'[r])
                        /\ audit_chain_head'[r].sequence <= sequence'
      BY DEF StreamsInv
    <2>1. CASE r = s
      <3>1. audit_chain_head'[s] = tx[c].head
        BY <1>1 DEF IInv, TypeOK
      <3> QED BY <2>1, <3>1, <1>1, <1>3 DEF HolderInv
    <2>2. CASE r # s
      <3>1. audit_chain_head'[r] = audit_chain_head[r]
        BY <2>2, <1>1 DEF IInv, TypeOK
      <3> QED BY <2>2, <3>1, <1>1, <1>3 DEF IInv, StreamsInv
    <2> QED BY <2>1, <2>2
  <1>6. CheckpointsInv'
    <2> SUFFICES ASSUME NEW k \in audit_checkpoint'
                 PROVE  Covers(k, EventsOf(k.stream, audit_event'))
      BY DEF CheckpointsInv
    <2>1. CASE k \in tx[c].checkpoints
      BY <2>1, <1>1, <1>3 DEF HolderInv
    <2>2. CASE k \in audit_checkpoint /\ k.stream # s
      BY <2>2, <1>3 DEF IInv, CheckpointsInv, TypeOK, Checkpoint
    <2>3. CASE k \in audit_checkpoint /\ k.stream = s
      <3>1. Covers(k, EventsOf(s, audit_event)) /\ k \in Checkpoint
        BY <2>3 DEF IInv, CheckpointsInv, TypeOK
      <3>2. PICK f \in EventsOf(s, audit_event) : f.sequence = k.from
        BY <3>1 DEF Covers
      <3>3. \A e \in tx[c].events : k.from <= e.sequence
        <4>1. \A e \in tx[c].events : f.sequence < e.sequence /\ e.sequence \in Int
          BY <1>1, <3>2, AuditChainAssumption DEF HolderInv, Transaction, Event, Sequence
        <4> QED BY <4>1, <3>1, <3>2, AuditChainAssumption DEF Checkpoint, Sequence
      <3> QED BY <2>3, <3>1, <3>3, <1>3 DEF Covers, View
    <2> QED BY <2>1, <2>2, <2>3, <1>1
  <1>7. LockInv' /\ ReadingInv'
    BY <1>1, <1>2 DEF IInv, LockInv, ReadingInv, Holds, Open, verification
  <1>8. ASSUME NEW d \in Callers, Holds(d)' PROVE HolderInv(d)'
    <2>1. d # c /\ tx'[d] = tx[d] /\ Holds(d) /\ HolderInv(d) /\ tx[d] \in Transaction
      BY <1>2, <1>8 DEF IInv, TypeOK, TransactionsInv, Holds, Open
    <2>2. tx[d].stream \in Streams \ {s}
      BY <1>1, <2>1 DEF IInv, LockInv, Transaction
    <2>3. EventsOf(tx[d].stream, audit_event') = EventsOf(tx[d].stream, audit_event)
          /\ sequence' = sequence
      BY <1>1, <1>3, <2>2
    <2> QED BY <2>1, <2>3 DEF HolderInv, View
  <1>9. TransactionsInv'
    BY <1>2, <1>8 DEF IInv, TransactionsInv, Holds, Open
  <1> QED BY <1>4, <1>5, <1>6, <1>7, <1>9 DEF IInv

\* What verifyStream reads of a stream was its chain at that moment.
LEMMA ReadInv == ASSUME IInv, (\E s \in Streams : ReadEvents(s)) \/ ReadCheckpoints PROVE IInv'
  <1>1. UNCHANGED <<tables, sequence, tx>> /\ verified' \in BOOLEAN \cup {None}
    BY DEF ReadEvents, ReadCheckpoints
  <1>2. /\ reading' = None \/ reading' \in [stream : Streams, rows : SUBSET Event, head : HeadRow]
        /\ ReadingInv'
    <2>1. CASE reading' = None
      BY <2>1 DEF ReadingInv
    <2>2. CASE reading' # None
      <3>1. PICK s \in Streams : reading' = [stream |-> s, rows |-> EventsOf(s, audit_event),
                                             head |-> audit_chain_head[s]]
        BY <2>2 DEF ReadEvents, ReadCheckpoints
      <3>2. EventsOf(s, audit_event) \in SUBSET Event /\ audit_chain_head[s] \in HeadRow
            /\ Linked(EventsOf(s, audit_event), audit_chain_head[s])
        BY DEF IInv, TypeOK, EventsOf, StreamsInv, Chain
      <3> QED BY <3>1, <3>2 DEF ReadingInv
    <2> QED BY <2>1, <2>2
  <1>3. TypeOK'
    BY <1>1, <1>2 DEF IInv, TypeOK, tables
  <1>4. StreamsInv' /\ CheckpointsInv' /\ LockInv'
    BY <1>1 DEF IInv, StreamsInv, CheckpointsInv, LockInv, Holds, Open, tables
  <1>5. TransactionsInv'
    BY <1>1 DEF IInv, TransactionsInv, HolderInv, Holds, Open, View, tables
  <1> QED BY <1>2, <1>3, <1>4, <1>5 DEF IInv

-----------------------------------------------------------------------------
\* Every step of the callers and of verifyStream preserves the invariant.
LEMMA NextInv == IInv /\ [Next]_vars => IInv'
  <1> SUFFICES ASSUME IInv, [Next]_vars PROVE IInv'
    OBVIOUS
  <1>1. ASSUME NEW c \in Callers, NEW s \in Streams, Begin(c, s) PROVE IInv'
    BY <1>1, BeginInv
  <1>2. ASSUME NEW c \in Callers, NEW p \in Payloads, AppendEvent(c, p) PROVE IInv'
    BY <1>2, AppendInv
  <1>3. ASSUME NEW c \in Callers, LockHead(c) PROVE IInv'
    BY <1>3, LockHeadInv
  <1>4. ASSUME NEW c \in Callers, CreateCheckpoint(c) PROVE IInv'
    BY <1>4, CheckpointInv
  <1>5. ASSUME NEW c \in Callers, Commit(c) PROVE IInv'
    BY <1>5, CommitInv
  <1>6. ASSUME NEW c \in Callers, Rollback(c) PROVE IInv'
    BY <1>6, RollbackInv
  <1>7. CASE (\E s \in Streams : ReadEvents(s)) \/ ReadCheckpoints
    BY <1>7, ReadInv
  <1>8. CASE UNCHANGED vars
    <2>1. UNCHANGED <<tables, sequence, tx, verification>>
      BY <1>8 DEF vars
    <2>2. TypeOK' /\ ReadingInv'
      BY <2>1 DEF IInv, TypeOK, ReadingInv, tables, verification
    <2>3. StreamsInv' /\ CheckpointsInv' /\ LockInv'
      BY <2>1 DEF IInv, StreamsInv, CheckpointsInv, LockInv, Holds, Open, tables
    <2>4. TransactionsInv'
      BY <2>1 DEF IInv, TransactionsInv, HolderInv, Holds, Open, View, tables
    <2> QED BY <2>2, <2>3, <2>4 DEF IInv
  <1> QED BY <1>1, <1>2, <1>3, <1>4, <1>5, <1>6, <1>7, <1>8 DEF Next

\* The inductive invariant of the audit trail holds in every reachable state.
THEOREM Invariance == Spec => []IInv
  BY InitInv, NextInv, PTL DEF Spec

\* Every table and transaction keeps its type.
THEOREM TypeCorrect == Spec => []TypeOK
  <1>1. IInv => TypeOK BY DEF IInv
  <1> QED BY Invariance, <1>1, PTL

\* The committed events of a stream are always one chain that ends in its head.
THEOREM IntactChain == Spec => []ChainIsIntact
  <1>1. IInv => ChainIsIntact
    BY DEF IInv, StreamsInv, ChainIsIntact, Chain
  <1> QED BY Invariance, <1>1, PTL

\* Every checkpoint names its whole stream up to a committed event, once.
THEOREM BackedCheckpoints == Spec => []CheckpointsAreBacked
  <1>1. ASSUME IInv PROVE CheckpointsAreBacked
    <2> SUFFICES ASSUME NEW k \in audit_checkpoint
                 PROVE  /\ ~Unbacked(k, audit_event)
                        /\ \A e \in EventsOf(k.stream, audit_event) : k.from <= e.sequence
                        /\ \A l \in audit_checkpoint : k.stream = l.stream /\ k.to = l.to => k = l
      BY DEF CheckpointsAreBacked
    <2>1. Covers(k, EventsOf(k.stream, audit_event)) /\ k \in Checkpoint
      BY <1>1 DEF IInv, CheckpointsInv, TypeOK
    <2>2. ~Unbacked(k, audit_event) /\ \A e \in EventsOf(k.stream, audit_event) : k.from <= e.sequence
      BY <2>1 DEF Covers, Unbacked, EventsOf
    <2>3. ASSUME NEW l \in audit_checkpoint, k.stream = l.stream, k.to = l.to PROVE k = l
      <3>1. Covers(l, EventsOf(k.stream, audit_event)) /\ l \in Checkpoint
        BY <1>1, <2>3 DEF IInv, CheckpointsInv, TypeOK
      <3>2. \A e, f \in EventsOf(k.stream, audit_event) : e.sequence = f.sequence => e = f
        BY <1>1, <2>1 DEF IInv, StreamsInv, Chain, Checkpoint
      <3>3. k.hash = l.hash
        BY <2>1, <2>3, <3>1, <3>2 DEF Covers
      <3>4. k.from = l.from
        BY <2>1, <3>1, AuditChainAssumption DEF Covers, Checkpoint, Sequence
      <3> QED BY <2>1, <2>3, <3>1, <3>3, <3>4 DEF Checkpoint
    <2> QED BY <2>2, <2>3
  <1> QED BY Invariance, <1>1, PTL

\* No event is ever committed below a checkpoint of its stream.
THEOREM SealingCheckpoints == Spec => CheckpointsSeal
  <1> DEFINE Sealed == \A k \in audit_checkpoint :
                       {e \in EventsOf(k.stream, audit_event') : e.sequence <= k.to}
                       = {e \in EventsOf(k.stream, audit_event) : e.sequence <= k.to}
  <1>1. ASSUME IInv, [Next]_vars PROVE Sealed
    <2>1. CASE audit_event' = audit_event
      BY <2>1
    <2>2. ASSUME NEW c \in Callers, Commit(c) PROVE Sealed
      <3>1. /\ HolderInv(c) /\ tx[c] \in Transaction
            /\ audit_event' = audit_event \cup tx[c].events
        BY <1>1, <2>2 DEF Commit, Holds, Open, IInv, TypeOK, TransactionsInv
      <3>2. ASSUME NEW k \in audit_checkpoint, NEW e \in tx[c].events, e.stream = k.stream
            PROVE  ~(e.sequence <= k.to)
        <4>1. PICK f \in EventsOf(k.stream, audit_event) : f.sequence = k.to
          BY <1>1 DEF IInv, CheckpointsInv, Covers
        <4>2. e.sequence \in Int /\ f.sequence \in Int /\ f.sequence < e.sequence
          BY <1>1, <3>1, <3>2, <4>1, AuditChainAssumption
             DEF HolderInv, Transaction, EventsOf, IInv, TypeOK, Event, Sequence
        <4> QED BY <4>1, <4>2
      <3> QED BY <3>1, <3>2 DEF EventsOf
    <2> QED BY <1>1, <2>1, <2>2
            DEF Next, vars, tables, Begin, AppendEvent, LockHead, CreateCheckpoint, Rollback,
                ReadEvents, ReadCheckpoints
  <1>2. IInv /\ [Next]_vars => [Sealed]_vars
    BY <1>1
  <1> QED BY Invariance, <1>2, PTL DEF Spec, CheckpointsSeal

\* verifyStream finds nothing wrong with a stream that is not empty.
THEOREM SuccessfulVerification == Spec => VerificationSucceeds
  <1>1. ASSUME IInv, Next, reading # None, reading' = None, reading.rows # {} PROVE verified'
    <2>1. ReadCheckpoints
      BY <1>1 DEF Next, Begin, AppendEvent, LockHead, CreateCheckpoint, Commit, Rollback,
         ReadEvents, verification
    <2>2. Linked(reading.rows, reading.head)
      BY <1>1 DEF IInv, ReadingInv
    <2>3. \A k \in audit_checkpoint : ~Unbacked(k, audit_event)
      BY <1>1 DEF IInv, CheckpointsInv, Covers, Unbacked, EventsOf
    <2> QED BY <1>1, <2>1, <2>2, <2>3 DEF ReadCheckpoints
  <1>2. ASSUME UNCHANGED vars PROVE ~(reading # None /\ reading' = None)
    BY <1>2 DEF vars, verification
  <1>3. IInv /\ [Next]_vars => [reading # None /\ reading' = None /\ reading.rows # {} => verified']_vars
    BY <1>1, <1>2
  <1> QED BY Invariance, <1>3, PTL DEF Spec, VerificationSucceeds
-----------------------------------------------------------------------------
\* The tables implement the log.

Numbered(rows) == rows \in SUBSET Event /\ \A e, f \in rows : e.sequence = f.sequence => e = f

Upto(e, rows) == {f \in rows : f.sequence <= e.sequence}
PlaceIn(e, rows) == Cardinality(Upto(e, rows))

LogOf(rows) ==
  [i \in 1 .. Cardinality(rows) |-> (CHOOSE e \in rows : PlaceIn(e, rows) = i).payload]

LEMMA LogIsLogOf == ASSUME NEW s \in Streams PROVE Log(s) = LogOf(EventsOf(s, audit_event))
  BY DEF Log, LogOf, PlaceIn, Upto

\* There are no more rows of different numbers than numbers.
LEMMA FiniteRows == ASSUME NEW rows, Numbered(rows) PROVE IsFiniteSet(rows)
  <1> DEFINE number == [e \in rows |-> e.sequence]
  <1>1. number \in Injection(rows, Sequence) BY DEF Numbered, Event, Injection, IsInjective
  <1>2. IsFiniteSet(Sequence) BY AuditChainAssumption, FS_Interval DEF Sequence
  <1> QED BY <1>1, <1>2, FS_Injection

\* Each place up to the number of rows is that of one row.
LEMMA Places ==
  ASSUME NEW rows, Numbered(rows)
  PROVE  /\ Cardinality(rows) \in Nat
         /\ \A e \in rows : PlaceIn(e, rows) \in 1 .. Cardinality(rows)
         /\ \A e, f \in rows : PlaceIn(e, rows) = PlaceIn(f, rows) => e = f
         /\ \A i \in 1 .. Cardinality(rows) : \E e \in rows : PlaceIn(e, rows) = i
  <1>1. IsFiniteSet(rows) /\ Cardinality(rows) \in Nat BY FiniteRows, FS_CardinalityType
  <1>2. \A e \in rows : e.sequence \in Nat
    BY AuditChainAssumption DEF Numbered, Event, Sequence
  <1>3. ASSUME NEW e \in rows
        PROVE  /\ IsFiniteSet(Upto(e, rows)) /\ PlaceIn(e, rows) \in 1 .. Cardinality(rows)
               /\ e \in Upto(e, rows)
    <2>1. e \in Upto(e, rows) /\ Upto(e, rows) \in SUBSET rows BY <1>2 DEF Upto
    <2>2. IsFiniteSet(Upto(e, rows)) /\ PlaceIn(e, rows) <= Cardinality(rows)
      BY <1>1, <2>1, FS_Subset DEF PlaceIn
    <2>3. PlaceIn(e, rows) \in Nat /\ PlaceIn(e, rows) # 0
      BY <2>1, <2>2, FS_CardinalityType, FS_EmptySet DEF PlaceIn
    <2> QED BY <1>1, <2>1, <2>2, <2>3
  <1>4. ASSUME NEW e \in rows, NEW f \in rows, e.sequence < f.sequence
        PROVE  PlaceIn(e, rows) # PlaceIn(f, rows)
    <2>1. Upto(e, rows) \in SUBSET Upto(f, rows) BY <1>2, <1>4 DEF Upto
    <2>2. f \notin Upto(e, rows) BY <1>2, <1>4 DEF Upto
    <2>3. f \in Upto(f, rows) /\ IsFiniteSet(Upto(f, rows)) BY <1>3
    <2> QED BY <2>1, <2>2, <2>3, FS_Subset DEF PlaceIn
  <1>5. ASSUME NEW e \in rows, NEW f \in rows, PlaceIn(e, rows) = PlaceIn(f, rows) PROVE e = f
    <2>1. ~(e.sequence < f.sequence) /\ ~(f.sequence < e.sequence) BY <1>4, <1>5
    <2> QED BY <1>2, <2>1 DEF Numbered
  <1> DEFINE place == [e \in rows |-> PlaceIn(e, rows)]
             n == Cardinality(rows)
  <1>6. place \in Injection(rows, 1 .. n)
    BY <1>3, <1>5 DEF Injection, IsInjective
  <1>7. IsFiniteSet(1 .. n) /\ Cardinality(1 .. n) = n BY <1>1, FS_Interval
  <1>8. place \in Surjection(rows, 1 .. n) BY <1>6, <1>7, FS_Injection
  <1>9. \A i \in 1 .. n : \E e \in rows : PlaceIn(e, rows) = i BY <1>8 DEF Surjection
  <1> QED BY <1>1, <1>3, <1>5, <1>9

LEMMA LogIsSequence ==
  ASSUME NEW rows, Numbered(rows)
  PROVE  LogOf(rows) \in Seq(Payloads) /\ Len(LogOf(rows)) = Cardinality(rows)
  <1> DEFINE n == Cardinality(rows)
  <1>1. n \in Nat /\ \A i \in 1 .. n : \E e \in rows : PlaceIn(e, rows) = i BY Places
  <1>2. \A i \in 1 .. n : (CHOOSE e \in rows : PlaceIn(e, rows) = i) \in rows BY <1>1
  <1>3. \A e \in rows : e.payload \in Payloads BY DEF Numbered, Event
  <1>4. LogOf(rows) \in [1 .. n -> Payloads] BY <1>2, <1>3 DEF LogOf
  <1> HIDE DEF n
  <1>5. LogOf(rows) \in Seq(Payloads) /\ Len(LogOf(rows)) = n BY <1>1, <1>4
  <1> QED BY <1>5 DEF n

LEMMA LogAt ==
  ASSUME NEW rows, NEW i \in 1 .. Cardinality(rows), NEW e \in rows,
         PlaceIn(e, rows) = i, \A f \in rows : PlaceIn(f, rows) = i => f = e
  PROVE  LogOf(rows)[i] = e.payload
  <1>1. LogOf(rows)[i] = (CHOOSE f \in rows : PlaceIn(f, rows) = i).payload BY DEF LogOf
  <1>2. (CHOOSE f \in rows : PlaceIn(f, rows) = i) = e OBVIOUS
  <1> QED BY <1>1, <1>2

\* Rows of higher numbers come after those that are there.
LEMMA LogGrows ==
  ASSUME NEW rows, NEW new, rows \subseteq new, Numbered(new),
         \A e \in rows, f \in new \ rows : e.sequence < f.sequence
  PROVE  /\ Numbered(rows) /\ Cardinality(rows) <= Cardinality(new)
         /\ \A i \in 1 .. Cardinality(rows) : LogOf(new)[i] = LogOf(rows)[i]
  <1>1. Numbered(rows) BY DEF Numbered
  <1>2. Cardinality(rows) <= Cardinality(new) BY FiniteRows, FS_Subset
  <1>3. Cardinality(rows) \in Nat /\ Cardinality(new) \in Nat BY <1>1, Places
  <1>4. \A e \in new : e.sequence \in Nat
    BY AuditChainAssumption DEF Numbered, Event, Sequence
  <1>5. \A e \in rows : PlaceIn(e, new) = PlaceIn(e, rows)
    <2>1. ASSUME NEW e \in rows PROVE Upto(e, new) = Upto(e, rows) BY <1>4 DEF Upto
    <2> QED BY <2>1 DEF PlaceIn
  <1>6. ASSUME NEW i \in 1 .. Cardinality(rows) PROVE LogOf(new)[i] = LogOf(rows)[i]
    <2>1. PICK e \in rows : PlaceIn(e, rows) = i BY <1>1, Places
    <2>2. \A f \in rows : PlaceIn(f, rows) = i => f = e BY <1>1, <2>1, Places
    <2>3. e \in new /\ PlaceIn(e, new) = i BY <1>5, <2>1
    <2>4. \A f \in new : PlaceIn(f, new) = i => f = e BY <2>3, Places
    <2>5. i \in 1 .. Cardinality(new) BY <1>2, <1>3
    <2>6. LogOf(rows)[i] = e.payload BY <2>1, <2>2, LogAt
    <2>7. LogOf(new)[i] = e.payload BY <2>3, <2>4, <2>5, LogAt
    <2> QED BY <2>6, <2>7
  <1> QED BY <1>1, <1>2, <1>6

LEMMA PrefixOf ==
  ASSUME NEW l \in Seq(Payloads), NEW m \in Seq(Payloads), Len(l) <= Len(m),
         \A i \in 1 .. Len(l) : m[i] = l[i]
  PROVE  L!IsPrefix(l, m)
  BY DEF L!IsPrefix

\* What a step of the callers does to the log of each stream.
LEMMA LogStep ==
  ASSUME IInv, [Next]_vars PROVE [L!Next]_([s \in Streams |-> Log(s)])
  <1> DEFINE log == [s \in Streams |-> Log(s)]
  <1>1. CASE audit_event' = audit_event
    BY <1>1 DEF Log, EventsOf
  <1>2. ASSUME NEW c \in Callers, Commit(c) PROVE L!Next
    <2>0. PICK s \in Streams : s = tx[c].stream
      BY <1>2 DEF Commit, Holds, Open, IInv, TypeOK, Transaction
    <2>1. /\ HolderInv(c) /\ tx[c].events \in SUBSET Event
          /\ audit_event' = audit_event \cup tx[c].events /\ audit_event \in SUBSET Event
          /\ audit_event' \in SUBSET Event
      BY <1>2 DEF Commit, Holds, Open, IInv, TypeOK, TransactionsInv, Transaction
    <2>2. EventsOf(s, audit_event') = View(c) BY <2>0, <2>1 DEF EventsOf, View, HolderInv
    <2>3. Numbered(View(c)) BY <2>0, <2>1, <2>2 DEF Numbered, HolderInv, Chain, EventsOf
    <2>4. /\ EventsOf(s, audit_event) \subseteq View(c)
          /\ \A e \in EventsOf(s, audit_event), f \in View(c) \ EventsOf(s, audit_event) :
               e.sequence < f.sequence
      BY <2>0, <2>1 DEF View, HolderInv
    <2>5. Log(s)' = LogOf(View(c)) /\ Log(s) = LogOf(EventsOf(s, audit_event))
      <3>1. Log(s)' = LogOf(EventsOf(s, audit_event'))
        BY DEF Log, LogOf, PlaceIn, Upto, EventsOf
      <3> QED BY <2>2, <3>1, LogIsLogOf
    <2>6. L!IsPrefix(Log(s), Log(s)')
      BY <2>3, <2>4, <2>5, LogGrows, LogIsSequence, PrefixOf
    <2>7. ASSUME NEW r \in Streams \ {s} PROVE Log(r)' = Log(r)
      <3>1. EventsOf(r, audit_event') = EventsOf(r, audit_event)
        BY <2>0, <2>1 DEF EventsOf, HolderInv
      <3>2. Log(r)' = LogOf(EventsOf(r, audit_event'))
        BY DEF Log, LogOf, PlaceIn, Upto, EventsOf
      <3> QED BY <3>1, <3>2, LogIsLogOf
    <2>8. ASSUME NEW r \in Streams PROVE Log(r)' \in Seq(Payloads)
      <3>1. Numbered(EventsOf(r, audit_event))
        BY <2>1 DEF Numbered, EventsOf, IInv, StreamsInv, Chain
      <3>2. Log(r) \in Seq(Payloads) BY <3>1, LogIsLogOf, LogIsSequence
      <3>3. Log(s)' \in Seq(Payloads) BY <2>3, <2>5, LogIsSequence
      <3> QED BY <2>7, <3>2, <3>3
    <2>9. L!Extend(s) BY <2>1, <2>6, <2>7, <2>8 DEF L!Extend
    <2> QED BY <2>1, <2>9 DEF L!Next
  <1> QED BY <1>1, <1>2
          DEF Next, vars, tables, Begin, AppendEvent, LockHead, CreateCheckpoint, Rollback,
              ReadEvents, ReadCheckpoints

\* For any callers, streams and interleaving the tables are a log of each stream that
\* grows at its end only, one stream at a time.
THEOREM AuditImplementsLog == Spec => ImplementsLog
  <1>1. Init => L!Init
    <2> SUFFICES ASSUME Init PROVE \A s \in Streams : Log(s) = <<>> BY DEF L!Init
    <2>1. ASSUME NEW s \in Streams PROVE Log(s) = <<>>
      <3>1. EventsOf(s, audit_event) = {} BY DEF Init, EventsOf
      <3>2. Numbered({}) BY DEF Numbered
      <3>3. LogOf({}) \in Seq(Payloads) /\ Len(LogOf({})) = 0
        BY <3>2, LogIsSequence, FS_EmptySet
      <3>4. LogOf({}) = <<>> BY <3>3
      <3> QED BY <3>1, <3>4, LogIsLogOf
    <2> QED BY <2>1
  <1> QED BY <1>1, LogStep, Invariance, PTL DEF Spec, ImplementsLog, L!Spec
-----------------------------------------------------------------------------
\* Backups, restores and the directories of the packages.

BackupSteps == {"new", "reading", "dumping", "moving", "comparing", "describing", "sealing",
                "reporting", "done", "stopped"}

Labels == {"idle", "looking", "writing", "promoting", "verifying", "recording"}

\* What the directories and the rows keep among themselves.
StoreInv == StoreTypeOK /\ DirectoriesInv /\ RecordedAreStored

\* What a step of the API or of the restore does to them: packages never go away.
StoreKept == StoreInv' /\ Whole \subseteq Whole'

LEMMA StoreParts == RecoveryInv => StoreInv
  BY DEF RecoveryInv, RecoveryTypeOK, StoreInv

LEMMA WholeAreStored == Whole \subseteq Stored /\ Files # NoDirectory
  <1>1. Files # NoDirectory BY ArtifactStoreAssumption DEF NoDirectory
  <1> QED BY <1>1 DEF Whole, Stored

LEMMA StoreUnchanged ==
  ASSUME StoreInv, UNCHANGED storeVars
  PROVE  StoreKept
  <1>1. UNCHANGED <<directory, packages, pc, digest, staging>> BY DEF storeVars, worker
  <1>2. Whole' = Whole BY <1>1 DEF Whole
  <1>3. StoreTypeOK' BY <1>1 DEF StoreInv, StoreTypeOK
  <1>4. DirectoriesInv' BY <1>1, <1>2 DEF StoreInv, DirectoriesInv
  <1>5. RecordedAreStored' BY <1>1, <1>2 DEF StoreInv, RecordedAreStored
  <1> QED BY <1>2, <1>3, <1>4, <1>5 DEF StoreKept, StoreInv

\* The request of one worker goes on, and records a whole package if any.
LEMMA WorkerStep ==
  ASSUME StoreInv, NEW w \in Workers, UNCHANGED directory,
         \/ packages' = packages
         \/ packages' = packages \cup {digest[w]} /\ digest[w] \in Whole,
         pc' \in [Workers -> Labels], digest' \in [Workers -> Digests \cup {NoDigest}],
         staging' \in [Workers -> (SUBSET Files) \cup {NoDirectory}],
         \A v \in Workers \ {w} :
           pc'[v] = pc[v] /\ digest'[v] = digest[v] /\ staging'[v] = staging[v],
         pc'[w] # "idle" => digest'[w] \in Digests,
         pc'[w] = "writing" => staging'[w] \in SUBSET Files,
         pc'[w] = "promoting" => staging'[w] = Files,
         pc'[w] = "recording" => digest'[w] \in Whole
  PROVE  StoreKept
  <1>1. directory \in [Digests -> (SUBSET Files) \cup {NoDirectory}] /\ packages \subseteq Digests
    BY DEF StoreInv, StoreTypeOK
  <1>2. Whole' = Whole /\ Whole \subseteq Digests BY DEF Whole
  <1>3. StoreTypeOK' BY <1>1, <1>2 DEF StoreTypeOK, Labels
  <1>4. DirectoriesInv' BY <1>2 DEF StoreInv, DirectoriesInv
  <1>5. RecordedAreStored' BY <1>2 DEF StoreInv, RecordedAreStored
  <1> QED BY <1>2, <1>3, <1>4, <1>5 DEF StoreKept, StoreInv

LEMMA EndStep ==
  ASSUME StoreInv, NEW w \in Workers, UNCHANGED directory, End(w),
         \/ packages' = packages
         \/ packages' = packages \cup {digest[w]} /\ digest[w] \in Whole
  PROVE  StoreKept
  <1>1. /\ pc \in [Workers -> Labels] /\ digest \in [Workers -> Digests \cup {NoDigest}]
        /\ staging \in [Workers -> (SUBSET Files) \cup {NoDirectory}]
    BY DEF StoreInv, StoreTypeOK, Labels
  <1>2. /\ pc' = [pc EXCEPT ![w] = "idle"] /\ digest' = [digest EXCEPT ![w] = NoDigest]
        /\ staging' = [staging EXCEPT ![w] = NoDirectory]
    BY DEF End, Goto
  <1>3. pc' \in [Workers -> Labels] BY <1>1, <1>2 DEF Labels
  <1> QED BY <1>1, <1>2, <1>3, WorkerStep

LEMMA StoreStep ==
  ASSUME StoreInv, NEW w \in Workers,
         \/ \E d \in Digests : Generate(w, d)
         \/ Look(w) \/ WriteFile(w) \/ Promote(w) \/ Verify(w) \/ RecordPackage(w) \/ Stop(w)
  PROVE  StoreKept
  <1>1. /\ pc \in [Workers -> Labels] /\ digest \in [Workers -> Digests \cup {NoDigest}]
        /\ staging \in [Workers -> (SUBSET Files) \cup {NoDirectory}]
        /\ directory \in [Digests -> (SUBSET Files) \cup {NoDirectory}]
        /\ pc[w] # "idle" => digest[w] \in Digests
    BY DEF StoreInv, StoreTypeOK, DirectoriesInv, Labels
  <1>a. ASSUME NEW label \in Labels, Goto(w, label)
        PROVE  /\ pc' \in [Workers -> Labels] /\ pc'[w] = label
               /\ \A v \in Workers \ {w} : pc'[v] = pc[v]
    BY <1>1, <1>a DEF Goto
  <1>2. ASSUME NEW d \in Digests, Generate(w, d) PROVE StoreKept
    <2>1. /\ pc' \in [Workers -> Labels] /\ pc'[w] = "looking"
          /\ \A v \in Workers \ {w} : pc'[v] = pc[v]
      BY <1>2, <1>a DEF Generate, Labels
    <2> QED BY <1>1, <1>2, <2>1, WorkerStep DEF Generate
  <1>3. CASE Look(w)
    <2>1. CASE digest[w] \in Stored
      <3>1. /\ pc' \in [Workers -> Labels] /\ pc'[w] = "verifying"
            /\ \A v \in Workers \ {w} : pc'[v] = pc[v]
        BY <1>3, <1>a, <2>1 DEF Look, Labels
      <3> QED BY <1>1, <1>3, <2>1, <3>1, WorkerStep DEF Look
    <2>2. CASE digest[w] \notin Stored
      <3>1. /\ pc' \in [Workers -> Labels] /\ pc'[w] = "writing"
            /\ \A v \in Workers \ {w} : pc'[v] = pc[v]
        BY <1>3, <1>a, <2>2 DEF Look, Labels
      <3> QED BY <1>1, <1>3, <2>2, <3>1, WorkerStep DEF Look
    <2> QED BY <2>1, <2>2
  <1>4. CASE WriteFile(w)
    <2>1. PICK f \in Files \ staging[w] : staging' = [staging EXCEPT ![w] = staging[w] \cup {f}]
      BY <1>4 DEF WriteFile
    <2>2. staging[w] \in SUBSET Files /\ pc[w] = "writing"
      BY <1>4 DEF WriteFile, StoreInv, DirectoriesInv
    <2>3. /\ staging' \in [Workers -> (SUBSET Files) \cup {NoDirectory}]
          /\ staging'[w] \in SUBSET Files
          /\ \A v \in Workers \ {w} : staging'[v] = staging[v]
      BY <1>1, <2>1, <2>2
    <2>4. /\ pc' \in [Workers -> Labels]
          /\ pc'[w] = IF staging'[w] = Files THEN "promoting" ELSE "writing"
          /\ \A v \in Workers \ {w} : pc'[v] = pc[v]
      BY <1>4, <1>a DEF WriteFile, Labels
    <2> QED BY <1>1, <1>4, <2>2, <2>3, <2>4, WorkerStep DEF WriteFile
  <1>5. CASE Promote(w)
    <2>1. /\ pc[w] = "promoting" /\ staging[w] = Files /\ digest[w] \in Digests
          /\ UNCHANGED <<packages, digest>>
          /\ staging' = [staging EXCEPT ![w] = NoDirectory]
      BY <1>1, <1>5 DEF Promote, StoreInv, DirectoriesInv
    <2>2. /\ pc' \in [Workers -> Labels] /\ pc'[w] = "verifying"
          /\ \A v \in Workers \ {w} : pc'[v] = pc[v]
      BY <1>5, <1>a DEF Promote, Labels
    <2>3. directory' \in {directory, [directory EXCEPT ![digest[w]] = Files]}
      BY <1>5, <2>1 DEF Promote
    <2>4. /\ directory' \in [Digests -> (SUBSET Files) \cup {NoDirectory}]
          /\ \A d \in Digests : directory'[d] \in {directory[d], Files}
      BY <1>1, <2>1, <2>3
    <2>5. Whole \subseteq Whole' BY <2>4 DEF Whole
    <2>6. staging' \in [Workers -> (SUBSET Files) \cup {NoDirectory}]
          /\ \A v \in Workers \ {w} : staging'[v] = staging[v]
      BY <1>1, <2>1
    <2>7. StoreTypeOK' BY <1>1, <2>1, <2>2, <2>4, <2>6 DEF StoreTypeOK, StoreInv, Labels
    <2>8. DirectoriesInv' BY <2>1, <2>2, <2>4, <2>5, <2>6 DEF StoreInv, DirectoriesInv
    <2>9. RecordedAreStored' BY <2>1, <2>5 DEF StoreInv, RecordedAreStored
    <2> QED BY <2>5, <2>7, <2>8, <2>9 DEF StoreKept, StoreInv
  <1>6. CASE Verify(w)
    <2>1. CASE digest[w] \in Whole /\ Goto(w, "recording") /\ UNCHANGED <<digest, staging>>
      <3>1. /\ pc' \in [Workers -> Labels] /\ pc'[w] = "recording"
            /\ \A v \in Workers \ {w} : pc'[v] = pc[v]
        BY <1>a, <2>1 DEF Labels
      <3>2. digest[w] \in Digests BY <2>1 DEF Whole
      <3> QED BY <1>1, <1>6, <2>1, <3>1, <3>2, WorkerStep DEF Verify
    <2>2. CASE End(w)
      BY <1>6, <2>2, EndStep DEF Verify
    <2> QED BY <1>6, <2>1, <2>2 DEF Verify
  <1>7. CASE RecordPackage(w)
    BY <1>7, EndStep DEF RecordPackage, StoreInv, DirectoriesInv
  <1>8. CASE Stop(w)
    BY <1>8, EndStep DEF Stop
  <1> QED BY <1>2, <1>3, <1>4, <1>5, <1>6, <1>7, <1>8

-----------------------------------------------------------------------------
\* The steps of the API and of backup-artifacts.sh.

LEMMA RecoveryInitInv == RecoveryInit => RecoveryInv
  <1> SUFFICES ASSUME RecoveryInit PROVE RecoveryInv OBVIOUS
  <1>1. /\ directory = [d \in Digests |-> NoDirectory] /\ packages = {}
        /\ pc = [w \in Workers |-> "idle"] /\ digest = [w \in Workers |-> NoDigest]
        /\ staging = [w \in Workers |-> NoDirectory]
    BY DEF RecoveryInit, StoreInit
  <1>2. StoreTypeOK BY <1>1 DEF StoreTypeOK
  <1>3. RecoveryTypeOK BY <1>2 DEF RecoveryTypeOK, RecoveryInit
  <1>4. DirectoriesInv /\ RecordedAreStored BY <1>1 DEF DirectoriesInv, RecordedAreStored
  <1>5. DumpsInv /\ TapeInv /\ ScriptsInv BY DEF RecoveryInit, DumpsInv, TapeInv, ScriptsInv
  <1>6. RunsInv /\ ArchiveInv BY DEF RecoveryInit, RunsInv, ArchiveInv, Active
  <1> QED BY <1>3, <1>4, <1>5, <1>6 DEF RecoveryInv

\* A dump stays one of an earlier time.
LEMMA EarlierStays ==
  ASSUME NEW x \in Dumps, Earlier(x), events \in Nat, events' \in Nat, events <= events',
         Whole \subseteq Whole'
  PROVE  Earlier(x)'
  BY DEF Earlier, Dumps

LEMMA TypesOfDumps ==
  ASSUME RecoveryInv
  PROVE  /\ archive \in Dumps \cup {Nothing} /\ source \in Dumps \cup {Nothing}
         /\ dumped \in Dumps \cup {Nothing} /\ \A r \in Runs : temporary[r] \in Dumps \cup {Nothing}
         /\ head \in Nat /\ events \in Nat /\ faults \in Nat
  BY DEF RecoveryInv, RecoveryTypeOK

\* Transactions of the API append an event each: what is the same afterwards saw none.
LEMMA AloneWhileTransacting ==
  ASSUME RecoveryInv, UNCHANGED <<backup, restore>>,
         \/ UNCHANGED <<head, events, packages>>
         \/ events' = events + 1 /\ head' = events + 1,
         NEW r \in Active \ disturbed
  PROVE  AloneInv(r)'
  <1>1. /\ UNCHANGED <<step, before, temporary, archive, metadata, sidecar, disturbed, restoring>>
        /\ r \in Runs /\ AloneInv(r)
    BY DEF backup, restore, Active, RecoveryInv, RunsInv
  <1>2. Active' = Active /\ Restoring' = Restoring BY <1>1 DEF Active, Restoring
  <1>3. head <= events /\ head \in Nat /\ events \in Nat
    BY TypesOfDumps DEF RecoveryInv, DumpsInv
  <1>4. step[r] \in {"dumping", "moving", "comparing"} =>
          before[r].auditHeadDigest \in Nat
    BY <1>1 DEF RecoveryInv, ScriptsInv, Evidences
  <1>5. step[r] = "dumping" =>
          /\ before[r].auditHeadDigest <= head'
          /\ before[r].auditHeadDigest = head' => before[r] = LiveEvidence'
    BY <1>1, <1>3, <1>4 DEF AloneInv, LiveEvidence
  <1>6. \A x \in Dumps : x.head \in Nat BY DEF Dumps
  <1>7. step[r] = "moving" => Between(before[r], temporary[r])'
    BY <1>1, <1>3, <1>4, <1>6 DEF AloneInv, Between, Evidence, RecoveryInv, ScriptsInv
  <1>8. step[r] = "comparing" => Between(before[r], archive)'
    BY <1>1, <1>3, <1>4, <1>6, TypesOfDumps DEF AloneInv, Between, Evidence, Kept
  <1> QED BY <1>1, <1>2, <1>5, <1>7, <1>8 DEF AloneInv, NoFiles, Kept, Describes, DescriptionOf, Evidence

LEMMA ApiStep ==
  ASSUME RecoveryInv, UNCHANGED <<backup, restore, artifacts, phase>>, StoreKept, faults' \in Nat,
         \/ UNCHANGED <<head, events, packages>>
         \/ events' = events + 1 /\ head' = events + 1
  PROVE  RecoveryInv'
  <1>1. /\ UNCHANGED <<step, before, temporary, archive, metadata, sidecar, disturbed>>
        /\ UNCHANGED <<restoring, source, restores, taping, unread, tape, dumped>>
    BY DEF backup, restore, artifacts
  <1>2. /\ head' \in Nat /\ events' \in Nat /\ head' <= events' /\ events <= events'
    BY TypesOfDumps DEF RecoveryInv, DumpsInv
  <1>3. StoreInv' /\ Whole \subseteq Whole' BY DEF StoreKept
  <1>4. RecoveryTypeOK' BY <1>1, <1>2, <1>3 DEF RecoveryInv, RecoveryTypeOK, StoreInv
  <1>5. DumpsInv'
    BY <1>1, <1>2, <1>3, TypesOfDumps, EarlierStays DEF RecoveryInv, DumpsInv
  <1>6. TapeInv' /\ ScriptsInv' BY <1>1 DEF RecoveryInv, TapeInv, ScriptsInv
  <1>7. Active' = Active BY <1>1 DEF Active
  <1>8. RunsInv'
    BY <1>1, <1>7, AloneWhileTransacting
       DEF RecoveryInv, RunsInv, Kept, Describes, DescriptionOf, Evidence
  <1>9. ArchiveInv'
    BY <1>1, <1>7 DEF RecoveryInv, ArchiveInv, Describes, DescriptionOf, Evidence
  <1> QED BY <1>3, <1>4, <1>5, <1>6, <1>8, <1>9 DEF RecoveryInv, StoreInv

LEMMA ApiInv == ASSUME RecoveryInv, Write \/ Store PROVE RecoveryInv'
  <1>0. UNCHANGED <<backup, restore, artifacts>> BY DEF Write, Store
  <1>1. CASE Write
    <2>1. StoreKept BY <1>1, StoreParts, StoreUnchanged DEF Write
    <2> QED BY <1>0, <1>1, <2>1, ApiStep, TypesOfDumps DEF Write, Transact
  <1>2. CASE Store
    <2>1. PICK w \in Workers :
            \/ /\ \/ \E d \in Digests : Generate(w, d)
                  \/ Look(w) \/ WriteFile(w) \/ Promote(w) \/ Verify(w)
               /\ UNCHANGED database
            \/ /\ Stop(w)
               /\ Fault \/ UNCHANGED database
            \/ RecordPackage(w) /\ Transact
      BY <1>2 DEF Store
    <2>2. StoreKept BY <2>1, StoreParts, StoreStep
    <2>3. CASE RecordPackage(w) /\ Transact
      BY <1>0, <2>2, <2>3, ApiStep, TypesOfDumps DEF Transact
    <2>4. CASE /\ \/ \E d \in Digests : Generate(w, d)
                  \/ Look(w) \/ WriteFile(w) \/ Promote(w) \/ Verify(w) \/ Stop(w)
               /\ Fault \/ UNCHANGED database
      <3>1. UNCHANGED packages
        BY <2>4 DEF Generate, Look, WriteFile, Promote, Verify, Stop
      <3>2. UNCHANGED <<phase, head, events>> /\ faults' \in Nat
        BY <2>4, TypesOfDumps DEF Fault, database
      <3> QED BY <1>0, <2>2, <3>1, <3>2, ApiStep
    <2> QED BY <2>1, <2>3, <2>4
  <1> QED BY <1>1, <1>2

\* tar reads directories that never change once they are whole.
LEMMA TapeStep ==
  ASSUME RecoveryInv, UNCHANGED <<storeVars, backup, restore, phase, head, events>>,
         faults' \in Nat, taping' \in {"new", "walking", "done", "stopped"},
         unread' \in SUBSET Digests, tape' \in [Digests -> (SUBSET Files) \cup {NoDirectory}],
         dumped' \in {dumped, archive}, TapeInv'
  PROVE  RecoveryInv'
  <1>1. /\ UNCHANGED <<step, before, temporary, archive, metadata, sidecar, disturbed>>
        /\ UNCHANGED <<restoring, source, restores>>
    BY DEF backup, restore
  <1>2. StoreInv' /\ Whole' = Whole
    BY StoreParts, StoreUnchanged DEF StoreKept, storeVars, Whole
  <1>3. RecoveryTypeOK'
    BY <1>1, <1>2, TypesOfDumps DEF RecoveryInv, RecoveryTypeOK, StoreInv
  <1>4. DumpsInv' BY <1>1, <1>2 DEF RecoveryInv, DumpsInv, Earlier
  <1>5. ScriptsInv' BY <1>1 DEF RecoveryInv, ScriptsInv
  <1>6. Active' = Active BY <1>1 DEF Active
  <1>7. \A r \in Active \ disturbed : AloneInv(r)'
    <2>1. UNCHANGED packages BY DEF storeVars
    <2> QED BY <2>1, AloneWhileTransacting
  <1>8. RunsInv'
    BY <1>1, <1>6, <1>7 DEF RecoveryInv, RunsInv, Kept, Describes, DescriptionOf, Evidence
  <1>9. ArchiveInv'
    BY <1>1, <1>6 DEF RecoveryInv, ArchiveInv, Describes, DescriptionOf, Evidence
  <1> QED BY <1>2, <1>3, <1>4, <1>5, <1>8, <1>9 DEF RecoveryInv, StoreInv

LEMMA TapeTypes ==
  ASSUME RecoveryInv
  PROVE  /\ taping \in {"new", "walking", "done", "stopped"} /\ unread \in SUBSET Digests
         /\ tape \in [Digests -> (SUBSET Files) \cup {NoDirectory}]
         /\ directory \in [Digests -> (SUBSET Files) \cup {NoDirectory}]
         /\ dumped # Nothing => dumped.packages \subseteq Whole
         /\ archive # Nothing => archive.packages \subseteq Whole
  BY DEF RecoveryInv, RecoveryTypeOK, StoreTypeOK, DumpsInv, Earlier

LEMMA BackupArtifactsInv == ASSUME RecoveryInv, BackupArtifacts PROVE RecoveryInv'
  <1>1. CASE StartTape
    <2>1. Stored \in SUBSET Digests BY DEF Stored
    <2>2. TapeInv' BY <1>1, TapeTypes, WholeAreStored DEF StartTape, TapeInv
    <2> QED BY <1>1, <2>1, <2>2, TapeStep, TapeTypes, TypesOfDumps DEF StartTape, database
  <1>2. ASSUME NEW d \in Digests, TapeDirectory(d) PROVE RecoveryInv'
    <2>1. /\ tape' = [tape EXCEPT ![d] = directory[d]] /\ unread' = unread \ {d}
          /\ UNCHANGED <<taping, dumped>>
      BY <1>2 DEF TapeDirectory
    <2>2. /\ \A e \in Digests : tape'[e] = IF e = d THEN directory[d] ELSE tape[e]
          /\ tape' \in [Digests -> (SUBSET Files) \cup {NoDirectory}]
      BY <2>1, TapeTypes
    <2>3. \A e \in Whole : e \in Digests /\ directory[e] = Files BY DEF Whole
    <2>4. TapeInv' BY <2>1, <2>2, <2>3, TapeTypes DEF TapeInv, RecoveryInv
    <2> QED BY <1>2, <2>1, <2>2, <2>4, TapeStep, TapeTypes, TypesOfDumps DEF TapeDirectory, database
  <1>3. CASE FinishTape
    <2>1. TapeInv' BY <1>3 DEF FinishTape, TapeInv, RecoveryInv
    <2> QED BY <1>3, <2>1, TapeStep, TapeTypes, TypesOfDumps DEF FinishTape, database
  <1>4. CASE StopTape
    <2>1. TapeInv' BY <1>4 DEF StopTape, TapeInv, RecoveryInv
    <2> QED BY <1>4, <2>1, TapeStep, TapeTypes, TypesOfDumps DEF StopTape, Fault
  <1> QED BY <1>1, <1>2, <1>3, <1>4 DEF BackupArtifacts

-----------------------------------------------------------------------------
\* The steps of db-restore.sh.

\* While a restore runs, no run that is active counts as undisturbed.
LEMMA NobodyAlone == ASSUME RecoveryInv, Restoring PROVE Active \subseteq disturbed
  BY DEF RecoveryInv, RunsInv, AloneInv

LEMMA RestoreStep ==
  ASSUME RecoveryInv, Restoring, UNCHANGED <<directory, worker, events, backup, artifacts>>,
         phase' \in {"up", "dropped", "partial"}, head' \in Nat, head' <= events,
         packages' \subseteq Whole, faults' \in Nat, restores' \in Nat,
         restoring' \in {"loading", "finishing", "checking", "restored", "failed"},
         source' \in {source, archive, Nothing},
         restoring' = "finishing" => source' \in Dumps,
         restoring' \in {"finishing", "checking"} =>
           source' = archive \/ (source' = source /\ restoring \in {"finishing", "checking"})
  PROVE  RecoveryInv'
  <1>1. /\ UNCHANGED <<step, before, temporary, archive, metadata, sidecar, disturbed>>
        /\ UNCHANGED <<taping, unread, tape, dumped, pc, digest, staging>>
    BY DEF backup, artifacts, worker
  <1>2. Whole' = Whole /\ Whole \subseteq Digests BY DEF Whole
  <1>3. Active' = Active BY <1>1 DEF Active
  <1>4. RecoveryTypeOK'
    BY <1>1, <1>2, TypesOfDumps DEF RecoveryInv, RecoveryTypeOK, StoreTypeOK
  <1>5. DirectoriesInv' /\ RecordedAreStored'
    BY <1>1, <1>2 DEF RecoveryInv, DirectoriesInv, RecordedAreStored
  <1>6. DumpsInv' BY <1>1, <1>2 DEF RecoveryInv, DumpsInv, Earlier
  <1>7. TapeInv' /\ ScriptsInv' BY <1>1 DEF RecoveryInv, TapeInv, ScriptsInv
  <1>8. RunsInv'
    BY <1>1, <1>3, NobodyAlone DEF RecoveryInv, RunsInv, Kept, Describes, DescriptionOf, Evidence
  <1>9. ArchiveInv'
    BY <1>1, <1>3 DEF RecoveryInv, ArchiveInv, Describes, DescriptionOf, Evidence
  <1> QED BY <1>4, <1>5, <1>6, <1>7, <1>8, <1>9 DEF RecoveryInv

\* A restore begins: the runs that are active are disturbed from now on.
LEMMA StartRestoreInv == ASSUME RecoveryInv, StartRestore PROVE RecoveryInv'
  <1>1. /\ UNCHANGED <<storeVars, phase, head, events, faults, step, before, temporary>>
        /\ UNCHANGED <<archive, metadata, sidecar, source, taping, unread, tape, dumped>>
        /\ restoring' = "dropping" /\ restores' = restores + 1
        /\ disturbed' = disturbed \cup Active
    BY DEF StartRestore, database, artifacts
  <1>2. StoreInv' /\ Whole' = Whole
    BY <1>1, StoreParts, StoreUnchanged DEF StoreKept, storeVars, Whole
  <1>3. Active' = Active /\ Active \subseteq Runs BY <1>1 DEF Active
  <1>4. RecoveryTypeOK' BY <1>1, <1>2, <1>3 DEF RecoveryInv, RecoveryTypeOK, StoreInv
  <1>5. DumpsInv' BY <1>1, <1>2 DEF RecoveryInv, DumpsInv, Earlier
  <1>6. TapeInv' /\ ScriptsInv' BY <1>1 DEF RecoveryInv, TapeInv, ScriptsInv
  <1>7. RunsInv'
    BY <1>1, <1>3 DEF RecoveryInv, RunsInv, Kept, Describes, DescriptionOf, Evidence
  <1>8. ArchiveInv'
    BY <1>1, <1>3 DEF RecoveryInv, ArchiveInv, Describes, DescriptionOf, Evidence
  <1> QED BY <1>2, <1>4, <1>5, <1>6, <1>7, <1>8 DEF RecoveryInv, StoreInv

LEMMA DbRestoreInv == ASSUME RecoveryInv, DbRestore PROVE RecoveryInv'
  <1>0. /\ phase \in {"up", "dropped", "partial"} /\ restores \in Nat /\ head <= events
        /\ packages \subseteq Whole
        /\ source # Nothing => source.head <= events /\ source.packages \subseteq Whole
        /\ restoring = "finishing" => source \in Dumps
        /\ Nothing \notin Dumps
    BY RecoveryAssumption
       DEF RecoveryInv, RecoveryTypeOK, DumpsInv, Earlier, RecordedAreStored, ScriptsInv
  <1>1. CASE StartRestore BY <1>1, StartRestoreInv
  <1>2. CASE DropDatabase
    BY <1>0, <1>2, RestoreStep, TypesOfDumps DEF DropDatabase, Restoring, restore
  <1>3. CASE StartLoad
    <2>1. /\ restoring = "loading" /\ Restoring /\ UNCHANGED <<storeVars, head, events, faults>>
          /\ UNCHANGED <<backup, artifacts, restores>>
          /\ \/ /\ archive # Nothing /\ source' = archive
                /\ phase' = "partial" /\ restoring' = "finishing"
             \/ restoring' = "failed" /\ source' = Nothing /\ phase' = phase
      BY <1>3 DEF StartLoad, EndRestore, Restoring
    <2> QED BY <1>0, <2>1, RestoreStep, TypesOfDumps DEF storeVars
  <1>4. CASE FinishLoad
    <2>1. source \in Dumps /\ source.head \in Nat BY <1>0, <1>4 DEF FinishLoad, Dumps
    <2> QED BY <1>0, <1>4, <2>1, RestoreStep, TypesOfDumps DEF FinishLoad, Restoring, restore
  <1>5. CASE CheckRestored
    <2>1. /\ Restoring /\ UNCHANGED <<storeVars, phase, head, events, faults>>
          /\ UNCHANGED <<backup, artifacts, restores>>
          /\ restoring' \in {"restored", "failed"} /\ source' = Nothing
      BY <1>5 DEF CheckRestored, EndRestore, Restoring, database
    <2> QED BY <1>0, <2>1, RestoreStep, TypesOfDumps DEF storeVars
  <1>6. CASE StopRestore
    <2>1. /\ Restoring /\ UNCHANGED <<storeVars, phase, head, events>>
          /\ UNCHANGED <<backup, artifacts, restores>> /\ faults' = faults + 1
          /\ restoring' = "failed" /\ source' = Nothing
      BY <1>6 DEF StopRestore, EndRestore, Fault
    <2> QED BY <1>0, <2>1, RestoreStep, TypesOfDumps DEF storeVars
  <1> QED BY <1>1, <1>2, <1>3, <1>4, <1>5, <1>6 DEF DbRestore

-----------------------------------------------------------------------------
\* The steps of db-backup.sh.

\* While a run is active, the files are of no other undisturbed run.
LEMMA FilesOfNobodyElse ==
  ASSUME RecoveryInv, NEW r \in Active
  PROVE  /\ \A q \in Runs \ disturbed : step[q] # "done"
         /\ \A q \in Active \ disturbed : q = r
         /\ archive # Nothing /\ archive.run \notin disturbed => archive.run = r
         /\ r \notin disturbed => AloneInv(r)
         /\ r \in Runs /\ step[r] \notin {"new", "done", "stopped"}
  <1>1. archive # Nothing /\ archive.run \notin disturbed => archive.run = r
    BY DEF RecoveryInv, ArchiveInv
  <1>2. \A q \in Active \ disturbed : q = r BY DEF RecoveryInv, RunsInv, AloneInv
  <1>3. ASSUME NEW q \in Runs \ disturbed, step[q] = "done" PROVE FALSE
    <2>1. Kept(q) BY <1>3 DEF RecoveryInv, RunsInv
    <2>2. q = r BY <1>1, <2>1 DEF Kept
    <2> QED BY <1>3, <2>2 DEF Active
  <1> QED BY <1>1, <1>2, <1>3 DEF RecoveryInv, RunsInv, Active

LEMMA RunTypes ==
  ASSUME RecoveryInv
  PROVE  /\ step \in [Runs -> BackupSteps] /\ before \in [Runs -> Evidences \cup {Nothing}]
         /\ temporary \in [Runs -> Dumps \cup {Nothing}]
         /\ archive \in Dumps \cup {Nothing} /\ sidecar \in Dumps \cup {Nothing}
         /\ metadata \in Metadata \cup {Nothing} /\ disturbed \in SUBSET Runs
  BY DEF RecoveryInv, RecoveryTypeOK, BackupSteps

\* What a run keeps in its variables.
RunInv(r) ==
  /\ step[r] \in {"dumping", "moving", "comparing", "describing"} => before[r] \in Evidences
  /\ step[r] = "moving" => temporary[r] \in Dumps /\ temporary[r].run = r
  /\ temporary[r] # Nothing => Earlier(temporary[r])

\* One active run goes on.
LEMMA RunStep ==
  ASSUME RecoveryInv, NEW r \in Active, UNCHANGED <<others, phase, head, events, disturbed>>,
         faults' \in Nat, step' \in [Runs -> BackupSteps],
         before' \in [Runs -> Evidences \cup {Nothing}],
         temporary' \in [Runs -> Dumps \cup {Nothing}],
         archive' \in Dumps \cup {Nothing}, sidecar' \in Dumps \cup {Nothing},
         metadata' \in Metadata \cup {Nothing},
         \A q \in Runs \ {r} :
           step'[q] = step[q] /\ before'[q] = before[q] /\ temporary'[q] = temporary[q],
         RunInv(r)', archive' # Nothing => Earlier(archive'),
         r \in Active' \ disturbed => AloneInv(r)',
         r \notin disturbed /\ step'[r] = "done" =>
           (Kept(r) /\ Describes(archive) /\ sidecar = archive)',
         archive' # Nothing /\ archive'.run \notin disturbed =>
           /\ archive'.run = r
           /\ metadata' = Nothing \/ Describes(archive)'
  PROVE  RecoveryInv'
  <1>1. /\ UNCHANGED <<storeVars, packages, restoring, source, restores>>
        /\ UNCHANGED <<taping, unread, tape, dumped>>
    BY DEF others, restore, artifacts, storeVars
  <1>2. StoreInv' /\ Whole' = Whole
    BY <1>1, StoreParts, StoreUnchanged DEF StoreKept, storeVars, Whole
  <1>3. r \in Runs /\ Active' \ {r} = Active \ {r}
    BY DEF Active
  <1>4. RecoveryTypeOK' BY <1>1, <1>2 DEF RecoveryInv, RecoveryTypeOK, StoreInv, BackupSteps
  <1>5. DumpsInv'
    <2>1. \A x \in {archive', source', dumped'} \cup {temporary'[q] : q \in Runs} :
            x # Nothing => Earlier(x)
      BY <1>1, <1>2 DEF RecoveryInv, DumpsInv, RunInv, Earlier
    <2> QED BY <1>1, <1>2, <2>1 DEF RecoveryInv, DumpsInv, Earlier
  <1>6. TapeInv' BY <1>1 DEF RecoveryInv, TapeInv
  <1>7. ScriptsInv' BY <1>1 DEF RecoveryInv, ScriptsInv, RunInv
  <1>8. \A q \in Active' \ disturbed : q = r BY <1>3, FilesOfNobodyElse
  <1>9. \A q \in Runs \ disturbed : step'[q] = "done" => q = r BY FilesOfNobodyElse
  <1>10. RunsInv' BY <1>8, <1>9 DEF RunsInv
  <1>11. ArchiveInv'
    <2>1. CASE archive' # Nothing /\ archive'.run \notin disturbed
      <3>1. archive'.run = r /\ (metadata' = Nothing \/ Describes(archive)') BY <2>1
      <3>2. Active = {r} /\ ~Restoring BY <2>1, <3>1, FilesOfNobodyElse DEF AloneInv
      <3>3. Active' \subseteq {r} BY <1>3, <3>2
      <3>4. restoring' \notin {"finishing", "checking"} BY <1>1, <3>2 DEF Restoring
      <3> QED BY <3>1, <3>3, <3>4 DEF ArchiveInv
    <2> QED BY <2>1 DEF ArchiveInv
  <1> QED BY <1>2, <1>4, <1>5, <1>6, <1>7, <1>10, <1>11 DEF RecoveryInv, StoreInv

LEMMA StartInv == ASSUME RecoveryInv, NEW r \in Runs, Start(r) PROVE RecoveryInv'
  <1>1. /\ UNCHANGED <<storeVars, restoring, source, restores, taping, unread, tape, dumped>>
        /\ UNCHANGED <<phase, head, events, faults, before, temporary, archive, metadata, sidecar>>
        /\ step[r] = "new" /\ step' = [step EXCEPT ![r] = "reading"] /\ NoFiles
        /\ disturbed' = IF Active # {} \/ Restoring
                        THEN disturbed \cup Active \cup {r} ELSE disturbed
    BY DEF Start, At, others, restore, artifacts, database, NoFiles
  <1>2. StoreInv' /\ Whole' = Whole
    BY <1>1, StoreParts, StoreUnchanged DEF StoreKept, storeVars, Whole
  <1>3. /\ \A q \in Runs : step'[q] = IF q = r THEN "reading" ELSE step[q]
        /\ step' \in [Runs -> BackupSteps] /\ Active' = Active \cup {r} /\ Active \subseteq Runs
    <2>1. \A q \in Runs : step'[q] = IF q = r THEN "reading" ELSE step[q]
      BY <1>1, RunTypes
    <2>2. step' \in [Runs -> BackupSteps] BY <1>1, RunTypes DEF BackupSteps
    <2> QED BY <2>1, <2>2 DEF Active
  <1>4. RecoveryTypeOK'
    BY <1>1, <1>2, <1>3 DEF RecoveryInv, RecoveryTypeOK, StoreInv, BackupSteps
  <1>5. DumpsInv' BY <1>1, <1>2 DEF RecoveryInv, DumpsInv, Earlier
  <1>6. TapeInv' BY <1>1 DEF RecoveryInv, TapeInv
  <1>7. ScriptsInv' BY <1>1, <1>3 DEF RecoveryInv, ScriptsInv
  <1>8. ASSUME NEW q \in Active' \ disturbed' PROVE AloneInv(q)'
    <2>1. Active = {} /\ ~Restoring /\ q = r BY <1>1, <1>3, <1>8
    <2> QED BY <1>1, <1>3, <2>1 DEF AloneInv, Restoring, NoFiles
  <1>9. \A q \in Runs \ disturbed' : step'[q] # "done"
    BY <1>1, <1>3 DEF RecoveryInv, RunsInv, NoFiles, Kept
  <1>10. RunsInv' BY <1>8, <1>9 DEF RunsInv
  <1>11. ArchiveInv' BY <1>1 DEF ArchiveInv, NoFiles
  <1> QED BY <1>2, <1>4, <1>5, <1>6, <1>7, <1>10, <1>11 DEF RecoveryInv, StoreInv

\* What is known of a run and of the files before it takes a step.
LEMMA RunFacts ==
  ASSUME RecoveryInv, NEW r \in Active
  PROVE  /\ r \in Runs /\ RunInv(r) /\ (archive # Nothing => Earlier(archive))
         /\ archive # Nothing /\ archive.run \notin disturbed =>
              archive.run = r /\ (metadata = Nothing \/ Describes(archive))
         /\ faults \in Nat /\ faults + 1 \in Nat
  BY FilesOfNobodyElse, TypesOfDumps
     DEF RecoveryInv, DumpsInv, ScriptsInv, ArchiveInv, RunInv, Active

\* The run is over and its files are gone, or as they were.
LEMMA ExitInv ==
  ASSUME RecoveryInv, NEW r \in Active, UNCHANGED <<others, phase, head, events>>, faults' \in Nat,
         NEW outcome \in {"done", "stopped"}, Exit(r, outcome),
         \/ archive' = Nothing /\ metadata' = Nothing /\ sidecar' = Nothing /\ outcome = "stopped"
         \/ UNCHANGED <<archive, metadata, sidecar>>,
         outcome = "done" => step[r] = "reporting"
  PROVE  RecoveryInv'
  <1>1. /\ step' = [step EXCEPT ![r] = outcome] /\ before' = [before EXCEPT ![r] = Nothing]
        /\ temporary' = [temporary EXCEPT ![r] = Nothing] /\ disturbed' = disturbed
    BY DEF Exit
  <1>2. /\ step' \in [Runs -> BackupSteps] /\ step'[r] = outcome
        /\ before' \in [Runs -> Evidences \cup {Nothing}]
        /\ temporary' \in [Runs -> Dumps \cup {Nothing}] /\ temporary'[r] = Nothing
        /\ archive' \in Dumps \cup {Nothing} /\ sidecar' \in Dumps \cup {Nothing}
        /\ metadata' \in Metadata \cup {Nothing}
        /\ \A q \in Runs \ {r} :
             step'[q] = step[q] /\ before'[q] = before[q] /\ temporary'[q] = temporary[q]
    BY <1>1, RunTypes, RunFacts DEF BackupSteps
  <1>3. RunInv(r)' /\ r \notin Active' BY <1>2 DEF RunInv, Active
  <1>4. archive' # Nothing => Earlier(archive') BY RunFacts
  <1>5. r \notin disturbed /\ step'[r] = "done" =>
          (Kept(r) /\ Describes(archive) /\ sidecar = archive)'
    BY <1>2, FilesOfNobodyElse DEF AloneInv, Kept, Describes, DescriptionOf, Evidence
  <1>6. archive' # Nothing /\ archive'.run \notin disturbed =>
          archive'.run = r /\ (metadata' = Nothing \/ Describes(archive)')
    BY RunFacts DEF Describes, DescriptionOf, Evidence
  <1> QED BY <1>1, <1>2, <1>3, <1>4, <1>5, <1>6, RunStep

LEMMA CleanupInv ==
  ASSUME RecoveryInv, NEW r \in Active, Cleanup(r), UNCHANGED <<others, phase, head, events>>,
         faults' \in Nat
  PROVE  RecoveryInv'
  BY ExitInv DEF Cleanup

\* The run reads, and the files stay as they are.
LEMMA ReadingStep ==
  ASSUME RecoveryInv, NEW r \in Active, UNCHANGED <<others, database, archive, metadata, sidecar>>,
         UNCHANGED disturbed, NEW from, NEW to \in BackupSteps, At(r, from, to), to # "done",
         before' \in [Runs -> Evidences \cup {Nothing}],
         temporary' \in [Runs -> Dumps \cup {Nothing}],
         \A q \in Runs \ {r} : before'[q] = before[q] /\ temporary'[q] = temporary[q],
         RunInv(r)', r \notin disturbed => AloneInv(r)'
  PROVE  RecoveryInv'
  <1>1. /\ step' \in [Runs -> BackupSteps] /\ step'[r] = to
        /\ \A q \in Runs \ {r} : step'[q] = step[q]
    BY RunTypes, RunFacts DEF At
  <1>2. archive' # Nothing => Earlier(archive') BY RunFacts
  <1>3. archive' # Nothing /\ archive'.run \notin disturbed =>
          archive'.run = r /\ (metadata' = Nothing \/ Describes(archive)')
    BY RunFacts DEF Describes, DescriptionOf, Evidence
  <1> QED BY <1>1, <1>2, <1>3, RunStep, RunTypes, RunFacts DEF database

\* A run that nothing overlaps stays alone.
LEMMA StaysAlone ==
  ASSUME RecoveryInv, NEW r \in Active \ disturbed, UNCHANGED others,
         NEW from, NEW to \in BackupSteps \ {"new", "done", "stopped"}, At(r, from, to)
  PROVE  Active' = {r} /\ ~Restoring' /\ step'[r] = to
  <1>1. Active = {r} /\ ~Restoring /\ r \in Runs
    BY FilesOfNobodyElse DEF AloneInv
  <1>2. /\ step' \in [Runs -> BackupSteps] /\ step'[r] = to
        /\ \A q \in Runs \ {r} : step'[q] = step[q]
    BY <1>1, RunTypes DEF At
  <1>3. Active' = {r} BY <1>1, <1>2 DEF Active
  <1>4. restoring' = restoring BY DEF others, restore
  <1> QED BY <1>1, <1>2, <1>3, <1>4 DEF Restoring

LEMMA ReadEvidenceInv == ASSUME RecoveryInv, NEW r \in Runs, ReadEvidence(r) PROVE RecoveryInv'
  <1>1. /\ r \in Active /\ step[r] = "reading" /\ At(r, "reading", "dumping")
        /\ before' = [before EXCEPT ![r] = LiveEvidence]
        /\ UNCHANGED <<others, database, archive, metadata, sidecar, disturbed, temporary>>
    BY DEF ReadEvidence, At, Active
  <1>2. LiveEvidence \in Evidences /\ UNCHANGED <<head, packages>>
    BY <1>1, StoreParts, TypesOfDumps
       DEF LiveEvidence, Evidences, StoreInv, StoreTypeOK, database, others, storeVars
  <1>3. /\ before' \in [Runs -> Evidences \cup {Nothing}] /\ before'[r] = LiveEvidence
        /\ \A q \in Runs \ {r} : before'[q] = before[q]
    BY <1>1, <1>2, RunTypes
  <1>4. step'[r] = "dumping" BY <1>1, RunTypes DEF At
  <1>5. RunInv(r)'
    <2>1. temporary[r] # Nothing => Earlier(temporary[r]) BY <1>1, RunFacts DEF RunInv
    <2>2. UNCHANGED <<temporary, events>> /\ Whole' = Whole
      BY <1>1 DEF database, others, storeVars, Whole
    <2> QED BY <1>2, <1>3, <1>4, <2>1, <2>2 DEF RunInv, Earlier
  <1>6. ASSUME r \notin disturbed PROVE AloneInv(r)'
    <2>1. Active' = {r} /\ ~Restoring'
      BY <1>1, <1>6, StaysAlone DEF BackupSteps
    <2>2. AloneInv(r) BY <1>1, <1>6, FilesOfNobodyElse
    <2>3. LiveEvidence.auditHeadDigest = head /\ head \in Nat
      BY TypesOfDumps DEF LiveEvidence
    <2> QED BY <1>1, <1>2, <1>3, <1>4, <2>1, <2>2, <2>3 DEF AloneInv, NoFiles, LiveEvidence
  <1>7. temporary' \in [Runs -> Dumps \cup {Nothing}] BY <1>1, RunTypes
  <1> QED BY <1>1, <1>3, <1>5, <1>6, <1>7, ReadingStep DEF BackupSteps

LEMMA PgDumpInv == ASSUME RecoveryInv, NEW r \in Runs, PgDump(r) PROVE RecoveryInv'
  <1>1. /\ r \in Active /\ step[r] = "dumping" /\ At(r, "dumping", "moving")
        /\ temporary' = [temporary EXCEPT ![r] = Dump(r)]
        /\ UNCHANGED <<others, database, archive, metadata, sidecar, disturbed, before>>
    BY DEF PgDump, At, Active
  <1>2. /\ Dump(r) \in Dumps /\ Dump(r).run = r /\ Dump(r).head = head
        /\ Dump(r).packages = packages
    BY <1>1, StoreParts, TypesOfDumps DEF Dump, Dumps, StoreInv, StoreTypeOK
  <1>3. /\ temporary' \in [Runs -> Dumps \cup {Nothing}] /\ temporary'[r] = Dump(r)
        /\ \A q \in Runs \ {r} : temporary'[q] = temporary[q]
    BY <1>1, <1>2, RunTypes
  <1>4. /\ step'[r] = "moving" /\ UNCHANGED <<head, events, packages, directory>>
    BY <1>1, RunTypes DEF At, database, others, storeVars
  <1>5. RunInv(r)'
    <2>1. temporary'[r].head <= events' /\ temporary'[r].packages \subseteq Whole'
      BY <1>2, <1>3, <1>4 DEF RecoveryInv, DumpsInv, RecordedAreStored, Whole
    <2>2. before'[r] \in Evidences BY <1>1, RunFacts DEF RunInv
    <2> QED BY <1>2, <1>3, <1>4, <2>1, <2>2 DEF RunInv, Earlier
  <1>6. ASSUME r \notin disturbed PROVE AloneInv(r)'
    <2>1. Active' = {r} /\ ~Restoring'
      BY <1>1, <1>6, StaysAlone DEF BackupSteps
    <2>2. AloneInv(r) BY <1>1, <1>6, FilesOfNobodyElse
    <2>3. Between(before[r], Dump(r))
      BY <1>1, <1>2, <2>2, TypesOfDumps DEF AloneInv, Between, LiveEvidence, Evidence
    <2>4. Between(before[r], temporary[r])'
      BY <1>1, <1>3, <1>4, <2>3 DEF Between, Evidence
    <2> QED BY <1>1, <1>4, <2>1, <2>2, <2>4 DEF AloneInv, NoFiles
  <1>7. before' \in [Runs -> Evidences \cup {Nothing}] BY <1>1, RunTypes
  <1> QED BY <1>1, <1>3, <1>5, <1>6, <1>7, ReadingStep DEF BackupSteps

LEMMA NoDatabaseInv == ASSUME RecoveryInv, NEW r \in Runs, NoDatabase(r) PROVE RecoveryInv'
  BY CleanupInv, RunFacts DEF NoDatabase, Active, database

LEMMA MoveInv == ASSUME RecoveryInv, NEW r \in Runs, Move(r) PROVE RecoveryInv'
  <1>1. /\ r \in Active /\ step[r] = "moving" /\ At(r, "moving", "comparing")
        /\ archive' = temporary[r] /\ temporary' = [temporary EXCEPT ![r] = Nothing]
        /\ UNCHANGED <<others, database, metadata, sidecar, disturbed, before>>
    BY DEF Move, At, Active
  <1>2. /\ archive' \in Dumps /\ archive'.run = r /\ Earlier(archive') /\ before[r] \in Evidences
        /\ archive' # Nothing
    BY <1>1, RunFacts, RecoveryAssumption DEF RunInv
  <1>3. /\ temporary' \in [Runs -> Dumps \cup {Nothing}] /\ temporary'[r] = Nothing
        /\ \A q \in Runs \ {r} : temporary'[q] = temporary[q]
    BY <1>1, RunTypes
  <1>4. /\ step' \in [Runs -> BackupSteps] /\ step'[r] = "comparing"
        /\ \A q \in Runs \ {r} : step'[q] = step[q]
        /\ UNCHANGED <<phase, head, events, faults, packages>>
    BY <1>1, RunTypes DEF At, database, others, storeVars, BackupSteps
  <1>5. RunInv(r)' BY <1>1, <1>2, <1>3, <1>4 DEF RunInv
  <1>6. ASSUME r \notin disturbed PROVE AloneInv(r)' /\ metadata' = Nothing
    <2>1. Active' = {r} /\ ~Restoring'
      BY <1>1, <1>6, StaysAlone DEF BackupSteps
    <2>2. AloneInv(r) BY <1>1, <1>6, FilesOfNobodyElse
    <2>3. Between(before[r], archive)'
      BY <1>1, <1>4, <2>2 DEF AloneInv, Between, Evidence
    <2>4. metadata = Nothing /\ sidecar = Nothing BY <1>1, <2>2 DEF AloneInv, NoFiles
    <2> QED BY <1>1, <1>2, <1>4, <2>1, <2>3, <2>4 DEF AloneInv, Kept
  <1>7. /\ before' \in [Runs -> Evidences \cup {Nothing}] /\ sidecar' \in Dumps \cup {Nothing}
        /\ metadata' \in Metadata \cup {Nothing} /\ faults' \in Nat
    BY <1>1, <1>4, RunTypes, RunFacts
  <1> QED BY <1>1, <1>2, <1>3, <1>4, <1>5, <1>6, <1>7, RunStep

LEMMA CompareInv == ASSUME RecoveryInv, NEW r \in Runs, Compare(r) PROVE RecoveryInv'
  <1>1. r \in Active /\ step[r] = "comparing" /\ UNCHANGED <<database, others>>
    BY DEF Compare, Active
  <1>2. CASE Cleanup(r) BY <1>1, <1>2, CleanupInv, RunFacts DEF database
  <1>3. CASE /\ LiveEvidence = before[r] /\ At(r, "comparing", "describing")
             /\ UNCHANGED <<before, temporary, archive, metadata, sidecar, disturbed>>
    <2>1. step'[r] = "describing" /\ UNCHANGED <<head, events, packages, directory>>
      BY <1>1, <1>3, RunTypes DEF At, database, others, storeVars
    <2>2. RunInv(r)' BY <1>1, <1>3, <2>1, RunFacts DEF RunInv, Earlier, Whole
    <2>3. ASSUME r \notin disturbed PROVE AloneInv(r)'
      <3>1. Active' = {r} /\ ~Restoring'
        BY <1>1, <1>3, <2>3, StaysAlone DEF BackupSteps
      <3>2. AloneInv(r) BY <1>1, <2>3, FilesOfNobodyElse
      <3>3. Between(before[r], archive) /\ before[r].auditHeadDigest = head
            /\ archive \in Dumps /\ head \in Nat
        BY <1>1, <1>3, <3>2, TypesOfDumps DEF AloneInv, LiveEvidence, Kept
      <3>4. archive.head = head BY <3>3 DEF Between, Dumps
      <3>5. before[r] = Evidence(archive) BY <3>3, <3>4 DEF Between
      <3> QED BY <1>1, <1>3, <2>1, <3>1, <3>2, <3>5 DEF AloneInv, Kept, Evidence
    <2> QED BY <1>1, <1>3, <2>2, <2>3, ReadingStep, RunTypes DEF BackupSteps
  <1> QED BY <1>2, <1>3 DEF Compare

LEMMA DescribeInv == ASSUME RecoveryInv, NEW r \in Runs, Describe(r) PROVE RecoveryInv'
  <1>1. r \in Active /\ step[r] = "describing" /\ UNCHANGED <<database, others>>
    BY DEF Describe, Active
  <1>2. CASE Cleanup(r) BY <1>1, <1>2, CleanupInv, RunFacts DEF database
  <1>3. CASE /\ archive # Nothing /\ At(r, "describing", "sealing")
             /\ temporary' = [temporary EXCEPT ![r] = archive]
             /\ metadata' = [archiveSha256 |-> archive, evidence |-> before[r]]
             /\ UNCHANGED <<before, archive, sidecar, disturbed>>
    <2>1. /\ step' \in [Runs -> BackupSteps] /\ step'[r] = "sealing"
          /\ \A q \in Runs \ {r} : step'[q] = step[q]
          /\ UNCHANGED <<phase, head, events, faults, packages, directory>>
      BY <1>1, <1>3, RunTypes DEF At, database, others, storeVars, BackupSteps
    <2>2. /\ temporary' \in [Runs -> Dumps \cup {Nothing}] /\ temporary'[r] = archive
          /\ \A q \in Runs \ {r} : temporary'[q] = temporary[q]
      BY <1>3, RunTypes
    <2>3. metadata' \in Metadata
      BY <1>1, <1>3, RunTypes, RunFacts DEF Metadata, RunInv
    <2>4. RunInv(r)' BY <1>1, <2>1, <2>2, RunFacts DEF RunInv, Earlier, Whole
    <2>5. ASSUME r \notin disturbed PROVE AloneInv(r)' /\ Describes(archive)'
      <3>1. Active' = {r} /\ ~Restoring'
        BY <1>1, <1>3, <2>5, StaysAlone DEF BackupSteps
      <3>2. AloneInv(r) BY <1>1, <2>5, FilesOfNobodyElse
      <3>3. Describes(archive)'
        BY <1>1, <1>3, <3>2 DEF AloneInv, Describes, DescriptionOf, Evidence
      <3> QED BY <1>1, <1>3, <2>1, <2>2, <3>1, <3>2, <3>3 DEF AloneInv, Kept
    <2>6. archive' # Nothing /\ archive'.run \notin disturbed =>
            archive'.run = r /\ Describes(archive)'
      BY <1>1, <1>3, <2>5, RunFacts
    <2>7. archive' # Nothing => Earlier(archive') BY <1>1, <1>3, RunFacts
    <2>8. /\ before' \in [Runs -> Evidences \cup {Nothing}] /\ sidecar' \in Dumps \cup {Nothing}
          /\ archive' \in Dumps \cup {Nothing} /\ faults' \in Nat
          /\ \A q \in Runs \ {r} : before'[q] = before[q]
      BY <1>1, <1>3, <2>1, RunTypes, RunFacts
    <2> QED BY <1>1, <1>3, <2>1, <2>2, <2>3, <2>4, <2>5, <2>6, <2>7, <2>8, RunStep
  <1> QED BY <1>2, <1>3 DEF Describe

LEMMA SealInv == ASSUME RecoveryInv, NEW r \in Runs, Seal(r) PROVE RecoveryInv'
  <1>1. r \in Active /\ step[r] = "sealing" /\ UNCHANGED <<database, others>>
    BY DEF Seal, Active
  <1>2. CASE Cleanup(r) BY <1>1, <1>2, CleanupInv, RunFacts DEF database
  <1>3. CASE /\ sidecar = Nothing /\ At(r, "sealing", "reporting") /\ sidecar' = temporary[r]
             /\ UNCHANGED <<before, temporary, archive, metadata, disturbed>>
    <2>1. /\ step' \in [Runs -> BackupSteps] /\ step'[r] = "reporting"
          /\ \A q \in Runs \ {r} : step'[q] = step[q]
          /\ UNCHANGED <<phase, head, events, faults, packages, directory>>
      BY <1>1, <1>3, RunTypes DEF At, database, others, storeVars, BackupSteps
    <2>2. RunInv(r)' BY <1>1, <1>3, <2>1, RunFacts DEF RunInv, Earlier, Whole
    <2>3. ASSUME r \notin disturbed PROVE AloneInv(r)'
      <3>1. Active' = {r} /\ ~Restoring'
        BY <1>1, <1>3, <2>3, StaysAlone DEF BackupSteps
      <3>2. AloneInv(r) BY <1>1, <2>3, FilesOfNobodyElse
      <3> QED BY <1>1, <1>3, <2>1, <3>1, <3>2
              DEF AloneInv, Kept, Describes, DescriptionOf, Evidence
    <2>4. archive' # Nothing /\ archive'.run \notin disturbed =>
            archive'.run = r /\ (metadata' = Nothing \/ Describes(archive)')
      BY <1>1, <1>3, RunFacts DEF Describes, DescriptionOf, Evidence
    <2>5. archive' # Nothing => Earlier(archive') BY <1>1, <1>3, RunFacts
    <2>6. /\ before' \in [Runs -> Evidences \cup {Nothing}]
          /\ temporary' \in [Runs -> Dumps \cup {Nothing}] /\ faults' \in Nat
          /\ archive' \in Dumps \cup {Nothing} /\ metadata' \in Metadata \cup {Nothing}
          /\ sidecar' \in Dumps \cup {Nothing}
          /\ \A q \in Runs \ {r} : before'[q] = before[q] /\ temporary'[q] = temporary[q]
      BY <1>1, <1>3, <2>1, RunTypes, RunFacts
    <2> QED BY <1>1, <1>3, <2>1, <2>2, <2>3, <2>4, <2>5, <2>6, RunStep
  <1> QED BY <1>2, <1>3 DEF Seal

LEMMA ReportInv == ASSUME RecoveryInv, NEW r \in Runs, Report(r) PROVE RecoveryInv'
  <1>1. r \in Active /\ step[r] = "reporting" BY DEF Report, Active
  <1> QED BY <1>1, ExitInv, RunFacts DEF Report, database

LEMMA DbBackupInv == ASSUME RecoveryInv, DbBackup PROVE RecoveryInv'
  <1>1. ASSUME NEW r \in Runs, FailBackup(r) PROVE RecoveryInv'
    BY <1>1, CleanupInv, RunFacts DEF FailBackup, Fault
  <1>2. ASSUME NEW r \in Runs, KillBackup(r) PROVE RecoveryInv'
    BY <1>2, ExitInv, RunFacts DEF KillBackup, Fault
  <1> QED BY <1>1, <1>2, StartInv, ReadEvidenceInv, PgDumpInv, NoDatabaseInv, MoveInv, CompareInv,
             DescribeInv, SealInv, ReportInv
          DEF DbBackup

-----------------------------------------------------------------------------
\* Theorems.

LEMMA RecoveryStep == RecoveryInv /\ [RecoveryNext]_recoveryVars => RecoveryInv'
  <1> SUFFICES ASSUME RecoveryInv, [RecoveryNext]_recoveryVars PROVE RecoveryInv' OBVIOUS
  <1>1. CASE RecoveryNext
    BY <1>1, ApiInv, DbBackupInv, DbRestoreInv, BackupArtifactsInv DEF RecoveryNext
  <1>2. CASE UNCHANGED recoveryVars
    <2>1. /\ UNCHANGED <<backup, restore, artifacts, database>>
          /\ UNCHANGED <<phase, faults, head, events, packages>>
      BY <1>2 DEF recoveryVars, database, storeVars
    <2>2. StoreKept BY <1>2, StoreParts, StoreUnchanged DEF recoveryVars
    <2> QED BY <2>1, <2>2, ApiStep, TypesOfDumps
  <1> QED BY <1>1, <1>2

\* The inductive invariant of backups and restores holds in every reachable state.
THEOREM RecoveryInvariance == RecoverySpec => []RecoveryInv
  BY RecoveryInitInv, RecoveryStep, PTL DEF RecoverySpec

\* The database, the files and the variables of the scripts keep their types.
THEOREM RecoveryTypeCorrect == RecoverySpec => []RecoveryTypeOK
  <1>1. RecoveryInv => RecoveryTypeOK BY DEF RecoveryInv
  <1> QED BY RecoveryInvariance, <1>1, PTL

\* A row of verification_packages names a whole directory, also after any restore.
THEOREM RowsHaveFiles == RecoverySpec => []RecordedAreStored
  <1>1. RecoveryInv => RecordedAreStored BY DEF RecoveryInv
  <1> QED BY RecoveryInvariance, <1>1, PTL

\* What backup-artifacts.sh copies after a dump has every package the dump names.
THEOREM TapeIsComplete == RecoverySpec => []TapeCompletesTheDump
  <1>1. RecoveryInv => TapeCompletesTheDump BY DEF RecoveryInv, TapeInv, TapeCompletesTheDump
  <1> QED BY RecoveryInvariance, <1>1, PTL

\* A backup that verifies, or that db-backup.sh reported, and that nothing overlapped is
\* of one moment: its evidence is the evidence of its dump.
THEOREM BackupIsOfOneMoment == RecoverySpec => []BackupsAreSound
  <1>1. ASSUME RecoveryInv PROVE BackupsAreSound
    <2>1. \A x \in Dumps : Describes(x) => /\ metadata # Nothing
                                           /\ metadata.archiveSha256 = x
                                           /\ metadata.evidence = Evidence(x)
      <3>1. ASSUME NEW x \in Dumps PROVE DescriptionOf(x) \in Metadata
        BY DEF DescriptionOf, Evidence, Metadata, Evidences, Dumps
      <3> QED BY <3>1, RecoveryAssumption DEF Describes, DescriptionOf
    <2>2. archive # Nothing => archive \in Dumps BY <1>1, TypesOfDumps
    <2>3. ReportedIsSound
      BY <1>1, <2>1, <2>2 DEF ReportedIsSound, RecoveryInv, RunsInv, Kept, Verified
    <2>4. LeftoversAreSound
      BY <1>1, <2>1, <2>2 DEF LeftoversAreSound, RecoveryInv, ArchiveInv, Verified
    <2> QED BY <2>3, <2>4 DEF BackupsAreSound
  <1> QED BY RecoveryInvariance, <1>1, PTL

\* A restore that reports success, of an archive that nothing overlapped, has loaded that
\* archive, and the database is the one that was dumped.
THEOREM RestoreIsSound == RecoverySpec => RestoreIsTheBackup
  <1> DEFINE Sound == Restoring /\ restoring' = "restored" /\ archive.run \notin disturbed =>
                        source = archive /\ LiveEvidence = Evidence(archive)
  <1>1. ASSUME RecoveryInv, RecoveryNext PROVE Sound
    <2> SUFFICES ASSUME Restoring, restoring' = "restored", archive.run \notin disturbed
                 PROVE  source = archive /\ LiveEvidence = Evidence(archive)
      OBVIOUS
    <2>1. restoring # "restored" BY DEF Restoring
    <2>2. restoring' # restoring BY <2>1
    <2>3. ~(Write \/ Store \/ DbBackup \/ BackupArtifacts)
      BY <2>2 DEF Write, Store, DbBackup, BackupArtifacts, restore, others, Start, ReadEvidence,
                  PgDump, NoDatabase, Move, Compare, Describe, Seal, Report, FailBackup,
                  KillBackup, StartTape, TapeDirectory, FinishTape, StopTape
    <2>4. restoring = "checking" /\ Restored
      BY <1>1, <2>3 DEF RecoveryNext, DbRestore, StartRestore, DropDatabase, StartLoad, FinishLoad,
                        CheckRestored, StopRestore, EndRestore, restore
    <2>5. /\ archive # Nothing /\ metadata # Nothing /\ metadata.evidence = LiveEvidence
      BY <2>4 DEF Restored, Verified
    <2>6. source = archive /\ Describes(archive)
      BY <1>1, <2>4, <2>5 DEF RecoveryInv, ArchiveInv
    <2> QED BY <2>5, <2>6 DEF Describes, DescriptionOf
  <1>2. RecoveryInv /\ [RecoveryNext]_recoveryVars => [Sound]_recoveryVars BY <1>1
  <1> QED BY RecoveryInvariance, <1>2, PTL DEF RecoverySpec, RestoreIsTheBackup

\* Through crashes, backups and restores a directory appears whole, in one step, and for
\* good: the store of packages implements ImmutableStore.
THEOREM StoreIsImmutable == RecoverySpec => ImplementsStore
  <1>1. RecoveryInit => Abstract!Init BY DEF RecoveryInit, StoreInit, Abstract!Init
  <1>2. ASSUME RecoveryInv, [RecoveryNext]_recoveryVars PROVE [Abstract!Next]_directory
    <2>1. ASSUME NEW w \in Workers, Promote(w) PROVE [Abstract!Next]_directory
      <3>1. /\ digest[w] \in Digests /\ staging[w] = Files
            /\ directory' = IF digest[w] \in Stored THEN directory
                            ELSE [directory EXCEPT ![digest[w]] = staging[w]]
        BY <1>2, <2>1 DEF Promote, RecoveryInv, DirectoriesInv
      <3>2. digest[w] \notin Stored => directory[digest[w]] = NoDirectory
        BY <3>1 DEF Stored
      <3> QED BY <3>1, <3>2 DEF Abstract!Next, Abstract!PutImmutable
    <2>2. CASE UNCHANGED storeVars BY <2>2 DEF storeVars
    <2>3. CASE Store
      BY <2>1, <2>3 DEF Store, Generate, Look, WriteFile, Verify, Stop, RecordPackage
    <2>4. CASE Write \/ BackupArtifacts \/ DbBackup
      <3>1. UNCHANGED storeVars
        BY <2>4 DEF Write, DbBackup, BackupArtifacts, others, Start, ReadEvidence,
                    PgDump, NoDatabase, Move, Compare, Describe, Seal, Report, FailBackup,
                    KillBackup, StartTape, TapeDirectory, FinishTape, StopTape
      <3> QED BY <2>2, <3>1
    <2>5. CASE DbRestore
      BY <2>5 DEF DbRestore, StartRestore, DropDatabase, StartLoad, FinishLoad, CheckRestored,
                  StopRestore, storeVars
    <2> QED BY <1>2, <2>2, <2>3, <2>4, <2>5 DEF RecoveryNext, recoveryVars
  <1> QED BY <1>1, <1>2, RecoveryInvariance, PTL DEF RecoverySpec, ImplementsStore, Abstract!Spec
=============================================================================
