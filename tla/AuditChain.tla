----------------------------- MODULE AuditChain -----------------------------
(***************************************************************************)
(* The audit trail: one hash chain per stream, appended to by the          *)
(* transactions of every other component through audit.append_event, sealed*)
(* by audit.create_checkpoint and read back by verifyStream.  A caller     *)
(* locks the head of its stream with its first append and holds it until   *)
(* its own transaction ends; what it wrote is visible to others from then  *)
(* on, or never.  The number of an event comes from a sequence of          *)
(* PostgreSQL, which no rollback takes back.                               *)
(*                                                                         *)
(* A hash commits to what was hashed: it is the chain of numbers and       *)
(* payloads that leads to it, so that different inputs have different      *)
(* hashes.                                                                 *)
(***************************************************************************)
EXTENDS Integers, Sequences, FiniteSets

CONSTANTS
  Streams,      \* one per election
  Callers,      \* connections that run transactions
  Payloads,
  MaxSequence,  \* bound on the numbers drawn
  None

Sequence == 1 .. MaxSequence
Hash == Seq(Sequence \X Payloads)
Genesis == <<>>
NoHead == [sequence |-> 0, hash |-> Genesis]

\* compute_event_hash
compute_event_hash(sequence, payload, previous) == Append(previous, <<sequence, payload>>)

Event == [stream : Streams, sequence : Sequence, payload : Payloads,
          previous : Hash, hash : Hash]
HeadRow == [sequence : 0 .. MaxSequence, hash : Hash]
Checkpoint == [stream : Streams, from : Sequence, to : Sequence, hash : Hash]
\* what an open transaction read and wrote
Transaction == [stream : Streams, locked : BOOLEAN, head : HeadRow,
                events : SUBSET Event, checkpoints : SUBSET Checkpoint]

ASSUME AuditChainAssumption ==
  /\ MaxSequence \in Nat
  /\ None \notin Transaction

VARIABLES
  audit_event, audit_chain_head, audit_checkpoint,   \* what is committed
  sequence,                                          \* last number drawn
  tx,                                                \* transaction of each caller
  reading,                                           \* what verifyStream has read
  verified                                           \* and its answer

tables == <<audit_event, audit_chain_head, audit_checkpoint>>
verification == <<reading, verified>>
vars == <<tables, sequence, tx, verification>>

TypeOK ==
  /\ audit_event \in SUBSET Event
  /\ audit_chain_head \in [Streams -> HeadRow]
  /\ audit_checkpoint \in SUBSET Checkpoint
  /\ sequence \in 0 .. MaxSequence
  /\ tx \in [Callers -> Transaction \cup {None}]
  /\ \/ reading = None
     \/ reading \in [stream : Streams, rows : SUBSET Event, head : HeadRow]
  /\ verified \in BOOLEAN \cup {None}

\* A head row that is not there yet is one at 0 over the genesis hash.
Init ==
  /\ audit_event = {} /\ audit_checkpoint = {}
  /\ audit_chain_head = [s \in Streams |-> NoHead]
  /\ sequence = 0
  /\ tx = [c \in Callers |-> None]
  /\ reading = None /\ verified = None

Open(c) == tx[c] # None
Holds(c) == Open(c) /\ tx[c].locked
EventsOf(s, rows) == {e \in rows : e.stream = s}
-----------------------------------------------------------------------------
\* A transaction of another component.

Begin(c, s) ==
  /\ ~Open(c)
  /\ tx' = [tx EXCEPT ![c] = [stream |-> s, locked |-> FALSE,
                              head |-> NoHead,
                              events |-> {}, checkpoints |-> {}]]
  /\ UNCHANGED <<tables, sequence, verification>>

\* Mutant of LockHead: the head is read without FOR UPDATE.
LockHeadNoWait(c) ==
  /\ Open(c) /\ ~tx[c].locked
  /\ tx' = [tx EXCEPT ![c].locked = TRUE, ![c].head = audit_chain_head[tx[c].stream]]
  /\ UNCHANGED <<tables, sequence, verification>>

\* the first statement on a stream waits for its head and reads what the last
\* holder committed
LockHead(c) ==
  /\ Open(c) /\ ~tx[c].locked
  /\ \A d \in Callers : Holds(d) => tx[d].stream # tx[c].stream
  /\ tx' = [tx EXCEPT ![c].locked = TRUE, ![c].head = audit_chain_head[tx[c].stream]]
  /\ UNCHANGED <<tables, sequence, verification>>

\* append_event, once the head is locked
AppendEvent(c, payload) ==
  /\ Holds(c) /\ sequence < MaxSequence
  /\ LET previous == tx[c].head.hash
         number == sequence + 1
         hash == compute_event_hash(number, payload, previous)
         event == [stream |-> tx[c].stream, sequence |-> number, payload |-> payload,
                   previous |-> previous, hash |-> hash]
     IN /\ sequence' = number
        /\ tx' = [tx EXCEPT ![c].events = @ \cup {event},
                            ![c].head = [sequence |-> number, hash |-> hash]]
  /\ UNCHANGED <<tables, verification>>

\* the numbers of the stream that a transaction sees
Numbers(c) == {e.sequence : e \in EventsOf(tx[c].stream, audit_event) \cup tx[c].events}

\* create_checkpoint of a stream that is not empty; a head has one checkpoint.  As a
\* first statement it does not wait for the uncommitted first append of another: it finds
\* no head and raises, which is the caller's Rollback.
CreateCheckpoint(c) ==
  /\ Holds(c) /\ tx[c].head.sequence # 0
  /\ LET s == tx[c].stream
         h == tx[c].head
         known == \E k \in audit_checkpoint \cup tx[c].checkpoints :
                    k.stream = s /\ k.to = h.sequence /\ k.hash = h.hash
     IN \E from \in Numbers(c) :
          /\ \A n \in Numbers(c) : from <= n
          /\ tx' = [tx EXCEPT ![c].checkpoints = @ \cup
                      (IF known THEN {}
                       ELSE {[stream |-> s, from |-> from, to |-> h.sequence, hash |-> h.hash]})]
  /\ UNCHANGED <<tables, sequence, verification>>

\* Mutant of Commit: the head row is not updated.
CommitWithoutHead(c) ==
  /\ Holds(c)
  /\ audit_event' = audit_event \cup tx[c].events
  /\ audit_checkpoint' = audit_checkpoint \cup tx[c].checkpoints
  /\ tx' = [tx EXCEPT ![c] = None]
  /\ UNCHANGED <<audit_chain_head, sequence, verification>>

\* the caller commits: its events, its head and its checkpoints at once
Commit(c) ==
  /\ Holds(c)
  /\ audit_event' = audit_event \cup tx[c].events
  /\ audit_chain_head' = [audit_chain_head EXCEPT ![tx[c].stream] = tx[c].head]
  /\ audit_checkpoint' = audit_checkpoint \cup tx[c].checkpoints
  /\ tx' = [tx EXCEPT ![c] = None]
  /\ UNCHANGED <<sequence, verification>>

\* Mutant of Rollback: the update of the head survives the caller's transaction.
RollbackKeepingHead(c) ==
  /\ Open(c)
  /\ tx' = [tx EXCEPT ![c] = None]
  /\ audit_chain_head' = [audit_chain_head EXCEPT ![tx[c].stream] =
                            IF tx[c].locked THEN tx[c].head ELSE @]
  /\ UNCHANGED <<audit_event, audit_checkpoint, sequence, verification>>

\* any failure of the caller, or of its process
Rollback(c) ==
  /\ Open(c)
  /\ tx' = [tx EXCEPT ![c] = None]
  /\ UNCHANGED <<tables, sequence, verification>>
-----------------------------------------------------------------------------
\* verifyStream.

\* the first query: the events of the stream and its head, of one moment
ReadEvents(s) ==
  /\ reading = None
  /\ reading' = [stream |-> s, rows |-> EventsOf(s, audit_event), head |-> audit_chain_head[s]]
  /\ verified' = None
  /\ UNCHANGED <<tables, sequence, tx>>

\* e comes right before f among the rows of a stream
Precedes(e, f, rows) ==
  /\ e.sequence < f.sequence
  /\ \A g \in rows : g.sequence <= e.sequence \/ f.sequence <= g.sequence

\* what verifyStream demands of the rows and the head it read
Linked(rows, head) ==
  /\ \A f \in rows :
       /\ f.hash = compute_event_hash(f.sequence, f.payload, f.previous)
       /\ \/ \E e \in rows : Precedes(e, f, rows) /\ f.previous = e.hash
          \/ (\A e \in rows : f.sequence <= e.sequence) /\ f.previous = Genesis
  /\ \A f \in rows : (\A e \in rows : e.sequence <= f.sequence) =>
       head = [sequence |-> f.sequence, hash |-> f.hash]

\* a checkpoint that no event of its stream backs
Unbacked(k, rows) ==
  ~\E e \in rows : e.stream = k.stream /\ e.sequence = k.to /\ e.hash = k.hash

\* Mutant of ReadCheckpoints: checkpoints are compared with the rows read before.
ReadCheckpointsStale ==
  /\ reading # None
  /\ verified' = (/\ reading.rows # {} /\ Linked(reading.rows, reading.head)
                  /\ \A k \in audit_checkpoint :
                       k.stream = reading.stream => ~Unbacked(k, reading.rows))
  /\ reading' = None
  /\ UNCHANGED <<tables, sequence, tx>>

\* the second query, of a later moment, and the answer
ReadCheckpoints ==
  /\ reading # None
  /\ verified' = (/\ reading.rows # {} /\ Linked(reading.rows, reading.head)
                  /\ \A k \in audit_checkpoint :
                       k.stream = reading.stream => ~Unbacked(k, audit_event))
  /\ reading' = None
  /\ UNCHANGED <<tables, sequence, tx>>

Next ==
  \/ \E c \in Callers :
       \/ \E s \in Streams : Begin(c, s)
       \/ \E p \in Payloads : AppendEvent(c, p)
       \/ LockHead(c) \/ CreateCheckpoint(c) \/ Commit(c) \/ Rollback(c)
  \/ \E s \in Streams : ReadEvents(s)
  \/ ReadCheckpoints

Spec == Init /\ [][Next]_vars
-----------------------------------------------------------------------------
\* Properties.

\* At any moment the committed events of a stream are one chain in the order of their
\* numbers, and the head is its last event: concurrent appends never fork a chain,
\* and a rolled back one leaves a gap in the numbers only.
ChainIsIntact ==
  \A s \in Streams :
    /\ Linked(EventsOf(s, audit_event), audit_chain_head[s])
    /\ EventsOf(s, audit_event) = {} => audit_chain_head[s] = NoHead

\* A checkpoint names the whole stream up to an event of it, and a head has one
\* checkpoint however often it is asked for.
CheckpointsAreBacked ==
  \A k \in audit_checkpoint :
    /\ ~Unbacked(k, audit_event)
    /\ \A e \in EventsOf(k.stream, audit_event) : k.from <= e.sequence
    /\ \A l \in audit_checkpoint : k.stream = l.stream /\ k.to = l.to => k = l

\* What a checkpoint covers is sealed: no event is ever committed below it, as an
\* append that drew its number early and committed late would.
CheckpointsSeal ==
  [][\A k \in audit_checkpoint :
       LET Covered(rows) == {e \in EventsOf(k.stream, rows) : e.sequence <= k.to}
       IN Covered(audit_event') = Covered(audit_event)]_vars

\* verifyStream says no to an empty stream only, though its two queries see two
\* moments of a trail that others append to.
VerificationSucceeds ==
  [][reading # None /\ reading' = None /\ reading.rows # {} => verified']_vars

\* The payloads of a stream in the order of their numbers.
Log(s) ==
  LET rows == EventsOf(s, audit_event)
      Place(e) == Cardinality({f \in rows : f.sequence <= e.sequence})
  IN [i \in 1 .. Cardinality(rows) |-> (CHOOSE e \in rows : Place(e) = i).payload]

L == INSTANCE AuditLog WITH log <- [s \in Streams |-> Log(s)]

\* The tables implement the log: rows are only ever added at the end of a stream.
ImplementsLog == L!Spec
-----------------------------------------------------------------------------
\* The inductive invariant behind the properties: the committed rows of a stream are a
\* chain that ends in its head, and so are they together with what the holder of the
\* head has appended, above every number that is committed.

Chain(rows, head) ==
  /\ Linked(rows, head)
  /\ rows = {} => head = NoHead
  /\ rows # {} => \E e \in rows : e.sequence = head.sequence /\ e.hash = head.hash
  /\ \A e \in rows : e.sequence <= head.sequence
  /\ \A e, f \in rows : e.sequence = f.sequence => e = f

\* a checkpoint of a stream that consists of these rows
Covers(k, rows) ==
  /\ \E e \in rows : e.stream = k.stream /\ e.sequence = k.to /\ e.hash = k.hash
  /\ \E e \in rows : e.sequence = k.from
  /\ \A e \in rows : k.from <= e.sequence

StreamsInv ==
  \A s \in Streams :
    /\ Chain(EventsOf(s, audit_event), audit_chain_head[s])
    /\ audit_chain_head[s].sequence <= sequence

CheckpointsInv == \A k \in audit_checkpoint : Covers(k, EventsOf(k.stream, audit_event))

\* the rows of its stream as the transaction of c sees them
View(c) == EventsOf(tx[c].stream, audit_event) \cup tx[c].events

HolderInv(c) ==
  /\ tx[c].head.sequence <= sequence
  /\ Chain(View(c), tx[c].head)
  /\ \A e \in tx[c].events :
       e.stream = tx[c].stream /\ \A f \in EventsOf(tx[c].stream, audit_event) : f.sequence < e.sequence
  /\ \A k \in tx[c].checkpoints : k.stream = tx[c].stream /\ Covers(k, View(c))

LockInv == \A c, d \in Callers : Holds(c) /\ Holds(d) /\ tx[c].stream = tx[d].stream => c = d

TransactionsInv ==
  \A c \in Callers :
    /\ Holds(c) => HolderInv(c)
    /\ Open(c) /\ ~Holds(c) => tx[c].events = {} /\ tx[c].checkpoints = {}

ReadingInv == reading # None => Linked(reading.rows, reading.head)

IInv == /\ TypeOK /\ StreamsInv /\ CheckpointsInv /\ LockInv /\ TransactionsInv /\ ReadingInv
=============================================================================
