--------------------------- MODULE ElectionsProofs ---------------------------
(***************************************************************************)
(* Proofs about what administrators prepare an election from: Elections    *)
(* for any number of administrators, credentials, windows and snapshots,   *)
(* EligibilityRegistry for any registrars, references and batches, and the *)
(* tree of a snapshot for any depth and any commitments.                   *)
(***************************************************************************)
EXTENDS Elections, EligibilityRegistry, FiniteSetTheorems, SequenceTheorems, TLAPS

USE ElectionsAssumption DEF tables, handler

Labels == {"idle", "loading", "assessing", "listing", "building", "fetching", "freezing",
           "saving"}

HandlerTypes ==
  /\ pc \in [Admins -> Labels]
  /\ op \in [Admins -> Operations]
  /\ loaded \in [Admins -> Election]
  /\ listed \in [Admins -> SUBSET Credentials]
  /\ fetched \in [Admins -> Nat]

DataTypes ==
  /\ row \in Row /\ options \in Nat
  /\ snapshots \in Seq(Snapshot)
  /\ configurations \subseteq Configuration
  /\ manifests \subseteq Manifest
  /\ credential \in [Credentials -> {"ABSENT", "ACTIVE", "WITHDRAWN"}]
  /\ now \in Nat

DataInv == SnapshotsInv /\ ConfigurationsInv /\ FrozenConfigurationInForce

data == <<row, options, snapshots, configurations, manifests>>

LEMMA Parts == TypeOK <=> HandlerTypes /\ DataTypes
  BY DEF TypeOK, HandlerTypes, DataTypes, Labels

LEMMA Moves ==
  ASSUME NEW s \in L!Status, NEW t \in L!ALLOWED_ELECTION_TRANSITIONS[s]
  PROVE  /\ t \in L!Status
         /\ t = "READY" => s = "DRAFT"
         /\ t \in {"OPEN", "CLOSED", "COUNTING", "RESULTS_PUBLISHED"} =>
              s \in {"READY", "OPEN", "CLOSED", "COUNTING"}
         /\ t = "DRAFT" => s = "READY"
  BY Zenon DEF L!Status, L!ALLOWED_ELECTION_TRANSITIONS

LEMMA Targets ==
  /\ \A o \in Transitions : Target[o] \in L!Status
  /\ \A o \in Transitions : Target[o] = "READY" <=> o = "prepare"
  BY DEF Target, Transitions, L!Status

LEMMA NothingLoaded == NotLoaded \in Election
  <1>1. (CHOOSE w \in Windows : TRUE) \in Windows OBVIOUS
  <1> QED BY <1>1 DEF NotLoaded, Election, Row, L!Status, NoRef

LEMMA SnapshotTypes ==
  ASSUME TypeOK
  PROVE  /\ DOMAIN snapshots = 1 .. Len(snapshots) /\ Len(snapshots) \in Nat
         /\ \A i \in DOMAIN snapshots :
              /\ snapshots[i] \in Snapshot
              /\ snapshots[i].configurationVersion \in Nat /\ snapshots[i].rowVersion \in Nat
  <1>1. snapshots \in Seq(Snapshot) BY DEF TypeOK
  <1>2. \A i \in DOMAIN snapshots : snapshots[i] \in Snapshot BY <1>1
  <1> QED BY <1>1, <1>2 DEF Snapshot

LEMMA EndTypes == ASSUME TypeOK, NEW a \in Admins, End(a) PROVE HandlerTypes'
  BY NothingLoaded DEF TypeOK, HandlerTypes, End, Labels, Operations, Transitions

LEMMA DataUnchanged == ASSUME DataInv, UNCHANGED data PROVE DataInv'
  BY DEF DataInv, data, SnapshotsInv, ConfigurationsInv, FrozenConfigurationInForce, InForce,
         FrozenSnapshots

LEMMA InitInv == Init => IInv
  <1> SUFFICES ASSUME Init PROVE IInv OBVIOUS
  <1> USE DEF Init
  <1>1. HandlerTypes BY NothingLoaded DEF HandlerTypes, Labels, Operations, Transitions
  <1>2. DataTypes BY DEF DataTypes, Row, L!Status, NoRef
  <1>3. SnapshotsInv BY DEF SnapshotsInv, NoRef
  <1>4. ConfigurationsInv BY DEF ConfigurationsInv
  <1>5. FrozenConfigurationInForce BY DEF FrozenConfigurationInForce, InForce
  <1>6. \A a \in Admins : LoadedInv(a) /\ DecidedInv(a) BY DEF LoadedInv, DecidedInv
  <1> QED BY <1>1, <1>2, <1>3, <1>4, <1>5, <1>6, Parts DEF IInv

\* A handler that is left alone keeps what it knows while the row either stays with
\* its options or gets another version, and what the row refers to stays frozen.
LEMMA LeftAlone ==
  ASSUME IInv, NEW b \in Admins,
         pc'[b] = "idle" \/ (pc'[b] = pc[b] /\ op'[b] = op[b] /\ loaded'[b] = loaded[b]),
         row' \in Row,
         row'.rowVersion > row.rowVersion \/ UNCHANGED <<row, options>>,
         DOMAIN snapshots \subseteq DOMAIN snapshots',
         /\ UNCHANGED row /\ row.ref \in FrozenSnapshots(row.configurationVersion + 1)
         => row.ref \in FrozenSnapshots(row.configurationVersion + 1)'
  PROVE  LoadedInv(b)' /\ DecidedInv(b)'
  <1>1. CASE pc'[b] = "idle" BY <1>1 DEF LoadedInv, DecidedInv
  <1>2. CASE pc'[b] # "idle"
    <2>1. /\ pc'[b] = pc[b] /\ op'[b] = op[b] /\ loaded'[b] = loaded[b]
          /\ LoadedInv(b) /\ DecidedInv(b)
      BY <1>2 DEF IInv
    <2>2. loaded[b].row.rowVersion \in Nat /\ row.rowVersion \in Nat /\ row'.rowVersion \in Nat
      BY DEF IInv, TypeOK, Election, Row
    <2>3. LoadedInv(b)' BY <2>1, <2>2 DEF LoadedInv
    <2>4. loaded'[b].row.rowVersion = row'.rowVersion /\ pc[b] # "idle" => UNCHANGED row
      BY <2>1, <2>2 DEF LoadedInv
    <2>5. DecidedInv(b)' BY <1>2, <2>1, <2>2, <2>4 DEF DecidedInv, LoadedInv
    <2> QED BY <2>3, <2>5
  <1> QED BY <1>1, <1>2

\* A step of a handler that changes no row.
LEMMA Quiet ==
  ASSUME IInv, NEW a \in Admins, HandlerTypes', UNCHANGED <<row, tables, credential, now>>,
         \A b \in Admins \ {a} :
           pc'[b] = pc[b] /\ op'[b] = op[b] /\ loaded'[b] = loaded[b],
         LoadedInv(a)' /\ DecidedInv(a)'
  PROVE  IInv'
  <1>1. TypeOK' BY DEF HandlerTypes, IInv, TypeOK, Labels
  <1>2. DataInv' BY DataUnchanged DEF DataInv, IInv, data
  <1>3. ASSUME NEW b \in Admins \ {a} PROVE LoadedInv(b)' /\ DecidedInv(b)'
    BY LeftAlone DEF IInv, TypeOK, FrozenSnapshots
  <1> QED BY <1>1, <1>2, <1>3 DEF IInv, DataInv

LEMMA QuietEnd ==
  ASSUME IInv, NEW a \in Admins, End(a), UNCHANGED <<row, tables, credential, now>>
  PROVE  IInv'
  <1>1. HandlerTypes' BY EndTypes DEF IInv
  <1>2. pc'[a] = "idle" BY DEF End, IInv, TypeOK
  <1>3. LoadedInv(a)' /\ DecidedInv(a)' BY <1>2 DEF LoadedInv, DecidedInv
  <1>4. \A b \in Admins \ {a} : pc'[b] = pc[b] /\ op'[b] = op[b] /\ loaded'[b] = loaded[b]
    BY DEF End, IInv, TypeOK
  <1> QED BY <1>1, <1>3, <1>4, Quiet

\* A step of a handler to another label.
LEMMA QuietGoto ==
  ASSUME IInv, NEW a \in Admins, NEW label \in Labels, Goto(a, label),
         UNCHANGED <<row, tables, credential, now>>,
         HandlerTypes', \A b \in Admins \ {a} : op'[b] = op[b] /\ loaded'[b] = loaded[b],
         LoadedInv(a)' /\ DecidedInv(a)'
  PROVE  IInv'
  <1>1. \A b \in Admins \ {a} : pc'[b] = pc[b] BY DEF Goto, IInv, TypeOK
  <1> QED BY <1>1, Quiet

LEMMA RequestInv ==
  ASSUME IInv, NEW a \in Admins, NEW o \in Operations, Request(a, o) PROVE IInv'
  <1> USE DEF Request
  <1>1. HandlerTypes' BY DEF HandlerTypes, IInv, TypeOK, Goto, Labels, Election
  <1>2. \A b \in Admins \ {a} : op'[b] = op[b] /\ loaded'[b] = loaded[b] BY DEF IInv, TypeOK
  <1>3. pc'[a] = "loading" /\ loaded'[a].row = row /\ row' = row
    BY DEF IInv, TypeOK, Goto, Election
  <1>4. LoadedInv(a)' /\ DecidedInv(a)'
    BY <1>3 DEF LoadedInv, DecidedInv, IInv, TypeOK, Row
  <1> QED BY <1>1, <1>2, <1>4, QuietGoto DEF Labels

LEMMA LoadOptionsInv == ASSUME IInv, NEW a \in Admins, LoadOptions(a) PROVE IInv'
  <1> DEFINE e == [row |-> loaded[a].row, options |-> options]
  <1>1. CASE End(a) BY <1>1, QuietEnd DEF LoadOptions
  <1>2. ASSUME NEW label \in {"assessing", "listing", "fetching", "saving"}, Goto(a, label),
               loaded' = [loaded EXCEPT ![a] = e], UNCHANGED <<op, listed, fetched>>,
               label = "assessing" => op[a] \in {"prepare", "open"},
               label = "saving" =>
                 op[a] \in {"updateDraft", "reopenDraft", "close", "cancel"} /\ Decides(op[a], e)
        PROVE  IInv'
    <2>1. e \in Election BY DEF IInv, TypeOK, Election
    <2>2. HandlerTypes' BY <1>2, <2>1 DEF HandlerTypes, IInv, TypeOK, Goto, Labels
    <2>3. \A b \in Admins \ {a} : op'[b] = op[b] /\ loaded'[b] = loaded[b]
      BY <1>2 DEF IInv, TypeOK
    <2>4. /\ pc[a] = "loading" /\ pc'[a] = label /\ loaded'[a] = e /\ op'[a] = op[a]
          /\ UNCHANGED <<row, tables, credential, now>>
      BY <1>2 DEF IInv, TypeOK, Goto, LoadOptions
    <2>5. LoadedInv(a)' BY <2>4 DEF LoadedInv, IInv
    <2>6. ASSUME label = "saving"
          PROVE  /\ op[a] = "updateDraft" => e.row.status = "DRAFT"
                 /\ op[a] \in Transitions =>
                      Target[op[a]] \in L!ALLOWED_ELECTION_TRANSITIONS[e.row.status]
                 /\ op[a] # "prepare"
      BY <1>2, <2>6 DEF Decides, Transitions
    <2>7. DecidedInv(a)' BY <1>2, <2>4, <2>6 DEF DecidedInv
    <2> QED BY <1>2, <2>2, <2>3, <2>4, <2>5, <2>7, QuietGoto DEF Labels
  <1> HIDE DEF e
  <1> QED BY <1>1, <1>2 DEF LoadOptions, e

LEMMA AssessInv == ASSUME IInv, NEW a \in Admins, Assess(a) PROVE IInv'
  <1>1. CASE End(a) BY <1>1, QuietEnd DEF Assess
  <1>2. CASE /\ Prepared(loaded[a].row) /\ Decides(op[a], loaded[a])
             /\ Goto(a, "saving") /\ UNCHANGED <<op, loaded, listed, fetched>>
    <2>1. /\ pc[a] = "assessing" /\ pc'[a] = "saving" /\ op[a] \in {"prepare", "open"}
          /\ UNCHANGED <<row, tables, credential, now>>
      BY <1>2 DEF IInv, TypeOK, Goto, Assess, DecidedInv
    <2>2. HandlerTypes' BY <1>2 DEF HandlerTypes, IInv, TypeOK, Goto, Labels
    <2>3. LoadedInv(a)' BY <1>2, <2>1 DEF LoadedInv, IInv
    <2>4. CASE op[a] = "open"
      <3>1. Target["open"] = "OPEN" BY DEF Target, Transitions
      <3>2. "OPEN" \in L!ALLOWED_ELECTION_TRANSITIONS[loaded[a].row.status]
        BY <1>2, <2>4 DEF Decides, Transitions
      <3>3. DecidedInv(a)' BY <1>2, <2>1, <2>4, <3>1, <3>2 DEF DecidedInv
      <3> QED BY <1>2, <2>1, <2>2, <2>3, <3>3, QuietGoto DEF Labels
    <2>5. CASE op[a] = "prepare"
      <3>1. Target["prepare"] = "READY" BY DEF Target, Transitions
      <3>2. loaded[a].row.status = "DRAFT" BY <1>2, <2>5 DEF Decides, Transitions
      <3>3. "READY" \in L!ALLOWED_ELECTION_TRANSITIONS["DRAFT"]
        BY DEF L!ALLOWED_ELECTION_TRANSITIONS, L!Status
      <3>4. loaded[a].row.ref \in FrozenSnapshots(loaded[a].row.configurationVersion + 1)
        BY <1>2, <3>2 DEF Prepared
      <3>5. loaded[a].row.rowVersion = row.rowVersion => loaded[a].row = row
        BY <2>1 DEF LoadedInv, IInv
      <3>6. DecidedInv(a)'
        BY <1>2, <2>1, <2>5, <3>1, <3>2, <3>3, <3>4, <3>5 DEF DecidedInv, FrozenSnapshots
      <3> QED BY <1>2, <2>1, <2>2, <2>3, <3>6, QuietGoto DEF Labels
    <2> QED BY <2>1, <2>4, <2>5
  <1> QED BY <1>1, <1>2 DEF Assess

LEMMA ListActiveInv == ASSUME IInv, NEW a \in Admins, ListActive(a) PROVE IInv'
  <1>1. CASE End(a) BY <1>1, QuietEnd DEF ListActive
  <1>2. CASE /\ listed' = [listed EXCEPT ![a] = Active]
             /\ Goto(a, "building") /\ UNCHANGED <<op, loaded, fetched>>
    <2>1. /\ pc[a] = "listing" /\ pc'[a] = "building"
          /\ UNCHANGED <<row, tables, credential, now>>
      BY <1>2 DEF IInv, TypeOK, Goto, ListActive
    <2>2. HandlerTypes' BY <1>2 DEF HandlerTypes, IInv, TypeOK, Goto, Labels, Active
    <2>3. LoadedInv(a)' /\ DecidedInv(a)' BY <1>2, <2>1 DEF LoadedInv, DecidedInv, IInv
    <2> QED BY <1>2, <2>1, <2>2, <2>3, QuietGoto DEF Labels
  <1> QED BY <1>1, <1>2 DEF ListActive

LEMMA FetchSnapshotInv == ASSUME IInv, NEW a \in Admins, FetchSnapshot(a) PROVE IInv'
  <1>1. CASE End(a) BY <1>1, QuietEnd DEF FetchSnapshot
  <1>2. ASSUME NEW i \in DOMAIN snapshots, loaded[a].row.ref = i, Goto(a, "freezing"),
               fetched' = [fetched EXCEPT ![a] = snapshots[i].rowVersion],
               UNCHANGED <<op, loaded, listed>>
        PROVE  IInv'
    <2>1. /\ pc[a] = "fetching" /\ pc'[a] = "freezing"
          /\ UNCHANGED <<row, tables, credential, now>>
      BY <1>2 DEF IInv, TypeOK, Goto, FetchSnapshot
    <2>2. snapshots[i].rowVersion \in Nat BY SnapshotTypes DEF IInv
    <2>3. HandlerTypes' BY <1>2, <2>2 DEF HandlerTypes, IInv, TypeOK, Goto, Labels
    <2>4. LoadedInv(a)' /\ DecidedInv(a)' BY <1>2, <2>1 DEF LoadedInv, DecidedInv, IInv
    <2> QED BY <1>2, <2>1, <2>3, <2>4, QuietGoto DEF Labels
  <1> QED BY <1>1, <1>2 DEF FetchSnapshot
-----------------------------------------------------------------------------
\* Steps that change a row.

LEMMA Committed ==
  ASSUME IInv, NEW a \in Admins, End(a), DataTypes', DataInv',
         row'.rowVersion > row.rowVersion \/ UNCHANGED <<row, options>>,
         DOMAIN snapshots \subseteq DOMAIN snapshots',
         /\ UNCHANGED row /\ row.ref \in FrozenSnapshots(row.configurationVersion + 1)
         => row.ref \in FrozenSnapshots(row.configurationVersion + 1)'
  PROVE  IInv'
  <1>1. HandlerTypes' BY EndTypes DEF IInv
  <1>2. TypeOK' BY <1>1 DEF HandlerTypes, DataTypes, TypeOK, Labels
  <1>3. \A b \in Admins :
          pc'[b] = "idle" \/ (pc'[b] = pc[b] /\ op'[b] = op[b] /\ loaded'[b] = loaded[b])
    BY DEF End, IInv, TypeOK
  <1>4. \A b \in Admins : LoadedInv(b)' /\ DecidedInv(b)'
    BY <1>3, LeftAlone DEF DataTypes
  <1> QED BY <1>2, <1>4 DEF IInv, DataInv

LEMMA CommittedRow ==
  ASSUME IInv, NEW a \in Admins, End(a), DataTypes', DataInv', row'.rowVersion > row.rowVersion,
         DOMAIN snapshots \subseteq DOMAIN snapshots'
  PROVE  IInv'
  <1>1. row.rowVersion \in Nat BY DEF IInv, TypeOK, Row
  <1>2. row' # row BY <1>1
  <1> QED BY <1>2, Committed

LEMMA LoadedIsThere ==
  ASSUME IInv, NEW a \in Admins, pc[a] \in {"saving", "building"},
         loaded[a].row.rowVersion = row.rowVersion
  PROVE  loaded[a] = [row |-> row, options |-> options]
  <1>1. loaded[a].row = row /\ loaded[a].options = options BY DEF IInv, LoadedInv
  <1>2. loaded[a] \in Election BY DEF IInv, TypeOK
  <1> QED BY <1>1, <1>2 DEF Election

LEMMA Bumped ==
  ASSUME NEW r \in Row
  PROVE  /\ Bump(r) \in Row /\ Bump(r).rowVersion = r.rowVersion + 1
         /\ Bump(r).rowVersion > r.rowVersion
         /\ Bump(r).status = r.status /\ Bump(r).ref = r.ref /\ Bump(r).window = r.window
         /\ Bump(r).configurationVersion = r.configurationVersion
  BY DEF Bump, Row

LEMMA Referring ==
  ASSUME NEW r \in Row, NEW k \in Nat
  PROVE  LET q == [r EXCEPT !.ref = k] IN
         /\ q \in Row /\ q.status = r.status /\ q.ref = k /\ q.rowVersion = r.rowVersion
         /\ q.configurationVersion = r.configurationVersion
  BY DEF Row

LEMMA SaveDraftChangesInv == ASSUME IInv, NEW a \in Admins, SaveDraftChanges(a) PROVE IInv'
  <1>1. /\ End(a) /\ pc[a] = "saving" /\ op[a] = "updateDraft"
        /\ options' \in OptionLists
        /\ UNCHANGED <<snapshots, configurations, manifests, credential, now>>
    BY DEF SaveDraftChanges
  <1>2. loaded[a].row = row /\ row.status = "DRAFT"
    BY <1>1, LoadedIsThere DEF SaveDraftChanges, Unchanged, IInv, DecidedInv
  <1>3. row \in Row BY DEF IInv, TypeOK
  <1>4. PICK w \in Windows : row' = Bump([row EXCEPT !.window = w, !.ref = row.ref])
    BY <1>2 DEF SaveDraftChanges
  <1> DEFINE r == [row EXCEPT !.window = w, !.ref = row.ref]
  <1>5. r \in Row /\ r.status = "DRAFT" /\ r.ref = row.ref /\ r.rowVersion = row.rowVersion
        /\ r.configurationVersion = row.configurationVersion
    BY <1>2, <1>3 DEF Row
  <1>6. /\ row' \in Row /\ row'.rowVersion > row.rowVersion /\ row'.status = "DRAFT"
        /\ row'.ref = row.ref /\ row'.configurationVersion = row.configurationVersion
    BY <1>4, <1>5, Bumped
  <1>7. DataTypes' BY <1>1, <1>6 DEF DataTypes, IInv, TypeOK
  <1>8. SnapshotsInv' BY <1>1, <1>2, <1>6 DEF SnapshotsInv, IInv
  <1>9. ConfigurationsInv' BY <1>1, <1>6 DEF ConfigurationsInv, IInv, FrozenSnapshots
  <1>10. FrozenConfigurationInForce' BY <1>6 DEF FrozenConfigurationInForce, InForce
  <1> QED BY <1>1, <1>6, <1>7, <1>8, <1>9, <1>10, CommittedRow DEF DataInv

\* A transition that freezes nothing.
LEMMA MovesOn ==
  ASSUME IInv, NEW s \in L!ALLOWED_ELECTION_TRANSITIONS[row.status], s # "READY",
         row' = Bump([row EXCEPT !.status = s]), UNCHANGED <<tables, credential, now>>
  PROVE  DataTypes' /\ DataInv' /\ row'.rowVersion > row.rowVersion
  <1>1. row \in Row /\ row.status \in L!Status BY DEF IInv, TypeOK, Row
  <1>2. s \in L!Status BY <1>1, Moves
  <1> DEFINE r == [row EXCEPT !.status = s]
  <1>3. /\ r \in Row /\ r.status = s /\ r.ref = row.ref /\ r.rowVersion = row.rowVersion
        /\ r.configurationVersion = row.configurationVersion /\ r.window = row.window
    BY <1>1, <1>2 DEF Row
  <1>4. /\ row' \in Row /\ row'.rowVersion > row.rowVersion /\ row'.status = s
        /\ row'.ref = row.ref /\ row'.configurationVersion = row.configurationVersion
        /\ row'.window = row.window
    BY <1>3, Bumped
  <1>5. DataTypes' BY <1>4 DEF DataTypes, IInv, TypeOK
  <1>6. InForce' => InForce
    <2>1. s \in {"OPEN", "CLOSED", "COUNTING", "RESULTS_PUBLISHED"} =>
            row.status \in {"READY", "OPEN", "CLOSED", "COUNTING"}
      BY <1>1, Moves
    <2> QED BY <1>4, <2>1 DEF InForce
  <1>7. FrozenConfigurationInForce'
    BY <1>4, <1>6 DEF FrozenConfigurationInForce, FrozenSnapshots, IInv
  <1>8. s = "DRAFT" => row.ref \in FrozenSnapshots(row.configurationVersion)
    <2>1. s = "DRAFT" => row.status = "READY" BY <1>1, Moves
    <2> QED BY <2>1 DEF IInv, FrozenConfigurationInForce, InForce
  <1>9. SnapshotsInv' BY <1>4, <1>8 DEF SnapshotsInv, IInv, FrozenSnapshots
  <1>10. ConfigurationsInv' BY <1>4 DEF ConfigurationsInv, IInv, FrozenSnapshots
  <1> QED BY <1>4, <1>5, <1>7, <1>9, <1>10 DEF DataInv

\* prepare: what becomes the configuration in force is what the draft says.
LEMMA Prepares ==
  ASSUME IInv, row.status = "DRAFT", NEW v, v = row.configurationVersion + 1,
         row.ref \in FrozenSnapshots(v), NEW i \in FrozenSnapshots(v),
         row' = Bump([row EXCEPT !.status = "READY", !.configurationVersion = v]),
         configurations' = configurations \cup
           {[version |-> v, window |-> row.window, options |-> options, ref |-> row.ref]},
         manifests' = manifests \cup
           {[configurationVersion |-> v, window |-> row.window, options |-> options,
             merkleRoot |-> snapshots[i].members]},
         UNCHANGED <<options, snapshots, credential, now>>
  PROVE  DataTypes' /\ DataInv' /\ row'.rowVersion > row.rowVersion
  <1>1. /\ row \in Row /\ row.configurationVersion \in Nat /\ v \in Nat /\ row.window \in Windows
        /\ row.ref \in Nat /\ options \in Nat
    BY DEF IInv, TypeOK, Row
  <1> DEFINE r == [row EXCEPT !.status = "READY", !.configurationVersion = v]
  <1>2. /\ r \in Row /\ r.status = "READY" /\ r.ref = row.ref /\ r.rowVersion = row.rowVersion
        /\ r.configurationVersion = v /\ r.window = row.window
    BY <1>1 DEF Row, L!Status
  <1>3. /\ row' \in Row /\ row'.rowVersion > row.rowVersion /\ row'.status = "READY"
        /\ row'.ref = row.ref /\ row'.configurationVersion = v /\ row'.window = row.window
    BY <1>2, Bumped
  <1>4. FrozenSnapshots(v) = {row.ref} BY DEF FrozenSnapshots, IInv, SnapshotsInv
  <1>5. i = row.ref BY <1>4
  <1>6. \A u : FrozenSnapshots(u)' = FrozenSnapshots(u) BY DEF FrozenSnapshots
  <1>7. snapshots[i].members \in SUBSET Credentials
    BY SnapshotTypes DEF IInv, FrozenSnapshots, Snapshot
  <1>8. DataTypes'
    <2>1. configurations' \subseteq Configuration BY <1>1 DEF IInv, TypeOK, Configuration
    <2>2. manifests' \subseteq Manifest BY <1>1, <1>7 DEF IInv, TypeOK, Manifest
    <2> QED BY <1>3, <2>1, <2>2 DEF DataTypes, IInv, TypeOK
  <1>9. SnapshotsInv' BY <1>3 DEF SnapshotsInv, IInv
  <1>10. ConfigurationsInv'
    <2>1. \A c \in configurations : c.version \in Nat /\ c.version < v
      BY <1>1 DEF IInv, TypeOK, Configuration, ConfigurationsInv
    <2>2. \A m \in manifests : m.configurationVersion \in Nat /\ m.configurationVersion < v
      BY <1>1 DEF IInv, TypeOK, Manifest, ConfigurationsInv
    <2>3. \A c \in configurations : c.ref \in FrozenSnapshots(c.version)
      BY DEF IInv, ConfigurationsInv
    <2> QED BY <1>1, <1>3, <1>6, <2>1, <2>2, <2>3 DEF ConfigurationsInv
  <1>11. FrozenConfigurationInForce'
    <2>1. \A c \in configurations : c.version # v
      BY <1>1 DEF IInv, TypeOK, Configuration, ConfigurationsInv
    <2>2. \A m \in manifests : m.configurationVersion # v
      BY <1>1 DEF IInv, TypeOK, Manifest, ConfigurationsInv
    <2>3. {c \in configurations' : c.version = v} =
            {[version |-> v, window |-> row.window, options |-> options, ref |-> row.ref]}
      BY <2>1
    <2>4. {m \in manifests' : m.configurationVersion = v} =
            {[configurationVersion |-> v, window |-> row.window, options |-> options,
              merkleRoot |-> snapshots[i].members]}
      BY <2>2
    <2> QED BY <1>3, <1>4, <1>5, <1>6, <2>3, <2>4 DEF FrozenConfigurationInForce
  <1> QED BY <1>3, <1>8, <1>9, <1>10, <1>11 DEF DataInv

LEMMA TransitionStateData ==
  ASSUME IInv, NEW a \in Admins, TransitionState(a)
  PROVE  /\ DataTypes' /\ DataInv' /\ row'.rowVersion > row.rowVersion
         /\ row'.status \in L!ALLOWED_ELECTION_TRANSITIONS[row.status]
         /\ row'.configurationVersion =
              IF row'.status = "READY" THEN row.configurationVersion + 1
                                       ELSE row.configurationVersion
  <1> DEFINE s == Target[op[a]]
             v == IF s = "READY" THEN loaded[a].row.configurationVersion + 1
                                 ELSE loaded[a].row.configurationVersion
  <1>1. /\ pc[a] = "saving" /\ op[a] \in Transitions /\ Unchanged(a)
        /\ row' = Bump([row EXCEPT !.status = s, !.configurationVersion = v])
        /\ UNCHANGED <<options, snapshots, credential, now>>
    BY DEF TransitionState
  <1>2. loaded[a] = [row |-> row, options |-> options] BY <1>1, LoadedIsThere DEF Unchanged
  <1>3. s \in L!ALLOWED_ELECTION_TRANSITIONS[row.status]
    BY <1>1, <1>2 DEF IInv, DecidedInv
  <1>4. /\ row \in Row /\ row.status \in L!Status /\ row.configurationVersion \in Nat
        /\ s \in L!Status
    BY <1>1, Targets DEF IInv, TypeOK, Row
  <1>5. /\ row'.status = s /\ row'.configurationVersion = v
        /\ v = row.configurationVersion =>
             [row EXCEPT !.status = s, !.configurationVersion = v] = [row EXCEPT !.status = s]
    <2>1. v \in Nat BY <1>2, <1>4
    <2> HIDE DEF s, v
    <2> DEFINE q == [row EXCEPT !.status = s, !.configurationVersion = v]
    <2>2. /\ q \in Row /\ q.status = s /\ q.configurationVersion = v
          /\ v = row.configurationVersion => q = [row EXCEPT !.status = s]
      BY <1>4, <2>1 DEF Row
    <2> QED BY <1>1, <2>2, Bumped
  <1>6. CASE s = "READY"
    <2>1. op[a] = "prepare" BY <1>1, <1>6, Targets
    <2>2. row.status = "DRAFT" BY <1>3, <1>4, <1>6, Moves
    <2>3. row.ref \in FrozenSnapshots(row.configurationVersion + 1)
      BY <1>1, <1>2, <2>1 DEF IInv, DecidedInv
    <2>4. PICK i \in FrozenSnapshots(row.configurationVersion + 1) :
            /\ configurations' = configurations \cup
                 {[version |-> v, window |-> row.window, options |-> options, ref |-> row.ref]}
            /\ manifests' = manifests \cup
                 {[configurationVersion |-> v, window |-> row.window, options |-> options,
                   merkleRoot |-> snapshots[i].members]}
      BY <1>2, <1>6 DEF TransitionState
    <2>5. v = row.configurationVersion + 1 BY <1>2, <1>6
    <2> HIDE DEF s, v
    <2>6. DataTypes' /\ DataInv' /\ row'.rowVersion > row.rowVersion
      BY <1>1, <1>6, <2>2, <2>3, <2>4, <2>5, Prepares
    <2> QED BY <1>3, <1>5, <1>6, <2>5, <2>6
  <1>7. CASE s # "READY"
    <2>1. UNCHANGED <<configurations, manifests>> BY <1>7 DEF TransitionState
    <2>2. v = row.configurationVersion BY <1>2, <1>7
    <2> HIDE DEF s, v
    <2>3. DataTypes' /\ DataInv' /\ row'.rowVersion > row.rowVersion
      BY <1>1, <1>3, <1>5, <1>7, <2>1, <2>2, MovesOn
    <2> QED BY <1>3, <1>5, <1>7, <2>2, <2>3
  <1> QED BY <1>6, <1>7

LEMMA TransitionStateInv == ASSUME IInv, NEW a \in Admins, TransitionState(a) PROVE IInv'
  <1>1. End(a) /\ UNCHANGED snapshots BY DEF TransitionState
  <1> QED BY <1>1, TransitionStateData, CommittedRow

LEMMA LockedTransitionInv ==
  ASSUME IInv, NEW from, NEW to, <<from, to>> \in {<<"CLOSED", "COUNTING">>,
           <<"COUNTING", "RESULTS_PUBLISHED">>}, LockedTransition(from, to)
  PROVE  IInv'
  <1>1. to \in L!ALLOWED_ELECTION_TRANSITIONS[row.status] /\ to # "READY"
    BY DEF LockedTransition, L!ALLOWED_ELECTION_TRANSITIONS, L!Status
  <1>2. DataTypes' /\ DataInv' /\ row'.rowVersion > row.rowVersion
    BY <1>1, MovesOn DEF LockedTransition
  <1>3. row.rowVersion \in Nat BY DEF IInv, TypeOK, Row
  <1>4. row' # row /\ row' \in Row BY <1>2, <1>3 DEF DataTypes
  <1>5. TypeOK' BY <1>2 DEF LockedTransition, DataTypes, IInv, TypeOK
  <1>6. UNCHANGED <<handler, snapshots>> BY DEF LockedTransition
  <1>7. \A b \in Admins : LoadedInv(b)' /\ DecidedInv(b)' BY <1>2, <1>4, <1>6, LeftAlone
  <1> QED BY <1>2, <1>5, <1>7 DEF IInv, DataInv

LEMMA NewSnapshotType ==
  ASSUME TypeOK, NEW v \in Nat, NEW members \in SUBSET Credentials
  PROVE  /\ NewSnapshot(v, members) \in Snapshot
         /\ NewSnapshot(v, members).status = "BUILDING"
         /\ NewSnapshot(v, members).configurationVersion = v
  <1> DEFINE mine == {j \in DOMAIN snapshots : snapshots[j].configurationVersion = v}
             versions == {snapshots[i].version : i \in mine}
             version == [i \in mine |-> snapshots[i].version]
  <1>1. IsFiniteSet(DOMAIN snapshots) BY SnapshotTypes, FS_Interval
  <1>2. IsFiniteSet(mine) BY <1>1, FS_Subset
  <1>3. version \in Surjection(mine, versions) BY DEF Surjection
  <1>4. IsFiniteSet(versions) BY <1>2, <1>3, FS_Surjection
  <1>5. Cardinality(versions) + 1 \in Nat BY <1>4, FS_CardinalityType
  <1>6. NewSnapshot(v, members) =
          [configurationVersion |-> v, version |-> Cardinality(versions) + 1,
           status |-> "BUILDING", rowVersion |-> 0, members |-> members]
    BY DEF NewSnapshot
  <1> HIDE DEF versions
  <1> QED BY <1>5, <1>6 DEF Snapshot

LEMMA Altered ==
  ASSUME NEW x \in Snapshot, NEW t \in {"FROZEN", "SUPERSEDED"}
  PROVE  LET y == [x EXCEPT !.status = t, !.rowVersion = @ + 1] IN
         y \in Snapshot /\ y.status = t /\ y.configurationVersion = x.configurationVersion
  <1>1. x.rowVersion + 1 \in Nat BY DEF Snapshot
  <1> DEFINE y == [x EXCEPT !.status = t, !.rowVersion = x.rowVersion + 1]
  <1>2. y \in Snapshot BY <1>1 DEF Snapshot
  <1>3. y.status = t /\ y.configurationVersion = x.configurationVersion BY DEF Snapshot
  <1> QED BY <1>2, <1>3

LEMMA Superseded ==
  ASSUME TypeOK, NEW i \in DOMAIN snapshots, NEW statuses
  PROVE  /\ Supersede(i, statuses) \in Snapshot
         /\ Supersede(i, statuses).configurationVersion = snapshots[i].configurationVersion
         /\ Supersede(i, statuses).status \in {snapshots[i].status, "SUPERSEDED"}
         /\ snapshots[i].status \notin statuses => Supersede(i, statuses) = snapshots[i]
         /\ snapshots[i].status \in statuses => Supersede(i, statuses).status = "SUPERSEDED"
  <1>1. snapshots[i] \in Snapshot BY SnapshotTypes
  <1>2. CASE snapshots[i].status \in statuses BY <1>1, <1>2, Altered DEF Supersede
  <1>3. CASE snapshots[i].status \notin statuses BY <1>1, <1>3 DEF Supersede
  <1> QED BY <1>2, <1>3

LEMMA CreateForElectionInv == ASSUME IInv, NEW a \in Admins, CreateForElection(a) PROVE IInv'
  <1> DEFINE v == row.configurationVersion + 1
             new == NewSnapshot(v, listed[a])
             older == [i \in DOMAIN snapshots |->
                         IF snapshots[i].configurationVersion = v THEN Supersede(i, {"BUILDING"})
                                                                  ELSE snapshots[i]]
             n == Len(snapshots)
  <1>1. CASE UNCHANGED <<row, snapshots>> /\ End(a)
    BY <1>1, QuietEnd DEF CreateForElection
  <1>2. CASE /\ pc[a] = "building" /\ row.status = "DRAFT"
             /\ loaded[a].row.configurationVersion + 1 = v
             /\ snapshots' = Append(older, new) /\ row' = Bump([row EXCEPT !.ref = n + 1])
             /\ End(a)
    <2>0. /\ UNCHANGED <<options, configurations, manifests, credential, now>>
          /\ TypeOK
      BY DEF CreateForElection, IInv
    <2>1. /\ row \in Row /\ row.configurationVersion \in Nat /\ v \in Nat
          /\ listed[a] \in SUBSET Credentials /\ n \in Nat /\ DOMAIN snapshots = 1 .. n
      BY <2>0, SnapshotTypes DEF TypeOK, Row
    <2>2. new \in Snapshot /\ new.status = "BUILDING" /\ new.configurationVersion = v
      BY <2>0, <2>1, NewSnapshotType
    <2>3. \A i \in 1 .. n :
            /\ older[i] \in Snapshot
            /\ older[i].configurationVersion = snapshots[i].configurationVersion
            /\ older[i].status \in {snapshots[i].status, "SUPERSEDED"}
            /\ snapshots[i].status = "FROZEN" => older[i] = snapshots[i]
      BY <2>0, <2>1, SnapshotTypes, Superseded
    <2> HIDE DEF new
    <2>4. older \in Seq(Snapshot) /\ Len(older) = n
      <3>1. older \in [1 .. n -> Snapshot] BY <2>1, <2>3
      <3> HIDE DEF older
      <3> QED BY <2>1, <3>1
    <2> HIDE DEF older
    <2>5. /\ snapshots' \in Seq(Snapshot) /\ DOMAIN snapshots' = 1 .. (n + 1)
          /\ Len(snapshots') = n + 1 /\ snapshots'[n + 1] = new
          /\ \A i \in 1 .. n : snapshots'[i] = older[i]
      BY <1>2, <2>1, <2>2, <2>4
    <2>6. /\ row' \in Row /\ row'.rowVersion > row.rowVersion /\ row'.status = "DRAFT"
          /\ row'.ref = n + 1 /\ row'.configurationVersion = row.configurationVersion
      <3>1. n + 1 \in Nat BY <2>1
      <3> DEFINE q == [row EXCEPT !.ref = n + 1]
      <3>2. /\ q \in Row /\ q.status = row.status /\ q.ref = n + 1
            /\ q.rowVersion = row.rowVersion
            /\ q.configurationVersion = row.configurationVersion
        BY <2>1, <3>1, Referring
      <3> HIDE DEF n
      <3> QED BY <1>2, <3>2, Bumped
    <2>7. DataTypes' BY <2>0, <2>5, <2>6 DEF DataTypes, TypeOK
    <2>8. SnapshotsInv' BY <2>1, <2>2, <2>3, <2>5, <2>6 DEF SnapshotsInv, IInv
    <2>9. ConfigurationsInv'
      <3>1. \A u : FrozenSnapshots(u) \subseteq FrozenSnapshots(u)'
        BY <2>1, <2>3, <2>5 DEF FrozenSnapshots
      <3> QED BY <2>0, <2>6, <3>1 DEF ConfigurationsInv, IInv
    <2>10. FrozenConfigurationInForce' BY <2>6 DEF FrozenConfigurationInForce, InForce
    <2>11. DOMAIN snapshots \subseteq DOMAIN snapshots' BY <2>1, <2>5
    <2>12. DataInv' BY <2>8, <2>9, <2>10 DEF DataInv
    <2> QED BY <1>2, <2>6, <2>7, <2>11, <2>12, CommittedRow
  <1> QED BY <1>1, <1>2 DEF CreateForElection

LEMMA FreezeSnapshotInv == ASSUME IInv, NEW a \in Admins, FreezeSnapshot(a) PROVE IInv'
  <1> DEFINE i == loaded[a].row.ref
             frozen == [snapshots[i] EXCEPT !.status = "FROZEN", !.rowVersion = @ + 1]
  <1>1. CASE UNCHANGED snapshots
    BY <1>1, QuietEnd DEF FreezeSnapshot
  <1>2. CASE /\ row.status = "DRAFT" /\ row.ref = i /\ snapshots[i].status = "BUILDING"
             /\ snapshots' = [j \in DOMAIN snapshots |->
                  IF j = i THEN frozen
                  ELSE IF snapshots[j].configurationVersion = snapshots[i].configurationVersion
                  THEN Supersede(j, {"FROZEN"}) ELSE snapshots[j]]
    <2>0. /\ UNCHANGED <<row, options, configurations, manifests, credential, now>>
          /\ End(a) /\ pc[a] = "freezing" /\ TypeOK
      BY DEF FreezeSnapshot, IInv
    <2>1. i \in DOMAIN snapshots BY <2>0 DEF IInv, DecidedInv
    <2>2. /\ DOMAIN snapshots = 1 .. Len(snapshots) /\ Len(snapshots) \in Nat
          /\ snapshots[i] \in Snapshot
      BY <2>0, <2>1, SnapshotTypes
    <2>3. frozen \in Snapshot /\ frozen.status = "FROZEN"
          /\ frozen.configurationVersion = snapshots[i].configurationVersion
      BY <2>2, Altered
    <2>4. snapshots[i].configurationVersion = row.configurationVersion + 1
      BY <1>2, <2>1 DEF IInv, SnapshotsInv
    <2>5. \A j \in DOMAIN snapshots :
            /\ snapshots'[j] \in Snapshot
            /\ snapshots'[j].configurationVersion = snapshots[j].configurationVersion
            /\ snapshots'[j].status = "FROZEN" =>
                 \/ j = i
                 \/ snapshots[j].status = "FROZEN" /\
                    snapshots[j].configurationVersion # row.configurationVersion + 1
            /\ snapshots[j].status = "FROZEN" /\
               snapshots[j].configurationVersion # row.configurationVersion + 1 =>
                 snapshots'[j] = snapshots[j]
      BY <1>2, <2>0, <2>3, <2>4, SnapshotTypes, Superseded
    <2>6. snapshots'[i].status = "FROZEN" BY <1>2, <2>1, <2>3
    <2>7. /\ snapshots' \in Seq(Snapshot) /\ DOMAIN snapshots' = DOMAIN snapshots
          /\ Len(snapshots') = Len(snapshots)
      <3>1. DOMAIN snapshots' = 1 .. Len(snapshots) BY <1>2, <2>2
      <3>2. snapshots' \in [1 .. Len(snapshots) -> Snapshot] BY <1>2, <2>2, <2>5
      <3> QED BY <2>2, <3>1, <3>2
    <2>8. DataTypes' BY <2>0, <2>7 DEF DataTypes, TypeOK
    <2> HIDE DEF i, frozen
    <2>9. SnapshotsInv'
      BY <1>2, <2>0, <2>4, <2>5, <2>6, <2>7 DEF SnapshotsInv, IInv
    <2>10. ConfigurationsInv'
      <3>1. row.configurationVersion \in Nat BY <2>0 DEF TypeOK, Row
      <3>2. \A u \in Nat : u <= row.configurationVersion =>
              FrozenSnapshots(u) \subseteq FrozenSnapshots(u)'
        BY <2>5, <2>7, <3>1 DEF FrozenSnapshots
      <3>3. \A c \in configurations : c.version \in Nat BY <2>0 DEF TypeOK, Configuration
      <3> QED BY <2>0, <3>2, <3>3 DEF ConfigurationsInv, IInv
    <2>11. FrozenConfigurationInForce'
      BY <1>2, <2>0 DEF FrozenConfigurationInForce, InForce
    <2>12. row.ref \notin FrozenSnapshots(row.configurationVersion + 1)
      BY <1>2 DEF FrozenSnapshots
    <2> QED BY <2>0, <2>7, <2>8, <2>9, <2>10, <2>11, <2>12, Committed DEF DataInv
  <1> QED BY <1>1, <1>2 DEF FreezeSnapshot

LEMMA NextInv == ASSUME IInv, [Next]_vars PROVE IInv'
  <1>1. ASSUME UNCHANGED <<row, tables, handler>>, DataTypes' PROVE IInv'
    <2>1. TypeOK' BY <1>1 DEF DataTypes, IInv, TypeOK
    <2>2. DataInv' BY <1>1, DataUnchanged DEF data, DataInv, IInv
    <2>3. \A b \in Admins : LoadedInv(b)' /\ DecidedInv(b)'
      BY <1>1 DEF IInv, LoadedInv, DecidedInv, FrozenSnapshots
    <2> QED BY <2>1, <2>2, <2>3 DEF IInv, DataInv
  <1>2. CASE UNCHANGED vars BY <1>1, <1>2 DEF vars, DataTypes, IInv, TypeOK
  <1>3. CASE Tick BY <1>1, <1>3 DEF Tick, DataTypes, IInv, TypeOK
  <1>4. ASSUME NEW c \in Credentials, Register(c) \/ Withdraw(c) PROVE IInv'
    BY <1>1, <1>4 DEF Register, Withdraw, DataTypes, IInv, TypeOK
  <1>5. ASSUME NEW a \in Admins, Conflict(a) \/ Abort(a) PROVE IInv'
    BY <1>5, QuietEnd DEF Conflict, Abort
  <1>6. ASSUME NEW a \in Admins, Handle(a) PROVE IInv'
    BY <1>5, <1>6, LoadOptionsInv, AssessInv, SaveDraftChangesInv, TransitionStateInv,
       ListActiveInv, CreateForElectionInv, FetchSnapshotInv, FreezeSnapshotInv DEF Handle
  <1> QED BY <1>2, <1>3, <1>4, <1>6, RequestInv, LockedTransitionInv DEF Next
-----------------------------------------------------------------------------
\* The inductive invariant holds in every reachable state.
THEOREM Invariance == Spec => []IInv
  BY InitInv, NextInv, PTL DEF Spec

\* Every variable keeps its type.
THEOREM TypeCorrect == Spec => []TypeOK
  <1>1. IInv => TypeOK BY DEF IInv
  <1> QED BY <1>1, Invariance, PTL

\* From READY on the election is what was frozen, however many administrators edit,
\* snapshot, freeze, prepare and reopen it at once.
THEOREM ConfigurationInForce == Spec => []FrozenConfigurationInForce
  <1>1. IInv => FrozenConfigurationInForce BY DEF IInv
  <1> QED BY <1>1, Invariance, PTL

\* What a step of a handler, or of nobody's, leaves alone.
LEMMA Steady ==
  ASSUME [Next]_vars,
         \A a \in Admins : ~SaveDraftChanges(a) /\ ~TransitionState(a) /\ ~CreateForElection(a)
                           /\ ~FreezeSnapshot(a),
         ~LockedTransition("CLOSED", "COUNTING"),
         ~LockedTransition("COUNTING", "RESULTS_PUBLISHED")
  PROVE  UNCHANGED <<row, tables>>
  <1>1. CASE UNCHANGED vars BY <1>1 DEF vars
  <1>2. CASE Tick BY <1>2 DEF Tick
  <1>3. ASSUME NEW c \in Credentials, Register(c) \/ Withdraw(c) PROVE UNCHANGED <<row, tables>>
    BY <1>3 DEF Register, Withdraw
  <1>4. ASSUME NEW a \in Admins, Handle(a) PROVE UNCHANGED <<row, tables>>
    BY <1>4 DEF Handle, LoadOptions, Assess, Conflict, ListActive, FetchSnapshot, Abort
  <1>5. ASSUME NEW a \in Admins, NEW o \in Operations, Request(a, o)
        PROVE  UNCHANGED <<row, tables>>
    BY <1>5 DEF Request
  <1> QED BY <1>1, <1>2, <1>3, <1>4, <1>5 DEF Next

\* What was frozen once never changes, and what is frozen next is a later version.
THEOREM FrozenConfigurationsStay == Spec => FrozenForGood
  <1> DEFINE Kept ==
        /\ configurations \subseteq configurations' /\ manifests \subseteq manifests'
        /\ \A c \in configurations :
             /\ snapshots'[c.ref] = snapshots[c.ref] /\ snapshots[c.ref].status = "FROZEN"
        /\ \A c \in configurations' \ configurations, d \in configurations :
             c.version > d.version
  <1>1. ASSUME IInv, [Next]_vars PROVE Kept
    <2>1. \A c \in configurations :
            /\ c.ref \in DOMAIN snapshots /\ snapshots[c.ref].status = "FROZEN"
            /\ snapshots[c.ref].configurationVersion = c.version
            /\ c.version <= row.configurationVersion /\ c.version \in Nat
      BY <1>1 DEF IInv, ConfigurationsInv, FrozenSnapshots, TypeOK, Configuration
    <2>2. row.configurationVersion \in Nat BY <1>1 DEF IInv, TypeOK, Row
    <2>3. CASE UNCHANGED tables BY <2>1, <2>3
    <2>4. ASSUME NEW a \in Admins, SaveDraftChanges(a) PROVE Kept
      BY <2>1, <2>4 DEF SaveDraftChanges
    <2>5. ASSUME NEW a \in Admins, TransitionState(a) PROVE Kept
      <3> DEFINE v == loaded[a].row.configurationVersion + 1
      <3>1. UNCHANGED snapshots BY <2>5 DEF TransitionState
      <3>2. CASE UNCHANGED <<configurations, manifests>> BY <2>1, <3>1, <3>2
      <3>3. CASE Target[op[a]] = "READY"
        <4>1. loaded[a] = [row |-> row, options |-> options]
          BY <1>1, <2>5, LoadedIsThere DEF TransitionState, Unchanged
        <4>2. v = row.configurationVersion + 1 BY <4>1
        <4>3. /\ \E w, k, i : configurations' = configurations \cup
                   {[version |-> v, window |-> w, options |-> k, ref |-> i]}
              /\ manifests \subseteq manifests'
          BY <2>5, <3>3 DEF TransitionState
        <4> QED BY <2>1, <2>2, <3>1, <4>2, <4>3
      <3> QED BY <2>5, <3>2, <3>3 DEF TransitionState
    <2>6. ASSUME NEW a \in Admins, CreateForElection(a) PROVE Kept
      <3> DEFINE v == loaded[a].row.configurationVersion + 1
                 older == [i \in DOMAIN snapshots |->
                             IF snapshots[i].configurationVersion = v
                             THEN Supersede(i, {"BUILDING"}) ELSE snapshots[i]]
      <3>1. UNCHANGED <<configurations, manifests>> BY <2>6 DEF CreateForElection
      <3>2. CASE UNCHANGED snapshots BY <2>1, <3>1, <3>2
      <3>3. CASE snapshots' = Append(older, NewSnapshot(v, listed[a]))
        <4>1. DOMAIN snapshots = 1 .. Len(snapshots) /\ Len(snapshots) \in Nat
          BY <1>1, SnapshotTypes DEF IInv
        <4>2. \A i \in 1 .. Len(snapshots) :
                snapshots[i].status = "FROZEN" => older[i] = snapshots[i]
          BY <1>1, <4>1, Superseded DEF IInv
        <4>3. older \in Seq(Snapshot) /\ Len(older) = Len(snapshots)
          <5>1. \A i \in 1 .. Len(snapshots) : older[i] \in Snapshot
            BY <1>1, <4>1, Superseded, SnapshotTypes DEF IInv
          <5>2. older \in [1 .. Len(snapshots) -> Snapshot] BY <4>1, <5>1
          <5> HIDE DEF older
          <5> QED BY <4>1, <5>2
        <4> HIDE DEF older
        <4>4. \A i \in 1 .. Len(snapshots) : snapshots'[i] = older[i] BY <3>3, <4>3
        <4> QED BY <2>1, <3>1, <4>1, <4>2, <4>4
      <3> QED BY <2>6, <3>2, <3>3 DEF CreateForElection
    <2>7. ASSUME NEW a \in Admins, FreezeSnapshot(a) PROVE Kept
      <3> DEFINE i == loaded[a].row.ref
      <3>1. UNCHANGED <<configurations, manifests>> BY <2>7 DEF FreezeSnapshot
      <3>2. CASE UNCHANGED snapshots BY <2>1, <3>1, <3>2
      <3>3. CASE /\ row.status = "DRAFT" /\ row.ref = i /\ snapshots[i].status = "BUILDING"
                 /\ \A j \in DOMAIN snapshots : j # i =>
                      snapshots'[j] =
                        IF snapshots[j].configurationVersion = snapshots[i].configurationVersion
                        THEN Supersede(j, {"FROZEN"}) ELSE snapshots[j]
        <4>1. i \in DOMAIN snapshots BY <1>1, <2>7 DEF FreezeSnapshot, IInv, DecidedInv
        <4>2. snapshots[i].configurationVersion = row.configurationVersion + 1
          BY <1>1, <3>3, <4>1 DEF IInv, SnapshotsInv
        <4> HIDE DEF i
        <4> QED BY <2>1, <2>2, <3>1, <3>3, <4>1, <4>2
      <3> QED BY <2>7, <3>2, <3>3 DEF FreezeSnapshot
    <2>8. ASSUME NEW from, NEW to, LockedTransition(from, to) PROVE Kept
      BY <2>3, <2>8 DEF LockedTransition
    <2> QED BY <1>1, <2>3, <2>4, <2>5, <2>6, <2>7, <2>8, Steady
  <1> QED BY <1>1, Invariance, PTL DEF Spec, FrozenForGood

\* Nobody commits a decision taken on an election that has changed since.
THEOREM DecisionsAreCurrent == Spec => DecidedOnWhatIsThere
  <1> DEFINE Current ==
        \A a \in Admins : pc[a] \in {"saving", "building"} /\ row' # row /\ pc'[a] = "idle" =>
          loaded[a] = [row |-> row, options |-> options]
  <1>1. ASSUME IInv, [Next]_vars PROVE Current
    <2>1. CASE row' = row BY <2>1
    <2>2. ASSUME NEW b \in Admins, End(b), pc[b] \in {"saving", "building"},
                 loaded[b].row.rowVersion = row.rowVersion
          PROVE  Current
      <3>1. \A a \in Admins \ {b} : pc'[a] = pc[a] BY <1>1, <2>2 DEF End, IInv, TypeOK
      <3> QED BY <1>1, <2>2, <3>1, LoadedIsThere
    <2>3. ASSUME NEW b \in Admins, SaveDraftChanges(b) PROVE Current
      BY <2>2, <2>3 DEF SaveDraftChanges, Unchanged
    <2>4. ASSUME NEW b \in Admins, TransitionState(b) PROVE Current
      BY <2>2, <2>4 DEF TransitionState, Unchanged
    <2>5. ASSUME NEW b \in Admins, CreateForElection(b) PROVE Current
      BY <2>1, <2>2, <2>5 DEF CreateForElection
    <2>6. ASSUME NEW b \in Admins, FreezeSnapshot(b) PROVE Current
      BY <2>1, <2>6 DEF FreezeSnapshot
    <2>7. ASSUME NEW from, NEW to, LockedTransition(from, to) PROVE Current
      BY <2>7 DEF LockedTransition
    <2> QED BY <1>1, <2>1, <2>3, <2>4, <2>5, <2>6, <2>7, Steady
  <1> QED BY <1>1, Invariance, PTL DEF Spec, DecidedOnWhatIsThere

LEMMA LifecycleStep ==
  ASSUME IInv, [Next]_vars
  PROVE  [L!Next]_<<row.status, row.configurationVersion>>
  <1> DEFINE abstract == <<row.status, row.configurationVersion>>
  <1>1. row \in Row /\ row.status \in L!Status BY DEF IInv, TypeOK, Row
  <1>2. CASE UNCHANGED row BY <1>2
  <1>3. ASSUME NEW s \in L!ALLOWED_ELECTION_TRANSITIONS[row.status], row'.status = s,
               row'.configurationVersion = IF s = "READY" THEN row.configurationVersion + 1
                                                          ELSE row.configurationVersion
        PROVE  L!Next
    <2>1. s \in L!Status BY <1>1, Moves
    <2> QED BY <1>3, <2>1 DEF L!Next, L!MoveTo
  <1>4. ASSUME NEW a \in Admins, SaveDraftChanges(a) PROVE UNCHANGED abstract
    BY <1>1, <1>4 DEF SaveDraftChanges, Bump, Row
  <1>5. ASSUME NEW a \in Admins, TransitionState(a) PROVE L!Next
    BY <1>3, <1>5, TransitionStateData
  <1>6. ASSUME NEW a \in Admins, CreateForElection(a) PROVE UNCHANGED abstract
    BY <1>1, <1>6 DEF CreateForElection, Bump, Row
  <1>7. ASSUME NEW a \in Admins, FreezeSnapshot(a) PROVE UNCHANGED abstract
    BY <1>7 DEF FreezeSnapshot
  <1>8. ASSUME NEW from, NEW to, <<from, to>> \in {<<"CLOSED", "COUNTING">>,
                 <<"COUNTING", "RESULTS_PUBLISHED">>}, LockedTransition(from, to)
        PROVE  L!Next
    <2>1. to \in L!ALLOWED_ELECTION_TRANSITIONS[row.status] /\ to # "READY"
      BY <1>8 DEF LockedTransition, L!ALLOWED_ELECTION_TRANSITIONS, L!Status
    <2>2. row'.status = to /\ row'.configurationVersion = row.configurationVersion
      BY <1>1, <1>8 DEF LockedTransition, Bump, Row
    <2> QED BY <1>3, <2>1, <2>2
  <1> QED BY <1>2, <1>4, <1>5, <1>6, <1>7, <1>8, Steady

\* Every transition is one the lifecycle allows and only prepare numbers a
\* configuration: the administration of an election implements Lifecycle.
THEOREM ElectionsImplementLifecycle == Spec => ImplementsLifecycle
  <1>1. Init => L!Init BY DEF Init, L!Init
  <1> QED BY <1>1, LifecycleStep, Invariance, PTL DEF Spec, ImplementsLifecycle, L!Spec
-----------------------------------------------------------------------------
\* The electoral roll.

\* What the record of a request tells of the request.
LEMMA RequestKinds ==
  ASSUME RegistryInv, NEW a \in Registrars
  PROVE  /\ request[a].op = "deactivateVoter" => request[a].voter \in DOMAIN voters
         /\ request[a].op = "registerCredential" =>
              request[a].voter \in DOMAIN voters /\ request[a].commitment \in Commitments
         /\ request[a].op = "revokeCredential" => request[a].commitment \in Commitments
         /\ request[a].op = "importVoters" =>
              /\ request[a] \in [op : {"importVoters"}, left : Seq(References \cup {NoReference}),
                                 existing : Nat]
              /\ request[a].left # <<>>
              /\ Head(request[a].left) \in References \cup {NoReference}
  <1>1. request[a] \in RequestState BY DEF RegistryInv, RegistryTypeOK
  <1>2. ASSUME request[a].op = "importVoters"
        PROVE  request[a] \in [op : {"importVoters"}, left : Seq(References \cup {NoReference}),
                               existing : Nat]
    BY <1>1, <1>2 DEF RequestState, Idle
  <1>3. /\ request[a].op = "registerCredential" => request[a].commitment \in Commitments
        /\ request[a].op = "revokeCredential" => request[a].commitment \in Commitments
    BY <1>1 DEF RequestState, Idle
  <1>4. /\ request[a].op \in {"deactivateVoter", "registerCredential"} =>
             request[a].voter \in DOMAIN voters
        /\ request[a].op = "importVoters" => request[a].left # <<>>
    BY DEF RegistryInv, RequestsInv
  <1>5. ASSUME NEW s \in Seq(References \cup {NoReference}), s # <<>>
        PROVE  Head(s) \in References \cup {NoReference}
    BY <1>5
  <1> QED BY <1>2, <1>3, <1>4, <1>5

\* The electoral roll after a step: rows stay where they are and keep their reference,
\* and no two rows come to have one reference.
RollKept ==
  /\ voters' \in Seq(Voter) /\ Len(voters') <= MaxVoters
  /\ \A v \in DOMAIN voters : v \in DOMAIN voters' /\ voters'[v].reference = voters[v].reference
  /\ UniqueReferences'

\* ... and nobody becomes ACTIVE again.
RollFades == \A v \in DOMAIN voters : voters'[v].status = "ACTIVE" => voters[v].status = "ACTIVE"

LEMMA InsertStep ==
  ASSUME RegistryInv, NEW reference \in References \cup {NoReference},
         ReferenceIsFree(reference), Insert(reference)
  PROVE  RollKept /\ RollFades
  <1> DEFINE new == [reference |-> reference, status |-> "ACTIVE", rowVersion |-> 0]
  <1>1. new \in Voter BY DEF Voter
  <1>2. voters \in Seq(Voter) /\ Len(voters) < MaxVoters /\ voters' = Append(voters, new)
        /\ MaxVoters \in Nat
    BY RegistryAssumption DEF RegistryInv, RegistryTypeOK, Insert
  <1> HIDE DEF new
  <1>3. /\ voters' \in Seq(Voter) /\ Len(voters') = Len(voters) + 1
        /\ DOMAIN voters = 1 .. Len(voters) /\ DOMAIN voters' = 1 .. Len(voters) + 1
        /\ \A v \in 1 .. Len(voters) : voters'[v] = voters[v]
        /\ voters'[Len(voters) + 1] = new
    BY <1>1, <1>2
  <1>4. \A v \in DOMAIN voters : v \in DOMAIN voters' /\ voters'[v] = voters[v]
    BY <1>2, <1>3
  <1>5. \A v \in DOMAIN voters' : v \in DOMAIN voters \/ v = Len(voters) + 1
    BY <1>2, <1>3
  <1>6. new.reference = reference BY DEF new
  <1>7. \A v \in DOMAIN voters :
          reference # NoReference => voters[v].reference # reference
    BY DEF ReferenceIsFree
  <1>8. UniqueReferences BY DEF RegistryInv
  <1>9. UniqueReferences'
    BY <1>3, <1>4, <1>5, <1>6, <1>7, <1>8 DEF UniqueReferences, SamePerson
  <1> QED BY <1>2, <1>3, <1>4, <1>9 DEF RollKept, RollFades

LEMMA UpdateStep ==
  ASSUME RegistryInv, NEW v \in DOMAIN voters, NEW voter \in Voter,
         voter.reference = voters[v].reference, voter.status \in {voters[v].status, "INACTIVE"},
         voters' = [voters EXCEPT ![v] = voter]
  PROVE  RollKept /\ RollFades
  <1>1. voters \in Seq(Voter) /\ Len(voters) <= MaxVoters BY DEF RegistryInv, RegistryTypeOK
  <1>2. voters' \in Seq(Voter) /\ Len(voters') = Len(voters) /\ DOMAIN voters' = DOMAIN voters
    BY <1>1
  <1>3. \A w \in DOMAIN voters : voters'[w] = IF w = v THEN voter ELSE voters[w]
    BY <1>1
  <1>4. UniqueReferences' BY <1>2, <1>3 DEF RegistryInv, UniqueReferences, SamePerson
  <1> QED BY <1>1, <1>2, <1>3, <1>4 DEF RollKept, RollFades

LEMMA RollUnchanged == ASSUME RegistryInv, UNCHANGED voters PROVE RollKept /\ RollFades
  BY DEF RegistryInv, RegistryTypeOK, UniqueReferences, SamePerson, RollKept, RollFades

\* The credentials after a step: one that was there is never another's, and no
\* second one of a voter becomes ACTIVE.
CredentialsKept ==
  /\ credentials' \in [Commitments -> Credential \cup {Absent}]
  /\ \A k \in Commitments : credentials'[k] # Absent => credentials'[k].voter \in DOMAIN voters
  /\ \A k, l \in Commitments : \A v \in DOMAIN voters' :
       k \in ActiveOf(v)' /\ l \in ActiveOf(v)' => k = l

LEMMA CredentialsUnchanged ==
  ASSUME RegistryInv, UNCHANGED credentials, RollKept PROVE CredentialsKept
  <1>1. /\ credentials \in [Commitments -> Credential \cup {Absent}]
        /\ \A k \in Commitments : credentials[k] # Absent => credentials[k].voter \in DOMAIN voters
    BY DEF RegistryInv, RegistryTypeOK
  <1>2. \A k \in Commitments : credentials[k].status = "ACTIVE" => credentials[k].voter \in DOMAIN voters
    BY <1>1 DEF Absent
  <1>3. \A k, l \in Commitments : \A v \in DOMAIN voters' :
          k \in ActiveOf(v)' /\ l \in ActiveOf(v)' => k = l
    BY <1>2 DEF RegistryInv, OneActiveCredential, ActiveOf
  <1> QED BY <1>1, <1>3 DEF CredentialsKept

LEMMA RotatedIsCredential ==
  ASSUME NEW c \in Credential
  PROVE  /\ Rotated(c) \in Credential /\ Rotated(c).voter = c.voter
         /\ Rotated(c).status = "ROTATED"
  <1>1. [c EXCEPT !.status = "ROTATED"] \in Credential BY DEF Credential
  <1>2. \A d \in Credential, n \in Nat : [d EXCEPT !.rowVersion = n] \in Credential
    BY DEF Credential
  <1>3. c.rowVersion + 1 \in Nat BY DEF Credential
  <1>4. Rotated(c) = [[c EXCEPT !.status = "ROTATED"] EXCEPT !.rowVersion = c.rowVersion + 1]
    BY DEF Rotated, Credential
  <1>5. Rotated(c) \in Credential BY <1>1, <1>2, <1>3, <1>4
  <1>6. Rotated(c).voter = c.voter BY DEF Rotated, Credential
  <1>7. Rotated(c).status = "ROTATED" BY DEF Rotated, Credential
  <1> QED BY <1>5, <1>6, <1>7

LEMMA RevokedIsCredential ==
  ASSUME NEW c \in Credential
  PROVE  /\ Revoked(c) \in Credential /\ Revoked(c).voter = c.voter
         /\ Revoked(c).status = "REVOKED"
  <1>1. [c EXCEPT !.status = "REVOKED"] \in Credential BY DEF Credential
  <1>2. \A d \in Credential, n \in Nat : [d EXCEPT !.rowVersion = n] \in Credential
    BY DEF Credential
  <1>3. c.rowVersion + 1 \in Nat BY DEF Credential
  <1>4. Revoked(c) = [[c EXCEPT !.status = "REVOKED"] EXCEPT !.rowVersion = c.rowVersion + 1]
    BY DEF Revoked, Credential
  <1>5. Revoked(c) \in Credential BY <1>1, <1>2, <1>3, <1>4
  <1>6. Revoked(c).voter = c.voter BY DEF Revoked, Credential
  <1>7. Revoked(c).status = "REVOKED" BY DEF Revoked, Credential
  <1> QED BY <1>5, <1>6, <1>7

LEMMA DeactivatedIsVoter ==
  ASSUME NEW w \in Voter
  PROVE  /\ Deactivated(w) \in Voter /\ Deactivated(w).reference = w.reference
         /\ Deactivated(w).status = "INACTIVE"
  <1>1. [w EXCEPT !.status = "INACTIVE"] \in Voter BY DEF Voter
  <1>2. \A d \in Voter, n \in Nat : [d EXCEPT !.rowVersion = n] \in Voter BY DEF Voter
  <1>3. w.rowVersion + 1 \in Nat BY DEF Voter
  <1>4. Deactivated(w) = [[w EXCEPT !.status = "INACTIVE"] EXCEPT !.rowVersion = w.rowVersion + 1]
    BY DEF Deactivated, Voter
  <1>5. Deactivated(w) \in Voter BY <1>1, <1>2, <1>3, <1>4
  <1>6. Deactivated(w).reference = w.reference BY DEF Deactivated, Voter
  <1>7. Deactivated(w).status = "INACTIVE" BY DEF Deactivated, Voter
  <1> QED BY <1>5, <1>6, <1>7

\* What the INSERT of k for v and the UPDATE before it do to the rows.
LEMMA ReplacedRows ==
  ASSUME RegistryInv, NEW v \in DOMAIN voters, NEW k \in Commitments, credentials[k] = Absent,
         credentials' = Replaced(v, k, ActiveOf(v))
  PROVE  /\ \A l \in ActiveOf(v) : /\ credentials'[l] \in Credential
                                   /\ credentials'[l].voter = v
                                   /\ credentials'[l].status = "ROTATED"
         /\ credentials'[k] \in Credential /\ credentials'[k].voter = v
         /\ credentials'[k].status = "ACTIVE"
         /\ \A l \in Commitments \ (ActiveOf(v) \cup {k}) : credentials'[l] = credentials[l]
         /\ DOMAIN credentials' = Commitments
         /\ k \notin ActiveOf(v)
  <1>1. /\ credentials \in [Commitments -> Credential \cup {Absent}]
        /\ v \in Nat \ {0}
    BY DEF RegistryInv, RegistryTypeOK
  <1>2. k \notin ActiveOf(v) BY DEF ActiveOf, Absent
  <1>3. ASSUME NEW l \in ActiveOf(v)
        PROVE  /\ credentials'[l] \in Credential /\ credentials'[l].voter = v
               /\ credentials'[l].status = "ROTATED"
    <2>1. l \in Commitments /\ credentials[l].status = "ACTIVE" /\ credentials[l].voter = v
      BY DEF ActiveOf
    <2>2. credentials[l] \in Credential BY <1>1, <2>1 DEF Absent
    <2>3. credentials'[l] = Rotated(credentials[l]) BY <2>1 DEF Replaced
    <2> QED BY <2>1, <2>2, <2>3, RotatedIsCredential
  <1>4. credentials'[k] = [voter |-> v, status |-> "ACTIVE", rowVersion |-> 0]
    BY <1>2 DEF Replaced
  <1>5. credentials'[k] \in Credential /\ credentials'[k].voter = v
        /\ credentials'[k].status = "ACTIVE"
    BY <1>1, <1>4 DEF Credential
  <1>6. \A l \in Commitments \ (ActiveOf(v) \cup {k}) : credentials'[l] = credentials[l]
    BY DEF Replaced
  <1>7. DOMAIN credentials' = Commitments BY DEF Replaced
  <1> QED BY <1>2, <1>3, <1>5, <1>6, <1>7

LEMMA RotateStep ==
  ASSUME RegistryInv, UNCHANGED voters,
         NEW v \in DOMAIN voters, NEW k \in Commitments, credentials[k] = Absent,
         credentials' = Replaced(v, k, ActiveOf(v))
  PROVE  CredentialsKept
  <1>1. /\ credentials \in [Commitments -> Credential \cup {Absent}]
        /\ \A l \in Commitments : credentials[l] # Absent => credentials[l].voter \in DOMAIN voters
    BY DEF RegistryInv, RegistryTypeOK
  <1>2. ASSUME NEW l \in Commitments
        PROVE  /\ credentials'[l] \in Credential \cup {Absent}
               /\ credentials'[l] # Absent => credentials'[l].voter \in DOMAIN voters
    <2>1. CASE l \in ActiveOf(v) BY <2>1, ReplacedRows
    <2>2. CASE l = k BY <2>2, ReplacedRows
    <2>3. CASE l \notin ActiveOf(v) \cup {k} BY <1>1, <2>3, ReplacedRows
    <2> QED BY <2>1, <2>2, <2>3
  <1>3. \A l \in Commitments : credentials'[l].status = "ACTIVE" =>
          l = k \/ (credentials'[l] = credentials[l] /\ l \notin ActiveOf(v))
    BY ReplacedRows
  <1>4. ASSUME NEW l \in Commitments, NEW m \in Commitments, NEW w \in DOMAIN voters,
               l \in ActiveOf(w)', m \in ActiveOf(w)'
        PROVE  l = m
    <2>1. /\ credentials'[l].voter = w /\ credentials'[l].status = "ACTIVE"
          /\ credentials'[m].voter = w /\ credentials'[m].status = "ACTIVE"
      BY <1>4 DEF ActiveOf
    <2>2. CASE w = v
      <3>1. ASSUME NEW x \in Commitments, credentials'[x].status = "ACTIVE", credentials'[x].voter = v
            PROVE  x = k
        BY <1>3, <3>1 DEF ActiveOf
      <3> QED BY <2>1, <2>2, <3>1
    <2>3. CASE w # v
      <3>1. l # k /\ m # k BY <2>1, <2>3, ReplacedRows
      <3>2. l \in ActiveOf(w) /\ m \in ActiveOf(w) BY <1>3, <2>1, <3>1 DEF ActiveOf
      <3> QED BY <3>2 DEF RegistryInv, OneActiveCredential
    <2> QED BY <2>2, <2>3
  <1>5. credentials' \in [Commitments -> Credential \cup {Absent}]
    <2>1. credentials' = [l \in Commitments |-> credentials'[l]] BY DEF Replaced
    <2> QED BY <1>2, <2>1
  <1> QED BY <1>2, <1>4, <1>5 DEF CredentialsKept

LEMMA RevokeStep ==
  ASSUME RegistryInv, UNCHANGED voters, NEW k \in Commitments, credentials[k].status = "ACTIVE",
         credentials' = [credentials EXCEPT ![k] = Revoked(@)]
  PROVE  CredentialsKept
  <1>1. /\ credentials \in [Commitments -> Credential \cup {Absent}]
        /\ \A l \in Commitments : credentials[l] # Absent => credentials[l].voter \in DOMAIN voters
        /\ credentials[k] \in Credential
    BY DEF RegistryInv, RegistryTypeOK, Absent
  <1>2. /\ Revoked(credentials[k]) \in Credential
        /\ Revoked(credentials[k]).voter = credentials[k].voter
        /\ Revoked(credentials[k]).status = "REVOKED"
    BY <1>1, RevokedIsCredential
  <1>3. /\ credentials'[k] = Revoked(credentials[k])
        /\ \A l \in Commitments \ {k} : credentials'[l] = credentials[l]
    BY <1>1
  <1>4. credentials' \in [Commitments -> Credential \cup {Absent}] BY <1>1, <1>2
  <1>5. credentials[k] # Absent BY DEF Absent
  <1>6. \A l \in Commitments : credentials'[l] # Absent => credentials'[l].voter \in DOMAIN voters
    BY <1>1, <1>2, <1>3, <1>5
  <1>7. \A l \in Commitments : \A w \in DOMAIN voters : l \in ActiveOf(w)' => l \in ActiveOf(w)
    BY <1>2, <1>3 DEF ActiveOf
  <1>8. \A l, m \in Commitments : \A w \in DOMAIN voters' :
          l \in ActiveOf(w)' /\ m \in ActiveOf(w)' => l = m
    BY <1>7 DEF RegistryInv, OneActiveCredential
  <1> QED BY <1>4, <1>6, <1>8 DEF CredentialsKept

\* The request of one registrar moves on.
RequestsKept == request' \in [Registrars -> RequestState] /\ RequestsInv'

LEMMA RequestStep ==
  ASSUME RegistryInv, RollKept, NEW a \in Registrars, NEW r \in RequestState,
         r.op \in {"deactivateVoter", "registerCredential"} => r.voter \in DOMAIN voters,
         r.op = "importVoters" => r.left # <<>>,
         request' = [request EXCEPT ![a] = r]
  PROVE  RequestsKept
  <1>1. request \in [Registrars -> RequestState] BY DEF RegistryInv, RegistryTypeOK
  <1>2. request' \in [Registrars -> RequestState] BY <1>1
  <1>3. \A b \in Registrars : request'[b] = IF b = a THEN r ELSE request[b] BY <1>1
  <1>4. RequestsInv' BY <1>3 DEF RegistryInv, RequestsInv, RollKept
  <1> QED BY <1>2, <1>4 DEF RequestsKept

LEMMA RequestsUnchanged == ASSUME RegistryInv, RollKept, UNCHANGED request PROVE RequestsKept
  BY DEF RegistryInv, RegistryTypeOK, RequestsInv, RollKept, RequestsKept

LEMMA AnswerStep ==
  ASSUME RegistryInv, RollKept, NEW a \in Registrars, Answer(a) PROVE RequestsKept
  <1>1. Idle \in RequestState /\ Idle.op = "idle" BY DEF Idle, RequestState
  <1> QED BY <1>1, RequestStep DEF Answer

LEMMA TailOfMore ==
  ASSUME NEW S, NEW s \in Seq(S), s # <<>>, Len(s) # 1
  PROVE  Tail(s) \in Seq(S) /\ Tail(s) # <<>>
  <1>1. Len(s) # 0 BY EmptySeq
  <1>2. Len(Tail(s)) = Len(s) - 1 /\ Len(s) \in Nat BY <1>1
  <1>3. Tail(s) \in Seq(S) OBVIOUS
  <1>4. Len(Tail(s)) # 0 BY <1>1, <1>2
  <1>5. Tail(s) # <<>> BY <1>3, <1>4, EmptySeq
  <1> QED BY <1>3, <1>5

LEMMA NextRecordStep ==
  ASSUME RegistryInv, RollKept, NEW a \in Registrars, request[a].op = "importVoters",
         NextRecord(a)
  PROVE  RequestsKept
  <1> DEFINE r == request[a]
             next == Rest(r)
  <1>1. /\ r \in [op : {"importVoters"}, left : Seq(References \cup {NoReference}), existing : Nat]
        /\ r.left # <<>>
    BY RequestKinds
  <1>2. CASE Len(r.left) = 1
    <2>1. Answer(a) BY <1>2 DEF NextRecord, Answer, RegistryInv, RegistryTypeOK
    <2> QED BY <2>1, AnswerStep
  <1>3. CASE Len(r.left) # 1
    <2>0. r.left \in Seq(References \cup {NoReference}) BY <1>1
    <2>1. Tail(r.left) \in Seq(References \cup {NoReference}) /\ Tail(r.left) # <<>>
      BY <1>1, <1>3, <2>0, TailOfMore
    <2>2. /\ next \in [op : {"importVoters"}, left : Seq(References \cup {NoReference}), existing : Nat]
          /\ next.left = Tail(r.left)
      BY <1>1, <2>1 DEF Unread, Rest
    <2>3. next \in RequestState BY <2>2 DEF RequestState
    <2>4. request' = [request EXCEPT ![a] = next]
      BY <1>3 DEF NextRecord, RegistryInv, RegistryTypeOK
    <2>5. next.op = "importVoters" BY <2>2
    <2> HIDE DEF next
    <2> QED BY <2>1, <2>2, <2>3, <2>4, <2>5, RequestStep
  <1> QED BY <1>2, <1>3

LEMMA RegistryFromParts ==
  ASSUME RollKept, CredentialsKept, RequestsKept PROVE RegistryInv'
  <1>1. \A k \in Commitments : credentials'[k] # Absent => credentials'[k].voter \in DOMAIN voters'
    BY DEF RollKept, CredentialsKept
  <1>2. RegistryTypeOK' BY <1>1 DEF RegistryTypeOK, RollKept, CredentialsKept, RequestsKept
  <1>3. OneActiveCredential' BY DEF OneActiveCredential, CredentialsKept
  <1> QED BY <1>2, <1>3 DEF RegistryInv, RollKept, RequestsKept

LEMMA RegistryInitInv == RegistryInit => RegistryInv
  <1> SUFFICES ASSUME RegistryInit PROVE RegistryInv OBVIOUS
  <1>1. RegistryTypeOK
    BY RegistryAssumption DEF RegistryInit, RegistryTypeOK, RequestState, Idle
  <1>2. RequestsInv BY DEF RegistryInit, RequestsInv, Idle
  <1>3. UniqueReferences BY DEF RegistryInit, UniqueReferences
  <1>4. OneActiveCredential BY DEF RegistryInit, OneActiveCredential, ActiveOf, Absent
  <1> QED BY <1>1, <1>2, <1>3, <1>4 DEF RegistryInv

\* What each step does to the three parts of the state.  Credentials change in two ways.
Rotation ==
  /\ UNCHANGED voters
  /\ \E v \in DOMAIN voters, k \in Commitments :
       /\ voters[v].status = "ACTIVE" /\ credentials[k] = Absent
       /\ credentials' = Replaced(v, k, ActiveOf(v))
Revocation ==
  /\ UNCHANGED voters
  /\ \E k \in Commitments :
       /\ credentials[k].status = "ACTIVE"
       /\ credentials' = [credentials EXCEPT ![k] = Revoked(@)]

LEMMA RegistryStep ==
  ASSUME RegistryInv, [RegistryNext]_registryVars
  PROVE  /\ RegistryInv' /\ RollKept /\ RollFades
         /\ UNCHANGED credentials \/ Rotation \/ Revocation
  <1> DEFINE Goal == /\ RegistryInv' /\ RollKept /\ RollFades
                     /\ UNCHANGED credentials \/ Rotation \/ Revocation
  <1>0. ASSUME UNCHANGED credentials, RollKept, RollFades, RequestsKept PROVE Goal
    BY <1>0, CredentialsUnchanged, RegistryFromParts
  <1>1. ASSUME NEW reference \in References \cup {NoReference}, RegisterVoter(reference) PROVE Goal
    <2>1. UNCHANGED <<credentials, request>> BY <1>1 DEF RegisterVoter
    <2>2. RollKept /\ RollFades BY <1>1, InsertStep DEF RegisterVoter
    <2> QED BY <2>1, <2>2, <1>0, RequestsUnchanged
  <1>2. ASSUME NEW a \in Registrars, NEW v \in DOMAIN voters, DeactivateVoter(a, v) PROVE Goal
    <2> DEFINE r == [op |-> "deactivateVoter", voter |-> v, rowVersion |-> voters[v].rowVersion]
    <2>1. UNCHANGED <<voters, credentials>> /\ request' = [request EXCEPT ![a] = r]
      BY <1>2 DEF DeactivateVoter
    <2>2. RollKept /\ RollFades BY <2>1, RollUnchanged
    <2>3. v \in Nat /\ voters[v].rowVersion \in Nat
      <3>1. voters \in Seq(Voter) BY DEF RegistryInv, RegistryTypeOK
      <3>2. v \in Nat /\ voters[v] \in Voter BY <3>1
      <3> QED BY <3>2 DEF Voter
    <2>5. r \in RequestState /\ r.op = "deactivateVoter" /\ r.voter = v
      BY <2>3 DEF RequestState
    <2> HIDE DEF r
    <2>4. RequestsKept BY <2>1, <2>2, <2>5, RequestStep
    <2> QED BY <2>1, <2>2, <2>4, <1>0
  <1>3. ASSUME NEW a \in Registrars, NEW v \in DOMAIN voters, NEW k \in Commitments,
               RegisterCredential(a, v, k)
        PROVE  Goal
    <2> DEFINE r == [op |-> "registerCredential", voter |-> v, commitment |-> k]
    <2>1. UNCHANGED <<voters, credentials>> /\ request' = [request EXCEPT ![a] = r]
      BY <1>3 DEF RegisterCredential
    <2>2. RollKept /\ RollFades BY <2>1, RollUnchanged
    <2>3. r \in RequestState /\ r.op = "registerCredential" /\ r.voter = v
      BY DEF RequestState, RegistryInv, RegistryTypeOK
    <2> HIDE DEF r
    <2>4. RequestsKept BY <2>1, <2>2, <2>3, RequestStep
    <2> QED BY <2>1, <2>2, <2>4, <1>0
  <1>4. ASSUME NEW a \in Registrars, NEW k \in Commitments, RevokeCredential(a, k) PROVE Goal
    <2> DEFINE r == [op |-> "revokeCredential", commitment |-> k,
                     rowVersion |-> credentials[k].rowVersion]
    <2>1. UNCHANGED <<voters, credentials>> /\ request' = [request EXCEPT ![a] = r]
      BY <1>4 DEF RevokeCredential
    <2>2. RollKept /\ RollFades BY <2>1, RollUnchanged
    <2>3. credentials[k].rowVersion \in Nat
      BY DEF RegistryInv, RegistryTypeOK, Credential, Absent
    <2>4. r \in RequestState /\ r.op = "revokeCredential" BY <2>3 DEF RequestState
    <2> HIDE DEF r
    <2>5. RequestsKept BY <2>1, <2>2, <2>4, RequestStep
    <2> QED BY <2>1, <2>2, <2>5, <1>0
  <1>5. ASSUME NEW a \in Registrars, NEW batch \in Batches, ImportVoters(a, batch) PROVE Goal
    <2> DEFINE r == [op |-> "importVoters", left |-> batch, existing |-> Unread]
    <2>1. UNCHANGED <<voters, credentials>> /\ request' = [request EXCEPT ![a] = r]
      BY <1>5 DEF ImportVoters
    <2>2. RollKept /\ RollFades BY <2>1, RollUnchanged
    <2>3. batch \in Seq(References \cup {NoReference}) /\ batch # <<>> BY RegistryAssumption
    <2>4. r \in RequestState /\ r.op = "importVoters" /\ r.left # <<>>
      BY <2>3 DEF RequestState, Unread
    <2> HIDE DEF r
    <2>5. RequestsKept BY <2>1, <2>2, <2>4, RequestStep
    <2> QED BY <2>1, <2>2, <2>5, <1>0
  <1>6. ASSUME NEW a \in Registrars, SaveDeactivation(a) PROVE Goal
    <2> DEFINE v == request[a].voter
    <2>1. UNCHANGED credentials /\ Answer(a) /\ v \in DOMAIN voters
      BY <1>6, RequestKinds DEF SaveDeactivation
    <2>2. voters[v] \in Voter BY <2>1 DEF RegistryInv, RegistryTypeOK
    <2>3. /\ Deactivated(voters[v]) \in Voter
          /\ Deactivated(voters[v]).reference = voters[v].reference
          /\ Deactivated(voters[v]).status = "INACTIVE"
      BY <2>2, DeactivatedIsVoter
    <2>4. UNCHANGED voters \/ voters' = [voters EXCEPT ![v] = Deactivated(voters[v])]
      BY <1>6, <2>1 DEF SaveDeactivation
    <2>5. RollKept /\ RollFades BY <2>1, <2>3, <2>4, UpdateStep, RollUnchanged
    <2> QED BY <2>1, <2>5, <1>0, AnswerStep
  <1>7. ASSUME NEW a \in Registrars, UpsertUnreferenced(a) PROVE Goal
    <2>1. UNCHANGED credentials /\ NextRecord(a) /\ request[a].op = "importVoters"
      BY <1>7 DEF UpsertUnreferenced
    <2>2. ReferenceIsFree(NoReference) BY DEF ReferenceIsFree
    <2>3. RollKept /\ RollFades BY <1>7, <2>2, InsertStep DEF UpsertUnreferenced
    <2> QED BY <2>1, <2>3, <1>0, NextRecordStep
  <1>8. ASSUME NEW a \in Registrars, SelectExisting(a) PROVE Goal
    <2>1. UNCHANGED <<voters, credentials>> /\ request[a].op = "importVoters"
      BY <1>8 DEF SelectExisting
    <2>2. RollKept /\ RollFades BY <2>1, RollUnchanged
    <2>3. PICK i \in Nat : request' = [request EXCEPT ![a].existing = i]
      <3>1. DOMAIN voters \subseteq Nat BY DEF RegistryInv, RegistryTypeOK
      <3>2. NotFound \in Nat BY RegistryAssumption DEF NotFound
      <3>3. \E j \in DOMAIN voters \cup {NotFound} : request' = [request EXCEPT ![a].existing = j]
        BY <1>8 DEF SelectExisting
      <3> QED BY <3>1, <3>2, <3>3
    <2> DEFINE r == [request[a] EXCEPT !.existing = i]
    <2>4. /\ request[a] \in [op : {"importVoters"}, left : Seq(References \cup {NoReference}),
                             existing : Nat]
          /\ request[a].left # <<>>
      BY <2>1, RequestKinds
    <2>5. r \in [op : {"importVoters"}, left : Seq(References \cup {NoReference}), existing : Nat]
          /\ r.left # <<>>
      BY <2>4
    <2>6. r \in RequestState /\ r.op = "importVoters" BY <2>5 DEF RequestState
    <2>7. request' = [request EXCEPT ![a] = r] BY <2>3 DEF RegistryInv, RegistryTypeOK
    <2> HIDE DEF r
    <2>8. RequestsKept BY <2>2, <2>5, <2>6, <2>7, RequestStep
    <2> QED BY <2>1, <2>2, <2>8, <1>0
  <1>9. ASSUME NEW a \in Registrars, InsertRecord(a) PROVE Goal
    <2> DEFINE reference == Head(request[a].left)
    <2>1. UNCHANGED credentials /\ request[a].op = "importVoters" BY <1>9 DEF InsertRecord
    <2>2. reference \in References \cup {NoReference} BY <2>1, RequestKinds
    <2>3. CASE ReferenceIsFree(reference) /\ Insert(reference) /\ NextRecord(a)
      <3>1. RollKept /\ RollFades BY <2>2, <2>3, InsertStep
      <3> QED BY <2>1, <2>3, <3>1, <1>0, NextRecordStep
    <2>4. CASE Answer(a) /\ UNCHANGED voters
      BY <2>1, <2>4, <1>0, RollUnchanged, AnswerStep
    <2> QED BY <1>9, <2>3, <2>4 DEF InsertRecord
  <1>10. ASSUME NEW a \in Registrars, UpdateRecord(a) PROVE Goal
    <2> DEFINE i == request[a].existing
               voter == [voters[i] EXCEPT !.rowVersion = @ + 1]
    <2>1. /\ UNCHANGED credentials /\ request[a].op = "importVoters" /\ NextRecord(a)
          /\ i \in DOMAIN voters
          /\ voters' = [voters EXCEPT ![i].rowVersion = @ + 1]
      BY <1>10 DEF UpdateRecord
    <2>2. voters[i] \in Voter BY <2>1 DEF RegistryInv, RegistryTypeOK
    <2>3. /\ voter \in Voter /\ voter.reference = voters[i].reference
          /\ voter.status = voters[i].status
      BY <2>2 DEF Voter
    <2>4. voters' = [voters EXCEPT ![i] = voter] BY <2>1
    <2> HIDE DEF voter
    <2>5. RollKept /\ RollFades BY <2>1, <2>3, <2>4, UpdateStep
    <2> QED BY <2>1, <2>5, <1>0, NextRecordStep
  <1>11. ASSUME NEW a \in Registrars, RegisterAndRotate(a) PROVE Goal
    <2> DEFINE v == request[a].voter
               k == request[a].commitment
    <2>1. UNCHANGED voters /\ Answer(a) /\ v \in DOMAIN voters /\ k \in Commitments
      BY <1>11, RequestKinds DEF RegisterAndRotate
    <2>2. RollKept /\ RollFades /\ RequestsKept BY <2>1, RollUnchanged, AnswerStep
    <2>3. CASE /\ voters[v].status = "ACTIVE" /\ credentials[k] = Absent
               /\ credentials' = Replaced(v, k, ActiveOf(v))
      <3>1. CredentialsKept BY <2>1, <2>3, RotateStep
      <3>2. Rotation BY <2>1, <2>3 DEF Rotation
      <3> QED BY <2>2, <3>1, <3>2, RegistryFromParts
    <2>4. CASE UNCHANGED credentials BY <2>2, <2>4, <1>0
    <2> QED BY <1>11, <2>3, <2>4 DEF RegisterAndRotate
  <1>12. ASSUME NEW a \in Registrars, SaveRevocation(a) PROVE Goal
    <2> DEFINE k == request[a].commitment
    <2>1. UNCHANGED voters /\ Answer(a) /\ k \in Commitments
      BY <1>12, RequestKinds DEF SaveRevocation
    <2>2. RollKept /\ RollFades /\ RequestsKept BY <2>1, RollUnchanged, AnswerStep
    <2>3. CASE /\ credentials[k].status = "ACTIVE"
               /\ credentials' = [credentials EXCEPT ![k] = Revoked(@)]
      <3>1. CredentialsKept BY <2>1, <2>3, RevokeStep
      <3>2. Revocation BY <2>1, <2>3 DEF Revocation
      <3> QED BY <2>2, <3>1, <3>2, RegistryFromParts
    <2>4. CASE UNCHANGED credentials BY <2>2, <2>4, <1>0
    <2> QED BY <1>12, <2>3, <2>4 DEF SaveRevocation
  <1>13. ASSUME NEW a \in Registrars, AbortRequest(a) PROVE Goal
    BY <1>13, <1>0, RollUnchanged, AnswerStep DEF AbortRequest
  <1>14. CASE UNCHANGED registryVars
    BY <1>14, <1>0, RollUnchanged, RequestsUnchanged DEF registryVars
  <1> QED BY <1>1, <1>2, <1>3, <1>4, <1>5, <1>6, <1>7, <1>8, <1>9, <1>10, <1>11, <1>12, <1>13,
             <1>14
          DEF RegistryNext

\* The inductive invariant of the roll holds in every reachable state.
THEOREM RegistryInvariance == RegistrySpec => []RegistryInv
  <1>1. RegistryInv /\ [RegistryNext]_registryVars => RegistryInv' BY RegistryStep
  <1> QED BY RegistryInitInv, <1>1, PTL DEF RegistrySpec

\* Voters, credentials and requests keep their types, and a credential its voter.
THEOREM RegistryTypeCorrect == RegistrySpec => []RegistryTypeOK
  <1>1. RegistryInv => RegistryTypeOK BY DEF RegistryInv
  <1> QED BY RegistryInvariance, <1>1, PTL

\* Whatever imports, registrations and rotations run at once, a person has at most one
\* leaf in a tree built from the roll.
THEOREM OneLeaf == RegistrySpec => []OneLeafPerPerson
  <1>1. ASSUME RegistryInv PROVE OneLeafPerPerson
    <2> SUFFICES ASSUME NEW k \in ListActiveDeterministically, NEW l \in ListActiveDeterministically,
                        SamePerson(credentials[k].voter, credentials[l].voter)
                 PROVE  k = l
      BY DEF OneLeafPerPerson
    <2>1. /\ k \in Commitments /\ credentials[k].status = "ACTIVE"
          /\ l \in Commitments /\ credentials[l].status = "ACTIVE"
      BY DEF ListActiveDeterministically
    <2>2. credentials[k].voter \in DOMAIN voters /\ credentials[l].voter \in DOMAIN voters
      BY <1>1, <2>1 DEF RegistryInv, RegistryTypeOK, Absent
    <2>3. credentials[k].voter = credentials[l].voter
      BY <1>1, <2>2 DEF RegistryInv, UniqueReferences
    <2> QED BY <1>1, <2>1, <2>2, <2>3 DEF RegistryInv, OneActiveCredential, ActiveOf
  <1> QED BY RegistryInvariance, <1>1, PTL

\* A credential is ROTATED only by the registration that replaces it.
THEOREM RotationsReplace == RegistrySpec => RotationReplaces
  <1> DEFINE Replaces ==
        \A k \in Commitments :
          credentials[k].status # "ROTATED" /\ credentials'[k].status = "ROTATED" =>
            \E l \in Commitments : /\ credentials[l] = Absent
                                   /\ credentials'[l].status = "ACTIVE"
                                   /\ credentials'[l].voter = credentials[k].voter
  <1>1. ASSUME RegistryInv, [RegistryNext]_registryVars PROVE Replaces
    <2>1. CASE UNCHANGED credentials BY <2>1
    <2>2. CASE Rotation
      <3>1. PICK v \in DOMAIN voters, l \in Commitments :
              credentials[l] = Absent /\ credentials' = Replaced(v, l, ActiveOf(v))
        BY <2>2 DEF Rotation
      <3>2. ASSUME NEW k \in Commitments, credentials[k].status # "ROTATED",
                   credentials'[k].status = "ROTATED"
            PROVE  credentials[k].voter = v
        <4>1. k \in ActiveOf(v) BY <1>1, <3>1, <3>2, ReplacedRows
        <4> QED BY <4>1 DEF ActiveOf
      <3>3. credentials'[l].voter = v /\ credentials'[l].status = "ACTIVE"
        BY <1>1, <3>1, ReplacedRows
      <3> QED BY <3>1, <3>2, <3>3
    <2>3. CASE Revocation
      <3>1. PICK k \in Commitments : credentials' = [credentials EXCEPT ![k] = Revoked(@)]
        BY <2>3 DEF Revocation
      <3>2. \A l \in Commitments : credentials'[l].status \in {credentials[l].status, "REVOKED"}
        BY <1>1, <3>1, <2>3 DEF Revoked, RegistryInv, RegistryTypeOK, Credential, Absent, Revocation
      <3> QED BY <3>2
    <2> QED BY <1>1, <2>1, <2>2, <2>3, RegistryStep
  <1>2. RegistryInv /\ [RegistryNext]_registryVars => [Replaces]_registryVars BY <1>1
  <1> QED BY RegistryInvariance, <1>2, PTL DEF RegistrySpec, RotationReplaces

\* Eligibility only moves forward: nothing brings a withdrawn credential back.
THEOREM WithdrawnStays == RegistrySpec => WithdrawnIsFinal
  <1> DEFINE Onward ==
        \A k \in Commitments :
          <<Eligibility(k), Eligibility(k)'>> \in
            {<<"ABSENT", "ABSENT">>, <<"ABSENT", "ACTIVE">>, <<"ACTIVE", "ACTIVE">>,
             <<"ACTIVE", "WITHDRAWN">>, <<"WITHDRAWN", "WITHDRAWN">>}
  <1>1. ASSUME RegistryInv, [RegistryNext]_registryVars, NEW k \in Commitments
        PROVE  <<Eligibility(k), Eligibility(k)'>> \in
                 {<<"ABSENT", "ABSENT">>, <<"ABSENT", "ACTIVE">>, <<"ACTIVE", "ACTIVE">>,
                  <<"ACTIVE", "WITHDRAWN">>, <<"WITHDRAWN", "WITHDRAWN">>}
    <2> DEFINE active == /\ credentials[k].status = "ACTIVE"
                         /\ voters[credentials[k].voter].status = "ACTIVE"
               activeNext == /\ credentials'[k].status = "ACTIVE"
                             /\ voters'[credentials'[k].voter].status = "ACTIVE"
    <2>1. /\ Eligibility(k) = IF credentials[k] = Absent THEN "ABSENT"
                              ELSE IF active THEN "ACTIVE" ELSE "WITHDRAWN"
          /\ Eligibility(k)' = IF credentials'[k] = Absent THEN "ABSENT"
                               ELSE IF activeNext THEN "ACTIVE" ELSE "WITHDRAWN"
      <3>1. k \in ListActiveDeterministically <=> active BY DEF ListActiveDeterministically
      <3>2. (k \in ListActiveDeterministically)' <=> activeNext BY DEF ListActiveDeterministically
      <3>0. (credentials[k] = Absent => ~active) /\ (credentials'[k] = Absent => ~activeNext)
        BY DEF Absent
      <3> HIDE DEF active, activeNext
      <3>3. Eligibility(k) = IF credentials[k] = Absent THEN "ABSENT"
                             ELSE IF active THEN "ACTIVE" ELSE "WITHDRAWN"
        BY <3>0, <3>1 DEF Eligibility
      <3>4. Eligibility(k)' = IF credentials'[k] = Absent THEN "ABSENT"
                              ELSE IF activeNext THEN "ACTIVE" ELSE "WITHDRAWN"
        BY <3>0, <3>2 DEF Eligibility
      <3> QED BY <3>3, <3>4
    <2>2. RollFades BY <1>1, RegistryStep
    <2>3. credentials[k] \in Credential \cup {Absent}
          /\ (credentials[k] # Absent => credentials[k].voter \in DOMAIN voters)
      BY <1>1 DEF RegistryInv, RegistryTypeOK
    <2>4. CASE UNCHANGED credentials
      <3>1. active \/ ~activeNext \/ credentials[k] = Absent
        BY <2>2, <2>3, <2>4 DEF RollFades
      <3> QED BY <2>1, <2>4, <3>1
    <2>5. CASE Rotation
      <3>1. PICK v \in DOMAIN voters, l \in Commitments :
              /\ voters[v].status = "ACTIVE" /\ credentials[l] = Absent
              /\ credentials' = Replaced(v, l, ActiveOf(v)) /\ voters' = voters
        BY <2>5 DEF Rotation
      <3>2. CASE k \in ActiveOf(v)
        <4>1. credentials'[k].status = "ROTATED" BY <1>1, <3>1, <3>2, ReplacedRows
        <4>2. active BY <3>1, <3>2 DEF ActiveOf
        <4> QED BY <2>1, <4>1, <4>2 DEF Absent
      <3>3. CASE k = l
        <4>1. credentials'[k].status = "ACTIVE" /\ credentials'[k].voter = v
          BY <1>1, <3>1, <3>3, ReplacedRows
        <4>2. credentials'[k] # Absent BY <4>1 DEF Absent
        <4> QED BY <2>1, <3>1, <3>3, <4>1, <4>2
      <3>4. CASE k \notin ActiveOf(v) \cup {l}
        <4>1. credentials'[k] = credentials[k] BY <1>1, <3>1, <3>4, ReplacedRows
        <4> QED BY <2>1, <3>1, <4>1
      <3> QED BY <3>2, <3>3, <3>4
    <2>6. CASE Revocation
      <3>1. PICK l \in Commitments :
              /\ credentials[l].status = "ACTIVE" /\ voters' = voters
              /\ credentials' = [credentials EXCEPT ![l] = Revoked(@)]
        BY <2>6 DEF Revocation
      <3>2. CASE k = l
        <4>1. credentials[k] # Absent BY <3>1, <3>2 DEF Absent
        <4>2. credentials'[k].status = "REVOKED"
          BY <1>1, <2>3, <3>1, <3>2, <4>1 DEF Revoked, Credential, RegistryInv, RegistryTypeOK
        <4>3. credentials'[k] # Absent BY <4>2 DEF Absent
        <4> QED BY <2>1, <4>1, <4>2, <4>3
      <3>3. CASE k # l
        <4>1. credentials'[k] = credentials[k]
          BY <1>1, <3>1, <3>3 DEF RegistryInv, RegistryTypeOK
        <4> QED BY <2>1, <3>1, <4>1
      <3> QED BY <3>2, <3>3
    <2> QED BY <1>1, <2>4, <2>5, <2>6, RegistryStep
  <1>2. RegistryInv /\ [RegistryNext]_registryVars => [Onward]_registryVars BY <1>1
  <1> QED BY RegistryInvariance, <1>2, PTL DEF RegistrySpec, WithdrawnIsFinal
-----------------------------------------------------------------------------
\* The tree of a snapshot.

\* A set of numbers with 0 and, with each number, the next one, has all.
LEMMA Induction ==
  ASSUME NEW S, 0 \in S, \A n \in Nat : n \in S => n + 1 \in S
  PROVE  \A n \in Nat : n \in S
  <1> DEFINE T == Nat \ S
             R == OpToRel(<, Nat)
  <1> SUFFICES ASSUME T # {} PROVE FALSE OBVIOUS
  <1>1. PICK n \in T : \A m \in T : <<m, n>> \notin R
    <2>1. IsWellFoundedOn(R, Nat) BY NatLessThanWellFounded
    <2>2. T \subseteq Nat OBVIOUS
    <2> HIDE DEF R, T
    <2>3. QED BY <2>1, <2>2, WFMin
  <1>2. n \in Nat /\ n # 0 /\ n - 1 \in Nat OBVIOUS
  <1>3. n - 1 \in T
    <2>1. (n - 1) + 1 = n BY <1>2
    <2>2. n - 1 \notin S BY <1>2, <2>1
    <2>3. QED BY <1>2, <2>2
  <1>4. <<n - 1, n>> \in R BY <1>2 DEF OpToRel
  <1>5. QED BY <1>1, <1>3, <1>4

\* The nodes over those of a layer.
Above(current, level) ==
  [i \in 1..((Len(current) + 1) \div 2) |->
     HashMerkleNodeV1(current[2 * i - 1], Node(current, level, 2 * i))]

\* Layers, ZeroValues, the index of a path, its hashes and CompleteRoot are recursive
\* functions, hence a CHOOSE.  Each lemma shows by induction on the levels that such a
\* function exists, so that it is the one its definition describes.
LEMMA LayersAre ==
  ASSUME NEW leaves
  PROVE  Layers(leaves) = [level \in Levels |->
                             IF level = 0 THEN leaves
                             ELSE Above(Layers(leaves)[level - 1], level - 1)]
  <1> DEFINE Upto(f, n) == f = [level \in 0..n |-> IF level = 0 THEN leaves
                                                   ELSE Above(f[level - 1], level - 1)]
             S == {n \in Nat : \E f : Upto(f, n)}
  <1>1. 0 \in S
    <2>1. Upto([level \in 0..0 |-> leaves], 0) OBVIOUS
    <2> QED BY <2>1
  <1>2. ASSUME NEW n \in Nat, n \in S PROVE n + 1 \in S
    <2>1. PICK g : Upto(g, n) BY <1>2
    <2> DEFINE f == [level \in 0..(n + 1) |-> IF level <= n THEN g[level] ELSE Above(g[n], n)]
    <2>2. Upto(f, n + 1) BY <2>1
    <2> HIDE DEF Upto, f
    <2> QED BY <2>2
  <1>3. TREE_DEPTH_V1 \in S
    <2> HIDE DEF S
    <2> QED BY <1>1, <1>2, Induction, TreeAssumption
  <1>4. Layers(leaves) = CHOOSE f : Upto(f, TREE_DEPTH_V1) BY DEF Layers, Above, Levels
  <1> HIDE DEF Upto
  <1>5. Upto(Layers(leaves), TREE_DEPTH_V1) BY <1>3, <1>4
  <1> QED BY <1>5 DEF Upto, Levels

\* Powers of two, which the library knows as the sizes of power sets only.
LEMMA Power ==
  /\ 2^0 = 1
  /\ \A k \in Nat : 2^k \in Nat /\ 2^(k + 1) = 2 * 2^k
  <1>1. ASSUME NEW S, IsFiniteSet(S)
        PROVE  Cardinality(SUBSET S) \in Nat /\ Cardinality(SUBSET S) = 2^Cardinality(S)
    BY <1>1, FS_SUBSET, FS_CardinalityType
  <1>2. Cardinality({}) = 0 /\ SUBSET {} = {{}} /\ Cardinality({{}}) = 1 /\ IsFiniteSet({})
    BY FS_EmptySet, FS_Singleton
  <1>3. 2^0 = 1 BY <1>1, <1>2
  <1>4. ASSUME NEW k \in Nat PROVE 2^k \in Nat /\ 2^(k + 1) = 2 * 2^k
    <2> DEFINE S == 1..k
               T == SUBSET S
               U == {X \cup {k + 1} : X \in T}
    <2>1. /\ IsFiniteSet(S) /\ Cardinality(S) = k
          /\ IsFiniteSet(1..(k+1)) /\ Cardinality(1..(k+1)) = k + 1
      BY FS_Interval
    <2>2. IsFiniteSet(T) /\ Cardinality(T) = 2^k BY <2>1, FS_SUBSET
    <2>3. SUBSET (1..(k+1)) = T \cup U /\ T \cap U = {}
      <3>1. ASSUME NEW X \in SUBSET (1..(k+1)) PROVE X \in T \cup U
        <4>1. CASE k + 1 \notin X BY <4>1
        <4>2. CASE k + 1 \in X
          <5>1. X \ {k+1} \in T /\ X = (X \ {k+1}) \cup {k + 1} BY <4>2
          <5> QED BY <5>1
        <4> QED BY <4>1, <4>2
      <3>2. ASSUME NEW X \in T \cup U PROVE X \in SUBSET (1..(k+1)) OBVIOUS
      <3>3. T \cap U = {}
        <4>1. k + 1 \notin S OBVIOUS
        <4> QED BY <4>1
      <3> QED BY <3>1, <3>2, <3>3
    <2>4. IsFiniteSet(U) /\ Cardinality(U) = Cardinality(T)
      <3> DEFINE g == [X \in T |-> X \cup {k + 1}]
      <3>1. g \in Bijection(T, U)
        <4>1. k + 1 \notin S OBVIOUS
        <4>2. \A X, Y \in T : X \cup {k + 1} = Y \cup {k + 1} => X = Y
          <5> TAKE X \in T, Y \in T
          <5>1. k + 1 \notin X /\ k + 1 \notin Y BY <4>1
          <5> QED BY <5>1
        <4>3. g \in [T -> U] /\ \A Y \in U : \E X \in T : g[X] = Y OBVIOUS
        <4>4. \A X, Y \in T : g[X] = g[Y] => X = Y BY <4>2
        <4> HIDE DEF g, T, U
        <4> QED BY <4>3, <4>4 DEF Bijection, Injection, Surjection, IsInjective
      <3> QED BY <2>2, <3>1, FS_Bijection DEF ExistsBijection
    <2> HIDE DEF T, U
    <2>5. Cardinality(T \cup U) = Cardinality(T) + Cardinality(U)
      <3>1. Cardinality(T \cup U) = Cardinality(T) + Cardinality(U) - Cardinality({})
        BY <2>2, <2>3, <2>4, FS_Union
      <3>2. Cardinality({}) = 0 /\ Cardinality(T) \in Nat /\ Cardinality(U) \in Nat
        BY <2>2, <2>4, FS_EmptySet, FS_CardinalityType
      <3> QED BY <3>1, <3>2
    <2>6. Cardinality(SUBSET (1..(k+1))) = 2^(k + 1) BY <2>1, FS_SUBSET
    <2>7. Cardinality(T) \in Nat BY <2>2, FS_CardinalityType
    <2>8. Cardinality(SUBSET (1..(k+1))) = 2 * Cardinality(T)
      <3>1. Cardinality(T \cup U) = 2 * Cardinality(T) BY <2>4, <2>5, <2>7
      <3>2. SUBSET (1..(k+1)) = T \cup U BY <2>3
      <3> QED BY <3>1, <3>2, Zenon
    <2>9. 2^k \in Nat BY <2>2, <2>7
    <2>10. 2^(k + 1) = 2 * 2^k BY <2>2, <2>6, <2>8, Zenon
    <2> QED BY <2>9, <2>10
  <1> QED BY <1>3, <1>4

LEMMA ZeroValuesAre ==
  ZeroValues = [level \in Levels |->
                  IF level = 0 THEN ZERO_LEAF_V1
                  ELSE HashMerkleNodeV1(ZeroValues[level - 1], ZeroValues[level - 1])]
  <1> DEFINE Upto(f, n) == f = [level \in 0..n |->
                                  IF level = 0 THEN ZERO_LEAF_V1
                                  ELSE HashMerkleNodeV1(f[level - 1], f[level - 1])]
             S == {n \in Nat : \E f : Upto(f, n)}
  <1>1. 0 \in S
    <2>1. Upto([level \in 0..0 |-> ZERO_LEAF_V1], 0) OBVIOUS
    <2> QED BY <2>1
  <1>2. ASSUME NEW n \in Nat, n \in S PROVE n + 1 \in S
    <2>1. PICK g : Upto(g, n) BY <1>2
    <2> DEFINE f == [level \in 0..(n + 1) |-> IF level <= n THEN g[level]
                                              ELSE HashMerkleNodeV1(g[n], g[n])]
    <2>2. Upto(f, n + 1) BY <2>1
    <2> HIDE DEF Upto, f
    <2> QED BY <2>2
  <1>3. TREE_DEPTH_V1 \in S
    <2> HIDE DEF S
    <2> QED BY <1>1, <1>2, Induction, TreeAssumption
  <1>4. ZeroValues = CHOOSE f : Upto(f, TREE_DEPTH_V1) BY DEF ZeroValues, Levels
  <1> HIDE DEF Upto
  <1>5. Upto(ZeroValues, TREE_DEPTH_V1) BY <1>3, <1>4
  <1> QED BY <1>5 DEF Upto, Levels

\* The index of the ancestor of a leaf, by level.
PathIndex(leafIndex) ==
  LET index[level \in Levels] ==
        IF level = 0 THEN leafIndex ELSE index[level - 1] \div 2
  IN index

LEMMA PathIndexIs ==
  ASSUME NEW leafIndex
  PROVE  PathIndex(leafIndex) = [level \in Levels |->
                                   IF level = 0 THEN leafIndex
                                   ELSE PathIndex(leafIndex)[level - 1] \div 2]
  <1> DEFINE Upto(f, n) == f = [level \in 0..n |-> IF level = 0 THEN leafIndex
                                                   ELSE f[level - 1] \div 2]
             S == {n \in Nat : \E f : Upto(f, n)}
  <1>1. 0 \in S
    <2>1. Upto([level \in 0..0 |-> leafIndex], 0) OBVIOUS
    <2> QED BY <2>1
  <1>2. ASSUME NEW n \in Nat, n \in S PROVE n + 1 \in S
    <2>1. PICK g : Upto(g, n) BY <1>2
    <2> DEFINE f == [level \in 0..(n + 1) |-> IF level <= n THEN g[level] ELSE g[n] \div 2]
    <2>2. Upto(f, n + 1) BY <2>1
    <2> HIDE DEF Upto, f
    <2> QED BY <2>2
  <1>3. TREE_DEPTH_V1 \in S
    <2> HIDE DEF S
    <2> QED BY <1>1, <1>2, Induction, TreeAssumption
  <1>4. PathIndex(leafIndex) = CHOOSE f : Upto(f, TREE_DEPTH_V1) BY DEF PathIndex, Levels
  <1> HIDE DEF Upto
  <1>5. Upto(PathIndex(leafIndex), TREE_DEPTH_V1) BY <1>3, <1>4
  <1> QED BY <1>5 DEF Upto, Levels

\* The hash of a node of a path with its sibling.
Join(hash, proof, level) ==
  LET element == proof.pathElements[level] IN
  IF proof.pathIndices[level] = 0 THEN HashMerkleNodeV1(hash, element)
                                  ELSE HashMerkleNodeV1(element, hash)

\* The hashes up a path.
Hashes(leaf, proof) ==
  LET hashes[level \in Levels] ==
        IF level = 0 THEN leaf ELSE Join(hashes[level - 1], proof, level - 1)
  IN hashes

LEMMA HashesAre ==
  ASSUME NEW leaf, NEW proof
  PROVE  /\ MerkleRootV1(leaf, proof) = Hashes(leaf, proof)[TREE_DEPTH_V1]
         /\ Hashes(leaf, proof) =
              [level \in Levels |->
                 IF level = 0 THEN leaf
                 ELSE Join(Hashes(leaf, proof)[level - 1], proof, level - 1)]
  <1> DEFINE Upto(f, n) == f = [level \in 0..n |-> IF level = 0 THEN leaf
                                                   ELSE Join(f[level - 1], proof, level - 1)]
             S == {n \in Nat : \E f : Upto(f, n)}
  <1>1. 0 \in S
    <2>1. Upto([level \in 0..0 |-> leaf], 0) OBVIOUS
    <2> QED BY <2>1
  <1>2. ASSUME NEW n \in Nat, n \in S PROVE n + 1 \in S
    <2>1. PICK g : Upto(g, n) BY <1>2
    <2> DEFINE f == [level \in 0..(n + 1) |-> IF level <= n THEN g[level]
                                              ELSE Join(g[n], proof, n)]
    <2>2. Upto(f, n + 1) BY <2>1
    <2> HIDE DEF Upto, f
    <2> QED BY <2>2
  <1>3. TREE_DEPTH_V1 \in S
    <2> HIDE DEF S
    <2> QED BY <1>1, <1>2, Induction, TreeAssumption
  <1>4. Hashes(leaf, proof) = CHOOSE f : Upto(f, TREE_DEPTH_V1) BY DEF Hashes, Levels
  <1>5. MerkleRootV1(leaf, proof) = Hashes(leaf, proof)[TREE_DEPTH_V1]
    BY DEF MerkleRootV1, Hashes, Join
  <1> HIDE DEF Upto
  <1>6. Upto(Hashes(leaf, proof), TREE_DEPTH_V1) BY <1>3, <1>4
  <1> QED BY <1>5, <1>6 DEF Upto, Levels

\* Every node of the complete tree.
Complete(leaves) ==
  LET nodes[level \in Levels] ==
        IF level = 0
        THEN [i \in Nat |-> IF i < Len(leaves) THEN leaves[i + 1] ELSE ZERO_LEAF_V1]
        ELSE [i \in Nat |-> HashMerkleNodeV1(nodes[level - 1][2 * i],
                                             nodes[level - 1][2 * i + 1])]
  IN nodes

LEMMA CompleteIs ==
  ASSUME NEW leaves
  PROVE  /\ CompleteRoot(leaves) = Complete(leaves)[TREE_DEPTH_V1][0]
         /\ \A i \in Nat : Complete(leaves)[0][i] =
                             IF i < Len(leaves) THEN leaves[i + 1] ELSE ZERO_LEAF_V1
         /\ \A level \in Nat : level + 1 \in Levels =>
              \A i \in Nat : Complete(leaves)[level + 1][i] =
                               HashMerkleNodeV1(Complete(leaves)[level][2 * i],
                                                Complete(leaves)[level][2 * i + 1])
  <1> DEFINE Below == [i \in Nat |-> IF i < Len(leaves) THEN leaves[i + 1] ELSE ZERO_LEAF_V1]
             Over(g) == [i \in Nat |-> HashMerkleNodeV1(g[2 * i], g[2 * i + 1])]
             Upto(f, n) == f = [level \in 0..n |-> IF level = 0 THEN Below
                                                   ELSE Over(f[level - 1])]
             S == {n \in Nat : \E f : Upto(f, n)}
  <1>1. Complete(leaves) = CHOOSE f : Upto(f, TREE_DEPTH_V1) BY DEF Complete, Levels
  <1>2. CompleteRoot(leaves) = Complete(leaves)[TREE_DEPTH_V1][0]
    BY DEF CompleteRoot, Complete
  <1>3. \A i \in Nat : Below[i] = IF i < Len(leaves) THEN leaves[i + 1] ELSE ZERO_LEAF_V1
    OBVIOUS
  <1>4. \A g : \A i \in Nat : Over(g)[i] = HashMerkleNodeV1(g[2 * i], g[2 * i + 1]) OBVIOUS
  <1> HIDE DEF Below, Over
  <1>5. 0 \in S
    <2>1. Upto([level \in 0..0 |-> Below], 0) OBVIOUS
    <2> QED BY <2>1
  <1>6. ASSUME NEW n \in Nat, n \in S PROVE n + 1 \in S
    <2>1. PICK g : Upto(g, n) BY <1>6
    <2> DEFINE f == [level \in 0..(n + 1) |-> IF level <= n THEN g[level] ELSE Over(g[n])]
    <2>2. Upto(f, n + 1) BY <2>1
    <2> HIDE DEF Upto, f
    <2> QED BY <2>2
  <1>7. TREE_DEPTH_V1 \in S
    <2> HIDE DEF S
    <2> QED BY <1>5, <1>6, Induction, TreeAssumption
  <1>8. Upto(Complete(leaves), TREE_DEPTH_V1)
    <2> HIDE DEF Upto
    <2> QED BY <1>1, <1>7
  <1>9. \A level \in Levels : Complete(leaves)[level] =
          IF level = 0 THEN Below ELSE Over(Complete(leaves)[level - 1])
    BY <1>8 DEF Levels
  <1>10. 0 \in Levels BY TreeAssumption DEF Levels
  <1> HIDE DEF Upto
  <1>11. Complete(leaves)[0] = Below BY <1>9, <1>10
  <1>12. \A level \in Nat : level + 1 \in Levels =>
           Complete(leaves)[level + 1] = Over(Complete(leaves)[level])
    BY <1>9
  <1> QED BY <1>2, <1>3, <1>4, <1>11, <1>12

\* A list of whatever elements: they are numbers in the leaves and pairs above.
IsList(list) == Len(list) \in Nat /\ list = [i \in 1..Len(list) |-> list[i]]

LEMMA ListLength ==
  ASSUME NEW n \in Nat, NEW list, list = [i \in 1..n |-> list[i]]
  PROVE  IsList(list) /\ Len(list) = n
  <1> DEFINE S == {list[i] : i \in 1..n}
  <1>1. list \in [1..n -> S] OBVIOUS
  <1> HIDE DEF S
  <1>2. list \in Seq(S) /\ Len(list) = n BY <1>1
  <1> QED BY <1>2 DEF IsList

\* A layer is a list of half as many nodes as the one below, rounded up.
LEMMA AboveIs ==
  ASSUME NEW current, IsList(current), NEW level
  PROVE  LET above == Above(current, level)
         IN  /\ IsList(above) /\ Len(above) = (Len(current) + 1) \div 2
             /\ \A i \in 1..Len(above) :
                  above[i] = HashMerkleNodeV1(current[2 * i - 1], Node(current, level, 2 * i))
  <1> DEFINE above == Above(current, level)
             n == (Len(current) + 1) \div 2
  <1>1. n \in Nat BY DEF IsList
  <1>2. above = [i \in 1..n |-> above[i]] BY DEF Above
  <1>3. \A i \in 1..n :
          above[i] = HashMerkleNodeV1(current[2 * i - 1], Node(current, level, 2 * i))
    BY DEF Above
  <1> HIDE DEF above, n
  <1>4. IsList(above) /\ Len(above) = n BY <1>1, <1>2, ListLength
  <1> QED BY <1>3, <1>4 DEF above, n

\* Each layer is a list, over the first of which there is a root.
LEMMA LayersAreLists ==
  ASSUME NEW leaves, IsList(leaves), leaves # <<>>
  PROVE  LET layers == Layers(leaves)
         IN  /\ layers[0] = leaves
             /\ \A level \in Levels : IsList(layers[level]) /\ Len(layers[level]) >= 1
             /\ \A level \in Nat : level + 1 \in Levels =>
                  /\ level \in Levels
                  /\ Len(layers[level + 1]) = (Len(layers[level]) + 1) \div 2
                  /\ \A i \in 1..Len(layers[level + 1]) :
                       layers[level + 1][i] =
                         HashMerkleNodeV1(layers[level][2 * i - 1],
                                          Node(layers[level], level, 2 * i))
  <1> DEFINE layers == Layers(leaves)
             S == {level \in Nat : level \in Levels =>
                                     IsList(layers[level]) /\ Len(layers[level]) >= 1}
  <1>1. 0 \in Levels /\ \A level \in Levels : level \in Nat BY TreeAssumption DEF Levels
  <1>2. layers[0] = leaves BY <1>1, LayersAre
  <1>3. ASSUME NEW level \in Nat, level + 1 \in Levels
        PROVE  level \in Levels /\ layers[level + 1] = Above(layers[level], level)
    <2>1. level \in Levels /\ level + 1 # 0 /\ (level + 1) - 1 = level
      BY <1>3, TreeAssumption DEF Levels
    <2>2. layers = [l \in Levels |-> IF l = 0 THEN leaves ELSE Above(layers[l - 1], l - 1)]
      BY LayersAre
    <2> HIDE DEF layers
    <2>3. layers[level + 1] = Above(layers[(level + 1) - 1], (level + 1) - 1)
      BY <1>3, <2>1, <2>2
    <2> QED BY <2>1, <2>3
  <1> HIDE DEF layers
  <1>4. Len(leaves) >= 1
    <2>1. Len(leaves) = 0 => leaves = <<>> BY DEF IsList
    <2> QED BY <2>1 DEF IsList
  <1>5. 0 \in S BY <1>2, <1>4
  <1>6. ASSUME NEW level \in Nat, level \in S PROVE level + 1 \in S
    <2> SUFFICES ASSUME level + 1 \in Levels
                 PROVE  IsList(layers[level + 1]) /\ Len(layers[level + 1]) >= 1
      OBVIOUS
    <2>1. IsList(layers[level]) /\ Len(layers[level]) >= 1 BY <1>3, <1>6
    <2>2. Len(layers[level]) \in Nat BY <2>1 DEF IsList
    <2> QED BY <1>3, <2>1, <2>2, AboveIs
  <1>7. ASSUME NEW level \in Levels
        PROVE  IsList(layers[level]) /\ Len(layers[level]) >= 1
    <2> HIDE DEF S
    <2>1. level \in S BY <1>1, <1>5, <1>6, Induction
    <2> QED BY <2>1 DEF S
  <1>8. ASSUME NEW level \in Nat, level + 1 \in Levels
        PROVE  /\ level \in Levels
               /\ Len(layers[level + 1]) = (Len(layers[level]) + 1) \div 2
               /\ \A i \in 1..Len(layers[level + 1]) :
                    layers[level + 1][i] =
                      HashMerkleNodeV1(layers[level][2 * i - 1],
                                       Node(layers[level], level, 2 * i))
    BY <1>3, <1>7, <1>8, AboveIs
  <1> QED BY <1>2, <1>7, <1>8 DEF layers

\* The root is that of the tree with all its places.
LEMMA RootIsComplete ==
  ASSUME NEW leaves, IsList(leaves), leaves # <<>>
  PROVE  Layers(leaves)[TREE_DEPTH_V1][1] = CompleteRoot(leaves)
  <1> DEFINE layers == Layers(leaves)
             nodes == Complete(leaves)
             S == {level \in Nat : level \in Levels =>
                     \A i \in Nat : nodes[level][i] = Node(layers[level], level, i + 1)}
  <1>1. TREE_DEPTH_V1 \in Levels /\ 0 \in Levels /\ \A level \in Levels : level \in Nat
    BY TreeAssumption DEF Levels
  <1>2. /\ layers[0] = leaves
        /\ \A level \in Levels : IsList(layers[level]) /\ Len(layers[level]) >= 1
        /\ \A level \in Nat : level + 1 \in Levels =>
             /\ level \in Levels
             /\ Len(layers[level + 1]) = (Len(layers[level]) + 1) \div 2
             /\ \A i \in 1..Len(layers[level + 1]) :
                  layers[level + 1][i] =
                    HashMerkleNodeV1(layers[level][2 * i - 1],
                                     Node(layers[level], level, 2 * i))
    BY LayersAreLists
  <1>3. ZeroValues[0] = ZERO_LEAF_V1 BY <1>1, ZeroValuesAre
  <1>4. \A level \in Nat : level + 1 \in Levels =>
          ZeroValues[level + 1] = HashMerkleNodeV1(ZeroValues[level], ZeroValues[level])
    <2> SUFFICES ASSUME NEW level \in Nat, level + 1 \in Levels
                 PROVE  ZeroValues[level + 1]
                          = HashMerkleNodeV1(ZeroValues[level], ZeroValues[level])
      OBVIOUS
    <2>1. level + 1 # 0 /\ (level + 1) - 1 = level OBVIOUS
    <2>2. ZeroValues[level + 1]
            = HashMerkleNodeV1(ZeroValues[(level + 1) - 1], ZeroValues[(level + 1) - 1])
      BY <2>1, ZeroValuesAre
    <2> QED BY <2>1, <2>2
  <1>5. /\ CompleteRoot(leaves) = nodes[TREE_DEPTH_V1][0]
        /\ \A i \in Nat : nodes[0][i] = IF i < Len(leaves) THEN leaves[i + 1] ELSE ZERO_LEAF_V1
        /\ \A level \in Nat : level + 1 \in Levels =>
             \A i \in Nat : nodes[level + 1][i] = HashMerkleNodeV1(nodes[level][2 * i],
                                                                   nodes[level][2 * i + 1])
    BY CompleteIs
  <1> HIDE DEF layers, nodes
  <1>6. 0 \in S
    <2>1. DOMAIN leaves = 1..Len(leaves) /\ Len(leaves) \in Nat BY DEF IsList
    <2>2. \A i \in Nat : i + 1 \in DOMAIN leaves <=> i < Len(leaves) BY <2>1
    <2> QED BY <1>2, <1>3, <1>5, <2>2 DEF Node
  <1>7. ASSUME NEW level \in Nat, level \in S PROVE level + 1 \in S
    <2> SUFFICES ASSUME level + 1 \in Levels, NEW i \in Nat
                 PROVE  nodes[level + 1][i] = Node(layers[level + 1], level + 1, i + 1)
      OBVIOUS
    <2> DEFINE below == layers[level]
               above == layers[level + 1]
    <2>1. level \in Levels /\ \A j \in Nat : nodes[level][j] = Node(below, level, j + 1)
      BY <1>2, <1>7
    <2>2. /\ DOMAIN below = 1..Len(below) /\ Len(below) \in Nat
          /\ DOMAIN above = 1..Len(above) /\ Len(above) \in Nat
          /\ Len(above) = (Len(below) + 1) \div 2
      BY <1>2, <2>1 DEF IsList
    <2> HIDE DEF below, above, S
    <2>3. nodes[level + 1][i] = HashMerkleNodeV1(Node(below, level, 2 * i + 1),
                                                 Node(below, level, 2 * i + 2))
      <3> DEFINE j == 2 * i
                 k == 2 * i + 1
      <3>1. j \in Nat /\ k \in Nat /\ j + 1 = 2 * i + 1 /\ k + 1 = 2 * i + 2 OBVIOUS
      <3>2. nodes[level + 1][i] = HashMerkleNodeV1(nodes[level][j], nodes[level][k]) BY <1>5
      <3> HIDE DEF j, k
      <3>3. nodes[level][j] = Node(below, level, j + 1) /\ nodes[level][k] = Node(below, level, k + 1)
        BY <2>1, <3>1
      <3> QED BY <3>1, <3>2, <3>3
    <2> DEFINE n == Len(below)
               m == Len(above)
    <2>6. n \in Nat /\ m \in Nat /\ m = (n + 1) \div 2
          /\ DOMAIN below = 1..n /\ DOMAIN above = 1..m
      BY <2>2
    <2> HIDE DEF n, m
    <2>7. 2 * m = n \/ 2 * m = n + 1 BY <2>6
    <2>4. CASE i + 1 \in DOMAIN above
      <3>1. i + 1 \in 1..m /\ 2 * (i + 1) - 1 = 2 * i + 1 /\ 2 * (i + 1) = 2 * i + 2
        BY <2>4, <2>6
      <3>2. 2 * i + 1 \in DOMAIN below BY <2>6, <2>7, <3>1
      <3>3. above[i + 1] = HashMerkleNodeV1(below[2 * (i + 1) - 1],
                                            Node(below, level, 2 * (i + 1)))
        BY <1>2, <3>1 DEF above, below, m
      <3>4. above[i + 1] = HashMerkleNodeV1(below[2 * i + 1], Node(below, level, 2 * i + 2))
        BY <3>1, <3>3
      <3>5. Node(below, level, 2 * i + 1) = below[2 * i + 1] BY <3>2 DEF Node
      <3>6. Node(above, level + 1, i + 1) = above[i + 1] BY <2>4 DEF Node
      <3> QED BY <2>3, <3>4, <3>5, <3>6 DEF above
    <2>5. CASE i + 1 \notin DOMAIN above
      <3>1. 2 * i + 1 \notin DOMAIN below /\ 2 * i + 2 \notin DOMAIN below
        BY <2>5, <2>6, <2>7
      <3>2. /\ Node(below, level, 2 * i + 1) = ZeroValues[level]
            /\ Node(below, level, 2 * i + 2) = ZeroValues[level]
            /\ Node(above, level + 1, i + 1) = ZeroValues[level + 1]
        BY <2>5, <3>1 DEF Node
      <3> QED BY <1>4, <2>3, <3>2 DEF above
    <2> QED BY <2>4, <2>5
  <1>8. nodes[TREE_DEPTH_V1][0] = Node(layers[TREE_DEPTH_V1], TREE_DEPTH_V1, 1)
    <2> HIDE DEF S
    <2>1. TREE_DEPTH_V1 \in S BY <1>1, <1>6, <1>7, Induction
    <2>2. 0 \in Nat /\ 0 + 1 = 1 OBVIOUS
    <2> QED BY <1>1, <2>1, <2>2 DEF S
  <1>9. 1 \in DOMAIN layers[TREE_DEPTH_V1]
    <2> DEFINE layer == layers[TREE_DEPTH_V1]
    <2>1. IsList(layer) /\ Len(layer) >= 1 BY <1>1, <1>2
    <2> HIDE DEF layer
    <2>2. DOMAIN layer = 1..Len(layer) /\ Len(layer) \in Nat BY <2>1 DEF IsList
    <2>3. 1 \in DOMAIN layer BY <2>1, <2>2
    <2> QED BY <2>3 DEF layer
  <1> QED BY <1>5, <1>8, <1>9 DEF Node, layers

\* The layers over the leaves of a tree that is not empty.
TreeOf(leaves) == [leaves |-> leaves, layers |-> Layers(leaves),
                   root |-> Layers(leaves)[TREE_DEPTH_V1][1]]

\* The path from a leaf meets a computed node of every layer.
LEMMA PathStays ==
  ASSUME NEW leaves, IsList(leaves), leaves # <<>>, NEW i \in 0..(Len(leaves) - 1)
  PROVE  \A level \in Levels : /\ PathIndex(i)[level] \in Nat
                               /\ PathIndex(i)[level] < Len(Layers(leaves)[level])
  <1> DEFINE layers == Layers(leaves)
             path == PathIndex(i)
             S == {level \in Nat : level \in Levels =>
                     path[level] \in Nat /\ path[level] < Len(layers[level])}
  <1>1. 0 \in Levels /\ \A level \in Levels : level \in Nat BY TreeAssumption DEF Levels
  <1>2. /\ layers[0] = leaves
        /\ \A level \in Levels : IsList(layers[level])
        /\ \A level \in Nat : level + 1 \in Levels =>
             level \in Levels /\ Len(layers[level + 1]) = (Len(layers[level]) + 1) \div 2
    BY LayersAreLists
  <1>3. path[0] = i /\ \A level \in Nat : level + 1 \in Levels =>
                         path[level + 1] = path[level] \div 2
    BY <1>1, PathIndexIs
  <1> HIDE DEF layers, path
  <1>4. 0 \in S BY <1>2, <1>3 DEF IsList
  <1>5. ASSUME NEW level \in Nat, level \in S PROVE level + 1 \in S
    <2> SUFFICES ASSUME level + 1 \in Levels
                 PROVE  path[level + 1] \in Nat /\ path[level + 1] < Len(layers[level + 1])
      OBVIOUS
    <2> DEFINE n == Len(layers[level])
               p == path[level]
    <2>1. n \in Nat /\ p \in Nat /\ p < n BY <1>2, <1>5 DEF IsList
    <2>2. Len(layers[level + 1]) = (n + 1) \div 2 /\ path[level + 1] = p \div 2
      BY <1>2, <1>3
    <2> HIDE DEF n, p, S
    <2>3. p \div 2 \in Nat /\ p \div 2 < (n + 1) \div 2 BY <2>1
    <2> QED BY <2>2, <2>3
  <1>6. \A level \in Nat : level \in S
    <2> HIDE DEF S
    <2> QED BY <1>4, <1>5, Induction
  <1> QED BY <1>1, <1>6 DEF layers, path

\* Over leaves that the tree has places for there is one root, where every path ends.
LEMMA PathEnds ==
  ASSUME NEW leaves, IsList(leaves), leaves # <<>>, Len(leaves) <= 2 ^ TREE_DEPTH_V1,
         NEW i \in 0..(Len(leaves) - 1)
  PROVE  PathIndex(i)[TREE_DEPTH_V1] = 0
  <1> DEFINE layers == Layers(leaves)
             D == TREE_DEPTH_V1
             S == {level \in Nat : level \in Levels =>
                     Len(layers[level]) <= 2 ^ (D - level)}
  <1>1. 0 \in Levels /\ D \in Levels /\ D \in Nat /\ \A level \in Levels : level \in Nat
    BY TreeAssumption DEF Levels
  <1>2. /\ layers[0] = leaves
        /\ \A level \in Levels : IsList(layers[level])
        /\ \A level \in Nat : level + 1 \in Levels =>
             level \in Levels /\ Len(layers[level + 1]) = (Len(layers[level]) + 1) \div 2
    BY LayersAreLists
  <1> HIDE DEF layers
  <1>3. 0 \in S
    <2>1. D - 0 = D BY <1>1
    <2> QED BY <1>2, <2>1
  <1>4. ASSUME NEW level \in Nat, level \in S PROVE level + 1 \in S
    <2> SUFFICES ASSUME level + 1 \in Levels
                 PROVE  Len(layers[level + 1]) <= 2 ^ (D - (level + 1))
      OBVIOUS
    <2> DEFINE n == Len(layers[level])
               k == D - (level + 1)
               w == 2 ^ k
    <2>1. k \in Nat /\ D - level = k + 1 BY <1>1 DEF Levels
    <2>2. n \in Nat /\ n <= 2 ^ (D - level) /\ Len(layers[level + 1]) = (n + 1) \div 2
      BY <1>2, <1>4 DEF IsList
    <2> HIDE DEF n, k, S, D
    <2>3. w \in Nat /\ n <= 2 * w BY <2>1, <2>2, Power
    <2> HIDE DEF w
    <2>4. (n + 1) \div 2 <= w BY <2>2, <2>3
    <2> QED BY <2>2, <2>4 DEF w, k
  <1>5. \A level \in Nat : level \in S
    <2> HIDE DEF S
    <2> QED BY <1>3, <1>4, Induction
  <1>6. Len(layers[D]) <= 1
    <2>1. D - D = 0 BY <1>1
    <2>2. Len(layers[D]) <= 2 ^ (D - D) BY <1>1, <1>5
    <2> QED BY <2>1, <2>2, Power
  <1>7. PathIndex(i)[D] \in Nat /\ PathIndex(i)[D] < Len(layers[D])
    BY <1>1, PathStays DEF layers
  <1>8. Len(layers[D]) \in Nat BY <1>1, <1>2 DEF IsList
  <1> QED BY <1>6, <1>7, <1>8

\* The hashes up the path of a leaf are the computed nodes over it.
LEMMA PathIsHashed ==
  ASSUME NEW leaves, IsList(leaves), leaves # <<>>, NEW i \in 0..(Len(leaves) - 1)
  PROVE  \A level \in Levels :
           Hashes(leaves[i + 1], MerkleProof(TreeOf(leaves), i))[level]
             = Layers(leaves)[level][PathIndex(i)[level] + 1]
  <1> DEFINE layers == Layers(leaves)
             path == PathIndex(i)
             proof == MerkleProof(TreeOf(leaves), i)
             hashes == Hashes(leaves[i + 1], proof)
             S == {level \in Nat : level \in Levels =>
                     hashes[level] = layers[level][path[level] + 1]}
  <1>1. 0 \in Levels /\ \A level \in Levels : level \in Nat BY TreeAssumption DEF Levels
  <1>2. /\ layers[0] = leaves
        /\ \A level \in Levels : IsList(layers[level])
        /\ \A level \in Nat : level + 1 \in Levels =>
             /\ level \in Levels
             /\ Len(layers[level + 1]) = (Len(layers[level]) + 1) \div 2
             /\ \A j \in 1..Len(layers[level + 1]) :
                  layers[level + 1][j] =
                    HashMerkleNodeV1(layers[level][2 * j - 1],
                                     Node(layers[level], level, 2 * j))
    BY LayersAreLists
  <1>3. path[0] = i /\ \A level \in Nat : level + 1 \in Levels =>
                         path[level + 1] = path[level] \div 2
    BY <1>1, PathIndexIs
  <1>4. \A level \in Levels : path[level] \in Nat /\ path[level] < Len(layers[level])
    BY PathStays
  <1>5. \A level \in Nat : level + 1 \in Levels =>
          /\ proof.pathElements[level] = Node(layers[level], level, Sibling(path[level]) + 1)
          /\ proof.pathIndices[level] = path[level] % 2
    <2>1. \A level \in Nat : level + 1 \in Levels => level \in Levels \ {TREE_DEPTH_V1}
      BY TreeAssumption DEF Levels
    <2>2. proof = [pathElements |-> [level \in Levels \ {TREE_DEPTH_V1} |->
                                       Node(layers[level], level, Sibling(path[level]) + 1)],
                   pathIndices |-> [level \in Levels \ {TREE_DEPTH_V1} |-> path[level] % 2]]
      BY DEF MerkleProof, PathIndex, TreeOf
    <2> HIDE DEF proof, layers, path
    <2> QED BY <2>1, <2>2
  <1>6. hashes[0] = leaves[i + 1] /\ \A level \in Nat : level + 1 \in Levels =>
          hashes[level + 1] = Join(hashes[level], proof, level)
    BY <1>1, HashesAre
  <1> HIDE DEF layers, path, proof, hashes
  <1>7. 0 \in S BY <1>2, <1>3, <1>6
  <1>8. ASSUME NEW level \in Nat, level \in S PROVE level + 1 \in S
    <2> SUFFICES ASSUME level + 1 \in Levels
                 PROVE  hashes[level + 1] = layers[level + 1][path[level + 1] + 1]
      OBVIOUS
    <2> DEFINE layer == layers[level]
               above == layers[level + 1]
               n == Len(layer)
               m == Len(above)
               p == path[level]
               q == path[level + 1]
    <2>1. level \in Levels /\ hashes[level] = layer[p + 1] BY <1>2, <1>8
    <2>2. /\ p \in Nat /\ p < n /\ q = p \div 2 /\ q \in Nat /\ q < m
          /\ n \in Nat /\ DOMAIN layer = 1..n /\ m \in Nat
      BY <1>2, <1>3, <1>4, <2>1 DEF IsList
    <2>3. \A j \in 1..m : above[j] = HashMerkleNodeV1(layer[2 * j - 1], Node(layer, level, 2 * j))
      BY <1>2
    <2>4. hashes[level + 1] = IF p % 2 = 0
                              THEN HashMerkleNodeV1(layer[p + 1], Node(layer, level, Sibling(p) + 1))
                              ELSE HashMerkleNodeV1(Node(layer, level, Sibling(p) + 1), layer[p + 1])
      BY <1>5, <1>6, <2>1 DEF Join
    <2> HIDE DEF layer, above, n, m, p, q, S
    <2>5. above[q + 1] = HashMerkleNodeV1(layer[2 * (q + 1) - 1], Node(layer, level, 2 * (q + 1)))
      <3>1. q + 1 \in 1..m BY <2>2
      <3> QED BY <2>3, <3>1
    <2>6. CASE p % 2 = 0
      <3>1. 2 * (q + 1) - 1 = p + 1 /\ 2 * (q + 1) = Sibling(p) + 1
        BY <2>2, <2>6 DEF Sibling
      <3>2. above[q + 1] = HashMerkleNodeV1(layer[p + 1], Node(layer, level, Sibling(p) + 1))
        BY <2>5, <3>1
      <3> QED BY <2>4, <2>6, <3>2 DEF above, q
    <2>7. CASE p % 2 # 0
      <3>1. 2 * (q + 1) - 1 = Sibling(p) + 1 /\ 2 * (q + 1) = p + 1 /\ Sibling(p) + 1 \in 1..n
            /\ p + 1 \in 1..n
        BY <2>2, <2>7 DEF Sibling
      <3>2. above[q + 1] = HashMerkleNodeV1(layer[Sibling(p) + 1], Node(layer, level, p + 1))
        BY <2>5, <3>1
      <3>3. Node(layer, level, p + 1) = layer[p + 1]
            /\ Node(layer, level, Sibling(p) + 1) = layer[Sibling(p) + 1]
        BY <2>2, <3>1 DEF Node
      <3> QED BY <2>4, <2>7, <3>2, <3>3 DEF above, q
    <2> QED BY <2>6, <2>7
  <1>9. \A level \in Nat : level \in S
    <2> HIDE DEF S
    <2> QED BY <1>7, <1>8, Induction
  <1> QED BY <1>1, <1>9 DEF layers, path, proof, hashes

\* A path leads from one leaf only to the root it leads to.
LEMMA OneStart ==
  ASSUME NEW proof, NEW k, NEW l, MerkleRootV1(k, proof) = MerkleRootV1(l, proof)
  PROVE  k = l
  <1> DEFINE D == TREE_DEPTH_V1
             f == Hashes(k, proof)
             g == Hashes(l, proof)
             S == {n \in Nat : n <= D => f[D - n] = g[D - n]}
  <1>1. f[D] = g[D] /\ D \in Nat BY HashesAre, TreeAssumption
  <1>2. f[0] = k /\ g[0] = l BY HashesAre, <1>1 DEF Levels
  <1>3. \A level \in Nat : level + 1 \in Levels =>
          f[level + 1] = Join(f[level], proof, level) /\ g[level + 1] = Join(g[level], proof, level)
    BY HashesAre, <1>1
  <1> HIDE DEF f, g
  <1>4. 0 \in S
    <2>1. D - 0 = D BY <1>1
    <2> QED BY <1>1, <2>1
  <1>5. ASSUME NEW n \in Nat, n \in S PROVE n + 1 \in S
    <2> SUFFICES ASSUME n + 1 <= D PROVE f[D - (n + 1)] = g[D - (n + 1)] OBVIOUS
    <2> DEFINE level == D - (n + 1)
    <2>1. level \in Nat /\ level + 1 = D - n /\ level + 1 \in Levels /\ n <= D
      BY <1>1 DEF Levels
    <2>2. f[D - n] = g[D - n] BY <1>5, <2>1
    <2> HIDE DEF level, D, S
    <2>3. Join(f[level], proof, level) = Join(g[level], proof, level) BY <1>3, <2>1, <2>2
    <2>4. f[level] = g[level] BY <2>3 DEF Join, HashMerkleNodeV1
    <2> QED BY <2>4 DEF level
  <1>6. \A n \in Nat : n \in S
    <2> HIDE DEF S
    <2> QED BY <1>4, <1>5, Induction
  <1>7. f[D - D] = g[D - D] /\ D - D = 0 BY <1>1, <1>6
  <1> QED BY <1>2, <1>7

\* At a place of the tree its leaf proves itself, and nothing else does.
LEMMA OnlyItsLeaf ==
  ASSUME NEW leaves, IsList(leaves), leaves # <<>>, Len(leaves) <= 2 ^ TREE_DEPTH_V1,
         NEW i \in 0..(Len(leaves) - 1), NEW k
  PROVE  VerifyMerkleProofV1(k, MerkleProof(TreeOf(leaves), i), TreeOf(leaves).root)
           <=> k = leaves[i + 1]
  <1> DEFINE proof == MerkleProof(TreeOf(leaves), i)
  <1>1. TREE_DEPTH_V1 \in Levels BY TreeAssumption DEF Levels
  <1>2. MerkleRootV1(leaves[i + 1], proof)
          = Layers(leaves)[TREE_DEPTH_V1][PathIndex(i)[TREE_DEPTH_V1] + 1]
    BY <1>1, PathIsHashed, HashesAre
  <1>3. PathIndex(i)[TREE_DEPTH_V1] + 1 = 1 BY PathEnds
  <1>4. MerkleRootV1(leaves[i + 1], proof) = TreeOf(leaves).root BY <1>2, <1>3 DEF TreeOf
  <1> HIDE DEF proof
  <1>5. MerkleRootV1(k, proof) = MerkleRootV1(leaves[i + 1], proof) => k = leaves[i + 1]
    BY OneStart
  <1>6. VerifyMerkleProofV1(k, proof, TreeOf(leaves).root) <=> MerkleRootV1(k, proof) = TreeOf(leaves).root
    BY DEF VerifyMerkleProofV1
  <1> QED BY <1>4, <1>5, <1>6 DEF proof

\* The elements of a list.
RangeOf(list) == {list[i] : i \in DOMAIN list}

\* A list from which a tree is built has as many commitments as places.
Distinct(list, n) ==
  /\ list = [i \in 1..n |-> list[i]]
  /\ IsFiniteSet(RangeOf(list)) /\ RangeOf(list) \subseteq Nat
  /\ Cardinality(RangeOf(list)) = n

\* The rank of a number in a finite set is the size of this.
UpTo(numbers, x) == {y \in numbers : y <= x}

\* The ranks of the numbers of a finite set are the numbers up to its size.
LEMMA RanksOf ==
  ASSUME NEW R \in SUBSET Nat, IsFiniteSet(R)
  PROVE  /\ \A x \in R : Cardinality(UpTo(R, x)) \in 1..Cardinality(R)
         /\ \A x, y \in R : Cardinality(UpTo(R, x)) = Cardinality(UpTo(R, y)) => x = y
         /\ \A k \in 1..Cardinality(R) : \E x \in R : Cardinality(UpTo(R, x)) = k
  <1> DEFINE N == Cardinality(R)
             Rank(x) == Cardinality(UpTo(R, x))
  <1>1. N \in Nat BY FS_CardinalityType
  <1>2. ASSUME NEW x \in R
        PROVE  x \in UpTo(R, x) /\ IsFiniteSet(UpTo(R, x)) /\ Rank(x) \in 1..N
    <2>1. x \in UpTo(R, x) /\ UpTo(R, x) \in SUBSET R BY DEF UpTo
    <2>2. IsFiniteSet(UpTo(R, x)) /\ Rank(x) <= N BY <2>1, FS_Subset
    <2>3. Rank(x) \in Nat /\ Rank(x) # 0 BY <2>1, <2>2, FS_CardinalityType, FS_EmptySet
    <2> QED BY <1>1, <2>1, <2>2, <2>3
  <1>3. ASSUME NEW x \in R, NEW y \in R, x < y PROVE Rank(x) < Rank(y)
    <2>1. UpTo(R, x) \in SUBSET UpTo(R, y) /\ y \notin UpTo(R, x)
      <3>1. \A z \in R : z \in Nat OBVIOUS
      <3>2. \A z \in R : z <= x => z <= y BY <1>3, <3>1
      <3>3. ~ y <= x BY <1>3, <3>1
      <3> QED BY <3>2, <3>3 DEF UpTo
    <2>2. y \in UpTo(R, y) /\ IsFiniteSet(UpTo(R, y)) BY <1>2
    <2>3. Rank(x) <= Rank(y) /\ Rank(x) # Rank(y) BY <2>1, <2>2, FS_Subset
    <2> QED BY <1>2, <2>3
  <1>4. ASSUME NEW x \in R, NEW y \in R, Rank(x) = Rank(y) PROVE x = y
    <2>1. ~ x < y /\ ~ y < x BY <1>2, <1>3, <1>4
    <2> QED BY <2>1
  <1> DEFINE rank == [x \in R |-> Rank(x)]
  <1>5. rank \in Injection(R, 1..N) BY <1>2, <1>4 DEF Injection, IsInjective
  <1>6. IsFiniteSet(1..N) /\ Cardinality(1..N) = N BY <1>1, FS_Interval
  <1>7. rank \in Surjection(R, 1..N) BY <1>5, <1>6, FS_Injection
  <1>8. \A k \in 1..N : \E x \in R : Rank(x) = k BY <1>7 DEF Surjection
  <1> QED BY <1>2, <1>4, <1>8

\* The sorted list has each commitment at one place.
LEMMA AscendingIs ==
  ASSUME NEW n \in Nat, NEW list, Distinct(list, n)
  PROVE  LET leaves == Ascending(list)
         IN  /\ leaves = [i \in 1..n |-> leaves[i]]
             /\ RangeOf(leaves) = RangeOf(list)
             /\ \A i, j \in 1..n : leaves[i] = leaves[j] => i = j
             /\ Distinct(leaves, n)
  <1> DEFINE R == RangeOf(list)
             leaves == Ascending(list)
             Of(i) == CHOOSE x \in R : Cardinality(UpTo(R, x)) = i
  <1>1. leaves = [i \in 1..n |-> Of(i)] BY DEF Ascending, RangeOf, Distinct, UpTo
  <1>2. /\ R \in SUBSET Nat /\ IsFiniteSet(R) /\ Cardinality(R) = n BY DEF Distinct
  <1> HIDE DEF R
  <1>3. /\ \A x \in R : Cardinality(UpTo(R, x)) \in 1..n
        /\ \A x, y \in R : Cardinality(UpTo(R, x)) = Cardinality(UpTo(R, y)) => x = y
        /\ \A k \in 1..n : \E x \in R : Cardinality(UpTo(R, x)) = k
    BY <1>2, RanksOf
  <1>4. \A i \in 1..n : Of(i) \in R /\ Cardinality(UpTo(R, Of(i))) = i BY <1>3
  <1> HIDE DEF Of
  <1>5. \A i \in 1..n : leaves[i] \in R /\ Cardinality(UpTo(R, leaves[i])) = i BY <1>1, <1>4
  <1>6. leaves = [i \in 1..n |-> leaves[i]] BY <1>1
  <1> HIDE DEF leaves
  <1>7. RangeOf(leaves) = R
    <2>1. \A x \in R : Cardinality(UpTo(R, x)) \in 1..n /\ leaves[Cardinality(UpTo(R, x))] = x
      BY <1>3, <1>5
    <2>2. DOMAIN leaves = 1..n BY <1>6
    <2> QED BY <1>5, <2>1, <2>2 DEF RangeOf
  <1>8. \A i, j \in 1..n : leaves[i] = leaves[j] => i = j BY <1>5
  <1>9. Distinct(leaves, n) BY <1>2, <1>6, <1>7 DEF Distinct
  <1> QED BY <1>6, <1>7, <1>8, <1>9 DEF R, leaves

\* The sorted list depends on the commitments and not on their order.
LEMMA AscendingOfSet ==
  ASSUME NEW n \in Nat, NEW list, NEW other, Distinct(list, n), Distinct(other, n),
         RangeOf(list) = RangeOf(other)
  PROVE  Ascending(list) = Ascending(other)
  <1> DEFINE Sorted(D, R) == [i \in D |-> CHOOSE x \in R : Cardinality({y \in R : y <= x}) = i]
  <1>1. DOMAIN list = 1..n /\ DOMAIN other = 1..n BY DEF Distinct
  <1>2. /\ Ascending(list) = Sorted(DOMAIN list, RangeOf(list))
        /\ Ascending(other) = Sorted(DOMAIN other, RangeOf(other))
    BY DEF Ascending, RangeOf
  <1> HIDE DEF Sorted
  <1> QED BY <1>1, <1>2

\* What a list is from which a tree is built.
LEMMA BuildableIs ==
  ASSUME NEW list, BuildErrors(list) = {}
  PROVE  /\ list # <<>> /\ ~ Len(list) > 2 ^ TREE_DEPTH_V1
         /\ ~ Cardinality(RangeOf(list)) < Len(list) /\ ZERO_LEAF_V1 \notin RangeOf(list)
  BY DEF BuildErrors, RangeOf

\* ... and that it is what such a list is.
LEMMA Buildable ==
  ASSUME NEW list, list # <<>>, ~ Len(list) > 2 ^ TREE_DEPTH_V1,
         ~ Cardinality(RangeOf(list)) < Len(list), ZERO_LEAF_V1 \notin RangeOf(list)
  PROVE  BuildErrors(list) = {}
  BY DEF BuildErrors, RangeOf

\* The tree of a list is that of its sorted leaves.
LEMMA TreeIs ==
  ASSUME NEW list
  PROVE  /\ BuildMerkleTreeV1(list).leaves = Layers(Ascending(list))[0]
         /\ BuildMerkleTreeV1(list).layers = Layers(Ascending(list))
         /\ BuildMerkleTreeV1(list).root = Layers(Ascending(list))[TREE_DEPTH_V1][1]
  BY DEF BuildMerkleTreeV1

LEMMA LeafLayer == ASSUME NEW leaves PROVE Layers(leaves)[0] = leaves
  <1>1. 0 \in Levels BY TreeAssumption DEF Levels
  <1> QED BY <1>1, LayersAre

\* What buildMerkleTreeV1 makes of a list that it does not refuse.
LEMMA TreeOfList ==
  ASSUME NEW n \in Nat, NEW list, Distinct(list, n), BuildErrors(list) = {}
  PROVE  LET leaves == Ascending(list)
         IN  /\ BuildMerkleTreeV1(list) = TreeOf(leaves)
             /\ IsList(leaves) /\ leaves # <<>> /\ Len(leaves) = n /\ n >= 1
             /\ n <= 2 ^ TREE_DEPTH_V1 /\ Len(list) = n
             /\ BuildErrors(leaves) = {}
             /\ BuildMerkleTreeV1(leaves) = TreeOf(leaves)
  <1> DEFINE leaves == Ascending(list)
  <1>1. /\ leaves = [i \in 1..n |-> leaves[i]]
        /\ RangeOf(leaves) = RangeOf(list) /\ Distinct(leaves, n)
    BY AscendingIs
  <1>2. IsList(list) /\ Len(list) = n /\ list = [i \in 1..n |-> list[i]]
    BY ListLength DEF Distinct
  <1>3. /\ list # <<>> /\ ~ n > 2 ^ TREE_DEPTH_V1 /\ 2 ^ TREE_DEPTH_V1 \in Nat
        /\ ~ Cardinality(RangeOf(list)) < n /\ ZERO_LEAF_V1 \notin RangeOf(list)
    BY <1>2, BuildableIs, Power, TreeAssumption
  <1>4. n >= 1
    <2>1. n = 0 => list = <<>> BY <1>2
    <2> QED BY <1>3, <2>1
  <1>5. BuildMerkleTreeV1(list) = TreeOf(leaves) BY LeafLayer DEF BuildMerkleTreeV1, TreeOf
  <1>6. Ascending(leaves) = leaves BY <1>1, AscendingOfSet
  <1> HIDE DEF leaves
  <1>7. IsList(leaves) /\ Len(leaves) = n BY <1>1, ListLength
  <1>8. leaves # <<>> BY <1>4, <1>7
  <1>9. BuildErrors(leaves) = {} BY <1>1, <1>3, <1>7, <1>8, Buildable
  <1>10. BuildMerkleTreeV1(leaves) = TreeOf(leaves)
    BY <1>6, LeafLayer DEF BuildMerkleTreeV1, TreeOf
  <1> QED BY <1>2, <1>3, <1>4, <1>5, <1>7, <1>8, <1>9, <1>10 DEF leaves

\* A finite set of commitments is listed, each of them once.
LEMMA Listed ==
  ASSUME NEW S \in SUBSET Nat, IsFiniteSet(S)
  PROVE  LET list == CHOOSE l \in [1..Cardinality(S) -> S] : {l[i] : i \in DOMAIN l} = S
         IN  Distinct(list, Cardinality(S)) /\ RangeOf(list) = S
  <1> DEFINE n == Cardinality(S)
  <1>1. n \in Nat BY FS_CardinalityType
  <1>2. \E l \in [1..n -> S] : {l[i] : i \in DOMAIN l} = S
    <2>1. IsFiniteSet(1..n) /\ Cardinality(1..n) = n BY <1>1, FS_Interval
    <2>2. ExistsBijection(1..n, S) BY <2>1, FS_SameCardinalityBij
    <2>3. PICK l \in Surjection(1..n, S) : TRUE BY <2>2 DEF ExistsBijection, Bijection
    <2>4. l \in [1..n -> S] /\ \A x \in S : \E i \in 1..n : l[i] = x BY <2>3 DEF Surjection
    <2> HIDE DEF n
    <2>5. {l[i] : i \in DOMAIN l} = S BY <2>4
    <2> QED BY <2>4, <2>5
  <1> DEFINE list == CHOOSE l \in [1..n -> S] : {l[i] : i \in DOMAIN l} = S
  <1>3. list \in [1..n -> S] /\ {list[i] : i \in DOMAIN list} = S BY <1>2
  <1> HIDE DEF list
  <1>4. RangeOf(list) = S BY <1>3 DEF RangeOf
  <1>5. list = [i \in 1..n |-> list[i]] BY <1>3
  <1> QED BY <1>4, <1>5 DEF Distinct, list

\* At as many places of a tree as a commitment has in its leaves, one or none, does it
\* prove itself.
LEMMA Places ==
  ASSUME NEW n \in Nat, NEW list, Distinct(list, n), BuildErrors(list) = {}, NEW k
  PROVE  LET tree == BuildMerkleTreeV1(list)
         IN  Cardinality({i \in 0..(n - 1) :
                            VerifyMerkleProofV1(k, MerkleProof(tree, i), tree.root)})
               = IF k \in RangeOf(list) THEN 1 ELSE 0
  <1> DEFINE leaves == Ascending(list)
             tree == BuildMerkleTreeV1(list)
             places == {i \in 0..(n - 1) :
                          VerifyMerkleProofV1(k, MerkleProof(tree, i), tree.root)}
  <1>1. /\ tree = TreeOf(leaves) /\ IsList(leaves) /\ leaves # <<>>
        /\ Len(leaves) = n /\ n <= 2 ^ TREE_DEPTH_V1
    BY TreeOfList
  <1>2. /\ leaves = [i \in 1..n |-> leaves[i]]
        /\ RangeOf(leaves) = RangeOf(list)
        /\ \A i, j \in 1..n : leaves[i] = leaves[j] => i = j
    BY AscendingIs
  <1> HIDE DEF leaves, tree
  <1>3. \A i \in 0..(n - 1) : VerifyMerkleProofV1(k, MerkleProof(tree, i), tree.root)
                                <=> k = leaves[i + 1]
    BY <1>1, OnlyItsLeaf
  <1>4. places = {i \in 0..(n - 1) : k = leaves[i + 1]} BY <1>3
  <1>5. CASE k \in RangeOf(list)
    <2>1. PICK j \in 1..n : leaves[j] = k BY <1>2, <1>5 DEF RangeOf
    <2>2. j - 1 \in 0..(n - 1) /\ (j - 1) + 1 = j OBVIOUS
    <2>3. \A i \in 0..(n - 1) : k = leaves[i + 1] => i = j - 1
      <3> SUFFICES ASSUME NEW i \in 0..(n - 1), k = leaves[i + 1] PROVE i = j - 1 OBVIOUS
      <3>1. i + 1 \in 1..n OBVIOUS
      <3>2. i + 1 = j BY <1>2, <2>1, <3>1
      <3> QED BY <3>2
    <2> DEFINE m == j - 1
    <2>4. m \in 0..(n - 1) /\ leaves[m + 1] = k /\ \A i \in 0..(n - 1) : k = leaves[i + 1] => i = m
      BY <2>1, <2>2, <2>3
    <2> HIDE DEF m
    <2>5. places = {m} BY <1>4, <2>4
    <2>6. Cardinality({m}) = 1 BY FS_Singleton
    <2> HIDE DEF places
    <2> QED BY <1>5, <2>5, <2>6 DEF places, tree
  <1>6. CASE k \notin RangeOf(list)
    <2>1. \A i \in 0..(n - 1) : k # leaves[i + 1]
      <3> SUFFICES ASSUME NEW i \in 0..(n - 1) PROVE k # leaves[i + 1] OBVIOUS
      <3>1. i + 1 \in 1..n OBVIOUS
      <3>2. leaves[i + 1] \in RangeOf(leaves) BY <1>2, <3>1 DEF RangeOf
      <3> QED BY <1>2, <1>6, <3>2
    <2>2. places = {} BY <1>4, <2>1
    <2>3. Cardinality({}) = 0 BY FS_EmptySet
    <2> HIDE DEF places
    <2> QED BY <1>6, <2>2, <2>3 DEF places, tree
  <1> QED BY <1>5, <1>6

\* A roll that can be frozen is provable in any state.
LEMMA Provable == RollIsProvable
  <1> DEFINE active == ListActiveDeterministically
             n == Cardinality(active)
             list == Listing
             tree == BuildMerkleTreeV1(list)
             leaves == Ascending(list)
  <1>1. active \in SUBSET Commitments BY DEF ListActiveDeterministically
  <1>2. active \in SUBSET Nat /\ IsFiniteSet(active) BY <1>1, RegistryAssumption, FS_Subset
  <1>3. n \in Nat BY <1>2, FS_CardinalityType
  <1>4. list = CHOOSE l \in [1..n -> active] : {l[i] : i \in DOMAIN l} = active
    BY DEF Listing
  <1> HIDE DEF active, list
  <1>5. Distinct(list, n) /\ RangeOf(list) = active BY <1>2, <1>4, Listed
  <1> SUFFICES ASSUME BuildErrors(list) = {}
               PROVE  /\ Verify(Artifact(list))
                      /\ tree.root = CompleteRoot(tree.leaves)
                      /\ \A k \in Commitments :
                           Cardinality({i \in 0..(Len(list) - 1) :
                             VerifyMerkleProofV1(k, MerkleProof(tree, i), tree.root)})
                               = IF k \in active THEN 1 ELSE 0
    BY DEF RollIsProvable, list, active
  <1>6. /\ tree = TreeOf(leaves) /\ IsList(leaves) /\ leaves # <<>> /\ Len(list) = n
        /\ BuildErrors(leaves) = {} /\ BuildMerkleTreeV1(leaves) = TreeOf(leaves)
    BY <1>3, <1>5, TreeOfList
  <1>7. ASSUME NEW k PROVE Cardinality({i \in 0..(Len(list) - 1) :
                             VerifyMerkleProofV1(k, MerkleProof(tree, i), tree.root)})
                               = IF k \in active THEN 1 ELSE 0
    BY <1>3, <1>5, <1>6, Places
  <1>8. tree.root = CompleteRoot(tree.leaves)
    <2>1. tree.root = Layers(leaves)[TREE_DEPTH_V1][1] /\ tree.leaves = leaves
      BY <1>6 DEF TreeOf
    <2> HIDE DEF tree, leaves
    <2> QED BY <1>6, <2>1, RootIsComplete
  <1>9. Verify(Artifact(list))
    <2> HIDE DEF leaves
    <2>1. Artifact(list) = [leafValues |-> leaves, merkleRoot |-> TreeOf(leaves).root]
      BY <1>6 DEF Artifact, TreeOf
    <2>2. Artifact(leaves) = [leafValues |-> leaves, merkleRoot |-> TreeOf(leaves).root]
      BY <1>6 DEF Artifact, TreeOf
    <2>3. Artifact(list).leafValues = leaves BY <2>1
    <2> QED BY <1>6, <2>1, <2>2, <2>3 DEF Verify
  <1> QED BY <1>7, <1>8, <1>9

\* Over any roll, at any depth: a snapshot that can be frozen verifies, its root is that of
\* the tree with all its places, each listed commitment proves itself at one place and no
\* other commitment at any.
THEOREM SnapshotsAreProvable == RegistrySpec => []RollIsProvable
  BY Provable, PTL

\* Below equal roots every place of two trees is the same.
LEMMA SamePlaces ==
  ASSUME NEW leaves, NEW others, CompleteRoot(leaves) = CompleteRoot(others)
  PROVE  \A i \in Nat : i < 2 ^ TREE_DEPTH_V1 => Complete(leaves)[0][i] = Complete(others)[0][i]
  <1> DEFINE D == TREE_DEPTH_V1
             f == Complete(leaves)
             g == Complete(others)
             S == {n \in Nat : n <= D =>
                     \A i \in Nat : i < 2 ^ n => f[D - n][i] = g[D - n][i]}
  <1>1. D \in Nat /\ f[D][0] = g[D][0] BY CompleteIs, TreeAssumption
  <1>2. \A level \in Nat : level + 1 \in Levels => \A i \in Nat :
          /\ f[level + 1][i] = HashMerkleNodeV1(f[level][2 * i], f[level][2 * i + 1])
          /\ g[level + 1][i] = HashMerkleNodeV1(g[level][2 * i], g[level][2 * i + 1])
    BY CompleteIs
  <1> HIDE DEF f, g
  <1>3. 0 \in S
    <2>1. D - 0 = D /\ \A i \in Nat : i < 1 => i = 0 BY <1>1
    <2> QED BY <1>1, <2>1, Power
  <1>4. ASSUME NEW n \in Nat, n \in S PROVE n + 1 \in S
    <2> SUFFICES ASSUME n + 1 <= D, NEW i \in Nat, i < 2 ^ (n + 1)
                 PROVE  f[D - (n + 1)][i] = g[D - (n + 1)][i]
      OBVIOUS
    <2> DEFINE level == D - (n + 1)
               w == 2 ^ n
               h == i \div 2
    <2>1. level \in Nat /\ level + 1 = D - n /\ level + 1 \in Levels /\ n <= D
      BY <1>1 DEF Levels
    <2>2. w \in Nat /\ i < 2 * w BY Power
    <2>3. \A j \in Nat : j < w => f[level + 1][j] = g[level + 1][j] BY <1>4, <2>1
    <2> HIDE DEF level, w, D, S
    <2>4. h \in Nat /\ h < w /\ (i = 2 * h \/ i = 2 * h + 1) BY <2>2
    <2> HIDE DEF h
    <2>5. HashMerkleNodeV1(f[level][2 * h], f[level][2 * h + 1])
            = HashMerkleNodeV1(g[level][2 * h], g[level][2 * h + 1])
      BY <1>2, <2>1, <2>3, <2>4
    <2>6. f[level][2 * h] = g[level][2 * h] /\ f[level][2 * h + 1] = g[level][2 * h + 1]
      BY <2>5 DEF HashMerkleNodeV1
    <2>7. f[level][i] = g[level][i] BY <2>4, <2>6
    <2> QED BY <2>7 DEF level
  <1>5. \A n \in Nat : n \in S
    <2> HIDE DEF S
    <2> QED BY <1>3, <1>4, Induction
  <1>6. D - D = 0 /\ D <= D BY <1>1
  <1>7. \A i \in Nat : i < 2 ^ D => f[D - D][i] = g[D - D][i] BY <1>1, <1>5, <1>6
  <1> QED BY <1>6, <1>7 DEF f, g

\* ... hence every leaf of the one is a leaf of the other.
LEMMA RootsAgree ==
  ASSUME NEW n \in Nat, NEW list, Distinct(list, n), BuildErrors(list) = {},
         NEW m \in Nat, NEW other, Distinct(other, m), BuildErrors(other) = {},
         BuildMerkleTreeV1(list).root = BuildMerkleTreeV1(other).root
  PROVE  RangeOf(list) \subseteq RangeOf(other)
  <1> DEFINE leaves == Ascending(list)
             others == Ascending(other)
  <1>1. /\ BuildMerkleTreeV1(list) = TreeOf(leaves)
        /\ IsList(leaves) /\ leaves # <<>> /\ Len(leaves) = n /\ n <= 2 ^ TREE_DEPTH_V1
        /\ BuildMerkleTreeV1(other) = TreeOf(others)
        /\ IsList(others) /\ others # <<>> /\ Len(others) = m
    BY TreeOfList
  <1>2. /\ leaves = [i \in 1..n |-> leaves[i]] /\ RangeOf(leaves) = RangeOf(list)
        /\ others = [i \in 1..m |-> others[i]] /\ RangeOf(others) = RangeOf(other)
    BY AscendingIs
  <1>3. ZERO_LEAF_V1 \notin RangeOf(list) BY BuildableIs
  <1> HIDE DEF leaves, others
  <1>4. CompleteRoot(leaves) = CompleteRoot(others) BY <1>1, RootIsComplete DEF TreeOf
  <1>5. \A i \in Nat : i < 2 ^ TREE_DEPTH_V1 => Complete(leaves)[0][i] = Complete(others)[0][i]
    BY <1>4, SamePlaces
  <1> SUFFICES ASSUME NEW x \in RangeOf(list) PROVE x \in RangeOf(other) OBVIOUS
  <1>6. PICK j \in 1..n : x = leaves[j] BY <1>2 DEF RangeOf
  <1> DEFINE i == j - 1
  <1>7. i \in Nat /\ i + 1 = j /\ i < n OBVIOUS
  <1>8. 2 ^ TREE_DEPTH_V1 \in Nat BY Power, TreeAssumption
  <1>9. i < 2 ^ TREE_DEPTH_V1 BY <1>1, <1>7, <1>8
  <1> HIDE DEF i
  <1>10. Complete(leaves)[0][i] = x /\ Complete(others)[0][i] = x
    BY <1>1, <1>5, <1>6, <1>7, <1>9, CompleteIs
  <1>11. Complete(others)[0][i] = IF i < m THEN others[i + 1] ELSE ZERO_LEAF_V1
    BY <1>1, <1>7, CompleteIs
  <1>12. i < m BY <1>3, <1>10, <1>11
  <1>13. i + 1 \in 1..m /\ others[i + 1] = x BY <1>7, <1>10, <1>11, <1>12
  <1> QED BY <1>2, <1>13 DEF RangeOf

\* The root of a snapshot stands for the set of its commitments: two lists that are not
\* refused have one root exactly when they hold the same commitments, in whatever order.
THEOREM RootsCommit ==
  ASSUME NEW n \in Nat, NEW list \in [1..n -> Nat], BuildErrors(list) = {},
         NEW m \in Nat, NEW other \in [1..m -> Nat], BuildErrors(other) = {}
  PROVE  BuildMerkleTreeV1(list).root = BuildMerkleTreeV1(other).root
           <=> {list[i] : i \in 1..n} = {other[i] : i \in 1..m}
  <1>1. ASSUME NEW p \in Nat, NEW l \in [1..p -> Nat], BuildErrors(l) = {}
        PROVE  Distinct(l, p) /\ RangeOf(l) = {l[i] : i \in 1..p}
    <2>1. l = [i \in 1..p |-> l[i]] /\ RangeOf(l) = {l[i] : i \in 1..p} /\ RangeOf(l) \subseteq Nat
      BY DEF RangeOf
    <2>2. Len(l) = p BY <2>1, ListLength
    <2>3. ~ Cardinality(RangeOf(l)) < p BY <1>1, <2>2, BuildableIs
    <2>4. IsFiniteSet(1..p) /\ Cardinality(1..p) = p BY FS_Interval
    <2>5. l \in Surjection(1..p, RangeOf(l)) BY <2>1 DEF Surjection, RangeOf
    <2>6. IsFiniteSet(RangeOf(l)) /\ Cardinality(RangeOf(l)) <= p
      BY <2>4, <2>5, FS_Surjection
    <2>7. Cardinality(RangeOf(l)) = p BY <2>3, <2>6, FS_CardinalityType
    <2> QED BY <2>1, <2>6, <2>7 DEF Distinct
  <1>2. /\ Distinct(list, n) /\ RangeOf(list) = {list[i] : i \in 1..n}
        /\ Distinct(other, m) /\ RangeOf(other) = {other[i] : i \in 1..m}
    BY <1>1
  <1>3. BuildMerkleTreeV1(list).root = BuildMerkleTreeV1(other).root
          => RangeOf(list) = RangeOf(other)
    BY <1>2, RootsAgree
  <1>4. RangeOf(list) = RangeOf(other)
          => BuildMerkleTreeV1(list).root = BuildMerkleTreeV1(other).root
    <2> SUFFICES ASSUME RangeOf(list) = RangeOf(other)
                 PROVE  BuildMerkleTreeV1(list).root = BuildMerkleTreeV1(other).root
      OBVIOUS
    <2>1. n = m BY <1>2 DEF Distinct
    <2>2. Ascending(list) = Ascending(other) BY <1>2, <2>1, AscendingOfSet
    <2> QED BY <2>2, TreeIs
  <1> QED BY <1>2, <1>3, <1>4
=============================================================================
