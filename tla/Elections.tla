------------------------------ MODULE Elections ------------------------------
(***************************************************************************)
(* Administration of one election until the voting opens, and its later    *)
(* transitions.  Several administrators work at once.  Every operation of  *)
(* elections.service.ts and of the eligibility service loads the election  *)
(* with two SELECTs (its row, then its options), decides on what it        *)
(* loaded, and commits in one transaction that compares the row version it *)
(* loaded.  Building a snapshot reads the credentials and hashes a Merkle  *)
(* tree between the two; freezing one reads it and hashes it again.        *)
(* The transactions take the row lock of the election with their first     *)
(* statement, so each is one step; the awaits before them are not.         *)
(***************************************************************************)
EXTENDS Naturals, FiniteSets, Sequences

CONSTANTS
  Admins,
  Credentials,
  Windows,            \* pairs <<opensAt, closesAt>> an administrator may set
  OptionLists,        \* numbers of options an administrator may configure
  MaxTime,            \* bound on the clock
  MaxRowVersion,      \* bound on the updates of the row before a new request
  MaxSnapshots,       \* bound on the eligibility snapshots
  MaxConfigurations   \* bound on how often the election is prepared

Times == 0 .. MaxTime + 1

ValidWindow(w) == w[1] < w[2]

ASSUME ElectionsAssumption ==
  /\ Windows \subseteq Times \X Times /\ Windows # {}
  /\ \A w \in Windows : ValidWindow(w)
  /\ OptionLists \subseteq Nat /\ OptionLists # {}
  /\ MaxTime \in Nat /\ MaxRowVersion \in Nat
  /\ MaxSnapshots \in Nat /\ MaxConfigurations \in Nat

VARIABLES
  row,            \* the row of the election
  options,        \* the rows of election_options: how many, a new list on each write
  snapshots,      \* eligibility_snapshots with their members, in order of creation
  configurations, \* election_configuration_versions
  manifests,      \* election_manifests; every one has publication_state PUBLISHED
  credential,     \* status of each electoral credential
  now,            \* the clock
  pc, op,         \* where the handler of each administrator is, and what it runs
  loaded,         \* the election its findById returned
  listed,         \* credentials its buildSnapshot listed
  fetched         \* row version of the snapshot its freezeSnapshot read

tables == <<options, snapshots, configurations, manifests>>
handler == <<pc, op, loaded, listed, fetched>>
vars == <<row, tables, credential, now, handler>>

L == INSTANCE Lifecycle WITH
  status <- row.status, configurationVersion <- row.configurationVersion

NoRef == 0
Transitions == {"prepare", "reopenDraft", "open", "close", "cancel"}
Operations == Transitions \cup {"updateDraft", "buildSnapshot", "freezeSnapshot"}

Row == [status : L!Status, configurationVersion : Nat, rowVersion : Nat, ref : Nat,
        window : Windows]
Election == [row : Row, options : Nat]
Snapshot == [configurationVersion : Nat, version : Nat, status : {"BUILDING", "FROZEN", "SUPERSEDED"},
             rowVersion : Nat, members : SUBSET Credentials]
Configuration == [version : Nat, window : Windows, options : Nat, ref : Nat]
Manifest == [configurationVersion : Nat, window : Windows, options : Nat,
             merkleRoot : SUBSET Credentials]

\* what an idle handler holds
NotLoaded == [row |-> [status |-> "DRAFT", configurationVersion |-> 0, rowVersion |-> 0,
                       ref |-> NoRef, window |-> CHOOSE w \in Windows : TRUE],
              options |-> 0]

TypeOK ==
  /\ row \in Row /\ options \in Nat
  /\ snapshots \in Seq(Snapshot)
  /\ configurations \subseteq Configuration
  /\ manifests \subseteq Manifest
  /\ credential \in [Credentials -> {"ABSENT", "ACTIVE", "WITHDRAWN"}]
  /\ now \in Nat
  /\ pc \in [Admins -> {"idle", "loading", "assessing", "listing", "building", "fetching",
                        "freezing", "saving"}]
  /\ op \in [Admins -> Operations]
  /\ loaded \in [Admins -> Election]
  /\ listed \in [Admins -> SUBSET Credentials]
  /\ fetched \in [Admins -> Nat]

Init ==
  /\ \E w \in Windows, k \in OptionLists :
       /\ row = [status |-> "DRAFT", configurationVersion |-> 0, rowVersion |-> 0,
                 ref |-> NoRef, window |-> w]
       /\ options = k
  /\ snapshots = <<>> /\ configurations = {} /\ manifests = {}
  /\ credential = [c \in Credentials |-> "ABSENT"]
  /\ now = 0
  /\ pc = [a \in Admins |-> "idle"]
  /\ op = [a \in Admins |-> "cancel"]
  /\ loaded = [a \in Admins |-> NotLoaded]
  /\ listed = [a \in Admins |-> {}]
  /\ fetched = [a \in Admins |-> 0]

Target ==
  [o \in Transitions |->
     CASE o = "prepare" -> "READY" [] o = "reopenDraft" -> "DRAFT" [] o = "open" -> "OPEN"
       [] o = "close" -> "CLOSED" [] o = "cancel" -> "CANCELLED"]

\* the frozen eligibility of configuration version v
FrozenSnapshots(v) ==
  {i \in DOMAIN snapshots : snapshots[i].configurationVersion = v /\ snapshots[i].status = "FROZEN"}

Active == {c \in Credentials : credential[c] = "ACTIVE"}

-----------------------------------------------------------------------------
\* Handlers.

\* the handler of a answers and forgets; with or without an error
End(a) ==
  /\ pc' = [pc EXCEPT ![a] = "idle"]
  /\ op' = [op EXCEPT ![a] = "cancel"]
  /\ loaded' = [loaded EXCEPT ![a] = NotLoaded]
  /\ listed' = [listed EXCEPT ![a] = {}]
  /\ fetched' = [fetched EXCEPT ![a] = 0]

Goto(a, label) == pc' = [pc EXCEPT ![a] = label]

\* a request arrives and findById reads the row
Request(a, o) ==
  /\ pc[a] = "idle" /\ row.rowVersion < MaxRowVersion
  /\ op' = [op EXCEPT ![a] = o]
  /\ loaded' = [loaded EXCEPT ![a].row = row]
  /\ Goto(a, "loading")
  /\ UNCHANGED <<row, tables, credential, now, listed, fetched>>

\* Mutant of Decides: a transition does not read the status.
DecidesAnyStatus(o, e) ==
  CASE o = "updateDraft" -> e.row.status = "DRAFT"
    [] o = "prepare" -> e.row.status = "DRAFT" /\ e.options >= 2 /\ e.row.ref # NoRef
    [] o = "open" -> e.row.window[1] <= now /\ now < e.row.window[2]
    [] o \in Transitions \ {"prepare", "open"} -> TRUE

\* the aggregate's own checks, on the loaded election e
Decides(o, e) ==
  CASE o = "updateDraft" -> e.row.status = "DRAFT"
    [] o = "prepare" -> e.row.status = "DRAFT" /\ e.options >= 2 /\ e.row.ref # NoRef
    [] o = "open" -> /\ e.row.window[1] <= now /\ now < e.row.window[2]
                     /\ "OPEN" \in L!ALLOWED_ELECTION_TRANSITIONS[e.row.status]
    [] o \in Transitions \ {"prepare", "open"} ->
         Target[o] \in L!ALLOWED_ELECTION_TRANSITIONS[e.row.status]

\* loadDraftElection of the eligibility service
LoadsDraft(e) == e.row.status = "DRAFT"

\* findById reads the options; what needs no other query is decided at once
LoadOptions(a) ==
  /\ pc[a] = "loading"
  /\ LET e == [row |-> loaded[a].row, options |-> options]
         continue(label) == /\ loaded' = [loaded EXCEPT ![a] = e]
                            /\ Goto(a, label)
                            /\ UNCHANGED <<op, listed, fetched>>
     IN \/ op[a] \in {"prepare", "open"} /\ continue("assessing")
        \/ op[a] = "buildSnapshot" /\ LoadsDraft(e) /\ continue("listing")
        \/ op[a] = "freezeSnapshot" /\ LoadsDraft(e) /\ continue("fetching")
        \/ op[a] \in {"buildSnapshot", "freezeSnapshot"} /\ ~LoadsDraft(e) /\ End(a)
        \/ /\ op[a] \in {"updateDraft", "reopenDraft", "close", "cancel"}
           /\ IF Decides(op[a], e) THEN continue("saving") ELSE End(a)
  /\ UNCHANGED <<row, tables, credential, now>>

\* ElectionReadinessVerifier.assess: the referenced snapshot is the frozen
\* eligibility of the configuration that is, or is about to be, in force
Prepared(r) ==
  r.ref \in FrozenSnapshots(IF r.status = "DRAFT" THEN r.configurationVersion + 1
                                                  ELSE r.configurationVersion)

Assess(a) ==
  /\ pc[a] = "assessing"
  /\ IF Prepared(loaded[a].row) /\ Decides(op[a], loaded[a])
     THEN Goto(a, "saving") /\ UNCHANGED <<op, loaded, listed, fetched>>
     ELSE End(a)
  /\ UNCHANGED <<row, tables, credential, now>>

\* Mutant of Unchanged: the UPDATE compares the status only.
UnchangedStatus(a) == row.status = loaded[a].row.status

\* UPDATE ... WHERE status = ... AND row_version = ...
Unchanged(a) == row.status = loaded[a].row.status /\ row.rowVersion = loaded[a].row.rowVersion

\* Mutant of Bump: the update forgets row_version.
NoBump(r) == r

Bump(r) == [r EXCEPT !.rowVersion = @ + 1]

\* saveDraftChanges: the row, then its options, in one transaction
SaveDraftChanges(a) ==
  /\ pc[a] = "saving" /\ op[a] = "updateDraft" /\ Unchanged(a)
  /\ \E w \in Windows : row' = Bump([row EXCEPT !.window = w, !.ref = loaded[a].row.ref])
  /\ options' \in OptionLists
  /\ End(a)
  /\ UNCHANGED <<snapshots, configurations, manifests, credential, now>>

\* transitionState: to READY with the configuration and the manifest it freezes
TransitionState(a) ==
  /\ pc[a] = "saving" /\ op[a] \in Transitions /\ Unchanged(a)
  /\ LET s == Target[op[a]]
         v == IF s = "READY" THEN loaded[a].row.configurationVersion + 1
                             ELSE loaded[a].row.configurationVersion
     IN /\ v <= MaxConfigurations
        /\ row' = Bump([row EXCEPT !.status = s, !.configurationVersion = v])
        /\ IF s = "READY"
           THEN \E i \in FrozenSnapshots(v) :
                  /\ configurations' = configurations \cup
                       {[version |-> v, window |-> loaded[a].row.window,
                         options |-> loaded[a].options, ref |-> loaded[a].row.ref]}
                  /\ manifests' = manifests \cup
                       {[configurationVersion |-> v, window |-> loaded[a].row.window,
                         options |-> loaded[a].options, merkleRoot |-> snapshots[i].members]}
           ELSE UNCHANGED <<configurations, manifests>>
  /\ End(a)
  /\ UNCHANGED <<options, snapshots, credential, now>>

\* the UPDATE matched no row, or a READY election has no frozen snapshot: ROLLBACK
Conflict(a) ==
  /\ pc[a] = "saving"
  /\ \/ ~Unchanged(a)
     \/ op[a] = "prepare" /\ FrozenSnapshots(loaded[a].row.configurationVersion + 1) = {}
  /\ End(a)
  /\ UNCHANGED <<row, tables, credential, now>>
-----------------------------------------------------------------------------
\* Eligibility snapshots.

\* listActiveDeterministically, without a lock; the tree is hashed afterwards
ListActive(a) ==
  /\ pc[a] = "listing"
  /\ IF Active = {} THEN End(a)
     ELSE /\ listed' = [listed EXCEPT ![a] = Active]
          /\ Goto(a, "building")
          /\ UNCHANGED <<op, loaded, fetched>>
  /\ UNCHANGED <<row, tables, credential, now>>

\* snapshots[i] after an UPDATE that supersedes those of some statuses
Supersede(i, statuses) ==
  IF snapshots[i].status \in statuses
  THEN [snapshots[i] EXCEPT !.status = "SUPERSEDED", !.rowVersion = @ + 1]
  ELSE snapshots[i]

\* Mutant of CreateForElection: it supersedes the snapshots of every version.
CreateSupersedingAll(a) ==
  /\ pc[a] = "building"
  /\ IF row.status = "DRAFT" /\ row.rowVersion = loaded[a].row.rowVersion
     THEN /\ Len(snapshots) < MaxSnapshots
          /\ snapshots' = Append(
               [i \in DOMAIN snapshots |-> Supersede(i, {"BUILDING", "FROZEN"})],
               [configurationVersion |-> row.configurationVersion + 1, version |-> 1,
                status |-> "BUILDING", rowVersion |-> 0, members |-> listed[a]])
          /\ row' = Bump([row EXCEPT !.ref = Len(snapshots) + 1])
     ELSE UNCHANGED <<row, snapshots>>
  /\ End(a)
  /\ UNCHANGED <<options, configurations, manifests, credential, now>>

\* the snapshot that is to be written: the next one of its configuration
NewSnapshot(v, members) ==
  LET versions == {snapshots[i].version : i \in
                     {j \in DOMAIN snapshots : snapshots[j].configurationVersion = v}}
  IN [configurationVersion |-> v, version |-> Cardinality(versions) + 1,
      status |-> "BUILDING", rowVersion |-> 0, members |-> members]

\* createForElection: the row is locked and compared, the new snapshot replaces
\* the one that was BUILDING and the row refers to it
CreateForElection(a) ==
  /\ pc[a] = "building"
  /\ LET v == loaded[a].row.configurationVersion + 1
     IN IF /\ row.status = "DRAFT" /\ row.rowVersion = loaded[a].row.rowVersion
           /\ row.configurationVersion + 1 = v
        THEN /\ Len(snapshots) < MaxSnapshots
             /\ snapshots' = Append(
                  [i \in DOMAIN snapshots |->
                     IF snapshots[i].configurationVersion = v THEN Supersede(i, {"BUILDING"})
                                                              ELSE snapshots[i]],
                  NewSnapshot(v, listed[a]))
             /\ row' = Bump([row EXCEPT !.ref = Len(snapshots) + 1])
        ELSE UNCHANGED <<row, snapshots>>
  /\ End(a)
  /\ UNCHANGED <<options, configurations, manifests, credential, now>>

\* freezeSnapshot reads a snapshot, checks it against the loaded election and
\* verifies its tree
FetchSnapshot(a) ==
  /\ pc[a] = "fetching"
  /\ \/ \E i \in DOMAIN snapshots :
          /\ snapshots[i].configurationVersion = loaded[a].row.configurationVersion + 1
          /\ loaded[a].row.ref = i
          /\ snapshots[i].status = "BUILDING"
          /\ fetched' = [fetched EXCEPT ![a] = snapshots[i].rowVersion]
          /\ Goto(a, "freezing")
          /\ UNCHANGED <<op, loaded, listed>>
     \/ End(a)
  /\ UNCHANGED <<row, tables, credential, now>>

\* freeze: the row must still be a DRAFT that refers to the snapshot
FreezeSnapshot(a) ==
  /\ pc[a] = "freezing"
  /\ LET i == loaded[a].row.ref IN
     IF /\ row.status = "DRAFT" /\ row.ref = i
        /\ snapshots[i].status = "BUILDING" /\ snapshots[i].rowVersion = fetched[a]
     THEN snapshots' = [j \in DOMAIN snapshots |->
            IF j = i THEN [snapshots[i] EXCEPT !.status = "FROZEN", !.rowVersion = @ + 1]
            ELSE IF snapshots[j].configurationVersion = snapshots[i].configurationVersion
            THEN Supersede(j, {"FROZEN"}) ELSE snapshots[j]]
     ELSE UNCHANGED snapshots
  /\ End(a)
  /\ UNCHANGED <<row, options, configurations, manifests, credential, now>>

\* a query fails or the process dies before the COMMIT
Abort(a) ==
  /\ pc[a] # "idle"
  /\ End(a)
  /\ UNCHANGED <<row, tables, credential, now>>
-----------------------------------------------------------------------------
\* The other components, as this one sees them.

\* enterCounting and publishResults lock the row and check its status
LockedTransition(from, to) ==
  /\ row.status = from
  /\ \E m \in manifests : m.configurationVersion = row.configurationVersion
  /\ row' = Bump([row EXCEPT !.status = to])
  /\ UNCHANGED <<tables, credential, now, handler>>

\* What EligibilityRegistry does to a credential: it is registered; it is revoked,
\* rotated or its voter deactivated.
Register(c) == /\ credential[c] = "ABSENT"
               /\ credential' = [credential EXCEPT ![c] = "ACTIVE"]
               /\ UNCHANGED <<row, tables, now, handler>>
Withdraw(c) == /\ credential[c] = "ACTIVE"
               /\ credential' = [credential EXCEPT ![c] = "WITHDRAWN"]
               /\ UNCHANGED <<row, tables, now, handler>>

Tick == /\ now < MaxTime
        /\ now' = now + 1
        /\ UNCHANGED <<row, tables, credential, handler>>

Handle(a) ==
  \/ LoadOptions(a) \/ Assess(a) \/ SaveDraftChanges(a) \/ TransitionState(a) \/ Conflict(a)
  \/ ListActive(a) \/ CreateForElection(a) \/ FetchSnapshot(a) \/ FreezeSnapshot(a) \/ Abort(a)

Next ==
  \/ \E a \in Admins : Handle(a) \/ \E o \in Operations : Request(a, o)
  \/ LockedTransition("CLOSED", "COUNTING") \/ LockedTransition("COUNTING", "RESULTS_PUBLISHED")
  \/ \E c \in Credentials : Register(c) \/ Withdraw(c)
  \/ Tick

Spec == Init /\ [][Next]_vars
-----------------------------------------------------------------------------
\* Properties.

\* From READY on the election is what was frozen: one configuration of the version
\* in force, with the window, options and snapshot of the row; its snapshot is the
\* only frozen one of that version; and one manifest, with that snapshot's root.
InForce == row.status \in {"READY", "OPEN", "CLOSED", "COUNTING", "RESULTS_PUBLISHED"}

FrozenConfigurationInForce ==
  InForce =>
    LET v == row.configurationVersion IN
    /\ {c \in configurations : c.version = v} =
         {[version |-> v, window |-> row.window, options |-> options, ref |-> row.ref]}
    /\ FrozenSnapshots(v) = {row.ref}
    /\ {m \in manifests : m.configurationVersion = v} =
         {[configurationVersion |-> v, window |-> row.window, options |-> options,
           merkleRoot |-> snapshots[row.ref].members]}

\* A configuration that was frozen once never changes, nor does the frozen
\* snapshot it refers to: a later draft gets a version and a snapshot of its own.
FrozenForGood ==
  [][/\ configurations \subseteq configurations' /\ manifests \subseteq manifests'
     /\ \A c \in configurations :
          /\ snapshots'[c.ref] = snapshots[c.ref] /\ snapshots[c.ref].status = "FROZEN"
     /\ \A c \in configurations' \ configurations, d \in configurations : c.version > d.version]_vars

\* No operation commits a decision taken on an election that has changed since it
\* was loaded, nor on a row and a list of options that never stood together.
DecidedOnWhatIsThere ==
  [][\A a \in Admins : pc[a] \in {"saving", "building"} /\ row' # row /\ pc'[a] = "idle" =>
       loaded[a] = [row |-> row, options |-> options]]_vars

\* Every transition is one the lifecycle allows and only prepare numbers a
\* configuration, whatever the administrators loaded and when.
ImplementsLifecycle == L!Spec

\* Does not hold, as the README tells: a credential that was withdrawn enters no
\* snapshot written afterwards.
WithdrawnStayOut ==
  [][Len(snapshots') > Len(snapshots) =>
       \A c \in snapshots'[Len(snapshots')].members : credential[c] # "WITHDRAWN"]_vars

\* getManifest: the manifests SELECTed WHERE publication_state = 'PUBLISHED', of
\* which it returns the first row
GetManifest == manifests

\* The manifest served for an election describes the configuration in force.
ServedManifestIsInForce ==
  InForce => \A m \in GetManifest : m.configurationVersion = row.configurationVersion
-----------------------------------------------------------------------------
\* The inductive invariant: why the properties hold.

\* Until the row changes again, what a handler loaded is what there is.
LoadedInv(a) ==
  LET r == loaded[a].row IN
  pc[a] # "idle" =>
    /\ r.rowVersion <= row.rowVersion
    /\ r.rowVersion = row.rowVersion =>
         r = row /\ (pc[a] # "loading" => loaded[a].options = options)

\* What is about to be saved was decided on what was loaded.
DecidedInv(a) ==
  LET r == loaded[a].row IN
  /\ pc[a] = "assessing" => op[a] \in {"prepare", "open"}
  /\ pc[a] = "saving" =>
       /\ op[a] = "updateDraft" => r.status = "DRAFT"
       /\ op[a] \in Transitions => Target[op[a]] \in L!ALLOWED_ELECTION_TRANSITIONS[r.status]
       /\ op[a] = "prepare" /\ r.rowVersion = row.rowVersion =>
            row.ref \in FrozenSnapshots(row.configurationVersion + 1)
  /\ pc[a] = "freezing" => r.ref \in DOMAIN snapshots

\* One frozen snapshot of each version; what a draft refers to and can still freeze is
\* of the version it will have.
SnapshotsInv ==
  /\ \A i, j \in DOMAIN snapshots :
       snapshots[i].status = "FROZEN" /\ snapshots[j].status = "FROZEN"
         /\ snapshots[i].configurationVersion = snapshots[j].configurationVersion => i = j
  /\ row.ref \in 0 .. Len(snapshots)
  /\ \A i \in DOMAIN snapshots :
       row.status = "DRAFT" /\ row.ref = i /\ snapshots[i].status = "BUILDING" =>
         snapshots[i].configurationVersion = row.configurationVersion + 1

\* What was frozen is of this version or an earlier one, with its snapshot.
ConfigurationsInv ==
  /\ \A c \in configurations : c.version <= row.configurationVersion
                               /\ c.ref \in FrozenSnapshots(c.version)
  /\ \A m \in manifests : m.configurationVersion <= row.configurationVersion

IInv == /\ TypeOK /\ SnapshotsInv /\ ConfigurationsInv /\ FrozenConfigurationInForce
        /\ \A a \in Admins : LoadedInv(a) /\ DecidedInv(a)
=============================================================================
