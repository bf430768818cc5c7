------------------------- MODULE EligibilityRegistry -------------------------
(***************************************************************************)
(* The electoral roll and its credentials, which several administrators    *)
(* change at once.  An operation of the eligibility service on one voter   *)
(* or credential loads the row, decides, and writes in one transaction     *)
(* that compares the row version it loaded, or that takes the lock of the  *)
(* voter and looks again.  An import runs one transaction per record, and  *)
(* its SELECT and its write are two statements of a READ COMMITTED         *)
(* transaction that locks nothing in between.                              *)
(* Names, times and the audit rows of eligibility.eligibility_event are    *)
(* left out; the identity of a credential is its commitment, of which the  *)
(* table keeps one row only.                                               *)
(***************************************************************************)
EXTENDS EligibilityTree

CONSTANTS
  Registrars,
  References,     \* external references of persons
  NoReference,    \* a record without one
  Commitments,    \* identity commitments of the one scheme that exists
  Batches,        \* lists of references that an import may bring
  MaxVoters,      \* bound on the rows of eligible_voters
  MaxVoterVersion   \* bound on the updates of one of them

ASSUME RegistryAssumption ==
  /\ NoReference \notin References
  /\ Batches \subseteq Seq(References \cup {NoReference}) \ {<<>>}
  /\ \A b \in Batches : \A i, j \in DOMAIN b : b[i] = b[j] /\ b[i] # NoReference => i = j
  /\ Commitments \subseteq Nat /\ IsFiniteSet(Commitments)
  /\ MaxVoters \in Nat /\ MaxVoterVersion \in Nat

VARIABLES
  voters,         \* eligible_voters in order of creation; rows are never deleted
  credentials,    \* the row of electoral_credentials of each commitment
  request         \* what the request of each administrator holds between two awaits

registryVars == <<voters, credentials, request>>

Voter == [reference : References \cup {NoReference}, status : {"ACTIVE", "INACTIVE"},
          rowVersion : Nat]
Absent == [voter |-> 0, status |-> "ABSENT", rowVersion |-> 0]
Credential == [voter : Nat \ {0}, status : {"ACTIVE", "REVOKED", "ROTATED"}, rowVersion : Nat]

Idle == [op |-> "idle"]
Unread == 0
NotFound == MaxVoters + 1
RequestState ==
  {Idle}
  \cup [op : {"deactivateVoter"}, voter : Nat, rowVersion : Nat]
  \cup [op : {"registerCredential"}, voter : Nat, commitment : Commitments]
  \cup [op : {"revokeCredential"}, commitment : Commitments, rowVersion : Nat]
  \cup [op : {"importVoters"}, left : Seq(References \cup {NoReference}), existing : Nat]

RegistryTypeOK ==
  /\ voters \in Seq(Voter) /\ Len(voters) <= MaxVoters
  /\ credentials \in [Commitments -> Credential \cup {Absent}]
  /\ \A k \in Commitments : credentials[k] # Absent => credentials[k].voter \in DOMAIN voters
  /\ request \in [Registrars -> RequestState]

RegistryInit ==
  /\ voters = <<>>
  /\ credentials = [k \in Commitments |-> Absent]
  /\ request = [a \in Registrars |-> Idle]

ActiveOf(v) == {k \in Commitments : credentials[k].voter = v /\ credentials[k].status = "ACTIVE"}

\* the request of a answers, with or without an error
Answer(a) == request' = [request EXCEPT ![a] = Idle]
-----------------------------------------------------------------------------
\* Voters.

\* Mutant of ReferenceIsFree: the unique index is missing.
ReferenceAlwaysFree(reference) == TRUE

\* eligible_voters_external_reference_unique
ReferenceIsFree(reference) ==
  reference = NoReference \/ \A i \in DOMAIN voters : voters[i].reference # reference

\* INSERT of a new voter, who is ACTIVE
Insert(reference) ==
  /\ Len(voters) < MaxVoters
  /\ voters' = Append(voters, [reference |-> reference, status |-> "ACTIVE", rowVersion |-> 0])

\* one INSERT, with no query before it; a reference that is taken is an error
RegisterVoter(reference) ==
  /\ ReferenceIsFree(reference)
  /\ Insert(reference)
  /\ UNCHANGED <<credentials, request>>

\* loadVoter, and deactivate() of the aggregate
DeactivateVoter(a, v) ==
  /\ request[a] = Idle /\ voters[v].status = "ACTIVE"
  /\ request' = [request EXCEPT ![a] = [op |-> "deactivateVoter", voter |-> v,
                                        rowVersion |-> voters[v].rowVersion]]
  /\ UNCHANGED <<voters, credentials>>

Deactivated(voter) == [voter EXCEPT !.status = "INACTIVE", !.rowVersion = @ + 1]

\* saveDeactivation: UPDATE ... WHERE status = 'ACTIVE' AND row_version = ...
SaveDeactivation(a) ==
  /\ request[a].op = "deactivateVoter"
  /\ LET v == request[a].voter IN
     IF voters[v].status = "ACTIVE" /\ voters[v].rowVersion = request[a].rowVersion
     THEN voters' = [voters EXCEPT ![v] = Deactivated(@)]
     ELSE UNCHANGED voters
  /\ Answer(a)
  /\ UNCHANGED credentials
-----------------------------------------------------------------------------
\* Import.

\* the records are checked, duplicates among them included, before the first is written
ImportVoters(a, batch) ==
  /\ request[a] = Idle
  /\ request' = [request EXCEPT ![a] = [op |-> "importVoters", left |-> batch,
                                        existing |-> Unread]]
  /\ UNCHANGED <<voters, credentials>>

\* the import without its first record
Rest(r) == [r EXCEPT !.left = Tail(r.left), !.existing = Unread]

\* the await of a record returned: the next one, or the answer
NextRecord(a) ==
  request' = [request EXCEPT ![a] = IF Len(@.left) = 1 THEN Idle ELSE Rest(@)]

\* upsertAdministrativeRecord: a record without a reference is a new voter
UpsertUnreferenced(a) ==
  /\ request[a].op = "importVoters" /\ Head(request[a].left) = NoReference
  /\ Insert(NoReference)
  /\ NextRecord(a)
  /\ UNCHANGED credentials

\* SELECT id ... WHERE external_reference = ...
SelectExisting(a) ==
  /\ request[a].op = "importVoters" /\ request[a].existing = Unread
  /\ LET reference == Head(request[a].left)
         rows == {i \in DOMAIN voters : voters[i].reference = reference}
     IN /\ reference # NoReference
        /\ \/ \E i \in rows : request' = [request EXCEPT ![a].existing = i]
           \/ rows = {} /\ request' = [request EXCEPT ![a].existing = NotFound]
  /\ UNCHANGED <<voters, credentials>>

\* INSERT of a reference that was not found.  Another request may have registered it
\* since: 23505, which ends the import where it stands
InsertRecord(a) ==
  /\ request[a].op = "importVoters" /\ request[a].existing = NotFound
  /\ LET reference == Head(request[a].left) IN
     \/ ReferenceIsFree(reference) /\ Insert(reference) /\ NextRecord(a)
     \/ ~ReferenceIsFree(reference) /\ Answer(a) /\ UNCHANGED voters
  /\ UNCHANGED credentials

\* UPDATE of the row that was found: its name, whatever its status or version
UpdateRecord(a) ==
  /\ request[a].op = "importVoters" /\ request[a].existing \in DOMAIN voters
  /\ voters[request[a].existing].rowVersion < MaxVoterVersion
  /\ voters' = [voters EXCEPT ![request[a].existing].rowVersion = @ + 1]
  /\ NextRecord(a)
  /\ UNCHANGED credentials
-----------------------------------------------------------------------------
\* Credentials.

\* loadVoter, whose status must be ACTIVE
RegisterCredential(a, v, k) ==
  /\ request[a] = Idle /\ voters[v].status = "ACTIVE"
  /\ request' = [request EXCEPT ![a] = [op |-> "registerCredential", voter |-> v,
                                        commitment |-> k]]
  /\ UNCHANGED <<voters, credentials>>

Rotated(credential) == [credential EXCEPT !.status = "ROTATED", !.rowVersion = @ + 1]

\* The rows after the credentials of v in "old" are rotated and k, if it is free, is
\* inserted for v.
Replaced(v, k, old) ==
  [l \in Commitments |->
     IF l \in old THEN Rotated(credentials[l])
     ELSE IF l = k /\ credentials[k] = Absent
     THEN [voter |-> v, status |-> "ACTIVE", rowVersion |-> 0]
     ELSE credentials[l]]

\* Mutants of RegisterAndRotate: the voter is not looked at again under its lock; the
\* rotation is committed though the INSERT fails.
RegisterAndRotateUnchecked(a) ==
  /\ request[a].op = "registerCredential"
  /\ LET v == request[a].voter
         k == request[a].commitment
     IN IF credentials[k] = Absent
        THEN credentials' = Replaced(v, k, ActiveOf(v))
        ELSE UNCHANGED credentials
  /\ Answer(a)
  /\ UNCHANGED voters
RegisterAndRotateApart(a) ==
  /\ request[a].op = "registerCredential"
  /\ LET v == request[a].voter
         k == request[a].commitment
     IN IF voters[v].status = "ACTIVE"
        THEN credentials' = Replaced(v, k, ActiveOf(v))
        ELSE UNCHANGED credentials
  /\ Answer(a)
  /\ UNCHANGED voters

\* registerAndRotate: the row of the voter is locked and looked at again, its active
\* credential is rotated and the new one inserted.  A commitment that is registered
\* already, for whichever voter, rolls the rotation back
RegisterAndRotate(a) ==
  /\ request[a].op = "registerCredential"
  /\ LET v == request[a].voter
         k == request[a].commitment
     IN IF voters[v].status = "ACTIVE" /\ credentials[k] = Absent
        THEN credentials' = Replaced(v, k, ActiveOf(v))
        ELSE UNCHANGED credentials
  /\ Answer(a)
  /\ UNCHANGED voters

\* findById, and revoke() of the aggregate; the voter may be INACTIVE
RevokeCredential(a, k) ==
  /\ request[a] = Idle /\ credentials[k].status = "ACTIVE"
  /\ request' = [request EXCEPT ![a] = [op |-> "revokeCredential", commitment |-> k,
                                        rowVersion |-> credentials[k].rowVersion]]
  /\ UNCHANGED <<voters, credentials>>

Revoked(credential) == [credential EXCEPT !.status = "REVOKED", !.rowVersion = @ + 1]

\* revoke: UPDATE ... WHERE status = 'ACTIVE' AND row_version = ...
SaveRevocation(a) ==
  /\ request[a].op = "revokeCredential"
  /\ LET k == request[a].commitment IN
     IF credentials[k].status = "ACTIVE" /\ credentials[k].rowVersion = request[a].rowVersion
     THEN credentials' = [credentials EXCEPT ![k] = Revoked(@)]
     ELSE UNCHANGED credentials
  /\ Answer(a)
  /\ UNCHANGED voters

\* a query fails or the process dies before the COMMIT
AbortRequest(a) == request[a] # Idle /\ Answer(a) /\ UNCHANGED <<voters, credentials>>

RegistryNext ==
  \/ \E reference \in References \cup {NoReference} : RegisterVoter(reference)
  \/ \E a \in Registrars :
       \/ \E v \in DOMAIN voters :
            DeactivateVoter(a, v) \/ \E k \in Commitments : RegisterCredential(a, v, k)
       \/ \E k \in Commitments : RevokeCredential(a, k)
       \/ \E batch \in Batches : ImportVoters(a, batch)
       \/ SaveDeactivation(a) \/ RegisterAndRotate(a) \/ SaveRevocation(a)
       \/ UpsertUnreferenced(a) \/ SelectExisting(a) \/ InsertRecord(a) \/ UpdateRecord(a)
       \/ AbortRequest(a)

RegistrySpec == RegistryInit /\ [][RegistryNext]_registryVars
-----------------------------------------------------------------------------
\* What a snapshot is built from.

\* ACTIVE credentials joined with ACTIVE voters
ListActiveDeterministically ==
  {k \in Commitments : /\ credentials[k].status = "ACTIVE"
                       /\ voters[credentials[k].voter].status = "ACTIVE"}

\* listActiveDeterministically returns a row for each of them, in an order that does
\* not matter
Listing ==
  LET active == ListActiveDeterministically IN
  CHOOSE l \in [1..Cardinality(active) -> active] : {l[i] : i \in DOMAIN l} = active

\* PoseidonMerkleTreeBuilder.build
Artifact(identityCommitments) ==
  LET tree == BuildMerkleTreeV1(identityCommitments) IN
  [leafValues |-> tree.leaves, merkleRoot |-> tree.root]

\* PoseidonMerkleTreeBuilder.verify, before a snapshot is frozen: the tree of the
\* members in order of their leaf index
Verify(artifact) ==
  /\ BuildErrors(artifact.leafValues) = {}
  /\ Artifact(artifact.leafValues) = artifact

\* Two rows of the roll are about one person when they carry one reference.
SamePerson(v, w) ==
  \/ v = w
  \/ voters[v].reference = voters[w].reference /\ voters[v].reference # NoReference

\* A person has at most one leaf in any tree built from the roll, whatever imports,
\* registrations and rotations ran at once.
OneLeafPerPerson ==
  \A k, l \in ListActiveDeterministically :
    SamePerson(credentials[k].voter, credentials[l].voter) => k = l

\* A snapshot of the roll as it is verifies and lets in whom it lists: each active
\* commitment proves itself at one place of the tree and no other commitment does at
\* any, and the root is that of the whole tree with its empty places.
RollIsProvable ==
  LET tree == BuildMerkleTreeV1(Listing)
      places == 0..(Len(Listing) - 1)
  IN BuildErrors(Listing) = {} =>
       /\ Verify(Artifact(Listing))
       /\ tree.root = CompleteRoot(tree.leaves)
       /\ \A k \in Commitments :
            Cardinality({i \in places : VerifyMerkleProofV1(k, MerkleProof(tree, i), tree.root)})
              = IF k \in ListActiveDeterministically THEN 1 ELSE 0

\* A registration that fails takes nothing away: a credential is ROTATED only in the
\* step that makes another one of its voter ACTIVE.
RotationReplaces ==
  [][\A k \in Commitments :
       credentials[k].status # "ROTATED" /\ credentials'[k].status = "ROTATED" =>
         \E l \in Commitments : /\ credentials[l] = Absent
                                /\ credentials'[l].status = "ACTIVE"
                                /\ credentials'[l].voter = credentials[k].voter]_registryVars

\* What Elections assumes of a credential: it becomes eligible when it is registered,
\* and once it is withdrawn, by a revocation, a rotation or the deactivation of its
\* voter, nothing brings it back: no stale request, no import of the same person.
Eligibility(k) ==
  CASE credentials[k] = Absent -> "ABSENT"
    [] k \in ListActiveDeterministically -> "ACTIVE"
    [] OTHER -> "WITHDRAWN"

WithdrawnIsFinal ==
  [][\A k \in Commitments :
       <<Eligibility(k), Eligibility(k)'>> \in
         {<<"ABSENT", "ABSENT">>, <<"ABSENT", "ACTIVE">>, <<"ACTIVE", "ACTIVE">>,
          <<"ACTIVE", "WITHDRAWN">>, <<"WITHDRAWN", "WITHDRAWN">>}]_registryVars
-----------------------------------------------------------------------------
\* The inductive invariant behind the properties.

\* What a request holds exists.
RequestsInv ==
  \A a \in Registrars :
    /\ request[a].op \in {"deactivateVoter", "registerCredential"} =>
         request[a].voter \in DOMAIN voters
    /\ request[a].op = "importVoters" => request[a].left # <<>>

UniqueReferences == \A v, w \in DOMAIN voters : SamePerson(v, w) => v = w

OneActiveCredential == \A k, l \in Commitments : \A v \in DOMAIN voters :
                         k \in ActiveOf(v) /\ l \in ActiveOf(v) => k = l

RegistryInv == RegistryTypeOK /\ RequestsInv /\ UniqueReferences /\ OneActiveCredential
=============================================================================
