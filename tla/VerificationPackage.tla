------------------------- MODULE VerificationPackage -------------------------
(***************************************************************************)
(* The evidence of one election, from its accepted votes to the package in *)
(* the artifact store, and what later happens to the files of the package. *)
(*                                                                         *)
(* Voting ends; enterCounting freezes the canonical vote set; computeTally *)
(* counts it twice, with the protocol and with SQL; generatePackage writes *)
(* the files, verifies the directory, and records its digest.  From then   *)
(* on the directory is only bytes: files are lost, or replaced by those of *)
(* another package (a backup, another run, an altered vote), and the       *)
(* package manifest may be rewritten over what is there.                   *)
(***************************************************************************)
EXTENDS VerificationProtocol

CONSTANTS
  Nullifiers,      \* of the voters who may vote
  Options,         \* the encodings of the options
  Configurations,  \* the configuration versions of the election
  TrustedKey,      \* the verification key the API ships
  ForeignKey,      \* the key of another setup
  MaxRelists       \* bound: times the package manifest is rewritten

ASSUME NullifiersAssumption == Nullifiers \subseteq Nat /\ IsFiniteSet(Nullifiers)
ASSUME OptionsAssumption == IsFiniteSet(Options)
ASSUME ConfigurationsAssumption == Configurations \subseteq Nat \ {0}
ASSUME KeysAssumption == TrustedKey # ForeignKey
ASSUME RelistsAssumption == MaxRelists \in Nat

VARIABLES
  status,         \* of the election, from OPEN
  configuration,  \* its configuration_version
  published,      \* the configurations with a PUBLISHED manifest
  rows,           \* voting.accepted_votes with their proof evidence
  snapshot,       \* result.accepted_vote_set_snapshots
  tally,          \* result.tally_manifests
  directory,      \* the package in the store
  contentDigest,  \* result.verification_packages.content_digest
  spare,          \* the package whose files turn up in the directory
  relists

vars == <<status, configuration, published, rows, snapshot, tally, directory,
          contentDigest, spare, relists>>

Version == "v1"

(* buildElectionManifestV1; each configuration has an eligibility snapshot *)
(* and a root of its own.                                                  *)
ManifestOf(c, key) ==
  [configuration |-> c, options |-> Options, protocolVersion |-> Version,
   electionContext |-> ElectionContextV1(c, Options, Version),
   merkleRoot |-> c, verificationKeyDigest |-> key]

TrustedManifest(c) == ManifestOf(c, TrustedKey)

(* eligibility.eligibility_snapshots: the frozen one of configuration c.   *)
FrozenEligibility(c) == [configuration |-> c, merkleRoot |-> c]

(* A row the API accepted: its proof was verified against the manifest.    *)
AcceptedRow(nullifier, encoding) ==
  LET signals == PublicSignals(TrustedManifest(configuration), nullifier, encoding)
  IN  [nullifier |-> nullifier, voteEncoding |-> encoding,
       configuration |-> configuration, receiptCommitment |-> <<nullifier>>,
       publicSignals |-> signals,
       proof |-> [key |-> TrustedKey, signals |-> signals]]

\* Mutant of VotesSql: ORDER BY the text of the nullifier.
VotesSqlAsText ==
  LET AsText(r) == IF r.nullifier < 10 THEN 10 * r.nullifier ELSE r.nullifier
  IN  SetToSortSeq(rows, LAMBDA l, r : AsText(l) < AsText(r))

(* VOTES_SQL, ORDER BY nullifier::numeric: no two rows have the same one.  *)
VotesSql ==
  [n \in 1..Cardinality(rows) |->
    CHOOSE row \in rows :
      Cardinality({r \in rows : ~ CompareCanonicalNullifiers(row, r)}) = n]

(* publicVotes: the context and the root are the manifest's, the rest the  *)
(* row's.                                                                  *)
PublicVotes(manifest, sequence) ==
  [i \in DOMAIN sequence |->
    [nullifier |-> sequence[i].nullifier,
     voteEncoding |-> sequence[i].voteEncoding,
     configuration |-> sequence[i].configuration, protocolVersion |-> Version,
     electionContext |-> manifest.electionContext,
     merkleRoot |-> manifest.merkleRoot,
     receiptCommitment |-> sequence[i].receiptCommitment,
     publicSignals |-> sequence[i].publicSignals, proof |-> sequence[i].proof]]

BallotVotes == PublicVotes(TrustedManifest(configuration), VotesSql)

(* GROUP BY vote_encoding, which yields no group without votes. *)
SqlTotals ==
  [e \in {r.voteEncoding : r \in rows} |->
    Cardinality({r \in rows : r.voteEncoding = e})]

\* Mutant of Voted: the options without votes are compared too.
VotedOrNot(totals) == totals

Voted(totals) == [o \in {x \in DOMAIN totals : totals[x] > 0} |-> totals[o]]

(* The files generatePackage writes and the manifest over them. *)
Listed(files, version) ==
  [files |-> files, listing |-> files, resultVersion |-> version,
   evidenceDigest |-> EvidenceDigest(files),
   packageContentDigest |-> PackageContentDigest(files)]

Evidence(manifest, key, votes, receipts, voteSet, counted) ==
  [manifest |-> manifest,
   protocol |-> [protocolVersion |-> Version, verificationKeyDigest |-> key],
   verification_key |-> key,
   eligibility |-> FrozenEligibility(counted.configuration),
   votes |-> votes, voteSet |-> voteSet, receipts |-> receipts,
   tally |-> counted,
   checkpoints |-> <<[fromSequence |-> 1, toSequence |-> 2]>>]

WithResult(evidence, version) ==
  LET result == ElectionResultV1(evidence.manifest, evidence.tally, version,
                                 EvidenceDigest(evidence))
  IN  [f \in RequiredFiles |-> IF f = "result" THEN result ELSE evidence[f]]

PackageOf(manifest, key, votes, receipts, voteSet, counted) ==
  Listed(WithResult(Evidence(manifest, key, votes, receipts, voteSet, counted), 1), 1)

(* The package over the manifest of configuration c. *)
GeneratedPackage(c) ==
  LET votes == PublicVotes(TrustedManifest(c), VotesSql) IN
  PackageOf(TrustedManifest(c), TrustedKey, CanonicalVotesV1(votes),
            ReceiptsOf(votes), snapshot, tally)

-----------------------------------------------------------------------------
Init ==
  /\ status = "OPEN"
  /\ configuration \in Configurations
  /\ published \in {s \cup {configuration} :
                      s \in SUBSET {c \in Configurations : c < configuration}}
  /\ rows = {} /\ snapshot = None /\ tally = None
  /\ directory = None /\ contentDigest = None /\ spare = None /\ relists = 0

Accept(nullifier, encoding) ==
  /\ status = "OPEN"
  /\ \A r \in rows : r.nullifier # nullifier
  /\ rows' = rows \cup {AcceptedRow(nullifier, encoding)}
  /\ UNCHANGED <<status, configuration, published, snapshot, tally, directory,
                 contentDigest, spare, relists>>

Close ==
  /\ status = "OPEN"
  /\ status' = "CLOSED"
  /\ UNCHANGED <<configuration, published, rows, snapshot, tally, directory,
                 contentDigest, spare, relists>>

EnterCounting ==
  /\ status = "CLOSED"
  /\ UniqueNullifiers(BallotVotes)
  /\ snapshot' = AcceptedVoteSetSnapshotV1(TrustedManifest(configuration),
                                           CanonicalVotesV1(BallotVotes))
  /\ status' = "COUNTING"
  /\ UNCHANGED <<configuration, published, rows, tally, directory,
                 contentDigest, spare, relists>>

(* What computeTally rechecks before it stores a tally; the first failure  *)
(* throws and leaves the election in COUNTING without one.                 *)
CanonicalTally ==
  ComputeTallyV1(TrustedManifest(configuration), snapshot, BallotVotes)

TallyAgrees ==
  /\ CanonicalVotesV1(BallotVotes) = snapshot.canonicalDigest
  /\ Len(BallotVotes) = snapshot.recordCount
  /\ CanonicalTally # None
  /\ SqlTotals = Voted(CanonicalTally.totalsByOption)

ComputeTally ==
  /\ status = "COUNTING" /\ tally = None
  /\ TallyAgrees
  /\ tally' = CanonicalTally
  /\ UNCHANGED <<status, configuration, published, rows, snapshot, directory,
                 contentDigest, spare, relists>>

(* getManifest takes whichever PUBLISHED manifest of the election the      *)
(* query returns first.                                                    *)
WritePackage ==
  /\ status = "COUNTING" /\ tally # None /\ directory = None
  /\ directory' \in {GeneratedPackage(c) : c \in published}
  /\ UNCHANGED <<status, configuration, published, rows, snapshot, tally,
                 contentDigest, spare, relists>>

\* Mutant of RecordPackage: recorded whatever the report says.
RecordUnverified ==
  /\ directory # None /\ contentDigest = None
  /\ contentDigest' = directory.packageContentDigest
  /\ UNCHANGED <<status, configuration, published, rows, snapshot, tally,
                 directory, spare, relists>>

RecordPackage ==
  /\ directory # None /\ contentDigest = None
  /\ Valid(directory)
  /\ contentDigest' = directory.packageContentDigest
  /\ UNCHANGED <<status, configuration, published, rows, snapshot, tally,
                 directory, spare, relists>>

(* The package does not verify, or the transaction that records it fails:  *)
(* the next call writes another one elsewhere.                             *)
DropPackage ==
  /\ directory # None /\ contentDigest = None
  /\ directory' = None
  /\ UNCHANGED <<status, configuration, published, rows, snapshot, tally,
                 contentDigest, spare, relists>>

-----------------------------------------------------------------------------
(* The files of the directory, outside the program.                        *)

Without(s, i) == [j \in 1..(Len(s) - 1) |-> IF j < i THEN s[j] ELSE s[j + 1]]

(* A vote changed alone, and together with its public signals. *)
Changed(vote, o) == [vote EXCEPT !.voteEncoding = o]
Restated(vote, o) == [Changed(vote, o) EXCEPT !.publicSignals.voteChoice = o]

(* Other vote files: one fewer, one twice, another order, one changed.     *)
OtherVotes ==
  LET votes == directory.files["votes"] IN
  {Without(votes, i) : i \in DOMAIN votes}
  \cup {Append(votes, votes[i]) : i \in DOMAIN votes}
  \cup {[i \in DOMAIN votes |-> votes[Len(votes) + 1 - i]]}
  \cup {[votes EXCEPT ![i] = Changed(@, o)] : i \in DOMAIN votes, o \in Options}
  \cup {[votes EXCEPT ![i] = Restated(@, o)] : i \in DOMAIN votes, o \in Options}

(* A tally of any votes, without what computeTallyV1 refuses. *)
NaiveTally(manifest, votes) ==
  [acceptedVoteCount |-> Len(votes), acceptedVoteSetDigest |-> votes,
   configuration |-> manifest.configuration,
   totalsByOption |-> Counts(manifest.options, votes)]

OtherPackage(c, key, votes) ==
  LET manifest == ManifestOf(c, key) IN
  PackageOf(manifest, key, votes, ReceiptsOf(votes),
            AcceptedVoteSetSnapshotV1(manifest, votes),
            NaiveTally(manifest, votes))

Spares ==
  LET votes == directory.files["votes"] IN
  {OtherPackage(configuration, TrustedKey, other) : other \in OtherVotes}
  \cup {OtherPackage(c, TrustedKey, votes) : c \in Configurations}
  \cup {OtherPackage(configuration, ForeignKey, votes)}

FindSpare ==
  /\ contentDigest # None /\ spare = None /\ Missing(directory) = {}
  /\ spare' \in {p \in Spares : p.files # directory.files}
  /\ UNCHANGED <<status, configuration, published, rows, snapshot, tally,
                 directory, contentDigest, relists>>

Replace(f) ==
  /\ spare # None
  /\ directory.files[f] # spare.files[f]
  /\ directory' = [directory EXCEPT !.files[f] = spare.files[f]]
  /\ UNCHANGED <<status, configuration, published, rows, snapshot, tally,
                 contentDigest, spare, relists>>

LoseFile(f) ==
  /\ contentDigest # None /\ spare = None
  /\ Missing(directory) = {}
  /\ directory' = [directory EXCEPT !.files = [g \in DOMAIN @ \ {f} |-> @[g]]]
  /\ UNCHANGED <<status, configuration, published, rows, snapshot, tally,
                 contentDigest, spare, relists>>

Relist ==
  /\ spare # None /\ relists < MaxRelists
  /\ directory' = Listed(directory.files, directory.resultVersion)
  /\ relists' = relists + 1
  /\ UNCHANGED <<status, configuration, published, rows, snapshot, tally,
                 contentDigest, spare>>

Next ==
  \/ \E n \in Nullifiers, o \in Options : Accept(n, o)
  \/ Close
  \/ EnterCounting
  \/ ComputeTally
  \/ WritePackage
  \/ RecordPackage
  \/ DropPackage
  \/ FindSpare
  \/ \E f \in RequiredFiles : Replace(f) \/ LoseFile(f)
  \/ Relist

Spec == Init /\ [][Next]_vars

-----------------------------------------------------------------------------
(* Properties *)

(* Shape of the state. *)
TypeOK ==
  /\ status \in {"OPEN", "CLOSED", "COUNTING"}
  /\ configuration \in published /\ published \subseteq Configurations
  /\ {r.nullifier : r \in rows} \subseteq Nullifiers
  /\ {r.voteEncoding : r \in rows} \subseteq Options
  /\ status = "COUNTING" <=> snapshot # None
  /\ tally # None => snapshot # None
  /\ contentDigest # None => tally # None /\ directory # None
  /\ spare # None => contentDigest # None
  /\ relists \in 0..MaxRelists

(* A frozen vote set can always be counted: the votes read again give the  *)
(* digest and the number frozen, the protocol counts them without          *)
(* throwing, and the totals PostgreSQL groups are the canonical ones.      *)
(* Otherwise the election would stay in COUNTING for good.                 *)
CountingNeverStalls == status = "COUNTING" => TallyAgrees

(* The package the API writes over the manifest in force passes the        *)
(* independent verification, whatever the votes: what the service          *)
(* serialises and what the verifier recomputes agree, order included.      *)
GeneratedVerifies ==
  (/\ directory # None /\ contentDigest = None
   /\ directory.files["manifest"] = TrustedManifest(configuration))
    => Valid(directory)

(* Although getManifest may return the manifest of a configuration the     *)
(* election has left, no package over it is ever recorded as official.     *)
RecordedIsInForce ==
  contentDigest # None
    => contentDigest["manifest"] = TrustedManifest(configuration)

(* What a valid report says of the votes of any directory, mixed from      *)
(* several packages or not: each voter counts once, each vote was proved   *)
(* for the election of the manifest and the root of the eligible voters,   *)
(* and the receipts are those of the votes.                                *)
ProvedVotes(files) ==
  /\ UniqueNullifiers(files["votes"])
  /\ \A i \in DOMAIN files["votes"] :
       LET vote == files["votes"][i]
           signals == vote.publicSignals
       IN  /\ Groth16Verify(files["manifest"].verificationKeyDigest, signals,
                            vote.proof)
           /\ signals.nullifier = vote.nullifier
           /\ signals.voteChoice = vote.voteEncoding
           /\ signals.electionContext = files["manifest"].electionContext
           /\ signals.merkleRoot = files["eligibility"].merkleRoot
  /\ files["receipts"] = ReceiptsOf(files["votes"])

VerifiedVotesAreProved ==
  (directory # None /\ Valid(directory)) => ProvedVotes(directory.files)

(* ... and of its result: the total of each option is the number of votes  *)
(* for it, counted once more from the records, and nothing is left over.   *)
VerifiedTotalsAdd ==
  (directory # None /\ Valid(directory)) =>
    LET files == directory.files
        VotesFor(o) ==
          Cardinality({i \in DOMAIN files["votes"] :
                         files["votes"][i].voteEncoding = o})
    IN  /\ files["result"].totalAcceptedVotes = Len(files["votes"])
        /\ files["result"].totalsByOption = [o \in Options |-> VotesFor(o)]
        /\ \A i \in DOMAIN files["votes"] : files["votes"][i].voteEncoding \in Options

(* The recorded package verifies once more: what generatePackage demands   *)
(* before it answers with a package on record and publishResults before it *)
(* publishes one.  getVerificationFile, which serves single files to the   *)
(* public, reads them without this check.                                  *)
Reverified ==
  /\ contentDigest # None
  /\ Valid(directory)
  /\ directory.packageContentDigest = contentDigest

(* A package that generatePackage still answers with, or publishResults    *)
(* publishes, is the recorded one, file by file, and holds the accepted    *)
(* votes of the database and the tally computed from them: whatever was    *)
(* lost, replaced or relisted since is noticed there.                      *)
ReverifiedIsTheBox ==
  Reverified =>
    /\ directory.files = contentDigest
    /\ directory.files["votes"] = CanonicalVotesV1(BallotVotes)
    /\ directory.files["tally"] = tally
=============================================================================
