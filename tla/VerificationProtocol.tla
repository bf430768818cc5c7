------------------------ MODULE VerificationProtocol ------------------------
(***************************************************************************)
(* packages/verification-protocol: the records of the public evidence of   *)
(* an election (canonical vote set, tally, result, package manifest) and   *)
(* verifyElectionPackage, which recomputes them from a directory of files. *)
(* The API builds packages with these functions and anybody checks a       *)
(* package with them.                                                      *)
(*                                                                         *)
(* A digest stands for the value it is taken of: two digests are equal     *)
(* exactly when the values are.  A file is its parsed value, so what only  *)
(* concerns its text (canonical JSON, the form of a digest) is left out,   *)
(* and so are the digests a record carries of its own fields (manifest     *)
(* envelope, proof, public signals), which then always agree.              *)
(* README.md, which nothing reads, and artifact-digests.json, a copy of a  *)
(* field of the protocol manifest, are left out too.                       *)
(***************************************************************************)
EXTENDS Integers, Sequences, FiniteSets, SequencesExt, TLC

(* A record that is not there: not yet computed, or an error was thrown. *)
None == [none |-> TRUE]

RequiredFiles ==
  {"manifest", "protocol", "verification_key", "eligibility", "votes",
   "voteSet", "receipts", "tally", "result", "checkpoints"}

(* The context binds a vote to a configuration, its options and a protocol *)
ElectionContextV1(configuration, options, protocolVersion) ==
  [configuration |-> configuration, options |-> options,
   protocolVersion |-> protocolVersion]

PublicSignals(manifest, nullifier, choice) ==
  [merkleRoot |-> manifest.merkleRoot, nullifier |-> nullifier,
   electionContext |-> manifest.electionContext, voteChoice |-> choice]

(* groth16.verify accepts a proof made of these signals for this key. *)
Groth16Verify(key, signals, proof) == proof = [key |-> key, signals |-> signals]

(* compareCanonicalNullifiers: as field elements, 9 before 10. *)
CompareCanonicalNullifiers(left, right) == left.nullifier < right.nullifier

(* Array.sort is stable: after the smaller records, and after the equal    *)
(* ones that stood before.                                                 *)
SortedByNullifier(records) ==
  LET Before(i) ==
        {j \in DOMAIN records :
          \/ CompareCanonicalNullifiers(records[j], records[i])
          \/ j < i /\ ~ CompareCanonicalNullifiers(records[i], records[j])}
      position == [i \in DOMAIN records |-> Cardinality(Before(i)) + 1]
  IN  [n \in DOMAIN records |->
        records[CHOOSE i \in DOMAIN records : position[i] = n]]

UniqueNullifiers(votes) ==
  \A i, j \in DOMAIN votes : votes[i].nullifier = votes[j].nullifier => i = j

(* canonicalVoteJsonlV1, for the votes it does not throw for: those with   *)
(* unique nullifiers.                                                      *)
CanonicalVotesV1(votes) == SortedByNullifier(votes)

AcceptedVoteSetSnapshotV1(manifest, votes) ==
  [canonicalDigest |-> votes, recordCount |-> Len(votes),
   configuration |-> manifest.configuration,
   protocolVersion |-> manifest.protocolVersion]

(* The vote is one of the configuration the manifest froze. *)
Bound(manifest, vote) ==
  /\ vote.configuration = manifest.configuration
  /\ vote.protocolVersion = manifest.protocolVersion
  /\ vote.electionContext = manifest.electionContext
  /\ vote.merkleRoot = manifest.merkleRoot

\* Mutant of Counts: each vote is added to the option after its own.
CountsShifted(options, votes) ==
  LET count[i \in 0..Len(votes)] ==
        IF i = 0 THEN [o \in options |-> 0]
        ELSE [count[i - 1] EXCEPT
                ![(votes[i].voteEncoding + 1) % Cardinality(options)] = @ + 1]
  IN  count[Len(votes)]

(* The counting loop: every option starts at 0 and each vote adds one.     *)
Counts(options, votes) ==
  LET count[i \in 0..Len(votes)] ==
        IF i = 0 THEN [o \in options |-> 0]
        ELSE [count[i - 1] EXCEPT ![votes[i].voteEncoding] = @ + 1]
  IN  count[Len(votes)]

Total(counts) == FoldFunction(+, 0, counts)

(* computeTallyV1; None when it throws. *)
ComputeTallyV1(manifest, snapshot, votes) ==
  IF /\ snapshot.configuration = manifest.configuration
     /\ snapshot.protocolVersion = manifest.protocolVersion
     /\ snapshot.recordCount = Len(votes)
     /\ UniqueNullifiers(votes)
     /\ CanonicalVotesV1(votes) = snapshot.canonicalDigest
     /\ \A i \in DOMAIN votes : /\ Bound(manifest, votes[i])
                                /\ votes[i].voteEncoding \in manifest.options
     /\ Total(Counts(manifest.options, votes)) = Len(votes)
  THEN [acceptedVoteCount |-> Len(votes),
        acceptedVoteSetDigest |-> snapshot.canonicalDigest,
        configuration |-> manifest.configuration,
        totalsByOption |-> Counts(manifest.options, votes)]
  ELSE None

(* electionResultV1; None when it throws: every option of the manifest     *)
(* needs its total, others are not looked at.  publishedAt and the         *)
(* previous digest are copied and nothing recomputes them.                 *)
ElectionResultV1(manifest, tally, version, evidenceDigest) ==
  IF manifest.options \subseteq DOMAIN tally.totalsByOption
  THEN [tallyDigest |-> tally, resultVersion |-> version,
        totalAcceptedVotes |-> tally.acceptedVoteCount,
        totalsByOption |-> [o \in manifest.options |-> tally.totalsByOption[o]],
        configuration |-> manifest.configuration,
        verificationPackageDigest |-> evidenceDigest]
  ELSE None

(* packageContentDigest over every file but the result, and over them all. *)
EvidenceDigest(listing) == [f \in RequiredFiles \ {"result"} |-> listing[f]]
PackageContentDigest(listing) == [f \in RequiredFiles |-> listing[f]]

-----------------------------------------------------------------------------
(* verifyElectionPackage.  A package p has the files of its directory and  *)
(* its manifest: the listing of the files with their digests, the two      *)
(* digests over the listing, and the version of the result.                *)

When(condition, code) == IF condition THEN {code} ELSE {}

ManifestErrors(p) ==
  When(p.packageContentDigest # PackageContentDigest(p.listing),
       "PACKAGE_MANIFEST_INVALID")
  \cup When(p.evidenceDigest # EvidenceDigest(p.listing),
            "PACKAGE_EVIDENCE_DIGEST_MISMATCH")

Missing(p) == RequiredFiles \ DOMAIN p.files

\* Mutant of FileErrors: the files that are there are not digested.
FilesPresent(p) == When(Missing(p) # {}, "FILE_DIGEST_MISMATCH")

FileErrors(p) ==
  When(\E f \in RequiredFiles \ Missing(p) : p.files[f] # p.listing[f],
       "FILE_DIGEST_MISMATCH")

ArtifactErrors(p) ==
  LET key == p.files["verification_key"] IN
  When(\/ key # p.files["manifest"].verificationKeyDigest
       \/ key # p.files["protocol"].verificationKeyDigest,
       "ARTIFACT_DIGEST_MISMATCH")

BindingErrors(p) ==
  LET manifest == p.files["manifest"]
      protocol == p.files["protocol"]
  IN  When(manifest.protocolVersion # protocol.protocolVersion,
           "MANIFEST_PROTOCOL_BINDING_MISMATCH")
      \cup When(manifest.electionContext #
                  ElectionContextV1(manifest.configuration, manifest.options,
                                    protocol.protocolVersion),
                "ELECTION_CONTEXT_MISMATCH")

EligibilityErrors(p) ==
  When(\/ p.files["eligibility"].configuration # p.files["manifest"].configuration
       \/ p.files["eligibility"].merkleRoot # p.files["manifest"].merkleRoot,
       "ELIGIBILITY_MANIFEST_BINDING_MISMATCH")

VoteSetErrors(p) ==
  LET votes == p.files["votes"] IN
  When(CanonicalVotesV1(votes) # votes, "VOTE_RECORD_ORDER_OR_ENCODING_INVALID")
  \cup When(\/ p.files["voteSet"].canonicalDigest # votes
            \/ p.files["voteSet"].recordCount # Len(votes),
            "VOTE_SET_DIGEST_MISMATCH")

VoteBindingErrors(p) ==
  LET votes == p.files["votes"] IN
  When(\E i \in DOMAIN votes : ~Bound(p.files["manifest"], votes[i]),
       "VOTE_MANIFEST_BINDING_MISMATCH")

\* Mutant of ProofHolds: the proved choice is not compared with the vote.
ProofHoldsForAnyChoice(key, vote) ==
  /\ vote.publicSignals.nullifier = vote.nullifier
  /\ vote.publicSignals.electionContext = vote.electionContext
  /\ vote.publicSignals.merkleRoot = vote.merkleRoot
  /\ Groth16Verify(key, vote.publicSignals, vote.proof)

ProofHolds(key, vote) ==
  /\ vote.publicSignals.nullifier = vote.nullifier
  /\ vote.publicSignals.voteChoice = vote.voteEncoding
  /\ vote.publicSignals.electionContext = vote.electionContext
  /\ vote.publicSignals.merkleRoot = vote.merkleRoot
  /\ Groth16Verify(key, vote.publicSignals, vote.proof)

ProofErrors(p) ==
  LET votes == p.files["votes"] IN
  When(\E i \in DOMAIN votes :
         ~ProofHolds(p.files["verification_key"], votes[i]),
       "PROOF_VERIFICATION_FAILED")

ReceiptOf(vote) ==
  [nullifier |-> vote.nullifier, receiptCommitment |-> vote.receiptCommitment]

ReceiptsOf(votes) == [i \in DOMAIN votes |-> ReceiptOf(votes[i])]

ReceiptErrors(p) ==
  LET receipts == p.files["receipts"] IN
  When(\/ receipts # SortedByNullifier(receipts)
       \/ receipts # ReceiptsOf(p.files["votes"]),
       "RECEIPT_SET_MISMATCH")

CheckpointErrors(p) ==
  LET checkpoints == p.files["checkpoints"] IN
  When(\/ checkpoints = <<>>
       \/ \E i \in DOMAIN checkpoints :
            \/ checkpoints[i].fromSequence <= 0
            \/ checkpoints[i].toSequence < checkpoints[i].fromSequence,
       "CHECKPOINT_INVALID")

(* A throw ends the verification with what was found so far.               *)
ResultErrors(p) ==
  LET result == p.files["result"]
      expected == ElectionResultV1(p.files["manifest"], p.files["tally"],
                                   result.resultVersion, p.evidenceDigest)
  IN  IF expected = None THEN {"PACKAGE_INVALID"}
      ELSE When(\/ result.resultVersion # p.resultVersion
                \/ result # expected,
                "RESULT_DIGEST_MISMATCH")
           \cup CheckpointErrors(p)

TallyErrors(p) ==
  LET expected == ComputeTallyV1(p.files["manifest"], p.files["voteSet"],
                                 p.files["votes"])
  IN  IF expected = None THEN {"PACKAGE_INVALID"}
      ELSE When(p.files["tally"] # expected, "TALLY_MISMATCH")
           \cup ResultErrors(p)

(* A duplicated nullifier is not reported as such: the canonical form      *)
(* throws before the DUPLICATE_NULLIFIER check is reached.                 *)
RecordErrors(p) ==
  IF ~UniqueNullifiers(p.files["votes"]) THEN {"PACKAGE_INVALID"}
  ELSE VoteSetErrors(p) \cup VoteBindingErrors(p) \cup ProofErrors(p)
       \cup ReceiptErrors(p) \cup TallyErrors(p)

(* The errors of the report of a package. *)
Errors(p) ==
  ManifestErrors(p) \cup FileErrors(p) \cup
  IF Missing(p) # {} THEN {"VERIFICATION_ARTIFACT_MISSING", "PACKAGE_INVALID"}
  ELSE ArtifactErrors(p) \cup BindingErrors(p) \cup EligibilityErrors(p)
       \cup RecordErrors(p)

Valid(p) == Errors(p) = {}
=============================================================================
