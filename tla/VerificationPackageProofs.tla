---------------------- MODULE VerificationPackageProofs ----------------------
(***************************************************************************)
(* What a valid verification report implies, for every directory, and that *)
(* a package served as official is the recorded one and holds the accepted *)
(* votes, for every set of voters, options and configurations.             *)
(***************************************************************************)
EXTENDS VerificationPackage, FiniteSetTheorems, TLAPS

LEMMA WhenEmpty ==
  ASSUME NEW condition, NEW code, When(condition, code) = {}
  PROVE  ~condition
BY DEF When

(* A valid report means that no check, on any path, reported an error.     *)
LEMMA ValidParts ==
  ASSUME NEW p, Valid(p)
  PROVE  /\ ManifestErrors(p) = {} /\ FileErrors(p) = {} /\ Missing(p) = {}
         /\ ArtifactErrors(p) = {} /\ EligibilityErrors(p) = {}
         /\ UniqueNullifiers(p.files["votes"])
         /\ VoteBindingErrors(p) = {} /\ ProofErrors(p) = {}
         /\ ReceiptErrors(p) = {} /\ TallyErrors(p) = {}
<1>1. Errors(p) = {}
  BY DEF Valid
<1>2. Missing(p) = {} /\ ManifestErrors(p) = {} /\ FileErrors(p) = {}
  BY <1>1 DEF Errors
<1>3. /\ ArtifactErrors(p) = {} /\ EligibilityErrors(p) = {}
      /\ RecordErrors(p) = {}
  BY <1>1, <1>2 DEF Errors
<1>4. QED
  BY <1>2, <1>3 DEF RecordErrors

(* The files of a valid package are those its listing digests.             *)
LEMMA ValidFiles ==
  ASSUME NEW p, Valid(p)
  PROVE  /\ RequiredFiles \subseteq DOMAIN p.files
         /\ \A f \in RequiredFiles : p.files[f] = p.listing[f]
         /\ p.packageContentDigest = PackageContentDigest(p.listing)
<1>1. RequiredFiles \subseteq DOMAIN p.files
  BY ValidParts DEF Missing
<1>2. ~ \E f \in RequiredFiles \ Missing(p) : p.files[f] # p.listing[f]
  BY ValidParts, WhenEmpty DEF FileErrors
<1>3. ~ p.packageContentDigest # PackageContentDigest(p.listing)
  BY ValidParts, WhenEmpty DEF ManifestErrors
<1>4. QED
  BY <1>1, <1>2, <1>3, ValidParts

(* The tally of a valid package is one of the configuration of its         *)
(* manifest.                                                               *)
LEMMA ValidTally ==
  ASSUME NEW p, Valid(p)
  PROVE  p.files["tally"].configuration = p.files["manifest"].configuration
<1> DEFINE expected == ComputeTallyV1(p.files["manifest"], p.files["voteSet"],
                                      p.files["votes"])
<1>1. expected # None /\ When(p.files["tally"] # expected, "TALLY_MISMATCH") = {}
  BY ValidParts DEF TallyErrors
<1>2. p.files["tally"] = expected
  BY <1>1, WhenEmpty
<1>3. expected.configuration = p.files["manifest"].configuration
  BY <1>1 DEF ComputeTallyV1
<1>4. QED
  BY <1>2, <1>3

(* The verifier is sound about votes: in any package it finds valid every  *)
(* voter counts once and every vote carries a proof of itself, under the   *)
(* key of the manifest, for the election and the eligible voters published *)
(* with it.                                                                *)
THEOREM ValidIsProved ==
  ASSUME NEW p, Valid(p)
  PROVE  ProvedVotes(p.files)
<1> DEFINE votes == p.files["votes"]
           manifest == p.files["manifest"]
           key == p.files["verification_key"]
<1>1. UniqueNullifiers(votes)
  BY ValidParts
<1>2. key = manifest.verificationKeyDigest
  BY ValidParts, WhenEmpty DEF ArtifactErrors
<1>3. p.files["eligibility"].merkleRoot = manifest.merkleRoot
  BY ValidParts, WhenEmpty DEF EligibilityErrors
<1>4. \A i \in DOMAIN votes : Bound(manifest, votes[i])
  BY ValidParts, WhenEmpty DEF VoteBindingErrors
<1>5. \A i \in DOMAIN votes : ProofHolds(key, votes[i])
  BY ValidParts, WhenEmpty DEF ProofErrors
<1>6. p.files["receipts"] = ReceiptsOf(votes)
  BY ValidParts, WhenEmpty DEF ReceiptErrors
<1>7. QED
  BY <1>1, <1>2, <1>3, <1>4, <1>5, <1>6 DEF ProvedVotes, Bound, ProofHolds

-----------------------------------------------------------------------------
(* Induction: what the counting loop and the sum of the totals compute.    *)

(* Below every set of numbers there is a least one. *)
LEMMA LeastNumber ==
  ASSUME NEW S \in SUBSET Nat, S # {}
  PROVE  \E n \in S : \A m \in S : n <= m
<1> DEFINE R == OpToRel(<, Nat)
<1>1. PICK n \in S : \A m \in S : <<m, n>> \notin R
  <2> HIDE DEF R
  <2>1. IsWellFoundedOn(R, Nat)
    BY NatLessThanWellFounded DEF R
  <2>2. QED
    BY <2>1, WFMin
<1>2. ASSUME NEW m \in S, m < n
      PROVE  <<m, n>> \in R
  BY <1>2 DEF OpToRel
<1>3. \A m \in S : ~ m < n
  BY <1>1, <1>2
<1>4. QED
  BY <1>3

(* The counting loop gives each option the number of its votes. *)
VotesOf(votes, n, o) == {i \in 1..n : votes[i].voteEncoding = o}

LEMMA OneMoreVote ==
  ASSUME NEW votes, NEW n \in Nat \ {0}, NEW o
  PROVE  /\ Cardinality(VotesOf(votes, 0, o)) = 0
         /\ Cardinality(VotesOf(votes, n, o)) \in Nat
         /\ Cardinality(VotesOf(votes, n, o)) =
              Cardinality(VotesOf(votes, n - 1, o))
                + (IF votes[n].voteEncoding = o THEN 1 ELSE 0)
<1>1. VotesOf(votes, 0, o) = {}
  BY DEF VotesOf
<1>2. IsFiniteSet(VotesOf(votes, n - 1, o)) /\ IsFiniteSet(VotesOf(votes, n, o))
  <2>1. \A m \in Nat : IsFiniteSet(1..m) /\ VotesOf(votes, m, o) \in SUBSET (1..m)
    BY FS_Interval DEF VotesOf
  <2>2. QED
    BY <2>1, FS_Subset
<1>3. n \notin VotesOf(votes, n - 1, o)
  BY DEF VotesOf
<1>4. VotesOf(votes, n, o) = IF votes[n].voteEncoding = o
                              THEN VotesOf(votes, n - 1, o) \cup {n}
                              ELSE VotesOf(votes, n - 1, o)
  BY DEF VotesOf
<1>5. /\ Cardinality(VotesOf(votes, 0, o)) = 0
      /\ Cardinality(VotesOf(votes, n, o)) \in Nat
  BY <1>1, <1>2, FS_EmptySet, FS_CardinalityType
<1>6. CASE votes[n].voteEncoding = o
  BY <1>2, <1>3, <1>4, <1>5, <1>6, FS_AddElement
<1>7. CASE votes[n].voteEncoding # o
  <2>1. Cardinality(VotesOf(votes, n - 1, o)) \in Nat
    BY <1>2, FS_CardinalityType
  <2>2. QED
    BY <1>4, <1>5, <1>7, <2>1
<1>8. QED
  BY <1>5, <1>6, <1>7

LEMMA CountsAre ==
  ASSUME NEW options, NEW votes, Len(votes) \in Nat,
         \A i \in 1..Len(votes) : votes[i].voteEncoding \in options
  PROVE  Counts(options, votes) =
           [o \in options |-> Cardinality(VotesOf(votes, Len(votes), o))]
<1> DEFINE N == Len(votes)
           Step(f) == [i \in 0..N |->
                        IF i = 0 THEN [o \in options |-> 0]
                        ELSE [f[i - 1] EXCEPT ![votes[i].voteEncoding] = @ + 1]]
           loop == CHOOSE f : f = Step(f)
           sums == [i \in 0..N |-> [o \in options |-> Cardinality(VotesOf(votes, i, o))]]
<1>1. Counts(options, votes) = loop[N]
  BY DEF Counts
<1>2. ASSUME NEW i \in 1..N
      PROVE  sums[i] = [sums[i - 1] EXCEPT ![votes[i].voteEncoding] = @ + 1]
  <2>1. i \in Nat \ {0} /\ i - 1 \in 0..N /\ i \in 0..N
    OBVIOUS
  <2>2. \A o : Cardinality(VotesOf(votes, i, o)) =
              Cardinality(VotesOf(votes, i - 1, o))
                + (IF votes[i].voteEncoding = o THEN 1 ELSE 0)
    BY <2>1, OneMoreVote
  <2>4. \A o : Cardinality(VotesOf(votes, i, o)) \in Nat
               /\ Cardinality(VotesOf(votes, 0, o)) = 0
    BY <2>1, OneMoreVote
  <2>5. \A o : Cardinality(VotesOf(votes, i - 1, o)) \in Nat
    <3>1. CASE i = 1
      BY <2>4, <3>1
    <3>2. CASE i # 1
      <4>1. i - 1 \in Nat \ {0}
        BY <3>2
      <4>2. QED
        BY <4>1, OneMoreVote
    <3>3. QED
      BY <3>1, <3>2
  <2>3. sums[i] = [o \in options |-> Cardinality(VotesOf(votes, i, o))]
        /\ sums[i-1] = [o \in options |-> Cardinality(VotesOf(votes, i-1, o))]
    BY <2>1
  <2>6. votes[i].voteEncoding \in options
    OBVIOUS
  <2> HIDE DEF sums
  <2>7. QED
    BY <2>2, <2>3, <2>5, <2>6
<1>3. sums[0] = [o \in options |-> 0]
  BY OneMoreVote
<1>4. sums = Step(sums)
  <2>1. \A i \in 0..N : sums[i] = IF i = 0 THEN [o \in options |-> 0]
                        ELSE [sums[i - 1] EXCEPT ![votes[i].voteEncoding] = @ + 1]
    <3> TAKE i \in 0..N
    <3>1. i # 0 => i \in 1..N
      OBVIOUS
    <3> HIDE DEF sums, N
    <3>2. CASE i = 0
      BY <1>3, <3>2
    <3>3. CASE i # 0
      BY <1>2, <3>1, <3>3
    <3> QED BY <3>2, <3>3
  <2>2. sums = [i \in 0..N |-> sums[i]]
    OBVIOUS
  <2> HIDE DEF sums
  <2>3. QED
    BY <2>1, <2>2
<1>5. loop = Step(loop)
  <2> HIDE DEF Step, sums
  <2>1. QED
    BY <1>4
<1>6. \A i \in 0..N : loop[i] = IF i = 0 THEN [o \in options |-> 0]
                        ELSE [loop[i - 1] EXCEPT ![votes[i].voteEncoding] = @ + 1]
  <2> HIDE DEF loop
  <2>1. QED
   BY <1>5
<1>7. \A i \in 0..N : loop[i] = sums[i]
  <2> SUFFICES ASSUME {i \in 0..N : loop[i] # sums[i]} # {}
               PROVE  FALSE
    OBVIOUS
  <2> HIDE DEF loop, sums
  <2>1. PICK i \in 0..N : loop[i] # sums[i] /\ \A m \in 0..N : loop[m] # sums[m] => i <= m
    <3> DEFINE S == {i \in 0..N : loop[i] # sums[i]}
    <3>1. S \in SUBSET Nat /\ S # {}
      OBVIOUS
    <3> HIDE DEF S
    <3>2. \E n \in S : \A m \in S : n <= m
      BY <3>1, LeastNumber
    <3> QED BY <3>2 DEF S
  <2>2. i # 0
    BY <2>1, <1>3, <1>6
  <2>3. loop[i - 1] = sums[i - 1] /\ i \in 1..N
    BY <2>1, <2>2
  <2>4. QED
    BY <1>2, <1>6, <2>1, <2>2, <2>3
<1>8. QED
  <2> HIDE DEF loop
  <2> QED BY <1>1, <1>7

(* The counts of all options add up to the number of votes. *)
VotesAmong(votes, n, s) == {i \in 1..n : votes[i].voteEncoding \in s}

LEMMA OneMoreOption ==
  ASSUME NEW votes, NEW n \in Nat, NEW s, NEW o \in s
  PROVE  /\ Cardinality(VotesOf(votes, n, o)) \in Nat
         /\ Cardinality(VotesAmong(votes, n, s)) =
              Cardinality(VotesOf(votes, n, o))
                + Cardinality(VotesAmong(votes, n, s \ {o}))
<1> DEFINE A == VotesOf(votes, n, o)
           B == VotesAmong(votes, n, s \ {o})
<1>1. IsFiniteSet(1..n) /\ A \in SUBSET (1..n) /\ B \in SUBSET (1..n)
  BY FS_Interval DEF VotesOf, VotesAmong
<1>2. IsFiniteSet(A) /\ IsFiniteSet(B)
  BY <1>1, FS_Subset
<1>3. VotesAmong(votes, n, s) = A \cup B /\ A \cap B = {}
  BY DEF VotesOf, VotesAmong
<1> HIDE DEF A, B
<1>4. Cardinality(A \cup B) = Cardinality(A) + Cardinality(B)
  <2>1. Cardinality(A \cup B) = Cardinality(A) + Cardinality(B) - Cardinality({})
    BY <1>2, <1>3, FS_Union
  <2>2. Cardinality(A) \in Nat /\ Cardinality(B) \in Nat /\ Cardinality({}) = 0
    BY <1>2, FS_EmptySet, FS_CardinalityType
  <2>3. QED
    BY <2>1, <2>2
<1>5. QED
  BY <1>2, <1>3, <1>4, FS_CardinalityType DEF A, B

LEMMA TotalOfCounts ==
  ASSUME NEW options, IsFiniteSet(options), NEW votes, NEW n \in Nat,
         \A i \in 1..n : votes[i].voteEncoding \in options
  PROVE  Total([o \in options |-> Cardinality(VotesOf(votes, n, o))]) = n
<1> DEFINE counts == [o \in options |-> Cardinality(VotesOf(votes, n, o))]
           First(s) == CHOOSE o \in s : TRUE
           Step(f) == [s \in SUBSET (DOMAIN counts) |->
                        IF s = {} THEN 0
                        ELSE counts[First(s)] + f[s \ {First(s)}]]
           fold == CHOOSE f : f = Step(f)
           sums == [s \in SUBSET options |-> Cardinality(VotesAmong(votes, n, s))]
<1>1. Total(counts) = fold[DOMAIN counts]
  BY DEF Total, FoldFunction, FoldFunctionOnSet, MapThenFoldSet
<1>2. DOMAIN counts = options /\ \A o \in options : counts[o] = Cardinality(VotesOf(votes, n, o))
  OBVIOUS
<1>3. VotesAmong(votes, n, {}) = {} /\ VotesAmong(votes, n, options) = 1..n
  BY DEF VotesAmong
<1>4. \A s \in SUBSET options : sums[s] = Cardinality(VotesAmong(votes, n, s))
  OBVIOUS
<1>5. \A s \in SUBSET options : s # {} => First(s) \in s
  OBVIOUS
<1> HIDE DEF counts, First
<1>6. \A s \in SUBSET options :
        sums[s] = IF s = {} THEN 0 ELSE counts[First(s)] + sums[s \ {First(s)}]
  <2> TAKE s \in SUBSET options
  <2>1. CASE s = {}
    BY <1>3, <1>4, <2>1, FS_EmptySet
  <2>2. CASE s # {}
    <3>1. First(s) \in s /\ First(s) \in options /\ s \ {First(s)} \in SUBSET options
      BY <1>5, <2>2
    <3> HIDE DEF sums
    <3>2. QED
      BY <1>2, <1>4, <2>2, <3>1, OneMoreOption
  <2>3. QED
    BY <2>1, <2>2
<1>7. sums = Step(sums)
  <2>1. sums = [s \in SUBSET options |-> sums[s]]
    OBVIOUS
  <2> HIDE DEF sums
  <2>2. QED
    BY <1>2, <1>6, <2>1
<1>8. fold = Step(fold)
  <2> HIDE DEF Step, sums
  <2>1. QED
    BY <1>7
<1>9. \A s \in SUBSET options :
        fold[s] = IF s = {} THEN 0 ELSE counts[First(s)] + fold[s \ {First(s)}]
  <2> HIDE DEF fold
  <2>1. QED
    BY <1>2, <1>8
<1> HIDE DEF fold, sums
<1>10. \A s \in SUBSET options : fold[s] = sums[s]
  <2> DEFINE sizes == {Cardinality(s) : s \in {s \in SUBSET options : fold[s] # sums[s]}}
  <2> SUFFICES ASSUME NEW t \in SUBSET options, fold[t] # sums[t]
               PROVE  FALSE
    OBVIOUS
  <2>1. \A s \in SUBSET options : IsFiniteSet(s) /\ Cardinality(s) \in Nat
    BY FS_Subset, FS_CardinalityType
  <2>2. sizes \in SUBSET Nat /\ sizes # {}
    BY <2>1
  <2>3. PICK s \in SUBSET options :
          /\ fold[s] # sums[s]
          /\ \A r \in SUBSET options : fold[r] # sums[r] => Cardinality(s) <= Cardinality(r)
    <3>1. PICK k \in sizes : \A m \in sizes : k <= m
      <4> HIDE DEF sizes
      <4>1. QED
        BY <2>2, LeastNumber
    <3>2. QED
      BY <3>1
  <2>4. s # {}
    BY <1>6, <1>9, <2>3
  <2>5. /\ First(s) \in s /\ s \ {First(s)} \in SUBSET options
        /\ Cardinality(s \ {First(s)}) = Cardinality(s) - 1
    BY <1>5, <2>1, <2>4, FS_RemoveElement
  <2>6. fold[s \ {First(s)}] = sums[s \ {First(s)}]
    BY <2>1, <2>3, <2>5
  <2>7. QED
    BY <1>6, <1>9, <2>3, <2>4, <2>6
<1>11. Cardinality(1..n) = n
  BY FS_Interval
<1>12. options \in SUBSET options
  OBVIOUS
<1>13. Total(counts) = n
  BY <1>1, <1>2, <1>3, <1>4, <1>10, <1>11, <1>12
<1>14. QED
  BY <1>13 DEF counts

-----------------------------------------------------------------------------
(* Order: records sorted by nullifier, and the rows VOTES_SQL lists.       *)

Increasing(records) ==
  \A i, j \in DOMAIN records : i < j => records[i].nullifier < records[j].nullifier

LEMMA IntervalSize ==
  \A n \in Nat : IsFiniteSet(1..n) /\ Cardinality(1..n) = n
BY FS_Interval

(* Records in order stay where they are when they are sorted. *)
LEMMA SortedStays ==
  ASSUME NEW n \in Nat, NEW records, DOMAIN records = 1..n,
         records = [i \in 1..n |-> records[i]],
         \A i \in 1..n : records[i].nullifier \in Nat, Increasing(records)
  PROVE  SortedByNullifier(records) = records
<1> DEFINE Before(i) ==
             {j \in DOMAIN records :
               \/ CompareCanonicalNullifiers(records[j], records[i])
               \/ j < i /\ ~ CompareCanonicalNullifiers(records[i], records[j])}
           position == [i \in DOMAIN records |-> Cardinality(Before(i)) + 1]
<1>1. SortedByNullifier(records) =
        [k \in DOMAIN records |-> records[CHOOSE i \in DOMAIN records : position[i] = k]]
  BY DEF SortedByNullifier
<1>2. \A i \in 1..n : position[i] = i
  <2> TAKE i \in 1..n
  <2>1. \A j \in 1..n : j \in Before(i) <=> j < i
    BY DEF Increasing, CompareCanonicalNullifiers
  <2>2. Before(i) = 1..(i - 1)
    BY <2>1
  <2>3. Cardinality(1..(i - 1)) = i - 1
    <3>1. i - 1 \in Nat
      OBVIOUS
    <3>2. QED
      BY <3>1, IntervalSize
  <2>4. position[i] = Cardinality(Before(i)) + 1
    OBVIOUS
  <2> HIDE DEF position, Before
  <2>5. QED
    BY <2>2, <2>3, <2>4
<1> HIDE DEF position
<1>3. \A k \in 1..n : (CHOOSE i \in 1..n : position[i] = k) = k
  BY <1>2
<1>4. SortedByNullifier(records) = [k \in 1..n |-> records[k]]
  <2>1. SortedByNullifier(records) =
          [k \in 1..n |-> records[CHOOSE i \in 1..n : position[i] = k]]
    BY <1>1
  <2>2. QED
    BY <1>3, <2>1
<1>5. QED
  BY <1>4

(* The rows with a nullifier up to that of row. *)
Upto(row) == {r \in rows : ~ CompareCanonicalNullifiers(row, r)}
Rank(row) == Cardinality(Upto(row))

UniqueRows ==
  /\ IsFiniteSet(rows)
  /\ \A r \in rows : r.nullifier \in Nat
  /\ \A r, q \in rows : r.nullifier = q.nullifier => r = q

LEMMA Ranks ==
  ASSUME UniqueRows
  PROVE  /\ Cardinality(rows) \in Nat
         /\ \A r \in rows : Rank(r) \in 1..Cardinality(rows)
         /\ \A r, q \in rows : r.nullifier < q.nullifier => Rank(r) < Rank(q)
         /\ \A r, q \in rows : Rank(r) = Rank(q) => r = q
         /\ \A k \in 1..Cardinality(rows) : \E r \in rows : Rank(r) = k
<1> DEFINE N == Cardinality(rows)
<1>1. N \in Nat
  BY FS_CardinalityType DEF UniqueRows
<1>2. ASSUME NEW r \in rows
      PROVE  /\ r \in Upto(r) /\ Upto(r) \in SUBSET rows
             /\ IsFiniteSet(Upto(r)) /\ Rank(r) \in 1..N
  <2>1. r \in Upto(r) /\ Upto(r) \in SUBSET rows
    BY DEF Upto, UniqueRows, CompareCanonicalNullifiers
  <2>2. IsFiniteSet(Upto(r)) /\ Rank(r) <= N
    BY <2>1, FS_Subset DEF UniqueRows, Rank
  <2>3. Rank(r) \in Nat /\ Rank(r) # 0
    BY <2>1, <2>2, FS_CardinalityType, FS_EmptySet DEF Rank
  <2>4. QED
    BY <1>1, <2>1, <2>2, <2>3
<1>3. ASSUME NEW r \in rows, NEW q \in rows, r.nullifier < q.nullifier
      PROVE  Rank(r) < Rank(q)
  <2>1. Upto(r) \in SUBSET Upto(q) /\ q \notin Upto(r)
    BY <1>3 DEF Upto, UniqueRows, CompareCanonicalNullifiers
  <2>2. q \in Upto(q) /\ IsFiniteSet(Upto(q))
    BY <1>2
  <2>3. Rank(r) <= Rank(q) /\ Rank(r) # Rank(q)
    BY <2>1, <2>2, FS_Subset DEF Rank
  <2>4. QED
    BY <1>2, <2>3
<1>4. ASSUME NEW r \in rows, NEW q \in rows, Rank(r) = Rank(q)
      PROVE  r = q
  <2>1. ~ r.nullifier < q.nullifier /\ ~ q.nullifier < r.nullifier
    BY <1>2, <1>3, <1>4
  <2>2. QED
    BY <2>1 DEF UniqueRows
<1> DEFINE rank == [r \in rows |-> Rank(r)]
<1>5. rank \in Injection(rows, 1..N)
  BY <1>2, <1>4 DEF Injection, IsInjective
<1>6. IsFiniteSet(1..N) /\ Cardinality(1..N) = N
  BY <1>1, FS_Interval
<1>7. rank \in Surjection(rows, 1..N)
  BY <1>5, <1>6, FS_Injection
<1>8. \A k \in 1..N : \E r \in rows : Rank(r) = k
  BY <1>7 DEF Surjection
<1>9. QED
  BY <1>1, <1>2, <1>3, <1>4, <1>8

(* VOTES_SQL lists every row once, by increasing nullifier. *)
LEMMA VotesAreOrdered ==
  ASSUME UniqueRows
  PROVE  /\ Cardinality(rows) \in Nat
         /\ DOMAIN VotesSql = 1..Cardinality(rows)
         /\ VotesSql = [k \in 1..Cardinality(rows) |-> VotesSql[k]]
         /\ \A k \in 1..Cardinality(rows) : VotesSql[k] \in rows
         /\ \A r \in rows : \E k \in 1..Cardinality(rows) : VotesSql[k] = r
         /\ Increasing(VotesSql)
<1> DEFINE N == Cardinality(rows)
<1>1. VotesSql = [k \in 1..N |-> CHOOSE r \in rows : Rank(r) = k]
  BY DEF VotesSql, Rank, Upto
<1>2. ASSUME NEW k \in 1..N
      PROVE  VotesSql[k] \in rows /\ Rank(VotesSql[k]) = k
  BY <1>1, Ranks
<1>3. ASSUME NEW r \in rows
      PROVE  Rank(r) \in 1..N /\ VotesSql[Rank(r)] = r
  BY <1>2, Ranks
<1>4. ASSUME NEW i \in 1..N, NEW j \in 1..N, i < j
      PROVE  VotesSql[i].nullifier < VotesSql[j].nullifier
  <2> DEFINE r == VotesSql[i]
             q == VotesSql[j]
  <2>1. r \in rows /\ q \in rows /\ Rank(r) = i /\ Rank(q) = j
    BY <1>2
  <2>2. r.nullifier \in Nat /\ q.nullifier \in Nat
    BY <2>1 DEF UniqueRows
  <2>3. ~ q.nullifier < r.nullifier /\ r # q
    BY <1>4, <2>1, Ranks
  <2>4. q.nullifier # r.nullifier
    BY <2>1, <2>3 DEF UniqueRows
  <2> HIDE DEF r, q
  <2>5. r.nullifier < q.nullifier
    BY <2>2, <2>3, <2>4
  <2>6. QED
    BY <2>5 DEF r, q
<1>5. DOMAIN VotesSql = 1..N /\ VotesSql = [k \in 1..N |-> VotesSql[k]]
  BY <1>1
<1>6. Increasing(VotesSql)
  BY <1>4, <1>5 DEF Increasing
<1>7. QED
  BY <1>2, <1>3, <1>5, <1>6, Ranks

-----------------------------------------------------------------------------
(* The ballot box. *)

RowsInv ==
  /\ IsFiniteSet(rows)
  /\ \A r \in rows : \E n \in Nullifiers, o \in Options : r = AcceptedRow(n, o)
  /\ \A r, q \in rows : r.nullifier = q.nullifier => r = q

FrozenInv ==
  status = "COUNTING" =>
    snapshot = AcceptedVoteSetSnapshotV1(TrustedManifest(configuration),
                                         CanonicalVotesV1(BallotVotes))

CountedInv == tally # None => tally = CanonicalTally

(* A list of records. *)
IsList(list) == Len(list) \in Nat /\ list = [i \in 1..Len(list) |-> list[i]]

LEMMA ListLength ==
  ASSUME NEW n \in Nat, NEW list, list = [i \in 1..n |-> list[i]]
  PROVE  IsList(list) /\ Len(list) = n
<1> DEFINE S == {list[i] : i \in 1..n}
<1>1. list \in [1..n -> S]
  OBVIOUS
<1> HIDE DEF S
<1>2. list \in Seq(S) /\ Len(list) = n
  BY <1>1
<1>3. QED
  BY <1>2 DEF IsList

(* Sorting a list yields a list of the same length. *)
LEMMA SortedIsList ==
  ASSUME NEW list, IsList(list)
  PROVE  IsList(SortedByNullifier(list)) /\ Len(SortedByNullifier(list)) = Len(list)
<1> DEFINE sorted == SortedByNullifier(list)
<1>1. DOMAIN list = 1..Len(list) /\ Len(list) \in Nat
  BY DEF IsList
<1>2. sorted = [i \in 1..Len(list) |-> sorted[i]]
  BY <1>1 DEF SortedByNullifier
<1> HIDE DEF sorted
<1>3. IsList(sorted) /\ Len(sorted) = Len(list)
  BY <1>1, <1>2, ListLength
<1>4. QED
  BY <1>3 DEF sorted

LEMMA RowsAre ==
  ASSUME RowsInv
  PROVE  /\ UniqueRows
         /\ \A r \in rows :
              LET manifest == TrustedManifest(configuration)
              IN  /\ r.nullifier \in Nullifiers /\ r.voteEncoding \in Options
                  /\ r.configuration = configuration
                  /\ r.publicSignals =
                       PublicSignals(manifest, r.nullifier, r.voteEncoding)
                  /\ r.proof = [key |-> TrustedKey, signals |-> r.publicSignals]
<1>1. ASSUME NEW r \in rows
      PROVE  LET manifest == TrustedManifest(configuration)
             IN  /\ r.nullifier \in Nullifiers /\ r.voteEncoding \in Options
                 /\ r.configuration = configuration
                 /\ r.publicSignals =
                      PublicSignals(manifest, r.nullifier, r.voteEncoding)
                 /\ r.proof = [key |-> TrustedKey, signals |-> r.publicSignals]
  <2>1. PICK n \in Nullifiers, o \in Options : r = AcceptedRow(n, o)
    BY DEF RowsInv
  <2>2. QED
    BY <2>1 DEF AcceptedRow
<1>2. UniqueRows
  BY <1>1, NullifiersAssumption DEF RowsInv, UniqueRows
<1>3. QED
  BY <1>1, <1>2

(* publicVotes keeps the order and the fields of the rows. *)
LEMMA PublicVotesAre ==
  ASSUME RowsInv, NEW c
  PROVE  LET votes == PublicVotes(TrustedManifest(c), VotesSql)
         IN  /\ IsList(votes) /\ Len(votes) = Cardinality(rows)
             /\ DOMAIN votes = 1..Cardinality(rows) /\ Cardinality(rows) \in Nat
             /\ \A i \in 1..Cardinality(rows) :
                  /\ votes[i].nullifier = VotesSql[i].nullifier
                  /\ votes[i].voteEncoding = VotesSql[i].voteEncoding
                  /\ votes[i].configuration = VotesSql[i].configuration
                  /\ votes[i].protocolVersion = Version
                  /\ votes[i].electionContext = TrustedManifest(c).electionContext
                  /\ votes[i].merkleRoot = TrustedManifest(c).merkleRoot
                  /\ votes[i].publicSignals = VotesSql[i].publicSignals
                  /\ votes[i].proof = VotesSql[i].proof
<1> DEFINE votes == PublicVotes(TrustedManifest(c), VotesSql)
           N == Cardinality(rows)
<1>1. N \in Nat /\ DOMAIN VotesSql = 1..N
  BY RowsAre, VotesAreOrdered
<1>2. /\ votes = [i \in 1..N |-> votes[i]]
      /\ DOMAIN votes = 1..N
      /\ \A i \in 1..N :
           /\ votes[i].nullifier = VotesSql[i].nullifier
           /\ votes[i].voteEncoding = VotesSql[i].voteEncoding
           /\ votes[i].configuration = VotesSql[i].configuration
           /\ votes[i].protocolVersion = Version
           /\ votes[i].electionContext = TrustedManifest(c).electionContext
           /\ votes[i].merkleRoot = TrustedManifest(c).merkleRoot
           /\ votes[i].publicSignals = VotesSql[i].publicSignals
           /\ votes[i].proof = VotesSql[i].proof
  BY <1>1 DEF PublicVotes
<1> HIDE DEF votes
<1>3. IsList(votes) /\ Len(votes) = N
  BY <1>1, <1>2, ListLength
<1>4. QED
  BY <1>1, <1>2, <1>3 DEF votes

(* Sorted as they are, one per voter, and of the configuration in force,   *)
(* each with a proof of itself.                                            *)
LEMMA BallotVotesAre ==
  ASSUME RowsInv
  PROVE  /\ SortedByNullifier(BallotVotes) = BallotVotes
         /\ UniqueNullifiers(BallotVotes) /\ Increasing(BallotVotes)
         /\ \A i \in DOMAIN BallotVotes :
              /\ BallotVotes[i].nullifier \in Nat
              /\ BallotVotes[i].voteEncoding \in Options
              /\ Bound(TrustedManifest(configuration), BallotVotes[i])
              /\ ProofHolds(TrustedKey, BallotVotes[i])
<1> DEFINE votes == BallotVotes
           N == Cardinality(rows)
           manifest == TrustedManifest(configuration)
<1>1. /\ IsList(votes) /\ Len(votes) = N /\ N \in Nat /\ DOMAIN votes = 1..N
      /\ \A i \in 1..N :
           /\ votes[i].nullifier = VotesSql[i].nullifier
           /\ votes[i].voteEncoding = VotesSql[i].voteEncoding
           /\ votes[i].configuration = VotesSql[i].configuration
           /\ votes[i].protocolVersion = Version
           /\ votes[i].electionContext = manifest.electionContext
           /\ votes[i].merkleRoot = manifest.merkleRoot
           /\ votes[i].publicSignals = VotesSql[i].publicSignals
           /\ votes[i].proof = VotesSql[i].proof
  BY PublicVotesAre DEF BallotVotes
<1>2. /\ \A i \in 1..N : VotesSql[i] \in rows
      /\ Increasing(VotesSql) /\ DOMAIN VotesSql = 1..N
  BY RowsAre, VotesAreOrdered
<1> HIDE DEF votes
<1>3. ASSUME NEW i \in 1..N
      PROVE  /\ votes[i].nullifier \in Nat
             /\ votes[i].voteEncoding \in Options
             /\ votes[i].configuration = configuration
             /\ votes[i].publicSignals =
                  PublicSignals(manifest, votes[i].nullifier, votes[i].voteEncoding)
             /\ votes[i].proof = [key |-> TrustedKey, signals |-> votes[i].publicSignals]
  <2>1. PICK r \in rows : r = VotesSql[i]
    BY <1>2
  <2>2. /\ r.nullifier \in Nullifiers /\ r.voteEncoding \in Options
        /\ r.configuration = configuration
        /\ r.publicSignals = PublicSignals(manifest, r.nullifier, r.voteEncoding)
        /\ r.proof = [key |-> TrustedKey, signals |-> r.publicSignals]
    BY RowsAre
  <2> HIDE DEF manifest
  <2>3. QED
    BY <1>1, <2>1, <2>2, NullifiersAssumption
<1>4. Increasing(votes)
  BY <1>1, <1>2 DEF Increasing
<1>5. votes = [i \in 1..N |-> votes[i]]
  BY <1>1 DEF IsList
<1>6. SortedByNullifier(votes) = votes
  BY <1>1, <1>3, <1>4, <1>5, SortedStays
<1>7. UniqueNullifiers(votes)
  <2> SUFFICES ASSUME NEW i \in 1..N, NEW j \in 1..N,
                      votes[i].nullifier = votes[j].nullifier, i # j
               PROVE  FALSE
    BY <1>1 DEF UniqueNullifiers
  <2>1. i < j \/ j < i
    BY <1>1
  <2>2. QED
    <3>1. \A k, l \in 1..N : k < l => votes[k].nullifier < votes[l].nullifier
      BY <1>1, <1>4 DEF Increasing
    <3>2. \A k \in 1..N : votes[k].nullifier \in Nat
      BY <1>3
    <3>3. QED
      BY <2>1, <3>1, <3>2
<1>8. ASSUME NEW i \in 1..N
      PROVE  Bound(manifest, votes[i])
  <2>1. manifest.configuration = configuration /\ manifest.protocolVersion = Version
    BY DEF TrustedManifest, ManifestOf
  <2> HIDE DEF manifest
  <2>2. QED
    BY <1>1, <1>3, <2>1 DEF Bound
<1>9. ASSUME NEW i \in 1..N
      PROVE  ProofHolds(TrustedKey, votes[i])
  <2> HIDE DEF manifest
  <2>1. QED
    <3> DEFINE vote == votes[i]
               signals == vote.publicSignals
    <3>1. signals = PublicSignals(manifest, vote.nullifier, vote.voteEncoding)
      BY <1>3
    <3>2. /\ signals.nullifier = vote.nullifier
          /\ signals.voteChoice = vote.voteEncoding
          /\ signals.electionContext = manifest.electionContext
          /\ signals.merkleRoot = manifest.merkleRoot
      <4> HIDE DEF vote, signals
      <4>1. QED
        BY <3>1 DEF PublicSignals
    <3>3. vote.electionContext = manifest.electionContext /\ vote.merkleRoot = manifest.merkleRoot
      BY <1>1
    <3>4. vote.proof = [key |-> TrustedKey, signals |-> signals]
      BY <1>3
    <3>5. QED
      BY <3>2, <3>3, <3>4 DEF ProofHolds, Groth16Verify
<1>10. QED
  BY <1>1, <1>3, <1>4, <1>6, <1>7, <1>8, <1>9 DEF votes

(* As many votes of the list as rows of the box are for an option. *)
LEMMA AsManyVotesAsRows ==
  ASSUME RowsInv, NEW o
  PROVE  Cardinality(VotesOf(BallotVotes, Cardinality(rows), o)) =
           Cardinality({r \in rows : r.voteEncoding = o})
<1> DEFINE N == Cardinality(rows)
           A == VotesOf(BallotVotes, N, o)
           B == {r \in rows : r.voteEncoding = o}
           row == [i \in A |-> VotesSql[i]]
<1>1. /\ N \in Nat /\ \A i \in 1..N : BallotVotes[i].voteEncoding = VotesSql[i].voteEncoding
  BY PublicVotesAre DEF BallotVotes
<1>2. /\ \A i \in 1..N : VotesSql[i] \in rows
      /\ \A r \in rows : \E k \in 1..N : VotesSql[k] = r
      /\ Increasing(VotesSql) /\ DOMAIN VotesSql = 1..N
  BY RowsAre, VotesAreOrdered
<1>3. \A i \in A : i \in 1..N /\ VotesSql[i] \in B
  BY <1>1, <1>2 DEF VotesOf
<1>4. \A r \in B : \E i \in A : VotesSql[i] = r
  BY <1>1, <1>2 DEF VotesOf
<1>5. ASSUME NEW i \in A, NEW j \in A, VotesSql[i] = VotesSql[j]
      PROVE  i = j
  <2>1. \A k, l \in 1..N : k < l => VotesSql[k].nullifier < VotesSql[l].nullifier
    BY <1>2 DEF Increasing
  <2>2. VotesSql[i].nullifier \in Nat
    BY <1>2, <1>3, RowsAre DEF UniqueRows
  <2>3. ~ i < j /\ ~ j < i
    BY <1>3, <1>5, <2>1, <2>2
  <2>4. i \in 1..N /\ j \in 1..N
    BY <1>3
  <2>5. QED
    BY <1>1, <2>3, <2>4
<1>6. IsFiniteSet(A)
  BY <1>1, FS_Subset, IntervalSize DEF VotesOf
<1> HIDE DEF A, B
<1>7. row \in Bijection(A, B)
  BY <1>3, <1>4, <1>5 DEF Bijection, Injection, Surjection, IsInjective
<1>8. Cardinality(A) = Cardinality(B)
  BY <1>6, <1>7, FS_Bijection DEF ExistsBijection
<1>9. QED
  BY <1>8 DEF A, B

(* The totals of the box, for the options. *)
LEMMA BoxCounts ==
  ASSUME RowsInv
  PROVE  /\ Counts(Options, BallotVotes) =
              [o \in Options |-> Cardinality({r \in rows : r.voteEncoding = o})]
         /\ Total(Counts(Options, BallotVotes)) = Len(BallotVotes)
<1> DEFINE N == Cardinality(rows)
<1>1. Len(BallotVotes) = N /\ N \in Nat /\ DOMAIN BallotVotes = 1..N
  BY PublicVotesAre DEF BallotVotes
<1>2. \A i \in 1..N : BallotVotes[i].voteEncoding \in Options
  BY <1>1, BallotVotesAre
<1>3. Counts(Options, BallotVotes) =
        [o \in Options |-> Cardinality(VotesOf(BallotVotes, N, o))]
  BY <1>1, <1>2, CountsAre
<1>4. Total(Counts(Options, BallotVotes)) = N
  BY <1>1, <1>2, <1>3, TotalOfCounts, OptionsAssumption
<1>5. QED
  BY <1>1, <1>3, <1>4, AsManyVotesAsRows

(* PostgreSQL groups the rows into the totals of the protocol. *)
LEMMA SqlAgrees ==
  ASSUME RowsInv
  PROVE  SqlTotals = Voted(Counts(Options, BallotVotes))
<1> DEFINE For(o) == {r \in rows : r.voteEncoding = o}
           totals == [o \in Options |-> Cardinality(For(o))]
<1>1. ASSUME NEW o
      PROVE  /\ Cardinality(For(o)) \in Nat
             /\ Cardinality(For(o)) > 0 <=> \E r \in rows : r.voteEncoding = o
  <2>1. IsFiniteSet(For(o))
    <3>1. IsFiniteSet(rows) /\ For(o) \in SUBSET rows
      BY DEF RowsInv
    <3>2. QED
      BY <3>1, FS_Subset
  <2>2. Cardinality(For(o)) \in Nat /\ (Cardinality(For(o)) = 0 <=> For(o) = {})
    BY <2>1, FS_CardinalityType, FS_EmptySet
  <2>3. QED
    BY <2>2
<1>2. \A r \in rows : r.voteEncoding \in Options
  BY RowsAre
<1>3. {o \in DOMAIN totals : totals[o] > 0} = {r.voteEncoding : r \in rows}
  BY <1>1, <1>2
<1>4. SqlTotals = [o \in {r.voteEncoding : r \in rows} |-> Cardinality(For(o))]
  BY DEF SqlTotals
<1>5. \A o \in {r.voteEncoding : r \in rows} : totals[o] = Cardinality(For(o))
  BY <1>2
<1>6. Voted(totals) = [o \in {r.voteEncoding : r \in rows} |-> totals[o]]
  <2> HIDE DEF totals
  <2>1. QED
    BY <1>3 DEF Voted
<1>7. SqlTotals = Voted(totals)
  <2> HIDE DEF totals, For
  <2>1. QED
    BY <1>4, <1>5, <1>6
<1>8. QED
  BY <1>7, BoxCounts

(* The frozen box is counted. *)
LEMMA BoxIsCounted ==
  ASSUME RowsInv, FrozenInv, status = "COUNTING"
  PROVE  /\ TallyAgrees
         /\ CanonicalTally = [acceptedVoteCount |-> Len(BallotVotes),
                              acceptedVoteSetDigest |-> BallotVotes,
                              configuration |-> configuration,
                              totalsByOption |-> Counts(Options, BallotVotes)]
<1> DEFINE manifest == TrustedManifest(configuration)
           counted == [acceptedVoteCount |-> Len(BallotVotes),
                       acceptedVoteSetDigest |-> BallotVotes,
                       configuration |-> configuration,
                       totalsByOption |-> Counts(Options, BallotVotes)]
<1>1. /\ manifest.configuration = configuration /\ manifest.options = Options
      /\ manifest.protocolVersion = Version
  BY DEF TrustedManifest, ManifestOf
<1>2. CanonicalVotesV1(BallotVotes) = BallotVotes
  BY BallotVotesAre DEF CanonicalVotesV1
<1>3. snapshot = AcceptedVoteSetSnapshotV1(manifest, BallotVotes)
  BY <1>2 DEF FrozenInv
<1> HIDE DEF manifest
<1>4. /\ snapshot.canonicalDigest = BallotVotes
      /\ snapshot.recordCount = Len(BallotVotes)
      /\ snapshot.configuration = configuration
      /\ snapshot.protocolVersion = Version
  BY <1>1, <1>3 DEF AcceptedVoteSetSnapshotV1
<1>5. /\ UniqueNullifiers(BallotVotes)
      /\ \A i \in DOMAIN BallotVotes : /\ Bound(manifest, BallotVotes[i])
                                       /\ BallotVotes[i].voteEncoding \in Options
  BY BallotVotesAre DEF manifest
<1>6. CanonicalTally = counted
  BY <1>1, <1>2, <1>4, <1>5, BoxCounts DEF CanonicalTally, ComputeTallyV1, manifest
<1>7. counted # None
  BY DEF None
<1>8. SqlTotals = Voted(CanonicalTally.totalsByOption)
  BY <1>6, SqlAgrees
<1>9. TallyAgrees
  BY <1>2, <1>4, <1>6, <1>7, <1>8 DEF TallyAgrees
<1>10. QED
  BY <1>6, <1>9

-----------------------------------------------------------------------------
(* A package is a record whose files are some of the required ones. *)
IsPackage(p) ==
  /\ DOMAIN p = {"files", "listing", "resultVersion", "evidenceDigest",
                 "packageContentDigest"}
  /\ p = [x \in DOMAIN p |-> p[x]]
  /\ DOMAIN p.files \subseteq RequiredFiles
  /\ p.files = [f \in DOMAIN p.files |-> p.files[f]]

DirectoryInv == directory # None => IsPackage(directory)

TallyInv == tally # None => tally.configuration = configuration

(* Until it is recorded, the directory is what the code wrote. *)
WrittenInv ==
  (directory # None /\ contentDigest = None)
    => tally # None /\ directory \in {GeneratedPackage(c) : c \in published}

RecordedInv ==
  contentDigest # None => contentDigest = GeneratedPackage(configuration).files

PackageInv == TypeOK /\ DirectoryInv /\ TallyInv /\ WrittenInv /\ RecordedInv

(* The listing of a package the code writes is its files. *)
LEMMA GeneratedShape ==
  ASSUME NEW c, NEW p, p = GeneratedPackage(c)
  PROVE  /\ IsPackage(p) /\ p # None
         /\ DOMAIN p.files = RequiredFiles /\ p.listing = p.files
         /\ p.packageContentDigest = p.files
         /\ p.files["manifest"] = TrustedManifest(c)
         /\ p.files["votes"] =
              CanonicalVotesV1(PublicVotes(TrustedManifest(c), VotesSql))
         /\ p.files["tally"] = tally
<1> DEFINE manifest == TrustedManifest(c)
           votes == PublicVotes(manifest, VotesSql)
           evidence == Evidence(manifest, TrustedKey, CanonicalVotesV1(votes),
                                ReceiptsOf(votes), snapshot, tally)
           files == WithResult(evidence, 1)
<1>1. p = Listed(files, 1)
  BY DEF GeneratedPackage, PackageOf
<1>2. /\ files = [f \in RequiredFiles |-> files[f]] /\ DOMAIN files = RequiredFiles
      /\ \A f \in RequiredFiles \ {"result"} : files[f] = evidence[f]
  BY DEF WithResult
<1>3. /\ evidence["manifest"] = manifest
      /\ evidence["votes"] = CanonicalVotesV1(votes)
      /\ evidence["tally"] = tally
  BY DEF Evidence
<1>4. /\ files["manifest"] = manifest
      /\ files["votes"] = CanonicalVotesV1(votes)
      /\ files["tally"] = tally
  <2> HIDE DEF evidence, files
  <2>1. {"manifest", "votes", "tally"} \subseteq RequiredFiles \ {"result"}
    BY DEF RequiredFiles
  <2>2. QED
    BY <1>2, <1>3, <2>1
<1> HIDE DEF files
<1>5. PackageContentDigest(files) = files
  BY <1>2 DEF PackageContentDigest
<1>6. /\ DOMAIN p = {"files", "listing", "resultVersion", "evidenceDigest",
                     "packageContentDigest"}
      /\ p = [x \in DOMAIN p |-> p[x]]
      /\ p.files = files /\ p.listing = files
      /\ p.packageContentDigest = files
  BY <1>1, <1>5 DEF Listed
<1>7. p # None
  BY <1>6 DEF None
<1>8. IsPackage(p)
  BY <1>2, <1>6 DEF IsPackage
<1>9. QED
  BY <1>2, <1>4, <1>6, <1>7, <1>8

(* A record a digest or a tally is stored as is never the missing one.     *)
LEMMA StoredIsPresent ==
  /\ \A manifest, votes : AcceptedVoteSetSnapshotV1(manifest, votes) # None
  /\ \A files : DOMAIN files = RequiredFiles => files # None
  /\ \A files, version : Listed(files, version) # None
<1>1. DOMAIN None = {"none"}
  BY DEF None
<1>2. \A manifest, votes :
        "recordCount" \in DOMAIN AcceptedVoteSetSnapshotV1(manifest, votes)
  BY DEF AcceptedVoteSetSnapshotV1
<1>3. "none" \notin RequiredFiles
  BY DEF RequiredFiles
<1>4. \A files, version : "files" \in DOMAIN Listed(files, version)
  BY DEF Listed
<1>5. \A manifest, votes : AcceptedVoteSetSnapshotV1(manifest, votes) # None
  <2> SUFFICES ASSUME NEW manifest, NEW votes
               PROVE  AcceptedVoteSetSnapshotV1(manifest, votes) # None
    OBVIOUS
  <2>1. "recordCount" \in DOMAIN AcceptedVoteSetSnapshotV1(manifest, votes)
    BY <1>2
  <2>2. "recordCount" \notin DOMAIN None
    BY <1>1
  <2>3. QED
    BY <2>1, <2>2
<1>6. QED
  BY <1>1, <1>3, <1>4, <1>5

(* The directory after its manifest was rewritten is still a package. *)
LEMMA ListedShape ==
  ASSUME NEW files, NEW version,
         files = [f \in DOMAIN files |-> files[f]], DOMAIN files \subseteq RequiredFiles
  PROVE  IsPackage(Listed(files, version))
BY DEF IsPackage, Listed

(* And so it is with other files. *)
LEMMA OtherFilesShape ==
  ASSUME NEW p, IsPackage(p), NEW files,
         files = [f \in DOMAIN files |-> files[f]], DOMAIN files \subseteq RequiredFiles
  PROVE  IsPackage([p EXCEPT !.files = files])
BY DEF IsPackage

LEMMA InitPackage == Init => PackageInv
<1> SUFFICES ASSUME Init PROVE PackageInv
  OBVIOUS
<1>1. configuration \in published /\ published \subseteq Configurations
  BY DEF Init
<1>2. TypeOK
  BY <1>1, RelistsAssumption DEF Init, TypeOK
<1>3. QED
  BY <1>2 DEF Init, PackageInv, DirectoryInv, TallyInv, WrittenInv, RecordedInv

LEMMA NextPackage == PackageInv /\ [Next]_vars => PackageInv'
<1> SUFFICES ASSUME PackageInv, [Next]_vars PROVE PackageInv'
  OBVIOUS
<1> USE DEF PackageInv
<1>1. ASSUME NEW n \in Nullifiers, NEW o \in Options, Accept(n, o)
      PROVE  PackageInv'
  <2> USE <1>1 DEF Accept
  <2>1. snapshot = None /\ tally = None /\ contentDigest = None /\ directory = None
    BY DEF TypeOK, WrittenInv
  <2>2. AcceptedRow(n, o).nullifier = n /\ AcceptedRow(n, o).voteEncoding = o
    BY DEF AcceptedRow
  <2>3. TypeOK'
    BY <2>1, <2>2 DEF TypeOK
  <2>4. QED
    BY <2>1, <2>3 DEF DirectoryInv, TallyInv, WrittenInv, RecordedInv
<1>2. CASE Close
  <2>1. snapshot = None /\ tally = None /\ contentDigest = None /\ directory = None
    BY <1>2 DEF Close, TypeOK, WrittenInv
  <2>2. TypeOK'
    BY <1>2, <2>1 DEF Close, TypeOK
  <2>3. QED
    BY <1>2, <2>1, <2>2 DEF Close, DirectoryInv, TallyInv, WrittenInv, RecordedInv
<1>3. CASE EnterCounting
  <2>1. snapshot = None /\ tally = None /\ contentDigest = None /\ directory = None
    BY <1>3 DEF EnterCounting, TypeOK, WrittenInv
  <2>2. snapshot' # None
    BY <1>3, StoredIsPresent DEF EnterCounting
  <2>3. TypeOK'
    BY <1>3, <2>1, <2>2 DEF EnterCounting, TypeOK
  <2>4. QED
    BY <1>3, <2>1, <2>3
       DEF EnterCounting, DirectoryInv, TallyInv, WrittenInv, RecordedInv
<1>4. CASE ComputeTally
  <2>1. contentDigest = None /\ directory = None
    BY <1>4 DEF ComputeTally, TypeOK, WrittenInv
  <2>2. tally' # None /\ tally'.configuration = configuration
    <3>1. CanonicalTally # None
      BY <1>4 DEF ComputeTally, TallyAgrees
    <3>2. CanonicalTally.configuration = TrustedManifest(configuration).configuration
      BY <3>1 DEF CanonicalTally, ComputeTallyV1
    <3>3. TrustedManifest(configuration).configuration = configuration
      BY DEF TrustedManifest, ManifestOf
    <3>4. QED
      BY <1>4, <3>1, <3>2, <3>3 DEF ComputeTally
  <2>3. TypeOK'
    BY <1>4, <2>1 DEF ComputeTally, TypeOK
  <2>4. QED
    BY <1>4, <2>1, <2>2, <2>3
       DEF ComputeTally, DirectoryInv, TallyInv, WrittenInv, RecordedInv
<1>5. CASE WritePackage
  <2>1. contentDigest = None
    BY <1>5 DEF WritePackage, TypeOK
  <2>2. PICK c \in published : directory' = GeneratedPackage(c)
    BY <1>5 DEF WritePackage
  <2>3. IsPackage(directory') /\ directory' # None
    BY <2>2, GeneratedShape
  <2>4. GeneratedPackage(c)' = GeneratedPackage(c)
    BY <1>5 DEF WritePackage, GeneratedPackage, VotesSql
  <2>5. TypeOK'
    BY <1>5 DEF WritePackage, TypeOK
  <2>6. WrittenInv'
    BY <1>5, <2>2, <2>4 DEF WritePackage, WrittenInv
  <2>7. QED
    BY <1>5, <2>1, <2>3, <2>5, <2>6
       DEF WritePackage, DirectoryInv, TallyInv, RecordedInv
<1>6. CASE RecordPackage
  <2>1. directory \in {GeneratedPackage(c) : c \in published} /\ tally # None
    BY <1>6 DEF RecordPackage, WrittenInv
  <2>2. PICK c \in published : directory = GeneratedPackage(c)
    BY <2>1
  <2>3. /\ directory.files["manifest"] = TrustedManifest(c)
        /\ directory.files["tally"] = tally
        /\ directory.packageContentDigest = directory.files
        /\ DOMAIN directory.files = RequiredFiles
    BY <2>2, GeneratedShape
  <2>4. TrustedManifest(c).configuration = c
    BY DEF TrustedManifest, ManifestOf
  <2>5. directory.files["tally"].configuration = directory.files["manifest"].configuration
    BY <1>6, ValidTally DEF RecordPackage
  <2>6. c = configuration
    BY <2>1, <2>3, <2>4, <2>5 DEF TallyInv
  <2>7. contentDigest' # None
    BY <1>6, <2>3, StoredIsPresent DEF RecordPackage
  <2>8. TypeOK'
    BY <1>6, <2>1, <2>7 DEF RecordPackage, TypeOK
  <2>9. GeneratedPackage(configuration)' = GeneratedPackage(configuration)
    BY <1>6 DEF RecordPackage, GeneratedPackage, VotesSql
  <2>10. RecordedInv'
    BY <1>6, <2>2, <2>3, <2>6, <2>9 DEF RecordPackage, RecordedInv
  <2>11. QED
    BY <1>6, <2>7, <2>8, <2>10 DEF RecordPackage, DirectoryInv, TallyInv, WrittenInv
<1>7. CASE DropPackage
  <2>1. TypeOK'
    BY <1>7 DEF DropPackage, TypeOK
  <2>2. QED
    BY <1>7, <2>1 DEF DropPackage, DirectoryInv, TallyInv, WrittenInv, RecordedInv
<1>8. ASSUME UNCHANGED <<status, configuration, published, rows, snapshot, tally,
                         contentDigest>>
      PROVE  GeneratedPackage(configuration)' = GeneratedPackage(configuration)
  BY <1>8 DEF GeneratedPackage, VotesSql
<1>9. CASE FindSpare
  <2>1. TypeOK'
    BY <1>9 DEF FindSpare, TypeOK
  <2>2. QED
    BY <1>8, <1>9, <2>1 DEF FindSpare, DirectoryInv, TallyInv, WrittenInv, RecordedInv
<1>10. ASSUME /\ UNCHANGED <<status, configuration, published, rows, snapshot, tally,
                             contentDigest>>
              /\ contentDigest # None /\ IsPackage(directory')
              /\ spare' = spare /\ relists' \in 0..MaxRelists
       PROVE  PackageInv'
  <2>1. directory' # None
    BY <1>10 DEF IsPackage, None
  <2>2. TypeOK'
    BY <1>10, <2>1 DEF TypeOK
  <2>3. QED
    BY <1>8, <1>10, <2>2 DEF DirectoryInv, TallyInv, WrittenInv, RecordedInv
<1>11. IsPackage(directory) \/ contentDigest = None
  BY DEF TypeOK, DirectoryInv
<1>12. spare # None => contentDigest # None
  BY DEF TypeOK
<1>13. relists \in 0..MaxRelists
  BY DEF TypeOK
<1>14. ASSUME NEW f \in RequiredFiles, Replace(f)
       PROVE  PackageInv'
  <2>1. IsPackage(directory) /\ contentDigest # None
    BY <1>11, <1>12, <1>14 DEF Replace
  <2> DEFINE files == [directory.files EXCEPT ![f] = spare.files[f]]
  <2>2. files = [g \in DOMAIN files |-> files[g]] /\ DOMAIN files \subseteq RequiredFiles
    BY <2>1 DEF IsPackage
  <2>3. directory' = [directory EXCEPT !.files = files]
    BY <1>14 DEF Replace
  <2>4. IsPackage(directory')
    BY <2>1, <2>2, <2>3, OtherFilesShape
  <2>5. QED
    BY <1>10, <1>13, <1>14, <2>1, <2>4 DEF Replace
<1>15. ASSUME NEW f \in RequiredFiles, LoseFile(f)
       PROVE  PackageInv'
  <2>1. IsPackage(directory) /\ contentDigest # None
    BY <1>11, <1>15 DEF LoseFile
  <2> DEFINE files == [g \in DOMAIN directory.files \ {f} |-> directory.files[g]]
  <2>2. files = [g \in DOMAIN files |-> files[g]] /\ DOMAIN files \subseteq RequiredFiles
    BY <2>1 DEF IsPackage
  <2>3. directory' = [directory EXCEPT !.files = files]
    BY <1>15 DEF LoseFile
  <2>4. IsPackage(directory')
    BY <2>1, <2>2, <2>3, OtherFilesShape
  <2>5. QED
    BY <1>10, <1>13, <1>15, <2>1, <2>4 DEF LoseFile
<1>16. CASE Relist
  <2>1. IsPackage(directory) /\ contentDigest # None
    BY <1>11, <1>12, <1>16 DEF Relist
  <2>2. IsPackage(directory')
    BY <1>16, <2>1, ListedShape DEF Relist, IsPackage
  <2>3. relists' \in 0..MaxRelists
    BY <1>13, <1>16, RelistsAssumption DEF Relist
  <2>4. QED
    BY <1>10, <1>16, <2>1, <2>2, <2>3 DEF Relist
<1>17. CASE UNCHANGED vars
  <2>1. TypeOK'
    BY <1>17 DEF vars, TypeOK
  <2>2. \A c : GeneratedPackage(c)' = GeneratedPackage(c)
    BY <1>17 DEF vars, GeneratedPackage, VotesSql
  <2>3. QED
    BY <1>17, <2>1, <2>2 DEF vars, DirectoryInv, TallyInv, WrittenInv, RecordedInv
<1>18. QED
  BY <1>1, <1>2, <1>3, <1>4, <1>5, <1>6, <1>7, <1>9, <1>14, <1>15, <1>16, <1>17
     DEF Next

-----------------------------------------------------------------------------
(* The ballot box, frozen and counted. *)

BoxInv == RowsInv /\ FrozenInv /\ CountedInv

(* What is computed from the box changes with the box only. *)
LEMMA BoxStays ==
  ASSUME UNCHANGED <<configuration, rows, snapshot>>
  PROVE  /\ \A n, o : AcceptedRow(n, o)' = AcceptedRow(n, o)
         /\ TrustedManifest(configuration)' = TrustedManifest(configuration)
         /\ BallotVotes' = BallotVotes
         /\ CanonicalTally' = CanonicalTally
<1>1. TrustedManifest(configuration)' = TrustedManifest(configuration)
  BY DEF TrustedManifest, ManifestOf
<1>2. \A n, o : AcceptedRow(n, o)' = AcceptedRow(n, o)
  BY DEF AcceptedRow, TrustedManifest, ManifestOf
<1>3. BallotVotes' = BallotVotes
  BY DEF BallotVotes, VotesSql, TrustedManifest, ManifestOf
<1>4. CanonicalTally' = CanonicalTally
  BY <1>1, <1>3 DEF CanonicalTally, TrustedManifest, ManifestOf
<1>5. QED
  BY <1>1, <1>2, <1>3, <1>4

LEMMA RowsStay ==
  ASSUME RowsInv, UNCHANGED <<configuration, rows>>
  PROVE  RowsInv'
<1>1. \A n, o : AcceptedRow(n, o)' = AcceptedRow(n, o)
  BY DEF AcceptedRow, TrustedManifest, ManifestOf
<1>2. QED
  BY <1>1 DEF RowsInv

LEMMA NextBox == TypeOK /\ BoxInv /\ [Next]_vars => BoxInv'
<1> SUFFICES ASSUME TypeOK, BoxInv, [Next]_vars PROVE BoxInv'
  OBVIOUS
<1>1. RowsInv /\ FrozenInv /\ CountedInv
  BY DEF BoxInv
<1>2. ASSUME UNCHANGED <<status, configuration, rows, snapshot, tally>>
      PROVE  BoxInv'
  <2>1. RowsInv'
    BY <1>1, <1>2, RowsStay
  <2>2. FrozenInv'
    BY <1>1, <1>2, BoxStays DEF FrozenInv
  <2>3. CountedInv'
    BY <1>1, <1>2, BoxStays DEF CountedInv
  <2>4. QED
    BY <2>1, <2>2, <2>3 DEF BoxInv
<1>3. ASSUME NEW n \in Nullifiers, NEW o \in Options, Accept(n, o)
      PROVE  BoxInv'
  <2>1. /\ status = "OPEN" /\ rows' = rows \cup {AcceptedRow(n, o)}
        /\ UNCHANGED <<status, configuration, snapshot, tally>>
        /\ \A r \in rows : r.nullifier # n
    BY <1>3 DEF Accept
  <2>2. tally = None
    BY <2>1 DEF TypeOK
  <2>3. \A k, p : AcceptedRow(k, p)' = AcceptedRow(k, p)
    BY <2>1 DEF AcceptedRow, TrustedManifest, ManifestOf
  <2>4. AcceptedRow(n, o).nullifier = n
    BY DEF AcceptedRow
  <2>5. IsFiniteSet(rows')
    BY <1>1, <2>1, FS_AddElement DEF RowsInv
  <2>6. RowsInv'
    <3>1. \A r \in rows' : \E k \in Nullifiers, p \in Options : r = AcceptedRow(k, p)
      BY <1>1, <2>1 DEF RowsInv
    <3>2. \A r, q \in rows' : r.nullifier = q.nullifier => r = q
      BY <1>1, <2>1, <2>4 DEF RowsInv
    <3>3. QED
      BY <2>3, <2>5, <3>1, <3>2 DEF RowsInv
  <2>7. FrozenInv' /\ CountedInv'
    BY <2>1, <2>2 DEF FrozenInv, CountedInv
  <2>8. QED
    BY <2>6, <2>7 DEF BoxInv
<1>4. CASE Close
  <2>1. /\ status' = "CLOSED" /\ tally = None
        /\ UNCHANGED <<configuration, rows, snapshot, tally>>
    BY <1>4 DEF Close, TypeOK
  <2>2. RowsInv'
    BY <1>1, <2>1, RowsStay
  <2>3. QED
    BY <2>1, <2>2 DEF BoxInv, FrozenInv, CountedInv
<1>5. CASE EnterCounting
  <2>1. /\ snapshot' = AcceptedVoteSetSnapshotV1(TrustedManifest(configuration),
                                                CanonicalVotesV1(BallotVotes))
        /\ tally = None
        /\ UNCHANGED <<configuration, rows, tally>>
    BY <1>5 DEF EnterCounting, TypeOK
  <2>2. /\ TrustedManifest(configuration)' = TrustedManifest(configuration)
        /\ BallotVotes' = BallotVotes
    BY <2>1 DEF BallotVotes, VotesSql, TrustedManifest, ManifestOf
  <2>3. FrozenInv'
    BY <2>1, <2>2 DEF FrozenInv
  <2>4. RowsInv'
    BY <1>1, <2>1, RowsStay
  <2>5. QED
    BY <2>1, <2>3, <2>4 DEF BoxInv, CountedInv
<1>6. CASE ComputeTally
  <2>1. /\ tally' = CanonicalTally
        /\ UNCHANGED <<status, configuration, rows, snapshot>>
    BY <1>6 DEF ComputeTally
  <2>2. RowsInv'
    BY <1>1, <2>1, RowsStay
  <2>3. FrozenInv' /\ CountedInv'
    BY <1>1, <2>1, BoxStays DEF FrozenInv, CountedInv
  <2>4. QED
    BY <2>2, <2>3 DEF BoxInv
<1>7. CASE WritePackage \/ RecordPackage \/ DropPackage \/ FindSpare \/ Relist
  BY <1>2, <1>7 DEF WritePackage, RecordPackage, DropPackage, FindSpare, Relist
<1>8. CASE \E f \in RequiredFiles : Replace(f) \/ LoseFile(f)
  BY <1>2, <1>8 DEF Replace, LoseFile
<1>9. CASE UNCHANGED vars
  BY <1>2, <1>9 DEF vars
<1>10. QED
  BY <1>3, <1>4, <1>5, <1>6, <1>7, <1>8, <1>9 DEF Next

-----------------------------------------------------------------------------
(* The files of the directory and of the package that turns up, whatever   *)
(* was lost or replaced: a manifest of the election and a list of votes.   *)

HasVotes(files) ==
  /\ "manifest" \in DOMAIN files => files["manifest"].options = Options
  /\ "votes" \in DOMAIN files => IsList(files["votes"])

FilesInv ==
  /\ directory # None => HasVotes(directory.files)
  /\ spare # None => DOMAIN spare.files = RequiredFiles /\ HasVotes(spare.files)

IInv == PackageInv /\ BoxInv /\ FilesInv

LEMMA WithoutIsList ==
  ASSUME NEW list, IsList(list), NEW i \in DOMAIN list
  PROVE  IsList(Without(list, i))
<1> DEFINE rest == Without(list, i)
<1>1. Len(list) \in Nat /\ DOMAIN list = 1..Len(list)
  BY DEF IsList
<1>2. Len(list) - 1 \in Nat
  BY <1>1
<1>3. rest = [j \in 1..(Len(list) - 1) |-> rest[j]]
  BY DEF Without
<1> HIDE DEF rest
<1>4. IsList(rest)
  BY <1>2, <1>3, ListLength
<1>5. QED
  BY <1>4 DEF rest

LEMMA AppendIsList ==
  ASSUME NEW list, IsList(list), NEW x
  PROVE  IsList(Append(list, x))
<1> DEFINE S == {list[i] : i \in 1..Len(list)} \cup {x}
<1>1. Len(list) \in Nat /\ list \in [1..Len(list) -> S]
  BY DEF IsList
<1>2. x \in S
  OBVIOUS
<1> HIDE DEF S
<1>3. list \in Seq(S)
  BY <1>1
<1> DEFINE longer == Append(list, x)
<1>4. longer \in Seq(S)
  BY <1>2, <1>3
<1> HIDE DEF longer
<1>5. Len(longer) \in Nat /\ longer = [i \in 1..Len(longer) |-> longer[i]]
  BY <1>4
<1>6. QED
  BY <1>5 DEF longer, IsList

LEMMA SameLengthIsList ==
  ASSUME NEW list, IsList(list), NEW other, DOMAIN other = DOMAIN list,
         other = [i \in DOMAIN other |-> other[i]]
  PROVE  IsList(other)
<1>1. Len(list) \in Nat /\ DOMAIN list = 1..Len(list)
  BY DEF IsList
<1>2. other = [i \in 1..Len(list) |-> other[i]]
  BY <1>1
<1>3. QED
  BY <1>1, <1>2, ListLength

(* Every altered file of votes is still a list. *)
LEMMA OtherVotesAreLists ==
  ASSUME IsList(directory.files["votes"]), NEW other \in OtherVotes
  PROVE  IsList(other)
<1> DEFINE votes == directory.files["votes"]
<1>1. \/ \E i \in DOMAIN votes : \/ other = Without(votes, i)
                                \/ other = Append(votes, votes[i])
      \/ other = [i \in DOMAIN votes |-> votes[Len(votes) + 1 - i]]
      \/ \E i \in DOMAIN votes, o \in Options :
           \/ other = [votes EXCEPT ![i] = Changed(votes[i], o)]
           \/ other = [votes EXCEPT ![i] = Restated(votes[i], o)]
  BY DEF OtherVotes
<1> HIDE DEF votes
<1>2. IsList(votes)
  BY DEF votes
<1>3. CASE \E i \in DOMAIN votes : \/ other = Without(votes, i)
                                 \/ other = Append(votes, votes[i])
  BY <1>2, <1>3, WithoutIsList, AppendIsList
<1>4. CASE ~ \E i \in DOMAIN votes : \/ other = Without(votes, i)
                                   \/ other = Append(votes, votes[i])
  <2>1. DOMAIN other = DOMAIN votes /\ other = [i \in DOMAIN other |-> other[i]]
    BY <1>1, <1>4
  <2>2. QED
    BY <1>2, <2>1, SameLengthIsList
<1>5. QED
  BY <1>3, <1>4

LEMMA OtherPackageShape ==
  ASSUME NEW c, NEW key, NEW votes, IsList(votes)
  PROVE  LET p == OtherPackage(c, key, votes)
         IN  DOMAIN p.files = RequiredFiles /\ HasVotes(p.files)
<1> DEFINE manifest == ManifestOf(c, key)
           evidence == Evidence(manifest, key, votes, ReceiptsOf(votes),
                                AcceptedVoteSetSnapshotV1(manifest, votes),
                                NaiveTally(manifest, votes))
           files == WithResult(evidence, 1)
<1>1. OtherPackage(c, key, votes).files = files
  BY DEF OtherPackage, PackageOf, Listed
<1>2. DOMAIN files = RequiredFiles
  BY DEF WithResult
<1>3. /\ \A f \in RequiredFiles \ {"result"} : files[f] = evidence[f]
  BY DEF WithResult
<1>4. evidence["manifest"] = manifest /\ evidence["votes"] = votes
  BY DEF Evidence
<1>5. manifest.options = Options
  BY DEF ManifestOf
<1>6. {"manifest", "votes"} \subseteq RequiredFiles \ {"result"}
  BY DEF RequiredFiles
<1> HIDE DEF files, evidence, manifest
<1>7. files["manifest"].options = Options /\ files["votes"] = votes
  BY <1>3, <1>4, <1>5, <1>6
<1>8. QED
  BY <1>1, <1>2, <1>7 DEF HasVotes

LEMMA GeneratedHasVotes ==
  ASSUME RowsInv, NEW c
  PROVE  HasVotes(GeneratedPackage(c).files)
<1> DEFINE votes == PublicVotes(TrustedManifest(c), VotesSql)
           files == GeneratedPackage(c).files
<1>1. files["manifest"] = TrustedManifest(c) /\ files["votes"] = CanonicalVotesV1(votes)
  BY GeneratedShape
<1>2. TrustedManifest(c).options = Options
  BY DEF TrustedManifest, ManifestOf
<1>3. IsList(CanonicalVotesV1(votes))
  BY PublicVotesAre, SortedIsList DEF CanonicalVotesV1
<1> HIDE DEF votes, files
<1>4. HasVotes(files)
  BY <1>1, <1>2, <1>3 DEF HasVotes
<1>5. QED
  BY <1>4 DEF files

LEMMA NextFiles == IInv /\ [Next]_vars => FilesInv'
<1> SUFFICES ASSUME IInv, [Next]_vars PROVE FilesInv'
  OBVIOUS
<1>1. /\ TypeOK /\ RowsInv /\ FilesInv
      /\ directory # None => IsPackage(directory)
  BY DEF IInv, PackageInv, BoxInv, DirectoryInv
<1>2. ASSUME UNCHANGED <<directory, spare>>
      PROVE  FilesInv'
  BY <1>1, <1>2 DEF FilesInv, HasVotes
<1>3. ASSUME spare' = spare, directory' = None \/ HasVotes(directory'.files)
      PROVE  FilesInv'
  BY <1>1, <1>3 DEF FilesInv, HasVotes
<1>4. CASE (\E n \in Nullifiers, o \in Options : Accept(n, o)) \/ Close \/ EnterCounting
  BY <1>2, <1>4 DEF Accept, Close, EnterCounting
<1>5. CASE ComputeTally \/ RecordPackage
  BY <1>2, <1>5 DEF ComputeTally, RecordPackage
<1>6. CASE WritePackage
  <2>1. PICK c \in published : directory' = GeneratedPackage(c)
    BY <1>6 DEF WritePackage
  <2>2. HasVotes(directory'.files)
    BY <1>1, <2>1, GeneratedHasVotes
  <2>3. QED
    BY <1>3, <1>6, <2>2 DEF WritePackage
<1>7. CASE DropPackage
  BY <1>3, <1>7 DEF DropPackage
<1>8. CASE FindSpare
  <2>1. /\ contentDigest # None /\ Missing(directory) = {} /\ directory' = directory
        /\ spare' \in Spares
    BY <1>8 DEF FindSpare
  <2>2. directory # None /\ IsList(directory.files["votes"])
    <3>1. directory # None /\ HasVotes(directory.files)
      BY <1>1, <2>1 DEF TypeOK, FilesInv
    <3>2. "votes" \in DOMAIN directory.files
      BY <2>1 DEF Missing, RequiredFiles
    <3>3. QED
      BY <3>1, <3>2 DEF HasVotes
  <2>3. \E c, key, votes : IsList(votes) /\ spare' = OtherPackage(c, key, votes)
    BY <2>1, <2>2, OtherVotesAreLists DEF Spares
  <2>4. DOMAIN spare'.files = RequiredFiles /\ HasVotes(spare'.files)
    BY <2>3, OtherPackageShape
  <2>5. QED
    BY <1>1, <2>1, <2>4 DEF FilesInv, HasVotes
<1>9. ASSUME NEW f \in RequiredFiles, Replace(f)
      PROVE  FilesInv'
  <2> DEFINE files == [directory.files EXCEPT ![f] = spare.files[f]]
  <2>1. /\ spare # None /\ directory' = [directory EXCEPT !.files = files]
        /\ spare' = spare
    BY <1>9 DEF Replace
  <2>2. directory # None /\ IsPackage(directory)
    BY <1>1, <2>1 DEF TypeOK
  <2>3. directory'.files = files
    BY <2>1, <2>2 DEF IsPackage
  <2>4. HasVotes(directory.files) /\ HasVotes(spare.files) /\ DOMAIN spare.files = RequiredFiles
    BY <1>1, <2>1, <2>2 DEF FilesInv
  <2>5. HasVotes(files)
    BY <2>4 DEF HasVotes
  <2>6. QED
    BY <1>3, <2>1, <2>3, <2>5
<1>10. ASSUME NEW f \in RequiredFiles, LoseFile(f)
       PROVE  FilesInv'
  <2> DEFINE files == [g \in DOMAIN directory.files \ {f} |-> directory.files[g]]
  <2>1. /\ contentDigest # None /\ directory' = [directory EXCEPT !.files = files]
        /\ spare' = spare
    BY <1>10 DEF LoseFile
  <2>2. directory # None /\ IsPackage(directory)
    BY <1>1, <2>1 DEF TypeOK
  <2>3. directory'.files = files
    BY <2>1, <2>2 DEF IsPackage
  <2>4. HasVotes(directory.files)
    BY <1>1, <2>2 DEF FilesInv
  <2>5. HasVotes(files)
    BY <2>4 DEF HasVotes
  <2>6. QED
    BY <1>3, <2>1, <2>3, <2>5
<1>11. CASE Relist
  <2>1. /\ spare # None /\ spare' = spare
        /\ directory' = Listed(directory.files, directory.resultVersion)
    BY <1>11 DEF Relist
  <2>2. directory # None /\ HasVotes(directory.files)
    BY <1>1, <2>1 DEF TypeOK, FilesInv
  <2>3. directory'.files = directory.files
    BY <2>1 DEF Listed
  <2>4. QED
    BY <1>3, <2>1, <2>2, <2>3
<1>12. CASE UNCHANGED vars
  BY <1>2, <1>12 DEF vars
<1>13. QED
  BY <1>4, <1>5, <1>6, <1>7, <1>8, <1>9, <1>10, <1>11, <1>12 DEF Next

LEMMA InitInvariant == Init => IInv
<1> SUFFICES ASSUME Init PROVE IInv
  OBVIOUS
<1>1. rows = {} /\ status = "OPEN" /\ tally = None /\ directory = None /\ spare = None
  BY DEF Init
<1>2. RowsInv
  BY <1>1, FS_EmptySet DEF RowsInv
<1>3. FrozenInv /\ CountedInv /\ FilesInv
  BY <1>1 DEF FrozenInv, CountedInv, FilesInv
<1>4. QED
  BY <1>2, <1>3, InitPackage DEF IInv, BoxInv

LEMMA NextInvariant == IInv /\ [Next]_vars => IInv'
<1> SUFFICES ASSUME IInv, [Next]_vars PROVE IInv'
  OBVIOUS
<1>1. PackageInv' /\ BoxInv' /\ FilesInv'
  BY NextPackage, NextBox, NextFiles DEF IInv, PackageInv
<1>2. QED
  BY <1>1 DEF IInv

LEMMA Invariance == Spec => []IInv
BY InitInvariant, NextInvariant, PTL DEF Spec

-----------------------------------------------------------------------------
(* What the checked code computes. *)

(* The totals of a valid package, whoever put it together. *)
LEMMA ValidTotals ==
  ASSUME NEW p, Valid(p), HasVotes(p.files)
  PROVE  LET files == p.files
             votes == files["votes"]
         IN  /\ DOMAIN votes = 1..Len(votes)
             /\ files["result"].totalAcceptedVotes = Len(votes)
             /\ files["result"].totalsByOption =
                  [o \in Options |-> Cardinality(VotesOf(votes, Len(votes), o))]
             /\ \A i \in DOMAIN votes : votes[i].voteEncoding \in Options
<1> DEFINE files == p.files
           manifest == files["manifest"]
           votes == files["votes"]
           expected == ComputeTallyV1(manifest, files["voteSet"], votes)
           result == ElectionResultV1(manifest, files["tally"],
                                      files["result"].resultVersion, p.evidenceDigest)
<1>1. /\ "manifest" \in DOMAIN files /\ "votes" \in DOMAIN files
  BY ValidFiles DEF RequiredFiles
<1>2. manifest.options = Options /\ IsList(votes)
  BY <1>1 DEF HasVotes
<1>3. DOMAIN votes = 1..Len(votes) /\ Len(votes) \in Nat
  BY <1>2 DEF IsList
<1>4. expected # None /\ files["tally"] = expected
  BY ValidParts, WhenEmpty DEF TallyErrors
<1>5. result # None /\ files["result"] = result
  <2>1. ResultErrors(p) = {}
    BY <1>4, ValidParts DEF TallyErrors
  <2>2. result # None
    BY <2>1 DEF ResultErrors
  <2>3. When(\/ files["result"].resultVersion # p.resultVersion
             \/ files["result"] # result,
             "RESULT_DIGEST_MISMATCH") = {}
    BY <2>1, <2>2 DEF ResultErrors
  <2>4. QED
    BY <2>2, <2>3, WhenEmpty
<1> HIDE DEF files
<1>6. /\ expected.acceptedVoteCount = Len(votes)
      /\ expected.totalsByOption = Counts(Options, votes)
      /\ \A i \in DOMAIN votes : votes[i].voteEncoding \in Options
  BY <1>2, <1>4 DEF ComputeTallyV1
<1>7. /\ result.totalAcceptedVotes = files["tally"].acceptedVoteCount
      /\ result.totalsByOption = [o \in Options |-> files["tally"].totalsByOption[o]]
  BY <1>2, <1>5 DEF ElectionResultV1
<1>8. Counts(Options, votes) = [o \in Options |-> Cardinality(VotesOf(votes, Len(votes), o))]
  BY <1>3, <1>6, CountsAre
<1>9. QED
  BY <1>3, <1>4, <1>5, <1>6, <1>7, <1>8 DEF files

(* The package the API writes over the manifest in force passes the        *)
(* verification, check by check.                                           *)
LEMMA GeneratedIsValid ==
  ASSUME RowsInv, FrozenInv, CountedInv, status = "COUNTING", tally # None
  PROVE  Valid(GeneratedPackage(configuration))
<1> DEFINE p == GeneratedPackage(configuration)
           manifest == TrustedManifest(configuration)
           votes == BallotVotes
           evidence == Evidence(manifest, TrustedKey, votes, ReceiptsOf(votes),
                                snapshot, tally)
           files == WithResult(evidence, 1)
           result == ElectionResultV1(manifest, tally, 1, EvidenceDigest(evidence))
<1>1. /\ SortedByNullifier(votes) = votes /\ UniqueNullifiers(votes)
      /\ Increasing(votes)
      /\ \A i \in DOMAIN votes : /\ votes[i].nullifier \in Nat
                                 /\ votes[i].voteEncoding \in Options
                                 /\ Bound(manifest, votes[i])
                                 /\ ProofHolds(TrustedKey, votes[i])
  BY BallotVotesAre
<1>2. CanonicalVotesV1(votes) = votes
  BY <1>1 DEF CanonicalVotesV1
<1>3. /\ DOMAIN votes = 1..Len(votes) /\ Len(votes) \in Nat
      /\ votes = [i \in 1..Len(votes) |-> votes[i]]
  BY PublicVotesAre DEF BallotVotes, IsList
<1>4. p = Listed(files, 1)
  BY <1>2 DEF GeneratedPackage, PackageOf, BallotVotes
<1>5. /\ p.files = files /\ p.listing = files /\ p.resultVersion = 1
      /\ p.evidenceDigest = EvidenceDigest(files)
      /\ p.packageContentDigest = PackageContentDigest(files)
  BY <1>4 DEF Listed
<1>6. /\ DOMAIN files = RequiredFiles
      /\ \A f \in RequiredFiles \ {"result"} : files[f] = evidence[f]
      /\ files["result"] = result
  BY DEF WithResult, RequiredFiles, Evidence
<1>7. /\ tally = [acceptedVoteCount |-> Len(votes), acceptedVoteSetDigest |-> votes,
                  configuration |-> configuration,
                  totalsByOption |-> Counts(Options, votes)]
      /\ tally = ComputeTallyV1(manifest, snapshot, votes)
  BY BoxIsCounted DEF CountedInv, CanonicalTally
<1>8. snapshot.canonicalDigest = votes /\ snapshot.recordCount = Len(votes)
  BY <1>2 DEF FrozenInv, AcceptedVoteSetSnapshotV1
<1>9. /\ evidence["manifest"] = manifest
      /\ evidence["protocol"] = [protocolVersion |-> Version,
                                 verificationKeyDigest |-> TrustedKey]
      /\ evidence["verification_key"] = TrustedKey
      /\ evidence["eligibility"] = FrozenEligibility(tally.configuration)
      /\ evidence["votes"] = votes /\ evidence["voteSet"] = snapshot
      /\ evidence["receipts"] = ReceiptsOf(votes) /\ evidence["tally"] = tally
      /\ evidence["checkpoints"] = <<[fromSequence |-> 1, toSequence |-> 2]>>
  BY DEF Evidence
<1>10. /\ manifest.configuration = configuration /\ manifest.options = Options
       /\ manifest.protocolVersion = Version /\ manifest.merkleRoot = configuration
       /\ manifest.verificationKeyDigest = TrustedKey
       /\ manifest.electionContext = ElectionContextV1(configuration, Options, Version)
  BY DEF TrustedManifest, ManifestOf
<1> HIDE DEF evidence, p, files, votes, manifest, result
<1>11. /\ files["manifest"] = manifest
       /\ files["protocol"] = [protocolVersion |-> Version,
                               verificationKeyDigest |-> TrustedKey]
       /\ files["verification_key"] = TrustedKey
       /\ files["eligibility"] = FrozenEligibility(tally.configuration)
       /\ files["votes"] = votes /\ files["voteSet"] = snapshot
       /\ files["receipts"] = ReceiptsOf(votes) /\ files["tally"] = tally
       /\ files["checkpoints"] = <<[fromSequence |-> 1, toSequence |-> 2]>>
  <2>1. RequiredFiles \ {"result"} =
          {"manifest", "protocol", "verification_key", "eligibility", "votes",
           "voteSet", "receipts", "tally", "checkpoints"}
    BY DEF RequiredFiles
  <2>2. QED
    BY <1>6, <1>9, <2>1
<1>12. ManifestErrors(p) = {} /\ Missing(p) = {} /\ FileErrors(p) = {}
  <2>1. Missing(p) = {}
    BY <1>5, <1>6 DEF Missing
  <2>2. ManifestErrors(p) = {}
    BY <1>5 DEF ManifestErrors, When
  <2>3. FileErrors(p) = {}
    BY <1>5 DEF FileErrors, When
  <2>4. QED
    BY <2>1, <2>2, <2>3
<1>13. ArtifactErrors(p) = {}
  BY <1>5, <1>10, <1>11 DEF ArtifactErrors, When
<1>14. BindingErrors(p) = {}
  BY <1>5, <1>10, <1>11 DEF BindingErrors, When
<1>15. EligibilityErrors(p) = {}
  BY <1>5, <1>7, <1>10, <1>11 DEF EligibilityErrors, FrozenEligibility, When
<1>16. VoteSetErrors(p) = {}
  BY <1>2, <1>5, <1>8, <1>11 DEF VoteSetErrors, When
<1>17. VoteBindingErrors(p) = {} /\ ProofErrors(p) = {}
  BY <1>1, <1>5, <1>11 DEF VoteBindingErrors, ProofErrors, When
<1>18. ReceiptErrors(p) = {}
  <2> DEFINE receipts == ReceiptsOf(votes)
  <2>1. /\ DOMAIN receipts = 1..Len(votes)
        /\ receipts = [i \in 1..Len(votes) |-> receipts[i]]
        /\ \A i \in 1..Len(votes) : receipts[i].nullifier = votes[i].nullifier
    BY <1>3 DEF ReceiptsOf, ReceiptOf
  <2> HIDE DEF receipts
  <2>2. /\ \A i \in 1..Len(votes) : receipts[i].nullifier \in Nat
        /\ Increasing(receipts)
    BY <1>1, <1>3, <2>1 DEF Increasing
  <2>3. SortedByNullifier(receipts) = receipts
    BY <1>3, <2>1, <2>2, SortedStays
  <2>4. p.files["receipts"] = receipts /\ p.files["votes"] = votes
    BY <1>5, <1>11 DEF receipts
  <2>5. receipts = ReceiptsOf(votes)
    BY DEF receipts
  <2>6. QED
    BY <2>3, <2>4, <2>5 DEF ReceiptErrors, When
<1>19. CheckpointErrors(p) = {}
  <2> DEFINE checkpoints == <<[fromSequence |-> 1, toSequence |-> 2]>>
  <2>1. /\ checkpoints # <<>> /\ DOMAIN checkpoints = {1}
        /\ checkpoints[1].fromSequence = 1 /\ checkpoints[1].toSequence = 2
    OBVIOUS
  <2>2. p.files["checkpoints"] = checkpoints
    BY <1>5, <1>11
  <2> HIDE DEF checkpoints
  <2>3. QED
    BY <2>1, <2>2 DEF CheckpointErrors, When
<1>20. ResultErrors(p) = {}
  <2>1. EvidenceDigest(evidence) = EvidenceDigest(files)
    BY <1>6 DEF EvidenceDigest
  <2>2. DOMAIN tally.totalsByOption = Options
    BY <1>7, BoxCounts DEF votes
  <2>3. result.resultVersion = 1 /\ result # None
    BY <1>10, <2>2 DEF result, ElectionResultV1, None
  <2>4. result = ElectionResultV1(manifest, tally, result.resultVersion, p.evidenceDigest)
    BY <1>5, <2>1, <2>3 DEF result
  <2>5. /\ p.files["result"] = result /\ p.files["manifest"] = manifest
        /\ p.files["tally"] = tally /\ p.resultVersion = 1
    BY <1>5, <1>6, <1>11
  <2>6. QED
    BY <1>19, <2>3, <2>4, <2>5 DEF ResultErrors, When
<1>21. TallyErrors(p) = {}
  BY <1>5, <1>7, <1>11, <1>20 DEF TallyErrors, When
<1>22. RecordErrors(p) = {}
  BY <1>1, <1>5, <1>11, <1>16, <1>17, <1>18, <1>21 DEF RecordErrors
<1>23. Errors(p) = {}
  BY <1>12, <1>13, <1>14, <1>15, <1>22 DEF Errors
<1>24. QED
  BY <1>23 DEF Valid, p

-----------------------------------------------------------------------------
(* The type invariant of the run, for all constants. *)
THEOREM TypeCorrect == Spec => []TypeOK
<1>1. IInv => TypeOK
  BY DEF IInv, PackageInv
<1>2. QED
  BY <1>1, Invariance, PTL

(* Whatever happens to the files of a package, a report that says valid    *)
(* says so of proved votes, one per voter.                                 *)
THEOREM VerifiedVotesCorrect == Spec => []VerifiedVotesAreProved
<1>1. VerifiedVotesAreProved
  BY ValidIsProved DEF VerifiedVotesAreProved
<1>2. QED
  BY <1>1, PTL

(* No package over the manifest of a configuration the election has left   *)
(* is recorded, whichever manifest getManifest returns.                    *)
THEOREM RecordedForTheElection == Spec => []RecordedIsInForce
<1>1. IInv => RecordedIsInForce
  BY GeneratedShape DEF IInv, PackageInv, RecordedInv, RecordedIsInForce
<1>2. QED
  BY <1>1, Invariance, PTL

(* A package that passes the check of generatePackage and publishResults   *)
(* is the recorded one and holds the votes of the database and their       *)
(* tally.                                                                  *)
THEOREM ReverifiedHoldsTheBox == Spec => []ReverifiedIsTheBox
<1>1. IInv => ReverifiedIsTheBox
  <2> SUFFICES ASSUME IInv, Reverified
               PROVE  /\ directory.files = contentDigest
                      /\ directory.files["votes"] = CanonicalVotesV1(BallotVotes)
                      /\ directory.files["tally"] = tally
    BY DEF ReverifiedIsTheBox
  <2>1. /\ contentDigest # None /\ Valid(directory)
        /\ directory.packageContentDigest = contentDigest
    BY DEF Reverified
  <2>2. IsPackage(directory)
    BY <2>1 DEF IInv, PackageInv, TypeOK, DirectoryInv
  <2>3. directory.files = [f \in RequiredFiles |-> directory.listing[f]]
    BY <2>1, <2>2, ValidFiles DEF IsPackage
  <2>4. contentDigest = [f \in RequiredFiles |-> directory.listing[f]]
    BY <2>1, ValidFiles DEF PackageContentDigest
  <2>5. contentDigest = GeneratedPackage(configuration).files
    BY <2>1 DEF IInv, PackageInv, RecordedInv
  <2>6. /\ contentDigest["votes"] = CanonicalVotesV1(BallotVotes)
        /\ contentDigest["tally"] = tally
    BY <2>5, GeneratedShape DEF BallotVotes
  <2>7. QED
    BY <2>3, <2>4, <2>6
<1>2. QED
  BY <1>1, Invariance, PTL

(* A frozen vote set can always be counted: computeTally finds nothing to  *)
(* refuse in what enterCounting stored.                                    *)
THEOREM NeverStalls == Spec => []CountingNeverStalls
<1>1. IInv => CountingNeverStalls
  BY BoxIsCounted DEF IInv, BoxInv, CountingNeverStalls
<1>2. QED
  BY <1>1, Invariance, PTL

(* The package written over the manifest in force is valid, whatever was   *)
(* voted.                                                                  *)
THEOREM GeneratedIsVerified == Spec => []GeneratedVerifies
<1>1. IInv => GeneratedVerifies
  <2> SUFFICES ASSUME IInv, directory # None, contentDigest = None,
                      directory.files["manifest"] = TrustedManifest(configuration)
               PROVE  Valid(directory)
    BY DEF GeneratedVerifies
  <2>1. /\ TypeOK /\ RowsInv /\ FrozenInv /\ CountedInv /\ WrittenInv
    BY DEF IInv, PackageInv, BoxInv
  <2>2. PICK c \in published : directory = GeneratedPackage(c) /\ tally # None
    BY <2>1 DEF WrittenInv
  <2>3. TrustedManifest(c) = TrustedManifest(configuration)
    BY <2>2, GeneratedShape
  <2>4. \A b : TrustedManifest(b).configuration = b
    BY DEF TrustedManifest, ManifestOf
  <2>5. c = configuration
    BY <2>3, <2>4
  <2>6. status = "COUNTING"
    BY <2>1, <2>2 DEF TypeOK
  <2>7. QED
    BY <2>1, <2>2, <2>5, <2>6, GeneratedIsValid
<1>2. QED
  BY <1>1, Invariance, PTL

(* The totals of a result that verifies are the votes of the package,      *)
(* counted once each, and no vote is for something that was not an option. *)
THEOREM TotalsAdd == Spec => []VerifiedTotalsAdd
<1>1. IInv => VerifiedTotalsAdd
  <2> SUFFICES ASSUME IInv, directory # None, Valid(directory)
               PROVE  VerifiedTotalsAdd
    BY DEF VerifiedTotalsAdd
  <2> DEFINE files == directory.files
             votes == files["votes"]
  <2>1. HasVotes(files)
    BY DEF IInv, FilesInv
  <2>2. /\ DOMAIN votes = 1..Len(votes)
        /\ files["result"].totalAcceptedVotes = Len(votes)
        /\ files["result"].totalsByOption =
             [o \in Options |-> Cardinality(VotesOf(votes, Len(votes), o))]
        /\ \A i \in DOMAIN votes : votes[i].voteEncoding \in Options
    BY <2>1, ValidTotals
  <2>3. \A o : VotesOf(votes, Len(votes), o) =
                 {i \in DOMAIN votes : votes[i].voteEncoding = o}
    BY <2>2 DEF VotesOf
  <2>4. QED
    BY <2>2, <2>3 DEF VerifiedTotalsAdd
<1>2. QED
  BY <1>1, Invariance, PTL
=============================================================================
