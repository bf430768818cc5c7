----------------------------- MODULE ArtifactStore -----------------------------
(***************************************************************************)
(* The verification packages on disk, in directories named by their        *)
(* content digest, and the rows of the database that name them.  Several   *)
(* API instances generate packages over one file system: each writes the   *)
(* files into a staging directory of its own, renames it to its final name *)
(* and, once the directory verifies, inserts the row.  Nothing locks the   *)
(* file system; an instance may die between any two calls, and leave its   *)
(* staging directory behind, which nothing reads.                          *)
(***************************************************************************)
CONSTANTS
  Workers,      \* requests that generate a package
  Digests,      \* content digests: names of directories
  Files,        \* the files of a package
  NoFile,       \* no file of a package
  NoDigest

ASSUME ArtifactStoreAssumption ==
  Files # {} /\ NoFile \notin Files /\ NoDigest \notin Digests

\* no directory of that name
NoDirectory == {NoFile}

VARIABLES
  directory,    \* files in the directory of each digest, or NoDirectory
  packages,     \* content_digest of the rows of result.verification_packages
  pc,           \* where putImmutable and its caller are
  digest,       \* what the worker stores
  staging       \* files in its staging directory, or NoDirectory

worker == <<pc, digest, staging>>
storeVars == <<directory, packages, worker>>

\* the directories `access' finds
Stored == {d \in Digests : directory[d] # NoDirectory}
Whole == {d \in Digests : directory[d] = Files}

StoreTypeOK ==
  /\ directory \in [Digests -> (SUBSET Files) \cup {NoDirectory}]
  /\ packages \subseteq Digests
  /\ pc \in [Workers -> {"idle", "looking", "writing", "promoting", "verifying", "recording"}]
  /\ digest \in [Workers -> Digests \cup {NoDigest}]
  /\ staging \in [Workers -> (SUBSET Files) \cup {NoDirectory}]

StoreInit ==
  /\ directory = [d \in Digests |-> NoDirectory]
  /\ packages = {}
  /\ pc = [w \in Workers |-> "idle"]
  /\ digest = [w \in Workers |-> NoDigest]
  /\ staging = [w \in Workers |-> NoDirectory]

Goto(w, label) == pc' = [pc EXCEPT ![w] = label]

\* the request ends
End(w) ==
  /\ Goto(w, "idle")
  /\ digest' = [digest EXCEPT ![w] = NoDigest]
  /\ staging' = [staging EXCEPT ![w] = NoDirectory]

\* generatePackage found no package of the election recorded, has computed the
\* files and their digest, and calls putImmutable; mkdir of the parent
Generate(w, d) ==
  /\ pc[w] = "idle" /\ packages = {}
  /\ digest' = [digest EXCEPT ![w] = d]
  /\ Goto(w, "looking")
  /\ UNCHANGED <<directory, packages, staging>>

\* access(destination): a directory that is there is returned as it is;
\* otherwise mkdtemp
Look(w) ==
  /\ pc[w] = "looking"
  /\ \/ digest[w] \in Stored /\ Goto(w, "verifying") /\ UNCHANGED staging
     \/ /\ digest[w] \notin Stored
        /\ Goto(w, "writing")
        /\ staging' = [staging EXCEPT ![w] = {}]
  /\ UNCHANGED <<directory, packages, digest>>

\* Mutant of WriteFile: the files are written under the final name.
WriteFileInPlace(w) ==
  /\ pc[w] = "writing"
  /\ \E f \in Files \ staging[w] :
       /\ staging' = [staging EXCEPT ![w] = @ \cup {f}]
       /\ directory' = [directory EXCEPT ![digest[w]] = staging[w] \cup {f}]
  /\ Goto(w, IF staging'[w] = Files THEN "promoting" ELSE "writing")
  /\ UNCHANGED <<packages, digest>>

\* one file, into the staging directory
WriteFile(w) ==
  /\ pc[w] = "writing"
  /\ \E f \in Files \ staging[w] : staging' = [staging EXCEPT ![w] = @ \cup {f}]
  /\ Goto(w, IF staging'[w] = Files THEN "promoting" ELSE "writing")
  /\ UNCHANGED <<directory, packages, digest>>

\* rename: it takes the final name if that is free, and fails if another worker
\* took it first, in whose directory the worker then finds its own bytes; the
\* finally clause removes the staging directory
Promote(w) ==
  /\ pc[w] = "promoting"
  /\ directory' = IF digest[w] \in Stored THEN directory
                  ELSE [directory EXCEPT ![digest[w]] = staging[w]]
  /\ staging' = [staging EXCEPT ![w] = NoDirectory]
  /\ Goto(w, "verifying")
  /\ UNCHANGED <<packages, digest>>

\* verifyElectionPackage reads the directory that putImmutable returned
Verify(w) ==
  /\ pc[w] = "verifying"
  /\ \/ digest[w] \in Whole /\ Goto(w, "recording") /\ UNCHANGED <<digest, staging>>
     \/ digest[w] \notin Whole /\ End(w)
  /\ UNCHANGED <<directory, packages>>

\* Mutant of RecordPackage: the row is inserted before the directory is promoted.
RecordPackageFirst(w) ==
  /\ pc[w] = "promoting" /\ digest[w] \notin packages
  /\ packages' = packages \cup {digest[w]}
  /\ UNCHANGED <<directory, worker>>

\* the transaction that inserts the row, whose digest is unique
RecordPackage(w) ==
  /\ pc[w] = "recording" /\ digest[w] \notin packages
  /\ packages' = packages \cup {digest[w]}
  /\ End(w)
  /\ UNCHANGED directory

\* a call of the file system fails, the transaction is refused, as when another
\* worker recorded the digest or the result version first, or the process dies
Stop(w) ==
  /\ pc[w] # "idle"
  /\ End(w)
  /\ UNCHANGED <<directory, packages>>

StoreNext ==
  \E w \in Workers :
    \/ \E d \in Digests : Generate(w, d)
    \/ Look(w) \/ WriteFile(w) \/ Promote(w) \/ Verify(w) \/ RecordPackage(w)
    \/ Stop(w)

StoreSpec == StoreInit /\ [][StoreNext]_storeVars
-----------------------------------------------------------------------------
Abstract == INSTANCE ImmutableStore

\* A package appears under its digest whole, in one step, and never changes or
\* disappears, whatever workers of the same digest race and wherever they die.
ImplementsStore == Abstract!Spec

\* A committed row names a directory with every file of its package: a crash
\* between the two leaves a directory without a row, never a row without files.
RecordedAreStored == packages \subseteq Whole
=============================================================================
