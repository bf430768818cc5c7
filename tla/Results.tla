------------------------------- MODULE Results -------------------------------
(***************************************************************************)
(* Counting and publication of the results of one closed election.  Several*)
(* workers, the requests of one or more API instances, run the operations  *)
(* of verification.service.ts.  The vote set is frozen in one transaction, *)
(* the tally computed in another; a verification package is generated      *)
(* outside any transaction and recorded in one; the publication is started *)
(* in one transaction, the package on disk verified again, and the         *)
(* publication finished in another.  A worker may crash at every await.    *)
(*                                                                         *)
(* The SELECT ... ORDER BY result_version DESC LIMIT 1 FOR UPDATE of a     *)
(* publication chooses its row when the statement starts and then waits    *)
(* for the row locks; PostgreSQL at READ COMMITTED then reads that row     *)
(* again, but does not choose again.  Select and Begin, and Reselect and   *)
(* Finish, are the two halves.                                             *)
(***************************************************************************)
EXTENDS Naturals

CONSTANTS
  Workers,
  VoteSet,          \* the accepted votes of the closed election
  MaxVersions,      \* bound on the result versions
  MaxCorruptions,   \* bound on how often a package on disk is damaged or restored
  MaxCrashes        \* bound on the crashes and failed queries

Versions == 1 .. MaxVersions

ASSUME ResultsAssumption ==
  MaxVersions \in Nat /\ MaxCorruptions \in Nat /\ MaxCrashes \in Nat

VARIABLES
  status,        \* of the election row
  frozen,        \* the accepted_vote_set_snapshot, or NoVotes
  tally,         \* the tally manifest: [status, votes]
  result,        \* status of each row of election_results, or "none"
  package,       \* status of each row of verification_packages
  publication,   \* status of each row of result_publications
  intact,        \* packages whose files on disk verify
  audit,         \* events about the publication of each version
  pc,            \* where the request of each worker is
  version,       \* the result version it works on
  answer,        \* what its last request was answered
  corruptions, crashes

evidence == <<result, package, publication>>
handler  == <<pc, version, answer>>
vars == <<status, frozen, tally, evidence, intact, audit, handler, corruptions, crashes>>

NoVotes == {"none"}

\* result versions with a committed row
Recorded == {v \in Versions : result[v] # "none"}
\* the one an ORDER BY result_version DESC LIMIT 1 finds
Latest == {v \in Recorded : \A u \in Recorded : u <= v}

Answers == {"none", "ok", "lost", "ELECTION_NOT_CLOSED", "ELECTION_NOT_COUNTING",
  "FINAL_VOTE_SET_CONFLICT", "INVALID_ELECTION_TRANSITION", "RESULT_EVIDENCE_MISSING", "VERIFICATION_PACKAGE_INVALID",
  "ELECTION_CHANGED", "duplicate key", "RESULT_PUBLICATION_REJECTED", "RESULT_VERSION_CONFLICT"}

TypeOK ==
  /\ status \in {"CLOSED", "COUNTING", "RESULTS_PUBLISHED", "CANCELLED"}
  /\ frozen \in {NoVotes, VoteSet}
  /\ tally \in [status : {"none", "VALIDATED", "PUBLISHED"}, votes : {NoVotes, VoteSet}]
  /\ result \in [Versions -> {"none", "VALIDATED", "PUBLISHED"}]
  /\ package \in [Versions -> {"none", "VERIFIED", "PUBLISHED"}]
  /\ publication \in [Versions -> {"none", "VERIFIED", "PUBLISHING", "PUBLISHED", "FAILED"}]
  /\ intact \subseteq Versions
  /\ audit \in [Versions -> SUBSET {"started", "failed", "published"}]
  /\ pc \in [Workers -> {"idle", "checking", "collecting", "numbering", "recording",
                         "selecting", "beginning", "verifying", "failing", "reselecting",
                         "finishing"}]
  /\ version \in [Workers -> 0 .. MaxVersions]
  /\ answer \in [Workers -> Answers]
  /\ corruptions \in 0 .. MaxCorruptions /\ crashes \in 0 .. MaxCrashes

Init ==
  /\ status = "CLOSED"
  /\ frozen = NoVotes
  /\ tally = [status |-> "none", votes |-> NoVotes]
  /\ result = [v \in Versions |-> "none"]
  /\ package = [v \in Versions |-> "none"]
  /\ publication = [v \in Versions |-> "none"]
  /\ intact = {}
  /\ audit = [v \in Versions |-> {}]
  /\ pc = [w \in Workers |-> "idle"]
  /\ version = [w \in Workers |-> 0]
  /\ answer = [w \in Workers |-> "none"]
  /\ corruptions = 0 /\ crashes = 0

\* the request of w ends with answer x; its transaction, if it failed, is rolled back
End(w, x) ==
  /\ pc' = [pc EXCEPT ![w] = "idle"]
  /\ version' = [version EXCEPT ![w] = 0]
  /\ answer' = [answer EXCEPT ![w] = x]

\* w goes on at label with result version v
Goto(w, label, v) ==
  /\ pc' = [pc EXCEPT ![w] = label]
  /\ version' = [version EXCEPT ![w] = v]
  /\ UNCHANGED answer

Request(w, label) ==
  /\ pc[w] = "idle"
  /\ Goto(w, label, 0)
  /\ UNCHANGED <<status, frozen, tally, evidence, intact, audit, corruptions, crashes>>
-----------------------------------------------------------------------------
\* enterCounting and computeTally, each one transaction that locks the election row
\* with its first statement.

\* a repeated request returns the frozen set; its votes are those with evidence,
\* and the election has been closed to new ones
EnterCounting(w) ==
  /\ pc[w] = "idle"
  /\ \/ /\ status \in {"COUNTING", "RESULTS_PUBLISHED"}
        /\ End(w, IF frozen = NoVotes THEN "FINAL_VOTE_SET_CONFLICT" ELSE "ok")
        /\ UNCHANGED <<status, frozen>>
     \/ /\ status = "CLOSED"
        /\ frozen' = VoteSet
        /\ status' = "COUNTING"
        /\ End(w, "ok")
     \/ /\ status = "CANCELLED"
        /\ End(w, "ELECTION_NOT_CLOSED")
        /\ UNCHANGED <<status, frozen>>
  /\ UNCHANGED <<tally, evidence, intact, audit, corruptions, crashes>>

\* the votes are read again and must be the frozen ones; a tally that is already
\* there is returned
ComputeTally(w) ==
  /\ pc[w] = "idle"
  /\ CASE status \notin {"COUNTING", "RESULTS_PUBLISHED"} ->
            End(w, "ELECTION_NOT_COUNTING") /\ UNCHANGED tally
       [] status \in {"COUNTING", "RESULTS_PUBLISHED"} /\ frozen # VoteSet ->
            End(w, "FINAL_VOTE_SET_CONFLICT") /\ UNCHANGED tally
       [] OTHER ->
            /\ tally' = IF tally.status = "none"
                        THEN [status |-> "VALIDATED", votes |-> frozen] ELSE tally
            /\ End(w, "ok")
  /\ UNCHANGED <<status, frozen, evidence, intact, audit, corruptions, crashes>>
-----------------------------------------------------------------------------
\* generatePackage.

\* the latest package, if there is one, is verified on disk and returned
CheckExisting(w) ==
  /\ pc[w] = "checking"
  /\ \/ Recorded = {} /\ Goto(w, "collecting", 0)
     \/ \E v \in Latest : End(w, IF v \in intact THEN "ok" ELSE "VERIFICATION_PACKAGE_INVALID")
  /\ UNCHANGED <<status, frozen, tally, evidence, intact, audit, corruptions, crashes>>

\* status, votes, tally and the rest of the evidence, statement by statement;
\* none of it is removed once it is there
CollectEvidence(w) ==
  /\ pc[w] = "collecting"
  /\ CASE status # "COUNTING" -> End(w, "INVALID_ELECTION_TRANSITION")
       [] status = "COUNTING" /\ tally.status = "none" -> End(w, "RESULT_EVIDENCE_MISSING")
       [] OTHER -> Goto(w, "numbering", 0)
  /\ UNCHANGED <<status, frozen, tally, evidence, intact, audit, corruptions, crashes>>

NextVersion == {v \in Versions : IF Recorded = {} THEN v = 1 ELSE v - 1 \in Latest}

\* max(result_version) + 1, read without a lock
NumberResult(w) ==
  /\ pc[w] = "numbering"
  /\ \E v \in NextVersion : Goto(w, "recording", v)
  /\ UNCHANGED <<status, frozen, tally, evidence, intact, audit, corruptions, crashes>>

\* one transaction records the result, its publication and its package, and
\* marks them VERIFIED; the files were stored under their digest and verified.
\* A version that is taken violates the unique index.
RecordResult(w) ==
  /\ pc[w] = "recording"
  /\ LET v == version[w] IN
     CASE status # "COUNTING" ->
            End(w, "ELECTION_CHANGED") /\ UNCHANGED <<evidence, intact>>
       [] status = "COUNTING" /\ result[v] # "none" ->
            End(w, "duplicate key") /\ UNCHANGED <<evidence, intact>>
       [] OTHER ->
            /\ result' = [result EXCEPT ![v] = "VALIDATED"]
            /\ package' = [package EXCEPT ![v] = "VERIFIED"]
            /\ publication' = [publication EXCEPT ![v] = "VERIFIED"]
            /\ intact' = intact \cup {v}
            /\ End(w, "ok")
  /\ UNCHANGED <<status, frozen, tally, audit, corruptions, crashes>>
-----------------------------------------------------------------------------
\* publishResults.

\* the statement that locks the publication starts
Select(w) ==
  /\ pc[w] = "selecting"
  /\ \/ Recorded = {} /\ End(w, "RESULT_EVIDENCE_MISSING")
     \/ \E v \in Latest : Goto(w, "beginning", v)
  /\ UNCHANGED <<status, frozen, tally, evidence, intact, audit, corruptions, crashes>>

\* Mutant of Publishable: a publication under way may not be taken up again.
PublishableOnce(v) == publication[v] \in {"VERIFIED", "FAILED"}

Publishable(v) == publication[v] \in {"VERIFIED", "FAILED", "PUBLISHING"}

\* its locks are granted
BeginPublication(w) ==
  /\ pc[w] = "beginning"
  /\ LET v == version[w] IN
     CASE status = "RESULTS_PUBLISHED" /\ result[v] = "PUBLISHED" ->
            End(w, "ok") /\ UNCHANGED <<publication, audit>>
       [] status = "COUNTING" /\ result[v] = "VALIDATED" /\ package[v] = "VERIFIED"
          /\ Publishable(v) ->
            /\ publication' = [publication EXCEPT ![v] = "PUBLISHING"]
            /\ audit' = IF publication[v] = "PUBLISHING" THEN audit
                        ELSE [audit EXCEPT ![v] = @ \cup {"started"}]
            /\ Goto(w, "verifying", v)
       [] OTHER ->
            End(w, "RESULT_PUBLICATION_REJECTED") /\ UNCHANGED <<publication, audit>>
  /\ UNCHANGED <<status, frozen, tally, result, package, intact, corruptions, crashes>>

\* verifyElectionPackage reads the files again, outside any transaction
VerifyPackage(w) ==
  /\ pc[w] = "verifying"
  /\ Goto(w, IF version[w] \in intact THEN "reselecting" ELSE "failing", version[w])
  /\ UNCHANGED <<status, frozen, tally, evidence, intact, audit, corruptions, crashes>>

\* Mutant of FailPublication: the failure is recorded whatever became of the publication.
FailAnyPublication(w) ==
  /\ pc[w] = "failing"
  /\ publication' = [publication EXCEPT ![version[w]] = "FAILED"]
  /\ audit' = [audit EXCEPT ![version[w]] = @ \cup {"failed"}]
  /\ End(w, "RESULT_PUBLICATION_REJECTED")
  /\ UNCHANGED <<status, frozen, tally, result, package, intact, corruptions, crashes>>

\* the failure is recorded, unless the publication is no longer PUBLISHING; the
\* audit event result_publication_failed is appended in any case
FailPublication(w) ==
  /\ pc[w] = "failing"
  /\ LET v == version[w] IN
     /\ publication' = IF publication[v] = "PUBLISHING"
                       THEN [publication EXCEPT ![v] = "FAILED"] ELSE publication
     /\ audit' = [audit EXCEPT ![v] = @ \cup {"failed"}]
  /\ End(w, "RESULT_PUBLICATION_REJECTED")
  /\ UNCHANGED <<status, frozen, tally, result, package, intact, corruptions, crashes>>

\* the second locking statement starts; it too chooses the latest version
Reselect(w) ==
  /\ pc[w] = "reselecting"
  /\ \E v \in Latest :
       IF v = version[w] THEN Goto(w, "finishing", v)
       ELSE End(w, IF status = "RESULTS_PUBLISHED" /\ result[v] = "PUBLISHED"
                   THEN "ok" ELSE "RESULT_VERSION_CONFLICT")
  /\ UNCHANGED <<status, frozen, tally, evidence, intact, audit, corruptions, crashes>>

\* Mutant of FinishPublication: what was checked before the package was verified is
\* not checked again.
FinishUnchecked(w) ==
  /\ pc[w] = "finishing"
  /\ result' = [result EXCEPT ![version[w]] = "PUBLISHED"]
  /\ tally' = [tally EXCEPT !.status = "PUBLISHED"]
  /\ package' = [package EXCEPT ![version[w]] = "PUBLISHED"]
  /\ publication' = [publication EXCEPT ![version[w]] = "PUBLISHED"]
  /\ status' = "RESULTS_PUBLISHED"
  /\ audit' = [audit EXCEPT ![version[w]] = @ \cup {"published"}]
  /\ End(w, "ok")
  /\ UNCHANGED <<frozen, intact, corruptions, crashes>>

\* its locks are granted: result, tally, package, publication and election change together
FinishPublication(w) ==
  /\ pc[w] = "finishing"
  /\ LET v == version[w] IN
     CASE status = "RESULTS_PUBLISHED" /\ result[v] = "PUBLISHED" ->
            End(w, "ok") /\ UNCHANGED <<status, tally, evidence, audit>>
       [] status = "COUNTING" /\ result[v] = "VALIDATED" /\ package[v] = "VERIFIED"
          /\ publication[v] = "PUBLISHING" ->
            /\ result' = [result EXCEPT ![v] = "PUBLISHED"]
            /\ tally' = [tally EXCEPT !.status = "PUBLISHED"]
            /\ package' = [package EXCEPT ![v] = "PUBLISHED"]
            /\ publication' = [publication EXCEPT ![v] = "PUBLISHED"]
            /\ status' = "RESULTS_PUBLISHED"
            /\ audit' = [audit EXCEPT ![v] = @ \cup {"published"}]
            /\ End(w, "ok")
       [] OTHER ->
            End(w, "RESULT_VERSION_CONFLICT") /\ UNCHANGED <<status, tally, evidence, audit>>
  /\ UNCHANGED <<frozen, intact, corruptions, crashes>>
-----------------------------------------------------------------------------
\* The election may be cancelled until its results are published; the elections
\* service compares the row version it loaded, which each transition bumps.
Cancel ==
  /\ status \in {"CLOSED", "COUNTING"}
  /\ status' = "CANCELLED"
  /\ UNCHANGED <<frozen, tally, evidence, intact, audit, handler, corruptions, crashes>>

\* the files of a package are damaged, or restored from a copy
Corrupt(v) ==
  /\ v \in Recorded /\ corruptions < MaxCorruptions
  /\ intact' = IF v \in intact THEN intact \ {v} ELSE intact \cup {v}
  /\ corruptions' = corruptions + 1
  /\ UNCHANGED <<status, frozen, tally, evidence, audit, handler, crashes>>

\* the instance dies, a query fails before its COMMIT or an answer is lost
Crash(w) ==
  /\ pc[w] # "idle" /\ crashes < MaxCrashes
  /\ crashes' = crashes + 1
  /\ End(w, "lost")
  /\ UNCHANGED <<status, frozen, tally, evidence, intact, audit, corruptions>>

Progress(w) ==
  \/ CheckExisting(w) \/ CollectEvidence(w) \/ NumberResult(w) \/ RecordResult(w)
  \/ Select(w) \/ BeginPublication(w) \/ VerifyPackage(w) \/ FailPublication(w)
  \/ Reselect(w) \/ FinishPublication(w)

Next ==
  \/ \E w \in Workers : \/ EnterCounting(w) \/ ComputeTally(w)
                       \/ Request(w, "checking") \/ Request(w, "selecting")
                       \/ Progress(w) \/ Crash(w)
  \/ \E v \in Versions : Corrupt(v)
  \/ Cancel

Spec == Init /\ [][Next]_vars

\* An instance goes on with a request it has accepted, and the administrators
\* repeat publishResults for as long as it takes.
FairSpec ==
  /\ Spec
  /\ \A w \in Workers : WF_vars(Progress(w)) /\ SF_vars(Request(w, "selecting"))
-----------------------------------------------------------------------------
\* Properties.

\* At most one result version is ever PUBLISHED; it is there exactly when the
\* election is RESULTS_PUBLISHED, together with its package, its publication and
\* the tally of the frozen vote set: no crash or race leaves half a publication.
PublicationIsAtomic ==
  LET published == {v \in Versions : result[v] = "PUBLISHED"} IN
  /\ \A u, v \in published : u = v
  /\ status = "RESULTS_PUBLISHED" <=> published # {}
  /\ {v \in Versions : package[v] = "PUBLISHED"} = published
  /\ {v \in Versions : publication[v] = "PUBLISHED"} = published
  /\ tally.status = "PUBLISHED" <=> published # {}

\* Every recorded result rests on the tally of the frozen set, which is every
\* accepted vote, in an election that is or was counting.
ResultsRestOnTally ==
  Recorded # {} => /\ tally.status # "none" /\ tally.votes = VoteSet /\ frozen = VoteSet
                   /\ status # "CLOSED"

\* The audit trail accounts for every publication: one that is under way or over
\* was announced, a FAILED one has a failure on record, and exactly the PUBLISHED
\* one is reported as published.
AuditTellsTheOutcome ==
  \A v \in Versions :
    /\ publication[v] \in {"PUBLISHING", "FAILED", "PUBLISHED"} => "started" \in audit[v]
    /\ publication[v] = "FAILED" => "failed" \in audit[v]
    /\ publication[v] = "PUBLISHED" <=> "published" \in audit[v]

\* What is published, cancelled or frozen stays so.
OutcomeIsFinal ==
  [][/\ status \in {"RESULTS_PUBLISHED", "CANCELLED"} => status' = status
     /\ frozen # NoVotes => frozen' = frozen
     /\ tally.status # "none" => tally'.votes = tally.votes
     /\ \A v \in Versions : result[v] = "PUBLISHED" => result'[v] = "PUBLISHED"]_vars

\* A recorded result whose package verifies from some time on is published, unless
\* the election is cancelled: no crash, no failed attempt and no competing request
\* leaves a publication that cannot be taken up again.
PublicationCompletes ==
  <>[](Latest # {} /\ Latest \subseteq intact) => <>(status \in {"RESULTS_PUBLISHED", "CANCELLED"})

\* Concurrent generations end with one result version.
SingleLogicalVersion == \A u, v \in Recorded : u = v

-----------------------------------------------------------------------------
\* The inductive invariant behind the properties: the rows of a version are written
\* together, the tally is that of the frozen set, and what a worker that is past a
\* check may rely on.

RowsInv ==
  \A v \in Versions : /\ result[v] = "none" <=> package[v] = "none"
                      /\ result[v] = "none" <=> publication[v] = "none"

CountInv ==
  /\ status \in {"COUNTING", "RESULTS_PUBLISHED"} => frozen = VoteSet
  /\ tally.status # "none" => /\ tally.votes = VoteSet /\ frozen = VoteSet
                              /\ status # "CLOSED"

WorkersInv ==
  \A w \in Workers :
    /\ pc[w] = "numbering" => tally.status # "none"
    /\ pc[w] = "recording" => version[w] \in Versions /\ tally.status # "none"
    /\ pc[w] \in {"beginning", "verifying", "failing", "reselecting", "finishing"} =>
         version[w] \in Recorded

IInv == /\ TypeOK /\ RowsInv /\ CountInv /\ WorkersInv
        /\ PublicationIsAtomic /\ ResultsRestOnTally /\ AuditTellsTheOutcome
=============================================================================
