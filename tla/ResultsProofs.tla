---------------------------- MODULE ResultsProofs ----------------------------
(***************************************************************************)
(* Proofs about Results for any number of workers, versions, crashes and   *)
(* damaged packages, and any vote set.                                     *)
(***************************************************************************)
EXTENDS Results, TLAPS

USE ResultsAssumption DEF evidence, handler, Versions

\* the part of the invariant that speaks of the database alone
DataInv == RowsInv /\ CountInv /\ PublicationIsAtomic /\ ResultsRestOnTally /\ AuditTellsTheOutcome

data == <<status, frozen, tally, evidence, audit>>

Labels == {"idle", "checking", "collecting", "numbering", "recording", "selecting", "beginning",
           "verifying", "failing", "reselecting", "finishing"}

HandlerTypes == /\ pc \in [Workers -> Labels]
                /\ version \in [Workers -> 0 .. MaxVersions]
                /\ answer \in [Workers -> Answers]

LEMMA EndTypes ==
  ASSUME TypeOK, NEW w \in Workers, NEW x \in Answers, End(w, x) PROVE HandlerTypes'
  BY DEF TypeOK, HandlerTypes, End, Labels

LEMMA InitInv == Init => IInv
  <1> SUFFICES ASSUME Init PROVE IInv OBVIOUS
  <1> USE DEF Init
  <1>1. TypeOK BY DEF TypeOK, Answers
  <1>2. RowsInv /\ CountInv /\ WorkersInv BY DEF RowsInv, CountInv, WorkersInv
  <1>3. PublicationIsAtomic BY DEF PublicationIsAtomic
  <1>4. ResultsRestOnTally BY DEF ResultsRestOnTally, Recorded
  <1>5. AuditTellsTheOutcome BY DEF AuditTellsTheOutcome
  <1> QED BY <1>1, <1>2, <1>3, <1>4, <1>5 DEF IInv

LEMMA DataUnchanged == ASSUME DataInv, UNCHANGED data PROVE DataInv'
  BY DEF DataInv, data, RowsInv, CountInv, PublicationIsAtomic, ResultsRestOnTally,
         AuditTellsTheOutcome, Recorded

\* What the workers rely on survives every step that keeps the recorded versions and
\* the tally.
LEMMA EndKeepsWorkers ==
  ASSUME TypeOK, WorkersInv, NEW w \in Workers, NEW x, End(w, x),
         Recorded \subseteq Recorded', tally.status # "none" => tally'.status # "none"
  PROVE  WorkersInv'
  BY DEF TypeOK, WorkersInv, End

LEMMA GotoKeepsWorkers ==
  ASSUME TypeOK, WorkersInv, NEW w \in Workers, NEW label, NEW v, Goto(w, label, v),
         Recorded \subseteq Recorded', tally.status # "none" => tally'.status # "none",
         label = "numbering" => tally'.status # "none",
         label = "recording" => v \in Versions /\ tally'.status # "none",
         label \in {"beginning", "verifying", "failing", "reselecting", "finishing"} =>
           v \in Recorded'
  PROVE  WorkersInv'
  BY DEF TypeOK, WorkersInv, Goto

\* A step of a handler that changes no row.
LEMMA QuietEnd ==
  ASSUME IInv, NEW w \in Workers, NEW x \in Answers, End(w, x), UNCHANGED <<data, intact>>,
         corruptions' = corruptions, crashes' \in 0 .. MaxCrashes
  PROVE  IInv'
  <1>1. TypeOK' BY DEF IInv, TypeOK, End, data
  <1>2. WorkersInv' BY EndKeepsWorkers DEF IInv, data, Recorded
  <1>3. DataInv' BY DataUnchanged DEF IInv, DataInv, data
  <1> QED BY <1>1, <1>2, <1>3 DEF IInv, DataInv

LEMMA QuietGoto ==
  ASSUME IInv, NEW w \in Workers, NEW label \in Labels, NEW v \in 0 .. MaxVersions,
         Goto(w, label, v), UNCHANGED <<data, intact, corruptions, crashes>>,
         label = "numbering" => tally.status # "none",
         label = "recording" => v \in Versions /\ tally.status # "none",
         label \in {"beginning", "verifying", "failing", "reselecting", "finishing"} =>
           v \in Recorded
  PROVE  IInv'
  <1>1. TypeOK' BY DEF IInv, TypeOK, Goto, data, Labels
  <1>2. WorkersInv' BY GotoKeepsWorkers DEF IInv, data, Recorded
  <1>3. DataInv' BY DataUnchanged DEF IInv, DataInv, data
  <1> QED BY <1>1, <1>2, <1>3 DEF IInv, DataInv

LEMMA RequestInv ==
  ASSUME IInv, NEW w \in Workers, NEW label \in {"checking", "selecting"}, Request(w, label)
  PROVE  IInv'
  BY QuietGoto DEF Request, data, Labels

LEMMA EnterCountingInv == ASSUME IInv, NEW w \in Workers, EnterCounting(w) PROVE IInv'
  <1>1. CASE \E x \in Answers : End(w, x) /\ UNCHANGED <<status, frozen>>
    BY <1>1, QuietEnd DEF EnterCounting, data, IInv, TypeOK
  <1>2. CASE status = "CLOSED" /\ frozen' = VoteSet /\ status' = "COUNTING" /\ End(w, "ok")
    <2>0. UNCHANGED <<tally, evidence, intact, audit, corruptions, crashes>> BY DEF EnterCounting
    <2> USE <1>2, <2>0 DEF IInv
    <2>1. Recorded = {} /\ Recorded' = {} BY DEF ResultsRestOnTally, Recorded
    <2>2. tally.status = "none" BY DEF CountInv
    <2>3. TypeOK' BY EndTypes DEF TypeOK, HandlerTypes, Labels, Answers
    <2>4. WorkersInv' BY <2>1, EndKeepsWorkers
    <2>5. RowsInv' /\ CountInv' /\ ResultsRestOnTally'
      BY <2>1, <2>2 DEF RowsInv, CountInv, ResultsRestOnTally
    <2>6. PublicationIsAtomic' BY DEF PublicationIsAtomic
    <2>7. AuditTellsTheOutcome' BY DEF AuditTellsTheOutcome
    <2> QED BY <2>3, <2>4, <2>5, <2>6, <2>7
  <1>3. CASE status \in {"COUNTING", "RESULTS_PUBLISHED"}
    <2>1. /\ End(w, IF frozen = NoVotes THEN "FINAL_VOTE_SET_CONFLICT" ELSE "ok")
          /\ UNCHANGED <<status, frozen>>
      BY <1>3 DEF EnterCounting
    <2> QED BY <2>1, <1>1 DEF Answers
  <1>4. CASE status = "CANCELLED"
    <2>1. End(w, "ELECTION_NOT_CLOSED") /\ UNCHANGED <<status, frozen>>
      BY <1>4 DEF EnterCounting
    <2> QED BY <2>1, <1>1 DEF Answers
  <1> QED BY <1>2, <1>3, <1>4 DEF EnterCounting

LEMMA ComputeTallyInv == ASSUME IInv, NEW w \in Workers, ComputeTally(w) PROVE IInv'
  <1>1. CASE \E x \in Answers : End(w, x) /\ UNCHANGED tally
    BY <1>1, QuietEnd DEF ComputeTally, data, IInv, TypeOK
  <1>2. CASE /\ status \in {"COUNTING", "RESULTS_PUBLISHED"} /\ frozen = VoteSet
             /\ tally.status = "none" /\ tally' = [status |-> "VALIDATED", votes |-> frozen]
             /\ End(w, "ok")
    <2>0. UNCHANGED <<status, frozen, evidence, intact, audit, corruptions, crashes>>
      BY DEF ComputeTally
    <2> USE <1>2, <2>0 DEF IInv
    <2>1. Recorded = {} /\ Recorded' = {} BY DEF ResultsRestOnTally, Recorded
    <2>2. TypeOK' BY EndTypes DEF TypeOK, HandlerTypes, Labels, Answers
    <2>3. WorkersInv' BY <2>1, EndKeepsWorkers
    <2>4. RowsInv' /\ CountInv' /\ ResultsRestOnTally'
      BY <2>1 DEF RowsInv, CountInv, ResultsRestOnTally
    <2>5. PublicationIsAtomic' BY <2>1 DEF PublicationIsAtomic, Recorded
    <2>6. AuditTellsTheOutcome' BY DEF AuditTellsTheOutcome
    <2> QED BY <2>2, <2>3, <2>4, <2>5, <2>6
  <1>3. CASE status \notin {"COUNTING", "RESULTS_PUBLISHED"}
    <2>1. End(w, "ELECTION_NOT_COUNTING") /\ UNCHANGED tally
      BY <1>3 DEF ComputeTally
    <2> QED BY <2>1, <1>1 DEF Answers
  <1>4. CASE status \in {"COUNTING", "RESULTS_PUBLISHED"}
    <2>1. frozen = VoteSet BY <1>4 DEF IInv, CountInv
    <2>2. tally' = (IF tally.status = "none" THEN [status |-> "VALIDATED", votes |-> frozen]
                    ELSE tally) /\ End(w, "ok")
      BY <1>4, <2>1 DEF ComputeTally
    <2>3. CASE tally.status = "none" BY <1>2, <1>4, <2>1, <2>2, <2>3
    <2>4. CASE tally.status # "none" BY <1>1, <2>2, <2>4 DEF Answers
    <2> QED BY <2>3, <2>4
  <1> QED BY <1>3, <1>4

LEMMA CheckExistingInv == ASSUME IInv, NEW w \in Workers, CheckExisting(w) PROVE IInv'
  <1>1. UNCHANGED <<data, intact, corruptions, crashes>> BY DEF CheckExisting, data
  <1>2. CASE Goto(w, "collecting", 0) BY <1>1, <1>2, QuietGoto DEF Labels
  <1>3. CASE \E x \in Answers : End(w, x) BY <1>1, <1>3, QuietEnd DEF IInv, TypeOK
  <1>4. CASE \E v \in Latest : End(w, IF v \in intact THEN "ok" ELSE "VERIFICATION_PACKAGE_INVALID")
    BY <1>3, <1>4 DEF Answers
  <1> QED BY <1>2, <1>4 DEF CheckExisting

LEMMA CollectEvidenceInv == ASSUME IInv, NEW w \in Workers, CollectEvidence(w) PROVE IInv'
  <1>1. UNCHANGED <<data, intact, corruptions, crashes>> BY DEF CollectEvidence, data
  <1>2. CASE Goto(w, "numbering", 0) /\ tally.status # "none"
    BY <1>1, <1>2, QuietGoto DEF Labels
  <1>3. CASE End(w, "INVALID_ELECTION_TRANSITION") \/ End(w, "RESULT_EVIDENCE_MISSING")
    BY <1>1, <1>3, QuietEnd DEF IInv, TypeOK, Answers
  <1> QED BY <1>2, <1>3 DEF CollectEvidence

LEMMA NumberResultInv == ASSUME IInv, NEW w \in Workers, NumberResult(w) PROVE IInv'
  <1>1. UNCHANGED <<data, intact, corruptions, crashes>> BY DEF NumberResult, data
  <1>2. PICK v \in NextVersion : Goto(w, "recording", v) BY DEF NumberResult
  <1>3. v \in Versions BY <1>2 DEF NextVersion
  <1>4. tally.status # "none" BY DEF NumberResult, IInv, WorkersInv
  <1> QED BY <1>1, <1>2, <1>3, <1>4, QuietGoto DEF Labels

LEMMA RecordResultInv == ASSUME IInv, NEW w \in Workers, RecordResult(w) PROVE IInv'
  <1> DEFINE v == version[w]
  <1>1. CASE \E x \in Answers : End(w, x) /\ UNCHANGED <<evidence, intact>>
    BY <1>1, QuietEnd DEF RecordResult, data, IInv, TypeOK
  <1>2. CASE /\ status = "COUNTING" /\ result[v] = "none"
             /\ result' = [result EXCEPT ![v] = "VALIDATED"]
             /\ package' = [package EXCEPT ![v] = "VERIFIED"]
             /\ publication' = [publication EXCEPT ![v] = "VERIFIED"]
             /\ intact' = intact \cup {v}
             /\ End(w, "ok")
    <2>0. pc[w] = "recording" /\ UNCHANGED <<status, frozen, tally, audit, corruptions, crashes>>
      BY DEF RecordResult
    <2> USE <1>2, <2>0 DEF IInv
    <2>1. v \in Versions /\ tally.status # "none" BY DEF WorkersInv
    <2>2. TypeOK' BY <2>1, EndTypes DEF TypeOK, HandlerTypes, Labels, Answers
    <2>3. Recorded \subseteq Recorded' BY <2>1 DEF Recorded, TypeOK
    <2>4. WorkersInv' BY <2>3, EndKeepsWorkers
    <2>5. RowsInv' BY <2>1 DEF RowsInv, TypeOK
    <2>6. CountInv' BY DEF CountInv
    <2>7. ResultsRestOnTally' BY <2>1 DEF CountInv, ResultsRestOnTally
    <2>8. \A u \in Versions : /\ result'[u] = "PUBLISHED" <=> result[u] = "PUBLISHED"
                              /\ package'[u] = "PUBLISHED" <=> package[u] = "PUBLISHED"
                              /\ publication'[u] = "PUBLISHED" <=> publication[u] = "PUBLISHED"
      BY <2>1 DEF RowsInv, TypeOK
    <2>9. PublicationIsAtomic' BY <2>8 DEF PublicationIsAtomic
    <2>10. AuditTellsTheOutcome' BY <2>1 DEF AuditTellsTheOutcome, RowsInv, TypeOK
    <2> QED BY <2>2, <2>4, <2>5, <2>6, <2>7, <2>9, <2>10
  <1>3. CASE status # "COUNTING"
    <2>1. End(w, "ELECTION_CHANGED") /\ UNCHANGED <<evidence, intact>>
      BY <1>3 DEF RecordResult
    <2> QED BY <2>1, <1>1 DEF Answers
  <1>4. CASE status = "COUNTING" /\ result[v] # "none"
    <2>1. End(w, "duplicate key") /\ UNCHANGED <<evidence, intact>>
      BY <1>4 DEF RecordResult
    <2> QED BY <2>1, <1>1 DEF Answers
  <1>5. CASE status = "COUNTING" /\ result[v] = "none" BY <1>5, <1>2 DEF RecordResult
  <1> QED BY <1>3, <1>4, <1>5

LEMMA SelectInv == ASSUME IInv, NEW w \in Workers, Select(w) PROVE IInv'
  <1>1. UNCHANGED <<data, intact, corruptions, crashes>> BY DEF Select, data
  <1>2. CASE End(w, "RESULT_EVIDENCE_MISSING")
    BY <1>1, <1>2, QuietEnd DEF IInv, TypeOK, Answers
  <1>3. CASE \E v \in Latest : Goto(w, "beginning", v)
    <2>1. PICK v \in Latest : Goto(w, "beginning", v) BY <1>3
    <2>2. v \in Recorded /\ v \in 0 .. MaxVersions BY DEF Latest, Recorded
    <2> QED BY <1>1, <2>1, <2>2, QuietGoto DEF Labels
  <1> QED BY <1>2, <1>3 DEF Select

LEMMA BeginPublicationInv == ASSUME IInv, NEW w \in Workers, BeginPublication(w) PROVE IInv'
  <1> DEFINE v == version[w]
  <1>0. /\ pc[w] = "beginning"
        /\ UNCHANGED <<status, frozen, tally, result, package, intact, corruptions, crashes>>
    BY DEF BeginPublication
  <1>1. CASE \E x \in Answers : End(w, x) /\ UNCHANGED <<publication, audit>>
    BY <1>0, <1>1, QuietEnd DEF data, IInv, TypeOK
  <1>2. CASE /\ status = "COUNTING" /\ result[v] = "VALIDATED" /\ Publishable(v)
             /\ publication' = [publication EXCEPT ![v] = "PUBLISHING"]
             /\ audit' = IF publication[v] = "PUBLISHING" THEN audit
                         ELSE [audit EXCEPT ![v] = @ \cup {"started"}]
             /\ Goto(w, "verifying", v)
    <2> USE <1>2, <1>0 DEF IInv
    <2>1. v \in Recorded /\ v \in Versions BY DEF WorkersInv, Recorded
    <2>2. TypeOK' BY <2>1 DEF TypeOK, Goto
    <2>3. Recorded' = Recorded BY DEF Recorded
    <2>4. WorkersInv' BY <2>1, <2>3, GotoKeepsWorkers
    <2>5. RowsInv' BY <2>1 DEF RowsInv, TypeOK
    <2>6. CountInv' /\ ResultsRestOnTally' BY <2>3 DEF CountInv, ResultsRestOnTally
    <2>7. \A u \in Versions : publication'[u] = "PUBLISHED" <=> publication[u] = "PUBLISHED"
      BY <2>1 DEF Publishable, TypeOK
    <2>8. PublicationIsAtomic' BY <2>7 DEF PublicationIsAtomic
    <2>9. AuditTellsTheOutcome' BY <2>1, <2>7 DEF AuditTellsTheOutcome, TypeOK
    <2> QED BY <2>2, <2>4, <2>5, <2>6, <2>8, <2>9
  <1>3. CASE status = "RESULTS_PUBLISHED" /\ result[v] = "PUBLISHED"
    <2>1. End(w, "ok") /\ UNCHANGED <<publication, audit>> BY <1>3 DEF BeginPublication
    <2> QED BY <2>1, <1>1 DEF Answers
  <1>4. CASE /\ status = "COUNTING" /\ result[v] = "VALIDATED" /\ package[v] = "VERIFIED"
             /\ Publishable(v)
    BY <1>4, <1>2 DEF BeginPublication
  <1>5. CASE /\ ~(status = "RESULTS_PUBLISHED" /\ result[v] = "PUBLISHED")
             /\ ~(/\ status = "COUNTING" /\ result[v] = "VALIDATED" /\ package[v] = "VERIFIED"
                  /\ Publishable(v))
    <2>1. End(w, "RESULT_PUBLICATION_REJECTED") /\ UNCHANGED <<publication, audit>>
      BY <1>5 DEF BeginPublication
    <2> QED BY <2>1, <1>1 DEF Answers
  <1> QED BY <1>3, <1>4, <1>5

LEMMA VerifyPackageInv == ASSUME IInv, NEW w \in Workers, VerifyPackage(w) PROVE IInv'
  <1>1. UNCHANGED <<data, intact, corruptions, crashes>> BY DEF VerifyPackage, data
  <1>2. version[w] \in Recorded /\ version[w] \in 0 .. MaxVersions
    BY DEF VerifyPackage, IInv, WorkersInv, TypeOK
  <1>3. PICK label \in {"reselecting", "failing"} : Goto(w, label, version[w])
    BY DEF VerifyPackage
  <1> QED BY <1>1, <1>2, <1>3, QuietGoto DEF Labels

LEMMA FailPublicationInv == ASSUME IInv, NEW w \in Workers, FailPublication(w) PROVE IInv'
  <1> DEFINE v == version[w]
  <1>0. /\ pc[w] = "failing"
        /\ UNCHANGED <<status, frozen, tally, result, package, intact, corruptions, crashes>>
        /\ publication' = IF publication[v] = "PUBLISHING"
                          THEN [publication EXCEPT ![v] = "FAILED"] ELSE publication
        /\ audit' = [audit EXCEPT ![v] = @ \cup {"failed"}]
        /\ End(w, "RESULT_PUBLICATION_REJECTED")
    BY DEF FailPublication
  <1> USE <1>0 DEF IInv
  <1>1. v \in Recorded /\ v \in Versions BY DEF WorkersInv, Recorded
  <1>2. HandlerTypes' BY EndTypes DEF Answers
  <1>3. TypeOK' BY <1>1, <1>2 DEF TypeOK, HandlerTypes, Labels
  <1>4. Recorded' = Recorded BY DEF Recorded
  <1>5. WorkersInv' BY <1>4, EndKeepsWorkers
  <1>6. RowsInv' BY <1>1 DEF RowsInv, TypeOK
  <1>7. CountInv' /\ ResultsRestOnTally' BY <1>4 DEF CountInv, ResultsRestOnTally
  <1>8. \A u \in Versions : publication'[u] = "PUBLISHED" <=> publication[u] = "PUBLISHED"
    BY <1>1 DEF TypeOK
  <1>9. PublicationIsAtomic' BY <1>8 DEF PublicationIsAtomic
  <1>10. AuditTellsTheOutcome' BY <1>1, <1>8 DEF AuditTellsTheOutcome, TypeOK
  <1> QED BY <1>3, <1>5, <1>6, <1>7, <1>9, <1>10

LEMMA ReselectInv == ASSUME IInv, NEW w \in Workers, Reselect(w) PROVE IInv'
  <1>1. UNCHANGED <<data, intact, corruptions, crashes>> BY DEF Reselect, data
  <1>2. PICK v \in Latest :
          IF v = version[w] THEN Goto(w, "finishing", v)
          ELSE End(w, IF status = "RESULTS_PUBLISHED" /\ result[v] = "PUBLISHED"
                      THEN "ok" ELSE "RESULT_VERSION_CONFLICT")
    BY DEF Reselect
  <1>3. v \in Recorded /\ v \in 0 .. MaxVersions BY <1>2 DEF Latest, Recorded
  <1>4. CASE Goto(w, "finishing", v) BY <1>1, <1>3, <1>4, QuietGoto DEF Labels
  <1>5. CASE \E x \in {"ok", "RESULT_VERSION_CONFLICT"} : End(w, x)
    BY <1>1, <1>5, QuietEnd DEF IInv, TypeOK, Answers
  <1> QED BY <1>2, <1>4, <1>5

LEMMA FinishPublicationInv == ASSUME IInv, NEW w \in Workers, FinishPublication(w) PROVE IInv'
  <1> DEFINE v == version[w]
  <1>0. pc[w] = "finishing" /\ UNCHANGED <<frozen, intact, corruptions, crashes>>
    BY DEF FinishPublication
  <1>1. CASE \E x \in Answers : End(w, x) /\ UNCHANGED <<status, tally, evidence, audit>>
    BY <1>0, <1>1, QuietEnd DEF data, IInv, TypeOK
  <1>2. CASE /\ status = "COUNTING" /\ publication[v] = "PUBLISHING"
             /\ result' = [result EXCEPT ![v] = "PUBLISHED"]
             /\ tally' = [tally EXCEPT !.status = "PUBLISHED"]
             /\ package' = [package EXCEPT ![v] = "PUBLISHED"]
             /\ publication' = [publication EXCEPT ![v] = "PUBLISHED"]
             /\ status' = "RESULTS_PUBLISHED"
             /\ audit' = [audit EXCEPT ![v] = @ \cup {"published"}]
             /\ End(w, "ok")
    <2> USE <1>2, <1>0 DEF IInv
    <2>1. v \in Recorded /\ v \in Versions BY DEF WorkersInv, Recorded
    <2>2. TypeOK' BY <2>1, EndTypes DEF TypeOK, HandlerTypes, Labels, Answers
    <2>3. Recorded' = Recorded BY <2>1 DEF Recorded, TypeOK
    <2>4. tally'.status = "PUBLISHED" /\ tally'.votes = tally.votes BY DEF TypeOK
    <2>5. WorkersInv' BY <2>3, <2>4, EndKeepsWorkers
    <2>6. RowsInv' BY <2>1 DEF RowsInv, TypeOK, Recorded
    <2>7. CountInv' /\ ResultsRestOnTally'
      BY <2>1, <2>3, <2>4 DEF CountInv, ResultsRestOnTally
    <2>8. \A u \in Versions : /\ result[u] # "PUBLISHED" /\ package[u] # "PUBLISHED"
                              /\ publication[u] # "PUBLISHED"
      BY DEF PublicationIsAtomic
    <2>9. \A u \in Versions : /\ result'[u] = "PUBLISHED" <=> u = v
                              /\ package'[u] = "PUBLISHED" <=> u = v
                              /\ publication'[u] = "PUBLISHED" <=> u = v
      BY <2>1, <2>8 DEF TypeOK
    <2>10. PublicationIsAtomic' BY <2>1, <2>4, <2>9 DEF PublicationIsAtomic
    <2>11. AuditTellsTheOutcome' BY <2>1, <2>8 DEF AuditTellsTheOutcome, TypeOK
    <2> QED BY <2>2, <2>5, <2>6, <2>7, <2>10, <2>11
  <1>3. CASE status = "RESULTS_PUBLISHED" /\ result[v] = "PUBLISHED"
    <2>1. End(w, "ok") /\ UNCHANGED <<status, tally, evidence, audit>>
      BY <1>3 DEF FinishPublication
    <2> QED BY <2>1, <1>1 DEF Answers
  <1>4. CASE /\ status = "COUNTING" /\ result[v] = "VALIDATED" /\ package[v] = "VERIFIED"
             /\ publication[v] = "PUBLISHING"
    BY <1>4, <1>2 DEF FinishPublication
  <1>5. CASE /\ ~(status = "RESULTS_PUBLISHED" /\ result[v] = "PUBLISHED")
             /\ ~(/\ status = "COUNTING" /\ result[v] = "VALIDATED" /\ package[v] = "VERIFIED"
                  /\ publication[v] = "PUBLISHING")
    <2>1. End(w, "RESULT_VERSION_CONFLICT") /\ UNCHANGED <<status, tally, evidence, audit>>
      BY <1>5 DEF FinishPublication
    <2> QED BY <2>1, <1>1 DEF Answers
  <1> QED BY <1>3, <1>4, <1>5

LEMMA CancelInv == ASSUME IInv, Cancel PROVE IInv'
  <1> USE DEF IInv, Cancel
  <1>1. Recorded' = Recorded BY DEF Recorded
  <1>2. TypeOK' BY DEF TypeOK
  <1>3. WorkersInv' BY <1>1 DEF WorkersInv
  <1>4. RowsInv' /\ CountInv' /\ ResultsRestOnTally' BY <1>1 DEF RowsInv, CountInv, ResultsRestOnTally
  <1>5. PublicationIsAtomic' BY DEF PublicationIsAtomic
  <1>6. AuditTellsTheOutcome' BY DEF AuditTellsTheOutcome
  <1> QED BY <1>2, <1>3, <1>4, <1>5, <1>6

LEMMA CorruptInv == ASSUME IInv, NEW v \in Versions, Corrupt(v) PROVE IInv'
  <1>1. TypeOK' BY DEF IInv, TypeOK, Corrupt
  <1>2. WorkersInv' BY DEF IInv, WorkersInv, Corrupt, Recorded
  <1>3. DataInv' BY DataUnchanged DEF IInv, DataInv, Corrupt, data
  <1> QED BY <1>1, <1>2, <1>3 DEF IInv, DataInv

LEMMA CrashInv == ASSUME IInv, NEW w \in Workers, Crash(w) PROVE IInv'
  <1>1. crashes' \in 0 .. MaxCrashes BY DEF Crash, IInv, TypeOK
  <1> QED BY <1>1, QuietEnd DEF Crash, data, Answers

LEMMA NextInv == ASSUME IInv, [Next]_vars PROVE IInv'
  <1>1. CASE UNCHANGED vars
    <2>1. TypeOK' BY <1>1 DEF vars, IInv, TypeOK
    <2>2. WorkersInv' BY <1>1 DEF vars, IInv, WorkersInv, Recorded
    <2>3. DataInv' BY <1>1, DataUnchanged DEF vars, IInv, DataInv, data
    <2> QED BY <2>1, <2>2, <2>3 DEF IInv, DataInv
  <1>2. ASSUME NEW w \in Workers, Progress(w) PROVE IInv'
    BY <1>2, CheckExistingInv, CollectEvidenceInv, NumberResultInv, RecordResultInv, SelectInv,
       BeginPublicationInv, VerifyPackageInv, FailPublicationInv, ReselectInv, FinishPublicationInv
       DEF Progress
  <1>3. ASSUME NEW w \in Workers, Request(w, "checking") \/ Request(w, "selecting") PROVE IInv'
    BY <1>3, RequestInv
  <1> QED BY <1>1, <1>2, <1>3, EnterCountingInv, ComputeTallyInv, CrashInv, CorruptInv, CancelInv
          DEF Next

\* The inductive invariant holds in every reachable state.
THEOREM Invariance == Spec => []IInv
  BY InitInv, NextInv, PTL DEF Spec

\* Every variable keeps its type: every status is one its table admits.
THEOREM TypeCorrect == Spec => []TypeOK
  <1>1. IInv => TypeOK BY DEF IInv
  <1> QED BY <1>1, Invariance, PTL

\* publishResults changes the election, the result, the tally, the package and the
\* publication together or not at all, and for one version only.
THEOREM AtomicPublication == Spec => []PublicationIsAtomic
  <1>1. IInv => PublicationIsAtomic BY DEF IInv
  <1> QED BY <1>1, Invariance, PTL

\* No result is recorded but from the tally of the frozen vote set.
THEOREM ResultsFromTally == Spec => []ResultsRestOnTally
  <1>1. IInv => ResultsRestOnTally BY DEF IInv
  <1> QED BY <1>1, Invariance, PTL

\* The audit events account for the status of every publication.
THEOREM AuditedPublication == Spec => []AuditTellsTheOutcome
  <1>1. IInv => AuditTellsTheOutcome BY DEF IInv
  <1> QED BY <1>1, Invariance, PTL

\* What is published, cancelled, frozen or tallied stays so.
THEOREM FinalOutcome == Spec => OutcomeIsFinal
  <1> DEFINE Final ==
        /\ status \in {"RESULTS_PUBLISHED", "CANCELLED"} => status' = status
        /\ frozen # NoVotes => frozen' = frozen
        /\ tally.status # "none" => tally'.votes = tally.votes
        /\ \A v \in Versions : result[v] = "PUBLISHED" => result'[v] = "PUBLISHED"
  <1>1. ASSUME IInv, [Next]_vars PROVE [Final]_vars
    <2>1. CASE UNCHANGED vars BY <2>1
    <2>2. ASSUME NEW w \in Workers, EnterCounting(w) PROVE Final
      BY <2>2, <1>1 DEF EnterCounting, IInv, TypeOK
    <2>3. ASSUME NEW w \in Workers, ComputeTally(w) PROVE Final
      BY <2>3, <1>1 DEF ComputeTally
    <2>4. ASSUME NEW w \in Workers, RecordResult(w) PROVE Final
      <3>1. UNCHANGED <<status, frozen, tally>> BY <2>4 DEF RecordResult
      <3>2. \/ UNCHANGED result
            \/ result[version[w]] = "none" /\ result' = [result EXCEPT ![version[w]] = "VALIDATED"]
        BY <2>4 DEF RecordResult
      <3> QED BY <1>1, <3>1, <3>2 DEF IInv, TypeOK
    <2>5. ASSUME NEW w \in Workers, FinishPublication(w) PROVE Final
      <3>1. \/ UNCHANGED <<status, frozen, tally, result>>
            \/ /\ status = "COUNTING" /\ UNCHANGED frozen
               /\ tally' = [tally EXCEPT !.status = "PUBLISHED"]
               /\ result' = [result EXCEPT ![version[w]] = "PUBLISHED"]
        BY <2>5 DEF FinishPublication
      <3> QED BY <1>1, <3>1 DEF IInv, TypeOK
    <2>6. CASE UNCHANGED <<status, frozen, tally, result>> BY <2>6
    <2>7. CASE Cancel BY <2>7 DEF Cancel
    <2> QED BY <1>1, <2>1, <2>2, <2>3, <2>4, <2>5, <2>6, <2>7
            DEF Next, Progress, Request, CheckExisting, CollectEvidence, NumberResult, Select,
                BeginPublication, VerifyPackage, FailPublication, Reselect, Crash, Corrupt
  <1> QED BY <1>1, Invariance, PTL DEF Spec, OutcomeIsFinal
=============================================================================
