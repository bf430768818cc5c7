---------------------------- MODULE AdminAppProofs ----------------------------
(***************************************************************************)
(* Theorems about AdminApp, for any statuses to start from and any bounds. *)
(***************************************************************************)
EXTENDS AdminApp, TLAPS, SequenceTheorems

\* Every election of l is in m, with the statuses it had.
Extends(l, m) ==
  /\ DOMAIN l \subseteq DOMAIN m
  /\ \A e \in DOMAIN l : /\ DOMAIN l[e] \subseteq DOMAIN m[e]
                         /\ \A r \in DOMAIN l[e] : m[e][r] = l[e][r]

Logs == {l \in Seq(Seq(L!Status)) : \A e \in DOMAIN l : l[e] # <<>>}

\* What was there stays, and so does what promises and answers say of it.
LEMMA StillWas ==
  ASSUME NEW l, NEW m, Extends(l, m), NEW row, Was(l, row)
  PROVE  Was(m, row)
  BY DEF Extends, Was

LEMMA StillPromised ==
  ASSUME NEW l, NEW m, Extends(l, m), NEW p, PromiseInv(l, p)
  PROVE  PromiseInv(m, p)
  BY StillWas DEF Extends, PromiseInv

LEMMA StillAnswered ==
  ASSUME NEW l, NEW m, Extends(l, m), NEW p, AnswerInv(l, p)
  PROVE  AnswerInv(m, p)
  <1> USE DEF AnswerInv
  <1> SUFFICES ASSUME p.answer # None, p.answer.ok PROVE AnswerInv(m, p)
    OBVIOUS
  <1>1. CASE p.call \in {"create", "transition"}
    BY <1>1, StillWas
  <1>2. CASE p.call \in {"list", "relist"}
    <2>1. \A i \in DOMAIN p.answer.list : Was(m, p.answer.list[i])
      BY <1>2, StillWas
    <2> QED BY <1>2, <2>1
  <1> QED BY <1>1, <1>2

\* A log that gains a status of one election, or an election.
LEMMA StatusExtends ==
  ASSUME NEW l \in Logs, NEW e \in DOMAIN l, NEW s \in L!Status
  PROVE  LET m == [l EXCEPT ![e] = Append(@, s)] IN
         /\ m \in Logs /\ Extends(l, m)
         /\ Was(m, [id |-> e, status |-> s, revision |-> Len(l[e]) + 1])
  <1> DEFINE m == [l EXCEPT ![e] = Append(@, s)]
  <1>1. l \in Seq(Seq(L!Status)) /\ l[e] \in Seq(L!Status)
    BY ElementOfSeq DEF Logs
  <1>2. /\ Append(l[e], s) \in Seq(L!Status) /\ Append(l[e], s) # <<>>
        /\ DOMAIN Append(l[e], s) = 1 .. Len(l[e]) + 1
        /\ \A i \in 1 .. Len(l[e]) : Append(l[e], s)[i] = l[e][i]
        /\ Append(l[e], s)[Len(l[e]) + 1] = s
    BY <1>1, AppendProperties
  <1>3. m \in Seq(Seq(L!Status))
    BY <1>1, <1>2, ExceptSeq
  <1>4. \A f \in DOMAIN m : m[f] # <<>>
    BY <1>2 DEF Logs
  <1>5. Extends(l, m)
    BY <1>1, <1>2, LenProperties DEF Extends
  <1>6. Was(m, [id |-> e, status |-> s, revision |-> Len(l[e]) + 1])
    BY <1>1, <1>2, LenProperties DEF Was
  <1> QED BY <1>3, <1>4, <1>5, <1>6 DEF Logs

LEMMA ElectionExtends ==
  ASSUME NEW l \in Logs
  PROVE  LET m == Append(l, <<"DRAFT">>) IN
         /\ m \in Logs /\ Extends(l, m)
         /\ Was(m, [id |-> Len(m), status |-> "DRAFT", revision |-> 1])
  <1> DEFINE m == Append(l, <<"DRAFT">>)
  <1>1. l \in Seq(Seq(L!Status)) /\ <<"DRAFT">> \in Seq(L!Status)
    BY DEF Logs, L!Status
  <1>2. /\ m \in Seq(Seq(L!Status)) /\ Len(m) = Len(l) + 1
        /\ DOMAIN m = 1 .. Len(m) /\ DOMAIN l = 1 .. Len(l)
        /\ \A i \in 1 .. Len(l) : m[i] = l[i]
        /\ m[Len(l) + 1] = <<"DRAFT">>
    BY <1>1, AppendProperties, LenProperties
  <1>3. Len(l) \in Nat
    BY <1>1, LenProperties
  <1>4. \A f \in DOMAIN m : m[f] # <<>>
    BY <1>2, <1>3 DEF Logs
  <1>5. Extends(l, m)
    BY <1>2, <1>3 DEF Extends
  <1>6. Was(m, [id |-> Len(m), status |-> "DRAFT", revision |-> 1])
    BY <1>2, <1>3 DEF Was
  <1> QED BY <1>2, <1>4, <1>5, <1>6 DEF Logs

\* The row of an election as it is now was there.
LEMMA RowWas ==
  ASSUME log \in Logs, NEW e \in DOMAIN log
  PROVE  Row(e) \in Election /\ Was(log, Row(e)) /\ Row(e).id = e
         /\ Row(e).revision = Len(log[e])
  <1>1. log \in Seq(Seq(L!Status)) /\ log[e] \in Seq(L!Status) /\ log[e] # <<>>
    BY ElementOfSeq DEF Logs
  <1>2. Len(log[e]) \in Nat /\ Len(log[e]) \in DOMAIN log[e] /\ e \in Nat
    BY <1>1, LenProperties
  <1>3. log[e][Len(log[e])] \in L!Status
    BY <1>1, <1>2, ElementOfSeq
  <1> QED BY <1>2, <1>3 DEF Row, Election, Was

-----------------------------------------------------------------------------
\* What the page shows is made of what it is given.
LEMMA Rendered ==
  ASSUME TypeOK, ShownWasThere, DetailInv, UNCHANGED log,
         NEW here \in BOOLEAN, NEW election \in Election \cup {None},
         NEW list \in Seq(Election), NEW isBusy \in BOOLEAN,
         election # None => Was(log, election),
         \A i \in DOMAIN list : Was(log, list[i]),
         isBusy => here \/ busy,
         renderElectionList(here, election, list, isBusy)
  PROVE  /\ elections' \in Seq(Election) /\ cards' \in Seq(Election)
         /\ selected' \in Election \cup {None} /\ busy' = isBusy
         /\ detail' \in [election : Election, disabled : BOOLEAN] \cup {None}
         /\ ShownWasThere' /\ DetailInv'
  <1> USE DEF renderElectionList, panels
  <1>1. selected' \in Election \cup {None} /\ (selected' # None => Was(log, selected'))
    <2>1. CASE election # None \/ list = <<>>
      BY <2>1 DEF Chosen
    <2>2. CASE election = None /\ list # <<>>
      <3>1. list[1] \in Election /\ Was(log, list[1])
        BY <2>2, ElementOfSeq, LenProperties
      <3> QED BY <2>2, <3>1 DEF Chosen
    <2> QED BY <2>1, <2>2
  <1>2. /\ cards' \in Seq(Election) /\ \A i \in DOMAIN cards' : Was(log, cards'[i])
    BY DEF TypeOK, ShownWasThere
  <1>3. /\ detail' \in [election : Election, disabled : BOOLEAN] \cup {None}
        /\ detail' # None => Was(log, detail'.election)
    BY <1>1 DEF TypeOK, ShownWasThere
  <1>4. DetailInv'
    BY DEF DetailInv, TypeOK
  <1> QED BY <1>1, <1>2, <1>3, <1>4 DEF ShownWasThere

-----------------------------------------------------------------------------
\* Promises.  A promise may lose its screen, be given an answer, or be replaced by
\* what its handler waits for next.

SameButHere(b) ==
  \A u \in Tasks :
    /\ b[u] # None <=> tasks[u] # None
    /\ tasks[u] # None =>
         /\ b[u].kind = tasks[u].kind /\ b[u].call = tasks[u].call
         /\ b[u].election = tasks[u].election /\ b[u].outcome = tasks[u].outcome
         /\ b[u].answer = tasks[u].answer

LEMMA TasksAreTheSame == SameButHere(tasks)
  BY DEF SameButHere

LEMMA LeftIsTheSame ==
  ASSUME TypeOK
  PROVE  Left \in [Tasks -> Promise \cup {None}] /\ SameButHere(Left)
  <1>1. \A u \in Tasks : tasks[u] # None => [tasks[u] EXCEPT !.here = FALSE] \in Promise
    BY DEF TypeOK, Promise
  <1>2. Left \in [Tasks -> Promise \cup {None}]
    BY <1>1 DEF Left
  <1>3. \A u \in Tasks : Left[u] # None <=> tasks[u] # None
    BY <1>1, AdminAppAssumption DEF Left
  <1>4. ASSUME NEW u \in Tasks, tasks[u] # None
        PROVE  /\ Left[u].kind = tasks[u].kind /\ Left[u].call = tasks[u].call
               /\ Left[u].election = tasks[u].election /\ Left[u].outcome = tasks[u].outcome
               /\ Left[u].answer = tasks[u].answer
    <2>1. tasks[u] \in Promise /\ Left[u] = [tasks[u] EXCEPT !.here = FALSE]
      BY <1>4 DEF TypeOK, Left
    <2> QED BY <2>1 DEF Promise
  <1> QED BY <1>2, <1>3, <1>4 DEF SameButHere

LEMMA Replaced ==
  ASSUME TypeOK, TasksInv, Extends(log, log'),
         NEW b \in [Tasks -> Promise \cup {None}], SameButHere(b),
         NEW t \in Tasks, NEW new \in Promise \cup {None},
         new # None => PromiseInv(log', new) /\ AnswerInv(log', new),
         tasks' = [b EXCEPT ![t] = new]
  PROVE  tasks' \in [Tasks -> Promise \cup {None}] /\ TasksInv'
  <1>1. tasks' \in [Tasks -> Promise \cup {None}]
    OBVIOUS
  <1>2. ASSUME NEW u \in Tasks, u # t, tasks'[u] # None
        PROVE  PromiseInv(log', tasks'[u]) /\ AnswerInv(log', tasks'[u])
    <2>1. tasks'[u] = b[u] /\ tasks[u] # None
      BY <1>2 DEF SameButHere
    <2>2. PromiseInv(log', tasks[u]) /\ AnswerInv(log', tasks[u])
      BY <2>1, StillPromised, StillAnswered DEF TasksInv
    <2>3. /\ b[u].kind = tasks[u].kind /\ b[u].call = tasks[u].call
          /\ b[u].election = tasks[u].election /\ b[u].outcome = tasks[u].outcome
          /\ b[u].answer = tasks[u].answer
      BY <2>1 DEF SameButHere
    <2>4. PromiseInv(log', b[u])
      BY <2>2, <2>3 DEF PromiseInv
    <2>5. AnswerInv(log', b[u])
      BY <2>2, <2>3 DEF AnswerInv
    <2> QED BY <2>1, <2>4, <2>5
  <1>3. tasks'[t] = new
    OBVIOUS
  <1> QED BY <1>1, <1>2, <1>3 DEF TasksInv

\* The page is busy as long as there is an operation.
LEMMA Occupied ==
  ASSUME TypeOK, OneOperation,
         NEW b \in [Tasks -> Promise \cup {None}], SameButHere(b),
         NEW t \in Tasks, NEW new \in Promise \cup {None},
         tasks' = [b EXCEPT ![t] = new],
         \/ /\ busy' = busy
            /\ (new # None /\ new.kind = "execute")
                 <=> (tasks[t] # None /\ tasks[t].kind = "execute")
         \/ ~busy /\ busy' /\ new # None /\ new.kind = "execute"
         \/ ~busy' /\ new = None /\ tasks[t] # None /\ tasks[t].kind = "execute"
  PROVE  OneOperation'
  <1> DEFINE Executes(u) == tasks[u] # None /\ tasks[u].kind = "execute"
             ExecutesNext(u) == tasks'[u] # None /\ tasks'[u].kind = "execute"
  <1>1. /\ \A u, v \in Tasks : Executes(u) /\ Executes(v) => u = v
        /\ busy <=> \E u \in Tasks : Executes(u)
    BY DEF OneOperation
  <1>2. \A u \in Tasks : u # t => (ExecutesNext(u) <=> Executes(u))
    BY DEF SameButHere
  <1>3. ExecutesNext(t) <=> new # None /\ new.kind = "execute"
    OBVIOUS
  <1> SUFFICES /\ \A u, v \in Tasks : ExecutesNext(u) /\ ExecutesNext(v) => u = v
               /\ busy' <=> \E u \in Tasks : ExecutesNext(u)
    BY DEF OneOperation
  <1> HIDE DEF Executes, ExecutesNext
  <1>4. CASE busy' = busy /\ (ExecutesNext(t) <=> Executes(t))
    BY <1>1, <1>2, <1>4
  <1>5. CASE ~busy /\ busy' /\ ExecutesNext(t)
    BY <1>1, <1>2, <1>5
  <1>6. CASE ~busy' /\ ~ExecutesNext(t) /\ Executes(t)
    BY <1>1, <1>2, <1>6
  <1> QED BY <1>3, <1>4, <1>5, <1>6 DEF Executes

LEMMA LogTyped == ASSUME TypeOK PROVE log \in Logs /\ Extends(log, log)
  BY DEF TypeOK, Logs, Extends

\* A promise that begins to wait.
LEMMA Begun ==
  ASSUME NEW kind, NEW call, NEW election, NEW action, NEW outcome,
         kind \in {"start", "login", "load", "logout", "create", "execute"},
         call \in {"session", "login", "logout", "create", "transition", "list", "relist"},
         election \in Nat \cup {None}, action \in Actions \cup {None},
         outcome \in Election \cup {None}, NEW h \in BOOLEAN
  PROVE  LET p == Task(kind, call, election, action, outcome)
             q == [p EXCEPT !.here = h]
         IN  /\ p \in Promise /\ q \in Promise
             /\ p.kind = kind /\ p.call = call /\ p.election = election
             /\ p.outcome = outcome /\ p.answer = None
             /\ q.kind = kind /\ q.call = call /\ q.election = election
             /\ q.outcome = outcome /\ q.answer = None
  BY DEF Task, Promise

\* A promise that is given an answer.
LEMMA Given ==
  ASSUME NEW p \in Promise, NEW a \in Reply
  PROVE  LET q == [p EXCEPT !.answer = a] IN
         /\ q \in Promise /\ q.kind = p.kind /\ q.call = p.call
         /\ q.election = p.election /\ q.outcome = p.outcome /\ q.answer = a
         /\ \A l : PromiseInv(l, p) => PromiseInv(l, q)
  BY DEF Promise, PromiseInv

-----------------------------------------------------------------------------
\* The server.

\* What is shown was there whatever the server adds.
LEMMA ShownStays ==
  ASSUME ShownWasThere, Extends(log, log'), UNCHANGED <<fields, panels>>
  PROVE  ShownWasThere'
  BY StillWas DEF ShownWasThere, fields, panels

LEMMA AnswerInvariant ==
  ASSUME IInv, NEW t \in Tasks, tasks[t] # None, NEW a \in Reply,
         log' \in Logs, Extends(log, log'),
         AnswerInv(log', [tasks[t] EXCEPT !.answer = a]), Answer(t, a),
         UNCHANGED <<screen, submit, fields, panels>>
  PROVE  IInv'
  <1> DEFINE new == [tasks[t] EXCEPT !.answer = a]
  <1>1. tasks[t] \in Promise /\ tasks' = [tasks EXCEPT ![t] = new]
    BY DEF IInv, TypeOK, Answer
  <1>2. /\ new \in Promise /\ new # None /\ new.kind = tasks[t].kind
        /\ PromiseInv(log', new)
    BY <1>1, Given, StillPromised, AdminAppAssumption DEF IInv, TasksInv
  <1>3. tasks \in [Tasks -> Promise \cup {None}] /\ SameButHere(tasks)
    BY TasksAreTheSame DEF IInv, TypeOK
  <1>4. tasks' \in [Tasks -> Promise \cup {None}] /\ TasksInv'
    BY <1>1, <1>2, <1>3, Replaced DEF IInv
  <1>5. OneOperation'
    BY <1>1, <1>2, <1>3, Occupied DEF IInv, fields
  <1>6. TypeOK'
    BY <1>4 DEF IInv, TypeOK, Logs, fields, panels
  <1>7. ShownWasThere' /\ DetailInv'
    BY ShownStays DEF IInv, DetailInv, fields, panels
  <1> QED BY <1>4, <1>5, <1>6, <1>7 DEF IInv

LEMMA ListInv ==
  ASSUME IInv, NEW t \in Tasks, tasks[t] # None, AnswerList(t),
         UNCHANGED <<screen, submit, fields, panels>>
  PROVE  IInv'
  <1> DEFINE list == [e \in DOMAIN log |-> Row(e)]
             a == [ok |-> TRUE, list |-> list]
             new == [tasks[t] EXCEPT !.answer = a]
  <1>1. /\ tasks[t] \in Promise /\ tasks[t].call \in {"list", "relist"}
        /\ Answer(t, a) /\ log' = log
    BY DEF IInv, TypeOK, AnswerList
  <1>2. log \in Logs /\ Extends(log, log) /\ log \in Seq(Seq(L!Status))
    BY LogTyped DEF IInv, TypeOK
  <1>3. DOMAIN log = 1 .. Len(log) /\ Len(log) \in Nat
    BY <1>2, LenProperties
  <1>4. \A e \in DOMAIN log : Row(e) \in Election /\ Was(log, Row(e)) /\ Row(e).id = e
                              /\ Row(e).revision = Len(log[e])
    BY <1>2, RowWas
  <1>5. list \in Seq(Election)
    <2>1. list \in [1 .. Len(log) -> Election]
      BY <1>3, <1>4
    <2> QED BY <1>3, <2>1, IsASeq
  <1>6. a \in Reply
    BY <1>5 DEF Reply
  <1>7. /\ new.answer = a /\ new.kind = tasks[t].kind /\ new.call = tasks[t].call
        /\ new.election = tasks[t].election /\ new.outcome = tasks[t].outcome
    BY <1>1 DEF Promise
  <1>8. PromiseInv(log, tasks[t])
    BY DEF IInv, TasksInv
  <1>9. ASSUME tasks[t].kind = "execute", tasks[t].call = "list"
        PROVE  /\ tasks[t].election \in DOMAIN list
               /\ list[tasks[t].election].revision >= tasks[t].outcome.revision
    <2> DEFINE e == tasks[t].election
    <2>1. /\ e \in DOMAIN log /\ Was(log, tasks[t].outcome) /\ tasks[t].outcome.id = e
          /\ tasks[t].outcome \in Election
      BY <1>8, <1>9 DEF PromiseInv
    <2>2. log[e] \in Seq(L!Status)
      BY <1>2, <2>1, ElementOfSeq
    <2>3. tasks[t].outcome.revision \in 1 .. Len(log[e]) /\ Len(log[e]) \in Nat
      BY <2>1, <2>2, LenProperties DEF Was
    <2> QED BY <1>4, <2>1, <2>3
  <1>10. AnswerInv(log, new)
    <2>1. \A i \in DOMAIN list : list[i].id = i /\ Was(log, list[i])
      BY <1>4
    <2>2. ~(new.call \in {"create", "transition"})
      BY <1>1, <1>7
    <2>3. new.answer.list = list
      BY <1>7
    <2> HIDE DEF list
    <2> QED BY <1>5, <1>7, <1>9, <2>1, <2>2, <2>3 DEF AnswerInv
  <1> HIDE DEF new, a
  <1> QED BY <1>1, <1>2, <1>6, <1>10, AnswerInvariant DEF new

LEMMA CreateInv ==
  ASSUME IInv, NEW t \in Tasks, tasks[t] # None, AnswerCreate(t),
         UNCHANGED <<screen, submit, fields, panels>>
  PROVE  IInv'
  <1> DEFINE row == [id |-> Len(log'), status |-> "DRAFT", revision |-> 1]
             a == [ok |-> TRUE, row |-> row]
             new == [tasks[t] EXCEPT !.answer = a]
  <1>1. /\ tasks[t] \in Promise /\ tasks[t].call = "create"
        /\ Answer(t, a) /\ log' = Append(log, <<"DRAFT">>)
    BY DEF IInv, TypeOK, AnswerCreate
  <1>2. log' \in Logs /\ Extends(log, log') /\ Was(log', row)
    BY <1>1, LogTyped, ElectionExtends DEF IInv
  <1>3. row \in Election
    <2>1. Len(log') \in Nat
      BY <1>2, LenProperties DEF Logs
    <2> QED BY <2>1 DEF Election, L!Status
  <1>4. a \in Reply
    BY <1>3 DEF Reply
  <1>5. new.answer = a /\ new.call = "create"
    BY <1>1 DEF Promise
  <1>6. AnswerInv(log', new)
    BY <1>2, <1>3, <1>5 DEF AnswerInv
  <1> HIDE DEF new, a
  <1> QED BY <1>1, <1>2, <1>4, <1>6, AnswerInvariant DEF new

LEMMA TransitionInv ==
  ASSUME IInv, NEW t \in Tasks, tasks[t] # None, AnswerTransition(t),
         UNCHANGED <<screen, submit, fields, panels>>
  PROVE  IInv'
  <1> DEFINE e == tasks[t].election
             now == Row(e).status
             then == Destination(tasks[t].action, now)
             moved == [id |-> e, status |-> then, revision |-> Len(log[e]) + 1]
  <1>1. /\ tasks[t] \in Promise /\ tasks[t].call = "transition" /\ tasks[t].kind = "execute"
        /\ e \in DOMAIN log
    BY DEF IInv, TypeOK, TasksInv, PromiseInv, AnswerTransition
  <1>2. log \in Logs /\ Extends(log, log)
    BY LogTyped DEF IInv
  <1>3. Row(e) \in Election /\ Was(log, Row(e)) /\ Row(e).id = e
    BY <1>1, <1>2, RowWas
  <1>4. ASSUME NEW row \in Election, log' \in Logs, Extends(log, log'), Was(log', row),
               row.id = e, Answer(t, [ok |-> TRUE, row |-> row])
        PROVE  IInv'
    <2> DEFINE a == [ok |-> TRUE, row |-> row]
               new == [tasks[t] EXCEPT !.answer = a]
    <2>1. a \in Reply
      BY DEF Reply
    <2>2. new.answer = a /\ new.call = "transition" /\ new.election = e
      BY <1>1 DEF Promise
    <2>3. AnswerInv(log', new)
      BY <1>4, <2>2 DEF AnswerInv
    <2>4. Answer(t, a)
      BY <1>4
    <2> HIDE DEF new, a
    <2> QED BY <1>4, <2>1, <2>3, <2>4, AnswerInvariant DEF new
  <1>5. CASE /\ then \in L!ALLOWED_ELECTION_TRANSITIONS[now]
             /\ log' = [log EXCEPT ![e] = Append(@, then)]
             /\ Answer(t, [ok |-> TRUE, row |-> moved])
    <2>1. now \in L!Status /\ then \in L!Status
      BY <1>3, <1>5 DEF Election, L!ALLOWED_ELECTION_TRANSITIONS, L!Status
    <2>2. log' \in Logs /\ Extends(log, log') /\ Was(log', moved)
      BY <1>1, <1>2, <1>5, <2>1, StatusExtends
    <2>3. moved \in Election /\ moved.id = e
      <3>1. e \in Nat /\ log[e] \in Seq(L!Status)
        BY <1>1, <1>2, ElementOfSeq, LenProperties DEF Logs
      <3>2. Len(log[e]) + 1 \in Nat
        BY <3>1, LenProperties
      <3> QED BY <2>1, <3>1, <3>2 DEF Election
    <2> HIDE DEF moved
    <2> QED BY <1>4, <1>5, <2>2, <2>3
  <1>6. CASE /\ Answer(t, [ok |-> TRUE, row |-> Row(e)]) /\ UNCHANGED log
    BY <1>2, <1>3, <1>4, <1>6
  <1> QED BY <1>5, <1>6 DEF AnswerTransition

LEMMA ServeInv ==
  ASSUME IInv, NEW t \in Tasks, Serve(t)
  PROVE  IInv'
  <1>1. /\ tasks[t] # None /\ tasks[t] \in Promise
        /\ UNCHANGED <<screen, submit, fields, panels>>
    BY DEF Serve, IInv, TypeOK
  <1>2. log \in Logs /\ Extends(log, log)
    BY LogTyped DEF IInv
  <1>3. CASE AnswerSession(t)
    <2> DEFINE a == [ok |-> TRUE]
               new == [tasks[t] EXCEPT !.answer = a]
    <2>1. a \in Reply /\ new.call \in {"session", "login", "logout"}
      BY <1>1, <1>3 DEF Reply, AnswerSession, Promise
    <2>2. AnswerInv(log, new)
      BY <2>1 DEF AnswerInv
    <2>3. Answer(t, a) /\ log' = log
      BY <1>3 DEF AnswerSession
    <2> HIDE DEF new, a
    <2> QED BY <1>1, <1>2, <2>1, <2>2, <2>3, AnswerInvariant DEF new
  <1>4. CASE Refuse(t)
    <2> DEFINE new == [tasks[t] EXCEPT !.answer = Failed]
    <2>1. Failed \in Reply /\ ~Failed.ok /\ new.answer = Failed
      BY <1>1 DEF Reply, Failed, Promise
    <2>2. AnswerInv(log, new)
      BY <2>1 DEF AnswerInv
    <2>3. Answer(t, Failed) /\ log' = log
      BY <1>4 DEF Refuse
    <2> HIDE DEF new
    <2> QED BY <1>1, <1>2, <2>1, <2>2, <2>3, AnswerInvariant DEF new
  <1> QED BY <1>1, <1>3, <1>4, ListInv, CreateInv, TransitionInv DEF Serve

LEMMA LoseInv ==
  ASSUME IInv, NEW t \in Tasks, Lose(t)
  PROVE  IInv'
  <1> DEFINE new == [tasks[t] EXCEPT !.answer = Failed]
  <1>1. /\ tasks[t] # None /\ tasks[t] \in Promise /\ Answer(t, Failed) /\ log' = log
        /\ UNCHANGED <<screen, submit, fields, panels>>
    BY DEF Lose, IInv, TypeOK
  <1>2. Failed \in Reply /\ ~Failed.ok /\ new.answer = Failed
    BY <1>1 DEF Reply, Failed, Promise
  <1>3. AnswerInv(log, new)
    BY <1>2 DEF AnswerInv
  <1>4. log \in Logs /\ Extends(log, log)
    BY LogTyped DEF IInv
  <1> HIDE DEF new
  <1> QED BY <1>1, <1>2, <1>3, <1>4, AnswerInvariant DEF new

LEMMA ElsewhereInv ==
  ASSUME IInv, NEW e \in DOMAIN log, Elsewhere(e)
  PROVE  IInv'
  <1>1. log \in Logs
    BY LogTyped DEF IInv
  <1>2. PICK s \in L!ALLOWED_ELECTION_TRANSITIONS[Row(e).status] :
          log' = [log EXCEPT ![e] = Append(@, s)]
    BY DEF Elsewhere
  <1>3. s \in L!Status
    BY <1>1, <1>2, RowWas DEF Election, L!ALLOWED_ELECTION_TRANSITIONS, L!Status
  <1>4. log' \in Logs /\ Extends(log, log')
    BY <1>1, <1>2, <1>3, StatusExtends
  <1>5. TypeOK' /\ OneOperation' /\ DetailInv'
    BY <1>4 DEF IInv, TypeOK, OneOperation, DetailInv, Elsewhere, fields, panels, Logs
  <1>6. ShownWasThere'
    BY <1>4, ShownStays DEF IInv, Elsewhere
  <1>7. TasksInv'
    BY <1>4, StillPromised, StillAnswered DEF IInv, TasksInv, Elsewhere
  <1> QED BY <1>5, <1>6, <1>7 DEF IInv

-----------------------------------------------------------------------------
\* The page: clicks, and handlers that go on.

\* A step of the page that replaces one promise and leaves the log alone.
LEMMA PageInvariant ==
  ASSUME IInv, log' = log, NEW t \in Tasks,
         NEW b \in [Tasks -> Promise \cup {None}], SameButHere(b),
         NEW new \in Promise \cup {None},
         new # None => PromiseInv(log, new) /\ new.answer = None,
         tasks' = [b EXCEPT ![t] = new],
         \/ /\ busy' = busy
            /\ (new # None /\ new.kind = "execute")
                 <=> (tasks[t] # None /\ tasks[t].kind = "execute")
         \/ ~busy /\ busy' /\ new # None /\ new.kind = "execute"
         \/ ~busy' /\ new = None /\ tasks[t] # None /\ tasks[t].kind = "execute",
         screen' \in {"blank", "login", "workspace"}, submit' \in BOOLEAN,
         elections' \in Seq(Election), cards' \in Seq(Election),
         selected' \in Election \cup {None}, busy' \in BOOLEAN,
         detail' \in [election : Election, disabled : BOOLEAN] \cup {None},
         ShownWasThere', DetailInv'
  PROVE  IInv'
  <1>1. Extends(log, log') /\ log' \in Logs
    BY LogTyped DEF IInv
  <1>2. new # None => PromiseInv(log', new) /\ AnswerInv(log', new)
    BY DEF AnswerInv
  <1>3. tasks' \in [Tasks -> Promise \cup {None}] /\ TasksInv'
    BY <1>1, <1>2, Replaced DEF IInv
  <1>4. OneOperation'
    BY Occupied DEF IInv
  <1>5. TypeOK'
    BY <1>1, <1>3 DEF TypeOK, Logs
  <1> QED BY <1>3, <1>4, <1>5 DEF IInv

\* What is at hand.
LEMMA Present ==
  ASSUME IInv
  PROVE  /\ tasks \in [Tasks -> Promise \cup {None}] /\ SameButHere(tasks)
         /\ elections \in Seq(Election) /\ cards \in Seq(Election)
         /\ selected \in Election \cup {None} /\ busy \in BOOLEAN /\ submit \in BOOLEAN
         /\ detail \in [election : Election, disabled : BOOLEAN] \cup {None}
         /\ \A i \in DOMAIN elections : Was(log, elections[i])
         /\ selected # None => Was(log, selected)
  BY TasksAreTheSame DEF IInv, TypeOK, ShownWasThere

LEMMA ShownKept ==
  ASSUME IInv, log' = log, UNCHANGED <<fields, panels>>
  PROVE  /\ elections' \in Seq(Election) /\ cards' \in Seq(Election)
         /\ selected' \in Election \cup {None} /\ busy' \in BOOLEAN /\ busy' = busy
         /\ detail' \in [election : Election, disabled : BOOLEAN] \cup {None}
         /\ ShownWasThere' /\ DetailInv'
  BY LogTyped, ShownStays DEF IInv, TypeOK, DetailInv, fields, panels

LEMMA ShownCleared ==
  ASSUME IInv, log' = log, UNCHANGED fields, cards' = <<>>, detail' = None
  PROVE  /\ elections' \in Seq(Election) /\ cards' \in Seq(Election)
         /\ selected' \in Election \cup {None} /\ busy' \in BOOLEAN /\ busy' = busy
         /\ detail' \in [election : Election, disabled : BOOLEAN] \cup {None}
         /\ ShownWasThere' /\ DetailInv'
  BY DEF IInv, TypeOK, DetailInv, ShownWasThere, fields

\* A click that begins to wait for something but an operation.
LEMMA BeginInv ==
  ASSUME IInv, NEW kind \in {"login", "logout", "create"}, Begin(Waiting(kind, kind)),
         log' = log, screen' = screen, submit' \in BOOLEAN, UNCHANGED <<fields, panels>>
  PROVE  IInv'
  <1> DEFINE new == Waiting(kind, kind)
  <1>1. PICK t \in Tasks : tasks[t] = None /\ tasks' = [tasks EXCEPT ![t] = new]
    BY DEF Begin
  <1>2. new \in Promise /\ new.kind = kind /\ new.call = kind /\ new.answer = None
    BY DEF Waiting, Task, Promise
  <1>3. new # None
    BY <1>2, AdminAppAssumption
  <1>4. PromiseInv(log, new)
    BY <1>2 DEF PromiseInv
  <1>5. screen' \in {"blank", "login", "workspace"}
    BY DEF IInv, TypeOK
  <1> HIDE DEF new
  <1> QED BY <1>1, <1>2, <1>3, <1>4, <1>5, Present, ShownKept, PageInvariant

LEMMA SelectInv == ASSUME IInv, Select PROVE IInv'
  <1>1. PICK i \in DOMAIN cards : renderElectionList(TRUE, cards[i], elections, busy)
    BY DEF Select
  <1>2. cards[i] \in Election /\ Was(log, cards[i])
    BY <1>1, ElementOfSeq DEF IInv, TypeOK, ShownWasThere
  <1>3. UNCHANGED <<log, screen, submit, tasks>>
    BY DEF Select
  <1>4. /\ elections' \in Seq(Election) /\ cards' \in Seq(Election)
        /\ selected' \in Election \cup {None} /\ busy' = busy
        /\ detail' \in [election : Election, disabled : BOOLEAN] \cup {None}
        /\ ShownWasThere' /\ DetailInv'
    BY <1>1, <1>2, <1>3, Present, Rendered DEF IInv
  <1>5. TypeOK' /\ OneOperation' /\ TasksInv'
    BY <1>3, <1>4 DEF IInv, TypeOK, OneOperation, TasksInv
  <1> QED BY <1>4, <1>5 DEF IInv

LEMMA ExecuteInv == ASSUME IInv, NEW action \in Actions, Execute(action) PROVE IInv'
  <1> DEFINE new == Task("execute", "transition", detail.election.id, action, None)
  <1>1. PICK t \in Tasks : tasks[t] = None /\ tasks' = [tasks EXCEPT ![t] = new]
    BY DEF Execute, Begin
  <1>2. /\ detail # None /\ ~detail.disabled /\ UNCHANGED <<log, screen, submit>>
        /\ renderElectionList(TRUE, selected, elections, TRUE)
    BY DEF Execute
  <1>3. ~busy /\ Was(log, detail.election) /\ detail.election \in Election
    BY <1>2 DEF IInv, DetailInv, ShownWasThere, TypeOK
  <1>4. detail.election.id \in Nat /\ detail.election.id \in DOMAIN log
    BY <1>3 DEF Election, Was
  <1>5. /\ new \in Promise /\ new.kind = "execute" /\ new.call = "transition"
        /\ new.election = detail.election.id /\ new.answer = None
    BY <1>4 DEF Task, Promise
  <1>6. new # None /\ PromiseInv(log, new)
    BY <1>4, <1>5, AdminAppAssumption DEF PromiseInv
  <1>7. /\ elections' \in Seq(Election) /\ cards' \in Seq(Election)
        /\ selected' \in Election \cup {None} /\ busy' = TRUE
        /\ detail' \in [election : Election, disabled : BOOLEAN] \cup {None}
        /\ ShownWasThere' /\ DetailInv'
    BY <1>2, Present, Rendered DEF IInv
  <1>8. screen' \in {"blank", "login", "workspace"} /\ submit' \in BOOLEAN
    BY <1>2 DEF IInv, TypeOK
  <1> HIDE DEF new
  <1> QED BY <1>1, <1>2, <1>3, <1>5, <1>6, <1>7, <1>8, Present, PageInvariant

LEMMA ClicksInv == ASSUME IInv, Clicks PROVE IInv'
  <1>1. CASE Login
    <2>1. submit' \in BOOLEAN /\ Begin(Waiting("login", "login"))
          /\ UNCHANGED <<log, screen, fields, panels>>
      BY <1>1 DEF Login
    <2> QED BY <2>1, BeginInv
  <1>2. CASE Logout
    <2>1. submit' \in BOOLEAN /\ Begin(Waiting("logout", "logout"))
          /\ UNCHANGED <<log, screen, fields, panels>>
      BY <1>2, Present DEF Logout
    <2> QED BY <2>1, BeginInv
  <1>3. CASE Create
    <2>1. submit' \in BOOLEAN /\ Begin(Waiting("create", "create"))
          /\ UNCHANGED <<log, screen, fields, panels>>
      BY <1>3 DEF Create
    <2> QED BY <2>1, BeginInv
  <1> QED BY <1>1, <1>2, <1>3, SelectInv, ExecuteInv DEF Clicks

\* The page is replaced, by a login form or by a workspace.
LEMMA showLoginInv ==
  ASSUME IInv, NEW t \in Tasks, tasks[t] # None, tasks[t].kind # "execute",
         showLogin(t), log' = log
  PROVE  IInv'
  <1>1. Left \in [Tasks -> Promise \cup {None}] /\ SameButHere(Left)
    BY LeftIsTheSame DEF IInv
  <1>2. /\ screen' = "login" /\ submit' = TRUE /\ cards' = <<>> /\ detail' = None
        /\ tasks' = [Left EXCEPT ![t] = None] /\ UNCHANGED fields
    BY DEF showLogin
  <1> QED BY <1>1, <1>2, ShownCleared, PageInvariant

LEMMA showWorkspaceInv ==
  ASSUME IInv, NEW t \in Tasks, tasks[t] # None, tasks[t].kind # "execute",
         showWorkspace(t), log' = log
  PROVE  IInv'
  <1> DEFINE new == Waiting("load", "list")
  <1>1. Left \in [Tasks -> Promise \cup {None}] /\ SameButHere(Left)
    BY LeftIsTheSame DEF IInv
  <1>2. /\ screen' = "workspace" /\ submit' = TRUE /\ cards' = <<>> /\ detail' = None
        /\ tasks' = [Left EXCEPT ![t] = new] /\ UNCHANGED fields
    BY DEF showWorkspace
  <1>3. new \in Promise /\ new.kind = "load" /\ new.call = "list" /\ new.answer = None
    BY DEF Waiting, Task, Promise
  <1>4. PromiseInv(log, new)
    BY <1>3 DEF PromiseInv
  <1> HIDE DEF new
  <1> QED BY <1>1, <1>2, <1>3, <1>4, ShownCleared, PageInvariant

\* A handler other than execute that ends, or goes on with another call.
LEMMA EndInv ==
  ASSUME IInv, NEW t \in Tasks, tasks[t] # None, End(t), log' = log,
         screen' = screen, submit' \in BOOLEAN,
         \/ tasks[t].kind # "execute" /\ busy' = busy
         \/ tasks[t].kind = "execute" /\ busy' = FALSE,
         elections' \in Seq(Election), cards' \in Seq(Election),
         selected' \in Election \cup {None},
         detail' \in [election : Election, disabled : BOOLEAN] \cup {None},
         ShownWasThere', DetailInv'
  PROVE  IInv'
  <1>1. tasks' = [tasks EXCEPT ![t] = None]
    BY DEF End
  <1>2. screen' \in {"blank", "login", "workspace"} /\ busy' \in BOOLEAN
    BY Present DEF IInv, TypeOK
  <1> QED BY <1>1, <1>2, Present, PageInvariant

LEMMA CallInv ==
  ASSUME IInv, NEW t \in Tasks, tasks[t] # None, log' = log,
         NEW kind \in {"create", "execute"}, kind = tasks[t].kind,
         NEW call \in {"list", "relist"},
         NEW election \in Nat \cup {None}, NEW outcome \in Election \cup {None},
         kind = "execute" => election \in DOMAIN log,
         call = "list" => /\ outcome \in Election /\ Was(log, outcome)
                          /\ kind = "execute" => outcome.id = election,
         Call(t, Task(kind, call, election, None, outcome)),
         UNCHANGED <<screen, submit, fields, panels>>
  PROVE  IInv'
  <1> DEFINE new == [Task(kind, call, election, None, outcome) EXCEPT !.here = tasks[t].here]
  <1>1. tasks[t].here \in BOOLEAN
    BY DEF IInv, TypeOK, Promise
  <1>2. tasks' = [tasks EXCEPT ![t] = new]
    BY DEF Call
  <1>3. /\ new \in Promise /\ new.kind = kind /\ new.call = call
        /\ new.election = election /\ new.outcome = outcome /\ new.answer = None
    BY <1>1 DEF Task, Promise
  <1>4. new # None /\ PromiseInv(log, new)
    BY <1>3, AdminAppAssumption DEF PromiseInv
  <1>5. screen' \in {"blank", "login", "workspace"} /\ submit' \in BOOLEAN
    BY DEF IInv, TypeOK
  <1> HIDE DEF new
  <1> QED BY <1>2, <1>3, <1>4, <1>5, Present, ShownKept, PageInvariant

\* A list that was answered is made of what was there.
LEMMA Listed ==
  ASSUME IInv, NEW t \in Tasks, tasks[t] # None, tasks[t].answer # None,
         tasks[t].answer.ok, tasks[t].call \in {"list", "relist"}
  PROVE  /\ tasks[t].answer.list \in Seq(Election)
         /\ \A i \in DOMAIN tasks[t].answer.list :
              tasks[t].answer.list[i].id = i /\ Was(log, tasks[t].answer.list[i])
  BY DEF IInv, TasksInv, AnswerInv

LEMMA StartContinuesInv ==
  ASSUME IInv, NEW t \in Tasks, tasks[t] # None, StartContinues(t), log' = log
  PROVE  IInv'
  BY showLoginInv, showWorkspaceInv DEF StartContinues

LEMMA LoginContinuesInv ==
  ASSUME IInv, NEW t \in Tasks, tasks[t] # None, LoginContinues(t), log' = log
  PROVE  IInv'
  <1>1. CASE showWorkspace(t)
    BY <1>1, showWorkspaceInv DEF LoginContinues
  <1>2. CASE /\ submit' = (submit \/ tasks[t].here) /\ End(t)
             /\ UNCHANGED <<screen, fields, panels>>
    <2>1. submit' \in BOOLEAN /\ tasks[t].kind # "execute"
      BY <1>2, Present DEF LoginContinues
    <2> QED BY <1>2, <2>1, ShownKept, EndInv
  <1> QED BY <1>1, <1>2 DEF LoginContinues

LEMMA LoadContinuesInv ==
  ASSUME IInv, NEW t \in Tasks, tasks[t] # None, tasks[t].answer # None,
         LoadContinues(t), log' = log
  PROVE  IInv'
  <1> DEFINE list == tasks[t].answer.list
  <1>1. /\ tasks[t].kind # "execute" /\ End(t) /\ screen' = screen /\ submit' = submit
        /\ tasks[t].here \in BOOLEAN /\ tasks[t].call = "list"
    BY DEF LoadContinues, IInv, TypeOK, TasksInv, PromiseInv, Promise
  <1>2. CASE tasks[t].answer.ok /\ renderElectionList(tasks[t].here, selected, list, busy)
    <2>1. list \in Seq(Election) /\ \A i \in DOMAIN list : Was(log, list[i])
      BY <1>1, <1>2, Listed
    <2>2. /\ elections' \in Seq(Election) /\ cards' \in Seq(Election)
          /\ selected' \in Election \cup {None} /\ busy' = busy
          /\ detail' \in [election : Election, disabled : BOOLEAN] \cup {None}
          /\ ShownWasThere' /\ DetailInv'
      <3> HIDE DEF list
      <3> QED BY <1>1, <1>2, <2>1, Present, Rendered DEF IInv
    <2> QED BY <1>1, <2>2, Present, EndInv
  <1>3. CASE UNCHANGED <<fields, panels>>
    BY <1>1, <1>3, Present, ShownKept, EndInv
  <1> QED BY <1>2, <1>3 DEF LoadContinues

LEMMA CreateContinuesInv ==
  ASSUME IInv, NEW t \in Tasks, tasks[t] # None, tasks[t].answer # None,
         CreateContinues(t), log' = log
  PROVE  IInv'
  <1> DEFINE list == tasks[t].answer.list
  <1>1. /\ tasks[t].kind = "create" /\ screen' = screen /\ tasks[t].here \in BOOLEAN
        /\ PromiseInv(log, tasks[t]) /\ AnswerInv(log, tasks[t])
    BY DEF CreateContinues, IInv, TypeOK, Promise, TasksInv
  <1>2. CASE /\ Succeeded(t, "create")
             /\ Call(t, Task("create", "list", None, None, tasks[t].answer.row))
             /\ UNCHANGED <<submit, fields, panels>>
    <2>1. tasks[t].answer.row \in Election /\ Was(log, tasks[t].answer.row)
      BY <1>1, <1>2 DEF AnswerInv, Succeeded
    <2> QED BY <1>1, <1>2, <2>1, CallInv
  <1>3. CASE /\ Succeeded(t, "list")
             /\ renderElectionList(tasks[t].here, tasks[t].outcome, list, busy)
             /\ submit' = (submit \/ tasks[t].here) /\ End(t)
    <2>1. list \in Seq(Election) /\ \A i \in DOMAIN list : Was(log, list[i])
      BY <1>3, Listed DEF Succeeded
    <2>2. tasks[t].outcome \in Election /\ Was(log, tasks[t].outcome)
      BY <1>1, <1>3 DEF PromiseInv, Succeeded
    <2>3. /\ elections' \in Seq(Election) /\ cards' \in Seq(Election)
          /\ selected' \in Election \cup {None} /\ busy' = busy
          /\ detail' \in [election : Election, disabled : BOOLEAN] \cup {None}
          /\ ShownWasThere' /\ DetailInv'
      BY <1>1, <1>3, <2>1, <2>2, Present, Rendered DEF IInv
    <2>4. submit' \in BOOLEAN /\ End(t)
      BY <1>3, Present
    <2> QED BY <1>1, <2>3, <2>4, EndInv
  <1>4. CASE /\ submit' = (submit \/ tasks[t].here) /\ End(t) /\ UNCHANGED <<fields, panels>>
    <2>1. submit' \in BOOLEAN /\ End(t)
      BY <1>4, Present
    <2> QED BY <1>1, <1>4, <2>1, ShownKept, EndInv
  <1> QED BY <1>2, <1>3, <1>4 DEF CreateContinues

\* A confirmed operation: its election is in the list, not older than it left it.
LEMMA ConfirmedList ==
  ASSUME IInv, NEW t \in Tasks, tasks[t] # None, tasks[t].answer # None,
         tasks[t].kind = "execute", Succeeded(t, "list")
  PROVE  LET row == tasks[t].answer.list[tasks[t].election] IN
         /\ row \in Election /\ Was(log, row) /\ row.id = tasks[t].election
         /\ row.revision >= tasks[t].outcome.revision
  <1> DEFINE list == tasks[t].answer.list
             e == tasks[t].election
  <1>1. AnswerInv(log, tasks[t])
    BY DEF IInv, TasksInv
  <1>2. /\ list \in Seq(Election) /\ e \in DOMAIN list
        /\ list[e].revision >= tasks[t].outcome.revision
        /\ list[e].id = e /\ Was(log, list[e])
    BY <1>1 DEF AnswerInv, Succeeded
  <1>3. list[e] \in Election
    BY <1>2, ElementOfSeq
  <1> QED BY <1>2, <1>3

LEMMA ExecuteContinuesInv ==
  ASSUME IInv, NEW t \in Tasks, tasks[t] # None, tasks[t].answer # None,
         ExecuteContinues(t), log' = log
  PROVE  IInv'
  <1> DEFINE list == tasks[t].answer.list
             e == tasks[t].election
  <1>1. /\ tasks[t].kind = "execute" /\ screen' = screen /\ submit' = submit
        /\ tasks[t].here \in BOOLEAN /\ e \in Nat \cup {None} /\ e \in DOMAIN log
        /\ PromiseInv(log, tasks[t]) /\ AnswerInv(log, tasks[t])
    BY DEF ExecuteContinues, IInv, TypeOK, Promise, TasksInv, PromiseInv
  <1>2. CASE Taken(t)
    <2> DEFINE row == tasks[t].answer.row
    <2>1. row \in Election /\ Was(log, row) /\ row.id = e
      BY <1>1, <1>2 DEF AnswerInv, Taken, Succeeded
    <2>2. Call(t, Task("execute", "list", e, None, row)) /\ UNCHANGED <<fields, panels>>
      BY <1>2 DEF Taken
    <2> HIDE DEF row, e
    <2> QED BY <1>1, <2>1, <2>2, CallInv
  <1>3. CASE Confirmed(t)
    <2>1. list \in Seq(Election) /\ \A i \in DOMAIN list : Was(log, list[i])
      BY <1>3, Listed DEF Confirmed, Succeeded
    <2>2. list[e] \in Election /\ Was(log, list[e])
      BY <1>1, <1>3, ConfirmedList DEF Confirmed
    <2>3. renderElectionList(tasks[t].here, list[e], list, FALSE) /\ End(t)
      BY <1>3 DEF Confirmed
    <2>4. /\ elections' \in Seq(Election) /\ cards' \in Seq(Election)
          /\ selected' \in Election \cup {None} /\ busy' = FALSE
          /\ detail' \in [election : Election, disabled : BOOLEAN] \cup {None}
          /\ ShownWasThere' /\ DetailInv'
      BY <1>1, <2>1, <2>2, <2>3, Rendered DEF IInv
    <2> QED BY <1>1, <2>3, <2>4, Present, EndInv
  <1>4. CASE Caught(t)
    <2>1. Call(t, Task("execute", "relist", e, None, None)) /\ UNCHANGED <<fields, panels>>
      BY <1>4 DEF Caught
    <2> QED BY <1>1, <2>1, CallInv
  <1>5. CASE Relisted(t)
    <2> DEFINE shown == IF tasks[t].answer.ok THEN list ELSE elections
    <2>1. shown \in Seq(Election) /\ \A i \in DOMAIN shown : Was(log, shown[i])
      BY <1>5, Listed, Present DEF Relisted
    <2>2. renderElectionList(tasks[t].here, selected, shown, FALSE) /\ End(t)
      BY <1>5 DEF Relisted
    <2>3. /\ elections' \in Seq(Election) /\ cards' \in Seq(Election)
          /\ selected' \in Election \cup {None} /\ busy' = FALSE
          /\ detail' \in [election : Election, disabled : BOOLEAN] \cup {None}
          /\ ShownWasThere' /\ DetailInv'
      <3> HIDE DEF shown
      <3> QED BY <1>1, <2>1, <2>2, Present, Rendered DEF IInv
    <2> QED BY <1>1, <2>2, <2>3, Present, EndInv
  <1> QED BY <1>2, <1>3, <1>4, <1>5 DEF ExecuteContinues

LEMMA ContinueInv ==
  ASSUME IInv, NEW t \in Tasks, Continue(t)
  PROVE  IInv'
  <1>1. tasks[t] # None /\ tasks[t].answer # None /\ log' = log
    BY DEF Continue
  <1>2. CASE LogoutContinues(t)
    BY <1>1, <1>2, showLoginInv DEF LogoutContinues
  <1> QED BY <1>1, <1>2, StartContinuesInv, LoginContinuesInv, LoadContinuesInv,
             CreateContinuesInv, ExecuteContinuesInv DEF Continue

-----------------------------------------------------------------------------
\* The invariant holds initially.
LEMMA InitInv == ASSUME Init PROVE IInv
  <1>1. PICK s \in StartStatuses : log = << <<s>> >>
    BY DEF Init
  <1>2. s \in L!Status
    BY <1>1, AdminAppAssumption
  <1>3. <<s>> \in Seq(L!Status) /\ <<s>> # <<>>
    BY <1>2
  <1>4. log \in Seq(Seq(L!Status)) /\ \A e \in DOMAIN log : log[e] # <<>>
    BY <1>1, <1>3
  <1> DEFINE new == Waiting("start", "session")
  <1>5. new \in Promise /\ new.kind = "start" /\ new.call = "session" /\ new.answer = None
    BY DEF Waiting, Task, Promise
  <1>6. \A t \in Tasks : tasks[t] = IF t = 1 THEN new ELSE None
    BY DEF Init
  <1>7. tasks \in [Tasks -> Promise \cup {None}]
    BY <1>5 DEF Init
  <1>8. PromiseInv(log, new) /\ AnswerInv(log, new)
    BY <1>5 DEF PromiseInv, AnswerInv
  <1> HIDE DEF new
  <1>9. TypeOK
    <2>1. <<>> \in Seq(Election)
      OBVIOUS
    <2>2. elections = <<>> /\ cards = <<>> /\ screen = "blank" /\ submit = FALSE
          /\ selected = None /\ busy = FALSE /\ detail = None
      BY DEF Init
    <2> QED BY <1>4, <1>7, <2>1, <2>2 DEF TypeOK
  <1>10. OneOperation /\ TasksInv
    BY <1>5, <1>6, <1>8 DEF Init, OneOperation, TasksInv
  <1>11. ShownWasThere /\ DetailInv
    BY DEF Init, ShownWasThere, DetailInv
  <1> QED BY <1>9, <1>10, <1>11 DEF IInv

LEMMA StepInv == ASSUME IInv, [Next]_vars PROVE IInv'
  <1>1. CASE UNCHANGED vars
    BY <1>1 DEF IInv, TypeOK, OneOperation, ShownWasThere, Was, DetailInv, TasksInv,
                vars, fields, panels
  <1>2. CASE Next
    BY <1>2, ClicksInv, ServeInv, LoseInv, ContinueInv, ElsewhereInv DEF Next
  <1> QED BY <1>1, <1>2

\* The page stays in its inductive invariant, whatever is clicked, answered, lost or
\* done by others meanwhile.
THEOREM Invariance == Spec => []IInv
  BY InitInv, StepInv, PTL DEF Spec

\* The page's state has its types.
THEOREM TypeCorrect == Spec => []TypeOK
  <1>1. IInv => TypeOK
    BY DEF IInv
  <1> QED BY <1>1, Invariance, PTL

\* At most one critical operation of a page is under way, and the page is busy exactly
\* then (execute, renderDetail).
THEOREM SingleOperation == Spec => []OneOperation
  <1>1. IInv => OneOperation
    BY DEF IInv
  <1> QED BY <1>1, Invariance, PTL

\* Whatever the page shows of an election is something the election was.
THEOREM OnlyWhatWas == Spec => []ShownWasThere
  <1>1. IInv => ShownWasThere
    BY DEF IInv
  <1> QED BY <1>1, Invariance, PTL

\* What a promise is given is a reply.
LEMMA AnswersAreReplies ==
  ASSUME IInv, NEW u \in Tasks, Serve(u) \/ Lose(u)
  PROVE  \E a \in Reply : Answer(u, a)
  <1>1. log \in Logs /\ log \in Seq(Seq(L!Status)) /\ Extends(log, log)
    BY LogTyped DEF IInv, Logs
  <1>2. CASE AnswerSession(u)
    BY <1>2 DEF AnswerSession, Reply
  <1>3. CASE AnswerList(u)
    <2> DEFINE list == [e \in DOMAIN log |-> Row(e)]
    <2>1. list \in Seq(Election)
      <3>1. DOMAIN log = 1 .. Len(log) /\ Len(log) \in Nat
        BY <1>1, LenProperties
      <3>2. list \in [1 .. Len(log) -> Election]
        BY <1>1, <3>1, RowWas
      <3> QED BY <3>1, <3>2, IsASeq
    <2>2. [ok |-> TRUE, list |-> list] \in Reply
      BY <2>1 DEF Reply
    <2> QED BY <1>3, <2>2 DEF AnswerList
  <1>4. CASE AnswerCreate(u)
    <2>1. log' \in Logs
      BY <1>1, <1>4, ElectionExtends DEF AnswerCreate
    <2>2. [id |-> Len(log'), status |-> "DRAFT", revision |-> 1] \in Election
      BY <2>1, LenProperties DEF Logs, Election, L!Status
    <2>3. [ok |-> TRUE, row |-> [id |-> Len(log'), status |-> "DRAFT", revision |-> 1]]
            \in Reply
      BY <2>2 DEF Reply
    <2> QED BY <1>4, <2>3 DEF AnswerCreate
  <1>5. CASE AnswerTransition(u)
    <2> DEFINE e == tasks[u].election
               now == Row(e).status
               then == Destination(tasks[u].action, now)
               moved == [id |-> e, status |-> then, revision |-> Len(log[e]) + 1]
    <2>1. e \in DOMAIN log
      BY <1>5 DEF IInv, TasksInv, PromiseInv, AnswerTransition, Serve, Lose
    <2>2. Row(e) \in Election
      BY <1>1, <2>1, RowWas
    <2>3. CASE Answer(u, [ok |-> TRUE, row |-> Row(e)])
      BY <2>2, <2>3 DEF Reply
    <2>4. CASE then \in L!ALLOWED_ELECTION_TRANSITIONS[now]
               /\ Answer(u, [ok |-> TRUE, row |-> moved])
      <3>1. then \in L!Status
        BY <2>2, <2>4 DEF Election, L!ALLOWED_ELECTION_TRANSITIONS, L!Status
      <3>2. e \in Nat /\ log[e] \in Seq(L!Status)
        BY <1>1, <2>1, ElementOfSeq, LenProperties
      <3>3. Len(log[e]) + 1 \in Nat
        BY <3>2, LenProperties
      <3>4. moved \in Election
        BY <3>1, <3>2, <3>3 DEF Election
      <3> QED BY <2>4, <3>4 DEF Reply
    <2> QED BY <1>5, <2>3, <2>4 DEF AnswerTransition
  <1>6. CASE Refuse(u) \/ Lose(u)
    BY <1>6 DEF Refuse, Lose, Failed, Reply
  <1> QED BY <1>2, <1>3, <1>4, <1>5, <1>6 DEF Serve

\* What ends a promise is that it goes on.
LEMMA EndsByContinuing ==
  ASSUME IInv, [Next]_vars, NEW t \in Tasks, tasks[t] # None, tasks'[t] = None
  PROVE  Continue(t)
  <1>1. tasks[t] \in Promise
    BY DEF IInv, TypeOK
  <1>2. CASE UNCHANGED vars
    BY <1>2 DEF vars
  <1>3. CASE \E task : Begin(task)
    BY <1>3 DEF Begin, IInv, TypeOK
  <1>4. CASE UNCHANGED tasks
    BY <1>4
  <1>5. CASE Clicks
    BY <1>3, <1>4, <1>5 DEF Clicks, Login, Logout, Create, Select, Execute
  <1>6. CASE \E u \in Tasks : Serve(u) \/ Lose(u)
    <2>1. PICK u \in Tasks, a \in Reply : tasks' = [tasks EXCEPT ![u].answer = a]
      BY <1>6, AnswersAreReplies DEF Answer
    <2>2. CASE u # t
      BY <2>1, <2>2 DEF IInv, TypeOK
    <2>3. CASE u = t
      <3>1. tasks'[t] = [tasks[t] EXCEPT !.answer = a]
        BY <2>1, <2>3 DEF IInv, TypeOK
      <3> QED BY <1>1, <3>1, Given, AdminAppAssumption
    <2> QED BY <2>2, <2>3
  <1>7. CASE \E e \in DOMAIN log : Elsewhere(e)
    BY <1>4, <1>7 DEF Elsewhere
  <1>8. ASSUME NEW u \in Tasks, u # t, Continue(u) PROVE FALSE
    <2>1. Left \in [Tasks -> Promise \cup {None}] /\ Left[t] # None
      BY LeftIsTheSame DEF IInv, SameButHere
    <2>2. \E x : tasks' = [tasks EXCEPT ![u] = x] \/ tasks' = [Left EXCEPT ![u] = x]
      BY <1>8 DEF Continue, StartContinues, LoginContinues, LoadContinues, LogoutContinues,
        CreateContinues, ExecuteContinues, Taken, Confirmed, Caught, Relisted,
        showLogin, showWorkspace, End, Call
    <2> QED BY <1>8, <2>1, <2>2 DEF IInv, TypeOK
  <1> QED BY <1>2, <1>5, <1>6, <1>7, <1>8 DEF Next

\* A confirmed operation shows its election, not older than it left it (execute).
THEOREM ConfirmedOutcome == Spec => ConfirmedShowsOutcome
  <1> DEFINE Shows(t) ==
        /\ tasks[t] # None /\ tasks[t].kind = "execute" /\ tasks[t].call = "list"
        /\ tasks'[t] = None
        => /\ selected'.id = tasks[t].election
           /\ selected'.revision >= tasks[t].outcome.revision
           /\ tasks[t].here => detail' = [election |-> selected', disabled |-> FALSE]
  <1>1. ASSUME IInv, [Next]_vars, NEW t \in Tasks PROVE Shows(t)
    <2> SUFFICES ASSUME tasks[t] # None, tasks[t].kind = "execute", tasks[t].call = "list",
                        tasks'[t] = None
                 PROVE  /\ selected'.id = tasks[t].election
                        /\ selected'.revision >= tasks[t].outcome.revision
                        /\ tasks[t].here =>
                             detail' = [election |-> selected', disabled |-> FALSE]
      OBVIOUS
    <2>1. Continue(t)
      BY <1>1, EndsByContinuing
    <2>2. ExecuteContinues(t) /\ tasks[t].answer # None
      BY <2>1 DEF Continue, StartContinues, LoginContinues, LoadContinues, LogoutContinues,
                  CreateContinues, ExecuteContinues
    <2>3. ~Relisted(t)
      BY DEF Relisted
    <2>4. ~Taken(t) /\ ~Caught(t)
      <3>1. tasks[t].here \in BOOLEAN /\ tasks[t].election \in Nat \cup {None}
            /\ tasks[t].outcome \in Election
        BY <1>1 DEF IInv, TypeOK, TasksInv, PromiseInv, Promise
      <3>2. ~Taken(t)
        BY DEF Taken, Succeeded
      <3>3. CASE Caught(t)
        <4>1. tasks'[t] = [Task("execute", "relist", tasks[t].election, None, None)
                             EXCEPT !.here = tasks[t].here]
          BY <1>1, <3>3 DEF Caught, Call, IInv, TypeOK
        <4>2. tasks'[t] \in Promise
          BY <3>1, <4>1 DEF Task, Promise
        <4> QED BY <4>2, AdminAppAssumption
      <3> QED BY <3>2, <3>3
    <2>5. Confirmed(t)
      BY <2>2, <2>3, <2>4 DEF ExecuteContinues
    <2> DEFINE list == tasks[t].answer.list
               row == list[tasks[t].election]
    <2>6. /\ row \in Election /\ row.id = tasks[t].election
          /\ row.revision >= tasks[t].outcome.revision
      BY <1>1, <2>2, <2>5, ConfirmedList DEF Confirmed
    <2>7. row # None /\ renderElectionList(tasks[t].here, row, list, FALSE)
      BY <2>5, <2>6, AdminAppAssumption DEF Confirmed
    <2>8. selected' = row
      BY <2>7 DEF renderElectionList, Chosen
    <2>9. tasks[t].here => detail' = [election |-> selected', disabled |-> FALSE]
      BY <2>7, <2>8 DEF renderElectionList
    <2> QED BY <2>6, <2>8, <2>9
  <1>2. ASSUME IInv, [Next]_vars PROVE \A t \in Tasks : Shows(t)
    BY <1>1, <1>2
  <1>3. ASSUME IInv, [Next]_vars PROVE [\A t \in Tasks : Shows(t)]_vars
    BY <1>2, <1>3
  <1> QED BY <1>3, Invariance, PTL DEF Spec, ConfirmedShowsOutcome

=============================================================================
