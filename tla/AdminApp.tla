------------------------------- MODULE AdminApp -------------------------------
(***************************************************************************)
(* The page of an administrator (admin-web): login, the list of elections, *)
(* the election that is selected with the buttons its status allows, and   *)
(* the requests behind them.  Every handler is a promise that goes on when *)
(* its answer arrives, on the part of the page it was started from, which  *)
(* may have been replaced meanwhile.  Other administrators act on the same *)
(* elections, sessions end, and answers are lost.                          *)
(***************************************************************************)
EXTENDS Naturals, Sequences

CONSTANTS
  StartStatuses,  \* of the one election there is when the page is loaded
  MaxElections,   \* bound: elections, with those the page creates
  MaxMoves,       \* bound: statuses an election goes through
  MaxTasks,       \* bound: promises under way at once
  None

L == INSTANCE Lifecycle WITH status <- None, configurationVersion <- None

\* the buttons of an election
allowed ==
  [s \in L!Status |->
     CASE s = "DRAFT"    -> {"eligibility-snapshots", "checkpoints", "ready"}
       [] s = "READY"    -> {"checkpoints", "open"}
       [] s = "OPEN"     -> {"close", "cancel"}
       [] s = "CLOSED"   -> {"enter-counting"}
       [] s = "COUNTING" -> {"compute-tally", "verification-package", "publish-results"}
       [] OTHER          -> {}]
Actions == UNION {allowed[s] : s \in L!Status}

\* an election as the API serialises it, and as the page holds it
Election == [id : Nat, status : L!Status, revision : Nat]
Reply == [ok : BOOLEAN] \cup [ok : {TRUE}, row : Election] \cup [ok : {TRUE}, list : Seq(Election)]
\* A promise waits for the answer to its call; kind is the handler it belongs to,
\* election what it is about, outcome what the server made of that, and here says
\* whether the screen it was started from is still there.
Promise ==
  [kind : {"start", "login", "load", "logout", "create", "execute"},
   call : {"session", "login", "logout", "create", "transition", "list", "relist"},
   election : Nat \cup {None}, action : Actions \cup {None},
   outcome : Election \cup {None}, here : BOOLEAN, answer : Reply \cup {None}]

ASSUME AdminAppAssumption ==
  /\ StartStatuses \subseteq L!Status
  /\ MaxElections \in Nat /\ MaxMoves \in Nat /\ MaxTasks \in Nat
  /\ None \notin Election /\ None \notin Reply /\ None \notin Promise

VARIABLES
  log,        \* of each election, by age, the statuses it has had
  screen,     \* what was last built: nothing, the login form, the workspace
  submit,     \* the submit button of its form is enabled
  elections,  \* AdminApp.elections, .selected and .busy
  selected,
  busy,
  cards,      \* the cards of the screen, and its detail, as last rendered
  detail,
  tasks       \* the promises under way

fields == <<elections, selected, busy>>
panels == <<cards, detail>>
vars == <<log, screen, submit, fields, panels, tasks>>

Tasks == 1 .. MaxTasks

TypeOK ==
  /\ log \in Seq(Seq(L!Status)) /\ \A e \in DOMAIN log : log[e] # <<>>
  /\ screen \in {"blank", "login", "workspace"} /\ submit \in BOOLEAN
  /\ elections \in Seq(Election) /\ cards \in Seq(Election)
  /\ selected \in Election \cup {None} /\ busy \in BOOLEAN
  /\ detail \in [election : Election, disabled : BOOLEAN] \cup {None}
  /\ tasks \in [Tasks -> Promise \cup {None}]

\* an election as the API serialises it now
Row(e) == [id |-> e, status |-> log[e][Len(log[e])], revision |-> Len(log[e])]

\* a promise as it begins to wait
Task(kind, call, election, action, outcome) ==
  [kind |-> kind, call |-> call, election |-> election, action |-> action,
   outcome |-> outcome, here |-> TRUE, answer |-> None]
Waiting(kind, call) == Task(kind, call, None, None, None)

Failed == [ok |-> FALSE]

\* where the API takes an election of status s with an action; most keep it
Destination(action, s) ==
  CASE action = "ready"           -> "READY"
    [] action = "open"            -> "OPEN"
    [] action = "close"           -> "CLOSED"
    [] action = "cancel"          -> "CANCELLED"
    [] action = "enter-counting"  -> "COUNTING"
    [] action = "publish-results" -> "RESULTS_PUBLISHED"
    [] OTHER                      -> s

Init ==
  /\ log \in {<< <<s>> >> : s \in StartStatuses}
  /\ screen = "blank" /\ submit = FALSE
  /\ elections = <<>> /\ selected = None /\ busy = FALSE
  /\ cards = <<>> /\ detail = None
  /\ tasks = [t \in Tasks |-> IF t = 1 THEN Waiting("start", "session") ELSE None]
-----------------------------------------------------------------------------
\* The server, as far as the page can tell.  Whether the session of a request is
\* still alive, and what else a handler may object to, is left open: it may refuse
\* any request.

Answer(t, a) == tasks' = [tasks EXCEPT ![t].answer = a]

\* GET session, login and logout
AnswerSession(t) ==
  /\ tasks[t].call \in {"session", "login", "logout"}
  /\ Answer(t, [ok |-> TRUE]) /\ UNCHANGED log

AnswerList(t) ==
  /\ tasks[t].call \in {"list", "relist"}
  /\ Answer(t, [ok |-> TRUE, list |-> [e \in DOMAIN log |-> Row(e)]]) /\ UNCHANGED log

AnswerCreate(t) ==
  /\ tasks[t].call = "create" /\ Len(log) < MaxElections
  /\ log' = Append(log, <<"DRAFT">>)
  /\ Answer(t, [ok |-> TRUE,
                  row |-> [id |-> Len(log'), status |-> "DRAFT", revision |-> 1]])

AnswerTransition(t) ==
  LET e == tasks[t].election
      now == Row(e).status
      then == Destination(tasks[t].action, now)
  IN  /\ tasks[t].call = "transition"
      /\ \/ /\ then \in L!ALLOWED_ELECTION_TRANSITIONS[now] /\ Len(log[e]) < MaxMoves
            /\ log' = [log EXCEPT ![e] = Append(@, then)]
            /\ Answer(t, [ok |-> TRUE,
                         row |-> [id |-> e, status |-> then, revision |-> Len(log[e]) + 1]])
         \/ then = now /\ Answer(t, [ok |-> TRUE, row |-> Row(e)]) /\ UNCHANGED log

Refuse(t) == Answer(t, Failed) /\ UNCHANGED log

\* the server answers a request of the page
Serve(t) ==
  /\ tasks[t] # None /\ tasks[t].answer = None
  /\ \/ AnswerSession(t) \/ AnswerList(t) \/ AnswerCreate(t) \/ AnswerTransition(t)
     \/ Refuse(t)
  /\ UNCHANGED <<screen, submit, fields, panels>>

\* the server acted and its answer is lost: NETWORK_ERROR, or a body that does not parse
Lose(t) ==
  /\ tasks[t] # None /\ tasks[t].answer # None /\ tasks[t].answer.ok
  /\ Answer(t, Failed)
  /\ UNCHANGED <<log, screen, submit, fields, panels>>

\* other administrators
Elsewhere(e) ==
  /\ Len(log[e]) < MaxMoves
  /\ \E s \in L!ALLOWED_ELECTION_TRANSITIONS[Row(e).status] :
       log' = [log EXCEPT ![e] = Append(@, s)]
  /\ UNCHANGED <<screen, submit, fields, panels, tasks>>
-----------------------------------------------------------------------------
\* What the page shows.

\* selected ?? elections[0]
Chosen(election, list) ==
  IF election # None \/ list = <<>> THEN election ELSE list[1]

\* Mutant of renderElectionList: its buttons do not look at busy.
renderEnabled(here, election, list, isBusy) ==
  /\ elections' = list
  /\ selected' = Chosen(election, list)
  /\ busy' = isBusy
  /\ \/ /\ here
        /\ cards' = list
        /\ detail' = IF selected' = None THEN None
                     ELSE [election |-> selected', disabled |-> FALSE]
     \/ ~here /\ UNCHANGED panels

\* renderElectionList with renderDetail, on the screen or on one that was replaced
renderElectionList(here, election, list, isBusy) ==
  /\ elections' = list
  /\ selected' = Chosen(election, list)
  /\ busy' = isBusy
  /\ \/ /\ here
        /\ cards' = list
        /\ detail' = IF selected' = None THEN None
                     ELSE [election |-> selected', disabled |-> isBusy]
     \/ ~here /\ UNCHANGED panels

\* every other promise was started from a screen that is gone
Left == [t \in Tasks |-> IF tasks[t] = None THEN None ELSE [tasks[t] EXCEPT !.here = FALSE]]

showLogin(t) ==
  /\ screen' = "login" /\ submit' = TRUE
  /\ cards' = <<>> /\ detail' = None
  /\ tasks' = [Left EXCEPT ![t] = None]
  /\ UNCHANGED fields

\* the workspace is built, and its promise goes on with the list
showWorkspace(t) ==
  /\ screen' = "workspace" /\ submit' = TRUE
  /\ cards' = <<>> /\ detail' = None
  /\ tasks' = [Left EXCEPT ![t] = Waiting("load", "list")]
  /\ UNCHANGED fields
-----------------------------------------------------------------------------
\* Clicks.

Begin(task) ==
  \E t \in Tasks :
    /\ tasks[t] = None /\ \A u \in Tasks : u < t => tasks[u] # None
    /\ tasks' = [tasks EXCEPT ![t] = task]

Login ==
  /\ screen = "login" /\ submit
  /\ submit' = FALSE
  /\ Begin(Waiting("login", "login"))
  /\ UNCHANGED <<log, screen, fields, panels>>

Logout ==
  /\ screen = "workspace"
  /\ Begin(Waiting("logout", "logout"))
  /\ UNCHANGED <<log, screen, submit, fields, panels>>

Create ==
  /\ screen = "workspace" /\ submit
  /\ submit' = FALSE
  /\ Begin(Waiting("create", "create"))
  /\ UNCHANGED <<log, screen, fields, panels>>

Select ==
  /\ \E i \in DOMAIN cards : renderElectionList(TRUE, cards[i], elections, busy)
  /\ UNCHANGED <<log, screen, submit, tasks>>

\* Mutant of Execute: the page shows the outcome before the server has acted.
ExecuteOptimistic(action) ==
  /\ detail # None /\ ~detail.disabled /\ action \in allowed[detail.election.status]
  /\ renderElectionList(TRUE, [detail.election EXCEPT !.status = Destination(action, @)],
                        elections, TRUE)
  /\ Begin(Task("execute", "transition", detail.election.id, action, None))
  /\ UNCHANGED <<log, screen, submit>>

\* execute, once it was confirmed
Execute(action) ==
  /\ detail # None /\ ~detail.disabled /\ action \in allowed[detail.election.status]
  /\ renderElectionList(TRUE, selected, elections, TRUE)
  /\ Begin(Task("execute", "transition", detail.election.id, action, None))
  /\ UNCHANGED <<log, screen, submit>>
-----------------------------------------------------------------------------
\* An answer arrives.

Succeeded(t, call) == tasks[t].call = call /\ tasks[t].answer.ok
End(t) == tasks' = [tasks EXCEPT ![t] = None]
Call(t, task) == tasks' = [tasks EXCEPT ![t] = [task EXCEPT !.here = tasks[t].here]]

StartContinues(t) ==
  /\ tasks[t].kind = "start"
  /\ \/ tasks[t].answer.ok /\ showWorkspace(t)
     \/ ~tasks[t].answer.ok /\ showLogin(t)

LoginContinues(t) ==
  /\ tasks[t].kind = "login"
  /\ \/ tasks[t].answer.ok /\ showWorkspace(t)
     \/ /\ ~tasks[t].answer.ok
        /\ submit' = (submit \/ tasks[t].here)
        /\ End(t)
        /\ UNCHANGED <<screen, fields, panels>>

LoadContinues(t) ==
  /\ tasks[t].kind = "load"
  /\ \/ /\ tasks[t].answer.ok
        /\ renderElectionList(tasks[t].here, selected, tasks[t].answer.list, busy)
     \/ ~tasks[t].answer.ok /\ UNCHANGED <<fields, panels>>
  /\ End(t)
  /\ UNCHANGED <<screen, submit>>

\* finally: the login form, whatever the answer was
LogoutContinues(t) == tasks[t].kind = "logout" /\ showLogin(t)

CreateContinues(t) ==
  /\ tasks[t].kind = "create"
  /\ UNCHANGED screen
  /\ \/ /\ Succeeded(t, "create")
        /\ Call(t, Task("create", "list", None, None, tasks[t].answer.row))
        /\ UNCHANGED <<submit, fields, panels>>
     \/ /\ Succeeded(t, "list")
        /\ renderElectionList(tasks[t].here, tasks[t].outcome, tasks[t].answer.list, busy)
        /\ submit' = (submit \/ tasks[t].here)
        /\ End(t)
     \/ /\ ~tasks[t].answer.ok
        /\ submit' = (submit \/ tasks[t].here)
        /\ End(t) /\ UNCHANGED <<fields, panels>>

\* the action was taken: the list is read again
Taken(t) ==
  /\ Succeeded(t, "transition")
  /\ Call(t, Task("execute", "list", tasks[t].election, None, tasks[t].answer.row))
  /\ UNCHANGED <<fields, panels>>

\* Mutant of Confirmed: what is selected stays as it was read before.
ConfirmedKeepingSelected(t) ==
  /\ Succeeded(t, "list")
  /\ renderElectionList(tasks[t].here, selected, tasks[t].answer.list, FALSE)
  /\ End(t)

Confirmed(t) ==
  /\ Succeeded(t, "list")
  /\ LET list == tasks[t].answer.list IN
     renderElectionList(tasks[t].here, list[tasks[t].election], list, FALSE)
  /\ End(t)

\* the catch of execute: the list is read again
Caught(t) ==
  /\ ~tasks[t].answer.ok /\ tasks[t].call \in {"transition", "list"}
  /\ Call(t, Task("execute", "relist", tasks[t].election, None, None))
  /\ UNCHANGED <<fields, panels>>

\* Mutant of Relisted: nothing is done where the list cannot be read either.
RelistedOrThrown(t) ==
  /\ tasks[t].call = "relist"
  /\ \/ /\ tasks[t].answer.ok
        /\ renderElectionList(tasks[t].here, selected, tasks[t].answer.list, FALSE)
     \/ ~tasks[t].answer.ok /\ UNCHANGED <<fields, panels>>
  /\ End(t)

\* ... and shown, but what is selected stays as it was read before
Relisted(t) ==
  /\ tasks[t].call = "relist"
  /\ renderElectionList(tasks[t].here, selected,
       IF tasks[t].answer.ok THEN tasks[t].answer.list ELSE elections, FALSE)
  /\ End(t)

ExecuteContinues(t) ==
  /\ tasks[t].kind = "execute"
  /\ Taken(t) \/ Confirmed(t) \/ Caught(t) \/ Relisted(t)
  /\ UNCHANGED <<screen, submit>>

Continue(t) ==
  /\ tasks[t] # None /\ tasks[t].answer # None
  /\ \/ StartContinues(t) \/ LoginContinues(t) \/ LoadContinues(t)
     \/ LogoutContinues(t) \/ CreateContinues(t) \/ ExecuteContinues(t)
  /\ UNCHANGED log

Clicks ==
  \/ Login \/ Logout \/ Create \/ Select
  \/ \E a \in Actions : Execute(a)

Next ==
  \/ Clicks
  \/ \E t \in Tasks : Serve(t) \/ Lose(t) \/ Continue(t)
  \/ \E e \in DOMAIN log : Elsewhere(e)

Spec == Init /\ [][Next]_vars

\* Every fetch settles, and what awaits it goes on.
FairSpec == Spec /\ \A t \in Tasks : WF_vars(Serve(t) \/ Lose(t) \/ Continue(t))
-----------------------------------------------------------------------------
\* Properties.

\* At most one critical operation of a page is under way, and the page is busy exactly
\* then: no button of another card, of the workspace of another login, or of a panel
\* rendered while it was under way, starts a second one.
OneOperation ==
  LET executing == {t \in Tasks : tasks[t] # None /\ tasks[t].kind = "execute"} IN
  /\ \A t, u \in executing : t = u
  /\ busy <=> executing # {}

\* Whatever the page shows of an election is something the election was: nothing is
\* shown before the server did it.
Was(l, row) == /\ row.id \in DOMAIN l /\ row.revision \in DOMAIN l[row.id]
               /\ l[row.id][row.revision] = row.status
ShownWasThere ==
  /\ \A i \in DOMAIN elections : Was(log, elections[i])
  /\ \A i \in DOMAIN cards : Was(log, cards[i])
  /\ selected # None => Was(log, selected)
  /\ detail # None => Was(log, detail.election)

\* The step that ends a confirmed operation selects its election, not older than the
\* operation left it, and shows it on the panels it was started from, whatever was
\* clicked or listed while it was under way.  Later steps may select another: a click, or
\* the end of a creation that was pending.
ConfirmedShowsOutcome ==
  [][\A t \in Tasks :
       /\ tasks[t] # None /\ tasks[t].kind = "execute" /\ tasks[t].call = "list"
       /\ tasks'[t] = None
       => /\ selected'.id = tasks[t].election
          /\ selected'.revision >= tasks[t].outcome.revision
          /\ tasks[t].here => detail' = [election |-> selected', disabled |-> FALSE]]_vars

\* No critical operation leaves the page busy for good.
OperationEnds == busy ~> ~busy

\* Does not hold, as the README tells: after an operation that was not confirmed the selected
\* election is as it was just read.
RefusedIsRefreshed ==
  [][\A t \in Tasks :
       /\ tasks[t] # None /\ tasks[t].call = "relist" /\ tasks[t].answer # None
       /\ tasks[t].answer.ok /\ tasks'[t] = None
       => \E i \in DOMAIN elections' : selected' = elections'[i]]_vars

\* Does not hold, as the README tells: buttons are disabled only while an operation is
\* under way.
ButtonsComeBack == detail # None /\ detail.disabled => busy
-----------------------------------------------------------------------------
\* The inductive invariant behind the properties.  A button that can be clicked was
\* rendered when nothing was under way; and what an answer or a promise carries was
\* there, lists no older than what the operation before them left.

DetailInv == detail # None /\ ~detail.disabled => ~busy

PromiseInv(l, p) ==
  /\ p.kind = "load" => p.call = "list"
  /\ p.call = "transition" => p.kind = "execute"
  /\ p.kind = "execute" => p.call \in {"transition", "list", "relist"}
  /\ p.kind = "execute" => p.election \in DOMAIN l
  /\ p.kind = "execute" /\ p.call = "list" =>
       p.outcome \in Election /\ Was(l, p.outcome) /\ p.outcome.id = p.election
  /\ p.kind = "create" /\ p.call = "list" => p.outcome \in Election /\ Was(l, p.outcome)

AnswerInv(l, p) ==
  p.answer # None /\ p.answer.ok =>
    /\ p.call \in {"create", "transition"} =>
         /\ p.answer.row \in Election /\ Was(l, p.answer.row)
         /\ p.call = "transition" => p.answer.row.id = p.election
    /\ p.call \in {"list", "relist"} =>
         /\ p.answer.list \in Seq(Election)
         /\ \A i \in DOMAIN p.answer.list :
              p.answer.list[i].id = i /\ Was(l, p.answer.list[i])
         /\ p.kind = "execute" /\ p.call = "list" =>
              /\ p.election \in DOMAIN p.answer.list
              /\ p.answer.list[p.election].revision >= p.outcome.revision

TasksInv ==
  \A t \in Tasks : tasks[t] # None => PromiseInv(log, tasks[t]) /\ AnswerInv(log, tasks[t])

IInv == TypeOK /\ OneOperation /\ ShownWasThere /\ DetailInv /\ TasksInv
=============================================================================
