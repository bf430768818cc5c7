------------------------- MODULE AdminSessionsProofs -------------------------
(***************************************************************************)
(* Theorems about AdminSessions, for any handlers, any lifetimes and any   *)
(* bounds on the clock, the logins and the revocations.                    *)
(***************************************************************************)
EXTENDS AdminSessions, TLAPS

\* Before the first login nothing is there.
LEMMA InitInv == Init => IInv
  <1> SUFFICES ASSUME Init PROVE IInv
    OBVIOUS
  <1>1. TypeOK
    BY AdminSessionsAssumption DEF Init, TypeOK, Time, Tokens, generationSeconds
  <1>2. CopiesInv /\ HandlersInv /\ LoginsInv /\ HeldInv /\ RevokedInv
    BY DEF Init, CopiesInv, HandlersInv, LoginsInv, Issuing, HeldInv, RevokedInv
  <1> QED BY <1>1, <1>2 DEF IInv

\* A handler that takes a step of its own, while no token is issued, keeps what every
\* handler knows, if it knows itself what its new place asks for.
LEMMA StepKeepsHandlers ==
  ASSUME IInv, NEW r \in Handlers, NEW h \in Handler \cup {None},
         handler' = [handler EXCEPT ![r] = h], UNCHANGED issued,
         h # None => Sound(h),
         h # None => \/ handler[r] # None /\ h.token = handler[r].token
                     \/ \A q \in Handlers \ {r} : Issuing(handler[q]) => handler[q].token # h.token,
         Issuing(h) => Issuing(handler[r]) /\ h.token = handler[r].token
  PROVE  /\ handler' \in [Handlers -> Handler \cup {None}]
         /\ HandlersInv' /\ LoginsInv'
  <1>1. handler'[r] = h /\ \A q \in Handlers \ {r} : handler'[q] = handler[q]
    BY DEF IInv, TypeOK
  <1>2. handler' \in [Handlers -> Handler \cup {None}]
    BY DEF IInv, TypeOK
  <1>3. HandlersInv'
    BY <1>1 DEF IInv, HandlersInv, Sound, SameSession
  <1>4. LoginsInv'
    BY <1>1 DEF IInv, LoginsInv, Issuing
  <1> QED BY <1>2, <1>3, <1>4

\* A step of a handler that leaves the store alone keeps the invariant.
LEMMA QuietStep ==
  ASSUME IInv, NEW r \in Handlers, NEW h \in Handler \cup {None},
         handler' = [handler EXCEPT ![r] = h],
         UNCHANGED <<now, store, active, held, history>>,
         h # None => Sound(h),
         h # None => \/ handler[r] # None /\ h.token = handler[r].token
                     \/ \A q \in Handlers \ {r} : Issuing(handler[q]) => handler[q].token # h.token,
         Issuing(h) => Issuing(handler[r]) /\ h.token = handler[r].token
  PROVE  IInv'
  <1>1. handler' \in [Handlers -> Handler \cup {None}] /\ HandlersInv' /\ LoginsInv'
    BY StepKeepsHandlers DEF history
  <1>2. TypeOK'
    BY <1>1 DEF IInv, TypeOK, store, history
  <1>3. CopiesInv' /\ HeldInv' /\ RevokedInv'
    BY DEF IInv, CopiesInv, SameSession, HeldInv, RevokedInv, store, history
  <1> QED BY <1>1, <1>2, <1>3 DEF IInv

\* A handler that ends leaves the others as they were.
LEMMA EndInv ==
  ASSUME IInv, NEW r \in Handlers, End(r), UNCHANGED <<now, store, active, held, history>>
  PROVE  IInv'
  BY QuietStep DEF End, Issuing

\* A handler that only goes elsewhere stays what it is.
LEMMA GotoHandler ==
  ASSUME IInv, NEW r \in Handlers, handler[r] # None, NEW pc \in Label, Goto(r, pc)
  PROVE  \E h \in Handler :
           /\ handler' = [handler EXCEPT ![r] = h]
           /\ h.op = handler[r].op /\ h.pc = pc /\ h.token = handler[r].token
           /\ h.record = handler[r].record /\ h.at = handler[r].at
  <1> DEFINE h == [handler[r] EXCEPT !.pc = pc]
  <1>1. handler[r] \in Handler
    BY DEF IInv, TypeOK
  <1>2. h \in Handler /\ h.op = handler[r].op /\ h.pc = pc /\ h.token = handler[r].token
        /\ h.record = handler[r].record /\ h.at = handler[r].at
    BY <1>1 DEF Handler
  <1>3. handler' = [handler EXCEPT ![r] = h]
    BY DEF Goto
  <1> QED BY <1>2, <1>3

\* A request for a token that is free, held, or of no session.
LEMMA StartInv ==
  ASSUME IInv, NEW r \in Handlers, NEW op \in Op, NEW pc \in Label, NEW s \in 0 .. MaxTokens,
         Start(r, op, pc, s), pc \in {"reading", "revokingAll"},
         op \in {"resetPassword", "revokeSessions"} => pc = "revokingAll",
         op \notin {"resetPassword", "revokeSessions"} => s \in Tokens,
         \A q \in Handlers : Issuing(handler[q]) => handler[q].token # s
  PROVE  IInv'
  <1> DEFINE h == [op |-> op, pc |-> pc, token |-> s, record |-> None, at |-> 0]
  <1>1. h \in Handler
    BY AdminSessionsAssumption DEF Handler, Time
  <1>2. Sound(h) /\ ~Issuing(h)
    BY DEF Sound, Issuing
  <1>3. handler' = [handler EXCEPT ![r] = h] /\ UNCHANGED <<now, store, active, held, history>>
    BY DEF Start
  <1> QED BY <1>1, <1>2, <1>3, QuietStep
-----------------------------------------------------------------------------
\* Steps that leave the store alone.

\* A request is for a held token, which is issued, or for no session at all.
LEMMA RequestsInv ==
  ASSUME IInv, NEW r \in Handlers, NEW op \in Op,
         Operate(r, op) \/ \E s \in Tokens : Request(r, op, s)
  PROVE  IInv'
  <1>1. CASE Operate(r, op)
    <2>1. \A q \in Handlers : Issuing(handler[q]) => handler[q].token # 0
      BY AdminSessionsAssumption DEF IInv, HandlersInv, Sound, Issuing, Tokens
    <2> QED BY <1>1, <2>1, StartInv, AdminSessionsAssumption DEF Operate, Op, Label
  <1>2. CASE \E s \in Tokens : Request(r, op, s)
    <2>1. PICK s \in Tokens : Request(r, op, s)
      BY <1>2
    <2>2. \A q \in Handlers : Issuing(handler[q]) => handler[q].token # s
      BY <2>1 DEF Request, IInv, LoginsInv, HeldInv
    <2>3. s \in 0 .. MaxTokens
      BY AdminSessionsAssumption DEF Tokens
    <2> QED BY <2>1, <2>2, <2>3, StartInv DEF Request, Op, Label
  <1> QED BY <1>1, <1>2

\* A login takes a token nobody has.
LEMMA LoginInv ==
  ASSUME IInv, NEW r \in Handlers, NEW s \in Tokens, Login(r, s)
  PROVE  IInv'
  <1> DEFINE h == [op |-> "login", pc |-> "finding", token |-> s, record |-> None, at |-> 0]
  <1>1. h \in Handler
    BY AdminSessionsAssumption DEF Handler, Time, Tokens, Op, Label
  <1>2. handler' = [handler EXCEPT ![r] = h] /\ UNCHANGED <<now, store, active, held, history>>
    BY DEF Login, Start
  <1>3. handler'[r] = h /\ \A q \in Handlers \ {r} : handler'[q] = handler[q]
    BY <1>2 DEF IInv, TypeOK
  <1>4. TypeOK'
    BY <1>1, <1>2 DEF IInv, TypeOK, store, history
  <1>5. HandlersInv'
    <2>1. Sound(h)
      BY DEF Sound
    <2> QED BY <1>2, <1>3, <2>1 DEF IInv, HandlersInv, Sound, SameSession, history
  <1>6. LoginsInv'
    BY <1>2, <1>3 DEF Login, IInv, LoginsInv, Issuing, history
  <1>7. CopiesInv' /\ HeldInv' /\ RevokedInv'
    BY <1>2 DEF IInv, CopiesInv, SameSession, HeldInv, RevokedInv, store, history
  <1> QED BY <1>4, <1>5, <1>6, <1>7 DEF IInv

\* Looking at the account, at the generation or at the password.
LEMMA LookInv ==
  ASSUME IInv, NEW r \in Handlers,
         FindAccount(r) \/ CheckGeneration(r) \/ Identify(r) \/ VerifyPassword(r) \/ Fail(r)
  PROVE  IInv'
  <1>0. UNCHANGED <<now, store, active, held, history>>
    BY DEF FindAccount, CheckGeneration, Identify, VerifyPassword, Fail
  <1>1. CASE End(r)
    BY <1>0, <1>1, EndInv
  <1>2. ASSUME NEW pc \in {"generating", "touching", "dropping", "revoking", "verifying"},
               Goto(r, pc), handler[r] # None,
               pc = "generating" => At(r, "finding"),
               pc \in {"touching", "dropping"} => At(r, "checking"),
               pc \in {"revoking", "verifying"} => At(r, "identifying")
        PROVE  IInv'
    <2>1. PICK h \in Handler :
            /\ handler' = [handler EXCEPT ![r] = h]
            /\ h.op = handler[r].op /\ h.pc = pc /\ h.token = handler[r].token
            /\ h.record = handler[r].record /\ h.at = handler[r].at
      BY <1>2, GotoHandler DEF Label
    <2>2. Sound(handler[r])
      BY <1>2 DEF IInv, HandlersInv
    <2>3. Sound(h)
      BY <1>2, <2>1, <2>2 DEF Sound, At
    <2>4. Issuing(h) => Issuing(handler[r])
      BY <1>2, <2>1 DEF Issuing, At
    <2> QED BY <1>0, <1>2, <2>1, <2>3, <2>4, QuietStep
  <1>3. CASE VerifyPassword(r) /\ ~End(r)
    <2> DEFINE h == [handler[r] EXCEPT !.pc = "revokingAll", !.record = None, !.at = 0]
    <2>1. handler[r] # None /\ handler[r].pc = "verifying" /\ handler[r] \in Handler
      BY <1>3 DEF VerifyPassword, At, IInv, TypeOK
    <2>2. h \in Handler /\ h.op = handler[r].op /\ h.pc = "revokingAll" /\ h.token = handler[r].token
      <3>1. 0 \in Time /\ "revokingAll" \in Label
        BY AdminSessionsAssumption DEF Time, Label
      <3> QED BY <2>1, <3>1 DEF Handler
    <2>3. handler' = [handler EXCEPT ![r] = h]
      BY <1>3 DEF VerifyPassword
    <2>4. Sound(h) /\ ~Issuing(h)
      BY <2>1, <2>2 DEF IInv, HandlersInv, Sound, Issuing
    <2> QED BY <1>0, <2>1, <2>2, <2>3, <2>4, QuietStep
  <1> QED BY <1>1, <1>2, <1>3 DEF FindAccount, CheckGeneration, Identify, VerifyPassword, Fail, At

\* A copy read from the store is of the session it was stored for.
LEMMA ReadSessionInv ==
  ASSUME IInv, NEW r \in Handlers, ReadSession(r)
  PROVE  IInv'
  <1>1. CASE End(r)
    BY <1>1, EndInv DEF ReadSession
  <1>2. CASE ~End(r)
    <2> DEFINE s == handler[r].token
    <2> DEFINE h == [handler[r] EXCEPT !.record = session[s].record, !.at = now,
             !.pc = IF Expired(session[s].record, now) THEN "dropping" ELSE "checking"]
    <2>1. handler[r] # None /\ handler[r].pc = "reading" /\ handler[r] \in Handler
          /\ session[s] # None /\ handler' = [handler EXCEPT ![r] = h]
          /\ UNCHANGED <<now, store, active, held, history>>
      BY <1>2 DEF ReadSession, At, IInv, TypeOK
    <2>2. s \in Tokens /\ Sound(handler[r])
      BY <2>1 DEF IInv, HandlersInv, Sound
    <2>3. session[s].record \in StoredAdminSession /\ SameSession(session[s].record, s)
          /\ session[s].record # None /\ now \in Time
      BY <2>1, <2>2, AdminSessionsAssumption DEF IInv, TypeOK, CopiesInv, SessionKey
    <2>4. /\ h \in Handler /\ h.op = handler[r].op /\ h.token = s
          /\ h.record = session[s].record /\ h.at = now
          /\ h.pc = IF Expired(session[s].record, now) THEN "dropping" ELSE "checking"
      BY <2>1, <2>3 DEF Handler, Label
    <2>5. h.pc = "checking" => h.at < h.record.createdAt + absoluteSeconds
      BY <2>3, <2>4, AdminSessionsAssumption DEF Expired, StoredAdminSession, Time
    <2>6. Sound(h) /\ ~Issuing(h)
      BY <2>1, <2>2, <2>3, <2>4, <2>5 DEF Sound, Issuing
    <2> QED BY <2>1, <2>4, <2>6, QuietStep
  <1> QED BY <1>1, <1>2
-----------------------------------------------------------------------------
\* Steps that write the store.

\* A session stored or written back is the copy its handler has.
LEMMA WriteInv ==
  ASSUME IInv, NEW r \in Handlers, StoreSession(r) \/ Touch(r)
  PROVE  IInv'
  <1> DEFINE g == handler[r]
             s == g.token
             pc == IF g.pc = "storing" THEN "auditing"
                   ELSE IF g.op = "logout" THEN "ending" ELSE "identifying"
  <1>1. /\ g # None /\ g \in Handler /\ g.pc \in {"storing", "touching"}
        /\ g.pc = "storing" <=> StoreSession(r)
        /\ Goto(r, pc)
        /\ UNCHANGED <<now, generation, active, held, history>>
    BY DEF StoreSession, Touch, At, IInv, TypeOK
  <1>2. /\ Sound(g) /\ s \in Tokens /\ g.record \in StoredAdminSession
        /\ g.at \in Time /\ SameSession(g.record, s)
    BY <1>1 DEF IInv, HandlersInv, Sound, Handler
  <1>3. PICK key \in SessionKey :
          session' = [session EXCEPT ![s] = key] /\ SameSession(key.record, s)
    <2>1. CASE StoreSession(r)
      <3> DEFINE key == [record |-> g.record, expires |-> now + idleSeconds]
      <3>1. now + idleSeconds \in 0 .. MaxTime + idleSeconds
        BY AdminSessionsAssumption DEF IInv, TypeOK, Time
      <3>2. key \in SessionKey /\ key.record = g.record
        BY <1>2, <3>1 DEF SessionKey
      <3> QED BY <1>2, <2>1, <3>2 DEF StoreSession
    <2>2. CASE Touch(r)
      <3> DEFINE key == [record |-> [g.record EXCEPT !.lastSeenAt = g.at],
                         expires |-> now + Remaining(g.record, g.at)]
      <3>1. g.at < g.record.createdAt + absoluteSeconds
        BY <1>2, <2>2 DEF Touch, At, Sound
      <3>2. now + Remaining(g.record, g.at) \in 0 .. MaxTime + idleSeconds
        BY <1>2, <3>1, AdminSessionsAssumption
        DEF IInv, TypeOK, Time, Remaining, StoredAdminSession
      <3>3. /\ key.record \in StoredAdminSession
            /\ key.record.createdAt = g.record.createdAt
            /\ key.record.generation = g.record.generation
        BY <1>2 DEF StoredAdminSession
      <3>4. key \in SessionKey /\ SameSession(key.record, s)
        BY <1>2, <3>2, <3>3 DEF SessionKey, SameSession
      <3> QED BY <2>2, <3>4 DEF Touch
    <2> QED BY <2>1, <2>2
  <1>4. PICK h \in Handler :
          /\ handler' = [handler EXCEPT ![r] = h]
          /\ h.op = g.op /\ h.pc = pc /\ h.token = s /\ h.record = g.record /\ h.at = g.at
    BY <1>1, GotoHandler DEF Label
  <1>5. Sound(h) /\ ~Issuing(h)
    BY <1>1, <1>2, <1>4 DEF Sound, SameSession, Issuing
  <1>6. handler' \in [Handlers -> Handler \cup {None}] /\ HandlersInv' /\ LoginsInv'
    BY <1>1, <1>4, <1>5, StepKeepsHandlers DEF history
  <1>7. TypeOK'
    BY <1>1, <1>2, <1>3, <1>6 DEF IInv, TypeOK, history
  <1>8. CopiesInv'
    <2>1. session'[s] = key /\ \A t \in Tokens \ {s} : session'[t] = session[t]
      BY <1>2, <1>3 DEF IInv, TypeOK
    <2> QED BY <1>1, <1>3, <2>1 DEF IInv, CopiesInv, SameSession, history
  <1>9. HeldInv' /\ RevokedInv'
    BY <1>1 DEF IInv, HeldInv, RevokedInv, history
  <1> QED BY <1>6, <1>7, <1>8, <1>9 DEF IInv

\* A session deleted, or not, has no copy that another store could miss.
LEMMA DeleteInv ==
  ASSUME IInv, NEW r \in Handlers, RevokeQuietly(r) \/ Drop(r) \/ EndSession(r)
  PROVE  IInv'
  <1> DEFINE s == handler[r].token
  <1>1. /\ handler' = [handler EXCEPT ![r] = None]
        /\ Delete(s) \/ UNCHANGED session
        /\ UNCHANGED <<now, generation, active, held, issued, audited, revokedUntil>>
        /\ loggedOut' \in {loggedOut, loggedOut \cup {s}}
        /\ s \in Tokens
    <2>1. handler[r] # None /\ handler[r].pc \in {"undoing", "revoking", "dropping", "ending"}
      BY DEF RevokeQuietly, Drop, EndSession, At
    <2>2. s \in Tokens
      BY <2>1 DEF IInv, HandlersInv, Sound
    <2> QED BY <2>2 DEF RevokeQuietly, Drop, EndSession, End, history
  <1>2. handler' \in [Handlers -> Handler \cup {None}] /\ HandlersInv' /\ LoginsInv'
    BY <1>1, StepKeepsHandlers DEF Issuing
  <1>3. TypeOK'
    BY <1>1, <1>2 DEF IInv, TypeOK, Delete
  <1>4. CopiesInv'
    <2>1. \A t \in Tokens : session'[t] \in {None, session[t]}
      BY <1>1 DEF IInv, TypeOK, Delete
    <2> QED BY <1>1, <2>1 DEF IInv, CopiesInv, SameSession
  <1>5. HeldInv' /\ RevokedInv'
    BY <1>1 DEF IInv, HeldInv, RevokedInv
  <1> QED BY <1>2, <1>3, <1>4, <1>5 DEF IInv

\* A token is issued once, to a login that has it alone.
LEMMA ReadGenerationInv ==
  ASSUME IInv, NEW r \in Handlers, ReadGeneration(r)
  PROVE  IInv'
  <1>1. PICK s \in Tokens :
          /\ handler[r] # None /\ handler[r] \in Handler /\ handler[r].pc = "generating"
          /\ s = handler[r].token /\ issued[s] = None
          /\ handler[r].op \notin {"resetPassword", "revokeSessions"}
          /\ \A q \in Handlers \ {r} : handler[q] # None => handler[q].token # s
    BY DEF ReadGeneration, At, IInv, TypeOK, HandlersInv, Sound, LoginsInv, Issuing
  <1>2. PICK record \in StoredAdminSession :
          /\ record = [createdAt |-> now, lastSeenAt |-> now, generation |-> Generation]
          /\ record # None
    <2>1. Generation \in Count
      BY AdminSessionsAssumption DEF Generation, IInv, TypeOK, GenerationKey, Count
    <2>2. [createdAt |-> now, lastSeenAt |-> now, generation |-> Generation] \in StoredAdminSession
      BY <2>1 DEF IInv, TypeOK, StoredAdminSession
    <2> QED BY <2>2, AdminSessionsAssumption
  <1>3. PICK h \in Handler :
          /\ h = [handler[r] EXCEPT !.pc = "storing", !.record = record]
          /\ h.pc = "storing" /\ h.record = record /\ h.token = s /\ h.op = handler[r].op
    <2> DEFINE h == [handler[r] EXCEPT !.pc = "storing", !.record = record]
    <2>1. h \in Handler /\ h.pc = "storing" /\ h.record = record /\ h.token = handler[r].token
          /\ h.op = handler[r].op
      BY <1>1 DEF Handler, Label
    <2> QED BY <1>1, <2>1
  <1>4. /\ handler' = [handler EXCEPT ![r] = h] /\ issued' = [issued EXCEPT ![s] = record]
        /\ UNCHANGED <<now, store, active, held, audited, loggedOut, revokedUntil>>
    BY <1>1, <1>2, <1>3 DEF ReadGeneration
  <1>5. /\ handler'[r] = h /\ \A q \in Handlers \ {r} : handler'[q] = handler[q]
        /\ issued'[s] = record /\ \A t \in Tokens \ {s} : issued'[t] = issued[t]
    BY <1>1, <1>4 DEF IInv, TypeOK
  <1>6. TypeOK'
    BY <1>2, <1>3, <1>4 DEF IInv, TypeOK, store
  <1>7. CopiesInv'
    BY <1>1, <1>4, <1>5 DEF IInv, CopiesInv, SameSession, store
  <1>8. HandlersInv'
    <2>1. SameSession(record, s)'
      BY <1>2, <1>5 DEF SameSession
    <2>2. Sound(h)'
      BY <1>1, <1>2, <1>3, <2>1 DEF Sound
    <2>3. ASSUME NEW q \in Handlers \ {r}, NEW g, g = handler[q], g # None
          PROVE  Sound(g)'
      <3>1. Sound(g) /\ g.token # s
        BY <1>1, <2>3 DEF IInv, HandlersInv
      <3>2. g.pc = "auditing" => g.token \in Tokens
        BY <3>1 DEF Sound
      <3> QED BY <1>5, <3>1, <3>2 DEF Sound, SameSession
    <2> QED BY <1>5, <2>2, <2>3 DEF HandlersInv
  <1>9. LoginsInv'
    <2>1. ~Issuing(h)
      BY <1>3 DEF Issuing
    <2>2. ASSUME NEW q \in Handlers \ {r}, Issuing(handler[q])
          PROVE  /\ issued'[handler[q].token] = None
                 /\ \A p \in Handlers \ {q} : handler'[p] # None => handler'[p].token # handler[q].token
      <3>1. /\ handler[q].token # s /\ handler[q].token \in Tokens
            /\ issued[handler[q].token] = None
            /\ \A p \in Handlers \ {q} : handler[p] # None => handler[p].token # handler[q].token
        BY <1>1, <2>2 DEF IInv, HandlersInv, Sound, LoginsInv, Issuing
      <3> QED BY <1>3, <1>5, <3>1
    <2> QED BY <1>5, <2>1, <2>2 DEF LoginsInv, Issuing
  <1>10. HeldInv' /\ RevokedInv'
    BY <1>1, <1>2, <1>4, <1>5 DEF IInv, HeldInv, RevokedInv, store
  <1> QED BY <1>6, <1>7, <1>8, <1>9, <1>10 DEF IInv

\* A login reaches the administrator after its record.
LEMMA AuditLoginInv ==
  ASSUME IInv, NEW r \in Handlers, AuditLogin(r)
  PROVE  IInv'
  <1> DEFINE s == handler[r].token
  <1>1. /\ handler[r] # None /\ handler[r].pc = "auditing" /\ s \in Tokens /\ issued[s] # None
        /\ Sound(handler[r])
        /\ UNCHANGED <<now, store, active, issued, loggedOut, revokedUntil>>
    BY DEF AuditLogin, At, IInv, HandlersInv, Sound
  <1>2. PICK h \in Handler \cup {None} :
          /\ handler' = [handler EXCEPT ![r] = h]
          /\ h # None => h.pc = "undoing" /\ h.op = handler[r].op /\ h.token = s
    <2>1. CASE End(r)
      BY <2>1 DEF End
    <2>2. CASE Goto(r, "undoing")
      BY <1>1, <2>2, GotoHandler DEF Label
    <2> QED BY <2>1, <2>2 DEF AuditLogin, Deliver
  <1>3. h # None => Sound(h) /\ ~Issuing(h)
    BY <1>1, <1>2 DEF Sound, Issuing
  <1>4. handler' \in [Handlers -> Handler \cup {None}] /\ HandlersInv' /\ LoginsInv'
    BY <1>1, <1>2, <1>3, StepKeepsHandlers DEF Issuing
  <1>5. held' \in SUBSET Tokens /\ audited' \in SUBSET Tokens /\ HeldInv'
    BY <1>1 DEF AuditLogin, Deliver, IInv, TypeOK, HeldInv
  <1>6. TypeOK'
    BY <1>1, <1>4, <1>5 DEF IInv, TypeOK, store
  <1>7. CopiesInv' /\ RevokedInv'
    BY <1>1 DEF IInv, CopiesInv, SameSession, RevokedInv, store
  <1> QED BY <1>4, <1>5, <1>6, <1>7 DEF IInv

\* Every token issued before all are revoked is of a generation that is then over.
LEMMA RevokeAllInv ==
  ASSUME IInv, NEW r \in Handlers, RevokeAll(r)
  PROVE  IInv'
  <1>1. /\ handler[r] # None /\ handler[r].pc \in {"revokingAll", "revokingAgain"}
        /\ Sound(handler[r])
        /\ UNCHANGED <<now, session, active, held, issued, audited, loggedOut>>
    BY DEF RevokeAll, At, IInv, HandlersInv
  <1>2. PICK h \in Handler \cup {None} :
          /\ handler' = [handler EXCEPT ![r] = h]
          /\ h # None => /\ h.pc = "revokingAgain" /\ h.op = handler[r].op
                         /\ h.token = handler[r].token
    <2>1. CASE End(r)
      BY <2>1 DEF End
    <2>2. CASE Goto(r, "revokingAgain")
      BY <1>1, <2>2, GotoHandler DEF Label
    <2> QED BY <2>1, <2>2 DEF RevokeAll
  <1>3. h # None => Sound(h) /\ ~Issuing(h)
    BY <1>1, <1>2 DEF Sound, Issuing
  <1>4. handler' \in [Handlers -> Handler \cup {None}] /\ HandlersInv' /\ LoginsInv'
    BY <1>1, <1>2, <1>3, StepKeepsHandlers DEF Issuing
  <1>5. /\ generation' \in GenerationKey /\ generation' # None
        /\ Generation \in Nat /\ Generation < generation'.count
        /\ generation # None => generation'.expires = generation.expires
                              /\ generation'.count = generation.count + 1
                              /\ generation.count \in Nat
    BY AdminSessionsAssumption
    DEF RevokeAll, IncrementGeneration, Generation, IInv, TypeOK, GenerationKey, Count,
        Time, generationSeconds
  <1>6. revokedUntil' \in [Tokens -> 0 .. MaxTime + generationSeconds]
    <2>1. generation'.expires \in 0 .. MaxTime + generationSeconds
      BY <1>5 DEF GenerationKey
    <2> QED BY <2>1 DEF RevokeAll, IInv, TypeOK
  <1>7. TypeOK'
    BY <1>1, <1>4, <1>5, <1>6 DEF IInv, TypeOK
  <1>8. RevokedInv'
    <2> SUFFICES ASSUME NEW s \in Tokens, now < revokedUntil'[s]
                 PROVE  /\ issued[s] # None /\ generation'.expires = revokedUntil'[s]
                        /\ issued[s].generation < generation'.count
      BY <1>1, <1>5 DEF RevokedInv
    <2>1. CASE OfThisGeneration(s)
      <3>1. issued[s] # None /\ issued[s].generation = Generation
        BY <2>1 DEF OfThisGeneration
      <3>2. revokedUntil'[s] = generation'.expires
        BY <2>1 DEF RevokeAll
      <3> QED BY <1>5, <3>1, <3>2
    <2>2. CASE ~OfThisGeneration(s)
      <3>1. revokedUntil'[s] = revokedUntil[s]
        BY <2>2 DEF RevokeAll
      <3>2. /\ issued[s] # None /\ generation # None /\ generation.expires = revokedUntil[s]
            /\ issued[s].generation < generation.count
        BY <3>1 DEF IInv, RevokedInv
      <3>3. issued[s].generation \in Nat
        BY <3>2, AdminSessionsAssumption DEF IInv, TypeOK, StoredAdminSession, Count
      <3> QED BY <1>5, <3>1, <3>2, <3>3
    <2> QED BY <2>1, <2>2
  <1>9. CopiesInv' /\ HeldInv'
    BY <1>1 DEF IInv, CopiesInv, SameSession, HeldInv
  <1> QED BY <1>4, <1>7, <1>8, <1>9 DEF IInv

\* Time takes a key of the generation no earlier than it promised.
LEMMA TickInv == IInv /\ Tick => IInv'
  <1> SUFFICES ASSUME IInv, Tick PROVE IInv'
    OBVIOUS
  <1>1. /\ now' \in Time /\ now' = now + 1 /\ now \in Nat
        /\ \A s \in Tokens : session'[s] \in {None, session[s]}
        /\ generation' = IF generation # None /\ now' < generation.expires
                         THEN generation ELSE None
        /\ UNCHANGED <<active, handler, held, issued, audited, loggedOut, revokedUntil>>
    BY AdminSessionsAssumption DEF Tick, IInv, TypeOK, Time, history
  <1>2. session' \in [Tokens -> SessionKey \cup {None}]
    BY DEF Tick, IInv, TypeOK
  <1>3. TypeOK'
    BY <1>1, <1>2 DEF IInv, TypeOK
  <1>4. CopiesInv' /\ HandlersInv' /\ LoginsInv' /\ HeldInv'
    BY <1>1 DEF IInv, CopiesInv, SameSession, HandlersInv, Sound, LoginsInv, Issuing, HeldInv
  <1>5. RevokedInv'
    <2> SUFFICES ASSUME NEW s \in Tokens, now' < revokedUntil[s]
                 PROVE  /\ issued[s] # None /\ generation' # None
                        /\ generation'.expires = revokedUntil[s]
                        /\ issued[s].generation < generation'.count
      BY <1>1 DEF RevokedInv
    <2>1. now < revokedUntil[s]
      <3>1. revokedUntil[s] \in 0 .. MaxTime + generationSeconds
        BY DEF IInv, TypeOK
      <3> QED BY <1>1, <3>1, AdminSessionsAssumption DEF generationSeconds
    <2> QED BY <1>1, <2>1 DEF IInv, RevokedInv
  <1> QED BY <1>3, <1>4, <1>5 DEF IInv
-----------------------------------------------------------------------------
\* Every step keeps the invariant.
LEMMA NextInv == IInv /\ [Next]_vars => IInv'
  <1> SUFFICES ASSUME IInv, [Next]_vars PROVE IInv'
    OBVIOUS
  <1>1. ASSUME NEW r \in Handlers, NEW s \in Tokens, Login(r, s) PROVE IInv'
    BY <1>1, LoginInv
  <1>2. ASSUME NEW r \in Handlers, NEW s \in Tokens, NEW op \in Op, Request(r, op, s) PROVE IInv'
    BY <1>2, RequestsInv
  <1>3. ASSUME NEW r \in Handlers, NEW op \in Op, Operate(r, op) PROVE IInv'
    BY <1>3, RequestsInv
  <1>4. ASSUME NEW r \in Handlers,
               \/ FindAccount(r) \/ CheckGeneration(r) \/ Identify(r)
               \/ VerifyPassword(r) \/ Fail(r)
        PROVE  IInv'
    BY <1>4, LookInv
  <1>5. ASSUME NEW r \in Handlers, ReadGeneration(r) PROVE IInv'
    BY <1>5, ReadGenerationInv
  <1>6. ASSUME NEW r \in Handlers, StoreSession(r) \/ Touch(r) PROVE IInv'
    BY <1>6, WriteInv
  <1>7. ASSUME NEW r \in Handlers, AuditLogin(r) PROVE IInv'
    BY <1>7, AuditLoginInv
  <1>8. ASSUME NEW r \in Handlers, RevokeQuietly(r) \/ Drop(r) \/ EndSession(r) PROVE IInv'
    BY <1>8, DeleteInv
  <1>9. ASSUME NEW r \in Handlers, ReadSession(r) PROVE IInv'
    BY <1>9, ReadSessionInv
  <1>10. ASSUME NEW r \in Handlers, RevokeAll(r) PROVE IInv'
    BY <1>10, RevokeAllInv
  <1>11. CASE Deactivate \/ UNCHANGED vars
    <2>1. active' \in BOOLEAN /\ UNCHANGED <<now, session, generation, handler, held, issued, audited, loggedOut, revokedUntil>>
      BY <1>11 DEF Deactivate, vars, store, history, IInv, TypeOK
    <2> QED BY <2>1 DEF IInv, TypeOK, CopiesInv, SameSession, HandlersInv, Sound, LoginsInv,
                        Issuing, HeldInv, RevokedInv
  <1>12. CASE Tick
    BY <1>12, TickInv
  <1> QED BY <1>1, <1>2, <1>3, <1>4, <1>5, <1>6, <1>7, <1>8, <1>9, <1>10, <1>11, <1>12 DEF Next

\* The inductive invariant holds throughout.
THEOREM Invariance == Spec => []IInv
  BY InitInv, NextInv, PTL DEF Spec

\* Valkey, the account and every handler hold values of their types, however their calls
\* interleave: no handler acts on a key that is not there.
THEOREM TypeCorrect == Spec => []TypeOK
  <1>1. IInv => TypeOK
    BY DEF IInv
  <1> QED BY Invariance, <1>1, PTL

\* No session is accepted beyond the absolute life it was made with, though every request
\* that resolves it writes it back.
THEOREM KeptLifetimes == Spec => []LifetimesAreKept
  <1>1. IInv => LifetimesAreKept
    <2> SUFFICES ASSUME IInv, NEW r \in Handlers, handler[r] # None,
                        handler[r].pc \in {"touching", "identifying", "ending", "verifying"}
                 PROVE  handler[r].at < issued[handler[r].token].createdAt + absoluteSeconds
      BY DEF LifetimesAreKept, At
    <2> QED BY DEF IInv, HandlersInv, Sound, SameSession
  <1> QED BY Invariance, <1>1, PTL

\* revokeAll ends every session of its generation for as long as the key that counts it is
\* kept: a copy written back later, or stored for the first time, is of the generation before.
THEOREM RevokedRefused == Spec => []RevokedAreRefused
  <1>1. IInv => RevokedAreRefused
    <2> SUFFICES ASSUME IInv, NEW s \in Tokens, now < revokedUntil[s], Resolves(s)
                 PROVE  FALSE
      BY DEF RevokedAreRefused
    <2>1. issued[s].generation = generation.count /\ issued[s].generation < generation.count
      BY DEF IInv, RevokedInv, CopiesInv, SameSession, Resolves, Generation
    <2>2. generation.count \in Nat
      BY AdminSessionsAssumption DEF IInv, TypeOK, RevokedInv, GenerationKey, Count
    <2> QED BY <2>1, <2>2
  <1> QED BY Invariance, <1>1, PTL

\* An administrator with a session is in the audit: the answer follows the record.
THEOREM AuditedHolders == Spec => []HeldAreAudited
  <1>1. IInv => HeldAreAudited
    BY DEF IInv, HeldInv, HeldAreAudited
  <1> QED BY Invariance, <1>1, PTL
=============================================================================
