---------------------------- MODULE AdminSessions ----------------------------
(***************************************************************************)
(* The sessions of the administrator: records in Valkey that expire, and a *)
(* generation beside them, whose increment revokes every session at once.  *)
(* Requests that resolve a session write it back with a longer life, while *)
(* others log it out or revoke them all; each call to Valkey or PostgreSQL *)
(* is one step, and any of them may fail.                                  *)
(*                                                                         *)
(* Passwords are abstracted: a password given is right or wrong, and what  *)
(* updatePassword stores, and a login's rehash of it, is left out.  So is  *)
(* how many attempts the login limit allows: it refuses, or does not.      *)
(***************************************************************************)
EXTENDS Naturals

CONSTANTS
  Handlers,        \* requests, and runs of admin-cli, under way
  MaxTokens,       \* bound on logins
  idleSeconds, absoluteSeconds,
  MaxTime,         \* bound on the clock
  MaxRevocations,  \* bound on the increments of a generation
  None

Tokens == 1 .. MaxTokens
Time == 0 .. MaxTime
Count == 0 .. MaxRevocations
\* the generation outlives every session it may revoke
generationSeconds == 2 * absoluteSeconds

StoredAdminSession == [createdAt : Time, lastSeenAt : Time, generation : Count]
SessionKey == [record : StoredAdminSession, expires : 0 .. MaxTime + idleSeconds]
GenerationKey == [count : Count, expires : 0 .. MaxTime + generationSeconds]

Op == {"login", "request", "logout", "changePassword", "resetPassword", "revokeSessions"}
Label == {"finding", "generating", "storing", "auditing", "undoing",
          "reading", "checking", "touching", "dropping", "identifying", "revoking",
          "ending", "verifying", "revokingAll", "revokingAgain"}
\* record is what the handler read or is about to write, at when it looked at it
Handler == [op : Op, pc : Label, token : 0 .. MaxTokens,
            record : StoredAdminSession \cup {None}, at : Time]

ASSUME AdminSessionsAssumption ==
  /\ MaxTokens \in Nat /\ MaxTime \in Nat /\ MaxRevocations \in Nat
  /\ idleSeconds \in Nat \ {0} /\ absoluteSeconds \in Nat
  /\ idleSeconds < absoluteSeconds
  /\ None \notin SessionKey \cup GenerationKey \cup Handler \cup StoredAdminSession

VARIABLES
  now,
  session,      \* keys of Valkey: one per token
  generation,   \* and that of the generation
  active,       \* status of the account
  handler,      \* what each handler is at, None when it is free
  issued,       \* when and in which generation each token was made
  held,         \* tokens that reached the administrator
  audited,      \* tokens whose login_succeeded is recorded
  loggedOut,    \* tokens a logout ended
  revokedUntil  \* tokens issued before a revokeAll: when the key that ended them expires

store == <<session, generation>>
history == <<issued, audited, loggedOut, revokedUntil>>
vars == <<now, store, active, handler, held, history>>

TypeOK ==
  /\ now \in Time
  /\ session \in [Tokens -> SessionKey \cup {None}]
  /\ generation \in GenerationKey \cup {None}
  /\ active \in BOOLEAN
  /\ handler \in [Handlers -> Handler \cup {None}]
  /\ issued \in [Tokens -> StoredAdminSession \cup {None}]
  /\ held \in SUBSET Tokens
  /\ audited \in SUBSET Tokens
  /\ loggedOut \in SUBSET Tokens
  /\ revokedUntil \in [Tokens -> 0 .. MaxTime + generationSeconds]

Init ==
  /\ now = 0
  /\ session = [s \in Tokens |-> None]
  /\ generation = None
  /\ active = TRUE
  /\ handler = [r \in Handlers |-> None]
  /\ issued = [s \in Tokens |-> None]
  /\ held = {} /\ audited = {} /\ loggedOut = {}
  /\ revokedUntil = [s \in Tokens |-> 0]

\* #generation: no key is generation 0
Generation == IF generation = None THEN 0 ELSE generation.count

\* what resolve demands of a record before it looks at the generation
Expired(record, time) ==
  \/ record.createdAt + absoluteSeconds <= time
  \/ record.lastSeenAt + idleSeconds < time

At(r, pc) == handler[r] # None /\ handler[r].pc = pc
Goto(r, pc) == handler' = [handler EXCEPT ![r].pc = pc]
End(r) == handler' = [handler EXCEPT ![r] = None]
Start(r, op, pc, s) ==
  /\ handler[r] = None
  /\ handler' = [handler EXCEPT ![r] = [op |-> op, pc |-> pc, token |-> s,
                                        record |-> None, at |-> 0]]
  /\ UNCHANGED <<now, store, active, held, history>>
Delete(s) == session' = [session EXCEPT ![s] = None]
-----------------------------------------------------------------------------
\* login

Login(r, s) ==
  /\ issued[s] = None
  /\ \A q \in Handlers : handler[q] # None => handler[q].token # s
  /\ Start(r, "login", "finding", s)

\* the limit, the account and its password, up to sessions.create
FindAccount(r) ==
  /\ At(r, "finding")
  /\ \/ active /\ Goto(r, "generating")
     \/ End(r)
  /\ UNCHANGED <<now, store, active, held, history>>

ReadGeneration(r) ==
  /\ At(r, "generating")
  /\ LET s == handler[r].token
         record == [createdAt |-> now, lastSeenAt |-> now, generation |-> Generation]
     IN /\ handler' = [handler EXCEPT ![r].pc = "storing", ![r].record = record]
        /\ issued' = [issued EXCEPT ![s] = record]
  /\ UNCHANGED <<now, store, active, held, audited, loggedOut, revokedUntil>>

\* Mutant of StoreSession: the generation is the one of the moment it stores.
StoreSessionOfNow(r) ==
  /\ At(r, "storing")
  /\ session' = [session EXCEPT ![handler[r].token] =
                   [record |-> [handler[r].record EXCEPT !.generation = Generation],
                    expires |-> now + idleSeconds]]
  /\ Goto(r, "auditing")
  /\ UNCHANGED <<now, generation, active, held, history>>

StoreSession(r) ==
  /\ At(r, "storing")
  /\ session' = [session EXCEPT ![handler[r].token] =
                   [record |-> handler[r].record, expires |-> now + idleSeconds]]
  /\ Goto(r, "auditing")
  /\ UNCHANGED <<now, generation, active, held, history>>

\* the answer, unless it is lost
Deliver(r) == held' \in {held, held \cup {handler[r].token}} /\ End(r)

\* login_succeeded is recorded and the token returned, or the session undone
AuditLogin(r) ==
  /\ At(r, "auditing")
  /\ \/ audited' = audited \cup {handler[r].token} /\ Deliver(r)
     \/ audited' = audited /\ held' = held /\ Goto(r, "undoing")
  /\ UNCHANGED <<now, store, active, issued, loggedOut, revokedUntil>>

\* a revocation whose failure is ignored
RevokeQuietly(r) ==
  /\ At(r, "undoing") \/ At(r, "revoking")
  /\ Delete(handler[r].token) \/ UNCHANGED session
  /\ End(r)
  /\ UNCHANGED <<now, generation, active, held, history>>
-----------------------------------------------------------------------------
\* resolve, in front of every request that needs a session

Request(r, op, s) ==
  /\ s \in held
  /\ op \in {"request", "logout", "changePassword"}
  /\ Start(r, op, "reading", s)

ReadSession(r) ==
  /\ At(r, "reading")
  /\ LET key == session[handler[r].token]
     IN \/ key = None /\ End(r)
        \/ /\ key # None
           /\ handler' = [handler EXCEPT
                ![r].record = key.record, ![r].at = now,
                ![r].pc = IF Expired(key.record, now) THEN "dropping" ELSE "checking"]
  /\ UNCHANGED <<now, store, active, held, history>>

CheckGeneration(r) ==
  /\ At(r, "checking")
  /\ Goto(r, IF handler[r].record.generation = Generation THEN "touching" ELSE "dropping")
  /\ UNCHANGED <<now, store, active, held, history>>

Drop(r) ==
  /\ At(r, "dropping")
  /\ Delete(handler[r].token) /\ End(r)
  /\ UNCHANGED <<now, generation, active, held, history>>

\* how long a session seen at a time may live on unseen
Remaining(record, time) ==
  LET left == record.createdAt + absoluteSeconds - time
  IN IF left < idleSeconds THEN left ELSE idleSeconds

\* Mutant of Touch: the session begins anew.
TouchRenewing(r) ==
  /\ At(r, "touching")
  /\ LET h == handler[r]
     IN session' = [session EXCEPT ![h.token] =
          [record |-> [h.record EXCEPT !.lastSeenAt = h.at, !.createdAt = h.at],
           expires |-> now + Remaining(h.record, h.at)]]
  /\ Goto(r, IF handler[r].op = "logout" THEN "ending" ELSE "identifying")
  /\ UNCHANGED <<now, generation, active, held, history>>

\* the record is written back whatever became of it since it was read
Touch(r) ==
  /\ At(r, "touching")
  /\ LET h == handler[r]
     IN session' = [session EXCEPT ![h.token] =
          [record |-> [h.record EXCEPT !.lastSeenAt = h.at],
           expires |-> now + Remaining(h.record, h.at)]]
  /\ Goto(r, IF handler[r].op = "logout" THEN "ending" ELSE "identifying")
  /\ UNCHANGED <<now, generation, active, held, history>>

\* authenticate looks at the account; a request goes on to its own handler
Identify(r) ==
  /\ At(r, "identifying")
  /\ \/ ~active /\ Goto(r, "revoking")
     \/ active /\ handler[r].op = "changePassword" /\ Goto(r, "verifying")
     \/ active /\ handler[r].op = "request" /\ End(r)
  /\ UNCHANGED <<now, store, active, held, history>>

\* logout, unless the CSRF token is wrong
EndSession(r) ==
  /\ At(r, "ending")
  /\ \/ Delete(handler[r].token) /\ loggedOut' = loggedOut \cup {handler[r].token}
     \/ UNCHANGED <<session, loggedOut>>
  /\ End(r)
  /\ UNCHANGED <<now, generation, active, held, issued, audited, revokedUntil>>
-----------------------------------------------------------------------------
\* changePassword, and admin-cli

Operate(r, op) ==
  /\ op \in {"resetPassword", "revokeSessions"}
  /\ Start(r, op, "revokingAll", 0)

\* the account again, the current password and the CSRF token
VerifyPassword(r) ==
  /\ At(r, "verifying")
  /\ \/ /\ active
        /\ handler' = [handler EXCEPT ![r].pc = "revokingAll", ![r].record = None, ![r].at = 0]
     \/ End(r)
  /\ UNCHANGED <<now, store, active, held, history>>

\* incrementWithExpiry: the key expires as its first increment said
IncrementGeneration ==
  /\ Generation < MaxRevocations
  /\ generation' =
       IF generation = None THEN [count |-> 1, expires |-> now + generationSeconds]
       ELSE [generation EXCEPT !.count = @ + 1]

\* a token made in this generation, whether its session is stored already or not
OfThisGeneration(s) == issued[s] # None /\ issued[s].generation = Generation

\* revokeAll; a new password is stored between two of them
RevokeAll(r) ==
  /\ At(r, "revokingAll") \/ At(r, "revokingAgain")
  /\ IncrementGeneration
  /\ revokedUntil' = [s \in Tokens |-> IF OfThisGeneration(s) THEN generation'.expires
                                       ELSE revokedUntil[s]]
  /\ IF At(r, "revokingAll") /\ handler[r].op # "revokeSessions"
       THEN Goto(r, "revokingAgain") ELSE End(r)
  /\ UNCHANGED <<now, session, active, held, issued, audited, loggedOut>>
-----------------------------------------------------------------------------
\* A call fails, the process dies: the handler ends where it is.
Fail(r) ==
  /\ handler[r] # None
  /\ End(r)
  /\ UNCHANGED <<now, store, active, held, history>>

\* an operator of the database, outside the program
Deactivate ==
  /\ active /\ active' = FALSE
  /\ UNCHANGED <<now, store, handler, held, history>>

\* time passes, and keys whose time is over are gone
Tick ==
  LET Alive(key) == IF key # None /\ now' < key.expires THEN key ELSE None
  IN /\ now < MaxTime /\ now' = now + 1
     /\ session' = [s \in Tokens |-> Alive(session[s])]
     /\ generation' = Alive(generation)
     /\ UNCHANGED <<active, handler, held, history>>

Next ==
  \/ \E r \in Handlers :
       \/ \E s \in Tokens : Login(r, s) \/ \E op \in Op : Request(r, op, s)
       \/ \E op \in Op : Operate(r, op)
       \/ FindAccount(r) \/ ReadGeneration(r) \/ StoreSession(r) \/ AuditLogin(r)
       \/ RevokeQuietly(r)
       \/ ReadSession(r) \/ CheckGeneration(r) \/ Drop(r) \/ Touch(r) \/ Identify(r)
       \/ EndSession(r) \/ VerifyPassword(r) \/ RevokeAll(r) \/ Fail(r)
  \/ Deactivate \/ Tick

Spec == Init /\ [][Next]_vars
-----------------------------------------------------------------------------
\* Properties.

\* a session that resolve would find now
Resolves(s) ==
  /\ session[s] # None
  /\ ~Expired(session[s].record, now)
  /\ session[s].record.generation = Generation

\* A request is authenticated within the absolute life of its session only, however
\* often and however late others wrote the session back.
LifetimesAreKept ==
  \A r \in Handlers :
    (\E pc \in {"touching", "identifying", "ending", "verifying"} : At(r, pc)) =>
      handler[r].at < issued[handler[r].token].createdAt + absoluteSeconds

\* A session whose generation revokeAll ended does not resolve while the key that ended
\* it is kept, though a handler that read it earlier may write it back, and though the
\* login that read the generation before revokeAll may store it after.
RevokedAreRefused == \A s \in Tokens : now < revokedUntil[s] => ~Resolves(s)

\* The administrator never holds a session whose login the audit does not know.
HeldAreAudited == held \subseteq audited

\* Does not hold, as the README tells: a session that was logged out, or revoked with
\* all others, never works again.  A request that had read it writes it back.
RevokedStaysOut == \A s \in Tokens : s \in loggedOut \/ revokedUntil[s] # 0 => ~Resolves(s)
-----------------------------------------------------------------------------
\* The inductive invariant behind the properties: every copy of a session, in the store
\* or in the hands of a handler, is of the time and the generation it was made in.

SameSession(record, s) ==
  /\ issued[s] # None
  /\ record.createdAt = issued[s].createdAt
  /\ record.generation = issued[s].generation

CopiesInv == \A s \in Tokens : session[s] # None => SameSession(session[s].record, s)

\* what a handler knows: a request has a token, from "storing" on a copy of its session,
\* and from "checking" on one it found alive
Sound(h) ==
  /\ h.op \in {"resetPassword", "revokeSessions"} => h.pc \in {"revokingAll", "revokingAgain"}
  /\ h.op \notin {"resetPassword", "revokeSessions"} => h.token \in Tokens
  /\ h.pc \in {"storing", "checking", "touching", "dropping", "identifying", "ending",
               "verifying"} =>
       h.record # None /\ SameSession(h.record, h.token)
  /\ h.pc \in {"checking", "touching", "identifying", "ending", "verifying"} =>
       h.at < h.record.createdAt + absoluteSeconds
  /\ h.pc = "auditing" => issued[h.token] # None

HandlersInv == \A r \in Handlers : handler[r] # None => Sound(handler[r])

\* a token under way to be issued is nobody else's
Issuing(h) == h # None /\ h.pc \in {"finding", "generating"}
LoginsInv ==
  \A r \in Handlers : Issuing(handler[r]) =>
    /\ issued[handler[r].token] = None
    /\ \A q \in Handlers \ {r} : handler[q] # None => handler[q].token # handler[r].token

HeldInv == held \subseteq audited /\ \A s \in held : issued[s] # None

RevokedInv ==
  \A s \in Tokens : now < revokedUntil[s] =>
    /\ issued[s] # None /\ generation # None
    /\ generation.expires = revokedUntil[s]
    /\ issued[s].generation < generation.count

IInv == /\ TypeOK /\ CopiesInv /\ HandlersInv /\ LoginsInv /\ HeldInv /\ RevokedInv
=============================================================================
