---------------------------- MODULE NodeCalls ---------------------------
(***************************************************************************)
(* One instance of the Node.js package: the calls an application makes of  *)
(* the TypeScript wrapper, the statements the native core runs for them on *)
(* its connection pool, and close, which may come between any two.         *)
(*                                                                         *)
(* A call is a promise.  It checks the flag, runs its statements one       *)
(* connection at a time, and is resolved or rejected; a callback of the    *)
(* application that throws turns a success into a rejection.  What the     *)
(* statements of a validation decide is in Sessions.                       *)
(***************************************************************************)
EXTENDS Naturals, FiniteSets

CONSTANTS
  SessionIds,       \* ids a create may draw
  KeyHashes,        \* hashes a new key may have
  Nobody,           \* no session and no key
  Promises,         \* calls that may be in flight at once
  MaxAttempts,      \* maxValidationAttempts
  MaxConnections    \* connections of the pool

VARIABLES
  isClosed,     \* the wrapper's flag
  pool,         \* "open", "closing" or "closed"
  table,        \* the sessions table
  keyring,      \* the api_keys table
  ops,          \* calls in flight
  known,        \* history: sessions and keys whose creation was resolved
  removed,      \* history: sessions and keys whose deletion was answered with true
  answered,     \* history: the close that waited for the pool has been answered
  threw         \* history: a callback threw

tables == <<table, keyring>>

nodeVars == <<isClosed, pool, tables, ops, known, removed, answered, threw>>

ASSUME NodeAssumption ==
  /\ MaxConnections \in Nat \ {0} /\ MaxAttempts \in Nat
  /\ Nobody \notin SessionIds \union KeyHashes /\ SessionIds \intersect KeyHashes = {}

\* The struct CaptchaApi as create leaves it: the pool is open, the tables exist.
NoPromise == [op |-> "none", at |-> "none", on |-> Nobody, has |-> FALSE, did |-> FALSE]

NodeInit ==
  /\ isClosed = FALSE /\ pool = "open"
  /\ table = [id \in SessionIds |-> [is |-> "unborn", attempts |-> 0]]
  /\ keyring = [h \in KeyHashes |-> "unborn"]
  /\ ops = [p \in Promises |-> NoPromise]
  /\ known = {} /\ removed = {} /\ answered = FALSE /\ threw = FALSE

-----------------------------------------------------------------------------
(***************************************************************************)
(* The pool.  A closing pool hands out no connection, tells who waits for  *)
(* one, and is closed when the last has come back.                         *)
(***************************************************************************)
Statements ==
  {"insert", "select", "evict", "refuse", "accept", "charge", "delete", "sweep",
   "insert key", "select key", "update key", "delete key"}

Connected == {p \in Promises : ops[p].has}

Waits(p) == ops[p].at \in Statements /\ ~ops[p].has

Quietly == UNCHANGED <<isClosed, pool, tables, known, removed, answered, threw>>

Acquire(p) ==
  /\ Waits(p)
  /\ pool = "open" /\ Cardinality(Connected) < MaxConnections
  /\ ops' = [ops EXCEPT ![p].has = TRUE]
  /\ Quietly

\* An error of the core: the promise is rejected, and the application told.
Rejected(p) == ops' = [ops EXCEPT ![p] = NoPromise]

\* A failure ends the call, but for the deletion of a spent session.
Breaks(p) ==
  IF ops[p].at = "refuse"
  THEN ops' = [ops EXCEPT ![p].at = "ok", ![p].has = FALSE]
  ELSE Rejected(p)

\* The pool is closing, or every connection was taken for too long.
AcquireFails(p) ==
  /\ Waits(p)
  /\ pool # "open" \/ Cardinality(Connected) = MaxConnections
  /\ Breaks(p)
  /\ Quietly

StatementFails(p) == ops[p].has /\ Breaks(p) /\ Quietly

PoolCloses ==
  /\ pool = "closing" /\ Connected = {}
  /\ pool' = "closed"
  /\ UNCHANGED <<isClosed, tables, ops, known, removed, answered, threw>>

\* Statement s runs, and its connection is given back.
Runs(p, s) == ops[p].at = s /\ ops[p].has

GoesTo(p, to) == ops' = [ops EXCEPT ![p].at = to, ![p].has = FALSE]

\* The last statement: what it was about, and whether it did anything.
Ends(p, on, did) ==
  ops' = [ops EXCEPT ![p].at = "ok", ![p].has = FALSE, ![p].on = on, ![p].did = did]

OnSessions == UNCHANGED <<isClosed, pool, keyring, known, removed, answered, threw>>
OnKeys == UNCHANGED <<isClosed, pool, table, known, removed, answered, threw>>

-----------------------------------------------------------------------------
(***************************************************************************)
(* The native core: what each method does on a connection.                 *)
(***************************************************************************)
\* Mutant: the session that was stored is read back for the answer.
create_session_ReadsBack(p) ==
  /\ Runs(p, "insert")
  /\ \E id \in SessionIds :
       /\ table[id].is = "unborn"
       /\ table' = [table EXCEPT ![id].is = "live"]
       /\ ops' = [ops EXCEPT ![p].at = "select", ![p].has = FALSE, ![p].on = id]
  /\ OnSessions

create_session(p) ==
  /\ Runs(p, "insert")
  /\ \E id \in SessionIds :
       /\ table[id].is = "unborn"
       /\ table' = [table EXCEPT ![id].is = "live"]
       /\ Ends(p, id, TRUE)
  /\ OnSessions

\* get_active_session: an expired session is deleted on the way, and missing.
Active(p, to) ==
  LET is == table[ops[p].on].is IN
  /\ CASE is = "live" -> to
       [] is = "expired" -> GoesTo(p, "evict")
       [] OTHER -> Rejected(p)
  /\ UNCHANGED table
  /\ OnSessions

Spent(id) == table[id].attempts >= MaxAttempts

select_for_validate(p) ==
  /\ Runs(p, "select") /\ ops[p].op = "validate"
  /\ \E verdict \in IF Spent(ops[p].on) THEN {"refuse"} ELSE {"accept", "charge"} :
       Active(p, GoesTo(p, verdict))

DeleteRow(id) ==
  table' = [table EXCEPT ![id].is = IF @ \in {"live", "expired"} THEN "gone" ELSE @]

evict(p) ==
  /\ Runs(p, "evict")
  /\ DeleteRow(ops[p].on) /\ Rejected(p)
  /\ OnSessions

\* A spent session and a solved one are deleted; nobody looks whether it was
\* there.  A wrong answer is counted.
validate(p) ==
  \/ select_for_validate(p)
  \/ /\ Runs(p, "refuse") \/ Runs(p, "accept")
     /\ DeleteRow(ops[p].on) /\ Ends(p, ops[p].on, TRUE)
     /\ OnSessions
  \/ /\ Runs(p, "charge")
     /\ LET id == ops[p].on IN
        table' = [table EXCEPT ![id].attempts = IF table[id].is = "gone" THEN @ ELSE @ + 1]
     /\ Ends(p, ops[p].on, TRUE)
     /\ OnSessions

\* A picture that does not decrypt is an error.
get_image(p) ==
  /\ Runs(p, "select") /\ ops[p].op = "getImage"
  /\ Active(p, Ends(p, ops[p].on, TRUE) \/ Rejected(p))

get_session(p) ==
  /\ Runs(p, "select") /\ ops[p].op = "getSession"
  /\ Active(p, Ends(p, ops[p].on, TRUE))

delete_session(p) ==
  /\ Runs(p, "delete")
  /\ DeleteRow(ops[p].on)
  /\ Ends(p, ops[p].on, table[ops[p].on].is \in {"live", "expired"})
  /\ OnSessions

cleanup_expired(p) ==
  /\ Runs(p, "sweep")
  /\ table' = [id \in SessionIds |->
                 IF table[id].is = "expired" THEN [table[id] EXCEPT !.is = "gone"] ELSE table[id]]
  /\ Ends(p, Nobody, table' # table)
  /\ OnSessions

create_api_key(p) ==
  /\ Runs(p, "insert key")
  /\ \E h \in KeyHashes :
       /\ keyring[h] = "unborn"
       /\ keyring' = [keyring EXCEPT ![h] = "active"]
       /\ Ends(p, h, TRUE)
  /\ OnKeys

KeyIsThere(h) == keyring[h] \in {"active", "inactive"}

validate_api_key(p) ==
  /\ Runs(p, "select key") /\ ops[p].op = "validateApiKey"
  /\ Ends(p, ops[p].on, keyring[ops[p].on] = "active")
  /\ UNCHANGED keyring /\ OnKeys

get_api_key(p) ==
  /\ Runs(p, "select key") /\ ops[p].op = "getApiKey"
  /\ Ends(p, ops[p].on, KeyIsThere(ops[p].on))
  /\ UNCHANGED keyring /\ OnKeys

list_api_keys(p) ==
  /\ Runs(p, "select key") /\ ops[p].op = "listApiKeys"
  /\ Ends(p, Nobody, TRUE)
  /\ UNCHANGED keyring /\ OnKeys

\* A description alone leaves the key as active as it was.
update_api_key(p) ==
  /\ Runs(p, "update key")
  /\ LET h == ops[p].on IN
     /\ \E to \in {"active", "inactive", keyring[h]} :
          keyring' = [keyring EXCEPT ![h] = IF KeyIsThere(h) THEN to ELSE @]
     /\ Ends(p, h, KeyIsThere(h))
  /\ OnKeys

delete_api_key(p) ==
  /\ Runs(p, "delete key")
  /\ LET h == ops[p].on IN
     /\ keyring' = [keyring EXCEPT ![h] = IF KeyIsThere(h) THEN "gone" ELSE @]
     /\ Ends(p, h, KeyIsThere(h))
  /\ OnKeys

\* Time passes.
Expires ==
  /\ \E id \in SessionIds :
       table[id].is = "live" /\ table' = [table EXCEPT ![id].is = "expired"]
  /\ UNCHANGED <<isClosed, pool, keyring, ops, known, removed, answered, threw>>

-----------------------------------------------------------------------------
(***************************************************************************)
(* The methods of the wrapper, up to their one await.                      *)
(***************************************************************************)
\* On a closed instance a method throws, and does nothing else.
ensureNotClosed == ~isClosed

CallsCore(p, op, at, on) ==
  /\ ops[p] = NoPromise
  /\ ensureNotClosed
  /\ ops' = [ops EXCEPT
       ![p] = [op |-> op, at |-> at, on |-> on, has |-> FALSE, did |-> FALSE]]
  /\ Quietly

\* Parameters that are refused never reach the database, and change nothing.
createSession(p) == CallsCore(p, "createSession", "insert", Nobody)
validateSession(p) == \E id \in SessionIds : CallsCore(p, "validate", "select", id)
getImage(p) == \E id \in SessionIds : CallsCore(p, "getImage", "select", id)
getSession(p) == \E id \in SessionIds : CallsCore(p, "getSession", "select", id)
deleteSession(p) == \E id \in SessionIds : CallsCore(p, "deleteSession", "delete", id)
cleanupExpired(p) == CallsCore(p, "cleanupExpired", "sweep", Nobody)
createApiKey(p) == CallsCore(p, "createApiKey", "insert key", Nobody)
validateApiKey(p) == \E h \in KeyHashes : CallsCore(p, "validateApiKey", "select key", h)
getApiKey(p) == \E h \in KeyHashes : CallsCore(p, "getApiKey", "select key", h)
listApiKeys(p) == CallsCore(p, "listApiKeys", "select key", Nobody)
updateApiKey(p) == \E h \in KeyHashes : CallsCore(p, "updateApiKey", "update key", h)
deleteApiKey(p) == \E h \in KeyHashes : CallsCore(p, "deleteApiKey", "delete key", h)

\* The methods that tell the application before they resolve.
Notifies(p) ==
  \/ ops[p].op \in {"createSession", "validate"}
  \/ ops[p].op = "deleteSession" /\ ops[p].did

Creations == {"createSession", "createApiKey"}
Deletions == {"deleteSession", "deleteApiKey"}

Resolves(p) ==
  /\ ops[p].at = "ok"
  /\ known' = known \union IF ops[p].op \in Creations THEN {ops[p].on} ELSE {}
  /\ removed' = removed \union IF ops[p].op \in Deletions /\ ops[p].did THEN {ops[p].on} ELSE {}
  /\ ops' = [ops EXCEPT ![p] = NoPromise]
  /\ UNCHANGED <<isClosed, pool, tables, answered, threw>>

\* The callback is called within the same try: when it throws, what was done is
\* rejected.
CallbackThrows(p) ==
  /\ ops[p].at = "ok" /\ Notifies(p)
  /\ Rejected(p)
  /\ threw' = TRUE
  /\ UNCHANGED <<isClosed, pool, tables, known, removed, answered>>

\* The flag first.  A second close returns at once, closed or not.
CloseInstance ==
  /\ ~isClosed
  /\ isClosed' = TRUE /\ pool' = "closing"
  /\ UNCHANGED <<tables, ops, known, removed, answered, threw>>

\* Mutant: close does not wait for the pool.
CloseAnswered_AtOnce ==
  /\ isClosed /\ ~answered
  /\ answered' = TRUE
  /\ threw' \in {threw, TRUE}
  /\ UNCHANGED <<isClosed, pool, tables, ops, known, removed>>

CloseAnswered ==
  /\ isClosed /\ pool = "closed" /\ ~answered
  /\ answered' = TRUE
  /\ threw' \in {threw, TRUE}
  /\ UNCHANGED <<isClosed, pool, tables, ops, known, removed>>

\* What happens of itself once a call is made.
Continues(p) ==
  \/ Acquire(p) \/ AcquireFails(p) \/ StatementFails(p)
  \/ create_session(p) \/ validate(p) \/ evict(p) \/ get_image(p) \/ get_session(p)
  \/ delete_session(p) \/ cleanup_expired(p)
  \/ create_api_key(p) \/ validate_api_key(p) \/ get_api_key(p) \/ list_api_keys(p)
  \/ update_api_key(p) \/ delete_api_key(p)
  \/ Resolves(p) \/ CallbackThrows(p)

SessionCall(p) ==
  \/ createSession(p) \/ validateSession(p) \/ getImage(p) \/ getSession(p)
  \/ deleteSession(p) \/ cleanupExpired(p)

KeyCall(p) ==
  \/ createApiKey(p) \/ validateApiKey(p) \/ getApiKey(p) \/ listApiKeys(p)
  \/ updateApiKey(p) \/ deleteApiKey(p)

AroundCalls ==
  \/ \E p \in Promises : Continues(p)
  \/ Expires \/ CloseInstance \/ PoolCloses \/ CloseAnswered

SessionCallsNext == AroundCalls \/ \E p \in Promises : SessionCall(p)

KeyCallsNext == AroundCalls \/ \E p \in Promises : KeyCall(p)

NodeNext == SessionCallsNext \/ KeyCallsNext

\* Promises are driven to their end, and the pool closes when it can.
NodeFairness ==
  /\ \A p \in Promises : WF_nodeVars(Continues(p))
  /\ WF_nodeVars(PoolCloses) /\ WF_nodeVars(CloseAnswered)

NodeSpec == NodeInit /\ [][NodeNext]_nodeVars /\ NodeFairness

-----------------------------------------------------------------------------
(***************************************************************************)
(* Properties.                                                             *)
(***************************************************************************)
NodeTypeOK ==
  /\ isClosed \in BOOLEAN /\ pool \in {"open", "closing", "closed"}
  /\ \A id \in SessionIds : table[id].is \in {"unborn", "live", "expired", "gone"}
  /\ \A h \in KeyHashes : keyring[h] \in {"unborn", "active", "inactive", "gone"}
  /\ \A p \in Promises : ops[p].has => ops[p].at \in Statements
  /\ Cardinality(Connected) <= MaxConnections
  /\ known \union removed \subseteq SessionIds \union KeyHashes

\* A session or a key that nobody was told of is one whose caller is about to
\* be told, or a callback threw after it was stored: a call that is rejected
\* for any other reason left nothing behind (index.ts, the try around every
\* call).
OrphanHasCause ==
  \A x \in {id \in SessionIds : table[id].is = "live"} \union {h \in KeyHashes : KeyIsThere(h)} :
    \/ x \in known
    \/ \E p \in Promises : ops[p].op \in Creations /\ ops[p].at = "ok" /\ ops[p].on = x
    \/ threw

\* Of any number of deletions of one thing, one is answered with true.
DeletedOnce ==
  \A p \in Promises :
    ops[p].op \in Deletions /\ ops[p].at = "ok" /\ ops[p].did =>
      /\ ops[p].on \notin removed
      /\ \A q \in Promises \ {p} :
           ~(ops[q].op \in Deletions /\ ops[q].at = "ok" /\ ops[q].did /\ ops[q].on = ops[p].on)

\* What a promise says of the database is so.
CallsAreHonest == OrphanHasCause /\ DeletedOnce

\* Once the close that waited is answered no call changes the database any
\* more, whatever was in flight when it was made: only time does
\* (Captchapi.close).
CloseIsFinal == [][answered /\ tables' # tables => Expires]_nodeVars

\* Every promise settles, and the pool of a closed instance is closed at last,
\* whatever its callers were doing.
CallsSettle ==
  /\ \A p \in Promises : ops[p] # NoPromise ~> ops[p] = NoPromise
  /\ isClosed ~> answered
=============================================================================
