----------------------------- MODULE Admission --------------------------
(***************************************************************************)
(* What a request to /api/v1/sessions passes before its handler runs: the  *)
(* rate limiter, then the API key; and the life of API keys, whose         *)
(* administration runs beside it.                                          *)
(*                                                                         *)
(* Handlers and the middleware are cut at their statements.  A key is      *)
(* known by its hash; a hash belongs to a key that was drawn at random and *)
(* is never drawn again.                                                   *)
(***************************************************************************)
EXTENDS Naturals, Functions

CONSTANTS
  Hashes,       \* hashes of API keys
  Master,       \* the master key, which no hash stands for
  Callers,      \* requests that may be in flight at once
  Clients,      \* client addresses
  Burst         \* rate_limit_burst_size

VARIABLES
  keys,         \* the api_keys table
  drawn,        \* hashes of keys that were ever created
  req,          \* requests in flight
  stamps,       \* detached updates of last_used_at: hashes
  cells,        \* the limiter: how much of its burst a client has used up, for
                \* the clients it keeps a cell for
  usage,        \* history: what a client had of this process and was not given back
  revoked,      \* history: keys whose deactivation or deletion was answered
  admitted      \* history: keys a request was let through with

admitVars == <<keys, drawn, req, stamps, cells, usage, revoked, admitted>>

ASSUME AdmitAssumption == Master \notin Hashes /\ Burst \in Nat \ {0}

Absent == [is_active |-> FALSE, used |-> FALSE, there |-> FALSE]

\* ApiKey::new.
NewKey == [is_active |-> TRUE, used |-> FALSE, there |-> TRUE]

Idle == [at |-> "idle"]

AdmitInit ==
  /\ keys = [h \in Hashes |-> Absent] /\ drawn = {}
  /\ req = [c \in Callers |-> Idle] /\ stamps = {}
  /\ cells = <<>> /\ usage = [i \in Clients |-> 0]
  /\ revoked = {} /\ admitted = {}

Done(c) == req' = [req EXCEPT ![c] = Idle]

-----------------------------------------------------------------------------
(***************************************************************************)
(* The limiter.  A client it keeps no cell for has its whole burst.        *)
(***************************************************************************)
Used(i) == IF i \in DOMAIN cells THEN cells[i] ELSE 0

\* Over the burst: 429, and nothing has changed.  Otherwise the request goes
\* on to the key, before which it carries nothing but its token.  barred
\* (history): it came after its key was revoked.
Arrive(c) ==
  /\ req[c] = Idle
  /\ \E i \in Clients, token \in Hashes \union {Master} :
       /\ Used(i) < Burst
       /\ cells' = [j \in DOMAIN cells \union {i} |-> IF j = i THEN Used(i) + 1 ELSE cells[j]]
       /\ usage' = [usage EXCEPT ![i] = @ + 1]
       /\ req' = [req EXCEPT ![c] = [at |-> "authenticate", token |-> token,
                                     barred |-> token \in revoked]]
  /\ UNCHANGED <<keys, drawn, stamps, revoked, admitted>>

\* The limiter gives a client back what it used up, one at a time.
Replenish ==
  /\ \E i \in Clients :
       /\ usage[i] > 0
       /\ usage' = [usage EXCEPT ![i] = @ - 1]
       /\ cells' = [j \in DOMAIN cells |-> IF j = i /\ cells[j] > 0 THEN cells[j] - 1
                                                              ELSE cells[j]]
  /\ UNCHANGED <<keys, drawn, req, stamps, revoked, admitted>>

\* Mutant: everybody is forgotten, not only who has nothing to be kept for.
RetainNobody ==
  /\ cells' = <<>>
  /\ UNCHANGED <<keys, drawn, req, stamps, usage, revoked, admitted>>

\* retain_recent, at every tick of the cleanup task and when it ends: clients
\* that have their whole burst are forgotten.
RetainRecent ==
  /\ cells' = Restrict(cells, {i \in DOMAIN cells : cells[i] > 0})
  /\ UNCHANGED <<keys, drawn, req, stamps, usage, revoked, admitted>>

-----------------------------------------------------------------------------
(***************************************************************************)
(* AuthMiddleware::authenticate.                                           *)
(***************************************************************************)
\* get_api_key.
Found(h) == keys[h].there /\ keys[h].is_active

Proceeds(c) == req' = [req EXCEPT ![c].at = "handler"]

\* The master key passes without a look at the table.  The update of
\* last_used_at is a task of its own.  A key that is not found, and a
\* statement that fails, end the request.
Authenticate(c) ==
  /\ req[c].at = "authenticate"
  /\ \/ /\ req[c].token = Master
        /\ Proceeds(c)
        /\ UNCHANGED <<stamps, admitted>>
     \/ /\ req[c].token \in Hashes /\ Found(req[c].token)
        /\ Proceeds(c)
        /\ stamps' = stamps \union {req[c].token}
        /\ admitted' = admitted \union {req[c].token}
     \/ /\ req[c].token \in Hashes
        /\ Done(c)
        /\ UNCHANGED <<stamps, admitted>>
  /\ UNCHANGED <<keys, drawn, cells, usage, revoked>>

\* The handler, which may still be at work when its key is revoked.
Handle(c) ==
  /\ req[c].at = "handler"
  /\ Done(c)
  /\ UNCHANGED <<keys, drawn, stamps, cells, usage, revoked, admitted>>

\* update_api_key_last_used, whenever the task gets to it; its failure is
\* ignored.
Stamp ==
  /\ \E h \in stamps :
       /\ keys' = [keys EXCEPT ![h].used = @ \/ keys[h].there]
       /\ stamps' = stamps \ {h}
  /\ UNCHANGED <<drawn, req, cells, usage, revoked, admitted>>

StampFails ==
  /\ \E h \in stamps : stamps' = stamps \ {h}
  /\ UNCHANGED <<keys, drawn, req, cells, usage, revoked, admitted>>

-----------------------------------------------------------------------------
(***************************************************************************)
(* routes/api_keys.rs, behind the master key.                              *)
(***************************************************************************)
\* create_api_key_orchestrated: one INSERT.
CreateKey ==
  /\ \E h \in Hashes \ drawn :
       /\ keys' = [keys EXCEPT ![h] = NewKey]
       /\ drawn' = drawn \union {h}
  /\ UNCHANGED <<req, stamps, cells, usage, revoked, admitted>>

\* update_api_key: the UPDATE, with one field or both.  The description is not
\* kept here: an update of it alone leaves is_active what it is.  An activation
\* ends a revocation, for requests that wait at the door, too.
BeginUpdate(c) ==
  /\ req[c] = Idle
  /\ \E h \in drawn, active \in BOOLEAN :
       /\ keys[h].there
       /\ keys' = [keys EXCEPT ![h].is_active = active]
       /\ revoked' = IF active THEN revoked \ {h} ELSE revoked
       /\ req' = [d \in Callers |->
            IF d = c THEN [at |-> "fetch", hash |-> h]
            ELSE IF active /\ req[d].at = "authenticate" /\ req[d].token = h
            THEN [req[d] EXCEPT !.barred = FALSE]
            ELSE req[d]]
  /\ UNCHANGED <<drawn, stamps, cells, usage, admitted>>

\* No row is affected: there is no such key, or the body has neither field
\* (asks), for which no statement is made.  Either way, 404.
UpdateMisses(c) ==
  /\ req[c] = Idle
  /\ \E h \in drawn, asks \in BOOLEAN :
       /\ asks => ~keys[h].there
       /\ req' = [req EXCEPT ![c] = [at |-> "answer", hash |-> h, asks |-> asks, status |-> 404]]
  /\ UNCHANGED <<keys, drawn, stamps, cells, usage, revoked, admitted>>

\* Mutant: the updated key is fetched among the active ones.
FetchesActive(h) == Found(h)

\* get_api_key_by_hash.
Fetches(h) == keys[h].there

Answers(c, status) == req' = [req EXCEPT ![c] = [at |-> "answer", hash |-> req[c].hash,
                                                 asks |-> TRUE, status |-> status]]

\* The row may have been deleted since.
Fetch(c) ==
  /\ req[c].at = "fetch"
  /\ Answers(c, IF Fetches(req[c].hash) THEN 200 ELSE 404)
  /\ UNCHANGED <<keys, drawn, stamps, cells, usage, revoked, admitted>>

\* A deactivation that is answered, and was not undone meanwhile, has
\* revoked the key.
EndUpdate(c) ==
  /\ req[c].at = "answer"
  /\ revoked' = IF req[c].asks /\ ~keys[req[c].hash].is_active
                THEN revoked \union {req[c].hash} ELSE revoked
  /\ Done(c)
  /\ UNCHANGED <<keys, drawn, stamps, cells, usage, admitted>>

DeleteKey ==
  /\ \E h \in drawn :
       /\ keys[h].there
       /\ keys' = [keys EXCEPT ![h] = Absent]
       /\ revoked' = revoked \union {h}
  /\ UNCHANGED <<drawn, req, stamps, cells, usage, admitted>>

\* The process ends and another begins: the table is what it was.
Restart ==
  /\ req' = [c \in Callers |-> Idle] /\ stamps' = {}
  /\ cells' = <<>> /\ usage' = [i \in Clients |-> 0]
  /\ UNCHANGED <<keys, drawn, revoked, admitted>>

AdmitNext ==
  \/ \E c \in Callers :
       \/ Arrive(c) \/ Authenticate(c) \/ Handle(c)
       \/ BeginUpdate(c) \/ UpdateMisses(c) \/ Fetch(c) \/ EndUpdate(c)
  \/ Replenish \/ RetainRecent \/ Stamp \/ StampFails \/ CreateKey \/ DeleteKey \/ Restart

\* The cleanup task keeps ticking.
AdmitFairness == WF_admitVars(RetainRecent)

AdmitSpec == AdmitInit /\ [][AdmitNext]_admitVars /\ AdmitFairness

-----------------------------------------------------------------------------
(***************************************************************************)
(* Properties.                                                             *)
(***************************************************************************)
AdmitTypeOK ==
  /\ keys \in [Hashes -> [is_active : BOOLEAN, used : BOOLEAN, there : BOOLEAN]]
  /\ \A h \in Hashes \ drawn : keys[h] = Absent
  /\ stamps \subseteq drawn /\ revoked \subseteq drawn
  /\ DOMAIN cells \subseteq Clients /\ \A i \in DOMAIN cells : cells[i] \in 0 .. Burst
  /\ usage \in [Clients -> Nat]

\* A request that arrives after its key was deactivated or deleted, and the
\* administrator was told so, never reaches its handler, unless the key is
\* activated again.
RevocationHolds ==
  \A c \in Callers : req[c].at = "handler" => ~req[c].barred

\* A key that is gone stays gone, whatever was on its way to it.
DeletedStaysDeleted ==
  [][\A h \in drawn : ~keys[h].there => ~keys'[h].there]_admitVars

\* A key is reported as used only if a request got in with it.
UseWasAdmitted == \A h \in Hashes : keys[h].used => h \in admitted

\* An update that asks for something is answered 404 only if the key does not
\* exist; one that asks for nothing is answered 404 always.
NotFoundIsTrue ==
  \A c \in Callers :
    req[c].at = "answer" /\ req[c].status = 404 /\ req[c].asks => ~keys[req[c].hash].there

\* Forgetting a client never gives it more than its burst: while a process
\* runs, what a client has had and was not given back stays within it, though
\* the limiter sees only the cells it kept.
QuotaHolds == \A i \in Clients : usage[i] <= Burst

\* And a client that stays away is forgotten, so the table does not grow with
\* every address that ever called.
IdleAreForgotten ==
  \A i \in Clients : <>[](Used(i) = 0) => []<>(i \notin DOMAIN cells)

\* What is admitted, counted and answered at the door is so.
AdmissionHolds == RevocationHolds /\ UseWasAdmitted /\ NotFoundIsTrue /\ QuotaHolds
=============================================================================
