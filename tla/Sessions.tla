---------------------------- MODULE Sessions ----------------------------
(***************************************************************************)
(* CAPTCHA sessions (src/src/services/session_ops.rs, storage.rs,          *)
(* src/src/routes/sessions.rs, src/src/tasks/cleanup.rs).                  *)
(*                                                                         *)
(* A request is a sequence of SQL statements with awaits between them, so  *)
(* every statement is a step and other requests, the cleanup task, a       *)
(* configuration reload or a crash may come between two of them.  A client *)
(* that disconnects cancels its request at an await: the statement being   *)
(* run may or may not have been applied, and no answer is given.           *)
(*                                                                         *)
(* The expiry check follows the SELECT without an await.  The clock only   *)
(* moves forward and an expiry never changes, so the check is taken with   *)
(* the SELECT.                                                             *)
(***************************************************************************)
EXTENDS Naturals, FiniteSets

CONSTANTS
  Ids,             \* session ids: v4 UUIDs, never issued twice
  Callers,         \* how many requests may be in flight at once
  Ttls,            \* lifetimes that validate_session_params accepts
  Limits,          \* values max_validation_attempts may be reloaded to
  MaxLimit,        \* the largest of them
  MaxClock,        \* bound: the clock stops here
  NoRow            \* no such row

ASSUME CallersAssumption == IsFiniteSet(Callers) /\ Callers # {}
ASSUME TtlsAssumption == Ttls \subseteq Nat
ASSUME LimitsAssumption ==
  Limits # {} /\ MaxLimit \in Nat /\ Limits \subseteq 0 .. MaxLimit
ASSUME ClockAssumption == MaxClock \in Nat
ASSUME NoRowAssumption == NoRow \notin [expires : Nat, attempts : Nat]

VARIABLES
  rows,            \* the sessions table
  issued,          \* ids a create has drawn
  clock,           \* seconds
  limit,           \* max_validation_attempts, live
  life,            \* the server process
  req,             \* requests in flight
  wrong,           \* history: wrong answers a client was told about, per id
  solved,          \* history: ids a client was told it solved
  refused          \* history: the highest limit a client was refused under, per id

history == <<wrong, solved, refused>>

vars == <<rows, issued, clock, limit, life, req, history>>

Row == [expires : Nat, attempts : Nat]

Idle == [at |-> "idle"]

\* A request about an id: which statement it runs next, what it was called
\* with, and (history) what had been refused for that id when it arrived.
Creating == [at : {"insert"}, id : Ids, expires : Nat]
Reading == [at : {"look", "evict", "delete"}, id : Ids]
Validating == [at : {"select", "evict", "refuse", "accept", "charge"},
               id : Ids, limit : Limits, right : BOOLEAN, floor : Nat]

TypeOK ==
  /\ rows \in [Ids -> Row \union {NoRow}]
  /\ issued \subseteq Ids
  /\ clock \in 0 .. MaxClock
  /\ limit \in Limits
  /\ life \in {"up", "draining", "down"}
  /\ req \in [Callers -> {Idle} \union Creating \union Reading \union Validating]
  /\ wrong \in [Ids -> Nat]
  /\ solved \subseteq Ids
  /\ refused \in [Ids -> Nat]

Init ==
  /\ rows = [id \in Ids |-> NoRow]
  /\ issued = {}
  /\ clock = 0
  /\ limit \in Limits
  /\ life = "up"
  /\ req = [c \in Callers |-> Idle]
  /\ wrong = [id \in Ids |-> 0]
  /\ solved = {}
  /\ refused = [id \in Ids |-> 0]

-----------------------------------------------------------------------------
(***************************************************************************)
(* Statements.                                                             *)
(***************************************************************************)
Present(id) == rows[id] # NoRow

\* is_expired, and delete_expired_sessions's WHERE expires_at < now.
Expired(id) == Present(id) /\ clock > rows[id].expires

Remove(id) == rows' = [rows EXCEPT ![id] = NoRow]

\* attempt_count + 1, in the database.  Updating a missing row does nothing.
Increment(id) ==
  rows' = IF Present(id) THEN [rows EXCEPT ![id].attempts = @ + 1] ELSE rows

Goes(c, to) == req' = [req EXCEPT ![c].at = to]

Done(c) == req' = [req EXCEPT ![c] = Idle]

\* The requests whose next statement is this one.
At(statement) == {c \in Callers : req[c].at = statement}

Accepting(c) == life = "up" /\ req[c] = Idle

-----------------------------------------------------------------------------
(***************************************************************************)
(* Create.  The row's expiry is fixed before the INSERT runs.              *)
(***************************************************************************)
\* Mutant: the lifetime is taken off the clock.
BeginCreateBackdated(c) ==
  /\ Accepting(c)
  /\ \E id \in Ids \ issued, ttl \in Ttls :
       /\ issued' = issued \union {id}
       /\ req' = [req EXCEPT ![c] = [at |-> "insert", id |-> id, expires |-> clock - ttl]]
  /\ UNCHANGED <<rows, clock, limit, life, history>>

BeginCreate(c) ==
  /\ Accepting(c)
  /\ \E id \in Ids \ issued, ttl \in Ttls :
       /\ issued' = issued \union {id}
       /\ req' = [req EXCEPT ![c] = [at |-> "insert", id |-> id, expires |-> clock + ttl]]
  /\ UNCHANGED <<rows, clock, limit, life, history>>

Insert(c) ==
  /\ req[c].at = "insert"
  /\ rows' = [rows EXCEPT ![req[c].id] = [expires |-> req[c].expires, attempts |-> 0]]
  /\ Done(c)
  /\ UNCHANGED <<issued, clock, limit, life, history>>

-----------------------------------------------------------------------------
(***************************************************************************)
(* Session details and image: a lookup, and nothing else while it is live. *)
(***************************************************************************)
BeginRead(c) ==
  /\ Accepting(c)
  /\ \E id \in issued : req' = [req EXCEPT ![c] = [at |-> "look", id |-> id]]
  /\ UNCHANGED <<rows, issued, clock, limit, life, history>>

Look(c) ==
  /\ req[c].at = "look"
  /\ IF Expired(req[c].id) THEN Goes(c, "evict") ELSE Done(c)
  /\ UNCHANGED <<rows, issued, clock, limit, life, history>>

\* get_active_session deletes what it finds expired, if it can, and reports
\* the session missing either way.
Evict(c) ==
  /\ req[c].at = "evict"
  /\ Remove(req[c].id) \/ UNCHANGED rows
  /\ Done(c)
  /\ UNCHANGED <<issued, clock, limit, life, history>>

-----------------------------------------------------------------------------
(***************************************************************************)
(* DELETE /sessions/{id}: one statement, whatever the state of the session.*)
(***************************************************************************)
BeginDelete(c) ==
  /\ Accepting(c)
  /\ \E id \in issued : req' = [req EXCEPT ![c] = [at |-> "delete", id |-> id]]
  /\ UNCHANGED <<rows, issued, clock, limit, life, history>>

Delete(c) ==
  /\ req[c].at = "delete"
  /\ Remove(req[c].id)
  /\ Done(c)
  /\ UNCHANGED <<issued, clock, limit, life, history>>

-----------------------------------------------------------------------------
(***************************************************************************)
(* Validate.  The limit is read once, when the request arrives; the row is *)
(* read once, and everything is decided from that copy.                    *)
(***************************************************************************)
BeginValidate(c) ==
  /\ Accepting(c)
  /\ \E id \in issued, right \in BOOLEAN :
       req' = [req EXCEPT ![c] = [at |-> "select", id |-> id, limit |-> limit,
                                  right |-> right, floor |-> refused[id]]]
  /\ UNCHANGED <<rows, issued, clock, limit, life, history>>

\* Mutant: the count is compared for equality, and may be past the limit.
VerdictAtExactLimit(r) ==
  IF rows[r.id].attempts = r.limit THEN "refuse"
  ELSE IF r.right THEN "accept" ELSE "charge"

\* Mutant: one attempt too many.
VerdictPastLimit(r) ==
  IF rows[r.id].attempts > r.limit THEN "refuse"
  ELSE IF r.right THEN "accept" ELSE "charge"

\* What to do about a live session, given the row as it was selected.
Verdict(r) ==
  IF rows[r.id].attempts >= r.limit THEN "refuse"
  ELSE IF r.right THEN "accept" ELSE "charge"

Select(c) ==
  /\ req[c].at = "select"
  /\ IF ~Present(req[c].id) THEN Done(c)
     ELSE Goes(c, IF Expired(req[c].id) THEN "evict" ELSE Verdict(req[c]))
  /\ UNCHANGED <<rows, issued, clock, limit, life, history>>

\* Locked: the row is deleted if it can be, and the client is refused.
Refuse(c) ==
  /\ req[c].at = "refuse"
  /\ Remove(req[c].id) \/ UNCHANGED rows
  /\ refused' = [refused EXCEPT ![req[c].id] = IF @ < req[c].limit THEN req[c].limit ELSE @]
  /\ Done(c)
  /\ UNCHANGED <<issued, clock, limit, life, wrong, solved>>

\* Mutant: the client is told before the row is known to be gone.
AcceptBestEffort(c) ==
  /\ req[c].at = "accept"
  /\ Remove(req[c].id) \/ UNCHANGED rows
  /\ solved' = solved \union {req[c].id}
  /\ Done(c)
  /\ UNCHANGED <<issued, clock, limit, life, wrong, refused>>

\* The right answer: the row goes first.  Whether it was still there is not
\* looked at.
Accept(c) ==
  /\ req[c].at = "accept"
  /\ Remove(req[c].id)
  /\ solved' = solved \union {req[c].id}
  /\ Done(c)
  /\ UNCHANGED <<issued, clock, limit, life, wrong, refused>>

\* Mutant: the client is told even when the attempt could not be counted.
ChargeBestEffort(c) ==
  /\ req[c].at = "charge"
  /\ Increment(req[c].id) \/ UNCHANGED rows
  /\ wrong' = [wrong EXCEPT ![req[c].id] = @ + 1]
  /\ Done(c)
  /\ UNCHANGED <<issued, clock, limit, life, solved, refused>>

\* A wrong answer: the attempt is counted before the client is told.
Charge(c) ==
  /\ req[c].at = "charge"
  /\ Increment(req[c].id)
  /\ wrong' = [wrong EXCEPT ![req[c].id] = @ + 1]
  /\ Done(c)
  /\ UNCHANGED <<issued, clock, limit, life, solved, refused>>

-----------------------------------------------------------------------------
(***************************************************************************)
(* A request that ends without an answer: a statement failed and was not   *)
(* applied, or the client went away while it ran.                          *)
(***************************************************************************)
Abandon(c) ==
  /\ req[c] # Idle
  /\ Done(c)
  /\ \/ UNCHANGED rows
     \/ /\ req[c].at = "insert"
        /\ rows' = [rows EXCEPT ![req[c].id] = [expires |-> req[c].expires, attempts |-> 0]]
     \/ req[c].at \in {"evict", "refuse", "accept", "delete"} /\ Remove(req[c].id)
     \/ req[c].at = "charge" /\ Increment(req[c].id)
  /\ UNCHANGED <<issued, clock, limit, life, history>>

(***************************************************************************)
(* The cleanup task's tick, POST /admin/cleanup, and the last cleanup of a *)
(* graceful shutdown are one DELETE statement.                             *)
(***************************************************************************)
\* Mutant: WHERE expires_at <= now.
SweptEarly == {id \in Ids : Present(id) /\ clock >= rows[id].expires}

\* Mutant: a negated condition.
SweptFresh == {id \in Ids : Present(id) /\ ~Expired(id)}

Swept == {id \in Ids : Expired(id)}

Cleanup ==
  /\ life # "down"
  /\ Swept # {}
  /\ rows' = [id \in Ids |-> IF id \in Swept THEN NoRow ELSE rows[id]]
  /\ UNCHANGED <<issued, clock, limit, life, req, history>>

-----------------------------------------------------------------------------
(***************************************************************************)
(* The process, its clock and its configuration.                           *)
(***************************************************************************)
Tick ==
  /\ clock < MaxClock
  /\ clock' = clock + 1
  /\ UNCHANGED <<rows, issued, limit, life, req, history>>

Reload ==
  /\ life # "down"
  /\ limit' \in Limits
  /\ UNCHANGED <<rows, issued, clock, life, req, history>>

\* A graceful stop drains the requests in flight.
Stop ==
  /\ life = "up"
  /\ life' = "draining"
  /\ UNCHANGED <<rows, issued, clock, limit, req, history>>

Drained ==
  /\ life = "draining"
  /\ \A c \in Callers : req[c] = Idle
  /\ life' = "down"
  /\ UNCHANGED <<rows, issued, clock, limit, req, history>>

\* A crash takes the requests in flight with it, and loses nothing committed.
Crash ==
  /\ life # "down"
  /\ life' = "down"
  /\ req' = [c \in Callers |-> Idle]
  /\ UNCHANGED <<rows, issued, clock, limit, history>>

Start ==
  /\ life = "down"
  /\ life' = "up"
  /\ limit' \in Limits
  /\ UNCHANGED <<rows, issued, clock, req, history>>

-----------------------------------------------------------------------------
Begin(c) == BeginCreate(c) \/ BeginRead(c) \/ BeginDelete(c) \/ BeginValidate(c)

Continue(c) ==
  \/ Insert(c) \/ Look(c) \/ Evict(c) \/ Delete(c)
  \/ Select(c) \/ Refuse(c) \/ Accept(c) \/ Charge(c)

Next ==
  \/ \E c \in Callers : Begin(c) \/ Continue(c) \/ Abandon(c)
  \/ Cleanup \/ Tick \/ Reload \/ Stop \/ Drained \/ Crash \/ Start

Spec == Init /\ [][Next]_vars

\* The interval keeps ticking in a process that is up, and a cleanup that
\* failed is tried again at the next tick.
FairSpec == Spec /\ WF_vars(Cleanup)

-----------------------------------------------------------------------------
(***************************************************************************)
(* Properties.                                                             *)
(***************************************************************************)
\* Every wrong answer a client was told about was counted first: no crash,
\* disconnection or concurrent request buys a free guess.
NoFreeGuess == \A id \in Ids : Present(id) => rows[id].attempts >= wrong[id]

\* A solved session is gone before its client hears about it, for good: no
\* later request is judged against it.
SolvedIsGone == \A id \in solved : ~Present(id)

\* Requests in flight together may each be judged on the same count, so the
\* limit is exceeded by at most the number of the others, and by nothing else.
GuessesBounded ==
  \A id \in Ids : wrong[id] <= MaxLimit + Cardinality(Callers) - 1

\* A refusal stands: a request that arrives after one is judged only under a
\* limit raised since, even though the row may have survived the refusal and
\* other requests may have pushed its count past the limit.
RefusalStands ==
  \A c \in Callers :
    req[c].at \in {"accept", "charge"} => req[c].limit > req[c].floor

\* A session row only goes for one of four reasons, and they still hold when it
\* goes, however old the read they come from: it is past its expiry, it was
\* solved, it is out of the attempts a refused request had, or a client
\* deletes it.
DeletionHasCause ==
  [][\A id \in Ids :
       Present(id) /\ ~Present(id)' =>
         \/ Expired(id)
         \/ \E c \in At("accept") : req[c].id = id
         \/ \E c \in At("refuse") : req[c].id = id /\ rows[id].attempts >= req[c].limit
         \/ \E c \in At("delete") : req[c].id = id]_vars

\* Once the server stays up, every expired session is eventually removed,
\* whether or not anyone asks for it again.
ExpiredAreReclaimed ==
  <>[](life = "up") => \A id \in Ids : Expired(id) ~> ~Present(id)

\* `Max 3 validation attempts per session`.
AttemptsWithinLimit == \A id \in Ids : wrong[id] <= MaxLimit

-----------------------------------------------------------------------------
(***************************************************************************)
(* What keeps them true.                                                   *)
(***************************************************************************)
\* An id is drawn once and inserted once: until then nothing happens to it.
Untouched(id) == ~Present(id) /\ id \notin solved /\ wrong[id] = 0 /\ refused[id] = 0

IdsAreFresh ==
  /\ \A id \in Ids \ issued : Untouched(id)
  /\ \A c \in Callers : req[c] # Idle => req[c].id \in issued
  /\ \A c \in At("insert") :
       /\ Untouched(req[c].id)
       /\ \A d \in Callers \ {c} :
            req[d] # Idle /\ req[d].id = req[c].id
              => req[d].at \in {"look", "delete", "select"}

\* What was found expired stays so; what was found spent stays so, while it is
\* there, and so does everything a client was ever refused under.
StaleReadsHold ==
  /\ \A c \in At("evict") : Present(req[c].id) => Expired(req[c].id)
  /\ \A c \in At("refuse") : Present(req[c].id) => rows[req[c].id].attempts >= req[c].limit
  /\ \A id \in Ids : Present(id) => rows[id].attempts >= refused[id]
  /\ \A c \in At("select") : req[c].floor <= refused[req[c].id]

\* Answers being charged count as given.
Charging(id) == {c \in At("charge") : req[c].id = id}

GuessesInFlightBounded ==
  \A id \in Ids :
    wrong[id] + Cardinality(Charging(id)) <= MaxLimit + Cardinality(Callers) - 1

SessionInv ==
  /\ IdsAreFresh /\ StaleReadsHold
  /\ NoFreeGuess /\ SolvedIsGone /\ RefusalStands /\ GuessesInFlightBounded
=============================================================================
