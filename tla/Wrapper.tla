----------------------------- MODULE Wrapper ----------------------------
(***************************************************************************)
(* The singleton of the TypeScript wrapper: getInstance, clearInstance and *)
(* close, cut at their awaits, between which other calls run.              *)
(*                                                                         *)
(* An instance is known by a number.  The connection pool of the native    *)
(* core is open exactly as long as its instance is not closed.             *)
(***************************************************************************)
EXTENDS Naturals, FiniteSets

CONSTANTS
  Configs,        \* what JSON.stringify(config) may be
  NoConfig,       \* instanceConfig is null
  Users,          \* calls that may be in flight at once
  MaxInstances    \* bound: instances created by getInstance

VARIABLES
  made,       \* the instances there are: the configuration each was made with
  closed,     \* those that are closed
  instance,   \* Captchapi.instance, 0 for null
  instanceConfig,
  call,       \* the calls in flight
  got,        \* the instance a user holds, 0 for none
  blame       \* history: what may go wrong

wrapVars == <<made, closed, instance, instanceConfig, call, got, blame>>

ASSUME WrapAssumption ==
  NoConfig \notin Configs /\ MaxInstances \in Nat

Instances == DOMAIN made

NoCall == [at |-> "none", key |-> NoConfig]

WrapInit ==
  /\ made = [i \in {} |-> NoConfig] /\ closed = {}
  /\ instance = 0 /\ instanceConfig = NoConfig
  /\ call = [u \in Users |-> NoCall] /\ got = [u \in Users |-> 0]
  /\ blame = {}

\* "overlap" once a call is made while another is in flight.
Noted(u) ==
  blame' = blame \union IF \E v \in Users \ {u} : call[v] # NoCall THEN {"overlap"} ELSE {}

Begins(u, where, key) ==
  /\ call' = [call EXCEPT ![u] = [at |-> where, key |-> key]]
  /\ Noted(u)

\* The instance that is there.
Hit(u, key) ==
  /\ instance # 0 /\ instanceConfig = key
  /\ got' = [got EXCEPT ![u] = instance]
  /\ Noted(u)
  /\ UNCHANGED <<closed, call>>

Returns(u) == call' = [call EXCEPT ![u] = NoCall]

\* The closed flag is set before anything is awaited; a closed instance is
\* left alone.
Closes(i) == closed' = closed \union {i}

\* Mutant: the key is stored before the instance is there.
GetInstanceKeyFirst(u) ==
  /\ call[u] = NoCall
  /\ \E key \in Configs :
       \/ Hit(u, key) /\ UNCHANGED instanceConfig
       \/ /\ instance # 0 /\ instanceConfig # key
          /\ Closes(instance) /\ instanceConfig' = key
          /\ Begins(u, "closing", key)
          /\ UNCHANGED got
       \/ /\ instance = 0
          /\ Begins(u, "creating", key)
          /\ UNCHANGED <<closed, instanceConfig, got>>
  /\ UNCHANGED <<made, instance>>

\* getInstance, up to its first await.
GetInstance(u) ==
  /\ call[u] = NoCall
  /\ \E key \in Configs :
       \/ Hit(u, key)
       \/ /\ instance # 0 /\ instanceConfig # key
          /\ Closes(instance)
          /\ Begins(u, "closing", key)
          /\ UNCHANGED got
       \/ /\ instance = 0
          /\ Begins(u, "creating", key)
          /\ UNCHANGED <<closed, got>>
  /\ UNCHANGED <<made, instance, instanceConfig>>

\* The old instance is closed; Captchapi.create is called.
OldClosed(u) ==
  /\ call[u].at = "closing"
  /\ call' = [call EXCEPT ![u].at = "creating"]
  /\ UNCHANGED <<made, closed, instance, instanceConfig, got, blame>>

New == Cardinality(Instances) + 1

Makes(key) ==
  /\ New <= MaxInstances
  /\ made' = [i \in Instances \union {New} |-> IF i = New THEN key ELSE made[i]]

\* create returns.  The instance and its key are stored together, whatever
\* was stored in the meantime.
Created(u) ==
  /\ call[u].at = "creating"
  /\ Makes(call[u].key)
  /\ instance' = New
  /\ got' = [got EXCEPT ![u] = New]
  /\ instanceConfig' = call[u].key
  /\ Returns(u)
  /\ UNCHANGED <<closed, blame>>

\* A version that does not fit, bindings that do not load, or a database that
\* does not open.  What was closed to make room stays in place.
CreateFails(u) ==
  /\ call[u].at = "creating"
  /\ blame' = blame \union {"failed"}
  /\ Returns(u)
  /\ UNCHANGED <<made, closed, instance, instanceConfig, got>>

\* onInitialized throws: the call fails, and nobody closes what was created.
InitializedThrows(u) ==
  /\ call[u].at = "creating"
  /\ Makes(call[u].key)
  /\ blame' = blame \union {"failed"}
  /\ Returns(u)
  /\ UNCHANGED <<closed, instance, instanceConfig, got>>

\* close of the native core, or onClosed, throws: the flag is set, and the
\* statics stay as they are.
CloseFails(u) ==
  /\ call[u].at \in {"closing", "clearing"}
  /\ blame' = blame \union {"failed"}
  /\ Returns(u)
  /\ UNCHANGED <<made, closed, instance, instanceConfig, got>>

ClearInstance(u) ==
  /\ call[u] = NoCall /\ instance # 0
  /\ Closes(instance)
  /\ Begins(u, "clearing", NoConfig)
  /\ UNCHANGED <<made, instance, instanceConfig, got>>

\* The second half of clearInstance, whatever was stored in the meantime.
Cleared(u) ==
  /\ call[u].at = "clearing"
  /\ instance' = 0 /\ instanceConfig' = NoConfig
  /\ Returns(u)
  /\ UNCHANGED <<made, closed, got, blame>>

\* A user closes what it holds.
Close(u) ==
  /\ got[u] \in Instances \ closed
  /\ Closes(got[u])
  /\ blame' = blame \union {"closed"}
  /\ UNCHANGED <<made, instance, instanceConfig, call, got>>

WrapNext ==
  \E u \in Users :
    \/ GetInstance(u) \/ OldClosed(u) \/ Created(u) \/ CreateFails(u)
    \/ InitializedThrows(u) \/ CloseFails(u)
    \/ ClearInstance(u) \/ Cleared(u) \/ Close(u)

WrapSpec == WrapInit /\ [][WrapNext]_wrapVars

-----------------------------------------------------------------------------
(***************************************************************************)
(* Properties.                                                             *)
(***************************************************************************)
WrapTypeOK ==
  /\ made \in [1 .. Cardinality(Instances) -> Configs]
  /\ closed \subseteq Instances /\ instance \in Instances \union {0}
  /\ (instance = 0) = (instanceConfig = NoConfig)
  /\ \A u \in Users : got[u] \in Instances \union {0}

\* However calls overlap, getInstance never answers with an instance that was
\* made with another configuration.
KeyDescribesInstance == instance # 0 => made[instance] = instanceConfig

\* An instance is out of reach and open, its pool with it, only after calls
\* overlapped, where two of them that both create leave one behind, or one
\* failed.
LeakHasCause ==
  \A i \in Instances \ closed : i = instance \/ blame \ {"closed"} # {}

\* The singleton is the instance it says it is, and the only one nobody holds.
SingletonHolds == KeyDescribesInstance /\ LeakHasCause

\* getInstance answers with a closed instance only after calls overlapped,
\* a user closed it, or a call failed.
ClosedHasCause ==
  [][\A u \in Users :
       got'[u] # got[u] /\ got'[u] \in closed' => blame' # {}]_wrapVars
=============================================================================
