-------------------------- MODULE PackageProofs --------------------------
(***************************************************************************)
(* Proofs about the Node.js package: the singleton of the wrapper, for any *)
(* number of calls at once, any configurations and any number of           *)
(* instances; and the calls of one instance, for any number of promises,   *)
(* sessions, keys and connections, sessions and keys together.             *)
(*                                                                         *)
(* That no instance leaks without a cause rests on what a call that is in  *)
(* flight has already closed, as long as it is alone.  That no answer of a *)
(* call is false rests on what its own statement found.                    *)
(***************************************************************************)
EXTENDS Wrapper, NodeCalls, FiniteSetTheorems, TLAPS

WrapShapes ==
  /\ \E n \in Nat : Instances = 1 .. n
  /\ instance \in Instances \union {0} /\ closed \subseteq Instances
  /\ call \in [Users -> [at : {"none", "creating", "closing", "clearing"},
                         key : Configs \union {NoConfig}]]
  /\ got \in [Users -> Instances \union {0}]
  /\ blame \subseteq {"overlap", "failed", "closed"}

\* Two calls are in flight only when that is noted.
LoneCalls ==
  "overlap" \notin blame =>
    \A u, v \in Users : call[u] # NoCall /\ call[v] # NoCall => u = v

\* A call that is alone and has not failed has closed what it is to replace.
MakesRoom ==
  \A u \in Users :
    call[u].at # "none" /\ blame \intersect {"overlap", "failed"} = {} =>
      instance \in closed \union {0}

\* An instance that was closed is still the singleton only while the call that
\* closed it is in flight.
ClosedIsLeaving ==
  blame = {} /\ instance \in closed => \E u \in Users : call[u] # NoCall

IdleHaveNone == \A u \in Users : call[u].at = "none" <=> call[u] = NoCall

WrapIInv ==
  WrapShapes /\ IdleHaveNone /\ LoneCalls /\ MakesRoom /\ ClosedIsLeaving /\ SingletonHolds

-----------------------------------------------------------------------------
\* A new instance has a number no other has.
LEMMA NewIsNew ==
  ASSUME WrapShapes
  PROVE  /\ New \notin Instances /\ New # 0
         /\ \A n \in Nat : Instances = 1 .. n => New = n + 1
  <1>1. PICK n \in Nat : Instances = 1 .. n
    BY DEF WrapShapes
  <1>2. Cardinality(1 .. n) = n
    BY FS_Interval
  <1>3. \A m \in Nat : 1 .. m = 1 .. n => m = n
    <2> SUFFICES ASSUME NEW m \in Nat, 1 .. m = 1 .. n PROVE m = n
      OBVIOUS
    <2>1. m > n => m \in 1 .. m /\ m \notin 1 .. n
      OBVIOUS
    <2>2. n > m => n \in 1 .. n /\ n \notin 1 .. m
      OBVIOUS
    <2> QED BY <2>1, <2>2
  <1> QED BY <1>1, <1>2, <1>3 DEF New

\* What making one does to those there are.
LEMMA MakesOne ==
  ASSUME WrapShapes, NEW key, Makes(key)
  PROVE  /\ Instances' = Instances \union {New}
         /\ made'[New] = key
         /\ \A i \in Instances : made'[i] = made[i]
         /\ \E n \in Nat : Instances' = 1 .. n
  <1>1. made' = [i \in Instances \union {New} |-> IF i = New THEN key ELSE made[i]]
    BY DEF Makes
  <1>2. Instances' = Instances \union {New}
    BY <1>1 DEF Instances
  <1>3. PICK n \in Nat : Instances = 1 .. n
    BY DEF WrapShapes
  <1>4. New = n + 1
    BY <1>3, NewIsNew
  <1>5. Instances' = 1 .. (n + 1)
    BY <1>2, <1>3, <1>4
  <1> QED BY <1>1, <1>2, <1>5, NewIsNew

LEMMA WrapBegins == WrapInit => WrapIInv
  <1> SUFFICES ASSUME WrapInit PROVE WrapIInv
    OBVIOUS
  <1>1. Instances = 1 .. 0
    BY DEF WrapInit, Instances
  <1>2. WrapShapes
    BY <1>1 DEF WrapInit, WrapShapes, NoCall
  <1> QED BY <1>1, <1>2 DEF WrapInit, WrapIInv, IdleHaveNone, LoneCalls, MakesRoom, ClosedIsLeaving,
             SingletonHolds, KeyDescribesInstance, LeakHasCause, NoCall

\* A call begins: it closes the instance there is, or there is none.
LEMMA BeginsKeeps ==
  ASSUME WrapIInv, NEW u \in Users, call[u] = NoCall,
         NEW where \in {"creating", "closing", "clearing"}, NEW key \in Configs \union {NoConfig},
         Begins(u, where, key), UNCHANGED <<made, instance, instanceConfig, got>>,
         \/ instance # 0 /\ Closes(instance)
         \/ instance = 0 /\ UNCHANGED closed
  PROVE  WrapIInv'
  <1> USE DEF WrapIInv
  <1>1. Instances' = Instances
    BY DEF Instances
  <1>2. \A v \in Users : call'[v] = IF v = u THEN [at |-> where, key |-> key] ELSE call[v]
    BY DEF Begins, WrapShapes
  <1>3. /\ blame \subseteq blame' /\ blame' \subseteq blame \union {"overlap"}
        /\ (\E v \in Users \ {u} : call[v] # NoCall) => "overlap" \in blame'
    BY DEF Begins, Noted
  <1>4. closed \subseteq closed' /\ closed' \subseteq Instances /\ instance \in closed' \union {0}
    BY DEF Closes, WrapShapes
  <1>5. call' \in [Users -> [at : {"none", "creating", "closing", "clearing"},
                             key : Configs \union {NoConfig}]]
    BY DEF Begins, WrapShapes
  <1>6. WrapShapes'
    BY <1>1, <1>3, <1>4, <1>5 DEF WrapShapes
  <1>7. IdleHaveNone' /\ LoneCalls'
    BY <1>2, <1>3 DEF IdleHaveNone, LoneCalls, NoCall
  <1>8. MakesRoom' /\ ClosedIsLeaving'
    BY <1>2, <1>4 DEF MakesRoom, ClosedIsLeaving, NoCall
  <1>9. SingletonHolds'
    BY <1>1, <1>3, <1>4 DEF SingletonHolds, KeyDescribesInstance, LeakHasCause
  <1> QED BY <1>6, <1>7, <1>8, <1>9

\* A call that finds the instance it asks for.
LEMMA HitKeeps ==
  ASSUME WrapIInv, NEW u \in Users, NEW key, Hit(u, key),
         UNCHANGED <<made, instance, instanceConfig>>
  PROVE  WrapIInv'
  <1> USE DEF WrapIInv
  <1>1. Instances' = Instances /\ UNCHANGED <<closed, call>>
    BY DEF Instances, Hit
  <1>2. blame \subseteq blame' /\ blame' \subseteq blame \union {"overlap"}
    BY DEF Hit, Noted
  <1>3. got' \in [Users -> Instances \union {0}]
    BY DEF Hit, WrapShapes
  <1>4. WrapShapes'
    BY <1>1, <1>2, <1>3 DEF WrapShapes
  <1>5. IdleHaveNone' /\ LoneCalls'
    BY <1>1, <1>2 DEF IdleHaveNone, LoneCalls
  <1>6. MakesRoom' /\ ClosedIsLeaving'
    BY <1>1, <1>2 DEF MakesRoom, ClosedIsLeaving
  <1>7. SingletonHolds'
    BY <1>1, <1>2 DEF SingletonHolds, KeyDescribesInstance, LeakHasCause
  <1> QED BY <1>4, <1>5, <1>6, <1>7

-----------------------------------------------------------------------------
(***************************************************************************)
(* A call that returns.                                                    *)
(***************************************************************************)
LEMMA ReturnsKeep ==
  ASSUME WrapIInv, NEW u \in Users, call[u].at # "none", Returns(u), UNCHANGED closed
  PROVE  /\ \A v \in Users : call'[v] = IF v = u THEN NoCall ELSE call[v]
         /\ call' \in [Users -> [at : {"none", "creating", "closing", "clearing"},
                                key : Configs \union {NoConfig}]]
         /\ IdleHaveNone'
         /\ "overlap" \notin blame => \A v \in Users : call'[v] = NoCall
  <1>1. \A v \in Users : call'[v] = IF v = u THEN NoCall ELSE call[v]
    BY DEF Returns, WrapIInv, WrapShapes
  <1>2. NoCall \in [at : {"none", "creating", "closing", "clearing"},
                   key : Configs \union {NoConfig}] /\ NoCall.at = "none"
    BY DEF NoCall
  <1>3. call' \in [Users -> [at : {"none", "creating", "closing", "clearing"},
                            key : Configs \union {NoConfig}]]
    BY <1>2 DEF Returns, WrapIInv, WrapShapes
  <1>4. IdleHaveNone'
    BY <1>1, <1>2 DEF IdleHaveNone, WrapIInv
  <1>5. "overlap" \notin blame => \A v \in Users \ {u} : call[v] = NoCall
    BY <1>2 DEF WrapIInv, LoneCalls, IdleHaveNone
  <1> QED BY <1>1, <1>3, <1>4, <1>5

\* create returns: what it made is the singleton, under its own key.
LEMMA CreatedKeeps ==
  ASSUME WrapIInv, NEW u \in Users, Created(u)
  PROVE  WrapIInv'
  <1> USE DEF WrapIInv
  <1>1. /\ call[u].at = "creating" /\ Makes(call[u].key) /\ Returns(u)
        /\ instance' = New /\ instanceConfig' = call[u].key /\ UNCHANGED <<closed, blame>>
        /\ got' = [got EXCEPT ![u] = New]
    BY DEF Created
  <1>2. /\ Instances' = Instances \union {New} /\ made'[New] = call[u].key
        /\ \E n \in Nat : Instances' = 1 .. n
    BY <1>1, MakesOne
  <1>3. New \notin Instances /\ New # 0
    BY NewIsNew
  <1>4. /\ \A v \in Users : call'[v] = IF v = u THEN NoCall ELSE call[v]
        /\ call' \in [Users -> [at : {"none", "creating", "closing", "clearing"},
                               key : Configs \union {NoConfig}]]
        /\ IdleHaveNone'
        /\ "overlap" \notin blame => \A v \in Users : call'[v] = NoCall
    BY <1>1, ReturnsKeep
  <1>5. WrapShapes'
    <2>1. got' \in [Users -> Instances' \union {0}]
      BY <1>1, <1>2 DEF WrapShapes
    <2> QED BY <1>1, <1>2, <1>4, <2>1 DEF WrapShapes
  <1>6. LoneCalls'
    BY <1>1, <1>4 DEF LoneCalls
  <1>7. MakesRoom'
    <2>1. "overlap" \notin blame => \A v \in Users : call'[v].at = "none"
      BY <1>4 DEF NoCall
    <2> QED BY <1>1, <2>1 DEF MakesRoom
  <1>8. ClosedIsLeaving'
    BY <1>1, <1>3 DEF ClosedIsLeaving, WrapShapes
  <1>9. KeyDescribesInstance'
    BY <1>1, <1>2 DEF KeyDescribesInstance
  <1>10. LeakHasCause'
    <2>1. CASE blame \intersect {"overlap", "failed"} = {}
      <3>1. instance \in closed \union {0}
        BY <1>1, <2>1 DEF MakesRoom
      <3>2. \A i \in Instances \ closed : i = instance
        BY <2>1 DEF SingletonHolds, LeakHasCause, WrapShapes
      <3>3. Instances \subseteq closed
        <4>1. 0 \notin Instances
          BY DEF WrapShapes
        <4> QED BY <3>1, <3>2, <4>1
      <3> QED BY <1>1, <1>2, <3>3 DEF LeakHasCause
    <2>2. CASE blame \intersect {"overlap", "failed"} # {}
      BY <1>1, <2>2 DEF LeakHasCause
    <2> QED BY <2>1, <2>2
  <1> QED BY <1>4, <1>5, <1>6, <1>7, <1>8, <1>9, <1>10 DEF SingletonHolds

\* A call that fails, with or without an instance made, says so.
LEMMA FailsKeep ==
  ASSUME WrapIInv, NEW u \in Users, CreateFails(u) \/ InitializedThrows(u) \/ CloseFails(u)
  PROVE  WrapIInv'
  <1> USE DEF WrapIInv
  <1>1. /\ call[u].at # "none" /\ Returns(u) /\ blame' = blame \union {"failed"}
        /\ UNCHANGED <<closed, instance, instanceConfig, got>>
    BY DEF CreateFails, InitializedThrows, CloseFails
  <1>2. made' = made \/ Makes(call[u].key)
    BY DEF CreateFails, InitializedThrows, CloseFails
  <1>3. /\ Instances \subseteq Instances' /\ \A i \in Instances : made'[i] = made[i]
        /\ \E n \in Nat : Instances' = 1 .. n
    <2>1. CASE made' = made
      BY <2>1 DEF Instances, WrapShapes
    <2>2. CASE Makes(call[u].key)
      BY <2>2, MakesOne
    <2> QED BY <1>2, <2>1, <2>2
  <1>4. /\ call' \in [Users -> [at : {"none", "creating", "closing", "clearing"},
                               key : Configs \union {NoConfig}]]
        /\ IdleHaveNone'
        /\ "overlap" \notin blame => \A v \in Users : call'[v] = NoCall
    BY <1>1, ReturnsKeep
  <1>5. WrapShapes'
    <2>1. got' \in [Users -> Instances' \union {0}]
      BY <1>1, <1>3 DEF WrapShapes
    <2>2. /\ instance' \in Instances' \union {0} /\ closed' \subseteq Instances'
          /\ blame' \subseteq {"overlap", "failed", "closed"}
      BY <1>1, <1>3 DEF WrapShapes
    <2> QED BY <1>3, <1>4, <2>1, <2>2 DEF WrapShapes
  <1>6. LoneCalls' /\ MakesRoom' /\ ClosedIsLeaving'
    BY <1>1, <1>4 DEF LoneCalls, MakesRoom, ClosedIsLeaving
  <1>7. KeyDescribesInstance'
    BY <1>1, <1>3 DEF SingletonHolds, KeyDescribesInstance, WrapShapes
  <1>8. LeakHasCause'
    <2>1. "failed" \in blame' \ {"closed"}
      BY <1>1
    <2> QED BY <2>1 DEF LeakHasCause
  <1> QED BY <1>4, <1>5, <1>6, <1>7, <1>8 DEF SingletonHolds

LEMMA ClearedKeeps ==
  ASSUME WrapIInv, NEW u \in Users, Cleared(u)
  PROVE  WrapIInv'
  <1> USE DEF WrapIInv
  <1>1. /\ call[u].at # "none" /\ Returns(u) /\ instance' = 0 /\ Instances' = Instances
        /\ UNCHANGED <<made, closed, got, blame>>
    BY DEF Cleared, Instances
  <1>2. /\ call' \in [Users -> [at : {"none", "creating", "closing", "clearing"},
                               key : Configs \union {NoConfig}]]
        /\ IdleHaveNone'
        /\ "overlap" \notin blame => \A v \in Users : call'[v] = NoCall
    BY <1>1, ReturnsKeep
  <1>3. WrapShapes'
    BY <1>1, <1>2 DEF WrapShapes
  <1>4. LoneCalls' /\ MakesRoom'
    BY <1>1, <1>2 DEF LoneCalls, MakesRoom
  <1>5. 0 \notin closed
    BY DEF WrapShapes
  <1>6. ClosedIsLeaving' /\ KeyDescribesInstance'
    BY <1>1, <1>5 DEF ClosedIsLeaving, KeyDescribesInstance
  <1>7. LeakHasCause'
    BY <1>1 DEF LeakHasCause, SingletonHolds, MakesRoom
  <1> QED BY <1>2, <1>3, <1>4, <1>6, <1>7 DEF SingletonHolds

LEMMA CloseKeeps ==
  ASSUME WrapIInv, NEW u \in Users, Close(u)
  PROVE  WrapIInv'
  <1> USE DEF WrapIInv
  <1>1. /\ closed' = closed \union {got[u]} /\ got[u] \in Instances
        /\ blame' = blame \union {"closed"} /\ Instances' = Instances
        /\ UNCHANGED <<made, instance, instanceConfig, call, got>>
    BY DEF Close, Closes, Instances
  <1>2. WrapShapes'
    BY <1>1 DEF WrapShapes
  <1>3. IdleHaveNone' /\ LoneCalls' /\ MakesRoom' /\ ClosedIsLeaving'
    BY <1>1 DEF IdleHaveNone, LoneCalls, MakesRoom, ClosedIsLeaving
  <1>4. SingletonHolds'
    BY <1>1 DEF SingletonHolds, KeyDescribesInstance, LeakHasCause
  <1> QED BY <1>2, <1>3, <1>4

\* The old one is closed, the new one not yet made.
LEMMA OldClosedKeeps ==
  ASSUME WrapIInv, NEW u \in Users, OldClosed(u)
  PROVE  WrapIInv'
  <1> USE DEF WrapIInv
  <1>1. /\ call[u].at = "closing" /\ call' = [call EXCEPT ![u].at = "creating"]
        /\ Instances' = Instances /\ UNCHANGED <<made, closed, instance, instanceConfig, got, blame>>
    BY DEF OldClosed, Instances
  <1>2. /\ call' \in [Users -> [at : {"none", "creating", "closing", "clearing"},
                               key : Configs \union {NoConfig}]]
        /\ \A v \in Users : v # u => call'[v] = call[v]
        /\ call'[u].at = "creating"
    BY <1>1 DEF WrapShapes
  <1>3. call[u] # NoCall /\ call'[u] # NoCall
    BY <1>1, <1>2 DEF NoCall
  <1>4. WrapShapes'
    BY <1>1, <1>2 DEF WrapShapes
  <1>5. IdleHaveNone' /\ LoneCalls' /\ ClosedIsLeaving'
    BY <1>1, <1>2, <1>3 DEF IdleHaveNone, LoneCalls, ClosedIsLeaving
  <1>6. MakesRoom' /\ SingletonHolds'
    BY <1>1, <1>2 DEF MakesRoom, SingletonHolds, KeyDescribesInstance, LeakHasCause
  <1> QED BY <1>4, <1>5, <1>6

-----------------------------------------------------------------------------
(***************************************************************************)
(* The theorems.                                                           *)
(***************************************************************************)
LEMMA WrapSteps == WrapIInv /\ [WrapNext]_wrapVars => WrapIInv'
  <1> SUFFICES ASSUME WrapIInv, [WrapNext]_wrapVars PROVE WrapIInv'
    OBVIOUS
  <1>1. ASSUME NEW u \in Users, GetInstance(u) PROVE WrapIInv'
    <2>1. PICK key \in Configs :
            \/ Hit(u, key)
            \/ instance # 0 /\ Closes(instance) /\ Begins(u, "closing", key) /\ UNCHANGED got
            \/ instance = 0 /\ Begins(u, "creating", key) /\ UNCHANGED <<closed, got>>
      BY <1>1 DEF GetInstance
    <2>2. call[u] = NoCall /\ UNCHANGED <<made, instance, instanceConfig>>
      BY <1>1 DEF GetInstance
    <2> QED BY <2>1, <2>2, HitKeeps, BeginsKeeps
  <1>2. ASSUME NEW u \in Users, ClearInstance(u) PROVE WrapIInv'
    BY <1>2, BeginsKeeps DEF ClearInstance
  <1>3. ASSUME UNCHANGED wrapVars PROVE WrapIInv'
    BY <1>3 DEF wrapVars, WrapIInv, WrapShapes, Instances, IdleHaveNone, LoneCalls, MakesRoom,
                ClosedIsLeaving, SingletonHolds, KeyDescribesInstance, LeakHasCause
  <1> QED BY <1>1, <1>2, <1>3, CreatedKeeps, FailsKeep, ClearedKeeps, CloseKeeps, OldClosedKeeps
          DEF WrapNext

LEMMA WrapInvariant == WrapSpec => []WrapIInv
  BY WrapBegins, WrapSteps, PTL DEF WrapSpec

\* However calls overlap the singleton is the one of its key, and an open
\* instance that nobody can reach needs calls that overlapped or one that
\* failed (Captchapi.getInstance, clearInstance, close).
THEOREM SingletonIsTrue == WrapSpec => []SingletonHolds
  BY WrapInvariant, PTL DEF WrapIInv

\* Calls that do not overlap, fail, or close what they hold are never given a
\* closed instance.
THEOREM ClosedIsNotGiven == WrapSpec => ClosedHasCause
  <1>1. WrapIInv /\ [WrapNext]_wrapVars =>
          [\A u \in Users :
             got'[u] # got[u] /\ got'[u] \in closed' => blame' # {}]_wrapVars
    <2> SUFFICES ASSUME WrapIInv, WrapNext, NEW u \in Users, got'[u] # got[u], got'[u] \in closed'
                 PROVE  blame' # {}
      OBVIOUS
    <2> USE DEF WrapIInv
    <2>1. ASSUME NEW v \in Users, NEW key, Hit(v, key), call[v] = NoCall PROVE blame' # {}
      <3>1. /\ got' = [got EXCEPT ![v] = instance] /\ closed' = closed
            /\ blame \subseteq blame'
            /\ (\E w \in Users \ {v} : call[w] # NoCall) => "overlap" \in blame'
        BY <2>1 DEF Hit, Noted
      <3>2. u = v /\ instance \in closed
        BY <3>1 DEF WrapShapes
      <3>3. call[v] = NoCall
        BY <2>1
      <3> QED BY <3>1, <3>2, <3>3 DEF ClosedIsLeaving
    <2>2. ASSUME NEW v \in Users, Created(v) PROVE blame' # {}
      <3>1. got'[u] = New /\ closed' = closed
        BY <2>2 DEF Created, WrapShapes
      <3> QED BY <3>1, NewIsNew DEF WrapShapes
    <2>3. \/ got' = got
          \/ \E v \in Users : Created(v)
          \/ \E v \in Users, key \in Configs : call[v] = NoCall /\ Hit(v, key)
      BY DEF WrapNext, GetInstance, OldClosed, CreateFails, InitializedThrows, CloseFails,
             ClearInstance, Cleared, Close
    <2> QED BY <2>1, <2>2, <2>3
  <1> QED BY <1>1, WrapInvariant, PTL DEF WrapSpec, ClosedHasCause
-----------------------------------------------------------------------------
\* A call that is to make an instance knows for which configuration, and there
\* is a key exactly as long as there is a singleton.
WrapKnown ==
  /\ made \in [Instances -> Configs]
  /\ instance = 0 <=> instanceConfig = NoConfig
  /\ \A u \in Users : call[u].at \in {"closing", "creating"} => call[u].key \in Configs

LEMMA WrapBeginsKnown == WrapInit => WrapKnown
  <1> SUFFICES ASSUME WrapInit PROVE WrapKnown
    OBVIOUS
  <1>1. Instances = {} /\ made \in [Instances -> Configs]
    BY DEF WrapInit, Instances
  <1> QED BY <1>1 DEF WrapInit, WrapKnown, NoCall

LEMMA WrapStaysKnown == WrapIInv /\ WrapKnown /\ [WrapNext]_wrapVars => WrapKnown'
  <1> SUFFICES ASSUME WrapIInv, WrapKnown, [WrapNext]_wrapVars PROVE WrapKnown'
    OBVIOUS
  <1>1. /\ WrapShapes
        /\ \A u \in Users : call[u] \in [at : {"none", "creating", "closing", "clearing"},
                                        key : Configs \union {NoConfig}]
    BY DEF WrapIInv, WrapShapes
  \* A call is set to a record that knows its key, and nothing is made.
  <1>2. ASSUME NEW u \in Users, NEW r, call' = [call EXCEPT ![u] = r], made' = made,
               r.at \in {"closing", "creating"} => r.key \in Configs,
               instance' = 0 <=> instanceConfig' = NoConfig
        PROVE  WrapKnown'
    <2>1. \A v \in Users : call'[v] = IF v = u THEN r ELSE call[v]
      BY <1>2 DEF WrapIInv, WrapShapes
    <2>2. Instances' = Instances
      BY <1>2 DEF Instances
    <2> QED BY <1>2, <2>1, <2>2 DEF WrapKnown
  <1>3. ASSUME NEW u \in Users, NEW where \in {"closing", "creating"}, NEW key \in Configs,
               Begins(u, where, key), UNCHANGED <<made, instance, instanceConfig>>
        PROVE  WrapKnown'
    BY <1>2, <1>3 DEF Begins, WrapKnown
  <1>4. ASSUME UNCHANGED <<made, call, instance, instanceConfig>> PROVE WrapKnown'
    BY <1>4 DEF WrapKnown, Instances
  <1>5. ASSUME NEW u \in Users, GetInstance(u) PROVE WrapKnown'
    <2>1. UNCHANGED <<made, instance, instanceConfig>>
      BY <1>5 DEF GetInstance
    <2>2. \/ UNCHANGED call
          \/ \E key \in Configs : Begins(u, "closing", key) \/ Begins(u, "creating", key)
      BY <1>5 DEF GetInstance, Hit
    <2> QED BY <1>3, <1>4, <2>1, <2>2
  <1>6. ASSUME NEW u \in Users, ClearInstance(u) PROVE WrapKnown'
    <2>1. /\ UNCHANGED <<made, instance, instanceConfig>>
          /\ call' = [call EXCEPT ![u] = [at |-> "clearing", key |-> NoConfig]]
      BY <1>6 DEF ClearInstance, Begins
    <2> QED BY <1>2, <2>1 DEF WrapKnown
  <1>7. ASSUME NEW u \in Users, OldClosed(u) PROVE WrapKnown'
    <2>1. /\ UNCHANGED <<made, instance, instanceConfig>> /\ call[u].at = "closing"
          /\ call' = [call EXCEPT ![u].at = "creating"]
      BY <1>7 DEF OldClosed
    <2>2. /\ \A v \in Users \ {u} : call'[v] = call[v]
          /\ call'[u].key = call[u].key
      BY <1>1, <2>1 DEF WrapIInv, WrapShapes
    <2> QED BY <2>1, <2>2 DEF WrapKnown, Instances
  <1>8. ASSUME NEW u \in Users, CreateFails(u) \/ CloseFails(u) PROVE WrapKnown'
    BY <1>2, <1>8 DEF CreateFails, CloseFails, Returns, NoCall, WrapKnown
  <1>9. ASSUME NEW u \in Users, Cleared(u) PROVE WrapKnown'
    BY <1>2, <1>9 DEF Cleared, Returns, NoCall
  <1>10. ASSUME NEW u \in Users, Created(u) \/ InitializedThrows(u) PROVE WrapKnown'
    <2>1. /\ call[u].at = "creating" /\ call[u].key \in Configs /\ Makes(call[u].key)
          /\ Returns(u)
          /\ \/ instance' = New /\ instanceConfig' = call[u].key
             \/ UNCHANGED <<instance, instanceConfig>>
      BY <1>10 DEF Created, InitializedThrows, WrapKnown
    <2>2. made' \in [Instances' -> Configs]
      BY <2>1 DEF Makes, Instances, WrapKnown
    <2>3. \A v \in Users : call'[v] = IF v = u THEN NoCall ELSE call[v]
      BY <2>1 DEF Returns, WrapIInv, WrapShapes
    <2>4. instance' = 0 <=> instanceConfig' = NoConfig
      BY <1>1, <2>1, NewIsNew, WrapAssumption DEF WrapKnown
    <2> QED BY <2>2, <2>3, <2>4 DEF WrapKnown, NoCall
  <1>11. ASSUME NEW u \in Users, Close(u) PROVE WrapKnown'
    BY <1>4, <1>11 DEF Close
  <1> QED BY <1>4, <1>5, <1>6, <1>7, <1>8, <1>9, <1>10, <1>11 DEF WrapNext, wrapVars

LEMMA WrapIsTyped == WrapIInv /\ WrapKnown => WrapTypeOK
  <1> SUFFICES ASSUME WrapIInv, WrapKnown PROVE WrapTypeOK
    OBVIOUS
  <1>1. PICK n \in Nat : Instances = 1 .. n
    BY DEF WrapIInv, WrapShapes
  <1>2. Instances = 1 .. Cardinality(Instances)
    BY <1>1, FS_Interval
  <1>3. \A u \in Users : got[u] \in Instances \union {0}
    BY DEF WrapIInv, WrapShapes
  <1>4. closed \subseteq Instances /\ instance \in Instances \union {0}
    BY DEF WrapIInv, WrapShapes
  <1> QED BY <1>2, <1>3, <1>4 DEF WrapKnown, WrapTypeOK
-----------------------------------------------------------------------------
(***************************************************************************)
(* The calls of one instance.                                              *)
(***************************************************************************)
\* What a call is about, and how far it can be.
OnCourse(r) ==
  /\ r.has => r.at \in Statements
  /\ \/ r.op = "none" /\ r.at = "none"
     \/ r.op = "createSession" /\ (r.at = "insert" \/ (r.at = "ok" /\ r.on \in SessionIds))
     \/ r.op = "validate" /\ r.on \in SessionIds
        /\ r.at \in {"select", "evict", "refuse", "accept", "charge", "ok"}
     \/ r.op \in {"getImage", "getSession"} /\ r.at \in {"select", "evict", "ok"} /\ r.on \in SessionIds
     \/ r.op = "deleteSession" /\ r.at \in {"delete", "ok"} /\ r.on \in SessionIds
     \/ r.op = "cleanupExpired" /\ r.at \in {"sweep", "ok"}
     \/ r.op = "createApiKey" /\ (r.at = "insert key" \/ (r.at = "ok" /\ r.on \in KeyHashes))
     \/ r.op \in {"validateApiKey", "getApiKey"} /\ r.at \in {"select key", "ok"} /\ r.on \in KeyHashes
     \/ r.op = "listApiKeys" /\ r.at \in {"select key", "ok"}
     \/ r.op = "updateApiKey" /\ r.at \in {"update key", "ok"} /\ r.on \in KeyHashes
     \/ r.op = "deleteApiKey" /\ r.at \in {"delete key", "ok"} /\ r.on \in KeyHashes

Ops == {"none", "createSession", "validate", "getImage", "getSession", "deleteSession",
        "cleanupExpired", "createApiKey", "validateApiKey", "getApiKey", "listApiKeys",
        "updateApiKey", "deleteApiKey"}
Calls == [op : Ops, at : Statements \union {"none", "ok"},
          on : SessionIds \union KeyHashes \union {Nobody}, has : BOOLEAN, did : BOOLEAN]

NodeShapes ==
  /\ ops \in [Promises -> Calls]
  /\ \A p \in Promises : OnCourse(ops[p])
  /\ table \in [SessionIds -> [is : {"unborn", "live", "expired", "gone"}, attempts : Nat]]
  /\ keyring \in [KeyHashes -> {"unborn", "active", "inactive", "gone"}]

\* What there is, and what there was.
There == {id \in SessionIds : table[id].is = "live"} \union {h \in KeyHashes : KeyIsThere(h)}
Past == {id \in SessionIds : table[id].is = "gone"} \union {h \in KeyHashes : keyring[h] = "gone"}

Announces(r, x) == r.op \in Creations /\ r.at = "ok" /\ r.on = x
Deleted(r) == r.op \in Deletions /\ r.at = "ok" /\ r.did

\* What was answered, or is about to be, as deleted, is gone.
DeletedAreGone ==
  removed \subseteq Past /\ \A p \in Promises : Deleted(ops[p]) => ops[p].on \in Past

\* OrphanHasCause and DeletedOnce, in terms of what there is.
Told ==
  \A x \in There : x \in known \/ (\E p \in Promises : Announces(ops[p], x)) \/ threw

Once ==
  \A p \in Promises : Deleted(ops[p]) =>
    /\ ops[p].on \notin removed
    /\ \A q \in Promises \ {p} : ~ (Deleted(ops[q]) /\ ops[q].on = ops[p].on)

Honest == DeletedAreGone /\ Told /\ Once

\* An answered close has left no connection, and none will be given.
Drained ==
  /\ pool \in {"open", "closing", "closed"}
  /\ answered => isClosed /\ pool = "closed"
  /\ pool = "closed" => \A p \in Promises : ~ ops[p].has

NodeIInv == NodeShapes /\ Drained /\ Honest

-----------------------------------------------------------------------------
LEMMA NodeBegins == NodeInit => NodeIInv
  <1> SUFFICES ASSUME NodeInit PROVE NodeIInv
    OBVIOUS
  <1> USE DEF NodeInit, NoPromise
  <1>1. NodeShapes
    BY DEF NodeShapes, Calls, Ops, OnCourse
  <1>2. Drained /\ DeletedAreGone
    BY DEF Drained, DeletedAreGone, Deleted, Deletions
  <1>3. Told /\ Once
    BY DEF Told, Once, There, Deleted, Deletions, KeyIsThere
  <1> QED BY <1>1, <1>2, <1>3 DEF NodeIInv, Honest

LEMMA HonestyIs == Honest => CallsAreHonest
  <1>1. Told => OrphanHasCause
    BY DEF Told, OrphanHasCause, There, Announces
  <1>2. Once => DeletedOnce
    BY DEF Once, DeletedOnce, Deleted
  <1> QED BY <1>1, <1>2 DEF Honest, CallsAreHonest

-----------------------------------------------------------------------------
(***************************************************************************)
(* The four kinds of step a call makes, and why each leaves what promises  *)
(* say true.                                                               *)
(***************************************************************************)
\* Nothing comes into being, and nobody is told.
Silent(p) ==
  /\ ops[p].at # "ok" /\ ~ Deleted(ops'[p])
  /\ There' \subseteq There /\ Past \subseteq Past'
  /\ UNCHANGED <<known, removed, threw>>

\* One thing comes into being, and its caller is about to be told.
Creates(p) ==
  /\ ops[p].at # "ok" /\ ~ Deleted(ops'[p])
  /\ \E x : There' \subseteq There \union {x} /\ Announces(ops'[p], x)
  /\ Past \subseteq Past'
  /\ UNCHANGED <<known, removed, threw>>

\* One thing that was there is gone, and its caller is about to be told.
Deletes(p) ==
  /\ ops[p].at # "ok"
  /\ There' \subseteq There /\ Past \subseteq Past'
  /\ ops'[p].on \notin Past /\ ops'[p].on \in Past'
  /\ UNCHANGED <<known, removed, threw>>

\* The caller is told, or its callback throws.
Tells(p) ==
  /\ UNCHANGED <<table, keyring>>
  /\ ~ Deleted(ops'[p])
  /\ \/ threw' /\ UNCHANGED <<known, removed>>
     \/ /\ known' = known \union IF ops[p].op \in Creations THEN {ops[p].on} ELSE {}
        /\ removed' = removed \union IF Deleted(ops[p]) THEN {ops[p].on} ELSE {}
        /\ UNCHANGED threw

\* A step of one call.
StepOf(p) ==
  /\ \A q \in Promises \ {p} : ops'[q] = ops[q]
  /\ ops'[p].has => pool = "open"
  /\ UNCHANGED <<isClosed, pool, answered>>
  /\ Silent(p) \/ Creates(p) \/ Deletes(p) \/ Tells(p)

LEMMA SilenceIsHonest ==
  ASSUME Honest, NEW p \in Promises, StepOf(p), Silent(p)
  PROVE  Honest'
  <1> USE DEF Honest, StepOf, Silent
  <1>1. DeletedAreGone'
    BY DEF DeletedAreGone
  <1>2. \A x : \A q \in Promises : Announces(ops[q], x) => Announces(ops'[q], x)
    BY DEF Announces
  <1>3. Told'
    BY <1>2 DEF Told
  <1>4. Once'
    BY DEF Once
  <1> QED BY <1>1, <1>3, <1>4

LEMMA CreationIsHonest ==
  ASSUME Honest, NEW p \in Promises, StepOf(p), Creates(p)
  PROVE  Honest'
  <1> USE DEF Honest, StepOf, Creates
  <1>1. DeletedAreGone'
    BY DEF DeletedAreGone
  <1>2. \A x : \A q \in Promises : Announces(ops[q], x) => Announces(ops'[q], x)
    BY DEF Announces
  <1>3. Told'
    BY <1>2 DEF Told
  <1>4. Once'
    BY DEF Once
  <1> QED BY <1>1, <1>3, <1>4

LEMMA DeletionIsHonest ==
  ASSUME Honest, NEW p \in Promises, StepOf(p), Deletes(p)
  PROVE  Honest'
  <1> USE DEF Honest, StepOf, Deletes
  <1>1. DeletedAreGone'
    BY DEF DeletedAreGone
  <1>2. \A x : \A q \in Promises : Announces(ops[q], x) => Announces(ops'[q], x)
    BY DEF Announces
  <1>3. Told'
    BY <1>2 DEF Told
  <1>4. \A q \in Promises \ {p} : Deleted(ops[q]) => ops[q].on # ops'[p].on
    BY DEF DeletedAreGone
  <1>5. ops'[p].on \notin removed
    BY DEF DeletedAreGone
  <1>6. Once'
    BY <1>4, <1>5 DEF Once
  <1> QED BY <1>1, <1>3, <1>6

LEMMA TellingIsHonest ==
  ASSUME Honest, NEW p \in Promises, StepOf(p), Tells(p)
  PROVE  Honest'
  <1> USE DEF Honest, StepOf, Tells
  <1>1. There' = There /\ Past' = Past
    BY DEF There, Past, KeyIsThere
  <1>2. DeletedAreGone'
    BY <1>1 DEF DeletedAreGone
  <1>3. ASSUME NEW x \in There' PROVE x \in known' \/ (\E q \in Promises : Announces(ops'[q], x)) \/ threw'
    <2>1. x \in known \/ (\E q \in Promises : Announces(ops[q], x)) \/ threw
      BY <1>1, <1>3 DEF Told
    <2>2. CASE x \in known \/ threw
      BY <2>2
    <2>3. ASSUME NEW q \in Promises, Announces(ops[q], x)
          PROVE  x \in known' \/ Announces(ops'[q], x) \/ threw'
      BY <2>3 DEF Announces
    <2> QED BY <2>1, <2>2, <2>3
  <1>4. Told'
    BY <1>3 DEF Told
  <1>5. Once'
    BY DEF Once
  <1> QED BY <1>2, <1>4, <1>5

LEMMA StepIsHonest ==
  ASSUME Honest, NEW p \in Promises, StepOf(p)
  PROVE  Honest'
  BY SilenceIsHonest, CreationIsHonest, DeletionIsHonest, TellingIsHonest DEF StepOf

-----------------------------------------------------------------------------
(***************************************************************************)
(* Every step of a call is of one of the kinds.                            *)
(***************************************************************************)
\* A call that is set to record r, and tables that keep their shape.
LEMMA ShapesStay ==
  ASSUME NodeShapes, NEW p \in Promises, NEW r \in Calls, OnCourse(r),
         ops' = [ops EXCEPT ![p] = r],
         table' \in [SessionIds -> [is : {"unborn", "live", "expired", "gone"}, attempts : Nat]],
         keyring' \in [KeyHashes -> {"unborn", "active", "inactive", "gone"}]
  PROVE  NodeShapes' /\ ops'[p] = r /\ \A q \in Promises \ {p} : ops'[q] = ops[q]
  <1>1. ops' \in [Promises -> Calls] /\ ops'[p] = r /\ \A q \in Promises \ {p} : ops'[q] = ops[q]
    BY DEF NodeShapes
  <1>2. \A q \in Promises : OnCourse(ops'[q])
    BY <1>1 DEF NodeShapes
  <1> QED BY <1>1, <1>2 DEF NodeShapes

\* The records a step may leave in place of ops[p].
LEMMA Records ==
  ASSUME NodeShapes, NEW p \in Promises
  PROVE  /\ ops[p] \in Calls
         /\ NoPromise \in Calls /\ OnCourse(NoPromise) /\ ~ Deleted(NoPromise)
         /\ \A to : GoesTo(p, to) <=>
              ops' = [ops EXCEPT ![p] = [ops[p] EXCEPT !.at = to, !.has = FALSE]]
  <1>1. ops[p] \in Calls
    BY DEF NodeShapes
  <1>2. NoPromise \in Calls /\ OnCourse(NoPromise) /\ ~ Deleted(NoPromise)
    BY DEF NoPromise, Calls, Ops, OnCourse, Deleted
  <1>3. \A to : GoesTo(p, to) <=>
              ops' = [ops EXCEPT ![p] = [ops[p] EXCEPT !.at = to, !.has = FALSE]]
    BY <1>1 DEF GoesTo, NodeShapes, Calls
  <1> QED BY <1>1, <1>2, <1>3

\* A step that leaves the tables, for a record that tells nobody of anything.
LEMMA TablesStay ==
  ASSUME NodeShapes, NEW p \in Promises, NEW r \in Calls, OnCourse(r),
         ops' = [ops EXCEPT ![p] = r],
         UNCHANGED <<isClosed, pool, tables, known, removed, answered, threw>>,
         ops[p].at # "ok", ~ Deleted(r), r.has => pool = "open"
  PROVE  NodeShapes' /\ StepOf(p)
  <1> USE DEF tables
  <1>1. NodeShapes' /\ ops'[p] = r /\ \A q \in Promises \ {p} : ops'[q] = ops[q]
    BY ShapesStay DEF NodeShapes
  <1>2. There' = There /\ Past' = Past
    BY DEF There, Past, KeyIsThere
  <1>3. Silent(p)
    BY <1>1, <1>2 DEF Silent
  <1> QED BY <1>1, <1>3 DEF StepOf

LEMMA PoolSteps ==
  ASSUME NodeShapes, NEW p \in Promises, Acquire(p) \/ AcquireFails(p) \/ StatementFails(p)
  PROVE  NodeShapes' /\ StepOf(p)
  <1> USE DEF Quietly
  <1>1. CASE Acquire(p)
    <2> DEFINE r == [ops[p] EXCEPT !.has = TRUE]
    <2>4. ops[p] \in Calls /\ OnCourse(ops[p]) /\ ops[p].at \in Statements
      BY <1>1 DEF Acquire, Waits, NodeShapes
    <2>5. r \in Calls /\ r.op = ops[p].op /\ r.at = ops[p].at /\ r.on = ops[p].on
      BY <2>4 DEF Calls
    <2>1. r \in Calls /\ OnCourse(r)
      BY <2>4, <2>5 DEF OnCourse
    <2>3. ops' = [ops EXCEPT ![p] = r]
      BY <1>1 DEF Acquire, NodeShapes, Calls
    <2>2. ops[p].at # "ok" /\ ~ Deleted(r) /\ pool = "open"
      BY <1>1, Records DEF Acquire, Waits, Statements, Deleted, Calls
    <2> HIDE DEF r
    <2> QED BY <2>1, <2>2, <2>3, <1>1, TablesStay DEF Acquire
  <1>2. ASSUME Breaks(p), Quietly, ops[p].at # "ok" PROVE NodeShapes' /\ StepOf(p)
    <2>1. CASE Rejected(p)
      BY <2>1, <1>2, Records, TablesStay DEF Rejected, NoPromise
    <2>2. CASE ops[p].at = "refuse" /\ GoesTo(p, "ok")
      <3> DEFINE r == [ops[p] EXCEPT !.at = "ok", !.has = FALSE]
      <3>1. ops[p].op = "validate" /\ r \in Calls /\ OnCourse(r) /\ ~ Deleted(r) /\ ~ r.has
        BY <2>2 DEF NodeShapes, Calls, OnCourse, Deleted, Deletions
      <3>2. ops' = [ops EXCEPT ![p] = r]
        BY <2>2, Records
      <3> HIDE DEF r
      <3> QED BY <3>1, <3>2, <1>2, TablesStay
    <2> QED BY <1>2, <2>1, <2>2 DEF Breaks, GoesTo
  <1>3. CASE AcquireFails(p)
    BY <1>3, <1>2 DEF AcquireFails, Waits, Statements
  <1>4. CASE StatementFails(p)
    <2>1. ops[p].at # "ok"
      BY <1>4 DEF StatementFails, NodeShapes, OnCourse, Statements
    <2> QED BY <1>4, <1>2, <2>1 DEF StatementFails
  <1> QED BY <1>1, <1>3, <1>4

Things == SessionIds \union KeyHashes \union {Nobody}

\* A call that ends stays the call it was, about what its statement says.
LEMMA EndOf ==
  ASSUME NodeShapes, NEW p \in Promises, NEW on \in Things, NEW did \in BOOLEAN,
         Ends(p, on, did), ops[p].at \in Statements,
         \/ on = ops[p].on /\ ops[p].op \notin Creations
         \/ ops[p].op = "createSession" /\ on \in SessionIds
         \/ ops[p].op = "createApiKey" /\ on \in KeyHashes
         \/ ops[p].op \in {"cleanupExpired", "listApiKeys"},
         table' \in [SessionIds -> [is : {"unborn", "live", "expired", "gone"}, attempts : Nat]],
         keyring' \in [KeyHashes -> {"unborn", "active", "inactive", "gone"}]
  PROVE  /\ NodeShapes'
         /\ ops'[p].op = ops[p].op /\ ops'[p].at = "ok" /\ ops'[p].on = on
         /\ ops'[p].did = did /\ ~ ops'[p].has
         /\ \A q \in Promises \ {p} : ops'[q] = ops[q]
         /\ ops[p].at # "ok"
  <1> DEFINE r == [ops[p] EXCEPT !.at = "ok", !.has = FALSE, !.on = on, !.did = did]
  <1>1. OnCourse(ops[p]) /\ ops[p] \in Calls /\ ops[p].at \notin {"ok", "none"}
    BY DEF NodeShapes, Statements
  <1>2. /\ r \in Calls /\ r.op = ops[p].op /\ r.at = "ok"
        /\ r.on = on /\ r.did = did /\ ~ r.has
    BY <1>1 DEF Calls, Things
  <1>3. OnCourse(r)
    <2>1. CASE ops[p].op \in Creations
      BY <1>2, <2>1 DEF OnCourse, Creations
    <2>2. CASE ops[p].op \notin Creations
      BY <1>1, <1>2, <2>2 DEF OnCourse, Creations
    <2> QED BY <2>1, <2>2
  <1>4. ops' = [ops EXCEPT ![p] = r]
    BY <1>1 DEF Ends, NodeShapes, Calls
  <1> HIDE DEF r
  <1>5. NodeShapes' /\ ops'[p] = r /\ \A q \in Promises \ {p} : ops'[q] = ops[q]
    BY <1>2, <1>3, <1>4, ShapesStay
  <1> QED BY <1>1, <1>2, <1>5

LEMMA create_session_Step ==
  ASSUME NodeShapes, NEW p \in Promises, create_session(p)
  PROVE  NodeShapes' /\ StepOf(p)
  <1> USE DEF OnSessions, Runs, create_session
  <1>1. PICK id \in SessionIds :
          /\ table[id].is = "unborn"
          /\ table' = [table EXCEPT ![id].is = "live"]
          /\ Ends(p, id, TRUE)
    OBVIOUS
  <1>2. ops[p].op = "createSession"
    BY DEF NodeShapes, OnCourse
  <1>3. table' \in [SessionIds -> [is : {"unborn", "live", "expired", "gone"}, attempts : Nat]]
    BY <1>1 DEF NodeShapes
  <1>4. /\ NodeShapes' /\ ops'[p].op = ops[p].op /\ ops'[p].at = "ok" /\ ops'[p].on = id
        /\ ~ ops'[p].has /\ ops[p].at # "ok"
        /\ \A q \in Promises \ {p} : ops'[q] = ops[q]
    BY <1>1, <1>2, <1>3, EndOf DEF Things, Statements, NodeShapes
  <1>5. There' \subseteq There \union {id} /\ Past \subseteq Past'
    BY <1>1 DEF There, Past, KeyIsThere, NodeShapes
  <1>6. Creates(p)
    BY <1>2, <1>4, <1>5 DEF Creates, Announces, Creations, Deleted, Deletions
  <1> QED BY <1>4, <1>6 DEF StepOf

LEMMA create_api_key_Step ==
  ASSUME NodeShapes, NEW p \in Promises, create_api_key(p)
  PROVE  NodeShapes' /\ StepOf(p)
  <1> USE DEF OnKeys, Runs, create_api_key
  <1>1. PICK h \in KeyHashes :
          /\ keyring[h] = "unborn"
          /\ keyring' = [keyring EXCEPT ![h] = "active"]
          /\ Ends(p, h, TRUE)
    OBVIOUS
  <1>2. ops[p].op = "createApiKey"
    BY DEF NodeShapes, OnCourse
  <1>3. keyring' \in [KeyHashes -> {"unborn", "active", "inactive", "gone"}]
    BY <1>1 DEF NodeShapes
  <1>4. /\ NodeShapes' /\ ops'[p].op = ops[p].op /\ ops'[p].at = "ok" /\ ops'[p].on = h
        /\ ~ ops'[p].has /\ ops[p].at # "ok"
        /\ \A q \in Promises \ {p} : ops'[q] = ops[q]
    BY <1>1, <1>2, <1>3, EndOf DEF Things, Statements, NodeShapes
  <1>5. There' \subseteq There \union {h} /\ Past \subseteq Past'
    BY <1>1 DEF There, Past, KeyIsThere, NodeShapes
  <1>6. Creates(p)
    BY <1>2, <1>4, <1>5 DEF Creates, Announces, Creations, Deleted, Deletions
  <1> QED BY <1>4, <1>6 DEF StepOf

\* What DeleteRow does to what there is.
LEMMA RowsGo ==
  ASSUME NodeShapes, NEW id \in SessionIds, DeleteRow(id), UNCHANGED keyring
  PROVE  /\ table' \in [SessionIds -> [is : {"unborn", "live", "expired", "gone"}, attempts : Nat]]
         /\ There' \subseteq There /\ Past \subseteq Past'
         /\ table[id].is \in {"live", "expired"} => id \in Past'
  <1>1. table' \in [SessionIds -> [is : {"unborn", "live", "expired", "gone"}, attempts : Nat]]
    BY DEF NodeShapes, DeleteRow
  <1>2. \A i \in SessionIds : table'[i].is = IF i = id /\ table[id].is \in {"live", "expired"}
                                             THEN "gone" ELSE table[i].is
    BY DEF NodeShapes, DeleteRow
  <1>3. There' \subseteq There /\ Past \subseteq Past'
    BY <1>2 DEF There, Past, KeyIsThere
  <1>4. table[id].is \in {"live", "expired"} => id \in Past'
    BY <1>2 DEF Past
  <1> QED BY <1>1, <1>3, <1>4

LEMMA delete_session_Step ==
  ASSUME NodeShapes, NodeAssumption, NEW p \in Promises, delete_session(p)
  PROVE  NodeShapes' /\ StepOf(p)
  <1> USE DEF OnSessions, Runs, delete_session
  <1> DEFINE id == ops[p].on
             was == table[id].is \in {"live", "expired"}
  <1>1. ops[p].op = "deleteSession" /\ id \in SessionIds
    BY DEF NodeShapes, OnCourse
  <1>2. /\ table' \in [SessionIds -> [is : {"unborn", "live", "expired", "gone"}, attempts : Nat]]
        /\ There' \subseteq There /\ Past \subseteq Past'
        /\ was => id \in Past'
    BY <1>1, RowsGo
  <1>7. (was /\ Ends(p, id, TRUE)) \/ (~ was /\ Ends(p, id, FALSE))
    <2>1. Ends(p, id, was)
      OBVIOUS
    <2>2. was = TRUE \/ was = FALSE
      OBVIOUS
    <2> HIDE DEF was
    <2> QED BY ONLY <2>1, <2>2, Zenon
  <1>3. /\ NodeShapes' /\ ops'[p].op = ops[p].op /\ ops'[p].at = "ok" /\ ops'[p].on = id
        /\ (was /\ ops'[p].did = TRUE) \/ (~ was /\ ops'[p].did = FALSE)
        /\ ~ ops'[p].has /\ ops[p].at # "ok"
        /\ \A q \in Promises \ {p} : ops'[q] = ops[q]
    BY <1>1, <1>2, <1>7, EndOf DEF Creations, Things, Statements, NodeShapes
  <1>4. was => id \notin Past
    BY <1>1 DEF Past, NodeAssumption
  <1>5. CASE was
    <2>1. Deletes(p)
      BY <1>2, <1>3, <1>4, <1>5 DEF Deletes
    <2> QED BY <2>1, <1>3 DEF StepOf
  <1>6. CASE ~ was
    <2>1. Silent(p)
      BY <1>2, <1>3, <1>6 DEF Silent, Deleted
    <2> QED BY <2>1, <1>3 DEF StepOf
  <1> QED BY <1>5, <1>6

LEMMA delete_api_key_Step ==
  ASSUME NodeShapes, NodeAssumption, NEW p \in Promises, delete_api_key(p)
  PROVE  NodeShapes' /\ StepOf(p)
  <1> DEFINE h == ops[p].on
             was == keyring[h] \in {"active", "inactive"}
  <1>9. was = TRUE \/ was = FALSE
    OBVIOUS
  <1> USE DEF OnKeys, Runs, delete_api_key
  <1>1. ops[p].op = "deleteApiKey" /\ h \in KeyHashes
    BY DEF NodeShapes, OnCourse
  <1>2. keyring' \in [KeyHashes -> {"unborn", "active", "inactive", "gone"}]
    BY <1>1 DEF NodeShapes
  <1>8. (was /\ Ends(p, h, TRUE)) \/ (~ was /\ Ends(p, h, FALSE))
    <2>1. Ends(p, h, was)
      BY DEF KeyIsThere
    <2> HIDE DEF was
    <2> QED BY ONLY <2>1, <1>9, Zenon
  <1>3. /\ NodeShapes' /\ ops'[p].op = ops[p].op /\ ops'[p].at = "ok" /\ ops'[p].on = h
        /\ (was /\ ops'[p].did = TRUE) \/ (~ was /\ ops'[p].did = FALSE)
        /\ ~ ops'[p].has /\ ops[p].at # "ok"
        /\ \A q \in Promises \ {p} : ops'[q] = ops[q]
    BY <1>1, <1>2, <1>8, EndOf DEF Creations, Things, Statements, NodeShapes
  <1>4. There' \subseteq There /\ Past \subseteq Past'
    BY <1>1 DEF There, Past, KeyIsThere, NodeShapes
  <1>5. was => h \notin Past /\ h \in Past'
    BY <1>1 DEF Past, KeyIsThere, NodeAssumption, NodeShapes
  <1>6. CASE was
    <2>1. Deletes(p)
      BY <1>3, <1>4, <1>5, <1>6 DEF Deletes
    <2> QED BY <2>1, <1>3 DEF StepOf
  <1>7. CASE ~ was
    <2>1. Silent(p)
      BY <1>3, <1>4, <1>7 DEF Silent, Deleted
    <2> QED BY <2>1, <1>3 DEF StepOf
  <1> QED BY <1>6, <1>7

\* A select, once it is known what the row was.
LEMMA ActiveStep ==
  ASSUME NodeShapes, NEW p \in Promises, Runs(p, "select"), NEW to, Active(p, to),
         ASSUME to, UNCHANGED tables PROVE NodeShapes' /\ StepOf(p)
  PROVE  NodeShapes' /\ StepOf(p)
  <1> USE DEF OnSessions, Active
  <1>1. UNCHANGED tables /\ ops[p].at = "select" /\ OnCourse(ops[p]) /\ ops[p] \in Calls
    BY DEF tables, Runs, NodeShapes
  <1>2. CASE GoesTo(p, "evict")
    <2> DEFINE r == [ops[p] EXCEPT !.at = "evict", !.has = FALSE]
    <2>1. r \in Calls /\ r.op = ops[p].op /\ r.at = "evict" /\ r.on = ops[p].on /\ ~ r.has
      BY <1>1 DEF Calls, Statements
    <2>2. OnCourse(r) /\ ~ Deleted(r) /\ ops' = [ops EXCEPT ![p] = r]
      BY <1>1, <1>2, <2>1, Records DEF OnCourse, Deleted
    <2> HIDE DEF r
    <2> QED BY <1>1, <2>1, <2>2, TablesStay
  <1>3. CASE Rejected(p)
    BY <1>1, <1>3, Records, TablesStay DEF Rejected, NoPromise
  <1> QED BY <1>1, <1>2, <1>3

\* A call that ends having changed nothing that is there.
LEMMA QuietEnd ==
  ASSUME NodeShapes, NEW p \in Promises, NEW on \in Things, NEW did \in BOOLEAN,
         Ends(p, on, did), ops[p].at \in Statements, ops[p].op \notin Creations \union Deletions,
         on = ops[p].on \/ ops[p].op \in {"cleanupExpired", "listApiKeys"},
         table' \in [SessionIds -> [is : {"unborn", "live", "expired", "gone"}, attempts : Nat]],
         keyring' \in [KeyHashes -> {"unborn", "active", "inactive", "gone"}],
         There' \subseteq There, Past \subseteq Past',
         UNCHANGED <<isClosed, pool, known, removed, answered, threw>>
  PROVE  NodeShapes' /\ StepOf(p)
  <1>1. /\ NodeShapes' /\ ops'[p].op = ops[p].op /\ ~ ops'[p].has /\ ops[p].at # "ok"
        /\ \A q \in Promises \ {p} : ops'[q] = ops[q]
    BY EndOf
  <1>2. Silent(p)
    BY <1>1 DEF Silent, Deleted
  <1> QED BY <1>1, <1>2 DEF StepOf

\* The same for a call that leaves the tables.
LEMMA ReadingEnd ==
  ASSUME NodeShapes, NEW p \in Promises, NEW on \in Things, NEW did \in BOOLEAN,
         Ends(p, on, did), ops[p].at \in Statements, ops[p].op \notin Creations \union Deletions,
         on = ops[p].on \/ ops[p].op \in {"cleanupExpired", "listApiKeys"},
         UNCHANGED <<isClosed, pool, table, keyring, known, removed, answered, threw>>
  PROVE  NodeShapes' /\ StepOf(p)
  <1>1. There' = There /\ Past' = Past
    BY DEF There, Past, KeyIsThere
  <1> QED BY <1>1, QuietEnd DEF NodeShapes

LEMMA validate_Step ==
  ASSUME NodeShapes, NEW p \in Promises, validate(p)
  PROVE  NodeShapes' /\ StepOf(p)
  <1> USE DEF OnSessions, Runs
  <1>1. CASE select_for_validate(p)
    <2>1. PICK verdict \in {"refuse", "accept", "charge"} : Active(p, GoesTo(p, verdict))
      BY <1>1 DEF select_for_validate
    <2>2. OnCourse(ops[p]) /\ ops[p] \in Calls /\ ops[p].at = "select" /\ ops[p].op = "validate"
      BY <1>1 DEF select_for_validate, NodeShapes
    <2>3. ASSUME GoesTo(p, verdict), UNCHANGED tables PROVE NodeShapes' /\ StepOf(p)
      <3> DEFINE r == [ops[p] EXCEPT !.at = verdict, !.has = FALSE]
      <3>1. r \in Calls /\ r.op = "validate" /\ r.at = verdict /\ r.on = ops[p].on /\ ~ r.has
        BY <2>2 DEF Calls, Statements
      <3>2. OnCourse(r) /\ ~ Deleted(r)
        BY <2>2, <3>1 DEF OnCourse, Deleted, Deletions
      <3>3. ops' = [ops EXCEPT ![p] = r]
        BY <2>3, Records
      <3> HIDE DEF r
      <3> QED BY <2>1, <2>2, <2>3, <3>1, <3>2, <3>3, TablesStay DEF Active
    <2> QED BY <1>1, <2>1, <2>3, ActiveStep DEF select_for_validate
  <1>2. CASE /\ ops[p].at \in {"refuse", "accept"} /\ ops[p].has
             /\ DeleteRow(ops[p].on) /\ Ends(p, ops[p].on, TRUE)
             /\ OnSessions
    <2>1. ops[p].op = "validate" /\ ops[p].on \in SessionIds
      BY <1>2 DEF NodeShapes, OnCourse
    <2> QED BY <1>2, <2>1, RowsGo, QuietEnd DEF Things, Statements, Creations, Deletions, NodeShapes
  <1>3. CASE /\ ops[p].at = "charge" /\ ops[p].has
             /\ LET id == ops[p].on IN
                table' = [table EXCEPT ![id].attempts =
                            IF table[id].is = "gone" THEN @ ELSE @ + 1]
             /\ Ends(p, ops[p].on, TRUE)
             /\ OnSessions
    <2>1. ops[p].op = "validate" /\ ops[p].on \in SessionIds
      BY <1>3 DEF NodeShapes, OnCourse
    <2>2. /\ table' \in [SessionIds -> [is : {"unborn", "live", "expired", "gone"}, attempts : Nat]]
          /\ \A i \in SessionIds : table'[i].is = table[i].is
      BY <1>3, <2>1 DEF NodeShapes
    <2>3. There' = There /\ Past' = Past
      BY <1>3, <2>2 DEF There, Past, KeyIsThere
    <2> QED BY <1>3, <2>1, <2>2, <2>3, QuietEnd DEF Things, Statements, Creations, Deletions, NodeShapes
  <1> QED BY <1>1, <1>2, <1>3 DEF validate

LEMMA evict_Step ==
  ASSUME NodeShapes, NEW p \in Promises, evict(p)
  PROVE  NodeShapes' /\ StepOf(p)
  <1> USE DEF OnSessions, Runs, evict
  <1>1. ops[p].on \in SessionIds /\ ops[p].at # "ok"
    BY DEF NodeShapes, OnCourse
  <1>2. /\ table' \in [SessionIds -> [is : {"unborn", "live", "expired", "gone"}, attempts : Nat]]
        /\ There' \subseteq There /\ Past \subseteq Past'
    BY <1>1, RowsGo
  <1>3. NodeShapes' /\ ops'[p] = NoPromise /\ \A q \in Promises \ {p} : ops'[q] = ops[q]
    BY <1>2, Records, ShapesStay DEF Rejected, NodeShapes
  <1>4. Silent(p)
    BY <1>1, <1>2, <1>3, Records DEF Silent
  <1> QED BY <1>3, <1>4 DEF StepOf, NoPromise

LEMMA ReadingSteps ==
  ASSUME NodeShapes, NEW p \in Promises,
         \/ get_image(p) \/ get_session(p)
         \/ validate_api_key(p) \/ get_api_key(p) \/ list_api_keys(p)
  PROVE  NodeShapes' /\ StepOf(p)
  <1> USE DEF OnSessions, OnKeys
  <1>1. /\ ops[p] \in Calls /\ OnCourse(ops[p])
        /\ ops[p].on \in Things /\ Nobody \in Things
    BY DEF NodeShapes, Calls, Things
  <1>2. CASE get_image(p)
    <2>1. Runs(p, "select") /\ ops[p].op = "getImage" /\ ops[p].at \in Statements
      BY <1>2 DEF get_image, Runs, Statements
    <2>2. ASSUME Ends(p, ops[p].on, TRUE) \/ Rejected(p), UNCHANGED tables, OnSessions
          PROVE  NodeShapes' /\ StepOf(p)
      <3>1. CASE Ends(p, ops[p].on, TRUE)
        BY <1>1, <2>1, <2>2, <3>1, ReadingEnd DEF tables, Creations, Deletions
      <3>2. CASE Rejected(p)
        BY <2>1, <2>2, <3>2, Records, TablesStay DEF Rejected, NoPromise, Runs
      <3> QED BY <2>2, <3>1, <3>2
    <2>3. Active(p, Ends(p, ops[p].on, TRUE) \/ Rejected(p)) /\ OnSessions
      BY <1>2 DEF get_image, Active
    <2> QED BY <2>1, <2>2, <2>3, ActiveStep
  <1>3. CASE get_session(p)
    <2>1. Runs(p, "select") /\ ops[p].op = "getSession" /\ ops[p].at \in Statements
      BY <1>3 DEF get_session, Runs, Statements
    <2>3. Active(p, Ends(p, ops[p].on, TRUE)) /\ OnSessions
      BY <1>3 DEF get_session, Active
    <2>2. ASSUME Ends(p, ops[p].on, TRUE), UNCHANGED tables
          PROVE  NodeShapes' /\ StepOf(p)
      BY <1>1, <2>1, <2>2, <2>3, ReadingEnd DEF tables, Creations, Deletions
    <2> QED BY <2>1, <2>2, <2>3, ActiveStep
  <1>4. CASE validate_api_key(p)
    <2>1. ops[p].op = "validateApiKey" /\ ops[p].at \in Statements
      BY <1>4 DEF validate_api_key, Runs, Statements
    <2> DEFINE was == keyring[ops[p].on] = "active"
    <2>2. Ends(p, ops[p].on, was) /\ was \in BOOLEAN
      BY <1>4 DEF validate_api_key
    <2>3. UNCHANGED <<isClosed, pool, table, keyring, known, removed, answered, threw>>
      BY <1>4 DEF validate_api_key
    <2> HIDE DEF was
    <2> QED BY <1>1, <2>1, <2>2, <2>3, ReadingEnd DEF Creations, Deletions
  <1>5. CASE get_api_key(p)
    <2>1. ops[p].op = "getApiKey" /\ ops[p].at \in Statements
      BY <1>5 DEF get_api_key, Runs, Statements
    <2> DEFINE was == KeyIsThere(ops[p].on)
    <2>2. Ends(p, ops[p].on, was)
      BY <1>5 DEF get_api_key
    <2>4. was \in BOOLEAN
      BY DEF KeyIsThere
    <2>3. UNCHANGED <<isClosed, pool, table, keyring, known, removed, answered, threw>>
      BY <1>5 DEF get_api_key
    <2> HIDE DEF was
    <2> QED BY <1>1, <2>1, <2>2, <2>3, <2>4, ReadingEnd DEF Creations, Deletions
  <1>6. CASE list_api_keys(p)
    <2>1. ops[p].op = "listApiKeys" /\ ops[p].at \in Statements /\ Ends(p, Nobody, TRUE)
      BY <1>6 DEF list_api_keys, Runs, Statements
    <2> QED BY <1>1, <1>6, <2>1, ReadingEnd DEF Creations, Deletions, list_api_keys
  <1> QED BY <1>2, <1>3, <1>4, <1>5, <1>6

LEMMA WritingSteps ==
  ASSUME NodeShapes, NEW p \in Promises, cleanup_expired(p) \/ update_api_key(p)
  PROVE  NodeShapes' /\ StepOf(p)
  <1> USE DEF OnSessions, OnKeys, Runs
  <1>1. CASE cleanup_expired(p)
    <2> DEFINE was == table' # table
    <2>1. ops[p].op = "cleanupExpired" /\ ops[p].at \in Statements
      BY <1>1 DEF cleanup_expired, NodeShapes, OnCourse, Statements
    <2>2. /\ table' \in [SessionIds -> [is : {"unborn", "live", "expired", "gone"}, attempts : Nat]]
          /\ \A i \in SessionIds : table'[i].is = IF table[i].is = "expired" THEN "gone" ELSE table[i].is
      BY <1>1 DEF cleanup_expired, NodeShapes
    <2>3. There' \subseteq There /\ Past \subseteq Past'
      BY <1>1, <2>2 DEF cleanup_expired, There, Past, KeyIsThere
    <2>4. Ends(p, Nobody, was) /\ was \in BOOLEAN /\ Nobody \in Things
      BY <1>1 DEF cleanup_expired, Things
    <2>5. /\ keyring' \in [KeyHashes -> {"unborn", "active", "inactive", "gone"}]
          /\ UNCHANGED <<isClosed, pool, known, removed, answered, threw>>
      BY <1>1 DEF cleanup_expired, NodeShapes
    <2> HIDE DEF was
    <2> QED BY <2>1, <2>2, <2>3, <2>4, <2>5, QuietEnd DEF Creations, Deletions
  <1>2. CASE update_api_key(p)
    <2> DEFINE h == ops[p].on
               was == KeyIsThere(h)
    <2>1. ops[p].op = "updateApiKey" /\ ops[p].at \in Statements /\ h \in KeyHashes
      BY <1>2 DEF update_api_key, NodeShapes, OnCourse, Statements
    <2>2. /\ keyring' \in [KeyHashes -> {"unborn", "active", "inactive", "gone"}]
          /\ \A k \in KeyHashes :
               keyring'[k] # keyring[k] => {keyring[k], keyring'[k]} \subseteq {"active", "inactive"}
      BY <1>2, <2>1 DEF update_api_key, NodeShapes, KeyIsThere
    <2>3. There' = There /\ Past' = Past
      BY <1>2, <2>2 DEF update_api_key, There, Past, KeyIsThere
    <2>4. Ends(p, h, was)
      BY <1>2 DEF update_api_key
    <2>5. was \in BOOLEAN /\ h \in Things
      BY <2>1 DEF KeyIsThere, Things
    <2>6. /\ table' \in [SessionIds -> [is : {"unborn", "live", "expired", "gone"}, attempts : Nat]]
          /\ UNCHANGED <<isClosed, pool, known, removed, answered, threw>>
      BY <1>2 DEF update_api_key, NodeShapes
    <2> HIDE DEF was
    <2> QED BY <2>1, <2>2, <2>3, <2>4, <2>5, <2>6, QuietEnd DEF Creations, Deletions
  <1> QED BY <1>1, <1>2

LEMMA TellingSteps ==
  ASSUME NodeShapes, NEW p \in Promises, Resolves(p) \/ CallbackThrows(p)
  PROVE  NodeShapes' /\ StepOf(p)
  <1>1. /\ ops' = [ops EXCEPT ![p] = NoPromise] /\ ops[p].at = "ok"
        /\ UNCHANGED <<isClosed, pool, table, keyring, answered>>
    BY DEF Resolves, CallbackThrows, Rejected, tables
  <1>2. NodeShapes' /\ ops'[p] = NoPromise /\ \A q \in Promises \ {p} : ops'[q] = ops[q]
    BY <1>1, Records, ShapesStay DEF NodeShapes
  <1>3. \/ threw' /\ UNCHANGED <<known, removed>>
        \/ /\ known' = known \union IF ops[p].op \in Creations THEN {ops[p].on} ELSE {}
           /\ removed' = removed \union IF Deleted(ops[p]) THEN {ops[p].on} ELSE {}
           /\ UNCHANGED threw
    BY <1>1 DEF Resolves, CallbackThrows, Deleted
  <1>4. Tells(p)
    BY <1>1, <1>2, <1>3, Records DEF Tells
  <1> QED BY <1>1, <1>2, <1>4 DEF StepOf, NoPromise

LEMMA CallSteps ==
  ASSUME NodeShapes, NEW p \in Promises, SessionCall(p) \/ KeyCall(p)
  PROVE  NodeShapes' /\ StepOf(p)
  <1>1. ASSUME NEW op \in Ops, NEW at \in Statements, NEW on \in Things, CallsCore(p, op, at, on),
               OnCourse([op |-> op, at |-> at, on |-> on, has |-> FALSE, did |-> FALSE])
        PROVE  NodeShapes' /\ StepOf(p)
    <2> DEFINE r == [op |-> op, at |-> at, on |-> on, has |-> FALSE, did |-> FALSE]
    <2>6. OnCourse(r)
      BY <1>1
    <2>2. ops' = [ops EXCEPT ![p] = r] /\ ops[p] = NoPromise
      BY <1>1 DEF CallsCore
    <2>3. r \in Calls
      BY DEF Calls, Things
    <2>4. at # "ok" /\ NoPromise.at # "ok"
      BY DEF Statements, NoPromise
    <2>5. ~ Deleted(r) /\ ~ r.has
      BY <2>4 DEF Deleted
    <2> HIDE DEF r
    <2> QED BY <1>1, <2>2, <2>3, <2>4, <2>5, <2>6, TablesStay DEF CallsCore, Quietly
  <1>2. /\ \A id \in SessionIds : id \in Things
        /\ \A h \in KeyHashes : h \in Things
        /\ Nobody \in Things
    BY DEF Things
  <1>3. CASE createSession(p) \/ cleanupExpired(p)
    <2>1. CASE createSession(p)
      BY <1>1, <1>2, <2>1 DEF createSession, Ops, Statements, OnCourse
    <2>2. CASE cleanupExpired(p)
      BY <1>1, <1>2, <2>2 DEF cleanupExpired, Ops, Statements, OnCourse
    <2> QED BY <1>3, <2>1, <2>2
  <1>4. CASE createApiKey(p) \/ listApiKeys(p)
    <2>1. CASE createApiKey(p)
      BY <1>1, <1>2, <2>1 DEF createApiKey, Ops, Statements, OnCourse
    <2>2. CASE listApiKeys(p)
      BY <1>1, <1>2, <2>2 DEF listApiKeys, Ops, Statements, OnCourse
    <2> QED BY <1>4, <2>1, <2>2
  <1>5. CASE validateSession(p)
    BY <1>1, <1>2, <1>5 DEF validateSession, Ops, Statements, OnCourse
  <1>6. CASE getImage(p) \/ getSession(p)
    BY <1>1, <1>2, <1>6 DEF getImage, getSession, Ops, Statements, OnCourse
  <1>7. CASE deleteSession(p)
    BY <1>1, <1>2, <1>7 DEF deleteSession, Ops, Statements, OnCourse
  <1>8. CASE validateApiKey(p) \/ getApiKey(p)
    BY <1>1, <1>2, <1>8 DEF validateApiKey, getApiKey, Ops, Statements, OnCourse
  <1>9. CASE updateApiKey(p) \/ deleteApiKey(p)
    BY <1>1, <1>2, <1>9 DEF updateApiKey, deleteApiKey, Ops, Statements, OnCourse
  <1> QED BY <1>3, <1>4, <1>5, <1>6, <1>7, <1>8, <1>9 DEF SessionCall, KeyCall

LEMMA PromiseSteps ==
  ASSUME NodeShapes, NodeAssumption, NEW p \in Promises,
         Continues(p) \/ SessionCall(p) \/ KeyCall(p)
  PROVE  NodeShapes' /\ StepOf(p)
  BY PoolSteps, create_session_Step, validate_Step, evict_Step, ReadingSteps, WritingSteps,
     delete_session_Step, create_api_key_Step, delete_api_key_Step, TellingSteps, CallSteps
     DEF Continues

-----------------------------------------------------------------------------
\* A step of the application, of the pool or of time.
LEMMA AroundSteps ==
  ASSUME NodeIInv,
         Expires \/ CloseInstance \/ PoolCloses \/ CloseAnswered \/ UNCHANGED nodeVars
  PROVE  NodeIInv'
  <1> USE DEF NodeIInv
  <1>1. UNCHANGED <<ops, keyring, known, removed>>
    BY DEF Expires, CloseInstance, PoolCloses, CloseAnswered, nodeVars, tables
  <1>7. threw => threw'
    BY Zenon DEF Expires, CloseInstance, PoolCloses, CloseAnswered, nodeVars
  <1>2. \/ UNCHANGED table
        \/ \E id \in SessionIds : table[id].is = "live" /\ table' = [table EXCEPT ![id].is = "expired"]
    BY DEF Expires, CloseInstance, PoolCloses, CloseAnswered, nodeVars, tables
  <1>3. NodeShapes'
    BY <1>1, <1>2 DEF NodeShapes
  <1>4. There' \subseteq There /\ Past' = Past
    BY <1>1, <1>2 DEF There, Past, KeyIsThere, NodeShapes
  <1>5. DeletedAreGone' /\ Told' /\ Once'
    BY <1>1, <1>4, <1>7 DEF Honest, DeletedAreGone, Told, Once
  <1>6. Drained'
    <2>1. CASE Expires \/ UNCHANGED nodeVars
      BY <2>1 DEF Drained, Expires, nodeVars
    <2>2. CASE CloseInstance
      BY <2>2 DEF Drained, CloseInstance
    <2>3. CASE PoolCloses
      BY <2>3 DEF Drained, PoolCloses, Connected
    <2>4. CASE CloseAnswered
      BY <2>4 DEF Drained, CloseAnswered
    <2> QED BY <2>1, <2>2, <2>3, <2>4
  <1> QED BY <1>3, <1>5, <1>6 DEF Honest

LEMMA NodeSteps == NodeIInv /\ NodeAssumption /\ [NodeNext]_nodeVars => NodeIInv'
  <1> SUFFICES ASSUME NodeIInv, NodeAssumption, [NodeNext]_nodeVars PROVE NodeIInv'
    OBVIOUS
  <1>1. ASSUME NEW p \in Promises, Continues(p) \/ SessionCall(p) \/ KeyCall(p)
        PROVE  NodeIInv'
    <2>1. NodeShapes' /\ StepOf(p)
      BY <1>1, PromiseSteps DEF NodeIInv
    <2>2. Honest'
      BY <2>1, StepIsHonest DEF NodeIInv
    <2>3. Drained'
      BY <2>1 DEF NodeIInv, Drained, StepOf
    <2> QED BY <2>1, <2>2, <2>3 DEF NodeIInv
  <1> QED BY <1>1, AroundSteps DEF NodeNext, SessionCallsNext, KeyCallsNext, AroundCalls

LEMMA NodeInvariant == NodeSpec => []NodeIInv
  BY NodeBegins, NodeSteps, NodeAssumption, PTL DEF NodeSpec

\* In every interleaving of any number of calls, failures, throwing callbacks
\* and a close: what exists without anybody knowing was left by a callback
\* that threw, and one thing is reported deleted once (index.ts).
THEOREM CallsAreTrue == NodeSpec => []CallsAreHonest
  <1>1. NodeIInv => CallsAreHonest
    BY HonestyIs DEF NodeIInv
  <1> QED BY <1>1, NodeInvariant, PTL

\* Only a call that holds a connection writes.
LEMMA WritersAreConnected ==
  ASSUME NEW p \in Promises, Continues(p) \/ SessionCall(p) \/ KeyCall(p), ~ ops[p].has
  PROVE  UNCHANGED tables
  BY DEF Continues, SessionCall, KeyCall, tables, Quietly, Runs,
         Acquire, AcquireFails, StatementFails, create_session, validate, select_for_validate,
         evict, get_image, get_session, Active, delete_session, cleanup_expired, create_api_key,
         validate_api_key, get_api_key, list_api_keys, update_api_key, delete_api_key, Resolves,
         CallbackThrows, CallsCore, createSession, validateSession, getImage, getSession,
         deleteSession, cleanupExpired, createApiKey, validateApiKey, getApiKey, listApiKeys,
         updateApiKey, deleteApiKey, OnSessions, OnKeys

\* Once close has been answered the database is left alone, whatever was in
\* flight when it was called (Captchapi.close).
THEOREM CloseEndsWriting == NodeSpec => CloseIsFinal
  <1>1. NodeIInv /\ [NodeNext]_nodeVars => [answered /\ tables' # tables => Expires]_nodeVars
    <2> SUFFICES ASSUME NodeIInv, NodeNext, answered, tables' # tables PROVE Expires
      BY DEF nodeVars
    <2>1. \A p \in Promises : ~ ops[p].has
      BY DEF NodeIInv, Drained
    <2>2. ~ (CloseInstance \/ PoolCloses \/ CloseAnswered)
      BY DEF CloseInstance, PoolCloses, CloseAnswered, tables
    <2> QED BY <2>1, <2>2, WritersAreConnected
            DEF NodeNext, SessionCallsNext, KeyCallsNext, AroundCalls
  <1> QED BY <1>1, NodeInvariant, PTL DEF NodeSpec, CloseIsFinal
-----------------------------------------------------------------------------
\* No more connections are out than the pool has, and only of what there was is
\* anybody told.
NodeKnown ==
  /\ isClosed \in BOOLEAN
  /\ IsFiniteSet(Connected) /\ Cardinality(Connected) <= MaxConnections
  /\ known \subseteq SessionIds \union KeyHashes

\* Whatever a call goes on to, it holds no connection then.
LEMMA Releases ==
  ASSUME NodeShapes, NEW p \in Promises
  PROVE  /\ \A to : GoesTo(p, to) => ~ ops'[p].has
         /\ \A on, did : Ends(p, on, did) => ~ ops'[p].has
         /\ \A op, at, on : CallsCore(p, op, at, on) => ~ ops'[p].has
         /\ Rejected(p) => ~ ops'[p].has
         /\ Breaks(p) => ~ ops'[p].has
         /\ ops' = [ops EXCEPT ![p] = NoPromise] => ~ ops'[p].has
  <1> USE DEF NodeShapes, Calls
  <1>1. \A to : GoesTo(p, to) => ~ ops'[p].has BY DEF GoesTo
  <1>2. \A on, did : Ends(p, on, did) => ~ ops'[p].has BY DEF Ends
  <1>3. \A op, at, on : CallsCore(p, op, at, on) => ~ ops'[p].has BY DEF CallsCore
  <1>4. ops' = [ops EXCEPT ![p] = NoPromise] => ~ ops'[p].has BY DEF NoPromise
  <1>5. Breaks(p) => ~ ops'[p].has BY <1>4 DEF Breaks, Rejected
  <1> QED BY <1>1, <1>2, <1>3, <1>4, <1>5 DEF Rejected

LEMMA OnlyAcquireTakes ==
  ASSUME NodeShapes, NEW p \in Promises, Continues(p) \/ SessionCall(p) \/ KeyCall(p), ~ Acquire(p)
  PROVE  ~ ops'[p].has
  BY Releases
     DEF Continues, SessionCall, KeyCall, AcquireFails, StatementFails, create_session, validate,
         select_for_validate, evict, get_image, get_session, Active, delete_session,
         cleanup_expired, create_api_key, validate_api_key, get_api_key, list_api_keys,
         update_api_key, delete_api_key, Resolves, CallbackThrows, createSession, validateSession,
         getImage, getSession, deleteSession, cleanupExpired, createApiKey, validateApiKey,
         getApiKey, listApiKeys, updateApiKey, deleteApiKey

\* Only a call that is resolved is told of.
LEMMA KnownByResolving ==
  ASSUME NEW p \in Promises, Continues(p) \/ SessionCall(p) \/ KeyCall(p), known' # known
  PROVE  ops[p].at = "ok"
  BY DEF Continues, SessionCall, KeyCall, Quietly, Acquire, AcquireFails, StatementFails,
         create_session, validate, select_for_validate, evict, get_image, get_session, Active,
         delete_session, cleanup_expired, create_api_key, validate_api_key, get_api_key,
         list_api_keys, update_api_key, delete_api_key, Resolves, CallbackThrows, CallsCore,
         createSession, validateSession, getImage, getSession, deleteSession, cleanupExpired,
         createApiKey, validateApiKey, getApiKey, listApiKeys, updateApiKey, deleteApiKey,
         OnSessions, OnKeys

LEMMA NodeBeginsKnown == NodeInit => NodeKnown
  <1> SUFFICES ASSUME NodeInit PROVE NodeKnown
    OBVIOUS
  <1>1. Connected = {}
    BY DEF NodeInit, Connected, NoPromise
  <1>2. IsFiniteSet(Connected) /\ Cardinality(Connected) <= MaxConnections
    <2>1. IsFiniteSet(Connected) /\ Cardinality(Connected) = 0
      BY <1>1, FS_EmptySet
    <2>2. MaxConnections \in Nat
      BY NodeAssumption
    <2> QED BY <2>1, <2>2
  <1>3. isClosed = FALSE /\ known = {}
    BY DEF NodeInit
  <1> QED BY <1>2, <1>3 DEF NodeKnown

LEMMA NodeStaysKnown == NodeIInv /\ NodeKnown /\ [NodeNext]_nodeVars => NodeKnown'
  <1> SUFFICES ASSUME NodeIInv, NodeKnown, [NodeNext]_nodeVars PROVE NodeKnown'
    OBVIOUS
  <1>1. ASSUME NEW p \in Promises, Continues(p) \/ SessionCall(p) \/ KeyCall(p)
        PROVE  NodeKnown'
    <2>1. NodeShapes' /\ StepOf(p)
      BY <1>1, PromiseSteps, NodeAssumption DEF NodeIInv
    <2>2. UNCHANGED isClosed /\ \A q \in Promises \ {p} : ops'[q] = ops[q]
      BY <2>1 DEF StepOf
    <2>3. IsFiniteSet(Connected') /\ Cardinality(Connected') <= MaxConnections
      <3>1. CASE Acquire(p)
        <4>1. Connected' \subseteq Connected \union {p}
          BY <2>2 DEF Connected
        <4>2. /\ IsFiniteSet(Connected \union {p})
              /\ Cardinality(Connected \union {p}) <= Cardinality(Connected) + 1
          BY FS_AddElement, FS_CardinalityType DEF NodeKnown
        <4>3. IsFiniteSet(Connected') /\ Cardinality(Connected') <= Cardinality(Connected \union {p})
          BY <4>1, <4>2, FS_Subset
        <4>4. Cardinality(Connected) < MaxConnections
          BY <3>1 DEF Acquire
        <4> QED BY <4>2, <4>3, <4>4, FS_CardinalityType, NodeAssumption DEF NodeKnown
      <3>2. CASE ~ Acquire(p)
        <4>1. Connected' \subseteq Connected
          BY <1>1, <2>2, <3>2, OnlyAcquireTakes DEF Connected, NodeIInv
        <4>2. IsFiniteSet(Connected') /\ Cardinality(Connected') <= Cardinality(Connected)
          BY <4>1, FS_Subset DEF NodeKnown
        <4> QED BY <4>2, FS_CardinalityType, NodeAssumption DEF NodeKnown
      <3> QED BY <3>1, <3>2
    <2>4. known' \subseteq SessionIds \union KeyHashes
      <3>1. CASE UNCHANGED known
        BY <3>1 DEF NodeKnown
      <3>2. CASE Tells(p) /\ known' # known
        <4>1. /\ known' = known \union IF ops[p].op \in Creations THEN {ops[p].on} ELSE {}
              /\ ops[p].op \in Creations
          BY <3>2 DEF Tells
        <4>2. ops[p].at = "ok"
          BY <1>1, <4>1, <3>2, KnownByResolving
        <4>3. ops[p].on \in SessionIds \union KeyHashes
          BY <4>1, <4>2 DEF NodeIInv, NodeShapes, OnCourse, Creations
        <4> QED BY <4>1, <4>3 DEF NodeKnown
      <3> QED BY <2>1, <3>1, <3>2 DEF StepOf, Silent, Creates, Deletes
    <2> QED BY <2>2, <2>3, <2>4 DEF NodeKnown
  <1>2. CASE Expires \/ CloseInstance \/ PoolCloses \/ CloseAnswered \/ UNCHANGED nodeVars
    <2>1. UNCHANGED <<ops, known>> /\ isClosed' \in BOOLEAN
      BY <1>2 DEF Expires, CloseInstance, PoolCloses, CloseAnswered, nodeVars, NodeKnown
    <2> QED BY <2>1 DEF NodeKnown, Connected
  <1> QED BY <1>1, <1>2 DEF NodeNext, SessionCallsNext, KeyCallsNext, AroundCalls

LEMMA NodeIsTyped == NodeIInv /\ NodeKnown => NodeTypeOK
  <1> SUFFICES ASSUME NodeIInv, NodeKnown PROVE NodeTypeOK
    OBVIOUS
  <1>1. removed \subseteq SessionIds \union KeyHashes
    BY DEF NodeIInv, Honest, DeletedAreGone, Past
  <1>2. /\ \A id \in SessionIds : table[id].is \in {"unborn", "live", "expired", "gone"}
        /\ \A h \in KeyHashes : keyring[h] \in {"unborn", "active", "inactive", "gone"}
    BY DEF NodeIInv, NodeShapes
  <1>3. \A p \in Promises : ops[p].has => ops[p].at \in Statements
    BY DEF NodeIInv, NodeShapes, OnCourse
  <1> QED BY <1>1, <1>2, <1>3 DEF NodeKnown, NodeTypeOK, NodeIInv, Drained
=============================================================================
