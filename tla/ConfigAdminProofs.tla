------------------------ MODULE ConfigAdminProofs -----------------------
(***************************************************************************)
(* Proofs about who changes the configuration of a running server: for any *)
(* number of clients, any requests of theirs, any settings and files.      *)
(*                                                                         *)
(* Every step of a handler makes one call to the handle or none, so what   *)
(* ConfigHandleProofs says of the handle holds here.  The rest is about    *)
(* the gaps between those calls: a writer that met no other finds what it  *)
(* left.                                                                   *)
(***************************************************************************)
EXTENDS ConfigAdmin, ConfigHandleProofs

-----------------------------------------------------------------------------
(***************************************************************************)
(* The handle, as it is driven here.                                       *)
(***************************************************************************)
LEMMA AdminCalls == [AdminNext]_adminVars => [Call]_handleVars
  <1> SUFFICES ASSUME AdminNext PROVE Call \/ UNCHANGED handleVars
    BY DEF adminVars
  <1>1. ASSUME NEW c \in Clients,
               \/ BeginPut(c) \/ BeginDelete(c) \/ Check(c) \/ Write(c) \/ WriteFails(c)
               \/ Disconnect(c) \/ AdoptFails(c) \/ Answer(c) \/ BeginReload(c)
               \/ BeginRestart(c) \/ Preflight(c)
        PROVE  UNCHANGED handleVars
    BY <1>1 DEF BeginPut, BeginDelete, Check, Write, WriteFails, Disconnect, AdoptFails, Answer,
                BeginReload, BeginRestart, Preflight
  <1>2. ASSUME NEW c \in Clients, Adopt(c) \/ Reload(c) PROVE Call \/ UNCHANGED handleVars
    BY <1>2 DEF Adopt, Reload, Call
  <1>3. ASSUME Patch \/ Edit \/ Comeback PROVE Call
    BY <1>3 DEF Patch, Edit, Comeback, Call
  <1>4. ASSUME BeginHup \/ Offline \/ FailsToComeBack PROVE UNCHANGED handleVars
    BY <1>4 DEF BeginHup, Offline, FailsToComeBack
  <1>5. ASSUME Hup PROVE Call \/ UNCHANGED handleVars
    BY <1>5 DEF Hup, Call
  <1> QED BY <1>1, <1>2, <1>3, <1>4, <1>5 DEF AdminNext

HInv == IInv /\ RInv

LEMMA AdminHandle == AdminSpec => []HInv
  <1>1. AdminInit => HInv
    BY InitInv, InitReports DEF AdminInit, HInv
  <1>2. HInv /\ [AdminNext]_adminVars => HInv'
    BY AdminCalls, NextInv, NextReports DEF HInv
  <1> QED BY <1>1, <1>2, PTL DEF AdminSpec

\* What runs is explained by the layers in force, whoever changed it.
THEOREM AdminRunningHolds == AdminSpec => []RunningIsExplained
  BY AdminHandle, HandleProperties, PTL DEF HInv

\* Only a start moves a boot field, whatever clients, signals and other
\* processes do.
THEOREM AdminBootHolds == AdminSpec => BootFieldsHold
  BY AdminCalls, BootStep, PTL DEF AdminSpec, BootFieldsHold

-----------------------------------------------------------------------------
(***************************************************************************)
(* What GET /config says.                                                  *)
(***************************************************************************)
\* A setting that the stored layer in force decides.
LEMMA StoredRuns ==
  ASSUME IInv, RInv, held = judged.stored, DOMAIN held \subseteq Fields,
         NEW f \in DOMAIN held, sources[f] = "stored"
  PROVE  /\ f \notin pending => running[f] = Parse(f, held[f])
         /\ f \in pending =>
              LET next == Resolved(Fresh(judged.disk, judged.stored))
              IN  next[f] = Parse(f, held[f]) /\ running[f] # next[f]
  <1>1. held = basis.stored /\ f \in Fields
    BY DEF RInv, JudgedInForce
  <1>2. f \notin DOMAIN overlay \union Pinned
    BY <1>1 DEF RInv, SourcesStored
  <1> DEFINE fresh == Fresh(judged.disk, judged.stored)
             stack == Stack(load_layers(Cli, Env, basis.disk), overlay, basis.stored,
                            boot_layer(running))
  <1>3. /\ f \in DOMAIN Given(stack) /\ Given(stack)[f] = held[f]
        /\ f \in DOMAIN Given(fresh) /\ Given(fresh)[f] = held[f]
    BY <1>1, <1>2, NoLayerEmpty, StoredGiven DEF Fresh
  <1>4. /\ Resolved(stack)[f] = FieldFrom(Given(stack), f)
        /\ Resolved(fresh)[f] = FieldFrom(Given(fresh), f)
    BY <1>1 DEF Resolved, from_env_provider
  <1>5. Resolved(stack)[f] = Parse(f, held[f]) /\ Resolved(fresh)[f] = Parse(f, held[f])
    BY <1>1, <1>3, <1>4, FieldGiven
  <1>6. CASE f \in LiveFields
    <2>1. running[f] = Resolved(stack)[f]
      BY <1>6 DEF IInv, LiveFieldsExplained
    <2>2. f \notin BootFields /\ f \notin pending
      BY <1>6 DEF LiveFields, BootFields, IInv, Shaped
    <2> QED BY <1>5, <2>1, <2>2
  <1>7. CASE f \in BootFields
    <2>1. f \in pending <=> Resolved(fresh)[f] # running[f]
      BY <1>3, <1>7 DEF RInv, PendingIs
    <2> QED BY <1>5, <2>1
  <1> QED BY <1>1, <1>6, <1>7, LiveAreAdopted, AdoptedAreLive

-----------------------------------------------------------------------------
(***************************************************************************)
(* What the variables hold.                                                *)
(***************************************************************************)
StoredLayer(layer) == DOMAIN layer \subseteq Storable

\* A request to store or to unset, from the dry run to the adoption.
Storing(r) ==
  /\ r.at \in {"check", "write", "adopt"}
  /\ r = [at |-> r.at, updates |-> r.updates, remove |-> r.remove, candidate |-> r.candidate]
  /\ StoredLayer(r.updates) /\ StoredLayer(r.candidate)

Answering(r) ==
  r = [at |-> "answer", updates |-> r.updates, drift |-> r.drift] /\ StoredLayer(r.updates)

Reloading(r) == r = [at |-> "reload", layer |-> r.layer] /\ StoredLayer(r.layer)

Preflighting(r) == r = [at |-> "preflight", next |-> r.next]

ATyped ==
  /\ StoredLayer(store) /\ StoredLayer(held)
  /\ DOMAIN req = Clients
  /\ \A c \in Clients : \/ req[c] = Idle
                        \/ Storing(req[c])
                        \/ Answering(req[c])
                        \/ Reloading(req[c])
                        \/ Preflighting(req[c])
  /\ \/ hup = Idle
     \/ /\ hup = [at |-> "reload", layer |-> hup.layer, stored |-> hup.stored]
        /\ StoredLayer(hup.layer)
  /\ life \in {"up", "restarting", "down"}
  /\ blame \subseteq {"overlap", "interrupted", "offline"}

LEMMA OverStored ==
  ASSUME NEW top, NEW bottom, StoredLayer(top), StoredLayer(bottom)
  PROVE  StoredLayer(Over(top, bottom))
  BY OverAt DEF StoredLayer

LEMMA WithoutStored ==
  ASSUME NEW layer, NEW f, StoredLayer(layer)
  PROVE  StoredLayer(Without(layer, f))
  BY DEF StoredLayer, Without

LEMMA NoLayerStored == StoredLayer(NoLayer)
  BY NoLayerEmpty DEF StoredLayer

\* A handler's own request is the one of its client; the others stay.
LEMMA OneMoves ==
  ASSUME NEW c \in Clients, NEW r, DOMAIN req = Clients, req' = [req EXCEPT ![c] = r]
  PROVE  /\ DOMAIN req' = Clients
         /\ req'[c] = r
         /\ \A d \in Clients : d # c => req'[d] = req[d]
  OBVIOUS

\* Goes moves a storing request along.
LEMMA GoesAlong ==
  ASSUME NEW c \in Clients, NEW to, DOMAIN req = Clients, Storing(req[c]), Goes(c, to)
  PROVE  /\ DOMAIN req' = Clients
         /\ req'[c] = [at |-> to, updates |-> req[c].updates, remove |-> req[c].remove,
                       candidate |-> req[c].candidate]
         /\ \A d \in Clients : d # c => req'[d] = req[d]
  <1> DEFINE r == req[c]
  <1>1. r = [at |-> r.at, updates |-> r.updates, remove |-> r.remove, candidate |-> r.candidate]
    BY DEF Storing
  <1>2. [r EXCEPT !.at = to] = [at |-> to, updates |-> r.updates, remove |-> r.remove,
                                candidate |-> r.candidate]
    BY <1>1
  <1> QED BY <1>2 DEF Goes

\* Which of its steps a request can take.
LEMMA AtTells ==
  ASSUME NEW r
  PROVE  /\ r = Idle => r.at = "idle"
         /\ Answering(r) => r.at = "answer"
         /\ Reloading(r) => r.at = "reload"
         /\ Preflighting(r) => r.at = "preflight"
         /\ Storing(r) => r.at \in {"check", "write", "adopt"}
  <1>1. r = Idle => r.at = "idle"
    BY DEF Idle
  <1>2. Answering(r) => r.at = "answer"
    <2> DEFINE u == r.updates
               d == r.drift
    <2>1. [at |-> "answer", updates |-> u, drift |-> d].at = "answer"
      OBVIOUS
    <2> QED BY <2>1 DEF Answering
  <1>3. Reloading(r) => r.at = "reload"
    <2> DEFINE l == r.layer
    <2>1. [at |-> "reload", layer |-> l].at = "reload"
      OBVIOUS
    <2> QED BY <2>1 DEF Reloading
  <1>4. Preflighting(r) => r.at = "preflight"
    <2> DEFINE n == r.next
    <2>1. [at |-> "preflight", next |-> n].at = "preflight"
      OBVIOUS
    <2> QED BY <2>1 DEF Preflighting
  <1> QED BY <1>1, <1>2, <1>3, <1>4 DEF Storing

LEMMA TypedInit == AdminInit => ATyped
  <1> SUFFICES ASSUME AdminInit PROVE ATyped
    OBVIOUS
  <1>1. StoredLayer(held)
    BY StoredAssumption DEF AdminInit, HandleInit, StoredLayer
  <1> QED BY <1>1 DEF AdminInit, ATyped

\* A request that moves to one of the shapes, and nothing else that is typed.
LEMMA OneTyped ==
  ASSUME ATyped, NEW c \in Clients, NEW r, req' = [req EXCEPT ![c] = r],
         r = Idle \/ Storing(r) \/ Answering(r) \/ Reloading(r) \/ Preflighting(r)
  PROVE  /\ DOMAIN req' = Clients
         /\ \A d \in Clients : \/ req'[d] = Idle
                               \/ Storing(req'[d])
                               \/ Answering(req'[d])
                               \/ Reloading(req'[d])
                               \/ Preflighting(req'[d])
  BY OneMoves DEF ATyped

LEMMA OverlapTyped == ATyped => Overlap \subseteq {"overlap", "interrupted", "offline"}
  BY DEF ATyped, Overlap

\* BeginPut and BeginDelete: the candidate is what the handle remembers, with
\* something storable put in or taken out.
LEMMA BeginStoring ==
  ASSUME ATyped, NEW c \in Clients, BeginPut(c) \/ BeginDelete(c)
  PROVE  \E updates, remove, candidate :
           LET r == [at |-> "check", updates |-> updates, remove |-> remove,
                     candidate |-> candidate]
           IN  /\ req' = [req EXCEPT ![c] = r] /\ Storing(r)
               /\ \/ candidate = Over(updates, held) /\ remove = {}
                  \/ \E f : remove = {f} /\ updates = NoLayer /\ candidate = Without(held, f)
  <1>1. CASE BeginPut(c)
    <2>1. PICK updates \in Puts :
            /\ DOMAIN updates \subseteq Storable
            /\ req' = [req EXCEPT ![c] = [at |-> "check", updates |-> updates, remove |-> {},
                                          candidate |-> Over(updates, held)]]
      BY <1>1 DEF BeginPut
    <2>2. StoredLayer(updates) /\ StoredLayer(Over(updates, held))
      BY <2>1, OverStored DEF ATyped, StoredLayer
    <2> DEFINE candidate == Over(updates, held)
               r == [at |-> "check", updates |-> updates, remove |-> {}, candidate |-> candidate]
    <2>3. Storing(r)
      <3> HIDE DEF candidate
      <3> SUFFICES StoredLayer(candidate)
        BY <2>2 DEF Storing
      <3> QED BY <2>2 DEF candidate
    <2> QED BY <2>1, <2>3
  <1>2. CASE BeginDelete(c)
    <2>1. PICK f :
            req' = [req EXCEPT ![c] = [at |-> "check", updates |-> NoLayer, remove |-> {f},
                                       candidate |-> Without(held, f)]]
      BY <1>2 DEF BeginDelete
    <2>2. StoredLayer(NoLayer) /\ StoredLayer(Without(held, f))
      BY NoLayerStored, WithoutStored DEF ATyped
    <2> DEFINE candidate == Without(held, f)
               r == [at |-> "check", updates |-> NoLayer, remove |-> {f}, candidate |-> candidate]
    <2>3. Storing(r)
      <3> HIDE DEF candidate
      <3> SUFFICES StoredLayer(candidate)
        BY <2>2 DEF Storing
      <3> QED BY <2>2 DEF candidate
    <2>4. req' = [req EXCEPT ![c] = r]
      BY <2>1
    <2>5. \E g : {f} = {g} /\ NoLayer = NoLayer /\ candidate = Without(held, g)
      OBVIOUS
    <2> HIDE DEF candidate
    <2> QED BY <2>3, <2>4, <2>5
  <1> QED BY <1>1, <1>2

\* The calls that change what is held, and those that do not.
LEMMA HeldBy ==
  /\ \A stored : reload(stored) \/ adopt_stored(stored) =>
       held' = stored /\ judged'.stored = stored
  /\ \A stored : Restart(stored) => held' = stored
  /\ \A updates : patch(updates) => UNCHANGED <<held, pending, judged>>
  /\ EditFiles \/ UNCHANGED handleVars => UNCHANGED <<held, pending, judged>>
  <1>1. ASSUME NEW stored, reload(stored) PROVE held' = stored /\ judged'.stored = stored
    BY <1>1 DEF reload, Hold, Behind
  <1>2. ASSUME NEW stored, adopt_stored(stored) PROVE held' = stored /\ judged'.stored = stored
    BY <1>2 DEF adopt_stored, Hold, Behind
  <1>3. ASSUME NEW stored, Restart(stored) PROVE held' = stored
    BY <1>3 DEF Restart, Started
  <1>4. ASSUME NEW updates, patch(updates) PROVE UNCHANGED <<held, pending, judged>>
    BY <1>4 DEF patch
  <1>5. EditFiles => UNCHANGED <<held, pending, judged>>
    BY DEF EditFiles, innerVars
  <1>6. UNCHANGED handleVars => UNCHANGED <<held, pending, judged>>
    BY DEF handleVars, innerVars
  <1> QED BY <1>1, <1>2, <1>3, <1>4, <1>5, <1>6

LEMMA TypedNext == ATyped /\ [AdminNext]_adminVars => ATyped'
  <1> SUFFICES ASSUME ATyped, [AdminNext]_adminVars PROVE ATyped'
    OBVIOUS
  <1> USE DEF ATyped
  <1>1. ASSUME NEW c \in Clients, BeginPut(c) \/ BeginDelete(c) PROVE ATyped'
    <2>1. PICK r : req' = [req EXCEPT ![c] = r] /\ Storing(r)
      BY <1>1, BeginStoring
    <2>2. /\ UNCHANGED <<store, held, hup, life>> /\ blame' = Overlap
      BY <1>1, HeldBy DEF BeginPut, BeginDelete
    <2> QED BY <2>1, <2>2, OneTyped, OverlapTyped
  <1>2. ASSUME NEW c \in Clients, Check(c) \/ Write(c) PROVE ATyped'
    <2>1. Storing(req[c])
      BY <1>2, AtTells DEF Check, Write
    <2>2. UNCHANGED <<held, hup, life, blame>>
      BY <1>2, HeldBy DEF Check, Write
    <2>3. StoredLayer(store')
      <3>1. CASE Check(c)
        BY <3>1 DEF Check
      <3>2. CASE Write(c)
        <4> DEFINE rest == [g \in DOMAIN store \ req[c].remove |-> store[g]]
        <4>1. store' = Over(req[c].updates, rest)
          BY <3>2 DEF Write, Stores
        <4>2. StoredLayer(rest) /\ StoredLayer(req[c].updates)
          BY <2>1 DEF StoredLayer, Storing
        <4> HIDE DEF rest
        <4> QED BY <4>1, <4>2, OverStored
      <3> QED BY <1>2, <3>1, <3>2
    <2>4. CASE Done(c)
      BY <2>2, <2>3, <2>4, OneTyped DEF Done
    <2>5. ASSUME NEW to \in {"write", "adopt"}, Goes(c, to) PROVE ATyped'
      <3>1. /\ DOMAIN req' = Clients
            /\ req'[c] = [at |-> to, updates |-> req[c].updates, remove |-> req[c].remove,
                          candidate |-> req[c].candidate]
            /\ \A d \in Clients : d # c => req'[d] = req[d]
        BY <2>1, <2>5, GoesAlong
      <3>2. Storing(req'[c])
        BY <2>1, <3>1 DEF Storing
      <3> QED BY <2>2, <2>3, <3>1, <3>2
    <2> QED BY <1>2, <2>4, <2>5 DEF Check, Write
  <1>3. ASSUME NEW c \in Clients, WriteFails(c) \/ Answer(c) \/ Preflight(c) PROVE ATyped'
    <2>1. Done(c) /\ UNCHANGED <<store, held, hup, blame>>
      BY <1>3, HeldBy DEF WriteFails, Answer, Preflight
    <2>2. life' \in {"up", "restarting", "down"}
      BY <1>3 DEF WriteFails, Answer, Preflight
    <2> QED BY <2>1, <2>2, OneTyped DEF Done
  <1>4. ASSUME NEW c \in Clients, Disconnect(c) PROVE ATyped'
    <2>1. Storing(req[c])
      BY <1>4, AtTells DEF Disconnect
    <2>2. Done(c) /\ UNCHANGED <<held, hup, life>> /\ blame' = blame \union {"interrupted"}
      BY <1>4, HeldBy DEF Disconnect
    <2>3. StoredLayer(store')
      <3> DEFINE rest == [g \in DOMAIN store \ req[c].remove |-> store[g]]
      <3>1. store' = Over(req[c].updates, rest) \/ store' = store
        BY <1>4 DEF Disconnect, Stores
      <3>2. StoredLayer(rest) /\ StoredLayer(req[c].updates)
        BY <2>1 DEF StoredLayer, Storing
      <3> HIDE DEF rest
      <3> QED BY <3>1, <3>2, OverStored
    <2> QED BY <2>2, <2>3, OneTyped DEF Done
  <1>5. ASSUME NEW c \in Clients, Adopt(c) PROVE ATyped'
    <2>1. Storing(req[c])
      BY <1>5, AtTells DEF Adopt
    <2>2. held' = req[c].candidate /\ UNCHANGED <<store, hup, life, blame>>
      BY <1>5, HeldBy DEF Adopt
    <2> DEFINE r == [at |-> "answer", updates |-> req[c].updates, drift |-> pending']
    <2>3. req' = [req EXCEPT ![c] = r]
      BY <1>5 DEF Adopt
    <2>4. Answering(r) /\ StoredLayer(held')
      BY <2>1, <2>2 DEF Answering, Storing
    <2> QED BY <2>2, <2>3, <2>4, OneTyped
  <1>6. ASSUME NEW c \in Clients, AdoptFails(c) PROVE ATyped'
    BY <1>6, HeldBy, OneTyped DEF AdoptFails, Done
  <1>7. ASSUME NEW c \in Clients, BeginReload(c) PROVE ATyped'
    <2> DEFINE r == [at |-> "reload", layer |-> held]
    <2>1. req' = [req EXCEPT ![c] = r] /\ UNCHANGED <<store, held, hup, life>> /\ blame' = Overlap
      BY <1>7, HeldBy DEF BeginReload
    <2>2. Reloading(r)
      BY DEF Reloading
    <2> QED BY <2>1, <2>2, OneTyped, OverlapTyped
  <1>8. ASSUME NEW c \in Clients, Reload(c) PROVE ATyped'
    <2>1. Reloading(req[c])
      BY <1>8, AtTells DEF Reload
    <2>2. held' \in {held, req[c].layer}
      BY <1>8, HeldBy DEF Reload
    <2>3. StoredLayer(held')
      BY <2>1, <2>2 DEF Reloading
    <2> QED BY <1>8, <2>3, OneTyped DEF Reload, Done
  <1>9. ASSUME NEW c \in Clients, BeginRestart(c) PROVE ATyped'
    <2> DEFINE next == Address(Resolved(Carrying(overlay, held)))
               r == [at |-> "preflight", next |-> next]
    <2>1. req' = [req EXCEPT ![c] = r] /\ UNCHANGED <<store, held, hup, life, blame>>
      BY <1>9, HeldBy DEF BeginRestart
    <2> HIDE DEF next
    <2>2. Preflighting(r)
      BY DEF Preflighting
    <2> QED BY <2>1, <2>2, OneTyped
  <1>10. ASSUME Patch \/ Edit PROVE ATyped'
    BY <1>10, HeldBy DEF Patch, Edit
  <1>11. ASSUME BeginHup PROVE ATyped'
    BY <1>11, HeldBy, OverlapTyped DEF BeginHup
  <1>12. ASSUME Hup PROVE ATyped'
    <2>1. hup # Idle
      BY <1>12 DEF Hup, Idle
    <2>2. held' \in {held, hup.layer}
      BY <1>12, HeldBy DEF Hup
    <2>3. blame' \in {blame, blame \union {"interrupted"}} /\ hup' = Idle
          /\ UNCHANGED <<store, req, life>>
      BY <1>12 DEF Hup
    <2> QED BY <2>1, <2>2, <2>3
  <1>13. ASSUME Offline PROVE ATyped'
    <2>1. StoredLayer(store')
      BY <1>13, WithoutStored, NoLayerStored DEF Offline
    <2> QED BY <1>13, <2>1, HeldBy DEF Offline
  <1>14. ASSUME Comeback PROVE ATyped'
    BY <1>14, HeldBy DEF Comeback
  <1>15. ASSUME FailsToComeBack PROVE ATyped'
    BY <1>15, HeldBy DEF FailsToComeBack
  <1>16. CASE UNCHANGED adminVars
    BY <1>16, HeldBy DEF adminVars
  <1> QED BY <1>1, <1>2, <1>3, <1>4, <1>5, <1>6, <1>7, <1>8, <1>9, <1>10, <1>11, <1>12, <1>13,
             <1>14, <1>15, <1>16 DEF AdminNext

LEMMA AdminTyped == AdminSpec => []ATyped
  BY TypedInit, TypedNext, PTL DEF AdminSpec

\* Whatever is put, only what may be stored ever is; and the handle's own
\* types hold under every interleaving of its callers.
THEOREM AdminTypeHolds == AdminSpec => []AdminTypeOK
  <1>1. HInv /\ ATyped => AdminTypeOK
    BY DEF HInv, ATyped, IInv, Shaped, AdminTypeOK, TypeOK, IsLayer, StoredLayer, Storable,
           LiveFields
  <1> QED BY <1>1, AdminHandle, AdminTyped, PTL

\* What GET reports of the stored settings and of the next start is so.
THEOREM ReportsHold == AdminSpec => []ReportsAreTrue
  <1>1. HInv /\ ATyped => ConsoleIsTrue
    <2> SUFFICES ASSUME IInv, RInv, ATyped PROVE ConsoleIsTrue
      BY DEF HInv
    <2> DEFINE told == describe_config
    <2>1. \A f \in Fields : told.config[f] = ConfigEntry(f)
      BY DEF describe_config
    <2>2. told.overrides = DOMAIN overlay /\ told.pending_restart = pending
      BY DEF describe_config
    <2>3. \A f \in Fields : /\ ConfigEntry(f).editable <=> f \in LiveFields /\ ~is_pinned(sources[f])
                            /\ ConfigEntry(f).shadowed_by =
                                 IF f \in DOMAIN held /\ sources[f] # "stored"
                                 THEN sources[f] ELSE "none"
      BY DEF ConfigEntry
    <2> HIDE DEF told
    <2>4. told.overrides \subseteq {f \in Fields : told.config[f].editable}
      <3>1. \A f \in DOMAIN overlay : f \in LiveFields /\ f \in Fields /\ sources[f] = "admin"
        BY DEF IInv, Shaped, SourcesAdmin, LiveFields
      <3> QED BY <2>1, <2>2, <2>3, <3>1 DEF is_pinned
    <2>5. ASSUME held = judged.stored, NEW f \in DOMAIN held
          PROVE  CASE told.config[f].shadowed_by = "none" ->
                        running[f] = Parse(f, held[f]) \/ f \in told.pending_restart
                   [] OTHER -> told.config[f].shadowed_by \in {"admin", "cli", "env"}
      <3>1. DOMAIN held \subseteq Fields
        BY DEF ATyped, StoredLayer, Storable
      <3>2. sources[f] \in {"admin", "cli", "env", "stored"}
        BY <2>5, <3>1 DEF RInv, JudgedInForce, SourcesStored
      <3>3. sources[f] = "stored" => running[f] = Parse(f, held[f]) \/ f \in pending
        BY <2>5, <3>1, StoredRuns
      <3>4. told.config[f].shadowed_by = IF sources[f] = "stored" THEN "none" ELSE sources[f]
        BY <2>1, <2>3, <3>1
      <3> QED BY <2>2, <3>2, <3>3, <3>4
    <2> QED BY <2>4, <2>5 DEF ConsoleIsTrue, told
  <1>2. HInv => PendingIsReal
    BY HandleProperties DEF HInv
  <1> QED BY <1>1, <1>2, AdminHandle, AdminTyped, PTL DEF ReportsAreTrue

-----------------------------------------------------------------------------
(***************************************************************************)
(* How writers meet.  A writer begins by copying what the handle holds and *)
(* ends by making the handle hold the copy it wrote; in between, the store *)
(* runs ahead.  A writer that overlaps no other finds the two equal and    *)
(* leaves them equal, and until it has answered nobody moves what it is    *)
(* about to report.                                                        *)
(***************************************************************************)
Writer(c) == req[c].at \in {"check", "write", "adopt", "answer", "reload"}

Alone ==
  "overlap" \notin blame =>
    /\ hup # Idle => \A c \in Clients : ~Writer(c)
    /\ \A c, d \in Clients : Writer(c) /\ Writer(d) => c = d

\* The layer a request carries is the store's, or will be once it wrote.
Knows(c) ==
  /\ req[c].at \in {"check", "write"} =>
       req[c].candidate =
         Over(req[c].updates, [g \in DOMAIN store \ req[c].remove |-> store[g]])
  /\ req[c].at = "adopt" => req[c].candidate = store
  /\ req[c].at = "reload" => req[c].layer = store

InStep ==
  blame = {} =>
    /\ (\A c \in Clients : req[c].at # "adopt") => held = store
    /\ \A c \in Clients : Knows(c)
    /\ hup # Idle => hup.layer = store

HupReads == hup # Idle => hup.layer = hup.stored

\* What is asked for is in the layer that is written, ...
Asks(c) ==
  req[c].at \in {"check", "write", "adopt"} =>
    \A f \in DOMAIN req[c].updates :
      f \in DOMAIN req[c].candidate /\ req[c].candidate[f] = req[c].updates[f]

\* ... and then in the layer held, with the drift of then.
Tells(c) ==
  req[c].at = "answer" =>
    /\ \A f \in DOMAIN req[c].updates :
         f \in DOMAIN held /\ held[f] = req[c].updates[f]
    /\ held = judged.stored
    /\ req[c].drift = pending

ToldIsHeld == \A c \in Clients : Asks(c) /\ ("overlap" \notin blame => Tells(c))

Meets == Alone /\ InStep /\ HupReads /\ ToldIsHeld

LEMMA QuietIsIdle == Quiet => hup = Idle /\ \A c \in Clients : req[c] = Idle
  BY DEF Quiet, InFlight

LEMMA IdleAt == Idle.at = "idle"
  BY DEF Idle

\* A writer that begins without blame begins alone, and in step.
LEMMA BeginsAlone ==
  /\ "overlap" \notin Overlap => Quiet
  /\ InStep /\ Overlap = {} => Quiet /\ held = store
  <1>1. "overlap" \notin Overlap => Quiet
    BY DEF Overlap
  <1>2. ASSUME InStep, Overlap = {} PROVE Quiet /\ held = store
    <2>1. Quiet
      BY <1>1, <1>2
    <2>2. blame = {} \/ held = store
      BY <1>2, <2>1 DEF Overlap
    <2> QED BY <1>2, <2>1, <2>2, QuietIsIdle, IdleAt DEF InStep
  <1> QED BY <1>1, <1>2

\* Nobody is at work: nothing is left to meet but the store.
LEMMA NobodyMeets ==
  ASSUME Quiet, blame = {} => held = store
  PROVE  Meets
  <1>1. hup = Idle /\ \A c \in Clients : req[c].at = "idle"
    BY QuietIsIdle, IdleAt
  <1> QED BY <1>1 DEF Meets, Alone, Writer, InStep, Knows, HupReads, ToldIsHeld, Asks, Tells

LEMMA MeetsInit == AdminInit => Meets
  <1> SUFFICES ASSUME AdminInit PROVE Meets
    OBVIOUS
  <1>1. Quiet /\ held = store
    BY DEF AdminInit, Quiet, InFlight
  <1> QED BY <1>1, NobodyMeets

\* What is said of one request, when neither it nor what it is about moves.
LEMMA OthersKnow ==
  ASSUME NEW d, req'[d] = req[d]
  PROVE  /\ Writer(d)' <=> Writer(d)
         /\ UNCHANGED store => (Knows(d)' <=> Knows(d))
         /\ Asks(d)' <=> Asks(d)
         /\ UNCHANGED <<held, judged, pending>> => (Tells(d)' <=> Tells(d))
  BY DEF Writer, Knows, Asks, Tells

\* A request that ends, or is no writer's, is said nothing of.
LEMMA IdleKnows ==
  ASSUME NEW c
  PROVE  /\ req[c].at \in {"idle", "preflight"} => ~Writer(c) /\ Knows(c) /\ Asks(c) /\ Tells(c)
         /\ req'[c].at \in {"idle", "preflight"} =>
              ~Writer(c)' /\ Knows(c)' /\ Asks(c)' /\ Tells(c)'
  BY DEF Writer, Knows, Asks, Tells

\* A request begins.
LEMMA BeginMeets ==
  ASSUME ATyped, Meets, NEW c \in Clients, NEW r, req' = [req EXCEPT ![c] = r],
         r.at \in {"check", "reload"}, blame' = Overlap,
         UNCHANGED <<store, hup, held, judged, pending>>,
         held = store => Knows(c)', Asks(c)'
  PROVE  Meets'
  <1>1. req'[c] = r /\ \A d \in Clients : d # c => req'[d] = req[d]
    BY OneMoves DEF ATyped
  <1>2. ASSUME Quiet, NEW d \in Clients, d # c PROVE ~Writer(d)' /\ Knows(d)' /\ Asks(d)' /\ Tells(d)'
    BY <1>1, <1>2, QuietIsIdle, IdleAt, IdleKnows
  <1>3. Alone'
    <2> SUFFICES ASSUME Quiet
                 PROVE  (hup # Idle => \A d \in Clients : ~Writer(d))'
                        /\ (\A d, e \in Clients : Writer(d) /\ Writer(e) => d = e)'
      BY BeginsAlone DEF Alone
    <2> QED BY <1>2, QuietIsIdle
  <1>4. InStep'
    <2> SUFFICES ASSUME Quiet, held = store
                 PROVE  (\A d \in Clients : Knows(d))' /\ hup' = Idle
      BY BeginsAlone DEF InStep, Meets
    <2> QED BY <1>2, QuietIsIdle
  <1>5. HupReads'
    BY DEF HupReads, Meets
  <1>6. ToldIsHeld'
    <2>1. Asks(c)' /\ Tells(c)'
      BY <1>1 DEF Tells
    <2>2. ASSUME NEW d \in Clients, d # c PROVE Asks(d)' /\ ("overlap" \notin blame' => Tells(d)')
      BY <1>1, <1>2, <2>2, BeginsAlone, OthersKnow DEF Meets, ToldIsHeld
    <2> QED BY <2>1, <2>2 DEF ToldIsHeld
  <1> QED BY <1>3, <1>4, <1>5, <1>6 DEF Meets

\* A request moves on, or ends, and what is held and stored stays.
LEMMA MoveMeets ==
  ASSUME ATyped, Meets, NEW c \in Clients,
         \A d \in Clients : d # c => req'[d] = req[d],
         Writer(c)' => Writer(c),
         UNCHANGED <<store, hup, held, judged, pending, blame>>,
         req[c].at # "adopt", Knows(c) => Knows(c)', Asks(c)', Tells(c)'
  PROVE  Meets'
  <1>1. \A d \in Clients : d # c =>
          /\ Writer(d)' <=> Writer(d)
          /\ Knows(d)' <=> Knows(d)
          /\ Asks(d)' <=> Asks(d)
          /\ Tells(d)' <=> Tells(d)
    BY OthersKnow
  <1>2. Alone'
    BY <1>1 DEF Meets, Alone
  <1>3. InStep'
    <2>1. (\A d \in Clients : req'[d].at # "adopt") => \A d \in Clients : req[d].at # "adopt"
      OBVIOUS
    <2>2. blame = {} => \A d \in Clients : Knows(d)'
      BY <1>1 DEF Meets, InStep
    <2> QED BY <2>1, <2>2 DEF Meets, InStep
  <1>4. HupReads' /\ ToldIsHeld'
    BY <1>1 DEF Meets, HupReads, ToldIsHeld
  <1> QED BY <1>2, <1>3, <1>4 DEF Meets

\* Something went wrong on the way, and is blamed: what the store holds is
\* anybody's guess.
LEMMA BlamedMeets ==
  ASSUME ATyped, Meets, blame' # {}, blame \subseteq blame',
         \A d \in Clients : req'[d] = req[d] \/ req'[d] = Idle,
         hup' = hup \/ hup' = Idle,
         UNCHANGED <<held, judged, pending>>
  PROVE  Meets'
  <1>1. ASSUME NEW d \in Clients
        PROVE  /\ Writer(d)' => Writer(d)
               /\ Asks(d) => Asks(d)'
               /\ Tells(d) => Tells(d)'
    BY OthersKnow, IdleKnows, IdleAt
  <1>2. Alone'
    BY <1>1 DEF Meets, Alone
  <1>3. InStep' /\ HupReads'
    BY DEF Meets, InStep, HupReads
  <1>4. ToldIsHeld'
    BY <1>1 DEF Meets, ToldIsHeld
  <1> QED BY <1>2, <1>3, <1>4 DEF Meets

\* The write, which makes the store run ahead of what is held.
LEMMA WriteMeets ==
  ASSUME ATyped, Meets, NEW c \in Clients, Write(c)
  PROVE  Meets'
  <1>1. /\ Storing(req[c]) /\ req[c].at = "write"
        /\ UNCHANGED <<hup, held, judged, pending, blame>>
    BY AtTells, HeldBy DEF Write, ATyped
  <1>2. /\ req'[c] = [at |-> "adopt", updates |-> req[c].updates, remove |-> req[c].remove,
                      candidate |-> req[c].candidate]
        /\ \A d \in Clients : d # c => req'[d] = req[d]
    BY <1>1, GoesAlong DEF Write, ATyped
  <1>3. \A d \in Clients : d # c => /\ Writer(d)' <=> Writer(d)
                                    /\ Asks(d)' <=> Asks(d)
                                    /\ Tells(d)' <=> Tells(d)
    BY <1>1, <1>2, OthersKnow
  <1>4. Writer(c)
    BY <1>1 DEF Writer
  <1>5. Alone'
    BY <1>1, <1>3, <1>4 DEF Meets, Alone
  <1>6. InStep'
    <2> SUFFICES ASSUME blame = {}
                 PROVE  req'[c].at = "adopt" /\ (\A d \in Clients : Knows(d)') /\ hup' = Idle
      BY <1>1 DEF InStep
    <2>1. store' = Over(req[c].updates, [g \in DOMAIN store \ req[c].remove |-> store[g]])
      BY DEF Write, Stores
    <2>2. Knows(c)'
      BY <1>1, <1>2, <2>1 DEF Meets, InStep, Knows
    <2>3. ASSUME NEW d \in Clients, d # c PROVE Knows(d)'
      <3>1. ~Writer(d)
        BY <1>4, <2>3 DEF Meets, Alone
      <3> QED BY <1>2, <2>3, <3>1 DEF Writer, Knows
    <2>4. hup' = Idle
      BY <1>1, <1>4 DEF Meets, Alone
    <2> QED BY <1>2, <2>2, <2>3, <2>4
  <1>7. HupReads' /\ ToldIsHeld'
    <2>1. Asks(c)' /\ Tells(c)'
      BY <1>1, <1>2 DEF Meets, ToldIsHeld, Asks, Tells
    <2> QED BY <1>1, <1>3, <2>1 DEF Meets, HupReads, ToldIsHeld
  <1> QED BY <1>5, <1>6, <1>7 DEF Meets

\* The adoption, which catches up with it.
LEMMA AdoptMeets ==
  ASSUME ATyped, Meets, NEW c \in Clients, Adopt(c)
  PROVE  Meets'
  <1>1. /\ req[c].at = "adopt" /\ held' = req[c].candidate
        /\ judged'.stored = held' /\ UNCHANGED <<store, hup, blame>>
    BY HeldBy DEF Adopt
  <1>2. /\ req'[c] = [at |-> "answer", updates |-> req[c].updates, drift |-> pending']
        /\ \A d \in Clients : d # c => req'[d] = req[d]
    BY OneMoves DEF Adopt, ATyped
  <1>3. \A d \in Clients : d # c => /\ Writer(d)' <=> Writer(d)
                                    /\ Knows(d)' <=> Knows(d)
                                    /\ Asks(d)' <=> Asks(d)
    BY <1>1, <1>2, OthersKnow
  <1>4. Writer(c)
    BY <1>1 DEF Writer
  <1>5. Alone'
    BY <1>1, <1>3, <1>4 DEF Meets, Alone
  <1>6. InStep'
    <2>1. Knows(c)'
      BY <1>2 DEF Knows
    <2>2. blame = {} => held' = store
      BY <1>1 DEF Meets, InStep, Knows
    <2> QED BY <1>1, <1>3, <2>1, <2>2 DEF Meets, InStep
  <1>7. HupReads'
    BY <1>1 DEF Meets, HupReads
  <1>8. ToldIsHeld'
    <2>1. Asks(c)' /\ Tells(c)'
      BY <1>1, <1>2 DEF Meets, ToldIsHeld, Asks, Tells
    <2>2. ASSUME NEW d \in Clients, d # c, "overlap" \notin blame PROVE Tells(d)'
      <3>1. ~Writer(d)
        BY <1>4, <2>2 DEF Meets, Alone
      <3> QED BY <1>2, <2>2, <3>1 DEF Writer, Tells
    <2> QED BY <1>1, <1>3, <2>1, <2>2 DEF Meets, ToldIsHeld
  <1> QED BY <1>5, <1>6, <1>7, <1>8 DEF Meets

\* A reload of what the handle remembered when the request came.
LEMMA ReloadMeets ==
  ASSUME ATyped, Meets, NEW c \in Clients, Reload(c)
  PROVE  Meets'
  <1>1. /\ req[c].at = "reload" /\ UNCHANGED <<store, hup, blame>>
        /\ \/ held' = req[c].layer
           \/ UNCHANGED <<held, judged, pending>>
    BY HeldBy DEF Reload
  <1>2. /\ req'[c].at = "idle"
        /\ \A d \in Clients : d # c => req'[d] = req[d]
    BY OneMoves, IdleAt DEF Reload, Done, ATyped
  <1>3. /\ ~Writer(c)' /\ Knows(c)' /\ Asks(c)' /\ Tells(c)'
        /\ \A d \in Clients : d # c => /\ Writer(d)' <=> Writer(d)
                                       /\ Knows(d)' <=> Knows(d)
                                       /\ Asks(d)' <=> Asks(d)
    BY <1>1, <1>2, OthersKnow, IdleKnows
  <1>4. Writer(c)
    BY <1>1 DEF Writer
  <1>5. Alone'
    BY <1>1, <1>3 DEF Meets, Alone
  <1>6. ASSUME "overlap" \notin blame, NEW d \in Clients, d # c
        PROVE  ~Writer(d) /\ req'[d] = req[d]
    BY <1>2, <1>4, <1>6 DEF Meets, Alone
  <1>7. InStep'
    <2> SUFFICES ASSUME blame = {} PROVE held' = store /\ (\A d \in Clients : Knows(d)') /\ hup = Idle
      BY <1>1 DEF InStep
    <2>1. \A d \in Clients : req[d].at # "adopt"
      BY <1>1, <1>6 DEF Writer
    <2>2. held = store /\ req[c].layer = store
      BY <1>1, <2>1 DEF Meets, InStep, Knows
    <2>3. hup = Idle
      BY <1>4 DEF Meets, Alone
    <2> QED BY <1>1, <1>3, <2>2, <2>3 DEF Meets, InStep
  <1>8. HupReads'
    BY <1>1 DEF Meets, HupReads
  <1>9. ToldIsHeld'
    <2>1. ASSUME NEW d \in Clients, d # c, "overlap" \notin blame PROVE Tells(d)'
      BY <1>6, <2>1 DEF Writer, Tells
    <2> QED BY <1>1, <1>3, <2>1 DEF Meets, ToldIsHeld
  <1> QED BY <1>5, <1>7, <1>8, <1>9 DEF Meets

\* A reload of what the signal's handler read from the store.
LEMMA HupMeets ==
  ASSUME ATyped, Meets, Hup
  PROVE  Meets'
  <1>1. hup # Idle /\ hup' = Idle /\ UNCHANGED <<store, req>>
    BY DEF Hup, Idle
  <1>2. CASE blame' = blame \union {"interrupted"} /\ UNCHANGED handleVars
    BY <1>1, <1>2, HeldBy, BlamedMeets
  <1>3. CASE reload(hup.layer) /\ blame' = blame
    <2>1. held' = hup.layer
      BY <1>3, HeldBy
    <2>2. \A d \in Clients : /\ Writer(d)' <=> Writer(d)
                             /\ Knows(d)' <=> Knows(d)
                             /\ Asks(d)' <=> Asks(d)
      BY <1>1, OthersKnow
    <2>3. "overlap" \notin blame => \A d \in Clients : ~Writer(d) /\ Tells(d)'
      BY <1>1 DEF Meets, Alone, Writer, Tells
    <2>4. Alone' /\ HupReads'
      BY <1>1, <1>3, <2>2 DEF Meets, Alone, HupReads
    <2>5. InStep'
      BY <1>1, <1>3, <2>1, <2>2 DEF Meets, InStep
    <2>6. ToldIsHeld'
      BY <1>3, <2>2, <2>3 DEF Meets, ToldIsHeld
    <2> QED BY <2>4, <2>5, <2>6 DEF Meets
  <1> QED BY <1>2, <1>3 DEF Hup

\* The signal's handler reads the store, whatever the handle remembers.
LEMMA BeginHupMeets ==
  ASSUME ATyped, Meets, BeginHup
  PROVE  Meets'
  <1>1. /\ hup' = [at |-> "reload", layer |-> store, stored |-> store]
        /\ blame' = Overlap /\ UNCHANGED <<store, req, held, judged, pending>>
    BY HeldBy DEF BeginHup
  <1>2. \A d \in Clients : /\ Writer(d)' <=> Writer(d)
                           /\ Knows(d)' <=> Knows(d)
                           /\ Asks(d)' <=> Asks(d)
                           /\ Tells(d)' <=> Tells(d)
    BY <1>1, OthersKnow
  <1>3. Quiet => \A d \in Clients : ~Writer(d) /\ Knows(d) /\ Tells(d)
    BY QuietIsIdle, IdleAt, IdleKnows
  <1>4. Alone'
    BY <1>1, <1>2, <1>3, BeginsAlone DEF Alone
  <1>5. InStep'
    BY <1>1, <1>2, <1>3, BeginsAlone DEF InStep, Meets
  <1>6. HupReads'
    BY <1>1 DEF HupReads
  <1>7. ToldIsHeld'
    BY <1>1, <1>2, <1>3, BeginsAlone DEF ToldIsHeld, Meets
  <1> QED BY <1>4, <1>5, <1>6, <1>7 DEF Meets

LEMMA MeetsNext == ATyped /\ Meets /\ [AdminNext]_adminVars => Meets'
  <1> SUFFICES ASSUME ATyped, Meets, [AdminNext]_adminVars PROVE Meets'
    OBVIOUS
  <1>1. ASSUME NEW c \in Clients, BeginPut(c) \/ BeginDelete(c) PROVE Meets'
    <2>1. PICK updates, remove, candidate :
            LET r == [at |-> "check", updates |-> updates, remove |-> remove,
                      candidate |-> candidate]
            IN  /\ req' = [req EXCEPT ![c] = r] /\ Storing(r)
                /\ \/ candidate = Over(updates, held) /\ remove = {}
                   \/ \E f : remove = {f} /\ updates = NoLayer /\ candidate = Without(held, f)
      BY <1>1, BeginStoring
    <2> DEFINE r == [at |-> "check", updates |-> updates, remove |-> remove,
                     candidate |-> candidate]
    <2>2. req' = [req EXCEPT ![c] = r] /\ req'[c] = r
      BY <2>1, OneMoves DEF ATyped
    <2>3. blame' = Overlap /\ UNCHANGED <<store, hup, held, judged, pending>>
      BY <1>1, HeldBy DEF BeginPut, BeginDelete
    <2>4. candidate = Over(updates, [g \in DOMAIN held \ remove |-> held[g]])
      <3>1. CASE candidate = Over(updates, held) /\ remove = {}
        BY <3>1 DEF Over
      <3>2. ASSUME NEW f, remove = {f}, updates = NoLayer, candidate = Without(held, f)
            PROVE  candidate = Over(updates, [g \in DOMAIN held \ remove |-> held[g]])
        BY <3>2, NoLayerEmpty DEF Over, Without
      <3> QED BY <2>1, <3>1, <3>2
    <2>5. held = store => Knows(c)'
      BY <2>2, <2>3, <2>4 DEF Knows
    <2>6. Asks(c)'
      <3>1. \A f \in DOMAIN updates : f \in DOMAIN candidate /\ candidate[f] = updates[f]
        BY <2>4 DEF Over
      <3> QED BY <2>2, <3>1 DEF Asks
    <2> QED BY <2>2, <2>3, <2>5, <2>6, BeginMeets
  <1>2. ASSUME NEW c \in Clients, BeginReload(c) PROVE Meets'
    <2> DEFINE r == [at |-> "reload", layer |-> held]
    <2>1. req' = [req EXCEPT ![c] = r] /\ req'[c] = r
      BY <1>2, OneMoves DEF BeginReload, ATyped
    <2>2. blame' = Overlap /\ UNCHANGED <<store, hup, held, judged, pending>>
      BY <1>2, HeldBy DEF BeginReload
    <2>3. held = store => Knows(c)'
      BY <2>1, <2>2 DEF Knows
    <2>4. Asks(c)'
      BY <2>1 DEF Asks
    <2> QED BY <2>1, <2>2, <2>3, <2>4, BeginMeets
  <1>3. ASSUME NEW c \in Clients, Check(c), Goes(c, "write") PROVE Meets'
    <2>1. /\ Storing(req[c]) /\ req[c].at = "check"
          /\ UNCHANGED <<store, hup, held, judged, pending, blame>>
      BY <1>3, AtTells, HeldBy DEF Check, ATyped
    <2>2. /\ req'[c] = [at |-> "write", updates |-> req[c].updates, remove |-> req[c].remove,
                        candidate |-> req[c].candidate]
          /\ \A d \in Clients : d # c => req'[d] = req[d]
      BY <1>3, <2>1, GoesAlong DEF ATyped
    <2>3. Writer(c) /\ (Knows(c) => Knows(c)')
      BY <2>1, <2>2 DEF Writer, Knows
    <2>4. Asks(c)' /\ Tells(c)'
      BY <2>1, <2>2 DEF Meets, ToldIsHeld, Asks, Tells
    <2> QED BY <2>1, <2>2, <2>3, <2>4, MoveMeets
  <1>4. ASSUME NEW c \in Clients, Done(c),
               UNCHANGED <<store, hup, held, judged, pending, blame>>, req[c].at # "adopt"
        PROVE  Meets'
    <2>1. req'[c] = Idle /\ \A d \in Clients : d # c => req'[d] = req[d]
      BY <1>4, OneMoves DEF Done, ATyped
    <2>2. ~Writer(c)' /\ Knows(c)' /\ Asks(c)' /\ Tells(c)'
      BY <2>1, IdleAt, IdleKnows
    <2> QED BY <1>4, <2>1, <2>2, MoveMeets
  <1>5. ASSUME NEW c \in Clients,
               Check(c) \/ WriteFails(c) \/ Answer(c) \/ Preflight(c)
        PROVE  Meets'
    <2>1. UNCHANGED <<store, hup, held, judged, pending, blame>> /\ req[c].at # "adopt"
      BY <1>5, HeldBy DEF Check, WriteFails, Answer, Preflight
    <2>2. Done(c) \/ (Check(c) /\ Goes(c, "write"))
      BY <1>5 DEF Check, WriteFails, Answer, Preflight
    <2> QED BY <1>3, <1>4, <2>1, <2>2
  <1>6. ASSUME NEW c \in Clients, Disconnect(c) \/ AdoptFails(c) PROVE Meets'
    <2>1. /\ \A d \in Clients : req'[d] = req[d] \/ req'[d] = Idle
          /\ blame' = blame \union {"interrupted"}
          /\ hup' = hup /\ UNCHANGED <<held, judged, pending>>
      BY <1>6, HeldBy, OneMoves DEF Disconnect, AdoptFails, Done, ATyped
    <2> QED BY <2>1, BlamedMeets
  <1>7. ASSUME NEW c \in Clients, BeginRestart(c) PROVE Meets'
    <2> DEFINE next == Address(Resolved(Carrying(overlay, held)))
               r == [at |-> "preflight", next |-> next]
    <2>1. /\ req[c] = Idle /\ req' = [req EXCEPT ![c] = r]
          /\ UNCHANGED <<store, hup, held, judged, pending, blame>>
      BY <1>7, HeldBy DEF BeginRestart, Accepts
    <2> HIDE DEF next
    <2>2. req'[c] = r /\ \A d \in Clients : d # c => req'[d] = req[d]
      BY <2>1, OneMoves DEF ATyped
    <2>3. ~Writer(c)' /\ Knows(c)' /\ Asks(c)' /\ Tells(c)'
      BY <2>2, IdleKnows
    <2> QED BY <2>1, <2>2, <2>3, IdleAt, MoveMeets
  <1>8. ASSUME Patch \/ Edit \/ FailsToComeBack \/ UNCHANGED adminVars PROVE Meets'
    <2>1. UNCHANGED <<store, req, hup, held, judged, pending, blame>>
      BY <1>8, HeldBy DEF Patch, Edit, FailsToComeBack, adminVars
    <2> QED BY <2>1 DEF Meets, Alone, Writer, InStep, Knows, HupReads, ToldIsHeld, Asks, Tells
  <1>9. ASSUME Offline PROVE Meets'
    <2>1. /\ blame' = blame \union {"offline"}
          /\ UNCHANGED <<req, hup, held, judged, pending>>
      BY <1>9, HeldBy DEF Offline
    <2> QED BY <2>1, BlamedMeets
  <1>10. ASSUME Comeback PROVE Meets'
    <2>1. Quiet' /\ held' = store'
      BY <1>10, HeldBy DEF Comeback, Quiet, InFlight
    <2>2. hup' = Idle /\ \A c \in Clients : req'[c].at = "idle"
      BY <2>1, IdleAt DEF Quiet, InFlight
    <2> QED BY <2>1, <2>2 DEF Meets, Alone, Writer, InStep, Knows, HupReads, ToldIsHeld, Asks,
                              Tells
  <1> QED BY <1>1, <1>2, <1>5, <1>6, <1>7, <1>8, <1>9, <1>10, WriteMeets, AdoptMeets,
             ReloadMeets, HupMeets, BeginHupMeets DEF AdminNext

LEMMA AdminMeets == AdminSpec => []Meets
  BY MeetsInit, MeetsNext, AdminTyped, PTL DEF AdminSpec

-----------------------------------------------------------------------------
(***************************************************************************)
(* What follows.                                                           *)
(***************************************************************************)
\* The layer the server runs with is the one that is stored, unless one of
\* four things happened: with any number of clients, handlers and signals.
THEOREM DriftHolds == AdminSpec => []DriftHasCause
  <1>1. Meets => DriftHasCause
    BY QuietIsIdle, IdleAt DEF Meets, InStep, DriftHasCause
  <1> QED BY <1>1, AdminMeets, PTL

\* A SIGHUP that succeeds, with nothing written while it ran, leaves the
\* server with what is stored.
THEOREM HupHolds == AdminSpec => HupResyncs
  <1>1. Meets /\ [AdminNext]_adminVars =>
          [hup # Idle /\ hup' = Idle /\ hup.stored = store /\ CanResolve(NoLayer, hup.layer)
             => held' = store']_adminVars
    <2> SUFFICES ASSUME Meets, AdminNext, hup # Idle, hup' = Idle, hup.stored = store,
                        CanResolve(NoLayer, hup.layer)
                 PROVE  held' = store'
      OBVIOUS
    <2>1. hup.layer = store
      BY DEF Meets, HupReads
    <2>2. Hup
      <3>1. ASSUME NEW c \in Clients,
                   \/ BeginPut(c) \/ BeginDelete(c) \/ Check(c) \/ Write(c) \/ WriteFails(c)
                   \/ Disconnect(c) \/ Adopt(c) \/ AdoptFails(c) \/ Answer(c)
                   \/ BeginReload(c) \/ Reload(c) \/ BeginRestart(c) \/ Preflight(c)
            PROVE  hup' = hup
        BY <3>1 DEF BeginPut, BeginDelete, Check, Write, WriteFails, Disconnect, Adopt,
                    AdoptFails, Answer, BeginReload, Reload, BeginRestart, Preflight
      <3>2. ASSUME Patch \/ BeginHup \/ Offline \/ Edit \/ Comeback \/ FailsToComeBack
            PROVE  FALSE
        BY <3>2 DEF Patch, BeginHup, Offline, Edit, Comeback, FailsToComeBack
      <3> QED BY <3>1, <3>2 DEF AdminNext
    <2> QED BY <2>1, <2>2, HeldBy DEF Hup
  <1> QED BY <1>1, AdminMeets, PTL DEF AdminSpec, HupResyncs

\* A PUT that met no other writer is told the truth, though its answer is put
\* together after the lock is gone.
THEOREM AnswerHolds == AdminSpec => AnswerIsTrue
  <1>1. ASSUME IInv, RInv, ATyped, Meets, NEW c \in Clients, req[c].at = "answer",
               "overlap" \notin blame
        PROVE  LET asked == req[c].updates
                   told == put_message(asked, req[c].drift)
                   next == Resolved(Fresh(judged.disk, judged.stored))
               IN  /\ \A f \in told.in_effect : running[f] = Parse(f, asked[f])
                   /\ \A f \in told.waiting : next[f] = Parse(f, asked[f]) /\ running[f] # next[f]
                   /\ \A f \in told.masked : sources[f] \in {"admin", "cli", "env"}
                   /\ blame = {} =>
                        /\ told.masked = describe_stored.shadowed \intersect DOMAIN asked
                        /\ told.waiting \subseteq describe_stored.pending_restart
    <2> DEFINE asked == req[c].updates
               told == put_message(asked, req[c].drift)
               next == Resolved(Fresh(judged.disk, judged.stored))
               Masked == {f \in DOMAIN asked : sources[f] # "stored"}
    <2>1. /\ \A f \in DOMAIN asked : f \in DOMAIN held /\ held[f] = asked[f]
          /\ held = judged.stored /\ req[c].drift = pending
      BY <1>1 DEF Meets, ToldIsHeld, Tells
    <2>2. /\ told.masked = Masked
          /\ told.waiting = (pending \intersect DOMAIN asked) \ Masked
          /\ told.in_effect = DOMAIN asked \ (Masked \union told.waiting)
      BY <2>1 DEF put_message, shadowed
    <2>3. held = basis.stored /\ DOMAIN held \subseteq Fields
      BY <1>1, <2>1 DEF RInv, JudgedInForce, ATyped, StoredLayer, Storable
    <2> HIDE DEF told, asked, next
    <2>4. ASSUME NEW f \in DOMAIN asked, sources[f] = "stored"
          PROVE  /\ f \notin pending => running[f] = Parse(f, asked[f])
                 /\ f \in pending => next[f] = Parse(f, asked[f]) /\ running[f] # next[f]
      BY <1>1, <2>1, <2>3, <2>4, StoredRuns DEF next
    <2>5. \A f \in Masked : sources[f] \in {"admin", "cli", "env"}
      BY <1>1, <2>1, <2>3 DEF RInv, SourcesStored
    <2>6. ASSUME blame = {}
          PROVE  /\ Masked = describe_stored.shadowed \intersect DOMAIN asked
                 /\ pending = describe_stored.pending_restart
      <3>1. \A d \in Clients : req[d].at # "adopt"
        BY <1>1 DEF Meets, Alone, Writer
      <3>2. held = store
        BY <1>1, <2>6, <3>1 DEF Meets, InStep
      <3>3. describe_stored.shadowed = {f \in DOMAIN store : sources[f] # "stored"}
            /\ describe_stored.pending_restart = pending
        BY DEF describe_stored, shadowed
      <3> QED BY <2>1, <3>2, <3>3
    <2> QED BY <2>2, <2>4, <2>5, <2>6 DEF told, asked, next
  <1>2. HInv /\ ATyped /\ Meets /\ [AdminNext]_adminVars =>
          [\A c \in Clients :
             req[c].at = "answer" /\ req'[c] = Idle /\ "overlap" \notin blame =>
               LET asked == req[c].updates
                   told == put_message(asked, req[c].drift)
                   next == Resolved(Fresh(judged.disk, judged.stored))
               IN  /\ \A f \in told.in_effect : running[f] = Parse(f, asked[f])
                   /\ \A f \in told.waiting : next[f] = Parse(f, asked[f]) /\ running[f] # next[f]
                   /\ \A f \in told.masked : sources[f] \in {"admin", "cli", "env"}
                   /\ blame = {} =>
                        /\ told.masked = describe_stored.shadowed \intersect DOMAIN asked
                        /\ told.waiting \subseteq describe_stored.pending_restart]_adminVars
    BY <1>1 DEF HInv
  <1> QED BY <1>2, AdminHandle, AdminTyped, AdminMeets, PTL DEF AdminSpec, AnswerIsTrue

\* With nothing overridden, and running values standing in only for what the
\* next start would find the same, that start resolves as the dry run did.
LEMMA DryRunIsNextStart ==
  ASSUME IInv, RInv, NEW stored, CanResolve(NoLayer, stored),
         \A f \in Fields : Captured(Carrying(NoLayer, stored))[f] = "carried" =>
                             running[f] = Resolved(Fresh(disk, stored))[f]
  PROVE  /\ Startable(disk, stored)
         /\ \A f \in Fields : Resolved(Fresh(disk, stored))[f]
                              = Resolved(Carrying(NoLayer, stored))[f]
  <1> DEFINE stack == Carrying(NoLayer, stored)
             fresh == Fresh(disk, stored)
  <1>1. ASSUME NEW f \in Fields PROVE Resolved(fresh)[f] = Resolved(stack)[f]
    <2>1. /\ Resolved(stack)[f] = FieldFrom(Given(stack), f)
          /\ Resolved(fresh)[f] = FieldFrom(Given(fresh), f)
          /\ Captured(stack)[f] = source_of(stack, f)
      BY DEF Resolved, from_env_provider, Captured
    <2>2. /\ DOMAIN boot_layer(running) = BootFields
          /\ \A g \in BootFields : boot_layer(running)[g] = running[g]
      BY DEF boot_layer
    <2>3. /\ f \in DOMAIN Given(fresh) =>
               f \in DOMAIN Given(stack) /\ Given(stack)[f] = Given(fresh)[f]
          /\ f \notin DOMAIN Given(fresh) => (f \in DOMAIN Given(stack) <=> f \in BootFields)
          /\ f \notin DOMAIN Given(fresh) /\ f \in BootFields =>
               Given(stack)[f] = running[f] /\ source_of(stack, f) = "carried"
      BY <2>2, NoLayerEmpty, GivenFresh DEF Carrying
    <2>4. CASE f \in DOMAIN Given(fresh)
      BY <2>1, <2>3, <2>4, FieldGiven
    <2>5. CASE f \notin DOMAIN Given(fresh) /\ f \in BootFields
      <3>1. Resolved(stack)[f] = Parse(f, running[f])
        BY <2>1, <2>3, <2>5, FieldGiven
      <3>2. Parse(f, running[f]) = running[f]
        BY <2>5 DEF RInv, BootSettled
      <3>3. running[f] = Resolved(fresh)[f]
        BY <2>1, <2>3, <2>5
      <3> QED BY <3>1, <3>2, <3>3
    <2>6. CASE f \notin DOMAIN Given(fresh) /\ f \notin BootFields
      <3>1. f \in LiveFields
        BY <2>6, LiveAreAdopted, AdoptedAreLive
      <3>2. Agree(Given(fresh), Given(stack), f)
        BY <2>3, <2>6 DEF Agree
      <3> QED BY <2>1, <3>1, <3>2, LiveAgree
    <2> QED BY <2>4, <2>5, <2>6
  <1>2. LayersLoad(Cli, disk) /\ \A f \in Fields : Resolved(stack)[f] # Rejected
    BY DEF CanResolve, Resolves
  <1> QED BY <1>1, <1>2 DEF Startable, Resolves

\* A restart is accepted only if the configuration it starts with resolves,
\* and the address that is test-bound is the one it would bind.
THEOREM RestartHolds == AdminSpec => RestartIsChecked
  <1> DEFINE Accepted(c) ==
        req[c] = Idle /\ req'[c].at = "preflight" /\ overlay = NoLayer /\ held = store
          /\ {f \in Fields : Captured(Carrying(overlay, held))[f] = "carried"}
               \subseteq {f \in Fields : running[f] = Resolved(Fresh(disk, store))[f]}
             Checked(c) == Startable(disk, store) /\ req'[c].next = Address(NextStart)
  <1>1. ASSUME HInv, ATyped, AdminNext, NEW c \in Clients, Accepted(c)
        PROVE  Checked(c)
    <2>1. BeginRestart(c)
      <3>1. req[c].at = "idle"
        BY <1>1, IdleAt
      <3>2. req'[c] # req[c] /\ req'[c] # Idle
        BY <1>1, IdleAt
      <3>3. ASSUME NEW d \in Clients, d # c,
                   \/ BeginPut(d) \/ BeginDelete(d) \/ Check(d) \/ Write(d) \/ WriteFails(d)
                   \/ Disconnect(d) \/ Adopt(d) \/ AdoptFails(d) \/ Answer(d)
                   \/ BeginReload(d) \/ Reload(d) \/ BeginRestart(d) \/ Preflight(d)
            PROVE  req'[c] = req[c]
        BY <1>1, <3>3 DEF ATyped, BeginPut, BeginDelete, Check, Write, WriteFails, Disconnect,
             Adopt, AdoptFails, Answer, BeginReload, Reload, BeginRestart, Preflight, Goes, Done
      <3>4. ASSUME \/ Check(c) \/ Write(c) \/ WriteFails(c) \/ Disconnect(c) \/ Adopt(c)
                   \/ AdoptFails(c) \/ Answer(c) \/ Reload(c) \/ Preflight(c)
            PROVE  FALSE
        BY <3>1, <3>4 DEF Check, Write, WriteFails, Disconnect, Adopt, AdoptFails, Answer,
                          Reload, Preflight
      <3>5. ASSUME BeginPut(c) \/ BeginDelete(c) PROVE req'[c].at = "check"
        <4>1. PICK updates, remove, candidate :
                req' = [req EXCEPT ![c] = [at |-> "check", updates |-> updates,
                                           remove |-> remove, candidate |-> candidate]]
          BY <1>1, <3>5, BeginStoring
        <4> QED BY <1>1, <4>1 DEF ATyped
      <3>6. ASSUME BeginReload(c) PROVE req'[c].at = "reload"
        BY <1>1, <3>6 DEF BeginReload, ATyped
      <3>7. ASSUME Patch \/ BeginHup \/ Hup \/ Offline \/ Edit \/ Comeback \/ FailsToComeBack
            PROVE  req'[c] = req[c]
        BY <3>7 DEF Patch, BeginHup, Hup, Offline, Edit, Comeback, FailsToComeBack
      <3> QED BY <1>1, <3>2, <3>3, <3>4, <3>5, <3>6, <3>7 DEF AdminNext
    <2>2. /\ CanResolve(NoLayer, store)
          /\ req'[c].next = Address(Resolved(Carrying(NoLayer, store)))
      <3> DEFINE next == Address(Resolved(Carrying(overlay, held)))
      <3>1. CanResolve(overlay, held) /\ req' = [req EXCEPT ![c] = [at |-> "preflight", next |-> next]]
        BY <2>1 DEF BeginRestart, dry_run
      <3> HIDE DEF next
      <3>2. req'[c].next = next
        BY <1>1, <3>1 DEF ATyped
      <3> QED BY <1>1, <3>1, <3>2 DEF next
    <2>3. \A f \in Fields : Captured(Carrying(NoLayer, store))[f] = "carried" =>
                              running[f] = Resolved(Fresh(disk, store))[f]
      BY <1>1
    <2>4. /\ Startable(disk, store)
          /\ \A f \in Fields : Resolved(Fresh(disk, store))[f]
                               = Resolved(Carrying(NoLayer, store))[f]
      BY <1>1, <2>2, <2>3, DryRunIsNextStart DEF HInv
    <2>5. NextStart = Resolved(Fresh(disk, store))
      BY <2>4 DEF NextStart
    <2>6. Address(Resolved(Carrying(NoLayer, store))) = Address(NextStart)
      <3>1. "server_host" \in Fields /\ "server_port" \in Fields
        BY TableAt
      <3> QED BY <2>4, <2>5, <3>1 DEF Address
    <2> QED BY <2>2, <2>4, <2>6
  <1>2. HInv /\ ATyped /\ [AdminNext]_adminVars =>
          [\A c \in Clients : Accepted(c) => Checked(c)]_adminVars
    BY <1>1
  <1> QED BY <1>2, AdminHandle, AdminTyped, PTL DEF AdminSpec, RestartIsChecked
=============================================================================
