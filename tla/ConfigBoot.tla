---------------------------- MODULE ConfigBoot ----------------------------
(***************************************************************************)
(* The life of a server process around the config store                    *)
(* (src/src/main.rs, src/src/config/boot.rs): it opens the database,       *)
(* decides about the newest generation, reads the stored settings, starts  *)
(* with them, serves, and after CONFIRM_AFTER of serving confirms the      *)
(* generation it booted with.  It may die at any point, and be started     *)
(* again; meanwhile the admin API writes the store through a live process  *)
(* and `captchapi config unset|clear` edits it from a process of its own.  *)
(*                                                                         *)
(* Boot is not one transaction.  prepare_boot commits before load reads,   *)
(* so each is a step here and anything may happen between the two.         *)
(***************************************************************************)
EXTENDS ConfigStore

CONSTANTS
  Servers,         \* server processes on this database
  Environments,    \* each: the fields some start's arguments or environment answer for
  Unparsable,      \* values that fail to resolve
  Fatal,           \* values that resolve and prevent startup (an address in use)
  Overridable,     \* fields a runtime override (PATCH /config) may hide
  CliOnline,       \* whether the CLI may edit the store while a server is up
  NoLayer          \* "no layer", for the abstract specification

ASSUME EnvironmentsAssumption == Environments # {} /\ Environments \subseteq SUBSET Fields
ASSUME OverridableAssumption == Overridable \subseteq Fields
ASSUME CliAssumption == CliOnline \in BOOLEAN
ASSUME NoLayerAssumption == NoLayer \notin Layer

VARIABLES
  pc,              \* how far a process has got
  shadow,          \* fields a higher layer answers for in this process
  stored,          \* the stored layer its ConfigHandle holds
  boot,            \* the stored layer that is in effect in it since startup
  gen,             \* the generation it will confirm
  timer,           \* the confirm task
  proved           \* history: every boot layer that served for CONFIRM_AFTER

procVars == <<pc, shadow, stored, boot, gen, timer>>

vars == <<storeVars, procVars, proved>>

Stages == {"down", "opened", "prepared", "resolved", "serving", "draining"}

\* A stored value counts only where no higher layer answers for the field.
Resolves(l, hidden) == \A f \in Storable \ hidden : l[f] \notin Unparsable

Survives(l, hidden) == \A f \in Storable \ hidden : l[f] \notin Fatal

TypeOK ==
  /\ settings \in Layer
  /\ generations \in [GenId -> Row]
  /\ lastId \in 0 .. MaxGenerations
  /\ pc \in [Servers -> Stages]
  /\ shadow \in [Servers -> SUBSET Fields]
  /\ stored \in [Servers -> Layer]
  /\ boot \in [Servers -> Layer]
  /\ gen \in [Servers -> GenId \union {NoGeneration}]
  /\ timer \in [Servers -> {"off", "armed", "elapsed"}]
  /\ proved \subseteq Layer

Init ==
  /\ StoreInit
  /\ pc = [p \in Servers |-> "down"]
  /\ shadow = [p \in Servers |-> {}]
  /\ stored = [p \in Servers |-> EmptyLayer]
  /\ boot = [p \in Servers |-> EmptyLayer]
  /\ gen = [p \in Servers |-> NoGeneration]
  /\ timer = [p \in Servers |-> "off"]
  /\ proved = {}

-----------------------------------------------------------------------------
(***************************************************************************)
(* Startup.                                                                *)
(***************************************************************************)
At(p, from, to) ==
  /\ pc[p] = from
  /\ pc' = [pc EXCEPT ![p] = to]

\* Arguments parsed, pool open, migrations run.
Start(p) ==
  /\ At(p, "down", "opened")
  /\ \E hidden \in Environments : shadow' = [shadow EXCEPT ![p] = hidden]
  /\ UNCHANGED <<storeVars, stored, boot, gen, timer, proved>>

\* Mutant: the id the next write will get is remembered instead.
PreparedNextId(p, id) ==
  /\ At(p, "opened", "prepared")
  /\ gen' = [gen EXCEPT ![p] = id + 1]
  /\ UNCHANGED <<shadow, stored, boot, timer, proved>>

\* Remember which generation prepare_boot told us to confirm, if any.
Prepared(p, id) ==
  /\ At(p, "opened", "prepared")
  /\ gen' = [gen EXCEPT ![p] = id]
  /\ UNCHANGED <<shadow, stored, boot, timer, proved>>

BootEmpty(p) == PrepareEmpty /\ Prepared(p, NoGeneration)

BootClean(p) == \E id \in GenId : PrepareClean(id) /\ Prepared(p, id)

BootTrying(p) == \E id \in GenId : PrepareTrying(id) /\ Prepared(p, id)

BootRolledBack(p) == \E id \in GenId : PrepareRollBack(id) /\ Prepared(p, NoGeneration)

\* --ignore-stored-config: neither prepare_boot nor load is called.
IgnoreStored(p) ==
  /\ At(p, "opened", "resolved")
  /\ UNCHANGED <<storeVars, shadow, stored, boot, gen, timer, proved>>

\* load, then apply_stored.  A layer that does not resolve is left out and its
\* generation is not confirmed, yet the handle keeps the layer.
ApplyStored(p) ==
  LET loaded  == Honoured(settings)
      applied == Resolves(loaded, shadow[p])
  IN  /\ At(p, "prepared", "resolved")
      /\ stored' = [stored EXCEPT ![p] = loaded]
      /\ boot' = [boot EXCEPT ![p] = IF applied THEN loaded ELSE EmptyLayer]
      /\ gen' = [gen EXCEPT ![p] = IF applied THEN @ ELSE NoGeneration]
      /\ UNCHANGED <<storeVars, shadow, timer, proved>>

\* The listener is bound and the confirm task sleeps, if there is one.
Serve(p) ==
  /\ At(p, "resolved", "serving")
  /\ Survives(boot[p], shadow[p])
  /\ timer' = [timer EXCEPT ![p] = IF gen[p] = NoGeneration THEN "off" ELSE "armed"]
  /\ UNCHANGED <<storeVars, shadow, stored, boot, gen, proved>>

-----------------------------------------------------------------------------
(***************************************************************************)
(* The confirm task.  Its sleep ends while serving; the transaction comes  *)
(* later, and shutdown waits for it.                                       *)
(***************************************************************************)
SurviveLongEnough(p) ==
  /\ pc[p] = "serving"
  /\ timer[p] = "armed"
  /\ timer' = [timer EXCEPT ![p] = "elapsed"]
  /\ proved' = proved \union {boot[p]}
  /\ UNCHANGED <<storeVars, pc, shadow, stored, boot, gen>>

\* Mutant: whatever is newest is confirmed, not what this process booted with.
ConfirmWhateverIsNewest(p) ==
  /\ timer[p] = "elapsed"
  /\ timer' = [timer EXCEPT ![p] = "off"]
  /\ \E id \in GenId : IsNewest(id) /\ (Confirm(id) \/ ConfirmNothing(id))
  /\ UNCHANGED <<pc, shadow, stored, boot, gen, proved>>

\* Three outcomes: the row is updated, no row matches, or the database fails,
\* which is logged and never retried.
ConfirmGeneration(p) ==
  /\ timer[p] = "elapsed"
  /\ timer' = [timer EXCEPT ![p] = "off"]
  /\ \/ Confirm(gen[p])
     \/ ConfirmNothing(gen[p])
     \/ UNCHANGED storeVars
  /\ UNCHANGED <<pc, shadow, stored, boot, gen, proved>>

-----------------------------------------------------------------------------
(***************************************************************************)
(* The end of a process: a graceful stop or in-place restart, an address   *)
(* that cannot be bound, or a death at any other point.                    *)
(***************************************************************************)
Stop(p) ==
  /\ At(p, "serving", "draining")
  /\ timer' = [timer EXCEPT ![p] = IF @ = "armed" THEN "off" ELSE @]
  /\ UNCHANGED <<storeVars, shadow, stored, boot, gen, proved>>

Gone(p) ==
  /\ pc' = [pc EXCEPT ![p] = "down"]
  /\ shadow' = [shadow EXCEPT ![p] = {}]
  /\ stored' = [stored EXCEPT ![p] = EmptyLayer]
  /\ boot' = [boot EXCEPT ![p] = EmptyLayer]
  /\ gen' = [gen EXCEPT ![p] = NoGeneration]
  /\ timer' = [timer EXCEPT ![p] = "off"]
  /\ UNCHANGED <<storeVars, proved>>

Exit(p) == pc[p] = "draining" /\ timer[p] = "off" /\ Gone(p)

FailToStart(p) == pc[p] = "resolved" /\ ~Survives(boot[p], shadow[p]) /\ Gone(p)

Crash(p) == pc[p] # "down" /\ Gone(p)

-----------------------------------------------------------------------------
(***************************************************************************)
(* Writes to the store.  A handler checks its candidate, writes and adopts *)
(* it in one step here, and is refused when the candidate does not resolve.*)
(***************************************************************************)
Up(p) == pc[p] \in {"serving", "draining"}

AdoptStored(p, candidate, hidden) ==
  /\ Up(p)
  /\ Resolves(candidate, hidden)
  /\ stored' = [stored EXCEPT ![p] = candidate]
  /\ UNCHANGED <<pc, shadow, boot, gen, timer, proved>>

\* A candidate is checked as it would run now: what the environment hides, and
\* what an operator overrides at the time, is not looked at.
HiddenNow(p) == {shadow[p] \union overridden : overridden \in SUBSET Overridable}

PutStored(p) ==
  \E updates \in Updates, hidden \in HiddenNow(p) :
    Set(updates) /\ AdoptStored(p, Overwrite(stored[p], updates), hidden)

DeleteStored(p) ==
  \E f \in Fields, hidden \in HiddenNow(p) :
    Unset(f) /\ AdoptStored(p, Without(stored[p], f), hidden)

\* SIGHUP re-reads the store and drops the overrides; a layer that does not
\* resolve is refused.
ReloadOnSighup(p) == AdoptStored(p, Honoured(settings), shadow[p]) /\ UNCHANGED storeVars

CliAllowed == CliOnline \/ \A p \in Servers : pc[p] = "down"

CliUnset == CliAllowed /\ (\E f \in Fields : Unset(f)) /\ UNCHANGED <<procVars, proved>>

CliClear == CliAllowed /\ Clear /\ UNCHANGED <<procVars, proved>>

-----------------------------------------------------------------------------
Prepare(p) == BootEmpty(p) \/ BootClean(p) \/ BootTrying(p) \/ BootRolledBack(p)

\* What a server does on its own, once it is started.
Advance(p) ==
  \/ Prepare(p) \/ IgnoreStored(p)
  \/ ApplyStored(p)
  \/ Serve(p) \/ FailToStart(p)
  \/ SurviveLongEnough(p) \/ ConfirmGeneration(p)
  \/ Exit(p)

\* What is done to it.
Disturb(p) == Stop(p) \/ Crash(p)

Write(p) == PutStored(p) \/ DeleteStored(p) \/ ReloadOnSighup(p)

Next ==
  \/ \E p \in Servers : Start(p) \/ Advance(p) \/ Disturb(p) \/ Write(p)
  \/ CliUnset \/ CliClear

Spec == Init /\ [][Next]_vars

\* A supervisor starts a process that is down, and a process that can take its
\* next step takes it.  Nobody is obliged to stop, crash, write or edit.
FairSpec == Spec /\ \A p \in Servers : WF_vars(Start(p)) /\ WF_vars(Advance(p))

-----------------------------------------------------------------------------
(***************************************************************************)
(* Properties.                                                             *)
(***************************************************************************)
\* While the newest generation stands, its snapshot is the table: whatever
\* path the settings took, what a start loads is what a rollback would name
\* (`the generation snapshots the table after the write`).
NewestDescribesTable ==
  \A i \in GenId :
    IsNewest(i) /\ generations[i].status # "rolled_back"
      => generations[i].snapshot = settings

\* Pruning on confirm removes only what no rollback can reach: every id that
\* was opened and has no row is older than a confirmed one, and the newest
\* generation is always still there.
OnlyUnreachablePruned ==
  \A i \in 1 .. lastId :
    i \notin Live => i # lastId /\ \E j \in Confirmed : j > i

\* A generation is on trial in at most one process, even when several start
\* on the same database at once: the one whose prepare_boot found it untried.
OneTrier ==
  \A p, q \in Servers :
    gen[p] # NoGeneration /\ gen[p] = gen[q] /\ generations[gen[p]].status = "pending"
      => p = q

\* A confirmed generation is one `a process actually managed to run`: its
\* settings were in effect in a process that served for CONFIRM_AFTER.
ConfirmedWasRun ==
  \A i \in Confirmed : Honoured(generations[i].snapshot) \in proved

\* After a rollback, and until the next write, the table holds exactly the
\* last known good settings.
RolledBackToKnownGood ==
  \A i \in GenId :
    IsNewest(i) /\ generations[i].status = "rolled_back" => settings = KnownGoodLayer

\* A verdict is final: a late confirm never revives a generation some start
\* rolled back, and a confirmed one is never taken back, only superseded.
VerdictIsFinal ==
  [][\A i \in GenId :
       generations[i].status \in {"confirmed", "rolled_back"}
         => generations'[i].status \in {generations[i].status, "none"}]_vars

\* Once something is known good there is always something known good, and it
\* only ever gets newer: neither a rollback, nor a prune, nor a late confirm
\* by another process moves it back.
KnownGoodAdvances ==
  [][\A i \in Confirmed : \E j \in Confirmed' : j >= i]_vars

\* `If the new configuration starts but does not survive thirty seconds, the
\* next start rolls it back`: a start that consults the store never leaves
\* pending the newest generation when its trial ended with its process.  (One
\* that is no longer the newest is left as it is.)
NextStartRollsBack ==
  [][\A i \in GenId :
       /\ IsNewest(i)
       /\ generations[i].status = "pending" /\ generations[i].attempts # 0
       /\ \A p \in Servers : gen[p] # i
       /\ \E p \in Servers : pc[p] = "opened" /\ pc'[p] = "prepared"
       => generations'[i].status = "rolled_back"]_vars

\* `A value that does not resolve is refused with 400 invalid_config and never
\* reaches the database.`
OnlyResolvingStored == \A f \in Storable : settings[f] \notin Unparsable

\* A step that is the process's own doing, even if a crash would look the same.
LeftAlone(p) == Disturb(p) => FailToStart(p) \/ Exit(p)

\* A configuration that prevents startup un-applies itself: once nobody stops
\* or kills the server any more, it ends up serving for good.
SelfHeals ==
  <>[][\A p \in Servers : LeftAlone(p)]_vars
    => <>[](\A p \in Servers : pc[p] = "serving")

-----------------------------------------------------------------------------
(***************************************************************************)
(* What keeps the properties above true: the inductive invariants.         *)
(***************************************************************************)
\* A confirm task exists only in a live process that has something to confirm.
TimerHasGeneration ==
  \A p \in Servers : timer[p] # "off" => Up(p) /\ gen[p] # NoGeneration

NewestIsLastId ==
  /\ \A i \in Live : i <= lastId
  /\ lastId # 0 => lastId \in Live

\* What a process may confirm was opened, and was tried if it is still pending.
TrialsAreTried ==
  \A p \in Servers :
    gen[p] # NoGeneration =>
      /\ gen[p] <= lastId
      /\ generations[gen[p]].status = "pending" => generations[gen[p]].attempts # 0

BookkeepingInv ==
  /\ TimerHasGeneration
  /\ NewestIsLastId /\ NewestDescribesTable /\ OnlyUnreachablePruned
  /\ TrialsAreTried /\ OneTrier

\* One server, and a store nobody edits while it is up.
Undisturbed == (\A p, q \in Servers : p = q) /\ ~CliOnline

\* What is on trial is what the process will load, or has loaded.
TrialIsLoaded ==
  \A p \in Servers :
    gen[p] # NoGeneration /\ generations[gen[p]].status = "pending" =>
      IF pc[p] = "prepared"
        THEN generations[gen[p]].snapshot = settings
        ELSE Honoured(generations[gen[p]].snapshot) = boot[p]

ElapsedWasServed == \A p \in Servers : timer[p] = "elapsed" => boot[p] \in proved

\* Nothing can be confirmed that would change what was just restored.
RolledBackIsQuiet ==
  \A i \in GenId : \A p \in Servers :
    IsNewest(i) /\ generations[i].status = "rolled_back" /\ gen[p] # NoGeneration
      => generations[gen[p]].status # "pending"

TrialInv ==
  /\ TrialIsLoaded /\ ElapsedWasServed /\ ConfirmedWasRun
  /\ RolledBackIsQuiet /\ RolledBackToKnownGood

\* A process remembers no generation before prepare_boot has named one.
StartsAfresh ==
  \A p \in Servers : pc[p] \in {"down", "opened"} => gen[p] = NoGeneration

\* Whatever was opened after the generation on trial waits for the next start.
LaterOnesWait ==
  \A p \in Servers : \A i \in Live :
    gen[p] # NoGeneration /\ generations[gen[p]].status = "pending" /\ i > gen[p]
      => generations[i].status = "pending" /\ generations[i].attempts = 0

OneTrialInv == StartsAfresh /\ LaterOnesWait

-----------------------------------------------------------------------------
(***************************************************************************)
(* The abstract specification, for one server process.                     *)
(***************************************************************************)
Verdict ==
  IF \E i \in GenId : IsNewest(i) /\ generations[i].status = "pending" /\ generations[i].attempts = 0
    THEN "untried"
  ELSE IF \E i \in GenId : IsNewest(i) /\ generations[i].status = "pending"
    THEN "tried"
  ELSE "settled"

Trials == {i \in GenId : generations[i].status = "pending" /\ \E p \in Servers : gen[p] = i}

OnTrial == IF Trials = {} THEN NoLayer ELSE generations[CHOOSE i \in Trials : TRUE].snapshot

KG == INSTANCE KnownGood WITH
        Layers   <- Layer,
        Baseline <- EmptyLayer,
        current  <- settings,
        good     <- KnownGoodLayer,
        verdict  <- Verdict,
        onTrial  <- OnTrial

\* The generation table and its bookkeeping amount to two slots and one trial:
\* a start goes back only after a failed trial, only to what was known good,
\* and nothing becomes known good that was not on trial.
ImplementsKnownGood == KG!Spec
=============================================================================
