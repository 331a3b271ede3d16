--------------------------- MODULE ProviderRuntime ---------------------------
(***************************************************************************)
(* The provider runtimes of the server (providers/runtime/runtime.py): the *)
(* cache of provider instances, one per provider (cache.py), the refresh   *)
(* of the model lists in the background (discovery.py), the cached model   *)
(* lists (model_cache.py), and the admin page's "apply", which writes the  *)
(* settings, cleans the runtime in use and installs a new one              *)
(* (api/admin_routes.py).                                                  *)
(*                                                                         *)
(* A version number stands for the settings; an instance is named by its   *)
(* runtime, its provider and the how-many-th of that provider it is.       *)
(***************************************************************************)
EXTENDS Integers, FiniteSets, Sequences

CONSTANTS
  Providers,     \* provider ids with a credential
  Applies        \* calls of "apply"

ASSUME ProvidersAssumption ==
  IsFiniteSet(Providers) /\ Providers # {} /\ Applies \subseteq Nat \ {0} /\ IsFiniteSet(Applies)

VARIABLES
  env,         \* the settings written last
  runtimes,    \* every ProviderRuntime created, in order
  installed,   \* app.state.provider_runtime
  closed,      \* the instances whose cleanup was called
  cleanups     \* calls of ProviderRuntime.cleanup: of an apply, or of the shutdown

provider_vars == <<env, runtimes, installed, closed, cleanups>>

Shutdown == 0
First == 1     \* the runtime AppRuntime created and keeps

Phases == {"idle", "discovery", "closing", "done", "failed"}
NoRefresh == [phase |-> "none", uses |-> {}]

\* _provider_cache, _model_cache and _discovery of a new runtime. made: instances so far.
Runtime(settings) ==
  [settings |-> settings, cache |-> [p \in Providers |-> 0], made |-> [p \in Providers |-> 0],
   models |-> {}, refresh |-> NoRefresh]

RuntimesTypeOK ==
  /\ env \in Nat /\ installed \in DOMAIN runtimes
  /\ \A k \in DOMAIN runtimes :
       /\ runtimes[k].settings \in 0 .. env /\ runtimes[k].models \subseteq Providers
       /\ \A p \in Providers : runtimes[k].cache[p] \in 0 .. runtimes[k].made[p]
       /\ runtimes[k].refresh.phase \in {"none", "running", "cancelled", "done"}
  /\ \A c \in Applies \cup {Shutdown} : cleanups[c].phase \in Phases

ProvidersInit ==
  /\ env = 0 /\ runtimes = <<Runtime(0)>> /\ installed = First /\ closed = {}
  /\ cleanups = [c \in Applies \cup {Shutdown} |->
                   [phase |-> "idle", runtime |-> First, todo |-> {}, errors |-> FALSE]]

-----------------------------------------------------------------------------
(* resolve_provider: the cached instance, or a new one.                     *)

Instance(k, p) == <<k, p, IF runtimes[k].cache[p] = 0 THEN runtimes[k].made[p] + 1
                          ELSE runtimes[k].cache[p]>>

Resolving(k, P) ==
  [runtimes EXCEPT
     ![k].cache = [p \in Providers |-> IF p \in P THEN Instance(k, p)[3] ELSE @[p]],
     ![k].made = [p \in Providers |-> IF p \in P /\ runtimes[k].cache[p] = 0 THEN @[p] + 1
                                      ELSE @[p]]]

Cached(k) == {<<k, p, runtimes[k].cache[p]>> : p \in {q \in Providers : runtimes[k].cache[q] # 0}}

-----------------------------------------------------------------------------
(* The refresh of the model lists in the background.                        *)

\* start_model_list_refresh, for the providers whose list is missing.
StartRefresh(k) ==
  LET missing == Providers \ runtimes[k].models
  IN  /\ runtimes[k].refresh.phase = "none" /\ missing # {}
      /\ runtimes' = [Resolving(k, missing) EXCEPT
                        ![k].refresh = [phase |-> "running",
                                        uses |-> {Instance(k, p) : p \in missing}]]
      /\ UNCHANGED <<env, installed, closed, cleanups>>

\* All lists are cached at once; a query that failed is skipped.
EndRefresh(k) ==
  /\ runtimes[k].refresh.phase = "running"
  /\ \E answered \in SUBSET {i[2] : i \in runtimes[k].refresh.uses \ closed} :
       runtimes' = [runtimes EXCEPT ![k].models = @ \cup answered,
                                    ![k].refresh = [phase |-> "done", uses |-> {}]]
  /\ UNCHANGED <<env, installed, closed, cleanups>>

RefreshCancelled(k) ==
  /\ runtimes[k].refresh.phase = "cancelled"
  /\ runtimes' = [runtimes EXCEPT ![k].refresh = [phase |-> "done", uses |-> {}]]
  /\ UNCHANGED <<env, installed, closed, cleanups>>

-----------------------------------------------------------------------------
(* cleanup: cancel the refresh, close the instances, forget the lists.      *)

Cleaning(k) ==
  \E c \in Applies \cup {Shutdown} : /\ cleanups[c].runtime = k
                                     /\ cleanups[c].phase \in {"discovery", "closing"}

\* Slip: the instances are closed before the refresh has been cancelled.
BeginCleanupLate(c, k) ==
  /\ cleanups' = [cleanups EXCEPT ![c].phase = "discovery", ![c].runtime = k]
  /\ UNCHANGED runtimes

BeginCleanup(c, k) ==
  /\ cleanups' = [cleanups EXCEPT ![c].phase = "discovery", ![c].runtime = k]
  /\ runtimes' = [runtimes EXCEPT ![k].refresh.phase = IF @ = "running" THEN "cancelled" ELSE @]

\* apply_admin_config: a POST writes the settings and cleans the runtime in use.
Apply(c) ==
  /\ cleanups[c].phase = "idle"
  /\ env' = env + 1
  /\ BeginCleanup(c, installed)
  /\ UNCHANGED <<installed, closed>>

\* ProviderCache.cleanup looks at the cache once.
BeginClosing(c) ==
  /\ cleanups[c].phase = "discovery"
  /\ runtimes[cleanups[c].runtime].refresh.phase # "cancelled"
  /\ cleanups' = [cleanups EXCEPT ![c].phase = "closing",
                                  ![c].todo = Cached(cleanups[c].runtime)]
  /\ UNCHANGED <<env, runtimes, installed, closed>>

Close(c, i) ==
  /\ cleanups[c].phase = "closing" /\ i \in cleanups[c].todo
  /\ closed' = closed \cup {i}
  /\ \E error \in BOOLEAN :
       cleanups' = [cleanups EXCEPT ![c].todo = @ \ {i}, ![c].errors = @ \/ error]
  /\ UNCHANGED <<env, runtimes, installed>>

\* Slip: the cache is kept when a provider's cleanup failed.
EmptiedUnlessErrors(k) ==
  IF \E c \in DOMAIN cleanups : cleanups[c].runtime = k /\ cleanups[c].errors
  THEN [runtimes EXCEPT ![k].models = {}]
  ELSE [runtimes EXCEPT ![k].cache = [p \in Providers |-> 0], ![k].models = {}]

Emptied(k) == [runtimes EXCEPT ![k].cache = [p \in Providers |-> 0], ![k].models = {}]

\* Slip: the settings this apply has written.
NewSettingsEarly(c) == runtimes[cleanups[c].runtime].settings + 1

\* The settings a new runtime is built from are read after the cleanup.
NewSettings(c) == env

EndCleanup(c) ==
  LET k == cleanups[c].runtime
      replaced == c # Shutdown /\ ~ cleanups[c].errors
  IN  /\ cleanups[c].phase = "closing" /\ cleanups[c].todo = {}
      /\ runtimes' = IF replaced THEN Append(Emptied(k), Runtime(NewSettings(c))) ELSE Emptied(k)
      /\ installed' = IF replaced THEN Len(runtimes) + 1 ELSE installed
      /\ cleanups' = [cleanups EXCEPT ![c].phase = IF cleanups[c].errors THEN "failed" ELSE "done"]
      /\ UNCHANGED <<env, closed>>

\* best_effort, after five seconds of the shutdown's cleanup.
CleanupTimesOut ==
  LET k == cleanups[Shutdown].runtime
  IN  /\ cleanups[Shutdown].phase \in {"discovery", "closing"}
      /\ runtimes' = IF cleanups[Shutdown].phase = "closing" THEN Emptied(k)
                     ELSE [runtimes EXCEPT ![k].models = {}]
      /\ cleanups' = [cleanups EXCEPT ![Shutdown].phase = "failed"]
      /\ UNCHANGED <<env, installed, closed>>

CleanupMoves(c) == BeginClosing(c) \/ (\E i \in cleanups[c].todo : Close(c, i)) \/ EndCleanup(c)

RuntimesMove ==
  \/ \E k \in DOMAIN runtimes : EndRefresh(k) \/ RefreshCancelled(k)
  \/ \E c \in Applies \cup {Shutdown} : CleanupMoves(c)
  \/ CleanupTimesOut

-----------------------------------------------------------------------------
(* Properties.                                                              *)

\* A request never gets an instance that was closed: unless the runtime in use is
\* just being cleaned, the instances in its cache are open. After an apply whose
\* cleanup failed the old runtime stays in use, and makes new instances.
InstalledUsable == ~ Cleaning(installed) => Cached(installed) \cap closed = {}

\* When no apply is under way and none failed, the runtime in use was built from the
\* settings written last, also after applies that overlapped.
SettingsCurrent ==
  (\A c \in Applies : cleanups[c].phase \in {"idle", "done"}) =>
    runtimes[installed].settings = env

\* The refresh in the background never queries an instance that is closed.
RefreshUsesOpen ==
  \A k \in DOMAIN runtimes :
    runtimes[k].refresh.phase = "running" => runtimes[k].refresh.uses \cap closed = {}
=============================================================================
