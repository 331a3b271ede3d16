----------------------------- MODULE AdminConfig -----------------------------
(***************************************************************************)
(* The settings the admin page edits (api/admin_config, config/settings.py *)
(* and config/env_files.py): where each comes from, what the page shows,   *)
(* what an apply writes to the managed file, what the server then loads    *)
(* and when it restarts to use it (api/admin_routes.py, cli/entrypoints).  *)
(*                                                                         *)
(* Three fields stand for the manifest's: a provider's key (a secret), the *)
(* voice device (it needs a restart, has a closed set of values, and one   *)
(* of them needs the key) and the server's token (a secret, and the one    *)
(* setting for which a file goes before the process environment).          *)
(***************************************************************************)
EXTENDS Naturals, FiniteSets, Functions

CONSTANT AdminApplies    \* how often the page is applied

ASSUME AdminAppliesAssumption == AdminApplies \in Nat

\* default: of the Settings class; template: of .env.example.
FIELDS ==
  [key    |-> [values |-> {"", "x"}, secret |-> TRUE, restart |-> FALSE,
               template |-> "", default |-> ""],
   device |-> [values |-> {"cpu", "nim", "bad"}, secret |-> FALSE, restart |-> TRUE,
               template |-> "nim", default |-> "cpu"],
   token  |-> [values |-> {"", "freecc"}, secret |-> TRUE, restart |-> FALSE,
               template |-> "freecc", default |-> ""]]
FieldKeys == DOMAIN FIELDS

Nothing == [k \in {} |-> ""]
MaskedSecret == "********"

\* Where a setting may come from, from the lowest precedence to the highest.
FileSources == {"repo_env", "managed_env", "explicit_env_file"}
Sources == FileSources \cup {"process"}
Rank == [repo_env |-> 1, managed_env |-> 2, explicit_env_file |-> 3, process |-> 4]

\* What a source may define: some of the fields, in at most n of them.
Defines(n) ==
  {f \in UNION {[K -> UNION {FIELDS[k].values : k \in K}] : K \in SUBSET FieldKeys} :
     /\ Cardinality(DOMAIN f) <= n
     /\ \A k \in DOMAIN f : f[k] \in FIELDS[k].values}

VARIABLES
  sources,     \* what each source defines
  settings,    \* what the server started with, and what its requests read
  admin        \* the applies so far, the last payload, the fields reported as pending, a
               \* restart under way, and whether a supervisor restarts the server

admin_vars == <<sources, settings, admin>>

-----------------------------------------------------------------------------
(* Reading.                                                                 *)

\* The value the last of the sources S gives a key.
ValueIn(S, k, otherwise) ==
  LET defining == {s \in S : k \in DOMAIN sources[s]}
  IN  IF defining = {} THEN otherwise
      ELSE LET last == CHOOSE s \in defining : \A t \in defining : Rank[t] <= Rank[s]
           IN  sources[last][k]

\* load_value_state: what the page shows.
Shown(k) == ValueIn(Sources, k, FIELDS[k].template)

\* is_locked_source of the source that load_value_state gives a key.
Locked(k) == \E s \in {"explicit_env_file", "process"} : k \in DOMAIN sources[s]

\* prefer_dotenv_anthropic_auth_token: a token in a file overrides the environment's.
TokenOfFiles ==
  ValueIn(FileSources, "token", ValueIn(Sources, "token", FIELDS["token"].default))

\* Settings(): what the server loads.
Loaded ==
  [k \in FieldKeys |-> IF k = "token" THEN TokenOfFiles
                  ELSE ValueIn(Sources, k, FIELDS[k].default)]

\* The validators of Settings.
Accepts(values) ==
  /\ values["device"] # "bad"
  /\ values["device"] = "nim" => values["key"] # ""

-----------------------------------------------------------------------------
(* Applying.                                                                *)

\* Slip: the first write does not take over what the repository's file sets.
ForgetsRepo(updates) ==
  [k \in FieldKeys |->
     IF /\ k \in DOMAIN updates /\ ~Locked(k)
        /\ ~(FIELDS[k].secret /\ updates[k] = MaskedSecret)
     THEN updates[k]
     ELSE ValueIn({"managed_env"}, k, FIELDS[k].template)]

\* target_values_with_updates: what the managed file is to hold. The first write takes
\* over what the page shows; a later one keeps what the file has, and completes it from
\* the template. A locked field and a secret sent back masked keep their value.
TargetValues(updates) ==
  [k \in FieldKeys |->
     IF /\ k \in DOMAIN updates /\ ~Locked(k)
        /\ ~(FIELDS[k].secret /\ updates[k] = MaskedSecret)
     THEN updates[k]
     ELSE IF DOMAIN sources["managed_env"] # {}
          THEN ValueIn({"managed_env"}, k, FIELDS[k].template)
     ELSE IF Locked(k) THEN FIELDS[k].template
     ELSE Shown(k)]

\* Slip: what is validated leaves out the values of the locked sources.
ValidatesTarget(updates) == Accepts(TargetValues(updates))

\* validate_updates: over the target and the locked sources.
Validates(updates) ==
  Accepts([k \in FieldKeys |-> IF Locked(k) THEN Shown(k) ELSE TargetValues(updates)[k]])

\* changed_pending_fields.
ChangedPendingFields(updates) ==
  {k \in DOMAIN updates : FIELDS[k].restart /\ updates[k] # Shown(k)}

\* apply_admin_config: the file is replaced at once, or not at all. With a supervisor a
\* change that needs a restart asks for one; otherwise a runtime with the new settings
\* replaces the old one (that is ProviderRuntime's).
ApplyConfig(updates) ==
  /\ admin.applies < AdminApplies
  /\ IF Validates(updates)
     THEN LET pending == ChangedPendingFields(updates)
              restarts == pending # {} /\ admin.supervised
          IN  /\ sources' = [sources EXCEPT !["managed_env"] = TargetValues(updates)]
              /\ admin' = [admin EXCEPT !.applies = @ + 1, !.payload = updates,
                                        !.pending = IF restarts THEN {} ELSE pending,
                                        !.restarting = @ \/ restarts]
              /\ settings' = [settings EXCEPT !.cached = Loaded']
     ELSE /\ admin' = [admin EXCEPT !.applies = @ + 1, !.payload = updates]
          /\ UNCHANGED <<sources, settings>>

\* serve: the server that was asked to exit is replaced, and loads the settings anew.
RestartServer ==
  /\ admin.restarting
  /\ admin' = [admin EXCEPT !.restarting = FALSE, !.pending = {}]
  /\ settings' = [started |-> Loaded, cached |-> Loaded]
  /\ UNCHANGED sources

\* The page sends what was edited, the secrets as they are shown.
Payloads ==
  {u \in UNION {[K -> {MaskedSecret} \cup UNION {FIELDS[k].values : k \in FieldKeys}] :
                  K \in {L \in SUBSET FieldKeys : Cardinality(L) <= 2}} :
     \A k \in DOMAIN u : \/ u[k] \in FIELDS[k].values
                         \/ FIELDS[k].secret /\ Shown(k) # "" /\ u[k] = MaskedSecret}

AdminMoves ==
  \/ \E u \in Payloads : ApplyConfig(u)
  \/ RestartServer

AdminUnused ==
  [applies |-> 0, payload |-> Nothing, pending |-> {}, restarting |-> FALSE, supervised |-> FALSE]

\* The managed file is any, of this version or an older one; one other field is set in
\* the repository's file, and one in a locked source.
AdminInit ==
  /\ \E repo \in Defines(1), managed \in Defines(3), locked \in Defines(1),
        source \in {"explicit_env_file", "process"} :
       sources = [s \in Sources |-> CASE s = "repo_env" -> repo
                                      [] s = "managed_env" -> managed
                                      [] s = source -> locked
                                      [] OTHER -> Nothing]
  /\ Accepts(Loaded)
  /\ settings = [started |-> Loaded, cached |-> Loaded]
  /\ \E b \in BOOLEAN : admin = [AdminUnused EXCEPT !.supervised = b]

\* The component at rest.
AdminRest ==
  /\ sources = [s \in Sources |-> Nothing]
  /\ settings = [started |-> Loaded, cached |-> Loaded]
  /\ admin = AdminUnused

-----------------------------------------------------------------------------
(* Properties.                                                              *)

AdminTypeOK ==
  /\ \A s \in Sources : sources[s] \in Defines(3)
  /\ \A w \in {"started", "cached"} : settings[w] \in [FieldKeys -> STRING]
  /\ admin.applies \in 0..AdminApplies /\ DOMAIN admin.payload \subseteq FieldKeys
  /\ admin.pending \subseteq FieldKeys /\ {admin.restarting, admin.supervised} \subseteq BOOLEAN

\* The repository sets a key that the managed file, which exists, leaves out: the apply
\* completes the file from the template, which goes before the repository's value.
ShadowsRepo(k) ==
  /\ DOMAIN sources["managed_env"] # {}
  /\ k \notin DOMAIN sources["managed_env"] /\ k \in DOMAIN sources["repo_env"]

\* An apply that is accepted leaves settings the server can start with, gives each field
\* that was edited the value it was given and leaves what the page showed of the others:
\* locked sources keep theirs, a masked secret is not replaced by its mask
\* (persistence.py). The server then uses what the page shows, but for a token that the
\* environment sets (settings.py:416).
AppliesAsShown ==
  sources' # sources =>
    /\ Accepts(Loaded')
    /\ \A k \in FieldKeys :
         LET asked == /\ k \in DOMAIN admin'.payload /\ ~Locked(k)
                      /\ admin'.payload[k] # MaskedSecret
         IN  /\ IF asked THEN Shown(k)' = admin'.payload[k]
                ELSE Shown(k)' = Shown(k) \/ ShadowsRepo(k)
             /\ settings'.cached[k] = Shown(k)' \/ (k = "token" /\ k \in DOMAIN sources["process"])
=============================================================================
