----------------------------- MODULE TeamConfig -----------------------------
(***************************************************************************)
(* From a Teamfile to a team that can run: config/loader.py and            *)
(* config/models.py decide whether a Teamfile is accepted, and             *)
(* providers/registry.py, tools/builtin/filesystem.py and the _build       *)
(* methods of conductor.py later rely on what was accepted, each with      *)
(* lookups of its own that would raise.                                    *)
(*                                                                         *)
(* A Teamfile is its text, as far as the loader tells texts apart, and the *)
(* configuration the text spells.  Agents are a sequence: the order of the *)
(* mapping decides which agent is the first of its kind.                   *)
(***************************************************************************)
EXTENDS Integers, Sequences, FiniteSets

CONSTANTS
  Teamfiles,   \* the Teamfiles that may be there
  ModelNames,  \* the names under which a Teamfile may define models
  Names        \* the names it may refer to: models, capabilities, tools, approval targets

Text == {"missing", "not_utf8", "not_yaml", "scalar", "mapping"}

PositiveLimits == {"max_model_calls", "max_tool_calls", "max_tasks", "max_runtime_seconds",
                   "max_output_tokens_per_call", "max_parallel_tasks"}
OptionalLimits == {"max_revisions_per_task", "max_parse_retries"}

Kinds == {"planner", "specialist", "critic", "finalizer"}

ModelConfig == [provider : {"fake", "openai_compatible"}, base_url : {"none", "malformed", "url"}]
AgentConfig == [kind : Kinds, model : Names, capabilities : SUBSET Names, tools : SUBSET Names]

Configs ==
  [models : UNION {[D -> ModelConfig] : D \in SUBSET ModelNames},
   agents : Seq(AgentConfig),
   strategy : {"plan_execute_review", "pipeline"},
   approval : SUBSET Names,
   limits : [PositiveLimits \cup OptionalLimits -> Int]]

ASSUME TeamfilesAssumption == Teamfiles \subseteq [text : Text, config : Configs]

VARIABLES
  teamfile,   \* the file teamai validate or teamai run was given
  step,       \* "load", "loaded", "entered", "built" or "stopped"
  error       \* the exception that stopped it, or "none"

configVars == <<teamfile, step, error>>

config == teamfile.config

ConfigInit ==
  /\ teamfile \in Teamfiles
  /\ step = "load"
  /\ error = "none"

Stop(exception) ==
  /\ step' = "stopped"
  /\ error' = exception
  /\ UNCHANGED teamfile

Reach(s) ==
  /\ step' = s
  /\ UNCHANGED <<teamfile, error>>

-----------------------------------------------------------------------------
(* TeamConfig.model_validate: field ranges, then validate_references. *)

BuiltinToolNames == {"filesystem.list", "filesystem.read", "filesystem.write"}
SideEffects == {"none", "read", "write", "execute", "network", "external"}

FieldsValid(c) ==
  /\ \A m \in DOMAIN c.models : c.models[m].provider = "openai_compatible"
                                => c.models[m].base_url # "none"
  /\ \A l \in PositiveLimits : c.limits[l] > 0
  /\ \A l \in OptionalLimits : c.limits[l] >= 0

KindsOf(c) == {c.agents[i].kind : i \in DOMAIN c.agents}

(* Mutant: the planner is not required by any strategy. *)
RequiredKindsFixed(c) == {"specialist", "critic", "finalizer"}

RequiredKinds(c) ==
  {"specialist", "critic", "finalizer"}
    \cup IF c.strategy = "plan_execute_review" THEN {"planner"} ELSE {}

ReferencesValid(c) ==
  /\ DOMAIN c.models # {}
  /\ c.agents # <<>>
  /\ \A i \in DOMAIN c.agents :
       /\ c.agents[i].model \in DOMAIN c.models
       /\ c.agents[i].tools \subseteq BuiltinToolNames
  /\ c.approval \subseteq BuiltinToolNames \cup SideEffects
  /\ RequiredKinds(c) \subseteq KindsOf(c)

(* load_team_config turns an OSError and pydantic's ValidationError into a *)
(* TeamfileValidationError; what read_text and yaml.safe_load raise on an  *)
(* undecodable or malformed text passes through.                           *)
Load ==
  /\ step = "load"
  /\ \/ teamfile.text = "not_utf8" /\ Stop("UnicodeDecodeError")
     \/ teamfile.text = "not_yaml" /\ Stop("YAMLError")
     \/ teamfile.text \in {"missing", "scalar"} /\ Stop("TeamfileValidationError")
     \/ /\ teamfile.text = "mapping"
        /\ IF FieldsValid(config) /\ ReferencesValid(config)
             THEN Reach("loaded")
             ELSE Stop("TeamfileValidationError")

-----------------------------------------------------------------------------
(* TeamRuntime.__aenter__ builds one client per model, then opens the      *)
(* database and makes the workspace, which may be impossible.  A fake      *)
(* client needs no URL; the other looks once more whether there is one,    *)
(* and httpx.AsyncClient whether it is one.                                *)

ClientError(m) ==
  IF m.provider = "fake" \/ m.base_url = "url" THEN "none"
  ELSE IF m.base_url = "none" THEN "ValueError"
  ELSE "InvalidURL"

ClientErrors == {ClientError(config.models[m]) : m \in DOMAIN config.models} \ {"none"}

EnterRuntime ==
  /\ step = "loaded"
  /\ \/ \E exception \in ClientErrors : Stop(exception)
     \/ ClientErrors = {} /\ Stop("OSError")
     \/ ClientErrors = {} /\ Reach("entered")

(* The tools build_filesystem_tools registers, by ToolSpec.name. *)
Registered == {"filesystem.list", "filesystem.read", "filesystem.write"}

(* _first_agent(kind): the first of the mapping, or ValueError. *)
FirstAgents(kind) ==
  {i \in DOMAIN config.agents :
     /\ config.agents[i].kind = kind
     /\ \A j \in DOMAIN config.agents : config.agents[j].kind = kind => i <= j}

(* The agents Conductor.run constructs for the strategy. *)
SingleKinds ==
  {"critic", "finalizer"} \cup IF config.strategy = "pipeline" THEN {} ELSE {"planner"}

Specialists == {i \in DOMAIN config.agents : config.agents[i].kind = "specialist"}

TeamMembers == Specialists \cup UNION {FirstAgents(kind) : kind \in SingleKinds}

BuildTeam ==
  /\ step = "entered"
  /\ CASE \E i \in TeamMembers : config.agents[i].model \notin DOMAIN config.models ->
            Stop("KeyError")
       [] \E kind \in SingleKinds : FirstAgents(kind) = {} -> Stop("ValueError")
       [] OTHER -> Reach("built")

ConfigNext ==
  \/ Load
  \/ EnterRuntime
  \/ BuildTeam

ConfigSpec == ConfigInit /\ [][ConfigNext]_configVars

-----------------------------------------------------------------------------

(* What teamai validate accepts names only what is there: no lookup of the *)
(* registry or the conductor fails on an accepted Teamfile, and every tool *)
(* an agent may use is registered.  An accepted Teamfile may still not     *)
(* run: no validator looks whether a base URL is one, or a path usable.    *)
ValidConfigsBuild ==
  /\ error \notin {"ValueError", "KeyError"}
  /\ step \in {"loaded", "entered", "built"} =>
       \A i \in DOMAIN config.agents : config.agents[i].tools \subseteq Registered

(* TeamfileValidationError is "raised when a Teamfile cannot be loaded or  *)
(* validated" (config/loader.py): no Teamfile stops the loader with        *)
(* another exception.  Undecodable and malformed texts do.                 *)
LoadErrorsAreReported ==
  step = "stopped" => error = "TeamfileValidationError"

=============================================================================
