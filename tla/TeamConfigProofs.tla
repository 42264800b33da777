-------------------------- MODULE TeamConfigProofs --------------------------
(***************************************************************************)
(* For every set of Teamfiles and names: what the loader accepts names     *)
(* only what the runtime and the conductor find.  Inv adds to the property *)
(* that a Teamfile past the loader passed both validators - the only thing *)
(* the later lookups have to rely on.                                      *)
(***************************************************************************)
EXTENDS TeamConfig, WellFoundedInduction, TLAPS

Accepted == {"loaded", "entered", "built"}

Inv ==
  /\ teamfile \in Teamfiles
  /\ step \in {"load", "stopped"} \cup Accepted
  /\ step \in Accepted => FieldsValid(config) /\ ReferencesValid(config)
  /\ error \notin {"ValueError", "KeyError"}

-----------------------------------------------------------------------------
LEMMA LeastOfNaturals ==
  ASSUME NEW S \in SUBSET Nat, S # {}
  PROVE  \E i \in S : \A j \in S : i <= j
<1>1. PICK i \in S : \A j \in S : <<j, i>> \notin OpToRel(<, Nat)
  BY NatLessThanWellFounded, WFMin
<1>2. \A j \in S : ~(j < i)
  BY <1>1 DEF OpToRel
<1> QED BY <1>2

(* next(...) in _first_agent finds one when the mapping has the kind.      *)
LEMMA FirstAgentExists ==
  ASSUME config \in Configs, NEW kind \in KindsOf(config)
  PROVE  FirstAgents(kind) # {}
<1> DEFINE S == {i \in DOMAIN config.agents : config.agents[i].kind = kind}
<1>1. S \in SUBSET Nat /\ S # {}
  BY DEF KindsOf, Configs
<1>2. PICK i \in S : \A j \in S : i <= j
  BY <1>1, LeastOfNaturals
<1> QED BY <1>2 DEF FirstAgents

LEMMA StopKeepsInv ==
  ASSUME Inv, NEW exception, exception \notin {"ValueError", "KeyError"}, Stop(exception)
  PROVE  Inv'
BY DEF Inv, Stop, Accepted, config

LEMMA LoadKeepsInv == ASSUME Inv, Load PROVE Inv'
<1>1. ASSUME FieldsValid(config), ReferencesValid(config), Reach("loaded") PROVE Inv'
  BY <1>1 DEF Inv, Reach, Accepted, config
<1> QED BY <1>1, StopKeepsInv DEF Load

LEMMA EnterRuntimeKeepsInv == ASSUME Inv, EnterRuntime PROVE Inv'
<1>1. FieldsValid(config) /\ ReferencesValid(config) /\ config \in Configs
  BY TeamfilesAssumption DEF Inv, EnterRuntime, Accepted, config
<1>2. \A m \in DOMAIN config.models : config.models[m] \in ModelConfig
  BY <1>1 DEF Configs
<1>3. \A m \in DOMAIN config.models : ClientError(config.models[m]) \in {"none", "InvalidURL"}
  <2>1. ASSUME NEW m \in DOMAIN config.models
        PROVE  ClientError(config.models[m]) \in {"none", "InvalidURL"}
    <3> DEFINE model == config.models[m]
    <3>1. model \in ModelConfig /\ (model.provider = "openai_compatible" => model.base_url # "none")
      BY <1>1, <1>2 DEF FieldsValid
    <3> HIDE DEF model
    <3>2. \/ model.provider = "fake" \/ model.base_url = "url"
          \/ model.provider # "fake" /\ model.base_url = "malformed"
      BY <3>1 DEF ModelConfig
    <3>3. ClientError(model) \in {"none", "InvalidURL"}
      BY <3>2 DEF ClientError
    <3> QED BY <3>3 DEF model
  <2> QED BY <2>1
<1>4. \A exception \in ClientErrors : exception = "InvalidURL"
  BY <1>3 DEF ClientErrors
<1>5. CASE \E exception \in ClientErrors \cup {"OSError"} : Stop(exception)
  BY <1>4, <1>5, StopKeepsInv
<1>6. CASE Reach("entered")
  BY <1>1, <1>6 DEF Inv, Reach, Accepted, config
<1> QED BY <1>5, <1>6 DEF EnterRuntime

LEMMA BuildTeamKeepsInv == ASSUME Inv, BuildTeam PROVE Inv'
<1>1. FieldsValid(config) /\ ReferencesValid(config) /\ config \in Configs
  BY TeamfilesAssumption DEF Inv, BuildTeam, Accepted, config
<1>2. \A i \in TeamMembers : config.agents[i].model \in DOMAIN config.models
  BY <1>1 DEF TeamMembers, Specialists, FirstAgents, ReferencesValid
<1>3. config.strategy \in {"plan_execute_review", "pipeline"}
  BY <1>1 DEF Configs
<1>4. SingleKinds \subseteq KindsOf(config)
  BY <1>1, <1>3 DEF SingleKinds, ReferencesValid, RequiredKinds
<1>5. \A kind \in SingleKinds : FirstAgents(kind) # {}
  BY <1>1, <1>4, FirstAgentExists
<1>6. Reach("built")
  BY <1>2, <1>5 DEF BuildTeam
<1> QED BY <1>1, <1>6 DEF Inv, Reach, Accepted, config

LEMMA InvAlways == ConfigSpec => []Inv
<1>1. ConfigInit => Inv
  BY DEF ConfigInit, Inv, Accepted
<1>2. Inv /\ [ConfigNext]_configVars => Inv'
  <2> SUFFICES ASSUME Inv, [ConfigNext]_configVars PROVE Inv'
    OBVIOUS
  <2>1. CASE UNCHANGED configVars
    BY <2>1 DEF Inv, configVars, config
  <2> QED BY <2>1, LoadKeepsInv, EnterRuntimeKeepsInv, BuildTeamKeepsInv
          DEF ConfigNext
<1> QED BY <1>1, <1>2, PTL DEF ConfigSpec

-----------------------------------------------------------------------------
(* What teamai validate accepts names only what teamai run will find:      *)
(* validate_references makes every later lookup succeed.                   *)
THEOREM AcceptedConfigsBuild == ConfigSpec => []ValidConfigsBuild
<1>1. Inv => ValidConfigsBuild
  BY DEF Inv, Accepted, ValidConfigsBuild, ReferencesValid, BuiltinToolNames, Registered
<1> QED BY <1>1, InvAlways, PTL

=============================================================================
