---------------------------- MODULE MCTeamConfig ----------------------------
(* Teamfiles that differ in one or two places from a sound one: missing    *)
(* kinds in any order of the agents, unknown models, tools and targets,    *)
(* limits at and below their bounds, and texts that spell nothing.         *)
EXTENDS TeamConfig

Agent(kind, model, capabilities, tools) ==
  [kind |-> kind, model |-> model, capabilities |-> capabilities, tools |-> tools]

Planner == Agent("planner", "m1", {"planning"}, {})
Critic == Agent("critic", "m1", {}, {})
Finalizer == Agent("finalizer", "m1", {}, {})

Coders ==
  {Agent("specialist", model, capabilities, tools) :
     model \in {"m1", "m2"}, capabilities \in SUBSET {"python", "writing"},
     tools \in {{}, {"filesystem.read"}, {"filesystem.delete"}}}

Teams ==
  UNION {{<<Planner, a, Critic, Finalizer>>, <<a, Planner, Finalizer, Critic>>,
          <<a, Critic, Finalizer>>, <<Planner, a, Finalizer>>, <<Critic, a>>} : a \in Coders}
    \cup {<<a, Planner, b, Critic, Finalizer>> : a, b \in {x \in Coders : x.tools = {}}}
    \cup {<<>>, <<Planner, Critic, Finalizer>>}

Fake == [provider |-> "fake", base_url |-> "none"]
Remote(base_url) == [provider |-> "openai_compatible", base_url |-> base_url]

Models == {[m \in {"m1"} |-> Fake], [m \in {} |-> Fake]}
            \cup {[m \in {"m1", "m2"} |-> IF m = "m1" THEN Remote("url") ELSE other] :
                    other \in {Fake, Remote("none"), Remote("malformed"), Remote("url")}}

Sound == [l \in PositiveLimits \cup OptionalLimits |-> IF l \in PositiveLimits THEN 1 ELSE 0]

Limits == {Sound} \cup {[Sound EXCEPT ![l] = @ - 1] : l \in DOMAIN Sound}

Config(models, agents, strategy, approval, limits) ==
  [models |-> models, agents |-> agents, strategy |-> strategy, approval |-> approval,
   limits |-> limits]

MCConfigs ==
  {Config(m, a, s, {"filesystem.write"}, Sound) :
     m \in Models, a \in Teams, s \in {"plan_execute_review", "pipeline"}}
  \cup
  {Config([m \in {"m1"} |-> Fake],
          <<Planner, Agent("specialist", "m1", {"python"}, {}), Critic, Finalizer>>,
          "plan_execute_review", t, l) :
     t \in {{}, {"write"}, {"filesystem.delete"}}, l \in Limits}

MCTeamfiles ==
  {[text |-> "mapping", config |-> c] : c \in MCConfigs}
    \cup {[text |-> t, config |-> CHOOSE c \in MCConfigs : TRUE] : t \in Text}

MCModelNames == {"m1", "m2"}
MCNames == {"m1", "m2", "python", "writing", "planning", "filesystem.read", "filesystem.write",
            "filesystem.delete", "write"}
=============================================================================
