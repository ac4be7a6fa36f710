---------------------------- MODULE MCModelPool ----------------------------
(* Instances of ModelPool for TLC.  The deployments of the role come from  *)
(* a configuration with two providers, of which one or both have a key;    *)
(* one of its models is served by both.                                    *)
EXTENDS ModelPool, TLC

CONSTANTS c1, c2, k1, k2

Config == INSTANCE PoolConfig

Model(at, provider, model, priority, variable, max_tokens) ==
  [at |-> at, provider |-> provider, model |-> model, priority |-> priority,
   needs |-> {variable}, literal |-> FALSE, rpm |-> 500, max_tokens |-> max_tokens]
Models(max_tokens) ==
  {Model(1, 1, 1, 3, "ZHIPU_API_KEY", 0), Model(2, 2, 1, 2, "AMD_API_KEY", max_tokens),
   Model(3, 1, 2, 1, "ZHIPU_API_KEY", 0)}
ConfiguredPool ==
  [r \in Config!Roles |-> Models(IF r = "judging" THEN 8192 ELSE 0)]

TiersWith(env) ==
  Config!TiersOf(Config!Usable(ConfiguredPool, env), "translation")

MCCalls == {c1, c2}
OneKey == {k1}
TwoKeys == {k1, k2}
OneTier == TiersWith({"AMD_API_KEY"})
TwoTiers == TiersWith({"ZHIPU_API_KEY"})
ThreeTiers == TiersWith({"AMD_API_KEY", "ZHIPU_API_KEY"})

(* One key is enough for the pool, and the second decides the order.       *)
ASSUME /\ Config!Loads(ConfiguredPool, FALSE)
       /\ Config!ConfigPath("", "", "") = "config/default.yaml"
       /\ \A env \in SUBSET {"AMD_API_KEY", "ZHIPU_API_KEY"} :
            Config!Builds(ConfiguredPool, env) <=> env # {}
       /\ OneTier = <<<<2, 1>>>> /\ TwoTiers = <<<<1, 2>>, <<1, 1>>>>
       /\ ThreeTiers = <<<<1, 2>>, <<2, 1>>, <<1, 1>>>>

(* A judgement that is handed to a translation model, when only the judges *)
(* declare max_tokens, is asked for without any ceiling: the call pins     *)
(* none, and the deployment it ends at has none.                           *)
ASSUME
  LET usable == Config!Usable(ConfiguredPool, {"AMD_API_KEY", "ZHIPU_API_KEY"})
  IN /\ "translation" \in Config!Fallbacks(usable)["judging"]
     /\ \A d \in Config!ModelList(usable) :
          d.group = "translation" => Config!Ceiling(usable, "judging", d) = 0

(* Calls are alike, and so are keys.                                      *)
Symmetry == Permutations(MCCalls) \cup Permutations(TwoKeys)
=============================================================================
