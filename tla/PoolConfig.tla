------------------------------ MODULE PoolConfig ------------------------------
(***************************************************************************)
(* From a configuration file to the pool (ol_config/, ModelPool.__init__   *)
(* and the functions it calls in ol_pool/router.py): which file is read,   *)
(* which entries of a role are used, which deployments and fallbacks the   *)
(* litellm Router is given, in which order the failover tries the models,  *)
(* how many tokens an answer may have, how long a call waits after a 429.  *)
(*                                                                         *)
(* A pool is a function from roles to sets of entries.  An entry has its   *)
(* place in the role's list (at), a provider and a model (by rank in the   *)
(* alphabet), a priority, the environment variables its key and its URL    *)
(* refer to (needs), whether its key is a literal (literal), rpm, and      *)
(* max_tokens, 0 when it has none.                                         *)
(***************************************************************************)
EXTENDS Integers, FiniteSets, FiniteSetsExt, SequencesExt

Roles == {"translation", "judging", "restoration", "profiling"}

(* resolve_config_path: a level that names nothing is "".                  *)
ConfigPath(option, local, variable) ==
  IF option # "" THEN option
  ELSE IF local # "" THEN local
  ELSE IF variable # "" THEN variable
  ELSE "config/default.yaml"

(* load_config refuses keys written into the file, in three of the four    *)
(* roles; the schema wants two models for each of these.                   *)
Checked == Roles \ {"profiling"}
Loads(pool, allowed) ==
  /\ allowed \/ \A r \in Checked : \A e \in pool[r] : ~ e.literal
  /\ \A r \in Checked : Cardinality(pool[r]) >= 2

(* _unresolved_env_vars.                                                   *)
Unresolved(e, env) == e.needs \ env

(* partition_usable_models: what is left of each role.                     *)
Usable(pool, env) == [r \in Roles |-> {e \in pool[r] : Unresolved(e, env) = {}}]

(* A pool is built unless some role lost every model it had.               *)
Starved(pool, env) == {r \in Roles : pool[r] # {} /\ Usable(pool, env)[r] = {}}
Builds(pool, env) == Starved(pool, env) = {}

-----------------------------------------------------------------------------
(* What the Router is given.                                               *)

DefaultTokens(role) == IF role = "translation" THEN 4096 ELSE 2048

(* _effective_max_tokens.                                                  *)
EffectiveTokens(role, e) == IF e.max_tokens # 0 THEN e.max_tokens ELSE DefaultTokens(role)

HasOverride(models) == \E e \in models : e.max_tokens # 0

(* _build_model_list: the group is the role; a ceiling is in the           *)
(* deployment's parameters only if one entry of the role declares one.     *)
Deployment(usable, r, e) ==
  [group |-> r, entry |-> e,
   max_tokens |-> IF HasOverride(usable[r]) THEN EffectiveTokens(r, e) ELSE 0]
ModelList(usable) == UNION {{Deployment(usable, r, e) : e \in usable[r]} : r \in Roles}

(* _router_max_tokens_kwargs: what the call itself says, 0 for nothing.    *)
CallTokens(usable, role) == IF HasOverride(usable[role]) THEN 0 ELSE DefaultTokens(role)

(* litellm lets what the call says go before what the deployment says.     *)
Ceiling(usable, role, d) ==
  IF CallTokens(usable, role) # 0 THEN CallTokens(usable, role) ELSE d.max_tokens

(* _role_max_tokens_ceiling, which an answer is compared with.             *)
LargestCeiling(usable, role) ==
  IF usable[role] = {} THEN DefaultTokens(role)
  ELSE Max({EffectiveTokens(role, e) : e \in usable[role]})

(* _build_fallbacks: groups the Router has, another role's, with a model   *)
(* that may be asked at all; translation, the first of them, has none.     *)
Groups(usable) == {r \in Roles : usable[r] # {}}
Targets(usable) == {r \in Groups(usable) : \E e \in usable[r] : e.rpm > 0}
Rescued(usable) == {r \in Groups(usable) \ {"translation"} : Targets(usable) \ {r} # {}}
Fallbacks(usable) == [r \in Rescued(usable) |-> Targets(usable) \ {r}]

(* _intra_role_failover: sorted by priority, provider and model, and       *)
(* otherwise as they stand in the file.                                    *)
Goes(a, b) ==
  \/ a.priority < b.priority
  \/ a.priority = b.priority /\ a.provider < b.provider
  \/ a.priority = b.priority /\ a.provider = b.provider /\ a.model < b.model
  \/ /\ <<a.priority, a.provider, a.model>> = <<b.priority, b.provider, b.model>>
     /\ a.at < b.at

ModelId(e) == <<e.provider, e.model>>
TiersOf(usable, role) ==
  LET models == SetToSortSeq(usable[role], Goes)
  IN [i \in DOMAIN models |-> ModelId(models[i])]

-----------------------------------------------------------------------------
(* The wait after a 429, in seconds.                                       *)

AtMost(wait, cfg) == IF wait < cfg.max_delay THEN wait ELSE cfg.max_delay

(* _extract_retry_after, _parse_retry_after_value: the header is a set     *)
(* with one number of seconds (a date is counted from now), or none.       *)
RetryAfter(header) == {IF h < 0 THEN 0 ELSE h : h \in header}

(* compute_rate_limit_backoff, with all that jitter may add.               *)
Backoffs(attempt, header, cfg) ==
  LET asked == RetryAfter(header) \cup IF header = {} THEN {cfg.base_delay * 2 ^ attempt} ELSE {}
      waits == {AtMost(w, cfg) : w \in asked}
  IN IF ~ cfg.enabled THEN {0}
     ELSE UNION {{AtMost(w + j, cfg) : j \in IF cfg.jitter THEN 0 .. w \div 4 ELSE {0}} : w \in waits}
=============================================================================
