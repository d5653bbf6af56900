--------------------------- MODULE SkillSelection ---------------------------
(* Which skills of the review directory a change activates when no policy is   *)
(* enforced.                                                                   *)
(*   src/agent/skills/loader.go                                                *)
(*                                                                             *)
(* A skill file is [name, directory, described, instructs, terms, checks,      *)
(* tools, topics]: described and instructs tell whether it has a description   *)
(* and a body, terms are the words of its name, description, headings and      *)
(* lists, topics the kinds of document its name makes relevant.  A request is  *)
(* [provider, terms, code], a profile [always, providers, least].              *)
EXTENDS Integers, FiniteSets

ProviderSkills == [github |-> "github-merge-api", gitlab |-> "gitlab-merge-api"]
CoreSkills ==
  {"methodology-review", "project-knowledge", "framework-rules-review", "traceability-review",
   "review-publisher", "laws-guards-review", "security-review", "hil-gate-review"}
ProviderAPIs == {ProviderSkills[p] : p \in DOMAIN ProviderSkills}

\* Every file of the directory must be sound, or the program does not start.
Load(files) == \A f \in files : f.described /\ f.instructs /\ f.directory = f.name

\* What a skill is by its name alone, whatever the profile says of it.
SkillCategory(name) ==
  CASE name \in ProviderAPIs -> "provider-api"
    [] name \in CoreSkills -> "core"
    [] name \in {"project-wiki", "process-knowledge-review"} -> "knowledge"
    [] OTHER -> "triggered"

\* A core or provider skill that declares no checks has built-in ones; one
\* check of its name stands for them.
SkillRequiredChecks(s) ==
  IF s.checks = {} /\ s.name \in CoreSkills \cup ProviderAPIs THEN {s.name} ELSE s.checks

Score(s, request) ==
  Cardinality(s.terms \cap request.terms)
  + IF s.name # "test-quality-review" \/ ~request.code THEN 0 ELSE IF request.terms = {} THEN 2 ELSE 1

\* The skill of a provider goes with the changes of that provider and no other;
\* an empty field of the profile stands for the default.
ActivatedBy(s, request, profile) ==
  LET providers == IF DOMAIN profile.providers = {} THEN ProviderSkills ELSE profile.providers
      always == IF profile.always = {} THEN CoreSkills ELSE profile.always
      least == IF profile.least = 0 THEN 2 ELSE profile.least
      ofProviders == {p \in DOMAIN providers : providers[p] = s.name} IN
  IF ofProviders # {} THEN request.provider \in ofProviders
  ELSE s.name \in always \/ Score(s, request) >= least

Activation(s) ==
  [name |-> s.name, category |-> SkillCategory(s.name), checks |-> SkillRequiredChecks(s), surfaces |-> s.tools,
   required |-> SkillCategory(s.name) \in {"core", "provider-api"}]

Select(skills, request, profile) == {s \in skills : ActivatedBy(s, request, profile)}
SelectActivations(skills, request, profile) == {Activation(s) : s \in Select(skills, request, profile)}
=============================================================================
