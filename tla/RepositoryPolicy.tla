-------------------------- MODULE RepositoryPolicy --------------------------
(* The policy a repository keeps at the base revision of a change, and what    *)
(* it comes to for that change: matched packs add methods, checks, rules and   *)
(* restrictions to the defaults, highest priority first, and a delegated pack  *)
(* may first take back some of what was there.                                 *)
(*   src/agent/policy/{compile,inheritance,rules,validate,source,triggers}.go  *)
(*   src/agent/pipeline/{trusted_policy,frozen_policy,policy_methods}.go       *)
(*                                                                             *)
(* A glob is a name; a change touches a set of globs, as it has a branch, an   *)
(* author and labels.  Packs are numbered in the order of their names, risks   *)
(* from 0 (none) to 4 (critical).  Left out: digests, explanations, the limits *)
(* of the budget (BudgetLedger), the sizes of documents.                       *)
EXTENDS Integers, Sequences, FiniteSets, SequencesExt, FiniteSetsExt

CONSTANTS NONE, PROJECT   \* no value; the scope of the whole repository

Classes == {"assessment", "comment", "check", "annotation", "code_quality"}
ModeRank == [inherit |-> 0, setup_grant |-> 1, human_authorized |-> 2, none |-> 3]
Larger(m, n) == IF m > n THEN m ELSE n

\* The strictest mode, and only the artifacts that all of them allow.
Strictest(publications) ==
  [mode    |-> CHOOSE m \in {a.mode : a \in publications} :
                 \A a \in publications : ModeRank[a.mode] <= ModeRank[m],
   manual  |-> \E a \in publications : a.manual,
   classes |-> {c \in Classes : \A a \in publications : c \in a.classes}]
RestrictivePublication(current, next) == Strictest({current, next})

(***************************************************************************)
(* Documents: what the compiler refuses, and inheritance.                   *)
(***************************************************************************)
\* What a document may say of its publication, and its packs of their place,
\* their risk, an independent review and their publication.
IsDocument(doc) ==
  /\ doc.defaults.publication \in DOMAIN ModeRank \ {"inherit"}
  /\ doc.packs \in Seq(Range(doc.packs))
  /\ \A p \in DOMAIN doc.packs :
       /\ doc.packs[p].priority \in Int /\ doc.packs[p].risk \in 0..4
       /\ doc.packs[p].independent \in BOOLEAN
       /\ doc.packs[p].publication.mode \in DOMAIN ModeRank

\* Pack p and the declared packs above it: its parents, theirs, and so on.
Lineage(doc, p) ==
  LET packs == DOMAIN doc.packs
      up[n \in 0..Cardinality(packs)] ==
        IF n = 0 THEN {p}
        ELSE UNION {{q} \cup (IF q \in packs THEN doc.packs[q].inherits ELSE {}) : q \in up[n - 1]}
  IN {p} \cup {q \in packs : q \in up[Cardinality(packs)]}

\* Every parent is a declared pack, and no pack is above itself.
InheritanceIsSound(doc) == \A p \in DOMAIN doc.packs :
  /\ doc.packs[p].inherits \subseteq DOMAIN doc.packs
  /\ \A q \in doc.packs[p].inherits : p \notin Lineage(doc, q)

\* Mutant of ExpandPacks: parents of parents are forgotten.
ParentsOnly(doc, p) ==
  LET above == {p} \cup doc.packs[p].inherits
      own == doc.packs[p] IN
  [own EXCEPT !.methods = UNION {doc.packs[q].methods : q \in above},
              !.checks = UNION {doc.packs[q].checks : q \in above},
              !.rules = UNION {doc.packs[q].rules : q \in above}]

\* The obligations of a pack and of its lineage; selection, priority and
\* delegation stay its own.
ExpandPack(doc, p) ==
  LET above == {doc.packs[q] : q \in Lineage(doc, p)} IN
  [methods     |-> UNION {a.methods : a \in above},
   checks      |-> UNION {a.checks : a \in above},
   rules       |-> UNION {a.rules : a \in above},
   risk        |-> Max({a.risk : a \in above}),
   independent |-> \E a \in above : a.independent,
   publication |-> Strictest({a.publication : a \in above})]

\* A path may be handed on by the project or by a scope that lists it.
DelegationScopeContained(grantor, target) ==
  \/ grantor = PROJECT
  \/ target = grantor
  \/ target # PROJECT /\ \E glob \in grantor : target = {glob}

\* A delegation stays within its grantor and says what may be replaced.
ValidDelegation(d) ==
  /\ DelegationScopeContained(d.grantor, d.target)
  /\ d.replaces # {} \/ d.fields # {}

\* A pack asks for something, and what it may replace is declared.
ValidPack(doc, pack) ==
  /\ pack.methods # {} \/ pack.checks # {} \/ pack.risk > 0 \/ pack.inherits # {} \/ pack.rules # {}
  /\ pack.delegation \in DOMAIN doc.delegations \cup {NONE}

\* A gate that blocks asks for coverage, and never for its own verdict.
ValidQualityGate(gate) ==
  /\ gate.mode = "blocking" => gate.coverage # {}
  /\ gate.context \notin gate.coverage

Valid(doc) ==
  /\ doc.defaults.methods # {}
  /\ doc.capabilities.required \subseteq doc.capabilities.allowed
  /\ \A d \in DOMAIN doc.delegations : ValidDelegation(doc.delegations[d])
  /\ \A p \in DOMAIN doc.packs : ValidPack(doc, doc.packs[p])
  /\ InheritanceIsSound(doc)
  /\ ValidQualityGate(doc.gate)
  /\ \A rule \in doc.rules \cup UNION {doc.packs[p].rules : p \in DOMAIN doc.packs} :
       rule \in DOMAIN doc.ruleChecks

(***************************************************************************)
(* Selection: every declared family of a match must meet the change.        *)
(***************************************************************************)
PackMatches(match, change) == \A family \in DOMAIN match : match[family] \cap change[family] # {}
ScopeMatches(scope, change) == scope = PROJECT \/ scope \cap change.paths # {}
Selected(doc, p, change) ==
  /\ PackMatches(doc.packs[p].match, change)
  /\ doc.packs[p].delegation # NONE =>
       ScopeMatches(doc.delegations[doc.packs[p].delegation].target, change)

\* Highest priority first, names break ties.
Precedes(doc, p, q) ==
  \/ doc.packs[p].priority > doc.packs[q].priority
  \/ doc.packs[p].priority = doc.packs[q].priority /\ p < q
PackOrder(doc) == [i \in 1..Cardinality(DOMAIN doc.packs) |->
  CHOOSE p \in DOMAIN doc.packs : Cardinality({q \in DOMAIN doc.packs : Precedes(doc, q, p)}) = i - 1]

(***************************************************************************)
(* Compilation: the effective policy, or nothing when a document is refused.*)
(***************************************************************************)
ChecksOf(doc, rules) == UNION {doc.ruleChecks[rule] : rule \in rules}

\* Mutant of Widened: a gate keeps to the rules that it names itself.
WidenedNever(doc, gated, rules) == gated
\* A gate that names rules judges by the selected ones too; one that names none
\* judges by all.
Widened(doc, gated, rules) == IF doc.gate.rules = {} THEN gated ELSE gated \cup rules

Start(doc, runtime) ==
  [methods     |-> doc.defaults.methods,
   required    |-> doc.defaults.checks \cup doc.gate.coverage \cup ChecksOf(doc, doc.rules),
   coverage    |-> doc.gate.coverage \cup ChecksOf(doc, doc.rules),
   risk        |-> 0,
   independent |-> FALSE,
   publication |-> [mode |-> doc.defaults.publication, manual |-> FALSE, classes |-> Classes],
   allowed     |-> doc.capabilities.allowed \cap runtime,
   rules       |-> doc.rules,
   gated       |-> Widened(doc, doc.gate.rules, doc.rules),
   packs       |-> {}]

\* Whether delegation d lets the pack replace what it replaces.
DelegationAllows(d, pack) ==
  /\ ~d.expired
  /\ d.methods # {} => pack.methods \subseteq d.methods
  /\ d.checks # {} => pack.checks \subseteq d.checks
  /\ "risk_floor" \in d.fields => pack.risk <= d.maxRisk

\* Mutant of ApplyDelegatedReplacement: the fields are not asked.
ReplaceAnyField(eff, pack, d) ==
  [eff EXCEPT !.methods = @ \ d.replaces, !.required = @ \ d.replaces, !.risk = pack.risk,
              !.independent = pack.independent,
              !.publication = IF pack.publication.mode = "inherit" THEN @ ELSE pack.publication]

\* What the delegation takes back before the pack adds its own.
ApplyDelegatedReplacement(eff, pack, d) ==
  [eff EXCEPT
     !.methods = IF "methods" \in d.fields THEN @ \ d.replaces ELSE @,
     !.required = IF "checks" \in d.fields THEN @ \ d.replaces ELSE @,
     !.risk = IF "risk_floor" \in d.fields THEN pack.risk ELSE @,
     !.independent = IF "independent_review" \in d.fields THEN pack.independent ELSE @,
     !.publication = IF "publication" \in d.fields /\ pack.publication.mode # "inherit"
                       THEN pack.publication ELSE @]

\* A pack only adds; its checks and those of its rules are gate coverage too, and
\* its rules are among those a gate judges by.
AddPack(doc, eff, p, pack) ==
  LET checks == pack.checks \cup ChecksOf(doc, pack.rules) IN
  [eff EXCEPT !.methods = @ \cup pack.methods,
              !.required = @ \cup checks,
              !.coverage = @ \cup checks,
              !.risk = Larger(@, pack.risk),
              !.independent = @ \/ pack.independent,
              !.publication = RestrictivePublication(@, pack.publication),
              !.rules = @ \cup pack.rules,
              !.gated = Widened(doc, @, pack.rules),
              !.packs = @ \cup {p}]

\* effs holds the policy so far, or nothing once a delegation was refused.
ApplyPack(doc, change, effs, p) ==
  LET delegation == doc.packs[p].delegation
      d == doc.delegations[delegation]
      refused(pack) == ~ScopeMatches(d.grantor, change) \/ ~DelegationAllows(d, pack) IN
  IF ~Selected(doc, p, change) THEN effs
  ELSE IF delegation = NONE
    THEN {AddPack(doc, eff, p, pack) : eff \in effs, pack \in {ExpandPack(doc, p)}}
  ELSE UNION {{AddPack(doc, e, p, pack) : e \in {ApplyDelegatedReplacement(eff, pack, d) : eff \in effs}} :
              pack \in {q \in {ExpandPack(doc, p)} : ~refused(q)}}

ApplyPacks(doc, change, runtime) ==
  LET order == PackOrder(doc)
      effs[i \in 0..Cardinality(DOMAIN doc.packs)] ==
        IF i = 0 THEN {Start(doc, runtime)} ELSE ApplyPack(doc, change, effs[i - 1], order[i])
  IN effs[Cardinality(DOMAIN doc.packs)]

\* doc.fits: the document names this repository and its limits stay within the
\* operator's ceilings, in the same currency and periods.
Acceptable(doc, runtime) == Valid(doc) /\ doc.fits /\ doc.capabilities.required \subseteq runtime

\* Mutant of Compile: gate coverage is not put back into the required checks.
CompileLosing(doc, change, runtime) ==
  IF Acceptable(doc, runtime) THEN ApplyPacks(doc, change, runtime) ELSE {}

Compile(doc, change, runtime) ==
  IF ~Acceptable(doc, runtime) THEN {}
  ELSE {[eff EXCEPT !.required = @ \cup eff.coverage] : eff \in ApplyPacks(doc, change, runtime)}

\* Every declared method must be readable at the base, selected or not; the
\* checks of the selected ones become required.
DeclaredMethods(doc) == doc.defaults.methods \cup UNION {doc.packs[p].methods : p \in DOMAIN doc.packs}
MethodChecks(eff, checksOf) == UNION {checksOf[m] : m \in eff.methods}
ResolvePolicyMethods(doc, eff, checksOf) ==
  [eff EXCEPT !.required = @ \cup MethodChecks(eff, checksOf),
              !.coverage = @ \cup MethodChecks(eff, checksOf)]

(***************************************************************************)
(* Admission: may an automatic request start a review, and under what.      *)
(***************************************************************************)
EvaluateTrigger(t, change, request) ==
  /\ t.enabled
  /\ request.update => t.updates
  /\ request.draft => t.drafts
  /\ \A family \in DOMAIN t.exclude : t.exclude[family] \cap change[family] = {}
  /\ \A family \in DOMAIN t.include :
       t.include[family] # {} => t.include[family] \cap change[family] # {}

Admission(outcome, enforced, accepted, eff) ==
  [outcome |-> outcome, enforced |-> enforced, accepted |-> accepted, eff |-> eff]

\* The policy of the base revision, if it is there, can be read and compiles.
BasePolicy(doc, change, runtime, checksOf) ==
  IF doc = NONE \/ ~DeclaredMethods(doc) \subseteq DOMAIN checksOf THEN {}
  ELSE {ResolvePolicyMethods(doc, eff, checksOf) : eff \in Compile(doc, change, runtime)}

\* A preview never alters admission; only an enforced policy can fail a review.
\* A CI run ("frozen") was asked for and skips the trigger.
Evaluate(mode, doc, change, request, runtime, checksOf) ==
  LET effs == BasePolicy(doc, change, runtime, checksOf)
      chosen == \/ mode = "frozen" \/ request.manual
                \/ EvaluateTrigger(doc.triggers, change, request) IN
  IF mode = "legacy" THEN Admission("ok", FALSE, TRUE, NONE)
  ELSE IF effs = {}
    THEN IF mode = "preview" THEN Admission("warned", FALSE, TRUE, NONE)
         ELSE Admission("error", TRUE, FALSE, NONE)
  ELSE Admission("ok", mode # "preview", chosen, CHOOSE eff \in effs : TRUE)

\* A capability outside an enforced policy is not limited.
AllowsCapability(mode, adm, capability) ==
  \/ ~adm.enforced /\ mode \notin {"enforce", "frozen"}
  \/ adm.eff # NONE /\ capability \in adm.eff.allowed
=============================================================================
