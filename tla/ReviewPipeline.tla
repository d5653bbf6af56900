--------------------------- MODULE ReviewPipeline ---------------------------
(* One review, from the request to its draft: the change is read, the policy   *)
(* of its base decides under what it is reviewed, the model answers batch by   *)
(* batch and may look at the snapshot, its findings are sorted, comments and   *)
(* the draft are published and the run is filed.  A CI run ends in a verdict   *)
(* instead of a publication.  ReviewDesk takes all of this as one step.        *)
(*   src/agent/pipeline/*.go, src/agent/orchestrator/orchestrator.go,          *)
(*   src/agent/ci/runner.go                                                    *)
(*                                                                             *)
(* Left out: prompts, the wording of reports and traces; the durable ledger    *)
(* (BudgetLedger) behind a call, and the continuation of a batch by another    *)
(* worker (ModelJob).                                                          *)
EXTENDS RepositoryPolicy, FindingTriage, QualityGate, CorpusSelection, SkillSelection

CONSTANTS
  Scenarios,   \* the requests, changes, documents and answers to try
  Providers,   \* registered providers of a role: the primary and its fallbacks
  MaxRounds    \* review.MaxModelToolRounds

ASSUME PipelineAssumption == Providers \in Nat \ {0} /\ MaxRounds \in Nat

\* What a scenario may hold: changed files with patches, texts that a model may
\* answer with, reports that say something, a gate of a known strength, documents
\* of lines, finitely many texts that name finitely many things, and caps.
ASSUME ScenarioAssumption == \A s \in Scenarios :
  /\ s.files \in Seq({file \in Range(s.files) : IsPatch(file.patch)})
  /\ \A text \in s.answers \cup s.followUps \cup s.repairs : IsText(text)
  /\ \A report \in Range(s.reports) : report.status \in DOMAIN StatusRank \ {"none"}
  /\ s.doc # NONE => IsDocument(s.doc) /\ s.doc.gate.strength \in DOMAIN StrengthRank
  /\ IsLibrary(s.library) /\ s.limits.selected \in Nat /\ s.limits.supporting \in Nat
  /\ IsFiniteSet(s.texts)
  /\ \A t \in s.texts : IsFiniteSet(t.ids) /\ IsFiniteSet(t.routes) /\ IsFiniteSet(t.words)

VARIABLES
  sc,        \* the scenario
  pc,        \* what the pipeline does next
  adm,       \* the admission of the policy
  acts,      \* the skills activated for the review
  picked,    \* the sections of the repository's documents, best first
  evidence,  \* the evidence given to the model
  slots,     \* the batches: WAITING, LOST or the text of the answer
  tried,     \* providers that failed the call at hand
  called,    \* a model call was attempted
  round,     \* tool rounds so far
  looked,    \* the observations: [tool, status]
  result,    \* what the answers came to
  repaired,  \* a formatter rewrote the answer
  bucket,    \* what became of each finding
  inline,    \* finding -> the state of its comment
  run,       \* the run as listed, and what is filed with it
  verdict    \* the outcome of the quality gate

vars == <<sc, pc, adm, acts, picked, evidence, slots, tried, called, round, looked, result, repaired,
          bucket, inline, run, verdict>>
context == <<adm, acts, picked, evidence>>
talk == <<slots, tried, called, round, looked, result, repaired>>
outcome == <<bucket, inline, verdict>>

WAITING == <<[form |-> "waiting"]>>
LOST == <<[form |-> "lost"]>>
NoResult == [status |-> "skipped", findings |-> <<>>, coverage |-> Nothing, requests |-> <<>>]
CI == sc.mode = "frozen"
Allowed(capability) == AllowsCapability(sc.mode, adm, capability)

\* A CI run asks for its policy first and judges an untrusted fork unreviewed.
AdmissionOf(s) == Evaluate(s.mode, s.doc, s.change, s.request, s.runtime, s.methods)
BaseRefused == AdmissionOf(sc).eff = NONE

\* What is filed of a review: the activations, the coverage and the findings.
Files(a, cov, found) == [acts |-> a, coverage |-> cov, accepted |-> found]
Unfiled == Files({}, Nothing, {})

Init ==
  /\ sc \in {s \in Scenarios : Load(s.skills)}
  /\ pc = IF CI /\ (sc.fork \/ BaseRefused) THEN "gate" ELSE "start"
  /\ adm = Admission("ok", FALSE, FALSE, NONE) /\ acts = {}
  /\ picked = <<>> /\ evidence = {}
  /\ slots = <<>> /\ tried = 0 /\ called = FALSE /\ round = 0 /\ looked = {}
  /\ result = NoResult /\ repaired = FALSE
  /\ bucket = <<>> /\ inline = Nothing /\ verdict = "none"
  /\ run = [status |-> "none", filed |-> Unfiled]

At(where) == pc = where
Goto(where) == pc' = where

Accepted == AcceptedIn(bucket)

After == IF CI THEN "gate" ELSE "done"

\* Ends with the run failed, without and with what was gathered.
Update(status) == run' = [run EXCEPT !.status = status]
FailUnsaved == Goto(After) /\ Update("failed")
FailSaved(coverage) ==
  /\ Goto(After)
  /\ run' = [status |-> "failed", filed |-> Files(acts, coverage, {})]

(***************************************************************************)
(* Before the model.                                                        *)
(***************************************************************************)
StartRun ==
  /\ At("start") /\ Goto("enrich")
  /\ Update("running")
  /\ UNCHANGED <<sc, context, talk, outcome>>

Enrich ==
  /\ At("enrich")
  /\ \/ Goto("policy") /\ run' = run
     \/ FailUnsaved
  /\ UNCHANGED <<sc, context, talk, outcome>>

\* What the skills are chosen by: the request's own texts and the changed paths.
SkillRequest ==
  LET texts == {t \in sc.texts : t.place \in {"title", "path"}} IN
  [provider |-> sc.provider, terms |-> UNION {t.words : t \in texts}, code |-> \E t \in texts : t.code]
ActivatedSkills(a) == IF a.enforced THEN {} ELSE Select(sc.skills, SkillRequest, sc.profile)

\* What an enforced policy requires beyond its methods and rules is an activation
\* of its own.
MergeEffectivePolicyActivation(a, chosen) ==
  LET missing == a.eff.required \ UNION {s.checks : s \in chosen} IN
  IF ~a.enforced \/ missing = {} THEN chosen
  ELSE chosen \cup {[name |-> "effective-policy", category |-> "policy", required |-> TRUE,
                     checks |-> missing, surfaces |-> {}]}

\* The skills of the request, unless a policy is enforced, which names its own
\* methods and rules.
SelectPolicySkills(a) ==
  LET method(m) == [name |-> m, category |-> "policy", required |-> TRUE, checks |-> sc.methods[m],
                    surfaces |-> sc.surfaces]
      rule(r) == [name |-> r, category |-> "policy", required |-> TRUE,
                  checks |-> sc.doc.ruleChecks[r], surfaces |-> {}]
      chosen == IF ~a.enforced THEN SelectActivations(sc.skills, SkillRequest, sc.profile)
                ELSE {method(m) : m \in a.eff.methods} \cup {rule(r) : r \in a.eff.rules} IN
  MergeEffectivePolicyActivation(a, chosen)

\* Mutant of AdmitPolicy: a refused trigger is only noted.
AdmitPolicyAnyway ==
  At("policy") /\ \E a \in {AdmissionOf(sc)} :
  /\ adm' = a
  /\ IF a.outcome = "error"
       THEN FailSaved(Nothing) /\ acts' = acts
       ELSE Goto("context") /\ acts' = SelectPolicySkills(a) /\ run' = run
  /\ UNCHANGED <<sc, picked, evidence, talk, outcome>>

AdmitPolicy ==
  At("policy") /\ \E a \in {AdmissionOf(sc)} :
  /\ adm' = a
  /\ IF a.outcome = "error" THEN FailSaved(Nothing) /\ acts' = acts
     ELSE IF a.enforced /\ ~a.accepted
       THEN /\ acts' = acts
            /\ \/ FailUnsaved
               \/ /\ Goto(After)
                  /\ run' = [status |-> "ignored", filed |-> Unfiled]
     ELSE Goto("context") /\ acts' = SelectPolicySkills(a) /\ run' = run
  /\ UNCHANGED <<sc, picked, evidence, talk, outcome>>

Sections == CorpusSections(sc.library, sc.limits)
Signals == ExtractReviewSignals(sc.texts, UNION {s.topics : s \in ActivatedSkills(adm)})

\* The repository's documents are read anew for each review; reading may fail.
SelectCorpus ==
  /\ At("context")
  /\ \/ FailUnsaved /\ picked' = picked
     \/ \E all \in {Sections} : picked' \in SelectionsOf(all, Signals, sc.limits) /\ Goto("build") /\ run' = run
  /\ UNCHANGED <<sc, adm, acts, evidence, talk, outcome>>

CorpusEvidence == BuildEvidenceManifest(Sections, picked)
RuledBySelected == {[source |-> r, authority |-> "sot"] : r \in adm.eff.rules}
\* Mutant of TrustedEvidence: the head's version of a rule may be quoted.
EvidenceOfHead == IF ~adm.enforced THEN CorpusEvidence ELSE CorpusEvidence \cup RuledBySelected

\* Selected documents, without the head's version of a declared rule or method,
\* and the selected rules as the base states them.
TrustedEvidence ==
  IF ~adm.enforced THEN CorpusEvidence
  ELSE RuledBySelected \cup
       {e \in CorpusEvidence : e.source \notin DOMAIN sc.doc.ruleChecks \cup DeclaredMethods(sc.doc)}

\* A batch is full when the next file would not fit; one too large is alone.
ChunkDiff(files, maxTokens) ==
  LET tokens(i) == Len(files[i].patch)
      total[i \in 1..Len(files)] ==   \* of the batch of file i, up to file i
        IF i > 1 /\ total[i - 1] + tokens(i) <= maxTokens THEN total[i - 1] + tokens(i) ELSE tokens(i)
      starts == {i \in DOMAIN files : i = 1 \/ total[i - 1] + tokens(i) > maxTokens}
      start(b) == CHOOSE i \in starts : Cardinality({j \in starts : j < i}) = b - 1
      end(b) == IF b = Cardinality(starts) THEN Len(files) ELSE start(b + 1) - 1 IN
  [b \in 1..Cardinality(starts) |-> SubSeq(files, start(b), end(b))]

\* The memory, the filter and the reducer; any of them may fail.  No changed
\* file leaves nothing to ask, and a policy may deny the model.
BuildContext ==
  /\ At("build")
  /\ \/ FailUnsaved /\ UNCHANGED <<evidence, slots>>
     \/ /\ evidence' = TrustedEvidence
        /\ slots' = [b \in DOMAIN ChunkDiff(sc.files, sc.limits.batch) |-> WAITING]
        /\ IF sc.files = <<>> THEN Goto("check") /\ run' = run
           ELSE IF ~Allowed("model.review") THEN FailSaved(Nothing)
           ELSE Goto("ask") /\ run' = run
  /\ UNCHANGED <<sc, adm, acts, picked, tried, called, round, looked, result, repaired, outcome>>

(***************************************************************************)
(* The model is asked.  One call at a time walks the providers of the role; *)
(* batches asked in parallel get one provider each.                         *)
(***************************************************************************)
Waiting == {b \in DOMAIN slots : slots[b] = WAITING}
Asked(b) == /\ At("ask") /\ b \in Waiting
            /\ ~sc.parallel => \A c \in Waiting : b <= c

Answer(b, text) ==
  /\ Asked(b)
  /\ slots' = [slots EXCEPT ![b] = text] /\ tried' = 0 /\ called' = TRUE
  /\ UNCHANGED <<sc, pc, context, round, looked, result, repaired, outcome, run>>

\* A failed batch does not stop the others; they are all in before any counts.
LoseBatch(b) ==
  /\ Asked(b) /\ sc.parallel
  /\ slots' = [slots EXCEPT ![b] = LOST] /\ called' = TRUE
  /\ UNCHANGED <<sc, pc, context, tried, round, looked, result, repaired, outcome, run>>

\* A call that is no batch of many: one at a time, with fallbacks.
Calling ==
  \/ At("follow") \/ At("repair") \/ At("mend")
  \/ /\ At("ask") /\ ~sc.parallel /\ Waiting # {}

\* The next provider of the chain is tried.
FallBack ==
  /\ Calling /\ Allowed("model.review") /\ tried + 1 < Providers
  /\ tried' = tried + 1 /\ called' = TRUE
  /\ UNCHANGED <<sc, pc, context, slots, round, looked, result, repaired, outcome, run>>

\* The budget refuses, the deadline passes, or no provider is left.  What was
\* covered is kept once the answer was settled; a formatter that merely fails
\* leaves an unreadable answer unreadable and the coverage as it was.
CallEnds(terminal) ==
  /\ Calling /\ tried' = 0
  /\ ~terminal => tried + 1 = Providers \/ ~Allowed("model.review")
  /\ called' = IF terminal \/ ~Allowed("model.review") THEN called ELSE TRUE
  /\ CASE At("mend") /\ ~terminal -> Goto("place") /\ run' = run
       [] At("mend") /\ terminal -> FailSaved(result.coverage)
       [] At("repair") /\ ~terminal -> FailSaved(result.coverage)
       [] OTHER -> FailSaved(Nothing)
  /\ UNCHANGED <<sc, context, slots, round, looked, result, repaired, outcome>>

(***************************************************************************)
(* What the answers lead to.                                                *)
(***************************************************************************)
\* Mutant of Route: an answer that could not be read counts as no finding.
RouteOn(r, n) == IF r.requests # <<>> /\ n < MaxRounds THEN "observe" ELSE "check"

\* Mutant of Route: one round too many.
RouteLonger(r, n) ==
  IF r.requests # <<>> THEN IF n <= MaxRounds THEN "observe" ELSE "fail"
  ELSE IF r.status = "unparseable" THEN "repair"
  ELSE IF r.status \in Fatal THEN "fail"
  ELSE "check"

Route(r, n) ==
  IF r.requests # <<>> THEN IF n < MaxRounds THEN "observe" ELSE "fail"
  ELSE IF r.status = "unparseable" THEN "repair"
  ELSE IF r.status \in Fatal THEN "fail"
  ELSE "check"

Follow(r, n) ==
  IF Route(r, n) = "fail" THEN FailSaved(r.coverage)
  ELSE Goto(Route(r, n)) /\ run' = run

\* Mutant of GatherBatches: a lost batch is waited for.
GatherAnswered ==
  /\ At("ask") /\ Waiting = {} /\ ~\E b \in DOMAIN slots : slots[b] = LOST
  /\ \E r \in {ParseReviewResponses(slots)} : result' = r /\ Follow(r, 0)
  /\ UNCHANGED <<sc, context, slots, tried, called, round, looked, repaired, outcome>>

\* Every batch is in; one lost batch loses the review.
GatherBatches ==
  /\ At("ask") /\ Waiting = {}
  /\ IF \E b \in DOMAIN slots : slots[b] = LOST
       THEN FailSaved(Nothing) /\ result' = result
       ELSE \E r \in {ParseReviewResponses(slots)} : result' = r /\ Follow(r, 0)
  /\ UNCHANGED <<sc, context, slots, tried, called, round, looked, repaired, outcome>>

\* Where a tool looks; no other tool is known.
SnapshotToolSurface(tool) ==
  CASE tool \in {"get_merge_request", "get_changed_files", "list_discussions", "get_inline_positions"} -> "scm-api"
    [] tool = "get_diff_summary" -> "diff-analyzer"
    [] tool = "get_selected_context" -> "corpus-selector"
    [] OTHER -> "none"

\* How much a look finds; what has been gathered by now, it can read.
ExecuteReadOnlyReviewTool(tool) ==
  CASE tool \in {"get_changed_files", "get_diff_summary"} -> Len(sc.files)
    [] tool = "get_selected_context" -> Len(picked) + Cardinality(evidence \cup acts)
    [] tool = "get_inline_positions" -> Cardinality(UNION {AddedLines(f.patch) : f \in Range(sc.files)})
    [] OTHER -> 1

SnapshotToolResult(size) == IF size > sc.limits.shown THEN "truncated" ELSE "ok"

\* Mutant of ObserveSnapshotTool: the policy is not asked.
ObserveAnyway(request) ==
  IF ~request.ours \/ ~\E a \in acts : SnapshotToolSurface(request.tool) \in a.surfaces THEN "denied"
  ELSE SnapshotToolResult(ExecuteReadOnlyReviewTool(request.tool))

\* A look at the snapshot names no other run, and needs repo.read and a skill
\* that allows its surface.
ObserveSnapshotTool(request) ==
  IF \/ ~request.ours \/ ~Allowed("repo.read")
     \/ ~\E a \in acts : SnapshotToolSurface(request.tool) \in a.surfaces THEN "denied"
  ELSE SnapshotToolResult(ExecuteReadOnlyReviewTool(request.tool))

ExecuteToolRequests ==
  /\ At("observe") /\ Goto("follow")
  /\ round' = round + 1
  /\ looked' = looked \cup {[tool |-> r.tool, status |-> ObserveSnapshotTool(r)] : r \in Range(result.requests)}
  /\ UNCHANGED <<sc, context, slots, tried, called, result, repaired, outcome, run>>

FollowUpAnswer(text) ==
  /\ At("follow")
  /\ tried' = 0 /\ called' = TRUE
  /\ \E r \in {FollowUp(result, text)} : result' = r /\ Follow(r, round)
  /\ UNCHANGED <<sc, context, slots, round, looked, repaired, outcome>>

\* The formatter's rewriting counts only when it can be read and asks nothing.
RepairFindings(text) ==
  /\ At("repair")
  /\ tried' = 0 /\ called' = TRUE
  /\ \E r \in {Read(text)} :
       IF r.status \notin Fatal /\ r.requests = <<>>
         THEN /\ result' = [result EXCEPT !.status = r.status, !.findings = r.findings]
              /\ repaired' = TRUE /\ Goto("check") /\ run' = run
         ELSE FailSaved(result.coverage) /\ UNCHANGED <<result, repaired>>
  /\ UNCHANGED <<sc, context, slots, round, looked, outcome>>

CheckCoverage ==
  /\ At("check")
  /\ Goto(IF CoreSkillCoverageErrors(acts, result.coverage) = {} THEN "place" ELSE "mend")
  /\ UNCHANGED <<sc, context, talk, outcome, run>>

\* The formatter's coverage replaces the model's, if there is any in it.
RepairCoverage(text) ==
  /\ At("mend") /\ Allowed("model.review") /\ Goto("place")
  /\ tried' = 0 /\ called' = TRUE
  /\ \E coverage \in {ParseSkillCoverage(text)} :
       result' = IF coverage = Nothing THEN result ELSE [result EXCEPT !.coverage = coverage]
  /\ UNCHANGED <<sc, context, slots, round, looked, repaired, outcome, run>>

(***************************************************************************)
(* After the model.                                                         *)
(***************************************************************************)
\* What the run can vouch for itself: core skills, and the provider's own.
Synthesized(coverage) ==
  LET core == RequiredOf(acts, "core")
      provider == {a \in RequiredOf(acts, "provider-api") : a.name = ProviderSkills[sc.provider]}
      first == IF CoreSkillCoverageErrors(acts, coverage) = {} THEN coverage
               ELSE MergeSynthesized(core, {"runtime-evidence"}, coverage) IN
  IF ValidateSkillCoverage(acts, first) = {} THEN first ELSE MergeSynthesized(provider, {"scm-enrichment"}, first)

\* Findings are placed and sorted; from here on the run holds them.
PlaceFindings ==
  \E found \in {NormalizeFindingLocations(sc.files, result.findings)} :
  \E sorted \in {Validate(found, sc.files, evidence)}, coverage \in {Synthesized(result.coverage)} :
  /\ At("place")
  /\ result' = [result EXCEPT !.coverage = coverage, !.findings = found]
  /\ bucket' = sorted
  /\ IF sc.artifactOnly THEN inline' = Nothing /\ Goto("file")
     ELSE /\ inline' = [i \in AcceptedIn(sorted) |->
                          ResolveInlineDraftComment(sc.files, found[i], sc.refsKnown)]
          /\ Goto("comment")
  /\ UNCHANGED <<sc, context, slots, tried, called, round, looked, repaired, verdict, run>>

\* Comments go out one by one; one that fails is noted and the rest follow.
PublishInline(i, state) ==
  /\ At("comment") /\ i \in DOMAIN inline /\ inline[i] = "validated"
  /\ \A j \in DOMAIN inline : inline[j] = "validated" => i <= j
  /\ inline' = [inline EXCEPT ![i] = state]
  /\ UNCHANGED <<sc, pc, context, talk, bucket, verdict, run>>

Found == {NormalizeReviewFinding(result.findings[i], evidence) : i \in Accepted}
FailDrafted ==
  Goto("done") /\ run' = [status |-> "failed", filed |-> Files(acts, result.coverage, Found)]

PublishDraft ==
  /\ At("comment") /\ \A i \in DOMAIN inline : inline[i] # "validated"
  /\ \/ Goto("notify") /\ run' = run
     \/ FailDrafted
  /\ UNCHANGED <<sc, context, talk, outcome>>

NotifyDraft ==
  /\ At("notify")
  /\ \/ Goto("file") /\ run' = run
     \/ FailDrafted
  /\ UNCHANGED <<sc, context, talk, outcome>>

\* A disk error leaves the run as it is listed: running.
FileDraft ==
  /\ At("file") /\ Goto(After)
  /\ \/ run' = run
     \/ run' = [run EXCEPT !.filed = Files(acts, result.coverage, Found)]
     \/ run' = [status |-> "drafted", filed |-> Files(acts, result.coverage, Found)]
  /\ UNCHANGED <<sc, context, talk, outcome>>

(***************************************************************************)
(* The verdict of a CI run, on what was filed.  The change of an untrusted  *)
(* fork is not reviewed.                                                    *)
(***************************************************************************)
\* The reports of other CI jobs, [check, status, verified]: one that cannot be
\* verified against this snapshot and run is left out.
ImportQualityEvidence == {report \in Range(sc.reports) : report.verified}
Imported ==
  [check \in {report.check : report \in ImportQualityEvidence} |->
     (CHOOSE report \in ImportQualityEvidence : report.check = check).status]
Partial == sc.fork \/ ImportQualityEvidence # Range(sc.reports) \/ run.status # "drafted"

\* Two reports of one check are not weighed against each other.
ReportedTwice == \E i, j \in DOMAIN sc.reports :
  /\ i # j /\ sc.reports[i].check = sc.reports[j].check
  /\ sc.reports[i].verified /\ sc.reports[j].verified

\* The rule a finding breaks: the policy's rule it cites by its id, or what it
\* says itself.
GateRule(f, rules) ==
  LET cited == {c.source : c \in {d \in f.cites : d.named /\ d.quotes}} \cap rules IN
  IF cited # {} THEN CHOOSE r \in cited : TRUE ELSE IF f.cites # {} THEN "quoted" ELSE "finding"
\* The key of a finding is its id, which is UNSAID where the model left it out.
GateFindings(rules) == sc.signals \cup
  {[key |-> f.id, rule |-> GateRule(f, rules), severity |-> f.severity, strength |-> f.strength,
    changed |-> f.path \in Paths(sc.files)] : f \in run.filed.accepted}

\* The gate judges by the rules of the effective policy, not of the document.
EffectiveGate(eff) == LET gate == sc.doc.gate IN
  [rules |-> eff.gated, severity |-> gate.severity, strength |-> gate.strength, baseline |-> gate.baseline]
Verdict(eff) == EvaluateQualityGate(EffectiveGate(eff), eff.coverage, Imported, run.filed.acts,
                                    run.filed.coverage, GateFindings(eff.rules), Partial)

JudgeChange ==
  /\ At("gate") /\ Goto("done")
  /\ verdict' = IF BaseRefused \/ ReportedTwice THEN "error" ELSE Verdict(AdmissionOf(sc).eff)
  /\ UNCHANGED <<sc, context, talk, bucket, inline, run>>

Next ==
  \/ StartRun \/ Enrich \/ AdmitPolicy \/ SelectCorpus \/ BuildContext
  \/ \E b \in DOMAIN slots : LoseBatch(b)
  \/ \E b \in DOMAIN slots, text \in sc.answers : Answer(b, text)
  \/ FallBack
  \/ \E terminal \in BOOLEAN : CallEnds(terminal)
  \/ GatherBatches \/ ExecuteToolRequests
  \/ \E text \in sc.followUps : FollowUpAnswer(text)
  \/ \E text \in sc.repairs : RepairFindings(text)
  \/ \E text \in sc.repairs : RepairCoverage(text)
  \/ CheckCoverage \/ PlaceFindings
  \/ \E i \in DOMAIN inline, state \in {"published", "failed"} : PublishInline(i, state)
  \/ PublishDraft \/ NotifyDraft \/ FileDraft \/ JudgeChange

Spec == Init /\ [][Next]_vars
FairSpec == Spec /\ WF_vars(Next)

(***************************************************************************)
(* Properties.                                                              *)
(***************************************************************************)
\* The variables are of the shapes the code gives them.
TypeOK ==
  /\ pc \in {"start", "enrich", "policy", "context", "build", "ask", "observe", "follow", "repair",
             "check", "mend", "place", "comment", "notify", "file", "gate", "done"}
  /\ adm.outcome \in {"ok", "warned", "error"} /\ adm.enforced \in BOOLEAN
  /\ tried \in 0..(Providers - 1) /\ called \in BOOLEAN /\ round \in 0..MaxRounds
  /\ \A l \in looked : l.status \in {"denied", "ok", "truncated"}
  /\ result.status \in Statuses /\ repaired \in BOOLEAN
  /\ bucket \in [DOMAIN bucket -> Buckets] /\ DOMAIN bucket \subseteq DOMAIN result.findings
  /\ \A i \in DOMAIN inline : inline[i] \in {"skipped", "validated", "published", "failed"}
  /\ run.status \in {"none", "running", "failed", "ignored", "drafted"}
  /\ verdict \in {"none", "pass", "violations", "incomplete", "error"}

\* Whatever packs match a change, in whatever order they are applied and
\* whatever they inherit or are delegated: every check they and the gate ask for
\* is owed, and a method, a risk, an independent review or a stricter
\* publication is lost only to a pack applied later whose delegation names that
\* field (policy/compile.go, applyDelegatedReplacement).
Matched == {p \in DOMAIN sc.doc.packs : Selected(sc.doc, p, sc.change)}
TakesBack(p, field) ==
  LET d == sc.doc.packs[p].delegation IN d # NONE /\ field \in sc.doc.delegations[d].fields
AppliedAfter(p, q) ==
  \/ sc.doc.packs[p].priority < sc.doc.packs[q].priority
  \/ sc.doc.packs[p].priority = sc.doc.packs[q].priority /\ p > q
KeptUnless(kept, field, p) == kept \/ \E q \in Matched : AppliedAfter(q, p) /\ TakesBack(q, field)
ObligationsHold == adm.eff # NONE =>
  LET eff == adm.eff
      owed(q) == sc.doc.packs[q].checks \cup ChecksOf(sc.doc, sc.doc.packs[q].rules) IN
  /\ sc.doc.gate.coverage \cup ChecksOf(sc.doc, sc.doc.rules) \subseteq eff.coverage
  /\ eff.coverage \subseteq eff.required
  /\ \A m \in eff.methods : sc.methods[m] \subseteq eff.coverage
  /\ eff.allowed \subseteq sc.runtime \cap sc.doc.capabilities.allowed
  /\ \A p \in Matched : \A q \in Lineage(sc.doc, p) :
       /\ owed(q) \subseteq eff.coverage
       /\ sc.doc.packs[q].rules \subseteq eff.rules
       /\ KeptUnless(sc.doc.packs[q].methods \subseteq eff.methods, "methods", p)
       /\ KeptUnless(sc.doc.packs[q].risk <= eff.risk, "risk_floor", p)
       /\ KeptUnless(sc.doc.packs[q].independent => eff.independent, "independent_review", p)
       /\ KeptUnless(ModeRank[sc.doc.packs[q].publication.mode] <= ModeRank[eff.publication.mode],
                     "publication", p)

\* No model is asked about a change an enforced policy turns away or for which
\* it denies the model, and no snapshot is read that it denies or no activated
\* skill allows (review/context.go AllowsCapability, observeSnapshotTool).
CallsAreAllowed ==
  /\ called /\ sc.mode \in {"enforce", "frozen"} =>
       adm.accepted /\ adm.eff # NONE /\ "model.review" \in adm.eff.allowed
  /\ \A l \in looked : l.status # "denied" =>
       /\ sc.mode \in {"enforce", "frozen"} => "repo.read" \in adm.eff.allowed
       /\ \E a \in acts : SnapshotToolSurface(l.tool) \in a.surfaces

\* A review is drafted only when every batch of the change was answered in a
\* form that can be audited and the model had no request left, unless a
\* formatter rewrote the answer (parseReviewResponses, runReview).
IncompleteReviewsFail ==
  run.status = "drafted" /\ ~repaired /\ sc.files # <<>> =>
    /\ slots # <<>>
    /\ \A b \in DOMAIN slots : slots[b] \notin {WAITING, LOST} /\ Audited(slots[b])
    /\ result.requests = <<>> /\ result.status \notin Fatal

\* A plan to look is never dropped: a review that is drafted although an answer
\* to a batch asked for tools has looked (docs/accounting.md, "The model parser
\* rejects malformed or over-bound plans").
PlansAreKept ==
  run.status = "drafted" /\ ~repaired /\ (\E b \in DOMAIN slots : \E c \in Range(slots[b]) : c.requests # <<>>)
    => looked # {}

\* An accepted finding claims something of the change on firm authority, quotes
\* it where there is evidence - a rule only as the base states it - stands on a
\* line of the change, and is nobody's double (DefaultFindingValidator.Validate).
AcceptedIsGrounded == \A i \in Accepted :
  LET f == result.findings[i] IN
  /\ f.type = "finding" /\ f.severity \in Severities /\ f.sure /\ ~f.vague
  /\ \A j \in DOMAIN result.findings : j < i /\ f.id # UNSAID => result.findings[j].id # f.id
  /\ sc.files # <<>> => f.path \in Paths(sc.files)
  /\ f.line > 0
  /\ IF evidence = {} THEN f.authority \in Firm \cup {UNSAID}
     ELSE \E c \in f.cites : \E e \in evidence :
       /\ c.quotes /\ e.source = c.source /\ e.authority \in Firm
       /\ adm.enforced /\ e.source \in DOMAIN sc.doc.ruleChecks => e.source \in adm.eff.rules

\* The evidence is what the change is about: what it names is given unless better
\* sections or a cap keep it out, no other language's rules are, and a related
\* section comes with the one that brought it in (selectCorpus).
EvidenceIsRelevant == At("build") =>
  \E all \in {Sections}, signals \in {Signals} : IsRelevant(all, signals, sc.limits, picked)

\* A comment goes to a line the change adds, or into a new file, and only for an
\* accepted finding of a review that may publish (resolveInlineDraftComments).
OnAddedLine(f) ==
  /\ f.path \in Paths(sc.files)
  /\ \/ f.line \in AddedLines(FileAt(sc.files, f.path).patch)
     \/ FileAt(sc.files, f.path).status = "added"
CommentsOnAddedLines == \A i \in DOMAIN inline :
  inline[i] = "published" => OnAddedLine(result.findings[i])
InlineOnAddedLine ==
  /\ DOMAIN inline # {} => ~sc.artifactOnly /\ DOMAIN inline \subseteq Accepted
  /\ (\A k \in DOMAIN sc.files : Readable(sc.files[k].patch)) => CommentsOnAddedLines

\* A verdict of "pass" is earned: the change was reviewed to its draft, every
\* check the policy asks for was shown met by the answer of each batch or by a
\* verified report and violated by none, and an accepted finding that the model
\* named is as severe as the gate asks only where the gate names rules and it cites
\* by id none that the policy selected.  A finding that the model gave no id is not
\* looked at (evaluateResult, matchingViolations, citedPolicyRuleID, applyRule).
GateIsHonest == verdict = "pass" =>
  LET eff == adm.eff
      making(check) == {a \in acts : check \in a.checks}
      reports == {report \in Range(sc.reports) : report.verified} IN
  /\ run.status = "drafted" /\ reports = Range(sc.reports)
  /\ sc.doc.gate.baseline = "all"
  /\ \A check \in eff.coverage :
       /\ making(check) = {} => \E report \in reports : report.check = check /\ report.status = "satisfied"
       /\ \A report \in reports : report.check = check => report.status \in {"satisfied", "not_applicable"}
       /\ \A a \in making(check) : round = 0 /\ ~repaired =>
            /\ \A b \in DOMAIN slots : Covered(Answered(slots[b]).coverage, a.name)
            /\ \E b \in DOMAIN slots : check \in Answered(slots[b]).coverage[a.name].checks
  /\ \A i \in Accepted :
       LET f == result.findings[i] IN
       f.id # UNSAID /\ SeverityRank[f.severity] >= SeverityRank[sc.doc.gate.severity] =>
         sc.doc.gate.rules # {} /\ \A c \in f.cites : c.named /\ c.quotes => c.source \notin eff.rules

\* Every review comes to an end: no request, no refusal and no failure of a call
\* keeps it going.  A call returns or meets its deadline, so a review that can
\* go on does.
ReviewEnds == <>(pc = "done")
=============================================================================
