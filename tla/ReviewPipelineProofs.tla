------------------------- MODULE ReviewPipelineProofs -------------------------
(* Proofs about a review: what its model is asked, what counts as an answer,   *)
(* which findings stand, where comments go and what a verdict of "pass" means. *)
EXTENDS ReviewPipeline, ReviewPartsProofs

(***************************************************************************)
(* The batches of a change, and what is covered without the model.          *)
(***************************************************************************)
LEMMA ChunksCounted ==
  ASSUME NEW files, AreFiles(files), NEW maxTokens
  PROVE  \E k \in Nat : DOMAIN ChunkDiff(files, maxTokens) = 1..k /\ (k = 0 <=> files = <<>>)
<1> DEFINE tokens(i) == Len(files[i].patch)
           total[i \in 1..Len(files)] ==
             IF i > 1 /\ total[i - 1] + tokens(i) <= maxTokens THEN total[i - 1] + tokens(i) ELSE tokens(i)
           starts == {i \in DOMAIN files : i = 1 \/ total[i - 1] + tokens(i) > maxTokens}
           k == Cardinality(starts)
<1>1. DOMAIN ChunkDiff(files, maxTokens) = 1..k BY DEF ChunkDiff
<1> HIDE DEF total
<1>2. Len(files) \in Nat /\ DOMAIN files = 1..Len(files) /\ (Len(files) = 0 <=> files = <<>>)
  <2> DEFINE F == {file \in Range(files) : IsPatch(file.patch)}
  <2>1. files \in Seq(F) BY DEF AreFiles
  <2> HIDE DEF F
  <2> QED BY <2>1
<1>3. starts \subseteq 1..Len(files) BY <1>2
<1>4. Len(files) # 0 => 1 \in starts BY <1>2
<1>5. Len(files) = 0 => starts = {} BY <1>3
<1> HIDE DEF starts
<1>6. IsFiniteSet(starts)
  <2>1. IsFiniteSet(1..Len(files)) BY <1>2, FS_Interval
  <2> QED BY <1>3, <2>1, FS_Subset
<1>7. k \in Nat /\ (k = 0 <=> starts = {}) BY <1>6, FS_CardinalityType, FS_EmptySet
<1> HIDE DEF k
<1> QED BY <1>1, <1>2, <1>4, <1>5, <1>7

LEMMA PolicyNeedsNoCore ==
  ASSUME NEW activations, \A a \in activations : a.category = "policy", NEW coverage
  PROVE  /\ CoreSkillCoverageErrors(activations, coverage) = {}
         /\ RequiredOf(activations, "core") = {} /\ RequiredOf(activations, "provider-api") = {}
BY DEF CoreSkillCoverageErrors, RequiredOf

LEMMA NothingMerged ==
  ASSUME NEW checks, NEW coverage, NEW name
  PROVE  CoverageOf(MergeSynthesized({}, checks, coverage), name) = CoverageOf(coverage, name)
BY DEF MergeSynthesized, CoverageOf

LEMMA NothingSynthesized ==
  ASSUME \A a \in acts : a.category = "policy", NEW coverage, NEW name
  PROVE  CoverageOf(Synthesized(coverage), name) = CoverageOf(coverage, name)
<1> DEFINE provider == {a \in RequiredOf(acts, "provider-api") : a.name = ProviderSkills[sc.provider]}
<1>1. CoreSkillCoverageErrors(acts, coverage) = {} /\ provider = {} BY PolicyNeedsNoCore
<1>2. Synthesized(coverage) = IF ValidateSkillCoverage(acts, coverage) = {} THEN coverage
                              ELSE MergeSynthesized({}, {"scm-enrichment"}, coverage)
  BY <1>1 DEF Synthesized
<1> QED BY <1>2, NothingMerged

\* Reports that are not weighed against each other say one thing of a check.
LEMMA ImportedOf ==
  ASSUME ~ReportedTwice
  PROVE  /\ \A report \in ImportQualityEvidence : report.check \in DOMAIN Imported /\ Imported[report.check] = report.status
         /\ \A check \in DOMAIN Imported : \E report \in ImportQualityEvidence : report.check = check
<1>1. \A r, s \in ImportQualityEvidence : r.check = s.check => r = s
  BY DEF ImportQualityEvidence, ReportedTwice, Range
<1>2. DOMAIN Imported = {report.check : report \in ImportQualityEvidence} BY DEF Imported
<1>3. ASSUME NEW report \in ImportQualityEvidence PROVE Imported[report.check] = report.status
  <2> DEFINE chosen == CHOOSE r \in ImportQualityEvidence : r.check = report.check
  <2>1. chosen \in ImportQualityEvidence /\ chosen.check = report.check OBVIOUS
  <2>2. chosen = report BY <1>1, <2>1
  <2>3. Imported[report.check] = chosen.status BY <1>2 DEF Imported
  <2> QED BY <2>2, <2>3
<1> QED BY <1>2, <1>3

(***************************************************************************)
(* The invariant.                                                           *)
(***************************************************************************)
Unasked == {"start", "enrich", "policy", "context", "build"}
Conversing == {"ask", "observe", "follow", "repair"}
Settling == {"check", "mend", "place"}
Drafting == {"comment", "notify", "file"}
Drafted == run.status = "drafted"

\* Nothing was asked, seen or written yet.
Untouched ==
  /\ evidence = {} /\ slots = <<>> /\ tried = 0 /\ ~called /\ round = 0 /\ looked = {}
  /\ result = NoResult /\ ~repaired /\ bucket = <<>> /\ inline = Nothing
Beginning == pc \in Unasked => Untouched

\* A review goes on under an admission that accepted it; under an enforced
\* policy it has no activation but the policy's own.
Admitted ==
  /\ adm = AdmissionOf(sc) /\ adm.outcome # "error"
  /\ adm.enforced => adm.accepted /\ \A a \in acts : a.category = "policy"
UnderAdmission ==
  (pc \notin {"start", "enrich", "policy", "gate", "done"} \/ called \/ looked # {} \/ Drafted) => Admitted

\* Whoever asks may ask, and whoever looked might look.
Permitted ==
  /\ pc \in Conversing \/ called => Allowed("model.review")
  /\ \A l \in looked : l.status # "denied" =>
       Allowed("repo.read") /\ \E a \in acts : SnapshotToolSurface(l.tool) \in a.surfaces

\* The batches of the change and the texts that answer them.
Batches ==
  /\ slots \in Seq({WAITING, LOST} \cup sc.answers)
  /\ pc \in Conversing => sc.files # <<>>
  /\ pc \notin Unasked \cup {"gate", "done"} /\ sc.files # <<>> => slots # <<>>
  /\ pc \notin Unasked \cup Conversing \cup {"gate", "done"} \/ Drafted => (sc.files = <<>> => slots = <<>>)

\* Once a review has gone past its questions, every batch was answered.
AllAnswered ==
  /\ slots # <<>>
  /\ \A b \in DOMAIN slots : slots[b] \notin {WAITING, LOST} /\ Audited(slots[b])
Answering ==
  /\ (pc \in {"observe", "follow"} \cup Settling \cup Drafting \/ Drafted) /\ ~repaired /\ sc.files # <<>> => AllAnswered
  /\ (pc \in Settling \cup Drafting \/ Drafted) /\ ~repaired => result.requests = <<>> /\ result.status \notin Fatal
Rounds ==
  /\ pc = "observe" => round < MaxRounds
  /\ pc = "ask" => round = 0
  /\ pc = "follow" => round > 0

\* What was found can be sorted, and was.
Reading == AreFindings(result.findings)
Sorting ==
  /\ pc \in Conversing \cup Settling => bucket = <<>> /\ inline = Nothing
  /\ pc \in Drafting \/ Drafted \/ bucket # <<>> => bucket = Validate(result.findings, sc.files, evidence)

\* Comments stand where they may.
Placing ==
  /\ DOMAIN inline # {} => ~sc.artifactOnly /\ DOMAIN inline \subseteq Accepted
  /\ \A i \in DOMAIN inline : inline[i] # "skipped" =>
       FindingLineAddressable(sc.files, result.findings[i].path, result.findings[i].line)

\* The head has no say in what a declared rule is.
Basing ==
  adm.enforced => \A e \in evidence : e.source \in DOMAIN sc.doc.ruleChecks => e.source \in adm.eff.rules

\* What a CI run knows of a skill is what the batches said of it.
CoverageKept ==
  CI => /\ pc # "mend"
        /\ (pc \in {"check", "place"} \cup Drafting \/ Drafted) /\ round = 0 /\ ~repaired =>
             \A a \in acts : CoverageOf(result.coverage, a.name) =
               CoverageOf(IF sc.files = <<>> THEN Nothing
                          ELSE CombineBatchCoverage([b \in DOMAIN slots |-> Read(slots[b])], slots), a.name)

\* What is filed of a draft is what it came to, and the verdict is the last word.
Filing ==
  /\ pc \in Conversing \cup Settling \cup Drafting \cup Unasked => ~Drafted
  /\ Drafted => run.filed = Files(acts, result.coverage, Found)
Judging == (verdict # "none" => pc = "done") /\ (pc = "gate" => CI)

\* The run and the result are records.
Shapes == DOMAIN run = {"status", "filed"} /\ DOMAIN result = {"status", "findings", "coverage", "requests"}

PipelineInv ==
  /\ sc \in Scenarios /\ TypeOK /\ Shapes /\ Beginning /\ UnderAdmission /\ Permitted /\ Batches /\ Answering /\ Rounds
  /\ Reading /\ Sorting /\ Placing /\ Basing /\ CoverageKept /\ Filing /\ Judging /\ GateIsHonest

(***************************************************************************)
(* Under which admission a review goes on.                                  *)
(***************************************************************************)
LEMMA AdmissionKnown ==
  ASSUME NEW s, NEW a, a = AdmissionOf(s)
  PROVE  /\ a.outcome \in {"ok", "warned", "error"} /\ a.enforced \in BOOLEAN
         /\ s.mode \in {"enforce", "frozen"} /\ a.outcome # "error" => a.enforced /\ s.doc # NONE
<1> DEFINE effs == BasePolicy(s.doc, s.change, s.runtime, s.methods)
           chosen == \/ s.mode = "frozen" \/ s.request.manual
                     \/ EvaluateTrigger(s.doc.triggers, s.change, s.request)
<1>1. a = IF s.mode = "legacy" THEN Admission("ok", FALSE, TRUE, NONE)
          ELSE IF effs = {}
            THEN IF s.mode = "preview" THEN Admission("warned", FALSE, TRUE, NONE)
                 ELSE Admission("error", TRUE, FALSE, NONE)
          ELSE Admission("ok", s.mode # "preview", chosen, CHOOSE eff \in effs : TRUE)
  BY DEF AdmissionOf, Evaluate
<1>2. s.doc = NONE => effs = {} BY DEF BasePolicy
<1> HIDE DEF effs, chosen
<1>3. CASE s.mode = "legacy" BY <1>1, <1>3 DEF Admission
<1>4. CASE s.mode # "legacy" /\ effs = {} BY <1>1, <1>4 DEF Admission
<1>5. CASE s.mode # "legacy" /\ effs # {}
  <2>1. a = Admission("ok", s.mode # "preview", chosen, CHOOSE eff \in effs : TRUE) BY <1>1, <1>5
  <2>2. a.outcome = "ok" /\ a.enforced = (s.mode # "preview") BY <2>1 DEF Admission
  <2>3. s.doc # NONE BY <1>2, <1>5
  <2> QED BY <2>2, <2>3
<1> QED BY <1>3, <1>4, <1>5

LEMMA PolicySkills ==
  ASSUME NEW a, a.enforced, NEW s \in SelectPolicySkills(a)
  PROVE  s.category = "policy"
BY DEF SelectPolicySkills, MergeEffectivePolicyActivation

(***************************************************************************)
(* Every step keeps the invariant.                                          *)
(***************************************************************************)
LEMMA InitHolds == Init => PipelineInv
<1> SUFFICES ASSUME Init PROVE PipelineInv OBVIOUS
<1>1. sc \in Scenarios /\ Shapes /\ Untouched BY DEF Init, Shapes, NoResult, Untouched
<1>2. TypeOK
  <2>1. adm.outcome = "ok" /\ adm.enforced = FALSE BY DEF Init, Admission
  <2>2. tried \in 0..(Providers - 1) /\ round \in 0..MaxRounds BY PipelineAssumption DEF Init
  <2>3. result.status \in Statuses BY DEF Init, NoResult, Statuses
  <2>4. bucket \in [DOMAIN bucket -> Buckets] /\ DOMAIN bucket = {} /\ DOMAIN inline = {} BY DEF Init, Nothing
  <2> QED BY <2>1, <2>2, <2>3, <2>4 DEF Init, TypeOK
<1>3. Beginning BY <1>1 DEF Beginning
<1>4. UnderAdmission /\ Permitted
  BY DEF Init, UnderAdmission, Permitted, Drafted, Conversing
<1>5. Batches BY DEF Init, Batches, Unasked, Conversing, Drafted
<1>6. Answering BY DEF Init, Answering, Settling, Drafting, Drafted
<1>7. Rounds BY DEF Init, Rounds
<1>8. Reading BY DEF Init, Reading, NoResult, AreFindings
<1>9. Sorting /\ Placing
  BY DEF Init, Sorting, Placing, Drafting, Drafted, Nothing
<1>10. Basing /\ CoverageKept /\ Filing /\ Judging /\ GateIsHonest
  BY DEF Init, Basing, CoverageKept, CI, Drafting, Drafted, Filing, Judging, GateIsHonest
<1> QED BY <1>1, <1>2, <1>3, <1>4, <1>5, <1>6, <1>7, <1>8, <1>9, <1>10 DEF PipelineInv

LEMMA StartRunKeeps == PipelineInv /\ StartRun => PipelineInv'
<1> SUFFICES ASSUME PipelineInv, StartRun PROVE PipelineInv' OBVIOUS
<1> USE DEF PipelineInv, StartRun, context, talk, outcome, At, Goto, Update
<1>1. sc' \in Scenarios /\ Shapes' BY DEF Shapes
<1>2. TypeOK' BY DEF TypeOK, Shapes
<1>3. Beginning' BY DEF Beginning, Untouched, Unasked
<1>4. UnderAdmission' BY DEF UnderAdmission, Beginning, Untouched, Unasked, Drafted, Shapes
<1>5. Permitted' BY DEF Permitted, Beginning, Untouched, Unasked, Conversing
<1>6. Batches' BY DEF Batches, Unasked, Conversing, Drafted, Shapes
<1>7. Answering' BY DEF Answering, Settling, Drafting, Drafted, Shapes
<1>8. Rounds' BY DEF Rounds
<1>9. Reading' BY DEF Reading
<1>10. Sorting' BY DEF Sorting, Conversing, Settling, Drafting, Drafted, Shapes, Beginning, Untouched, Unasked
<1>11. Placing' BY DEF Placing, Accepted
<1>12. Basing' BY DEF Basing
<1>13. CoverageKept' BY DEF CoverageKept, CI, Drafting, Drafted, Shapes
<1>14. Filing' BY DEF Filing, Drafted, Shapes
<1>15. Judging' /\ GateIsHonest' BY DEF Judging, CI, GateIsHonest
<1> QED BY <1>1, <1>2, <1>3, <1>4, <1>5, <1>6, <1>7, <1>8, <1>9, <1>10, <1>11, <1>12, <1>13, <1>14, <1>15

\* A review that ends without a draft: only the run and the last call change.
LEMMA EndingKeeps ==
  ASSUME PipelineInv, pc \notin {"gate", "done"}, ~Drafted,
         pc' \in {"gate", "done"}, pc' = "gate" => CI, run'.status \in {"failed", "ignored"}, DOMAIN run' = {"status", "filed"},
         UNCHANGED <<sc, context, slots, round, looked, repaired, outcome>>,
         tried' \in 0..(Providers - 1), called' \in BOOLEAN, called' => called \/ Allowed("model.review"),
         called' => called \/ pc \notin {"start", "enrich", "policy"},
         DOMAIN result' = {"status", "findings", "coverage", "requests"},
         result'.status \in Statuses, AreFindings(result'.findings),
         result'.findings = result.findings \/ pc \in Conversing
  PROVE  PipelineInv'
<1> USE DEF PipelineInv, context, outcome
<1>1. sc' \in Scenarios /\ Shapes' /\ Reading' BY DEF Shapes, Reading
<1>2. verdict' = "none" /\ Judging' /\ GateIsHonest' BY DEF Judging, CI, GateIsHonest
<1>3. pc \in Conversing => bucket = <<>> /\ DOMAIN inline = {} BY DEF Sorting, Nothing
<1>4. TypeOK'
  <2>1. DOMAIN bucket' \subseteq DOMAIN result'.findings BY <1>3 DEF TypeOK
  <2> QED BY <1>2, <2>1 DEF TypeOK
<1>5. ~Drafted' BY DEF Drafted
<1>6. UnderAdmission' /\ Permitted' BY <1>5 DEF UnderAdmission, Permitted, Admitted, Allowed, Conversing
<1>7. Beginning' /\ Batches' /\ Answering' /\ Rounds'
  BY <1>5 DEF Beginning, Batches, Answering, Rounds, Unasked, Conversing, Settling, Drafting
<1>8. Sorting'
  <2>1. bucket # <<>> => result'.findings = result.findings BY <1>3
  <2> QED BY <1>5, <2>1 DEF Sorting, Conversing, Settling, Drafting
<1>9. Placing' BY <1>3 DEF Placing, Accepted
<1>10. Basing' BY DEF Basing
<1>11. CoverageKept' /\ Filing' BY <1>5 DEF CoverageKept, CI, Filing, Conversing, Settling, Drafting, Unasked
<1> QED BY <1>1, <1>2, <1>4, <1>6, <1>7, <1>8, <1>9, <1>10, <1>11

LEMMA EnrichKeeps == PipelineInv /\ Enrich => PipelineInv'
<1> SUFFICES ASSUME PipelineInv, Enrich PROVE PipelineInv' OBVIOUS
<1> USE DEF PipelineInv, Enrich, context, talk, outcome, At, Goto
<1>1. CASE FailUnsaved
  <2>1. pc' \in {"gate", "done"} /\ (pc' = "gate" => CI) /\ run'.status = "failed" /\ DOMAIN run' = {"status", "filed"}
    BY <1>1 DEF FailUnsaved, After, Update, Shapes
  <2>2. ~Drafted BY DEF Filing, Unasked
  <2> QED BY <1>1, <2>1, <2>2, EndingKeeps DEF TypeOK, Shapes, Reading, Conversing
<1>2. CASE pc' = "policy" /\ run' = run
  <2> USE <1>2
  <2>1. sc' \in Scenarios /\ TypeOK' /\ Shapes' BY DEF TypeOK, Shapes
  <2>2. Beginning' BY DEF Beginning, Untouched, Unasked
  <2>3. UnderAdmission' BY DEF UnderAdmission, Admitted, Drafted
  <2>4. Permitted' BY DEF Permitted, Allowed, Conversing
  <2>5. Batches' /\ Answering' /\ Rounds'
    BY DEF Batches, Answering, Rounds, Unasked, Conversing, Settling, Drafting, Drafted, AllAnswered
  <2>6. Reading' /\ Sorting' /\ Placing'
    BY DEF Reading, Sorting, Placing, Accepted, Conversing, Settling, Drafting, Drafted
  <2>7. Basing' /\ CoverageKept' BY DEF Basing, CoverageKept, CI, Drafting, Drafted
  <2>8. Filing' /\ Judging' /\ GateIsHonest'
    BY DEF Filing, Judging, CI, GateIsHonest, Conversing, Settling, Drafting, Unasked, Drafted
  <2> QED BY <2>1, <2>2, <2>3, <2>4, <2>5, <2>6, <2>7, <2>8
<1> QED BY <1>1, <1>2

LEMMA AdmitPolicyKeeps == PipelineInv /\ AdmitPolicy => PipelineInv'
<1> SUFFICES ASSUME PipelineInv, AdmitPolicy PROVE PipelineInv' OBVIOUS
<1> USE DEF PipelineInv, context, talk, outcome, At, Goto
<1> DEFINE a == AdmissionOf(sc)
<1>0. /\ pc = "policy" /\ adm' = a
      /\ UNCHANGED <<sc, picked, evidence, talk, outcome>>
      /\ \/ /\ a.outcome # "error" /\ (a.enforced => a.accepted)
            /\ pc' = "context" /\ acts' = SelectPolicySkills(a) /\ run' = run
         \/ /\ pc' \in {"gate", "done"} /\ (pc' = "gate" => CI) /\ run'.status \in {"failed", "ignored"}
            /\ DOMAIN run' = {"status", "filed"}
  BY DEF AdmitPolicy, FailSaved, FailUnsaved, Update, After, Shapes
<1>1. a.outcome \in {"ok", "warned", "error"} /\ a.enforced \in BOOLEAN BY AdmissionKnown
<1>2. ASSUME a.enforced, NEW s \in SelectPolicySkills(a) PROVE s.category = "policy"
  BY <1>2, PolicySkills
<1>3. Untouched /\ ~Drafted /\ verdict = "none"
  BY <1>0 DEF Beginning, Filing, Unasked, Judging, CI
<1> HIDE DEF a
<1>4. sc' \in Scenarios /\ TypeOK' /\ Shapes' BY <1>0, <1>1 DEF TypeOK, Shapes
<1>5. ~Drafted' BY <1>0, <1>3 DEF Drafted
<1>6. Beginning' BY <1>0, <1>3 DEF Beginning, Untouched
<1>7. UnderAdmission'
  <2>1. pc' = "context" => Admitted' BY <1>0, <1>1, <1>2 DEF Admitted, a
  <2> QED BY <1>0, <1>3, <1>5, <2>1 DEF UnderAdmission, Untouched
<1>8. Permitted' BY <1>0, <1>3 DEF Permitted, Conversing, Untouched
<1>9. Batches' /\ Answering' /\ Rounds'
  BY <1>0, <1>3, <1>5 DEF Batches, Answering, Rounds, Unasked, Conversing, Settling, Drafting, Untouched
<1>10. Reading' /\ Sorting' /\ Placing'
  BY <1>0, <1>3, <1>5 DEF Reading, Sorting, Placing, Accepted, Conversing, Settling, Drafting, Untouched, Nothing
<1>11. Basing' /\ CoverageKept'
  BY <1>0, <1>3, <1>5 DEF Basing, CoverageKept, CI, Drafting, Untouched
<1>12. Filing' /\ Judging' /\ GateIsHonest'
  BY <1>0, <1>3, <1>5 DEF Filing, Judging, CI, GateIsHonest
<1> QED BY <1>4, <1>6, <1>7, <1>8, <1>9, <1>10, <1>11, <1>12

LEMMA SelectCorpusKeeps == PipelineInv /\ SelectCorpus => PipelineInv'
<1> SUFFICES ASSUME PipelineInv, SelectCorpus PROVE PipelineInv' OBVIOUS
<1> USE DEF PipelineInv, context, talk, outcome
<1>0. /\ pc = "context"
      /\ UNCHANGED <<sc, adm, acts, evidence, talk, outcome>>
      /\ \/ picked' = picked /\ FailUnsaved
         \/ pc' = "build" /\ run' = run
  BY DEF SelectCorpus, At, Goto
<1>1. CASE FailUnsaved /\ picked' = picked
  <2>1. pc' \in {"gate", "done"} /\ (pc' = "gate" => CI) /\ run'.status = "failed" /\ DOMAIN run' = {"status", "filed"}
    BY <1>1 DEF FailUnsaved, After, Goto, Update, Shapes
  <2>2. ~Drafted BY <1>0 DEF Filing, Unasked
  <2> QED BY <1>0, <1>1, <2>1, <2>2, EndingKeeps DEF TypeOK, Shapes, Reading, Conversing
<1>2. CASE pc' = "build" /\ run' = run
  <2> USE <1>0, <1>2
  <2>1. sc' \in Scenarios /\ TypeOK' /\ Shapes' BY DEF TypeOK, Shapes
  <2>2. Beginning' BY DEF Beginning, Untouched, Unasked
  <2>3. UnderAdmission' BY DEF UnderAdmission, Admitted, Drafted
  <2>4. Permitted' BY DEF Permitted, Allowed, Conversing
  <2>5. Batches' /\ Answering' /\ Rounds'
    BY DEF Batches, Answering, Rounds, Unasked, Conversing, Settling, Drafting, Drafted, AllAnswered
  <2>6. Reading' /\ Sorting' /\ Placing'
    BY DEF Reading, Sorting, Placing, Accepted, Conversing, Settling, Drafting, Drafted
  <2>7. Basing' /\ CoverageKept' BY DEF Basing, CoverageKept, CI, Drafting, Drafted
  <2>8. Filing' /\ Judging' /\ GateIsHonest'
    BY DEF Filing, Judging, CI, GateIsHonest, Conversing, Settling, Drafting, Unasked, Drafted
  <2> QED BY <2>1, <2>2, <2>3, <2>4, <2>5, <2>6, <2>7, <2>8
<1> QED BY <1>0, <1>1, <1>2

\* The evidence follows the base, and every batch is still to be answered.
LEMMA BuildContextKeeps == PipelineInv /\ BuildContext => PipelineInv'
<1> SUFFICES ASSUME PipelineInv, BuildContext PROVE PipelineInv' OBVIOUS
<1> USE DEF PipelineInv, context, talk, outcome
<1>0. /\ pc = "build" /\ Untouched /\ ~Drafted /\ verdict = "none" /\ Admitted
      /\ UNCHANGED <<sc, adm, acts, picked, tried, called, round, looked, result, repaired, outcome>>
  BY DEF BuildContext, At, Beginning, Filing, Judging, CI, UnderAdmission, Unasked
<1>1. CASE FailUnsaved /\ UNCHANGED <<evidence, slots>>
  <2>1. pc' \in {"gate", "done"} /\ (pc' = "gate" => CI) /\ run'.status = "failed" /\ DOMAIN run' = {"status", "filed"}
    BY <1>1 DEF FailUnsaved, After, Goto, Update, Shapes
  <2> QED BY <1>0, <1>1, <2>1, EndingKeeps DEF TypeOK, Shapes, Reading, Conversing
<1>2. CASE /\ evidence' = TrustedEvidence
           /\ slots' = [b \in DOMAIN ChunkDiff(sc.files, sc.limits.batch) |-> WAITING]
           /\ IF sc.files = <<>> THEN Goto("check") /\ run' = run
              ELSE IF ~Allowed("model.review") THEN FailSaved(Nothing)
              ELSE Goto("ask") /\ run' = run
  <2>1. /\ DOMAIN run' = {"status", "filed"} /\ (run' = run \/ run'.status = "failed")
        /\ \/ pc' = "check" /\ sc.files = <<>>
           \/ pc' = "ask" /\ sc.files # <<>> /\ Allowed("model.review")
           \/ pc' \in {"gate", "done"} /\ (pc' = "gate" => CI)
    BY <1>2 DEF FailSaved, After, Goto, Shapes
  <2>2. AreFiles(sc.files) BY ScenarioAssumption DEF AreFiles
  <2>3. PICK k \in Nat : /\ DOMAIN ChunkDiff(sc.files, sc.limits.batch) = 1..k
                         /\ (k = 0 <=> sc.files = <<>>)
    BY <2>2, ChunksCounted
  <2>4. slots' = [b \in 1..k |-> WAITING] BY <1>2, <2>3
  <2>5. ~Drafted' BY <1>0, <2>1 DEF Drafted
  <2>6. Basing' BY <1>0, <1>2 DEF Basing, TrustedEvidence, RuledBySelected
  <2> USE <1>0, <2>1, <2>5
  <2>7. sc' \in Scenarios /\ TypeOK' /\ Shapes' BY DEF TypeOK, Shapes
  <2>8. Beginning' BY DEF Beginning, Unasked
  <2>9. UnderAdmission' BY DEF UnderAdmission, Admitted
  <2>10. Permitted' BY DEF Permitted, Allowed, Conversing, Untouched
  <2>11. Batches'
    <3>1. slots' \in Seq({WAITING, LOST} \cup sc.answers) BY <2>4
    <3>2. sc.files = <<>> <=> slots' = <<>> BY <2>3, <2>4
    <3> QED BY <3>1, <3>2 DEF Batches, Conversing
  <2>12. Answering' /\ Rounds'
    BY DEF Answering, Rounds, Settling, Drafting, Untouched, NoResult, Fatal
  <2>13. Reading' /\ Sorting' /\ Placing'
    BY DEF Reading, Sorting, Placing, Accepted, Conversing, Settling, Drafting, Untouched, Nothing
  <2>14. CoverageKept'
    BY DEF CoverageKept, CI, Drafting, Untouched, NoResult
  <2>15. Filing' /\ Judging' /\ GateIsHonest' BY DEF Filing, Judging, CI, GateIsHonest
  <2> QED BY <2>6, <2>7, <2>8, <2>9, <2>10, <2>11, <2>12, <2>13, <2>14, <2>15
<1> QED BY <1>1, <1>2 DEF BuildContext

\* A batch is answered or lost.
LEMMA BatchKeeps ==
  ASSUME PipelineInv, NEW b \in DOMAIN slots, NEW text \in {LOST} \cup sc.answers,
         pc = "ask", slots' = [slots EXCEPT ![b] = text], tried' \in {0, tried}, called' = TRUE,
         UNCHANGED <<sc, pc, context, round, looked, result, repaired, outcome, run>>
  PROVE  PipelineInv'
<1> USE DEF PipelineInv, context, outcome
<1>1. sc' \in Scenarios /\ TypeOK' /\ Shapes' BY PipelineAssumption DEF TypeOK, Shapes
<1>2. Beginning' BY DEF Beginning, Unasked
<1>3. Admitted BY DEF UnderAdmission
<1>4. UnderAdmission' BY <1>3 DEF UnderAdmission, Admitted
<1>5. Permitted' BY DEF Permitted, Allowed, Conversing
<1>6. Batches'
  <2> DEFINE S == {WAITING, LOST} \cup sc.answers
  <2>1. slots \in Seq(S) /\ text \in S BY DEF Batches
  <2>2. slots' \in Seq(S) /\ slots' # <<>>
    <3> HIDE DEF S
    <3> QED BY <2>1
  <2> QED BY <2>2 DEF Batches, Conversing, Drafted, Filing
<1>7. Answering' /\ Rounds' BY DEF Answering, Rounds, Settling, Drafting, Drafted, Filing, Conversing
<1>8. Reading' /\ Sorting' /\ Placing'
  BY DEF Reading, Sorting, Placing, Accepted, Conversing, Drafting, Drafted, Filing
<1>9. Basing' /\ CoverageKept' BY DEF Basing, CoverageKept, CI, Drafting, Drafted, Filing, Conversing
<1>10. Filing' /\ Judging' /\ GateIsHonest' BY DEF Filing, Judging, CI, GateIsHonest, Conversing, Drafted
<1> QED BY <1>1, <1>2, <1>4, <1>5, <1>6, <1>7, <1>8, <1>9, <1>10

LEMMA AnswerKeeps == \A b \in DOMAIN slots, text \in sc.answers : PipelineInv /\ Answer(b, text) => PipelineInv'
BY BatchKeeps DEF Answer, Asked, At

LEMMA LoseBatchKeeps == \A b \in DOMAIN slots : PipelineInv /\ LoseBatch(b) => PipelineInv'
BY BatchKeeps DEF LoseBatch, Asked, At

\* Where the model may be asked, a call is made or not made.
LEMMA FallBackKeeps == PipelineInv /\ FallBack => PipelineInv'
<1> SUFFICES ASSUME PipelineInv, FallBack PROVE PipelineInv' OBVIOUS
<1> USE DEF PipelineInv, context, outcome
<1>0. /\ pc \in {"ask", "follow", "repair", "mend"} /\ Allowed("model.review")
      /\ tried + 1 < Providers /\ tried' = tried + 1 /\ called' = TRUE
      /\ UNCHANGED <<sc, pc, context, slots, round, looked, result, repaired, outcome, run>>
  BY DEF FallBack, Calling, At
<1> USE <1>0
<1>1. sc' \in Scenarios /\ TypeOK' /\ Shapes' BY PipelineAssumption DEF TypeOK, Shapes
<1>2. Beginning' BY DEF Beginning, Unasked
<1>3. Admitted BY DEF UnderAdmission
<1>4. UnderAdmission' BY <1>3 DEF UnderAdmission, Admitted
<1>5. Permitted' BY DEF Permitted, Allowed, Conversing
<1>6. Batches' /\ Answering' /\ Rounds'
  BY DEF Batches, Answering, Rounds, AllAnswered, Unasked, Conversing, Settling, Drafting, Drafted
<1>7. Reading' /\ Sorting' /\ Placing'
  BY DEF Reading, Sorting, Placing, Accepted, Conversing, Settling, Drafting, Drafted
<1>8. Basing' /\ CoverageKept' BY DEF Basing, CoverageKept, CI, Drafting, Drafted
<1>9. Filing' /\ Judging' /\ GateIsHonest'
  BY DEF Filing, Judging, CI, GateIsHonest, Conversing, Settling, Drafting, Unasked, Drafted
<1> QED BY <1>1, <1>2, <1>4, <1>5, <1>6, <1>7, <1>8, <1>9

LEMMA CallEndsKeeps == \A terminal \in BOOLEAN : PipelineInv /\ CallEnds(terminal) => PipelineInv'
<1> SUFFICES ASSUME PipelineInv, NEW terminal \in BOOLEAN, CallEnds(terminal) PROVE PipelineInv' OBVIOUS
<1> USE DEF PipelineInv, context, outcome
<1>0. /\ pc \in {"ask", "follow", "repair", "mend"} /\ tried' = 0
      /\ called' = IF terminal \/ ~Allowed("model.review") THEN called ELSE TRUE
      /\ UNCHANGED <<sc, context, slots, round, looked, result, repaired, outcome>>
      /\ \/ pc = "mend" /\ pc' = "place" /\ run' = run
         \/ pc' \in {"gate", "done"} /\ (pc' = "gate" => CI) /\ run'.status = "failed" /\ DOMAIN run' = {"status", "filed"}
  BY DEF CallEnds, Calling, At, Goto, FailSaved, After
<1>1. called' \in BOOLEAN /\ (called' => called \/ Allowed("model.review"))
  BY <1>0 DEF TypeOK
<1>2. ~Drafted /\ tried' \in 0..(Providers - 1)
  BY <1>0, PipelineAssumption DEF Filing, Conversing, Settling
<1>3. CASE pc' \in {"gate", "done"} /\ (pc' = "gate" => CI) /\ run'.status = "failed" /\ DOMAIN run' = {"status", "filed"}
  BY <1>0, <1>1, <1>2, <1>3, EndingKeeps DEF TypeOK, Shapes, Reading
<1>4. CASE pc = "mend" /\ pc' = "place" /\ run' = run
  <2> USE <1>0, <1>1, <1>2, <1>4
  <2>1. sc' \in Scenarios /\ TypeOK' /\ Shapes' BY DEF TypeOK, Shapes
  <2>2. Beginning' BY DEF Beginning, Unasked
  <2>3. Admitted BY DEF UnderAdmission
  <2>4. UnderAdmission' BY <2>3 DEF UnderAdmission, Admitted
  <2>5. Permitted' BY DEF Permitted, Allowed, Conversing
  <2>6. Batches' /\ Answering' /\ Rounds'
    BY DEF Batches, Answering, Rounds, AllAnswered, Unasked, Conversing, Settling, Drafting, Drafted
  <2>7. Reading' /\ Sorting' /\ Placing'
    BY DEF Reading, Sorting, Placing, Accepted, Conversing, Settling, Drafting, Drafted
  <2>8. Basing' /\ CoverageKept' BY DEF Basing, CoverageKept, CI, Drafting, Drafted
  <2>9. Filing' /\ Judging' /\ GateIsHonest'
    BY DEF Filing, Judging, CI, GateIsHonest, Conversing, Settling, Drafting, Unasked, Drafted
  <2> QED BY <2>1, <2>2, <2>4, <2>5, <2>6, <2>7, <2>8, <2>9
<1> QED BY <1>0, <1>3, <1>4

\* Where an answer leads.
LEMMA Routed ==
  ASSUME NEW r, NEW n
  PROVE  /\ Route(r, n) \in {"observe", "fail", "repair", "check"}
         /\ Route(r, n) = "observe" => r.requests # <<>> /\ n < MaxRounds
         /\ Route(r, n) = "check" => r.requests = <<>> /\ r.status \notin Fatal
BY DEF Route

LEMMA GatherBatchesKeeps == PipelineInv /\ GatherBatches => PipelineInv'
<1> SUFFICES ASSUME PipelineInv, GatherBatches PROVE PipelineInv' OBVIOUS
<1> USE DEF PipelineInv, context, outcome
<1>0. /\ pc = "ask" /\ Waiting = {} /\ round = 0 /\ sc.files # <<>> /\ ~Drafted /\ verdict = "none"
      /\ Allowed("model.review") /\ Admitted /\ bucket = <<>> /\ inline = Nothing
      /\ UNCHANGED <<sc, context, slots, tried, called, round, looked, repaired, outcome>>
  BY DEF GatherBatches, At, Rounds, Batches, Filing, Conversing, Judging, CI, Permitted, UnderAdmission, Sorting
<1> DEFINE S == {WAITING, LOST} \cup sc.answers
<1>1. slots \in Seq(S) /\ slots # <<>> BY <1>0 DEF Batches, Unasked
<1> DEFINE n == Len(slots)
<1>2. n \in Nat \ {0} /\ DOMAIN slots = 1..n /\ slots = [b \in 1..n |-> slots[b]] /\ \A b \in 1..n : slots[b] \in S
  <2> HIDE DEF S
  <2> QED BY <1>1
<1>3. CASE FailSaved(Nothing) /\ result' = result
  <2>1. pc' \in {"gate", "done"} /\ (pc' = "gate" => CI) /\ run'.status = "failed" /\ DOMAIN run' = {"status", "filed"}
    BY <1>3 DEF FailSaved, After, Goto
  <2> QED BY <1>0, <1>3, <2>1, EndingKeeps DEF TypeOK, Shapes, Reading
<1>4. CASE /\ ~\E b \in DOMAIN slots : slots[b] = LOST
           /\ \E r \in {ParseReviewResponses(slots)} : result' = r /\ Follow(r, 0)
  <2> DEFINE r == ParseReviewResponses(slots)
  <2>1. result' = r /\ Follow(r, 0) BY <1>4
  <2>2. \A b \in 1..n : slots[b] \notin {WAITING, LOST} BY <1>0, <1>2, <1>4 DEF Waiting
  <2>3. \A b \in 1..n : IsText(slots[b])
    <3>1. \A text \in sc.answers : IsText(text) BY ScenarioAssumption
    <3> QED BY <1>2, <2>2, <3>1
  <2>4. DOMAIN r = {"status", "findings", "coverage", "requests"} BY DEF ParseReviewResponses
  <2>5. /\ r.status \in Statuses
        /\ r.status \notin Fatal \/ r.requests # <<>> => \A b \in 1..n : Audited(slots[b])
        /\ r.coverage = CombineBatchCoverage([b \in DOMAIN slots |-> Read(slots[b])], slots)
    <3> HIDE DEF n
    <3> QED BY <1>2, BatchesRead
  <2>6. AreFindings(r.findings)
    <3> HIDE DEF n
    <3> QED BY <1>2, <2>3, BatchesFound
  <2> HIDE DEF r
  <2>7. CASE Route(r, 0) = "fail"
    <3>1. pc' \in {"gate", "done"} /\ (pc' = "gate" => CI) /\ run'.status = "failed" /\ DOMAIN run' = {"status", "filed"}
      BY <2>1, <2>7 DEF Follow, FailSaved, After, Goto
    <3> QED BY <1>0, <2>1, <2>4, <2>5, <2>6, <3>1, EndingKeeps DEF TypeOK, Conversing
  <2>8. CASE Route(r, 0) # "fail"
    <3>1. /\ pc' = Route(r, 0) /\ run' = run /\ pc' \in {"observe", "repair", "check"}
          /\ pc' = "observe" => r.requests # <<>> /\ 0 < MaxRounds
          /\ pc' = "check" => r.requests = <<>> /\ r.status \notin Fatal
      BY <2>1, <2>8, Routed DEF Follow, Goto
    <3> HIDE DEF n
    <3> USE <1>0, <2>1, <3>1
    <3>2. sc' \in Scenarios /\ Shapes' /\ Reading' BY <2>4, <2>6 DEF Shapes, Reading
    <3>3. TypeOK' BY <2>5 DEF TypeOK, Nothing
    <3>4. Beginning' /\ UnderAdmission' BY DEF Beginning, Unasked, UnderAdmission, Admitted
    <3>5. Permitted' BY DEF Permitted, Allowed
    <3>6. Batches' BY <1>1 DEF Batches, Drafted
    <3>7. Answering'
      <4>1. pc' \in {"observe", "check"} => AllAnswered
        BY <1>1, <1>2, <2>2, <2>5 DEF AllAnswered
      <4> QED BY <4>1 DEF Answering, AllAnswered, Settling, Drafting, Drafted
    <3>8. Rounds' BY DEF Rounds
    <3>9. Sorting' /\ Placing' BY DEF Sorting, Placing, Nothing, Drafting, Drafted
    <3>10. Basing' BY DEF Basing
    <3>11. CoverageKept' BY <2>5 DEF CoverageKept, CI
    <3>12. Filing' /\ Judging' /\ GateIsHonest' BY DEF Filing, Drafted, Judging, CI, GateIsHonest
    <3> QED BY <3>2, <3>3, <3>4, <3>5, <3>6, <3>7, <3>8, <3>9, <3>10, <3>11, <3>12
  <2> QED BY <2>7, <2>8
<1> QED BY <1>3, <1>4 DEF GatherBatches

LEMMA ExecuteToolRequestsKeeps == PipelineInv /\ ExecuteToolRequests => PipelineInv'
<1> SUFFICES ASSUME PipelineInv, ExecuteToolRequests PROVE PipelineInv' OBVIOUS
<1> USE DEF PipelineInv, context, outcome
<1>0. /\ pc = "observe" /\ pc' = "follow" /\ round < MaxRounds /\ round \in 0..MaxRounds /\ round' = round + 1
      /\ ~Drafted /\ Allowed("model.review") /\ Admitted
      /\ UNCHANGED <<sc, context, slots, tried, called, result, repaired, outcome, run>>
  BY DEF ExecuteToolRequests, At, Goto, Rounds, TypeOK, Filing, Conversing, Permitted, UnderAdmission
<1>1. looked' = looked \cup {[tool |-> q.tool, status |-> ObserveSnapshotTool(q)] : q \in Range(result.requests)}
  BY DEF ExecuteToolRequests
<1>2. \A q : /\ ObserveSnapshotTool(q) \in {"denied", "ok", "truncated"}
             /\ ObserveSnapshotTool(q) # "denied" =>
                  Allowed("repo.read") /\ \E a \in acts : SnapshotToolSurface(q.tool) \in a.surfaces
  BY DEF ObserveSnapshotTool, SnapshotToolResult
<1>3. ASSUME NEW l \in looked'
      PROVE  /\ l.status \in {"denied", "ok", "truncated"}
             /\ l.status # "denied" => Allowed("repo.read") /\ \E a \in acts : SnapshotToolSurface(l.tool) \in a.surfaces
  <2>1. CASE l \in looked BY <2>1 DEF TypeOK, Permitted
  <2>2. CASE l \notin looked
    <3>1. PICK q \in Range(result.requests) : l = [tool |-> q.tool, status |-> ObserveSnapshotTool(q)] BY <1>1, <2>2
    <3>2. l.tool = q.tool /\ l.status = ObserveSnapshotTool(q) BY <3>1
    <3> QED BY <1>2, <3>2
  <2> QED BY <2>1, <2>2
<1> USE <1>0
<1>4. sc' \in Scenarios /\ TypeOK' /\ Shapes' BY <1>3, PipelineAssumption DEF TypeOK, Shapes
<1>5. Beginning' /\ UnderAdmission' BY DEF Beginning, Unasked, UnderAdmission, Admitted
<1>6. Permitted'
  <2>1. Allowed("model.review")' /\ (Allowed("repo.read") => Allowed("repo.read")') BY DEF Allowed
  <2>2. acts' = acts BY DEF context
  <2> QED BY <1>3, <2>1, <2>2 DEF Permitted
<1>7. Batches' /\ Answering' /\ Rounds'
  BY PipelineAssumption DEF Batches, Answering, Rounds, AllAnswered, Unasked, Conversing, Settling, Drafting, Drafted
<1>8. Reading' /\ Sorting' /\ Placing'
  BY DEF Reading, Sorting, Placing, Accepted, Conversing, Settling, Drafting, Drafted
<1>9. Basing' /\ CoverageKept' BY DEF Basing, CoverageKept, CI, Drafting, Drafted
<1>10. Filing' /\ Judging' /\ GateIsHonest'
  BY DEF Filing, Judging, CI, GateIsHonest, Conversing, Settling, Drafting, Unasked, Drafted
<1> QED BY <1>4, <1>5, <1>6, <1>7, <1>8, <1>9, <1>10

LEMMA FollowUpAnswerKeeps == \A text \in sc.followUps : PipelineInv /\ FollowUpAnswer(text) => PipelineInv'
<1> SUFFICES ASSUME PipelineInv, NEW text \in sc.followUps, FollowUpAnswer(text) PROVE PipelineInv' OBVIOUS
<1> USE DEF PipelineInv, context, outcome
<1> DEFINE r == FollowUp(result, text)
<1>0. /\ pc = "follow" /\ round > 0 /\ ~Drafted /\ verdict = "none" /\ tried' = 0 /\ called' = TRUE
      /\ Allowed("model.review") /\ Admitted /\ bucket = <<>> /\ inline = Nothing
      /\ result' = r /\ Follow(r, round)
      /\ UNCHANGED <<sc, context, slots, round, looked, repaired, outcome>>
  BY DEF FollowUpAnswer, At, Rounds, Filing, Conversing, Judging, CI, Permitted, UnderAdmission, Sorting
<1>1. r.status \in Statuses /\ AreFindings(r.findings)
  <2>1. IsText(text) BY ScenarioAssumption
  <2> QED BY <2>1, FollowUpRead
<1>2. DOMAIN r = {"status", "findings", "coverage", "requests"} BY DEF FollowUp, Read
<1>3. 0 \in 0..(Providers - 1) BY PipelineAssumption
<1> HIDE DEF r
<1>4. CASE Route(r, round) = "fail"
  <2>1. pc' \in {"gate", "done"} /\ (pc' = "gate" => CI) /\ run'.status = "failed" /\ DOMAIN run' = {"status", "filed"}
    BY <1>0, <1>4 DEF Follow, FailSaved, After, Goto
  <2> QED BY <1>0, <1>1, <1>2, <1>3, <2>1, EndingKeeps DEF TypeOK, Conversing
<1>5. CASE Route(r, round) # "fail"
  <2>1. /\ pc' = Route(r, round) /\ run' = run /\ pc' \in {"observe", "repair", "check"}
        /\ pc' = "observe" => r.requests # <<>> /\ round < MaxRounds
        /\ pc' = "check" => r.requests = <<>> /\ r.status \notin Fatal
    BY <1>0, <1>5, Routed DEF Follow, Goto
  <2> USE <1>0, <2>1
  <2>2. sc' \in Scenarios /\ Shapes' /\ Reading' BY <1>1, <1>2 DEF Shapes, Reading
  <2>3. TypeOK' BY <1>1, <1>3 DEF TypeOK, Nothing
  <2>4. Beginning' /\ UnderAdmission' BY DEF Beginning, Unasked, UnderAdmission, Admitted
  <2>5. Permitted' BY DEF Permitted, Allowed
  <2>6. Batches' BY DEF Batches, Unasked, Conversing, Drafted
  <2>7. Answering' BY DEF Answering, AllAnswered, Settling, Drafting, Drafted
  <2>8. Rounds' BY DEF Rounds
  <2>9. Sorting' /\ Placing' BY DEF Sorting, Placing, Nothing, Drafting, Drafted
  <2>10. Basing' BY DEF Basing
  <2>11. CoverageKept' BY DEF CoverageKept, CI
  <2>12. Filing' /\ Judging' /\ GateIsHonest' BY DEF Filing, Drafted, Judging, CI, GateIsHonest
  <2> QED BY <2>2, <2>3, <2>4, <2>5, <2>6, <2>7, <2>8, <2>9, <2>10, <2>11, <2>12
<1> QED BY <1>4, <1>5

LEMMA RepairFindingsKeeps == \A text \in sc.repairs : PipelineInv /\ RepairFindings(text) => PipelineInv'
<1> SUFFICES ASSUME PipelineInv, NEW text \in sc.repairs, RepairFindings(text) PROVE PipelineInv' OBVIOUS
<1> USE DEF PipelineInv, context, outcome
<1> DEFINE r == Read(text)
<1>0. /\ pc = "repair" /\ ~Drafted /\ verdict = "none" /\ tried' = 0 /\ called' = TRUE
      /\ Allowed("model.review") /\ Admitted /\ bucket = <<>> /\ inline = Nothing
      /\ UNCHANGED <<sc, context, slots, round, looked, outcome>>
      /\ \/ /\ result' = [result EXCEPT !.status = r.status, !.findings = r.findings]
            /\ repaired' = TRUE /\ Goto("check") /\ run' = run
         \/ FailSaved(result.coverage) /\ UNCHANGED <<result, repaired>>
  BY DEF RepairFindings, At, Filing, Conversing, Judging, CI, Permitted, UnderAdmission, Sorting
<1>1. r.status \in Statuses /\ AreFindings(r.findings)
  <2>1. IsText(text) BY ScenarioAssumption
  <2>2. r.status = StatusOf(text) BY DEF Read
  <2> QED BY <2>1, <2>2, StatusKnown, ReadFindings
<1>2. 0 \in 0..(Providers - 1) BY PipelineAssumption
<1> HIDE DEF r
<1>3. CASE FailSaved(result.coverage) /\ UNCHANGED <<result, repaired>>
  <2>1. pc' \in {"gate", "done"} /\ (pc' = "gate" => CI) /\ run'.status = "failed" /\ DOMAIN run' = {"status", "filed"}
    BY <1>3 DEF FailSaved, After, Goto
  <2> QED BY <1>0, <1>2, <1>3, <2>1, EndingKeeps DEF TypeOK, Conversing, Shapes, Reading
<1>4. CASE /\ result' = [result EXCEPT !.status = r.status, !.findings = r.findings]
           /\ repaired' = TRUE /\ Goto("check") /\ run' = run
  <2>1. pc' = "check" /\ run' = run /\ repaired' = TRUE BY <1>4 DEF Goto
  <2>2. result'.status = r.status /\ result'.findings = r.findings
        /\ DOMAIN result' = {"status", "findings", "coverage", "requests"}
    BY <1>4 DEF Shapes
  <2> USE <1>0, <2>1, <2>2
  <2>3. sc' \in Scenarios /\ Shapes' /\ Reading' BY <1>1 DEF Shapes, Reading
  <2>4. TypeOK' BY <1>1, <1>2 DEF TypeOK, Nothing
  <2>5. Beginning' /\ UnderAdmission' BY DEF Beginning, Unasked, UnderAdmission, Admitted
  <2>6. Permitted' BY DEF Permitted, Allowed, Conversing
  <2>7. Batches' BY DEF Batches, Unasked, Conversing, Drafted
  <2>8. Answering' /\ Rounds' BY DEF Answering, Rounds
  <2>9. Sorting' /\ Placing' BY DEF Sorting, Placing, Nothing, Drafting, Drafted
  <2>10. Basing' /\ CoverageKept' BY DEF Basing, CoverageKept, CI
  <2>11. Filing' /\ Judging' /\ GateIsHonest' BY DEF Filing, Drafted, Judging, CI, GateIsHonest
  <2> QED BY <2>3, <2>4, <2>5, <2>6, <2>7, <2>8, <2>9, <2>10, <2>11
<1> QED BY <1>0, <1>3, <1>4

\* A policy names no core skill: a CI run has no coverage to repair.
LEMMA CIUnderPolicy == PipelineInv /\ Admitted /\ CI => adm.enforced /\ \A a \in acts : a.category = "policy"
BY AdmissionKnown DEF Admitted, CI

LEMMA CheckCoverageKeeps == PipelineInv /\ CheckCoverage => PipelineInv'
<1> SUFFICES ASSUME PipelineInv, CheckCoverage PROVE PipelineInv' OBVIOUS
<1>0. /\ pc = "check" /\ pc' \in {"place", "mend"} /\ UNCHANGED <<sc, context, talk, outcome, run>>
      /\ CI => pc' = "place"
  <2>1. Admitted BY DEF PipelineInv, UnderAdmission, CheckCoverage, At
  <2>2. CI => CoreSkillCoverageErrors(acts, result.coverage) = {} BY <2>1, CIUnderPolicy, PolicyNeedsNoCore
  <2> QED BY <2>2 DEF CheckCoverage, At, Goto
<1> USE <1>0 DEF PipelineInv, context, talk, outcome
<1>1. sc' \in Scenarios /\ TypeOK' /\ Shapes' BY DEF TypeOK, Shapes
<1>2. Beginning' BY DEF Beginning, Unasked
<1>3. Admitted BY DEF UnderAdmission
<1>4. UnderAdmission' BY <1>3 DEF UnderAdmission, Admitted
<1>5. Permitted' BY DEF Permitted, Allowed, Conversing
<1>6. Batches' /\ Answering' /\ Rounds'
  BY DEF Batches, Answering, Rounds, AllAnswered, Unasked, Conversing, Settling, Drafting, Drafted
<1>7. Reading' /\ Sorting' /\ Placing'
  BY DEF Reading, Sorting, Placing, Accepted, Conversing, Settling, Drafting, Drafted
<1>8. Basing' /\ CoverageKept' BY DEF Basing, CoverageKept, CI, Drafting, Drafted, Filing, Settling
<1>9. Filing' /\ Judging' /\ GateIsHonest'
  BY DEF Filing, Judging, CI, GateIsHonest, Conversing, Settling, Drafting, Unasked, Drafted
<1> QED BY <1>1, <1>2, <1>4, <1>5, <1>6, <1>7, <1>8, <1>9

LEMMA RepairCoverageKeeps == \A text \in sc.repairs : PipelineInv /\ RepairCoverage(text) => PipelineInv'
<1> SUFFICES ASSUME PipelineInv, NEW text \in sc.repairs, RepairCoverage(text) PROVE PipelineInv' OBVIOUS
<1> USE DEF PipelineInv, context, outcome
<1>0. /\ pc = "mend" /\ Allowed("model.review") /\ pc' = "place" /\ tried' = 0 /\ called' = TRUE /\ ~CI
      /\ UNCHANGED <<sc, context, slots, round, looked, repaired, outcome, run>>
  BY DEF RepairCoverage, At, Goto, CoverageKept
<1>1. /\ result'.status = result.status /\ result'.findings = result.findings
      /\ result'.requests = result.requests /\ DOMAIN result' = DOMAIN result
  <2>1. PICK c \in {ParseSkillCoverage(text)} :
          result' = IF c = Nothing THEN result ELSE [result EXCEPT !.coverage = c]
    BY DEF RepairCoverage
  <2> QED BY <2>1 DEF Shapes
<1>2. 0 \in 0..(Providers - 1) BY PipelineAssumption
<1> USE <1>0, <1>1
<1>3. sc' \in Scenarios /\ TypeOK' /\ Shapes' BY <1>2 DEF TypeOK, Shapes
<1>4. Beginning' BY DEF Beginning, Unasked
<1>5. Admitted BY DEF UnderAdmission
<1>6. UnderAdmission' BY <1>5 DEF UnderAdmission, Admitted
<1>7. Permitted' BY DEF Permitted, Allowed, Conversing
<1>8. Batches' /\ Answering' /\ Rounds'
  BY DEF Batches, Answering, Rounds, AllAnswered, Unasked, Conversing, Settling, Drafting, Drafted
<1>9. Reading' /\ Sorting' /\ Placing'
  BY DEF Reading, Sorting, Placing, Accepted, Conversing, Settling, Drafting, Drafted, Filing
<1>10. Basing' /\ CoverageKept' BY DEF Basing, CoverageKept, CI
<1>11. Filing' /\ Judging' /\ GateIsHonest'
  BY DEF Filing, Judging, CI, GateIsHonest, Conversing, Settling, Drafting, Unasked, Drafted
<1> QED BY <1>3, <1>4, <1>6, <1>7, <1>8, <1>9, <1>10, <1>11

LEMMA PlaceFindingsKeeps == PipelineInv /\ PlaceFindings => PipelineInv'
<1> SUFFICES ASSUME PipelineInv, PlaceFindings PROVE PipelineInv' OBVIOUS
<1> USE DEF PipelineInv, context
<1> DEFINE found == NormalizeFindingLocations(sc.files, result.findings)
           sorted == Validate(found, sc.files, evidence)
           coverage == Synthesized(result.coverage)
<1>0. /\ pc = "place" /\ ~Drafted /\ verdict = "none" /\ Admitted
      /\ result' = [result EXCEPT !.coverage = coverage, !.findings = found]
      /\ bucket' = sorted
      /\ \/ sc.artifactOnly /\ inline' = Nothing /\ pc' = "file"
         \/ /\ ~sc.artifactOnly /\ pc' = "comment"
            /\ inline' = [i \in AcceptedIn(sorted) |-> ResolveInlineDraftComment(sc.files, found[i], sc.refsKnown)]
      /\ UNCHANGED <<sc, context, slots, tried, called, round, looked, repaired, verdict, run>>
  BY DEF PlaceFindings, At, Goto, Filing, Settling, Judging, CI, UnderAdmission
<1>1. AreFiles(sc.files) BY ScenarioAssumption DEF AreFiles
<1>2. AreFindings(found) BY <1>1, PlacedFindings DEF Reading
<1> HIDE DEF found
<1>3. /\ sorted \in [DOMAIN found -> Buckets]
      /\ \A i \in AcceptedIn(sorted) : i \in DOMAIN found /\ Stands(found[i], Repeats(found, i), sc.files, evidence)
  BY <1>2, Validated
<1>4. CI => \A name : CoverageOf(coverage, name) = CoverageOf(result.coverage, name)
  BY <1>0, CIUnderPolicy, NothingSynthesized
<1> HIDE DEF sorted, coverage
<1>5. /\ result'.coverage = coverage /\ result'.findings = found /\ result'.status = result.status
      /\ result'.requests = result.requests /\ DOMAIN result' = {"status", "findings", "coverage", "requests"}
  BY <1>0 DEF Shapes
<1>6. /\ \A i \in DOMAIN inline' : inline'[i] \in {"skipped", "validated"}
      /\ DOMAIN inline' # {} => ~sc.artifactOnly
      /\ DOMAIN inline' \subseteq AcceptedIn(sorted)
      /\ \A i \in DOMAIN inline' : inline'[i] # "skipped" => FindingLineAddressable(sc.files, found[i].path, found[i].line)
  BY <1>0 DEF ResolveInlineDraftComment, Nothing
<1>7. sc' \in Scenarios /\ Shapes' /\ Reading' BY <1>0, <1>2, <1>5 DEF Shapes, Reading
<1>8. TypeOK'
  <2>1. bucket' \in [DOMAIN bucket' -> Buckets] /\ DOMAIN bucket' \subseteq DOMAIN result'.findings
    BY <1>0, <1>3, <1>5
  <2> QED BY <1>0, <1>5, <1>6, <2>1 DEF TypeOK
<1>9. Beginning' /\ UnderAdmission' BY <1>0 DEF Beginning, Unasked, UnderAdmission, Admitted
<1>10. Permitted' BY <1>0 DEF Permitted, Allowed, Conversing
<1>11. Batches' /\ Answering' /\ Rounds'
  BY <1>0, <1>5 DEF Batches, Answering, Rounds, AllAnswered, Unasked, Conversing, Settling, Drafting, Drafted
<1>12. Sorting'
  <2>1. bucket' = Validate(result.findings, sc.files, evidence)' BY <1>0, <1>5 DEF sorted
  <2> QED BY <1>0, <2>1 DEF Sorting, Conversing, Settling
<1>13. Placing' BY <1>0, <1>5, <1>6 DEF Placing, Accepted
<1>14. Basing' BY <1>0 DEF Basing
<1>15. CoverageKept' BY <1>0, <1>4, <1>5 DEF CoverageKept, CI, Drafting, Drafted
<1>16. Filing' /\ Judging' /\ GateIsHonest' BY <1>0 DEF Filing, Drafted, Judging, CI, GateIsHonest
<1> QED BY <1>7, <1>8, <1>9, <1>10, <1>11, <1>12, <1>13, <1>14, <1>15, <1>16

LEMMA PublishInlineKeeps ==
  \A i \in DOMAIN inline, state \in {"published", "failed"} : PipelineInv /\ PublishInline(i, state) => PipelineInv'
<1> SUFFICES ASSUME PipelineInv, NEW i \in DOMAIN inline, NEW state \in {"published", "failed"}, PublishInline(i, state)
             PROVE  PipelineInv'
  OBVIOUS
<1> USE DEF PipelineInv, context, talk
<1>0. /\ pc = "comment" /\ inline[i] = "validated" /\ inline' = [inline EXCEPT ![i] = state]
      /\ UNCHANGED <<sc, pc, context, talk, bucket, verdict, run>>
  BY DEF PublishInline, At
<1>1. DOMAIN inline' = DOMAIN inline /\ \A j \in DOMAIN inline : inline'[j] = IF j = i THEN state ELSE inline[j]
  BY <1>0
<1> USE <1>0, <1>1
<1>2. sc' \in Scenarios /\ TypeOK' /\ Shapes' BY DEF TypeOK, Shapes
<1>3. Beginning' /\ UnderAdmission' BY DEF Beginning, Unasked, UnderAdmission, Admitted, Drafted
<1>4. Permitted' BY DEF Permitted, Allowed, Conversing
<1>5. Batches' /\ Answering' /\ Rounds'
  BY DEF Batches, Answering, Rounds, AllAnswered, Unasked, Conversing, Settling, Drafting, Drafted
<1>6. Reading' /\ Sorting' BY DEF Reading, Sorting, Conversing, Settling, Drafting
<1>7. Placing' BY DEF Placing, Accepted
<1>8. Basing' /\ CoverageKept' BY DEF Basing, CoverageKept, CI, Drafting, Drafted
<1>9. Filing' /\ Judging' /\ GateIsHonest'
  BY DEF Filing, Judging, CI, GateIsHonest, Drafting, Drafted
<1> QED BY <1>2, <1>3, <1>4, <1>5, <1>6, <1>7, <1>8, <1>9

\* A draft goes on to its publication, its notice and its file.
LEMMA DraftingKeeps ==
  ASSUME PipelineInv, pc \in Drafting, pc' \in Drafting, run' = run,
         UNCHANGED <<sc, context, talk, outcome>>
  PROVE  PipelineInv'
<1> USE DEF PipelineInv, context, talk, outcome
<1>1. sc' \in Scenarios /\ TypeOK' /\ Shapes' BY DEF TypeOK, Shapes, Drafting
<1>2. Beginning' /\ UnderAdmission' BY DEF Beginning, Unasked, UnderAdmission, Admitted, Drafted, Drafting
<1>3. Permitted' BY DEF Permitted, Allowed, Conversing, Drafting
<1>4. Batches' /\ Answering' /\ Rounds'
  BY DEF Batches, Answering, Rounds, AllAnswered, Unasked, Conversing, Settling, Drafting, Drafted
<1>5. Reading' /\ Sorting' /\ Placing' BY DEF Reading, Sorting, Placing, Accepted, Conversing, Settling, Drafting
<1>6. Basing' /\ CoverageKept' BY DEF Basing, CoverageKept, CI, Drafting, Drafted
<1>7. Filing' /\ Judging' /\ GateIsHonest'
  BY DEF Filing, Judging, CI, GateIsHonest, Drafting, Drafted
<1> QED BY <1>1, <1>2, <1>3, <1>4, <1>5, <1>6, <1>7

LEMMA DraftFails ==
  ASSUME PipelineInv, pc \in Drafting, FailDrafted, UNCHANGED <<sc, context, talk, outcome>>
  PROVE  PipelineInv'
<1> USE DEF PipelineInv
<1>1. pc' = "done" /\ run'.status = "failed" /\ DOMAIN run' = {"status", "filed"}
  BY DEF FailDrafted, Goto
<1>2. ~Drafted BY DEF Filing
<1> QED BY <1>1, <1>2, EndingKeeps DEF TypeOK, Shapes, Reading, Drafting, talk

LEMMA PublishDraftKeeps == PipelineInv /\ PublishDraft => PipelineInv'
BY DraftingKeeps, DraftFails DEF PublishDraft, At, Goto, Drafting

LEMMA NotifyDraftKeeps == PipelineInv /\ NotifyDraft => PipelineInv'
BY DraftingKeeps, DraftFails DEF NotifyDraft, At, Goto, Drafting

LEMMA FileDraftKeeps == PipelineInv /\ FileDraft => PipelineInv'
<1> SUFFICES ASSUME PipelineInv, FileDraft PROVE PipelineInv' OBVIOUS
<1> USE DEF PipelineInv, context, talk, outcome
<1>0. /\ pc = "file" /\ pc' \in {"gate", "done"} /\ (pc' = "gate" => CI) /\ Admitted /\ ~Drafted /\ verdict = "none"
      /\ DOMAIN run' = {"status", "filed"}
      /\ \/ run'.status = run.status
         \/ run'.status = "drafted" /\ run'.filed = Files(acts, result.coverage, Found)
      /\ UNCHANGED <<sc, context, talk, outcome>>
  BY DEF FileDraft, At, Goto, After, UnderAdmission, Filing, Drafting, Judging, CI, Shapes
<1>1. Drafted' => run'.filed = Files(acts, result.coverage, Found) BY <1>0 DEF Drafted
<1>2. Files(acts, result.coverage, Found)' = Files(acts, result.coverage, Found)
  BY <1>0 DEF Files, Found, Accepted
<1> USE <1>0
<1>3. sc' \in Scenarios /\ TypeOK' /\ Shapes' BY DEF TypeOK, Shapes
<1>4. Beginning' /\ UnderAdmission' BY DEF Beginning, Unasked, UnderAdmission, Admitted
<1>5. Permitted' BY DEF Permitted, Allowed, Conversing
<1>6. Batches' /\ Answering' /\ Rounds'
  BY DEF Batches, Answering, Rounds, AllAnswered, Unasked, Conversing, Settling, Drafting
<1>7. Reading' /\ Sorting' /\ Placing' BY DEF Reading, Sorting, Placing, Accepted, Conversing, Settling, Drafting
<1>8. Basing' /\ CoverageKept' BY DEF Basing, CoverageKept, CI, Drafting
<1>9. Filing' BY <1>1, <1>2 DEF Filing, Conversing, Settling, Drafting, Unasked
<1>10. Judging' /\ GateIsHonest' BY DEF Judging, CI, GateIsHonest
<1> QED BY <1>3, <1>4, <1>5, <1>6, <1>7, <1>8, <1>9, <1>10

\* What a batch said of a skill is what its text can be audited for.
LEMMA CoverageOfBatches ==
  ASSUME NEW n \in Nat \ {0}, NEW texts, texts = [b \in 1..n |-> texts[b]], \A b \in 1..n : Audited(texts[b]),
         NEW name, NEW check,
         NEW combined, combined = CombineBatchCoverage([b \in DOMAIN texts |-> Read(texts[b])], texts),
         Covered(combined, name), check \in CoverageOf(combined, name).checks
  PROVE  /\ \A b \in 1..n : Covered(Answered(texts[b]).coverage, name)
         /\ \E b \in 1..n : check \in Answered(texts[b]).coverage[name].checks
<1> DEFINE reads == [b \in DOMAIN texts |-> Read(texts[b])]
<1>1. reads = [b \in 1..n |-> reads[b]] OBVIOUS
<1>2. \A b \in 1..n : reads[b].coverage = Answered(texts[b]).coverage BY DEF Read
<1>3. combined = CombineBatchCoverage(reads, texts) OBVIOUS
<1> HIDE DEF reads
<1>4. /\ \A b \in 1..n : Covered(reads[b].coverage, name)
      /\ \E b \in 1..n : check \in reads[b].coverage[name].checks
  <2>1. Covered(CombineBatchCoverage(reads, texts), name) BY <1>3
  <2>2. check \in CoverageOf(CombineBatchCoverage(reads, texts), name).checks BY <1>3
  <2>3. /\ \A b \in 1..n : Covered(reads[b].coverage, name)
        /\ \A c \in CoverageOf(CombineBatchCoverage(reads, texts), name).checks :
             \E b \in 1..n : name \in DOMAIN reads[b].coverage /\ c \in reads[b].coverage[name].checks
    BY <1>1, <2>1, CombinedIsWhole
  <2> QED BY <2>2, <2>3
<1> QED BY <1>2, <1>4

\* The policy a scenario is admitted under is one its document compiles to.
LEMMA AdmissionCompiled ==
  ASSUME NEW s, NEW a, a = AdmissionOf(s), a.eff # NONE
  PROVE  /\ s.doc # NONE
         /\ \E e \in ApplyPacks(s.doc, s.change, s.runtime) :
              a.eff = ResolvePolicyMethods(s.doc, [e EXCEPT !.required = @ \cup e.coverage], s.methods)
<1> DEFINE effs == BasePolicy(s.doc, s.change, s.runtime, s.methods)
<1>1. effs # {} /\ a.eff = CHOOSE eff \in effs : TRUE
  <2> HIDE DEF effs
  <2>1. a = IF s.mode = "legacy" THEN Admission("ok", FALSE, TRUE, NONE)
            ELSE IF effs = {}
              THEN IF s.mode = "preview" THEN Admission("warned", FALSE, TRUE, NONE)
                   ELSE Admission("error", TRUE, FALSE, NONE)
            ELSE Admission("ok", s.mode # "preview",
                           (s.mode = "frozen" \/ s.request.manual \/ EvaluateTrigger(s.doc.triggers, s.change, s.request)),
                           CHOOSE eff \in effs : TRUE)
    BY DEF AdmissionOf, Evaluate, effs
  <2> HIDE DEF effs
  <2> QED BY <2>1 DEF Admission
<1>2. a.eff \in effs
  <2> HIDE DEF effs
  <2> QED BY <1>1
<1>3. s.doc # NONE /\ \E c \in Compile(s.doc, s.change, s.runtime) :
        a.eff = ResolvePolicyMethods(s.doc, c, s.methods)
  BY <1>2 DEF BasePolicy
<1> QED BY <1>3 DEF Compile

\* A gate that names rules judges by all that the policy selected.
LEMMA SelectedAreGated ==
  ASSUME NEW s \in Scenarios, NEW eff, eff = AdmissionOf(s).eff, eff # NONE
  PROVE  GatedIn(s.doc, eff)
<1>1. s.doc # NONE /\ \E e \in ApplyPacks(s.doc, s.change, s.runtime) :
        eff = ResolvePolicyMethods(s.doc, [e EXCEPT !.required = @ \cup e.coverage], s.methods)
  BY AdmissionCompiled
<1>2. PICK e \in ApplyPacks(s.doc, s.change, s.runtime) :
        eff = ResolvePolicyMethods(s.doc, [e EXCEPT !.required = @ \cup e.coverage], s.methods)
  BY <1>1
<1>3. IsDocument(s.doc) BY <1>1, ScenarioAssumption
<1>4. \E n, order : Honours(s.doc, s.change, s.runtime, order, n, e) BY <1>3, PoliciesHonour
<1>5. IsPolicy(e) /\ GatedIn(s.doc, e) BY <1>4 DEF Honours
<1>6. eff.rules = e.rules /\ eff.gated = e.gated BY <1>2, <1>5 DEF ResolvePolicyMethods, IsPolicy
<1> QED BY <1>5, <1>6 DEF GatedIn

\* The verdict of a review that was drafted.
LEMMA VerdictEarned ==
  ASSUME PipelineInv, JudgeChange
  PROVE  GateIsHonest'
<1> SUFFICES ASSUME verdict' = "pass"
             PROVE  GateIsHonest'
  BY DEF GateIsHonest
<1> USE DEF PipelineInv
<1> DEFINE eff == AdmissionOf(sc).eff
           reports == {report \in Range(sc.reports) : report.verified}
<1>1. /\ pc = "gate" /\ CI /\ ~BaseRefused /\ ~ReportedTwice /\ Verdict(eff) = "pass"
      /\ UNCHANGED <<sc, adm, acts, picked, evidence, talk, bucket, inline, run>>
  BY DEF JudgeChange, At, Judging, context
<1>2. /\ sc.doc.gate.baseline = "all" /\ ~Partial
      /\ \A f \in GateFindings(eff.rules) : ~MatchesGate(EffectiveGate(eff), f)
      /\ \A check \in eff.coverage : GateStatus(Imported, run.filed.acts, run.filed.coverage, check) = "satisfied"
  <2>1. Partial \in BOOLEAN BY DEF Partial
  <2>2. EffectiveGate(eff).baseline = sc.doc.gate.baseline BY DEF EffectiveGate
  <2> HIDE DEF eff
  <2> QED BY <1>1, <2>1, <2>2, GatePasses DEF Verdict
<1>3. Drafted /\ reports = Range(sc.reports) /\ reports = ImportQualityEvidence
  BY <1>2 DEF Partial, Drafted, ImportQualityEvidence
<1>4. Admitted /\ adm = AdmissionOf(sc) /\ sc.doc # NONE /\ (\A a \in acts : a.category = "policy")
  <2>1. Admitted BY <1>3 DEF UnderAdmission
  <2>2. sc.doc # NONE BY <1>1, <2>1, AdmissionKnown DEF CI, Admitted
  <2> QED BY <1>1, <2>1, <2>2, CIUnderPolicy DEF Admitted
<1>5. run.filed.acts = acts /\ run.filed.coverage = result.coverage /\ run.filed.accepted = Found
  BY <1>3 DEF Filing, Files
<1>6. ASSUME NEW check \in eff.coverage
      PROVE  /\ \A report \in reports : report.check = check => report.status \in {"satisfied", "not_applicable"}
             /\ (\A a \in acts : check \notin a.checks) =>
                  \E report \in reports : report.check = check /\ report.status = "satisfied"
             /\ \A a \in acts : check \in a.checks =>
                  Covered(result.coverage, a.name) /\ check \in CoverageOf(result.coverage, a.name).checks
  <2>1. /\ \A report \in reports : report.check \in DOMAIN Imported /\ Imported[report.check] = report.status
        /\ \A c \in DOMAIN Imported : \E report \in reports : report.check = c
    BY <1>1, <1>3, ImportedOf
  <2>2. \A report \in reports : report.status \in DOMAIN StatusRank \ {"none"} BY ScenarioAssumption
  <2>3. check \in DOMAIN Imported => Imported[check] \in DOMAIN StatusRank \ {"none"} BY <2>1, <2>2
  <2>4. GateStatus(Imported, acts, result.coverage, check) = "satisfied" BY <1>2, <1>5
  <2> HIDE DEF reports, eff
  <2>5. /\ check \in DOMAIN Imported => Imported[check] \in {"satisfied", "not_applicable"}
        /\ \A a \in acts : check \in a.checks =>
             Covered(result.coverage, a.name) /\ check \in CoverageOf(result.coverage, a.name).checks
        /\ (\A a \in acts : check \notin a.checks) => check \in DOMAIN Imported /\ Imported[check] = "satisfied"
    BY <2>3, <2>4, SatisfiedIsWorst
  <2> QED BY <2>1, <2>5
<1>7. ASSUME NEW check, NEW a \in acts, round = 0, ~repaired,
             Covered(result.coverage, a.name), check \in CoverageOf(result.coverage, a.name).checks
      PROVE  /\ \A b \in DOMAIN slots : Covered(Answered(slots[b]).coverage, a.name)
             /\ \E b \in DOMAIN slots : check \in Answered(slots[b]).coverage[a.name].checks
  <2> DEFINE combined == CombineBatchCoverage([b \in DOMAIN slots |-> Read(slots[b])], slots)
             known == IF sc.files = <<>> THEN Nothing ELSE combined
  <2>1. CoverageOf(result.coverage, a.name) = CoverageOf(known, a.name) BY <1>1, <1>3, <1>7 DEF CoverageKept
  <2>2. Covered(known, a.name) /\ check \in CoverageOf(known, a.name).checks BY <1>7, <2>1 DEF Covered
  <2>3. sc.files # <<>>
    <3>1. ~Covered(Nothing, a.name) BY DEF Covered, CoverageOf, Nothing, SkillCoverageIsMeaningful
    <3> QED BY <2>2, <3>1
  <2>4. AllAnswered BY <1>3, <1>7, <2>3 DEF Answering
  <2> DEFINE n == Len(slots)
  <2>5. n \in Nat \ {0} /\ DOMAIN slots = 1..n /\ slots = [b \in 1..n |-> slots[b]]
    <3> DEFINE S == {WAITING, LOST} \cup sc.answers
    <3>1. slots \in Seq(S) /\ slots # <<>> BY <2>4 DEF Batches, AllAnswered
    <3> HIDE DEF S
    <3> QED BY <3>1
  <2>6. \A b \in 1..n : Audited(slots[b]) BY <2>4, <2>5 DEF AllAnswered
  <2>7. known = combined BY <2>3
  <2>8. Covered(combined, a.name) /\ check \in CoverageOf(combined, a.name).checks BY <2>2, <2>7
  <2> HIDE DEF n, known
  <2>9. /\ \A b \in 1..n : Covered(Answered(slots[b]).coverage, a.name)
        /\ \E b \in 1..n : check \in Answered(slots[b]).coverage[a.name].checks
    BY <2>5, <2>6, <2>8, CoverageOfBatches
  <2> QED BY <2>5, <2>9
<1>8. ASSUME NEW i \in Accepted, result.findings[i].id # UNSAID,
             SeverityRank[result.findings[i].severity] >= SeverityRank[sc.doc.gate.severity]
      PROVE  sc.doc.gate.rules # {} /\ \A c \in result.findings[i].cites : c.named /\ c.quotes => c.source \notin eff.rules
  <2> DEFINE f == NormalizeReviewFinding(result.findings[i], evidence)
             gate == EffectiveGate(eff)
             rule == GateRule(f, eff.rules)
             g == [key |-> f.id, rule |-> rule, severity |-> f.severity, strength |-> f.strength,
                   changed |-> f.path \in Paths(sc.files)]
  <2>1. g \in GateFindings(eff.rules)
    <3>1. f \in Found BY DEF Found
    <3> HIDE DEF f, eff
    <3> QED BY <1>5, <3>1 DEF GateFindings
  <2>2. ~MatchesGate(gate, g) BY <1>2, <2>1
  <2>3. /\ f.severity = result.findings[i].severity /\ f.strength = "confirmed"
        /\ f.id = result.findings[i].id /\ f.cites = result.findings[i].cites
    <3>1. bucket = Validate(result.findings, sc.files, evidence) BY <1>3 DEF Sorting
    <3>2. Stands(result.findings[i], Repeats(result.findings, i), sc.files, evidence)
      BY <3>1, Validated DEF Accepted, Reading
    <3> QED BY <3>2 DEF Stands
  <2>4. StrengthRank["confirmed"] >= StrengthRank[sc.doc.gate.strength]
    <3>1. sc.doc.gate.strength \in DOMAIN StrengthRank BY <1>4, ScenarioAssumption
    <3> QED BY <3>1 DEF StrengthRank
  <2>6. sc.doc.gate.baseline # "changed" BY <1>2
  <2>7. /\ gate.rules = eff.gated /\ gate.severity = sc.doc.gate.severity
        /\ gate.strength = sc.doc.gate.strength /\ gate.baseline = sc.doc.gate.baseline
    BY DEF EffectiveGate
  <2>8. g.severity = f.severity /\ g.strength = f.strength /\ g.key = f.id /\ g.rule = rule OBVIOUS
  <2>9. eff.gated # {} /\ rule \notin eff.gated
    <3> HIDE DEF f, g, gate, rule, eff
    <3> QED BY <1>8, <2>2, <2>3, <2>4, <2>6, <2>7, <2>8 DEF MatchesGate
  <2>10. GatedIn(sc.doc, eff)
    <3>1. eff # NONE BY <1>1 DEF BaseRefused
    <3> HIDE DEF eff
    <3>2. eff = AdmissionOf(sc).eff BY DEF eff
    <3> QED BY <3>1, <3>2, SelectedAreGated
  <2>11. sc.doc.gate.rules # {} /\ eff.rules \subseteq eff.gated BY <2>9, <2>10 DEF GatedIn
  <2>12. ASSUME NEW c \in f.cites, c.named /\ c.quotes, c.source \in eff.rules PROVE FALSE
    <3> DEFINE cited == {d.source : d \in {e \in f.cites : e.named /\ e.quotes}} \cap eff.rules
    <3>1. c.source \in cited BY <2>12
    <3>2. rule = CHOOSE r \in cited : TRUE BY <3>1 DEF GateRule
    <3>3. cited \subseteq eff.rules OBVIOUS
    <3> HIDE DEF cited, rule, f
    <3>4. rule \in eff.rules BY <3>1, <3>2, <3>3
    <3> QED BY <2>9, <2>11, <3>4
  <2> HIDE DEF f, rule, gate, g
  <2> QED BY <2>3, <2>11, <2>12
<1>9. run.status = "drafted" BY <1>3 DEF Drafted
<1>10. adm.eff = eff BY <1>4
<1> HIDE DEF eff
<1> QED BY <1>1, <1>2, <1>3, <1>6, <1>7, <1>8, <1>9, <1>10 DEF GateIsHonest, Accepted, talk

LEMMA JudgeChangeKeeps == PipelineInv /\ JudgeChange => PipelineInv'
<1> SUFFICES ASSUME PipelineInv, JudgeChange PROVE PipelineInv' OBVIOUS
<1>1. GateIsHonest' BY VerdictEarned
<1> USE DEF PipelineInv, context, talk
<1>0. /\ pc = "gate" /\ pc' = "done" /\ verdict' \in {"pass", "violations", "incomplete", "error"}
      /\ UNCHANGED <<sc, context, talk, bucket, inline, run>>
  BY DEF JudgeChange, At, Goto, Verdict, EvaluateQualityGate
<1>2. Found' = Found BY <1>0 DEF Found, Accepted
<1> USE <1>0
<1>3. sc' \in Scenarios /\ TypeOK' /\ Shapes' BY DEF TypeOK, Shapes
<1>4. Beginning' /\ UnderAdmission' BY DEF Beginning, Unasked, UnderAdmission, Admitted, Drafted
<1>5. Permitted' BY DEF Permitted, Allowed, Conversing
<1>6. Batches' /\ Answering' /\ Rounds'
  BY DEF Batches, Answering, Rounds, AllAnswered, Unasked, Conversing, Settling, Drafting, Drafted
<1>7. Reading' /\ Sorting' /\ Placing' BY DEF Reading, Sorting, Placing, Accepted, Conversing, Settling, Drafting, Drafted
<1>8. Basing' /\ CoverageKept' BY DEF Basing, CoverageKept, CI, Drafting, Drafted
<1>9. Filing' /\ Judging' BY <1>2 DEF Filing, Judging, CI, Conversing, Settling, Drafting, Unasked, Drafted
<1> QED BY <1>1, <1>3, <1>4, <1>5, <1>6, <1>7, <1>8, <1>9

LEMMA StutterKeeps == PipelineInv /\ UNCHANGED vars => PipelineInv'
<1> SUFFICES ASSUME PipelineInv, UNCHANGED vars PROVE PipelineInv' OBVIOUS
<1> USE DEF PipelineInv, vars
<1>1. sc' \in Scenarios /\ TypeOK' /\ Shapes' BY DEF TypeOK, Shapes
<1>2. Beginning' /\ UnderAdmission' BY DEF Beginning, Untouched, UnderAdmission, Admitted, Drafted
<1>3. Permitted' BY DEF Permitted, Allowed
<1>4. Batches' /\ Answering' /\ Rounds' BY DEF Batches, Answering, Rounds, AllAnswered, Drafted
<1>5. Reading' /\ Sorting' /\ Placing' BY DEF Reading, Sorting, Placing, Accepted, Drafted
<1>6. Basing' /\ CoverageKept' BY DEF Basing, CoverageKept, CI, Drafted
<1>7. Filing' /\ Judging' BY DEF Filing, Judging, CI, Drafted, Found, Accepted
<1>8. GateIsHonest' BY DEF GateIsHonest, Accepted
<1> QED BY <1>1, <1>2, <1>3, <1>4, <1>5, <1>6, <1>7, <1>8

LEMMA PipelineInvHolds == Spec => []PipelineInv
<1>1. Init => PipelineInv BY InitHolds
<1>2. PipelineInv /\ [Next]_vars => PipelineInv'
  <2> SUFFICES ASSUME PipelineInv, [Next]_vars PROVE PipelineInv' OBVIOUS
  <2>1. ASSUME \/ StartRun \/ Enrich \/ AdmitPolicy \/ SelectCorpus \/ BuildContext PROVE PipelineInv'
    BY <2>1, StartRunKeeps, EnrichKeeps, AdmitPolicyKeeps, SelectCorpusKeeps, BuildContextKeeps
  <2>2. ASSUME \/ \E b \in DOMAIN slots : LoseBatch(b)
               \/ \E b \in DOMAIN slots, text \in sc.answers : Answer(b, text)
               \/ FallBack \/ \E terminal \in BOOLEAN : CallEnds(terminal)
        PROVE  PipelineInv'
    BY <2>2, LoseBatchKeeps, AnswerKeeps, FallBackKeeps, CallEndsKeeps
  <2>3. ASSUME \/ GatherBatches \/ ExecuteToolRequests \/ CheckCoverage
               \/ \E text \in sc.followUps : FollowUpAnswer(text)
               \/ \E text \in sc.repairs : RepairFindings(text) \/ RepairCoverage(text)
        PROVE  PipelineInv'
    BY <2>3, GatherBatchesKeeps, ExecuteToolRequestsKeeps, CheckCoverageKeeps, FollowUpAnswerKeeps,
       RepairFindingsKeeps, RepairCoverageKeeps
  <2>4. ASSUME \/ PlaceFindings \/ PublishDraft \/ NotifyDraft \/ FileDraft \/ JudgeChange
               \/ \E i \in DOMAIN inline, state \in {"published", "failed"} : PublishInline(i, state)
        PROVE  PipelineInv'
    BY <2>4, PlaceFindingsKeeps, PublishInlineKeeps, PublishDraftKeeps, NotifyDraftKeeps, FileDraftKeeps, JudgeChangeKeeps
  <2>5. CASE UNCHANGED vars BY <2>5, StutterKeeps
  <2>6. CASE Next BY <2>1, <2>2, <2>3, <2>4, <2>6 DEF Next
  <2> QED BY <2>5, <2>6
<1> QED BY <1>1, <1>2, PTL DEF Spec

(***************************************************************************)
(* The theorems.                                                            *)
(***************************************************************************)
\* The variables keep the shapes the code gives them.
THEOREM PipelineTyped == Spec => []TypeOK
<1>1. PipelineInv => TypeOK BY DEF PipelineInv
<1> QED BY <1>1, PipelineInvHolds, PTL

\* No model is asked about a change an enforced policy turns away or for which it
\* denies the model, and no snapshot is read that it denies or no activated skill
\* allows.
THEOREM CallsAllowed == Spec => []CallsAreAllowed
<1>1. ASSUME PipelineInv PROVE CallsAreAllowed
  <2> USE <1>1 DEF PipelineInv
  <2>1. ASSUME called, sc.mode \in {"enforce", "frozen"}
        PROVE  adm.accepted /\ adm.eff # NONE /\ "model.review" \in adm.eff.allowed
    <3>1. Allowed("model.review") /\ Admitted BY <2>1 DEF Permitted, UnderAdmission
    <3>2. adm.enforced BY <2>1, <3>1, AdmissionKnown DEF Admitted
    <3> QED BY <2>1, <3>1, <3>2 DEF Admitted, Allowed, AllowsCapability
  <2>2. ASSUME NEW l \in looked, l.status # "denied"
        PROVE  /\ sc.mode \in {"enforce", "frozen"} => "repo.read" \in adm.eff.allowed
               /\ \E a \in acts : SnapshotToolSurface(l.tool) \in a.surfaces
    BY <2>2 DEF Permitted, Allowed, AllowsCapability
  <2> QED BY <2>1, <2>2 DEF CallsAreAllowed
<1> QED BY <1>1, PipelineInvHolds, PTL

\* A review is drafted only when every batch of the change was answered in a form
\* that can be audited and no request was left, unless a formatter rewrote it.
THEOREM IncompleteFails == Spec => []IncompleteReviewsFail
<1>1. PipelineInv => IncompleteReviewsFail
  BY DEF PipelineInv, IncompleteReviewsFail, Answering, AllAnswered, Drafted
<1> QED BY <1>1, PipelineInvHolds, PTL

\* An accepted finding stands on firm authority, quotes it where there is
\* evidence - a rule only as the base states it - and is nobody's double.
THEOREM AcceptedGrounded == Spec => []AcceptedIsGrounded
<1>1. ASSUME PipelineInv, NEW i \in Accepted
      PROVE  LET f == result.findings[i] IN
             /\ f.type = "finding" /\ f.severity \in Severities /\ f.sure /\ ~f.vague
             /\ \A j \in DOMAIN result.findings : j < i /\ f.id # UNSAID => result.findings[j].id # f.id
             /\ sc.files # <<>> => f.path \in Paths(sc.files)
             /\ f.line > 0
             /\ IF evidence = {} THEN f.authority \in Firm \cup {UNSAID}
                ELSE \E c \in f.cites : \E e \in evidence :
                  /\ c.quotes /\ e.source = c.source /\ e.authority \in Firm
                  /\ adm.enforced /\ e.source \in DOMAIN sc.doc.ruleChecks => e.source \in adm.eff.rules
  <2> USE <1>1 DEF PipelineInv
  <2> DEFINE f == result.findings[i]
  <2>1. bucket = Validate(result.findings, sc.files, evidence) BY DEF Sorting, Accepted, AcceptedIn
  <2>2. i \in DOMAIN result.findings /\ Stands(f, Repeats(result.findings, i), sc.files, evidence)
    BY <2>1, Validated DEF Accepted, Reading
  <2>3. DOMAIN result.findings = 1..Len(result.findings) /\ Len(result.findings) \in Nat BY FindingsOf DEF Reading
  <2>4. \A j \in DOMAIN result.findings : j < i /\ f.id # UNSAID => result.findings[j].id # f.id
    <3> SUFFICES ASSUME NEW j \in DOMAIN result.findings, j < i, f.id # UNSAID PROVE result.findings[j].id # f.id
      OBVIOUS
    <3>1. j \in 1..(i - 1) BY <2>2, <2>3
    <3>2. ~Repeats(result.findings, i) BY <2>2 DEF Stands
    <3> QED BY <3>1, <3>2 DEF Repeats
  <2>5. ASSUME evidence # {}
        PROVE  \E c \in f.cites : \E e \in evidence :
                 /\ c.quotes /\ e.source = c.source /\ e.authority \in Firm
                 /\ adm.enforced /\ e.source \in DOMAIN sc.doc.ruleChecks => e.source \in adm.eff.rules
    <3>1. PICK c \in f.cites : ValidFindingCitation(evidence, c) BY <2>2, <2>5 DEF Stands
    <3> QED BY <3>1 DEF ValidFindingCitation, Basing
  <2> QED BY <2>2, <2>4, <2>5 DEF Stands
<1>2. PipelineInv => AcceptedIsGrounded BY <1>1 DEF AcceptedIsGrounded
<1> QED BY <1>2, PipelineInvHolds, PTL

\* A comment goes to a line the change adds, or into a new file, and only for an
\* accepted finding of a review that may publish.
THEOREM CommentsOnTheChange == Spec => []InlineOnAddedLine
<1>1. ASSUME PipelineInv PROVE InlineOnAddedLine
  <2> USE <1>1 DEF PipelineInv
  <2>1. AreFiles(sc.files) BY ScenarioAssumption DEF AreFiles
  <2>2. ASSUME \A k \in DOMAIN sc.files : Readable(sc.files[k].patch), NEW i \in DOMAIN inline, inline[i] = "published"
        PROVE  OnAddedLine(result.findings[i])
    <3>1. FindingLineAddressable(sc.files, result.findings[i].path, result.findings[i].line) BY <2>2 DEF Placing
    <3> QED BY <2>1, <2>2, <3>1, AddressableLines DEF OnAddedLine
  <2> QED BY <2>2 DEF InlineOnAddedLine, CommentsOnAddedLines, Placing
<1> QED BY <1>1, PipelineInvHolds, PTL

\* A verdict of "pass" is earned.
THEOREM GateHonest == Spec => []GateIsHonest
<1>1. PipelineInv => GateIsHonest BY DEF PipelineInv
<1> QED BY <1>1, PipelineInvHolds, PTL

\* The policy at hand is the one of the scenario.
PolicyKnown == adm.eff # NONE => adm = AdmissionOf(sc)

LEMMA PolicyStays == PipelineInv /\ PolicyKnown /\ [Next]_vars => PolicyKnown'
<1> SUFFICES ASSUME PolicyKnown, [Next]_vars PROVE PolicyKnown' OBVIOUS
<1> USE DEF context, talk, outcome
<1>1. CASE AdmitPolicy BY <1>1 DEF AdmitPolicy, PolicyKnown
<1>2. ASSUME UNCHANGED <<sc, adm>> PROVE PolicyKnown' BY <1>2 DEF PolicyKnown
<1>3. CASE StartRun \/ Enrich BY <1>2, <1>3 DEF StartRun, Enrich
<1>4. CASE SelectCorpus \/ BuildContext BY <1>2, <1>4 DEF SelectCorpus, BuildContext
<1>5. CASE \E b \in DOMAIN slots : LoseBatch(b) BY <1>2, <1>5 DEF LoseBatch
<1>6. CASE \E b \in DOMAIN slots, text \in sc.answers : Answer(b, text) BY <1>2, <1>6 DEF Answer
<1>7. CASE FallBack BY <1>2, <1>7 DEF FallBack
<1>8. CASE \E terminal \in BOOLEAN : CallEnds(terminal) BY <1>2, <1>8 DEF CallEnds
<1>9. CASE GatherBatches \/ ExecuteToolRequests BY <1>2, <1>9 DEF GatherBatches, ExecuteToolRequests
<1>10. CASE \E text \in sc.followUps : FollowUpAnswer(text) BY <1>2, <1>10 DEF FollowUpAnswer
<1>11. CASE \E text \in sc.repairs : RepairFindings(text) BY <1>2, <1>11 DEF RepairFindings
<1>12. CASE \E text \in sc.repairs : RepairCoverage(text) BY <1>2, <1>12 DEF RepairCoverage
<1>13. CASE CheckCoverage \/ PlaceFindings BY <1>2, <1>13 DEF CheckCoverage, PlaceFindings
<1>14. CASE \E i \in DOMAIN inline, state \in {"published", "failed"} : PublishInline(i, state)
  BY <1>2, <1>14 DEF PublishInline
<1>15. CASE PublishDraft \/ NotifyDraft \/ FileDraft \/ JudgeChange
  BY <1>2, <1>15 DEF PublishDraft, NotifyDraft, FileDraft, JudgeChange
<1>16. CASE UNCHANGED vars BY <1>2, <1>16 DEF vars
<1> QED BY <1>1, <1>3, <1>4, <1>5, <1>6, <1>7, <1>8, <1>9, <1>10, <1>11, <1>12, <1>13, <1>14, <1>15, <1>16 DEF Next

\* Every check that the gate or a selected pack asks for is owed, and what a pack
\* asked for otherwise is lost only to one applied later whose delegation names it.
THEOREM ObligationsKept == Spec => []ObligationsHold
<1>1. Init => PolicyKnown BY DEF Init, PolicyKnown, Admission
<1>2. Spec => []PolicyKnown BY <1>1, PolicyStays, PipelineInvHolds, PTL DEF Spec
<1>3. ASSUME PipelineInv, PolicyKnown, adm.eff # NONE PROVE ObligationsHold
  <2> DEFINE doc == sc.doc
             eff == adm.eff
             order == PackOrder(doc)
             n == Cardinality(DOMAIN doc.packs)
  <2>1. adm = AdmissionOf(sc) /\ sc \in Scenarios BY <1>3 DEF PolicyKnown, PipelineInv
  <2>2. doc # NONE /\ \E e \in ApplyPacks(doc, sc.change, sc.runtime) :
          eff = ResolvePolicyMethods(doc, [e EXCEPT !.required = @ \cup e.coverage], sc.methods)
    BY <1>3, <2>1, AdmissionCompiled
  <2>3. IsDocument(doc) BY <2>1, <2>2, ScenarioAssumption
  <2>4. PICK e \in ApplyPacks(doc, sc.change, sc.runtime) :
          eff = ResolvePolicyMethods(doc, [e EXCEPT !.required = @ \cup e.coverage], sc.methods)
    BY <2>2
  <2>5. n \in Nat /\ Honours(doc, sc.change, sc.runtime, order, n, e) BY <2>3, PoliciesHonour
  <2>6. /\ eff.methods = e.methods /\ eff.risk = e.risk /\ eff.independent = e.independent
        /\ eff.publication = e.publication /\ eff.allowed = e.allowed /\ eff.rules = e.rules
        /\ eff.coverage = e.coverage \cup MethodChecks(e, sc.methods)
        /\ eff.required = (e.required \cup e.coverage) \cup MethodChecks(e, sc.methods)
    BY <2>4, <2>5 DEF ResolvePolicyMethods, Honours, IsPolicy, MethodChecks
  <2>7. \A m \in eff.methods : sc.methods[m] \subseteq eff.coverage BY <2>6 DEF MethodChecks
  <2>8. /\ doc.gate.coverage \cup ChecksOf(doc, doc.rules) \subseteq eff.coverage
        /\ eff.coverage \subseteq eff.required /\ eff.allowed \subseteq sc.runtime \cap doc.capabilities.allowed
    BY <2>5, <2>6 DEF Honours
  <2>9. ASSUME NEW p \in Matched, NEW q \in Lineage(doc, p)
        PROVE  /\ doc.packs[q].checks \cup ChecksOf(doc, doc.packs[q].rules) \subseteq eff.coverage
               /\ doc.packs[q].rules \subseteq eff.rules
               /\ \A field \in ReplaceFields : KeptUnless(Keeps(field, doc.packs[q], eff), field, p)
    <3>1. PICK j \in 1..n : order[j] = p BY <2>3, PacksOrdered DEF Matched
    <3>2. Selected(doc, order[j], sc.change) BY <3>1 DEF Matched
    <3>3. /\ Owed(doc, q) \subseteq e.coverage /\ doc.packs[q].rules \subseteq e.rules
          /\ \A field \in ReplaceFields :
               Keeps(field, doc.packs[q], e) \/ TakenBack(doc, sc.change, order, j, n, field)
      BY <2>5, <3>1, <3>2 DEF Honours
    <3>4. ASSUME NEW field \in ReplaceFields PROVE KeptUnless(Keeps(field, doc.packs[q], eff), field, p)
      <4>1. CASE Keeps(field, doc.packs[q], e) BY <2>6, <4>1 DEF Keeps, KeptUnless
      <4>2. CASE TakenBack(doc, sc.change, order, j, n, field)
        <5>1. PICK k \in (j + 1)..n : Selected(doc, order[k], sc.change) /\ Delegates(doc, order[k], field)
          BY <4>2 DEF TakenBack
        <5>2. k \in 1..n /\ j < k BY <2>5
        <5>3. order[k] \in DOMAIN doc.packs /\ Precedes(doc, p, order[k]) BY <2>3, <3>1, <5>2, PacksOrdered
        <5>4. order[k] \in Matched /\ TakesBack(order[k], field) BY <5>1, <5>3 DEF Matched, TakesBack, Delegates
        <5>5. AppliedAfter(order[k], p)
          <6>1. p \in DOMAIN doc.packs BY DEF Matched
          <6>2. doc.packs[p].priority \in Int /\ doc.packs[order[k]].priority \in Int
            BY <2>3, <5>3, <6>1 DEF IsDocument
          <6>3. p \in Nat /\ order[k] \in Nat
            <7>1. DOMAIN doc.packs = 1..n BY <2>3, PacksOrdered
            <7> QED BY <2>5, <5>3, <6>1, <7>1
          <6> QED BY <5>3, <6>2, <6>3 DEF Precedes, AppliedAfter
        <5> QED BY <5>4, <5>5 DEF KeptUnless
      <4> QED BY <3>3, <4>1, <4>2
    <3> QED BY <2>6, <3>3, <3>4 DEF Owed
  <2>10. ASSUME NEW p \in Matched, NEW q \in Lineage(doc, p)
         PROVE  /\ KeptUnless(doc.packs[q].methods \subseteq eff.methods, "methods", p)
                /\ KeptUnless(doc.packs[q].risk <= eff.risk, "risk_floor", p)
                /\ KeptUnless(doc.packs[q].independent => eff.independent, "independent_review", p)
                /\ KeptUnless(ModeRank[doc.packs[q].publication.mode] <= ModeRank[eff.publication.mode],
                              "publication", p)
    <3>1. \A field \in ReplaceFields : KeptUnless(Keeps(field, doc.packs[q], eff), field, p) BY <2>9
    <3>2. KeptUnless(doc.packs[q].methods \subseteq eff.methods, "methods", p)
      BY <3>1 DEF KeptUnless, Keeps, ReplaceFields
    <3>3. KeptUnless(doc.packs[q].risk <= eff.risk, "risk_floor", p)
      BY <3>1 DEF KeptUnless, Keeps, ReplaceFields
    <3>4. KeptUnless(doc.packs[q].independent => eff.independent, "independent_review", p)
      BY <3>1 DEF KeptUnless, Keeps, ReplaceFields
    <3>5. KeptUnless(ModeRank[doc.packs[q].publication.mode] <= ModeRank[eff.publication.mode], "publication", p)
      BY <3>1 DEF KeptUnless, Keeps, ReplaceFields
    <3> QED BY <3>2, <3>3, <3>4, <3>5
  <2> QED BY <2>7, <2>8, <2>9, <2>10 DEF ObligationsHold
<1>4. PipelineInv /\ PolicyKnown => ObligationsHold BY <1>3 DEF ObligationsHold
<1> QED BY <1>2, <1>4, PipelineInvHolds, PTL

\* The evidence at hand is one that the documents and the change can come to.
EvidenceKnown == At("build") => picked \in SelectionsOf(Sections, Signals, sc.limits)

LEMMA EvidenceStays == EvidenceKnown /\ [Next]_vars => EvidenceKnown'
<1> SUFFICES ASSUME EvidenceKnown, [Next]_vars PROVE EvidenceKnown' OBVIOUS
<1> USE DEF At, Goto, After, FailUnsaved, FailSaved
<1>1. ASSUME pc' # "build" PROVE EvidenceKnown' BY <1>1 DEF EvidenceKnown
<1>2. CASE SelectCorpus
  <2>1. Sections' = Sections /\ Signals' = Signals /\ sc' = sc
    BY <1>2 DEF SelectCorpus, Sections, Signals, ActivatedSkills, SkillRequest
  <2>2. pc' # "build" \/ picked' \in SelectionsOf(Sections, Signals, sc.limits) BY <1>2 DEF SelectCorpus
  <2> QED BY <2>1, <2>2 DEF EvidenceKnown
<1>3. CASE StartRun \/ Enrich \/ AdmitPolicy BY <1>1, <1>3 DEF StartRun, Enrich, AdmitPolicy
<1>4. CASE BuildContext BY <1>1, <1>4 DEF BuildContext
<1>5. CASE \E b \in DOMAIN slots : LoseBatch(b) BY <1>1, <1>5 DEF LoseBatch, Asked
<1>6. CASE \E b \in DOMAIN slots, text \in sc.answers : Answer(b, text) BY <1>1, <1>6 DEF Answer, Asked
<1>7. CASE FallBack BY <1>1, <1>7 DEF FallBack, Calling
<1>8. CASE \E terminal \in BOOLEAN : CallEnds(terminal) BY <1>1, <1>8 DEF CallEnds
<1>9. CASE GatherBatches BY <1>1, <1>9 DEF GatherBatches, Follow, Route
<1>10. CASE ExecuteToolRequests BY <1>1, <1>10 DEF ExecuteToolRequests
<1>11. CASE \E text \in sc.followUps : FollowUpAnswer(text) BY <1>1, <1>11 DEF FollowUpAnswer, Follow, Route
<1>12. CASE \E text \in sc.repairs : RepairFindings(text) BY <1>1, <1>12 DEF RepairFindings
<1>13. CASE \E text \in sc.repairs : RepairCoverage(text) BY <1>1, <1>13 DEF RepairCoverage
<1>14. CASE CheckCoverage \/ PlaceFindings BY <1>1, <1>14 DEF CheckCoverage, PlaceFindings
<1>15. CASE \E i \in DOMAIN inline, state \in {"published", "failed"} : PublishInline(i, state)
  BY <1>1, <1>15 DEF PublishInline
<1>16. CASE PublishDraft \/ NotifyDraft \/ FileDraft \/ JudgeChange
  BY <1>1, <1>16 DEF PublishDraft, NotifyDraft, FileDraft, FailDrafted, JudgeChange
<1>17. CASE UNCHANGED vars
  <2>1. Sections' = Sections /\ Signals' = Signals /\ sc' = sc /\ pc' = pc /\ picked' = picked
    BY <1>17 DEF vars, Sections, Signals, ActivatedSkills, SkillRequest
  <2> QED BY <2>1 DEF EvidenceKnown
<1> QED BY <1>2, <1>3, <1>4, <1>5, <1>6, <1>7, <1>8, <1>9, <1>10, <1>11, <1>12, <1>13, <1>14, <1>15, <1>16, <1>17
        DEF Next

\* What a review is given to read is what the change is about: a section that
\* names an identifier or a route of the change gives way only to better ones, to
\* the caps or to a topic the change does not touch, other languages' rules are
\* never given, and a related section comes with the one that brought it in.
THEOREM EvidenceRelevant == Spec => []EvidenceIsRelevant
<1>1. Init => EvidenceKnown BY DEF Init, EvidenceKnown, At
<1>2. Spec => []EvidenceKnown BY <1>1, EvidenceStays, PTL DEF Spec
<1>3. ASSUME PipelineInv, EvidenceKnown PROVE EvidenceIsRelevant
  <2>1. sc \in Scenarios BY <1>3 DEF PipelineInv
  <2>2. /\ IsLibrary(sc.library) /\ sc.limits.selected \in Nat /\ sc.limits.supporting \in Nat
        /\ IsFiniteSet(sc.texts)
        /\ \A t \in sc.texts : IsFiniteSet(t.ids) /\ IsFiniteSet(t.routes) /\ IsFiniteSet(t.words)
    BY <2>1, ScenarioAssumption
  <2>3. AreSections(Sections) BY <2>2, SectionsKnown DEF Sections
  <2>4. AreSignals(Signals) BY <2>2, SignalsKnown DEF Signals
  <2>5. At("build") => IsRelevant(Sections, Signals, sc.limits, picked)
    BY <1>3, <2>2, <2>3, <2>4, SelectionsRelevant DEF EvidenceKnown
  <2> QED BY <2>5 DEF EvidenceIsRelevant
<1> QED BY <1>2, <1>3, PipelineInvHolds, PTL
===============================================================================
