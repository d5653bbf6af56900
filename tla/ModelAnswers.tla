---------------------------- MODULE ModelAnswers ----------------------------
(* What the pipeline reads in the model's answers: the findings, how it says   *)
(* the skills were covered, and the tools it asks for.                         *)
(*   src/agent/pipeline/{pipeline,model_reducer}.go                            *)
(*                                                                             *)
(* A text is the sequence of what decoding tries in it, best first: the whole, *)
(* fenced blocks, spans in braces or brackets, each a [form, findings, unread, *)
(* coverage, repeated, requests, shaped].  Its form is "envelope", "list" (of  *)
(* findings), "loose" (findings that can only be read field by field, without  *)
(* those unread), "coverage" or "other"; shaped says that its requests are     *)
(* within bounds.  Coverage maps the skills it names to [said, backed, checks] *)
(* - backed when evidence or tools are given - and repeated are the names it   *)
(* lists twice.                                                                *)
EXTENDS FindingTriage

CONSTANT MaxRequests   \* review.MaxModelToolRequests

Fatal == {"empty_response", "unparseable", "tool_loop_incomplete"}
Statuses == Fatal \cup {"parsed", "empty_findings", "skipped"}
Nothing == [x \in {} |-> x]

\* A text, and the findings in it.
IsText(text) ==
  text \in Seq({c \in Range(text) : c.findings \in Seq({f \in Range(c.findings) : IsFinding(f)})})

\* A finding read field by field: what is not of its type counts as left out.
DecodeLenientFinding(f, unread) ==
  LET left == [id |-> UNSAID, type |-> "finding", strength |-> UNSAID, authority |-> UNSAID,
               severity |-> UNSAID, sure |-> FALSE, path |-> NOWHERE, line |-> 0, cites |-> {}] IN
  [field \in DOMAIN f |-> IF field \in unread THEN left[field] ELSE f[field]]

\* Only an envelope carries coverage and requests.
DecodeReviewOutput(c) ==
  IF c.form = "envelope"
    THEN [raw |-> IF c.shaped THEN "json" ELSE "broken", findings |-> c.findings,
          coverage |-> c.coverage, repeated |-> c.repeated, requests |-> c.requests]
    ELSE [raw |-> "json", coverage |-> Nothing, repeated |-> {}, requests |-> <<>>,
          findings |-> [i \in DOMAIN c.findings |->
            IF c.form = "loose" THEN DecodeLenientFinding(c.findings[i], c.unread) ELSE c.findings[i]]]

\* The first of a text's candidates that can be decoded is its answer.
Answered(text) ==
  LET read == {k \in DOMAIN text : text[k].form \in {"envelope", "list", "loose"}}
      none(raw) == [raw |-> raw, findings |-> <<>>, coverage |-> Nothing, repeated |-> {}, requests |-> <<>>] IN
  IF text = <<>> THEN none("blank")
  ELSE IF read = {} THEN none("prose")
  ELSE DecodeReviewOutput(text[Min(read)])

\* The coverage a formatter's text holds: any list is taken for one.
ParseSkillCoverage(text) ==
  LET read == SelectSeq(text, LAMBDA c : c.form = "list" \/ c.coverage # Nothing) IN
  IF read = <<>> THEN Nothing ELSE Head(read).coverage

StatusOf(text) ==
  LET answer == Answered(text) IN
  CASE answer.raw = "blank" -> "empty_response"
    [] answer.raw = "prose" -> "unparseable"
    [] answer.raw = "broken" -> "tool_loop_incomplete"
    [] answer.raw = "json" -> IF Len(answer.requests) > MaxRequests THEN "tool_loop_incomplete"
                              ELSE IF answer.findings = <<>> THEN "empty_findings" ELSE "parsed"
Audited(text) == StatusOf(text) \notin Fatal

\* parseReviewOutputDetailed: an answer that cannot be audited has no content.
Read(text) ==
  LET answer == IF Audited(text) THEN Answered(text) ELSE Answered(<<>>) IN
  [status |-> StatusOf(text), findings |-> answer.findings, coverage |-> answer.coverage,
   requests |-> answer.requests]

(***************************************************************************)
(* Coverage.                                                                *)
(***************************************************************************)
SkillCoverageIsMeaningful(item) ==
  \/ item.said = "covered"
  \/ item.said = "uncovered" /\ item.backed
CoverageOf(coverage, name) ==
  IF name \in DOMAIN coverage THEN coverage[name]
  ELSE [said |-> "missing", backed |-> FALSE, checks |-> {}]
Covered(coverage, name) == SkillCoverageIsMeaningful(CoverageOf(coverage, name))

\* Mutant of CombineBatchCoverage: one batch may speak for all.
CombineAny(reads, texts) ==
  [name \in UNION {DOMAIN reads[i].coverage : i \in DOMAIN reads} |->
     LET i == CHOOSE j \in DOMAIN reads : name \in DOMAIN reads[j].coverage
     IN reads[i].coverage[name]]

\* A skill is covered when every batch covers it, once; its checks are those of
\* all batches together.  A single batch is taken as it is.
CombineBatchCoverage(reads, texts) ==
  LET named(name) == {i \in DOMAIN reads : name \in DOMAIN reads[i].coverage}
      first(name) == CHOOSE i \in named(name) : \A j \in named(name) : i <= j
      whole(name) == \A i \in DOMAIN reads :
        Covered(reads[i].coverage, name) /\ name \notin Answered(texts[i]).repeated IN
  IF Len(reads) = 1 THEN reads[1].coverage
  ELSE [name \in UNION {DOMAIN reads[i].coverage : i \in DOMAIN reads} |->
          [said   |-> IF whole(name) THEN reads[first(name)].coverage[name].said
                      ELSE "incomplete_batch_coverage",
           backed |-> \E i \in named(name) : reads[i].coverage[name].backed,
           checks |-> UNION {reads[i].coverage[name].checks : i \in named(name)}]]

(***************************************************************************)
(* The answers to the batches of a review, in the order of the batches.     *)
(***************************************************************************)
\* Mutant of BatchStatus: a later batch that was read hides one that was not.
BatchStatusLast(reads) ==
  IF reads[Len(reads)].status \in Fatal THEN reads[Len(reads)].status
  ELSE IF \E i \in DOMAIN reads : reads[i].findings # <<>> THEN "parsed" ELSE "empty_findings"

\* The last batch that could not be audited decides.
BatchStatus(reads) ==
  LET fatal == {i \in DOMAIN reads : reads[i].status \in Fatal} IN
  IF fatal # {} THEN reads[Max(fatal)].status
  ELSE IF \E i \in DOMAIN reads : reads[i].findings # <<>> THEN "parsed" ELSE "empty_findings"

ParseReviewResponses(texts) ==
  LET reads == [i \in DOMAIN texts |-> Read(texts[i])]
      status == BatchStatus(reads)
      requests == FlattenSeq([i \in DOMAIN reads |-> reads[i].requests])
      many == Len(requests) > MaxRequests IN
  [status   |-> IF status \notin Fatal /\ many THEN "tool_loop_incomplete" ELSE status,
   findings |-> FlattenSeq([i \in DOMAIN reads |-> reads[i].findings]),
   coverage |-> CombineBatchCoverage(reads, texts),
   requests |-> IF status \in Fatal \/ many THEN <<>> ELSE requests]

\* A follow-up answer replaces what was found; its coverage only if it has any.
FollowUp(result, text) ==
  LET r == Read(text) IN
  [r EXCEPT !.coverage = IF r.coverage = Nothing THEN result.coverage ELSE @]

(***************************************************************************)
(* Required skills: an activation is [name, category, checks, surfaces,     *)
(* required].                                                               *)
(***************************************************************************)
RequiredOf(activations, category) == {a \in activations : a.category = category /\ a.required}

ValidateSkillCoverage(activations, coverage) ==
  {a.name : a \in {b \in activations : b.required /\
     \/ ~Covered(coverage, b.name)
     \/ b.category = "provider-api" /\ ~CoverageOf(coverage, b.name).backed}}

Lacking(coverage, a) ==
  ~Covered(coverage, a.name) \/ ~a.checks \subseteq CoverageOf(coverage, a.name).checks
CoreSkillCoverageErrors(activations, coverage) ==
  {a.name : a \in {b \in RequiredOf(activations, "core") : Lacking(coverage, b)}}

\* What the run itself can vouch for stands in for coverage the model left out;
\* a skill without checks of its own is vouched for with those given.
Vouch(a, checks) ==
  [said |-> "covered", backed |-> TRUE, checks |-> IF a.checks = {} THEN checks ELSE a.checks]
MergeSynthesized(activations, checks, coverage) ==
  LET vouched(name) == {Vouch(a, checks) : a \in {b \in activations : b.name = name}}
      lacks(name) == \E v \in vouched(name) :
        ~Covered(coverage, name) \/ ~v.checks \subseteq CoverageOf(coverage, name).checks IN
  [name \in DOMAIN coverage \cup {a.name : a \in activations} |->
     IF lacks(name) THEN CHOOSE v \in vouched(name) : TRUE ELSE coverage[name]]
=============================================================================
