---------------------------- MODULE FindingTriage ----------------------------
(* What becomes of each finding of a model's answer: accepted, left for a      *)
(* person to check, kept as a note or a question, or rejected.                 *)
(*   src/agent/pipeline/support.go                                             *)
(*                                                                             *)
(* A finding is [id, type, strength, authority, mentions, severity, sure,      *)
(* vague, path, line, cites]: UNSAID where the model left a field out; mentions  *)
(* is the best authority among the evidence its text names, sure whether its   *)
(* confidence reaches the minimum, vague whether its text is about performance *)
(* without evidence, cites the citations [source, named, quotes] with a rule   *)
(* and a violation: quotes says that the rule stands in that source, named     *)
(* that the citation says under which heading or key.                          *)
EXTENDS DiffPositions

CONSTANT UNSAID

Firm == {"sot", "decision"}        \* the authorities a finding may rest on
Severities == {"info", "low", "medium", "high", "critical"}
Strengths == {"confirmed", "likely", "speculative", "note", "question"}

\* What a finding left out is not one of the words that it may say.
ASSUME UnsaidAssumption == UNSAID \notin Strengths

Buckets == {"accepted", "human_check", "notes", "questions", "rejected"}

\* A finding as it is read: a type that is not known is "finding", and a
\* strength that is not known was not said.
IsFinding(f) ==
  /\ DOMAIN f = {"id", "type", "strength", "authority", "mentions", "severity", "sure", "vague",
                 "path", "line", "cites"}
  /\ f.type \in {"finding", "note", "question"} /\ f.strength \in Strengths \cup {UNSAID}
  /\ f.line \in Int

\* Only firm authority confirms; a finding that calls itself a note or a
\* question is one.  Without any evidence the model is taken at its word.
NormalizeReviewFinding(f, evidence) ==
  LET authority == IF f.authority # UNSAID THEN f.authority
                   ELSE IF evidence = {} THEN "sot" ELSE f.mentions
      claimed == CASE f.strength # UNSAID -> f.strength
                   [] f.strength = UNSAID /\ f.type # "finding" -> f.type
                   [] f.strength = UNSAID /\ f.type = "finding" ->
                        IF authority \in Firm THEN "confirmed" ELSE "likely"
      strength == IF claimed = "confirmed" /\ authority \notin Firm THEN "likely" ELSE claimed
  IN [f EXCEPT !.authority = authority, !.strength = strength,
               !.type = IF f.type = "finding" /\ strength \in {"note", "question"} THEN strength ELSE f.type]

\* A citation of selected firm evidence whose text holds the rule it quotes.
ValidFindingCitation(evidence, c) ==
  \E e \in evidence : e.source = c.source /\ e.authority \in Firm /\ c.quotes

\* Mutant of CitationsHold: that something is cited is enough.
AnyCitation(evidence, f) == evidence # {} => f.cites # {}
CitationsHold(evidence, f) ==
  evidence # {} => \E c \in f.cites : ValidFindingCitation(evidence, c)

\* When the finding at i repeats an id, whatever became of the first.
Repeats(findings, i) ==
  findings[i].id # UNSAID /\ \E j \in 1..(i - 1) : findings[j].id = findings[i].id

ShouldDowngradeSpeculative(f) == f.strength = "speculative" \/ f.vague

\* A claim that is confirmed or grave needs firm authority.
ShouldDowngradeByAuthority(f) ==
  /\ f.type = "finding" /\ f.authority \notin Firm
  /\ f.strength = "confirmed" \/ f.severity \in {"high", "critical"}

\* What becomes of a normalised finding: the first rule that applies decides.
\* A likely finding, or one that is out of place and unconfirmed, goes to a person.
TriageRules(f, repeats, files, evidence) ==
  LET likely == IF f.strength = "likely" THEN "human_check" ELSE "rejected"
      unsure == IF f.strength # "confirmed" THEN "human_check" ELSE "rejected"
      rule(when, then) == [when |-> when, then |-> then] IN
  << rule(repeats, "rejected"),
     rule(f.type = "finding" /\ (f.severity \notin Severities \/ ~f.sure), "rejected"),
     rule(f.type = "note" \/ f.strength = "note", "notes"),
     rule(f.type = "question" \/ f.strength = "question", "questions"),
     rule(ShouldDowngradeSpeculative(f), "notes"),
     rule(f.path = NOWHERE, likely),
     rule(files # <<>> /\ f.path \notin Paths(files), unsure),
     rule(f.line <= 0, likely),
     rule(DOMAIN LinesByPath(files) # {} /\ ~FindingLineAddressable(files, f.path, f.line), unsure),
     rule(f.strength = "likely" \/ ShouldDowngradeByAuthority(f), "human_check"),
     rule(f.strength = "confirmed" /\ ~CitationsHold(evidence, f), "human_check"),
     rule(TRUE, "accepted") >>

BucketOf(f, repeats, files, evidence) ==
  LET first(rules) == rules[Min({i \in DOMAIN rules : rules[i].when})] IN
  CHOOSE b \in {first(rules).then : rules \in {TriageRules(f, repeats, files, evidence)}} : TRUE

\* Mutant of Validate: an id may come twice.
ValidateRepeating(findings, files, evidence) ==
  [i \in DOMAIN findings |-> CHOOSE b \in
     {BucketOf(f, FALSE, files, evidence) : f \in {NormalizeReviewFinding(findings[i], evidence)}} : TRUE]

\* The bucket of each finding of an answer.
Validate(findings, files, evidence) ==
  [i \in DOMAIN findings |-> CHOOSE b \in
     {BucketOf(f, Repeats(findings, i), files, evidence) :
      f \in {NormalizeReviewFinding(findings[i], evidence)}} : TRUE]

AcceptedIn(sorted) == {i \in DOMAIN sorted : sorted[i] = "accepted"}

(***************************************************************************)
(* Inline comments: one per accepted finding that can be placed.            *)
(***************************************************************************)
\* A comment is published only where the provider will take it: on an
\* addressable line, with the revisions the provider asks for known.
ResolveInlineDraftComment(files, f, refsKnown) ==
  IF f.path # NOWHERE /\ FindingLineAddressable(files, f.path, f.line) /\ refsKnown
    THEN "validated" ELSE "skipped"
=============================================================================
