--------------------------- MODULE ReviewPartsProofs ---------------------------
(* Facts about what a review is made of: the policy that a document compiles   *)
(* to, what is read in a model's answers, the lines of a change, the sorting   *)
(* of findings, the quality gate and the selection of the documents.           *)
EXTENDS RepositoryPolicy, QualityGate, CorpusSelection, FiniteSetTheorems, SequenceTheorems,
        WellFoundedInduction, TLAPS

(***************************************************************************)
(* Least and greatest elements; sequences of sequences.                     *)
(***************************************************************************)
LEMMA LeastElement ==
  ASSUME NEW S \in SUBSET Nat, S # {}
  PROVE  Min(S) \in S /\ \A y \in S : Min(S) <= y
<1> DEFINE R == {pair \in Nat \X Nat : pair[1] < pair[2]}
<1>1. IsWellFoundedOn(R, Nat) BY NatLessThanWellFounded DEF OpToRel
<1>2. \E x \in S : \A y \in S : x <= y
  <2> HIDE DEF R
  <2>1. PICK x \in S : \A y \in S : ~(<<y, x>> \in R) BY <1>1, WFMin
  <2>2. ASSUME NEW y \in S PROVE x <= y
    <3>1. x \in Nat /\ y \in Nat BY SMT
    <3>2. ~(<<y, x>> \in R) BY <2>1
    <3>3. ~(y < x) BY <3>1, <3>2 DEF R
    <3> QED BY <3>1, <3>3
  <2> QED BY <2>2
<1> QED BY <1>2 DEF Min

LEMMA GreatestElement ==
  ASSUME NEW n \in Nat, NEW S \in SUBSET (0..n), S # {}
  PROVE  Max(S) \in S /\ \A y \in S : Max(S) >= y
<1> DEFINE T == {n - x : x \in S}
<1>1. T \in SUBSET Nat /\ T # {} OBVIOUS
<1>2. Min(T) \in T /\ \A y \in T : Min(T) <= y BY <1>1, LeastElement
<1>3. PICK x \in S : Min(T) = n - x BY <1>2
<1>4. ASSUME NEW y \in S PROVE x >= y
  <2>1. n - y \in T /\ n - x <= n - y BY <1>2, <1>3
  <2>2. x \in Nat /\ y \in Nat BY SMT
  <2> QED BY <2>1, <2>2
<1>5. \E z \in S : \A y \in S : z >= y BY <1>4
<1> QED BY <1>5 DEF Max

\* A set of indices has a first one, and one that has no first is empty.
LEMMA FirstIndex ==
  ASSUME NEW n \in Nat, NEW S \in SUBSET (1..n),
         \A k \in 1..n : k \in S => \E j \in 1..n : j < k /\ j \in S
  PROVE  S = {}
<1> SUFFICES ASSUME S # {} PROVE FALSE OBVIOUS
<1>1. S \in SUBSET Nat OBVIOUS
<1>2. Min(S) \in S /\ \A y \in S : Min(S) <= y BY <1>1, LeastElement
<1>3. PICK k \in S : \A y \in S : k <= y BY <1>2
<1>4. PICK j \in 1..n : j < k /\ j \in S OBVIOUS
<1> QED BY <1>3, <1>4

\* The sequences of a sequence, end to end, hold only what these hold.
LEMMA FlattenedElements ==
  ASSUME NEW S, NEW seqs \in Seq(Seq(S))
  PROVE  FlattenSeq(seqs) \in Seq(S)
<1> DEFINE n == Len(seqs)
           Step(g, i) == g[i] = IF i = 1 THEN seqs[i] ELSE g[i - 1] \o seqs[i]
           Joined(g, k) == DOMAIN g = 1..k /\ \A i \in 1..k : g[i] \in Seq(S) /\ Step(g, i)
           lacking == {k \in 1..n : ~\E g : Joined(g, k)}
           defines(f) == f = [i \in 1..n |-> IF i = 1 THEN seqs[i] ELSE f[i - 1] \o seqs[i]]
<1>0. n \in Nat /\ \A i \in 1..n : seqs[i] \in Seq(S) OBVIOUS
<1>1. CASE n = 0
  BY <1>1 DEF FlattenSeq
<1>2. CASE n > 0
  <2>1. ASSUME NEW k \in 1..n, k \in lacking PROVE \E j \in 1..n : j < k /\ j \in lacking
    <3>1. CASE k = 1
      <4>1. Joined([i \in 1..1 |-> seqs[i]], 1) BY <1>0, <1>2
      <4> QED BY <3>1, <4>1, <2>1
    <3>2. CASE k > 1 /\ k - 1 \notin lacking
      <4>0. k - 1 \in 1..n /\ k - 1 \in 1..(k - 1) BY <1>0, <3>2
      <4>1. \E g : Joined(g, k - 1) BY <3>2, <4>0
      <4>2. PICK g : Joined(g, k - 1) BY <4>1
      <4> DEFINE h == [i \in 1..k |-> IF i = k THEN g[k - 1] \o seqs[k] ELSE g[i]]
      <4>3. g[k - 1] \o seqs[k] \in Seq(S)
        <5>1. g[k - 1] \in Seq(S) BY <4>2, <4>0
        <5>2. seqs[k] \in Seq(S) BY <1>0
        <5> QED BY <5>1, <5>2
      <4>4. ASSUME NEW i \in 1..k PROVE h[i] \in Seq(S) /\ Step(h, i)
        <5>1. CASE i = k
          <6>1. h[k] = g[k - 1] \o seqs[k]
            <7>1. k \in 1..k BY <3>2
            <7> QED BY <7>1
          <6>2. k - 1 \in 1..k /\ k - 1 # k BY <4>0
          <6>3. h[k - 1] = g[k - 1] BY <6>2
          <6>4. h[k] \in Seq(S) /\ h[k] = h[k - 1] \o seqs[k] BY <4>3, <6>1, <6>3
          <6> HIDE DEF h
          <6>5. Step(h, k)
            <7>1. k # 1 BY <1>0, <3>2
            <7> QED BY <6>4, <7>1
          <6> HIDE DEF Step
          <6> QED BY <5>1, <6>4, <6>5
        <5>2. CASE i # k
          <6>1. i \in 1..(k - 1) BY <5>2
          <6>2. h[i] = g[i] BY <5>2
          <6>3. i # 1 => h[i - 1] = g[i - 1] BY <6>1
          <6>4. g[i] \in Seq(S) /\ Step(g, i) BY <4>2, <6>1
          <6> QED BY <6>2, <6>3, <6>4
        <5> QED BY <5>1, <5>2
      <4>5. Joined(h, k) BY <4>4
      <4> HIDE DEF h, Joined
      <4> QED BY <4>5, <2>1
    <3>3. CASE k > 1 /\ k - 1 \in lacking
      <4> DEFINE m == k - 1
      <4>1. m \in 1..n /\ m < k BY <1>0, <3>3
      <4>2. m \in lacking BY <3>3
      <4> HIDE DEF lacking, n, m
      <4> QED BY <4>1, <4>2
    <3>4. k = 1 \/ k > 1 BY <1>0
    <3> HIDE DEF lacking, n
    <3> QED BY <3>1, <3>2, <3>3, <3>4
  <2>2. lacking = {}
    <3> HIDE DEF lacking, n
    <3>1. lacking \in SUBSET (1..n) BY DEF lacking
    <3> QED BY <1>0, <2>1, <3>1, FirstIndex
  <2>3. \E g : Joined(g, n)
    <3>0. n \in 1..n BY <1>2, <1>0
    <3>1. n \in 1..n /\ n \notin lacking
      <4> HIDE DEF lacking
      <4> QED BY <3>0, <2>2
    <3> HIDE DEF Joined, n
    <3> QED BY <3>1
  <2>4. PICK g : Joined(g, n) BY <2>3
  <2>5. defines([i \in 1..n |-> g[i]])
    <3>1. \A i \in 1..n : i # 1 => [j \in 1..n |-> g[j]][i - 1] = g[i - 1] BY <1>0
    <3> QED BY <2>4, <3>1
  <2> DEFINE f == CHOOSE h : defines(h)
  <2>6. defines(f)
    <3> HIDE DEF defines
    <3> QED BY <2>5
  <2> DEFINE bad == {k \in 1..n : f[k] \notin Seq(S)}
  <2>7. ASSUME NEW k \in 1..n, k \in bad PROVE \E j \in 1..n : j < k /\ j \in bad
    <3>1. f[k] = IF k = 1 THEN seqs[k] ELSE f[k - 1] \o seqs[k]
      <4> HIDE DEF f
      <4> QED BY <2>6
    <3> HIDE DEF f
    <3>2. seqs[k] \in Seq(S) BY <1>0
    <3>3. CASE k = 1 BY <2>7, <3>1, <3>2, <3>3
    <3>4. CASE k # 1
      <4>1. k - 1 \in 1..n /\ k - 1 < k BY <1>0, <3>4
      <4>2. f[k] = f[k - 1] \o seqs[k] BY <3>1, <3>4
      <4>3. f[k - 1] \in Seq(S) => f[k - 1] \o seqs[k] \in Seq(S) BY <3>2
      <4>4. f[k] \notin Seq(S) BY <2>7
      <4> QED BY <4>1, <4>2, <4>3, <4>4
    <3> QED BY <3>3, <3>4
  <2>8. bad = {}
    <3> HIDE DEF bad, n
    <3>1. bad \in SUBSET (1..n) BY DEF bad
    <3> QED BY <1>0, <2>7, <3>1, FirstIndex
  <2>9. f[n] \in Seq(S)
    <3> HIDE DEF f
    <3> QED BY <1>0, <1>2, <2>8
  <2>10. FlattenSeq(seqs) = f[n]
    BY <1>2 DEF FlattenSeq
  <2> QED BY <2>9, <2>10
<1> QED BY <1>0, <1>1, <1>2

(***************************************************************************)
(* What is read in the texts of a model.                                    *)
(***************************************************************************)
AreFindings(found) == found \in Seq({f \in Range(found) : IsFinding(f)})

LEMMA FindingsOf ==
  ASSUME NEW found, AreFindings(found)
  PROVE  /\ Len(found) \in Nat /\ DOMAIN found = 1..Len(found) /\ found = [i \in 1..Len(found) |-> found[i]]
         /\ \A i \in DOMAIN found : IsFinding(found[i])
<1> DEFINE S == {f \in Range(found) : IsFinding(f)}
<1>1. found \in Seq(S) BY DEF AreFindings
<1>2. \A f \in S : IsFinding(f) OBVIOUS
<1> HIDE DEF S
<1> QED BY <1>1, <1>2

LEMMA FindingsFrom ==
  ASSUME NEW n \in Nat, NEW found, found = [i \in 1..n |-> found[i]], \A i \in 1..n : IsFinding(found[i])
  PROVE  AreFindings(found)
<1> DEFINE S == {f \in Range(found) : IsFinding(f)}
<1>1. DOMAIN found = 1..n OBVIOUS
<1>2. \A i \in 1..n : found[i] \in S BY <1>1 DEF Range
<1> HIDE DEF S
<1>3. [i \in 1..n |-> found[i]] \in Seq(S) BY <1>2
<1>4. found \in Seq(S) BY <1>3
<1> QED BY <1>4 DEF AreFindings, S

LEMMA FindingsFlattened ==
  ASSUME NEW n \in Nat, NEW seqs, seqs = [i \in 1..n |-> seqs[i]], \A i \in 1..n : AreFindings(seqs[i])
  PROVE  AreFindings(FlattenSeq(seqs))
<1> DEFINE S == {f \in UNION {Range(seqs[i]) : i \in 1..n} : IsFinding(f)}
<1>1. ASSUME NEW i \in 1..n PROVE seqs[i] \in Seq(S)
  <2>1. Range(seqs[i]) \subseteq UNION {Range(seqs[j]) : j \in 1..n} OBVIOUS
  <2>2. {f \in Range(seqs[i]) : IsFinding(f)} \subseteq S BY <2>1
  <2>3. seqs[i] \in Seq({f \in Range(seqs[i]) : IsFinding(f)}) BY DEF AreFindings
  <2> HIDE DEF S
  <2> DEFINE T == {f \in Range(seqs[i]) : IsFinding(f)}
  <2>4. T \subseteq S BY <2>2
  <2>5. seqs[i] \in Seq(T) BY <2>3
  <2> HIDE DEF T
  <2> QED BY <2>4, <2>5
<1>2. seqs \in Seq(Seq(S))
  <2> DEFINE Q == Seq(S)
  <2>1. \A i \in 1..n : seqs[i] \in Q BY <1>1
  <2> HIDE DEF S, Q
  <2>2. [i \in 1..n |-> seqs[i]] \in Seq(Q) BY <2>1
  <2>3. seqs \in Seq(Q) BY <2>2
  <2> QED BY <2>3 DEF Q
<1>3. FlattenSeq(seqs) \in Seq(S)
  <2> HIDE DEF S
  <2> QED BY <1>2, FlattenedElements
<1> DEFINE flat == FlattenSeq(seqs)
<1>4. /\ Len(flat) \in Nat /\ flat = [i \in 1..Len(flat) |-> flat[i]]
      /\ \A i \in 1..Len(flat) : flat[i] \in S
  <2>1. flat \in Seq(S) BY <1>3
  <2> HIDE DEF flat, S
  <2> QED BY <2>1
<1>5. \A i \in 1..Len(flat) : IsFinding(flat[i]) BY <1>4
<1> HIDE DEF flat
<1>6. AreFindings(flat) BY <1>4, <1>5, FindingsFrom
<1> QED BY <1>6 DEF flat

\* A text is of one status, and what can be audited in it are findings.
LEMMA StatusKnown ==
  ASSUME NEW text
  PROVE  StatusOf(text) \in Statuses
<1>1. Answered(text).raw \in {"blank", "prose", "json", "broken"}
  BY DEF Answered, DecodeReviewOutput
<1> QED BY <1>1 DEF StatusOf, Statuses, Fatal

LEMMA DecodedFindings ==
  ASSUME NEW c, AreFindings(c.findings)
  PROVE  AreFindings(DecodeReviewOutput(c).findings)
<1> DEFINE n == Len(c.findings)
<1>1. n \in Nat /\ DOMAIN c.findings = 1..n /\ \A i \in 1..n : IsFinding(c.findings[i])
  BY FindingsOf
<1>2. CASE c.form = "envelope" BY <1>2 DEF DecodeReviewOutput
<1>3. CASE c.form # "envelope"
  <2> DEFINE found == [i \in 1..n |-> IF c.form = "loose" THEN DecodeLenientFinding(c.findings[i], c.unread) ELSE c.findings[i]]
  <2>1. DecodeReviewOutput(c).findings = found BY <1>1, <1>3 DEF DecodeReviewOutput
  <2>2. ASSUME NEW i \in 1..n PROVE IsFinding(found[i])
    <3>1. IsFinding(c.findings[i]) BY <1>1
    <3>2. IsFinding(DecodeLenientFinding(c.findings[i], c.unread))
      BY <3>1 DEF IsFinding, DecodeLenientFinding
    <3> HIDE DEF n
    <3> QED BY <3>1, <3>2
  <2> DEFINE f == found
  <2>3. f = [i \in 1..n |-> f[i]] OBVIOUS
  <2>4. \A i \in 1..n : IsFinding(f[i]) BY <2>2
  <2> HIDE DEF f, n
  <2>5. AreFindings(f) BY <1>1, <2>3, <2>4, FindingsFrom
  <2> QED BY <2>1, <2>5 DEF f
<1> QED BY <1>2, <1>3

LEMMA ReadFindings ==
  ASSUME NEW text, IsText(text)
  PROVE  AreFindings(Read(text).findings)
<1>0. AreFindings(<<>>) BY DEF AreFindings
<1> DEFINE T == {c \in Range(text) : c.findings \in Seq({f \in Range(c.findings) : IsFinding(f)})}
<1>1. text \in Seq(T) BY DEF IsText
<1>2. \A c \in T : AreFindings(c.findings) BY DEF AreFindings
<1>3. \A k \in DOMAIN text : AreFindings(text[k].findings)
  <2> HIDE DEF T
  <2> QED BY <1>1, <1>2
<1> DEFINE read == {k \in DOMAIN text : text[k].form \in {"envelope", "list", "loose"}}
<1>4. read # {} => Min(read) \in DOMAIN text
  <2>1. DOMAIN text \subseteq Nat
    <3> HIDE DEF T
    <3> QED BY <1>1
  <2>2. read \in SUBSET Nat BY <2>1
  <2>3. read \subseteq DOMAIN text OBVIOUS
  <2> HIDE DEF read
  <2> QED BY <2>2, <2>3, LeastElement
<1>5. AreFindings(Answered(text).findings)
  <2>1. CASE text = <<>> BY <1>0, <2>1 DEF Answered
  <2>2. CASE text # <<>> /\ read = {}
    <3>1. Answered(text).findings = <<>> BY <2>2 DEF Answered
    <3> QED BY <1>0, <3>1
  <2>3. CASE text # <<>> /\ read # {}
    <3>1. Answered(text) = DecodeReviewOutput(text[Min(read)]) BY <2>3 DEF Answered
    <3>2. AreFindings(text[Min(read)].findings) BY <1>3, <1>4, <2>3
    <3> HIDE DEF read
    <3> QED BY <3>1, <3>2, DecodedFindings
  <2> QED BY <2>1, <2>2, <2>3
<1>6. Answered(<<>>).findings = <<>> BY DEF Answered
<1> QED BY <1>0, <1>5, <1>6 DEF Read

\* The status of a review's answers is known; it is good only when every batch
\* can be audited, and nothing is asked for otherwise.
LEMMA BatchesRead ==
  ASSUME NEW n \in Nat \ {0}, NEW texts, texts = [b \in 1..n |-> texts[b]],
         NEW r, r = ParseReviewResponses(texts)
  PROVE  /\ r.status \in Statuses
         /\ r.status \notin Fatal \/ r.requests # <<>> => \A b \in 1..n : Audited(texts[b])
         /\ r.coverage = CombineBatchCoverage([b \in DOMAIN texts |-> Read(texts[b])], texts)
<1> DEFINE reads == [i \in DOMAIN texts |-> Read(texts[i])]
           fatal == {i \in DOMAIN reads : reads[i].status \in Fatal}
           status == BatchStatus(reads)
           requests == FlattenSeq([i \in DOMAIN reads |-> reads[i].requests])
           many == Len(requests) > MaxRequests
<1>1. DOMAIN texts = 1..n /\ DOMAIN reads = 1..n OBVIOUS
<1>2. \A i \in 1..n : reads[i].status = StatusOf(texts[i]) BY <1>1 DEF Read
<1>3. fatal # {} => Max(fatal) \in fatal
  <2>1. fatal \in SUBSET (0..n) BY <1>1
  <2> HIDE DEF fatal
  <2> QED BY <2>1, GreatestElement
<1>4. fatal # {} => status = reads[Max(fatal)].status BY DEF BatchStatus
<1>5. fatal = {} => status \in {"parsed", "empty_findings"} BY DEF BatchStatus
<1>6. status \in Statuses
  <2>1. CASE fatal # {}
    <3>1. Max(fatal) \in 1..n BY <1>1, <1>3, <2>1
    <3> HIDE DEF fatal, status, reads
    <3> QED BY <3>1, <2>1, <1>2, <1>4, StatusKnown
  <2>2. CASE fatal = {} BY <2>2, <1>5 DEF Statuses
  <2> QED BY <2>1, <2>2
<1>7. status \notin Fatal => \A b \in 1..n : Audited(texts[b])
  <2>1. ASSUME status \notin Fatal PROVE fatal = {}
    <3>1. fatal # {} => reads[Max(fatal)].status \in Fatal BY <1>3
    <3> HIDE DEF fatal, status, reads
    <3> QED BY <3>1, <1>4, <2>1
  <2>2. ASSUME fatal = {}, NEW b \in 1..n PROVE Audited(texts[b])
    <3>1. reads[b].status \notin Fatal BY <1>1, <2>2
    <3> HIDE DEF reads
    <3> QED BY <3>1, <1>2 DEF Audited
  <2> QED BY <2>1, <2>2
<1>8. r = [status |-> IF status \notin Fatal /\ many THEN "tool_loop_incomplete" ELSE status,
           findings |-> FlattenSeq([i \in DOMAIN reads |-> reads[i].findings]),
           coverage |-> CombineBatchCoverage(reads, texts),
           requests |-> IF status \in Fatal \/ many THEN <<>> ELSE requests]
  BY DEF ParseReviewResponses
<1> HIDE DEF status, many, requests, fatal
<1>9. r.status \in Statuses BY <1>6, <1>8 DEF Statuses, Fatal
<1>10. r.status \notin Fatal \/ r.requests # <<>> => status \notin Fatal BY <1>8 DEF Fatal
<1> HIDE DEF reads
<1>11. r.coverage = CombineBatchCoverage(reads, texts) BY <1>8
<1> QED BY <1>7, <1>9, <1>10, <1>11 DEF reads

LEMMA BatchesFound ==
  ASSUME NEW n \in Nat \ {0}, NEW texts, texts = [b \in 1..n |-> texts[b]], \A b \in 1..n : IsText(texts[b])
  PROVE  AreFindings(ParseReviewResponses(texts).findings)
<1> DEFINE reads == [i \in DOMAIN texts |-> Read(texts[i])]
           seqs == [i \in DOMAIN reads |-> reads[i].findings]
<1>1. DOMAIN texts = 1..n /\ DOMAIN reads = 1..n OBVIOUS
<1>2. seqs = [i \in 1..n |-> seqs[i]] BY <1>1
<1>3. ASSUME NEW i \in 1..n PROVE AreFindings(seqs[i])
  <2>1. AreFindings(Read(texts[i]).findings) BY ReadFindings
  <2>2. seqs[i] = Read(texts[i]).findings BY <1>1
  <2> QED BY <2>1, <2>2
<1>4. AreFindings(FlattenSeq(seqs))
  <2> HIDE DEF seqs
  <2> QED BY <1>2, <1>3, FindingsFlattened
<1>5. ParseReviewResponses(texts).findings = FlattenSeq(seqs) BY DEF ParseReviewResponses
<1> QED BY <1>4, <1>5

\* A follow-up is read as any text is.
LEMMA FollowUpRead ==
  ASSUME NEW old, NEW text, IsText(text), NEW r, r = FollowUp(old, text)
  PROVE  r.status \in Statuses /\ AreFindings(r.findings)
<1>1. r.status = StatusOf(text) /\ r.findings = Read(text).findings BY DEF FollowUp, Read
<1> QED BY <1>1, StatusKnown, ReadFindings

(***************************************************************************)
(* What the batches say of a skill.                                         *)
(***************************************************************************)
LEMMA CombinedIsWhole ==
  ASSUME NEW n \in Nat \ {0}, NEW reads, reads = [b \in 1..n |-> reads[b]], NEW texts, NEW name,
         Covered(CombineBatchCoverage(reads, texts), name)
  PROVE  /\ \A b \in 1..n : Covered(reads[b].coverage, name)
         /\ \A check \in CoverageOf(CombineBatchCoverage(reads, texts), name).checks :
              \E b \in 1..n : name \in DOMAIN reads[b].coverage /\ check \in reads[b].coverage[name].checks
<1> DEFINE combined == CombineBatchCoverage(reads, texts)
           named == {i \in DOMAIN reads : name \in DOMAIN reads[i].coverage}
           whole == \A i \in DOMAIN reads :
             Covered(reads[i].coverage, name) /\ name \notin Answered(texts[i]).repeated
           first == CHOOSE i \in named : \A j \in named : i <= j
<1>1. DOMAIN reads = 1..n OBVIOUS
<1>2. name \in DOMAIN combined /\ CoverageOf(combined, name) = combined[name]
  <2> HIDE DEF combined
  <2>1. Covered(combined, name) BY DEF combined
  <2> QED BY <2>1 DEF Covered, CoverageOf, SkillCoverageIsMeaningful
<1>3. CASE n = 1
  <2>1. Len(reads) = 1 BY <1>1, <1>3
  <2>2. combined = reads[1].coverage BY <2>1 DEF CombineBatchCoverage
  <2> HIDE DEF combined
  <2> QED BY <1>2, <1>3, <2>2 DEF combined
<1>4. CASE n # 1
  <2>1. Len(reads) # 1 BY <1>1, <1>4
  <2>2. /\ DOMAIN combined = UNION {DOMAIN reads[i].coverage : i \in DOMAIN reads}
        /\ combined[name] = [said |-> IF whole THEN reads[first].coverage[name].said
                                      ELSE "incomplete_batch_coverage",
                             backed |-> \E i \in named : reads[i].coverage[name].backed,
                             checks |-> UNION {reads[i].coverage[name].checks : i \in named}]
    BY <1>2, <2>1 DEF CombineBatchCoverage
  <2>3. SkillCoverageIsMeaningful(combined[name])
    <3> HIDE DEF combined
    <3>1. Covered(combined, name) BY DEF combined
    <3> QED BY <1>2, <3>1 DEF Covered
  <2>4. whole
    <3> HIDE DEF whole, first, combined, named
    <3>1. combined[name].said = IF whole THEN reads[first].coverage[name].said
                                ELSE "incomplete_batch_coverage"
      BY <2>2
    <3>2. combined[name].said \in {"covered", "uncovered"} BY <2>3 DEF SkillCoverageIsMeaningful
    <3> QED BY <3>1, <3>2
  <2>5. CoverageOf(combined, name).checks = UNION {reads[i].coverage[name].checks : i \in named}
    <3> HIDE DEF whole, first, combined, named
    <3> QED BY <1>2, <2>2
  <2> QED BY <1>1, <2>4, <2>5
<1> QED BY <1>3, <1>4

(***************************************************************************)
(* Lines of a change.                                                       *)
(***************************************************************************)
LEMMA HunkBefore ==
  ASSUME NEW patch, NEW i \in Nat, \E h \in 1..i : patch[h].is = "hunk"
  PROVE  Max({h \in 1..i : patch[h].is = "hunk"}) \in 1..i
<1> DEFINE H == {h \in 1..i : patch[h].is = "hunk"}
<1>1. H \in SUBSET (0..i) /\ H # {} OBVIOUS
<1>2. H \subseteq 1..i OBVIOUS
<1> HIDE DEF H
<1>3. Max(H) \in H BY <1>1, GreatestElement
<1> QED BY <1>2, <1>3 DEF H

LEMMA LinesAreNumbers ==
  ASSUME NEW patch, IsPatch(patch), NEW kinds, NEW advancing
  PROVE  NewSide(patch, kinds, advancing) \subseteq Nat
<1> DEFINE hunk(i) == Max({h \in 1..i : patch[h].is = "hunk"})
           passed(i) == {j \in (hunk(i) + 1)..(i - 1) : patch[j].is \in advancing}
           number(i) == patch[hunk(i)].at + Cardinality(passed(i))
           numbered(i) == \E h \in 1..i : patch[h].is = "hunk"
           listed == {j \in DOMAIN patch : patch[j].is \in kinds /\ numbered(j) /\ patch[hunk(j)].at > 0}
<1>1. /\ Len(patch) \in Nat /\ DOMAIN patch = 1..Len(patch)
      /\ \A i \in DOMAIN patch : patch[i].at \in Nat
  <2> DEFINE L == {l \in Range(patch) : DOMAIN l = {"is", "at"} /\ l.at \in Nat}
  <2>1. patch \in Seq(L) BY DEF IsPatch
  <2>2. \A l \in L : l.at \in Nat OBVIOUS
  <2> HIDE DEF L
  <2> QED BY <2>1, <2>2
<1>2. ASSUME NEW i \in DOMAIN patch, numbered(i) PROVE number(i) \in Nat
  <2>1. i \in Nat BY <1>1
  <2>2. hunk(i) \in 1..i BY <1>2, <2>1, HunkBefore
  <2> DEFINE h == hunk(i)
  <2>3. h \in 1..i BY <2>2
  <2>4. patch[h].at \in Nat
    <3> HIDE DEF h
    <3> QED BY <1>1, <2>3
  <2>5. Cardinality(passed(i)) \in Nat
    <3> DEFINE P == {j \in (h + 1)..(i - 1) : patch[j].is \in advancing}
    <3> HIDE DEF h
    <3>1. IsFiniteSet((h + 1)..(i - 1)) BY <2>1, <2>3, FS_Interval
    <3>2. P \subseteq (h + 1)..(i - 1) OBVIOUS
    <3> HIDE DEF P
    <3>3. Cardinality(P) \in Nat BY <3>1, <3>2, FS_Subset, FS_CardinalityType
    <3> QED BY <3>3 DEF P, h
  <2> QED BY <2>4, <2>5
<1>3. NewSide(patch, kinds, advancing) = {number(i) : i \in listed} BY DEF NewSide
<1>4. \A i \in listed : i \in DOMAIN patch /\ numbered(i) OBVIOUS
<1> HIDE DEF listed, number, numbered
<1> QED BY <1>2, <1>3, <1>4

\* What the program reads as added is added, in a patch it can read.
LEMMA ReadAsAdded ==
  ASSUME NEW patch, IsPatch(patch), Readable(patch)
  PROVE  ChangedNewLines(patch) \subseteq AddedLines(patch)
<1> DEFINE hunk(i) == Max({h \in 1..i : patch[h].is = "hunk"})
           passed(i, kinds) == {j \in (hunk(i) + 1)..(i - 1) : patch[j].is \in kinds}
           numbered(i) == \E h \in 1..i : patch[h].is = "hunk"
           read == {"add", "keep", "no newline"}
           real == {"add", "add++", "keep"}
           lines(kinds) == {j \in DOMAIN patch : patch[j].is \in kinds /\ numbered(j) /\ patch[hunk(j)].at > 0}
<1>1. Len(patch) \in Nat /\ DOMAIN patch = 1..Len(patch)
  <2> DEFINE L == {l \in Range(patch) : DOMAIN l = {"is", "at"} /\ l.at \in Nat}
  <2>1. patch \in Seq(L) BY DEF IsPatch
  <2> HIDE DEF L
  <2> QED BY <2>1
<1>2. ASSUME NEW i \in lines({"add"}) PROVE passed(i, read) = passed(i, real)
  <2>1. i \in DOMAIN patch /\ i \in Nat /\ patch[i].is = "add" /\ hunk(i) \in 1..i
    <3>1. i \in DOMAIN patch /\ patch[i].is = "add" /\ numbered(i) OBVIOUS
    <3>2. i \in Nat BY <1>1, <3>1
    <3> QED BY <3>1, <3>2, HunkBefore
  <2> DEFINE h == hunk(i)
  <2>2. h \in 1..i BY <2>1
  <2>3. ASSUME NEW j \in (h + 1)..(i - 1) PROVE patch[j].is \in read <=> patch[j].is \in real
    <3> HIDE DEF h
    <3>1. j \in DOMAIN patch /\ i \in (j + 1)..Len(patch) BY <1>1, <2>1, <2>2
    <3>2. patch[j].is # "add++" BY <3>1 DEF Readable
    <3>3. patch[j].is # "no newline" BY <3>1, <2>1 DEF Readable
    <3> QED BY <3>2, <3>3
  <2> QED BY <2>3
<1>3. lines({"add"}) \subseteq lines({"add", "add++"}) OBVIOUS
<1>4. ChangedNewLines(patch) = {patch[hunk(i)].at + Cardinality(passed(i, read)) : i \in lines({"add"})}
  BY DEF ChangedNewLines, NewSide
<1>5. AddedLines(patch) = {patch[hunk(i)].at + Cardinality(passed(i, real)) : i \in lines({"add", "add++"})}
  BY DEF AddedLines, NewSide
<1> HIDE DEF passed, lines, read, real
<1> QED BY <1>2, <1>3, <1>4, <1>5

AreFiles(files) == files \in Seq({file \in Range(files) : IsPatch(file.patch)})

LEMMA FilesOf ==
  ASSUME NEW files, AreFiles(files)
  PROVE  /\ Len(files) \in Nat /\ DOMAIN files = 1..Len(files)
         /\ \A i \in DOMAIN files : IsPatch(files[i].patch)
<1> DEFINE F == {file \in Range(files) : IsPatch(file.patch)}
<1>1. files \in Seq(F) BY DEF AreFiles
<1>2. \A file \in F : IsPatch(file.patch) OBVIOUS
<1> HIDE DEF F
<1> QED BY <1>1, <1>2

LEMMA FileOfPath ==
  ASSUME NEW files, NEW path \in Paths(files)
  PROVE  \E k \in DOMAIN files : FileAt(files, path) = files[k]
<1>1. \E f \in Range(files) : f.path = path BY DEF Paths, Range
<1> QED BY <1>1 DEF FileAt, Range

LEMMA AddressableLines ==
  ASSUME NEW files, AreFiles(files), NEW path, NEW line,
         FindingLineAddressable(files, path, line), \A k \in DOMAIN files : Readable(files[k].patch)
  PROVE  /\ path \in Paths(files)
         /\ line \in AddedLines(FileAt(files, path).patch) \/ FileAt(files, path).status = "added"
<1>1. CASE path \in DOMAIN LinesByPath(files) /\ line \in LinesByPath(files)[path]
  <2>1. path \in Paths(files) /\ line \in ChangedNewLines(FileAt(files, path).patch) BY <1>1 DEF LinesByPath
  <2>2. PICK k \in DOMAIN files : FileAt(files, path) = files[k] BY <2>1, FileOfPath
  <2>3. IsPatch(files[k].patch) /\ Readable(files[k].patch) BY FilesOf
  <2> QED BY <2>1, <2>2, <2>3, ReadAsAdded
<1>2. CASE path \in Paths(files) /\ FileAt(files, path).status = "added" BY <1>2
<1> QED BY <1>1, <1>2 DEF FindingLineAddressable

LEMMA LeastLine ==
  ASSUME NEW files, AreFiles(files), NEW path \in DOMAIN LinesByPath(files)
  PROVE  Min(LinesByPath(files)[path]) \in Nat
<1>1. /\ path \in Paths(files) /\ LinesByPath(files)[path] = ChangedNewLines(FileAt(files, path).patch)
      /\ LinesByPath(files)[path] # {}
  BY DEF LinesByPath
<1>2. PICK k \in DOMAIN files : FileAt(files, path) = files[k] BY <1>1, FileOfPath
<1>3. IsPatch(files[k].patch) BY FilesOf
<1>4. LinesByPath(files)[path] \in SUBSET Nat
  <2>1. ChangedNewLines(files[k].patch) \subseteq Nat BY <1>3, LinesAreNumbers DEF ChangedNewLines
  <2> QED BY <1>1, <1>2, <2>1
<1> QED BY <1>1, <1>4, LeastElement

\* Placing a finding leaves it one.
LEMMA PlacedFindings ==
  ASSUME NEW files, AreFiles(files), NEW found, AreFindings(found)
  PROVE  LET placed == NormalizeFindingLocations(files, found) IN
         AreFindings(placed) /\ DOMAIN placed = DOMAIN found
<1> DEFINE placed == NormalizeFindingLocations(files, found)
           lines == LinesByPath(files)
           n == Len(found)
<1>1. n \in Nat /\ DOMAIN found = 1..n /\ \A i \in 1..n : IsFinding(found[i]) BY FindingsOf
<1>2. placed = [i \in 1..n |-> NormalizeFindingLocation(files, found[i])] BY <1>1 DEF NormalizeFindingLocations
<1>3. ASSUME NEW f, IsFinding(f) PROVE IsFinding(NormalizeFindingLocation(files, f))
  <2>1. ASSUME NEW line \in Nat, NEW path PROVE IsFinding([f EXCEPT !.path = path, !.line = line])
    BY <1>3 DEF IsFinding
  <2>2. ASSUME NEW line \in Nat PROVE IsFinding([f EXCEPT !.line = line])
    BY <1>3 DEF IsFinding
  <2> DEFINE only == CHOOSE p \in DOMAIN lines : TRUE
  <2>3. CASE f.path = NOWHERE /\ Cardinality(DOMAIN lines) = 1
    <3>1. DOMAIN lines # {} BY <2>3, FS_EmptySet
    <3>2. only \in DOMAIN lines BY <3>1
    <3>3. Min(lines[only]) \in Nat BY <3>2, LeastLine
    <3>4. NormalizeFindingLocation(files, f) = [f EXCEPT !.path = only, !.line = Min(lines[only])]
      BY <2>3 DEF NormalizeFindingLocation
    <3> HIDE DEF only, lines
    <3> QED BY <2>1, <3>3, <3>4
  <2>4. CASE ~(f.path = NOWHERE /\ Cardinality(DOMAIN lines) = 1) /\ f.path \in DOMAIN lines /\ f.line <= 0
    <3>1. Min(lines[f.path]) \in Nat BY <2>4, LeastLine
    <3>2. NormalizeFindingLocation(files, f) = [f EXCEPT !.line = Min(lines[f.path])]
      BY <2>4 DEF NormalizeFindingLocation
    <3> HIDE DEF lines
    <3> QED BY <2>2, <3>1, <3>2
  <2>5. CASE ~(f.path = NOWHERE /\ Cardinality(DOMAIN lines) = 1) /\ ~(f.path \in DOMAIN lines /\ f.line <= 0)
    BY <1>3, <2>5 DEF NormalizeFindingLocation
  <2> QED BY <2>3, <2>4, <2>5
<1>4. AreFindings(placed)
  <2>1. placed = [i \in 1..n |-> placed[i]] BY <1>2
  <2>2. \A i \in 1..n : IsFinding(placed[i]) BY <1>1, <1>2, <1>3
  <2> HIDE DEF placed, n
  <2> QED BY <1>1, <2>1, <2>2, FindingsFrom
<1> QED BY <1>1, <1>2, <1>4

(***************************************************************************)
(* What becomes of a finding.                                               *)
(***************************************************************************)
\* What is accepted passed every rule before the last.
LEMMA BucketKnown ==
  ASSUME NEW f, NEW repeats \in BOOLEAN, NEW files, NEW given
  PROVE  LET b == BucketOf(f, repeats, files, given) IN
         /\ b \in Buckets
         /\ b = "accepted" => \A k \in 1..11 : ~TriageRules(f, repeats, files, given)[k].when
<1> DEFINE rules == TriageRules(f, repeats, files, given)
           W == {i \in DOMAIN rules : rules[i].when}
           first == Min(W)
<1>1. DOMAIN rules = 1..12 /\ rules[12].when BY DEF TriageRules
<1>2. \A k \in 1..12 : rules[k].then \in Buckets
  BY DEF TriageRules, Buckets
<1>3. \A k \in 1..11 : rules[k].then # "accepted"
  BY DEF TriageRules
<1>4. BucketOf(f, repeats, files, given) = rules[first].then
  <2> DEFINE B(r) == r[Min({i \in DOMAIN r : r[i].when})].then
             S == {B(r) : r \in {rules}}
  <2>1. BucketOf(f, repeats, files, given) = CHOOSE b \in S : TRUE BY DEF BucketOf
  <2>2. S = {B(rules)} OBVIOUS
  <2> HIDE DEF S, B
  <2>3. BucketOf(f, repeats, files, given) = B(rules) BY <2>1, <2>2
  <2> QED BY <2>3 DEF B
<1> HIDE DEF rules
<1>5. W \in SUBSET Nat /\ W # {} /\ W \subseteq 1..12 BY <1>1
<1>6. first \in W /\ \A y \in W : first <= y
  <2> HIDE DEF W
  <2> QED BY <1>5, LeastElement
<1>7. first \in 1..12 BY <1>5, <1>6
<1>8. ASSUME rules[first].then = "accepted", NEW k \in 1..11 PROVE ~rules[k].when
  <2>1. first = 12
    <3> HIDE DEF first
    <3> QED BY <1>3, <1>7, <1>8
  <2>2. k \in W => first <= k BY <1>6
  <2> HIDE DEF first
  <2>3. k \notin W BY <2>1, <2>2
  <2> QED BY <1>1, <2>3
<1> HIDE DEF first, W
<1> QED BY <1>2, <1>4, <1>7, <1>8 DEF rules

\* What a finding that is accepted is like.
Stands(f, repeats, files, given) ==
  LET g == NormalizeReviewFinding(f, given) IN
  /\ ~repeats /\ f.type = "finding" /\ f.severity \in Severities /\ f.sure /\ ~f.vague
  /\ f.path # NOWHERE /\ (files # <<>> => f.path \in Paths(files)) /\ f.line > 0
  /\ f.authority \in Firm \cup {UNSAID}
  /\ g.strength = "confirmed" /\ g.severity = f.severity /\ g.path = f.path /\ g.line = f.line
  /\ g.id = f.id /\ g.cites = f.cites
  /\ given # {} => \E c \in f.cites : ValidFindingCitation(given, c)

LEMMA AcceptedStands ==
  ASSUME NEW f, IsFinding(f), NEW repeats \in BOOLEAN, NEW files, NEW given,
         BucketOf(NormalizeReviewFinding(f, given), repeats, files, given) = "accepted"
  PROVE  Stands(f, repeats, files, given)
<1> DEFINE g == NormalizeReviewFinding(f, given)
           rules == TriageRules(g, repeats, files, given)
           authority == IF f.authority # UNSAID THEN f.authority
                        ELSE IF given = {} THEN "sot" ELSE f.mentions
           claimed == CASE f.strength # UNSAID -> f.strength
                        [] f.strength = UNSAID /\ f.type # "finding" -> f.type
                        [] f.strength = UNSAID /\ f.type = "finding" ->
                             IF authority \in Firm THEN "confirmed" ELSE "likely"
           strength == IF claimed = "confirmed" /\ authority \notin Firm THEN "likely" ELSE claimed
           type == IF f.type = "finding" /\ strength \in {"note", "question"} THEN strength ELSE f.type
<1>1. g = [f EXCEPT !.authority = authority, !.strength = strength, !.type = type]
  BY DEF NormalizeReviewFinding
<1>2. claimed \in Strengths
  BY UnsaidAssumption DEF IsFinding, Strengths
<1>3. strength \in Strengths /\ (strength = "confirmed" => authority \in Firm)
  <2> HIDE DEF claimed, authority
  <2> QED BY <1>2 DEF Strengths
<1>4. type \in {"finding", "note", "question"} /\ (type = "finding" => f.type = "finding")
  <2> HIDE DEF strength
  <2> QED BY DEF IsFinding
<1>5. authority \in Firm => f.authority \in Firm \cup {UNSAID} OBVIOUS
<1>6. /\ g.authority = authority /\ g.strength = strength /\ g.type = type
      /\ g.severity = f.severity /\ g.sure = f.sure /\ g.vague = f.vague /\ g.path = f.path
      /\ g.line = f.line /\ g.cites = f.cites /\ g.id = f.id
  <2> HIDE DEF authority, strength, type, g
  <2> QED BY <1>1 DEF IsFinding
<1> HIDE DEF g, authority, claimed, strength, type
<1>7. \A k \in 1..11 : ~rules[k].when BY BucketKnown DEF g
<1>8. ~repeats /\ ~(g.type = "finding" /\ (g.severity \notin Severities \/ ~g.sure))
  <2>1. ~rules[1].when /\ ~rules[2].when BY <1>7
  <2> QED BY <2>1 DEF TriageRules
<1>9. ~(g.type = "note" \/ g.strength = "note") /\ ~(g.type = "question" \/ g.strength = "question")
  <2>1. ~rules[3].when /\ ~rules[4].when BY <1>7
  <2> QED BY <2>1 DEF TriageRules
<1>10. ~ShouldDowngradeSpeculative(g) /\ g.path # NOWHERE
  <2>1. ~rules[5].when /\ ~rules[6].when BY <1>7
  <2> QED BY <2>1 DEF TriageRules
<1>11. ~(files # <<>> /\ g.path \notin Paths(files)) /\ ~(g.line <= 0)
  <2>1. ~rules[7].when /\ ~rules[8].when BY <1>7
  <2> QED BY <2>1 DEF TriageRules
<1>12. ~(g.strength = "likely" \/ ShouldDowngradeByAuthority(g))
  <2>1. ~rules[10].when BY <1>7
  <2> QED BY <2>1 DEF TriageRules
<1>13. ~(g.strength = "confirmed" /\ ~CitationsHold(given, g))
  <2>1. ~rules[11].when BY <1>7
  <2> QED BY <2>1 DEF TriageRules
<1>14. g.strength = "confirmed"
  BY <1>3, <1>6, <1>9, <1>10, <1>12 DEF Strengths, ShouldDowngradeSpeculative
<1>15. f.type = "finding" /\ f.severity \in Severities /\ f.sure
  BY <1>4, <1>6, <1>8, <1>9
<1>16. f.line > 0
  <2>1. f.line \in Int BY DEF IsFinding
  <2> QED BY <1>6, <1>11, <2>1
<1>17. f.authority \in Firm \cup {UNSAID} BY <1>3, <1>5, <1>6, <1>14
<1>18. ~f.vague BY <1>6, <1>10 DEF ShouldDowngradeSpeculative
<1>19. given # {} => \E c \in f.cites : ValidFindingCitation(given, c)
  BY <1>6, <1>13, <1>14 DEF CitationsHold
<1> QED BY <1>6, <1>8, <1>10, <1>11, <1>14, <1>15, <1>16, <1>17, <1>18, <1>19 DEF Stands, g

LEMMA Validated ==
  ASSUME NEW found, AreFindings(found), NEW files, NEW given, NEW sorted, sorted = Validate(found, files, given)
  PROVE  /\ sorted \in [DOMAIN found -> Buckets]
         /\ \A i \in AcceptedIn(sorted) : i \in DOMAIN found /\ Stands(found[i], Repeats(found, i), files, given)
<1>1. ASSUME NEW i \in DOMAIN found
      PROVE  sorted[i] = BucketOf(NormalizeReviewFinding(found[i], given), Repeats(found, i), files, given)
  <2> DEFINE B(f) == BucketOf(f, Repeats(found, i), files, given)
             S == {B(f) : f \in {NormalizeReviewFinding(found[i], given)}}
  <2>1. S = {B(NormalizeReviewFinding(found[i], given))} OBVIOUS
  <2>2. sorted[i] = CHOOSE b \in S : TRUE BY DEF Validate
  <2> HIDE DEF S, B
  <2>3. sorted[i] = B(NormalizeReviewFinding(found[i], given)) BY <2>1, <2>2
  <2> QED BY <2>3 DEF B
<1>2. DOMAIN sorted = DOMAIN found /\ sorted = [i \in DOMAIN found |-> sorted[i]] BY DEF Validate
<1>3. \A i : Repeats(found, i) \in BOOLEAN BY DEF Repeats
<1>4. \A i \in DOMAIN found : sorted[i] \in Buckets BY <1>1, <1>3, BucketKnown
<1>5. ASSUME NEW i \in AcceptedIn(sorted) PROVE i \in DOMAIN found /\ Stands(found[i], Repeats(found, i), files, given)
  <2>1. i \in DOMAIN found /\ sorted[i] = "accepted" BY <1>2 DEF AcceptedIn
  <2>2. IsFinding(found[i]) BY <2>1, FindingsOf
  <2> QED BY <1>1, <1>3, <2>1, <2>2, AcceptedStands
<1> QED BY <1>2, <1>4, <1>5

(***************************************************************************)
(* The gate.                                                                *)
(***************************************************************************)
LEMMA WorstStatus ==
  ASSUME NEW all \in SUBSET DOMAIN StatusRank, all # {}
  PROVE  \E s \in all : \A t \in all : StatusRank[s] >= StatusRank[t]
<1>1. /\ StatusRank["none"] = 0 /\ StatusRank["not_applicable"] = 1 /\ StatusRank["satisfied"] = 2
      /\ StatusRank["pending"] = 3 /\ StatusRank["running"] = 3 /\ StatusRank["unknown"] = 4
      /\ StatusRank["violated"] = 5
      /\ DOMAIN StatusRank = {"none", "not_applicable", "satisfied", "pending", "running", "unknown", "violated"}
  BY DEF StatusRank
<1>2. CASE "violated" \in all BY <1>1, <1>2
<1>3. CASE "violated" \notin all /\ "unknown" \in all BY <1>1, <1>3
<1>4. CASE {"violated", "unknown"} \cap all = {} /\ "running" \in all BY <1>1, <1>4
<1>5. CASE {"violated", "unknown", "running"} \cap all = {} /\ "pending" \in all BY <1>1, <1>5
<1>6. CASE {"violated", "unknown", "running", "pending"} \cap all = {} /\ "satisfied" \in all BY <1>1, <1>6
<1>7. CASE {"violated", "unknown", "running", "pending", "satisfied"} \cap all = {} /\ "not_applicable" \in all
  BY <1>1, <1>7
<1>8. CASE {"violated", "unknown", "running", "pending", "satisfied", "not_applicable"} \cap all = {}
  BY <1>1, <1>8
<1> QED BY <1>2, <1>3, <1>4, <1>5, <1>6, <1>7, <1>8

\* A check counts as satisfied when nobody says worse of it.
LEMMA SatisfiedIsWorst ==
  ASSUME NEW imported, NEW activations, NEW coverage, NEW check,
         check \in DOMAIN imported => imported[check] \in DOMAIN StatusRank \ {"none"},
         GateStatus(imported, activations, coverage, check) = "satisfied"
  PROVE  /\ check \in DOMAIN imported => imported[check] \in {"satisfied", "not_applicable"}
         /\ \A a \in activations : check \in a.checks =>
              Covered(coverage, a.name) /\ check \in CoverageOf(coverage, a.name).checks
         /\ (\A a \in activations : check \notin a.checks) => check \in DOMAIN imported /\ imported[check] = "satisfied"
<1> DEFINE said == {ReviewStatus(coverage, a, check) : a \in {b \in activations : check \in b.checks}}
           all == said \cup (IF check \in DOMAIN imported THEN {imported[check]} ELSE {"none"})
<1>1. said \subseteq {"satisfied", "unknown"} BY DEF ReviewStatus
<1>2. all \in SUBSET DOMAIN StatusRank /\ all # {} BY <1>1 DEF StatusRank
<1>3. GateStatus(imported, activations, coverage, check) = CHOOSE s \in all : \A t \in all : StatusRank[s] >= StatusRank[t]
  BY DEF GateStatus
<1>4. "satisfied" \in all /\ \A t \in all : StatusRank["satisfied"] >= StatusRank[t]
  <2> HIDE DEF all
  <2>1. \E s \in all : \A t \in all : StatusRank[s] >= StatusRank[t] BY <1>2, WorstStatus
  <2> QED BY <1>3, <2>1
<1>5. all \subseteq {"satisfied", "not_applicable", "none"} BY <1>2, <1>4 DEF StatusRank
<1>6. ASSUME NEW a \in activations, check \in a.checks
      PROVE  Covered(coverage, a.name) /\ check \in CoverageOf(coverage, a.name).checks
  <2>1. ReviewStatus(coverage, a, check) \in all BY <1>6
  <2> HIDE DEF all
  <2>2. ReviewStatus(coverage, a, check) # "unknown" BY <1>5, <2>1
  <2> QED BY <2>2 DEF ReviewStatus
<1>7. check \in DOMAIN imported => imported[check] \in {"satisfied", "not_applicable"} BY <1>5
<1>8. (\A a \in activations : check \notin a.checks) => check \in DOMAIN imported /\ imported[check] = "satisfied"
  <2>1. ASSUME \A a \in activations : check \notin a.checks PROVE said = {} BY <2>1
  <2> QED BY <1>4, <2>1
<1> QED BY <1>6, <1>7, <1>8

LEMMA GatePasses ==
  ASSUME NEW gate, NEW required, NEW imported, NEW activations, NEW coverage, NEW findings, NEW partial \in BOOLEAN,
         EvaluateQualityGate(gate, required, imported, activations, coverage, findings, partial) = "pass"
  PROVE  /\ gate.baseline = "all" /\ ~partial
         /\ \A f \in findings : ~MatchesGate(gate, f)
         /\ \A check \in required : GateStatus(imported, activations, coverage, check) = "satisfied"
<1> DEFINE unknown == UnknownChecks(required, imported, activations, coverage)
                      \cup (IF gate.baseline = "all" THEN {} ELSE {"baseline"})
           violations == GateViolations(gate, required, imported, activations, coverage, findings)
<1>1. unknown = {} /\ ~partial /\ violations = {} BY DEF EvaluateQualityGate
<1>2. gate.baseline = "all" BY <1>1
<1>3. \A check \in required : GateStatus(imported, activations, coverage, check) \in {"satisfied", "violated"}
  BY <1>1 DEF UnknownChecks
<1>4. \A check \in required : GateStatus(imported, activations, coverage, check) # "violated"
  BY <1>1 DEF GateViolations
<1>5. \A f \in findings : ~MatchesGate(gate, f)
  <2> SUFFICES ASSUME NEW f \in findings, MatchesGate(gate, f) PROVE FALSE OBVIOUS
  <2>1. f.rule \in violations BY DEF GateViolations
  <2> QED BY <1>1, <2>1
<1> QED BY <1>1, <1>2, <1>3, <1>4, <1>5

(***************************************************************************)
(* The effective policy.                                                    *)
(***************************************************************************)
\* The order in which packs are applied lists each of them once, and what stands
\* later is preceded by what stands before it.
LEMMA PacksOrdered ==
  ASSUME NEW doc, IsDocument(doc), NEW n, n = Cardinality(DOMAIN doc.packs), NEW order, order = PackOrder(doc)
  PROVE  /\ n \in Nat /\ DOMAIN doc.packs = 1..n
         /\ \A i \in 1..n : order[i] \in DOMAIN doc.packs
         /\ \A p \in DOMAIN doc.packs : \E i \in 1..n : order[i] = p
         /\ \A i, j \in 1..n : i < j => Precedes(doc, order[i], order[j])
<1> DEFINE P == DOMAIN doc.packs
           below(p) == {q \in P : Precedes(doc, q, p)}
           rank(p) == Cardinality(below(p))
           f == [p \in P |-> rank(p)]
<1>1. Len(doc.packs) \in Nat /\ P = 1..Len(doc.packs) BY DEF IsDocument
<1>2. n = Len(doc.packs) /\ IsFiniteSet(P) /\ n \in Nat
  <2> DEFINE L == Len(doc.packs)
  <2>1. L \in Nat /\ P = 1..L BY <1>1
  <2> HIDE DEF L, P
  <2>2. IsFiniteSet(1..L) /\ Cardinality(1..L) = IF 1 > L THEN 0 ELSE L - 1 + 1 BY <2>1, FS_Interval
  <2>3. Cardinality(1..L) = L BY <2>1, <2>2
  <2> QED BY <2>1, <2>2, <2>3 DEF L, P
<1>3. \A p \in P : p \in Nat /\ doc.packs[p].priority \in Int BY <1>1 DEF IsDocument
<1>4. /\ \A p \in P : ~Precedes(doc, p, p)
      /\ \A p, q, r \in P : Precedes(doc, p, q) /\ Precedes(doc, q, r) => Precedes(doc, p, r)
      /\ \A p, q \in P : p # q => Precedes(doc, p, q) \/ Precedes(doc, q, p)
  BY <1>3 DEF Precedes
<1> HIDE DEF P
<1>5. \A p \in P : below(p) \in SUBSET P /\ IsFiniteSet(below(p)) /\ rank(p) \in Nat
  BY <1>2, FS_Subset, FS_CardinalityType
<1>6. ASSUME NEW p \in P, NEW q \in P, Precedes(doc, q, p) PROVE rank(q) < rank(p)
  <2>1. below(q) \subseteq below(p) /\ q \in below(p) /\ q \notin below(q) BY <1>4, <1>6
  <2> HIDE DEF below
  <2>2. rank(q) <= rank(p) /\ (rank(p) = rank(q) => below(p) = below(q)) BY <1>5, <2>1, FS_Subset
  <2>3. rank(q) # rank(p) BY <2>1, <2>2
  <2> QED BY <1>5, <2>2, <2>3
<1>7. ASSUME NEW p \in P PROVE rank(p) \in 0..(n - 1)
  <2>1. below(p) \in SUBSET (P \ {p}) BY <1>4
  <2>2. IsFiniteSet(P \ {p}) /\ Cardinality(P \ {p}) = n - 1 BY <1>2, FS_RemoveElement DEF P
  <2> HIDE DEF below
  <2>3. rank(p) <= n - 1 BY <2>1, <2>2, FS_Subset
  <2> QED BY <1>2, <1>5, <2>3
<1>8. \A p, q \in P : rank(p) = rank(q) => p = q
  <2> HIDE DEF rank
  <2>1. \A p \in P : rank(p) \in Nat BY <1>5
  <2> QED BY <1>4, <1>6, <2>1
<1>9. \A k \in 0..(n - 1) : \E p \in P : rank(p) = k
  <2>1. f \in Injection(P, 0..(n - 1))
    <3> HIDE DEF rank
    <3> QED BY <1>7, <1>8 DEF Injection, IsInjective
  <2>2. IsFiniteSet(0..(n - 1)) /\ Cardinality(0..(n - 1)) = n
    <3>1. 0 \in Int /\ n - 1 \in Int BY <1>2
    <3>2. /\ IsFiniteSet(0..(n - 1))
          /\ Cardinality(0..(n - 1)) = IF 0 > n - 1 THEN 0 ELSE (n - 1) - 0 + 1
      BY <3>1, FS_Interval
    <3> QED BY <1>2, <3>2
  <2> HIDE DEF f
  <2>3. f \in Surjection(P, 0..(n - 1)) BY <1>2, <2>1, <2>2, FS_Injection DEF P
  <2> QED BY <2>3 DEF Surjection, f
<1>10. ASSUME NEW i \in 1..n PROVE order[i] \in P /\ rank(order[i]) = i - 1
  <2>1. order[i] = CHOOSE p \in P : rank(p) = i - 1 BY <1>10 DEF PackOrder, P
  <2>2. i - 1 \in 0..(n - 1) BY <1>2
  <2> HIDE DEF rank
  <2> QED BY <1>9, <2>1, <2>2
<1>11. ASSUME NEW p \in P PROVE \E i \in 1..n : order[i] = p
  <2> HIDE DEF rank
  <2>1. rank(p) + 1 \in 1..n BY <1>2, <1>7
  <2>2. order[rank(p) + 1] \in P /\ rank(order[rank(p) + 1]) = rank(p) BY <1>7, <1>10, <2>1
  <2> QED BY <1>8, <2>1, <2>2
<1>12. ASSUME NEW i \in 1..n, NEW j \in 1..n, i < j PROVE Precedes(doc, order[i], order[j])
  <2> HIDE DEF rank
  <2>1. rank(order[i]) = i - 1 /\ rank(order[j]) = j - 1 /\ order[i] \in P /\ order[j] \in P BY <1>10
  <2>2. ~(rank(order[j]) < rank(order[i])) /\ order[i] # order[j] BY <1>12, <2>1
  <2> QED BY <1>4, <1>6, <2>1, <2>2
<1> QED BY <1>1, <1>2, <1>10, <1>11, <1>12 DEF P

\* The policies after all packs are those after each pack in turn.
LEMMA PacksApplied ==
  ASSUME NEW doc, NEW change, NEW runtime, NEW n \in Nat, n = Cardinality(DOMAIN doc.packs),
         NEW order, order = PackOrder(doc)
  PROVE  \E effs : /\ effs[0] = {Start(doc, runtime)}
                   /\ \A i \in 1..n : effs[i] = ApplyPack(doc, change, effs[i - 1], order[i])
                   /\ ApplyPacks(doc, change, runtime) = effs[n]
<1> DEFINE first == {Start(doc, runtime)}
           A(effs, i) == ApplyPack(doc, change, effs, order[i])
           Applied(g, k) == DOMAIN g = 0..k /\ g[0] = first /\ \A i \in 1..k : g[i] = A(g[i - 1], i)
           lacking == {k \in 1..n : ~\E g : Applied(g, k)}
           defines(f) == f = [i \in 0..n |-> IF i = 0 THEN first ELSE A(f[i - 1], i)]
<1> HIDE DEF first, A
<1>1. \E g : Applied(g, 0)
  <2>1. Applied([i \in 0..0 |-> first], 0) OBVIOUS
  <2> QED BY <2>1
<1>2. ASSUME NEW k \in 1..n, k \in lacking PROVE \E j \in 1..n : j < k /\ j \in lacking
  <2>1. k - 1 \in 0..n /\ k - 1 \in 0..(k - 1) OBVIOUS
  <2>2. CASE \E g : Applied(g, k - 1)
    <3>1. PICK g : Applied(g, k - 1) BY <2>2
    <3> DEFINE h == [i \in 0..k |-> IF i = k THEN A(g[k - 1], k) ELSE g[i]]
    <3>2. \A i \in 0..(k - 1) : h[i] = g[i] OBVIOUS
    <3>3. h[k] = A(g[k - 1], k) /\ DOMAIN h = 0..k OBVIOUS
    <3> HIDE DEF h
    <3>4. ASSUME NEW i \in 1..k PROVE h[i] = A(h[i - 1], i)
      <4>1. i - 1 \in 0..(k - 1) OBVIOUS
      <4>2. h[i - 1] = g[i - 1] BY <3>2, <4>1
      <4>3. CASE i = k BY <3>3, <4>2, <4>3
      <4>4. CASE i # k
        <5>1. i \in 1..(k - 1) /\ i \in 0..(k - 1) BY <4>4
        <5>2. g[i] = A(g[i - 1], i) BY <3>1, <5>1
        <5> QED BY <3>2, <4>2, <5>1, <5>2
      <4> QED BY <4>3, <4>4
    <3>5. h[0] = first BY <2>1, <3>1, <3>2
    <3>6. Applied(h, k) BY <3>3, <3>4, <3>5
    <3> HIDE DEF Applied
    <3> QED BY <1>2, <3>6
  <2>3. CASE ~\E g : Applied(g, k - 1)
    <3> DEFINE m == k - 1
    <3>1. m # 0
      <4> HIDE DEF Applied
      <4>1. \E g : Applied(g, 0) BY <1>1
      <4> QED BY <2>3, <4>1
    <3>2. m \in 1..n /\ m < k BY <2>1, <3>1
    <3>3. m \in lacking
      <4> HIDE DEF Applied
      <4> QED BY <2>3, <3>2
    <3> HIDE DEF m, lacking
    <3> QED BY <3>2, <3>3
  <2> HIDE DEF Applied, lacking
  <2> QED BY <2>2, <2>3
<1>3. \E g : Applied(g, n)
  <2> HIDE DEF Applied
  <2>1. CASE n = 0 BY <1>1, <2>1
  <2>2. CASE n # 0
    <3>1. lacking \in SUBSET (1..n) OBVIOUS
    <3>2. lacking = {}
      <4> HIDE DEF lacking
      <4> QED BY <1>2, <3>1, FirstIndex
    <3>3. n \in 1..n BY <2>2
    <3> QED BY <3>2, <3>3
  <2> QED BY <2>1, <2>2
<1>4. PICK g : Applied(g, n) BY <1>3
<1> DEFINE h == [i \in 0..n |-> g[i]]
<1>5. defines(h)
  <2>1. ASSUME NEW i \in 0..n PROVE g[i] = IF i = 0 THEN first ELSE A(h[i - 1], i)
    <3>1. CASE i = 0 BY <1>4, <3>1
    <3>2. CASE i # 0
      <4>1. i \in 1..n /\ i - 1 \in 0..n BY <3>2
      <4>2. h[i - 1] = g[i - 1] BY <4>1
      <4> HIDE DEF h
      <4> QED BY <1>4, <3>2, <4>1, <4>2
    <3> QED BY <3>1, <3>2
  <2> QED BY <2>1
<1> DEFINE effs == CHOOSE f : defines(f)
<1>6. defines(effs)
  <2> HIDE DEF defines, h
  <2> QED BY <1>5
<1>7. ApplyPacks(doc, change, runtime) = effs[n] BY DEF ApplyPacks, first, A
<1> HIDE DEF effs
<1>8. effs[0] = first
  <2>1. 0 \in 0..n OBVIOUS
  <2> QED BY <1>6, <2>1
<1>9. ASSUME NEW i \in 1..n PROVE effs[i] = A(effs[i - 1], i)
  <2>1. i \in 0..n /\ i # 0 OBVIOUS
  <2> QED BY <1>6, <2>1
<1> QED BY <1>7, <1>8, <1>9 DEF first, A

\* What a later pack may take back, and when what x says of it is kept by y; x
\* and y are packs or policies.
Owed(doc, q) == doc.packs[q].checks \cup ChecksOf(doc, doc.packs[q].rules)
ReplaceFields == {"methods", "risk_floor", "independent_review", "publication"}
Keeps(field, x, y) ==
  /\ field = "methods" => x.methods \subseteq y.methods
  /\ field = "risk_floor" => x.risk <= y.risk
  /\ field = "independent_review" => (x.independent => y.independent)
  /\ field = "publication" => ModeRank[x.publication.mode] <= ModeRank[y.publication.mode]
Demand(x) == x.risk \in 0..4 /\ x.independent \in BOOLEAN /\ x.publication.mode \in DOMAIN ModeRank
IsPolicy(eff) ==
  /\ DOMAIN eff = {"methods", "required", "coverage", "risk", "independent", "publication", "allowed",
                   "rules", "gated", "packs"}
  /\ Demand(eff)
\* A gate that names rules judges by the selected ones too.
GatedIn(doc, eff) == IF doc.gate.rules = {} THEN eff.gated = {} ELSE eff.rules \subseteq eff.gated

LEMMA KeepsOnKeeping ==
  ASSUME NEW x, NEW y, NEW z, Demand(x), Demand(y), Demand(z), NEW field, Keeps(field, x, y), Keeps(field, y, z)
  PROVE  Keeps(field, x, z)
<1>1. DOMAIN ModeRank = {"inherit", "setup_grant", "human_authorized", "none"}
      /\ \A m \in DOMAIN ModeRank : ModeRank[m] \in 0..3
  BY DEF ModeRank
<1>2. field = "publication" => ModeRank[x.publication.mode] <= ModeRank[z.publication.mode]
  BY <1>1 DEF Keeps, Demand
<1>3. field = "risk_floor" => x.risk <= z.risk BY DEF Keeps, Demand
<1>4. field = "independent_review" => (x.independent => z.independent) BY Zenon DEF Keeps
<1>5. field = "methods" => x.methods \subseteq z.methods BY DEF Keeps
<1> QED BY <1>2, <1>3, <1>4, <1>5 DEF Keeps

LEMMA StrictestKnown ==
  ASSUME NEW publications, publications # {}, \A a \in publications : a.mode \in DOMAIN ModeRank,
         NEW s, s = Strictest(publications)
  PROVE  s.mode \in DOMAIN ModeRank /\ \A a \in publications : ModeRank[a.mode] <= ModeRank[s.mode]
<1> DEFINE modes == {a.mode : a \in publications}
           ranks == {ModeRank[m] : m \in modes}
<1>1. \A m \in DOMAIN ModeRank : ModeRank[m] \in 0..3 BY DEF ModeRank
<1>2. modes # {} /\ modes \subseteq DOMAIN ModeRank OBVIOUS
<1>3. ranks \in SUBSET (0..3) /\ ranks # {} BY <1>1, <1>2
<1> HIDE DEF modes
<1>4. Max(ranks) \in ranks /\ \A r \in ranks : Max(ranks) >= r
  <2> HIDE DEF ranks
  <2> QED BY <1>3, GreatestElement
<1>5. PICK top \in modes : Max(ranks) = ModeRank[top] BY <1>4
<1>6. \A m \in modes : ModeRank[m] <= ModeRank[top]
  <2>1. \A m \in modes : ModeRank[m] \in ranks OBVIOUS
  <2>2. \A r \in ranks : r \in 0..3 BY <1>3
  <2> HIDE DEF ranks
  <2>3. \A m \in modes : Max(ranks) >= ModeRank[m] /\ ModeRank[m] \in 0..3 BY <1>4, <2>1, <2>2
  <2> QED BY <1>5, <2>3
<1>7. s.mode = CHOOSE m \in modes : \A a \in publications : ModeRank[a.mode] <= ModeRank[m]
  BY DEF Strictest, modes
<1>8. \A a \in publications : ModeRank[a.mode] <= ModeRank[top] BY <1>6 DEF modes
<1>9. s.mode \in modes /\ \A a \in publications : ModeRank[a.mode] <= ModeRank[s.mode] BY <1>7, <1>8
<1> QED BY <1>2, <1>9

\* A pack with its lineage asks for what every pack of the lineage asks for.
LEMMA PackExpanded ==
  ASSUME NEW doc, IsDocument(doc), NEW p \in DOMAIN doc.packs, NEW pack, pack = ExpandPack(doc, p)
  PROVE  /\ Demand(pack)
         /\ \A q \in Lineage(doc, p) :
              /\ q \in DOMAIN doc.packs
              /\ doc.packs[q].checks \subseteq pack.checks /\ doc.packs[q].rules \subseteq pack.rules
              /\ Demand(doc.packs[q]) /\ \A field \in ReplaceFields : Keeps(field, doc.packs[q], pack)
<1> DEFINE L == Lineage(doc, p)
           above == {doc.packs[q] : q \in L}
           risks == {a.risk : a \in above}
           publications == {a.publication : a \in above}
<1>1. L \subseteq DOMAIN doc.packs /\ p \in L BY DEF Lineage
<1>2. \A q \in DOMAIN doc.packs : Demand(doc.packs[q]) BY DEF IsDocument, Demand
<1> HIDE DEF L
<1>3. above # {} /\ \A a \in above : Demand(a) BY <1>1, <1>2
<1>4. /\ pack.methods = UNION {a.methods : a \in above}
      /\ pack.checks = UNION {a.checks : a \in above}
      /\ pack.rules = UNION {a.rules : a \in above}
      /\ pack.risk = Max(risks)
      /\ pack.independent = (\E a \in above : a.independent)
      /\ pack.publication = Strictest(publications)
  BY DEF ExpandPack, L
<1>5. \A q \in L : doc.packs[q] \in above OBVIOUS
<1> HIDE DEF above
<1>6. risks \in SUBSET (0..4) /\ risks # {} BY <1>3 DEF Demand
<1>7. Max(risks) \in risks /\ \A r \in risks : Max(risks) >= r
  <2> HIDE DEF risks
  <2> QED BY <1>6, GreatestElement
<1>8. pack.risk \in 0..4 /\ \A a \in above : a.risk <= pack.risk
  <2>1. \A a \in above : a.risk \in risks OBVIOUS
  <2> HIDE DEF risks
  <2> QED BY <1>4, <1>6, <1>7, <2>1
<1>9. pack.publication.mode \in DOMAIN ModeRank
      /\ \A a \in above : ModeRank[a.publication.mode] <= ModeRank[pack.publication.mode]
  <2>1. publications # {} /\ \A b \in publications : b.mode \in DOMAIN ModeRank BY <1>3 DEF Demand
  <2>2. \A a \in above : a.publication \in publications OBVIOUS
  <2> HIDE DEF publications
  <2> QED BY <1>4, <2>1, <2>2, StrictestKnown
<1>10. pack.independent \in BOOLEAN /\ \A a \in above : a.independent => pack.independent
  BY <1>4, Zenon
<1>11. Demand(pack) BY <1>8, <1>9, <1>10 DEF Demand
<1>12. ASSUME NEW a \in above
       PROVE  /\ a.methods \subseteq pack.methods /\ a.checks \subseteq pack.checks /\ a.rules \subseteq pack.rules
              /\ \A field \in ReplaceFields : Keeps(field, a, pack)
  <2>1. a.methods \subseteq pack.methods /\ a.checks \subseteq pack.checks /\ a.rules \subseteq pack.rules BY <1>4
  <2>2. a.independent => pack.independent BY <1>10, Zenon
  <2> QED BY <1>8, <1>9, <2>1, <2>2 DEF Keeps
<1>13. ASSUME NEW q \in L
       PROVE  /\ q \in DOMAIN doc.packs
              /\ doc.packs[q].checks \subseteq pack.checks /\ doc.packs[q].rules \subseteq pack.rules
              /\ Demand(doc.packs[q]) /\ \A field \in ReplaceFields : Keeps(field, doc.packs[q], pack)
  BY <1>1, <1>2, <1>5, <1>12
<1> QED BY <1>11, <1>13 DEF L

\* What a pack adds to a policy, and what the policy asked for before.
LEMMA PackAdded ==
  ASSUME NEW doc, NEW eff, IsPolicy(eff), NEW p, NEW pack, Demand(pack), NEW out, out = AddPack(doc, eff, p, pack)
  PROVE  /\ IsPolicy(out) /\ out.allowed = eff.allowed
         /\ eff.coverage \subseteq out.coverage /\ eff.rules \subseteq out.rules
         /\ pack.checks \cup ChecksOf(doc, pack.rules) \subseteq out.coverage /\ pack.rules \subseteq out.rules
         /\ \A field \in ReplaceFields : Keeps(field, eff, out) /\ Keeps(field, pack, out)
<1> DEFINE checks == pack.checks \cup ChecksOf(doc, pack.rules)
<1>1. /\ DOMAIN out = DOMAIN eff /\ out.allowed = eff.allowed
      /\ out.coverage = eff.coverage \cup checks /\ out.rules = eff.rules \cup pack.rules
      /\ out.methods = eff.methods \cup pack.methods
      /\ out.risk = Larger(eff.risk, pack.risk)
      /\ out.independent = (eff.independent \/ pack.independent)
      /\ out.publication = RestrictivePublication(eff.publication, pack.publication)
  BY DEF AddPack, IsPolicy
<1>2. out.risk \in 0..4 /\ eff.risk <= out.risk /\ pack.risk <= out.risk
  BY <1>1 DEF Larger, IsPolicy, Demand
<1>3. out.independent \in BOOLEAN /\ (eff.independent => out.independent) /\ (pack.independent => out.independent)
  BY <1>1, Zenon
<1>4. /\ out.publication.mode \in DOMAIN ModeRank
      /\ ModeRank[eff.publication.mode] <= ModeRank[out.publication.mode]
      /\ ModeRank[pack.publication.mode] <= ModeRank[out.publication.mode]
  <2> DEFINE both == {eff.publication, pack.publication}
  <2>1. both # {} /\ \A b \in both : b.mode \in DOMAIN ModeRank BY DEF IsPolicy, Demand
  <2>2. out.publication = Strictest(both) BY <1>1 DEF RestrictivePublication
  <2>3. eff.publication \in both /\ pack.publication \in both OBVIOUS
  <2> HIDE DEF both
  <2> QED BY <2>1, <2>2, <2>3, StrictestKnown
<1>5. IsPolicy(out) BY <1>1, <1>2, <1>3, <1>4 DEF IsPolicy, Demand
<1>6. \A field \in ReplaceFields : Keeps(field, eff, out) /\ Keeps(field, pack, out)
  BY <1>1, <1>2, <1>3, <1>4 DEF Keeps
<1> QED BY <1>1, <1>5, <1>6

LEMMA PackGates ==
  ASSUME NEW doc, NEW eff, IsPolicy(eff), GatedIn(doc, eff), NEW p, NEW pack, NEW out, out = AddPack(doc, eff, p, pack)
  PROVE  GatedIn(doc, out)
<1>1. out.rules = eff.rules \cup pack.rules /\ out.gated = Widened(doc, eff.gated, pack.rules)
  BY DEF AddPack, IsPolicy
<1> QED BY <1>1 DEF GatedIn, Widened

\* A delegation takes back only what it names.
LEMMA PackReplaces ==
  ASSUME NEW eff, IsPolicy(eff), NEW pack, Demand(pack), NEW d, NEW out, out = ApplyDelegatedReplacement(eff, pack, d)
  PROVE  /\ IsPolicy(out) /\ out.allowed = eff.allowed /\ out.coverage = eff.coverage /\ out.rules = eff.rules
         /\ out.gated = eff.gated
         /\ \A field \in ReplaceFields : field \notin d.fields => Keeps(field, eff, out)
<1>1. /\ DOMAIN out = DOMAIN eff /\ out.allowed = eff.allowed
      /\ out.coverage = eff.coverage /\ out.rules = eff.rules /\ out.gated = eff.gated
      /\ out.methods = IF "methods" \in d.fields THEN eff.methods \ d.replaces ELSE eff.methods
      /\ out.risk = IF "risk_floor" \in d.fields THEN pack.risk ELSE eff.risk
      /\ out.independent = IF "independent_review" \in d.fields THEN pack.independent ELSE eff.independent
      /\ out.publication = IF "publication" \in d.fields /\ pack.publication.mode # "inherit"
                             THEN pack.publication ELSE eff.publication
  BY DEF ApplyDelegatedReplacement, IsPolicy
<1>2. IsPolicy(out) BY <1>1 DEF IsPolicy, Demand
<1>3. "risk_floor" \notin d.fields => eff.risk <= out.risk BY <1>1 DEF IsPolicy, Demand
<1>4. "publication" \notin d.fields => ModeRank[eff.publication.mode] <= ModeRank[out.publication.mode]
  <2>1. \A m \in DOMAIN ModeRank : ModeRank[m] \in 0..3 BY DEF ModeRank
  <2> QED BY <1>1, <2>1 DEF IsPolicy, Demand
<1>5. "independent_review" \notin d.fields => out.independent = eff.independent BY <1>1
<1>6. "methods" \notin d.fields => out.methods = eff.methods BY <1>1
<1>7. \A field \in ReplaceFields : field \notin d.fields => Keeps(field, eff, out)
  BY <1>3, <1>4, <1>5, <1>6 DEF Keeps
<1> QED BY <1>1, <1>2, <1>7

\* What a policy owes after the first i packs of the order: all that the selected
\* ones asked for, but for what a later one of them may take back.
Delegates(doc, p, field) ==
  LET d == doc.packs[p].delegation IN d # NONE /\ field \in doc.delegations[d].fields
TakenBack(doc, change, order, j, i, field) ==
  \E k \in (j + 1)..i : Selected(doc, order[k], change) /\ Delegates(doc, order[k], field)
Honours(doc, change, runtime, order, i, eff) ==
  /\ IsPolicy(eff) /\ GatedIn(doc, eff)
  /\ doc.gate.coverage \cup ChecksOf(doc, doc.rules) \subseteq eff.coverage
  /\ eff.allowed = doc.capabilities.allowed \cap runtime
  /\ \A j \in 1..i : Selected(doc, order[j], change) => \A q \in Lineage(doc, order[j]) :
       /\ Owed(doc, q) \subseteq eff.coverage /\ doc.packs[q].rules \subseteq eff.rules
       /\ \A field \in ReplaceFields :
            Keeps(field, doc.packs[q], eff) \/ TakenBack(doc, change, order, j, i, field)

LEMMA StartHonours ==
  ASSUME NEW doc, IsDocument(doc), NEW change, NEW runtime, NEW order
  PROVE  Honours(doc, change, runtime, order, 0, Start(doc, runtime))
<1> DEFINE eff == Start(doc, runtime)
<1>1. /\ DOMAIN eff = {"methods", "required", "coverage", "risk", "independent", "publication", "allowed",
                       "rules", "gated", "packs"}
      /\ eff.risk = 0 /\ eff.independent = FALSE /\ eff.publication.mode = doc.defaults.publication
      /\ eff.coverage = doc.gate.coverage \cup ChecksOf(doc, doc.rules)
      /\ eff.allowed = doc.capabilities.allowed \cap runtime
      /\ eff.rules = doc.rules /\ eff.gated = Widened(doc, doc.gate.rules, doc.rules)
  BY DEF Start
<1> HIDE DEF eff
<1>2. IsPolicy(eff)
  <2>1. eff.publication.mode \in DOMAIN ModeRank BY <1>1 DEF IsDocument
  <2>2. eff.independent \in BOOLEAN BY <1>1, Zenon
  <2>3. eff.risk \in 0..4 BY <1>1
  <2> QED BY <1>1, <2>1, <2>2, <2>3 DEF IsPolicy, Demand
<1>3. GatedIn(doc, eff) BY <1>1 DEF GatedIn, Widened
<1> QED BY <1>1, <1>2, <1>3 DEF Honours, eff

\* Each pack in turn leaves a policy that owes all that was asked so far.
LEMMA PackHonours ==
  ASSUME NEW doc, IsDocument(doc), NEW change, NEW runtime, NEW order, NEW i \in Nat, i > 0,
         \A j \in 1..i : order[j] \in DOMAIN doc.packs,
         NEW effs, \A e \in effs : Honours(doc, change, runtime, order, i - 1, e),
         NEW out \in ApplyPack(doc, change, effs, order[i])
  PROVE  Honours(doc, change, runtime, order, i, out)
<1> DEFINE p == order[i]
           pack == ExpandPack(doc, p)
           delegation == doc.packs[p].delegation
           d == doc.delegations[delegation]
<1>0. /\ p \in DOMAIN doc.packs /\ i \in 1..i
      /\ \A j \in 1..i : j # i => j \in 1..(i - 1)
  OBVIOUS
<1>1. \A j, field : TakenBack(doc, change, order, j, i - 1, field) => TakenBack(doc, change, order, j, i, field)
  <2> SUFFICES ASSUME NEW j, NEW field, TakenBack(doc, change, order, j, i - 1, field)
               PROVE  TakenBack(doc, change, order, j, i, field)
    OBVIOUS
  <2>1. PICK k \in (j + 1)..(i - 1) : Selected(doc, order[k], change) /\ Delegates(doc, order[k], field)
    BY DEF TakenBack
  <2>2. k \in (j + 1)..i OBVIOUS
  <2> QED BY <2>1, <2>2 DEF TakenBack
<1>2. CASE ~Selected(doc, p, change)
  <2>1. out \in effs BY <1>2 DEF ApplyPack
  <2>2. Honours(doc, change, runtime, order, i - 1, out) BY <2>1
  <2> QED BY <1>0, <1>1, <1>2, <2>2 DEF Honours
<1>3. CASE Selected(doc, p, change)
  <2>1. Demand(pack) BY <1>0, PackExpanded
  <2>2. \E eff \in effs : \E e :
          /\ out = AddPack(doc, e, p, pack) /\ IsPolicy(e)
          /\ e.coverage = eff.coverage /\ e.rules = eff.rules /\ e.allowed = eff.allowed
          /\ e.gated = eff.gated
          /\ \A field \in ReplaceFields : Keeps(field, eff, e) \/ Delegates(doc, p, field)
    <3>1. CASE delegation = NONE
      <4>1. PICK eff \in effs : out = AddPack(doc, eff, p, pack) BY <1>3, <3>1 DEF ApplyPack
      <4>2. IsPolicy(eff) BY DEF Honours
      <4>3. \A field \in ReplaceFields : Keeps(field, eff, eff)
        <5>1. \A m \in DOMAIN ModeRank : ModeRank[m] \in 0..3 BY DEF ModeRank
        <5> QED BY <4>2, <5>1 DEF Keeps, IsPolicy, Demand
      <4> QED BY <4>1, <4>2, <4>3
    <3>2. CASE delegation # NONE
      <4>1. PICK eff \in effs : out = AddPack(doc, ApplyDelegatedReplacement(eff, pack, d), p, pack)
        BY <1>3, <3>2 DEF ApplyPack
      <4> DEFINE e == ApplyDelegatedReplacement(eff, pack, d)
      <4>2. IsPolicy(eff) BY DEF Honours
      <4>3. /\ IsPolicy(e) /\ e.allowed = eff.allowed /\ e.coverage = eff.coverage /\ e.rules = eff.rules
            /\ e.gated = eff.gated
            /\ \A field \in ReplaceFields : field \notin d.fields => Keeps(field, eff, e)
        BY <2>1, <4>2, PackReplaces
      <4>4. \A field : field \in d.fields => Delegates(doc, p, field) BY <3>2 DEF Delegates
      <4>5. out = AddPack(doc, e, p, pack) BY <4>1
      <4> HIDE DEF e, d, p, pack
      <4> QED BY <4>3, <4>4, <4>5
    <3> QED BY <3>1, <3>2
  <2>3. PICK eff \in effs : \E e :
          /\ out = AddPack(doc, e, p, pack) /\ IsPolicy(e)
          /\ e.coverage = eff.coverage /\ e.rules = eff.rules /\ e.allowed = eff.allowed
          /\ e.gated = eff.gated
          /\ \A field \in ReplaceFields : Keeps(field, eff, e) \/ Delegates(doc, p, field)
    BY <2>2
  <2>8. PICK e :
          /\ out = AddPack(doc, e, p, pack) /\ IsPolicy(e)
          /\ e.coverage = eff.coverage /\ e.rules = eff.rules /\ e.allowed = eff.allowed
          /\ e.gated = eff.gated
          /\ \A field \in ReplaceFields : Keeps(field, eff, e) \/ Delegates(doc, p, field)
    BY <2>3
  <2>4. Honours(doc, change, runtime, order, i - 1, eff) OBVIOUS
  <2>5. /\ IsPolicy(out) /\ out.allowed = e.allowed
        /\ e.coverage \subseteq out.coverage /\ e.rules \subseteq out.rules
        /\ pack.checks \cup ChecksOf(doc, pack.rules) \subseteq out.coverage /\ pack.rules \subseteq out.rules
        /\ \A field \in ReplaceFields : Keeps(field, e, out) /\ Keeps(field, pack, out)
    <3>1. out = AddPack(doc, e, p, pack) /\ IsPolicy(e) BY <2>8
    <3> HIDE DEF pack, p
    <3>2. IsPolicy(out) BY <2>1, <3>1, PackAdded
    <3>3. out.allowed = e.allowed BY <2>1, <3>1, PackAdded
    <3>4. e.coverage \subseteq out.coverage /\ e.rules \subseteq out.rules BY <2>1, <3>1, PackAdded
    <3>5. pack.rules \subseteq out.rules BY <2>1, <3>1, PackAdded
    <3>6. pack.checks \cup ChecksOf(doc, pack.rules) \subseteq out.coverage BY <2>1, <3>1, PackAdded
    <3>7. ASSUME NEW field \in ReplaceFields PROVE Keeps(field, e, out) /\ Keeps(field, pack, out)
      BY <2>1, <3>1, PackAdded
    <3> QED BY <3>2, <3>3, <3>4, <3>5, <3>6, <3>7
  <2>9. GatedIn(doc, out)
    <3>1. GatedIn(doc, eff) BY <2>4 DEF Honours
    <3>2. GatedIn(doc, e) BY <2>8, <3>1 DEF GatedIn
    <3> QED BY <2>8, <3>2, PackGates
  <2>6. /\ doc.gate.coverage \cup ChecksOf(doc, doc.rules) \subseteq out.coverage
        /\ out.allowed = doc.capabilities.allowed \cap runtime
    BY <2>8, <2>4, <2>5 DEF Honours
  <2>7. ASSUME NEW j \in 1..i, Selected(doc, order[j], change), NEW q \in Lineage(doc, order[j])
        PROVE  /\ Owed(doc, q) \subseteq out.coverage /\ doc.packs[q].rules \subseteq out.rules
               /\ \A field \in ReplaceFields :
                    Keeps(field, doc.packs[q], out) \/ TakenBack(doc, change, order, j, i, field)
    <3>1. CASE j = i
      <4>1. /\ doc.packs[q].checks \subseteq pack.checks /\ doc.packs[q].rules \subseteq pack.rules
            /\ Demand(doc.packs[q]) /\ \A field \in ReplaceFields : Keeps(field, doc.packs[q], pack)
        BY <1>0, <2>7, <3>1, PackExpanded
      <4>2. ChecksOf(doc, doc.packs[q].rules) \subseteq ChecksOf(doc, pack.rules) BY <4>1 DEF ChecksOf
      <4>3. Demand(out) BY <2>5 DEF IsPolicy
      <4>4. \A field \in ReplaceFields : Keeps(field, doc.packs[q], out)
        BY <2>1, <2>5, <4>1, <4>3, KeepsOnKeeping
      <4>5. Owed(doc, q) \subseteq out.coverage /\ doc.packs[q].rules \subseteq out.rules
        <5> HIDE DEF pack
        <5> QED BY <2>5, <4>1, <4>2 DEF Owed
      <4> QED BY <4>4, <4>5
    <3>2. CASE j # i
      <4>0. j \in 1..(i - 1) /\ order[j] \in DOMAIN doc.packs BY <1>0, <3>2
      <4>1. /\ Owed(doc, q) \subseteq eff.coverage /\ doc.packs[q].rules \subseteq eff.rules
            /\ \A field \in ReplaceFields :
                 Keeps(field, doc.packs[q], eff) \/ TakenBack(doc, change, order, j, i - 1, field)
        BY <2>4, <2>7, <4>0 DEF Honours
      <4>2. Demand(eff) /\ Demand(e) /\ Demand(out) BY <2>8, <2>4, <2>5 DEF Honours, IsPolicy
      <4>3. Demand(doc.packs[q]) BY <2>7, <4>0, PackExpanded
      <4>4. ASSUME NEW field \in ReplaceFields
            PROVE  Keeps(field, doc.packs[q], out) \/ TakenBack(doc, change, order, j, i, field)
        <5>1. CASE TakenBack(doc, change, order, j, i - 1, field) BY <1>1, <5>1
        <5>2. CASE Delegates(doc, p, field)
          <6>1. i \in (j + 1)..i BY <4>0
          <6> QED BY <1>3, <5>2, <6>1 DEF TakenBack
        <5>3. CASE Keeps(field, doc.packs[q], eff) /\ Keeps(field, eff, e)
          <6>1. Keeps(field, doc.packs[q], e) BY <4>2, <4>3, <5>3, KeepsOnKeeping
          <6>2. Keeps(field, e, out) BY <2>5
          <6> QED BY <4>2, <4>3, <6>1, <6>2, KeepsOnKeeping
        <5> QED BY <2>8, <4>1, <5>1, <5>2, <5>3
      <4> QED BY <2>8, <2>5, <4>1, <4>4
    <3> QED BY <3>1, <3>2
  <2> QED BY <2>5, <2>6, <2>7, <2>9 DEF Honours
<1> QED BY <1>2, <1>3

LEMMA PoliciesHonour ==
  ASSUME NEW doc, IsDocument(doc), NEW change, NEW runtime, NEW order, order = PackOrder(doc),
         NEW n, n = Cardinality(DOMAIN doc.packs), NEW eff \in ApplyPacks(doc, change, runtime)
  PROVE  n \in Nat /\ Honours(doc, change, runtime, order, n, eff)
<1>1. n \in Nat /\ \A i \in 1..n : order[i] \in DOMAIN doc.packs BY PacksOrdered
<1>2. PICK effs : /\ effs[0] = {Start(doc, runtime)}
                  /\ \A i \in 1..n : effs[i] = ApplyPack(doc, change, effs[i - 1], order[i])
                  /\ ApplyPacks(doc, change, runtime) = effs[n]
  BY <1>1, PacksApplied
<1> DEFINE H(i) == \A e \in effs[i] : Honours(doc, change, runtime, order, i, e)
           bad == {i \in 1..n : ~H(i)}
<1>3. H(0) BY <1>2, StartHonours
<1>4. ASSUME NEW i \in 1..n, H(i - 1) PROVE H(i)
  <2>1. effs[i] = ApplyPack(doc, change, effs[i - 1], order[i]) BY <1>2
  <2>2. i \in Nat /\ i > 0 /\ \A j \in 1..i : order[j] \in DOMAIN doc.packs BY <1>1
  <2> QED BY <1>4, <2>1, <2>2, PackHonours
<1> HIDE DEF H
<1>5. ASSUME NEW i \in 1..n, i \in bad PROVE \E j \in 1..n : j < i /\ j \in bad
  <2>1. ~H(i - 1) BY <1>4, <1>5
  <2>2. i - 1 # 0 BY <1>3, <2>1
  <2>3. i - 1 \in 1..n /\ i - 1 < i BY <1>1, <2>2
  <2> QED BY <2>1, <2>3
<1>6. bad \in SUBSET (1..n) OBVIOUS
<1>7. bad = {}
  <2> HIDE DEF bad
  <2> QED BY <1>1, <1>5, <1>6, FirstIndex
<1>8. H(n)
  <2>1. CASE n = 0 BY <1>3, <2>1
  <2>2. CASE n # 0
    <3>1. n \in 1..n BY <1>1, <2>2
    <3> QED BY <1>7, <3>1
  <2> QED BY <2>1, <2>2
<1> QED BY <1>1, <1>2, <1>8 DEF H

(***************************************************************************)
(* Places in order.                                                         *)
(***************************************************************************)
\* A strict total order of a finite set numbers its elements.
StrictOrder(D, R) ==
  /\ \A i \in D : <<i, i>> \notin R
  /\ \A i, j, k \in D : <<i, j>> \in R /\ <<j, k>> \in R => <<i, k>> \in R
  /\ \A i, j \in D : i # j => <<i, j>> \in R \/ <<j, i>> \in R
Numbered(D, R, n) ==
  /\ n \in Nat /\ n = Cardinality(D)
  /\ \A k \in 1..n : Nth(D, R, k) \in D /\ Cardinality(Ahead(D, R, Nth(D, R, k))) = k - 1
  /\ \A i \in D : \E k \in 1..n : Nth(D, R, k) = i
  /\ \A k, l \in 1..n : k < l => <<Nth(D, R, k), Nth(D, R, l)>> \in R
LEMMA Ranks ==
  ASSUME NEW D, IsFiniteSet(D), NEW R, StrictOrder(D, R)
  PROVE  Numbered(D, R, Cardinality(D))
<1> DEFINE n == Cardinality(D)
           below(i) == Ahead(D, R, i)
           rank(i) == Cardinality(below(i))
           f == [i \in D |-> rank(i)]
<1>0. StrictOrder(D, R) OBVIOUS
<1>1. n \in Nat BY FS_CardinalityType
<1>2. \A i \in D : below(i) \in SUBSET D /\ IsFiniteSet(below(i)) /\ rank(i) \in Nat
  <2>1. \A i \in D : below(i) \in SUBSET D BY DEF Ahead
  <2> HIDE DEF below
  <2> QED BY <2>1, FS_Subset, FS_CardinalityType
<1>3. ASSUME NEW i \in D, NEW j \in D, <<j, i>> \in R PROVE rank(j) < rank(i)
  <2>1. below(j) \subseteq below(i) /\ j \in below(i) /\ j \notin below(j) BY <1>0, <1>3 DEF Ahead, StrictOrder
  <2> HIDE DEF below
  <2>2. rank(j) <= rank(i) /\ (rank(j) = rank(i) => below(j) = below(i)) BY <1>2, <2>1, FS_Subset
  <2>3. rank(j) # rank(i) BY <2>1, <2>2
  <2> QED BY <1>2, <2>2, <2>3
<1>4. ASSUME NEW i \in D PROVE rank(i) \in 0..(n - 1)
  <2>1. below(i) \in SUBSET (D \ {i}) BY <1>0 DEF Ahead, StrictOrder
  <2>2. IsFiniteSet(D \ {i}) /\ Cardinality(D \ {i}) = n - 1 BY FS_RemoveElement
  <2> HIDE DEF below
  <2>3. rank(i) <= n - 1 BY <2>1, <2>2, FS_Subset
  <2> QED BY <1>1, <1>2, <2>3
<1>5. \A i, j \in D : rank(i) = rank(j) => i = j
  <2> HIDE DEF rank
  <2> SUFFICES ASSUME NEW i \in D, NEW j \in D, rank(i) = rank(j), i # j PROVE FALSE OBVIOUS
  <2>1. rank(i) \in Nat /\ rank(j) \in Nat BY <1>2
  <2>2. <<i, j>> \in R \/ <<j, i>> \in R BY <1>0 DEF StrictOrder
  <2> QED BY <1>3, <2>1, <2>2
<1>6. \A k \in 0..(n - 1) : \E i \in D : rank(i) = k
  <2>1. f \in Injection(D, 0..(n - 1))
    <3> HIDE DEF rank
    <3> QED BY <1>4, <1>5 DEF Injection, IsInjective
  <2>2. IsFiniteSet(0..(n - 1)) /\ Cardinality(0..(n - 1)) = n
    <3>1. 0 \in Int /\ n - 1 \in Int BY <1>1
    <3>2. /\ IsFiniteSet(0..(n - 1))
          /\ Cardinality(0..(n - 1)) = IF 0 > n - 1 THEN 0 ELSE (n - 1) - 0 + 1
      BY <3>1, FS_Interval
    <3> QED BY <1>1, <3>2
  <2> HIDE DEF f
  <2>3. f \in Surjection(D, 0..(n - 1)) BY <2>1, <2>2, FS_Injection
  <2> QED BY <2>3 DEF Surjection, f
<1>7. ASSUME NEW k \in 1..n PROVE Nth(D, R, k) \in D /\ rank(Nth(D, R, k)) = k - 1
  <2>1. Nth(D, R, k) = CHOOSE i \in D : rank(i) = k - 1 BY DEF Nth
  <2>2. k - 1 \in 0..(n - 1) BY <1>1
  <2> HIDE DEF rank
  <2> QED BY <1>6, <2>1, <2>2
<1>8. ASSUME NEW i \in D PROVE \E k \in 1..n : Nth(D, R, k) = i
  <2> HIDE DEF rank
  <2>1. rank(i) + 1 \in 1..n BY <1>1, <1>4
  <2>2. Nth(D, R, rank(i) + 1) \in D /\ rank(Nth(D, R, rank(i) + 1)) = rank(i) BY <1>4, <1>7, <2>1
  <2> QED BY <1>5, <2>1, <2>2
<1>9. ASSUME NEW k \in 1..n, NEW l \in 1..n, k < l PROVE <<Nth(D, R, k), Nth(D, R, l)>> \in R
  <2> DEFINE i == Nth(D, R, k)
             j == Nth(D, R, l)
  <2> HIDE DEF rank
  <2>1. rank(i) = k - 1 /\ rank(j) = l - 1 /\ i \in D /\ j \in D BY <1>7
  <2> HIDE DEF i, j
  <2>2. ~(rank(j) < rank(i)) /\ i # j BY <1>1, <1>9, <2>1
  <2>3. <<i, j>> \in R BY <1>0, <1>3, <2>1, <2>2 DEF StrictOrder
  <2> QED BY <2>3 DEF i, j
<1> QED BY <1>1, <1>7, <1>8, <1>9 DEF Numbered

\* Indices are numbered as they rise.
LEMMA IndexRanks ==
  ASSUME NEW n \in Nat, NEW D \in SUBSET (1..n)
  PROVE  /\ IsFiniteSet(D) /\ Numbered(D, Rising(D), Cardinality(D))
         /\ \A i, j \in D : <<i, j>> \in Rising(D) <=> i < j
<1>1. IsFiniteSet(D)
  <2>1. IsFiniteSet(1..n) BY FS_Interval
  <2> QED BY <2>1, FS_Subset
<1>2. \A i, j \in D : <<i, j>> \in Rising(D) <=> i < j BY DEF Rising
<1>3. StrictOrder(D, Rising(D)) BY <1>2 DEF StrictOrder
<1> QED BY <1>1, <1>2, <1>3, Ranks

\* What stands at some places of a sequence is what its entries there hold.
LEMMA EntriesHeld ==
  ASSUME NEW S, NEW s \in Seq(S), NEW D \in SUBSET DOMAIN s, NEW out, out = Entries(s, D),
         NEW T, \A i \in D : s[i] \in T
  PROVE  /\ out \in Seq(T)
         /\ \A k \in DOMAIN out : \E i \in D : out[k] = s[i]
         /\ \A i \in D : \E k \in DOMAIN out : out[k] = s[i]
<1> DEFINE m == Cardinality(D)
           R == Rising(D)
<1>1. Len(s) \in Nat /\ D \in SUBSET (1..Len(s)) OBVIOUS
<1>2. Numbered(D, R, m) BY <1>1, IndexRanks
<1>3. out = [k \in 1..m |-> s[Nth(D, R, k)]] BY DEF Entries, InOrder
<1> HIDE DEF m, R
<1>4. out \in [1..m -> T] BY <1>2, <1>3 DEF Numbered
<1>5. out \in Seq(T) /\ DOMAIN out = 1..m BY <1>2, <1>4 DEF Numbered
<1> QED BY <1>2, <1>3, <1>5 DEF Numbered

(***************************************************************************)
(* The sections of the documents.                                           *)
(***************************************************************************)
IsSection(docs, s) ==
  /\ s.doc \in DOMAIN docs /\ s.title \in Nat
  /\ s.rule = docs[s.doc].rule /\ s.supporting = docs[s.doc].supporting
AreSections(all) ==
  /\ Len(all) \in Nat /\ DOMAIN all = 1..Len(all)
  /\ \A n \in DOMAIN all : all[n].doc \in Nat /\ all[n].title \in Nat
  /\ \A m, n \in DOMAIN all : all[m].doc = all[n].doc =>
       all[m].rule = all[n].rule /\ all[m].supporting = all[n].supporting

LEMMA SectionBounded ==
  ASSUME NEW docs, NEW k \in DOMAIN docs, NEW head, head.title \in Nat, NEW heading, NEW ordinal, NEW lines, NEW limits
  PROVE  IsSection(docs, BoundedCorpusSection(docs, k, head, heading, ordinal, lines, limits))
<1> DEFINE s == BoundedCorpusSection(docs, k, head, heading, ordinal, lines, limits)
<1>1. s.doc = k /\ s.title = head.title /\ s.rule = docs[k].rule /\ s.supporting = docs[k].supporting
  BY DEF BoundedCorpusSection
<1> HIDE DEF s
<1>2. IsSection(docs, s) BY <1>1 DEF IsSection
<1> QED BY <1>2 DEF s

LEMMA MarkdownSplit ==
  ASSUME NEW docs, NEW k \in DOMAIN docs, IsLines(docs[k].lines), NEW limits,
         NEW split, split = SplitMarkdownDocument(docs, k, limits)
  PROVE  \E n \in Nat : DOMAIN split = 1..n /\ \A m \in 1..n : IsSection(docs, split[m])
<1> DEFINE lines == docs[k].lines
           fenced(i) == Cardinality({j \in 1..i : lines[j].fence}) % 2 = 1
           places == {i \in DOMAIN lines : lines[i].level > 0 /\ ~fenced(i)}
           all == [i \in DOMAIN lines |-> i]
           marks == Entries(all, places)
           level(m) == IF lines[marks[m]].level > 6 THEN 1 ELSE lines[marks[m]].level
           titled(m, l) == {j \in 1..m : level(j) <= l}
           heading(m) == [l \in 1..level(m) |->
             IF titled(m, l) = {} \/ level(Max(titled(m, l))) # l THEN 0 ELSE lines[marks[Max(titled(m, l))]].title]
           end(m) == IF m = Len(marks) THEN Len(lines) ELSE marks[m + 1] - 1
<1>1. Len(lines) \in Nat /\ DOMAIN lines = 1..Len(lines) /\ \A i \in DOMAIN lines : lines[i].title \in Nat
  BY DEF IsLines
<1>2. marks \in Seq(DOMAIN lines)
  <2>1. all \in Seq(DOMAIN lines) /\ places \in SUBSET DOMAIN all /\ \A i \in places : all[i] \in DOMAIN lines
    <3> HIDE DEF lines
    <3> QED BY <1>1
  <2> HIDE DEF lines, all, places
  <2> QED BY <2>1, EntriesHeld
<1>3. split = [m \in DOMAIN marks |->
        BoundedCorpusSection(docs, k, lines[marks[m]], heading(m), m - 1, SubSeq(lines, marks[m], end(m)), limits)]
  BY DEF SplitMarkdownDocument
<1> HIDE DEF lines, marks, heading, end
<1>4. ASSUME NEW m \in DOMAIN marks PROVE IsSection(docs, split[m])
  <2>1. lines[marks[m]].title \in Nat BY <1>1, <1>2
  <2>2. IsSection(docs, BoundedCorpusSection(docs, k, lines[marks[m]], heading(m), m - 1,
                                             SubSeq(lines, marks[m], end(m)), limits))
    BY <2>1, SectionBounded
  <2> QED BY <1>3, <2>2
<1>5. DOMAIN split = DOMAIN marks BY <1>3
<1>6. Len(marks) \in Nat /\ DOMAIN marks = 1..Len(marks) BY <1>2
<1> QED BY <1>4, <1>5, <1>6

\* A document is split into sections of its own.
LEMMA DocumentSplit ==
  ASSUME NEW docs, NEW k \in DOMAIN docs, IsLines(docs[k].lines), NEW limits,
         NEW split, split = SplitCorpusDocument(docs, k, limits)
  PROVE  \E n \in Nat : DOMAIN split = 1..n /\ split \in [1..n -> {split[m] : m \in 1..n}]
                         /\ \A m \in 1..n : IsSection(docs, split[m])
<1> DEFINE lines == docs[k].lines
           name == [title |-> 0, leads |-> <<>>, ids |-> {}, routes |-> {}, words |-> docs[k].words]
           parted == CASE docs[k].form = "markdown" -> SplitMarkdownDocument(docs, k, limits)
                       [] docs[k].form = "api" -> SplitAPIDocument(docs, k, limits)
                       [] OTHER -> <<>>
           whole == BoundedCorpusSection(docs, k, name, <<>>, 0, docs[k].lines, limits)
           Good(s) == \E n \in Nat : DOMAIN s = 1..n /\ \A m \in 1..n : IsSection(docs, s[m])
<1>1. Len(lines) \in Nat /\ DOMAIN lines = 1..Len(lines) /\ \A i \in DOMAIN lines : lines[i].title \in Nat
  BY DEF IsLines
<1>2. Good(SplitMarkdownDocument(docs, k, limits)) BY MarkdownSplit
<1>3. Good(SplitAPIDocument(docs, k, limits))
  <2> DEFINE api == SplitAPIDocument(docs, k, limits)
  <2>1. api = [i \in DOMAIN lines |-> BoundedCorpusSection(docs, k, lines[i], <<>>, 0, <<lines[i]>>, limits)]
    BY DEF SplitAPIDocument
  <2> HIDE DEF api, lines
  <2>2. ASSUME NEW i \in DOMAIN lines PROVE IsSection(docs, api[i])
    <3>1. IsSection(docs, BoundedCorpusSection(docs, k, lines[i], <<>>, 0, <<lines[i]>>, limits))
      BY <1>1, SectionBounded
    <3> QED BY <2>1, <3>1
  <2>3. DOMAIN api = 1..Len(lines) BY <1>1, <2>1
  <2>4. Good(api) BY <1>1, <2>2, <2>3
  <2> QED BY <2>4 DEF api
<1>4. IsSection(docs, whole)
  <2>1. name.title \in Nat OBVIOUS
  <2> HIDE DEF name
  <2> QED BY <2>1, SectionBounded
<1>5. split = IF parted = <<>> THEN <<whole>> ELSE parted BY DEF SplitCorpusDocument
<1>6. parted \in {SplitMarkdownDocument(docs, k, limits), SplitAPIDocument(docs, k, limits), <<>>} OBVIOUS
<1> HIDE DEF whole, parted, Good
<1>7. Good(<<whole>>)
  <2>1. DOMAIN <<whole>> = 1..1 /\ <<whole>>[1] = whole OBVIOUS
  <2>2. \A m \in 1..1 : IsSection(docs, <<whole>>[m]) BY <1>4, <2>1
  <2> QED BY <2>1, <2>2 DEF Good
<1>8. Good(split)
  <2>1. CASE parted = <<>> BY <1>5, <1>7, <2>1
  <2>2. CASE parted # <<>> BY <1>2, <1>3, <1>5, <1>6, <2>2
  <2> QED BY <2>1, <2>2
<1>9. PICK n \in Nat : DOMAIN split = 1..n /\ \A m \in 1..n : IsSection(docs, split[m]) BY <1>8 DEF Good
<1>10. \E f : split = [m \in 1..n |-> f[m]]
  <2>1. CASE parted = <<>>
    <3>1. split = <<whole>> BY <1>5, <2>1
    <3>2. <<whole>> = [m \in 1..1 |-> <<whole>>[m]] OBVIOUS
    <3>3. n = 1
      <4>1. DOMAIN <<whole>> = 1..1 OBVIOUS
      <4>2. 1..n = 1..1 BY <1>9, <3>1, <4>1
      <4> QED BY <4>2
    <3> QED BY <3>1, <3>2, <3>3
  <2>2. CASE parted # <<>>
    <3>1. split \in {SplitMarkdownDocument(docs, k, limits), SplitAPIDocument(docs, k, limits)} BY <1>5, <1>6, <2>2
    <3>2. split = [m \in DOMAIN split |-> split[m]]
      BY <3>1 DEF SplitMarkdownDocument, SplitAPIDocument
    <3> QED BY <1>9, <3>2
  <2> QED BY <2>1, <2>2
<1> QED BY <1>9, <1>10

LEMMA SectionsKnown ==
  ASSUME NEW library, IsLibrary(library), NEW limits, NEW all, all = CorpusSections(library, limits)
  PROVE  AreSections(all)
<1> DEFINE D == {d \in Range(library) : IsLines(d.lines)}
           places == {k \in DOMAIN library :
                        ClassifyCorpusDocument(library[k]) # 0 /\ Len(library[k].lines) <= limits.document}
           docs == DiscoverCorpusDocuments(library, limits)
           seqs == [k \in DOMAIN docs |-> SplitCorpusDocument(docs, k, limits)]
           T == UNION {{seqs[k][m] : m \in DOMAIN seqs[k]} : k \in DOMAIN docs}
<1>1. docs \in Seq(D)
  <2>1. library \in Seq(D) BY DEF IsLibrary
  <2>2. docs = Entries(library, places) BY DEF DiscoverCorpusDocuments
  <2>3. places \in SUBSET DOMAIN library OBVIOUS
  <2> HIDE DEF D, docs, places
  <2>4. \A i \in places : library[i] \in D BY <2>1, <2>3
  <2> QED BY <2>1, <2>2, <2>3, <2>4, EntriesHeld
<1>2. ASSUME NEW k \in DOMAIN docs
      PROVE  /\ seqs[k] \in Seq(T) /\ \A m \in DOMAIN seqs[k] : IsSection(docs, seqs[k][m])
  <2>1. IsLines(docs[k].lines)
    <3>1. docs[k] \in D
      <4> HIDE DEF D, docs
      <4> QED BY <1>1, <1>2
    <3> QED BY <3>1
  <2> HIDE DEF docs
  <2>2. seqs[k] = SplitCorpusDocument(docs, k, limits) OBVIOUS
  <2>3. PICK n \in Nat : /\ DOMAIN seqs[k] = 1..n /\ seqs[k] \in [1..n -> {seqs[k][m] : m \in 1..n}]
                         /\ \A m \in 1..n : IsSection(docs, seqs[k][m])
    <3> HIDE DEF seqs
    <3> QED BY <2>1, <2>2, DocumentSplit
  <2> HIDE DEF seqs
  <2>4. {seqs[k][m] : m \in 1..n} \subseteq T BY <2>3
  <2> HIDE DEF T
  <2>5. seqs[k] \in [1..n -> T] BY <2>3, <2>4
  <2>6. \A s \in [1..n -> T] : s \in Seq(T) OBVIOUS
  <2> QED BY <2>3, <2>5, <2>6
<1>3. all \in Seq(T)
  <2>1. all = FlattenSeq(seqs) BY DEF CorpusSections
  <2>2. Len(docs) \in Nat /\ DOMAIN docs = 1..Len(docs)
    <3> HIDE DEF D, docs
    <3> QED BY <1>1
  <2>3. seqs \in [1..Len(docs) -> Seq(T)]
    <3>1. DOMAIN seqs = 1..Len(docs) /\ seqs = [k \in 1..Len(docs) |-> SplitCorpusDocument(docs, k, limits)]
      <4> HIDE DEF docs
      <4> QED BY <2>2
    <3> HIDE DEF seqs, T, docs
    <3> QED BY <1>2, <2>2, <3>1
  <2> HIDE DEF seqs, T, docs
  <2>4. seqs \in Seq(Seq(T)) BY <2>2, <2>3
  <2> QED BY <2>1, <2>4, FlattenedElements
<1>4. \A s \in T : IsSection(docs, s)
  <2> HIDE DEF docs, seqs
  <2> QED BY <1>2
<1>5. DOMAIN docs \subseteq Nat
  <2> HIDE DEF D, docs
  <2> QED BY <1>1
<1> HIDE DEF T, docs
<1>6. Len(all) \in Nat /\ DOMAIN all = 1..Len(all) /\ \A n \in DOMAIN all : IsSection(docs, all[n]) BY <1>3, <1>4
<1> QED BY <1>5, <1>6 DEF AreSections, IsSection

(***************************************************************************)
(* Scores.                                                                  *)
(***************************************************************************)
AreSignals(signals) ==
  /\ IsFiniteSet(signals.ids) /\ IsFiniteSet(signals.routes) /\ IsFiniteSet(signals.terms)
  /\ IsFiniteSet(signals.parts) /\ IsFiniteSet(signals.entities)

\* The change says finitely much, in finitely many texts.
LEMMA GatheredFinite ==
  ASSUME NEW S, IsFiniteSet(S), NEW f, \A x \in S : IsFiniteSet(f[x])
  PROVE  IsFiniteSet(UNION {f[x] : x \in S})
<1> DEFINE T == {f[x] : x \in S}
           g == [x \in S |-> f[x]]
<1>1. g \in Surjection(S, T) BY DEF Surjection
<1>2. \A t \in T : IsFiniteSet(t) OBVIOUS
<1> HIDE DEF T, g
<1>3. IsFiniteSet(T) BY <1>1, FS_Surjection
<1>4. IsFiniteSet(UNION T) BY <1>2, <1>3, FS_UNION
<1> QED BY <1>4 DEF T

LEMMA SignalsKnown ==
  ASSUME NEW texts, IsFiniteSet(texts),
         \A t \in texts : IsFiniteSet(t.ids) /\ IsFiniteSet(t.routes) /\ IsFiniteSet(t.words), NEW topics
  PROVE  AreSignals(ExtractReviewSignals(texts, topics))
<1> DEFINE at(places) == {t \in texts : t.place \in places}
           ids == [t \in texts |-> t.ids]
           routes == [t \in texts |-> t.routes]
           words == [t \in texts |-> t.words]
           signals == ExtractReviewSignals(texts, topics)
<1>1. /\ signals.ids = UNION {t.ids : t \in texts} /\ signals.routes = UNION {t.routes : t \in texts}
      /\ signals.terms = UNION {t.words : t \in texts}
      /\ signals.parts = UNION {t.words : t \in at({"path"})}
      /\ signals.entities = UNION {t.words : t \in at({"patch", "commit"})}
  BY DEF ExtractReviewSignals
<1> HIDE DEF signals
<1>2. \A S \in SUBSET texts : IsFiniteSet(S) BY FS_Subset
<1>3. at({"path"}) \in SUBSET texts /\ at({"patch", "commit"}) \in SUBSET texts /\ texts \in SUBSET texts OBVIOUS
<1> HIDE DEF at
<1>4. \A t \in texts : IsFiniteSet(ids[t]) /\ IsFiniteSet(routes[t]) /\ IsFiniteSet(words[t]) OBVIOUS
<1>5. /\ {t.ids : t \in texts} = {ids[t] : t \in texts} /\ {t.routes : t \in texts} = {routes[t] : t \in texts}
      /\ \A S \in SUBSET texts : {t.words : t \in S} = {words[t] : t \in S}
  OBVIOUS
<1> HIDE DEF ids, routes, words
<1>6. IsFiniteSet(UNION {ids[t] : t \in texts}) /\ IsFiniteSet(UNION {routes[t] : t \in texts})
  BY <1>4, GatheredFinite
<1>7. \A S \in SUBSET texts : IsFiniteSet(UNION {words[t] : t \in S})
  <2> SUFFICES ASSUME NEW S \in SUBSET texts PROVE IsFiniteSet(UNION {words[t] : t \in S}) OBVIOUS
  <2>1. IsFiniteSet(S) /\ \A t \in S : IsFiniteSet(words[t]) BY <1>2, <1>4
  <2> QED BY <2>1, GatheredFinite
<1>8. IsFiniteSet(signals.ids) /\ IsFiniteSet(signals.routes) BY <1>1, <1>5, <1>6
<1>9. IsFiniteSet(signals.terms) /\ IsFiniteSet(signals.parts) /\ IsFiniteSet(signals.entities)
  <2>1. \A S \in SUBSET texts : IsFiniteSet(UNION {t.words : t \in S}) BY <1>5, <1>7
  <2>2. IsFiniteSet(signals.terms) BY <1>1, <1>3, <2>1
  <2>3. IsFiniteSet(signals.parts) BY <1>1, <1>3, <2>1
  <2>4. IsFiniteSet(signals.entities) BY <1>1, <1>3, <2>1
  <2> QED BY <2>2, <2>3, <2>4
<1> QED BY <1>8, <1>9 DEF AreSignals, signals

LEMMA AuthorityKnown == ASSUME NEW s PROVE AuthorityScore(s) \in 0..12
BY DEF AuthorityScore

LEMMA PartsCounted ==
  ASSUME NEW S, IsFiniteSet(S), NEW X, X \subseteq S
  PROVE  Cardinality(X) \in Nat
<1>1. IsFiniteSet(X) BY FS_Subset
<1> QED BY <1>1, FS_CardinalityType

\* A section has a score, and one of another language's rules has none.
LEMMA ScoresKnown ==
  ASSUME NEW all, NEW s, NEW signals, AreSignals(signals), NEW limits,
         NEW score, score = ScoreCorpusFeature(all, s, signals, limits)
  PROVE  score \in Nat /\ (score > 0 => ~Foreign(s, signals))
<1> DEFINE ids == signals.ids \cap s.ids
           leading == {id \in ids : s.leads = id}
           titled == (ids \cap s.titleIds) \ leading
           per == IF s.authority \in {"requirements", "contract"} THEN 170 ELSE 55
           owed == IF s.authority = "contract" \/ "contract" \in s.pathWords THEN 40 * Cardinality(ids) ELSE 0
           ofIds == 500 * Cardinality(leading) + 260 * Cardinality(titled)
                    + per * Cardinality(ids \ (leading \cup titled)) + owed
           ofRule == IF s.rule \notin signals.rules THEN 0 ELSE IF LanguageRuleOverview(s) THEN 360 ELSE 55
           parts == signals.parts \cap s.words
           ofParts == 20 * Cardinality(parts \cap s.pathWords)
                      + 18 * Cardinality((parts \cap s.titleWords) \ s.pathWords)
                      + 6 * Cardinality(parts \ (s.titleWords \cup s.pathWords))
           terms == {w \in signals.terms \cap s.words : DocFreq(all, w) * 3 <= Len(all) * 2}
           rare(bonus) == {w \in terms : RarityBonus(DocFreq(all, w), Len(all)) = bonus}
           ofTerms == 18 * Cardinality(rare(18)) + 12 * Cardinality(rare(12)) + 8 * Cardinality(rare(8))
                      + 35 * Cardinality(terms \cap s.titleWords)
                      + 12 * Cardinality((terms \cap s.pathWords) \ s.titleWords)
                      + 4 * Cardinality(terms \ (s.titleWords \cup s.pathWords))
           matched == ofIds + 120 * Cardinality(signals.routes \cap s.routes) + ofRule + ofParts
                      + 12 * Cardinality(signals.entities \cap s.words) + ofTerms
           extra == IF matched > 0 THEN IF SkillRelevant(s, signals) THEN 25 ELSE 0
                    ELSE IF s.authority = "baseline_rules" /\ s.size <= limits.baseline THEN 5 ELSE 0
<1>1. ofIds \in Nat
  <2>1. ids \subseteq signals.ids /\ leading \subseteq signals.ids /\ titled \subseteq signals.ids
        /\ ids \ (leading \cup titled) \subseteq signals.ids
    OBVIOUS
  <2> HIDE DEF ids, leading, titled
  <2>2. /\ Cardinality(ids) \in Nat /\ Cardinality(leading) \in Nat /\ Cardinality(titled) \in Nat
        /\ Cardinality(ids \ (leading \cup titled)) \in Nat
    BY <2>1, PartsCounted DEF AreSignals
  <2>3. per \in {170, 55} /\ owed \in Nat BY <2>2
  <2> HIDE DEF per, owed
  <2>4. per * Cardinality(ids \ (leading \cup titled)) \in Nat BY <2>2, <2>3
  <2> QED BY <2>2, <2>3, <2>4
<1>2. ofParts \in Nat
  <2>1. \A X : X \subseteq parts => Cardinality(X) \in Nat BY PartsCounted DEF AreSignals
  <2> HIDE DEF parts
  <2>2. /\ Cardinality(parts \cap s.pathWords) \in Nat /\ Cardinality((parts \cap s.titleWords) \ s.pathWords) \in Nat
        /\ Cardinality(parts \ (s.titleWords \cup s.pathWords)) \in Nat
    BY <2>1
  <2> QED BY <2>2
<1>3. ofTerms \in Nat
  <2>1. \A X : X \subseteq terms => Cardinality(X) \in Nat BY PartsCounted DEF AreSignals
  <2>2. rare(18) \subseteq terms /\ rare(12) \subseteq terms /\ rare(8) \subseteq terms OBVIOUS
  <2> HIDE DEF terms, rare
  <2>3. Cardinality(rare(18)) \in Nat /\ Cardinality(rare(12)) \in Nat /\ Cardinality(rare(8)) \in Nat
    BY <2>1, <2>2
  <2>4. /\ Cardinality(terms \cap s.titleWords) \in Nat /\ Cardinality((terms \cap s.pathWords) \ s.titleWords) \in Nat
        /\ Cardinality(terms \ (s.titleWords \cup s.pathWords)) \in Nat
    BY <2>1
  <2> QED BY <2>3, <2>4
<1>4. Cardinality(signals.routes \cap s.routes) \in Nat /\ Cardinality(signals.entities \cap s.words) \in Nat
  BY PartsCounted DEF AreSignals
<1>5. ofRule \in Nat OBVIOUS
<1>6. AuthorityScore(s) \in Nat BY AuthorityKnown
<1>7. score = IF Foreign(s, signals) \/ matched + extra = 0 THEN 0 ELSE matched + extra + AuthorityScore(s)
  BY DEF ScoreCorpusFeature
<1> HIDE DEF ofIds, ofParts, ofTerms, ofRule
<1>8. matched \in Nat BY <1>1, <1>2, <1>3, <1>4, <1>5
<1>9. extra \in Nat
  <2> HIDE DEF matched
  <2> QED OBVIOUS
<1> HIDE DEF matched, extra
<1> QED BY <1>6, <1>7, <1>8, <1>9

(***************************************************************************)
(* Evidence that is sorted and merged.                                      *)
(***************************************************************************)
Relevant(all, signals) == {n \in DOMAIN all : ~Foreign(all[n], signals)}
Items(all, signals, hows) == [node : Relevant(all, signals), score : Nat, of : DOMAIN all, how : hows]

\* By score, document, title and place.
Outranks(score1, doc1, title1, place1, score2, doc2, title2, place2) ==
  \/ score1 > score2
  \/ score1 = score2 /\ doc1 < doc2
  \/ score1 = score2 /\ doc1 = doc2 /\ title1 < title2
  \/ score1 = score2 /\ doc1 = doc2 /\ title1 = title2 /\ place1 < place2

LEMMA OutranksNotSelf ==
  ASSUME NEW s \in Nat, NEW d \in Nat, NEW t \in Nat, NEW p \in Nat
  PROVE  ~Outranks(s, d, t, p, s, d, t, p)
BY DEF Outranks

LEMMA OutranksTotal ==
  ASSUME NEW s1 \in Nat, NEW d1 \in Nat, NEW t1 \in Nat, NEW p1 \in Nat,
         NEW s2 \in Nat, NEW d2 \in Nat, NEW t2 \in Nat, NEW p2 \in Nat, p1 # p2
  PROVE  Outranks(s1, d1, t1, p1, s2, d2, t2, p2) \/ Outranks(s2, d2, t2, p2, s1, d1, t1, p1)
BY DEF Outranks

LEMMA OutranksFollows ==
  ASSUME NEW s1 \in Nat, NEW d1 \in Nat, NEW t1 \in Nat, NEW p1 \in Nat,
         NEW s2 \in Nat, NEW d2 \in Nat, NEW t2 \in Nat, NEW p2 \in Nat,
         NEW s3 \in Nat, NEW d3 \in Nat, NEW t3 \in Nat, NEW p3 \in Nat,
         Outranks(s1, d1, t1, p1, s2, d2, t2, p2), Outranks(s2, d2, t2, p2, s3, d3, t3, p3)
  PROVE  Outranks(s1, d1, t1, p1, s3, d3, t3, p3)
BY DEF Outranks

LEMMA EvidenceSorted ==
  ASSUME NEW all, AreSections(all), NEW signals, NEW hows, NEW items \in Seq(Items(all, signals, hows)),
         NEW out, out = SortScoredCorpus(all, items)
  PROVE  /\ out \in Seq(Items(all, signals, hows))
         /\ \A k \in DOMAIN out : \E i \in DOMAIN items : out[k] = items[i]
         /\ \A i \in DOMAIN items : \E k \in DOMAIN out : out[k] = items[i]
         /\ \A k, l \in DOMAIN out : k < l => out[k].score >= out[l].score
<1> DEFINE D == DOMAIN items
           before(i, j) ==
             LET a == items[i] b == items[j] s == all[items[i].node] t == all[items[j].node] IN
             \/ a.score > b.score
             \/ a.score = b.score /\ s.doc < t.doc
             \/ a.score = b.score /\ s.doc = t.doc /\ s.title < t.title
             \/ a.score = b.score /\ s.doc = t.doc /\ s.title = t.title /\ i < j
           R == {pair \in D \X D : before(pair[1], pair[2])}
           m == Cardinality(D)
           T == Items(all, signals, hows)
<1>1. out = [k \in 1..m |-> items[Nth(D, R, k)]] BY DEF SortScoredCorpus, InOrder
<1>2. Len(items) \in Nat /\ D = 1..Len(items) /\ \A i \in D : items[i] \in T
  OBVIOUS
<1>3. IsFiniteSet(D)
  <2> HIDE DEF D
  <2>1. IsFiniteSet(1..Len(items)) BY <1>2, FS_Interval
  <2> QED BY <1>2, <2>1
<1>4. \A i \in D : /\ i \in Nat /\ items[i].score \in Nat
                   /\ all[items[i].node].doc \in Nat /\ all[items[i].node].title \in Nat
  <2> SUFFICES ASSUME NEW i \in D PROVE /\ i \in Nat /\ items[i].score \in Nat
                   /\ all[items[i].node].doc \in Nat /\ all[items[i].node].title \in Nat
    OBVIOUS
  <2>1. items[i] \in T /\ i \in Nat
    <3> HIDE DEF T, D
    <3> QED BY <1>2
  <2>2. items[i].node \in DOMAIN all /\ items[i].score \in Nat BY <2>1 DEF Items, Relevant
  <2> QED BY <2>1, <2>2 DEF AreSections
<1>5. \A i, j \in D : <<i, j>> \in R <=> before(i, j) OBVIOUS
<1>6. StrictOrder(D, R)
  <2> HIDE DEF R, D
  <2> DEFINE score(i) == items[i].score
             doc(i) == all[items[i].node].doc
             title(i) == all[items[i].node].title
  <2>1. \A i, j \in D : before(i, j) <=> Outranks(score(i), doc(i), title(i), i, score(j), doc(j), title(j), j)
    BY DEF Outranks
  <2>2. \A i \in D : i \in Nat /\ score(i) \in Nat /\ doc(i) \in Nat /\ title(i) \in Nat BY <1>4
  <2> HIDE DEF before, score, doc, title
  <2>3. \A i \in D : ~before(i, i) BY <2>1, <2>2, OutranksNotSelf
  <2>4. \A i, j \in D : i # j => before(i, j) \/ before(j, i) BY <2>1, <2>2, OutranksTotal
  <2>5. ASSUME NEW i \in D, NEW j \in D, NEW k \in D, before(i, j), before(j, k) PROVE before(i, k)
    <3>1. /\ Outranks(score(i), doc(i), title(i), i, score(j), doc(j), title(j), j)
          /\ Outranks(score(j), doc(j), title(j), j, score(k), doc(k), title(k), k)
      BY <2>1, <2>5
    <3>2. Outranks(score(i), doc(i), title(i), i, score(k), doc(k), title(k), k) BY <2>2, <3>1, OutranksFollows
    <3> QED BY <2>1, <3>2
  <2> QED BY <1>5, <2>3, <2>4, <2>5 DEF StrictOrder
<1>7. Numbered(D, R, m)
  <2> HIDE DEF R, D
  <2> QED BY <1>3, <1>6, Ranks
<1>8. \A i, j \in D : before(i, j) => items[i].score >= items[j].score BY <1>4
<1> HIDE DEF R, D, m, before, T
<1>9. out \in [1..m -> T] BY <1>1, <1>2, <1>7 DEF Numbered
<1>10. out \in Seq(T) /\ DOMAIN out = 1..m BY <1>7, <1>9 DEF Numbered
<1>11. \A k, l \in 1..m : k < l => out[k].score >= out[l].score
  <2> SUFFICES ASSUME NEW k \in 1..m, NEW l \in 1..m, k < l PROVE out[k].score >= out[l].score OBVIOUS
  <2>1. Nth(D, R, k) \in D /\ Nth(D, R, l) \in D /\ <<Nth(D, R, k), Nth(D, R, l)>> \in R BY <1>7 DEF Numbered
  <2> QED BY <1>1, <1>5, <1>8, <2>1
<1>12. \A k \in 1..m : \E i \in D : out[k] = items[i] BY <1>1, <1>7 DEF Numbered
<1>13. \A i \in D : \E k \in 1..m : out[k] = items[i] BY <1>1, <1>7 DEF Numbered
<1> QED BY <1>10, <1>11, <1>12, <1>13 DEF T, D

\* One sequence after another.
Continues(s, t, out) ==
  /\ \A k \in DOMAIN s : k \in DOMAIN out /\ out[k] = s[k]
  /\ \A k \in DOMAIN t : Len(s) + k \in DOMAIN out /\ out[Len(s) + k] = t[k]
  /\ \A k \in DOMAIN out : k \in DOMAIN s \/ (k > Len(s) /\ \E j \in DOMAIN t : out[k] = t[j])
LEMMA Joining ==
  ASSUME NEW S, NEW s \in Seq(S), NEW t \in Seq(S)
  PROVE  s \o t \in Seq(S) /\ Continues(s, t, s \o t)
<1> DEFINE out == s \o t
<1>1. Len(s) \in Nat /\ Len(t) \in Nat /\ DOMAIN s = 1..Len(s) /\ DOMAIN t = 1..Len(t) OBVIOUS
<1>2. out \in Seq(S) /\ Len(out) = Len(s) + Len(t) /\ DOMAIN out = 1..Len(out) BY ConcatProperties
<1>3. \A k \in 1..Len(out) : out[k] = IF k <= Len(s) THEN s[k] ELSE t[k - Len(s)]
  BY <1>2, ConcatProperties
<1> HIDE DEF out
<1>4. \A k \in DOMAIN t : Len(s) + k \in DOMAIN out /\ out[Len(s) + k] = t[k]
  <2> SUFFICES ASSUME NEW k \in 1..Len(t) PROVE Len(s) + k \in 1..Len(out) /\ out[Len(s) + k] = t[k] BY <1>1, <1>2
  <2>1. Len(s) + k \in 1..Len(out) /\ ~(Len(s) + k <= Len(s)) /\ (Len(s) + k) - Len(s) = k BY <1>1, <1>2
  <2> QED BY <1>3, <2>1
<1>5. ASSUME NEW k \in 1..Len(out), k \notin DOMAIN s PROVE k > Len(s) /\ \E j \in DOMAIN t : out[k] = t[j]
  <2>1. k > Len(s) /\ k - Len(s) \in DOMAIN t BY <1>1, <1>2, <1>5
  <2> QED BY <1>1, <1>3, <2>1
<1>6. \A k \in DOMAIN s : k \in DOMAIN out /\ out[k] = s[k] BY <1>1, <1>2, <1>3
<1>7. Continues(s, t, out) BY <1>2, <1>4, <1>5, <1>6 DEF Continues
<1> QED BY <1>2, <1>7 DEF out

\* The best of the seeds of a section stands for them.
LEMMA BestSeed ==
  ASSUME NEW all, NEW found, NEW most \in Nat, \A s \in found : s.node \in Nat /\ s.score \in 0..most,
         NEW s \in found
  PROVE  \E t \in found : /\ SameKey(all, t.node, s.node) /\ t.score >= s.score
                           /\ \A u \in found : SameKey(all, u.node, t.node) =>
                                u.score < t.score \/ (u.score = t.score /\ u.node >= t.node)
<1> DEFINE same == {u \in found : SameKey(all, u.node, s.node)}
           scores == {u.score : u \in same}
           top == Max(scores)
           nodes == {u.node : u \in {v \in same : v.score = top}}
<1>1. s \in same /\ \A u \in same : u.node \in Nat /\ u.score \in 0..most BY DEF SameKey
<1> HIDE DEF same
<1>2. scores \in SUBSET (0..most) /\ scores # {} BY <1>1
<1> HIDE DEF scores
<1>3. top \in scores /\ \A c \in scores : top >= c BY <1>2, GreatestElement DEF top
<1> HIDE DEF top
<1>4. nodes \in SUBSET Nat /\ nodes # {} BY <1>1, <1>3 DEF scores
<1> HIDE DEF nodes
<1>5. Min(nodes) \in nodes /\ \A n \in nodes : Min(nodes) <= n BY <1>4, LeastElement
<1>6. PICK t \in same : t.score = top /\ t.node = Min(nodes)
  <2>1. \A n \in nodes : \E t \in same : t.score = top /\ t.node = n BY DEF nodes
  <2> QED BY <1>5, <2>1
<1>7. SameKey(all, t.node, s.node) /\ t \in found BY <1>6 DEF same
<1>8. t.score >= s.score BY <1>1, <1>3, <1>6 DEF scores
<1>9. ASSUME NEW u \in found, SameKey(all, u.node, t.node)
      PROVE  u.score < t.score \/ (u.score = t.score /\ u.node >= t.node)
  <2>1. u \in same BY <1>7, <1>9 DEF same, SameKey
  <2>2. u.score \in scores /\ u.score <= t.score BY <1>1, <1>2, <1>3, <1>6, <2>1 DEF scores
  <2>3. u.score = t.score => u.node \in nodes BY <1>6, <2>1 DEF nodes
  <2> QED BY <1>1, <1>4, <1>5, <1>6, <2>1, <2>2, <2>3
<1> QED BY <1>7, <1>8, <1>9

\* Merging keeps what is there, raises it, and leaves out nothing that was found.
LEMMA EvidenceMerged ==
  ASSUME NEW all, AreSections(all), NEW signals, NEW items \in Seq(Items(all, signals, {"match"})),
         NEW most \in Nat, NEW found, \A s \in found : s.node \in Relevant(all, signals) /\ s.score \in 0..most,
         NEW out, out = AtLeast(all, items, found)
  PROVE  /\ out \in Seq(Items(all, signals, {"match"}))
         /\ \A k \in DOMAIN items :
              k \in DOMAIN out /\ out[k].node = items[k].node /\ out[k].score >= items[k].score
         /\ \A s \in found : \E k \in DOMAIN out : SameKey(all, out[k].node, s.node) /\ out[k].score >= s.score
<1> DEFINE T == Items(all, signals, {"match"})
           same(n) == {s \in found : SectionKey(all, s.node) = SectionKey(all, n)}
           raised(k) == IF k # Max(Positions(all, items, items[k].node)) THEN items[k]
                        ELSE [items[k] EXCEPT !.score = Max({@} \cup {s.score : s \in same(items[k].node)})]
           new == {s \in found : ~IsIn(all, items, s.node) /\ \A t \in same(s.node) :
                     t.score < s.score \/ (t.score = s.score /\ t.node >= s.node)}
           nodes == {s.node : s \in new}
           index == [n \in DOMAIN all |-> n]
           added == Entries(index, nodes)
           score(n) == (CHOOSE s \in new : s.node = n).score
           left == [k \in DOMAIN items |-> raised(k)]
           right == [k \in DOMAIN added |-> Item(added[k], score(added[k]), added[k], "match")]
<1>0. out = left \o right BY DEF AtLeast
<1>1. Len(items) \in Nat /\ DOMAIN items = 1..Len(items) /\ \A k \in DOMAIN items : items[k] \in T OBVIOUS
<1>2. \A s \in found : s.node \in DOMAIN all /\ s.node \in Nat /\ s.score \in 0..most
  <2>1. DOMAIN all \subseteq Nat BY DEF AreSections
  <2> QED BY <2>1 DEF Relevant
<1>3. ASSUME NEW n \in DOMAIN all, IsIn(all, items, n)
      PROVE  Max(Positions(all, items, n)) \in DOMAIN items /\ SameKey(all, items[Max(Positions(all, items, n))].node, n)
  <2> DEFINE P == Positions(all, items, n)
  <2>1. P \in SUBSET (0..Len(items)) /\ P # {}
    <3>1. P \subseteq DOMAIN items /\ P # {} BY <1>3 DEF Positions, IsIn
    <3> HIDE DEF P
    <3> QED BY <1>1, <3>1
  <2>2. Max(P) \in P
    <3> HIDE DEF P
    <3> QED BY <1>1, <2>1, GreatestElement
  <2>3. \A k \in P : k \in DOMAIN items /\ SameKey(all, items[k].node, n) BY DEF Positions, SameKey
  <2> HIDE DEF P
  <2>4. Max(P) \in DOMAIN items /\ SameKey(all, items[Max(P)].node, n) BY <2>2, <2>3
  <2> QED BY <2>4 DEF P
<1>4. ASSUME NEW k \in DOMAIN items
      PROVE  /\ raised(k) \in T /\ raised(k).node = items[k].node /\ raised(k).score >= items[k].score
             /\ k = Max(Positions(all, items, items[k].node)) =>
                  \A s \in same(items[k].node) : raised(k).score >= s.score
  <2> DEFINE i == items[k]
             scores == {i.score} \cup {s.score : s \in same(i.node)}
             top == Max(scores)
  <2>1. i \in T /\ i.score \in Nat BY <1>1 DEF Items
  <2>2. /\ i.score + most \in Nat /\ scores \in SUBSET (0..(i.score + most)) /\ scores # {}
    <3> HIDE DEF i
    <3> QED BY <1>2, <2>1
  <2>3. top \in scores /\ \A c \in scores : top >= c
    <3> HIDE DEF scores
    <3> QED BY <2>2, GreatestElement
  <2>4. top \in Nat /\ i.score \in scores /\ \A s \in same(i.node) : s.score \in scores BY <2>2, <2>3
  <2>5. CASE k # Max(Positions(all, items, i.node))
    <3>1. raised(k) = i BY <2>5
    <3> HIDE DEF i, raised
    <3> QED BY <2>1, <2>5, <3>1 DEF i
  <2>6. CASE k = Max(Positions(all, items, i.node))
    <3>1. raised(k) = [i EXCEPT !.score = top] BY <2>6
    <3> HIDE DEF i, raised, same, scores, top
    <3>2. raised(k) \in T /\ raised(k).node = i.node /\ raised(k).score = top BY <2>1, <2>4, <3>1 DEF Items
    <3> QED BY <2>3, <2>4, <3>2 DEF i
  <2> QED BY <2>5, <2>6
<1>5. left \in Seq(T) /\ DOMAIN left = DOMAIN items
  <2> HIDE DEF raised, T
  <2>1. left \in [1..Len(items) -> T] BY <1>1, <1>4
  <2> QED BY <1>1, <2>1
<1>6. nodes \in SUBSET DOMAIN index /\ index \in Seq(DOMAIN all) /\ \A n \in nodes : index[n] \in nodes
  <2>1. nodes \subseteq DOMAIN all BY <1>2
  <2> HIDE DEF nodes
  <2> QED BY <2>1 DEF AreSections
<1>7. /\ added \in Seq(nodes) /\ \A n \in nodes : \E k \in DOMAIN added : added[k] = n
  <2>0. added = Entries(index, nodes) OBVIOUS
  <2> HIDE DEF nodes, index, added
  <2>1. /\ added \in Seq(nodes)
        /\ \A k \in DOMAIN added : \E n \in nodes : added[k] = index[n]
        /\ \A n \in nodes : \E k \in DOMAIN added : added[k] = index[n]
    BY <1>6, <2>0, EntriesHeld
  <2>2. \A n \in nodes : index[n] = n BY <1>6 DEF index
  <2> QED BY <2>1, <2>2
<1>8. ASSUME NEW n \in nodes
      PROVE  /\ n \in Relevant(all, signals) /\ score(n) \in Nat
             /\ \A t \in found : SameKey(all, t.node, n) => t.score <= score(n)
  <2> DEFINE s == CHOOSE s \in new : s.node = n
  <2>1. s \in new /\ s.node = n
    <3>1. \E u \in new : u.node = n OBVIOUS
    <3> HIDE DEF new
    <3> QED BY <3>1
  <2>2. s \in found /\ \A t \in same(s.node) : t.score < s.score \/ (t.score = s.score /\ t.node >= s.node) BY <2>1
  <2>3. score(n) = s.score OBVIOUS
  <2> HIDE DEF s, score, new
  <2> QED BY <1>2, <2>1, <2>2, <2>3 DEF SameKey
<1>9. right \in Seq(T) /\ DOMAIN right = DOMAIN added
  <2> HIDE DEF nodes, added, score
  <2>1. Len(added) \in Nat /\ DOMAIN added = 1..Len(added) /\ \A k \in DOMAIN added : added[k] \in nodes BY <1>7
  <2>2. \A k \in DOMAIN added : right[k] \in T BY <1>8, <2>1 DEF Item, Items, Relevant
  <2> HIDE DEF T
  <2>3. right \in [1..Len(added) -> T] BY <2>1, <2>2
  <2> QED BY <2>1, <2>3
<1>10. out \in Seq(T) /\ Continues(left, right, out)
  <2>1. left \in Seq(T) /\ right \in Seq(T) BY <1>5, <1>9
  <2> HIDE DEF left, right, T
  <2> QED BY <1>0, <2>1, Joining
<1>11. ASSUME NEW k \in DOMAIN items
       PROVE  k \in DOMAIN out /\ out[k] = raised(k)
  BY <1>5, <1>10 DEF Continues
<1>12. ASSUME NEW s \in found
       PROVE  \E k \in DOMAIN out : SameKey(all, out[k].node, s.node) /\ out[k].score >= s.score
  <2>1. CASE IsIn(all, items, s.node)
    <3> DEFINE k == Max(Positions(all, items, s.node))
    <3>1. k \in DOMAIN items /\ SameKey(all, items[k].node, s.node) BY <1>2, <1>3, <2>1
    <3>2. Positions(all, items, items[k].node) = Positions(all, items, s.node) BY <3>1 DEF Positions, SameKey
    <3>3. s \in same(items[k].node) BY <3>1 DEF SameKey
    <3>4. k = Max(Positions(all, items, items[k].node)) BY <3>2
    <3> HIDE DEF k, same, raised
    <3>5. raised(k).score >= s.score /\ raised(k).node = items[k].node BY <1>4, <3>1, <3>3, <3>4
    <3>6. k \in DOMAIN out /\ out[k] = raised(k) BY <1>11, <3>1
    <3> QED BY <3>1, <3>5, <3>6
  <2>2. CASE ~IsIn(all, items, s.node)
    <3>1. PICK t \in found : /\ SameKey(all, t.node, s.node) /\ t.score >= s.score
                             /\ \A u \in found : SameKey(all, u.node, t.node) =>
                                  u.score < t.score \/ (u.score = t.score /\ u.node >= t.node)
      BY <1>2, BestSeed
    <3>2. ~IsIn(all, items, t.node) BY <2>2, <3>1 DEF IsIn, Positions, SameKey
    <3>3. t \in new BY <3>1, <3>2 DEF SameKey
    <3>4. t.node \in nodes BY <3>3
    <3> HIDE DEF new, nodes, added, right, left, score
    <3>5. PICK k \in DOMAIN added : added[k] = t.node BY <1>7, <3>4
    <3>6. k \in DOMAIN right /\ right[k].node = t.node /\ right[k].score = score(t.node) BY <1>9, <3>5 DEF right, Item
    <3>7. SameKey(all, t.node, t.node) BY DEF SameKey
    <3>8. t.score <= score(t.node) /\ score(t.node) \in Nat BY <1>8, <3>4, <3>7
    <3>9. right[k].score >= s.score BY <1>2, <3>1, <3>6, <3>8
    <3>10. Len(left) + k \in DOMAIN out /\ out[Len(left) + k] = right[k] BY <1>10, <3>6 DEF Continues
    <3>11. SameKey(all, right[k].node, s.node) BY <3>1, <3>6
    <3> QED BY <3>9, <3>10, <3>11
  <2> QED BY <2>1, <2>2
<1> HIDE DEF raised
<1> QED BY <1>4, <1>10, <1>11, <1>12

\* Some item is of the section, or of one with its key, and has at least a score.
StandsIn(all, items, n, least) == \E k \in DOMAIN items : SameKey(all, items[k].node, n) /\ items[k].score >= least

LEMMA SeedsKnown ==
  ASSUME NEW all, NEW signals, NEW s \in MatchGraphSeeds(all, signals)
  PROVE  s.node \in Relevant(all, signals) /\ s.score \in 190..242
<1>1. PICK n \in {m \in DOMAIN all : all[m].rule = "none"} :
        \/ \E id \in signals.ids \cap all[n].ids : s = Seed(n, id, 230 + AuthorityScore(all[n]))
        \/ \E route \in signals.routes \cap all[n].routes : s = Seed(n, route, 190 + AuthorityScore(all[n]))
  BY DEF MatchGraphSeeds
<1>2. s.node = n /\ (s.score = 230 + AuthorityScore(all[n]) \/ s.score = 190 + AuthorityScore(all[n])) BY <1>1 DEF Seed
<1>3. n \in Relevant(all, signals) BY DEF Relevant, Foreign
<1> QED BY <1>2, <1>3, AuthorityKnown

LEMMA SeedsFound ==
  ASSUME NEW all, NEW signals, NEW n \in DOMAIN all, all[n].rule = "none"
  PROVE  /\ signals.ids \cap all[n].ids # {} => \E s \in MatchGraphSeeds(all, signals) : s.node = n /\ s.score >= 230
         /\ signals.routes \cap all[n].routes # {} => \E s \in MatchGraphSeeds(all, signals) : s.node = n /\ s.score >= 190
<1>0. AuthorityScore(all[n]) \in 0..12 BY AuthorityKnown
<1>1. ASSUME NEW id \in signals.ids \cap all[n].ids
      PROVE  \E s \in MatchGraphSeeds(all, signals) : s.node = n /\ s.score >= 230
  <2> DEFINE s == Seed(n, id, 230 + AuthorityScore(all[n]))
  <2>1. s \in MatchGraphSeeds(all, signals) BY DEF MatchGraphSeeds
  <2>2. s.node = n /\ s.score >= 230 BY <1>0 DEF Seed
  <2> HIDE DEF s
  <2> QED BY <2>1, <2>2
<1>2. ASSUME NEW route \in signals.routes \cap all[n].routes
      PROVE  \E s \in MatchGraphSeeds(all, signals) : s.node = n /\ s.score >= 190
  <2> DEFINE s == Seed(n, route, 190 + AuthorityScore(all[n]))
  <2>1. s \in MatchGraphSeeds(all, signals) BY DEF MatchGraphSeeds
  <2>2. s.node = n /\ s.score >= 190 BY <1>0 DEF Seed
  <2> HIDE DEF s
  <2> QED BY <2>1, <2>2
<1> QED BY <1>1, <1>2

\* What matches is not a rule of another language; the seeds and the first
\* section of the rules of each language are there with the scores they are worth.
LEMMA MatchingFound ==
  ASSUME NEW all, AreSections(all), NEW signals, AreSignals(signals), NEW limits,
         NEW out, out = MatchingEvidence(all, signals, limits)
  PROVE  /\ out \in Seq(Items(all, signals, {"match"}))
         /\ \A s \in MatchGraphSeeds(all, signals) : StandsIn(all, out, s.node, s.score)
         /\ \A rule \in signals.rules : OfRule(all, rule) # {} => StandsIn(all, out, Min(OfRule(all, rule)), 2000)
<1> DEFINE T == Items(all, signals, {"match"})
           scored == [n \in DOMAIN all |-> Item(n, ScoreCorpusFeature(all, all[n], signals, limits), n, "match")]
           places == {n \in DOMAIN all : scored[n].score > 0}
           matching == Entries(scored, places)
           first(S) == IF S = {} THEN {} ELSE {Min(S)}
           overviews(rule) == {n \in OfRule(all, rule) : LanguageRuleOverview(all[n])}
           wanted == UNION {first(OfRule(all, rule)) \cup first(overviews(rule)) : rule \in signals.rules}
           rules == {Seed(n, <<>>, 2000 + AuthorityScore(all[n])) : n \in wanted}
           seeds == MatchGraphSeeds(all, signals)
           ruled == AtLeast(all, matching, rules)
           merged == AtLeast(all, ruled, seeds)
<1>1. out = SortScoredCorpus(all, merged)
  <2>1. ruled = EnsureCodeRuleOverviews(all, matching, signals) BY DEF EnsureCodeRuleOverviews, OfRule
  <2> HIDE DEF ruled, matching
  <2>2. out = SortScoredCorpus(all, MergeGraphSeedEvidence(all, EnsureCodeRuleOverviews(all, matching, signals), seeds))
    BY DEF MatchingEvidence, matching
  <2> QED BY <2>1, <2>2 DEF MergeGraphSeedEvidence
<1>2. Len(all) \in Nat /\ DOMAIN all = 1..Len(all) /\ DOMAIN all \subseteq Nat BY DEF AreSections
<1>3. matching \in Seq(T)
  <2> DEFINE S == {scored[n] : n \in DOMAIN all}
  <2>1. scored \in Seq(S) /\ places \in SUBSET DOMAIN scored BY <1>2
  <2>2. ASSUME NEW n \in places PROVE scored[n] \in T
    <3>1. scored[n] = Item(n, ScoreCorpusFeature(all, all[n], signals, limits), n, "match") /\ n \in DOMAIN all OBVIOUS
    <3>2. scored[n].score = ScoreCorpusFeature(all, all[n], signals, limits) BY <3>1 DEF Item
    <3>3. scored[n].score \in Nat /\ ~Foreign(all[n], signals) BY <2>2, <3>2, ScoresKnown
    <3> HIDE DEF scored, places
    <3> QED BY <3>1, <3>2, <3>3 DEF Item, Items, Relevant
  <2> HIDE DEF scored, places, S, T
  <2> QED BY <2>1, <2>2, EntriesHeld
<1>4. \A rule \in signals.rules : OfRule(all, rule) # {} =>
        Min(OfRule(all, rule)) \in OfRule(all, rule) /\ Min(OfRule(all, rule)) \in wanted
  <2> SUFFICES ASSUME NEW rule \in signals.rules, OfRule(all, rule) # {}
               PROVE  Min(OfRule(all, rule)) \in OfRule(all, rule) /\ Min(OfRule(all, rule)) \in wanted
    OBVIOUS
  <2>1. OfRule(all, rule) \in SUBSET Nat BY <1>2 DEF OfRule
  <2>2. Min(OfRule(all, rule)) \in OfRule(all, rule) BY <2>1, LeastElement
  <2>3. Min(OfRule(all, rule)) \in first(OfRule(all, rule)) OBVIOUS
  <2> HIDE DEF first
  <2> QED BY <2>2, <2>3
<1>5. ASSUME NEW n \in wanted PROVE n \in Relevant(all, signals)
  <2>1. PICK rule \in signals.rules : n \in first(OfRule(all, rule)) \cup first(overviews(rule)) OBVIOUS
  <2>2. overviews(rule) \subseteq OfRule(all, rule) /\ OfRule(all, rule) \in SUBSET Nat BY <1>2 DEF OfRule
  <2>3. \A S \in SUBSET OfRule(all, rule) : S # {} => Min(S) \in S BY <2>2, LeastElement
  <2> HIDE DEF overviews, wanted
  <2>4. n \in OfRule(all, rule) BY <2>1, <2>2, <2>3
  <2> QED BY <2>4 DEF OfRule, Relevant, Foreign
<1>6. PICK most \in Nat : most = 2012 OBVIOUS
<1>7. \A s \in rules : s.node \in Relevant(all, signals) /\ s.score \in 0..most
  <2> SUFFICES ASSUME NEW s \in rules PROVE s.node \in Relevant(all, signals) /\ s.score \in 0..most
    OBVIOUS
  <2> HIDE DEF wanted
  <2>1. PICK n \in wanted : s = Seed(n, <<>>, 2000 + AuthorityScore(all[n])) OBVIOUS
  <2> HIDE DEF rules
  <2>2. s.node = n /\ s.score = 2000 + AuthorityScore(all[n]) BY <2>1 DEF Seed
  <2> QED BY <1>5, <1>6, <2>2, AuthorityKnown
<1>8. \A s \in seeds : s.node \in Relevant(all, signals) /\ s.score \in 0..most BY <1>6, SeedsKnown
<1>9. \A n \in wanted : \E s \in rules : s.node = n /\ s.score >= 2000
  <2> SUFFICES ASSUME NEW n \in wanted PROVE \E s \in rules : s.node = n /\ s.score >= 2000 OBVIOUS
  <2> DEFINE s == Seed(n, <<>>, 2000 + AuthorityScore(all[n]))
  <2> HIDE DEF wanted
  <2>1. s \in rules OBVIOUS
  <2>2. s.node = n /\ s.score >= 2000 BY AuthorityKnown DEF Seed
  <2> HIDE DEF s, rules
  <2> QED BY <2>1, <2>2
<1> HIDE DEF T, matching, wanted, rules, seeds
<1>10. /\ ruled \in Seq(T)
       /\ \A s \in rules : \E k \in DOMAIN ruled : SameKey(all, ruled[k].node, s.node) /\ ruled[k].score >= s.score
  BY <1>3, <1>7, EvidenceMerged DEF T
<1> HIDE DEF ruled
<1>11. /\ merged \in Seq(T)
       /\ \A k \in DOMAIN ruled :
            k \in DOMAIN merged /\ merged[k].node = ruled[k].node /\ merged[k].score >= ruled[k].score
       /\ \A s \in seeds : \E k \in DOMAIN merged : SameKey(all, merged[k].node, s.node) /\ merged[k].score >= s.score
  BY <1>8, <1>10, EvidenceMerged DEF T
<1> HIDE DEF merged
<1>12. out \in Seq(T) /\ \A i \in DOMAIN merged : \E k \in DOMAIN out : out[k] = merged[i]
  BY <1>1, <1>11, EvidenceSorted DEF T
<1>13. \A s \in seeds : StandsIn(all, out, s.node, s.score) BY <1>11, <1>12 DEF StandsIn
<1>14. ASSUME NEW rule \in signals.rules, OfRule(all, rule) # {} PROVE StandsIn(all, out, Min(OfRule(all, rule)), 2000)
  <2> DEFINE n == Min(OfRule(all, rule))
  <2>1. n \in wanted BY <1>4, <1>14
  <2> HIDE DEF n
  <2>2. PICK s \in rules : s.node = n /\ s.score >= 2000 BY <1>9, <2>1
  <2>3. PICK k \in DOMAIN ruled : SameKey(all, ruled[k].node, n) /\ ruled[k].score >= s.score BY <1>10, <2>2
  <2>4. PICK j \in DOMAIN out : out[j] = merged[k] BY <1>11, <1>12, <2>3
  <2>5. ruled[k] \in T /\ merged[k] \in T BY <1>10, <1>11, <2>3
  <2>6. ruled[k].score \in Nat /\ merged[k].score \in Nat BY <2>5 DEF T, Items
  <2>7. s.score \in Nat
    <3>1. s.score \in 0..most BY <1>7
    <3>2. 0..most \subseteq Nat OBVIOUS
    <3> QED BY <3>1, <3>2
  <2>8. out[j].score >= 2000 BY <1>11, <2>2, <2>3, <2>4, <2>6, <2>7
  <2>9. SameKey(all, out[j].node, n) BY <1>11, <2>3, <2>4
  <2>10. StandsIn(all, out, n, 2000) BY <2>8, <2>9 DEF StandsIn
  <2> QED BY <2>10 DEF n
<1> QED BY <1>12, <1>13, <1>14 DEF T, seeds

(***************************************************************************)
(* Related sections.                                                        *)
(***************************************************************************)
LEMMA ClampedWithin ==
  ASSUME NEW low \in Int, NEW high \in Int, low <= high, NEW x \in Int
  PROVE  Clamped(low, high, x) \in low..high
<1> DEFINE inner == {high, x}
           least == Min(inner)
           outer == {low, least}
<1>1. least \in inner /\ least <= high
  <2>1. \E a \in inner : \A b \in inner : a <= b OBVIOUS
  <2> QED BY <2>1 DEF Min
<1> HIDE DEF least
<1>2. Max(outer) \in outer /\ Max(outer) >= low
  <2>1. \E a \in outer : \A b \in outer : a >= b BY <1>1
  <2> QED BY <1>1, <2>1 DEF Max
<1>3. Clamped(low, high, x) = Max(outer) BY DEF Clamped, least
<1> QED BY <1>1, <1>2, <1>3

LEMMA ParentKnown ==
  ASSUME NEW all, AreSections(all), NEW n \in DOMAIN all, NEW up, up = ParentSection(all, n)
  PROVE  up = 0 \/ (up \in DOMAIN all /\ all[up].doc = all[n].doc)
<1> DEFINE found == {0} \cup Headed(all, all[n])
           last == Max(found)
<1>1. up = IF last = n THEN 0 ELSE last BY DEF ParentSection
<1>2. \A m \in Headed(all, all[n]) : m \in DOMAIN all /\ all[m].doc = all[n].doc BY DEF Headed
<1>3. Len(all) \in Nat /\ found \in SUBSET (0..Len(all)) /\ found # {} BY <1>2 DEF AreSections
<1>4. last \in found
  <2> HIDE DEF found
  <2> QED BY <1>3, GreatestElement
<1> HIDE DEF last
<1> QED BY <1>1, <1>2, <1>4

LEMMA CandidatesKnown ==
  ASSUME NEW all, AreSections(all), NEW n \in DOMAIN all, NEW limits, NEW c \in GraphCandidates(all, n, limits)
  PROVE  c.node \in DOMAIN all
<1> DEFINE near == {m \in DOMAIN all : Joins(all, n, m, limits) # {}}
           kind(m) == Min(Joins(all, n, m, limits))
           above == {ParentSection(all, m) : m \in {x \in near : Kinds[kind(x)] \in {"parent", "overview"}}}
<1>1. c \in {Candidate(m, 1, kind(m)) : m \in near} \cup {Candidate(m, 2, 4) : m \in above \ (near \cup {0, n})}
  BY DEF GraphCandidates
<1>2. \A m \in above : m = 0 \/ m \in DOMAIN all
  <2> SUFFICES ASSUME NEW x \in near PROVE ParentSection(all, x) = 0 \/ ParentSection(all, x) \in DOMAIN all OBVIOUS
  <2>1. x \in DOMAIN all OBVIOUS
  <2> QED BY <2>1, ParentKnown
<1> HIDE DEF above, kind
<1>3. \/ \E m \in near : c = Candidate(m, 1, kind(m))
      \/ \E m \in above \ (near \cup {0, n}) : c = Candidate(m, 2, 4)
  BY <1>1
<1>4. CASE \E m \in near : c = Candidate(m, 1, kind(m)) BY <1>4 DEF Candidate
<1>5. CASE \E m \in above \ (near \cup {0, n}) : c = Candidate(m, 2, 4)
  <2>1. PICK m \in above \ (near \cup {0, n}) : c = Candidate(m, 2, 4) BY <1>5
  <2>2. c.node = m BY <2>1 DEF Candidate
  <2> QED BY <1>2, <2>1, <2>2
<1> QED BY <1>3, <1>4, <1>5

\* The evidence has grown along the seeds: what was there stays where it is, and
\* what is new came with a seed, for less than the seed is worth.
Grown(all, signals, base, items) ==
  /\ items \in Seq(Items(all, signals, {"match", "trace"}))
  /\ \A k \in DOMAIN base : k \in DOMAIN items /\ items[k] = base[k]
  /\ \A k \in DOMAIN items : items[k].how = "trace" =>
       /\ items[k].score <= 135
       /\ \E s \in MatchGraphSeeds(all, signals) : items[k].of = s.node

LEMMA SeedFollowed ==
  ASSUME NEW all, AreSections(all), NEW signals, NEW base, NEW items, Grown(all, signals, base, items),
         NEW s \in MatchGraphSeeds(all, signals), NEW limits, NEW out \in ExpandGraphEvidence(all, items, s, limits)
  PROVE  Grown(all, signals, base, out)
<1> DEFINE T == Items(all, signals, {"match", "trace"})
           candidates == GraphCandidates(all, s.node, limits)
           new(kept) == {c \in candidates : all[c.node].rule = "none" /\ ~IsIn(all, kept, c.node)}
           item(c) == Item(c.node, GraphRelatedScore(s.score, c.depth, all[c.node]), s.node, "trace")
           more(kept) == IF new(kept) = {} THEN {kept} ELSE {Append(kept, item(c)) : c \in Best(all, new(kept))}
<1>1. s.node \in DOMAIN all /\ s.score \in Int BY SeedsKnown DEF Relevant
<1>2. ASSUME NEW kept, Grown(all, signals, base, kept), NEW next \in more(kept) PROVE Grown(all, signals, base, next)
  <2>1. next = kept \/ \E c \in new(kept) : next = Append(kept, item(c))
    <3>1. Best(all, new(kept)) \subseteq new(kept) BY DEF Best
    <3> HIDE DEF new, item
    <3> QED BY <3>1
  <2>2. CASE next = kept BY <1>2, <2>2
  <2>3. ASSUME NEW c \in new(kept), next = Append(kept, item(c)) PROVE Grown(all, signals, base, next)
    <3>1. c.node \in DOMAIN all /\ all[c.node].rule = "none" BY <1>1, CandidatesKnown
    <3>2. GraphRelatedScore(s.score, c.depth, all[c.node]) \in 55..135
      <4> DEFINE far == IF c.depth > 1 THEN 15 ELSE 0
                 x == s.score \div 2 + AuthorityScore(all[c.node]) - far
      <4>1. x \in Int
        <5>1. AuthorityScore(all[c.node]) \in Int BY AuthorityKnown
        <5>2. far \in Int OBVIOUS
        <5>3. s.score \div 2 \in Int BY <1>1
        <5> HIDE DEF far
        <5> QED BY <5>1, <5>2, <5>3
      <4> HIDE DEF x
      <4>0. 55 \in Int /\ 135 \in Int /\ 55 <= 135 OBVIOUS
      <4>2. Clamped(55, 135, x) \in 55..135
        <5>1. \A low \in Int, high \in Int : low <= high => Clamped(low, high, x) \in low..high BY <4>1, ClampedWithin
        <5> QED BY <4>0, <5>1
      <4> QED BY <4>2 DEF GraphRelatedScore, x
    <3>3. /\ item(c) \in T /\ item(c).how = "trace" /\ item(c).score <= 135 /\ item(c).of = s.node
      <4>1. c.node \in Relevant(all, signals) BY <3>1 DEF Relevant, Foreign
      <4> HIDE DEF new, more
      <4> QED BY <1>1, <3>2, <4>1 DEF Item, Items
    <3> HIDE DEF item, T
    <3>4. kept \in Seq(T) BY <1>2 DEF Grown, T
    <3>5. /\ next \in Seq(T) /\ Len(next) = Len(kept) + 1 /\ next[Len(kept) + 1] = item(c)
          /\ \A k \in 1..Len(kept) : next[k] = kept[k]
      BY <2>3, <3>3, <3>4, AppendProperties
    <3>6. Len(kept) \in Nat /\ DOMAIN kept = 1..Len(kept) /\ DOMAIN next = 1..Len(next) BY <3>4, <3>5
    <3>7. \A k \in DOMAIN next : k \in DOMAIN kept \/ next[k] = item(c) BY <3>5, <3>6
    <3>8. DOMAIN kept \subseteq DOMAIN next BY <3>5, <3>6
    <3>9. \A k \in DOMAIN base : k \in DOMAIN next /\ next[k] = base[k] BY <1>2, <3>5, <3>6, <3>8 DEF Grown
    <3>10. ASSUME NEW k \in DOMAIN next, next[k].how = "trace"
           PROVE  /\ next[k].score <= 135
                  /\ \E t \in MatchGraphSeeds(all, signals) : next[k].of = t.node
      <4>1. CASE k \in DOMAIN kept
        <5>1. next[k] = kept[k] BY <3>5, <3>6, <4>1
        <5> QED BY <1>2, <3>10, <4>1, <5>1 DEF Grown
      <4>2. CASE next[k] = item(c) BY <3>3, <4>2
      <4> QED BY <3>7, <4>1, <4>2
    <3> QED BY <3>5, <3>9, <3>10 DEF Grown, T
  <2> QED BY <2>1, <2>2, <2>3
<1>3. out \in UNION {more(kept) : kept \in more(items)} BY DEF ExpandGraphEvidence
<1> HIDE DEF more
<1>4. PICK kept \in more(items) : out \in more(kept) BY <1>3
<1>5. Grown(all, signals, base, kept) BY <1>2, <1>4
<1> QED BY <1>2, <1>4, <1>5

(***************************************************************************)
(* Headings.                                                                *)
(***************************************************************************)
LEMMA HeadingScored ==
  ASSUME NEW score \in Nat, NEW depth, NEW s
  PROVE  HierarchyRelatedScore(score, depth, s) \in Nat
<1> DEFINE far == IF depth > 1 THEN 10 ELSE 0
           half == Clamped(45, 80, score \div 2)
           x == half + AuthorityScore(s) - far
<1>0. \A low \in Nat, high \in Nat, y \in Int : low <= high => Clamped(low, high, y) \in low..high BY ClampedWithin
<1>1. half \in 45..80
  <2>1. 45 \in Nat /\ 80 \in Nat /\ 45 <= 80 /\ score \div 2 \in Int OBVIOUS
  <2> QED BY <1>0, <2>1
<1>2. AuthorityScore(s) \in 0..12 /\ far \in 0..10 BY AuthorityKnown
<1> HIDE DEF half, far
<1>3. x \in Int BY <1>1, <1>2
<1> HIDE DEF x
<1>4. 70 \in Nat /\ 95 \in Nat /\ 70 <= 95 OBVIOUS
<1>5. Clamped(70, 95, x) \in 70..95 BY <1>0, <1>3, <1>4
<1>6. Clamped(70, 95, x) \in Nat BY <1>5
<1> QED BY <1>6 DEF HierarchyRelatedScore, x, half, far

\* What a document's sections are to the change, one is.
LEMMA KeysNameDocuments ==
  ASSUME NEW all, NEW m, NEW n, SectionKey(all, m) = SectionKey(all, n)
  PROVE  all[m].doc = all[n].doc
BY DEF SectionKey

LEMMA SameDocument ==
  ASSUME NEW all, AreSections(all), NEW signals, NEW m \in Relevant(all, signals), NEW n \in DOMAIN all,
         all[m].doc = all[n].doc
  PROVE  n \in Relevant(all, signals)
<1>1. m \in DOMAIN all /\ ~Foreign(all[m], signals) BY DEF Relevant
<1>2. all[m].rule = all[n].rule BY <1>1 DEF AreSections
<1>3. ~Foreign(all[n], signals) BY <1>1, <1>2 DEF Foreign
<1> QED BY <1>3 DEF Relevant

LEMMA HeadingsAdded ==
  ASSUME NEW all, AreSections(all), NEW signals, NEW items \in Seq(Items(all, signals, {"match", "trace"})),
         NEW out, out = ExpandGraphHierarchyEvidence(all, items)
  PROVE  /\ out \in Seq(Items(all, signals, {"match", "trace", "heading"}))
         /\ \A k \in DOMAIN items : k \in DOMAIN out /\ out[k] = items[k]
         /\ \A k \in DOMAIN out : k \in DOMAIN items \/ out[k].how = "heading"
<1> DEFINE S == Items(all, signals, {"match", "trace"})
           T == Items(all, signals, {"match", "trace", "heading"})
           good == {i \in DOMAIN items : items[i].score >= 20 /\
                      all[items[i].node].kind \in {"design", "architecture", "planning", "contract"}}
           eligible == Entries(items, good)
           node(i) == Max({n \in DOMAIN all : SectionKey(all, n) = SectionKey(all, i.node)})
           up(n) == IF n = 0 THEN 0 ELSE ParentSection(all, n)
           from(j) == eligible[(j + 1) \div 2]
           depth(j) == 2 - (j % 2)
           to(j) == IF depth(j) = 1 THEN up(node(from(j))) ELSE up(up(node(from(j))))
           wanted == {j \in 1..(2 * Len(eligible)) : to(j) \notin {0, node(from(j))} /\ ~IsIn(all, items, to(j))}
           new == {j \in wanted : ~\E i \in wanted : i < j /\ SectionKey(all, to(i)) = SectionKey(all, to(j))}
           taken == {j \in new : Cardinality({i \in new : i < j /\ all[to(i)].doc = all[to(j)].doc}) < 2}
           index == [j \in 1..(2 * Len(eligible)) |-> j]
           added == Entries(index, taken)
           item(j) == Item(to(j), HierarchyRelatedScore(from(j).score, depth(j), all[to(j)]), from(j).node, "heading")
           right == [k \in DOMAIN added |-> item(added[k])]
<1>1. out = items \o right BY DEF ExpandGraphHierarchyEvidence
<1>2. eligible \in Seq(S)
  <2>1. good \in SUBSET DOMAIN items /\ \A i \in good : items[i] \in S
    <3>1. \A i \in DOMAIN items : items[i] \in S
      <4> HIDE DEF S
      <4> QED BY DEF S
    <3> HIDE DEF S
    <3> QED BY <3>1
  <2>2. items \in Seq(S) OBVIOUS
  <2>3. eligible = Entries(items, good) OBVIOUS
  <2> HIDE DEF good, eligible, S
  <2> QED BY <2>1, <2>2, <2>3, EntriesHeld
<1>3. ASSUME NEW i \in S PROVE node(i) \in DOMAIN all /\ all[node(i)].doc = all[i.node].doc /\ i.node \in Relevant(all, signals)
  <2> DEFINE P == {n \in DOMAIN all : SectionKey(all, n) = SectionKey(all, i.node)}
  <2>1. i.node \in Relevant(all, signals) /\ i.node \in DOMAIN all BY DEF Items, Relevant
  <2>2. Len(all) \in Nat /\ P \in SUBSET (0..Len(all)) BY DEF AreSections
  <2>3. i.node \in P BY <2>1
  <2>4. ASSUME NEW n \in P PROVE n \in DOMAIN all /\ all[n].doc = all[i.node].doc
    <3>1. n \in DOMAIN all /\ SectionKey(all, n) = SectionKey(all, i.node) OBVIOUS
    <3> QED BY <3>1, KeysNameDocuments
  <2>5. Max(P) \in P
    <3> HIDE DEF P
    <3> QED BY <2>2, <2>3, GreatestElement
  <2>6. node(i) = Max(P) OBVIOUS
  <2> HIDE DEF P, node
  <2> QED BY <2>1, <2>4, <2>5, <2>6
<1>4. ASSUME NEW n \in DOMAIN all PROVE up(n) = 0 \/ (up(n) \in DOMAIN all /\ all[up(n)].doc = all[n].doc)
  BY ParentKnown
<1>5. up(0) = 0 OBVIOUS
<1>6. ASSUME NEW j \in 1..(2 * Len(eligible)), to(j) # 0
      PROVE  item(j) \in T /\ item(j).how = "heading"
  <2>1. Len(eligible) \in Nat /\ (j + 1) \div 2 \in DOMAIN eligible
    <3>1. Len(eligible) \in Nat /\ DOMAIN eligible = 1..Len(eligible)
      <4> HIDE DEF eligible, S
      <4> QED BY <1>2
    <3> HIDE DEF eligible
    <3> QED BY <3>1
  <2>2. from(j) \in S
    <3> HIDE DEF eligible, S
    <3> QED BY <1>2, <2>1
  <2> HIDE DEF eligible, from
  <2>3. /\ node(from(j)) \in DOMAIN all /\ all[node(from(j))].doc = all[from(j).node].doc
        /\ from(j).node \in Relevant(all, signals)
    BY <1>3, <2>2
  <2>4. to(j) \in {up(node(from(j))), up(up(node(from(j))))} OBVIOUS
  <2> HIDE DEF node, up, to
  <2>5. to(j) \in DOMAIN all /\ all[to(j)].doc = all[from(j).node].doc BY <1>4, <1>5, <1>6, <2>3, <2>4
  <2>6. to(j) \in Relevant(all, signals) BY <2>3, <2>5, SameDocument
  <2>7. from(j).score \in Nat /\ from(j).node \in DOMAIN all BY <2>2 DEF Items, Relevant
  <2>8. HierarchyRelatedScore(from(j).score, depth(j), all[to(j)]) \in Nat BY <2>7, HeadingScored
  <2> HIDE DEF depth
  <2> QED BY <2>6, <2>7, <2>8 DEF Item, Items
<1>7. \A j \in taken : j \in 1..(2 * Len(eligible)) /\ to(j) # 0
  <2> HIDE DEF to, eligible, from
  <2> QED OBVIOUS
<1>8. added \in Seq(taken)
  <2>1. index \in Seq(1..(2 * Len(eligible))) /\ DOMAIN index = 1..(2 * Len(eligible))
    <3>1. Len(eligible) \in Nat
      <4> HIDE DEF eligible, S
      <4> QED BY <1>2
    <3> HIDE DEF eligible
    <3> QED BY <3>1
  <2>2. taken \in SUBSET DOMAIN index
    <3> HIDE DEF index
    <3> QED BY <1>7, <2>1
  <2>3. \A j \in taken : index[j] \in taken
    <3>1. \A j \in DOMAIN index : index[j] = j OBVIOUS
    <3> HIDE DEF index, taken
    <3> QED BY <2>2, <3>1
  <2>4. added = Entries(index, taken) OBVIOUS
  <2> DEFINE I == 1..(2 * Len(eligible))
  <2>5. index \in Seq(I) BY <2>1
  <2> HIDE DEF taken, index, eligible, added, I
  <2> QED BY <2>2, <2>3, <2>4, <2>5, EntriesHeld
<1>9. right \in Seq(T) /\ \A k \in DOMAIN right : right[k].how = "heading"
  <2> HIDE DEF added, taken, T, item, to, eligible
  <2>1. Len(added) \in Nat /\ DOMAIN added = 1..Len(added) BY <1>8
  <2>2. \A k \in DOMAIN added : added[k] \in 1..(2 * Len(eligible)) /\ to(added[k]) # 0 BY <1>7, <1>8
  <2>3. \A k \in DOMAIN added : item(added[k]) \in T /\ item(added[k]).how = "heading" BY <1>6, <2>2
  <2>4. right \in [1..Len(added) -> T] /\ \A k \in DOMAIN right : right[k].how = "heading" BY <2>1, <2>3
  <2> QED BY <2>1, <2>4
<1> HIDE DEF right
<1>10. items \in Seq(T)
  <2>1. S \subseteq T BY DEF Items
  <2> HIDE DEF S, T
  <2>2. Len(items) \in Nat /\ items \in [1..Len(items) -> T] BY <2>1 DEF S
  <2> QED BY <2>2
<1> HIDE DEF T
<1>11. out \in Seq(T) /\ Continues(items, right, out) BY <1>1, <1>9, <1>10, Joining
<1> QED BY <1>9, <1>11 DEF Continues, T

(***************************************************************************)
(* One seed after the other.                                                *)
(***************************************************************************)
LEMMA SeedsFinite ==
  ASSUME NEW all, AreSections(all), NEW signals, AreSignals(signals)
  PROVE  IsFiniteSet(MatchGraphSeeds(all, signals))
<1> DEFINE V == signals.ids \cup signals.routes
           C == 190..242
           D == ((DOMAIN all) \X V) \X C
           f == [x \in D |-> Seed(x[1][1], x[1][2], x[2])]
           T == {f[x] : x \in D}
<1>1. IsFiniteSet(V) BY FS_Union DEF AreSignals
<1>2. IsFiniteSet(DOMAIN all) /\ IsFiniteSet(C)
  <2>1. IsFiniteSet(1..Len(all)) BY FS_Interval DEF AreSections
  <2>2. IsFiniteSet(C)
    <3>1. \A a \in Int, b \in Int : IsFiniteSet(a..b) BY FS_Interval
    <3>2. 190 \in Int /\ 242 \in Int OBVIOUS
    <3> QED BY <3>1, <3>2
  <2> HIDE DEF C
  <2> QED BY <2>1, <2>2 DEF AreSections
<1> HIDE DEF V, C
<1>3. IsFiniteSet(D)
  <2>1. IsFiniteSet((DOMAIN all) \X V) BY <1>1, <1>2, FS_Product
  <2> QED BY <1>2, <2>1, FS_Product
<1>4. IsFiniteSet(T)
  <2> HIDE DEF D
  <2>1. f \in Surjection(D, T) BY DEF Surjection
  <2> HIDE DEF f, T
  <2> QED BY <1>3, <2>1, FS_Surjection
<1>5. ASSUME NEW s \in MatchGraphSeeds(all, signals) PROVE s \in T
  <2>1. PICK n \in DOMAIN all, v \in V : s = Seed(n, v, s.score)
    <3>1. PICK n \in {m \in DOMAIN all : all[m].rule = "none"} :
            \/ \E id \in signals.ids \cap all[n].ids : s = Seed(n, id, 230 + AuthorityScore(all[n]))
            \/ \E route \in signals.routes \cap all[n].routes : s = Seed(n, route, 190 + AuthorityScore(all[n]))
      BY DEF MatchGraphSeeds
    <3>2. \E v \in V : \E c : s = Seed(n, v, c) BY <3>1 DEF V
    <3>3. \A v, c : Seed(n, v, c).score = c BY DEF Seed
    <3> QED BY <3>1, <3>2, <3>3
  <2>2. s.score \in C BY SeedsKnown DEF C
  <2> DEFINE x == <<<<n, v>>, s.score>>
  <2>3. x \in D /\ x[1][1] = n /\ x[1][2] = v /\ x[2] = s.score
    <3>1. <<n, v>> \in (DOMAIN all) \X V /\ s.score \in C BY <2>1, <2>2
    <3>2. x \in D BY <3>1
    <3> HIDE DEF D
    <3>3. x[1] = <<n, v>> /\ x[2] = s.score OBVIOUS
    <3>4. <<n, v>>[1] = n /\ <<n, v>>[2] = v OBVIOUS
    <3> QED BY <3>2, <3>3, <3>4
  <2> HIDE DEF x, D
  <2>4. f[x] = s BY <2>1, <2>3
  <2> HIDE DEF f
  <2> QED BY <2>3, <2>4
<1> HIDE DEF T
<1>6. MatchGraphSeeds(all, signals) \in SUBSET T BY <1>5
<1> QED BY <1>4, <1>6, FS_Subset

\* Whatever the order in which the seeds are followed, the evidence grows from
\* what matches.
LEMMA SeedsFollowed ==
  ASSUME NEW all, AreSections(all), NEW signals, AreSignals(signals), NEW limits,
         NEW picked \in SelectionsOf(all, signals, limits)
  PROVE  \E items : /\ Grown(all, signals, MatchingEvidence(all, signals, limits), items)
                     /\ picked = KeptEvidence(all, items, signals, limits)
<1> DEFINE found == MatchGraphSeeds(all, signals)
           n == Cardinality(found)
           base == MatchingEvidence(all, signals, limits)
           follow(x) == UNION {{[left |-> x.left \ {s}, items |-> e] : e \in ExpandGraphEvidence(all, x.items, s, limits)} :
                               s \in SeedsInTurn(all, x.left)}
           first == {[left |-> found, items |-> base]}
           A(all_) == UNION {follow(x) : x \in all_}
           Applied(g, k) == DOMAIN g = 0..k /\ g[0] = first /\ \A i \in 1..k : g[i] = A(g[i - 1])
           lacking == {k \in 1..n : ~\E g : Applied(g, k)}
           defines(f) == f = [k \in 0..n |-> IF k = 0 THEN first ELSE A(f[k - 1])]
           Good(x) == x.left \subseteq found /\ Grown(all, signals, base, x.items)
<1>0. n \in Nat BY SeedsFinite, FS_CardinalityType
<1> HIDE DEF first, A, n
<1>1. \E g : Applied(g, 0)
  <2>1. Applied([i \in 0..0 |-> first], 0) OBVIOUS
  <2> QED BY <2>1
<1>2. ASSUME NEW k \in 1..n, k \in lacking PROVE \E j \in 1..n : j < k /\ j \in lacking
  <2>1. k - 1 \in 0..n /\ k - 1 \in 0..(k - 1) BY <1>0
  <2>2. CASE \E g : Applied(g, k - 1)
    <3>1. PICK g : Applied(g, k - 1) BY <2>2
    <3> DEFINE h == [i \in 0..k |-> IF i = k THEN A(g[k - 1]) ELSE g[i]]
    <3>2. \A i \in 0..(k - 1) : h[i] = g[i] BY <1>0
    <3>3. h[k] = A(g[k - 1]) /\ DOMAIN h = 0..k BY <1>0
    <3> HIDE DEF h
    <3>4. ASSUME NEW i \in 1..k PROVE h[i] = A(h[i - 1])
      <4>1. i - 1 \in 0..(k - 1) BY <1>0
      <4>2. h[i - 1] = g[i - 1] BY <3>2, <4>1
      <4>3. CASE i = k BY <3>3, <4>2, <4>3
      <4>4. CASE i # k
        <5>1. i \in 1..(k - 1) /\ i \in 0..(k - 1) BY <1>0, <4>4
        <5>2. g[i] = A(g[i - 1]) BY <3>1, <5>1
        <5> QED BY <3>2, <4>2, <5>1, <5>2
      <4> QED BY <4>3, <4>4
    <3>5. h[0] = first BY <1>0, <2>1, <3>1, <3>2
    <3>6. Applied(h, k) BY <3>3, <3>4, <3>5
    <3> HIDE DEF Applied
    <3> QED BY <1>2, <3>6
  <2>3. CASE ~\E g : Applied(g, k - 1)
    <3> DEFINE m == k - 1
    <3>1. m # 0
      <4> HIDE DEF Applied
      <4>1. \E g : Applied(g, 0) BY <1>1
      <4> QED BY <2>3, <4>1
    <3>2. m \in 1..n /\ m < k BY <1>0, <2>1, <3>1
    <3>3. m \in lacking
      <4> HIDE DEF Applied
      <4> QED BY <2>3, <3>2
    <3> HIDE DEF m, lacking
    <3> QED BY <3>2, <3>3
  <2> HIDE DEF Applied, lacking
  <2> QED BY <2>2, <2>3
<1>3. \E g : Applied(g, n)
  <2> HIDE DEF Applied
  <2>1. CASE n = 0 BY <1>1, <2>1
  <2>2. CASE n # 0
    <3>1. lacking \in SUBSET (1..n) OBVIOUS
    <3>2. lacking = {}
      <4> HIDE DEF lacking
      <4> QED BY <1>0, <1>2, <3>1, FirstIndex
    <3>3. n \in 1..n BY <1>0, <2>2
    <3> QED BY <3>2, <3>3
  <2> QED BY <2>1, <2>2
<1>4. PICK g : Applied(g, n) BY <1>3
<1> DEFINE h == [i \in 0..n |-> g[i]]
<1>5. defines(h)
  <2>1. ASSUME NEW i \in 0..n PROVE g[i] = IF i = 0 THEN first ELSE A(h[i - 1])
    <3>1. CASE i = 0 BY <1>4, <3>1
    <3>2. CASE i # 0
      <4>1. i \in 1..n /\ i - 1 \in 0..n BY <1>0, <3>2
      <4>2. h[i - 1] = g[i - 1] BY <4>1
      <4> HIDE DEF h
      <4> QED BY <1>4, <3>2, <4>1, <4>2
    <3> QED BY <3>1, <3>2
  <2> QED BY <2>1
<1> DEFINE followed == CHOOSE f : defines(f)
<1>6. defines(followed)
  <2> HIDE DEF defines, h
  <2> QED BY <1>5
<1>7. PICK x \in followed[n] : picked = KeptEvidence(all, x.items, signals, limits)
  BY DEF SelectionsOf, first, A, n
<1> HIDE DEF followed
<1>8. followed[0] = first
  <2>1. 0 \in 0..n BY <1>0
  <2> QED BY <1>6, <2>1
<1>9. ASSUME NEW i \in 1..n PROVE followed[i] = A(followed[i - 1])
  <2>1. i \in 0..n /\ i # 0 BY <1>0
  <2> QED BY <1>6, <2>1
<1> HIDE DEF defines, Applied
<1>10. \A y \in first : Good(y)
  <2>1. Grown(all, signals, base, base)
    <3>1. base \in Seq(Items(all, signals, {"match"})) BY MatchingFound
    <3> HIDE DEF base
    <3>2. Items(all, signals, {"match"}) \subseteq Items(all, signals, {"match", "trace"}) BY DEF Items
    <3>3. \A k \in DOMAIN base : base[k] \in Items(all, signals, {"match"}) BY <3>1
    <3>4. \A k \in DOMAIN base : base[k].how = "match" BY <3>3 DEF Items
    <3>5. base \in Seq(Items(all, signals, {"match", "trace"}))
      <4> DEFINE S == Items(all, signals, {"match"})
                 T == Items(all, signals, {"match", "trace"})
      <4> HIDE DEF S, T
      <4>1. S \subseteq T /\ base \in Seq(S) BY <3>1, <3>2 DEF S, T
      <4>2. Len(base) \in Nat /\ base \in [1..Len(base) -> T] BY <4>1
      <4>3. base \in Seq(T) BY <4>2
      <4> QED BY <4>3 DEF T
    <3> QED BY <3>4, <3>5 DEF Grown
  <2> QED BY <2>1 DEF first
<1>11. ASSUME NEW y, Good(y), NEW z \in follow(y) PROVE Good(z)
  <2>1. PICK s \in SeedsInTurn(all, y.left) : \E e \in ExpandGraphEvidence(all, y.items, s, limits) :
          z = [left |-> y.left \ {s}, items |-> e]
    OBVIOUS
  <2>4. PICK e \in ExpandGraphEvidence(all, y.items, s, limits) : z = [left |-> y.left \ {s}, items |-> e] BY <2>1
  <2>2. s \in found BY <1>11 DEF SeedsInTurn
  <2>3. Grown(all, signals, base, e) BY <1>11, <2>2, SeedFollowed
  <2> QED BY <1>11, <2>3, <2>4
<1> HIDE DEF Good, follow, found, base
<1> DEFINE bad == {k \in 1..n : ~\A y \in followed[k] : Good(y)}
<1>12. ASSUME NEW k \in 1..n, k \in bad PROVE \E j \in 1..n : j < k /\ j \in bad
  <2>1. PICK y \in followed[k] : ~Good(y) BY <1>12
  <2>2. PICK v \in followed[k - 1] : y \in follow(v) BY <1>9, <2>1 DEF A
  <2>3. ~Good(v) BY <1>11, <2>1, <2>2
  <2>4. k - 1 # 0 BY <1>8, <1>10, <2>2, <2>3
  <2>5. k - 1 \in 1..n /\ k - 1 < k BY <1>0, <2>4
  <2> QED BY <2>2, <2>3, <2>5
<1>13. bad = {}
  <2>1. bad \in SUBSET (1..n) OBVIOUS
  <2> HIDE DEF bad
  <2> QED BY <1>0, <1>12, <2>1, FirstIndex
<1>14. Good(x)
  <2>1. CASE n = 0 BY <1>7, <1>8, <1>10, <2>1
  <2>2. CASE n # 0
    <3>1. n \in 1..n BY <1>0, <2>2
    <3> QED BY <1>7, <1>13, <3>1
  <2> QED BY <2>1, <2>2
<1> QED BY <1>7, <1>14 DEF Good, base

(***************************************************************************)
(* What is kept.                                                            *)
(***************************************************************************)
LEMMA SameSize ==
  ASSUME NEW S, IsFiniteSet(S), NEW T, NEW f \in [S -> T],
         \A x, y \in S : f[x] = f[y] => x = y, \A y \in T : \E x \in S : f[x] = y
  PROVE  IsFiniteSet(T) /\ Cardinality(T) = Cardinality(S)
<1>1. f \in Bijection(S, T) BY DEF Bijection, Injection, Surjection, IsInjective
<1>2. ExistsBijection(S, T) BY <1>1 DEF ExistsBijection
<1> QED BY <1>2, FS_Bijection

LEMMA LesserOfTwo ==
  ASSUME NEW a \in Nat, NEW b \in Nat
  PROVE  Min({a, b}) \in {a, b} /\ Min({a, b}) <= a /\ Min({a, b}) <= b
<1> DEFINE S == {a, b}
<1>1. S \in SUBSET Nat /\ S # {} /\ a \in S /\ b \in S OBVIOUS
<1> HIDE DEF S
<1>2. Min(S) \in S /\ Min(S) <= a /\ Min(S) <= b BY <1>1, LeastElement
<1> QED BY <1>2 DEF S

LEMMA CountedTo ==
  ASSUME NEW n \in Nat
  PROVE  IsFiniteSet(1..n) /\ Cardinality(1..n) = n
<1>1. \A a, b \in Int : IsFiniteSet(a..b) /\ Cardinality(a..b) = IF a > b THEN 0 ELSE b - a + 1 BY FS_Interval
<1>2. IsFiniteSet(1..n) /\ Cardinality(1..n) = IF 1 > n THEN 0 ELSE n - 1 + 1 BY <1>1
<1> QED BY <1>2

\* Of the places of a list, those up to a count come before the one beyond it.
Upto(P, k) == {j \in P : j <= k}
Within(P, w) == {j \in P : Cardinality(Upto(P, j)) <= w}
LEMMA FirstOf ==
  ASSUME NEW n \in Nat, NEW P \in SUBSET (1..n), NEW w \in Nat, NEW p \in P, Cardinality(Upto(P, p)) > w
  PROVE  Cardinality(Within(P, w)) = w /\ \A j \in Within(P, w) : j < p
<1> DEFINE Q == Within(P, w)
           m == Cardinality(P)
           R == Rising(P)
           s(i) == Nth(P, R, i)
<1>1. IsFiniteSet(P) /\ Numbered(P, R, m) /\ \A i, j \in P : <<i, j>> \in R <=> i < j BY IndexRanks
<1>2. m \in Nat /\ P \subseteq Nat BY <1>1 DEF Numbered
<1> HIDE DEF m, R
<1>3. ASSUME NEW i \in 1..m PROVE s(i) \in P /\ Cardinality(Upto(P, s(i))) = i
  <2> DEFINE A == Ahead(P, R, s(i))
  <2>1. s(i) \in P /\ Cardinality(A) = i - 1 BY <1>1 DEF Numbered
  <2>2. A = {j \in P : j < s(i)} BY <1>1, <2>1 DEF Ahead
  <2> HIDE DEF A, s
  <2>3. Upto(P, s(i)) = A \cup {s(i)} /\ s(i) \notin A
    <3>0. s(i) \in Nat /\ \A j \in P : j \in Nat BY Zenon, <1>2, <2>1
    <3>1. \A j \in P : j <= s(i) <=> j < s(i) \/ j = s(i) BY <3>0
    <3>2. ~(s(i) < s(i)) BY <3>0
    <3> QED BY <2>1, <2>2, <3>1, <3>2 DEF Upto
  <2>4. IsFiniteSet(A) BY <1>1, <2>2, FS_Subset
  <2>5. Cardinality(A \cup {s(i)}) = Cardinality(A) + 1 BY <2>3, <2>4, FS_AddElement
  <2> QED BY <1>2, <2>1, <2>3, <2>5
<1>4. \A j \in P : \E i \in 1..m : s(i) = j BY <1>1 DEF Numbered
<1>5. \A i, j \in 1..m : i < j => s(i) < s(j)
  <2> SUFFICES ASSUME NEW i \in 1..m, NEW j \in 1..m, i < j PROVE s(i) < s(j) OBVIOUS
  <2>1. <<s(i), s(j)>> \in R /\ s(i) \in P /\ s(j) \in P BY <1>1 DEF Numbered
  <2> HIDE DEF s
  <2> QED BY <1>1, <2>1
<1> HIDE DEF s
<1>6. PICK t \in 1..m : s(t) = p BY <1>4
<1>7. t > w BY <1>3, <1>6
<1>8. \A i \in 1..w : i \in 1..m /\ i < t BY <1>2, <1>7
<1> DEFINE f == [i \in 1..w |-> s(i)]
<1>9. \A i \in 1..w : s(i) \in Q BY <1>3, <1>8 DEF Within
<1>10. ASSUME NEW j \in Q PROVE \E i \in 1..w : s(i) = j
  <2>0. j \in P /\ Cardinality(Upto(P, j)) <= w BY DEF Within
  <2>1. PICK i \in 1..m : s(i) = j BY <1>4, <2>0
  <2>2. i <= w BY <1>3, <2>0, <2>1
  <2>3. i \in 1..w BY <1>2, <2>2
  <2> QED BY <2>1, <2>3
<1>11. \A i, j \in 1..w : s(i) = s(j) => i = j BY <1>3, <1>8
<1> HIDE DEF Q
<1>12. f \in [1..w -> Q] /\ (\A i, j \in 1..w : f[i] = f[j] => i = j) /\ \A j \in Q : \E i \in 1..w : f[i] = j
  BY <1>9, <1>10, <1>11
<1>13. Cardinality(Q) = w
  <2>1. IsFiniteSet(1..w) /\ Cardinality(1..w) = w BY CountedTo
  <2> DEFINE W == 1..w
  <2> HIDE DEF f, W
  <2>2. Cardinality(Q) = Cardinality(W) BY <1>12, <2>1, SameSize DEF W
  <2> QED BY <2>1, <2>2 DEF W
<1>14. ASSUME NEW j \in Q PROVE j < p
  <2>1. PICK i \in 1..w : s(i) = j BY <1>10
  <2> QED BY <1>5, <1>6, <1>8, <2>1
<1> QED BY <1>13, <1>14 DEF Q

\* Of a sorted list the caps leave out only what stands behind what they keep.
Holds(items, item) == \E k \in DOMAIN items : items[k] = item
Sorted(items) == \A k, l \in DOMAIN items : k < l => items[k].score >= items[l].score
Limited(all, items, out, limits) ==
  /\ \A r \in DOMAIN out : Holds(items, out[r])
  /\ \A p \in DOMAIN items, least \in Nat : items[p].score >= least =>
       \/ Holds(out, items[p]) \/ Cardinality(Better(out, least)) = limits.selected
       \/ /\ all[items[p].node].supporting
          /\ Cardinality(Supported(all, out) \cap Better(out, least)) = limits.supporting
  /\ \A p \in DOMAIN items, r \in DOMAIN out : items[p].score > out[r].score =>
       Holds(out, items[p]) \/ all[items[p].node].supporting
LEMMA SelectionLimited ==
  ASSUME NEW all, NEW T, NEW items \in Seq(T), \A i \in DOMAIN items : items[i].score \in Nat, Sorted(items),
         NEW limits, limits.selected \in Nat, limits.supporting \in Nat,
         NEW out, out = LimitSelectedCorpus(all, items, limits)
  PROVE  out \in Seq(T) /\ Limited(all, items, out, limits)
<1> DEFINE P == Supported(all, items)
           C == {k \in DOMAIN items : all[items[k].node].supporting =>
                   Cardinality(Supporting(all, items, k)) <= limits.supporting}
           R == Rising(C)
           m == Cardinality(C)
           e(k) == Nth(C, R, k)
           left == Entries(items, C)
           M == Min({limits.selected, Len(left)})
<1>1. Len(items) \in Nat /\ DOMAIN items = 1..Len(items) /\ \A i \in DOMAIN items : items[i] \in T OBVIOUS
<1>2. C \in SUBSET (1..Len(items)) /\ P \in SUBSET (1..Len(items)) BY <1>1 DEF Supported
<1>3. \A k \in DOMAIN items : Supporting(all, items, k) = Upto(P, k)
  BY <1>1 DEF Supporting, Supported, Upto
<1>4. \A k \in DOMAIN items : k \in C <=> (k \in P => Cardinality(Upto(P, k)) <= limits.supporting)
  BY <1>3 DEF Supported
<1> HIDE DEF C, R
<1>5. IsFiniteSet(C) /\ Numbered(C, R, m) /\ \A i, j \in C : <<i, j>> \in R <=> i < j
  BY <1>1, <1>2, IndexRanks DEF R
<1>6. m \in Nat /\ \A k \in 1..m : e(k) \in C BY <1>5 DEF Numbered
<1>7. \A p \in C : \E k \in 1..m : e(k) = p BY <1>5 DEF Numbered
<1>8. \A k, l \in 1..m : k < l => e(k) < e(l)
  <2> SUFFICES ASSUME NEW k \in 1..m, NEW l \in 1..m, k < l PROVE e(k) < e(l) OBVIOUS
  <2>1. <<e(k), e(l)>> \in R /\ e(k) \in C /\ e(l) \in C BY <1>5 DEF Numbered
  <2> HIDE DEF e
  <2> QED BY <1>5, <2>1
<1>9. left = [k \in 1..m |-> items[e(k)]] BY DEF Entries, InOrder, R
<1> HIDE DEF m, left, e
<1>10. Len(left) = m
  <2>1. left \in [1..m -> T] BY <1>1, <1>2, <1>6, <1>9
  <2>2. left \in Seq(T) BY <1>6, <2>1
  <2> QED BY <1>6, <1>9, <2>2
<1>11. M \in Nat /\ M \in {limits.selected, m} /\ M <= m
  BY <1>6, <1>10, LesserOfTwo
<1>12. out = [k \in 1..M |-> left[k]]
  BY DEF LimitSelectedCorpus, Shortened, left, C
<1> HIDE DEF M
<1>13. DOMAIN out = 1..M /\ \A k \in 1..M : k \in 1..m /\ out[k] = items[e(k)] /\ e(k) \in DOMAIN items
  <2>1. \A k \in 1..M : k \in 1..m BY <1>6, <1>11
  <2> QED BY <1>2, <1>1, <1>6, <1>9, <1>12, <2>1
<1>14. out \in Seq(T)
  <2>1. out \in [1..M -> T] BY <1>1, <1>12, <1>13
  <2> QED BY <1>11, <2>1
\* What is not kept although the caps allow it stands behind as many as are selected.
<1>15. ASSUME NEW r \in 1..m, NEW least \in Nat, items[e(r)].score >= least
       PROVE  \/ r \in DOMAIN out
              \/ Cardinality(Better(out, least)) = limits.selected
  <2>1. CASE r <= M BY <1>6, <1>11, <1>13, <2>1
  <2>2. CASE r > M
    <3>1. M = limits.selected BY <1>6, <1>11, <2>2
    <3>2. ASSUME NEW k \in 1..M PROVE out[k].score >= least
      <4>1. k < r /\ k \in 1..m BY <1>6, <1>11, <1>13, <2>2
      <4>2. e(k) < e(r) /\ e(k) \in DOMAIN items /\ e(r) \in DOMAIN items BY <1>1, <1>2, <1>6, <1>8, <4>1
      <4>3. items[e(k)].score >= items[e(r)].score BY <4>2 DEF Sorted
      <4>4. items[e(k)].score \in Nat /\ items[e(r)].score \in Nat BY <4>2
      <4> QED BY <1>13, <1>15, <4>3, <4>4
    <3>3. Better(out, least) = 1..M BY <1>13, <3>2 DEF Better
    <3> QED BY <1>11, <3>1, <3>3, CountedTo
  <2> QED BY <1>6, <1>11, <2>1, <2>2
<1>16. \A r \in DOMAIN out : Holds(items, out[r]) BY <1>13 DEF Holds
<1>17. ASSUME NEW p \in DOMAIN items, NEW least \in Nat, items[p].score >= least
       PROVE  \/ Holds(out, items[p]) \/ Cardinality(Better(out, least)) = limits.selected
              \/ /\ all[items[p].node].supporting
                 /\ Cardinality(Supported(all, out) \cap Better(out, least)) = limits.supporting
  <2>1. CASE p \in C
    <3>1. PICK r \in 1..m : e(r) = p BY <1>7, <2>1
    <3>2. r \in DOMAIN out => out[r] = items[p] BY <1>13, <3>1
    <3> QED BY <1>15, <1>17, <3>1, <3>2 DEF Holds
  <2>2. CASE p \notin C
    <3> DEFINE w == limits.supporting
               Q == Within(P, w)
               K == Supported(all, out) \cap Better(out, least)
    <3>1. p \in P /\ Cardinality(Upto(P, p)) > w
      <4>1. p \in P /\ ~(Cardinality(Upto(P, p)) <= w) BY <1>4, <2>2
      <4>2. IsFiniteSet(P)
        <5>1. IsFiniteSet(1..Len(items)) BY <1>1, CountedTo
        <5> HIDE DEF P
        <5> QED BY <1>2, <5>1, FS_Subset
      <4>3. Upto(P, p) \in SUBSET P BY DEF Upto
      <4> HIDE DEF P
      <4>4. Cardinality(Upto(P, p)) \in Nat BY <4>2, <4>3, FS_Subset, FS_CardinalityType
      <4> QED BY <4>1, <4>4
    <3>2. Cardinality(Q) = w /\ \A j \in Q : j < p
      <4>1. w \in Nat OBVIOUS
      <4> HIDE DEF P, w
      <4> QED BY <1>1, <1>2, <3>1, <4>1, FirstOf
    <3>3. \A j \in DOMAIN items : j \in Q <=> j \in P /\ j \in C BY <1>4 DEF Within
    <3>4. Q \subseteq C /\ Q \subseteq DOMAIN items BY <1>1, <1>2, <3>3 DEF Within
    <3> HIDE DEF Q
    <3>5. \A j \in Q : items[j].score >= least
      <4> SUFFICES ASSUME NEW j \in Q PROVE items[j].score >= least OBVIOUS
      <4>1. j < p /\ j \in DOMAIN items BY <3>2, <3>4
      <4>2. items[j].score >= items[p].score BY <4>1 DEF Sorted
      <4>3. items[j].score \in Nat /\ items[p].score \in Nat BY <4>1
      <4> QED BY <1>17, <4>2, <4>3
    <3>6. CASE \A j \in Q : \E k \in DOMAIN out : e(k) = j
      <4>1. \A k \in K : e(k) \in Q
        <5> SUFFICES ASSUME NEW k \in K PROVE e(k) \in Q OBVIOUS
        <5>1. k \in 1..M /\ all[out[k].node].supporting BY <1>13 DEF Supported
        <5>2. e(k) \in DOMAIN items /\ e(k) \in C /\ e(k) \in P BY <1>6, <1>13, <5>1 DEF Supported
        <5> QED BY <3>3, <5>2
      <4>2. \A j \in Q : \E k \in K : e(k) = j
        <5> SUFFICES ASSUME NEW j \in Q PROVE \E k \in K : e(k) = j OBVIOUS
        <5>1. PICK k \in DOMAIN out : e(k) = j BY <3>6
        <5>2. out[k] = items[j] /\ j \in P BY <1>13, <3>3, <3>4, <5>1
        <5>3. k \in K BY <3>5, <5>1, <5>2 DEF Supported, Better
        <5> QED BY <5>1, <5>3
      <4>3. \A k, l \in K : e(k) = e(l) => k = l
        <5> SUFFICES ASSUME NEW k \in K, NEW l \in K, e(k) = e(l) PROVE k = l OBVIOUS
        <5>1. k \in 1..m /\ l \in 1..m BY <1>13 DEF Supported
        <5>2. e(k) \in Nat /\ e(l) \in Nat
          <6>1. C \subseteq Nat BY <1>2
          <6>2. e(k) \in C /\ e(l) \in C BY <1>6, <5>1
          <6> QED BY Zenon, <6>1, <6>2
        <5>3. ~(k < l) /\ ~(l < k) BY <1>8, <5>1, <5>2
        <5> QED BY <1>6, <5>1, <5>3
      <4>4. IsFiniteSet(K)
        <5>1. K \in SUBSET (1..M) BY <1>13 DEF Supported
        <5> HIDE DEF K
        <5> QED BY <1>11, <5>1, CountedTo, FS_Subset
      <4> DEFINE f == [k \in K |-> e(k)]
      <4> HIDE DEF K
      <4>5. f \in [K -> Q] /\ (\A k, l \in K : f[k] = f[l] => k = l) /\ \A j \in Q : \E k \in K : f[k] = j
        BY <4>1, <4>2, <4>3
      <4> HIDE DEF f
      <4>6. Cardinality(Q) = Cardinality(K) BY <4>4, <4>5, SameSize
      <4> QED BY <3>1, <3>2, <4>6 DEF K, Supported
    <3>7. CASE \E j \in Q : ~\E k \in DOMAIN out : e(k) = j
      <4>1. PICK j \in Q : ~\E k \in DOMAIN out : e(k) = j BY <3>7
      <4>2. PICK r \in 1..m : e(r) = j BY <1>7, <3>4, <4>1
      <4>3. r \notin DOMAIN out BY <4>1, <4>2
      <4> QED BY <1>15, <3>5, <4>1, <4>2, <4>3
    <3> QED BY <3>6, <3>7
  <2> QED BY <2>1, <2>2
<1>18. ASSUME NEW p \in DOMAIN items, NEW r \in DOMAIN out, items[p].score > out[r].score
       PROVE  Holds(out, items[p]) \/ all[items[p].node].supporting
  <2>1. CASE p \notin C BY <1>4, <2>1 DEF Supported
  <2>2. CASE p \in C
    <3>1. PICK k \in 1..m : e(k) = p BY <1>7, <2>2
    <3>2. r \in 1..m /\ r \in 1..M /\ out[r] = items[e(r)] /\ e(r) \in DOMAIN items BY <1>13
    <3>3. k < r
      <4> SUFFICES ASSUME ~(k < r) PROVE FALSE OBVIOUS
      <4>1. r < k \/ r = k BY <1>6, <3>2
      <4>2. r = k => items[p].score > items[p].score BY <1>18, <3>1, <3>2
      <4>3. items[p].score \in Nat /\ items[e(r)].score \in Nat BY <3>2
      <4>4. r < k BY <4>1, <4>2, <4>3
      <4>5. e(r) < p BY <1>8, <3>1, <3>2, <4>4
      <4>6. items[e(r)].score >= items[p].score BY <3>2, <4>5 DEF Sorted
      <4> QED BY <1>18, <3>2, <4>3, <4>6
    <3>4. k \in DOMAIN out /\ out[k] = items[p]
      <4>1. k \in 1..M BY <1>6, <1>11, <3>2, <3>3
      <4> QED BY <1>13, <3>1, <4>1
    <3> QED BY <3>4 DEF Holds
  <2> QED BY <2>1, <2>2
<1> QED BY <1>14, <1>16, <1>17, <1>18 DEF Limited

\* What is selected is relevant.
LEMMA SelectionsRelevant ==
  ASSUME NEW all, AreSections(all), NEW signals, AreSignals(signals),
         NEW limits, limits.selected \in Nat, limits.supporting \in Nat,
         NEW picked \in SelectionsOf(all, signals, limits)
  PROVE  IsRelevant(all, signals, limits, picked)
<1> DEFINE T == Items(all, signals, {"match", "trace", "heading"})
           base == MatchingEvidence(all, signals, limits)
           seeds == MatchGraphSeeds(all, signals)
<1>1. PICK items : Grown(all, signals, base, items) /\ picked = KeptEvidence(all, items, signals, limits)
  BY SeedsFollowed
<1> DEFINE found == ExpandGraphHierarchyEvidence(all, items)
           places == {i \in DOMAIN found : ~OffTopic(all[found[i].node], signals)}
           onTopic == Entries(found, places)
           sorted == SortScoredCorpus(all, onTopic)
<1>2. picked = LimitSelectedCorpus(all, sorted, limits) BY <1>1 DEF KeptEvidence
<1>3. /\ base \in Seq(Items(all, signals, {"match"}))
      /\ \A s \in seeds : StandsIn(all, base, s.node, s.score)
      /\ \A rule \in signals.rules : OfRule(all, rule) # {} => StandsIn(all, base, Min(OfRule(all, rule)), 2000)
  BY MatchingFound
<1> HIDE DEF base, found
<1>4. /\ found \in Seq(T)
      /\ \A k \in DOMAIN items : k \in DOMAIN found /\ found[k] = items[k]
      /\ \A k \in DOMAIN found : k \in DOMAIN items \/ found[k].how = "heading"
  BY <1>1, HeadingsAdded DEF Grown, found
<1>5. \A i \in DOMAIN found : i \in places <=> ~OffTopic(all[found[i].node], signals) OBVIOUS
<1>6. /\ onTopic \in Seq(T)
      /\ \A k \in DOMAIN onTopic : \E i \in places : onTopic[k] = found[i]
      /\ \A i \in places : \E k \in DOMAIN onTopic : onTopic[k] = found[i]
  <2>1. places \in SUBSET DOMAIN found OBVIOUS
  <2> HIDE DEF places, T, onTopic
  <2>2. \A i \in places : found[i] \in T BY <1>4, <2>1
  <2> QED BY <1>4, <2>1, <2>2, EntriesHeld DEF onTopic
<1>7. places \subseteq DOMAIN found OBVIOUS
<1> HIDE DEF places, onTopic
<1>8. /\ sorted \in Seq(T)
      /\ \A k \in DOMAIN sorted : \E i \in DOMAIN onTopic : sorted[k] = onTopic[i]
      /\ \A i \in DOMAIN onTopic : \E k \in DOMAIN sorted : sorted[k] = onTopic[i]
      /\ Sorted(sorted)
  BY <1>6, EvidenceSorted DEF Sorted
<1> HIDE DEF sorted
<1>9. \A x \in T : x.score \in Nat /\ x.node \in Relevant(all, signals) /\ x.node \in DOMAIN all /\ x.of \in DOMAIN all
  BY DEF Items, Relevant
<1> HIDE DEF T
<1>10. picked \in Seq(T) /\ Limited(all, sorted, picked, limits)
  <2>1. \A i \in DOMAIN sorted : sorted[i].score \in Nat BY <1>8, <1>9
  <2> QED BY <1>2, <1>8, <2>1, SelectionLimited
<1>11. ASSUME NEW m \in DOMAIN all, NEW n \in DOMAIN all, SameKey(all, m, n)
       PROVE  all[m].supporting = all[n].supporting
  <2>1. all[m].doc = all[n].doc BY <1>11 DEF SameKey, SectionKey
  <2> QED BY <2>1 DEF AreSections
\* What matches is sorted, unless it is off topic.
<1>12. ASSUME NEW k \in DOMAIN base
       PROVE  /\ base[k].node \in DOMAIN all /\ base[k].score \in Nat
              /\ OffTopic(all[base[k].node], signals) \/ \E p \in DOMAIN sorted : sorted[p] = base[k]
  <2>1. k \in DOMAIN found /\ found[k] = base[k] BY <1>1, <1>4 DEF Grown
  <2>2. base[k] \in T BY <1>4, <2>1
  <2>3. k \in places => \E p \in DOMAIN sorted : sorted[p] = base[k]
    <3> SUFFICES ASSUME k \in places PROVE \E p \in DOMAIN sorted : sorted[p] = base[k] OBVIOUS
    <3>1. PICK i \in DOMAIN onTopic : onTopic[i] = found[k] BY <1>6
    <3>2. PICK p \in DOMAIN sorted : sorted[p] = onTopic[i] BY <1>8
    <3> QED BY <2>1, <3>1, <3>2
  <2> QED BY <1>5, <1>9, <2>1, <2>2, <2>3
<1>13. ASSUME NEW n \in DOMAIN all, NEW least \in Nat, StandsIn(all, base, n, least)
       PROVE  GivesWay(all, signals, limits, picked, n, least)
  <2>1. PICK k \in DOMAIN base : SameKey(all, base[k].node, n) /\ base[k].score >= least BY <1>13 DEF StandsIn
  <2>2. CASE OffTopic(all[base[k].node], signals) BY <1>12, <2>1, <2>2 DEF GivesWay, Strays
  <2>3. CASE ~OffTopic(all[base[k].node], signals)
    <3>1. PICK p \in DOMAIN sorted : sorted[p] = base[k] BY <1>12, <2>3
    <3>2. \/ Holds(picked, base[k]) \/ Cardinality(Better(picked, least)) = limits.selected
          \/ /\ all[base[k].node].supporting
             /\ Cardinality(Supported(all, picked) \cap Better(picked, least)) = limits.supporting
      BY <1>10, <2>1, <3>1 DEF Limited
    <3>3. Holds(picked, base[k]) => Given(all, picked, n) BY <2>1 DEF Holds, Given
    <3>4. all[base[k].node].supporting = all[n].supporting BY <1>11, <1>12, <2>1
    <3> QED BY <3>2, <3>3, <3>4 DEF GivesWay
  <2> QED BY <2>2, <2>3
<1>14. \A k \in DOMAIN picked : ~Foreign(all[picked[k].node], signals)
  <2> SUFFICES ASSUME NEW k \in DOMAIN picked PROVE ~Foreign(all[picked[k].node], signals) OBVIOUS
  <2>1. picked[k] \in T BY <1>10
  <2>2. picked[k].node \in Relevant(all, signals) BY <1>9, <2>1
  <2> QED BY <2>2 DEF Relevant
<1>15. ASSUME NEW n \in DOMAIN all, NEW least \in Nat, \E s \in seeds : s.node = n /\ s.score >= least
       PROVE  GivesWay(all, signals, limits, picked, n, least)
  <2>1. PICK s \in seeds : s.node = n /\ s.score >= least BY <1>15
  <2>2. PICK k \in DOMAIN base : SameKey(all, base[k].node, n) /\ base[k].score >= s.score BY <1>3, <2>1 DEF StandsIn
  <2>3. s.score \in Nat
    <3>1. s.score \in 190..242 BY SeedsKnown
    <3> QED BY <3>1
  <2>4. base[k].score >= least BY <1>12, <2>1, <2>2, <2>3
  <2>5. StandsIn(all, base, n, least) BY <2>2, <2>4 DEF StandsIn
  <2> QED BY <1>13, <2>5
<1>16. ASSUME NEW n \in DOMAIN all, all[n].rule = "none"
       PROVE  /\ all[n].ids \cap signals.ids # {} => GivesWay(all, signals, limits, picked, n, 230)
              /\ all[n].routes \cap signals.routes # {} => GivesWay(all, signals, limits, picked, n, 190)
  <2>1. /\ signals.ids \cap all[n].ids # {} => \E s \in seeds : s.node = n /\ s.score >= 230
        /\ signals.routes \cap all[n].routes # {} => \E s \in seeds : s.node = n /\ s.score >= 190
    BY <1>16, SeedsFound
  <2>2. 230 \in Nat /\ 190 \in Nat OBVIOUS
  <2>3. /\ signals.ids \cap all[n].ids = all[n].ids \cap signals.ids
        /\ signals.routes \cap all[n].routes = all[n].routes \cap signals.routes
    OBVIOUS
  <2> HIDE DEF seeds
  <2> QED BY <1>15, <2>1, <2>2, <2>3
<1>17. ASSUME NEW rule \in signals.rules, OfRule(all, rule) # {}
       PROVE  GivesWay(all, signals, limits, picked, Min(OfRule(all, rule)), 2000)
  <2>1. OfRule(all, rule) \in SUBSET Nat /\ OfRule(all, rule) \subseteq DOMAIN all BY DEF OfRule, AreSections
  <2>2. Min(OfRule(all, rule)) \in DOMAIN all BY <1>17, <2>1, LeastElement
  <2>3. 2000 \in Nat OBVIOUS
  <2> QED BY <1>3, <1>13, <1>17, <2>2, <2>3
<1>18. ASSUME NEW k \in DOMAIN picked, picked[k].how = "trace"
       PROVE  \/ Given(all, picked, picked[k].of) \/ Strays(all, signals, picked[k].of)
              \/ all[picked[k].of].supporting
  <2>1. PICK p \in DOMAIN sorted : sorted[p] = picked[k] BY <1>10 DEF Limited, Holds
  <2>2. PICK i \in DOMAIN onTopic : onTopic[i] = picked[k] BY <1>8, <2>1
  <2>3. PICK j \in places : found[j] = picked[k] BY <1>6, <2>2
  <2>4. j \in DOMAIN items /\ items[j] = picked[k] BY <1>4, <1>7, <1>18, <2>3
  <2>5. picked[k].score <= 135 /\ \E s \in seeds : picked[k].of = s.node BY <1>1, <1>18, <2>4 DEF Grown
  <2>6. PICK s \in seeds : picked[k].of = s.node BY <2>5
  <2>7. s.score >= 190 /\ s.score \in Nat /\ s.node \in DOMAIN all
    <3>1. s.score \in 190..242 /\ s.node \in Relevant(all, signals) BY SeedsKnown
    <3> QED BY <3>1 DEF Relevant
  <2>8. PICK b \in DOMAIN base : SameKey(all, base[b].node, s.node) /\ base[b].score >= s.score BY <1>3 DEF StandsIn
  <2>9. CASE OffTopic(all[base[b].node], signals) BY <1>12, <2>6, <2>8, <2>9 DEF Strays
  <2>10. CASE ~OffTopic(all[base[b].node], signals)
    <3>1. PICK q \in DOMAIN sorted : sorted[q] = base[b] BY <1>12, <2>10
    <3>2. picked[k].score \in Nat BY <1>9, <1>10
    <3>3. sorted[q].score > picked[k].score BY <1>12, <2>5, <2>7, <2>8, <3>1, <3>2
    <3>4. Holds(picked, base[b]) \/ all[base[b].node].supporting BY <1>10, <3>1, <3>3 DEF Limited
    <3>5. Holds(picked, base[b]) => Given(all, picked, s.node) BY <2>8 DEF Holds, Given
    <3>6. all[base[b].node].supporting = all[s.node].supporting BY <1>11, <1>12, <2>7, <2>8
    <3> QED BY <2>6, <3>4, <3>5, <3>6
  <2> QED BY <2>9, <2>10
<1> QED BY <1>14, <1>16, <1>17, <1>18 DEF IsRelevant
===============================================================================
