-------------------------- MODULE CorpusSelection --------------------------
(* What a review is given to read of the repository's own documents: they are  *)
(* found and split into sections, the sections are scored against what the     *)
(* change says, those that share an identifier, a name or a heading with a     *)
(* match are added, and the best are kept.                                     *)
(*   src/agent/pipeline/{corpus_selection,corpus_graph,                        *)
(*   corpus_graph_retrieval}.go                                                *)
(*                                                                             *)
(* A document is [path, words, rule, text, form, lines, supporting]: the words *)
(* of its path, the language whose rules it holds, whether its extension is    *)
(* that of a text.  A line is [level, title, fence, leads, ids, routes, words, *)
(* names]: a heading has a level and a title, numbered in alphabetical order;  *)
(* leads is the identifier its title starts with; an identifier is a pair of   *)
(* prefix and number, a route a tuple of its path; names are what it calls a   *)
(* table, a model or a channel.                                                *)
(* Documents are listed in the order of their paths, and a line of an API      *)
(* description is one path, channel, schema or message of it.  Simplified:     *)
(* words are equal or different, never parts of each other; matched signals    *)
(* and reasons are texts for a reader.                                         *)
EXTENDS Integers, Sequences, FiniteSets, SequencesExt, FiniteSetsExt

\* The entries of a sequence at some of its places, as an order of the places
\* lists them, or as they stand.
Ahead(places, before, i) == {j \in places : <<j, i>> \in before}
Nth(places, before, k) == CHOOSE i \in places : Cardinality(Ahead(places, before, i)) = k - 1
InOrder(s, places, before) == [k \in 1..Cardinality(places) |-> s[Nth(places, before, k)]]
Rising(places) == {pair \in places \X places : pair[1] < pair[2]}
Entries(s, places) == InOrder(s, places, Rising(places))

(***************************************************************************)
(* Documents and sections.                                                  *)
(***************************************************************************)
\* The first class with a word in the path is the document's.
Classification ==
  <<[words |-> {"agents"}, kind |-> "rules", authority |-> "baseline_rules"],
    [words |-> {"rule", "convention"}, kind |-> "rules", authority |-> "rules"],
    [words |-> {"srs", "requirement", "planning"}, kind |-> "planning", authority |-> "requirements"],
    [words |-> {"contract", "schema", "proto", "model"}, kind |-> "contract", authority |-> "contract"],
    [words |-> {"openapi", "asyncapi"}, kind |-> "api", authority |-> "api_contract"],
    [words |-> {"adr", "architecture"}, kind |-> "architecture", authority |-> "architecture"],
    [words |-> {"api"}, kind |-> "api", authority |-> "api_contract"],
    [words |-> {"security", "threat"}, kind |-> "security", authority |-> "security"],
    [words |-> {"design", "tokens"}, kind |-> "design", authority |-> "design"],
    [words |-> {"release", "runbook", "delivery"}, kind |-> "delivery", authority |-> "operations"]>>
ClassifyCorpusDocument(d) ==
  LET hits == {i \in DOMAIN Classification : Classification[i].words \cap d.words # {}} IN
  IF hits = {} \/ (~d.text /\ 1 \notin hits) THEN 0 ELSE Min(hits)

DiscoverCorpusDocuments(library, limits) ==
  Entries(library, {k \in DOMAIN library :
                      ClassifyCorpusDocument(library[k]) # 0 /\ Len(library[k].lines) <= limits.document})

\* What the library holds: documents of lines, whose titles are numbered.
IsLines(lines) == lines \in Seq({line \in Range(lines) : line.title \in Nat})
IsLibrary(library) == library \in Seq({d \in Range(library) : IsLines(d.lines)})

\* A section keeps the features of its path, its title and as much of its
\* content as fits.
BoundedCorpusSection(docs, k, head, heading, ordinal, lines, limits) ==
  LET d == docs[k]
      class == Classification[ClassifyCorpusDocument(d)]
      content == {lines[i] : i \in 1..Min({Len(lines), limits.section})} IN
  [doc |-> k, source |-> d.path, kind |-> class.kind, authority |-> class.authority, rule |-> d.rule,
   title |-> head.title, heading |-> heading, level |-> Len(heading), ordinal |-> ordinal,
   leads |-> head.leads, titleIds |-> head.ids, titleWords |-> head.words, pathWords |-> d.words,
   ids |-> head.ids \cup UNION {l.ids : l \in content},
   routes |-> head.routes \cup UNION {l.routes : l \in content},
   names |-> UNION {l.names : l \in content},
   text |-> head.words \cup UNION {l.words : l \in content},
   words |-> d.words \cup head.words \cup UNION {l.words : l \in content},
   size |-> Cardinality(content), supporting |-> d.supporting]

\* Markdown is split at its headings outside fences; what stands before the
\* first heading belongs to no section.  A seventh level counts as the first.
SplitMarkdownDocument(docs, k, limits) ==
  LET lines == docs[k].lines
      fenced(i) == Cardinality({j \in 1..i : lines[j].fence}) % 2 = 1
      marks == Entries([i \in DOMAIN lines |-> i], {i \in DOMAIN lines : lines[i].level > 0 /\ ~fenced(i)})
      level(m) == IF lines[marks[m]].level > 6 THEN 1 ELSE lines[marks[m]].level
      titled(m, l) == {j \in 1..m : level(j) <= l}
      heading(m) == [l \in 1..level(m) |->
        IF titled(m, l) = {} \/ level(Max(titled(m, l))) # l THEN 0 ELSE lines[marks[Max(titled(m, l))]].title]
      end(m) == IF m = Len(marks) THEN Len(lines) ELSE marks[m + 1] - 1 IN
  [m \in DOMAIN marks |->
     BoundedCorpusSection(docs, k, lines[marks[m]], heading(m), m - 1,
                          SubSeq(lines, marks[m], end(m)), limits)]

\* An API description has a section for each of its parts, without headings.
SplitAPIDocument(docs, k, limits) ==
  LET parts == docs[k].lines IN
  [i \in DOMAIN parts |-> BoundedCorpusSection(docs, k, parts[i], <<>>, 0, <<parts[i]>>, limits)]

\* Any other document, or one that cannot be split, is one section named after
\* its file.
SplitCorpusDocument(docs, k, limits) ==
  LET name == [title |-> 0, leads |-> <<>>, ids |-> {}, routes |-> {}, words |-> docs[k].words]
      split == CASE docs[k].form = "markdown" -> SplitMarkdownDocument(docs, k, limits)
                 [] docs[k].form = "api" -> SplitAPIDocument(docs, k, limits)
                 [] OTHER -> <<>> IN
  IF split = <<>> THEN <<BoundedCorpusSection(docs, k, name, <<>>, 0, docs[k].lines, limits)>> ELSE split

CorpusSections(library, limits) ==
  LET docs == DiscoverCorpusDocuments(library, limits) IN
  FlattenSeq([k \in DOMAIN docs |-> SplitCorpusDocument(docs, k, limits)])

(***************************************************************************)
(* What the change says: its title and description, paths, patches and      *)
(* commits, and the topics of the activated skills.                         *)
(***************************************************************************)
ExtractReviewSignals(texts, topics) ==
  LET of(places) == {t \in texts : t.place \in places} IN
  [ids |-> UNION {t.ids : t \in texts}, routes |-> UNION {t.routes : t \in texts},
   terms |-> UNION {t.words : t \in texts},
   parts |-> UNION {t.words : t \in of({"path"})},
   entities |-> UNION {t.words : t \in of({"patch", "commit"})},
   rules |-> {t.rule : t \in of({"path"})} \ {"none"},
   topics |-> topics]

(***************************************************************************)
(* Scores.                                                                  *)
(***************************************************************************)
AuthorityScore(s) ==
  CASE s.authority = "baseline_rules" -> 12
    [] s.authority \in {"rules", "contract", "api_contract", "requirements"} -> 8
    [] s.authority \in {"architecture", "security", "design"} -> 5
    [] OTHER -> 2

DocFreq(all, term) == Cardinality({n \in DOMAIN all : term \in all[n].words})
RarityBonus(freq, total) ==
  IF freq <= 1 THEN 18 ELSE IF freq <= 3 THEN 12 ELSE IF freq * 10 <= total THEN 8 ELSE 0

SkillKinds == [api |-> {"api", "contract"}, data |-> {"contract"}, security |-> {"security"},
               design |-> {"design"}, reliability |-> {"architecture", "delivery"},
               framework |-> {"rules"}, traceability |-> {"planning", "contract"}]
SkillRelevant(s, signals) ==
  \E t \in signals.topics : s.kind \in SkillKinds[t] \/ (t = "data" /\ "data" \in s.pathWords)

LanguageRuleOverview(s) == s.level <= 1 \/ s.titleWords \cap {"rule", "convention"} # {}
Foreign(s, signals) == s.rule # "none" /\ signals.rules # {} /\ s.rule \notin signals.rules

ScoreCorpusFeature(all, s, signals, limits) ==
  LET ids == signals.ids \cap s.ids
      leading == {id \in ids : s.leads = id}
      titled == (ids \cap s.titleIds) \ leading
      ofIds == 500 * Cardinality(leading) + 260 * Cardinality(titled)
               + (IF s.authority \in {"requirements", "contract"} THEN 170 ELSE 55)
                 * Cardinality(ids \ (leading \cup titled))
               + IF s.authority = "contract" \/ "contract" \in s.pathWords THEN 40 * Cardinality(ids) ELSE 0
      ofRule == IF s.rule \notin signals.rules THEN 0 ELSE IF LanguageRuleOverview(s) THEN 360 ELSE 55
      parts == signals.parts \cap s.words
      ofParts == 20 * Cardinality(parts \cap s.pathWords)
                 + 18 * Cardinality((parts \cap s.titleWords) \ s.pathWords)
                 + 6 * Cardinality(parts \ (s.titleWords \cup s.pathWords))
      terms == {w \in signals.terms \cap s.words : DocFreq(all, w) * 3 <= Len(all) * 2}
      rare(bonus) == {w \in terms : RarityBonus(DocFreq(all, w), Len(all)) = bonus}
      ofTerms == 18 * Cardinality(rare(18)) + 12 * Cardinality(rare(12)) + 8 * Cardinality(rare(8))
                 + 35 * Cardinality(terms \cap s.titleWords)
                 + 12 * Cardinality((terms \cap s.pathWords) \ s.titleWords)
                 + 4 * Cardinality(terms \ (s.titleWords \cup s.pathWords))
      matched == ofIds + 120 * Cardinality(signals.routes \cap s.routes) + ofRule + ofParts
                 + 12 * Cardinality(signals.entities \cap s.words) + ofTerms
      extra == IF matched > 0 THEN IF SkillRelevant(s, signals) THEN 25 ELSE 0
               ELSE IF s.authority = "baseline_rules" /\ s.size <= limits.baseline THEN 5 ELSE 0 IN
  IF Foreign(s, signals) \/ matched + extra = 0 THEN 0 ELSE matched + extra + AuthorityScore(s)

(***************************************************************************)
(* The evidence, an item for each section: its score, and the section that  *)
(* brought it in - itself, unless it was added as related.                  *)
(***************************************************************************)
Item(node, score, of, how) == [node |-> node, score |-> score, of |-> of, how |-> how]
SectionKey(all, n) == <<all[n].doc, all[n].title, all[n].heading>>
Positions(all, items, n) == {i \in DOMAIN items : SectionKey(all, items[i].node) = SectionKey(all, n)}
IsIn(all, items, n) == Positions(all, items, n) # {}

\* Sections that are there get at least these scores, the others are added.
AtLeast(all, items, found) ==
  LET same(n) == {s \in found : SectionKey(all, s.node) = SectionKey(all, n)}
      raised(k) == IF k # Max(Positions(all, items, items[k].node)) THEN items[k]
                   ELSE [items[k] EXCEPT !.score = Max({@} \cup {s.score : s \in same(items[k].node)})]
      new == {s \in found : ~IsIn(all, items, s.node) /\ \A t \in same(s.node) :
                t.score < s.score \/ (t.score = s.score /\ t.node >= s.node)}
      added == Entries([n \in DOMAIN all |-> n], {s.node : s \in new})
      score(n) == (CHOOSE s \in new : s.node = n).score IN
  [k \in DOMAIN items |-> raised(k)] \o [k \in DOMAIN added |-> Item(added[k], score(added[k]), added[k], "match")]

SortScoredCorpus(all, items) ==
  LET before(i, j) ==
        LET a == items[i] b == items[j] s == all[items[i].node] t == all[items[j].node] IN
        \/ a.score > b.score
        \/ a.score = b.score /\ s.doc < t.doc
        \/ a.score = b.score /\ s.doc = t.doc /\ s.title < t.title
        \/ a.score = b.score /\ s.doc = t.doc /\ s.title = t.title /\ i < j IN
  InOrder(items, DOMAIN items, {pair \in (DOMAIN items) \X (DOMAIN items) : before(pair[1], pair[2])})

Seed(n, value, score) == [node |-> n, value |-> value, score |-> score]
\* Of the rules of each changed language the first section and the first
\* overview are always among the best.
EnsureCodeRuleOverviews(all, items, signals) ==
  LET of(rule) == {n \in DOMAIN all : all[n].rule = rule}
      first(S) == IF S = {} THEN {} ELSE {Min(S)}
      wanted == UNION {first(of(rule)) \cup first({n \in of(rule) : LanguageRuleOverview(all[n])}) :
                       rule \in signals.rules} IN
  AtLeast(all, items, {Seed(n, <<>>, 2000 + AuthorityScore(all[n])) : n \in wanted})

\* Mutant of MatchGraphSeeds: routes lead nowhere, identifiers anywhere.
SeedsWithRules(all, signals) ==
  UNION {{Seed(n, id, 230 + AuthorityScore(all[n])) : id \in signals.ids \cap all[n].ids} : n \in DOMAIN all}
\* A section that names an identifier or a route of the change is a seed,
\* unless it is a rule of a language.
MatchGraphSeeds(all, signals) ==
  UNION {{Seed(n, id, 230 + AuthorityScore(all[n])) : id \in signals.ids \cap all[n].ids}
         \cup {Seed(n, route, 190 + AuthorityScore(all[n])) : route \in signals.routes \cap all[n].routes} :
         n \in {m \in DOMAIN all : all[m].rule = "none"}}

\* Mutant of MergeGraphSeedEvidence: a seed that already matched keeps its score.
MergeNewSeeds(all, items, found) == AtLeast(all, items, {s \in found : ~IsIn(all, items, s.node)})
MergeGraphSeedEvidence(all, items, found) == AtLeast(all, items, found)

\* What matches the change, best first.
MatchingEvidence(all, signals, limits) ==
  LET scored == [n \in DOMAIN all |-> Item(n, ScoreCorpusFeature(all, all[n], signals, limits), n, "match")]
      matching == Entries(scored, {n \in DOMAIN all : scored[n].score > 0}) IN
  SortScoredCorpus(all, MergeGraphSeedEvidence(all, EnsureCodeRuleOverviews(all, matching, signals),
                                               MatchGraphSeeds(all, signals)))

(***************************************************************************)
(* How sections hang together, the strongest tie first.  A tie counts once: *)
(* a section is reached by the first of its edges.                          *)
(***************************************************************************)
Kinds == <<"trace", "shared", "component", "parent", "overview">>
Gain == <<35, 25, 20, 5, -15>>
TracePrefixes == {"ADR", "UC", "OPC", "REQ", "FR", "NFR", "INV", "LAW", "RULE", "PRO", "CTRL"}
Describes(s) == s.kind = "api" \/ (s.pathWords \cup s.titleWords) \cap {"openapi", "asyncapi", "schema", "data-model"} # {}
Owns(s) == (s.pathWords \cup s.titleWords) \cap {"owner", "ownership", "responsibility", "component"} # {}
DataNames(s) ==
  s.names \cup IF (s.pathWords \cup s.titleWords) \cap {"data", "data-model", "schema", "model"} # {}
                 THEN s.pathWords \cup s.titleWords ELSE {}
ComponentNames(s) == (s.pathWords \cup s.titleWords) \ {"rules", "contract", "schema", "component", "api"}

\* The last section of the document with the title of the heading above, and
\* the document's first section; 0 when there is none but the section itself.
Headed(all, s) == {m \in DOMAIN all : s.level >= 2 /\ all[m].doc = s.doc /\ all[m].title = s.heading[s.level - 1]}
ParentSection(all, n) == LET last == Max({0} \cup Headed(all, all[n])) IN IF last = n THEN 0 ELSE last
OverviewSection(all, n) ==
  LET first == Min({m \in DOMAIN all : all[m].doc = all[n].doc}) IN IF first = n THEN 0 ELSE first

\* A feature that too many sections have ties none of them.
Share(all, a, b, of(_), most) ==
  \E v \in of(all[a]) \cap of(all[b]) : Cardinality({n \in DOMAIN all : v \in of(all[n])}) <= most
Joins(all, a, b, limits) ==
  LET traced(s) == {id \in s.ids : id[1] \in TracePrefixes \/ ~Describes(all[a])}
      ids(s) == s.ids
      routes(s) == s.routes
      titles(s) == s.titleWords
      ties == <<Share(all, a, b, traced, limits.traced),
                \/ Share(all, a, b, ids, limits.traced) \/ Share(all, a, b, routes, limits.shared)
                \/ Share(all, a, b, titles, limits.shared) \/ Share(all, a, b, DataNames, limits.shared),
                /\ Share(all, a, b, ComponentNames, limits.shared)
                /\ \E n \in {a, b} : all[n].kind = "design" \/ Owns(all[n]),
                ParentSection(all, a) = b, OverviewSection(all, a) = b>> IN
  IF a = b THEN {} ELSE {k \in DOMAIN Kinds : ties[k]}

\* The sections one edge away, and those a heading further up.
Candidate(node, depth, kind) == [node |-> node, depth |-> depth, score |-> 95 - 20 * (depth - 1) + Gain[kind]]
GraphCandidates(all, n, limits) ==
  LET near == {m \in DOMAIN all : Joins(all, n, m, limits) # {}}
      kind(m) == Min(Joins(all, n, m, limits))
      above == {ParentSection(all, m) : m \in {x \in near : Kinds[kind(x)] \in {"parent", "overview"}}} IN
  {Candidate(m, 1, kind(m)) : m \in near} \cup {Candidate(m, 2, 4) : m \in above \ (near \cup {0, n})}

Clamped(low, high, x) == Max({low, Min({high, x})})
GraphRelatedScore(score, depth, s) ==
  Clamped(55, 135, score \div 2 + AuthorityScore(s) - IF depth > 1 THEN 15 ELSE 0)
HierarchyRelatedScore(score, depth, s) ==
  Clamped(70, 95, Clamped(45, 80, score \div 2) + AuthorityScore(s) - IF depth > 1 THEN 10 ELSE 0)

\* Better candidates first; which of two equal ones is first is left to the
\* order of a Go map.
Best(all, candidates) ==
  LET before(c, d) == \/ c.score > d.score
                      \/ c.score = d.score /\ c.depth < d.depth
                      \/ c.score = d.score /\ c.depth = d.depth /\ all[c.node].doc < all[d.node].doc IN
  {c \in candidates : \A d \in candidates : ~before(d, c)}

\* The seeds are followed in the order of their scores and their documents; of
\* equal seeds only those of one value keep the order of their sections.
SeedsInTurn(all, left) ==
  LET before(s, t) == \/ s.score > t.score
                      \/ s.score = t.score /\ all[s.node].doc < all[t.node].doc
                      \/ /\ s.score = t.score /\ all[s.node].doc = all[t.node].doc
                         /\ s.value = t.value /\ s.node < t.node IN
  {s \in left : \A t \in left : ~before(t, s)}

\* What the evidence can be once a seed has brought in up to two related
\* sections, none of them a rule of a language.
ExpandGraphEvidence(all, items, s, limits) ==
  LET candidates == GraphCandidates(all, s.node, limits)
      new(kept) == {c \in candidates : all[c.node].rule = "none" /\ ~IsIn(all, kept, c.node)}
      item(c) == Item(c.node, GraphRelatedScore(s.score, c.depth, all[c.node]), s.node, "trace")
      more(kept) == IF new(kept) = {} THEN {kept} ELSE {Append(kept, item(c)) : c \in Best(all, new(kept))} IN
  UNION {more(kept) : kept \in more(items)}

\* The headings above a good match come with it, two of a document at most.
ExpandGraphHierarchyEvidence(all, items) ==
  LET eligible == Entries(items, {i \in DOMAIN items : items[i].score >= 20 /\
                    all[items[i].node].kind \in {"design", "architecture", "planning", "contract"}})
      node(i) == Max({n \in DOMAIN all : SectionKey(all, n) = SectionKey(all, i.node)})
      up(n) == IF n = 0 THEN 0 ELSE ParentSection(all, n)
      from(j) == eligible[(j + 1) \div 2]
      depth(j) == 2 - (j % 2)
      to(j) == IF depth(j) = 1 THEN up(node(from(j))) ELSE up(up(node(from(j))))
      wanted == {j \in 1..(2 * Len(eligible)) : to(j) \notin {0, node(from(j))} /\ ~IsIn(all, items, to(j))}
      new == {j \in wanted : ~\E i \in wanted : i < j /\ SectionKey(all, to(i)) = SectionKey(all, to(j))}
      taken == {j \in new : Cardinality({i \in new : i < j /\ all[to(i)].doc = all[to(j)].doc}) < 2}
      added == Entries([j \in 1..(2 * Len(eligible)) |-> j], taken)
      item(j) == Item(to(j), HierarchyRelatedScore(from(j).score, depth(j), all[to(j)]), from(j).node, "heading") IN
  items \o [k \in DOMAIN added |-> item(added[k])]

(***************************************************************************)
(* What is kept.                                                            *)
(***************************************************************************)
Topics == {[word |-> "livekit", asked |-> {"livekit", "call", "calls", "media", "webrtc", "sfu"}, id |-> <<"none", 0>>],
           [word |-> "opc-delall", asked |-> {"delall", "delete", "deleted", "suppression"}, id |-> <<"OPC", 0>>]}
OffTopic(s, signals) == \E t \in Topics :
  t.word \in s.text /\ t.id \notin signals.ids /\ t.asked \cap (signals.terms \cup signals.parts \cup signals.entities) = {}

Supporting(all, items, k) == {j \in 1..k : all[items[j].node].supporting}
Shortened(items, kept, most) ==
  LET left == Entries(items, kept) IN [k \in 1..Min({most, Len(left)}) |-> left[k]]
\* Mutant of LimitSelectedCorpus: a supporting section beyond the cap ends the list.
LimitAtSupporting(all, items, limits) ==
  Shortened(items, {k \in DOMAIN items : Cardinality(Supporting(all, items, k)) <= limits.supporting}, limits.selected)
LimitSelectedCorpus(all, items, limits) ==
  Shortened(items, {k \in DOMAIN items : all[items[k].node].supporting =>
                      Cardinality(Supporting(all, items, k)) <= limits.supporting}, limits.selected)

KeptEvidence(all, items, signals, limits) ==
  LET found == ExpandGraphHierarchyEvidence(all, items)
      onTopic == Entries(found, {i \in DOMAIN found : ~OffTopic(all[found[i].node], signals)}) IN
  LimitSelectedCorpus(all, SortScoredCorpus(all, onTopic), limits)

\* Every evidence the documents can come to, one seed followed after the other.
SelectionsOf(all, signals, limits) ==
  LET found == MatchGraphSeeds(all, signals)
      follow(x) == UNION {{[left |-> x.left \ {s}, items |-> e] : e \in ExpandGraphEvidence(all, x.items, s, limits)} :
                          s \in SeedsInTurn(all, x.left)}
      followed[k \in 0..Cardinality(found)] ==
        IF k = 0 THEN {[left |-> found, items |-> MatchingEvidence(all, signals, limits)]}
        ELSE UNION {follow(x) : x \in followed[k - 1]} IN
  {KeptEvidence(all, x.items, signals, limits) : x \in followed[Cardinality(found)]}

\* Evidence is relevant when it is what the change is about.  A section that
\* names an identifier or a route of the change, and the first section of the
\* rules of each changed language, give way only to better ones, or to the caps,
\* or to a topic the change does not touch; the rules of another language are
\* never given; and a related section comes only with the one that brought it
\* in, unless that one is off topic or was one supporting section too many.
SameKey(all, m, n) == SectionKey(all, m) = SectionKey(all, n)
OfRule(all, rule) == {n \in DOMAIN all : all[n].rule = rule}
Supported(all, items) == {k \in DOMAIN items : all[items[k].node].supporting}
Better(items, least) == {k \in DOMAIN items : items[k].score >= least}
Given(all, items, n) == \E k \in DOMAIN items : SameKey(all, items[k].node, n)
Strays(all, signals, n) == \E m \in DOMAIN all : SameKey(all, m, n) /\ OffTopic(all[m], signals)
GivesWay(all, signals, limits, items, n, least) ==
  \/ Given(all, items, n) \/ Strays(all, signals, n)
  \/ Cardinality(Better(items, least)) = limits.selected
  \/ /\ all[n].supporting
     /\ Cardinality(Supported(all, items) \cap Better(items, least)) = limits.supporting
IsRelevant(all, signals, limits, items) ==
  /\ \A k \in DOMAIN items : ~Foreign(all[items[k].node], signals)
  /\ \A n \in DOMAIN all : all[n].rule = "none" =>
       /\ all[n].ids \cap signals.ids # {} => GivesWay(all, signals, limits, items, n, 230)
       /\ all[n].routes \cap signals.routes # {} => GivesWay(all, signals, limits, items, n, 190)
  /\ \A rule \in signals.rules : OfRule(all, rule) # {} =>
       GivesWay(all, signals, limits, items, Min(OfRule(all, rule)), 2000)
  /\ \A k \in DOMAIN items : items[k].how = "trace" =>
       \/ Given(all, items, items[k].of) \/ Strays(all, signals, items[k].of)
       \/ all[items[k].of].supporting

EvidenceAuthorityLevel(s) ==
  LET says(words) == (s.pathWords \cup s.titleWords) \cap words # {}
      owned == says({"ownership", "owner", "runbook"}) IN
  CASE s.kind \in {"rules", "planning", "contract", "api", "security"} -> "sot"
    [] s.kind = "architecture" \/ says({"adr", "decision"}) -> IF owned THEN "implementation_context" ELSE "decision"
    [] s.kind = "delivery" \/ owned -> "implementation_context"
    [] OTHER -> "design_context"
BuildEvidenceManifest(all, items) ==
  {[source |-> all[items[k].node].source, authority |-> EvidenceAuthorityLevel(all[items[k].node])] : k \in DOMAIN items}
=============================================================================
