--------------------------- MODULE MCReviewPipeline ---------------------------
(* Instances of ReviewPipeline.  Reviews: one policy, every kind of answer and *)
(* finding.  Policies: one plain answer, every kind of document and request.   *)
(* Gates: CI runs.                                                             *)
EXTENDS ReviewPipeline

(***************************************************************************)
(* Changes.                                                                 *)
(***************************************************************************)
File(path, status, patch) == [path |-> path, status |-> status, patch |-> patch]
Api == File("api", "modified", <<Hunk(4), Line("keep"), Line("remove"), Line("add"), Line("add"), Line("keep")>>)
Docs == File("docs", "added", <<Hunk(1), Line("add")>>)
Moved == File("docs", "renamed", <<>>)
Ending == File("api", "modified", <<Hunk(4), Line("keep"), Line("remove"), Line("no newline"), Line("add")>>)
Change(paths) == [paths |-> paths, branches |-> {"main"}, authors |-> {"ann"}, labels |-> {}]

(***************************************************************************)
(* Findings and answers.                                                    *)
(***************************************************************************)
Cite(source) == [source |-> source, named |-> TRUE, quotes |-> TRUE]
Plain == [id |-> "f1", type |-> "finding", strength |-> UNSAID, authority |-> "sot",
          mentions |-> "supporting", severity |-> "high", sure |-> TRUE, vague |-> FALSE,
          path |-> "api", line |-> 5, cites |-> {Cite("spec")}]
Other == [Plain EXCEPT !.id = "f2"]
FindingsToTry ==
  { Other, Plain,
    [Other EXCEPT !.authority = "supporting"], [Other EXCEPT !.authority = UNSAID],
    [Other EXCEPT !.authority = UNSAID, !.mentions = "decision"],
    [Other EXCEPT !.strength = "likely"], [Other EXCEPT !.strength = "confirmed", !.authority = "memory"],
    [Other EXCEPT !.strength = "note"], [Other EXCEPT !.strength = "speculative"],
    [Other EXCEPT !.type = "question", !.strength = UNSAID], [Other EXCEPT !.severity = "grave"],
    [Other EXCEPT !.sure = FALSE], [Other EXCEPT !.vague = TRUE],
    [Other EXCEPT !.path = NOWHERE, !.line = 0], [Other EXCEPT !.line = 0], [Other EXCEPT !.line = 7],
    [Other EXCEPT !.line = 4], [Other EXCEPT !.path = "web"], [Other EXCEPT !.path = "docs", !.line = 9],
    [Other EXCEPT !.id = UNSAID], [Other EXCEPT !.cites = {}], [Other EXCEPT !.cites = {Cite("chat")}],
    [Other EXCEPT !.cites = {[source |-> "spec", named |-> TRUE, quotes |-> FALSE]}],
    [Other EXCEPT !.cites = {Cite("r2")}], [Other EXCEPT !.cites = {Cite("r1")}, !.severity = "low"] }

Names == {"m0", "m1", "m2", "security-review", "gitlab-merge-api", "test-quality-review", "r1", "effective-policy"}
Checks == {"c0", "c1", "c2", "g0", "k0", "k1", "k2", "kr"}
Says(said, checks) == [n \in Names |-> [said |-> said, backed |-> FALSE, checks |-> checks]]
All == Says("covered", Checks)
Piece(form, findings, coverage, requests) ==
  [form |-> form, findings |-> findings, unread |-> {}, coverage |-> coverage, repeated |-> {},
   requests |-> requests, shaped |-> TRUE]
Envelope(findings, coverage, requests) == Piece("envelope", findings, coverage, requests)
Json(findings, coverage, requests) == <<Envelope(findings, coverage, requests)>>
Chatter == Piece("other", <<>>, Nothing, <<>>)
Prose == <<Chatter>>
Look(tool) == [tool |-> tool, ours |-> TRUE]
Looks == <<Look("get_changed_files"), [tool |-> "list_discussions", ours |-> FALSE], Look("get_diff_summary"), Look("shell")>>
Fine == Json(<<Plain>>, All, <<>>)
Unnamed == Json(<<[Plain EXCEPT !.id = UNSAID]>>, All, <<>>)
Ruled == Json(<<[Plain EXCEPT !.cites = {Cite("r1")}]>>, All, <<>>)
Loosely == Json(<<[Plain EXCEPT !.cites = {[Cite("r1") EXCEPT !.named = FALSE]}]>>, All, <<>>)
Quiet == Json(<<>>, All, <<>>)
Curious == Json(<<>>, All, SubSeq(Looks, 1, 3))
Closer == Json(<<>>, All, <<Look("get_selected_context"), Look("get_inline_positions"), Look("get_merge_request")>>)
Pushy == Json(<<Plain>>, All, Looks)
Misshapen == <<[Envelope(<<Plain>>, All, <<Look("get_changed_files")>>) EXCEPT !.shaped = FALSE]>>
Idle == Json(<<>>, Says("skipped", Checks), <<>>)
Partly == Json(<<Plain>>, Says("covered", {"c0"}), <<>>)
Wrapped == <<Chatter, Envelope(<<Plain>>, All, <<>>), Envelope(<<>>, Nothing, <<>>)>>
Musing == <<Chatter, Piece("list", <<>>, Nothing, <<>>)>>   \* an empty list in prose
Loose(unread, requests) == <<[Piece("loose", <<Plain, Other>>, All, requests) EXCEPT !.unread = unread]>>
Covers == <<Chatter, Piece("coverage", <<>>, All, <<>>)>>

(***************************************************************************)
(* Policies.                                                                *)
(***************************************************************************)
Open == [mode |-> "inherit", manual |-> FALSE, classes |-> Classes]
Pack(priority, paths, methods, checks, rules, risk) ==
  [priority |-> priority, match |-> [paths |-> paths], inherits |-> {}, methods |-> methods,
   checks |-> checks, rules |-> rules, risk |-> risk, independent |-> FALSE,
   publication |-> Open, delegation |-> NONE]
Fields == {"methods", "checks", "risk_floor", "independent_review", "publication"}
Delegation == [grantor |-> PROJECT, target |-> {"api"}, fields |-> {}, replaces |-> {"m0", "m1", "c1"},
               maxRisk |-> 2, methods |-> {}, checks |-> {}, expired |-> FALSE]
Document ==
  [defaults |-> [methods |-> {"m0"}, checks |-> {"c0"}, publication |-> "setup_grant"],
   capabilities |-> [allowed |-> {"repo.read", "model.review"}, required |-> {}],
   packs |-> << [Pack(5, {"api"}, {"m1"}, {"c1"}, {}, 2) EXCEPT !.inherits = {3}, !.independent = TRUE],
                [Pack(4, {"api"}, {"m2"}, {}, {}, 1) EXCEPT !.delegation = 1,
                   !.publication = [mode |-> "setup_grant", manual |-> FALSE, classes |-> {"comment"}]],
                [Pack(1, {"docs"}, {}, {}, {"r1"}, 3) EXCEPT !.inherits = {4}],
                [Pack(0, {"web"}, {}, {"c2"}, {}, 0) EXCEPT
                   !.publication = [mode |-> "human_authorized", manual |-> TRUE, classes |-> {"comment", "check"}]] >>,
   delegations |-> <<Delegation>>,
   gate |-> [mode |-> "blocking", coverage |-> {"g0"}, rules |-> {}, severity |-> "high",
             strength |-> "confirmed", baseline |-> "all", context |-> "7review"],
   rules |-> {}, ruleChecks |-> [r \in {"r1", "r2"} |-> {"kr"}],
   triggers |-> [enabled |-> TRUE, updates |-> TRUE, drafts |-> FALSE,
                 exclude |-> [authors |-> {"bot"}], include |-> [labels |-> {}]],
   fits |-> TRUE]
Delegating(d) == [Document EXCEPT !.delegations = <<d>>]
Documents ==
  {Document, [Document EXCEPT !.fits = FALSE],
   [Document EXCEPT !.gate.coverage = {"7review"}], [Document EXCEPT !.packs[4].checks = {}],
   [Document EXCEPT !.packs[4].inherits = {1}], [Document EXCEPT !.packs[3].inherits = {9}],
   [Document EXCEPT !.packs[2].delegation = NONE], [Document EXCEPT !.rules = {"r2"}],
   [Document EXCEPT !.packs[1].rules = {"r9"}], [Document EXCEPT !.packs[1].methods = {"m9"}],
   [Document EXCEPT !.capabilities.allowed = {"repo.read"}],
   [Document EXCEPT !.capabilities.allowed = {"model.review"}],
   [Document EXCEPT !.capabilities.required = {"shell"}, !.capabilities.allowed = @ \cup {"shell"}]}
  \cup {Delegating([Delegation EXCEPT !.fields = {f}]) : f \in Fields}
  \cup {[Delegating([Delegation EXCEPT !.fields = Fields]) EXCEPT !.packs[2].priority = n] : n \in {4, 5, 6}}
  \cup {Delegating(d) : d \in
         {[Delegation EXCEPT !.expired = TRUE], [Delegation EXCEPT !.grantor = {"docs"}, !.target = {"docs"}],
          [Delegation EXCEPT !.fields = {"risk_floor"}, !.maxRisk = 0],
          [Delegation EXCEPT !.fields = {"methods"}, !.methods = {"m1"}],
          [Delegation EXCEPT !.replaces = {}], [Delegation EXCEPT !.grantor = {"api"}, !.target = {"docs"}]}}

(***************************************************************************)
(* Documents of the repository, and what a change says.                     *)
(***************************************************************************)
Text(words) == [level |-> 0, title |-> 0, fence |-> FALSE, leads |-> <<>>, ids |-> {}, routes |-> {},
                       words |-> words, names |-> {}]
Doc(path, words, lines) == [path |-> path, words |-> words, rule |-> "none", text |-> TRUE, form |-> "markdown",
                            lines |-> lines, supporting |-> FALSE]
Srs == Doc("spec", {"planning"}, <<Text({})>>)
Chat == Doc("chat", {"release"}, <<Text({})>>)
R2 == Doc("r2", {"convention"}, <<Text({})>>)
Heading(level, title, ids) == [Text({"title"}) EXCEPT !.level = level, !.title = title, !.ids = ids]
Naming(ids) == [Text({}) EXCEPT !.ids = ids]
R(n) == <<"REQ", n>>
Users == <<"/users">>
Requirements ==   \* chapters 1 and 4 both have a section 3
  Doc("requirements", {"requirement"},
      <<Heading(1, 1, {}), Text({"login"}), Heading(2, 2, {}), Heading(3, 3, {R(1)}), Heading(1, 4, {}),
        [Heading(2, 5, {R(2)}) EXCEPT !.leads = R(2)], Heading(3, 3, {R(3)})>>)
Fenced == Doc("openness", {"adr"}, <<Text({"login"}), Heading(1, 1, {}), [Text({}) EXCEPT !.fence = TRUE],
                                     Heading(2, 2, {R(1)}), [Text({}) EXCEPT !.fence = TRUE], Heading(7, 3, {R(2)})>>)
Interface == [Doc("openapi", {"api", "openapi"}, <<[Naming({R(1)}) EXCEPT !.routes = {Users}],
                                                   [Text({"users"}) EXCEPT !.routes = {Users}]>>) EXCEPT !.form = "api"]
System == [Doc("system", {"architecture", "model"}, <<Heading(1, 1, {R(1)}), Naming({R(2)}), Heading(2, 2, {R(2), R(3)}),
                                                      Heading(2, 3, {R(1)})>>) EXCEPT !.supporting = TRUE]
Calls == Doc("calls", {"design"}, <<Heading(1, 1, {R(1)}), Text({"livekit", "login"}), Heading(2, 2, {R(2)}), Text({"users"})>>)
RulesOf(language) == [Doc(language, {"rule"}, <<Heading(2, 1, {R(1)}), Heading(1, 2, {}), Text({"login"}), Heading(2, 3, {})>>)
                        EXCEPT !.rule = language]
Mentions(place, words) == [place |-> place, ids |-> {}, routes |-> {}, words |-> words, rule |-> "none", code |-> FALSE]

(***************************************************************************)
(* Scenarios.                                                               *)
(***************************************************************************)
Skill(name, checks, tools) ==
  [name |-> name, directory |-> name, described |-> TRUE, instructs |-> TRUE, terms |-> {"login"},
   checks |-> checks, tools |-> tools, topics |-> {}]
Skills == {[Skill("security-review", {"k0"}, {"scm-api"}) EXCEPT !.topics = {"security"}], Skill("gitlab-merge-api", {}, {}),
           Skill("github-merge-api", {}, {"shell"}), [Skill("design-review", {}, {}) EXCEPT !.topics = {"design"}],
           Skill("test-quality-review", {}, {}), Skill("project-wiki", {}, {"shell"})}
Profile == [always |-> {}, providers |-> Nothing, least |-> 0]
Review ==
  [mode |-> "legacy", fork |-> FALSE, doc |-> NONE, change |-> Change({"api"}),
   request |-> [manual |-> FALSE, update |-> FALSE, draft |-> FALSE],
   runtime |-> {"repo.read", "model.review", "scm-api"}, methods |-> [m \in {"m0", "m1", "m2"} |->
     CASE m = "m0" -> {"k0"} [] m = "m1" -> {"k1"} [] m = "m2" -> {"k2"}],
   skills |-> Skills, profile |-> Profile, surfaces |-> {"scm-api"}, files |-> <<Api, Docs>>, parallel |-> FALSE,
   library |-> <<Srs, Chat, R2>>, texts |-> {Mentions("title", {"planning", "release", "convention"})},
   limits |-> [document |-> 9, section |-> 9, baseline |-> 1, selected |-> 24, supporting |-> 3, traced |-> 24, shared |-> 18,
               batch |-> 9, shown |-> 2],
   artifactOnly |-> FALSE, refsKnown |-> TRUE, provider |-> "gitlab",
   answers |-> {Fine}, followUps |-> {Fine}, repairs |-> {Fine}, reports |-> <<>>, signals |-> {}]
Enforced == [Review EXCEPT !.mode = "enforce", !.doc = Document]
Report(check, status) == [check |-> check, status |-> status, verified |-> TRUE]
Gated == [Enforced EXCEPT !.mode = "frozen", !.artifactOnly = TRUE, !.runtime = {"repo.read", "model.review"},
                          !.reports = <<Report("g0", "satisfied")>>]

Answers == {Fine, Idle, Partly, Curious, Pushy, <<>>, Prose, Misshapen, Wrapped, Musing,
            Loose({"line"}, <<>>), Loose({"cites", "sure"}, <<Look("get_changed_files")>>)}
Talks ==
  {[Review EXCEPT !.profile = p, !.provider = host, !.answers = {Idle, Curious, Closer}] : host \in {"github", "gitlab"},
     p \in {[Profile EXCEPT !.always = {"project-wiki"}], [Profile EXCEPT !.always = {"github-merge-api"}],
            [Profile EXCEPT !.providers = [gitlab |-> "project-wiki"]]}}
  \cup
  {[r EXCEPT !.answers = Answers, !.followUps = {Fine, Curious, Prose},
             !.repairs = {Fine, Prose, Curious, Covers, Musing}] : r \in {Review, Enforced}}
  \cup {[Review EXCEPT !.limits.batch = 6, !.parallel = p, !.answers = {Fine, Idle, Pushy, <<>>, Prose},
                       !.followUps = {Fine}] : p \in BOOLEAN}
Sortings ==
  {[r EXCEPT !.answers = {Json(<<Plain, f>>, All, <<>>)}] : r \in {Review, Enforced}, f \in FindingsToTry}
  \cup {[Review EXCEPT !.answers = {Json(<<f>>, All, <<>>)}, !.library = <<>>, !.files = fs,
                       !.refsKnown = known] :
          f \in FindingsToTry, fs \in {<<Api>>, <<Api, Moved>>, <<Moved>>, <<>>}, known \in BOOLEAN}
Policies ==
  {[Review EXCEPT !.doc = d, !.mode = m, !.change = Change(c), !.runtime = r] :
     d \in Documents \cup {NONE}, m \in {"enforce", "preview"},
     c \in {{"api"}, {"docs"}, {"api", "docs"}}, r \in {{"repo.read", "model.review"}, {"repo.read"}}}
  \cup {[Enforced EXCEPT !.doc = [Document EXCEPT !.triggers = t], !.request = q] :
     t \in {Document.triggers, [Document.triggers EXCEPT !.enabled = FALSE],
            [Document.triggers EXCEPT !.exclude = [authors |-> {"ann"}]],
            [Document.triggers EXCEPT !.include = [labels |-> {"go"}], !.updates = FALSE]},
     q \in [manual : BOOLEAN, update : BOOLEAN, draft : BOOLEAN]}
  \cup {[Enforced EXCEPT !.doc = [Document EXCEPT !.capabilities.allowed = {"model.review"}],
                         !.answers = {Curious}]}
Gates ==
  {[Gated EXCEPT !.doc = [Document EXCEPT !.gate = g], !.answers = {a}, !.reports = i] :
     g \in {Document.gate, [Document.gate EXCEPT !.severity = "critical"],
            [Document.gate EXCEPT !.rules = {"r1"}], [Document.gate EXCEPT !.baseline = "changed"],
            [Document.gate EXCEPT !.coverage = {"g0", "k0"}]},
     a \in {Fine, Quiet, Partly, Idle},
     i \in {<<>>, <<Report("g0", "violated")>>} \cup
           {<<Report("g0", status), Report("k0", status)>> : status \in {"pending", "satisfied"}}}
  \cup {[Gated EXCEPT !.doc = [Document EXCEPT !.gate.rules = rules], !.answers = {a}] :
     rules \in {{}, {"r1"}, {"r2"}}, a \in {Ruled, Loosely, Unnamed, Fine}}
  \cup {[Gated EXCEPT !.limits.batch = 6, !.answers = {Quiet, Partly, Idle}]}
  \cup {[Gated EXCEPT !.fork = f, !.reports = @ \o u, !.answers = {Quiet}, !.doc = d] :
     f \in BOOLEAN, d \in {NONE, Document},
     u \in {<<>>, <<Report("g0", "violated")>>, <<[Report("k0", "satisfied") EXCEPT !.verified = FALSE]>>}}
  \cup {[Gated EXCEPT !.answers = {Quiet}, !.signals =
          {[key |-> "s1", rule |-> "lint", severity |-> s, strength |-> "confirmed", changed |-> TRUE]}] :
     s \in {"low", "high"}}
Asking(ids, routes) == [Mentions("title", {"login"}) EXCEPT !.ids = ids, !.routes = routes]
Touching(language) == [Mentions("path", {"users"}) EXCEPT !.rule = language, !.code = language # "none"]
Selections ==
  {[Review EXCEPT !.library = l, !.texts = {Asking(ids, {Users}), Touching(language)}, 
                  !.profile.least = 1, !.files = <<>>, !.limits.selected = n, !.limits.supporting = c, !.limits.traced = 8] :
     l \in {<<Calls, RulesOf("go"), RulesOf("java"), Requirements>>, <<Fenced, Interface, Requirements, System>>,
           <<RulesOf("go"), Interface, System>>, <<Calls, Interface, System>>},
     ids \in {{}, {R(1)}, {R(1), R(2)}}, language \in {"none", "go"}, n \in {2, 4, 24}, c \in {1, 2}}
Everything == Selections \cup Talks \cup Sortings \cup Policies \cup Gates

\* A file that did not end in a newline, whose last line is changed.
LastLine == {[Review EXCEPT !.files = <<Ending>>, !.answers =
  {Json(<<[Plain EXCEPT !.path = NOWHERE, !.line = 0]>>, All, <<>>)}]}

\* A request of the wrong type beside findings that can be read one by one.
Planned == {[Review EXCEPT !.answers = {Loose({}, <<Look("get_changed_files")>>)}]}
=============================================================================
