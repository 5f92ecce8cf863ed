------------------------------ MODULE MCDelivery ------------------------------
EXTENDS Delivery

CONSTANTS p1, p2

N(id, kind, refs) == [Bare(id, kind) EXCEPT !.refs = refs]
Trigger == N("t", "trigger", <<>>)
LLM(id, refs) == [N(id, "llm", refs) EXCEPT !.model = "m", !.fields = {"x"}]
Retrieval == [N("r", "retrieval", <<Ref("query", "input", "query", "exact")>>) EXCEPT !.uses = {"kb"}]
Out(id, to) == N(id, "output", <<Ref("bindings", to, "x", "exact")>>)
Flow(pairs) == [k \in DOMAIN pairs |-> Edge(pairs[k][1], pairs[k][2], TRUE)]
Asks == Ref("prompt", "input", "query", "wrapped")

\* The survey: every choice of edges, with data or without, among a trigger, two models
\* one of which reads the other, and an output that reads both; with a way back.
Pairs == <<<<"t", "a">>, <<"t", "b">>, <<"a", "b">>, <<"b", "a">>, <<"a", "o">>, <<"b", "o">>>>
Readers == <<Trigger, LLM("a", <<Asks>>), LLM("b", <<Ref("prompt", "a", "x", "spliced")>>),
             N("o", "output", <<Ref("bindings", "a", "x", "exact"),
                                Ref("bindings", "b", "x", "exact")>>)>>
Chosen(c) == SelectSeq([k \in DOMAIN Pairs |-> <<c[k], Edge(Pairs[k][1], Pairs[k][2], c[k] = "data")>>],
                       LAMBDA e : e[1] # "none")
Survey == {Document(Readers, [k \in DOMAIN Chosen(c) |-> Chosen(c)[k][2]])
             : c \in [DOMAIN Pairs -> {"none", "control", "data"}]}

\* A document with one node between the trigger and the output, nodes inside it, and all
\* of its ways to be refused.
Between(n, inner) == Document(<<Trigger, n>> \o inner \o <<Out("o", "n")>>,
                              Flow(<<<<"t", "n">>, <<"n", "o">>>>))
Middle == [llm |-> LLM("n", <<Asks>>), agent |-> [LLM("n", <<>>) EXCEPT !.kind = "agent", !.uses = {"tool"}],
           http |-> [N("n", "http", <<>>) EXCEPT !.uses = {"cred"}], code |-> N("n", "code", <<>>),
           parallel |-> N("n", "parallel", <<>>)]
Marked == {[Between([Middle[k] EXCEPT !.marks = m], <<>>)
               EXCEPT !.tools = u \cap {"tool"}, !.credentials = u \cap {"cred"}] :
             <<k, m, u>> \in {<<"llm", {}, {}>>, <<"llm", {"slow"}, {}>>, <<"code", {"unsafe"}, {}>>,
                 <<"agent", {"greedy"}, {"tool"}>>,
                 <<"agent", {"falls_back"}, {"tool"}>>, <<"agent", {}, {}>>, <<"http", {"writes"}, {"cred"}>>,
                 <<"http", {"writes", "key"}, {"cred"}>>, <<"http", {"exposed"}, {}>>,
                 <<"parallel", {"clash"}, {}>>, <<"parallel", {}, {}>>}}
Tries(n) == [max_attempts |-> n, backoff |-> "linear"]
Retried == {[Between([Middle.code EXCEPT !.marks = m, !.set = [retry |-> Tries(n)]], <<>>)
                EXCEPT !.policy = [default_retry |-> 3]] : m \in {{}, {"key"}}, n \in {3, 4}}
Inner(id, refs) == [LLM(id, refs) EXCEPT !.in = 2]
Loop(collect) == [N("n", "loop", <<Ref("over", "input", "query", "exact"), collect>>) EXCEPT !.as = "it"]
Nested == {Between(Loop(Ref("collect", c, "x", "exact")),
                   <<Inner("i", <<Ref("prompt", r, "x", "spliced")>>), Inner("j", <<>>)>>)
             : c \in {"i", "it", "o"}, r \in {"it", "j", "n", "t", "o"}}
Spoilt == LET d == Between(LLM("n", <<Asks>>), <<>>)
            IN  {[d EXCEPT !.schema = FALSE], [d EXCEPT !.pinned = FALSE], [d EXCEPT !.policy = [audit |-> 0]],
                 [d EXCEPT !.inputs = {}], [d EXCEPT !.nodes[2].refs[1].form = "spliced"],
                 [d EXCEPT !.nodes[2].refs[1].form = "broken"], [d EXCEPT !.nodes[3].id = "n"],
                 [d EXCEPT !.nodes[3].refs[1].path = "y"], [d EXCEPT !.nodes[3].kind = "code"],
                 [d EXCEPT !.nodes[2].kind = "trigger"]}

-----------------------------------------------------------------------------
\* Documents that are pushed.
Answer == [Document(<<Trigger, Retrieval, LLM("a", <<Ref("prompt", "r", "chunks", "wrapped")>>), Out("o", "a")>>,
                    Flow(<<<<"t", "r">>, <<"r", "a">>, <<"a", "o">>>>)) EXCEPT !.datasets = {"kb"}]
Route(edges) ==
    Document(<<Trigger, [N("c", "condition", <<>>) EXCEPT !.next = <<"k", "a">>, !.rules = <<1, 2>>, !.default = "p"],
               N("k", "code", <<>>), LLM("a", <<>>), Out("o", "k"), Out("p", "a")>>, Flow(edges))
Routed == Route(<<<<"t", "c">>, <<"c", "k">>, <<"c", "a">>, <<"k", "o">>, <<"a", "p">>>>)
Branching == Route(<<<<"t", "c">>, <<"k", "o">>, <<"a", "p">>>>)
Twice == Document(<<Trigger, LLM("a", <<>>), Out("o", "a"), Out("p", "t")>>,
                  Flow(<<<<"t", "a">>, <<"a", "o">>, <<"t", "p">>>>))
Simple == Document(<<Trigger, LLM("a", <<Asks>>), Out("o", "a")>>, Flow(<<<<"t", "a">>, <<"a", "o">>>>))
ByHand ==
    {Simple, [Simple EXCEPT !.schema = FALSE], [Simple EXCEPT !.nodes[2].kind = "trigger"],
     [Simple EXCEPT !.nodes[3].refs[1].form = "spliced"], [Simple EXCEPT !.edges[2].to = "a"],
     [Simple EXCEPT !.edges[2].to = "z"], [Simple EXCEPT !.edges[1].from = "z"],
     [Simple EXCEPT !.edges = Append(@, Edge("y", "z", TRUE))],
     [Simple EXCEPT !.nodes[3].refs[1].to = "z"], [Simple EXCEPT !.nodes[3].kind = "http"],
     [Simple EXCEPT !.nodes[2].kind = "code", !.nodes[2].marks = {"unlintable"}],
     Answer, Routed, Branching, Twice, Between(Loop(Ref("collect", "i", "x", "exact")), <<Inner("i", <<>>)>>)}

-----------------------------------------------------------------------------
Setting(runs, mode, models, data, offers) ==
    [pushers |-> runs, mode |-> mode, models |-> models, datasets |-> data,
     hasModel |-> "model" \in offers, hasDataset |-> "dataset" \in offers]
Chatflow == Setting({p1, p2}, "chatflow", {}, {}, {"model", "dataset"})
Bindings == {Setting({p1, p2}, "chatflow", {"m"}, {}, {"dataset"}), Setting({p1, p2}, "chatflow", {}, {"kb"}, {}),
             Setting({p1, p2}, "chatflow", {}, {}, {"model"}), Setting({p1, p2}, "single", {}, {}, {"model", "dataset"})}

Still == [messages |-> {}, drafts |-> {}]
Said(answers, runs) == [menu |-> answers, file |-> None, asks |-> Still, ir |-> None,
                        setting |-> [Chatflow EXCEPT !.pushers = runs]]
Written(d, s) == [menu |-> {}, file |-> d, asks |-> Still, ir |-> None, setting |-> s]

-----------------------------------------------------------------------------
\* Sessions: a workflow with one node of a type, one with several and names in capitals, and
\* one that branches; and what is asked of them.
Asked(node, value) == [node |-> node, value |-> value]
Faq == [Answer EXCEPT !.nodes[1].set = [mode |-> "schedule", schedule |-> "daily"]]
Capital == [Retrieval EXCEPT !.id = "R"]
Attempts(n) == [max_attempts |-> n, retry_on |-> {}]
Mixed == [Document(<<Trigger, Retrieval, Capital, [LLM("a", <<>>) EXCEPT !.set = [retry |-> Tries(3)]],
                     N("k", "code", <<>>), Out("o", "a")>>,
                   Flow(<<<<"t", "r">>, <<"r", "R">>, <<"R", "a">>, <<"a", "k">>, <<"k", "o">>>>))
            EXCEPT !.datasets = {"kb"}, !.policy = [default_retry |-> 3]]
Sometimes == [Routed EXCEPT !.edges[4].when = 1]
Within == Between([Loop(Ref("collect", "i", "x", "exact")) EXCEPT !.id = "n"], <<Inner("i", <<>>)>>)

FaqAsks == {[trigger |-> Asked(None, "webhook")], [top_k |-> Asked("r", 5)], [top_k |-> Asked("kb", 9)],
            [top_k |-> Asked("a", 9)], [top_k |-> Asked("r", 9), retry |-> Asked("r", Attempts(2))],
            [temperature |-> Asked("a", 1)], [temperature |-> Asked("a", 3)], [disclaimer |-> Asked("a", "advice")],
            [review |-> Asked("a", "ops")], [review |-> Asked("r", "ops")],
            [review |-> Asked("t", "ops"), trigger |-> Asked(None, "manual")],
            [retry |-> Asked("manual_review_after_a", Attempts(2))],
            [disclaimer |-> Asked("manual_review_after_a", "advice")]}
MixedAsks == {[top_k |-> Asked("R", 9)], [top_k |-> Asked("x", 9)], [retry |-> Asked("r", Attempts(4))],
              [retry |-> Asked("r", Attempts(3))], [retry |-> Asked("r", Attempts(2))],
              [retry |-> Asked("a", Attempts(2))], [retry |-> Asked("k", Attempts(2))],
              [retry |-> Asked("o", Attempts(11))], [retry |-> Asked("o", Attempts(2))],
              [disclaimer |-> Asked("R", "advice")], [disclaimer |-> Asked("x", "advice")], [x \in {} |-> None],
              [review |-> Asked("R", "ops")], [temperature |-> Asked("i", 2)]}
RoutedAsks == {[review |-> Asked("c", "ops")], [review |-> Asked("k", "ops")], [review |-> Asked("a", "cs")],
               [review |-> Asked("x", "ops")]}
Asking(d, messages, runs) ==
    [menu |-> {}, file |-> None, asks |-> [messages |-> messages, drafts |-> {}], ir |-> d,
     setting |-> [Chatflow EXCEPT !.pushers = runs]]

-----------------------------------------------------------------------------
\* Drafts that differ in one thing or two, planned one after the other.
Agent(id, refs) == [N(id, "agent", refs) EXCEPT !.model = "m", !.uses = {"tool"}, !.set = [budget |-> 2]]
Call1 == [N("h", "http", <<>>) EXCEPT !.uses = {"cred"}]
Draft0 ==
    [Document(<<Trigger, [N("c", "condition", <<>>) EXCEPT !.next = <<"h", "g">>, !.rules = <<1, 2>>],
                Call1, Agent("g", <<>>),
                [N("n", "loop", <<>>) EXCEPT !.as = "it"], [Agent("i", <<>>) EXCEPT !.in = 5],
                [LLM("j", <<>>) EXCEPT !.in = 5], Out("o", "n")>>,
              Flow(<<<<"t", "c">>, <<"c", "h">>, <<"c", "g">>, <<"h", "n">>, <<"g", "n">>, <<"n", "o">>>>))
       EXCEPT !.credentials = {"cred"}, !.tools = {"tool"}, !.policy = [guardrails |-> 1, agent_budget |-> 5]]
Drafts ==
    {Draft0, [Draft0 EXCEPT !.nodes[3].uses = {}], [Draft0 EXCEPT !.nodes[4].set.budget = 1],
     [Draft0 EXCEPT !.nodes[4].set.budget = 3, !.nodes[4].uses = {"tool", "tool2"}, !.tools = {"tool", "tool2"}],
     [Draft0 EXCEPT !.nodes[2].next = <<"g", "h">>], [Draft0 EXCEPT !.nodes[2].rules = <<2, 1>>],
     [Draft0 EXCEPT !.nodes[2].default = "g"], [Draft0 EXCEPT !.policy = [agent_budget |-> 5], !.version = "0.3"],
     [Draft0 EXCEPT !.edges[2].data = FALSE],
     [Draft0 EXCEPT !.edges[3].when = 1], [Draft0 EXCEPT !.policy = [agent_budget |-> 5]],
     [Draft0 EXCEPT !.policy.agent_budget = 9, !.metadata = "x"],
     [Draft0 EXCEPT !.policy = [audit |-> 1] @@ @, !.inputs = {"query", "file"}],
     [Draft0 EXCEPT !.credentials = {"cred", "cred2"}, !.nodes[3].marks = {"slow"}],
     [Draft0 EXCEPT !.credentials = {"cred", "cred2"}, !.nodes[3].uses = {"cred2"}],
     [Draft0 EXCEPT !.nodes[6].set.budget = 4],
     [Draft0 EXCEPT !.nodes[6] = Draft0.nodes[7], !.nodes[7] = Draft0.nodes[6]],
     [Draft0 EXCEPT !.nodes[5] = N("n", "parallel", <<>>), !.nodes[6].arm = "left", !.nodes[7].arm = "right"],
     [Draft0 EXCEPT !.nodes[5] = [N("n", "llm", <<>>) EXCEPT !.model = "m"],
                    !.nodes = SelectSeq(@, LAMBDA n : n.in = 0)],
     [Draft0 EXCEPT !.nodes = SelectSeq(@, LAMBDA n : n.id # "j"), !.outputs = {"answer"}],
     [Draft0 EXCEPT !.edges = Append(@, [Edge("c", "h", TRUE) EXCEPT !.when = 1])]}
Drafting(b, a) == [Said({}, {}) EXCEPT !.asks = [messages |-> {}, drafts |-> {b, a}]]

-----------------------------------------------------------------------------
Planned == {Answer, Twice, [Answer EXCEPT !.pinned = FALSE]}
Surveyed == Survey \cup Marked \cup Retried \cup Nested \cup Spoilt
MCScenarios == {Said({d}, {}) : d \in Surveyed} \cup {Said({NotJson, NoObject} \cup Planned, {p1, p2})}
               \cup {Written(d, Chatflow) : d \in ByHand} \cup {Written(Answer, s) : s \in Bindings}
               \cup {Asking(Faq, FaqAsks, {}), Asking(Mixed, MixedAsks, {}), Asking(Within, MixedAsks, {}),
                     Asking(Sometimes, RoutedAsks, {}), Asking(Routed, RoutedAsks, {})}
               \cup {Asking(Faq, {[top_k |-> Asked("r", 9)], [review |-> Asked("a", "ops")]}, {p1})}
               \cup {Drafting(b, a) : b, a \in Drafts}
MCSettings == {s.setting : s \in MCScenarios}
MCLowerCase == [R |-> "r"]
=============================================================================
