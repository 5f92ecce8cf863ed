------------------------------ MODULE Validator ------------------------------
(* validator/validate.py, policy.py, registry.py: what is wrong with a document. *)
(* A failure is <<bucket, reason, where>>; the code's list of them is a set here. *)
EXTENDS IRGraph

CONSTANT Granted   \* the handles of the registry that the scope may use

Fail(bucket, reason, where) == <<bucket, reason, where>>
When(P, failure) == IF P THEN {failure} ELSE {}

-----------------------------------------------------------------------------
(* Graph structure. *)

\* The edges of the document and those of its top-level nodes.
Added(d) == ToSet(d.edges) \cup
            UNION {{Edge(d.nodes[i].id, x, TRUE) : x \in Targets(d.nodes[i])} : i \in TopAt(d)}

\* Mutant: an edge without data is not followed.
DataOnly(d) ==
    [x \in TopIds(d) |-> {e.to : e \in {f \in Added(d) : f.from = x /\ f.data}} \cap TopIds(d)]

\* forward and data_parents: edges with an unknown end are left out.
Forward(d) == [x \in TopIds(d) |-> {e.to : e \in {f \in Added(d) : f.from = x}} \cap TopIds(d)]
\* Mutant: what an edge without data leads to counts as a parent too.
AllParents(d) == [x \in TopIds(d) |-> {e.from : e \in {f \in Added(d) : f.to = x}} \cap TopIds(d)]

DataParents(d) ==
    [x \in TopIds(d) |-> {e.from : e \in {f \in Added(d) : f.to = x /\ f.data}} \cap TopIds(d)]

\* The nodes that S leads to: with every round the nodes one edge further.
Reached(next, S) ==
    LET within[k \in 0 .. Cardinality(DOMAIN next)] ==
            IF k = 0 THEN S
            ELSE LET before == within[k - 1] IN before \cup UNION {next[x] : x \in before \cap DOMAIN next}
    IN  within[Cardinality(DOMAIN next)]

\* What a function of an element and a result makes of S, one element after the other.
Folded(f, c, S) == FoldSet(LAMBDA x, s : f[x][s], c, S)

\* Depth-first search with three colours; a set is walked in one order or another.  Gray
\* are the nodes on the way to u, and u; the rest of what the search has found is c.
Found(next) == [black : SUBSET DOMAIN next, cycle : BOOLEAN]
Walk(next, gray, deeper, u, c) ==
    LET into[v \in DOMAIN next] ==
            [s \in Found(next) |-> IF v \in gray THEN [s EXCEPT !.cycle = TRUE]
                                   ELSE IF v \in s.black THEN s
                                   ELSE deeper[v][s]]
    IN  [Folded(into, c, next[u]) EXCEPT !.black = @ \cup {u}]

Dfs(next) ==
    LET dfs[gray \in SUBSET DOMAIN next] ==
            [u \in DOMAIN next \ gray |->
                [c \in Found(next) |-> Walk(next, gray \cup {u}, dfs[gray \cup {u}], u, c)]]
    IN  dfs[{}]

HasCycle(next) ==
    LET from[u \in DOMAIN next] ==
            [s \in Found(next) |-> IF u \in s.black THEN s ELSE Dfs(next)[u][s]]
    IN  Folded(from, [black |-> {}, cycle |-> FALSE], DOMAIN next).cycle

\* The ancestors of n and the memo so far, which has None for a node that was not visited.
\* On a cycle the guard cuts the search, and the memo keeps what was found up to there.
Memos(parents) == [DOMAIN parents -> (SUBSET DOMAIN parents) \cup {None}]
Visited(parents, deeper, n, memo) ==
    LET Sofar == [found : SUBSET DOMAIN parents, memo : Memos(parents)]
        add[p \in DOMAIN parents] ==
            [a \in Sofar |-> LET v == deeper[p][a.memo]
                             IN  [found |-> a.found \cup {p} \cup v.found, memo |-> v.memo]]
        end == Folded(add, [found |-> {}, memo |-> memo], parents[n])
    IN  [end EXCEPT !.memo[n] = end.found]

Visit(parents) ==
    LET visit[path \in SUBSET DOMAIN parents] ==
            [n \in DOMAIN parents |->
                [memo \in Memos(parents) |->
                    IF memo[n] # None THEN [found |-> memo[n], memo |-> memo]
                    ELSE IF n \in path THEN [found |-> {}, memo |-> memo]
                    ELSE Visited(parents, visit[path \cup {n}], n, memo)]]
    IN  visit[{}]

Ancestors(d) ==
    LET parents == DataParents(d)
        from[n \in DOMAIN parents] == [memo \in Memos(parents) |-> Visit(parents)[n][memo].memo]
    IN  Folded(from, [x \in DOMAIN parents |-> None], DOMAIN parents)

Triggers(d) == {i \in DOMAIN d.nodes : d.nodes[i].kind = "trigger"}

CheckGraph(d) ==
    (UNION {When(\E j \in 1 .. (i - 1) : d.nodes[j].id = d.nodes[i].id,
                 Fail("reference", "duplicate node id", d.nodes[i].id)) : i \in DOMAIN d.nodes})
    \cup When(Cardinality(Triggers(d)) # 1, Fail("reference", "one trigger", None))
    \cup When(\A n \in ToSet(d.nodes) : n.kind # "output", Fail("reference", "no output", None))
    \cup {Fail("reference", "unknown node", e) :
             e \in {f \in Added(d) : ~({f.from, f.to} \subseteq TopIds(d))}}
    \cup (IF Cardinality(Triggers(d)) # 1 THEN {}
          ELSE LET trigger == {d.nodes[i].id : i \in Triggers(d)}
               IN  {Fail("reference", "not reachable", x) :
                       x \in TopIds(d) \ Reached(Forward(d), trigger)}
                   \cup When(HasCycle(Forward(d)), Fail("reference", "cycle", None)))

-----------------------------------------------------------------------------
(* References: who may be named where, and whether the field exists. *)

\* The text fields that are searched for references.
Scanned == [llm |-> {"prompt", "system_prompt"}, retrieval |-> {"query"},
            http |-> {"url", "idempotency_key", "body"}, code |-> {"idempotency_key", "inputs"},
            agent |-> {"system_prompt", "inputs"}, loop |-> {"over", "collect"},
            output |-> {"bindings"}, trigger |-> {}, condition |-> {}, parallel |-> {}]

\* The nodes of the same body or branch.
Siblings(d, i) == {d.nodes[j].id : j \in {k \in DOMAIN d.nodes :
                      d.nodes[k].in = d.nodes[i].in /\ d.nodes[k].arm = d.nodes[i].arm}}
Body(d, i) == {d.nodes[j].id : j \in {k \in DOMAIN d.nodes : d.nodes[k].in = i}}

\* The producers legal at a node, and the loop variables visible there.
Scopes(d) ==
    LET ancestors == Ancestors(d)
        scope[i \in DOMAIN d.nodes] ==
            LET n == d.nodes[i]
                outer == IF n.in = 0 THEN [ids |-> {}, vars |-> {}]
                         ELSE LET o == d.nodes[n.in] IN
                              [ids |-> scope[n.in].ids \cup {o.id},
                               vars |-> scope[n.in].vars \cup ({o.as} \ {None})]
            IN  [ids |-> IF n.id \in TopIds(d) THEN ancestors[n.id]
                         ELSE outer.ids \cup (Siblings(d, i) \ {n.id}),
                 vars |-> outer.vars]
    IN  scope

\* The scope of a field: `collect` is evaluated after the loop's body.
ScopeOf(d, scopes, i, field) ==
    IF field = "collect"
    THEN [ids |-> scopes[i].ids \cup {d.nodes[i].id} \cup Body(d, i),
          vars |-> scopes[i].vars \cup {d.nodes[i].as}]
    ELSE scopes[i]

\* The fields a reference may ask of a node; none: any.
OutputFields(n) == IF n.kind = "retrieval" THEN {"chunks"}
                   ELSE IF n.kind \in {"llm", "code", "agent"} THEN n.fields ELSE {}

RefFailures(d, scope, n, r) ==
    IF r.to = "input" THEN When(r.path \notin d.inputs, Fail("reference", "undeclared input", n.id))
    ELSE IF r.to \in scope.vars THEN {}
    ELSE IF r.to \notin scope.ids THEN {Fail("reference", "not upstream", n.id)}
    ELSE LET has == OutputFields(NodeOf(d, r.to))
         IN  When(has # {} /\ r.path \notin has, Fail("type_flow", "no such field", n.id))

CheckReferences(d) ==
    LET scopes == Scopes(d)
        OfField(n, f) == {r \in ToSet(n.refs) : r.field = f}
        OfText(i, f) ==
            LET n == d.nodes[i]
                refs == OfField(n, f)
                scope == ScopeOf(d, scopes, At(d, n.id), f)
            IN  IF \E r \in refs : r.form = "broken"
                THEN {Fail("reference", "syntax", n.id)}
                ELSE UNION {RefFailures(d, scope, n, r) : r \in {s \in refs : s.form # "escaped"}}
    IN  UNION {UNION {OfText(i, f) : f \in Scanned[d.nodes[i].kind]} : i \in DOMAIN d.nodes}

CheckParallelMerges(d) ==
    {Fail("type_flow", "merge", n.id) :
        n \in {m \in ToSet(d.nodes) : m.kind = "parallel" /\ "clash" \in m.marks}}

-----------------------------------------------------------------------------
(* Registry and policy. *)

\* A dataset or a credential must be granted, and then declared; a credentialed url is
\* looked at once its credential is found.
Declared(d, n) == CASE n.kind = "retrieval" -> d.datasets [] n.kind = "http" -> d.credentials
                    [] OTHER -> Granted
CheckRegistry(d) ==
    When(~d.pinned, Fail("policy", "registry version", None))
    \cup UNION {
        {Fail("policy", "not granted", n.id) : h \in n.uses \ Granted}
        \cup {Fail("policy", "not declared", n.id) : h \in (n.uses \cap Granted) \ Declared(d, n)}
        \cup When(n.kind = "http" /\ n.uses \cap Granted # {} /\ "exposed" \in n.marks,
                  Fail("policy", "credentialed url", n.id))
        : n \in {m \in ToSet(d.nodes) : m.kind \in {"retrieval", "http", "agent"}}}

\* What comes from outside may stand in a prompt only inside an <untrusted> block.
Untrusted(d) == {"input"} \cup {n.id : n \in {m \in ToSet(d.nodes) : m.kind \in {"retrieval", "http"}}}
CheckTrustBoundaries(d) ==
    {Fail("policy", "untrusted", n.id) :
        n \in {m \in ToSet(d.nodes) :
                   /\ m.kind \in {"llm", "agent"}
                   /\ \E r \in ToSet(m.refs) : /\ r.field \in {"prompt", "system_prompt"}
                                               /\ r.to \in Untrusted(d)
                                               /\ r.form \in {"exact", "spliced", "escaped"}}}

CheckNode(d, n) ==
    {Fail("policy", m, n.id) :
        m \in n.marks \cap ({"slow"} \cup (IF n.kind = "code" THEN {"unsafe"} ELSE {})
                                     \cup (IF n.kind = "agent" THEN {"greedy"} ELSE {}))}
    \cup When("default_retry" \in DOMAIN d.policy /\ "retry" \in DOMAIN n.set
                  /\ n.set.retry.max_attempts > d.policy.default_retry,
              Fail("policy", "retry", n.id))
    \cup When(n.kind = "http" /\ "writes" \in n.marks /\ "key" \notin n.marks,
              Fail("policy", "no idempotency key", n.id))
    \cup When(n.kind = "code" /\ "retry" \in DOMAIN n.set /\ "key" \notin n.marks,
              Fail("policy", "no idempotency key", n.id))
    \cup When(n.kind = "agent" /\ "falls_back" \in n.marks /\ n.fallback \notin NodeIds(d),
              Fail("policy", "no fallback", n.id))
    \cup When(n.kind = "agent" /\ ~(n.uses \subseteq d.tools), Fail("policy", "tools", n.id))

CheckPolicy(d) == (UNION {CheckNode(d, n) : n \in ToSet(d.nodes)})
                  \cup {Fail("policy", p, None) : p \in {q \in DOMAIN d.policy : d.policy[q] = 0}}
                  \cup CheckTrustBoundaries(d)

-----------------------------------------------------------------------------
(* The schema and the models come first, the rest only if they accept. *)
Validate(d) ==
    IF ~d.schema THEN {Fail("schema", "schema", None)}
    ELSE CheckGraph(d) \cup CheckReferences(d) \cup CheckParallelMerges(d)
         \cup CheckRegistry(d) \cup CheckPolicy(d)

-----------------------------------------------------------------------------
(* What an accepted document is promised to be, by the closure of its relations *)
(* instead of searches.                                                         *)

Ways(edges) == LeadsTo({<<e.from, e.to>> : e \in edges})

\* The top-level node that node i is part of, and the loop variables around it.
Outermost(d) == LET top[i \in DOMAIN d.nodes] == IF d.nodes[i].in = 0 THEN i ELSE top[d.nodes[i].in]
                IN  top
Around(d) == LET a[i \in DOMAIN d.nodes] == IF d.nodes[i].in = 0 THEN {i} ELSE {i} \cup a[d.nodes[i].in]
             IN  a

\* When node i runs, the producer of the reference has run or is running around it; `input`
\* names the inputs of the document, whatever else has that name.
Supplied(d, flows, i, r) ==
    IF r.to = "input" THEN r.path \in d.inputs
    ELSE \/ \E j \in Around(d)[i] : r.to = d.nodes[j].as /\ (j # i \/ r.field = "collect")
         \/ r.to \in TopIds(d) /\ <<r.to, d.nodes[Outermost(d)[i]].id>> \in flows
         \/ \E j \in Around(d)[i] :
                \/ r.to = d.nodes[j].id /\ (j # i \/ r.field = "collect")
                \/ d.nodes[j].in # 0 /\ r.to \in Siblings(d, j) \ {d.nodes[i].id}
         \/ r.field = "collect" /\ r.to \in Body(d, i)

\* The nodes refused for a reference, in a document with a sound graph, and those with
\* a reference nothing supplies.
RefusedForReferences(d) ==
    IF d.schema /\ CheckGraph(d) = {}
    THEN {f[3] : f \in {g \in CheckReferences(d) : g[2] \in {"undeclared input", "not upstream"}}}
    ELSE {}
Unsupplied(d, id) ==
    LET flows == Ways({e \in Added(d) : e.data})
    IN  \E r \in ToSet(NodeOf(d, id).refs) : ~Supplied(d, flows, At(d, id), r)

WellFormed(d) ==
    LET leads == Ways(Added(d))
        flows == Ways({e \in Added(d) : e.data})
    IN  /\ \E t \in Triggers(d) :
               /\ Triggers(d) = {t}
               /\ \A x \in TopIds(d) \ {d.nodes[t].id} : <<d.nodes[t].id, x>> \in leads
        /\ \A x \in TopIds(d) : <<x, x>> \notin leads
        /\ \A e \in Added(d) : {e.from, e.to} \subseteq TopIds(d)
        /\ \A i \in DOMAIN d.nodes : \A r \in ToSet(d.nodes[i].refs) :
               r.field \in Scanned[d.nodes[i].kind] /\ r.form # "escaped" => Supplied(d, flows, i, r)
=============================================================================
