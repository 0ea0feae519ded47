------------------------------ MODULE Knowledge ------------------------------
(***************************************************************************)
(* The knowledge cache: the pages of one Houdini are parsed into entities, *)
(* aliases and references (eee_agent/knowledge/parse_*.py), linked into a  *)
(* graph against the operators that Houdini really has (graph.py), written *)
(* to a database of their own and moved into place (writer.py, build.py),  *)
(* and read through KnowledgeService (service.py, store.py) by the         *)
(* Runtime's facade (runtime/knowledge.py), whose status is what it found  *)
(* when it last looked.                                                    *)
(*                                                                         *)
(* An alias is a sequence: <<"box">> is the operator box, <<"box", "1.0">> *)
(* is box::1.0, and the file names keep their separators.  Bodies,         *)
(* sections, tags, the full-text index and the casefolded names of HOM     *)
(* pages are left out; what a method's text refers to counts as its        *)
(* class's.                                                                *)
(***************************************************************************)
EXTENDS Naturals, Sequences, SequencesExt

CONSTANTS
    Corpora,   \* [pages, inventory]: what a build may find, in the order it reads it
    None

VARIABLES
    busy,     \* who holds the build lock, "runtime" or "other", or None
    source,   \* what that build works on
    todo,     \* the pages it has still to parse
    draft,    \* what it has made so far
    cache,    \* the graph in the cache file, or None
    due,      \* is the Runtime's own build over, its refresh not yet
    ready     \* the facade's status: ready

knowledge == <<busy, source, todo, draft, cache, due, ready>>

Nothing == [entities |-> {}, aliases |-> {}, edges |-> {}]
Hom == {"hom_class", "hom_function", "hom_module", "hom_package", "hom_method"}
HomPages == Hom \ {"hom_method"}
Kinds == {"node", "vex", "skill"} \cup Hom

KnowledgeInit ==
    /\ busy = None /\ source = None /\ todo = <<>> /\ draft = Nothing /\ cache = None
    /\ due = FALSE /\ ready = FALSE

-----------------------------------------------------------------------------
(* Parsing *)

Alias(s, id, type, priority) == [alias |-> s, of |-> id, type |-> type, priority |-> priority]
Edges(id, refs) ==
    {[from |-> id, predicate |-> r.predicate, kind |-> r.kind, raw |-> r.target, to |-> None] :
        r \in refs}

\* _operator
Operator(name, version) == IF version = None THEN <<name>> ELSE <<name, version>>
\* _basename_stem, read backwards: box, box-1.0, or box- for a legacy page
Stem(p) ==
    CASE p.version = "current" -> <<p.name>>
      [] p.version = "legacy" -> <<p.name, "-">>
      [] OTHER -> <<p.name, "-", p.version>>
\* The version of a file name wins over the one the page documents
EffectiveVersion(p) == IF p.version \in {"current", "legacy"} THEN p.documented ELSE p.version
CandidateForms(p) ==
    IF EffectiveVersion(p) = None THEN <<Operator(p.name, None)>>
    ELSE <<Operator(p.name, EffectiveVersion(p)), Operator(p.name, None)>>

ParseNode(p) ==
    LET id == <<"node", Stem(p)>>
        internal == IF p.internal = None THEN <<>> ELSE <<p.internal>>
    IN [entities |-> {[id |-> id, kind |-> "node", name |-> p.name, version |-> p.version,
                       current |-> p.version = "current", stem |-> Stem(p),
                       candidates |-> CandidateForms(p) \o internal]},
        aliases |-> {Alias(f, id, "operator", 100) : f \in ToSet(CandidateForms(p))}
                    \cup {Alias(Stem(p), id, "slug", 80), Alias(p.title, id, "title", 60)}
                    \cup {Alias(i, id, "internal", 20) : i \in ToSet(internal)},
        edges |-> Edges(id, p.refs)]

Plain(id, kind, name) ==
    [id |-> id, kind |-> kind, name |-> name, version |-> None, current |-> TRUE,
     stem |-> <<name>>, candidates |-> <<>>]

\* parse_vex_document: the id is the bare stem, whatever directory the page is in
ParseVex(p) ==
    LET id == <<p.kind, p.name>>
    IN [entities |-> {Plain(id, p.kind, p.name)},
        aliases |-> {Alias(<<p.name>>, id, "qualified", 100), Alias(p.title, id, "title", 60)},
        edges |-> Edges(id, p.refs)]
\* parse_skill_document is alike, with the skill's slug for the stem
ParseSkill(p) == ParseVex(p)

\* _parse_methods: the methods a page describes, if it is a class's, and the edges that
\* declare them
Methods(p) == IF p.kind = "hom_class" THEN p.methods ELSE {}
ParseMethods(p, class) ==
    LET Method(m) == <<"hom_method", p.name, m>>
    IN [entities |-> {Plain(Method(m), "hom_method", p.name) : m \in Methods(p)},
        aliases |-> UNION {{Alias(<<p.name, "#", m>>, Method(m), "qualified", 100),
                            Alias(<<m>>, Method(m), "short", 80)} : m \in Methods(p)},
        edges |-> {[from |-> class, predicate |-> "declares_method", kind |-> None,
                    raw |-> None, to |-> Method(m)] : m \in Methods(p)}]
\* parse_hom_document: a class, a function, a module or a package
ParseHom(p) ==
    LET id == <<p.kind, p.name>>
        methods == ParseMethods(p, id)
    IN [entities |-> methods.entities \cup {Plain(id, p.kind, p.name)},
        aliases |-> methods.aliases \cup {Alias(<<p.name>>, id, "qualified", 100),
                                          Alias(p.short, id, "short", 80)},
        edges |-> methods.edges \cup Edges(id, p.refs)]

HasAnchor(s) == Len(s) = 3 /\ s[2] = "#"
\* What is asked of the pages: a kind that has a parser; for the file name of a node a
\* version, if only "current" or "legacy"; for a HOM page a short name that is one name;
\* None is no id
PageOK(p) ==
    /\ p.kind \in {"node", "vex", "skill"} \cup HomPages
    /\ p.kind = "node" => p.version # None
    /\ p.kind \in HomPages =>
          ~HasAnchor(p.short) /\ \A m \in Methods(p) : <<"hom_method", p.name, m>> # None
CorpusOK(corpus) ==
    /\ corpus.pages \in Seq(ToSet(corpus.pages))
    /\ \A page \in ToSet(corpus.pages) : PageOK(page)

\* _dispatch_archive_page
Parse(p) ==
    CASE p.kind = "node" -> ParseNode(p) [] p.kind \in HomPages -> ParseHom(p)
      [] p.kind = "vex" -> ParseVex(p) [] p.kind = "skill" -> ParseSkill(p)

-----------------------------------------------------------------------------
(* Linking *)

\* _reconcile_node: the first candidate the inventory has, for a current page
Verified(e, inventory) ==
    LET known == {i \in DOMAIN e.candidates : e.candidates[i] \in inventory}
    IN IF e.current THEN {e.candidates[i] : i \in {j \in known : \A k \in known : j <= k}} ELSE {}
ExtraAliases(entities, inventory) ==
    UNION {{Alias(v, e.id, "operator", 200) : v \in Verified(e, inventory)}
           \cup {Alias(<<"sop">> \o e.stem, e.id, "filename", 70)} :
           e \in {x \in entities : x.kind = "node"}}

SameKey(a, b) == a.alias = b.alias /\ a.of = b.of /\ a.type = b.type
\* _dedupe_aliases
DedupeAliases(aliases) ==
    {a \in aliases : \A b \in aliases : SameKey(a, b) => b.priority <= a.priority}

\* _retained_versioned_operator
Retained(e) == IF e.version = "legacy" THEN None ELSE Operator(e.name, e.version)
Outdated(entities, id) == {e \in entities : e.id = id /\ e.kind = "node" /\ ~e.current}
\* _isolate_historical_operator_aliases
IsolateHistoricalOperatorAliases(aliases, entities) ==
    {a \in aliases : a.type = "operator" =>
        \A e \in Outdated(entities, a.of) : Retained(e) # None /\ a.alias = Retained(e)}

\* The rows of S with the highest priority there is
Top(S) == {a \in S : \A b \in S : b.priority <= a.priority}
Owners(S) == {a.of : a \in S}
Single(ids) == \E id \in ids : ids = {id}
TheOnly(ids) == IF Single(ids) THEN CHOOSE id \in ids : TRUE ELSE None
\* _resolve_by_alias: among the allowed kinds, the top priority, if one entity has it
ResolveByAlias(s, kinds, aliases) ==
    TheOnly(Owners(Top({a \in aliases : a.alias = s /\ a.of[1] \in kinds})))

KindsForPrefix(kind) ==
    CASE kind = "hom" -> Hom [] kind \in {"node", "vex"} -> {kind} [] OTHER -> {}
\* _resolve_typed: a method, or else the class it would be a method of
ResolveTyped(kind, s, aliases) ==
    LET exact == ResolveByAlias(s, KindsForPrefix(kind), aliases)
    IN IF kind = "hom" /\ HasAnchor(s) /\ exact = None
       THEN ResolveByAlias(<<s[1]>>, Hom, aliases) ELSE exact
\* _context_kinds
ContextKinds(id) ==
    CASE id[1] \in Hom -> Hom [] id[1] = "skill" -> {} [] OTHER -> {id[1]}
\* _resolve_edge
ResolveEdge(e, aliases) ==
    IF e.to # None THEN e.to
    ELSE IF e.predicate = "includes" THEN ResolveByAlias(e.raw, Kinds, aliases)
    ELSE IF e.predicate = "inherits_from" THEN ResolveByAlias(e.raw, Hom, aliases)
    ELSE IF e.predicate \in {"references", "related_to"} /\ e.kind # None
         THEN ResolveTyped(e.kind, e.raw, aliases)
    ELSE IF e.predicate = "related_to" THEN ResolveByAlias(e.raw, ContextKinds(e.from), aliases)
    ELSE None

\* assemble_graph, once every page is collected
Assemble(d, inventory) ==
    LET rows == DedupeAliases(d.aliases \cup ExtraAliases(d.entities, inventory))
        aliases == IsolateHistoricalOperatorAliases(rows, d.entities)
    IN [entities |-> d.entities, aliases |-> aliases,
        edges |-> {[e EXCEPT !.to = ResolveEdge(e, aliases)] : e \in d.edges}]

\* validate_graph
ValidGraph(g) ==
    LET ids == {e.id : e \in g.entities}
    IN /\ Owners(g.aliases) \subseteq ids
       /\ \A e \in g.edges : e.from \in ids /\ e.to \in ids \cup {None}
\* validate_cache, of the rows written: also, there must be some of each
ValidCache(g) == ValidGraph(g) /\ g.entities # {} /\ g.edges # {}

-----------------------------------------------------------------------------
(* Building *)

\* acquire_build_lock and the sources: by the Runtime's command or by another process
BuildBegin(who, corpus) ==
    /\ busy = None /\ (who = "runtime" => ~due)
    /\ busy' = who /\ source' = corpus /\ todo' = corpus.pages /\ draft' = Nothing
    /\ UNCHANGED <<cache, due, ready>>
\* The lock is released; rebuild_knowledge goes on to refresh if its build succeeded
BuildOver(succeeded) ==
    /\ due' = (due \/ (succeeded /\ busy = "runtime"))
    /\ busy' = None /\ source' = None /\ todo' = <<>> /\ draft' = Nothing
    /\ UNCHANGED ready
Duplicate(page) == {e.id : e \in page.entities} \cap {e.id : e \in draft.entities} # {}
\* One page more; an id that is there already ends the build
Collect ==
    /\ busy # None /\ todo # <<>> /\ ~Duplicate(Parse(Head(todo)))
    /\ todo' = Tail(todo)
    /\ draft' = LET page == Parse(Head(todo))
                IN [f \in DOMAIN draft |-> draft[f] \cup page[f]]
    /\ UNCHANGED <<busy, source, cache, due, ready>>
DuplicateId ==
    /\ busy # None /\ todo # <<>> /\ Duplicate(Parse(Head(todo)))
    /\ BuildOver(FALSE) /\ UNCHANGED cache
\* assemble_graph, write_cache, validate_cache, os.replace, release_build_lock
Publish ==
    /\ busy # None /\ todo = <<>>
    /\ LET graph == Assemble(draft, source.inventory)
       IN /\ BuildOver(ValidCache(graph))
          /\ cache' = IF ValidCache(graph) THEN graph ELSE cache
\* A source cannot be read, the disk is full, the process is told to stop
BuildFails == busy # None /\ BuildOver(FALSE) /\ UNCHANGED cache

\* _check_and_open: a lock is an answer of its own, before the file is looked at
CheckAndOpen ==
    IF busy # None THEN "building" ELSE IF cache = None THEN "not_built" ELSE "open"
\* KnowledgeRuntime._classify: whatever does not open is not ready
Classify == CheckAndOpen = "open"
Refresh ==
    /\ due /\ due' = FALSE /\ ready' = Classify
    /\ UNCHANGED <<busy, source, todo, draft, cache>>
RuntimeStarts ==
    /\ busy # "runtime" /\ ~due /\ ready' = Classify
    /\ UNCHANGED <<busy, source, todo, draft, cache, due>>

KnowledgeNext ==
    \/ \E who \in {"runtime", "other"}, corpus \in Corpora : BuildBegin(who, corpus)
    \/ Collect \/ DuplicateId \/ Publish \/ BuildFails \/ Refresh \/ RuntimeStarts
KnowledgeSpec == KnowledgeInit /\ [][KnowledgeNext]_knowledge

-----------------------------------------------------------------------------
(* Searching *)

\* Bug: every row of the alias is a candidate
AllCandidates(s) == {a \in cache.aliases : a.alias = s}
\* alias_candidates
AliasCandidates(s) == Top({a \in cache.aliases : a.alias = s})
Entity(id) == CHOOSE e \in cache.entities : e.id = id
\* _search_symbol: the kind filter comes after the priority
SearchSymbol(s, kinds, historical) ==
    LET ids == {id \in Owners(AliasCandidates(s)) : kinds = {} \/ id[1] \in kinds}
    IN CASE ids = {} -> [code |-> "no_match", ids |-> {}]
         [] ids # {} /\ ~Single(ids) -> [code |-> "ambiguous", ids |-> ids]
         [] OTHER -> LET e == Entity(TheOnly(ids))
                     IN IF e.kind = "node" /\ ~e.current /\ ~historical
                        THEN [code |-> "no_match", ids |-> {}]
                        ELSE [code |-> "found", ids |-> ids]

-----------------------------------------------------------------------------
(* What must hold *)

CurrentNodes == {e \in cache.entities : e.kind = "node" /\ e.current}

\* A page about an older version never passes for the current operator: whatever the
\* pages' titles, internal names and versions, the unversioned name of a current operator
\* neither finds nor links to a historical page, and no historical page makes it ambiguous.
OperatorNameIsCurrent ==
    cache # None =>
        \A e \in CurrentNodes :
            /\ \A id \in SearchSymbol(<<e.name>>, {"node"}, TRUE).ids : Entity(id).current
            /\ \A x \in cache.edges :
                   x.kind = "node" /\ x.raw = <<e.name>> /\ x.to # None => Entity(x.to).current

\* The linker and the search, two programs over the same rows, agree: what a typed link
\* was resolved to is what a search for the link's target within its kinds finds, unless a
\* name of another kind outranks it there; never another entity and never several.
SearchAgreesWithLinks ==
    cache # None =>
        \A x \in {y \in cache.edges : y.predicate = "references" /\ y.to # None} :
            LET answer == SearchSymbol(x.raw, KindsForPrefix(x.kind), TRUE)
            IN answer.code = "no_match" \/ answer.ids = {x.to}

\* rebuild_knowledge: "so the next search_houdini_knowledge call sees real results without
\* a restart", once the Runtime's own build has replaced the cache and refreshed.
RebuiltIsServed == [][due /\ ~due' => ready']_knowledge
====
