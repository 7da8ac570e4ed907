----------------------------- MODULE AtlasQueries -----------------------------
(***************************************************************************)
(* The read-only "atlas" verbs: each loads the union of the registered     *)
(* repositories' .atlas files anew and answers one question.  A repository *)
(* is a record of what its files hold; text is a set of words.             *)
(***************************************************************************)
EXTENDS ComponentGraph, Query

CONSTANTS
  Repos,       \* registered repositories
  NoSegment,   \* a component without a path segment has no memory file
  Refs,        \* references asked for: [repo : Repos \cup {Unset}, id : Ids]
  MaxDepth     \* largest --depth and --max-hops asked for

Component == [id : Ids, kind : {"lib", "bin"}, parent : Ids \cup {0}, deleted : BOOLEAN,
              segment : {"root", NoSegment}]

\* compute_one_full: only a file that parses makes a repository fresh.
Freshness == [r \in Repos |-> world.repos[r].status]
FreshRepos == {r \in Repos : Freshness[r] = "fresh"}

\* iter_components: tombstones are not listed.
Live == UNION {{<<r, c>> : c \in {x \in world.repos[r].components : ~x.deleted}} : r \in FreshRepos}

\* resolve_ref: a bare id must be unique over all fresh repositories.
Resolved(ref) == {p \in Live : p[2].id = ref.id /\ ref.repo \in {Unset, p[1]}}
Resolve(ref) ==
  LET hits == Resolved(ref)
  IN  IF (ref.repo # Unset /\ ref.repo \notin FreshRepos) \/ hits = {} THEN Error("NotFound")
      ELSE IF ref.repo = Unset /\ Cardinality(hits) > 1 THEN Error("Conflict")
      ELSE Ok(CHOOSE p \in hits : TRUE)

\* from_catalog: one file that does not load fails every query of the graph.
Related == [r \in FreshRepos |-> world.repos[r].related]
Graph(reply) ==
  IF \E r \in FreshRepos : world.repos[r].related_state = "bad" THEN Error("IoError") ELSE reply
Edges == EdgeGraph(Related)
LiveIds == {p[2].id : p \in Live}
Directed == DirectedGraph(LiveIds, Edges)

For(ref, Reply(_)) == Then(Resolve(ref), Reply)
-----------------------------------------------------------------------------
Matching(repo, kind) ==
  {p \in Live : repo \in {Unset, p[1]} /\ kind \in {Unset, p[2].kind}}

\* --repo of a repository that is not fresh is refused.
RepoKnown(repo, reply) == IF repo \in FreshRepos \cup {Unset} THEN Ok(reply) ELSE Error("NotFound")

ListComponents(repo, kind) == RepoKnown(repo, {<<p[1], p[2].id, p[2].kind>> : p \in Matching(repo, kind)})

\* Mutant: tombstones are counted.
SummaryAll(repo) ==
  RepoKnown(repo,
    [r \in {p[1] : p \in Matching(repo, Unset)} |->
       [k \in {p[2].kind : p \in Matching(r, Unset)} |->
          Cardinality({c \in world.repos[r].components : c.kind = k})]])

\* Repositories without components are left out.
Summary(repo) ==
  RepoKnown(repo,
    [r \in {p[1] : p \in Matching(repo, Unset)} |->
       [k \in {p[2].kind : p \in Matching(r, Unset)} |-> Cardinality(Matching(r, k))]])

Describe(ref) ==
  For(ref, LAMBDA p : Ok([ref |-> <<p[1], p[2].id>>,
                          children |-> {<<p[1], c.id>> : c \in {x \in world.repos[p[1]].components :
                                                          ~x.deleted /\ x.parent = p[2].id}}]))

\* read_component_memory and entry_matches: no file is an empty memory.
Memory(ref, needle) ==
  For(ref, LAMBDA p :
    LET file == world.repos[p[1]].memory
    IN  IF p[2].segment = NoSegment \/ file.state = "missing" THEN Ok({})
        ELSE IF file.state = "torn" THEN Error("InvalidInput")
        ELSE IF file.state = "other-version" THEN Error("Conflict")
        ELSE Ok({e \in file.entries : needle = Unset \/ needle \in e}))

EdgesOf(ref, direction) ==
  For(ref, LAMBDA p : Graph(Ok(Touching(Edges, p[2].id, direction))))

NeighborsOf(ref, depth) == For(ref, LAMBDA p : Graph(Ok(Neighbors(Edges, p[2].id, depth))))

\* The answer is per repository though the graph is over bare ids.
Roots == Graph(Ok({<<p[1], p[2].id>> : p \in {q \in Live : q[2].id \notin HasIncoming(Edges)}}))

Path(from, to, max_hops) ==
  For(from, LAMBDA a : For(to, LAMBDA b :
    Graph(LET path == ShortestPath(Directed, a[2].id, b[2].id, max_hops)
          IN  IF path = NoPath THEN Error("NotFound") ELSE Ok(path))))

Scc(all) == Graph(Ok({c \in StronglyConnected(Directed) : all \/ Cardinality(c) > 1}))

\* --require-fresh turns any other status into an error, after the report.
FreshnessReport(require) ==
  IF require /\ FreshRepos # Repos THEN Error("Conflict") ELSE Ok(Freshness)
-----------------------------------------------------------------------------
(* The clap arguments of each verb. *)
Depths == 0..MaxDepth
RepoFilter == Repos \cup {Unset}
KindFilter == {"lib", "bin", Unset}

AskAtlas(q, a) == Ask("atlas", q, a)

\* dispatch_atlas.
AtlasNext ==
  \/ \E r \in RepoFilter, k \in KindFilter :
       AskAtlas([verb |-> "list-components", repo |-> r, kind |-> k], ListComponents(r, k))
  \/ \E r \in RepoFilter : AskAtlas([verb |-> "summary", repo |-> r], Summary(r))
  \/ \E ref \in Refs : AskAtlas([verb |-> "describe", ref |-> ref], Describe(ref))
  \/ \E ref \in Refs, w \in {Unset, "word"} :
       AskAtlas([verb |-> "memory", ref |-> ref, search |-> w], Memory(ref, w))
  \/ \E ref \in Refs, d \in {"in", "out", "both"} :
       AskAtlas([verb |-> "edges", ref |-> ref, direction |-> d], EdgesOf(ref, d))
  \/ \E ref \in Refs, n \in Depths :
       AskAtlas([verb |-> "neighbors", ref |-> ref, depth |-> n], NeighborsOf(ref, n))
  \/ AskAtlas([verb |-> "roots"], Roots)
  \/ \E a, b \in Refs, n \in Depths :
       AskAtlas([verb |-> "path", from |-> a, to |-> b, max_hops |-> n], Path(a, b, n))
  \/ \E all \in BOOLEAN : AskAtlas([verb |-> "scc", all |-> all], Scc(all))
  \/ \E b \in BOOLEAN : AskAtlas([verb |-> "freshness", require |-> b], FreshnessReport(b))

-----------------------------------------------------------------------------
\* A path is a shortest one along directed edges, none is refused; the cycles
\* are the classes of mutual reach, whatever order the components are met in;
\* a neighbour's hop count is its distance over edges of both kinds.
GraphAnswersRight ==
  /\ query.verb = "path" /\ answer.code \in {"ok", "NotFound"}
       /\ Resolve(query.from).code = "ok" /\ Resolve(query.to).code = "ok"
     => PathRight(Directed, query.from.id, query.to.id, query.max_hops,
                  IF answer.code = "ok" THEN answer.value ELSE NoPath)
  /\ Answered("scc") =>
       answer.value = {c \in Classes(Directed) : query.all \/ Cardinality(c) > 1}
  /\ Answered("neighbors") =>
       LET next == [c \in Ids |-> Range(Adjacency(Edges)[c])]
           hops == answer.value
       IN  /\ DOMAIN hops = Ball(next, query.ref.id, query.depth)
           /\ \A c \in DOMAIN hops : c \in Ball(next, query.ref.id, hops[c])
                 /\ (hops[c] > 0 => c \notin Ball(next, query.ref.id, hops[c] - 1))
  /\ Answered("roots") =>
       \A r \in FreshRepos, i \in Ids :
         <<r, i>> \in answer.value <=>
           /\ \E p \in Live : p[1] = r /\ p[2].id = i
           /\ \A e \in Touching(Edges, i, "in") : ~IsDirected(e)

\* The verbs agree about what there is: a summary counts what a listing shows,
\* every component listed and every child described can be asked for by its
\* qualified reference, and a bare reference names the one it resolves to.
CatalogAnswersAgree ==
  /\ Answered("summary") =>
       \A r \in FreshRepos, k \in {"lib", "bin"} : query.repo \in {Unset, r} =>
         Cardinality(ListComponents(r, k).value) =
           IF r \in DOMAIN answer.value /\ k \in DOMAIN answer.value[r] THEN answer.value[r][k] ELSE 0
  /\ Answered("list-components") =>
       \A t \in answer.value : Resolve([repo |-> t[1], id |-> t[2]]).code = "ok"
  /\ Answered("describe") =>
       /\ \A c \in answer.value.children : Resolve([repo |-> c[1], id |-> c[2]]).code = "ok"
       /\ query.ref.repo = Unset => Cardinality(Resolved(query.ref)) = 1
=============================================================================
