---------------------------- MODULE AgentCatalog ----------------------------
(***************************************************************************)
(* GrokAgentCatalogService: the agents that `grok inspect' names in a      *)
(* workspace, cached per workspace and CLI under tokens.  Lists of one     *)
(* workspace share a refresh, a token is resolved against a new            *)
(* inspection, the cache is bounded, and meanwhile the sources of the      *)
(* agents, the CLI and the workspace change.                               *)
(***************************************************************************)
EXTENDS Naturals, FiniteSets

CONSTANTS Workspaces, Agents, Lists, Resolves, Limit, MaxOutside, MaxClears

None == "none"

VARIABLES
  identity,    \* of each workspace: which directory and which CLI it is
  source,      \* of each agent: the revision of its file, and with it of its description
  generation,
  catalogs,    \* the cache: the key, the refresh that made it, the generation, the definitions
  entries,     \* the tokens: refresh and agent
  flight,      \* of each key: the refresh under way
  list,        \* of each call: step, workspace, key, generation, cached catalog, definitions of two inspections
  resolve,     \* of each call: step, token, key, generation, whether it had an answer
  outside, clears

vars == <<identity, source, generation, catalogs, entries, flight, list, resolve, outside, clears>>
worldVars == <<identity, source, outside>>
cacheVars == <<catalogs, entries>>

Keys == [workspace : Workspaces, identity : 0 .. MaxOutside]
NoDefs == [desc |-> [a \in Agents |-> 0], rev |-> [a \in Agents |-> 0]]
NoKey == [workspace |-> CHOOSE w \in Workspaces : TRUE, identity |-> 0]
NoList == [at |-> "idle", key |-> NoKey, generation |-> 0, cached |-> None, first |-> NoDefs, second |-> NoDefs]
NoToken == [by |-> CHOOSE l \in Lists : TRUE, agent |-> CHOOSE a \in Agents : TRUE]
NoResolve == [at |-> "idle", token |-> NoToken, key |-> NoKey, generation |-> 0, desc |-> 0, rev |-> 0]

Init ==
  /\ identity = [w \in Workspaces |-> 0] /\ source = [a \in Agents |-> 0] /\ generation = 0
  /\ catalogs = {} /\ entries = {} /\ flight = [k \in Keys |-> None]
  /\ list = [l \in Lists |-> NoList] /\ resolve = [r \in Resolves |-> NoResolve]
  /\ outside = 0 /\ clears = 0

Key(w) == [workspace |-> w, identity |-> identity[w]]        \* contextCacheKey
CatalogOf(key) == {c \in catalogs : c.key = key}
TokensOf(cs) == {e \in entries : \E c \in cs : c.by = e.by}

\* agentSourcesAreFresh, catalogSourcesAreFresh, cachedEntrySourceIsFresh.
Fresh(defs) == defs.rev = source

Without(cs) == catalogs' = catalogs \ cs /\ entries' = entries \ TokensOf(cs)

-----------------------------------------------------------------------------
(* list and refreshCatalog.                                                *)

SetList(l, new) == list' = [list EXCEPT ![l] = new]
Goes(l, step) == SetList(l, [list[l] EXCEPT !.at = step])
Current(l) == list[l].generation = generation
Leaves(k, l) == flight' = [flight EXCEPT ![k] = IF @ = l THEN None ELSE @]

ListBegins(l, w) ==
  /\ list[l].at = "idle"
  /\ SetList(l, [NoList EXCEPT !.at = "binding", !.key.workspace = w, !.generation = generation])
  /\ UNCHANGED <<generation, cacheVars, flight, resolve, clears, worldVars>>

\* Without a cached catalog the call joins the refresh of its key, or begins one.
Joins(l, key) ==
  IF flight[key] # None /\ list[flight[key]].generation = list[l].generation
  THEN SetList(l, [list[l] EXCEPT !.at = "joined", !.key = key, !.cached = flight[key]]) /\ UNCHANGED flight
  ELSE SetList(l, [list[l] EXCEPT !.at = "inspecting", !.key = key]) /\ flight' = [flight EXCEPT ![key] = l]

ListBinds(l) ==
  LET key == Key(list[l].key.workspace) found == {c \in CatalogOf(key) : c.generation = generation} IN
  /\ list[l].at = "binding" /\ Current(l)
  /\ IF found # {}
     THEN \E c \in found : SetList(l, [list[l] EXCEPT !.at = "cached", !.key = key, !.cached = c.by]) /\ UNCHANGED flight
     ELSE Joins(l, key)
  /\ UNCHANGED <<generation, cacheVars, resolve, clears, worldVars>>

\* The cached catalog is answered while it is still the one, and its sources are as they were.
ListAnswersCached(l) ==
  LET same == {c \in CatalogOf(list[l].key) : c.by = list[l].cached} IN
  /\ list[l].at = "cached" /\ Current(l)
  /\ IF \E c \in same : Fresh(c.defs)
     THEN Goes(l, "over") /\ UNCHANGED <<flight, cacheVars>>
     ELSE Without(same) /\ Joins(l, list[l].key)
  /\ UNCHANGED <<generation, resolve, clears, worldVars>>

JoinedEnds(l) ==
  /\ list[l].at = "joined" /\ list[list[l].cached].at = "over"
  /\ Goes(l, "over") /\ UNCHANGED <<generation, cacheVars, flight, resolve, clears, worldVars>>

\* parseInspectCatalog: an agent is described by what its file says, the display text cleaned.
Described == source

\* grok reads the sources, and then the service looks at their files: twice, with a check of all in between.
Inspects(l, step, which, next) ==
  /\ list[l].at = step /\ Current(l)
  /\ list' = [list EXCEPT ![l].at = next, ![l][which].desc = Described]
  /\ UNCHANGED <<generation, cacheVars, flight, resolve, clears, worldVars>>

BindsSources(l, step, which, next) ==
  /\ list[l].at = step
  /\ list' = [list EXCEPT ![l].at = next, ![l][which].rev = source]
  /\ UNCHANGED <<generation, cacheVars, flight, resolve, clears, worldVars>>

FirstChecked(l) ==
  /\ list[l].at = "bound" /\ Current(l) /\ Key(list[l].key.workspace) = list[l].key /\ Fresh(list[l].first)
  /\ Goes(l, "inspecting again") /\ UNCHANGED <<generation, cacheVars, flight, resolve, clears, worldVars>>

\* Mutant: the files of the two inspections are not compared.
SameTexts(first, second) == first.desc = second.desc

\* sameDefinitionCatalog.
SameDefinitions(first, second) == first = second

\* makeCapacity: catalogs go until the new entries fit; any of them is taken for the one used longest ago.
Evicted(cs, kept) ==
  /\ cs \subseteq kept
  /\ Cardinality(TokensOf(kept \ cs)) + Cardinality(Agents) <= Limit
  /\ \A c \in cs : Cardinality(TokensOf(kept \ (cs \ {c}))) + Cardinality(Agents) > Limit

New(l) == [key |-> list[l].key, by |-> l, generation |-> list[l].generation, defs |-> list[l].second]

Commits(l) ==
  LET kept == catalogs \ CatalogOf(list[l].key) IN
  /\ list[l].at = "bound again" /\ Current(l) /\ Key(list[l].key.workspace) = list[l].key
  /\ SameDefinitions(list[l].first, list[l].second) /\ Fresh(list[l].second)
  /\ \E evicted \in SUBSET kept :
       /\ Evicted(evicted, kept)
       /\ catalogs' = (kept \ evicted) \union {New(l)}
       /\ entries' = TokensOf(kept \ evicted) \union {[by |-> l, agent |-> a] : a \in Agents}
  /\ Goes(l, "over") /\ Leaves(list[l].key, l) /\ UNCHANGED <<generation, resolve, clears, worldVars>>

\* The workspace or CLI is not what it was, grok fails, or a newer generation has begun.
ListFails(l) ==
  /\ list[l].at \notin {"idle", "joined", "over"}
  /\ Goes(l, "over") /\ flight' = [k \in Keys |-> IF flight[k] = l THEN None ELSE flight[k]]
  /\ UNCHANGED <<generation, cacheVars, resolve, clears, worldVars>>

-----------------------------------------------------------------------------
(* resolve                                                                 *)

SetResolve(r, new) == resolve' = [resolve EXCEPT ![r] = new]
resolveOthers == <<generation, cacheVars, flight, list, clears, worldVars>>
Catalog(r) == {c \in catalogs : c.by = resolve[r].token.by /\ c.generation = resolve[r].generation}

Unchanged(r) == resolve[r].rev = source[resolve[r].token.agent]      \* cachedEntrySourceIsFresh

ResolveBegins(r, token, w) ==
  /\ resolve[r].at = "idle" /\ token \in entries
  /\ \E c \in catalogs :
       /\ c.by = token.by
       /\ SetResolve(r, [at |-> "binding", token |-> token, generation |-> generation, key |-> [NoKey EXCEPT !.workspace = w],
                         desc |-> c.defs.desc[token.agent], rev |-> c.defs.rev[token.agent]])
  /\ UNCHANGED resolveOthers

\* Mutant: the generation alone is asked for.
HeldOnce(r) == resolve[r].generation = generation

\* The entry and its catalog are there and of this generation.
Held(r) == resolve[r].generation = generation /\ resolve[r].token \in entries /\ Catalog(r) # {}

\* The token is of the context that is asked for.
ResolveBinds(r) ==
  LET key == Key(resolve[r].key.workspace) IN
  /\ resolve[r].at = "binding" /\ Held(r) /\ \E c \in Catalog(r) : c.key = key
  /\ SetResolve(r, [resolve[r] EXCEPT !.at = "comparing", !.key = key]) /\ UNCHANGED resolveOthers

\* requireFreshEntry: the source is as it was, and a new inspection names the same definition.
ResolveCompares(r) ==
  /\ resolve[r].at = "comparing" /\ Unchanged(r)
  /\ SetResolve(r, [resolve[r] EXCEPT !.at = "inspecting"]) /\ UNCHANGED resolveOthers

ResolveInspects(r) ==
  /\ resolve[r].at = "inspecting" /\ resolve[r].generation = generation
  /\ resolve[r].desc = Described[resolve[r].token.agent]
  /\ SetResolve(r, [resolve[r] EXCEPT !.at = "inspected"]) /\ UNCHANGED resolveOthers

ResolveRebinds(r) ==
  /\ resolve[r].at = "inspected" /\ resolve[r].generation = generation
  /\ Key(resolve[r].key.workspace) = resolve[r].key
  /\ SetResolve(r, [resolve[r] EXCEPT !.at = "rebound"]) /\ UNCHANGED resolveOthers

ResolveAnswers(r) ==
  /\ resolve[r].at = "rebound" /\ Held(r) /\ Unchanged(r)
  /\ SetResolve(r, [resolve[r] EXCEPT !.at = "answered"]) /\ UNCHANGED resolveOthers

ResolveFails(r) ==
  /\ resolve[r].at \in {"binding", "comparing", "inspecting", "inspected", "rebound"}
  /\ SetResolve(r, [resolve[r] EXCEPT !.at = "failed"]) /\ UNCHANGED resolveOthers

-----------------------------------------------------------------------------
Clear ==
  /\ clears < MaxClears /\ clears' = clears + 1 /\ generation' = generation + 1
  /\ catalogs' = {} /\ entries' = {} /\ flight' = [k \in Keys |-> None]
  /\ UNCHANGED <<list, resolve, worldVars>>

\* purgeExpired.
Expires(c) == Without({c}) /\ UNCHANGED <<generation, flight, list, resolve, clears, worldVars>>

\* An agent is edited, or the workspace or the CLI is replaced.
Outside ==
  /\ outside < MaxOutside /\ outside' = outside + 1
  /\ \/ \E a \in Agents : source' = [source EXCEPT ![a] = @ + 1] /\ UNCHANGED identity
     \/ \E w \in Workspaces : identity' = [identity EXCEPT ![w] = @ + 1] /\ UNCHANGED source
  /\ UNCHANGED <<generation, cacheVars, flight, list, resolve, clears>>

Next ==
  \/ \E l \in Lists :
       \/ \E w \in Workspaces : ListBegins(l, w)
       \/ ListBinds(l) \/ ListAnswersCached(l) \/ JoinedEnds(l) \/ FirstChecked(l) \/ Commits(l) \/ ListFails(l)
       \/ Inspects(l, "inspecting", "first", "inspected") \/ BindsSources(l, "inspected", "first", "bound")
       \/ Inspects(l, "inspecting again", "second", "inspected again") \/ BindsSources(l, "inspected again", "second", "bound again")
  \/ \E r \in Resolves :
       \/ \E token \in entries, w \in Workspaces : ResolveBegins(r, token, w)
       \/ ResolveBinds(r) \/ ResolveCompares(r) \/ ResolveInspects(r) \/ ResolveRebinds(r) \/ ResolveAnswers(r) \/ ResolveFails(r)
  \/ Clear \/ Outside
  \/ \E c \in catalogs : Expires(c)

Spec == Init /\ [][Next]_vars

-----------------------------------------------------------------------------
TypeOK ==
  /\ identity \in [Workspaces -> 0 .. MaxOutside] /\ source \in [Agents -> 0 .. MaxOutside] /\ generation = clears
  /\ \A c \in catalogs : c.key \in Keys /\ c.by \in Lists /\ c.generation \in 0 .. MaxClears
  /\ entries \subseteq [by : Lists, agent : Agents] /\ flight \in [Keys -> Lists \union {None}]

\* What a token stands for is one definition: the description that the user sees is that of the file whose revision is
\* kept with it, although the two were read at different times.
DefinitionsAreWhole == \A c \in catalogs : c.defs.desc = c.defs.rev

\* The tokens are those of the cached catalogs, all of this generation, one per workspace and CLI, within the limit.
CacheIsSound ==
  /\ entries = {[by |-> c.by, agent |-> a] : c \in catalogs, a \in Agents}
  /\ Cardinality(entries) <= Limit
  /\ \A c \in catalogs : c.generation = generation /\ \A d \in catalogs : d.key = c.key => d = c

\* An agent that is answered for a token is as it was shown, and its token is valid to the end.
AnswersShown ==
  \A r \in Resolves : resolve[r].at # "answered" /\ resolve'[r].at = "answered" =>
    /\ resolve[r].token \in entries
    /\ \E c \in catalogs : /\ c.by = resolve[r].token.by
                           /\ c.defs.desc[resolve[r].token.agent] = source[resolve[r].token.agent]
=============================================================================
