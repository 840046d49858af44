------------------------------ MODULE Holders ------------------------------
(***************************************************************************)
(* The services that hold something for somebody: the lock of config.toml, *)
(* the workers of the history and of the workspaces, the open images, the  *)
(* tokens of the memory files and of the agents, the directories of an     *)
(* update and the queued prompts of the renderer.                          *)
(* MCServices has them with the other services, for each a behaviour of    *)
(* its own: the variables are those of whichever service it is, in the     *)
(* order in which its instance names them.                                 *)
(***************************************************************************)
EXTENDS Naturals, Sequences, FiniteSets

CONSTANTS Lists, MaxOutside, MaxCrashes,                               \* of several
          Stores, Providers, Models, MaxMutations,                     \* ModelConfig
          Remotes, HistoryMutations, MaxChanges,                       \* SessionHistory
          ImagePaths, Plain, Stages, ImageConsumes, Tasks, TotalLimit, \* Attachments
          Workspaces, Agents, AgentResolves, CatalogLimit, MaxClears,  \* AgentCatalog
          MaxRequests,                                                 \* Workspaces
          Downloads, MaxLaunches,                                      \* AppRelease
          Sessions, Global, Deletes,                                   \* MemoryFiles
          Messages, MaxWire                                            \* PromptQueue

VARIABLES a, b, c, d, e, f, g, h, i, j, k, l, m, n, o

Config == INSTANCE ModelConfig WITH file <- a, holder <- b, at <- c, doing <- d, helper <- e, read <- f, revision <- g,
            stop <- h, expected <- i, text <- j, mutations <- k, outside <- l, crashes <- m, ids <- n
History == INSTANCE SessionHistory WITH Mutations <- HistoryMutations, remote <- a, local <- b, workers <- c, world <- d,
             context <- e, generation <- f, entries <- g, shown <- h, list <- i, op <- j, starting <- k, stopping <- l,
             changes <- m, outside <- n, left <- o
Uploads == INSTANCE Attachments WITH Sessions <- Tasks, Paths <- ImagePaths, Consumes <- ImageConsumes, path <- a, version <- b,
             stage <- c, lease <- d, handles <- e, use <- f, given <- g, outside <- h
Catalog == INSTANCE AgentCatalog WITH Limit <- CatalogLimit, Resolves <- AgentResolves, identity <- a, source <- b, generation <- c, catalogs <- d,
             entries <- e, flight <- f, list <- g, resolve <- h, outside <- i, clears <- j
Usable == INSTANCE Workspaces WITH MaxChanges <- MaxOutside, disk <- a, project <- b, selected <- c, imports <- d, health <- e, checks <- f,
            sweep <- g, dash <- h, worker <- i, status <- j, setting <- k, asks <- l, memory <- m, changes <- n, requests <- o
Update == INSTANCE AppRelease WITH Stages <- Downloads, app <- a, running <- b, offer <- c, candidate <- d, run <- e, stages <- f, owned <- g,
            bundle <- h, phase <- i, squirrel <- j, sweep <- k, changes <- l, launches <- m, stuck <- n
Files == INSTANCE MemoryFiles WITH file <- a, versions <- b, tombs <- c, destroyed <- d, removed <- e, generation <- f,
           entries <- g, issued <- h, op <- i, outside <- j
Prompts == INSTANCE PromptQueue WITH status <- a, turns <- b, lock <- c, asks <- d, wire <- e, dirty <- f, shown <- g, view <- h,
             draft <- i, submitting <- j, queue <- k, dispatching <- l, message <- m

\* What bounds the catalog of agents: a number of entries, and a finite set of agents.
ASSUME CatalogAssumption == CatalogLimit \in Nat /\ IsFiniteSet(Agents)

\* No store of config.toml and no directory of an update is called none, which stands for nobody and for no directory;
\* the changes of other programs are bounded.
ASSUME NamesAssumption == "none" \notin Stores \union Downloads /\ MaxOutside \in Nat

\* There are finitely many sessions, and prompts are numbered from 1.
ASSUME SessionsAssumption == IsFiniteSet(Sessions) /\ Messages \subseteq Nat \ {0}
=============================================================================
