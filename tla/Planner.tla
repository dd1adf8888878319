------------------------------ MODULE Planner ------------------------------
(***************************************************************************)
(* DefaultRoutePlanner::plan() of src/src/planner/planner.cpp, and the     *)
(* test the plan must pass later, the can_copy() of the backend of every   *)
(* leg.                                                                    *)
(*                                                                         *)
(* A route is the sequence of the domains it visits.  Byte counts are in   *)
(* units of 10^9, chunk sizes and capacities in a unit of their own, costs *)
(* in units of 10 microseconds (the code computes them as doubles), with   *)
(* the default RouteWeights.                                               *)
(***************************************************************************)
EXTENDS Integers, Sequences, FiniteSets, Functions

CONSTANTS GBs,             \* transfer sizes
          HopLimits,       \* TransferPolicy::max_hops
          Allowlists,      \* TransferPolicy::domain_allowlist
          PreferredSizes,  \* TransferPolicy::preferred_chunk_size
          Capacities,      \* capacities of the two staging pools
          BackendSets      \* PlannerInput::available_backends

\* A Runtime registers the host backend first; an empty list admits them all.
ASSUME PlannerConstants ==
  /\ \A S \in {GBs, HopLimits, PreferredSizes, Capacities} : S \subseteq Nat
  /\ \A B \in BackendSets : B = {} \/ "host" \in B

VARIABLES in,     \* the PlannerInput
          result  \* the PlanResult

route_vars == <<in, result>>

Domain == {"host_pageable", "host_pinned", "device", "storage", "shared", "mmap", "remote"}

is_staging_domain(d) == d \in {"host_pageable", "host_pinned"}

kind_of_domain(d) ==
  CASE is_staging_domain(d) -> "host" [] d = "storage" -> "file" [] OTHER -> d

\* An edge joins a and b; time is what 10^9 bytes take.
EdgeDef(a, b, backend, time, setup) ==
  [ends |-> {a, b}, backend |-> backend, time |-> time, setup |-> setup]

\* The host domains are joined with every domain, the others with themselves
\* and the host domains only; a leg from a domain to itself is built apart.
edges ==
  {EdgeDef("host_pageable", "host_pinned", "host", 12500, 2),
   EdgeDef("host_pageable", "device", "cuda", 16667, 5),
   EdgeDef("host_pinned", "device", "cuda", 4545, 3)}
  \cup UNION {{EdgeDef(h, "storage", "file", 50000, 5), EdgeDef(h, "shared", "shm", 10000, 3),
               EdgeDef(h, "mmap", "host", 12500, 3), EdgeDef(h, "remote", "tcp", 100000, 15)}
              : h \in {"host_pageable", "host_pinned"}}

Joined(a, b) == \E e \in edges : e.ends = {a, b}

Edge(a, b) == CHOOSE e \in edges : e.ends = {a, b}

\* Every path, and every path with one domain more.
Grow(paths) ==
  paths \cup UNION {{Append(p, d) : d \in {x \in Domain : x \notin Range(p) /\ Joined(p[Len(p)], x)}}
                    : p \in paths}

\* The simple paths, of any length: none visits more than the seven domains.
Paths == Grow(Grow(Grow(Grow(Grow(Grow({<<d>> : d \in Domain}))))))

SimplePaths ==
  [s \in Domain |-> [g \in Domain |-> {p \in Paths : p[1] = s /\ p[Len(p)] = g}]]
-----------------------------------------------------------------------------
(* What plan() tests.                                                      *)

Legs(p) == 1 .. Len(p) - 1

Inner(p) == 2 .. Len(p) - 1

backend_known(b) == in.backends = {} \/ b \in in.backends

feasible_edge(a, b) ==
  /\ Joined(a, b)
  /\ Edge(a, b).backend = "tcp" => in.remote_available
  /\ backend_known(Edge(a, b).backend)

\* Each staging node is counted as the end of one leg and the start of the
\* next, and each time for two buffers.
Need(p, d) == 2 * in.preferred * 2 * Cardinality({j \in Inner(p) : p[j] = d})

FitsPools(p) ==
  /\ Need(p, "host_pinned") <= in.pinned_capacity
  /\ Need(p, "host_pageable") <= in.host_capacity

\* Mutant: a route may not have as many hops as the limit says.
CandidateBelowLimit(p) ==
  /\ Len(p) - 1 < in.max_hops
  /\ \A k \in Legs(p) : feasible_edge(p[k], p[k + 1])
  /\ FitsPools(p)
  /\ in.require_staging => Len(p) > 2
  /\ in.allow_staging \/ Len(p) = 2

\* The paths dfs() turns into candidates.
Candidate(p) ==
  /\ Len(p) - 1 <= in.max_hops
  /\ \A k \in Legs(p) : feasible_edge(p[k], p[k + 1])
  /\ FitsPools(p)
  /\ in.require_staging => Len(p) > 2
  /\ in.allow_staging \/ Len(p) = 2

Candidates == {p \in SimplePaths[in.src][in.dst] : Candidate(p)}
-----------------------------------------------------------------------------
(* CostModel::evaluate() and the ranking.                                  *)

\* A leg is staged when one of its ends is a host domain inside the route;
\* every inner leg counts as staged too.
LegStaged(p, k) ==
  \/ k > 1 /\ (is_staging_domain(p[k]) \/ k + 1 < Len(p))
  \/ k + 1 < Len(p) /\ is_staging_domain(p[k + 1])

\* caps_for_kind(): the kinds of endpoints with Capability::staged_copy.
staged_copy(d) == kind_of_domain(d) \in {"host", "device", "file"}

\* The capabilities of a leg are those of the endpoint it touches, of the
\* destination if it touches both, and of nobody in the middle.
Retries(p, k) ==
  IF k + 1 = Len(p) THEN staged_copy(p[k + 1]) ELSE k = 1 /\ staged_copy(p[k])

LegCost(p, k) == Edge(p[k], p[k + 1]).setup + in.gb * Edge(p[k], p[k + 1]).time + 100000

\* The legs are added up one after the other.
LegCosts(p) ==
  LET total[k \in 0 .. Len(p) - 1] == IF k = 0 THEN 0 ELSE total[k - 1] + LegCost(p, k)
  IN total[Len(p) - 1]

evaluate(p) ==
  LET staged == Cardinality({k \in Legs(p) : LegStaged(p, k)})
      retries == Cardinality({k \in Legs(p) : Retries(p, k)})
  IN LegCosts(p) + (staged * in.gb * 100000) \div (1 + in.gb) + 5000 * retries

\* A single leg over a remote edge is of class remote, not direct.
is_direct(p) == Len(p) = 2 /\ Edge(p[1], p[2]).backend # "tcp"

\* The cost after prefer_direct has been applied.
Rank(p) ==
  evaluate(p) + IF in.prefer_direct /\ (\E q \in Candidates : is_direct(q)) /\ ~is_direct(p)
                THEN 50000 ELSE 0

\* Mutant: the candidates are sorted the wrong way round.
Dearest == {p \in Candidates : \A q \in Candidates : Rank(p) >= Rank(q)}

\* std::sort leaves candidates of equal cost in any order.
Cheapest == {p \in Candidates : \A q \in Candidates : Rank(p) <= Rank(q)}
-----------------------------------------------------------------------------
Input ==
  [src : Domain, dst : Domain, gb : GBs, max_hops : HopLimits, domains : Allowlists,
   prefer_direct : BOOLEAN, allow_staging : BOOLEAN, require_staging : BOOLEAN,
   preferred : PreferredSizes, host_capacity : Capacities, pinned_capacity : Capacities,
   backends : BackendSets, remote_available : BOOLEAN]

NoResult == [status |-> "none", path |-> <<>>, backends |-> <<>>]

RouteInit ==
  /\ in \in Input
  /\ result = NoResult

domain_allowed(d) == in.domains = {} \/ d \in in.domains

\* Mutant: shared memory is copied like other host memory.
SharedLikeHost(d) ==
  CASE d = "device" -> "cuda" [] d = "storage" -> "file" [] OTHER -> "host"

SameDomainBackend(d) ==
  CASE d = "device" -> "cuda" [] d = "storage" -> "file" [] d = "shared" -> "shm" [] OTHER -> "host"

Found(p, backends) == result' = [status |-> "found", path |-> p, backends |-> backends]

Permitted == domain_allowed(in.src) /\ domain_allowed(in.dst)

\* A transfer of nothing: one direct leg, whatever the domains.
PlanEmpty ==
  /\ Permitted
  /\ in.gb = 0
  /\ Found(<<in.src, in.dst>>, <<"host">>)

\* Within a domain: one direct leg, whatever the policy says of staging.
PlanSameDomain ==
  /\ Permitted
  /\ in.gb > 0
  /\ in.src = in.dst
  /\ backend_known(SameDomainBackend(in.src))
  /\ Found(<<in.src, in.dst>>, <<SameDomainBackend(in.src)>>)

PlanSearch ==
  /\ Permitted
  /\ in.gb > 0
  /\ in.src # in.dst
  /\ \E p \in Cheapest : Found(p, [k \in Legs(p) |-> Edge(p[k], p[k + 1]).backend])

PlanFails ==
  /\ \/ ~Permitted
     \/ in.gb > 0 /\ in.src = in.dst /\ ~backend_known(SameDomainBackend(in.src))
     \/ in.gb > 0 /\ in.src # in.dst /\ Candidates = {}
  /\ result' = [NoResult EXCEPT !.status = "refused"]

PlanRoute ==
  /\ result = NoResult
  /\ PlanEmpty \/ PlanSameDomain \/ PlanSearch \/ PlanFails
  /\ UNCHANGED in

\* The caller has its answer.
Answered == result # NoResult /\ UNCHANGED route_vars

RouteNext == PlanRoute \/ Answered

RouteSpec == RouteInit /\ [][RouteNext]_route_vars
-----------------------------------------------------------------------------
(* What becomes of the route.                                              *)

\* loc_at(): whatever its domain, a node inside the route is a host buffer.
KindAt(p, j) == IF j \in Inner(p) THEN "host" ELSE kind_of_domain(p[j])

\* Backend::can_copy() of the four backends of a Runtime.
Cpu == {"host_pageable", "host_pinned", "mmap"}

HostCanCopy(p, k) == {p[k], p[k + 1]} \subseteq Cpu

ShmCanCopy(p, k) ==
  "shared" \in {p[k], p[k + 1]} /\ {p[k], p[k + 1]} \subseteq Cpu \cup {"shared"}

FileCanCopy(p, k) ==
  LET kinds == {KindAt(p, k), KindAt(p, k + 1)}
  IN kinds \cap {"file", "mmap"} # {} /\ "device" \notin kinds

CudaCanCopy(p, k) ==
  /\ "device" \in {p[k], p[k + 1]}
  /\ \A d \in {p[k], p[k + 1]} : d = "device" \/ is_staging_domain(d)

can_copy(backend, p, k) ==
  \/ backend = "host" /\ HostCanCopy(p, k)
  \/ backend = "shm" /\ ShmCanCopy(p, k)
  \/ backend = "file" /\ FileCanCopy(p, k)
  \/ backend = "cuda" /\ CudaCanCopy(p, k)
-----------------------------------------------------------------------------
(* Properties.                                                             *)

Planned == result.status = "found"

\* The exhaustive search of plan() finds a route exactly when one of at most two
\* legs will do: within a domain, over one edge, or through one domain joined to
\* both ends that has room for four chunks if it is a host domain.  No longer
\* route ever makes a transfer possible, and no filter loses the short one.
Routable ==
  LET room(d) ==
        CASE d = "host_pinned" -> 4 * in.preferred <= in.pinned_capacity
          [] d = "host_pageable" -> 4 * in.preferred <= in.host_capacity
          [] OTHER -> TRUE
      direct == ~in.require_staging /\ in.max_hops >= 1 /\ feasible_edge(in.src, in.dst)
      via(d) == /\ in.allow_staging /\ in.max_hops >= 2 /\ room(d)
                /\ feasible_edge(in.src, d) /\ feasible_edge(d, in.dst)
  IN /\ Permitted
     /\ \/ in.gb = 0
        \/ in.src = in.dst /\ backend_known(SameDomainBackend(in.src))
        \/ in.src # in.dst /\ (direct \/ \E d \in Domain \ {in.src, in.dst} : via(d))

FoundIffRoutable ==
  /\ result.status = "found" => Routable
  /\ result.status = "refused" => ~Routable

\* "The planner prefers direct routes when the policy says so and a direct route
\* exists" (docs/ROUTING.md): under the default weights the ranking, which only
\* adds costs up, never puts a longer route before a shorter one.
ShortestWins ==
  Planned /\ in.gb > 0 /\ in.src # in.dst =>
    \A q \in Candidates : Len(result.path) <= Len(q)

\* The chosen route leads from the source to the destination, and with the
\* backends of a Runtime run_leg() never meets a leg of it that its backend cannot
\* copy, intermediate nodes being host buffers.
BestExecutable ==
  Planned /\ in.gb > 0 /\ ~in.remote_available /\ "remote" \notin {in.src, in.dst} =>
    /\ result.path[1] = in.src /\ result.path[Len(result.path)] = in.dst
    /\ \A k \in Legs(result.path) : can_copy(result.backends[k], result.path, k)
=============================================================================
