----------------------------- MODULE Derivation -----------------------------
(***************************************************************************)
(* What a declaration derives for one zone, and what validate accepts of   *)
(* it: the order of a member's wires, the OSPF costs of its legs, the cost *)
(* of the universal segment, and the paths that follow (src/derive.rs, the *)
(* parts of src/model.rs it rests on).  The accepted fabric then runs, and *)
(* its wires fail and return.                                              *)
(*                                                                         *)
(* A wire is named by its place in its member's list, a segment by its     *)
(* domain (one per zone and domain) or "any", the universal one.           *)
(***************************************************************************)
EXTENDS Integers, Sequences, FiniteSets
LOCAL INSTANCE FiniteSetsExt

CONSTANTS Names,         \* names of members
          Declarations,  \* the declarations that may be written
          MaxDown        \* bound: wires that are down at a time

ASSUME DerivationAssumption == MaxDown \in Nat

VARIABLES
    fabric,    \* the declaration
    answer,    \* what validate says: "none" yet, "accepted", or the check that refused
    down       \* wires that are down: pairs of a member and a place

derVars == <<fabric, answer, down>>

-----------------------------------------------------------------------------
(* derive.rs                                                               *)

Wires(f, m) == DOMAIN f.wires[m]
DomainsOf(f, m) == {f.wires[m][i].domain : i \in Wires(f, m)}
WireOn(f, m, d) == CHOOSE i \in Wires(f, m) : f.wires[m][i].domain = d

\* candidate_wires: those whose domain has a segment in the zone.
Candidates(f, m) == {i \in Wires(f, m) : f.wires[m][i].domain \in f.segments}

\* prefs_of: the wire on the primary domain, then by speed, then as declared ...
Precedes(f, m, i, j) ==
    LET v == f.wires[m][i]
        w == f.wires[m][j]
    IN  \/ v.domain = f.primary /\ w.domain # f.primary
        \/ /\ (v.domain = f.primary) = (w.domain = f.primary)
           /\ v.speed > w.speed \/ (v.speed = w.speed /\ i < j)

\* ... unless the member declares the whole order.
Rank(f, m, i) ==
    IF f.prefs[m] # <<>>
    THEN (CHOOSE k \in DOMAIN f.prefs[m] : f.prefs[m][k] = i) - 1
    ELSE Cardinality({j \in Candidates(f, m) : Precedes(f, m, j, i)})

LadderCost(rank) == IF rank = 0 THEN 10 ELSE 100 * rank
LadderStep == 100

\* class_rows_of: the member's leg on each segment it has a wire for.
Rows(f, m) == DomainsOf(f, m) \cap f.segments
RowCost(f, m, d) == LadderCost(Rank(f, m, WireOn(f, m, d)))

\* The highest cost any member gives a segment.
Dearest(f, d) == Max({0} \cup {RowCost(f, m, d) : m \in {n \in Names : d \in Rows(f, n)}})

\* universal_cost: the longest path crosses every segment once.
UniversalCost(f) == MapThenSumSet(LAMBDA d : Dearest(f, d), f.segments) + LadderStep

-----------------------------------------------------------------------------
(* The zone's graph.  An edge costs what the member it leaves gives the    *)
(* leg, a leaf's the offset more.                                          *)

OffsetOf(f, m) == IF f.kind[m] = "leaf" THEN f.offset ELSE 0

EdgesOn(f, rows) ==
    {[from |-> t[1], to |-> t[2], via |-> t[3], cost |-> RowCost(f, t[1], t[3]) + OffsetOf(f, t[1])] :
        t \in {x \in Names \X Names \X f.segments : x[1] # x[2] /\ x[3] \in rows[x[1]] \cap rows[x[2]]}}

UniversalEdges(f) ==
    IF ~f.universal THEN {}
    ELSE {[from |-> t[1], to |-> t[2], via |-> "any", cost |-> UniversalCost(f) + OffsetOf(f, t[1])] :
             t \in {x \in Names \X Names : x[1] # x[2]}}

Edges(f) == EdgesOn(f, [m \in Names |-> Rows(f, m)]) \cup UniversalEdges(f)

\* Mistake: a second path of the same cost is passed over.
TiedIgnored(count, ways) == count

\* As many paths more.
Tied(count, ways) == count + ways

\* One round of the search for shortest paths and their number: the nearest
\* member that is left is done, and its edges are followed unless it is a leaf.
Relax(f, edges, src, s) ==
    LET left == DOMAIN s.dist \ s.done
        node == CHOOSE n \in left : \A o \in left : s.dist[n] <= s.dist[o]
        out  == {e \in edges : e.from = node /\ e.to \notin s.done \cup {node}}
        Near(n) == Min({e.cost : e \in {x \in out : x.to = n}})
        Ways(n) == Cardinality({e \in out : e.to = n /\ e.cost = Near(n)}) * s.count[node]
        New(n) == s.dist[node] + Near(n)
        met  == {e.to : e \in out}
        Closer(n) == n \in met /\ (n \notin DOMAIN s.dist \/ New(n) < s.dist[n])
    IN  IF left = {} THEN s
        ELSE IF node # src /\ f.kind[node] = "leaf" THEN [s EXCEPT !.done = @ \cup {node}]
        ELSE [dist  |-> [n \in DOMAIN s.dist \cup met |-> IF Closer(n) THEN New(n) ELSE s.dist[n]],
              count |-> [n \in DOMAIN s.dist \cup met |->
                            IF Closer(n) THEN Ways(n)
                            ELSE IF n \in met /\ New(n) = s.dist[n] THEN Tied(s.count[n], Ways(n))
                            ELSE s.count[n]],
              done  |-> s.done \cup {node}]

\* check_no_equal_cost_paths, from one member.
Counts(f, src) ==
    LET round[k \in 0..Cardinality(Names)] ==
            IF k = 0 THEN [dist |-> [n \in {src} |-> 0], count |-> [n \in {src} |-> 1], done |-> {}]
            ELSE Relax(f, Edges(f), src, round[k - 1])
    IN  round[Cardinality(Names)].count

-----------------------------------------------------------------------------
(* validate                                                                *)

HasWires(f) == \A m \in Names : Wires(f, m) # {}
DomainsDeclared(f) ==
    /\ \A m \in Names : DomainsOf(f, m) \subseteq f.domains
    /\ f.segments \cup {f.primary} \subseteq f.domains
OneWirePerDomain(f) == \A m \in Names : Cardinality(DomainsOf(f, m)) = Len(f.wires[m])
DomainsWired(f) == \A d \in f.domains : \E m \in Names : d \in DomainsOf(f, m)
PrimaryHasSegment(f) == f.primary \in f.segments

\* check_wire_prefs: an override lists every candidate once.
PrefsComplete(f) ==
    \A m \in Names : f.prefs[m] # <<>> =>
        LET got == {f.prefs[m][k] : k \in DOMAIN f.prefs[m]}
        IN  Cardinality(got) = Len(f.prefs[m]) /\ got = Candidates(f, m)

UniversalBelowLeaf(f) == f.universal => UniversalCost(f) < f.offset

\* check_rank0_is_shared: a host does not put a wire nobody shares before one that
\* somebody does.
Shared(f, m, i) == \E n \in Names \ {m} : f.wires[m][i].domain \in DomainsOf(f, n)
FirstIsShared(f) ==
    \A m \in Names : f.kind[m] = "host" =>
        \A i \in Candidates(f, m) :
            Rank(f, m, i) = 0 => Shared(f, m, i) \/ \A j \in Candidates(f, m) : ~Shared(f, m, j)

NoEqualCost(f) == \A src \in Names : LET c == Counts(f, src)
                                     IN  \A dst \in DOMAIN c \ {src} : c[dst] = 1

\* The checks, those of the derivation last.
Validate(f) ==
    CASE ~HasWires(f)           -> "no wires"
      [] ~DomainsDeclared(f)    -> "unknown domain"
      [] ~OneWirePerDomain(f)   -> "two wires on a domain"
      [] ~DomainsWired(f)       -> "unused domain"
      [] ~PrimaryHasSegment(f)  -> "primary without segment"
      [] ~PrefsComplete(f)      -> "incomplete prefs"
      [] ~UniversalBelowLeaf(f) -> "universal above leaf"
      [] ~FirstIsShared(f)      -> "unshared first"
      [] ~NoEqualCost(f)        -> "equal cost"
      [] OTHER                  -> "accepted"

-----------------------------------------------------------------------------
(* The fabric.                                                             *)

DerInit == fabric \in Declarations /\ answer = "none" /\ down = {}

\* Every command and every daemon loads the declaration and validates it anew.
Check ==
    /\ answer' = Validate(fabric)
    /\ UNCHANGED <<fabric, down>>

WireFails(m, i) ==
    /\ answer = "accepted" /\ i \in Wires(fabric, m) /\ <<m, i>> \notin down
    /\ Cardinality(down) < MaxDown
    /\ down' = down \cup {<<m, i>>}
    /\ UNCHANGED <<fabric, answer>>

WireReturns(m, i) ==
    /\ <<m, i>> \in down
    /\ down' = down \ {<<m, i>>}
    /\ UNCHANGED <<fabric, answer>>

DerNext ==
    \/ Check
    \/ \E m \in Names : \E i \in Wires(fabric, m) : WireFails(m, i) \/ WireReturns(m, i)

DerSpec == DerInit /\ [][DerNext]_derVars

-----------------------------------------------------------------------------
(* Properties.                                                             *)

\* Paths, as sequences of edges, that meet no member twice.
PathsFrom(edges, src, transit) ==
    LET longer[k \in 1..Cardinality(Names) - 1] ==
            IF k = 1 THEN {<<e>> : e \in {x \in edges : x.from = src}}
            ELSE {Append(x[1], x[2]) : x \in
                     {t \in longer[k - 1] \X edges :
                         /\ t[2].from = t[1][k - 1].to /\ t[2].from \in transit
                         /\ t[2].to # src /\ \A j \in 1..k - 1 : t[1][j].to # t[2].to}}
    IN  UNION {longer[k] : k \in 1..Cardinality(Names) - 1}

PathCost(p) == MapThenSumSet(LAMBDA k : p[k].cost, DOMAIN p)
Cheapest(paths, dst) ==
    LET there == {p \in paths : p[Len(p)].to = dst}
        least == Min({PathCost(p) : p \in there})
    IN  {p \in there : PathCost(p) = least}

Hosts(f) == {m \in Names : f.kind[m] = "host"}

\* derive.rs: "for every ordered pair of members, count the SHORTEST paths in the
\* zone's derived graph; two of them is an ECMP pair": the search finds one exactly
\* when there is one.
OnePath ==
    answer \in {"accepted", "equal cost"} =>
        (answer = "accepted") =
            \A src \in Names :
                LET paths == PathsFrom(Edges(fabric), src, Hosts(fabric))
                IN  \A dst \in Names \ {src} : Cardinality(Cheapest(paths, dst)) <= 1

\* The legs whose wires are up.
LiveRows(m) == {d \in Rows(fabric, m) : <<m, WireOn(fabric, m, d)>> \notin down}

\* Whatever wires are down, the ladder keeps its order in a zone that has a
\* universal segment: members that domain segments connect by way of hosts use
\* neither the universal one nor a leaf ("a universal path must still beat a
\* black-holing leaf"), and no member's traffic crosses a leaf.
PathsRanked ==
    answer = "accepted" /\ fabric.universal =>
        LET domain == EdgesOn(fabric, [m \in Names |-> LiveRows(m)])
            all    == domain \cup UniversalEdges(fabric)
        IN  \A src \in Names :
                LET apart == PathsFrom(domain, src, Hosts(fabric))
                    paths == PathsFrom(all, src, Names)
                IN  \A dst \in Names \ {src} : \A p \in Cheapest(paths, dst) :
                        /\ \A k \in 2..Len(p) : fabric.kind[p[k].from] = "host"
                        /\ (\E q \in apart : q[Len(q)].to = dst) => \A k \in 1..Len(p) : p[k].via # "any"

\* The costs order the paths of an accepted zone: one cheapest path to every
\* member while all wires are up, and domain before universal before leaf
\* whatever wires are down (derive.rs, costs and ecmp check).
PathsOrdered == OnePath /\ PathsRanked
=============================================================================
