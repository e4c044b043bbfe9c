---------------------------- MODULE VariableGraph ----------------------------
(***************************************************************************)
(* The graph of a dashboard's variables: an edge <<p, c>> says that the    *)
(* query of c mentions p.  Only variables of type QUERY have a query, so   *)
(* only they have parents.  The orders that decide the result are kept:    *)
(* the keys of the graph's object come in the order of the variables.      *)
(***************************************************************************)
EXTENDS Naturals, FiniteSets, SequencesExt

CONSTANTS
  Keys,    \* the names of variables, in the order they are listed in
  Graphs   \* the dashboards' variables that the algorithms are checked on

Names == ToSet(Keys)

\* A dashboard's variables: their names, which of them are of type QUERY, and
\* the references in their queries
IsDashboard(d) ==
  /\ d.names \subseteq Names /\ d.query \subseteq d.names
  /\ d.refs \subseteq d.names \X d.query

ASSUME GraphAssumption ==
  /\ Keys \in Seq(Names) /\ IsInjective(Keys)
  /\ \A d \in Graphs : IsDashboard(d)

\* s.filter: the elements of s that are in S, in the order of s
Only(s, S) ==
  LET only[n \in 0..Len(s)] ==
        IF n = 0 THEN <<>>
        ELSE IF s[n] \in S THEN Append(only[n - 1], s[n]) ELSE only[n - 1]
  IN  only[Len(s)]

\* buildDependencies: the variables whose queries mention v, in listing order
Children(d, v) == Only(Keys, {c \in d.query : <<v, c>> \in d.refs})

\* buildParentDependencyGraph
Parents(d, v) == {p \in d.names : <<p, v>> \in d.refs}

Listed(d) == Only(Keys, d.names)

\* Kahn's algorithm: its state before the loop ...
Kahn0(d) ==
  [queue  |-> Only(Listed(d), {v \in d.names : Parents(d, v) = {}}),
   degree |-> [v \in d.names |-> Cardinality(Parents(d, v))],
   order  |-> <<>>]

Degrees(d, k, v) ==
  [c \in d.names |-> IF <<v, c>> \in d.refs THEN k.degree[c] - 1 ELSE k.degree[c]]

KahnNextTooEarly(d, k) ==
  IF k.queue = <<>> THEN k
  ELSE LET v == Head(k.queue)
       IN  [queue  |-> Tail(k.queue) \o
                         Only(Children(d, v), {c \in d.names : k.degree[c] = Cardinality(Parents(d, c))}),
            degree |-> Degrees(d, k, v),
            order  |-> Append(k.order, v)]

\* ... and after one more round
KahnNext(d, k) ==
  IF k.queue = <<>> THEN k
  ELSE LET v == Head(k.queue)
           degree == Degrees(d, k, v)
       IN  [queue  |-> Tail(k.queue) \o Only(Children(d, v), {c \in d.names : degree[c] = 0}),
            degree |-> degree,
            order  |-> Append(k.order, v)]

\* Every round that does something lists one variable.
TopologicalOrder(d) ==
  LET rounds == Cardinality(d.names)
      kahn[n \in 0..rounds] ==
        IF n = 0 THEN Kahn0(d) ELSE KahnNext(d, kahn[n - 1])
  IN  kahn[rounds].order

HasCycle(d) == Len(TopologicalOrder(d)) # Cardinality(d.names)

\* The order the selection works with leaves out what is not a query.
QueryOrder(d) == Only(TopologicalOrder(d), d.query)

\* onUpdateVariableNode: what it has visited and called back with once it has
\* come to v ...
Visit(d, node, acc, v) ==
  IF v = node \/ v \in acc.visited
  THEN [visited |-> acc.visited \cup {v} \cup ToSet(Children(d, v)),
        called  |-> Append(acc.called, v)]
  ELSE acc

\* ... and the variables it calls back with
UpdatedNodes(d, order, node) ==
  LET visit[n \in 0..Len(order)] ==
        IF n = 0 THEN [visited |-> {}, called |-> <<>>]
        ELSE Visit(d, node, visit[n - 1], order[n])
  IN  visit[Len(order)].called

-----------------------------------------------------------------------------
(* What the above is meant to compute. *)

\* A set of variables that is closed under the references of queries
Closed(d, S) == \A p \in S, c \in d.query : <<p, c>> \in d.refs => c \in S

\* The variables that node's value reaches over one or more queries
Descendants(d, node) ==
  {v \in d.query : \A S \in SUBSET d.query :
     Closed(d, S) /\ (\A c \in d.query : <<node, c>> \in d.refs => c \in S) => v \in S}

\* The variables on a cycle, or fed by one
Cyclic(d) ==
  {v \in d.names : \E u \in d.names :
     u \in Descendants(d, u) /\ (v = u \/ v \in Descendants(d, u))}

\* The order lists the variables outside cycles, each after its parents, and
\* a cycle is reported exactly when there is one.
OrderIsTopological ==
  \A d \in Graphs :
    LET order == TopologicalOrder(d)
    IN  /\ ToSet(order) = d.names \ Cyclic(d) /\ IsInjective(order)
        /\ \A i, j \in DOMAIN order : <<order[i], order[j]>> \in d.refs => i < j
        /\ HasCycle(d) <=> Cyclic(d) # {}

\* A changed query variable calls back for itself and for everything below it,
\* in the order; a changed variable of another type for nothing at all.
UpdatesReachAllBelow ==
  \A d \in Graphs, v \in Names :
    LET called == UpdatedNodes(d, QueryOrder(d), v)
    IN  called = IF v \in ToSet(QueryOrder(d))
                 THEN Only(QueryOrder(d), {v} \cup Descendants(d, v))
                 ELSE <<>>
=============================================================================
