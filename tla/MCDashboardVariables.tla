------------------------ MODULE MCDashboardVariables ------------------------
(* Three variables, listed as a, b, c, and dashboards of the shapes below; *)
(* the graph algorithms are checked on every graph of the three.           *)
EXTENDS DashboardVariables

CONSTANTS a, b, c

MCKeys == <<a, b, c>>

Of(query, refs) == [names |-> {a, b, c}, query |-> query, refs |-> refs]

Chain    == Of({a, b, c}, {<<c, b>>, <<b, a>>})
TwoRoots == Of({a, b, c}, {<<a, c>>, <<b, c>>})
Custom   == Of({b, c}, {<<a, b>>, <<b, c>>})
Cycle    == Of({a, b, c}, {<<b, c>>, <<c, b>>})
NoQuery  == [names |-> {a, b}, query |-> {}, refs |-> {}]

MCDashboards == {Chain, TwoRoots, Custom, Cycle, NoQuery}

MCGraphs ==
  UNION {[names : {{a, b, c}}, query : {query}, refs : SUBSET ({a, b, c} \X query)] :
           query \in SUBSET {a, b, c}}
=============================================================================
