----------------------------- MODULE MCInlining -----------------------------
(* Small graphs of shapes, for TLC.                                        *)
EXTENDS Inlining

\* All references between three shapes.
NodeGraphs == SUBSET ((1 .. 3) \X {"sh:node"} \X (1 .. 3))

\* Shape 1 has the properties 2 and 3 with qualified shapes, which may refer on.
PropertyGraphs ==
    SUBSET {<<1, "sh:property", 2>>, <<1, "sh:property", 3>>, <<2, "sh:qualifiedValueShape", 4>>,
            <<3, "sh:qualifiedValueShape", 2>>, <<3, "sh:node", 4>>, <<4, "sh:not", 3>>,
            <<4, "sh:property", 2>>}

\* Four shapes in a circle, with shortcuts and a shape that refers to itself.
CircleGraphs ==
    {{<<1, "sh:node", 2>>, <<2, "sh:node", 3>>, <<3, "sh:node", 4>>} \cup more :
        more \in SUBSET {<<4, "sh:node", 1>>, <<3, "sh:node", 1>>, <<1, "sh:node", 4>>,
                         <<2, "sh:node", 1>>, <<4, "sh:node", 4>>}}

SmallGraphs == NodeGraphs \cup PropertyGraphs \cup CircleGraphs
=============================================================================
