------------------------------ MODULE MCIndex ------------------------------
\* Index for TLC.
EXTENDS Index

\* Every metric of Count nodes with two distances, near and far, in which the entry is
\* far from the node whose vector is asked for.  With alpha 1.2 a far candidate is
\* pruned by any node taken before, a near one only by one that is near to it; with 1.0
\* no near one, and a far one only by a node that is near to it.
MCMetrics ==
  {[p \in Nodes |-> [q \in Nodes |->
      IF p = q THEN 0 ELSE IF {p, q} \in near THEN 4 ELSE 5]] :
     near \in SUBSET ({{p, q} : p, q \in Nodes} \ {{entry, Count - 1}})}

\* A degree whose lists overflow, and one that cuts nothing and needs padding.
MCConfigs ==
  {[degree |-> 2, beam_width |-> 3, alpha |-> 12, max_visits |-> 9],
   [degree |-> 4, beam_width |-> 4, alpha |-> 10, max_visits |-> 4]}

\* Another vector, to which every node is closer than the entry, none as close as
\* another.
MCDistances == {[n \in Nodes |-> IF n = entry THEN Count ELSE n]}

\* A beam that holds two copies of a node, none, and a budget that runs out.
MCParams == {[top_k |-> 1, beam_width |-> 2, max_visits |-> 9],
             [top_k |-> 2, beam_width |-> 0, max_visits |-> 9],
             [top_k |-> 2, beam_width |-> 1, max_visits |-> 2]}
=============================================================================
