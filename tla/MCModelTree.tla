------------------------------ MODULE MCModelTree ------------------------------
(***************************************************************************)
(* A series with a parallel in it, and the string "(o)-0", in which the    *)
(* bracket has two owners.  The heap has room for two trees.               *)
(***************************************************************************)
EXTENDS ModelTreeProps

MCPlans ==
    {<<Node("w", <<>>), Node("c", <<>>), Node("p", <<>>),
       Node("parallel", <<2, 3>>), Node("serial", <<1, 4>>)>>,
     <<Node("o", <<>>), Node("serial", <<1, 1>>)>>}

Symmetry == Permutations(Models)
================================================================================
