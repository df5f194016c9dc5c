---------------------------- MODULE MCPodResize ----------------------------
(***************************************************************************)
(* Values for the constants of PodResize.                                  *)
(***************************************************************************)
EXTENDS PodResize

CONSTANTS i1, i2, c1, c2, f1, f2, t1

Base(policy) ==
    [policy |-> policy, redeploy |-> Nil, restart |-> Nil,
     template |-> [meta |-> Nil, restarted |-> Nil, stamp |-> Nil,
                   image |-> i1, cpu |-> c1, fixed |-> f1]]

\* With the opt-in, edits of the images, of the resources and of both; and what is
\* structure: the rest, a restart and, without the opt-in, the resources.
SmallWorkloads ==
    LET b == Base(BestEffort)
        n == Base(Nil)
    IN  {b, [b EXCEPT !.template.cpu = c2],
         [b EXCEPT !.template.image = i2, !.template.cpu = c2],
         [b EXCEPT !.template.fixed = f2], [b EXCEPT !.template.restarted = t1],
         n, [n EXCEPT !.template.image = i2], [n EXCEPT !.template.cpu = c2]}
=============================================================================
