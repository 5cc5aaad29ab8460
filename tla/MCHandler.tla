----------------------------- MODULE MCHandler -----------------------------
(* Model-checking instance of Handler: two numeric names shared by the    *)
(* instances and the single appliance, so appliance 1 and instance 1 have *)
(* the same directory name in different roots.                            *)
EXTENDS Handler, TLC

CONSTANTS n1, n2, w1, w2

MCIds == {n1, n2}
MCApps == {n1}
MCOneId == {n1}
MCOneWorker == {w1}
MCTwoWorkers == {w1, w2}
\* Thread slots are interchangeable: nothing in Handler names one.
MCWorkerSymmetry == Permutations(MCTwoWorkers)
\* At most one run thread at a time: the run-against-run interleavings are
\* explored on one instance by MCHandler_locks; this bound keeps the
\* run-against-destroy ones on two instances within reach.
MCOneRunAtATime == Cardinality({t \in Workers : th[t].req.act = "run"}) <= 1
====
