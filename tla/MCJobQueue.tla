----------------------------- MODULE MCJobQueue -----------------------------
(* Small instances of JobQueue: worker processes that poll one kind.        *)
EXTENDS JobQueue

CONSTANTS j1, j2, p1, p2, k1

OneKind   == {k1}
TwoProcs  == {p1, p2}
OneProc   == {p1}

LoopsOne  == TwoProcs \X OneKind       \* two replicas, one kind
LoopsSolo == OneProc \X OneKind        \* one process, one kind

KindOfOne == [l \in LoopsOne |-> l[2]]
ProcOfOne == [l \in LoopsOne |-> l[1]]
KindOfSolo == [l \in LoopsSolo |-> l[2]]
ProcOfSolo == [l \in LoopsSolo |-> l[1]]
=============================================================================
