----------------------------- MODULE MCSidecar -----------------------------
(***************************************************************************)
(* The sidecar's processes with their engines, and the query memo of one   *)
(* of them, for TLC. The two share no variable, so the run explores each   *)
(* beside a standing copy of the other; and the choice of an engine reads  *)
(* nothing that another process writes, so one process at a time is        *)
(* started on every host, and two at once on hosts that differ in the      *)
(* engine they end up with. part says which of the three is explored.      *)
(***************************************************************************)
EXTENDS Sidecar, QueryMemo, TLC

CONSTANTS p1, p2, n1, n2, c1, c2, t1, t2

VARIABLE part

(***************************************************************************)
(* Hosts: a Linux build with two accelerators, a plain ORT build, a build  *)
(* for Windows that loads its runtime, a Mac; for a family tract can run   *)
(* and one it cannot; with each engine working or failing, and each switch *)
(* on and off. Every engine outranks another in one of them, and every     *)
(* answer of an attempt to build occurs.                                   *)
(***************************************************************************)
Cuda == "ort/CUDA"
TensorRT == "ort/TensorRT"
MCProviders == {Cuda, TensorRT}

\* a Linux build with two providers, everything working
Gpu == [ort |-> TRUE, eps |-> <<Cuda, TensorRT>>, dylib |-> "static", macos |-> FALSE,
        macosEngine |-> "auto", kill |-> "unset", family |-> "bert",
        works |-> {Cuda, TensorRT, Tract, OrtCpu}]

Mac == [Gpu EXCEPT !.macos = TRUE, !.eps = <<Cuda>>]

MCHosts ==
    {Gpu,
     [Gpu EXCEPT !.works = {TensorRT, Tract, OrtCpu}],
     [Gpu EXCEPT !.works = {OrtCpu}],
     [Gpu EXCEPT !.works = {}, !.family = "modernbert"],
     [Gpu EXCEPT !.works = {Tract, OrtCpu}, !.family = "modernbert", !.kill = "unknown"],
     [Gpu EXCEPT !.kill = "tract"],
     [Gpu EXCEPT !.kill = "tract", !.family = "modernbert"],
     [Gpu EXCEPT !.dylib = "missing", !.family = "modernbert"],
     [Gpu EXCEPT !.eps = << >>, !.ort = FALSE, !.works = {Cuda, Tract, OrtCpu}],
     Mac,
     [Mac EXCEPT !.works = {Cuda, OrtCpu}],
     [Mac EXCEPT !.macosEngine = "ort"],
     [Mac EXCEPT !.macosEngine = "tract", !.works = {Cuda, OrtCpu}]}

\* A GPU that works, and one that is out of memory for the second process
FewHosts == {Gpu, [Gpu EXCEPT !.works = {OrtCpu}]}

MCInit == Init /\ MemoInit /\ part \in {"choice", "provenance", "memo"}

MCNext == \/ part # "memo" /\ Next /\ UNCHANGED <<part, memoVars>>
          \/ part = "memo" /\ MemoNext /\ UNCHANGED <<part, vars>>

MCSpec == MCInit /\ [][MCNext]_<<part, vars, memoVars>>

\* The bound on each part
Bounds ==
    /\ part = "choice" => /\ meta = None
                          /\ \A n \in Node : rows[n] = NoRow
                          /\ \A p, q \in Proc : p = q \/ proc[p] = Off \/ proc[q] = Off
    /\ part = "provenance" => \A p \in Proc :
         "host" \in DOMAIN proc[p] => proc[p].host \in FewHosts

MCEngines == {Tract, OrtCpu}

\* Every variable has its type.
MCTypeOK == SidecarTypeOK /\ MemoTypeOK

\* The processes, the nodes, the callers and the texts are interchangeable
Symmetric == Permutations({p1, p2}) \cup Permutations({n1, n2})
             \cup Permutations({c1, c2}) \cup Permutations({t1, t2})
=============================================================================
