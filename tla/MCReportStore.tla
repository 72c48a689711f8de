--------------------------- MODULE MCReportStore ---------------------------
(* Earlier histories and hosts for the run of ReportStore.                 *)
EXTENDS ReportStore

V(st, ds) == [st |-> st, ds |-> ds]
\* An item that changed and another that vanished; and a host whose newest
\* report came without items (its driver failed half-way), whose next one may
\* differ in the description alone.  One without history is what Delete leaves.
Upgraded == {<<(1 :> V("pass", "e")) @@ (2 :> V("fail", "d")), (1 :> V("fail", "d"))>>,
             <<(1 :> V("pass", "e")), <<>>>>}
HostSymmetry == Permutations(Host)
=============================================================================
