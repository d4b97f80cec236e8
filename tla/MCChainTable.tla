---------------------------- MODULE MCChainTable ----------------------------
(* ChainTable for TLC. *)
EXTENDS ChainTable, TLC

EgressCalls == {"connect_egress", "disconnect_egress", "read_table_egress"}
IngressCalls == {"connect_ingress", "disconnect_ingress", "read_table_ingress"}
PairCalls == {"connect", "disconnect", "connect_ingress", "connect_egress",
              "disconnect_ingress", "disconnect_egress"}

\* The egress side with callers who only avoid concurrent ioctls, the ingress
\* side with careful ones, and both sides together, with a prompt FPGA and with
\* one that may be late.
Sound == {[calls |-> EgressCalls, timeout |-> TRUE, serial |-> TRUE, careful |-> FALSE],
          [calls |-> IngressCalls, timeout |-> TRUE, serial |-> TRUE, careful |-> TRUE],
          [calls |-> PairCalls, timeout |-> FALSE, serial |-> TRUE, careful |-> TRUE],
          [calls |-> {"connect", "disconnect_egress"}, timeout |-> TRUE, serial |-> TRUE,
           careful |-> TRUE]}

ChainSymmetry == Permutations(Procs) \cup Permutations(Fchs) \cup Permutations(Sessions)
=============================================================================
