---------------------------- MODULE MCStatusView ----------------------------
(* A virtual machine and a container, which are to be stopped when the UI    *)
(* starts: two edits and a mishap lead to every other pair of states.        *)
EXTENDS StatusView

MCInit == Init /\ daemon # "other" /\ \A w \in Workloads : desired[w] = "stopped" /\ real[w] = "missing"
MCSpec == MCInit /\ [][Next]_vars /\ Fairness
=============================================================================
