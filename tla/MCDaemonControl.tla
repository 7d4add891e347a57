-------------------------- MODULE MCDaemonControl --------------------------
(***************************************************************************)
(* Two labs of up to two workloads and the UIs of two users: the default   *)
(* lab of one is that of the unit file, as it is for root.                 *)
(***************************************************************************)
EXTENDS DaemonControl

CONSTANTS default, other, w1, w2, ui, ui2

MCLabs      == {default, other}
MCWork      == {w1, w2}
MCCallers   == {ui, ui2}
MCDefault   == [c \in MCCallers |-> IF c = ui THEN default ELSE other]
\* The properties speak only of Applies that do not overlap.
MCApart     == ~clash
MCInitFiles == [l \in MCLabs |-> IF l = default THEN File({w1}) ELSE File({w1, w2})]
=============================================================================
