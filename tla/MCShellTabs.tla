---------------------------- MODULE MCShellTabs ----------------------------
(***************************************************************************)
(* One tab whose opening is followed by a restart; two tabs can be had by  *)
(* naming both in MCTabs.                                                  *)
(***************************************************************************)
EXTENDS ShellTabs

CONSTANTS one, two

MCOneTab  == {one}
MCOneGen  == [t \in MCOneTab |-> 3]
MCTwoTabs == {one, two}
MCTwoGens == [t \in MCTwoTabs |-> 1]
=============================================================================
