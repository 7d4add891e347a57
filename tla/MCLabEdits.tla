----------------------------- MODULE MCLabEdits -----------------------------
(* A switch with an uplink, a virtual machine with two interfaces, of which *)
(* the second is joined to a container, and a disk; and the same nodes as   *)
(* another program may have written them, with a DHCP server.               *)
EXTENDS ConnectMode

MCIds == {"v", "c", "s", "u", "y"}
MCPaths == {"", "p"}
MCMacs == {"", "m1"}
MCFold == [id \in MCIds \union {"S", "", "D"} |-> CASE id = "S" -> "s" [] OTHER -> id]
\* The runtime gives the switches s and y one interface name.
MCBridge == [id \in MCIds \union {"S"} |-> IF id = "y" THEN "s" ELSE id]
MCDefaultCaps == {"net"}
MCSupported == {"net", "sys"}

V1 == Endpoint("vm", "v", 1)
V2 == Endpoint("vm", "v", 2)
C1 == Endpoint("container", "c", 1)
Drawn(kind, id) == [kind |-> kind, id |-> id]

Wired ==
  [nodes  |-> << [Node("s", "switch") EXCEPT !.mode = "macnat-bridge", !.uplinks = <<"u">>],
                 [Node("u", "external") EXCEPT !.mode = "nat"],
                 [Node("v", "vm") EXCEPT !.disk = "p", !.nics = <<NIC("s", "", "m1"), NIC("", "", "m2")>>],
                 [Node("c", "container") EXCEPT !.nics = <<NIC("", "", "m3")>>] >>,
   links  |-> << [from |-> V2, to |-> C1] >>,
   placed |-> {"v", "s"},
   drawn  |-> {[from |-> Drawn("switch", "s"), to |-> Drawn("external", "u")]},
   disks  |-> {Disk("d", "p", Drawn("vm", "v"))}]

\* Not as Normalize leaves it: an old field, empty modes, a name that is the id.
Served ==
  [nodes  |-> << [Node("s", "switch") EXCEPT !.mode = "nat", !.legacy = "u"],
                 [Node("u", "external") EXCEPT !.name = "u"],
                 [Node("c", "container") EXCEPT !.dhcp = TRUE, !.nics = <<NIC("s", "", "")>>],
                 [Node("v", "vm") EXCEPT !.name = "D", !.nics = <<NIC("", "u", "m2")>>] >>,
   links  |-> << >>, placed |-> {}, drawn |-> {}, disks |-> {}]

\* A file that another program spoils: its link leads to an interface in use.
Spoilt == [Wired EXCEPT !.links = << [from |-> V1, to |-> C1] >>]

MCHandLabs == {Wired, Served, Spoilt}
=============================================================================
