----------------------------- MODULE MCHostNet -----------------------------
(* Labs between which a user edits one file: two containers behind NAT whose *)
(* addresses collide, a third that moves them, MacNAT on a switch and on an  *)
(* uplink, a direct link, uplinks that are a bridge or a card of the host,   *)
(* and a DHCP server beside virtual machines.                                *)
EXTENDS HostNet

MCIds == {"s", "u", "w", "m", "a", "b", "c", "v"}
MCFold == [id \in MCIds \union {""} |-> id]
MCBridge == [id \in MCIds |-> id]
MCIface == [id \in MCIds |-> CASE id = "u" -> "eth0" [] id = "w" -> "br0" [] OTHER -> "eth1"]
MCLinuxBridges == {"br0"}
MCPlaces == {"a", "b", "c"} \X (1..2)
\* The third container's name comes first, and all but one prefer one slot.
MCRank == [key \in MCPlaces |-> (CASE key[1] = "c" -> 0 [] key[1] = "a" -> 2 [] OTHER -> 4) + key[2]]
MCPreferred == [key \in MCPlaces |-> IF key = <<"b", 2>> THEN 0 ELSE 1]
MCSlots == [sw |-> 2, ext |-> 2]
MCCaps == {"net"}

Switch(id, mode, uplinks) == [Node(id, "switch") EXCEPT !.mode = mode, !.uplinks = uplinks]
Uplink(id, mode) == [Node(id, "external") EXCEPT !.mode = mode]
Box(id, ns) == [Node(id, "container") EXCEPT !.nics = ns, !.desired = "running"]
VM(id, ns) == [Node(id, "vm") EXCEPT !.nics = ns, !.desired = "running"]
Lab(nodes, links) == [nodes |-> nodes, links |-> links, placed |-> {}, drawn |-> {}, disks |-> {}]

Natted ==
  Lab(<<Switch("s", "nat", <<"u">>), Uplink("u", "nat"),
        Box("a", <<NIC("s", "", ""), NIC("", "u", "")>>), Box("b", <<NIC("s", "", "m1")>>)>>, <<>>)

\* A third container takes the first's address; the network is full.
Crowded == [Natted EXCEPT !.nodes = @ \o <<Box("c", <<NIC("s", "", "")>>)>>]

\* The second is stopped and has another MAC address, the first is gone.
Moved ==
  [Natted EXCEPT !.nodes =
     <<Switch("s", "nat", <<"u">>), Uplink("u", "nat"), Box("c", <<NIC("s", "", "")>>),
       [Box("b", <<NIC("s", "", "m2")>>) EXCEPT !.desired = "stopped"]>>]

Macked ==
  Lab(<<Switch("s", "bridge", <<"m">>), Uplink("m", "macnat"),
        Box("a", <<NIC("s", "", "")>>), VM("v", <<NIC("s", "", ""), NIC("", "m", "m1")>>)>>, <<>>)

Linked ==
  Lab(<<Uplink("w", "direct"), Uplink("m", "direct"),
        Box("a", <<NIC("", "", ""), NIC("", "w", "")>>), Box("b", <<NIC("", "", ""), NIC("", "m", "m1")>>),
        VM("v", <<NIC("", "", ""), NIC("", "w", "")>>)>>,
      <<[from |-> Endpoint("container", "a", 1), to |-> Endpoint("vm", "v", 1)]>>)

Served ==
  Lab(<<Switch("s", "nat", <<"u", "w">>), Uplink("u", "nat"), Uplink("w", "nat"),
        [Box("c", <<NIC("s", "", "")>>) EXCEPT !.dhcp = TRUE],
        [VM("v", <<NIC("", "u", "")>>) EXCEPT !.desired = "stopped"]>>, <<>>)

MCLabs == {Natted, Crowded, Moved, Macked, Linked, Served}
ASSUME LabsAssumption == \A l \in MCLabs : Valid(l) /\ Normalize(l) = l
=============================================================================
