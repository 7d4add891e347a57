----------------------------- MODULE ConnectMode -----------------------------
(***************************************************************************)
(* The connect mode of the terminal UI (topologyui/connect.go): an          *)
(* interface, a switch or an uplink is chosen, then a node to connect it    *)
(* to, then an interface of that node.  Each choice is a key of its own,    *)
(* and the edits they make are the transactions of LabEdits; the palette    *)
(* stays open to other edits while the mode is on.  The mode remembers its  *)
(* source by node and place, whatever becomes of them.                      *)
(***************************************************************************)
EXTENDS LabCommands

VARIABLES
  connect,   \* ConnectMode and the overlay: its stage, source and target node
  then       \* what the handler goes on to once its transaction is over

modeVars == <<connect, then>>
allVars == <<vars, modeVars>>

Nobody == [kind |-> None, id |-> None]
Off == [stage |-> "off", source |-> Endpoint(None, None, 0), target |-> Nobody]
Nothing == [do |-> "nothing"]

\* clearConnectMode
ClearConnectMode == connect' = Off /\ then' = Nothing
Stays == UNCHANGED modeVars

ModeInit == Init /\ connect = Off /\ then = Nothing

\* Keys are read when no handler is at work.
AtKeys == phase = "idle" /\ then = Nothing
NodesOf(l) == {[kind |-> n.kind, id |-> n.id] : n \in ToSet(l.nodes)}
Exists(l, kind, id) == [kind |-> kind, id |-> id] \in NodesOf(l)
IsManaged(l, e) == Exists(l, e.kind, e.id) /\ NodeOf(l, e.kind, e.id).dhcp

-----------------------------------------------------------------------------
(* What may be chosen *)

ExternalConnected(l, id) ==
  \E n \in ToSet(l.nodes) :
    \/ n.kind = "switch" /\ id \in ToSet(SwitchUplinks(n))
    \/ \E nic \in ToSet(n.nics) : nic.ext = id

DHCPCompatibleSwitch(l, sw, self) ==
  /\ TakesDHCP(l, NodeOf(l, "switch", sw))
  /\ \A n \in ToSet(l.nodes) : n.kind = "container" /\ n.id # self /\ n.dhcp => DHCPSwitch(n) # sw

CanConnectTo(l, source, n) ==
  /\ n.kind # source.kind \/ n.id # source.id
  /\ IF IsManaged(l, source) THEN n.kind = "switch" /\ DHCPCompatibleSwitch(l, n.id, source.id)
     ELSE /\ ~IsManaged(l, n)
          /\ n.kind = "external" /\ source.kind # "external" => ~ExternalConnected(l, n.id)
          /\ source.kind = "switch" => n.kind = "external"
          /\ source.kind = "external" => n.kind = "switch"

Choosing(l, source) ==
  IF \E n \in NodesOf(l) : CanConnectTo(l, source, n)
  THEN [Off EXCEPT !.stage = "choose", !.source = source] ELSE Off

-----------------------------------------------------------------------------
(* The mode *)

MayStart == AtKeys /\ connect.stage # "target" /\ events < MaxEvents

\* An interface is disconnected, and that is saved, before the mode begins; the
\* interface of a DHCP server keeps its switch until it has another.
StartConnectNICIndex(kind, id, i) ==
  /\ MayStart /\ Exists(cur, kind, id) /\ i \in DOMAIN NodeOf(cur, kind, id).nics
  /\ IF Managed(kind, id)
     THEN /\ connect' = Choosing(cur, Endpoint(kind, id, i))
          /\ UNCHANGED <<vars, then>>
     ELSE /\ DisconnectNIC(kind, id, i)
          /\ then' = [do |-> "choose", source |-> Endpoint(kind, id, i)]
          /\ UNCHANGED connect

StartConnectEndpoint(kind, id) ==
  /\ MayStart /\ Exists(cur, kind, id)
  /\ kind = "external" => ~ExternalConnected(cur, id)
  /\ connect' = Choosing(cur, Endpoint(kind, id, 0))
  /\ UNCHANGED <<vars, then>>

\* The answer of a handler's transaction: a failed one ends the handler where
\* it is.
Answered ==
  /\ Finish /\ UNCHANGED events
  /\ connect' = IF then.do = "choose" /\ result = "ok" THEN Choosing(cur, then.source) ELSE connect
  /\ then' = IF then.do = "join" /\ result = "ok" THEN then ELSE Nothing

Source == connect.source

\* The interface, or the node, is there; edits of the palette and of other
\* programs may have taken it away.
There(e) == Exists(cur, e.kind, e.id) /\ (e.nic > 0 => e.nic \in DOMAIN NodeOf(cur, e.kind, e.id).nics)

\* A request that the service refuses ends the mode too.
EndsWith(accepted, Request) ==
  /\ ClearConnectMode
  /\ IF accepted THEN Request ELSE UNCHANGED vars

ConnectSwitchExternal(sw, ext) ==
  EndsWith(Resolve(cur, sw, {"switch"}) # None /\ Resolve(cur, ext, {"external"}) # None,
           UpdateSwitch(sw, None, None, ext))

ConnectSelectedEndpoint(n) ==
  /\ AtKeys /\ connect.stage = "choose" /\ CanConnectTo(cur, Source, n)
  /\ \/ /\ n.kind \in {"switch", "external"} /\ Source.kind \in Workload
        /\ EndsWith(There(Source), ConnectNIC(Source.kind, Source.id, Source.nic, n.id, {n.kind}, None))
     \/ n.kind = "external" /\ Source.kind = "switch" /\ ConnectSwitchExternal(Source.id, n.id)
     \/ n.kind = "switch" /\ Source.kind = "external" /\ ConnectSwitchExternal(n.id, Source.id)
     \/ /\ n.kind \in Workload
        /\ connect' = [connect EXCEPT !.stage = "target", !.target = n]
        /\ UNCHANGED <<vars, then>>

AtTarget == AtKeys /\ connect.stage = "target" /\ Exists(cur, connect.target.kind, connect.target.id)
TargetNIC(j) == Endpoint(connect.target.kind, connect.target.id, j)
Joins(f) ==
  EndsWith(There(Source) /\ Has(Source) /\ Has(f),
           ConnectDirectNIC(Source.kind, Source.id, Source.nic, f.kind, f.id, f.nic))

ConnectSelectedTargetNIC ==
  /\ AtTarget
  /\ \E j \in DOMAIN NodeOf(cur, connect.target.kind, connect.target.id).nics : Joins(TargetNIC(j))

\* "New NIC": a transaction for the interface, and one for the link.
NewNIC ==
  LET to == connect.target
  IN  /\ AtTarget /\ events <= MaxEvents
      /\ AddNIC(to.kind, to.id, None)
      /\ then' = [do |-> "join", nic |-> Len(NodeOf(cur, to.kind, to.id).nics) + 1]
      /\ UNCHANGED connect

JoinNewNIC ==
  /\ phase = "idle" /\ then.do = "join"
  /\ IF There(TargetNIC(then.nic)) THEN Joins(TargetNIC(then.nic))
     ELSE then' = Nothing /\ UNCHANGED <<vars, connect>>

Escape == AtKeys /\ connect.stage # "off" /\ ClearConnectMode /\ UNCHANGED vars

\* The palette closes the menu of target interfaces and leaves the mode on.
OpenPalette ==
  /\ AtKeys /\ connect.stage = "target"
  /\ connect' = [connect EXCEPT !.stage = "choose", !.target = Nobody]
  /\ UNCHANGED <<vars, then>>

Connects ==
  \/ \E kind \in Workload, id \in Ids, i \in Indices : StartConnectNICIndex(kind, id, i)
  \/ \E kind \in {"switch", "external"}, id \in Ids : StartConnectEndpoint(kind, id)
  \/ AtKeys /\ \E n \in NodesOf(cur) : ConnectSelectedEndpoint(n)
  \/ ConnectSelectedTargetNIC \/ NewNIC \/ JoinNewNIC \/ Escape \/ OpenPalette

OtherEdit == AtKeys /\ connect.stage # "target" /\ Edit /\ Stays

Mishaps ==
  /\ Mishap
  /\ IF phase' = "down" THEN ClearConnectMode ELSE Stays

ModeNext ==
  \/ Connects \/ OtherEdit
  \/ (Answered \/ Mishaps \/ (Saving /\ Stays)) /\ UNCHANGED op

ModeSpec == ModeInit /\ [][ModeNext]_allVars

-----------------------------------------------------------------------------
(* Properties *)

\* The bound on edits is passed by the two transactions with which a mode that
\* is on may end.
ModeTypeOK ==
  /\ TypeOK
  /\ connect.stage \in {"off", "choose", "target"}
  /\ connect.stage = "off" => connect = Off
  /\ (connect.stage = "target") = (connect.target # Nobody)
  /\ events <= MaxEvents + 2
=============================================================================
