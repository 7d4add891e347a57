------------------------------ MODULE LabEdits ------------------------------
(***************************************************************************)
(* The edits of a lab's nodes, interfaces and links (internal/topology),    *)
(* each a transaction of LabSession: the checks that the handler makes      *)
(* itself are guards, what it changes is the lab handed to Apply, and what  *)
(* Validate has to say comes with the save.  A refused request changes      *)
(* nothing and is no step.  References in requests are ids or names.        *)
(***************************************************************************)
EXTENDS LabRules, LabSession

CONSTANT Ids  \* ids and names that requests use

VARIABLES
  op,      \* what the edit under way names, and its renaming
  events   \* the number of edits and mishaps so far

vars == <<sessionVars, op, events>>

\* A name is a node's, an interface's MAC address, or the word for a mode, a
\* state, a path or a capability.
NodeName(id) == <<"node", id>>
MacName(mac) == <<"mac", mac>>
Word(w) == <<"word", w>>
Words(s) == {Word(w) : w \in s}

Op(names, from, to) == [names |-> names, from |-> from, to |-> to]
Names(s) == Op(s, None, None)

Init ==
  /\ SessionInit
  /\ op = Names({}) /\ events = 0

Apply(o, l) ==
  /\ events' = events + 1
  /\ cur' = l /\ Begin
  /\ op' = o

-----------------------------------------------------------------------------
(* Helpers on labs *)

OnNodes(l, Test(_), F(_)) == [l EXCEPT !.nodes = [i \in DOMAIN @ |-> IF Test(@[i]) THEN F(@[i]) ELSE @[i]]]
OnNode(l, kind, id, F(_)) == OnNodes(l, LAMBDA n : n.kind = kind /\ n.id = id, F)
OnNICs(n, F(_)) == [n EXCEPT !.nics = [i \in DOMAIN @ |-> F(@[i])]]
Subst(x, from, to) == IF x = from THEN to ELSE x

Added(l, n) == [l EXCEPT !.nodes = Append(@, n), !.placed = @ \union {n.id}]
Dropped(l, kind, id) ==
  [l EXCEPT !.nodes = Among(@, {n \in ToSet(@) : n.kind # kind \/ n.id # id}),
            !.placed = @ \ {id},
            !.drawn = {link \in @ : [kind |-> kind, id |-> id] \notin Ends(link)}]

WithoutLinksOf(l, Test(_)) ==
  [l EXCEPT !.links = Among(@, {link \in ToSet(@) : \A e \in Ends(link) : ~Test(e)})]
WithoutNodeLinks(l, kind, id) == WithoutLinksOf(l, LAMBDA e : e.kind = kind /\ e.id = id)
WithoutEndLinks(l, end) == WithoutLinksOf(l, LAMBDA e : e = end)

DetachedFrom(disks, at) == {IF d.at = at THEN [d EXCEPT !.at = Nowhere] ELSE d : d \in disks}

\* validateNodeName, for a new node and for one that is renamed.
NameFree(id, self) == id # None /\ Matches(cur, id, self) = {}

MacsOf(kind, id) == {MacName(nic.mac) : nic \in ToSet(NodeOf(cur, kind, id).nics)}
FirstOf(kind, Test(_)) ==
  LET s == Among(cur.nodes, {n \in ToSet(cur.nodes) : n.kind = kind /\ Test(n)}) IN IF s = <<>> THEN None ELSE s[1].id

\* The references that lead to a node: a request with another one is refused.
Known(kinds) == {ref \in Ids : Resolve(cur, ref, kinds) # None}
Asked(ref, kind) == IF ref = None THEN None ELSE Resolve(cur, ref, {kind})
Wire(sw, ext, mac) == IF sw # None THEN <<NIC(sw, None, mac)>> ELSE IF ext # None THEN <<NIC(None, ext, mac)>> ELSE <<>>

-----------------------------------------------------------------------------
(* Renaming: renameNodeID and rewriteNodeReferences *)

RewrittenNode(n, kind, old, new) ==
  CASE kind = "switch" -> OnNICs(n, LAMBDA nic : [nic EXCEPT !.sw = Subst(@, old, new)])
    [] kind = "external" ->
         [OnNICs(n, LAMBDA nic : [nic EXCEPT !.ext = Subst(@, old, new)])
            EXCEPT !.uplinks = [i \in DOMAIN @ |-> Subst(@[i], old, new)], !.legacy = Subst(@, old, new)]
    [] OTHER -> n

RewrittenEnd(e, kind, old, new) == IF e.kind = kind THEN [e EXCEPT !.id = Subst(@, old, new)] ELSE e
RewrittenLink(link, kind, old, new) ==
  [from |-> RewrittenEnd(link.from, kind, old, new), to |-> RewrittenEnd(link.to, kind, old, new)]

RewriteReferences(l, kind, old, new) ==
  [l EXCEPT !.nodes = [i \in DOMAIN @ |-> RewrittenNode(@[i], kind, old, new)],
            !.placed = {Subst(id, old, new) : id \in @},
            !.drawn = {RewrittenLink(link, kind, old, new) : link \in @},
            !.links = [i \in DOMAIN @ |-> RewrittenLink(@[i], kind, old, new)],
            !.disks = {[d EXCEPT !.at = RewrittenEnd(@, kind, old, new)] : d \in @}]

RenameNode(l, kind, old, new) ==
  IF old = new THEN OnNode(l, kind, old, LAMBDA n : [n EXCEPT !.name = IF @ = old THEN None ELSE @])
  ELSE RewriteReferences(OnNode(l, kind, old, LAMBDA n : [n EXCEPT !.id = new, !.name = None]), kind, old, new)

\* The request leaves the name alone (None) or asks for one that is free.
MayRename(old, new) == new \in {None, old} \/ NameFree(new, old)
Renamed(l, kind, old, new) == IF new = None THEN l ELSE RenameNode(l, kind, old, new)

-----------------------------------------------------------------------------
(* Virtual machines and containers *)

\* CreateVM and CreateContainer: without a network, the first switch. Only the
\* request for a container has a MAC address.
CreateWorkload(kind, id, path, sw, ext, mac) ==
  /\ NameFree(id, None)
  /\ sw = None \/ ext = None
  /\ LET s == IF sw = None /\ ext = None THEN FirstOf("switch", LAMBDA n : TRUE) ELSE Asked(sw, "switch")
     IN  Apply(Names({NodeName(id), MacName(mac)}), Added(cur, [Node(id, kind) EXCEPT
                   !.disk = path, !.nics = Wire(s, Asked(ext, "external"), mac)]))

\* CreateDHCP: a running container on a NAT switch that has no server yet.
FreeForDHCP(sw, self) ==
  /\ TakesDHCP(cur, NodeOf(cur, "switch", sw))
  /\ \A n \in ToSet(cur.nodes) : n.id # self /\ n.dhcp => DHCPSwitch(n) # sw

CreateDHCP(id, ref) ==
  LET sw == IF ref = None THEN FirstOf("switch", LAMBDA n : TakesDHCP(cur, n)) ELSE Resolve(cur, ref, {"switch"})
  IN  /\ NameFree(id, None) /\ sw # None /\ FreeForDHCP(sw, None)
      /\ Apply(Names({NodeName(id)}), Added(cur, [Node(id, "container") EXCEPT
                 !.nics = <<NIC(sw, None, None)>>, !.dhcp = TRUE, !.desired = "running"]))

\* UpdateVM and UpdateContainer: a name, a disk path and a network in one edit;
\* a MAC address alone goes to a container's first interface.
WithNetwork(nics, sw, ext, mac) ==
  IF sw # None \/ ext # None THEN Wire(sw, ext, mac)
  ELSE IF mac # None /\ nics # <<>> THEN [nics EXCEPT ![1].mac = mac] ELSE nics

UpdateWorkload(kind, ref, new, path, swRef, extRef, mac) ==
  LET id == Resolve(cur, ref, {kind})
      sw == Asked(swRef, "switch")
      ext == Asked(extRef, "external")
      to == IF new = None THEN id ELSE new
      netted == sw # None \/ ext # None
  IN  /\ new # None \/ path # None \/ netted \/ mac # None
      /\ sw = None \/ ext = None
      /\ NodeOf(cur, kind, id).dhcp =>
           path = None /\ ext = None /\ mac = None /\ (sw # None => FreeForDHCP(sw, id))
      /\ MayRename(id, new)
      /\ LET l1 == Renamed(cur, kind, id, new)
             l2 == IF netted THEN WithoutNodeLinks(l1, kind, to) ELSE l1
             set(n) == [n EXCEPT !.disk = IF path = None THEN @ ELSE path,
                                 !.nics = WithNetwork(@, sw, ext, mac)]
             paths == IF path = None THEN {} ELSE Words({path, NodeOf(cur, kind, id).disk})
             wires == IF netted \/ mac # None THEN {NodeName(id), NodeName(to), MacName(mac)} \union MacsOf(kind, id) ELSE {}
         IN  Apply(Op(paths \union wires, id, to),
                   OnNode(l2, kind, to, set))

DeleteWorkload(kind, ref) ==
  LET id == Resolve(cur, ref, {kind})
  IN  Apply(Names({NodeName(id)} \union MacsOf(kind, id)),
               [WithoutNodeLinks(Dropped(cur, kind, id), kind, id)
                  EXCEPT !.disks = DetachedFrom(@, [kind |-> kind, id |-> id])])

SetDesired(kind, ref, state) ==
  LET id == Resolve(cur, ref, {kind})
  IN  Apply(Names(Words({state, DesiredState(NodeOf(cur, kind, id))})),
               OnNode(cur, kind, id, LAMBDA n : [n EXCEPT !.desired = state]))

\* ContainerCapabilitySet keeps only what differs from the defaults.
WithCap(n, c, on) ==
  [n EXCEPT !.caps = [add  |-> (@.add \ {c}) \union (IF on /\ c \notin DefaultCaps THEN {c} ELSE {}),
                      drop |-> (@.drop \ {c}) \union (IF ~on /\ c \in DefaultCaps THEN {c} ELSE {})]]

SetCapability(ref, c, on) ==
  LET id == Resolve(cur, ref, {"container"})
  IN  /\ c \in Supported
      /\ ~NodeOf(cur, "container", id).dhcp
      /\ (c \in Effective(NodeOf(cur, "container", id))) # on
      /\ Apply(Names({Word(c)}), OnNode(cur, "container", id, LAMBDA n : WithCap(n, c, on)))

-----------------------------------------------------------------------------
(* Switches and uplinks *)

\* validateSwitchConfig; that the uplinks exist, Resolve has seen to.
SwitchConfig(mode, uplinks) ==
  /\ mode \in {"bridge", "nat", "macnat-bridge"}
  /\ mode = "macnat-bridge" => uplinks # <<>>

CreateSwitch(id, mode, ref) ==
  LET uplinks == IF ref = None THEN <<>> ELSE <<Asked(ref, "external")>>
  IN  /\ NameFree(id, None) /\ SwitchConfig(mode, uplinks)
      /\ Apply(Names({NodeName(id)}), Added(cur, [Node(id, "switch") EXCEPT !.mode = mode, !.uplinks = uplinks]))

\* A name, a mode and one more uplink; each is left alone where None is asked.
UpdateSwitch(ref, new, mode, extRef) ==
  LET id == Resolve(cur, ref, {"switch"})
      n == NodeOf(cur, "switch", id)
      uplinks == IF extRef = None THEN SwitchUplinks(n)
                 ELSE Distinct(Append(SwitchUplinks(n), Asked(extRef, "external")))
      to == IF new = None THEN id ELSE new
      m == IF mode = None THEN n.mode ELSE mode
  IN  /\ new # None \/ mode # None \/ extRef # None
      /\ MayRename(id, new) /\ SwitchConfig(m, uplinks)
      /\ Apply(Op(Words({n.mode, m}) \union IF extRef = None THEN {} ELSE {NodeName(Asked(extRef, "external"))}, id, to),
               OnNode(Renamed(cur, "switch", id, new), "switch", to,
                      LAMBDA s : [s EXCEPT !.mode = m, !.uplinks = IF extRef = None THEN @ ELSE uplinks,
                                           !.legacy = IF extRef = None THEN @ ELSE None]))

\* A switch that shares uplinks by MAC-NAT is a plain bridge without them.
WithUplinks(n, uplinks) ==
  [n EXCEPT !.uplinks = uplinks, !.legacy = None,
            !.mode = IF uplinks = <<>> /\ @ = "macnat-bridge" THEN "bridge" ELSE @]

\* One uplink or, where none is named, every one.
SwitchDisconnectExternal(ref, extRef) ==
  LET id == Resolve(cur, ref, {"switch"})
      uplinks == SwitchUplinks(NodeOf(cur, "switch", id))
      ext == Asked(extRef, "external")
      gone == IF extRef = None THEN ToSet(uplinks) ELSE {ext}
  IN  /\ uplinks # <<>> /\ (extRef # None => ext \in ToSet(uplinks))
      /\ Apply(Names({NodeName(u) : u \in gone} \union Words({"bridge", "macnat-bridge"})),
               OnNode(cur, "switch", id,
                      LAMBDA s : WithUplinks(s, Among(uplinks, ToSet(uplinks) \ gone))))

\* The interfaces on a deleted switch or uplink stay, connected to nothing.
Unplugged(l, field, id) ==
  OnNodes(l, LAMBDA n : TRUE, LAMBDA n : OnNICs(n, LAMBDA nic : [nic EXCEPT ![field] = Subst(@, id, None)]))

SwitchDelete(ref) ==
  LET id == Resolve(cur, ref, {"switch"})
  IN  Apply(Names({NodeName(id)}), Unplugged(Dropped(cur, "switch", id), "sw", id))

ExternalConfig(mode) == mode \in {"nat", "direct", "macnat"}

CreateExternal(id, mode) ==
  /\ NameFree(id, None) /\ ExternalConfig(mode)
  /\ Apply(Names({NodeName(id)}), Added(cur, [Node(id, "external") EXCEPT !.mode = mode]))

UpdateExternal(ref, new, mode) ==
  LET id == Resolve(cur, ref, {"external"})
      to == IF new = None THEN id ELSE new
      old == NodeOf(cur, "external", id).mode
  IN  /\ new # None \/ mode # None
      /\ MayRename(id, new) /\ (mode # None => ExternalConfig(mode))
      /\ Apply(Op(Words({old, mode}), id, to),
               OnNode(Renamed(cur, "external", id, new), "external", to,
                      LAMBDA n : [n EXCEPT !.mode = IF mode = None THEN @ ELSE mode]))

ExternalDelete(ref) ==
  LET id == Resolve(cur, ref, {"external"})
      has(n) == n.kind = "switch" /\ id \in ToSet(SwitchUplinks(n))
  IN  Apply(Names({NodeName(id)} \union {NodeName(n.id) : n \in {m \in ToSet(cur.nodes) : has(m)}}),
               OnNodes(Unplugged(Dropped(cur, "external", id), "ext", id), has,
                       LAMBDA n : WithUplinks(n, Among(SwitchUplinks(n), ToSet(SwitchUplinks(n)) \ {id}))))

-----------------------------------------------------------------------------
(* Interfaces and direct links *)

\* An interface is known by its MAC address or, without one, by its node.
NameOfNIC(n, i) == IF i \in DOMAIN n.nics /\ n.nics[i].mac # None THEN MacName(n.nics[i].mac) ELSE NodeName(n.id)
NICName(kind, id, i) == NameOfNIC(NodeOf(cur, kind, id), i)
Managed(kind, id) == NodeOf(cur, kind, id).dhcp

AddNIC(kind, ref, mac) ==
  LET id == Resolve(cur, ref, {kind})
  IN  /\ ~Managed(kind, id)
      /\ Apply(Names({NodeName(id)}), OnNode(cur, kind, id, LAMBDA n : [n EXCEPT !.nics = Append(@, NIC(None, None, mac))]))

\* ConnectVMNIC and ConnectContainerNIC to a switch or an uplink; a reference
\* of either kind is looked for among the switches first.
ConnectNIC(kind, ref, i, to, kinds, mac) ==
  LET id == Resolve(cur, ref, {kind})
      sw == IF "switch" \in kinds THEN Resolve(cur, to, {"switch"}) ELSE None
      ext == IF sw = None /\ "external" \in kinds THEN Resolve(cur, to, {"external"}) ELSE None
  IN  /\ i \in DOMAIN NodeOf(cur, kind, id).nics /\ (sw # None \/ ext # None)
      /\ Managed(kind, id) => mac = None /\ ext = None /\ FreeForDHCP(sw, id)
      /\ Apply(Names({NICName(kind, id, i), MacName(mac)}),
               OnNode(WithoutEndLinks(cur, Endpoint(kind, id, i)), kind, id,
                      LAMBDA n : [n EXCEPT !.nics[i] = NIC(sw, ext, IF mac = None THEN @.mac ELSE mac)]))

\* Mutant: links keep the places that the interfaces had.
ReindexedNot(e, kind, id, i) == e

\* The links of the interfaces behind a deleted one move down with them.
Reindexed(e, kind, id, i) == IF e.kind = kind /\ e.id = id /\ e.nic > i THEN [e EXCEPT !.nic = @ - 1] ELSE e

DeleteNIC(kind, ref, i) ==
  LET id == Resolve(cur, ref, {kind})
      kept == WithoutEndLinks(cur, Endpoint(kind, id, i))
  IN  /\ ~Managed(kind, id) /\ i \in DOMAIN NodeOf(cur, kind, id).nics
      /\ Apply(Names({NICName(kind, id, i)}),
               [OnNode(kept, kind, id, LAMBDA n : [n EXCEPT !.nics = RemoveAt(@, i)])
                  EXCEPT !.links = [j \in DOMAIN @ |-> [from |-> Reindexed(@[j].from, kind, id, i),
                                                        to   |-> Reindexed(@[j].to, kind, id, i)]]])

Has(e) == ~Managed(e.kind, e.id) /\ e.nic \in DOMAIN NodeOf(cur, e.kind, e.id).nics
Idle(e) == FreeNIC(cur, e) /\ LinksOf(cur, e) = {}
Unwired(l, e) ==
  OnNode(WithoutEndLinks(l, e), e.kind, e.id, LAMBDA n : [n EXCEPT !.nics[e.nic] = NIC(None, None, @.mac)])
Joined(l, e, f) == [l EXCEPT !.links = Append(@, [from |-> e, to |-> f])]
NamesOf(ends) == Names({NICName(e.kind, e.id, e.nic) : e \in ends})

\* ConnectDirectNIC with a target interface: both are disconnected first.
ConnectDirectNIC(kind, ref, i, toKind, toRef, j) ==
  LET e == Endpoint(kind, Resolve(cur, ref, {kind}), i)
      f == Endpoint(toKind, Resolve(cur, toRef, {toKind}), j)
  IN  /\ Has(e) /\ Has(f) /\ e # f
      /\ Apply(NamesOf({e, f}), Joined(Unwired(Unwired(cur, e), f), e, f))

\* Without one, the target's first interface that is connected to nothing.
ConnectDirectFirst(kind, ref, i, toKind, toRef) ==
  LET e == Endpoint(kind, Resolve(cur, ref, {kind}), i)
      to == Resolve(cur, toRef, {toKind})
      idle == {f \in {Endpoint(toKind, to, j) : j \in DOMAIN NodeOf(cur, toKind, to).nics} \ {e} : Idle(f)}
      first == CHOOSE f \in idle : \A g \in idle : f.nic <= g.nic
  IN  /\ Has(e) /\ Idle(e) /\ ~Managed(toKind, to) /\ idle # {}
      /\ Apply(NamesOf({e, first}), Joined(cur, e, first))

DisconnectNIC(kind, ref, i) ==
  LET e == Endpoint(kind, Resolve(cur, ref, {kind}), i)
  IN  Has(e) /\ Apply(NamesOf({e}), Unwired(cur, e))

-----------------------------------------------------------------------------
(* The handlers *)

CreateVM(id, path, sw, ext) == CreateWorkload("vm", id, path, sw, ext, None)
UpdateVM(ref, new, path, sw, ext) == UpdateWorkload("vm", ref, new, path, sw, ext, None)
VMDelete(ref) == DeleteWorkload("vm", ref)
VMDesiredState(ref, state) == SetDesired("vm", ref, state)
CreateContainer(id, path, sw, ext, mac) == CreateWorkload("container", id, path, sw, ext, mac)
UpdateContainer(ref, new, path, sw, ext, mac) == UpdateWorkload("container", ref, new, path, sw, ext, mac)
ContainerDelete(ref) == DeleteWorkload("container", ref)
ContainerDesiredState(ref, state) == SetDesired("container", ref, state)

AddVMNIC(ref, mac) == AddNIC("vm", ref, mac)
ConnectVMNIC(ref, i, to, kinds, mac) == ConnectNIC("vm", ref, i, to, kinds, mac)
DeleteVMNIC(ref, i) == DeleteNIC("vm", ref, i)
AddContainerNIC(ref, mac) == AddNIC("container", ref, mac)
ConnectContainerNIC(ref, i, to, kinds, mac) == ConnectNIC("container", ref, i, to, kinds, mac)
DeleteContainerNIC(ref, i) == DeleteNIC("container", ref, i)

-----------------------------------------------------------------------------
(* Properties *)

TypeOK ==
  /\ phase \in {"idle", "save", "write", "rename", "reload", "done", "down"}
  /\ result \in {"ok", "refused", "unread"}
  /\ (cur = NoLab) = (phase = "down")
  /\ temp # NoLab => phase \in {"write", "rename"}
  /\ events \in Nat

\* What a lab says of its nodes, interfaces, links and disks, an interface
\* being known by its MAC address rather than by its place.
OwnFacts(n) ==
  LET node == NodeName(n.id)
  IN  {<<n.kind, node, node>>, <<"mode", node, Word(n.mode)>>,
       <<"desired", node, Word(DesiredState(n))>>, <<"path", node, Word(n.disk)>>}
      \union {<<"uplink", node, NodeName(u)>> : u \in ToSet(n.uplinks)}
      \union {<<"cap", node, Word(c)>> : c \in Effective(n)}
NICFacts(n, i) ==
  LET nic == NameOfNIC(n, i)
  IN  {<<"has", NodeName(n.id), nic>>, <<"switch", nic, NodeName(n.nics[i].sw)>>,
       <<"uplink", nic, NodeName(n.nics[i].ext)>>}
NodeFacts(n) == OwnFacts(n) \union UNION {NICFacts(n, i) : i \in DOMAIN n.nics}
AllNodeFacts(S) == UNION {NodeFacts(n) : n \in S}

NameOfEnd(l, e) == NameOfNIC(NodeOf(l, e.kind, e.id), e.nic)
LinkFacts(l, link) ==
  {<<"link", NameOfEnd(l, link.from), NameOfEnd(l, link.to)>>, <<"link", NameOfEnd(l, link.to), NameOfEnd(l, link.from)>>}
AllLinkFacts(l) == UNION {LinkFacts(l, link) : link \in ToSet(l.links)}

LayoutFacts(l) ==
  {<<"disk", Word(d.id), NodeName(d.at.id)>> : d \in l.disks}
  \union {<<"placed", NodeName(id), NodeName(id)>> : id \in l.placed}
  \union {<<"drawn", NodeName(link.from.id), NodeName(link.to.id)>> : link \in l.drawn}

Facts(l) == AllNodeFacts(ToSet(l.nodes)) \union AllLinkFacts(l) \union LayoutFacts(l)

\* Those that speak of something, and of nothing that is named.
Shown(f, named) == f[2] \notin named /\ f[3] \notin named /\ f[3][2] # None
About(l, named) == {f \in Facts(l) : Shown(f, named)}

Carried(f, from, to) ==
  <<f[1], Subst(f[2], NodeName(from), NodeName(to)), Subst(f[3], NodeName(from), NodeName(to))>>

\* An edit leaves alone whatever it does not name: a deleted interface takes
\* no link of another with it and moves none, a rename carries every reference
\* along, and a node that goes leaves its neighbours as they were.
OnlyNamed ==
  [][phase = "idle" /\ phase' = "save" =>
       {Carried(f, op'.from, op'.to) : f \in About(cur, op'.names)} = About(cur', op'.names)]_vars
=============================================================================
