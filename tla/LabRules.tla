------------------------------ MODULE LabRules ------------------------------
(***************************************************************************)
(* A lab and the rules on it: what Normalize makes of a lab that was read   *)
(* and what Validate asks of one before it is saved or used                 *)
(* (internal/lab).  Nodes are kept in the order of the file, since the code *)
(* takes the first switch where none is named.  Text is left out: an id is  *)
(* a value whose case and runtime names are given by Fold and Runtime.      *)
(***************************************************************************)
EXTENDS Integers, Sequences, SequencesExt, FiniteSets, Functions

CONSTANTS
  None,        \* the empty string
  Fold,        \* Fold[id]: the id in lower case
  Bridge,      \* Bridge[id]: the interface name the runtime makes of a switch or uplink
  DefaultCaps, \* the capabilities a container has when the lab says nothing
  Supported    \* the capabilities the lab may name

NIC(sw, ext, mac) == [sw |-> sw, ext |-> ext, mac |-> mac]
NoCaps == [add |-> {}, drop |-> {}]

\* A node of any kind; the fields that its kind does not have stay empty.
Node(id, kind) ==
  [id |-> id, name |-> None, kind |-> kind, mode |-> None, uplinks |-> <<>>, legacy |-> None,
   nics |-> <<>>, dhcp |-> FALSE, desired |-> None, caps |-> NoCaps, disk |-> None]

\* The members of s at the places in at, and those that are in S, in their order.
Picked(s, at) ==
  LET upTo[i \in 0..Len(s)] ==
        IF i = 0 THEN <<>> ELSE IF i \in at THEN Append(upTo[i - 1], s[i]) ELSE upTo[i - 1]
  IN  upTo[Len(s)]
Among(s, S) == Picked(s, {i \in DOMAIN s : s[i] \in S})

Endpoint(kind, id, nic) == [kind |-> kind, id |-> id, nic |-> nic]
Disk(id, path, at) == [id |-> id, path |-> path, at |-> at]
Nowhere == [kind |-> None, id |-> None]

-----------------------------------------------------------------------------
(* Lookup.  An id is looked for before a name. *)

IdsOf(l, kinds) == {n.id : n \in {m \in ToSet(l.nodes) : m.kind \in kinds}}
Workload == {"vm", "container"}
AllKinds == Workload \union {"switch", "external"}
ASSUME LabRulesAssumption == None \notin AllKinds \union {"running", "stopped"}

NodeOf(l, kind, id) == CHOOSE n \in ToSet(l.nodes) : n.kind = kind /\ n.id = id

Resolve(l, ref, kinds) ==
  LET of(field) == {n \in ToSet(l.nodes) : n.kind \in kinds /\ n[field] = ref}
      found == IF of("id") # {} THEN of("id") ELSE of("name")
  IN  IF Cardinality(found) = 1 THEN (CHOOSE n \in found : TRUE).id ELSE None

\* The nodes other than self that answer to a name, whatever its case.
Matches(l, ref, self) ==
  {n \in ToSet(l.nodes) : /\ n.id # self
                          /\ \/ Fold[n.id] = Fold[ref]
                             \/ n.name # None /\ Fold[n.name] = Fold[ref]}

Ends(link) == {link.from, link.to}
LinksOf(l, e) == {i \in DOMAIN l.links : e \in Ends(l.links[i])}

DHCPSwitch(n) == IF n.dhcp /\ Len(n.nics) = 1 THEN n.nics[1].sw ELSE None
TakesDHCP(l, sw) ==
  /\ sw.mode = "nat"
  /\ \A u \in ToSet(sw.uplinks) :
       u \in IdsOf(l, {"external"}) => NodeOf(l, "external", u).mode # "macnat"

Effective(n) == (DefaultCaps \union n.caps.add) \ n.caps.drop

-----------------------------------------------------------------------------
(* Normalize *)

Distinct(s) == Picked(s, {i \in DOMAIN s : \A j \in 1..(i - 1) : s[j] # s[i]})
SwitchUplinks(n) == Distinct(n.uplinks \o (IF n.legacy = None THEN <<>> ELSE <<n.legacy>>))

NormalizedNode(n) ==
  LET named == [n EXCEPT !.name = IF @ = n.id THEN None ELSE @]
  IN  CASE n.kind = "switch" ->
             [named EXCEPT !.uplinks = SwitchUplinks(n), !.legacy = None,
                           !.mode = IF @ = None THEN "bridge" ELSE @]
        [] n.kind = "external" -> [named EXCEPT !.mode = IF @ = None THEN "direct" ELSE @]
        [] n.kind = "container" /\ n.dhcp ->
             [named EXCEPT !.desired = IF @ = None THEN "running" ELSE @]
        [] OTHER -> named

Normalize(l) == [l EXCEPT !.nodes = [i \in DOMAIN @ |-> NormalizedNode(@[i])]]

DesiredState(n) == IF n.desired = None THEN "stopped" ELSE n.desired

-----------------------------------------------------------------------------
(* Validate.  Each rule names what it finds wrong; a lab is valid when none *)
(* finds anything.                                                          *)

Others(l, i) == {l.nodes[j] : j \in DOMAIN l.nodes \ {i}}

\* Every node has an id; an id or a name may be used once in the whole lab,
\* whatever its case.
IdentityProblems(l) ==
  {i \in DOMAIN l.nodes :
     \/ l.nodes[i].id = None
     \/ \E n \in Others(l, i) :
          \E ref \in {l.nodes[i].id, l.nodes[i].name} \ {None} : Fold[ref] \in {Fold[n.id], Fold[n.name]}}

\* Two switches or uplinks whose runtime names fall together.
NameCollisions(l) ==
  {i \in DOMAIN l.nodes :
     /\ l.nodes[i].kind \in {"switch", "external"}
     /\ \E n \in Others(l, i) : /\ n.kind \in {"switch", "external"}
                               /\ Bridge[n.id] = Bridge[l.nodes[i].id]}

SwitchProblems(l) ==
  {n \in ToSet(l.nodes) :
     /\ n.kind = "switch"
     /\ \/ n.mode \notin {"bridge", "nat", "macnat-bridge"}
        \/ n.mode = "macnat-bridge" /\ SwitchUplinks(n) = <<>>
        \/ ~(ToSet(SwitchUplinks(n)) \subseteq IdsOf(l, {"external"}))}

ExternalProblems(l) ==
  {n \in ToSet(l.nodes) : n.kind = "external" /\ n.mode \notin {"nat", "direct", "macnat"}}

WorkloadProblems(l) ==
  {n \in ToSet(l.nodes) :
     /\ n.kind \in Workload
     /\ \/ n.desired \notin {None, "running", "stopped"}
        \/ ~(n.caps.add \union n.caps.drop \subseteq Supported)
        \/ n.caps.add \intersect n.caps.drop # {}
        \/ \E nic \in ToSet(n.nics) :
             \/ nic.sw # None /\ nic.ext # None
             \/ nic.sw # None /\ nic.sw \notin IdsOf(l, {"switch"})
             \/ nic.ext # None /\ nic.ext \notin IdsOf(l, {"external"})}

\* A DHCP server has one interface, on a NAT switch that has no other server.
DHCPProblems(l) ==
  {n \in ToSet(l.nodes) :
     /\ n.dhcp
     /\ \/ n.disk # None \/ n.caps # NoCaps
        \/ \E nic \in ToSet(n.nics) : nic.mac # None
        \/ DHCPSwitch(n) = None \/ n.nics[1].ext # None
        \/ /\ DHCPSwitch(n) \in IdsOf(l, {"switch"})
           /\ ~TakesDHCP(l, NodeOf(l, "switch", DHCPSwitch(n)))
        \/ \E m \in ToSet(l.nodes) \ {n} : m.dhcp /\ DHCPSwitch(m) = DHCPSwitch(n)
        \/ \E link \in ToSet(l.links) : \E e \in Ends(link) : e.kind = "container" /\ e.id = n.id}

\* A direct link joins two interfaces that exist and are joined to nothing else.
FreeNIC(l, e) ==
  /\ e.id \in IdsOf(l, {e.kind} \intersect Workload)
  /\ e.nic \in DOMAIN NodeOf(l, e.kind, e.id).nics
  /\ LET nic == NodeOf(l, e.kind, e.id).nics[e.nic] IN nic.sw = None /\ nic.ext = None

LinkProblems(l) ==
  {i \in DOMAIN l.links :
     \/ l.links[i].from = l.links[i].to
     \/ \E e \in Ends(l.links[i]) : ~FreeNIC(l, e) \/ LinksOf(l, e) # {i}}

Unplaced(l) == l.placed \ IdsOf(l, AllKinds)
Undrawn(l) == {e \in UNION {Ends(link) : link \in l.drawn} : e.id \notin IdsOf(l, {e.kind})}

\* An attached disk is the disk that its workload names, and its only one.
DiskProblems(disks, workloads) ==
  {d \in disks :
     /\ d.at # Nowhere
     /\ \/ \A w \in workloads : w.kind # d.at.kind \/ w.id # d.at.id \/ w.disk # d.path
        \/ \E e \in disks \ {d} : e.at = d.at}

\* What a disk is: a base, a layer on a base, or the data of a container.
KindProblems(disks) ==
  {d \in disks :
     \/ \E e \in disks \ {d} : e.id = d.id
     \/ (d.kind = "layer") # (d.base # None)
     \/ d.base # None /\ ~\E e \in disks \ {d} : e.id = d.base /\ e.kind = "base"
     \/ d.kind = "data" /\ d.at.kind = "vm"}

Valid(l) ==
  /\ IdentityProblems(l) = {} /\ NameCollisions(l) = {}
  /\ SwitchProblems(l) = {} /\ ExternalProblems(l) = {}
  /\ WorkloadProblems(l) = {} /\ DHCPProblems(l) = {}
  /\ LinkProblems(l) = {} /\ Unplaced(l) = {} /\ Undrawn(l) = {}
  /\ DiskProblems(l.disks, {n \in ToSet(l.nodes) : n.kind \in Workload}) = {}
=============================================================================
