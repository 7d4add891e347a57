------------------------------ MODULE HostNet ------------------------------
(***************************************************************************)
(* What the daemon makes on the host for a lab (internal/hostnet, macnat    *)
(* and virt): bridges, NAT rules and MacNAT sessions, the interfaces of     *)
(* each container's namespace, and the domains that libvirt runs.           *)
(* AttachContainer works on one interface after the other, by commands that *)
(* fail or that the daemon's death cuts off.  The lab is the one that the   *)
(* daemon's pass has loaded; every call is made with it, in any order.      *)
(***************************************************************************)
EXTENDS LabRules

CONSTANTS
  Labs,         \* the labs that the file may hold
  Iface,        \* Iface[id]: the host interface that an uplink names
  LinuxBridges, \* the host interfaces that are bridges
  Preferred,    \* Preferred[key]: the hash of an interface, by container and place
  Rank,         \* Rank[key]: its place in the order of their names
  Slots,        \* static addresses of a NAT switch ("sw") and of a NAT uplink ("ext")
  MaxMishaps    \* bound on failures, deaths, drifts and edits

\* Labs as LoadFile gives them: nodes, and their interfaces, are counted from 1.
\* No two interfaces of containers have one name.
ASSUME HostNetAssumption ==
  /\ MaxMishaps \in Nat
  /\ \A l \in Labs :
       /\ Len(l.nodes) \in Nat /\ DOMAIN l.nodes = 1..Len(l.nodes)
       /\ \A n \in ToSet(l.nodes) :
            /\ Len(n.nics) \in Nat /\ DOMAIN n.nics = 1..Len(n.nics)
            /\ n.kind = "container" => \A i \in DOMAIN n.nics : <<n.id, i>> \in DOMAIN Rank
  /\ Rank \in [DOMAIN Rank -> Nat] /\ \A k, m \in DOMAIN Rank : Rank[k] = Rank[m] => k = m
  /\ Preferred \in [DOMAIN Rank -> Nat]
  /\ Slots \in [{"sw", "ext"} -> Nat \ {0}]

VARIABLES
  seen,     \* the lab that the daemon has loaded
  call,     \* the AttachContainer under way, or NoCall
  done,     \* the workload whose start has just been reported a success, or Nowhere
  host,     \* the bridges and their rules, each as <<what, bridge, uplink>>
  kernel,   \* the MacNAT sessions
  tasks,    \* the containers that run, each with the configuration it was made from
  nics,     \* the interfaces of containers, by container and place
  domains,  \* the domains that libvirt has defined
  mishaps

vars == <<seen, call, done, host, kernel, tasks, nics, domains, mishaps>>

\* A map with one more entry.
Put(f, k, v) == [x \in DOMAIN f \union {k} |-> IF x = k THEN v ELSE f[x]]

\* had, which no command reads: the interfaces that the container has had since
\* before the call, but those that the call did not find.
NoCall == [id |-> None, next |-> 0, made |-> {}, had |-> {}, fresh |-> FALSE]

Init ==
  /\ seen \in Labs /\ call = NoCall /\ done = Nowhere
  /\ host = {} /\ kernel = {} /\ mishaps = 0
  /\ tasks = <<>> /\ nics = <<>> /\ domains = <<>>

-----------------------------------------------------------------------------
(* What the lab asks of the host *)

Of(kind) == IdsOf(seen, {kind})
Entry(kind, id) == NodeOf(seen, kind, id)
NICs(kind, id) == Entry(kind, id).nics

BridgeOf(id) == <<"bridge", Bridge[id]>>
LinkBridge(link) == <<"link", Ends(link)>>
Parent(id) == <<"parent", Iface[id]>>
Managed(b) == b[1] \in {"bridge", "link"}

\* The first uplink of a switch decides whether it is behind MacNAT.
UsesMacNAT(sw) ==
  \/ sw.mode = "macnat-bridge"
  \/ SwitchUplinks(sw) # <<>> /\ Entry("external", SwitchUplinks(sw)[1]).mode = "macnat"

\* Where an interface is joined: containerNICAttachTarget, vmNICBridge and, for
\* what libvirt joins by itself, desiredDomainXMLData.
Target(kind, id, i) ==
  LET nic == NICs(kind, id)[i]
      links == LinksOf(seen, Endpoint(kind, id, i))
  IN  IF nic.sw # None THEN BridgeOf(nic.sw)
      ELSE IF nic.ext # None THEN
        IF Entry("external", nic.ext).mode \in {"nat", "macnat"} THEN BridgeOf(nic.ext)
        ELSE IF Iface[nic.ext] \in LinuxBridges THEN <<"host", Iface[nic.ext]>> ELSE Parent(nic.ext)
      ELSE IF links # {} THEN LinkBridge(seen.links[CHOOSE j \in links : TRUE]) ELSE <<>>

Behind(kind, id, i) ==
  LET nic == NICs(kind, id)[i]
  IN  IF nic.sw # None THEN
        IF UsesMacNAT(Entry("switch", nic.sw)) THEN "macnat" ELSE Entry("switch", nic.sw).mode
      ELSE IF nic.ext # None THEN Entry("external", nic.ext).mode ELSE "link"

\* The host interfaces that a network is translated to; None stands for any.
Uplinks(nic) ==
  IF nic.ext # None THEN <<Iface[nic.ext]>>
  ELSE LET sw == Entry("switch", nic.sw)
           natted == Among(SwitchUplinks(sw), {u \in ToSet(SwitchUplinks(sw)) : Entry("external", u).mode # "macnat"})
       IN  IF SwitchUplinks(sw) = <<>> THEN <<None>> ELSE [j \in DOMAIN natted |-> Iface[natted[j]]]

\* ensureBridge and ensureNATBridge, in their order.
BridgeUp(b) == <<<<"bridge", b, None>>, <<"up", b, None>>>>
NATRules(b, u) ==
  <<<<"address", b, None>>, <<"forward", b, u>>, <<"return", b, u>>, <<"masquerade", b, u>>>>

Ensures(kind, id, i) ==
  LET b == Target(kind, id, i)
      nic == NICs(kind, id)[i]
      natted == Behind(kind, id, i) = "nat" /\ (kind = "container" \/ nic.ext # None)
  IN  IF b = <<>> \/ ~Managed(b) THEN <<>>
      ELSE IF ~natted THEN BridgeUp(b)
      ELSE FlattenSeq([j \in DOMAIN Uplinks(nic) |-> BridgeUp(b) \o NATRules(b, Uplinks(nic)[j])])

\* A MAC address is the one that the lab gives or one made from the interface.
MacOf(kind, id, i) ==
  IF NICs(kind, id)[i].mac = None THEN <<kind, id, i>> ELSE <<NICs(kind, id)[i].mac>>

-----------------------------------------------------------------------------
(* Addresses: each interface takes the slot of its hash or the next free one, *)
(* in the order of their names.                                               *)

Statics(field, net) ==
  UNION {{<<c, i>> : i \in {j \in DOMAIN NICs("container", c) : NICs("container", c)[j][field] = net}}
         : c \in {d \in Of("container") : ~Entry("container", d).dhcp}}

\* Mutant: the slot of the hash, whoever has it.
PreferredOnly(key, taken, slots) == Preferred[key] % slots

FirstFree(key, taken, slots) ==
  LET slot(d) == ((Preferred[key] % slots) + d) % slots
      free == {d \in 0..(slots - 1) : slot(d) \notin taken}
  IN  slot(CHOOSE d \in free : \A e \in free : d <= e)

Before(key, keys) == {k \in keys : Rank[k] < Rank[key]}
Placed(placed, keys, slots) ==
  \A key \in keys : placed[key] = FirstFree(key, {placed[k] : k \in Before(key, keys)}, slots)
Places(keys, slots) == CHOOSE placed \in [keys -> 0..(slots - 1)] : Placed(placed, keys, slots)

NATField(nic) == IF nic.sw # None THEN "sw" ELSE "ext"

\* There is no address outside NAT, and none left when a network is full.
Full(c, i) ==
  LET nic == NICs("container", c)[i]
      f == NATField(nic)
  IN  /\ Behind("container", c, i) = "nat" /\ ~Entry("container", c).dhcp
      /\ Cardinality(Statics(f, nic[f])) > Slots[f]

Address(c, i) ==
  LET nic == NICs("container", c)[i]
      f == NATField(nic)
  IN  IF Behind("container", c, i) # "nat" THEN <<>>
      ELSE IF Entry("container", c).dhcp THEN <<nic[f], 2>>
      ELSE <<nic[f], 20 + Places(Statics(f, nic[f]), Slots[f])[<<c, i>>]>>

-----------------------------------------------------------------------------
(* MacNAT sessions *)

\* The MAC addresses on a switch or an uplink.
Macs(field, net) ==
  UNION {{MacOf(w[1], w[2], i) : i \in {j \in DOMAIN NICs(w[1], w[2]) : NICs(w[1], w[2])[j][field] = net}}
         : w \in {p \in Workload \X IdsOf(seen, Workload) : p[2] \in Of(p[1])}}

Session(net, uplink, field) ==
  [net |-> net, bridge |-> BridgeOf(net), uplink |-> Iface[uplink], macs |-> Macs(field, net)]

\* The networks behind MacNAT, uplinks first: their bridges are made even when
\* nothing is joined to them and they get no session.
MacNATs ==
  LET uplinks == Among(seen.nodes, {n \in ToSet(seen.nodes) : n.kind = "external" /\ n.mode = "macnat"})
      switches == Among(seen.nodes, {n \in ToSet(seen.nodes) : /\ n.kind = "switch" /\ SwitchUplinks(n) # <<>>
                                                              /\ UsesMacNAT(n)})
  IN  [j \in DOMAIN uplinks |-> Session(uplinks[j].id, uplinks[j].id, "ext")]
        \o [j \in DOMAIN switches |-> Session(switches[j].id, SwitchUplinks(switches[j])[1], "sw")]

Sessions == Among(MacNATs, {s \in ToSet(MacNATs) : s.macs # {}})
MacNATBridges == FlattenSeq([j \in DOMAIN MacNATs |-> BridgeUp(MacNATs[j].bridge)])

-----------------------------------------------------------------------------
(* Commands in a row, of which the first k took effect *)

Upto(s, k) == {s[j] : j \in 1..k}
Ensured(s) == host' = host \union ToSet(s)
EnsuredPart(s) == \E k \in 0..(Len(s) - 1) : host' = host \union Upto(s, k)

\* Nothing is written without a session, not even a clear.
Configured == kernel' = IF Sessions = <<>> THEN kernel ELSE ToSet(Sessions)
ConfiguredPart ==
  \/ UNCHANGED kernel
  \/ \E k \in 0..(Len(Sessions) - 1) : kernel' = Upto(Sessions, k)

Mishap == mishaps < MaxMishaps /\ mishaps' = mishaps + 1

-----------------------------------------------------------------------------
(* Containers *)

OwnMac == <<>>
Key == <<call.id, call.next>>
\* Mutant: an unfinished interface stays.
DropNamed(keys) == Restrict(nics, DOMAIN nics \ {key \in keys : nics[key].named})

Drop(keys) == Restrict(nics, DOMAIN nics \ keys)
KeysOf(c) == {key \in DOMAIN nics : key[1] = c}

\* containerConfigHash: the interfaces, and not what they lead to.
Hash(n) == <<n.disk, n.caps, n.dhcp, n.nics>>

Wants(kind, id, state) == id \in Of(kind) /\ DesiredState(Entry(kind, id)) = state

\* Start: a task that runs with the lab's configuration is kept and attached
\* again; any other is deleted, with its interfaces, and made anew.
StartContainer(c) ==
  LET kept == c \in DOMAIN tasks /\ tasks[c] = Hash(Entry("container", c))
  IN  /\ call = NoCall /\ Wants("container", c, "running")
      /\ call' = [id |-> c, next |-> 1, made |-> {}, had |-> IF kept THEN KeysOf(c) ELSE {}, fresh |-> ~kept]
      /\ tasks' = Put(tasks, c, Hash(Entry("container", c)))
      /\ nics' = IF kept THEN nics ELSE Drop(KeysOf(c))
      /\ done' = Nowhere
      /\ UNCHANGED <<seen, host, kernel, domains, mishaps>>

Interface(on, inside, mac, named) ==
  [on |-> on, inside |-> inside, mac |-> mac, named |-> named, up |-> FALSE, addrs |-> {}]

\* Mutant: the interface gets its name before it is joined.
WayNamedFirst(b, mac) ==
  <<Interface(<<>>, FALSE, OwnMac, FALSE), Interface(<<>>, TRUE, OwnMac, TRUE),
    Interface(b, TRUE, OwnMac, TRUE), Interface(b, TRUE, mac, TRUE)>>

\* A new interface on its way: a veth is made, joined, moved and given its MAC
\* address, and only then its name; a macvlan is made on its parent.
Way(b, mac) ==
  <<Interface(IF b[1] = "parent" THEN b ELSE <<>>, FALSE, OwnMac, FALSE), Interface(b, FALSE, OwnMac, FALSE),
    Interface(b, TRUE, OwnMac, FALSE), Interface(b, TRUE, mac, FALSE), Interface(b, TRUE, mac, TRUE)>>

WayOf(c, i) ==
  Way(Target("container", c, i),
      IF NICs("container", c)[i].mac # None \/ Behind("container", c, i) = "macnat"
      THEN MacOf("container", c, i) ELSE OwnMac)

Here == Target("container", call.id, call.next)
Attaching == call # NoCall /\ call.next \in DOMAIN NICs("container", call.id)
Needed == Ensures("container", call.id, call.next)

\* What containerNICExists says, but when its command fails: then no.
Exists == Key \in DOMAIN nics /\ nics[Key].named

\* For whatever reason it fails, cleanupContainerNIC then deletes the interface
\* that is there, and the call goes on without it.
LookUpFails ==
  /\ Attaching /\ Here # <<>> /\ ~Full(call.id, call.next) /\ Exists /\ Mishap
  /\ Ensured(Needed) /\ nics' = Drop({Key})
  /\ call' = [call EXCEPT !.had = @ \ {Key}] /\ done' = Nowhere
  /\ UNCHANGED <<seen, kernel, tasks, domains>>

\* Mutant: an interface that exists is left as it is.
GivenOnce(nic) == IF nic.up THEN nic ELSE
  [nic EXCEPT !.up = TRUE, !.addrs = @ \union ({Address(call.id, call.next)} \ {<<>>})]

\* configureExistingContainerNIC: another address is added, none is taken away.
Given(nic) == [nic EXCEPT !.up = TRUE, !.addrs = @ \union ({Address(call.id, call.next)} \ {<<>>})]

\* Mutant: an interface that was there counts as made by the call.
MadeAll == IF Here = <<>> THEN call.made ELSE call.made \union {Key}

\* What the call takes back if it fails; an unfinished interface is made again.
Made == IF Here = <<>> \/ Exists THEN call.made ELSE call.made \union {Key}

AttachNIC ==
  /\ Attaching /\ done' = Nowhere
  /\ call' = [call EXCEPT !.next = @ + 1, !.made = Made, !.had = IF Exists THEN @ ELSE @ \ {Key}]
  /\ IF Here = <<>> THEN UNCHANGED <<nics, host>>
     ELSE /\ ~Full(call.id, call.next)
          /\ Ensured(Needed)
          /\ nics' = Put(nics, Key, Given(IF Exists THEN nics[Key] ELSE Last(WayOf(call.id, call.next))))
  /\ UNCHANGED <<seen, kernel, tasks, domains, mishaps>>

\* The call fails: what it made is taken back, a task that it started is deleted.
TakenBack(left, new) ==
  IF call.fresh
  THEN nics' = Drop(KeysOf(call.id)) /\ tasks' = Restrict(tasks, DOMAIN tasks \ {call.id})
  ELSE nics' = Restrict(left, DOMAIN left \ (call.made \union new)) /\ UNCHANGED tasks

AttachNICFails ==
  /\ Attaching /\ Here # <<>>
  /\ IF Full(call.id, call.next) THEN UNCHANGED mishaps ELSE Mishap
  /\ \/ Needed # <<>> /\ EnsuredPart(Needed) /\ TakenBack(nics, {})
     \/ Ensured(Needed) /\ ~Exists /\ TakenBack(nics, {Key})
     \/ Ensured(Needed) /\ Exists /\ TakenBack(nics, {})
     \/ Ensured(Needed) /\ Exists /\ TakenBack([nics EXCEPT ![Key].up = TRUE], {})
  /\ call' = NoCall /\ done' = Nowhere
  /\ UNCHANGED <<seen, kernel, domains>>

\* The daemon dies in the middle of an interface, or is cancelled: the commands
\* that would take it back are cancelled with it.
DiesAttaching ==
  /\ Attaching /\ Here # <<>> /\ ~Exists /\ Mishap
  /\ Ensured(Needed)
  /\ \E k \in DOMAIN WayOf(call.id, call.next) : nics' = Put(nics, Key, WayOf(call.id, call.next)[k])
  /\ call' = NoCall /\ done' = Nowhere
  /\ UNCHANGED <<seen, kernel, tasks, domains>>

Attached == call # NoCall /\ call.next \notin DOMAIN NICs("container", call.id)

AttachEnds ==
  /\ Attached /\ Ensured(MacNATBridges) /\ Configured
  /\ done' = [kind |-> "container", id |-> call.id] /\ call' = NoCall
  /\ UNCHANGED <<seen, tasks, nics, domains, mishaps>>

MacNATFails ==
  /\ Attached /\ MacNATs # <<>> /\ Mishap
  /\ \/ EnsuredPart(MacNATBridges) /\ UNCHANGED kernel
     \/ Ensured(MacNATBridges) /\ Sessions # <<>> /\ ConfiguredPart
  /\ TakenBack(nics, {})
  /\ call' = NoCall /\ done' = Nowhere
  /\ UNCHANGED <<seen, domains>>

\* DetachContainer: the interfaces that have an end on the host, of the lab's.
Detached(c) ==
  {key \in KeysOf(c) : /\ key[2] \in DOMAIN NICs("container", c)
                       /\ nics[key].on = <<>> \/ nics[key].on[1] # "parent" \/ ~nics[key].inside}

\* Stop: the host's ends go first, then the task with what is left; a deletion
\* that fails leaves a task that runs without its veths.
StopContainer(c) ==
  /\ call = NoCall /\ Wants("container", c, "stopped") /\ c \in DOMAIN tasks
  /\ \/ /\ nics' = Drop(KeysOf(c)) /\ tasks' = Restrict(tasks, DOMAIN tasks \ {c})
        /\ UNCHANGED mishaps
     \/ nics' = Drop(Detached(c)) /\ UNCHANGED tasks /\ Mishap
  /\ done' = Nowhere
  /\ UNCHANGED <<seen, call, host, kernel, domains>>

-----------------------------------------------------------------------------
(* Virtual machines *)

\* desiredDomainXMLData: an interface without a target is left out.
Config(v) ==
  LET ns == NICs("vm", v)
      joined == Among([i \in DOMAIN ns |-> i], {i \in DOMAIN ns : Target("vm", v, i) # <<>>})
  IN  [disk |-> Entry("vm", v).disk,
       nets |-> [j \in DOMAIN joined |->
                   [on  |-> Target("vm", v, joined[j]),
                    mac |-> IF ns[joined[j]].mac # None \/ Behind("vm", v, joined[j]) = "macnat"
                            THEN MacOf("vm", v, joined[j]) ELSE OwnMac]]]

\* No domain runs, or one whose configuration was changed behind the daemon's
\* back to what no lab asks for.
NoConfig == <<>>
Edited == [edited |-> TRUE]
Domain(state, live, saved) == [state |-> state, live |-> live, saved |-> saved]

NeededBy(v) == FlattenSeq([i \in DOMAIN NICs("vm", v) |-> Ensures("vm", v, i)]) \o MacNATBridges

\* domainConfigMatches, of the configuration that the running domain shows.
AsWanted(v) == v \in DOMAIN domains /\ domains[v].state = "running" /\ domains[v].live = Config(v)

Defined(v, d) == domains' = Put(domains, v, d)

Created(v) == Domain("running", Config(v), Config(v))

StartVM(v) ==
  /\ call = NoCall /\ Wants("vm", v, "running")
  /\ IF AsWanted(v) THEN UNCHANGED <<host, kernel, domains>>
     ELSE Ensured(NeededBy(v)) /\ Configured /\ Defined(v, Created(v))
  /\ done' = [kind |-> "vm", id |-> v]
  /\ UNCHANGED <<seen, call, tasks, nics, mishaps>>

\* A domain that is known is destroyed and redefined before its networks are
\* made; one that is not is defined after that.  Any step may be the last.
StartVMFails(v) ==
  LET known == v \in DOMAIN domains
      off(saved) == Domain("shutoff", NoConfig, saved)
  IN  /\ call = NoCall /\ Wants("vm", v, "running") /\ ~AsWanted(v) /\ Mishap
      /\ \/ UNCHANGED <<host, kernel, domains>>
         \/ known /\ Defined(v, off(domains[v].saved)) /\ UNCHANGED <<host, kernel>>
         \/ /\ IF known THEN Defined(v, off(Config(v))) ELSE UNCHANGED domains
            /\ \/ NeededBy(v) # <<>> /\ EnsuredPart(NeededBy(v)) /\ UNCHANGED kernel
               \/ Ensured(NeededBy(v)) /\ (IF Sessions = <<>> THEN UNCHANGED kernel ELSE ConfiguredPart)
         \/ Defined(v, off(Config(v))) /\ Ensured(NeededBy(v)) /\ Configured
      /\ done' = Nowhere
      /\ UNCHANGED <<seen, call, tasks, nics>>

Undefined(v) == domains' = Restrict(domains, DOMAIN domains \ {v})

\* A domain is destroyed and undefined, by StopVM or as an orphan of the lab.
StopVM(v) ==
  /\ call = NoCall /\ v \in DOMAIN domains
  /\ (Wants("vm", v, "stopped") /\ domains[v].state # "shutoff") \/ v \notin Of("vm")
  /\ \/ Undefined(v) /\ UNCHANGED mishaps
     \/ Defined(v, Domain("shutoff", NoConfig, domains[v].saved)) /\ Mishap
  /\ done' = Nowhere
  /\ UNCHANGED <<seen, call, host, kernel, tasks, nics>>

-----------------------------------------------------------------------------
(* The rest of the daemon, and what happens around it *)

\* CleanupOrphans: a container that the lab no longer has goes with its namespace.
CleanContainer(c) ==
  /\ call = NoCall /\ c \in DOMAIN tasks \ Of("container")
  /\ tasks' = Restrict(tasks, DOMAIN tasks \ {c}) /\ nics' = Drop(KeysOf(c))
  /\ done' = Nowhere
  /\ UNCHANGED <<seen, call, host, kernel, domains, mishaps>>

\* CleanupLab: the rules of uplinks go, those of NAT switches stay.
LabBridges ==
  {BridgeOf(id) : id \in IdsOf(seen, {"switch", "external"})} \union {LinkBridge(link) : link \in ToSet(seen.links)}
Swept(item) ==
  \/ item[1] \in {"bridge", "up", "address"} /\ item[2] \in LabBridges
  \/ /\ item[1] \in {"forward", "return", "masquerade"}
     /\ \E id \in Of("external") : /\ Entry("external", id).mode = "nat"
                                   /\ item[2] = BridgeOf(id) /\ item[3] = Iface[id]

\* An interface that outlives its bridge.
Torn == <<"torn">>

\* foxlabd -destroy, while no daemon runs: a workload that cannot be destroyed
\* stays, a container without its veths, and the bridges go all the same.
DestroyLab ==
  /\ call = NoCall /\ done' = Nowhere
  /\ \E stay \in SUBSET (DOMAIN tasks \union DOMAIN domains) :
       LET left(of, kind) == stay \union (of \ Of(kind))
           ends == UNION {Detached(c) : c \in DOMAIN tasks \intersect Of("container")}
       IN  /\ IF stay = {} THEN UNCHANGED mishaps ELSE Mishap
           /\ tasks' = Restrict(tasks, DOMAIN tasks \intersect left(DOMAIN tasks, "container"))
           /\ domains' = Restrict(domains, DOMAIN domains \intersect left(DOMAIN domains, "vm"))
           /\ nics' = [key \in {k \in DOMAIN nics \ ends : k[1] \in DOMAIN tasks'} |->
                         IF nics[key].on \in LabBridges THEN [nics[key] EXCEPT !.on = Torn] ELSE nics[key]]
  /\ host' = {item \in host : ~Swept(item)}
  /\ UNCHANGED <<seen, call, kernel>>

\* The file was edited, and the next pass loads it; the daemon may have died.
Loads ==
  /\ call = NoCall /\ Mishap /\ done' = Nowhere
  /\ seen' \in Labs \ {seen}
  /\ UNCHANGED <<call, host, kernel, tasks, nics, domains>>

\* A container ends, a guest is shut down or paused, or someone edits a domain,
\* as it runs or as it would boot.
Drifts ==
  /\ call = NoCall /\ Mishap /\ done' = Nowhere
  /\ \/ \E c \in DOMAIN tasks :
          /\ tasks' = Restrict(tasks, DOMAIN tasks \ {c}) /\ nics' = Drop(KeysOf(c))
          /\ UNCHANGED domains
     \/ \E v \in {w \in DOMAIN domains : domains[w].state = "running"} :
          /\ \/ Defined(v, Domain("shutoff", NoConfig, domains[v].saved))
             \/ Defined(v, [domains[v] EXCEPT !.state = "paused"])
             \/ Defined(v, [domains[v] EXCEPT !.live = Edited])
          /\ UNCHANGED <<tasks, nics>>
     \/ /\ \E v \in DOMAIN domains : Defined(v, [domains[v] EXCEPT !.saved = Edited])
        /\ UNCHANGED <<tasks, nics>>
  /\ UNCHANGED <<seen, call, host, kernel>>

Reboot ==
  /\ Mishap /\ done' = Nowhere /\ call' = NoCall
  /\ host' = {} /\ kernel' = {} /\ tasks' = <<>> /\ nics' = <<>>
  /\ domains' = [v \in DOMAIN domains |-> Domain("shutoff", NoConfig, domains[v].saved)]
  /\ UNCHANGED seen

Next ==
  \/ \E c \in Of("container") : StartContainer(c) \/ StopContainer(c)
  \/ \E c \in DOMAIN tasks : CleanContainer(c)
  \/ LookUpFails \/ AttachNIC \/ AttachNICFails \/ DiesAttaching \/ AttachEnds \/ MacNATFails
  \/ \E v \in Of("vm") : StartVM(v) \/ StartVMFails(v)
  \/ \E v \in DOMAIN domains : StopVM(v)
  \/ DestroyLab \/ Loads \/ Drifts \/ Reboot

Spec == Init /\ [][Next]_vars

-----------------------------------------------------------------------------
(* Properties *)

\* Types, and that interfaces exist only in the namespace of a running task,
\* a configuration only on a domain that is not shut off.
TypeOK ==
  /\ seen \in Labs /\ mishaps \in 0..MaxMishaps
  /\ call # NoCall => call.id \in DOMAIN tasks /\ call.made \subseteq DOMAIN nics
  /\ \A key \in DOMAIN nics : key[1] \in DOMAIN tasks
  /\ \A v \in DOMAIN domains :
       /\ domains[v].state \in {"running", "paused", "shutoff"}
       /\ domains[v].state = "shutoff" => domains[v].live = NoConfig

\* An interface that has its name in the namespace, which is all the next pass
\* asks for, has everything that a pass gives an interface only once: it is
\* joined, inside, and has the MAC address that its container was made with.
Wired ==
  \A key \in DOMAIN nics : nics[key].named =>
    /\ nics[key].inside /\ nics[key].on # <<>>
    /\ LET nic == tasks[key[1]][4][key[2]]
       IN  nic.mac # None => nics[key].mac = <<nic.mac>>

\* An interface that a start has finished: on the switch that the lab names,
\* up, with the address that the lab gives it, its bridge and rules in place.
Finished(c, i) ==
  LET b == Target("container", c, i)
      nic == nics[<<c, i>>]
  IN  b # <<>> =>
        /\ <<c, i>> \in DOMAIN nics /\ nic.named /\ nic.up
        /\ NICs("container", c)[i].sw # None => nic.on \in {b, Torn}
        /\ {Address(c, i)} \ {<<>>} \subseteq nic.addrs
        /\ ToSet(Ensures("container", c, i)) \subseteq host

\* After a start that is reported a success a container has every interface
\* finished, and the MacNAT sessions of the lab are written; a VM runs, with
\* the lab's configuration, and would boot with it, but where someone has edited
\* what it boots with: that is not compared.
StartMeans ==
  /\ done.kind = "container" =>
       /\ \A i \in DOMAIN NICs("container", done.id) : Finished(done.id, i)
       /\ Sessions # <<>> => kernel = ToSet(Sessions)
  /\ done.kind = "vm" =>
       LET d == domains[done.id]
       IN  d.state = "running" /\ d.live = Config(done.id) /\ d.saved \in {Config(done.id), Edited}

\* An attachment that fails leaves a container that ran before with every
\* interface that was finished before, where it was joined, but one whose own
\* look-up failed: that one is deleted, and gone if the call ends before it is
\* made again, or fails after that.
Found == IF call' = NoCall THEN call.had ELSE call'.had
KeepsAttached ==
  [][\A key \in DOMAIN nics :
       key \in call.had \intersect Found /\ nics[key].named /\ key[1] \in DOMAIN tasks'
         => key \in DOMAIN nics' /\ nics'[key].on = nics[key].on]_vars

\* The addresses that a lab gives to the interfaces of one NAT network are
\* distinct, and none is the gateway's or the DHCP server's.
AddressesApart ==
  \A f \in {"sw", "ext"}, net \in IdsOf(seen, {"switch", "external"}) :
    LET keys == Statics(f, net)
        placed == Places(keys, Slots[f])
    IN  Cardinality(keys) <= Slots[f] =>
          \A k \in keys : /\ placed[k] \in 0..(Slots[f] - 1)
                          /\ \A m \in keys \ {k} : placed[m] # placed[k]
=============================================================================
