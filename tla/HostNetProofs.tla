--------------------------- MODULE HostNetProofs ---------------------------
(***************************************************************************)
(* Proofs about HostNet, for any labs, containers and failures: what has    *)
(* its name in a namespace is joined for good, a failed attachment takes    *)
(* nothing down that it found, a start that is reported a success means it, *)
(* and the addresses of a network are distinct.                             *)
(***************************************************************************)
EXTENDS HostNet, TLAPS, FiniteSetTheorems, WellFoundedInduction

USE DEF NoCall, Nowhere, Workload

\* An interface, a call and a domain have their fields.
IsNIC(x) == DOMAIN x = {"on", "inside", "mac", "named", "up", "addrs"}
IsCall(x) == DOMAIN x = {"id", "next", "made", "had", "fresh"}
IsDomain(d) == DOMAIN d = {"state", "live", "saved"}

Shape == IsCall(call) /\ \A key \in DOMAIN nics : IsNIC(nics[key])
Owned == \A key \in DOMAIN nics : key[1] \in DOMAIN tasks

\* A call works on a container of the lab, whose task is made from its entry.
Calling ==
  call # NoCall =>
    /\ call.id \in Of("container") /\ call.id \in DOMAIN tasks
    /\ tasks[call.id] = Hash(Entry("container", call.id))
    /\ call.next \in Nat \ {0}

\* What the call made was not there before, and it is done with it; a new task
\* had nothing.
Separate ==
  /\ call.made \subseteq DOMAIN nics /\ call.made \intersect call.had = {}
  /\ call.made \subseteq {<<call.id, i>> : i \in 1..(call.next - 1)}
  /\ \A key \in call.had : key[1] = call.id
  /\ call.fresh => call.had = {}

\* Wired, and the bridge that a named interface is on, if its bridge is there.
Joined(key, nic, task) ==
  nic.named =>
    /\ nic.inside /\ nic.on # <<>>
    /\ task[4][key[2]].mac # None => nic.mac = <<task[4][key[2]].mac>>
    /\ task[4][key[2]].sw # None => nic.on \in {BridgeOf(task[4][key[2]].sw), Torn}
AllJoined == \A key \in DOMAIN nics : Joined(key, nics[key], tasks[key[1]])

\* The interfaces that the call is done with.
Progress ==
  call # NoCall => \A i \in DOMAIN NICs("container", call.id) : i < call.next => Finished(call.id, i)

\* What a domain runs was saved, until someone changes the one or the other.
Domains ==
  \A v \in DOMAIN domains :
    /\ IsDomain(domains[v]) /\ domains[v].state \in {"running", "paused", "shutoff"}
    /\ domains[v].live \in {NoConfig, Edited, domains[v].saved} \/ domains[v].saved = Edited
    /\ domains[v].state = "shutoff" => domains[v].live = NoConfig

Counted == seen \in Labs /\ mishaps \in 0..MaxMishaps

Net == Shape /\ Owned /\ Calling /\ Separate /\ AllJoined /\ Progress
IInv == Net /\ Domains /\ Counted

-----------------------------------------------------------------------------
(* What a lab asks for follows from the lab *)

LEMMA SameAsked ==
  ASSUME seen' = seen
  PROVE  \A kind, id, i :
           /\ Of(kind)' = Of(kind) /\ Entry(kind, id)' = Entry(kind, id) /\ NICs(kind, id)' = NICs(kind, id)
           /\ Target(kind, id, i)' = Target(kind, id, i) /\ Behind(kind, id, i)' = Behind(kind, id, i)
           /\ MacOf(kind, id, i)' = MacOf(kind, id, i) /\ Ensures(kind, id, i)' = Ensures(kind, id, i)
           /\ Address(id, i)' = Address(id, i)
<1>1. \A kind, id : /\ Of(kind)' = Of(kind) /\ Entry(kind, id)' = Entry(kind, id)
                    /\ NICs(kind, id)' = NICs(kind, id)
  BY DEF NICs, Entry, Of
<1> SUFFICES ASSUME NEW kind, NEW id, NEW i
             PROVE  /\ Target(kind, id, i)' = Target(kind, id, i) /\ Behind(kind, id, i)' = Behind(kind, id, i)
                    /\ MacOf(kind, id, i)' = MacOf(kind, id, i) /\ Ensures(kind, id, i)' = Ensures(kind, id, i)
                    /\ Address(id, i)' = Address(id, i)
  BY <1>1
<1>2. Target(kind, id, i)' = Target(kind, id, i)
  BY DEF NICs, Entry, Target
<1>3. \A k : Behind(k, id, i)' = Behind(k, id, i)
  BY DEF NICs, Entry, Behind, UsesMacNAT
<1>4. MacOf(kind, id, i)' = MacOf(kind, id, i)
  BY <1>1 DEF MacOf
<1>5. \A nic : Uplinks(nic)' = Uplinks(nic)
  BY DEF Uplinks, Entry
<1>6. Ensures(kind, id, i)' = Ensures(kind, id, i)
  BY <1>1, <1>2, <1>3, <1>5 DEF Ensures
<1>7. \A f, net : Statics(f, net)' = Statics(f, net)
  BY DEF Statics, NICs, Entry, Of
<1>8. Address(id, i)' = Address(id, i)
  BY <1>1, <1>3, <1>7 DEF Address
<1> QED
  BY <1>2, <1>3, <1>4, <1>6, <1>8

LEMMA SameSessions == ASSUME seen' = seen PROVE Sessions' = Sessions
BY DEF Sessions, MacNATs, Session, Macs, MacOf, NICs, Entry, Of, UsesMacNAT

LEMMA SameConfig == ASSUME seen' = seen, NEW v PROVE Config(v)' = Config(v)
BY SameAsked DEF Config

\* A joined switch is the one that the lab names.
LEMMA OnItsSwitch ==
  ASSUME NEW c, NEW i, NICs("container", c)[i].sw # None
  PROVE  Target("container", c, i) = BridgeOf(NICs("container", c)[i].sw)
BY DEF Target

\* The end of the way that a new interface takes.
LEMMA WayEnds ==
  ASSUME NEW b, NEW mac
  PROVE  /\ DOMAIN Way(b, mac) = 1..5
         /\ \A k \in 1..5 : IsNIC(Way(b, mac)[k]) /\ (Way(b, mac)[k].named => k = 5)
         /\ LET nic == Last(Way(b, mac))
            IN  IsNIC(nic) /\ nic.inside /\ nic.on = b /\ nic.mac = mac /\ nic.named
<1>1. DOMAIN Way(b, mac) = 1..5 /\ Len(Way(b, mac)) = 5
  BY DEF Way
<1>2. /\ \E on : Way(b, mac)[1] = Interface(on, FALSE, OwnMac, FALSE)
      /\ Way(b, mac)[2] = Interface(b, FALSE, OwnMac, FALSE)
      /\ Way(b, mac)[3] = Interface(b, TRUE, OwnMac, FALSE)
      /\ Way(b, mac)[4] = Interface(b, TRUE, mac, FALSE)
      /\ Way(b, mac)[5] = Interface(b, TRUE, mac, TRUE)
  BY DEF Way
<1>3. \A k \in 1..5 : IsNIC(Way(b, mac)[k]) /\ (Way(b, mac)[k].named => k = 5)
  <2>1. IsNIC(Way(b, mac)[1]) /\ ~Way(b, mac)[1].named
    BY <1>2 DEF Interface, IsNIC
  <2>2. IsNIC(Way(b, mac)[2]) /\ ~Way(b, mac)[2].named
    BY <1>2 DEF Interface, IsNIC
  <2>3. IsNIC(Way(b, mac)[3]) /\ ~Way(b, mac)[3].named
    BY <1>2 DEF Interface, IsNIC
  <2>4. IsNIC(Way(b, mac)[4]) /\ ~Way(b, mac)[4].named
    BY <1>2 DEF Interface, IsNIC
  <2>5. IsNIC(Way(b, mac)[5])
    BY <1>2 DEF Interface, IsNIC
  <2>6. \A k \in 1..5 : k = 1 \/ k = 2 \/ k = 3 \/ k = 4 \/ k = 5
    OBVIOUS
  <2> QED
    BY <2>1, <2>2, <2>3, <2>4, <2>5, <2>6
<1>4. Last(Way(b, mac)) = Way(b, mac)[5]
  BY <1>1 DEF Last
<1>5. Last(Way(b, mac)) = Interface(b, TRUE, mac, TRUE)
  BY <1>2, <1>4
<1>6. LET nic == Last(Way(b, mac)) IN IsNIC(nic) /\ nic.inside /\ nic.on = b /\ nic.mac = mac /\ nic.named
  BY <1>5 DEF Interface, IsNIC
<1> QED
  BY <1>1, <1>3, <1>6

LEMMA GivenKeeps ==
  ASSUME NEW nic, IsNIC(nic)
  PROVE  LET g == Given(nic)
         IN  /\ IsNIC(g) /\ g.named = nic.named /\ g.inside = nic.inside /\ g.on = nic.on /\ g.mac = nic.mac
             /\ g.up /\ {Address(call.id, call.next)} \ {<<>>} \subseteq g.addrs
BY DEF Given, IsNIC

\* An interface that is made for a call is joined as the container's entry asks.
LEMMA NewIsJoined ==
  ASSUME Net, call # NoCall, Here # <<>>
  PROVE  LET nic == Last(WayOf(call.id, call.next))
         IN  IsNIC(nic) /\ nic.on = Here /\ nic.named /\ Joined(Key, nic, tasks[Key[1]])
<1> DEFINE asked == NICs("container", call.id)[call.next]
           nic == Last(WayOf(call.id, call.next))
<1>1. Key[1] = call.id /\ Key[2] = call.next
  BY DEF Key
<1>2. tasks[call.id][4] = NICs("container", call.id)
  BY DEF Net, Calling, Hash, NICs
<1>3. IsNIC(nic) /\ nic.inside /\ nic.on = Here /\ nic.named
  BY WayEnds DEF WayOf, Here
<1>4. asked.mac # None => nic.mac = <<asked.mac>>
  BY WayEnds DEF WayOf, MacOf
<1>5. asked.sw # None => nic.on \in {BridgeOf(asked.sw), Torn}
  BY <1>3, OnItsSwitch DEF Here
<1> HIDE DEF nic
<1>6. Joined(Key, nic, tasks[Key[1]])
  BY <1>1, <1>2, <1>3, <1>4, <1>5 DEF Joined
<1> QED
  BY <1>3, <1>6 DEF nic

-----------------------------------------------------------------------------
(* Steps that end a call or that no call sees *)

\* Interfaces may go; what stays named is where it was and has its task, or is
\* joined anew.
Dwindles ==
  /\ call' = NoCall
  /\ \A key \in DOMAIN nics' :
       /\ key[1] \in DOMAIN tasks' /\ IsNIC(nics'[key])
       /\ nics'[key].named =>
            \/ Joined(key, nics'[key], tasks'[key[1]])
            \/ /\ key \in DOMAIN nics /\ nics[key].named /\ tasks'[key[1]] = tasks[key[1]]
               /\ nics'[key].inside = nics[key].inside /\ nics'[key].mac = nics[key].mac
               /\ nics'[key].on \in {nics[key].on, Torn}

LEMMA DwindlingKeeps == ASSUME Net, Dwindles PROVE Net'
<1>1. Shape' /\ Owned' /\ Calling' /\ Separate'
  BY DEF Dwindles, Shape, Owned, Calling, Separate, IsCall
<1>2. Progress'
  BY DEF Dwindles, Progress
<1>3. AllJoined'
  <2> SUFFICES ASSUME NEW key \in DOMAIN nics', nics'[key].named
               PROVE  Joined(key, nics'[key], tasks'[key[1]])
    BY DEF AllJoined, Joined
  <2>1. CASE ~Joined(key, nics'[key], tasks'[key[1]])
    <3>1. Joined(key, nics[key], tasks[key[1]]) /\ Torn # <<>>
      BY <2>1 DEF Dwindles, Net, AllJoined, Torn
    <3> QED
      BY <2>1, <3>1 DEF Dwindles, Joined
  <2> QED
    BY <2>1
<1> QED
  BY <1>1, <1>2, <1>3 DEF Net

\* Nothing changes in the namespaces, beside no call.
LEMMA StillDwindles ==
  ASSUME Net, call' = NoCall, UNCHANGED <<tasks, nics>>
  PROVE  Dwindles
BY DEF Dwindles, Net, Shape, Owned

\* Interfaces and their tasks go.
LEMMA FewerDwindle ==
  ASSUME Net, call' = NoCall, DOMAIN nics' \subseteq DOMAIN nics,
         \A key \in DOMAIN nics' : nics'[key] = nics[key] /\ key[1] \in DOMAIN tasks',
         \A c \in DOMAIN tasks' : tasks'[c] = tasks[c]
  PROVE  Dwindles
BY DEF Dwindles, Net, Shape

LEMMA TakenBackDwindles ==
  ASSUME Net, call # NoCall, call' = NoCall, NEW new, TakenBack(nics, new)
  PROVE  Dwindles
<1>1. CASE call.fresh
  BY <1>1, FewerDwindle DEF TakenBack, Restrict, Drop, KeysOf, Net, Owned
<1>2. CASE ~call.fresh
  BY <1>2, FewerDwindle DEF TakenBack, Restrict, Net, Owned
<1> QED
  BY <1>1, <1>2

LEMMA AttachNICFailsDwindles == ASSUME Net, AttachNICFails PROVE Dwindles
<1>0. call # NoCall /\ call' = NoCall
  BY DEF AttachNICFails, Attaching
<1>1. CASE TakenBack(nics, {}) \/ TakenBack(nics, {Key})
  BY <1>0, <1>1, TakenBackDwindles
<1>2. CASE Exists /\ TakenBack([nics EXCEPT ![Key].up = TRUE], {})
  <2>1. CASE call.fresh
    BY <1>0, <1>2, <2>1, FewerDwindle DEF TakenBack, Restrict, Drop, KeysOf, Net, Owned
  <2>2. CASE ~call.fresh
    BY <1>0, <1>2, <2>2 DEF TakenBack, Restrict, Dwindles, Net, Owned, Shape, IsNIC, Exists
  <2> QED
    BY <2>1, <2>2
<1> QED
  BY <1>1, <1>2 DEF AttachNICFails

LEMMA DiesAttachingDwindles == ASSUME Net, DiesAttaching PROVE Dwindles
<1>0. /\ call # NoCall /\ call' = NoCall /\ tasks' = tasks /\ Key[1] = call.id /\ Here # <<>>
      /\ call.id \in DOMAIN tasks
  BY DEF DiesAttaching, Attaching, Key, Net, Calling
<1>1. PICK k \in DOMAIN WayOf(call.id, call.next) : nics' = Put(nics, Key, WayOf(call.id, call.next)[k])
  BY DEF DiesAttaching
<1> DEFINE nic == WayOf(call.id, call.next)[k]
<1>2. k \in 1..5 /\ IsNIC(nic) /\ (nic.named => k = 5)
  BY WayEnds DEF WayOf
<1>3. nic.named => nic = Last(WayOf(call.id, call.next))
  BY <1>2, WayEnds DEF WayOf, Last, Way
<1>4. nic.named => Joined(Key, nic, tasks[Key[1]])
  BY <1>0, <1>3, NewIsJoined
<1> HIDE DEF nic
<1>5. \A key \in DOMAIN nics' :
        \/ key = Key /\ nics'[key] = nic
        \/ key \in DOMAIN nics /\ nics'[key] = nics[key]
  BY <1>1 DEF Put, nic
<1> QED
  BY <1>0, <1>2, <1>4, <1>5 DEF Dwindles, Net, Shape, Owned

\* Deletions, failures after the last interface, and what no call sees.
LEMMA OthersDwindle ==
  ASSUME Net,
         \/ AttachEnds \/ MacNATFails \/ DestroyLab \/ Loads \/ Drifts \/ Reboot
         \/ \E c \in Of("container") : StopContainer(c)
         \/ \E c \in DOMAIN tasks : CleanContainer(c)
         \/ \E v \in Of("vm") : StartVM(v) \/ StartVMFails(v)
         \/ \E v \in DOMAIN domains : StopVM(v)
  PROVE  Dwindles
<1>1. CASE MacNATFails
  BY <1>1, TakenBackDwindles DEF MacNATFails, Attached
<1>2. CASE \E c \in Of("container") : StopContainer(c)
  <2> PICK c \in Of("container") : StopContainer(c)
    BY <1>2
  <2>1. CASE nics' = Drop(KeysOf(c)) /\ tasks' = Restrict(tasks, DOMAIN tasks \ {c})
    BY <2>1, FewerDwindle DEF StopContainer, Drop, KeysOf, Restrict, Net, Owned
  <2>2. CASE nics' = Drop(Detached(c)) /\ UNCHANGED tasks
    BY <2>2, FewerDwindle DEF StopContainer, Drop, Restrict, Net, Owned
  <2> QED
    BY <2>1, <2>2 DEF StopContainer
<1>3. CASE \E c \in DOMAIN tasks : CleanContainer(c)
  BY <1>3, FewerDwindle DEF CleanContainer, Drop, KeysOf, Restrict, Net, Owned
<1>4. CASE DestroyLab
  <2>1. /\ call' = NoCall
        /\ DOMAIN tasks' \subseteq DOMAIN tasks /\ \A c \in DOMAIN tasks' : tasks'[c] = tasks[c]
    BY <1>4 DEF DestroyLab, Restrict
  <2>2. \A key \in DOMAIN nics' :
          /\ key \in DOMAIN nics /\ key[1] \in DOMAIN tasks'
          /\ nics'[key] = nics[key] \/ nics'[key] = [nics[key] EXCEPT !.on = Torn]
    BY <1>4 DEF DestroyLab
  <2> QED
    BY <2>1, <2>2 DEF Dwindles, Net, Shape, IsNIC
<1>5. CASE Drifts
  <2>1. CASE UNCHANGED <<tasks, nics>>
    BY <1>5, <2>1, StillDwindles DEF Drifts
  <2>2. CASE \E c \in DOMAIN tasks :
               tasks' = Restrict(tasks, DOMAIN tasks \ {c}) /\ nics' = Drop(KeysOf(c))
    BY <1>5, <2>2, FewerDwindle DEF Drifts, Drop, KeysOf, Restrict, Net, Owned
  <2> QED
    BY <1>5, <2>1, <2>2 DEF Drifts
<1>6. CASE Reboot
  BY <1>6 DEF Reboot, Dwindles
<1>7. CASE AttachEnds \/ Loads
  BY <1>7, StillDwindles DEF AttachEnds, Loads
<1>8. CASE \E v \in Of("vm") : StartVM(v) \/ StartVMFails(v)
  BY <1>8, StillDwindles DEF StartVM, StartVMFails
<1>9. CASE \E v \in DOMAIN domains : StopVM(v)
  BY <1>9, StillDwindles DEF StopVM
<1> QED
  BY <1>1, <1>2, <1>3, <1>4, <1>5, <1>6, <1>7, <1>8, <1>9

-----------------------------------------------------------------------------
(* Steps of a call that goes on *)

\* The interfaces of a container in the lab are counted from 1.
LEMMA Counting ==
  ASSUME seen \in Labs, NEW c \in Of("container")
  PROVE  Len(NICs("container", c)) \in Nat /\ DOMAIN NICs("container", c) = 1..Len(NICs("container", c))
<1>1. \E n \in ToSet(seen.nodes) : n.kind = "container" /\ n.id = c
  BY DEF Of, IdsOf
<1>2. Entry("container", c) \in ToSet(seen.nodes)
  BY <1>1 DEF Entry, NodeOf
<1> QED
  BY <1>2, HostNetAssumption DEF NICs

LEMMA StartContainerKeeps ==
  ASSUME Net, seen \in Labs, NEW c \in Of("container"), StartContainer(c)
  PROVE  Net'
<1> DEFINE kept == c \in DOMAIN tasks /\ tasks[c] = Hash(Entry("container", c))
<1>1. /\ call' = [id |-> c, next |-> 1, made |-> {}, had |-> IF kept THEN KeysOf(c) ELSE {}, fresh |-> ~kept]
      /\ tasks' = Put(tasks, c, Hash(Entry("container", c)))
      /\ nics' = (IF kept THEN nics ELSE Drop(KeysOf(c))) /\ seen' = seen
  BY DEF StartContainer
<1>2. \A key \in DOMAIN nics' : /\ key \in DOMAIN nics /\ nics'[key] = nics[key]
                                /\ key[1] \in DOMAIN tasks' /\ tasks'[key[1]] = tasks[key[1]]
  <2>1. CASE kept
    BY <1>1, <2>1 DEF Put, Net, Owned
  <2>2. CASE ~kept
    BY <1>1, <2>2 DEF Put, Drop, KeysOf, Restrict, Net, Owned
  <2> QED
    BY <2>1, <2>2
<1>3. Shape' /\ Owned' /\ AllJoined'
  BY <1>1, <1>2 DEF Net, Shape, Owned, AllJoined, IsCall
<1>4. c \in DOMAIN tasks' /\ tasks'[c] = Hash(Entry("container", c))
  BY <1>1 DEF Put
<1>5. Calling'
  BY <1>1, <1>4, SameAsked DEF Calling
<1>6. Separate'
  BY <1>1 DEF Separate, KeysOf
<1>7. Progress'
  <2>1. DOMAIN NICs("container", c)' = 1..Len(NICs("container", c)) /\ Len(NICs("container", c)) \in Nat
    BY <1>1, Counting, SameAsked
  <2> QED
    BY <1>1, <2>1 DEF Progress
<1> QED
  BY <1>3, <1>5, <1>6, <1>7 DEF Net

\* Finished stays so while its interface does and the host only grows.
LEMMA StaysFinished ==
  ASSUME seen' = seen, host \subseteq host', NEW c, NEW i, Finished(c, i),
         <<c, i>> \in DOMAIN nics => <<c, i>> \in DOMAIN nics' /\ nics'[<<c, i>>] = nics[<<c, i>>]
  PROVE  Finished(c, i)'
BY SameAsked DEF Finished

\* The interface whose look-up failed goes; the call has not come to the rest.
LEMMA LookUpFailsKeeps ==
  ASSUME Net, seen \in Labs, LookUpFails
  PROVE  Net'
<1>0. PICK c, j : c = call.id /\ j = call.next
  OBVIOUS
<1>1. /\ seen' = seen /\ tasks' = tasks /\ call # NoCall /\ j \in Nat \ {0} /\ Key = <<c, j>>
      /\ c \in Of("container") /\ IsCall(call) /\ host \subseteq host'
  BY <1>0 DEF LookUpFails, Attaching, Net, Calling, Shape, Key, Ensured
<1>2. /\ IsCall(call') /\ call'.id = c /\ call'.next = j /\ call'.fresh = call.fresh
      /\ call'.made = call.made /\ call'.had = call.had \ {Key}
  BY <1>0, <1>1 DEF LookUpFails, IsCall
<1>3. /\ DOMAIN nics' = DOMAIN nics \ {Key}
      /\ \A key \in DOMAIN nics' : nics'[key] = nics[key]
  BY DEF LookUpFails, Drop, Restrict
<1>4. Shape' /\ Owned' /\ AllJoined'
  BY <1>1, <1>2, <1>3 DEF Net, Shape, Owned, AllJoined
<1>5. Calling'
  BY <1>0, <1>1, <1>2, SameAsked DEF Net, Calling
<1>6. Separate'
  <2>1. Key \notin call.made
    BY <1>0, <1>1 DEF Net, Separate
  <2> QED
    BY <1>0, <1>1, <1>2, <1>3, <2>1 DEF Net, Separate
<1>7. Progress'
  <2>1. NICs("container", c)' = NICs("container", c)
    BY <1>1, SameAsked
  <2> SUFFICES ASSUME NEW i \in DOMAIN NICs("container", c), i < j PROVE Finished(c, i)'
    BY <1>2, <2>1 DEF Progress
  <2>2. i \in Nat
    BY <1>1, Counting
  <2>3. Finished(c, i) /\ <<c, i>> # Key
    BY <1>0, <1>1, <2>2 DEF Net, Progress
  <2> QED
    BY <1>1, <1>3, <2>3, StaysFinished
<1> QED
  BY <1>4, <1>5, <1>6, <1>7 DEF Net

LEMMA AttachNICKeeps ==
  ASSUME Net, seen \in Labs, AttachNIC
  PROVE  Net'
<1>0. PICK c, j : c = call.id /\ j = call.next
  OBVIOUS
<1>1. /\ seen' = seen /\ tasks' = tasks /\ call # NoCall /\ j \in Nat \ {0} /\ Key = <<c, j>>
      /\ c \in DOMAIN tasks /\ c \in Of("container") /\ IsCall(call)
      /\ tasks[c] = Hash(Entry("container", c))
  BY <1>0 DEF AttachNIC, Attaching, Net, Calling, Shape, Key
<1>2. /\ IsCall(call') /\ call'.id = c /\ call'.next = j + 1 /\ call'.fresh = call.fresh
      /\ call'.made = Made /\ call'.had = IF Exists THEN call.had ELSE call.had \ {Key}
  BY <1>0, <1>1 DEF AttachNIC, IsCall
<1>3. Calling'
  BY <1>1, <1>2, SameAsked DEF Calling
<1>4. ASSUME \A i \in DOMAIN NICs("container", c) : i <= j => Finished(c, i)'
      PROVE  Progress'
  <2>1. NICs("container", c)' = NICs("container", c)
    BY <1>1, SameAsked
  <2>2. \A i \in DOMAIN NICs("container", c) : i \in Nat
    BY <1>1, Counting
  <2> QED
    BY <1>1, <1>2, <1>4, <2>1, <2>2 DEF Progress
<1>5. \A i \in DOMAIN NICs("container", c) : i <= j => i = j \/ (i < j /\ Finished(c, i))
  BY <1>0, <1>1, Counting DEF Net, Progress
<1> DEFINE old == IF Exists THEN nics[Key] ELSE Last(WayOf(call.id, call.next))
<1>6. CASE Here = <<>>
  <2>1. nics' = nics /\ host' = host
    BY <1>6 DEF AttachNIC
  <2>2. Shape' /\ Owned' /\ AllJoined'
    BY <1>1, <1>2, <2>1 DEF Net, Shape, Owned, AllJoined
  <2>3. Separate'
    BY <1>0, <1>1, <1>2, <1>6, <2>1 DEF Net, Separate, Made
  <2>4. Finished(c, j)'
    BY <1>0, <1>1, <1>6, SameAsked DEF Finished, Here
  <2>5. Progress'
    BY <1>1, <1>4, <1>5, <2>1, <2>4, StaysFinished
  <2> QED
    BY <1>3, <2>2, <2>3, <2>5 DEF Net
<1>7. CASE Here # <<>>
  <2>1. nics' = Put(nics, Key, Given(old)) /\ host' = host \union ToSet(Needed)
    BY <1>7 DEF AttachNIC, Ensured
  <2>2. IsNIC(old) /\ Joined(Key, old, tasks[c]) /\ old.named
    <3>1. CASE Exists
      BY <1>1, <3>1 DEF Exists, Net, Shape, AllJoined
    <3>2. CASE ~Exists
      BY <1>1, <1>7, <3>2, NewIsJoined
    <3> QED
      BY <3>1, <3>2
  <2> HIDE DEF old
  <2> DEFINE new == Given(old)
  <2>3. /\ IsNIC(new) /\ new.named /\ new.inside = old.inside /\ new.on = old.on /\ new.mac = old.mac
        /\ new.up /\ {Address(c, j)} \ {<<>>} \subseteq new.addrs
    BY <1>0, <2>2, GivenKeeps
  <2>4. /\ Key \in DOMAIN nics' /\ nics'[Key] = new
        /\ \A key \in DOMAIN nics' : key = Key \/ key \in DOMAIN nics
        /\ \A key \in DOMAIN nics : key # Key => key \in DOMAIN nics' /\ nics'[key] = nics[key]
    BY <2>1 DEF Put
  <2> HIDE DEF new
  <2>5. Joined(Key, new, tasks[c])
    BY <2>2, <2>3 DEF Joined
  <2>6. Shape' /\ Owned' /\ AllJoined'
    BY <1>1, <1>2, <2>3, <2>4, <2>5 DEF Net, Shape, Owned, AllJoined
  <2>7. Separate'
    BY <1>0, <1>1, <1>2, <2>4 DEF Net, Separate, Made
  <2>8. Finished(c, j)'
    <3>1. NICs("container", c)[j].sw # None => new.on \in {Target("container", c, j), Torn}
      BY <1>1, <2>2, <2>3, OnItsSwitch DEF Joined, Hash, NICs
    <3>2. ToSet(Ensures("container", c, j)) \subseteq host'
      BY <1>0, <2>1 DEF Needed
    <3> QED
      BY <1>1, <2>3, <2>4, <3>1, <3>2, SameAsked DEF Finished
  <2>9. \A i \in DOMAIN NICs("container", c) : i < j => Finished(c, i)'
    <3> SUFFICES ASSUME NEW i \in DOMAIN NICs("container", c), i < j PROVE Finished(c, i)'
      OBVIOUS
    <3>0. i \in Nat
      BY <1>1, Counting
    <3>1. Finished(c, i) /\ <<c, i>> # Key
      BY <1>1, <1>5, <3>0
    <3> QED
      BY <1>1, <2>1, <2>4, <3>1, StaysFinished
  <2>10. Progress'
    BY <1>4, <1>5, <2>8, <2>9
  <2> QED
    BY <1>3, <2>6, <2>7, <2>10 DEF Net
<1> QED
  BY <1>6, <1>7

-----------------------------------------------------------------------------
(* Domains *)

\* What a lab asks for is no configuration that a machine does without.
LEMMA AsksForSomething ==
  ASSUME NEW v
  PROVE  Config(v) # NoConfig /\ Config(v) # Edited
<1>1. PICK disk, nets : Config(v) = [disk |-> disk, nets |-> nets]
  BY DEF Config
<1>2. DOMAIN [disk |-> disk, nets |-> nets] = {"disk", "nets"} /\ DOMAIN NoConfig = {} /\ DOMAIN Edited = {"edited"}
  BY DEF NoConfig, Edited
<1> QED
  BY <1>1, <1>2

LEMMA DomainsKept ==
  ASSUME Domains, [Next]_vars
  PROVE  Domains'
<1> DEFINE Good(d) == /\ IsDomain(d) /\ d.state \in {"running", "paused", "shutoff"}
                      /\ (d.live \in {NoConfig, Edited, d.saved} \/ d.saved = Edited) /\ (d.state = "shutoff" => d.live = NoConfig)
<1>0. Domains <=> \A v \in DOMAIN domains : Good(domains[v])
  BY DEF Domains
<1>0a. Domains' <=> \A v \in DOMAIN domains' : Good(domains'[v])
  BY DEF Domains
<1>1. ASSUME NEW v, NEW d, Good(d), Defined(v, d)
      PROVE  Domains'
  <2> HIDE DEF Good
  <2> QED
    BY <1>0, <1>0a, <1>1 DEF Defined, Put
<1>2. \A saved : Good(Domain("shutoff", NoConfig, saved)) /\ Good(Domain("running", saved, saved))
  BY DEF Domain, IsDomain
<1>3. ASSUME NEW S, domains' = Restrict(domains, S), S \subseteq DOMAIN domains
      PROVE  Domains'
  <2> HIDE DEF Good
  <2> QED
    BY <1>0, <1>0a, <1>3 DEF Restrict
<1>4. UNCHANGED domains => Domains'
  BY DEF Domains
<1>5. ASSUME NEW v \in Of("vm"), StartVM(v) PROVE Domains'
  <2> HIDE DEF Good
  <2> QED
    BY <1>1, <1>2, <1>4, <1>5 DEF StartVM, Created
<1>6. ASSUME NEW v \in Of("vm"), StartVMFails(v) PROVE Domains'
  <2> HIDE DEF Good
  <2> QED
    BY <1>1, <1>2, <1>4, <1>6 DEF StartVMFails
<1>7. ASSUME NEW v \in DOMAIN domains, StopVM(v) PROVE Domains'
  <2> HIDE DEF Good
  <2> QED
    BY <1>1, <1>2, <1>3, <1>7 DEF StopVM, Undefined
<1>8. CASE DestroyLab
  BY <1>3, <1>8 DEF DestroyLab
<1>9. CASE Drifts
  <2>1. ASSUME NEW v \in DOMAIN domains, domains[v].state = "running"
        PROVE  Good([domains[v] EXCEPT !.state = "paused"]) /\ Good([domains[v] EXCEPT !.live = Edited])
    BY <2>1 DEF Domains, IsDomain
  <2>2. \A v \in DOMAIN domains : Good([domains[v] EXCEPT !.saved = Edited])
    BY DEF Domains, IsDomain
  <2> HIDE DEF Good
  <2> QED
    BY <1>1, <1>2, <1>4, <1>9, <2>1, <2>2 DEF Drifts
<1>10. CASE Reboot
  <2> HIDE DEF Good
  <2> QED
    BY <1>0a, <1>2, <1>10 DEF Reboot
<1>11. CASE \/ \E c \in Of("container") : StartContainer(c) \/ StopContainer(c)
            \/ \E c \in DOMAIN tasks : CleanContainer(c)
            \/ LookUpFails \/ AttachNIC \/ AttachNICFails \/ DiesAttaching \/ AttachEnds \/ MacNATFails \/ Loads
  BY <1>4, <1>11 DEF StartContainer, StopContainer, CleanContainer, LookUpFails, AttachNIC, AttachNICFails,
                     DiesAttaching, AttachEnds, MacNATFails, Loads
<1>12. CASE UNCHANGED vars
  BY <1>4, <1>12 DEF vars
<1> QED
  BY <1>5, <1>6, <1>7, <1>8, <1>9, <1>10, <1>11, <1>12 DEF Next

-----------------------------------------------------------------------------
(* The invariant *)

LEMMA CountedKept ==
  ASSUME Counted, [Next]_vars
  PROVE  Counted'
<1>1. ASSUME Mishap \/ UNCHANGED mishaps PROVE mishaps' \in 0..MaxMishaps
  BY <1>1, HostNetAssumption DEF Counted, Mishap
<1>2. CASE Loads
  BY <1>1, <1>2 DEF Loads, Counted
<1>3. CASE \/ \E c \in Of("container") : StartContainer(c) \/ StopContainer(c)
           \/ \E c \in DOMAIN tasks : CleanContainer(c)
           \/ LookUpFails \/ AttachNIC \/ AttachNICFails \/ DiesAttaching \/ AttachEnds \/ MacNATFails
  <2>1. seen' = seen
    BY <1>3 DEF StartContainer, StopContainer, CleanContainer, LookUpFails, AttachNIC, AttachNICFails,
                DiesAttaching, AttachEnds, MacNATFails
  <2>2. Mishap \/ UNCHANGED mishaps
    BY <1>3 DEF StartContainer, StopContainer, CleanContainer, LookUpFails, AttachNIC, AttachNICFails,
                DiesAttaching, AttachEnds, MacNATFails
  <2> QED
    BY <1>1, <2>1, <2>2 DEF Counted
<1>4. CASE \/ \E v \in Of("vm") : StartVM(v) \/ StartVMFails(v)
           \/ \E v \in DOMAIN domains : StopVM(v)
           \/ DestroyLab \/ Drifts \/ Reboot
  <2>1. seen' = seen
    BY <1>4 DEF StartVM, StartVMFails, StopVM, DestroyLab, Drifts, Reboot
  <2>2. Mishap \/ UNCHANGED mishaps
    BY <1>4 DEF StartVM, StartVMFails, StopVM, DestroyLab, Drifts, Reboot
  <2> QED
    BY <1>1, <2>1, <2>2 DEF Counted
<1>5. CASE UNCHANGED vars
  BY <1>5 DEF vars, Counted
<1> QED
  BY <1>2, <1>3, <1>4, <1>5 DEF Next

LEMMA Invariant == Spec => []IInv
<1>1. Init => IInv
  BY HostNetAssumption
     DEF Init, IInv, Net, Shape, Owned, Calling, Separate, AllJoined, Progress, Domains, Counted, IsCall
<1>2. IInv /\ [Next]_vars => IInv'
  <2> SUFFICES ASSUME IInv, [Next]_vars PROVE Net'
    BY DomainsKept, CountedKept DEF IInv
  <2>0. Net /\ seen \in Labs
    BY DEF IInv, Counted
  <2>1. CASE \E c \in Of("container") : StartContainer(c)
    BY <2>0, <2>1, StartContainerKeeps
  <2>2. CASE LookUpFails \/ AttachNIC
    BY <2>0, <2>2, LookUpFailsKeeps, AttachNICKeeps
  <2>3. CASE AttachNICFails \/ DiesAttaching
    BY <2>0, <2>3, AttachNICFailsDwindles, DiesAttachingDwindles, DwindlingKeeps
  <2>4. CASE UNCHANGED vars
    <3>1. \A c, i : Finished(c, i)' <=> Finished(c, i)
      BY <2>4, SameAsked DEF vars, Finished
    <3> QED
      BY <2>0, <2>4, <3>1, SameAsked DEF vars, Net, Shape, Owned, Calling, Separate, AllJoined, Progress
  <2>5. CASE \/ AttachEnds \/ MacNATFails \/ DestroyLab \/ Loads \/ Drifts \/ Reboot
             \/ \E c \in Of("container") : StopContainer(c)
             \/ \E c \in DOMAIN tasks : CleanContainer(c)
             \/ \E v \in Of("vm") : StartVM(v) \/ StartVMFails(v)
             \/ \E v \in DOMAIN domains : StopVM(v)
    BY <2>0, <2>5, OthersDwindle, DwindlingKeeps
  <2> QED
    BY <2>1, <2>2, <2>3, <2>4, <2>5 DEF Next
<1> QED
  BY <1>1, <1>2, PTL DEF Spec

-----------------------------------------------------------------------------
(* Theorems *)

\* An interface exists only in the namespace of a container that runs, what a
\* call will take back exists, and a domain that is shut off runs nothing.
THEOREM HostTypes == Spec => []TypeOK
<1>1. IInv => TypeOK
  BY DEF IInv, Net, Owned, Calling, Separate, Domains, Counted, TypeOK
<1> QED
  BY <1>1, Invariant, PTL

\* An interface gets its name in the namespace last: the next pass, which asks
\* for the name alone, never takes an unfinished interface for a finished one.
THEOREM AlwaysWired == Spec => []Wired
<1>1. IInv => Wired
  BY DEF IInv, Net, AllJoined, Joined, Wired
<1> QED
  BY <1>1, Invariant, PTL

LEMMA StartsEnd ==
  ASSUME IInv, StartMeans, [Next]_vars
  PROVE  StartMeans'
<1>1. CASE AttachEnds
  <2>1. PICK c : c = call.id
    OBVIOUS
  <2>2. /\ seen' = seen /\ nics' = nics /\ host \subseteq host' /\ Configured
        /\ done'.kind = "container" /\ done'.id = c
        /\ call # NoCall /\ call.next \notin DOMAIN NICs("container", c)
    BY <1>1, <2>1 DEF AttachEnds, Attached, Ensured
  <2>3. \A i \in DOMAIN NICs("container", c) : Finished(c, i)
    <3>1. c \in Of("container") /\ seen \in Labs /\ call.next \in Nat \ {0}
      BY <2>1, <2>2 DEF IInv, Net, Calling, Counted
    <3>2. \A i \in DOMAIN NICs("container", c) : i < call.next
      BY <2>2, <3>1, Counting
    <3> QED
      BY <2>1, <2>2, <3>2 DEF IInv, Net, Progress
  <2>4. \A i \in DOMAIN NICs("container", c) : Finished(c, i)'
    BY <2>2, <2>3, StaysFinished
  <2>5. Sessions' = Sessions /\ NICs("container", c)' = NICs("container", c)
    BY <2>2, SameSessions, SameAsked
  <2>6. Sessions # <<>> => kernel' = ToSet(Sessions)
    BY <2>2 DEF Configured
  <2> QED
    BY <2>2, <2>4, <2>5, <2>6 DEF StartMeans
<1>2. ASSUME NEW v \in Of("vm"), StartVM(v)
      PROVE  StartMeans'
  <2>1. seen' = seen /\ done'.kind = "vm" /\ done'.id = v
    BY <1>2 DEF StartVM
  <2>2. Config(v)' = Config(v)
    BY <2>1, SameConfig
  <2>3. CASE AsWanted(v)
    <3>1. domains[v].saved \in {Config(v), Edited} /\ domains[v].live = Config(v) /\ domains[v].state = "running"
      BY <2>3, AsksForSomething DEF AsWanted, IInv, Domains
    <3> QED
      BY <1>2, <2>1, <2>2, <2>3, <3>1 DEF StartVM, StartMeans
  <2>4. CASE ~AsWanted(v)
    BY <1>2, <2>1, <2>2, <2>4 DEF StartVM, StartMeans, Defined, Put, Created, Domain
  <2> QED
    BY <2>3, <2>4
<1>3. ASSUME done' = Nowhere PROVE StartMeans'
  BY <1>3, LabRulesAssumption DEF StartMeans, AllKinds
<1>4. CASE \/ \E c \in Of("container") : StartContainer(c) \/ StopContainer(c)
           \/ \E c \in DOMAIN tasks : CleanContainer(c)
           \/ LookUpFails \/ AttachNIC \/ AttachNICFails \/ DiesAttaching \/ MacNATFails
  BY <1>3, <1>4 DEF StartContainer, StopContainer, CleanContainer, LookUpFails, AttachNIC, AttachNICFails,
                    DiesAttaching, MacNATFails
<1>5. CASE \/ \E v \in Of("vm") : StartVMFails(v)
           \/ \E v \in DOMAIN domains : StopVM(v)
           \/ DestroyLab \/ Loads \/ Drifts \/ Reboot
  BY <1>3, <1>5 DEF StartVMFails, StopVM, DestroyLab, Loads, Drifts, Reboot
<1>6. CASE UNCHANGED vars
  <2>1. \A c, i : Finished(c, i)' <=> Finished(c, i)
    BY <1>6, SameAsked DEF vars, Finished
  <2>2. Sessions' = Sessions /\ \A v : Config(v)' = Config(v)
    BY <1>6, SameSessions, SameConfig DEF vars
  <2> QED
    BY <1>6, <2>1, <2>2, SameAsked DEF vars, StartMeans
<1> QED
  BY <1>1, <1>2, <1>4, <1>5, <1>6 DEF Next

\* A start that is reported a success has attached every interface as the lab
\* asks, with its address, bridge and rules, and a VM runs what it was asked.
THEOREM StartsMean == Spec => []StartMeans
<1>1. Init => StartMeans
  BY LabRulesAssumption DEF Init, StartMeans, AllKinds
<1>2. IInv /\ StartMeans /\ [Next]_vars => StartMeans'
  BY StartsEnd
<1> QED
  BY <1>1, <1>2, Invariant, PTL DEF Spec

\* What a container had before a call, and the call found, it keeps, whatever
\* fails in the call.
Keeps ==
  \A key \in DOMAIN nics :
    key \in call.had \intersect Found /\ nics[key].named /\ key[1] \in DOMAIN tasks'
      => key \in DOMAIN nics' /\ nics'[key].on = nics[key].on

LEMMA RollbackKeeps ==
  ASSUME Net, NEW left, NEW new, TakenBack(left, new),
         \A key \in DOMAIN nics : key \in call.had /\ nics[key].named =>
           key \in DOMAIN left \ new /\ left[key].on = nics[key].on
  PROVE  Keeps
<1>1. CASE call.fresh
  BY <1>1 DEF Net, Separate, Keeps
<1>2. CASE ~call.fresh
  BY <1>2 DEF TakenBack, Restrict, Net, Separate, Keeps
<1> QED
  BY <1>1, <1>2

LEMMA StepKeeps ==
  ASSUME IInv, [Next]_vars
  PROVE  Keeps
<1>0. Net
  BY DEF IInv
<1>1. call = NoCall => Keeps
  BY DEF Keeps
<1>2. CASE AttachNIC
  <2>1. nics' = nics \/ nics' = Put(nics, Key, Given(IF Exists THEN nics[Key] ELSE Last(WayOf(call.id, call.next))))
    BY <1>2 DEF AttachNIC
  <2>2. Exists => Given(nics[Key]).on = nics[Key].on
    BY <1>0, GivenKeeps DEF Exists, Net, Shape
  <2> QED
    BY <2>1, <2>2 DEF Keeps, Put, Exists
<1>3. CASE AttachNICFails
  <2>1. CASE TakenBack(nics, {})
    BY <1>0, <2>1, RollbackKeeps
  <2>2. CASE ~Exists /\ TakenBack(nics, {Key})
    BY <1>0, <2>2, RollbackKeeps DEF Exists
  <2>3. CASE Exists /\ TakenBack([nics EXCEPT ![Key].up = TRUE], {})
    BY <1>0, <2>3, RollbackKeeps DEF Exists, Net, Shape, IsNIC
  <2> QED
    BY <1>3, <2>1, <2>2, <2>3 DEF AttachNICFails
<1>4. CASE DiesAttaching
  BY <1>4 DEF DiesAttaching, Put, Exists, Keeps
<1>5. CASE MacNATFails
  BY <1>0, <1>5, RollbackKeeps DEF MacNATFails
<1>6. CASE Reboot
  BY <1>6 DEF Reboot, Keeps
<1>7. CASE AttachEnds \/ UNCHANGED vars
  BY <1>7 DEF AttachEnds, vars, Keeps
<1>9. CASE LookUpFails
  <2>1. call # NoCall /\ IsCall(call)
    BY <1>0, <1>9 DEF LookUpFails, Attaching, Net, Shape
  <2>2. Key \notin Found
    <3>1. call'.had = call.had \ {Key} /\ call'.id = call.id /\ call'.next = call.next
      BY <1>9, <2>1 DEF LookUpFails, IsCall
    <3>2. call' # NoCall
      BY <1>0, <2>1, <3>1 DEF Net, Calling
    <3> QED
      BY <3>1, <3>2 DEF Found
  <2>3. \A key \in DOMAIN nics \ {Key} : key \in DOMAIN nics' /\ nics'[key] = nics[key]
    BY <1>9 DEF LookUpFails, Drop, Restrict
  <2> QED
    BY <2>2, <2>3 DEF Keeps
<1>8. CASE \/ \E c \in Of("container") : StartContainer(c) \/ StopContainer(c)
           \/ \E c \in DOMAIN tasks : CleanContainer(c)
           \/ \E v \in Of("vm") : StartVM(v) \/ StartVMFails(v)
           \/ \E v \in DOMAIN domains : StopVM(v)
           \/ DestroyLab \/ Loads \/ Drifts
  BY <1>1, <1>8 DEF StartContainer, StopContainer, CleanContainer, StartVM, StartVMFails, StopVM, DestroyLab,
                    Loads, Drifts
<1> QED
  BY <1>2, <1>3, <1>4, <1>5, <1>6, <1>7, <1>8, <1>9 DEF Next

\* A failed AttachContainer takes back what it made and what it did not find: a
\* container that ran before keeps every other interface it had, where it was
\* joined.
THEOREM AttachedKept == Spec => KeepsAttached
<1>1. IInv /\ [Next]_vars => [Keeps]_vars
  BY StepKeeps
<1> QED
  BY <1>1, Invariant, PTL DEF Spec, KeepsAttached, Keeps

-----------------------------------------------------------------------------
(* Addresses.  There is a slot for every interface of a network that is not *)
(* full, and the search for a free one ends.                                *)

\* The slots that some interfaces have taken are no more than they.
LEMMA TakenFew ==
  ASSUME NEW p, NEW B, IsFiniteSet(B)
  PROVE  IsFiniteSet({p[k] : k \in B}) /\ Cardinality({p[k] : k \in B}) <= Cardinality(B)
<1> DEFINE T == {p[k] : k \in B}
           f == [k \in B |-> p[k]]
<1>1. f \in Surjection(B, T)
  BY DEF Surjection
<1> HIDE DEF T, f
<1>2. IsFiniteSet(T) /\ Cardinality(T) <= Cardinality(B)
  BY <1>1, FS_Surjection
<1> QED  BY <1>2 DEF T

\* A set of numbers has a least one.
LEMMA LeastOf ==
  ASSUME NEW T, T \subseteq Nat, T # {}
  PROVE  \E d \in T : \A e \in T : d <= e
<1>1. \E d \in T : \A e \in T : ~(<<e, d>> \in OpToRel(<, Nat))
  BY WFMin, NatLessThanWellFounded
<1>2. PICK d \in T : \A e \in T : ~(e < d)
  BY <1>1 DEF OpToRel
<1>3. \A e \in T : d <= e
  BY <1>2
<1> QED  BY <1>3

\* While fewer slots are taken than there are, the search ends on a free one.
LEMMA FreeSlot ==
  ASSUME NEW s \in Nat \ {0}, NEW key, Preferred[key] \in Nat,
         NEW taken, IsFiniteSet(taken), Cardinality(taken) < s
  PROVE  FirstFree(key, taken, s) \in 0..(s - 1) /\ FirstFree(key, taken, s) \notin taken
<1> DEFINE h == Preferred[key] % s
           slot(d) == (h + d) % s
           free == {d \in 0..(s - 1) : slot(d) \notin taken}
<1>1. h \in 0..(s - 1)
  OBVIOUS
<1>2. PICK t \in 0..(s - 1) : t \notin taken
  <2>1. IsFiniteSet(0..(s - 1)) /\ Cardinality(0..(s - 1)) = s
    <3>1. 0 \in Int /\ s - 1 \in Int /\ ~(0 > s - 1) /\ (s - 1) - 0 + 1 = s
      OBVIOUS
    <3> QED  BY <3>1, FS_Interval
  <2>2. CASE 0..(s - 1) \subseteq taken
    <3>1. Cardinality(0..(s - 1)) <= Cardinality(taken) /\ Cardinality(taken) \in Nat
      BY <2>2, FS_Subset, FS_CardinalityType
    <3> QED  BY <2>1, <3>1
  <2> QED  BY <2>2
<1> HIDE DEF h
<1>3. free # {}
  <2> DEFINE d == IF h <= t THEN t - h ELSE (t - h) + s
  <2>1. d \in 0..(s - 1) /\ h + d \in {t, t + s}
    BY <1>1
  <2>2. t % s = t /\ (t + s) % s = t
    OBVIOUS
  <2> HIDE DEF d
  <2>3. slot(d) = t
    BY <2>1, <2>2
  <2> QED  BY <1>2, <2>1, <2>3
<1> DEFINE first == CHOOSE d \in free : \A e \in free : d <= e
<1>4. free \subseteq 0..(s - 1) /\ \A d \in free : slot(d) \notin taken
  OBVIOUS
<1>5. FirstFree(key, taken, s) = slot(first)
  BY DEF FirstFree, h
<1>6. first \in 0..(s - 1) /\ slot(first) \notin taken
  <2> HIDE DEF free
  <2>1. free \subseteq Nat
    BY <1>4
  <2>2. first \in free
    BY <1>3, <2>1, LeastOf
  <2> HIDE DEF first
  <2> QED  BY <1>4, <2>2
<1> HIDE DEF first
<1>7. slot(first) \in 0..(s - 1)
  BY <1>1, <1>6
<1> QED  BY <1>5, <1>6, <1>7

\* The interface whose name comes last.
LEMMA LastOne ==
  ASSUME NEW S, S \subseteq DOMAIN Rank, IsFiniteSet(S), S # {}
  PROVE  \E last \in S : \A k \in S : Rank[k] <= Rank[last]
<1> DEFINE HasLast(U) == \E last \in U : \A k \in U : Rank[k] <= Rank[last]
           Bad == {U \in SUBSET S : U # {} /\ ~HasLast(U)}
<1>0. \A k \in S : Rank[k] \in Nat
  BY HostNetAssumption
<1>1. CASE Bad # {}
  <2>1. Bad \subseteq FiniteSubsetsOf(S)
    BY FS_FiniteSubsetsOfFinite
  <2>2. PICK U \in Bad : \A V \in Bad : ~(<<V, U>> \in StrictSubsetOrdering(S))
    <3> HIDE DEF Bad
    <3> QED  BY <1>1, <2>1, WFMin, FS_StrictSubsetOrderingWellFounded
  <2>3. PICK x \in U : TRUE
    OBVIOUS
  <2>4. CASE U = {x}
    BY <1>0, <2>4
  <2>5. CASE U # {x}
    <3> DEFINE V == U \ {x}
    <3>1. V # {} /\ V \in SUBSET S /\ <<V, U>> \in StrictSubsetOrdering(S)
      BY <2>5 DEF StrictSubsetOrdering
    <3>2. HasLast(V)
      BY <2>2, <3>1
    <3>3. PICK last \in V : \A k \in V : Rank[k] <= Rank[last]
      BY <3>2
    <3>4. \A k \in U : Rank[k] \in Nat
      BY <1>0
    <3>5. HasLast(U)
      <4>1. CASE Rank[x] <= Rank[last]
        BY <3>3, <4>1
      <4>2. CASE ~(Rank[x] <= Rank[last])
        BY <3>3, <3>4, <4>2
      <4> QED  BY <4>1, <4>2
    <3> QED  BY <3>5
  <2> QED  BY <2>4, <2>5
<1> QED  BY <1>1

CanPlace(keys, slots) == \E placed \in [keys -> 0..(slots - 1)] : Placed(placed, keys, slots)

\* Interfaces placed, and one more whose name comes after theirs.
LEMMA PlacedNext ==
  ASSUME NEW S, S \subseteq DOMAIN Rank, IsFiniteSet(S), NEW s \in Nat \ {0}, Cardinality(S) <= s,
         NEW last \in S, \A k \in S : Rank[k] <= Rank[last], CanPlace(S \ {last}, s)
  PROVE  CanPlace(S, s)
<1> DEFINE T == S \ {last}
<1>1. PICK p \in [T -> 0..(s - 1)] : Placed(p, T, s)
  BY DEF CanPlace
<1>2. \A k \in S : Rank[k] \in Nat /\ Preferred[k] \in Nat
  BY HostNetAssumption
<1>3. \A k \in S : last \notin Before(k, S) /\ Before(k, S) = Before(k, T) /\ Before(k, S) \subseteq T
  BY <1>2 DEF Before
<1> DEFINE taken == {p[k] : k \in Before(last, S)}
           at == FirstFree(last, taken, s)
           new == [k \in S |-> IF k = last THEN at ELSE p[k]]
<1>4. at \in 0..(s - 1)
  <2>1. IsFiniteSet(T) /\ Cardinality(T) = Cardinality(S) - 1 /\ Cardinality(S) \in Nat
    BY FS_RemoveElement, FS_CardinalityType
  <2>2. IsFiniteSet(Before(last, S)) /\ Cardinality(Before(last, S)) <= Cardinality(T)
    BY <1>3, <2>1, FS_Subset
  <2>3. IsFiniteSet(taken) /\ Cardinality(taken) <= Cardinality(Before(last, S))
    BY <2>2, TakenFew
  <2>4. Cardinality(taken) < s
    <3>1. Cardinality(taken) \in Nat /\ Cardinality(Before(last, S)) \in Nat
      BY <2>2, <2>3, FS_CardinalityType
    <3> QED  BY <2>1, <2>2, <2>3, <3>1
  <2> HIDE DEF taken
  <2> QED  BY <1>2, <2>3, <2>4, FreeSlot
<1> HIDE DEF at
<1>5. new \in [S -> 0..(s - 1)]
  BY <1>4
<1>6. ASSUME NEW k \in S PROVE {new[m] : m \in Before(k, S)} = {p[m] : m \in Before(k, S)}
  BY <1>3
<1>7. ASSUME NEW k \in S PROVE new[k] = FirstFree(k, {new[m] : m \in Before(k, S)}, s)
  <2>1. CASE k = last
    <3>1. new[k] = at
      BY <2>1
    <3> HIDE DEF new
    <3> QED  BY <1>6, <2>1, <3>1 DEF at
  <2>2. CASE k # last
    <3>1. new[k] = p[k] /\ k \in T
      BY <2>2
    <3>2. p[k] = FirstFree(k, {p[m] : m \in Before(k, T)}, s)
      BY <1>1, <3>1 DEF Placed
    <3> HIDE DEF new, T
    <3> QED  BY <1>3, <1>6, <3>1, <3>2
  <2> QED  BY <2>1, <2>2
<1> HIDE DEF new
<1>8. Placed(new, S, s)
  BY <1>7 DEF Placed
<1> QED  BY <1>5, <1>8 DEF CanPlace

LEMMA Placeable ==
  ASSUME NEW keys, keys \subseteq DOMAIN Rank, IsFiniteSet(keys), NEW s \in Nat \ {0}, Cardinality(keys) <= s
  PROVE  CanPlace(keys, s)
<1> DEFINE Bad == {S \in SUBSET keys : ~CanPlace(S, s)}
<1>1. ASSUME Bad # {} PROVE FALSE
  <2>1. Bad \subseteq FiniteSubsetsOf(keys)
    BY FS_FiniteSubsetsOfFinite
  <2>2. PICK S \in Bad : \A T \in Bad : ~(<<T, S>> \in StrictSubsetOrdering(keys))
    <3> HIDE DEF Bad
    <3> QED  BY <1>1, <2>1, WFMin, FS_StrictSubsetOrderingWellFounded
  <2>3. S # {}
    <3>1. CanPlace({}, s)
      <4> DEFINE none == [k \in {} |-> 0]
      <4>1. none \in [{} -> 0..(s - 1)] /\ Placed(none, {}, s)
        BY DEF Placed
      <4> QED  BY <4>1 DEF CanPlace
    <3> QED  BY <3>1
  <2>4. S \in SUBSET keys /\ ~CanPlace(S, s)
    OBVIOUS
  <2>5. IsFiniteSet(S) /\ Cardinality(S) <= Cardinality(keys) /\ Cardinality(S) \in Nat /\ Cardinality(keys) \in Nat
    BY <2>4, FS_Subset, FS_CardinalityType
  <2>6. PICK last \in S : \A k \in S : Rank[k] <= Rank[last]
    BY <2>3, <2>4, <2>5, LastOne
  <2>7. CanPlace(S \ {last}, s)
    <3>1. <<S \ {last}, S>> \in StrictSubsetOrdering(keys) /\ S \ {last} \in SUBSET keys
      BY <2>4 DEF StrictSubsetOrdering
    <3> QED  BY <2>2, <3>1
  <2>8. CanPlace(S, s)
    <3>1. S \subseteq DOMAIN Rank /\ Cardinality(S) <= s
      BY <2>4, <2>5
    <3> HIDE DEF Bad
    <3> QED  BY <2>5, <2>6, <2>7, <3>1, PlacedNext
  <2> QED  BY <2>4, <2>8
<1> QED  BY <1>1

\* The slots of a network are given once each.
LEMMA PlacesApart ==
  ASSUME NEW keys, keys \subseteq DOMAIN Rank, IsFiniteSet(keys), NEW s \in Nat \ {0}, Cardinality(keys) <= s
  PROVE  /\ Places(keys, s) \in [keys -> 0..(s - 1)]
         /\ \A k, m \in keys : k # m => Places(keys, s)[k] # Places(keys, s)[m]
<1> DEFINE p == Places(keys, s)
<1>1. p \in [keys -> 0..(s - 1)] /\ Placed(p, keys, s)
  BY Placeable DEF CanPlace, Places
<1> HIDE DEF p
<1>2. \A k \in keys : Rank[k] \in Nat /\ Preferred[k] \in Nat
  BY HostNetAssumption
<1>3. ASSUME NEW k \in keys, NEW m \in keys, Rank[m] < Rank[k] PROVE p[k] # p[m]
  <2> DEFINE taken == {p[i] : i \in Before(k, keys)}
  <2>1. Before(k, keys) \subseteq keys \ {k} /\ m \in Before(k, keys)
    BY <1>2, <1>3 DEF Before
  <2>2. IsFiniteSet(keys \ {k}) /\ Cardinality(keys \ {k}) = Cardinality(keys) - 1 /\ Cardinality(keys) \in Nat
    BY FS_RemoveElement, FS_CardinalityType
  <2>3. IsFiniteSet(Before(k, keys)) /\ Cardinality(Before(k, keys)) <= Cardinality(keys \ {k})
    BY <2>1, <2>2, FS_Subset
  <2>4. IsFiniteSet(taken) /\ Cardinality(taken) <= Cardinality(Before(k, keys))
    BY <2>3, TakenFew
  <2>5. Cardinality(taken) < s
    <3>1. Cardinality(taken) \in Nat /\ Cardinality(Before(k, keys)) \in Nat
      BY <2>3, <2>4, FS_CardinalityType
    <3> QED  BY <2>2, <2>3, <2>4, <3>1
  <2>6. p[m] \in taken
    BY <2>1
  <2>7. p[k] = FirstFree(k, taken, s)
    BY <1>1 DEF Placed
  <2> HIDE DEF taken
  <2> QED  BY <1>2, <2>4, <2>5, <2>6, <2>7, FreeSlot
<1>4. ASSUME NEW k \in keys, NEW m \in keys, k # m PROVE p[k] # p[m]
  <2>1. Rank[k] # Rank[m]
    BY <1>4, HostNetAssumption
  <2> QED  BY <1>2, <1>3, <2>1
<1> QED  BY <1>1, <1>4 DEF p

\* The interfaces of a lab's network are finitely many, and each has its name.
LEMMA StaticsFinite ==
  ASSUME seen \in Labs, NEW f, NEW net
  PROVE  Statics(f, net) \subseteq DOMAIN Rank /\ IsFiniteSet(Statics(f, net))
<1> DEFINE C == {d \in Of("container") : ~Entry("container", d).dhcp}
           On(c) == {<<c, i>> : i \in {j \in DOMAIN NICs("container", c) : NICs("container", c)[j][f] = net}}
           N == Len(seen.nodes)
<1>1. Statics(f, net) = UNION {On(c) : c \in C}
  BY DEF Statics
<1>2. N \in Nat /\ DOMAIN seen.nodes = 1..N
  BY HostNetAssumption
<1>3. IsFiniteSet(Of("container"))
  <2> DEFINE U == {seen.nodes[i].id : i \in 1..N}
             g == [i \in 1..N |-> seen.nodes[i].id]
  <2>1. g \in Surjection(1..N, U)
    BY DEF Surjection
  <2>2. Of("container") \subseteq U
    BY <1>2 DEF Of, IdsOf, ToSet
  <2>3. IsFiniteSet(1..N)
    <3>1. 1 \in Int /\ N \in Int
      BY <1>2
    <3> QED  BY <3>1, FS_Interval
  <2> HIDE DEF U, g
  <2>4. IsFiniteSet(U)
    BY <2>1, <2>3, FS_Surjection
  <2> QED  BY <2>2, <2>4, FS_Subset
<1>4. IsFiniteSet(C)
  BY <1>3, FS_Subset
<1>5. ASSUME NEW c \in Of("container") PROVE On(c) \subseteq DOMAIN Rank /\ IsFiniteSet(On(c))
  <2> DEFINE L == Len(NICs("container", c))
             I == {j \in DOMAIN NICs("container", c) : NICs("container", c)[j][f] = net}
             g == [i \in I |-> <<c, i>>]
  <2>1. L \in Nat /\ DOMAIN NICs("container", c) = 1..L
    BY Counting
  <2>2. IsFiniteSet(1..L)
    <3>1. 1 \in Int /\ L \in Int
      BY <2>1
    <3> QED  BY <3>1, FS_Interval
  <2>3. I \subseteq 1..L
    BY <2>1
  <2>4. IsFiniteSet(I)
    BY <2>2, <2>3, FS_Subset
  <2>5. g \in Surjection(I, On(c))
    BY DEF Surjection
  <2>6. Entry("container", c) \in ToSet(seen.nodes) /\ Entry("container", c).kind = "container"
           /\ Entry("container", c).id = c
    <3>1. \E n \in ToSet(seen.nodes) : n.kind = "container" /\ n.id = c
      BY DEF Of, IdsOf
    <3> QED  BY <3>1 DEF Entry, NodeOf
  <2>7. \A i \in DOMAIN NICs("container", c) : <<c, i>> \in DOMAIN Rank
    BY <2>6, HostNetAssumption DEF NICs
  <2>8. On(c) \subseteq DOMAIN Rank
    BY <2>7
  <2> HIDE DEF I, g, On
  <2> QED  BY <2>4, <2>5, <2>8, FS_Surjection
<1> HIDE DEF On
<1>6. IsFiniteSet({On(c) : c \in C})
  <2> DEFINE U == {On(c) : c \in C}
             g == [c \in C |-> On(c)]
  <2>1. g \in Surjection(C, U)
    BY DEF Surjection
  <2> HIDE DEF U, g
  <2>2. IsFiniteSet(U)
    BY <1>4, <2>1, FS_Surjection
  <2> QED  BY <2>2 DEF U
<1>7. IsFiniteSet(UNION {On(c) : c \in C})
  <2> DEFINE U == {On(c) : c \in C}
  <2>1. IsFiniteSet(U) /\ \A T \in U : IsFiniteSet(T)
    BY <1>5, <1>6
  <2> HIDE DEF U
  <2>2. IsFiniteSet(UNION U)
    BY <2>1, FS_UNION
  <2> QED  BY <2>2 DEF U
<1> QED  BY <1>1, <1>5, <1>7

\* The addresses of one NAT network are distinct and in its range, whatever the
\* hashes of its interfaces: the search for a free one ends, and on a free one.
THEOREM AddressesDistinct == Spec => []AddressesApart
<1>1. seen \in Labs => AddressesApart
  <2> SUFFICES ASSUME seen \in Labs, NEW f \in {"sw", "ext"}, NEW net,
                      Cardinality(Statics(f, net)) <= Slots[f]
               PROVE  LET keys == Statics(f, net)
                          placed == Places(keys, Slots[f])
                      IN  \A k \in keys : /\ placed[k] \in 0..(Slots[f] - 1)
                                          /\ \A m \in keys \ {k} : placed[m] # placed[k]
    BY DEF AddressesApart
  <2> DEFINE keys == Statics(f, net)
             s == Slots[f]
  <2>1. s \in Nat \ {0} /\ keys \subseteq DOMAIN Rank /\ IsFiniteSet(keys) /\ Cardinality(keys) <= s
    BY StaticsFinite, HostNetAssumption
  <2> HIDE DEF keys, s
  <2>2. /\ Places(keys, s) \in [keys -> 0..(s - 1)]
        /\ \A k, m \in keys : k # m => Places(keys, s)[k] # Places(keys, s)[m]
    BY <2>1, PlacesApart
  <2>3. \A k \in keys : /\ Places(keys, s)[k] \in 0..(s - 1)
                        /\ \A m \in keys \ {k} : Places(keys, s)[m] # Places(keys, s)[k]
    BY <2>2
  <2> QED  BY <2>3 DEF keys, s
<1>2. IInv => AddressesApart
  BY <1>1 DEF IInv, Counted
<1> QED  BY <1>2, Invariant, PTL
=============================================================================
