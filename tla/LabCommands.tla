----------------------------- MODULE LabCommands -----------------------------
(***************************************************************************)
(* How edits are asked for in the terminal UI (internal/topologyui): the    *)
(* commands of the palette, whose arguments become the requests that        *)
(* LabEdits answers, and the items of menus and panels that no command has. *)
(* What a command line looks like is left out, and so are commands that are  *)
(* refused before they reach the lab.                                       *)
(***************************************************************************)
EXTENDS LabEdits

CONSTANTS
  Macs,       \* MAC addresses that commands give, None for none
  Paths,      \* disk paths that commands give, None for none
  MaxEvents   \* bound on edits, crashes, edits by hand and reads that fail

ASSUME LabCommandsAssumption == MaxEvents \in Nat

-----------------------------------------------------------------------------
(* Arguments: name=value, each name once; a command has at most three here *)

Uplinks == Known({"external"})
Values(name) ==
  CASE name = "name" -> Ids
    [] name = "disk" -> Paths \ {None}
    [] name = "mac" -> Macs \ {None}
    [] name = "switch" -> Known({"switch"})
    [] name \in {"uplink", "external", "externallink"} -> Uplinks
    [] name \in {"to", "target"} -> Known({"switch", "external"})
    [] name = "mode" -> {"bridge", "nat", "macnat-bridge", "direct", "macnat"}

Args(names) ==
  LET pairs == UNION {{name} \X Values(name) : name \in names}
      once(args) == \A p, q \in args : p[1] = q[1] => p = q
  IN  {{}} \union {args \in {{p, q, r} : p, q, r \in pairs} : once(args)}

Given(args, name) == \E p \in args : p[1] = name
Arg(args, name) == IF Given(args, name) THEN (CHOOSE p \in args : p[1] = name)[2] ELSE None

\* firstNonEmpty of an argument and its older names.
FirstArg(args, names) ==
  LET given == Among(names, {name \in ToSet(names) : Given(args, name)})
  IN  IF given = <<>> THEN None ELSE Arg(args, given[1])
NameOf(args, id) == IF Given(args, "name") THEN Arg(args, "name") ELSE id
UplinkOf(args) == FirstArg(args, <<"uplink", "external", "externallink">>)

VMArguments == {"name", "disk", "switch", "external", "uplink"}
ContainerArguments == VMArguments \union {"mac"}
DHCPArguments == {"name", "switch"}
SwitchArguments == {"name", "mode", "external", "externallink", "uplink"}
ExternalArguments == {"name", "mode"}
NICConnectArguments == {"to", "target", "switch", "external", "uplink", "mac"}

-----------------------------------------------------------------------------
(* Commands *)

VMCreate(id, args) == CreateVM(NameOf(args, id), Arg(args, "disk"), Arg(args, "switch"), UplinkOf(args))
VMSet(ref, args) == UpdateVM(ref, Arg(args, "name"), Arg(args, "disk"), Arg(args, "switch"), UplinkOf(args))

ContainerCreate(id, args) ==
  CreateContainer(NameOf(args, id), Arg(args, "disk"), Arg(args, "switch"), UplinkOf(args), Arg(args, "mac"))
ContainerSet(ref, args) ==
  UpdateContainer(ref, Arg(args, "name"), Arg(args, "disk"), Arg(args, "switch"), UplinkOf(args), Arg(args, "mac"))

Indices == 1..2

\* to=ID, or one of its older forms, which say what kind of node it is.
NICTarget(args) ==
  LET to == FirstArg(args, <<"to", "target">>)
      sw == Arg(args, "switch")
      ext == FirstArg(args, <<"uplink", "external">>)
      given == {<<to, {"switch", "external"}>>, <<sw, {"switch"}>>, <<ext, {"external"}>>}
  IN  {t \in given : t[1] # None}

ExecuteVMCommand ==
  \/ \E id \in Ids, args \in Args(VMArguments) : VMCreate(id, args)
  \/ \E ref \in Known({"vm"}) :
       \/ \E args \in Args(VMArguments) : VMSet(ref, args)
       \/ \E state \in {"running", "stopped"} : VMDesiredState(ref, state)
       \/ VMDelete(ref)
       \/ \E mac \in Macs : AddVMNIC(ref, mac)
       \/ \E i \in Indices :
            \/ \E args \in Args(NICConnectArguments) : \E t \in NICTarget(args) :
                 NICTarget(args) = {t} /\ ConnectVMNIC(ref, i, t[1], t[2], Arg(args, "mac"))
            \/ DeleteVMNIC(ref, i)

ExecuteContainerCommand ==
  \/ \E id \in Ids, args \in Args(ContainerArguments) : ContainerCreate(id, args)
  \/ \E ref \in Known({"container"}) :
       \/ \E args \in Args(ContainerArguments) : ContainerSet(ref, args)
       \/ \E state \in {"running", "stopped"} : ContainerDesiredState(ref, state)
       \/ ContainerDelete(ref)
       \/ \E mac \in Macs : AddContainerNIC(ref, mac)
       \/ \E i \in Indices :
            \/ \E args \in Args(NICConnectArguments) : \E t \in NICTarget(args) :
                 NICTarget(args) = {t} /\ ConnectContainerNIC(ref, i, t[1], t[2], Arg(args, "mac"))
            \/ DeleteContainerNIC(ref, i)

\* Of what "add" makes, only the DHCP server has no command of its own.
ExecuteAddCommand ==
  \E id \in Ids, args \in Args(DHCPArguments) : CreateDHCP(NameOf(args, id), Arg(args, "switch"))

ExecuteSwitchCommand ==
  \/ \E id \in Ids, args \in Args(SwitchArguments) :
       CreateSwitch(NameOf(args, id), IF Given(args, "mode") THEN Arg(args, "mode") ELSE "bridge", UplinkOf(args))
  \/ \E ref \in Known({"switch"}) :
       \/ \E args \in Args(SwitchArguments) : UpdateSwitch(ref, Arg(args, "name"), Arg(args, "mode"), UplinkOf(args))
       \/ SwitchDelete(ref)

ExecuteExternalCommand ==
  \/ \E id \in Ids, args \in Args(ExternalArguments) :
       CreateExternal(NameOf(args, id), IF Given(args, "mode") THEN Arg(args, "mode") ELSE "nat")
  \/ \E ref \in Uplinks :
       \/ \E args \in Args(ExternalArguments) : UpdateExternal(ref, Arg(args, "name"), Arg(args, "mode"))
       \/ ExternalDelete(ref)

\* link add and link delete
ExecuteLinkAddCommand(kind, ref, i) ==
  \E toKind \in Workload : \E toRef \in Known({toKind}) :
    \/ ConnectDirectFirst(kind, ref, i, toKind, toRef)
    \/ \E j \in Indices : ConnectDirectNIC(kind, ref, i, toKind, toRef, j)
ExecuteLinkDeleteCommand(kind, ref, i) == DisconnectNIC(kind, ref, i)
ExecuteLinkCommand ==
  \E kind \in Workload : \E ref \in Known({kind}), i \in Indices :
    ExecuteLinkAddCommand(kind, ref, i) \/ ExecuteLinkDeleteCommand(kind, ref, i)

ExecuteCommand ==
  \/ ExecuteAddCommand \/ ExecuteVMCommand \/ ExecuteContainerCommand
  \/ ExecuteSwitchCommand \/ ExecuteExternalCommand \/ ExecuteLinkCommand

-----------------------------------------------------------------------------
(* Menus and panels *)

\* An uplink in a switch's menu is taken off.
TakeUplink(ref, ext) == SwitchDisconnectExternal(ref, ext)

\* A tick in the list of a container's permissions.
TogglePermission(ref, c) ==
  SetCapability(ref, c, c \notin Effective(NodeOf(cur, "container", Resolve(cur, ref, {"container"}))))

\* The end of a drag, or of the move mode, which is saved like an edit.
SaveActiveMove(id) ==
  /\ id \in IdsOf(cur, AllKinds)
  /\ Apply(Names({NodeName(id)}), [cur EXCEPT !.placed = @ \union {id}])

ChooseItem ==
  \/ \E ref \in Known({"switch"}), ext \in Uplinks : TakeUplink(ref, ext)
  \/ \E ref \in Known({"container"}), c \in Supported : TogglePermission(ref, c)
  \/ \E id \in Ids : SaveActiveMove(id)

-----------------------------------------------------------------------------
(* The program *)

\* One edit at a time, on the UI's thread.
Edit == phase = "idle" /\ events < MaxEvents /\ (ExecuteCommand \/ ChooseItem)

Mishap ==
  /\ events < MaxEvents /\ events' = events + 1
  /\ Crash \/ HandEdit \/ (ReloadFails /\ Readable(file))

Saving ==
  /\ CreateTemp \/ WriteTemp \/ Rename \/ SaveFails \/ Reload \/ (ReloadFails /\ ~Readable(file)) \/ Open
  /\ UNCHANGED events
=============================================================================
