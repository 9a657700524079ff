----------------------------- MODULE Interfaces -----------------------------
(***************************************************************************)
(* The resources that configure one interface: eos:l2:Interface,           *)
(* PortChannel, VlanInterface (internal/resources/l2), eos:l3:Loopback,    *)
(* Subinterface and GreTunnel (internal/resources/l3).  Their blocks only  *)
(* add: a field that is left out renders no line, and no `no` form.        *)
(*                                                                         *)
(* ...Valid is the validation, ...Lines what the block sets, by knob,      *)
(* ...Found the fields that Read overlays on the inputs.  The forms of     *)
(* addresses and names are left to the inputs.                             *)
(***************************************************************************)
EXTENDS VlanResource

SwitchportFields == {"switchportMode", "accessVlan", "trunkAllowedVlans", "trunkNativeVlan"}

SwitchportValid(args) ==
    LET mode == Or(args, "switchportMode", "")
    IN  /\ mode \in {"", "access", "trunk", "routed"}
        /\ Has(args, "accessVlan") =>
            args.accessVlan \in 1 .. VlanIdMax /\ mode \in {"", "access"}
        /\ Has(args, "trunkAllowedVlans") \/ Has(args, "trunkNativeVlan") => mode \in {"", "trunk"}
        /\ Has(args, "trunkNativeVlan") => args.trunkNativeVlan \in 1 .. VlanIdMax

\* `no switchport` is a line of its own, the mode beneath it stays
SwitchportLines(args) ==
    LET mode == Or(args, "switchportMode", "")
        modeLines == CASE mode = "" -> Nothing
                       [] mode = "routed" -> [routed |-> TRUE]
                       [] OTHER -> [routed |-> FALSE, switchportMode |-> mode]
    IN  Overlay(Given(args, SwitchportFields \ {"switchportMode"}), modeLines)

SwitchportFound(config, object) ==
    Overlay(Shown(config, object, SwitchportFields),
            IF <<object, "routed">> \in DOMAIN config THEN [switchportMode |-> "routed"] ELSE Nothing)

-----------------------------------------------------------------------------
\* Interface: the port is there whether it has lines or not.  The fields of the
\* switchport are replaced by what is found, the others overlaid.
InterfaceFields == {"description", "mtu", "channelGroup", "shutdown"}

ChannelModes == {"active", "passive", "on"}

InterfaceValid(args) ==
    /\ SwitchportValid(args)
    /\ Has(args, "channelGroup") =>
        args.channelGroup.mode \in ChannelModes /\ args.channelGroup.id \in 1 .. 2000

InterfaceLines(args) == Overlay(Given(args, InterfaceFields), SwitchportLines(args))

InterfaceFound(config, object) ==
    Overlay(Shown(config, object, InterfaceFields), SwitchportFound(config, object))

-----------------------------------------------------------------------------
PortChannelFields == {"description", "mtu", "shutdown", "lacpFallback", "lacpFallbackTimeout"}

PortChannelValid(args) ==
    /\ args.id \in 1 .. 2000
    /\ SwitchportValid(args)
    /\ Has(args, "lacpFallback") => args.lacpFallback \in {"static", "individual"}
    /\ Has(args, "lacpFallbackTimeout") => args.lacpFallbackTimeout > 0

PortChannelLines(args) ==
    Overlay(Overlay([header |-> "on"], Given(args, PortChannelFields)), SwitchportLines(args))

PortChannelFound(config, object) ==
    Overlay(Shown(config, object, PortChannelFields), SwitchportFound(config, object))

-----------------------------------------------------------------------------
\* VlanInterface: a flag that is FALSE renders nothing and so never clears.
VlanInterfaceFields == {"description", "vrf", "ipAddress", "ipAddressVirtual", "mtu"}

VlanInterfaceFlags == {"noAutostate", "shutdown"}

VlanInterfaceValid(args) ==
    /\ args.vlanId \in 1 .. VlanIdMax
    /\ ~(Has(args, "ipAddress") /\ Has(args, "ipAddressVirtual"))

VlanInterfaceLines(args) ==
    Overlay(Overlay([header |-> "on"], Given(args, VlanInterfaceFields)),
            OnOnly(args, VlanInterfaceFlags))

VlanInterfaceFound(config, object) ==
    Shown(config, object, VlanInterfaceFields \cup VlanInterfaceFlags)

-----------------------------------------------------------------------------
\* Loopback and Subinterface always render one of `shutdown`, `no shutdown`.
LoopbackFields == {"description", "vrf", "ipAddress", "ipv6Address"}

LoopbackValid(args) ==
    /\ args.number \in 0 .. 1000
    /\ Has(args, "ipAddress") \/ Has(args, "ipv6Address")

LoopbackLines(args) ==
    Overlay(Given(args, LoopbackFields), [header |-> "on", shutdown |-> On(args, "shutdown")])

LoopbackFound(config, object) == Shown(config, object, LoopbackFields \cup {"shutdown"})

SubinterfaceFields ==
    LoopbackFields \cup {"encapsulationVlan", "mtu", "bfd"}

SubinterfaceValid(args) ==
    /\ args.encapsulationVlan \in 1 .. VlanIdMax
    /\ Has(args, "bfd") => /\ args.bfd.interval > 0 /\ args.bfd.minRx > 0
                           /\ args.bfd.multiplier \in 3 .. 50

SubinterfaceLines(args) ==
    Overlay(Given(args, SubinterfaceFields), [header |-> "on", shutdown |-> On(args, "shutdown")])

SubinterfaceFound(config, object) == Shown(config, object, SubinterfaceFields \cup {"shutdown"})

-----------------------------------------------------------------------------
GreTunnelFields ==
    {"description", "mtu", "vrf", "ipAddress", "mode", "source", "destination", "underlayVrf",
     "tos", "key", "mssCeiling", "shutdown"}

GreTunnelFlags == {"pathMtuDiscovery", "dontFragment"}

\* The key is any number of 32 bits.
GreTunnelValid(args) ==
    /\ args.id \in 0 .. WordMax
    /\ Has(args, "mode") => args.mode \in {"gre", "ipsec"}
    /\ Has(args, "tos") => args.tos \in 0 .. 255
    /\ Has(args, "key") => args.key \in Nat
    /\ Has(args, "mssCeiling") => args.mssCeiling > 0
    /\ Has(args, "mtu") => args.mtu \in 68 .. 9214

GreTunnelLines(args) ==
    Overlay(Overlay([header |-> "on"], Given(args, GreTunnelFields)), OnOnly(args, GreTunnelFlags))

GreTunnelFound(config, object) == Shown(config, object, GreTunnelFields \cup GreTunnelFlags)
=============================================================================
