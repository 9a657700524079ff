-------------------------------- MODULE Vrrp --------------------------------
(***************************************************************************)
(* eos:l3:Vrrp (internal/resources/l3/vrrp.go): one VRRP group, made of    *)
(* the lines `vrrp <vrid> ...` under an interface that another resource    *)
(* owns.  A group without a line is not there.  A virtual address is a     *)
(* <<4, n>> or a <<6, n>>, n in the order in which EOS shows them.         *)
(***************************************************************************)
EXTENDS Integers, Sequences, EosConfig

VrrpFields ==
    {"description", "priority", "preemptDelayMinimum", "timersAdvertise", "bfdPeer", "shutdown"}

VrrpTrackValid(track) ==
    /\ track.action \in {"decrement", "shutdown"}
    /\ track.action = "decrement" => Has(track, "decrement") /\ track.decrement \in 1 .. 254

VrrpValid(args) ==
    /\ args.vrid \in 1 .. 255
    /\ Has(args, "priority") => args.priority \in 1 .. 254
    /\ Has(args, "timersAdvertise") => args.timersAdvertise > 0
    /\ Has(args, "preemptDelayMinimum") => args.preemptDelayMinimum >= 0
    /\ \A i \in DOMAIN Or(args, "tracks", <<>>) : VrrpTrackValid(args.tracks[i])

AddressList(args) == Or(args, "virtualAddresses", <<>>)

IPv4Places(args) == {i \in DOMAIN AddressList(args) : AddressList(args)[i][1] = 4}

\* The first IPv4 address is the primary one, which EOS replaces; the others
\* are rows.
PrimaryPlaces(args) == {i \in IPv4Places(args) : \A j \in IPv4Places(args) : i <= j}

VrrpLines(args) ==
    Overlay(Overlay(Given(args, VrrpFields), OnOnly(args, {"preempt"})),
            [k \in {j \in {"primary"} : PrimaryPlaces(args) # {}} |->
                AddressList(args)[CHOOSE i \in PrimaryPlaces(args) : TRUE]])

\* of two entries for one object the later one stays
TrackOf(tracks, name) ==
    CHOOSE i \in DOMAIN tracks :
        /\ tracks[i].interface = name
        /\ \A j \in DOMAIN tracks : tracks[j].interface = name => j <= i

\* `tracked-object N decrement D` or `tracked-object N shutdown`: a decrement
\* beside "shutdown" passes validation and is not rendered
TrackLine(track) ==
    Given(track, {"action"} \cup {f \in {"decrement"} : track.action = "decrement"})

VrrpRows(args) ==
    LET addresses == AddressList(args)
        tracks == Or(args, "tracks", <<>>)
    IN  [r \in {<<"secondary", addresses[i]>> : i \in IPv4Places(args) \ PrimaryPlaces(args)}
               \cup {<<"ipv6", addresses[i]>> : i \in DOMAIN addresses \ IPv4Places(args)}
               \cup {<<"track", t.interface>> : t \in Items(args, "tracks")} |->
            IF r[1] = "track" THEN TrackLine(tracks[TrackOf(tracks, r[2])]) ELSE "on"]

\* Addresses come back primary first, then secondaries, then IPv6.
VrrpAddressesFound(config, object) ==
    LET primary == Shown(config, object, {"primary"})
        sorted(table) ==
            LET keys == ShownKeys(config, object, table)
            IN  InOrder(keys, [a \in keys |-> a[2]])
    IN  (IF Has(primary, "primary") THEN <<primary.primary>> ELSE <<>>)
            \o sorted("secondary") \o sorted("ipv6")

\* tracked objects in order of their names (numbers)
VrrpTracksFound(config, object) ==
    LET keys == ShownKeys(config, object, "track")
        names == InOrder(keys, [name \in keys |-> name])
    IN  [i \in DOMAIN names |->
            Overlay(config[<<object, "track", names[i]>>], [interface |-> names[i]])]

\* Read looks for lines that begin with `vrrp <vrid>`: a preemption that is off
\* is not among them.
VrrpMissing(config, object) ==
    \A p \in DOMAIN config : p[1] = object => p[2] = "preempt" /\ config[p] = FALSE

VrrpFound(config, object) ==
    LET shown == Shown(config, object, VrrpFields \cup {"preempt"})
        told == {f \in DOMAIN shown :
                    /\ f = "preemptDelayMinimum" => shown[f] > 0
                    /\ f = "preempt" => shown[f] = TRUE}
    IN  Overlay([f \in told |-> shown[f]],
                NonEmpty([virtualAddresses |-> VrrpAddressesFound(config, object),
                          tracks |-> VrrpTracksFound(config, object)]))
=============================================================================
