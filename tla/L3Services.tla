----------------------------- MODULE L3Services ------------------------------
(***************************************************************************)
(* eos:l3:Vrf, Bfd, Rpki, ResilientEcmp and Rcf (internal/resources/l3).   *)
(* ...Valid is the validation, ...Lines what the block sets under the      *)
(* resource's object, ...Found the fields that Read overlays on the        *)
(* inputs.  The forms of addresses, names, URLs and paths are left to the  *)
(* inputs.                                                                 *)
(***************************************************************************)
EXTENDS NamedLists

VrfObject(name) == <<"vrf", [name |-> name]>>

VrfValid(args) == args.name # "default"

\* Every knob is rendered, on or off; IPv4 routing is on unless it is FALSE.
VrfLines(args) ==
    [header |-> "on", description |-> Or(args, "description", ""),
     ipRouting |-> Or(args, "ipRouting", TRUE), ipv6Routing |-> On(args, "ipv6Routing")]

\* `section vrf instance <name>` shows the VRFs with longer names as well: any
\* of them counts as this one, and the last description is taken.
VrfMissing(args, config) ==
    \A name \in {args.name} \cup ToSet(LongerNames(args.name)) : ~Exists(config, VrfObject(name))

VrfFound(args, config) ==
    LET named == <<args.name>> \o LongerNames(args.name)
        line(i) == <<VrfObject(named[i]), "description">>
        described == {i \in DOMAIN named : line(i) \in DOMAIN config}
        last == CHOOSE i \in described : \A j \in described : j <= i
    IN  [f \in {"ipRouting", "ipv6Routing"} \cup {"description" : i \in described} |->
            IF f = "description" THEN config[line(last)]
                                 ELSE <<VrfObject(args.name), f>> \in DOMAIN config]

-----------------------------------------------------------------------------
BfdTimers == {"interval", "minRx", "multiplier"}

BfdValid(args) ==
    /\ BfdTimers \cap DOMAIN args \in {{}, BfdTimers}
    /\ Has(args, "interval") =>
        args.interval > 0 /\ args.minRx > 0 /\ args.multiplier \in 3 .. 50
    /\ Has(args, "slowTimer") => args.slowTimer > 0

\* the three timers are one line
BfdLines(args) ==
    Overlay(Overlay([header |-> "on"], Given(args, {"slowTimer", "shutdown"})),
            IF Has(args, "interval") THEN [timers |-> Given(args, BfdTimers)] ELSE Nothing)

BfdFound(config, object) ==
    Overlay(Shown(config, object, {"slowTimer", "shutdown"}),
            Or(Shown(config, object, {"timers"}), "timers", Nothing))

-----------------------------------------------------------------------------
RpkiFields ==
    {"preference", "refreshInterval", "retryInterval", "expireInterval", "localInterface"}

RpkiValid(args) ==
    /\ args.bgpAsn \in Nat \ {0}
    /\ Has(args, "port") => args.port \in 1 .. WordMax
    /\ Has(args, "preference") => args.preference \in 1 .. 10
    /\ \A f \in {"refreshInterval", "retryInterval", "expireInterval"} : Has(args, f) => args[f] > 0
    /\ Has(args, "transport") => args.transport \in {"tcp", "tls"}

\* One line has the host, its VRF and its port; the transport always has one.
RpkiLines(args) ==
    Overlay(Given(args, RpkiFields),
            [header |-> "on", host |-> Given(args, {"cacheHost", "vrf", "port"}),
             transport |-> Or(args, "transport", "tcp")])

\* a cache without its host line counts as gone
RpkiMissing(config, object) == <<object, "host">> \notin DOMAIN config

RpkiFound(config, object) ==
    Overlay(Shown(config, object, RpkiFields \cup {"transport"}),
            Given(Or(Shown(config, object, {"host"}), "host", Nothing), {"cacheHost", "vrf", "port"}))

-----------------------------------------------------------------------------
(***************************************************************************)
(* ResilientEcmp: one line per prefix, a <<4, n>> or a <<6, n>>.  The      *)
(* family that is left out is that of the prefix when the line is          *)
(* rendered, and IPv4 when it is looked for.                               *)
(***************************************************************************)
Family(prefix) == IF prefix[1] = 6 THEN "ipv6" ELSE "ipv4"

ResilientEcmpValid(args) ==
    /\ Has(args, "ipFamily") => args.ipFamily = Family(args.prefix)
    /\ args.capacity \in 1 .. 1024
    /\ args.redundancy \in 1 .. 1023
    /\ args.capacity * args.redundancy <= 2047

ResilientEcmpLines(args) ==
    [line |-> Overlay(Given(args, {"capacity", "redundancy"}), OnOnly(args, {"ordered"}))]

ResilientEcmpMissing(args, config, object) ==
    \/ <<object, "line">> \notin DOMAIN config
    \/ Or(args, "ipFamily", "ipv4") # Family(args.prefix)

ResilientEcmpFound(args, config, object) ==
    Overlay([ipFamily |-> Or(args, "ipFamily", "ipv4")],
            Given(Or(Shown(config, object, {"line"}), "line", Nothing),
                  {"capacity", "redundancy", "ordered"}))

-----------------------------------------------------------------------------
(***************************************************************************)
(* Rcf: a unit of code, given inline, as a file on the device, or as a URL *)
(* that EOS fetches the code from.  Whatever the unit was before, EOS      *)
(* replaces it.  The code that a URL serves is named by the URL here.      *)
(***************************************************************************)
RcfDeliveries == {"code", "sourceFile", "sourceUrl"}

RcfValid(args) == Cardinality(DOMAIN args \cap RcfDeliveries) = 1

RcfLines(args) ==
    CASE Has(args, "code") -> [unit |-> <<"code", args.code>>]
      [] Has(args, "sourceFile") -> [unit |-> <<"sourceFile", args.sourceFile>>]
      [] Has(args, "sourceUrl") -> [unit |-> <<"code", args.sourceUrl>>]
      [] OTHER -> Nothing

RcfMissing(config, object) == <<object, "unit">> \notin DOMAIN config

RcfFound_FilesIgnored(config, object) ==
    LET unit == Or(Shown(config, object, {"unit"}), "unit", <<"", "">>)
    IN  [f \in {"code"} \cap {unit[1]} |-> unit[2]]

RcfFound(config, object) ==
    LET unit == Or(Shown(config, object, {"unit"}), "unit", <<"", "">>)
    IN  [f \in {"code", "sourceFile"} \cap {unit[1]} |-> unit[2]]
=============================================================================
