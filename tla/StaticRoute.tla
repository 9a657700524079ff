---------------------------- MODULE StaticRoute -----------------------------
(***************************************************************************)
(* eos:l3:StaticRoute (internal/resources/l3/static_route.go).  A route is *)
(* one line of running-config, known to EOS by its VRF, prefix, next hop   *)
(* and distance; a line with the same four replaces it.                    *)
(***************************************************************************)
EXTENDS Naturals, EosConfig

CONSTANT DistanceMax    \* 255

ASSUME DistanceMaxAssumption == DistanceMax \in Nat \ {0}

RouteOf(args, distance) ==
    <<"route", Or(args, "vrf", ""), args.prefix, args.nextHop, distance>>

\* (A tag is at most 2^32 - 1, which TLC has no number for.)
RouteValid(args) ==
    /\ Has(args, "distance") => args.distance \in 1 .. DistanceMax
    /\ Has(args, "tag") => args.tag \in Nat
    /\ Has(args, "metric") => args.metric \in Nat \ {0}

RouteObjects(args) == {RouteOf(args, Or(args, "distance", 1))}

\* the keyword arguments of the line; tag 0 is the default and not rendered
RouteKnobs(args) ==
    {k \in DOMAIN args \cap {"tag", "name", "metric", "track"} : k = "tag" => args.tag # 0}

RouteBlock(args) ==
    Rebuilds(RouteObjects(args),
             [p \in RouteObjects(args) \X (RouteKnobs(args) \cup {"header"}) |->
                 IF p[2] = "header" THEN "on" ELSE args[p[2]]])

RouteRemoval(args) == Drops(RouteObjects(args))

(***************************************************************************)
(* parseStaticRouteLines takes the first line with the VRF, prefix and     *)
(* next hop, whatever its distance (running-config lists the lowest        *)
(* distance first); fillState overlays a distance other than 1 and the     *)
(* keyword arguments that are there.                                       *)
(***************************************************************************)
RouteRead(args, config) ==
    LET rows == {d \in 1 .. DistanceMax : Exists(config, RouteOf(args, d))}
        first == CHOOSE d \in rows : \A e \in rows : d <= e
        row == [k \in {j \in {"tag", "name", "metric", "track"} :
                          <<RouteOf(args, first), j>> \in DOMAIN config} |->
                    config[<<RouteOf(args, first), k>>]]
        distance == [k \in {j \in {"distance"} : first # 1} |-> first]
    IN  IF rows = {} THEN Nothing ELSE Overlay(Overlay(args, row), distance)
=============================================================================
