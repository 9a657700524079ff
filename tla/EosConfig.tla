------------------------------ MODULE EosConfig -----------------------------
(***************************************************************************)
(* The running-config of an EOS device (external), as the blocks of the    *)
(* resources change it and `show running-config` shows it: a partial       *)
(* function from <<object, knob>>, or <<object, table, key>> for the rows  *)
(* of a table, to the value.  An object, such as <<"vlan", 10>>, exists    *)
(* when its "header" is there.                                             *)
(*                                                                         *)
(* A block is the net effect of the lines a resource renders: the objects  *)
(* it negates as a whole (`no mlag configuration`), the single lines it    *)
(* negates, then the lines it sets.                                        *)
(***************************************************************************)
EXTENDS Integers, FiniteSets

Empty == [p \in {} |-> p]

\* the greatest number of 16 bits
WordMax == 65535

\* Lines that only say what holds without them are executed, but not shown.
\* (test/integration/interface_test.go:77: "cEOS only echoes `switchport mode
\* <X>` when X is non-default"; vrrp_test.go for preempt.)  FALSE stands for
\* the `no` form of a flag, "" for that of a description.
Default == [stpMode |-> "mstp", switchportMode |-> "access", accessVlan |-> 1,
            trunkNativeVlan |-> 1, routed |-> FALSE, shutdown |-> FALSE,
            preempt |-> TRUE, description |-> "", ipRouting |-> FALSE,
            ipv6Routing |-> FALSE, edgePortBpduGuardDefault |-> FALSE, mst |-> Empty]

IsDefault(knob, value) == knob \in DOMAIN Default /\ value = Default[knob]

\* Objects that stand under another one and go with it: <<kind, key>>, where
\* the key names the parent.
Nested == {"vrrp", "evpnEthernetSegment", "rpki"}

Parent(object) ==
    CASE object[1] = "vrrp" -> object[2].interface
      [] object[1] = "evpnEthernetSegment" -> object[2].parentInterface
      [] object[1] = "rpki" -> <<"routerBgp", [asn |-> object[2].bgpAsn]>>

Within(object, objects) ==
    \/ object \in objects
    \/ object[1] \in Nested /\ Parent(object) \in objects

Exec(config, block) ==
    LET kept == {p \in DOMAIN config \ DOMAIN block.set :
                    /\ ~Within(p[1], block.drop)
                    /\ <<p, config[p]>> \notin block.negate}
        shown == {p \in DOMAIN block.set : ~IsDefault(p[2], block.set[p])}
    IN  [p \in kept \cup shown |-> IF p \in shown THEN block.set[p] ELSE config[p]]

\* EOS takes one BGP instance: `router bgp` with a second number is an error,
\* and the session is not committed.
Accepted(config, block) ==
    \A p \in DOMAIN block.set : p[1][1] = "routerBgp" =>
        \A q \in DOMAIN config :
            q[1][1] = "routerBgp" /\ q[1] \notin block.drop => q[1] = p[1]

Sets(f) == [drop |-> {}, negate |-> {}, set |-> f]
Rebuilds(objects, f) == [drop |-> objects, negate |-> {}, set |-> f]
Drops(objects) == [drop |-> objects, negate |-> {}, set |-> Empty]
Negates(path, value) == [drop |-> {}, negate |-> {<<path, value>>}, set |-> Empty]

Exists(config, object) == <<object, "header">> \in DOMAIN config

\* the lines of one object, by knob, as a block sets them and as Read finds them
Under(object, lines) == [p \in {object} \X DOMAIN lines |-> lines[p[2]]]

Shown(config, object, knobs) ==
    [k \in {j \in knobs : <<object, j>> \in DOMAIN config} |-> config[<<object, k>>]]

\* the same for the rows of tables, by <<table, key>>
RowsUnder(object, rows) ==
    [p \in {<<object, r[1], r[2]>> : r \in DOMAIN rows} |-> rows[<<p[2], p[3]>>]]

ShownKeys(config, object, table) ==
    {p[3] : p \in {q \in DOMAIN config : q[1] = object /\ q[2] = table}}

\* the part of a configuration that belongs to some objects
Part(config, objects) ==
    [p \in {q \in DOMAIN config : q[1] \in objects} |-> config[p]]

(***************************************************************************)
(* The inputs of a resource are a partial function from its field names: a *)
(* Go field that is nil, or empty where the code treats empty as nil, is   *)
(* not in the domain.                                                      *)
(***************************************************************************)
Nothing == [f \in {} |-> f]

Has(args, field) == field \in DOMAIN args

Given(args, fields) == [f \in DOMAIN args \cap fields |-> args[f]]

Without(args, fields) == [f \in DOMAIN args \ fields |-> args[f]]

On(args, flag) == Has(args, flag) /\ args[flag]

\* the lists among some that are not empty
NonEmpty(lists) == [f \in {g \in DOMAIN lists : lists[g] # <<>>} |-> lists[f]]

\* a flag that has a line only when it is on
OnOnly(args, flags) == [f \in {g \in DOMAIN args \cap flags : args[g]} |-> TRUE]

\* the fields of found replace those of args
Overlay(args, found) ==
    [f \in DOMAIN args \cup DOMAIN found |->
        IF f \in DOMAIN found THEN found[f] ELSE args[f]]

\* the field of args, or a default where it is nil
Or(args, field, default) == IF Has(args, field) THEN args[field] ELSE default

\* the members of a finite set by increasing key; no two have the same one
InOrder(S, key) ==
    CHOOSE s \in [1 .. Cardinality(S) -> S] :
        \A i, j \in 1 .. Cardinality(S) : i < j => key[s[i]] < key[s[j]]

\* the members of a list field
Items(args, field) ==
    IF Has(args, field) THEN {args[field][i] : i \in DOMAIN args[field]} ELSE {}
=============================================================================
