----------------------------- MODULE L2Services ------------------------------
(***************************************************************************)
(* eos:l2:Stp and eos:l2:EvpnEthernetSegment (internal/resources/l2).  Stp *)
(* is one object per device, whose MST block is replaced whole when it is  *)
(* given; an Ethernet segment is a block of a parent interface that        *)
(* another resource owns, negated and rendered anew.                       *)
(***************************************************************************)
EXTENDS Integers, Sequences, SequencesExt, EosConfig

MstValid(mst) ==
    /\ Has(mst, "revision") => mst.revision \in 0 .. WordMax
    /\ \A i \in DOMAIN mst.instances : mst.instances[i].id \in 1 .. 4094
    /\ \A i, j \in DOMAIN mst.instances : mst.instances[i].id = mst.instances[j].id => i = j

StpValid(args) ==
    /\ Has(args, "stpMode") => args.stpMode \in {"mstp", "rstp", "rapid-pvst", "none"}
    /\ Has(args, "mst") => MstValid(args.mst)

\* the lines of the MST block: no line for what is left out, instances by id
MstLines(mst) ==
    LET instances == Items(mst, "instances")
    IN  [f \in {g \in DOMAIN mst : g = "instances" => mst.instances # <<>>} |->
            IF f = "instances" THEN InOrder(instances, [i \in instances |-> i.id]) ELSE mst[f]]

StpLines(args) ==
    Overlay(Given(args, {"stpMode", "edgePortBpduGuardDefault"}),
            [f \in {"mst"} \cap DOMAIN args |-> MstLines(args.mst)])

\* EOS always shows a mode, and the MST block when it has a line; instances is
\* empty, not left out, without a row.
StpFound(config, object) ==
    LET shown == Shown(config, object, {"stpMode", "edgePortBpduGuardDefault", "mst"})
    IN  Overlay(Overlay([stpMode |-> "mstp"], shown),
                [f \in {"mst"} \cap DOMAIN shown |-> Overlay([instances |-> <<>>], shown.mst)])

-----------------------------------------------------------------------------
\* A Designated Forwarder election: those of algorithm, preference, dontPreempt
\* and holdTime that are given.
ElectionValid(df) ==
    /\ Has(df, "algorithm") => df.algorithm \in {"modulus", "hrw", "preference"}
    /\ Has(df, "preference") =>
        Or(df, "algorithm", "") = "preference" /\ df.preference \in 0 .. WordMax
    /\ Has(df, "holdTime") => df.holdTime > 0

EvpnEthernetSegmentValid(args) ==
    /\ Has(args, "redundancy") =>
        args.redundancy \in {"all-active", "single-active", "port-active"}
    /\ Has(args, "designatedForwarder") => ElectionValid(args.designatedForwarder)

\* One line has the algorithm, its preference, and dont-preempt behind it.
AlgorithmLine(df) ==
    Overlay(Given(df, {"algorithm", "preference"}),
            IF Has(df, "preference") THEN OnOnly(df, {"dontPreempt"}) ELSE Nothing)

ElectionLines(df) ==
    Overlay(Given(df, {"holdTime"}),
            IF Has(df, "algorithm") THEN [algorithm |-> AlgorithmLine(df)] ELSE Nothing)

EvpnEthernetSegmentLines(args) ==
    Overlay(Overlay([header |-> "on"],
                    Given(args, {"identifier", "redundancy", "routeTargetImport"})),
            ElectionLines(Or(args, "designatedForwarder", Nothing)))

AlgorithmOnDevice(config, object) == Or(Shown(config, object, {"algorithm"}), "algorithm", Nothing)

\* The parser slices parts[2:] of an algorithm preference, whose number validate
\* and render leave to the inputs: without it Read panics.
EvpnEthernetSegmentPanics(config, object) ==
    LET line == AlgorithmOnDevice(config, object)
    IN  Or(line, "algorithm", "") = "preference" /\ ~Has(line, "preference")

\* The election of the inputs is replaced as a whole, when a line of it is
\* there.
EvpnEthernetSegmentFound_HoldTimeIgnored(config, object) ==
    LET election == AlgorithmOnDevice(config, object)
    IN  Overlay(Shown(config, object, {"identifier", "redundancy", "routeTargetImport"}),
                IF election = Nothing THEN Nothing ELSE [designatedForwarder |-> election])

EvpnEthernetSegmentFound(config, object) ==
    LET election == Overlay(AlgorithmOnDevice(config, object), Shown(config, object, {"holdTime"}))
    IN  Overlay(Shown(config, object, {"identifier", "redundancy", "routeTargetImport"}),
                IF election = Nothing THEN Nothing ELSE [designatedForwarder |-> election])
=============================================================================
