--------------------------- MODULE AddedKnobProofs ---------------------------
(***************************************************************************)
(* Proofs about the kinds whose Read overlays what it finds: a refresh     *)
(* that shows no difference has not passed over a line of the resource     *)
(* that its inputs do not render.  Each kind has a lemma: inputs that are  *)
(* read back unchanged render every line that the device shows.            *)
(***************************************************************************)
EXTENDS ReadBackProofs

-----------------------------------------------------------------------------
(***************************************************************************)
(* What a block sets is wanted.                                            *)
(***************************************************************************)
LEMMA SetIsWanted ==
    ASSUME NEW k, NEW args, NEW p \in DOMAIN Block(k, args).set, p[1] \in Objects(k, args),
           ~IsDefault(p[2], Block(k, args).set[p])
    PROVE  p \in DOMAIN Wanted(k, args) /\ Wanted(k, args)[p] = Block(k, args).set[p]
<1> DEFINE set == Block(k, args).set
           d == Exec(Empty, Block(k, args))
<1>1. p \in DOMAIN d
    BY ExecDomain
<1>2. d[p] = set[p]
    BY <1>1, ExecValues
<1>3. Wanted(k, args) = Part(d, Objects(k, args))
    BY DEF Wanted
<1> HIDE DEF d, set
<1> QED
    BY <1>1, <1>2, <1>3 DEF Part, set

LEMMA OneBlockSet ==
    ASSUME NEW k \in OneObjectKinds, NEW args
    PROVE  LET object == Object(k, args)
               lines == Overlay(Headers(Entered(k, args)), Under(object, Lines(k, args)))
           IN  Block(k, args).set = Overlay(lines, RowsUnder(object, Rows(k, args)))
<1> DEFINE object == Object(k, args)
           lines == Overlay(Headers(Entered(k, args)), Under(object, Lines(k, args)))
           set == Overlay(lines, RowsUnder(object, Rows(k, args)))
<1>1. Block(k, args) = OneBlock(k, args)
    BY ByKind
<1>2. OneBlock(k, args) = IF k \in RebuildKinds THEN Rebuilds({object}, set) ELSE Sets(set)
    BY DEF OneBlock
<1>3. \A o, g : Rebuilds(o, g).set = g /\ Sets(g).set = g
    BY DEF Rebuilds, Sets
<1> HIDE DEF set
<1>4. Block(k, args).set = set
    BY <1>1, <1>2, <1>3
<1> QED
    BY <1>4 DEF set

\* a line that Lines has is set under the object
LEMMA OneLineIsSet ==
    ASSUME NEW k \in OneObjectKinds, NEW args, NEW f \in DOMAIN Lines(k, args),
           \A row \in DOMAIN Rows(k, args) : row[1] # f
    PROVE  LET p == <<Object(k, args), f>>
           IN  /\ p \in DOMAIN Block(k, args).set
               /\ Block(k, args).set[p] = Lines(k, args)[f]
<1> DEFINE object == Object(k, args)
           lines == Lines(k, args)
           H == Headers(Entered(k, args))
           U == Under(object, lines)
           R == RowsUnder(object, Rows(k, args))
           set == Overlay(Overlay(H, U), R)
           p == <<object, f>>
<1>1. Block(k, args).set = set
    BY OneBlockSet
<1>2. p \notin DOMAIN R
    <2>1. \A q \in DOMAIN R : \E row \in DOMAIN Rows(k, args) : q[2] = row[1]
        BY RowsUnderShape
    <2>2. p[2] = f
        OBVIOUS
    <2> HIDE DEF p, R
    <2> QED
        BY <2>1, <2>2
<1>3. p \in DOMAIN U /\ U[p] = lines[f]
    BY DEF Under
<1> HIDE DEF H, U, R
<1>4. p \in DOMAIN set /\ set[p] = lines[f]
    BY <1>2, <1>3 DEF Overlay
<1> HIDE DEF set, lines, object
<1> QED
    BY <1>1, <1>4 DEF lines, object

LEMMA OneRowIsSet ==
    ASSUME NEW k \in OneObjectKinds, NEW args, NEW table, NEW key,
           <<table, key>> \in DOMAIN Rows(k, args)
    PROVE  LET p == <<Object(k, args), table, key>>
           IN  /\ p \in DOMAIN Block(k, args).set
               /\ Block(k, args).set[p] = Rows(k, args)[<<table, key>>]
<1> DEFINE object == Object(k, args)
           lines == Overlay(Headers(Entered(k, args)), Under(object, Lines(k, args)))
           rows == Rows(k, args)
           R == RowsUnder(object, rows)
           p == <<object, table, key>>
<1>1. Block(k, args).set = Overlay(lines, R)
    BY OneBlockSet
<1>2. p \in DOMAIN R /\ R[p] = rows[<<table, key>>]
    <2> HIDE DEF rows, object
    <2>1. <<table, key>> \in DOMAIN rows
        BY DEF rows
    <2>2. p \in {<<object, row[1], row[2]>> : row \in DOMAIN rows}
        BY <2>1
    <2> QED
        BY <2>2 DEF RowsUnder
<1> HIDE DEF lines, R, p
<1>3. p \in DOMAIN Overlay(lines, R) /\ Overlay(lines, R)[p] = rows[<<table, key>>]
    BY <1>2 DEF Overlay
<1> QED
    BY <1>1, <1>3 DEF p

\* What is found is in the inputs that are read back unchanged.
LEMMA FoundIsGiven ==
    ASSUME NEW k \in OneObjectKinds, NEW args, DOMAIN args # {}, NEW c,
           ReadBack(k, args, c) = args
    PROVE  /\ ~Missing(k, args, c)
           /\ \A f \in DOMAIN Found(k, args, c) :
                f \in DOMAIN args /\ args[f] = Found(k, args, c)[f]
<1> DEFINE base == Base(k, args)
           found == Found(k, args, c)
<1>1. OneRead(k, args, c) = args
    BY ReadByKind
<1>2. ~Missing(k, args, c) /\ Overlay(base, found) = args
    BY <1>1, NothingDomain DEF OneRead
<1> HIDE DEF base, found
<1>3. \A f \in DOMAIN found : f \in DOMAIN Overlay(base, found) /\ Overlay(base, found)[f] = found[f]
    BY DEF Overlay
<1> QED
    BY <1>2, <1>3 DEF found

\* the values of what is overlaid
LEMMA OverlayValues ==
    ASSUME NEW a, NEW b
    PROVE  /\ \A f \in DOMAIN b : f \in DOMAIN Overlay(a, b) /\ Overlay(a, b)[f] = b[f]
           /\ \A f \in DOMAIN a : f \in DOMAIN Overlay(a, b)
                                  /\ (f \notin DOMAIN b => Overlay(a, b)[f] = a[f])
BY DEF Overlay

LEMMA GivenValues ==
    ASSUME NEW args, NEW fields
    PROVE  \A f \in fields : f \in DOMAIN args =>
                f \in DOMAIN Given(args, fields) /\ Given(args, fields)[f] = args[f]
BY DEF Given

\* A flag that is shown is on, and renders its line when it is given so.
LEMMA OnOnlyValues ==
    ASSUME NEW args, NEW flags
    PROVE  \A f \in flags : f \in DOMAIN args /\ args[f] = TRUE =>
                f \in DOMAIN OnOnly(args, flags) /\ OnOnly(args, flags)[f] = TRUE
BY DEF OnOnly

-----------------------------------------------------------------------------
(***************************************************************************)
(* The kinds whose Found is just what is shown.                            *)
(***************************************************************************)
LEMMA ShownIsGiven ==
    ASSUME NEW k \in OneObjectKinds, NEW args, DOMAIN args # {}, NEW c,
           ReadBack(k, args, c) = args, NEW fields,
           Found(k, args, c) = Shown(c, Object(k, args), fields)
    PROVE  \A f \in fields : <<Object(k, args), f>> \in DOMAIN c =>
                f \in DOMAIN args /\ args[f] = c[<<Object(k, args), f>>]
BY FoundIsGiven, ShownValues

LEMMA ShutdownIsOn ==
    ASSUME NEW feature, NEW value, ValueShown(feature, "shutdown", value),
           ~IsDefault("shutdown", value)
    PROVE  value = TRUE
<1>1. value \in BOOLEAN
    BY DEF ValueShown
<1>2. value # FALSE
    BY DEF IsDefault, Default
<1> QED
    BY <1>1, <1>2

LEMMA HeaderAndShutdownBack ==
    ASSUME NEW k \in {"loopback", "subinterface"}, NEW args, DOMAIN args # {}, NEW c,
           RunningConfig(c), ReadBack(k, args, c) = args,
           NEW fields, "header" \notin fields, "shutdown" \notin fields,
           Knobs(k) = {"header", "shutdown"} \cup fields,
           Found(k, args, c) = Shown(c, Object(k, args), fields \cup {"shutdown"}),
           Lines(k, args) = Overlay(Given(args, fields),
                                    [header |-> "on", shutdown |-> On(args, "shutdown")]),
           NEW p \in DOMAIN c, p[1] = Object(k, args)
    PROVE  p[2] \in DOMAIN Lines(k, args) /\ Lines(k, args)[p[2]] = c[p]
<1> DEFINE object == Object(k, args)
           f == p[2]
           rest == [header |-> "on", shutdown |-> On(args, "shutdown")]
<1>1. k \in OneObjectKinds /\ k \in Features /\ k # "vxlanInterface" /\ object[1] = k
    BY DEF OneObjectKinds, MergeKinds, Features, Object
<1>2. p = <<object, f>> /\ f \in Knobs(k) /\ ValueShown(k, f, c[p]) /\ ~IsDefault(f, c[p])
    BY <1>1, LinesOf
<1>3. f \in fields \cup {"shutdown"} => f \in DOMAIN args /\ args[f] = c[p]
    BY <1>1, <1>2, ShownIsGiven
<1>4. DOMAIN rest = {"header", "shutdown"} /\ rest["header"] = "on"
      /\ rest["shutdown"] = On(args, "shutdown")
    OBVIOUS
<1> HIDE DEF object, f, rest
<1>5. CASE f = "header"
    BY <1>2, <1>4, <1>5, OverlayValues DEF ValueShown, rest, f
<1>6. CASE f = "shutdown"
    <2>1. c[p] = TRUE
        BY <1>2, <1>6, ShutdownIsOn
    <2>2. On(args, "shutdown") = TRUE
        BY <1>3, <1>6, <2>1 DEF On, Has
    <2>3. f \in DOMAIN rest /\ rest[f] = c[p]
        BY <1>4, <1>6, <2>1, <2>2
    <2>4. Lines(k, args) = Overlay(Given(args, fields), rest)
        BY DEF rest
    <2> QED
        BY <2>3, <2>4, OverlayValues DEF f
<1>7. CASE f \in fields
    BY <1>3, <1>4, <1>7, GivenValues, OverlayValues DEF rest, f
<1> QED
    BY <1>2, <1>5, <1>6, <1>7

LEMMA LoopbackBack ==
    ASSUME NEW k \in {"loopback", "subinterface"}, NEW args, DOMAIN args # {}, NEW c,
           RunningConfig(c), ReadBack(k, args, c) = args,
           NEW p \in DOMAIN c, p[1] = Object(k, args)
    PROVE  p[2] \in DOMAIN Lines(k, args) /\ Lines(k, args)[p[2]] = c[p]
<1> DEFINE fields == IF k = "loopback" THEN LoopbackFields ELSE SubinterfaceFields
<1>1. "header" \notin fields /\ "shutdown" \notin fields
    BY DEF LoopbackFields, SubinterfaceFields
<1>2. Knobs(k) = {"header", "shutdown"} \cup fields
    BY DEF Knobs
<1>3. Found(k, args, c) = Shown(c, Object(k, args), fields \cup {"shutdown"})
    BY DEF Found, LoopbackFound, SubinterfaceFound
<1>4. Lines(k, args) = Overlay(Given(args, fields),
                               [header |-> "on", shutdown |-> On(args, "shutdown")])
    BY DEF Lines, LoopbackLines, SubinterfaceLines
<1> HIDE DEF fields
<1> QED
    BY <1>1, <1>2, <1>3, <1>4, HeaderAndShutdownBack

\* A flag renders its line only when it is on, and is shown only then.
LEMMA FieldsAndFlagsBack ==
    ASSUME NEW k \in {"vlanInterface", "greTunnel"}, NEW args, DOMAIN args # {}, NEW c,
           RunningConfig(c), ReadBack(k, args, c) = args,
           NEW p \in DOMAIN c, p[1] = Object(k, args)
    PROVE  p[2] \in DOMAIN Lines(k, args) /\ Lines(k, args)[p[2]] = c[p]
<1> DEFINE object == Object(k, args)
           f == p[2]
           fields == IF k = "vlanInterface" THEN VlanInterfaceFields ELSE GreTunnelFields
           flags == IF k = "vlanInterface" THEN VlanInterfaceFlags ELSE GreTunnelFlags
           head == [header |-> "on"]
           given == Given(args, fields)
           on == OnOnly(args, flags)
<1>1. k \in OneObjectKinds /\ k \in Features /\ k # "vxlanInterface" /\ object[1] = k
    BY DEF OneObjectKinds, MergeKinds, Features, Object
<1>2. p = <<object, f>> /\ f \in Knobs(k) /\ ValueShown(k, f, c[p]) /\ ~IsDefault(f, c[p])
    BY <1>1, LinesOf
<1>3. Found(k, args, c) = Shown(c, object, fields \cup flags)
    BY DEF Found, VlanInterfaceFound, GreTunnelFound
<1>4. Lines(k, args) = Overlay(Overlay(head, given), on)
    BY DEF Lines, VlanInterfaceLines, GreTunnelLines
<1>5. Knobs(k) = {"header"} \cup fields \cup flags
    BY DEF Knobs
<1>6. DOMAIN head = {"header"} /\ head["header"] = "on"
    OBVIOUS
<1>7. "header" \notin fields \cup flags /\ fields \cap flags = {}
    BY DEF VlanInterfaceFields, VlanInterfaceFlags, GreTunnelFields, GreTunnelFlags
<1>8. f \in flags => c[p] = TRUE
    <2>1. flags \subseteq {"shutdown", "noAutostate", "pathMtuDiscovery", "dontFragment"}
        BY DEF VlanInterfaceFlags, GreTunnelFlags
    <2> HIDE DEF flags, f, object
    <2>2. ASSUME f = "shutdown"
          PROVE  c[p] = TRUE
        BY <1>2, <2>2, ShutdownIsOn
    <2>3. ASSUME f \in {"noAutostate", "pathMtuDiscovery", "dontFragment"}
          PROVE  c[p] = TRUE
        BY <1>2, <2>3 DEF ValueShown
    <2> QED
        BY <2>1, <2>2, <2>3
<1> HIDE DEF fields, flags, head, given, on, object, f
<1>9. f \in fields \cup flags => f \in DOMAIN args /\ args[f] = c[p]
    BY <1>1, <1>2, <1>3, ShownIsGiven DEF object
<1>10. DOMAIN given \subseteq fields /\ DOMAIN on \subseteq flags
    BY GivenDomain DEF given, on, OnOnly
<1>11. CASE f = "header"
    <2>1. c[p] = "on"
        BY <1>2, <1>11 DEF ValueShown
    <2> QED
        BY <1>4, <1>6, <1>7, <1>10, <1>11, <2>1, OverlayValues DEF f
<1>12. CASE f \in fields
    <2>1. f \in DOMAIN given /\ given[f] = c[p]
        BY <1>9, <1>12, GivenValues DEF given
    <2> QED
        BY <1>4, <1>7, <1>10, <1>12, <2>1, OverlayValues DEF f
<1>13. CASE f \in flags
    <2>1. f \in DOMAIN on /\ on[f] = c[p]
        BY <1>8, <1>9, <1>13, OnOnlyValues DEF on
    <2> QED
        BY <1>4, <2>1, OverlayValues DEF f
<1> QED
    BY <1>2, <1>5, <1>11, <1>12, <1>13

-----------------------------------------------------------------------------
(***************************************************************************)
(* Ports.                                                                  *)
(***************************************************************************)
LEMMA SwitchportBack ==
    ASSUME NEW args, NEW c, RunningConfig(c), NEW object,
           object[1] \in {"interface", "portChannel"},
           \A f \in DOMAIN SwitchportFound(c, object) :
                f \in DOMAIN args /\ args[f] = SwitchportFound(c, object)[f],
           NEW f \in SwitchportFields \cup {"routed"}, <<object, f>> \in DOMAIN c,
           f = "switchportMode" => <<object, "routed">> \notin DOMAIN c
    PROVE  f \in DOMAIN SwitchportLines(args) /\ SwitchportLines(args)[f] = c[<<object, f>>]
<1> DEFINE p == <<object, f>>
           mode == Or(args, "switchportMode", "")
           modeLines == CASE mode = "" -> Nothing
                          [] mode = "routed" -> [routed |-> TRUE]
                          [] OTHER -> [routed |-> FALSE, switchportMode |-> mode]
           given == Given(args, SwitchportFields \ {"switchportMode"})
           shown == Shown(c, object, SwitchportFields)
           routed == IF <<object, "routed">> \in DOMAIN c THEN [switchportMode |-> "routed"]
                                                          ELSE Nothing
<1>1. SwitchportLines(args) = Overlay(given, modeLines)
    BY DEF SwitchportLines
<1>2. SwitchportFound(c, object) = Overlay(shown, routed)
    BY DEF SwitchportFound
<1>3. ValueShown(object[1], f, c[p]) /\ ~IsDefault(f, c[p])
    <2>1. p \in DOMAIN c /\ p[1] = object /\ p[2] = f
        OBVIOUS
    <2>2. object[1] \in Features /\ object[1] # "vxlanInterface"
        BY DEF Features
    <2> HIDE DEF p
    <2> QED
        BY <2>1, <2>2, LinesOf
<1>4. CASE f = "routed"
    <2>1. c[p] = TRUE
        <3>1. c[p] \in BOOLEAN
            BY <1>3, <1>4 DEF ValueShown
        <3>2. c[p] # FALSE
            BY <1>3, <1>4 DEF IsDefault, Default
        <3> QED
            BY <3>1, <3>2
    <2>2. DOMAIN routed = {"switchportMode"} /\ routed["switchportMode"] = "routed"
        BY <1>4
    <2> HIDE DEF routed, shown, p
    <2>3. "switchportMode" \in DOMAIN args /\ args["switchportMode"] = "routed"
        BY <1>2, <2>2, OverlayValues
    <2>4. mode = "routed"
        BY <2>3 DEF Or, Has
    <2> HIDE DEF mode
    <2>5. modeLines = [routed |-> TRUE]
        BY <2>4
    <2> HIDE DEF modeLines
    <2>6. f \in DOMAIN modeLines /\ modeLines[f] = c[p]
        BY <1>4, <2>1, <2>5
    <2> QED
        BY <1>1, <2>6, OverlayValues DEF p
<1>5. CASE f = "switchportMode"
    <2>1. c[p] = "trunk"
        <3>1. c[p] \in {"access", "trunk"}
            BY <1>3, <1>5 DEF ValueShown
        <3>2. c[p] # "access"
            BY <1>3, <1>5 DEF IsDefault, Default
        <3> QED
            BY <3>1, <3>2
    <2>2. DOMAIN routed = {}
        BY <1>5, NothingDomain
    <2>3. f \in DOMAIN shown /\ shown[f] = c[p]
        BY ShownValues, <1>5 DEF SwitchportFields
    <2> HIDE DEF routed, shown, p
    <2>4. f \in DOMAIN args /\ args[f] = "trunk"
        BY <1>2, <2>1, <2>2, <2>3, OverlayValues
    <2>5. mode = "trunk"
        BY <1>5, <2>4 DEF Or, Has
    <2> HIDE DEF mode
    <2>6. modeLines = [routed |-> FALSE, switchportMode |-> mode]
        BY <2>5
    <2>7. f \in DOMAIN modeLines /\ modeLines[f] = "trunk"
        BY <1>5, <2>5, <2>6
    <2> HIDE DEF modeLines
    <2> QED
        BY <1>1, <2>1, <2>7, OverlayValues DEF p
<1>6. CASE f \in SwitchportFields \ {"switchportMode"}
    <2>1. f # "routed" /\ f # "switchportMode"
        BY <1>6 DEF SwitchportFields
    <2>2. DOMAIN routed \subseteq {"switchportMode"}
        BY NothingDomain
    <2>3. DOMAIN modeLines \subseteq {"routed", "switchportMode"}
        BY NothingDomain
    <2>4. f \in DOMAIN shown /\ shown[f] = c[p]
        BY ShownValues, <1>6
    <2> HIDE DEF routed, shown, p, modeLines
    <2>5. f \in DOMAIN args /\ args[f] = c[p]
        BY <1>2, <2>1, <2>2, <2>4, OverlayValues
    <2>6. f \in DOMAIN given /\ given[f] = c[p]
        BY <1>6, <2>5, GivenValues
    <2> HIDE DEF given
    <2> QED
        BY <1>1, <2>1, <2>3, <2>6, OverlayValues DEF p
<1> QED
    BY <1>4, <1>5, <1>6

LEMMA PortBack ==
    ASSUME NEW k \in {"interface", "portChannel"}, NEW args, DOMAIN args # {}, NEW c,
           RunningConfig(c), ReadBack(k, args, c) = args,
           NEW p \in DOMAIN c, p[1] = Object(k, args),
           p[2] = "switchportMode" => <<p[1], "routed">> \notin DOMAIN c
    PROVE  p[2] \in DOMAIN Lines(k, args) /\ Lines(k, args)[p[2]] = c[p]
<1> DEFINE object == Object(k, args)
           f == p[2]
           fields == IF k = "interface" THEN InterfaceFields ELSE PortChannelFields
           own == IF k = "interface" THEN Given(args, fields)
                  ELSE Overlay([header |-> "on"], Given(args, fields))
           port == SwitchportLines(args)
           found == Found(k, args, c)
           shown == Shown(c, object, fields)
           portFound == SwitchportFound(c, object)
           portKnobs == SwitchportFields \cup {"routed"}
<1>1. k \in OneObjectKinds /\ k \in Features /\ k # "vxlanInterface" /\ object[1] = k
    BY DEF OneObjectKinds, MergeKinds, Features, Object
<1>2. p = <<object, f>> /\ f \in Knobs(k) /\ ValueShown(k, f, c[p])
    BY <1>1, LinesOf
<1>3. found = Overlay(shown, portFound)
    BY DEF Found, InterfaceFound, PortChannelFound
<1>4. Lines(k, args) = Overlay(own, port)
    BY DEF Lines, InterfaceLines, PortChannelLines
<1>5. f \in fields \cup portKnobs \/ (k = "portChannel" /\ f = "header")
    BY <1>2 DEF Knobs
<1>6. "header" \notin fields \cup portKnobs /\ fields \cap portKnobs = {}
    BY DEF InterfaceFields, PortChannelFields, SwitchportFields
<1>7. DOMAIN portFound \subseteq SwitchportFields
    BY SwitchportFoundDomain
<1>8. DOMAIN port \subseteq portKnobs
    <2> DEFINE mode == Or(args, "switchportMode", "")
               modeLines == CASE mode = "" -> Nothing
                              [] mode = "routed" -> [routed |-> TRUE]
                              [] OTHER -> [routed |-> FALSE, switchportMode |-> mode]
    <2>1. port = Overlay(Given(args, SwitchportFields \ {"switchportMode"}), modeLines)
        BY DEF SwitchportLines
    <2>2. DOMAIN modeLines \subseteq {"routed", "switchportMode"}
        BY NothingDomain
    <2>3. "switchportMode" \in SwitchportFields
        BY DEF SwitchportFields
    <2> DEFINE given == Given(args, SwitchportFields \ {"switchportMode"})
    <2>4. DOMAIN given \subseteq SwitchportFields \ {"switchportMode"}
        BY GivenDomain
    <2> HIDE DEF modeLines, given, port
    <2>5. DOMAIN port = DOMAIN given \cup DOMAIN modeLines
        BY <2>1, OverlayDomain DEF given
    <2> QED
        BY <2>2, <2>3, <2>4, <2>5
<1>9. \A g \in DOMAIN found : g \in DOMAIN args /\ args[g] = found[g]
    BY <1>1, FoundIsGiven
<1> HIDE DEF object, f, fields, found, portFound, portKnobs, own, port
<1>10. CASE k = "portChannel" /\ f = "header"
    <2> DEFINE head == [header |-> "on"]
    <2>1. DOMAIN head = {"header"} /\ head["header"] = "on"
        OBVIOUS
    <2> HIDE DEF head
    <2>2. own = Overlay(head, Given(args, fields))
        BY <1>10 DEF own, head
    <2>3. c[p] = "on"
        BY <1>2, <1>10 DEF ValueShown
    <2>4. f \in DOMAIN own /\ own[f] = c[p]
        BY <1>6, <1>10, <2>1, <2>2, <2>3, OverlayValues, GivenDomain
    <2> QED
        BY <1>4, <1>6, <1>8, <1>10, <2>4, OverlayValues DEF f
<1>11. CASE f \in fields
    <2>1. f \in DOMAIN shown /\ shown[f] = c[p]
        BY <1>2, <1>11, ShownValues
    <2> HIDE DEF shown
    <2>2. f \notin portKnobs /\ f \notin DOMAIN portFound
        BY <1>6, <1>7, <1>11 DEF portKnobs
    <2>3. f \in DOMAIN args /\ args[f] = c[p]
        BY <1>3, <1>9, <2>1, <2>2, OverlayValues
    <2>4. f \in DOMAIN Given(args, fields) /\ Given(args, fields)[f] = c[p]
        BY <1>11, <2>3, GivenValues
    <2>5. f \in DOMAIN own /\ own[f] = c[p]
        BY <2>4, OverlayValues DEF own
    <2> QED
        BY <1>4, <1>8, <2>2, <2>5, OverlayValues DEF f
<1>12. CASE f \in portKnobs
    <2>1. \A g \in DOMAIN portFound : g \in DOMAIN args /\ args[g] = portFound[g]
        BY <1>3, <1>9, OverlayValues
    <2>2. f \in DOMAIN port /\ port[f] = c[p]
        BY <1>1, <1>2, <1>12, <2>1, SwitchportBack DEF portFound, portKnobs, port, object, f
    <2> QED
        BY <1>4, <2>2, OverlayValues DEF f
<1> QED
    BY <1>5, <1>10, <1>11, <1>12

-----------------------------------------------------------------------------
(***************************************************************************)
(* The spanning tree, Ethernet segments, VRFs, BFD and RPKI caches.        *)
(***************************************************************************)
\* An MST block comes back with an empty list where it has no instance.
LEMMA MstBack ==
    ASSUME NEW mst, MstShown(mst)
    PROVE  MstLines(Overlay([instances |-> <<>>], mst)) = mst
<1> DEFINE none == [instances |-> <<>>]
           m == Overlay(none, mst)
           lines == MstLines(m)
           instances == Items(m, "instances")
           D == {g \in DOMAIN m : g = "instances" => m.instances # <<>>}
<1>1. DOMAIN none = {"instances"} /\ none["instances"] = <<>>
    OBVIOUS
<1> HIDE DEF none
<1>2. /\ DOMAIN m = {"instances"} \cup DOMAIN mst
      /\ \A g \in DOMAIN mst : m[g] = mst[g]
      /\ "instances" \notin DOMAIN mst => m["instances"] = <<>>
    BY <1>1 DEF Overlay
<1> HIDE DEF m
<1>3. /\ DOMAIN lines = D
      /\ \A g \in D : lines[g] = IF g = "instances"
                                 THEN InOrder(instances, [i \in instances |-> i.id]) ELSE m[g]
    BY DEF MstLines
<1>4. lines = [g \in D |-> lines[g]]
    BY DEF MstLines
<1> HIDE DEF lines, instances
<1>5. D = DOMAIN mst
    BY <1>2 DEF MstShown, Has
<1>6. ASSUME "instances" \in DOMAIN mst
      PROVE  InOrder(instances, [i \in instances |-> i.id]) = mst["instances"]
    <2> DEFINE s == mst["instances"]
    <2>1. InOrderOf(s, "id")
        BY <1>6 DEF MstShown, Has
    <2>2. instances = ToSet(s)
        BY <1>2, <1>6 DEF instances, Items, Has, ToSet
    <2> HIDE DEF s
    <2>3. InOrder(ToSet(s), [i \in ToSet(s) |-> i["id"]]) = s
        BY <2>1, SortedIsSame
    <2> QED
        BY <2>2, <2>3 DEF s
<1>7. \A g \in DOMAIN mst : lines[g] = mst[g]
    BY <1>2, <1>3, <1>5, <1>6
<1>8. mst = [g \in DOMAIN mst |-> mst[g]]
    BY DEF MstShown, IsAFunction
<1> HIDE DEF D
<1>9. [g \in D |-> lines[g]] = [g \in DOMAIN mst |-> mst[g]]
    BY <1>5, <1>7
<1>10. lines = mst
    BY <1>4, <1>8, <1>9
<1> QED
    BY <1>10 DEF lines, m, none

LEMMA StpBack ==
    ASSUME NEW args, DOMAIN args # {}, NEW c, RunningConfig(c), ReadBack("stp", args, c) = args,
           NEW p \in DOMAIN c, p[1] = Object("stp", args)
    PROVE  p[2] \in DOMAIN Lines("stp", args) /\ Lines("stp", args)[p[2]] = c[p]
<1> DEFINE object == Object("stp", args)
           f == p[2]
           fields == {"stpMode", "edgePortBpduGuardDefault"}
           given == Given(args, fields)
           mstLines == [g \in {"mst"} \cap DOMAIN args |-> MstLines(args.mst)]
           found == Found("stp", args, c)
           knobs == {"stpMode", "edgePortBpduGuardDefault", "mst"}
           shown == Shown(c, object, knobs)
           mode == [stpMode |-> "mstp"]
           mstFound == [g \in {"mst"} \cap DOMAIN shown |-> Overlay([instances |-> <<>>], shown.mst)]
<1>1. "stp" \in OneObjectKinds /\ "stp" \in Features /\ object[1] = "stp"
    BY DEF OneObjectKinds, MergeKinds, Features, Object
<1>2. p = <<object, f>> /\ f \in knobs /\ ValueShown("stp", f, c[p])
    BY <1>1, LinesOf DEF Knobs
<1>3. Lines("stp", args) = Overlay(given, mstLines)
    BY DEF Lines, StpLines
<1>4. found = Overlay(Overlay(mode, shown), mstFound)
    BY DEF Found, StpFound
<1>5. \A g \in DOMAIN found : g \in DOMAIN args /\ args[g] = found[g]
    BY <1>1, FoundIsGiven
<1>6. f \in DOMAIN shown /\ shown[f] = c[p]
    BY <1>2, ShownValues
<1> HIDE DEF object, f, found, given, shown, mode
<1>7. CASE f \in fields
    <2>1. f \notin DOMAIN mstFound /\ f \notin DOMAIN mstLines
        BY <1>7
    <2> HIDE DEF mstFound, mstLines, fields
    <2>2. f \in DOMAIN args /\ args[f] = c[p]
        BY <1>4, <1>5, <1>6, <2>1, OverlayValues
    <2>3. f \in DOMAIN given /\ given[f] = c[p]
        BY <1>7, <2>2, GivenValues DEF given
    <2> QED
        BY <1>3, <2>1, <2>3, OverlayValues DEF f
<1>8. CASE f = "mst"
    <2>1. f \in DOMAIN mstFound /\ mstFound[f] = Overlay([instances |-> <<>>], c[p])
        BY <1>6, <1>8
    <2> HIDE DEF mstFound
    <2>2. f \in DOMAIN args /\ args[f] = Overlay([instances |-> <<>>], c[p])
        BY <1>4, <1>5, <2>1, OverlayValues
    <2>3. MstShown(c[p])
        BY <1>2, <1>8 DEF ValueShown
    <2>4. MstLines(args[f]) = c[p]
        BY <2>2, <2>3, MstBack
    <2>5. f \in DOMAIN mstLines /\ mstLines[f] = MstLines(args[f])
        BY <1>8, <2>2
    <2> HIDE DEF mstLines
    <2> QED
        BY <1>3, <2>4, <2>5, OverlayValues DEF f
<1> QED
    BY <1>2, <1>7, <1>8

LEMMA BfdBack ==
    ASSUME NEW args, DOMAIN args # {}, NEW c, RunningConfig(c), ReadBack("bfd", args, c) = args,
           NEW p \in DOMAIN c, p[1] = Object("bfd", args)
    PROVE  p[2] \in DOMAIN Lines("bfd", args) /\ Lines("bfd", args)[p[2]] = c[p]
<1> DEFINE object == Object("bfd", args)
           f == p[2]
           fields == {"slowTimer", "shutdown"}
           head == [header |-> "on"]
           given == Given(args, fields)
           timers == IF Has(args, "interval") THEN [timers |-> Given(args, BfdTimers)] ELSE Nothing
           found == Found("bfd", args, c)
           shown == Shown(c, object, fields)
           shownTimers == Shown(c, object, {"timers"})
           timersFound == Or(shownTimers, "timers", Nothing)
<1>1. "bfd" \in OneObjectKinds /\ "bfd" \in Features /\ object[1] = "bfd"
    BY DEF OneObjectKinds, MergeKinds, Features, Object
<1>2. p = <<object, f>> /\ f \in Knobs("bfd") /\ ValueShown("bfd", f, c[p])
    BY <1>1, LinesOf
<1>3. Lines("bfd", args) = Overlay(Overlay(head, given), timers)
    BY DEF Lines, BfdLines
<1>4. found = Overlay(shown, timersFound)
    BY DEF Found, BfdFound
<1>5. \A g \in DOMAIN found : g \in DOMAIN args /\ args[g] = found[g]
    BY <1>1, FoundIsGiven
<1>6. DOMAIN head = {"header"} /\ head["header"] = "on"
    OBVIOUS
<1>7. DOMAIN timers \subseteq {"timers"}
    BY NothingDomain
<1>8. DOMAIN given \subseteq fields
    BY GivenDomain
<1>9. <<object, "timers">> \in DOMAIN c => IsAFunction(c[<<object, "timers">>])
                                            /\ DOMAIN c[<<object, "timers">>] = BfdTimers
    <2> DEFINE q == <<object, "timers">>
    <2>1. q[1] = object /\ q[2] = "timers"
        OBVIOUS
    <2> HIDE DEF q, object
    <2>2. q \in DOMAIN c => ValueShown("bfd", "timers", c[q])
        BY <1>1, <2>1, LinesOf
    <2> QED
        BY <2>2 DEF ValueShown, q
<1>10. timersFound = IF <<object, "timers">> \in DOMAIN c THEN c[<<object, "timers">>] ELSE Nothing
    <2>1. \A v : Or(v, "timers", Nothing) = IF "timers" \in DOMAIN v THEN v["timers"] ELSE Nothing
        BY DEF Or, Has
    <2> HIDE DEF object, shownTimers
    <2>2. /\ "timers" \in DOMAIN shownTimers <=> <<object, "timers">> \in DOMAIN c
          /\ "timers" \in DOMAIN shownTimers => shownTimers["timers"] = c[<<object, "timers">>]
        BY ShownValues DEF shownTimers
    <2> QED
        BY <2>1, <2>2
<1> HIDE DEF object, f, found, given, shown, head, timersFound
<1>11. CASE f = "header"
    <2>1. c[p] = "on"
        BY <1>2, <1>11 DEF ValueShown
    <2>2. f \notin DOMAIN given /\ f \notin DOMAIN timers
        BY <1>7, <1>8, <1>11
    <2> HIDE DEF timers
    <2> QED
        BY <1>3, <1>6, <1>11, <2>1, <2>2, OverlayValues DEF f
<1>12. CASE f \in fields
    <2>1. f \notin DOMAIN timers
        BY <1>7, <1>12
    <2>2. f \notin DOMAIN timersFound
        BY <1>9, <1>10, <1>12, NothingDomain DEF BfdTimers
    <2> HIDE DEF timers, fields
    <2>3. f \in DOMAIN shown /\ shown[f] = c[p]
        BY <1>2, <1>12, ShownValues DEF shown
    <2>4. f \in DOMAIN args /\ args[f] = c[p]
        BY <1>4, <1>5, <2>2, <2>3, OverlayValues
    <2>5. f \in DOMAIN given /\ given[f] = c[p]
        BY <1>12, <2>4, GivenValues DEF given
    <2> QED
        BY <1>3, <2>1, <2>5, OverlayValues DEF f
<1>13. CASE f = "timers"
    <2>1. timersFound = c[p] /\ IsAFunction(c[p]) /\ DOMAIN c[p] = BfdTimers
        BY <1>2, <1>9, <1>10, <1>13
    <2>2. \A x \in BfdTimers : x \in DOMAIN args /\ args[x] = c[p][x]
        BY <1>4, <1>5, <2>1, OverlayValues
    <2>3. Given(args, BfdTimers) = c[p]
        <3>1. DOMAIN args \cap BfdTimers = BfdTimers
            BY <2>2
        <3>2. Given(args, BfdTimers) = [x \in BfdTimers |-> args[x]]
            BY <3>1 DEF Given
        <3>3. c[p] = [x \in BfdTimers |-> c[p][x]]
            BY <2>1 DEF IsAFunction
        <3>4. [x \in BfdTimers |-> args[x]] = [x \in BfdTimers |-> c[p][x]]
            BY <2>2
        <3> QED
            BY <3>2, <3>3, <3>4
    <2>4. Has(args, "interval")
        BY <2>2 DEF Has, BfdTimers
    <2>5. f \in DOMAIN timers /\ timers[f] = c[p]
        BY <1>13, <2>3, <2>4
    <2> HIDE DEF timers
    <2> QED
        BY <1>3, <2>5, OverlayValues DEF f
<1>14. f \in {"header", "timers"} \cup fields
    BY <1>2 DEF Knobs
<1> QED
    BY <1>11, <1>12, <1>13, <1>14

\* The line of the algorithm comes back from an election that has its words.
LEMMA AlgorithmBack ==
    ASSUME NEW line, AlgorithmShown(line), NEW df,
           \A g \in {"algorithm", "preference", "dontPreempt"} :
                /\ g \in DOMAIN df <=> g \in DOMAIN line
                /\ g \in DOMAIN line => df[g] = line[g]
    PROVE  AlgorithmLine(df) = line
<1> DEFINE words == {"algorithm", "preference"}
           given == Given(df, words)
           on == OnOnly(df, {"dontPreempt"})
           rest == IF Has(df, "preference") THEN on ELSE Nothing
           back == Overlay(given, rest)
<1>1. AlgorithmLine(df) = back
    BY DEF AlgorithmLine
<1>2. IsAFunction(line) /\ DOMAIN line \subseteq {"algorithm", "preference", "dontPreempt"}
      /\ ("dontPreempt" \in DOMAIN line => line["dontPreempt"] = TRUE /\ "preference" \in DOMAIN line)
    BY DEF AlgorithmShown, Has
<1>3. /\ \A g : g \in DOMAIN given <=> g \in words /\ g \in DOMAIN line
      /\ \A g \in DOMAIN given : given[g] = line[g]
    BY DEF Given
<1>4. /\ DOMAIN on \subseteq {"dontPreempt"} \cap DOMAIN df
      /\ "dontPreempt" \in DOMAIN df /\ df["dontPreempt"] = TRUE
            => "dontPreempt" \in DOMAIN on /\ on["dontPreempt"] = TRUE
    <2>1. DOMAIN on \subseteq {"dontPreempt"} \cap DOMAIN df
        BY DEF OnOnly
    <2> HIDE DEF on
    <2>2. "dontPreempt" \in DOMAIN df /\ df["dontPreempt"] = TRUE
            => "dontPreempt" \in DOMAIN on /\ on["dontPreempt"] = TRUE
        BY OnOnlyValues DEF on
    <2> QED
        BY <2>1, <2>2
<1>5. DOMAIN rest \subseteq {"dontPreempt"} \cap DOMAIN line
    <2> HIDE DEF on
    <2> QED
        BY <1>4, NothingDomain
<1>6. "dontPreempt" \in DOMAIN line => "dontPreempt" \in DOMAIN rest /\ rest["dontPreempt"] = line["dontPreempt"]
    <2> SUFFICES ASSUME "dontPreempt" \in DOMAIN line
                 PROVE  "dontPreempt" \in DOMAIN rest /\ rest["dontPreempt"] = line["dontPreempt"]
        OBVIOUS
    <2>1. "dontPreempt" \in DOMAIN df /\ df["dontPreempt"] = TRUE /\ "preference" \in DOMAIN df
        BY <1>2
    <2> HIDE DEF on
    <2>2. rest = on
        BY <2>1 DEF Has
    <2> HIDE DEF rest
    <2> QED
        BY <1>2, <1>4, <2>1, <2>2
<1> HIDE DEF given, on, rest
<1>7. DOMAIN back = DOMAIN line
    <2>1. DOMAIN back = DOMAIN given \cup DOMAIN rest
        BY OverlayDomain
    <2> HIDE DEF back
    <2> QED
        BY <1>2, <1>3, <1>5, <1>6, <2>1
<1>8. ASSUME NEW g \in DOMAIN line
      PROVE  back[g] = line[g]
    <2>1. CASE g = "dontPreempt"
        BY <1>6, <2>1, OverlayValues
    <2>2. CASE g \in words
        <3>1. g \notin DOMAIN rest /\ g \in DOMAIN given /\ given[g] = line[g]
            BY <1>3, <1>5, <2>2
        <3> QED
            BY <3>1, OverlayValues
    <2> QED
        BY <1>2, <2>1, <2>2
<1>9. back = [g \in DOMAIN back |-> back[g]]
    BY DEF Overlay
<1>10. line = [g \in DOMAIN line |-> line[g]]
    BY <1>2 DEF IsAFunction
<1> HIDE DEF back
<1>11. [g \in DOMAIN back |-> back[g]] = [g \in DOMAIN line |-> line[g]]
    BY <1>7, <1>8
<1> QED
    BY <1>1, <1>9, <1>10, <1>11

LEMMA EvpnBack ==
    ASSUME NEW args, DOMAIN args # {}, NEW c, RunningConfig(c),
           ReadBack("evpnEthernetSegment", args, c) = args,
           NEW p \in DOMAIN c, p[1] = Object("evpnEthernetSegment", args)
    PROVE  /\ p[2] \in DOMAIN Lines("evpnEthernetSegment", args)
           /\ Lines("evpnEthernetSegment", args)[p[2]] = c[p]
<1> DEFINE k == "evpnEthernetSegment"
           object == Object(k, args)
           f == p[2]
           fields == {"identifier", "redundancy", "routeTargetImport"}
           head == [header |-> "on"]
           given == Given(args, fields)
           found == Found(k, args, c)
           shown == Shown(c, object, fields)
           shownLine == Shown(c, object, {"algorithm"})
           line == Or(shownLine, "algorithm", Nothing)
           hold == Shown(c, object, {"holdTime"})
           election == Overlay(line, hold)
           electionFound == IF election = Nothing THEN Nothing ELSE [designatedForwarder |-> election]
           lines == ElectionLines(Or(args, "designatedForwarder", Nothing))
<1>1. k \in OneObjectKinds /\ k \in Features /\ k # "vxlanInterface" /\ object[1] = k
    BY DEF OneObjectKinds, RebuildKinds, Features, Object
<1>2. p = <<object, f>> /\ f \in Knobs(k) /\ ValueShown(k, f, c[p])
    BY <1>1, LinesOf
<1>3. Lines(k, args) = Overlay(Overlay(head, given), lines)
    BY DEF Lines, EvpnEthernetSegmentLines
<1>4. found = Overlay(shown, electionFound)
    BY DEF Found, EvpnEthernetSegmentFound, AlgorithmOnDevice
<1>5. \A g \in DOMAIN found : g \in DOMAIN args /\ args[g] = found[g]
    BY <1>1, FoundIsGiven
<1>6. DOMAIN head = {"header"} /\ head["header"] = "on"
    OBVIOUS
<1>7. DOMAIN lines \subseteq {"algorithm", "holdTime"}
    <2>1. \A df : DOMAIN ElectionLines(df) \subseteq {"algorithm", "holdTime"}
        <3> SUFFICES ASSUME NEW df
                     PROVE  DOMAIN ElectionLines(df) \subseteq {"algorithm", "holdTime"}
            OBVIOUS
        <3> DEFINE a == IF Has(df, "algorithm") THEN [algorithm |-> AlgorithmLine(df)] ELSE Nothing
        <3>1. DOMAIN a \subseteq {"algorithm"}
            BY NothingDomain
        <3> DEFINE h == Given(df, {"holdTime"})
        <3>2. ElectionLines(df) = Overlay(h, a)
            BY DEF ElectionLines
        <3>3. DOMAIN h \subseteq {"holdTime"}
            BY GivenDomain
        <3> HIDE DEF a, h
        <3>4. DOMAIN Overlay(h, a) = DOMAIN h \cup DOMAIN a
            BY OverlayDomain
        <3> QED
            BY <3>1, <3>2, <3>3, <3>4
    <2> QED
        BY <2>1
<1>8. DOMAIN given \subseteq fields
    BY GivenDomain
<1>9. DOMAIN electionFound \subseteq {"designatedForwarder"}
    <2> HIDE DEF election
    <2> QED
        BY NothingDomain
<1>10. DOMAIN hold \subseteq {"holdTime"}
    BY ShownDomain
<1>11. /\ <<object, "algorithm">> \in DOMAIN c => line = c[<<object, "algorithm">>] /\ AlgorithmShown(line)
       /\ <<object, "algorithm">> \notin DOMAIN c => line = Nothing
    <2>1. \A v : Or(v, "algorithm", Nothing) = IF "algorithm" \in DOMAIN v THEN v["algorithm"] ELSE Nothing
        BY DEF Or, Has
    <2> HIDE DEF object, shownLine
    <2>2. /\ "algorithm" \in DOMAIN shownLine <=> <<object, "algorithm">> \in DOMAIN c
          /\ "algorithm" \in DOMAIN shownLine => shownLine["algorithm"] = c[<<object, "algorithm">>]
        BY ShownValues DEF shownLine
    <2> DEFINE q == <<object, "algorithm">>
    <2>3. q[1] = object /\ q[2] = "algorithm"
        OBVIOUS
    <2> HIDE DEF q
    <2>4. q \in DOMAIN c => ValueShown(k, "algorithm", c[q])
        BY <1>1, <2>3, LinesOf
    <2>5. q \in DOMAIN c => AlgorithmShown(c[q])
        BY <2>4 DEF ValueShown
    <2> QED
        BY <2>1, <2>2, <2>5 DEF q
<1> HIDE DEF object, f, found, given, shown, head, lines, hold, line
<1>12. ASSUME f \in {"algorithm", "holdTime"}
       PROVE  lines = ElectionLines(election)
    <2>1. f \in DOMAIN election
        <3>1. f = "algorithm" => f \in DOMAIN line
            BY <1>2, <1>11 DEF AlgorithmShown, Has
        <3>2. f = "holdTime" => f \in DOMAIN hold
            BY <1>2, ShownValues DEF hold
        <3> QED
            BY <1>12, <3>1, <3>2, OverlayDomain
    <2> HIDE DEF election
    <2>2. electionFound = [designatedForwarder |-> election]
        BY <2>1, NothingDomain
    <2>3. "designatedForwarder" \in DOMAIN electionFound
          /\ electionFound["designatedForwarder"] = election
        BY <2>2
    <2> HIDE DEF electionFound
    <2>4. "designatedForwarder" \in DOMAIN args /\ args["designatedForwarder"] = election
        BY <1>4, <1>5, <2>3, OverlayValues
    <2>5. Or(args, "designatedForwarder", Nothing) = election
        BY <2>4 DEF Or, Has
    <2> QED
        BY <2>5 DEF lines
<1> DEFINE heldTime == Given(election, {"holdTime"})
           algorithm == IF Has(election, "algorithm") THEN [algorithm |-> AlgorithmLine(election)]
                                                      ELSE Nothing
<1>13. ElectionLines(election) = Overlay(heldTime, algorithm)
    BY DEF ElectionLines
<1>14. \A g : g \in DOMAIN election <=> g \in DOMAIN line \/ g \in DOMAIN hold
    <2>1. DOMAIN Overlay(line, hold) = DOMAIN line \cup DOMAIN hold
        BY OverlayDomain
    <2> HIDE DEF election
    <2> QED
        BY <2>1 DEF election
<1>15. /\ \A g \in DOMAIN hold : election[g] = hold[g]
       /\ \A g \in DOMAIN line : g \notin DOMAIN hold => election[g] = line[g]
    BY OverlayValues
<1> HIDE DEF election, electionFound
<1>16. CASE f = "header"
    <2>1. c[p] = "on"
        BY <1>2, <1>16 DEF ValueShown
    <2>2. f \notin DOMAIN given /\ f \notin DOMAIN lines
        BY <1>7, <1>8, <1>16
    <2> QED
        BY <1>3, <1>6, <1>16, <2>1, <2>2, OverlayValues DEF f
<1>17. CASE f \in fields
    <2>1. f \notin DOMAIN lines /\ f \notin DOMAIN electionFound
        BY <1>7, <1>9, <1>17
    <2> HIDE DEF fields
    <2>2. f \in DOMAIN shown /\ shown[f] = c[p]
        BY <1>2, <1>17, ShownValues DEF shown
    <2>3. f \in DOMAIN args /\ args[f] = c[p]
        BY <1>4, <1>5, <2>1, <2>2, OverlayValues
    <2>4. f \in DOMAIN given /\ given[f] = c[p]
        BY <1>17, <2>3, GivenValues DEF given
    <2> QED
        BY <1>3, <2>1, <2>4, OverlayValues DEF f
<1>18. CASE f = "holdTime"
    <2>1. f \in DOMAIN hold /\ hold[f] = c[p]
        BY <1>2, <1>18, ShownValues DEF hold
    <2>2. f \in DOMAIN heldTime /\ heldTime[f] = c[p]
        BY <1>14, <1>15, <1>18, <2>1, GivenValues
    <2>3. f \notin DOMAIN algorithm
        BY <1>18, NothingDomain
    <2> HIDE DEF heldTime, algorithm
    <2>4. f \in DOMAIN lines /\ lines[f] = c[p]
        BY <1>12, <1>13, <1>18, <2>2, <2>3, OverlayValues
    <2> QED
        BY <1>3, <2>4, OverlayValues DEF f
<1>19. CASE f = "algorithm"
    <2>1. line = c[p] /\ AlgorithmShown(line)
        BY <1>2, <1>11, <1>19
    <2>2. "algorithm" \in DOMAIN line
        BY <2>1 DEF AlgorithmShown, Has
    <2>3. \A g \in {"algorithm", "preference", "dontPreempt"} :
            /\ g \in DOMAIN election <=> g \in DOMAIN line
            /\ g \in DOMAIN line => election[g] = line[g]
        BY <1>10, <1>14, <1>15
    <2>4. AlgorithmLine(election) = c[p]
        BY <2>1, <2>3, AlgorithmBack
    <2>5. algorithm = [algorithm |-> AlgorithmLine(election)]
        BY <1>14, <2>2 DEF Has
    <2> HIDE DEF algorithm, heldTime
    <2>6. f \in DOMAIN algorithm /\ algorithm[f] = c[p]
        BY <1>19, <2>4, <2>5
    <2>7. f \in DOMAIN lines /\ lines[f] = c[p]
        BY <1>12, <1>13, <1>19, <2>6, OverlayValues
    <2> QED
        BY <1>3, <2>7, OverlayValues DEF f
<1>20. f \in {"header", "algorithm", "holdTime"} \cup fields
    BY <1>2 DEF Knobs
<1> QED
    BY <1>16, <1>17, <1>18, <1>19, <1>20

\* Where there is no VRF with a longer name, Read finds the lines of this one.
LEMMA OwnDescription ==
    ASSUME NEW args, IsAList(LongerNames(args.name)), NEW c, RunningConfig(c),
           \A name \in ToSet(LongerNames(args.name)) : ~Exists(c, VrfObject(name))
    PROVE  LET found == VrfFound(args, c)
               object == VrfObject(args.name)
           IN  /\ DOMAIN found = {"ipRouting", "ipv6Routing"}
                        \cup {f \in {"description"} : <<object, f>> \in DOMAIN c}
               /\ \A f \in {"ipRouting", "ipv6Routing"} : found[f] = (<<object, f>> \in DOMAIN c)
               /\ "description" \in DOMAIN found => found["description"] = c[<<object, "description">>]
<1> DEFINE found == VrfFound(args, c)
           object == VrfObject(args.name)
           longer == LongerNames(args.name)
           named == <<args.name>> \o longer
           line(i) == <<VrfObject(named[i]), "description">>
           described == {i \in DOMAIN named : line(i) \in DOMAIN c}
           last == CHOOSE i \in described : \A j \in described : j <= i
<1>1. found = [g \in {"ipRouting", "ipv6Routing"} \cup {"description" : i \in described} |->
                IF g = "description" THEN c[line(last)]
                                     ELSE <<object, g>> \in DOMAIN c]
    BY DEF VrfFound
<1>2. Len(longer) \in Nat /\ DOMAIN named = 1 .. (1 + Len(longer)) /\ named[1] = args.name
      /\ \A i \in DOMAIN named : i # 1 => named[i] \in ToSet(longer)
    <2>1. longer \in Seq(ToSet(longer)) /\ Len(longer) \in Nat
        BY DEF IsAList
    <2>2. <<args.name>> \in Seq({args.name}) /\ Len(<<args.name>>) = 1
        OBVIOUS
    <2> HIDE DEF longer
    <2> DEFINE S == ToSet(longer)
    <2> HIDE DEF S
    <2>3. longer \in Seq(S) /\ DOMAIN longer = 1 .. Len(longer)
        BY <2>1 DEF S
    <2>4. named[1] = args.name /\ DOMAIN named = 1 .. (1 + Len(longer))
        BY <2>1, <2>3
    <2>5. \A i \in 2 .. (1 + Len(longer)) : named[i] = longer[i - 1]
        BY <2>1, <2>3
    <2>6. \A i \in 2 .. (1 + Len(longer)) : longer[i - 1] \in S
        BY <2>1, <2>3
    <2> QED
        BY <2>1, <2>4, <2>5, <2>6 DEF S
<1>3. \A i \in described : i = 1
    <2> SUFFICES ASSUME NEW i \in described, i # 1
                 PROVE  FALSE
        OBVIOUS
    <2> DEFINE other == VrfObject(named[i])
               q == <<other, "description">>
    <2>1. q \in DOMAIN c /\ named[i] \in ToSet(longer)
        BY <1>2
    <2>2. q[1] = other /\ other[1] = "vrf"
        BY DEF VrfObject
    <2>3. ~Exists(c, other)
        BY <2>1
    <2> HIDE DEF other, q
    <2>4. "header" \in Core(q[1][1])
        BY <2>2 DEF Core, Headed
    <2> QED
        BY <2>1, <2>2, <2>3, <2>4 DEF RunningConfig, Complete, Exists
<1>4. 1 \in described => last = 1
    <2> SUFFICES ASSUME 1 \in described
                 PROVE  last = 1
        OBVIOUS
    <2> HIDE DEF described
    <2>1. 1 \in described /\ \A j \in described : j <= 1
        BY <1>3
    <2>2. \E i \in described : \A j \in described : j <= i
        BY <2>1
    <2>3. last \in described
        BY <2>2
    <2> QED
        BY <1>3, <2>3
<1>5. line(1) = <<object, "description">>
    BY <1>2
<1>6. 1 \in described <=> <<object, "description">> \in DOMAIN c
    BY <1>2, <1>5
<1>7. {"description" : i \in described} = {f \in {"description"} : <<object, f>> \in DOMAIN c}
    <2> HIDE DEF described, object
    <2> QED
        BY <1>3, <1>6
<1>8. 1 \in described => line(last) = <<object, "description">>
    BY <1>4, <1>5
<1> HIDE DEF object, described, last, line, found
<1>9. /\ DOMAIN found = {"ipRouting", "ipv6Routing"}
                         \cup {f \in {"description"} : <<object, f>> \in DOMAIN c}
      /\ \A f \in {"ipRouting", "ipv6Routing"} : found[f] = (<<object, f>> \in DOMAIN c)
    BY <1>1, <1>7
<1>10. ASSUME "description" \in DOMAIN found
       PROVE  found["description"] = c[<<object, "description">>]
    <2>1. 1 \in described
        BY <1>6, <1>9, <1>10
    <2>2. "description" \in {"description" : i \in described}
        BY <2>1
    <2> QED
        BY <1>1, <1>8, <2>1, <2>2
<1> QED
    BY <1>9, <1>10 DEF found, object

\* All four lines of a VRF are rendered, a flag that is left out with the value
\* that the device has without it.
LEMMA VrfBack ==
    ASSUME NEW args, "name" \in DOMAIN args, IsAList(LongerNames(args.name)),
           NEW c, RunningConfig(c), ReadBack("vrf", args, c) = args,
           \A name \in ToSet(LongerNames(args.name)) : ~Exists(c, VrfObject(name)),
           NEW p \in DOMAIN c, p[1] = Object("vrf", args)
    PROVE  p[2] \in DOMAIN Lines("vrf", args) /\ Lines("vrf", args)[p[2]] = c[p]
<1> DEFINE k == "vrf"
           object == Object(k, args)
           f == p[2]
           found == Found(k, args, c)
           lines == Lines(k, args)
<1>1. k \in OneObjectKinds /\ k \in Features /\ k # "vxlanInterface" /\ object[1] = k
    BY DEF OneObjectKinds, MergeKinds, Features, Object
<1>2. p = <<object, f>> /\ f \in Knobs(k) /\ ValueShown(k, f, c[p]) /\ ~IsDefault(f, c[p])
    BY <1>1, LinesOf
<1>3. object = VrfObject(args.name)
    <2>1. Identity(k) = {"name"}
        BY DEF Identity
    <2> QED
        BY <2>1 DEF Object, VrfObject, Given
<1>4. \A g \in DOMAIN found : g \in DOMAIN args /\ args[g] = found[g]
    BY <1>1, FoundIsGiven
<1>5. found = VrfFound(args, c)
    BY DEF Found
<1>6. lines = [header |-> "on", description |-> Or(args, "description", ""),
               ipRouting |-> Or(args, "ipRouting", TRUE), ipv6Routing |-> On(args, "ipv6Routing")]
    BY DEF Lines, VrfLines
<1>7. /\ DOMAIN lines = {"header", "description", "ipRouting", "ipv6Routing"}
      /\ lines["header"] = "on" /\ lines["description"] = Or(args, "description", "")
      /\ lines["ipRouting"] = Or(args, "ipRouting", TRUE)
      /\ lines["ipv6Routing"] = On(args, "ipv6Routing")
    <2> DEFINE d == Or(args, "description", "")
               r == Or(args, "ipRouting", TRUE)
               v == On(args, "ipv6Routing")
    <2>1. lines = [header |-> "on", description |-> d, ipRouting |-> r, ipv6Routing |-> v]
        BY <1>6
    <2> HIDE DEF lines, d, r, v
    <2>2. /\ DOMAIN lines = {"header", "description", "ipRouting", "ipv6Routing"}
          /\ lines["header"] = "on" /\ lines["description"] = d
          /\ lines["ipRouting"] = r /\ lines["ipv6Routing"] = v
        BY <2>1
    <2> QED
        BY <2>2 DEF d, r, v
<1>8. /\ DOMAIN found = {"ipRouting", "ipv6Routing"}
                        \cup {g \in {"description"} : <<object, g>> \in DOMAIN c}
      /\ \A g \in {"ipRouting", "ipv6Routing"} : found[g] = (<<object, g>> \in DOMAIN c)
      /\ "description" \in DOMAIN found => found["description"] = c[<<object, "description">>]
    <2> HIDE DEF found
    <2> QED
        BY <1>3, <1>5, OwnDescription
<1> HIDE DEF object, f, found, lines
<1>11. CASE f = "header"
    <2>1. c[p] = "on"
        BY <1>2, <1>11 DEF ValueShown
    <2> QED
        BY <1>7, <1>11, <2>1 DEF f, lines
<1>12. CASE f = "description"
    <2>4. f \in DOMAIN found /\ found[f] = c[p]
        BY <1>2, <1>8, <1>12
    <2>5. "description" \in DOMAIN args /\ args["description"] = c[p]
        BY <1>4, <1>12, <2>4
    <2>6. Or(args, "description", "") = c[p]
        BY <2>5 DEF Or, Has
    <2> QED
        BY <1>7, <1>12, <2>6 DEF f, lines
<1>13. CASE f \in {"ipRouting", "ipv6Routing"}
    <2>1. c[p] = TRUE
        <3>1. c[p] \in BOOLEAN
            BY <1>2, <1>13 DEF ValueShown
        <3>2. CASE f = "ipRouting"
            BY <1>2, <3>1, <3>2 DEF IsDefault, Default
        <3>3. CASE f = "ipv6Routing"
            BY <1>2, <3>1, <3>3 DEF IsDefault, Default
        <3> QED
            BY <1>13, <3>2, <3>3
    <2> DEFINE flag == <<object, f>> \in DOMAIN c
    <2>2. flag = TRUE
        BY <1>2
    <2>3. f \in DOMAIN found /\ found[f] = flag
        BY <1>8, <1>13
    <2> HIDE DEF flag
    <2>4. f \in DOMAIN args /\ args[f] = TRUE
        BY <1>4, <2>2, <2>3
    <2>5. f = "ipRouting" => Or(args, "ipRouting", TRUE) = TRUE
        BY <2>4 DEF Or, Has
    <2>6. f = "ipv6Routing" => On(args, "ipv6Routing") = TRUE
        BY <2>4 DEF On, Has
    <2>7. f \in DOMAIN lines /\ lines[f] = TRUE
        BY <1>7, <1>13, <2>5, <2>6
    <2> QED
        BY <2>1, <2>7 DEF f, lines
<1>14. f \in {"header", "description", "ipRouting", "ipv6Routing"}
    BY <1>2 DEF Knobs
<1> QED
    BY <1>11, <1>12, <1>13, <1>14

-----------------------------------------------------------------------------
(***************************************************************************)
(* Kinds whose Read leaves out zeros and empty words: every line that is   *)
(* shown is rendered, with whatever value.                                 *)
(***************************************************************************)
LEMMA RpkiBack ==
    ASSUME NEW args, DOMAIN args # {}, NEW c, RunningConfig(c), ReadBack("rpki", args, c) = args,
           NEW p \in DOMAIN c, p[1] = Object("rpki", args)
    PROVE  p[2] \in DOMAIN Lines("rpki", args) /\ p[2] \notin DOMAIN Default
<1> DEFINE k == "rpki"
           object == Object(k, args)
           f == p[2]
           found == Found(k, args, c)
           shown == Shown(c, object, RpkiFields \cup {"transport"})
           words == {"cacheHost", "vrf", "port"}
           host == Given(Or(Shown(c, object, {"host"}), "host", Nothing), words)
           rest == [header |-> "on", host |-> Given(args, words),
                    transport |-> Or(args, "transport", "tcp")]
<1>1. k \in OneObjectKinds /\ k \in Features /\ k # "vxlanInterface" /\ object[1] = k
    BY DEF OneObjectKinds, MergeKinds, Features, Object
<1>2. p = <<object, f>> /\ f \in Knobs(k)
    BY <1>1, LinesOf
<1>3. Lines(k, args) = Overlay(Given(args, RpkiFields), rest)
    BY DEF Lines, RpkiLines
<1>4. found = Overlay(shown, host)
    BY DEF Found, RpkiFound
<1>5. \A g \in DOMAIN found : g \in DOMAIN args /\ args[g] = found[g]
    BY <1>1, FoundIsGiven
<1>6. DOMAIN rest = {"header", "host", "transport"}
    OBVIOUS
<1>7. f \in {"header", "host", "transport"} \cup RpkiFields
    BY <1>2 DEF Knobs
<1>8. f \notin DOMAIN Default
    BY <1>7 DEF RpkiFields, Default
<1> HIDE DEF object, f, found, rest, host
<1>9. f \in RpkiFields => f \in DOMAIN args
    <2> SUFFICES ASSUME f \in RpkiFields
                 PROVE  f \in DOMAIN args
        OBVIOUS
    <2>1. f \in DOMAIN shown
        BY <1>2, ShownValues
    <2> HIDE DEF shown
    <2>2. DOMAIN Overlay(shown, host) = DOMAIN shown \cup DOMAIN host
        BY OverlayDomain
    <2> QED
        BY <1>4, <1>5, <2>1, <2>2
<1> DEFINE given == Given(args, RpkiFields)
<1>10. f \in RpkiFields => f \in DOMAIN given
    BY <1>9, GivenValues
<1> HIDE DEF given
<1>11. f \in DOMAIN Lines(k, args)
    <2>1. DOMAIN Overlay(given, rest) = DOMAIN given \cup DOMAIN rest
        BY OverlayDomain
    <2>2. Lines(k, args) = Overlay(given, rest)
        BY <1>3 DEF given
    <2> QED
        BY <1>6, <1>7, <1>10, <2>1, <2>2
<1> QED
    BY <1>8, <1>11 DEF f

LEMMA MlagBack ==
    ASSUME NEW args, DOMAIN args # {}, NEW c, RunningConfig(c), ReadBack("mlag", args, c) = args,
           NEW p \in DOMAIN c, p[1] = MlagObject,
           p[2] \in {"primaryPriority", "reloadMlag", "reloadNonMlag"} => c[p] > 0
    PROVE  /\ p \in DOMAIN Block("mlag", args).set
           /\ ~IsDefault(p[2], Block("mlag", args).set[p])
<1> DEFINE f == p[2]
           numbers == {"primaryPriority", "reloadMlag", "reloadNonMlag"}
           own == MlagRequired \cup {"heartbeat", "primaryPriority", "detectionDelay",
                                     "reloadMlag", "reloadNonMlag"}
           lines == MlagLines(args)
           found == MlagFound(c)
           at(g) == c[<<MlagObject, g>>]
           shown == {g \in {"heartbeat", "detectionDelay", "recovery", "shutdown",
                            "primaryPriority", "reloadMlag", "reloadNonMlag"} \cup MlagRequired :
                        <<MlagObject, g>> \in DOMAIN c}
           parsed == {g \in shown : g \in numbers => at(g) > 0}
<1>1. MlagObject[1] = "mlag" /\ "mlag" \in Features
    BY DEF MlagObject, Features
<1>2. p = <<MlagObject, f>> /\ f \in Knobs("mlag") /\ ValueShown("mlag", f, c[p])
      /\ ~IsDefault(f, c[p])
    BY <1>1, LinesOf
<1>3. Block("mlag", args).set = Under(MlagObject, lines)
    BY ByKind DEF MlagBlock, Rebuilds
<1>4. Overlay(args, found) = args
    <2>1. MlagRead(args, c) = args
        BY ReadByKind
    <2> QED
        BY <2>1, NothingDomain DEF MlagRead
<1>5. \A g \in DOMAIN found : g \in DOMAIN args /\ args[g] = found[g]
    BY <1>4, OverlaySame
<1>6. DOMAIN found = (parsed \ {"recovery"})
            \cup {"heartbeatVrf" : j \in {i \in shown : i = "heartbeat" /\ at(i)[2] # ""}}
            \cup {"action" : j \in {i \in shown : i = "detectionDelay" /\ at(i)[2] # ""}}
            \cup UNION {{"recoveryMlag", "recoveryNonMlag"} : j \in shown \cap {"recovery"}}
    BY DEF MlagFound
<1>7. f \in {"header", "recovery", "shutdown"} \cup own
    BY <1>2 DEF Knobs
<1>8. f # "header" => f \in shown
    BY <1>2, <1>7
<1>9. f \notin {"header", "recovery"} => f \in DOMAIN args
    <2> SUFFICES ASSUME f \notin {"header", "recovery"}
                 PROVE  f \in DOMAIN args
        OBVIOUS
    <2> HIDE DEF shown, at
    <2>1. at(f) = c[p]
        BY <1>2 DEF at
    <2>2. f \in parsed
        BY <1>8, <2>1
    <2>3. f \in DOMAIN found
        BY <1>6, <2>2
    <2> QED
        BY <1>5, <2>3
<1>10. f = "recovery" => "recoveryMlag" \in DOMAIN args
    <2> SUFFICES ASSUME "recovery" \in shown
                 PROVE  "recoveryMlag" \in DOMAIN args
        BY <1>8
    <2> HIDE DEF shown, at, parsed
    <2>1. "recoveryMlag" \in UNION {{"recoveryMlag", "recoveryNonMlag"} : j \in shown \cap {"recovery"}}
        OBVIOUS
    <2>2. "recoveryMlag" \in DOMAIN found
        BY <1>6, <2>1
    <2> QED
        BY <1>5, <2>2
<1>11. f = "shutdown" => args["shutdown"] = TRUE
    <2> SUFFICES ASSUME f = "shutdown"
                 PROVE  args["shutdown"] = TRUE
        OBVIOUS
    <2>1. c[p] = TRUE
        BY <1>2, ShutdownIsOn
    <2>2. "shutdown" \in DOMAIN found
        <3> HIDE DEF at
        <3>1. "shutdown" \in parsed /\ "shutdown" # "recovery"
            BY <1>8
        <3> HIDE DEF parsed, shown
        <3> QED
            BY <1>6, <3>1
    <2>3. found["shutdown"] = at("shutdown")
        BY <2>2 DEF MlagFound
    <2>4. at("shutdown") = c[p]
        BY <1>2
    <2> QED
        BY <1>5, <2>1, <2>2, <2>3, <2>4
<1> HIDE DEF shown, parsed, at, found
<1>12. DOMAIN lines = {"header"} \cup (DOMAIN args \cap own)
            \cup {"recovery" : g \in DOMAIN args \cap {"recoveryMlag", "recoveryNonMlag"}}
            \cup {"shutdown" : g \in {i \in {"shutdown"} : Has(args, i) /\ args[i]}}
    BY DEF MlagLines
<1>13. f \in DOMAIN lines
    <2>1. CASE f = "header"
        BY <1>12, <2>1
    <2>2. CASE f \in own
        <3>1. f \notin {"header", "recovery"}
            BY <2>2 DEF MlagRequired
        <3> QED
            BY <1>9, <1>12, <2>2, <3>1
    <2>3. CASE f = "recovery"
        BY <1>10, <1>12, <2>3
    <2>4. CASE f = "shutdown"
        <3>1. "shutdown" \in {i \in {"shutdown"} : Has(args, i) /\ args[i]}
            BY <1>9, <1>11, <2>4 DEF Has
        <3> QED
            BY <1>12, <2>4, <3>1
    <2> QED
        BY <1>7, <2>1, <2>2, <2>3, <2>4
<1>14. ~IsDefault(f, lines[f])
    <2>1. CASE f = "shutdown"
        <3>1. lines[f] = args["shutdown"]
            BY <1>13, <2>1 DEF MlagLines
        <3> HIDE DEF lines
        <3>2. \A v : v = TRUE => ~IsDefault("shutdown", v)
            BY DEF IsDefault, Default
        <3> QED
            BY <1>11, <2>1, <3>1, <3>2
    <2>2. CASE f # "shutdown"
        <3>1. f \notin DOMAIN Default
            BY <1>7, <2>2 DEF MlagRequired, Default
        <3> QED
            BY <3>1, NeverDefault
    <2> QED
        BY <2>1, <2>2
<1> HIDE DEF lines
<1>15. p \in DOMAIN Under(MlagObject, lines) /\ Under(MlagObject, lines)[p] = lines[f]
    BY <1>2, <1>13 DEF Under
<1> QED
    BY <1>3, <1>14, <1>15

\* The route that is read is the one of the inputs when no other has a lower
\* distance.
LEMMA RouteBack ==
    ASSUME NEW args, DOMAIN args # {}, NEW c, RunningConfig(c),
           ReadBack("staticRoute", args, c) = args,
           \A d \in 1 .. Or(args, "distance", 1) - 1 : ~Exists(c, RouteOf(args, d)),
           NEW p \in DOMAIN c, p[1] \in RouteObjects(args)
    PROVE  /\ p \in DOMAIN Block("staticRoute", args).set
           /\ ~IsDefault(p[2], Block("staticRoute", args).set[p])
<1> DEFINE D == Or(args, "distance", 1)
           object == RouteOf(args, D)
           f == p[2]
           rows == {d \in 1 .. DistanceMax : Exists(c, RouteOf(args, d))}
           first == CHOOSE d \in rows : \A e \in rows : d <= e
           row == [g \in {j \in {"tag", "name", "metric", "track"} :
                            <<RouteOf(args, first), j>> \in DOMAIN c} |->
                      c[<<RouteOf(args, first), g>>]]
           distance == [g \in {j \in {"distance"} : first # 1} |-> first]
           set == Block("staticRoute", args).set
<1>1. p[1] = object /\ object[1] = "route" /\ object[5] = D
    BY DEF RouteObjects, RouteOf
<1>2. p = <<object, f>> /\ f \in Knobs("route") /\ ValueShown("route", f, c[p])
    <2>1. "route" \in Features
        BY DEF Features
    <2> QED
        BY <1>1, <2>1, LinesOf
<1>3. D \in 1 .. DistanceMax
    <2>1. LineShown(p, c[p])
        BY DEF RunningConfig
    <2> HIDE DEF D, object
    <2> QED
        BY <1>1, <2>1 DEF LineShown, Features
<1>4. Exists(c, object)
    <2>1. "header" \in Core("route")
        BY DEF Core, Headed
    <2> HIDE DEF D, object
    <2> QED
        BY <1>1, <2>1 DEF RunningConfig, Complete, Exists
<1>5. D \in rows /\ \A e \in rows : D <= e
    <2>1. \A e \in rows : e \in 1 .. DistanceMax /\ Exists(c, RouteOf(args, e))
        OBVIOUS
    <2>2. D \in rows
        BY <1>3, <1>4
    <2>3. \A e \in 1 .. DistanceMax : e < D => e \in 1 .. D - 1
        BY <1>3, DistanceMaxAssumption
    <2> HIDE DEF D, rows
    <2>4. \A e \in rows : ~(e < D)
        BY <2>1, <2>3 DEF D
    <2> QED
        BY <1>3, <2>1, <2>2, <2>4, DistanceMaxAssumption
<1>6. first = D
    <2>1. \A e \in rows : e \in Int
        BY DistanceMaxAssumption
    <2> HIDE DEF rows, D
    <2>2. first \in rows /\ \A e \in rows : first <= e
        BY <1>5
    <2> HIDE DEF first
    <2> QED
        BY <1>5, <2>1, <2>2
<1>7. args = Overlay(Overlay(args, row), distance)
    <2>1. RouteRead(args, c) = args
        BY ReadByKind
    <2>2. rows # {}
        BY <1>5
    <2>3. RouteRead(args, c) = IF rows = {} THEN Nothing ELSE Overlay(Overlay(args, row), distance)
        BY DEF RouteRead
    <2> HIDE DEF rows, row, distance
    <2> QED
        BY <2>1, <2>2, <2>3
<1>8. /\ \A g : g \in DOMAIN row <=> g \in RouteOptions /\ <<object, g>> \in DOMAIN c
      /\ \A g \in DOMAIN row : row[g] = c[<<object, g>>]
    <2> HIDE DEF first, D
    <2> QED
        BY <1>6 DEF RouteOptions
<1>9. DOMAIN distance \subseteq {"distance"}
    OBVIOUS
<1>10. set = [q \in RouteObjects(args) \X (RouteKnobs(args) \cup {"header"}) |->
                IF q[2] = "header" THEN "on" ELSE args[q[2]]]
    <2> DEFINE lines == [q \in RouteObjects(args) \X (RouteKnobs(args) \cup {"header"}) |->
                            IF q[2] = "header" THEN "on" ELSE args[q[2]]]
    <2>1. Block("staticRoute", args) = RouteBlock(args)
        BY ByKind
    <2>2. RouteBlock(args) = Rebuilds(RouteObjects(args), lines)
        BY DEF RouteBlock
    <2>3. \A objects, g : Rebuilds(objects, g).set = g
        BY DEF Rebuilds
    <2> HIDE DEF lines
    <2>4. set = lines
        BY <2>1, <2>2, <2>3
    <2> QED
        BY <2>4 DEF lines
<1>11. f \in {"header"} \cup RouteOptions /\ "distance" \notin RouteOptions
    BY <1>2 DEF Knobs, RouteOptions
<1> HIDE DEF object, f, rows, first, row, distance, set, D
<1>12. f \in RouteOptions => f \in DOMAIN args /\ args[f] = c[p]
    <2> SUFFICES ASSUME f \in RouteOptions
                 PROVE  f \in DOMAIN args /\ args[f] = c[p]
        OBVIOUS
    <2>1. f \in DOMAIN row /\ row[f] = c[p]
        BY <1>2, <1>8
    <2>2. f \notin DOMAIN distance
        BY <1>9, <1>11
    <2>3. f \in DOMAIN Overlay(args, row) /\ Overlay(args, row)[f] = c[p]
        BY <2>1, OverlayValues
    <2>4. f \in DOMAIN Overlay(Overlay(args, row), distance)
          /\ Overlay(Overlay(args, row), distance)[f] = c[p]
        BY <2>2, <2>3, OverlayValues
    <2> QED
        BY <1>7, <2>4
<1>13. f = "tag" => c[p] # 0
    BY <1>2 DEF ValueShown
<1>14. f \in RouteKnobs(args) \cup {"header"}
    BY <1>11, <1>12, <1>13 DEF RouteKnobs, RouteOptions
<1>15. p \in DOMAIN set
    BY <1>1, <1>2, <1>10, <1>14
<1>16. f \notin DOMAIN Default
    BY <1>11 DEF RouteOptions, Default
<1> QED
    BY <1>15, <1>16, NeverDefault DEF set, f

LEMMA PrefixListBack ==
    ASSUME NEW args, DOMAIN args # {}, NEW c, RunningConfig(c),
           ReadBack("prefixList", args, c) = args,
           NEW p \in DOMAIN c, p[1] = ListObject("prefixList", args)
    PROVE  /\ p \in DOMAIN Block("prefixList", args).set
           /\ ~IsDefault(p[2], Block("prefixList", args).set[p])
<1> DEFINE k == "prefixList"
           object == ListObject(k, args)
           f == p[2]
           knobs == {"remark", "entries"}
           found == ListFound(k, args, c)
           lines == ListLines(k, args)
<1>1. k \in ListKinds /\ k \in Features /\ object[1] = k
    BY DEF ListKinds, Features, ListObject
<1>2. p = <<object, f>> /\ f \in knobs
    <2>1. Knobs(k) = knobs
        BY DEF Knobs
    <2> HIDE DEF knobs
    <2> QED
        BY <1>1, <2>1, LinesOf
<1>3. found = Shown(c, object, knobs)
    BY DEF ListFound, PrefixListFound
<1>4. \A g \in DOMAIN found : g \in DOMAIN args
    <2>1. ListRead(k, args, c) = args
        BY <1>1, ReadByKind
    <2> QED
        BY <1>1, <2>1, ListReadSame
<1>5. f \in DOMAIN args
    <2> HIDE DEF found, object, knobs
    <2> QED
        BY <1>2, <1>3, <1>4, ShownValues
<1>6. DOMAIN lines = knobs \cap DOMAIN args
    BY DEF ListLines, PrefixListLines
<1>7. Block(k, args).set = Under(object, lines)
    BY <1>1, ByKind DEF ListBlock, Rebuilds
<1>8. f \notin DOMAIN Default
    BY <1>2 DEF Default
<1> HIDE DEF lines, object
<1>9. p \in DOMAIN Under(object, lines)
    BY <1>2, <1>5, <1>6 DEF Under
<1> QED
    BY <1>7, <1>8, <1>9, NeverDefault

-----------------------------------------------------------------------------
(***************************************************************************)
(* The VXLAN interface.                                                    *)
(***************************************************************************)
\* A list of numbers that rises is that of its members in order.
LEMMA AscendingOfRising ==
    ASSUME NEW s, s \in Seq(Int), \A i, j \in DOMAIN s : i < j => s[i] < s[j]
    PROVE  Ascending(ToSet(s)) = s
<1> DEFINE S == ToSet(s)
           key == [n \in S |-> n]
<1>1. \A n \in S : n \in Int
    BY DEF ToSet
<1>2. s \in Seq(S) /\ \A i \in DOMAIN s : s[i] \in S
    BY DEF ToSet
<1>3. \A n \in S : key[n] = n
    OBVIOUS
<1>4. Ascending(S) = InOrder(S, key)
    BY DEF Ascending
<1> HIDE DEF key
<1>5. (\A n \in S : key[n] \in Int) /\ \A i, j \in DOMAIN s : i < j => key[s[i]] < key[s[j]]
    BY <1>1, <1>2, <1>3
<1>6. InOrder(S, key) = s
    BY <1>2, <1>5, InOrderOfRising
<1> QED
    BY <1>4, <1>6

\* the keys of the rows that are shown, in order
LEMMA KeysInOrder ==
    ASSUME NEW c, RunningConfig(c), NEW object, object[1] = "vxlanInterface",
           NEW table \in VniTables
    PROVE  LET ids == Ascending(ShownKeys(c, object, table))
           IN  \A p \in DOMAIN c : p[1] = object /\ p[2] = table =>
                /\ p = <<object, table, p[3]>>
                /\ \E i \in DOMAIN ids : ids[i] = p[3]
<1> DEFINE K == ShownKeys(c, object, table)
           ids == Ascending(K)
<1>1. /\ IsFiniteSet(K) /\ K \subseteq RowKeys(table)
      /\ \A p \in DOMAIN c : p[1] = object /\ p[2] = table => p = <<object, table, p[3]>> /\ p[3] \in K
    BY TableKeys
<1>2. RowKeys(table) = Int
    BY DEF RowKeys, VniTables
<1> HIDE DEF K
<1>3. DOMAIN ids = 1 .. Cardinality(K) /\ \A n \in K : \E i \in 1 .. Cardinality(K) : ids[i] = n
    BY <1>1, <1>2, AscendingSorts
<1> HIDE DEF ids
<1>4. \A p \in DOMAIN c : p[1] = object /\ p[2] = table =>
        p = <<object, table, p[3]>> /\ \E i \in DOMAIN ids : ids[i] = p[3]
    BY <1>1, <1>3
<1> QED
    BY <1>4 DEF ids, K

LEMMA VxlanTables ==
    ASSUME NEW args
    PROVE  LET vlans == Or(args, "vlanVniMap", <<>>)
               vrfs == Or(args, "vrfVniMap", <<>>)
           IN  /\ \A row \in DOMAIN Rows("vxlanInterface", args) : row[1] \in VniTables
               /\ \A key \in VlanIds(vlans) :
                    /\ <<"vlanVniMap", key>> \in DOMAIN Rows("vxlanInterface", args)
                    /\ Rows("vxlanInterface", args)[<<"vlanVniMap", key>>] =
                            (CHOOSE e \in ToSet(vlans) : e["vlanId"] = key)["vni"]
               /\ \A key \in Vrfs(vrfs) :
                    /\ <<"vrfVniMap", key>> \in DOMAIN Rows("vxlanInterface", args)
                    /\ Rows("vxlanInterface", args)[<<"vrfVniMap", key>>] =
                            (CHOOSE e \in ToSet(vrfs) : e["vrf"] = key)["vni"]
<1> DEFINE vlans == Or(args, "vlanVniMap", <<>>)
           vrfs == Or(args, "vrfVniMap", <<>>)
           D == ({"vlanVniMap"} \X VlanIds(vlans)) \cup ({"vrfVniMap"} \X Vrfs(vrfs))
           rows == Rows("vxlanInterface", args)
           vlanVni(key) == (CHOOSE e \in ToSet(vlans) : e["vlanId"] = key)["vni"]
           vrfVni(key) == (CHOOSE e \in ToSet(vrfs) : e["vrf"] = key)["vni"]
<1>1. rows = [r \in D |-> IF r[1] = "vlanVniMap" THEN vlanVni(r[2]) ELSE vrfVni(r[2])]
    BY DEF Rows, VxlanRows
<1> HIDE DEF vlanVni, vrfVni, rows, vlans, vrfs
<1>2. \A row \in DOMAIN rows : row[1] \in VniTables
    BY <1>1 DEF VniTables
<1>3. \A key \in VlanIds(vlans) :
        <<"vlanVniMap", key>> \in DOMAIN rows /\ rows[<<"vlanVniMap", key>>] = vlanVni(key)
    <2> SUFFICES ASSUME NEW key \in VlanIds(vlans)
                 PROVE  /\ <<"vlanVniMap", key>> \in DOMAIN rows
                        /\ rows[<<"vlanVniMap", key>>] = vlanVni(key)
        OBVIOUS
    <2> DEFINE r == <<"vlanVniMap", key>>
    <2>1. r \in D /\ r[1] = "vlanVniMap" /\ r[2] = key
        OBVIOUS
    <2> HIDE DEF r, D
    <2>2. r \in DOMAIN rows /\ rows[r] = vlanVni(r[2])
        BY <1>1, <2>1
    <2> QED
        BY <2>1, <2>2 DEF r
<1>4. \A key \in Vrfs(vrfs) :
        <<"vrfVniMap", key>> \in DOMAIN rows /\ rows[<<"vrfVniMap", key>>] = vrfVni(key)
    <2> SUFFICES ASSUME NEW key \in Vrfs(vrfs)
                 PROVE  /\ <<"vrfVniMap", key>> \in DOMAIN rows
                        /\ rows[<<"vrfVniMap", key>>] = vrfVni(key)
        OBVIOUS
    <2> DEFINE r == <<"vrfVniMap", key>>
    <2>1. r \in D /\ r[1] # "vlanVniMap" /\ r[2] = key
        OBVIOUS
    <2> HIDE DEF r, D
    <2>2. r \in DOMAIN rows /\ rows[r] = vrfVni(r[2])
        BY <1>1, <2>1
    <2> QED
        BY <2>1, <2>2 DEF r
<1> QED
    BY <1>2, <1>3, <1>4 DEF vlanVni, vrfVni, rows, vlans, vrfs

LEMMA VxlanRowBack ==
    ASSUME NEW args, DOMAIN args # {}, NEW c, RunningConfig(c),
           ReadBack("vxlanInterface", args, c) = args,
           NEW p \in DOMAIN c, p[1] = Object("vxlanInterface", args), p[2] \in VniTables
    PROVE  /\ p \in DOMAIN Block("vxlanInterface", args).set
           /\ Block("vxlanInterface", args).set[p] = c[p]
<1> DEFINE k == "vxlanInterface"
           object == Object(k, args)
           table == p[2]
           field == IF table = "vlanVniMap" THEN "vlanId" ELSE "vrf"
           ids == Ascending(ShownKeys(c, object, table))
           found == Found(k, args, c)
           tables == [vlanVniMap |-> VlansFound(c, object), vrfVniMap |-> VrfsFound(c, object)]
           map == tables[table]
           set == Block(k, args).set
<1>1. k \in OneObjectKinds /\ object[1] = k
    BY DEF OneObjectKinds, MergeKinds, Object
<1>2. p = <<object, table, p[3]>> /\ \E i \in DOMAIN ids : ids[i] = p[3]
    <2> HIDE DEF object, table
    <2> QED
        BY <1>1, KeysInOrder DEF table, object
<1>3. PICK i \in DOMAIN ids : ids[i] = p[3]
    BY <1>2
<1>4. /\ DOMAIN map = DOMAIN ids
      /\ \A j \in DOMAIN map : map[j][field] = ids[j] /\ map[j]["vni"] = c[<<object, table, ids[j]>>]
    <2>1. CASE table = "vlanVniMap"
        <3>1. map = VlansFound(c, object) /\ field = "vlanId"
            BY <2>1
        <3>2. VlansFound(c, object) =
                [j \in DOMAIN ids |-> [vlanId |-> ids[j], vni |-> c[<<object, table, ids[j]>>]]]
            BY <2>1 DEF VlansFound
        <3> HIDE DEF map, field, ids, object, table
        <3> QED
            BY <3>1, <3>2
    <2>2. CASE table = "vrfVniMap"
        <3>1. map = VrfsFound(c, object) /\ field = "vrf"
            BY <2>2
        <3>2. VrfsFound(c, object) =
                [j \in DOMAIN ids |-> [vrf |-> ids[j], vni |-> c[<<object, table, ids[j]>>]]]
            BY <2>2 DEF VrfsFound
        <3> HIDE DEF map, field, ids, object, table
        <3> QED
            BY <3>1, <3>2
    <2> QED
        BY <2>1, <2>2 DEF VniTables
<1>5. args[table] = map /\ table \in DOMAIN args
    <2>1. found = Overlay(Shown(c, object, VxlanFields \cup {"floodVteps"}), NonEmpty(tables))
        BY DEF Found, VxlanFound
    <2>2. table \in DOMAIN tables
        BY DEF VniTables
    <2>3. map # <<>>
        <3> HIDE DEF map, ids
        <3> QED
            BY <1>3, <1>4
    <2> HIDE DEF tables
    <2>4. table \in DOMAIN NonEmpty(tables) /\ NonEmpty(tables)[table] = map
        BY <2>2, <2>3 DEF NonEmpty
    <2>5. \A g \in DOMAIN found : g \in DOMAIN args /\ args[g] = found[g]
        BY <1>1, FoundIsGiven
    <2> HIDE DEF found, map, table
    <2> QED
        BY <2>1, <2>4, <2>5, OverlayValues
<1>6. Or(args, table, <<>>) = map
    <2> HIDE DEF map, table
    <2> QED
        BY <1>5 DEF Or, Has
<1> HIDE DEF map, field, ids, object, table
<1>7. \A e \in ToSet(map) : e[field] = p[3] => e["vni"] = c[p]
    <2> SUFFICES ASSUME NEW e \in ToSet(map), e[field] = p[3]
                 PROVE  e["vni"] = c[p]
        OBVIOUS
    <2>1. PICK j \in DOMAIN map : e = map[j]
        BY DEF ToSet
    <2>2. map[j][field] = ids[j] /\ map[j]["vni"] = c[<<object, table, ids[j]>>]
        BY <1>4
    <2>3. ids[j] = p[3]
        BY <2>1, <2>2
    <2> QED
        BY <1>2, <2>1, <2>2, <2>3
<1>8. /\ \E j \in DOMAIN map : map[j][field] = p[3]
      /\ \E e \in ToSet(map) : e[field] = p[3]
    <2>1. i \in DOMAIN map /\ map[i][field] = p[3]
        BY <1>3, <1>4
    <2> QED
        BY <2>1 DEF ToSet
<1>9. <<table, p[3]>> \in DOMAIN Rows(k, args) /\ Rows(k, args)[<<table, p[3]>>] = c[p]
    <2>1. CASE table = "vlanVniMap"
        <3>0. field = "vlanId"
            BY <2>1 DEF field
        <3>1. p[3] \in VlanIds(map)
            BY <1>8, <3>0 DEF VlanIds
        <3>2. map = Or(args, "vlanVniMap", <<>>)
            BY <1>6, <2>1
        <3>3. (CHOOSE e \in ToSet(map) : e["vlanId"] = p[3])["vni"] = c[p]
            BY <1>7, <1>8, <3>0
        <3> QED
            BY <2>1, <3>1, <3>2, <3>3, VxlanTables
    <2>2. CASE table = "vrfVniMap"
        <3>0. field = "vrf"
            BY <2>2 DEF field
        <3>1. p[3] \in Vrfs(map)
            BY <1>8, <3>0 DEF Vrfs
        <3>2. map = Or(args, "vrfVniMap", <<>>)
            BY <1>6, <2>2
        <3>3. (CHOOSE e \in ToSet(map) : e["vrf"] = p[3])["vni"] = c[p]
            BY <1>7, <1>8, <3>0
        <3> QED
            BY <2>2, <3>1, <3>2, <3>3, VxlanTables
    <2> QED
        BY <2>1, <2>2 DEF VniTables, table
<1>10. LET q == <<Object(k, args), table, p[3]>>
       IN  q \in DOMAIN Block(k, args).set
           /\ Block(k, args).set[q] = Rows(k, args)[<<table, p[3]>>]
    BY <1>1, <1>9, OneRowIsSet
<1> QED
    BY <1>2, <1>9, <1>10 DEF object

LEMMA VxlanLineBack ==
    ASSUME NEW args, DOMAIN args # {}, NEW c, RunningConfig(c),
           ReadBack("vxlanInterface", args, c) = args,
           NEW p \in DOMAIN c, p[1] = Object("vxlanInterface", args), p[2] \notin VniTables
    PROVE  /\ p = <<p[1], p[2]>>
           /\ p[2] \in DOMAIN Lines("vxlanInterface", args)
           /\ Lines("vxlanInterface", args)[p[2]] = c[p]
<1> DEFINE k == "vxlanInterface"
           object == Object(k, args)
           f == p[2]
           head == [header |-> "on"]
           given == Given(args, VxlanFields)
           flood == [g \in {"floodVteps"} \cap DOMAIN args |-> Ascending(ToSet(args.floodVteps))]
           found == Found(k, args, c)
           knobs == VxlanFields \cup {"floodVteps"}
           shown == Shown(c, object, knobs)
           tables == [vlanVniMap |-> VlansFound(c, object), vrfVniMap |-> VrfsFound(c, object)]
<1>1. k \in OneObjectKinds /\ k \in Features /\ object[1] = k
    BY DEF OneObjectKinds, MergeKinds, Features, Object
<1>2. p = <<object, f>> /\ f \in Knobs(k) /\ ValueShown(k, f, c[p])
    <2>1. p[1] = object /\ LineShown(p, c[p])
        BY DEF RunningConfig
    <2>2. ~IsRow(p)
        BY <1>1, <2>1 DEF IsRow
    <2> HIDE DEF object
    <2> QED
        BY <1>1, <2>1, <2>2 DEF LineShown
<1>3. Lines(k, args) = Overlay(Overlay(head, given), flood)
    BY DEF Lines, VxlanLines
<1>4. found = Overlay(shown, NonEmpty(tables))
    BY DEF Found, VxlanFound
<1>5. \A g \in DOMAIN found : g \in DOMAIN args /\ args[g] = found[g]
    BY <1>1, FoundIsGiven
<1>6. DOMAIN head = {"header"} /\ head["header"] = "on"
    OBVIOUS
<1>7. DOMAIN given \subseteq VxlanFields
    BY GivenDomain
<1>8. DOMAIN NonEmpty(tables) \subseteq VniTables
    BY NonEmptyDomain DEF VniTables
<1>9. f \in {"header"} \cup knobs
    BY <1>2 DEF Knobs
<1>10. "header" \notin knobs /\ "floodVteps" \notin VxlanFields
    BY DEF VxlanFields
<1>11. DOMAIN flood \subseteq {"floodVteps"}
    OBVIOUS
<1> HIDE DEF object, f, found, given, shown, head, knobs, tables
<1>12. f \in knobs => f \in DOMAIN args /\ args[f] = c[p]
    <2> SUFFICES ASSUME f \in knobs
                 PROVE  f \in DOMAIN args /\ args[f] = c[p]
        OBVIOUS
    <2>1. f \in DOMAIN shown /\ shown[f] = c[p]
        BY <1>2, ShownValues DEF shown
    <2>2. f \notin DOMAIN NonEmpty(tables)
        BY <1>8 DEF f
    <2> QED
        BY <1>4, <1>5, <2>1, <2>2, OverlayValues
<1>13. CASE f = "header"
    <2>1. c[p] = "on"
        BY <1>2, <1>13 DEF ValueShown
    <2>2. f \notin DOMAIN given /\ f \notin DOMAIN flood
        BY <1>7, <1>10, <1>11, <1>13 DEF knobs
    <2> HIDE DEF flood
    <2>3. f \in DOMAIN Lines(k, args) /\ Lines(k, args)[f] = c[p]
        BY <1>3, <1>6, <1>13, <2>1, <2>2, OverlayValues
    <2> QED
        BY <1>2, <2>3 DEF f
<1>14. CASE f \in VxlanFields
    <2>1. f \in DOMAIN given /\ given[f] = c[p]
        BY <1>12, <1>14, GivenValues DEF given, knobs
    <2>2. f \notin DOMAIN flood
        BY <1>10, <1>11, <1>14
    <2> HIDE DEF flood
    <2>3. f \in DOMAIN Lines(k, args) /\ Lines(k, args)[f] = c[p]
        BY <1>3, <2>1, <2>2, OverlayValues
    <2> QED
        BY <1>2, <2>3 DEF f
<1>15. CASE f = "floodVteps"
    <2>1. f \in DOMAIN args /\ args[f] = c[p]
        BY <1>12, <1>15 DEF knobs
    <2>2. c[p] \in Seq(Int) /\ \A i, j \in DOMAIN c[p] : i < j => c[p][i] < c[p][j]
        BY <1>2, <1>15 DEF ValueShown
    <2>3. Ascending(ToSet(args[f])) = c[p]
        BY <2>1, <2>2, AscendingOfRising
    <2>4. f \in DOMAIN flood /\ flood[f] = Ascending(ToSet(args[f]))
        BY <1>15, <2>1
    <2> HIDE DEF flood
    <2>5. f \in DOMAIN Lines(k, args) /\ Lines(k, args)[f] = c[p]
        BY <1>3, <2>3, <2>4, OverlayValues
    <2> QED
        BY <1>2, <2>5 DEF f
<1> QED
    BY <1>9, <1>13, <1>14, <1>15 DEF knobs

-----------------------------------------------------------------------------
(***************************************************************************)
(* The VRRP group.                                                         *)
(***************************************************************************)
\* where the members of three lists are in their concatenation
LEMMA ThreeLists ==
    ASSUME NEW A, NEW r \in Seq(A), NEW s \in Seq(A), NEW t \in Seq(A)
    PROVE  LET all == r \o s \o t
           IN  /\ all \in Seq(A) /\ DOMAIN all = 1 .. Len(r) + Len(s) + Len(t)
               /\ \A i \in 1 .. Len(r) : all[i] = r[i]
               /\ \A i \in 1 .. Len(s) : all[Len(r) + i] = s[i]
               /\ \A i \in 1 .. Len(t) : all[Len(r) + Len(s) + i] = t[i]
<1> DEFINE rs == r \o s
           all == rs \o t
<1>1. /\ rs \in Seq(A) /\ Len(rs) = Len(r) + Len(s)
      /\ \A i \in 1 .. Len(rs) : rs[i] = IF i <= Len(r) THEN r[i] ELSE s[i - Len(r)]
    BY ConcatProperties
<1> HIDE DEF rs
<1>2. /\ all \in Seq(A) /\ Len(all) = Len(rs) + Len(t)
      /\ \A i \in 1 .. Len(all) : all[i] = IF i <= Len(rs) THEN rs[i] ELSE t[i - Len(rs)]
    <2>1. rs \in Seq(A)
        BY <1>1
    <2> HIDE <1>1
    <2> QED
        BY <2>1, ConcatProperties
<1> HIDE DEF all
<1>3. Len(r) \in Nat /\ Len(s) \in Nat /\ Len(t) \in Nat
    OBVIOUS
<1>4. DOMAIN all = 1 .. Len(r) + Len(s) + Len(t)
    BY <1>1, <1>2
<1>5. \A i \in 1 .. Len(r) : all[i] = r[i]
    BY <1>1, <1>2, <1>3
<1>6. \A i \in 1 .. Len(s) : all[Len(r) + i] = s[i]
    <2> SUFFICES ASSUME NEW i \in 1 .. Len(s)
                 PROVE  all[Len(r) + i] = s[i]
        OBVIOUS
    <2> DEFINE j == Len(r) + i
    <2>1. j \in 1 .. Len(rs) /\ j \in 1 .. Len(all) /\ j <= Len(rs) /\ ~(j <= Len(r)) /\ j - Len(r) = i
        BY <1>1, <1>2, <1>3
    <2> HIDE DEF j
    <2>2. all[j] = rs[j] /\ rs[j] = s[j - Len(r)]
        BY <1>1, <1>2, <2>1
    <2> QED
        BY <2>1, <2>2 DEF j
<1>7. \A i \in 1 .. Len(t) : all[Len(r) + Len(s) + i] = t[i]
    <2> SUFFICES ASSUME NEW i \in 1 .. Len(t)
                 PROVE  all[Len(r) + Len(s) + i] = t[i]
        OBVIOUS
    <2> DEFINE j == Len(r) + Len(s) + i
    <2>1. j \in 1 .. Len(all) /\ ~(j <= Len(rs)) /\ j - Len(rs) = i
        BY <1>1, <1>2, <1>3
    <2> HIDE DEF j
    <2>2. all[j] = t[j - Len(rs)]
        BY <1>2, <2>1
    <2> QED
        BY <2>1, <2>2 DEF j
<1> QED
    BY <1>2, <1>4, <1>5, <1>6, <1>7 DEF all, rs

\* the addresses of a table, in order
SortedAddresses(c, object, table) ==
    InOrder(ShownKeys(c, object, table), [a \in ShownKeys(c, object, table) |-> a[2]])

LEMMA AddressTable ==
    ASSUME NEW c, RunningConfig(c), NEW object, object[1] = "vrrp",
           NEW table \in {"secondary", "ipv6"}
    PROVE  LET keys == ShownKeys(c, object, table)
               sorted == SortedAddresses(c, object, table)
           IN  /\ sorted \in Seq(RowKeys(table))
               /\ \A a \in keys : \E i \in 1 .. Len(sorted) : sorted[i] = a
               /\ \A i, j \in 1 .. Len(sorted) : i < j => sorted[i][2] < sorted[j][2]
<1> DEFINE K == ShownKeys(c, object, table)
           key == [a \in K |-> a[2]]
           n == Cardinality(K)
           sorted == InOrder(K, key)
<1>1. IsFiniteSet(K) /\ K \subseteq RowKeys(table)
    BY TableKeys DEF VrrpTables
<1>2. PICK version : RowKeys(table) = {version} \X Int
    BY DEF RowKeys
<1> HIDE DEF K
<1>3. \A a \in K : key[a] = a[2] /\ key[a] \in Int
    BY <1>1, <1>2
<1>4. \A a, b \in K : key[a] = key[b] => a = b
    BY <1>1, <1>2, <1>3
<1> HIDE DEF key
<1>5. n \in Nat /\ sorted \in [1 .. n -> K] /\ Rises(sorted, n, key) /\ Covers(sorted, n, K)
    BY <1>1, <1>3, <1>4, InOrderSorts
<1> HIDE DEF sorted, n
<1>6. sorted \in Seq(RowKeys(table)) /\ Len(sorted) = n
    <2>1. sorted \in [1 .. n -> RowKeys(table)]
        BY <1>1, <1>5
    <2> HIDE <1>2
    <2> QED
        BY <1>5, <2>1
<1>7. \A a \in K : \E i \in 1 .. Len(sorted) : sorted[i] = a
    BY <1>5, <1>6 DEF Covers
<1>8. \A i, j \in 1 .. Len(sorted) : i < j => sorted[i][2] < sorted[j][2]
    BY <1>3, <1>5, <1>6 DEF Rises
<1> QED
    BY <1>6, <1>7, <1>8 DEF SortedAddresses, sorted, key, K

PlacedAsIPv6(args, a) ==
    \E i \in DOMAIN AddressList(args) \ IPv4Places(args) : AddressList(args)[i] = a

PlacedAsSecondary(args, a) ==
    \E i \in IPv4Places(args) \ PrimaryPlaces(args) : AddressList(args)[i] = a

\* The first address that is found is the primary one, and the others are rows.
LEMMA AddressPlaces ==
    ASSUME NEW c, RunningConfig(c), NEW object, object[1] = "vrrp", NEW args,
           VrrpAddressesFound(c, object) # <<>> => AddressList(args) = VrrpAddressesFound(c, object)
    PROVE  /\ <<object, "primary">> \in DOMAIN c => PrimaryPlaces(args) # {}
           /\ \A a \in ShownKeys(c, object, "secondary") :
                \/ <<object, "primary">> \in DOMAIN c
                \/ \E b \in ShownKeys(c, object, "secondary") : ~(a[2] <= b[2])
                => PlacedAsSecondary(args, a)
           /\ \A a \in ShownKeys(c, object, "ipv6") : PlacedAsIPv6(args, a)
<1> DEFINE primary == <<object, "primary">> \in DOMAIN c
           shown == Shown(c, object, {"primary"})
           first == IF Has(shown, "primary") THEN <<shown.primary>> ELSE <<>>
           second == ShownKeys(c, object, "secondary")
           sixth == ShownKeys(c, object, "ipv6")
           s == SortedAddresses(c, object, "secondary")
           t == SortedAddresses(c, object, "ipv6")
           all == first \o s \o t
           A == {4, 6} \X Int
<1>1. /\ s \in Seq({4} \X Int) /\ \A a \in second : \E i \in 1 .. Len(s) : s[i] = a
      /\ \A i, j \in 1 .. Len(s) : i < j => s[i][2] < s[j][2]
    BY AddressTable DEF RowKeys
<1>2. t \in Seq({6} \X Int) /\ \A a \in sixth : \E i \in 1 .. Len(t) : t[i] = a
    BY AddressTable DEF RowKeys
<1>3. primary => c[<<object, "primary">>] \in {4} \X Int
    <2> SUFFICES ASSUME primary
                 PROVE  c[<<object, "primary">>] \in {4} \X Int
        OBVIOUS
    <2> DEFINE p == <<object, "primary">>
    <2>1. LineShown(p, c[p])
        BY DEF RunningConfig
    <2>2. ~IsRow(p)
        BY DEF IsRow, VrrpTables
    <2>3. p[1][1] \in Features
        BY DEF Features
    <2>4. ValueShown(p[1][1], p[2], c[p])
        BY <2>1, <2>2, <2>3 DEF LineShown
    <2> QED
        BY <2>4 DEF ValueShown
<1>4. /\ first \in Seq({4} \X Int)
      /\ Len(first) = IF primary THEN 1 ELSE 0
    <2>1. /\ primary <=> Has(shown, "primary")
          /\ primary => shown.primary = c[<<object, "primary">>]
        BY DEF Shown, Has
    <2>2. \A v \in {4} \X Int : <<v>> \in Seq({4} \X Int) /\ Len(<<v>>) = 1
        OBVIOUS
    <2>3. <<>> \in Seq({4} \X Int) /\ Len(<<>>) = 0
        OBVIOUS
    <2>4. primary => first = <<c[<<object, "primary">>]>>
        BY <2>1
    <2>5. ~primary => first = <<>>
        BY <2>1
    <2> HIDE DEF first, primary
    <2>6. CASE primary
        BY <1>3, <2>2, <2>4, <2>6
    <2>7. CASE ~primary
        BY <2>3, <2>5, <2>7
    <2> QED
        BY <2>6, <2>7
<1>5. VrrpAddressesFound(c, object) = all
    BY DEF VrrpAddressesFound, SortedAddresses
<1>6. /\ first \in Seq(A) /\ s \in Seq(A) /\ t \in Seq(A)
    BY <1>1, <1>2, <1>4
<1> HIDE DEF first, s, t, second, sixth, primary
<1>7. /\ all \in Seq(A) /\ DOMAIN all = 1 .. Len(first) + Len(s) + Len(t)
      /\ \A i \in 1 .. Len(first) : all[i] = first[i]
      /\ \A i \in 1 .. Len(s) : all[Len(first) + i] = s[i]
      /\ \A i \in 1 .. Len(t) : all[Len(first) + Len(s) + i] = t[i]
    BY <1>6, ThreeLists
<1> HIDE DEF all
<1> DEFINE V4(i) == i \in DOMAIN all /\ all[i][1] = 4
<1>8. all # <<>> => /\ AddressList(args) = all
                    /\ \A i : i \in IPv4Places(args) <=> V4(i)
                    /\ \A i : i \in PrimaryPlaces(args) <=> V4(i) /\ \A j : V4(j) => i <= j
    BY <1>5 DEF IPv4Places, PrimaryPlaces
<1>9. /\ Len(first) \in Nat /\ Len(s) \in Nat /\ Len(t) \in Nat
      /\ \A i \in 1 .. Len(first) : V4(i)
      /\ \A i \in 1 .. Len(s) : V4(Len(first) + i)
    <2>1. Len(first) \in Nat /\ Len(s) \in Nat /\ Len(t) \in Nat
        BY <1>6
    <2>2. /\ \A i \in 1 .. Len(first) : first[i] \in {4} \X Int
          /\ \A i \in 1 .. Len(s) : s[i] \in {4} \X Int
        BY <1>1, <1>4
    <2>3. /\ \A i \in 1 .. Len(first) : first[i][1] = 4
          /\ \A i \in 1 .. Len(s) : s[i][1] = 4
        BY <2>2
    <2>4. /\ \A i \in 1 .. Len(first) : i \in DOMAIN all
          /\ \A i \in 1 .. Len(s) : Len(first) + i \in DOMAIN all
        BY <1>7, <2>1
    <2>5. \A i \in 1 .. Len(first) : V4(i)
        BY <1>7, <2>3, <2>4
    <2>6. ASSUME NEW i \in 1 .. Len(s)
          PROVE  V4(Len(first) + i)
        <3>1. all[Len(first) + i] = s[i]
            BY <1>7
        <3>2. Len(first) + i \in DOMAIN all /\ s[i][1] = 4
            BY <2>3, <2>4
        <3> QED
            BY <3>1, <3>2
    <2> QED
        BY <2>1, <2>5, <2>6
<1>10. \A i : i \in DOMAIN all => all # <<>>
    OBVIOUS
<1>11. primary => PrimaryPlaces(args) # {}
    <2> SUFFICES ASSUME primary
                 PROVE  PrimaryPlaces(args) # {}
        OBVIOUS
    <2>1. V4(1)
        BY <1>4, <1>9
    <2>2. \A j : V4(j) => 1 <= j
        BY <1>7, <1>9
    <2> QED
        BY <1>8, <1>10, <2>1, <2>2
<1>12. ASSUME NEW a \in second, primary \/ \E b \in second : ~(a[2] <= b[2])
       PROVE  PlacedAsSecondary(args, a)
    <2>1. PICK i \in 1 .. Len(s) : s[i] = a
        BY <1>1
    <2> DEFINE place == Len(first) + i
    <2>2. V4(place) /\ all[place] = a /\ place \in Nat
        BY <1>7, <1>9, <2>1
    <2>3. \E j : V4(j) /\ ~(place <= j)
        <3>1. CASE primary
            <4>1. V4(1) /\ ~(place <= 1)
                BY <1>4, <1>9, <3>1
            <4> QED
                BY <4>1
        <3>2. CASE \E b \in second : ~(a[2] <= b[2])
            <4>1. PICK b \in second : ~(a[2] <= b[2])
                BY <3>2
            <4>2. PICK j \in 1 .. Len(s) : s[j] = b
                BY <1>1
            <4>3. s[i][2] \in Int /\ s[j][2] \in Int
                BY <1>1
            <4>4. j < i
                BY <1>1, <2>1, <4>1, <4>2, <4>3
            <4>5. V4(Len(first) + j) /\ ~(place <= Len(first) + j)
                BY <1>9, <4>4
            <4> QED
                BY <4>5
        <3> QED
            BY <1>12, <3>1, <3>2
    <2> HIDE DEF place
    <2>4. place \in IPv4Places(args) /\ place \notin PrimaryPlaces(args)
          /\ AddressList(args)[place] = a
        BY <1>8, <1>10, <2>2, <2>3
    <2> QED
        BY <2>4 DEF PlacedAsSecondary
<1>13. ASSUME NEW a \in sixth
       PROVE  PlacedAsIPv6(args, a)
    <2>1. PICK i \in 1 .. Len(t) : t[i] = a
        BY <1>2
    <2> DEFINE place == Len(first) + Len(s) + i
    <2>2. place \in DOMAIN all /\ all[place] = a
        BY <1>7, <1>9, <2>1
    <2>3. a[1] = 6
        BY <1>2, <2>1
    <2> HIDE DEF place
    <2>4. place \in DOMAIN AddressList(args) /\ place \notin IPv4Places(args)
          /\ AddressList(args)[place] = a
        BY <1>8, <1>10, <2>2, <2>3
    <2> QED
        BY <2>4 DEF PlacedAsIPv6
<1> QED
    BY <1>11, <1>12, <1>13 DEF primary, second, sixth

\* what the inputs of a group that is read back unchanged say
LEMMA VrrpGiven ==
    ASSUME NEW args, DOMAIN args # {}, NEW c, ReadBack("vrrp", args, c) = args
    PROVE  LET object == Object("vrrp", args)
               all == VrrpAddressesFound(c, object)
               tracks == VrrpTracksFound(c, object)
           IN  /\ \A f \in VrrpFields :
                    /\ <<object, f>> \in DOMAIN c
                    /\ f = "preemptDelayMinimum" => c[<<object, f>>] > 0
                    => f \in DOMAIN args /\ args[f] = c[<<object, f>>]
               /\ all # <<>> => AddressList(args) = all
               /\ tracks # <<>> => Has(args, "tracks") /\ args.tracks = tracks
<1> DEFINE k == "vrrp"
           object == Object(k, args)
           all == VrrpAddressesFound(c, object)
           tracks == VrrpTracksFound(c, object)
           knobs == VrrpFields \cup {"preempt"}
           shown == Shown(c, object, knobs)
           told == {f \in DOMAIN shown :
                        /\ f = "preemptDelayMinimum" => shown[f] > 0
                        /\ f = "preempt" => shown[f] = TRUE}
           scalars == [f \in told |-> shown[f]]
           lists == [virtualAddresses |-> all, tracks |-> tracks]
           given == NonEmpty(lists)
           found == Found(k, args, c)
<1>1. k \in OneObjectKinds
    BY DEF OneObjectKinds, MergeKinds
<1>2. \A f \in DOMAIN found : f \in DOMAIN args /\ args[f] = found[f]
    BY <1>1, FoundIsGiven
<1>3. found = Overlay(scalars, given)
    BY DEF Found, VrrpFound
<1>4. /\ all # <<>> => "virtualAddresses" \in DOMAIN given /\ given["virtualAddresses"] = all
      /\ tracks # <<>> => "tracks" \in DOMAIN given /\ given["tracks"] = tracks
      /\ DOMAIN given \subseteq {"virtualAddresses", "tracks"}
    <2> HIDE DEF all, tracks
    <2>1. DOMAIN lists = {"virtualAddresses", "tracks"}
          /\ lists["virtualAddresses"] = all /\ lists["tracks"] = tracks
        OBVIOUS
    <2> HIDE DEF lists
    <2> QED
        BY <2>1 DEF NonEmpty
<1> HIDE DEF object, all, tracks, found, given
<1>5. all # <<>> => AddressList(args) = all
    <2> SUFFICES ASSUME all # <<>>
                 PROVE  AddressList(args) = all
        OBVIOUS
    <2> HIDE DEF scalars
    <2>1. "virtualAddresses" \in DOMAIN args /\ args["virtualAddresses"] = all
        BY <1>2, <1>3, <1>4, OverlayValues
    <2> QED
        BY <2>1 DEF AddressList, Or, Has
<1>6. tracks # <<>> => Has(args, "tracks") /\ args.tracks = tracks
    <2> SUFFICES ASSUME tracks # <<>>
                 PROVE  Has(args, "tracks") /\ args.tracks = tracks
        OBVIOUS
    <2> HIDE DEF scalars
    <2>1. "tracks" \in DOMAIN args /\ args["tracks"] = tracks
        BY <1>2, <1>3, <1>4, OverlayValues
    <2> QED
        BY <2>1 DEF Has
<1>7. ASSUME NEW f \in VrrpFields, <<object, f>> \in DOMAIN c,
             f = "preemptDelayMinimum" => c[<<object, f>>] > 0
      PROVE  f \in DOMAIN args /\ args[f] = c[<<object, f>>]
    <2>1. f \in knobs /\ f \notin {"preempt", "virtualAddresses", "tracks"}
        BY <1>7 DEF VrrpFields
    <2> HIDE DEF knobs
    <2>2. f \in DOMAIN shown /\ shown[f] = c[<<object, f>>]
        BY <1>7, <2>1, ShownValues
    <2> HIDE DEF shown
    <2>3. f \in DOMAIN scalars /\ scalars[f] = c[<<object, f>>]
        BY <1>7, <2>1, <2>2
    <2>4. f \notin DOMAIN given
        BY <1>4, <2>1
    <2> HIDE DEF scalars
    <2>5. f \in DOMAIN found /\ found[f] = c[<<object, f>>]
        BY <1>3, <2>3, <2>4, OverlayValues
    <2> QED
        BY <1>2, <2>5
<1> QED
    BY <1>5, <1>6, <1>7 DEF object, all, tracks

LEMMA VrrpLineBack ==
    ASSUME NEW args, DOMAIN args # {}, NEW c, RunningConfig(c), ReadBack("vrrp", args, c) = args,
           NEW p \in DOMAIN c, p[1] = Object("vrrp", args), p[2] \notin VrrpTables,
           p[2] # "preempt", p[2] = "preemptDelayMinimum" => c[p] > 0
    PROVE  /\ p = <<p[1], p[2]>>
           /\ p[2] \in DOMAIN Lines("vrrp", args)
           /\ ~IsDefault(p[2], Lines("vrrp", args)[p[2]])
<1> DEFINE k == "vrrp"
           object == Object(k, args)
           f == p[2]
           given == Given(args, VrrpFields)
           preempt == OnOnly(args, {"preempt"})
           primary == [j \in {i \in {"primary"} : PrimaryPlaces(args) # {}} |->
                        AddressList(args)[CHOOSE i \in PrimaryPlaces(args) : TRUE]]
<1>1. k \in Features /\ object[1] = k
    BY DEF Features, Object
<1>2. p = <<object, f>> /\ f \in Knobs(k) /\ ~IsDefault(f, c[p])
    <2>1. p[1] = object /\ LineShown(p, c[p]) /\ ~IsDefault(f, c[p])
        BY DEF RunningConfig
    <2>2. ~IsRow(p)
        BY <1>1, <2>1 DEF IsRow
    <2> HIDE DEF object
    <2> QED
        BY <1>1, <2>1, <2>2 DEF LineShown
<1>3. Lines(k, args) = Overlay(Overlay(given, preempt), primary)
    BY DEF Lines, VrrpLines
<1>4. f \in {"primary"} \cup VrrpFields
    BY <1>2 DEF Knobs
<1>5. DOMAIN preempt \subseteq {"preempt"} /\ DOMAIN primary \subseteq {"primary"}
    BY DEF OnOnly
<1>6. "preempt" \notin VrrpFields /\ "primary" \notin VrrpFields
    BY DEF VrrpFields
<1> HIDE DEF object, f, given, preempt
<1>7. CASE f \in VrrpFields
    <2>1. f \in DOMAIN args /\ args[f] = c[p]
        BY <1>2, <1>7, VrrpGiven DEF object, f
    <2>2. f \in DOMAIN given /\ given[f] = c[p]
        BY <1>7, <2>1, GivenValues DEF given
    <2>3. f \notin DOMAIN preempt /\ f \notin DOMAIN primary
        BY <1>5, <1>6, <1>7
    <2> HIDE DEF primary
    <2>4. f \in DOMAIN Lines(k, args) /\ Lines(k, args)[f] = c[p]
        BY <1>3, <2>2, <2>3, OverlayValues
    <2> QED
        BY <1>2, <2>4 DEF f, object
<1>8. CASE f = "primary"
    <2>1. PrimaryPlaces(args) # {}
        <3>1. <<object, "primary">> \in DOMAIN c
            BY <1>2, <1>8
        <3>2. VrrpAddressesFound(c, object) # <<>> => AddressList(args) = VrrpAddressesFound(c, object)
            BY VrrpGiven DEF object
        <3> QED
            BY <1>1, <3>1, <3>2, AddressPlaces
    <2>2. f \in DOMAIN primary
        BY <1>8, <2>1
    <2> HIDE DEF primary
    <2>3. f \in DOMAIN Lines(k, args)
        BY <1>3, <2>2, OverlayValues
    <2>4. f \notin DOMAIN Default
        BY <1>8 DEF Default
    <2>5. ~IsDefault(f, Lines(k, args)[f])
        BY <2>4, NeverDefault
    <2> QED
        BY <1>2, <2>3, <2>5 DEF f, object
<1> QED
    BY <1>4, <1>7, <1>8

\* the tracked objects that are found
LEMMA TracksFound ==
    ASSUME NEW c, RunningConfig(c), NEW object, object[1] = "vrrp"
    PROVE  \A name \in ShownKeys(c, object, "track") :
                \E i \in DOMAIN VrrpTracksFound(c, object) :
                    VrrpTracksFound(c, object)[i].interface = name
<1> DEFINE K == ShownKeys(c, object, "track")
           key == [name \in K |-> name]
           n == Cardinality(K)
           names == InOrder(K, key)
           row(i) == Overlay(c[<<object, "track", names[i]>>], [interface |-> names[i]])
<1>1. IsFiniteSet(K) /\ K \subseteq Int
    <2>1. "track" \in VrrpTables /\ RowKeys("track") = Int
        BY DEF VrrpTables, RowKeys
    <2> QED
        BY <2>1, TableKeys
<1>2. VrrpTracksFound(c, object) = [i \in DOMAIN names |-> row(i)]
    BY DEF VrrpTracksFound
<1>3. \A i : row(i).interface = names[i]
    BY DEF Overlay
<1> HIDE DEF K, row
<1>4. \A name \in K : key[name] = name /\ key[name] \in Int
    BY <1>1
<1>5. \A d, e \in K : key[d] = key[e] => d = e
    BY <1>4
<1> HIDE DEF key
<1>6. n \in Nat /\ names \in [1 .. n -> K] /\ Covers(names, n, K)
    BY <1>1, <1>4, <1>5, InOrderSorts
<1> HIDE DEF names, n
<1>7. \A name \in K : \E i \in DOMAIN names : names[i] = name
    BY <1>6 DEF Covers
<1>8. DOMAIN VrrpTracksFound(c, object) = DOMAIN names
      /\ \A i \in DOMAIN names : VrrpTracksFound(c, object)[i].interface = names[i]
    BY <1>2, <1>3
<1> QED
    BY <1>7, <1>8 DEF K

\* A row that is shown is rendered, but for the address that is taken for the
\* primary one.
LEMMA VrrpRowBack ==
    ASSUME NEW args, DOMAIN args # {}, NEW c, RunningConfig(c), ReadBack("vrrp", args, c) = args,
           NEW p \in DOMAIN c, p[1] = Object("vrrp", args), p[2] \in VrrpTables,
           p[2] = "secondary" =>
                \/ <<p[1], "primary">> \in DOMAIN c
                \/ \E a \in ShownKeys(c, p[1], "secondary") : ~(p[3][2] <= a[2])
    PROVE  p \in DOMAIN Block("vrrp", args).set
<1> DEFINE k == "vrrp"
           object == Object(k, args)
           table == p[2]
           name == p[3]
           addresses == AddressList(args)
           S == {<<"secondary", addresses[i]>> : i \in IPv4Places(args) \ PrimaryPlaces(args)}
           V == {<<"ipv6", addresses[i]>> : i \in DOMAIN addresses \ IPv4Places(args)}
           T == {<<"track", t.interface>> : t \in Items(args, "tracks")}
<1>1. k \in OneObjectKinds /\ object[1] = k
    BY DEF OneObjectKinds, MergeKinds, Object
<1> HIDE DEF object
<1>2. p = <<object, table, name>> /\ name \in ShownKeys(c, object, table)
    BY <1>1, TableKeys DEF object
<1>3. DOMAIN Rows(k, args) = S \cup V \cup T
    BY DEF Rows, VrrpRows
<1>4. /\ VrrpAddressesFound(c, object) # <<>> => addresses = VrrpAddressesFound(c, object)
      /\ VrrpTracksFound(c, object) # <<>> =>
            Has(args, "tracks") /\ args.tracks = VrrpTracksFound(c, object)
    BY VrrpGiven DEF object
<1> HIDE DEF addresses, name, table
<1>5. <<table, name>> \in S \cup V \cup T => p \in DOMAIN Block(k, args).set
    <2> SUFFICES ASSUME <<table, name>> \in S \cup V \cup T
                 PROVE  p \in DOMAIN Block(k, args).set
        OBVIOUS
    <2>1. <<table, name>> \in DOMAIN Rows(k, args)
        BY <1>3
    <2>2. <<Object(k, args), table, name>> \in DOMAIN Block(k, args).set
        BY <1>1, <2>1, OneRowIsSet
    <2> QED
        BY <1>2, <2>2 DEF object
<1>6. CASE table = "secondary"
    <2>1. \/ <<object, "primary">> \in DOMAIN c
          \/ \E a \in ShownKeys(c, object, "secondary") : ~(name[2] <= a[2])
        BY <1>6 DEF object, name, table
    <2>2. PlacedAsSecondary(args, name)
        BY <1>1, <1>2, <1>4, <1>6, <2>1, AddressPlaces DEF addresses
    <2>3. <<"secondary", name>> \in S
        BY <2>2 DEF PlacedAsSecondary, addresses
    <2> QED
        BY <1>5, <1>6, <2>3
<1>7. CASE table = "ipv6"
    <2>1. PlacedAsIPv6(args, name)
        <3>1. VrrpAddressesFound(c, object) # <<>> =>
                AddressList(args) = VrrpAddressesFound(c, object)
            BY <1>4 DEF addresses
        <3> QED
            BY <1>1, <1>2, <1>7, <3>1, AddressPlaces
    <2>2. <<"ipv6", name>> \in V
        BY <2>1 DEF PlacedAsIPv6, addresses
    <2> QED
        BY <1>5, <1>7, <2>2
<1>8. CASE table = "track"
    <2> DEFINE found == VrrpTracksFound(c, object)
    <2>1. PICK i \in DOMAIN found : found[i].interface = name
        BY <1>1, <1>2, <1>8, TracksFound
    <2> HIDE DEF found
    <2>2. found # <<>>
        BY <2>1
    <2>3. found[i] \in Items(args, "tracks")
        BY <1>4, <2>1, <2>2 DEF Items, found
    <2>4. <<"track", name>> \in T
        BY <2>1, <2>3
    <2> QED
        BY <1>5, <1>8, <2>4
<1> QED
    BY <1>6, <1>7, <1>8 DEF VrrpTables, table

LEMMA VrrpBack ==
    ASSUME NEW args, DOMAIN args # {}, NEW c, RunningConfig(c), ReadBack("vrrp", args, c) = args,
           NEW p \in DOMAIN c, p[1] = Object("vrrp", args),
           p[2] # "preempt", p[2] = "preemptDelayMinimum" => c[p] > 0,
           p[2] = "secondary" =>
                \/ <<p[1], "primary">> \in DOMAIN c
                \/ \E a \in ShownKeys(c, p[1], "secondary") : ~(p[3][2] <= a[2])
    PROVE  p \in DOMAIN Block("vrrp", args).set /\ ~IsDefault(p[2], Block("vrrp", args).set[p])
<1> DEFINE k == "vrrp"
           set == Block(k, args).set
<1>1. CASE p[2] \in VrrpTables
    <2>1. p \in DOMAIN set
        BY <1>1, VrrpRowBack
    <2>2. p[2] \notin DOMAIN Default
        BY <1>1 DEF VrrpTables, Default
    <2> HIDE DEF set
    <2>3. ~IsDefault(p[2], set[p])
        BY <2>2, NeverDefault
    <2> QED
        BY <2>1, <2>3 DEF set
<1>2. CASE p[2] \notin VrrpTables
    <2>1. /\ p = <<Object(k, args), p[2]>> /\ p[2] \in DOMAIN Lines(k, args)
          /\ ~IsDefault(p[2], Lines(k, args)[p[2]])
        BY <1>2, VrrpLineBack
    <2>2. \A row \in DOMAIN Rows(k, args) : row[1] # p[2]
        <3>1. \A row \in DOMAIN Rows(k, args) : row[1] \in VrrpTables
            BY DEF Rows, VrrpRows, VrrpTables
        <3> QED
            BY <1>2, <3>1
    <2>3. k \in OneObjectKinds
        BY DEF OneObjectKinds, MergeKinds
    <2> DEFINE q == <<Object(k, args), p[2]>>
    <2>4. q \in DOMAIN set /\ set[q] = Lines(k, args)[p[2]]
        BY <2>1, <2>2, <2>3, OneLineIsSet
    <2> HIDE DEF set, q
    <2>5. p = q
        BY <2>1 DEF q
    <2> QED
        BY <2>1, <2>4, <2>5 DEF set
<1> QED
    BY <1>1, <1>2

-----------------------------------------------------------------------------
(***************************************************************************)
(* From what the inputs render to what they want.                          *)
(***************************************************************************)
\* the one object of a kind, and the kinds without rows
LEMMA OneObject ==
    ASSUME NEW k \in OneObjectKinds, NEW args
    PROVE  Objects(k, args) = {Object(k, args)} /\ Object(k, args)[1] = k
BY ByKind DEF Object

LEMMA KindWithoutRows ==
    ASSUME NEW k, k \notin {"vxlanInterface", "vrrp", "routerBgp", "routerOspf"}, NEW args
    PROVE  \A row \in DOMAIN Rows(k, args) : FALSE
<1>1. Rows(k, args) = Nothing
    BY DEF Rows
<1> QED
    BY <1>1, NothingDomain

\* A line of a running configuration that the inputs render is wanted.
LEMMA LineIsWanted ==
    ASSUME NEW k \in OneObjectKinds, NEW args, NEW c, RunningConfig(c), NEW p \in DOMAIN c,
           p = <<Object(k, args), p[2]>>,
           p[2] \in DOMAIN Lines(k, args), Lines(k, args)[p[2]] = c[p],
           \A row \in DOMAIN Rows(k, args) : row[1] # p[2]
    PROVE  p \in DOMAIN Wanted(k, args) /\ Wanted(k, args)[p] = c[p]
<1> DEFINE set == Block(k, args).set
           q == <<Object(k, args), p[2]>>
<1>1. q \in DOMAIN set /\ set[q] = Lines(k, args)[p[2]]
    BY OneLineIsSet
<1>2. p = q
    OBVIOUS
<1> HIDE DEF set, q
<1>3. p \in DOMAIN set /\ set[p] = c[p]
    BY <1>1, <1>2
<1>4. ~IsDefault(p[2], c[p])
    BY DEF RunningConfig
<1>5. p[1] \in Objects(k, args)
    BY OneObject
<1> QED
    BY <1>3, <1>4, <1>5, SetIsWanted DEF set

\* the inputs of these kinds render every line that the device shows
LEMMA LinesBack ==
    ASSUME NEW k \in OverlaidWhole \ {"vxlanInterface", "vrf"}, NEW args, DOMAIN args # {},
           NEW c, RunningConfig(c), ReadBack(k, args, c) = args,
           NEW p \in DOMAIN c, p[1] = Object(k, args),
           k \in {"interface", "portChannel"} /\ p[2] = "switchportMode" =>
                <<p[1], "routed">> \notin DOMAIN c
    PROVE  p[2] \in DOMAIN Lines(k, args) /\ Lines(k, args)[p[2]] = c[p]
<1>1. CASE k \in {"interface", "portChannel"}
    BY <1>1, PortBack
<1>2. CASE k \in {"vlanInterface", "greTunnel"}
    BY <1>2, FieldsAndFlagsBack
<1>3. CASE k \in {"loopback", "subinterface"}
    BY <1>3, LoopbackBack
<1>4. CASE k = "stp"
    BY <1>4, StpBack
<1>5. CASE k = "evpnEthernetSegment"
    BY <1>5, EvpnBack
<1>6. CASE k = "bfd"
    BY <1>6, BfdBack
<1> QED
    BY <1>1, <1>2, <1>3, <1>4, <1>5, <1>6 DEF OverlaidWhole

LEMMA VxlanBack ==
    ASSUME NEW args, DOMAIN args # {}, NEW c, RunningConfig(c),
           ReadBack("vxlanInterface", args, c) = args,
           NEW p \in DOMAIN c, p[1] = Object("vxlanInterface", args)
    PROVE  p \in DOMAIN Wanted("vxlanInterface", args) /\ Wanted("vxlanInterface", args)[p] = c[p]
<1> DEFINE k == "vxlanInterface"
<1>1. k \in OneObjectKinds
    BY DEF OneObjectKinds, MergeKinds
<1>2. ~IsDefault(p[2], c[p])
    BY DEF RunningConfig
<1>3. p[1] \in Objects(k, args)
    BY <1>1, OneObject
<1>4. CASE p[2] \in VniTables
    <2>1. p \in DOMAIN Block(k, args).set /\ Block(k, args).set[p] = c[p]
        BY <1>4, VxlanRowBack
    <2> QED
        BY <1>2, <1>3, <2>1, SetIsWanted
<1>5. CASE p[2] \notin VniTables
    <2>1. p = <<p[1], p[2]>> /\ p[2] \in DOMAIN Lines(k, args) /\ Lines(k, args)[p[2]] = c[p]
        BY <1>5, VxlanLineBack
    <2>2. \A row \in DOMAIN Rows(k, args) : row[1] # p[2]
        BY <1>5, VxlanTables
    <2>3. p = <<Object(k, args), p[2]>>
        BY <2>1
    <2> QED
        BY <1>1, <2>1, <2>2, <2>3, LineIsWanted
<1> QED
    BY <1>4, <1>5

\* no VRF on the device has a name that starts with the name of this one
NoLongerNamed(args, c) ==
    IsAList(LongerNames(args.name))
        /\ \A name \in ToSet(LongerNames(args.name)) : ~Exists(c, VrfObject(name))

\* no route of a shorter distance is there that Read would take for this one
NoNearer(args, c) == \A d \in 1 .. Or(args, "distance", 1) - 1 : ~Exists(c, RouteOf(args, d))

LEMMA OverlaidWholeBack ==
    ASSUME NEW k \in OverlaidWhole, NEW args, DOMAIN args # {},
           k = "vrf" => "name" \in DOMAIN args,
           NEW c, RunningConfig(c), ReadBack(k, args, c) = args,
           k = "vrf" => NoLongerNamed(args, c),
           NEW p \in DOMAIN c, p[1] \in Objects(k, args),
           k \in {"interface", "portChannel"} /\ p[2] = "switchportMode" =>
                <<p[1], "routed">> \notin DOMAIN c
    PROVE  p \in DOMAIN Wanted(k, args) /\ Wanted(k, args)[p] = c[p]
<1>1. k \in OneObjectKinds /\ k \in Features
    BY DEF OverlaidWhole, OneObjectKinds, MergeKinds, RebuildKinds, Features
<1>2. p[1] = Object(k, args) /\ p[1][1] = k
    BY <1>1, OneObject
<1>3. CASE k = "vxlanInterface"
    BY <1>2, <1>3, VxlanBack
<1>4. CASE k # "vxlanInterface"
    <2>1. p[2] \in DOMAIN Lines(k, args) /\ Lines(k, args)[p[2]] = c[p]
        <3>1. CASE k = "vrf"
            BY <1>2, <3>1, VrfBack DEF NoLongerNamed
        <3>2. CASE k # "vrf"
            BY <1>2, <1>4, <3>2, LinesBack
        <3> QED
            BY <3>1, <3>2
    <2>2. \A row \in DOMAIN Rows(k, args) : FALSE
        <3>1. k \notin {"vxlanInterface", "vrrp", "routerBgp", "routerOspf"}
            BY <1>4 DEF OverlaidWhole
        <3> QED
            BY <1>1, <3>1, KindWithoutRows
    <2>3. p = <<Object(k, args), p[2]>>
        <3>1. k # "vrrp"
            BY DEF OverlaidWhole
        <3> QED
            BY <1>1, <1>2, <1>4, <3>1, LinesOf
    <2> QED
        BY <1>1, <2>1, <2>2, <2>3, LineIsWanted
<1> QED
    BY <1>3, <1>4

LEMMA OverlaidInPartBack ==
    ASSUME NEW k \in OverlaidInPart, NEW args, DOMAIN args # {},
           NEW c, RunningConfig(c), ReadBack(k, args, c) = args,
           k = "staticRoute" => NoNearer(args, c),
           NEW p \in DOMAIN c, p[1] \in Objects(k, args),
           k = "mlag" /\ p[2] \in {"primaryPriority", "reloadMlag", "reloadNonMlag"} => c[p] > 0,
           k = "vrrp" =>
                /\ p[2] # "preempt"
                /\ p[2] = "preemptDelayMinimum" => c[p] > 0
                /\ p[2] = "secondary" =>
                    \/ <<p[1], "primary">> \in DOMAIN c
                    \/ \E a \in ShownKeys(c, p[1], "secondary") : ~(p[3][2] <= a[2])
    PROVE  p \in DOMAIN Wanted(k, args)
<1> DEFINE set == Block(k, args).set
<1>1. p \in DOMAIN set /\ ~IsDefault(p[2], set[p])
    <2>1. CASE k = "mlag"
        <3>1. p[1] = MlagObject
            BY <2>1, ByKind DEF MlagObjects
        <3> QED
            BY <2>1, <3>1, MlagBack
    <2>2. CASE k = "staticRoute"
        <3>1. p[1] \in RouteObjects(args)
            BY <2>2, ByKind
        <3> QED
            BY <2>2, <3>1, RouteBack DEF NoNearer
    <2>3. CASE k = "prefixList"
        <3>1. p[1] = ListObject(k, args)
            BY <2>3, ByKind DEF ListKinds
        <3> QED
            BY <2>3, <3>1, PrefixListBack
    <2>4. CASE k = "rpki"
        <3>1. k \in OneObjectKinds /\ k \in Features
            BY <2>4 DEF OneObjectKinds, MergeKinds, Features
        <3>2. p[1] = Object(k, args) /\ p[1][1] = k
            BY <3>1, OneObject
        <3>3. p[2] \in DOMAIN Lines(k, args) /\ p[2] \notin DOMAIN Default
            BY <2>4, <3>2, RpkiBack
        <3>4. \A row \in DOMAIN Rows(k, args) : FALSE
            <4>1. k \notin {"vxlanInterface", "vrrp", "routerBgp", "routerOspf"}
                BY <2>4
            <4> QED
                BY <3>1, <4>1, KindWithoutRows
        <3>5. p = <<Object(k, args), p[2]>>
            BY <2>4, <3>1, <3>2, LinesOf
        <3>6. p \in DOMAIN set
            BY <3>1, <3>3, <3>4, <3>5, OneLineIsSet
        <3> QED
            BY <3>3, <3>6, NeverDefault
    <2>5. CASE k = "vrrp"
        <3>1. k \in OneObjectKinds
            BY <2>5 DEF OneObjectKinds, MergeKinds
        <3>2. p[1] = Object(k, args)
            BY <3>1, OneObject
        <3> QED
            BY <2>5, <3>2, VrrpBack
    <2> QED
        BY <2>1, <2>2, <2>3, <2>4, <2>5 DEF OverlaidInPart
<1> QED
    BY <1>1, SetIsWanted

LEMMA AddedKnobSeen ==
    ASSUME LifeInv, recorded # Nothing, kind \in OverlaidWhole \cup OverlaidInPart,
           OnItsOwn(recorded.inputs), RefreshShowsNoDiff,
           NEW p \in DOMAIN config, p[1] \in Objects(kind, recorded.inputs), ~Untold(p)
    PROVE  LET wanted == Wanted(kind, recorded.inputs)
           IN  p \in DOMAIN wanted /\ (kind \in OverlaidWhole => config[p] = wanted[p])
<1> DEFINE args == recorded.inputs
<1>1. /\ kind \in AllKinds /\ kind \in Kinds
      /\ DOMAIN args # {} /\ Required(kind) \subseteq DOMAIN args
      /\ kind # "vxlanInterface" => args \in Inputs(kind)
      /\ RunningConfig(config)
    BY RecordedInputs DEF LifeInv, LifeTypeOK, DeviceTypeOK
<1>2. ReadBack(kind, args, config) = args
    BY DEF RefreshShowsNoDiff
<1>3. CASE kind \in OverlaidWhole
    <2>1. kind = "vrf" => "name" \in DOMAIN args
        <3> SUFFICES ASSUME kind = "vrf"
                     PROVE  "name" \in DOMAIN args
            OBVIOUS
        <3>1. kind \in OneObjectKinds /\ Identity(kind) = {"name"}
            BY DEF OneObjectKinds, MergeKinds, Identity
        <3>2. Required(kind) = {"name"} \ {"vrf"}
            BY <1>1, <3>1, RequiredByKind
        <3> QED
            BY <1>1, <3>2
    <2>2. kind = "vrf" => NoLongerNamed(args, config)
        BY <1>1, InputsAssumption DEF WellTyped, OnItsOwn, NoLongerNamed
    <2>3. kind \in {"interface", "portChannel"} /\ p[2] = "switchportMode" =>
            <<p[1], "routed">> \notin DOMAIN config
        BY DEF Untold
    <2> HIDE DEF args
    <2>4. p \in DOMAIN Wanted(kind, args) /\ Wanted(kind, args)[p] = config[p]
        BY <1>1, <1>2, <1>3, <2>1, <2>2, <2>3, OverlaidWholeBack DEF args
    <2> QED
        BY <2>4 DEF args
<1>4. CASE kind \in OverlaidInPart
    <2>1. kind = "staticRoute" => NoNearer(args, config)
        BY DEF OnItsOwn, NoNearer
    <2>2. kind = "mlag" /\ p[2] \in {"primaryPriority", "reloadMlag", "reloadNonMlag"} =>
            config[p] > 0
        BY DEF Untold
    <2>3. kind = "vrrp" =>
            /\ p[2] # "preempt"
            /\ p[2] = "preemptDelayMinimum" => config[p] > 0
            /\ p[2] = "secondary" =>
                \/ <<p[1], "primary">> \in DOMAIN config
                \/ \E a \in ShownKeys(config, p[1], "secondary") : ~(p[3][2] <= a[2])
        BY DEF Untold
    <2>4. kind \notin OverlaidWhole
        BY <1>4 DEF OverlaidWhole, OverlaidInPart
    <2> HIDE DEF args
    <2>5. p \in DOMAIN Wanted(kind, args)
        BY <1>1, <1>2, <1>4, <2>1, <2>2, <2>3, OverlaidInPartBack DEF args
    <2> QED
        BY <2>4, <2>5 DEF args
<1> QED
    BY <1>3, <1>4

\* A refresh that shows no difference has not passed over a line that somebody
\* added under the resource, nor, for the kinds whose knobs are read whole, one
\* whose value somebody changed.
THEOREM AddedKnobAlwaysReported == LifeSpec => []AddedKnobReported
<1>1. LifeInv => AddedKnobReported
    <2> SUFFICES ASSUME LifeInv, recorded # Nothing,
                        kind \in OverlaidWhole \cup OverlaidInPart,
                        OnItsOwn(recorded.inputs), RefreshShowsNoDiff,
                        NEW p \in DOMAIN Part(config, Objects(kind, recorded.inputs)), ~Untold(p)
                 PROVE  LET held == Part(config, Objects(kind, recorded.inputs))
                            wanted == Wanted(kind, recorded.inputs)
                        IN  p \in DOMAIN wanted
                            /\ (kind \in OverlaidWhole => held[p] = wanted[p])
        BY DEF AddedKnobReported
    <2>1. /\ p \in DOMAIN config /\ p[1] \in Objects(kind, recorded.inputs)
          /\ Part(config, Objects(kind, recorded.inputs))[p] = config[p]
        BY DEF Part
    <2> QED
        BY <2>1, AddedKnobSeen
<1> QED
    BY <1>1, LifeInvHolds, PTL
=============================================================================
