--------------------------- MODULE RoundTripProofs ---------------------------
(***************************************************************************)
(* Proofs about what is read back of a device that is as the inputs say:   *)
(* explicit inputs come back as they were given, for every kind.  Each     *)
(* kind has a lemma, under what its inputs have to say; with an invariant  *)
(* about the recorded inputs, a refresh after an apply shows no diff.      *)
(***************************************************************************)
EXTENDS AddedKnobProofs

-----------------------------------------------------------------------------
(***************************************************************************)
(* A device in sync shows the lines of the block.                          *)
(***************************************************************************)
LEMMA SyncedLines ==
    ASSUME NEW k, NEW args, NEW c, InSync(k, args, c),
           NEW set, Block(k, args).set = set, NEW p, p[1] \in Objects(k, args)
    PROVE  /\ p \in DOMAIN c <=> p \in DOMAIN set /\ ~IsDefault(p[2], set[p])
           /\ p \in DOMAIN c => c[p] = set[p]
<1> DEFINE d == Exec(Empty, Block(k, args))
           objects == Objects(k, args)
<1>1. p \in DOMAIN d <=> p \in DOMAIN set /\ ~IsDefault(p[2], set[p])
    <2>1. DOMAIN Empty = {}
        BY DEF Empty
    <2> QED
        BY <2>1, ExecDomain
<1>2. p \in DOMAIN d => d[p] = set[p]
    BY <1>1, ExecValues
<1>3. Part(c, objects) = Part(d, objects)
    BY DEF InSync, Wanted
<1> HIDE DEF d
<1>4. \A f : /\ p \in DOMAIN Part(f, objects) <=> p \in DOMAIN f
             /\ p \in DOMAIN f => Part(f, objects)[p] = f[p]
    BY DEF Part
<1>5. p \in DOMAIN c <=> p \in DOMAIN d
    BY <1>3, <1>4
<1>6. p \in DOMAIN c => c[p] = d[p]
    BY <1>3, <1>4, <1>5
<1> QED
    BY <1>1, <1>2, <1>5, <1>6

\* The lines under an object are just these, but for those with the value that
\* EOS assumes.
ShowsLines(c, object, lines) ==
    \A f : /\ <<object, f>> \in DOMAIN c <=> f \in DOMAIN lines /\ ~IsDefault(f, lines[f])
           /\ <<object, f>> \in DOMAIN c => c[<<object, f>>] = lines[f]

LEMMA SyncedUnder ==
    ASSUME NEW k, NEW args, NEW c, InSync(k, args, c), NEW object, object \in Objects(k, args),
           NEW lines, Block(k, args).set = Under(object, lines)
    PROVE  ShowsLines(c, object, lines)
<1> SUFFICES ASSUME NEW f
             PROVE  LET p == <<object, f>>
                    IN  /\ p \in DOMAIN c <=> f \in DOMAIN lines /\ ~IsDefault(f, lines[f])
                        /\ p \in DOMAIN c => c[p] = lines[f]
    BY DEF ShowsLines
<1> DEFINE p == <<object, f>>
<1>1. /\ p \in DOMAIN Under(object, lines) <=> f \in DOMAIN lines
      /\ f \in DOMAIN lines => Under(object, lines)[p] = lines[f]
    BY DEF Under
<1>2. p[1] = object /\ p[2] = f
    OBVIOUS
<1> HIDE DEF p
<1>3. /\ p \in DOMAIN c <=> p \in DOMAIN Under(object, lines)
                            /\ ~IsDefault(p[2], Under(object, lines)[p])
      /\ p \in DOMAIN c => c[p] = Under(object, lines)[p]
    BY <1>2, SyncedLines
<1> QED
    BY <1>1, <1>2, <1>3 DEF p

LEMMA SyncedOne ==
    ASSUME NEW k \in OneObjectKinds, NEW args, Object(k, args) \notin Entered(k, args),
           NEW c, InSync(k, args, c)
    PROVE  ShowsLines(c, Object(k, args), Lines(k, args))
<1> DEFINE object == Object(k, args)
           lines == Lines(k, args)
           H == Headers(Entered(k, args))
           U == Under(object, lines)
           R == RowsUnder(object, Rows(k, args))
           set == Overlay(Overlay(H, U), R)
<1> SUFFICES ASSUME NEW f
             PROVE  LET p == <<object, f>>
                    IN  /\ p \in DOMAIN c <=> f \in DOMAIN lines /\ ~IsDefault(f, lines[f])
                        /\ p \in DOMAIN c => c[p] = lines[f]
    BY DEF ShowsLines
<1> DEFINE p == <<object, f>>
<1>1. Block(k, args).set = set
    BY OneBlockSet
<1>2. p \notin DOMAIN R
    BY DEF RowsUnder
<1>3. p \notin DOMAIN H
    <2>1. \A q \in DOMAIN H : q[1] \in Entered(k, args)
        BY DEF Headers
    <2>2. p[1] = object
        OBVIOUS
    <2> HIDE DEF p, H
    <2> QED
        BY <2>1, <2>2
<1>4. /\ p \in DOMAIN U <=> f \in DOMAIN lines
      /\ f \in DOMAIN lines => U[p] = lines[f]
    BY DEF Under
<1>5. p[1] = object /\ p[2] = f
    OBVIOUS
<1>6. Objects(k, args) = {object}
    BY OneObject
<1> HIDE DEF H, U, R, p, lines, object
<1>7. /\ p \in DOMAIN set <=> f \in DOMAIN lines
      /\ f \in DOMAIN lines => set[p] = lines[f]
    BY <1>2, <1>3, <1>4 DEF Overlay
<1> HIDE DEF set
<1>8. /\ p \in DOMAIN c <=> p \in DOMAIN set /\ ~IsDefault(p[2], set[p])
      /\ p \in DOMAIN c => c[p] = set[p]
    BY <1>1, <1>5, <1>6, SyncedLines
<1> QED
    BY <1>5, <1>7, <1>8 DEF p

\* The same for the rows of a table.
ShowsRows(c, object, table, rows) ==
    /\ \A key : <<object, table, key>> \in DOMAIN c <=> <<table, key>> \in DOMAIN rows
    /\ \A key : <<table, key>> \in DOMAIN rows =>
            c[<<object, table, key>>] = rows[<<table, key>>]

LEMMA SyncedRows ==
    ASSUME NEW k \in OneObjectKinds, NEW args,
           NEW c, InSync(k, args, c), NEW table, table \notin DOMAIN Default,
           \A r \in DOMAIN Rows(k, args) : r = <<r[1], r[2]>>
    PROVE  ShowsRows(c, Object(k, args), table, Rows(k, args))
<1> DEFINE object == Object(k, args)
           rows == Rows(k, args)
           L == Overlay(Headers(Entered(k, args)), Under(object, Lines(k, args)))
           R == RowsUnder(object, rows)
           set == Overlay(L, R)
<1> SUFFICES ASSUME NEW key
             PROVE  LET p == <<object, table, key>>
                    IN  /\ p \in DOMAIN c <=> <<table, key>> \in DOMAIN rows
                        /\ <<table, key>> \in DOMAIN rows => c[p] = rows[<<table, key>>]
    BY DEF ShowsRows
<1> DEFINE p == <<object, table, key>>
<1>1. Block(k, args).set = set
    BY OneBlockSet
<1>2. p \notin DOMAIN L
    <2>1. \A q \in DOMAIN L : \E o, f : q = <<o, f>>
        BY DEF Headers, Under, Overlay
    <2>2. \A o, f : p # <<o, f>>
        OBVIOUS
    <2> HIDE DEF p, L
    <2> QED
        BY <2>1, <2>2
<1>3. p \in DOMAIN R <=> <<table, key>> \in DOMAIN rows
    <2>1. ASSUME p \in DOMAIN R
          PROVE  <<table, key>> \in DOMAIN rows
        <3> HIDE DEF rows
        <3>1. PICK r \in DOMAIN rows : p = <<object, r[1], r[2]>>
            BY <2>1 DEF RowsUnder
        <3>2. table = r[1] /\ key = r[2]
            BY <3>1
        <3>3. r = <<r[1], r[2]>>
            BY <3>1 DEF rows
        <3> QED
            BY <3>1, <3>2, <3>3
    <2>2. ASSUME <<table, key>> \in DOMAIN rows
          PROVE  p \in DOMAIN R
        <3> HIDE DEF rows, object
        <3>1. p \in {<<object, r[1], r[2]>> : r \in DOMAIN rows}
            BY <2>2
        <3> QED
            BY <3>1 DEF RowsUnder
    <2> QED
        BY <2>1, <2>2
<1>4. p \in DOMAIN R => R[p] = rows[<<table, key>>]
    BY DEF RowsUnder
<1>5. p[1] = object /\ p[2] = table
    OBVIOUS
<1>6. Objects(k, args) = {object}
    BY OneObject
<1> HIDE DEF L, R, p, rows, object
<1>7. /\ p \in DOMAIN set <=> p \in DOMAIN R
      /\ p \in DOMAIN R => set[p] = R[p]
    BY <1>2 DEF Overlay
<1> HIDE DEF set
<1>8. /\ p \in DOMAIN c <=> p \in DOMAIN set /\ ~IsDefault(p[2], set[p])
      /\ p \in DOMAIN c => c[p] = set[p]
    BY <1>1, <1>5, <1>6, SyncedLines
<1>9. ~IsDefault(p[2], set[p])
    BY <1>5, NeverDefault
<1> QED
    BY <1>3, <1>4, <1>7, <1>8, <1>9 DEF p

-----------------------------------------------------------------------------
(***************************************************************************)
(* What is found where a device shows some lines.                          *)
(***************************************************************************)
LEMMA ReadsSame ==
    ASSUME NEW args, IsAFunction(args), NEW base, NEW found,
           \A f \in DOMAIN base : f \in DOMAIN args /\ base[f] = args[f],
           \A f \in DOMAIN found : f \in DOMAIN args /\ found[f] = args[f],
           \A f \in DOMAIN args : f \in DOMAIN base \/ f \in DOMAIN found
    PROVE  Overlay(base, found) = args
<1>1. DOMAIN base \cup DOMAIN found = DOMAIN args
    OBVIOUS
<1>2. Overlay(base, found) = [f \in DOMAIN args |-> IF f \in DOMAIN found THEN found[f] ELSE base[f]]
    BY <1>1 DEF Overlay
<1>3. \A f \in DOMAIN args : (IF f \in DOMAIN found THEN found[f] ELSE base[f]) = args[f]
    OBVIOUS
<1>4. Overlay(base, found) = [f \in DOMAIN args |-> args[f]]
    BY <1>2, <1>3
<1> QED
    BY <1>4 DEF IsAFunction

LEMMA OneReadsSame ==
    ASSUME NEW k \in OneObjectKinds, NEW args, IsAFunction(args), NEW c, ~Missing(k, args, c),
           NEW found, Found(k, args, c) = found,
           \A f \in DOMAIN found : f \in DOMAIN args /\ found[f] = args[f],
           k \in {"interface", "portChannel"} =>
                \A f \in DOMAIN args : f \in SwitchportFields => f \in DOMAIN found
    PROVE  ReadBack(k, args, c) = args
<1> DEFINE base == Base(k, args)
<1>1. ReadBack(k, args, c) = Overlay(base, found)
    BY ReadByKind DEF OneRead
<1>2. \A f \in DOMAIN base : f \in DOMAIN args /\ base[f] = args[f]
    BY DEF Base, Without
<1>3. \A f \in DOMAIN args : f \in DOMAIN base \/ f \in DOMAIN found
    BY DEF Base, Without
<1> HIDE DEF base
<1> QED
    BY <1>1, <1>2, <1>3, ReadsSame

-----------------------------------------------------------------------------
(***************************************************************************)
(* The kinds of one object whose lines are fields and flags.               *)
(***************************************************************************)
\* a device that is as inputs of their Go types say
AsGiven(k, args, c) ==
    /\ InSync(k, args, c)
    /\ WellTyped(k, args) /\ Decoded(k, args)
    /\ k \in OneObjectKinds => Object(k, args) \notin Entered(k, args)

LEMMA OneShowsLines ==
    ASSUME NEW k \in OneObjectKinds, NEW args, NEW c, AsGiven(k, args, c),
           NEW lines, Lines(k, args) = lines
    PROVE  ShowsLines(c, Object(k, args), lines) /\ IsAFunction(args)
<1>1. InSync(k, args, c) /\ Object(k, args) \notin Entered(k, args) /\ IsAFunction(args)
    BY DEF AsGiven, Decoded
<1> QED
    BY <1>1, SyncedOne

LEMMA ShownBack ==
    ASSUME NEW c, NEW object, NEW lines, ShowsLines(c, object, lines), NEW knobs
    PROVE  /\ \A f : f \in DOMAIN Shown(c, object, knobs) <=>
                        f \in knobs /\ f \in DOMAIN lines /\ ~IsDefault(f, lines[f])
           /\ \A f \in DOMAIN Shown(c, object, knobs) : Shown(c, object, knobs)[f] = lines[f]
<1> DEFINE shown == Shown(c, object, knobs)
<1>1. /\ \A f : f \in DOMAIN shown <=> f \in knobs /\ <<object, f>> \in DOMAIN c
      /\ \A f \in DOMAIN shown : shown[f] = c[<<object, f>>]
    BY ShownValues
<1> HIDE DEF shown
<1>2. ASSUME NEW f
      PROVE  /\ <<object, f>> \in DOMAIN c <=> f \in DOMAIN lines /\ ~IsDefault(f, lines[f])
             /\ <<object, f>> \in DOMAIN c => c[<<object, f>>] = lines[f]
    BY DEF ShowsLines
<1>3. \A f : f \in DOMAIN shown <=> f \in knobs /\ f \in DOMAIN lines /\ ~IsDefault(f, lines[f])
    BY <1>1, <1>2
<1>4. \A f \in DOMAIN shown : shown[f] = lines[f]
    BY <1>1, <1>2
<1> QED
    BY <1>3, <1>4 DEF shown

\* what is given of some fields, or of some flags, is so in the inputs
LEMMA GivenFrom ==
    ASSUME NEW args, NEW fields
    PROVE  \A f \in DOMAIN Given(args, fields) :
                f \in fields /\ f \in DOMAIN args /\ Given(args, fields)[f] = args[f]
BY DEF Given

LEMMA OnOnlyFrom ==
    ASSUME NEW args, NEW flags
    PROVE  \A f \in DOMAIN OnOnly(args, flags) :
                f \in flags /\ f \in DOMAIN args /\ args[f] /\ OnOnly(args, flags)[f] = TRUE
BY DEF OnOnly

LEMMA OverlayFrom ==
    ASSUME NEW a, NEW b
    PROVE  \A f \in DOMAIN Overlay(a, b) :
                \/ f \in DOMAIN b /\ Overlay(a, b)[f] = b[f]
                \/ f \in DOMAIN a /\ f \notin DOMAIN b /\ Overlay(a, b)[f] = a[f]
BY DEF Overlay

\* Read finds what is shown of the lines, and these are fields of the inputs.
LEMMA ShownReadsSame ==
    ASSUME NEW k \in OneObjectKinds, k \notin {"interface", "portChannel"},
           NEW args, NEW c, AsGiven(k, args, c), ~Missing(k, args, c),
           NEW knobs, Found(k, args, c) = Shown(c, Object(k, args), knobs),
           NEW lines, Lines(k, args) = lines,
           \A f \in DOMAIN lines : f \in knobs /\ ~IsDefault(f, lines[f]) =>
                f \in DOMAIN args /\ args[f] = lines[f]
    PROVE  ReadBack(k, args, c) = args
<1> DEFINE found == Shown(c, Object(k, args), knobs)
<1>1. ShowsLines(c, Object(k, args), lines) /\ IsAFunction(args)
    BY OneShowsLines
<1>2. \A f \in DOMAIN found : f \in DOMAIN args /\ found[f] = args[f]
    BY <1>1, ShownBack
<1> HIDE DEF found
<1> QED
    BY <1>1, <1>2, OneReadsSame DEF found

LEMMA HeaderIsThere ==
    ASSUME NEW k \in OneObjectKinds, NEW args, NEW c, AsGiven(k, args, c),
           "header" \in DOMAIN Lines(k, args)
    PROVE  Exists(c, Object(k, args))
<1>1. ShowsLines(c, Object(k, args), Lines(k, args))
    BY OneShowsLines
<1>2. \A v : ~IsDefault("header", v)
    BY DEF IsDefault, Default
<1> QED
    BY <1>1, <1>2 DEF ShowsLines, Exists

LEMMA LoopbackRoundTrip ==
    ASSUME NEW k \in {"loopback", "subinterface"}, NEW args, NEW c, AsGiven(k, args, c)
    PROVE  ReadBack(k, args, c) = args
<1> DEFINE fields == IF k = "loopback" THEN LoopbackFields ELSE SubinterfaceFields
           given == Given(args, fields)
           rest == [header |-> "on", shutdown |-> On(args, "shutdown")]
           lines == Overlay(given, rest)
<1>1. k \in OneObjectKinds
    BY DEF OneObjectKinds, MergeKinds
<1>2. Lines(k, args) = lines
    BY <1>1, ByKind DEF LoopbackLines, SubinterfaceLines, Lines
<1>3. Found(k, args, c) = Shown(c, Object(k, args), fields \cup {"shutdown"})
    BY DEF Found, LoopbackFound, SubinterfaceFound
<1>4. Missing(k, args, c) = ~Exists(c, Object(k, args))
    BY DEF Missing
<1>5. /\ DOMAIN rest = {"header", "shutdown"} /\ rest["shutdown"] = On(args, "shutdown")
      /\ "header" \notin fields
    BY DEF LoopbackFields, SubinterfaceFields
<1>6. Has(args, "shutdown") => args["shutdown"] \in BOOLEAN
    BY DEF AsGiven, Decoded, Flags
<1>7. \A f \in DOMAIN given : f \in DOMAIN args /\ given[f] = args[f]
    BY GivenFrom
<1> HIDE DEF given, fields, rest
<1>8. \A f \in DOMAIN lines :
        \/ f \in {"header", "shutdown"} /\ lines[f] = rest[f]
        \/ f \in DOMAIN args /\ lines[f] = args[f]
    BY <1>5, <1>7, OverlayFrom
<1>9. "header" \in DOMAIN lines
    BY <1>5, OverlayDomain
<1> HIDE DEF lines
<1>10. On(args, "shutdown") # FALSE => Has(args, "shutdown") /\ args["shutdown"] = On(args, "shutdown")
    BY <1>6 DEF On
<1>11. IsDefault("shutdown", FALSE)
    BY DEF IsDefault, Default
<1>12. \A f \in DOMAIN lines : f \in fields \cup {"shutdown"} /\ ~IsDefault(f, lines[f]) =>
            f \in DOMAIN args /\ args[f] = lines[f]
    BY <1>5, <1>8, <1>10, <1>11 DEF Has
<1>13. ~Missing(k, args, c)
    BY <1>1, <1>2, <1>4, <1>9, HeaderIsThere
<1> QED
    BY <1>1, <1>2, <1>3, <1>12, <1>13, ShownReadsSame

LEMMA FieldsAndFlagsRoundTrip ==
    ASSUME NEW k \in {"vlanInterface", "greTunnel"}, NEW args, NEW c, AsGiven(k, args, c)
    PROVE  ReadBack(k, args, c) = args
<1> DEFINE fields == IF k = "vlanInterface" THEN VlanInterfaceFields ELSE GreTunnelFields
           flags == IF k = "vlanInterface" THEN VlanInterfaceFlags ELSE GreTunnelFlags
           header == [header |-> "on"]
           given == Given(args, fields)
           on == OnOnly(args, flags)
           some == Overlay(header, given)
           lines == Overlay(some, on)
<1>1. k \in OneObjectKinds
    BY DEF OneObjectKinds, MergeKinds
<1>2. Lines(k, args) = lines
    BY DEF VlanInterfaceLines, GreTunnelLines, Lines
<1>3. Found(k, args, c) = Shown(c, Object(k, args), fields \cup flags)
    BY DEF Found, VlanInterfaceFound, GreTunnelFound
<1>4. Missing(k, args, c) = ~Exists(c, Object(k, args))
    BY DEF Missing
<1>5. DOMAIN header = {"header"} /\ "header" \notin fields \cup flags /\ flags \subseteq Flags
    BY DEF VlanInterfaceFields, GreTunnelFields, VlanInterfaceFlags, GreTunnelFlags, Flags
<1>6. \A f \in flags : Has(args, f) => args[f] \in BOOLEAN
    BY <1>5 DEF AsGiven, Decoded
<1>7. \A f \in DOMAIN given : f \in DOMAIN args /\ given[f] = args[f]
    BY GivenFrom
<1>8. \A f \in DOMAIN on : f \in DOMAIN args /\ on[f] = args[f]
    <2> SUFFICES ASSUME NEW f \in DOMAIN on
                 PROVE  f \in DOMAIN args /\ on[f] = args[f]
        OBVIOUS
    <2>1. f \in flags /\ f \in DOMAIN args /\ args[f] /\ on[f] = TRUE
        BY OnOnlyFrom
    <2>2. args[f] \in BOOLEAN
        BY <1>6, <2>1 DEF Has
    <2> QED
        BY <2>1, <2>2
<1> HIDE DEF given, fields, flags, header, on
<1>9. \A f \in DOMAIN some : f = "header" \/ (f \in DOMAIN args /\ some[f] = args[f])
    BY <1>5, <1>7, OverlayFrom
<1>10. "header" \in DOMAIN some
    BY <1>5, OverlayDomain
<1> HIDE DEF some
<1>11. \A f \in DOMAIN lines : f = "header" \/ (f \in DOMAIN args /\ lines[f] = args[f])
    BY <1>8, <1>9, OverlayFrom
<1>12. "header" \in DOMAIN lines
    BY <1>10, OverlayDomain
<1> HIDE DEF lines
<1>13. ~Missing(k, args, c)
    BY <1>1, <1>2, <1>4, <1>12, HeaderIsThere
<1> QED
    BY <1>1, <1>2, <1>3, <1>5, <1>11, <1>13, ShownReadsSame

-----------------------------------------------------------------------------
(***************************************************************************)
(* Ports.  The fields of the switchport are replaced by what is found.     *)
(***************************************************************************)
LEMMA SwitchportGives ==
    ASSUME NEW args, Has(args, "switchportMode") => args["switchportMode"] # ""
    PROVE  LET lines == SwitchportLines(args)
           IN  /\ \A f \in SwitchportFields \ {"switchportMode"} :
                    /\ f \in DOMAIN lines <=> f \in DOMAIN args
                    /\ f \in DOMAIN lines => lines[f] = args[f]
               /\ "switchportMode" \in DOMAIN lines <=>
                    Has(args, "switchportMode") /\ args["switchportMode"] # "routed"
               /\ "switchportMode" \in DOMAIN lines =>
                    lines["switchportMode"] = args["switchportMode"]
               /\ "routed" \in DOMAIN lines <=> Has(args, "switchportMode")
               /\ "routed" \in DOMAIN lines =>
                    lines["routed"] = (args["switchportMode"] = "routed")
               /\ DOMAIN lines \subseteq SwitchportFields \cup {"routed"}
<1> DEFINE mode == Or(args, "switchportMode", "")
           given == Given(args, SwitchportFields \ {"switchportMode"})
           modeLines == CASE mode = "" -> Nothing
                          [] mode = "routed" -> [routed |-> TRUE]
                          [] OTHER -> [routed |-> FALSE, switchportMode |-> mode]
           lines == Overlay(given, modeLines)
<1>1. SwitchportLines(args) = lines
    BY DEF SwitchportLines
<1>2. mode = IF Has(args, "switchportMode") THEN args["switchportMode"] ELSE ""
    BY DEF Or
<1>3. \A f : /\ f \in DOMAIN given <=> f \in SwitchportFields \ {"switchportMode"} /\ f \in DOMAIN args
             /\ f \in DOMAIN given => given[f] = args[f]
    BY DEF Given
<1> HIDE DEF mode, given
<1>4. /\ "routed" \in DOMAIN modeLines <=> Has(args, "switchportMode")
      /\ "routed" \in DOMAIN modeLines =>
            modeLines["routed"] = (args["switchportMode"] = "routed")
      /\ "switchportMode" \in DOMAIN modeLines <=>
            Has(args, "switchportMode") /\ args["switchportMode"] # "routed"
      /\ "switchportMode" \in DOMAIN modeLines =>
            modeLines["switchportMode"] = args["switchportMode"]
      /\ DOMAIN modeLines \subseteq {"routed", "switchportMode"}
    <2>1. CASE mode = ""
        BY <1>2, <2>1, NothingDomain
    <2>2. CASE mode = "routed"
        BY <1>2, <2>2
    <2>3. CASE mode \notin {"", "routed"}
        <3>1. modeLines = [routed |-> FALSE, switchportMode |-> mode]
            BY <2>3
        <3>2. Has(args, "switchportMode") /\ args["switchportMode"] = mode /\ mode # "routed"
            BY <1>2, <2>3
        <3> QED
            BY <3>1, <3>2
    <2> QED
        BY <2>1, <2>2, <2>3
<1> HIDE DEF modeLines
<1>5. \A f : /\ f \in DOMAIN lines <=> f \in DOMAIN given \/ f \in DOMAIN modeLines
             /\ f \in DOMAIN modeLines => lines[f] = modeLines[f]
             /\ f \in DOMAIN given /\ f \notin DOMAIN modeLines => lines[f] = given[f]
    BY DEF Overlay
<1> HIDE DEF lines
<1>6. "switchportMode" \in SwitchportFields /\ "routed" \notin SwitchportFields
    BY DEF SwitchportFields
<1>7. \A f \in SwitchportFields \ {"switchportMode"} :
        /\ f \in DOMAIN lines <=> f \in DOMAIN args
        /\ f \in DOMAIN lines => lines[f] = args[f]
    <2> SUFFICES ASSUME NEW f \in SwitchportFields \ {"switchportMode"}
                 PROVE  /\ f \in DOMAIN lines <=> f \in DOMAIN args
                        /\ f \in DOMAIN lines => lines[f] = args[f]
        OBVIOUS
    <2>1. f \notin DOMAIN modeLines
        BY <1>4, <1>6
    <2> QED
        BY <1>3, <1>5, <2>1
<1>8. \A f \in {"switchportMode", "routed"} :
        /\ f \in DOMAIN lines <=> f \in DOMAIN modeLines
        /\ f \in DOMAIN lines => lines[f] = modeLines[f]
    BY <1>3, <1>5, <1>6
<1>9. \A f \in DOMAIN lines : f \in SwitchportFields \cup {"routed"}
    <2>1. \A f \in DOMAIN given : f \in SwitchportFields
        BY <1>3
    <2>2. \A f \in DOMAIN modeLines : f \in SwitchportFields \cup {"routed"}
        BY <1>4, <1>6
    <2> QED
        BY <1>5, <2>1, <2>2
<1> QED
    BY <1>1, <1>4, <1>7, <1>8, <1>9

SameLines(lines, others, knobs) ==
    \A f \in knobs : /\ f \in DOMAIN lines <=> f \in DOMAIN others
                     /\ f \in DOMAIN lines => lines[f] = others[f]

LEMMA PortLinesGive ==
    ASSUME NEW k \in {"interface", "portChannel"}, NEW args, NEW fields,
           fields = IF k = "interface" THEN InterfaceFields ELSE PortChannelFields
    PROVE  LET lines == Lines(k, args)
               sw == SwitchportLines(args)
           IN  /\ SameLines(lines, sw, SwitchportFields \cup {"routed"})
               /\ \A f \in fields : f \in DOMAIN lines /\ f \notin DOMAIN sw =>
                    f \in DOMAIN args /\ lines[f] = args[f]
               /\ k = "portChannel" => "header" \in DOMAIN lines
<1> DEFINE sw == SwitchportLines(args)
           given == Given(args, fields)
           header == [header |-> "on"]
           own == IF k = "interface" THEN given ELSE Overlay(header, given)
           lines == Overlay(own, sw)
<1>1. Lines(k, args) = lines
    BY DEF Lines, InterfaceLines, PortChannelLines
<1>2. \A f : /\ f \in DOMAIN given => f \in fields /\ f \in DOMAIN args
             /\ f \in DOMAIN given => given[f] = args[f]
    BY DEF Given
<1>3. DOMAIN header = {"header"}
    OBVIOUS
<1>4. /\ (SwitchportFields \cup {"routed"}) \cap (fields \cup {"header"}) = {}
      /\ "header" \notin fields
    BY DEF SwitchportFields, InterfaceFields, PortChannelFields
<1> HIDE DEF given, header, sw
<1>5. /\ \A f \in fields : f \in DOMAIN own => f \in DOMAIN args /\ own[f] = args[f]
      /\ DOMAIN own \subseteq fields \cup {"header"}
      /\ k = "portChannel" => "header" \in DOMAIN own
    BY <1>2, <1>3, <1>4 DEF Overlay
<1> HIDE DEF own
<1>6. \A f : /\ f \in DOMAIN lines <=> f \in DOMAIN own \/ f \in DOMAIN sw
             /\ f \in DOMAIN sw => lines[f] = sw[f]
             /\ f \in DOMAIN own /\ f \notin DOMAIN sw => lines[f] = own[f]
    BY DEF Overlay
<1> HIDE DEF lines
<1> QED
    BY <1>1, <1>4, <1>5, <1>6 DEF sw, SameLines

\* of some fields, those given, with the values given
JustGiven(args, fields, found) ==
    /\ \A f : f \in DOMAIN found <=> f \in fields /\ f \in DOMAIN args
    /\ \A f \in DOMAIN found : found[f] = args[f]

LEMMA SwitchportRoundTrip ==
    ASSUME NEW args, Has(args, "switchportMode") => args["switchportMode"] # "",
           NoDefaultSwitchport(args), NEW c, NEW object, NEW lines, ShowsLines(c, object, lines),
           SameLines(lines, SwitchportLines(args), SwitchportFields \cup {"routed"})
    PROVE  JustGiven(args, SwitchportFields, SwitchportFound(c, object))
<1> DEFINE shown == Shown(c, object, SwitchportFields)
           isRouted == <<object, "routed">> \in DOMAIN c
           routed == IF isRouted THEN [switchportMode |-> "routed"] ELSE Nothing
           found == Overlay(shown, routed)
           mode == Has(args, "switchportMode")
<1>1. SwitchportFound(c, object) = found
    BY DEF SwitchportFound
<1>2. /\ \A f : f \in DOMAIN shown <=>
                    f \in SwitchportFields /\ f \in DOMAIN lines /\ ~IsDefault(f, lines[f])
      /\ \A f \in DOMAIN shown : shown[f] = lines[f]
    BY ShownBack
<1>3. isRouted <=> "routed" \in DOMAIN lines /\ ~IsDefault("routed", lines["routed"])
    BY DEF ShowsLines
<1>4. \A b \in BOOLEAN : IsDefault("routed", b) <=> b = FALSE
    BY DEF IsDefault, Default
<1>5. isRouted <=> mode /\ args["switchportMode"] = "routed"
    BY <1>3, <1>4, SwitchportGives DEF SameLines
<1>6. /\ isRouted => DOMAIN routed = {"switchportMode"} /\ routed["switchportMode"] = "routed"
      /\ ~isRouted => DOMAIN routed = {}
    BY NothingDomain
<1>7. \A f \in SwitchportFields : f \in DOMAIN args => ~IsDefault(f, args[f])
    BY DEF NoDefaultSwitchport
<1>8. \A f \in SwitchportFields : f # "switchportMode" =>
            /\ f \in DOMAIN shown <=> f \in DOMAIN args
            /\ f \in DOMAIN shown => shown[f] = args[f]
    <2> SUFFICES ASSUME NEW f \in SwitchportFields, f # "switchportMode"
                 PROVE  /\ f \in DOMAIN shown <=> f \in DOMAIN args
                        /\ f \in DOMAIN shown => shown[f] = args[f]
        OBVIOUS
    <2> DEFINE given == SwitchportLines(args)
    <2>1. /\ f \in DOMAIN given <=> f \in DOMAIN args
          /\ f \in DOMAIN given => given[f] = args[f]
        BY SwitchportGives
    <2>2. /\ f \in DOMAIN lines <=> f \in DOMAIN given
          /\ f \in DOMAIN lines => lines[f] = given[f]
        BY DEF SameLines
    <2> HIDE DEF given, shown
    <2>3. f \in DOMAIN args => ~IsDefault(f, args[f])
        BY <1>7
    <2> QED
        BY <1>2, <2>1, <2>2, <2>3
<1>9. LET f == "switchportMode"
      IN  /\ f \in DOMAIN shown <=> f \in DOMAIN args /\ args[f] # "routed"
          /\ f \in DOMAIN shown => shown[f] = args[f]
          /\ f \in SwitchportFields
    BY <1>2, <1>7, SwitchportGives DEF SwitchportFields, Has, SameLines
<1>10. \A f \in DOMAIN shown : f \in SwitchportFields
    BY <1>2
<1>11. mode <=> "switchportMode" \in DOMAIN args
    BY DEF Has
<1> HIDE DEF shown, routed, isRouted, mode
<1>12. \A f : /\ f \in DOMAIN found <=> f \in DOMAIN shown \/ f \in DOMAIN routed
              /\ f \in DOMAIN routed => found[f] = routed[f]
              /\ f \in DOMAIN shown /\ f \notin DOMAIN routed => found[f] = shown[f]
    BY DEF Overlay
<1> HIDE DEF found
<1>13. \A f : f \in DOMAIN found <=> f \in SwitchportFields /\ f \in DOMAIN args
    BY <1>5, <1>6, <1>8, <1>9, <1>10, <1>11, <1>12
<1>14. \A f \in DOMAIN found : found[f] = args[f]
    BY <1>5, <1>6, <1>8, <1>9, <1>10, <1>11, <1>12
<1> QED
    BY <1>1, <1>13, <1>14 DEF JustGiven

LEMMA PortRoundTrip ==
    ASSUME NEW k \in {"interface", "portChannel"}, NEW args, NEW c, AsGiven(k, args, c),
           NoDefaultSwitchport(args)
    PROVE  ReadBack(k, args, c) = args
<1> DEFINE fields == IF k = "interface" THEN InterfaceFields ELSE PortChannelFields
           object == Object(k, args)
           lines == Lines(k, args)
           shown == Shown(c, object, fields)
           sw == SwitchportFound(c, object)
           found == Overlay(shown, sw)
<1>1. k \in OneObjectKinds
    BY DEF OneObjectKinds, MergeKinds
<1>2. Found(k, args, c) = found
    BY DEF Found, InterfaceFound, PortChannelFound
<1>3. ShowsLines(c, object, lines) /\ IsAFunction(args)
    BY <1>1, OneShowsLines
<1>4. Has(args, "switchportMode") => args["switchportMode"] # ""
    BY DEF AsGiven, Decoded
<1>5. /\ SameLines(lines, SwitchportLines(args), SwitchportFields \cup {"routed"})
      /\ \A f \in fields : f \in DOMAIN lines /\ f \notin DOMAIN SwitchportLines(args) =>
            f \in DOMAIN args /\ lines[f] = args[f]
      /\ k = "portChannel" => "header" \in DOMAIN lines
    <2>1. fields = IF k = "interface" THEN InterfaceFields ELSE PortChannelFields
        OBVIOUS
    <2> HIDE DEF fields
    <2> QED
        BY <2>1, PortLinesGive DEF SameLines
<1>6. /\ DOMAIN SwitchportLines(args) \subseteq SwitchportFields \cup {"routed"}
      /\ fields \cap (SwitchportFields \cup {"routed"}) = {}
    <2>1. fields \cap (SwitchportFields \cup {"routed"}) = {}
        BY DEF SwitchportFields, InterfaceFields, PortChannelFields
    <2> QED
        BY <1>4, <2>1, SwitchportGives
<1> HIDE DEF fields, lines
<1>7. /\ \A f : f \in DOMAIN sw <=> f \in SwitchportFields /\ f \in DOMAIN args
      /\ \A f \in DOMAIN sw : sw[f] = args[f]
    <2> HIDE DEF object
    <2>1. ShowsLines(c, object, lines)
        BY <1>3
    <2>2. SameLines(lines, SwitchportLines(args), SwitchportFields \cup {"routed"})
        BY <1>5
    <2>3. JustGiven(args, SwitchportFields, sw)
        BY <1>4, <2>1, <2>2, SwitchportRoundTrip
    <2> QED
        BY <2>3 DEF JustGiven
<1>8. \A f \in DOMAIN shown : f \in DOMAIN args /\ shown[f] = args[f]
    <2>1. /\ \A f \in DOMAIN shown : f \in fields /\ f \in DOMAIN lines
          /\ \A f \in DOMAIN shown : shown[f] = lines[f]
        BY <1>3, ShownBack
    <2> HIDE DEF shown
    <2> QED
        BY <1>5, <1>6, <2>1
<1>9. ~Missing(k, args, c)
    <2>1. CASE k = "interface"
        BY <2>1 DEF Missing
    <2>2. CASE k = "portChannel"
        <3>1. Missing(k, args, c) = ~Exists(c, object)
            BY <2>2 DEF Missing
        <3> QED
            BY <1>1, <1>5, <2>2, <3>1, HeaderIsThere DEF lines
    <2> QED
        BY <2>1, <2>2
<1> HIDE DEF shown, sw
<1>10. \A f \in DOMAIN found : f \in DOMAIN args /\ found[f] = args[f]
    BY <1>7, <1>8, OverlayFrom
<1>11. \A f \in DOMAIN args : f \in SwitchportFields => f \in DOMAIN found
    BY <1>7, OverlayDomain
<1> HIDE DEF found
<1> QED
    BY <1>1, <1>2, <1>3, <1>9, <1>10, <1>11, OneReadsSame

-----------------------------------------------------------------------------
(***************************************************************************)
(* BFD, RPKI, and the protocols.                                           *)
(***************************************************************************)
LEMMA BfdRoundTrip ==
    ASSUME NEW args, NEW c, AsGiven("bfd", args, c)
    PROVE  ReadBack("bfd", args, c) = args
<1> DEFINE object == Object("bfd", args)
           header == [header |-> "on"]
           given == Given(args, {"slowTimer", "shutdown"})
           timers == IF Has(args, "interval") THEN [timers |-> Given(args, BfdTimers)] ELSE Nothing
           own == Overlay(header, given)
           lines == Overlay(own, timers)
           shown == Shown(c, object, {"slowTimer", "shutdown"})
           line == Shown(c, object, {"timers"})
           values == Or(line, "timers", Nothing)
           found == Overlay(shown, values)
<1>1. "bfd" \in OneObjectKinds
    BY DEF OneObjectKinds, MergeKinds
<1>2. Lines("bfd", args) = lines
    BY DEF Lines, BfdLines
<1>3. Found("bfd", args, c) = found
    BY DEF Found, BfdFound
<1>4. DOMAIN header = {"header"}
    OBVIOUS
<1>5. \A f \in DOMAIN given : f \in DOMAIN args /\ given[f] = args[f]
    BY GivenFrom
<1>6. DOMAIN timers \subseteq {"timers"}
    BY NothingDomain
<1>7. "timers" \in DOMAIN timers => timers["timers"] = Given(args, BfdTimers)
    BY NothingDomain
<1>8. ShowsLines(c, object, lines) /\ IsAFunction(args)
    BY <1>1, <1>2, OneShowsLines
<1> HIDE DEF given, timers, header
<1>9. \A f \in DOMAIN given : f \in {"slowTimer", "shutdown"}
    BY GivenDomain DEF given
<1>10. \A f \in DOMAIN own : f = "header" \/ (f \in DOMAIN given /\ own[f] = given[f])
    BY <1>4, <1>9, OverlayFrom
<1> HIDE DEF own
<1>11. \A f \in DOMAIN lines : \/ f \in DOMAIN timers /\ lines[f] = timers[f]
                               \/ f \in DOMAIN own /\ lines[f] = own[f]
    BY OverlayFrom
<1> HIDE DEF lines
<1>12. \A f \in DOMAIN shown : f \in DOMAIN args /\ shown[f] = args[f]
    <2>1. /\ \A f \in DOMAIN shown : f \in {"slowTimer", "shutdown"} /\ f \in DOMAIN lines
          /\ \A f \in DOMAIN shown : shown[f] = lines[f]
        BY <1>8, ShownBack
    <2> HIDE DEF shown
    <2> QED
        BY <1>5, <1>6, <1>10, <1>11, <2>1
<1>13. \A f \in DOMAIN values : f \in DOMAIN args /\ values[f] = args[f]
    <2>1. /\ "timers" \in DOMAIN line => "timers" \in DOMAIN lines
          /\ "timers" \in DOMAIN line => line["timers"] = lines["timers"]
        BY <1>8, ShownBack
    <2>2. values = IF "timers" \in DOMAIN line THEN line["timers"] ELSE Nothing
        BY DEF Or, Has
    <2> HIDE DEF line, values
    <2>3. CASE "timers" \in DOMAIN line
        <3>1. "timers" \in DOMAIN timers /\ lines["timers"] = timers["timers"]
            BY <1>9, <1>10, <1>11, <2>1, <2>3
        <3>2. values = Given(args, BfdTimers)
            BY <1>7, <2>1, <2>2, <2>3, <3>1
        <3> QED
            BY <3>2, GivenFrom
    <2>4. CASE "timers" \notin DOMAIN line
        BY <2>2, <2>4, NothingDomain
    <2> QED
        BY <2>3, <2>4
<1>14. ~Missing("bfd", args, c)
    BY DEF Missing
<1> HIDE DEF shown, values
<1>15. \A f \in DOMAIN found : f \in DOMAIN args /\ found[f] = args[f]
    BY <1>12, <1>13, OverlayFrom
<1> HIDE DEF found
<1> QED
    BY <1>1, <1>3, <1>8, <1>14, <1>15, OneReadsSame

LEMMA RpkiRoundTrip ==
    ASSUME NEW args, NEW c, AsGiven("rpki", args, c), Has(args, "transport")
    PROVE  ReadBack("rpki", args, c) = args
<1> DEFINE object == Object("rpki", args)
           hostFields == {"cacheHost", "vrf", "port"}
           host == Given(args, hostFields)
           given == Given(args, RpkiFields)
           rest == [header |-> "on", host |-> host, transport |-> Or(args, "transport", "tcp")]
           lines == Overlay(given, rest)
           shown == Shown(c, object, RpkiFields \cup {"transport"})
           line == Shown(c, object, {"host"})
           of == Or(line, "host", Nothing)
           values == Given(of, hostFields)
           found == Overlay(shown, values)
<1>1. "rpki" \in OneObjectKinds
    BY DEF OneObjectKinds, MergeKinds
<1>2. Lines("rpki", args) = lines
    BY DEF Lines, RpkiLines
<1>3. Found("rpki", args, c) = found
    BY DEF Found, RpkiFound
<1>4. /\ DOMAIN rest = {"header", "host", "transport"}
      /\ rest["host"] = host /\ rest["transport"] = args["transport"]
    BY DEF Or
<1>5. \A f \in DOMAIN given : f \in RpkiFields /\ f \in DOMAIN args /\ given[f] = args[f]
    BY GivenFrom
<1>6. ShowsLines(c, object, lines) /\ IsAFunction(args)
    BY <1>1, <1>2, OneShowsLines
<1>7. {"header", "host", "transport"} \cap RpkiFields = {} /\ "transport" \in DOMAIN args
    BY DEF RpkiFields, Has
<1> HIDE DEF given, rest, host
<1>8. \A f \in DOMAIN lines : \/ f \in DOMAIN rest /\ lines[f] = rest[f]
                              \/ f \in DOMAIN given /\ lines[f] = given[f]
    BY OverlayFrom
<1>9. "host" \in DOMAIN lines /\ lines["host"] = host
    BY <1>4, OverlayValues
<1> HIDE DEF lines
<1>10. \A f \in DOMAIN shown : f \in DOMAIN args /\ shown[f] = args[f]
    <2>1. /\ \A f \in DOMAIN shown : f \in RpkiFields \cup {"transport"} /\ f \in DOMAIN lines
          /\ \A f \in DOMAIN shown : shown[f] = lines[f]
        BY <1>6, ShownBack
    <2> HIDE DEF shown
    <2> QED
        BY <1>4, <1>5, <1>7, <1>8, <2>1
<1>11. /\ "host" \in DOMAIN line => line["host"] = host
       /\ "host" \in DOMAIN line
    <2>1. "host" \notin DOMAIN Default
        BY DEF Default
    <2> QED
        BY <1>6, <1>9, <2>1, NeverDefault, ShownBack
<1>12. of = host
    BY <1>11 DEF Or, Has
<1>13. \A f \in DOMAIN values : f \in DOMAIN args /\ values[f] = args[f]
    <2>1. \A f \in DOMAIN values : f \in DOMAIN of /\ values[f] = of[f]
        BY GivenFrom
    <2>2. \A f \in DOMAIN host : f \in DOMAIN args /\ host[f] = args[f]
        BY GivenFrom DEF host
    <2> HIDE DEF values, of
    <2> QED
        BY <1>12, <2>1, <2>2
<1>14. ~Missing("rpki", args, c)
    <2>1. Missing("rpki", args, c) = RpkiMissing(c, object)
        BY DEF Missing
    <2>2. <<object, "host">> \in DOMAIN c
        BY <1>11, ShownValues
    <2> QED
        BY <2>1, <2>2 DEF RpkiMissing
<1> HIDE DEF shown, values
<1>15. \A f \in DOMAIN found : f \in DOMAIN args /\ found[f] = args[f]
    BY <1>10, <1>13, OverlayFrom
<1> HIDE DEF found
<1> QED
    BY <1>1, <1>3, <1>6, <1>14, <1>15, OneReadsSame

LEMMA OspfRoundTrip ==
    ASSUME NEW args, NEW c, AsGiven("routerOspf", args, c)
    PROVE  ReadBack("routerOspf", args, c) = args
<1> DEFINE fields == {"routerId", "shutdown", "autoCostReferenceBandwidth", "maxLsa",
                      "maximumPaths", "logAdjacencyChanges", "defaultInformationOriginate"}
           knobs == {"routerId", "shutdown", "maxLsa", "maximumPaths", "passiveInterfaceDefault"}
           flagged == {"passiveInterfaceDefault", "gracefulRestartHelper"}
           header == [header |-> "on"]
           given == Given(args, fields)
           flags == OnOnly(args, flagged)
           timers == Or(args, "timers", Nothing)
           spf == IF SpfTimers \subseteq DOMAIN timers THEN [spf |-> Given(timers, SpfTimers)] ELSE Nothing
           some == Overlay(header, given)
           more == Overlay(some, flags)
           last == TimerLines(timers)
           lines == Overlay(more, last)
<1>1. "routerOspf" \in OneObjectKinds
    BY DEF OneObjectKinds, RebuildKinds
<1>2. Lines("routerOspf", args) = lines
    BY DEF Lines, RouterOspfLines
<1>3. Found("routerOspf", args, c) = Shown(c, Object("routerOspf", args), knobs)
    BY DEF Found, RouterOspfFound
<1>4. Missing("routerOspf", args, c) = ~Exists(c, Object("routerOspf", args))
    BY DEF Missing
<1>5. DOMAIN last \subseteq {"outDelay", "pacingFlood", "spf"}
    <2>1. last = Overlay(Given(timers, {"outDelay", "pacingFlood"}), spf)
        BY DEF TimerLines
    <2>2. DOMAIN spf \subseteq {"spf"}
        BY NothingDomain
    <2>3. DOMAIN Given(timers, {"outDelay", "pacingFlood"}) \subseteq {"outDelay", "pacingFlood"}
        BY GivenDomain
    <2> HIDE DEF last, spf, timers
    <2> QED
        BY <2>1, <2>2, <2>3, OverlayDomain
<1>6. DOMAIN header = {"header"}
    OBVIOUS
<1>7. \A f \in DOMAIN given : f \in DOMAIN args /\ given[f] = args[f]
    BY GivenFrom
<1>8. \A f \in DOMAIN flags : f \in knobs => f \in DOMAIN args /\ flags[f] = args[f]
    <2>1. Has(args, "passiveInterfaceDefault") => args["passiveInterfaceDefault"] \in BOOLEAN
        BY DEF AsGiven, Decoded, Flags
    <2>2. \A f \in DOMAIN flags : f \in flagged /\ f \in DOMAIN args /\ args[f] /\ flags[f] = TRUE
        BY OnOnlyFrom
    <2> HIDE DEF flags
    <2> QED
        BY <2>1, <2>2 DEF Has
<1> HIDE DEF header, given, flags, last
<1>9. \A f \in DOMAIN some : f = "header" \/ (f \in DOMAIN args /\ some[f] = args[f])
    BY <1>6, <1>7, OverlayFrom
<1>10. "header" \in DOMAIN some
    BY <1>6, OverlayValues
<1> HIDE DEF some
<1>11. \A f \in DOMAIN more : \/ f \in DOMAIN flags /\ more[f] = flags[f]
                              \/ f \in DOMAIN some /\ more[f] = some[f]
    BY OverlayFrom
<1> HIDE DEF more
<1>12. \A f \in DOMAIN lines : \/ f \in DOMAIN last
                               \/ f \in DOMAIN more /\ lines[f] = more[f]
    BY OverlayFrom
<1> HIDE DEF lines
<1>13. \A f \in DOMAIN lines : f \in knobs => f \in DOMAIN args /\ args[f] = lines[f]
    BY <1>5, <1>8, <1>9, <1>11, <1>12
<1>14. ~Missing("routerOspf", args, c)
    <2>1. "header" \in DOMAIN more
        BY <1>10, OverlayValues DEF more
    <2>2. "header" \in DOMAIN lines
        BY <2>1, OverlayValues DEF lines
    <2> QED
        BY <1>1, <1>2, <1>4, <2>2, HeaderIsThere
<1> QED
    BY <1>1, <1>2, <1>3, <1>13, <1>14, ShownReadsSame

\* the keys of the rows of a table
KeysOf(rows, table) == {r[2] : r \in {q \in DOMAIN rows : q[1] = table}}

LEMMA SyncedKeys ==
    ASSUME NEW k \in OneObjectKinds, NEW args, NEW c, InSync(k, args, c),
           NEW table, table \notin DOMAIN Default, table # "header",
           table \notin DOMAIN Lines(k, args)
    PROVE  ShownKeys(c, Object(k, args), table) = KeysOf(Rows(k, args), table)
<1> DEFINE object == Object(k, args)
           rows == Rows(k, args)
           H == Headers(Entered(k, args))
           U == Under(object, Lines(k, args))
           R == RowsUnder(object, rows)
           L == Overlay(H, U)
           set == Overlay(L, R)
<1>1. Block(k, args).set = set
    BY OneBlockSet
<1>2. \A q \in DOMAIN L : q[2] # table
    <2>1. \A q \in DOMAIN H : q[2] = "header"
        BY DEF Headers
    <2>2. \A q \in DOMAIN U : q[2] \in DOMAIN Lines(k, args)
        BY DEF Under
    <2> HIDE DEF H, U
    <2> QED
        BY <2>1, <2>2, OverlayDomain
<1>3. Objects(k, args) = {object}
    BY OneObject
<1> HIDE DEF L, rows, object
<1>4. \A q : q \in DOMAIN R <=> q \in {<<object, r[1], r[2]>> : r \in DOMAIN rows}
    BY DEF RowsUnder
<1> HIDE DEF R
<1>5. \A q : q \in DOMAIN set <=> q \in DOMAIN L \/ q \in DOMAIN R
    BY DEF Overlay
<1> HIDE DEF set
<1>6. ASSUME NEW key \in ShownKeys(c, object, table)
      PROVE  key \in KeysOf(rows, table)
    <2>1. PICK q \in DOMAIN c : q[1] = object /\ q[2] = table /\ key = q[3]
        BY DEF ShownKeys
    <2>2. q \in DOMAIN set
        BY <1>1, <1>3, <2>1, SyncedLines
    <2>3. q \in DOMAIN R
        BY <1>2, <1>5, <2>1, <2>2
    <2>4. PICK r \in DOMAIN rows : q = <<object, r[1], r[2]>>
        BY <1>4, <2>3
    <2> QED
        BY <2>1, <2>4 DEF KeysOf
<1>7. ASSUME NEW key \in KeysOf(rows, table)
      PROVE  key \in ShownKeys(c, object, table)
    <2>1. PICK r \in DOMAIN rows : r[1] = table /\ r[2] = key
        BY DEF KeysOf
    <2> DEFINE q == <<object, r[1], r[2]>>
    <2>2. q \in DOMAIN set
        BY <1>4, <1>5
    <2>3. q[1] = object /\ q[2] = table /\ q[3] = key
        BY <2>1
    <2> HIDE DEF q
    <2>4. ~IsDefault(q[2], set[q])
        BY <2>3, NeverDefault
    <2>5. q \in DOMAIN c
        BY <1>1, <1>3, <2>2, <2>3, <2>4, SyncedLines
    <2> QED
        BY <2>3, <2>5 DEF ShownKeys
<1>8. ShownKeys(c, object, table) = KeysOf(rows, table)
    BY <1>6, <1>7
<1> QED
    BY <1>8 DEF rows, object

\* Without a router id of its own no VRF of a BGP instance has a line of one.
LEMMA NoVrfRouterId ==
    ASSUME NEW args, \A vrf \in Items(args, "vrfs") : ~Has(vrf, "routerId"),
           NEW key \in KeysOf(RouterBgpRows(args), "bgpVrf")
    PROVE  key[2] # "routerId"
<1> DEFINE A == {AttributeRows("neighbor", g.name, PeerGroupAttributes(g)) : g \in Items(args, "peerGroups")}
           B == {AttributeRows("neighbor", n.address, NeighborAttributes(n)) : n \in Items(args, "neighbors")}
           C == {ActivationRows(family) : family \in Items(args, "addressFamilies")}
           D == {AttributeRows("bgpVrf", v.name, VrfAttributes(v)) : v \in Items(args, "vrfs")}
           E == {AttributeRows("redistribute", v.name, [p \in Items(v, "redistribute") |-> TRUE])
                    : v \in Items(args, "vrfs")}
           F == A \cup B \cup C \cup D \cup E
<1>1. RouterBgpRows(args) = Joined(F)
    BY DEF RouterBgpRows
<1>2. \A table, name, attributes : \A r \in DOMAIN AttributeRows(table, name, attributes) :
        r[1] = table /\ r[2][2] \in DOMAIN attributes
    BY DEF AttributeRows
<1>3. \A f \in A \cup B \cup E : \A r \in DOMAIN f : r[1] \in {"neighbor", "redistribute"}
    <2>1. \A f \in A : \A r \in DOMAIN f : r[1] = "neighbor"
        BY <1>2
    <2>2. \A f \in B : \A r \in DOMAIN f : r[1] = "neighbor"
        BY <1>2
    <2>3. \A f \in E : \A r \in DOMAIN f : r[1] = "redistribute"
        <3> SUFFICES ASSUME NEW v \in Items(args, "vrfs"),
                            NEW r \in DOMAIN AttributeRows("redistribute", v.name,
                                                [p \in Items(v, "redistribute") |-> TRUE])
                     PROVE  r[1] = "redistribute"
            OBVIOUS
        <3> DEFINE attributes == [p \in Items(v, "redistribute") |-> TRUE]
        <3>1. r \in DOMAIN AttributeRows("redistribute", v.name, attributes)
            OBVIOUS
        <3> HIDE DEF attributes
        <3> QED
            BY <1>2, <3>1
    <2> HIDE DEF A, B, E
    <2> QED
        BY <2>1, <2>2, <2>3
<1>4. \A f \in C : \A r \in DOMAIN f : r[1] = "activation"
    <2>1. \A family : \A r \in DOMAIN ActivationRows(family) : r[1] = "activation"
        BY DEF ActivationRows
    <2> QED
        BY <2>1
<1>5. \A f \in D : \A r \in DOMAIN f : r[2][2] # "routerId"
    <2> SUFFICES ASSUME NEW v \in Items(args, "vrfs"),
                        NEW r \in DOMAIN AttributeRows("bgpVrf", v.name, VrfAttributes(v))
                 PROVE  r[2][2] # "routerId"
        OBVIOUS
    <2>1. r[2][2] \in DOMAIN VrfAttributes(v)
        BY <1>2
    <2>2. \A a \in DOMAIN VrfAttributes(v) : a = "header" \/ a \in DOMAIN v
        BY DEF VrfAttributes, Overlay, Without
    <2> QED
        BY <2>1, <2>2 DEF Has
<1> HIDE DEF A, B, C, D, E
<1>6. PICK r \in DOMAIN Joined(F) : r[1] = "bgpVrf" /\ key = r[2]
    BY <1>1 DEF KeysOf
<1>7. PICK f \in F : r \in DOMAIN f
    BY DEF Joined
<1> QED
    BY <1>3, <1>4, <1>5, <1>6, <1>7

LEMMA BgpRoundTrip ==
    ASSUME NEW args, NEW c, AsGiven("routerBgp", args, c),
           \A vrf \in Items(args, "vrfs") : ~Has(vrf, "routerId")
    PROVE  ReadBack("routerBgp", args, c) = args
<1> DEFINE object == Object("routerBgp", args)
           flagged == {"noDefaultIpv4Unicast", "bfd"}
           knobs == {"routerId", "maximumPaths", "noDefaultIpv4Unicast", "bfd"}
           header == [header |-> "on"]
           given == Given(args, {"routerId", "maximumPaths"})
           flags == OnOnly(args, flagged)
           some == Overlay(header, given)
           lines == Overlay(some, flags)
<1>1. "routerBgp" \in OneObjectKinds
    BY DEF OneObjectKinds, MergeKinds
<1>2. Lines("routerBgp", args) = lines /\ Rows("routerBgp", args) = RouterBgpRows(args)
    BY DEF Lines, RouterBgpLines, Rows
<1>3. DOMAIN header = {"header"}
    OBVIOUS
<1>4. \A f \in DOMAIN given : f \in DOMAIN args /\ given[f] = args[f]
    BY GivenFrom
<1>5. \A f \in DOMAIN flags : f \in DOMAIN args /\ flags[f] = args[f]
    <2>1. \A f \in flagged : Has(args, f) => args[f] \in BOOLEAN
        BY DEF AsGiven, Decoded, Flags
    <2>2. \A f \in DOMAIN flags : f \in flagged /\ f \in DOMAIN args /\ args[f] /\ flags[f] = TRUE
        BY OnOnlyFrom
    <2> HIDE DEF flags
    <2> QED
        BY <2>1, <2>2 DEF Has
<1>6. \A f \in DOMAIN given \cup DOMAIN flags : f \in knobs
    BY GivenDomain, OnOnlyFrom
<1>7. Missing("routerBgp", args, c) = ~Exists(c, object)
    BY DEF Missing
<1> HIDE DEF header, given, flags
<1>8. \A f \in DOMAIN some : f = "header" \/ (f \in DOMAIN args /\ some[f] = args[f])
    BY <1>3, <1>4, OverlayFrom
<1>9. "header" \in DOMAIN some /\ \A f \in DOMAIN some : f \in DOMAIN header \cup DOMAIN given
    BY <1>3, OverlayValues, OverlayFrom
<1> HIDE DEF some
<1>10. \A f \in DOMAIN lines : f = "header" \/ (f \in DOMAIN args /\ lines[f] = args[f])
    BY <1>5, <1>8, OverlayFrom
<1>11. "header" \in DOMAIN lines /\ "bgpVrf" \notin DOMAIN lines
    <2>1. "header" \in DOMAIN lines
        BY <1>9, OverlayValues
    <2>2. \A f \in DOMAIN lines : f \in DOMAIN some \/ f \in DOMAIN flags
        BY OverlayFrom
    <2>3. "bgpVrf" \notin DOMAIN some \/ "bgpVrf" \in knobs
        BY <1>3, <1>6, <1>9
    <2> QED
        BY <1>6, <2>1, <2>2, <2>3
<1> HIDE DEF lines
<1>12. InSync("routerBgp", args, c)
    BY DEF AsGiven
<1>13. "bgpVrf" \notin DOMAIN Default
    BY DEF Default
<1>14. ShownKeys(c, object, "bgpVrf") = KeysOf(RouterBgpRows(args), "bgpVrf")
    BY <1>1, <1>2, <1>11, <1>12, <1>13, SyncedKeys
<1> HIDE DEF object
<1>15. {key \in ShownKeys(c, object, "bgpVrf") : key[2] = "routerId"} = {}
    BY <1>14, NoVrfRouterId
<1> DEFINE shown == Shown(c, object, knobs)
<1>16. Found("routerBgp", args, c) = Overlay(shown, Nothing)
    BY <1>15 DEF Found, RouterBgpFound, object
<1>17. Overlay(shown, Nothing) = shown
    BY NothingDomain DEF Overlay, Shown
<1>18. \A f \in DOMAIN lines : f \in knobs /\ ~IsDefault(f, lines[f]) =>
            f \in DOMAIN args /\ args[f] = lines[f]
    BY <1>10
<1>19. ~Missing("routerBgp", args, c)
    BY <1>1, <1>2, <1>7, <1>11, HeaderIsThere DEF object
<1> QED
    BY <1>1, <1>2, <1>16, <1>17, <1>18, <1>19, ShownReadsSame DEF object

-----------------------------------------------------------------------------
(***************************************************************************)
(* Kinds that are one line, and the spanning tree.                         *)
(***************************************************************************)
LEMMA OneDelivery ==
    ASSUME NEW args, RcfValid(args), NEW f \in RcfDeliveries, f \in DOMAIN args,
           NEW g \in RcfDeliveries, g \in DOMAIN args
    PROVE  f = g
<1> DEFINE given == DOMAIN args \cap RcfDeliveries
<1>1. IsFiniteSet(given)
    <2>1. IsFiniteSet({"code"}) /\ IsFiniteSet({"sourceFile"}) /\ IsFiniteSet({"sourceUrl"})
        BY FS_Singleton
    <2>2. IsFiniteSet({"code"} \cup {"sourceFile"})
        BY <2>1, FS_Union
    <2>3. IsFiniteSet(({"code"} \cup {"sourceFile"}) \cup {"sourceUrl"})
        BY <2>1, <2>2, FS_Union
    <2>4. given \subseteq ({"code"} \cup {"sourceFile"}) \cup {"sourceUrl"}
        BY DEF RcfDeliveries
    <2> HIDE DEF given
    <2> QED
        BY <2>3, <2>4, FS_Subset
<1>2. Cardinality(given) = 1
    BY DEF RcfValid
<1> HIDE DEF given
<1>3. PICK m : given = {m}
    BY <1>1, <1>2, FS_Singleton
<1> QED
    BY <1>3 DEF given

LEMMA RcfRoundTrip ==
    ASSUME NEW args, NEW c, AsGiven("rcf", args, c), RcfValid(args), ~Has(args, "sourceUrl")
    PROVE  ReadBack("rcf", args, c) = args
<1> DEFINE object == Object("rcf", args)
           f == IF Has(args, "code") THEN "code" ELSE "sourceFile"
           line == Shown(c, object, {"unit"})
           unit == Or(line, "unit", <<"", "">>)
           found == [g \in {"code", "sourceFile"} \cap {unit[1]} |-> unit[2]]
<1>1. "rcf" \in OneObjectKinds
    BY DEF OneObjectKinds, RebuildKinds
<1>2. f \in DOMAIN args
    <2>1. DOMAIN args \cap RcfDeliveries # {}
        BY FS_EmptySet DEF RcfValid
    <2> QED
        BY <2>1 DEF RcfDeliveries, Has
<1>3. Lines("rcf", args) = [unit |-> <<f, args[f]>>]
    <2>1. Lines("rcf", args) = RcfLines(args)
        BY DEF Lines
    <2>2. CASE Has(args, "code")
        <3>1. f = "code"
            BY <2>2
        <3>2. ~Has(args, "sourceFile")
            BY <2>2, OneDelivery DEF Has, RcfDeliveries
        <3>3. RcfLines(args) = [unit |-> <<"code", args.code>>]
            BY <2>2, <3>2 DEF RcfLines
        <3> QED
            BY <2>1, <3>1, <3>3
    <2>3. CASE ~Has(args, "code")
        <3>1. f = "sourceFile" /\ Has(args, "sourceFile")
            BY <1>2, <2>3 DEF Has
        <3>2. RcfLines(args) = [unit |-> <<"sourceFile", args.sourceFile>>]
            BY <2>3, <3>1 DEF RcfLines
        <3> QED
            BY <2>1, <3>1, <3>2
    <2> QED
        BY <2>2, <2>3
<1>4. ShowsLines(c, object, Lines("rcf", args)) /\ IsAFunction(args)
    BY <1>1, OneShowsLines
<1>5. f \in {"code", "sourceFile"}
    OBVIOUS
<1> HIDE DEF f
<1>6. "unit" \in DOMAIN line /\ line["unit"] = <<f, args[f]>>
    <2>1. "unit" \notin DOMAIN Default
        BY DEF Default
    <2>2. "unit" \in DOMAIN Lines("rcf", args) /\ Lines("rcf", args)["unit"] = <<f, args[f]>>
        BY <1>3
    <2> QED
        BY <1>4, <2>1, <2>2, NeverDefault, ShownBack
<1>7. unit = <<f, args[f]>>
    BY <1>6 DEF Or, Has
<1>8. Found("rcf", args, c) = found
    BY DEF Found, RcfFound
<1>9. ~Missing("rcf", args, c)
    <2>1. Missing("rcf", args, c) = RcfMissing(c, object)
        BY DEF Missing
    <2>2. <<object, "unit">> \in DOMAIN c
        BY <1>6, ShownValues
    <2> QED
        BY <2>1, <2>2 DEF RcfMissing
<1> HIDE DEF unit
<1>10. \A g \in DOMAIN found : g \in DOMAIN args /\ found[g] = args[g]
    BY <1>2, <1>5, <1>7
<1> HIDE DEF found
<1> QED
    BY <1>1, <1>4, <1>8, <1>9, <1>10, OneReadsSame

LEMMA EcmpRoundTrip ==
    ASSUME NEW args, NEW c, AsGiven("resilientEcmp", args, c), ResilientEcmpValid(args),
           Has(args, "ipFamily")
    PROVE  ReadBack("resilientEcmp", args, c) = args
<1> DEFINE object == Object("resilientEcmp", args)
           given == Given(args, {"capacity", "redundancy"})
           flags == OnOnly(args, {"ordered"})
           words == Overlay(given, flags)
           line == Shown(c, object, {"line"})
           values == Or(line, "line", Nothing)
           family == [ipFamily |-> Or(args, "ipFamily", "ipv4")]
           parsed == Given(values, {"capacity", "redundancy", "ordered"})
           found == Overlay(family, parsed)
<1>1. "resilientEcmp" \in OneObjectKinds
    BY DEF OneObjectKinds, RebuildKinds
<1>2. Lines("resilientEcmp", args) = [line |-> words]
    BY DEF Lines, ResilientEcmpLines
<1>3. Found("resilientEcmp", args, c) = found
    BY DEF Found, ResilientEcmpFound
<1>4. ShowsLines(c, object, Lines("resilientEcmp", args)) /\ IsAFunction(args)
    BY <1>1, OneShowsLines
<1>5. \A f \in DOMAIN given : f \in DOMAIN args /\ given[f] = args[f]
    BY GivenFrom
<1>6. \A f \in DOMAIN flags : f \in DOMAIN args /\ flags[f] = args[f]
    <2>1. Has(args, "ordered") => args["ordered"] \in BOOLEAN
        BY DEF AsGiven, Decoded, Flags
    <2>2. \A f \in DOMAIN flags :
            f \in {"ordered"} /\ f \in DOMAIN args /\ args[f] /\ flags[f] = TRUE
        BY OnOnlyFrom
    <2> HIDE DEF flags
    <2> QED
        BY <2>1, <2>2 DEF Has
<1> HIDE DEF given, flags
<1>7. \A f \in DOMAIN words : f \in DOMAIN args /\ words[f] = args[f]
    BY <1>5, <1>6, OverlayFrom
<1> HIDE DEF words
<1>8. "line" \in DOMAIN line /\ line["line"] = words
    <2>1. "line" \notin DOMAIN Default
        BY DEF Default
    <2>2. "line" \in DOMAIN Lines("resilientEcmp", args) /\ Lines("resilientEcmp", args)["line"] = words
        BY <1>2
    <2> QED
        BY <1>4, <2>1, <2>2, NeverDefault, ShownBack
<1>9. values = words
    BY <1>8 DEF Or, Has
<1>10. \A f \in DOMAIN parsed : f \in DOMAIN args /\ parsed[f] = args[f]
    <2>1. \A f \in DOMAIN parsed : f \in DOMAIN values /\ parsed[f] = values[f]
        BY GivenFrom
    <2> HIDE DEF parsed, values
    <2> QED
        BY <1>7, <1>9, <2>1
<1>11. \A f \in DOMAIN family : f \in DOMAIN args /\ family[f] = args[f]
    BY DEF Or, Has
<1>12. ~Missing("resilientEcmp", args, c)
    <2>1. Missing("resilientEcmp", args, c) = ResilientEcmpMissing(args, c, object)
        BY DEF Missing
    <2>2. <<object, "line">> \in DOMAIN c
        BY <1>8, ShownValues
    <2>3. Or(args, "ipFamily", "ipv4") = Family(args.prefix)
        BY DEF Or, ResilientEcmpValid
    <2> QED
        BY <2>1, <2>2, <2>3 DEF ResilientEcmpMissing
<1> HIDE DEF family, parsed
<1>13. \A f \in DOMAIN found : f \in DOMAIN args /\ found[f] = args[f]
    BY <1>10, <1>11, OverlayFrom
<1> HIDE DEF found
<1> QED
    BY <1>1, <1>3, <1>4, <1>12, <1>13, OneReadsSame

Rising(s, field) ==
    /\ IsAList(s)
    /\ \A i \in DOMAIN s : s[i][field] \in Int
    /\ \A i, j \in DOMAIN s : i < j => s[i][field] < s[j][field]

LEMMA RisingIsSame ==
    ASSUME NEW s, NEW field, Rising(s, field)
    PROVE  InOrder(ToSet(s), [e \in ToSet(s) |-> e[field]]) = s
<1> DEFINE S == ToSet(s)
           key == [e \in S |-> e[field]]
<1>1. s \in Seq(S) /\ \A i \in DOMAIN s : s[i] \in S /\ s[i][field] \in Int
    BY DEF Rising, IsAList, ToSet
<1>2. \A e \in S : key[e] \in Int
    <2>1. \A e \in S : key[e] = e[field]
        OBVIOUS
    <2>2. \A e \in S : \E i \in DOMAIN s : e = s[i]
        BY DEF ToSet
    <2> HIDE DEF S, key
    <2>3. \A e \in S : e[field] \in Int
        BY <1>1, <2>2
    <2> QED
        BY <2>1, <2>3
<1>3. \A i, j \in DOMAIN s : i < j => key[s[i]] < key[s[j]]
    <2>1. \A i \in DOMAIN s : key[s[i]] = s[i][field]
        BY <1>1
    <2> QED
        BY <2>1 DEF Rising
<1> HIDE DEF key
<1>4. InOrder(ToSet(s), key) = s
    BY <1>1, <1>2, <1>3, InOrderOfRising
<1> QED
    BY <1>4 DEF key

\* An MST block whose instances are in order is read back as it was given.
LEMMA MstComesBack ==
    ASSUME NEW mst, IsAFunction(mst), Has(mst, "instances"), Rising(mst.instances, "id")
    PROVE  Overlay([instances |-> <<>>], MstLines(mst)) = mst
<1> DEFINE none == [instances |-> <<>>]
           lines == MstLines(mst)
           s == mst["instances"]
           instances == Items(mst, "instances")
           D == {g \in DOMAIN mst : g = "instances" => mst.instances # <<>>}
<1>1. /\ DOMAIN lines = D
      /\ \A g \in D : lines[g] = IF g = "instances"
                                 THEN InOrder(instances, [i \in instances |-> i.id]) ELSE mst[g]
    BY DEF MstLines
<1>2. instances = ToSet(s)
    BY DEF Items, ToSet
<1>3. InOrder(instances, [i \in instances |-> i["id"]]) = s
    <2> HIDE DEF instances, s
    <2>1. Rising(s, "id")
        BY DEF s
    <2> QED
        BY <1>2, <2>1, RisingIsSame
<1>4. DOMAIN none = {"instances"} /\ none["instances"] = <<>> /\ "instances" \in DOMAIN mst
    BY DEF Has
<1>5. /\ \A g \in D : g \in DOMAIN mst
      /\ \A g \in DOMAIN mst : g \notin D => g = "instances" /\ mst[g] = <<>>
    OBVIOUS
<1> HIDE DEF none, instances, lines, D
<1>6. DOMAIN Overlay(none, lines) = DOMAIN mst
    BY <1>1, <1>4, <1>5, OverlayDomain
<1>7. \A g \in DOMAIN mst : Overlay(none, lines)[g] = mst[g]
    BY <1>1, <1>3, <1>4, <1>5, OverlayValues
<1>8. Overlay(none, lines) = [g \in DOMAIN mst |-> mst[g]]
    BY <1>6, <1>7 DEF Overlay
<1> QED
    BY <1>8 DEF IsAFunction, none, lines

LEMMA StpRoundTrip ==
    ASSUME NEW args, NEW c, AsGiven("stp", args, c), Has(args, "stpMode"),
           Has(args, "mst") => Rising(args.mst.instances, "id")
    PROVE  ReadBack("stp", args, c) = args
<1> DEFINE object == Object("stp", args)
           fields == {"stpMode", "edgePortBpduGuardDefault"}
           knobs == {"stpMode", "edgePortBpduGuardDefault", "mst"}
           given == Given(args, fields)
           mstLines == [g \in {"mst"} \cap DOMAIN args |-> MstLines(args.mst)]
           lines == Overlay(given, mstLines)
           shown == Shown(c, object, knobs)
           mode == [stpMode |-> "mstp"]
           mstFound == [g \in {"mst"} \cap DOMAIN shown |-> Overlay([instances |-> <<>>], shown.mst)]
           some == Overlay(mode, shown)
           found == Overlay(some, mstFound)
<1>1. "stp" \in OneObjectKinds
    BY DEF OneObjectKinds, MergeKinds
<1>2. Lines("stp", args) = lines
    BY DEF Lines, StpLines
<1>3. Found("stp", args, c) = found
    BY DEF Found, StpFound
<1>4. ShowsLines(c, object, lines) /\ IsAFunction(args)
    BY <1>1, <1>2, OneShowsLines
<1>5. DOMAIN mode = {"stpMode"} /\ mode["stpMode"] = "mstp"
    OBVIOUS
<1>6. /\ DOMAIN mstFound = {"mst"} \cap DOMAIN shown
      /\ "mst" \in DOMAIN mstFound =>
            mstFound["mst"] = Overlay([instances |-> <<>>], shown["mst"])
    OBVIOUS
<1>7. /\ DOMAIN mstLines = {"mst"} \cap DOMAIN args
      /\ "mst" \in DOMAIN mstLines => mstLines["mst"] = MstLines(args["mst"])
    OBVIOUS
<1>8. \A f \in fields : /\ f \in DOMAIN given <=> f \in DOMAIN args
                        /\ f \in DOMAIN given => given[f] = args[f]
    BY DEF Given
<1>9. \A f \in DOMAIN given : f \in fields
    BY GivenDomain
<1> HIDE DEF given, mstLines, mstFound, mode
<1>10. \A f \in DOMAIN lines : \/ f \in DOMAIN mstLines /\ lines[f] = mstLines[f]
                               \/ f \in DOMAIN given /\ lines[f] = given[f]
    BY OverlayFrom
<1>11. \A f \in fields : f \in DOMAIN args => f \in DOMAIN lines
    BY <1>8, OverlayValues
<1> HIDE DEF lines
<1>12. /\ \A f : f \in DOMAIN shown <=> f \in knobs /\ f \in DOMAIN lines /\ ~IsDefault(f, lines[f])
       /\ \A f \in DOMAIN shown : shown[f] = lines[f]
    BY <1>4, ShownBack
<1> HIDE DEF shown
<1>13. \A f \in DOMAIN shown : f # "mst" => f \in DOMAIN args /\ shown[f] = args[f]
    BY <1>7, <1>8, <1>9, <1>10, <1>12
<1>14. "stpMode" \in DOMAIN args /\ ("stpMode" \notin DOMAIN shown => args["stpMode"] = "mstp")
    <2>1. \A v : IsDefault("stpMode", v) => v = "mstp"
        BY DEF IsDefault, Default
    <2>2. "stpMode" \in DOMAIN args
        BY DEF Has
    <2>3. "stpMode" \in DOMAIN lines /\ lines["stpMode"] = args["stpMode"]
        BY <1>7, <1>8, <1>9, <1>10, <1>11, <2>2
    <2> QED
        BY <1>12, <2>1, <2>2, <2>3
<1>15. "mst" \in DOMAIN mstFound => "mst" \in DOMAIN args /\ mstFound["mst"] = args["mst"]
    <2> SUFFICES ASSUME "mst" \in DOMAIN mstFound
                 PROVE  "mst" \in DOMAIN args /\ mstFound["mst"] = args["mst"]
        OBVIOUS
    <2>1. "mst" \in DOMAIN args /\ shown["mst"] = MstLines(args["mst"])
        BY <1>6, <1>7, <1>9, <1>10, <1>12
    <2>2. IsAFunction(args["mst"]) /\ Has(args["mst"], "instances")
        BY <2>1 DEF AsGiven, WellTyped, Decoded, Has
    <2>3. Rising(args["mst"]["instances"], "id")
        BY <2>1 DEF Has
    <2> QED
        BY <1>6, <2>1, <2>2, <2>3, MstComesBack
<1>16. \A f \in DOMAIN some : f # "mst" => f \in DOMAIN args /\ some[f] = args[f]
    BY <1>5, <1>13, <1>14, OverlayFrom
<1>17. "mst" \in DOMAIN some => "mst" \in DOMAIN mstFound
    BY <1>5, <1>6, OverlayFrom
<1> HIDE DEF some
<1>18. \A f \in DOMAIN found : f \in DOMAIN args /\ found[f] = args[f]
    <2>1. \A f \in DOMAIN found :
            \/ f \in DOMAIN mstFound /\ found[f] = mstFound[f]
            \/ f \in DOMAIN some /\ f \notin DOMAIN mstFound /\ found[f] = some[f]
        BY OverlayFrom
    <2> HIDE DEF found
    <2> QED
        BY <1>6, <1>15, <1>16, <1>17, <2>1
<1>19. ~Missing("stp", args, c)
    BY DEF Missing
<1> HIDE DEF found
<1> QED
    BY <1>1, <1>3, <1>4, <1>18, <1>19, OneReadsSame

-----------------------------------------------------------------------------
(***************************************************************************)
(* VRFs and Ethernet segments.                                             *)
(***************************************************************************)
LEMMA VrfRoundTrip ==
    ASSUME NEW args, NEW c, RunningConfig(c), AsGiven("vrf", args, c), NoLongerNamed(args, c),
           Has(args, "ipRouting"), Has(args, "ipv6Routing"), "name" \in DOMAIN args
    PROVE  ReadBack("vrf", args, c) = args
<1> DEFINE object == Object("vrf", args)
           found == Found("vrf", args, c)
           description == Or(args, "description", "")
           v4 == Or(args, "ipRouting", TRUE)
           v6 == On(args, "ipv6Routing")
           lines == Lines("vrf", args)
<1>1. "vrf" \in OneObjectKinds
    BY DEF OneObjectKinds, MergeKinds
<1>2. object = VrfObject(args.name)
    <2>1. Identity("vrf") = {"name"}
        BY DEF Identity
    <2> QED
        BY <2>1 DEF Object, VrfObject, Given
<1>3. lines = [header |-> "on", description |-> description, ipRouting |-> v4, ipv6Routing |-> v6]
    BY DEF Lines, VrfLines
<1>4. ShowsLines(c, object, lines) /\ IsAFunction(args)
    BY <1>1, OneShowsLines
<1>5. /\ Has(args, "description") => args["description"] = description
      /\ ~Has(args, "description") => description = ""
      /\ v4 = args["ipRouting"] /\ v6 = args["ipv6Routing"]
    <2>1. args["ipv6Routing"] \in BOOLEAN
        BY DEF AsGiven, Decoded, Flags
    <2> QED
        BY <2>1 DEF Or, On, Has
<1> HIDE DEF lines, description, v4, v6
<1>6. /\ DOMAIN lines = {"header", "description", "ipRouting", "ipv6Routing"}
      /\ lines["description"] = description
      /\ lines["ipRouting"] = v4 /\ lines["ipv6Routing"] = v6
    BY <1>3
<1>7. found = VrfFound(args, c)
    BY DEF Found
<1> HIDE DEF found
<1>8. /\ DOMAIN found = {"ipRouting", "ipv6Routing"}
                        \cup {g \in {"description"} : <<object, g>> \in DOMAIN c}
      /\ \A g \in {"ipRouting", "ipv6Routing"} : found[g] = (<<object, g>> \in DOMAIN c)
      /\ "description" \in DOMAIN found => found["description"] = c[<<object, "description">>]
    BY <1>2, <1>7, OwnDescription DEF NoLongerNamed
<1> HIDE DEF object
<1>9. \A f \in {"description", "ipRouting", "ipv6Routing"} :
            /\ <<object, f>> \in DOMAIN c <=> ~IsDefault(f, lines[f])
            /\ <<object, f>> \in DOMAIN c => c[<<object, f>>] = lines[f]
    BY <1>4, <1>6 DEF ShowsLines
<1>10. ASSUME "description" \in DOMAIN found
       PROVE  "description" \in DOMAIN args /\ found["description"] = args["description"]
    <2>1. IsDefault("description", "")
        BY DEF IsDefault, Default
    <2>2. <<object, "description">> \in DOMAIN c
        BY <1>8, <1>10
    <2>3. ~IsDefault("description", description)
          /\ c[<<object, "description">>] = description
        BY <1>6, <1>9, <2>2
    <2>4. description # "" /\ found["description"] = description
        BY <1>8, <1>10, <2>1, <2>3
    <2> QED
        BY <1>5, <2>4 DEF Has
<1>11. \A f \in {"ipRouting", "ipv6Routing"} : f \in DOMAIN args /\ found[f] = args[f]
    <2>1. \A f \in {"ipRouting", "ipv6Routing"} : f \in DOMAIN args /\ args[f] \in BOOLEAN
        BY DEF AsGiven, Decoded, Flags, Has
    <2>2. \A b \in BOOLEAN : /\ IsDefault("ipRouting", b) <=> b = FALSE
                             /\ IsDefault("ipv6Routing", b) <=> b = FALSE
        BY DEF IsDefault, Default
    <2>3. \A f \in {"ipRouting", "ipv6Routing"} : lines[f] = args[f]
        BY <1>5, <1>6
    <2>4. \A f \in {"ipRouting", "ipv6Routing"} : IsDefault(f, args[f]) <=> args[f] = FALSE
        BY <2>1, <2>2
    <2> QED
        BY <1>8, <1>9, <2>1, <2>3, <2>4
<1>12. \A f \in DOMAIN found : f \in DOMAIN args /\ found[f] = args[f]
    BY <1>8, <1>10, <1>11
<1>13. ~Missing("vrf", args, c)
    <2>1. Exists(c, VrfObject(args.name))
        BY <1>1, <1>2, <1>6, HeaderIsThere DEF lines, object
    <2> QED
        BY <2>1 DEF Missing, VrfMissing
<1> QED
    BY <1>1, <1>4, <1>12, <1>13, OneReadsSame DEF found

\* An election whose words are all rendered is put together again from the line
\* of the algorithm and the hold time.
AlgorithmOf(df) == IF Has(df, "algorithm") THEN AlgorithmLine(df) ELSE Nothing

ElectionGiven(df) ==
    /\ IsAFunction(df) /\ DOMAIN df \subseteq ElectionFields
    /\ Has(df, "dontPreempt") => df.dontPreempt \in BOOLEAN
    /\ ElectionRendered(df) /\ ElectionValid(df)

LEMMA AlgorithmLineOf ==
    ASSUME NEW df, ElectionGiven(df), Has(df, "algorithm")
    PROVE  /\ \A f \in DOMAIN AlgorithmLine(df) : f \in DOMAIN df /\ AlgorithmLine(df)[f] = df[f]
           /\ \A f \in {"algorithm", "preference", "dontPreempt"} :
                f \in DOMAIN df => f \in DOMAIN AlgorithmLine(df)
<1> DEFINE given == Given(df, {"algorithm", "preference"})
           flags == IF Has(df, "preference") THEN OnOnly(df, {"dontPreempt"}) ELSE Nothing
           line == AlgorithmLine(df)
<1>1. line = Overlay(given, flags)
    BY DEF AlgorithmLine
<1>2. \A f \in DOMAIN given : f \in DOMAIN df /\ given[f] = df[f]
    BY GivenFrom
<1>3. \A f \in {"algorithm", "preference"} : f \in DOMAIN df => f \in DOMAIN given
    BY GivenValues
<1>4. \A f \in DOMAIN flags : f \in DOMAIN df /\ flags[f] = df[f]
    <2> DEFINE on == OnOnly(df, {"dontPreempt"})
    <2>1. \A f \in DOMAIN on : f \in {"dontPreempt"} /\ f \in DOMAIN df /\ df[f] /\ on[f] = TRUE
        BY OnOnlyFrom
    <2> HIDE DEF on
    <2>2. Has(df, "dontPreempt") => df["dontPreempt"] \in BOOLEAN
        BY DEF ElectionGiven
    <2>3. \A f \in DOMAIN on : f \in DOMAIN df /\ on[f] = df[f]
        BY <2>1, <2>2 DEF Has
    <2> QED
        BY <2>3, NothingDomain DEF on
<1>5. "dontPreempt" \in DOMAIN df => "dontPreempt" \in DOMAIN flags
    <2> SUFFICES ASSUME "dontPreempt" \in DOMAIN df
                 PROVE  "dontPreempt" \in DOMAIN flags
        OBVIOUS
    <2>1. df["dontPreempt"] = TRUE /\ Has(df, "preference")
        BY DEF ElectionGiven, ElectionRendered, Has
    <2>2. "dontPreempt" \in DOMAIN OnOnly(df, {"dontPreempt"})
        BY <2>1, OnOnlyValues
    <2> QED
        BY <2>1, <2>2
<1> HIDE DEF given, flags, line
<1>6. \A f \in DOMAIN line : f \in DOMAIN df /\ line[f] = df[f]
    BY <1>1, <1>2, <1>4, OverlayFrom
<1>7. \A f \in {"algorithm", "preference", "dontPreempt"} : f \in DOMAIN df => f \in DOMAIN line
    BY <1>1, <1>3, <1>5, OverlayValues
<1> QED
    BY <1>6, <1>7 DEF line

LEMMA ElectionComesBack ==
    ASSUME NEW df, ElectionGiven(df), NEW hold,
           \A f : f \in DOMAIN hold <=> f \in {"holdTime"} /\ f \in DOMAIN df,
           \A f \in DOMAIN hold : hold[f] = df[f]
    PROVE  Overlay(AlgorithmOf(df), hold) = df /\ df # Nothing
<1> DEFINE line == AlgorithmOf(df)
<1>1. \A f \in DOMAIN line : f \in DOMAIN df /\ line[f] = df[f]
    <2>1. CASE Has(df, "algorithm")
        BY <2>1, AlgorithmLineOf DEF AlgorithmOf
    <2>2. CASE ~Has(df, "algorithm")
        BY <2>2, NothingDomain DEF AlgorithmOf
    <2> QED
        BY <2>1, <2>2
<1>2. \A f \in {"algorithm", "preference", "dontPreempt"} : f \in DOMAIN df => f \in DOMAIN line
    <2>1. CASE Has(df, "algorithm")
        BY <2>1, AlgorithmLineOf DEF AlgorithmOf
    <2>2. CASE ~Has(df, "algorithm")
        <3>1. ~Has(df, "preference")
            BY <2>2 DEF ElectionGiven, ElectionValid, Or
        <3>2. ~Has(df, "dontPreempt")
            BY <3>1 DEF ElectionGiven, ElectionRendered
        <3> QED
            BY <2>2, <3>1, <3>2 DEF Has
    <2> QED
        BY <2>1, <2>2
<1>3. IsAFunction(df) /\ DOMAIN df \subseteq {"algorithm", "preference", "dontPreempt", "holdTime"}
    BY DEF ElectionGiven, ElectionFields
<1>4. df # Nothing
    <2>1. Has(df, "algorithm") \/ Has(df, "holdTime")
        BY DEF ElectionGiven, ElectionRendered
    <2> QED
        BY <2>1, NothingDomain DEF Has
<1> HIDE DEF line
<1>5. \A f \in DOMAIN df : f \in DOMAIN line \/ f \in DOMAIN hold
    BY <1>2, <1>3
<1>6. \A f \in DOMAIN hold : f \in DOMAIN df /\ hold[f] = df[f]
    OBVIOUS
<1>7. Overlay(line, hold) = df
    BY <1>1, <1>3, <1>5, <1>6, ReadsSame
<1> QED
    BY <1>4, <1>7 DEF line

LEMMA EvpnRoundTrip ==
    ASSUME NEW args, NEW c, AsGiven("evpnEthernetSegment", args, c),
           EvpnEthernetSegmentValid(args),
           Has(args, "designatedForwarder") => ElectionRendered(args.designatedForwarder)
    PROVE  ReadBack("evpnEthernetSegment", args, c) = args
<1> DEFINE k == "evpnEthernetSegment"
           object == Object(k, args)
           fields == {"identifier", "redundancy", "routeTargetImport"}
           head == [header |-> "on"]
           given == Given(args, fields)
           df == Or(args, "designatedForwarder", Nothing)
           timer == Given(df, {"holdTime"})
           algorithm == IF Has(df, "algorithm") THEN [algorithm |-> AlgorithmLine(df)] ELSE Nothing
           plain == Overlay(head, given)
           words == Overlay(timer, algorithm)
           lines == Lines(k, args)
           shown == Shown(c, object, fields)
           line == Or(Shown(c, object, {"algorithm"}), "algorithm", Nothing)
           hold == Shown(c, object, {"holdTime"})
           election == Overlay(line, hold)
           elected == IF election = Nothing THEN Nothing ELSE [designatedForwarder |-> election]
           found == Found(k, args, c)
<1>1. k \in OneObjectKinds
    BY DEF OneObjectKinds, RebuildKinds
<1>2. lines = Overlay(plain, words)
    BY DEF Lines, EvpnEthernetSegmentLines, ElectionLines
<1>3. found = Overlay(shown, elected)
    BY DEF Found, EvpnEthernetSegmentFound, AlgorithmOnDevice
<1>4. ShowsLines(c, object, lines) /\ IsAFunction(args)
    BY <1>1, OneShowsLines
<1>5. DOMAIN head = {"header"}
    OBVIOUS
<1>6. \A f \in DOMAIN given : f \in fields /\ f \in DOMAIN args /\ given[f] = args[f]
    BY GivenFrom
<1>7. /\ \A f \in DOMAIN timer : f \in {"holdTime"} /\ f \in DOMAIN df /\ timer[f] = df[f]
      /\ "holdTime" \in DOMAIN df => "holdTime" \in DOMAIN timer
    BY GivenFrom, GivenValues
<1>8. /\ \A f \in DOMAIN algorithm : f = "algorithm" /\ "algorithm" \in DOMAIN df
                                     /\ algorithm[f] = AlgorithmLine(df)
      /\ "algorithm" \in DOMAIN df => "algorithm" \in DOMAIN algorithm
    BY NothingDomain DEF Has
<1> HIDE DEF head, given, timer, algorithm, df, lines, shown, line, hold, elected, found, object
<1>9. \A f \in DOMAIN plain : f \in {"header"} \/ (f \in fields /\ f \in DOMAIN args /\ plain[f] = args[f])
    BY <1>5, <1>6, OverlayFrom
<1>10. "header" \in DOMAIN plain
    BY <1>5, OverlayValues
<1>11. /\ \A f \in DOMAIN words :
            \/ f = "algorithm" /\ f \in DOMAIN df /\ words[f] = AlgorithmLine(df)
            \/ f = "holdTime" /\ f \in DOMAIN df /\ words[f] = df[f]
       /\ \A f \in {"algorithm", "holdTime"} : f \in DOMAIN df => f \in DOMAIN words
    <2>1. \A f \in DOMAIN words :
            \/ f = "algorithm" /\ f \in DOMAIN df /\ words[f] = AlgorithmLine(df)
            \/ f = "holdTime" /\ f \in DOMAIN df /\ words[f] = df[f]
        BY <1>7, <1>8, OverlayFrom
    <2>2. \A f \in {"algorithm", "holdTime"} : f \in DOMAIN df => f \in DOMAIN words
        BY <1>7, <1>8, OverlayValues
    <2> QED
        BY <2>1, <2>2
<1> HIDE DEF plain, words
<1>12. /\ "header" \in DOMAIN lines
       /\ \A f \in fields : f \in DOMAIN lines => f \in DOMAIN args /\ lines[f] = args[f]
       /\ \A f \in {"algorithm", "holdTime"} : f \in DOMAIN lines <=> f \in DOMAIN df
       /\ "algorithm" \in DOMAIN lines => lines["algorithm"] = AlgorithmLine(df)
       /\ "holdTime" \in DOMAIN lines => lines["holdTime"] = df["holdTime"]
    <2>1. \A f \in DOMAIN lines : \/ f \in DOMAIN words /\ lines[f] = words[f]
                                  \/ f \in DOMAIN plain /\ f \notin DOMAIN words /\ lines[f] = plain[f]
        BY <1>2, OverlayFrom
    <2>2. \A f \in DOMAIN plain \cup DOMAIN words : f \in DOMAIN lines
        BY <1>2, OverlayValues
    <2> QED
        BY <1>9, <1>10, <1>11, <2>1, <2>2
<1>13. \A f \in {"algorithm", "holdTime"} : ~IsDefault(f, lines[f])
    BY NeverDefault DEF Default
<1>14. line = AlgorithmOf(df)
    <2> DEFINE shownLine == Shown(c, object, {"algorithm"})
    <2>1. /\ \A f : f \in DOMAIN shownLine <=>
                f \in {"algorithm"} /\ f \in DOMAIN lines /\ ~IsDefault(f, lines[f])
          /\ \A f \in DOMAIN shownLine : shownLine[f] = lines[f]
        BY <1>4, ShownBack
    <2> HIDE DEF shownLine
    <2>2. "algorithm" \in DOMAIN shownLine <=> "algorithm" \in DOMAIN df
        BY <1>12, <1>13, <2>1
    <2>3. "algorithm" \in DOMAIN shownLine => shownLine["algorithm"] = AlgorithmLine(df)
        BY <1>12, <2>1
    <2>4. line = Or(shownLine, "algorithm", Nothing)
        BY DEF line, shownLine
    <2> QED
        BY <2>2, <2>3, <2>4 DEF AlgorithmOf, Or, Has
<1>15. /\ \A f : f \in DOMAIN hold <=> f \in {"holdTime"} /\ f \in DOMAIN df
       /\ \A f \in DOMAIN hold : hold[f] = df[f]
    <2>1. /\ \A f : f \in DOMAIN hold <=>
                f \in {"holdTime"} /\ f \in DOMAIN lines /\ ~IsDefault(f, lines[f])
          /\ \A f \in DOMAIN hold : hold[f] = lines[f]
        BY <1>4, ShownBack DEF hold
    <2> QED
        BY <1>12, <1>13, <2>1
<1>16. \A f \in DOMAIN elected : f \in DOMAIN args /\ elected[f] = args[f]
    <2>1. CASE Has(args, "designatedForwarder")
        <3>1. df = args["designatedForwarder"]
            BY <2>1 DEF df, Or
        <3>2. ElectionGiven(df)
            BY <2>1, <3>1 DEF ElectionGiven, AsGiven, Decoded, EvpnEthernetSegmentValid
        <3>3. election = df /\ df # Nothing
            BY <1>14, <1>15, <3>2, ElectionComesBack
        <3>4. elected = [designatedForwarder |-> df]
            BY <3>3 DEF elected
        <3> QED
            BY <2>1, <3>1, <3>4 DEF Has
    <2>2. CASE ~Has(args, "designatedForwarder")
        <3>1. df = Nothing /\ DOMAIN df = {}
            BY <2>2, NothingDomain DEF df, Or
        <3>2. line = Nothing /\ DOMAIN hold = {}
            BY <1>14, <1>15, <3>1 DEF AlgorithmOf, Has
        <3>3. DOMAIN election = {}
            <4>1. DOMAIN line = {}
                BY <3>2, NothingDomain
            <4>2. DOMAIN election = DOMAIN line \cup DOMAIN hold
                BY OverlayDomain
            <4>3. DOMAIN hold = {}
                BY <3>2
            <4> HIDE DEF election
            <4> QED
                BY <4>1, <4>2, <4>3
        <3>4. election = Nothing
            BY <3>3, NothingDomain DEF Overlay, Nothing
        <3> QED
            BY <3>4, NothingDomain DEF elected
    <2> QED
        BY <2>1, <2>2
<1>17. \A f \in DOMAIN shown : f \in DOMAIN args /\ shown[f] = args[f]
    <2>1. /\ \A f : f \in DOMAIN shown <=>
                f \in fields /\ f \in DOMAIN lines /\ ~IsDefault(f, lines[f])
          /\ \A f \in DOMAIN shown : shown[f] = lines[f]
        BY <1>4, ShownBack DEF shown
    <2> QED
        BY <1>12, <2>1
<1>18. \A f \in DOMAIN found : f \in DOMAIN args /\ found[f] = args[f]
    BY <1>3, <1>16, <1>17, OverlayFrom
<1>19. ~Missing(k, args, c)
    <2>1. Exists(c, object)
        BY <1>1, <1>12, HeaderIsThere DEF lines, object
    <2> QED
        BY <2>1 DEF Missing, object
<1> QED
    BY <1>1, <1>4, <1>18, <1>19, OneReadsSame DEF found

-----------------------------------------------------------------------------
(***************************************************************************)
(* Tables: rows that are given in order of their keys come back in it.     *)
(***************************************************************************)
FieldsOf(s, field) == {s[i][field] : i \in DOMAIN s}

LEMMA FieldsRising ==
    ASSUME NEW s, NEW field, Rising(s, field)
    PROVE  /\ Ascending(FieldsOf(s, field)) = [i \in DOMAIN s |-> s[i][field]]
           /\ \A i \in DOMAIN s : (CHOOSE e \in ToSet(s) : e[field] = s[i][field]) = s[i]
<1> DEFINE t == [i \in DOMAIN s |-> s[i][field]]
<1>1. /\ Len(s) \in Nat /\ DOMAIN s = 1 .. Len(s)
      /\ \A i \in DOMAIN s : s[i][field] \in Int
      /\ \A i, j \in DOMAIN s : i < j => s[i][field] < s[j][field]
    BY ListOfMembers DEF Rising
<1>2. t \in Seq(Int) /\ DOMAIN t = DOMAIN s
    BY <1>1
<1>3. \A i \in DOMAIN s : t[i] = s[i][field]
    OBVIOUS
<1>4. ToSet(t) = FieldsOf(s, field)
    BY DEF ToSet, FieldsOf
<1> HIDE DEF t
<1>5. Ascending(FieldsOf(s, field)) = t
    BY <1>1, <1>2, <1>3, <1>4, AscendingOfRising
<1>6. \A i, j \in DOMAIN s : s[i][field] = s[j][field] => i = j
    BY <1>1
<1>7. ASSUME NEW i \in DOMAIN s
      PROVE  (CHOOSE e \in ToSet(s) : e[field] = s[i][field]) = s[i]
    <2> DEFINE P(e) == e \in ToSet(s) /\ e[field] = s[i][field]
    <2>1. P(s[i])
        BY DEF ToSet
    <2>2. \A e : P(e) => e = s[i]
        BY <1>6 DEF ToSet
    <2> HIDE DEF P
    <2>3. (CHOOSE e : P(e)) = s[i]
        BY <2>1, <2>2
    <2>4. (CHOOSE e \in ToSet(s) : e[field] = s[i][field]) = (CHOOSE e : P(e))
        BY DEF P
    <2> QED
        BY <2>3, <2>4
<1> QED
    BY <1>5, <1>7 DEF t

LEMMA VxlanKeys ==
    ASSUME NEW args
    PROVE  /\ \A r \in DOMAIN Rows("vxlanInterface", args) : r = <<r[1], r[2]>>
           /\ KeysOf(Rows("vxlanInterface", args), "vlanVniMap") = VlanIds(Or(args, "vlanVniMap", <<>>))
           /\ KeysOf(Rows("vxlanInterface", args), "vrfVniMap") = Vrfs(Or(args, "vrfVniMap", <<>>))
<1> DEFINE vlans == VlanIds(Or(args, "vlanVniMap", <<>>))
           vrfs == Vrfs(Or(args, "vrfVniMap", <<>>))
           rows == Rows("vxlanInterface", args)
<1>1. DOMAIN rows = ({"vlanVniMap"} \X vlans) \cup ({"vrfVniMap"} \X vrfs)
    BY DEF Rows, VxlanRows
<1> HIDE DEF vlans, vrfs, rows
<1>2. \A r \in DOMAIN rows : r = <<r[1], r[2]>>
    BY <1>1
<1>3. KeysOf(rows, "vlanVniMap") = vlans
    <2>1. \A r \in DOMAIN rows : r[1] = "vlanVniMap" => r[2] \in vlans
        BY <1>1
    <2>2. \A key \in vlans : LET r == <<"vlanVniMap", key>>
                            IN  r \in DOMAIN rows /\ r[1] = "vlanVniMap" /\ r[2] = key
        BY <1>1
    <2> QED
        BY <2>1, <2>2 DEF KeysOf
<1>4. KeysOf(rows, "vrfVniMap") = vrfs
    <2>1. \A r \in DOMAIN rows : r[1] = "vrfVniMap" => r[2] \in vrfs
        BY <1>1
    <2>2. \A key \in vrfs : LET r == <<"vrfVniMap", key>>
                           IN  r \in DOMAIN rows /\ r[1] = "vrfVniMap" /\ r[2] = key
        BY <1>1
    <2> QED
        BY <2>1, <2>2 DEF KeysOf
<1> QED
    BY <1>2, <1>3, <1>4 DEF rows, vlans, vrfs

LEMMA VxlanLineNames ==
    ASSUME NEW args
    PROVE  \A f \in DOMAIN Lines("vxlanInterface", args) :
                f \in {"header", "floodVteps"} \cup VxlanFields /\ f \notin VniTables
<1> DEFINE head == [header |-> "on"]
           given == Given(args, VxlanFields)
           plain == Overlay(head, given)
           flood == [f \in {"floodVteps"} \cap DOMAIN args |-> Ascending(ToSet(args.floodVteps))]
<1>1. Lines("vxlanInterface", args) = Overlay(plain, flood)
    BY DEF Lines, VxlanLines
<1>2. DOMAIN head = {"header"} /\ DOMAIN given \subseteq VxlanFields /\ DOMAIN flood \subseteq {"floodVteps"}
    BY GivenDomain
<1> HIDE DEF head, given, flood
<1>3. \A f \in DOMAIN plain : f \in {"header"} \cup VxlanFields
    BY <1>2, OverlayDomain
<1> HIDE DEF plain
<1>4. \A f \in DOMAIN Overlay(plain, flood) : f \in {"header", "floodVteps"} \cup VxlanFields
    BY <1>2, <1>3, OverlayDomain
<1> QED
    BY <1>1, <1>4 DEF VxlanFields, VniTables


LEMMA VlansComeBack ==
    ASSUME NEW args, NEW c, AsGiven("vxlanInterface", args, c),
           Rising(Or(args, "vlanVniMap", <<>>), "vlanId"),
           \A i \in DOMAIN Or(args, "vlanVniMap", <<>>) :
                IsARecord(Or(args, "vlanVniMap", <<>>)[i], {"vlanId", "vni"})
    PROVE  VlansFound(c, Object("vxlanInterface", args)) = Or(args, "vlanVniMap", <<>>)
<1> DEFINE k == "vxlanInterface"
           object == Object(k, args)
           s == Or(args, "vlanVniMap", <<>>)
           rows == Rows(k, args)
           ids == Ascending(ShownKeys(c, object, "vlanVniMap"))
           row(key) == [vlanId |-> key, vni |-> c[<<object, "vlanVniMap", key>>]]
<1>1. k \in OneObjectKinds /\ "vlanVniMap" \notin DOMAIN Default
    BY DEF OneObjectKinds, MergeKinds, Default
<1>2. ShownKeys(c, object, "vlanVniMap") = FieldsOf(s, "vlanId") /\ ShowsRows(c, object, "vlanVniMap", rows)
    <2>1. InSync(k, args, c)
        BY DEF AsGiven
    <2>2. "vlanVniMap" \notin DOMAIN Lines(k, args)
        BY VxlanLineNames DEF VniTables
    <2>3. ShownKeys(c, object, "vlanVniMap") = KeysOf(rows, "vlanVniMap")
        BY <1>1, <2>1, <2>2, SyncedKeys
    <2>4. ShowsRows(c, object, "vlanVniMap", rows)
        BY <1>1, <2>1, VxlanKeys, SyncedRows
    <2>5. KeysOf(rows, "vlanVniMap") = FieldsOf(s, "vlanId")
        BY VxlanKeys DEF VlanIds, FieldsOf
    <2> QED
        BY <2>3, <2>4, <2>5
<1> HIDE DEF rows, object
<1>3. DOMAIN ids = DOMAIN s /\ \A i \in DOMAIN s : ids[i] = s[i]["vlanId"]
    BY <1>2, FieldsRising
<1>4. \A i \in DOMAIN s : row(s[i]["vlanId"]) = s[i]
    <2> SUFFICES ASSUME NEW i \in DOMAIN s
                 PROVE  row(s[i]["vlanId"]) = s[i]
        OBVIOUS
    <2> DEFINE key == s[i]["vlanId"]
    <2>1. key \in VlanIds(s)
        BY DEF VlanIds
    <2>2. (CHOOSE e \in ToSet(s) : e["vlanId"] = key) = s[i]
        BY FieldsRising
    <2> HIDE DEF key
    <2>3. <<"vlanVniMap", key>> \in DOMAIN rows /\ rows[<<"vlanVniMap", key>>] = s[i]["vni"]
        <3>1. /\ <<"vlanVniMap", key>> \in DOMAIN Rows("vxlanInterface", args)
              /\ Rows("vxlanInterface", args)[<<"vlanVniMap", key>>] =
                    (CHOOSE e \in ToSet(s) : e["vlanId"] = key)["vni"]
            BY <2>1, VxlanTables
        <3> QED
            BY <2>2, <3>1 DEF rows
    <2>4. c[<<object, "vlanVniMap", key>>] = s[i]["vni"]
        BY <1>2, <2>3 DEF ShowsRows
    <2>5. DOMAIN s[i] = {"vlanId", "vni"} /\ s[i] = [f \in DOMAIN s[i] |-> s[i][f]]
        BY DEF IsARecord, IsAFunction
    <2> HIDE DEF s
    <2>6. s[i] = [vlanId |-> s[i]["vlanId"], vni |-> s[i]["vni"]]
        BY <2>5
    <2> QED
        BY <2>4, <2>6 DEF key
<1>5. s = [i \in DOMAIN s |-> s[i]]
    BY ListOfMembers DEF Rising
<1>6. VlansFound(c, object) = [i \in DOMAIN ids |-> row(ids[i])]
    BY DEF VlansFound
<1> HIDE DEF ids, row, s
<1>7. [i \in DOMAIN ids |-> row(ids[i])] = [i \in DOMAIN s |-> s[i]]
    BY <1>3, <1>4
<1> QED
    BY <1>5, <1>6, <1>7 DEF object, s


LEMMA VrfsComeBack ==
    ASSUME NEW args, NEW c, AsGiven("vxlanInterface", args, c),
           Rising(Or(args, "vrfVniMap", <<>>), "vrf"),
           \A i \in DOMAIN Or(args, "vrfVniMap", <<>>) :
                IsARecord(Or(args, "vrfVniMap", <<>>)[i], {"vrf", "vni"})
    PROVE  VrfsFound(c, Object("vxlanInterface", args)) = Or(args, "vrfVniMap", <<>>)
<1> DEFINE k == "vxlanInterface"
           object == Object(k, args)
           s == Or(args, "vrfVniMap", <<>>)
           rows == Rows(k, args)
           ids == Ascending(ShownKeys(c, object, "vrfVniMap"))
           row(key) == [vrf |-> key, vni |-> c[<<object, "vrfVniMap", key>>]]
<1>1. k \in OneObjectKinds /\ "vrfVniMap" \notin DOMAIN Default
    BY DEF OneObjectKinds, MergeKinds, Default
<1>2. ShownKeys(c, object, "vrfVniMap") = FieldsOf(s, "vrf") /\ ShowsRows(c, object, "vrfVniMap", rows)
    <2>1. InSync(k, args, c)
        BY DEF AsGiven
    <2>2. "vrfVniMap" \notin DOMAIN Lines(k, args)
        BY VxlanLineNames DEF VniTables
    <2>3. ShownKeys(c, object, "vrfVniMap") = KeysOf(rows, "vrfVniMap")
        BY <1>1, <2>1, <2>2, SyncedKeys
    <2>4. ShowsRows(c, object, "vrfVniMap", rows)
        BY <1>1, <2>1, VxlanKeys, SyncedRows
    <2>5. KeysOf(rows, "vrfVniMap") = FieldsOf(s, "vrf")
        BY VxlanKeys DEF Vrfs, FieldsOf
    <2> QED
        BY <2>3, <2>4, <2>5
<1> HIDE DEF rows, object
<1>3. DOMAIN ids = DOMAIN s /\ \A i \in DOMAIN s : ids[i] = s[i]["vrf"]
    BY <1>2, FieldsRising
<1>4. \A i \in DOMAIN s : row(s[i]["vrf"]) = s[i]
    <2> SUFFICES ASSUME NEW i \in DOMAIN s
                 PROVE  row(s[i]["vrf"]) = s[i]
        OBVIOUS
    <2> DEFINE key == s[i]["vrf"]
    <2>1. key \in Vrfs(s)
        BY DEF Vrfs
    <2>2. (CHOOSE e \in ToSet(s) : e["vrf"] = key) = s[i]
        BY FieldsRising
    <2> HIDE DEF key
    <2>3. <<"vrfVniMap", key>> \in DOMAIN rows /\ rows[<<"vrfVniMap", key>>] = s[i]["vni"]
        <3>1. /\ <<"vrfVniMap", key>> \in DOMAIN Rows("vxlanInterface", args)
              /\ Rows("vxlanInterface", args)[<<"vrfVniMap", key>>] =
                    (CHOOSE e \in ToSet(s) : e["vrf"] = key)["vni"]
            BY <2>1, VxlanTables
        <3> QED
            BY <2>2, <3>1 DEF rows
    <2>4. c[<<object, "vrfVniMap", key>>] = s[i]["vni"]
        BY <1>2, <2>3 DEF ShowsRows
    <2>5. DOMAIN s[i] = {"vrf", "vni"} /\ s[i] = [f \in DOMAIN s[i] |-> s[i][f]]
        BY DEF IsARecord, IsAFunction
    <2> HIDE DEF s
    <2>6. s[i] = [vrf |-> s[i]["vrf"], vni |-> s[i]["vni"]]
        BY <2>5
    <2> QED
        BY <2>4, <2>6 DEF key
<1>5. s = [i \in DOMAIN s |-> s[i]]
    BY ListOfMembers DEF Rising
<1>6. VrfsFound(c, object) = [i \in DOMAIN ids |-> row(ids[i])]
    BY DEF VrfsFound
<1> HIDE DEF ids, row, s
<1>7. [i \in DOMAIN ids |-> row(ids[i])] = [i \in DOMAIN s |-> s[i]]
    BY <1>3, <1>4
<1> QED
    BY <1>5, <1>6, <1>7 DEF object, s

\* what the inputs of a VXLAN interface say in the order of the device
VxlanRising(args) ==
    /\ Rising(Or(args, "vlanVniMap", <<>>), "vlanId")
    /\ Rising(Or(args, "vrfVniMap", <<>>), "vrf")
    /\ Has(args, "floodVteps") =>
        /\ args.floodVteps \in Seq(Int)
        /\ \A i, j \in DOMAIN args.floodVteps : i < j => args.floodVteps[i] < args.floodVteps[j]

LEMMA ListsShown ==
    ASSUME NEW args, NEW lists, \A f \in DOMAIN lists : lists[f] = Or(args, f, <<>>)
    PROVE  \A f \in DOMAIN NonEmpty(lists) :
                f \in DOMAIN args /\ NonEmpty(lists)[f] = args[f]
BY DEF NonEmpty, Or, Has

LEMMA VxlanRoundTrip ==
    ASSUME NEW args, NEW c, AsGiven("vxlanInterface", args, c), VxlanRising(args)
    PROVE  ReadBack("vxlanInterface", args, c) = args
<1> DEFINE k == "vxlanInterface"
           object == Object(k, args)
           knobs == VxlanFields \cup {"floodVteps"}
           head == [header |-> "on"]
           given == Given(args, VxlanFields)
           plain == Overlay(head, given)
           flood == [f \in {"floodVteps"} \cap DOMAIN args |-> Ascending(ToSet(args.floodVteps))]
           lines == Lines(k, args)
           shown == Shown(c, object, knobs)
           lists == [vlanVniMap |-> VlansFound(c, object), vrfVniMap |-> VrfsFound(c, object)]
           tables == NonEmpty(lists)
           found == Found(k, args, c)
<1>1. k \in OneObjectKinds
    BY DEF OneObjectKinds, MergeKinds
<1>2. lines = Overlay(plain, flood)
    BY DEF Lines, VxlanLines
<1>3. found = Overlay(shown, tables)
    BY DEF Found, VxlanFound
<1>4. ShowsLines(c, object, lines) /\ IsAFunction(args)
    BY <1>1, OneShowsLines
<1>5. \A f \in DOMAIN flood : f \in DOMAIN args /\ flood[f] = args[f]
    <2>1. Has(args, "floodVteps") => Ascending(ToSet(args.floodVteps)) = args.floodVteps
        BY AscendingOfRising DEF VxlanRising
    <2> QED
        BY <2>1 DEF Has
<1>6. DOMAIN head = {"header"} /\ \A f \in DOMAIN given : f \in DOMAIN args /\ given[f] = args[f]
    BY GivenFrom
<1> HIDE DEF head, given, flood
<1>7. "header" \in DOMAIN plain
      /\ \A f \in DOMAIN plain : f = "header" \/ (f \in DOMAIN args /\ plain[f] = args[f])
    <2>1. "header" \in DOMAIN plain
        BY <1>6, OverlayValues
    <2>2. \A f \in DOMAIN plain : f = "header" \/ (f \in DOMAIN args /\ plain[f] = args[f])
        BY <1>6, OverlayFrom
    <2> QED
        BY <2>1, <2>2
<1> HIDE DEF plain, lines, found
<1>8. "header" \in DOMAIN lines
    BY <1>2, <1>7, OverlayValues
<1>9. \A f \in DOMAIN lines : f = "header" \/ (f \in DOMAIN args /\ lines[f] = args[f])
    BY <1>2, <1>5, <1>7, OverlayFrom
<1>10. \A f \in DOMAIN shown : f \in DOMAIN args /\ shown[f] = args[f]
    <2>1. /\ \A f : f \in DOMAIN shown <=> f \in knobs /\ f \in DOMAIN lines /\ ~IsDefault(f, lines[f])
          /\ \A f \in DOMAIN shown : shown[f] = lines[f]
        BY <1>4, ShownBack
    <2>2. "header" \notin knobs
        BY DEF VxlanFields
    <2> HIDE DEF shown, knobs
    <2> QED
        BY <1>9, <2>1, <2>2
<1>11. \A f \in DOMAIN lists : lists[f] = Or(args, f, <<>>)
    <2>1. VlansFound(c, object) = Or(args, "vlanVniMap", <<>>)
        <3>1. \A i \in DOMAIN Or(args, "vlanVniMap", <<>>) :
                IsARecord(Or(args, "vlanVniMap", <<>>)[i], {"vlanId", "vni"})
            BY DEF AsGiven, Decoded, Items, Or, Has
        <3> QED
            BY <3>1, VlansComeBack DEF VxlanRising
    <2>2. VrfsFound(c, object) = Or(args, "vrfVniMap", <<>>)
        <3>1. \A i \in DOMAIN Or(args, "vrfVniMap", <<>>) :
                IsARecord(Or(args, "vrfVniMap", <<>>)[i], {"vrf", "vni"})
            BY DEF AsGiven, Decoded, Items, Or, Has
        <3> QED
            BY <3>1, VrfsComeBack DEF VxlanRising
    <2> HIDE DEF object
    <2>3. DOMAIN lists = {"vlanVniMap", "vrfVniMap"}
          /\ lists["vlanVniMap"] = VlansFound(c, object) /\ lists["vrfVniMap"] = VrfsFound(c, object)
        OBVIOUS
    <2> HIDE DEF lists
    <2> QED
        BY <2>1, <2>2, <2>3
<1> HIDE DEF lists, shown
<1>12. \A f \in DOMAIN tables : f \in DOMAIN args /\ tables[f] = args[f]
    BY <1>11, ListsShown
<1> HIDE DEF tables
<1>13. \A f \in DOMAIN found : f \in DOMAIN args /\ found[f] = args[f]
    BY <1>3, <1>10, <1>12, OverlayFrom
<1>14. ~Missing(k, args, c)
    <2>1. Exists(c, object)
        BY <1>1, <1>8, HeaderIsThere DEF lines
    <2> QED
        BY <2>1 DEF Missing
<1> QED
    BY <1>1, <1>4, <1>13, <1>14, OneReadsSame DEF found

-----------------------------------------------------------------------------
(***************************************************************************)
(* VRRP groups.  Addresses that are given in the device's order are the    *)
(* IPv4 ones, the primary one first, and then the IPv6 ones.               *)
(***************************************************************************)
AddressesInOrder(args) ==
    LET a == AddressList(args)
    IN  /\ IsAList(a) /\ \A i \in DOMAIN a : a[i] \in {4, 6} \X Int
        /\ \A i \in PrimaryPlaces(args) : i = 1
        /\ \A i, j \in DOMAIN a \ PrimaryPlaces(args) : i < j =>
                \/ a[i][1] < a[j][1]
                \/ (a[i][1] = a[j][1] /\ a[i][2] < a[j][2])

\* the first m places are those of IPv4
FirstPlaces(args, m) ==
    /\ m \in 0 .. Len(AddressList(args))
    /\ IPv4Places(args) = 1 .. m
    /\ PrimaryPlaces(args) = IF m = 0 THEN {} ELSE {1}

LEMMA IPv4First ==
    ASSUME NEW args, AddressesInOrder(args)
    PROVE  \E m : FirstPlaces(args, m)
<1> DEFINE a == AddressList(args)
           F == IPv4Places(args)
           P == PrimaryPlaces(args)
<1>1. /\ Len(a) \in Nat /\ DOMAIN a = 1 .. Len(a)
      /\ \A i \in DOMAIN a : a[i][1] \in {4, 6}
      /\ \A i \in P : i = 1
      /\ \A i, j \in DOMAIN a \ P : i < j => a[i][1] <= a[j][1]
    <2>1. IsAList(a) /\ \A i \in DOMAIN a : a[i][1] \in {4, 6}
        BY DEF AddressesInOrder
    <2>2. \A i \in P : i = 1
        BY DEF AddressesInOrder
    <2>3. \A i, j \in DOMAIN a \ P : i < j => a[i][1] < a[j][1] \/ a[i][1] = a[j][1]
        BY DEF AddressesInOrder
    <2>4. Len(a) \in Nat /\ DOMAIN a = 1 .. Len(a)
        BY <2>1, ListOfMembers
    <2> QED
        BY <2>1, <2>2, <2>3, <2>4
<1>2. F = {i \in DOMAIN a : a[i][1] = 4} /\ P = {i \in F : \A j \in F : i <= j}
    BY DEF IPv4Places, PrimaryPlaces
<1> HIDE DEF a, F, P
<1>3. CASE F = {}
    <2>1. P = {} /\ F = 1 .. 0
        BY <1>2, <1>3
    <2>2. 0 \in 0 .. Len(a)
        BY <1>1
    <2>3. FirstPlaces(args, 0)
        BY <2>1, <2>2 DEF FirstPlaces, F, P, a
    <2> QED
        BY <2>3
<1>4. CASE F # {}
    <2>1. IsFiniteSet(F) /\ F \subseteq Nat
        <3>1. IsFiniteSet(1 .. Len(a))
            BY <1>1, FS_Interval
        <3> QED
            BY <1>1, <1>2, <3>1, FS_Subset
    <2>2. 1 \in F /\ P = {1}
        <3> DEFINE key == [i \in F |-> -i]
        <3>1. \A i \in F : key[i] = -i /\ key[i] \in Int
            BY <2>1
        <3> HIDE DEF key
        <3>2. PICK i \in F : \A j \in F : key[j] <= key[i]
            BY <1>4, <2>1, <3>1, GreatestExists
        <3>3. \A j \in F : i <= j
            BY <2>1, <3>1, <3>2
        <3>4. i \in P
            BY <1>2, <3>3
        <3> QED
            BY <1>1, <1>2, <3>4
    <2>3. PICK m \in F : \A i \in F : i <= m
        <3> DEFINE key == [i \in F |-> i]
        <3>1. \A i \in F : key[i] = i /\ key[i] \in Int
            BY <2>1
        <3> HIDE DEF key
        <3>2. PICK m \in F : \A i \in F : key[i] <= key[m]
            BY <1>4, <2>1, <3>1, GreatestExists
        <3> QED
            BY <3>1, <3>2
    <2>4. m \in Nat /\ m >= 1 /\ m <= Len(a) /\ a[m][1] = 4
        BY <1>1, <1>2, <2>3
    <2>5. ASSUME NEW i \in 1 .. m
          PROVE  i \in F
        <3>1. i \in DOMAIN a /\ m \in DOMAIN a
            BY <1>1, <2>4
        <3>2. CASE i = 1 \/ i = m
            BY <2>2, <2>3, <3>2
        <3>3. CASE i # 1 /\ i # m
            <4>1. i < m /\ i \notin P /\ m \notin P
                BY <2>2, <2>4, <3>3
            <4>2. a[i][1] <= 4
                BY <1>1, <2>4, <3>1, <4>1
            <4>3. a[i][1] = 4
                BY <1>1, <3>1, <4>2
            <4> QED
                BY <1>2, <3>1, <4>3
        <3> QED
            BY <3>2, <3>3
    <2>6. F = 1 .. m
        <3>1. \A i \in F : i \in 1 .. m
            BY <1>1, <1>2, <2>3, <2>4
        <3> QED
            BY <2>5, <3>1
    <2>7. FirstPlaces(args, m)
        <3>1. m \in 0 .. Len(a) /\ m # 0
            BY <1>1, <2>4
        <3> QED
            BY <2>2, <2>6, <3>1 DEF FirstPlaces, F, P, a
    <2> QED
        BY <2>7
<1> QED
    BY <1>3, <1>4

\* A table of a group whose rows are some places of the addresses is shown in
\* the order of these.
OnePart(args, from, to) ==
    /\ from <= to /\ to <= Len(AddressList(args))
    /\ \A i \in from + 1 .. to : i \notin PrimaryPlaces(args)
    /\ \A i, j \in from + 1 .. to : AddressList(args)[i][1] = AddressList(args)[j][1]

PlacedIn(args, from, to) == {AddressList(args)[i] : i \in from + 1 .. to}

ListedIn(args, from, to) == [i \in 1 .. to - from |-> AddressList(args)[from + i]]

ByNumber(K) == InOrder(K, [e \in K |-> e[2]])

LEMMA PlacesSorted ==
    ASSUME NEW args, AddressesInOrder(args), NEW from \in Nat, NEW to \in Nat,
           OnePart(args, from, to)
    PROVE  ByNumber(PlacedIn(args, from, to)) = ListedIn(args, from, to)
<1> DEFINE a == AddressList(args)
           K == PlacedIn(args, from, to)
           s == [i \in 1 .. to - from |-> a[from + i]]
           key == [e \in K |-> e[2]]
<1>1. /\ Len(a) \in Nat /\ DOMAIN a = 1 .. Len(a)
      /\ \A i \in DOMAIN a : a[i][2] \in Int
      /\ \A i, j \in DOMAIN a \ PrimaryPlaces(args) : i < j =>
            a[i][1] < a[j][1] \/ (a[i][1] = a[j][1] /\ a[i][2] < a[j][2])
      /\ \A i \in DOMAIN a : a[i][1] \in {4, 6}
    <2>1. IsAList(a) /\ \A i \in DOMAIN a : a[i][1] \in {4, 6} /\ a[i][2] \in Int
        BY DEF AddressesInOrder
    <2>2. \A i, j \in DOMAIN a \ PrimaryPlaces(args) : i < j =>
            a[i][1] < a[j][1] \/ (a[i][1] = a[j][1] /\ a[i][2] < a[j][2])
        BY DEF AddressesInOrder
    <2>3. Len(a) \in Nat /\ DOMAIN a = 1 .. Len(a)
        BY <2>1, ListOfMembers
    <2> QED
        BY <2>1, <2>2, <2>3
<1>2. /\ K = {a[i] : i \in from + 1 .. to} /\ from <= to /\ to <= Len(a)
      /\ \A i \in from + 1 .. to : i \notin PrimaryPlaces(args)
      /\ \A i, j \in from + 1 .. to : a[i][1] = a[j][1]
    BY DEF OnePart, PlacedIn
<1>3. \A i, j \in from + 1 .. to : i < j => a[i][2] < a[j][2]
    <2> SUFFICES ASSUME NEW i \in from + 1 .. to, NEW j \in from + 1 .. to, i < j
                 PROVE  a[i][2] < a[j][2]
        OBVIOUS
    <2>1. i \in DOMAIN a \ PrimaryPlaces(args) /\ j \in DOMAIN a \ PrimaryPlaces(args)
        BY <1>1, <1>2
    <2>2. a[i][1] = a[j][1] /\ a[i][1] \in {4, 6}
        BY <1>1, <1>2, <2>1
    <2> QED
        BY <1>1, <2>1, <2>2
<1>4. \A i \in from + 1 .. to : i \in DOMAIN a
    BY <1>1, <1>2
<1> HIDE DEF a, K
<1>5. ToSet(s) = K
    <2>1. \A i \in 1 .. to - from : from + i \in from + 1 .. to
        OBVIOUS
    <2>2. \A i \in from + 1 .. to : i - from \in 1 .. to - from /\ from + (i - from) = i
        OBVIOUS
    <2>3. ToSet(s) = {s[i] : i \in 1 .. to - from} /\ \A i \in 1 .. to - from : s[i] = a[from + i]
        BY DEF ToSet
    <2> HIDE DEF s
    <2>4. ToSet(s) \subseteq K
        BY <1>2, <2>1, <2>3
    <2>5. K \subseteq ToSet(s)
        BY <1>2, <2>2, <2>3
    <2> QED
        BY <2>4, <2>5
<1>6. s \in Seq(K)
    <2>1. \A i \in 1 .. to - from : from + i \in from + 1 .. to
        OBVIOUS
    <2>2. \A i \in 1 .. to - from : a[from + i] \in K
        BY <1>2, <2>1
    <2>3. to - from \in Nat
        BY <1>2
    <2> QED
        BY <2>2, <2>3
<1>7. \A e \in K : key[e] = e[2]
    OBVIOUS
<1>8. \A e \in K : key[e] \in Int
    BY <1>1, <1>2, <1>4, <1>7
<1>9. DOMAIN s = 1 .. to - from /\ \A i \in 1 .. to - from : s[i] = a[from + i] /\ s[i] \in K
    BY <1>6
<1> HIDE DEF key, s
<1>10. \A i, j \in DOMAIN s : i < j => key[s[i]] < key[s[j]]
    <2> SUFFICES ASSUME NEW i \in DOMAIN s, NEW j \in DOMAIN s, i < j
                 PROVE  key[s[i]] < key[s[j]]
        OBVIOUS
    <2>1. from + i \in from + 1 .. to /\ from + j \in from + 1 .. to /\ from + i < from + j
        BY <1>9
    <2>2. a[from + i][2] < a[from + j][2]
        BY <1>3, <2>1
    <2>3. key[s[i]] = a[from + i][2] /\ key[s[j]] = a[from + j][2]
        BY <1>7, <1>9
    <2> QED
        BY <2>2, <2>3
<1>11. InOrder(ToSet(s), key) = s
    BY <1>5, <1>6, <1>8, <1>10, InOrderOfRising
<1> QED
    BY <1>5, <1>11 DEF key, s, a, K, ByNumber, ListedIn

LEMMA VrrpKeys ==
    ASSUME NEW args
    PROVE  LET rows == Rows("vrrp", args)
               a == AddressList(args)
               tracks == Or(args, "tracks", <<>>)
           IN  /\ \A r \in DOMAIN rows : r = <<r[1], r[2]>>
               /\ KeysOf(rows, "secondary") = {a[i] : i \in IPv4Places(args) \ PrimaryPlaces(args)}
               /\ KeysOf(rows, "ipv6") = {a[i] : i \in DOMAIN a \ IPv4Places(args)}
               /\ KeysOf(rows, "track") = {t.interface : t \in Items(args, "tracks")}
               /\ \A name \in {t.interface : t \in Items(args, "tracks")} :
                    /\ <<"track", name>> \in DOMAIN rows
                    /\ rows[<<"track", name>>] = TrackLine(tracks[TrackOf(tracks, name)])
<1> DEFINE rows == Rows("vrrp", args)
           a == AddressList(args)
           tracks == Or(args, "tracks", <<>>)
           S == {a[i] : i \in IPv4Places(args) \ PrimaryPlaces(args)}
           V == {a[i] : i \in DOMAIN a \ IPv4Places(args)}
           T == {t.interface : t \in Items(args, "tracks")}
           row(name) == TrackLine(tracks[TrackOf(tracks, name)])
           D == {<<"secondary", a[i]>> : i \in IPv4Places(args) \ PrimaryPlaces(args)}
                    \cup {<<"ipv6", a[i]>> : i \in DOMAIN a \ IPv4Places(args)}
                    \cup {<<"track", t.interface>> : t \in Items(args, "tracks")}
<1>1. rows = [r \in D |-> IF r[1] = "track" THEN row(r[2]) ELSE "on"]
    BY DEF Rows, VrrpRows
<1>2. D = ({"secondary"} \X S) \cup ({"ipv6"} \X V) \cup ({"track"} \X T)
    <2> DEFINE I == IPv4Places(args) \ PrimaryPlaces(args)
               J == DOMAIN a \ IPv4Places(args)
               K == Items(args, "tracks")
    <2> HIDE DEF I, J, K, a
    <2>1. {<<"secondary", a[i]>> : i \in I} = {"secondary"} \X {a[i] : i \in I}
        OBVIOUS
    <2>2. {<<"ipv6", a[i]>> : i \in J} = {"ipv6"} \X {a[i] : i \in J}
        OBVIOUS
    <2>3. {<<"track", t.interface>> : t \in K} = {"track"} \X {t.interface : t \in K}
        OBVIOUS
    <2> QED
        BY <2>1, <2>2, <2>3 DEF I, J, K
<1> HIDE DEF rows, S, V, T, D, row
<1>3. DOMAIN rows = D
    BY <1>1
<1>4. \A r \in DOMAIN rows : r = <<r[1], r[2]>>
    BY <1>2, <1>3
<1>5. KeysOf(rows, "secondary") = S
    <2>1. \A r \in DOMAIN rows : r[1] = "secondary" => r[2] \in S
        BY <1>2, <1>3
    <2>2. \A key \in S : LET r == <<"secondary", key>>
                         IN  r \in DOMAIN rows /\ r[1] = "secondary" /\ r[2] = key
        BY <1>2, <1>3
    <2> QED
        BY <2>1, <2>2 DEF KeysOf
<1>6. KeysOf(rows, "ipv6") = V
    <2>1. \A r \in DOMAIN rows : r[1] = "ipv6" => r[2] \in V
        BY <1>2, <1>3
    <2>2. \A key \in V : LET r == <<"ipv6", key>>
                         IN  r \in DOMAIN rows /\ r[1] = "ipv6" /\ r[2] = key
        BY <1>2, <1>3
    <2> QED
        BY <2>1, <2>2 DEF KeysOf
<1>7. KeysOf(rows, "track") = T
    <2>1. \A r \in DOMAIN rows : r[1] = "track" => r[2] \in T
        BY <1>2, <1>3
    <2>2. \A key \in T : LET r == <<"track", key>>
                         IN  r \in DOMAIN rows /\ r[1] = "track" /\ r[2] = key
        BY <1>2, <1>3
    <2> QED
        BY <2>1, <2>2 DEF KeysOf
<1>8. \A name \in T : <<"track", name>> \in DOMAIN rows /\ rows[<<"track", name>>] = row(name)
    <2> SUFFICES ASSUME NEW name \in T
                 PROVE  <<"track", name>> \in DOMAIN rows /\ rows[<<"track", name>>] = row(name)
        OBVIOUS
    <2> DEFINE r == <<"track", name>>
    <2>1. r \in D /\ r[1] = "track" /\ r[2] = name
        BY <1>2
    <2> HIDE DEF r
    <2>2. r \in DOMAIN rows /\ rows[r] = row(r[2])
        BY <1>1, <2>1
    <2> QED
        BY <2>1, <2>2 DEF r
<1> QED
    BY <1>4, <1>5, <1>6, <1>7, <1>8 DEF rows, S, V, T, row

\* the lines of a group: fields of the inputs, a preemption that is on, and the
\* primary address
LEMMA VrrpLinesGive ==
    ASSUME NEW args
    PROVE  LET lines == Lines("vrrp", args)
           IN  /\ \A f \in DOMAIN lines : f \in VrrpFields \cup {"preempt", "primary"}
               /\ \A f \in VrrpFields : f \in DOMAIN lines => f \in DOMAIN args /\ lines[f] = args[f]
               /\ "preempt" \in DOMAIN lines => lines["preempt"] = TRUE
               /\ "primary" \in DOMAIN lines <=> PrimaryPlaces(args) # {}
               /\ "primary" \in DOMAIN lines =>
                    lines["primary"] = AddressList(args)[CHOOSE i \in PrimaryPlaces(args) : TRUE]
<1> DEFINE lines == Lines("vrrp", args)
           given == Given(args, VrrpFields)
           flags == OnOnly(args, {"preempt"})
           place == CHOOSE i \in PrimaryPlaces(args) : TRUE
           primary == [k \in {j \in {"primary"} : PrimaryPlaces(args) # {}} |-> AddressList(args)[place]]
           some == Overlay(given, flags)
<1>1. lines = Overlay(some, primary)
    BY DEF Lines, VrrpLines
<1>2. \A f \in DOMAIN given : f \in VrrpFields /\ f \in DOMAIN args /\ given[f] = args[f]
    BY GivenFrom
<1>3. \A f \in DOMAIN flags : f \in {"preempt"} /\ f \in DOMAIN args /\ args[f] /\ flags[f] = TRUE
    BY OnOnlyFrom
<1>4. /\ \A f \in DOMAIN primary : f = "primary" /\ PrimaryPlaces(args) # {}
                                   /\ primary[f] = AddressList(args)[place]
      /\ PrimaryPlaces(args) # {} => "primary" \in DOMAIN primary
    OBVIOUS
<1> HIDE DEF given, flags, primary, place, lines
<1>5. \A f \in DOMAIN some : \/ f = "preempt" /\ some[f] = TRUE
                             \/ f \in VrrpFields /\ f \in DOMAIN args /\ some[f] = args[f]
    BY <1>2, <1>3, OverlayFrom
<1> HIDE DEF some
<1>6. \A f \in DOMAIN lines : \/ f \in DOMAIN primary /\ lines[f] = primary[f]
                              \/ f \in DOMAIN some /\ f \notin DOMAIN primary /\ lines[f] = some[f]
    BY <1>1, OverlayFrom
<1>7. \A f \in DOMAIN primary : f \in DOMAIN lines /\ lines[f] = primary[f]
    BY <1>1, OverlayValues
<1>8. "preempt" \notin VrrpFields /\ "primary" \notin VrrpFields
    BY DEF VrrpFields
<1>9. \A f \in DOMAIN lines : f \in VrrpFields \cup {"preempt", "primary"}
    BY <1>4, <1>5, <1>6
<1>10. \A f \in VrrpFields : f \in DOMAIN lines => f \in DOMAIN args /\ lines[f] = args[f]
    BY <1>4, <1>5, <1>6, <1>8
<1>11. "preempt" \in DOMAIN lines => lines["preempt"] = TRUE
    BY <1>4, <1>5, <1>6, <1>8
<1>12. /\ "primary" \in DOMAIN lines <=> PrimaryPlaces(args) # {}
       /\ "primary" \in DOMAIN lines => lines["primary"] = AddressList(args)[place]
    BY <1>4, <1>5, <1>6, <1>7, <1>8
<1> QED
    BY <1>9, <1>10, <1>11, <1>12 DEF lines, place

LEMMA VrrpShowsTables ==
    ASSUME NEW args, NEW c, AsGiven("vrrp", args, c)
    PROVE  LET object == Object("vrrp", args)
               rows == Rows("vrrp", args)
           IN  /\ \A table \in VrrpTables : ShownKeys(c, object, table) = KeysOf(rows, table)
               /\ ShowsRows(c, object, "track", rows)
<1> DEFINE object == Object("vrrp", args)
           rows == Rows("vrrp", args)
<1>1. "vrrp" \in OneObjectKinds /\ InSync("vrrp", args, c)
    BY DEF OneObjectKinds, MergeKinds, AsGiven
<1>2. \A r \in DOMAIN rows : r = <<r[1], r[2]>>
    BY VrrpKeys
<1>3. \A table \in VrrpTables : table \notin DOMAIN Default /\ table # "header"
    BY DEF VrrpTables, Default
<1>4. \A table \in VrrpTables : table \notin DOMAIN Lines("vrrp", args)
    <2>1. \A f \in DOMAIN Lines("vrrp", args) : f \in VrrpFields \cup {"preempt", "primary"}
        BY VrrpLinesGive
    <2> QED
        BY <2>1 DEF VrrpTables, VrrpFields
<1>5. \A table \in VrrpTables : ShownKeys(c, object, table) = KeysOf(rows, table)
    BY <1>1, <1>3, <1>4, SyncedKeys
<1>6. "track" \notin DOMAIN Default
    BY DEF Default
<1>7. ShowsRows(c, object, "track", rows)
    BY <1>1, <1>2, <1>6, SyncedRows
<1> QED
    BY <1>5, <1>7

LEMMA AddressesComeBack ==
    ASSUME NEW args, NEW c, AsGiven("vrrp", args, c), AddressesInOrder(args)
    PROVE  VrrpAddressesFound(c, Object("vrrp", args)) = AddressList(args)
<1> DEFINE object == Object("vrrp", args)
           a == AddressList(args)
           A == {4, 6} \X Int
           shown == Shown(c, object, {"primary"})
           sorted(table) == InOrder(ShownKeys(c, object, table), [e \in ShownKeys(c, object, table) |-> e[2]])
           r == IF Has(shown, "primary") THEN <<shown.primary>> ELSE <<>>
           lines == Lines("vrrp", args)
<1>1. VrrpAddressesFound(c, object) = r \o sorted("secondary") \o sorted("ipv6")
    BY DEF VrrpAddressesFound
<1>2. PICK m : FirstPlaces(args, m)
    BY IPv4First
<1> DEFINE p == IF m = 0 THEN 0 ELSE 1
           s == [i \in 1 .. m - p |-> a[p + i]]
           t == [i \in 1 .. Len(a) - m |-> a[m + i]]
<1>3. /\ Len(a) \in Nat /\ DOMAIN a = 1 .. Len(a) /\ a = [i \in 1 .. Len(a) |-> a[i]]
      /\ \A i \in DOMAIN a : a[i] \in A
    <2>1. IsAList(a) /\ \A i \in DOMAIN a : a[i] \in A
        BY DEF AddressesInOrder
    <2> QED
        BY <2>1, ListOfMembers
<1>4. /\ m \in Nat /\ m <= Len(a) /\ p \in {0, 1} /\ p <= m /\ (p = 0 <=> m = 0)
      /\ IPv4Places(args) = 1 .. m /\ PrimaryPlaces(args) = 1 .. p
    <2>1. m \in 0 .. Len(a) /\ IPv4Places(args) = 1 .. m
        BY <1>2 DEF FirstPlaces
    <2>2. PrimaryPlaces(args) = IF m = 0 THEN {} ELSE {1}
        BY <1>2 DEF FirstPlaces
    <2>3. PrimaryPlaces(args) = 1 .. p
        <3>1. 1 .. 0 = {} /\ 1 .. 1 = {1}
            OBVIOUS
        <3> QED
            BY <2>2, <3>1
    <2> QED
        BY <1>3, <2>1, <2>3
<1>5. \A i \in 1 .. m : a[i][1] = 4
    BY <1>4 DEF IPv4Places
<1>6. \A i \in m + 1 .. Len(a) : a[i][1] = 6
    <2> SUFFICES ASSUME NEW i \in m + 1 .. Len(a)
                 PROVE  a[i][1] = 6
        OBVIOUS
    <2>1. i \in DOMAIN a /\ i \notin 1 .. m
        BY <1>3, <1>4
    <2>2. i \in DOMAIN a /\ i \notin IPv4Places(args)
        BY <1>4, <2>1
    <2>3. a[i][1] # 4 /\ a[i] \in A
        BY <1>3, <2>2 DEF IPv4Places
    <2> QED
        BY <2>3
<1>7. IPv4Places(args) \ PrimaryPlaces(args) = p + 1 .. m
      /\ DOMAIN a \ IPv4Places(args) = m + 1 .. Len(a)
    BY <1>3, <1>4
<1>8. ShownKeys(c, object, "secondary") = {a[i] : i \in p + 1 .. m}
    <2>1. "secondary" \in VrrpTables
        BY DEF VrrpTables
    <2> QED
        BY <1>7, <2>1, VrrpShowsTables, VrrpKeys
<1>9. ShownKeys(c, object, "ipv6") = {a[i] : i \in m + 1 .. Len(a)}
    <2>1. "ipv6" \in VrrpTables
        BY DEF VrrpTables
    <2> QED
        BY <1>7, <2>1, VrrpShowsTables, VrrpKeys
<1> HIDE DEF p
<1>10. sorted("secondary") = s
    <2> DEFINE K == ShownKeys(c, object, "secondary")
    <2>1. p \in Nat /\ p <= m /\ m <= Len(a) /\ m \in Nat
        BY <1>4
    <2>2. \A i \in p + 1 .. m : i \notin PrimaryPlaces(args)
        BY <1>4
    <2>3. \A i, j \in p + 1 .. m : a[i][1] = a[j][1]
        BY <1>4, <1>5
    <2>4. K = {a[i] : i \in p + 1 .. m}
        BY <1>8
    <2>5. OnePart(args, p, m)
        BY <2>1, <2>2, <2>3 DEF OnePart
    <2> HIDE DEF K
    <2>6. ByNumber(PlacedIn(args, p, m)) = ListedIn(args, p, m)
        BY <2>1, <2>5, PlacesSorted
    <2> QED
        BY <2>4, <2>6 DEF K, ByNumber, PlacedIn, ListedIn
<1>11. sorted("ipv6") = t
    <2> DEFINE K == ShownKeys(c, object, "ipv6")
               n == Len(a)
    <2>1. m \in Nat /\ m <= n /\ n <= Len(a) /\ n \in Nat
        BY <1>3, <1>4
    <2>2. \A i \in m + 1 .. n : i \notin PrimaryPlaces(args)
        BY <1>3, <1>4
    <2>3. \A i, j \in m + 1 .. n : a[i][1] = a[j][1]
        BY <1>6
    <2>4. K = {a[i] : i \in m + 1 .. n}
        BY <1>9
    <2>5. OnePart(args, m, n)
        BY <2>1, <2>2, <2>3 DEF OnePart
    <2> HIDE DEF K, n
    <2>6. ByNumber(PlacedIn(args, m, n)) = ListedIn(args, m, n)
        BY <2>1, <2>5, PlacesSorted
    <2> QED
        BY <2>4, <2>6 DEF K, ByNumber, PlacedIn, ListedIn, n
<1>12. r = IF p = 0 THEN <<>> ELSE <<a[1]>>
    <2>1. /\ \A f : f \in DOMAIN shown <=> f \in {"primary"} /\ f \in DOMAIN lines /\ ~IsDefault(f, lines[f])
          /\ \A f \in DOMAIN shown : shown[f] = lines[f]
        <3>1. "vrrp" \in OneObjectKinds
            BY DEF OneObjectKinds, MergeKinds
        <3>2. ShowsLines(c, object, lines)
            BY <3>1, OneShowsLines
        <3> QED
            BY <3>2, ShownBack
    <2>2. ~IsDefault("primary", lines["primary"])
        BY NeverDefault DEF Default
    <2>3. /\ "primary" \in DOMAIN lines <=> PrimaryPlaces(args) # {}
          /\ "primary" \in DOMAIN lines => lines["primary"] = a[CHOOSE i \in PrimaryPlaces(args) : TRUE]
        BY VrrpLinesGive
    <2> HIDE DEF shown, lines, a
    <2>4. CASE p = 0
        <3>1. PrimaryPlaces(args) = {}
            BY <1>4, <2>4
        <3>2. ~Has(shown, "primary")
            BY <2>1, <2>3, <3>1 DEF Has
        <3> QED
            BY <2>4, <3>2
    <2>5. CASE p = 1
        <3>1. PrimaryPlaces(args) = {1}
            BY <1>4, <2>5
        <3>2. (CHOOSE i \in PrimaryPlaces(args) : TRUE) = 1
            BY <3>1
        <3>3. Has(shown, "primary") /\ shown["primary"] = a[1]
            BY <2>1, <2>2, <2>3, <3>1, <3>2 DEF Has
        <3> QED
            BY <2>5, <3>3
    <2> QED
        BY <1>4, <2>4, <2>5
<1> HIDE DEF r, sorted, object
<1>13. /\ r \in Seq(A) /\ Len(r) = p /\ \A i \in 1 .. p : r[i] = a[i]
    <2>1. CASE p = 0
        BY <1>12, <2>1
    <2>2. CASE p = 1
        <3>1. a[1] \in A
            BY <1>3, <1>4, <2>2
        <3> HIDE DEF a, A
        <3>2. r = <<a[1]>>
            BY <1>12, <2>2
        <3> QED
            BY <2>2, <3>1, <3>2
    <2> QED
        BY <1>4, <2>1, <2>2
<1>14. s \in Seq(A) /\ Len(s) = m - p /\ \A i \in 1 .. m - p : s[i] = a[p + i]
    <2>1. \A i \in 1 .. m - p : a[p + i] \in A
        <3>1. \A i \in 1 .. m - p : p + i \in DOMAIN a
            BY <1>3, <1>4
        <3> QED
            BY <1>3, <3>1
    <2>2. m - p \in Nat
        BY <1>4
    <2> HIDE DEF A, a
    <2> QED
        BY <2>1, <2>2
<1>15. t \in Seq(A) /\ Len(t) = Len(a) - m /\ \A i \in 1 .. Len(a) - m : t[i] = a[m + i]
    <2>1. \A i \in 1 .. Len(a) - m : a[m + i] \in A
        <3>1. \A i \in 1 .. Len(a) - m : m + i \in DOMAIN a
            BY <1>3, <1>4
        <3> QED
            BY <1>3, <3>1
    <2>2. Len(a) - m \in Nat
        BY <1>3, <1>4
    <2> HIDE DEF A
    <2> DEFINE n == Len(a) - m
    <2>3. t = [i \in 1 .. n |-> a[m + i]] /\ n \in Nat
        BY <2>2
    <2> HIDE DEF a, n, t
    <2>4. t \in Seq(A) /\ Len(t) = n /\ \A i \in 1 .. n : t[i] = a[m + i]
        BY <2>1, <2>3 DEF n
    <2> QED
        BY <2>4 DEF n
<1> HIDE DEF s, t, A
<1> DEFINE all == r \o s \o t
<1>16. /\ all \in Seq(A) /\ DOMAIN all = 1 .. Len(r) + Len(s) + Len(t)
       /\ \A i \in 1 .. Len(r) : all[i] = r[i]
       /\ \A i \in 1 .. Len(s) : all[Len(r) + i] = s[i]
       /\ \A i \in 1 .. Len(t) : all[Len(r) + Len(s) + i] = t[i]
    <2>1. r \in Seq(A) /\ s \in Seq(A) /\ t \in Seq(A)
        BY <1>13, <1>14, <1>15
    <2> QED
        BY <2>1, ThreeLists DEF A
<1> HIDE DEF all
<1> DEFINE n == Len(a)
<1>17. n \in Nat /\ a = [i \in 1 .. n |-> a[i]]
    BY <1>3
<1>18. Len(r) = p /\ Len(s) = m - p /\ Len(t) = n - m
    BY <1>13, <1>14, <1>15
<1> HIDE DEF n
<1>19. DOMAIN all = 1 .. n /\ all = [i \in DOMAIN all |-> all[i]]
    <2>1. Len(r) + Len(s) + Len(t) = n
        BY <1>4, <1>17, <1>18
    <2> QED
        BY <1>16, <2>1
<1>20. ASSUME NEW i \in 1 .. n
       PROVE  all[i] = a[i]
    <2>1. CASE i <= p
        <3>1. i \in 1 .. p
            BY <1>4, <2>1
        <3> QED
            BY <1>13, <1>16, <1>18, <3>1
    <2>2. CASE i > p /\ i <= m
        <3> DEFINE j == i - p
        <3>1. j \in 1 .. m - p /\ p + j = i
            BY <1>4, <2>2
        <3> HIDE DEF j
        <3>2. all[p + j] = s[j]
            BY <1>16, <1>18, <3>1
        <3> QED
            BY <1>14, <3>1, <3>2
    <2>3. CASE i > m
        <3> DEFINE j == i - m
        <3>1. j \in 1 .. n - m /\ m + j = i /\ p + (m - p) = m
            BY <1>4, <1>17, <2>3
        <3> HIDE DEF j
        <3>2. all[p + (m - p) + j] = t[j]
            BY <1>16, <1>18, <3>1
        <3> QED
            BY <1>15, <3>1, <3>2 DEF n
    <2> QED
        BY <1>4, <2>1, <2>2, <2>3
<1>21. all = a
    BY <1>17, <1>19, <1>20
<1>22. VrrpAddressesFound(c, object) = all
    BY <1>1, <1>10, <1>11 DEF all
<1> QED
    BY <1>21, <1>22 DEF object

\* The tracks come back by name; the row of a track is the track without it.
LEMMA TracksComeBack ==
    ASSUME NEW args, NEW c, AsGiven("vrrp", args, c),
           Rising(Or(args, "tracks", <<>>), "interface"), TracksRendered(args)
    PROVE  VrrpTracksFound(c, Object("vrrp", args)) = Or(args, "tracks", <<>>)
<1> DEFINE object == Object("vrrp", args)
           rows == Rows("vrrp", args)
           s == Or(args, "tracks", <<>>)
           keys == ShownKeys(c, object, "track")
           names == InOrder(keys, [name \in keys |-> name])
           row(name) == Overlay(c[<<object, "track", name>>], [interface |-> name])
<1>1. keys = FieldsOf(s, "interface") /\ ShowsRows(c, object, "track", rows)
    <2>1. "track" \in VrrpTables
        BY DEF VrrpTables
    <2>2. FieldsOf(s, "interface") = {t.interface : t \in Items(args, "tracks")}
        BY DEF FieldsOf, Items, Or, Has
    <2>3. KeysOf(rows, "track") = {t.interface : t \in Items(args, "tracks")}
        BY VrrpKeys
    <2> QED
        BY <2>1, <2>2, <2>3, VrrpShowsTables
<1>2. names = Ascending(keys)
    BY DEF Ascending
<1> HIDE DEF object, rows, keys
<1>3. DOMAIN names = DOMAIN s /\ \A i \in DOMAIN s : names[i] = s[i]["interface"]
    BY <1>1, <1>2, FieldsRising
<1>4. /\ Len(s) \in Nat /\ DOMAIN s = 1 .. Len(s)
      /\ \A i, j \in DOMAIN s : i < j => s[i]["interface"] < s[j]["interface"]
      /\ \A i \in DOMAIN s : s[i]["interface"] \in Int
    BY ListOfMembers DEF Rising
<1>5. ASSUME NEW i \in DOMAIN s
      PROVE  row(s[i]["interface"]) = s[i]
    <2> DEFINE name == s[i]["interface"]
               P(j) == /\ j \in DOMAIN s
                       /\ s[j].interface = name
                       /\ \A l \in DOMAIN s : s[l].interface = name => l <= j
    <2>1. s[i] \in Items(args, "tracks")
        BY <1>5 DEF Items, Or, Has
    <2>2. IsAFunction(s[i]) /\ Has(s[i], "interface")
        BY <2>1 DEF AsGiven, Decoded
    <2>3. TrackOf(s, name) = i
        <3>1. \A j \in DOMAIN s : s[j].interface = name => j = i
            BY <1>4
        <3>2. P(i)
            BY <1>4, <3>1
        <3>3. \A j : P(j) => j = i
            BY <3>1
        <3> HIDE DEF P
        <3>4. (CHOOSE j : P(j)) = i
            BY <3>2, <3>3
        <3>5. TrackOf(s, name) = CHOOSE j : P(j)
            BY DEF TrackOf, P
        <3> QED
            BY <3>4, <3>5
    <2> HIDE DEF P
    <2>4. <<"track", name>> \in DOMAIN rows /\ rows[<<"track", name>>] = Without(s[i], {"interface"})
        <3>1. /\ <<"track", name>> \in DOMAIN rows
              /\ rows[<<"track", name>>] = TrackLine(s[TrackOf(s, name)])
            <4>1. name \in {t.interface : t \in Items(args, "tracks")}
                BY <2>1
            <4> HIDE DEF name
            <4> QED
                BY <4>1, VrrpKeys DEF rows
        <3>2. TrackLine(s[i]) = Without(s[i], {"interface"})
            BY <2>1 DEF TracksRendered
        <3> QED
            BY <2>3, <3>1, <3>2
    <2>5. c[<<object, "track", name>>] = Without(s[i], {"interface"})
        BY <1>1, <2>4 DEF ShowsRows
    <2> DEFINE rest == Without(s[i], {"interface"})
               told == [interface |-> name]
    <2>6. \A f \in DOMAIN rest : f \in DOMAIN s[i] /\ rest[f] = s[i][f]
        BY DEF Without
    <2>7. \A f \in DOMAIN told : f \in DOMAIN s[i] /\ told[f] = s[i][f]
        BY <2>2 DEF Has
    <2>8. \A f \in DOMAIN s[i] : f \in DOMAIN rest \/ f \in DOMAIN told
        BY DEF Without
    <2> HIDE DEF rest, told, s
    <2>9. Overlay(rest, told) = s[i]
        BY <2>2, <2>6, <2>7, <2>8, ReadsSame
    <2> QED
        BY <2>5, <2>9 DEF rest, told
<1>6. s = [i \in DOMAIN s |-> s[i]]
    BY ListOfMembers DEF Rising
<1>7. VrrpTracksFound(c, object) = [i \in DOMAIN names |-> row(names[i])]
    BY DEF VrrpTracksFound, keys
<1> HIDE DEF names, row, s
<1>8. [i \in DOMAIN names |-> row(names[i])] = [i \in DOMAIN s |-> s[i]]
    BY <1>3, <1>5
<1> QED
    BY <1>6, <1>7, <1>8 DEF object, s

LEMMA VrrpRoundTrip ==
    ASSUME NEW args, NEW c, AsGiven("vrrp", args, c), AddressesInOrder(args),
           Rising(Or(args, "tracks", <<>>), "interface"), TracksRendered(args),
           ~VrrpMissing(Wanted("vrrp", args), Object("vrrp", args))
    PROVE  ReadBack("vrrp", args, c) = args
<1> DEFINE k == "vrrp"
           object == Object(k, args)
           lines == Lines(k, args)
           shown == Shown(c, object, VrrpFields \cup {"preempt"})
           told == {f \in DOMAIN shown : /\ f = "preemptDelayMinimum" => shown[f] > 0
                                         /\ f = "preempt" => shown[f] = TRUE}
           some == [f \in told |-> shown[f]]
           lists == [virtualAddresses |-> VrrpAddressesFound(c, object),
                     tracks |-> VrrpTracksFound(c, object)]
           tables == NonEmpty(lists)
           found == Found(k, args, c)
<1>1. k \in OneObjectKinds
    BY DEF OneObjectKinds, MergeKinds
<1>2. found = Overlay(some, tables)
    BY DEF Found, VrrpFound
<1>3. ShowsLines(c, object, lines) /\ IsAFunction(args)
    BY <1>1, OneShowsLines
<1>4. /\ \A f : f \in DOMAIN shown <=>
                    f \in VrrpFields \cup {"preempt"} /\ f \in DOMAIN lines /\ ~IsDefault(f, lines[f])
      /\ \A f \in DOMAIN shown : shown[f] = lines[f]
    BY <1>3, ShownBack
<1>5. IsDefault("preempt", TRUE)
    BY DEF IsDefault, Default
<1> HIDE DEF shown, object
<1>6. \A f \in DOMAIN shown : f \in DOMAIN args /\ shown[f] = args[f]
    <2>1. /\ \A f \in VrrpFields : f \in DOMAIN lines => f \in DOMAIN args /\ lines[f] = args[f]
          /\ "preempt" \in DOMAIN lines => lines["preempt"] = TRUE
        BY VrrpLinesGive
    <2> HIDE DEF lines
    <2> QED
        BY <1>4, <1>5, <2>1
<1>7. \A f \in DOMAIN some : f \in DOMAIN args /\ some[f] = args[f]
    BY <1>6
<1> HIDE DEF some
<1>8. \A f \in DOMAIN lists : lists[f] = Or(args, f, <<>>)
    <2>1. VrrpAddressesFound(c, object) = Or(args, "virtualAddresses", <<>>)
        BY AddressesComeBack DEF AddressList, object
    <2>2. VrrpTracksFound(c, object) = Or(args, "tracks", <<>>)
        BY TracksComeBack DEF object
    <2>3. DOMAIN lists = {"virtualAddresses", "tracks"}
          /\ lists["virtualAddresses"] = VrrpAddressesFound(c, object)
          /\ lists["tracks"] = VrrpTracksFound(c, object)
        OBVIOUS
    <2> HIDE DEF lists
    <2> QED
        BY <2>1, <2>2, <2>3
<1> HIDE DEF lists
<1>9. \A f \in DOMAIN tables : f \in DOMAIN args /\ tables[f] = args[f]
    BY <1>8, ListsShown
<1> HIDE DEF tables, found
<1>10. \A f \in DOMAIN found : f \in DOMAIN args /\ found[f] = args[f]
    BY <1>2, <1>7, <1>9, OverlayFrom
<1>11. ~Missing(k, args, c)
    <2>1. Missing(k, args, c) = VrrpMissing(c, object)
        BY DEF Missing, object
    <2> DEFINE wanted == Wanted(k, args)
    <2>2. Part(c, {object}) = wanted
        BY <1>1, OneObject DEF AsGiven, InSync, object
    <2>3. \A p \in DOMAIN wanted : p \in DOMAIN c /\ wanted[p] = c[p]
        BY <2>2 DEF Part
    <2> HIDE DEF wanted
    <2>4. ~VrrpMissing(wanted, object)
        BY DEF object, wanted
    <2> QED
        BY <2>1, <2>3, <2>4 DEF VrrpMissing
<1> QED
    BY <1>1, <1>3, <1>10, <1>11, OneReadsSame DEF found

-----------------------------------------------------------------------------
(***************************************************************************)
(* VLANs.  Their block only adds, and other VLANs may be beside them, so a *)
(* device need not be in sync to show the lines that were applied.         *)
(***************************************************************************)
LinesApplied(k, args, c) ==
    \A p \in DOMAIN Block(k, args).set : p \in DOMAIN c /\ c[p] = Block(k, args).set[p]

LEMMA OverlayGiven ==
    ASSUME NEW args, IsAFunction(args), NEW found,
           \A f \in DOMAIN found : f \in DOMAIN args /\ found[f] = args[f]
    PROVE  Overlay(args, found) = args
BY ReadsSame

LEMMA NamedShown ==
    ASSUME NEW k, NEW args, Has(args, "name"), NEW objects, Block(k, args).set = Named(args, objects),
           NEW c, LinesApplied(k, args, c), NEW object \in objects
    PROVE  /\ Exists(c, object)
           /\ <<object, "name">> \in DOMAIN c /\ c[<<object, "name">>] = args["name"]
<1> DEFINE set == Named(args, objects)
           D == {<<o, "header">> : o \in objects}
                    \cup {<<o, "name">> : o \in {q \in objects : Has(args, "name")}}
<1>1. set = [p \in D |-> IF p[2] = "name" THEN args.name ELSE "on"]
    BY DEF Named
<1>2. <<object, "header">> \in D /\ <<object, "name">> \in D
    OBVIOUS
<1> HIDE DEF D
<1>3. /\ <<object, "header">> \in DOMAIN set /\ <<object, "name">> \in DOMAIN set
      /\ set[<<object, "name">>] = args["name"]
    BY <1>1, <1>2
<1> HIDE DEF set
<1> QED
    BY <1>3 DEF LinesApplied, Exists, set

LEMMA VlanRoundTrip ==
    ASSUME NEW args, IsAFunction(args), Has(args, "name"),
           NEW c, LinesApplied("vlan", args, c)
    PROVE  ReadBack("vlan", args, c) = args
<1> DEFINE object == VlanObject(args.id)
           found == [name |-> ShownName(c, args.id)]
<1>1. Block("vlan", args).set = Named(args, {object})
    BY ByKind DEF VlanBlock, VlanObjects, Sets
<1> HIDE DEF object
<1>2. /\ Exists(c, object)
      /\ <<object, "name">> \in DOMAIN c /\ c[<<object, "name">>] = args["name"]
    BY <1>1, NamedShown
<1>3. ShownName(c, args.id) = args["name"]
    BY <1>2 DEF ShownName, object
<1>4. \A f \in DOMAIN found : f \in DOMAIN args /\ found[f] = args[f]
    BY <1>3 DEF Has
<1>5. VlanRead(args, c) = Overlay(args, found)
    BY <1>2 DEF VlanRead, object
<1> HIDE DEF found
<1>6. VlanRead(args, c) = args
    BY <1>4, <1>5, OverlayGiven
<1> QED
    BY <1>6, ReadByKind

LEMMA RangeRoundTrip ==
    ASSUME NEW args, IsAFunction(args), RangeValid(args), Has(args, "name"),
           args["name"] \notin LooksAuto, NEW c, LinesApplied("vlanRange", args, c)
    PROVE  ReadBack("vlanRange", args, c) = args
<1> DEFINE first == VlanObject(args.start)
           last == VlanObject(args.end)
           found == [name |-> ShownName(c, args.start)]
<1>1. Block("vlanRange", args).set = Named(args, RangeObjects(args))
    BY ByKind DEF RangeBlock, Sets
<1>2. first \in RangeObjects(args) /\ last \in RangeObjects(args)
    <2>1. args.start \in Nat /\ args.end \in Nat /\ args.start <= args.end
        BY VlanIdMaxAssumption DEF RangeValid
    <2>2. args.start \in args.start .. args.end /\ args.end \in args.start .. args.end
        BY <2>1
    <2> QED
        BY <2>2 DEF RangeObjects
<1> HIDE DEF first, last
<1>3. /\ Exists(c, first) /\ Exists(c, last)
      /\ <<first, "name">> \in DOMAIN c /\ c[<<first, "name">>] = args["name"]
    <2> DEFINE objects == RangeObjects(args)
    <2>1. Block("vlanRange", args).set = Named(args, objects) /\ first \in objects /\ last \in objects
        BY <1>1, <1>2
    <2> HIDE DEF objects
    <2>2. /\ Exists(c, first)
          /\ <<first, "name">> \in DOMAIN c /\ c[<<first, "name">>] = args["name"]
        BY <2>1, NamedShown
    <2>3. Exists(c, last)
        BY <2>1, NamedShown
    <2> QED
        BY <2>2, <2>3
<1>4. ShownName(c, args.start) = args["name"]
    BY <1>3 DEF ShownName, first
<1>5. \A f \in DOMAIN found : f \in DOMAIN args /\ found[f] = args[f]
    BY <1>4 DEF Has
<1>6. RangeRead(args, c) = Overlay(args, found)
    BY <1>3, <1>4 DEF RangeRead, first, last
<1> HIDE DEF found
<1>7. RangeRead(args, c) = args
    BY <1>5, <1>6, OverlayGiven
<1> QED
    BY <1>7, ReadByKind

-----------------------------------------------------------------------------
(***************************************************************************)
(* Varp, Mlag and static routes.                                           *)
(***************************************************************************)
LEMMA VarpRoundTrip ==
    ASSUME NEW args, NEW c, AsGiven("varp", args, c), "mac" \in DOMAIN args,
           Canonical(args.mac) = args["mac"]
    PROVE  ReadBack("varp", args, c) = args
<1> DEFINE set == [p \in {VarpMac} |-> Canonical(args.mac)]
           found == [mac |-> c[VarpMac]]
<1>1. Block("varp", args).set = set /\ VarpObject \in Objects("varp", args)
    BY ByKind DEF VarpBlock, Rebuilds, VarpObjects
<1>2. VarpMac[1] = VarpObject /\ VarpMac[2] = "mac"
    BY DEF VarpMac
<1>3. VarpMac \in DOMAIN set /\ set[VarpMac] = args["mac"]
    OBVIOUS
<1> HIDE DEF set
<1>4. ~IsDefault(VarpMac[2], set[VarpMac])
    BY <1>2, NeverDefault DEF Default
<1>5. VarpMac \in DOMAIN c /\ c[VarpMac] = args["mac"]
    BY <1>1, <1>2, <1>3, <1>4, SyncedLines DEF AsGiven
<1>6. \A f \in DOMAIN found : f \in DOMAIN args /\ found[f] = args[f]
    BY <1>5
<1>7. VarpRead(args, c) = Overlay(args, found)
    BY <1>5 DEF VarpRead
<1> HIDE DEF found
<1>8. VarpRead(args, c) = args
    BY <1>6, <1>7, OverlayGiven DEF AsGiven, Decoded
<1> QED
    BY <1>8, ReadByKind

LEMMA MlagRoundTrip ==
    ASSUME NEW args, NEW c, AsGiven("mlag", args, c), MlagValid(args),
           Has(args, "recoveryMlag") = Has(args, "recoveryNonMlag")
    PROVE  ReadBack("mlag", args, c) = args
<1> DEFINE o == MlagObject
           lines == MlagLines(args)
           numbers == {"primaryPriority", "reloadMlag", "reloadNonMlag"}
           plain == MlagRequired \cup numbers \cup {"shutdown"}
           found == MlagFound(c)
<1>1. Block("mlag", args).set = Under(o, lines) /\ o \in Objects("mlag", args)
    BY ByKind DEF MlagBlock, Rebuilds, MlagObjects
<1>2. ShowsLines(c, o, lines)
    BY <1>1, SyncedUnder DEF AsGiven
<1>3. /\ "header" \in DOMAIN lines
      /\ \A f \in plain : f \in DOMAIN lines => f \in DOMAIN args /\ lines[f] = args[f]
      /\ "heartbeat" \in DOMAIN lines => "heartbeat" \in DOMAIN args
            /\ lines["heartbeat"] = <<args["heartbeat"], Or(args, "heartbeatVrf", "")>>
      /\ "detectionDelay" \in DOMAIN lines => "detectionDelay" \in DOMAIN args
            /\ lines["detectionDelay"] = <<args["detectionDelay"], Or(args, "action", "")>>
      /\ "recovery" \in DOMAIN lines =>
            /\ {"recoveryMlag", "recoveryNonMlag"} \subseteq DOMAIN args
            /\ lines["recovery"] = <<args["recoveryMlag"], args["recoveryNonMlag"]>>
    BY DEF MlagLines, MlagRequired, RecoveryLine, Or, Has
<1> HIDE DEF lines, o
<1>4. \A f : /\ <<o, f>> \in DOMAIN c => f \in DOMAIN lines /\ c[<<o, f>>] = lines[f]
             /\ f \in DOMAIN lines /\ f \notin DOMAIN Default => <<o, f>> \in DOMAIN c
    BY <1>2, NeverDefault DEF ShowsLines
<1>5. Exists(c, o)
    BY <1>3, <1>4 DEF Exists, Default
<1>6. \A f \in DOMAIN found : f \in DOMAIN args /\ found[f] = args[f]
    <2> DEFINE at(f) == c[<<o, f>>]
               there(f) == <<o, f>> \in DOMAIN c
    <2>1. \A f \in DOMAIN found :
            \/ f \in plain /\ there(f)
            \/ f \in {"heartbeat", "detectionDelay"} /\ there(f)
            \/ (f = "heartbeatVrf" /\ there("heartbeat") /\ at("heartbeat")[2] # "")
            \/ (f = "action" /\ there("detectionDelay") /\ at("detectionDelay")[2] # "")
            \/ (f \in {"recoveryMlag", "recoveryNonMlag"} /\ there("recovery"))
        BY DEF MlagFound, MlagRequired, o
    <2>2. /\ \A f \in DOMAIN found : f \in plain => found[f] = at(f)
          /\ \A f \in DOMAIN found : f \in {"heartbeat", "detectionDelay"} => found[f] = at(f)[1]
        BY DEF MlagFound, MlagRequired, o
    <2>3. /\ "heartbeatVrf" \in DOMAIN found => found["heartbeatVrf"] = at("heartbeat")[2]
          /\ "action" \in DOMAIN found => found["action"] = at("detectionDelay")[2]
          /\ "recoveryMlag" \in DOMAIN found => found["recoveryMlag"] = at("recovery")[1]
          /\ "recoveryNonMlag" \in DOMAIN found => found["recoveryNonMlag"] = at("recovery")[2]
        BY DEF MlagFound, MlagRequired, o
    <2>4. \A f : there(f) => f \in DOMAIN lines /\ at(f) = lines[f]
        BY <1>4
    <2> HIDE DEF at, there, found
    <2>5. there("heartbeat") =>
            /\ "heartbeat" \in DOMAIN args /\ at("heartbeat")[1] = args["heartbeat"]
            /\ at("heartbeat")[2] # "" =>
                "heartbeatVrf" \in DOMAIN args /\ at("heartbeat")[2] = args["heartbeatVrf"]
        <3> DEFINE word == Or(args, "heartbeatVrf", "")
                   line == at("heartbeat")
        <3>1. there("heartbeat") =>
                "heartbeat" \in DOMAIN args /\ line = <<args["heartbeat"], word>>
            BY <1>3, <2>4
        <3>2. word # "" => "heartbeatVrf" \in DOMAIN args /\ word = args["heartbeatVrf"]
            BY DEF Or, Has
        <3> HIDE DEF word, line
        <3>3. \A a, b : line = <<a, b>> => line[1] = a /\ line[2] = b
            OBVIOUS
        <3>4. there("heartbeat") => line[1] = args["heartbeat"] /\ line[2] = word
            BY <3>1, <3>3
        <3> QED
            BY <3>1, <3>2, <3>4 DEF line
    <2>6. there("detectionDelay") =>
            /\ "detectionDelay" \in DOMAIN args /\ at("detectionDelay")[1] = args["detectionDelay"]
            /\ at("detectionDelay")[2] # "" =>
                "action" \in DOMAIN args /\ at("detectionDelay")[2] = args["action"]
        <3> DEFINE word == Or(args, "action", "")
                   line == at("detectionDelay")
        <3>1. there("detectionDelay") =>
                "detectionDelay" \in DOMAIN args /\ line = <<args["detectionDelay"], word>>
            BY <1>3, <2>4
        <3>2. word # "" => "action" \in DOMAIN args /\ word = args["action"]
            BY DEF Or, Has
        <3> HIDE DEF word, line
        <3>3. \A a, b : line = <<a, b>> => line[1] = a /\ line[2] = b
            OBVIOUS
        <3>4. there("detectionDelay") => line[1] = args["detectionDelay"] /\ line[2] = word
            BY <3>1, <3>3
        <3> QED
            BY <3>1, <3>2, <3>4 DEF line
    <2>7. there("recovery") =>
            /\ {"recoveryMlag", "recoveryNonMlag"} \subseteq DOMAIN args
            /\ at("recovery")[1] = args["recoveryMlag"] /\ at("recovery")[2] = args["recoveryNonMlag"]
        <3>1. there("recovery") =>
                /\ {"recoveryMlag", "recoveryNonMlag"} \subseteq DOMAIN args
                /\ at("recovery") = <<args["recoveryMlag"], args["recoveryNonMlag"]>>
            BY <1>3, <2>4
        <3> QED
            BY <3>1
    <2>8. \A f \in plain : there(f) => f \in DOMAIN args /\ at(f) = args[f]
        BY <1>3, <2>4
    <2> HIDE DEF plain
    <2> SUFFICES ASSUME NEW f \in DOMAIN found
                 PROVE  f \in DOMAIN args /\ found[f] = args[f]
        OBVIOUS
    <2>9. CASE f \in plain /\ there(f)
        BY <2>2, <2>8, <2>9
    <2>10. CASE f \in {"heartbeat", "detectionDelay"} /\ there(f)
        BY <2>2, <2>5, <2>6, <2>10
    <2>11. CASE f = "heartbeatVrf" /\ there("heartbeat") /\ at("heartbeat")[2] # ""
        BY <2>3, <2>5, <2>11
    <2>12. CASE f = "action" /\ there("detectionDelay") /\ at("detectionDelay")[2] # ""
        BY <2>3, <2>6, <2>12
    <2>13. CASE f \in {"recoveryMlag", "recoveryNonMlag"} /\ there("recovery")
        BY <2>3, <2>7, <2>13
    <2> QED
        BY <2>1, <2>9, <2>10, <2>11, <2>12, <2>13
<1> HIDE DEF found
<1>7. MlagRead(args, c) = Overlay(args, found)
    BY <1>5 DEF MlagRead, o, found
<1>8. MlagRead(args, c) = args
    BY <1>6, <1>7, OverlayGiven DEF AsGiven, Decoded
<1> QED
    BY <1>8, ReadByKind

LEMMA RouteRoundTrip ==
    ASSUME NEW args, NEW c, AsGiven("staticRoute", args, c), RouteValid(args), NoNearer(args, c)
    PROVE  ReadBack("staticRoute", args, c) = args
<1> DEFINE D == Or(args, "distance", 1)
           o == RouteOf(args, D)
           keys == RouteKnobs(args) \cup {"header"}
           set == [p \in {o} \X keys |-> IF p[2] = "header" THEN "on" ELSE args[p[2]]]
           rows == {d \in 1 .. DistanceMax : Exists(c, RouteOf(args, d))}
           first == CHOOSE d \in rows : \A e \in rows : d <= e
           knobs == {"tag", "name", "metric", "track"}
           row == [f \in {j \in knobs : <<RouteOf(args, first), j>> \in DOMAIN c} |->
                        c[<<RouteOf(args, first), f>>]]
           distance == [f \in {j \in {"distance"} : first # 1} |-> first]
<1>1. Block("staticRoute", args).set = set /\ o \in Objects("staticRoute", args)
    <2>1. Block("staticRoute", args) = RouteBlock(args) /\ Objects("staticRoute", args) = {o}
        BY ByKind DEF RouteObjects
    <2>2. RouteBlock(args).set = set
        BY DEF RouteBlock, Rebuilds, RouteObjects
    <2> QED
        BY <2>1, <2>2
<1>2. D \in 1 .. DistanceMax
    BY DistanceMaxAssumption DEF RouteValid, Or
<1>3. \A f : /\ <<o, f>> \in DOMAIN set <=> f \in keys
             /\ f \in keys => set[<<o, f>>] = IF f = "header" THEN "on" ELSE args[f]
    OBVIOUS
<1> HIDE DEF o, set
<1>4. \A f : /\ <<o, f>> \in DOMAIN c <=> f \in keys /\ ~IsDefault(f, set[<<o, f>>])
             /\ <<o, f>> \in DOMAIN c => c[<<o, f>>] = set[<<o, f>>]
    <2> SUFFICES ASSUME NEW f
                 PROVE  /\ <<o, f>> \in DOMAIN c <=> f \in keys /\ ~IsDefault(f, set[<<o, f>>])
                        /\ <<o, f>> \in DOMAIN c => c[<<o, f>>] = set[<<o, f>>]
        OBVIOUS
    <2> DEFINE p == <<o, f>>
    <2>1. p[1] = o /\ p[2] = f
        OBVIOUS
    <2>2. p \in DOMAIN set <=> f \in keys
        BY <1>3
    <2> HIDE DEF p, keys
    <2>3. /\ p \in DOMAIN c <=> p \in DOMAIN set /\ ~IsDefault(p[2], set[p])
          /\ p \in DOMAIN c => c[p] = set[p]
        BY <1>1, <2>1, SyncedLines DEF AsGiven
    <2> QED
        BY <2>1, <2>2, <2>3 DEF p
<1>5. Exists(c, o)
    <2>1. ~IsDefault("header", set[<<o, "header">>])
        BY NeverDefault DEF Default
    <2> QED
        BY <1>4, <2>1 DEF Exists
<1>6. D \in rows /\ \A d \in rows : D <= d
    <2>1. \A d \in 1 .. D - 1 : ~Exists(c, RouteOf(args, d))
        BY DEF NoNearer
    <2> HIDE DEF D
    <2> QED
        BY <1>2, <1>5, <2>1, DistanceMaxAssumption DEF o
<1>7. first = D
    <2>1. \A d \in rows : d \in Int
        OBVIOUS
    <2> HIDE DEF rows, D
    <2> DEFINE P(d) == d \in rows /\ \A e \in rows : d <= e
    <2>2. P(D) /\ \A d : P(d) => d = D
        BY <1>6, <2>1
    <2> HIDE DEF P
    <2>3. (CHOOSE d : P(d)) = D
        BY <2>2
    <2> QED
        BY <2>3 DEF P
<1>8. \A f \in DOMAIN row : f \in DOMAIN args /\ row[f] = args[f]
    <2> SUFFICES ASSUME NEW f \in DOMAIN row
                 PROVE  f \in DOMAIN args /\ row[f] = args[f]
        OBVIOUS
    <2>1. f \in knobs /\ <<RouteOf(args, first), f>> \in DOMAIN c
          /\ row[f] = c[<<RouteOf(args, first), f>>]
        OBVIOUS
    <2> HIDE DEF first, row
    <2>2. <<o, f>> \in DOMAIN c /\ row[f] = c[<<o, f>>]
        BY <1>7, <2>1 DEF o
    <2>3. f \in keys /\ f # "header" /\ row[f] = args[f]
        BY <1>3, <1>4, <2>1, <2>2
    <2> QED
        BY <2>3 DEF RouteKnobs
<1>9. \A f \in DOMAIN distance : f \in DOMAIN args /\ distance[f] = args[f]
    <2>1. \A f \in DOMAIN distance : f = "distance" /\ first # 1 /\ distance[f] = first
        OBVIOUS
    <2> HIDE DEF distance, first
    <2> QED
        BY <1>7, <2>1 DEF Or, Has
<1>10. RouteRead(args, c) = Overlay(Overlay(args, row), distance)
    <2>1. rows # {}
        BY <1>6
    <2> QED
        BY <2>1 DEF RouteRead
<1> HIDE DEF row, distance
<1>11. Overlay(args, row) = args
    BY <1>8, OverlayGiven DEF AsGiven, Decoded
<1>12. RouteRead(args, c) = args
    BY <1>9, <1>10, <1>11, OverlayGiven DEF AsGiven, Decoded
<1> QED
    BY <1>12, ReadByKind

-----------------------------------------------------------------------------
(***************************************************************************)
(* Policy maps and filter lists, whose members come back in order of seq.  *)
(***************************************************************************)
LEMMA PolicyShows ==
    ASSUME NEW args, NEW c, AsGiven("policyBasedRouting", args, c)
    PROVE  ShowsLines(c, PolicyMap(args), [header |-> "on", sequences |-> PbrSequenceLines(args)])
<1> DEFINE o == PolicyMap(args)
           lines == [header |-> "on", sequences |-> PbrSequenceLines(args)]
           map == Under(o, lines)
           attachments == [p \in {<<ServicePolicy(i), "policy">> : i \in Attached(args)} |-> args.name]
           set == Overlay(map, attachments)
<1>1. Block("policyBasedRouting", args).set = set /\ o \in Objects("policyBasedRouting", args)
    <2>1. PbrBlock(args).set = set
        BY DEF PbrBlock, Rebuilds
    <2> HIDE DEF set
    <2> QED
        BY <2>1, ByKind DEF PbrObjects
<1>2. \A p \in DOMAIN attachments : p[1] # o
    BY DEF ServicePolicy, PolicyMap
<1>3. \A f : /\ <<o, f>> \in DOMAIN map <=> f \in DOMAIN lines
             /\ f \in DOMAIN lines => map[<<o, f>>] = lines[f]
    BY DEF Under
<1> HIDE DEF o, lines, map, attachments
<1> SUFFICES ASSUME NEW f
             PROVE  LET p == <<o, f>>
                    IN  /\ p \in DOMAIN c <=> f \in DOMAIN lines /\ ~IsDefault(f, lines[f])
                        /\ p \in DOMAIN c => c[p] = lines[f]
    BY DEF ShowsLines, o, lines
<1> DEFINE p == <<o, f>>
<1>4. p[1] = o /\ p[2] = f
    OBVIOUS
<1>5. /\ p \in DOMAIN set <=> f \in DOMAIN lines
      /\ f \in DOMAIN lines => set[p] = lines[f]
    <2>1. p \notin DOMAIN attachments
        BY <1>2, <1>4
    <2> QED
        BY <1>3, <2>1 DEF Overlay
<1> HIDE DEF p, set
<1>6. /\ p \in DOMAIN c <=> p \in DOMAIN set /\ ~IsDefault(p[2], set[p])
      /\ p \in DOMAIN c => c[p] = set[p]
    BY <1>1, <1>4, SyncedLines DEF AsGiven
<1> QED
    BY <1>4, <1>5, <1>6 DEF p

LEMMA PolicyRoundTrip ==
    ASSUME NEW args, NEW c, AsGiven("policyBasedRouting", args, c),
           InOrderOf(args.sequences, "seq"),
           \A i \in DOMAIN args.sequences :
                PbrActionLine(args.sequences[i].action) = args.sequences[i]["action"]
    PROVE  ReadBack("policyBasedRouting", args, c) = args
<1> DEFINE o == PolicyMap(args)
           s == args.sequences
           rendered == PbrSequenceLines(args)
           lines == [header |-> "on", sequences |-> rendered]
           found == Shown(c, o, {"sequences"})
<1>1. ShowsLines(c, o, lines)
    BY PolicyShows
<1>2. rendered = s
    <2>1. BySeq([entries |-> s]) = s
        <3> DEFINE r == [entries |-> s]
        <3>1. r.entries = s
            OBVIOUS
        <3> HIDE DEF r, s
        <3>2. InOrderOf(r.entries, "seq")
            BY <3>1 DEF s
        <3>3. BySeq(r) = r.entries
            BY <3>2, BySeqIsSame
        <3> QED
            BY <3>1, <3>3 DEF r
    <2>2. rendered = [i \in DOMAIN s |-> [s[i] EXCEPT !.action = PbrActionLine(@)]]
        BY <2>1 DEF PbrSequenceLines
    <2>3. \A i \in DOMAIN s : [s[i] EXCEPT !.action = PbrActionLine(@)] = s[i]
        <3> SUFFICES ASSUME NEW i \in DOMAIN s
                     PROVE  [s[i] EXCEPT !.action = PbrActionLine(@)] = s[i]
            OBVIOUS
        <3>1. IsAFunction(s[i]) /\ "action" \in DOMAIN s[i]
            BY DEF AsGiven, Decoded, Items, Has
        <3>2. PbrActionLine(s[i].action) = s[i]["action"]
            OBVIOUS
        <3> HIDE DEF s
        <3> QED
            BY <3>1, <3>2 DEF IsAFunction
    <2>4. s = [i \in DOMAIN s |-> s[i]]
        BY ListOfMembers DEF InOrderOf
    <2> HIDE DEF s, rendered
    <2> QED
        BY <2>2, <2>3, <2>4
<1>3. "header" \in DOMAIN lines /\ lines["sequences"] = s
    BY <1>2
<1> HIDE DEF lines
<1>4. Exists(c, o)
    <2>1. ~IsDefault("header", lines["header"])
        BY NeverDefault DEF Default
    <2> QED
        BY <1>1, <1>3, <2>1 DEF ShowsLines, Exists
<1>5. \A f \in DOMAIN found : f \in DOMAIN args /\ found[f] = args[f]
    <2>1. \A f \in DOMAIN found : f \in {"sequences"} /\ found[f] = lines[f]
        BY <1>1, ShownBack
    <2>2. "sequences" \in DOMAIN args
        BY DEF AsGiven, Decoded, Has
    <2> HIDE DEF found
    <2> QED
        BY <1>3, <2>1, <2>2
<1>6. Overlay(args, found) = args
    BY <1>5, OverlayGiven DEF AsGiven, Decoded
<1> HIDE DEF found
<1>7. PbrRead(args, c) = args
    BY <1>4, <1>6 DEF PbrRead, found
<1> QED
    BY <1>7, ReadByKind

LEMMA ListShows ==
    ASSUME NEW k \in ListKinds, NEW args, NEW c, AsGiven(k, args, c),
           NEW lines, ListLines(k, args) = lines
    PROVE  \A f : f \notin DOMAIN Default =>
            /\ <<ListObject(k, args), f>> \in DOMAIN c <=> f \in DOMAIN lines
            /\ f \in DOMAIN lines => c[<<ListObject(k, args), f>>] = lines[f]
<1> DEFINE object == ListObject(k, args)
<1>1. Block(k, args).set = Under(object, lines) /\ object \in Objects(k, args)
    BY ByKind DEF ListBlock, Rebuilds
<1> HIDE DEF object
<1>2. ShowsLines(c, object, lines)
    BY <1>1, SyncedUnder DEF AsGiven
<1> QED
    BY <1>2, NeverDefault DEF ShowsLines, object

LEMMA ListReadsSame ==
    ASSUME NEW k \in ListKinds, NEW args, IsAFunction(args), NEW c,
           NEW found, ListFound(k, args, c) = found, DOMAIN found # {},
           \A f \in DOMAIN found : f \in DOMAIN args /\ found[f] = args[f]
    PROVE  ReadBack(k, args, c) = args
<1>1. found # Nothing
    BY NothingDomain
<1>2. Overlay(args, found) = args
    BY OverlayGiven
<1>3. ListRead(k, args, c) = args
    BY <1>1, <1>2 DEF ListRead
<1> QED
    BY <1>3, ReadByKind

\* A list that is found as the lines it has, and these are fields of the inputs.
LEMMA PlainListRoundTrip ==
    ASSUME NEW k \in ListKinds, NEW args, NEW c, AsGiven(k, args, c),
           NEW lines, ListLines(k, args) = lines, "entries" \in DOMAIN lines,
           NEW knobs, ListFound(k, args, c) = Shown(c, ListObject(k, args), knobs),
           "entries" \in knobs, \A f \in knobs : f \notin DOMAIN Default,
           \A f \in DOMAIN lines : f \in DOMAIN args /\ lines[f] = args[f]
    PROVE  ReadBack(k, args, c) = args
<1> DEFINE object == ListObject(k, args)
           found == Shown(c, object, knobs)
<1>1. \A f : f \notin DOMAIN Default =>
        /\ <<object, f>> \in DOMAIN c <=> f \in DOMAIN lines
        /\ f \in DOMAIN lines => c[<<object, f>>] = lines[f]
    BY ListShows
<1>2. /\ \A f : f \in DOMAIN found <=> f \in knobs /\ <<object, f>> \in DOMAIN c
      /\ \A f \in DOMAIN found : found[f] = c[<<object, f>>]
    BY ShownValues
<1> HIDE DEF found, object
<1>3. \A f \in DOMAIN found : f \in DOMAIN args /\ found[f] = args[f]
    BY <1>1, <1>2
<1>4. "entries" \in DOMAIN found
    BY <1>1, <1>2
<1>5. IsAFunction(args)
    BY DEF AsGiven, Decoded
<1>6. ListFound(k, args, c) = found /\ DOMAIN found # {}
    BY <1>4 DEF found, object
<1> QED
    BY <1>3, <1>5, <1>6, ListReadsSame

LEMMA SeqsInOrder ==
    ASSUME NEW args, IsAList(args.entries), Ordered(args.entries), UniqueSeqs(args),
           \A i \in DOMAIN args.entries :
                "seq" \in DOMAIN args.entries[i] /\ args.entries[i]["seq"] \in Nat
    PROVE  InOrderOf(args.entries, "seq")
<1> DEFINE s == args.entries
<1>1. \A i, j \in DOMAIN s : i < j => s[i]["seq"] <= s[j]["seq"]
    BY DEF Ordered
<1>2. \A i, j \in DOMAIN s : s[i]["seq"] = s[j]["seq"] => i = j
    BY DEF UniqueSeqs
<1>3. DOMAIN s \subseteq Int
    BY ListOfMembers
<1>4. \A i, j \in DOMAIN s : i < j => s[i]["seq"] < s[j]["seq"]
    <2> HIDE DEF s
    <2> QED
        BY <1>1, <1>2, <1>3 DEF s
<1> QED
    BY <1>4 DEF InOrderOf

LEMMA PrefixListRoundTrip ==
    ASSUME NEW args, NEW c, AsGiven("prefixList", args, c), PrefixListValid(args),
           Ordered(args.entries)
    PROVE  ReadBack("prefixList", args, c) = args
<1> DEFINE k == "prefixList"
           lines == PrefixListLines(args)
           knobs == {"remark", "entries"}
<1>1. k \in ListKinds
    BY DEF ListKinds
<1>2. "entries" \in DOMAIN args /\ IsAList(args.entries)
    BY <1>1 DEF AsGiven, WellTyped, Decoded, Has
<1>3. InOrderOf(args.entries, "seq")
    <2>1. \A i \in DOMAIN args.entries :
            "seq" \in DOMAIN args.entries[i] /\ args.entries[i]["seq"] \in Nat
        <3> SUFFICES ASSUME NEW e \in Entries(args)
                     PROVE  "seq" \in DOMAIN e /\ e["seq"] \in Nat
            BY DEF Entries
        <3>1. Has(e, "seq")
            BY DEF AsGiven, Decoded
        <3>2. e.seq \in 0 .. SeqMax /\ SeqMax \in Nat
            BY ListAssumption DEF PrefixListValid, PrefixEntryValid
        <3> QED
            BY <3>1, <3>2 DEF Has
    <2> QED
        BY <1>2, <2>1, SeqsInOrder DEF PrefixListValid
<1>4. BySeq(args) = args.entries
    BY <1>3, BySeqIsSame
<1>5. /\ "entries" \in DOMAIN lines
      /\ \A f \in DOMAIN lines : f \in DOMAIN args /\ lines[f] = args[f]
    BY <1>2, <1>4 DEF PrefixListLines
<1> HIDE DEF lines
<1>6. ListLines(k, args) = lines /\ ListFound(k, args, c) = Shown(c, ListObject(k, args), knobs)
    BY DEF ListLines, ListFound, PrefixListFound, lines
<1>7. \A f \in knobs : f \notin DOMAIN Default
    BY DEF Default
<1> HIDE DEF k, knobs
<1>8. "entries" \in knobs
    BY DEF knobs
<1>9. ReadBack(k, args, c) = args
    BY <1>1, <1>5, <1>6, <1>7, <1>8, PlainListRoundTrip DEF k
<1> QED
    BY <1>9 DEF k

LEMMA CommunityListRoundTrip ==
    ASSUME NEW k \in {"communityList", "extCommunityList"}, NEW args, NEW c, AsGiven(k, args, c),
           Has(args, IF k = "communityList" THEN "type" ELSE "listType")
    PROVE  ReadBack(k, args, c) = args
<1> DEFINE word == IF k = "communityList" THEN "type" ELSE "listType"
           knobs == {word, "entries"}
           lines == ListLines(k, args)
<1>1. k \in ListKinds
    BY DEF ListKinds
<1>2. "entries" \in DOMAIN args /\ word \in DOMAIN args
    BY <1>1 DEF AsGiven, Decoded, Has
<1>3. DOMAIN lines = knobs /\ lines[word] = args[word] /\ lines["entries"] = args["entries"]
    <2>1. CASE k = "communityList"
        BY <1>2, <2>1 DEF ListLines, CommunityListLines, CommunityListType, Or, Has
    <2>2. CASE k = "extCommunityList"
        BY <1>2, <2>2 DEF ListLines, ExtCommunityListLines, ExtCommunityListType, Or, Has
    <2> QED
        BY <2>1, <2>2
<1>4. ListFound(k, args, c) = Shown(c, ListObject(k, args), knobs)
    <2>1. CASE k = "communityList"
        BY <2>1 DEF ListFound, CommunityListFound
    <2>2. CASE k = "extCommunityList"
        BY <2>2 DEF ListFound, ExtCommunityListFound
    <2> QED
        BY <2>1, <2>2
<1>5. \A f \in knobs : f \notin DOMAIN Default
    BY DEF Default
<1> HIDE DEF lines, word
<1>6. \A f \in DOMAIN lines : f \in DOMAIN args /\ lines[f] = args[f]
    BY <1>2, <1>3
<1>7. "entries" \in DOMAIN lines /\ "entries" \in knobs
    BY <1>3
<1> HIDE DEF knobs
<1> QED
    BY <1>1, <1>4, <1>5, <1>6, <1>7, PlainListRoundTrip DEF lines

LEMMA AsPathRoundTrip ==
    ASSUME NEW args, NEW c, AsGiven("asPathList", args, c),
           \A e \in Entries(args) : e.origin # "any"
    PROVE  ReadBack("asPathList", args, c) = args
<1> DEFINE k == "asPathList"
           object == ListObject(k, args)
           s == args.entries
           line(e) == [e EXCEPT !.origin = IF @ = "" THEN "any" ELSE @]
           parsed(e) == [e EXCEPT !.origin = IF @ = "any" THEN "" ELSE @]
           rendered == [i \in DOMAIN s |-> line(s[i])]
           lines == [entries |-> rendered]
           shown == Shown(c, object, {"entries"})
           found == ListFound(k, args, c)
<1>1. k \in ListKinds
    BY DEF ListKinds
<1>2. "entries" \in DOMAIN args /\ s = [i \in DOMAIN s |-> s[i]]
    <2>1. IsAList(s) /\ "entries" \in DOMAIN args
        BY <1>1 DEF AsGiven, WellTyped, Decoded, Has
    <2> QED
        BY <2>1, ListOfMembers
<1>3. ListLines(k, args) = lines
    BY DEF ListLines, AsPathListLines
<1>4. <<object, "entries">> \in DOMAIN c /\ c[<<object, "entries">>] = rendered
    <2>1. "entries" \notin DOMAIN Default
        BY DEF Default
    <2>2. "entries" \in DOMAIN lines /\ lines["entries"] = rendered
        OBVIOUS
    <2> HIDE DEF lines, rendered, object
    <2> QED
        BY <1>1, <1>3, <2>1, <2>2, ListShows DEF object
<1>5. found = [f \in DOMAIN shown |-> [i \in DOMAIN shown[f] |-> parsed(shown[f][i])]]
    BY DEF ListFound, AsPathListFound
<1>6. DOMAIN shown = {"entries"} /\ shown["entries"] = rendered
    BY <1>4 DEF Shown
<1> HIDE DEF shown, found, object
<1>7. DOMAIN found = {"entries"}
      /\ found["entries"] = [i \in DOMAIN rendered |-> parsed(rendered[i])]
    BY <1>5, <1>6
<1>8. ASSUME NEW i \in DOMAIN s
      PROVE  parsed(line(s[i])) = s[i]
    <2>1. s[i] \in Entries(args)
        BY DEF Entries
    <2>2. IsAFunction(s[i]) /\ "origin" \in DOMAIN s[i] /\ s[i]["origin"] # "any"
        BY <2>1 DEF AsGiven, WellTyped, Decoded, Has
    <2> DEFINE e == s[i]
               l == line(e)
    <2> HIDE DEF s
    <2>3. /\ DOMAIN l = DOMAIN e /\ l["origin"] = IF e["origin"] = "" THEN "any" ELSE e["origin"]
          /\ \A f \in DOMAIN e : f # "origin" => l[f] = e[f]
        BY <2>2
    <2> HIDE DEF l, e
    <2>4. /\ IsAFunction(parsed(l)) /\ DOMAIN parsed(l) = DOMAIN l
          /\ parsed(l)["origin"] = IF l["origin"] = "any" THEN "" ELSE l["origin"]
          /\ \A f \in DOMAIN l : f # "origin" => parsed(l)[f] = l[f]
        BY <2>2, <2>3 DEF IsAFunction, e
    <2> DEFINE q == parsed(l)
    <2> HIDE DEF q, parsed
    <2>5. \A f \in DOMAIN e : q[f] = e[f]
        BY <2>2, <2>3, <2>4 DEF q, e
    <2>6. q = e
        BY <2>2, <2>3, <2>4, <2>5 DEF IsAFunction, q, e
    <2> QED
        BY <2>6 DEF q, l, e
<1>9. found["entries"] = s
    <2>1. DOMAIN rendered = DOMAIN s /\ \A i \in DOMAIN s : rendered[i] = line(s[i])
        OBVIOUS
    <2> HIDE DEF rendered, parsed, line, s
    <2>2. [i \in DOMAIN rendered |-> parsed(rendered[i])] = [i \in DOMAIN s |-> s[i]]
        BY <1>8, <2>1
    <2> QED
        BY <1>2, <1>7, <2>2
<1>10. \A f \in DOMAIN found : f \in DOMAIN args /\ found[f] = args[f]
    BY <1>2, <1>7, <1>9
<1>11. IsAFunction(args)
    BY DEF AsGiven, Decoded
<1>12. ListFound(k, args, c) = found /\ DOMAIN found # {}
    BY <1>7 DEF found
<1> HIDE DEF k
<1>13. ReadBack(k, args, c) = args
    BY <1>1, <1>10, <1>11, <1>12, ListReadsSame
<1> QED
    BY <1>13 DEF k

-----------------------------------------------------------------------------
(***************************************************************************)
(* Route maps.  Clauses that are all rendered come back from their lines.  *)
(***************************************************************************)
AdditiveWords == {"communityAdditive", "extcommunityRtAdditive"}

SetRendered(set) ==
    /\ IsAFunction(set) /\ set # Nothing
    /\ \A f \in AdditiveWords \cup {"communityNone"} : f \in DOMAIN set => set[f] = TRUE
    /\ "communityNone" \in DOMAIN set => "community" \notin DOMAIN set
    /\ "communityAdditive" \in DOMAIN set => "community" \in DOMAIN set
    /\ "extcommunityRtAdditive" \in DOMAIN set => "extcommunityRt" \in DOMAIN set

LEMMA ClausesRendered ==
    ASSUME NEW set, SetRendered(set)
    PROVE  SetLines(set) # Nothing /\ SetFound(SetLines(set)) = set
<1> DEFINE l == SetLines(set)
           r == SetFound(l)
           community == On(set, "communityAdditive")
           targets == On(set, "extcommunityRtAdditive")
<1>1. /\ IsAFunction(set) /\ DOMAIN set # {}
      /\ \A f \in AdditiveWords \cup {"communityNone"} : f \in DOMAIN set => set[f] = TRUE
      /\ "communityNone" \in DOMAIN set => "community" \notin DOMAIN set
      /\ "communityAdditive" \in DOMAIN set => "community" \in DOMAIN set
      /\ "extcommunityRtAdditive" \in DOMAIN set => "extcommunityRt" \in DOMAIN set
    <2>1. CASE DOMAIN set = {}
        <3>1. set = [x \in {} |-> set[x]] /\ set # Nothing
            BY <2>1 DEF SetRendered, IsAFunction
        <3>2. [x \in {} |-> set[x]] = Nothing
            BY DEF Nothing
        <3> QED
            BY <3>1, <3>2
    <2>2. CASE DOMAIN set # {}
        BY <2>2 DEF SetRendered
    <2> QED
        BY <2>1, <2>2
<1>2. (community <=> "communityAdditive" \in DOMAIN set)
      /\ (targets <=> "extcommunityRtAdditive" \in DOMAIN set)
    BY <1>1 DEF On, Has, AdditiveWords
<1>3. \A f : f \in DOMAIN l <=> f \in DOMAIN set /\ f \notin AdditiveWords
    <2>1. \A f : f \in DOMAIN l <=>
            /\ f \in DOMAIN set /\ f \notin AdditiveWords
            /\ f = "communityNone" => On(set, f)
            /\ f = "community" => ~On(set, "communityNone")
        BY DEF SetLines, AdditiveWords
    <2>2. "communityNone" \in DOMAIN set => On(set, "communityNone")
        BY <1>1 DEF On, Has
    <2>3. "community" \in DOMAIN set => ~On(set, "communityNone")
        BY <1>1 DEF On, Has
    <2> HIDE DEF l
    <2> QED
        BY <2>1, <2>2, <2>3
<1>4. /\ \A f \in DOMAIN l : f \notin {"community", "extcommunityRt"} => l[f] = set[f]
      /\ "community" \in DOMAIN l => l["community"] = <<set["community"], community>>
      /\ "extcommunityRt" \in DOMAIN l => l["extcommunityRt"] = <<set["extcommunityRt"], targets>>
    BY DEF SetLines
<1> HIDE DEF l
<1>5. /\ \A f : f \in DOMAIN r <=>
            \/ f \in DOMAIN l
            \/ (f = "communityAdditive" /\ "community" \in DOMAIN l /\ l["community"][2])
            \/ (f = "extcommunityRtAdditive" /\ "extcommunityRt" \in DOMAIN l
                /\ l["extcommunityRt"][2])
      /\ \A f \in DOMAIN r : f \in AdditiveWords => r[f] = TRUE
      /\ \A f \in DOMAIN r : f \in {"community", "extcommunityRt"} => r[f] = l[f][1]
      /\ \A f \in DOMAIN r : f \notin AdditiveWords \cup {"community", "extcommunityRt"} => r[f] = l[f]
      /\ IsAFunction(r)
    BY DEF SetFound, AdditiveWords, IsAFunction
<1> HIDE DEF r, community, targets
<1>6. /\ "community" \in DOMAIN l => l["community"][1] = set["community"] /\ l["community"][2] = community
      /\ "extcommunityRt" \in DOMAIN l =>
            l["extcommunityRt"][1] = set["extcommunityRt"] /\ l["extcommunityRt"][2] = targets
    BY <1>4
<1>7. \A f : f \in DOMAIN r <=> f \in DOMAIN set
    <2> SUFFICES ASSUME NEW f
                 PROVE  f \in DOMAIN r <=> f \in DOMAIN set
        OBVIOUS
    <2>1. CASE f = "communityAdditive"
        <3>1. f \notin DOMAIN l
            BY <1>3, <2>1 DEF AdditiveWords
        <3>2. "community" \in DOMAIN l <=> "community" \in DOMAIN set
            BY <1>3 DEF AdditiveWords
        <3>3. f \in DOMAIN r <=> "community" \in DOMAIN l /\ community
            BY <1>5, <1>6, <2>1, <3>1
        <3> QED
            BY <1>1, <1>2, <2>1, <3>2, <3>3
    <2>2. CASE f = "extcommunityRtAdditive"
        <3>1. f \notin DOMAIN l
            BY <1>3, <2>2 DEF AdditiveWords
        <3>2. "extcommunityRt" \in DOMAIN l <=> "extcommunityRt" \in DOMAIN set
            BY <1>3 DEF AdditiveWords
        <3>3. f \in DOMAIN r <=> "extcommunityRt" \in DOMAIN l /\ targets
            BY <1>5, <1>6, <2>2, <3>1
        <3> QED
            BY <1>1, <1>2, <2>2, <3>2, <3>3
    <2>3. CASE f \notin AdditiveWords
        BY <1>3, <1>5, <2>3 DEF AdditiveWords
    <2> QED
        BY <2>1, <2>2, <2>3 DEF AdditiveWords
<1>8. \A f \in DOMAIN set : r[f] = set[f]
    <2> SUFFICES ASSUME NEW f \in DOMAIN set
                 PROVE  r[f] = set[f]
        OBVIOUS
    <2>1. f \in DOMAIN r
        BY <1>7
    <2>2. CASE f \in AdditiveWords
        BY <1>1, <1>5, <2>1, <2>2
    <2>3. CASE f \in {"community", "extcommunityRt"}
        <3>1. f \in DOMAIN l
            BY <1>3, <2>3 DEF AdditiveWords
        <3> QED
            BY <1>5, <1>6, <2>1, <2>3, <3>1
    <2>4. CASE f \notin AdditiveWords \cup {"community", "extcommunityRt"}
        <3>1. f \in DOMAIN l
            BY <1>3, <2>4
        <3> QED
            BY <1>4, <1>5, <2>1, <2>4, <3>1
    <2> QED
        BY <2>2, <2>3, <2>4
<1>9. l # Nothing
    <2>1. PICK f : f \in DOMAIN set
        BY <1>1
    <2>2. \E g : g \in DOMAIN set /\ g \notin AdditiveWords
        <3>1. "community" \notin AdditiveWords /\ "extcommunityRt" \notin AdditiveWords
            BY DEF AdditiveWords
        <3> QED
            BY <1>1, <2>1, <3>1 DEF AdditiveWords
    <2> QED
        BY <1>3, <2>2, NothingDomain
<1>10. r = set
    <2>1. DOMAIN r = DOMAIN set
        BY <1>7
    <2> QED
        BY <1>1, <1>5, <1>8, <2>1 DEF IsAFunction
<1> QED
    BY <1>9, <1>10 DEF l, r

LEMMA EntryRendered ==
    ASSUME NEW e, IsAFunction(e), "match" \in DOMAIN e => e["match"] # Nothing,
           "set" \in DOMAIN e => SetRendered(e["set"])
    PROVE  MapEntryFound(MapEntryLines(e)) = e
<1> DEFINE l == MapEntryLines(e)
           r == MapEntryFound(l)
<1>1. "set" \in DOMAIN e => SetLines(e["set"]) # Nothing /\ SetFound(SetLines(e["set"])) = e["set"]
    BY ClausesRendered
<1>2. /\ \A f : f \in DOMAIN l <=>
            /\ f \in DOMAIN e
            /\ f = "match" => e["match"] # Nothing
            /\ f = "set" => SetLines(e["set"]) # Nothing
      /\ "set" \in DOMAIN l => l["set"] = SetLines(e["set"])
      /\ \A f \in DOMAIN l : f # "set" => l[f] = e[f]
    BY DEF MapEntryLines
<1> HIDE DEF l
<1>3. /\ DOMAIN r = DOMAIN l /\ IsAFunction(r)
      /\ "set" \in DOMAIN l => r["set"] = SetFound(l["set"])
      /\ \A f \in DOMAIN l : f # "set" => r[f] = l[f]
    BY DEF MapEntryFound, IsAFunction
<1> HIDE DEF r
<1>4. DOMAIN r = DOMAIN e
    <2>1. \A f : f \in DOMAIN l <=> f \in DOMAIN e
        BY <1>1, <1>2
    <2> QED
        BY <1>3, <2>1
<1>5. \A f \in DOMAIN e : r[f] = e[f]
    BY <1>1, <1>2, <1>3, <1>4
<1>6. r = e
    BY <1>3, <1>4, <1>5 DEF IsAFunction
<1> QED
    BY <1>6 DEF r, l

LEMMA RouteMapRoundTrip ==
    ASSUME NEW args, NEW c, AsGiven("routeMap", args, c), RouteMapValid(args),
           Ordered(args.entries), \A e \in Entries(args) : AllRendered(e),
           Following(c, args.name) = <<>>
    PROVE  ReadBack("routeMap", args, c) = args
<1> DEFINE k == "routeMap"
           object == ListObject(k, args)
           s == args.entries
           rendered == [i \in DOMAIN s |-> MapEntryLines(s[i])]
           lines == [entries |-> rendered]
           own == EntriesOf(c, args.name)
           parsed == [i \in DOMAIN own |-> MapEntryFound(own[i])]
           found == [entries |-> parsed]
<1>1. k \in ListKinds
    BY DEF ListKinds
<1>2. "entries" \in DOMAIN args /\ IsAList(s) /\ s = [i \in DOMAIN s |-> s[i]] /\ 1 \in DOMAIN s
    <2>1. IsAList(s) /\ "entries" \in DOMAIN args
        BY <1>1 DEF AsGiven, WellTyped, Decoded, Has
    <2>2. s # <<>>
        BY DEF RouteMapValid
    <2> QED
        BY <2>1, <2>2, ListOfMembers, ListNotEmpty
<1>3. BySeq(args) = s
    <2>1. \A i \in DOMAIN s : "seq" \in DOMAIN s[i] /\ s[i]["seq"] \in Nat
        <3> SUFFICES ASSUME NEW e \in Entries(args)
                     PROVE  "seq" \in DOMAIN e /\ e["seq"] \in Nat
            BY DEF Entries
        <3>1. Has(e, "seq")
            BY DEF AsGiven, WellTyped
        <3>2. e.seq \in 0 .. SeqMax /\ SeqMax \in Nat
            BY ListAssumption DEF RouteMapValid, MapEntryValid
        <3> QED
            BY <3>1, <3>2 DEF Has
    <2>2. InOrderOf(s, "seq")
        BY <1>2, <2>1, SeqsInOrder DEF RouteMapValid
    <2> QED
        BY <2>2, BySeqIsSame
<1>4. ListLines(k, args) = lines
    BY <1>3 DEF ListLines, RouteMapLines
<1>5. <<object, "entries">> \in DOMAIN c /\ c[<<object, "entries">>] = rendered
    <2>1. "entries" \notin DOMAIN Default
        BY DEF Default
    <2>2. "entries" \in DOMAIN lines /\ lines["entries"] = rendered
        OBVIOUS
    <2> HIDE DEF lines, rendered, object
    <2> QED
        BY <1>1, <1>4, <2>1, <2>2, ListShows DEF object
<1>6. own = rendered
    <2>1. object = MapObject(args.name)
        BY DEF ListObject, MapObject
    <2> HIDE DEF object, rendered
    <2> QED
        BY <1>5, <2>1 DEF EntriesOf, Shown, Or, Has
<1>7. own # <<>>
    <2>1. 1 \in DOMAIN own
        BY <1>2, <1>6
    <2> QED
        BY <2>1
<1>8. ListFound(k, args, c) = found
    <2>1. ListFound(k, args, c) = RouteMapFound(args, c)
        BY DEF ListFound
    <2> QED
        BY <1>7, <2>1 DEF RouteMapFound
<1> HIDE DEF own
<1>9. \A i \in DOMAIN s : MapEntryFound(MapEntryLines(s[i])) = s[i]
    <2> SUFFICES ASSUME NEW e \in Entries(args)
                 PROVE  MapEntryFound(MapEntryLines(e)) = e
        BY DEF Entries
    <2>1. IsAFunction(e) /\ AllRendered(e)
        BY DEF AsGiven, Decoded
    <2>2. ASSUME "set" \in DOMAIN e
          PROVE  SetRendered(e["set"])
        <3> DEFINE set == e["set"]
        <3>1. IsAFunction(set)
            BY <2>2 DEF AsGiven, Decoded, Has
        <3>2. \A f \in AdditiveWords \cup {"communityNone"} : f \in DOMAIN set => set[f] \in BOOLEAN
            BY <2>2 DEF AsGiven, WellTyped, AdditiveWords, Has
        <3>3. /\ set # Nothing
              /\ \A f \in DOMAIN set :
                    /\ f \in AdditiveWords \cup {"communityNone"} => set[f]
                    /\ f = "communityNone" => "community" \notin DOMAIN set
                    /\ f = "communityAdditive" => "community" \in DOMAIN set
                    /\ f = "extcommunityRtAdditive" => "extcommunityRt" \in DOMAIN set
            BY <2>1, <2>2 DEF AllRendered, AdditiveWords, Has
        <3> HIDE DEF set
        <3>4. \A f \in AdditiveWords \cup {"communityNone"} : f \in DOMAIN set => set[f] = TRUE
            BY <3>2, <3>3
        <3> QED
            BY <3>1, <3>3, <3>4 DEF SetRendered, set
    <2>3. "match" \in DOMAIN e => e["match"] # Nothing
        BY <2>1 DEF AllRendered, Has
    <2> QED
        BY <2>1, <2>2, <2>3, EntryRendered
<1>10. parsed = s
    <2>1. DOMAIN own = DOMAIN s /\ \A i \in DOMAIN s : own[i] = MapEntryLines(s[i])
        BY <1>6
    <2> HIDE DEF s
    <2>2. parsed = [i \in DOMAIN s |-> s[i]]
        BY <1>9, <2>1
    <2> QED
        BY <1>2, <2>2
<1>11. DOMAIN found = {"entries"} /\ found["entries"] = parsed
    OBVIOUS
<1> HIDE DEF found, parsed
<1>12. \A f \in DOMAIN found : f \in DOMAIN args /\ found[f] = args[f]
    BY <1>2, <1>10, <1>11
<1>13. IsAFunction(args) /\ DOMAIN found # {}
    BY <1>11 DEF AsGiven, Decoded
<1> HIDE DEF k
<1>14. ReadBack(k, args, c) = args
    BY <1>1, <1>8, <1>12, <1>13, ListReadsSame
<1> QED
    BY <1>14 DEF k

-----------------------------------------------------------------------------
(***************************************************************************)
(* What was read is read again as it is, for the kinds whose block does    *)
(* not merge: Read keeps all that it goes by.                              *)
(***************************************************************************)
LEMMA OverlayTwice ==
    ASSUME NEW a, NEW b
    PROVE  Overlay(Overlay(a, b), b) = Overlay(a, b)
<1> DEFINE o == Overlay(a, b)
<1>1. DOMAIN o = DOMAIN a \cup DOMAIN b /\ \A f \in DOMAIN b : o[f] = b[f]
    BY DEF Overlay
<1>2. IsAFunction(o)
    BY DEF Overlay, IsAFunction
<1> HIDE DEF o
<1>3. DOMAIN Overlay(o, b) = DOMAIN o
    BY <1>1 DEF Overlay
<1>4. \A f \in DOMAIN o : Overlay(o, b)[f] = o[f]
    BY <1>1 DEF Overlay
<1>5. Overlay(o, b) = [f \in DOMAIN o |-> Overlay(o, b)[f]]
    BY <1>3 DEF Overlay
<1> QED
    BY <1>2, <1>4, <1>5 DEF o, IsAFunction

LEMMA VlanReadTwice ==
    ASSUME NEW k \in {"vlan", "vlanRange"}, NEW args, NEW c, NEW state,
           state = ReadBack(k, args, c), state # Nothing, SameIdentity(k, args, state)
    PROVE  ReadBack(k, state, c) = state
<1>1. CASE k = "vlan"
    <2>1. state = VlanRead(args, c) /\ ReadBack(k, state, c) = VlanRead(state, c)
        BY <1>1, ReadByKind
    <2>2. state.id = args.id
        BY <1>1 DEF SameIdentity
    <2> DEFINE found == [name |-> ShownName(c, args.id)]
    <2>3. Exists(c, VlanObject(args.id)) /\ state = Overlay(args, found)
        BY <2>1 DEF VlanRead
    <2>4. VlanRead(state, c) = Overlay(state, found)
        BY <2>2, <2>3 DEF VlanRead
    <2> HIDE DEF found
    <2> QED
        BY <2>1, <2>3, <2>4, OverlayTwice
<1>2. CASE k = "vlanRange"
    <2>1. state = RangeRead(args, c) /\ ReadBack(k, state, c) = RangeRead(state, c)
        BY <1>2, ReadByKind
    <2>2. state.start = args.start /\ state.end = args.end
        BY <1>2 DEF SameIdentity
    <2> DEFINE shown == ShownName(c, args.start)
               found == [name |-> shown]
    <2>3. Exists(c, VlanObject(args.start)) /\ Exists(c, VlanObject(args.end))
          /\ state = IF shown \in LooksAuto THEN args ELSE Overlay(args, found)
        BY <2>1 DEF RangeRead
    <2>4. RangeRead(state, c) = IF shown \in LooksAuto THEN state ELSE Overlay(state, found)
        BY <2>2, <2>3 DEF RangeRead
    <2> HIDE DEF found
    <2> QED
        BY <2>1, <2>3, <2>4, OverlayTwice
<1> QED
    BY <1>1, <1>2

LEMMA SingletonReadTwice ==
    ASSUME NEW k \in {"varp", "mlag"}, NEW args, NEW c, NEW state,
           state = ReadBack(k, args, c), state # Nothing
    PROVE  ReadBack(k, state, c) = state
<1>1. CASE k = "varp"
    <2>1. state = VarpRead(args, c) /\ ReadBack(k, state, c) = VarpRead(state, c)
        BY <1>1, ReadByKind
    <2> QED
        BY <2>1, OverlayTwice DEF VarpRead
<1>2. CASE k = "mlag"
    <2>1. state = MlagRead(args, c) /\ ReadBack(k, state, c) = MlagRead(state, c)
        BY <1>2, ReadByKind
    <2> QED
        BY <2>1, OverlayTwice DEF MlagRead
<1> QED
    BY <1>1, <1>2

LEMMA RouteReadTwice ==
    ASSUME NEW args, {"prefix", "nextHop"} \subseteq DOMAIN args, NEW c, NEW state,
           state = ReadBack("staticRoute", args, c), state # Nothing
    PROVE  ReadBack("staticRoute", state, c) = state
<1> DEFINE knobs == {"tag", "name", "metric", "track"}
           rows(a) == {d \in 1 .. DistanceMax : Exists(c, RouteOf(a, d))}
           first(R) == CHOOSE d \in R : \A e \in R : d <= e
           row(o) == [f \in {j \in knobs : <<o, j>> \in DOMAIN c} |-> c[<<o, f>>]]
           distance(n) == [f \in {j \in {"distance"} : n # 1} |-> n]
           R == rows(args)
           r == row(RouteOf(args, first(R)))
           n == distance(first(R))
<1>1. state = RouteRead(args, c) /\ ReadBack("staticRoute", state, c) = RouteRead(state, c)
    BY ReadByKind
<1>2. R # {} /\ state = Overlay(Overlay(args, r), n)
    BY <1>1 DEF RouteRead
<1>3. rows(state) # {} => RouteRead(state, c)
        = Overlay(Overlay(state, row(RouteOf(state, first(rows(state))))), distance(first(rows(state))))
    BY DEF RouteRead
<1>4. DOMAIN r \subseteq knobs /\ DOMAIN n \subseteq {"distance"}
    OBVIOUS
<1> HIDE DEF r, n
<1>5. \A f \in {"vrf", "prefix", "nextHop"} :
        (f \in DOMAIN state <=> f \in DOMAIN args) /\ (f \in DOMAIN args => state[f] = args[f])
    <2> SUFFICES ASSUME NEW f \in {"vrf", "prefix", "nextHop"}
                 PROVE  /\ f \in DOMAIN state <=> f \in DOMAIN args
                        /\ f \in DOMAIN args => state[f] = args[f]
        OBVIOUS
    <2>1. f \notin DOMAIN r /\ f \notin DOMAIN n
        BY <1>4
    <2> HIDE DEF knobs
    <2> QED
        BY <1>2, <2>1, OverlayKeeps
<1>6. \A d : RouteOf(state, d) = RouteOf(args, d)
    <2>1. state.prefix = args.prefix /\ state.nextHop = args.nextHop
          /\ Or(state, "vrf", "") = Or(args, "vrf", "")
        BY <1>5 DEF Or, Has
    <2> QED
        BY <2>1 DEF RouteOf
<1>7. rows(state) = R
    BY <1>6
<1>8. RouteRead(state, c) = Overlay(Overlay(state, r), n)
    <2> HIDE DEF rows, first, row, distance
    <2>1. RouteRead(state, c) = Overlay(Overlay(state, row(RouteOf(state, first(R)))), distance(first(R)))
        BY <1>2, <1>3, <1>7
    <2> QED
        BY <1>6, <2>1 DEF r, n
<1> HIDE DEF R
<1>9. Overlay(Overlay(state, r), n) = state
    <2> DEFINE a == Overlay(args, r)
               b == Overlay(state, r)
               e == Overlay(b, n)
    <2>1. DOMAIN state = DOMAIN args \cup DOMAIN r \cup DOMAIN n
        BY <1>2 DEF Overlay
    <2>2. \A f \in DOMAIN state : state[f] = IF f \in DOMAIN n THEN n[f] ELSE a[f]
        BY <1>2, <2>1 DEF Overlay
    <2>3. \A f \in DOMAIN r : a[f] = r[f] /\ f \notin DOMAIN n
        BY <1>4 DEF Overlay
    <2>4. DOMAIN b = DOMAIN state /\ \A f \in DOMAIN b : b[f] = IF f \in DOMAIN r THEN r[f] ELSE state[f]
        BY <2>1 DEF Overlay
    <2>5. DOMAIN e = DOMAIN state /\ \A f \in DOMAIN e : e[f] = IF f \in DOMAIN n THEN n[f] ELSE b[f]
        BY <2>1, <2>4 DEF Overlay
    <2>6. IsAFunction(state) /\ IsAFunction(e)
        BY <1>2 DEF Overlay, IsAFunction
    <2> HIDE DEF a, b, e, knobs
    <2>7. \A f \in DOMAIN state : e[f] = state[f]
        BY <2>2, <2>3, <2>4, <2>5
    <2>8. e = state
        BY <2>5, <2>6, <2>7 DEF IsAFunction
    <2> QED
        BY <2>8 DEF e, b
<1> QED
    BY <1>1, <1>8, <1>9

LEMMA PolicyReadTwice ==
    ASSUME NEW args, NEW c, NEW state, state = ReadBack("policyBasedRouting", args, c),
           state # Nothing, SameIdentity("policyBasedRouting", args, state)
    PROVE  ReadBack("policyBasedRouting", state, c) = state
<1> DEFINE found == Shown(c, PolicyMap(args), {"sequences"})
<1>1. state = PbrRead(args, c) /\ ReadBack("policyBasedRouting", state, c) = PbrRead(state, c)
    BY ReadByKind
<1>2. PolicyMap(state) = PolicyMap(args)
    BY DEF SameIdentity, PolicyMap
<1>3. Exists(c, PolicyMap(args))
      /\ state = IF Or(found, "sequences", <<>>) = <<>> THEN args ELSE Overlay(args, found)
    BY <1>1 DEF PbrRead
<1>4. PbrRead(state, c) = IF Or(found, "sequences", <<>>) = <<>> THEN state ELSE Overlay(state, found)
    BY <1>2, <1>3 DEF PbrRead
<1> HIDE DEF found
<1> QED
    BY <1>1, <1>3, <1>4, OverlayTwice

LEMMA ListReadTwice ==
    ASSUME NEW k \in ListKinds, NEW args, NEW c, NEW state, state = ReadBack(k, args, c),
           state # Nothing, SameIdentity(k, args, state)
    PROVE  ReadBack(k, state, c) = state
<1>1. state = ListRead(k, args, c) /\ ReadBack(k, state, c) = ListRead(k, state, c)
    BY ReadByKind
<1>2. state.name = args.name
    BY DEF SameIdentity
<1>3. ListFound(k, state, c) = ListFound(k, args, c)
    <2>1. CASE k = "prefixList"
        BY <1>2, <2>1 DEF ListFound, PrefixListFound, ListObject
    <2>2. CASE k = "communityList"
        BY <1>2, <2>2 DEF ListFound, CommunityListFound, ListObject
    <2>3. CASE k = "extCommunityList"
        BY <1>2, <2>3 DEF ListFound, ExtCommunityListFound, ListObject
    <2>4. CASE k = "asPathList"
        <3>1. ListObject("asPathList", state) = ListObject("asPathList", args)
            BY <1>2 DEF ListObject
        <3>2. AsPathListFound(state, c) = AsPathListFound(args, c)
            BY <3>1 DEF AsPathListFound
        <3> QED
            BY <2>4, <3>2 DEF ListFound
    <2>5. CASE k = "routeMap"
        <3>1. RouteMapFound(state, c) = RouteMapFound(args, c)
            BY <1>2 DEF RouteMapFound
        <3> QED
            BY <2>5, <3>1 DEF ListFound
    <2> QED
        BY <2>1, <2>2, <2>3, <2>4, <2>5 DEF ListKinds
<1> QED
    BY <1>1, <1>3, OverlayTwice DEF ListRead

LEMMA EcmpReadTwice ==
    ASSUME NEW args, "prefix" \in DOMAIN args, NEW c, NEW state,
           state = ReadBack("resilientEcmp", args, c), state # Nothing,
           SameIdentity("resilientEcmp", args, state)
    PROVE  ReadBack("resilientEcmp", state, c) = state
<1> DEFINE k == "resilientEcmp"
           o == Object(k, args)
           line == Given(Or(Shown(c, o, {"line"}), "line", Nothing),
                         {"capacity", "redundancy", "ordered"})
           found(family) == Overlay([ipFamily |-> family], line)
           family == Or(args, "ipFamily", "ipv4")
<1>1. /\ k \in OneObjectKinds
      /\ state = OneRead(k, args, c) /\ ReadBack(k, state, c) = OneRead(k, state, c)
    BY ReadByKind DEF OneObjectKinds, RebuildKinds
<1>2. Object(k, state) = o
    BY <1>1, SameObject
<1>3. \A a : /\ Base(k, a) = a
             /\ Missing(k, a, c) <=> ResilientEcmpMissing(a, c, Object(k, a))
             /\ Found(k, a, c) = ResilientEcmpFound(a, c, Object(k, a))
    BY DEF Base, Missing, Found
<1>4. ~ResilientEcmpMissing(args, c, o) /\ state = Overlay(args, ResilientEcmpFound(args, c, o))
    BY <1>1, <1>3 DEF OneRead
<1>5. state.prefix = args.prefix
    BY <1>1 DEF SameIdentity, Identity
<1>6. \A a : ResilientEcmpFound(a, c, o) = found(Or(a, "ipFamily", "ipv4"))
    BY DEF ResilientEcmpFound
<1>7. DOMAIN line \subseteq {"capacity", "redundancy", "ordered"}
    BY GivenDomain
<1> HIDE DEF k, o, line, family
<1>8. "ipFamily" \in DOMAIN found(family) /\ found(family)["ipFamily"] = family
    BY <1>7 DEF Overlay
<1>9. state = Overlay(args, found(family))
    BY <1>4, <1>6 DEF family
<1> HIDE DEF found
<1>10. "ipFamily" \in DOMAIN state /\ state["ipFamily"] = family
    BY <1>8, <1>9 DEF Overlay
<1>11. Or(state, "ipFamily", "ipv4") = family
    BY <1>10 DEF Or, Has
<1>12. ~ResilientEcmpMissing(state, c, o)
    BY <1>4, <1>5, <1>11 DEF ResilientEcmpMissing, family
<1>13. OneRead(k, state, c) = Overlay(state, found(family))
    BY <1>2, <1>3, <1>6, <1>11, <1>12 DEF OneRead
<1>14. Overlay(state, found(family)) = state
    BY <1>9, OverlayTwice
<1> QED
    BY <1>1, <1>13, <1>14 DEF k

LEMMA RebuiltReadTwice ==
    ASSUME NEW k \in RebuildKinds \ {"resilientEcmp"}, NEW args, NEW c, NEW state,
           state = ReadBack(k, args, c), state # Nothing, SameIdentity(k, args, state)
    PROVE  ReadBack(k, state, c) = state
<1>1. k \in OneObjectKinds /\ k \in {"evpnEthernetSegment", "routerOspf", "rcf"}
    BY DEF OneObjectKinds, RebuildKinds
<1>2. state = OneRead(k, args, c) /\ ReadBack(k, state, c) = OneRead(k, state, c)
    BY <1>1, ReadByKind
<1>3. Object(k, state) = Object(k, args)
    BY <1>1, SameObject
<1>4. \A a : Base(k, a) = a
    BY <1>1 DEF Base
<1>5. \A a : Missing(k, a, c) <=> IF k = "rcf" THEN RcfMissing(c, Object(k, a))
                                 ELSE ~Exists(c, Object(k, a))
    BY <1>1 DEF Missing
<1>6. \A a : Found(k, a, c) = IF k = "evpnEthernetSegment" THEN EvpnEthernetSegmentFound(c, Object(k, a))
                              ELSE IF k = "rcf" THEN RcfFound(c, Object(k, a))
                              ELSE RouterOspfFound(c, Object(k, a))
    BY <1>1 DEF Found
<1>7. Missing(k, state, c) <=> Missing(k, args, c)
    BY <1>3, <1>5
<1>8. Found(k, state, c) = Found(k, args, c)
    BY <1>3, <1>6
<1>9. ~Missing(k, args, c) /\ state = Overlay(args, Found(k, args, c))
    BY <1>2, <1>4 DEF OneRead
<1>10. OneRead(k, state, c) = Overlay(state, Found(k, args, c))
    BY <1>4, <1>7, <1>8, <1>9 DEF OneRead
<1> QED
    BY <1>2, <1>9, <1>10, OverlayTwice

\* What was read of the inputs is read back as it is.
LEMMA ReadTwice ==
    ASSUME NEW k \in AllKinds \ (MergeKinds \cup RawKinds), NEW args,
           Required(k) \subseteq DOMAIN args, NEW c, NEW state,
           state = ReadBack(k, args, c), state # Nothing
    PROVE  ReadBack(k, state, c) = state
<1>1. SameIdentity(k, args, state)
    BY ReadKeepsIdentity
<1>2. CASE k \in {"vlan", "vlanRange"}
    BY <1>1, <1>2, VlanReadTwice
<1>3. CASE k \in {"varp", "mlag"}
    BY <1>3, SingletonReadTwice
<1>4. CASE k = "staticRoute"
    <2>1. Required(k) = {"prefix", "nextHop"}
        BY <1>4 DEF Required, ListKinds, OneObjectKinds, MergeKinds, RebuildKinds, RawKinds
    <2> QED
        BY <1>4, <2>1, RouteReadTwice
<1>5. CASE k = "policyBasedRouting"
    BY <1>1, <1>5, PolicyReadTwice
<1>6. CASE k \in ListKinds
    BY <1>1, <1>6, ListReadTwice
<1>7. CASE k \in RebuildKinds \ {"resilientEcmp"}
    BY <1>1, <1>7, RebuiltReadTwice
<1>8. CASE k = "resilientEcmp"
    <2>1. k \in OneObjectKinds /\ Identity(k) = {"prefix"}
        BY <1>8 DEF OneObjectKinds, RebuildKinds, Identity
    <2>2. "prefix" \in DOMAIN args
        BY <2>1, RequiredByKind
    <2> QED
        BY <1>1, <1>8, <2>2, EcmpReadTwice
<1> QED
    BY <1>2, <1>3, <1>4, <1>5, <1>6, <1>7, <1>8 DEF AllKinds, OneObjectKinds

-----------------------------------------------------------------------------
(***************************************************************************)
(* Explicit inputs, and what is given of the device with them.             *)
(***************************************************************************)
LEMMA ExplicitByKind ==
    ASSUME NEW args, Explicit(args)
    PROVE  /\ kind = "vlan" => Has(args, "name")
           /\ kind = "vlanRange" => Has(args, "name") /\ args["name"] \notin LooksAuto
           /\ kind = "varp" => Canonical(args.mac) = args["mac"]
           /\ kind = "mlag" => Has(args, "recoveryMlag") = Has(args, "recoveryNonMlag")
           /\ kind = "prefixList" => Ordered(args.entries)
           /\ kind = "communityList" => Has(args, "type")
           /\ kind = "extCommunityList" => Has(args, "listType")
           /\ kind = "asPathList" => \A e \in Entries(args) : e.origin # "any"
           /\ kind = "routeMap" => Ordered(args.entries) /\ \A e \in Entries(args) : AllRendered(e)
           /\ kind = "policyBasedRouting" => PbrRendered(args.sequences)
           /\ kind \in {"interface", "portChannel"} => NoDefaultSwitchport(args)
           /\ kind = "vxlanInterface" => VxlanInOrder(args)
           /\ kind = "vrrp" =>
                /\ VrrpInOrder(args) /\ TracksRendered(args)
                /\ ~VrrpMissing(Wanted(kind, args), Object(kind, args))
           /\ kind = "stp" =>
                /\ Has(args, "stpMode")
                /\ Has(args, "mst") =>
                    \A i, j \in DOMAIN args.mst.instances :
                        i < j => args.mst.instances[i].id < args.mst.instances[j].id
           /\ kind = "evpnEthernetSegment" =>
                (Has(args, "designatedForwarder") => ElectionRendered(args.designatedForwarder))
           /\ kind = "vrf" => Has(args, "ipRouting") /\ Has(args, "ipv6Routing")
           /\ kind = "rpki" => Has(args, "transport")
           /\ kind = "rcf" => ~Has(args, "sourceUrl")
           /\ kind = "resilientEcmp" => Has(args, "ipFamily")
           /\ kind = "routerBgp" => \A vrf \in Items(args, "vrfs") : ~Has(vrf, "routerId")
<1>1. kind = "vlan" => Has(args, "name")
    BY DEF Explicit, Increasing
<1>2. kind = "vlanRange" => Has(args, "name") /\ args["name"] \notin LooksAuto
    BY DEF Explicit, Increasing
<1>3. kind = "varp" => Canonical(args.mac) = args["mac"]
    BY DEF Explicit, Increasing
<1>4. kind = "mlag" => Has(args, "recoveryMlag") = Has(args, "recoveryNonMlag")
    BY DEF Explicit, Increasing
<1>5. kind = "prefixList" => Ordered(args.entries)
    BY DEF Explicit, Increasing
<1>6. kind = "communityList" => Has(args, "type")
    BY DEF Explicit, Increasing
<1>7. kind = "extCommunityList" => Has(args, "listType")
    BY DEF Explicit, Increasing
<1>8. kind = "asPathList" => \A e \in Entries(args) : e.origin # "any"
    BY DEF Explicit, Increasing
<1>9. kind = "routeMap" => Ordered(args.entries) /\ \A e \in Entries(args) : AllRendered(e)
    BY DEF Explicit, Increasing
<1>10. kind = "policyBasedRouting" => PbrRendered(args.sequences)
    BY DEF Explicit, Increasing
<1>11. kind \in {"interface", "portChannel"} => NoDefaultSwitchport(args)
    BY DEF Explicit, Increasing
<1>12. kind = "vxlanInterface" => VxlanInOrder(args)
    BY DEF Explicit, Increasing
<1>13. kind = "vrrp" =>
            /\ VrrpInOrder(args) /\ TracksRendered(args)
            /\ ~VrrpMissing(Wanted(kind, args), Object(kind, args))
    BY DEF Explicit, Increasing
<1>14. kind = "stp" =>
        /\ Has(args, "stpMode")
        /\ Has(args, "mst") =>
            \A i, j \in DOMAIN args.mst.instances :
                i < j => args.mst.instances[i].id < args.mst.instances[j].id
    BY DEF Explicit, Increasing
<1>15. kind = "evpnEthernetSegment" =>
        (Has(args, "designatedForwarder") => ElectionRendered(args.designatedForwarder))
    BY DEF Explicit, Increasing
<1>16. kind = "vrf" => Has(args, "ipRouting") /\ Has(args, "ipv6Routing")
    BY DEF Explicit, Increasing
<1>17. kind = "rpki" => Has(args, "transport")
    BY DEF Explicit, Increasing
<1>18. kind = "rcf" => ~Has(args, "sourceUrl")
    BY DEF Explicit, Increasing
<1>19. kind = "resilientEcmp" => Has(args, "ipFamily")
    BY DEF Explicit, Increasing
<1>20. kind = "routerBgp" => \A vrf \in Items(args, "vrfs") : ~Has(vrf, "routerId")
    BY DEF Explicit, Increasing
<1> QED
    BY <1>1, <1>2, <1>3, <1>4, <1>5, <1>6, <1>7, <1>8, <1>9, <1>10, <1>11, <1>12, <1>13, <1>14,
       <1>15, <1>16, <1>17, <1>18, <1>19, <1>20

\* a list field of the inputs, or the empty list where it is not given
LEMMA ListGiven ==
    ASSUME NEW args, NEW f, Has(args, f) => IsAList(args[f])
    PROVE  /\ IsAList(Or(args, f, <<>>))
           /\ \A i \in DOMAIN Or(args, f, <<>>) :
                Has(args, f) /\ Or(args, f, <<>>)[i] \in Items(args, f)
<1>1. CASE Has(args, f)
    <2>1. Or(args, f, <<>>) = args[f]
        BY <1>1 DEF Or
    <2> QED
        BY <1>1, <2>1 DEF Items
<1>2. CASE ~Has(args, f)
    <2>1. Or(args, f, <<>>) = <<>>
        BY <1>2 DEF Or
    <2>2. IsAList(<<>>) /\ DOMAIN <<>> = {}
        BY DEF IsAList
    <2> QED
        BY <2>1, <2>2
<1> QED
    BY <1>1, <1>2

LEMMA VxlanInputsRising ==
    ASSUME NEW args, WellTyped("vxlanInterface", args), Decoded("vxlanInterface", args),
           VxlanInOrder(args)
    PROVE  VxlanRising(args)
<1> DEFINE vlans == Or(args, "vlanVniMap", <<>>)
           vrfs == Or(args, "vrfVniMap", <<>>)
<1>1. /\ \A f \in VxlanLists : Has(args, f) => IsAList(args[f])
      /\ Items(args, "floodVteps") \subseteq Int
      /\ \A row \in Items(args, "vrfVniMap") : row["vrf"] \in Int
    BY DEF WellTyped
<1>2. \A row \in Items(args, "vlanVniMap") : row["vlanId"] \in Int
    BY DEF Decoded
<1>3. /\ \A i, j \in DOMAIN vlans : i < j => vlans[i]["vlanId"] < vlans[j]["vlanId"]
      /\ \A i, j \in DOMAIN vrfs : i < j => vrfs[i]["vrf"] < vrfs[j]["vrf"]
      /\ \A i, j \in DOMAIN Or(args, "floodVteps", <<>>) : i < j =>
            Or(args, "floodVteps", <<>>)[i] < Or(args, "floodVteps", <<>>)[j]
    BY DEF VxlanInOrder, Increasing
<1>4. {"vlanVniMap", "vrfVniMap", "floodVteps"} \subseteq VxlanLists
    BY DEF VxlanLists
<1>5. IsAList(vlans) /\ \A i \in DOMAIN vlans : vlans[i]["vlanId"] \in Int
    BY <1>1, <1>2, <1>4, ListGiven
<1>6. IsAList(vrfs) /\ \A i \in DOMAIN vrfs : vrfs[i]["vrf"] \in Int
    BY <1>1, <1>4, ListGiven
<1>7. Has(args, "floodVteps") =>
        /\ args.floodVteps \in Seq(Int)
        /\ \A i, j \in DOMAIN args.floodVteps : i < j => args.floodVteps[i] < args.floodVteps[j]
    <2> HAVE Has(args, "floodVteps")
    <2>1. Or(args, "floodVteps", <<>>) = args["floodVteps"]
        BY DEF Or
    <2>2. IsAList(args["floodVteps"]) /\ \A i \in DOMAIN args["floodVteps"] : args["floodVteps"][i] \in Int
        BY <1>1, <1>4 DEF Items
    <2>3. args["floodVteps"] \in Seq(Int)
        <3> DEFINE s == args["floodVteps"]
        <3>1. s \in Seq(ToSet(s))
            BY <2>2 DEF IsAList
        <3>2. \A i \in DOMAIN s : s[i] \in Int
            BY <2>2
        <3> HIDE DEF s
        <3>3. s \in Seq(Int)
            BY <3>1, <3>2
        <3> QED
            BY <3>3 DEF s
    <2> QED
        BY <1>3, <2>1, <2>3
<1> HIDE DEF vlans, vrfs
<1>8. Rising(vlans, "vlanId") /\ Rising(vrfs, "vrf")
    BY <1>3, <1>5, <1>6 DEF Rising
<1> QED
    BY <1>7, <1>8 DEF VxlanRising, vlans, vrfs

LEMMA VrrpInputsInOrder ==
    ASSUME NEW args, WellTyped("vrrp", args), VrrpInOrder(args)
    PROVE  AddressesInOrder(args) /\ Rising(Or(args, "tracks", <<>>), "interface")
<1> DEFINE tracks == Or(args, "tracks", <<>>)
<1>1. /\ Has(args, "virtualAddresses") => IsAList(args["virtualAddresses"])
      /\ Has(args, "tracks") => IsAList(args["tracks"])
      /\ Items(args, "virtualAddresses") \subseteq {4, 6} \X Int
      /\ \A t \in Items(args, "tracks") : t["interface"] \in Int
    BY DEF WellTyped
<1>2. IsAList(AddressList(args)) /\ \A i \in DOMAIN AddressList(args) : AddressList(args)[i] \in {4, 6} \X Int
    <2>1. AddressList(args) = Or(args, "virtualAddresses", <<>>)
        BY DEF AddressList
    <2> QED
        BY <1>1, <2>1, ListGiven
<1>3. IsAList(tracks) /\ \A i \in DOMAIN tracks : tracks[i]["interface"] \in Int
    BY <1>1, ListGiven
<1>4. AddressesInOrder(args)
    BY <1>2 DEF VrrpInOrder, AddressesInOrder, Increasing
<1>5. \A i, j \in DOMAIN tracks : i < j => tracks[i]["interface"] < tracks[j]["interface"]
    BY DEF VrrpInOrder, Increasing
<1> HIDE DEF tracks
<1>6. Rising(tracks, "interface")
    BY <1>3, <1>5 DEF Rising
<1> QED
    BY <1>4, <1>6 DEF tracks

LEMMA PolicyInOrder ==
    ASSUME NEW args, Decoded("policyBasedRouting", args), PbrValid(args),
           PbrRendered(args.sequences)
    PROVE  /\ InOrderOf(args.sequences, "seq")
           /\ \A i \in DOMAIN args.sequences :
                PbrActionLine(args.sequences[i].action) = args.sequences[i]["action"]
<1> DEFINE s == args.sequences
<1>1. Has(args, "sequences") /\ IsAList(s) /\ \A t \in Items(args, "sequences") : "seq" \in DOMAIN t
    BY DEF Decoded, Has
<1>2. \A i \in DOMAIN s : "seq" \in DOMAIN s[i]
    BY <1>1 DEF Items
<1>3. \A i \in DOMAIN s : s[i]["seq"] \in 1 .. SeqMax
    BY DEF PbrValid
<1>4. /\ \A i, j \in DOMAIN s : i < j => s[i]["seq"] < s[j]["seq"]
      /\ \A i \in DOMAIN s : PbrActionLine(s[i].action) = s[i]["action"]
    BY DEF PbrRendered, Increasing
<1>5. SeqMax \in Nat
    BY ListAssumption
<1> HIDE DEF s
<1>6. \A i \in DOMAIN s : s[i]["seq"] \in Nat
    BY <1>3, <1>5
<1>7. InOrderOf(s, "seq")
    BY <1>1, <1>2, <1>4, <1>6 DEF InOrderOf
<1> QED
    BY <1>4, <1>7 DEF s

-----------------------------------------------------------------------------
(***************************************************************************)
(* What an apply leaves, as long as nobody else changes the device: the    *)
(* inputs were valid, a block that rebuilds its objects left them as the   *)
(* inputs say, and that of a VLAN or a range left its lines.               *)
(***************************************************************************)
AppliedHolds(k, args, c) ==
    /\ Valid(k, args)
    /\ IF k \in {"vlan", "vlanRange"} THEN LinesApplied(k, args, c) ELSE InSync(k, args, c)

LEMMA RecordedGiven ==
    ASSUME LifeInv, recorded # Nothing, InSync(kind, recorded.inputs, config)
    PROVE  AsGiven(kind, recorded.inputs, config)
<1> DEFINE args == recorded.inputs
<1>1. WellTyped(kind, args) /\ Decoded(kind, args) /\ kind \in Kinds
      /\ (kind # "vxlanInterface" => args \in Inputs(kind))
    BY DEF LifeInv, LifeTypeOK
<1>2. kind \in OneObjectKinds => Object(kind, args) \notin Entered(kind, args)
    <2>1. CASE kind = "vxlanInterface"
        BY <2>1 DEF Entered
    <2>2. CASE kind # "vxlanInterface"
        BY <1>1, <2>2, InputsAssumption
    <2> QED
        BY <2>1, <2>2
<1> HIDE DEF args
<1>3. AsGiven(kind, args, config)
    BY <1>1, <1>2 DEF AsGiven, args
<1> QED
    BY <1>3 DEF args

\* explicit inputs of the kinds whose block adds lines under one object
LEMMA MergedComeBack ==
    ASSUME LifeInv, recorded # Nothing, kind \in MergeKinds, NEW args, args = recorded.inputs,
           Explicit(args), OnItsOwn(args), InSync(kind, args, config)
    PROVE  ReadBack(kind, args, config) = args
<1>1. /\ AsGiven(kind, args, config) /\ Required(kind) \subseteq DOMAIN args
      /\ WellTyped(kind, args) /\ Decoded(kind, args) /\ RunningConfig(config)
    BY RecordedGiven DEF LifeInv, LifeTypeOK, DeviceTypeOK
<1>2. CASE kind \in {"interface", "portChannel"}
    <2>1. NoDefaultSwitchport(args)
        BY <1>2, ExplicitByKind
    <2> QED
        BY <1>1, <1>2, <2>1, PortRoundTrip
<1>3. CASE kind \in {"vlanInterface", "greTunnel"}
    BY <1>1, <1>3, FieldsAndFlagsRoundTrip
<1>4. CASE kind \in {"loopback", "subinterface"}
    BY <1>1, <1>4, LoopbackRoundTrip
<1>5. CASE kind = "vxlanInterface"
    <2>1. VxlanInOrder(args)
        BY <1>5, ExplicitByKind
    <2> QED
        BY <1>1, <1>5, <2>1, VxlanInputsRising, VxlanRoundTrip
<1>6. CASE kind = "vrrp"
    <2>1. /\ VrrpInOrder(args) /\ TracksRendered(args)
          /\ ~VrrpMissing(Wanted("vrrp", args), Object("vrrp", args))
        BY <1>6, ExplicitByKind
    <2>2. AddressesInOrder(args) /\ Rising(Or(args, "tracks", <<>>), "interface")
        BY <1>1, <1>6, <2>1, VrrpInputsInOrder
    <2> QED
        BY <1>1, <1>6, <2>1, <2>2, VrrpRoundTrip
<1>7. CASE kind = "stp"
    <2>1. /\ Has(args, "stpMode")
          /\ Has(args, "mst") =>
                \A i, j \in DOMAIN args.mst.instances :
                    i < j => args.mst.instances[i].id < args.mst.instances[j].id
        BY <1>7, ExplicitByKind
    <2>2. Has(args, "mst") => Rising(args.mst.instances, "id")
        <3> HAVE Has(args, "mst")
        <3> DEFINE s == args.mst.instances
        <3>1. Has(args.mst, "instances") /\ IsAList(s)
            BY <1>1, <1>7 DEF WellTyped
        <3>2. \A i \in Items(args.mst, "instances") : i["id"] \in Int
            BY <1>1, <1>7 DEF Decoded
        <3>3. \A i \in DOMAIN s : s[i]["id"] \in Int
            BY <3>1, <3>2 DEF Items
        <3>4. \A i, j \in DOMAIN s : i < j => s[i]["id"] < s[j]["id"]
            BY <2>1
        <3> HIDE DEF s
        <3>5. Rising(s, "id")
            BY <3>1, <3>3, <3>4 DEF Rising
        <3> QED
            BY <3>5 DEF s
    <2> QED
        BY <1>1, <1>7, <2>1, <2>2, StpRoundTrip
<1>8. CASE kind = "vrf"
    <2>1. Has(args, "ipRouting") /\ Has(args, "ipv6Routing")
        BY <1>8, ExplicitByKind
    <2>2. NoLongerNamed(args, config)
        BY <1>1, <1>8 DEF OnItsOwn, NoLongerNamed, WellTyped
    <2>3. "name" \in DOMAIN args
        <3>1. Required(kind) = {"name"}
            BY <1>8, RequiredByKind DEF AllKinds, OneObjectKinds, MergeKinds, Identity
        <3> QED
            BY <1>1, <3>1
    <2> QED
        BY <1>1, <1>8, <2>1, <2>2, <2>3, VrfRoundTrip
<1>9. CASE kind = "bfd"
    BY <1>1, <1>9, BfdRoundTrip
<1>10. CASE kind = "rpki"
    <2>1. Has(args, "transport")
        BY <1>10, ExplicitByKind
    <2> QED
        BY <1>1, <1>10, <2>1, RpkiRoundTrip
<1>11. CASE kind = "routerBgp"
    <2>1. \A vrf \in Items(args, "vrfs") : ~Has(vrf, "routerId")
        BY <1>11, ExplicitByKind
    <2> QED
        BY <1>1, <1>11, <2>1, BgpRoundTrip
<1> QED
    BY <1>2, <1>3, <1>4, <1>5, <1>6, <1>7, <1>8, <1>9, <1>10, <1>11 DEF MergeKinds

\* explicit inputs of the named lists
LEMMA ListsComeBack ==
    ASSUME kind \in ListKinds, NEW args, Explicit(args), OnItsOwn(args), Valid(kind, args),
           AsGiven(kind, args, config)
    PROVE  ReadBack(kind, args, config) = args
<1>1. CASE kind = "prefixList"
    <2>1. Ordered(args.entries)
        BY <1>1, ExplicitByKind
    <2>2. PrefixListValid(args)
        BY <1>1 DEF Valid, RawKinds
    <2> QED
        BY <1>1, <2>1, <2>2, PrefixListRoundTrip
<1>2. CASE kind \in {"communityList", "extCommunityList"}
    <2>1. Has(args, IF kind = "communityList" THEN "type" ELSE "listType")
        BY <1>2, ExplicitByKind
    <2> QED
        BY <1>2, <2>1, CommunityListRoundTrip
<1>3. CASE kind = "asPathList"
    <2>1. \A e \in Entries(args) : e.origin # "any"
        BY <1>3, ExplicitByKind
    <2> QED
        BY <1>3, <2>1, AsPathRoundTrip
<1>4. CASE kind = "routeMap"
    <2>1. Ordered(args.entries) /\ \A e \in Entries(args) : AllRendered(e)
        BY <1>4, ExplicitByKind
    <2>2. RouteMapValid(args) /\ Following(config, args.name) = <<>>
        BY <1>4 DEF Valid, RawKinds, OnItsOwn
    <2> QED
        BY <1>4, <2>1, <2>2, RouteMapRoundTrip
<1> QED
    BY <1>1, <1>2, <1>3, <1>4 DEF ListKinds

\* explicit inputs of the other kinds of one object
LEMMA RebuiltComeBack ==
    ASSUME kind \in RebuildKinds, NEW args, Explicit(args), Valid(kind, args),
           AsGiven(kind, args, config)
    PROVE  ReadBack(kind, args, config) = args
<1>1. CASE kind = "evpnEthernetSegment"
    <2>1. Has(args, "designatedForwarder") => ElectionRendered(args.designatedForwarder)
        BY <1>1, ExplicitByKind
    <2>2. EvpnEthernetSegmentValid(args)
        BY <1>1 DEF Valid, RawKinds
    <2> QED
        BY <1>1, <2>1, <2>2, EvpnRoundTrip
<1>2. CASE kind = "rcf"
    <2>1. ~Has(args, "sourceUrl")
        BY <1>2, ExplicitByKind
    <2>2. RcfValid(args)
        BY <1>2 DEF Valid, RawKinds
    <2> QED
        BY <1>2, <2>1, <2>2, RcfRoundTrip
<1>3. CASE kind = "resilientEcmp"
    <2>1. Has(args, "ipFamily")
        BY <1>3, ExplicitByKind
    <2>2. ResilientEcmpValid(args)
        BY <1>3 DEF Valid, RawKinds
    <2> QED
        BY <1>3, <2>1, <2>2, EcmpRoundTrip
<1>4. CASE kind = "routerOspf"
    BY <1>4, OspfRoundTrip
<1> QED
    BY <1>1, <1>2, <1>3, <1>4 DEF RebuildKinds

\* Explicit inputs of a resource that is applied come back as they were given.
LEMMA ExplicitComeBack ==
    ASSUME LifeInv, recorded # Nothing, NEW args, args = recorded.inputs,
           Explicit(args), OnItsOwn(args),
           kind \in MergeKinds => InSync(kind, args, config),
           kind \notin MergeKinds \cup RawKinds => AppliedHolds(kind, args, config)
    PROVE  ReadBack(kind, args, config) = args
<1>1. kind \in AllKinds /\ Required(kind) \subseteq DOMAIN args /\ Decoded(kind, args)
    BY RecordedInputs DEF LifeInv, LifeTypeOK
<1>2. CASE kind \in RawKinds
    BY <1>2, ReadByKind
<1>3. CASE kind \in MergeKinds
    BY <1>3, MergedComeBack
<1>4. CASE kind \in {"vlan", "vlanRange"}
    <2>1. IsAFunction(args)
        BY <1>1 DEF Decoded
    <2>2. kind \notin MergeKinds \cup RawKinds
        BY <1>4 DEF MergeKinds, RawKinds
    <2>3. Valid(kind, args) /\ LinesApplied(kind, args, config)
        BY <1>4, <2>2 DEF AppliedHolds
    <2>4. CASE kind = "vlan"
        <3>1. Has(args, "name")
            BY <2>4, ExplicitByKind
        <3> QED
            BY <2>1, <2>3, <2>4, <3>1, VlanRoundTrip
    <2>5. CASE kind = "vlanRange"
        <3>1. Has(args, "name") /\ args["name"] \notin LooksAuto
            BY <2>5, ExplicitByKind
        <3>2. RangeValid(args)
            BY <2>3, <2>5 DEF Valid, RawKinds
        <3> QED
            BY <2>1, <2>3, <2>5, <3>1, <3>2, RangeRoundTrip
    <2> QED
        BY <1>4, <2>4, <2>5
<1>5. CASE kind \in {"varp", "mlag", "staticRoute", "policyBasedRouting"} \cup ListKinds \cup RebuildKinds
    <2>1. kind \notin MergeKinds \cup RawKinds /\ kind \notin {"vlan", "vlanRange"}
        BY <1>5 DEF MergeKinds, RawKinds, ListKinds, RebuildKinds
    <2>2. Valid(kind, args) /\ InSync(kind, args, config)
        BY <2>1 DEF AppliedHolds
    <2>3. AsGiven(kind, args, config)
        BY <2>2, RecordedGiven
    <2>4. CASE kind = "varp"
        <3>1. Canonical(args.mac) = args["mac"]
            BY <2>4, ExplicitByKind
        <3>2. Required(kind) = {"mac"}
            BY <2>4 DEF Required, ListKinds, OneObjectKinds, MergeKinds, RebuildKinds, RawKinds
        <3> QED
            BY <1>1, <2>3, <2>4, <3>1, <3>2, VarpRoundTrip
    <2>5. CASE kind = "mlag"
        <3>1. Has(args, "recoveryMlag") = Has(args, "recoveryNonMlag")
            BY <2>5, ExplicitByKind
        <3>2. MlagValid(args)
            BY <2>2, <2>5 DEF Valid, RawKinds
        <3> QED
            BY <2>3, <2>5, <3>1, <3>2, MlagRoundTrip
    <2>6. CASE kind = "staticRoute"
        <3>1. RouteValid(args)
            BY <2>2, <2>6 DEF Valid, RawKinds
        <3>2. NoNearer(args, config)
            BY <2>6 DEF OnItsOwn, NoNearer
        <3> QED
            BY <2>3, <2>6, <3>1, <3>2, RouteRoundTrip
    <2>7. CASE kind = "policyBasedRouting"
        <3>1. PbrRendered(args.sequences)
            BY <2>7, ExplicitByKind
        <3>2. PbrValid(args)
            BY <2>2, <2>7 DEF Valid, RawKinds
        <3>3. /\ InOrderOf(args.sequences, "seq")
              /\ \A i \in DOMAIN args.sequences :
                    PbrActionLine(args.sequences[i].action) = args.sequences[i]["action"]
            BY <1>1, <2>7, <3>1, <3>2, PolicyInOrder
        <3> QED
            BY <2>3, <2>7, <3>3, PolicyRoundTrip
    <2>8. CASE kind \in ListKinds
        BY <2>2, <2>3, <2>8, ListsComeBack
    <2>9. CASE kind \in RebuildKinds
        BY <2>2, <2>3, <2>9, RebuiltComeBack
    <2> QED
        BY <1>5, <2>4, <2>5, <2>6, <2>7, <2>8, <2>9
<1> QED
    BY <1>1, <1>2, <1>3, <1>4, <1>5 DEF AllKinds, OneObjectKinds

\* What Read panics on is never read back of explicit inputs.
LEMMA ComesBackWithoutPanic ==
    ASSUME NEW args, NEW c, DOMAIN args # {},
           ReadBack("evpnEthernetSegment", args, c) = args,
           Has(args, "designatedForwarder") => ElectionRendered(args.designatedForwarder)
    PROVE  ~ReadPanics("evpnEthernetSegment", args, c)
<1> DEFINE k == "evpnEthernetSegment"
           object == Object(k, args)
           line == AlgorithmOnDevice(c, object)
           hold == Shown(c, object, {"holdTime"})
           election == Overlay(line, hold)
           shown == Shown(c, object, {"identifier", "redundancy", "routeTargetImport"})
           elected == IF election = Nothing THEN Nothing ELSE [designatedForwarder |-> election]
<1> SUFFICES ASSUME ReadPanics(k, args, c)
             PROVE  FALSE
    OBVIOUS
<1>1. "algorithm" \in DOMAIN line /\ line["algorithm"] = "preference" /\ "preference" \notin DOMAIN line
    <2>1. Or(line, "algorithm", "") = "preference" /\ ~Has(line, "preference")
        BY DEF ReadPanics, EvpnEthernetSegmentPanics
    <2> HIDE DEF line
    <2> QED
        BY <2>1 DEF Or, Has
<1>2. args = Overlay(Base(k, args), Overlay(shown, elected))
    <2>1. OneRead(k, args, c) = args
        BY ReadByKind DEF OneObjectKinds, RebuildKinds
    <2>2. args # Nothing
        BY NothingDomain
    <2>3. Found(k, args, c) = Overlay(shown, elected)
        BY DEF Found, EvpnEthernetSegmentFound
    <2> QED
        BY <2>1, <2>2, <2>3 DEF OneRead
<1>3. DOMAIN hold \subseteq {"holdTime"}
    BY ShownDomain
<1> HIDE DEF line, hold, shown
<1>4. /\ "algorithm" \in DOMAIN election /\ election["algorithm"] = "preference"
      /\ "preference" \notin DOMAIN election
    BY <1>1, <1>3, OverlayFrom, OverlayValues
<1>5. election # Nothing
    BY <1>4, NothingDomain
<1> HIDE DEF election
<1>6. "designatedForwarder" \in DOMAIN elected /\ elected["designatedForwarder"] = election
    BY <1>5
<1> HIDE DEF elected
<1>7. "designatedForwarder" \in DOMAIN args /\ args["designatedForwarder"] = election
    <2> DEFINE found == Overlay(shown, elected)
    <2>1. "designatedForwarder" \in DOMAIN found /\ found["designatedForwarder"] = election
        BY <1>6, OverlayValues
    <2> HIDE DEF found
    <2> DEFINE all == Overlay(Base(k, args), found)
    <2>2. "designatedForwarder" \in DOMAIN all /\ all["designatedForwarder"] = election
        BY <2>1, OverlayValues
    <2>3. args = all
        BY <1>2 DEF found
    <2> HIDE DEF all
    <2> QED
        BY <2>2, <2>3
<1>8. ElectionRendered(election)
    BY <1>7 DEF Has
<1> QED
    BY <1>4, <1>8 DEF ElectionRendered, Has

-----------------------------------------------------------------------------
(***************************************************************************)
(* The inductive invariant: for the kinds whose block does not merge, the  *)
(* recorded inputs were applied as they are, or are what a refresh read    *)
(* and an up adopted, which Read returns again; and the recorded state is  *)
(* the inputs or what Read makes of them.                                  *)
(***************************************************************************)
RecordedIsApplied ==
    recorded # Nothing /\ synced /\ kind \notin MergeKinds \cup RawKinds =>
        /\ \/ AppliedHolds(kind, recorded.inputs, config)
           \/ ReadBack(kind, recorded.inputs, config) = recorded.inputs
        /\ \/ recorded.state = recorded.inputs
           \/ recorded.state = ReadBack(kind, recorded.inputs, config)

\* the block of a VLAN or of a range leaves its lines
LEMMA NamedApplied ==
    ASSUME NEW k \in {"vlan", "vlanRange"}, NEW args, NEW c
    PROVE  LinesApplied(k, args, Exec(c, Block(k, args)))
<1> DEFINE b == Block(k, args)
           objects == IF k = "vlan" THEN VlanObjects(args) ELSE RangeObjects(args)
<1>1. b.set = Named(args, objects)
    <2>1. b = Sets(Named(args, objects))
        BY ByKind DEF VlanBlock, RangeBlock
    <2> QED
        BY <2>1 DEF Sets
<1>2. \A p \in DOMAIN Named(args, objects) : p[2] \in {"header", "name"}
    BY DEF Named
<1> HIDE DEF b, objects
<1>3. \A p \in DOMAIN b.set : ~IsDefault(p[2], b.set[p])
    <2> SUFFICES ASSUME NEW p \in DOMAIN b.set
                 PROVE  ~IsDefault(p[2], b.set[p])
        OBVIOUS
    <2>1. p[2] \in {"header", "name"}
        BY <1>1, <1>2
    <2> QED
        BY <2>1 DEF IsDefault, Default
<1>4. \A p \in DOMAIN b.set : p \in DOMAIN Exec(c, b) /\ Exec(c, b)[p] = b.set[p]
    BY <1>3, ExecDomain, ExecValues
<1> QED
    BY <1>4 DEF LinesApplied, b

LEMMA ApplyStepApplied ==
    ASSUME LifeTypeOK, Create \/ Update, kind \notin MergeKinds \cup RawKinds
    PROVE  AppliedHolds(kind, program, config')
<1>1. Valid(kind, program) /\ config' = Exec(config, Block(kind, program))
    BY DEF Create, Update, Applied
<1>2. CASE kind \in {"vlan", "vlanRange"}
    BY <1>1, <1>2, NamedApplied DEF AppliedHolds
<1>3. CASE kind \notin {"vlan", "vlanRange"}
    <2>1. kind \in AllKinds
        BY LifecycleAssumption DEF LifeTypeOK
    <2>2. kind \in Rebuilt
        BY <1>3, <2>1 DEF AllKinds, OneObjectKinds, Rebuilt
    <2>3. InSync(kind, program, config')
        BY <2>2, AppliedSyncs
    <2> QED
        BY <1>1, <1>3, <2>3 DEF AppliedHolds
<1> QED
    BY <1>2, <1>3

LEMMA RecordedIsAppliedInit == LifeInit => RecordedIsApplied
BY DEF LifeInit, RecordedIsApplied

LEMMA RecordedIsAppliedNext ==
    ASSUME LifeInv, RecordedIsApplied, [LifeNext]_lifeVars
    PROVE  RecordedIsApplied'
<1> USE DEF RecordedIsApplied
<1>1. CASE Create \/ Update
    <2>1. recorded' = Record(program) /\ kind' = kind
        BY <1>1 DEF Create, Update, Applied
    <2>2. recorded'.inputs = program /\ recorded'.state = program
        BY <2>1 DEF Record
    <2>3. kind \notin MergeKinds \cup RawKinds => AppliedHolds(kind, program, config')
        BY <1>1, ApplyStepApplied DEF LifeInv
    <2> QED
        BY <2>1, <2>2, <2>3
<1>2. CASE Same
    <2>1. /\ recorded # Nothing /\ program = recorded.state /\ recorded.inputs # program
          /\ recorded' = Record(program)
          /\ UNCHANGED <<kind, config, synced>>
        BY <1>2 DEF Same
    <2>2. recorded'.inputs = program /\ recorded'.state = program
        BY <2>1 DEF Record
    <2>3. synced /\ kind \notin MergeKinds \cup RawKinds => ReadBack(kind, program, config) = program
        <3> HAVE synced /\ kind \notin MergeKinds \cup RawKinds
        <3>1. program = ReadBack(kind, recorded.inputs, config)
            BY <2>1
        <3>2. kind \in AllKinds /\ Required(kind) \subseteq DOMAIN recorded.inputs
            BY <2>1, RecordedInputs
        <3>3. program # Nothing
            BY <1>2 DEF Same
        <3> QED
            BY <3>1, <3>2, <3>3, ReadTwice
    <2> QED
        BY <2>1, <2>2, <2>3
<1>3. CASE Refresh
    <2> DEFINE state == ReadBack(kind, recorded.inputs, config)
    <2>1. /\ recorded # Nothing
          /\ recorded' = IF state = Nothing THEN Nothing
                         ELSE [inputs |-> InputsRead(kind, recorded.inputs, config), state |-> state]
          /\ UNCHANGED <<kind, config, synced>>
        BY <1>3 DEF Refresh
    <2>2. kind \notin MergeKinds => InputsRead(kind, recorded.inputs, config) = recorded.inputs
        BY DEF InputsRead, MergeKinds
    <2> HIDE DEF state
    <2>3. recorded' # Nothing /\ kind \notin MergeKinds =>
            recorded'.inputs = recorded.inputs /\ recorded'.state = state
        BY <2>1, <2>2
    <2> QED
        BY <2>1, <2>3 DEF state
<1>4. CASE RefreshProbesFail
    BY <1>4 DEF RefreshProbesFail, MergeKinds
<1>5. CASE Delete
    BY <1>5 DEF Delete, Applied
<1>6. CASE CreateFails \/ UpdateFails \/ DeleteFails
    BY <1>6 DEF CreateFails, UpdateFails, DeleteFails, ApplyFails
<1>7. ASSUME NEW args \in Inputs(kind) \cup {Nothing}, Edit(args)
      PROVE  RecordedIsApplied'
    BY <1>7 DEF Edit
<1>8. ASSUME NEW block, LateCommit(block)
      PROVE  RecordedIsApplied'
    BY <1>8 DEF LateCommit
<1>9. ASSUME NEW block \in Drifts(kind), Drift(block)
      PROVE  RecordedIsApplied'
    BY <1>9 DEF Drift
<1>10. CASE UNCHANGED lifeVars
    BY <1>10 DEF lifeVars
<1> QED
    BY <1>1, <1>2, <1>3, <1>4, <1>5, <1>6, <1>7, <1>8, <1>9, <1>10 DEF LifeNext

\* As long as nobody else changes the device, a refresh of a resource with
\* explicit inputs reads back what was applied, so the next `pulumi up` has
\* nothing to do (docs/01-architecture.md:63: "Same `Args` -> no diff"); for
\* whatever inputs of all kinds, after any history of failed applies, late
\* commits, refreshes that adopt, and changes by others.
THEOREM ExplicitArgsAlwaysNoDiff == LifeSpec => []ExplicitArgsNoDiff
<1>1. LifeInit => RecordedIsApplied
    BY RecordedIsAppliedInit
<1>2. LifeInv /\ RecordedIsApplied /\ [LifeNext]_lifeVars => RecordedIsApplied'
    BY RecordedIsAppliedNext
<1>3. LifeInv /\ RecordedIsApplied => ExplicitArgsNoDiff
    <2> SUFFICES ASSUME LifeInv, RecordedIsApplied, recorded # Nothing, synced,
                        Explicit(recorded.inputs), OnItsOwn(recorded.inputs),
                        kind \in MergeKinds => InSync(kind, recorded.inputs, config)
                 PROVE  /\ ReadBack(kind, recorded.inputs, config) = recorded.inputs
                        /\ ~ReadPanics(kind, recorded.inputs, config)
        BY DEF ExplicitArgsNoDiff, RefreshShowsNoDiff
    <2>1. ReadBack(kind, recorded.inputs, config) = recorded.inputs
        <3>1. CASE kind \notin MergeKinds \cup RawKinds /\ ~AppliedHolds(kind, recorded.inputs, config)
            BY <3>1 DEF RecordedIsApplied
        <3>2. CASE ~(kind \notin MergeKinds \cup RawKinds /\ ~AppliedHolds(kind, recorded.inputs, config))
            BY <3>2, ExplicitComeBack
        <3> QED
            BY <3>1, <3>2
    <2>2. CASE kind # "evpnEthernetSegment"
        BY <2>1, <2>2 DEF ReadPanics
    <2>3. CASE kind = "evpnEthernetSegment"
        <3> DEFINE args == recorded.inputs
        <3>1. Has(args, "designatedForwarder") => ElectionRendered(args.designatedForwarder)
            BY <2>3, ExplicitByKind
        <3>2. DOMAIN args # {}
            <4>1. Required(kind) = {"parentInterface"}
                BY <2>3, RequiredByKind DEF AllKinds, OneObjectKinds, RebuildKinds, Identity
            <4>2. Required(kind) \subseteq DOMAIN args
                BY RecordedInputs
            <4> QED
                BY <4>1, <4>2
        <3> HIDE DEF args
        <3>3. ReadBack("evpnEthernetSegment", args, config) = args
            BY <2>1, <2>3 DEF args
        <3>4. ~ReadPanics("evpnEthernetSegment", args, config)
            BY <3>1, <3>2, <3>3, ComesBackWithoutPanic
        <3> QED
            BY <2>1, <2>3, <3>4 DEF args
    <2> QED
        BY <2>2, <2>3
<1> QED
    BY <1>1, <1>2, <1>3, LifeInvHolds, PTL DEF LifeSpec
=============================================================================
