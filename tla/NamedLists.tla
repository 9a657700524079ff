----------------------------- MODULE NamedLists -----------------------------
(***************************************************************************)
(* The named filter lists: eos:l3:PrefixList, CommunityList,               *)
(* ExtCommunityList and AsPathAccessList (internal/resources/l3).  Each is *)
(* an ordered list of permit and deny entries; its block negates the whole *)
(* list and renders it anew.                                               *)
(***************************************************************************)
EXTENDS Integers, Sequences, SequencesExt, FiniteSets, EosConfig

CONSTANTS
    SeqMax,         \* 65535
    MaskMax,        \* 32
    HalfMax,        \* 65535, either half of a community aa:nn
    NumberMax,      \* 4294967040, a community written as one number
    LongerNames(_)  \* the names that begin with a name and are longer, in order:
                    \* `section <kind> <name>` shows what has these names, too

ASSUME ListAssumption == {SeqMax, MaskMax, HalfMax, NumberMax} \subseteq Nat

Actions == {"permit", "deny"}

\* one object per list of a kind, by name
ListObject(kind, args) == <<kind, args.name>>

Entries(args) == {args.entries[i] : i \in DOMAIN args.entries}

UniqueSeqs(args) ==
    \A i, j \in DOMAIN args.entries :
        args.entries[i].seq = args.entries[j].seq => i = j

\* the entries in order of seq; EOS keeps one line per seq, the last one
BySeq(args) ==
    LET last == {i \in DOMAIN args.entries : \A j \in DOMAIN args.entries :
                    args.entries[i].seq = args.entries[j].seq => j <= i}
        shown == {args.entries[i] : i \in last}
    IN  InOrder(shown, [e \in shown |-> e.seq])

-----------------------------------------------------------------------------
(***************************************************************************)
(* PrefixList.  An entry has its seq, action, the length of its prefix,    *)
(* and a mask: those of eq, ge and le that are given.                      *)
(***************************************************************************)
PrefixEntryValid(e) ==
    /\ e.seq \in 0 .. SeqMax
    /\ e.action \in Actions
    /\ Has(e.mask, "eq") => DOMAIN e.mask = {"eq"}
    /\ \A m \in DOMAIN e.mask : e.mask[m] \in 1 .. MaskMax
    /\ Has(e.mask, "ge") => /\ Has(e.mask, "le") => e.mask.ge <= e.mask.le
                            /\ e.mask.ge >= e.bits

PrefixListValid(args) ==
    /\ args.entries # <<>>
    /\ \A e \in Entries(args) : PrefixEntryValid(e)
    /\ UniqueSeqs(args)

PrefixListLines(args) ==
    [k \in {"remark", "entries"} \cap DOMAIN args |->
        IF k = "entries" THEN BySeq(args) ELSE args.remark]

\* the entries come back in order of seq; what is not there is left as it was
PrefixListFound(args, config) ==
    Shown(config, ListObject("prefixList", args), {"remark", "entries"})

-----------------------------------------------------------------------------
(***************************************************************************)
(* CommunityList.  A value of a standard list is a <<"word", w>> that EOS  *)
(* knows, a <<"pair", aa, nn>> or a <<"number", n>>; a regular expression  *)
(* is a <<"regex", r>> and matches none of these forms.                    *)
(***************************************************************************)
WellKnown == {"internet", "local-as", "no-advertise", "no-export", "GSHUT"}

ListTypes == {"standard", "regexp"}

StandardCommunity(value) ==
    \/ value[1] = "word" /\ value[2] \in WellKnown
    \/ value[1] = "pair" /\ value[2] \in 0 .. HalfMax /\ value[3] \in 0 .. HalfMax
    \/ value[1] = "number" /\ value[2] \in 0 .. NumberMax

CommunityListType(args) == Or(args, "type", "standard")

CommunityListValid(args) ==
    /\ CommunityListType(args) \in ListTypes
    /\ args.entries # <<>>
    /\ \A e \in Entries(args) :
        /\ e.action \in Actions
        /\ CommunityListType(args) = "standard" => StandardCommunity(e.value)

CommunityListLines(args) ==
    [type |-> CommunityListType(args), entries |-> args.entries]

\* the type is always put into the state, given or not
CommunityListFound(args, config) ==
    Shown(config, ListObject("communityList", args), {"type", "entries"})

-----------------------------------------------------------------------------
(***************************************************************************)
(* ExtCommunityList.  An entry of a standard list has a type, rt or soo,   *)
(* and a value aa:nn or A.B.C.D:nn (a "pair"); one of a regexp list has    *)
(* its type within the expression and must not have one of its own.        *)
(***************************************************************************)
ExtCommunityListType(args) == Or(args, "listType", "standard")

ExtCommunityListValid(args) ==
    /\ ExtCommunityListType(args) \in ListTypes
    /\ args.entries # <<>>
    /\ \A e \in Entries(args) :
        /\ e.action \in Actions
        /\ ExtCommunityListType(args) = "standard" =>
            Has(e, "type") /\ e.type \in {"rt", "soo"} /\ e.value[1] = "pair"
        /\ ExtCommunityListType(args) = "regexp" => ~Has(e, "type")

ExtCommunityListLines(args) ==
    [listType |-> ExtCommunityListType(args), entries |-> args.entries]

ExtCommunityListFound(args, config) ==
    Shown(config, ListObject("extCommunityList", args), {"listType", "entries"})

-----------------------------------------------------------------------------
(***************************************************************************)
(* AsPathAccessList.  The expression a user writes may end in the AS-path  *)
(* origin of the entry (any, igp, ...); EOS takes any when it does not,    *)
(* shows it always, and the parser strips any from what is shown.          *)
(***************************************************************************)
AsPathListValid(args) ==
    /\ args.entries # <<>>
    /\ \A e \in Entries(args) : e.action \in Actions

AsPathListLines(args) ==
    [entries |-> [i \in DOMAIN args.entries |->
        [args.entries[i] EXCEPT !.origin = IF @ = "" THEN "any" ELSE @]]]

AsPathListFound(args, config) ==
    LET shown == Shown(config, ListObject("asPathList", args), {"entries"})
    IN  [k \in DOMAIN shown |-> [i \in DOMAIN shown[k] |->
            [shown[k][i] EXCEPT !.origin = IF @ = "any" THEN "" ELSE @]]]
=============================================================================
