---------------------------- MODULE MCSpecText ----------------------------
EXTENDS SpecMeaning

N(x) == <<"name", x>>
Self == <<"self", "">>
Same(x) == <<"sameas", x>>
Elem(name, subs) == [name |-> name, subs |-> subs]
Firsts1 == {Bare, Other, <<N("x"), N("y")>>}
Seconds == {Bare, <<N("z")>>, <<Self, N("z")>>, <<Same("a")>>, <<N("z"), Same("a")>>,
            <<Same("a"), N("z")>>, <<Same("nobody")>>, <<N("z"), Same("a"), Self>>}
Thirds == {<<>>, <<Elem("c", <<N("w")>>)>>, <<Elem("c", <<N("w"), Same("b")>>)>>}
Args == {NoArgs, NoSub, <<N("all"), Self>>, <<Same("a")>>}
Enum(name, args, elems) == [is |-> "enum", name |-> name, args |-> args, elems |-> elems]
Enums(name) ==
    {Enum(name, args, <<Elem("a", first), Elem("b", second)>> \o third) :
        args \in Args, first \in Firsts1, second \in Seconds, third \in Thirds}
Cat(name, elems) == [is |-> "cat", name |-> name, alias |-> "none", elems |-> elems]
CatElem(name, alias, type, of) == [name |-> name, alias |-> alias, type |-> type, of |-> of]
Small(name, args) == Enum(name, args, <<Elem("a", <<N("x")>>), Elem("b", Other)>>)
Whole == Cat("m", <<CatElem("p", "fc", "oenum", "t"), CatElem("q", "none", "oenumsub", "p"),
                    CatElem("r", "Alias", "plain", "")>>)
MCSpecs == {<<e>> : e \in Enums("t")}
    \cup {<<Small("t", args), Small("u", args2), Whole>> : args \in Args, args2 \in Args}
    \cup {<<Small("t", NoArgs), Small("t", args)>> : args \in Args}
    \cup {<<Small("known", args)>> : args \in Args}
    \cup {<<Cat("known", <<CatElem("p", "none", "plain", "")>>)>>,
          <<Cat("m", <<CatElem("p", "none", "oenum", "t")>>)>>,
          <<Cat("m", <<CatElem("p", "none", "plain", ""), CatElem("q", "none", "oenumsub", "p")>>)>>}
\* The file itself, with a lexeme missing, and with a comment put in.
Without(seq, i) == SubSeq(seq, 1, i - 1) \o SubSeq(seq, i + 1, Len(seq))
Put(seq, i, kind) ==
    SubSeq(seq, 1, i) \o <<Lexeme("/*"), [kind |-> kind, value |-> "comment"], Lexeme("*/")>>
    \o SubSeq(seq, i + 1, Len(seq))
Damaged == {<<Small("t", <<N("all"), Self>>), Small("u", NoArgs), Whole>>}
           \cup {<<e>> : e \in {d \in Enums("t") : d.args = <<N("all"), Self>> /\ HasSubs(d.elems[1])}}
MCVersions(s) ==
    LET file == Printed(s) IN
    {file} \cup (IF s \notin Damaged THEN {}
               ELSE {Without(file, i) : i \in DOMAIN file}
                    \cup {Put(file, i, kind) : i \in DOMAIN file, kind \in {"UQSTRING", "EN"}})
=============================================================================
