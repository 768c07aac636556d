---------------------------- MODULE SpecGrammar ----------------------------
(***************************************************************************)
(* The grammar of specification files, libfakedbfs/dbspec.y: its rules,    *)
(* each with the name of the code attached to it, and the parser tables    *)
(* lemon makes.  "first" is the code that hands on the value of the first  *)
(* symbol, "none" no code at all.                                          *)
(***************************************************************************)
EXTENDS Lempar

Rule(lhs, rhs, does) == [lhs |-> lhs, rhs |-> rhs, does |-> does]
DataTypes == <<"STRINGDT", "NUMBERDT", "IMAGEDT", "BINARYDT", "REALDT">>
SpecRules ==
    <<Rule("specdef", <<"blocks">>, "none"),
      Rule("blocks", <<"blocks", "block", "SCOLON">>, "none"),
      Rule("blocks", <<>>, "none"),
      Rule("block", <<"enumblock">>, "none"),
      Rule("block", <<"catalogueblock">>, "none"),
      Rule("catalogueblock", <<"CATALOGUE_TYPE", "catname", "aliasdef", "OBRACE", "catelems", "CBRACE">>,
           "catalogueblock"),
      Rule("catname", <<"uqstring">>, "catname"),
      Rule("headdoer", <<>>, "headdoer"),
      Rule("typename", <<"uqstring">>, "typename"),
      Rule("clearallsub", <<>>, "clearallsub"),
      Rule("arguments", <<"ALLSUB", "clearallsub", "OPAR", "allsubelements", "CPAR">>, "none"),
      Rule("arguments", <<"NOSUB", "OPAR", "CPAR">>, "none"),
      Rule("arguments", <<>>, "none"),
      Rule("enumelements", <<"enumelements", "COMMA", "enumelement">>, "none"),
      Rule("enumelements", <<"enumelement">>, "none"),
      Rule("enumelement", <<"string">>, "bare element"),
      Rule("allocer", <<>>, "allocer"),
      Rule("enumelement", <<"string", "allocer", "OBRACE", "subelements", "CBRACE">>, "element"),
      Rule("enumelement", <<"string", "AS", "datatype">>, "other element"),
      Rule("allsubelements", <<"allsubelements", "COMMA", "allsubelement">>, "none"),
      Rule("allsubelements", <<"allsubelement">>, "none"),
      Rule("allsubelement", <<"subelem">>, "allsubelement"),
      Rule("subelements", <<"subelements", "COMMA", "subelement">>, "none"),
      Rule("subelements", <<"subelement">>, "none"),
      Rule("subelement", <<"subelem">>, "subelement"),
      Rule("subelem", <<"sedirective">>, "first"),
      Rule("subelem", <<"STRING">>, "name"),
      Rule("sedirective", <<"LTHAN", "sedir", "GTHAN">>, "second"),
      Rule("sedir", <<"SELF">>, "self"),
      Rule("sedir", <<"SAMEAS", "uqstring">>, "sameas")>>
    \o [i \in DOMAIN DataTypes |-> Rule("datatype", <<DataTypes[i]>>, "none")]
    \o <<Rule("string", <<"STRING">>, "first"),
         Rule("uqstring", <<"UQSTRING">>, "first"),
         Rule("catelems", <<"catelems", "COMMA", "catelem">>, "none"),
         Rule("catelems", <<"catelem">>, "none"),
         Rule("catelem", <<"uqstring", "aliasdef", "AS", "catdatatype">>, "catelem"),
         Rule("catdatatype", <<"datatype">>, "plain"),
         Rule("catdatatype", <<"EN", "uqstring">>, "enum"),
         Rule("catdatatype", <<"EN", "uqstring", "DOTSUB">>, "sub"),
         Rule("aliasdef", <<"EQUALS", "aliasbd">>, "second"),
         Rule("aliasdef", <<"EQUALS", "string">>, "alias"),
         Rule("aliasdef", <<>>, "no alias"),
         Rule("aliasbd", <<"LTHAN", "abd", "GTHAN">>, "second"),
         Rule("abd", <<"FC">>, "fc"),
         Rule("enumblock", <<"ENUM", "typename", "arguments", "headdoer", "OBRACE", "enumelements", "CBRACE">>,
              "enumblock")>>

(* The stages of lemon, each a constant of its own. *)
WithFirsts == WithFirst(Numbered(<<>>, SpecRules))
Reached == WithBases(WithFirsts)
Automaton == WithStates(Reached)
Followed == WithFollow(Automaton)
Acting == WithDefaults(WithActions(Followed))
Sets == WithSets(Acting)
Placed == WithPlaces(Sets)
Tables == Packed(Placed)
=============================================================================
