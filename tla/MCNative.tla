------------------------------ MODULE MCNative ------------------------------
EXTENDS NativeHost
CONSTANTS a4, b4, a6, any4, root, corp, lab, bad
MCV4 == {a4, b4, any4}
MCV6 == {a6}
MCUnspecified == {any4}
MCSpellings == {"CORP.", "corp", "lab", ".", "-"}
MCCanonical ==
    [s \in MCSpellings |-> CASE s = "." -> root [] s = "lab" -> lab [] s = "-" -> bad [] OTHER -> corp]
MCRequests ==
    {[scope |-> "interface", ns |-> <<a6, a4, a6>>, search |-> <<"corp", "CORP.">>,
      routing |-> <<>>, route |-> "unset"],
     [scope |-> "interface", ns |-> <<a4>>, search |-> <<".", "corp">>,
      routing |-> <<"corp", "lab">>, route |-> "yes"],
     [scope |-> "global", ns |-> <<b4, a6>>, search |-> <<".", "lab">>,
      routing |-> <<>>, route |-> "unset"],
     [scope |-> "interface", ns |-> <<b4, a6>>, search |-> <<>>,
      routing |-> <<"corp", ".", "lab">>, route |-> "yes"],
     [scope |-> "interface", ns |-> <<>>, search |-> <<>>,
      routing |-> <<"corp", ".", "lab">>, route |-> "yes"],
     [scope |-> "interface", ns |-> <<a4, any4>>, search |-> <<>>, routing |-> <<>>, route |-> "no"],
     [scope |-> "interface", ns |-> <<a4>>, search |-> <<"-">>, routing |-> <<>>, route |-> "no"]}
MCServers == {<<b4>>}
MCConfs == {[ns |-> <<b4>>, search |-> <<lab>>, options |-> "rotate"],
            [ns |-> <<>>, search |-> <<>>, options |-> "none"]}
MCNamespaces == <<root, corp, lab>>
=============================================================================
