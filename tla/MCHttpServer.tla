----------------------------- MODULE MCHttpServer -----------------------------
\* A directory with an index.html, one without, whose name has a '.', and one
\* whose name can be decoded; a file; two of the names are also asked for encoded.
EXTENDS HttpServer

MCName    == {"index.html", "docs", "v1.0", "d%6Fcs", "e%2566", "e%66", "ef"}
MCDotted  == {"index.html", "v1.0"}
MCDecoded == [n \in MCName |-> CASE n = "d%6Fcs" -> "docs" [] n = "e%2566" -> "e%66"
                                 [] n = "e%66" -> "ef" [] OTHER -> n]
MCKind    == [n \in MCName |-> CASE n = "index.html" -> "file"
                                 [] n \in {"docs", "v1.0", "e%66"} -> "dir" [] OTHER -> "none"]
MCIndexed == {"docs"}

Get(n, s, q) == [method |-> "GET", path |-> [name |-> n, slash |-> s, query |-> q]]
MCRequest ==
  { Get("root", TRUE, "plain"), Get("d%6Fcs", TRUE, "dotted"), Get("docs", TRUE, "plain"),
    Get("v1.0", TRUE, "plain"), Get("e%2566", FALSE, "none"),
    [method |-> "POST", path |-> [name |-> "docs", slash |-> TRUE, query |-> "none"]] }
=============================================================================
