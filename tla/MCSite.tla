------------------------------- MODULE MCSite --------------------------------
(***************************************************************************)
(* Version 2 sends "old" to "about" and no longer has its page, which stays  *)
(* on the server; it replaces the page below the second root, and it makes *)
(* of "about", a page with .html, a directory with an index beside a new   *)
(* .html.  One kind of request has no Host.                                *)
(***************************************************************************)
EXTENDS Site

MCVersions == {1, 2}
MCPages == {"about", "old", "topic"}
MCDirs == {"about"}
MCHosts == {[name |-> "komu", port |-> "none"], [name |-> "algo", port |-> "ok"],
            [name |-> "", port |-> "none"]}
MCPaths == {"/about", "/old"}
MCPageOf == [r \in {"website", "algo"} \X MCPaths |->
    CASE r[1] = "algo" -> "topic" [] r[2] = "/about" -> "about" [] OTHER -> "old"]
MCRedirects == [v \in MCVersions |->
    [p \in (IF v = 2 THEN {"/old"} ELSE {}) |-> "/about"]]
MCTree == [v \in MCVersions |->
    IF v = 1 THEN {<<"about", "html">>, <<"old", "plain">>, <<"topic", "plain">>}
    ELSE {<<"about", "plain">>, <<"about", "index">>, <<"about", "html">>,
          <<"topic", "plain">>}]
=============================================================================
