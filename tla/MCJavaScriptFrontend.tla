------------------------ MODULE MCJavaScriptFrontend ------------------------
(* Model-checking instance: two files in two packages, links to one of     *)
(* them and to a TypeScript file, a file outside the project that an       *)
(* import could mean, and limits all of them can meet.                     *)
EXTENDS JavaScriptFrontend

MCPath      == {"app.js", "sub/child.js", "link.js", "types.js", "types.ts", "/out.js"}
MCDirectory == {"root", "sub", "/"}
MCTarget    == [p \in MCPath |-> CASE p = "link.js" -> "sub/child.js"
                                   [] p = "types.js" -> "types.ts"
                                   [] OTHER -> p]
MCPosition  == [p \in MCPath |-> CASE p = "app.js" -> 1 [] p = "link.js" -> 2 [] p = "sub/child.js" -> 3
                                   [] p = "types.js" -> 4 [] p = "types.ts" -> 5 [] p = "/out.js" -> 6]
MCInside    == MCPath \ {"/out.js"}
MCParent    == [p \in MCPath |-> CASE p = "sub/child.js" -> "sub" [] p = "/out.js" -> "/" [] OTHER -> "root"]
MCUpwards   == [d \in MCDirectory |-> CASE d = "root" -> <<"root">> [] d = "sub" -> <<"sub", "root">>
                                        [] d = "/" -> <<>>]
MCRequests  == SUBSET {"app.js", "link.js", "sub/child.js", "types.js"}
MCParseable == MCPath \ {"types.ts"}
MCModulePaths == [p \in MCPath |-> [m \in {"./child"} |-> <<"/out.js", "sub/child.js">>]]

Stmt(op, module, bindings) == [op |-> op, module |-> module, bindings |-> bindings]
Source(size, parses, statements) ==
  [size |-> size, parses |-> parses, legible |-> TRUE, statements |-> statements]
Plain   == Source(1, TRUE, <<>>)
Latin   == [Plain EXCEPT !.legible = FALSE]
Large   == Source(3, TRUE, <<>>)
Garbled == Source(2, FALSE, <<>>)
Importing == Source(1, TRUE, <<Stmt("import", "./child", {<<"default", "child">>})>>)
Shadowing == Source(2, TRUE, <<Stmt("import", "./child", {<<"default", "child">>}),
                               Stmt("export", "./child", {<<"a", "b">>}),
                               Stmt("import", "koa", {<<"*", "child">>})>>)
MCContents == {Plain, Latin, Large, Garbled, Importing, Shadowing}
MCCheckouts == {[p \in MCPath |-> CASE p = "app.js" -> a [] p = "sub/child.js" -> c [] p = "/out.js" -> Plain
                                   [] OTHER -> Absent]
                  : a \in OnDisk \ {Large}, c \in {Plain, Large, Absent}}
=============================================================================
