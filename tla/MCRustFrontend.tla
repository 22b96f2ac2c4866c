--------------------------- MODULE MCRustFrontend ---------------------------
(* Model-checking instance: a crate at the root and a member of its        *)
(* workspace, a module with two files, links into the member and to a text *)
(* file, and manifests that share, inherit, lack or break what they need.  *)
EXTENDS RustFrontend, TLC

MCPath      == {"lib.rs", "api.rs", "api/mod.rs", "member/main.rs", "link.rs", "notes.txt"}
MCDirectory == {"root", "member"}
MCTarget    == [p \in MCPath |-> IF p = "link.rs" THEN "member/main.rs" ELSE p]
MCPosition  == ("api.rs" :> 1 @@ "api/mod.rs" :> 2 @@ "lib.rs" :> 3 @@ "link.rs" :> 4 @@ "member/main.rs" :> 5
                  @@ "notes.txt" :> 6)
MCInside    == MCPath
MCParent    == [p \in MCPath |-> IF p = "member/main.rs" THEN "member" ELSE "root"]
MCUpwards   == ("root" :> <<"root">>) @@ ("member" :> <<"member", "root">>)
MCParseable == MCPath \ {"notes.txt"}
MCModulePaths == [p \in MCPath |-> [m \in {"api"} |-> <<"api.rs", "api/mod.rs">>]]
MCRequests  == {{"lib.rs", "member/main.rs"}, {"lib.rs", "link.rs", "member/main.rs"}, {"notes.txt", "link.rs"}}

UseOf(names)    == [op |-> "use", names |-> names]
Mod(form)       == [op |-> "mod", form |-> form, module |-> "api"]
Code(size, parses, statements) ==
  [size |-> size, parses |-> parses, legible |-> TRUE, statements |-> statements]
Plain   == Code(1, TRUE, <<>>)
Latin   == [Plain EXCEPT !.legible = FALSE]
Large   == Code(3, TRUE, <<>>)
Garbled == Code(1, FALSE, <<>>)
Routing == Code(1, TRUE, <<UseOf({"crate", "tower_http"}), Mod("file"), UseOf({"web"})>>)
Opaque  == Code(2, TRUE, <<[op |-> "macro"], Mod("inline"), Mod("custom"), [op |-> "cfg"]>>)
MCContents  == {Plain, Latin, Large, Garbled, Routing, Opaque}
MCCheckouts == {[p \in MCPath |-> CASE p = "lib.rs" -> a [] p = "member/main.rs" -> b [] p = "notes.txt" -> Plain
                                   [] p = "api.rs" -> c [] OTHER -> Absent]
                  : a \in {Routing, Opaque, Large, Plain}, b \in {Routing, Latin, Garbled, Unreadable}, c \in {Plain, Absent}}

Dependency(alias, kind, inherited, package) ==
  [alias |-> alias, kind |-> kind, inherited |-> inherited, package |-> package]
Manifest(package, workspace, shared, dependencies) ==
  [package |-> package, workspace |-> workspace, shared |-> shared, dependencies |-> dependencies]
Tower     == Dependency("tower-http", "dependencies", FALSE, "tower-http")
Inherited == Dependency("web", "dev-dependencies", TRUE, "web")
MCCargo ==
  [m \in {"workspace", "member", "both"} |->
     CASE m = "workspace" -> Manifest(FALSE, TRUE, {<<"web", "axum">>}, {})
       [] m = "member"    -> Manifest(TRUE, FALSE, {}, {Tower, Inherited})
       [] m = "both"      -> Manifest(TRUE, TRUE, {<<"web", "actix-web">>}, {Tower, Inherited})]
MCIdentifier == ("tower-http" :> "tower_http") @@ ("web" :> "web")
=============================================================================
