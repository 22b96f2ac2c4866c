---------------------------- MODULE MCEvidenceRun ----------------------------
(* Model-checking instances: an application that mounts the router of      *)
(* another file, a package of its own for that file, links to files the    *)
(* collection leaves out, two of them to one file, a test, and TypeScript. *)
EXTENDS EvidenceRun, TLC

MCFile   == {"app.js", "sub/child.js", "dist/app.js", "dist/lib.js"}
MCExport == [f \in MCFile |-> IF f = "app.js" THEN "app" ELSE "router"]

Info(suffix, stem, folders, directory) ==
  [suffix |-> suffix, stem |-> stem, folders |-> folders, directory |-> directory]
Known == ("app.js"         :> Info(".js", "app", {}, "root"))
      @@ ("sub/child.js"   :> Info(".js", "child", {"sub"}, "sub"))
      @@ ("left.js"        :> Info(".js", "left", {}, "root"))
      @@ ("right.js"       :> Info(".js", "right", {}, "root"))
      @@ ("routes.ts"      :> Info(".ts", "routes", {}, "root"))
      @@ ("dist/app.js"    :> Info(".js", "app", {"dist"}, "root"))
      @@ ("build.js"       :> Info(".js", "build", {}, "root"))
      @@ ("dist/lib.js"    :> Info(".js", "lib", {"dist"}, "root"))
      @@ ("spec.js"        :> Info(".js", "spec", {}, "root"))
Alphabetical == <<"app.js", "build.js", "dist/app.js", "dist/lib.js", "left.js", "right.js", "routes.ts",
                  "spec.js", "sub/child.js">>


FewPaths   == {"app.js", "sub/child.js"}
LinkPaths  == FewPaths \cup {"dist/app.js", "build.js", "left.js", "right.js", "dist/lib.js", "routes.ts", "spec.js"}

MCDirectory == {"root", "sub"}
MCTarget    == [p \in Path |-> CASE p = "build.js" -> "dist/app.js"
                                  [] p \in {"left.js", "right.js"} -> "dist/lib.js"
                                  [] OTHER -> p]
MCPosition  == [p \in Path |-> CHOOSE i \in DOMAIN Alphabetical : Alphabetical[i] = p]
MCParent    == [p \in Path |-> Known[p].directory]
MCUpwards   == ("root" :> <<"root">>) @@ ("sub" :> <<"sub", "root">>)
MCSuffix    == [p \in Path |-> Known[p].suffix]
MCStem      == [p \in Path |-> Known[p].stem]
MCFolders   == [p \in Path |-> Known[p].folders]
MCParseable == {p \in Path : Known[p].suffix \in {".js", ".mjs", ".cjs"}}
MCModulePaths == [p \in Path |-> [m \in {"./child"} |-> <<"sub/child.js">>]]

Router(name) == [op |-> "router", name |-> name]
Use(mw)      == [op |-> "use", recv |-> "app", mw |-> mw, optional |-> FALSE]
Get(recv, handlers) == [op |-> "route", recv |-> recv, path |-> <<"x">>, public |-> FALSE,
                        calls |-> <<[method |-> "get", handlers |-> handlers]>>]
MountModule(inline) == [op |-> "mount", recv |-> "app", prefix |-> <<"c">>, mws |-> <<>>, file |-> "sub/child.js",
                        child |-> None, module |-> "./child", inline |-> inline]
ImportOf(module, local) == [op |-> "import", module |-> module, bindings |-> {<<"default", local>>}]
Source(size, parses, statements, binds, loose, program) ==
  [size |-> size, parses |-> parses, statements |-> statements, binds |-> binds, loose |-> loose,
   program |-> program, legible |-> TRUE, decodes |-> TRUE]

Express == ImportOf("express", "express")
App      == Source(1, TRUE, <<Express, ImportOf("./child", "child")>>, TRUE, FALSE,
                   <<Router("app"), Use("jwt"), Get("app", <<"plain">>), MountModule(FALSE)>>)
Inline   == Source(1, TRUE, <<Express>>, TRUE, FALSE,
                   <<Router("app"), Get("app", <<"jwt", "plain">>), MountModule(TRUE)>>)
Rebound  == Source(1, TRUE, <<Express, ImportOf("koa", "express")>>, TRUE, FALSE,
                   <<Router("app"), Get("app", <<"jwt", "plain">>)>>)
Child    == Source(1, TRUE, <<Express>>, TRUE, FALSE, <<Router("router"), Get("router", <<"jwt", "plain">>)>>)
Helper   == Source(2, TRUE, <<>>, FALSE, FALSE, <<>>)
Loose    == Source(1, TRUE, <<>>, FALSE, TRUE, <<>>)
Garbled  == Source(1, FALSE, <<>>, FALSE, FALSE, <<>>)
\* With a comment that is not UTF-8, and with an expression nested too deeply.
Latin(source) == [source EXCEPT !.decodes = FALSE]
Deep(source)  == [source EXCEPT !.legible = FALSE]

Troubled   == {Latin(Child), Latin(Loose), Deep(Child)}
MCContents == {App, Inline, Rebound, Child, Helper, Loose, Garbled} \cup Troubled
Disk(app, child, built, lib) ==
  [p \in Path |-> CASE p = "app.js" -> app [] p = "sub/child.js" -> child [] p = "dist/app.js" -> built
                    [] p = "dist/lib.js" -> lib [] p \in {"spec.js", "routes.ts"} -> Child
                    [] OTHER -> Absent]
MCCheckouts == {Disk(app, child, built, lib) : app \in {App, Inline, Rebound, Helper},
                  child \in {Child, Helper, Loose, Garbled, Absent}, built \in {Child, Absent},
                  lib \in {Child, Helper, Absent}}
            \cup {Disk(App, child, Absent, Absent) : child \in Troubled}
FewContents == {App, Child, Helper, Garbled}
TwoFiles    == {Disk(App, Child, Absent, Absent)}

Requirement(c) == [id |-> c, adapter |-> ExpressId, capability |-> c, minimum |-> "verified"]
Strict == [id |-> "assurance", requirements |-> {Requirement(c) : c \in Capability},
           failOnUnguarded |-> TRUE, failOnUnresolved |-> TRUE, failOnIncompleteCoverage |-> TRUE]
Default == [Strict EXCEPT !.failOnUnresolved = FALSE]
MCPolicies == {Default, None}
=============================================================================
