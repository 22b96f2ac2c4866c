--------------------------- MODULE MCExpressScan ---------------------------
(* Model-checking instances of ExpressScan: an application file with a     *)
(* local router, and a file that exports a router.                         *)
EXTENDS ExpressScan

Router(name)                 == [op |-> "router", name |-> name]
Use(recv, mw)                == [op |-> "use", recv |-> recv, mw |-> mw, optional |-> FALSE]
Optional(stmt)               == [stmt EXCEPT !.optional = TRUE]
Get(recv, path, handlers)    == [op |-> "route", recv |-> recv, path |-> path, public |-> FALSE,
                                 calls |-> <<[method |-> "get", handlers |-> handlers]>>]
GetPost(recv, path, hs1, hs2) ==
  [op |-> "route", recv |-> recv, path |-> path, public |-> FALSE,
   calls |-> <<[method |-> "get", handlers |-> hs1], [method |-> "post", handlers |-> hs2]>>]
DeclaredPublic(stmt)             == [stmt EXCEPT !.public = TRUE]
Mount(recv, prefix, child)   == [op |-> "mount", recv |-> recv, prefix |-> prefix, mws |-> <<>>,
                                 file |-> None, child |-> child]
MountFile(recv, prefix, mws, file) ==
  [op |-> "mount", recv |-> recv, prefix |-> prefix, mws |-> mws, file |-> file, child |-> None]

MCFile   == {"main", "child"}
MCExport == [main |-> "app", child |-> "router"]
MCHeader == [main |-> <<Router("app"), Router("sub")>>, child |-> <<Router("router")>>]
MCPaths  == {<<"x">>, <<"a", "x">>, <<"b", "x">>, <<"c", "y">>}

\* What the adapter documents as supported.
SupportedMain ==
  {Use("app", "jwt"), Use("sub", "jwt"), Use("app", "authlike"),
   Get("app", <<"x">>, <<"plain">>), Get("app", <<"x">>, <<"custom", "plain">>),
   Get("app", Computed, <<"plain">>),
   DeclaredPublic(Get("sub", <<"x">>, <<"plain">>)), Get("sub", <<"x">>, <<"plain", "jwt">>),
   Mount("app", <<"a">>, "sub"), Mount("app", <<"b">>, "sub"),
   MountFile("app", <<"c">>, <<"jwt">>, "child"), MountFile("app", <<"c">>, <<>>, "child")}
SupportedChild ==
  {Use("router", "jwt"), Get("router", <<"y">>, <<"plain">>),
   GetPost("router", <<"y">>, <<"plain">>, <<"authlike", "plain">>)}
Supported    == [main |-> SupportedMain, child |-> SupportedChild]
SupportedMax == [main |-> 3, child |-> 1]

\* One imported router mounted behind a guard and again without it.
MountedTwice    == [main  |-> {MountFile("app", <<"c">>, <<"jwt">>, "child"),
                               MountFile("app", <<"b">>, <<>>, "child")},
                    child |-> {Get("router", <<"y">>, <<"plain">>)}]
MountedTwiceMax == [main |-> 2, child |-> 1]
TwicePaths      == {<<"b", "y">>, <<"c", "y">>}

\* A guard that is only registered under a condition.
Conditional    == [main  |-> {Optional(Use("app", "jwt")), Use("app", "plain"),
                              Get("app", <<"x">>, <<"plain">>)}, child |-> {}]
MainOnlyMax    == [main |-> 3, child |-> 0]

\* A public declaration above a chain of methods.
PublicChain == [main |-> {DeclaredPublic(GetPost("app", <<"x">>, <<"plain">>, <<"plain">>)),
                          DeclaredPublic(Get("app", <<"x">>, <<"plain">>)), Use("app", "jwt")},
                child |-> {}]

\* A name declared again, and again.
Redeclared    == [main |-> {Use("sub", "jwt"), Router("sub"), Get("sub", <<"x">>, <<"plain">>),
                            Mount("app", <<"a">>, "sub")}, child |-> {}]
RedeclaredMax == [main |-> 5, child |-> 0]

\* What the theorem about AdapterGraphIsValid asks of the statements: all but the
\* chains under a public declaration meet it.
ASSUME MCOneCallPerMethod == (Statements # PublicChain) = OneCallPerMethod
=============================================================================
