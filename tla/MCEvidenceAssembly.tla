------------------------- MODULE MCEvidenceAssembly -------------------------
(* Model-checking instance: the facts and relations that make the          *)
(* validator's rules bite.                                                 *)
EXTENDS EvidenceAssembly

Fact(i, kind, subj, derived) ==
  [id |-> i, kind |-> kind, subject |-> subj, path |-> None, derived |-> derived]
Relation(i, kind, source, target) ==
  [id |-> i, kind |-> kind, source |-> source, target |-> target, derived |-> {}]

MCFactOptions ==
  {Fact("auth", "auth_enforcement", "mw", {}),
   Fact("auth", "auth_enforcement", "mw", {"weak"}),
   Fact("weak", "weak_indicator", "mw", {}),
   Fact("amb", "auth_ambiguity", "mw", {}),
   Fact("pub", "public_declaration", "r1", {})}

MCRelationOptions ==
  {Relation("local", "references", "r1", "mw"),
   Relation("global", "contains", "sApp", "mw"),
   Relation("backwards", "references", "mw", "r1"),
   Relation("up", "composes", "s1", "sApp"),
   Relation("other", "references", "r2", "mw")}

MCScopeIds == {"s1", "sApp"}
=============================================================================
