----------------------------- MODULE MCOwnership -----------------------------
(* Model-checking instance: three adapters, two declarations, one of them  *)
(* under five spellings, claims of every state and role, and the claims    *)
(* that are refused.                                                       *)
EXTENDS Ownership

App == <<"src", "app">>
Lib == <<"lib">>
Claim(subject, adapter, state, role, evidence) ==
  [subject |-> subject, group |-> <<"js">>, adapter |-> adapter, state |-> state, role |-> role,
   evidence |-> evidence, known |-> {1, 2}]

MCOptions ==
  {Claim(s, "express", "active", "owner", {1})
     : s \in {App, Lib, <<"src", "", "app">>, <<"src", ".", "app", "">>}}
    \cup {Claim(App, "express", "active", "owner", {2}),
          Claim(App, "express", "ambiguous", "owner", {1}),
          Claim(App, "koa", "active", "owner", {1}), Claim(Lib, "koa", "ambiguous", "owner", {1}),
          Claim(<<".", "src", "app">>, "koa", "inactive", "owner", {}),
          Claim(<<"src", "", "", "app", "">>, "koa", "ambiguous", "owner", {2}),
          Claim(App, "bun", "active", "metadata", {}), Claim(App, "bun", "ambiguous", "owner", {2}),
          Claim(<<".", "">>, "koa", "active", "owner", {3}),
          Claim(Lib, "bun", "active", "observer", {1}),
          Claim(<<"", "">>, "koa", "inactive", "metadata", {})}

\* What the theorem about SelectionIsEarned asks of the claims.
ASSUME MCSpellings == ClaimsAreWellSpelled
=============================================================================
