----------------------------- MODULE MCFuseOpt -----------------------------
(* The options and command lines for TLC. *)
EXTENDS FuseOpt, TLC

\* "d" (helper, lib and ll), "m," (mount), "l" and "\l" (lib), "r" (mount and ll),
\* "s" (the subtype: helper and mount); "x" belongs to nobody.
MCOwners ==
    <<100>> :> {1, 3, 4} @@ <<109, 44>> :> {2} @@ <<108>> :> {3} @@ <<92, 108>> :> {3}
    @@ <<114>> :> {2, 4} @@ <<115>> :> {1, 2}
MCOptions == DOMAIN MCOwners
MCSubtype == <<115>>
\* d; m\,; \\l,m\054; r,s; x.
MCTexts == {<<100>>, <<109, 92, 44>>, <<92, 92, 108, 44, 109, 92, 48, 53, 52>>, <<114, 44, 115>>, <<120>>}
MCArgs == {Sep, DashO} \cup [k : {"opt"}, v : {<<100>>, <<92, 108>>}] \cup [k : {"word", "oj"}, v : MCTexts]
\* The argument after an -o is its text, whatever it looks like: a word, then.
MCLines == {l \in SeqOf(MCArgs, 3) : \A i \in DOMAIN l : l[i] = DashO => i = Len(l) \/ l[i + 1].k = "word"}
=============================================================================
