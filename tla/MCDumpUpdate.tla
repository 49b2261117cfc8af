---------------------------- MODULE MCDumpUpdate -----------------------------
(* Of the whole history, up to three pages and two revisions: pages and      *)
(* revisions are added, changed, deleted, kept, and moved between pages one   *)
(* of which is deleted; contents change where there are at most two pages.    *)
(* Of the other dumps, up to two pages, in the namespaces of articles, of     *)
(* talk and of users.                                                         *)
EXTENDS DumpUpdate

CONSTANTS text, other, any, t, u, article, talk, user

MCNamespaceOf == [title \in {t, u, article, talk, user} |->
                    CASE title = talk -> 1 [] title = user -> 2 [] OTHER -> 0]

History(pages, contents) ==
    [articles |-> FALSE, current |-> FALSE,
     pages |-> pages, titles |-> {t, u}, contents |-> contents]
Articles(latest, titles) ==
    [articles |-> TRUE, current |-> latest,
     pages |-> {1, 2}, titles |-> titles, contents |-> {text, other}]

MCScopes ==
    {History({1, 2, 3}, {any}), History({1, 2}, {text, other}),
     [History({1, 2}, {text, other}) EXCEPT !.current = TRUE],
     Articles(FALSE, {article, talk, user}), Articles(TRUE, {article, user})}

\* The smallest wiki in which a revision can move.
SmallScopes == {[History({1, 2}, {any}) EXCEPT !.titles = {t}]}
SmallNamespaceOf == [title \in {t} |-> 0]

Symmetry == Permutations({t, u}) \cup Permutations({text, other})
==============================================================================
