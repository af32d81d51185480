------------------------------- MODULE MCGit --------------------------------
(* Small instances of RepoRegistry: one or two owners and one repository    *)
(* name, a history with a fork and pushes that create, move, force, delete. *)
EXTENDS RepoRegistry, TLC

CONSTANTS x, y, n, main, dev, c1, c2, c3, p1, p2, a1, a2

TwoOwners == {x, y}
OneName == {n}
BothRepos == TwoOwners \X OneName
TwoBranches == {main, dev}

\* c2 and c3 are two successors of c1.
Commits == {c1, c2, c3}
History == (c1 :> {c1}) @@ (c2 :> {c1, c2}) @@ (c3 :> {c1, c3})

Refs(m, d) == (main :> m) @@ (dev :> d)
Wants ==
  {[named |-> {main}, new |-> Refs(c3, NoCommit)],
   [named |-> {dev}, new |-> Refs(NoCommit, c2)],
   [named |-> {main, dev}, new |-> Refs(NoCommit, c3)]}

\* No repository yet, or x's after two pushes: main was c1 and is c2.
Made(parent, m, ps) == [parent |-> parent, head |-> main, refs |-> Refs(m, NoCommit), packs |-> ps]
Nothing == [manifests |-> <<>>, pointer |-> [r \in BothRepos |-> 0]]
Pushed ==
  [manifests |-> <<Made(0, NoCommit, {}), Made(1, c1, {{c1}}), Made(2, c2, {{c1}, {c2}})>>,
   pointer |-> (<<x, n>> :> 3) @@ (<<y, n>> :> 0)]
Origins == {Nothing, Pushed}

TwoPushes == {p1, p2}
TwoToX == [p \in TwoPushes |-> <<x, n>>]

TwoAnnouncements == {a1, a2}
Rivals == (a1 :> x) @@ (a2 :> y)
SameOwner == (a1 :> x) @@ (a2 :> x)
OneAnnouncement == {a1}
ByX == (a1 :> x)
ItsName == (a1 :> n)
Interchangeable == Permutations(Push)
SameName == [a \in TwoAnnouncements |-> n]
=============================================================================
