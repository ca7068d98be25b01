----------------------------- MODULE MCPrograms -----------------------------
(* An image that inherits from one module; catalogues that shrink and grow  *)
(* over offers that are stored twice, or not any more; and trees of modules *)
(* with names that repeat or join to the same file.                         *)
EXTENDS Programs

MCBuildChain == <<"parent", "image">>
MCSshJobs == BuildJobs \cup StartJobs

Stored(id, key, connector) == [id |-> id, key |-> key, price |-> "old", connector |-> connector]
MCStoredOffers ==
  {{},
   {Stored(1, "small", "ours"), Stored(2, "large", "others")},
   {Stored(1, "small", "ours"), Stored(2, "small", "ours"), Stored(3, "huge", "ours")}}
MCCatalogues == {<<>>, <<"small">>, <<"small", "large">>}

P == <<"p">>
Q == <<"q">>
R == <<"r">>
MCRoot == <<P>>
Tree(projects, images, deployments) ==
  [path \in projects \cup images \cup deployments |->
     CASE path \in projects -> "project" [] path \in images -> "image" [] OTHER -> "deployment"]
MCTrees ==
  {Tree({<<P>>, <<P, Q>>}, {<<P, R>>, <<P, Q, Q>>}, {<<P, Q, R>>}),
   Tree({<<P>>, <<P, Q>>, <<P, P>>}, {<<P, Q, R>>}, {<<P, <<"q", "r">> >>})}
=============================================================================
