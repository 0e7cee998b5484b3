--------------------------- MODULE MCDeployState ---------------------------
(* Instances of DeployState for TLC.                                       *)
EXTENDS DeployState, TLC

CONSTANTS a, b, c

TwoIds == {a, b}
ThreeIds == {a, b, c}

\* Every graph whose entries do not depend on themselves: with cycles and dangling dependencies too.
AllProjects ==
  {map \in [Ids -> {NoEntry} \cup {EntryWith(deps) : deps \in SUBSET Ids}] :
     \A i \in Ids : i \notin map[i].deps}

\* The graphs a plan accepts, and one that is dangling.
MostlyGoodProjects ==
  {map \in AllProjects : Loadable(map) /\ Acyclic(map)}
    \cup {[EmptyMap EXCEPT ![i] = EntryWith({j})] : i, j \in Ids}

\* One entry x that the others rely on, directly or through y: the shape in which cleanups and rollouts meet.
Layered(x, onX, y, onY) ==
  [i \in Ids |-> CASE i = x -> EntryWith({}) [] i \in onX -> EntryWith({x})
                   [] i \in onY -> EntryWith({y}) [] OTHER -> NoEntry]
Chains(x, y, z) == {Layered(x, {y}, y, {z}), Layered(x, {y}, y, {})}
LayeredProjects(x, y, z) == Chains(x, y, z) \cup {Layered(x, {y, z}, y, {})}

\* Every graph of the entries but one.
Without(x) == {map \in AllProjects : ~map[x].in /\ \A i \in Ids : x \notin map[i].deps}

\* The families by name; a name holds the entries that its graphs tell apart, so that a permutation of the entries turns
\* one name into another.
Roles == {p \in [1..3 -> Ids] : {p[1], p[2], p[3]} = Ids}
Families ==
  [name \in ({"all", "mostly good"} \X {<<>>}) \cup ({"without"} \X {<<x>> : x \in Ids})
              \cup ({"layered", "chain or none"} \X Roles) |->
     CASE name[1] = "all" -> AllProjects
       [] name[1] = "mostly good" -> MostlyGoodProjects
       [] name[1] = "without" -> Without(name[2][1])
       [] name[1] = "layered" -> LayeredProjects(name[2][1], name[2][2], name[2][3])
       [] name[1] = "chain or none" -> Chains(name[2][1], name[2][2], name[2][3]) \cup {EmptyMap}]

\* Handlers as they mostly are: no post actions of deletions, no post action registered before a throw.
Setup(family, kinds, halfway) ==
  [projects |-> family, posts |-> kinds, deletions |-> {}, throws |-> FALSE, halfway |-> halfway, unhandled |-> {}]

\* Handlers that register a post action and then throw, or throw half way: those of changes, and those of deletions.
HardshipSetups ==
  {[projects |-> <<"without", <<x>>>>, posts |-> {"require"} \ kinds, deletions |-> kinds, throws |-> TRUE,
    halfway |-> TRUE, unhandled |-> {}] : x \in Ids, kinds \in {{}, {"require"}}}

\* Graphs without post actions, layered projects with them, chains with handlers that throw half way, and the hardships.
\* (The three entries play every role, which keeps the set closed under their permutations.)
EngineSetups ==
  {Setup(<<"mostly good", <<>>>>, {}, FALSE)}
    \cup {Setup(<<"layered", p>>, {"require"}, FALSE) : p \in Roles}
    \cup {Setup(<<"chain or none", p>>, {}, TRUE) : p \in Roles}
    \cup HardshipSetups

\* The hardships that the engine sees, and an entry whose provider is gone.
AdverseSetups ==
  {[projects |-> <<"all", <<>>>>, posts |-> {"require"}, deletions |-> {"plain"}, throws |-> TRUE, halfway |-> FALSE,
    unhandled |-> {b}]}

\* Nothing but an entry whose provider is gone.
UnhandledSetups == {[Setup(<<"all", <<>>>>, {}, FALSE) EXCEPT !.unhandled = {b}]}

IdSymmetry == Permutations(Ids)
=============================================================================
