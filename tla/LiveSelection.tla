---------------------------- MODULE LiveSelection ----------------------------
(***************************************************************************)
(* Which paths a live source selects (adapters/gittarget): the inventory of  *)
(* a tree or an index, the changes between two, and the ignore rules of a    *)
(* workspace without Git.  A path is a sequence of names; "A" and "a" are    *)
(* the same name but for capitals, "decomposed" is not in canonical form,    *)
(* ".git" stands for the directories that are never sources and "private"    *)
(* for a protected root inside the project.                                  *)
(***************************************************************************)
EXTENDS Naturals, Sequences, FiniteSets

Fold(path) == [i \in DOMAIN path |-> IF path[i] = "A" THEN "a" ELSE path[i]]
Prefixes(path) == {SubSeq(path, 1, n) : n \in 1..Len(path)}

livePath(path) == path # <<>> /\ \A i \in DOMAIN path : path[i] # "decomposed"
liveExcluded(path) == \E i \in DOMAIN path : path[i] = ".git"
protectedPath(path) == \E prefix \in Prefixes(path) : Fold(prefix) = <<"private">>
excluded(path) == liveExcluded(path) \/ protectedPath(path)

Error == [ok |-> FALSE, paths |-> {}]

(* liveSortedPaths(): no two paths differ by capitals only.                    *)
liveSortedPaths(paths) ==
  IF \A p \in paths : livePath(p) /\ \A q \in paths : Fold(p) = Fold(q) => p = q
  THEN [ok |-> TRUE, paths |-> paths] ELSE Error

(* liveObjectEntries(): rows are [path, mode, stage].  An unmerged row refuses *)
(* the whole index, wherever it is; submodules and excluded paths are left     *)
(* out; a link or a path that comes twice refuses all.                         *)
liveObjectEntries(rows, index) ==
  LET kept == {i \in DOMAIN rows : ~excluded(rows[i].path) /\ rows[i].mode # "submodule"}
  IN IF \/ index /\ \E i \in DOMAIN rows : rows[i].stage # 0
        \/ \E i \in kept : rows[i].mode # "file"
        \/ \E i, j \in kept : i # j /\ rows[i].path = rows[j].path
     THEN Error ELSE liveSortedPaths({rows[i].path : i \in kept})

-----------------------------------------------------------------------------
(* changedPaths(): rows are [status, first, second] of a Git diff.             *)
Nowhere == <<>>
Change(kind, before, after) == [kind |-> kind, before |-> before, after |-> after]
ChangeOf(row) ==
  CASE row.status = "A" -> Change("added", Nowhere, row.first)
    [] row.status = "D" -> Change("deleted", row.first, Nowhere)
    [] row.status = "M" -> Change("modified", row.first, row.first)
    [] row.status = "R" -> Change("renamed", row.first, row.second)

Hidden(path) == path = Nowhere \/ excluded(path)

Admitted(change) ==
  CASE change.kind # "renamed" -> change
    [] change.kind = "renamed" /\ Hidden(change.before) -> Change("added", Nowhere, change.after)
    [] change.kind = "renamed" /\ ~Hidden(change.before) /\ Hidden(change.after) -> Change("deleted", change.before, Nowhere)
    [] OTHER -> change

changedPaths(rows) ==
  IF \E i \in DOMAIN rows : \/ rows[i].status \notin {"A", "D", "M", "R"}
                            \/ ~livePath(rows[i].first)
                            \/ rows[i].status = "R" /\ ~livePath(rows[i].second)
  THEN [ok |-> FALSE, changes |-> {}]
  ELSE [ok |-> TRUE,
        changes |-> {Admitted(ChangeOf(rows[i])) : i \in {j \in DOMAIN rows : ~(Hidden(ChangeOf(rows[j]).before) /\ Hidden(ChangeOf(rows[j]).after))}}]

-----------------------------------------------------------------------------
(* workspaceIgnored(): a rule is [base, components, anchored, directory,        *)
(* negate]; a component is a name, "*" or "**".  matched[i][n] says that the     *)
(* first i components match the first n parts.                                *)
MatchString(component, part) == component \in {"*", part}

Matched(components, parts) ==
  LET matched[i \in 0..Len(components)] ==
        [n \in 0..Len(parts) |->
          IF i = 0 THEN n = 0
          ELSE IF components[i] = "**"
               THEN LET contents == i = Len(components) /\ i > 1
                        run[k \in 0..Len(parts)] ==
                          IF k = 0 THEN ~contents /\ matched[i - 1][0]
                          ELSE \/ ~contents /\ matched[i - 1][k]
                               \/ run[k - 1]
                               \/ contents /\ matched[i - 1][k - 1]
                    IN run[n]
               ELSE n > 0 /\ matched[i - 1][n - 1] /\ MatchString(components[i], parts[n])]
  IN matched[Len(components)][Len(parts)]

IsPrefix(base, path) == Len(base) < Len(path) /\ SubSeq(path, 1, Len(base)) = base
Applies(rule, path, directory) ==
  /\ rule.directory => directory
  /\ IsPrefix(rule.base, path)
  /\ LET relative == SubSeq(path, Len(rule.base) + 1, Len(path))
     IN Matched(rule.components, IF rule.anchored THEN relative ELSE <<relative[Len(relative)]>>)
workspaceIgnored(path, directory, rules) ==
  LET applying == {i \in DOMAIN rules : Applies(rules[i], path, directory)}
  IN applying # {} /\ ~rules[CHOOSE i \in applying : \A j \in applying : j <= i].negate

(* workspacePaths(): the walk of a tree, [kind, rules]: kind[p] is the kind of  *)
(* the entry at p, rules[d] the rules a directory brings for what is below it. *)
(* The answer of a directory is an error if that of one below it is.           *)
Entries(tree, d) == {p \in DOMAIN tree.kind : Len(p) = Len(d) + 1 /\ SubSeq(p, 1, Len(d)) = d}
Selectable(tree, d, rules) == {p \in Entries(tree, d) : ~excluded(p) /\ ~workspaceIgnored(p, tree.kind[p] = "directory", rules)}
Directories(tree) == {<<>>} \cup {p \in DOMAIN tree.kind : tree.kind[p] = "directory"}

workspacePaths(tree) ==
  LET longest == CHOOSE n \in 0..Cardinality(DOMAIN tree.kind) :
                   (\A d \in Directories(tree) : Len(d) <= n) /\ \E d \in Directories(tree) : Len(d) = n
      RulesFor[n \in 0..longest] ==
        [d \in {e \in Directories(tree) : Len(e) = n} |->
           (IF n = 0 THEN <<>> ELSE RulesFor[n - 1][SubSeq(d, 1, n - 1)]) \o tree.rules[d]]
      Found(d) == Selectable(tree, d, RulesFor[Len(d)][d])
      Reached[n \in 0..longest] ==
        IF n = 0 THEN {<<>>} ELSE UNION {{p \in Found(d) : tree.kind[p] = "directory"} : d \in Reached[n - 1]}
      all == UNION {UNION {Found(d) : d \in Reached[n]} : n \in 0..longest}
      files == {p \in all : tree.kind[p] # "directory"}
  IN IF \E p \in files : tree.kind[p] # "file" THEN Error ELSE liveSortedPaths(files)

-----------------------------------------------------------------------------
(* Git's rule for a pattern, stated without the table: the parts are cut into  *)
(* runs, one for each component, of one part for a name and of any number for  *)
(* "**", at least one when it ends a longer pattern.                           *)
Cuts(components, parts) ==
  {cut \in [0..Len(components) -> 0..Len(parts)] :
     /\ cut[0] = 0 /\ cut[Len(components)] = Len(parts)
     /\ \A i \in 1..Len(components) :
          IF components[i] = "**"
          THEN cut[i] >= cut[i - 1] + (IF i > 1 /\ i = Len(components) THEN 1 ELSE 0)
          ELSE cut[i] = cut[i - 1] + 1 /\ components[i] \in {"*", parts[cut[i]]}}

(* A pattern matches as Git says it does.                                     *)
MatchesAsGit(in) == Matched(in.components, in.parts) = (Cuts(in.components, in.parts) # {})

(* An inventory names every plain file outside the excluded places, nothing     *)
(* else, and no two names that a case-insensitive volume would take for one.   *)
InventoryIsExact(in) ==
  LET got == liveObjectEntries(in.rows, in.index)
      plain == {in.rows[i].path : i \in {j \in DOMAIN in.rows : in.rows[j].mode = "file" /\ ~excluded(in.rows[j].path)}}
  IN got.ok => /\ got.paths = plain
               /\ Cardinality({Fold(p) : p \in plain}) = Cardinality(plain)
               /\ (in.index => \A i \in DOMAIN in.rows : in.rows[i].stage = 0)

(* Every end of a change that is not hidden is named, no hidden one is, and a   *)
(* change that is told is one that NewLiveSourceTarget() accepts.              *)
ChangeValid(c) ==
  CASE c.kind = "added" -> c.before = Nowhere /\ c.after # Nowhere
    [] c.kind = "deleted" -> c.before # Nowhere /\ c.after = Nowhere
    [] c.kind = "modified" -> c.before # Nowhere /\ c.after = c.before
    [] c.kind = "renamed" -> c.before # Nowhere /\ c.after # Nowhere /\ c.before # c.after
ChangesAreExact(in) ==
  LET got == changedPaths(in.rows)
      ends(side) == {ChangeOf(in.rows[i])[side] : i \in DOMAIN in.rows}
  IN got.ok => /\ \A c \in got.changes : ChangeValid(c)
               /\ \A side \in {"before", "after"} :
                    {c[side] : c \in got.changes} \ {Nowhere} = {p \in ends(side) : ~Hidden(p)}

(* A file of a workspace is selected when no rule in force takes it or a        *)
(* directory above it, the last rule that applies being the one that counts.   *)
Above(tree, p) == {SubSeq(p, 1, n) : n \in 0..(Len(p) - 1)}
InForce(tree, p) == UNION {{<<Len(d), i>> : i \in DOMAIN tree.rules[d]} : d \in Above(tree, p)}
Takes(tree, p) ==
  LET rule(k) == tree.rules[SubSeq(p, 1, k[1])][k[2]]
      applying == {k \in InForce(tree, p) :
                     LET r == rule(k)
                         relative == SubSeq(p, k[1] + 1, Len(p))
                     IN /\ r.directory => tree.kind[p] = "directory"
                        /\ Cuts(r.components, IF r.anchored THEN relative ELSE <<p[Len(p)]>>) # {}}
  IN \E k \in applying : ~rule(k).negate /\ \A l \in applying : l[1] < k[1] \/ (l[1] = k[1] /\ l[2] <= k[2])
WalkIsExact(in) ==
  LET got == workspacePaths(in.tree)
      open == {p \in DOMAIN in.tree.kind : in.tree.kind[p] # "directory" /\ ~excluded(p) /\ \A q \in Prefixes(p) : ~Takes(in.tree, q)}
  IN /\ got.ok => got.paths = open /\ \A p \in open : in.tree.kind[p] = "file"
     /\ ~got.ok => (\E p \in open : in.tree.kind[p] # "file") \/ (\E p, q \in open : p # q /\ Fold(p) = Fold(q)) \/ \E p \in open : ~livePath(p)

-----------------------------------------------------------------------------
(* Inputs.                                                                    *)
Names == {"a", "d", "e"}
Patterns == UNION {[1..n -> {"**", "*", "a", "d"}] : n \in 1..3}
Matchings == [kind : {"matching"}, components : Patterns, parts : UNION {[1..n -> Names] : n \in 1..3}]

Paths == {<<"a">>, <<"A">>, <<"d", "a">>, <<"d", "decomposed">>, <<"d", ".git", "a">>, <<"private", "a">>}
Rows == [path : Paths, mode : {"file", "link", "submodule"}, stage : {0}] \cup [path : {<<"a">>, <<"private", "a">>}, mode : {"file"}, stage : {2}]
Inventories == [kind : {"inventory"}, index : BOOLEAN, rows : Rows \X Rows]
DiffRows == [status : {"A", "D", "M", "U"}, first : Paths, second : {Nowhere}] \cup {r \in [status : {"R"}, first : Paths, second : Paths] : r.first # r.second}
Differences == [kind : {"difference"}, rows : {<<r>> : r \in DiffRows} \cup {<<r, s>> : r \in DiffRows, s \in {[status |-> "M", first |-> <<"d", "a">>, second |-> Nowhere]}}]

Rule(base, components, anchored, directory, negate) == [base |-> base, components |-> components, anchored |-> anchored, directory |-> directory, negate |-> negate]
RootRules == {Rule(<<>>, c, a, d, n) : c \in {<<"a">>, <<"d">>, <<"*">>}, a \in BOOLEAN, d \in BOOLEAN, n \in BOOLEAN}
             \cup {Rule(<<>>, c, TRUE, FALSE, n) : c \in {<<"d", "**">>, <<"**", "a">>, <<"d", "a">>}, n \in BOOLEAN}
DeepRules == {Rule(<<"d">>, c, FALSE, FALSE, n) : c \in {<<"a">>, <<"e">>}, n \in BOOLEAN}
Places == {<<"a">>, <<"d">>, <<"d", "a">>, <<"d", "e">>, <<"d", "e", "a">>, <<"private">>, <<"private", "a">>}
Kinds == [p \in Places |-> IF p \in {<<"d">>, <<"d", "e">>, <<"private">>} THEN "directory" ELSE "file"]
Walks == [kind : {"walk"},
          tree : {[kind |-> [Kinds EXCEPT ![<<"d", "a">>] = k],
                   rules |-> [d \in {<<>>, <<"d">>, <<"d", "e">>, <<"private">>} |-> IF d = <<>> THEN root ELSE IF d = <<"d">> THEN deep ELSE <<>>]] :
                    k \in {"file", "link"}, root \in {<<>>} \cup {<<r>> : r \in RootRules} \cup {<<r, s>> : r \in RootRules, s \in {t \in RootRules : t.negate}},
                    deep \in {<<>>} \cup {<<r>> : r \in DeepRules}}]

Inputs == Matchings \cup Inventories \cup Differences \cup Walks
SelectionIsExact(in) ==
  CASE in.kind = "matching" -> MatchesAsGit(in)
    [] in.kind = "inventory" -> InventoryIsExact(in)
    [] in.kind = "difference" -> ChangesAreExact(in)
    [] in.kind = "walk" -> WalkIsExact(in)
=============================================================================
