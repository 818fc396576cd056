------------------------------- MODULE Lineage -------------------------------
(***************************************************************************)
(* validate_lineage of models/panel.py: a depth-first search that refuses  *)
(* patch cases whose derivations form a cycle.  One call, its recursion    *)
(* unrolled: path is the chain of dfs() frames, and a step is one turn of  *)
(* the innermost loop.  case_ids is a set and the order of parent_case_ids *)
(* is the caller's, so both loops take their elements in any order; starts *)
(* and todo are what each loop has still to look at.                       *)
(***************************************************************************)
EXTENDS Naturals, Sequences

CONSTANTS
    Case,               \* case_ids
    Foreign,            \* parents that are not among the cases
    FrameLimit,         \* how many dfs() frames the interpreter may have room for
    Nil

ASSUME LineageAssumption ==
    /\ Case \cap Foreign = {}
    /\ FrameLimit \subseteq Nat \ {0}
    /\ Nil \notin {0, 1} /\ Nil \notin {"accepted", "cycle"}

VARIABLES
    graph,              \* parent_case_ids of each case
    frames,             \* dfs() frames there is room for below the caller
    visited,            \* Nil, 0 (visiting) or 1 (visited)
    starts,             \* the rest of the loop over case_ids
    path,               \* the cases of the dfs() frames, outermost first
    todo,               \* the rest of the loop over the parents, by case
    result,             \* Nil while the call runs
    cycle               \* details["cycle"] of the error

lineageVars == <<graph, frames, visited, starts, path, todo, result, cycle>>

-----------------------------------------------------------------------------
Top == path[Len(path)]

\* The loop over case_ids comes to c.
AtCase(c) ==
    /\ result = Nil /\ path = <<>> /\ c \in starts
    /\ starts' = starts \ {c}
    /\ UNCHANGED <<graph, frames, result, cycle>>

SkipCase(c) ==
    /\ AtCase(c)
    /\ visited[c] # Nil
    /\ UNCHANGED <<visited, path, todo>>

\* dfs(c, [c])
StartSearch(c) ==
    /\ AtCase(c)
    /\ visited[c] = Nil
    /\ visited' = [visited EXCEPT ![c] = 0]
    /\ path' = <<c>>
    /\ todo' = [todo EXCEPT ![c] = graph[c]]

\* The loop of the innermost frame comes to parent c.
AtParent(c) == result = Nil /\ path # <<>> /\ c \in todo[Top]

\* Mutant: a parent met before is skipped, the ones being visited too.
SkipParentSeen(c) ==
    /\ AtParent(c)
    /\ c \in Case => visited[c] # Nil
    /\ todo' = [todo EXCEPT ![Top] = @ \ {c}]
    /\ UNCHANGED <<graph, frames, visited, starts, path, result, cycle>>

\* The parent is not among the cases, or it is visited.
SkipParent(c) ==
    /\ AtParent(c)
    /\ c \in Case => visited[c] = 1
    /\ todo' = [todo EXCEPT ![Top] = @ \ {c}]
    /\ UNCHANGED <<graph, frames, visited, starts, path, result, cycle>>

\* dfs(parent, path + [parent])
Descend(c) ==
    /\ AtParent(c) /\ c \in Case /\ visited[c] = Nil
    /\ Len(path) < frames
    /\ visited' = [visited EXCEPT ![c] = 0]
    /\ path' = Append(path, c)
    /\ todo' = [todo EXCEPT ![Top] = @ \ {c}, ![c] = graph[c]]
    /\ UNCHANGED <<graph, frames, starts, result, cycle>>

\* RecursionError leaves validate_lineage.
TooDeep(c) ==
    /\ AtParent(c) /\ c \in Case /\ visited[c] = Nil
    /\ Len(path) >= frames
    /\ result' = "recursion_error"
    /\ UNCHANGED <<graph, frames, visited, starts, path, todo, cycle>>

\* Mutant: a parent met before is taken for one on the path.
CycleFoundSeen(c) ==
    /\ AtParent(c) /\ c \in Case /\ visited[c] # Nil
    /\ result' = "cycle"
    /\ cycle' = Append(path, c)
    /\ UNCHANGED <<graph, frames, visited, starts, path, todo>>

\* ValidationError: the parent is on the path.
CycleFound(c) ==
    /\ AtParent(c) /\ c \in Case /\ visited[c] = 0
    /\ result' = "cycle"
    /\ cycle' = Append(path, c)
    /\ UNCHANGED <<graph, frames, visited, starts, path, todo>>

\* All parents have been looked at, and the frame returns.
Finish ==
    /\ result = Nil /\ path # <<>>
    /\ todo[Top] = {}
    /\ visited' = [visited EXCEPT ![Top] = 1]
    /\ path' = SubSeq(path, 1, Len(path) - 1)
    /\ UNCHANGED <<graph, frames, starts, todo, result, cycle>>

\* The loop over case_ids ends, and validate_lineage returns.
Accept ==
    /\ result = Nil /\ path = <<>> /\ starts = {}
    /\ result' = "accepted"
    /\ UNCHANGED <<graph, frames, visited, starts, path, todo, cycle>>

LineageInit ==
    /\ graph \in [Case -> SUBSET (Case \cup Foreign)]
    /\ frames \in FrameLimit
    /\ visited = [c \in Case |-> Nil]
    /\ starts = Case
    /\ path = <<>>
    /\ todo = [c \in Case |-> {}]
    /\ result = Nil
    /\ cycle = <<>>

LineageNext ==
    \/ \E c \in Case : \/ SkipCase(c) \/ StartSearch(c)
                      \/ Descend(c) \/ TooDeep(c) \/ CycleFound(c)
    \/ \E c \in Case \cup Foreign : SkipParent(c)
    \/ Finish
    \/ Accept

LineageSpec == LineageInit /\ [][LineageNext]_lineageVars

-----------------------------------------------------------------------------
(* Properties *)

\* Cases that are derived from each other in a circle: each has a parent in S.
\* Among finitely many cases there is a cycle exactly if there is such a set.
Knotted(S) == S # {} /\ \A c \in S : graph[c] \cap S # {}

\* validate_lineage returns only for cases without a cycle, and reports a cycle
\* only where there is one, in whatever order it meets cases and parents.
LineageIsDecided ==
    /\ result = "accepted" => \A S \in SUBSET Case : ~Knotted(S)
    /\ result = "cycle" => \E S \in SUBSET Case : Knotted(S)

\* The cycle of the error's details is one: each case is derived from the next,
\* and the last is there before.
CycleIsShown ==
    result = "cycle" =>
        /\ \A i \in 1 .. Len(cycle) - 1 : cycle[i + 1] \in graph[cycle[i]]
        /\ \E i \in 1 .. Len(cycle) - 1 : cycle[i] = cycle[Len(cycle)]

-----------------------------------------------------------------------------
(* The inductive invariant. *)

LineageTypeOK ==
    /\ graph \in [Case -> SUBSET (Case \cup Foreign)]
    /\ frames \in FrameLimit
    /\ visited \in [Case -> {Nil, 0, 1}]
    /\ starts \subseteq Case
    /\ path \in Seq(Case)
    /\ todo \in [Case -> SUBSET (Case \cup Foreign)]
    /\ result \in {Nil, "accepted", "cycle", "recursion_error"}
    /\ cycle \in Seq(Case)

\* The cases being visited are those on the path, each derived from the next.
PathInv ==
    /\ \A c \in Case : visited[c] = 0 <=> \E i \in 1 .. Len(path) : path[i] = c
    /\ \A i, k \in 1 .. Len(path) : path[i] = path[k] => i = k
    /\ \A i \in 1 .. Len(path) - 1 : path[i + 1] \in graph[path[i]]

\* What the loops have passed: a parent is visited or the next on the path, and
\* a case has been reached.
LoopInv ==
    /\ \A c \in Case : todo[c] \subseteq graph[c]
    /\ \A i \in 1 .. Len(path) : \A c \in (graph[path[i]] \cap Case) \ todo[path[i]] :
          visited[c] = 1 \/ (i < Len(path) /\ c = path[i + 1])
    /\ \A c \in Case \ starts : visited[c] # Nil

\* No case whose search has ended is, by any chain of parents, part of or
\* derived from a cycle.
VisitedInv == \A S \in SUBSET Case : Knotted(S) => \A c \in S : visited[c] # 1

LineageInv ==
    /\ LineageTypeOK
    /\ PathInv
    /\ LoopInv
    /\ VisitedInv
    /\ LineageIsDecided
    /\ CycleIsShown

=============================================================================
