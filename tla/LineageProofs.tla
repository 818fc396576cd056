---------------------------- MODULE LineageProofs ----------------------------
(***************************************************************************)
(* validate_lineage is right for any cases and any derivations.  The       *)
(* argument: a case is marked visited only when the loop over its parents  *)
(* is through, and then all of them are, so no case of a circle ever is;   *)
(* and the cases being visited are a chain, so a parent found among them   *)
(* closes a circle.                                                        *)
(***************************************************************************)
EXTENDS Lineage, TLAPS

\* No case has been visited yet: the invariant holds.
LEMMA LineageInitial == LineageInit => LineageInv
  <1> SUFFICES ASSUME LineageInit PROVE LineageInv
    OBVIOUS
  <1>1. LineageTypeOK
    BY DEF LineageInit, LineageTypeOK
  <1>2. PathInv /\ LoopInv /\ VisitedInv
    BY LineageAssumption DEF LineageInit, PathInv, LoopInv, VisitedInv
  <1>3. LineageIsDecided /\ CycleIsShown
    BY LineageAssumption DEF LineageInit, LineageIsDecided, CycleIsShown
  <1> QED
    BY <1>1, <1>2, <1>3 DEF LineageInv

\* While the call runs nothing is claimed of its result.
LEMMA Undecided ==
    ASSUME LineageInv, result' = Nil
    PROVE  LineageIsDecided' /\ CycleIsShown'
  BY LineageAssumption DEF LineageIsDecided, CycleIsShown

\* A dfs() frame opened for a case that no frame has been opened for, which is
\* the first or a parent of the innermost one.
LEMMA EnterStep ==
    ASSUME LineageInv, NEW c \in Case, visited[c] = Nil, result = Nil,
           UNCHANGED <<graph, frames, result, cycle>>,
           visited' = [visited EXCEPT ![c] = 0],
           path' = Append(path, c),
           path # <<>> => c \in graph[Top],
           todo' \in [Case -> SUBSET (Case \cup Foreign)], todo'[c] = graph[c],
           \A d \in Case : d # c => \/ todo'[d] = todo[d]
                                    \/ path # <<>> /\ d = Top /\ todo'[d] = todo[d] \ {c},
           starts' = starts \/ starts' = starts \ {c}
    PROVE  LineageInv'
  <1> DEFINE n == Len(path)
  <1>1. /\ path \in Seq(Case) /\ n \in Nat /\ path' \in Seq(Case)
        /\ Len(path') = n + 1 /\ path'[n + 1] = c
        /\ \A i \in 1 .. n : path'[i] = path[i] /\ path[i] \in Case
        /\ path # <<>> => n # 0 /\ Top = path[n]
    BY DEF LineageInv, LineageTypeOK, Top
  <1>2. visited' \in [Case -> {Nil, 0, 1}] /\ visited'[c] = 0
        /\ \A d \in Case : d # c => visited'[d] = visited[d]
    BY DEF LineageInv, LineageTypeOK
  <1>3. \A i \in 1 .. n : path[i] # c
    BY <1>1, LineageAssumption DEF LineageInv, PathInv
  <1>4. LineageTypeOK'
    BY <1>1, <1>2 DEF LineageInv, LineageTypeOK
  <1>5. (\A d \in Case : visited[d] = 0 <=> \E i \in 1 .. Len(path) : path[i] = d)'
    <2>1. SUFFICES ASSUME NEW d \in Case
                   PROVE  visited'[d] = 0 <=> \E i \in 1 .. n + 1 : path'[i] = d
      BY <1>1
    <2>2. visited[d] = 0 <=> \E i \in 1 .. n : path[i] = d
      BY DEF LineageInv, PathInv
    <2>3. CASE d = c
      BY <1>1, <1>2, <2>3
    <2>4. CASE d # c
      BY <1>1, <1>2, <2>2, <2>4
    <2> QED
      BY <2>3, <2>4
  <1>6. (\A i, k \in 1 .. Len(path) : path[i] = path[k] => i = k)'
    BY <1>1, <1>3 DEF LineageInv, PathInv
  <1>7. (\A i \in 1 .. Len(path) - 1 : path[i + 1] \in graph[path[i]])'
    <2>1. SUFFICES ASSUME NEW i \in 1 .. n PROVE path'[i + 1] \in graph[path'[i]]
      BY <1>1
    <2>2. CASE i = n
      BY <1>1, <2>1, <2>2
    <2>3. CASE i # n
      BY <1>1, <2>1, <2>3 DEF LineageInv, PathInv
    <2> QED
      BY <2>2, <2>3
  <1>8. ASSUME NEW i \in 1 .. n + 1,
               NEW d \in (graph[path'[i]] \cap Case) \ todo'[path'[i]]
        PROVE  visited'[d] = 1 \/ (i < n + 1 /\ d = path'[i + 1])
    <2>1. CASE i = n + 1
      BY <1>1, <1>8, <2>1
    <2>2. CASE i # n + 1 /\ d \notin todo[path[i]]
      <3>1. i \in 1 .. n /\ path'[i] = path[i] /\ path[i] \in Case
        BY <1>1, <1>8, <2>2
      <3>2. visited[d] = 1 \/ (i < n /\ d = path[i + 1])
        BY <1>8, <2>2, <3>1 DEF LineageInv, LoopInv
      <3>3. visited[d] = 1 => visited'[d] = 1
        BY <1>2, <1>8, LineageAssumption
      <3>4. i < n => path'[i + 1] = path[i + 1]
        BY <1>1, <3>1
      <3> QED
        BY <1>1, <3>1, <3>2, <3>3, <3>4
    <2>3. CASE i # n + 1 /\ d \in todo[path[i]]
      <3>1. i \in 1 .. n /\ path'[i] = path[i] /\ path[i] \in Case /\ path[i] # c
        BY <1>1, <1>3, <1>8, <2>3
      <3>2. path # <<>> /\ path[i] = Top /\ d = c
        BY <1>8, <2>3, <3>1
      <3>3. i = n
        BY <1>1, <3>1, <3>2 DEF LineageInv, PathInv
      <3> QED
        BY <1>1, <3>2, <3>3
    <2> QED
      BY <2>1, <2>2, <2>3
  <1>9. LoopInv'
    <2>1. \A d \in Case \ starts' : visited'[d] # Nil
      BY <1>2, LineageAssumption DEF LineageInv, LoopInv
    <2>2. \A d \in Case : todo'[d] \subseteq graph[d]
      BY DEF LineageInv, LoopInv
    <2> QED
      BY <1>1, <1>8, <2>1, <2>2 DEF LoopInv
  <1>10. VisitedInv'
    BY <1>2 DEF LineageInv, VisitedInv, Knotted
  <1> QED
    BY <1>4, <1>5, <1>6, <1>7, <1>9, <1>10, Undecided DEF LineageInv, PathInv

\* A loop goes past a case that was reached before, or a parent that is foreign
\* or visited.
LEMMA SkipStep ==
    ASSUME LineageInv, result = Nil,
           UNCHANGED <<graph, frames, visited, path, result, cycle>>,
           \/ \E c \in Case : /\ visited[c] # Nil /\ starts' = starts \ {c}
                              /\ UNCHANGED todo
           \/ \E c \in Case \cup Foreign :
                 /\ path # <<>> /\ c \in Case => visited[c] = 1
                 /\ todo' = [todo EXCEPT ![Top] = @ \ {c}]
                 /\ UNCHANGED starts
    PROVE  LineageInv'
  <1>1. path \in Seq(Case) /\ todo \in [Case -> SUBSET (Case \cup Foreign)]
        /\ (path # <<>> => Top \in Case)
    BY DEF LineageInv, LineageTypeOK, Top
  <1>2. LineageTypeOK'
    BY <1>1 DEF LineageInv, LineageTypeOK
  <1>3. PathInv' /\ VisitedInv'
    BY DEF LineageInv, PathInv, VisitedInv, Knotted
  <1>4. LoopInv'
    <2>1. \A d \in Case \ starts' : visited[d] # Nil
      BY DEF LineageInv, LoopInv
    <2>2. \A i \in 1 .. Len(path) : path[i] \in Case
      BY <1>1
    <2>3. \A i \in 1 .. Len(path) : \A d \in Case \ todo'[path[i]] :
             d \notin todo[path[i]] \/ visited[d] = 1
      BY <1>1, <2>2
    <2>4. \A d \in Case : todo'[d] \subseteq graph[d]
      BY <1>1 DEF LineageInv, LoopInv
    <2> QED
      BY <2>1, <2>3, <2>4 DEF LineageInv, LoopInv
  <1> QED
    BY <1>2, <1>3, <1>4, Undecided DEF LineageInv

\* A frame returns: none of the parents of its case is part of a circle, so the
\* case is not either.
LEMMA FinishStep ==
    ASSUME LineageInv, Finish
    PROVE  LineageInv'
  <1> DEFINE n == Len(path)
  <1>1. /\ path \in Seq(Case) /\ n \in Nat /\ n # 0 /\ path' \in Seq(Case)
        /\ Len(path') = n - 1 /\ Top = path[n] /\ Top \in Case
        /\ \A i \in 1 .. n - 1 : path'[i] = path[i] /\ path[i] \in Case
    <2>1. path \in Seq(Case) /\ n \in Nat /\ path' = SubSeq(path, 1, n - 1) /\ Top = path[n]
      BY DEF Finish, Top, LineageInv, LineageTypeOK
    <2>2. n # 0
      BY <2>1 DEF Finish
    <2>3. Top \in Case
      BY <2>1, <2>2
    <2> HIDE DEF n
    <2>4. /\ path' \in Seq(Case) /\ Len(path') = n - 1
          /\ \A i \in 1 .. n - 1 : path'[i] = path[i] /\ path[i] \in Case
      <3>1. \A i \in 1 .. n - 1 : i \in 1 .. Len(path) /\ path[i] \in Case
        BY <2>1, <2>2 DEF n
      <3> QED
        BY <2>1, <2>2, <3>1
    <2> QED
      BY <2>1, <2>2, <2>3, <2>4
  <1>2. visited' \in [Case -> {Nil, 0, 1}] /\ visited'[Top] = 1
        /\ \A d \in Case : d # Top => visited'[d] = visited[d]
    BY <1>1 DEF Finish, LineageInv, LineageTypeOK
  <1>3. LineageTypeOK'
    BY <1>1, <1>2 DEF Finish, LineageInv, LineageTypeOK
  <1>4. \A i \in 1 .. n - 1 : path[i] # Top
    BY <1>1 DEF LineageInv, PathInv
  <1>5. PathInv'
    <2>1. ASSUME NEW d \in Case
          PROVE  visited'[d] = 0 <=> \E i \in 1 .. n - 1 : path'[i] = d
      <3>1. visited[d] = 0 <=> \E i \in 1 .. n : path[i] = d
        BY DEF LineageInv, PathInv
      <3>2. CASE d = Top
        BY <1>1, <1>2, <1>4, <3>2
      <3>3. CASE d # Top
        BY <1>1, <1>2, <3>1, <3>3
      <3> QED
        BY <3>2, <3>3
    <2>2. (\A i, k \in 1 .. Len(path) : path[i] = path[k] => i = k)'
      BY <1>1 DEF LineageInv, PathInv
    <2>3. (\A i \in 1 .. Len(path) - 1 : path[i + 1] \in graph[path[i]])'
      BY <1>1 DEF Finish, LineageInv, PathInv
    <2> QED
      BY <1>1, <2>1, <2>2, <2>3 DEF PathInv
  <1>6. LoopInv'
    <2>1. ASSUME NEW i \in 1 .. n - 1, NEW d \in (graph[path[i]] \cap Case) \ todo[path[i]]
          PROVE  visited'[d] = 1 \/ (i < n - 1 /\ d = path'[i + 1])
      <3>1. visited[d] = 1 \/ d = path[i + 1]
        BY <1>1, <2>1 DEF LineageInv, LoopInv
      <3>2. CASE d = Top
        BY <1>2, <3>2
      <3>3. CASE d # Top
        BY <1>1, <1>2, <2>1, <3>1, <3>3
      <3> QED
        BY <3>2, <3>3
    <2>2. \A d \in Case \ starts' : visited'[d] # Nil
      BY <1>2, LineageAssumption DEF Finish, LineageInv, LoopInv
    <2> QED
      <3>1. \A i \in 1 .. Len(path') :
              \A d \in (graph'[path'[i]] \cap Case) \ todo'[path'[i]] :
                visited'[d] = 1 \/ (i < Len(path') /\ d = path'[i + 1])
        BY <1>1, <2>1 DEF Finish
      <3>2. \A d \in Case : todo'[d] \subseteq graph'[d]
        BY DEF Finish, LineageInv, LoopInv
      <3> QED
        BY <2>2, <3>1, <3>2 DEF LoopInv
  <1>7. VisitedInv'
    <2>1. SUFFICES ASSUME NEW S \in SUBSET Case, Knotted(S), NEW d \in S
                   PROVE  visited'[d] # 1
      BY DEF Finish, Knotted, VisitedInv
    <2>2. \A e \in S : visited[e] # 1
      BY <2>1 DEF LineageInv, VisitedInv
    <2>3. \A e \in graph[Top] \cap Case : visited[e] = 1
      BY <1>1 DEF Finish, LineageInv, LoopInv
    <2>4. Top \notin S
      BY <2>1, <2>2, <2>3 DEF Knotted
    <2> QED
      BY <1>2, <2>2, <2>4
  <1> QED
    BY <1>3, <1>5, <1>6, <1>7, Undecided DEF Finish, LineageInv

\* The frames from the repeated case inwards are the circle that is reported.
LEMMA CycleStep ==
    ASSUME LineageInv, NEW c \in Case, CycleFound(c)
    PROVE  LineageInv'
  <1>1. /\ path \in Seq(Case) /\ Len(path) \in Nat /\ Top = path[Len(path)]
        /\ Len(path) # 0
    BY DEF CycleFound, AtParent, Top, LineageInv, LineageTypeOK
  <1>2. PICK i \in 1 .. Len(path) : path[i] = c
    BY DEF CycleFound, LineageInv, PathInv
  <1>3. c \in graph[Top]
    <2>1. Top \in Case
      BY <1>1
    <2> QED
      BY <2>1 DEF CycleFound, AtParent, LineageInv, LoopInv
  <1> DEFINE S == {path[k] : k \in i .. Len(path)}
  <1>4. S \in SUBSET Case /\ c \in S
    BY <1>1, <1>2
  <1>5. ASSUME NEW k \in i .. Len(path) PROVE graph[path[k]] \cap S # {}
    <2>1. CASE k = Len(path)
      BY <1>1, <1>3, <1>4, <2>1
    <2>2. CASE k # Len(path)
      <3>1. k + 1 \in i .. Len(path) /\ k \in 1 .. Len(path) - 1
        BY <1>1, <1>5, <2>2
      <3>2. path[k + 1] \in graph[path[k]] /\ path[k + 1] \in S
        BY <3>1 DEF LineageInv, PathInv
      <3> QED
        BY <3>2
    <2> QED
      BY <2>1, <2>2
  <1>6. Knotted(S)
    BY <1>4, <1>5 DEF Knotted
  <1>7. LineageIsDecided'
    BY <1>4, <1>6 DEF CycleFound, LineageIsDecided, Knotted
  <1>8. /\ cycle' \in Seq(Case) /\ Len(cycle') = Len(path) + 1
        /\ cycle'[Len(path) + 1] = c
        /\ \A k \in 1 .. Len(path) : cycle'[k] = path[k]
    BY <1>1 DEF CycleFound
  <1>9. CycleIsShown'
    <2>1. ASSUME NEW k \in 1 .. Len(path) PROVE cycle'[k + 1] \in graph[cycle'[k]]
      <3>1. CASE k = Len(path)
        BY <1>1, <1>3, <1>8, <3>1
      <3>2. CASE k # Len(path)
        BY <1>1, <1>8, <2>1, <3>2 DEF LineageInv, PathInv
      <3> QED
        BY <3>1, <3>2
    <2>2. cycle'[i] = cycle'[Len(cycle')] /\ i \in 1 .. Len(cycle') - 1
      BY <1>1, <1>2, <1>8
    <2> QED
      BY <1>1, <1>8, <2>1, <2>2 DEF CycleFound, CycleIsShown
  <1>10. LineageTypeOK'
    BY <1>8 DEF CycleFound, LineageInv, LineageTypeOK
  <1>11. PathInv' /\ LoopInv' /\ VisitedInv'
    BY DEF CycleFound, LineageInv, PathInv, LoopInv, VisitedInv, Knotted
  <1> QED
    BY <1>7, <1>9, <1>10, <1>11 DEF LineageInv

\* With no frame open and no case left every case has been visited, so none is
\* part of a circle.
LEMMA AcceptStep ==
    ASSUME LineageInv, Accept
    PROVE  LineageInv'
  <1>1. \A c \in Case : visited[c] = 1
    <2>1. \A c \in Case : visited[c] # 0
      BY DEF Accept, LineageInv, PathInv
    <2>2. \A c \in Case : visited[c] # Nil
      BY DEF Accept, LineageInv, LoopInv
    <2> QED
      BY <2>1, <2>2 DEF LineageInv, LineageTypeOK
  <1>2. \A S \in SUBSET Case : ~Knotted(S)
    BY <1>1 DEF LineageInv, VisitedInv, Knotted
  <1>3. LineageIsDecided' /\ CycleIsShown'
    BY <1>2 DEF Accept, LineageIsDecided, CycleIsShown, Knotted
  <1>4. LineageTypeOK'
    BY DEF Accept, LineageInv, LineageTypeOK
  <1>5. PathInv' /\ LoopInv' /\ VisitedInv'
    BY DEF Accept, LineageInv, PathInv, LoopInv, VisitedInv, Knotted
  <1> QED
    BY <1>3, <1>4, <1>5 DEF LineageInv

\* Every step of the search keeps the invariant.
LEMMA LineageStep == LineageInv /\ [LineageNext]_lineageVars => LineageInv'
  <1> SUFFICES ASSUME LineageInv, [LineageNext]_lineageVars PROVE LineageInv'
    OBVIOUS
  <1>1. ASSUME NEW c \in Case, StartSearch(c) PROVE LineageInv'
    <2>1. /\ todo' \in [Case -> SUBSET (Case \cup Foreign)] /\ todo'[c] = graph[c]
          /\ \A d \in Case : d # c => todo'[d] = todo[d]
      BY <1>1 DEF StartSearch, LineageInv, LineageTypeOK
    <2>2. path = <<>> /\ path' = Append(path, c)
      BY <1>1 DEF StartSearch, AtCase
    <2> QED
      BY <1>1, <2>1, <2>2, EnterStep DEF StartSearch, AtCase
  <1>2. ASSUME NEW c \in Case, Descend(c) PROVE LineageInv'
    <2>1. Top \in Case /\ path # <<>>
      BY <1>2 DEF Descend, AtParent, Top, LineageInv, LineageTypeOK
    <2>2. /\ todo' \in [Case -> SUBSET (Case \cup Foreign)] /\ todo'[c] = graph[c]
          /\ \A d \in Case : d # c => \/ todo'[d] = todo[d]
                                      \/ d = Top /\ todo'[d] = todo[d] \ {c}
      BY <1>2, <2>1 DEF Descend, LineageInv, LineageTypeOK
    <2>3. c \in graph[Top]
      BY <1>2, <2>1 DEF Descend, AtParent, LineageInv, LoopInv
    <2> QED
      BY <1>2, <2>1, <2>2, <2>3, EnterStep DEF Descend, AtParent
  <1>3. ASSUME NEW c \in Case, TooDeep(c) PROVE LineageInv'
    <2>1. LineageTypeOK' /\ LineageIsDecided' /\ CycleIsShown'
      BY <1>3 DEF TooDeep, LineageInv, LineageTypeOK, LineageIsDecided, CycleIsShown
    <2>2. PathInv' /\ LoopInv' /\ VisitedInv'
      BY <1>3 DEF TooDeep, LineageInv, PathInv, LoopInv, VisitedInv, Knotted
    <2> QED
      BY <2>1, <2>2 DEF LineageInv
  <1>4. ASSUME NEW c \in Case, SkipCase(c) PROVE LineageInv'
    BY <1>4, SkipStep DEF SkipCase, AtCase
  <1>5. ASSUME NEW c \in Case \cup Foreign, SkipParent(c) PROVE LineageInv'
    BY <1>5, SkipStep DEF SkipParent, AtParent
  <1>6. CASE UNCHANGED lineageVars
    <2>1. LineageTypeOK' /\ LineageIsDecided' /\ CycleIsShown'
      BY <1>6 DEF lineageVars, LineageInv, LineageTypeOK, LineageIsDecided, CycleIsShown, Knotted
    <2>2. PathInv' /\ LoopInv' /\ VisitedInv'
      BY <1>6 DEF lineageVars, LineageInv, PathInv, LoopInv, VisitedInv, Knotted
    <2> QED
      BY <2>1, <2>2 DEF LineageInv
  <1> QED
    BY <1>1, <1>2, <1>3, <1>4, <1>5, <1>6, FinishStep, CycleStep, AcceptStep DEF LineageNext

\* The invariant of the search is inductive, for any cases and derivations.
THEOREM LineageInvariance == LineageSpec => []LineageInv
  BY LineageInitial, LineageStep, PTL DEF LineageSpec

\* validate_lineage accepts exactly what has no cycle, whenever it decides.
THEOREM LineageDecided == LineageSpec => []LineageIsDecided
  <1>1. LineageInv => LineageIsDecided
    BY DEF LineageInv
  <1> QED
    BY <1>1, LineageInvariance, PTL

\* The list in the details of the error is a cycle of derivations, with the way
\* to it, for any cases and any order of the search.
THEOREM ShownCycleIsOne == LineageSpec => []CycleIsShown
  <1>1. LineageInv => CycleIsShown
    BY DEF LineageInv
  <1> QED
    BY <1>1, LineageInvariance, PTL

=============================================================================
