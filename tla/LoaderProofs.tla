---------------------------- MODULE LoaderProofs ----------------------------
(***************************************************************************)
(* The two depth-first searches of the loader decide what they are meant   *)
(* to: a file is accepted only if neither its jobs nor its groups wait in  *)
(* a circle, and a file refused for a cycle has the one that is reported.  *)
(* Stated for every set of definitions and every order of the neighbours.  *)
(***************************************************************************)
EXTENDS Loader, SequenceTheorems, TLAPS

AfterJumps == {"writers", "expressions", "triggers", "manual_inputs", "human", "deprecations"}

AfterGroups == {"group_jumps"} \cup AfterJumps

BetweenSearches == {"traverse", "group_refs", "group_needs"}

AfterJobs == BetweenSearches \cup {"group_cycles"} \cup AfterGroups

AfterReferences == {"job_cycles"} \cup AfterJobs

BeforeSearches == {"yaml", "schema", "normalize", "step_ids", "skills", "on_return",
                   "on_output", "goto_step", "constraints", "references"}

Places == BeforeSearches \cup AfterReferences \cup {"done"}

Reached(places) == at \in places \/ verdict = "accepted"

FrameSet == [node : Names, todo : SUBSET Names]

(* What the checks leave of a definition.                                   *)
DefinitionTyped ==
  /\ {"jobs", "needs", "steps", "group", "groups", "group_needs"} \subseteq DOMAIN wf
  /\ wf.jobs \subseteq Names
  /\ wf.groups \subseteq Names
  /\ wf.needs \in [Names -> SUBSET Names]
  /\ wf.group_needs \in [Names -> SUBSET Names]

Typed ==
  /\ DefinitionTyped
  /\ at \in Places
  /\ at # "done" => verdict = "none"
  /\ color \in [Names -> {"white", "grey", "black"}]
  /\ frames \in Seq(FrameSet)

Fresh == frames = <<>> /\ color = White /\ cycle = <<>>

Black == {n \in Nodes : color[n] = "black"}

(* The stack holds the grey nodes, each once, each needed by the one below. *)
StackIsPath ==
  /\ \A i \in 1..Len(frames) :
       /\ frames[i].node \in Nodes
       /\ frames[i].todo \subseteq Edges[frames[i].node]
       /\ color[frames[i].node] = "grey"
  /\ \A i, k \in 1..Len(frames) : frames[i].node = frames[k].node => i = k
  /\ \A n \in Nodes : color[n] = "grey" => \E i \in 1..Len(frames) : frames[i].node = n
  /\ \A i \in 1..(Len(frames) - 1) : frames[i + 1].node \in Edges[frames[i].node]

(* While no cycle is found, a neighbour that was looked at is finished or   *)
(* next on the stack, and the finished nodes are closed and acyclic.        *)
NothingMissed ==
  cycle = <<>> =>
    /\ \A i \in 1..Len(frames) :
         \A m \in (Edges[frames[i].node] \ frames[i].todo) \cap Nodes :
           color[m] = "black" \/ (i < Len(frames) /\ m = frames[i + 1].node)
    /\ \A n \in Black : Edges[n] \cap Nodes \subseteq Black
    /\ Acyclic(Black, Edges)

FoundIsReal ==
  /\ cycle \in Seq(Nodes)
  /\ cycle # <<>> => ClosedWalk(cycle, Edges)

Searching == StackIsPath /\ NothingMissed /\ FoundIsReal

(* What the checks passed so far have established.                          *)
Established ==
  /\ Reached(AfterReferences) => \A j \in wf.jobs : wf.needs[j] \subseteq wf.jobs
  /\ Reached(AfterJobs) => Acyclic(wf.jobs, wf.needs)
  /\ Reached(AfterGroups) => Acyclic(wf.groups, wf.group_needs)
  /\ Reached(AfterJumps) =>
       \A j \in wf.jobs : wf.group[j] # {} =>
         \A i \in DOMAIN wf.steps[j] : Jumps(wf.steps[j][i]) = {}

IInv ==
  /\ Typed
  /\ at \in BeforeSearches \cup BetweenSearches => Fresh
  /\ at \in Searches => Searching
  /\ at = "group_cycles" => cycle = <<>>
  /\ Established
  /\ verdict = "cycle" => cycle \in Seq(wf.jobs) /\ ClosedWalk(cycle, wf.needs)
  /\ verdict = "group_cycle" => cycle \in Seq(wf.groups) /\ ClosedWalk(cycle, wf.group_needs)

-----------------------------------------------------------------------------
(* A check that does not end the search phases keeps everything.            *)
LEMMA FreshSearches ==
  ASSUME Fresh, Typed
  PROVE  Searching
<1>1. Len(frames) = 0 BY DEF Fresh
<1>2. \A n \in Nodes : color[n] = "white"
  BY DEF Fresh, White, Nodes, Typed, DefinitionTyped
<1>3. Black = {} BY <1>2 DEF Black
<1> QED
  BY <1>1, <1>2, <1>3
  DEF Searching, StackIsPath, NothingMissed, FoundIsReal, Acyclic, Fresh

(* A closed walk is a set of nodes each of which needs another of them.     *)
LEMMA WalkIsCyclic ==
  ASSUME NEW E, NEW N, NEW c \in Seq(N), ClosedWalk(c, E)
  PROVE  ~ Acyclic(N, E)
<1> DEFINE S == {c[i] : i \in 1..Len(c)}
<1>1. S \in SUBSET N /\ S # {}
  BY DEF ClosedWalk
<1>2. ASSUME NEW n \in S PROVE E[n] \cap S # {}
  <2>1. PICK i \in 1..Len(c) : n = c[i] BY <1>2
  <2>2. Len(c) \in Nat /\ Len(c) > 1 BY DEF ClosedWalk
  <2>3. CASE i < Len(c)
    <3>1. c[i + 1] \in E[n] BY <2>1, <2>2, <2>3 DEF ClosedWalk
    <3>2. c[i + 1] \in S BY <2>2, <2>3
    <3> QED BY <3>1, <3>2
  <2>4. CASE i = Len(c)
    <3>1. n = c[1] BY <2>1, <2>4 DEF ClosedWalk
    <3>2. c[2] \in E[n] BY <3>1, <2>2 DEF ClosedWalk
    <3>3. c[2] \in S BY <2>2
    <3> QED BY <3>2, <3>3
  <2> QED BY <2>2, <2>3, <2>4
<1> QED BY <1>1, <1>2 DEF Acyclic

(* A node reached for the first time goes on the stack.                     *)
LEMMA StartStep ==
  ASSUME IInv, NEW n \in Nodes, StartAt(n)
  PROVE  Typed' /\ Searching'
<1> USE DEF IInv
<1>1. at \in Searches /\ Typed /\ Searching BY DEF StartAt
<1>2. n \in Names /\ Nodes \subseteq Names /\ Edges \in [Names -> SUBSET Names]
  BY <1>1 DEF Typed, DefinitionTyped, Nodes, Edges
<1>3. Nodes' = Nodes /\ Edges' = Edges BY DEF StartAt, Nodes, Edges
<1>4. Frame(n) \in FrameSet /\ Frame(n).node = n /\ Frame(n).todo = Edges[n]
  BY <1>2 DEF Frame, FrameSet
<1>5. frames' = <<Frame(n)>> /\ Len(frames') = 1 /\ frames'[1] = Frame(n)
  BY DEF StartAt
<1>6. color' = [color EXCEPT ![n] = "grey"] /\ cycle' = cycle /\ wf' = wf /\ at' = at
  BY DEF StartAt
<1>7. Typed'
  BY <1>1, <1>2, <1>4, <1>5, <1>6 DEF Typed, DefinitionTyped, StartAt
<1>8. \A m \in Nodes : color'[m] = IF m = n THEN "grey" ELSE color[m]
  BY <1>1, <1>2, <1>6 DEF Typed
<1>9. Len(frames) = 0 /\ color[n] = "white" BY DEF StartAt
<1>10. Black' = Black
  BY <1>3, <1>8, <1>9 DEF Black
<1>11. StackIsPath'
  BY <1>1, <1>3, <1>4, <1>5, <1>8, <1>9 DEF StackIsPath, Searching
<1>12. NothingMissed'
  BY <1>1, <1>3, <1>4, <1>5, <1>6, <1>10 DEF NothingMissed, Searching
<1>13. FoundIsReal'
  BY <1>1, <1>3, <1>6 DEF FoundIsReal, Searching
<1> QED BY <1>7, <1>11, <1>12, <1>13 DEF Searching

(* What the four other steps of a search have in common.                    *)
LEMMA TopFacts ==
  ASSUME IInv, at \in Searches, frames # <<>>
  PROVE  /\ Len(frames) \in Nat /\ Len(frames) > 0
         /\ Top = frames[Len(frames)] /\ Top \in FrameSet
         /\ Top.node \in Nodes /\ Top.todo \subseteq Edges[Top.node]
         /\ color[Top.node] = "grey"
         /\ Nodes \subseteq Names /\ Edges \in [Names -> SUBSET Names]
         /\ Typed /\ StackIsPath /\ NothingMissed /\ FoundIsReal
<1>1. Typed /\ Searching BY DEF IInv
<1>2. Len(frames) \in Nat /\ Len(frames) > 0 BY <1>1 DEF Typed
<1>3. Top \in FrameSet BY <1>1, <1>2 DEF Typed, Top
<1> QED BY <1>1, <1>2, <1>3
  DEF Searching, StackIsPath, Top, Typed, DefinitionTyped, Nodes, Edges

(* The stack after one neighbour was looked at.                             *)
LEMMA LookedAtFacts ==
  ASSUME IInv, at \in Searches, frames # <<>>, NEW m
  PROVE  /\ LookedAt(m) \in Seq(FrameSet)
         /\ Len(LookedAt(m)) = Len(frames)
         /\ \A i \in 1..Len(frames) : LookedAt(m)[i].node = frames[i].node
         /\ \A i \in 1..Len(frames) : i < Len(frames) => LookedAt(m)[i] = frames[i]
         /\ LookedAt(m)[Len(frames)].todo = Top.todo \ {m}
<1>1. Len(frames) \in Nat /\ Len(frames) > 0 /\ Top \in FrameSet /\ frames \in Seq(FrameSet)
  BY TopFacts DEF Typed
<1>2. [node |-> Top.node, todo |-> Top.todo \ {m}] \in FrameSet
  BY <1>1 DEF FrameSet
<1>3. LookedAt(m) \in Seq(FrameSet) /\ Len(LookedAt(m)) = Len(frames)
  BY <1>1, <1>2 DEF LookedAt
<1>4. \A i \in 1..Len(frames) : LookedAt(m)[i] =
        IF i = Len(frames) THEN [node |-> Top.node, todo |-> Top.todo \ {m}] ELSE frames[i]
  BY <1>1 DEF LookedAt
<1> QED BY <1>1, <1>3, <1>4 DEF Top

LEMMA DescendStep ==
  ASSUME IInv, NEW m \in Names, Descend(m)
  PROVE  Typed' /\ Searching'
<1>1. at \in Searches /\ frames # <<>> /\ m \in Top.todo /\ m \in Nodes /\ color[m] = "white"
  BY DEF Descend
<1>2. Nodes' = Nodes /\ Edges' = Edges BY DEF Descend, Nodes, Edges
<1>3. color' = [color EXCEPT ![m] = "grey"] /\ cycle' = cycle /\ wf' = wf /\ at' = at /\ verdict' = verdict
  BY DEF Descend
<1>4. Frame(m) \in FrameSet /\ Frame(m).node = m /\ Frame(m).todo = Edges[m]
  BY <1>1, TopFacts DEF Frame, FrameSet
<1> DEFINE L == Len(frames)
<1>5. L \in Nat /\ L > 0 BY <1>1, TopFacts
<1>6. /\ frames' \in Seq(FrameSet) /\ Len(frames') = L + 1
      /\ \A i \in 1..L : frames'[i].node = frames[i].node
      /\ \A i \in 1..L : i < L => frames'[i] = frames[i]
      /\ frames'[L].todo = Top.todo \ {m}
      /\ frames'[L + 1].node = m /\ frames'[L + 1].todo = Edges[m]
  <2>1. frames' = Append(LookedAt(m), Frame(m)) BY DEF Descend
  <2>2. LookedAt(m) \in Seq(FrameSet) /\ Len(LookedAt(m)) = L BY <1>1, LookedAtFacts
  <2>3. frames' \in Seq(FrameSet) /\ Len(frames') = L + 1 /\ frames'[L + 1] = Frame(m)
    BY <2>1, <2>2, <1>4
  <2>4. \A i \in 1..L : frames'[i] = LookedAt(m)[i]
    BY <2>1, <2>2, <1>4, <1>5
  <2>5. /\ \A i \in 1..L : LookedAt(m)[i].node = frames[i].node
        /\ \A i \in 1..L : i < L => LookedAt(m)[i] = frames[i]
        /\ LookedAt(m)[L].todo = Top.todo \ {m}
    BY <1>1, LookedAtFacts
  <2> QED BY <2>3, <2>4, <2>5, <1>4, <1>5
<1>7. \A n \in Nodes : color'[n] = IF n = m THEN "grey" ELSE color[n]
  BY <1>1, <1>3, TopFacts DEF Typed
<1>8. Typed'
  BY <1>1, <1>3, <1>6, TopFacts DEF Typed, DefinitionTyped
<1>9. Black' = Black BY <1>1, <1>2, <1>7 DEF Black
<1>10. StackIsPath'
  <2>1. \A i \in 1..L : frames[i].node # m BY <1>1, TopFacts DEF StackIsPath
  <2>2. m \in Edges[frames[L].node] BY <1>1, TopFacts
  <2>3. \A i \in 1..(L + 1) :
          /\ frames'[i].node \in Nodes
          /\ frames'[i].todo \subseteq Edges[frames'[i].node]
          /\ color'[frames'[i].node] = "grey"
    BY <1>1, <1>5, <1>6, <1>7, <2>1, TopFacts DEF StackIsPath
  <2>4. \A i, k \in 1..(L + 1) : frames'[i].node = frames'[k].node => i = k
    <3>1. \A i, k \in 1..L : frames'[i].node = frames'[k].node => i = k
      BY <1>1, <1>6, TopFacts DEF StackIsPath
    <3>2. \A i \in 1..L : frames'[i].node # frames'[L + 1].node
      BY <1>6, <2>1
    <3> QED BY <1>5, <3>1, <3>2
  <2>5. \A n \in Nodes : color'[n] = "grey" => \E i \in 1..(L + 1) : frames'[i].node = n
    BY <1>1, <1>5, <1>6, <1>7, TopFacts DEF StackIsPath
  <2>6. \A i \in 1..L : frames'[i + 1].node \in Edges[frames'[i].node]
    BY <1>1, <1>5, <1>6, <2>2, TopFacts DEF StackIsPath
  <2> QED BY <1>2, <1>5, <1>6, <2>3, <2>4, <2>5, <2>6 DEF StackIsPath
<1>11. NothingMissed'
  <2> SUFFICES ASSUME cycle = <<>> PROVE NothingMissed' BY <1>3 DEF NothingMissed
  <2>1. \A i \in 1..(L + 1) :
          \A x \in (Edges[frames'[i].node] \ frames'[i].todo) \cap Nodes :
            color'[x] = "black" \/ (i < L + 1 /\ x = frames'[i + 1].node)
    <3> SUFFICES ASSUME NEW i \in 1..(L + 1),
                        NEW x \in (Edges[frames'[i].node] \ frames'[i].todo) \cap Nodes
                 PROVE  color'[x] = "black" \/ (i < L + 1 /\ x = frames'[i + 1].node)
      OBVIOUS
    <3>1. CASE i = L + 1 BY <3>1, <1>6
    <3>2. CASE i = L
      <4>1. x = m \/ x \in (Edges[frames[L].node] \ frames[L].todo) \cap Nodes
        BY <3>2, <1>5, <1>6, <1>1, TopFacts
      <4>2. CASE x = m BY <3>2, <4>2, <1>5, <1>6
      <4>3. CASE x # m
        <5>1. color[x] = "black" BY <4>1, <4>3, <1>1, <1>5, TopFacts DEF NothingMissed
        <5> QED BY <5>1, <4>3, <1>7
      <4> QED BY <4>2, <4>3
    <3>3. CASE i < L
      <4>1. frames'[i] = frames[i] /\ frames'[i + 1].node = frames[i + 1].node
        BY <3>3, <1>5, <1>6
      <4>2. color[x] = "black" \/ x = frames[i + 1].node
        BY <3>3, <4>1, <1>1, <1>5, TopFacts DEF NothingMissed
      <4>3. color[x] = "black" => x # m BY <1>1
      <4> QED BY <3>3, <4>1, <4>2, <4>3, <1>5, <1>7
    <3> QED BY <3>1, <3>2, <3>3, <1>5
  <2> QED BY <2>1, <1>1, <1>2, <1>3, <1>6, <1>9, TopFacts DEF NothingMissed
<1>12. FoundIsReal' BY <1>1, <1>2, <1>3, TopFacts DEF FoundIsReal
<1> QED BY <1>8, <1>10, <1>11, <1>12 DEF Searching

(* A neighbour that is finished, or no node, only leaves the list.          *)
LEMMA SkipStep ==
  ASSUME IInv, NEW m \in Names, SkipFinished(m)
  PROVE  Typed' /\ Searching'
<1>1. at \in Searches /\ frames # <<>> /\ (m \in Nodes => color[m] = "black")
  BY DEF SkipFinished
<1>2. Nodes' = Nodes /\ Edges' = Edges BY DEF SkipFinished, Nodes, Edges
<1>3. UNCHANGED <<wf, at, verdict, color, cycle>> /\ frames' = LookedAt(m)
  BY DEF SkipFinished
<1> DEFINE L == Len(frames)
<1>4. L \in Nat /\ L > 0 BY <1>1, TopFacts
<1>5. /\ frames' \in Seq(FrameSet) /\ Len(frames') = L
      /\ \A i \in 1..L : frames'[i].node = frames[i].node
      /\ \A i \in 1..L : i < L => frames'[i] = frames[i]
      /\ frames'[L].todo = frames[L].todo \ {m}
  BY <1>1, <1>3, LookedAtFacts DEF Top
<1>6. Typed' BY <1>1, <1>3, <1>5, TopFacts DEF Typed, DefinitionTyped
<1>7. Black' = Black BY <1>2, <1>3 DEF Black
<1>8. StackIsPath' BY <1>1, <1>2, <1>3, <1>4, <1>5, TopFacts DEF StackIsPath
<1>9. NothingMissed'
  <2> SUFFICES ASSUME cycle = <<>> PROVE NothingMissed' BY <1>3 DEF NothingMissed
  <2>1. ASSUME NEW i \in 1..L, NEW x \in (Edges[frames'[i].node] \ frames'[i].todo) \cap Nodes
        PROVE  color[x] = "black" \/ (i < L /\ x = frames'[i + 1].node)
    <3>1. x = m \/ x \in (Edges[frames[i].node] \ frames[i].todo) \cap Nodes
      BY <2>1, <1>4, <1>5
    <3>2. x # m => color[x] = "black" \/ (i < L /\ x = frames[i + 1].node)
      BY <3>1, <1>1, TopFacts DEF NothingMissed
    <3> QED BY <3>2, <2>1, <1>1, <1>4, <1>5
  <2> QED BY <2>1, <1>1, <1>2, <1>3, <1>5, <1>7, TopFacts DEF NothingMissed
<1>10. FoundIsReal' BY <1>1, <1>2, <1>3, TopFacts DEF FoundIsReal
<1> QED BY <1>6, <1>8, <1>9, <1>10 DEF Searching

(* A grey neighbour is on the stack, so the path to it closes.              *)
LEMMA PathCloses ==
  ASSUME IInv, at \in Searches, frames # <<>>,
         NEW m \in Top.todo \cap Nodes, color[m] = "grey"
  PROVE  CycleTo(m) \in Seq(Nodes) /\ CycleTo(m) # <<>> /\ ClosedWalk(CycleTo(m), Edges)
<1> DEFINE L == Len(frames)
           k == CHOOSE i \in DOMAIN frames : frames[i].node = m
           c == [i \in 1..(L - k + 2) |->
                   IF i + k - 1 \in DOMAIN frames THEN frames[i + k - 1].node ELSE m]
<1>1. L \in Nat /\ L > 0 /\ DOMAIN frames = 1..L BY TopFacts DEF Typed
<1>2. \E i \in DOMAIN frames : frames[i].node = m BY <1>1, TopFacts DEF StackIsPath
<1>3. k \in 1..L /\ frames[k].node = m BY <1>1, <1>2
<1>4. CycleTo(m) = c BY DEF CycleTo
<1> HIDE DEF k
<1>5. \A i \in 1..(L - k + 2) :
        c[i] = IF i = L - k + 2 THEN m ELSE frames[i + k - 1].node
  BY <1>1, <1>3
<1>6. c \in Seq(Nodes) /\ Len(c) = L - k + 2
  <2>1. \A i \in 1..(L - k + 2) : c[i] \in Nodes
    BY <1>1, <1>3, <1>5, TopFacts DEF StackIsPath
  <2>2. L - k + 2 \in Nat BY <1>1, <1>3
  <2> QED BY <2>1, <2>2
<1> HIDE DEF c
<1>7. c[1] = m /\ c[Len(c)] = m BY <1>1, <1>3, <1>5, <1>6
<1>8. ASSUME NEW i \in 1..(Len(c) - 1) PROVE c[i + 1] \in Edges[c[i]]
  <2>1. CASE i = L - k + 1
    <3>1. c[i] = frames[L].node /\ c[i + 1] = m BY <2>1, <1>1, <1>3, <1>5
    <3>2. m \in Edges[frames[L].node] BY TopFacts
    <3> QED BY <3>1, <3>2
  <2>2. CASE i < L - k + 1
    <3>1. c[i] = frames[i + k - 1].node /\ c[i + 1] = frames[i + k].node
      <4>1. i \in 1..(L - k + 2) /\ i + 1 \in 1..(L - k + 2) /\ i + 1 # L - k + 2
        BY <2>2, <1>1, <1>3, <1>6, <1>8
      <4>2. i # L - k + 2 /\ (i + 1) + k - 1 = i + k
        BY <2>2, <1>1, <1>3, <1>6, <1>8
      <4> QED BY <4>1, <4>2, <1>5
    <3>2. i + k - 1 \in 1..(L - 1) BY <2>2, <1>1, <1>3, <1>8
    <3>3. \A q \in 1..(L - 1) : frames[q + 1].node \in Edges[frames[q].node]
      BY TopFacts DEF StackIsPath
    <3>4. (i + k - 1) + 1 = i + k BY <1>1, <1>3
    <3> QED BY <3>1, <3>2, <3>3, <3>4
  <2> QED BY <2>1, <2>2, <1>1, <1>3, <1>6, <1>8
<1>9. Len(c) > 1 BY <1>1, <1>3, <1>6
<1>10. c # <<>> BY <1>6, <1>9
<1> QED BY <1>4, <1>6, <1>7, <1>8, <1>9, <1>10 DEF ClosedWalk

LEMMA BackEdgeStep ==
  ASSUME IInv, NEW m \in Names, BackEdge(m)
  PROVE  Typed' /\ Searching'
<1>1. at \in Searches /\ frames # <<>> /\ m \in Top.todo \cap Nodes /\ color[m] = "grey"
  BY DEF BackEdge, Searches
<1>2. Nodes' = Nodes /\ Edges' = Edges BY DEF BackEdge, Nodes, Edges
<1>3. /\ UNCHANGED <<wf, at, verdict, color>>
      /\ cycle' = IF cycle = <<>> THEN CycleTo(m) ELSE cycle
      /\ frames' = [frames EXCEPT ![Len(frames)] = [node |-> Top.node, todo |-> {}]]
  BY DEF BackEdge
<1>4. CycleTo(m) \in Seq(Nodes) /\ CycleTo(m) # <<>> /\ ClosedWalk(CycleTo(m), Edges)
  BY <1>1, PathCloses
<1>5. FoundIsReal' /\ cycle' # <<>>
  BY <1>1, <1>2, <1>3, <1>4, TopFacts DEF FoundIsReal
<1> DEFINE L == Len(frames)
<1>6. L \in Nat /\ L > 0 /\ Top = frames[L] /\ Top \in FrameSet BY <1>1, TopFacts
<1>7. /\ frames' \in Seq(FrameSet) /\ Len(frames') = L
      /\ \A i \in 1..L : frames'[i].node = frames[i].node
      /\ \A i \in 1..L : frames'[i].todo \subseteq frames[i].todo
  <2>1. [node |-> Top.node, todo |-> {}] \in FrameSet BY <1>6 DEF FrameSet
  <2>2. frames' \in Seq(FrameSet) /\ Len(frames') = L
    BY <1>1, <1>3, <1>6, <2>1, TopFacts DEF Typed
  <2>3. \A i \in 1..L : frames'[i] = IF i = L THEN [node |-> Top.node, todo |-> {}] ELSE frames[i]
    BY <1>1, <1>3, TopFacts DEF Typed
  <2> QED BY <2>2, <2>3, <1>6
<1>8. Typed' BY <1>1, <1>3, <1>7, TopFacts DEF Typed, DefinitionTyped
<1>9. StackIsPath' BY <1>1, <1>2, <1>3, <1>6, <1>7, TopFacts DEF StackIsPath
<1>10. NothingMissed' BY <1>5 DEF NothingMissed
<1> QED BY <1>5, <1>8, <1>9, <1>10 DEF Searching

(* A node all of whose neighbours are finished is the last of any set of    *)
(* finished nodes it joins.                                                 *)
LEMMA BlackenStep ==
  ASSUME IInv, Blacken
  PROVE  Typed' /\ Searching'
<1>1. at \in Searches /\ frames # <<>> /\ Top.todo = {} BY DEF Blacken
<1>2. Nodes' = Nodes /\ Edges' = Edges BY DEF Blacken, Nodes, Edges
<1>3. /\ UNCHANGED <<wf, at, verdict, cycle>>
      /\ color' = [color EXCEPT ![Top.node] = "black"]
      /\ frames' = SubSeq(frames, 1, Len(frames) - 1)
  BY DEF Blacken, WithoutTop
<1> DEFINE L == Len(frames)
           n == Top.node
<1>4. L \in Nat /\ L > 0 /\ Top = frames[L] /\ n \in Nodes /\ n \in Names /\ frames \in Seq(FrameSet)
  BY <1>1, TopFacts DEF Typed
<1>5. /\ frames' \in Seq(FrameSet) /\ Len(frames') = L - 1
      /\ \A i \in 1..(L - 1) : frames'[i] = frames[i]
  <2>1. L - 1 \in Int /\ 1 \in Int /\ (1 <= L - 1 => (L - 1) - 1 + 1 = L - 1)
    BY <1>4
  <2>2. \A i \in 1..(L - 1) : frames[i] \in FrameSet BY <1>4
  <2>3. /\ frames' \in Seq(FrameSet)
        /\ Len(frames') = IF 1 <= L - 1 THEN (L - 1) - 1 + 1 ELSE 0
        /\ \A i \in 1..((L - 1) - 1 + 1) : frames'[i] = frames[1 + i - 1]
    <3> HIDE DEF L
    <3> QED BY <1>3, <2>1, <2>2, SubSeqProperties DEF L
  <2> HIDE DEF L
  <2>4. Len(frames') = L - 1 /\ (L - 1) - 1 + 1 = L - 1 BY <1>4, <2>3
  <2>5. \A i \in 1..(L - 1) : 1 + i - 1 = i OBVIOUS
  <2> QED BY <2>3, <2>4, <2>5
<1>6. \A x \in Nodes : color'[x] = IF x = n THEN "black" ELSE color[x]
  BY <1>1, <1>3, <1>4, TopFacts DEF Typed
<1>7. Typed'
  BY <1>1, <1>3, <1>4, <1>5, TopFacts DEF Typed, DefinitionTyped
<1>8. Black' = Black \cup {n} BY <1>2, <1>4, <1>6 DEF Black
<1>9. n \notin Black BY <1>1, TopFacts DEF Black
<1>10. \A i \in 1..(L - 1) : frames[i].node # n
  BY <1>1, <1>4, TopFacts DEF StackIsPath
<1>11. StackIsPath'
  <2>1. \A i \in 1..(L - 1) :
          /\ frames'[i].node \in Nodes
          /\ frames'[i].todo \subseteq Edges[frames'[i].node]
          /\ color'[frames'[i].node] = "grey"
    BY <1>1, <1>4, <1>5, <1>6, <1>10, TopFacts DEF StackIsPath
  <2>2. \A i, k \in 1..(L - 1) : frames'[i].node = frames'[k].node => i = k
    BY <1>1, <1>4, <1>5, TopFacts DEF StackIsPath
  <2>3. \A x \in Nodes : color'[x] = "grey" => \E i \in 1..(L - 1) : frames'[i].node = x
    <3> SUFFICES ASSUME NEW x \in Nodes, color'[x] = "grey"
                 PROVE  \E i \in 1..(L - 1) : frames'[i].node = x
      OBVIOUS
    <3>1. x # n /\ color[x] = "grey" BY <1>6
    <3>2. PICK i \in 1..L : frames[i].node = x BY <3>1, <1>1, TopFacts DEF StackIsPath
    <3>3. i # L BY <3>1, <3>2, <1>4
    <3> QED BY <3>2, <3>3, <1>4, <1>5
  <2>4. \A i \in 1..((L - 1) - 1) : frames'[i + 1].node \in Edges[frames'[i].node]
    BY <1>1, <1>4, <1>5, TopFacts DEF StackIsPath
  <2> QED BY <1>2, <1>5, <2>1, <2>2, <2>3, <2>4 DEF StackIsPath
<1>12. NothingMissed'
  <2> SUFFICES ASSUME cycle = <<>> PROVE NothingMissed' BY <1>3 DEF NothingMissed
  <2>1. /\ \A i \in 1..L : \A x \in (Edges[frames[i].node] \ frames[i].todo) \cap Nodes :
             color[x] = "black" \/ (i < L /\ x = frames[i + 1].node)
        /\ \A x \in Black : Edges[x] \cap Nodes \subseteq Black
        /\ Acyclic(Black, Edges)
    BY <1>1, TopFacts DEF NothingMissed
  <2>2. \A x \in Edges[n] \cap Nodes : color[x] = "black"
    BY <2>1, <1>1, <1>4
  <2>3. Edges[n] \cap Nodes \subseteq Black BY <2>2 DEF Black
  <2>4. \A i \in 1..(L - 1) : \A x \in (Edges[frames'[i].node] \ frames'[i].todo) \cap Nodes :
          color'[x] = "black" \/ (i < L - 1 /\ x = frames'[i + 1].node)
    <3> SUFFICES ASSUME NEW i \in 1..(L - 1),
                        NEW x \in (Edges[frames'[i].node] \ frames'[i].todo) \cap Nodes
                 PROVE  color'[x] = "black" \/ (i < L - 1 /\ x = frames'[i + 1].node)
      OBVIOUS
    <3>1. color[x] = "black" \/ x = frames[i + 1].node BY <2>1, <1>4, <1>5
    <3>2. CASE i = L - 1 BY <3>1, <3>2, <1>4, <1>6
    <3>3. CASE i < L - 1 BY <3>1, <3>3, <1>4, <1>5, <1>6
    <3> QED BY <3>2, <3>3, <1>4
  <2>5. \A x \in Black \cup {n} : Edges[x] \cap Nodes \subseteq Black \cup {n}
    BY <2>1, <2>3
  <2>6. Acyclic(Black \cup {n}, Edges)
    <3> SUFFICES ASSUME NEW S \in SUBSET (Black \cup {n}), S # {}
                 PROVE  \E x \in S : Edges[x] \cap S = {}
      BY DEF Acyclic
    <3>1. CASE S \cap Black = {}
      <4>1. S = {n} BY <3>1
      <4>2. Edges[n] \cap {n} = {} BY <2>3, <1>4, <1>9
      <4> QED BY <4>1, <4>2
    <3>2. CASE S \cap Black # {}
      <4>1. PICK x \in S \cap Black : Edges[x] \cap (S \cap Black) = {}
        BY <3>2, <2>1 DEF Acyclic
      <4>2. S \subseteq Nodes BY <1>4 DEF Black
      <4>3. Edges[x] \cap S \subseteq Black BY <4>1, <4>2, <2>1
      <4> QED BY <4>1, <4>3
    <3> QED BY <3>1, <3>2
  <2> QED BY <2>4, <2>5, <2>6, <1>2, <1>5, <1>8 DEF NothingMissed
<1>13. FoundIsReal' BY <1>1, <1>2, <1>3, TopFacts DEF FoundIsReal
<1> QED BY <1>7, <1>11, <1>12, <1>13 DEF Searching

(* A file that a check refuses for another reason than a cycle.             *)
Refused ==
  /\ at' = "done"
  /\ verdict' \notin {"none", "accepted", "cycle", "group_cycle"}
  /\ UNCHANGED <<wf, search>>

LEMMA RefusedStep == IInv /\ Refused => IInv'
<1> SUFFICES ASSUME IInv, Refused PROVE IInv' OBVIOUS
<1>1. Typed' BY DEF IInv, Refused, Typed, DefinitionTyped, Places, search
<1>2. at' = "done" /\ verdict' \notin {"accepted", "cycle", "group_cycle"} BY DEF Refused
<1>3. Established'
  BY <1>2 DEF Established, Reached, AfterReferences, AfterJobs, BetweenSearches,
              AfterGroups, AfterJumps
<1> QED BY <1>1, <1>2, <1>3 DEF IInv, BeforeSearches, BetweenSearches, Searches

(* A check that passes outside the searches, none of the results it leads   *)
(* to being new.                                                            *)
Passed ==
  /\ at # "done" /\ at \notin Searches
  /\ verdict' = verdict
  /\ UNCHANGED <<wf, search>>

LEMMA PassedStep ==
  ASSUME IInv, Passed, at' \in Places, at' # "done", Established',
         at' \in BeforeSearches \cup BetweenSearches \cup Searches
         => at \in BeforeSearches \cup BetweenSearches
  PROVE  IInv'
<1>1. verdict' = "none" BY DEF IInv, Typed, Passed
<1>2. Typed' BY <1>1 DEF IInv, Passed, Typed, DefinitionTyped, search
<1>3. at' \in BeforeSearches \cup BetweenSearches \cup Searches => Fresh'
  BY DEF IInv, Passed, Fresh, search
<1>4. at' \in Searches => Searching'
  <2>1. Fresh' /\ Typed' => Searching' BY FreshSearches, PTL
  <2> QED BY <1>2, <1>3, <2>1
<1> QED BY <1>1, <1>2, <1>3, <1>4 DEF IInv, Fresh, Searches

LEMMA InitEstablishes == LoaderInit => IInv
<1> SUFFICES ASSUME LoaderInit PROVE IInv OBVIOUS
<1>1. Typed
  BY DefinitionsAssumption DEF LoaderInit, Typed, DefinitionTyped, White, Places, BeforeSearches
<1>2. Established
  BY DEF LoaderInit, Established, Reached, AfterReferences, AfterJobs, BetweenSearches,
         AfterGroups, AfterJumps
<1> QED BY <1>1, <1>2 DEF LoaderInit, IInv, Fresh, Searches

(* The checks before the searches.                                          *)
LEMMA EarlyStep ==
  ASSUME IInv,
         CheckYaml \/ CheckSchema \/ CheckStepIds \/ CheckSkills \/ CheckOnReturn
         \/ CheckOnOutput \/ CheckGotoStep \/ CheckConstraints
  PROVE  IInv'
<1>1. at \in BeforeSearches /\ UNCHANGED <<wf, search>>
  BY DEF CheckYaml, CheckSchema, CheckStepIds, CheckSkills, CheckOnReturn, CheckOnOutput,
         CheckGotoStep, CheckConstraints, Check, BeforeSearches
<1>2. Refused \/ (at' \in BeforeSearches /\ verdict' = verdict)
  BY DEF CheckYaml, CheckSchema, CheckStepIds, CheckSkills, CheckOnReturn, CheckOnOutput,
         CheckGotoStep, CheckConstraints, Check, BeforeSearches, Refused
<1>3. CASE Refused BY <1>3, RefusedStep
<1>4. CASE at' \in BeforeSearches /\ verdict' = verdict
  <2>1. Passed BY <1>1, <1>4 DEF Passed, BeforeSearches, Searches
  <2>2. verdict' = "none" BY <2>1 DEF Passed, IInv, Typed
  <2>3. Established'
    BY <1>4, <2>2 DEF Established, Reached, BeforeSearches, AfterReferences, AfterJobs,
                      BetweenSearches, AfterGroups, AfterJumps
  <2> QED BY <1>1, <1>4, <2>1, <2>3, PassedStep DEF Places, BeforeSearches
<1> QED BY <1>2, <1>3, <1>4

LEMMA NormalizeStep ==
  ASSUME IInv, Normalize
  PROVE  IInv'
<1>1. /\ at = "normalize" /\ at' = "step_ids" /\ verdict' = verdict /\ verdict = "none"
      /\ UNCHANGED search
  BY DEF Normalize, IInv, Typed
<1>2. DefinitionTyped' BY DEF IInv, Typed, DefinitionTyped, Normalize
<1>3. Typed' BY <1>1, <1>2 DEF IInv, Typed, Places, BeforeSearches, search
<1>4. Fresh' BY <1>1 DEF IInv, Fresh, BeforeSearches, search
<1>5. Established'
  BY <1>1 DEF Established, Reached, AfterReferences, AfterJobs, BetweenSearches,
              AfterGroups, AfterJumps
<1> QED BY <1>1, <1>3, <1>4, <1>5 DEF IInv, BeforeSearches, BetweenSearches, Searches

LEMMA ReferencesStep ==
  ASSUME IInv, CheckReferences
  PROVE  IInv'
<1>1. at = "references" /\ UNCHANGED <<wf, search>> BY DEF CheckReferences, Check
<1>2. Refused \/ (at' = "job_cycles" /\ verdict' = verdict /\ validateNeedsReferences(wf))
  BY DEF CheckReferences, Check, Refused
<1>3. CASE Refused BY <1>3, RefusedStep
<1>4. CASE at' = "job_cycles" /\ verdict' = verdict /\ validateNeedsReferences(wf)
  <2>1. Passed BY <1>1, <1>4 DEF Passed, Searches
  <2>2. verdict' = "none" BY <2>1 DEF Passed, IInv, Typed
  <2>3. \A j \in wf.jobs : wf.needs[j] \subseteq wf.jobs
    BY <1>4 DEF validateNeedsReferences
  <2>4. Established'
    BY <1>1, <1>4, <2>2, <2>3 DEF Established, Reached, AfterReferences, AfterJobs,
                      BetweenSearches, AfterGroups, AfterJumps
  <2> QED BY <1>1, <1>4, <2>1, <2>4, PassedStep
          DEF Places, BeforeSearches, AfterReferences
<1> QED BY <1>2, <1>3, <1>4

(* The checks between the two searches.                                     *)
LEMMA MiddleStep ==
  ASSUME IInv, CheckTraverse \/ CheckGroupReferences \/ CheckGroupNeeds
  PROVE  IInv'
<1>1. at \in BetweenSearches /\ UNCHANGED <<wf, search>>
  BY DEF CheckTraverse, CheckGroupReferences, CheckGroupNeeds, Check, BetweenSearches
<1>2. Refused \/ (at' \in BetweenSearches \cup {"group_cycles"} /\ verdict' = verdict)
  BY DEF CheckTraverse, CheckGroupReferences, CheckGroupNeeds, Check, BetweenSearches, Refused
<1>3. CASE Refused BY <1>3, RefusedStep
<1>4. CASE at' \in BetweenSearches \cup {"group_cycles"} /\ verdict' = verdict
  <2>1. Passed BY <1>1, <1>4 DEF Passed, BetweenSearches, Searches
  <2>2. verdict' = "none" /\ verdict = "none"
    BY <1>1, <2>1 DEF Passed, IInv, Typed, BetweenSearches
  <2>3. Acyclic(wf.jobs, wf.needs) /\ \A j \in wf.jobs : wf.needs[j] \subseteq wf.jobs
    BY <1>1 DEF IInv, Established, Reached, AfterReferences, AfterJobs
  <2>4. Established'
    BY <1>1, <1>4, <2>2, <2>3 DEF Established, Reached, AfterGroups, AfterJumps, BetweenSearches
  <2> QED BY <1>1, <1>4, <2>1, <2>4, PassedStep
          DEF Places, BetweenSearches, AfterReferences, AfterJobs
<1> QED BY <1>2, <1>3, <1>4

(* A step of a search keeps what the checks before it established.          *)
LEMMA SearchStep ==
  ASSUME IInv, at \in Searches, Typed', Searching', UNCHANGED <<wf, at, verdict>>,
         at = "group_cycles" => cycle' = <<>>
  PROVE  IInv'
<1>1. Established' BY DEF IInv, Established, Reached
<1>2. verdict' = "none" BY DEF IInv, Typed, Searches
<1> QED BY <1>1, <1>2 DEF IInv, Searches, BeforeSearches, BetweenSearches

LEMMA WalkStep ==
  ASSUME IInv,
         \/ \E n \in Nodes : StartAt(n)
         \/ \E m \in Names : Descend(m) \/ SkipFinished(m) \/ BackEdge(m)
         \/ Blacken
  PROVE  IInv'
<1>1. at \in Searches /\ UNCHANGED <<wf, at, verdict>>
  BY DEF StartAt, Descend, SkipFinished, BackEdge, Blacken, Searches
<1>2. Typed' /\ Searching'
  BY StartStep, DescendStep, SkipStep, BackEdgeStep, BlackenStep
<1>3. at = "group_cycles" => cycle' = <<>>
  BY DEF IInv, StartAt, Descend, SkipFinished, BackEdge, Blacken
<1> QED BY <1>1, <1>2, <1>3, SearchStep

(* When every job is black, either none waits in a circle or one is known.  *)
LEMMA JobsSearchedStep ==
  ASSUME IInv, JobsSearched
  PROVE  IInv'
<1>1. /\ at = "job_cycles" /\ frames = <<>> /\ (\A n \in Nodes : color[n] = "black")
      /\ color' = White /\ UNCHANGED <<wf, frames, cycle>>
  BY DEF JobsSearched, Searched
<1>2. Nodes = wf.jobs /\ Edges = wf.needs BY <1>1 DEF Nodes, Edges
<1>3. Typed /\ Searching /\ verdict = "none" BY <1>1 DEF IInv, Typed, Searches
<1>4. White \in [Names -> {"white", "grey", "black"}] BY DEF White
<1>5. CASE cycle = <<>>
  <2>1. at' = "traverse" /\ verdict' = "none" BY <1>3, <1>5 DEF JobsSearched
  <2>2. Black = wf.jobs BY <1>1, <1>2 DEF Black
  <2>3. Acyclic(wf.jobs, wf.needs) BY <1>2, <1>3, <1>5, <2>2 DEF Searching, NothingMissed
  <2>4. \A j \in wf.jobs : wf.needs[j] \subseteq wf.jobs
    BY <1>1 DEF IInv, Established, Reached, AfterReferences
  <2>5. Established'
    BY <1>1, <2>1, <2>3, <2>4 DEF Established, Reached, AfterGroups, AfterJumps
  <2>6. Typed'
    BY <1>1, <1>3, <1>4, <2>1
    DEF Typed, DefinitionTyped, Places, AfterReferences, AfterJobs, BetweenSearches
  <2>7. Fresh' BY <1>1, <1>5 DEF Fresh, White
  <2> QED BY <2>1, <2>5, <2>6, <2>7 DEF IInv, Searches
<1>6. CASE cycle # <<>>
  <2>1. at' = "done" /\ verdict' = "cycle" BY <1>6 DEF JobsSearched
  <2>2. cycle' \in Seq(wf'.jobs) /\ ClosedWalk(cycle', wf'.needs)
    BY <1>1, <1>2, <1>3, <1>6 DEF Searching, FoundIsReal, ClosedWalk
  <2>3. Established'
    BY <2>1 DEF Established, Reached, AfterReferences, AfterJobs, BetweenSearches,
                AfterGroups, AfterJumps
  <2>4. Typed' BY <1>1, <1>3, <1>4, <2>1 DEF Typed, DefinitionTyped, Places
  <2> QED BY <2>1, <2>2, <2>3, <2>4 DEF IInv, Searches, BeforeSearches, BetweenSearches
<1> QED BY <1>5, <1>6

LEMMA GroupBackEdgeStep ==
  ASSUME IInv, NEW m \in Names, GroupBackEdge(m)
  PROVE  IInv'
<1>1. /\ at = "group_cycles" /\ frames # <<>> /\ m \in Top.todo \cap Nodes
      /\ color[m] = "grey" /\ cycle' = CycleTo(m) /\ at' = "done"
      /\ verdict' = "group_cycle" /\ UNCHANGED <<wf, color, frames>>
  BY DEF GroupBackEdge
<1>2. Nodes = wf.groups /\ Edges = wf.group_needs BY <1>1 DEF Nodes, Edges
<1>3. CycleTo(m) \in Seq(Nodes) /\ ClosedWalk(CycleTo(m), Edges)
  BY <1>1, PathCloses DEF Searches
<1>4. cycle' \in Seq(wf'.groups) /\ ClosedWalk(cycle', wf'.group_needs)
  BY <1>1, <1>2, <1>3 DEF ClosedWalk
<1>5. Typed' BY <1>1 DEF IInv, Typed, DefinitionTyped, Places
<1>6. Established'
  BY <1>1 DEF Established, Reached, AfterReferences, AfterJobs, BetweenSearches,
              AfterGroups, AfterJumps
<1> QED BY <1>1, <1>4, <1>5, <1>6 DEF IInv, Searches, BeforeSearches, BetweenSearches

LEMMA GroupsSearchedStep ==
  ASSUME IInv, GroupsSearched
  PROVE  IInv'
<1>1. /\ at = "group_cycles" /\ at' = "group_jumps" /\ verdict' = verdict
      /\ (\A n \in Nodes : color[n] = "black") /\ UNCHANGED <<wf, search>>
  BY DEF GroupsSearched, Searched
<1>2. Nodes = wf.groups /\ Edges = wf.group_needs BY <1>1 DEF Nodes, Edges
<1>3. Searching /\ cycle = <<>> /\ verdict = "none" BY <1>1 DEF IInv, Typed, Searches
<1>4. Black = wf.groups BY <1>1, <1>2 DEF Black
<1>5. Acyclic(wf.groups, wf.group_needs) BY <1>2, <1>3, <1>4 DEF Searching, NothingMissed
<1>6. Acyclic(wf.jobs, wf.needs) /\ \A j \in wf.jobs : wf.needs[j] \subseteq wf.jobs
  BY <1>1 DEF IInv, Established, Reached, AfterReferences, AfterJobs
<1>7. Established' BY <1>1, <1>3, <1>5, <1>6 DEF Established, Reached, AfterJumps
<1>8. Typed'
  BY <1>1, <1>3 DEF IInv, Typed, DefinitionTyped, search, Places, AfterReferences, AfterJobs,
                    AfterGroups
<1> QED BY <1>1, <1>3, <1>7, <1>8 DEF IInv, Searches, BeforeSearches, BetweenSearches

(* The checks after the searches; the first of them looks for jumps.        *)
LEMMA LateStep ==
  ASSUME IInv,
         CheckGroupJumps \/ CheckWriters \/ validateExpressions \/ CheckTriggers \/ CheckHuman
  PROVE  IInv'
<1>1. at \in AfterGroups /\ UNCHANGED <<wf, search>>
  BY DEF CheckGroupJumps, CheckWriters, validateExpressions, CheckTriggers, CheckHuman, Check,
         AfterGroups, AfterJumps
<1>2. \/ Refused
      \/ at' \in AfterJumps /\ verdict' = verdict
         /\ (at = "group_jumps" \/ at \in AfterJumps)
  BY DEF CheckGroupJumps, CheckWriters, validateExpressions, CheckTriggers, CheckHuman, Check,
         AfterJumps, Refused
<1>3. CASE Refused BY <1>3, RefusedStep
<1>4. CASE at' \in AfterJumps /\ verdict' = verdict
  <2>1. Passed BY <1>1, <1>4 DEF Passed, AfterGroups, AfterJumps, Searches
  <2>2. /\ \A j \in wf.jobs : wf.needs[j] \subseteq wf.jobs
        /\ Acyclic(wf.jobs, wf.needs) /\ Acyclic(wf.groups, wf.group_needs)
    BY <1>1 DEF IInv, Established, Reached, AfterReferences, AfterJobs
  <2>3. \A j \in wf.jobs : wf.group[j] # {} =>
          \A i \in DOMAIN wf.steps[j] : Jumps(wf.steps[j][i]) = {}
    <3>1. CASE at \in AfterJumps BY <3>1 DEF IInv, Established, Reached
    <3>2. CASE at = "group_jumps"
      <4>1. CheckGroupJumps
        BY <3>2 DEF CheckWriters, validateExpressions, CheckTriggers, CheckHuman, Check
      <4>2. at' # "done" BY <1>4 DEF AfterJumps
      <4> QED BY <4>1, <4>2 DEF CheckGroupJumps, Check
    <3> QED BY <1>1, <3>1, <3>2 DEF AfterGroups
  <2>4. wf' = wf BY <1>1
  <2>5. Established'
    <3> HIDE DEF Acyclic, Jumps
    <3> QED BY <2>2, <2>3, <2>4 DEF Established, Acyclic, Jumps
  <2> QED BY <1>4, <2>1, <2>5, PassedStep
          DEF Places, AfterReferences, AfterJobs, AfterGroups, AfterJumps, BeforeSearches,
              BetweenSearches, Searches
<1> QED BY <1>2, <1>3, <1>4

LEMMA MigrateStep ==
  ASSUME IInv, MigrateInputs
  PROVE  IInv'
<1>1. /\ at = "manual_inputs" /\ at' = "human" /\ verdict' = verdict /\ verdict = "none"
      /\ UNCHANGED search
  BY DEF MigrateInputs, IInv, Typed
<1>2. /\ DefinitionTyped'
      /\ wf'.jobs = wf.jobs /\ wf'.needs = wf.needs /\ wf'.groups = wf.groups
      /\ wf'.group_needs = wf.group_needs /\ wf'.group = wf.group /\ wf'.steps = wf.steps
  BY DEF IInv, Typed, DefinitionTyped, MigrateInputs
<1>3. Typed'
  BY <1>1, <1>2 DEF IInv, Typed, Places, AfterReferences, AfterJobs, AfterGroups, AfterJumps,
                    search
<1>4. /\ \A j \in wf.jobs : wf.needs[j] \subseteq wf.jobs
      /\ Acyclic(wf.jobs, wf.needs) /\ Acyclic(wf.groups, wf.group_needs)
      /\ \A j \in wf.jobs : wf.group[j] # {} =>
           \A i \in DOMAIN wf.steps[j] : Jumps(wf.steps[j][i]) = {}
  BY <1>1 DEF IInv, Established, Reached, AfterReferences, AfterJobs, AfterGroups, AfterJumps
<1>5. Established'
  BY <1>2, <1>4 DEF Established, Acyclic, Jumps
<1> QED BY <1>1, <1>3, <1>5 DEF IInv, Searches, BeforeSearches, BetweenSearches

LEMMA AcceptStep ==
  ASSUME IInv, Accept
  PROVE  IInv'
<1>1. at = "deprecations" /\ at' = "done" /\ verdict' = "accepted" /\ UNCHANGED <<wf, search>>
  BY DEF Accept
<1>2. /\ \A j \in wf.jobs : wf.needs[j] \subseteq wf.jobs
      /\ Acyclic(wf.jobs, wf.needs) /\ Acyclic(wf.groups, wf.group_needs)
      /\ \A j \in wf.jobs : wf.group[j] # {} =>
           \A i \in DOMAIN wf.steps[j] : Jumps(wf.steps[j][i]) = {}
  BY <1>1 DEF IInv, Established, Reached, AfterReferences, AfterJobs, AfterGroups, AfterJumps
<1>3. Established' BY <1>1, <1>2 DEF Established, Acyclic, Jumps
<1>4. Typed' BY <1>1 DEF IInv, Typed, DefinitionTyped, Places, search
<1> QED BY <1>1, <1>3, <1>4 DEF IInv, Searches, BeforeSearches, BetweenSearches

LEMMA StutterStep ==
  ASSUME IInv, UNCHANGED loaderVars
  PROVE  IInv'
<1> USE DEF loaderVars
<1>1. Typed' BY DEF IInv, Typed, DefinitionTyped
<1>2. Established' BY DEF IInv, Established, Reached, Acyclic, Jumps
<1>3. (at \in BeforeSearches \cup BetweenSearches => Fresh)' BY DEF IInv, Fresh
<1>4. (at \in Searches => Searching)'
  <2>1. Nodes' = Nodes /\ Edges' = Edges BY DEF Nodes, Edges
  <2>2. Black' = Black BY <2>1 DEF Black
  <2> QED BY <2>1, <2>2 DEF IInv, Searching, StackIsPath, NothingMissed, FoundIsReal
<1> QED BY <1>1, <1>2, <1>3, <1>4 DEF IInv

LEMMA Inductive == IInv /\ [LoaderNext]_loaderVars => IInv'
<1> SUFFICES ASSUME IInv, [LoaderNext]_loaderVars PROVE IInv' OBVIOUS
<1>1. CASE UNCHANGED loaderVars BY <1>1, StutterStep
<1>2. CASE LoaderNext
  <2>1. \/ CheckYaml \/ CheckSchema \/ CheckStepIds \/ CheckSkills \/ CheckOnReturn
        \/ CheckOnOutput \/ CheckGotoStep \/ CheckConstraints
        \/ Normalize \/ CheckReferences
        \/ \/ \E n \in Nodes : StartAt(n)
           \/ \E m \in Names : Descend(m) \/ SkipFinished(m) \/ BackEdge(m)
           \/ Blacken
        \/ \E m \in Names : GroupBackEdge(m)
        \/ JobsSearched \/ GroupsSearched
        \/ CheckTraverse \/ CheckGroupReferences \/ CheckGroupNeeds
        \/ CheckGroupJumps \/ CheckWriters \/ validateExpressions \/ CheckTriggers \/ CheckHuman
        \/ MigrateInputs \/ Accept
    BY <1>2 DEF LoaderNext
  <2> QED
    BY <2>1, EarlyStep, NormalizeStep, ReferencesStep, WalkStep, GroupBackEdgeStep,
       JobsSearchedStep, GroupsSearchedStep, MiddleStep, LateStep, MigrateStep, AcceptStep
<1> QED BY <1>1, <1>2

LEMMA Invariance == LoaderSpec => []IInv
BY InitEstablishes, Inductive, PTL DEF LoaderSpec

-----------------------------------------------------------------------------
(* An accepted workflow has no circle of jobs and none of groups, however   *)
(* many there are and in whatever order the search meets them; its needs    *)
(* are jobs and the members of its groups do not jump (loadWorkflow).       *)
THEOREM AcceptedRunnable == LoaderSpec => []AcceptedIsRunnable
<1>1. IInv => AcceptedIsRunnable
  BY DEF IInv, Established, Reached, AcceptedIsRunnable
<1> QED BY <1>1, Invariance, PTL

(* The path a refusal reports is a circle of the file (detectCycles,        *)
(* detectGroupDagCycles).                                                   *)
THEOREM ReportedCycleReal == LoaderSpec => []CycleIsReal
<1>1. IInv => CycleIsReal
  BY DEF IInv, CycleIsReal, ClosedWalk
<1> QED BY <1>1, Invariance, PTL

(* No file without a circle is refused for one: the search decides.         *)
THEOREM NoFalseCycle ==
  LoaderSpec => [](/\ verdict = "cycle" => ~ Acyclic(wf.jobs, wf.needs)
                   /\ verdict = "group_cycle" => ~ Acyclic(wf.groups, wf.group_needs))
<1>1. IInv => /\ verdict = "cycle" => ~ Acyclic(wf.jobs, wf.needs)
              /\ verdict = "group_cycle" => ~ Acyclic(wf.groups, wf.group_needs)
  BY WalkIsCyclic DEF IInv
<1> QED BY <1>1, Invariance, PTL

(* Every step keeps the graphs, and a verdict is given once.                *)
LEMMA DecidedOnce ==
  ASSUME IInv, LoaderNext
  PROVE  /\ UNCHANGED Graph
         /\ verdict' = verdict \/ verdict = "none"
<1>1. UNCHANGED Graph
  BY DEF LoaderNext, CheckYaml, CheckSchema, Normalize, CheckStepIds, CheckSkills,
         CheckOnReturn, CheckOnOutput, CheckGotoStep, CheckConstraints, CheckReferences,
         StartAt, Descend, SkipFinished, BackEdge, GroupBackEdge, Blacken, JobsSearched,
         GroupsSearched, CheckTraverse, CheckGroupReferences, CheckGroupNeeds,
         CheckGroupJumps, CheckWriters, validateExpressions, CheckTriggers, MigrateInputs,
         CheckHuman, Accept, Check, Graph, IInv, Typed, DefinitionTyped
<1>2. at # "done"
  BY DEF LoaderNext, CheckYaml, CheckSchema, Normalize, CheckStepIds, CheckSkills,
         CheckOnReturn, CheckOnOutput, CheckGotoStep, CheckConstraints, CheckReferences,
         StartAt, Descend, SkipFinished, BackEdge, GroupBackEdge, Blacken, JobsSearched,
         GroupsSearched, CheckTraverse, CheckGroupReferences, CheckGroupNeeds,
         CheckGroupJumps, CheckWriters, validateExpressions, CheckTriggers, MigrateInputs,
         CheckHuman, Accept, Check, Searches
<1> QED BY <1>1, <1>2 DEF IInv, Typed

(* loadWorkflow keeps the promise of Gate: a refinement, for every file.    *)
THEOREM LoaderImplementsGate == LoaderSpec => ImplementsGate
<1>1. LoaderInit => Promise!GateInit
  BY DEF LoaderInit, Promise!GateInit, Decision
<1>2. IInv /\ IInv' /\ [LoaderNext]_loaderVars => [Promise!GateNext]_(Promise!gateVars)
  <2> SUFFICES ASSUME IInv, IInv', [LoaderNext]_loaderVars
               PROVE  [Promise!GateNext]_(Promise!gateVars)
    OBVIOUS
  <2>1. CASE UNCHANGED loaderVars
    BY <2>1 DEF loaderVars, Promise!gateVars, Graph, Decision
  <2>2. CASE LoaderNext
    <3>1. UNCHANGED Graph BY <2>2, DecidedOnce
    <3>2. CASE verdict' = verdict
      BY <3>1, <3>2 DEF Promise!gateVars, Decision
    <3>3. CASE verdict = "none" /\ verdict' # "none"
      <4>1. Decision = "open" BY <3>3 DEF Decision
      <4>2. wf'.jobs = wf.jobs /\ wf'.needs = wf.needs
            /\ wf'.groups = wf.groups /\ wf'.group_needs = wf.group_needs
        BY <3>1 DEF Graph
      <4>3. CASE verdict' = "accepted"
        <5>1. Acyclic(wf'.jobs, wf'.needs) /\ Acyclic(wf'.groups, wf'.group_needs)
          BY <4>3 DEF IInv, Established, Reached
        <5>2. Acyclic(wf.jobs, wf.needs) /\ Acyclic(wf.groups, wf.group_needs)
          BY <5>1, <4>2 DEF Acyclic
        <5>3. Decision' = "in" BY <4>3 DEF Decision
        <5> QED BY <4>1, <5>2, <5>3, <3>1
                DEF Promise!GateNext, Promise!LetIn, Promise!Decide, Promise!JobsGrounded,
                    Promise!GroupsGrounded, Promise!Acyclic, Acyclic, Graph
      <4>4. CASE verdict' = "cycle"
        <5>1. ~ Acyclic(wf'.jobs, wf'.needs)
          BY <4>4, WalkIsCyclic DEF IInv
        <5>2. ~ Acyclic(wf.jobs, wf.needs) BY <5>1, <4>2 DEF Acyclic
        <5>3. Decision' = "cycle" BY <4>4 DEF Decision
        <5> QED BY <4>1, <5>2, <5>3, <3>1
                DEF Promise!GateNext, Promise!CycleOfJobs, Promise!Decide,
                    Promise!JobsGrounded, Promise!Acyclic, Acyclic, Graph
      <4>5. CASE verdict' = "group_cycle"
        <5>1. ~ Acyclic(wf'.groups, wf'.group_needs)
          BY <4>5, WalkIsCyclic DEF IInv
        <5>2. ~ Acyclic(wf.groups, wf.group_needs) BY <5>1, <4>2 DEF Acyclic
        <5>3. Decision' = "group_cycle" BY <4>5 DEF Decision
        <5> QED BY <4>1, <5>2, <5>3, <3>1
                DEF Promise!GateNext, Promise!CycleOfGroups, Promise!Decide,
                    Promise!GroupsGrounded, Promise!Acyclic, Acyclic, Graph
      <4>6. CASE verdict' \notin {"accepted", "cycle", "group_cycle"}
        <5>1. Decision' = "away" BY <4>6, <3>3 DEF Decision
        <5> QED BY <4>1, <5>1, <3>1 DEF Promise!GateNext, Promise!TurnAway, Promise!Decide
      <4> QED BY <4>3, <4>4, <4>5, <4>6
    <3> QED BY <2>2, <3>2, <3>3, DecidedOnce
  <2> QED BY <2>1, <2>2
<1> QED BY <1>1, <1>2, Invariance, PTL DEF LoaderSpec, ImplementsGate, Promise!GateSpec

=============================================================================
