------------------------ MODULE HeavyJobFairnessProofs ------------------------
(***************************************************************************)
(* The fair order, for any number of jobs, workspaces and slots: the loop  *)
(* of rotateByWorkspace, which shifts the first batch and pushes what is   *)
(* left of it, lists its candidates by turn and last service; the order of *)
(* the whole line is the declared one; and pruning the history never lets  *)
(* a standing backlog pass a workspace that was served before it.          *)
(*                                                                         *)
(* After every turn of the loop the batches that are left split what is    *)
(* not ordered yet (Split), their heads are in order and at most one turn  *)
(* apart, and the heads that are a turn ahead were served no later than    *)
(* the ones behind (InTurn).  Recursion over the turns is by a minimal     *)
(* counterexample: the number of turns is a natural number.                *)
(***************************************************************************)
EXTENDS HeavyJobFairness, FiniteSetTheorems, WellFoundedInduction, TLAPS

-----------------------------------------------------------------------------
(* Lists in an order.                                                      *)

\* `before` orders the members of S strictly, any two of them.
Orders(before, S) ==
  /\ \A x \in S : <<x, x>> \notin before
  /\ \A x, y \in S : x # y => <<x, y>> \in before \/ <<y, x>> \in before
  /\ \A x, y, z \in S : <<x, y>> \in before /\ <<y, z>> \in before => <<x, z>> \in before

\* s lists the members of S, each once, in the order.
ListsInOrder(s, S, before) ==
  /\ s \in [1..Cardinality(S) -> S]
  /\ \A x \in S : \E i \in 1..Cardinality(S) : s[i] = x
  /\ \A i, j \in 1..Cardinality(S) : i < j => <<s[i], s[j]>> \in before

\* InOrder, of an order that is a set of pairs.
Ranked(S, before) ==
  [i \in 1..Cardinality(S) |-> CHOOSE x \in S : Cardinality({y \in S : <<y, x>> \in before}) = i - 1]

LEMMA RankedLists ==
  ASSUME NEW S, IsFiniteSet(S), NEW before, Orders(before, S)
  PROVE  ListsInOrder(Ranked(S, before), S, before)
<1> DEFINE n == Cardinality(S)
           below(x) == {y \in S : <<y, x>> \in before}
           place == [x \in S |-> Cardinality(below(x))]
           s == Ranked(S, before)
<1>1. n \in Nat
  BY FS_CardinalityType
<1>2. \A x \in S : IsFiniteSet(below(x)) /\ Cardinality(below(x)) \in Nat /\ x \notin below(x)
  <2>1. \A x \in S : IsFiniteSet(below(x))
    BY FS_Subset
  <2>2. \A x \in S : x \notin below(x)
    BY DEF Orders
  <2> QED
    BY <2>1, <2>2, FS_CardinalityType
<1>3. ASSUME NEW x \in S, NEW y \in S, <<x, y>> \in before
      PROVE  Cardinality(below(x)) < Cardinality(below(y))
  <2>1. below(x) \cup {x} \subseteq below(y)
    BY <1>3 DEF Orders
  <2>2. Cardinality(below(x) \cup {x}) = Cardinality(below(x)) + 1
    <3> HIDE DEF below
    <3> QED
      BY <1>2, FS_AddElement
  <2>3. Cardinality(below(x) \cup {x}) <= Cardinality(below(y))
    <3> HIDE DEF below
    <3> QED
      BY <1>2, <2>1, FS_Subset
  <2> HIDE DEF below
  <2> QED
    BY <1>2, <2>2, <2>3
<1>4. ASSUME NEW x \in S
      PROVE  Cardinality(below(x)) \in 0..(n - 1)
  <2>1. Cardinality(below(x) \cup {x}) = Cardinality(below(x)) + 1
    <3> HIDE DEF below
    <3> QED
      BY <1>2, FS_AddElement
  <2>2. Cardinality(below(x) \cup {x}) <= n
    <3>1. below(x) \cup {x} \in SUBSET S
      OBVIOUS
    <3> QED
      BY <3>1, FS_Subset
  <2> HIDE DEF below, n
  <2> QED
    BY <1>1, <1>2, <2>1, <2>2
<1>5. place \in Surjection(S, 0..(n - 1))
  <2>1. place \in [S -> 0..(n - 1)]
    BY <1>4
  <2>2. \A x, y \in S : place[x] = place[y] => x = y
    <3>1. TAKE x, y \in S
    <3>2. HAVE place[x] = place[y]
    <3>3. SUFFICES ASSUME x # y PROVE FALSE
      OBVIOUS
    <3>4. <<x, y>> \in before \/ <<y, x>> \in before
      BY <3>3 DEF Orders
    <3>5. Cardinality(below(x)) = Cardinality(below(y))
      BY <3>2
    <3> HIDE DEF below
    <3> QED
      BY <1>2, <1>3, <3>4, <3>5
  <2>3. place \in Injection(S, 0..(n - 1))
    BY <2>1, <2>2 DEF Injection, IsInjective
  <2>4. IsFiniteSet(0..(n - 1)) /\ Cardinality(0..(n - 1)) = n
    <3> HIDE DEF n
    <3> QED
      BY <1>1, FS_Interval
  <2> HIDE DEF place
  <2> QED
    BY <2>3, <2>4, FS_Injection
<1>6. ASSUME NEW i \in 1..n
      PROVE  s[i] \in S /\ Cardinality(below(s[i])) = i - 1
  <2>1. i - 1 \in 0..(n - 1)
    BY <1>1
  <2>2. \E x \in S : place[x] = i - 1
    BY <1>5, <2>1 DEF Surjection
  <2>3. \E x \in S : Cardinality(below(x)) = i - 1
    BY <2>2
  <2>4. s[i] = CHOOSE x \in S : Cardinality(below(x)) = i - 1
    BY DEF Ranked
  <2> HIDE DEF s, below
  <2> QED
    BY <2>3, <2>4
<1>7. s \in [1..n -> S]
  <2> DEFINE nth(i) == CHOOSE x \in S : Cardinality({y \in S : <<y, x>> \in before}) = i - 1
  <2>1. s = [i \in 1..n |-> nth(i)]
    BY DEF Ranked
  <2> HIDE DEF nth
  <2>2. s = [i \in 1..n |-> s[i]]
    BY <2>1
  <2> HIDE DEF s
  <2> QED
    BY <1>6, <2>2
<1>8. \A x \in S : \E i \in 1..n : s[i] = x
  <2>1. TAKE x \in S
  <2> DEFINE i == Cardinality(below(x)) + 1
  <2>2. i \in 1..n
    BY <1>1, <1>4
  <2>3. s[i] \in S /\ Cardinality(below(s[i])) = Cardinality(below(x))
    <3> HIDE DEF s, below
    <3> QED
      BY <1>2, <1>6, <2>2
  <2>4. s[i] = x
    <3>1. SUFFICES ASSUME s[i] # x PROVE FALSE
      OBVIOUS
    <3>2. <<s[i], x>> \in before \/ <<x, s[i]>> \in before
      BY <2>3, <3>1 DEF Orders
    <3> HIDE DEF s, below, i
    <3> QED
      BY <1>2, <1>3, <2>3, <3>2
  <2> QED
    BY <2>2, <2>4
<1>9. \A i, j \in 1..n : i < j => <<s[i], s[j]>> \in before
  <2>1. TAKE i, j \in 1..n
  <2>2. HAVE i < j
  <2>3. /\ s[i] \in S /\ Cardinality(below(s[i])) = i - 1
        /\ s[j] \in S /\ Cardinality(below(s[j])) = j - 1
    BY <1>6
  <2> HIDE DEF s, below
  <2>4. s[i] # s[j]
    BY <1>1, <2>2, <2>3
  <2>5. ~ (<<s[j], s[i]>> \in before)
    BY <1>1, <1>3, <2>2, <2>3
  <2> QED
    BY <2>3, <2>4, <2>5 DEF Orders
<1> QED
  BY <1>7, <1>8, <1>9 DEF ListsInOrder

-----------------------------------------------------------------------------
(* The loop.                                                               *)

\* The recursive function of TakeTurns exists.
Turns(batches, n) ==
  LET turn[i \in 0..n] ==
        IF i = 0 THEN [batches |-> batches, ordered |-> <<>>]
                 ELSE CHOOSE next \in {Shift(st) : st \in {turn[i - 1]}} : TRUE
  IN  turn

LEMMA TurnsDefined ==
  ASSUME NEW b, NEW n \in Nat
  PROVE  /\ TakeTurns(b, n) = Turns(b, n)[n].ordered
         /\ Turns(b, n) = [i \in 0..n |-> IF i = 0 THEN [batches |-> b, ordered |-> <<>>]
                                                   ELSE Shift(Turns(b, n)[i - 1])]
<1> DEFINE Next1(st) == CHOOSE next \in {Shift(s) : s \in {st}} : TRUE
           Is(g, m) == g = [i \in 0..m |-> IF i = 0 THEN [batches |-> b, ordered |-> <<>>] ELSE Next1(g[i - 1])]
           Bad == {m \in Nat : ~ \E g : Is(g, m)}
<1>1. Bad = {}
  <2>1. SUFFICES ASSUME Bad # {} PROVE FALSE
    OBVIOUS
  <2>2. PICK m \in Bad : \A k \in Bad : ~ (<<k, m>> \in OpToRel(<, Nat))
    <3>1. Bad \subseteq Nat
      OBVIOUS
    <3> HIDE DEF Bad
    <3> QED
      BY <2>1, <3>1, NatLessThanWellFounded, WFMin
  <2>3. m \in Nat /\ ~ \E g : Is(g, m)
    BY <2>2
  <2>4. CASE m = 0
    <3>1. Is([i \in 0..0 |-> [batches |-> b, ordered |-> <<>>]], 0)
      OBVIOUS
    <3> QED
      BY <2>3, <2>4, <3>1
  <2>5. CASE m # 0
    <3>1. m - 1 \in Nat /\ <<m - 1, m>> \in OpToRel(<, Nat)
      BY <2>3, <2>5 DEF OpToRel
    <3>2. PICK g : Is(g, m - 1)
      BY <2>2, <3>1
    <3> DEFINE h == [i \in 0..m |-> IF i = m THEN Next1(g[m - 1]) ELSE g[i]]
    <3>3. \A i \in 0..(m - 1) : g[i] = IF i = 0 THEN [batches |-> b, ordered |-> <<>>] ELSE Next1(g[i - 1])
      BY <3>2
    <3>4. ASSUME NEW i \in 0..m
          PROVE  h[i] = IF i = 0 THEN [batches |-> b, ordered |-> <<>>] ELSE Next1(h[i - 1])
      <4>1. CASE i = m
        <5>1. h[i] = Next1(g[m - 1]) /\ h[i - 1] = g[m - 1]
          BY <2>3, <2>5, <4>1
        <5> QED
          BY <2>5, <4>1, <5>1
      <4>2. CASE i # m
        <5>1. i \in 0..(m - 1) /\ h[i] = g[i] /\ (i # 0 => h[i - 1] = g[i - 1])
          BY <2>3, <4>2
        <5> HIDE DEF h
        <5> QED
          BY <3>3, <5>1
      <4> QED
        BY <4>1, <4>2
    <3>5. Is(h, m)
      <4>1. h = [i \in 0..m |-> h[i]]
        OBVIOUS
      <4> HIDE DEF h
      <4> QED
        BY <3>4, <4>1
    <3> QED
      BY <2>3, <3>5
  <2> QED
    BY <2>4, <2>5
<1>2. \E g : Is(g, n)
  BY <1>1
<1>3. Is(Turns(b, n), n)
  <2>1. Turns(b, n) = CHOOSE g : Is(g, n)
    BY DEF Turns
  <2> QED
    BY <1>2, <2>1
<1>4. \A st : Next1(st) = Shift(st)
  OBVIOUS
<1>5. TakeTurns(b, n) = Turns(b, n)[n].ordered
  BY DEF TakeTurns, Turns
<1> HIDE DEF Next1
<1> QED
  BY <1>3, <1>4, <1>5

-----------------------------------------------------------------------------
(* The line and the lists of waiting jobs.                                 *)

LineOK == line \in Seq(Candidates) /\ IsInjective(line)

LEMMA Places ==
  ASSUME LineOK
  PROVE  /\ Waiting \subseteq Candidates /\ IsFiniteSet(Waiting) /\ Cardinality(Waiting) = Len(line)
         /\ \A j \in Waiting : Index(j) \in 1..Len(line) /\ line[Index(j)] = j
         /\ \A j, k \in Waiting : Index(j) = Index(k) => j = k
<1>1. Len(line) \in Nat /\ DOMAIN line = 1..Len(line) /\ \A i \in 1..Len(line) : line[i] \in Candidates
  BY DEF LineOK
<1>2. Waiting = {line[i] : i \in 1..Len(line)}
  BY <1>1 DEF Waiting, ToSet
<1>3. line \in [1..Len(line) -> Waiting]
  BY <1>1, <1>2 DEF LineOK
<1>4. line \in Surjection(1..Len(line), Waiting) /\ line \in Injection(1..Len(line), Waiting)
  BY <1>1, <1>2, <1>3 DEF Surjection, Injection, IsInjective, LineOK
<1>5. IsFiniteSet(1..Len(line)) /\ Cardinality(1..Len(line)) = Len(line)
  BY <1>1, FS_Interval
<1>6. IsFiniteSet(Waiting) /\ Cardinality(Waiting) = Len(line)
  BY <1>4, <1>5, FS_Surjection
<1>7. \A j \in Waiting : Index(j) \in 1..Len(line) /\ line[Index(j)] = j
  <2>1. TAKE j \in Waiting
  <2>2. \E i \in DOMAIN line : line[i] = j
    BY <1>1, <1>2
  <2> QED
    BY <1>1, <2>2 DEF Index
<1>8. Waiting \subseteq Candidates
  BY <1>1, <1>2
<1>9. \A j, k \in Waiting : Index(j) = Index(k) => j = k
  BY <1>7
<1> QED
  BY <1>6, <1>7, <1>8, <1>9

OlderPairs(S) == {p \in S \X S : Index(p[1]) < Index(p[2])}

LEMMA FifoLists ==
  ASSUME LineOK, NEW S \in SUBSET Waiting
  PROVE  /\ IsFiniteSet(S) /\ Cardinality(S) \in Nat
         /\ Fifo(S) \in Seq(S) /\ Len(Fifo(S)) = Cardinality(S)
         /\ \A j \in S : \E i \in 1..Cardinality(S) : Fifo(S)[i] = j
         /\ \A i, k \in 1..Cardinality(S) : i < k => Index(Fifo(S)[i]) < Index(Fifo(S)[k])
<1>1. IsFiniteSet(S) /\ Cardinality(S) \in Nat
  BY Places, FS_Subset, FS_CardinalityType
<1>2. \A j \in S : Index(j) \in Int
  BY Places
<1>3. \A x, y \in S : <<x, y>> \in OlderPairs(S) <=> Index(x) < Index(y)
  BY DEF OlderPairs
<1>4. Orders(OlderPairs(S), S)
  BY <1>2, <1>3, Places DEF Orders
<1>5. Fifo(S) = Ranked(S, OlderPairs(S))
  <2>1. \A x \in S : {y \in S : Index(y) < Index(x)} = {y \in S : <<y, x>> \in OlderPairs(S)}
    BY <1>3
  <2> DEFINE f(i) == CHOOSE x \in S : Cardinality({y \in S : Index(y) < Index(x)}) = i - 1
             g(i) == CHOOSE x \in S : Cardinality({y \in S : <<y, x>> \in OlderPairs(S)}) = i - 1
  <2>2. \A i : f(i) = g(i)
    BY <2>1
  <2>3. Fifo(S) = [i \in 1..Cardinality(S) |-> f(i)] /\ Ranked(S, OlderPairs(S)) = [i \in 1..Cardinality(S) |-> g(i)]
    BY DEF Fifo, InOrder, Ranked
  <2> HIDE DEF f, g
  <2> QED
    BY <2>2, <2>3
<1>6. ListsInOrder(Fifo(S), S, OlderPairs(S))
  BY <1>1, <1>4, <1>5, RankedLists
<1>7. /\ Fifo(S) \in [1..Cardinality(S) -> S]
      /\ \A j \in S : \E i \in 1..Cardinality(S) : Fifo(S)[i] = j
      /\ \A i, k \in 1..Cardinality(S) : i < k => <<Fifo(S)[i], Fifo(S)[k]>> \in OlderPairs(S)
  BY <1>6 DEF ListsInOrder
<1>8. Fifo(S) \in Seq(S) /\ Len(Fifo(S)) = Cardinality(S)
  BY <1>1, <1>7
<1> QED
  BY <1>1, <1>3, <1>7, <1>8

LEMMA OldestIs ==
  ASSUME LineOK, NEW S \in SUBSET Waiting, S # {}
  PROVE  /\ Oldest(S) \in S /\ \A j \in S : Index(Oldest(S)) <= Index(j)
         /\ Cardinality(S) >= 1 /\ Fifo(S)[1] = Oldest(S)
<1> DEFINE n == Cardinality(S)
           F == Fifo(S)
<1>1. n \in Nat /\ n >= 1
  BY FifoLists, FS_EmptySet
<1>2. /\ \A i \in 1..n : F[i] \in S
      /\ \A j \in S : \E i \in 1..n : F[i] = j
      /\ \A i, k \in 1..n : i < k => Index(F[i]) < Index(F[k])
  BY FifoLists
<1>3. \A j \in S : Index(j) \in Int
  BY Places
<1> HIDE DEF n, F
<1>4. F[1] \in S /\ \A j \in S : Index(F[1]) <= Index(j)
  <2>1. F[1] \in S
    BY <1>1, <1>2
  <2>2. \A j \in S : Index(F[1]) <= Index(j)
    <3>1. TAKE j \in S
    <3>2. PICK i \in 1..n : F[i] = j
      BY <1>2
    <3>3. CASE i = 1
      BY <1>3, <3>2, <3>3
    <3>4. CASE i # 1
      <4>1. Index(F[1]) < Index(F[i])
        BY <1>1, <1>2, <3>4
      <4> QED
        BY <1>3, <2>1, <3>2, <4>1
    <3> QED
      BY <3>3, <3>4
  <2> QED
    BY <2>1, <2>2
<1>5. Oldest(S) \in S /\ \A j \in S : Index(Oldest(S)) <= Index(j)
  BY <1>4 DEF Oldest
<1>6. Index(F[1]) = Index(Oldest(S))
  BY <1>3, <1>4, <1>5
<1>7. F[1] = Oldest(S)
  BY <1>4, <1>5, <1>6, Places
<1> QED
  BY <1>1, <1>5, <1>7 DEF n, F

-----------------------------------------------------------------------------
(* The batches.                                                            *)

ServedOK == served \in [Workspaces -> Nat]

ServedPairs(keys, S) ==
  {p \in WorkspacesOf(S) \X WorkspacesOf(S) : LeastRecentlyServed(keys, S, p[1], p[2])}

LEMMA GroupsWait ==
  ASSUME LineOK, NEW S \in SUBSET Waiting, NEW w \in WorkspacesOf(S)
  PROVE  /\ JobsOf(w, S) \in SUBSET Waiting /\ JobsOf(w, S) # {}
         /\ Oldest(JobsOf(w, S)) \in S /\ WorkspaceOf[Oldest(JobsOf(w, S))] = w
         /\ w \in Workspaces
<1>1. JobsOf(w, S) \in SUBSET Waiting /\ JobsOf(w, S) # {}
  BY DEF JobsOf, WorkspacesOf
<1>2. Oldest(JobsOf(w, S)) \in JobsOf(w, S)
  BY <1>1, OldestIs
<1>3. w \in Workspaces
  BY Places DEF WorkspacesOf, Workspaces
<1> QED
  BY <1>1, <1>2, <1>3 DEF JobsOf

LEMMA ServedTyped ==
  ASSUME ServedOK, NEW keys, NEW w \in Workspaces
  PROVE  LastServed(keys, w) \in Nat
BY DEF ServedOK, LastServed

LEMMA BatchesOrdered ==
  ASSUME LineOK, ServedOK, NEW keys, NEW S \in SUBSET Waiting
  PROVE  Orders(ServedPairs(keys, S), WorkspacesOf(S))
<1> DEFINE W == WorkspacesOf(S)
           at(w) == Index(Oldest(JobsOf(w, S)))
           ls(w) == LastServed(keys, w)
<1>1. \A w \in W : at(w) \in Int /\ ls(w) \in Nat
  BY GroupsWait, ServedTyped, Places
<1>2. \A v, w \in W : at(v) = at(w) => v = w
  <2>1. TAKE v, w \in W
  <2>2. HAVE at(v) = at(w)
  <2>3. Oldest(JobsOf(v, S)) \in Waiting /\ Oldest(JobsOf(w, S)) \in Waiting
    BY GroupsWait
  <2>4. Oldest(JobsOf(v, S)) = Oldest(JobsOf(w, S))
    BY <2>2, <2>3, Places
  <2> QED
    BY <2>4, GroupsWait
<1>3. \A v, w \in W : <<v, w>> \in ServedPairs(keys, S) <=> ls(v) < ls(w) \/ (ls(v) = ls(w) /\ at(v) < at(w))
  BY DEF ServedPairs, LeastRecentlyServed
<1> HIDE DEF W, at, ls
<1>4. Orders(ServedPairs(keys, S), W)
  <2>1. \A x \in W : <<x, x>> \notin ServedPairs(keys, S)
    BY <1>1, <1>3
  <2>2. \A x, y \in W : x # y => <<x, y>> \in ServedPairs(keys, S) \/ <<y, x>> \in ServedPairs(keys, S)
    BY <1>1, <1>2, <1>3
  <2>3. \A x, y, z \in W : <<x, y>> \in ServedPairs(keys, S) /\ <<y, z>> \in ServedPairs(keys, S)
                            => <<x, z>> \in ServedPairs(keys, S)
    BY <1>1, <1>3
  <2> QED
    BY <2>1, <2>2, <2>3 DEF Orders
<1> QED
  BY <1>4 DEF W

\* The batches are the groups of the workspaces, listed by last service.
LEMMA BatchesList ==
  ASSUME LineOK, ServedOK, NEW keys, NEW S \in SUBSET Waiting
  PROVE  \E order :
           LET m == Cardinality(WorkspacesOf(S))
           IN  /\ m \in Nat
               /\ ListsInOrder(order, WorkspacesOf(S), ServedPairs(keys, S))
               /\ Batches(keys, S) = [i \in 1..m |-> Fifo(JobsOf(order[i], S))]
<1> DEFINE W == WorkspacesOf(S)
           m == Cardinality(W)
           order == InOrder(W, LAMBDA v, w : LeastRecentlyServed(keys, S, v, w))
           group == [w \in W |-> Fifo(JobsOf(w, S))]
<1>1. IsFiniteSet(W) /\ m \in Nat
  <2> DEFINE f == [j \in S |-> WorkspaceOf[j]]
  <2>1. f \in Surjection(S, W)
    BY DEF Surjection, WorkspacesOf
  <2>2. IsFiniteSet(S)
    BY FifoLists
  <2> HIDE DEF f, W
  <2> QED
    BY <2>1, <2>2, FS_Surjection, FS_CardinalityType
<1>2. order = Ranked(W, ServedPairs(keys, S))
  <2>1. \A x \in W : {y \in W : LeastRecentlyServed(keys, S, y, x)} = {y \in W : <<y, x>> \in ServedPairs(keys, S)}
    BY DEF ServedPairs
  <2> DEFINE f(i) == CHOOSE x \in W : Cardinality({y \in W : LeastRecentlyServed(keys, S, y, x)}) = i - 1
             g(i) == CHOOSE x \in W : Cardinality({y \in W : <<y, x>> \in ServedPairs(keys, S)}) = i - 1
  <2>2. \A i : f(i) = g(i)
    BY <2>1
  <2>3. /\ order = [i \in 1..Cardinality(W) |-> f(i)]
        /\ Ranked(W, ServedPairs(keys, S)) = [i \in 1..Cardinality(W) |-> g(i)]
    BY DEF InOrder, Ranked
  <2> HIDE DEF f, g, order
  <2> QED
    BY <2>2, <2>3
<1>3. ListsInOrder(order, W, ServedPairs(keys, S))
  <2> HIDE DEF W, order
  <2>1. Orders(ServedPairs(keys, S), W)
    BY BatchesOrdered DEF W
  <2> QED
    BY <1>1, <1>2, <2>1, RankedLists
<1>4. Batches(keys, S) = [i \in DOMAIN order |-> group[order[i]]]
  BY DEF Batches
<1>5. order \in [1..m -> W]
  BY <1>3 DEF ListsInOrder
<1> HIDE DEF order, m
<1>6. Batches(keys, S) = [i \in 1..m |-> Fifo(JobsOf(order[i], S))]
  BY <1>4, <1>5
<1> QED
  BY <1>1, <1>3, <1>6 DEF m

-----------------------------------------------------------------------------
(* What the loop keeps: B are the batches that are left, o is what was     *)
(* ordered.                                                                *)

\* The batches split what is not ordered yet by workspace, oldest first.
Split(S, B, o) ==
  /\ B \in Seq(Seq(S)) /\ o \in Seq(S)
  /\ \A i \in 1..Len(B) : Len(B[i]) >= 1
  /\ \A i \in 1..Len(B) : \A m \in 1..Len(B[i]) : WorkspaceOf[B[i][m]] = WorkspaceOf[B[i][1]]
  /\ \A i \in 1..Len(B) : \A m, n \in 1..Len(B[i]) : m < n => Index(B[i][m]) < Index(B[i][n])
  /\ \A i, k \in 1..Len(B) : i # k => WorkspaceOf[B[i][1]] # WorkspaceOf[B[k][1]]
  /\ \A j \in S : \/ \E p \in 1..Len(o) : o[p] = j
                  \/ \E i \in 1..Len(B) : \E m \in 1..Len(B[i]) : B[i][m] = j
  /\ \A p \in 1..Len(o), i \in 1..Len(B) :
       WorkspaceOf[o[p]] = WorkspaceOf[B[i][1]] => Index(o[p]) < Index(B[i][1])
  /\ \A p, q \in 1..Len(o) : p < q => o[p] # o[q]

\* j is not to come after k, in a rotated tier.
NoLater(keys, S, j, k) ==
  \/ Turn(S, j) < Turn(S, k)
  \/ /\ Turn(S, j) = Turn(S, k)
     /\ LastServed(keys, WorkspaceOf[j]) <= LastServed(keys, WorkspaceOf[k])

\* The heads wait in the order of their turns, at most one turn apart, and the
\* ones that are a turn ahead were served no later; nothing ordered is late.
InTurn(keys, S, B, o) ==
  /\ \A i, k \in 1..Len(B) : i < k => NoLater(keys, S, B[i][1], B[k][1])
  /\ \A i, k \in 1..Len(B) : Turn(S, B[i][1]) <= Turn(S, B[k][1]) + 1
  /\ \A i, k \in 1..Len(B) :
       Turn(S, B[i][1]) = Turn(S, B[k][1]) + 1
         => LastServed(keys, WorkspaceOf[B[i][1]]) <= LastServed(keys, WorkspaceOf[B[k][1]])
  /\ \A p, q \in 1..Len(o) : p < q => NoLater(keys, S, o[p], o[q])
  /\ \A p \in 1..Len(o), i \in 1..Len(B) : NoLater(keys, S, o[p], B[i][1])

Rest(t, b) == Len(b) > 1 /\ Len(t) = Len(b) - 1 /\ \A m \in 1..Len(t) : t[m] = b[m + 1]

\* What a turn of the loop does.
Shifted(S, B, o, C, q) ==
  /\ C \in Seq(Seq(S)) /\ q \in Seq(S)
  /\ Len(q) = Len(o) + 1 /\ q[Len(o) + 1] = B[1][1]
  /\ \A p \in 1..Len(o) : q[p] = o[p]
  /\ \A i \in 1..Len(C) : \/ i < Len(B) /\ C[i] = B[i + 1]
                          \/ i = Len(B) /\ Rest(C[i], B[1])
  /\ \A i \in 1..Len(B) : i > 1 => i - 1 \in 1..Len(C) /\ C[i - 1] = B[i]
  /\ Len(B[1]) > 1 => Len(B) \in 1..Len(C) /\ Rest(C[Len(B)], B[1])

LEMMA ShiftIs ==
  ASSUME NEW S, NEW B \in Seq(Seq(S)), NEW o \in Seq(S), Len(B) >= 1, Len(B[1]) >= 1
  PROVE  LET st == Shift([batches |-> B, ordered |-> o])
         IN  /\ st = [batches |-> st.batches, ordered |-> st.ordered]
             /\ Shifted(S, B, o, st.batches, st.ordered)
<1> DEFINE C == IF Len(B[1]) = 1 THEN Tail(B) ELSE Append(Tail(B), Tail(B[1]))
           q == Append(o, B[1][1])
<1>1. Shift([batches |-> B, ordered |-> o]) = [batches |-> C, ordered |-> q]
  BY DEF Shift
<1>2. /\ B[1] \in Seq(S) /\ Len(B) \in Nat /\ Len(B[1]) \in Nat /\ B[1][1] \in S
      /\ Len(B) >= 1 /\ Len(B[1]) >= 1
  OBVIOUS
<1>3. q \in Seq(S) /\ Len(q) = Len(o) + 1 /\ q[Len(o) + 1] = B[1][1] /\ \A p \in 1..Len(o) : q[p] = o[p]
  BY <1>2
<1>4. Tail(B) \in Seq(Seq(S)) /\ Len(Tail(B)) = Len(B) - 1 /\ \A i \in 1..(Len(B) - 1) : Tail(B)[i] = B[i + 1]
  BY <1>2
<1>5. Tail(B[1]) \in Seq(S) /\ Len(Tail(B[1])) = Len(B[1]) - 1
      /\ \A m \in 1..(Len(B[1]) - 1) : Tail(B[1])[m] = B[1][m + 1]
  BY <1>2
<1>6. /\ C \in Seq(Seq(S))
      /\ \A i \in 1..Len(C) : \/ i < Len(B) /\ C[i] = B[i + 1]
                              \/ i = Len(B) /\ Rest(C[i], B[1])
      /\ \A i \in 1..Len(B) : i > 1 => i - 1 \in 1..Len(C) /\ C[i - 1] = B[i]
      /\ Len(B[1]) > 1 => Len(B) \in 1..Len(C) /\ Rest(C[Len(B)], B[1])
  <2>1. CASE Len(B[1]) = 1
    <3>1. C = Tail(B)
      BY <2>1
    <3> HIDE DEF C
    <3>2. Len(C) = Len(B) - 1 /\ C \in Seq(Seq(S)) /\ \A i \in 1..(Len(B) - 1) : C[i] = B[i + 1]
      BY <1>4, <3>1
    <3>3. \A i \in 1..Len(C) : i < Len(B) /\ C[i] = B[i + 1]
      BY <1>2, <3>2
    <3>4. ASSUME NEW i \in 1..Len(B), i > 1
          PROVE  i - 1 \in 1..Len(C) /\ C[i - 1] = B[i]
      <4>1. i - 1 \in 1..(Len(B) - 1) /\ (i - 1) + 1 = i
        BY <1>2, <3>4
      <4> QED
        BY <3>2, <4>1
    <3>5. ~ (Len(B[1]) > 1)
      BY <2>1
    <3>6. C \in Seq(Seq(S))
      BY <3>2
    <3>7. \A i \in 1..Len(C) : \/ i < Len(B) /\ C[i] = B[i + 1]
                               \/ i = Len(B) /\ Rest(C[i], B[1])
      BY <3>3
    <3>8. \A i \in 1..Len(B) : i > 1 => i - 1 \in 1..Len(C) /\ C[i - 1] = B[i]
      BY <3>4
    <3> QED
      BY <3>5, <3>6, <3>7, <3>8
  <2>2. CASE Len(B[1]) # 1
    <3>1. C = Append(Tail(B), Tail(B[1]))
      BY <2>2
    <3> HIDE DEF C
    <3>2. Len(B[1]) > 1
      <4> DEFINE l == Len(B[1])
      <4>1. l \in Nat /\ l >= 1 /\ l # 1
        BY <1>2, <2>2
      <4> HIDE DEF l
      <4>2. l > 1
        BY <4>1
      <4> QED
        BY <4>2 DEF l
    <3>3. /\ C \in Seq(Seq(S)) /\ Len(C) = Len(B)
          /\ C[Len(B)] = Tail(B[1]) /\ \A i \in 1..(Len(B) - 1) : C[i] = B[i + 1]
      BY <1>2, <1>4, <1>5, <3>1
    <3>4. Rest(C[Len(B)], B[1])
      BY <1>2, <1>5, <3>3, <3>2 DEF Rest
    <3>5. \A i \in 1..Len(C) : i # Len(B) => i \in 1..(Len(B) - 1) /\ i < Len(B)
      BY <1>2, <3>3
    <3>6. \A i \in 1..Len(B) : i > 1 => i - 1 \in 1..(Len(B) - 1) /\ (i - 1) + 1 = i
      BY <1>2
    <3>7. Len(B) \in 1..Len(C)
      BY <1>2, <3>3
    <3>8. \A i \in 1..Len(C) : \/ i < Len(B) /\ C[i] = B[i + 1]
                               \/ i = Len(B) /\ Rest(C[i], B[1])
      <4>1. TAKE i \in 1..Len(C)
      <4>2. CASE i = Len(B)
        BY <3>4, <4>2
      <4>3. CASE i # Len(B)
        <5>1. i \in 1..(Len(B) - 1) /\ i < Len(B)
          BY <3>5, <4>3
        <5>2. \A m \in 1..(Len(B) - 1) : C[m] = B[m + 1]
          BY <3>3
        <5>3. C[i] = B[i + 1]
          BY <5>1, <5>2
        <5> QED
          BY <5>1, <5>3
      <4> QED
        BY <4>2, <4>3
    <3>9. ASSUME NEW i \in 1..Len(B), i > 1
          PROVE  i - 1 \in 1..Len(C) /\ C[i - 1] = B[i]
      <4>1. i - 1 \in 1..(Len(B) - 1) /\ (i - 1) + 1 = i
        BY <3>6, <3>9
      <4>2. C[i - 1] = B[i]
        BY <3>3, <4>1
      <4>3. i - 1 \in 1..Len(C)
        BY <1>2, <3>3, <4>1
      <4> QED
        BY <4>2, <4>3
    <3> QED
      BY <3>3, <3>4, <3>7, <3>8, <3>9
  <2> QED
    BY <2>1, <2>2
<1>7. Shifted(S, B, o, C, q)
  <2> HIDE DEF C, q
  <2> QED
    BY <1>3, <1>6 DEF Shifted
<1> DEFINE st == Shift([batches |-> B, ordered |-> o])
<1>8. st.batches = C /\ st.ordered = q /\ st = [batches |-> st.batches, ordered |-> st.ordered]
  <2> HIDE DEF C, q, st
  <2> QED
    BY <1>1 DEF st
<1> QED
  BY <1>7, <1>8

LEMMA SplitKept ==
  ASSUME LineOK, NEW S \in SUBSET Waiting, NEW B, NEW o, NEW C, NEW q,
         Split(S, B, o), Len(B) >= 1, Shifted(S, B, o, C, q)
  PROVE  Split(S, C, q)
<1> DEFINE ws(j) == WorkspaceOf[j]
<1>1. /\ B \in Seq(Seq(S)) /\ o \in Seq(S)
      /\ \A i \in 1..Len(B) : Len(B[i]) >= 1
      /\ \A i \in 1..Len(B) : \A m \in 1..Len(B[i]) : ws(B[i][m]) = ws(B[i][1])
      /\ \A i \in 1..Len(B) : \A m, n \in 1..Len(B[i]) : m < n => Index(B[i][m]) < Index(B[i][n])
      /\ \A i, k \in 1..Len(B) : i # k => ws(B[i][1]) # ws(B[k][1])
      /\ \A j \in S : \/ \E p \in 1..Len(o) : o[p] = j
                      \/ \E i \in 1..Len(B) : \E m \in 1..Len(B[i]) : B[i][m] = j
      /\ \A p \in 1..Len(o), i \in 1..Len(B) : ws(o[p]) = ws(B[i][1]) => Index(o[p]) < Index(B[i][1])
      /\ \A p, r \in 1..Len(o) : p < r => o[p] # o[r]
  BY DEF Split
<1>2. /\ C \in Seq(Seq(S)) /\ q \in Seq(S)
      /\ Len(q) = Len(o) + 1 /\ q[Len(o) + 1] = B[1][1]
      /\ \A p \in 1..Len(o) : q[p] = o[p]
      /\ \A i \in 1..Len(C) : \/ i < Len(B) /\ C[i] = B[i + 1]
                              \/ i = Len(B) /\ Rest(C[i], B[1])
      /\ \A i \in 1..Len(B) : i > 1 => i - 1 \in 1..Len(C) /\ C[i - 1] = B[i]
      /\ Len(B[1]) > 1 => Len(B) \in 1..Len(C) /\ Rest(C[Len(B)], B[1])
  BY DEF Shifted
<1>3. /\ Len(B) \in Nat /\ Len(C) \in Nat /\ Len(o) \in Nat
      /\ \A i \in 1..Len(B) : Len(B[i]) \in Nat /\ \A m \in 1..Len(B[i]) : B[i][m] \in S
      /\ \A p \in 1..Len(o) : o[p] \in S
      /\ 1 \in 1..Len(B)
  BY <1>1, <1>2
<1>4. \A j \in S : Index(j) \in Int
  BY Places
\* Each new batch is an old one, from its first or its second job on.
<1> DEFINE Cut(i, k, d) == /\ k \in 1..Len(B) /\ d \in {0, 1} /\ (d = 1 => k = 1) /\ (d = 0 => k # 1)
                           /\ Len(C[i]) = Len(B[k]) - d /\ Len(B[k]) - d >= 1
                           /\ \A m \in 1..Len(C[i]) : C[i][m] = B[k][m + d]
<1>5. ASSUME NEW i \in 1..Len(C)
      PROVE  \E k, d : Cut(i, k, d) /\ (d = 0 => k = i + 1) /\ (d = 1 => i = Len(B))
  <2>1. CASE i < Len(B) /\ C[i] = B[i + 1]
    <3>1. i + 1 \in 1..Len(B) /\ i + 1 # 1
      BY <1>3, <2>1
    <3>2. Cut(i, i + 1, 0)
      BY <1>1, <1>3, <2>1, <3>1
    <3> QED
      BY <3>2
  <2>2. CASE i = Len(B) /\ Rest(C[i], B[1])
    <3>1. Cut(i, 1, 1)
      BY <1>1, <1>3, <2>2 DEF Rest
    <3> QED
      BY <2>2, <3>1
  <2> QED
    BY <1>2, <2>1, <2>2
<1>6. ASSUME NEW i \in 1..Len(C), NEW k, NEW d, Cut(i, k, d)
      PROVE  /\ Len(C[i]) >= 1 /\ Len(C[i]) \in Nat
             /\ \A m \in 1..Len(C[i]) : m + d \in 1..Len(B[k]) /\ ws(C[i][m]) = ws(B[k][1])
             /\ ws(C[i][1]) = ws(B[k][1])
  <2>1. Len(C[i]) >= 1 /\ Len(C[i]) \in Nat /\ \A m \in 1..Len(C[i]) : m + d \in 1..Len(B[k])
    BY <1>3, <1>6
  <2>2. \A m \in 1..Len(C[i]) : ws(C[i][m]) = ws(B[k][1])
    <3> HIDE DEF ws
    <3> QED
      BY <1>1, <1>6, <2>1
  <2> QED
    BY <2>1, <2>2
<1> HIDE DEF Cut
<1>7. \A i \in 1..Len(C) : Len(C[i]) >= 1
  BY <1>5, <1>6
<1>8. \A i \in 1..Len(C) : \A m \in 1..Len(C[i]) : ws(C[i][m]) = ws(C[i][1])
  <2> HIDE DEF ws
  <2> QED
    BY <1>5, <1>6
<1>9. \A i \in 1..Len(C) : \A m, n \in 1..Len(C[i]) : m < n => Index(C[i][m]) < Index(C[i][n])
  <2>1. TAKE i \in 1..Len(C)
  <2>2. PICK k, d : Cut(i, k, d)
    BY <1>5
  <2>3. TAKE m, n \in 1..Len(C[i])
  <2>4. HAVE m < n
  <2>5. m + d \in 1..Len(B[k]) /\ n + d \in 1..Len(B[k])
    BY <1>6, <2>2
  <2>6. d \in Int /\ k \in 1..Len(B) /\ C[i][m] = B[k][m + d] /\ C[i][n] = B[k][n + d]
    BY <2>2 DEF Cut
  <2>7. m + d < n + d
    BY <2>4, <2>6
  <2> QED
    BY <1>1, <2>5, <2>6, <2>7
<1>10. \A i, k \in 1..Len(C) : i # k => ws(C[i][1]) # ws(C[k][1])
  <2>1. TAKE i, j \in 1..Len(C)
  <2>2. HAVE i # j
  <2>3. PICK k, d : Cut(i, k, d) /\ (d = 0 => k = i + 1) /\ (d = 1 => i = Len(B))
    BY <1>5
  <2>4. PICK l, e : Cut(j, l, e) /\ (e = 0 => l = j + 1) /\ (e = 1 => j = Len(B))
    BY <1>5
  <2>5. k \in 1..Len(B) /\ l \in 1..Len(B) /\ k # l
    BY <2>2, <2>3, <2>4 DEF Cut
  <2>6. ws(C[i][1]) = ws(B[k][1]) /\ ws(C[j][1]) = ws(B[l][1])
    <3> HIDE DEF ws
    <3> QED
      BY <1>6, <2>3, <2>4
  <2> QED
    BY <1>1, <2>5, <2>6
<1>11. ASSUME NEW j \in S
       PROVE  \/ \E p \in 1..Len(q) : q[p] = j
              \/ \E i \in 1..Len(C) : \E m \in 1..Len(C[i]) : C[i][m] = j
  <2>1. CASE \E p \in 1..Len(o) : o[p] = j
    <3>1. PICK p \in 1..Len(o) : o[p] = j
      BY <2>1
    <3>2. p \in 1..Len(q) /\ q[p] = j
      BY <1>2, <1>3, <3>1
    <3> QED
      BY <3>2
  <2>2. CASE \E i \in 1..Len(B) : \E m \in 1..Len(B[i]) : B[i][m] = j
    <3>0. PICK i \in 1..Len(B) : \E m \in 1..Len(B[i]) : B[i][m] = j
      BY <2>2
    <3>1. PICK m \in 1..Len(B[i]) : B[i][m] = j
      BY <3>0
    <3>2. CASE i > 1
      BY <1>2, <3>1, <3>2
    <3>3. CASE i = 1 /\ m = 1
      <4>1. Len(o) + 1 \in 1..Len(q) /\ q[Len(o) + 1] = j
        BY <1>2, <1>3, <3>1, <3>3
      <4> QED
        BY <4>1
    <3>4. CASE i = 1 /\ m > 1
      <4>1. Len(B[1]) > 1
        BY <1>3, <3>1, <3>4
      <4>2. Len(B) \in 1..Len(C) /\ Rest(C[Len(B)], B[1])
        BY <1>2, <4>1
      <4>3. m - 1 \in 1..Len(C[Len(B)]) /\ C[Len(B)][m - 1] = B[1][m]
        BY <1>3, <3>1, <3>4, <4>2 DEF Rest
      <4> QED
        BY <3>1, <3>4, <4>2, <4>3
    <3> QED
      BY <1>3, <3>1, <3>2, <3>3, <3>4
  <2> QED
    BY <1>1, <2>1, <2>2
<1>12. \A p \in 1..Len(q), i \in 1..Len(C) : ws(q[p]) = ws(C[i][1]) => Index(q[p]) < Index(C[i][1])
  <2>1. TAKE p \in 1..Len(q), i \in 1..Len(C)
  <2>2. HAVE ws(q[p]) = ws(C[i][1])
  <2>3. PICK k, d : Cut(i, k, d)
    BY <1>5
  <2>4. /\ ws(C[i][1]) = ws(B[k][1]) /\ C[i][1] = B[k][1 + d] /\ 1 + d \in 1..Len(B[k])
        /\ k \in 1..Len(B) /\ d \in {0, 1} /\ (k = 1 => d = 1)
    <3>1. Len(C[i]) >= 1 /\ Len(C[i]) \in Nat /\ ws(C[i][1]) = ws(B[k][1])
      BY <1>6, <2>3
    <3>2. 1 \in 1..Len(C[i])
      BY <3>1
    <3>3. 1 + d \in 1..Len(B[k])
      BY <1>6, <2>3, <3>2
    <3> HIDE DEF ws
    <3> QED
      BY <2>3, <3>1, <3>2, <3>3 DEF Cut
  <2>5. CASE p \in 1..Len(o)
    <3>1. 1 \in 1..Len(B[k])
      BY <1>1, <1>3, <2>4
    <3>2. Index(o[p]) < Index(B[k][1])
      BY <1>1, <1>2, <2>2, <2>4, <2>5
    <3>3. Index(o[p]) \in Int /\ Index(B[k][1]) \in Int /\ Index(B[k][1 + d]) \in Int
      BY <1>3, <1>4, <2>4, <2>5, <3>1
    <3>4. Index(B[k][1]) <= Index(B[k][1 + d])
      <4>1. CASE d = 0
        BY <3>3, <4>1
      <4>2. CASE d = 1
        <5>1. 1 < 1 + d
          BY <4>2
        <5> QED
          BY <1>1, <2>4, <3>1, <3>3, <5>1
      <4> QED
        BY <2>4, <4>1, <4>2
    <3> QED
      BY <1>2, <2>4, <2>5, <3>2, <3>4, <3>3
  <2>6. CASE p = Len(o) + 1
    <3>1. q[p] = B[1][1]
      BY <1>2, <2>6
    <3>2. k = 1
      BY <1>1, <1>3, <2>2, <2>4, <3>1
    <3>3. d = 1
      BY <2>4, <3>2
    <3>4. 1 \in 1..Len(B[1]) /\ 2 \in 1..Len(B[1]) /\ C[i][1] = B[1][2]
      BY <1>1, <1>3, <2>4, <3>2, <3>3
    <3> QED
      BY <1>1, <1>3, <3>1, <3>4
  <2> QED
    BY <1>2, <1>3, <2>5, <2>6
<1>13. \A p, r \in 1..Len(q) : p < r => q[p] # q[r]
  <2>1. TAKE p, r \in 1..Len(q)
  <2>2. HAVE p < r
  <2>3. p \in 1..Len(o) /\ q[p] = o[p]
    BY <1>2, <1>3, <2>2
  <2>4. CASE r \in 1..Len(o)
    BY <1>1, <1>2, <2>2, <2>3, <2>4
  <2>5. CASE r = Len(o) + 1
    <3>1. SUFFICES ASSUME o[p] = B[1][1] PROVE FALSE
      BY <1>2, <2>3, <2>5
    <3>2. Index(o[p]) < Index(B[1][1])
      BY <1>1, <1>3, <2>3, <3>1
    <3> QED
      BY <1>3, <1>4, <2>3, <3>1, <3>2
  <2> QED
    BY <1>2, <1>3, <2>4, <2>5
<1> QED
  BY <1>2, <1>7, <1>8, <1>9, <1>10, <1>11, <1>12, <1>13 DEF Split

LEMMA TurnType ==
  ASSUME LineOK, NEW S \in SUBSET Waiting, NEW j \in S
  PROVE  Turn(S, j) \in Nat
<1> DEFINE older == {k \in S : WorkspaceOf[k] = WorkspaceOf[j] /\ Index(k) < Index(j)}
<1>1. older \in SUBSET Waiting
  OBVIOUS
<1>2. Turn(S, j) = Cardinality(older)
  BY DEF Turn
<1> HIDE DEF older
<1> QED
  BY <1>1, <1>2, FifoLists

\* The second job of a batch has the turn after that of the first.
LEMMA NextTurn ==
  ASSUME LineOK, NEW S \in SUBSET Waiting, NEW B, NEW o, Split(S, B, o),
         NEW i \in 1..Len(B), Len(B[i]) > 1
  PROVE  /\ B[i][1] \in S /\ B[i][2] \in S /\ WorkspaceOf[B[i][2]] = WorkspaceOf[B[i][1]]
         /\ Turn(S, B[i][2]) = Turn(S, B[i][1]) + 1
<1> DEFINE a == B[i][1]
           b == B[i][2]
           w == WorkspaceOf[a]
           older(x) == {k \in S : WorkspaceOf[k] = w /\ Index(k) < Index(x)}
<1>1. B \in Seq(Seq(S)) /\ B[i] \in Seq(S) /\ Len(B[i]) \in Nat /\ 1 \in 1..Len(B[i]) /\ 2 \in 1..Len(B[i])
  BY DEF Split
<1>2. a \in S /\ b \in S /\ WorkspaceOf[b] = w /\ Index(a) < Index(b)
  <2>1. a \in S /\ b \in S
    BY <1>1
  <2>2. WorkspaceOf[b] = w /\ Index(a) < Index(b)
    BY <1>1 DEF Split
  <2> QED
    BY <2>1, <2>2
<1>3. \A k \in S : Index(k) \in Int
  BY Places
<1>4. ASSUME NEW k \in S, WorkspaceOf[k] = w, Index(k) < Index(b), k # a
      PROVE  Index(k) < Index(a)
  <2>1. CASE \E p \in 1..Len(o) : o[p] = k
    BY <1>4, <2>1 DEF Split
  <2>2. CASE \E h \in 1..Len(B) : \E m \in 1..Len(B[h]) : B[h][m] = k
    <3>1. PICK h \in 1..Len(B) : \E m \in 1..Len(B[h]) : B[h][m] = k
      BY <2>2
    <3>2. PICK m \in 1..Len(B[h]) : B[h][m] = k
      BY <3>1
    <3>3. WorkspaceOf[B[h][1]] = w
      BY <1>4, <3>2 DEF Split
    <3>4. h = i
      BY <3>3 DEF Split
    <3>5. m # 1 /\ m # 2
      BY <1>3, <1>4, <3>2, <3>4
    <3>6. 2 < m
      BY <1>1, <3>4, <3>5
    <3>7. Index(b) < Index(k)
      BY <1>1, <3>2, <3>4, <3>6 DEF Split
    <3> QED
      BY <1>2, <1>3, <1>4, <3>7
  <2> QED
    BY <2>1, <2>2 DEF Split
<1>5. older(b) = older(a) \cup {a}
  <2>1. ASSUME NEW k \in older(b) PROVE k \in older(a) \cup {a}
    BY <1>4
  <2>2. ASSUME NEW k \in older(a) PROVE k \in older(b)
    BY <1>2, <1>3
  <2>3. a \in older(b)
    BY <1>2
  <2> HIDE DEF older
  <2> QED
    BY <2>1, <2>2, <2>3
<1>6. older(a) \in SUBSET Waiting /\ a \notin older(a)
  BY <1>2, <1>3
<1>7. IsFiniteSet(older(a)) /\ Cardinality(older(a)) \in Nat
  <2> HIDE DEF older
  <2> QED
    BY <1>6, FifoLists
<1>8. Cardinality(older(a) \cup {a}) = Cardinality(older(a)) + 1
  <2> HIDE DEF older, a
  <2> QED
    BY <1>6, <1>7, FS_AddElement
<1>9. Turn(S, a) = Cardinality(older(a)) /\ Turn(S, b) = Cardinality(older(b))
  BY <1>2 DEF Turn
<1> HIDE DEF older
<1> QED
  BY <1>2, <1>5, <1>8, <1>9

LEMMA InTurnKept ==
  ASSUME LineOK, ServedOK, NEW keys, NEW S \in SUBSET Waiting, NEW B, NEW o, NEW C, NEW q,
         Split(S, B, o), InTurn(keys, S, B, o), Len(B) >= 1, Shifted(S, B, o, C, q)
  PROVE  InTurn(keys, S, C, q)
<1> DEFINE T(j) == Turn(S, j)
           L(j) == LastServed(keys, WorkspaceOf[j])
           hd == B[1][1]
<1>1. \A j \in S : T(j) \in Nat /\ L(j) \in Nat
  <2>1. \A j \in S : WorkspaceOf[j] \in Workspaces
    BY Places DEF Workspaces
  <2> QED
    BY <2>1, TurnType, ServedTyped
<1>2. \A j, k : NoLater(keys, S, j, k) <=> T(j) < T(k) \/ (T(j) = T(k) /\ L(j) <= L(k))
  BY DEF NoLater
<1>3. /\ Len(B) \in Nat /\ Len(o) \in Nat /\ 1 \in 1..Len(B)
      /\ \A i \in 1..Len(B) : B[i][1] \in S
      /\ \A p \in 1..Len(o) : o[p] \in S
  <2>1. B \in Seq(Seq(S)) /\ o \in Seq(S) /\ \A i \in 1..Len(B) : Len(B[i]) >= 1
    BY DEF Split
  <2>2. ASSUME NEW i \in 1..Len(B) PROVE B[i][1] \in S
    <3>1. B[i] \in Seq(S) /\ 1 \in 1..Len(B[i])
      BY <2>1
    <3> QED
      BY <3>1
  <2> QED
    BY <2>1, <2>2
<1>4. /\ Len(C) \in Nat /\ Len(q) = Len(o) + 1 /\ q[Len(o) + 1] = hd
      /\ \A p \in 1..Len(o) : q[p] = o[p]
  BY DEF Shifted
<1> DEFINE Old(i) == i + 1 \in 1..Len(B) /\ C[i][1] = B[i + 1][1] /\ i < Len(B)
           Left(i) == i = Len(B) /\ T(C[i][1]) = T(hd) + 1 /\ L(C[i][1]) = L(hd) /\ C[i][1] \in S
<1>5. ASSUME NEW i \in 1..Len(C) PROVE Old(i) \/ Left(i)
  <2>1. CASE i < Len(B) /\ C[i] = B[i + 1]
    BY <1>3, <2>1
  <2>2. CASE i = Len(B) /\ Rest(C[i], B[1])
    <3>1. /\ B[1][2] \in S /\ WorkspaceOf[B[1][2]] = WorkspaceOf[B[1][1]]
          /\ Turn(S, B[1][2]) = Turn(S, B[1][1]) + 1
      BY <1>3, <2>2, NextTurn DEF Rest
    <3>2. C[i][1] = B[1][2]
      <4>1. Len(B[1]) \in Nat
        BY <1>3 DEF Split
      <4> QED
        BY <2>2, <4>1 DEF Rest
    <3> QED
      BY <2>2, <3>1, <3>2
  <2> QED
    BY <2>1, <2>2 DEF Shifted
<1>6. /\ \A i, k \in 1..Len(B) : i < k => NoLater(keys, S, B[i][1], B[k][1])
      /\ \A i, k \in 1..Len(B) : T(B[i][1]) <= T(B[k][1]) + 1
      /\ \A i, k \in 1..Len(B) : T(B[i][1]) = T(B[k][1]) + 1 => L(B[i][1]) <= L(B[k][1])
      /\ \A p, r \in 1..Len(o) : p < r => NoLater(keys, S, o[p], o[r])
      /\ \A p \in 1..Len(o), i \in 1..Len(B) : NoLater(keys, S, o[p], B[i][1])
  BY DEF InTurn
<1>7. \A k \in 1..Len(B) : NoLater(keys, S, hd, B[k][1])
  <2>1. TAKE k \in 1..Len(B)
  <2>2. CASE k = 1
    BY <1>1, <1>2, <1>3, <2>2
  <2>3. CASE k # 1
    BY <1>3, <1>6, <2>3
  <2> QED
    BY <2>2, <2>3
<1> HIDE DEF T, L
<1>8. hd \in S /\ T(hd) \in Nat /\ L(hd) \in Nat
  BY <1>1, <1>3
<1>9. \A i \in 1..Len(C) : C[i][1] \in S
  BY <1>3, <1>5
<1>10. \A i, k \in 1..Len(C) : i < k => NoLater(keys, S, C[i][1], C[k][1])
  <2>1. TAKE i, k \in 1..Len(C)
  <2>2. HAVE i < k
  <2>3. Old(i)
    <3>1. (Old(i) \/ Left(i)) /\ (Old(k) \/ Left(k))
      BY <1>5
    <3>2. k <= Len(B)
      BY <1>3, <3>1
    <3>3. i # Len(B)
      BY <1>3, <2>2, <3>2
    <3> QED
      BY <3>1, <3>3
  <2>4. CASE Old(k)
    <3>1. i + 1 < k + 1
      BY <2>2
    <3> QED
      BY <1>6, <2>3, <2>4, <3>1
  <2>5. CASE Left(k)
    <3>1. T(B[i + 1][1]) <= T(hd) + 1 /\ (T(B[i + 1][1]) = T(hd) + 1 => L(B[i + 1][1]) <= L(hd))
      BY <1>3, <1>6, <2>3
    <3>2. T(B[i + 1][1]) \in Nat /\ L(B[i + 1][1]) \in Nat
      BY <1>1, <1>3, <2>3
    <3> QED
      BY <1>2, <1>8, <2>3, <2>5, <3>1, <3>2
  <2> QED
    BY <1>5, <2>4, <2>5
<1>11. \A i, k \in 1..Len(C) :
         /\ T(C[i][1]) <= T(C[k][1]) + 1
         /\ T(C[i][1]) = T(C[k][1]) + 1 => L(C[i][1]) <= L(C[k][1])
  <2>1. TAKE i, k \in 1..Len(C)
  <2>2. CASE Old(i) /\ Old(k)
    BY <1>6, <2>2
  <2>3. CASE Old(i) /\ Left(k)
    <3>1. T(B[i + 1][1]) <= T(hd) + 1
      BY <1>3, <1>6, <2>3
    <3>2. T(B[i + 1][1]) \in Nat
      BY <1>1, <1>3, <2>3
    <3> QED
      BY <1>8, <2>3, <3>1, <3>2
  <2>4. CASE Left(i) /\ Old(k)
    <3>1. NoLater(keys, S, hd, B[k + 1][1])
      BY <1>7, <2>4
    <3>2. T(B[k + 1][1]) \in Nat /\ L(B[k + 1][1]) \in Nat
      BY <1>1, <1>3, <2>4
    <3> QED
      BY <1>2, <1>8, <2>4, <3>1, <3>2
  <2>5. CASE Left(i) /\ Left(k)
    BY <1>8, <2>5
  <2> QED
    BY <1>5, <2>2, <2>3, <2>4, <2>5
<1>12. \A p, r \in 1..Len(q) : p < r => NoLater(keys, S, q[p], q[r])
  <2>1. TAKE p, r \in 1..Len(q)
  <2>2. HAVE p < r
  <2>3. p \in 1..Len(o) /\ q[p] = o[p]
    BY <1>3, <1>4, <2>2
  <2>4. CASE r \in 1..Len(o)
    BY <1>4, <1>6, <2>2, <2>3, <2>4
  <2>5. CASE r = Len(o) + 1
    BY <1>3, <1>4, <1>6, <2>3, <2>5
  <2> QED
    BY <1>3, <1>4, <2>4, <2>5
<1>13. \A p \in 1..Len(q), i \in 1..Len(C) : NoLater(keys, S, q[p], C[i][1])
  <2>1. TAKE p \in 1..Len(q), i \in 1..Len(C)
  <2>2. CASE p \in 1..Len(o) /\ Old(i)
    BY <1>4, <1>6, <2>2
  <2>3. CASE p \in 1..Len(o) /\ Left(i)
    <3>1. NoLater(keys, S, o[p], hd)
      BY <1>3, <1>6, <2>3
    <3>2. T(o[p]) \in Nat /\ L(o[p]) \in Nat
      BY <1>1, <1>3, <2>3
    <3> QED
      BY <1>2, <1>4, <1>8, <2>3, <3>1, <3>2
  <2>4. CASE p = Len(o) + 1 /\ Old(i)
    BY <1>4, <1>7, <2>4
  <2>5. CASE p = Len(o) + 1 /\ Left(i)
    BY <1>2, <1>4, <1>8, <2>5
  <2> QED
    BY <1>3, <1>4, <1>5, <2>2, <2>3, <2>4, <2>5
<1> QED
  BY <1>10, <1>11, <1>12, <1>13 DEF InTurn, T, L

\* The groups are split, and their heads are in turn, before the first turn.
LEMMA BatchesReady ==
  ASSUME LineOK, ServedOK, NEW keys, NEW S \in SUBSET Waiting
  PROVE  Split(S, Batches(keys, S), <<>>) /\ InTurn(keys, S, Batches(keys, S), <<>>)
<1> DEFINE B == Batches(keys, S)
           W == WorkspacesOf(S)
           m == Cardinality(W)
<1>1. PICK order : /\ m \in Nat
                   /\ ListsInOrder(order, W, ServedPairs(keys, S))
                   /\ B = [i \in 1..m |-> Fifo(JobsOf(order[i], S))]
  BY BatchesList
<1> DEFINE group(i) == JobsOf(order[i], S)
<1>2. /\ \A i \in 1..m : order[i] \in W
      /\ \A w \in W : \E i \in 1..m : order[i] = w
      /\ \A i, k \in 1..m : i < k => <<order[i], order[k]>> \in ServedPairs(keys, S)
  BY <1>1 DEF ListsInOrder
<1>3. m \in Nat /\ Len(B) = m /\ \A i \in 1..m : B[i] = Fifo(group(i))
  <2> HIDE DEF m, B, group
  <2> QED
    BY <1>1 DEF group
<1> HIDE DEF B, m
<1>4. ASSUME NEW i \in 1..m
      PROVE  /\ group(i) \in SUBSET Waiting /\ group(i) # {} /\ group(i) \subseteq S
             /\ \A j \in group(i) : WorkspaceOf[j] = order[i]
             /\ \A j \in S : WorkspaceOf[j] = order[i] => j \in group(i)
             /\ B[i] \in Seq(group(i)) /\ Len(B[i]) >= 1 /\ Len(B[i]) \in Nat
             /\ \A n \in 1..Len(B[i]) : B[i][n] \in group(i)
             /\ \A j \in group(i) : \E n \in 1..Len(B[i]) : B[i][n] = j
             /\ \A n, r \in 1..Len(B[i]) : n < r => Index(B[i][n]) < Index(B[i][r])
             /\ B[i][1] = Oldest(group(i)) /\ B[i][1] \in group(i)
  <2>1. group(i) \in SUBSET Waiting /\ group(i) # {}
    BY <1>2, GroupsWait
  <2>2. /\ group(i) \subseteq S
        /\ \A j \in group(i) : WorkspaceOf[j] = order[i]
        /\ \A j \in S : WorkspaceOf[j] = order[i] => j \in group(i)
    BY DEF JobsOf
  <2>3. B[i] = Fifo(group(i))
    BY <1>3
  <2> HIDE DEF group
  <2>4. /\ Fifo(group(i)) \in Seq(group(i)) /\ Len(Fifo(group(i))) = Cardinality(group(i))
        /\ \A j \in group(i) : \E n \in 1..Cardinality(group(i)) : Fifo(group(i))[n] = j
        /\ \A n, r \in 1..Cardinality(group(i)) : n < r => Index(Fifo(group(i))[n]) < Index(Fifo(group(i))[r])
    BY <2>1, FifoLists
  <2>5. Cardinality(group(i)) >= 1 /\ Fifo(group(i))[1] = Oldest(group(i)) /\ Oldest(group(i)) \in group(i)
    BY <2>1, OldestIs
  <2>6. \A n \in 1..Len(B[i]) : B[i][n] \in group(i)
    BY <2>3, <2>4
  <2>7. Len(B[i]) \in Nat /\ Len(B[i]) >= 1
    BY <2>3, <2>4, <2>5
  <2> QED
    BY <2>1, <2>2, <2>3, <2>4, <2>5, <2>6, <2>7
<1>5. \A i \in 1..m : WorkspaceOf[B[i][1]] = order[i] /\ B[i][1] \in S
  <2>1. TAKE i \in 1..m
  <2>2. B[i][1] \in group(i) /\ group(i) \subseteq S /\ \A j \in group(i) : WorkspaceOf[j] = order[i]
    BY <1>4
  <2> HIDE DEF group
  <2> QED
    BY <2>2
<1>6. \A v, w \in W : <<v, w>> \in ServedPairs(keys, S) =>
        /\ LastServed(keys, v) \in Nat /\ LastServed(keys, w) \in Nat
        /\ LastServed(keys, v) <= LastServed(keys, w) /\ v # w
  <2>1. TAKE v, w \in W
  <2>2. HAVE <<v, w>> \in ServedPairs(keys, S)
  <2>3. LeastRecentlyServed(keys, S, v, w)
    BY <2>2 DEF ServedPairs
  <2>4. v \in Workspaces /\ w \in Workspaces
    BY GroupsWait
  <2>5. LastServed(keys, v) \in Nat /\ LastServed(keys, w) \in Nat
    BY <2>4, ServedTyped
  <2>6. v # w
    BY <2>2, BatchesOrdered DEF Orders
  <2> QED
    BY <2>3, <2>5, <2>6 DEF LeastRecentlyServed
<1>7. \A i, k \in 1..m : i # k => order[i] # order[k]
  <2>1. TAKE i, k \in 1..m
  <2>2. HAVE i # k
  <2>3. i < k \/ k < i
    BY <1>3, <2>2
  <2> QED
    BY <1>2, <1>6, <2>3
<1>8. Split(S, B, <<>>)
  <2>1. B \in Seq(Seq(S))
    <3>1. \A i \in 1..m : B[i] \in Seq(S)
      <4>1. TAKE i \in 1..m
      <4>2. B[i] \in Seq(group(i)) /\ group(i) \subseteq S
        BY <1>4
      <4> HIDE DEF group
      <4> QED
        BY <4>2
    <3>2. B = [i \in 1..m |-> B[i]]
      BY <1>1 DEF B
    <3> QED
      BY <1>3, <3>1, <3>2
  <2>2. \A j \in S : \E i \in 1..Len(B) : \E n \in 1..Len(B[i]) : B[i][n] = j
    <3>1. TAKE j \in S
    <3>2. WorkspaceOf[j] \in W
      BY DEF WorkspacesOf
    <3>3. PICK i \in 1..m : order[i] = WorkspaceOf[j]
      BY <1>2, <3>2
    <3>4. \E n \in 1..Len(B[i]) : B[i][n] = j
      <4> HIDE DEF group
      <4> QED
        BY <1>4, <3>3
    <3> QED
      BY <1>3, <3>4
  <2>3. \A i \in 1..Len(B) : Len(B[i]) >= 1
    BY <1>3, <1>4
  <2>4. \A i \in 1..Len(B) : \A n \in 1..Len(B[i]) : WorkspaceOf[B[i][n]] = WorkspaceOf[B[i][1]]
    <3> HIDE DEF group
    <3> QED
      BY <1>3, <1>4, <1>5
  <2>5. \A i \in 1..Len(B) : \A n, r \in 1..Len(B[i]) : n < r => Index(B[i][n]) < Index(B[i][r])
    <3> HIDE DEF group
    <3> QED
      BY <1>3, <1>4
  <2>6. \A i, k \in 1..Len(B) : i # k => WorkspaceOf[B[i][1]] # WorkspaceOf[B[k][1]]
    BY <1>3, <1>5, <1>7
  <2>7. <<>> \in Seq(S) /\ 1..Len(<<>>) = {}
    OBVIOUS
  <2> QED
    BY <2>1, <2>2, <2>3, <2>4, <2>5, <2>6, <2>7 DEF Split
<1>9. \A i \in 1..m : Turn(S, B[i][1]) = 0
  <2>1. TAKE i \in 1..m
  <2> DEFINE older == {k \in S : WorkspaceOf[k] = WorkspaceOf[B[i][1]] /\ Index(k) < Index(B[i][1])}
  <2>2. ASSUME NEW k \in older PROVE FALSE
    <3>1. WorkspaceOf[k] = order[i] /\ k \in S
      BY <1>5
    <3>2. k \in group(i)
      BY <1>4, <3>1
    <3>3. group(i) \in SUBSET Waiting /\ group(i) # {} /\ B[i][1] = Oldest(group(i))
      BY <1>4
    <3> HIDE DEF group
    <3>4. Index(B[i][1]) <= Index(k)
      BY <3>2, <3>3, OldestIs
    <3>5. Index(k) < Index(B[i][1])
      OBVIOUS
    <3>6. Index(k) \in Int /\ Index(B[i][1]) \in Int
      BY <1>5, <3>1, Places
    <3> HIDE DEF older
    <3> QED
      BY <3>4, <3>5, <3>6
  <2>3. older = {}
    BY <2>2
  <2>4. Turn(S, B[i][1]) = Cardinality(older)
    BY DEF Turn
  <2> HIDE DEF older
  <2> QED
    BY <2>3, <2>4, FS_EmptySet
<1>10. InTurn(keys, S, B, <<>>)
  <2>1. \A i, k \in 1..Len(B) : i < k => NoLater(keys, S, B[i][1], B[k][1])
    <3>1. TAKE i, k \in 1..Len(B)
    <3>2. HAVE i < k
    <3>3. <<order[i], order[k]>> \in ServedPairs(keys, S)
      BY <1>2, <1>3, <3>2
    <3>4. LastServed(keys, order[i]) <= LastServed(keys, order[k])
      BY <1>2, <1>3, <1>6, <3>3
    <3> QED
      BY <1>3, <1>5, <1>9, <3>4 DEF NoLater
  <2>2. \A i, k \in 1..Len(B) : Turn(S, B[i][1]) <= Turn(S, B[k][1]) + 1
    BY <1>3, <1>9
  <2>3. \A i, k \in 1..Len(B) : Turn(S, B[i][1]) # Turn(S, B[k][1]) + 1
    BY <1>3, <1>9
  <2>4. 1..Len(<<>>) = {}
    OBVIOUS
  <2> QED
    BY <2>1, <2>2, <2>3, <2>4 DEF InTurn
<1> QED
  BY <1>8, <1>10 DEF B

\* After i turns, i jobs are ordered and the rest is split and in turn.
AfterTurns(keys, S, i) ==
  LET st == Turns(Batches(keys, S), Cardinality(S))[i]
  IN  /\ st = [batches |-> st.batches, ordered |-> st.ordered]
      /\ Split(S, st.batches, st.ordered) /\ InTurn(keys, S, st.batches, st.ordered)
      /\ Len(st.ordered) = i

LEMMA EveryTurn ==
  ASSUME LineOK, ServedOK, NEW keys, NEW S \in SUBSET Waiting
  PROVE  \A i \in 0..Cardinality(S) : AfterTurns(keys, S, i)
<1> DEFINE n == Cardinality(S)
           turn == Turns(Batches(keys, S), n)
           Bad == {i \in 0..n : ~ AfterTurns(keys, S, i)}
<1>1. n \in Nat /\ IsFiniteSet(S)
  BY FifoLists
<1>2. turn = [i \in 0..n |-> IF i = 0 THEN [batches |-> Batches(keys, S), ordered |-> <<>>]
                                     ELSE Shift(turn[i - 1])]
  <2> HIDE DEF n
  <2> QED
    BY <1>1, TurnsDefined
<1> HIDE DEF turn
<1>3. turn[0] = [batches |-> Batches(keys, S), ordered |-> <<>>] /\ \A i \in 1..n : turn[i] = Shift(turn[i - 1])
  <2> HIDE DEF n
  <2>1. 0 \in 0..n /\ \A i \in 1..n : i \in 0..n /\ i # 0
    BY <1>1
  <2> QED
    BY <1>2, <2>1
<1>4. \A i : AfterTurns(keys, S, i) <=>
        /\ turn[i] = [batches |-> turn[i].batches, ordered |-> turn[i].ordered]
        /\ Split(S, turn[i].batches, turn[i].ordered) /\ InTurn(keys, S, turn[i].batches, turn[i].ordered)
        /\ Len(turn[i].ordered) = i
  BY DEF AfterTurns, turn
<1>5. SUFFICES ASSUME Bad # {} PROVE FALSE
  OBVIOUS
<1>6. PICK i \in Bad : \A k \in Bad : ~ (<<k, i>> \in OpToRel(<, Nat))
  <2>1. Bad \subseteq Nat
    BY <1>1
  <2> HIDE DEF Bad
  <2> QED
    BY <1>5, <2>1, NatLessThanWellFounded, WFMin
<1>7. i \in 0..n /\ ~ AfterTurns(keys, S, i)
  BY <1>6
<1>8. CASE i = 0
  <2>1. Split(S, turn[0].batches, turn[0].ordered) /\ InTurn(keys, S, turn[0].batches, turn[0].ordered)
    BY <1>3, BatchesReady
  <2>2. turn[0] = [batches |-> turn[0].batches, ordered |-> turn[0].ordered] /\ Len(turn[0].ordered) = 0
    BY <1>3
  <2> QED
    BY <1>4, <1>7, <1>8, <2>1, <2>2
<1>9. CASE i # 0
  <2>1. i - 1 \in 0..n /\ i \in 1..n /\ i \in Nat
    BY <1>1, <1>7, <1>9
  <2>2. AfterTurns(keys, S, i - 1)
    <3>1. <<i - 1, i>> \in OpToRel(<, Nat)
      BY <2>1 DEF OpToRel
    <3> QED
      BY <1>6, <2>1, <3>1
  <2> DEFINE B == turn[i - 1].batches
             o == turn[i - 1].ordered
             C == turn[i].batches
             q == turn[i].ordered
  <2>3. turn[i - 1] = [batches |-> B, ordered |-> o] /\ Split(S, B, o) /\ InTurn(keys, S, B, o) /\ Len(o) = i - 1
    BY <1>4, <2>2
  <2>4. turn[i] = Shift([batches |-> B, ordered |-> o])
    BY <1>3, <2>1, <2>3
  <2> HIDE DEF B, o, n
  <2>5. B \in Seq(Seq(S)) /\ o \in Seq(S) /\ \A k \in 1..Len(B) : Len(B[k]) >= 1
    BY <2>3 DEF Split
  <2>6. Len(B) >= 1
    <3>1. SUFFICES ASSUME Len(B) = 0 PROVE FALSE
      BY <2>5
    <3>2. \A j \in S : \E p \in 1..Len(o) : o[p] = j
      BY <2>3, <3>1 DEF Split
    <3>3. o \in Surjection(1..Len(o), S)
      BY <2>5, <3>2 DEF Surjection
    <3>4. Len(o) \in Nat
      BY <2>5
    <3>5. IsFiniteSet(1..Len(o)) /\ Cardinality(1..Len(o)) = Len(o)
      <4> DEFINE l == Len(o)
      <4> HIDE DEF l
      <4>1. l \in Nat
        BY <3>4 DEF l
      <4>2. IsFiniteSet(1..l) /\ Cardinality(1..l) = l
        BY <4>1, FS_Interval
      <4> QED
        BY <4>2 DEF l
    <3>6. n <= Len(o)
      BY <3>3, <3>5, FS_Surjection DEF n
    <3> QED
      BY <1>1, <2>1, <2>3, <3>6, <3>4
  <2>7. Len(B[1]) >= 1
    BY <2>5, <2>6
  <2>8. turn[i] = [batches |-> C, ordered |-> q] /\ Shifted(S, B, o, C, q)
    BY <2>4, <2>5, <2>6, <2>7, ShiftIs
  <2>9. Split(S, C, q) /\ InTurn(keys, S, C, q)
    <3> HIDE DEF C, q
    <3> QED
      BY <2>3, <2>6, <2>8, SplitKept, InTurnKept
  <2>10. Len(q) = i
    <3>1. Len(q) = Len(o) + 1
      BY <2>8 DEF Shifted
    <3>2. Len(o) = i - 1 /\ i \in Int
      BY <1>1, <2>1, <2>3
    <3> HIDE DEF q
    <3> QED
      BY <3>1, <3>2
  <2> QED
    BY <1>4, <1>7, <2>8, <2>9, <2>10
<1> QED
  BY <1>8, <1>9

\* rotateByWorkspace lists its candidates, each once, in turn.
LEMMA Rotation ==
  ASSUME LineOK, ServedOK, NEW keys, NEW S \in SUBSET Waiting
  PROVE  LET r == RotateByWorkspace(keys, S)
         IN  /\ r \in Seq(S) /\ Len(r) = Cardinality(S) /\ Len(r) \in Nat
             /\ \A j \in S : \E p \in 1..Len(r) : r[p] = j
             /\ \A p, q \in 1..Len(r) : p < q => r[p] # r[q]
             /\ \A p, q \in 1..Len(r) : p < q => NoLater(keys, S, r[p], r[q])
<1> DEFINE n == Cardinality(S)
           r == RotateByWorkspace(keys, S)
           st == Turns(Batches(keys, S), n)[n]
<1>1. n \in Nat /\ IsFiniteSet(S)
  BY FifoLists
<1>2. r = st.ordered
  <2> HIDE DEF n
  <2> QED
    BY <1>1, TurnsDefined DEF RotateByWorkspace, n
<1>3. AfterTurns(keys, S, n)
  <2> HIDE DEF n
  <2>1. n \in 0..n
    BY <1>1
  <2> QED
    BY <2>1, EveryTurn DEF n
<1>4. Split(S, st.batches, r) /\ InTurn(keys, S, st.batches, r) /\ Len(r) = n
  BY <1>2, <1>3 DEF AfterTurns
<1> HIDE DEF r, n, st
<1>5. r \in Seq(S) /\ \A p, q \in 1..Len(r) : p < q => r[p] # r[q]
  BY <1>4 DEF Split
<1>6. \A p, q \in 1..Len(r) : p < q => NoLater(keys, S, r[p], r[q])
  BY <1>4 DEF InTurn
<1>7. \A j \in S : \E p \in 1..Len(r) : r[p] = j
  <2>1. \A p, q \in 1..Len(r) : r[p] = r[q] => p = q
    <3>1. TAKE p, q \in 1..Len(r)
    <3>2. p < q \/ q < p \/ p = q
      BY <1>1, <1>4
    <3> QED
      BY <1>5, <3>2
  <2>2. r \in [1..Len(r) -> S]
    BY <1>5
  <2>3. r \in Injection(1..Len(r), S)
    BY <2>1, <2>2 DEF Injection, IsInjective
  <2>4. IsFiniteSet(1..n) /\ Cardinality(1..n) = n
    BY <1>1, FS_Interval
  <2>5. r \in Surjection(1..n, S)
    BY <1>1, <1>4, <2>3, <2>4, FS_Injection DEF n
  <2> QED
    BY <1>4, <2>5 DEF Surjection
<1> QED
  BY <1>1, <1>4, <1>5, <1>6, <1>7 DEF r, n

-----------------------------------------------------------------------------
(* The order of the whole line.                                            *)

RotatedTier(t) == IF t = 1 THEN Waiting \cap Blocking ELSE Waiting \ (Blocking \cup agedJobs)
TierOf(j) == IF j \in Blocking THEN 1 ELSE IF j \in agedJobs THEN 2 ELSE 3

\* j may be tried before k.
MayPrecede(keys, j, k) ==
  /\ j # k
  /\ TierOf(j) <= TierOf(k)
  /\ TierOf(j) = 2 /\ TierOf(k) = 2 => Index(j) < Index(k)
  /\ \A t \in {1, 3} : TierOf(j) = t /\ TierOf(k) = t => NoLater(keys, RotatedTier(t), j, k)

LEMMA TiersSplit ==
  ASSUME LineOK, agedJobs \subseteq Waiting
  PROVE  /\ \A j \in RotatedTier(1) : TierOf(j) = 1
         /\ \A j \in agedJobs \ Blocking : TierOf(j) = 2
         /\ \A j \in RotatedTier(3) : TierOf(j) = 3
         /\ \A j \in Waiting : j \in RotatedTier(1) \/ j \in agedJobs \ Blocking \/ j \in RotatedTier(3)
         /\ RotatedTier(1) \in SUBSET Waiting /\ RotatedTier(3) \in SUBSET Waiting
         /\ agedJobs \ Blocking \in SUBSET Waiting
         /\ Cardinality(Waiting) =
              Cardinality(RotatedTier(1)) + Cardinality(agedJobs \ Blocking) + Cardinality(RotatedTier(3))
<1> DEFINE A == RotatedTier(1)
           F == agedJobs \ Blocking
           R == RotatedTier(3)
<1>1. A = Waiting \cap Blocking /\ R = Waiting \ (Blocking \cup agedJobs)
  BY DEF RotatedTier
<1>2. A \in SUBSET Waiting /\ F \in SUBSET Waiting /\ R \in SUBSET Waiting
  BY <1>1
<1>3. A \cap F = {} /\ (A \cup F) \cap R = {} /\ A \cup F \cup R = Waiting
  BY <1>1
<1>4. /\ \A j \in A : TierOf(j) = 1
      /\ \A j \in F : TierOf(j) = 2
      /\ \A j \in R : TierOf(j) = 3
  BY <1>1 DEF TierOf
<1> HIDE DEF A, F, R
<1>5. Cardinality(Waiting) = Cardinality(A) + Cardinality(F) + Cardinality(R)
  <2>1. /\ IsFiniteSet(A) /\ IsFiniteSet(F) /\ IsFiniteSet(R)
        /\ Cardinality(A) \in Nat /\ Cardinality(F) \in Nat /\ Cardinality(R) \in Nat
    BY <1>2, FifoLists
  <2>2. IsFiniteSet(A \cup F) /\ Cardinality(A \cup F) = Cardinality(A) + Cardinality(F)
    BY <1>3, <2>1, FS_Union, FS_EmptySet
  <2>3. Cardinality((A \cup F) \cup R) = Cardinality(A \cup F) + Cardinality(R)
    <3> DEFINE U == A \cup F
    <3>1. IsFiniteSet(U) /\ U \cap R = {} /\ Cardinality(U) \in Nat
      BY <1>3, <2>1, <2>2
    <3> HIDE DEF U
    <3>2. Cardinality(U \cup R) = Cardinality(U) + Cardinality(R) - Cardinality({})
      BY <2>1, <3>1, FS_Union
    <3>3. Cardinality(U \cup R) = Cardinality(U) + Cardinality(R)
      BY <2>1, <3>1, <3>2, FS_EmptySet
    <3> QED
      BY <3>3 DEF U
  <2>4. Waiting = (A \cup F) \cup R
    BY <1>3
  <2> QED
    BY <2>1, <2>2, <2>3, <2>4
<1>6. \A j \in Waiting : j \in A \/ j \in F \/ j \in R
  BY <1>3
<1> QED
  BY <1>2, <1>4, <1>5, <1>6 DEF A, F, R

LEMMA LineOrdered ==
  ASSUME LineOK, ServedOK, agedJobs \subseteq Waiting, NEW keys
  PROVE  LET order == OrderHeavyJobs(keys)
         IN  /\ order \in Seq(Waiting) /\ Len(order) = Len(line) /\ Len(order) \in Nat
             /\ \A j \in Waiting : \E p \in 1..Len(order) : order[p] = j
             /\ \A p, q \in 1..Len(order) : p < q => MayPrecede(keys, order[p], order[q])
<1> DEFINE A == RotatedTier(1)
           F == agedJobs \ Blocking
           R == RotatedTier(3)
           ra == RotateByWorkspace(keys, A)
           fi == Fifo(F)
           rr == RotateByWorkspace(keys, R)
           order == OrderHeavyJobs(keys)
           a == Len(ra)
           b == Len(fi)
           c == Len(rr)
<1>1. order = ra \o fi \o rr
  BY DEF OrderHeavyJobs, RotatedTier
<1>2. A \in SUBSET Waiting /\ F \in SUBSET Waiting /\ R \in SUBSET Waiting
  BY TiersSplit
<1> HIDE DEF A, F, R
<1>3. /\ ra \in Seq(A) /\ a = Cardinality(A) /\ a \in Nat
      /\ \A j \in A : \E p \in 1..a : ra[p] = j
      /\ \A p, q \in 1..a : p < q => ra[p] # ra[q] /\ NoLater(keys, A, ra[p], ra[q])
  <2>1. /\ ra \in Seq(A) /\ a = Cardinality(A) /\ a \in Nat
        /\ \A j \in A : \E p \in 1..a : ra[p] = j
        /\ \A p, q \in 1..a : p < q => ra[p] # ra[q]
        /\ \A p, q \in 1..a : p < q => NoLater(keys, A, ra[p], ra[q])
    BY <1>2, Rotation
  <2> HIDE DEF ra, a
  <2> QED
    BY <2>1
<1>4. /\ rr \in Seq(R) /\ c = Cardinality(R) /\ c \in Nat
      /\ \A j \in R : \E p \in 1..c : rr[p] = j
      /\ \A p, q \in 1..c : p < q => rr[p] # rr[q] /\ NoLater(keys, R, rr[p], rr[q])
  <2>1. /\ rr \in Seq(R) /\ c = Cardinality(R) /\ c \in Nat
        /\ \A j \in R : \E p \in 1..c : rr[p] = j
        /\ \A p, q \in 1..c : p < q => rr[p] # rr[q]
        /\ \A p, q \in 1..c : p < q => NoLater(keys, R, rr[p], rr[q])
    BY <1>2, Rotation
  <2> HIDE DEF rr, c
  <2> QED
    BY <2>1
<1>5. /\ fi \in Seq(F) /\ b = Cardinality(F) /\ b \in Nat
      /\ \A j \in F : \E p \in 1..b : fi[p] = j
      /\ \A p, q \in 1..b : p < q => Index(fi[p]) < Index(fi[q])
  BY <1>2, FifoLists
<1> HIDE DEF ra, fi, rr, order
<1>6. /\ order \in Seq(Waiting) /\ Len(order) = a + b + c
      /\ \A p \in 1..a : order[p] = ra[p]
      /\ \A p \in 1..b : order[a + p] = fi[p]
      /\ \A p \in 1..c : order[a + b + p] = rr[p]
  <2>1. ra \in Seq(Waiting) /\ fi \in Seq(Waiting) /\ rr \in Seq(Waiting)
    BY <1>2, <1>3, <1>4, <1>5
  <2>2. order \in Seq(Waiting) /\ Len(order) = a + b + c
    BY <1>1, <2>1
  <2>3. \A p \in 1..a : order[p] = ra[p]
    BY <1>1, <2>1
  <2>4. \A p \in 1..b : order[a + p] = fi[p]
    BY <1>1, <2>1
  <2>5. \A p \in 1..c : order[a + b + p] = rr[p]
    BY <1>1, <2>1
  <2> QED
    BY <2>2, <2>3, <2>4, <2>5
<1>7. Len(order) = Len(line)
  <2>1. Cardinality(Waiting) = Cardinality(A) + Cardinality(F) + Cardinality(R)
    BY TiersSplit DEF A, F, R
  <2> QED
    BY <1>3, <1>4, <1>5, <1>6, <2>1, Places
<1> HIDE DEF a, b, c
<1>8. a \in Nat /\ b \in Nat /\ c \in Nat /\ Len(order) = a + b + c
  BY <1>3, <1>4, <1>5, <1>6
<1>9. /\ \A p \in 1..a : p \in 1..Len(order) /\ order[p] = ra[p] /\ ra[p] \in A
      /\ \A p \in 1..b : a + p \in 1..Len(order) /\ order[a + p] = fi[p] /\ fi[p] \in F
      /\ \A p \in 1..c : a + b + p \in 1..Len(order) /\ order[a + b + p] = rr[p] /\ rr[p] \in R
  <2>1. /\ \A p \in 1..a : p \in 1..(a + b + c)
        /\ \A p \in 1..b : a + p \in 1..(a + b + c)
        /\ \A p \in 1..c : a + b + p \in 1..(a + b + c)
    BY <1>8
  <2>2. \A p \in 1..a : ra[p] \in A
    BY <1>3 DEF a
  <2>3. \A p \in 1..b : fi[p] \in F
    BY <1>5 DEF b
  <2>4. \A p \in 1..c : rr[p] \in R
    BY <1>4 DEF c
  <2> QED
    BY <1>6, <1>8, <2>1, <2>2, <2>3, <2>4
<1>10. \A j \in Waiting : \E p \in 1..Len(order) : order[p] = j
  <2>1. TAKE j \in Waiting
  <2>2. CASE j \in A
    <3>1. PICK p \in 1..a : ra[p] = j
      BY <1>3, <2>2
    <3>2. p \in 1..Len(order) /\ order[p] = j
      BY <1>9, <3>1
    <3> QED
      BY <3>2
  <2>3. CASE j \in F
    <3>1. PICK p \in 1..b : fi[p] = j
      BY <1>5, <2>3
    <3>2. a + p \in 1..Len(order) /\ order[a + p] = j
      BY <1>9, <3>1
    <3> QED
      BY <3>2
  <2>4. CASE j \in R
    <3>1. PICK p \in 1..c : rr[p] = j
      BY <1>4, <2>4
    <3>2. a + b + p \in 1..Len(order) /\ order[a + b + p] = j
      BY <1>9, <3>1
    <3> QED
      BY <3>2
  <2> QED
    BY <2>2, <2>3, <2>4, TiersSplit DEF A, F, R
\* The part of the order that position p is in, and its place there.
<1> DEFINE In1(p, i) == i \in 1..a /\ p = i /\ order[p] = ra[i] /\ order[p] \in A
           In2(p, i) == i \in 1..b /\ p = a + i /\ order[p] = fi[i] /\ order[p] \in F
           In3(p, i) == i \in 1..c /\ p = a + b + i /\ order[p] = rr[i] /\ order[p] \in R
<1>11. ASSUME NEW p \in 1..Len(order)
       PROVE  \E i : In1(p, i) \/ In2(p, i) \/ In3(p, i)
  <2>1. CASE p <= a
    <3>1. p \in 1..a
      BY <1>3, <2>1
    <3>2. order[p] = ra[p] /\ order[p] \in A
      BY <1>9, <3>1
    <3> QED
      BY <3>1, <3>2
  <2>2. CASE p > a /\ p <= a + b
    <3>1. p - a \in 1..b /\ a + (p - a) = p
      BY <1>3, <1>5, <2>2
    <3>2. order[a + (p - a)] = fi[p - a] /\ fi[p - a] \in F
      BY <1>9, <3>1
    <3> QED
      BY <3>1, <3>2
  <2>3. CASE p > a + b
    <3>1. p - a - b \in 1..c /\ a + b + (p - a - b) = p
      BY <1>8, <2>3
    <3>2. order[a + b + (p - a - b)] = rr[p - a - b] /\ rr[p - a - b] \in R
      BY <1>9, <3>1
    <3> QED
      BY <3>1, <3>2
  <2> QED
    BY <1>3, <1>5, <2>1, <2>2, <2>3
<1>12. /\ \A j \in A : TierOf(j) = 1
       /\ \A j \in F : TierOf(j) = 2
       /\ \A j \in R : TierOf(j) = 3
  BY TiersSplit DEF A, F, R
<1>13. ASSUME NEW p \in 1..Len(order), NEW q \in 1..Len(order), p < q
       PROVE  MayPrecede(keys, order[p], order[q])
  <2>1. PICK i : In1(p, i) \/ In2(p, i) \/ In3(p, i)
    BY <1>11
  <2>2. PICK k : In1(q, k) \/ In2(q, k) \/ In3(q, k)
    BY <1>11
  <2>3. CASE In1(p, i) /\ In1(q, k)
    <3>1. i < k
      BY <1>13, <2>3
    <3>2. order[p] # order[q] /\ NoLater(keys, A, order[p], order[q])
      BY <1>3, <2>3, <3>1
    <3> QED
      BY <1>12, <2>3, <3>2 DEF MayPrecede, A
  <2>4. CASE In2(p, i) /\ In2(q, k)
    <3>1. i < k
      BY <1>3, <1>5, <1>13, <2>4
    <3>2. Index(order[p]) < Index(order[q])
      BY <1>5, <2>4, <3>1
    <3>3. Index(order[p]) \in Int /\ Index(order[q]) \in Int
      BY <1>2, <2>4, Places
    <3>4. order[p] # order[q]
      BY <3>2, <3>3
    <3> QED
      BY <1>12, <2>4, <3>2, <3>4 DEF MayPrecede
  <2>5. CASE In3(p, i) /\ In3(q, k)
    <3>1. i < k
      BY <1>3, <1>4, <1>5, <1>13, <2>5
    <3>2. order[p] # order[q] /\ NoLater(keys, R, order[p], order[q])
      BY <1>4, <2>5, <3>1
    <3> QED
      BY <1>12, <2>5, <3>2 DEF MayPrecede, R
  <2>6. ~ (In2(p, i) /\ In1(q, k)) /\ ~ (In3(p, i) /\ In1(q, k)) /\ ~ (In3(p, i) /\ In2(q, k))
    BY <1>3, <1>4, <1>5, <1>13
  <2>7. CASE TierOf(order[p]) < TierOf(order[q]) /\ TierOf(order[p]) \in {1, 2, 3} /\ TierOf(order[q]) \in {1, 2, 3}
    <3>1. TierOf(order[p]) # TierOf(order[q])
      BY <2>7
    <3>2. TierOf(order[p]) <= TierOf(order[q])
      BY <2>7
    <3> HIDE DEF In1, In2, In3
    <3> QED
      BY <3>1, <3>2 DEF MayPrecede
  <2> QED
    BY <1>12, <2>1, <2>2, <2>3, <2>4, <2>5, <2>6, <2>7
<1> QED
  BY <1>6, <1>7, <1>10, <1>13 DEF order, a, b, c

\* k, which may not come after j, comes before it.
LEMMA Precedes ==
  ASSUME LineOK, ServedOK, agedJobs \subseteq Waiting, NEW keys,
         NEW p \in 1..Len(OrderHeavyJobs(keys)), NEW k \in Waiting,
         OrderHeavyJobs(keys)[p] # k, ~ MayPrecede(keys, OrderHeavyJobs(keys)[p], k)
  PROVE  \E q \in 1..Len(OrderHeavyJobs(keys)) : q < p /\ OrderHeavyJobs(keys)[q] = k
<1> DEFINE order == OrderHeavyJobs(keys)
<1>1. PICK q \in 1..Len(order) : order[q] = k
  BY LineOrdered
<1>2. Len(order) \in Nat /\ \A m, n \in 1..Len(order) : m < n => MayPrecede(keys, order[m], order[n])
  BY LineOrdered
<1> HIDE DEF order
<1>3. order[p] # k /\ ~ MayPrecede(keys, order[p], k) /\ p \in 1..Len(order)
  BY DEF order
<1>4. q # p /\ ~ (p < q)
  BY <1>1, <1>2, <1>3
<1>5. q < p
  BY <1>1, <1>2, <1>3, <1>4
<1> QED
  BY <1>1, <1>5 DEF order

\* OrderIsFair, of any state with a line and a history.
LEMMA OrderFair ==
  ASSUME LineOK, ServedOK, agedJobs \subseteq Waiting
  PROVE  OrderIsFair
<1> DEFINE order == OrderHeavyJobs(known)
           n == Len(order)
           rank(j) == CHOOSE i \in DOMAIN order : order[i] = j
           L(j) == LastServed(known, WorkspaceOf[j])
<1>1. /\ order \in Seq(Waiting) /\ n = Len(line) /\ n \in Nat
      /\ \A j \in Waiting : \E p \in 1..n : order[p] = j
      /\ \A p, q \in 1..n : p < q => MayPrecede(known, order[p], order[q])
  BY LineOrdered
<1> HIDE DEF order
<1>2. DOMAIN order = 1..n
  BY <1>1
<1>3. ToSet(order) = Waiting
  <2>1. ToSet(order) = {order[p] : p \in 1..n}
    BY <1>2 DEF ToSet
  <2>2. \A p \in 1..n : order[p] \in Waiting
    BY <1>1
  <2> QED
    BY <1>1, <2>1, <2>2
<1>4. \A j \in Waiting : rank(j) \in 1..n /\ order[rank(j)] = j
  BY <1>1, <1>2
<1> HIDE DEF rank
<1>5. ASSUME NEW j \in Waiting, NEW k \in Waiting, ~ MayPrecede(known, k, j), j # k
      PROVE  rank(j) < rank(k)
  <2>1. rank(j) # rank(k) /\ ~ (rank(k) < rank(j))
    BY <1>1, <1>4, <1>5
  <2>2. rank(j) \in 1..n /\ rank(k) \in 1..n
    BY <1>4
  <2> QED
    BY <1>1, <2>1, <2>2
<1>6. \A j \in Waiting : TierOf(j) \in {1, 2, 3} /\ L(j) \in Nat /\ Index(j) \in Int
  <2>1. \A j \in Waiting : WorkspaceOf[j] \in Workspaces
    BY Places DEF Workspaces
  <2> QED
    BY <2>1, Places, ServedTyped DEF TierOf
<1>7. \A j, k \in Waiting : TierOf(j) < TierOf(k) => rank(j) < rank(k)
  <2>1. TAKE j, k \in Waiting
  <2>2. HAVE TierOf(j) < TierOf(k)
  <2>3. ~ (TierOf(k) <= TierOf(j)) /\ j # k
    BY <1>6, <2>2
  <2>4. ~ MayPrecede(known, k, j)
    BY <2>3 DEF MayPrecede
  <2> QED
    BY <1>5, <2>3, <2>4
<1>8. \A j, k \in agedJobs \ Blocking : Index(j) < Index(k) => rank(j) < rank(k)
  <2>1. TAKE j, k \in agedJobs \ Blocking
  <2>2. HAVE Index(j) < Index(k)
  <2>3. TierOf(j) = 2 /\ TierOf(k) = 2 /\ j \in Waiting /\ k \in Waiting
    BY DEF TierOf
  <2>4. ~ (Index(k) < Index(j)) /\ j # k
    BY <1>6, <2>2, <2>3
  <2>5. ~ MayPrecede(known, k, j)
    BY <2>3, <2>4 DEF MayPrecede
  <2> QED
    BY <1>5, <2>3, <2>4, <2>5
<1>9. ASSUME NEW t \in {1, 3}, NEW j \in RotatedTier(t), NEW k \in RotatedTier(t),
             \/ Turn(RotatedTier(t), j) < Turn(RotatedTier(t), k)
             \/ Turn(RotatedTier(t), j) = Turn(RotatedTier(t), k) /\ L(j) < L(k)
      PROVE  rank(j) < rank(k)
  <2> DEFINE S == RotatedTier(t)
  <2>1. S \in SUBSET Waiting /\ TierOf(j) = t /\ TierOf(k) = t
    <3>1. CASE t = 1
      BY <3>1, TiersSplit
    <3>2. CASE t = 3
      BY <3>2, TiersSplit
    <3> QED
      BY <3>1, <3>2
  <2> HIDE DEF S
  <2>2. j \in Waiting /\ k \in Waiting /\ j \in S /\ k \in S
    BY <2>1 DEF S
  <2>3. Turn(S, j) \in Nat /\ Turn(S, k) \in Nat /\ L(j) \in Nat /\ L(k) \in Nat
    BY <1>6, <2>1, <2>2, TurnType
  <2>4. Turn(S, j) < Turn(S, k) \/ (Turn(S, j) = Turn(S, k) /\ L(j) < L(k))
    BY <1>9 DEF S
  <2>5. ~ NoLater(known, S, k, j) /\ j # k
    <3> HIDE DEF L
    <3>1. ~ (Turn(S, k) < Turn(S, j)) /\ ~ (Turn(S, k) = Turn(S, j) /\ L(k) <= L(j)) /\ j # k
      BY <2>3, <2>4
    <3> QED
      BY <3>1 DEF NoLater, L
  <2>6. ~ MayPrecede(known, k, j)
    BY <2>1, <2>5 DEF MayPrecede, S
  <2> QED
    BY <1>5, <2>2, <2>5, <2>6
<1>10. \A t \in {Waiting \cap Blocking, Waiting \ (Blocking \cup agedJobs)} : \A j, k \in t :
         \/ Turn(t, j) < Turn(t, k)
         \/ Turn(t, j) = Turn(t, k) /\ L(j) < L(k)
         => rank(j) < rank(k)
  <2>1. RotatedTier(1) = Waiting \cap Blocking /\ RotatedTier(3) = Waiting \ (Blocking \cup agedJobs)
    BY DEF RotatedTier
  <2> HIDE DEF L
  <2> QED
    BY <1>9, <2>1
<1>11. \A j : TierOf(j) = IF j \in Blocking THEN 1 ELSE IF j \in agedJobs THEN 2 ELSE 3
  BY DEF TierOf
<1> QED
  BY <1>1, <1>3, <1>7, <1>8, <1>10, <1>11 DEF OrderIsFair, rank, order

-----------------------------------------------------------------------------
(* Types.                                                                  *)

\* A standing backlog has an entry in lastServedAt: pruning leaves it alone.
OrderInd == OrderTypeOK /\ backlog \subseteq known

LEMMA Typed ==
  ASSUME OrderTypeOK
  PROVE  /\ LineOK /\ ServedOK /\ agedJobs \subseteq Waiting
         /\ Waiting \subseteq Candidates /\ IsFiniteSet(Waiting)
         /\ running \subseteq Candidates /\ running \cap Waiting = {}
<1>1. LineOK
  BY DEF OrderTypeOK, LineOK
<1>2. ServedOK
  BY DEF OrderTypeOK, ServedOK
<1> QED
  BY <1>1, <1>2, Places DEF OrderTypeOK

LEMMA LineWithout ==
  ASSUME LineOK, NEW S \in SUBSET Waiting
  PROVE  Fifo(S) \in Seq(Candidates) /\ IsInjective(Fifo(S)) /\ ToSet(Fifo(S)) = S
<1> DEFINE f == Fifo(S)
           n == Cardinality(S)
<1>1. /\ f \in Seq(S) /\ Len(f) = n /\ n \in Nat
      /\ \A j \in S : \E i \in 1..n : f[i] = j
      /\ \A i, k \in 1..n : i < k => Index(f[i]) < Index(f[k])
  BY FifoLists
<1>2. \A j \in S : j \in Candidates /\ Index(j) \in Int
  BY Places
<1> HIDE DEF f, n
<1>3. DOMAIN f = 1..n /\ \A i \in 1..n : f[i] \in S
  BY <1>1
<1>4. ToSet(f) = S
  <2>1. ToSet(f) = {f[i] : i \in 1..n}
    BY <1>3 DEF ToSet
  <2> QED
    BY <1>1, <1>3, <2>1
<1>5. IsInjective(f)
  <2>1. \A i, k \in 1..n : f[i] = f[k] => i = k
    <3>1. TAKE i, k \in 1..n
    <3>2. HAVE f[i] = f[k]
    <3>3. ~ (i < k) /\ ~ (k < i)
      BY <1>1, <1>2, <1>3, <3>2
    <3> QED
      BY <1>1, <3>3
  <2> QED
    BY <1>3, <2>1 DEF IsInjective
<1>6. f \in Seq(Candidates)
  BY <1>1, <1>2
<1> QED
  BY <1>4, <1>5, <1>6 DEF f

LEMMA ImageSize ==
  ASSUME NEW S, IsFiniteSet(S), NEW f
  PROVE  /\ IsFiniteSet({f[x] : x \in S}) /\ Cardinality({f[x] : x \in S}) \in Nat
         /\ Cardinality({f[x] : x \in S}) <= Cardinality(S)
<1> DEFINE T == {f[x] : x \in S}
           g == [x \in S |-> f[x]]
<1>1. g \in Surjection(S, T)
  BY DEF Surjection
<1> HIDE DEF T, g
<1>2. IsFiniteSet(T) /\ Cardinality(T) <= Cardinality(S)
  BY <1>1, FS_Surjection
<1> QED
  BY <1>2, FS_CardinalityType DEF T

LEMMA StampRanks ==
  ASSUME FairnessAssumption, NEW W
  PROVE  Stamp(W) \in [Workspaces -> 0..Cardinality(Workspaces)]
<1> DEFINE raw == [w \in Workspaces |-> IF w \in W THEN Cardinality(Workspaces) + 1 ELSE served[w]]
           low(w) == {u \in Workspaces : raw[u] # 0 /\ raw[u] <= raw[w]}
           below(w) == {raw[v] : v \in low(w)}
<1>1. IsFiniteSet(Workspaces)
  <2>1. Workspaces = {WorkspaceOf[j] : j \in Candidates}
    BY DEF Workspaces
  <2> QED
    BY <2>1, ImageSize DEF FairnessAssumption
<1>2. Stamp(W) = [w \in Workspaces |-> Cardinality(below(w))]
  BY DEF Stamp
<1> HIDE DEF raw
<1>3. \A w \in Workspaces : Cardinality(below(w)) \in 0..Cardinality(Workspaces)
  <2>1. TAKE w \in Workspaces
  <2>2. low(w) \in SUBSET Workspaces
    OBVIOUS
  <2> HIDE DEF low
  <2>3. IsFiniteSet(low(w)) /\ Cardinality(low(w)) <= Cardinality(Workspaces) /\ Cardinality(low(w)) \in Nat
    BY <1>1, <2>2, FS_Subset, FS_CardinalityType
  <2>4. Cardinality(below(w)) \in Nat /\ Cardinality(below(w)) <= Cardinality(low(w))
    BY <2>3, ImageSize
  <2>5. Cardinality(Workspaces) \in Nat
    BY <1>1, FS_CardinalityType
  <2> HIDE DEF below
  <2> QED
    BY <2>3, <2>4, <2>5
<1> HIDE DEF below
<1> QED
  BY <1>2, <1>3

\* The admitted jobs wait, and fit in the slots that are free.
LEMMA AdmittedFit ==
  ASSUME FairnessAssumption, OrderTypeOK, NEW busy \in SUBSET running
  PROVE  /\ Admitted(busy) \in SUBSET Waiting
         /\ IsFiniteSet(busy \cup Admitted(busy))
         /\ Cardinality(busy \cup Admitted(busy)) <= HeavySlots
<1> DEFINE order == OrderHeavyJobs(Pruned(known))
           free == HeavySlots - Cardinality(busy)
           I == {n \in DOMAIN order : n <= free}
           new == {order[i] : i \in I}
<1>1. Admitted(busy) = new
  BY DEF Admitted
<1>2. order \in Seq(Waiting) /\ Len(order) \in Nat
  BY Typed, LineOrdered
<1>3. /\ IsFiniteSet(running) /\ IsFiniteSet(busy) /\ Cardinality(busy) \in Nat
      /\ Cardinality(busy) <= HeavySlots /\ free \in Nat
  <2>1. IsFiniteSet(running)
    BY Typed, FS_Subset DEF FairnessAssumption
  <2>2. IsFiniteSet(busy) /\ Cardinality(busy) <= Cardinality(running)
    BY <2>1, FS_Subset
  <2>3. Cardinality(busy) \in Nat /\ Cardinality(running) \in Nat
    BY <2>1, <2>2, FS_CardinalityType
  <2> QED
    BY <2>1, <2>2, <2>3 DEF OrderTypeOK, FairnessAssumption
<1>4. new \in SUBSET Waiting
  BY <1>2
<1>5. I \in SUBSET (1..free)
  BY <1>2
<1> HIDE DEF free, I, order
<1>6. IsFiniteSet(1..free) /\ Cardinality(1..free) = free
  BY <1>3, FS_Interval
<1>7. IsFiniteSet(I) /\ Cardinality(I) <= free /\ Cardinality(I) \in Nat
  BY <1>5, <1>6, FS_Subset, FS_CardinalityType
<1>8. IsFiniteSet(new) /\ Cardinality(new) <= Cardinality(I) /\ Cardinality(new) \in Nat
  BY <1>7, ImageSize
<1>9. busy \cap new = {}
  BY <1>4, Typed
<1> HIDE DEF new
<1>10. IsFiniteSet(busy \cup new) /\ Cardinality(busy \cup new) = Cardinality(busy) + Cardinality(new) - Cardinality({})
  BY <1>3, <1>8, <1>9, FS_Union
<1>11. Cardinality(busy \cup new) <= HeavySlots
  <2>1. free = HeavySlots - Cardinality(busy)
    BY DEF free
  <2>2. Cardinality({}) = 0
    BY FS_EmptySet
  <2> QED
    BY <1>3, <1>7, <1>8, <1>10, <2>1, <2>2 DEF FairnessAssumption
<1> QED
  BY <1>1, <1>4, <1>10, <1>11

\* The jobs of S are of workspaces the model knows.
LEMMA KnownWorkspaces ==
  ASSUME NEW S \in SUBSET Candidates
  PROVE  WorkspacesOf(S) \subseteq Workspaces
BY DEF WorkspacesOf, Workspaces

LEMMA DrainKeepsTypes ==
  ASSUME FairnessAssumption, OrderInd, NEW busy \in SUBSET running, DrainInOrder(busy)
  PROVE  OrderInd'
<1>1. OrderTypeOK /\ backlog \subseteq known
  BY DEF OrderInd
<1> DEFINE new == Admitted(busy)
<1>2. /\ running' = busy \cup new
      /\ line' = Fifo(Waiting \ new)
      /\ agedJobs' = agedJobs \ new
      /\ known' = Pruned(known) \cup WorkspacesOf(new)
      /\ served' = Stamp(WorkspacesOf(new))
      /\ backlog' = (backlog \cup WorkspacesOf(new)) \cap WorkspacesOf(Waiting \ new)
  BY DEF DrainInOrder
<1>3. new \in SUBSET Waiting /\ Cardinality(busy \cup new) <= HeavySlots
  BY <1>1, AdmittedFit
<1> HIDE DEF new
<1>4. line' \in Seq(Candidates) /\ IsInjective(line') /\ ToSet(line') = Waiting \ new
  BY <1>1, <1>2, <1>3, LineWithout, Typed
<1>5. Waiting' = Waiting \ new
  BY <1>4 DEF Waiting
<1>6. agedJobs' \subseteq Waiting'
  BY <1>1, <1>2, <1>5 DEF OrderTypeOK
<1>7. running' \subseteq Candidates \ Waiting' /\ Cardinality(running') <= HeavySlots
  BY <1>1, <1>2, <1>3, <1>5, Typed
<1>8. Workspaces' = Workspaces
  BY DEF Workspaces
<1>9. known' \subseteq Workspaces
  <2>1. new \in SUBSET Candidates
    BY <1>1, <1>3, Typed
  <2> QED
    BY <1>1, <1>2, <2>1, KnownWorkspaces DEF Pruned, OrderTypeOK
<1>10. served' \in [Workspaces -> 0..Cardinality(Workspaces)]
  BY <1>2, StampRanks
<1>11. backlog' \subseteq WorkspacesOf(Waiting')
  BY <1>2, <1>5
<1>12. backlog' \subseteq known'
  <2>1. backlog \subseteq Pruned(known)
    BY <1>1 DEF OrderTypeOK, Pruned
  <2> QED
    BY <1>2, <2>1
<1>13. WorkspacesOf(Waiting)' = WorkspacesOf(Waiting')
  BY DEF WorkspacesOf
<1> QED
  BY <1>4, <1>6, <1>7, <1>8, <1>9, <1>10, <1>11, <1>12, <1>13 DEF OrderInd, OrderTypeOK

LEMMA OrderInductive ==
  ASSUME FairnessAssumption, OrderInd, [OrderNext]_orderVars
  PROVE  OrderInd'
<1>1. OrderTypeOK /\ backlog \subseteq known
  BY DEF OrderInd
<1>2. Workspaces' = Workspaces /\ WorkspacesOf(Waiting)' = WorkspacesOf(Waiting')
  BY DEF Workspaces, WorkspacesOf
<1>3. ASSUME NEW j \in Candidates, Submit(j) PROVE OrderInd'
  <2>1. /\ j \notin Waiting \cup running /\ line' = Append(line, j)
        /\ UNCHANGED <<agedJobs, running, known, served, backlog>>
    BY <1>3 DEF Submit
  <2>2. line \in Seq(Candidates) /\ Len(line) \in Nat /\ IsInjective(line)
    BY <1>1 DEF OrderTypeOK
  <2>3. /\ line' \in Seq(Candidates) /\ Len(line') = Len(line) + 1
        /\ \A i \in 1..Len(line) : line'[i] = line[i]
        /\ line'[Len(line) + 1] = j /\ DOMAIN line' = 1..(Len(line) + 1) /\ DOMAIN line = 1..Len(line)
    BY <2>1, <2>2
  <2>4. ToSet(line) = {line[i] : i \in 1..Len(line)} /\ ToSet(line') = {line'[i] : i \in 1..(Len(line) + 1)}
    BY <2>3 DEF ToSet
  <2>5. Waiting' = Waiting \cup {j}
    <3>1. Waiting = ToSet(line) /\ Waiting' = ToSet(line')
      BY DEF Waiting
    <3>2. \A i \in 1..(Len(line) + 1) : i \in 1..Len(line) \/ i = Len(line) + 1
      BY <2>2
    <3>3. \A i \in 1..Len(line) : i \in 1..(Len(line) + 1)
      BY <2>2
    <3>4. Len(line) + 1 \in 1..(Len(line) + 1)
      BY <2>2
    <3>5. \A k : k \in ToSet(line') <=> k \in ToSet(line) \/ k = j
      BY <2>3, <2>4, <3>2, <3>3, <3>4
    <3> QED
      BY <3>1, <3>5
  <2>6. IsInjective(line')
    <3>1. \A i \in 1..Len(line) : line[i] # j
      BY <2>1, <2>4 DEF Waiting
    <3>2. \A i, k \in 1..Len(line) : line[i] = line[k] => i = k
      BY <2>2, <2>3 DEF IsInjective
    <3>3. \A i, k \in 1..(Len(line) + 1) : line'[i] = line'[k] => i = k
      <4>1. \A i \in 1..(Len(line) + 1) : i \in 1..Len(line) \/ i = Len(line) + 1
        BY <2>2
      <4> QED
        BY <2>3, <3>1, <3>2, <4>1
    <3> QED
      BY <2>3, <3>3 DEF IsInjective
  <2>7. WorkspacesOf(Waiting) \subseteq WorkspacesOf(Waiting')
    BY <2>5 DEF WorkspacesOf
  <2> QED
    BY <1>1, <1>2, <2>1, <2>3, <2>5, <2>6, <2>7 DEF OrderInd, OrderTypeOK
<1>4. ASSUME NEW j \in Candidates, FinishJob(j) PROVE OrderInd'
  <2>1. running \ {j} \in SUBSET running /\ DrainInOrder(running \ {j})
    BY <1>4 DEF FinishJob
  <2> QED
    BY <2>1, DrainKeepsTypes
<1>5. ASSUME NEW j \in Candidates, CancelJob(j) PROVE OrderInd'
  <2> DEFINE left == Waiting \ {j}
  <2>1. /\ line' = Fifo(left) /\ agedJobs' = agedJobs \ {j}
        /\ backlog' = backlog \cap WorkspacesOf(left) /\ UNCHANGED <<running, known, served>>
    BY <1>5 DEF CancelJob
  <2>2. left \in SUBSET Waiting
    OBVIOUS
  <2>3. line' \in Seq(Candidates) /\ IsInjective(line') /\ ToSet(line') = left
    <3> HIDE DEF left
    <3> QED
      BY <1>1, <2>1, <2>2, LineWithout, Typed
  <2>4. Waiting' = left
    BY <2>3 DEF Waiting
  <2> QED
    BY <1>1, <1>2, <2>1, <2>3, <2>4 DEF OrderInd, OrderTypeOK
<1>6. CASE PumpInOrder
  BY <1>6, DrainKeepsTypes DEF PumpInOrder
<1>7. CASE ReadSnapshot
  <2>1. known' = Pruned(known) /\ UNCHANGED <<line, agedJobs, running, served, backlog>> /\ Waiting' = Waiting
    BY <1>7 DEF ReadSnapshot, Waiting
  <2> QED
    BY <1>1, <1>2, <2>1 DEF OrderInd, OrderTypeOK, Pruned
<1>8. CASE AgeOldest
  <2> DEFINE young == Waiting \ agedJobs
  <2>1. /\ young # {} /\ young \in SUBSET Waiting /\ agedJobs' = agedJobs \cup {Oldest(young)}
        /\ UNCHANGED <<line, running, known, served, backlog>> /\ Waiting' = Waiting
    BY <1>8 DEF AgeOldest, Waiting
  <2>2. Oldest(young) \in young
    <3> HIDE DEF young
    <3> QED
      BY <1>1, <2>1, OldestIs, Typed
  <2>3. agedJobs' \subseteq Waiting'
    BY <1>1, <2>1, <2>2 DEF OrderTypeOK
  <2> QED
    BY <1>1, <1>2, <2>1, <2>3 DEF OrderInd, OrderTypeOK
<1>9. CASE UNCHANGED orderVars
  <2>1. UNCHANGED <<line, agedJobs, running, known, served, backlog>> /\ Waiting' = Waiting
    BY <1>9 DEF orderVars, Waiting
  <2> QED
    BY <1>1, <1>2, <2>1 DEF OrderInd, OrderTypeOK
<1> QED
  BY <1>3, <1>4, <1>5, <1>6, <1>7, <1>8, <1>9 DEF OrderNext

LEMMA OrderInitially ==
  ASSUME FairnessAssumption, OrderInit
  PROVE  OrderInd
<1>1. Waiting = {} /\ IsInjective(line) /\ line \in Seq(Candidates)
  BY DEF OrderInit, Waiting, ToSet, IsInjective
<1>2. IsFiniteSet(Workspaces)
  <2>1. Workspaces = {WorkspaceOf[j] : j \in Candidates}
    BY DEF Workspaces
  <2> QED
    BY <2>1, ImageSize DEF FairnessAssumption
<1>3. Cardinality(Workspaces) \in Nat /\ Cardinality({}) = 0
  BY <1>2, FS_CardinalityType, FS_EmptySet
<1> QED
  BY <1>1, <1>3 DEF OrderInit, OrderInd, OrderTypeOK, FairnessAssumption

LEMMA OrderInvariant ==
  ASSUME FairnessAssumption
  PROVE  OrderSpec => []OrderInd
<1>1. OrderInit => OrderInd
  BY OrderInitially
<1>2. OrderInd /\ [OrderNext]_orderVars => OrderInd'
  BY OrderInductive
<1> QED
  BY <1>1, <1>2, PTL DEF OrderSpec

\* The line holds every waiting job once, in the controller's capacity, and a
\* workspace whose backlog stands keeps its entry in lastServedAt (drain(), the
\* pruning before it and fairnessSnapshot() in heavy-job-queue.ts).
THEOREM OrderTypeCorrect ==
  ASSUME FairnessAssumption
  PROVE  OrderSpec => [](OrderTypeOK /\ backlog \subseteq known)
BY OrderInvariant, PTL DEF OrderInd

-----------------------------------------------------------------------------
(* The properties.                                                         *)

\* projectHeavyJobFairness computes the declared order, for any number of jobs
\* and workspaces: its loop, which takes the head of the first batch and pushes
\* what is left to the back, yields the turns, and the sort of the batches by
\* last service decides within a turn (heavy-job-fairness.ts).
THEOREM OrderIsAlwaysFair ==
  ASSUME FairnessAssumption
  PROVE  OrderSpec => []OrderIsFair
<1>1. OrderInd => OrderIsFair
  BY Typed, OrderFair DEF OrderInd
<1> QED
  BY <1>1, OrderInvariant, PTL

\* One drain does not serve a standing backlog before a workspace that was served
\* earlier and waits too.
LEMMA DrainTakesTurns ==
  ASSUME FairnessAssumption, OrderInd, NEW busy \in SUBSET running, DrainInOrder(busy),
         NEW v \in backlog, NEW w \in Workspaces,
         WaitsBlocking(v), WaitsBlocking(w), served[w] < served[v], Serves(v)
  PROVE  Serves(w)
<1> DEFINE keys == Pruned(known)
           order == OrderHeavyJobs(keys)
           free == HeavySlots - Cardinality(busy)
           new == {order[i] : i \in {n \in DOMAIN order : n <= free}}
           S == RotatedTier(1)
<1>1. OrderTypeOK /\ LineOK /\ ServedOK /\ agedJobs \subseteq Waiting
  BY Typed DEF OrderInd
<1>2. running' = busy \cup new
  BY DEF DrainInOrder, Admitted
<1>3. order \in Seq(Waiting) /\ Len(order) \in Nat /\ DOMAIN order = 1..Len(order)
  BY <1>1, LineOrdered
<1>4. S \in SUBSET Waiting /\ S = Waiting \cap Blocking
  BY DEF RotatedTier
<1>5. PICK j \in running' \ running : WorkspaceOf[j] = v
  BY DEF Serves
<1>6. PICK p \in 1..Len(order) : p <= free /\ order[p] = j
  <2>1. j \in new
    BY <1>2, <1>5
  <2> HIDE DEF order, free
  <2> QED
    BY <1>3, <2>1
<1> DEFINE mine == JobsOf(w, S)
           k == Oldest(mine)
<1>7. mine \in SUBSET Waiting /\ mine # {} /\ mine \subseteq S /\ \A x \in mine : WorkspaceOf[x] = w
  BY <1>4 DEF WaitsBlocking, JobsOf
<1>8. k \in mine /\ \A x \in mine : Index(k) <= Index(x)
  <2> HIDE DEF mine
  <2> QED
    BY <1>1, <1>7, OldestIs
<1>9. k \in S /\ k \in Waiting /\ WorkspaceOf[k] = w /\ TierOf(k) = 1
  BY <1>4, <1>7, <1>8 DEF TierOf
<1>10. Turn(S, k) = 0
  <2> DEFINE older == {x \in S : WorkspaceOf[x] = WorkspaceOf[k] /\ Index(x) < Index(k)}
  <2>1. ASSUME NEW x \in older PROVE FALSE
    <3>1. x \in mine
      BY <1>9 DEF JobsOf
    <3>2. Index(x) \in Int /\ Index(k) \in Int
      BY <1>1, <1>7, <1>8, <3>1, Places
    <3>3. Index(x) < Index(k) /\ Index(k) <= Index(x)
      BY <1>8, <3>1
    <3> HIDE DEF older, k
    <3> QED
      BY <3>2, <3>3
  <2>2. older = {}
    BY <2>1
  <2>3. Turn(S, k) = Cardinality(older)
    BY DEF Turn
  <2> HIDE DEF older
  <2> QED
    BY <2>2, <2>3, FS_EmptySet
<1> HIDE DEF k, mine, S
<1>11. v \in Workspaces /\ served[v] \in Nat /\ served[w] \in Nat /\ v # w
  <2>1. v \in Workspaces
    BY <1>1 DEF OrderTypeOK, OrderInd
  <2>2. served[v] \in Nat /\ served[w] \in Nat
    BY <1>1, <2>1 DEF ServedOK
  <2> QED
    BY <2>1, <2>2
<1>12. LastServed(keys, v) = served[v] /\ LastServed(keys, w) <= served[w] /\ LastServed(keys, w) \in Nat
  <2>1. v \in keys
    BY <1>1 DEF Pruned, OrderInd, OrderTypeOK
  <2> HIDE DEF keys
  <2> QED
    BY <1>11, <2>1 DEF LastServed
<1>13. j \in Waiting /\ j # k
  <2>1. j \in Waiting
    <3> HIDE DEF order
    <3> QED
      BY <1>3, <1>6
  <2> QED
    BY <1>5, <1>9, <1>11, <2>1
<1>14. ~ MayPrecede(keys, j, k)
  <2>1. CASE TierOf(j) = 1
    <3>1. j \in S
      BY <1>4, <1>13, <2>1 DEF TierOf
    <3>2. Turn(S, j) \in Nat
      BY <1>1, <1>4, <3>1, TurnType
    <3>3. ~ NoLater(keys, S, j, k)
      BY <1>5, <1>9, <1>10, <1>11, <1>12, <3>2 DEF NoLater
    <3> QED
      BY <1>9, <2>1, <3>3 DEF MayPrecede, S
  <2>2. CASE TierOf(j) # 1
    <3>1. TierOf(j) \in {2, 3}
      BY <2>2 DEF TierOf
    <3> QED
      BY <1>9, <3>1 DEF MayPrecede
  <2> QED
    BY <2>1, <2>2
<1>15. PICK q \in 1..Len(order) : q < p /\ order[q] = k
  BY <1>1, <1>6, <1>9, <1>13, <1>14, Precedes
<1>16. k \in new
  <2>1. free \in Int
    <3>1. IsFiniteSet(busy)
      BY <1>1, Typed, FS_Subset DEF FairnessAssumption
    <3>2. Cardinality(busy) \in Nat
      BY <3>1, FS_CardinalityType
    <3> QED
      BY <3>2 DEF FairnessAssumption
  <2> QED
    BY <1>3, <1>6, <1>15, <2>1
<1>17. k \in running' \ running
  BY <1>1, <1>2, <1>9, <1>16, Typed
<1> QED
  BY <1>9, <1>17 DEF Serves

\* Dropping the history of workspaces with no local row (the pruning in drain()
\* and fairnessSnapshot()) never makes a standing backlog look unserved: one
\* drain does not serve it while a workspace that was served before it waits.
THEOREM TurnsAreTaken ==
  ASSUME FairnessAssumption
  PROVE  OrderSpec => BacklogTakesTurns
<1> DEFINE Fair ==
      \A v \in backlog, w \in Workspaces :
        /\ WaitsBlocking(v) /\ WaitsBlocking(w)
        /\ served[w] < served[v]
        /\ Serves(v)
        => Serves(w)
<1>1. ASSUME OrderInd, [OrderNext]_orderVars PROVE Fair
  <2>1. CASE running' = running
    BY <2>1 DEF Serves
  <2>2. CASE \E busy \in SUBSET running : DrainInOrder(busy)
    BY <1>1, <2>2, DrainTakesTurns
  <2>3. \/ running' = running
        \/ \E busy \in SUBSET running : DrainInOrder(busy)
    <3>1. ASSUME NEW j, FinishJob(j) PROVE \E busy \in SUBSET running : DrainInOrder(busy)
      <4>1. running \ {j} \in SUBSET running /\ DrainInOrder(running \ {j})
        BY <3>1 DEF FinishJob
      <4> QED
        BY <4>1
    <3>2. CASE PumpInOrder
      BY <3>2 DEF PumpInOrder
    <3>3. ASSUME NEW j, Submit(j) \/ CancelJob(j) PROVE running' = running
      BY <3>3 DEF Submit, CancelJob
    <3>4. CASE ReadSnapshot \/ AgeOldest \/ UNCHANGED orderVars
      BY <3>4 DEF ReadSnapshot, AgeOldest, orderVars
    <3> QED
      BY <1>1, <3>1, <3>2, <3>3, <3>4 DEF OrderNext
  <2> QED
    BY <2>1, <2>2, <2>3
<1>2. OrderInd /\ [OrderNext]_orderVars => [Fair]_orderVars
  BY <1>1
<1>3. [][Fair]_orderVars => BacklogTakesTurns
  BY PTL DEF BacklogTakesTurns
<1> QED
  BY <1>2, <1>3, OrderInvariant, PTL DEF OrderSpec
=============================================================================
