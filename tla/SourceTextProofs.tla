--------------------------- MODULE SourceTextProofs ---------------------------
(* What the checks report of the source as it is written: of a function's       *)
(* statements (StatementChecks), for all bodies that a parser accepts, it agrees *)
(* with every way that control can take; of the lines of a translation unit      *)
(* (PreprocessorMonitors, CommentScanners), for all units, with what the         *)
(* preprocessor does.                                                            *)
EXTENDS StatementChecks, PreprocessorMonitors, SequenceTheorems, FiniteSetTheorems,
        NaturalsInduction, WellFoundedInduction, TLAPS


--------------------------------------------------------------------------------
(* Numbers, and functions that are defined by recursion. *)

\* A step function reads its argument only at places of lower rank.
ReadsBelow(F, D, V, rank) ==
  \A d \in D : \A f, g \in [D -> V] :
    (\A e \in D : rank[e] < rank[d] => f[e] = g[e]) => F[<<d, f>>] = F[<<d, g>>]

\* f is F of itself at the places of a rank below n.
Solves(f, F, D, rank, n) == \A d \in D : rank[d] < n => f[d] = F[<<d, f>>]

LEMMA LeastNumber ==
  ASSUME NEW S, S \subseteq Nat, S # {}
  PROVE  \E n \in S : \A m \in S : n <= m
<1> DEFINE R == OpToRel(<, Nat)
<1>1. IsWellFoundedOn(R, Nat) BY NatLessThanWellFounded
<1>2. \A i, j \in Nat : <<j, i>> \in R <=> j < i BY DEF OpToRel
<1> HIDE DEF R
<1>3. PICK n \in S : \A m \in S : ~(<<m, n>> \in R) BY <1>1, WFMin
<1>4. \A m \in S : ~(m < n) BY <1>2, <1>3
<1> QED BY <1>4

Recursive(D, V, rank, F) ==
  V # {} /\ rank \in [D -> Nat] /\ F \in [D \X [D -> V] -> V] /\ ReadsBelow(F, D, V, rank)
Solved(D, V, F) == \E f \in [D -> V] : f = [d \in D |-> F[<<d, f>>]]

LEMMA Recursion ==
  ASSUME NEW D, NEW V, NEW rank, NEW F, Recursive(D, V, rank, F)
  PROVE  Solved(D, V, F)
<1> USE DEF Recursive
<1> DEFINE S(f, n) == Solves(f, F, D, rank, n)
<1>1. ASSUME NEW n \in Nat, NEW f \in [D -> V], NEW g \in [D -> V], S(f, n), S(g, n)
      PROVE  \A d \in D : rank[d] < n => f[d] = g[d]
  <2> DEFINE Bad == {rank[d] : d \in {d \in D : rank[d] < n /\ f[d] # g[d]}}
  <2> SUFFICES ASSUME Bad # {} PROVE FALSE OBVIOUS
  <2>1. PICK m \in Bad : \A k \in Bad : m <= k
    <3>1. Bad \subseteq Nat OBVIOUS
    <3> HIDE DEF Bad
    <3> QED BY <3>1, LeastNumber
  <2>2. PICK d \in D : rank[d] = m /\ m < n /\ f[d] # g[d] OBVIOUS
  <2>3. \A e \in D : rank[e] < rank[d] => f[e] = g[e]
    <3> SUFFICES ASSUME NEW e \in D, rank[e] < rank[d], f[e] # g[e] PROVE FALSE OBVIOUS
    <3>1. rank[e] \in Nat /\ rank[d] \in Nat OBVIOUS
    <3>2. rank[e] < n BY <2>2, <3>1
    <3>3. rank[e] \in Bad BY <3>2
    <3>4. m <= rank[e]
      <4> HIDE DEF Bad
      <4> QED BY <2>1, <3>3
    <3> QED BY <2>2, <3>1, <3>4
  <2> QED BY ZenonT(60), <1>1, <2>2, <2>3 DEF ReadsBelow, Solves
<1>2. \A n \in Nat : \E f \in [D -> V] : S(f, n)
  <2> DEFINE Bad == {n \in Nat : ~\E f \in [D -> V] : S(f, n)}
  <2> SUFFICES ASSUME Bad # {} PROVE FALSE OBVIOUS
  <2>1. PICK n \in Bad : \A k \in Bad : n <= k BY LeastNumber
  <2>2. n # 0
    <3>1. PICK v : v \in V OBVIOUS
    <3>2. [d \in D |-> v] \in [D -> V] BY <3>1
    <3>3. S([d \in D |-> v], 0) BY DEF Solves
    <3> QED BY <3>2, <3>3
  <2>3. n - 1 \in Nat /\ n - 1 \notin Bad BY <2>1, <2>2
  <2>4. PICK g \in [D -> V] : S(g, n - 1) BY <2>3
  <2> DEFINE f == [d \in D |-> F[<<d, g>>]]
  <2>5. f \in [D -> V] OBVIOUS
  <2>6. \A d \in D : rank[d] < n - 1 => f[d] = g[d] BY <2>4 DEF Solves
  <2>7. ASSUME NEW d \in D, rank[d] < n PROVE f[d] = F[<<d, f>>]
    <3>1. \A e \in D : rank[e] < rank[d] => f[e] = g[e] BY <2>6, <2>7, <2>3
    <3>2. F[<<d, f>>] = F[<<d, g>>] BY <3>1, <2>5 DEF ReadsBelow
    <3> QED BY <3>2
  <2>8. S(f, n) BY <2>7 DEF Solves
  <2> QED BY <2>5, <2>8
<1> DEFINE Upto(n) == CHOOSE f \in [D -> V] : S(f, n)
           f == [d \in D |-> Upto(rank[d] + 1)[d]]
<1>3. \A n \in Nat : Upto(n) \in [D -> V] /\ S(Upto(n), n) BY <1>2
<1> HIDE DEF Upto
<1>4. f \in [D -> V] BY <1>3
<1>5. ASSUME NEW d \in D PROVE f[d] = F[<<d, f>>]
  <2> DEFINE n == rank[d] + 1
             g == Upto(n)
  <2>1. n \in Nat /\ g \in [D -> V] /\ S(g, n) BY <1>3
  <2>2. \A e \in D : rank[e] < rank[d] => f[e] = g[e]
    <3> SUFFICES ASSUME NEW e \in D, rank[e] < rank[d] PROVE f[e] = g[e] OBVIOUS
    <3> DEFINE h == Upto(rank[e] + 1)
    <3>1. rank[e] + 1 \in Nat /\ h \in [D -> V] /\ S(h, rank[e] + 1) BY <1>3
    <3>2. S(g, rank[e] + 1)
      <4>1. \A c \in D : rank[c] < rank[e] + 1 => rank[c] < n OBVIOUS
      <4> HIDE DEF n, g
      <4> QED BY <2>1, <4>1 DEF Solves
    <3>3. rank[e] < rank[e] + 1 OBVIOUS
    <3>4. h[e] = g[e] BY <1>1, <2>1, <3>1, <3>2, <3>3
    <3> QED BY <3>4
  <2>3. F[<<d, f>>] = F[<<d, g>>] BY <2>1, <2>2, <1>4 DEF ReadsBelow
  <2>4. g[d] = F[<<d, g>>]
    <3>1. rank[d] < n OBVIOUS
    <3> HIDE DEF n, g
    <3> QED BY <2>1, <3>1 DEF Solves
  <2> QED BY <2>3, <2>4
<1>6. f = [d \in D |-> F[<<d, f>>]] BY <1>5
<1> HIDE DEF f
<1> QED BY <1>4, <1>6 DEF Solved

LEMMA Greatest ==
  ASSUME NEW N \in Nat, NEW S, S \subseteq 0 .. N, S # {}
  PROVE  Max(S) \in S /\ \A m \in S : m <= Max(S)
<1> DEFINE T == {N - s : s \in S}
<1>1. T \subseteq Nat OBVIOUS
<1>6. T # {}
  <2>1. PICK s \in S : TRUE OBVIOUS
  <2> QED BY <2>1
<1>2. PICK t \in T : \A u \in T : t <= u BY <1>1, <1>6, LeastNumber
<1>3. PICK s \in S : t = N - s BY <1>2
<1>4. \A m \in S : m <= s
  <2> TAKE m \in S
  <2>1. N - m \in T OBVIOUS
  <2> QED BY <1>2, <1>3, <2>1
<1>5. s \in S /\ \A y \in S : s >= y BY <1>3, <1>4
<1> QED BY <1>5 DEF Max

LEMMA Smallest ==
  ASSUME NEW S, S \subseteq Nat, S # {}
  PROVE  Min(S) \in S /\ \A m \in S : Min(S) <= m
<1>1. \E s \in S : \A m \in S : s <= m BY LeastNumber
<1> QED BY <1>1 DEF Min

--------------------------------------------------------------------------------
(* The tree. *)

LEMMA Shape ==
  ASSUME Parses(fn)
  PROVE  /\ Len(fn.kind) \in Nat \ {0} /\ Nodes = 1 .. Len(fn.kind) /\ 1 \in Nodes
         /\ Kind(1) = "compound" /\ Parent(1) = 0 /\ fn.above[1] = {}
         /\ \A n \in Nodes : n # 1 => /\ Parent(n) \in Nodes /\ Parent(n) < n
                                    /\ fn.above[n] = {Parent(n)} \cup fn.above[Parent(n)]
         /\ \A n \in Nodes : \A a \in fn.above[n] : \A m \in a + 1 .. n : a \in fn.above[m]
<1>1. Len(fn.kind) \in Nat \ {0} BY DEF Parses
<1>2. Nodes = 1 .. Len(fn.kind) /\ 1 \in Nodes BY <1>1 DEF Nodes
<1>3. Kind(1) = "compound" /\ Parent(1) = 0 /\ fn.above[1] = {} BY DEF Parses, Kind, Parent
<1>4. ASSUME NEW n \in Nodes, n # 1
      PROVE  /\ Parent(n) \in 1 .. n - 1
             /\ fn.above[n] = {Parent(n)} \cup fn.above[Parent(n)]
  BY <1>1, <1>2, <1>4 DEF Parses, Parent
<1>5. ASSUME NEW n \in Nodes, n # 1 PROVE Parent(n) \in Nodes /\ Parent(n) < n
  BY <1>1, <1>2, <1>4, <1>5
<1>6. \A n \in Nodes : \A a \in fn.above[n] : \A m \in a + 1 .. n : a \in fn.above[m]
  BY <1>2 DEF Parses
<1> QED BY <1>1, <1>2, <1>3, <1>4, <1>5, <1>6

LEMMA Grammar ==
  ASSUME Parses(fn), NEW n \in Nodes
  PROVE  /\ Children(n) # {} => Kind(n) \in Single \cup {"compound", "if"}
         /\ Kind(n) \in Single => \E c \in Nodes : Children(n) = {c}
         /\ Kind(n) = "if" => \E b, c \in Nodes : Children(n) = {b, c}
         /\ Kind(n) = "break" => {a \in fn.above[n] : Kind(a) \in Loops \cup {"switch"}} # {}
         /\ Kind(n) = "continue" => {a \in fn.above[n] : Kind(a) \in Loops} # {}
         /\ Kind(n) \in Labels => {a \in fn.above[n] : Kind(a) \in {"switch"}} # {}
<1>1. n \in 1 .. Len(fn.kind) BY DEF Nodes
<1>2. Children(n) = {c \in 1 .. Len(fn.kind) : fn.parent[c] = n} BY DEF Children, Nodes, Parent
<1>3. \A K : {a \in fn.above[n] : fn.kind[a] \in K} = {a \in fn.above[n] : Kind(a) \in K} BY DEF Kind
<1>4. Kind(n) = fn.kind[n] BY DEF Kind
<1>5. Children(n) # {} => Kind(n) \in Single \cup {"compound", "if"} BY <1>1, <1>2, <1>4 DEF Parses
<1>6. Kind(n) \in Single => \E c \in 1 .. Len(fn.kind) : {k \in 1 .. Len(fn.kind) : fn.parent[k] = n} = {c}
  BY <1>1, <1>4, Zenon DEF Parses
<1>7. Kind(n) = "if" => \E b, c \in 1 .. Len(fn.kind) : {k \in 1 .. Len(fn.kind) : fn.parent[k] = n} = {b, c}
  BY <1>1, <1>4, Zenon DEF Parses
<1>8. /\ Kind(n) = "break" => {a \in fn.above[n] : fn.kind[a] \in Loops \cup {"switch"}} # {}
      /\ Kind(n) = "continue" => {a \in fn.above[n] : fn.kind[a] \in Loops} # {}
      /\ Kind(n) \in Labels => {a \in fn.above[n] : fn.kind[a] \in {"switch"}} # {}
  BY <1>1, <1>4 DEF Parses
<1> QED BY <1>2, <1>3, <1>5, <1>6, <1>7, <1>8 DEF Nodes

LEMMA Above ==
  ASSUME Parses(fn), NEW n \in Nodes, NEW a \in fn.above[n]
  PROVE  a \in Nodes /\ a < n /\ n # 1
<1> DEFINE Bad == {k \in Nodes : \E x \in fn.above[k] : ~(x \in Nodes /\ x < k)}
<1>1. Bad = {}
  <2> SUFFICES ASSUME Bad # {} PROVE FALSE OBVIOUS
  <2>1. Bad \subseteq Nat BY Shape
  <2>2. PICK k \in Bad : \A j \in Bad : k <= j BY <2>1, LeastNumber
  <2>3. PICK x \in fn.above[k] : ~(x \in Nodes /\ x < k) BY <2>2
  <2>4. k # 1 BY <2>3, Shape
  <2>5. Parent(k) \in Nodes /\ Parent(k) < k /\ fn.above[k] = {Parent(k)} \cup fn.above[Parent(k)]
    BY <2>2, <2>4, Shape
  <2>6. x \in fn.above[Parent(k)] BY <2>3, <2>5
  <2>7. Parent(k) \notin Bad BY <2>1, <2>2, <2>5
  <2>8. x \in Nodes /\ x < Parent(k) BY <2>5, <2>6, <2>7
  <2>9. x \in Nat /\ k \in Nat /\ Parent(k) \in Nat BY <2>8, <2>5, Shape
  <2> QED BY <2>3, <2>5, <2>8, <2>9
<1>2. a \in Nodes /\ a < n BY <1>1
<1> QED BY <1>2, Shape

LEMMA AboveAbove ==
  ASSUME Parses(fn), NEW n \in Nodes, NEW b \in fn.above[n]
  PROVE  fn.above[b] \subseteq fn.above[n]
<1> SUFFICES ASSUME NEW a \in fn.above[b] PROVE a \in fn.above[n] OBVIOUS
<1> DEFINE Bad == {k \in Nodes : b \in fn.above[k] /\ a \notin fn.above[k]}
<1>1. Bad = {}
  <2> SUFFICES ASSUME Bad # {} PROVE FALSE OBVIOUS
  <2>1. Bad \subseteq Nat BY Shape
  <2>2. PICK k \in Bad : \A j \in Bad : k <= j BY <2>1, LeastNumber
  <2>3. k # 1 BY <2>2, Shape
  <2>4. Parent(k) \in Nodes /\ Parent(k) < k /\ fn.above[k] = {Parent(k)} \cup fn.above[Parent(k)]
    BY <2>2, <2>3, Shape
  <2>5. Parent(k) \notin Bad BY <2>1, <2>2, <2>4
  <2> QED BY <2>2, <2>4, <2>5
<1> QED BY <1>1

Sub(n) == {n} \cup Within(n)
Line(n) == {n} \cup fn.above[n]

LEMMA Lines ==
  ASSUME Parses(fn), NEW n \in Nodes
  PROVE  /\ Line(n) \subseteq Nodes /\ 1 \in Line(n)
         /\ \A a \in Line(n) : a <= n /\ Line(a) \subseteq Line(n)
         /\ \A a, b \in Line(n) : a <= b => a \in Line(b)
         /\ \A a \in Nodes : a \in Line(n) <=> n \in Sub(a)
<1>1. Line(n) \subseteq Nodes BY Above DEF Line
<1>2. \A a \in Line(n) : a <= n BY Above, Shape DEF Line
<1>3. \A a \in Line(n) : Line(a) \subseteq Line(n) BY AboveAbove DEF Line
<1>4. ASSUME NEW a \in Line(n), NEW b \in Line(n), a <= b PROVE a \in Line(b)
  <2>1. a \in Nat /\ b \in Nat /\ n \in Nat /\ b <= n BY <1>1, <1>2, Shape
  <2>2. CASE a = b BY <2>2 DEF Line
  <2>3. CASE a # b
    <3>1. a \in fn.above[n] BY <2>1, <2>3, <1>4 DEF Line
    <3>2. b \in a + 1 .. n BY <2>1, <2>3, <1>4
    <3> QED BY <3>1, <3>2, Shape DEF Line
  <2> QED BY <2>2, <2>3
<1>5. \A a \in Nodes : a \in Line(n) <=> n \in Sub(a) BY DEF Line, Sub, Within
<1>6. 1 \in Line(n)
  <2> DEFINE Bad == {k \in Nodes : 1 \notin Line(k)}
  <2> SUFFICES ASSUME Bad # {} PROVE FALSE OBVIOUS
  <2>1. Bad \subseteq Nat BY Shape
  <2>2. PICK k \in Bad : \A j \in Bad : k <= j BY <2>1, LeastNumber
  <2>3. k # 1 BY <2>2 DEF Line
  <2>4. Parent(k) \in Nodes /\ Parent(k) < k /\ fn.above[k] = {Parent(k)} \cup fn.above[Parent(k)]
    BY <2>2, <2>3, Shape
  <2>5. Parent(k) \notin Bad BY <2>1, <2>2, <2>4
  <2> QED BY <2>2, <2>4, <2>5 DEF Line
<1> QED BY <1>1, <1>2, <1>3, <1>4, <1>5, <1>6

LEMMA Parents ==
  ASSUME Parses(fn), NEW n \in Nodes, NEW c \in Children(n)
  PROVE  c \in Nodes /\ Parent(c) = n /\ c # 1 /\ n < c /\ Line(c) = {c} \cup Line(n)
  BY Shape DEF Children, Line

\* On the way from a to a statement in it there is one of the statements directly in a.
LEMMA ChildOn ==
  ASSUME Parses(fn), NEW n \in Nodes, NEW a \in fn.above[n]
  PROVE  \E c \in Children(a) : c \in Line(n)
<1> DEFINE Bad == {k \in Nodes : a \in fn.above[k] /\ ~\E c \in Children(a) : c \in Line(k)}
<1>1. Bad = {}
  <2> SUFFICES ASSUME Bad # {} PROVE FALSE OBVIOUS
  <2>1. Bad \subseteq Nat BY Shape
  <2>2. PICK k \in Bad : \A j \in Bad : k <= j BY <2>1, LeastNumber
  <2>3. k # 1 BY <2>2, Shape
  <2>4. Parent(k) \in Nodes /\ Parent(k) < k /\ fn.above[k] = {Parent(k)} \cup fn.above[Parent(k)]
    BY <2>2, <2>3, Shape
  <2>5. Parent(k) \notin Bad BY <2>1, <2>2, <2>4
  <2>6. Parent(k) # a BY <2>2 DEF Children, Line
  <2>7. a \in fn.above[Parent(k)] BY <2>2, <2>4, <2>6
  <2>8. PICK c \in Children(a) : c \in Line(Parent(k)) BY <2>4, <2>5, <2>7
  <2>9. c \in Line(k) BY <2>4, <2>8 DEF Line
  <2> QED BY <2>2, <2>9
<1> QED BY <1>1

\* Statements in one statement follow each other.
LEMMA Siblings ==
  ASSUME Parses(fn), NEW c \in Nodes, NEW d \in Nodes, Parent(c) = Parent(d), c < d,
         NEW x \in Sub(c)
  PROVE  x \in Nodes /\ c <= x /\ x < d /\ c # 1 /\ d # 1
<1>1. c \in Nat /\ d \in Nat BY Shape
<1>2. d # 1 /\ c # 1 BY <1>1, Shape
<1>3. x \in Nodes /\ c \in Line(x) /\ x \in Nat BY Lines, Shape DEF Sub, Within
<1>4. c <= x BY <1>3, Lines
<1>5. ASSUME x >= d PROVE FALSE
  <2>1. c \in fn.above[x] BY <1>1, <1>3, <1>5 DEF Line
  <2>2. c \in fn.above[d] BY <1>1, <1>3, <1>5, <2>1, Shape
  <2>3. fn.above[d] = {Parent(c)} \cup fn.above[Parent(c)] /\ Parent(c) < c /\ Parent(c) \in Nodes
    BY <1>2, Shape
  <2>4. c < Parent(c) BY <2>2, <2>3, Above
  <2> QED BY <1>1, <2>3, <2>4, Shape
<1> QED BY <1>1, <1>2, <1>3, <1>4, <1>5

\* The first statement in another follows it at once.
LEMMA First ==
  ASSUME Parses(fn), NEW n \in Nodes, Children(n) # {}
  PROVE  /\ FirstOf(n) = n + 1 /\ n + 1 \in Children(n) /\ \A c \in Children(n) : n + 1 <= c
         /\ LastOf(n) \in Children(n) /\ \A c \in Children(n) : c <= LastOf(n)
<1>1. PICK c : c \in Children(n) OBVIOUS
<1>2. c \in Nodes /\ n < c /\ n \in fn.above[c] BY <1>1, Parents, Shape
<1>3. n \in Nat /\ c \in Nat /\ n + 1 \in Nodes BY <1>2, Shape
<1>4. n \in fn.above[n + 1] BY <1>2, <1>3, Shape
<1>5. Parent(n + 1) \in Nodes /\ Parent(n + 1) < n + 1
      /\ fn.above[n + 1] = {Parent(n + 1)} \cup fn.above[Parent(n + 1)]
  BY <1>3, Shape
<1>6. Parent(n + 1) = n
  <2> SUFFICES ASSUME Parent(n + 1) # n PROVE FALSE OBVIOUS
  <2>1. n < Parent(n + 1) BY <1>4, <1>5, Above
  <2> QED BY <1>3, <1>5, <2>1, Shape
<1>7. n + 1 \in Children(n) BY <1>3, <1>6 DEF Children
<1>8. \A d \in Children(n) : d \in Nat /\ n + 1 <= d BY <1>3, Parents, Shape
<1>9. FirstOf(n) = n + 1
  <2>1. Min(Children(n)) \in Children(n) /\ \A m \in Children(n) : Min(Children(n)) <= m
    BY <1>7, <1>8, Smallest
  <2> QED BY <1>3, <1>7, <1>8, <2>1 DEF FirstOf
<1>10. LastOf(n) \in Children(n) /\ \A d \in Children(n) : d <= LastOf(n)
  <2>1. Children(n) \subseteq 0 .. Len(fn.kind) BY Shape DEF Children
  <2> QED BY <1>7, <2>1, Greatest, Shape DEF LastOf
<1> QED BY <1>7, <1>8, <1>9, <1>10

LEMMA OnlyChild ==
  ASSUME Parses(fn), NEW n \in Nodes, Kind(n) \in Single
  PROVE  Children(n) = {n + 1} /\ FirstOf(n) = n + 1 /\ n + 1 \in Nodes /\ Parent(n + 1) = n
<1>1. PICK c \in Nodes : Children(n) = {c} BY Grammar
<1>2. FirstOf(n) = n + 1 /\ n + 1 \in Children(n) BY <1>1, First
<1> QED BY <1>1, <1>2 DEF Children

\* A run of statements that have one statement in them lies in the first of them.
LEMMA Straight ==
  ASSUME Parses(fn), NEW b \in Nodes, NEW m \in Nodes, b <= m, \A k \in b .. m - 1 : Kind(k) \in Single
  PROVE  m \in Sub(b)
<1> DEFINE Bad == {k \in b .. m : b \notin Line(k)}
<1>1. Nodes = 1 .. Len(fn.kind) /\ Len(fn.kind) \in Nat \ {0} /\ b \in Nat /\ m \in Nat BY Shape
<1>2. Bad = {}
  <2> SUFFICES ASSUME Bad # {} PROVE FALSE OBVIOUS
  <2>1. Bad \subseteq Nat BY <1>1
  <2>2. PICK k \in Bad : \A j \in Bad : k <= j BY <2>1, LeastNumber
  <2>3. k # b BY <2>2 DEF Line
  <2>4. k - 1 \in b .. m - 1 /\ k - 1 \in Nodes BY <1>1, <2>2, <2>3
  <2>5. k \in Children(k - 1)
    <3>1. (k - 1) + 1 \in Children(k - 1) BY <2>4, OnlyChild
    <3> QED BY <1>1, <2>2, <3>1
  <2>6. Line(k) = {k} \cup Line(k - 1) BY <2>4, <2>5, Parents
  <2>7. k - 1 \notin Bad BY <1>1, <2>2
  <2> QED BY <1>1, <2>2, <2>4, <2>6, <2>7
<1>3. b \in Line(m) BY <1>1, <1>2
<1> QED BY <1>3, Lines

--------------------------------------------------------------------------------
(* Where control goes. *)

LEMMA Arrives ==
  ASSUME Parses(fn), NEW b \in Nodes
  PROVE  /\ Arrive[b] \in Nodes /\ b <= Arrive[b] /\ Kind(Arrive[b]) # "do"
         /\ \A k \in b .. Arrive[b] - 1 : Kind(k) = "do"
         /\ Arrive[b] \in Sub(b)
<1> DEFINE Stop == {m \in Nodes : m >= b /\ Kind(m) # "do"}
<1>1. Nodes = 1 .. Len(fn.kind) /\ Len(fn.kind) \in Nat \ {0} /\ b \in Nat BY Shape
<1>2. Stop # {}
  <2> SUFFICES ASSUME Stop = {} PROVE FALSE OBVIOUS
  <2>1. Len(fn.kind) \in Nodes /\ Len(fn.kind) >= b BY <1>1
  <2>2. Kind(Len(fn.kind)) = "do" BY <2>1
  <2>3. Len(fn.kind) + 1 \in Nodes BY <2>1, <2>2, OnlyChild DEF Single, Loops
  <2> QED BY <1>1, <2>3
<1>9. Stop \subseteq Nat BY <1>1
<1>3. PICK m \in Stop : \A k \in Stop : m <= k
  <2> HIDE DEF Stop
  <2> QED BY <1>2, <1>9, LeastNumber
<1>4. m \in Nodes /\ m >= b /\ Kind(m) # "do" /\ \A k \in b .. m - 1 : Kind(k) = "do"
  <2> SUFFICES ASSUME NEW k \in b .. m - 1, Kind(k) # "do" PROVE FALSE BY <1>3
  <2>1. k \in Stop BY <1>1, <1>3
  <2> QED BY <1>1, <1>3, <2>1
<1>5. Arrive[b] = CHOOSE x \in Nodes : x >= b /\ Kind(x) # "do" /\ \A k \in b .. x - 1 : Kind(k) = "do"
  BY DEF Arrive
<1>6. /\ Arrive[b] \in Nodes /\ Arrive[b] >= b /\ Kind(Arrive[b]) # "do"
      /\ \A k \in b .. Arrive[b] - 1 : Kind(k) = "do"
  BY <1>4, <1>5
<1>7. b <= Arrive[b] BY <1>1, <1>6
<1>8. Arrive[b] \in Sub(b) BY <1>6, <1>7, Straight DEF Single, Loops
<1> QED BY <1>6, <1>7, <1>8

\* Control arrives inside a statement of a block only if it was sent into it.
LEMMA Entry ==
  ASSUME Parses(fn), NEW b \in Nodes, NEW n \in Nodes, Kind(Parent(n)) = "compound", Arrive[b] \in Sub(n)
  PROVE  b \in Sub(n)
<1> DEFINE m == Arrive[b]
<1>1. m \in Nodes /\ b <= m /\ m \in Sub(b) /\ \A k \in b .. m - 1 : Kind(k) = "do" BY Arrives
<1> HIDE DEF m
<1>2. n \in Line(m) /\ b \in Line(m) BY <1>1, Lines DEF m
<1>3. b \in Nat /\ n \in Nat /\ m \in Nat BY <1>1, Shape
<1>4. CASE n <= b
  <2>1. n \in Line(b) BY <1>1, <1>2, <1>4, Lines
  <2> QED BY <2>1, Lines
<1>5. CASE b < n
  <2>1. b \in Line(n) BY <1>1, <1>2, <1>3, <1>5, Lines
  <2>2. b \in fn.above[n] /\ n # 1 BY <1>3, <1>5, <2>1, Above DEF Line
  <2>3. Parent(n) \in Nodes /\ Parent(n) < n /\ fn.above[n] = {Parent(n)} \cup fn.above[Parent(n)] BY <2>2, Shape
  <2>4. b <= Parent(n)
    <3>1. b = Parent(n) \/ b < Parent(n) BY <2>2, <2>3, Above
    <3> QED BY <1>3, <2>3, <3>1, Shape
  <2>5. n <= m BY <1>1, <1>2, Lines
  <2>6. Parent(n) \in b .. m - 1 BY <1>3, <2>3, <2>4, <2>5, Shape
  <2> QED BY <1>1, <2>6
<1> QED BY <1>3, <1>4, <1>5

\* Statement h holds control when n has ended, and no statement in between does.
Holds(h, n) == h \in Line(n) /\ Held(h) /\ \A b \in Line(n) : b > h => ~Held(b)

LEMMA Ended ==
  ASSUME Parses(fn), NEW n \in Nodes
  PROVE  \E h \in Nodes : Holds(h, n) /\ After[n] = Onward[h]
<1> DEFINE H == {a \in Line(n) : Held(a)}
<1>1. Line(n) \subseteq Nodes /\ Line(n) \subseteq 0 .. Len(fn.kind) /\ Len(fn.kind) \in Nat BY Shape, Lines
<1>2. 1 \in H BY Lines, Shape DEF Held
<1>3. Max(H) \in H /\ \A a \in H : a <= Max(H)
  <2>1. H \subseteq 0 .. Len(fn.kind) /\ H # {} BY <1>1, <1>2
  <2> HIDE DEF H
  <2> QED BY <1>1, <2>1, Greatest
<1>4. Holds(Max(H), n)
  <2> SUFFICES ASSUME NEW b \in Line(n), b > Max(H), Held(b) PROVE FALSE BY <1>3 DEF Holds
  <2>1. b \in H /\ b \in Nat BY <1>1
  <2>2. Max(H) \in Nat BY <1>1, <1>3
  <2>3. b <= Max(H) BY <1>3, <2>1
  <2> HIDE DEF H
  <2> QED BY <2>1, <2>2, <2>3
<1> DEFINE g == CHOOSE h \in Line(n) : Held(h) /\ \A b \in Line(n) : b > h => ~Held(b)
<1>5. g \in Line(n) /\ Held(g) /\ \A b \in Line(n) : b > g => ~Held(b) BY <1>4 DEF Holds
<1>6. After[n] = Onward[g] BY DEF After, Line
<1> HIDE DEF g
<1> QED BY <1>1, <1>5, <1>6 DEF Holds

\* Where that leads: to the end, to the condition of a loop, or to the next statement.
LEMMA Onwards ==
  ASSUME Parses(fn), NEW h \in Nodes, Held(h)
  PROVE  \/ h = 1 /\ Onward[h] = End
         \/ h # 1 /\ Kind(Parent(h)) \in Loops /\ Onward[h] = Parent(h)
         \/ /\ h # 1 /\ Kind(Parent(h)) = "compound"
            /\ \E m \in Nodes : /\ Onward[h] = Arrive[m] /\ h < m /\ Parent(m) = Parent(h)
                                /\ \A c \in Nodes : Parent(c) = Parent(h) => c <= h \/ m <= c
<1>1. Onward[h] = IF Parent(h) = 0 THEN End
                  ELSE IF Kind(Parent(h)) \in Loops THEN Parent(h) ELSE Arrive[Min(Later(h))]
  BY DEF Onward
<1>2. h \in Nat /\ Nodes \subseteq Nat /\ 0 \notin Nodes BY Shape
<1>3. CASE h = 1 BY <1>1, <1>3, Shape
<1>4. CASE h # 1
  <2>1. Parent(h) # 0 BY <1>2, <1>4, Shape
  <2>2. CASE Kind(Parent(h)) \in Loops BY <1>1, <1>4, <2>1, <2>2
  <2>3. CASE Kind(Parent(h)) \notin Loops
    <3>1. Later(h) # {} BY <2>1, <2>3 DEF Held
    <3>2. Later(h) \subseteq Nat BY <1>2 DEF Later
    <3>3. Min(Later(h)) \in Later(h) /\ \A c \in Later(h) : Min(Later(h)) <= c BY <3>1, <3>2, Smallest
    <3> DEFINE m == Min(Later(h))
    <3>4. m \in Nodes /\ h < m /\ Parent(m) = Parent(h) /\ Kind(Parent(h)) = "compound"
      BY <1>2, <3>3 DEF Later
    <3>5. \A c \in Nodes : Parent(c) = Parent(h) => c <= h \/ m <= c
      <4> TAKE c \in Nodes
      <4> SUFFICES ASSUME Parent(c) = Parent(h), ~(c <= h) PROVE m <= c OBVIOUS
      <4>1. c > h BY <1>2
      <4>2. c \in Later(h) BY <3>4, <4>1 DEF Later
      <4> QED BY <3>3, <4>2
    <3>6. Onward[h] = Arrive[m] BY <1>1, <2>1, <2>3
    <3> HIDE DEF m
    <3> QED BY <1>4, <3>4, <3>5, <3>6
  <2> QED BY <2>2, <2>3
<1> QED BY <1>3, <1>4

\* What a check finds of a statement and, hence, of each statement that is the last to
\* be run in it, it finds of all statements on the way from n up to the one it began with.
LEMMA PassDown ==
  ASSUME Parses(fn), NEW n \in Nodes, NEW G, NEW h \in Line(n) \cap G,
         \A p \in Nodes \cap G : \A c \in Children(p) : ~Held(c) => c \in G,
         \A b \in Line(n) : b > h => ~Held(b)
  PROVE  n \in G
<1> DEFINE S == {a \in Line(n) : a >= h /\ a \in G}
<1>1. Line(n) \subseteq Nodes /\ Line(n) \subseteq 0 .. Len(fn.kind) /\ Len(fn.kind) \in Nat /\ h \in Nat
  BY Shape, Lines
<1>2. h \in S BY <1>1
<1>3. Max(S) \in S /\ \A a \in S : a <= Max(S)
  <2>1. S \subseteq 0 .. Len(fn.kind) /\ S # {} BY <1>1, <1>2
  <2> HIDE DEF S
  <2> QED BY <1>1, <2>1, Greatest
<1> DEFINE y == Max(S)
<1>4. y \in Line(n) /\ y >= h /\ y \in G /\ y \in Nodes BY <1>1, <1>3
<1>5. \A a \in S : a <= y BY <1>3
<1> HIDE DEF y
<1>6. CASE y = n BY <1>4, <1>6
<1>7. CASE y # n
  <2>1. y \in fn.above[n] BY <1>4, <1>7 DEF Line
  <2>2. PICK c \in Children(y) : c \in Line(n) BY <2>1, ChildOn
  <2>3. y < c /\ c \in Nat /\ y \in Nat BY <1>1, <1>4, <2>2, Parents
  <2>4. c > h BY <1>1, <1>4, <2>3
  <2>5. c \in G BY <1>4, <2>2, <2>4
  <2>6. c \in S BY <1>1, <2>2, <2>3, <2>4, <2>5
  <2> QED BY <1>5, <2>3, <2>6
<1> QED BY <1>6, <1>7

--------------------------------------------------------------------------------
(* What the checks compute by recursion over the statements in a statement. *)

ReadsChildren(V, F) ==
  /\ V # {} /\ F \in [Nodes \X [Nodes -> V] -> V]
  /\ \A d \in Nodes : \A f, g \in [Nodes -> V] :
       (\A c \in Children(d) : f[c] = g[c]) => F[<<d, f>>] = F[<<d, g>>]
LEMMA OfChildren ==
  ASSUME Parses(fn), NEW V, NEW F, ReadsChildren(V, F)
  PROVE  Solved(Nodes, V, F)
<1> DEFINE rank == [k \in Nodes |-> Len(fn.kind) - k]
<1>1. rank \in [Nodes -> Nat] BY Shape
<1>2. ReadsBelow(F, Nodes, V, rank)
  <2> SUFFICES ASSUME NEW d \in Nodes, NEW f \in [Nodes -> V], NEW g \in [Nodes -> V],
                      \A e \in Nodes : rank[e] < rank[d] => f[e] = g[e]
               PROVE  F[<<d, f>>] = F[<<d, g>>]
    BY Zenon DEF ReadsBelow
  <2>1. ASSUME NEW c \in Children(d) PROVE f[c] = g[c]
    <3>1. c \in Nodes /\ d < c BY Parents
    <3>2. rank[c] < rank[d] BY <3>1, Shape
    <3> QED BY <3>1, <3>2
  <2> QED BY <2>1 DEF ReadsChildren
<1> HIDE DEF rank
<1>3. Recursive(Nodes, V, rank, F) BY <1>1, <1>2 DEF Recursive, ReadsChildren
<1> QED BY <1>3, Recursion

\* The right-hand sides of the definitions.
AlwaysReturnsOf(f, n) == \/ Kind(n) \in {"return", "throw"}
                         \/ Kind(n) = "compound" /\ Children(n) # {} /\ f[LastOf(n)]
                         \/ Kind(n) = "if" /\ HasElse(n) /\ \A c \in Children(n) : f[c]

LEMMA AlwaysReturnsIs ==
  ASSUME Parses(fn), NEW n \in Nodes
  PROVE  AlwaysReturns[n] <=> AlwaysReturnsOf(AlwaysReturns, n)
<1> DEFINE V == BOOLEAN
           F == [p \in Nodes \X [Nodes -> V] |-> AlwaysReturnsOf(p[2], p[1])]
<1>1. F \in [Nodes \X [Nodes -> V] -> V] /\ V # {} BY DEF AlwaysReturnsOf
<1>2. ASSUME NEW d \in Nodes, NEW f \in [Nodes -> V], NEW g \in [Nodes -> V],
             \A c \in Children(d) : f[c] = g[c]
      PROVE  F[<<d, f>>] = F[<<d, g>>]
  <2>1. Children(d) # {} => LastOf(d) \in Children(d) /\ FirstOf(d) \in Children(d) BY First
  <2>2. Kind(d) \in Labels => FirstOf(d) \in Children(d) BY OnlyChild, First DEF Single
  <2>3. AlwaysReturnsOf(f, d) <=> AlwaysReturnsOf(g, d) BY <1>2, <2>1, <2>2 DEF AlwaysReturnsOf
  <2>4. <<d, f>> \in Nodes \X [Nodes -> BOOLEAN] /\ <<d, g>> \in Nodes \X [Nodes -> BOOLEAN] OBVIOUS
  <2>5. F[<<d, f>>] = AlwaysReturnsOf(f, d) /\ F[<<d, g>>] = AlwaysReturnsOf(g, d) BY <2>4, Zenon
  <2>6. F[<<d, f>>] \in BOOLEAN /\ F[<<d, g>>] \in BOOLEAN BY <1>1, <2>4
  <2> HIDE DEF F
  <2> QED BY <2>3, <2>5, <2>6, Zenon
<1>3. PICK f \in [Nodes -> V] : f = [k \in Nodes |-> F[<<k, f>>]]
  <2>1. ReadsChildren(V, F)
    <3> HIDE DEF F, V
    <3> QED BY <1>1, <1>2 DEF ReadsChildren
  <2> HIDE DEF F, V
  <2>2. Solved(Nodes, V, F) BY <2>1, OfChildren
  <2> QED BY <2>2 DEF Solved
<1>4. f = [k \in Nodes |-> AlwaysReturnsOf(f, k)]
  <2>1. \A k \in Nodes : F[<<k, f>>] = AlwaysReturnsOf(f, k) BY <1>3, Zenon
  <2> HIDE DEF F
  <2> QED BY <1>3, <2>1, Zenon
<1>5. AlwaysReturns = CHOOSE g : g = [k \in Nodes |-> AlwaysReturnsOf(g, k)] BY DEF AlwaysReturns, AlwaysReturnsOf
<1>6. AlwaysReturns = [k \in Nodes |-> AlwaysReturnsOf(AlwaysReturns, k)] BY <1>4, <1>5, Zenon
<1> DEFINE A == AlwaysReturns
<1> HIDE DEF A
<1>7. A = [k \in Nodes |-> AlwaysReturnsOf(A, k)] BY <1>6, Zenon DEF A
<1>8. A[n] = AlwaysReturnsOf(A, n) BY <1>7, Zenon
<1> QED BY <1>8, Zenon DEF A


ContainsTerminatorOf(f, n) == \/ Kind(n) \in Terminators
                              \/ Kind(n) = "compound" /\ Children(n) # {} /\ f[LastOf(n)]
                              \/ Kind(n) \in Labels /\ f[FirstOf(n)]

LEMMA ContainsTerminatorIs ==
  ASSUME Parses(fn), NEW n \in Nodes
  PROVE  ContainsTerminator[n] <=> ContainsTerminatorOf(ContainsTerminator, n)
<1> DEFINE V == BOOLEAN
           F == [p \in Nodes \X [Nodes -> V] |-> ContainsTerminatorOf(p[2], p[1])]
<1>1. F \in [Nodes \X [Nodes -> V] -> V] /\ V # {} BY DEF ContainsTerminatorOf
<1>2. ASSUME NEW d \in Nodes, NEW f \in [Nodes -> V], NEW g \in [Nodes -> V],
             \A c \in Children(d) : f[c] = g[c]
      PROVE  F[<<d, f>>] = F[<<d, g>>]
  <2>1. Children(d) # {} => LastOf(d) \in Children(d) /\ FirstOf(d) \in Children(d) BY First
  <2>2. Kind(d) \in Labels => FirstOf(d) \in Children(d) BY OnlyChild, First DEF Single
  <2>3. ContainsTerminatorOf(f, d) <=> ContainsTerminatorOf(g, d) BY <1>2, <2>1, <2>2 DEF ContainsTerminatorOf
  <2>4. <<d, f>> \in Nodes \X [Nodes -> BOOLEAN] /\ <<d, g>> \in Nodes \X [Nodes -> BOOLEAN] OBVIOUS
  <2>5. F[<<d, f>>] = ContainsTerminatorOf(f, d) /\ F[<<d, g>>] = ContainsTerminatorOf(g, d) BY <2>4, Zenon
  <2>6. F[<<d, f>>] \in BOOLEAN /\ F[<<d, g>>] \in BOOLEAN BY <1>1, <2>4
  <2> HIDE DEF F
  <2> QED BY <2>3, <2>5, <2>6, Zenon
<1>3. PICK f \in [Nodes -> V] : f = [k \in Nodes |-> F[<<k, f>>]]
  <2>1. ReadsChildren(V, F)
    <3> HIDE DEF F, V
    <3> QED BY <1>1, <1>2 DEF ReadsChildren
  <2> HIDE DEF F, V
  <2>2. Solved(Nodes, V, F) BY <2>1, OfChildren
  <2> QED BY <2>2 DEF Solved
<1>4. f = [k \in Nodes |-> ContainsTerminatorOf(f, k)]
  <2>1. \A k \in Nodes : F[<<k, f>>] = ContainsTerminatorOf(f, k) BY <1>3, Zenon
  <2> HIDE DEF F
  <2> QED BY <1>3, <2>1, Zenon
<1>5. ContainsTerminator = CHOOSE g : g = [k \in Nodes |-> ContainsTerminatorOf(g, k)] BY DEF ContainsTerminator, ContainsTerminatorOf
<1>6. ContainsTerminator = [k \in Nodes |-> ContainsTerminatorOf(ContainsTerminator, k)] BY <1>4, <1>5, Zenon
<1> DEFINE A == ContainsTerminator
<1> HIDE DEF A
<1>7. A = [k \in Nodes |-> ContainsTerminatorOf(A, k)] BY <1>6, Zenon DEF A
<1>8. A[n] = ContainsTerminatorOf(A, n) BY <1>7, Zenon
<1> QED BY <1>8, Zenon DEF A


HasTerminatingOf(f, n) == \/ Kind(n) \in Terminators \cup {"fallthrough", "nrcall"}
                          \/ Kind(n) = "compound" /\ Children(n) # {} /\ f[LastOf(n)]
                          \/ Kind(n) = "if" /\ HasElse(n) /\ \A c \in Children(n) : f[c]

LEMMA HasTerminatingIs ==
  ASSUME Parses(fn), NEW n \in Nodes
  PROVE  HasTerminating[n] <=> HasTerminatingOf(HasTerminating, n)
<1> DEFINE V == BOOLEAN
           F == [p \in Nodes \X [Nodes -> V] |-> HasTerminatingOf(p[2], p[1])]
<1>1. F \in [Nodes \X [Nodes -> V] -> V] /\ V # {} BY DEF HasTerminatingOf
<1>2. ASSUME NEW d \in Nodes, NEW f \in [Nodes -> V], NEW g \in [Nodes -> V],
             \A c \in Children(d) : f[c] = g[c]
      PROVE  F[<<d, f>>] = F[<<d, g>>]
  <2>1. Children(d) # {} => LastOf(d) \in Children(d) /\ FirstOf(d) \in Children(d) BY First
  <2>2. Kind(d) \in Labels => FirstOf(d) \in Children(d) BY OnlyChild, First DEF Single
  <2>3. HasTerminatingOf(f, d) <=> HasTerminatingOf(g, d) BY <1>2, <2>1, <2>2 DEF HasTerminatingOf
  <2>4. <<d, f>> \in Nodes \X [Nodes -> BOOLEAN] /\ <<d, g>> \in Nodes \X [Nodes -> BOOLEAN] OBVIOUS
  <2>5. F[<<d, f>>] = HasTerminatingOf(f, d) /\ F[<<d, g>>] = HasTerminatingOf(g, d) BY <2>4, Zenon
  <2>6. F[<<d, f>>] \in BOOLEAN /\ F[<<d, g>>] \in BOOLEAN BY <1>1, <2>4
  <2> HIDE DEF F
  <2> QED BY <2>3, <2>5, <2>6, Zenon
<1>3. PICK f \in [Nodes -> V] : f = [k \in Nodes |-> F[<<k, f>>]]
  <2>1. ReadsChildren(V, F)
    <3> HIDE DEF F, V
    <3> QED BY <1>1, <1>2 DEF ReadsChildren
  <2> HIDE DEF F, V
  <2>2. Solved(Nodes, V, F) BY <2>1, OfChildren
  <2> QED BY <2>2 DEF Solved
<1>4. f = [k \in Nodes |-> HasTerminatingOf(f, k)]
  <2>1. \A k \in Nodes : F[<<k, f>>] = HasTerminatingOf(f, k) BY <1>3, Zenon
  <2> HIDE DEF F
  <2> QED BY <1>3, <2>1, Zenon
<1>5. HasTerminating = CHOOSE g : g = [k \in Nodes |-> HasTerminatingOf(g, k)] BY DEF HasTerminating, HasTerminatingOf
<1>6. HasTerminating = [k \in Nodes |-> HasTerminatingOf(HasTerminating, k)] BY <1>4, <1>5, Zenon
<1> DEFINE A == HasTerminating
<1> HIDE DEF A
<1>7. A = [k \in Nodes |-> HasTerminatingOf(A, k)] BY <1>6, Zenon DEF A
<1>8. A[n] = HasTerminatingOf(A, n) BY <1>7, Zenon
<1> QED BY <1>8, Zenon DEF A

\* A statement that can end normally by itself: it is no jump and no label, and what it
\* has in it may be passed over.
Passing(n) ==
  /\ Kind(n) \notin Terminators \cup Labels \cup {"label", "nrcall"}
  /\ Kind(n) = "compound" => Children(n) = {}
  /\ Kind(n) = "if" => ~HasElse(n)

LEMMA PassingIsOpen ==
  ASSUME Parses(fn), NEW n \in Nodes, Passing(n)
  PROVE  /\ ~AlwaysReturns[n] /\ ~ContainsTerminator[n]
         /\ HasTerminating[n] => Kind(n) = "fallthrough"
<1>1. ~AlwaysReturnsOf(AlwaysReturns, n) BY DEF Passing, AlwaysReturnsOf, Terminators
<1>2. ~ContainsTerminatorOf(ContainsTerminator, n) BY DEF Passing, ContainsTerminatorOf
<1>3. HasTerminatingOf(HasTerminating, n) => Kind(n) = "fallthrough" BY DEF Passing, HasTerminatingOf
<1> QED BY <1>1, <1>2, <1>3, AlwaysReturnsIs, ContainsTerminatorIs, HasTerminatingIs

\* What is not the last to be run in the statement around it.
LEMMA NotHeld ==
  ASSUME Parses(fn), NEW p \in Nodes, NEW c \in Children(p), ~Held(c)
  PROVE  Kind(p) \notin Loops /\ (Kind(p) = "compound" => c = LastOf(p))
<1>1. c \in Nodes /\ Parent(c) = p /\ p # 0 BY Parents, Shape
<1>2. Kind(p) \notin Loops /\ Later(c) = {} BY <1>1 DEF Held
<1>3. ASSUME Kind(p) = "compound" PROVE c = LastOf(p)
  <2>1. LastOf(p) \in Children(p) /\ c <= LastOf(p) BY First
  <2>2. LastOf(p) \in Nodes /\ Parent(LastOf(p)) = p BY <2>1, Parents
  <2>3. ~(LastOf(p) > c) BY <1>1, <1>2, <1>3, <2>2 DEF Later
  <2>4. c \in Nat /\ LastOf(p) \in Nat BY <1>1, <2>2, Shape
  <2> QED BY <2>1, <2>3, <2>4
<1> QED BY <1>2, <1>3

\* Control that passes the end of statement h came from a statement in h of which the
\* checks find the same as of h.
LEMMA SameFound ==
  ASSUME Parses(fn), NEW n \in Nodes, NEW h \in Line(n), \A b \in Line(n) : b > h => ~Held(b)
  PROVE  /\ AlwaysReturns[h] => AlwaysReturns[n]
         /\ ContainsTerminator[h] => ContainsTerminator[n]
         /\ HasTerminating[h] => HasTerminating[n]
<1>1. h \in Nodes BY Lines
<1>2. ASSUME AlwaysReturns[h] PROVE AlwaysReturns[n]
  <2> DEFINE G == {k \in Nodes : AlwaysReturns[k]}
  <2>1. ASSUME NEW p \in Nodes \cap G, NEW c \in Children(p), ~Held(c) PROVE c \in G
    <3>1. c \in Nodes BY Parents
    <3>2. AlwaysReturnsOf(AlwaysReturns, p) BY <2>1, AlwaysReturnsIs
    <3>3. Kind(p) \in {"compound", "if"} BY <3>2, Grammar DEF AlwaysReturnsOf, Single, Loops, Labels
    <3>4. AlwaysReturns[c] BY <3>2, <3>3, <2>1, NotHeld DEF AlwaysReturnsOf
    <3> QED BY <3>1, <3>4
  <2>2. h \in G BY <1>1, <1>2
  <2> HIDE DEF G
  <2>3. n \in G BY <2>1, <2>2, PassDown
  <2> QED BY <2>3 DEF G
<1>3. ASSUME ContainsTerminator[h] PROVE ContainsTerminator[n]
  <2> DEFINE G == {k \in Nodes : ContainsTerminator[k]}
  <2>1. ASSUME NEW p \in Nodes \cap G, NEW c \in Children(p), ~Held(c) PROVE c \in G
    <3>1. c \in Nodes BY Parents
    <3>2. ContainsTerminatorOf(ContainsTerminator, p) BY <2>1, ContainsTerminatorIs
    <3>3. Kind(p) \in {"compound"} \cup Labels
      BY <3>2, Grammar DEF ContainsTerminatorOf, Single, Loops, Labels, Terminators
    <3>4. Kind(p) \in Labels => c = FirstOf(p)
      <4> SUFFICES ASSUME Kind(p) \in Labels PROVE c = FirstOf(p) OBVIOUS
      <4>1. Children(p) = {p + 1} /\ FirstOf(p) = p + 1 BY OnlyChild DEF Single
      <4> QED BY <4>1
    <3>5. ContainsTerminator[c]
      BY <3>2, <3>3, <3>4, <2>1, NotHeld DEF ContainsTerminatorOf, Terminators, Labels
    <3> QED BY <3>1, <3>5
  <2>2. h \in G BY <1>1, <1>3
  <2> HIDE DEF G
  <2>3. n \in G BY <2>1, <2>2, PassDown
  <2> QED BY <2>3 DEF G
<1>4. ASSUME HasTerminating[h] PROVE HasTerminating[n]
  <2> DEFINE G == {k \in Nodes : HasTerminating[k]}
  <2>1. ASSUME NEW p \in Nodes \cap G, NEW c \in Children(p), ~Held(c) PROVE c \in G
    <3>1. c \in Nodes BY Parents
    <3>2. HasTerminatingOf(HasTerminating, p) BY <2>1, HasTerminatingIs
    <3>3. Kind(p) \in {"compound", "if"}
      BY <3>2, Grammar DEF HasTerminatingOf, Single, Loops, Labels, Terminators
    <3>4. HasTerminating[c] BY <3>2, <3>3, <2>1, NotHeld DEF HasTerminatingOf, Terminators
    <3> QED BY <3>1, <3>4
  <2>2. h \in G BY <1>1, <1>4
  <2> HIDE DEF G
  <2>3. n \in G BY <2>1, <2>2, PassDown
  <2> QED BY <2>3 DEF G
<1> QED BY <1>2, <1>3, <1>4

\* The nearest statement of some kinds.
LEMMA Arounds ==
  ASSUME Parses(fn), NEW n \in Nodes, NEW K
  PROVE  LET a == Around(n, K)
         IN  /\ {x \in fn.above[n] : Kind(x) \in K} # {} =>
                  a \in fn.above[n] /\ Kind(a) \in K /\ \A x \in fn.above[n] : Kind(x) \in K => x <= a
             /\ {x \in fn.above[n] : Kind(x) \in K} = {} => a = 0
<1> DEFINE A == {x \in fn.above[n] : Kind(x) \in K}
           S == A \cup {0}
<1>1. A \subseteq Nodes BY Above
<1>2. S \subseteq 0 .. Len(fn.kind) /\ Len(fn.kind) \in Nat BY <1>1, Shape
<1>3. Around(n, K) = Max(S) BY DEF Around
<1>4. Max(S) \in S /\ \A m \in S : m <= Max(S)
  <2>1. S # {} OBVIOUS
  <2> HIDE DEF S
  <2> QED BY <1>2, <2>1, Greatest
<1> DEFINE a == Max(S)
<1>5. a \in S /\ \A m \in S : m <= a BY <1>4
<1> HIDE DEF a
<1>6. ASSUME A # {} PROVE a \in A
  <2>1. PICK x \in A : TRUE BY <1>6
  <2>2. x \in Nat /\ x # 0 /\ x <= a BY <1>1, <1>5, <2>1, Shape
  <2>3. a # 0 BY <2>2
  <2> QED BY <1>5, <2>3
<1>7. A = {} => a = 0 BY <1>5
<1>8. Around(n, K) = a BY <1>3 DEF a
<1>9. \A x \in fn.above[n] : Kind(x) \in K => x <= a BY <1>5
<1> QED BY <1>6, <1>7, <1>8, <1>9

\* The ways from a statement to the next one.
LEMMA Successors ==
  ASSUME Parses(fn), NEW n \in Nodes, NEW m \in Succ(n)
  PROVE  \/ \E x \in Line(n) : /\ x \in Nodes /\ m = After[x] /\ Passing(x)
                               /\ x = n \/ Kind(x) \in Loops \cup {"switch"}
         \/ \E c \in Children(n) : m = Arrive[c] /\ (Kind(n) = "compound" => c = FirstOf(n))
         \/ Kind(n) = "switch" /\ m \in LabelsOf(n)
         \/ Kind(n) = "continue" /\ m \in fn.above[n] /\ Kind(m) \in Loops
         \/ Kind(n) = "goto" /\ m \in OfKind({"label"})
         \/ Kind(n) \in {"return", "throw", "nrcall"} /\ m = End
<1> DEFINE into == {Arrive[c] : c \in Children(n)}
           past(always) == IF always THEN {} ELSE {After[n]}
<1>12. Kind(n) \in {"compound", "if", "switch", "break", "continue"} => Kind(n) \notin Loops \cup Labels
  BY DEF Loops, Labels
<1>0. n \in Line(n) BY DEF Line
<1>1. ASSUME m = After[n], Passing(n)
      PROVE  \E x \in Line(n) : /\ x \in Nodes /\ m = After[x] /\ Passing(x)
                                /\ x = n \/ Kind(x) \in Loops \cup {"switch"}
  BY <1>0, <1>1
<1>2. CASE Kind(n) = "compound"
  <2>1. m \in IF Children(n) = {} THEN {After[n]} ELSE {Arrive[FirstOf(n)]} BY <1>2, <1>12 DEF Succ
  <2>2. CASE Children(n) = {}
    <3>1. Passing(n) BY <1>2, <2>2 DEF Passing, Terminators, Labels
    <3> QED BY <1>1, <2>1, <2>2, <3>1
  <2>3. CASE Children(n) # {}
    <3>1. FirstOf(n) \in Children(n) BY <2>3, First
    <3>2. m = Arrive[FirstOf(n)] BY <2>1, <3>1
    <3> QED BY <3>1, <3>2
  <2> QED BY <2>2, <2>3
<1>3. CASE Kind(n) = "if"
  <2>1. m \in into \cup past(HasElse(n)) BY <1>3, <1>12 DEF Succ
  <2>2. CASE m \in into BY <1>3, <2>2
  <2>3. CASE m \in past(HasElse(n))
    <3>1. Passing(n) /\ m = After[n] BY <1>3, <2>3 DEF Passing, Terminators, Labels
    <3> QED BY <1>1, <3>1
  <2> QED BY <2>1, <2>2, <2>3
<1>4. CASE Kind(n) \in Loops
  <2>1. m \in into \cup past(Kind(n) = "forever") BY <1>4 DEF Succ, Loops
  <2>2. CASE m \in into BY <1>4, <2>2 DEF Loops
  <2>3. CASE m \in past(Kind(n) = "forever")
    <3>1. Passing(n) /\ m = After[n] BY <1>4, <2>3 DEF Passing, Terminators, Labels, Loops
    <3> QED BY <1>1, <3>1
  <2> QED BY <2>1, <2>2, <2>3
<1>5. CASE Kind(n) = "switch"
  <2>1. m \in LabelsOf(n) \cup past(\E l \in LabelsOf(n) : Kind(l) = "default") BY <1>5, <1>12 DEF Succ
  <2>2. CASE m \in LabelsOf(n) BY <1>5, <2>2
  <2>3. CASE m \notin LabelsOf(n)
    <3>1. Passing(n) /\ m = After[n] BY <1>5, <2>1, <2>3 DEF Passing, Terminators, Labels
    <3> QED BY <1>1, <3>1
  <2> QED BY <2>2, <2>3
<1>6. CASE Kind(n) = "break"
  <2> DEFINE a == Around(n, Enclosing)
  <2>1. m = After[a] BY <1>6, <1>12 DEF Succ
  <2>2. a \in fn.above[n] /\ Kind(a) \in Loops \cup {"switch"} BY <1>6, Grammar, Arounds DEF Enclosing
  <2> HIDE DEF a
  <2>3. a \in Nodes /\ a \in Line(n) BY <2>2, Above DEF Line
  <2>4. Passing(a) BY <2>2 DEF Passing, Terminators, Labels, Loops
  <2> QED BY <2>1, <2>2, <2>3, <2>4
<1>7. CASE Kind(n) = "continue"
  <2>1. m = Around(n, Loops) BY <1>7, <1>12 DEF Succ
  <2> QED BY <1>7, <2>1, Grammar, Arounds
<1>8. CASE Kind(n) = "goto" BY <1>8 DEF Succ, Loops
<1>9. CASE Kind(n) \in {"return", "throw", "nrcall"} BY <1>9 DEF Succ, Loops
<1>10. CASE Kind(n) \in Labels \cup {"label"}
  <2>1. m \in into BY <1>10 DEF Succ, Loops, Labels
  <2> QED BY <1>10, <2>1 DEF Labels
<1>11. CASE Kind(n) \notin {"compound", "if", "switch", "break", "continue", "goto", "return", "throw", "nrcall", "label"}
                          \cup Loops \cup Labels
  <2>1. m = After[n] BY <1>11 DEF Succ
  <2>2. Passing(n) BY <1>11 DEF Passing, Terminators
  <2> QED BY <1>1, <2>1, <2>2
<1> QED BY <1>2, <1>3, <1>4, <1>5, <1>6, <1>7, <1>8, <1>9, <1>10, <1>11

LEMMA SuccessorsInBody ==
  ASSUME Parses(fn), NEW n \in Nodes, NEW m \in Succ(n)
  PROVE  m \in Nodes \cup {End}
<1>1. ASSUME NEW x \in Nodes PROVE After[x] \in Nodes \cup {End}
  <2>1. PICK h \in Nodes : Holds(h, x) /\ After[x] = Onward[h] BY Ended
  <2>2. Held(h) BY <2>1 DEF Holds
  <2> QED BY <2>1, <2>2, Onwards, Arrives, Shape
<1>2. ASSUME NEW c \in Children(n) PROVE Arrive[c] \in Nodes BY Parents, Arrives
<1> QED BY <1>1, <1>2, Successors, Above DEF LabelsOf, OfKind

\* How control comes into a statement k of a block: by a label, from the head of the block
\* or from the statement before k.
LEMMA Enters ==
  ASSUME Parses(fn), NEW n \in Nodes, NEW k \in Nodes, Kind(Parent(k)) = "compound",
         NEW m \in Succ(n), m \in Sub(k), n \notin Sub(k) \/ (m = k /\ Kind(k) \notin Loops)
  PROVE  \/ Kind(n) = "switch" /\ m \in LabelsOf(n)
         \/ Kind(n) = "goto" /\ Kind(m) = "label"
         \/ n = Parent(k) /\ k = FirstOf(n)
         \/ \E x \in Line(n), h \in Nodes :
              /\ x \in Nodes /\ Passing(x) /\ (x = n \/ Kind(x) \in Loops \cup {"switch"})
              /\ Holds(h, x) /\ h < k /\ Parent(h) = Parent(k)
              /\ \A c \in Nodes : Parent(c) = Parent(k) => c <= h \/ k <= c
<1>1. m \in Nodes /\ k \in Line(m) /\ 0 \notin Nodes /\ Nodes \subseteq Nat
  BY Shape, Lines DEF Sub, Within
<1>2. k \in Line(n) => m = k /\ Kind(k) \notin Loops BY Lines
<1>3. CASE \E x \in Line(n) : /\ x \in Nodes /\ m = After[x] /\ Passing(x)
                              /\ x = n \/ Kind(x) \in Loops \cup {"switch"}
  <2>1. PICK x \in Line(n) : /\ x \in Nodes /\ m = After[x] /\ Passing(x)
                             /\ x = n \/ Kind(x) \in Loops \cup {"switch"}
    BY <1>3
  <2>2. PICK h \in Nodes : Holds(h, x) /\ After[x] = Onward[h] BY <2>1, Ended
  <2>3. Held(h) /\ h \in Line(x) BY <2>2 DEF Holds
  <2>4. h \in Line(n) BY <2>1, <2>3, Lines
  <2>5. CASE h = 1 /\ Onward[h] = End BY <1>1, <2>1, <2>2, <2>5 DEF End
  <2>6. CASE h # 1 /\ Kind(Parent(h)) \in Loops /\ Onward[h] = Parent(h)
    <3>1. m \in Line(h) BY <2>1, <2>2, <2>6, Shape DEF Line
    <3>2. k \in Line(n) BY <1>1, <2>4, <3>1, Lines
    <3> QED BY <1>2, <2>1, <2>2, <2>6, <3>2
  <2>7. CASE /\ h # 1 /\ Kind(Parent(h)) = "compound"
             /\ \E j \in Nodes : /\ Onward[h] = Arrive[j] /\ h < j /\ Parent(j) = Parent(h)
                                 /\ \A c \in Nodes : Parent(c) = Parent(h) => c <= h \/ j <= c
    <3>1. PICK j \in Nodes : /\ Onward[h] = Arrive[j] /\ h < j /\ Parent(j) = Parent(h)
                             /\ \A c \in Nodes : Parent(c) = Parent(h) => c <= h \/ j <= c
      BY <2>7
    <3>2. m = Arrive[j] BY <2>1, <2>2, <3>1
    <3>3. j \in Sub(k) BY <3>2, Entry
    <3>4. CASE j = k BY <2>1, <2>2, <3>1, <3>4
    <3>5. CASE j # k
      <4>1. k \in fn.above[j] /\ j # 1 BY <3>3, <3>5, Above DEF Sub, Within
      <4>2. fn.above[j] = {Parent(h)} \cup fn.above[Parent(h)] BY <3>1, <4>1, Shape
      <4>3. k \in Line(h) BY <2>7, <4>1, <4>2, Shape DEF Line
      <4>4. k \in Line(n) BY <2>4, <4>3, Lines
      <4>5. m = k BY <1>2, <4>4
      <4>6. k < j /\ j <= m BY <3>2, <4>1, Above, Arrives
      <4> QED BY <1>1, <4>5, <4>6
    <3> QED BY <3>4, <3>5
  <2> QED BY <2>3, <2>5, <2>6, <2>7, Onwards
<1>4. CASE \E c \in Children(n) : m = Arrive[c] /\ (Kind(n) = "compound" => c = FirstOf(n))
  <2>1. PICK c \in Children(n) : m = Arrive[c] /\ (Kind(n) = "compound" => c = FirstOf(n)) BY <1>4
  <2>2. c \in Nodes /\ Parent(c) = n /\ n < c /\ Line(c) = {c} \cup Line(n) BY Parents
  <2>3. c \in Sub(k) BY <2>1, <2>2, Entry
  <2>4. k \in Line(c) BY <2>2, <2>3, Lines
  <2>5. CASE k = c BY <2>1, <2>2, <2>5
  <2>6. CASE k \in Line(n)
    <3>1. m = k /\ k <= n /\ c <= m BY <1>2, <2>1, <2>2, <2>6, Lines, Arrives
    <3> QED BY <1>1, <2>2, <3>1
  <2> QED BY <2>2, <2>4, <2>5, <2>6
<1>5. CASE Kind(n) = "continue" /\ m \in fn.above[n] /\ Kind(m) \in Loops
  <2>1. k \in Line(n) BY <1>1, <1>5, Lines DEF Line
  <2> QED BY <1>2, <1>5, <2>1
<1>6. CASE Kind(n) = "goto" /\ m \in OfKind({"label"}) BY <1>6 DEF OfKind
<1>7. m # End BY <1>1 DEF End
<1> QED BY <1>3, <1>4, <1>5, <1>6, <1>7, Successors

\* Statement n of a block comes behind t, after which control does not go on, and there
\* is no way into n or into the statements between the two.
Shut(t, n) ==
  /\ Parent(t) = Parent(n) /\ Kind(Parent(n)) = "compound" /\ t < n
  /\ ContainsTerminator[t]
  /\ \A k \in Nodes : Parent(k) = Parent(n) /\ t < k /\ k <= n =>
       \A l \in Sub(k) : Kind(l) \notin Labels \cup {"label"}
Alive(m) == \A t, n \in Nodes : Shut(t, n) => m \notin Sub(n)

LEMMA StaysAlive ==
  ASSUME Parses(fn), NEW p \in Nodes, NEW m \in Succ(p), Alive(p)
  PROVE  Alive(m)
<1> SUFFICES ASSUME NEW t \in Nodes, NEW n \in Nodes, Shut(t, n), m \in Sub(n) PROVE FALSE BY DEF Alive
<1>1. p \notin Sub(n) BY DEF Alive
<1>2. Parent(t) = Parent(n) /\ Kind(Parent(n)) = "compound" /\ t < n /\ ContainsTerminator[t] BY DEF Shut
<1>3. Nodes \subseteq Nat BY Shape
<1>4. Kind(m) \notin Labels \cup {"label"} BY <1>3 DEF Shut
<1>5. Kind(p) = "switch" => m \notin LabelsOf(p) BY <1>4 DEF LabelsOf, OfKind
<1>6. ~(p = Parent(n) /\ n = FirstOf(p))
  <2> SUFFICES ASSUME p = Parent(n), n = FirstOf(p) PROVE FALSE OBVIOUS
  <2>1. t \in Children(p) BY <1>2 DEF Children
  <2>2. p \in Nodes /\ Children(p) # {} BY <2>1
  <2>3. p + 1 <= t /\ n = p + 1 BY <2>1, <2>2, First
  <2> QED BY <1>2, <1>3, <2>2, <2>3
<1>7. PICK x \in Line(p), h \in Nodes :
        /\ x \in Nodes /\ Passing(x)
        /\ Holds(h, x) /\ h < n /\ Parent(h) = Parent(n)
        /\ \A c \in Nodes : Parent(c) = Parent(n) => c <= h \/ n <= c
  BY <1>1, <1>2, <1>4, <1>5, <1>6, Enters
<1>8. t <= h BY <1>2, <1>3, <1>7
<1>9. h \in Line(x) /\ \A b \in Line(x) : b > h => ~Held(b) BY <1>7 DEF Holds
<1>10. CASE t = h
  <2>1. ContainsTerminator[x] BY <1>2, <1>7, <1>9, <1>10, SameFound
  <2> QED BY <1>7, <2>1, PassingIsOpen
<1>11. CASE t # h
  <2>1. Shut(t, h) BY <1>2, <1>3, <1>7, <1>8, <1>11 DEF Shut
  <2>2. p \notin Sub(h) BY <2>1 DEF Alive
  <2>3. h \in Line(p) BY <1>7, <1>9, Lines
  <2> QED BY <2>2, <2>3, Lines
<1> QED BY <1>10, <1>11

LEMMA StartsAlive ==
  ASSUME Parses(fn)
  PROVE  Alive(1) /\ Alive(0)
<1> SUFFICES ASSUME NEW t \in Nodes, NEW n \in Nodes, Shut(t, n) PROVE 1 \notin Sub(n) /\ 0 \notin Sub(n)
  BY DEF Alive
<1>1. t < n /\ t \in Nat /\ n \in Nat /\ t # 0 BY Shape DEF Shut
<1>2. 1 \notin Within(n) BY Shape DEF Within
<1>3. 0 \notin Within(n) BY Shape DEF Within
<1> QED BY <1>1, <1>2, <1>3 DEF Sub

--------------------------------------------------------------------------------
(* From one clause of a switch into the next. *)

\* Under a label, and the labels in it, there is one statement that all others are in.
LEMMA Innermost ==
  ASSUME Parses(fn), NEW l \in Nodes
  PROVE  /\ Labelled(l) \in Sub(l) /\ Labelled(l) \in Nodes /\ l <= Labelled(l)
         /\ \A x \in Sub(l) : Kind(x) \notin Labels => Labelled(l) \in Line(x)
<1> DEFINE S == {m \in Nodes : m >= l /\ Kind(m) \notin Labels}
           y == Min(S)
<1>1. Nodes = 1 .. Len(fn.kind) /\ Len(fn.kind) \in Nat \ {0} /\ l \in Nat BY Shape
<1>2. S # {}
  <2> SUFFICES ASSUME S = {} PROVE FALSE OBVIOUS
  <2>1. Len(fn.kind) \in Nodes /\ Len(fn.kind) >= l BY <1>1
  <2>2. Kind(Len(fn.kind)) \in Labels BY <2>1
  <2>3. Len(fn.kind) + 1 \in Nodes BY <2>1, <2>2, OnlyChild DEF Single
  <2> QED BY <1>1, <2>3
<1>3. Min(S) \in S /\ \A m \in S : Min(S) <= m
  <2>1. S \subseteq Nat BY <1>1
  <2> HIDE DEF S
  <2> QED BY <1>2, <2>1, Smallest
<1>4. y \in Nodes /\ l <= y /\ Kind(y) \notin Labels BY <1>1, <1>3
<1>5. \A m \in S : y <= m BY <1>3
<1>6. Labelled(l) = y BY DEF Labelled
<1> HIDE DEF y
<1>7. ASSUME NEW k \in l .. y - 1 PROVE k \in Nodes /\ Kind(k) \in Labels
  <2>1. k \in Nodes /\ k >= l BY <1>1, <1>4
  <2>2. k \notin S BY <1>1, <1>4, <1>5
  <2> QED BY <2>1, <2>2
<1>8. y \in Sub(l) BY <1>4, <1>7, Straight DEF Single
<1>9. ASSUME NEW x \in Sub(l), Kind(x) \notin Labels PROVE y \in Line(x)
  <2> SUFFICES ASSUME y \notin Line(x) PROVE FALSE OBVIOUS
  <2> DEFINE C == Line(x) \cap Line(y)
  <2>1. x \in Nodes /\ l \in Line(x) /\ l \in Line(y) BY <1>4, <1>8, Lines DEF Sub, Within
  <2>2. C \subseteq 0 .. Len(fn.kind) /\ C \subseteq Nodes /\ l \in C BY <1>1, <2>1, Lines
  <2>3. Max(C) \in C /\ \A c \in C : c <= Max(C)
    <3> HIDE DEF C
    <3> QED BY <1>1, <2>2, Greatest
  <2> DEFINE j == Max(C)
  <2>4. j \in Line(x) /\ j \in Line(y) /\ j \in Nodes /\ l <= j /\ j <= y BY <1>4, <2>2, <2>3, Lines
  <2>5. \A c \in C : c <= j BY <2>3
  <2> HIDE DEF j
  <2>6. j # y BY <2>4
  <2>7. Kind(j) \in Labels BY <1>1, <1>4, <1>7, <2>4, <2>6
  <2>8. j \in fn.above[x] /\ j \in fn.above[y] BY <1>9, <2>4, <2>6, <2>7 DEF Line
  <2>9. j + 1 \in Line(x) /\ j + 1 \in Line(y)
    <3>1. Children(j) = {j + 1} BY <2>4, <2>7, OnlyChild DEF Single
    <3> QED BY <1>4, <2>1, <2>8, <3>1, ChildOn
  <2>10. j + 1 <= j BY <2>5, <2>9
  <2> QED BY <1>1, <2>4, <2>10
<1> QED BY <1>4, <1>6, <1>8, <1>9

LEMMA Falls ==
  ASSUME Parses(fn), prev \in Nodes, pc \in Succ(prev), Fell, FellFrom # 0
  PROVE  LET s == Around(pc, {"switch"})
             b == FirstOf(s)
         IN  /\ s \in OfKind({"switch"}) /\ Around(FellFrom, {"switch"}) = s
             /\ FellFrom \in Clauses(s) /\ pc \in Clauses(s) /\ FellFrom < pc
             /\ \A m \in Clauses(s) : m <= FellFrom \/ pc <= m
             /\ Children(b) \subseteq Nodes /\ Kind(b) = "compound" /\ \A c \in Children(b) : Parent(c) = b
             /\ \E x \in Line(prev), h \in Children(b) :
                  /\ x \in Nodes /\ Passing(x) /\ (x = prev \/ Kind(x) \in Loops \cup {"switch"})
                  /\ Holds(h, x) /\ FellFrom <= h /\ h < pc
                  /\ \A c \in Children(b) : c <= h \/ pc <= c
<1> DEFINE s == Around(pc, {"switch"})
           b == FirstOf(s)
           l == FellFrom
<1>1. /\ pc # End /\ Kind(pc) \in Labels /\ Kind(prev) # "goto"
      /\ pc \in Clauses(s) /\ prev \in Within(s)
  BY DEF Fell
<1>2. pc \in Nodes /\ Kind(pc) \notin Loops BY <1>1, SuccessorsInBody DEF Labels, Loops
<1>3. s \in fn.above[pc] /\ Kind(s) = "switch" BY <1>1, <1>2, Grammar, Arounds
<1>4. s \in Nodes BY <1>2, <1>3, Above
<1>5. Children(s) = {s + 1} /\ b = s + 1 /\ b \in Nodes /\ Parent(b) = s
  BY <1>3, <1>4, OnlyChild DEF Single
<1>6. l = Max({c \in Clauses(s) : c < pc} \cup {0}) BY DEF FellFrom
<1>7. Clauses(s) = {c \in Children(b) : Kind(c) \in Labels /\ Kind(b) = "compound"} BY DEF Clauses
<1> HIDE DEF s, b, l
<1>8. Kind(b) = "compound" /\ pc \in Children(b) BY <1>1, <1>7
<1>9. \A c \in Children(b) : c \in Nodes /\ Parent(c) = b /\ c \in Nat BY <1>5, Parents, Shape
<1>10. /\ l \in Clauses(s) /\ l < pc /\ \A m \in Clauses(s) : m <= l \/ pc <= m
  <2> DEFINE S == {c \in Clauses(s) : c < pc} \cup {0}
  <2>1. S \subseteq 0 .. Len(fn.kind) /\ Len(fn.kind) \in Nat BY <1>7, <1>9, Shape
  <2>2. S # {} OBVIOUS
  <2>3. l \in S /\ \A m \in S : m <= l
    <3> HIDE DEF S
    <3> QED BY <1>6, <2>1, <2>2, Greatest DEF S
  <2>4. l # 0 BY DEF l
  <2>5. l \in Clauses(s) /\ l < pc BY <2>3, <2>4
  <2>6. ASSUME NEW m \in Clauses(s) PROVE m <= l \/ pc <= m
    <3>1. m \in Nat /\ pc \in Nat BY <1>7, <1>8, <1>9
    <3>2. m < pc => m <= l BY <2>3
    <3> QED BY <3>1, <3>2
  <2> QED BY <2>5, <2>6
<1>11. l \in Children(b) /\ l \in Nat /\ pc \in Nat BY <1>7, <1>8, <1>9, <1>10
<1>12. Around(l, {"switch"}) = s
  <2>1. l \in Nodes /\ Parent(l) = b /\ l # 1 /\ fn.above[l] = {b} \cup fn.above[b]
    BY <1>5, <1>9, <1>11, Parents, Shape
  <2>2. b # 1 /\ fn.above[b] = {s} \cup fn.above[s] BY <1>4, <1>5, Shape
  <2>3. s \in fn.above[l] /\ s \in Nat BY <1>4, <2>1, <2>2, Shape
  <2>4. ASSUME NEW x \in fn.above[l], Kind(x) = "switch" PROVE x <= s
    <3>1. x # b BY <1>8, <2>4
    <3>2. x = s \/ x \in fn.above[s] BY <2>1, <2>2, <3>1
    <3>3. CASE x \in fn.above[s]
      <4>1. x \in Nodes /\ x < s BY <1>4, <3>3, Above
      <4> QED BY <2>3, <4>1, Shape
    <3> QED BY <2>3, <3>2, <3>3
  <2> DEFINE a == Around(l, {"switch"})
  <2>5. a \in fn.above[l] /\ Kind(a) = "switch" /\ s <= a
    <3>1. {x \in fn.above[l] : Kind(x) \in {"switch"}} # {} BY <1>3, <2>3
    <3> QED BY <1>3, <2>1, <2>3, <3>1, Arounds
  <2>6. a <= s /\ a \in Nat BY <2>1, <2>4, <2>5, Above, Shape
  <2> QED BY <2>3, <2>5, <2>6
<1>13. ~(Kind(prev) = "switch" /\ pc \in LabelsOf(prev))
  <2> SUFFICES ASSUME pc \in LabelsOf(prev) PROVE FALSE OBVIOUS
  <2>1. prev = s BY DEF LabelsOf, s
  <2>2. s \in fn.above[s] BY <1>1, <2>1 DEF Within
  <2>3. s < s BY <1>4, <2>2, Above
  <2> QED BY <1>4, <2>3, Shape
<1>14. ~(prev = Parent(pc) /\ pc = FirstOf(prev))
  <2> SUFFICES ASSUME prev = b, pc = FirstOf(prev) PROVE FALSE BY <1>8, <1>9
  <2>1. pc = b + 1 /\ b + 1 <= l BY <1>5, <1>11, First
  <2> QED BY <1>10, <1>11, <2>1
<1>15. Parent(pc) = b /\ pc \in Sub(pc) BY <1>8, <1>9 DEF Sub
<1>16. PICK x \in Line(prev), h \in Nodes :
              /\ x \in Nodes /\ Passing(x) /\ (x = prev \/ Kind(x) \in Loops \cup {"switch"})
              /\ Holds(h, x) /\ h < pc /\ Parent(h) = b
              /\ \A c \in Nodes : Parent(c) = b => c <= h \/ pc <= c
  BY <1>1, <1>2, <1>8, <1>13, <1>14, <1>15, Enters
<1>17. h \in Children(b) /\ l <= h
  <2>1. h \in Children(b) BY <1>16 DEF Children
  <2>2. l <= h \/ pc <= l BY <1>9, <1>11, <1>16
  <2> QED BY <1>10, <1>11, <2>1, <2>2
<1>18. \E x_1 \in Line(prev), h_1 \in Children(b) :
                  /\ x_1 \in Nodes /\ Passing(x_1) /\ (x_1 = prev \/ Kind(x_1) \in Loops \cup {"switch"})
                  /\ Holds(h_1, x_1) /\ l <= h_1 /\ h_1 < pc
                  /\ \A c \in Children(b) : c <= h_1 \/ pc <= c
  BY <1>9, <1>16, <1>17
<1>19. s \in OfKind({"switch"}) BY <1>3, <1>4 DEF OfKind
<1>20. Children(b) \subseteq Nodes BY <1>9
<1> QED BY <1>1, <1>8, <1>9, <1>10, <1>12, <1>18, <1>19, <1>20 DEF s, b, l

LEMMA FallThroughRight ==
  ASSUME Parses(fn), prev \in Nodes, pc \in Succ(prev)
  PROVE  FallThroughSeen
<1> SUFFICES ASSUME Fell, FellFrom # 0, FellFrom \notin FallThrough PROVE Kind(prev) = "fallthrough"
  BY DEF FallThroughSeen
<1> DEFINE s == Around(pc, {"switch"})
           b == FirstOf(s)
           l == FellFrom
           last == Max({Labelled(l)} \cup ClauseOf(s, l))
<1>1. /\ s \in OfKind({"switch"}) /\ Around(l, {"switch"}) = s
      /\ l \in Clauses(s) /\ pc \in Clauses(s) /\ l < pc /\ \A m \in Clauses(s) : m <= l \/ pc <= m
      /\ Children(b) \subseteq Nodes /\ \A c \in Children(b) : Parent(c) = b
  BY Falls
<1>2. PICK x \in Line(prev), h \in Children(b) :
        /\ x \in Nodes /\ Passing(x) /\ (x = prev \/ Kind(x) \in Loops \cup {"switch"})
        /\ Holds(h, x) /\ l <= h /\ h < pc
        /\ \A c \in Children(b) : c <= h \/ pc <= c
  BY Falls
<1>3. HasTerminating[last]
  <2>1. l \in UNION {Clauses(q) : q \in OfKind({"switch"})} BY <1>1
  <2>2. \E m \in Clauses(s) : m > l
    <3>1. l \in Nat /\ pc \in Nat BY <1>1, Shape DEF Clauses
    <3> QED BY <1>1, <3>1
  <2> QED BY <1>1, <2>1, <2>2 DEF FallThrough
<1>4. ClauseOf(s, l) = {t \in Children(b) : t > l /\ \A m \in Clauses(s) : m > l => t < m} BY DEF ClauseOf
<1>5. Clauses(s) \subseteq Children(b) BY DEF Clauses
<1> HIDE DEF s, b, l, last
<1>6. l \in Nat /\ pc \in Nat /\ h \in Nat /\ Children(b) \subseteq Nat /\ l \in Nodes /\ h \in Nodes
  BY <1>1, <1>5, Shape
<1>7. h \in Line(x) /\ (\A c \in Line(x) : c > h => ~Held(c)) /\ x \in Sub(h)
  BY <1>2, <1>6, Lines DEF Holds
<1>8. HasTerminating[x]
  <2>1. CASE h = l
    <3>1. ClauseOf(s, l) = {}
      <4> SUFFICES ASSUME NEW t \in ClauseOf(s, l) PROVE FALSE OBVIOUS
      <4>1. t \in Children(b) /\ t > l /\ t < pc /\ t \in Nat BY <1>1, <1>4, <1>6
      <4>2. t <= h \/ pc <= t BY <1>2, <4>1
      <4> QED BY <1>6, <2>1, <4>1, <4>2
    <3> DEFINE y == Labelled(l)
    <3>2. y \in Line(x) /\ l <= y /\ y \in Nat
      <4>1. x \in Sub(l) /\ Kind(x) \notin Labels BY <1>2, <1>7, <2>1 DEF Passing
      <4> QED BY <1>6, <4>1, Innermost, Shape
    <3> HIDE DEF y
    <3>3. last = y
      <4>1. last = Max({y}) BY <3>1 DEF last, y
      <4>2. {y} # {} /\ {y} \subseteq 0 .. y BY <3>2
      <4>3. Max({y}) \in {y} BY <3>2, <4>2, Greatest
      <4> QED BY <4>1, <4>3
    <3>4. \A c \in Line(x) : c > y => ~Held(c)
      <4>1. \A c \in Line(x) : c \in Nat BY <1>2, Lines, Shape
      <4> QED BY <1>6, <1>7, <2>1, <3>2, <4>1
    <3> QED BY <1>2, <1>3, <3>2, <3>3, <3>4, SameFound
  <2>2. CASE h # l
    <3>1. h > l BY <1>2, <1>6, <2>2
    <3>2. h \in ClauseOf(s, l) BY <1>1, <1>2, <1>4, <1>5, <1>6, <3>1
    <3>3. \A t \in ClauseOf(s, l) : t <= h /\ t \in Nat
      <4> TAKE t \in ClauseOf(s, l)
      <4>1. t \in Children(b) /\ t < pc /\ t \in Nat BY <1>1, <1>4, <1>6
      <4>2. t <= h \/ pc <= t BY <1>2, <4>1
      <4> QED BY <1>6, <4>1, <4>2
    <3>4. Labelled(l) \in Nat /\ Labelled(l) < h
      <4>1. Labelled(l) \in Sub(l) BY <1>6, Innermost
      <4>2. Parent(l) = Parent(h) /\ l < h BY <1>1, <1>5, <1>6, <3>1
      <4> QED BY <1>6, <4>1, <4>2, Siblings, Shape
    <3>5. last = h
      <4> DEFINE S == {Labelled(l)} \cup ClauseOf(s, l)
      <4>1. h \in S BY <3>2
      <4>2. ASSUME NEW t \in S PROVE t \in 0 .. h
        <5>1. CASE t = Labelled(l) BY <1>6, <3>4, <5>1
        <5>2. CASE t \in ClauseOf(s, l) BY <1>6, <3>3, <5>2
        <5> QED BY <4>2, <5>1, <5>2
      <4>3. S # {} /\ S \subseteq 0 .. h
        <5> HIDE DEF S
        <5> QED BY <4>1, <4>2
      <4> HIDE DEF S
      <4> DEFINE m == Max(S)
      <4>4. m \in S /\ h <= m BY <1>6, <4>1, <4>3, Greatest
      <4>5. m \in 0 .. h BY <4>3, <4>4
      <4> HIDE DEF m
      <4>6. m = h BY <1>6, <4>4, <4>5
      <4> QED BY <4>6 DEF S, m, last
    <3> QED BY <1>2, <1>3, <1>7, <3>5, SameFound
  <2> QED BY <2>1, <2>2
<1>9. Kind(x) = "fallthrough" BY <1>2, <1>8, PassingIsOpen
<1> QED BY <1>2, <1>9 DEF Loops

LEMMA MissingBreakRight ==
  ASSUME Parses(fn), prev \in Nodes, pc \in Succ(prev), Alive(prev)
  PROVE  MissingBreakSeen
<1> DEFINE s == Around(pc, {"switch"})
           b == FirstOf(s)
           l == FellFrom
<1> SUFFICES ASSUME Fell, FellFrom # 0, l \notin MissingBreak, Kind(FirstOf(l)) \notin Labels,
                    \A t \in ClauseOf(s, l) : ({t} \cup Within(t)) \cap OfKind({"label"} \cup Labels) = {}
             PROVE  FALSE
  BY DEF MissingBreakSeen
<1>1. /\ s \in OfKind({"switch"}) /\ Around(l, {"switch"}) = s
      /\ l \in Clauses(s) /\ pc \in Clauses(s) /\ l < pc /\ \A m \in Clauses(s) : m <= l \/ pc <= m
      /\ Children(b) \subseteq Nodes /\ Kind(b) = "compound" /\ \A c \in Children(b) : Parent(c) = b
  BY Falls
<1>2. PICK x \in Line(prev), h \in Children(b) :
        /\ x \in Nodes /\ Passing(x)
        /\ Holds(h, x) /\ l <= h /\ h < pc
        /\ \A c \in Children(b) : c <= h \/ pc <= c
  BY Falls
<1>3. PICK t \in {FirstOf(l)} \cup ClauseOf(s, l) : ContainsTerminator[t]
  <2>1. l \in UNION {Clauses(q) : q \in OfKind({"switch"})} BY <1>1
  <2> QED BY <1>1, <2>1 DEF MissingBreak
<1>4. ClauseOf(s, l) = {c \in Children(b) : c > l /\ \A m \in Clauses(s) : m > l => c < m} BY DEF ClauseOf
<1>5. Clauses(s) \subseteq Children(b) BY DEF Clauses
<1>6. Kind(l) \in Labels BY <1>1 DEF Clauses
<1> HIDE DEF s, b, l
<1>7. l \in Nat /\ pc \in Nat /\ h \in Nat /\ Children(b) \subseteq Nat /\ l \in Nodes /\ h \in Nodes
  BY <1>1, <1>5, Shape
<1>8. PICK u \in Children(b) : ContainsTerminator[u] /\ l <= u /\ u < pc
  <2>1. CASE t = FirstOf(l)
    <3>1. ContainsTerminatorOf(ContainsTerminator, l) BY <1>3, <1>6, <2>1 DEF ContainsTerminatorOf
    <3>2. ContainsTerminator[l] BY <1>7, <3>1, ContainsTerminatorIs
    <3> QED BY <1>1, <1>5, <1>7, <3>2
  <2>2. CASE t \in ClauseOf(s, l)
    <3>1. t \in Children(b) /\ t > l /\ t < pc BY <1>1, <1>4, <1>7, <2>2
    <3>2. l <= t BY <1>7, <3>1
    <3> QED BY <1>3, <3>1, <3>2
  <2> QED BY <1>3, <2>1, <2>2
<1>9. u <= h /\ u \in Nat /\ u \in Nodes
  <2>1. u <= h \/ pc <= u BY <1>2
  <2> QED BY <1>1, <1>7, <1>8, <2>1
<1>10. h \in Line(x) /\ \A c \in Line(x) : c > h => ~Held(c) BY <1>2 DEF Holds
<1>11. CASE u = h
  <2>1. ContainsTerminator[x] BY <1>2, <1>8, <1>10, <1>11, SameFound
  <2> QED BY <1>2, <2>1, PassingIsOpen
<1>12. CASE u # h
  <2>1. Parent(u) = b /\ Parent(h) = b BY <1>1
  <2>2. u < h BY <1>7, <1>9, <1>12
  <2>3. ASSUME NEW k \in Nodes, Parent(k) = b, u < k, k <= h
        PROVE  \A q \in Sub(k) : Kind(q) \notin Labels \cup {"label"}
    <3>1. k \in Children(b) /\ k \in Nat BY <2>3, Shape DEF Children
    <3>2. k > l /\ k < pc BY <1>2, <1>7, <1>8, <1>9, <2>3, <3>1
    <3>3. \A m \in Clauses(s) : m > l => k < m
      <4> TAKE m \in Clauses(s)
      <4>1. m \in Nat /\ (m <= l \/ pc <= m) BY <1>1, <1>5, <1>7
      <4> QED BY <1>7, <3>1, <3>2, <4>1
    <3>4. k \in ClauseOf(s, l) BY <1>4, <3>1, <3>2, <3>3
    <3>5. (Sub(k)) \cap OfKind({"label"} \cup Labels) = {} BY <3>4 DEF Sub, s, l
    <3> QED BY <2>3, <3>5 DEF Sub, OfKind, Within
  <2>4. Shut(u, h) BY <1>1, <1>8, <2>1, <2>2, <2>3 DEF Shut
  <2>5. prev \notin Sub(h) BY <1>7, <1>9, <2>4 DEF Alive
  <2>6. h \in Line(prev) BY <1>2, <1>10, Lines
  <2> QED BY <1>7, <2>5, <2>6, Lines
<1> QED BY <1>11, <1>12

--------------------------------------------------------------------------------
(* Code that does not run, and the ways out of a function. *)

LEMMA UnreachableRight ==
  ASSUME Parses(fn), Alive(pc)
  PROVE  ReportedIsUnreachable
<1> SUFFICES ASSUME NEW s \in Unreachable, Sub(s) \cap OfKind(Labels \cup {"label"}) = {}, pc \in Sub(s)
             PROVE  FALSE
  BY DEF ReportedIsUnreachable, Sub
<1> DEFINE ended(c) == Children(c) \cap OfKind(Terminators)
           behind(c) == {n \in Children(c) : n > Min(ended(c)) /\ Kind(n) # "null"}
<1>1. PICK c \in OfKind({"compound"}) : ended(c) # {} /\ behind(c) # {} /\ s = Min(behind(c)) BY DEF Unreachable
<1>2. c \in Nodes /\ Kind(c) = "compound" BY DEF OfKind
<1>3. Children(c) \subseteq Nat /\ Children(c) \subseteq Nodes BY Shape DEF Children
<1> DEFINE t == Min(ended(c))
<1>4. t \in ended(c)
  <2>1. ended(c) \subseteq Nat BY <1>3
  <2> HIDE DEF ended
  <2> QED BY <1>1, <2>1, Smallest
<1>5. t \in Children(c) /\ Kind(t) \in Terminators BY <1>4 DEF OfKind
<1>6. s \in behind(c) /\ \A n \in behind(c) : s <= n
  <2>1. behind(c) \subseteq Nat BY <1>3
  <2> HIDE DEF behind
  <2> QED BY <1>1, <2>1, Smallest
<1>7. behind(c) = {n \in Children(c) : n > t /\ Kind(n) # "null"} OBVIOUS
<1> HIDE DEF ended, behind, t
<1>8. s \in Children(c) /\ s > t BY <1>6, <1>7
<1>9. Parent(t) = c /\ Parent(s) = c /\ t \in Nodes /\ s \in Nodes /\ t < s BY <1>3, <1>5, <1>8 DEF Children
<1>10. ContainsTerminator[t]
  <2>1. ContainsTerminatorOf(ContainsTerminator, t) BY <1>5 DEF ContainsTerminatorOf
  <2> QED BY <1>9, <2>1, ContainsTerminatorIs
<1>11. ASSUME NEW k \in Nodes, Parent(k) = c, t < k, k <= s
       PROVE  \A l \in Sub(k) : Kind(l) \notin Labels \cup {"label"}
  <2>1. k \in Children(c) /\ k \in Nat /\ s \in Nat BY <1>3, <1>8, <1>11 DEF Children
  <2>2. CASE k = s
    <3>1. Sub(s) \subseteq Nodes BY <1>9 DEF Sub, Within
    <3> QED BY <2>2, <3>1 DEF OfKind
  <2>3. CASE k # s
    <3>1. k \notin behind(c) BY <1>6, <1>11, <2>1, <2>3
    <3>2. Kind(k) = "null" BY <1>3, <1>7, <1>11, <2>1, <3>1, <1>5
    <3>3. Children(k) = {} BY <1>11, <3>2, Grammar DEF Single, Loops, Labels
    <3>4. Sub(k) = {k}
      <4> SUFFICES ASSUME NEW l \in Nodes, k \in fn.above[l] PROVE FALSE BY DEF Sub, Within
      <4> QED BY <3>3, ChildOn
    <3> QED BY <3>2, <3>4 DEF Labels
  <2> QED BY <2>2, <2>3
<1>12. Shut(t, s) BY <1>2, <1>9, <1>10, <1>11 DEF Shut
<1> QED BY <1>9, <1>12 DEF Alive

LEMMA FallOffRight ==
  ASSUME Parses(fn), prev \in Nodes, pc \in Succ(prev)
  PROVE  NoFallOff
<1> SUFFICES ASSUME pc = End, AlwaysReturns[1], Kind(prev) \notin {"return", "throw", "nrcall"} PROVE FALSE
  BY DEF NoFallOff, MissingReturn
<1>1. End \notin Nodes BY Shape DEF End
<1>2. \A n \in Nodes : Arrive[n] # End BY <1>1, Arrives
<1>3. CASE \E x \in Line(prev) : x \in Nodes /\ pc = After[x] /\ Passing(x)
  <2>1. PICK x \in Nodes : pc = After[x] /\ Passing(x) BY <1>3
  <2>2. PICK h \in Nodes : Holds(h, x) /\ After[x] = Onward[h] BY Ended
  <2>3. h \in Line(x) /\ Held(h) /\ \A b \in Line(x) : b > h => ~Held(b) BY <2>2 DEF Holds
  <2>4. h = 1
    <3>1. ASSUME h # 1, Kind(Parent(h)) \in Loops, Onward[h] = Parent(h) PROVE FALSE
      BY <1>1, <2>1, <2>2, <3>1, Shape
    <3>2. ASSUME NEW m \in Nodes, Onward[h] = Arrive[m] PROVE FALSE BY <1>2, <2>1, <2>2, <3>2
    <3> QED BY <2>3, <3>1, <3>2, Onwards
  <2>5. AlwaysReturns[x] BY <2>3, <2>4, SameFound
  <2> QED BY <2>1, <2>5, PassingIsOpen
<1>4. CASE \E c \in Children(prev) : pc = Arrive[c] BY <1>2, <1>4 DEF Children
<1>5. CASE pc \in LabelsOf(prev) BY <1>1, <1>5 DEF LabelsOf, OfKind
<1>6. CASE pc \in fn.above[prev] BY <1>1, <1>6, Above
<1>7. CASE pc \in OfKind({"label"}) BY <1>1, <1>7 DEF OfKind
<1> QED BY <1>3, <1>4, <1>5, <1>6, <1>7, Successors

LEMMA TwoIn ==
  ASSUME NEW S, IsFiniteSet(S), NEW a \in S, NEW b \in S, a # b
  PROVE  Cardinality(S) \in Nat /\ Cardinality(S) > 1
<1> DEFINE A == {a}
           B == A \cup {b}
<1>1. IsFiniteSet(A) /\ Cardinality(A) = 1 BY FS_Singleton
<1>2. b \notin A OBVIOUS
<1>3. B \in SUBSET S OBVIOUS
<1>4. IsFiniteSet(B) /\ Cardinality(B) = Cardinality(A) + 1
  <2> HIDE DEF A
  <2> QED BY <1>1, <1>2, FS_AddElement
<1> HIDE DEF A, B
<1>5. Cardinality(B) <= Cardinality(S) BY <1>3, FS_Subset
<1>6. Cardinality(S) \in Nat BY FS_CardinalityType
<1> QED BY <1>1, <1>4, <1>5, <1>6

LEMMA OneWayOutRight ==
  ASSUME Parses(fn), prev \in Nodes, pc \in Succ(prev)
  PROVE  OneWayOut
<1> SUFFICES ASSUME pc = End, ~Spared, ~MissingReturn, ~ManyReturns, Kind(prev) \notin {"throw", "nrcall"}
             PROVE  Returns = {prev}
  BY DEF OneWayOut
<1>1. prev # 0 BY Shape
<1>2. Kind(prev) = "return" BY <1>1, FallOffRight DEF NoFallOff
<1>3. prev \in Returns BY <1>2 DEF Returns, OfKind
<1>4. IsFiniteSet(Returns)
  <2>1. IsFiniteSet(Nodes) BY Shape, FS_Interval
  <2>2. Returns \subseteq Nodes BY DEF Returns, OfKind
  <2> QED BY <2>1, <2>2, FS_Subset
<1> SUFFICES ASSUME NEW r \in Returns, r # prev PROVE FALSE BY <1>3
<1> QED BY <1>3, <1>4, TwoIn DEF ManyReturns

LEMMA NoreturnRight ==
  ASSUME prev \in Nodes
  PROVE  NoreturnKept
BY DEF NoreturnKept, NoreturnReturnCpp, NoreturnReturnC, Returns, OfKind

\* What is noted of the jumps out of loops.
JumpsOut == \A p \in jumps : Kind(p[2]) \in {"break", "goto"}

LEMMA LoopExitsRight ==
  ASSUME Parses(fn), JumpsOut
  PROVE  LoopExitsSeen
<1> SUFFICES ASSUME NEW w \in OfKind(Loops \ {"range"}),
                    Cardinality({b \in Nodes : <<w, b>> \in jumps /\ Around(b, Counted) = w}) > 1
             PROVE  w \in ManyTerminators
  BY DEF LoopExitsSeen
<1> DEFINE B == {b \in Nodes : <<w, b>> \in jumps /\ Around(b, Counted) = w}
           T == TerminatorsAt(w)
<1>1. B \in SUBSET T
  <2> SUFFICES ASSUME NEW b \in Nodes, <<w, b>> \in jumps, Around(b, Counted) = w PROVE b \in T OBVIOUS
  <2>1. Kind(b) \in {"break", "goto"}
    <3>1. <<w, b>>[2] = b OBVIOUS
    <3> QED BY <3>1 DEF JumpsOut
  <2> QED BY <2>1 DEF TerminatorsAt, OfKind
<1>2. IsFiniteSet(T)
  <2>1. IsFiniteSet(Nodes) BY Shape, FS_Interval
  <2>2. T \in SUBSET Nodes BY DEF TerminatorsAt, OfKind
  <2> HIDE DEF T
  <2> QED BY <2>1, <2>2, FS_Subset
<1>3. Cardinality(B) > 1 OBVIOUS
<1>4. Cardinality(T) > 1
  <2> HIDE DEF B, T
  <2>1. Cardinality(B) \in Nat /\ Cardinality(T) \in Nat BY <1>1, <1>2, FS_Subset, FS_CardinalityType
  <2>2. Cardinality(B) <= Cardinality(T) BY <1>1, <1>2, FS_Subset
  <2> QED BY <1>3, <2>1, <2>2
<1> QED BY <1>4 DEF ManyTerminators

LEMMA SwitchesRight ==
  ASSUME Parses(fn), prev \in Nodes, pc \in Succ(prev)
  PROVE  SwitchesDecide
<1> SUFFICES ASSUME Kind(prev) = "switch", prev \notin NoDefault, prev \notin IllFormed, prev \notin SingleClause
             PROVE  \/ pc \in LabelsOf(prev) /\ LabelsOf(prev) # {pc}
                    \/ prev \in MissingDefault /\ Cardinality(LabelsOf(prev)) = fn.enumerators
  BY DEF SwitchesDecide
<1>1. prev \in OfKind({"switch"}) BY DEF OfKind
<1>2. CASE pc \in LabelsOf(prev)
  <2>1. ~(Cardinality(LabelsOf(prev)) < 2) BY <1>1 DEF SingleClause
  <2>2. Cardinality({pc}) = 1 BY FS_Singleton
  <2>3. LabelsOf(prev) # {pc} BY <2>1, <2>2
  <2> QED BY <1>2, <2>3
<1>3. CASE pc \notin LabelsOf(prev)
  <2>1. ~\E l \in LabelsOf(prev) : Kind(l) = "default"
    <3> DEFINE past(always) == IF always THEN {} ELSE {After[prev]}
               HasDefault == \E l \in LabelsOf(prev) : Kind(l) = "default"
    <3>1. pc \in LabelsOf(prev) \cup past(HasDefault) BY DEF Succ, Loops, Labels
    <3> QED BY <1>3, <3>1
  <2>2. prev \in MissingDefault BY <1>1, <2>1 DEF MissingDefault
  <2>3. Cardinality(LabelsOf(prev)) = fn.enumerators BY <2>2 DEF NoDefault
  <2> QED BY <2>2, <2>3
<1> QED BY <1>2, <1>3

LEMMA NestedRight ==
  ASSUME Parses(fn), prev \in Nodes
  PROVE  NestedSeen
<1> DEFINE c == Parent(pc)
<1> SUFFICES ASSUME Kind(prev) = "switch", pc \in LabelsOf(prev), Kind(c) = "compound", c # FirstOf(prev)
             PROVE  pc \in NestedLabel /\ pc \in Unstructured
  BY DEF NestedSeen
<1>1. pc \in Nodes /\ Kind(pc) \in Labels /\ pc \in OfKind(Labels) /\ Around(pc, {"switch"}) = prev
  BY DEF LabelsOf, OfKind
<1>2. /\ prev \in fn.above[pc] /\ pc # 1
      /\ \A x \in fn.above[pc] : Kind(x) = "switch" => x <= prev
  <2>1. {a \in fn.above[pc] : Kind(a) \in {"switch"}} # {} BY <1>1, Grammar
  <2> QED BY <1>1, <2>1, Arounds, Above
<1>3. c \in Nodes /\ fn.above[pc] = {c} \cup fn.above[c] BY <1>1, <1>2, Shape
<1>4. prev \in fn.above[c] /\ prev < c /\ c # 1
  <2>1. prev \in fn.above[c] BY <1>2, <1>3
  <2> QED BY <1>3, <2>1, Above
<1>5. Around(pc, {"compound"}) = c
  <2> DEFINE a == Around(pc, {"compound"})
  <2>1. {x \in fn.above[pc] : Kind(x) \in {"compound"}} # {} BY <1>3
  <2>2. a \in fn.above[pc] /\ c <= a BY <1>1, <1>3, <2>1, Arounds
  <2> HIDE DEF a, c
  <2>3. CASE a \in fn.above[c]
    <3>1. a \in Nodes /\ a < c BY <1>3, <2>3, Above
    <3> QED BY <1>3, <2>2, <3>1, Shape
  <2> QED BY <1>3, <2>2, <2>3 DEF a
<1>6. Kind(Parent(c)) # "switch"
  <2> SUFFICES ASSUME Kind(Parent(c)) = "switch" PROVE FALSE OBVIOUS
  <2>1. Parent(c) \in Nodes /\ fn.above[c] = {Parent(c)} \cup fn.above[Parent(c)] BY <1>3, <1>4, Shape
  <2>2. Parent(c) <= prev BY <1>2, <1>3, <2>1
  <2>3. prev # Parent(c)
    <3> SUFFICES ASSUME prev = Parent(c) PROVE FALSE OBVIOUS
    <3>1. c \in Children(prev) BY <1>3 DEF Children
    <3> QED BY <3>1, OnlyChild DEF Single
  <2>4. prev < Parent(c) BY <1>4, <2>1, <2>3, Above
  <2> QED BY <2>1, <2>2, <2>4, Shape
<1>7. Parent(c) # 0
  <2>1. Parent(c) \in Nodes BY <1>3, <1>4, Shape
  <2> QED BY <2>1, Shape
<1>8. pc \in NestedLabel
  <2>1. c > prev BY <1>4
  <2> QED BY <1>1, <1>5, <2>1 DEF NestedLabel
<1>9. pc \in Unstructured BY <1>1, <1>6, <1>7 DEF Unstructured
<1> QED BY <1>8, <1>9

\* Where every body has braces, a statement without a body of its own is in no more loops,
\* branches and switches than the block around it.
LEMMA Braces ==
  ASSUME Parses(fn), MissingCompound \cup NonCompoundBody = {},
         NEW n \in Nodes, Kind(n) \in {"goto", "label"}
  PROVE  {a \in fn.above[n] : Kind(a) \in Loops \cup {"if", "switch"}}
           = {a \in fn.above[Around(n, {"compound"})] : Kind(a) \in Loops \cup {"if", "switch"}}
<1> DEFINE G == Loops \cup {"if", "switch"}
           c == Around(n, {"compound"})
<1>1. c \in fn.above[n] /\ Kind(c) = "compound" /\ \A x \in fn.above[n] : Kind(x) = "compound" => x <= c
  <2>1. 1 \in fn.above[n] BY Shape, Lines DEF Line
  <2>2. {x \in fn.above[n] : Kind(x) \in {"compound"}} # {} BY <2>1, Shape
  <2> QED BY <2>2, Arounds
<1> HIDE DEF c
<1>2. c \in Nodes /\ fn.above[c] \subseteq fn.above[n] BY <1>1, Above, AboveAbove
<1>3. NoBraces(Loops) = {} /\ NoBraces((Loops \ {"range"}) \cup {"switch"}) = {}
  <2>1. NonCompoundBody = {} BY Zenon
  <2>2. MissingCompound = {} BY Zenon
  <2> QED BY <2>1, <2>2 DEF NonCompoundBody, MissingCompound
<1> DEFINE Bad == {a \in fn.above[n] : Kind(a) \in G /\ a > c}
<1>4. Bad = {}
  <2> SUFFICES ASSUME Bad # {} PROVE FALSE OBVIOUS
  <2>1. Bad \subseteq 0 .. n /\ n \in Nat BY Above, Shape
  <2> DEFINE a == Max(Bad)
  <2>2. a \in Bad /\ \A x \in Bad : x <= a
    <3> HIDE DEF Bad
    <3> QED BY <2>1, Greatest
  <2>3. a \in fn.above[n] /\ Kind(a) \in G /\ a > c BY <2>2
  <2> HIDE DEF a
  <2>4. a \in Nodes BY <2>3, Above
  <2>5. PICK b \in Children(a) : b \in Line(n) BY <2>3, ChildOn
  <2>6. b \in Nodes /\ Parent(b) = a /\ b # 1 /\ a < b BY <2>4, <2>5, Parents
  <2>7. a \in Nat /\ b \in Nat /\ c \in Nat BY <1>2, <2>4, <2>6, Shape
  <2>8. Kind(b) # "compound"
    <3> SUFFICES ASSUME Kind(b) = "compound" PROVE FALSE OBVIOUS
    <3>1. b \in fn.above[n] BY <2>5 DEF Line
    <3>2. b <= c BY <1>1, <3>1
    <3> QED BY <2>3, <2>6, <2>7, <3>2
  <2>9. b \in Nodes \ {1} BY <2>6
  <2>10. Kind(a) = "if"
    <3>1. Kind(a) \notin Loops
      <4> SUFFICES ASSUME Kind(Parent(b)) \in Loops PROVE FALSE BY <2>6
      <4>1. b \in NoBraces(Loops) BY <2>8, <2>9 DEF NoBraces
      <4> QED BY <1>3, <4>1
    <3>2. Kind(a) # "switch"
      <4> SUFFICES ASSUME Kind(Parent(b)) = "switch" PROVE FALSE BY <2>6
      <4>1. b \in NoBraces((Loops \ {"range"}) \cup {"switch"}) BY <2>8, <2>9 DEF NoBraces
      <4> QED BY <1>3, <4>1
    <3> QED BY <2>3, <3>1, <3>2
  <2>11. Kind(b) = "if"
    <3> SUFFICES ASSUME Kind(b) # "if" PROVE FALSE OBVIOUS
    <3>1. b \in NoBraces(Loops) BY <2>6, <2>8, <2>9, <2>10 DEF NoBraces
    <3> QED BY <1>3, <3>1
  <2>12. b \in fn.above[n] BY <2>5, <2>11 DEF Line
  <2>13. b > c BY <2>3, <2>6, <2>7
  <2>14. b \in Bad BY <2>11, <2>12, <2>13
  <2> HIDE DEF Bad
  <2>15. b <= a BY <2>2, <2>14 DEF a
  <2> QED BY <2>6, <2>7, <2>15
<1>5. ASSUME NEW a \in fn.above[n], Kind(a) \in G PROVE a \in fn.above[c]
  <2>1. a # c BY <1>1, <1>5 DEF Loops
  <2>2. ~(a > c) BY <1>4, <1>5
  <2>3. a \in Line(n) /\ c \in Line(n) /\ a \in Nat /\ c \in Nat BY <1>1, <1>2, Above, Shape DEF Line
  <2>4. a <= c BY <2>2, <2>3
  <2>5. a \in Line(c) BY <2>3, <2>4, Lines
  <2> QED BY <2>1, <2>5 DEF Line
<1> QED BY <1>2, <1>5 DEF c

LEMMA GotosRight ==
  ASSUME Parses(fn), prev \in Nodes, pc \in Succ(prev)
  PROVE  GotosStayInBlock
<1> DEFINE around(n) == {a \in fn.above[n] : Kind(a) \in Loops \cup {"if", "switch"}}
           c(n) == Around(n, {"compound"})
<1> SUFFICES ASSUME Kind(prev) = "goto", prev \notin OtherBlock, MissingCompound \cup NonCompoundBody = {}
             PROVE  around(prev) = around(pc)
  BY DEF GotosStayInBlock
<1>1. pc \in OfKind({"label"}) BY DEF Succ, Loops, Labels
<1>2. pc \in Nodes /\ Kind(pc) = "label" BY <1>1 DEF OfKind
<1>3. c(prev) = c(pc) BY <1>1 DEF OtherBlock, OfKind
<1>4. around(prev) = around(c(prev)) BY Braces
<1>5. around(pc) = around(c(pc)) BY <1>2, Braces
<1> QED BY <1>3, <1>4, <1>5, Zenon

--------------------------------------------------------------------------------
(* WrongOrderInSwitchStmtCheck and its two members. *)

AllMatches == {p \in Matches : p[2] \in LabelsOf(p[1])}
Seen == AllMatches \ rest
IsDefault(d) == Kind(d) = "default"
\* A default between two labels of its switch among the matches of M.
Between(M) ==
  {d \in OfKind({"default"}) : \E s, a, b \in Nodes : {<<s, a>>, <<s, d>>, <<s, b>>} \subseteq M /\ a < d /\ d < b}
\* Match p is the last one seen.
Latest(p) == p \in Seen /\ \A q \in Seen : q = p \/ Before(q, p)

\* The matches are seen in order; PrevSwitch is the switch of the last one, PrevDefault
\* its label if that is a default behind which a label of its switch was seen.
Walked ==
  /\ rest \subseteq AllMatches
  /\ \A p \in Seen : \A q \in rest : Before(p, q)
  /\ Seen = {} => prevSwitch = 0 /\ prevDefault = 0
  /\ Seen # {} => \E p \in Seen :
       /\ Latest(p) /\ prevSwitch = p[1]
       /\ prevDefault = IF IsDefault(p[2]) /\ \E q \in Seen : q[1] = p[1] /\ q[2] > p[2] THEN p[2] ELSE 0
  /\ misplaced = Between(Seen)

LEMMA Pairs ==
  ASSUME Parses(fn), NEW p \in AllMatches
  PROVE  /\ p = <<p[1], p[2]>> /\ p[1] \in Nodes /\ p[2] \in Nodes /\ p[1] \in Nat /\ p[2] \in Nat /\ p[2] # 0
         /\ Kind(p[1]) = "switch" /\ Kind(p[2]) \in Labels /\ p[2] \in LabelsOf(p[1])
<1>1. PICK s \in OfKind({"switch"}), l \in OfKind(Labels) : p = <<s, l>> BY DEF AllMatches, Matches
<1>2. p[1] = s /\ p[2] = l BY <1>1
<1>3. s \in Nodes /\ l \in Nodes /\ Kind(s) = "switch" /\ Kind(l) \in Labels BY DEF OfKind
<1>4. p[2] \in LabelsOf(p[1]) BY DEF AllMatches
<1> QED BY <1>1, <1>2, <1>3, <1>4, Shape

LEMMA FirstMatch ==
  ASSUME Parses(fn), rest # {}, rest \subseteq AllMatches
  PROVE  NextMatch \in rest /\ \A q \in rest : NextMatch = q \/ Before(NextMatch, q)
<1> DEFINE S == {p[1] : p \in rest}
<1>1. \A p \in rest : /\ p = <<p[1], p[2]>> /\ p[1] \in Nat /\ p[2] \in 0 .. Len(fn.kind)
  BY Pairs, Shape
<1>2. S # {} /\ S \subseteq Nat BY <1>1
<1>3. PICK s \in S : \A m \in S : s <= m
  <2> HIDE DEF S
  <2> QED BY <1>2, LeastNumber
<1> DEFINE C == {p[2] : p \in {p \in rest : p[1] = s}}
<1>4. C # {} /\ C \subseteq 0 .. Len(fn.kind) BY <1>1, <1>3
<1>5. Max(C) \in C /\ \A m \in C : m <= Max(C)
  <2> HIDE DEF C
  <2> QED BY <1>4, Greatest, Shape
<1>6. PICK p \in rest : p[1] = s /\ p[2] = Max(C) BY <1>5
<1>7. ASSUME NEW q \in rest PROVE p = q \/ Before(p, q)
  <2>1. q[1] \in S BY <1>7
  <2>2. s <= q[1] /\ s \in Nat /\ q[1] \in Nat BY <1>1, <1>3, <2>1, <1>2
  <2>3. CASE q[1] = s
    <3>1. q[2] \in C BY <2>3
    <3>2. q[2] <= p[2] BY <1>5, <1>6, <3>1
    <3>3. q[2] \in Nat /\ p[2] \in Nat BY <1>1
    <3>4. CASE q[2] = p[2] BY <1>1, <1>6, <2>3, <3>4
    <3>5. CASE q[2] # p[2] BY <1>6, <2>3, <3>2, <3>3, <3>5 DEF Before
    <3> QED BY <3>4, <3>5
  <2>4. CASE q[1] # s BY <1>6, <2>2, <2>4 DEF Before
  <2> QED BY <2>3, <2>4
<1> QED BY <1>7 DEF NextMatch

LEMMA OneDefault ==
  ASSUME Parses(fn), NEW s \in Nodes, Kind(s) = "switch", NEW d \in LabelsOf(s), NEW e \in LabelsOf(s),
         IsDefault(d), IsDefault(e)
  PROVE  d = e
<1> DEFINE A(n) == {a \in fn.above[n] : Kind(a) \in {"switch"}}
<1>1. ASSUME NEW n \in LabelsOf(s) PROVE n \in Nodes /\ A(n) = {a \in Line(s) : Kind(a) \in {"switch"}}
  <2>1. n \in Nodes /\ Kind(n) \in Labels /\ Around(n, {"switch"}) = s BY DEF LabelsOf, OfKind
  <2>2. s \in fn.above[n] /\ \A a \in A(n) : a <= s BY <2>1, Arounds, Grammar
  <2>3. s \in Line(n) /\ Kind(n) # "switch" BY <2>1, <2>2 DEF Line, Labels
  <2>4. ASSUME NEW a \in A(n) PROVE a \in Line(s)
    <3>1. a \in Line(n) /\ a <= s BY <2>2 DEF Line
    <3> QED BY <2>1, <2>3, <3>1, Lines
  <2>5. ASSUME NEW a \in Line(s), Kind(a) \in {"switch"} PROVE a \in A(n)
    <3>1. a \in Line(n) BY <2>1, <2>3, Lines
    <3> QED BY <2>3, <2>5, <3>1 DEF Line
  <2> QED BY <2>1, <2>4, <2>5
<1>2. d \in Nodes /\ e \in Nodes /\ A(d) = A(e) BY <1>1
<1>3. \A x, y \in Nodes : IsDefault(x) /\ IsDefault(y) /\ A(x) = A(y) => x = y
  BY DEF Parses, Nodes, IsDefault, Kind
<1> QED BY <1>2, <1>3

\* Once every match is seen, the reports are as the rule has it.
LEMMA MisplacedRight ==
  ASSUME Parses(fn), Walked
  PROVE  DefaultMisplaced
<1> SUFFICES ASSUME rest = {}
             PROVE  misplaced = {d \in OfKind({"default"}) :
                                   LET ls == LabelsOf(Around(d, {"switch"})) IN Min(ls) < d /\ d < Max(ls)}
  BY DEF DefaultMisplaced
<1>1. misplaced = Between(AllMatches)
  <2>1. Seen = AllMatches BY DEF Seen
  <2> QED BY <2>1 DEF Walked
<1>2. ASSUME NEW d \in OfKind({"default"})
      PROVE  LET ls == LabelsOf(Around(d, {"switch"}))
             IN  (\E s, a, b \in Nodes : {<<s, a>>, <<s, d>>, <<s, b>>} \subseteq AllMatches /\ a < d /\ d < b)
                   <=> Min(ls) < d /\ d < Max(ls)
  <2> DEFINE s == Around(d, {"switch"})
             ls == LabelsOf(s)
  <2>1. d \in Nodes /\ Kind(d) \in Labels BY DEF OfKind, Labels
  <2>2. s \in Nodes /\ Kind(s) = "switch"
    <3>1. {a \in fn.above[d] : Kind(a) \in {"switch"}} # {} BY <2>1, Grammar
    <3> QED BY <2>1, <3>1, Arounds, Above
  <2>3. d \in ls BY <2>1 DEF LabelsOf, OfKind
  <2> HIDE DEF s
  <2>4. \A q, a : <<q, a>> \in AllMatches <=> Kind(q) = "switch" /\ q \in Nodes /\ a \in LabelsOf(q)
    <3>1. ASSUME NEW q, NEW a, <<q, a>> \in AllMatches PROVE Kind(q) = "switch" /\ q \in Nodes /\ a \in LabelsOf(q)
      <4>1. <<q, a>>[1] = q /\ <<q, a>>[2] = a OBVIOUS
      <4> QED BY <3>1, <4>1, Pairs
    <3>2. ASSUME NEW q, NEW a, Kind(q) = "switch", q \in Nodes, a \in LabelsOf(q) PROVE <<q, a>> \in AllMatches
      <4>1. q \in OfKind({"switch"}) /\ a \in OfKind(Labels) BY <3>2 DEF OfKind, LabelsOf
      <4>2. <<q, a>>[1] = q /\ <<q, a>>[2] = a OBVIOUS
      <4> QED BY <3>2, <4>1, <4>2 DEF AllMatches, Matches
    <3> QED BY <3>1, <3>2
  <2>5. ls \subseteq 0 .. Len(fn.kind) /\ ls \subseteq Nodes /\ ls \subseteq Nat BY Shape DEF LabelsOf, OfKind
  <2>6. \A q : d \in LabelsOf(q) => q = s BY DEF LabelsOf, s
  <2> HIDE DEF ls
  <2>7. Max(ls) \in ls /\ \A m \in ls : m <= Max(ls) BY <2>3, <2>5, Greatest, Shape
  <2>8. Min(ls) \in ls /\ \A m \in ls : Min(ls) <= m BY <2>3, <2>5, Smallest
  <2>9. ASSUME NEW q \in Nodes, NEW a \in Nodes, NEW b \in Nodes,
               {<<q, a>>, <<q, d>>, <<q, b>>} \subseteq AllMatches, a < d, d < b
        PROVE  Min(ls) < d /\ d < Max(ls)
    <3>1. a \in LabelsOf(q) /\ d \in LabelsOf(q) /\ b \in LabelsOf(q) BY <2>4, <2>9
    <3>2. a \in ls /\ b \in ls BY <2>6, <3>1 DEF ls
    <3>3. Min(ls) <= a /\ b <= Max(ls) BY <2>7, <2>8, <3>2
    <3>4. Min(ls) \in Nat /\ Max(ls) \in Nat /\ a \in Nat /\ b \in Nat /\ d \in Nat BY <2>3, <2>5, <2>7, <2>8, <3>2
    <3> QED BY <2>9, <3>3, <3>4
  <2>10. ASSUME Min(ls) < d, d < Max(ls)
         PROVE  \E q, a, b \in Nodes : {<<q, a>>, <<q, d>>, <<q, b>>} \subseteq AllMatches /\ a < d /\ d < b
    <3>1. <<s, Min(ls)>> \in AllMatches /\ <<s, d>> \in AllMatches /\ <<s, Max(ls)>> \in AllMatches
      BY <2>2, <2>3, <2>4, <2>7, <2>8 DEF ls
    <3>2. Min(ls) \in Nodes /\ Max(ls) \in Nodes BY <2>5, <2>7, <2>8
    <3> QED BY <2>2, <2>10, <3>1, <3>2
  <2>11. (\E q, a, b \in Nodes : {<<q, a>>, <<q, d>>, <<q, b>>} \subseteq AllMatches /\ a < d /\ d < b)
            <=> Min(ls) < d /\ d < Max(ls)
    BY <2>9, <2>10
  <2> QED BY <2>11 DEF ls, s
<1> DEFINE M(d) == LET ls == LabelsOf(Around(d, {"switch"})) IN Min(ls) < d /\ d < Max(ls)
<1>3. ASSUME NEW d \in OfKind({"default"}) PROVE d \in Between(AllMatches) <=> M(d) BY <1>2 DEF Between
<1>4. Between(AllMatches) \subseteq OfKind({"default"}) BY DEF Between
<1> HIDE DEF M
<1>5. Between(AllMatches) = {d \in OfKind({"default"}) : M(d)} BY <1>3, <1>4
<1> QED BY <1>1, <1>5 DEF M

--------------------------------------------------------------------------------
(* A step leaves the body as it is, and with it all that depends on nothing else. *)

LEMMA Steady ==
  ASSUME fn' = fn
  PROVE  /\ Nodes' = Nodes
         /\ \A n : Kind(n)' = Kind(n) /\ Parent(n)' = Parent(n) /\ Children(n)' = Children(n)
                   /\ Within(n)' = Within(n) /\ Sub(n)' = Sub(n) /\ Line(n)' = Line(n)
         /\ \A K : OfKind(K)' = OfKind(K)
         /\ \A n, K : Around(n, K)' = Around(n, K)
         /\ \A n : LabelsOf(n)' = LabelsOf(n) /\ Held(n)' = Held(n) /\ HasElse(n)' = HasElse(n)
<1>1. Nodes' = Nodes BY DEF Nodes
<1>2. \A n : Kind(n)' = Kind(n) BY DEF Kind
<1>3. \A n : Parent(n)' = Parent(n) BY DEF Parent
<1>4. \A n : Children(n)' = Children(n) BY <1>1, <1>3 DEF Children
<1>5. \A n : Within(n)' = Within(n) BY <1>1 DEF Within
<1>6. \A n : Sub(n)' = Sub(n) BY <1>5 DEF Sub
<1>7. \A n : Line(n)' = Line(n) BY DEF Line
<1>8. \A K : OfKind(K)' = OfKind(K) BY <1>1, <1>2 DEF OfKind
<1>9. \A n, K : Around(n, K)' = Around(n, K)
  <2> TAKE n, K
  <2>1. {a \in fn'.above[n] : Kind(a)' \in K} = {a \in fn.above[n] : Kind(a) \in K} BY <1>2
  <2> QED BY <2>1 DEF Around
<1>10. \A n : LabelsOf(n)' = LabelsOf(n) BY <1>8, <1>9 DEF LabelsOf
<1>11. \A n : Later(n)' = Later(n) BY <1>1, <1>2, <1>3 DEF Later
<1>12. \A n : Held(n)' = Held(n) BY <1>2, <1>3, <1>11 DEF Held
<1>13. \A n : HasElse(n)' = HasElse(n) BY <1>4 DEF HasElse
<1> QED BY <1>1, <1>2, <1>3, <1>4, <1>5, <1>6, <1>7, <1>8, <1>9, <1>10, <1>12, <1>13

LEMMA SteadyRuns ==
  ASSUME fn' = fn
  PROVE  /\ \A n : Succ(n)' = Succ(n)
         /\ \A n : Alive(n)' <=> Alive(n)
         /\ AllMatches' = AllMatches
         /\ \A M : Between(M)' = Between(M)
<1>1. ASSUME NEW n PROVE Succ(n)' = Succ(n)
  BY DEF Succ, After, Onward, Held, Later, Arrive, Nodes, Kind, Children, Parent, FirstOf, OfKind, Around,
         LabelsOf, HasElse
<1>2. ASSUME NEW n PROVE Alive(n)' <=> Alive(n)
  BY DEF Alive, Shut, Within, Sub, ContainsTerminator, Nodes, Kind, Children, Parent, LastOf, FirstOf
<1>3. AllMatches' = AllMatches BY DEF AllMatches, Matches, LabelsOf, OfKind, Around, Nodes, Kind
<1>4. ASSUME NEW M PROVE Between(M)' = Between(M) BY DEF Between, OfKind, Nodes, Kind
<1> QED BY <1>1, <1>2, <1>3, <1>4

RunInv ==
  /\ prev \in Nodes \cup {0} /\ pc \in Nodes \cup {End}
  /\ prev # 0 => pc \in Succ(prev)
  /\ Alive(prev) /\ Alive(pc) /\ JumpsOut

LEMMA RunStep ==
  ASSUME Parses(fn), RunInv, Run
  PROVE  RunInv'
<1>1. fn' = fn /\ pc # End BY DEF Run
<1>2. PICK m \in Succ(pc) :
        /\ prev' = pc /\ pc' = m
        /\ jumps' = IF Kind(pc) \in {"break", "goto"} THEN jumps \cup Leaves(pc, m) ELSE jumps
  BY DEF Run
<1>3. pc \in Nodes /\ Alive(pc) /\ JumpsOut BY <1>1 DEF RunInv
<1>4. m \in Nodes \cup {End} BY <1>3, SuccessorsInBody
<1>5. Alive(m) BY <1>3, StaysAlive
<1>6. (prev \in Nodes \cup {0} /\ pc \in Nodes \cup {End})' BY <1>1, <1>2, <1>3, <1>4, Steady
<1>7. (pc \in Succ(prev))' BY <1>1, <1>2, SteadyRuns
<1>8. Alive(prev)' /\ Alive(pc)' BY <1>1, <1>2, <1>3, <1>5, SteadyRuns
<1>9. JumpsOut'
  <2> SUFFICES ASSUME NEW p \in jumps' PROVE Kind(p[2])' \in {"break", "goto"} BY DEF JumpsOut
  <2>1. CASE p \in jumps BY <1>1, <1>3, <2>1, Steady DEF JumpsOut
  <2>2. CASE p \notin jumps
    <3>1. Kind(pc) \in {"break", "goto"} /\ p \in Leaves(pc, m) BY <1>2, <2>2
    <3>2. p[2] = pc BY <3>1 DEF Leaves
    <3> QED BY <1>1, <3>1, <3>2, Steady
  <2> QED BY <2>1, <2>2
<1> QED BY <1>6, <1>7, <1>8, <1>9 DEF RunInv

LEMMA AgainStep ==
  ASSUME Parses(fn), RunInv, fn' = fn, jumps' = jumps, prev' = 0, pc' = 1
  PROVE  RunInv'
<1>1. Alive(1) /\ Alive(0) /\ 1 \in Nodes BY StartsAlive, Shape
<1>2. Alive(prev)' /\ Alive(pc)' BY <1>1, SteadyRuns
<1>3. JumpsOut' BY Steady DEF JumpsOut, RunInv
<1> QED BY <1>1, <1>2, <1>3, Steady DEF RunInv

LEMMA StutterStep ==
  ASSUME Parses(fn), RunInv, UNCHANGED <<fn, exec>>
  PROVE  RunInv'
<1>1. fn' = fn /\ prev' = prev /\ pc' = pc /\ jumps' = jumps BY DEF exec
<1>2. (prev # 0 => pc \in Succ(prev))' BY <1>1, SteadyRuns DEF RunInv
<1>3. Alive(prev)' /\ Alive(pc)' BY <1>1, SteadyRuns DEF RunInv
<1>4. JumpsOut' BY <1>1, Steady DEF JumpsOut, RunInv
<1> QED BY <1>1, <1>2, <1>3, <1>4, Steady DEF RunInv

LEMMA MatchStep ==
  ASSUME Parses(fn), Walked, MatchSwitchCase
  PROVE  Walked'
<1>0. PICK n : n = NextMatch OBVIOUS
<1> DEFINE s == n[1]
           c == n[2]
           S == Seen
           T == S \cup {n}
           earlier(q) == q[1] = s /\ q[2] > c
<1>1. fn' = fn /\ rest # {} /\ rest' = rest \ {n} /\ prevSwitch' = s BY <1>0 DEF MatchSwitchCase
<1>2. /\ rest \subseteq AllMatches /\ \A p \in S : \A q \in rest : Before(p, q)
      /\ S = {} => prevSwitch = 0 /\ prevDefault = 0
      /\ misplaced = Between(S)
  BY DEF Walked
<1>3. ASSUME S # {}
      PROVE  \E p \in S :
               /\ Latest(p) /\ prevSwitch = p[1]
               /\ prevDefault = IF IsDefault(p[2]) /\ \E q \in S : q[1] = p[1] /\ q[2] > p[2] THEN p[2] ELSE 0
  BY <1>3 DEF Walked
<1>4. n \in rest /\ \A q \in rest : n = q \/ Before(n, q) BY <1>0, <1>1, <1>2, FirstMatch
<1>5. n \in AllMatches /\ S \subseteq AllMatches /\ \A q \in S : Before(q, n) BY <1>2, <1>4 DEF Seen
<1>6. /\ \A q \in AllMatches : /\ q = <<q[1], q[2]>> /\ q[1] \in Nat /\ q[2] \in Nat /\ q[2] # 0 /\ q[1] \in Nodes
                               /\ q[2] \in Nodes /\ Kind(q[1]) = "switch" /\ q[2] \in LabelsOf(q[1])
  BY Pairs
<1>7. Seen' = T BY <1>1, <1>4, <1>5, SteadyRuns DEF Seen
<1>8. misplaced' = Between(T) /\ prevDefault' = IF IsDefault(c) /\ \E q \in T : earlier(q) THEN c ELSE 0
  <2> HIDE DEF S
  <2>0. s \in Nat /\ c \in Nat /\ s \in Nodes /\ c \in Nodes /\ n = <<s, c>> /\ c # 0 BY <1>5, <1>6
  <2>1. \A q \in S : q[1] < s \/ earlier(q) BY <1>5, <1>6 DEF Before
  <2>2. \A q \in S : q[1] \in Nat /\ q[2] \in Nat /\ q[2] \in Nodes /\ q = <<q[1], q[2]>> /\ q[2] # 0 BY <1>5, <1>6
  <2>3. Between(T) = Between(S) \cup {d \in OfKind({"default"}) : \E b \in Nodes : <<s, d>> \in S /\ <<s, b>> \in S /\ d < b}
    <3>1. ASSUME NEW d \in Between(T)
          PROVE  d \in Between(S) \/ \E b \in Nodes : <<s, d>> \in S /\ <<s, b>> \in S /\ d < b
      <4>1. PICK q, a, b \in Nodes : {<<q, a>>, <<q, d>>, <<q, b>>} \subseteq T /\ a < d /\ d < b BY <3>1 DEF Between
      <4>2. d \in OfKind({"default"}) /\ d \in Nat /\ a \in Nat /\ b \in Nat BY <3>1, Shape DEF Between, OfKind
      <4>3. <<q, a>> \in S => q < s \/ (q = s /\ a > c) BY <2>1
      <4>4. <<q, d>> \in S => q < s \/ (q = s /\ d > c) BY <2>1
      <4>5. <<q, b>> \in S => q < s \/ (q = s /\ b > c) BY <2>1
      <4>6. /\ <<q, a>> \notin S => q = s /\ a = c
            /\ <<q, d>> \notin S => q = s /\ d = c
            /\ <<q, b>> \notin S => q = s /\ b = c
        BY <2>0, <4>1
      <4>7. <<q, d>> \in S /\ <<q, b>> \in S BY <2>0, <4>1, <4>2, <4>3, <4>4, <4>5, <4>6
      <4>8. CASE <<q, a>> \in S
        <5>1. {<<q, a>>, <<q, d>>, <<q, b>>} \subseteq S BY <4>7, <4>8
        <5> QED BY <4>1, <4>2, <5>1 DEF Between
      <4>9. CASE <<q, a>> \notin S BY <4>1, <4>6, <4>7, <4>9
      <4> QED BY <4>8, <4>9
    <3>2. ASSUME NEW d \in OfKind({"default"}), NEW b \in Nodes, <<s, d>> \in S, <<s, b>> \in S, d < b
          PROVE  d \in Between(T)
      <4>1. c < d
        <5>1. <<s, d>>[1] = s /\ <<s, d>>[2] = d OBVIOUS
        <5>2. d > c /\ d \in Nat BY <2>0, <2>1, <2>2, <3>2, <5>1
        <5> QED BY <2>0, <5>2
      <4>2. {<<s, c>>, <<s, d>>, <<s, b>>} \subseteq T BY <2>0, <3>2
      <4> QED BY <2>0, <3>2, <4>1, <4>2 DEF Between
    <3>3. Between(S) \subseteq Between(T)
      <4> SUFFICES ASSUME NEW d \in OfKind({"default"}), NEW q \in Nodes, NEW a \in Nodes, NEW b \in Nodes,
                          {<<q, a>>, <<q, d>>, <<q, b>>} \subseteq S, a < d, d < b
                   PROVE  d \in Between(T)
        BY DEF Between
      <4>1. {<<q, a>>, <<q, d>>, <<q, b>>} \subseteq T OBVIOUS
      <4> QED BY <4>1 DEF Between
    <3> DEFINE B == Between(S)
               D == Between(T)
               E == {d \in OfKind({"default"}) : \E b \in Nodes : <<s, d>> \in S /\ <<s, b>> \in S /\ d < b}
    <3>4. D \subseteq OfKind({"default"}) BY DEF Between
    <3>5. \A d \in D : d \in B \/ d \in E BY <3>1, <3>4
    <3>6. B \subseteq D /\ E \subseteq D BY <3>2, <3>3
    <3>7. D = B \cup E
      <4> HIDE DEF B, D, E
      <4> QED BY <3>5, <3>6
    <3> QED BY <3>7
  <2> DEFINE E == {d \in OfKind({"default"}) : \E b \in Nodes : <<s, d>> \in S /\ <<s, b>> \in S /\ d < b}
  <2>4. CASE s # prevSwitch
    <3>1. prevDefault' = 0 /\ misplaced' = misplaced BY <1>0, <2>4 DEF MatchSwitchCase
    <3>2. \A q \in S : q[1] # s
      <4> SUFFICES ASSUME NEW q \in S, q[1] = s PROVE FALSE OBVIOUS
      <4>1. PICK p \in S : Latest(p) /\ prevSwitch = p[1] BY <1>3
      <4>2. p[1] <= s BY <2>0, <2>1, <2>2
      <4>3. q = p \/ q[1] < p[1] \/ q[1] = p[1] BY <4>1 DEF Latest, Before, S
      <4> QED BY <2>0, <2>2, <2>4, <4>1, <4>2, <4>3
    <3>3. ~\E q \in T : earlier(q) BY <2>0, <3>2
    <3>4. E = {}
      <4> SUFFICES ASSUME NEW d, <<s, d>> \in S PROVE FALSE OBVIOUS
      <4>1. <<s, d>>[1] = s OBVIOUS
      <4> QED BY <3>2, <4>1
    <3> HIDE DEF E
    <3> QED BY <1>2, <2>3, <3>1, <3>3, <3>4 DEF E
  <2>5. CASE s = prevSwitch
    <3>1. S # {} BY <1>2, <2>0, <2>5, Shape
    <3>2. PICK p \in S :
               /\ Latest(p) /\ s = p[1]
               /\ prevDefault = IF IsDefault(p[2]) /\ \E q \in S : q[1] = p[1] /\ q[2] > p[2] THEN p[2] ELSE 0
      BY <1>3, <2>5, <3>1
    <3>3. earlier(p) /\ \E q \in T : earlier(q) BY <2>0, <2>1, <2>2, <3>2
    <3>4. \A d : <<s, d>> \in S => d \in Nat /\ p[2] <= d
      <4> SUFFICES ASSUME NEW d, <<s, d>> \in S PROVE d \in Nat /\ p[2] <= d OBVIOUS
      <4>1. <<s, d>>[1] = s /\ <<s, d>>[2] = d OBVIOUS
      <4>2. <<s, d>> = p \/ Before(<<s, d>>, p) BY <3>2 DEF Latest, S
      <4>3. d \in Nat /\ p[2] \in Nat BY <2>2, <4>1
      <4> QED BY <2>0, <3>2, <4>1, <4>2, <4>3 DEF Before
    <3>5. \A d : <<s, d>> \in T => d \in LabelsOf(s) /\ d \in Nodes
      <4> SUFFICES ASSUME NEW d, <<s, d>> \in T PROVE d \in LabelsOf(s) /\ d \in Nodes OBVIOUS
      <4>1. <<s, d>>[1] = s /\ <<s, d>>[2] = d /\ <<s, d>> \in AllMatches BY <1>5
      <4> QED BY <1>6, <4>1
    <3>6. Kind(s) = "switch" BY <1>5, <1>6
    <3>7. p = <<s, p[2]>> /\ p[2] \in Nodes /\ p[2] \in Nat BY <2>2, <3>2
    <3>8. CASE prevDefault # 0
      <4>1. IsDefault(p[2]) /\ prevDefault = p[2] BY <3>2, <3>8
      <4>2. PICK q \in S : q[1] = s /\ q[2] > p[2] BY <3>2, <3>8
      <4>3. prevDefault' = 0 /\ misplaced' = misplaced \cup {p[2]} BY <1>0, <2>5, <3>8, <4>1 DEF MatchSwitchCase
      <4>4. ~IsDefault(c)
        <5>1. c \in LabelsOf(s) /\ p[2] \in LabelsOf(s) BY <2>0, <3>5, <3>7
        <5> QED BY <2>0, <3>3, <3>6, <3>7, <4>1, <5>1, OneDefault
      <4>5. E = {p[2]}
        <5>1. ASSUME NEW d \in E PROVE d = p[2]
          <6>1. <<s, d>> \in S /\ Kind(d) = "default" BY DEF OfKind
          <6> QED BY <2>0, <3>5, <3>6, <3>7, <4>1, <6>1, OneDefault DEF IsDefault
        <5>2. <<s, p[2]>> \in S /\ <<s, q[2]>> \in S /\ p[2] < q[2] /\ q[2] \in Nodes BY <2>2, <3>7, <4>2
        <5>3. p[2] \in OfKind({"default"}) BY <3>7, <4>1 DEF OfKind, IsDefault
        <5>4. p[2] \in E BY <5>2, <5>3
        <5> HIDE DEF E
        <5> QED BY <5>1, <5>4
      <4> HIDE DEF E
      <4> QED BY <1>2, <2>3, <4>3, <4>4, <4>5 DEF E
    <3>9. CASE prevDefault = 0
      <4>1. prevDefault' = (IF Kind(c) = "default" THEN c ELSE 0) /\ misplaced' = misplaced
        BY <1>0, <2>5, <3>9 DEF MatchSwitchCase
      <4>2. E \subseteq Between(S)
        <5> SUFFICES ASSUME NEW d \in OfKind({"default"}), NEW b \in Nodes, <<s, d>> \in S, <<s, b>> \in S, d < b
                     PROVE  d \in Between(S)
          OBVIOUS
        <5>1. p[2] <= d /\ d \in Nat BY <3>4
        <5>2. d # p[2]
          <6> SUFFICES ASSUME d = p[2] PROVE FALSE OBVIOUS
          <6>1. IsDefault(p[2]) BY DEF OfKind, IsDefault
          <6>2. <<s, b>>[1] = p[1] /\ <<s, b>>[2] > p[2] BY <3>2, <3>4
          <6>3. prevDefault = p[2] BY <3>2, <6>1, <6>2
          <6> QED BY <2>2, <3>9, <6>3
        <5>3. p[2] < d BY <3>7, <5>1, <5>2
        <5>4. {<<s, p[2]>>, <<s, d>>, <<s, b>>} \subseteq S BY <3>7
        <5> QED BY <2>0, <3>7, <5>3, <5>4 DEF Between
      <4> HIDE DEF E
      <4> QED BY <1>2, <2>3, <3>3, <4>1, <4>2 DEF E, IsDefault
    <3> QED BY <3>8, <3>9
  <2> QED BY <2>4, <2>5
<1>9. (rest \subseteq AllMatches)' BY <1>1, <1>2, SteadyRuns
<1>10. \A p \in T : \A q \in rest' : Before(p, q) BY <1>1, <1>2, <1>4
<1>11. n \in T /\ \A q \in T : q = n \/ Before(q, n) BY <1>5
<1> HIDE DEF S, T
<1>12. (\A p \in Seen : \A q \in rest : Before(p, q))' BY <1>7, <1>10 DEF Before
<1>13. Latest(n)' BY <1>7, <1>11 DEF Latest, Before
<1>14. Seen' # {} BY <1>7, <1>11
<1>15. IsDefault(c)' <=> IsDefault(c) BY <1>1, Steady DEF IsDefault
<1>16. (misplaced = Between(Seen))' BY <1>1, <1>7, <1>8, SteadyRuns
<1>17. prevDefault' = IF IsDefault(c)' /\ \E q \in Seen' : q[1] = s /\ q[2] > c THEN c ELSE 0
  BY <1>7, <1>8, <1>15
<1> QED BY <1>1, <1>7, <1>9, <1>11, <1>12, <1>13, <1>14, <1>16, <1>17 DEF Walked

--------------------------------------------------------------------------------
(* The theorem. *)

\* The body is one that parses, control has come to pc in a way the language allows, what
\* lies behind a closed door has not been run, and the walk over the switches is where it
\* should be.
ControlInv == fn \in Bodies /\ RunInv /\ Walked

LEMMA ControlInit ==
  ASSUME Init
  PROVE  ControlInv
<1>1. fn \in Bodies /\ Parses(fn) BY BodiesAssumption DEF Init
<1>2. Seen = {} BY DEF Init, Seen, AllMatches
<1>3. Walked
  <2>1. rest = AllMatches BY DEF Init, AllMatches
  <2>2. Between(Seen) = {} BY <1>2 DEF Between
  <2> QED BY <1>2, <2>1, <2>2 DEF Init, Walked
<1>4. Alive(1) /\ Alive(0) BY <1>1, StartsAlive
<1>5. RunInv BY <1>1, <1>4, Shape DEF Init, RunInv, JumpsOut
<1> QED BY <1>1, <1>3, <1>5 DEF ControlInv

LEMMA WalkKept ==
  ASSUME Walked, UNCHANGED <<fn, walk>>
  PROVE  Walked'
<1>1. fn' = fn /\ rest' = rest /\ prevSwitch' = prevSwitch /\ prevDefault' = prevDefault /\ misplaced' = misplaced
  BY DEF walk
<1>2. AllMatches' = AllMatches /\ Seen' = Seen BY <1>1, SteadyRuns DEF Seen
<1>3. misplaced' = Between(Seen)' BY <1>1, <1>2, SteadyRuns DEF Walked
<1>4. \A p : Latest(p)' <=> Latest(p) BY <1>2 DEF Latest, Before
<1>5. \A d : IsDefault(d)' <=> IsDefault(d) BY <1>1, Steady DEF IsDefault
<1>6. (rest \subseteq AllMatches /\ \A p \in Seen : \A q \in rest : Before(p, q))' BY <1>1, <1>2 DEF Walked, Before
<1>7. (Seen = {} => prevSwitch = 0 /\ prevDefault = 0)' BY <1>1, <1>2 DEF Walked
<1>8. ASSUME Seen # {}
      PROVE  \E p \in Seen' :
       /\ Latest(p)' /\ prevSwitch' = p[1]
       /\ prevDefault' = IF IsDefault(p[2])' /\ \E q \in Seen' : q[1] = p[1] /\ q[2] > p[2] THEN p[2] ELSE 0
  <2>1. PICK p \in Seen :
       /\ Latest(p) /\ prevSwitch = p[1]
       /\ prevDefault = IF IsDefault(p[2]) /\ \E q \in Seen : q[1] = p[1] /\ q[2] > p[2] THEN p[2] ELSE 0
    BY <1>8 DEF Walked
  <2>2. Latest(p)' /\ (IsDefault(p[2])' <=> IsDefault(p[2])) BY <1>4, <1>5, <2>1
  <2> QED BY <1>1, <1>2, <2>1, <2>2
<1> QED BY <1>2, <1>3, <1>6, <1>7, <1>8 DEF Walked

LEMMA ControlStep ==
  ASSUME ControlInv, [Next]_vars
  PROVE  ControlInv'
<1>1. Parses(fn) /\ fn \in Bodies /\ RunInv /\ Walked BY BodiesAssumption DEF ControlInv
<1>2. CASE MatchSwitchCase
  <2>1. UNCHANGED <<fn, exec>> BY <1>2 DEF MatchSwitchCase
  <2>2. RunInv' BY <1>1, <2>1, StutterStep
  <2>3. Walked' BY <1>1, <1>2, MatchStep
  <2> QED BY <1>1, <2>1, <2>2, <2>3 DEF ControlInv
<1>3. CASE Run
  <2>1. UNCHANGED <<fn, walk>> BY <1>3 DEF Run
  <2> QED BY <1>1, <1>3, <2>1, RunStep, WalkKept DEF ControlInv
<1>4. CASE CallAgain
  <2>1. UNCHANGED <<fn, walk>> /\ jumps' = jumps /\ prev' = 0 /\ pc' = 1 BY <1>4 DEF CallAgain
  <2>2. RunInv' BY <1>1, <2>1, AgainStep
  <2> QED BY <1>1, <2>1, <2>2, WalkKept DEF ControlInv
<1>5. CASE UNCHANGED vars
  <2>1. UNCHANGED <<fn, exec>> /\ UNCHANGED <<fn, walk>> BY <1>5 DEF vars, exec, walk
  <2> QED BY <1>1, <2>1, StutterStep, WalkKept DEF ControlInv
<1> QED BY <1>2, <1>3, <1>4, <1>5 DEF Next

LEMMA Judged ==
  ASSUME ControlInv
  PROVE  ControlJudged
<1>1. Parses(fn) /\ RunInv /\ Walked BY BodiesAssumption DEF ControlInv
<1>2. ReportedIsUnreachable /\ DefaultMisplaced /\ LoopExitsSeen
  BY <1>1, UnreachableRight, MisplacedRight, LoopExitsRight DEF RunInv
<1>3. CASE prev = 0
  <2>1. FallThroughSeen BY <1>3, Zenon DEF FallThroughSeen, Fell
  <2>2. MissingBreakSeen BY <1>3, Zenon DEF MissingBreakSeen, Fell
  <2>3. NestedSeen /\ SwitchesDecide /\ NoFallOff /\ OneWayOut /\ NoreturnKept /\ GotosStayInBlock
    BY <1>3, Zenon DEF NestedSeen, SwitchesDecide, NoFallOff, OneWayOut, NoreturnKept, GotosStayInBlock
  <2> QED BY <1>2, <2>1, <2>2, <2>3 DEF ControlJudged, SwitchesJudged, ExitsJudged
<1>4. CASE prev # 0
  <2>1. prev \in Nodes /\ pc \in Succ(prev) /\ Alive(prev) BY <1>1, <1>4 DEF RunInv
  <2>2. FallThroughSeen /\ MissingBreakSeen BY <1>1, <2>1, FallThroughRight, MissingBreakRight
  <2>3. NestedSeen /\ SwitchesDecide BY <1>1, <2>1, NestedRight, SwitchesRight
  <2>4. NoFallOff /\ OneWayOut /\ NoreturnKept /\ GotosStayInBlock
    BY <1>1, <2>1, FallOffRight, OneWayOutRight, NoreturnRight, GotosRight
  <2> QED BY <1>2, <2>2, <2>3, <2>4 DEF ControlJudged, SwitchesJudged, ExitsJudged
<1> QED BY <1>3, <1>4

\* For every set of bodies that parse, and however often each is run: the reports of the
\* checks of control flow agree with where control goes.
THEOREM ControlRight == Spec => []ControlJudged
<1>1. Init => ControlInv BY ControlInit
<1>2. ControlInv /\ [Next]_vars => ControlInv' BY ControlStep
<1>3. ControlInv => ControlJudged BY Judged
<1> QED BY <1>1, <1>2, <1>3, PTL DEF Spec

--------------------------------------------------------------------------------
(* Comments: the scan turns from one character to the next. *)

ScanOf(s, g, i) == IF i = 0 THEN Begin ELSE Turn(s, g[i - 1], i)

LEMMA ScanIs ==
  ASSUME NEW s, Len(s) \in Nat
  PROVE  /\ CommentScan(s)[0] = Begin
         /\ \A i \in 1 .. Len(s) : CommentScan(s)[i] = Turn(s, CommentScan(s)[i - 1], i)
<1> DEFINE N == Len(s)
           Table(g) == g = [i \in 0 .. N |-> g[i]]
           Upto(g, n) == \A i \in 0 .. n : g[i] = ScanOf(s, g, i)
           Bad == {n \in 0 .. N : ~\E g : Table(g) /\ Upto(g, n)}
<1>1. Bad = {}
  <2> SUFFICES ASSUME Bad # {} PROVE FALSE OBVIOUS
  <2>1. PICK n \in Bad : \A m \in Bad : n <= m
    <3>1. Bad \subseteq Nat OBVIOUS
    <3> HIDE DEF Bad
    <3> QED BY <3>1, LeastNumber
  <2>2. n \in 0 .. N /\ ~\E g : Table(g) /\ Upto(g, n) OBVIOUS
  <2>3. \E g : Table(g) /\ \A i \in 0 .. n - 1 : g[i] = ScanOf(s, g, i)
    <3>1. CASE n = 0
      <4> DEFINE g == [i \in 0 .. N |-> 0]
      <4>1. Table(g) OBVIOUS
      <4>2. 0 .. n - 1 = {} BY <3>1
      <4> QED BY <4>1, <4>2
    <3>2. CASE n # 0
      <4>1. n - 1 \in 0 .. N /\ n - 1 < n BY <2>2, <3>2
      <4>2. n - 1 \notin Bad
        <5> HIDE DEF Bad
        <5> QED BY <2>1, <2>2, <4>1
      <4> QED BY <4>1, <4>2
    <3> QED BY <3>1, <3>2
  <2>4. PICK g : Table(g) /\ \A i \in 0 .. n - 1 : g[i] = ScanOf(s, g, i) BY <2>3
  <2> DEFINE f == [i \in 0 .. N |-> IF i = n THEN ScanOf(s, g, n) ELSE g[i]]
  <2>5. \A i \in 0 .. n - 1 : f[i] = g[i] /\ i \in 0 .. N BY <2>2
  <2>6. ASSUME NEW i \in 0 .. n PROVE f[i] = ScanOf(s, f, i)
    <3>1. i # 0 => i - 1 \in 0 .. n - 1 BY <2>2
    <3>2. i # 0 => f[i - 1] = g[i - 1] BY <2>5, <3>1
    <3>3. ScanOf(s, f, i) = ScanOf(s, g, i)
      <4> HIDE DEF f
      <4> QED BY <3>2 DEF ScanOf
    <3>4. CASE i = n BY <2>2, <3>3, <3>4
    <3>5. CASE i # n
      <4>1. i \in 0 .. n - 1 BY <2>2, <3>5
      <4> QED BY <2>4, <2>5, <3>3, <4>1
    <3> QED BY <3>4, <3>5
  <2>7. Table(f) OBVIOUS
  <2> HIDE DEF f
  <2> QED BY <2>2, <2>6, <2>7
<1>2. PICK g : Table(g) /\ Upto(g, N)
  <2>1. N \in 0 .. N OBVIOUS
  <2> QED BY <1>1, <2>1
<1> DEFINE P(h) == h = [i \in 0 .. N |-> ScanOf(s, h, i)]
<1>3. P(g) BY <1>2
<1>4. CommentScan(s) = CHOOSE h : P(h) BY DEF CommentScan, ScanOf
<1>5. P(CommentScan(s))
  <2> HIDE DEF P
  <2> QED BY <1>3, <1>4, Zenon
<1>6. \A i \in 0 .. N : CommentScan(s)[i] = ScanOf(s, CommentScan(s), i) BY <1>5, Zenon
<1> QED BY <1>6 DEF ScanOf

States == {"Normal", "ExpectCommentStart", "ExpectCommentEnd", "ExpectURLPattern", "//", "/*", "*/"}
Scans == [state : States, prev : Nat, skip : 0 .. 2, found : SUBSET ({"//", "/*", "*/"} \X Nat)]

LEMMA Reactions ==
  ASSUME NEW state \in States, NEW ch
  PROVE  /\ NextState(state, ch) \in States
         /\ NextState(state, ch) = "ExpectCommentStart" => ch = "/"
         /\ NextState(state, ch) = "ExpectURLPattern" => ch = ":"
         /\ NextState(state, ch) \in {"//", "/*"} => state = "ExpectCommentStart" /\ ch \in {"/", "*"}
         /\ state = "ExpectCommentStart" /\ ch \in {"/", "*"} => NextState(state, ch) \in {"//", "/*"}
         /\ ch = "/" /\ state \notin {"ExpectCommentStart", "ExpectCommentEnd"} => NextState(state, ch) = "ExpectCommentStart"
         /\ ch = "/" /\ state = "ExpectCommentEnd" => NextState(state, ch) = "*/"
<1>1. CASE state = "ExpectCommentStart" BY <1>1 DEF NextState, States
<1>2. CASE state = "ExpectCommentEnd" BY <1>2 DEF NextState, States
<1>3. CASE state \notin {"ExpectCommentStart", "ExpectCommentEnd"}
  <2>1. NextState(state, ch) =
          IF ch = "/" THEN "ExpectCommentStart" ELSE IF ch = "*" THEN "ExpectCommentEnd"
          ELSE IF ch = ":" THEN "ExpectURLPattern" ELSE "Normal"
    BY <1>3 DEF NextState
  <2> QED BY <1>3, <2>1 DEF States
<1> QED BY <1>1, <1>2, <1>3

LEMMA TurnIs ==
  ASSUME NEW s, NEW acc \in Scans, NEW i \in Nat
  PROVE  /\ i \notin Scanned(s) => Turn(s, acc, i) = acc
         /\ i \in Scanned(s) /\ acc.skip > 0 =>
              Turn(s, acc, i) = [state |-> acc.state, prev |-> i, skip |-> acc.skip - 1, found |-> acc.found]
         /\ i \in Scanned(s) /\ acc.skip = 0 =>
              \E skip \in {0, 2} :
                /\ Turn(s, acc, i) = [state |-> NextState(acc.state, s[i]), prev |-> i, skip |-> skip,
                                      found |-> acc.found \cup {<<w, acc.prev>> : w \in {NextState(acc.state, s[i])} \cap {"//", "/*", "*/"}}]
                /\ skip = 2 => NextState(acc.state, s[i]) = "ExpectURLPattern"
<1>1. i \notin Scanned(s) => Turn(s, acc, i) = acc BY DEF Turn
<1>2. ASSUME i \in Scanned(s), acc.skip > 0
      PROVE Turn(s, acc, i) = [state |-> acc.state, prev |-> i, skip |-> acc.skip - 1, found |-> acc.found]
  <2>1. Turn(s, acc, i) = [acc EXCEPT !.skip = @ - 1, !.prev = i] BY <1>2 DEF Turn
  <2> QED BY <2>1 DEF Scans
<1>3. ASSUME i \in Scanned(s), acc.skip = 0
      PROVE \E skip \in {0, 2} :
                /\ Turn(s, acc, i) = [state |-> NextState(acc.state, s[i]), prev |-> i, skip |-> skip,
                                      found |-> acc.found \cup {<<w, acc.prev>> : w \in {NextState(acc.state, s[i])} \cap {"//", "/*", "*/"}}]
                /\ skip = 2 => NextState(acc.state, s[i]) = "ExpectURLPattern"
  <2> DEFINE url == NextState(acc.state, s[i]) = "ExpectURLPattern" /\ UnknownProtocol(s, i)
             New(skip) == [state |-> NextState(acc.state, s[i]), prev |-> i, skip |-> skip,
                           found |-> acc.found \cup {<<w, acc.prev>> : w \in {NextState(acc.state, s[i])} \cap {"//", "/*", "*/"}}]
  <2>1. ~(acc.skip > 0) BY <1>3
  <2>2. Turn(s, acc, i) = New(IF url THEN 2 ELSE 0) BY <1>3, <2>1 DEF Turn
  <2>3. CASE url
    <3>1. Turn(s, acc, i) = New(2) BY <2>2, <2>3
    <3> QED BY <2>3, <3>1
  <2>4. CASE ~url
    <3>1. Turn(s, acc, i) = New(0) BY <2>2, <2>4
    <3> QED BY <3>1
  <2> QED BY <2>3, <2>4
<1> QED BY <1>1, <1>2, <1>3

\* A comment, and what is scanned of it.
LEMMA CommentIs ==
  ASSUME NEW s, IsComment(s)
  PROVE  /\ s \in Seq(STRING) /\ Len(s) \in Nat /\ DOMAIN s = 1 .. Len(s)
         /\ Second(s) \in 1 .. Len(s) /\ Follows(s, 1, Second(s))
         /\ s[Second(s)] = "/" \/ s[Second(s)] = "*"
         /\ s[Second(s)] = "/" => CommentKind(s) = "line"
         /\ s[Second(s)] = "*" => /\ s[Len(s)] = "/" /\ s[Len(s)] # "~"
                                  /\ s[Len(s) - 1] = "~" \/ (s[Len(s) - 1] = "*" /\ Len(s) - 1 \in 1 .. Len(s))
                                  /\ CommentKind(s) = IF s[Len(s) - 1] = "*" THEN "block" ELSE "none"
<1>1. s \in Seq(STRING) /\ Len(s) \in Nat /\ DOMAIN s = 1 .. Len(s) BY DEF IsComment
<1>2. PICK i \in DOMAIN s : /\ Follows(s, 1, i)
                            /\ \/ s[i] = "/"
                               \/ s[i] = "*" /\ s[Len(s)] = "/" /\ \E j \in i + 1 .. Len(s) : Follows(s, j, Len(s)) /\ s[j] = "*"
  BY DEF IsComment
<1>3. Second(s) \in DOMAIN s /\ Follows(s, 1, Second(s)) BY <1>2 DEF Second
<1>4. Second(s) = i
  <2>1. \A j, k \in DOMAIN s : Follows(s, 1, j) /\ Follows(s, 1, k) => ~(j < k) BY <1>1 DEF Follows
  <2> QED BY <1>1, <1>2, <1>3, <2>1
<1>5. s[Second(s)] = "/" => CommentKind(s) = "line"
  BY DEF CommentKind
<1>6. ASSUME s[i] = "*"
      PROVE  /\ s[Len(s)] = "/" /\ s[Len(s)] # "~"
             /\ s[Len(s) - 1] = "~" \/ (s[Len(s) - 1] = "*" /\ Len(s) - 1 \in 1 .. Len(s))
             /\ CommentKind(s) = IF s[Len(s) - 1] = "*" THEN "block" ELSE "none"
  <2>1. PICK j \in i + 1 .. Len(s) : Follows(s, j, Len(s)) /\ s[j] = "*" BY <1>2, <1>6
  <2>2. s[Len(s)] = "/" BY <1>2, <1>6
  <2>3. j < Len(s) /\ \A k \in j + 1 .. Len(s) - 1 : s[k] = "~" BY <2>1 DEF Follows
  <2>4. i \in 1 .. Len(s) /\ j \in 1 .. Len(s) BY <1>1
  <2>5. s[Len(s) - 1] = "~" \/ (s[Len(s) - 1] = "*" /\ Len(s) - 1 \in 1 .. Len(s)) BY <1>1, <2>1, <2>3, <2>4
  <2>6. CommentKind(s) = IF s[Len(s) - 1] = "*" THEN "block" ELSE "none" BY <1>4, <1>6 DEF CommentKind
  <2> QED BY <2>2, <2>5, <2>6
<1> QED BY <1>1, <1>2, <1>3, <1>4, <1>5, <1>6

\* The scan up to a character.
ScanRight(s, a, i) ==
  /\ a \in Scans
  /\ \/ a.prev = 0 /\ \A j \in Scanned(s) : j > i
     \/ a.prev \in Scanned(s) /\ a.prev <= i /\ \A j \in Scanned(s) : j <= i => j <= a.prev
  /\ a.state = "ExpectCommentStart" => a.prev # 0 /\ s[a.prev] = "/"
  /\ a.skip > 0 => /\ a.prev # 0 /\ a.state = "ExpectURLPattern"
                   /\ IF a.skip = 2 THEN s[a.prev] = ":" ELSE \E h \in DOMAIN s : Follows(s, h, a.prev) /\ s[h] = ":"
  /\ a.found = {} /\ a.prev # 0 /\ s[a.prev] = "/" /\ ~InURL(s, a.prev) => a.state = "ExpectCommentStart" /\ a.skip = 0
  /\ \A w \in a.found : w[1] # "*/" => w[2] \in Marks(s) \cup {Second(s)}
  /\ a.found = {} => \A h, j \in Scanned(s) : j <= i /\ Follows(s, h, j) /\ s[h] = "/" /\ s[j] \in {"/", "*"} => InURL(s, h)

LEMMA ScanGoesOn ==
  ASSUME NEW s, IsComment(s), CommentKind(s) # "none", NEW i \in 1 .. Len(s), NEW a, ScanRight(s, a, i - 1)
  PROVE  ScanRight(s, Turn(s, a, i), i)
<1> DEFINE S == Scanned(s)
           b == Turn(s, a, i)
<1>1. Len(s) \in Nat /\ i \in Nat /\ DOMAIN s = 1 .. Len(s) /\ a \in Scans BY CommentIs DEF ScanRight
<1>2. S \subseteq 1 .. Len(s) /\ \A j \in S : s[j] # "~" /\ j >= Second(s) BY <1>1 DEF Scanned
<1>3. CASE i \notin S
  <2>1. b = a BY <1>1, <1>3, TurnIs
  <2>2. \A j \in S : (j > i <=> j > i - 1) /\ (j <= i <=> j <= i - 1) BY <1>1, <1>2, <1>3
  <2>3. a.prev \in Nat BY <1>1 DEF Scans
  <2> HIDE DEF S
  <2>4. \/ a.prev = 0 /\ \A j \in S : j > i
        \/ a.prev \in S /\ a.prev <= i /\ \A j \in S : j <= i => j <= a.prev
    BY <1>1, <2>2, <2>3 DEF ScanRight, S
  <2>5. a.found = {} => \A h, j \in S : j <= i /\ Follows(s, h, j) /\ s[h] = "/" /\ s[j] \in {"/", "*"} => InURL(s, h)
    BY <2>2 DEF ScanRight, S
  <2> QED BY <2>1, <2>4, <2>5 DEF ScanRight, S
<1>4. ASSUME i \in S PROVE ScanRight(s, b, i)
  <2>1. \A j \in S : j <= i => j <= i BY <1>2
  <2>2. a.prev # 0 => a.prev \in S /\ a.prev < i /\ Follows(s, a.prev, i)
    <3> SUFFICES ASSUME a.prev # 0 PROVE a.prev \in S /\ a.prev < i /\ Follows(s, a.prev, i) OBVIOUS
    <3>1. a.prev \in S /\ a.prev <= i - 1 /\ \A j \in S : j <= i - 1 => j <= a.prev BY <1>1, <1>2 DEF ScanRight
    <3>2. a.prev \in 1 .. Len(s) /\ a.prev < i BY <1>1, <1>2, <3>1
    <3>3. ASSUME NEW k \in a.prev + 1 .. i - 1 PROVE s[k] = "~"
      <4>1. k \in 1 .. Len(s) /\ k <= i - 1 /\ ~(k <= a.prev) /\ k < i /\ k > a.prev BY <1>1, <3>2
      <4>2. k \notin S BY <3>1, <4>1
      <4>3. k >= Second(s) BY <1>2, <3>1, <3>2, <4>1, CommentIs
      <4>4. CommentKind(s) = "block" => k < Len(s) - 1 BY <1>1, <1>4, <4>1 DEF Scanned
      <4> QED BY <1>1, <4>1, <4>2, <4>3, <4>4 DEF Scanned
    <3> QED BY <1>2, <1>4, <3>1, <3>2, <3>3 DEF Follows
  <2>3. \A h \in DOMAIN s : Follows(s, h, i) /\ a.prev # 0 => h = a.prev
    <3> SUFFICES ASSUME NEW h \in DOMAIN s, Follows(s, h, i), a.prev # 0 PROVE h = a.prev OBVIOUS
    <3>1. Follows(s, a.prev, i) /\ a.prev \in 1 .. Len(s) /\ h \in 1 .. Len(s) BY <1>1, <1>2, <2>2
    <3> QED BY <1>1, <3>1 DEF Follows
  <2>4. \A h \in S : h < i => a.prev # 0
    BY <1>1, <1>2 DEF ScanRight
  <2>5. a.prev # 0 /\ s[a.prev] = ":" => InURL(s, i) BY <1>1, <1>2, <2>2 DEF InURL
  <2>6. a.prev # 0 /\ (\E h \in DOMAIN s : Follows(s, h, a.prev) /\ s[h] = ":") => InURL(s, i) /\ InURL(s, a.prev)
    BY <1>1, <1>2, <2>2 DEF InURL
  <2>7. ASSUME NEW h \in S, NEW j \in S, j <= i, Follows(s, h, j), s[h] = "/", s[j] \in {"/", "*"}, a.found = {}, ~InURL(s, h)
        PROVE  j = i /\ h = a.prev /\ a.state = "ExpectCommentStart" /\ a.skip = 0
    <3>1. j = i
      <4>1. ~(j <= i - 1) BY <2>7, Zenon DEF ScanRight
      <4> QED BY <1>1, <1>2, <2>7, <4>1
    <3>2. h < i /\ h \in DOMAIN s BY <1>1, <1>2, <2>7, <3>1 DEF Follows
    <3>3. a.prev # 0 /\ h = a.prev BY <2>3, <2>4, <2>7, <3>1, <3>2
    <3> QED BY <2>7, <3>1, <3>3 DEF ScanRight
  <2>8. CASE a.skip > 0
    <3>1. b = [state |-> a.state, prev |-> i, skip |-> a.skip - 1, found |-> a.found] BY <1>1, <1>4, <2>8, TurnIs
    <3>2. /\ a.prev # 0 /\ a.state = "ExpectURLPattern"
          /\ IF a.skip = 2 THEN s[a.prev] = ":" ELSE \E h \in DOMAIN s : Follows(s, h, a.prev) /\ s[h] = ":"
      BY <2>8 DEF ScanRight
    <3>3. InURL(s, i) BY <2>5, <2>6, <3>2
    <3>4. b \in Scans BY <1>1, <2>8, <3>1 DEF Scans
    <3>5. b.prev = i /\ b.state = a.state /\ b.found = a.found /\ b.skip = a.skip - 1 BY <3>1
    <3>6. b.skip > 0 => b.skip = 1 /\ s[a.prev] = ":" BY <1>1, <2>8, <3>2, <3>5 DEF Scans
    <3>7. b.skip > 0 => b.skip # 2 /\ \E h \in DOMAIN s : Follows(s, h, i) /\ s[h] = ":" BY <1>1, <1>2, <2>2, <3>2, <3>6
    <3>8. b.found = {} => \A h, j \in S : j <= i /\ Follows(s, h, j) /\ s[h] = "/" /\ s[j] \in {"/", "*"} => InURL(s, h)
      <4> HIDE DEF b, S
      <4> QED BY <2>7, <2>8, <3>5
    <3>9. \A w \in b.found : w[1] # "*/" => w[2] \in Marks(s) \cup {Second(s)} BY <3>5 DEF ScanRight
    <3>10. i \in S /\ i <= i /\ i # 0 BY <1>1, <1>4
    <3> HIDE DEF b
    <3> QED BY <1>4, <3>2, <3>3, <3>4, <3>5, <3>7, <3>8, <3>9, <3>10 DEF ScanRight
  <2>9. CASE a.skip = 0
    <3> DEFINE next == NextState(a.state, s[i])
    <3>1. PICK skip \in {0, 2} :
            /\ b = [state |-> next, prev |-> i, skip |-> skip,
                    found |-> a.found \cup {<<w, a.prev>> : w \in {next} \cap {"//", "/*", "*/"}}]
            /\ skip = 2 => next = "ExpectURLPattern"
      BY <1>1, <1>4, <2>9, TurnIs
    <3>2. /\ b.state = next /\ b.prev = i /\ b.skip = skip
          /\ b.found = a.found \cup {<<w, a.prev>> : w \in {next} \cap {"//", "/*", "*/"}}
      BY <3>1
    <3>3. a.state \in States /\ a.prev \in Nat BY <1>1 DEF Scans
    <3>4. /\ next \in States /\ (next = "ExpectCommentStart" => s[i] = "/") /\ (next = "ExpectURLPattern" => s[i] = ":")
          /\ next \in {"//", "/*"} => a.state = "ExpectCommentStart" /\ s[i] \in {"/", "*"}
          /\ a.state = "ExpectCommentStart" /\ s[i] \in {"/", "*"} => next \in {"//", "/*"}
          /\ s[i] = "/" /\ a.state \notin {"ExpectCommentStart", "ExpectCommentEnd"} => next = "ExpectCommentStart"
          /\ s[i] = "/" /\ a.state = "ExpectCommentEnd" => next = "*/"
      BY <3>3, Reactions
    <3> HIDE DEF next
    <3>5. b \in Scans
      <4>1. a.found \in SUBSET ({"//", "/*", "*/"} \X Nat) BY <1>1 DEF Scans
      <4> QED BY <1>1, <3>1, <3>3, <3>4, <4>1 DEF Scans
    <3>6. b.found = {} => a.found = {} /\ next \notin {"//", "/*", "*/"}
      <4>1. next \in {"//", "/*", "*/"} => <<next, a.prev>> \in b.found BY <3>2
      <4> QED BY <3>2, <4>1
    <3>7. ASSUME NEW w \in b.found, w[1] # "*/" PROVE w[2] \in Marks(s) \cup {Second(s)}
      <4>1. CASE w \in a.found BY <3>7, <4>1 DEF ScanRight
      <4>2. CASE w \notin a.found
        <5>1. w = <<next, a.prev>> /\ next \in {"//", "/*"} BY <3>2, <3>7, <4>2
        <5>2. a.state = "ExpectCommentStart" /\ s[i] \in {"/", "*"} BY <3>4, <5>1
        <5>3. a.prev # 0 /\ s[a.prev] = "/" BY <5>2 DEF ScanRight
        <5>4. a.prev \in S /\ a.prev < i /\ Follows(s, a.prev, i) BY <2>2, <5>3
        <5>5. a.prev >= Second(s) /\ a.prev \in 1 .. Len(s) /\ i \in a.prev + 1 .. Len(s) BY <1>1, <1>2, <5>4
        <5>6. s[Second(s)] = "*" => \E k \in i + 1 .. Len(s) : Follows(s, k, Len(s))
          <6> SUFFICES ASSUME s[Second(s)] = "*" PROVE \E k \in i + 1 .. Len(s) : Follows(s, k, Len(s)) OBVIOUS
          <6>1. CommentKind(s) = "block" /\ s[Len(s) - 1] = "*" /\ Len(s) - 1 \in 1 .. Len(s) /\ s[Len(s)] # "~"
            BY CommentIs
          <6>2. i < Len(s) - 1 BY <1>4, <6>1 DEF Scanned
          <6>3. Follows(s, Len(s) - 1, Len(s)) BY <1>1, <6>1 DEF Follows
          <6> QED BY <1>1, <6>2, <6>3
        <5>7. a.prev # Second(s) => a.prev \in Second(s) + 1 .. Len(s) BY <1>1, <5>5, CommentIs
        <5>8. a.prev # Second(s) => a.prev \in Marks(s) BY <5>2, <5>3, <5>4, <5>5, <5>6, <5>7 DEF Marks
        <5> QED BY <5>1, <5>8
      <4> QED BY <4>1, <4>2
    <3>8. b.found = {} => \A h, j \in S : j <= i /\ Follows(s, h, j) /\ s[h] = "/" /\ s[j] \in {"/", "*"} => InURL(s, h)
      <4> HIDE DEF b, S
      <4> QED BY <2>7, <3>4, <3>6
    <3>9. b.found = {} /\ s[i] = "/" => b.state = "ExpectCommentStart" /\ b.skip = 0
      <4> SUFFICES ASSUME b.found = {}, s[i] = "/" PROVE next = "ExpectCommentStart" /\ skip = 0 BY <3>2
      <4>1. next \notin {"//", "/*", "*/"} BY <3>6
      <4>2. next = "ExpectCommentStart" BY <3>4, <4>1
      <4> QED BY <3>1, <4>2
    <3>10. b.skip > 0 => b.skip = 2 /\ b.state = "ExpectURLPattern" /\ s[i] = ":" BY <3>1, <3>2, <3>4
    <3>11. b.state = "ExpectCommentStart" => s[i] = "/" BY <3>2, <3>4
    <3>12. i \in S /\ i <= i /\ i # 0 /\ b.prev = i BY <1>1, <1>4, <3>2
    <3> HIDE DEF b
    <3> QED BY <2>1, <3>5, <3>7, <3>8, <3>9, <3>10, <3>11, <3>12 DEF ScanRight
  <2>10. a.skip > 0 \/ a.skip = 0 BY <1>1 DEF Scans
  <2> QED BY <2>8, <2>9, <2>10
<1> QED BY <1>3, <1>4

LEMMA ScanIsRight ==
  ASSUME NEW s, IsComment(s), CommentKind(s) # "none"
  PROVE  ScanRight(s, CommentScan(s)[Len(s)], Len(s))
<1> DEFINE N == Len(s)
           Right(i) == ScanRight(s, CommentScan(s)[i], i)
           Bad == {i \in 0 .. N : ~Right(i)}
<1>1. N \in Nat BY CommentIs
<1>2. Right(0)
  <2>1. CommentScan(s)[0] = Begin BY <1>1, ScanIs
  <2>2. \A j \in Scanned(s) : j > 0 BY CommentIs DEF Scanned
  <2>3. /\ Begin \in Scans /\ Begin.prev = 0 /\ Begin.skip = 0 /\ Begin.state = "Normal" /\ Begin.found = {}
    BY DEF Begin, Scans, States
  <2>4. \A j \in Scanned(s) : ~(j <= 0) BY CommentIs DEF Scanned
  <2> QED BY <2>1, <2>2, <2>3, <2>4 DEF ScanRight
<1>3. ASSUME NEW i \in 1 .. N, Right(i - 1) PROVE Right(i)
  <2>1. CommentScan(s)[i] = Turn(s, CommentScan(s)[i - 1], i) BY <1>1, ScanIs
  <2> QED BY <1>3, <2>1, ScanGoesOn
<1> HIDE DEF Right
<1>4. Bad = {}
  <2> SUFFICES ASSUME Bad # {} PROVE FALSE OBVIOUS
  <2>1. PICK i \in Bad : \A j \in Bad : i <= j
    <3>1. Bad \subseteq Nat OBVIOUS
    <3> HIDE DEF Bad
    <3> QED BY <3>1, LeastNumber
  <2>2. i \in 0 .. N /\ ~Right(i) OBVIOUS
  <2>3. i \in 1 .. N /\ i - 1 \in 0 .. N /\ i - 1 < i BY <1>1, <1>2, <2>2
  <2>4. i - 1 \notin Bad
    <3> HIDE DEF Bad
    <3> QED BY <2>1, <2>3, <1>1
  <2> QED BY <1>3, <2>2, <2>3, <2>4
<1> QED BY <1>1, <1>4 DEF Right

\* What is said of a comment.
LEMMA CommentRight ==
  ASSUME NEW s, IsComment(s)
  PROVE  /\ WithinComment(s) = {} /\ ~(s[Second(s)] = "*" /\ s[Len(s) - 1] = "~") => \A i \in Marks(s) : InURL(s, i)
         /\ \A w \in WithinComment(s) : w[1] # "*/" => w[2] \in Marks(s) \cup {Second(s)}
         /\ s[Second(s)] = "/" => Splices(s) = {i \in DOMAIN s : s[i] = "~"}
<1> DEFINE a == CommentScan(s)[Len(s)]
<1>1. Len(s) \in Nat /\ DOMAIN s = 1 .. Len(s) /\ Second(s) \in 1 .. Len(s) BY CommentIs
<1>2. ASSUME WithinComment(s) = {}, ~(s[Second(s)] = "*" /\ s[Len(s) - 1] = "~"), NEW i \in Marks(s) PROVE InURL(s, i)
  <2>1. s[Second(s)] = "/" \/ s[Second(s)] = "*" BY CommentIs
  <2>2. CommentKind(s) = IF s[Second(s)] = "/" THEN "line" ELSE "block" BY <1>2, <2>1, CommentIs
  <2>3. a.found = {} /\ ScanRight(s, a, Len(s)) BY <1>2, <2>2, ScanIsRight DEF WithinComment
  <2>4. PICK j \in i + 1 .. Len(s) :
          /\ Follows(s, i, j) /\ s[i] = "/" /\ s[j] \in {"/", "*"}
          /\ s[Second(s)] = "*" => \E k \in j + 1 .. Len(s) : Follows(s, k, Len(s))
    BY DEF Marks
  <2>5. i \in Second(s) + 1 .. Len(s) BY DEF Marks
  <2>6. i \in 1 .. Len(s) /\ j \in 1 .. Len(s) /\ i >= Second(s) /\ j >= Second(s) /\ i < j BY <1>1, <2>4, <2>5
  <2>7. CommentKind(s) = "block" => j < Len(s) - 1
    <3> SUFFICES ASSUME CommentKind(s) = "block" PROVE j < Len(s) - 1 OBVIOUS
    <3>1. s[Second(s)] = "*" BY <2>1, <2>2
    <3>2. PICK k \in j + 1 .. Len(s) : Follows(s, k, Len(s)) BY <2>4, <3>1
    <3>3. k < Len(s) BY <3>2 DEF Follows
    <3> QED BY <1>1, <2>6, <3>2, <3>3
  <2>8. CommentKind(s) = "block" => i < Len(s) - 1 BY <1>1, <2>6, <2>7
  <2>9. s[i] # "~" /\ s[j] # "~" BY <2>4 DEF Follows
  <2>10. i \in Scanned(s) /\ j \in Scanned(s) BY <1>1, <2>6, <2>7, <2>8, <2>9 DEF Scanned
  <2>11. j <= Len(s) BY <1>1, <2>6
  <2> HIDE DEF a
  <2> QED BY <2>3, <2>4, <2>10, <2>11 DEF ScanRight
<1>3. ASSUME NEW w \in WithinComment(s), w[1] # "*/" PROVE w[2] \in Marks(s) \cup {Second(s)}
  <2>1. CommentKind(s) # "none" /\ w \in a.found BY <1>3 DEF WithinComment
  <2>2. ScanRight(s, a, Len(s)) BY <2>1, ScanIsRight
  <2> HIDE DEF a
  <2> QED BY <1>3, <2>1, <2>2 DEF ScanRight
<1>4. s[Second(s)] = "/" => Splices(s) = {i \in DOMAIN s : s[i] = "~"} BY CommentIs DEF Splices
<1> QED BY <1>2, <1>3, <1>4

LEMMA MarksAre ==
  ASSUME NEW ms
  PROVE  /\ DOMAIN MarkUsed(ms) = ms \cup DOMAIN usage
         /\ \A m \in ms \cup DOMAIN usage :
              /\ MarkUsed(ms)[m].at = IF m \in DOMAIN usage THEN usage[m].at ELSE Nowhere
              /\ MarkUsed(ms)[m].used <=> m \in ms \/ usage[m].used
BY DEF MarkUsed

LEMMA PutIs ==
  ASSUME NEW f, NEW k, NEW v
  PROVE  /\ DOMAIN Put(f, k, v) = {k} \cup DOMAIN f
         /\ Put(f, k, v)[k] = v
         /\ \A x \in DOMAIN f \ {k} : Put(f, k, v)[x] = f[x]
BY DEF Put
--------------------------------------------------------------------------------
(* The places of a unit are read one after the other. *)

FilesOpen ==
  /\ text \in Units /\ phase \in {"lex", "match", "done"} /\ (phase # "lex" => open = <<>>)
  /\ entered \in Seq(DOMAIN text)
  /\ open \in Seq([fid : Nat \ {0}, pos : Nat \ {0}])
  /\ \A k \in DOMAIN open : open[k].fid \in DOMAIN entered
  /\ \A j, k \in DOMAIN open : j # k => open[j].fid # open[k].fid

\* What has been read, and what a step reads.
Past ==
  {at \in [fid : DOMAIN entered, pos : Nat] :
     /\ at.pos \in DOMAIN text[FileOf(at)]
     /\ \A k \in DOMAIN open : open[k].fid = at.fid => at.pos < open[k].pos}
Entering == \E f \in DOMAIN text :
  /\ open' = Append([open EXCEPT ![Len(open)].pos = @ + 1], EntryOf(f))
  /\ entered' = Append(entered, f)
Reads == /\ phase = "lex" /\ open # <<>> /\ ~AtEnd /\ UNCHANGED <<text, phase>>
         /\ (Advance /\ entered' = entered) \/ Entering
Rests == /\ UNCHANGED <<text, entered>>
         /\ \/ phase = "lex" /\ open # <<>> /\ AtEnd /\ open' = Front(open) /\ phase' = phase
            \/ open' = open /\ phase' = phase
            \/ open' = open /\ open = <<>> /\ phase' \in {"match", "done"}
Same(S) == \A at \in S : /\ FileOf(at)' = FileOf(at) /\ LineAt(at)' = LineAt(at) /\ (InSystem(at)' <=> InSystem(at))
                         /\ at.fid \in DOMAIN entered'

LEMMA UnitLines ==
  ASSUME UnitsAssumption, FilesOpen
  PROVE  /\ UnitAccepted(text)
         /\ \A f \in DOMAIN text : text[f] \in Seq([d : Directives, m : STRING, t : Seq(STRING), fn : BOOLEAN])
         /\ \A i \in DOMAIN entered : entered[i] \in DOMAIN text
         /\ Len(entered) \in Nat /\ DOMAIN entered = 1 .. Len(entered)
         /\ Len(open) \in Nat /\ DOMAIN open = 1 .. Len(open)
         /\ \A at \in Past : FileOf(at) \in DOMAIN text /\ at.pos \in DOMAIN text[FileOf(at)] /\ at.fid \in DOMAIN entered
         /\ Nowhere \notin Past
<1>1. UnitAccepted(text) BY DEF UnitsAssumption, FilesOpen
<1>2. \A i \in DOMAIN entered : entered[i] \in DOMAIN text BY DEF FilesOpen
<1>3. DOMAIN entered = 1 .. Len(entered) BY DEF FilesOpen
<1>4. Nowhere \notin Past BY <1>3 DEF Nowhere, Past
<1>5. \A f \in DOMAIN text : text[f] \in Seq([d : Directives, m : STRING, t : Seq(STRING), fn : BOOLEAN])
  BY <1>1 DEF UnitAccepted
<1>6. Len(entered) \in Nat /\ Len(open) \in Nat /\ DOMAIN open = 1 .. Len(open) BY DEF FilesOpen
<1>7. \A at \in Past : FileOf(at) \in DOMAIN text /\ at.pos \in DOMAIN text[FileOf(at)] /\ at.fid \in DOMAIN entered
  BY <1>2 DEF Past, FileOf
<1> QED BY <1>1, <1>2, <1>3, <1>4, <1>5, <1>6, <1>7

LEMMA AtTop ==
  ASSUME UnitsAssumption, FilesOpen, open # <<>>
  PROVE  /\ Len(open) \in DOMAIN open /\ Top = open[Len(open)]
         /\ Top.fid \in DOMAIN entered /\ FileOf(Top) \in DOMAIN text /\ Top.pos \in Nat \ {0}
         /\ Top = [fid |-> Top.fid, pos |-> Top.pos] /\ Top # Nowhere
         /\ Top \notin Past
         /\ ~AtEnd => /\ Top.pos \in DOMAIN text[FileOf(Top)]
                      /\ TopLine \in [d : Directives, m : STRING, t : Seq(STRING), fn : BOOLEAN]
<1>1. Len(open) \in DOMAIN open /\ Top = open[Len(open)] /\ Top \in [fid : Nat \ {0}, pos : Nat \ {0}]
  <2>1. open \in Seq([fid : Nat \ {0}, pos : Nat \ {0}]) BY DEF FilesOpen
  <2>2. Len(open) \in 1 .. Len(open) /\ DOMAIN open = 1 .. Len(open) BY <2>1
  <2>3. Top = open[Len(open)] BY DEF Top, Last
  <2>4. open[Len(open)] \in [fid : Nat \ {0}, pos : Nat \ {0}] BY <2>1, <2>2, ElementOfSeq
  <2> QED BY <2>2, <2>3, <2>4
<1>2. Top.fid \in DOMAIN entered /\ FileOf(Top) \in DOMAIN text BY <1>1 DEF FilesOpen, FileOf
<1>3. Top \notin Past
  <2> SUFFICES ASSUME Top \in Past PROVE FALSE OBVIOUS
  <2>1. Top.pos < Top.pos BY <1>1 DEF Past
  <2> QED BY <1>1, <2>1
<1>4. Top = [fid |-> Top.fid, pos |-> Top.pos] /\ Top # Nowhere BY <1>1 DEF Nowhere
<1>5. ASSUME ~AtEnd
      PROVE  /\ Top.pos \in DOMAIN text[FileOf(Top)]
             /\ TopLine \in [d : Directives, m : STRING, t : Seq(STRING), fn : BOOLEAN]
  <2>1. text[FileOf(Top)] \in Seq([d : Directives, m : STRING, t : Seq(STRING), fn : BOOLEAN]) BY <1>2, UnitLines
  <2>2. DOMAIN text[FileOf(Top)] = 1 .. Len(text[FileOf(Top)]) /\ Len(text[FileOf(Top)]) \in Nat BY <2>1
  <2>3. Top.pos \in DOMAIN text[FileOf(Top)] BY <1>1, <1>5, <2>2 DEF AtEnd
  <2>4. text[FileOf(Top)][Top.pos] \in [d : Directives, m : STRING, t : Seq(STRING), fn : BOOLEAN]
    BY <2>1, <2>2, <2>3, ElementOfSeq
  <2> QED BY <2>3, <2>4 DEF TopLine, LineAt
<1> QED BY <1>1, <1>2, <1>3, <1>4, <1>5

\* The innermost file moves to its next line.
PastTop == [open EXCEPT ![Len(open)].pos = @ + 1]

LEMMA PastTopIs ==
  ASSUME UnitsAssumption, FilesOpen, open # <<>>
  PROVE  /\ PastTop \in Seq([fid : Nat \ {0}, pos : Nat \ {0}])
         /\ DOMAIN PastTop = 1 .. Len(open) /\ Len(PastTop) = Len(open)
         /\ \A k \in 1 .. Len(open) :
              /\ PastTop[k].fid = open[k].fid
              /\ PastTop[k].pos = IF k = Len(open) THEN open[k].pos + 1 ELSE open[k].pos
              /\ PastTop[k] \in [fid : Nat \ {0}, pos : Nat \ {0}]
<1> DEFINE n == Len(open)
<1>1. n \in Nat /\ DOMAIN open = 1 .. n /\ n \in 1 .. n BY UnitLines, AtTop
<1>2. open \in Seq([fid : Nat \ {0}, pos : Nat \ {0}]) BY DEF FilesOpen
<1>3. \A k \in 1 .. n : open[k] \in [fid : Nat \ {0}, pos : Nat \ {0}] BY <1>1, <1>2, ElementOfSeq
<1>4. /\ DOMAIN PastTop = 1 .. n /\ Len(PastTop) = n
      /\ \A k \in 1 .. n : /\ PastTop[k].fid = open[k].fid
                           /\ PastTop[k].pos = IF k = n THEN open[k].pos + 1 ELSE open[k].pos
                           /\ PastTop[k] \in [fid : Nat \ {0}, pos : Nat \ {0}]
  BY <1>1, <1>2, <1>3 DEF PastTop
<1>5. PastTop = [k \in 1 .. n |-> PastTop[k]] BY <1>1, <1>2 DEF PastTop
<1>6. PastTop \in [1 .. n -> [fid : Nat \ {0}, pos : Nat \ {0}]] BY <1>4, <1>5
<1>7. \A S : [1 .. n -> S] \subseteq Seq(S)
  <2> SUFFICES ASSUME NEW S PROVE [1 .. n -> S] \subseteq Seq(S) OBVIOUS
  <2>1. Seq(S) = UNION {[1 .. i -> S] : i \in Nat} BY SeqDef
  <2> QED BY <1>1, <2>1
<1>8. PastTop \in Seq([fid : Nat \ {0}, pos : Nat \ {0}]) BY <1>6, <1>7
<1> QED BY <1>4, <1>8

LEMMA ReadsOn ==
  ASSUME UnitsAssumption, FilesOpen, Reads
  PROVE  /\ FilesOpen' /\ Past' = Past \cup {Top} /\ Top \notin Past
         /\ Same(Past \cup {Top})
         /\ DOMAIN entered \subseteq DOMAIN entered' /\ \A i \in DOMAIN entered : entered'[i] = entered[i]
<1> DEFINE n == Len(open)
           past == [open EXCEPT ![n].pos = @ + 1]
<1>1. /\ text' = text /\ phase' = phase /\ phase = "lex" /\ open # <<>> /\ ~AtEnd BY DEF Reads
<1>2. /\ n \in Nat /\ DOMAIN open = 1 .. n /\ n \in 1 .. n /\ Len(entered) \in Nat /\ DOMAIN entered = 1 .. Len(entered)
      /\ \A i \in DOMAIN entered : entered[i] \in DOMAIN text
  BY <1>1, UnitLines, AtTop
<1>3. /\ Top = open[n] /\ Top.fid \in DOMAIN entered /\ Top.pos \in DOMAIN text[FileOf(Top)] /\ Top \notin Past
      /\ Top = [fid |-> Top.fid, pos |-> Top.pos]
  BY <1>1, AtTop
<1>4. open \in Seq([fid : Nat \ {0}, pos : Nat \ {0}]) /\ entered \in Seq(DOMAIN text) BY DEF FilesOpen
<1>5. \A k \in 1 .. n : open[k] \in [fid : Nat \ {0}, pos : Nat \ {0}] BY <1>2, <1>4, ElementOfSeq
<1>6. /\ DOMAIN past = 1 .. n /\ Len(past) = n
      /\ \A k \in 1 .. n : /\ past[k].fid = open[k].fid
                           /\ past[k].pos = IF k = n THEN open[k].pos + 1 ELSE open[k].pos
                           /\ past[k] \in [fid : Nat \ {0}, pos : Nat \ {0}]
  <2>1. past = PastTop BY DEF PastTop
  <2> HIDE DEF past
  <2> QED BY <1>1, <2>1, PastTopIs
<1>7. past \in Seq([fid : Nat \ {0}, pos : Nat \ {0}])
  <2>1. past = PastTop BY DEF PastTop
  <2> HIDE DEF past
  <2> QED BY <1>1, <2>1, PastTopIs
<1> HIDE DEF past
<1>8. ASSUME NEW at \in [fid : DOMAIN entered, pos : Nat], at.pos \in DOMAIN text[FileOf(at)]
      PROVE  (\A k \in 1 .. n : past[k].fid = at.fid => at.pos < past[k].pos)
               <=> (\A k \in 1 .. n : open[k].fid = at.fid => at.pos < open[k].pos) \/ at = Top
  <2>1. at.fid = Top.fid => \A k \in 1 .. n : open[k].fid = at.fid => k = n BY <1>2, <1>3 DEF FilesOpen
  <2>2. at = Top <=> at.fid = Top.fid /\ at.pos = Top.pos BY <1>3
  <2>3. CASE at.fid = Top.fid
    <3>1. at.pos < open[n].pos + 1 <=> at.pos < open[n].pos \/ at.pos = open[n].pos BY <1>2, <1>5
    <3> QED BY <1>2, <1>3, <1>6, <2>1, <2>2, <2>3, <3>1
  <2>4. CASE at.fid # Top.fid
    <3>1. open[n].fid # at.fid BY <1>3, <2>4
    <3> QED BY <1>2, <1>6, <2>2, <2>4, <3>1
  <2> QED BY <2>3, <2>4
<1>9. CASE Advance /\ entered' = entered
  <2>1. open' = past BY <1>9 DEF Advance, past
  <2>2. FilesOpen'
    <3>1. \A k \in 1 .. n : past[k].fid \in DOMAIN entered BY <1>2, <1>6 DEF FilesOpen
    <3>2. \A j, k \in 1 .. n : j # k => past[j].fid # past[k].fid BY <1>2, <1>6 DEF FilesOpen
    <3> QED BY <1>1, <1>4, <1>6, <1>7, <1>9, <2>1, <3>1, <3>2 DEF FilesOpen
  <2>4. Top \in [fid : DOMAIN entered, pos : Nat] BY <1>2, <1>3, <1>5
  <2>5. Past' = Past \cup {Top}
    <3>1. Past' = {at \in [fid : DOMAIN entered, pos : Nat] :
                     /\ at.pos \in DOMAIN text[FileOf(at)]
                     /\ \A k \in 1 .. n : past[k].fid = at.fid => at.pos < past[k].pos}
      BY <1>1, <1>6, <1>9, <2>1 DEF Past, FileOf
    <3>2. Past = {at \in [fid : DOMAIN entered, pos : Nat] :
                     /\ at.pos \in DOMAIN text[FileOf(at)]
                     /\ \A k \in 1 .. n : open[k].fid = at.fid => at.pos < open[k].pos}
      BY <1>2 DEF Past
    <3> QED BY <1>3, <1>8, <2>4, <3>1, <3>2
  <2>6. Same(Past \cup {Top}) BY <1>1, <1>3, <1>9 DEF Same, FileOf, LineAt, InSystem, Past
  <2> QED BY <1>3, <1>9, <2>2, <2>5, <2>6
<1>10. CASE Entering
  <2>1. PICK f \in DOMAIN text : open' = Append(past, EntryOf(f)) /\ entered' = Append(entered, f) BY <1>10 DEF Entering, past
  <2> DEFINE new == Len(entered) + 1
  <2>2. EntryOf(f) = [fid |-> new, pos |-> 1] BY DEF EntryOf
  <2>3. /\ DOMAIN open' = 1 .. n + 1 /\ open'[n + 1] = [fid |-> new, pos |-> 1] /\ \A k \in 1 .. n : open'[k] = past[k]
        /\ open' \in Seq([fid : Nat \ {0}, pos : Nat \ {0}])
    <3> DEFINE e == [fid |-> new, pos |-> 1]
    <3>1. e \in [fid : Nat \ {0}, pos : Nat \ {0}] BY <1>2
    <3>2. open' = Append(past, e) BY <2>1, <2>2
    <3> HIDE DEF e
    <3>3. Append(past, e) \in Seq([fid : Nat \ {0}, pos : Nat \ {0}]) BY <1>7, <3>1, AppendProperties
    <3>4. Len(Append(past, e)) = n + 1 /\ Append(past, e)[n + 1] = e /\ \A k \in 1 .. n : Append(past, e)[k] = past[k]
      <4>1. /\ Len(Append(past, e)) = Len(past) + 1 /\ Append(past, e)[Len(past) + 1] = e
            /\ \A k \in 1 .. Len(past) : Append(past, e)[k] = past[k]
        BY <1>7, <3>1, AppendProperties
      <4> QED BY <1>6, <4>1
    <3> QED BY <3>2, <3>3, <3>4 DEF e
  <2>4. /\ DOMAIN entered' = 1 .. new /\ \A i \in DOMAIN entered : entered'[i] = entered[i]
        /\ entered'[new] = f /\ entered' \in Seq(DOMAIN text)
    BY <1>2, <1>4, <2>1
  <2>5. \A k \in 1 .. n : past[k].fid \in DOMAIN entered BY <1>2, <1>6 DEF FilesOpen
  <2>6. FilesOpen'
    <3>4. \A k \in 1 .. n + 1 : k \in 1 .. n \/ k = n + 1 BY <1>2
    <3>5. \A k \in 1 .. n : open'[k].fid = open[k].fid /\ open[k].fid \in 1 .. Len(entered) BY <1>2, <1>6, <2>3, <2>5
    <3>6. open'[n + 1].fid = new BY <2>3
    <3>1. \A k \in 1 .. n + 1 : open'[k].fid \in 1 .. new BY <1>2, <3>4, <3>5, <3>6
    <3>2. ASSUME NEW j \in 1 .. n + 1, NEW k \in 1 .. n + 1, j # k PROVE open'[j].fid # open'[k].fid
      <4>1. \A i \in 1 .. n : open'[i].fid # new /\ open'[n + 1].fid = new BY <1>2, <3>5, <3>6
      <4>2. j \in 1 .. n /\ k \in 1 .. n => open'[j].fid # open'[k].fid BY <1>2, <3>2, <3>5 DEF FilesOpen
      <4>3. (j \in 1 .. n \/ j = n + 1) /\ (k \in 1 .. n \/ k = n + 1) BY <1>2
      <4> QED BY <3>2, <4>1, <4>2, <4>3
    <3>3. text' \in Units /\ phase' = "lex" BY <1>1 DEF FilesOpen
    <3> QED BY <1>1, <2>3, <2>4, <3>1, <3>2, <3>3 DEF FilesOpen
  <2>7. ASSUME NEW at \in [fid : DOMAIN entered, pos : Nat]
        PROVE  /\ FileOf(at)' = FileOf(at)
               /\ (\A k \in DOMAIN open' : open'[k].fid = at.fid => at.pos < open'[k].pos)
                 <=> (\A k \in 1 .. n : past[k].fid = at.fid => at.pos < past[k].pos)
    <3>1. at.fid # new BY <1>2
    <3>2. \A k \in 1 .. n + 1 : k \in 1 .. n \/ k = n + 1 BY <1>2
    <3>3. \A k \in 1 .. n : k \in 1 .. n + 1 BY <1>2
    <3>4. FileOf(at)' = FileOf(at) BY <2>4 DEF FileOf
    <3>5. DOMAIN open' = 1 .. n + 1 /\ open'[n + 1].fid = new /\ \A k \in 1 .. n : open'[k] = past[k] BY <2>3
    <3> HIDE DEF new
    <3> QED BY <3>1, <3>2, <3>3, <3>4, <3>5
  <2>8. ASSUME NEW at \in [fid : {new}, pos : Nat] PROVE ~(\A k \in DOMAIN open' : open'[k].fid = at.fid => at.pos < open'[k].pos) \/ at.pos = 0
    <3>1. open'[n + 1].fid = at.fid /\ open'[n + 1].pos = 1 /\ n + 1 \in DOMAIN open' BY <1>2, <2>3
    <3> QED BY <3>1
  <2>9. Past' = Past \cup {Top}
    <3> DEFINE Read(at) == \A k \in 1 .. n : past[k].fid = at.fid => at.pos < past[k].pos
    <3>1. ASSUME NEW at PROVE at \in Past' <=> at \in [fid : DOMAIN entered, pos : Nat] /\ at.pos \in DOMAIN text[FileOf(at)] /\ Read(at)
      <4>1. at \in [fid : DOMAIN entered', pos : Nat] <=>
               at \in [fid : DOMAIN entered, pos : Nat] \/ at \in [fid : {new}, pos : Nat]
        BY <1>2, <2>4
      <4>2. at \in Past' <=> /\ at \in [fid : DOMAIN entered', pos : Nat] /\ at.pos \in DOMAIN text'[FileOf(at)']
                            /\ \A k \in DOMAIN open' : open'[k].fid = at.fid => at.pos < open'[k].pos
        BY DEF Past
      <4>3. at \in [fid : {new}, pos : Nat] => at \notin Past'
        <5> SUFFICES ASSUME at \in [fid : {new}, pos : Nat], at \in Past' PROVE FALSE OBVIOUS
        <5>1. at.pos = 0 BY <2>8, <4>2
        <5>2. FileOf(at)' = f BY <2>4 DEF FileOf
        <5>3. text[f] \in Seq([d : Directives, m : STRING, t : Seq(STRING), fn : BOOLEAN]) BY UnitLines
        <5>4. 0 \notin DOMAIN text[f] BY <5>3
        <5> QED BY <1>1, <4>2, <5>1, <5>2, <5>4
      <4> HIDE DEF Past
      <4> QED BY <1>1, <2>7, <4>1, <4>2, <4>3
    <3>2. ASSUME NEW at \in [fid : DOMAIN entered, pos : Nat], at.pos \in DOMAIN text[FileOf(at)]
          PROVE  Read(at) <=> (\A k \in 1 .. n : open[k].fid = at.fid => at.pos < open[k].pos) \/ at = Top
      BY <1>8, <3>2
    <3>3. Top \in [fid : DOMAIN entered, pos : Nat] BY <1>2, <1>3, <1>5
    <3>4. Past = {at \in [fid : DOMAIN entered, pos : Nat] :
                     /\ at.pos \in DOMAIN text[FileOf(at)]
                     /\ \A k \in 1 .. n : open[k].fid = at.fid => at.pos < open[k].pos}
      BY <1>2 DEF Past
    <3> HIDE DEF Read
    <3> QED BY <1>3, <3>1, <3>2, <3>3, <3>4
  <2>10. Same(Past \cup {Top})
    <3>1. \A at \in Past \cup {Top} : at.fid \in DOMAIN entered BY <1>3 DEF Past
    <3> QED BY <1>1, <1>2, <2>4, <3>1 DEF Same, FileOf, LineAt, InSystem
  <2> QED BY <1>2, <1>3, <2>4, <2>6, <2>9, <2>10
<1> QED BY <1>9, <1>10 DEF Reads

LEMMA RestsOn ==
  ASSUME UnitsAssumption, FilesOpen, Rests
  PROVE  /\ FilesOpen' /\ Past' = Past /\ Same(Past)
         /\ entered' = entered
<1>1. /\ text' = text /\ entered' = entered /\ Len(open) \in Nat /\ DOMAIN open = 1 .. Len(open)
      /\ open \in Seq([fid : Nat \ {0}, pos : Nat \ {0}])
  BY UnitLines DEF Rests, FilesOpen
<1>2. Same(Past) BY <1>1 DEF Same, FileOf, LineAt, InSystem, Past
<1>3. CASE phase = "lex" /\ open # <<>> /\ AtEnd /\ open' = Front(open) /\ phase' = phase
  <2> DEFINE n == Len(open) - 1
  <2>1. n \in Nat /\ Len(open) = n + 1 /\ open' = SubSeq(open, 1, n) BY <1>1, <1>3 DEF Front
  <2> HIDE DEF n
  <2>2. /\ open' \in Seq([fid : Nat \ {0}, pos : Nat \ {0}]) /\ DOMAIN open' = 1 .. n
        /\ \A k \in 1 .. n : open'[k] = open[k] /\ k \in DOMAIN open
    <3>1. \A k \in 1 .. n : k \in 1 .. Len(open) BY <2>1
    <3>2. open' \in Seq([fid : Nat \ {0}, pos : Nat \ {0}]) /\ Len(open') = n
      <4>1. \A k \in 1 .. n : open[k] \in [fid : Nat \ {0}, pos : Nat \ {0}] BY <1>1, <3>1, ElementOfSeq
      <4>2. 1 \in Int /\ n \in Int BY <2>1
      <4>3. SubSeq(open, 1, n) \in Seq([fid : Nat \ {0}, pos : Nat \ {0}]) BY <4>1, <4>2, SubSeqProperties
      <4>4. Len(SubSeq(open, 1, n)) = IF 1 <= n THEN n - 1 + 1 ELSE 0 BY <4>1, <4>2, SubSeqProperties
      <4> QED BY <2>1, <4>3, <4>4
    <3>3. \A k \in 1 .. n : open'[k] = open[k] BY <1>1, <2>1
    <3> QED BY <1>1, <3>1, <3>2, <3>3
  <2>3. FilesOpen'
    <3>1. text' \in Units /\ entered' \in Seq(DOMAIN text') /\ phase' = "lex" BY <1>1, <1>3 DEF FilesOpen
    <3>2. \A k \in DOMAIN open' : open'[k].fid \in DOMAIN entered' BY <1>1, <2>2 DEF FilesOpen
    <3>3. \A j, k \in DOMAIN open' : j # k => open'[j].fid # open'[k].fid BY <2>2 DEF FilesOpen
    <3> QED BY <2>2, <3>1, <3>2, <3>3 DEF FilesOpen
  <2>4. ASSUME NEW at \in [fid : DOMAIN entered, pos : Nat], at.pos \in DOMAIN text[FileOf(at)]
        PROVE  (\A k \in 1 .. n : open'[k].fid = at.fid => at.pos < open'[k].pos)
                 <=> (\A k \in 1 .. n + 1 : open[k].fid = at.fid => at.pos < open[k].pos)
    <3>1. \A k \in 1 .. n + 1 : k \in 1 .. n \/ k = n + 1 BY <2>1
    <3>2. Top.fid = at.fid => at.pos < open[n + 1].pos
      <4> SUFFICES ASSUME Top.fid = at.fid PROVE at.pos < Top.pos BY <1>3, <2>1, AtTop
      <4>1. FileOf(at) = FileOf(Top) BY DEF FileOf
      <4>2. text[FileOf(Top)] \in Seq([d : Directives, m : STRING, t : Seq(STRING), fn : BOOLEAN]) BY <1>3, UnitLines, AtTop
      <4>3. at.pos <= Len(text[FileOf(Top)]) BY <2>4, <4>1, <4>2
      <4>4. Top.pos > Len(text[FileOf(Top)]) /\ Top.pos \in Nat /\ Len(text[FileOf(Top)]) \in Nat BY <1>3, <4>2, AtTop DEF AtEnd
      <4> QED BY <4>3, <4>4
    <3>3. Top = open[n + 1] BY <1>3, <2>1, AtTop
    <3>4. \A k \in 1 .. n : k \in 1 .. n + 1 BY <2>1
    <3> QED BY <2>2, <3>1, <3>2, <3>3, <3>4
  <2>5. Past' = Past
    <3>1. Past' = {at \in [fid : DOMAIN entered, pos : Nat] :
                     /\ at.pos \in DOMAIN text[FileOf(at)]
                     /\ \A k \in 1 .. n : open'[k].fid = at.fid => at.pos < open'[k].pos}
      BY <1>1, <2>2 DEF Past, FileOf
    <3>2. Past = {at \in [fid : DOMAIN entered, pos : Nat] :
                     /\ at.pos \in DOMAIN text[FileOf(at)]
                     /\ \A k \in 1 .. n + 1 : open[k].fid = at.fid => at.pos < open[k].pos}
      BY <1>1, <2>1 DEF Past
    <3> QED BY <2>4, <3>1, <3>2
  <2> QED BY <1>1, <1>2, <2>3, <2>5
<1>4. CASE open' = open /\ (phase' = phase \/ (open = <<>> /\ phase' \in {"match", "done"}))
  <2>1. FilesOpen' BY <1>1, <1>4 DEF FilesOpen
  <2>2. Past' = Past BY <1>1, <1>4 DEF Past, FileOf
  <2> QED BY <1>1, <1>2, <2>1, <2>2
<1> QED BY <1>3, <1>4 DEF Rests

\* The steps that read a line, and the others.
Reading == Define \/ Undef \/ If \/ Elif \/ Else \/ Endif \/ Skip \/ Comment \/ Once \/ Include \/ Use \/ Declare
Resting == EndOfFile \/ EndOfMainFile \/ Match \/ EndOfTranslationUnit \/ UNCHANGED monitorVars

LEMMA Steps ==
  ASSUME UnitsAssumption, FilesOpen, [MonitorNext]_monitorVars
  PROVE  (Reading => Reads) /\ (~Reading => Resting /\ Rests)
<1>1. (Define \/ Undef \/ If \/ Elif \/ Else \/ Endif \/ Skip \/ Comment \/ Once \/ Use \/ Declare) => Reads
  BY DEF Define, Undef, If, Elif, Else, Endif, Skip, Comment, Once, Use, Declare, Stay, At, Reads
<1>2. Include => Reads
  <2> SUFFICES ASSUME Include PROVE Reads OBVIOUS
  <2>1. phase = "lex" /\ open # <<>> /\ ~AtEnd /\ UNCHANGED <<text, phase>> /\ TopLine.d = "include" BY DEF Include, At
  <2>2. TopLine.m \in DOMAIN text
    <3>1. UnitAccepted(text) BY UnitLines
    <3>2. FileOf(Top) \in DOMAIN text /\ Top.pos \in DOMAIN text[FileOf(Top)] BY <2>1, AtTop
    <3> QED BY <2>1, <3>1, <3>2 DEF UnitAccepted, TopLine, LineAt
  <2> DEFINE past == [open EXCEPT ![Len(open)].pos = @ + 1]
  <2>3. \/ open' = past /\ UNCHANGED entered
        \/ open' = Append(past, EntryOf(TopLine.m)) /\ entered' = Append(entered, TopLine.m)
    BY DEF Include
  <2>4. Advance \/ ~(open' = past /\ UNCHANGED entered) BY DEF Advance
  <2>5. open' = Append(past, EntryOf(TopLine.m)) /\ entered' = Append(entered, TopLine.m) => Entering BY <2>2 DEF Entering
  <2> QED BY <2>1, <2>3, <2>4, <2>5 DEF Reads
<1>3. Resting => Rests
  BY DEF Resting, Rests, EndOfFile, EndOfMainFile, Match, EndOfTranslationUnit, FilesOpen, monitorVars, pp, checks
<1>4. Reading \/ Resting BY DEF MonitorNext, Reading, Resting, Done
<1> QED BY <1>1, <1>2, <1>3, <1>4 DEF Reading

--------------------------------------------------------------------------------
(* What a step reports. *)

\* The checks whose reports no property of this module counts.
Other == {"undefined", "value", "parentheses", "hash", "multiple-hash", "argument", "keyword"}
SaidAt(S, at, cs) == \A r \in S : r.check \in cs /\ r = [check |-> r.check, at |-> at, name |-> r.name]
Adds(cs, at) == reports \subseteq reports' /\ SaidAt(reports' \ reports, at, cs)

LEMMA SayIs ==
  ASSUME NEW c, NEW at, NEW n, NEW when
  PROVE  /\ SaidAt(Say(c, at, n, when), at, {c})
         /\ [check |-> c, at |-> at, name |-> n] \in Say(c, at, n, when) <=> when
         /\ \A r \in Say(c, at, n, when) : when /\ r.name = n
BY DEF Say, SaidAt

LEMMA OthersSaid ==
  ASSUME NEW at, NEW s, NEW l
  PROVE  /\ SaidAt(Undefined(at, s), at, Other) /\ SaidAt(NotBoolean(at, s), at, Other)
         /\ SaidAt(Parentheses(at, l), at, Other) /\ SaidAt(HashOperator(at, l), at, Other)
         /\ SaidAt(MultipleHash(at, l), at, Other) /\ SaidAt(DirectiveInArgument(at, l), at, Other)
         /\ SaidAt(NamedAsKeyword(at, s), at, Other)
<1>1. SaidAt(Undefined(at, s), at, Other) BY DEF Undefined, Say, SaidAt, Other
<1>2. SaidAt(NotBoolean(at, s), at, Other)
  <2>1. \A n : SaidAt(Say("value", at, n, ~InSystem(at) /\ ~IsBoolean(s)), at, Other) BY DEF Say, SaidAt, Other
  <2> QED BY <2>1, Zenon DEF NotBoolean
<1>3. SaidAt(Parentheses(at, l), at, Other) BY DEF Parentheses, Say, SaidAt, Other
<1>4. SaidAt(HashOperator(at, l), at, Other) BY DEF HashOperator, Say, SaidAt, Other
<1>5. SaidAt(MultipleHash(at, l), at, Other) BY DEF MultipleHash, Say, SaidAt, Other
<1>6. SaidAt(DirectiveInArgument(at, l), at, Other) BY DEF DirectiveInArgument, Say, SaidAt, Other
<1>7. SaidAt(NamedAsKeyword(at, s), at, Other) BY DEF NamedAsKeyword, Say, SaidAt, Other
<1> QED BY <1>1, <1>2, <1>3, <1>4, <1>5, <1>6, <1>7

LEMMA Reporting ==
  /\ Define => Adds(Other \cup {"reserved", "avoid-reserved"}, Top)
  /\ Undef => Adds({"undef", "reserved", "avoid-reserved"}, Top)
  /\ If \/ Use => Adds(Other, Top)
  /\ Elif => Adds(Other \cup {"cross-file"}, Top)
  /\ Else \/ Endif => Adds({"cross-file"}, Top)
  /\ Comment => Adds({"comment", "splice"}, Top)
  /\ Skip \/ Once \/ Include \/ Declare \/ EndOfFile \/ EndOfTranslationUnit \/ UNCHANGED monitorVars => reports' = reports
  /\ Match => Adds({"conflict"}, Head(decls))
<1> USE DEF SaidAt, Adds
<1>1. Define => Adds(Other \cup {"reserved", "avoid-reserved"}, Top)
  <2> SUFFICES ASSUME Define PROVE Adds(Other \cup {"reserved", "avoid-reserved"}, Top) OBVIOUS
  <2>1. reports' = reports \cup Parentheses(Top, TopLine) \cup HashOperator(Top, TopLine) \cup MultipleHash(Top, TopLine)
                        \cup NamedAsKeyword(Top, TopLine.m) \cup ReservedIdentifier(Top, TopLine.m)
                        \cup AvoidReservedDefine(Top, TopLine.m)
    BY DEF Define
  <2>2. SaidAt(ReservedIdentifier(Top, TopLine.m), Top, {"reserved"}) BY DEF ReservedIdentifier, Say
  <2>3. SaidAt(AvoidReservedDefine(Top, TopLine.m), Top, {"avoid-reserved"}) BY DEF AvoidReservedDefine, Say
  <2>4. SaidAt(Parentheses(Top, TopLine), Top, Other) /\ SaidAt(HashOperator(Top, TopLine), Top, Other)
        /\ SaidAt(MultipleHash(Top, TopLine), Top, Other) /\ SaidAt(NamedAsKeyword(Top, TopLine.m), Top, Other)
    BY OthersSaid
  <2> QED BY <2>1, <2>2, <2>3, <2>4
<1>2. Undef => Adds({"undef", "reserved", "avoid-reserved"}, Top)
  BY DEF Undef, AvoidUndef, ReservedIdentifier, AvoidReservedUndef, Say
<1>3. If => Adds(Other, Top)
  <2> SUFFICES ASSUME If PROVE Adds(Other, Top) OBVIOUS
  <2>1. \/ reports' = reports \cup Undefined(Top, TopLine.t) \cup NotBoolean(Top, TopLine.t) \/ reports' = reports BY DEF If
  <2>2. SaidAt(Undefined(Top, TopLine.t), Top, Other) /\ SaidAt(NotBoolean(Top, TopLine.t), Top, Other) BY OthersSaid
  <2> QED BY <2>1, <2>2
<1>4. Use => Adds(Other, Top)
  <2> SUFFICES ASSUME Use PROVE Adds(Other, Top) OBVIOUS
  <2>1. reports' = reports \cup DirectiveInArgument(Top, TopLine) BY DEF Use
  <2>2. SaidAt(DirectiveInArgument(Top, TopLine), Top, Other) BY OthersSaid
  <2> QED BY <2>1, <2>2
<1>5. SaidAt(CrossFile(Top), Top, {"cross-file"}) BY DEF CrossFile, Say
<1>6. Elif => Adds(Other \cup {"cross-file"}, Top)
  <2> SUFFICES ASSUME Elif PROVE Adds(Other \cup {"cross-file"}, Top) OBVIOUS
  <2>1. \/ reports' = reports \cup CrossFile(Top) \cup Undefined(Top, TopLine.t) \cup NotBoolean(Top, TopLine.t)
        \/ reports' = reports
    BY DEF Elif
  <2>2. SaidAt(Undefined(Top, TopLine.t), Top, Other) /\ SaidAt(NotBoolean(Top, TopLine.t), Top, Other) BY OthersSaid
  <2> QED BY <1>5, <2>1, <2>2
<1>7. Else \/ Endif => Adds({"cross-file"}, Top) BY <1>5 DEF Else, Endif
<1>8. Comment => Adds({"comment", "splice"}, Top) BY DEF Comment
<1>9. Skip \/ Once \/ Include \/ Declare \/ EndOfFile \/ EndOfTranslationUnit \/ UNCHANGED monitorVars => reports' = reports
  BY DEF Skip, Once, Include, Declare, EndOfFile, EndOfTranslationUnit, monitorVars, checks
<1>10. Match => Adds({"conflict"}, Head(decls)) BY DEF Match, Conflict, Say
<1> QED BY <1>1, <1>2, <1>3, <1>4, <1>6, <1>7, <1>8, <1>9, <1>10

--------------------------------------------------------------------------------
(* What a step adds to the history. *)

HistoryShape ==
  history = [expanded |-> history.expanded, removed |-> history.removed, bodies |-> history.bodies,
             judged |-> history.judged, defs |-> history.defs, declared |-> history.declared, begun |-> history.begun]
Grows(expanded, removed, defs) ==
  /\ HistoryShape'
  /\ history'.expanded = history.expanded \cup expanded /\ history'.removed = history.removed \cup removed
  /\ history'.defs = defs
Grown == Grows({}, {}, history.defs)

\* The macros ms are expanded, or none is.
Uses(ms) == /\ ms \subseteq {m \in Names : IsDefined(m)} /\ usage' = MarkUsed(ms)
            /\ Grows({macros[m] : m \in ms}, {}, history.defs)
UsesNone == usage' = usage /\ Grown
Expanding == (\E ms : Uses(ms)) \/ UsesNone

LEMMA Histories ==
  ASSUME HistoryShape
  PROVE  /\ Define => Grows({}, {}, Append(history.defs, Top)) /\ history'.declared = history.declared
         /\ Undef => Grows({}, {macros[TopLine.m]} \ {Nowhere}, history.defs) /\ history'.declared = history.declared
         /\ Declare => Grown /\ history'.declared = history.declared \cup {Top}
         /\ Else \/ Endif \/ Skip \/ Comment \/ Once \/ Include \/ Resting => Grown /\ history'.declared = history.declared
<1> DEFINE e == history.expanded  r == history.removed  b == history.bodies
           j == history.judged  d == history.defs  c == history.declared  g == history.begun
<1>1. history = [expanded |-> e, removed |-> r, bodies |-> b, judged |-> j, defs |-> d, declared |-> c, begun |-> g] BY DEF HistoryShape
<1> HIDE DEF e, r, b, j, d, c, g
<1>2. ASSUME NEW e2, NEW r2, NEW b2, NEW j2, NEW d2, NEW c2, NEW g2,
             history' = [expanded |-> e2, removed |-> r2, bodies |-> b2, judged |-> j2, defs |-> d2, declared |-> c2, begun |-> g2]
      PROVE  /\ HistoryShape' /\ history'.expanded = e2 /\ history'.removed = r2 /\ history'.defs = d2 /\ history'.declared = c2
  BY <1>2 DEF HistoryShape
<1>3. Define => history' = [expanded |-> e, removed |-> r, bodies |-> b, judged |-> j, defs |-> Append(d, Top), declared |-> c, begun |-> g]
  BY <1>1 DEF Define
<1>4. Undef => history' = [expanded |-> e, removed |-> r \cup ({macros[TopLine.m]} \ {Nowhere}), bodies |-> b, judged |-> j, defs |-> d, declared |-> c, begun |-> g]
  BY <1>1 DEF Undef
<1>5. Declare => history' = [expanded |-> e, removed |-> r, bodies |-> b \cup {Top.fid}, judged |-> j, defs |-> d, declared |-> c \cup {Top}, begun |-> g]
  BY <1>1 DEF Declare, Contributed
<1>6. Else \/ Endif \/ Skip \/ Comment \/ Once \/ Resting => history' = history
  BY DEF Else, Endif, Skip, Comment, Once, Resting, EndOfFile, EndOfMainFile, Match, EndOfTranslationUnit, monitorVars
<1>7. e = history.expanded /\ r = history.removed /\ d = history.defs /\ c = history.declared BY DEF e, r, d, c
<1>8. Define => Grows({}, {}, Append(d, Top)) /\ history'.declared = c BY <1>2, <1>3, <1>7 DEF Grows
<1>9. Undef => Grows({}, {macros[TopLine.m]} \ {Nowhere}, d) /\ history'.declared = c BY <1>2, <1>4, <1>7 DEF Grows
<1>10. Declare => Grown /\ history'.declared = c \cup {Top} BY <1>2, <1>5, <1>7 DEF Grows, Grown
<1>11. history' = history => Grown /\ history'.declared = c BY <1>1, <1>2, <1>7 DEF Grows, Grown
<1>12. Include => Grown /\ history'.declared = c
  <2> SUFFICES ASSUME Include PROVE Grown /\ history'.declared = c OBVIOUS
  <2>1. history' = history \/ history' = [history EXCEPT !.begun = Append(@, Len(history.defs))] BY Zenon DEF Include
  <2>2. [history EXCEPT !.begun = Append(@, Len(history.defs))] =
          [expanded |-> e, removed |-> r, bodies |-> b, judged |-> j, defs |-> d, declared |-> c, begun |-> Append(g, Len(d))]
    BY <1>1, <1>7
  <2> QED BY <1>2, <1>7, <1>11, <2>1, <2>2 DEF Grows, Grown
<1> QED BY <1>6, <1>7, <1>8, <1>9, <1>10, <1>11, <1>12

LEMMA UsedAreDefined ==
  ASSUME NEW s
  PROVE  UsedBy(s) \subseteq {m \in Names : IsDefined(m)}
BY DEF UsedBy, Operands

LEMMA Expansions ==
  ASSUME UnitsAssumption, FilesOpen, HistoryShape, If \/ Elif \/ Use
  PROVE  Expanding /\ history'.declared = history.declared
<1> DEFINE e == history.expanded  r == history.removed  b == history.bodies
           j == history.judged  d == history.defs  c == history.declared  g == history.begun
<1>1. history = [expanded |-> e, removed |-> r, bodies |-> b, judged |-> j, defs |-> d, declared |-> c, begun |-> g] BY DEF HistoryShape
<1>2. e = history.expanded /\ r = history.removed /\ d = history.defs /\ c = history.declared OBVIOUS
<1> HIDE DEF e, r, b, j, d, c, g
<1>3. ASSUME NEW ms, ms \subseteq {m \in Names : IsDefined(m)}, usage' = MarkUsed(ms), NEW b2, NEW j2,
             history' = [expanded |-> e \cup {macros[m] : m \in ms}, removed |-> r, bodies |-> b2, judged |-> j2,
                         defs |-> d, declared |-> c, begun |-> g]
      PROVE  Expanding /\ history'.declared = history.declared
  <2>1. Grows({macros[m] : m \in ms}, {}, history.defs) /\ history'.declared = history.declared BY <1>2, <1>3 DEF Grows, HistoryShape
  <2> QED BY <1>3, <2>1 DEF Expanding, Uses
<1>4. usage' = usage /\ history' = history => Expanding /\ history'.declared = history.declared BY <1>1, <1>2 DEF Expanding, UsesNone, Grown, Grows, HistoryShape
<1>5. CASE If
  <2>1. CASE UNCHANGED <<usage, history>> BY <1>4, <2>1
  <2>2. CASE ~UNCHANGED <<usage, history>>
    <3> DEFINE ms == UsedBy(TopLine.t)
    <3>1. usage' = MarkUsed(ms) /\ history' = [history EXCEPT !.judged = Judge, !.expanded = @ \cup {macros[m] : m \in ms}]
      BY <1>5, <2>2 DEF If
    <3> HIDE DEF ms
    <3>2. history' = [expanded |-> e \cup {macros[m] : m \in ms}, removed |-> r, bodies |-> b, judged |-> Judge,
                      defs |-> d, declared |-> c, begun |-> g]
      BY <1>1, <3>1
    <3>3. ms \subseteq {m \in Names : IsDefined(m)} BY UsedAreDefined DEF ms
    <3> QED BY <1>3, <3>1, <3>2, <3>3
  <2> QED BY <2>1, <2>2
<1>6. CASE Elif
  <2>1. CASE UNCHANGED <<usage, history>> BY <1>4, <2>1
  <2>2. CASE ~UNCHANGED <<usage, history>>
    <3> DEFINE ms == UsedBy(TopLine.t)
    <3>1. usage' = MarkUsed(ms) /\ history' = [history EXCEPT !.judged = Judge, !.expanded = @ \cup {macros[m] : m \in ms}]
      BY <1>6, <2>2 DEF Elif
    <3> HIDE DEF ms
    <3>2. history' = [expanded |-> e \cup {macros[m] : m \in ms}, removed |-> r, bodies |-> b, judged |-> Judge,
                      defs |-> d, declared |-> c, begun |-> g]
      BY <1>1, <3>1
    <3>3. ms \subseteq {m \in Names : IsDefined(m)} BY UsedAreDefined DEF ms
    <3> QED BY <1>3, <3>1, <3>2, <3>3
  <2> QED BY <2>1, <2>2
<1>7. CASE Use
  <2> DEFINE ms == {m \in {TopLine.m} : IsDefined(m)}
  <2>1. usage' = MarkUsed(ms) /\ history' = [Contributed EXCEPT !.expanded = @ \cup {macros[m] : m \in ms}] BY <1>7 DEF Use
  <2>2. TopLine.m \in Names
    <3>1. TopLine.d \in {"use", "decl"} /\ open # <<>> /\ ~AtEnd BY <1>7 DEF Use, At
    <3>2. FileOf(Top) \in DOMAIN text /\ Top.pos \in DOMAIN text[FileOf(Top)] BY <3>1, AtTop
    <3> QED BY <3>1, <3>2, UnitLines DEF UnitAccepted, TopLine, LineAt
  <2>3. ms \subseteq {m \in Names : IsDefined(m)} BY <2>2
  <2> HIDE DEF ms
  <2>4. history' = [expanded |-> e \cup {macros[m] : m \in ms}, removed |-> r, bodies |-> b \cup {Top.fid}, judged |-> j,
                    defs |-> d, declared |-> c, begun |-> g]
    BY <1>1, <2>1 DEF Contributed
  <2> QED BY <1>3, <2>1, <2>3, <2>4
<1> QED BY <1>5, <1>6, <1>7

--------------------------------------------------------------------------------
(* What is recorded has been read. *)

Named == {at \in Past : LineAt(at).m \in Names}
Recorded ==
  /\ HistoryShape
  /\ history.defs \in Seq(Named)
  /\ history.expanded \subseteq Past /\ history.removed \subseteq Past /\ history.declared \subseteq Past
  /\ decls \in Seq(history.declared)
  /\ macros \in [Names -> Past \cup {Nowhere}]
  /\ DOMAIN usage \subseteq Names /\ \A m \in DOMAIN usage : usage[m].at \in Past \cup {Nowhere}
  /\ \A r \in reports : r = [check |-> r.check, at |-> r.at, name |-> r.name] /\ r.at \in Past \cup {Nowhere}

LEMMA NamedAtTop ==
  ASSUME UnitsAssumption, FilesOpen
  PROVE  Define \/ Undef \/ Use \/ Declare => TopLine.m \in Names
<1> SUFFICES ASSUME Define \/ Undef \/ Use \/ Declare PROVE TopLine.m \in Names OBVIOUS
<1>1. TopLine.d \in {"define", "undef", "use", "decl"} /\ open # <<>> /\ ~AtEnd BY DEF Define, Undef, Use, Declare, At
<1>2. FileOf(Top) \in DOMAIN text /\ Top.pos \in DOMAIN text[FileOf(Top)] BY <1>1, AtTop
<1> QED BY <1>1, <1>2, UnitLines DEF UnitAccepted, TopLine, LineAt

LEMMA Moves ==
  ASSUME UnitsAssumption, FilesOpen, [MonitorNext]_monitorVars
  PROVE  /\ FilesOpen' /\ Past \subseteq Past' /\ Same(Past)
         /\ Reading => /\ phase = "lex" /\ phase' = "lex" /\ open # <<>> /\ ~AtEnd
                       /\ Past' = Past \cup {Top} /\ Top \notin Past /\ Same(Past')
         /\ ~Reading => Resting /\ Past' = Past
         /\ DOMAIN entered \subseteq DOMAIN entered' /\ (\A i \in DOMAIN entered : entered'[i] = entered[i]) /\ text' = text
<1>1. CASE Reading
  <2>1. Reads BY <1>1, Steps
  <2>2. /\ FilesOpen' /\ Past' = Past \cup {Top} /\ Top \notin Past /\ Same(Past \cup {Top})
        /\ DOMAIN entered \subseteq DOMAIN entered' /\ \A i \in DOMAIN entered : entered'[i] = entered[i]
    BY <2>1, ReadsOn
  <2>4. Same(Past) /\ Same(Past') BY <2>2 DEF Same
  <2>3. phase = "lex" /\ phase' = "lex" /\ open # <<>> /\ ~AtEnd /\ text' = text BY <2>1 DEF Reads
  <2> QED BY <1>1, <2>2, <2>3, <2>4
<1>2. CASE ~Reading
  <2>1. Resting /\ Rests BY <1>2, Steps
  <2>2. FilesOpen' /\ Past' = Past /\ Same(Past) /\ entered' = entered BY <2>1, RestsOn
  <2> QED BY <1>2, <2>1, <2>2 DEF Rests
<1> QED BY <1>1, <1>2

\* What becomes of the macros, of the declarations and of the marks.
LEMMA Kept ==
  ASSUME UnitsAssumption, FilesOpen, HistoryShape, [MonitorNext]_monitorVars
  PROVE  /\ HistoryShape'
         /\ ~Define /\ ~Undef => macros' = macros /\ Expanding
         /\ ~Declare /\ ~Match => decls' = decls
         /\ ~Declare => history'.declared = history.declared
         /\ ~Define => history'.defs = history.defs
<1>1. Define \/ Undef \/ If \/ Elif \/ Else \/ Endif \/ Skip \/ Comment \/ Once \/ Include \/ Use \/ Declare \/ Resting
  BY DEF MonitorNext, Done, Resting
<1>2. If \/ Elif \/ Use => Expanding /\ history'.declared = history.declared BY Expansions
<1>3. Else \/ Endif \/ Skip \/ Comment \/ Once \/ Include \/ Resting => Expanding
  <2>1. Else \/ Endif \/ Skip \/ Comment \/ Once \/ Include \/ Resting => usage' = usage
    BY DEF Else, Endif, Skip, Comment, Once, Include, Resting, EndOfFile, EndOfMainFile, Match, EndOfTranslationUnit, monitorVars, checks
  <2> QED BY <2>1, Histories DEF Expanding, UsesNone
<1>4. Declare => Expanding BY Histories DEF Declare, Expanding, UsesNone
<1>5. ~Define /\ ~Undef => Expanding BY <1>1, <1>2, <1>3, <1>4
<1>6. Expanding => HistoryShape' /\ history'.defs = history.defs BY DEF Expanding, Uses, UsesNone, Grown, Grows
<1>7. /\ ~Define /\ ~Undef => macros' = macros
      /\ ~Declare /\ ~Match => decls' = decls
  BY <1>1 DEF Define, Undef, If, Elif, Else, Endif, Skip, Comment, Once, Include, Use, Declare, Stay,
              Resting, EndOfFile, EndOfMainFile, Match, EndOfTranslationUnit, monitorVars, pp
<1>8. Define \/ Undef => HistoryShape' /\ history'.declared = history.declared /\ (Undef => history'.defs = history.defs)
  BY Histories DEF Grows
<1>9. ~Declare => history'.declared = history.declared BY <1>1, <1>2, <1>8, Histories
<1> QED BY <1>5, <1>6, <1>7, <1>8, <1>9

LEMMA RecordedOn ==
  ASSUME UnitsAssumption, FilesOpen, Recorded, [MonitorNext]_monitorVars
  PROVE  Recorded'
<1>1. /\ Past \subseteq Past' /\ Same(Past)
      /\ Reading => open # <<>> /\ ~AtEnd /\ Past' = Past \cup {Top} /\ Same(Past')
  BY Moves
<1>2. HistoryShape BY DEF Recorded
<1>3. HistoryShape' BY <1>2, Kept
<1>4. Define \/ Undef \/ Use \/ Declare => TopLine.m \in Names BY NamedAtTop
<1>5. Define \/ Undef \/ Declare => Reading BY DEF Reading
<1>6. history'.defs \in Seq(Named')
  <2>1. Named \subseteq Named' BY <1>1 DEF Named, Same
  <2>2. history.defs \in Seq(Named') BY <2>1, SeqMonotonic DEF Recorded
  <2>3. CASE ~Define BY <1>2, <2>2, <2>3, Kept
  <2>4. CASE Define
    <3>1. history'.defs = Append(history.defs, Top) BY <1>2, <2>4, Histories DEF Grows
    <3>2. \A at \in Past' : at = Top => LineAt(at)' = TopLine BY <1>1, <1>5, <2>4 DEF Same, TopLine
    <3>3. Top \in Named' BY <1>1, <1>4, <1>5, <2>4, <3>2 DEF Named
    <3> QED BY <2>2, <3>1, <3>3, AppendProperties
  <2> QED BY <2>3, <2>4
<1>7. macros' \in [Names -> Past' \cup {Nowhere}]
  <2>1. macros \in [Names -> Past' \cup {Nowhere}] BY <1>1 DEF Recorded
  <2>2. CASE Define BY <1>1, <1>4, <1>5, <2>1, <2>2 DEF Define
  <2>3. CASE Undef BY <2>1, <2>3 DEF Undef
  <2>4. CASE ~Define /\ ~Undef BY <1>2, <2>1, <2>4, Kept
  <2> QED BY <2>2, <2>3, <2>4
<1>8. history'.expanded \subseteq Past' /\ history'.removed \subseteq Past'
  <2>1. history.expanded \subseteq Past' /\ history.removed \subseteq Past' BY <1>1 DEF Recorded
  <2>2. \A m \in Names : macros[m] \in Past \cup {Nowhere} BY DEF Recorded
  <2>3. CASE Define BY <1>2, <2>1, <2>3, Histories DEF Grows
  <2>4. CASE Undef
    <3>1. {macros[TopLine.m]} \ {Nowhere} \subseteq Past BY <1>4, <2>2, <2>4
    <3> QED BY <1>1, <1>2, <2>1, <2>4, <3>1, Histories DEF Grows
  <2>5. CASE ~Define /\ ~Undef
    <3>1. Expanding BY <1>2, <2>5, Kept
    <3>2. CASE UsesNone BY <2>1, <3>2 DEF UsesNone, Grown, Grows
    <3>3. CASE \E ms : Uses(ms)
      <4>1. PICK ms : Uses(ms) BY <3>3
      <4>2. {macros[m] : m \in ms} \subseteq Past BY <2>2, <4>1 DEF Uses, IsDefined
      <4> QED BY <1>1, <2>1, <4>1, <4>2 DEF Uses, Grows
    <3> QED BY <3>1, <3>2, <3>3 DEF Expanding
  <2> QED BY <2>3, <2>4, <2>5
<1>9. history'.declared \subseteq Past' /\ decls' \in Seq(history'.declared)
  <2>1. history.declared \subseteq Past /\ decls \in Seq(history.declared) BY DEF Recorded
  <2>2. CASE Declare
    <3>1. history'.declared = history.declared \cup {Top} /\ decls' = Append(decls, Top) BY <1>2, <2>2, Histories DEF Declare
    <3>2. decls \in Seq(history'.declared) BY <2>1, <3>1, SeqMonotonic
    <3>3. Top \in history'.declared BY <3>1
    <3>4. Append(decls, Top) \in Seq(history'.declared) BY <3>2, <3>3, AppendProperties
    <3> QED BY <1>1, <1>5, <2>1, <2>2, <3>1, <3>4
  <2>3. CASE ~Declare /\ Match
    <3>1. history'.declared = history.declared BY <1>2, <2>3, Kept
    <3>2. decls' = Tail(decls) /\ decls # <<>> BY <2>3 DEF Match
    <3>3. Tail(decls) \in Seq(history.declared) BY <2>1, <3>2, HeadTailProperties
    <3> QED BY <1>1, <2>1, <3>1, <3>2, <3>3
  <2>4. CASE ~Declare /\ ~Match
    <3>1. history'.declared = history.declared /\ decls' = decls BY <1>2, <2>4, Kept
    <3> QED BY <1>1, <2>1, <3>1
  <2> QED BY <2>2, <2>3, <2>4
<1>10. DOMAIN usage' \subseteq Names /\ \A m \in DOMAIN usage' : usage'[m].at \in Past' \cup {Nowhere}
  <2>1. DOMAIN usage \subseteq Names /\ \A m \in DOMAIN usage : usage[m].at \in Past' \cup {Nowhere} BY <1>1 DEF Recorded
  <2>2. ASSUME NEW ms, ms \subseteq Names, usage' = MarkUsed(ms)
        PROVE  DOMAIN usage' \subseteq Names /\ \A m \in DOMAIN usage' : usage'[m].at \in Past' \cup {Nowhere}
    BY ZenonT(40), <2>1, <2>2, MarksAre
  <2>3. CASE Define
    <3> DEFINE mark == [used |-> FALSE, at |-> Top]
    <3>1. usage' = Put(usage, TopLine.m, mark) /\ mark.at = Top BY <2>3 DEF Define, UsageReset
    <3> HIDE DEF mark
    <3>2. TopLine.m \in Names /\ Top \in Past' BY <1>1, <1>4, <1>5, <2>3
    <3>4. DOMAIN usage' = {TopLine.m} \cup DOMAIN usage BY <3>1, PutIs
    <3>3. ASSUME NEW m \in DOMAIN usage' PROVE usage'[m].at \in Past' \cup {Nowhere}
      <4>1. CASE m = TopLine.m
        <5>1. Put(usage, TopLine.m, mark)[TopLine.m] = mark BY DEF Put
        <5> QED BY <3>1, <3>2, <4>1, <5>1
      <4>2. CASE m # TopLine.m
        <5>1. m \in DOMAIN usage \ {TopLine.m} BY <3>4, <4>2
        <5>2. Put(usage, TopLine.m, mark)[m] = usage[m] BY <5>1 DEF Put
        <5> QED BY <2>1, <3>1, <5>1, <5>2
      <4> QED BY <4>1, <4>2
    <3> QED BY <2>1, <3>2, <3>3, <3>4
  <2>4. CASE Undef
    <3>1. {TopLine.m} \subseteq Names /\ usage' = MarkUsed({TopLine.m}) BY <1>4, <2>4 DEF Undef
    <3> QED BY <2>2, <3>1
  <2>5. CASE ~Define /\ ~Undef
    <3>1. Expanding BY <1>2, <2>5, Kept
    <3>2. CASE UsesNone BY <2>1, <3>2 DEF UsesNone
    <3>3. CASE \E ms : Uses(ms)
      <4>1. PICK ms : Uses(ms) BY <3>3
      <4>2. ms \subseteq Names /\ usage' = MarkUsed(ms) BY <4>1 DEF Uses
      <4> QED BY <2>2, <4>2
    <3> QED BY <3>1, <3>2, <3>3 DEF Expanding
  <2> QED BY <2>3, <2>4, <2>5
<1>11. \A r \in reports' : r = [check |-> r.check, at |-> r.at, name |-> r.name] /\ r.at \in Past' \cup {Nowhere}
  <2>1. \A r \in reports : r = [check |-> r.check, at |-> r.at, name |-> r.name] /\ r.at \in Past' \cup {Nowhere}
    BY <1>1 DEF Recorded
  <2>2. ASSUME NEW at \in Past' \cup {Nowhere}, NEW cs, Adds(cs, at)
        PROVE  \A r \in reports' : r = [check |-> r.check, at |-> r.at, name |-> r.name] /\ r.at \in Past' \cup {Nowhere}
    <3> SUFFICES ASSUME NEW r \in reports', r \notin reports
                 PROVE  r = [check |-> r.check, at |-> r.at, name |-> r.name] /\ r.at \in Past' \cup {Nowhere}
      BY <2>1
    <3>1. r = [check |-> r.check, at |-> at, name |-> r.name] BY <2>2 DEF Adds, SaidAt
    <3>2. r.at = at BY <3>1
    <3> QED BY <3>1, <3>2
  <2>3. reports' = reports => \A r \in reports' : r = [check |-> r.check, at |-> r.at, name |-> r.name] /\ r.at \in Past' \cup {Nowhere}
    BY <2>1
  <2>4. CASE Reading
    <3>1. Top \in Past' \cup {Nowhere} BY <1>1, <2>4
    <3>2. reports' = reports \/ \E cs : Adds(cs, Top)
      <4>1. \/ \E cs : Adds(cs, Top)
            \/ Skip \/ Once \/ Include \/ Declare
        BY <2>4, Reporting DEF Reading
      <4> QED BY <4>1, Reporting
    <3> QED BY <2>2, <2>3, <3>1, <3>2
  <2>5. CASE EndOfFile \/ EndOfTranslationUnit \/ UNCHANGED monitorVars BY <2>3, <2>5, Reporting
  <2>6. CASE Match
    <3>1. Head(decls) \in Past
      <4>1. decls \in Seq(history.declared) /\ history.declared \subseteq Past /\ decls # <<>> BY <2>6 DEF Recorded, Match
      <4>2. Head(decls) \in history.declared BY <4>1, HeadTailProperties
      <4> QED BY <4>1, <4>2
    <3> QED BY <1>1, <2>2, <2>6, <3>1, Reporting
  <2>7. CASE EndOfMainFile
    <3>1. reports' = reports \cup Unused \cup UNION {Say("guard", Nowhere, f, TRUE) : f \in Unguarded} BY <2>7 DEF EndOfMainFile
    <3>2. ASSUME NEW r \in Unused PROVE r = [check |-> r.check, at |-> r.at, name |-> r.name] /\ r.at \in Past'  \cup {Nowhere}
      <4>1. PICK m \in DOMAIN usage : r = [check |-> "unused", at |-> usage[m].at, name |-> m] BY DEF Unused, Say
      <4> QED BY <1>1, <4>1 DEF Recorded
    <3>3. ASSUME NEW r \in UNION {Say("guard", Nowhere, f, TRUE) : f \in Unguarded}
          PROVE  r = [check |-> r.check, at |-> r.at, name |-> r.name] /\ r.at \in Past' \cup {Nowhere}
      <4>1. PICK f \in Unguarded : r = [check |-> "guard", at |-> Nowhere, name |-> f] BY DEF Say
      <4> QED BY <4>1
    <3> QED BY <2>1, <3>1, <3>2, <3>3
  <2> QED BY <2>4, <2>5, <2>6, <2>7, Moves DEF Resting
<1> QED BY <1>3, <1>6, <1>7, <1>8, <1>9, <1>10, <1>11 DEF Recorded

--------------------------------------------------------------------------------
(* The macros and the marks of their last definitions. *)

LastDef(m, d) ==
  \E i \in DOMAIN history.defs :
    /\ history.defs[i] = d /\ LineAt(d).m = m
    /\ \A j \in i + 1 .. Len(history.defs) : LineAt(history.defs[j]).m # m

NamesRight ==
  /\ \A m \in Names, d \in Past : macros[m] = d => LastDef(m, d)
  /\ \A m \in Names, d \in Past : LastDef(m, d) =>
        /\ m \in DOMAIN usage /\ usage[m].at = d
        /\ usage[m].used <=> d \in history.expanded \cup history.removed
        /\ macros[m] = Nowhere => d \in history.removed
  /\ \A m \in DOMAIN usage, d \in Past : usage[m].at = d => LastDef(m, d)

LEMMA LastDefs ==
  ASSUME Recorded, NEW m, NEW d, LastDef(m, d)
  PROVE  d \in Past /\ LineAt(d).m = m
<1>1. history.defs \in Seq(Named) BY DEF Recorded
<1>2. \A i \in DOMAIN history.defs : history.defs[i] \in Named BY <1>1, ElementOfSeq
<1> QED BY <1>2 DEF LastDef, Named

LEMMA LastDefOn ==
  ASSUME UnitsAssumption, FilesOpen, Recorded, [MonitorNext]_monitorVars, NEW m, NEW d
  PROVE  LastDef(m, d)' <=> IF Define /\ m = TopLine.m THEN d = Top ELSE LastDef(m, d)
<1> DEFINE D == history.defs
<1>1. D \in Seq(Named) /\ Named \subseteq Past /\ HistoryShape BY DEF Recorded, Named
<1>2. Len(D) \in Nat /\ DOMAIN D = 1 .. Len(D) /\ \A i \in 1 .. Len(D) : D[i] \in Past BY <1>1, ElementOfSeq
<1>3. /\ \A at \in Past : LineAt(at)' = LineAt(at)
      /\ Define => \A at \in Past' : LineAt(at)' = LineAt(at)
  BY Moves DEF Same, Reading
<1>4. CASE ~Define
  <2>1. history'.defs = D BY <1>1, <1>4, Kept
  <2>2. \A i \in 1 .. Len(D) : LineAt(history.defs[i])' = LineAt(D[i]) BY <1>2, <1>3, <2>1 DEF LineAt, FileOf
  <2>3. \A i \in DOMAIN D : D[i] = d => LineAt(d)' = LineAt(d) BY <1>2, <1>3
  <2>4. \A i, j \in Nat : j \in i + 1 .. Len(D) => j \in 1 .. Len(D) BY <1>2
  <2> QED BY SMTT(30), <1>2, <1>4, <2>1, <2>2, <2>3, <2>4 DEF LastDef
<1>5. CASE Define
  <2>1. history'.defs = Append(D, Top) BY <1>1, <1>5, Histories DEF Grows
  <2>2. Top \in Past' /\ Top \notin Past BY <1>5, Moves DEF Reading
  <2>3. PICK n \in Nat : n = Len(D) BY <1>2
  <2>4. PICK top \in Past' : top = Top BY <2>2
  <2>5. /\ Len(history'.defs) = n + 1 /\ DOMAIN history'.defs = 1 .. n + 1
        /\ history'.defs[n + 1] = top /\ \A i \in 1 .. n : history'.defs[i] = D[i]
    BY <1>1, <1>2, <2>1, <2>3, <2>4
  <2>6. LineAt(top)' = TopLine BY <1>3, <1>5, <2>4 DEF TopLine
  <2>7. LineAt(history.defs[n + 1])' = TopLine BY <2>5, <2>6 DEF LineAt, FileOf
  <2>8. \A i \in 1 .. n : LineAt(history.defs[i])' = LineAt(D[i]) BY <1>2, <1>3, <2>3, <2>5 DEF LineAt, FileOf
  <2>9. LastDef(m, d)' <=> \E i \in 1 .. n + 1 : /\ history'.defs[i] = d /\ LineAt(d)'.m = m
                                               /\ \A j \in i + 1 .. n + 1 : LineAt(history.defs[j])'.m # m
    BY <2>5 DEF LastDef
  <2>10. LastDef(m, d) <=> \E i \in 1 .. n : /\ D[i] = d /\ LineAt(d).m = m
                                            /\ \A j \in i + 1 .. n : LineAt(D[j]).m # m
    BY <1>2, <2>3 DEF LastDef
  <2>11. CASE m = TopLine.m
    <3>1. ASSUME LastDef(m, d)' PROVE d = Top
      <4>1. PICK i \in 1 .. n + 1 : history'.defs[i] = d /\ \A j \in i + 1 .. n + 1 : LineAt(history.defs[j])'.m # m
        BY <2>9, <3>1
      <4>2. n + 1 \notin i + 1 .. n + 1 BY <2>7, <2>11, <4>1
      <4> QED BY <2>4, <2>5, <4>1, <4>2
    <3>2. ASSUME d = Top PROVE LastDef(m, d)'
      <4>1. n + 1 \in 1 .. n + 1 /\ n + 1 + 1 .. n + 1 = {} OBVIOUS
      <4>2. LineAt(d)'.m = m
        <5>1. d = top BY <2>4, <3>2
        <5> QED BY <2>6, <2>11, <5>1
      <4> QED BY <2>4, <2>5, <2>9, <3>2, <4>1, <4>2
    <3> QED BY <1>5, <2>11, <3>1, <3>2
  <2>12. CASE m # TopLine.m
    <3>1. ASSUME LastDef(m, d)' PROVE LastDef(m, d)
      <4>1. PICK i \in 1 .. n + 1 : /\ history'.defs[i] = d /\ LineAt(d)'.m = m
                                  /\ \A j \in i + 1 .. n + 1 : LineAt(history.defs[j])'.m # m
        BY <2>9, <3>1
      <4>2. i # n + 1
        <5> SUFFICES ASSUME i = n + 1 PROVE FALSE OBVIOUS
        <5>1. d = top BY <2>5, <4>1
        <5> QED BY <2>6, <2>12, <4>1, <5>1
      <4>3. i \in 1 .. n /\ \A j \in i + 1 .. n : j \in i + 1 .. n + 1 /\ j \in 1 .. n BY <4>2
      <4>4. D[i] = d /\ LineAt(d)' = LineAt(d) BY <1>2, <1>3, <2>3, <2>5, <4>1, <4>3
      <4> QED BY <2>8, <2>10, <4>1, <4>3, <4>4
    <3>2. ASSUME LastDef(m, d) PROVE LastDef(m, d)'
      <4>1. PICK i \in 1 .. n : D[i] = d /\ LineAt(d).m = m /\ \A j \in i + 1 .. n : LineAt(D[j]).m # m
        BY <2>10, <3>2
      <4>2. i \in 1 .. n + 1 /\ \A j \in i + 1 .. n + 1 : j = n + 1 \/ (j \in i + 1 .. n /\ j \in 1 .. n) OBVIOUS
      <4>3. history'.defs[i] = d /\ LineAt(d)' = LineAt(d) BY <1>2, <1>3, <2>3, <2>5, <4>1
      <4>4. \A j \in i + 1 .. n + 1 : LineAt(history.defs[j])'.m # m BY <2>7, <2>8, <2>12, <4>1, <4>2
      <4> QED BY <2>9, <4>1, <4>2, <4>3, <4>4
    <3> QED BY <2>12, <3>1, <3>2
  <2> QED BY <2>11, <2>12
<1> QED BY <1>4, <1>5

LEMMA NamesOn ==
  ASSUME UnitsAssumption, FilesOpen, Recorded, NamesRight, [MonitorNext]_monitorVars
  PROVE  NamesRight'
<1>1. /\ \A m, d : LastDef(m, d) => d \in Past /\ LineAt(d).m = m
      /\ \A m, d : LastDef(m, d)' <=> IF Define /\ m = TopLine.m THEN d = Top ELSE LastDef(m, d)
  BY LastDefs, LastDefOn
<1>2. /\ \A m \in Names : macros[m] \in Past \cup {Nowhere}
      /\ DOMAIN macros = Names /\ DOMAIN usage \subseteq Names /\ \A m \in DOMAIN usage : usage[m].at \in Past \cup {Nowhere}
      /\ history.expanded \subseteq Past /\ history.removed \subseteq Past /\ HistoryShape
  BY DEF Recorded
<1>3. Nowhere \notin Past /\ Nowhere \notin Past' /\ Past \subseteq Past'
  <2>1. FilesOpen' BY Moves
  <2>2. Nowhere \notin Past' BY <2>1, Moves DEF Past, Nowhere, FilesOpen
  <2> QED BY <2>2, UnitLines, Moves
<1>4. /\ \A m \in Names, d \in Past : macros[m] = d => LastDef(m, d)
      /\ \A m \in Names, d \in Past : LastDef(m, d) =>
           /\ m \in DOMAIN usage /\ usage[m].at = d
           /\ usage[m].used <=> d \in history.expanded \cup history.removed
           /\ macros[m] = Nowhere => d \in history.removed
      /\ \A m \in DOMAIN usage, d \in Past : usage[m].at = d => LastDef(m, d)
  BY DEF NamesRight
<1>5. CASE Define
  <2> DEFINE m0 == TopLine.m
  <2>1. m0 \in Names /\ Top \in Past' /\ Top \notin Past BY <1>5, NamedAtTop, Moves DEF Reading
  <2>2. macros' = [macros EXCEPT ![m0] = Top] /\ usage' = Put(usage, m0, [used |-> FALSE, at |-> Top])
    BY <1>5 DEF Define, UsageReset
  <2>3. macros'[m0] = Top /\ \A m \in Names : m # m0 => macros'[m] = macros[m] BY <1>2, <2>1, <2>2
  <2>4. /\ DOMAIN usage' = {m0} \cup DOMAIN usage /\ usage'[m0].at = Top /\ ~usage'[m0].used
        /\ \A m \in DOMAIN usage : m # m0 => usage'[m] = usage[m]
    BY <2>2 DEF Put
  <2>5. history'.expanded = history.expanded /\ history'.removed = history.removed BY <1>2, <1>5, Histories DEF Grows
  <2>6. \A m, d : LastDef(m, d)' <=> IF m = m0 THEN d = Top ELSE LastDef(m, d) BY <1>1, <1>5
  <2> HIDE DEF m0
  <2>7. ASSUME NEW m \in Names, NEW d \in Past', macros'[m] = d PROVE LastDef(m, d)'
    BY <1>2, <1>3, <1>4, <2>3, <2>6, <2>7
  <2>8. ASSUME NEW m \in Names, NEW d \in Past', LastDef(m, d)'
        PROVE  /\ m \in DOMAIN usage' /\ usage'[m].at = d
               /\ usage'[m].used <=> d \in history'.expanded \cup history'.removed
               /\ macros'[m] = Nowhere => d \in history'.removed
    <3>1. CASE m = m0
      <4>1. d = Top BY <2>6, <2>8, <3>1
      <4>2. d \notin history'.expanded \cup history'.removed BY <1>2, <2>1, <2>5, <4>1
      <4> QED BY <1>3, <2>1, <2>3, <2>4, <3>1, <4>1, <4>2
    <3>2. CASE m # m0
      <4>1. LastDef(m, d) /\ d \in Past BY <1>1, <2>6, <2>8, <3>2
      <4>2. m \in DOMAIN usage /\ usage'[m] = usage[m] /\ macros'[m] = macros[m] BY <1>4, <2>3, <2>4, <3>2, <4>1
      <4> QED BY <1>4, <2>4, <2>5, <4>1, <4>2
    <3> QED BY <3>1, <3>2
  <2>9. ASSUME NEW m \in DOMAIN usage', NEW d \in Past', usage'[m].at = d PROVE LastDef(m, d)'
    <3>1. CASE m = m0 BY <2>4, <2>6, <2>9, <3>1
    <3>2. CASE m # m0
      <4>1. m \in DOMAIN usage /\ usage'[m] = usage[m] BY <2>4, <3>2
      <4> QED BY <1>2, <1>3, <1>4, <2>6, <2>9, <3>2, <4>1
    <3> QED BY <3>1, <3>2
  <2> QED BY <2>7, <2>8, <2>9 DEF NamesRight
<1>6. CASE ~Define
  <2>1. \A m, d : LastDef(m, d)' <=> LastDef(m, d) BY <1>1, <1>6
  <2> DEFINE Marked(ms, e, r) ==
               /\ ms \subseteq Names /\ usage' = MarkUsed(ms)
               /\ history'.expanded = history.expanded \cup e /\ history'.removed = history.removed \cup r
               /\ \A m \in Names : macros'[m] = macros[m] \/ (m \in ms /\ macros'[m] = Nowhere)
               /\ \A m \in ms : macros[m] # Nowhere => macros[m] \in e \cup r
               /\ \A m \in ms : macros'[m] = Nowhere /\ macros[m] # Nowhere => macros[m] \in r
               /\ \A d \in e \cup r : \E m \in ms : d = macros[m]
  <2>2. ASSUME NEW ms, NEW e, NEW r, Marked(ms, e, r) PROVE NamesRight'
    <3>1. ASSUME NEW m \in Names, NEW d \in Past', macros'[m] = d PROVE LastDef(m, d)'
      BY <1>2, <1>3, <1>4, <2>1, <2>2, <3>1
    <3>2. ASSUME NEW m \in Names, NEW d \in Past', LastDef(m, d)'
          PROVE  /\ m \in DOMAIN usage' /\ usage'[m].at = d
                 /\ usage'[m].used <=> d \in history'.expanded \cup history'.removed
                 /\ macros'[m] = Nowhere => d \in history'.removed
      <4>1. LastDef(m, d) /\ d \in Past /\ LineAt(d).m = m BY <1>1, <2>1, <3>2
      <4>2. m \in DOMAIN usage /\ usage[m].at = d /\ (usage[m].used <=> d \in history.expanded \cup history.removed)
            /\ (macros[m] = Nowhere => d \in history.removed)
        BY <1>4, <4>1
      <4>3. macros[m] = Nowhere \/ macros[m] = d
        <5>1. macros[m] \in Past => LastDef(m, macros[m]) BY <1>4
        <5>2. \A d2 \in Past : LastDef(m, d2) => d2 = d BY <1>4, <4>2
        <5> QED BY <1>2, <5>1, <5>2
      <4>4. m \in DOMAIN usage' /\ usage'[m].at = d /\ (usage'[m].used <=> m \in ms \/ usage[m].used)
        BY <2>2, <4>2 DEF MarkUsed
      <4>5. m \in ms => d \in history'.expanded \cup history'.removed BY <2>2, <4>2, <4>3
      <4>6. d \in e \cup r => m \in ms
        <5> SUFFICES ASSUME d \in e \cup r PROVE m \in ms OBVIOUS
        <5>1. PICK k \in ms : d = macros[k] BY <2>2
        <5>2. LastDef(k, d) BY <1>4, <2>2, <4>1, <5>1
        <5> QED BY <1>1, <4>1, <5>2
      <4>7. usage'[m].used <=> d \in history'.expanded \cup history'.removed BY <2>2, <4>2, <4>4, <4>5, <4>6
      <4>8. macros'[m] = Nowhere => d \in history'.removed BY <2>2, <4>2, <4>3
      <4> QED BY <4>4, <4>7, <4>8
    <3>3. ASSUME NEW m \in DOMAIN usage', NEW d \in Past', usage'[m].at = d PROVE LastDef(m, d)'
      <4>1. usage'[m].at = IF m \in DOMAIN usage THEN usage[m].at ELSE Nowhere BY <2>2 DEF MarkUsed
      <4> QED BY <1>2, <1>3, <1>4, <2>1, <3>3, <4>1
    <3> QED BY <3>1, <3>2, <3>3 DEF NamesRight
  <2>3. CASE Undef
    <3> DEFINE m0 == TopLine.m
               r == {macros[m0]} \ {Nowhere}
    <3>1. m0 \in Names /\ macros' = [macros EXCEPT ![m0] = Nowhere] /\ usage' = MarkUsed({m0})
      BY <2>3, NamedAtTop DEF Undef
    <3>2. history'.expanded = history.expanded \cup {} /\ history'.removed = history.removed \cup r
      BY <1>2, <2>3, Histories DEF Grows
    <3>3. \A m \in Names : macros'[m] = macros[m] \/ (m \in {m0} /\ macros'[m] = Nowhere) BY <1>2, <3>1
    <3>4. \A m \in {m0} : macros[m] # Nowhere => macros[m] \in {} \cup r OBVIOUS
    <3>5. \A m \in {m0} : macros'[m] = Nowhere /\ macros[m] # Nowhere => macros[m] \in r OBVIOUS
    <3>6. \A d \in {} \cup r : \E m \in {m0} : d = macros[m] OBVIOUS
    <3>7. {m0} \subseteq Names BY <3>1
    <3> HIDE DEF m0, r
    <3>8. Marked({m0}, {}, r) BY <3>1, <3>2, <3>3, <3>4, <3>5, <3>6, <3>7
    <3> HIDE DEF Marked
    <3> QED BY <2>2, <3>8
  <2>4. CASE ~Undef
    <3>1. macros' = macros /\ Expanding BY <1>2, <1>6, <2>4, Kept
    <3>2. CASE UsesNone
      <4>1. history'.expanded = history.expanded /\ history'.removed = history.removed /\ usage' = usage
        BY <3>2 DEF UsesNone, Grown, Grows
      <4>2. ASSUME NEW m \in Names, NEW d \in Past', macros[m] = d PROVE d \in Past BY <1>2, <1>3, <4>2
      <4>3. ASSUME NEW m \in DOMAIN usage, NEW d \in Past', usage[m].at = d PROVE d \in Past BY <1>2, <1>3, <4>3
      <4> QED BY <1>1, <1>4, <2>1, <3>1, <4>1, <4>2, <4>3 DEF NamesRight
    <3>3. CASE \E ms : Uses(ms)
      <4>1. PICK ms : Uses(ms) BY <3>3
      <4> DEFINE e == {macros[m] : m \in ms}
      <4>2. /\ ms \subseteq Names /\ usage' = MarkUsed(ms) /\ history'.expanded = history.expanded \cup e
            /\ history'.removed = history.removed \cup {} /\ \A m \in ms : macros[m] # Nowhere
        BY <4>1 DEF Uses, Grows, IsDefined
      <4>3. \A m \in ms : macros[m] \in e BY <4>2
      <4>4. \A d \in e : \E m \in ms : d = macros[m] OBVIOUS
      <4> HIDE DEF e
      <4>5. \A m \in ms : macros'[m] # Nowhere BY <3>1, <4>2
      <4>6. Marked(ms, e, {}) BY <3>1, <4>2, <4>3, <4>4, <4>5
      <4> HIDE DEF Marked
      <4> QED BY <2>2, <4>6
    <3> QED BY <3>1, <3>2, <3>3 DEF Expanding
  <2> QED BY <2>3, <2>4
<1> QED BY <1>5, <1>6

--------------------------------------------------------------------------------
(* The reports on names. *)

Said(c, at, n) == [check |-> c, at |-> at, name |-> n] \in reports
Lasting == {"reserved", "avoid-reserved", "undef", "comment", "splice"}

LEMMA SaidOn ==
  ASSUME UnitsAssumption, FilesOpen, Recorded, [MonitorNext]_monitorVars,
         NEW c \in Lasting, NEW at \in Past \cup {Nowhere}, NEW n
  PROVE  Said(c, at, n)' <=> Said(c, at, n)
<1> DEFINE r == [check |-> c, at |-> at, name |-> n]
<1>1. r.check = c /\ r.at = at OBVIOUS
<1>2. Said(c, at, n) <=> r \in reports BY DEF Said
<1>3. Said(c, at, n)' <=> r \in reports' BY DEF Said
<1> HIDE DEF r
<1>4. CASE Reading
  <2>1. Top # at BY <1>4, Moves, AtTop
  <2>2. \A cs : Adds(cs, Top) => (r \in reports' <=> r \in reports)
    <3> SUFFICES ASSUME NEW cs, Adds(cs, Top), r \in reports', r \notin reports PROVE FALSE BY DEF Adds
    <3>1. r = [check |-> r.check, at |-> Top, name |-> r.name] BY DEF Adds, SaidAt
    <3> QED BY <1>1, <2>1, <3>1
  <2>3. (\E cs : Adds(cs, Top)) \/ Skip \/ Once \/ Include \/ Declare BY <1>4, Reporting DEF Reading
  <2> QED BY <1>2, <1>3, <2>2, <2>3, Reporting
<1>5. CASE EndOfFile \/ EndOfTranslationUnit \/ UNCHANGED monitorVars BY <1>2, <1>3, <1>5, Reporting
<1>6. CASE Match
  <2>1. Adds({"conflict"}, Head(decls)) BY <1>6, Reporting
  <2> QED BY <1>1, <1>2, <1>3, <2>1 DEF Adds, SaidAt, Lasting
<1>7. CASE EndOfMainFile
  <2>1. reports' = reports \cup Unused \cup UNION {Say("guard", Nowhere, f, TRUE) : f \in Unguarded} BY <1>7 DEF EndOfMainFile
  <2>2. \A u \in Unused : u.check = "unused" BY DEF Unused, Say
  <2>3. \A u \in UNION {Say("guard", Nowhere, f, TRUE) : f \in Unguarded} : u.check = "guard" BY DEF Say
  <2> QED BY <1>1, <1>2, <1>3, <2>1, <2>2, <2>3 DEF Lasting
<1> QED BY <1>4, <1>5, <1>6, <1>7, Moves DEF Resting

\* Both checks of reserved names say the same of a name both know.
ReservedRight ==
  \A n : /\ \A at \in Past :
              /\ Said("reserved", at, n) /\ n \in StandardNames => Said("avoid-reserved", at, n)
              /\ Said("avoid-reserved", at, n) =>
                   Said("reserved", at, n) \/ (InSystem(at) /\ LineAt(at).d = "undef" /\ ~Said("undef", at, n))
         /\ ~Said("reserved", Nowhere, n) /\ ~Said("avoid-reserved", Nowhere, n)

LEMMA ReservedOn ==
  ASSUME UnitsAssumption, FilesOpen, Recorded, ReservedRight, [MonitorNext]_monitorVars
  PROVE  ReservedRight'
<1> SUFFICES ASSUME NEW n
             PROVE  /\ \A at \in Past' :
                         /\ Said("reserved", at, n)' /\ n \in StandardNames => Said("avoid-reserved", at, n)'
                         /\ Said("avoid-reserved", at, n)' =>
                              Said("reserved", at, n)' \/ (InSystem(at)' /\ LineAt(at)'.d = "undef" /\ ~Said("undef", at, n)')
                    /\ ~Said("reserved", Nowhere, n)' /\ ~Said("avoid-reserved", Nowhere, n)'
  BY DEF ReservedRight
<1>1. ASSUME NEW c \in {"reserved", "avoid-reserved", "undef"}, NEW at \in Past \cup {Nowhere}
      PROVE  Said(c, at, n)' <=> Said(c, at, n)
  BY SaidOn DEF Lasting
<1>2. ~Said("reserved", Nowhere, n)' /\ ~Said("avoid-reserved", Nowhere, n)' BY <1>1 DEF ReservedRight
<1>3. ASSUME NEW at \in Past
      PROVE  /\ Said("reserved", at, n)' /\ n \in StandardNames => Said("avoid-reserved", at, n)'
             /\ Said("avoid-reserved", at, n)' =>
                  Said("reserved", at, n)' \/ (InSystem(at)' /\ LineAt(at)'.d = "undef" /\ ~Said("undef", at, n)')
  <2>1. (InSystem(at)' <=> InSystem(at)) /\ LineAt(at)' = LineAt(at) BY Moves DEF Same
  <2> QED BY <1>1, <2>1 DEF ReservedRight
<1>4. ASSUME NEW at \in Past', at \notin Past
      PROVE  /\ Said("reserved", at, n)' /\ n \in StandardNames => Said("avoid-reserved", at, n)'
             /\ Said("avoid-reserved", at, n)' =>
                  Said("reserved", at, n)' \/ (InSystem(at)' /\ LineAt(at)'.d = "undef" /\ ~Said("undef", at, n)')
  <2>1. Reading /\ at = Top /\ Top # Nowhere /\ at \notin Past \cup {Nowhere} BY <1>4, Moves, AtTop
  <2>2. (InSystem(at)' <=> InSystem(Top)) /\ LineAt(at)' = TopLine BY <2>1, Moves DEF Same, TopLine
  <2>3. \A c : ~Said(c, at, n)
    <3> SUFFICES ASSUME NEW c, Said(c, at, n) PROVE FALSE OBVIOUS
    <3> DEFINE r == [check |-> c, at |-> at, name |-> n]
    <3>1. r \in reports /\ r.at = at BY DEF Said
    <3> HIDE DEF r
    <3> QED BY <2>1, <3>1 DEF Recorded
  <2>4. CASE ~Define /\ ~Undef
    <3>1. ASSUME NEW c \in {"reserved", "avoid-reserved"}, Said(c, at, n)' PROVE FALSE
      <4> DEFINE r == [check |-> c, at |-> at, name |-> n]
      <4>1. r \in reports' /\ r \notin reports /\ r.check = c BY <2>3, <3>1 DEF Said
      <4> HIDE DEF r
      <4>2. ASSUME NEW cs, Adds(cs, Top) PROVE c \in cs BY <4>1, <4>2 DEF Adds, SaidAt
      <4>3. \/ Adds(Other, Top) \/ Adds(Other \cup {"cross-file"}, Top) \/ Adds({"cross-file"}, Top)
            \/ Adds({"comment", "splice"}, Top) \/ reports' = reports
        BY <2>1, <2>4, Reporting DEF Reading
      <4>4. c \notin Other \cup {"cross-file", "comment", "splice"} BY DEF Other
      <4> QED BY <4>1, <4>2, <4>3, <4>4
    <3> QED BY <3>1
  <2>5. CASE Define \/ Undef
    <3> DEFINE r(c) == [check |-> c, at |-> Top, name |-> n]
    <3>1. \A c : (Said(c, at, n)' <=> r(c) \in reports') /\ r(c) \notin reports BY <2>1, <2>3 DEF Said
    <3>2. \A c : r(c).check = c /\ r(c).at = Top /\ r(c).name = n OBVIOUS
    <3>3. \A S, cs, c : SaidAt(S, Top, cs) /\ c \notin cs => r(c) \notin S BY <3>2 DEF SaidAt
    <3>4. \A c, b, when : r(b) \in Say(c, Top, TopLine.m, when) <=> when /\ b = c /\ n = TopLine.m
      BY <3>2 DEF Say
    <3> HIDE DEF r
    <3>5. r("reserved") \in ReservedIdentifier(Top, TopLine.m) <=>
            ~InSystem(Top) /\ TopLine.m \in StandardNames \cup NewNames /\ n = TopLine.m
      BY <3>4 DEF ReservedIdentifier
    <3>6. CASE Define
      <4>1. reports' = reports \cup Parentheses(Top, TopLine) \cup HashOperator(Top, TopLine) \cup MultipleHash(Top, TopLine)
                        \cup NamedAsKeyword(Top, TopLine.m) \cup ReservedIdentifier(Top, TopLine.m)
                        \cup AvoidReservedDefine(Top, TopLine.m)
        BY <3>6 DEF Define
      <4>2. SaidAt(Parentheses(Top, TopLine), Top, Other) /\ SaidAt(HashOperator(Top, TopLine), Top, Other)
            /\ SaidAt(MultipleHash(Top, TopLine), Top, Other) /\ SaidAt(NamedAsKeyword(Top, TopLine.m), Top, Other)
        BY OthersSaid
      <4>3. "reserved" \notin Other /\ "avoid-reserved" \notin Other BY DEF Other
      <4>4. r("avoid-reserved") \in AvoidReservedDefine(Top, TopLine.m) <=>
              ~InSystem(Top) /\ TopLine.m \in StandardNames /\ n = TopLine.m
        BY <3>4 DEF AvoidReservedDefine
      <4>5. r("avoid-reserved") \notin ReservedIdentifier(Top, TopLine.m) /\ r("reserved") \notin AvoidReservedDefine(Top, TopLine.m)
        BY <3>4 DEF AvoidReservedDefine, ReservedIdentifier
      <4>6. r("reserved") \in reports' <=> r("reserved") \in ReservedIdentifier(Top, TopLine.m)
        BY <3>1, <3>3, <4>1, <4>2, <4>3, <4>5
      <4>7. r("avoid-reserved") \in reports' <=> r("avoid-reserved") \in AvoidReservedDefine(Top, TopLine.m)
        BY <3>1, <3>3, <4>1, <4>2, <4>3, <4>5
      <4> QED BY <3>1, <3>5, <4>4, <4>6, <4>7
    <3>7. CASE Undef
      <4>1. reports' = reports \cup AvoidUndef(Top, TopLine.m) \cup ReservedIdentifier(Top, TopLine.m)
                        \cup AvoidReservedUndef(Top, TopLine.m)
        BY <3>7 DEF Undef
      <4>2. r("reserved") \in reports' <=> r("reserved") \in ReservedIdentifier(Top, TopLine.m)
        BY <3>1, <3>4, <4>1 DEF AvoidUndef, AvoidReservedUndef
      <4>3. r("avoid-reserved") \in reports' <=>
              ~(IsDefined(TopLine.m) /\ InSystem(Top)) /\ TopLine.m \in StandardNames /\ n = TopLine.m
        BY <3>1, <3>4, <4>1 DEF AvoidUndef, AvoidReservedUndef, ReservedIdentifier
      <4>4. r("undef") \in reports' <=> IsDefined(TopLine.m) /\ n = TopLine.m
        BY <3>1, <3>4, <4>1 DEF AvoidUndef, AvoidReservedUndef, ReservedIdentifier
      <4>5. TopLine.d = "undef" BY <3>7 DEF Undef, At
      <4> QED BY <2>2, <3>1, <3>5, <4>2, <4>3, <4>4, <4>5
    <3> QED BY <2>5, <3>6, <3>7
  <2> QED BY <2>4, <2>5
<1> QED BY <1>2, <1>3, <1>4

\* A macro is reported at the end of the main file; a declaration when it is matched.
UserNames == {LineAt(d).m : d \in {d \in Range(history.defs) : ~InSystem(d)}}
VerdictsRight ==
  /\ Reported("unused") = IF phase = "lex" THEN {} ELSE Unused
  /\ phase # "done" => DOMAIN macroNames = UserNames
  /\ phase = "lex" => history.declared \subseteq Range(decls) /\ Reported("conflict") = {}
  /\ \A r \in Reported("conflict") : r.at \in history.declared /\ ~InSystem(r.at) /\ LineAt(r.at).m \in UserNames
  /\ \A d \in history.declared : ~InSystem(d) /\ LineAt(d).m \in UserNames =>
       d \in Range(decls) \/ \E r \in Reported("conflict") : r.at = d
  /\ phase = "done" => decls = <<>>

LEMMA UserNamesOn ==
  ASSUME UnitsAssumption, FilesOpen, Recorded, [MonitorNext]_monitorVars
  PROVE  UserNames' = IF Define /\ ~InSystem(Top) THEN UserNames \cup {TopLine.m} ELSE UserNames
<1> DEFINE D == history.defs
<1>1. D \in Seq(Named) /\ Named \subseteq Past /\ HistoryShape BY DEF Recorded, Named
<1>2. Range(D) \subseteq Past
  <2>1. \A i \in DOMAIN D : D[i] \in Named BY <1>1, ElementOfSeq
  <2> QED BY <1>1, <2>1 DEF Range
<1>3. \A at \in Past : LineAt(at)' = LineAt(at) /\ (InSystem(at)' <=> InSystem(at)) BY Moves DEF Same
<1> DEFINE User(S) == {d \in S : ~InSystem(d)}
<1>4. CASE ~Define
  <2>1. history'.defs = D BY <1>1, <1>4, Kept
  <2>2. UserNames' = {LineAt(d)'.m : d \in {d \in Range(D) : ~InSystem(d)'}} BY <2>1 DEF UserNames, Range
  <2>3. {d \in Range(D) : ~InSystem(d)'} = {d \in Range(D) : ~InSystem(d)} BY <1>2, <1>3
  <2> QED BY <1>2, <1>3, <1>4, <2>2, <2>3 DEF UserNames
<1>5. CASE Define
  <2>1. history'.defs = Append(D, Top) BY <1>1, <1>5, Histories DEF Grows
  <2>2. Range(Append(D, Top)) = Range(D) \cup {Top}
    <3>1. Len(D) \in Nat /\ DOMAIN D = 1 .. Len(D) BY <1>1
    <3>2. /\ DOMAIN Append(D, Top) = 1 .. Len(D) + 1 /\ Append(D, Top)[Len(D) + 1] = Top
          /\ \A i \in 1 .. Len(D) : Append(D, Top)[i] = D[i]
      BY <1>1
    <3>3. \A i \in 1 .. Len(D) + 1 : i \in 1 .. Len(D) \/ i = Len(D) + 1 BY <3>1
    <3>4. \A i \in 1 .. Len(D) : i \in 1 .. Len(D) + 1 BY <3>1
    <3>5. Len(D) + 1 \in 1 .. Len(D) + 1 BY <3>1
    <3> QED BY <3>1, <3>2, <3>3, <3>4, <3>5 DEF Range
  <2>3. UserNames' = {LineAt(d)'.m : d \in {d \in Range(D) \cup {Top} : ~InSystem(d)'}} BY <2>1, <2>2 DEF UserNames, Range
  <2>4. PICK top \in Past' : top = Top BY <1>5, Moves DEF Reading
  <2>5. LineAt(top)' = TopLine /\ (InSystem(top)' <=> InSystem(Top)) BY <1>5, <2>4, Moves DEF Same, Reading, TopLine
  <2>6. UserNames' = {LineAt(d)'.m : d \in {d \in Range(D) : ~InSystem(d)'}} \cup {LineAt(d)'.m : d \in {d \in {top} : ~InSystem(d)'}}
    BY <2>3, <2>4
  <2>7. {LineAt(d)'.m : d \in {d \in Range(D) : ~InSystem(d)'}} = UserNames
    <3>1. {d \in Range(D) : ~InSystem(d)'} = {d \in Range(D) : ~InSystem(d)} BY <1>2, <1>3
    <3> QED BY <1>2, <1>3, <3>1 DEF UserNames
  <2>8. {LineAt(d)'.m : d \in {d \in {top} : ~InSystem(d)'}} = IF InSystem(Top) THEN {} ELSE {TopLine.m} BY <2>5
  <2> QED BY <1>5, <2>6, <2>7, <2>8
<1> QED BY <1>4, <1>5

\* Reports of a check come from its own steps.
LEMMA Silent ==
  ASSUME UnitsAssumption, FilesOpen, [MonitorNext]_monitorVars
  PROVE  /\ ~EndOfMainFile => Reported("unused")' = Reported("unused") /\ Reported("guard")' = Reported("guard")
         /\ ~Match => Reported("conflict")' = Reported("conflict")
<1>1. CASE ~EndOfMainFile
  <2>1. \/ Adds(Other \cup {"reserved", "avoid-reserved"}, Top) \/ Adds({"undef", "reserved", "avoid-reserved"}, Top)
        \/ Adds(Other, Top) \/ Adds(Other \cup {"cross-file"}, Top) \/ Adds({"cross-file"}, Top)
        \/ Adds({"comment", "splice"}, Top) \/ reports' = reports \/ (Match /\ Adds({"conflict"}, Head(decls)))
    BY <1>1, Reporting, Moves DEF Reading, Resting
  <2>2. ASSUME NEW cs, NEW c, NEW at, Adds(cs, at), c \notin cs PROVE Reported(c)' = Reported(c)
    <3>1. \A r \in reports' : r.check = c => r \in reports BY <2>2 DEF Adds, SaidAt
    <3>2. reports \subseteq reports' BY <2>2 DEF Adds
    <3> QED BY <3>1, <3>2 DEF Reported
  <2>3. "unused" \notin Other /\ "guard" \notin Other /\ "conflict" \notin Other BY DEF Other
  <2>4. reports' = reports => \A c : Reported(c)' = Reported(c) BY DEF Reported
  <2> QED BY <1>1, <2>1, <2>2, <2>3, <2>4
<1>2. CASE EndOfMainFile
  <2>1. reports' = reports \cup Unused \cup UNION {Say("guard", Nowhere, f, TRUE) : f \in Unguarded} BY <1>2 DEF EndOfMainFile
  <2>2. \A u \in Unused : u.check = "unused" BY DEF Unused, Say
  <2>3. \A u \in UNION {Say("guard", Nowhere, f, TRUE) : f \in Unguarded} : u.check = "guard" BY DEF Say
  <2>4. \A r \in reports' : r.check = "conflict" => r \in reports BY <2>1, <2>2, <2>3
  <2> QED BY <1>2, <2>1, <2>4 DEF Reported
<1> QED BY <1>1, <1>2

LEMMA VerdictsOn ==
  ASSUME UnitsAssumption, FilesOpen, Recorded, VerdictsRight, [MonitorNext]_monitorVars
  PROVE  VerdictsRight'
<1>1. /\ \A at \in Past : LineAt(at)' = LineAt(at) /\ (InSystem(at)' <=> InSystem(at))
      /\ history.declared \subseteq Past /\ decls \in Seq(history.declared) /\ HistoryShape
  BY Moves DEF Same, Recorded
<1>2. CASE Reading
  <2>1. phase = "lex" /\ phase' = "lex" /\ open # <<>> BY <1>2, Moves
  <2>2. ~EndOfMainFile /\ ~Match /\ ~EndOfTranslationUnit BY <2>1 DEF EndOfMainFile, Match, EndOfTranslationUnit
  <2>3. Reported("unused")' = {} /\ Reported("conflict")' = {} BY <2>1, <2>2, Silent DEF VerdictsRight
  <2>4. DOMAIN macroNames' = UserNames'
    <3>1. DOMAIN macroNames = UserNames BY <2>1 DEF VerdictsRight
    <3>2. CASE Define
      <4>1. macroNames' = IF InSystem(Top) THEN macroNames ELSE Put(macroNames, TopLine.m, Top) BY <3>2 DEF Define, AddMacro
      <4>2. DOMAIN Put(macroNames, TopLine.m, Top) = {TopLine.m} \cup DOMAIN macroNames BY DEF Put
      <4> QED BY <3>1, <3>2, <4>1, <4>2, UserNamesOn
    <3>3. CASE ~Define
      <4>1. macroNames' = macroNames
        BY <1>2, <3>3 DEF Reading, Undef, If, Elif, Else, Endif, Skip, Comment, Once, Include, Use, Declare
      <4> QED BY <3>1, <3>3, <4>1, UserNamesOn
    <3> QED BY <3>2, <3>3
  <2>5. history'.declared \subseteq Range(decls)'
    <3>1. history.declared \subseteq Range(decls) BY <2>1 DEF VerdictsRight
    <3>2. CASE ~Declare
      <4>1. history'.declared = history.declared /\ decls' = decls BY <1>1, <2>2, <3>2, Kept
      <4> QED BY <3>1, <4>1 DEF Range
    <3>3. CASE Declare
      <4>1. history'.declared = history.declared \cup {Top} /\ decls' = Append(decls, Top) BY <1>1, <3>3, Histories DEF Declare
      <4>2. Len(decls) \in Nat /\ DOMAIN decls = 1 .. Len(decls) BY <1>1
      <4>3. /\ DOMAIN decls' = 1 .. Len(decls) + 1 /\ decls'[Len(decls) + 1] = Top
            /\ \A i \in 1 .. Len(decls) : decls'[i] = decls[i] /\ i \in 1 .. Len(decls) + 1
        BY <1>1, <4>1, <4>2
      <4>4. Range(decls)' = {decls'[i] : i \in DOMAIN decls'} /\ Range(decls) = {decls[i] : i \in DOMAIN decls} BY DEF Range
      <4>5. Len(decls) + 1 \in DOMAIN decls' BY <4>2, <4>3
      <4> QED BY <3>1, <4>1, <4>2, <4>3, <4>4, <4>5
    <3> QED BY <3>2, <3>3
  <2> QED BY <2>1, <2>3, <2>4, <2>5 DEF VerdictsRight
<1>3. CASE ~Reading
  <2>1. Resting /\ ~Define /\ ~Declare BY <1>3, Moves DEF Reading
  <2>2. UserNames' = UserNames /\ history'.declared = history.declared BY <1>1, <2>1, UserNamesOn, Kept
  <2>3. /\ \A r \in Reported("conflict") : r.at \in history.declared /\ ~InSystem(r.at)' /\ LineAt(r.at)'.m \in UserNames'
        /\ \A d \in history'.declared : ~InSystem(d)' /\ LineAt(d)'.m \in UserNames' =>
             d \in Range(decls) \/ \E r \in Reported("conflict") : r.at = d
    BY <1>1, <2>2 DEF VerdictsRight
  <2>4. CASE EndOfFile \/ UNCHANGED monitorVars
    <3>1. /\ UNCHANGED <<phase, usage, macroNames, decls, reports>>
      BY <2>4 DEF EndOfFile, monitorVars, pp, checks
    <3>2. (Unused = Unused') /\ \A c : Reported(c)' = Reported(c) BY <3>1 DEF Unused, Reported
    <3> QED BY <2>2, <2>3, <3>1, <3>2 DEF VerdictsRight, Range
  <2>5. CASE EndOfMainFile
    <3>1. /\ phase = "lex" /\ phase' = "match" /\ UNCHANGED <<usage, macroNames, decls>>
          /\ reports' = reports \cup Unused \cup UNION {Say("guard", Nowhere, f, TRUE) : f \in Unguarded}
      BY <2>5 DEF EndOfMainFile
    <3>2. ~Match BY <3>1 DEF Match
    <3>3. Reported("conflict")' = Reported("conflict") BY <3>2, Silent
    <3>4. Reported("unused")' = Unused
      <4>1. \A u \in Unused : u.check = "unused" BY DEF Unused, Say
      <4>2. \A u \in UNION {Say("guard", Nowhere, f, TRUE) : f \in Unguarded} : u.check = "guard" BY DEF Say
      <4>3. Reported("unused") = {} BY <3>1 DEF VerdictsRight
      <4> QED BY <3>1, <4>1, <4>2, <4>3 DEF Reported
    <3>5. Unused' = Unused BY <3>1 DEF Unused
    <3> QED BY <2>2, <2>3, <3>1, <3>3, <3>4, <3>5 DEF VerdictsRight, Range
  <2>6. CASE Match
    <3>1. /\ phase = "match" /\ decls # <<>> /\ UNCHANGED <<phase, usage, macroNames>> /\ decls' = Tail(decls)
          /\ reports' = reports \cup Conflict(Head(decls))
      BY <2>6 DEF Match
    <3>2. ~EndOfMainFile BY <3>1 DEF EndOfMainFile
    <3>3. Reported("unused")' = Reported("unused") /\ Unused' = Unused BY <3>1, <3>2, Silent DEF Unused
    <3> DEFINE h == Head(decls)
    <3>4. h \in history.declared /\ Range(decls) = {h} \cup Range(decls)'
      <4>1. Len(decls) \in Nat \ {0} /\ DOMAIN decls = 1 .. Len(decls) /\ h = decls[1] BY <1>1, <3>1
      <4>2. DOMAIN decls' = 1 .. Len(decls) - 1 /\ \A i \in 1 .. Len(decls) - 1 : decls'[i] = decls[i + 1] BY <1>1, <3>1, <4>1
      <4>3. Range(decls)' = {decls'[i] : i \in DOMAIN decls'} /\ Range(decls) = {decls[i] : i \in DOMAIN decls} BY DEF Range
      <4>4. \A i \in 1 .. Len(decls) : i = 1 \/ (i - 1 \in 1 .. Len(decls) - 1 /\ i - 1 + 1 = i) BY <4>1
      <4>5. \A i \in 1 .. Len(decls) - 1 : i + 1 \in 1 .. Len(decls) BY <4>1
      <4>6. 1 \in 1 .. Len(decls) BY <4>1
      <4>7. h \in history.declared BY <1>1, <4>1, <4>6, ElementOfSeq
      <4>8. Range(decls) \subseteq {h} \cup Range(decls)'
        <5> SUFFICES ASSUME NEW i \in DOMAIN decls PROVE decls[i] \in {h} \cup Range(decls)' BY <4>3
        <5>1. CASE i = 1 BY <4>1, <5>1
        <5>2. CASE i # 1
          <6>1. i - 1 \in DOMAIN decls' /\ decls'[i - 1] = decls[i] BY <4>1, <4>2, <4>4, <5>2
          <6> QED BY <4>3, <6>1
        <5> QED BY <5>1, <5>2
      <4>9. {h} \cup Range(decls)' \subseteq Range(decls) BY <4>1, <4>2, <4>3, <4>5, <4>6
      <4> QED BY <4>7, <4>8, <4>9
    <3>5. DOMAIN macroNames = UserNames BY <3>1 DEF VerdictsRight
    <3>6. Reported("conflict")' = Reported("conflict") \cup Conflict(h)
      <4>1. \A r \in Conflict(h) : r.check = "conflict" BY DEF Conflict, Say
      <4> QED BY <3>1, <4>1 DEF Reported
    <3>7. Conflict(h) = IF ~InSystem(h) /\ LineAt(h).m \in UserNames
                        THEN {[check |-> "conflict", at |-> h, name |-> LineAt(h).m]} ELSE {}
      BY <3>5 DEF Conflict, Say
    <3>8. ASSUME NEW r \in Reported("conflict")'
          PROVE  r.at \in history'.declared /\ ~InSystem(r.at)' /\ LineAt(r.at)'.m \in UserNames'
      <4>1. CASE r \in Reported("conflict") BY <2>2, <2>3, <4>1
      <4>2. CASE r \in Conflict(h)
        <5>1. PICK at \in history.declared : at = h BY <3>4
        <5>2. r.at = at /\ ~InSystem(at) /\ LineAt(at).m \in UserNames BY <3>7, <4>2, <5>1
        <5>3. ~InSystem(at)' /\ LineAt(at)'.m \in UserNames' BY <1>1, <2>2, <5>2
        <5> QED BY <2>2, <5>2, <5>3
      <4> QED BY <3>6, <4>1, <4>2
    <3>9. ASSUME NEW d \in history'.declared, ~InSystem(d)', LineAt(d)'.m \in UserNames'
          PROVE  d \in Range(decls)' \/ \E r \in Reported("conflict")' : r.at = d
      <4>1. d \in Range(decls) \/ \E r \in Reported("conflict") : r.at = d BY <2>3, <3>9
      <4>2. CASE d = h
        <5>1. ~InSystem(h) /\ LineAt(h).m \in UserNames
          <6>1. ~InSystem(d) /\ LineAt(d).m \in UserNames BY <1>1, <2>2, <3>9
          <6> QED BY <4>2, <6>1
        <5> DEFINE r == [check |-> "conflict", at |-> h, name |-> LineAt(h).m]
        <5>2. r \in Reported("conflict")' /\ r.at = h BY <3>6, <3>7, <5>1
        <5> HIDE DEF r
        <5> QED BY <4>2, <5>2
      <4>3. CASE d # h BY <3>4, <3>6, <4>1, <4>3
      <4> QED BY <4>2, <4>3
    <3> QED BY <2>2, <3>1, <3>3, <3>5, <3>8, <3>9 DEF VerdictsRight
  <2>7. CASE EndOfTranslationUnit
    <3>1. phase = "match" /\ phase' = "done" /\ decls = <<>> /\ UNCHANGED <<usage, decls, reports>>
      BY <2>7 DEF EndOfTranslationUnit
    <3>2. (Unused = Unused') /\ \A c : Reported(c)' = Reported(c) BY <3>1 DEF Unused, Reported
    <3> QED BY <2>2, <2>3, <3>1, <3>2 DEF VerdictsRight, Range
  <2> QED BY <2>1, <2>4, <2>5, <2>6, <2>7 DEF Resting
<1> QED BY <1>2, <1>3

--------------------------------------------------------------------------------
(* The files that are nothing but comments. *)

OnlyComments(f) == \A i \in DOMAIN text[f] : text[f][i].d = "comment"
CommentsRight ==
  /\ open # <<>> /\ OnlyComments(FileOf(Top)) => Live
  /\ \A k \in DOMAIN open : k < Len(open) => ~OnlyComments(FileOf(open[k]))
  /\ \A at \in Past : OnlyComments(FileOf(at)) =>
       \A n : /\ Said("comment", at, n) <=> n \in WithinComment(LineAt(at).t)
              /\ Said("splice", at, n) <=> n \in Splices(LineAt(at).t)

\* The files that are open stay open, but for the innermost at its end.
LEMMA OpenOn ==
  ASSUME UnitsAssumption, FilesOpen, [MonitorNext]_monitorVars
  PROVE  /\ Len(open) \in Nat /\ DOMAIN open = 1 .. Len(open) /\ Len(open') \in Nat /\ DOMAIN open' = 1 .. Len(open')
         /\ Reading => /\ Len(open) \in DOMAIN open /\ (Len(open') = Len(open) \/ Len(open') = Len(open) + 1)
                       /\ ~Include => Len(open') = Len(open)
                       /\ \A k \in DOMAIN open : open'[k].fid = open[k].fid
         /\ EndOfFile => /\ open # <<>> /\ Len(open') = Len(open) - 1 /\ \A k \in DOMAIN open' : open'[k] = open[k]
         /\ ~Reading /\ ~EndOfFile => open' = open /\ conds' = conds
         /\ \A i \in DOMAIN entered : i \in DOMAIN entered' /\ entered'[i] = entered[i]
<1>1. FilesOpen' BY Moves
<1>2. /\ Len(open) \in Nat /\ DOMAIN open = 1 .. Len(open) /\ Len(open') \in Nat /\ DOMAIN open' = 1 .. Len(open')
      /\ open \in Seq([fid : Nat \ {0}, pos : Nat \ {0}])
  BY <1>1 DEF FilesOpen
<1>3. ASSUME Reading
      PROVE  /\ Len(open) \in DOMAIN open /\ (Len(open') = Len(open) \/ Len(open') = Len(open) + 1)
             /\ ~Include => Len(open') = Len(open)
             /\ \A k \in DOMAIN open : open'[k].fid = open[k].fid
  <2>1. Reads /\ open # <<>> BY <1>3, Steps DEF Reads
  <2>2. Len(open) \in DOMAIN open BY <2>1, AtTop
  <2>3. Len(PastTop) = Len(open) /\ \A k \in DOMAIN open : PastTop[k].fid = open[k].fid BY <2>1, PastTopIs
  <2>4. PastTop \in Seq([fid : Nat \ {0}, pos : Nat \ {0}]) BY <2>1, PastTopIs
  <2>5. ~Include => Advance
    BY <1>3 DEF Reading, Define, Undef, If, Elif, Else, Endif, Skip, Comment, Once, Use, Declare
  <2>6. Advance => open' = PastTop BY DEF Advance, PastTop
  <2>7. Advance \/ \E f \in DOMAIN text : open' = Append(PastTop, EntryOf(f)) BY <2>1 DEF Reads, Entering, PastTop
  <2>8. ASSUME NEW f, open' = Append(PastTop, EntryOf(f))
        PROVE  Len(open') = Len(open) + 1 /\ \A k \in DOMAIN open : open'[k] = PastTop[k]
    <3>1. EntryOf(f) \in [fid : Nat \ {0}, pos : Nat \ {0}] BY UnitLines DEF EntryOf
    <3>2. Len(Append(PastTop, EntryOf(f))) = Len(PastTop) + 1 /\ \A k \in 1 .. Len(PastTop) : Append(PastTop, EntryOf(f))[k] = PastTop[k]
      BY <2>4, <3>1, AppendProperties
    <3> QED BY <1>2, <2>3, <2>8, <3>2
  <2> QED BY <1>2, <2>2, <2>3, <2>5, <2>6, <2>7, <2>8
<1>4. ASSUME EndOfFile PROVE open # <<>> /\ Len(open') = Len(open) - 1 /\ \A k \in DOMAIN open' : open'[k] = open[k]
  <2>1. open # <<>> /\ open' = SubSeq(open, 1, Len(open) - 1) BY <1>4 DEF EndOfFile, Front
  <2> QED BY <1>2, <2>1
<1>5. ~Reading /\ ~EndOfFile => open' = open /\ conds' = conds
  BY Moves DEF Resting, EndOfMainFile, Match, EndOfTranslationUnit, monitorVars, pp
<1> QED BY <1>2, <1>3, <1>4, <1>5, Moves

LEMMA CommentsOn ==
  ASSUME UnitsAssumption, FilesOpen, Recorded, CommentsRight, [MonitorNext]_monitorVars
  PROVE  CommentsRight'
<1>1. /\ FilesOpen' /\ text' = text
      /\ Reading => /\ open # <<>> /\ ~AtEnd /\ Past' = Past \cup {Top} /\ Top \notin Past
      /\ ~Reading => Resting /\ Past' = Past
      /\ \A at \in Past' : Reading => FileOf(at)' = FileOf(at) /\ LineAt(at)' = LineAt(at)
      /\ \A at \in Past : FileOf(at)' = FileOf(at) /\ LineAt(at)' = LineAt(at)
  BY Moves DEF Same
<1>2. /\ Len(open) \in Nat /\ DOMAIN open = 1 .. Len(open) /\ Len(open') \in Nat /\ DOMAIN open' = 1 .. Len(open')
      /\ Reading => /\ Len(open) \in DOMAIN open /\ (Len(open') = Len(open) \/ Len(open') = Len(open) + 1)
                    /\ ~Include => Len(open') = Len(open)
                    /\ \A k \in DOMAIN open : open'[k].fid = open[k].fid
      /\ EndOfFile => open # <<>> /\ Len(open') = Len(open) - 1 /\ \A k \in DOMAIN open' : open'[k] = open[k]
      /\ ~Reading /\ ~EndOfFile => open' = open /\ conds' = conds
  BY OpenOn
<1>3. \A k \in DOMAIN open : FileOf(open[k]) = entered[open[k].fid] /\ entered'[open[k].fid] = entered[open[k].fid]
  BY OpenOn DEF FileOf, FilesOpen
<1>4. /\ open # <<>> /\ OnlyComments(FileOf(Top)) => Live
      /\ \A k \in DOMAIN open : k < Len(open) => ~OnlyComments(FileOf(open[k]))
  BY DEF CommentsRight
<1>5. \A f : OnlyComments(f)' <=> OnlyComments(f) BY <1>1 DEF OnlyComments
<1>6. Top = open[Len(open)] /\ Top' = open'[Len(open')] BY DEF Top, Last
<1>7. Reading /\ OnlyComments(FileOf(Top)) => Comment
  <2> SUFFICES ASSUME Reading, OnlyComments(FileOf(Top)) PROVE Comment OBVIOUS
  <2>1. Top.pos \in DOMAIN text[FileOf(Top)] BY <1>1, AtTop
  <2>2. TopLine.d = "comment" BY <2>1 DEF OnlyComments, TopLine, LineAt
  <2>3. Live BY <1>1, <1>4
  <2> QED BY <2>2, <2>3 DEF Reading, Define, Undef, If, Elif, Else, Endif, Skip, Comment, Once, Include, Use, Declare, At
<1>8. Include => ~OnlyComments(FileOf(Top))
  <2> SUFFICES ASSUME Include, OnlyComments(FileOf(Top)) PROVE FALSE OBVIOUS
  <2>1. Comment BY <1>7 DEF Reading
  <2> QED BY <2>1 DEF Include, Comment, At
<1>9. (open # <<>> /\ OnlyComments(FileOf(Top)) => Live)'
  <2> SUFFICES ASSUME open' # <<>>, OnlyComments(FileOf(Top))' PROVE Live' OBVIOUS
  <2>1. Include => Live' BY DEF Include, Live
  <2>2. conds' = conds => (Live' <=> Live) BY DEF Live
  <2>3. CASE Reading /\ ~Include
    <3>1. FileOf(Top)' = FileOf(Top)
      <4>1. Len(open) \in DOMAIN open BY <1>2, <2>3
      <4>2. FileOf(Top)' = entered'[Top'.fid] /\ Top'.fid = Top.fid BY <1>2, <1>6, <2>3, <4>1 DEF FileOf
      <4> QED BY <1>3, <1>6, <4>1, <4>2
    <3>2. OnlyComments(FileOf(Top)) BY <1>1, <3>1 DEF OnlyComments
    <3>3. Comment BY <1>7, <2>3, <3>2
    <3>4. conds' = conds BY <3>3 DEF Comment
    <3> QED BY <1>1, <1>4, <2>2, <2>3, <3>2, <3>4
  <2>4. CASE EndOfFile
    <3>1. Len(open') \in DOMAIN open' /\ Len(open') \in DOMAIN open /\ Len(open') < Len(open)
      <4>1. open' \in Seq([fid : Nat \ {0}, pos : Nat \ {0}]) BY <1>1 DEF FilesOpen
      <4>2. Len(open') # 0 BY <4>1, EmptySeq
      <4>3. Len(open) \in Nat /\ Len(open') \in Nat /\ Len(open') = Len(open) - 1 BY <1>2, <2>4
      <4>4. Len(open') \in 1 .. Len(open') /\ Len(open') \in 1 .. Len(open) /\ Len(open') < Len(open) BY <4>2, <4>3
      <4> QED BY <1>2, <4>4
    <3>2. PICK k \in DOMAIN open : k = Len(open') BY <3>1
    <3>3. open'[k] = open[k] BY <1>2, <2>4, <3>1, <3>2
    <3>4. FileOf(Top)' = FileOf(open[k]) BY <1>3, <1>6, <3>2, <3>3 DEF FileOf
    <3>5. OnlyComments(FileOf(open[k])) BY <1>1, <3>4 DEF OnlyComments
    <3> QED BY <1>4, <3>1, <3>2, <3>5
  <2>5. CASE ~Reading /\ ~EndOfFile
    <3>1. open' = open /\ conds' = conds BY <1>2, <2>5
    <3>2. Len(open) \in DOMAIN open BY <1>1, <2>5, <3>1, AtTop
    <3>3. FileOf(Top)' = FileOf(Top) BY <1>3, <1>6, <3>1, <3>2 DEF FileOf
    <3>4. OnlyComments(FileOf(Top)) BY <1>1, <3>3 DEF OnlyComments
    <3> QED BY <1>4, <2>2, <3>1, <3>4
  <2> QED BY <2>1, <2>3, <2>4, <2>5
<1>10. (\A k \in DOMAIN open : k < Len(open) => ~OnlyComments(FileOf(open[k])))'
  <2> SUFFICES ASSUME NEW k \in DOMAIN open', k < Len(open') PROVE ~OnlyComments(FileOf(open[k]))'
    OBVIOUS
  <2>0. k < Len(open') OBVIOUS
  <2>1. k \in DOMAIN open /\ open'[k].fid = open[k].fid /\ (k < Len(open) \/ (Reading /\ ~(Len(open') = Len(open)) /\ k = Len(open)))
    <3>1. k \in 1 .. Len(open') /\ Len(open') \in Nat /\ Len(open) \in Nat BY <1>2
    <3>2. CASE Reading
      <4>1. Len(open') = Len(open) \/ Len(open') = Len(open) + 1 BY <1>2, <3>2
      <4>2. k \in 1 .. Len(open) /\ (k < Len(open) \/ (k = Len(open) /\ Len(open') # Len(open))) BY <2>0, <3>1, <4>1
      <4> QED BY <1>2, <3>2, <4>2
    <3>3. CASE EndOfFile
      <4>1. Len(open') = Len(open) - 1 BY <1>2, <3>3
      <4>2. k \in 1 .. Len(open) /\ k < Len(open) BY <3>1, <4>1
      <4> QED BY <1>2, <3>3, <4>2
    <3>4. CASE ~Reading /\ ~EndOfFile
      <4>1. open' = open BY <1>2, <3>4
      <4> QED BY <2>0, <3>1, <1>2, <4>1
    <3> QED BY <3>2, <3>3, <3>4
  <2>2. FileOf(open[k])' = FileOf(open[k]) BY <1>3, <2>1 DEF FileOf
  <2>3. OnlyComments(FileOf(open[k]))' => OnlyComments(FileOf(open[k])) BY <1>1, <2>2 DEF OnlyComments
  <2>4. k < Len(open) \/ (Include /\ k = Len(open)) BY <1>2, <2>1
  <2> QED BY <1>4, <1>6, <1>8, <2>3, <2>4, <2>1
<1>11. (\A at \in Past : OnlyComments(FileOf(at)) =>
          \A n : /\ Said("comment", at, n) <=> n \in WithinComment(LineAt(at).t)
                 /\ Said("splice", at, n) <=> n \in Splices(LineAt(at).t))'
  <2> SUFFICES ASSUME NEW at \in Past', OnlyComments(FileOf(at))', NEW n
               PROVE  /\ Said("comment", at, n)' <=> n \in WithinComment(LineAt(at)'.t)
                      /\ Said("splice", at, n)' <=> n \in Splices(LineAt(at)'.t)
    BY DEF WithinComment, Splices, CommentKind, CommentScan, Scanned, Turn, Second, Follows, Begin, NextState, UnknownProtocol
  <2>1. FileOf(at)' = FileOf(at) /\ LineAt(at)' = LineAt(at) BY <1>1
  <2>2. OnlyComments(FileOf(at)) BY <1>1, <2>1 DEF OnlyComments
  <2>3. CASE at \in Past
    <3>1. (Said("comment", at, n)' <=> Said("comment", at, n)) /\ (Said("splice", at, n)' <=> Said("splice", at, n))
      BY <2>3, SaidOn DEF Lasting
    <3> QED BY <2>1, <2>2, <2>3, <3>1 DEF CommentsRight
  <2>4. CASE at \notin Past
    <3>1. Reading /\ at = Top BY <1>1, <2>4
    <3>2. Comment BY <1>7, <2>2, <3>1
    <3>3. reports' = reports \cup {[check |-> "comment", at |-> Top, name |-> w] : w \in WithinComment(TopLine.t)}
                        \cup {[check |-> "splice", at |-> Top, name |-> i] : i \in Splices(TopLine.t)}
      BY <3>2 DEF Comment
    <3>4. TopLine = LineAt(at) BY <3>1 DEF TopLine
    <3> DEFINE r(c) == [check |-> c, at |-> Top, name |-> n]
    <3>5. \A c : r(c) \notin reports
      <4> SUFFICES ASSUME NEW c, r(c) \in reports PROVE FALSE OBVIOUS
      <4>1. r(c).at \in Past \cup {Nowhere} BY DEF Recorded
      <4>2. r(c).at = Top OBVIOUS
      <4>3. Top \notin Past /\ Top # Nowhere BY <1>1, <3>1, AtTop
      <4> QED BY <4>1, <4>2, <4>3
    <3>6. r("comment") \in reports' <=> n \in WithinComment(TopLine.t) BY <3>3, <3>5
    <3>7. r("splice") \in reports' <=> n \in Splices(TopLine.t) BY <3>3, <3>5
    <3>8. Said("comment", at, n)' <=> r("comment") \in reports' BY <3>1 DEF Said
    <3>9. Said("splice", at, n)' <=> r("splice") \in reports' BY <3>1 DEF Said
    <3> QED BY <2>1, <3>4, <3>6, <3>7, <3>8, <3>9
  <2> QED BY <2>3, <2>4
<1> QED BY <1>9, <1>10, <1>11 DEF CommentsRight

--------------------------------------------------------------------------------
(* The stack of conditionals. *)

\* s holds the places of the conditionals c that are reached: those in live text.
IsSeq(s) == \E S : s \in Seq(S)
StackOf(c, s) ==
  /\ IsSeq(s) /\ Len(s) <= Len(c) /\ (Len(c) > 0 => Len(s) > 0)
  /\ \A i \in 1 .. Len(c) : /\ i < Len(c) => (c[i].live <=> i < Len(s))
                            /\ c[i].live => i <= Len(s)
                            /\ i <= Len(s) => s[i] = c[i].at

LEMMA Pushed ==
  ASSUME NEW s, IsSeq(s), NEW e
  PROVE  /\ IsSeq(Append(s, e)) /\ Len(s) \in Nat /\ Len(Append(s, e)) = Len(s) + 1
         /\ Append(s, e)[Len(s) + 1] = e /\ \A i \in 1 .. Len(s) : Append(s, e)[i] = s[i]
<1>1. PICK S : s \in Seq(S) BY DEF IsSeq
<1>2. S \subseteq S \cup {e} /\ e \in S \cup {e} OBVIOUS
<1>3. s \in Seq(S \cup {e}) BY <1>1, <1>2, SeqMonotonic
<1>4. Append(s, e) \in Seq(S \cup {e}) BY <1>2, <1>3, AppendProperties
<1>5. Len(Append(s, e)) = Len(s) + 1 BY <1>2, <1>3, AppendProperties
<1>6. \A i \in 1 .. Len(s) : Append(s, e)[i] = s[i] BY <1>2, <1>3, AppendProperties
<1>7. Append(s, e)[Len(s) + 1] = e BY <1>2, <1>3, AppendProperties
<1>8. Len(s) \in Nat BY <1>1
<1> QED BY <1>4, <1>5, <1>6, <1>7, <1>8 DEF IsSeq

LEMMA Popped ==
  ASSUME NEW s, IsSeq(s), s # <<>>
  PROVE  /\ IsSeq(Front(s)) /\ Len(s) \in Nat /\ Len(s) > 0 /\ Len(Front(s)) = Len(s) - 1 /\ Last(s) = s[Len(s)]
         /\ \A i \in 1 .. Len(s) - 1 : Front(s)[i] = s[i]
<1>1. PICK S : s \in Seq(S) BY DEF IsSeq
<1>2. Len(s) \in Nat /\ Len(s) > 0 BY <1>1
<1>3. Front(s) = SubSeq(s, 1, Len(s) - 1) /\ Last(s) = s[Len(s)] BY DEF Front, Last
<1>4. Front(s) \in Seq(S) /\ Len(Front(s)) = Len(s) - 1 /\ \A i \in 1 .. Len(s) - 1 : Front(s)[i] = s[i]
  <2>1. \A i \in 1 .. Len(s) - 1 : s[i] \in S BY <1>1, <1>2, ElementOfSeq
  <2>2. SubSeq(s, 1, Len(s) - 1) \in Seq(S) BY <1>2, <2>1, SubSeqProperties
  <2>3. Len(SubSeq(s, 1, Len(s) - 1)) = Len(s) - 1
    <3>1. PICK n \in Nat : n = Len(s) - 1 BY <1>2
    <3>2. Len(SubSeq(s, 1, n)) = IF 1 <= n THEN n - 1 + 1 ELSE 0 BY <2>1, <3>1, SubSeqProperties
    <3> QED BY <3>1, <3>2
  <2>4. \A i \in 1 .. Len(s) - 1 : SubSeq(s, 1, Len(s) - 1)[i] = s[i] BY <1>1, <1>2
  <2> QED BY <1>3, <2>2, <2>3, <2>4
<1> QED BY <1>2, <1>3, <1>4 DEF IsSeq

\* What s holds are conditionals of c, at least as far from the innermost that is
\* not in skipped text as they are from the end of s.
OpenOnly(c, s) ==
  /\ IsSeq(s)
  /\ \A i \in 1 .. Len(s) : \E j \in 1 .. Len(c) :
       /\ c[j].at = s[i]
       /\ j + Len(s) - i <= Len(c)
       /\ j + Len(s) - i > 1 => c[j + Len(s) - i - 1].live
LiveAround(c) == \A i, j \in 1 .. Len(c) : i < j /\ c[j].live => c[i].live

LEMMA OpenPushed ==
  ASSUME NEW c, NEW s, NEW e, IsSeq(c), LiveAround(c), OpenOnly(c, s)
  PROVE  /\ (Len(c) > 0 => c[Len(c)].live) => OpenOnly(Append(c, e), Append(s, e.at))
         /\ OpenOnly(Append(c, e), s)
<1>1. PICK n \in Nat, r \in Nat : n = Len(c) /\ r = Len(s)
  <2>1. IsSeq(s) BY DEF OpenOnly
  <2> QED BY <2>1, Pushed
<1>2. /\ IsSeq(s)
      /\ \A i \in 1 .. r : \E j \in 1 .. n :
           c[j].at = s[i] /\ j + r - i <= n /\ (j + r - i > 1 => c[j + r - i - 1].live)
  BY <1>1 DEF OpenOnly
<1> DEFINE C == Append(c, e)
           T == Append(s, e.at)
<1>3. Len(C) = n + 1 /\ C[n + 1] = e /\ \A i \in 1 .. n : C[i] = c[i] BY <1>1, Pushed
<1>4. IsSeq(T) /\ Len(T) = r + 1 /\ T[r + 1] = e.at /\ \A i \in 1 .. r : T[i] = s[i] BY <1>1, <1>2, Pushed
<1> HIDE DEF C, T
<1>5. ASSUME NEW i \in 1 .. r
      PROVE  \E j \in 1 .. n + 1 : C[j].at = s[i] /\ j + r - i <= n + 1 /\ (j + r - i > 1 => C[j + r - i - 1].live)
  <2>1. PICK j \in 1 .. n : c[j].at = s[i] /\ j + r - i <= n /\ (j + r - i > 1 => c[j + r - i - 1].live) BY <1>2
  <2>2. j \in 1 .. n + 1 /\ C[j].at = s[i] /\ j + r - i <= n + 1 BY <1>3, <2>1
  <2>3. ASSUME j + r - i > 1 PROVE C[j + r - i - 1].live
    <3>1. j + r - i - 1 \in 1 .. n BY <2>1, <2>3
    <3> QED BY <1>3, <2>1, <2>3, <3>1
  <2> QED BY <2>2, <2>3
<1>6. ASSUME n > 0 => c[n].live, NEW i \in 1 .. r + 1
      PROVE  \E j \in 1 .. n + 1 : /\ C[j].at = T[i]
                                   /\ j + (r + 1) - i <= n + 1
                                   /\ j + (r + 1) - i > 1 => C[j + (r + 1) - i - 1].live
  <2>1. CASE i \in 1 .. r
    <3>1. PICK j \in 1 .. n : c[j].at = s[i] /\ j + r - i <= n BY <1>2, <2>1
    <3>2. j \in 1 .. n + 1 /\ C[j].at = T[i] /\ j + (r + 1) - i <= n + 1 BY <1>3, <1>4, <2>1, <3>1
    <3>3. PICK k \in 1 .. n : k = j + (r + 1) - i - 1 BY <2>1, <3>1
    <3>4. c[k].live
      <4>1. n \in 1 .. n /\ (k = n \/ k < n) BY <3>1
      <4> QED BY <1>1, <1>6, <4>1 DEF LiveAround
    <3> QED BY <1>3, <3>2, <3>3, <3>4
  <2>2. CASE i = r + 1
    <3>1. n + 1 \in 1 .. n + 1 /\ n + 1 + (r + 1) - i = n + 1 /\ n + 1 - 1 = n BY <2>2
    <3>2. C[n + 1].at = T[i] BY <1>3, <1>4, <2>2
    <3>3. n + 1 > 1 => C[n].live
      <4>1. n + 1 > 1 => n \in 1 .. n OBVIOUS
      <4> QED BY <1>3, <1>6, <4>1
    <3> QED BY <3>1, <3>2, <3>3
  <2> QED BY <2>1, <2>2
<1>7. OpenOnly(C, s) BY <1>1, <1>2, <1>3, <1>5 DEF OpenOnly
<1>8. (n > 0 => c[n].live) => OpenOnly(C, T) BY <1>3, <1>4, <1>6 DEF OpenOnly
<1> QED BY <1>1, <1>7, <1>8 DEF C, T

LEMMA OpenPopped ==
  ASSUME NEW c, NEW s, IsSeq(c), LiveAround(c), OpenOnly(c, s), c # <<>>
  PROVE  /\ s # <<>> => OpenOnly(Front(c), Front(s))
         /\ ~(Len(c) > 1 => c[Len(c) - 1].live) \/ s = <<>> => OpenOnly(Front(c), s)
<1>1. PICK n \in Nat, r \in Nat : n = Len(c) /\ r = Len(s) /\ n > 0
  <2>1. IsSeq(s) BY DEF OpenOnly
  <2> QED BY <2>1, Pushed, Popped
<1>2. /\ IsSeq(s)
      /\ \A i \in 1 .. r : \E j \in 1 .. n :
           c[j].at = s[i] /\ j + r - i <= n /\ (j + r - i > 1 => c[j + r - i - 1].live)
  BY <1>1 DEF OpenOnly
<1> DEFINE C == Front(c)
           T == Front(s)
<1>3. Len(C) = n - 1 /\ \A i \in 1 .. n - 1 : C[i] = c[i] BY <1>1, Popped
<1>4. s # <<>> => r > 0 /\ IsSeq(T) /\ Len(T) = r - 1 /\ \A i \in 1 .. r - 1 : T[i] = s[i] BY <1>1, <1>2, Popped
<1> HIDE DEF C, T
<1>5. ASSUME s # <<>>, NEW i \in 1 .. r - 1
      PROVE  \E j \in 1 .. n - 1 : /\ C[j].at = T[i]
                                   /\ j + (r - 1) - i <= n - 1
                                   /\ j + (r - 1) - i > 1 => C[j + (r - 1) - i - 1].live
  <2>1. i \in 1 .. r /\ T[i] = s[i] /\ r - i >= 1 BY <1>4, <1>5
  <2>2. PICK j \in 1 .. n : c[j].at = s[i] /\ j + r - i <= n /\ (j + r - i > 1 => c[j + r - i - 1].live) BY <1>2, <2>1
  <2>3. j \in 1 .. n - 1 /\ j + (r - 1) - i <= n - 1 BY <2>1, <2>2
  <2>4. C[j].at = T[i] BY <1>3, <2>1, <2>2, <2>3
  <2>5. ASSUME j + (r - 1) - i > 1 PROVE C[j + (r - 1) - i - 1].live
    <3>1. PICK k \in Nat : k = j + r - i - 1 /\ k > 1 /\ k <= n - 1 /\ j + (r - 1) - i - 1 = k - 1 BY <2>2, <2>5
    <3>2. c[k].live BY <2>2, <3>1
    <3>3. k - 1 \in 1 .. n - 1 /\ k - 1 \in 1 .. n /\ k \in 1 .. n /\ k - 1 < k BY <3>1
    <3>4. c[k - 1].live BY <1>1, <3>2, <3>3 DEF LiveAround
    <3> QED BY <1>3, <3>1, <3>3, <3>4
  <2> QED BY <2>3, <2>4, <2>5
<1>6. ASSUME ~(n > 1 => c[n - 1].live), NEW i \in 1 .. r
      PROVE  \E j \in 1 .. n - 1 : C[j].at = s[i] /\ j + r - i <= n - 1 /\ (j + r - i > 1 => C[j + r - i - 1].live)
  <2>1. PICK j \in 1 .. n : c[j].at = s[i] /\ j + r - i <= n /\ (j + r - i > 1 => c[j + r - i - 1].live) BY <1>2
  <2>2. j + r - i # n
    <3> SUFFICES ASSUME j + r - i = n PROVE FALSE OBVIOUS
    <3> QED BY <1>6, <2>1
  <2>3. j \in 1 .. n - 1 /\ j + r - i <= n - 1 BY <2>1, <2>2
  <2>4. C[j].at = s[i] BY <1>3, <2>1, <2>3
  <2>5. ASSUME j + r - i > 1 PROVE C[j + r - i - 1].live
    <3>1. j + r - i - 1 \in 1 .. n - 1 BY <2>3, <2>5
    <3> QED BY <1>3, <2>1, <2>5, <3>1
  <2> QED BY <2>3, <2>4, <2>5
<1>7. s # <<>> => OpenOnly(C, T) BY <1>3, <1>4, <1>5 DEF OpenOnly
<1>8. ~(n > 1 => c[n - 1].live) => OpenOnly(C, s) BY <1>1, <1>2, <1>3, <1>6 DEF OpenOnly
<1>9. s = <<>> => OpenOnly(C, s)
  <2>1. s = <<>> => Len(s) = 0 OBVIOUS
  <2>2. 1 .. 0 = {} OBVIOUS
  <2> QED BY <1>2, <2>1, <2>2 DEF OpenOnly
<1> QED BY <1>1, <1>7, <1>8, <1>9 DEF C, T

LEMMA OpenTurned ==
  ASSUME NEW c, NEW s, NEW d, IsSeq(c), OpenOnly(c, s), Len(d) = Len(c),
         \A i \in 1 .. Len(c) : d[i].at = c[i].at, \A i \in 1 .. Len(c) - 1 : d[i] = c[i]
  PROVE  OpenOnly(d, s)
<1>1. PICK n \in Nat, r \in Nat : n = Len(c) /\ r = Len(s)
  <2>1. IsSeq(s) BY DEF OpenOnly
  <2> QED BY <2>1, Pushed
<1>2. ASSUME NEW i \in 1 .. r
      PROVE  \E j \in 1 .. n : d[j].at = s[i] /\ j + r - i <= n /\ (j + r - i > 1 => d[j + r - i - 1].live)
  <2>1. PICK j \in 1 .. n : c[j].at = s[i] /\ j + r - i <= n /\ (j + r - i > 1 => c[j + r - i - 1].live)
    BY <1>1 DEF OpenOnly
  <2>2. ASSUME j + r - i > 1 PROVE d[j + r - i - 1].live
    <3>1. j + r - i - 1 \in 1 .. n - 1 BY <2>1, <2>2
    <3> QED BY <1>1, <2>1, <2>2, <3>1
  <2> QED BY <1>1, <2>1, <2>2
<1> QED BY <1>1, <1>2 DEF OpenOnly

\* The conditionals of a unit whose system headers have none.
NoSystemIf == \A at \in Is({"endif"}) : ~InSystem(at)
IfsRight ==
  /\ IsSeq(conds) /\ \A i \in 1 .. Len(conds) : DOMAIN conds[i] = {"at", "live", "taken"}
  /\ OpenOnly(conds, ifStack)
  /\ NoSystemIf => StackOf(conds, ifStack) /\ Reported("cross-file") = {}

LEMMA StackPushed ==
  ASSUME NEW c, NEW s, NEW e, IsSeq(c), StackOf(c, s)
  PROVE  /\ (Len(c) > 0 => c[Len(c)].live) => StackOf(Append(c, e), Append(s, e.at))
         /\ ~(Len(c) > 0 => c[Len(c)].live) /\ ~e.live => StackOf(Append(c, e), s)
<1>1. PICK n \in Nat, r \in Nat : n = Len(c) /\ r = Len(s)
  <2>1. IsSeq(s) BY DEF StackOf
  <2> QED BY <2>1, Pushed
<1>2. /\ IsSeq(Append(c, e)) /\ Len(Append(c, e)) = n + 1
      /\ Append(c, e)[n + 1] = e /\ \A i \in 1 .. n : Append(c, e)[i] = c[i]
  BY <1>1, Pushed
<1>3. /\ IsSeq(s) /\ r <= n /\ (n > 0 => r > 0)
      /\ \A i \in 1 .. n : /\ i < n => (c[i].live <=> i < r)
                           /\ c[i].live => i <= r
                           /\ i <= r => s[i] = c[i].at
  BY <1>1 DEF StackOf
<1>4. \A i \in 1 .. n + 1 : i \in 1 .. n \/ i = n + 1 OBVIOUS
<1>5. ASSUME n > 0 => c[n].live PROVE StackOf(Append(c, e), Append(s, e.at))
  <2>1. r = n BY <1>3, <1>5
  <2>2. /\ IsSeq(Append(s, e.at)) /\ Len(Append(s, e.at)) = n + 1 /\ Append(s, e.at)[n + 1] = e.at
        /\ \A i \in 1 .. n : Append(s, e.at)[i] = s[i]
    <3>1. /\ IsSeq(Append(s, e.at)) /\ Len(Append(s, e.at)) = Len(s) + 1 /\ Append(s, e.at)[Len(s) + 1] = e.at
          /\ \A i \in 1 .. Len(s) : Append(s, e.at)[i] = s[i]
      BY <1>3, Pushed
    <3>2. Len(s) = n BY <1>1, <2>1
    <3> QED BY <3>1, <3>2
  <2>3. \A i \in 1 .. n : c[i].live /\ s[i] = c[i].at BY <1>3, <1>5, <2>1
  <2> DEFINE C == Append(c, e)
             T == Append(s, e.at)
  <2>4. ASSUME NEW i \in 1 .. n + 1
        PROVE  /\ i < n + 1 => (C[i].live <=> i < n + 1)
               /\ C[i].live => i <= n + 1
               /\ i <= n + 1 => T[i] = C[i].at
    <3>1. CASE i \in 1 .. n BY <1>2, <2>2, <2>3, <3>1
    <3>2. CASE i = n + 1 BY <1>2, <2>2, <3>2
    <3> QED BY <1>4, <3>1, <3>2
  <2>5. Len(C) = n + 1 /\ Len(T) = n + 1 /\ IsSeq(T) BY <1>2, <2>2
  <2> HIDE DEF C, T
  <2>6. StackOf(C, T) BY <2>4, <2>5 DEF StackOf
  <2> QED BY <2>6 DEF C, T
<1>6. ASSUME ~(n > 0 => c[n].live), ~e.live PROVE StackOf(Append(c, e), s)
  <2> DEFINE C == Append(c, e)
  <2>1. ASSUME NEW i \in 1 .. n + 1
        PROVE  /\ i < n + 1 => (C[i].live <=> i < r)
               /\ C[i].live => i <= r
               /\ i <= r => s[i] = C[i].at
    <3>1. CASE i \in 1 .. n
      <4>1. C[i] = c[i] BY <1>2, <3>1
      <4>2. i = n => ~c[i].live /\ ~(i < r) BY <1>3, <1>6
      <4> HIDE DEF C
      <4> QED BY <1>3, <3>1, <4>1, <4>2
    <3>2. CASE i = n + 1
      <4>1. C[i] = e BY <1>2, <3>2
      <4> HIDE DEF C
      <4> QED BY <1>3, <1>6, <3>2, <4>1
    <3> QED BY <1>4, <3>1, <3>2
  <2>2. Len(C) = n + 1 BY <1>2
  <2> HIDE DEF C
  <2>3. StackOf(C, s) BY <1>1, <1>3, <1>6, <2>1, <2>2 DEF StackOf
  <2> QED BY <2>3 DEF C
<1> QED BY <1>1, <1>5, <1>6

LEMMA StackPopped ==
  ASSUME NEW c, NEW s, IsSeq(c), StackOf(c, s), c # <<>>
  PROVE  IF Len(c) > 1 => c[Len(c) - 1].live
         THEN Len(s) = Len(c) /\ s # <<>> /\ Last(s) = Last(c).at /\ StackOf(Front(c), Front(s))
         ELSE StackOf(Front(c), s)
<1>1. PICK n \in Nat, r \in Nat : n = Len(c) /\ r = Len(s) /\ n > 0
  <2>1. IsSeq(s) BY DEF StackOf
  <2> QED BY <2>1, Pushed, Popped
<1>2. Len(Front(c)) = n - 1 /\ Last(c) = c[n] /\ \A i \in 1 .. n - 1 : Front(c)[i] = c[i] BY <1>1, Popped
<1>3. /\ IsSeq(s) /\ r <= n /\ r > 0
      /\ \A i \in 1 .. n : /\ i < n => (c[i].live <=> i < r)
                           /\ c[i].live => i <= r
                           /\ i <= r => s[i] = c[i].at
  BY <1>1 DEF StackOf
<1>4. n \in 1 .. n /\ (n > 1 => n - 1 \in 1 .. n /\ n - 1 < n) BY <1>1
<1> DEFINE C == Front(c)
<1>5. ASSUME n > 1 => c[n - 1].live
      PROVE  r = n /\ s # <<>> /\ Last(s) = Last(c).at /\ StackOf(Front(c), Front(s))
  <2>1. r = n BY <1>1, <1>3, <1>4, <1>5
  <2>2. s # <<>> BY <1>1, <1>3
  <2> DEFINE T == Front(s)
  <2>3. IsSeq(T) /\ Len(T) = n - 1 /\ Last(s) = s[n] /\ \A i \in 1 .. n - 1 : T[i] = s[i]
    <3>1. IsSeq(T) /\ Len(T) = Len(s) - 1 /\ Last(s) = s[Len(s)] /\ \A i \in 1 .. Len(s) - 1 : T[i] = s[i]
      BY <1>3, <2>2, Popped
    <3>2. Len(s) = n BY <1>1, <2>1
    <3> QED BY <3>1, <3>2
  <2>4. Last(s) = Last(c).at BY <1>2, <1>3, <1>4, <2>1, <2>3
  <2>5. ASSUME NEW i \in 1 .. n - 1
        PROVE  /\ i < n - 1 => (C[i].live <=> i < n - 1)
               /\ C[i].live => i <= n - 1
               /\ i <= n - 1 => T[i] = C[i].at
    <3>1. i \in 1 .. n /\ C[i] = c[i] /\ T[i] = s[i] BY <1>2, <2>3
    <3> HIDE DEF C, T
    <3> QED BY <1>3, <2>1, <3>1
  <2>6. Len(C) = n - 1 BY <1>2
  <2> HIDE DEF C, T
  <2>7. StackOf(C, T) BY <2>3, <2>5, <2>6 DEF StackOf
  <2> QED BY <2>1, <2>2, <2>4, <2>7 DEF C, T
<1>6. ASSUME ~(n > 1 => c[n - 1].live) PROVE StackOf(Front(c), s)
  <2>1. n > 1 /\ r <= n - 1 BY <1>3, <1>4, <1>6
  <2>2. ASSUME NEW i \in 1 .. n - 1
        PROVE  /\ i < n - 1 => (C[i].live <=> i < r)
               /\ C[i].live => i <= r
               /\ i <= r => s[i] = C[i].at
    <3>1. i \in 1 .. n /\ C[i] = c[i] BY <1>2
    <3> HIDE DEF C
    <3> QED BY <1>3, <3>1
  <2>3. Len(C) = n - 1 BY <1>2
  <2> HIDE DEF C
  <2>4. StackOf(C, s) BY <1>1, <1>3, <2>1, <2>2, <2>3 DEF StackOf
  <2> QED BY <2>4 DEF C
<1> QED BY <1>1, <1>5, <1>6

\* Another branch of the innermost conditional.
LEMMA StackTurned ==
  ASSUME NEW c, NEW s, NEW d, IsSeq(c), c # <<>>, StackOf(c, s),
         Len(d) = Len(c), \A i \in 1 .. Len(c) : d[i].at = c[i].at, \A i \in 1 .. Len(c) - 1 : d[i].live <=> c[i].live,
         d[Len(c)].live => (Len(c) > 1 => c[Len(c) - 1].live)
  PROVE  StackOf(d, s)
<1>1. PICK n \in Nat, r \in Nat : n = Len(c) /\ r = Len(s) /\ n > 0
  <2>1. IsSeq(s) BY DEF StackOf
  <2> QED BY <2>1, Pushed, Popped
<1>2. /\ IsSeq(s) /\ r <= n /\ r > 0
      /\ \A i \in 1 .. n : /\ i < n => (c[i].live <=> i < r)
                           /\ c[i].live => i <= r
                           /\ i <= r => s[i] = c[i].at
  BY <1>1 DEF StackOf
<1>3. n \in 1 .. n /\ (n > 1 => n - 1 \in 1 .. n /\ n - 1 < n) BY <1>1
<1>4. ASSUME NEW i \in 1 .. n
      PROVE  /\ i < n => (d[i].live <=> i < r)
             /\ d[i].live => i <= r
             /\ i <= r => s[i] = d[i].at
  <2>1. d[i].at = c[i].at BY <1>1
  <2>2. CASE i < n
    <3>1. i \in 1 .. n - 1 BY <2>2
    <3>2. d[i].live <=> c[i].live BY <1>1, <3>1
    <3> QED BY <1>2, <2>1, <2>2, <3>2
  <2>3. CASE i = n
    <3>1. d[n].live => r = n BY <1>1, <1>2, <1>3
    <3> QED BY <1>2, <2>1, <2>3, <3>1
  <2> QED BY <2>2, <2>3
<1> QED BY <1>1, <1>2, <1>4 DEF StackOf

LEMMA Turned ==
  ASSUME IsSeq(conds), conds # <<>>, \A i \in 1 .. Len(conds) : DOMAIN conds[i] = {"at", "live", "taken"}, Elif \/ Else
  PROVE  /\ IsSeq(conds') /\ Len(conds') = Len(conds)
         /\ \A i \in 1 .. Len(conds) : conds'[i].at = conds[i].at /\ DOMAIN conds'[i] = {"at", "live", "taken"}
         /\ \A i \in 1 .. Len(conds) - 1 : conds'[i] = conds[i]
         /\ conds'[Len(conds)].live => Outer
<1>1. PICK n \in Nat : n = Len(conds) /\ n > 0 /\ DOMAIN conds = 1 .. n
  <2>1. PICK S : conds \in Seq(S) BY DEF IsSeq
  <2> QED BY <2>1
<1>2. PICK l, t : conds' = [conds EXCEPT ![n].live = l, ![n].taken = t] /\ (l => Outer)
  <2>1. CASE Elif
    <3> DEFINE holds == Outer /\ ~Last(conds).taken /\ ConditionHolds
               taken == conds[n].taken \/ holds
    <3>1. conds' = [conds EXCEPT ![n].live = holds, ![n].taken = taken] BY <1>1, <2>1, Zenon DEF Elif
    <3>2. holds => Outer OBVIOUS
    <3> HIDE DEF holds, taken
    <3> QED BY <3>1, <3>2, Zenon
  <2>2. CASE Else
    <3> DEFINE holds == Outer /\ ~Last(conds).taken
    <3>1. conds' = [conds EXCEPT ![n].live = holds, ![n].taken = TRUE] BY <1>1, <2>2, Zenon DEF Else
    <3>2. holds => Outer OBVIOUS
    <3> HIDE DEF holds
    <3> QED BY <3>1, <3>2, Zenon
  <2> QED BY <2>1, <2>2
<1> DEFINE e == [[conds[n] EXCEPT !.live = l] EXCEPT !.taken = t]
<1>3. DOMAIN e = {"at", "live", "taken"} /\ e.at = conds[n].at /\ e.live = l BY <1>1
<1>4. conds' = [conds EXCEPT ![n] = e] BY <1>1, <1>2
<1> HIDE DEF e
<1>5. DOMAIN conds' = 1 .. n /\ conds'[n] = e /\ \A i \in 1 .. n - 1 : conds'[i] = conds[i] BY <1>1, <1>4
<1>6. IsSeq(conds') /\ Len(conds') = n
  <2>1. conds' = [i \in 1 .. n |-> conds'[i]] BY <1>1, <1>4
  <2> DEFINE S == {conds'[i] : i \in 1 .. n}
  <2>2. conds' \in [1 .. n -> S] BY <2>1
  <2>3. conds' \in Seq(S)
    <3> HIDE DEF S
    <3>1. Seq(S) = UNION {[1 .. i -> S] : i \in Nat} BY SeqDef
    <3> QED BY <1>1, <2>2, <3>1
  <2> QED BY <1>1, <1>5, <2>3 DEF IsSeq
<1>7. \A i \in 1 .. n : i \in 1 .. n - 1 \/ i = n BY <1>1
<1>8. conds'[n].live => Outer
  <2>1. conds'[n].live = l BY <1>3, <1>5
  <2> QED BY <1>2, <2>1, Zenon
<1> QED BY <1>1, <1>3, <1>5, <1>6, <1>7, <1>8

LEMMA IfsOn ==
  ASSUME UnitsAssumption, FilesOpen, IfsRight, LiveAround(conds), [MonitorNext]_monitorVars
  PROVE  IfsRight'
<1>1. /\ IsSeq(conds) /\ \A i \in 1 .. Len(conds) : DOMAIN conds[i] = {"at", "live", "taken"}
      /\ OpenOnly(conds, ifStack)
      /\ NoSystemIf => StackOf(conds, ifStack) /\ Reported("cross-file") = {}
  BY DEF IfsRight
<1>2. NoSystemIf' => NoSystemIf
  <2> SUFFICES ASSUME NoSystemIf', NEW at \in Is({"endif"}) PROVE ~InSystem(at) BY DEF NoSystemIf
  <2>1. PICK i \in 1 .. Len(entered) : \E p \in DOMAIN text[entered[i]] :
          at = [fid |-> i, pos |-> p] /\ text[entered[i]][p].d \in {"endif"}
    BY DEF Is, ReadTo
  <2>2. i \in 1 .. Len(entered') /\ entered'[i] = entered[i] /\ text' = text
    <3>1. DOMAIN entered = 1 .. Len(entered) /\ FilesOpen' BY UnitLines, Moves
    <3>2. DOMAIN entered' = 1 .. Len(entered') BY <3>1 DEF FilesOpen
    <3> QED BY <3>1, <3>2, Moves
  <2>3. at \in Is({"endif"})'
    <3>1. PICK p \in DOMAIN text[entered[i]] : at = [fid |-> i, pos |-> p] /\ text[entered[i]][p].d \in {"endif"} BY <2>1
    <3>2. p \in DOMAIN text'[entered'[i]] /\ text'[entered'[i]][p].d \in {"endif"} BY <2>2, <3>1
    <3> QED BY <2>2, <3>1, <3>2 DEF Is, ReadTo
  <2>4. ~InSystem(at)' BY <2>3 DEF NoSystemIf
  <2> QED BY <2>1, <2>2, <2>4 DEF InSystem, FileOf
<1>3. If /\ NoSystemIf => ~InSystem(Top)
  <2> SUFFICES ASSUME If, NoSystemIf PROVE ~InSystem(Top) OBVIOUS
  <2>1. open # <<>> /\ ~AtEnd /\ TopLine.d \in {"if", "ifdef", "ifndef"} BY DEF If, At
  <2>2. FileOf(Top) \in DOMAIN text /\ Top.pos \in DOMAIN text[FileOf(Top)] /\ Top.fid \in DOMAIN entered BY <2>1, AtTop
  <2>3. PICK j \in DOMAIN text[FileOf(Top)] : text[FileOf(Top)][j].d = "endif"
    <3>1. UnitAccepted(text) BY UnitLines
    <3> QED BY <2>1, <2>2, <3>1 DEF UnitAccepted, TopLine, LineAt
  <2> DEFINE at == [fid |-> Top.fid, pos |-> j]
  <2>4. at \in Is({"endif"})
    <3>1. Top.fid \in 1 .. Len(entered) /\ FileOf(Top) = entered[Top.fid] BY <2>2, UnitLines DEF FileOf
    <3>2. PICK i \in 1 .. Len(entered) : i = Top.fid BY <3>1
    <3>3. j \in DOMAIN text[entered[i]] /\ text[entered[i]][j].d \in {"endif"} BY <2>3, <3>1, <3>2
    <3>4. [fid |-> i, pos |-> j] \in Is({"endif"}) BY <3>3 DEF Is, ReadTo
    <3> QED BY <3>2, <3>4
  <2>5. ~InSystem(at) BY <2>4 DEF NoSystemIf
  <2> QED BY <2>5 DEF InSystem, FileOf
<1>4. \/ If \/ Elif \/ Else \/ Endif
      \/ /\ UNCHANGED <<conds, ifStack>>
         /\ \/ Define \/ Undef \/ Comment \/ Use \/ Match \/ EndOfMainFile
            \/ Skip \/ Once \/ Include \/ Declare \/ EndOfFile \/ EndOfTranslationUnit \/ UNCHANGED monitorVars
  BY DEF MonitorNext, Done, Define, Undef, Comment, Use, Match, EndOfMainFile, Skip, Once, Include, Declare, EndOfFile,
         EndOfTranslationUnit, monitorVars, pp, checks
<1>5. ASSUME NEW cs, NEW at, Adds(cs, at), "cross-file" \notin cs PROVE Reported("cross-file")' = Reported("cross-file")
  BY <1>5 DEF Adds, SaidAt, Reported
<1>6. "cross-file" \notin Other BY DEF Other
<1>7. Live <=> (Len(conds) > 0 => conds[Len(conds)].live)
  <2>1. PICK S : conds \in Seq(S) BY <1>1 DEF IsSeq
  <2>2. conds # <<>> <=> Len(conds) > 0 BY <2>1
  <2> QED BY <2>2 DEF Live, Last
<1>8. (Elif \/ Else \/ Endif) /\ NoSystemIf =>
        /\ conds # <<>>
        /\ Outer => Len(ifStack) = Len(conds) /\ ifStack # <<>> /\ CrossFile(Top) = {}
                    /\ StackOf(Front(conds), Front(ifStack))
        /\ ~Outer => StackOf(Front(conds), ifStack)
  <2> SUFFICES ASSUME Elif \/ Else \/ Endif, NoSystemIf
               PROVE  /\ conds # <<>>
                      /\ Outer => Len(ifStack) = Len(conds) /\ ifStack # <<>> /\ CrossFile(Top) = {}
                                  /\ StackOf(Front(conds), Front(ifStack))
                      /\ ~Outer => StackOf(Front(conds), ifStack)
    OBVIOUS
  <2>1. conds # <<>> /\ Last(conds).at.fid = Top.fid BY DEF Elif, Else, Endif, InConditional
  <2>2. StackOf(conds, ifStack) BY <1>1
  <2>3. IF Outer
        THEN Len(ifStack) = Len(conds) /\ ifStack # <<>> /\ Last(ifStack) = Last(conds).at /\ StackOf(Front(conds), Front(ifStack))
        ELSE StackOf(Front(conds), ifStack)
    BY <1>1, <2>1, <2>2, StackPopped DEF Outer
  <2>4. Outer => CrossFile(Top) = {} BY <2>1, <2>3 DEF CrossFile, Say
  <2> QED BY <2>1, <2>3, <2>4
<1>9. CASE If
  <2> DEFINE live == Live /\ ConditionHolds
             e == [at |-> Top, live |-> live, taken |-> live]
  <2>1. conds' = Append(conds, e) /\ ifStack' = (IF Live THEN PushIf(Top) ELSE ifStack) BY <1>9, Zenon DEF If
  <2>2. e.at = Top /\ DOMAIN e = {"at", "live", "taken"} /\ (e.live => Live) BY Zenon
  <2> HIDE DEF e
  <2>3. /\ IsSeq(conds') /\ Len(conds) \in Nat /\ Len(conds') = Len(conds) + 1
        /\ conds'[Len(conds) + 1] = e /\ \A i \in 1 .. Len(conds) : conds'[i] = conds[i]
    BY <1>1, <2>1, Pushed
  <2>4. \A i \in 1 .. Len(conds') : DOMAIN conds'[i] = {"at", "live", "taken"}
    <3>1. \A i \in 1 .. Len(conds) + 1 : i \in 1 .. Len(conds) \/ i = Len(conds) + 1 BY <2>3
    <3> QED BY <1>1, <2>2, <2>3, <3>1
  <2>5. ASSUME NoSystemIf' PROVE StackOf(conds', ifStack')
    <3>1. StackOf(conds, ifStack) /\ ~InSystem(Top) BY <1>1, <1>2, <1>3, <1>9, <2>5
    <3>2. CASE Live
      <4>1. ifStack' = Append(ifStack, e.at) BY <2>1, <2>2, <3>1, <3>2 DEF PushIf
      <4>2. StackOf(Append(conds, e), Append(ifStack, e.at)) BY <1>1, <1>7, <3>1, <3>2, StackPushed
      <4> QED BY <2>1, <4>1, <4>2
    <3>3. CASE ~Live
      <4>1. ifStack' = ifStack BY <2>1, <3>3
      <4>2. StackOf(Append(conds, e), ifStack) BY <1>1, <1>7, <2>2, <3>1, <3>3, StackPushed
      <4> QED BY <2>1, <4>1, <4>2
    <3> QED BY <3>2, <3>3
  <2>6. Reported("cross-file")' = Reported("cross-file") BY <1>5, <1>6, <1>9, Reporting
  <2>7. OpenOnly(conds', ifStack')
    <3>1. Live => OpenOnly(Append(conds, e), Append(ifStack, e.at)) BY <1>1, <1>7, OpenPushed
    <3>2. OpenOnly(Append(conds, e), ifStack) BY <1>1, OpenPushed
    <3>3. \/ Live /\ ifStack' = Append(ifStack, e.at)
          \/ ifStack' = ifStack
      BY <2>1, <2>2 DEF PushIf
    <3> QED BY <2>1, <3>1, <3>2, <3>3
  <2>8. OpenOnly(conds, ifStack)' BY <2>7 DEF OpenOnly, IsSeq
  <2> QED BY <1>1, <1>2, <2>3, <2>4, <2>5, <2>6, <2>8 DEF IfsRight, StackOf, IsSeq
<1>10. CASE Elif \/ Else
  <2>1. conds # <<>> BY <1>10 DEF Elif, Else, InConditional
  <2>2. /\ IsSeq(conds') /\ Len(conds') = Len(conds)
        /\ \A i \in 1 .. Len(conds) : conds'[i].at = conds[i].at /\ DOMAIN conds'[i] = {"at", "live", "taken"}
        /\ \A i \in 1 .. Len(conds) - 1 : conds'[i] = conds[i]
        /\ conds'[Len(conds)].live => Outer
    BY <1>1, <1>10, <2>1, Turned
  <2>3. ifStack' = ifStack BY <1>10 DEF Elif, Else
  <2>4. ASSUME NoSystemIf' PROVE StackOf(conds', ifStack') /\ Reported("cross-file")' = {}
    <3>1. StackOf(conds, ifStack) /\ Reported("cross-file") = {} BY <1>1, <1>2, <2>4
    <3>2. StackOf(conds', ifStack) BY <1>1, <2>1, <2>2, <3>1, StackTurned DEF Outer
    <3>3. Reported("cross-file")' = {}
      <4>1. Outer => CrossFile(Top) = {} BY <1>2, <1>8, <1>10, <2>4
      <4>2. \/ reports' = reports
            \/ Outer /\ reports' = reports \cup CrossFile(Top)
            \/ Outer /\ reports' = reports \cup CrossFile(Top) \cup Undefined(Top, TopLine.t) \cup NotBoolean(Top, TopLine.t)
        BY <1>10 DEF Elif, Else, Called
      <4>3. SaidAt(Undefined(Top, TopLine.t), Top, Other) /\ SaidAt(NotBoolean(Top, TopLine.t), Top, Other) BY OthersSaid
      <4> QED BY <1>6, <3>1, <4>1, <4>2, <4>3 DEF Reported, SaidAt
    <3> QED BY <2>3, <3>2, <3>3
  <2>5. OpenOnly(conds', ifStack') BY <1>1, <2>2, <2>3, OpenTurned
  <2>6. OpenOnly(conds, ifStack)' BY <2>5 DEF OpenOnly, IsSeq
  <2> QED BY <2>2, <2>4, <2>6 DEF IfsRight, StackOf, IsSeq
<1>11. CASE Endif
  <2>1. conds # <<>> /\ conds' = Front(conds) BY <1>11 DEF Endif, InConditional
  <2>2. IsSeq(conds') /\ \A i \in 1 .. Len(conds') : DOMAIN conds'[i] = {"at", "live", "taken"}
    <3>1. /\ IsSeq(Front(conds)) /\ Len(conds) \in Nat /\ Len(conds) > 0 /\ Len(Front(conds)) = Len(conds) - 1
          /\ \A i \in 1 .. Len(conds) - 1 : Front(conds)[i] = conds[i]
      BY <1>1, <2>1, Popped
    <3>2. \A i \in 1 .. Len(conds) - 1 : i \in 1 .. Len(conds) BY <3>1
    <3> QED BY <1>1, <2>1, <3>1, <3>2
  <2>3. ASSUME NoSystemIf' PROVE StackOf(conds', ifStack') /\ Reported("cross-file")' = {}
    <3>1. /\ Outer => ifStack # <<>> /\ CrossFile(Top) = {} /\ StackOf(Front(conds), Front(ifStack))
          /\ ~Outer => StackOf(Front(conds), ifStack)
      BY <1>2, <1>8, <1>11, <2>3
    <3>2. /\ reports' = (IF Outer THEN reports \cup CrossFile(Top) ELSE reports)
          /\ ifStack' = (IF Outer THEN PopIf ELSE ifStack)
      BY <1>11 DEF Endif
    <3>3. reports' = reports BY <3>1, <3>2
    <3>4. StackOf(conds', ifStack')
      <4>1. CASE Outer
        <5>1. ifStack' = Front(ifStack) BY <3>1, <3>2, <4>1 DEF PopIf
        <5> QED BY <2>1, <3>1, <4>1, <5>1
      <4>2. CASE ~Outer BY <2>1, <3>1, <3>2, <4>2
      <4> QED BY <4>1, <4>2
    <3> QED BY <1>1, <1>2, <2>3, <3>3, <3>4 DEF Reported
  <2>4. OpenOnly(conds', ifStack')
    <3>1. ifStack' = (IF Outer THEN PopIf ELSE ifStack) BY <1>11 DEF Endif
    <3>2. /\ ifStack # <<>> => OpenOnly(Front(conds), Front(ifStack))
          /\ ~Outer \/ ifStack = <<>> => OpenOnly(Front(conds), ifStack)
      BY <1>1, <2>1, OpenPopped DEF Outer
    <3> QED BY <2>1, <3>1, <3>2 DEF PopIf
  <2>5. OpenOnly(conds, ifStack)' BY <2>4 DEF OpenOnly, IsSeq
  <2> QED BY <2>2, <2>3, <2>5 DEF IfsRight, StackOf, IsSeq
<1>12. CASE UNCHANGED <<conds, ifStack>> /\ ~If /\ ~Elif /\ ~Else /\ ~Endif
  <2>1. Reported("cross-file")' = Reported("cross-file")
    <3>1. CASE EndOfMainFile
      <4>1. reports' = reports \cup Unused \cup UNION {Say("guard", Nowhere, f, TRUE) : f \in Unguarded} BY <3>1 DEF EndOfMainFile
      <4>2. \A u \in Unused : u.check = "unused" BY DEF Unused, Say
      <4>3. \A u \in UNION {Say("guard", Nowhere, f, TRUE) : f \in Unguarded} : u.check = "guard" BY DEF Say
      <4> QED BY <4>1, <4>2, <4>3 DEF Reported
    <3>2. CASE ~EndOfMainFile
      <4>1. \/ Adds(Other \cup {"reserved", "avoid-reserved"}, Top) \/ Adds({"undef", "reserved", "avoid-reserved"}, Top)
            \/ Adds(Other, Top) \/ Adds({"comment", "splice"}, Top) \/ reports' = reports \/ Adds({"conflict"}, Head(decls))
        BY <1>4, <1>12, <3>2, Reporting
      <4>2. reports' = reports => Reported("cross-file")' = Reported("cross-file") BY DEF Reported
      <4> QED BY <1>5, <1>6, <4>1, <4>2
    <3> QED BY <3>1, <3>2
  <2>2. OpenOnly(conds, ifStack)' BY <1>1, <1>12 DEF OpenOnly, IsSeq
  <2> QED BY <1>1, <1>2, <1>12, <2>1, <2>2 DEF IfsRight, StackOf, IsSeq
<1> QED BY <1>4, <1>9, <1>10, <1>11, <1>12

--------------------------------------------------------------------------------
(* How many of the first numbers are in a set. *)

\* How many of the first n numbers are in S.
CountTo(S, n) == Cardinality({j \in 1 .. n : j \in S})

LEMMA CountedOn ==
  ASSUME NEW S, NEW n \in Nat
  PROVE  /\ CountTo(S, n) \in Nat /\ CountTo(S, 0) = 0
         /\ CountTo(S, n + 1) = CountTo(S, n) + (IF n + 1 \in S THEN 1 ELSE 0)
<1> DEFINE X == {j \in 1 .. n : j \in S}
<1>1. IsFiniteSet(1 .. n) BY FS_Interval
<1>2. IsFiniteSet(X) BY <1>1, FS_Subset
<1>3. Cardinality(X) \in Nat BY <1>2, FS_CardinalityType
<1>4. {j \in 1 .. 0 : j \in S} = {} OBVIOUS
<1>5. CountTo(S, 0) = 0 BY <1>4, FS_EmptySet DEF CountTo
<1>6. CASE n + 1 \in S
  <2>1. {j \in 1 .. n + 1 : j \in S} = X \cup {n + 1} BY <1>6
  <2>2. n + 1 \notin X OBVIOUS
  <2> HIDE DEF X
  <2>3. Cardinality(X \cup {n + 1}) = Cardinality(X) + 1 BY <1>2, <2>2, FS_AddElement
  <2> QED BY <1>3, <1>5, <1>6, <2>1, <2>3 DEF CountTo, X
<1>7. CASE n + 1 \notin S
  <2>1. {j \in 1 .. n + 1 : j \in S} = X BY <1>7
  <2> QED BY <1>3, <1>5, <1>7, <2>1 DEF CountTo
<1> QED BY <1>6, <1>7

LEMMA CountedSome ==
  ASSUME NEW S, NEW n \in Nat
  PROVE  /\ CountTo(S, n) > 0 <=> \E j \in 1 .. n : j \in S
         /\ CountTo(S, n) > 1 => \A i \in 1 .. n : \E j \in 1 .. n : j \in S /\ j # i
<1> DEFINE X == {j \in 1 .. n : j \in S}
<1>1. IsFiniteSet(1 .. n) BY FS_Interval
<1>2. IsFiniteSet(X) BY <1>1, FS_Subset
<1>3. Cardinality(X) \in Nat BY <1>2, FS_CardinalityType
<1>4. Cardinality(X) = 0 <=> X = {} BY <1>2, FS_EmptySet
<1>5. ASSUME Cardinality(X) > 1, NEW i \in 1 .. n PROVE \E j \in 1 .. n : j \in S /\ j # i
  <2> SUFFICES ASSUME X \subseteq {i} PROVE FALSE OBVIOUS
  <2>1. IsFiniteSet({i}) /\ Cardinality({i}) = 1 BY FS_Singleton
  <2> HIDE DEF X
  <2>2. Cardinality(X) <= Cardinality({i}) BY <2>1, FS_Subset
  <2> QED BY <1>3, <1>5, <2>1, <2>2
<1>6. CountTo(S, n) = Cardinality(X) BY DEF CountTo
<1>7. X # {} <=> \E j \in 1 .. n : j \in S OBVIOUS
<1> HIDE DEF X
<1> QED BY <1>3, <1>4, <1>5, <1>6, <1>7

LEMMA CountedSame ==
  ASSUME NEW S, NEW T, NEW n, \A j \in 1 .. n : j \in S <=> j \in T
  PROVE  CountTo(S, n) = CountTo(T, n)
<1>1. {j \in 1 .. n : j \in S} = {j \in 1 .. n : j \in T} OBVIOUS
<1> QED BY <1>1 DEF CountTo

--------------------------------------------------------------------------------
(* The line that guards a file. *)

Opening(s) == {j \in Nat : s[j].d \in {"if", "ifdef", "ifndef"}}
Closing(s) == {j \in Nat : s[j].d \in {"endif"}}
Nest(s, i) == CountTo(Opening(s), i) - CountTo(Closing(s), i)

LEMMA NestOn ==
  ASSUME NEW s, NEW n \in Nat
  PROVE  /\ Nest(s, 0) = 0 /\ Nest(s, n) \in Int
         /\ s[n + 1].d \in {"if", "ifdef", "ifndef"} => Nest(s, n + 1) = Nest(s, n) + 1
         /\ s[n + 1].d = "endif" => Nest(s, n + 1) = Nest(s, n) - 1
         /\ s[n + 1].d \notin {"if", "ifdef", "ifndef", "endif"} => Nest(s, n + 1) = Nest(s, n)
<1>1. /\ n + 1 \in Opening(s) <=> s[n + 1].d \in {"if", "ifdef", "ifndef"}
      /\ n + 1 \in Closing(s) <=> s[n + 1].d = "endif"
  BY DEF Opening, Closing
<1>2. /\ CountTo(Opening(s), n) \in Nat /\ CountTo(Opening(s), 0) = 0
      /\ CountTo(Opening(s), n + 1) = CountTo(Opening(s), n) + (IF n + 1 \in Opening(s) THEN 1 ELSE 0)
  BY CountedOn
<1>3. /\ CountTo(Closing(s), n) \in Nat /\ CountTo(Closing(s), 0) = 0
      /\ CountTo(Closing(s), n + 1) = CountTo(Closing(s), n) + (IF n + 1 \in Closing(s) THEN 1 ELSE 0)
  BY CountedOn
<1> QED BY <1>1, <1>2, <1>3 DEF Nest

LEMMA NestIs ==
  ASSUME NEW s, NEW i \in Nat
  PROVE  Cardinality({j \in 1 .. i : s[j].d \in {"if", "ifdef", "ifndef"}}) - Cardinality({j \in 1 .. i : s[j].d \in {"endif"}})
           = Nest(s, i)
<1>1. {j \in 1 .. i : s[j].d \in {"if", "ifdef", "ifndef"}} = {j \in 1 .. i : j \in Opening(s)} BY DEF Opening
<1>2. {j \in 1 .. i : s[j].d \in {"endif"}} = {j \in 1 .. i : j \in Closing(s)} BY DEF Closing
<1> QED BY <1>1, <1>2 DEF Nest, CountTo

LEMMA SeqEmpty ==
  ASSUME NEW s, IsSeq(s)
  PROVE  Len(s) \in Nat /\ (s # <<>> <=> Len(s) > 0) /\ DOMAIN s = 1 .. Len(s)
<1>1. PICK S : s \in Seq(S) BY DEF IsSeq
<1> QED BY <1>1

LEMMA BelowIsNat == \A n \in Nat : \A i \in 1 .. n - 1 : i \in Nat
OBVIOUS

LEMMA Controls ==
  ASSUME NEW f, IsSeq(text[f]), ControllingMacro(f) # ""
  PROVE  LET s == text[f]
         IN  /\ Len(s) > 0 /\ s[1].d = "ifndef" /\ ControllingMacro(f) = s[1].m
             /\ \A i \in 1 .. Len(s) - 1 : Nest(s, i) > 0 /\ (s[i].d \in {"else", "elif"} => Nest(s, i) > 1)
<1> DEFINE s == text[f]
           Among(i, ds) == Cardinality({j \in 1 .. i : s[j].d \in ds})
           Nested(i) == Among(i, {"if", "ifdef", "ifndef"}) - Among(i, {"endif"})
           P == /\ s # <<>> /\ s[1].d = "ifndef"
                /\ \A i \in 1 .. Len(s) - 1 : Nested(i) > 0 /\ (s[i].d \in {"else", "elif"} => Nested(i) > 1)
<1>1. ControllingMacro(f) = IF P THEN s[1].m ELSE "" BY DEF ControllingMacro
<1>2. P /\ ControllingMacro(f) = s[1].m BY <1>1, Zenon
<1>3. \A i \in Nat : Nested(i) = Nest(s, i) BY NestIs
<1>4. Len(s) \in Nat /\ (s # <<>> <=> Len(s) > 0) BY SeqEmpty
<1>5. PICK n \in Nat : n = Len(s) BY <1>4
<1>6. \A i \in 1 .. n - 1 : Nested(i) > 0 /\ (s[i].d \in {"else", "elif"} => Nested(i) > 1) BY <1>2, <1>5, Zenon
<1> HIDE DEF s, Nested, P
<1>7. \A i \in 1 .. n - 1 : i \in Nat BY BelowIsNat
<1>8. \A i \in 1 .. n - 1 : Nest(s, i) > 0 /\ (s[i].d \in {"else", "elif"} => Nest(s, i) > 1)
  BY <1>3, <1>6, <1>7
<1>9. s # <<>> /\ s[1].d = "ifndef" BY <1>2 DEF P
<1> QED BY <1>2, <1>4, <1>5, <1>8, <1>9 DEF s

--------------------------------------------------------------------------------
(* The conditionals of an entry of a file. *)

\* What becomes of the places in the open files.
LEMMA OpenSteps ==
  ASSUME UnitsAssumption, FilesOpen, [MonitorNext]_monitorVars, NEW k \in DOMAIN open'
  PROVE  \/ /\ k \in DOMAIN open /\ open'[k].fid = open[k].fid /\ open'[k].pos = open[k].pos
            /\ Reading => k < Len(open)
         \/ Reading /\ k = Len(open) /\ k \in DOMAIN open /\ open'[k].fid = Top.fid /\ open'[k].pos = Top.pos + 1
         \/ /\ Include /\ k = Len(open) + 1 /\ open'[k].fid = Len(entered) + 1 /\ open'[k].pos = 1
            /\ Len(entered') = Len(entered) + 1 /\ entered'[Len(entered) + 1] = TopLine.m
<1>1. FilesOpen' BY Moves
<1>2. /\ Len(open) \in Nat /\ DOMAIN open = 1 .. Len(open) /\ Len(open') \in Nat /\ DOMAIN open' = 1 .. Len(open')
      /\ Len(entered) \in Nat
  BY OpenOn, UnitLines
<1>3. CASE ~Reading
  <2>1. CASE EndOfFile
    <3>1. open # <<>> /\ Len(open') = Len(open) - 1 /\ open'[k] = open[k] BY <2>1, OpenOn
    <3> QED BY <1>2, <1>3, <3>1
  <2>2. CASE ~EndOfFile
    <3>1. open' = open BY <1>3, <2>2, OpenOn
    <3> QED BY <1>3, <3>1
  <2> QED BY <2>1, <2>2
<1>4. CASE Reading
  <2>1. Reads /\ open # <<>> BY <1>4, Steps DEF Reads
  <2>2. /\ Len(open) \in DOMAIN open /\ Top = open[Len(open)] BY <2>1, AtTop
  <2>3. /\ PastTop \in Seq([fid : Nat \ {0}, pos : Nat \ {0}]) /\ Len(PastTop) = Len(open)
        /\ \A j \in 1 .. Len(open) : /\ PastTop[j].fid = open[j].fid
                                     /\ PastTop[j].pos = IF j = Len(open) THEN open[j].pos + 1 ELSE open[j].pos
    BY <2>1, PastTopIs
  <2>4. ~Include => Advance
    BY <1>4 DEF Reading, Define, Undef, If, Elif, Else, Endif, Skip, Comment, Once, Use, Declare
  <2>5. \/ open' = PastTop
        \/ Include /\ open' = Append(PastTop, EntryOf(TopLine.m)) /\ entered' = Append(entered, TopLine.m)
    BY <2>4 DEF Advance, PastTop, Include
  <2>6. CASE open' = PastTop
    <3>1. k \in 1 .. Len(open) BY <1>2, <2>3, <2>6
    <3>2. k < Len(open) \/ k = Len(open) BY <1>2, <3>1
    <3> QED BY <1>2, <1>4, <2>2, <2>3, <2>6, <3>1, <3>2
  <2>7. CASE Include /\ open' = Append(PastTop, EntryOf(TopLine.m)) /\ entered' = Append(entered, TopLine.m)
    <3>1. EntryOf(TopLine.m) \in [fid : Nat \ {0}, pos : Nat \ {0}] BY <1>2 DEF EntryOf
    <3>2. /\ Len(open') = Len(open) + 1 /\ open'[Len(open) + 1] = EntryOf(TopLine.m)
          /\ \A j \in 1 .. Len(open) : open'[j] = PastTop[j]
      BY <2>3, <2>7, <3>1, AppendProperties
    <3>3. Len(entered') = Len(entered) + 1 /\ entered'[Len(entered) + 1] = TopLine.m
      <4>1. IsSeq(entered) BY DEF IsSeq, FilesOpen
      <4> QED BY <2>7, <4>1, Pushed
    <3>4. k < Len(open) \/ k = Len(open) \/ k = Len(open) + 1 BY <1>2, <3>2
    <3>5. EntryOf(TopLine.m).fid = Len(entered) + 1 /\ EntryOf(TopLine.m).pos = 1 BY DEF EntryOf
    <3>6. CASE k = Len(open) + 1 BY <2>7, <3>2, <3>3, <3>5, <3>6
    <3>7. CASE k # Len(open) + 1
      <4>1. k \in 1 .. Len(open) BY <1>2, <3>4, <3>7
      <4>2. open'[k] = PastTop[k] BY <3>2, <4>1
      <4>3. k = Len(open) => PastTop[k].fid = Top.fid /\ PastTop[k].pos = Top.pos + 1 BY <2>2, <2>3, <4>1
      <4>4. k < Len(open) => PastTop[k].fid = open[k].fid /\ PastTop[k].pos = open[k].pos
        <5>1. k < Len(open) => k # Len(open) BY <1>2, <4>1
        <5> QED BY <2>3, <4>1, <5>1
      <4> QED BY <1>2, <1>4, <3>4, <4>1, <4>2, <4>3, <4>4
    <3> QED BY <3>6, <3>7
  <2> QED BY <2>5, <2>6, <2>7
<1> QED BY <1>3, <1>4

\* What becomes of the conditionals.
Pushes(e) == /\ conds' = Append(conds, e) /\ e.at = Top /\ (e.live => Live)
             /\ e.live /\ TopLine.d = "ifndef" => ~IsDefined(TopLine.m)
CondsShape == IsSeq(conds) /\ \A i \in 1 .. Len(conds) : DOMAIN conds[i] = {"at", "live", "taken"}

LEMMA CondSteps ==
  ASSUME CondsShape, [MonitorNext]_monitorVars
  PROVE  /\ Len(conds) \in Nat
         /\ \/ If /\ \E e : Pushes(e)
            \/ /\ Elif \/ Else
               /\ conds # <<>> /\ Last(conds).at.fid = Top.fid /\ Len(conds) > 0 /\ Last(conds) = conds[Len(conds)]
               /\ Len(conds') = Len(conds) /\ \A i \in 1 .. Len(conds) : conds'[i].at = conds[i].at
               /\ \A i \in 1 .. Len(conds) - 1 : conds'[i] = conds[i]
               /\ conds'[Len(conds)].live => Outer
            \/ /\ Endif
               /\ conds # <<>> /\ Last(conds).at.fid = Top.fid /\ Len(conds) > 0 /\ Last(conds) = conds[Len(conds)]
               /\ Len(conds') = Len(conds) - 1 /\ \A i \in 1 .. Len(conds) - 1 : conds'[i] = conds[i]
            \/ ~If /\ ~Elif /\ ~Else /\ ~Endif /\ conds' = conds
<1>1. Len(conds) \in Nat BY SeqEmpty DEF CondsShape
<1>2. If \/ Elif \/ Else \/ Endif \/ conds' = conds
  BY DEF MonitorNext, Done, Define, Undef, Comment, Use, Match, EndOfMainFile, Skip, Once, Include, Declare, EndOfFile,
         EndOfTranslationUnit, monitorVars, pp, checks
<1>3. ASSUME If PROVE \E e : Pushes(e)
  <2> DEFINE live == Live /\ ConditionHolds
             e == [at |-> Top, live |-> live, taken |-> live]
  <2>1. conds' = Append(conds, e) BY <1>3, Zenon DEF If
  <2>2. e.at = Top /\ (e.live => Live) /\ (e.live => ConditionHolds) BY Zenon
  <2>3. ConditionHolds /\ TopLine.d = "ifndef" => ~IsDefined(TopLine.m) BY DEF ConditionHolds
  <2> HIDE DEF e
  <2> QED BY <2>1, <2>2, <2>3 DEF Pushes
<1>4. ASSUME Elif \/ Else \/ Endif
      PROVE  conds # <<>> /\ Last(conds).at.fid = Top.fid /\ Len(conds) > 0 /\ Last(conds) = conds[Len(conds)]
  <2>1. conds # <<>> /\ Last(conds).at.fid = Top.fid BY <1>4 DEF Elif, Else, Endif, InConditional
  <2> QED BY <2>1, Popped DEF CondsShape
<1>5. ASSUME Elif \/ Else
      PROVE  /\ Len(conds') = Len(conds) /\ \A i \in 1 .. Len(conds) : conds'[i].at = conds[i].at
             /\ \A i \in 1 .. Len(conds) - 1 : conds'[i] = conds[i]
             /\ conds'[Len(conds)].live => Outer
  BY <1>4, <1>5, Turned DEF CondsShape
<1>6. ASSUME Endif PROVE Len(conds') = Len(conds) - 1 /\ \A i \in 1 .. Len(conds) - 1 : conds'[i] = conds[i]
  <2>1. conds' = Front(conds) BY <1>6 DEF Endif
  <2> QED BY <1>4, <1>6, <2>1, Popped DEF CondsShape
<1> QED BY <1>1, <1>2, <1>3, <1>4, <1>5, <1>6

\* The conditionals of one entry of a file, and of how many lines it is inside.
Of(c, i) == {l \in Nat : c[l].at.fid = i}
InEntry(c, i) == CountTo(Of(c, i), Len(c))
CondsRight ==
  /\ \A i, j \in 1 .. Len(conds) : i < j /\ conds[j].live => conds[i].live
  /\ \A i \in 1 .. Len(conds) : conds[i].at.fid \in DOMAIN entered
  /\ \A k \in DOMAIN open : InEntry(conds, open[k].fid) = Nest(text[FileOf(open[k])], open[k].pos - 1)

LEMMA InEntrySteps ==
  ASSUME CondsShape, [MonitorNext]_monitorVars, NEW i
  PROVE  /\ InEntry(conds, i) \in Nat
         /\ If => InEntry(conds', i) = InEntry(conds, i) + (IF Top.fid = i THEN 1 ELSE 0)
         /\ Endif => InEntry(conds', i) = InEntry(conds, i) - (IF Top.fid = i THEN 1 ELSE 0)
         /\ ~If /\ ~Endif => InEntry(conds', i) = InEntry(conds, i)
         /\ If => ~Elif /\ ~Else /\ ~Endif
<1>1. PICK n \in Nat : n = Len(conds) BY CondSteps
<1>2. CountTo(Of(conds, i), n) \in Nat BY CountedOn
<1>3. If => ~Elif /\ ~Else /\ ~Endif BY DEF If, Elif, Else, Endif, At
<1>4. ASSUME If PROVE InEntry(conds', i) = InEntry(conds, i) + (IF Top.fid = i THEN 1 ELSE 0)
  <2>1. PICK e : Pushes(e) BY <1>3, <1>4, CondSteps
  <2>2. /\ Len(conds') = n + 1 /\ conds'[n + 1].at = Top /\ \A j \in 1 .. n : conds'[j] = conds[j]
    BY <1>1, <2>1, Pushed DEF CondsShape, Pushes
  <2>3. CountTo(Of(conds', i), n) = CountTo(Of(conds, i), n)
    <3>1. \A j \in 1 .. n : j \in Of(conds', i) <=> j \in Of(conds, i) BY <2>2 DEF Of
    <3> QED BY <3>1, CountedSame
  <2>4. n + 1 \in Of(conds', i) <=> Top.fid = i BY <2>2 DEF Of
  <2>5. CountTo(Of(conds', i), n + 1) = CountTo(Of(conds', i), n) + (IF n + 1 \in Of(conds', i) THEN 1 ELSE 0) BY CountedOn
  <2> QED BY <1>1, <1>2, <2>2, <2>3, <2>4, <2>5 DEF InEntry
<1>5. ASSUME Endif PROVE InEntry(conds', i) = InEntry(conds, i) - (IF Top.fid = i THEN 1 ELSE 0)
  <2>1. /\ n > 0 /\ conds[n].at.fid = Top.fid /\ Len(conds') = n - 1 /\ \A j \in 1 .. n - 1 : conds'[j] = conds[j]
    BY <1>1, <1>3, <1>5, CondSteps DEF Elif, Else, Endif, At
  <2>2. PICK m \in Nat : n = m + 1 /\ n - 1 = m
    <3>1. n - 1 \in Nat /\ n = (n - 1) + 1 BY <2>1
    <3> QED BY <3>1
  <2>3. CountTo(Of(conds', i), m) = CountTo(Of(conds, i), m)
    <3>1. \A j \in 1 .. m : j \in Of(conds', i) <=> j \in Of(conds, i) BY <2>1, <2>2 DEF Of
    <3> QED BY <3>1, CountedSame
  <2>4. m + 1 \in Of(conds, i) <=> Top.fid = i BY <2>1, <2>2 DEF Of
  <2>5. CountTo(Of(conds, i), m) \in Nat BY CountedOn
  <2>6. CountTo(Of(conds, i), m + 1) = CountTo(Of(conds, i), m) + (IF m + 1 \in Of(conds, i) THEN 1 ELSE 0) BY CountedOn
  <2> QED BY <1>1, <2>1, <2>2, <2>3, <2>4, <2>5, <2>6 DEF InEntry
<1>6. ASSUME ~If, ~Endif PROVE InEntry(conds', i) = InEntry(conds, i)
  <2>1. Len(conds') = n /\ \A j \in 1 .. n : conds'[j].at = conds[j].at BY <1>1, <1>6, CondSteps
  <2>2. \A j \in 1 .. n : j \in Of(conds', i) <=> j \in Of(conds, i) BY <2>1 DEF Of
  <2> QED BY <1>1, <2>1, <2>2, CountedSame DEF InEntry
<1> QED BY <1>1, <1>2, <1>3, <1>4, <1>5, <1>6 DEF InEntry

LEMMA CondsOn ==
  ASSUME UnitsAssumption, FilesOpen, CondsShape, CondsRight, [MonitorNext]_monitorVars
  PROVE  CondsRight'
<1>1. PICK n \in Nat : n = Len(conds) BY CondSteps
<1>2. /\ \A i, j \in 1 .. n : i < j /\ conds[j].live => conds[i].live
      /\ \A i \in 1 .. n : conds[i].at.fid \in DOMAIN entered
      /\ \A k \in DOMAIN open : InEntry(conds, open[k].fid) = Nest(text[FileOf(open[k])], open[k].pos - 1)
  BY <1>1 DEF CondsRight
<1>3. /\ FilesOpen' /\ text' = text /\ DOMAIN entered \subseteq DOMAIN entered'
      /\ \A i \in DOMAIN entered : entered'[i] = entered[i]
      /\ Reading => open # <<>> /\ ~AtEnd
  BY Moves
<1>4. /\ If \/ Elif \/ Else \/ Endif => Reading /\ Top.fid \in DOMAIN entered
  <2>1. If \/ Elif \/ Else \/ Endif => Reading BY DEF Reading
  <2> QED BY <1>3, <2>1, AtTop
<1>5. /\ \A i, j \in 1 .. Len(conds') : i < j /\ conds'[j].live => conds'[i].live
      /\ \A i \in 1 .. Len(conds') : conds'[i].at.fid \in DOMAIN entered'
  <2>1. CASE \E e : If /\ Pushes(e)
    <3>1. PICK e : If /\ Pushes(e) BY <2>1
    <3>2. /\ Len(conds') = n + 1 /\ conds'[n + 1] = e /\ \A j \in 1 .. n : conds'[j] = conds[j]
      BY <1>1, <3>1, Pushed DEF CondsShape, Pushes
    <3>3. \A i \in 1 .. n + 1 : i \in 1 .. n \/ i = n + 1 BY <1>1
    <3>4. e.live => \A i \in 1 .. n : conds[i].live
      <4> SUFFICES ASSUME e.live, NEW i \in 1 .. n PROVE conds[i].live OBVIOUS
      <4>1. Live BY <3>1 DEF Pushes
      <4>2. conds # <<>> /\ Last(conds) = conds[n]
        <5>1. n > 0 OBVIOUS
        <5>2. conds # <<>> BY <1>1, <5>1, SeqEmpty DEF CondsShape
        <5> QED BY <1>1, <5>2, Popped DEF CondsShape
      <4>3. conds[n].live BY <4>1, <4>2 DEF Live
      <4>4. i = n \/ i < n BY <1>1
      <4>5. n \in 1 .. n OBVIOUS
      <4> QED BY <1>2, <4>3, <4>4, <4>5
    <3>5. e.at.fid \in DOMAIN entered BY <1>4, <3>1 DEF Pushes
    <3>6. \A i, j \in 1 .. n + 1 : i < j => i \in 1 .. n BY <1>1
    <3> QED BY <1>2, <1>3, <3>2, <3>3, <3>4, <3>5, <3>6
  <2>2. CASE Elif \/ Else
    <3>1. /\ n > 0 /\ Len(conds') = n /\ \A i \in 1 .. n : conds'[i].at = conds[i].at
          /\ \A i \in 1 .. n - 1 : conds'[i] = conds[i]
          /\ conds'[n].live => Outer
      <4>1. ~If /\ ~Endif BY <2>2 DEF If, Elif, Else, Endif, At
      <4> QED BY <1>1, <2>2, <4>1, CondSteps
    <3>2. \A i \in 1 .. n : i \in 1 .. n - 1 \/ i = n BY <1>1
    <3>3. conds'[n].live => \A i \in 1 .. n - 1 : conds[i].live
      <4> SUFFICES ASSUME conds'[n].live, NEW i \in 1 .. n - 1 PROVE conds[i].live OBVIOUS
      <4>1. conds[n - 1].live BY <1>1, <3>1 DEF Outer
      <4>2. i \in 1 .. n /\ n - 1 \in 1 .. n /\ (i < n - 1 \/ i = n - 1) BY <1>1
      <4> QED BY <1>2, <4>1, <4>2
    <3>4. \A i, j \in 1 .. n : i < j => i \in 1 .. n - 1 BY <1>1
    <3> QED BY <1>2, <1>3, <3>1, <3>2, <3>3, <3>4
  <2>3. CASE Endif
    <3>1. Len(conds') = n - 1 /\ \A i \in 1 .. n - 1 : conds'[i] = conds[i]
      <4>1. ~If /\ ~Elif /\ ~Else BY <2>3 DEF If, Elif, Else, Endif, At
      <4> QED BY <1>1, <2>3, <4>1, CondSteps
    <3>2. \A i \in 1 .. n - 1 : i \in 1 .. n BY <1>1
    <3> QED BY <1>2, <1>3, <3>1, <3>2
  <2>4. CASE conds' = conds BY <1>1, <1>2, <1>3, <2>4
  <2> QED BY <2>1, <2>2, <2>3, <2>4, CondSteps
<1>6. ASSUME NEW k \in DOMAIN open'
      PROVE  InEntry(conds', open'[k].fid) = Nest(text'[entered'[open'[k].fid]], open'[k].pos - 1)
  <2>1. \A i : /\ If => InEntry(conds', i) = InEntry(conds, i) + (IF Top.fid = i THEN 1 ELSE 0)
               /\ Endif => InEntry(conds', i) = InEntry(conds, i) - (IF Top.fid = i THEN 1 ELSE 0)
               /\ ~If /\ ~Endif => InEntry(conds', i) = InEntry(conds, i)
    BY InEntrySteps
  <2>2. CASE /\ k \in DOMAIN open /\ open'[k].fid = open[k].fid /\ open'[k].pos = open[k].pos
             /\ Reading => k < Len(open)
    <3>1. open[k].fid \in DOMAIN entered BY <2>2 DEF FilesOpen
    <3>2. entered'[open[k].fid] = FileOf(open[k]) BY <1>3, <3>1 DEF FileOf
    <3>3. If \/ Endif => Top.fid # open[k].fid
      <4> SUFFICES ASSUME If \/ Endif PROVE Top.fid # open[k].fid OBVIOUS
      <4>1. k < Len(open) /\ Len(open) \in DOMAIN open /\ Top = open[Len(open)] /\ Len(open) \in Nat
        BY <1>3, <1>4, <2>2, AtTop, UnitLines
      <4>2. k # Len(open)
        <5>1. k \in 1 .. Len(open) BY <2>2, UnitLines
        <5> QED BY <4>1, <5>1
      <4> QED BY <2>2, <4>1, <4>2 DEF FilesOpen
    <3>4. InEntry(conds', open[k].fid) = InEntry(conds, open[k].fid)
      <4>1. InEntry(conds, open[k].fid) \in Nat BY InEntrySteps
      <4> QED BY <2>1, <3>3, <4>1
    <3> QED BY <1>2, <1>3, <2>2, <3>2, <3>4
  <2>3. CASE Reading /\ k = Len(open) /\ k \in DOMAIN open /\ open'[k].fid = Top.fid /\ open'[k].pos = Top.pos + 1
    <3>1. Top = open[k] /\ Top.fid \in DOMAIN entered /\ Top.pos \in Nat \ {0} BY <1>3, <2>3, AtTop
    <3> DEFINE s == text[FileOf(Top)]
    <3>2. PICK p \in Nat : Top.pos = p + 1 /\ Top.pos - 1 = p
      <4>1. Top.pos - 1 \in Nat /\ Top.pos = (Top.pos - 1) + 1 BY <3>1
      <4> QED BY <4>1
    <3>3. text'[entered'[Top.fid]] = s /\ TopLine = s[p + 1] BY <1>3, <3>1, <3>2 DEF FileOf, TopLine, LineAt
    <3>4. InEntry(conds, Top.fid) = Nest(s, p) /\ InEntry(conds, Top.fid) \in Nat BY <1>2, <2>3, <3>1, <3>2, InEntrySteps
    <3> HIDE DEF s
    <3>5. /\ Nest(s, p) \in Int
          /\ s[p + 1].d \in {"if", "ifdef", "ifndef"} => Nest(s, p + 1) = Nest(s, p) + 1
          /\ s[p + 1].d = "endif" => Nest(s, p + 1) = Nest(s, p) - 1
          /\ s[p + 1].d \notin {"if", "ifdef", "ifndef", "endif"} => Nest(s, p + 1) = Nest(s, p)
      BY NestOn
    <3>6. /\ If <=> s[p + 1].d \in {"if", "ifdef", "ifndef"}
          /\ Endif <=> s[p + 1].d = "endif"
      <4>1. If => TopLine.d \in {"if", "ifdef", "ifndef"} BY DEF If, At
      <4>2. Endif => TopLine.d = "endif" BY DEF Endif, At
      <4>3. ~If /\ ~Endif => TopLine.d \notin {"if", "ifdef", "ifndef", "endif"}
        BY <2>3 DEF Reading, Define, Undef, Elif, Else, Skip, Comment, Once, Include, Use, Declare, At
      <4> QED BY <3>3, <4>1, <4>2, <4>3
    <3>7. InEntry(conds', Top.fid) = Nest(s, p + 1) BY <2>1, <3>4, <3>5, <3>6
    <3>8. open'[k].pos - 1 = p + 1 BY <2>3, <3>2
    <3> QED BY <2>3, <3>3, <3>7, <3>8
  <2>4. CASE /\ Include /\ k = Len(open) + 1 /\ open'[k].fid = Len(entered) + 1 /\ open'[k].pos = 1
             /\ Len(entered') = Len(entered) + 1 /\ entered'[Len(entered) + 1] = TopLine.m
    <3>1. ~If /\ ~Endif BY <2>4 DEF Include, If, Endif, At
    <3>2. \A j \in 1 .. n : j \notin Of(conds, Len(entered) + 1)
      <4>1. Len(entered) \in Nat /\ DOMAIN entered = 1 .. Len(entered) BY UnitLines
      <4> QED BY <1>2, <4>1 DEF Of
    <3>3. InEntry(conds, Len(entered) + 1) = 0
      <4>1. ~(CountTo(Of(conds, Len(entered) + 1), n) > 0) BY <3>2, CountedSome
      <4>2. CountTo(Of(conds, Len(entered) + 1), n) \in Nat BY CountedOn
      <4> QED BY <1>1, <4>1, <4>2 DEF InEntry
    <3>4. open'[k].pos - 1 = 0 BY <2>4
    <3>5. \A s : Nest(s, 0) = 0 BY NestOn
    <3> QED BY <2>1, <2>4, <3>1, <3>3, <3>4, <3>5
  <2> QED BY <2>2, <2>3, <2>4, OpenSteps
<1> QED BY <1>5, <1>6 DEF CondsRight, FileOf

--------------------------------------------------------------------------------
(* What was defined when an entry of a file began. *)

\* What is remembered of the entries: those that hand text on, and how much was
\* defined when they began.
LEMMA Entries ==
  ASSUME UnitsAssumption, FilesOpen, HistoryShape, [MonitorNext]_monitorVars
  PROVE  /\ ~Use /\ ~Declare => history'.bodies = history.bodies
         /\ Use \/ Declare => history'.bodies = history.bodies \cup {Top.fid}
         /\ \/ entered' = entered /\ history'.begun = history.begun
            \/ /\ Include /\ entered' = Append(entered, TopLine.m)
               /\ history'.begun = Append(history.begun, Len(history.defs))
         /\ ~Undef => history'.removed = history.removed
         /\ Undef => history'.removed = history.removed \cup ({macros[TopLine.m]} \ {Nowhere})
         /\ ~Define => history'.defs = history.defs
         /\ Define => history'.defs = Append(history.defs, Top)
<1> DEFINE e == history.expanded  r == history.removed  b == history.bodies
           j == history.judged  d == history.defs  c == history.declared  g == history.begun
           Is7(h, bb, gg) == h.bodies = bb /\ h.begun = gg
<1>1. history = [expanded |-> e, removed |-> r, bodies |-> b, judged |-> j, defs |-> d, declared |-> c, begun |-> g]
  BY DEF HistoryShape
<1>2. r = history.removed /\ b = history.bodies /\ d = history.defs /\ g = history.begun OBVIOUS
<1> HIDE DEF e, r, b, j, d, c, g
<1>3. Define \/ Undef \/ If \/ Elif \/ Else \/ Endif \/ Skip \/ Comment \/ Once \/ Include \/ Use \/ Declare \/ Resting
  BY DEF MonitorNext, Done, Resting
<1>4. Define => Is7(history', b, g) /\ entered' = entered
  <2> SUFFICES ASSUME Define PROVE Is7(history', b, g) /\ entered' = entered OBVIOUS
  <2>1. history' = [history EXCEPT !.defs = Append(@, Top)] /\ entered' = entered BY DEF Define, Stay
  <2> QED BY <1>1, <2>1
<1>5. Undef => Is7(history', b, g) /\ entered' = entered
  <2> SUFFICES ASSUME Undef PROVE Is7(history', b, g) /\ entered' = entered OBVIOUS
  <2>1. history' = [history EXCEPT !.removed = @ \cup ({macros[TopLine.m]} \ {Nowhere})] /\ entered' = entered BY DEF Undef, Stay
  <2> QED BY <1>1, <2>1
<1>6. If \/ Elif => Is7(history', b, g) /\ entered' = entered
  <2> SUFFICES ASSUME If \/ Elif PROVE Is7(history', b, g) /\ entered' = entered OBVIOUS
  <2>1. entered' = entered BY DEF If, Elif, Stay
  <2>2. \/ history' = history
        \/ \E x : history' = [history EXCEPT !.judged = Judge, !.expanded = @ \cup x]
    <3>1. CASE If
      <4>1. \/ history' = history
            \/ history' = [history EXCEPT !.judged = Judge, !.expanded = @ \cup {macros[m] : m \in UsedBy(TopLine.t)}]
        BY <3>1, Zenon DEF If
      <4> QED BY <4>1
    <3>2. CASE Elif
      <4>1. \/ history' = history
            \/ history' = [history EXCEPT !.judged = Judge, !.expanded = @ \cup {macros[m] : m \in UsedBy(TopLine.t)}]
        BY <3>2, Zenon DEF Elif
      <4> QED BY <4>1
    <3> QED BY <3>1, <3>2
  <2>3. CASE history' = history BY <1>2, <2>1, <2>3
  <2>4. ASSUME NEW x, history' = [history EXCEPT !.judged = Judge, !.expanded = @ \cup x]
        PROVE  Is7(history', b, g)
    <3> DEFINE judged == Judge
    <3>1. history' = [history EXCEPT !.judged = judged, !.expanded = @ \cup x] BY <2>4
    <3> HIDE DEF judged
    <3>2. history' = [expanded |-> e \cup x, removed |-> r, bodies |-> b, judged |-> judged, defs |-> d, declared |-> c, begun |-> g]
      BY <1>1, <3>1
    <3> QED BY <3>2
  <2> QED BY <2>1, <2>2, <2>3, <2>4
<1>7. Else \/ Endif \/ Skip \/ Comment \/ Once \/ Resting => Is7(history', b, g) /\ entered' = entered
  <2> SUFFICES ASSUME Else \/ Endif \/ Skip \/ Comment \/ Once \/ Resting PROVE Is7(history', b, g) /\ entered' = entered OBVIOUS
  <2>1. history' = history /\ entered' = entered
    BY DEF Else, Endif, Skip, Comment, Once, Resting, EndOfFile, EndOfMainFile, Match, EndOfTranslationUnit, monitorVars, Stay, pp
  <2> QED BY <1>2, <2>1
<1>8. Include => \/ Is7(history', b, g) /\ entered' = entered
                 \/ Is7(history', b, Append(g, Len(d))) /\ entered' = Append(entered, TopLine.m)
  <2> SUFFICES ASSUME Include
               PROVE  \/ Is7(history', b, g) /\ entered' = entered
                      \/ Is7(history', b, Append(g, Len(d))) /\ entered' = Append(entered, TopLine.m)
    OBVIOUS
  <2>1. \/ history' = history /\ entered' = entered
        \/ history' = [history EXCEPT !.begun = Append(@, Len(history.defs))] /\ entered' = Append(entered, TopLine.m)
    BY Zenon DEF Include
  <2> QED BY <1>1, <1>2, <2>1
<1>9. Use \/ Declare => Is7(history', b \cup {Top.fid}, g) /\ entered' = entered
  <2> SUFFICES ASSUME Use \/ Declare PROVE Is7(history', b \cup {Top.fid}, g) /\ entered' = entered OBVIOUS
  <2>1. entered' = entered BY DEF Use, Declare, Stay
  <2>2. \/ \E x : history' = [Contributed EXCEPT !.expanded = @ \cup x]
        \/ history' = [Contributed EXCEPT !.declared = @ \cup {Top}]
    <3>1. CASE Use
      <4>1. history' = [Contributed EXCEPT !.expanded = @ \cup {macros[m] : m \in {m \in {TopLine.m} : IsDefined(m)}}]
        BY <3>1, Zenon DEF Use
      <4> QED BY <4>1
    <3>2. CASE Declare BY <3>2 DEF Declare
    <3> QED BY <3>1, <3>2
  <2>3. Contributed = [expanded |-> e, removed |-> r, bodies |-> b \cup {Top.fid}, judged |-> j, defs |-> d, declared |-> c, begun |-> g]
    BY <1>1 DEF Contributed
  <2> QED BY <2>1, <2>2, <2>3
<1>10. Use \/ Declare => ~Include /\ ~Define /\ ~Undef BY DEF Use, Declare, Include, Define, Undef, At
<1>11. Define => history'.defs = Append(history.defs, Top) /\ history'.removed = history.removed BY Histories DEF Grows
<1>12. Undef => history'.removed = history.removed \cup ({macros[TopLine.m]} \ {Nowhere}) /\ history'.defs = history.defs
  BY Histories DEF Grows
<1>13. ~Define /\ ~Undef => history'.removed = history.removed /\ history'.defs = history.defs
  <2> SUFFICES ASSUME ~Define, ~Undef PROVE history'.removed = history.removed /\ history'.defs = history.defs OBVIOUS
  <2>1. Expanding BY Kept
  <2> QED BY <2>1 DEF Expanding, Uses, UsesNone, Grown, Grows
<1> HIDE DEF Is7
<1>14. ~Use /\ ~Declare => history'.bodies = history.bodies BY <1>2, <1>3, <1>4, <1>5, <1>6, <1>7, <1>8 DEF Is7
<1>15. Use \/ Declare => history'.bodies = history.bodies \cup {Top.fid} BY <1>2, <1>9 DEF Is7
<1>16. \/ entered' = entered /\ history'.begun = history.begun
       \/ /\ Include /\ entered' = Append(entered, TopLine.m)
          /\ history'.begun = Append(history.begun, Len(history.defs))
  BY <1>2, <1>3, <1>4, <1>5, <1>6, <1>7, <1>8, <1>9 DEF Is7
<1>17. Define => ~Undef BY DEF Define, Undef, At
<1> QED BY <1>11, <1>12, <1>13, <1>14, <1>15, <1>16, <1>17

\* No line of the files that are entered undefines m.
Unremoved(m) == \A at \in Is({"undef"}) : LineAt(at).m # m
\* Nothing had defined the guard of the file when its entry i began.
Fresh(i) ==
  LET own == ControllingMacro(entered[i])
  IN  own # "" /\ Unremoved(own) => \A j \in 1 .. history.begun[i] : LineAt(history.defs[j]).m # own

LEMMA UnremovedOn ==
  ASSUME UnitsAssumption, FilesOpen, [MonitorNext]_monitorVars, NEW m
  PROVE  /\ Unremoved(m)' => Unremoved(m)
         /\ Undef /\ m = TopLine.m => ~Unremoved(m)'
<1>1. /\ text' = text /\ \A i \in DOMAIN entered : i \in DOMAIN entered' /\ entered'[i] = entered[i]
      /\ DOMAIN entered = 1 .. Len(entered) /\ DOMAIN entered' = 1 .. Len(entered')
  <2>1. FilesOpen' BY Moves
  <2>2. DOMAIN entered' = 1 .. Len(entered') BY <2>1 DEF FilesOpen
  <2> QED BY <2>2, Moves, UnitLines
<1>2. ASSUME NEW i \in DOMAIN entered, NEW p \in DOMAIN text[entered[i]], text[entered[i]][p].d = "undef", Unremoved(m)'
      PROVE  text[entered[i]][p].m # m
  <2> DEFINE at == [fid |-> i, pos |-> p]
  <2>1. p \in DOMAIN text'[entered'[i]] /\ text'[entered'[i]][p].d \in {"undef"} BY <1>1, <1>2
  <2>2. at \in Is({"undef"})'
    <3>1. i \in 1 .. Len(entered') BY <1>1
    <3>2. at \in {[fid |-> i, pos |-> q] : q \in {q \in DOMAIN text'[entered'[i]] : text'[entered'[i]][q].d \in {"undef"}}}
      BY <2>1
    <3> HIDE DEF at
    <3> QED BY <3>1, <3>2 DEF Is, ReadTo
  <2>3. text'[entered'[at.fid]][at.pos].m # m BY <1>2, <2>2 DEF Unremoved, LineAt, FileOf
  <2> QED BY <1>1, <2>3
<1>3. Unremoved(m)' => Unremoved(m)
  <2> SUFFICES ASSUME Unremoved(m)', NEW at \in Is({"undef"}) PROVE LineAt(at).m # m BY DEF Unremoved
  <2>1. PICK i \in 1 .. Len(entered) : \E p \in DOMAIN text[entered[i]] :
          at = [fid |-> i, pos |-> p] /\ text[entered[i]][p].d \in {"undef"}
    BY DEF Is, ReadTo
  <2>2. PICK p \in DOMAIN text[entered[i]] : at = [fid |-> i, pos |-> p] /\ text[entered[i]][p].d = "undef" BY <2>1
  <2>3. text[entered[i]][p].m # m BY <1>1, <1>2, <2>2
  <2> QED BY <2>2, <2>3 DEF LineAt, FileOf
<1>4. Undef /\ m = TopLine.m => ~Unremoved(m)'
  <2> SUFFICES ASSUME Undef, m = TopLine.m, Unremoved(m)' PROVE FALSE OBVIOUS
  <2>1. open # <<>> /\ ~AtEnd /\ TopLine.d = "undef" BY DEF Undef, At
  <2>2. Top.fid \in DOMAIN entered /\ Top.pos \in DOMAIN text[FileOf(Top)] BY <2>1, AtTop
  <2> QED BY <1>2, <2>1, <2>2 DEF TopLine, LineAt, FileOf
<1> QED BY <1>3, <1>4

\* The definitions of before stay what they are.
LEMMA DefsOn ==
  ASSUME UnitsAssumption, FilesOpen, Recorded, [MonitorNext]_monitorVars
  PROVE  /\ Len(history.defs) \in Nat /\ DOMAIN history.defs = 1 .. Len(history.defs)
         /\ Len(history'.defs) \in Nat /\ DOMAIN history'.defs = 1 .. Len(history'.defs)
         /\ Len(history'.defs) = IF Define THEN Len(history.defs) + 1 ELSE Len(history.defs)
         /\ \A j \in 1 .. Len(history.defs) : /\ history'.defs[j] = history.defs[j]
                                              /\ LineAt(history.defs[j])' = LineAt(history.defs[j])
                                              /\ FileOf(history.defs[j])' = FileOf(history.defs[j])
                                              /\ history.defs[j] \in Past
         /\ Define => /\ history'.defs[Len(history.defs) + 1] = Top
                      /\ LineAt(history.defs[Len(history.defs)])' = TopLine
                      /\ FileOf(history.defs[Len(history.defs)])' = FileOf(Top)
<1> DEFINE D == history.defs
<1>1. D \in Seq(Named) /\ Named \subseteq Past /\ HistoryShape BY DEF Recorded, Named
<1>2. Len(D) \in Nat /\ DOMAIN D = 1 .. Len(D) /\ \A i \in 1 .. Len(D) : D[i] \in Past BY <1>1, ElementOfSeq
<1>3. /\ \A at \in Past : LineAt(at)' = LineAt(at) /\ FileOf(at)' = FileOf(at)
      /\ Define => \A at \in Past' : LineAt(at)' = LineAt(at) /\ FileOf(at)' = FileOf(at)
  BY Moves DEF Same, Reading
<1>4. CASE ~Define
  <2>1. history'.defs = D BY <1>1, <1>4, Kept
  <2>2. \A i \in 1 .. Len(D) : /\ LineAt(history.defs[i])' = LineAt(D[i])
                               /\ FileOf(history.defs[i])' = FileOf(D[i])
    BY <1>2, <1>3, <2>1 DEF LineAt, FileOf
  <2> QED BY <1>2, <1>4, <2>1, <2>2
<1>5. CASE Define
  <2>1. history'.defs = Append(D, Top) BY <1>1, <1>5, Histories DEF Grows
  <2>2. Top \in Past' /\ Top \notin Past BY <1>5, Moves DEF Reading
  <2>3. PICK n \in Nat : n = Len(D) BY <1>2
  <2>4. PICK top \in Past' : top = Top BY <2>2
  <2>5. /\ Len(history'.defs) = n + 1 /\ DOMAIN history'.defs = 1 .. n + 1
        /\ history'.defs[n + 1] = top /\ \A i \in 1 .. n : history'.defs[i] = D[i]
    BY <1>1, <1>2, <2>1, <2>3, <2>4
  <2>6. LineAt(top)' = TopLine /\ FileOf(top)' = FileOf(Top) BY <1>3, <1>5, <2>4 DEF TopLine
  <2>7. LineAt(history.defs[Len(history.defs)])' = TopLine /\ FileOf(history.defs[Len(history.defs)])' = FileOf(Top)
    <3>1. history'.defs[Len(history'.defs)] = top BY <2>5
    <3> QED BY <2>6, <3>1 DEF LineAt, FileOf
  <2>8. \A i \in 1 .. n : LineAt(history.defs[i])' = LineAt(D[i]) /\ FileOf(history.defs[i])' = FileOf(D[i])
    BY <1>2, <1>3, <2>3, <2>5 DEF LineAt, FileOf
  <2> QED BY <1>2, <1>5, <2>2, <2>3, <2>4, <2>5, <2>7, <2>8
<1> QED BY <1>4, <1>5

LEMMA OwnOn ==
  ASSUME text' = text, NEW f
  PROVE  ControllingMacro(f)' = ControllingMacro(f)
BY DEF ControllingMacro

\* How much was defined when each entry began.
Begun ==
  /\ history.begun \in Seq(Nat) /\ Len(history.begun) = Len(entered)
  /\ \A i \in DOMAIN entered : history.begun[i] <= Len(history.defs)
  /\ \A k \in DOMAIN open : open[k].pos = 1 => k = Len(open) /\ history.begun[open[k].fid] = Len(history.defs)

LEMMA BegunOn ==
  ASSUME UnitsAssumption, FilesOpen, Recorded, Begun, [MonitorNext]_monitorVars
  PROVE  Begun' /\ \A i \in DOMAIN entered : history'.begun[i] = history.begun[i]
<1> DEFINE B == history.begun
           D == Len(history.defs)
<1>1. /\ B \in Seq(Nat) /\ Len(B) = Len(entered) /\ Len(entered) \in Nat /\ DOMAIN entered = 1 .. Len(entered)
      /\ \A i \in DOMAIN entered : B[i] \in Nat /\ B[i] <= D
      /\ \A k \in DOMAIN open : open[k].pos = 1 => k = Len(open) /\ B[open[k].fid] = D
  <2>1. Len(entered) \in Nat /\ DOMAIN entered = 1 .. Len(entered) BY UnitLines
  <2>2. B \in Seq(Nat) /\ Len(B) = Len(entered) BY DEF Begun
  <2>3. \A i \in 1 .. Len(entered) : B[i] \in Nat BY <2>2, ElementOfSeq
  <2> QED BY <2>1, <2>2, <2>3 DEF Begun
<1>2. D \in Nat /\ Len(history'.defs) \in Nat /\ Len(history'.defs) >= D /\ (~Define => Len(history'.defs) = D)
  BY DefsOn
<1>3. HistoryShape BY DEF Recorded
<1>4. \/ entered' = entered /\ history'.begun = B
      \/ Include /\ entered' = Append(entered, TopLine.m) /\ history'.begun = Append(B, D)
  BY <1>3, Entries
<1>5. Include => ~Define BY DEF Include, Define, At
<1>6. FilesOpen' BY Moves
<1>7. DOMAIN entered' = 1 .. Len(entered') BY <1>6 DEF FilesOpen
<1>8. /\ history'.begun \in Seq(Nat) /\ Len(history'.begun) = Len(entered')
      /\ \A i \in DOMAIN entered' : history'.begun[i] <= Len(history'.defs)
      /\ \A i \in DOMAIN entered : history'.begun[i] = B[i]
      /\ Len(entered') = Len(entered) + 1 => history'.begun[Len(entered) + 1] = D
  <2>1. CASE entered' = entered /\ history'.begun = B
    <3>1. \A i \in DOMAIN entered : B[i] <= Len(history'.defs) BY <1>1, <1>2
    <3>2. Len(entered') # Len(entered) + 1
      <4>1. \A n \in Nat : n # n + 1 OBVIOUS
      <4> QED BY <1>1, <2>1, <4>1
    <3>3. history'.begun \in Seq(Nat) /\ Len(history'.begun) = Len(entered') BY <1>1, <2>1
    <3>4. \A i \in DOMAIN entered' : history'.begun[i] <= Len(history'.defs) BY <2>1, <3>1
    <3> QED BY <2>1, <3>2, <3>3, <3>4
  <2>2. CASE Include /\ entered' = Append(entered, TopLine.m) /\ history'.begun = Append(B, D)
    <3>1. /\ Append(B, D) \in Seq(Nat) /\ Len(Append(B, D)) = Len(B) + 1 /\ Append(B, D)[Len(B) + 1] = D
          /\ \A i \in 1 .. Len(B) : Append(B, D)[i] = B[i]
      BY <1>1, <1>2, AppendProperties
    <3>2. Len(entered') = Len(entered) + 1
      <4>1. IsSeq(entered) BY DEF IsSeq, FilesOpen
      <4> QED BY <2>2, <4>1, Pushed
    <3>3. \A i \in 1 .. Len(entered) + 1 : i \in 1 .. Len(entered) \/ i = Len(entered) + 1 BY <1>1
    <3>4. Len(history'.defs) = D BY <1>2, <1>5, <2>2
    <3> QED BY <1>1, <1>2, <1>7, <2>2, <3>1, <3>2, <3>3, <3>4
  <2> QED BY <1>4, <2>1, <2>2
<1>9. ASSUME NEW k \in DOMAIN open', open'[k].pos = 1 PROVE k = Len(open') /\ history'.begun[open'[k].fid] = Len(history'.defs)
  <2>1. CASE /\ k \in DOMAIN open /\ open'[k].fid = open[k].fid /\ open'[k].pos = open[k].pos
             /\ Reading => k < Len(open)
    <3>1. k = Len(open) /\ B[open[k].fid] = D BY <1>1, <1>9, <2>1
    <3>2. ~Reading /\ ~Define
      <4>1. Define => Reading BY DEF Reading
      <4>2. Len(open) \in Nat BY UnitLines
      <4> QED BY <2>1, <3>1, <4>1, <4>2
    <3>3. ~EndOfFile
      <4> SUFFICES ASSUME EndOfFile PROVE FALSE OBVIOUS
      <4>1. Len(open') = Len(open) - 1 /\ Len(open) \in Nat /\ DOMAIN open' = 1 .. Len(open') /\ Len(open') \in Nat BY OpenOn
      <4> QED BY <3>1, <4>1
    <3>4. open' = open BY <3>2, <3>3, OpenOn
    <3>5. open[k].fid \in DOMAIN entered BY <2>1 DEF FilesOpen
    <3> QED BY <1>2, <1>8, <2>1, <3>1, <3>2, <3>4, <3>5
  <2>2. CASE Reading /\ k = Len(open) /\ k \in DOMAIN open /\ open'[k].fid = Top.fid /\ open'[k].pos = Top.pos + 1
    <3>1. open # <<>> BY <2>2, Moves
    <3>2. Top.pos \in Nat \ {0} BY <3>1, AtTop
    <3> QED BY <1>9, <2>2, <3>2
  <2>3. CASE /\ Include /\ k = Len(open) + 1 /\ open'[k].fid = Len(entered) + 1 /\ open'[k].pos = 1
             /\ Len(entered') = Len(entered) + 1 /\ entered'[Len(entered) + 1] = TopLine.m
    <3>1. Reading BY <2>3 DEF Reading
    <3>2. Len(open') = Len(open) + 1
      <4>1. Len(open) \in Nat /\ DOMAIN open' = 1 .. Len(open') /\ (Len(open') = Len(open) \/ Len(open') = Len(open) + 1)
        BY <3>1, OpenOn
      <4>2. k = Len(open) + 1 /\ k \in 1 .. Len(open') BY <2>3, <4>1
      <4>3. \A n \in Nat : n + 1 \notin 1 .. n OBVIOUS
      <4> QED BY <4>1, <4>2, <4>3
    <3> QED BY <1>2, <1>5, <1>8, <2>3, <3>2
  <2> QED BY <2>1, <2>2, <2>3, OpenSteps
<1> QED BY <1>8, <1>9 DEF Begun

\* A macro that nothing undefines stays defined.
MacrosKept ==
  \A m \in Names : macros[m] = Nowhere /\ Unremoved(m) =>
    \A j \in 1 .. Len(history.defs) : LineAt(history.defs[j]).m # m

LEMMA MacrosKeptOn ==
  ASSUME UnitsAssumption, FilesOpen, Recorded, MacrosKept, [MonitorNext]_monitorVars
  PROVE  MacrosKept'
<1> SUFFICES ASSUME NEW m \in Names, macros'[m] = Nowhere, Unremoved(m)', NEW j \in 1 .. Len(history'.defs)
             PROVE  LineAt(history.defs[j])'.m # m
  BY DEF MacrosKept
<1>1. DOMAIN macros = Names BY DEF Recorded
<1>2. Unremoved(m) /\ (Undef => m # TopLine.m) BY UnremovedOn
<1>3. CASE Define
  <2>1. TopLine.m \in Names /\ open # <<>> BY <1>3, NamedAtTop DEF Define, At
  <2>2. macros' = [macros EXCEPT ![TopLine.m] = Top] /\ Top # Nowhere BY <1>3, <2>1, AtTop DEF Define
  <2>3. m # TopLine.m /\ macros[m] = Nowhere BY <1>1, <2>1, <2>2
  <2>4. PICK n \in Nat : n = Len(history.defs) BY DefsOn
  <2>5. j \in 1 .. n \/ j = n + 1 BY <1>3, <2>4, DefsOn
  <2>6. CASE j \in 1 .. n BY <1>2, <2>3, <2>4, <2>6, DefsOn DEF MacrosKept
  <2>7. CASE j = n + 1
    <3>1. j = Len(history'.defs) BY <1>3, <2>4, <2>7, DefsOn
    <3>2. LineAt(history.defs[Len(history.defs)])' = TopLine BY <1>3, DefsOn
    <3>3. LineAt(history.defs[j])' = TopLine
      <4>1. history'.defs[j] = history'.defs[Len(history'.defs)] BY <3>1
      <4> QED BY <3>2, <4>1 DEF LineAt, FileOf
    <3> QED BY <2>3, <3>3
  <2> QED BY <2>5, <2>6, <2>7
<1>4. CASE ~Define
  <2>1. macros[m] = Nowhere
    <3>1. CASE Undef
      <4>1. macros' = [macros EXCEPT ![TopLine.m] = Nowhere] BY <3>1 DEF Undef
      <4> QED BY <1>1, <1>2, <3>1, <4>1
    <3>2. CASE ~Undef BY <1>4, <3>2, Kept DEF Recorded
    <3> QED BY <3>1, <3>2
  <2>2. j \in 1 .. Len(history.defs) BY <1>4, DefsOn
  <2> QED BY <1>2, <2>1, <2>2, DefsOn DEF MacrosKept
<1> QED BY <1>3, <1>4

LEMMA FreshOn ==
  ASSUME UnitsAssumption, FilesOpen, Recorded, Begun, [MonitorNext]_monitorVars, NEW i \in DOMAIN entered, Fresh(i)
  PROVE  Fresh(i)'
<1>1. PICK own : own = ControllingMacro(entered[i]) OBVIOUS
<1>2. ControllingMacro(entered[i])' = own
  <2>1. text' = text /\ entered'[i] = entered[i] BY Moves
  <2> QED BY <1>1, <2>1 DEF ControllingMacro
<1>3. PICK n \in Nat : history.begun[i] = n /\ history'.begun[i] = n /\ n <= Len(history.defs)
  <2>1. history.begun \in Seq(Nat) /\ Len(history.begun) = Len(entered) /\ history.begun[i] <= Len(history.defs) BY DEF Begun
  <2>2. DOMAIN entered = 1 .. Len(entered) BY UnitLines
  <2>3. history.begun[i] \in Nat BY <2>1, <2>2, ElementOfSeq
  <2> QED BY <2>1, <2>3, BegunOn
<1>4. own # "" /\ Unremoved(own) => \A j \in 1 .. n : LineAt(history.defs[j]).m # own BY <1>1, <1>3 DEF Fresh
<1>5. Unremoved(own)' => Unremoved(own) BY UnremovedOn
<1>6. \A j \in 1 .. n : LineAt(history.defs[j])' = LineAt(history.defs[j])
  <2>1. \A j \in 1 .. n : j \in 1 .. Len(history.defs) BY <1>3, DefsOn
  <2> QED BY <2>1, DefsOn
<1>7. own # "" /\ Unremoved(own)' => \A j \in 1 .. n : LineAt(history.defs[j])'.m # own BY <1>4, <1>5, <1>6
<1>8. ControllingMacro(entered[i])' # "" /\ Unremoved(ControllingMacro(entered[i]))' => \A j \in 1 .. history'.begun[i] : LineAt(history.defs[j])'.m # ControllingMacro(entered[i])'
  <2>1. Unremoved(ControllingMacro(entered[i]))' = Unremoved(own)' BY <1>2 DEF Unremoved
  <2> QED BY <1>2, <1>3, <1>7, <2>1
<1> QED BY <1>8 DEF Fresh

--------------------------------------------------------------------------------
(* The first conditional of an entry decides on all of its text. *)

\* The first conditional of an entry; what is in it is live only if nothing had
\* defined the guard when the entry began.
FirstCond(c, i) == /\ c \in 1 .. Len(conds) /\ conds[c].at.fid = i
                   /\ \A b \in 1 .. Len(conds) : b < c => conds[b].at.fid # i
WithinText(k) == ControllingMacro(FileOf(open[k])) # "" /\ open[k].pos > 1 /\ open[k].pos <= Len(text[FileOf(open[k])])
GuardsRight ==
  /\ \A k \in DOMAIN open : WithinText(k) => \E c \in 1 .. Len(conds) : FirstCond(c, open[k].fid) /\ (conds[c].live => Fresh(open[k].fid))
  /\ history.bodies \subseteq DOMAIN entered /\ \A i \in history.bodies : Fresh(i)

\* The first conditional of an entry stays what it is until its #endif.
LEMMA FirstOn ==
  ASSUME UnitsAssumption, FilesOpen, CondsShape, [MonitorNext]_monitorVars, NEW i, NEW c, FirstCond(c, i),
         Reading /\ Top.fid = i => If \/ InEntry(conds, i) > 1 \/ (~Elif /\ ~Else /\ ~Endif)
  PROVE  FirstCond(c, i)' /\ conds'[c] = conds[c]
<1>1. PICK n \in Nat : n = Len(conds) BY CondSteps
<1>2. c \in 1 .. n /\ conds[c].at.fid = i /\ \A b \in 1 .. n : b < c => conds[b].at.fid # i BY <1>1 DEF FirstCond
<1>3. InEntry(conds, i) > 1 => \E b \in 1 .. n : c < b
  <2> SUFFICES ASSUME InEntry(conds, i) > 1 PROVE \E b \in 1 .. n : c < b OBVIOUS
  <2>1. PICK b \in 1 .. n : b \in Of(conds, i) /\ b # c
    <3>1. CountTo(Of(conds, i), n) > 1 BY <1>1 DEF InEntry
    <3> QED BY <1>2, <3>1, CountedSome
  <2>2. conds[b].at.fid = i BY <2>1 DEF Of
  <2> QED BY <1>2, <2>1, <2>2
<1>4. CASE \E e : If /\ Pushes(e)
  <2>1. PICK e : Pushes(e) BY <1>4
  <2>2. Len(conds') = n + 1 /\ \A b \in 1 .. n : conds'[b] = conds[b]
    BY <1>1, <2>1, Pushed DEF CondsShape, Pushes
  <2>3. \A b \in 1 .. n + 1 : b < c => b \in 1 .. n BY <1>2
  <2>4. c \in 1 .. n + 1 BY <1>2
  <2> QED BY <1>2, <2>2, <2>3, <2>4 DEF FirstCond
<1>5. CASE Elif \/ Else \/ Endif
  <2>1. Reading /\ ~If /\ n > 0 /\ Last(conds) = conds[n] /\ Last(conds).at.fid = Top.fid
    <3>1. ~If BY <1>5 DEF If, Elif, Else, Endif, At
    <3>2. n > 0 /\ Last(conds) = conds[n] /\ Last(conds).at.fid = Top.fid BY <1>1, <1>5, <3>1, CondSteps
    <3> QED BY <1>5, <3>1, <3>2 DEF Reading
  <2>2. c < n
    <3>1. CASE Top.fid = i BY <1>2, <1>3, <1>5, <2>1, <3>1
    <3>2. CASE Top.fid # i BY <1>2, <2>1, <3>2
    <3> QED BY <3>1, <3>2
  <2>3. /\ \A b \in 1 .. n - 1 : conds'[b] = conds[b]
        /\ Len(conds') = n \/ Len(conds') = n - 1
    BY <1>1, <1>5, <2>1, CondSteps
  <2>4. c \in 1 .. n - 1 /\ \A b \in 1 .. n : b < c => b \in 1 .. n - 1 BY <1>2, <2>2
  <2>5. \A b \in 1 .. Len(conds') : b \in 1 .. n BY <2>3
  <2>6. c \in 1 .. Len(conds') BY <2>3, <2>4
  <2> QED BY <1>2, <2>3, <2>4, <2>5, <2>6 DEF FirstCond
<1>6. CASE conds' = conds BY <1>6 DEF FirstCond
<1> QED BY <1>4, <1>5, <1>6, CondSteps

LEMMA AllLive ==
  ASSUME CondsShape, CondsRight, Live
  PROVE  \A c \in 1 .. Len(conds) : conds[c].live
<1>1. PICK n \in Nat : n = Len(conds) BY SeqEmpty DEF CondsShape
<1> SUFFICES ASSUME NEW c \in 1 .. n PROVE conds[c].live BY <1>1
<1>2. conds # <<>> /\ Last(conds) = conds[n]
  <2>1. n > 0 OBVIOUS
  <2>2. conds # <<>> BY <1>1, <2>1, SeqEmpty DEF CondsShape
  <2> QED BY <1>1, <2>2, Popped DEF CondsShape
<1>3. conds[n].live BY <1>2 DEF Live
<1>4. c = n \/ c < n OBVIOUS
<1>5. n \in 1 .. n OBVIOUS
<1> QED BY <1>1, <1>3, <1>4, <1>5 DEF CondsRight

LEMMA GuardsOn ==
  ASSUME UnitsAssumption, FilesOpen, Recorded, CondsShape, CondsRight, Begun, MacrosKept, GuardsRight,
         [MonitorNext]_monitorVars
  PROVE  GuardsRight'
<1>1. PICK n \in Nat : n = Len(conds) BY CondSteps
<1>2. /\ text' = text /\ FilesOpen' /\ \A i \in DOMAIN entered : i \in DOMAIN entered' /\ entered'[i] = entered[i]
      /\ Reading => open # <<>> /\ ~AtEnd
  BY Moves
<1>3. \A f : ControllingMacro(f)' = ControllingMacro(f) BY <1>2, OwnOn
<1>4. \A i \in DOMAIN entered : Fresh(i) => Fresh(i)' BY FreshOn
<1>5. /\ \A k \in DOMAIN open : WithinText(k) => \E c \in 1 .. n : FirstCond(c, open[k].fid) /\ (conds[c].live => Fresh(open[k].fid))
      /\ history.bodies \subseteq DOMAIN entered /\ \A i \in history.bodies : Fresh(i)
  BY <1>1 DEF GuardsRight
<1>6. ASSUME Reading
      PROVE  /\ Len(open) \in DOMAIN open /\ Top = open[Len(open)] /\ Top.fid \in DOMAIN entered /\ Top.pos \in Nat \ {0}
             /\ FileOf(Top) \in DOMAIN text /\ Top.pos \in DOMAIN text[FileOf(Top)]
             /\ Len(text[FileOf(Top)]) \in Nat /\ Top.pos <= Len(text[FileOf(Top)]) /\ IsSeq(text[FileOf(Top)])
             /\ TopLine = text[FileOf(Top)][Top.pos]
  <2>1. /\ Len(open) \in DOMAIN open /\ Top = open[Len(open)] /\ Top.fid \in DOMAIN entered /\ Top.pos \in Nat \ {0}
        /\ FileOf(Top) \in DOMAIN text /\ Top.pos \in DOMAIN text[FileOf(Top)]
    BY <1>2, <1>6, AtTop
  <2>2. text[FileOf(Top)] \in Seq([d : Directives, m : STRING, t : Seq(STRING), fn : BOOLEAN]) BY <2>1, UnitLines
  <2>3. IsSeq(text[FileOf(Top)]) BY <2>2 DEF IsSeq
  <2>4. Len(text[FileOf(Top)]) \in Nat /\ DOMAIN text[FileOf(Top)] = 1 .. Len(text[FileOf(Top)]) BY <2>2
  <2> QED BY <2>1, <2>3, <2>4 DEF TopLine, LineAt
<1>7. ASSUME Use \/ Declare PROVE Fresh(Top.fid) /\ Top.fid \in DOMAIN entered
  <2>1. Reading /\ Live /\ TopLine.d \in {"use", "decl"} BY <1>7 DEF Reading, Use, Declare, At
  <2>2. Top.fid \in DOMAIN entered BY <1>6, <2>1
  <2>3. CASE ControllingMacro(FileOf(Top)) = "" BY <2>2, <2>3 DEF Fresh, FileOf
  <2>4. CASE ControllingMacro(FileOf(Top)) # ""
    <3>1. text[FileOf(Top)][1].d = "ifndef" BY <1>6, <2>1, <2>4, Controls
    <3>2. Top.pos # 1 BY <1>6, <2>1, <3>1
    <3>3. WithinText(Len(open))
      <4>1. Top.pos > 1 BY <1>6, <2>1, <3>2
      <4> QED BY <1>6, <2>1, <2>4, <4>1 DEF WithinText
    <3>4. PICK c \in 1 .. n : conds[c].live => Fresh(Top.fid) BY <1>5, <1>6, <2>1, <3>3
    <3> QED BY <1>1, <2>1, <2>2, <3>4, AllLive
  <2> QED BY <2>3, <2>4
<1>8. history'.bodies \subseteq DOMAIN entered' /\ \A i \in history'.bodies : Fresh(i)'
  <2>1. HistoryShape BY DEF Recorded
  <2>2. history'.bodies \subseteq DOMAIN entered /\ \A i \in history'.bodies : Fresh(i)
    <3>1. CASE Use \/ Declare
      <4>1. history'.bodies = history.bodies \cup {Top.fid} BY <2>1, <3>1, Entries
      <4> QED BY <1>5, <1>7, <3>1, <4>1
    <3>2. CASE ~Use /\ ~Declare
      <4>1. history'.bodies = history.bodies BY <2>1, <3>2, Entries
      <4> QED BY <1>5, <4>1
    <3> QED BY <3>1, <3>2
  <2> QED BY <1>2, <1>4, <2>2
<1>9. ASSUME NEW k \in DOMAIN open', NEW i, i = open'[k].fid, WithinText(k)'
      PROVE  \E c : FirstCond(c, i)' /\ (conds'[c].live => Fresh(i)')
  <2>1. CASE /\ k \in DOMAIN open /\ i = open[k].fid /\ open'[k].pos = open[k].pos
             /\ Reading => k < Len(open)
    <3>1. i \in DOMAIN entered BY <2>1 DEF FilesOpen
    <3>2. entered'[i] = FileOf(open[k]) BY <1>2, <2>1, <3>1 DEF FileOf
    <3>3. WithinText(k)
      <4>1. ControllingMacro(FileOf(open[k]))' = ControllingMacro(FileOf(open[k]))
        <5>1. entered'[open'[k].fid] = FileOf(open[k]) BY <1>9, <3>2
        <5> QED BY <1>2, <5>1 DEF ControllingMacro, FileOf
      <4> QED BY <1>2, <1>9, <2>1, <3>2, <4>1 DEF WithinText, FileOf
    <3>4. PICK c \in 1 .. n : FirstCond(c, i) /\ (conds[c].live => Fresh(i)) BY <1>5, <2>1, <3>3
    <3>5. Reading => Top.fid # i
      <4> SUFFICES ASSUME Reading PROVE Top.fid # i OBVIOUS
      <4>1. Len(open) \in Nat /\ DOMAIN open = 1 .. Len(open) BY UnitLines
      <4>2. k # Len(open) BY <2>1, <4>1
      <4> QED BY <1>6, <2>1, <4>2 DEF FilesOpen
    <3>6. FirstCond(c, i)' /\ conds'[c] = conds[c] BY <3>4, <3>5, FirstOn
    <3> QED BY <1>4, <3>1, <3>4, <3>6
  <2>2. CASE Reading /\ k = Len(open) /\ i = Top.fid /\ open'[k].pos = Top.pos + 1
    <3> DEFINE s == text[FileOf(Top)]
    <3>1. i \in DOMAIN entered /\ entered'[i] = FileOf(Top) /\ FileOf(Top) = entered[i] BY <1>2, <1>6, <2>2 DEF FileOf
    <3>2. PICK own : own = ControllingMacro(FileOf(Top)) OBVIOUS
    <3>3. own # "" /\ Top.pos + 1 <= Len(s)
      <4>1. ControllingMacro(FileOf(open[k]))' = own
        <5>1. entered'[open'[k].fid] = FileOf(Top) BY <1>9, <2>2, <3>1
        <5> QED BY <1>2, <3>2, <5>1 DEF ControllingMacro, FileOf
      <4> QED BY <1>2, <1>9, <2>2, <3>1, <4>1 DEF WithinText, FileOf
    <3>4. /\ Len(s) > 0 /\ s[1].d = "ifndef" /\ own = s[1].m
          /\ \A j \in 1 .. Len(s) - 1 : Nest(s, j) > 0 /\ (s[j].d \in {"else", "elif"} => Nest(s, j) > 1)
      BY <1>6, <2>2, <3>2, <3>3, Controls
    <3>5. CASE Top.pos = 1
      <4>1. If
        <5>1. TopLine.d = "ifndef" BY <1>6, <2>2, <3>4, <3>5
        <5> QED BY <2>2, <5>1 DEF Reading, Define, Undef, Elif, Else, Endif, Skip, Comment, Once, Include, Use, Declare, At
      <4>2. PICK e : Pushes(e)
        <5>1. ~Elif /\ ~Else /\ ~Endif BY <4>1 DEF If, Elif, Else, Endif, At
        <5> QED BY <4>1, <5>1, CondSteps
      <4>3. Len(conds') = n + 1 /\ conds'[n + 1] = e /\ \A b \in 1 .. n : conds'[b] = conds[b]
        BY <1>1, <4>2, Pushed DEF CondsShape, Pushes
      <4>4. \A b \in 1 .. n : conds[b].at.fid # i
        <5>1. InEntry(conds, i) = Nest(s, 0)
          <6>1. InEntry(conds, open[Len(open)].fid) = Nest(text[FileOf(open[Len(open)])], open[Len(open)].pos - 1)
            BY <1>6, <2>2 DEF CondsRight
          <6>2. Top.pos - 1 = 0 BY <3>5
          <6> QED BY <1>6, <2>2, <6>1, <6>2
        <5>2. ~(CountTo(Of(conds, i), n) > 0) BY <1>1, <5>1, NestOn DEF InEntry
        <5>3. \A b \in 1 .. n : b \notin Of(conds, i) BY <5>2, CountedSome
        <5> QED BY <5>3 DEF Of
      <4>5. FirstCond(n + 1, i)'
        <5>1. \A b \in 1 .. n + 1 : b < n + 1 => b \in 1 .. n OBVIOUS
        <5>2. e.at.fid = i BY <2>2, <4>2 DEF Pushes
        <5>3. n + 1 \in 1 .. n + 1 OBVIOUS
        <5> QED BY <4>3, <4>4, <5>1, <5>2, <5>3 DEF FirstCond
      <4>6. e.live => Fresh(i)
        <5> SUFFICES ASSUME e.live PROVE Fresh(i) OBVIOUS
        <5>1. TopLine.d = "ifndef" /\ TopLine.m = own BY <1>6, <2>2, <3>4, <3>5
        <5>2. own \in Names
          <6>1. UnitAccepted(text) BY UnitLines
          <6> QED BY <1>6, <2>2, <5>1, <6>1 DEF UnitAccepted
        <5>3. macros[own] = Nowhere BY <4>2, <5>1 DEF Pushes, IsDefined
        <5>4. Unremoved(own) => \A j \in 1 .. Len(history.defs) : LineAt(history.defs[j]).m # own BY <5>2, <5>3 DEF MacrosKept
        <5>5. history.begun[i] = Len(history.defs)
          <6>1. open[Len(open)].pos = 1 BY <1>6, <2>2, <3>5
          <6> QED BY <1>6, <2>2, <6>1 DEF Begun
        <5> QED BY <3>1, <3>2, <5>4, <5>5 DEF Fresh
      <4> QED BY <1>4, <3>1, <4>3, <4>5, <4>6
    <3>6. CASE Top.pos # 1
      <4>1. PICK p \in Nat : Top.pos = p + 1 /\ Top.pos - 1 = p /\ p + 1 \in 1 .. Len(s) - 1
        <5>1. Top.pos \in Nat \ {0} /\ Len(s) \in Nat BY <1>6, <2>2
        <5>2. \A q \in Nat \ {0}, l \in Nat : q + 1 <= l => q - 1 \in Nat /\ q = (q - 1) + 1 /\ q \in 1 .. l - 1 OBVIOUS
        <5>3. Top.pos + 1 <= Len(s) BY <3>3
        <5> HIDE DEF s
        <5>4. Top.pos - 1 \in Nat /\ Top.pos = (Top.pos - 1) + 1 /\ Top.pos \in 1 .. Len(s) - 1 BY <5>1, <5>2, <5>3
        <5> QED BY <5>4
      <4>2. WithinText(Len(open))
        <5>1. Top.pos > 1 /\ Top.pos <= Len(s) BY <1>6, <2>2, <3>6
        <5> QED BY <1>6, <2>2, <3>2, <3>3, <5>1 DEF WithinText
      <4>3. PICK c \in 1 .. n : FirstCond(c, i) /\ (conds[c].live => Fresh(i)) BY <1>5, <1>6, <2>2, <4>2
      <4>4. Elif \/ Else \/ Endif => InEntry(conds, i) > 1
        <5>1. InEntry(conds, i) = Nest(s, p)
          <6>1. InEntry(conds, open[Len(open)].fid) = Nest(text[FileOf(open[Len(open)])], open[Len(open)].pos - 1)
            BY <1>6, <2>2 DEF CondsRight
          <6> QED BY <1>6, <2>2, <4>1, <6>1
        <5>2. Nest(s, p + 1) > 0 /\ (s[p + 1].d \in {"else", "elif"} => Nest(s, p + 1) > 1) BY <3>4, <4>1
        <5>3. TopLine = s[p + 1] BY <1>6, <2>2, <4>1
        <5>4. (Endif => TopLine.d = "endif") /\ (Elif => TopLine.d = "elif") /\ (Else => TopLine.d = "else")
          BY DEF Endif, Elif, Else, At
        <5> HIDE DEF s
        <5>5. /\ Nest(s, p) \in Int
              /\ s[p + 1].d = "endif" => Nest(s, p + 1) = Nest(s, p) - 1
              /\ s[p + 1].d \notin {"if", "ifdef", "ifndef", "endif"} => Nest(s, p + 1) = Nest(s, p)
          BY NestOn
        <5> QED BY <5>1, <5>2, <5>3, <5>4, <5>5
      <4>5. FirstCond(c, i)' /\ conds'[c] = conds[c] BY <4>3, <4>4, FirstOn
      <4> QED BY <1>4, <3>1, <4>3, <4>5
    <3> QED BY <3>5, <3>6
  <2>3. CASE open'[k].pos = 1
    <3>1. open'[k].pos > 1 BY <1>9 DEF WithinText
    <3> QED BY <2>3, <3>1
  <2> QED BY <1>9, <2>1, <2>2, <2>3, OpenSteps
<1>10. \A k \in DOMAIN open' : WithinText(k)' =>
         \E c \in 1 .. Len(conds') : FirstCond(c, open[k].fid)' /\ (conds'[c].live => Fresh(open[k].fid)')
  <2> SUFFICES ASSUME NEW k \in DOMAIN open', WithinText(k)'
               PROVE  \E c \in 1 .. Len(conds') : FirstCond(c, open[k].fid)' /\ (conds'[c].live => Fresh(open[k].fid)')
    OBVIOUS
  <2>1. PICK i : i = open'[k].fid OBVIOUS
  <2>2. PICK c : FirstCond(c, i)' /\ (conds'[c].live => Fresh(i)') BY <1>9, <2>1
  <2>3. FirstCond(c, open[k].fid)' BY <2>1, <2>2 DEF FirstCond
  <2>4. Fresh(open[k].fid)' <=> Fresh(i)' BY <2>1 DEF Fresh
  <2>5. c \in 1 .. Len(conds') BY <2>2 DEF FirstCond
  <2> QED BY <2>2, <2>3, <2>4, <2>5
<1> QED BY <1>8, <1>10 DEF GuardsRight

--------------------------------------------------------------------------------
(* The verdicts on headers. *)

\* d defines the guard of its own file; another file defines m as well; all
\* inclusions of entry i are read.
DefinesGuard(d) == LineAt(d).m # "" /\ ControllingMacro(FileOf(d)) = LineAt(d).m
Foreign(f, m) == \E g \in Range(entered) \ {f} : \E l \in Range(text[g]) : l.d = "define" /\ l.m = m
Closed(i) == \A k \in DOMAIN open : open[k].fid # i
HeadersRight ==
  /\ \A d \in Range(history.defs) : LineAt(d).d = "define"
  /\ guarding \subseteq Range(history.defs)
  /\ \A d \in guarding : LineAt(d).m # "" /\ \E g \in Range(entered) : ControllingMacro(g) = LineAt(d).m
  /\ \A d \in Range(history.defs) :
       DefinesGuard(d) /\ Unremoved(LineAt(d).m) /\ ~Foreign(FileOf(d), LineAt(d).m) /\ Closed(d.fid) =>
         \E e \in guarding : FileOf(e) = FileOf(d)
  /\ phase = "lex" => defined = history.defs /\ files = Range(entered) \cap Headers /\ Reported("guard") = {}
  /\ phase # "lex" => {r.name : r \in Reported("guard")} =
                        (Range(entered) \cap Headers) \ {FileOf(d) : d \in Range(history.defs) \cap guarding}

LEMMA RangeGrown ==
  ASSUME NEW s, IsSeq(s), NEW e
  PROVE  Range(Append(s, e)) = Range(s) \cup {e}
<1>1. PICK n \in Nat : n = Len(s) BY Pushed
<1>2. DOMAIN s = 1 .. n /\ DOMAIN Append(s, e) = 1 .. n + 1
  <2>1. IsSeq(Append(s, e)) /\ Len(Append(s, e)) = n + 1 BY <1>1, Pushed
  <2> QED BY <1>1, <2>1, SeqEmpty
<1>3. Append(s, e)[n + 1] = e /\ \A i \in 1 .. n : Append(s, e)[i] = s[i] BY <1>1, Pushed
<1>4. \A i \in 1 .. n + 1 : i \in 1 .. n \/ i = n + 1 OBVIOUS
<1>5. \A i \in 1 .. n : i \in 1 .. n + 1 OBVIOUS
<1>6. n + 1 \in 1 .. n + 1 OBVIOUS
<1> QED BY <1>2, <1>3, <1>4, <1>5, <1>6 DEF Range

\* The definitions and the files, step by step.
LEMMA RangesOn ==
  ASSUME UnitsAssumption, FilesOpen, Recorded, [MonitorNext]_monitorVars
  PROVE  /\ Range(history.defs) \subseteq Past
         /\ Range(history.defs)' = Range(history.defs) \cup (IF Define THEN {Top} ELSE {})
         /\ \A d \in Range(history.defs)' : LineAt(d)' = LineAt(d) /\ FileOf(d)' = FileOf(d)
         /\ Range(entered) \subseteq Range(entered)'
         /\ entered' # entered => Include /\ Range(entered)' = Range(entered) \cup {TopLine.m}
<1>1. history.defs \in Seq(Named) /\ Named \subseteq Past /\ HistoryShape BY DEF Recorded, Named
<1>2. Range(history.defs) \subseteq Past
  <2>1. \A i \in DOMAIN history.defs : history.defs[i] \in Named BY <1>1, ElementOfSeq
  <2> QED BY <1>1, <2>1 DEF Range
<1>3. Range(history.defs)' = Range(history.defs) \cup (IF Define THEN {Top} ELSE {})
  <2>1. CASE Define
    <3>1. history'.defs = Append(history.defs, Top) BY <1>1, <2>1, Entries
    <3>2. IsSeq(history.defs) BY <1>1 DEF IsSeq
    <3>3. Range(Append(history.defs, Top)) = Range(history.defs) \cup {Top} BY <3>2, RangeGrown
    <3>4. Range(history.defs)' = Range(Append(history.defs, Top)) BY <3>1 DEF Range
    <3> QED BY <2>1, <3>3, <3>4
  <2>2. CASE ~Define
    <3>1. history'.defs = history.defs BY <1>1, <2>2, Entries
    <3> QED BY <2>2, <3>1 DEF Range
  <2> QED BY <2>1, <2>2
<1>4. \A d \in Range(history.defs)' : LineAt(d)' = LineAt(d) /\ FileOf(d)' = FileOf(d)
  <2>1. CASE Define
    <3>1. Reading BY <2>1 DEF Reading
    <3>2. Past' = Past \cup {Top} /\ Same(Past') BY <3>1, Moves
    <3>3. Range(history.defs)' \subseteq Past' BY <1>2, <1>3, <2>1, <3>2
    <3> QED BY <3>2, <3>3 DEF Same
  <2>2. CASE ~Define
    <3>1. Same(Past) BY Moves
    <3> QED BY <1>2, <1>3, <2>2, <3>1 DEF Same
  <2> QED BY <2>1, <2>2
<1>5. Range(entered) \subseteq Range(entered)'
  <2>1. DOMAIN entered \subseteq DOMAIN entered' /\ \A i \in DOMAIN entered : entered'[i] = entered[i] BY Moves
  <2> QED BY <2>1 DEF Range
<1>6. entered' # entered => Include /\ Range(entered)' = Range(entered) \cup {TopLine.m}
  <2> SUFFICES ASSUME entered' # entered PROVE Include /\ Range(entered)' = Range(entered) \cup {TopLine.m} OBVIOUS
  <2>1. Include /\ entered' = Append(entered, TopLine.m) BY <1>1, Entries
  <2>2. IsSeq(entered) BY DEF IsSeq, FilesOpen
  <2>3. Range(Append(entered, TopLine.m)) = Range(entered) \cup {TopLine.m} BY <2>2, RangeGrown
  <2>4. Range(entered)' = Range(Append(entered, TopLine.m)) BY <2>1 DEF Range
  <2> QED BY <2>1, <2>3, <2>4
<1> QED BY <1>2, <1>3, <1>4, <1>5, <1>6

\* What the end of a file makes of its guard.
LEMMA GuardingOn ==
  ASSUME [MonitorNext]_monitorVars
  PROVE  /\ ~EndOfFile => guarding' = guarding
         /\ EndOfFile => LET m == ControllingMacro(FileOf(Top))
                         IN  guarding' = IF m # "" /\ IsDefined(m) THEN guarding \cup {macros[m]} ELSE guarding
<1>1. ~EndOfFile => guarding' = guarding
  BY DEF MonitorNext, Done, Define, Undef, If, Elif, Else, Endif, Skip, Comment, Once, Include, Use, Declare, Stay,
         EndOfMainFile, Match, EndOfTranslationUnit, monitorVars, checks
<1>2. EndOfFile => LET m == ControllingMacro(FileOf(Top))
                   IN  guarding' = IF m # "" /\ IsDefined(m) THEN guarding \cup {macros[m]} ELSE guarding
  BY Zenon DEF EndOfFile
<1> QED BY <1>1, <1>2

\* The macro that a name stands for was defined for it.
LEMMA MacroIs ==
  ASSUME UnitsAssumption, FilesOpen, Recorded, NamesRight, NEW m \in Names, IsDefined(m)
  PROVE  macros[m] \in Range(history.defs) /\ LineAt(macros[m]).m = m
<1>1. macros[m] \in Past BY DEF Recorded, IsDefined
<1>2. LastDef(m, macros[m]) BY <1>1 DEF NamesRight
<1> QED BY <1>2 DEF LastDef, Range

LEMMA HeadersOn ==
  ASSUME UnitsAssumption, FilesOpen, Recorded, NamesRight, MacrosKept, HeadersRight, [MonitorNext]_monitorVars
  PROVE  HeadersRight'
<1> DEFINE D == Range(history.defs)
           E == Range(entered)
<1>1. /\ D \subseteq Past /\ D' = D \cup (IF Define THEN {Top} ELSE {})
      /\ \A d \in D' : LineAt(d)' = LineAt(d) /\ FileOf(d)' = FileOf(d)
      /\ E \subseteq E' /\ (entered' # entered => Include /\ E' = E \cup {TopLine.m})
  BY RangesOn
<1>2. /\ \A d \in D : LineAt(d).d = "define"
      /\ guarding \subseteq D
      /\ \A d \in guarding : LineAt(d).m # "" /\ \E g \in E : ControllingMacro(g) = LineAt(d).m
      /\ \A d \in D :
           DefinesGuard(d) /\ Unremoved(LineAt(d).m) /\ ~Foreign(FileOf(d), LineAt(d).m) /\ Closed(d.fid) =>
             \E e \in guarding : FileOf(e) = FileOf(d)
      /\ phase = "lex" => defined = history.defs /\ files = E \cap Headers /\ Reported("guard") = {}
      /\ phase # "lex" => {r.name : r \in Reported("guard")} = (E \cap Headers) \ {FileOf(d) : d \in D \cap guarding}
  BY DEF HeadersRight
<1>3. text' = text /\ \A f : ControllingMacro(f)' = ControllingMacro(f) BY Moves, OwnOn
<1>4. HistoryShape /\ \A d \in D : LineAt(d).m \in Names
  <2>1. history.defs \in Seq(Named) BY DEF Recorded
  <2>2. \A i \in DOMAIN history.defs : history.defs[i] \in Named BY <2>1, ElementOfSeq
  <2> QED BY <2>2 DEF Range, Recorded, Named
<1>5. Define => TopLine.d = "define" /\ TopLine = LineAt(Top) BY DEF Define, At, TopLine
<1>6. EndOfFile => /\ open # <<>> /\ Len(open) \in DOMAIN open /\ Top = open[Len(open)] /\ Top.fid \in DOMAIN entered
  <2>1. EndOfFile => open # <<>> BY DEF EndOfFile
  <2> QED BY <2>1, AtTop
<1>7. EndOfFile => ~Define
  BY DEF EndOfFile, Define, At
<1>8. ASSUME EndOfFile, NEW m, m = ControllingMacro(FileOf(Top)), m # "", IsDefined(m), m \in Names
      PROVE  guarding' = guarding \cup {macros[m]} /\ macros[m] \in D /\ LineAt(macros[m]).m = m
  BY <1>8, GuardingOn, MacroIs
<1> HIDE DEF D, E
<1>9. \A d \in D' : LineAt(d)'.d = "define" BY <1>1, <1>2, <1>5
<1>10. guarding' \subseteq D' /\ \A d \in guarding' : LineAt(d)'.m # "" /\ \E g \in E' : ControllingMacro(g)' = LineAt(d)'.m
  <2>1. \A d \in guarding : d \in D' /\ LineAt(d)'.m # "" /\ \E g \in E' : ControllingMacro(g)' = LineAt(d)'.m
    BY <1>1, <1>2, <1>3
  <2>2. CASE guarding' = guarding BY <2>1, <2>2
  <2>3. CASE guarding' # guarding
    <3>1. PICK m : m = ControllingMacro(FileOf(Top)) OBVIOUS
    <3>2. EndOfFile /\ m # "" /\ IsDefined(m) BY <2>3, <3>1, GuardingOn
    <3>3. FileOf(Top) \in E BY <1>6, <3>2 DEF E, Range, FileOf
    <3>4. m \in Names
      <4>1. IsSeq(text[FileOf(Top)]) /\ UnitAccepted(text) /\ FileOf(Top) \in DOMAIN text
        <5>1. FileOf(Top) \in DOMAIN text /\ UnitAccepted(text) BY <1>6, <3>2, AtTop, UnitLines
        <5> QED BY <5>1, UnitLines DEF IsSeq
      <4>2. Len(text[FileOf(Top)]) > 0 /\ text[FileOf(Top)][1].d = "ifndef" /\ m = text[FileOf(Top)][1].m
        BY <3>1, <3>2, <4>1, Controls
      <4>3. 1 \in DOMAIN text[FileOf(Top)]
        <5>1. DOMAIN text[FileOf(Top)] = 1 .. Len(text[FileOf(Top)]) /\ Len(text[FileOf(Top)]) \in Nat BY <4>1, SeqEmpty
        <5> QED BY <4>2, <5>1
      <4> QED BY <4>1, <4>2, <4>3 DEF UnitAccepted
    <3>5. guarding' = guarding \cup {macros[m]} /\ macros[m] \in D /\ LineAt(macros[m]).m = m BY <1>8, <3>1, <3>2, <3>4
    <3>6. PICK d0 \in D : d0 = macros[m] BY <3>5
    <3>7. d0 \in D' /\ LineAt(d0)'.m = m BY <1>1, <3>5, <3>6
    <3>8. \A d \in guarding' : d \in guarding \/ d = d0 BY <3>5, <3>6
    <3> QED BY <1>1, <1>3, <2>1, <3>1, <3>2, <3>3, <3>7, <3>8
  <2> QED BY <2>2, <2>3
<1>11. ASSUME NEW d \in D', NEW f, f = FileOf(d)', NEW m, m = LineAt(d)'.m, m # "", ControllingMacro(f) = m,
              Unremoved(m)', ~Foreign(f, m)', Closed(d.fid)'
       PROVE  \E e \in guarding' : FileOf(e)' = f
  <2>1. d \in D /\ FileOf(d) = f /\ LineAt(d).m = m
    <3>1. CASE Define /\ d = Top
      <4>1. Reading /\ open # <<>> BY <3>1 DEF Reading, Define, At
      <4>2. Len(open) \in DOMAIN open /\ Top = open[Len(open)] /\ open'[Len(open)].fid = open[Len(open)].fid /\ Len(open) \in DOMAIN open'
        <5>1. Len(open) \in Nat /\ DOMAIN open' = 1 .. Len(open') /\ Len(open) \in DOMAIN open /\ DOMAIN open = 1 .. Len(open)
              /\ (Len(open') = Len(open) \/ Len(open') = Len(open) + 1) /\ open'[Len(open)].fid = open[Len(open)].fid
          BY <4>1, OpenOn
        <5>2. \A n \in Nat : 1 .. n \subseteq 1 .. n /\ 1 .. n \subseteq 1 .. (n + 1) OBVIOUS
        <5>3. Len(open) \in DOMAIN open' BY <5>1, <5>2
        <5> QED BY <4>1, <5>1, <5>3, AtTop
      <4> QED BY <1>11, <3>1, <4>2 DEF Closed
    <3>2. CASE ~(Define /\ d = Top) BY <1>1, <1>11, <3>2
    <3> QED BY <3>1, <3>2
  <2>2. Unremoved(m) BY <1>11, UnremovedOn
  <2>3. ~Foreign(f, m)
    <3> SUFFICES ASSUME Foreign(f, m) PROVE FALSE OBVIOUS
    <3>1. PICK g \in E \ {f} : \E l \in Range(text[g]) : l.d = "define" /\ l.m = m BY DEF Foreign, E
    <3>2. g \in E' \ {f} BY <1>1, <3>1
    <3>3. Foreign(f, m)' BY <1>3, <3>1, <3>2 DEF Foreign, E, Range
    <3> QED BY <1>11, <3>3
  <2>4. guarding \subseteq guarding' BY GuardingOn
  <2>5. \A e \in guarding : FileOf(e)' = FileOf(e) BY <1>1, <1>2
  <2>6. CASE Closed(d.fid)
    <3>1. DefinesGuard(d) BY <1>11, <2>1 DEF DefinesGuard
    <3>2. PICK e \in guarding : FileOf(e) = f BY <1>2, <2>1, <2>2, <2>3, <2>6, <3>1
    <3> QED BY <2>4, <2>5, <3>2
  <2>7. CASE ~Closed(d.fid)
    <3>1. EndOfFile /\ Top.fid = d.fid
      <4>1. PICK k \in DOMAIN open : open[k].fid = d.fid BY <2>7 DEF Closed
      <4>2. k \notin DOMAIN open' \/ open'[k].fid # open[k].fid BY <1>11, <4>1 DEF Closed
      <4>3. /\ Len(open) \in Nat /\ DOMAIN open = 1 .. Len(open) /\ Len(open') \in Nat /\ DOMAIN open' = 1 .. Len(open')
            /\ Reading => /\ (Len(open') = Len(open) \/ Len(open') = Len(open) + 1)
                          /\ \A j \in DOMAIN open : open'[j].fid = open[j].fid
            /\ EndOfFile => Len(open') = Len(open) - 1 /\ \A j \in DOMAIN open' : open'[j] = open[j]
            /\ ~Reading /\ ~EndOfFile => open' = open
        BY OpenOn
      <4>4. EndOfFile
        <5>1. CASE Reading
          <6>1. k \in DOMAIN open'
            <7>1. \A n \in Nat : 1 .. n \subseteq 1 .. n /\ 1 .. n \subseteq 1 .. (n + 1) OBVIOUS
            <7> QED BY <4>1, <4>3, <5>1, <7>1
          <6> QED BY <4>1, <4>2, <4>3, <5>1, <6>1
        <5>2. CASE ~Reading BY <4>1, <4>2, <4>3, <5>2
        <5> QED BY <5>1, <5>2
      <4>5. k = Len(open)
        <5>1. k \notin DOMAIN open' BY <4>2, <4>3, <4>4
        <5>2. \A n \in Nat : \A j \in 1 .. n : j \notin 1 .. n - 1 => j = n OBVIOUS
        <5> QED BY <4>1, <4>3, <4>4, <5>1, <5>2
      <4> QED BY <1>6, <4>1, <4>4, <4>5
    <3>2. FileOf(Top) = f BY <2>1, <3>1 DEF FileOf
    <3>3. m \in Names /\ macros[m] # Nowhere
      <4>1. m \in Names BY <1>4, <2>1
      <4>2. \E j \in 1 .. Len(history.defs) : LineAt(history.defs[j]).m = m
        <5>1. PICK j \in DOMAIN history.defs : history.defs[j] = d BY <2>1 DEF D, Range
        <5> QED BY <2>1, <5>1, DefsOn
      <4> QED BY <2>2, <4>1, <4>2 DEF MacrosKept
    <3>4. guarding' = guarding \cup {macros[m]} /\ macros[m] \in D /\ LineAt(macros[m]).m = m
      BY <1>8, <1>11, <3>1, <3>2, <3>3 DEF IsDefined
    <3>5. PICK e \in D : e = macros[m] BY <3>4
    <3>6. FileOf(e) = f
      <4> SUFFICES ASSUME FileOf(e) # f PROVE FALSE OBVIOUS
      <4>1. e \in Past /\ e.fid \in DOMAIN entered /\ e.pos \in DOMAIN text[FileOf(e)] BY <1>1, <3>5, UnitLines
      <4>2. FileOf(e) \in E BY <4>1 DEF E, Range, FileOf
      <4>3. LineAt(e) \in Range(text[FileOf(e)]) BY <4>1 DEF Range, LineAt
      <4>4. LineAt(e).d = "define" /\ LineAt(e).m = m BY <1>2, <3>4, <3>5
      <4> QED BY <2>3, <4>2, <4>3, <4>4 DEF Foreign, E
    <3>7. FileOf(e)' = FileOf(e) BY <1>1, <3>5
    <3> QED BY <3>4, <3>5, <3>6, <3>7
  <2> QED BY <2>6, <2>7
<1>12. \A d \in D' : DefinesGuard(d)' /\ Unremoved(LineAt(d).m)' /\ ~Foreign(FileOf(d), LineAt(d).m)' /\ Closed(d.fid)' =>
         \E e \in guarding' : FileOf(e)' = FileOf(d)'
  <2> SUFFICES ASSUME NEW d \in D', DefinesGuard(d)', Unremoved(LineAt(d).m)', ~Foreign(FileOf(d), LineAt(d).m)', Closed(d.fid)'
               PROVE  \E e \in guarding' : FileOf(e)' = FileOf(d)'
    OBVIOUS
  <2>1. PICK f : f = FileOf(d)' OBVIOUS
  <2>2. PICK m : m = LineAt(d)'.m OBVIOUS
  <2>3. m # "" /\ ControllingMacro(f) = m
    <3>1. ControllingMacro(FileOf(d))' = ControllingMacro(f)' BY <2>1 DEF ControllingMacro
    <3>2. ControllingMacro(f)' = ControllingMacro(f) BY <1>3
    <3> QED BY <2>2, <3>1, <3>2 DEF DefinesGuard
  <2>4. Unremoved(m)' BY <2>2 DEF Unremoved
  <2>5. ~Foreign(f, m)' BY <2>1, <2>2 DEF Foreign
  <2> QED BY <1>11, <2>1, <2>2, <2>3, <2>4, <2>5
<1>13. phase' = "lex" => defined' = history'.defs /\ files' = E' \cap Headers /\ Reported("guard")' = {}
  <2> SUFFICES ASSUME phase' = "lex" PROVE defined' = history'.defs /\ files' = E' \cap Headers /\ Reported("guard")' = {} OBVIOUS
  <2>1. phase = "lex" /\ ~EndOfMainFile
    <3>1. Reading => phase = "lex" BY Moves
    <3>2. ~Reading => Resting BY Moves
    <3> QED BY <3>1, <3>2 DEF Resting, EndOfFile, EndOfMainFile, Match, EndOfTranslationUnit, monitorVars, pp
  <2>2. Reported("guard")' = {} BY <1>2, <2>1, Silent
  <2>3. defined' = history'.defs
    <3>1. CASE Define
      <4>1. defined' = Append(defined, Top) BY <3>1 DEF Define
      <4> QED BY <1>2, <1>4, <2>1, <3>1, <4>1, Entries
    <3>2. CASE ~Define
      <4>1. defined' = defined
        BY <2>1, <3>2 DEF MonitorNext, Done, Undef, If, Elif, Else, Endif, Skip, Comment, Once, Include, Use, Declare,
                          EndOfFile, Match, EndOfTranslationUnit, monitorVars, checks
      <4> QED BY <1>2, <1>4, <2>1, <3>2, <4>1, Entries
    <3> QED BY <3>1, <3>2
  <2>4. files' = E' \cap Headers
    <3>1. CASE Include
      <4>1. \/ entered' = entered /\ files' = files
            \/ files' = TrackFile(TopLine.m) /\ entered' = Append(entered, TopLine.m)
        BY <3>1, Zenon DEF Include
      <4>2. CASE entered' = entered /\ files' = files
        <5>1. E' = E BY <4>2 DEF E, Range
        <5> QED BY <1>2, <2>1, <4>2, <5>1
      <4>3. CASE files' = TrackFile(TopLine.m) /\ entered' = Append(entered, TopLine.m)
        <5>1. E' = E \cup {TopLine.m}
          <6>1. IsSeq(entered) BY DEF IsSeq, FilesOpen
          <6>2. Range(Append(entered, TopLine.m)) = E \cup {TopLine.m} BY <6>1, RangeGrown DEF E
          <6>3. E' = Range(Append(entered, TopLine.m)) BY <4>3 DEF E, Range
          <6> QED BY <6>2, <6>3
        <5> QED BY <1>2, <2>1, <4>3, <5>1 DEF TrackFile
      <4> QED BY <4>1, <4>2, <4>3
    <3>2. CASE ~Include
      <4>1. files' = files
        BY <2>1, <3>2 DEF MonitorNext, Done, Define, Undef, If, Elif, Else, Endif, Skip, Comment, Once, Use, Declare, Stay,
                          EndOfFile, Match, EndOfTranslationUnit, monitorVars, checks
      <4>2. entered' = entered BY <1>1, <3>2
      <4>3. E' = E BY <4>2 DEF E, Range
      <4> QED BY <1>2, <2>1, <4>1, <4>3
    <3> QED BY <3>1, <3>2
  <2> QED BY <2>2, <2>3, <2>4
<1>14. phase' # "lex" => {r.name : r \in Reported("guard")'} = (E' \cap Headers) \ {FileOf(d)' : d \in D' \cap guarding'}
  <2> SUFFICES ASSUME phase' # "lex"
               PROVE  {r.name : r \in Reported("guard")'} = (E' \cap Headers) \ {FileOf(d)' : d \in D' \cap guarding'}
    OBVIOUS
  <2>1. ~Reading /\ ~EndOfFile
    <3>1. Reading => phase' = "lex" BY Moves
    <3> QED BY <3>1 DEF EndOfFile
  <2>2. entered' = entered /\ guarding' = guarding /\ ~Define
    <3>1. ~Define /\ ~Include BY <2>1 DEF Reading
    <3> QED BY <1>1, <2>1, <3>1, GuardingOn
  <2>3. D' = D /\ E' = E
    <3>1. D' = D BY <1>1, <2>2
    <3> QED BY <2>2, <3>1 DEF E, Range
  <2>4. {FileOf(d)' : d \in D' \cap guarding'} = {FileOf(d) : d \in D \cap guarding} BY <1>1, <2>2, <2>3
  <2>5. CASE EndOfMainFile
    <3> DEFINE U == UNION {Say("guard", Nowhere, f, TRUE) : f \in Unguarded}
    <3>1. reports' = reports \cup Unused \cup U BY <2>5 DEF EndOfMainFile
    <3>2. phase = "lex" BY <2>5 DEF EndOfMainFile
    <3>3. Unguarded = (E \cap Headers) \ {FileOf(d) : d \in D \cap guarding} BY <1>2, <3>2 DEF Unguarded, D
    <3>4. \A r \in Unused : r.check # "guard" BY DEF Unused, Say
    <3>5. \A r \in reports : r.check # "guard" BY <1>2, <3>2 DEF Reported
    <3>6. \A r \in U : r.check = "guard" /\ r.name \in Unguarded BY DEF Say
    <3>7. \A f \in Unguarded : \E r \in U : r.check = "guard" /\ r.name = f
      <4> SUFFICES ASSUME NEW f \in Unguarded PROVE \E r \in U : r.check = "guard" /\ r.name = f OBVIOUS
      <4> DEFINE r == [check |-> "guard", at |-> Nowhere, name |-> f]
      <4>1. r \in Say("guard", Nowhere, f, TRUE) BY DEF Say
      <4>2. r.check = "guard" /\ r.name = f OBVIOUS
      <4> HIDE DEF r
      <4>3. r \in U BY <4>1
      <4> QED BY <4>2, <4>3
    <3> HIDE DEF U
    <3>8. Reported("guard")' = U
      <4>1. Reported("guard")' = {r \in reports' : r.check = "guard"} BY DEF Reported
      <4> QED BY <3>1, <3>4, <3>5, <3>6, <4>1
    <3>9. {r.name : r \in U} = Unguarded BY <3>6, <3>7
    <3> QED BY <2>3, <2>4, <3>3, <3>8, <3>9
  <2>6. CASE ~EndOfMainFile
    <3>1. phase # "lex"
      <4>1. Resting BY <2>1, Moves
      <4> QED BY <2>1, <2>6, <4>1 DEF Resting, Match, EndOfTranslationUnit, monitorVars, pp
    <3>2. Reported("guard")' = Reported("guard") BY <2>6, Silent
    <3> QED BY <1>2, <2>3, <2>4, <3>1, <3>2
  <2> QED BY <2>5, <2>6
<1> QED BY <1>9, <1>10, <1>12, <1>13, <1>14 DEF HeadersRight, D, E

HeadersInv == CondsRight /\ Begun /\ MacrosKept /\ GuardsRight /\ HeadersRight

LEMMA HeadersStart ==
  ASSUME UnitsAssumption, MonitorInit
  PROVE  HeadersInv
<1>1. /\ phase = "lex" /\ entered = <<"main">> /\ open = <<[fid |-> 1, pos |-> 1]>> /\ conds = <<>>
      /\ defined = <<>> /\ guarding = {} /\ reports = {} /\ files = {"main"} \cap Headers
      /\ history = [expanded |-> {}, removed |-> {}, bodies |-> {}, judged |-> {}, defs |-> <<>>, declared |-> {}, begun |-> <<0>>]
  BY DEF MonitorInit
<1>2. /\ Len(open) = 1 /\ DOMAIN open = {1} /\ open[1].fid = 1 /\ open[1].pos = 1
      /\ DOMAIN entered = {1} /\ Len(entered) = 1 /\ entered[1] = "main"
  BY <1>1
<1>3. Len(conds) = 0 /\ history.bodies = {} /\ history.defs = <<>> /\ history.begun = <<0>> BY <1>1
<1>4. DOMAIN history.defs = {} /\ Len(history.defs) = 0 /\ Len(history.begun) = 1 /\ history.begun[1] = 0 BY <1>3
<1>5. CondsRight
  <2>1. \A s : Nest(s, 0) = 0 BY NestOn
  <2>2. \A S : CountTo(S, 0) = 0 BY CountedOn
  <2>3. InEntry(conds, open[1].fid) = Nest(text[FileOf(open[1])], open[1].pos - 1)
    <3>1. open[1].pos - 1 = 0 BY <1>2
    <3> QED BY <1>3, <2>1, <2>2, <3>1 DEF InEntry
  <2>4. 1 .. Len(conds) = {} BY <1>3
  <2> QED BY <1>2, <2>3, <2>4 DEF CondsRight
<1>6. Begun
  <2>1. history.begun \in Seq(Nat) BY <1>3
  <2>2. history.begun[1] <= Len(history.defs) BY <1>4
  <2> QED BY <1>2, <1>4, <2>1, <2>2 DEF Begun
<1>7. MacrosKept
  <2>1. 1 .. Len(history.defs) = {} BY <1>4
  <2> QED BY <2>1 DEF MacrosKept
<1>8. GuardsRight
  <2>1. ~(open[1].pos > 1) BY <1>2
  <2> QED BY <1>2, <1>3, <2>1 DEF GuardsRight, WithinText
<1>9. HeadersRight
  <2>1. Range(history.defs) = {} BY <1>4 DEF Range
  <2>2. Range(entered) = {"main"} BY <1>2 DEF Range
  <2>3. Reported("guard") = {} BY <1>1 DEF Reported
  <2> QED BY <1>1, <1>3, <2>1, <2>2, <2>3 DEF HeadersRight
<1> QED BY <1>5, <1>6, <1>7, <1>8, <1>9 DEF HeadersInv

LEMMA HeadersGoOn ==
  ASSUME UnitsAssumption, FilesOpen, Recorded, NamesRight, CondsShape, HeadersInv, [MonitorNext]_monitorVars
  PROVE  HeadersInv'
<1>1. CondsRight /\ Begun /\ MacrosKept /\ GuardsRight /\ HeadersRight BY DEF HeadersInv
<1> QED BY <1>1, CondsOn, BegunOn, MacrosKeptOn, GuardsOn, HeadersOn DEF HeadersInv

\* A header that is not reported is protected, and one with a guard is not reported.
LEMMA HeadersAre ==
  ASSUME UnitsAssumption, FilesOpen, Recorded, HeadersInv
  PROVE  HeadersJudged
<1> SUFFICES ASSUME phase \in {"match", "done"}, NEW f \in Range(entered) \cap Headers PROVE
      LET own == ControllingMacro(f)
          silent == \A r \in Reported("guard") : r.name # f
          removed == own # "" /\ \E at \in Is({"undef"}) : LineAt(at).m = own
          lent == \E g \in Range(entered) \ {f} : \E l \in Range(text[f]) :
                    l.d = "define" /\ ControllingMacro(g) = l.m /\ l.m # own
          foreign == \E g \in Range(entered) \ {f} : \E l \in Range(text[g]) : l.d = "define" /\ l.m = own
          Guard(i) == FileOf(history.defs[i]) = f /\ LineAt(history.defs[i]).m = own
          protected == \E i \in DOMAIN history.defs :
                         Guard(i) /\ \A j \in history.bodies : entered[j] = f => history.begun[j] < i
      IN  /\ silent => protected \/ removed \/ lent
          /\ (own # "" /\ (\E i \in DOMAIN history.defs : Guard(i)) /\ ~removed /\ ~foreign) => silent
  BY DEF HeadersJudged
<1> DEFINE own == ControllingMacro(f)
           silent == \A r \in Reported("guard") : r.name # f
           removed == own # "" /\ \E at \in Is({"undef"}) : LineAt(at).m = own
           lent == \E g \in Range(entered) \ {f} : \E l \in Range(text[f]) :
                     l.d = "define" /\ ControllingMacro(g) = l.m /\ l.m # own
           foreign == \E g \in Range(entered) \ {f} : \E l \in Range(text[g]) : l.d = "define" /\ l.m = own
           Guard(i) == FileOf(history.defs[i]) = f /\ LineAt(history.defs[i]).m = own
           protected == \E i \in DOMAIN history.defs :
                          Guard(i) /\ \A j \in history.bodies : entered[j] = f => history.begun[j] < i
<1>1. Begun /\ GuardsRight /\ HeadersRight BY DEF HeadersInv
<1>2. phase # "lex" /\ open = <<>> BY DEF FilesOpen
<1>3. silent <=> \E d \in Range(history.defs) \cap guarding : FileOf(d) = f
  <2>1. {r.name : r \in Reported("guard")} =
          (Range(entered) \cap Headers) \ {FileOf(d) : d \in Range(history.defs) \cap guarding}
    BY <1>1, <1>2 DEF HeadersRight
  <2>2. silent <=> f \notin {r.name : r \in Reported("guard")} OBVIOUS
  <2> HIDE DEF silent
  <2> QED BY <2>1, <2>2
<1>4. \A d \in Range(history.defs) : d \in Past /\ d.pos \in DOMAIN text[FileOf(d)] /\ LineAt(d) \in Range(text[FileOf(d)])
  <2>1. history.defs \in Seq(Named) BY DEF Recorded
  <2>2. \A i \in DOMAIN history.defs : history.defs[i] \in Past BY <2>1, ElementOfSeq DEF Named
  <2>3. \A d \in Range(history.defs) : d \in Past BY <2>2 DEF Range
  <2>4. \A d \in Past : d.pos \in DOMAIN text[FileOf(d)] BY UnitLines
  <2> QED BY <2>3, <2>4 DEF LineAt, Range
<1>5. removed <=> own # "" /\ ~Unremoved(own) BY DEF Unremoved
<1>6. ASSUME silent, ~removed, ~lent PROVE protected
  <2>1. PICK d \in Range(history.defs) \cap guarding : FileOf(d) = f BY <1>3, <1>6
  <2>2. LineAt(d).d = "define" /\ LineAt(d).m # "" /\ \E g \in Range(entered) : ControllingMacro(g) = LineAt(d).m
    BY <1>1, <2>1 DEF HeadersRight
  <2>3. LineAt(d).m = own
    <3> SUFFICES ASSUME LineAt(d).m # own PROVE FALSE OBVIOUS
    <3>1. PICK g \in Range(entered) : ControllingMacro(g) = LineAt(d).m BY <2>2
    <3>2. g # f /\ LineAt(d) \in Range(text[f]) BY <1>4, <2>1, <3>1
    <3> QED BY <1>6, <2>2, <3>1, <3>2
  <2>4. PICK i \in DOMAIN history.defs : history.defs[i] = d BY <2>1 DEF Range
  <2>5. own # "" /\ Unremoved(own) BY <1>5, <1>6, <2>2, <2>3
  <2> HIDE DEF own, protected, Guard
  <2>6. ASSUME NEW j \in history.bodies, entered[j] = f PROVE history.begun[j] < i
    <3>1. j \in DOMAIN entered /\ Fresh(j) BY <1>1 DEF GuardsRight
    <3>2. \A b \in 1 .. history.begun[j] : LineAt(history.defs[b]).m # own
      BY <2>5, <2>6, <3>1 DEF Fresh, own
    <3>3. history.begun[j] \in Nat
      <4>1. history.begun \in Seq(Nat) /\ DOMAIN entered = 1 .. Len(history.begun) BY <1>1, UnitLines DEF Begun
      <4> QED BY <3>1, <4>1, ElementOfSeq
    <3>4. i \in Nat \ {0}
      <4>1. history.defs \in Seq(Named) BY DEF Recorded
      <4>2. DOMAIN history.defs = 1 .. Len(history.defs) BY <4>1
      <4> QED BY <4>2
    <3>5. i \notin 1 .. history.begun[j] BY <2>3, <2>4, <3>2
    <3> QED BY <3>3, <3>4, <3>5
  <2>7. Guard(i) BY <2>1, <2>3, <2>4 DEF Guard
  <2> QED BY <2>6, <2>7 DEF protected
<1>7. ASSUME own # "", NEW i \in DOMAIN history.defs, Guard(i), ~removed, ~foreign PROVE silent
  <2>1. PICK d \in Range(history.defs) : d = history.defs[i] BY DEF Range
  <2>2. FileOf(d) = f /\ LineAt(d).m = own BY <1>7, <2>1
  <2>3. Unremoved(own) BY <1>5, <1>7
  <2>4. ~Foreign(f, own) BY <1>7 DEF Foreign
  <2>5. DefinesGuard(d) BY <1>7, <2>2 DEF DefinesGuard
  <2>6. Closed(d.fid) BY <1>2 DEF Closed
  <2> HIDE DEF own, silent
  <2>7. PICK e \in guarding : FileOf(e) = f BY <1>1, <2>2, <2>3, <2>4, <2>5, <2>6 DEF HeadersRight
  <2>8. e \in Range(history.defs) BY <1>1 DEF HeadersRight
  <2> QED BY <1>3, <2>7, <2>8
<1> HIDE DEF own, silent, removed, lent, foreign, Guard, protected
<1>8. /\ silent => protected \/ removed \/ lent
      /\ (own # "" /\ (\E i \in DOMAIN history.defs : Guard(i)) /\ ~removed /\ ~foreign) => silent
  BY <1>6, <1>7
<1> QED BY <1>8 DEF own, silent, removed, lent, foreign, Guard, protected

--------------------------------------------------------------------------------
(* Together. *)

EventsInv ==
  FilesOpen /\ Recorded /\ NamesRight /\ ReservedRight /\ VerdictsRight /\ CommentsRight /\ IfsRight /\ HeadersInv

LEMMA EventsStart ==
  ASSUME UnitsAssumption, MonitorInit
  PROVE  EventsInv
<1>1. /\ text \in Units /\ phase = "lex" /\ entered = <<"main">> /\ open = <<[fid |-> 1, pos |-> 1]>>
      /\ conds = <<>> /\ macros = [m \in Names |-> Nowhere] /\ decls = <<>> /\ ifStack = <<>>
      /\ usage = <<>> /\ macroNames = <<>> /\ reports = {}
      /\ history = [expanded |-> {}, removed |-> {}, bodies |-> {}, judged |-> {}, defs |-> <<>>, declared |-> {}, begun |-> <<0>>]
  BY DEF MonitorInit
<1>2. UnitAccepted(text) BY <1>1 DEF UnitsAssumption
<1>3. /\ Len(open) = 1 /\ DOMAIN open = {1} /\ open[1] = [fid |-> 1, pos |-> 1] /\ open[1].fid = 1 /\ open[1].pos = 1
      /\ DOMAIN entered = {1} /\ Len(entered) = 1 /\ entered[1] = "main"
  BY <1>1
<1>4. FilesOpen
  <2>1. "main" \in DOMAIN text BY <1>2 DEF UnitAccepted
  <2>2. entered \in Seq(DOMAIN text) BY <1>1, <2>1
  <2>3. open \in Seq([fid : Nat \ {0}, pos : Nat \ {0}])
    <3> DEFINE S == [fid : Nat \ {0}, pos : Nat \ {0}]
               e == [fid |-> 1, pos |-> 1]
    <3>1. e \in S OBVIOUS
    <3>2. open = <<e>> BY <1>1
    <3> HIDE DEF S, e
    <3>3. open \in Seq(S) BY <3>1, <3>2
    <3> QED BY <3>3 DEF S
  <2> QED BY <1>1, <1>3, <2>2, <2>3 DEF FilesOpen
<1>5. Past = {}
  <2> SUFFICES ASSUME NEW at \in Past PROVE FALSE OBVIOUS
  <2>1. at.fid = 1 /\ at.pos \in Nat /\ at.pos \in DOMAIN text[FileOf(at)] /\ at.pos < 1 BY <1>3 DEF Past
  <2>2. at.pos = 0 BY <2>1
  <2>3. FileOf(at) \in DOMAIN text BY <1>4, UnitLines
  <2>4. text[FileOf(at)] \in Seq([d : Directives, m : STRING, t : Seq(STRING), fn : BOOLEAN]) BY <1>4, <2>3, UnitLines
  <2> QED BY <2>1, <2>2, <2>4
<1>6. /\ history.expanded = {} /\ history.removed = {} /\ history.defs = <<>> /\ history.declared = {} /\ HistoryShape
  BY <1>1 DEF HistoryShape
<1>7. DOMAIN usage = {} /\ DOMAIN macroNames = {} /\ DOMAIN history.defs = {} BY <1>1, <1>6
<1>8. Recorded
  <2>1. \A S : history.defs \in Seq(S) /\ decls \in Seq(S) BY <1>1, <1>6
  <2>2. macros \in [Names -> Past \cup {Nowhere}] BY <1>1
  <2> QED BY <1>1, <1>6, <1>7, <2>1, <2>2 DEF Recorded
<1>9. NamesRight BY <1>5, <1>7, <1>8 DEF NamesRight, Recorded
<1>10. ReservedRight BY <1>1, <1>5 DEF ReservedRight, Said
<1>11. VerdictsRight
  <2>1. \A c : Reported(c) = {} BY <1>1 DEF Reported
  <2>2. UserNames = {} BY <1>7 DEF UserNames, Range
  <2> QED BY <1>1, <1>6, <1>7, <2>1, <2>2 DEF VerdictsRight
<1>12. CommentsRight
  <2>1. Live BY <1>1 DEF Live
  <2> QED BY <1>3, <1>5, <2>1 DEF CommentsRight
<1>13. IfsRight
  <2>1. IsSeq(conds) /\ IsSeq(ifStack) BY <1>1 DEF IsSeq
  <2>2. Len(conds) = 0 /\ Len(ifStack) = 0 BY <1>1
  <2>3. StackOf(conds, ifStack) BY <2>1, <2>2 DEF StackOf
  <2>4. Reported("cross-file") = {} BY <1>1 DEF Reported
  <2>5. OpenOnly(conds, ifStack)
    <3>1. 1 .. 0 = {} OBVIOUS
    <3> QED BY <2>1, <2>2, <3>1 DEF OpenOnly
  <2> QED BY <2>1, <2>2, <2>3, <2>4, <2>5 DEF IfsRight
<1>14. HeadersInv BY HeadersStart
<1> QED BY <1>4, <1>8, <1>9, <1>10, <1>11, <1>12, <1>13, <1>14 DEF EventsInv

LEMMA EventsGoOn ==
  ASSUME UnitsAssumption, EventsInv, [MonitorNext]_monitorVars
  PROVE  EventsInv'
<1>1. /\ FilesOpen /\ Recorded /\ NamesRight /\ ReservedRight /\ VerdictsRight /\ CommentsRight /\ IfsRight /\ HeadersInv
  BY DEF EventsInv
<1>2. FilesOpen' BY <1>1, Moves
<1>3. Recorded' /\ NamesRight' /\ ReservedRight' /\ VerdictsRight'
  BY <1>1, RecordedOn, NamesOn, ReservedOn, VerdictsOn
<1>4. CommentsRight' /\ IfsRight'
  <2>1. LiveAround(conds) BY <1>1 DEF HeadersInv, CondsRight, LiveAround
  <2> QED BY <1>1, <2>1, CommentsOn, IfsOn
<1>5. HeadersInv' BY <1>1, HeadersGoOn DEF IfsRight, CondsShape
<1> QED BY <1>2, <1>3, <1>4, <1>5 DEF EventsInv

\* The stack in AvoidCrossFileIfCheck is the preprocessor's.
LEMMA IfsAre ==
  ASSUME IfsRight
  PROVE  IfsMatched
<1> SUFFICES ASSUME NoSystemIf
             PROVE  /\ ifStack = [i \in {i \in DOMAIN conds : i = 1 \/ conds[i - 1].live} |-> conds[i].at]
                    /\ Reported("cross-file") = {}
  <2>1. OpenOnly(conds, ifStack) /\ IsSeq(conds) BY DEF IfsRight
  <2>2. DOMAIN ifStack = 1 .. Len(ifStack) /\ DOMAIN conds = 1 .. Len(conds) BY <2>1 DEF OpenOnly, IsSeq
  <2>3. \A i \in DOMAIN ifStack : \E j \in DOMAIN conds : conds[j].at = ifStack[i] BY <2>1, <2>2 DEF OpenOnly
  <2> QED BY <2>3 DEF IfsMatched, NoSystemIf
<1> DEFINE reached == {i \in DOMAIN conds : i = 1 \/ conds[i - 1].live}
<1>1. StackOf(conds, ifStack) /\ IsSeq(conds) /\ Reported("cross-file") = {} BY DEF IfsRight
<1>2. PICK n \in Nat, r \in Nat : n = Len(conds) /\ r = Len(ifStack) /\ DOMAIN conds = 1 .. n
                                  /\ ifStack = [i \in 1 .. r |-> ifStack[i]]
  <2>1. PICK S : conds \in Seq(S) BY <1>1 DEF IsSeq
  <2>2. PICK T : ifStack \in Seq(T) BY <1>1 DEF StackOf, IsSeq
  <2>3. Len(ifStack) \in Nat /\ ifStack = [i \in 1 .. Len(ifStack) |-> ifStack[i]] BY <2>2
  <2> QED BY <2>1, <2>3
<1>3. /\ r <= n /\ (n > 0 => r > 0)
      /\ \A i \in 1 .. n : /\ i < n => (conds[i].live <=> i < r)
                           /\ i <= r => ifStack[i] = conds[i].at
  BY <1>1, <1>2 DEF StackOf
<1>4. reached = 1 .. r
  <2>1. ASSUME NEW i \in 1 .. n PROVE (i = 1 \/ conds[i - 1].live) <=> i <= r
    <3>1. CASE i = 1 BY <1>3, <3>1
    <3>2. CASE i # 1
      <4>1. i - 1 \in 1 .. n /\ i - 1 < n BY <3>2
      <4>2. conds[i - 1].live <=> i - 1 < r BY <1>3, <4>1
      <4>3. i - 1 < r <=> i <= r OBVIOUS
      <4> QED BY <3>2, <4>2, <4>3
    <3> QED BY <3>1, <3>2
  <2>2. 1 .. r \subseteq 1 .. n BY <1>3
  <2>3. \A i \in 1 .. n : i <= r <=> i \in 1 .. r OBVIOUS
  <2> QED BY <1>2, <2>1, <2>2, <2>3
<1>5. \A i \in 1 .. r : ifStack[i] = conds[i].at BY <1>3
<1>6. ifStack = [i \in 1 .. r |-> conds[i].at] BY <1>2, <1>5
<1> HIDE DEF reached
<1>7. ifStack = [i \in reached |-> conds[i].at] BY <1>4, <1>6
<1> QED BY <1>1, <1>7 DEF reached

LEMMA NamesAre ==
  ASSUME UnitsAssumption, EventsInv
  PROVE  NamesJudged
<1> SUFFICES ASSUME phase = "done" PROVE NamesJudged BY DEF NamesJudged
<1> DEFINE defs == history.defs
           final == {defs[i] : i \in {i \in DOMAIN defs :
                       \A j \in i + 1 .. Len(defs) : LineAt(defs[j]).m # LineAt(defs[i]).m}}
           idle == {d \in final : InMain(d) /\ d \notin history.expanded \cup history.removed}
           Twin(r, c) == [r EXCEPT !.check = c] \in reports
<1>1. /\ FilesOpen /\ Recorded /\ NamesRight /\ ReservedRight /\ VerdictsRight BY DEF EventsInv
<1>2. /\ Nowhere \notin Past /\ DOMAIN usage \subseteq Names /\ \A m \in DOMAIN usage : usage[m].at \in Past \cup {Nowhere}
      /\ \A i \in DOMAIN defs : defs[i] \in Past /\ LineAt(defs[i]).m \in Names
  <2>1. defs \in Seq(Named) BY <1>1 DEF Recorded
  <2>2. \A i \in DOMAIN defs : defs[i] \in Named BY <2>1, ElementOfSeq
  <2> QED BY <1>1, <2>2, UnitLines DEF Recorded, Named
<1>3. \A d : d \in final <=> \E m : LastDef(m, d) BY DEF LastDef
<1> HIDE DEF final
<1>4. {r.at : r \in Reported("unused")} = idle
  <2>1. Reported("unused") = Unused BY <1>1 DEF VerdictsRight
  <2>2. ASSUME NEW r \in Unused PROVE r.at \in idle
    <3>1. PICK m \in DOMAIN usage : r.at = usage[m].at /\ ~usage[m].used /\ InMain(usage[m].at) BY DEF Unused, Say
    <3>2. usage[m].at # Nowhere BY <3>1 DEF InMain, Nowhere
    <3>3. usage[m].at \in Past /\ m \in Names BY <1>2, <3>2
    <3>4. LastDef(m, usage[m].at) BY <1>1, <3>3 DEF NamesRight
    <3>5. usage[m].at \notin history.expanded \cup history.removed BY <1>1, <3>1, <3>3, <3>4 DEF NamesRight
    <3> QED BY <1>3, <3>1, <3>4, <3>5
  <2>3. ASSUME NEW d \in idle PROVE \E r \in Unused : r.at = d
    <3>1. PICK m : LastDef(m, d) BY <1>3
    <3>2. d \in Past /\ m \in Names BY <1>2, <3>1 DEF LastDef
    <3>3. m \in DOMAIN usage /\ usage[m].at = d /\ ~usage[m].used BY <1>1, <3>1, <3>2 DEF NamesRight
    <3> DEFINE r == [check |-> "unused", at |-> usage[m].at, name |-> m]
    <3>4. r \in Unused BY <3>3 DEF Unused, Say
    <3>5. r.at = d BY <3>3
    <3> QED BY <3>4, <3>5
  <2> QED BY <2>1, <2>2, <2>3
<1>5. {r.at : r \in Reported("conflict")} =
        {d \in history.declared : ~InSystem(d) /\ \E i \in DOMAIN defs :
                                    ~InSystem(defs[i]) /\ LineAt(defs[i]).m = LineAt(d).m}
  <2>1. \A m : m \in UserNames <=> \E i \in DOMAIN defs : ~InSystem(defs[i]) /\ LineAt(defs[i]).m = m
    BY DEF UserNames, Range
  <2>2. Range(decls) = {} BY <1>1 DEF VerdictsRight, Range
  <2>3. /\ \A r \in Reported("conflict") : r.at \in history.declared /\ ~InSystem(r.at) /\ LineAt(r.at).m \in UserNames
        /\ \A d \in history.declared : ~InSystem(d) /\ LineAt(d).m \in UserNames => \E r \in Reported("conflict") : r.at = d
    BY <1>1, <2>2 DEF VerdictsRight
  <2> QED BY <2>1, <2>3
<1>6. ASSUME NEW r \in reports
      PROVE  /\ r.at \in Past \cup {Nowhere} /\ Said(r.check, r.at, r.name)
             /\ \A c : Twin(r, c) <=> Said(c, r.at, r.name)
  <2>1. r = [check |-> r.check, at |-> r.at, name |-> r.name] /\ r.at \in Past \cup {Nowhere} BY <1>1 DEF Recorded
  <2>2. \A c : [r EXCEPT !.check = c] = [check |-> c, at |-> r.at, name |-> r.name] BY <2>1
  <2> QED BY <2>1, <2>2 DEF Said
<1>7. ASSUME NEW r \in Reported("reserved"), r.name \in StandardNames PROVE Twin(r, "avoid-reserved")
  <2>1. r \in reports /\ r.check = "reserved" BY DEF Reported
  <2>2. Said("reserved", r.at, r.name) /\ r.at \in Past \cup {Nowhere} BY <1>6, <2>1
  <2>3. Said("avoid-reserved", r.at, r.name) BY <1>1, <1>7, <2>2 DEF ReservedRight
  <2> QED BY <1>6, <2>1, <2>3
<1>8. ASSUME NEW r \in Reported("avoid-reserved")
      PROVE  Twin(r, "reserved") \/ (InSystem(r.at) /\ LineAt(r.at).d = "undef" /\ ~Twin(r, "undef"))
  <2>1. r \in reports /\ r.check = "avoid-reserved" BY DEF Reported
  <2>2. Said("avoid-reserved", r.at, r.name) /\ r.at \in Past \cup {Nowhere} BY <1>6, <2>1
  <2>3. \/ Said("reserved", r.at, r.name)
        \/ InSystem(r.at) /\ LineAt(r.at).d = "undef" /\ ~Said("undef", r.at, r.name)
    BY <1>1, <2>2 DEF ReservedRight
  <2> QED BY <1>6, <2>1, <2>3
<1> QED BY <1>4, <1>5, <1>7, <1>8 DEF NamesJudged, final

LEMMA CommentsAre ==
  ASSUME UnitsAssumption, EventsInv
  PROVE  CommentsJudged
<1> SUFFICES ASSUME phase = "done", NEW at \in Is({"comment"}), OnlyComments(FileOf(at))
             PROVE  LET s == LineAt(at).t
                        said == {r.name : r \in {r \in Reported("comment") : r.at = at}}
                        spliced == s[Second(s)] = "*" /\ s[Len(s) - 1] = "~"
                    IN  /\ said = {} /\ ~spliced => \A i \in Marks(s) : InURL(s, i)
                        /\ \A w \in said : w[1] # "*/" => w[2] \in Marks(s) \cup {Second(s)}
                        /\ s[Second(s)] = "/" => {r.name : r \in {r \in Reported("splice") : r.at = at}} = {i \in DOMAIN s : s[i] = "~"}
  BY DEF CommentsJudged, OnlyComments
<1>1. FilesOpen /\ Recorded /\ CommentsRight BY DEF EventsInv
<1>2. PICK i \in 1 .. Len(entered) : \E p \in DOMAIN text[entered[i]] :
        at = [fid |-> i, pos |-> p] /\ text[entered[i]][p].d \in {"comment"}
  BY DEF Is, ReadTo
<1>3. PICK p \in DOMAIN text[entered[i]] : at = [fid |-> i, pos |-> p] /\ text[entered[i]][p].d = "comment" BY <1>2
<1>4. /\ i \in DOMAIN entered /\ entered[i] \in DOMAIN text /\ UnitAccepted(text)
      /\ text[entered[i]] \in Seq([d : Directives, m : STRING, t : Seq(STRING), fn : BOOLEAN])
  BY <1>1, UnitLines
<1>5. at \in Past
  <2>1. open = <<>> BY <1>1 DEF FilesOpen
  <2>2. DOMAIN open = {} BY <2>1
  <2>3. p \in Nat BY <1>4
  <2> QED BY <1>3, <1>4, <2>2, <2>3 DEF Past, FileOf
<1> DEFINE s == LineAt(at).t
<1>6. IsComment(s) BY <1>3, <1>4 DEF UnitAccepted, LineAt, FileOf
<1>7. \A n : /\ Said("comment", at, n) <=> n \in WithinComment(s)
             /\ Said("splice", at, n) <=> n \in Splices(s)
  BY <1>1, <1>5 DEF CommentsRight
<1>8. ASSUME NEW c PROVE {r.name : r \in {r \in Reported(c) : r.at = at}} = {r.name : r \in {r \in reports : r.check = c /\ r.at = at}}
  BY DEF Reported
<1>9. ASSUME NEW c, NEW S, \A n : Said(c, at, n) <=> n \in S
      PROVE  {r.name : r \in {r \in Reported(c) : r.at = at}} = S
  <2>1. ASSUME NEW r \in Reported(c), r.at = at PROVE r.name \in S
    <3>1. r = [check |-> r.check, at |-> r.at, name |-> r.name] /\ r.check = c /\ r \in reports BY <1>1 DEF Recorded, Reported
    <3>2. Said(c, at, r.name) BY <2>1, <3>1 DEF Said
    <3> QED BY <1>9, <3>2
  <2>2. ASSUME NEW n \in S PROVE \E r \in Reported(c) : r.at = at /\ r.name = n
    <3> DEFINE r == [check |-> c, at |-> at, name |-> n]
    <3>1. r \in reports BY <1>9 DEF Said
    <3>2. r.check = c /\ r.at = at /\ r.name = n OBVIOUS
    <3> HIDE DEF r
    <3> QED BY <3>1, <3>2 DEF Reported
  <2> QED BY <2>1, <2>2
<1>10. {r.name : r \in {r \in Reported("comment") : r.at = at}} = WithinComment(s) BY <1>7, <1>9
<1>11. {r.name : r \in {r \in Reported("splice") : r.at = at}} = Splices(s) BY <1>7, <1>9
<1> HIDE DEF s
<1>12. /\ WithinComment(s) = {} /\ ~(s[Second(s)] = "*" /\ s[Len(s) - 1] = "~") => \A k \in Marks(s) : InURL(s, k)
       /\ \A w \in WithinComment(s) : w[1] # "*/" => w[2] \in Marks(s) \cup {Second(s)}
       /\ s[Second(s)] = "/" => Splices(s) = {k \in DOMAIN s : s[k] = "~"}
  BY <1>6, CommentRight
<1> QED BY <1>10, <1>11, <1>12 DEF s

\* The monitors of conditionals, headers, names and comments report what they should in
\* every unit: AvoidCrossFileIfCheck keeps the preprocessor's stack, a header that
\* MissingHeaderGuardCheck does not report is protected, UnusedMacroCheck and
\* AvoidMacroIdentifierConflictCheck judge the last definitions and the user's names,
\* the checks of reserved names agree, and the scan of a comment finds its marks.
THEOREM EventsRight == MonitorSpec => []EventsJudged
<1>1. MonitorInit => EventsInv BY UnitsAssumption, EventsStart
<1>2. EventsInv /\ [MonitorNext]_monitorVars => EventsInv' BY UnitsAssumption, EventsGoOn
<1>3. EventsInv => EventsJudged
  <2> SUFFICES ASSUME EventsInv PROVE EventsJudged OBVIOUS
  <2>1. IfsMatched BY IfsAre DEF EventsInv
  <2>2. NamesJudged /\ CommentsJudged BY UnitsAssumption, NamesAre, CommentsAre
  <2>3. HeadersJudged BY UnitsAssumption, HeadersAre DEF EventsInv
  <2> QED BY <2>1, <2>2, <2>3 DEF EventsJudged
<1> QED BY <1>1, <1>2, <1>3, PTL DEF MonitorSpec
================================================================================
