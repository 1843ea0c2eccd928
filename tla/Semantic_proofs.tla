-------------------------- MODULE Semantic_proofs --------------------------
(***************************************************************************)
(* The verdict of the pass of Semantic and the names it leaves, for every  *)
(* tree a parser can build.                                                *)
(*                                                                         *)
(* The first part is about trees alone: what is under a node, and that     *)
(* what is under one node is not under another.  The second part carries   *)
(* through every step what the pass has still to visit, what is declared   *)
(* by then, and what the answer and the names say of the nodes it is done  *)
(* with.                                                                   *)
(***************************************************************************)
EXTENDS Semantic, SequenceTheorems, WellFoundedInduction, TLAPS

-----------------------------------------------------------------------------
(* Induction on the numbers, for a set: the library's theorems take an operator. *)

\* Some number of a set of numbers is the least.
LEMMA Least ==
  ASSUME NEW T, T \subseteq Nat, T # {}
  PROVE  \E x \in T : \A y \in T : x <= y
<1> DEFINE R == OpToRel(<, Nat)
<1>1. IsWellFoundedOn(R, Nat)
  BY NatLessThanWellFounded
<1>2. R = {ss \in Nat \X Nat : ss[1] < ss[2]}
  BY DEF OpToRel
<1> HIDE DEF R
<1>3. PICK x \in T : \A y \in T : ~(<<y, x>> \in R)
  BY <1>1, WFMin
<1>4. ASSUME NEW y \in T PROVE x <= y
  <2>1. <<y, x>> \in Nat \X Nat /\ <<y, x>>[1] = y /\ <<y, x>>[2] = x
    OBVIOUS
  <2>2. ~(<<y, x>>[1] < <<y, x>>[2])
    BY <2>1, <1>2, <1>3
  <2> QED
    BY <2>1, <2>2
<1> QED
  BY <1>4

\* Strong induction.
LEMMA StrongInduction ==
  ASSUME NEW T, \A n \in Nat : (\A m \in 0..n-1 : m \in T) => n \in T
  PROVE  Nat \subseteq T
<1> SUFFICES ASSUME Nat \ T # {} PROVE FALSE
  OBVIOUS
<1>1. PICK x \in Nat \ T : \A y \in Nat \ T : x <= y
  BY Least
<1>2. \A m \in 0..x-1 : m \in T
  BY <1>1
<1> QED
  BY <1>1, <1>2

-----------------------------------------------------------------------------
(* Trees *)

\* A set of nodes is closed when it has the children of its nodes.
Closed(src, S) == \A a \in S : Kids(src[a]) \subseteq S

\* The nodes under n: what every closed set with n has.
Under(src, n) ==
  {m \in DOMAIN src : \A S \in SUBSET DOMAIN src : (n \in S /\ Closed(src, S)) => m \in S}

\* The children of a node are nodes made before it.
LEMMA KidsBefore ==
  ASSUME NEW src, NEW bd, IsTree(src, bd), NEW n \in DOMAIN src
  PROVE  Kids(src[n]) \subseteq DOMAIN src /\ \A c \in Kids(src[n]) : c < n
BY DEF IsTree, Kids, NULL

LEMMA UnderClosed ==
  ASSUME NEW src, NEW bd, IsTree(src, bd), NEW n \in DOMAIN src
  PROVE  n \in Under(src, n) /\ Under(src, n) \subseteq DOMAIN src /\ Closed(src, Under(src, n))
<1>1. n \in Under(src, n) /\ Under(src, n) \subseteq DOMAIN src
  BY DEF Under
<1>2. ASSUME NEW a \in Under(src, n), NEW c \in Kids(src[a]) PROVE c \in Under(src, n)
  <2>1. c \in DOMAIN src
    BY <1>1, KidsBefore
  <2>2. ASSUME NEW S \in SUBSET DOMAIN src, n \in S, Closed(src, S) PROVE c \in S
    <3>1. a \in S
      BY <2>2 DEF Under
    <3> QED
      BY <2>2, <3>1 DEF Closed
  <2> QED
    BY <2>1, <2>2 DEF Under
<1> QED
  BY <1>1, <1>2 DEF Closed

\* Nothing smaller than the nodes under n is closed and has n.
LEMMA UnderLeast ==
  ASSUME NEW src, NEW n, NEW S \in SUBSET DOMAIN src, n \in S, Closed(src, S)
  PROVE  Under(src, n) \subseteq S
BY DEF Under

LEMMA UnderBounded ==
  ASSUME NEW src, NEW bd, IsTree(src, bd), NEW n \in DOMAIN src
  PROVE  Under(src, n) \subseteq 1..n
<1>1. 1..n \in SUBSET DOMAIN src /\ n \in 1..n
  BY DEF IsTree
<1>2. ASSUME NEW a \in 1..n, NEW c \in Kids(src[a]) PROVE c \in 1..n
  <2>1. a \in DOMAIN src /\ DOMAIN src = 1..Len(src) /\ Len(src) \in Nat
    BY <1>1 DEF IsTree
  <2>2. c \in DOMAIN src /\ c < a
    BY <2>1, KidsBefore
  <2> QED
    BY <2>1, <2>2
<1>3. Closed(src, 1..n)
  BY <1>2 DEF Closed
<1> QED
  BY <1>1, <1>3, UnderLeast

\* What is under n is n and what is under its children.
LEMMA UnderRule ==
  ASSUME NEW src, NEW bd, IsTree(src, bd), NEW n \in DOMAIN src
  PROVE  Under(src, n) = {n} \cup UNION {Under(src, c) : c \in Kids(src[n])}
<1> DEFINE S == {n} \cup UNION {Under(src, c) : c \in Kids(src[n])}
<1>1. ASSUME NEW c \in Kids(src[n])
      PROVE  c \in Under(src, c) /\ Under(src, c) \subseteq DOMAIN src /\ Closed(src, Under(src, c))
  BY KidsBefore, UnderClosed
<1>2. S \subseteq Under(src, n)
  <2>1. ASSUME NEW c \in Kids(src[n]) PROVE Under(src, c) \subseteq Under(src, n)
    BY UnderClosed, UnderLeast DEF Closed
  <2> QED
    BY <2>1, UnderClosed
<1>3. n \in S /\ S \in SUBSET DOMAIN src
  BY <1>1
<1>4. Closed(src, S)
  BY <1>1 DEF Closed
<1> HIDE DEF S
<1>5. Under(src, n) \subseteq S
  BY <1>3, <1>4, UnderLeast
<1> QED
  BY <1>2, <1>5 DEF S

\* What is under n and is not n is the child of a node under n.
LEMMA ParentUnder ==
  ASSUME NEW src, NEW bd, IsTree(src, bd), NEW n \in DOMAIN src,
         NEW m \in Under(src, n), m # n
  PROVE  \E p \in Under(src, n) : m \in Kids(src[p])
<1> DEFINE S == {n} \cup {x \in Under(src, n) : \E p \in Under(src, n) : x \in Kids(src[p])}
<1>1. n \in S /\ S \in SUBSET DOMAIN src
  BY UnderClosed
<1>2. Closed(src, S)
  BY UnderClosed DEF Closed
<1>3. m \in S
  <2> HIDE DEF S
  <2> QED
    BY <1>1, <1>2, UnderLeast
<1> QED
  BY <1>3

\* Of two nodes neither of which is under the other, nothing is under both.
LEMMA UnderApart ==
  ASSUME NEW src, NEW bd, IsTree(src, bd), NEW a \in DOMAIN src, NEW b \in DOMAIN src,
         a \notin Under(src, b), b \notin Under(src, a)
  PROVE  Under(src, a) \cap Under(src, b) = {}
<1> DEFINE S == Under(src, a) \ Under(src, b)
<1>1. a \in S /\ S \in SUBSET DOMAIN src
  BY UnderClosed
<1>2. ASSUME NEW p \in S, NEW c \in Kids(src[p]) PROVE c \in S
  <2>1. c \in Under(src, a)
    BY UnderClosed DEF Closed
  <2>2. ASSUME c \in Under(src, b) PROVE FALSE
    <3>1. c # b
      BY <2>1
    <3>2. PICK q \in Under(src, b) : c \in Kids(src[q])
      BY <2>2, <3>1, ParentUnder
    <3>3. p \in 1..Len(src) /\ q \in 1..Len(src)
      BY UnderClosed DEF IsTree
    <3>4. p = q
      BY <3>2, <3>3 DEF IsTree
    <3> QED
      BY <3>2, <3>4
  <2> QED
    BY <2>1, <2>2
<1>3. Under(src, a) \subseteq S
  <2>1. Closed(src, S)
    BY <1>2 DEF Closed
  <2> HIDE DEF S
  <2> QED
    BY <1>1, <2>1, UnderLeast
<1> QED
  BY <1>3

\* The children of a node have nothing under them in common, nor the node.
LEMMA KidsApart ==
  ASSUME NEW src, NEW bd, IsTree(src, bd), NEW n \in DOMAIN src,
         NEW a \in Kids(src[n]), NEW b \in Kids(src[n]), a # b
  PROVE  Under(src, a) \cap Under(src, b) = {}
<1>1. a \in DOMAIN src /\ b \in DOMAIN src /\ a < n /\ b < n
  BY KidsBefore
<1>2. ASSUME NEW c \in Kids(src[n]), NEW d \in Kids(src[n]), c # d, c \in DOMAIN src,
             d \in DOMAIN src, d < n
      PROVE  c \notin Under(src, d)
  <2> SUFFICES ASSUME c \in Under(src, d) PROVE FALSE
    OBVIOUS
  <2>1. PICK p \in Under(src, d) : c \in Kids(src[p])
    BY <1>2, ParentUnder
  <2>2. p \in 1..d /\ p \in DOMAIN src
    BY <1>2, UnderBounded, UnderClosed
  <2>3. p = n
    BY <2>1, <2>2 DEF IsTree
  <2> QED
    BY <1>2, <2>2, <2>3 DEF IsTree
<1> QED
  BY <1>1, <1>2, UnderApart

LEMMA KidNotAbove ==
  ASSUME NEW src, NEW bd, IsTree(src, bd), NEW n \in DOMAIN src, NEW c \in Kids(src[n])
  PROVE  n \notin Under(src, c) /\ Under(src, c) \subseteq Under(src, n)
<1>1. c \in DOMAIN src /\ c < n
  BY KidsBefore
<1>2. Under(src, c) \subseteq 1..c
  BY <1>1, UnderBounded
<1>3. Under(src, c) \subseteq Under(src, n)
  BY UnderRule
<1> QED
  BY <1>1, <1>2, <1>3 DEF IsTree

\* The items of the body have nothing under them in common.
LEMMA ItemsApart ==
  ASSUME NEW src, NEW bd, IsTree(src, bd), NEW j \in DOMAIN bd, NEW k \in DOMAIN bd, j # k
  PROVE  Under(src, bd[j]) \cap Under(src, bd[k]) = {}
<1>1. bd[j] \in DOMAIN src /\ bd[k] \in DOMAIN src /\ bd[j] # bd[k]
  BY DEF IsTree
<1>2. ASSUME NEW i \in DOMAIN bd, NEW n \in DOMAIN src, bd[i] # n PROVE bd[i] \notin Under(src, n)
  <2> SUFFICES ASSUME bd[i] \in Under(src, n) PROVE FALSE
    OBVIOUS
  <2>1. PICK p \in Under(src, n) : bd[i] \in Kids(src[p])
    BY <1>2, ParentUnder
  <2>2. p \in DOMAIN src
    BY UnderClosed
  <2> QED
    BY <2>1, <2>2 DEF IsTree
<1> QED
  BY <1>1, <1>2, UnderApart

\* Under an item, only the item is a declaration or a statement.
LEMMA OnlyItemsDeclare ==
  ASSUME NEW src, NEW bd, IsTree(src, bd), NEW k \in DOMAIN bd, NEW n \in Under(src, bd[k]),
         src[n].type \in {"DECLARATION", "STATEMENT"}
  PROVE  n = bd[k]
<1>1. bd[k] \in DOMAIN src
  BY DEF IsTree
<1> SUFFICES ASSUME n # bd[k] PROVE FALSE
  OBVIOUS
<1>2. PICK p \in Under(src, bd[k]) : n \in Kids(src[p])
  BY <1>1, ParentUnder
<1>3. p \in DOMAIN src
  BY <1>1, UnderClosed
<1> QED
  BY <1>2, <1>3 DEF IsTree

\* The recursion of Subtree defines what is under a node.
LEMMA SubtreeIsUnder ==
  ASSUME IsTree(source, body), NEW n \in DOMAIN source
  PROVE  Subtree(n) = Under(source, n)
<1> DEFINE Rule(f) == f = [m \in DOMAIN source |-> {m} \cup UNION {f[c] : c \in Children(m)}]
           below == CHOOSE f : Rule(f)
           u == [m \in DOMAIN source |-> Under(source, m)]
<1>1. \A m \in DOMAIN source : Children(m) = Kids(source[m]) /\ Children(m) \subseteq DOMAIN source
  BY KidsBefore DEF Children, Kids
<1>2. Rule(u)
  <2>1. ASSUME NEW m \in DOMAIN source PROVE u[m] = {m} \cup UNION {u[c] : c \in Children(m)}
    <3>1. \A c \in Children(m) : u[c] = Under(source, c)
      BY <1>1
    <3>2. u[m] = {m} \cup UNION {Under(source, c) : c \in Children(m)}
      BY <1>1, UnderRule
    <3> HIDE DEF u
    <3>3. UNION {Under(source, c) : c \in Children(m)} = UNION {u[c] : c \in Children(m)}
      BY <3>1
    <3> QED
      BY <3>2, <3>3
  <2>2. u = [m \in DOMAIN source |-> u[m]]
    OBVIOUS
  <2> HIDE DEF u
  <2> QED
    BY <2>1, <2>2
<1>3. Rule(below)
  <2> HIDE DEF Rule, u
  <2> QED
    BY <1>2
<1>4. Subtree(n) = below[n]
  BY DEF Subtree
<1>5. \A m \in DOMAIN source : below[m] = {m} \cup UNION {below[c] : c \in Children(m)}
  <2> HIDE DEF below
  <2> QED
    BY <1>3
<1> DEFINE T == {m \in Nat : m \in DOMAIN source => below[m] = Under(source, m)}
<1> HIDE DEF below, u, Rule
<1>6. ASSUME NEW m \in Nat, \A k \in 0..m-1 : k \in T PROVE m \in T
  <2> SUFFICES ASSUME m \in DOMAIN source PROVE below[m] = Under(source, m)
    OBVIOUS
  <2>1. ASSUME NEW c \in Children(m) PROVE below[c] = Under(source, c)
    <3>1. c \in DOMAIN source /\ c < m
      BY <1>1, KidsBefore
    <3>2. c \in Nat
      BY <3>1 DEF IsTree
    <3>3. c \in T
      BY <1>6, <3>1, <3>2
    <3> QED
      BY <3>1, <3>3
  <2>2. UNION {below[c] : c \in Children(m)} = UNION {Under(source, c) : c \in Children(m)}
    BY <2>1
  <2>3. below[m] = {m} \cup UNION {below[c] : c \in Children(m)}
    BY <1>5
  <2>4. Under(source, m) = {m} \cup UNION {Under(source, c) : c \in Kids(source[m])}
    BY UnderRule
  <2>5. Children(m) = Kids(source[m])
    BY <1>1
  <2> QED
    BY <2>2, <2>3, <2>4, <2>5
<1>7. Nat \subseteq T
  <2> HIDE DEF T
  <2> QED
    BY <1>6, StrongInduction
<1>8. n \in Nat
  BY DEF IsTree
<1> QED
  BY <1>4, <1>7, <1>8

-----------------------------------------------------------------------------
(* The inductive invariant *)

\* What is still to be visited of the items that were taken.
Pending == UNION {Under(source, todo[k]) : k \in DOMAIN todo}

\* The item was taken and is the next node.
Entering == Len(todo) = 1 /\ todo[1] = body[item - 1]

IsChild(m) == \E n \in DOMAIN source : m \in Kids(source[n])

\* The nodes to visit have nothing under them in common and are all under the
\* item that was taken last.
Places ==
  /\ item \in 1..Len(body)+1 /\ todo \in Seq(DOMAIN source)
  /\ status \in {"running", "done"}
  /\ status = "done" => todo = <<>> /\ item = Len(body) + 1
  /\ \A j, k \in DOMAIN todo : j # k => Under(source, todo[j]) \cap Under(source, todo[k]) = {}
  /\ todo # <<>> => /\ item - 1 \in DOMAIN body
                    /\ Pending \subseteq Under(source, body[item - 1])
                    /\ Resolves(source[body[item - 1]].type)
                    /\ Entering \/ \A k \in DOMAIN todo : IsChild(todo[k])

\* Only names are written, and none that is still to be read.
SameTree ==
  /\ DOMAIN ast = DOMAIN source
  /\ \A n \in DOMAIN source :
       ast[n] = Node(source[n].type, source[n].op, ast[n].name, source[n].value,
                     source[n].left, source[n].right)

Unread ==
  \A n \in DOMAIN source :
    (n \in Pending \/ \E k \in item..Len(body) : n \in Under(source, body[k]))
      => ast[n].name = source[n].name

\* The map has the names that are declared by now.
Entered  == IF Entering THEN item - 2 ELSE item - 1
Declared == \A x : x \in DOMAIN variableMap <=> DeclaredBy(Entered, x)

\* What ItemLegal asks of one node of item k.
Legal(k, n) ==
  /\ source[n].type = "DECLARATION" => ~DeclaredBy(k - 1, source[n].name)
  /\ source[n].type = "VARIABLE"    => DeclaredBy(k, source[n].name)
  /\ source[n].type = "ASSIGNMENT"  => source[source[n].left].type = "VARIABLE"

\* The nodes the pass is done with, each with its item.
Visited(k, n) == /\ k \in 1..item-1 /\ k \in Looked
                 /\ n \in Under(source, body[k]) /\ n \notin Pending

Judged ==
  /\ ok \in BOOLEAN
  /\ ok => \A k, n : Visited(k, n) => Legal(k, n)
  /\ ~ok => \E k \in Looked : \E n \in Under(source, body[k]) : ~Legal(k, n)

Names == {source[n].name : n \in DOMAIN source}

Renamed ==
  /\ variableMap = [x \in DOMAIN variableMap |-> variableMap[x]]
  /\ DOMAIN variableMap \subseteq Names
  /\ counter \in Nat
  /\ \A x \in DOMAIN variableMap : \E c \in 0..counter-1 : variableMap[x] = Append(x, c)
  /\ ok => \A k, n :
       (Visited(k, n) /\ source[n].type \in {"DECLARATION", "VARIABLE"})
         => /\ source[n].name \in DOMAIN variableMap
            /\ ast[n].name = variableMap[source[n].name]

IInv == Places /\ SameTree /\ Unread /\ Declared /\ Judged /\ Renamed

Tree == IsTree(source, body)

-----------------------------------------------------------------------------
(* Visiting a node *)

Current == todo[1]

\* The node is left for some of its children.
Moves(ns) ==
  /\ status = "running" /\ todo # <<>>
  /\ UNCHANGED <<input, item, status>>
  /\ ns \in Seq(Kids(source[Current]))
  /\ \A j, k \in 1..Len(ns) : j # k => ns[j] # ns[k]
  /\ todo' = ns \o Tail(todo)

\* The answer r is right about the node, and so are the names.
Judges(ns, r) ==
  /\ ok' = (ok /\ r)
  /\ r \in BOOLEAN
  /\ r <=> Legal(item - 1, Current)
  /\ r => Kids(source[Current]) \subseteq {ns[k] : k \in 1..Len(ns)}

Writes(r) ==
  /\ SameTree'
  /\ \A n \in DOMAIN source : n # Current => ast'[n] = ast[n]
  /\ \A x \in DOMAIN variableMap : x \in DOMAIN variableMap' /\ variableMap'[x] = variableMap[x]
  /\ variableMap' = [x \in DOMAIN variableMap' |-> variableMap'[x]]
  /\ DOMAIN variableMap' \subseteq Names
  /\ counter' \in Nat
  /\ \A x \in DOMAIN variableMap' : \E c \in 0..counter'-1 : variableMap'[x] = Append(x, c)
  /\ \A x : x \in DOMAIN variableMap' <=> DeclaredBy(item - 1, x)
  /\ (r /\ source[Current].type \in {"DECLARATION", "VARIABLE"})
       => /\ source[Current].name \in DOMAIN variableMap'
          /\ ast'[Current].name = variableMap'[source[Current].name]

LEMMA Spread ==
  ASSUME NEW S, NEW t \in Seq(S), t # <<>>, NEW ns \in Seq(S), NEW u, u = ns \o Tail(t)
  PROVE  /\ u \in Seq(S) /\ Len(t) \in Nat \ {0} /\ Len(ns) \in Nat
         /\ Len(u) = Len(ns) + Len(t) - 1
         /\ \A k \in 1..Len(ns) : u[k] = ns[k]
         /\ \A k \in Len(ns)+1..Len(u) : k - Len(ns) + 1 \in 2..Len(t) /\ u[k] = t[k - Len(ns) + 1]
<1> DEFINE w == Tail(t)
<1>1. Len(t) \in Nat \ {0} /\ Len(ns) \in Nat
  BY EmptySeq, LenProperties
<1>2. w \in Seq(S) /\ Len(w) = Len(t) - 1 /\ \A k \in 1..Len(w) : w[k] = t[k + 1]
  BY HeadTailProperties
<1> HIDE DEF w
<1>3. /\ u \in Seq(S) /\ Len(u) = Len(ns) + Len(w)
      /\ \A k \in 1..Len(u) : u[k] = IF k <= Len(ns) THEN ns[k] ELSE w[k - Len(ns)]
  BY <1>2, ConcatProperties DEF w
<1>4. ASSUME NEW k \in Len(ns)+1..Len(u)
      PROVE  k - Len(ns) + 1 \in 2..Len(t) /\ u[k] = t[k - Len(ns) + 1]
  <2>1. k \in 1..Len(u) /\ ~(k <= Len(ns)) /\ k - Len(ns) \in 1..Len(w)
    BY <1>1, <1>2, <1>3
  <2>2. u[k] = w[k - Len(ns)]
    BY <1>3, <2>1
  <2> QED
    BY <1>1, <1>2, <2>1, <2>2
<1>5. \A k \in 1..Len(ns) : u[k] = ns[k]
  BY <1>1, <1>2, <1>3
<1> QED
  BY <1>1, <1>2, <1>3, <1>4, <1>5

\* The nodes still to visit after a node: its children and the rest.
LEMMA NextNodes ==
  ASSUME Tree, Places, NEW ns, Moves(ns)
  PROVE  /\ todo' \in Seq(DOMAIN source)
         /\ Current \in DOMAIN source /\ 1 \in DOMAIN todo
         /\ DOMAIN todo' = 1..Len(todo')
         /\ \A k \in DOMAIN todo' :
              \/ k \in 1..Len(ns) /\ todo'[k] = ns[k] /\ ns[k] \in Kids(source[Current])
              \/ /\ k \in Len(ns)+1..Len(todo') /\ k - Len(ns) + 1 \in DOMAIN todo
                 /\ k - Len(ns) + 1 > 1 /\ todo'[k] = todo[k - Len(ns) + 1]
         /\ \A k \in 1..Len(ns) : k \in DOMAIN todo' /\ todo'[k] = ns[k]
         /\ \A k \in DOMAIN todo : k # 1 => /\ k - 1 + Len(ns) \in DOMAIN todo'
                                           /\ todo'[k - 1 + Len(ns)] = todo[k]
<1>1. todo \in Seq(DOMAIN source) /\ todo # <<>> /\ todo' = ns \o Tail(todo)
  BY DEF Places, Moves
<1>2. Len(todo) \in Nat \ {0} /\ DOMAIN todo = 1..Len(todo)
  BY <1>1, EmptySeq, LenProperties
<1>3. Current \in DOMAIN source /\ 1 \in DOMAIN todo
  BY <1>1, <1>2, ElementOfSeq DEF Current
<1>4. Kids(source[Current]) \subseteq DOMAIN source
  BY <1>3, KidsBefore DEF Tree
<1>5. ns \in Seq(Kids(source[Current])) /\ ns \in Seq(DOMAIN source) /\ DOMAIN ns = 1..Len(ns)
  BY <1>4 DEF Moves
<1>6. /\ todo' \in Seq(DOMAIN source) /\ Len(ns) \in Nat
      /\ Len(todo') = Len(ns) + Len(todo) - 1
      /\ \A k \in 1..Len(ns) : todo'[k] = ns[k]
      /\ \A k \in Len(ns)+1..Len(todo') :
           k - Len(ns) + 1 \in 2..Len(todo) /\ todo'[k] = todo[k - Len(ns) + 1]
  BY <1>1, <1>5, Spread
<1>7. DOMAIN todo' = 1..Len(todo')
  BY <1>6
<1>8. \A k \in 1..Len(ns) : ns[k] \in Kids(source[Current])
  BY <1>5
<1>9. ASSUME NEW k \in DOMAIN todo'
      PROVE  \/ k \in 1..Len(ns) /\ todo'[k] = ns[k] /\ ns[k] \in Kids(source[Current])
             \/ /\ k \in Len(ns)+1..Len(todo') /\ k - Len(ns) + 1 \in DOMAIN todo
                /\ k - Len(ns) + 1 > 1 /\ todo'[k] = todo[k - Len(ns) + 1]
  <2>1. CASE k \in 1..Len(ns)
    BY <1>6, <1>8, <2>1
  <2>2. CASE k \in Len(ns)+1..Len(todo')
    BY <1>2, <1>6, <2>2
  <2>3. k \in 1..Len(ns) \/ k \in Len(ns)+1..Len(todo')
    BY <1>2, <1>6, <1>7
  <2> QED
    BY <2>1, <2>2, <2>3
<1>10. ASSUME NEW k \in DOMAIN todo, k # 1
       PROVE  k - 1 + Len(ns) \in DOMAIN todo' /\ todo'[k - 1 + Len(ns)] = todo[k]
  <2> DEFINE j == k - 1 + Len(ns)
  <2>1. j \in Len(ns)+1..Len(todo') /\ j - Len(ns) + 1 = k
    BY <1>2, <1>6, <1>10
  <2>2. todo'[j] = todo[k]
    BY <1>6, <2>1
  <2>3. j \in 1..Len(todo')
    BY <1>6, <2>1
  <2> QED
    BY <1>7, <2>2, <2>3
<1>11. \A k \in 1..Len(ns) : k \in DOMAIN todo' /\ todo'[k] = ns[k]
  BY <1>2, <1>6, <1>7
<1> QED
  BY <1>3, <1>6, <1>7, <1>9, <1>10, <1>11

LEMMA MovesKeepsPlaces ==
  ASSUME Tree, Places, NEW ns, Moves(ns)
  PROVE  /\ Places' /\ ~Entering'
         /\ Pending' \subseteq Pending /\ Current \in Pending /\ Current \notin Pending'
         /\ Kids(source[Current]) \subseteq {ns[k] : k \in 1..Len(ns)}
              => Pending \subseteq {Current} \cup Pending'
<1> DEFINE h == Current
<1>1. /\ source' = source /\ body' = body /\ item' = item /\ status' = status
      /\ status = "running" /\ todo # <<>>
      /\ \A j, k \in 1..Len(ns) : j # k => ns[j] # ns[k]
  BY DEF Moves, input
<1>2. /\ todo' \in Seq(DOMAIN source)
      /\ h \in DOMAIN source /\ 1 \in DOMAIN todo /\ h = todo[1]
      /\ DOMAIN todo' = 1..Len(todo')
      /\ \A k \in DOMAIN todo' :
              \/ k \in 1..Len(ns) /\ todo'[k] = ns[k] /\ ns[k] \in Kids(source[h])
              \/ /\ k \in Len(ns)+1..Len(todo') /\ k - Len(ns) + 1 \in DOMAIN todo
                 /\ k - Len(ns) + 1 > 1 /\ todo'[k] = todo[k - Len(ns) + 1]
      /\ \A k \in 1..Len(ns) : k \in DOMAIN todo' /\ todo'[k] = ns[k]
      /\ \A k \in DOMAIN todo : k # 1 => /\ k - 1 + Len(ns) \in DOMAIN todo'
                                           /\ todo'[k - 1 + Len(ns)] = todo[k]
  BY NextNodes DEF Current
<1>3. Pending' = UNION {Under(source, todo'[k]) : k \in DOMAIN todo'}
  BY <1>1 DEF Pending
<1>4. Under(source, h) \subseteq Pending
  BY <1>2 DEF Pending
<1>5. /\ h \in Under(source, h)
      /\ \A c \in Kids(source[h]) : h \notin Under(source, c) /\ Under(source, c) \subseteq Under(source, h)
  BY <1>2, UnderClosed, KidNotAbove DEF Tree
<1>6. \A j, k \in DOMAIN todo : j # k => Under(source, todo[j]) \cap Under(source, todo[k]) = {}
  BY DEF Places
<1> HIDE DEF h
<1>7. ASSUME NEW k \in DOMAIN todo'
      PROVE  Under(source, todo'[k]) \subseteq Pending /\ h \notin Under(source, todo'[k])
  <2>1. CASE k \in 1..Len(ns) /\ todo'[k] = ns[k] /\ ns[k] \in Kids(source[h])
    BY <1>4, <1>5, <2>1
  <2>2. CASE \E j \in DOMAIN todo : j > 1 /\ todo'[k] = todo[j]
    <3>1. PICK j \in DOMAIN todo : j > 1 /\ todo'[k] = todo[j]
      BY <2>2
    <3>2. Under(source, todo[j]) \subseteq Pending
      BY DEF Pending
    <3>3. j # 1
      BY <3>1
    <3>4. h \notin Under(source, todo[j])
      BY <1>2, <1>5, <1>6, <3>3
    <3> QED
      BY <3>1, <3>2, <3>4
  <2> QED
    BY <1>2, <2>1, <2>2
<1>8. Pending' \subseteq Pending /\ h \in Pending /\ h \notin Pending'
  BY <1>3, <1>4, <1>5, <1>7
<1>9. ASSUME Kids(source[h]) \subseteq {ns[k] : k \in 1..Len(ns)}
      PROVE  Pending \subseteq {h} \cup Pending'
  <2> SUFFICES ASSUME NEW k \in DOMAIN todo PROVE Under(source, todo[k]) \subseteq {h} \cup Pending'
    BY DEF Pending
  <2>1. CASE k = 1
    <3>1. Under(source, h) = {h} \cup UNION {Under(source, c) : c \in Kids(source[h])}
      BY <1>2, UnderRule DEF Tree
    <3>2. ASSUME NEW c \in Kids(source[h]) PROVE Under(source, c) \subseteq Pending'
      <4>1. PICK j \in 1..Len(ns) : c = ns[j]
        BY <1>9
      <4>2. j \in DOMAIN todo' /\ todo'[j] = c
        BY <1>2, <4>1
      <4> QED
        BY <1>3, <4>2
    <3> QED
      BY <1>2, <2>1, <3>1, <3>2
  <2>2. CASE k # 1
    BY <1>2, <1>3, <2>2
  <2> QED
    BY <2>1, <2>2
<1>10. ASSUME NEW i \in DOMAIN todo', NEW k \in DOMAIN todo', i # k
       PROVE  Under(source, todo'[i]) \cap Under(source, todo'[k]) = {}
  <2> DEFINE Kid(m)  == m \in 1..Len(ns) /\ todo'[m] = ns[m] /\ ns[m] \in Kids(source[h])
             Rest(m) == /\ m \in Len(ns)+1..Len(todo') /\ m - Len(ns) + 1 \in DOMAIN todo
                        /\ m - Len(ns) + 1 > 1 /\ todo'[m] = todo[m - Len(ns) + 1]
  <2>1. (Kid(i) \/ Rest(i)) /\ (Kid(k) \/ Rest(k))
    BY <1>2
  <2>2. ASSUME NEW m, NEW l, Kid(m), Rest(l)
        PROVE  Under(source, todo'[m]) \cap Under(source, todo'[l]) = {}
    <3>1. Under(source, todo'[m]) \subseteq Under(source, todo[1])
      BY <1>2, <1>5, <2>2
    <3>2. l - Len(ns) + 1 # 1
      BY <2>2
    <3>3. Under(source, todo[1]) \cap Under(source, todo[l - Len(ns) + 1]) = {}
      BY <1>2, <1>6, <2>2, <3>2
    <3> QED
      BY <2>2, <3>1, <3>3
  <2>3. CASE Kid(i) /\ Kid(k)
    <3>1. ns[i] # ns[k]
      BY <1>1, <1>10, <2>3
    <3> QED
      BY <1>2, <2>3, <3>1, KidsApart DEF Tree
  <2>4. CASE Rest(i) /\ Rest(k)
    <3>1. i - Len(ns) + 1 # k - Len(ns) + 1
      <4>1. i \in Int /\ k \in Int
        BY <1>2
      <4>2. Len(ns) \in Int
        BY DEF Moves
      <4> QED
        BY <1>10, <4>1, <4>2
    <3> QED
      BY <1>6, <2>4, <3>1
  <2> HIDE DEF Kid, Rest
  <2> QED
    BY <2>1, <2>2, <2>3, <2>4
<1>11. ASSUME NEW k \in DOMAIN todo' PROVE IsChild(todo'[k])
  <2>1. CASE k \in 1..Len(ns) /\ todo'[k] = ns[k] /\ ns[k] \in Kids(source[h])
    BY <1>2, <2>1 DEF IsChild
  <2>2. CASE \E j \in DOMAIN todo : j > 1 /\ todo'[k] = todo[j]
    <3>1. PICK j \in DOMAIN todo : j > 1 /\ todo'[k] = todo[j]
      BY <2>2
    <3>2. ~Entering
      BY <3>1 DEF Entering, Places
    <3> QED
      BY <1>1, <3>1, <3>2 DEF Places
  <2> QED
    BY <1>2, <2>1, <2>2
<1>12. (\A k \in DOMAIN todo : IsChild(todo[k]))'
  BY <1>1, <1>11 DEF IsChild
<1>13. item - 1 \in DOMAIN body /\ Pending \subseteq Under(source, body[item - 1])
       /\ Resolves(source[body[item - 1]].type)
  BY <1>1 DEF Places
<1>14. ~Entering'
  <2> SUFFICES ASSUME Len(todo') = 1, todo'[1] = body[item - 1] PROVE FALSE
    BY <1>1 DEF Entering
  <2>1. IsChild(body[item - 1])
    BY <1>2, <1>11
  <2> QED
    BY <1>13, <2>1 DEF IsChild, Tree, IsTree
<1>15. Places'
  <2>1. item' \in 1..Len(body')+1 /\ todo' \in Seq(DOMAIN source')
    BY <1>1, <1>2 DEF Places
  <2>2. \A j, k \in DOMAIN todo' : j # k => Under(source', todo'[j]) \cap Under(source', todo'[k]) = {}
    BY <1>1, <1>10
  <2>3. /\ item' - 1 \in DOMAIN body'
        /\ Pending' \subseteq Under(source', body'[item' - 1])
        /\ Resolves(source[body[item - 1]].type)'
    BY <1>1, <1>8, <1>13 DEF Resolves
  <2> QED
    BY <1>1, <1>12, <2>1, <2>2, <2>3 DEF Places
<1> QED
  BY <1>8, <1>9, <1>14, <1>15 DEF h

LEMMA SameRules ==
  ASSUME UNCHANGED input
  PROVE  /\ \A k, x : DeclaredBy(k, x)' <=> DeclaredBy(k, x)
         /\ \A k, n : Legal(k, n)' <=> Legal(k, n)
         /\ Looked' = Looked /\ Names' = Names
<1>1. source' = source /\ body' = body
  BY DEF input
<1>2. \A k, x : DeclaredBy(k, x)' <=> DeclaredBy(k, x)
  BY <1>1 DEF DeclaredBy, Declares
<1>3. \A k, n : Legal(k, n)' <=> Legal(k, n)
  BY <1>1 DEF Legal, DeclaredBy, Declares
<1>4. Looked' = Looked /\ Names' = Names
  BY <1>1 DEF Looked, Resolves, Names
<1> QED
  BY <1>2, <1>3, <1>4

\* A step that is right about the node it leaves keeps the invariant.
LEMMA VisitKeeps ==
  ASSUME Tree, IInv, NEW ns, NEW r, Moves(ns), Judges(ns, r), Writes(r)
  PROVE  IInv'
<1> DEFINE h == Current
           k0 == item - 1
<1>1. /\ source' = source /\ body' = body /\ item' = item /\ status' = status
      /\ UNCHANGED input /\ todo # <<>>
  BY DEF Moves, input
<1>2. /\ Places' /\ ~Entering'
      /\ Pending' \subseteq Pending /\ h \in Pending /\ h \notin Pending'
      /\ r => Pending \subseteq {h} \cup Pending'
  BY MovesKeepsPlaces DEF IInv, Judges
<1>3. /\ k0 \in DOMAIN body /\ h \in Under(source, body[k0]) /\ k0 \in Looked
      /\ k0 \in 1..item-1 /\ item \in 1..Len(body)+1
  BY <1>1, <1>2 DEF IInv, Places, Looked, Tree, IsTree
<1>4. /\ \A k, x : DeclaredBy(k, x)' <=> DeclaredBy(k, x)
      /\ \A k, n : Legal(k, n)' <=> Legal(k, n)
      /\ Looked' = Looked /\ Names' = Names
  BY <1>1, SameRules
<1>5. Entered' = k0
  BY <1>1, <1>2 DEF Entered
<1>6. /\ ok' = (ok /\ r) /\ r \in BOOLEAN /\ (r <=> Legal(k0, h))
  BY DEF Judges
<1> HIDE DEF h, k0
<1>7. ASSUME r, NEW k, NEW n, Visited(k, n)' PROVE Visited(k, n) \/ (k = k0 /\ n = h)
  <2>1. k \in 1..item-1 /\ k \in Looked /\ n \in Under(source, body[k]) /\ n \notin Pending'
    BY <1>1, <1>4, <1>7 DEF Visited
  <2>2. CASE n \in Pending
    <3>1. n = h
      BY <1>2, <1>7, <2>1, <2>2
    <3>2. k \in DOMAIN body
      BY <2>1 DEF Looked
    <3>3. k = k0
      BY <1>3, <2>1, <3>1, <3>2, ItemsApart DEF Tree
    <3> QED
      BY <3>1, <3>3
  <2>3. CASE n \notin Pending
    BY <2>1, <2>3 DEF Visited
  <2> QED
    BY <2>2, <2>3
<1>8. SameTree'
  BY DEF Writes
<1>9. Unread'
  <2> SUFFICES ASSUME NEW n \in DOMAIN source,
                      n \in Pending' \/ \E k \in item..Len(body) : n \in Under(source, body[k])
               PROVE  ast'[n].name = source[n].name
    BY <1>1 DEF Unread
  <2>1. CASE n \in Pending'
    <3>1. n # h /\ n \in Pending
      BY <1>2, <2>1
    <3> QED
      BY <3>1 DEF Writes, IInv, Unread, h
  <2>2. CASE \E k \in item..Len(body) : n \in Under(source, body[k])
    <3>1. PICK k \in item..Len(body) : n \in Under(source, body[k])
      BY <2>2
    <3>2. k \in DOMAIN body /\ k # k0
      BY <1>3 DEF Tree, IsTree, k0
    <3>3. n # h
      BY <1>3, <3>1, <3>2, ItemsApart DEF Tree
    <3> QED
      BY <2>2, <3>3 DEF Writes, IInv, Unread, h
  <2> QED
    BY <2>1, <2>2
<1>10. Declared'
  <2>1. \A x : x \in DOMAIN variableMap' <=> DeclaredBy(k0, x)
    BY DEF Writes, k0
  <2>2. \A x : DeclaredBy(Entered, x)' <=> DeclaredBy(k0, x)
    BY <1>1, <1>5 DEF DeclaredBy, Declares
  <2> QED
    BY <2>1, <2>2 DEF Declared
<1>11. Judged'
  <2>1. ok' \in BOOLEAN
    BY <1>6 DEF IInv, Judged
  <2>2. ASSUME ok', NEW k, NEW n, Visited(k, n)' PROVE Legal(k, n)'
    <3>1. ok /\ r
      BY <1>6, <2>2
    <3>2. Visited(k, n) \/ (k = k0 /\ n = h)
      BY <1>7, <2>2, <3>1
    <3>3. Visited(k, n) => Legal(k, n)
      BY <3>1 DEF IInv, Judged
    <3>4. Legal(k0, h)
      BY <1>6, <3>1
    <3>5. Legal(k, n)
      BY <3>2, <3>3, <3>4
    <3> QED
      BY <1>4, <3>5
  <2>3. ASSUME ~ok' PROVE \E k \in Looked : \E n \in Under(source, body[k]) : ~Legal(k, n)
    <3>1. CASE ~ok
      BY <3>1 DEF IInv, Judged
    <3>2. CASE ~r
      <4>1. ~Legal(k0, h)
        BY <1>6, <3>2
      <4> QED
        BY <1>3, <4>1
    <3> QED
      BY <1>6, <2>3, <3>1, <3>2
  <2>4. ~ok' => (\E k \in Looked : \E n \in Under(source, body[k]) : ~Legal(k, n))'
    BY <1>1, <1>4, <2>3
  <2> QED
    BY <2>1, <2>2, <2>4 DEF Judged
<1>12. Renamed'
  <2>1. /\ variableMap' = [x \in DOMAIN variableMap' |-> variableMap'[x]]
        /\ DOMAIN variableMap' \subseteq Names' /\ counter' \in Nat
        /\ \A x \in DOMAIN variableMap' : \E c \in 0..counter'-1 : variableMap'[x] = Append(x, c)
    BY <1>4 DEF Writes
  <2>2. ASSUME ok', NEW k, NEW n, Visited(k, n)', source[n].type \in {"DECLARATION", "VARIABLE"}
        PROVE  source[n].name \in DOMAIN variableMap' /\ ast'[n].name = variableMap'[source[n].name]
    <3>1. ok /\ r
      BY <1>6, <2>2
    <3>2. CASE n = h
      BY <2>2, <3>1, <3>2 DEF Writes, h
    <3>3. CASE n # h
      <4>1. Visited(k, n)
        BY <1>7, <2>2, <3>1, <3>3
      <4>2. source[n].name \in DOMAIN variableMap /\ ast[n].name = variableMap[source[n].name]
        BY <2>2, <3>1, <4>1 DEF IInv, Renamed
      <4>3. n \in DOMAIN source
        <5>1. k \in DOMAIN body /\ n \in Under(source, body[k])
          BY <4>1 DEF Visited, Looked
        <5> QED
          BY <5>1 DEF Under
      <4>4. ast'[n] = ast[n]
        BY <3>3, <4>3 DEF Writes, h
      <4>5. variableMap'[source[n].name] = variableMap[source[n].name]
            /\ source[n].name \in DOMAIN variableMap'
        BY <4>2 DEF Writes
      <4> QED
        BY <4>2, <4>4, <4>5
    <3> QED
      BY <3>2, <3>3
  <2>3. (ok => \A k, n :
           (Visited(k, n) /\ source[n].type \in {"DECLARATION", "VARIABLE"})
             => /\ source[n].name \in DOMAIN variableMap
                /\ ast[n].name = variableMap[source[n].name])'
    BY <1>1, <2>2
  <2> QED
    BY <2>1, <2>3 DEF Renamed
<1> QED
  BY <1>2, <1>8, <1>9, <1>10, <1>11, <1>12 DEF IInv

-----------------------------------------------------------------------------
(* The node that is visited *)

LEMMA MovesNone ==
  ASSUME NEW r, status = "running", todo # <<>>, Answer(<<>>, r)
  PROVE  Moves(<<>>) /\ ok' = (ok /\ r) /\ Len(<<>>) = 0
BY DEF Answer, Moves

LEMMA MovesOne ==
  ASSUME NEW r, NEW c \in Kids(source[Current]), status = "running", todo # <<>>, Answer(<<c>>, r)
  PROVE  Moves(<<c>>) /\ ok' = (ok /\ r) /\ c \in {<<c>>[k] : k \in 1..Len(<<c>>)}
BY DEF Answer, Moves

LEMMA MovesTwo ==
  ASSUME NEW r, NEW c \in Kids(source[Current]), NEW d \in Kids(source[Current]), c # d,
         status = "running", todo # <<>>, Answer(<<c, d>>, r)
  PROVE  Moves(<<c, d>>) /\ ok' = (ok /\ r) /\ {c, d} \subseteq {<<c, d>>[k] : k \in 1..Len(<<c, d>>)}
<1> DEFINE ns == <<c, d>>
<1>1. ns \in Seq(Kids(source[Current])) /\ Len(ns) = 2 /\ ns[1] = c /\ ns[2] = d
  OBVIOUS
<1>2. \A j, k \in 1..Len(ns) : j # k => ns[j] # ns[k]
  <2> HIDE DEF ns
  <2> QED
    BY <1>1
<1>3. {c, d} \subseteq {ns[k] : k \in 1..Len(ns)}
  <2> HIDE DEF ns
  <2> QED
    BY <1>1
<1>4. Moves(ns) /\ ok' = (ok /\ r)
  <2> HIDE DEF ns
  <2>1. Answer(ns, r)
    BY DEF ns
  <2> QED
    BY <1>1, <1>2, <2>1 DEF Answer, Moves
<1> QED
  BY <1>3, <1>4

LEMMA DeclaredNext ==
  ASSUME Tree, NEW k \in DOMAIN body, NEW x
  PROVE  DeclaredBy(k, x) <=> (DeclaredBy(k - 1, x) \/ (Declares(k) /\ source[body[k]].name = x))
<1>1. k \in Nat /\ k >= 1
  BY DEF Tree, IsTree
<1>2. \A j : j \in 1..k <=> (j \in 1..k-1 \/ j = k)
  BY <1>1
<1> QED
  BY <1>2 DEF DeclaredBy

\* The pass reads of a node what was parsed, and knows what is declared there.
LEMMA AtNode ==
  ASSUME Tree, IInv, todo # <<>>
  PROVE  /\ Head(todo) = Current /\ Current \in DOMAIN source /\ item - 1 \in DOMAIN body
         /\ IsNode(source[Current])
         /\ \A n \in DOMAIN source : /\ ast[n].type = source[n].type /\ ast[n].op = source[n].op
                                     /\ ast[n].left = source[n].left /\ ast[n].right = source[n].right
         /\ ast[Current].name = source[Current].name
         /\ IF source[Current].type = "DECLARATION"
              THEN /\ body[item - 1] = Current
                   /\ \A x : x \in DOMAIN variableMap <=> DeclaredBy(item - 2, x)
                   /\ \A x : DeclaredBy(item - 1, x)
                              <=> (DeclaredBy(item - 2, x) \/ source[Current].name = x)
              ELSE \A x : x \in DOMAIN variableMap <=> DeclaredBy(item - 1, x)
<1> DEFINE h == Current
<1>1. Head(todo) = h /\ h \in DOMAIN source /\ 1 \in DOMAIN todo
  <2>1. todo \in Seq(DOMAIN source)
    BY DEF IInv, Places
  <2>2. Len(todo) \in Nat \ {0} /\ DOMAIN todo = 1..Len(todo)
    BY <2>1, EmptySeq, LenProperties
  <2> QED
    BY <2>1, <2>2, ElementOfSeq, HeadTailProperties DEF Current
<1>2. item - 1 \in DOMAIN body /\ item \in Int
  BY DEF IInv, Places
<1>3. IsNode(source[h])
  BY <1>1 DEF Tree, IsTree
<1>4. \A n \in DOMAIN source : /\ ast[n].type = source[n].type /\ ast[n].op = source[n].op
                               /\ ast[n].left = source[n].left /\ ast[n].right = source[n].right
  BY DEF IInv, SameTree, Node
<1>5. ast[h].name = source[h].name
  <2>1. h \in Pending
    <3>1. h \in Under(source, todo[1])
      BY <1>1, UnderClosed DEF Current, Tree
    <3> QED
      BY <1>1, <3>1 DEF Pending
  <2> QED
    BY <1>1, <2>1 DEF IInv, Unread
<1>6. CASE Entering
  <2>1. h = body[item - 1]
    BY <1>6 DEF Entering, Current
  <2>2. \A x : x \in DOMAIN variableMap <=> DeclaredBy(item - 2, x)
    BY <1>6 DEF IInv, Declared, Entered
  <2>3. item - 1 - 1 = item - 2
    BY <1>2
  <2>4. \A x : DeclaredBy(item - 1, x)
               <=> (DeclaredBy(item - 2, x) \/ (Declares(item - 1) /\ source[h].name = x))
    BY <1>2, <2>1, <2>3, DeclaredNext
  <2>5. Declares(item - 1) <=> source[h].type = "DECLARATION"
    BY <2>1 DEF Declares
  <2> QED
    BY <1>1, <1>2, <1>3, <1>4, <1>5, <2>1, <2>2, <2>4, <2>5
<1>7. CASE ~Entering
  <2>1. IsChild(todo[1])
    BY <1>1, <1>7 DEF IInv, Places
  <2>2. source[h].type # "DECLARATION"
    BY <2>1 DEF IsChild, Tree, IsTree, Current
  <2>3. \A x : x \in DOMAIN variableMap <=> DeclaredBy(item - 1, x)
    BY <1>7 DEF IInv, Declared, Entered
  <2> QED
    BY <1>1, <1>2, <1>3, <1>4, <1>5, <2>2, <2>3
<1> QED
  BY <1>6, <1>7

LEMMA WritesNothing ==
  ASSUME IInv, UNCHANGED names, UNCHANGED input, NEW r,
         \A x : x \in DOMAIN variableMap <=> DeclaredBy(item - 1, x),
         ~(r /\ source[Current].type \in {"DECLARATION", "VARIABLE"})
  PROVE  Writes(r)
<1>1. SameTree'
  BY DEF IInv, SameTree, Node, names, input
<1> QED
  BY <1>1 DEF IInv, Renamed, Writes, names

-----------------------------------------------------------------------------
(* The steps *)

LEMMA StatementKeeps == ASSUME Tree, IInv, ResolveStatement PROVE IInv'
<1>1. status = "running" /\ todo # <<>> /\ UNCHANGED names /\ UNCHANGED input
  BY DEF ResolveStatement, Visits, Answer
<1>2. /\ Head(todo) = Current /\ Current \in DOMAIN source /\ IsNode(source[Current])
      /\ Here.op = source[Current].op /\ Here.left = source[Current].left
      /\ source[Current].type = "STATEMENT"
      /\ \A x : x \in DOMAIN variableMap <=> DeclaredBy(item - 1, x)
  BY <1>1, AtNode DEF ResolveStatement, Visits, Here
<1>3. Legal(item - 1, Current)
  BY <1>2 DEF Legal
<1>4. Writes(TRUE)
  BY <1>1, <1>2, WritesNothing
<1>5. CASE Here.op = "NULL_EXPRESSION"
  <2>1. Kids(source[Current]) = {}
    BY <1>2, <1>5 DEF IsNode, Kids
  <2>2. Moves(<<>>) /\ ok' = (ok /\ TRUE)
    BY <1>1, <1>5, MovesNone DEF ResolveStatement
  <2>3. Judges(<<>>, TRUE)
    BY <1>3, <2>1, <2>2 DEF Judges
  <2> QED
    BY <1>4, <2>2, <2>3, VisitKeeps
<1>6. CASE Here.op # "NULL_EXPRESSION"
  <2> DEFINE c == source[Current].left
  <2>1. Kids(source[Current]) = {c}
    BY <1>2, <1>6 DEF IsNode, Kids
  <2> HIDE DEF c
  <2>2. Answer(<<c>>, TRUE)
    BY <1>2, <1>6 DEF ResolveStatement, c
  <2>3. Moves(<<c>>) /\ ok' = (ok /\ TRUE) /\ c \in {<<c>>[k] : k \in 1..Len(<<c>>)}
    BY <1>1, <2>1, <2>2, MovesOne
  <2>4. Judges(<<c>>, TRUE)
    BY <1>3, <2>1, <2>3 DEF Judges
  <2> QED
    BY <1>4, <2>3, <2>4, VisitKeeps
<1> QED
  BY <1>5, <1>6

LEMMA DuplicateKeeps == ASSUME Tree, IInv, DuplicateDeclaration PROVE IInv'
<1>1. /\ status = "running" /\ todo # <<>> /\ UNCHANGED names /\ UNCHANGED input
      /\ Answer(<<>>, FALSE)
  BY DEF DuplicateDeclaration, Visits, Answer
<1>2. /\ item - 1 \in DOMAIN body /\ source[Current].type = "DECLARATION"
      /\ source[Current].name \in DOMAIN variableMap
      /\ \A x : x \in DOMAIN variableMap <=> DeclaredBy(item - 2, x)
      /\ \A x : DeclaredBy(item - 1, x) <=> (DeclaredBy(item - 2, x) \/ source[Current].name = x)
  BY <1>1, AtNode DEF DuplicateDeclaration, Visits, Here
<1>3. ~Legal(item - 1, Current)
  <2>1. item - 1 - 1 = item - 2
    BY DEF IInv, Places
  <2> QED
    BY <1>2, <2>1 DEF Legal
<1>4. \A x : x \in DOMAIN variableMap <=> DeclaredBy(item - 1, x)
  BY <1>2
<1>5. Writes(FALSE)
  BY <1>1, <1>4, WritesNothing
<1>6. Moves(<<>>) /\ ok' = (ok /\ FALSE)
  BY <1>1, MovesNone
<1>7. Judges(<<>>, FALSE)
  BY <1>3, <1>6 DEF Judges
<1> QED
  BY <1>5, <1>6, <1>7, VisitKeeps

\* A step that writes nothing and rejects the node.
LEMMA RejectsKeeps ==
  ASSUME Tree, IInv, status = "running", todo # <<>>, UNCHANGED names, Answer(<<>>, FALSE),
         source[Current].type # "DECLARATION", ~Legal(item - 1, Current)
  PROVE  IInv'
<1>1. \A x : x \in DOMAIN variableMap <=> DeclaredBy(item - 1, x)
  BY AtNode
<1>2. Writes(FALSE)
  BY <1>1, WritesNothing DEF Answer
<1>3. Moves(<<>>) /\ ok' = (ok /\ FALSE)
  BY MovesNone
<1>4. Judges(<<>>, FALSE)
  BY <1>3 DEF Judges
<1> QED
  BY <1>2, <1>3, <1>4, VisitKeeps

LEMMA InvalidLvalueKeeps == ASSUME Tree, IInv, InvalidLvalue PROVE IInv'
<1>1. /\ status = "running" /\ todo # <<>> /\ UNCHANGED names /\ Answer(<<>>, FALSE)
      /\ ast[Head(todo)].type = "ASSIGNMENT" /\ ast[Here.left].type # "VARIABLE"
  BY DEF InvalidLvalue, Visits
<1>2. /\ source[Current].type = "ASSIGNMENT" /\ Here.left = source[Current].left
      /\ Current \in DOMAIN source /\ IsNode(source[Current])
      /\ \A n \in DOMAIN source : ast[n].type = source[n].type
  BY <1>1, AtNode DEF Here
<1>3. source[Current].left \in DOMAIN source
  <2>1. source[Current].left \in Kids(source[Current])
    BY <1>2 DEF IsNode, Kids
  <2> QED
    BY <1>2, <2>1, KidsBefore DEF Tree
<1>4. ~Legal(item - 1, Current)
  BY <1>1, <1>2, <1>3 DEF Legal
<1> QED
  BY <1>1, <1>2, <1>4, RejectsKeeps

LEMMA UndeclaredKeeps == ASSUME Tree, IInv, UndeclaredVariable PROVE IInv'
<1>1. /\ status = "running" /\ todo # <<>> /\ UNCHANGED names /\ Answer(<<>>, FALSE)
      /\ ast[Head(todo)].type = "VARIABLE" /\ Here.name \notin DOMAIN variableMap
  BY DEF UndeclaredVariable, Visits
<1>2. /\ source[Current].type = "VARIABLE" /\ Here.name = source[Current].name
      /\ \A x : x \in DOMAIN variableMap <=> DeclaredBy(item - 1, x)
  BY <1>1, AtNode DEF Here
<1>3. ~Legal(item - 1, Current)
  BY <1>1, <1>2 DEF Legal
<1> QED
  BY <1>1, <1>2, <1>3, RejectsKeeps

\* A step that writes nothing and goes on to all the children of a node that
\* names nothing.
LEMMA DescendsKeeps ==
  ASSUME Tree, IInv, status = "running", todo # <<>>, UNCHANGED names,
         source[Current].type \notin {"DECLARATION", "VARIABLE"}, Legal(item - 1, Current),
         NEW ns, Moves(ns), ok' = (ok /\ TRUE),
         Kids(source[Current]) \subseteq {ns[k] : k \in 1..Len(ns)}
  PROVE  IInv'
<1>1. \A x : x \in DOMAIN variableMap <=> DeclaredBy(item - 1, x)
  BY AtNode
<1>2. Writes(TRUE)
  BY <1>1, WritesNothing DEF Moves
<1>3. Judges(ns, TRUE)
  BY DEF Judges
<1> QED
  BY <1>2, <1>3, VisitKeeps

LEMMA UnaryKeeps == ASSUME Tree, IInv, ResolveUnary PROVE IInv'
<1>1. /\ status = "running" /\ todo # <<>> /\ UNCHANGED names
      /\ ast[Head(todo)].type = "UNARY" /\ Answer(<<Here.left>>, TRUE)
  BY DEF ResolveUnary, Visits
<1>2. /\ source[Current].type = "UNARY" /\ Here.left = source[Current].left /\ IsNode(source[Current])
  BY <1>1, AtNode DEF Here
<1> DEFINE c == source[Current].left
<1>3. Kids(source[Current]) = {c}
  BY <1>2 DEF IsNode, Kids
<1> HIDE DEF c
<1>4. Moves(<<c>>) /\ ok' = (ok /\ TRUE) /\ c \in {<<c>>[k] : k \in 1..Len(<<c>>)}
  BY <1>1, <1>2, <1>3, MovesOne DEF c
<1>5. Legal(item - 1, Current)
  BY <1>2 DEF Legal
<1>6. Kids(source[Current]) \subseteq {<<c>>[k] : k \in 1..Len(<<c>>)}
  BY <1>3, <1>4
<1> QED
  BY <1>1, <1>2, <1>4, <1>5, <1>6, DescendsKeeps

LEMMA TwoKeeps ==
  ASSUME Tree, IInv, status = "running", todo # <<>>, UNCHANGED names,
         source[Current].type \in {"BINARY", "ASSIGNMENT"}, Legal(item - 1, Current),
         Answer(<<source[Current].left, source[Current].right>>, TRUE)
  PROVE  IInv'
<1> DEFINE c == source[Current].left
           d == source[Current].right
<1>1. Current \in DOMAIN source /\ IsNode(source[Current])
  BY AtNode
<1>2. Kids(source[Current]) = {c, d}
  BY <1>1 DEF IsNode, Kids
<1>3. c # d /\ c \in Kids(source[Current]) /\ d \in Kids(source[Current])
  BY <1>1, <1>2 DEF Tree, IsTree
<1> HIDE DEF c, d
<1>4. Answer(<<c, d>>, TRUE)
  BY DEF c, d
<1>5. Moves(<<c, d>>) /\ ok' = (ok /\ TRUE) /\ {c, d} \subseteq {<<c, d>>[k] : k \in 1..Len(<<c, d>>)}
  <2>1. PICK kids : kids = Kids(source[Current])
    OBVIOUS
  <2>2. c \in kids /\ d \in kids /\ c # d
    BY <1>3, <2>1
  <2> QED
    BY <1>4, <2>1, <2>2, MovesTwo
<1>6. Kids(source[Current]) \subseteq {<<c, d>>[k] : k \in 1..Len(<<c, d>>)}
  BY <1>2, <1>5
<1> QED
  BY <1>5, <1>6, DescendsKeeps

LEMMA BinaryKeeps == ASSUME Tree, IInv, ResolveBinary PROVE IInv'
<1>1. /\ status = "running" /\ todo # <<>> /\ UNCHANGED names
      /\ ast[Head(todo)].type = "BINARY" /\ Answer(<<Here.left, Here.right>>, TRUE)
  BY DEF ResolveBinary, Visits
<1>2. /\ source[Current].type = "BINARY" /\ Here.left = source[Current].left
      /\ Here.right = source[Current].right
  BY <1>1, AtNode DEF Here
<1>3. Legal(item - 1, Current)
  BY <1>2 DEF Legal
<1> QED
  BY <1>1, <1>2, <1>3, TwoKeeps

LEMMA AssignmentKeeps == ASSUME Tree, IInv, ResolveAssignment PROVE IInv'
<1>1. /\ status = "running" /\ todo # <<>> /\ UNCHANGED names
      /\ ast[Head(todo)].type = "ASSIGNMENT" /\ Answer(<<Here.left, Here.right>>, TRUE)
      /\ ast[Here.left].type = "VARIABLE"
  BY DEF ResolveAssignment, Visits
<1>2. /\ source[Current].type = "ASSIGNMENT" /\ Here.left = source[Current].left
      /\ Here.right = source[Current].right /\ Current \in DOMAIN source /\ IsNode(source[Current])
      /\ \A n \in DOMAIN source : ast[n].type = source[n].type
  BY <1>1, AtNode DEF Here
<1>3. source[Current].left \in DOMAIN source
  <2>1. source[Current].left \in Kids(source[Current])
    BY <1>2 DEF IsNode, Kids
  <2> QED
    BY <1>2, <2>1, KidsBefore DEF Tree
<1>4. Legal(item - 1, Current)
  BY <1>1, <1>2, <1>3 DEF Legal
<1> QED
  BY <1>1, <1>2, <1>4, TwoKeeps

LEMMA OtherKeeps == ASSUME Tree, IInv, ResolveOther PROVE IInv'
<1>1. /\ status = "running" /\ todo # <<>> /\ UNCHANGED names
      /\ ast[Head(todo)].type = "INT_LITERAL" /\ Answer(<<>>, TRUE)
  BY DEF ResolveOther, Visits
<1>2. source[Current].type = "INT_LITERAL" /\ IsNode(source[Current])
  BY <1>1, AtNode
<1>3. Kids(source[Current]) = {}
  BY <1>2 DEF IsNode, Kids
<1>4. Legal(item - 1, Current)
  BY <1>2 DEF Legal
<1>5. Moves(<<>>) /\ ok' = (ok /\ TRUE)
  BY <1>1, MovesNone
<1> DEFINE ns == <<>>
<1>6. Kids(source[Current]) \subseteq {ns[k] : k \in 1..Len(ns)}
  BY <1>3
<1> QED
  BY <1>1, <1>2, <1>4, <1>5, <1>6, DescendsKeeps

LEMMA Renames ==
  ASSUME SameTree, UNCHANGED input, NEW h \in DOMAIN source, NEW u, ast' = [ast EXCEPT ![h].name = u]
  PROVE  /\ SameTree' /\ ast'[h].name = u
         /\ \A n \in DOMAIN source : n # h => ast'[n] = ast[n]
<1>1. source' = source /\ DOMAIN ast = DOMAIN source
  BY DEF input, SameTree
<1>2. DOMAIN ast' = DOMAIN source /\ \A n \in DOMAIN source : n # h => ast'[n] = ast[n]
  BY <1>1
<1>3. ast'[h] = [ast[h] EXCEPT !.name = u]
  BY <1>1
<1>4. ast[h] = Node(source[h].type, source[h].op, ast[h].name, source[h].value,
                    source[h].left, source[h].right)
  BY DEF SameTree
<1>5. ast'[h] = Node(source[h].type, source[h].op, u, source[h].value,
                     source[h].left, source[h].right)
  BY <1>3, <1>4 DEF Node
<1>6. ast'[h].name = u
  BY <1>5 DEF Node
<1>7. SameTree'
  BY <1>1, <1>2, <1>5, <1>6 DEF SameTree
<1> QED
  BY <1>2, <1>6, <1>7

LEMMA DeclarationKeeps == ASSUME Tree, IInv, ResolveDeclaration PROVE IInv'
<1> DEFINE h == Current
           name == source[h].name
           unique == Append(name, counter)
<1>1. /\ status = "running" /\ todo # <<>> /\ UNCHANGED input
      /\ ast[Head(todo)].type = "DECLARATION" /\ Here.name \notin DOMAIN variableMap
      /\ Answer(IF Here.left = NULL THEN <<>> ELSE <<Here.left>>, TRUE)
      /\ counter' = counter + 1
  BY DEF ResolveDeclaration, Visits, Answer
<1>2. /\ h \in DOMAIN source /\ IsNode(source[h]) /\ source[h].type = "DECLARATION"
      /\ Here.name = name /\ Here.left = source[h].left /\ Head(todo) = h
      /\ \A x : x \in DOMAIN variableMap <=> DeclaredBy(item - 2, x)
      /\ \A x : DeclaredBy(item - 1, x) <=> (DeclaredBy(item - 2, x) \/ name = x)
      /\ item - 1 \in DOMAIN body
  BY <1>1, AtNode DEF Here
<1>3. /\ variableMap' = [x \in DOMAIN variableMap \cup {name} |->
                           IF x = name THEN unique ELSE variableMap[x]]
      /\ ast' = [ast EXCEPT ![h].name = unique]
  BY <1>2 DEF ResolveDeclaration, generate_unique_name
<1>4. name \notin DOMAIN variableMap
  BY <1>1, <1>2
<1> HIDE DEF name, unique
<1>5. /\ DOMAIN variableMap' = DOMAIN variableMap \cup {name}
      /\ variableMap'[name] = unique
      /\ \A x \in DOMAIN variableMap : variableMap'[x] = variableMap[x]
      /\ variableMap' = [x \in DOMAIN variableMap' |-> variableMap'[x]]
  BY <1>3, <1>4
<1>6. SameTree' /\ ast'[h].name = unique /\ \A n \in DOMAIN source : n # h => ast'[n] = ast[n]
  <2> HIDE DEF h
  <2> QED
    BY <1>1, <1>2, <1>3, Renames DEF IInv
<1>7. /\ DOMAIN variableMap' \subseteq Names /\ counter' \in Nat
      /\ \A x \in DOMAIN variableMap' : \E c \in 0..counter'-1 : variableMap'[x] = Append(x, c)
  <2>1. DOMAIN variableMap \subseteq Names /\ counter \in Nat
        /\ \A x \in DOMAIN variableMap : \E c \in 0..counter-1 : variableMap[x] = Append(x, c)
    BY DEF IInv, Renamed
  <2>2. name \in Names
    BY <1>2 DEF Names, name
  <2>3. counter' \in Nat /\ counter \in 0..counter'-1 /\ 0..counter-1 \subseteq 0..counter'-1
    BY <1>1, <2>1
  <2>4. variableMap'[name] = Append(name, counter)
    BY <1>5 DEF unique
  <2> QED
    BY <1>5, <2>1, <2>2, <2>3, <2>4
<1>8. \A x : x \in DOMAIN variableMap' <=> DeclaredBy(item - 1, x)
  BY <1>2, <1>5
<1>9. Writes(TRUE)
  BY <1>5, <1>6, <1>7, <1>8 DEF Writes, name
<1>10. Legal(item - 1, h)
  <2>1. item - 1 - 1 = item - 2
    BY DEF IInv, Places
  <2> QED
    BY <1>2, <1>4, <2>1 DEF Legal, name
<1> HIDE DEF h
<1>11. CASE Here.left = NULL
  <2>1. Kids(source[h]) = {}
    BY <1>2, <1>11 DEF IsNode, Kids
  <2>2. Moves(<<>>) /\ ok' = (ok /\ TRUE)
    BY <1>1, <1>11, MovesNone
  <2>3. Judges(<<>>, TRUE)
    BY <1>10, <2>1, <2>2 DEF Judges, h
  <2> QED
    BY <1>9, <2>2, <2>3, VisitKeeps
<1>12. CASE Here.left # NULL
  <2> DEFINE c == source[h].left
  <2>1. Kids(source[h]) = {c}
    BY <1>2, <1>12 DEF IsNode, Kids
  <2>2. Answer(<<c>>, TRUE)
    BY <1>1, <1>2, <1>12
  <2> HIDE DEF c
  <2>3. Moves(<<c>>) /\ ok' = (ok /\ TRUE) /\ c \in {<<c>>[k] : k \in 1..Len(<<c>>)}
    BY <1>1, <2>1, <2>2, MovesOne DEF h
  <2>4. Judges(<<c>>, TRUE)
    BY <1>10, <2>1, <2>3 DEF Judges, h
  <2> QED
    BY <1>9, <2>3, <2>4, VisitKeeps
<1> QED
  BY <1>11, <1>12

LEMMA VariableKeeps == ASSUME Tree, IInv, ResolveVariable PROVE IInv'
<1> DEFINE h == Current
           name == source[h].name
<1>1. /\ status = "running" /\ todo # <<>> /\ UNCHANGED input
      /\ ast[Head(todo)].type = "VARIABLE" /\ Here.name \in DOMAIN variableMap
      /\ Answer(<<>>, TRUE) /\ UNCHANGED <<variableMap, counter>>
  BY DEF ResolveVariable, Visits, Answer
<1>2. /\ h \in DOMAIN source /\ IsNode(source[h]) /\ source[h].type = "VARIABLE"
      /\ Here.name = name /\ Head(todo) = h /\ ast[h].name = name
      /\ \A x : x \in DOMAIN variableMap <=> DeclaredBy(item - 1, x)
  BY <1>1, AtNode DEF Here
<1>3. ast' = [ast EXCEPT ![h].name = variableMap[name]]
  <2>1. ast' = [ast EXCEPT ![h].name = variableMap[@]]
    BY <1>2 DEF ResolveVariable
  <2> QED
    BY <1>2, <2>1
<1> HIDE DEF name
<1>4. /\ SameTree' /\ ast'[h].name = variableMap[name]
      /\ \A n \in DOMAIN source : n # h => ast'[n] = ast[n]
  <2> HIDE DEF h
  <2> QED
    BY <1>1, <1>2, <1>3, Renames DEF IInv
<1>5. Writes(TRUE)
  BY <1>1, <1>2, <1>4 DEF Writes, IInv, Renamed, name
<1>6. Legal(item - 1, h)
  BY <1>1, <1>2 DEF Legal, name
<1>7. Kids(source[h]) = {}
  BY <1>2 DEF IsNode, Kids
<1>8. Moves(<<>>) /\ ok' = (ok /\ TRUE)
  BY <1>1, MovesNone
<1>9. Judges(<<>>, TRUE)
  BY <1>6, <1>7, <1>8 DEF Judges
<1> QED
  BY <1>5, <1>8, <1>9, VisitKeeps

LEMMA TakeItemKeeps == ASSUME Tree, IInv, TakeItem PROVE IInv'
<1> DEFINE looks == Resolves(source[body[item]].type)
<1>1. /\ source' = source /\ body' = body /\ UNCHANGED input
      /\ ast' = ast /\ variableMap' = variableMap /\ counter' = counter
      /\ ok' = ok /\ status' = status /\ status = "running" /\ todo = <<>>
      /\ item \in 1..Len(body) /\ item' = item + 1 /\ Len(body) \in Nat
  BY DEF TakeItem, input, names, IInv, Places, Tree, IsTree
<1>2. item \in DOMAIN body /\ body[item] \in DOMAIN source
  BY <1>1 DEF Tree, IsTree
<1>3. ast[body[item]].type = source[body[item]].type
  BY <1>2 DEF IInv, SameTree, Node
<1>4. todo' = IF looks THEN <<body[item]>> ELSE <<>>
  BY <1>3 DEF TakeItem
<1>5. Pending = {}
  BY <1>1 DEF Pending
<1>6. Entered = item - 1
  BY <1>1 DEF Entered, Entering
<1>7. /\ \A k, x : DeclaredBy(k, x)' <=> DeclaredBy(k, x)
      /\ \A k, n : Legal(k, n)' <=> Legal(k, n)
      /\ Looked' = Looked /\ Names' = Names
  BY <1>1, SameRules
<1> HIDE DEF looks
<1>8. /\ todo' \in Seq(DOMAIN source)
      /\ \A j, k \in DOMAIN todo' : j = k
      /\ looks => /\ Len(todo') = 1 /\ todo'[1] = body[item] /\ DOMAIN todo' = {1}
      /\ ~looks => todo' = <<>> /\ Len(todo') = 0 /\ DOMAIN todo' = {}
  <2>1. CASE looks
    BY <1>2, <1>4, <2>1
  <2>2. CASE ~looks
    BY <1>2, <1>4, <2>2
  <2> QED
    BY <2>1, <2>2
<1>9. Pending' = IF looks THEN Under(source, body[item]) ELSE {}
  BY <1>1, <1>8 DEF Pending
<1>10. Entering' <=> looks
  BY <1>1, <1>8 DEF Entering
<1>11. Places'
  <2>1. item' \in 1..Len(body)+1 /\ item' - 1 = item
    BY <1>1
  <2>2. looks => Resolves(source[body[item]].type)
    BY DEF looks
  <2> QED
    BY <1>1, <1>2, <1>8, <1>9, <1>10, <2>1, <2>2 DEF Places, Resolves
<1>12. SameTree'
  BY <1>1 DEF IInv, SameTree
<1>13. Unread'
  <2> SUFFICES ASSUME NEW n \in DOMAIN source,
                      n \in Pending' \/ \E k \in item'..Len(body) : n \in Under(source, body[k])
               PROVE  ast[n].name = source[n].name
    BY <1>1 DEF Unread
  <2>1. \E k \in item..Len(body) : n \in Under(source, body[k])
    BY <1>1, <1>9
  <2> QED
    BY <2>1 DEF IInv, Unread
<1>14. Declared'
  <2>1. \A x : x \in DOMAIN variableMap <=> DeclaredBy(item - 1, x)
    BY <1>6 DEF IInv, Declared
  <2>2. CASE looks
    <3>1. Entered' = item - 1
      BY <1>1, <1>10, <2>2 DEF Entered
    <3>2. \A x : DeclaredBy(Entered, x)' <=> DeclaredBy(item - 1, x)
      BY <1>1, <3>1 DEF DeclaredBy, Declares
    <3> QED
      BY <1>1, <2>1, <3>2 DEF Declared
  <2>3. CASE ~looks
    <3>1. Entered' = item
      BY <1>1, <1>10, <2>3 DEF Entered
    <3>2. \A x : DeclaredBy(Entered, x)' <=> DeclaredBy(item, x)
      BY <1>1, <3>1 DEF DeclaredBy, Declares
    <3>3. ~Declares(item)
      BY <2>3 DEF Declares, looks, Resolves
    <3>4. \A x : DeclaredBy(item, x) <=> DeclaredBy(item - 1, x)
      BY <1>2, <3>3, DeclaredNext
    <3> QED
      BY <1>1, <2>1, <3>2, <3>4 DEF Declared
  <2> QED
    BY <2>2, <2>3
<1>15. \A k, n : Visited(k, n)' => Visited(k, n)
  <2> SUFFICES ASSUME NEW k, NEW n, Visited(k, n)' PROVE Visited(k, n)
    OBVIOUS
  <2>1. k \in 1..item /\ k \in Looked /\ n \in Under(source, body[k]) /\ n \notin Pending'
    BY <1>1, <1>7 DEF Visited
  <2>2. k # item
    <3> SUFFICES ASSUME k = item PROVE FALSE
      OBVIOUS
    <3>1. looks
      BY <2>1 DEF Looked, looks
    <3> QED
      BY <1>9, <2>1, <3>1
  <2> QED
    BY <1>1, <1>5, <2>1, <2>2 DEF Visited
<1>16. Judged'
  BY <1>1, <1>7, <1>15 DEF IInv, Judged
<1>17. Renamed'
  BY <1>1, <1>7, <1>15 DEF IInv, Renamed
<1> QED
  BY <1>11, <1>12, <1>13, <1>14, <1>16, <1>17 DEF IInv

LEMMA RestStays ==
  ASSUME Tree, IInv, UNCHANGED <<input, names, item, todo, ok>>
  PROVE  (SameTree /\ Unread /\ Declared /\ Judged /\ Renamed)'
<1>1. /\ source' = source /\ body' = body /\ UNCHANGED input /\ ast' = ast
      /\ variableMap' = variableMap /\ counter' = counter /\ item' = item /\ todo' = todo /\ ok' = ok
  BY DEF input, names
<1>2. /\ \A k, x : DeclaredBy(k, x)' <=> DeclaredBy(k, x)
      /\ \A k, n : Legal(k, n)' <=> Legal(k, n)
      /\ Looked' = Looked /\ Names' = Names
  BY <1>1, SameRules
<1>3. Pending' = Pending /\ Entered' = Entered
  BY <1>1 DEF Pending, Entered, Entering
<1>4. \A k, n : Visited(k, n)' <=> Visited(k, n)
  BY <1>1, <1>2, <1>3 DEF Visited
<1>5. SameTree' /\ Unread'
  BY <1>1, <1>3 DEF IInv, SameTree, Unread
<1>6. Declared'
  <2>1. \A x : DeclaredBy(Entered, x)' <=> DeclaredBy(Entered, x)
    BY <1>1, <1>3 DEF DeclaredBy, Declares
  <2> QED
    BY <1>1, <2>1 DEF IInv, Declared
<1>7. Judged'
  BY <1>1, <1>2, <1>4 DEF IInv, Judged
<1>8. Renamed'
  BY <1>1, <1>2, <1>4 DEF IInv, Renamed
<1> QED
  BY <1>5, <1>6, <1>7, <1>8

LEMMA FinishKeeps == ASSUME Tree, IInv, Finish PROVE IInv'
<1>1. /\ source' = source /\ body' = body /\ item' = item /\ todo' = todo
      /\ UNCHANGED <<input, names, item, todo, ok>>
      /\ todo = <<>> /\ item > Len(body) /\ status' = "done"
  BY DEF Finish, input
<1>2. item = Len(body) + 1
  BY <1>1 DEF IInv, Places, Tree, IsTree
<1>3. Places'
  BY <1>1, <1>2 DEF IInv, Places
<1> QED
  BY <1>1, <1>3, RestStays DEF IInv

LEMMA StutterKeeps == ASSUME Tree, IInv, UNCHANGED vars PROVE IInv'
<1>1. /\ source' = source /\ body' = body /\ item' = item /\ todo' = todo /\ status' = status
      /\ UNCHANGED <<input, names, item, todo, ok>>
  BY DEF vars, input
<1>2. Places'
  BY <1>1 DEF IInv, Places, Pending, Entering, IsChild
<1> QED
  BY <1>1, <1>2, RestStays DEF IInv

\* The pass begins with the invariant, on a tree.
LEMMA FreshKept == ASSUME Tree, ast = source, Fresh PROVE IInv
<1>1. /\ ast = source /\ variableMap = <<>> /\ counter = 0 /\ item = 1 /\ todo = <<>>
      /\ ok = TRUE /\ status = "running"
  BY DEF Fresh
<1>2. Tree
  OBVIOUS
<1>3. Pending = {} /\ ~Entering /\ Entered = 0 /\ \A k, n : ~Visited(k, n)
  BY <1>1 DEF Pending, Entering, Entered, Visited
<1>4. Places
  BY <1>1, <1>2 DEF Places, Tree, IsTree
<1>5. SameTree
  <2>1. DOMAIN source = 1..Len(source)
    BY <1>2 DEF Tree, IsTree
  <2> QED
    BY <1>1, <1>2, <2>1 DEF SameTree, Tree, IsTree, IsNode
<1>6. Unread /\ Declared
  <2>1. DOMAIN variableMap = {}
    BY <1>1
  <2>2. \A x : ~DeclaredBy(0, x)
    BY DEF DeclaredBy
  <2> QED
    BY <1>1, <1>3, <2>1, <2>2 DEF Unread, Declared
<1>7. Judged
  BY <1>1, <1>3 DEF Judged
<1>8. Renamed
  BY <1>1, <1>3 DEF Renamed
<1> QED
  BY <1>4, <1>5, <1>6, <1>7, <1>8 DEF IInv

LEMMA InitKept == Init => Tree /\ IInv
<1> SUFFICES ASSUME Init PROVE Tree /\ IInv
  OBVIOUS
<1>1. Tree
  BY SemanticAssumption DEF Init, Tree
<1> QED
  BY <1>1, FreshKept DEF Init

LEMMA NextKept == Tree /\ IInv /\ [Next]_vars => (Tree /\ IInv)'
<1> SUFFICES ASSUME Tree, IInv, [Next]_vars PROVE (Tree /\ IInv)'
  OBVIOUS
<1>1. Tree'
  BY DEF Tree, Next, vars, input, TakeItem, Finish, ResolveStatement, DuplicateDeclaration,
         ResolveDeclaration, InvalidLvalue, ResolveAssignment, ResolveVariable,
         UndeclaredVariable, ResolveUnary, ResolveBinary, ResolveOther, Answer
<1>2. IInv'
  BY TakeItemKeeps, FinishKeeps, StatementKeeps, DuplicateKeeps, DeclarationKeeps,
     InvalidLvalueKeeps, AssignmentKeeps, VariableKeeps, UndeclaredKeeps, UnaryKeeps,
     BinaryKeeps, OtherKeeps, StutterKeeps DEF Next
<1> QED
  BY <1>1, <1>2

LEMMA Kept == Spec => [](Tree /\ IInv)
BY InitKept, NextKept, PTL DEF Spec

-----------------------------------------------------------------------------
(* The theorems *)

\* The types are those of the invariant.
LEMMA TypesFromInvariant == Tree /\ IInv => TypeOK
<1> SUFFICES ASSUME Tree, IInv PROVE TypeOK
  OBVIOUS
<1>1. variableMap \in Suffixed
  <2> DEFINE S == {Append(x, c) : x \in DOMAIN variableMap, c \in 0..counter-1}
  <2>1. \A x \in DOMAIN variableMap : variableMap[x] \in S
    BY DEF IInv, Renamed
  <2>2. variableMap = [x \in DOMAIN variableMap |-> variableMap[x]]
    BY DEF IInv, Renamed
  <2> HIDE DEF S
  <2>3. variableMap \in [DOMAIN variableMap -> S]
    BY <2>1, <2>2
  <2> QED
    BY <2>3 DEF Suffixed, S
<1>2. \A k \in DOMAIN todo : todo[k] \in DOMAIN ast
  BY DEF IInv, Places, SameTree
<1>3. status \in {"running", "done"}
  BY DEF IInv, Places
<1> QED
  BY <1>1, <1>2, <1>3 DEF TypeOK, IInv, Places, SameTree, Judged, Renamed, Names

\* The state has the types of TypeOK: the map takes a name of the tree to the
\* name with one number below the counter behind it.
THEOREM TypeCorrect == Spec => []TypeOK
BY TypesFromInvariant, Kept, PTL

\* An item is legal when each node under it is.
LEMMA LegalNodes ==
  ASSUME Tree, NEW k \in DOMAIN body
  PROVE  ItemLegal(k) <=> \A n \in Under(source, body[k]) : Legal(k, n)
<1>1. body[k] \in DOMAIN source
  BY DEF Tree, IsTree
<1>2. Subtree(body[k]) = Under(source, body[k]) /\ body[k] \in Under(source, body[k])
  BY <1>1, SubtreeIsUnder, UnderClosed DEF Tree
<1>3. \A n \in Under(source, body[k]) : source[n].type = "DECLARATION" => n = body[k]
  BY OnlyItemsDeclare DEF Tree
<1> QED
  BY <1>2, <1>3 DEF ItemLegal, Legal, Declares

\* The verdict is that of the invariant.
LEMMA VerdictFromInvariant == Tree /\ IInv => VerdictSound
<1> SUFFICES ASSUME Tree, IInv, status = "done" PROVE ok <=> \A k \in Looked : ItemLegal(k)
  BY DEF VerdictSound
<1>1. todo = <<>> /\ item - 1 = Len(body) /\ DOMAIN body = 1..Len(body)
  BY DEF IInv, Places, Tree, IsTree
<1>2. Pending = {}
  BY <1>1 DEF Pending
<1>3. \A k \in Looked : k \in DOMAIN body /\ k \in 1..item-1
  BY <1>1 DEF Looked
<1>4. \A k \in Looked : \A n \in Under(source, body[k]) : Visited(k, n)
  BY <1>2, <1>3 DEF Visited
<1>5. ok <=> \A k \in Looked : \A n \in Under(source, body[k]) : Legal(k, n)
  BY <1>4 DEF IInv, Judged
<1>6. \A k \in Looked : ItemLegal(k) <=> \A n \in Under(source, body[k]) : Legal(k, n)
  BY <1>3, LegalNodes
<1> QED
  BY <1>5, <1>6

\* When the pass has ended it has said "ok" exactly if each item it looks at is
\* legal by the scoping rules, for every program that the parser accepts.
THEOREM VerdictIsSound == Spec => []VerdictSound
BY VerdictFromInvariant, Kept, PTL

\* A number behind a name leaves the name readable.
LEMMA SuffixKeepsName ==
  ASSUME NEW x, NEW y, IsSequence(x), IsSequence(y), NEW c, NEW d, Append(x, c) = Append(y, d)
  PROVE  x = y
<1> DEFINE S == {x[k] : k \in 1..Len(x)} \cup {y[k] : k \in 1..Len(y)} \cup {c, d}
           u == Append(x, c)
           v == Append(y, d)
<1>1. x \in Seq(S) /\ y \in Seq(S) /\ c \in S /\ d \in S
  BY DEF IsSequence
<1> HIDE DEF S
<1>2. /\ Len(u) = Len(x) + 1 /\ \A k \in 1..Len(x) : u[k] = x[k]
      /\ Len(v) = Len(y) + 1 /\ \A k \in 1..Len(y) : v[k] = y[k]
      /\ Len(x) \in Nat /\ Len(y) \in Nat
  BY <1>1, AppendProperties, LenProperties
<1>3. u = v
  OBVIOUS
<1> HIDE DEF u, v
<1>4. Len(x) = Len(y) /\ \A k \in 1..Len(x) : x[k] = y[k]
  BY <1>2, <1>3
<1> QED
  BY <1>1, <1>4, SeqEqual

\* In an accepted program the occurrences of variables that have one name after
\* the pass are those that had one name before it, whatever the programmer's
\* identifiers look like.
THEOREM RenamingIsFaithful == Spec => []RenamingFaithful
<1>1. Tree /\ IInv => RenamingFaithful
  <2> SUFFICES ASSUME Tree, IInv, status = "done", ok, NEW m \in Named, NEW n \in Named
               PROVE  ast[m].name = ast[n].name <=> source[m].name = source[n].name
    BY DEF RenamingFaithful
  <2>1. todo = <<>> /\ item - 1 = Len(body) /\ DOMAIN body = 1..Len(body)
    BY DEF IInv, Places, Tree, IsTree
  <2>2. Pending = {}
    BY <2>1 DEF Pending
  <2>3. ASSUME NEW p \in Named
        PROVE  /\ source[p].name \in DOMAIN variableMap
               /\ ast[p].name = variableMap[source[p].name]
               /\ IsSequence(source[p].name)
               /\ \E c : ast[p].name = Append(source[p].name, c)
    <3>1. PICK k \in Looked : p \in Subtree(body[k])
      BY DEF Named
    <3>2. source[p].type \in {"DECLARATION", "VARIABLE"}
      BY DEF Named
    <3>3. k \in DOMAIN body /\ body[k] \in DOMAIN source
      BY <3>1 DEF Looked, Tree, IsTree
    <3>4. p \in Under(source, body[k]) /\ p \in DOMAIN source
      BY <3>1, <3>3, SubtreeIsUnder, UnderClosed DEF Tree
    <3>5. Visited(k, p)
      BY <2>1, <2>2, <3>1, <3>3, <3>4 DEF Visited
    <3>6. source[p].name \in DOMAIN variableMap /\ ast[p].name = variableMap[source[p].name]
      BY <3>2, <3>5 DEF IInv, Renamed
    <3>7. IsSequence(source[p].name)
      BY <3>4 DEF Tree, IsTree, IsNode
    <3>8. \E c : ast[p].name = Append(source[p].name, c)
      BY <3>6 DEF IInv, Renamed
    <3> QED
      BY <3>6, <3>7, <3>8
  <2>4. source[m].name = source[n].name => ast[m].name = ast[n].name
    BY <2>3
  <2>5. ASSUME ast[m].name = ast[n].name PROVE source[m].name = source[n].name
    <3>1. PICK c : ast[m].name = Append(source[m].name, c)
      BY <2>3
    <3>2. PICK d : ast[n].name = Append(source[n].name, d)
      BY <2>3
    <3>3. Append(source[m].name, c) = Append(source[n].name, d)
      BY <2>5, <3>1, <3>2
    <3>4. IsSequence(source[m].name) /\ IsSequence(source[n].name)
      BY <2>3
    <3> DEFINE x == source[m].name
               y == source[n].name
    <3> HIDE DEF x, y
    <3>5. x = y
      <4>1. IsSequence(x) /\ IsSequence(y) /\ Append(x, c) = Append(y, d)
        BY <3>3, <3>4 DEF x, y
      <4> QED
        BY <4>1, SuffixKeepsName
    <3> QED
      BY <3>5 DEF x, y
  <2> QED
    BY <2>4, <2>5
<1> QED
  BY <1>1, Kept, PTL
=============================================================================
