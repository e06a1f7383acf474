------------------------- MODULE ProductBundlesProofs -------------------------
(***************************************************************************)
(* Proofs about ProductBundles for any products and any number of requests.*)
(* A walk that nobody has overtaken knows everything that lies below the   *)
(* products it has visited (WalkInv); once it has nothing left to visit,   *)
(* these products are closed under containment and leave out the parent.   *)
(* It visits no product twice (TodoIsNew), so that every query leaves fewer.*)
(***************************************************************************)
EXTENDS ProductBundles, FiniteSetTheorems, TLAPS

\* A walk has not met its parent, reaches its child, and knows what lies below
\* the products that it has visited unless another request has overtaken it.
WalkInv ==
    \A w \in Workers : At(w, "walk") =>
        /\ req[w].parent \notin req[w].visited \cup req[w].todo
        /\ req[w].child \in req[w].visited \cup req[w].todo
        /\ ~req[w].behind =>
               \A x \in req[w].visited : Children(x) \subseteq req[w].visited \cup req[w].todo

IInv == TypeOK /\ WalkInv /\ NoBundleContainsItself

\* A set of products each of which contains one of them.
Turning(E, S) == \A x \in S : \E y \in S : <<x, y>> \in E

-----------------------------------------------------------------------------
\* The set is empty when no bundle contains itself: the form in which the
\* invariant is used.
LEMMA NothingTurns ==
    ASSUME TypeOK, NoBundleContainsItself, ~loose, NEW S \in SUBSET Products, Turning(component, S)
    PROVE  S = {}
<1>1. SUFFICES ASSUME S # {} PROVE FALSE
  OBVIOUS
<1>2. PICK p \in S : Children(p) \cap S = {}
  BY <1>1 DEF NoBundleContainsItself
<1>3. PICK y \in S : <<p, y>> \in component
  BY <1>2 DEF Turning
<1> QED
  BY <1>2, <1>3 DEF Children

\* The form in which it is shown.
LEMMA ShownByTurning ==
    ASSUME ~loose' => \A S \in SUBSET Products : Turning(component', S) => S = {}
    PROVE  NoBundleContainsItself'
<1> SUFFICES ASSUME ~loose', NEW S \in SUBSET Products, S # {}
             PROVE  \E p \in S : Children(p)' \cap S = {}
  BY DEF NoBundleContainsItself, Children
<1>1. ~Turning(component', S)
  OBVIOUS
<1>2. PICK p \in S : \A y \in S : <<p, y>> \notin component'
  BY <1>1 DEF Turning
<1> QED
  BY <1>2 DEF Children

\* Fewer components turn less.
LEMMA FewerComponents ==
    ASSUME TypeOK, NoBundleContainsItself, component' \subseteq component, loose' = loose
    PROVE  NoBundleContainsItself'
<1>1. ASSUME ~loose', NEW S \in SUBSET Products, Turning(component', S)
      PROVE  S = {}
  <2>1. Turning(component, S)
    BY <1>1 DEF Turning
  <2> QED
    BY <1>1, <2>1, NothingTurns
<1> QED
  BY <1>1, ShownByTurning

\* A request that is at its walk stays where it is, or does not walk any more,
\* while the components lose rows.
LEMMA WalksUndisturbed ==
    ASSUME WalkInv, component' \subseteq component,
           \A w \in Workers : req'[w] = req[w] \/ req'[w].pc # "walk"
    PROVE  WalkInv'
BY DEF WalkInv, At, Children

-----------------------------------------------------------------------------
LEMMA InitIInv == Init => IInv
<1> SUFFICES ASSUME Init PROVE IInv
  OBVIOUS
<1>1. TypeOK
  BY DEF Init, TypeOK, Stored, Idle, Request
<1>2. WalkInv
  BY DEF Init, WalkInv, At, Idle
<1>3. NoBundleContainsItself
  BY DEF Init, NoBundleContainsItself, Children
<1> QED
  BY <1>1, <1>2, <1>3 DEF IInv

-----------------------------------------------------------------------------
\* The types.  A request changes to one of the type, the others stay.
LEMMA Ended == ASSUME TypeOK, NEW w \in Workers, Ends(w) PROVE req' \in [Workers -> Request]
BY DEF TypeOK, Ends, Idle, Request

LEMMA TypeOfInsert ==
    ASSUME TypeOK, NEW w \in Workers, Insert(w)
    PROVE  TypeOK'
<1> DEFINE r == req[w]
<1>1. r \in Request /\ product' = product /\ Stored' = Stored
  BY DEF TypeOK, Insert, Stored
<1>2. CASE Accepted(r)
  <2>1. component' = component \cup {<<r.parent, r.child>>}
        /\ loose' = (loose \/ r.behind)
        /\ req' = [v \in Workers |->
                       IF v = w THEN Idle
                       ELSE [req[v] EXCEPT !.behind = @ \/ ReadEarlier(r.parent, v)]]
    BY <1>2 DEF Insert
  <2>2. component' \subseteq Stored' \X Stored'
    BY <1>1, <1>2, <2>1 DEF Accepted, TypeOK
  <2>3. loose' \in BOOLEAN
    BY <1>1, <2>1 DEF TypeOK, Request
  <2>4. ASSUME NEW v \in Workers PROVE req'[v] \in Request
    <3>1. req[v] \in Request /\ Idle \in Request
      BY DEF TypeOK, Idle, Request
    <3>2. req[v].behind \/ ReadEarlier(r.parent, v) \in BOOLEAN
      BY <3>1 DEF Request, ReadEarlier, At
    <3>3. [req[v] EXCEPT !.behind = @ \/ ReadEarlier(r.parent, v)] \in Request
      BY <3>1, <3>2 DEF Request
    <3> QED
      BY <2>1, <3>1, <3>3
  <2> QED
    BY <1>1, <2>1, <2>2, <2>3, <2>4 DEF TypeOK
<1>3. CASE ~Accepted(r)
  BY <1>1, <1>3, Ended DEF Insert, TypeOK
<1> QED
  BY <1>2, <1>3

LEMMA TypeStep == TypeOK /\ [Next]_vars => TypeOK'
<1> SUFFICES ASSUME TypeOK, [Next]_vars PROVE TypeOK'
  OBVIOUS
<1>1. ASSUME NEW p \in Products, NEW status \in {"active", "inactive"},
             NEW children \in SUBSET Stored, Create(p, status, children)
      PROVE  TypeOK'
  <2>1. product' \in [Products -> {"active", "inactive", "none"}] /\ Stored' = Stored \cup {p}
    BY <1>1 DEF TypeOK, Create, Stored
  <2>2. component' \subseteq Stored' \X Stored'
    BY <1>1, <2>1 DEF TypeOK, Create
  <2> QED
    BY <1>1, <2>1, <2>2 DEF TypeOK, Create
<1>2. ASSUME NEW p \in Products, NEW status \in {"active", "inactive"}, SetActive(p, status)
      PROVE  TypeOK'
  <2>1. product' \in [Products -> {"active", "inactive", "none"}] /\ Stored' = Stored
    BY <1>2 DEF TypeOK, SetActive, Stored
  <2> QED
    BY <1>2, <2>1 DEF TypeOK, SetActive
<1>3. ASSUME NEW p \in Products, NEW c \in Products, Remove(p, c) PROVE TypeOK'
  BY <1>3 DEF TypeOK, Remove, Stored
<1>4. ASSUME NEW w \in Workers, NEW p \in Products, NEW c \in Products, BeginAdd(w, p, c)
      PROVE  TypeOK'
  <2>1. [Idle EXCEPT !.pc = "walk", !.parent = p, !.child = c, !.todo = {c}] \in Request
    BY DEF Idle, Request
  <2> QED
    BY <1>4, <2>1 DEF TypeOK, BeginAdd, Stored
<1>5. ASSUME NEW w \in Workers, NEW x \in Products, Visit(w, x) PROVE TypeOK'
  <2>1. Stored' = Stored /\ UNCHANGED <<product, component, loose>>
    BY <1>5 DEF Visit, Stored
  <2>2. CASE Circular(req[w], x)
    BY <1>5, <2>1, <2>2, Ended DEF Visit, TypeOK
  <2>3. CASE ~Circular(req[w], x)
    <3>1. req[w] \in Request /\ Children(x) \in SUBSET Products
      BY DEF TypeOK, Children
    <3>2. [req[w] EXCEPT !.visited = @ \cup {x}, !.todo = (@ \ {x}) \cup Children(x)] \in Request
      BY <3>1 DEF Request
    <3>3. req' = [req EXCEPT ![w] = [req[w] EXCEPT !.visited = @ \cup {x},
                                                   !.todo = (@ \ {x}) \cup Children(x)]]
      BY <1>5, <2>3, <3>1 DEF Visit, TypeOK, Request
    <3> QED
      BY <2>1, <3>2, <3>3 DEF TypeOK
  <2> QED
    BY <2>2, <2>3
<1>6. ASSUME NEW w \in Workers, Insert(w) PROVE TypeOK'
  BY <1>6, TypeOfInsert
<1>7. ASSUME NEW w \in Workers, NEW p \in Products, BeginPurge(w, p) PROVE TypeOK'
  <2>1. [Idle EXCEPT !.pc = "purge", !.parent = p] \in Request
    BY DEF Idle, Request
  <2> QED
    BY <1>7, <2>1 DEF TypeOK, BeginPurge, Stored
<1>8. ASSUME NEW w \in Workers, Purge(w) PROVE TypeOK'
  <2> DEFINE p == req[w].parent
  <2>1. CASE p \in Stored /\ Parents(p) = {}
    <3>1. product' = [product EXCEPT ![p] = "none"] /\ component' = {e \in component : e[1] # p}
      BY <1>8, <2>1 DEF Purge
    <3>2. Stored' = Stored \ {p} /\ product' \in [Products -> {"active", "inactive", "none"}]
      BY <3>1 DEF TypeOK, Stored
    <3>3. \A e \in component : e[2] # p
      BY <2>1 DEF TypeOK, Parents, Stored
    <3> QED
      BY <1>8, <3>1, <3>2, <3>3, Ended DEF Purge, TypeOK
  <2>2. CASE ~(p \in Stored /\ Parents(p) = {})
    BY <1>8, <2>2, Ended DEF Purge, TypeOK, Stored
  <2> QED
    BY <2>1, <2>2
<1>9. ASSUME NEW w \in Workers, Abort(w) PROVE TypeOK'
  BY <1>9, Ended DEF Abort, TypeOK, Stored
<1>10. ASSUME UNCHANGED vars PROVE TypeOK'
  BY <1>10 DEF vars, TypeOK, Stored
<1> QED
  BY <1>1, <1>2, <1>3, <1>4, <1>5, <1>6, <1>7, <1>8, <1>9, <1>10 DEF Next, Walks

-----------------------------------------------------------------------------
\* What walks know.
LEMMA WalkOfInsert ==
    ASSUME TypeOK, WalkInv, NEW w \in Workers, Insert(w), Accepted(req[w])
    PROVE  WalkInv'
<1> DEFINE q == req[w].parent
           d == req[w].child
<1>1. component' = component \cup {<<q, d>>}
      /\ req' = [v \in Workers |->
                     IF v = w THEN Idle
                     ELSE [req[v] EXCEPT !.behind = @ \/ ReadEarlier(q, v)]]
  BY DEF Insert
<1>2. SUFFICES ASSUME NEW v \in Workers, At(v, "walk")'
               PROVE  /\ req'[v].parent \notin req'[v].visited \cup req'[v].todo
                      /\ req'[v].child \in req'[v].visited \cup req'[v].todo
                      /\ ~req'[v].behind =>
                             \A x \in req'[v].visited :
                                 Children(x)' \subseteq req'[v].visited \cup req'[v].todo
  BY DEF WalkInv
<1>3. v # w
  BY <1>1, <1>2 DEF At, Idle
<1>4. req[v] \in Request /\ req'[v] = [req[v] EXCEPT !.behind = @ \/ ReadEarlier(q, v)]
  BY <1>1, <1>3 DEF TypeOK
<1>5. /\ req'[v].pc = req[v].pc /\ req'[v].parent = req[v].parent /\ req'[v].child = req[v].child
      /\ req'[v].visited = req[v].visited /\ req'[v].todo = req[v].todo
      /\ req'[v].behind = (req[v].behind \/ ReadEarlier(q, v))
  BY <1>4 DEF Request
<1>6. At(v, "walk")
  BY <1>2, <1>5 DEF At
<1>7. ASSUME ~req'[v].behind, NEW x \in req'[v].visited
      PROVE  Children(x)' \subseteq req'[v].visited \cup req'[v].todo
  <2>1. ~req[v].behind /\ x # q
    BY <1>5, <1>6, <1>7 DEF ReadEarlier
  <2>2. Children(x)' = Children(x)
    BY <1>1, <2>1 DEF Children
  <2> QED
    BY <1>5, <1>6, <1>7, <2>1, <2>2 DEF WalkInv
<1> QED
  BY <1>5, <1>6, <1>7 DEF WalkInv

LEMMA WalkOfVisit ==
    ASSUME TypeOK, WalkInv, NEW w \in Workers, NEW x \in Products, Visit(w, x), ~Circular(req[w], x)
    PROVE  WalkInv'
<1> DEFINE V == req[w].visited \cup {x}
           D == (req[w].todo \ {x}) \cup Children(x)
<1>1. req[w] \in Request /\ At(w, "walk") /\ x \in req[w].todo /\ component' = component
      /\ req' = [req EXCEPT ![w].visited = @ \cup {x}, ![w].todo = (@ \ {x}) \cup Children(x)]
  BY DEF TypeOK, Visit
<1>2. /\ req'[w].pc = req[w].pc /\ req'[w].parent = req[w].parent /\ req'[w].child = req[w].child
      /\ req'[w].visited = V /\ req'[w].todo = D /\ req'[w].behind = req[w].behind
      /\ \A v \in Workers \ {w} : req'[v] = req[v]
  BY <1>1 DEF TypeOK, Request
<1>3. V \cup D = req[w].visited \cup req[w].todo \cup Children(x)
  BY <1>1
<1>4. req[w].parent \notin V \cup D
  BY <1>1, <1>3 DEF WalkInv, Circular
<1>5. req[w].child \in V \cup D
  BY <1>1, <1>3 DEF WalkInv
<1>6. ASSUME ~req[w].behind, NEW y \in V PROVE Children(y) \subseteq V \cup D
  BY <1>1, <1>3, <1>6 DEF WalkInv
<1>7. \A y : Children(y)' = Children(y)
  BY <1>1 DEF Children
<1> QED
  BY <1>2, <1>4, <1>5, <1>6, <1>7 DEF WalkInv, At

LEMMA WalkStep == TypeOK /\ WalkInv /\ [Next]_vars => WalkInv'
<1> SUFFICES ASSUME TypeOK, WalkInv, [Next]_vars PROVE WalkInv'
  OBVIOUS
<1>1. ASSUME NEW p \in Products, NEW status \in {"active", "inactive"},
             NEW children \in SUBSET Stored, Create(p, status, children)
      PROVE  WalkInv'
  <2>1. \A w \in Workers : p \notin req[w].visited
    BY <1>1 DEF Create, Named
  <2>2. \A x : x # p => Children(x)' = Children(x)
    BY <1>1 DEF Create, Children
  <2> QED
    BY <1>1, <2>1, <2>2 DEF Create, WalkInv, At
<1>2. ASSUME NEW w \in Workers, NEW p \in Products, NEW c \in Products, BeginAdd(w, p, c)
      PROVE  WalkInv'
  <2>1. /\ req'[w] = [Idle EXCEPT !.pc = "walk", !.parent = p, !.child = c, !.todo = {c}]
        /\ \A v \in Workers \ {w} : req'[v] = req[v]
        /\ p # c /\ component' = component
    BY <1>2 DEF TypeOK, BeginAdd
  <2>2. req'[w].parent = p /\ req'[w].child = c /\ req'[w].visited = {} /\ req'[w].todo = {c}
    BY <2>1 DEF Idle
  <2> QED
    BY <2>1, <2>2 DEF WalkInv, At, Children
<1>3. ASSUME NEW w \in Workers, Ends(w), component' \subseteq component PROVE WalkInv'
  BY <1>3, WalksUndisturbed DEF Ends, Idle, TypeOK
<1>4. ASSUME NEW w \in Workers, NEW x \in Products, Visit(w, x) PROVE WalkInv'
  BY <1>3, <1>4, WalkOfVisit DEF Visit
<1>5. ASSUME NEW w \in Workers, Insert(w) PROVE WalkInv'
  BY <1>3, <1>5, WalkOfInsert DEF Insert
<1>6. ASSUME NEW w \in Workers, NEW p \in Products, BeginPurge(w, p) PROVE WalkInv'
  BY <1>6, WalksUndisturbed DEF BeginPurge, Idle, TypeOK
<1>7. ASSUME NEW w \in Workers, Purge(w) \/ Abort(w) PROVE WalkInv'
  BY <1>3, <1>7 DEF Purge, Abort
<1>8. ASSUME NEW p \in Products, NEW s, SetActive(p, s) \/ \E c \in Products : Remove(p, c) PROVE WalkInv'
  BY <1>8, WalksUndisturbed DEF SetActive, Remove
<1>9. ASSUME UNCHANGED vars PROVE WalkInv'
  BY <1>9, WalksUndisturbed DEF vars
<1> QED
  BY <1>1, <1>2, <1>4, <1>5, <1>6, <1>7, <1>8, <1>9 DEF Next, Walks

-----------------------------------------------------------------------------
\* No bundle contains itself.
LEMMA AcyclicCreate ==
    ASSUME TypeOK, NoBundleContainsItself, NEW p \in Products,
           NEW status, NEW children \in SUBSET Stored, Create(p, status, children)
    PROVE  NoBundleContainsItself'
<1>1. p \notin Stored /\ component' = component \cup ({p} \X children) /\ loose' = loose
  BY DEF Create
<1>2. ASSUME ~loose', NEW S \in SUBSET Products, Turning(component', S)
      PROVE  S = {}
  <2>1. ASSUME NEW x \in S, x # p PROVE \E y \in S \ {p} : <<x, y>> \in component
    <3>1. PICK y \in S : <<x, y>> \in component'
      BY <1>2 DEF Turning
    <3> QED
      BY <1>1, <2>1, <3>1 DEF TypeOK
  <2>2. S \ {p} = {}
    <3>1. Turning(component, S \ {p})
      BY <2>1 DEF Turning
    <3> QED
      BY <1>1, <1>2, <3>1, NothingTurns
  <2>3. p \notin S
    BY <1>1, <1>2, <2>2 DEF Turning, TypeOK
  <2> QED
    BY <2>2, <2>3
<1> QED
  BY <1>2, ShownByTurning

LEMMA AcyclicInsert ==
    ASSUME TypeOK, WalkInv, NoBundleContainsItself, NEW w \in Workers, Insert(w), Accepted(req[w])
    PROVE  NoBundleContainsItself'
<1> DEFINE p == req[w].parent
           c == req[w].child
           V == req[w].visited
<1>1. At(w, "walk") /\ req[w].todo = {} /\ req[w] \in Request
      /\ component' = component \cup {<<p, c>>} /\ loose' = (loose \/ req[w].behind)
  BY DEF Insert, TypeOK
<1>2. ASSUME ~loose', NEW S \in SUBSET Products, Turning(component', S)
      PROVE  S = {}
  <2>1. ~loose /\ ~req[w].behind
    BY <1>1, <1>2
  <2>2. p \notin V /\ c \in V /\ \A x \in V : Children(x) \subseteq V
    BY <1>1, <2>1 DEF WalkInv
  <2>3. ASSUME NEW x \in S \cap V PROVE \E y \in S \cap V : <<x, y>> \in component
    <3>1. PICK y \in S : <<x, y>> \in component'
      BY <1>2 DEF Turning
    <3>2. <<x, y>> \in component
      BY <1>1, <2>2, <3>1
    <3> QED
      BY <2>2, <3>1, <3>2 DEF TypeOK, Stored, Children
  <2>4. S \cap V = {}
    BY <2>1, <2>3, NothingTurns DEF Turning
  <2>5. Turning(component, S)
    BY <1>1, <1>2, <2>2, <2>4 DEF Turning
  <2> QED
    BY <2>1, <2>5, NothingTurns
<1> QED
  BY <1>2, ShownByTurning

LEMMA AcyclicStep == IInv /\ [Next]_vars => NoBundleContainsItself'
<1> SUFFICES ASSUME TypeOK, WalkInv, NoBundleContainsItself, [Next]_vars
             PROVE  NoBundleContainsItself'
  BY DEF IInv
<1>1. ASSUME component' \subseteq component, loose' = loose PROVE NoBundleContainsItself'
  BY <1>1, FewerComponents
<1>2. ASSUME NEW p \in Products, NEW status, NEW children \in SUBSET Stored, Create(p, status, children)
      PROVE  NoBundleContainsItself'
  BY <1>2, AcyclicCreate
<1>3. ASSUME NEW w \in Workers, Insert(w) PROVE NoBundleContainsItself'
  BY <1>1, <1>3, AcyclicInsert DEF Insert
<1>4. ASSUME NEW p \in Products, NEW s, SetActive(p, s) \/ \E c \in Products : Remove(p, c)
      PROVE  NoBundleContainsItself'
  BY <1>1, <1>4 DEF SetActive, Remove
<1>5. ASSUME NEW w \in Workers, NEW p, NEW c, BeginAdd(w, p, c) \/ Visit(w, p) \/ BeginPurge(w, p)
      PROVE  NoBundleContainsItself'
  BY <1>1, <1>5 DEF BeginAdd, Visit, BeginPurge
<1>6. ASSUME NEW w \in Workers, Purge(w) \/ Abort(w) PROVE NoBundleContainsItself'
  BY <1>1, <1>6 DEF Purge, Abort
<1>7. ASSUME UNCHANGED vars PROVE NoBundleContainsItself'
  BY <1>1, <1>7 DEF vars
<1> QED
  BY <1>2, <1>3, <1>4, <1>5, <1>6, <1>7 DEF Next, Walks

-----------------------------------------------------------------------------
LEMMA Invariance == Spec => []IInv
<1>1. IInv /\ [Next]_vars => IInv'
  BY TypeStep, WalkStep, AcyclicStep DEF IInv
<1> QED
  BY InitIInv, <1>1, PTL DEF Spec

\* Products, components and requests keep their types; a component always
\* joins two products that are stored (products.py and its foreign keys).
THEOREM TypeCorrect == Spec => []TypeOK
<1>1. IInv => TypeOK
  BY DEF IInv
<1> QED
  BY Invariance, <1>1, PTL

\* add_product_component keeps bundles free of cycles, for any products and any
\* number of overlapping requests, as long as no component was stored by a walk
\* that another one had overtaken.
THEOREM AcyclicBundles == Spec => []NoBundleContainsItself
<1>1. IInv => NoBundleContainsItself
  BY DEF IInv
<1> QED
  BY Invariance, <1>1, PTL

-----------------------------------------------------------------------------
\* Why a walk ends.  What it has still to visit it has not visited before, also
\* when other requests change the products below it.
TodoIsNew == \A w \in Workers : At(w, "walk") => req[w].visited \cap req[w].todo = {}

\* A query or the insertion of a walk ends it, or leaves fewer products that it
\* has not visited; nothing else gives it one to visit again.
Unvisited(r) == Products \ r.visited
WalkAdvances ==
    [][\A w \in Workers : (At(w, "walk") /\ At(w, "walk")') =>
          /\ req[w].visited \subseteq req'[w].visited
          /\ Walks(w) => Cardinality(Unvisited(req'[w])) < Cardinality(Unvisited(req[w]))]_vars

\* A step that is none of a walk's own queries leaves what the walk has visited.
LEMMA OthersLeaveWalks ==
    ASSUME TypeOK, [Next]_vars, NEW w \in Workers, At(w, "walk"), At(w, "walk")',
           ~\E x \in Products : Visit(w, x)
    PROVE  req'[w].visited = req[w].visited /\ req'[w].todo = req[w].todo /\ ~Walks(w)
<1>0. req \in [Workers -> Request]
  BY DEF TypeOK
<1>1. ~Walks(w)
  <2>1. ASSUME Insert(w) PROVE FALSE
    <3>1. req'[w] = Idle
      BY <1>0, <2>1 DEF Insert, Ends
    <3> QED
      BY <3>1 DEF At, Idle
  <2> QED
    BY <2>1 DEF Walks
<1>2. ASSUME NEW v \in Workers, Insert(v)
      PROVE  req'[w].visited = req[w].visited /\ req'[w].todo = req[w].todo
  <2>1. v # w
    BY <1>1, <1>2 DEF Walks
  <2>2. CASE Accepted(req[v])
    <3>1. req'[w] = [req[w] EXCEPT !.behind = @ \/ ReadEarlier(req[v].parent, w)]
      BY <1>2, <2>1, <2>2 DEF Insert
    <3> QED
      BY <1>0, <3>1 DEF Request
  <2>3. CASE ~Accepted(req[v])
    BY <1>0, <1>2, <2>1, <2>3 DEF Insert, Ends
  <2> QED
    BY <2>2, <2>3
<1>3. ASSUME NEW v \in Workers, Ends(v) PROVE req'[w] = req[w]
  <2>1. v # w
    BY <1>0, <1>3 DEF Ends, At, Idle
  <2> QED
    BY <1>0, <1>3, <2>1 DEF Ends
<1>4. ASSUME NEW v \in Workers, NEW x \in Products, Visit(v, x) PROVE req'[w] = req[w]
  <2>1. v # w
    BY <1>4
  <2> QED
    BY <1>0, <1>3, <1>4, <2>1 DEF Visit
<1>5. ASSUME NEW v \in Workers, NEW p \in Products, NEW c \in Products,
             BeginAdd(v, p, c) \/ BeginPurge(v, p)
      PROVE  req'[w] = req[w]
  <2>1. v # w
    BY <1>5 DEF BeginAdd, BeginPurge, At
  <2> QED
    BY <1>0, <1>5, <2>1 DEF BeginAdd, BeginPurge
<1>6. ASSUME NEW v \in Workers, Purge(v) \/ Abort(v) PROVE req'[w] = req[w]
  BY <1>3, <1>6 DEF Purge, Abort
<1>7. ASSUME NEW p \in Products, NEW status, NEW children,
             Create(p, status, children) \/ SetActive(p, status) \/ \E c \in Products : Remove(p, c)
      PROVE  req'[w] = req[w]
  BY <1>7 DEF Create, SetActive, Remove
<1>8. CASE UNCHANGED vars
  BY <1>1, <1>8 DEF vars
<1> QED
  BY <1>1, <1>2, <1>4, <1>5, <1>6, <1>7, <1>8 DEF Next, Walks

\* A query moves one product from those to visit to those visited.
LEMMA VisitMoves ==
    ASSUME TypeOK, NEW w \in Workers, NEW x \in Products, Visit(w, x), At(w, "walk")'
    PROVE  /\ x \in req[w].todo
           /\ Children(x) \cap (req[w].visited \cup req[w].todo) = {}
           /\ req'[w].visited = req[w].visited \cup {x}
           /\ req'[w].todo = (req[w].todo \ {x}) \cup Children(x)
<1>1. req \in [Workers -> Request] /\ x \in req[w].todo
  BY DEF TypeOK, Visit
<1>2. ~Circular(req[w], x)
  BY <1>1 DEF Visit, Ends, At, Idle
<1> QED
  BY <1>1, <1>2 DEF Visit, Circular, Request

LEMMA TodoStep == TypeOK /\ TodoIsNew /\ [Next]_vars => TodoIsNew'
<1> SUFFICES ASSUME TypeOK, TodoIsNew, [Next]_vars, NEW w \in Workers, At(w, "walk")'
             PROVE  req'[w].visited \cap req'[w].todo = {}
  BY DEF TodoIsNew, At
<1>1. CASE ~At(w, "walk")
  <2>1. req \in [Workers -> Request]
    BY DEF TypeOK
  <2>2. PICK p \in Products, c \in Products : BeginAdd(w, p, c)
    <3>1. ASSUME NEW v \in Workers, Ends(v) PROVE FALSE
      BY <1>1, <2>1, <3>1 DEF Ends, At, Idle
    <3>2. ASSUME NEW v \in Workers, Insert(v) PROVE FALSE
      <4>1. v # w
        BY <1>1, <3>2 DEF Insert
      <4> QED
        BY <1>1, <2>1, <3>1, <3>2, <4>1 DEF Insert, At, Request
    <3>3. ASSUME NEW v \in Workers, NEW x \in Products, Visit(v, x) PROVE FALSE
      <4>1. v # w
        BY <1>1, <3>3 DEF Visit
      <4> QED
        BY <1>1, <2>1, <3>1, <3>3, <4>1 DEF Visit, At
    <3>4. ASSUME NEW v \in Workers, Purge(v) \/ Abort(v) PROVE FALSE
      BY <3>1, <3>4 DEF Purge, Abort
    <3>5. ASSUME NEW v \in Workers, NEW p \in Products, BeginPurge(v, p) PROVE FALSE
      BY <1>1, <2>1, <3>5 DEF BeginPurge, At, Idle
    <3>6. ASSUME NEW p \in Products, NEW status, NEW children,
                 Create(p, status, children) \/ SetActive(p, status) \/ \E c \in Products : Remove(p, c)
          PROVE  FALSE
      BY <1>1, <3>6 DEF Create, SetActive, Remove, At
    <3>7. CASE UNCHANGED vars
      BY <1>1, <3>7 DEF vars, At
    <3>8. ASSUME NEW v \in Workers, NEW p \in Products, NEW c \in Products, BeginAdd(v, p, c), v # w
          PROVE  FALSE
      BY <1>1, <2>1, <3>8 DEF BeginAdd, At
    <3> QED
      BY <3>2, <3>3, <3>4, <3>5, <3>6, <3>7, <3>8 DEF Next, Walks
  <2>3. req'[w].visited = {}
    BY <2>1, <2>2 DEF BeginAdd, Idle
  <2> QED
    BY <2>3
<1>2. CASE At(w, "walk") /\ \E x \in Products : Visit(w, x)
  BY <1>2, VisitMoves DEF TodoIsNew
<1>3. CASE At(w, "walk") /\ ~\E x \in Products : Visit(w, x)
  BY <1>3, OthersLeaveWalks DEF TodoIsNew
<1> QED
  BY <1>1, <1>2, <1>3

\* _check_circular_reference goes through no product twice, whatever other
\* requests do to the products below it: each of its queries leaves one product
\* fewer to visit, so a walk makes at most as many queries as there are
\* products.  This is what WalksEnd rests on, beside the fairness.
THEOREM WalksAdvance ==
    ASSUME IsFiniteSet(Products)
    PROVE  Spec => WalkAdvances
<1> DEFINE Advance == \A w \in Workers : (At(w, "walk") /\ At(w, "walk")') =>
          /\ req[w].visited \subseteq req'[w].visited
          /\ Walks(w) => Cardinality(Unvisited(req'[w])) < Cardinality(Unvisited(req[w]))
<1>1. Init => TodoIsNew
  BY DEF Init, TodoIsNew, Idle, At
<1>2. TypeOK /\ TodoIsNew /\ [Next]_vars => [Advance]_vars
  <2> SUFFICES ASSUME TypeOK, TodoIsNew, [Next]_vars, NEW w \in Workers,
                      At(w, "walk"), At(w, "walk")'
               PROVE  /\ req[w].visited \subseteq req'[w].visited
                      /\ Walks(w) => Cardinality(Unvisited(req'[w])) < Cardinality(Unvisited(req[w]))
    OBVIOUS
  <2>1. CASE \E x \in Products : Visit(w, x)
    <3>1. PICK x \in Products : Visit(w, x)
      BY <2>1
    <3>2. /\ x \in Unvisited(req[w])
          /\ req'[w].visited = req[w].visited \cup {x}
          /\ Unvisited(req'[w]) = Unvisited(req[w]) \ {x}
      BY <3>1, VisitMoves DEF TodoIsNew, Unvisited
    <3>3. IsFiniteSet(Unvisited(req[w]))
      BY FS_Subset DEF Unvisited
    <3>4. Cardinality(Unvisited(req[w])) \in Nat
          /\ Cardinality(Unvisited(req[w]) \ {x}) = Cardinality(Unvisited(req[w])) - 1
      BY <3>2, <3>3, FS_CardinalityType, FS_RemoveElement
    <3> QED
      BY <3>2, <3>4
  <2>2. CASE ~\E x \in Products : Visit(w, x)
    BY <2>2, OthersLeaveWalks
  <2> QED
    BY <2>1, <2>2
<1> QED
  BY TypeCorrect, <1>1, <1>2, TodoStep, PTL DEF Spec, WalkAdvances
=============================================================================
