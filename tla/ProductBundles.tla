---------------------------- MODULE ProductBundles ----------------------------
(***************************************************************************)
(* Products that contain other products: the component endpoints of        *)
(* backend/app/api/v1/products.py on products and product_components.      *)
(* Adding a component walks through what the child contains, one query for *)
(* each product, before it stores the row.  Other requests may change what *)
(* a walk has read.  The quantity of a component is left out.              *)
(***************************************************************************)
EXTENDS FiniteSets, Naturals

CONSTANTS
    Products,   \* the rows that products may hold
    Workers

VARIABLES
    product,    \* "active" or "inactive" (is_active); "none" for a row that is not stored
    component,  \* product_components: pairs of a parent and a child
    req,        \* the request each worker runs
    loose       \* a component was stored by a walk that another one had
                \* overtaken: see Insert

vars == <<product, component, req, loose>>

ASSUME BundlesAssumption == "none" \notin Products

Stored == {p \in Products : product[p] # "none"}
Children(p) == {c \in Products : <<p, c>> \in component}
Parents(c) == {p \in Products : <<p, c>> \in component}

Idle == [pc |-> "idle", parent |-> "none", child |-> "none", visited |-> {}, todo |-> {},
         behind |-> FALSE]
At(w, pc) == req[w].pc = pc
Ends(w) == req' = [req EXCEPT ![w] = Idle]

Init ==
    /\ product = [p \in Products |-> "none"]
    /\ component = {}
    /\ req = [w \in Workers |-> Idle]
    /\ loose = FALSE

-----------------------------------------------------------------------------
\* A product may be created with its components.  Identities are fresh: one
\* that a request still names is not used again.
Named(w) == {req[w].parent, req[w].child} \cup req[w].visited \cup req[w].todo
Create(p, status, children) ==
    /\ p \notin Stored /\ \A w \in Workers : p \notin Named(w)
    /\ product' = [product EXCEPT ![p] = status]
    /\ component' = component \cup ({p} \X children)
    /\ UNCHANGED <<req, loose>>

\* update_product, and delete_product without purge.
SetActive(p, status) ==
    /\ p \in Stored
    /\ product' = [product EXCEPT ![p] = status]
    /\ UNCHANGED <<component, req, loose>>

\* remove_product_component.  A row that is gone when it is to be deleted
\* leaves nothing to do.
Remove(p, c) ==
    /\ <<p, c>> \in component
    /\ component' = component \ {<<p, c>>}
    /\ UNCHANGED <<product, req, loose>>

-----------------------------------------------------------------------------
\* add_product_component finds both products and starts to walk.
BeginAdd(w, p, c) ==
    /\ At(w, "idle")
    /\ p \in Stored /\ c \in Stored /\ p # c
    /\ req' = [req EXCEPT ![w] = [Idle EXCEPT !.pc = "walk", !.parent = p, !.child = c, !.todo = {c}]]
    /\ UNCHANGED <<product, component, loose>>

\* One query of _check_circular_reference: the components of a product that it
\* has reached.  Their order is left open, as the query leaves it.  The call
\* is refused when it meets the parent, or a product for the second time.
MeetsReached(r, x) == Children(x) \cap (r.visited \cup r.todo) # {}
MeetsParent(r, x) == r.parent \in Children(x)
Circular(r, x) == r.parent \in Children(x) \/ Children(x) \cap (r.visited \cup r.todo) # {}
Visit(w, x) ==
    LET r == req[w]
    IN  /\ At(w, "walk")
        /\ x \in r.todo
        /\ IF Circular(r, x) THEN Ends(w)
           ELSE req' = [req EXCEPT ![w].visited = @ \cup {x},
                                   ![w].todo = (@ \ {x}) \cup Children(x)]
        /\ UNCHANGED <<product, component, loose>>

\* The row is stored when the walk has met nothing of the kind.  The foreign
\* keys and uq_product_component_parent_child may still refuse it.  A walk that
\* has read the parent's components already does not see the new one.
Unreferenced(r) == <<r.parent, r.child>> \notin component
Accepted(r) == {r.parent, r.child} \subseteq Stored /\ <<r.parent, r.child>> \notin component
ReadEarlier(p, w) == At(w, "walk") /\ p \in req[w].visited
Insert(w) ==
    LET r == req[w]
    IN  /\ At(w, "walk")
        /\ r.todo = {}
        /\ IF Accepted(r)
           THEN /\ component' = component \cup {<<r.parent, r.child>>}
                /\ loose' = (loose \/ r.behind)
                /\ req' = [v \in Workers |->
                       IF v = w THEN Idle
                       ELSE [req[v] EXCEPT !.behind = @ \/ ReadEarlier(r.parent, v)]]
           ELSE Ends(w) /\ UNCHANGED <<component, loose>>
        /\ UNCHANGED product

-----------------------------------------------------------------------------
\* delete_product with purge asks for an inactive product.  One that was read
\* as part of another product cannot be deleted: child_product_id is NOT NULL.
BeginPurge(w, p) ==
    /\ At(w, "idle")
    /\ product[p] = "inactive" /\ Parents(p) = {}
    /\ req' = [req EXCEPT ![w] = [Idle EXCEPT !.pc = "purge", !.parent = p]]
    /\ UNCHANGED <<product, component, loose>>

\* The product goes with its own components; the foreign key of child_product_id
\* is ON DELETE RESTRICT.
Purge(w) ==
    LET p == req[w].parent
    IN  /\ At(w, "purge")
        /\ IF p \in Stored /\ Parents(p) = {}
           THEN /\ product' = [product EXCEPT ![p] = "none"]
                /\ component' = {e \in component : e[1] # p}
           ELSE UNCHANGED <<product, component>>
        /\ Ends(w)
        /\ UNCHANGED loose

\* The process dies, or an exception ends the request.
Abort(w) ==
    /\ ~At(w, "idle")
    /\ Ends(w)
    /\ UNCHANGED <<product, component, loose>>

Walks(w) == (\E x \in Products : Visit(w, x)) \/ Insert(w)

Next ==
    \/ \E p \in Products :
         \/ \E status \in {"active", "inactive"} :
              \/ \E children \in SUBSET Stored : Create(p, status, children)
              \/ SetActive(p, status)
         \/ \E c \in Products : Remove(p, c)
    \/ \E w \in Workers :
         \/ \E p, c \in Products : BeginAdd(w, p, c)
         \/ Walks(w)
         \/ \E p \in Products : BeginPurge(w, p)
         \/ Purge(w) \/ Abort(w)

Spec == Init /\ [][Next]_vars

\* A request that is at its walk goes on with it.
FairSpec == Spec /\ \A w \in Workers : WF_vars(Walks(w))

-----------------------------------------------------------------------------
Request == [pc : {"idle", "walk", "purge"}, parent : Products \cup {"none"},
            child : Products \cup {"none"}, visited : SUBSET Products,
            todo : SUBSET Products, behind : BOOLEAN]

TypeOK ==
    /\ product \in [Products -> {"active", "inactive", "none"}]
    /\ component \subseteq Stored \X Stored
    /\ req \in [Workers -> Request]
    /\ loose \in BOOLEAN

\* "Circular references are not allowed (A cannot contain B if B contains A)":
\* every set of products has one that contains none of them, whatever requests
\* overlap, unless a component was stored below a product whose components a
\* walk had read before.
NoBundleContainsItself ==
    ~loose => \A S \in SUBSET Products :
                 S # {} => \E p \in S : Children(p) \cap S = {}

\* A walk ends, also in products that contain themselves: it goes through no
\* product twice.
WalksEnd == \A w \in Workers : At(w, "walk") ~> ~At(w, "walk")
=============================================================================
