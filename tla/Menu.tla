-------------------------------- MODULE Menu --------------------------------
(***************************************************************************)
(* The menu of a store and the choices an order makes from it              *)
(* (routes/merchant_products.js, products.js, orders.js).                  *)
(*                                                                         *)
(* A product links to groups of options; an option is a product too and    *)
(* may link to groups of its own, so menus are graphs, possibly with       *)
(* cycles.  Products, groups, links and items are shared by all stores; a  *)
(* store lists products with a status.  An edit is one transaction that    *)
(* locks the product or the group it replaces; another store's edit may    *)
(* use products this one does not list.                                    *)
(*                                                                         *)
(* The buyer's menu and the check of an order walk the graph apart, each   *)
(* by a recursion that stops where a path comes back to a product.         *)
(***************************************************************************)
EXTENDS Integers, FiniteSets, FiniteSetsExt

CONSTANTS
  Products, Groups,
  Parents,     \* bound: the products that may have groups
  Rules,       \* values of [min, max, active] of a group in requests
  Price,       \* [Products -> Nat]: price_override or base_price
  MaxEdits     \* bound: edits of products and groups

ASSUME MenuAssumption ==
  /\ IsFiniteSet(Products) /\ IsFiniteSet(Groups)
  /\ Parents \subseteq Products
  /\ Price \in [Products -> Nat]
  /\ MaxEdits \in Nat

Statuses == {"absent", "active", "inactive"}

VARIABLES
  shelf,   \* store_products.status in this store
  links,   \* product_option_group_links
  items,   \* product_option_group_items
  rule,    \* product_option_groups.min_select, max_select, active
  affects, \* products.options_affect_price of the parents
  edits    \* how many there were

menuVars == <<shelf, links, items, rule, affects, edits>>

\* normalizeOptionGroup and the CHECKs of product_option_groups; a 'single'
\* group is one with max_select 1.
FaultAnyRule(r) == TRUE
GoodRule(r) == 1 <= r.max /\ r.min <= r.max

MenuInit ==
  /\ shelf = [p \in Products |-> "absent"]
  /\ links = [p \in Products |-> {}]
  /\ items = [g \in Groups |-> {}]
  /\ \E r \in Rules : GoodRule(r) /\ r.active /\ rule = [g \in Groups |-> r]
  /\ affects = [p \in Parents |-> TRUE]
  /\ edits = 0

\* resolveOptionGroupId.  A group comes with its first options.
Exist(groups) == \A g \in groups : items[g] # {} /\ rule[g].active

Edit == edits < MaxEdits /\ edits' = edits + 1

-----------------------------------------------------------------------------
(* The merchant's edits                                                    *)

\* What a save lists in the store: the product, and the options it creates.
Lists(own, p, status, options) ==
  shelf' = [q \in Products |->
    IF ~own THEN shelf[q]
    ELSE IF q = p THEN status
    ELSE IF q \in options /\ shelf[q] = "absent" THEN "active"
    ELSE shelf[q]]

\* products/create and products/update with groups that exist: they replace
\* the product's links.
SaveProduct(own, p, status, chosen) ==
  /\ Exist(chosen)
  /\ Lists(own, p, status, {})
  /\ affects' \in {affects} \cup {[affects EXCEPT ![q] = ~@] : q \in Parents \cap {p}}
  /\ links' = [links EXCEPT ![p] = chosen]
  /\ UNCHANGED <<items, rule>>

IsNew(q) == links[q] = {} /\ \A g \in Groups : q \notin items[g]

\* The same with one group of a name: the group is created or, if there is one
\* of that name, overwritten, and the options are added to it; the groups under
\* an option are added to its links.
SaveProductWithGroup(own, p, chosen, g, r, options, under) ==
  /\ GoodRule(r) /\ Exist((chosen \cup under) \ {g})
  /\ own => \A q \in options : shelf[q] # "absent" \/ IsNew(q)
  /\ Lists(own, p, "active", options)
  /\ links' = [q \in Products |->
       (IF q = p THEN chosen \cup {g} ELSE links[q])
         \cup (IF q \in options THEN under ELSE {})]
  /\ items' = [items EXCEPT ![g] = @ \cup options]
  /\ rule' = [rule EXCEPT ![g] = r]
  /\ UNCHANGED affects

\* option-groups/update replaces the options of a group.
UpdateOptionGroup(own, g, r, options) ==
  /\ Exist({g})
  /\ own => \A p \in options : shelf[p] # "absent"
  /\ GoodRule(r) /\ r.active /\ r.max <= Cardinality(options)
  /\ \A p \in options : g \notin links[p]
  /\ items' = [items EXCEPT ![g] = options]
  /\ rule' = [rule EXCEPT ![g] = r]
  /\ UNCHANGED <<shelf, links, affects>>

\* products/status/update ('archived' is inactive; whether a dish is visible in
\* the menu is part of whether it is active).
SetStatus(p, status) ==
  /\ shelf[p] # "absent"
  /\ shelf' = [shelf EXCEPT ![p] = status]
  /\ UNCHANGED <<links, items, rule, affects, edits>>

\* products/get_list and orders/create only read the menu.
ReadMenu == UNCHANGED menuVars

MenuNext ==
  \/ ReadMenu
  \/ /\ Edit
     /\ \E own \in BOOLEAN :
          \/ \E p \in Products, chosen \in SUBSET Groups, status \in Statuses \ {"absent"} :
               (p \notin Parents => chosen = {}) /\ SaveProduct(own, p, status, chosen)
          \/ \E g \in Groups, r \in Rules, options \in SUBSET Products \ {{}} :
               \/ UpdateOptionGroup(own, g, r, options)
               \/ \E p \in Parents, chosen, under \in SUBSET Groups :
                    /\ options \subseteq Parents \/ under = {}
                    /\ SaveProductWithGroup(own, p, chosen, g, r, options, under)
  \/ \E p \in Products, status \in Statuses \ {"absent"} : SetStatus(p, status)

MenuSpec == MenuInit /\ [][MenuNext]_menuVars

-----------------------------------------------------------------------------
(* fetchOrderOptionRows: what is offered under an active product           *)

Active(p) == shelf[p] = "active"
Offered(g) == {o \in items[g] : Active(o)}
GroupsOf(p) ==
  IF Active(p) THEN {g \in links[p] : rule[g].active /\ Offered(g) # {}} ELSE {}
ExtraPrice(p, o) == IF affects[p] THEN Price[o] ELSE 0

\* buildOptionGroups of the buyer's menu, as the set of its entries: the edge
\* (product, group, option) each stands for and those that lead to it.  below
\* has the entries under each option.
BuildGroups(p, below) ==
  UNION {LET edge == <<p, c[1], c[2]>>
         IN {[via |-> {}, edge |-> edge]} \cup
            {[e EXCEPT !.via = @ \cup {edge}] : e \in below[c[2]]}
         : c \in UNION {{g} \X Offered(g) : g \in GroupsOf(p)}}

\* Each product called with the products on the way to it.
Shown ==
  LET build[visited \in SUBSET Products] ==
        [p \in Products |->
          IF p \in visited THEN {} ELSE BuildGroups(p, build[visited \cup {p}])]
  IN build
Entries(p) == Shown[{}][p]

\* A path that comes back to a product ends there, without an error.
CameBack == [valid |-> TRUE, delta |-> 0, consumed |-> {}]

\* Seeded fault: only the choices made for the dish itself are charged.
FaultChargesTheTopOnly(p, o, below) == ExtraPrice(p, o)
Charge(p, o, below) == ExtraPrice(p, o) + below.delta

\* The choices of a selection a product offers, with the group of each.
PickedAt(p, chosen) == UNION {{g} \X (chosen[g] \cap Offered(g)) : g \in GroupsOf(p)}

\* What a group asks of a selection, and that it offers what is chosen.
Satisfies(g, chosen) ==
  /\ Cardinality(chosen[g]) \in rule[g].min..rule[g].max
  /\ chosen[g] \subseteq Offered(g)

\* validateOptionGroupsForParent: whether it found no error, what it adds to
\* the price, and the groups it consumed.  below has what it found for each
\* option.
CheckGroups(p, chosen, below) ==
  LET groups == GroupsOf(p)
      picked == PickedAt(p, chosen)
  IN [valid |-> /\ \A g \in groups : Satisfies(g, chosen)
                /\ \A c \in picked : below[c[2]].valid,
      delta |-> MapThenSumSet(LAMBDA c : Charge(p, c[2], below[c[2]]), picked),
      consumed |-> {g \in groups : chosen[g] # {}} \cup
                   UNION {below[c[2]].consumed : c \in picked}]

\* Each product called with the products on the way to it.
Checked(chosen) ==
  LET check[visited \in SUBSET Products] ==
        [p \in Products |->
          IF p \in visited THEN CameBack
          ELSE CheckGroups(p, chosen, check[visited \cup {p}])]
  IN check
Check(p, chosen) == Checked(chosen)[{}][p]

\* Seeded fault: a choice for a group that is not on the way is let pass.
FaultLetsStraysPass(p, chosen) == Check(p, chosen).valid
\* validateSelectedOptionsForParent
Accepted(p, chosen) ==
  LET result == Check(p, chosen)
  IN result.valid /\ \A g \in Groups : chosen[g] # {} => g \in result.consumed

-----------------------------------------------------------------------------
(* Properties                                                              *)

\* The shapes; a group never asks for more than it allows, and only Parents
\* have groups.
MenuTypeOK ==
  /\ shelf \in [Products -> Statuses]
  /\ links \in [Products -> SUBSET Groups]
  /\ \A p \in Products \ Parents : links[p] = {}
  /\ items \in [Groups -> SUBSET Products]
  /\ rule \in [Groups -> Rules]
  /\ \A g \in Groups : rule[g].min <= rule[g].max
  /\ affects \in [Parents -> BOOLEAN]
  /\ edits \in 0..MaxEdits

Dishes == {p \in Parents : Active(p)}
Selections == [Groups -> SUBSET Products]

\* The products met from p when what is chosen is followed: the least set with
\* p that holds the options picked for each of its products.
Follows(S, chosen) == \A p \in S : \A c \in PickedAt(p, chosen) : c[2] \in S
Met(p, chosen) ==
  {q \in Products :
    \A S \in SUBSET Products : p \in S /\ Follows(S, chosen) => q \in S}

\* An order is accepted exactly if, for every group met by following its
\* choices, it chooses as many as the group asks for and only what it offers,
\* and it chooses nothing elsewhere: the recursion over paths finds what a
\* closure finds, also where the menu has cycles or shares groups.
AcceptedOrdersFollowTheMenu ==
  \A p \in Dishes, chosen \in Selections :
    LET met == UNION {GroupsOf(q) : q \in Met(p, chosen)}
    IN Accepted(p, chosen) <=>
         \A g \in Groups :
           IF g \in met THEN Satisfies(g, chosen) ELSE chosen[g] = {}

\* An entry of the menu that was picked, and what led to it.
EdgePicked(edge, chosen) == edge[3] \in chosen[edge[2]]
EntryPicked(e, chosen) ==
  EdgePicked(e.edge, chosen) /\ \A edge \in e.via : EdgePicked(edge, chosen)

\* What an accepted order pays on top of the dish is what the buyer's menu
\* shows beside the entries that were picked.
ChargedAsShown ==
  \A p \in Dishes :
    LET entries == Entries(p)
    IN \A chosen \in Selections :
         Accepted(p, chosen) =>
           Check(p, chosen).delta =
             MapThenSumSet(LAMBDA e : ExtraPrice(e.edge[1], e.edge[3]),
                           {e \in entries : EntryPicked(e, chosen)})
=============================================================================
