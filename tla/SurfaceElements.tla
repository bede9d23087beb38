-------------------------- MODULE SurfaceElements --------------------------
(***************************************************************************)
(* From the accessibility tree of a page to the elements a snapshot lists, *)
(* and from a ref of the snapshot back to an element of the live page      *)
(* (src/cua/surface: aria.py, query.py, the ref map of                     *)
(* playwright_surface.py).                                                 *)
(*                                                                         *)
(* A tree is the sequence of its nodes in tree order; `parent` is the      *)
(* position of the parent (0 for a root), before the node itself.  A ref   *)
(* is the position of its element in the snapshot.  Names and texts are    *)
(* opaque; NoText is the empty string and a missing value.                 *)
(***************************************************************************)
EXTENDS Integers, Sequences, SequencesExt, FiniteSets

NoText == ""

StructuralRoles == {"generic", "rowgroup", "paragraph", "main", "banner", "contentinfo",
                    "navigation", "table", "row", "group", "caption"}
ContentRoles    == {"cell", "rowheader", "columnheader"}

Node(role, name, parent) ==
  [role |-> role, name |-> name, text |-> NoText, parent |-> parent,
   hasRef |-> TRUE, enabled |-> TRUE]

(* AriaNode, as parsed from a snapshot. *)
Trees == Seq([role : STRING, name : STRING, text : STRING, parent : Nat,
              hasRef : BOOLEAN, enabled : BOOLEAN])

Children(tree, i) == {j \in DOMAIN tree : tree[j].parent = i}

FirstOf(S) == CHOOSE i \in S : \A j \in S : i <= j

(* _context_label: a row is named by its header, a table by its caption,   *)
(* the other containers by their own name.                                 *)
Label(tree, i) ==
  LET node    == tree[i]
      headers == {j \in Children(tree, i) : tree[j].role = "rowheader" /\ tree[j].name # NoText}
      titles  == {j \in Children(tree, i) : tree[j].role = "caption" /\ tree[j].text # NoText}
      name    == IF node.role = "row" /\ headers # {} THEN tree[FirstOf(headers)].name
                 ELSE IF node.role = "table" /\ node.name = NoText /\ titles # {}
                 THEN tree[FirstOf(titles)].text
                 ELSE node.name
  IN  IF node.role \in {"row", "table", "group", "form", "dialog", "region", "navigation"}
         /\ name # NoText
      THEN <<node.role, name>> ELSE <<>>

(* The ancestors of each node, nearest first. *)
Ancestors(tree) ==
  LET up[i \in 0..Len(tree)] == IF i = 0 THEN <<>>
                                ELSE IF tree[i].parent = 0 THEN <<>>
                                ELSE <<tree[i].parent>> \o up[tree[i].parent]
  IN  up

(* context_hint_for: the labels of the nearest labelled ancestors, three   *)
(* at most, the outermost first.                                           *)
ContextHint(tree, i) ==
  LET labelled == SelectSeq(Ancestors(tree)[i], LAMBDA a : Label(tree, a) # <<>>)
      near     == SubSeq(labelled, 1, IF Len(labelled) < 3 THEN Len(labelled) ELSE 3)
  IN  Reverse([k \in DOMAIN near |-> Label(tree, near[k])])

(* value_for: the text of the node (of a combobox, its selected option),   *)
(* else, for content roles, its name.                                      *)
ValueFor(node) ==
  IF node.text # NoText THEN node.text
  ELSE IF node.role \in ContentRoles THEN node.name ELSE NoText

Listed(node) == node.hasRef /\ node.role \notin StructuralRoles

ListedIn(tree) == {i \in DOMAIN tree : Listed(tree[i])}

(* How many members of a set of positions are before i, and the member     *)
(* with k - 1 before it.                                                   *)
Before(S, i) == Cardinality({j \in S : j < i})
Nth(S, k)    == CHOOSE i \in S : Before(S, i) = k - 1

(* build_elements: every ref-bearing, non-structural node, in tree order;  *)
(* `at` is the node the element was built from.                            *)
ElementsOf(tree) ==
  [k \in 1..Cardinality(ListedIn(tree)) |->
     LET i == Nth(ListedIn(tree), k)
     IN  [role |-> tree[i].role, name |-> tree[i].name, value |-> ValueFor(tree[i]),
          enabled |-> tree[i].enabled, context |-> ContextHint(tree, i), at |-> i]]

------------------------------------------------------------------------------
(* Semantic queries *)

(* derive_semantic_target: the name of a content role is its value, and is *)
(* left out.                                                               *)
SemanticTarget(e) ==
  [role |-> e.role, context |-> e.context,
   name |-> IF e.role \in ContentRoles THEN NoText ELSE e.name]

(* find, asked with a SemanticTarget: what the target leaves out matches   *)
(* anything.                                                               *)
Found(elements, target) ==
  {k \in DOMAIN elements :
     /\ elements[k].role = target.role
     /\ target.role \notin ContentRoles => elements[k].name = target.name
     /\ target.context # <<>> => elements[k].context = target.context}

IdentityMatches(elements, target) == Cardinality(Found(elements, target))

------------------------------------------------------------------------------
(* Refs *)

(* What get_by_role(role, name, exact) matches; without a name, every      *)
(* element of the role.                                                    *)
Alike(role, name, e) == e.role = role /\ (name # NoText => e.name = name)

(* Seeded fault of RecipeOf: an unnamed element is counted among the       *)
(* unnamed ones only.                                                      *)
CountsSameName(elements, k) ==
  LET e == elements[k]
  IN  [role |-> e.role, name |-> e.name,
       ordinal |-> Cardinality({j \in 1..(k - 1) : elements[j].role = e.role
                                                   /\ elements[j].name = e.name})]

(* _build_ref_map: how to find an element again.                           *)
RecipeOf(elements, k) ==
  LET e == elements[k]
  IN  [role |-> e.role, name |-> e.name,
       ordinal |-> Cardinality({j \in 1..(k - 1) : Alike(e.role, e.name, elements[j])})]

(* _resolve: get_by_role(...).nth(ordinal) over the nodes of a live tree;  *)
(* empty when there is no such element.                                    *)
Relocated(tree, recipe) ==
  {i \in DOMAIN tree :
     /\ Alike(recipe.role, recipe.name, tree[i])
     /\ Cardinality({j \in 1..(i - 1) : Alike(recipe.role, recipe.name, tree[j])})
          = recipe.ordinal}
=============================================================================
