------------------------------ MODULE Taxonomy ------------------------------
(***************************************************************************)
(* The taxonomy of catalog.db (crates/catalog/src/repository.rs) and the   *)
(* two requests that read it in several queries while it grows: the walk   *)
(* over the category tree of /sitemap.xml, and the category page.          *)
(*                                                                         *)
(* Names, positions and paths are left out: siblings come in any order,    *)
(* and of the categories with one slug the page gets any.                  *)
(* No operator is named Init, Next, Spec or TypeOK, so that a module can   *)
(* extend this one beside another specification.                           *)
(***************************************************************************)
EXTENDS Naturals, FiniteSets, Sequences, SequencesExt

CONSTANTS
  Categories, Slugs, Attributes,
  FilterTypes,       \* "price", "options" (all that need their attribute), "text"
  MaxPageCategories, \* bound: categories there are when a page is asked for
  None

ASSUME TaxonomyAssumption ==
  /\ IsFiniteSet(Categories)
  /\ FilterTypes \subseteq {"price", "options", "text"}
  /\ None \notin Categories
  /\ None \notin [parent : Categories \cup {None}, slug : Slugs]

VARIABLES
  categories,  \* categories[c]: [parent, slug], or None
  attributes,  \* attributes[a]: the category of attribute a, or None
  filters,     \* rows [category, attribute, type]
  asked,       \* the request of this behaviour: "sitemap", "page" or "nothing"
  request      \* how far it is

tableVars == <<categories, attributes, filters>>
taxonomyVars == <<tableVars, asked, request>>

Known(c) == categories[c] # None

KnownCategories == {c \in Categories : Known(c)}

TaxonomyInit ==
  /\ categories = [c \in Categories |-> None]
  /\ attributes = [a \in Attributes |-> None]
  /\ filters = {}
  /\ asked \in {"sitemap", "page"}
  /\ request = [at |-> "idle"]

-----------------------------------------------------------------------------
(* Writes of TaxonomyRepo; a constraint that refuses one changes nothing. *)

(* Mutant: UNIQUE (parent_id, slug), for which two NULLs differ. *)
SlugTaken_NullsDiffer(parent, slug) ==
  parent # None /\ [parent |-> parent, slug |-> slug] \in {categories[c] : c \in KnownCategories}

(* categories_parent_slug, with COALESCE *)
SlugTaken(parent, slug) ==
  [parent |-> parent, slug |-> slug] \in {categories[c] : c \in KnownCategories}

(* create_category; SQLite takes a row that is its own parent. *)
CreateCategory(c, parent, slug) ==
  /\ \/ asked = "sitemap"
     \/ asked = "page" /\ Cardinality(KnownCategories) < MaxPageCategories
  /\ ~ Known(c)
  /\ parent \in KnownCategories \cup {None, c}
  /\ ~ SlugTaken(parent, slug)
  /\ categories' = [categories EXCEPT ![c] = [parent |-> parent, slug |-> slug]]
  /\ UNCHANGED <<attributes, filters, asked, request>>

(* create_attribute; bound: the sitemap reads no attribute, and none is
   created beside it. *)
CreateAttribute(a, c) ==
  /\ asked = "page"
  /\ attributes[a] = None
  /\ Known(c)
  /\ attributes' = [attributes EXCEPT ![a] = c]
  /\ UNCHANGED <<categories, filters, asked, request>>

(* Mutant: attribute_id refers to nothing. *)
FilterAllowed_AnyAttribute(c, a) ==
  /\ Known(c)
  /\ \A f \in filters : <<f.category, f.attribute>> # <<c, a>>

(* The foreign keys of filters and UNIQUE (category_id, attribute_id); the
   attribute may be one of another category. *)
FilterAllowed(c, a) ==
  /\ Known(c)
  /\ attributes[a] # None
  /\ \A f \in filters : <<f.category, f.attribute>> # <<c, a>>

(* create_filter *)
CreateFilter(c, a, type) ==
  /\ asked = "page"
  /\ FilterAllowed(c, a)
  /\ filters' = filters \cup {[category |-> c, attribute |-> a, type |-> type]}
  /\ UNCHANGED <<categories, attributes, asked, request>>

-----------------------------------------------------------------------------
(* category_paths of the sitemap; `start` is history. *)

BeginWalk ==
  /\ asked = "sitemap"
  /\ request.at = "idle"
  /\ request' = [at |-> "walk", queue |-> <<None>>, listed |-> << >>,
                 start |-> KnownCategories]
  /\ UNCHANGED <<tableVars, asked>>

Children(parent) == {c \in KnownCategories : categories[c].parent = parent}

(* Mutant: what was waiting in the queue is forgotten. *)
Requeue_Replace(queue, children) == children

(* Mutant: the parent is taken off the queue only if it has children. *)
Requeue_Peek(queue, children) ==
  IF children = << >> THEN queue ELSE Tail(queue) \o children

(* pop_front, then push_back of each child *)
Requeue(queue, children) == Tail(queue) \o children

(* One turn of the loop, with one query. *)
WalkStep ==
  /\ request.at = "walk"
  /\ request.queue # << >>
  /\ \E children \in SetToSeqs(Children(Head(request.queue))) :
       request' = [request EXCEPT !.queue = Requeue(@, children),
                                  !.listed = @ \o children]
  /\ UNCHANGED <<tableVars, asked>>

WalkDone ==
  /\ request.at = "walk"
  /\ request.queue = << >>
  /\ request' = [request EXCEPT !.at = "walked"]
  /\ UNCHANGED <<tableVars, asked>>

-----------------------------------------------------------------------------
(* The category page, one query after the other; the search between filters
   and attributes is the subject of ListingPages. *)

BeginPage(slug) ==
  /\ asked = "page"
  /\ request.at = "idle"
  /\ request' = [at |-> "category", slug |-> slug,
                 start |-> {c \in KnownCategories : categories[c].slug = slug}]
  /\ UNCHANGED <<tableVars, asked>>

(* get_category_by_slug *)
FindCategory ==
  LET found == {c \in KnownCategories : categories[c].slug = request.slug} IN
  /\ request.at = "category"
  /\ \/ /\ found = {}
        /\ request' = [at |-> "not found", start |-> request.start]
     \/ \E c \in found :
          request' = [at |-> IF categories[c].parent = None THEN "filters" ELSE "parent",
                      category |-> c, crumb |-> None]
  /\ UNCHANGED <<tableVars, asked>>

(* get_category of the parent, if it is found *)
FindParent ==
  LET parent == categories[request.category].parent IN
  /\ request.at = "parent"
  /\ request' = [request EXCEPT !.at = "filters",
                                !.crumb = IF Known(parent) THEN parent ELSE None]
  /\ UNCHANGED <<tableVars, asked>>

(* filter_cond_for gives the types string and number no condition. *)
Applies(f) == f.type # "text"

(* list_filters_by_category; the search then applies them, and a category
   without filters has no form. *)
ListFilters ==
  LET own == {f \in filters : f.category = request.category} IN
  /\ request.at = "filters"
  /\ request' = [at |-> IF own = {} THEN "shown" ELSE "form",
                 category |-> request.category, crumb |-> request.crumb,
                 filters |-> own, fields |-> {}]
  /\ UNCHANGED <<tableVars, asked>>

(* render_filter_form: string and number have no field, nor has a filter other
   than that of the price whose attribute was not found. *)
HasField(f, found) == f.type = "price" \/ (f.type = "options" /\ f.attribute \in found)

(* list_attributes_by_category, and the form *)
RenderForm ==
  LET found == {a \in Attributes : attributes[a] = request.category} IN
  /\ request.at = "form"
  /\ request' = [request EXCEPT !.at = "shown",
                                !.fields = {f \in request.filters : HasField(f, found)}]
  /\ UNCHANGED <<tableVars, asked>>

RequestStep ==
  \/ WalkStep \/ WalkDone
  \/ FindCategory \/ FindParent \/ ListFilters \/ RenderForm

TaxonomyNext ==
  \/ \E c \in Categories, slug \in Slugs :
       \E parent \in Categories \cup {None} : CreateCategory(c, parent, slug)
  \/ \E a \in Attributes, c \in Categories :
       \/ CreateAttribute(a, c)
       \/ \E type \in FilterTypes : CreateFilter(c, a, type)
  \/ BeginWalk
  \/ \E slug \in Slugs : BeginPage(slug)
  \/ RequestStep

TaxonomySpec == TaxonomyInit /\ [][TaxonomyNext]_taxonomyVars

-----------------------------------------------------------------------------
(* Types, foreign keys, and the unique slugs of siblings, roots included. *)
TaxonomyTypeOK ==
  /\ categories \in
       [Categories -> [parent : KnownCategories \cup {None}, slug : Slugs] \cup {None}]
  /\ attributes \in [Attributes -> KnownCategories \cup {None}]
  /\ \A c, d \in KnownCategories : categories[c] = categories[d] => c = d
  /\ filters \subseteq [category : KnownCategories, attribute : Attributes, type : FilterTypes]
  /\ \A f, g \in filters :
       f.category = g.category /\ f.attribute = g.attribute => f = g

(* The categories a chain of parents connects with a root: those in every set
   that has the roots and, with a category, its children. *)
Rooted ==
  {c \in KnownCategories :
     \A S \in SUBSET KnownCategories :
       (\A d \in KnownCategories :
          categories[d].parent \in S \cup {None} => d \in S) => c \in S}

(* "The full tree, breadth first from the roots" (sitemap.rs:55), although
   every level is read by queries of its own while categories are created:
   what hung on a root when the walk began is listed, nothing is listed twice,
   and no category before its parent. *)
TreeIsListedOnce ==
  request.at = "walked" =>
    LET listed == ToSet(request.listed) IN
      /\ IsInjective(request.listed)
      /\ {c \in request.start : c \in Rooted} \subseteq listed
      /\ \A n \in DOMAIN request.listed :
           LET parent == categories[request.listed[n]].parent IN
             parent # None => \E m \in 1 .. n - 1 : request.listed[m] = parent

(* A category that was there when it was asked for is found.  A page that is
   shown has the parent in its breadcrumbs, and every filter the search applies
   has a field in the form, unless it names an attribute of another category:
   the filters are read before the attributes, the other order would lose
   fields. *)
PageIsWhole ==
  /\ request.at = "not found" => request.start = {}
  /\ request.at = "shown" =>
       /\ request.crumb = categories[request.category].parent
       /\ \A f \in request.filters :
            Applies(f) /\ attributes[f.attribute] = request.category => f \in request.fields

(* The walk and the page end, however the taxonomy grows meanwhile. *)
RequestsEnd ==
  request.at # "idle" ~> request.at \in {"walked", "not found", "shown"}
=============================================================================
