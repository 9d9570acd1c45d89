---------------------------- MODULE ListingPages ----------------------------
(***************************************************************************)
(* Reading a listing page by page while sellers change the catalog:        *)
(* the sitemap (crates/web/src/routes/sitemap.rs, product_paths) and a     *)
(* visitor who follows the links "next" of a category                      *)
(* (crates/web/src/routes/category.rs), both over CatalogSearch::search    *)
(* (crates/catalog/src/search.rs), which counts in one query and reads the *)
(* page in another.                                                        *)
(*                                                                         *)
(* A product is its rank in the order of the listing (created_at DESC,     *)
(* id ASC), which never changes; the listing is the set of ranks that      *)
(* match.  Which products match is the business of CatalogFilters.         *)
(***************************************************************************)
EXTENDS Naturals, FiniteSets

CONSTANTS
  NumProducts,
  Limit,       \* MAX_LIMIT for the sitemap, DEFAULT_LIMIT for a category
  MaxChanges   \* bound: products that enter or leave the listing

Products == 1 .. NumProducts

ASSUME ListingAssumption ==
  /\ NumProducts \in Nat
  /\ Limit \in Nat \ {0}
  /\ MaxChanges \in Nat

VARIABLES
  reader,    \* who reads: "sitemap" or "visitor"
  listing,   \* the products that match now
  at,        \* "count", "select" or "done"
  offset,    \* of the page being read
  total,     \* SearchResult::total of that page
  seen,      \* seen[p]: how often the reader was given p
  entered,   \* history: products that entered the listing since Init
  left,      \* history: products that left it since Init
  throughout \* history: products that were in the listing all the time

readerVars == <<at, offset, total, seen>>
vars == <<reader, listing, readerVars, entered, left, throughout>>

Init ==
  /\ reader \in {"sitemap", "visitor"}
  /\ listing \in SUBSET Products
  /\ at = "count"
  /\ offset = 0
  /\ total = 0
  /\ seen = [p \in Products |-> 0]
  /\ entered = 0
  /\ left = 0
  /\ throughout = listing

-----------------------------------------------------------------------------
(* What the relay makes of the sellers' changes. *)
Enter(p) ==
  /\ at # "done"
  /\ entered + left < MaxChanges
  /\ p \notin listing
  /\ listing' = listing \cup {p}
  /\ entered' = entered + 1
  /\ UNCHANGED <<reader, readerVars, left, throughout>>

Leave(p) ==
  /\ at # "done"
  /\ entered + left < MaxChanges
  /\ p \in listing
  /\ listing' = listing \ {p}
  /\ left' = left + 1
  /\ throughout' = throughout \ {p}
  /\ UNCHANGED <<reader, readerVars, entered>>

-----------------------------------------------------------------------------
(* ORDER BY ... LIMIT limit OFFSET from *)
Page(from) ==
  {p \in listing : Cardinality({q \in listing : q < p}) \in from .. from + Limit - 1}

(* count_results; nothing more is read when nothing matches. *)
Count ==
  /\ at = "count"
  /\ total' = Cardinality(listing)
  /\ at' = IF listing = {} THEN "done" ELSE "select"
  /\ UNCHANGED <<reader, listing, offset, seen, entered, left, throughout>>

(* Bound: how often a product was given is counted no further than this, which
   is more than the changes allow. *)
MaxSeen == MaxChanges + 2

(* The items of the page are added to what the reader has. *)
Give(items) ==
  seen' = [p \in Products |->
             IF p \in items /\ seen[p] < MaxSeen THEN seen[p] + 1 ELSE seen[p]]

(* Mutant: the next page begins with the last product of this one. *)
NextOffset_Overlap == offset + Limit - 1

(* Mutant: the offset is not advanced. *)
NextOffset_Stays == offset

NextOffset == offset + Limit

(* Mutant: only an empty page ends the loop. *)
SitemapGoesOn_TillEmpty(items) == items # {}

(* product_paths: an empty page ends the loop, and so does an offset at the
   end. *)
SitemapGoesOn(items) == items # {} /\ NextOffset < total

(* Mutant: "next" is offered only when the next page is full. *)
HasNext_FullPage(items) == items # {} /\ offset + Cardinality(items) + Limit <= total

(* has_next; an empty page shows no links at all. *)
HasNext(items) == items # {} /\ offset + Cardinality(items) < total

Select ==
  LET items == Page(offset) IN
  /\ at = "select"
  /\ Give(items)
  /\ \/ /\ \/ reader = "sitemap" /\ SitemapGoesOn(items)
           \/ reader = "visitor" /\ HasNext(items)
        /\ at' = "count"
        /\ offset' = NextOffset
     \/ /\ \/ reader = "sitemap" /\ ~ SitemapGoesOn(items)
           \/ reader = "visitor" /\ ~ HasNext(items)
        /\ at' = "done"
        /\ UNCHANGED offset
  /\ UNCHANGED <<reader, listing, total, entered, left, throughout>>

Read == Count \/ Select

Next ==
  \/ \E p \in Products : Enter(p) \/ Leave(p)
  \/ Read

Spec == Init /\ [][Next]_vars

(* The reader's task is polled until it is done; sellers need do nothing. *)
FairSpec == Spec /\ WF_vars(Read)

-----------------------------------------------------------------------------
(* Types; the sitemap never asks for a page beyond the products there are. *)
TypeOK ==
  /\ reader \in {"sitemap", "visitor"}
  /\ listing \subseteq Products
  /\ at \in {"count", "select", "done"}
  /\ offset \in Nat
  /\ reader = "sitemap" => offset <= NumProducts
  /\ total \in 0 .. NumProducts
  /\ seen \in [Products -> 0 .. MaxSeen]
  /\ entered + left \in 0 .. MaxChanges
  /\ throughout \subseteq listing

(* Each change of the catalog costs the reader at most one product: those that
   were listed all the time and that it was not given are at most as many as
   the changes since it began, although it counts in one query and reads in
   another. *)
MissesAreChanges ==
  at = "done" =>
    Cardinality({p \in throughout : seen[p] = 0}) <= entered + left

(* A product is repeated only as often as others entered the listing, or came
   back to it: one that leaves only pulls the rest forward. *)
RepeatsAreEntries == \A p \in Products : seen[p] <= 1 + entered

(* The loop of product_paths and the chain of "next" links come to an end. *)
ReadingEnds == <>(at = "done")
=============================================================================
