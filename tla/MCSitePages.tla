---------------------------- MODULE MCSitePages -----------------------------
(***************************************************************************)
(* ListingPages and Taxonomy for TLC.  The sitemap reads first the one and *)
(* then the other, as does the category page; they share no table and no   *)
(* variable, so each is checked with the other at rest.                    *)
(***************************************************************************)
EXTENDS ListingPages, Taxonomy

ListingAtRest ==
  /\ reader = "visitor"
  /\ at = "done"
  /\ listing = {} /\ throughout = {}
  /\ offset = 0 /\ total = 0
  /\ entered = 0 /\ left = 0
  /\ seen = [p \in Products |-> 0]

TaxonomyAtRest ==
  /\ categories = [c \in Categories |-> None]
  /\ attributes = [a \in Attributes |-> None]
  /\ filters = {}
  /\ asked = "nothing"
  /\ request = [at |-> "idle"]

SiteInit ==
  \/ Init /\ TaxonomyAtRest
  \/ TaxonomyInit /\ ListingAtRest

SiteNext ==
  \/ Next /\ UNCHANGED taxonomyVars
  \/ TaxonomyNext /\ UNCHANGED vars

(* The request is polled until it is done; administrators and sellers need do
   nothing. *)
SiteSpec ==
  /\ SiteInit
  /\ [][SiteNext]_<<vars, taxonomyVars>>
  /\ WF_<<vars, taxonomyVars>>(Read /\ UNCHANGED taxonomyVars)
  /\ WF_<<vars, taxonomyVars>>(RequestStep /\ UNCHANGED vars)
=============================================================================
