-------------------------- MODULE MCCatalogFilters --------------------------
(* Filters constrain each product by itself: one product.  Two attributes, whose
   names clash for some types of their filters.  Numbers are in thousandths: one
   that is a whole minor unit (0.01), one half way (0.015) and one beyond it. *)
EXTENDS CatalogFilters

MCAttributes == {<<"size">>, <<"size", "_min">>}
=============================================================================
