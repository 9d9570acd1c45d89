--------------------------- MODULE CatalogFilters ---------------------------
(***************************************************************************)
(* What a filtered category page shows: the query string of GET /c/{slug}  *)
(* is turned into filter conditions (crates/web/src/routes/category.rs,    *)
(* build_filter_conds) and those into SQL over product_projection and      *)
(* product_attr_index (crates/catalog/src/search.rs, push_where).          *)
(*                                                                         *)
(* A parameter is a name and a value as typed: a text, a number, or        *)
(* something that is no number.  Names are put together from the id of an  *)
(* attribute and a suffix: an id is a sequence of parts.  Numbers, typed   *)
(* or in the index, are decimal fractions, given in parts of 1/One; bounds *)
(* of a price are typed in major units, prices are in minor ones.          *)
(***************************************************************************)
EXTENDS Integers, Sequences, FiniteSets

CONSTANTS
  Products,
  Attributes,  \* ids of the attributes of the category, each with a filter
  Texts, Numbers, Prices,
  One,         \* the parts of a number that make 1
  HalvesUp,    \* the bounds half way between two minor units that f64 rounds up
  None,
  Junk,        \* a value that is no number and no text of the index
  MaxParams    \* bound: parameters of a query string

FilterTypes == {"checkbox_or", "enum_and", "range_generic", "range_price",
                "string", "number"}

(* A row of product_attr_index has a text or a number. *)
AttrValues == Texts \cup Numbers

(* The fields of the form: values of an attribute, its bounds, and those of the
   price. *)
Fields == ({"attr", "min", "max"} \X Attributes) \cup {<<"price_min">>, <<"price_max">>}

Inputs == Fields \X (AttrValues \cup {Junk})

ASSUME FilterAssumption ==
  /\ Attributes \subseteq Seq(STRING)
  /\ Numbers \cup Prices \subseteq Int
  /\ One \in Nat \ {0}
  /\ None \notin AttrValues \cup {Junk}
  /\ (Texts \cup {None}) \cap Int = {}

VARIABLES
  filters,  \* filters[a]: filter_type of the filter on a
  price,    \* price[p]: price_minor
  index,    \* index[p][a]: the row of product_attr_index, or None
  onSale,   \* the products with status 'published'
  asked,    \* what was typed into the form, in the order it is sent
  shown     \* the products its page lists

vars == <<filters, price, index, onSale, asked, shown>>

-----------------------------------------------------------------------------
(* category.rs: parameters. *)

(* The name of a field, in the form and in filter_cond_for alike. *)
Name(field) ==
  CASE field[1] = "attr" -> <<"attr_">> \o field[2]
    [] field[1] = "min"  -> <<"attr_">> \o field[2] \o <<"_min">>
    [] field[1] = "max"  -> <<"attr_">> \o field[2] \o <<"_max">>
    [] OTHER             -> <<field[1]>>

(* The query string a browser makes of the form: `raw` of the handler. *)
QueryString == [i \in DOMAIN asked |-> <<Name(asked[i][1]), asked[i][2]>>]

(* The parameters of a name, which may be repeated, by their places. *)
PlacesOf(params, name) == {i \in DOMAIN params : params[i][1] = name}

(* values_for, as the set of its values. *)
ValuesFor(params, name) == {params[i][2] : i \in PlacesOf(params, name)}

(* parsed_f64: the first value of the name, if it is a number. *)
ParsedNumber(params, name) ==
  LET places == PlacesOf(params, name)
      first == {i \in places : \A j \in places : i <= j}
      numbers == {params[i][2] : i \in first} \cap Numbers
  IN  IF numbers = {} THEN None ELSE CHOOSE n \in numbers : TRUE

(* checkbox_values: a list, as its set and its length. *)
CheckboxCond(params, type, a) ==
  LET places == PlacesOf(params, Name(<<"attr", a>>))
  IN  IF places = {} THEN {}
      ELSE {[type |-> type, attribute |-> a,
             values |-> ValuesFor(params, Name(<<"attr", a>>)),
             length |-> Cardinality(places)]}

(* range_bounds; without a bound there is no condition. *)
RangeCond(params, type, a, minField, maxField) ==
  LET min == ParsedNumber(params, Name(minField))
      max == ParsedNumber(params, Name(maxField))
  IN  IF min = None /\ max = None THEN {}
      ELSE {[type |-> type, attribute |-> a, min |-> min, max |-> max]}

(* Mutant: the cast cuts the fraction off. *)
MajorToMinor_Truncated(major) == (major * 100) \div One

(* major_to_minor: times 100 and rounded to the nearest whole.  Half way, it
   depends on the nearest binary fraction: 0.015 gives 2, and 1.005 gives 100. *)
MajorToMinor(major) ==
  LET whole == (major * 100) \div One
      rest  == (major * 100) % One
  IN  IF 2 * rest > One \/ (2 * rest = One /\ major \in HalvesUp) THEN whole + 1 ELSE whole

MinorBound(bound) == IF bound = None THEN None ELSE MajorToMinor(bound)

(* The same for a price, in minor units. *)
PriceCond(params, a) ==
  {[type |-> "range_price", attribute |-> a,
    min |-> MinorBound(typed.min), max |-> MinorBound(typed.max)] :
     typed \in RangeCond(params, "range_price", a, <<"price_min">>, <<"price_max">>)}

(* filter_cond_for, as a set of at most one condition: 'string' and 'number'
   have none yet. *)
FilterCondFor(params, a) ==
  CASE filters[a] \in {"checkbox_or", "enum_and"} ->
         CheckboxCond(params, filters[a], a)
    [] filters[a] = "range_generic" ->
         RangeCond(params, "range_generic", a, <<"min", a>>, <<"max", a>>)
    [] filters[a] = "range_price" -> PriceCond(params, a)
    [] OTHER -> {}

BuildFilterConds(params) == UNION {FilterCondFor(params, a) : a \in Attributes}

-----------------------------------------------------------------------------
(* search.rs: conditions. *)

(* A bound that is absent holds; NULL is in no range. *)
Between(n, min, max) ==
  /\ n \in Int
  /\ min # None => n >= min
  /\ max # None => n <= max

(* val_text of the row of p; a number has none. *)
IndexText(p, a) == {index[p][a]} \cap Texts

(* push_filter_cond: whether p satisfies the subquery of the condition.  The
   HAVING of enum_and compares the distinct values found with the length of
   the list asked for. *)
PushFilterCond(p, cond) ==
  CASE cond.type = "checkbox_or" ->
         IndexText(p, cond.attribute) \cap cond.values # {}
    [] cond.type = "enum_and" ->
         Cardinality(IndexText(p, cond.attribute) \cap cond.values) = cond.length
    [] cond.type = "range_generic" ->
         index[p][cond.attribute] \in Numbers
         /\ Between(index[p][cond.attribute], cond.min, cond.max)
    [] cond.type = "range_price" -> Between(price[p], cond.min, cond.max)

(* A product is in a category by having a value of one of its attributes. *)
InCategory(p) == \E a \in Attributes : index[p][a] # None

(* push_where *)
Search(conds) ==
  {p \in onSale : InCategory(p) /\ \A cond \in conds : PushFilterCond(p, cond)}

-----------------------------------------------------------------------------
Init ==
  /\ filters \in [Attributes -> FilterTypes]
  /\ price \in [Products -> Prices]
  /\ index \in [Products -> [Attributes -> AttrValues \cup {None}]]
  /\ onSale \in SUBSET Products
  /\ asked = << >>
  /\ shown = Search({})

(* A value is typed or ticked, in a field of the form or in one an old link still
   has, and the page is requested. *)
Request(input) ==
  /\ Len(asked) < MaxParams
  /\ asked' = Append(asked, input)
  /\ shown' = Search(BuildFilterConds(QueryString'))
  /\ UNCHANGED <<filters, price, index, onSale>>

Next == \E input \in Inputs : Request(input)

Spec == Init /\ [][Next]_vars

-----------------------------------------------------------------------------
Typed(field) == ValuesFor(asked, field)

TypedNumber(field) == ParsedNumber(asked, field)

(* The first value typed for a bound, if it is a number, is respected. *)
Respected(n, minField, maxField) ==
  /\ n \in Int
  /\ TypedNumber(minField) \in Numbers => TypedNumber(minField) <= n
  /\ TypedNumber(maxField) \in Numbers => n <= TypedNumber(maxField)

(* By how much a price exceeds a bound in major units; One is half a minor unit. *)
Excess(n, major) == 2 * (n * One - 100 * major)

(* The same of a price, which may be beyond a bound by no more than the slack. *)
PriceRespected(n, slack) ==
  /\ TypedNumber(<<"price_min">>) \in Numbers => -slack <= Excess(n, TypedNumber(<<"price_min">>))
  /\ TypedNumber(<<"price_max">>) \in Numbers => Excess(n, TypedNumber(<<"price_max">>)) <= slack

(* What the filters promise (catalog/src/lib.rs:33-62, category.rs:5-13): one of
   the texts that are ticked, all of them, a number between the bounds, a price
   between the bounds in major units. *)
Satisfies(p, a, slack) ==
  CASE filters[a] = "checkbox_or" ->
         Typed(<<"attr", a>>) # {} => index[p][a] \in Typed(<<"attr", a>>) \cap Texts
    [] filters[a] = "enum_and" ->
         \A v \in Typed(<<"attr", a>>) : v \in Texts /\ index[p][a] = v
    [] filters[a] = "range_generic" ->
         (\E k \in {"min", "max"} : TypedNumber(<<k, a>>) \in Numbers)
           => Respected(index[p][a], <<"min", a>>, <<"max", a>>)
    [] filters[a] = "range_price" -> PriceRespected(price[p], slack)
    [] OTHER -> TRUE

Wanted(slack) ==
  {p \in onSale : InCategory(p) /\ \A a \in Attributes : Satisfies(p, a, slack)}

(* The fields the filter on a reads. *)
FieldsOf(a) ==
  CASE filters[a] \in {"checkbox_or", "enum_and"} -> {<<"attr", a>>}
    [] filters[a] = "range_generic" -> {<<"min", a>>, <<"max", a>>}
    [] filters[a] = "range_price" -> {<<"price_min">>, <<"price_max">>}
    [] OTHER -> {}

(* A field that was filled in has the name of another one that is read: that of
   the minimum of "x" and the values of "x_min". *)
NamesClash ==
  \E i \in DOMAIN asked : \E a \in Attributes : \E field \in FieldsOf(a) :
    field # asked[i][1] /\ Name(field) = Name(asked[i][1])

(* A value of an enum_and filter is asked for twice. *)
AskedTwice ==
  \E a \in Attributes : filters[a] = "enum_and" /\
    \E i, j \in PlacesOf(asked, <<"attr", a>>) : i # j /\ asked[i] = asked[j]

(* Whatever is typed, twice, not at all, or unreadably, and whatever the types of
   the filters: the page lists no product that does not satisfy every filter, and
   all that do, unless a value of an enum_and filter is asked for twice.  Prices
   are held against the bounds as typed: exactly if these are whole minor units,
   else to the nearest one (the two slacks differ in what is just half way). *)
FiltersMeanWhatTheySay ==
  ~ NamesClash =>
    /\ shown \subseteq Wanted(One)
    /\ ~ AskedTwice => Wanted(One - 1) \subseteq shown
=============================================================================
