------------------------ MODULE CatalogFilters_proofs ------------------------
(***************************************************************************)
(* A theorem about CatalogFilters for any category, catalog and query      *)
(* string of any length, and decimals of any precision.                    *)
(***************************************************************************)
EXTENDS CatalogFilters, FiniteSetTheorems, TLAPS

(* What the page was asked for and what it lists fit together. *)
PageOK ==
  /\ filters \in [Attributes -> FilterTypes]
  /\ price \in [Products -> Prices]
  /\ index \in [Products -> [Attributes -> AttrValues \cup {None}]]
  /\ onSale \in SUBSET Products
  /\ asked \in Seq(Inputs)
  /\ shown = Search(BuildFilterConds(QueryString))

(* A query string without parameters asks for nothing. *)
LEMMA NothingAsked == BuildFilterConds(<< >>) = {}
<1>1. \A name : PlacesOf(<< >>, name) = {}
  BY DEF PlacesOf
<1>2. \A name : ParsedNumber(<< >>, name) = None
  BY <1>1 DEF ParsedNumber
<1>3. \A a \in Attributes : FilterCondFor(<< >>, a) = {}
  <2> SUFFICES ASSUME NEW a \in Attributes PROVE FilterCondFor(<< >>, a) = {}
    OBVIOUS
  <2>1. \A type : CheckboxCond(<< >>, type, a) = {}
    BY <1>1 DEF CheckboxCond
  <2>2. \A type, minField, maxField : RangeCond(<< >>, type, a, minField, maxField) = {}
    BY <1>2 DEF RangeCond
  <2>3. PriceCond(<< >>, a) = {}
    BY <2>2 DEF PriceCond
  <2> QED BY <2>1, <2>2, <2>3 DEF FilterCondFor
<1> QED BY <1>3 DEF BuildFilterConds

(* Every page is the search for its query string. *)
LEMMA PageAlways == Spec => []PageOK
<1>1. Init => PageOK
  <2> SUFFICES ASSUME Init PROVE PageOK
    OBVIOUS
  <2>1. asked = << >> /\ shown = Search({})
    BY DEF Init
  <2>2. QueryString = << >>
    BY <2>1 DEF QueryString
  <2>3. BuildFilterConds(QueryString) = {}
    BY <2>2, NothingAsked
  <2>4. asked \in Seq(Inputs)
    BY <2>1
  <2> QED BY <2>1, <2>3, <2>4 DEF Init, PageOK
<1>2. PageOK /\ [Next]_vars => PageOK'
  <2> SUFFICES ASSUME PageOK, [Next]_vars PROVE PageOK'
    OBVIOUS
  <2>1. CASE UNCHANGED vars
    BY <2>1 DEF vars, PageOK, Search, BuildFilterConds, FilterCondFor, PushFilterCond, InCategory,
                IndexText, QueryString
  <2>2. ASSUME NEW input \in Inputs, Request(input)
        PROVE  PageOK'
    <3>1. /\ asked' = Append(asked, input) /\ shown' = Search(BuildFilterConds(QueryString'))
          /\ UNCHANGED <<filters, price, index, onSale>>
      BY <2>2 DEF Request
    <3>2. asked' \in Seq(Inputs)
      BY <3>1 DEF PageOK
    <3>3. shown' = Search(BuildFilterConds(QueryString))'
      BY <3>1 DEF Search, BuildFilterConds, FilterCondFor, PushFilterCond, InCategory, IndexText
    <3> QED BY <3>1, <3>2, <3>3 DEF PageOK
  <2> QED BY <2>1, <2>2 DEF Next
<1> QED BY <1>1, <1>2, PTL DEF Spec

-----------------------------------------------------------------------------
(* Unless names clash, a filter reads what was typed into its own fields. *)
LEMMA OwnFields ==
  ASSUME PageOK, ~ NamesClash, NEW a \in Attributes, NEW field \in FieldsOf(a)
  PROVE  /\ PlacesOf(QueryString, Name(field)) = PlacesOf(asked, field)
         /\ ValuesFor(QueryString, Name(field)) = ValuesFor(asked, field)
         /\ ParsedNumber(QueryString, Name(field)) = ParsedNumber(asked, field)
<1>1. PICK name : name = Name(field)
  OBVIOUS
<1>2. /\ DOMAIN QueryString = DOMAIN asked
      /\ \A i \in DOMAIN asked :
           QueryString[i][1] = Name(asked[i][1]) /\ QueryString[i][2] = asked[i][2]
  BY DEF QueryString
<1>3. \A i \in DOMAIN asked : Name(asked[i][1]) = name <=> asked[i][1] = field
  BY <1>1 DEF NamesClash
<1>4. PlacesOf(QueryString, name) = PlacesOf(asked, field)
  BY <1>2, <1>3 DEF PlacesOf
<1>5. PlacesOf(asked, field) \subseteq DOMAIN asked
  BY DEF PlacesOf
<1>6. ValuesFor(QueryString, name) = ValuesFor(asked, field)
  BY <1>2, <1>4, <1>5 DEF ValuesFor
<1>7. ParsedNumber(QueryString, name) = ParsedNumber(asked, field)
  <2>1. PICK places, first : /\ places = PlacesOf(asked, field)
                             /\ first = {i \in places : \A j \in places : i <= j}
    OBVIOUS
  <2>2. \A i \in first : QueryString[i][2] = asked[i][2]
    BY <1>2, <1>5, <2>1
  <2>3. {QueryString[i][2] : i \in first} = {asked[i][2] : i \in first}
    BY <2>2
  <2>4. PICK numbers : numbers = {asked[i][2] : i \in first} \cap Numbers
    OBVIOUS
  <2>5. ParsedNumber(asked, field) = IF numbers = {} THEN None ELSE CHOOSE n \in numbers : TRUE
    BY <2>1, <2>4 DEF ParsedNumber
  <2>6. ParsedNumber(QueryString, name)
          = IF numbers = {} THEN None ELSE CHOOSE n \in numbers : TRUE
    BY <1>4, <2>1, <2>3, <2>4 DEF ParsedNumber
  <2> QED BY <2>5, <2>6
<1> QED BY <1>1, <1>4, <1>6, <1>7

-----------------------------------------------------------------------------
(* A bound typed in major units is off by at most half a minor unit. *)
LEMMA RoundingIsNear ==
  ASSUME NEW b \in Int
  PROVE  /\ MajorToMinor(b) \in Int
         /\ -One <= Excess(MajorToMinor(b), b)
         /\ Excess(MajorToMinor(b), b) <= One
<1>1. One \in Nat \ {0}
  BY FilterAssumption
<1>2. PICK whole : whole = (b * 100) \div One
  OBVIOUS
<1>3. PICK rest : rest = (b * 100) % One
  OBVIOUS
<1>4. /\ whole \in Int /\ rest \in Int
      /\ b * 100 = One * whole + rest /\ 0 <= rest /\ rest < One
  BY <1>1, <1>2, <1>3
<1>5. One * (whole + 1) = One * whole + One
  BY <1>1, <1>4
<1>6. PICK part : part = One * whole
  OBVIOUS
<1>7. part \in Int
  BY <1>1, <1>4, <1>6
<1>8. CASE MajorToMinor(b) = whole /\ 2 * rest <= One
  <2>1. Excess(whole, b) = 2 * (whole * One - 100 * b)
    BY DEF Excess
  <2>2. whole * One = part
    BY <1>1, <1>4, <1>6
  <2>3. Excess(whole, b) = -(2 * rest)
    BY <2>1, <2>2, <1>4, <1>6, <1>7
  <2> QED BY <2>3, <1>1, <1>4, <1>8
<1>9. CASE MajorToMinor(b) = whole + 1 /\ 2 * rest >= One
  <2>1. Excess(whole + 1, b) = 2 * ((whole + 1) * One - 100 * b)
    BY DEF Excess
  <2>2. (whole + 1) * One = part + One
    BY <1>1, <1>4, <1>5, <1>6
  <2>3. Excess(whole + 1, b) = 2 * One - 2 * rest
    BY <2>1, <2>2, <1>1, <1>4, <1>6, <1>7
  <2> QED BY <2>3, <1>1, <1>4, <1>9
<1>10. \/ MajorToMinor(b) = whole /\ 2 * rest <= One
       \/ MajorToMinor(b) = whole + 1 /\ 2 * rest >= One
  BY <1>1, <1>2, <1>3, <1>4 DEF MajorToMinor
<1> QED BY <1>8, <1>9, <1>10

(* A price one minor unit higher exceeds a bound by 2 * One more. *)
LEMMA ExcessGrows ==
  ASSUME NEW b \in Int, NEW m \in Int, NEW n \in Int
  PROVE  /\ Excess(m, b) \in Int /\ Excess(n, b) \in Int
         /\ m <= n => Excess(m, b) <= Excess(n, b)
         /\ m < n => Excess(m, b) + 2 * One <= Excess(n, b)
<1>1. One \in Nat \ {0}
  BY FilterAssumption
<1>2. PICK k : k = n - m
  OBVIOUS
<1>3. k \in Int /\ n = m + k
  BY <1>2
<1>4. n * One = m * One + k * One
  BY <1>1, <1>3
<1>5. k >= 0 => k * One >= 0
  BY <1>1, <1>3
<1>6. k >= 1 => k * One >= One
  <2>1. k * One = (k - 1) * One + One
    BY <1>1, <1>3
  <2>2. k >= 1 => (k - 1) * One >= 0
    BY <1>1, <1>3
  <2>3. (k-1)*One \in Int /\ k * One \in Int
    BY <1>1, <1>3
  <2> QED BY <1>1, <2>1, <2>2, <2>3
<1>7. PICK x \in Int, y \in Int, z \in Int : x = m * One /\ y = n * One /\ z = k * One
  BY <1>1, <1>3
<1>8. Excess(m, b) = 2 * (x - 100 * b) /\ Excess(n, b) = 2 * (y - 100 * b)
  BY <1>7 DEF Excess
<1> QED BY <1>1, <1>2, <1>3, <1>4, <1>5, <1>6, <1>7, <1>8

(* What was typed for a bound is a number or not. *)
LEMMA TypedIs ==
  ASSUME NEW field
  PROVE  /\ TypedNumber(field) \in Numbers \cup {None}
         /\ TypedNumber(field) \in Numbers <=> TypedNumber(field) # None
<1>1. None \notin Numbers
  BY FilterAssumption DEF AttrValues
<1> QED BY <1>1 DEF ParsedNumber, TypedNumber

(* The bounds of a range: there is a condition if one is a number. *)
LEMMA RangeCondIs ==
  ASSUME PageOK, ~ NamesClash, NEW type, NEW a \in Attributes,
         NEW minField \in FieldsOf(a), NEW maxField \in FieldsOf(a)
  PROVE  \/ /\ TypedNumber(minField) = None /\ TypedNumber(maxField) = None
            /\ RangeCond(QueryString, type, a, minField, maxField) = {}
         \/ /\ TypedNumber(minField) # None \/ TypedNumber(maxField) # None
            /\ RangeCond(QueryString, type, a, minField, maxField)
                 = {[type |-> type, attribute |-> a,
                     min |-> TypedNumber(minField), max |-> TypedNumber(maxField)]}
<1>1. /\ ParsedNumber(QueryString, Name(minField)) = TypedNumber(minField)
      /\ ParsedNumber(QueryString, Name(maxField)) = TypedNumber(maxField)
  BY OwnFields DEF TypedNumber
<1> QED BY <1>1 DEF RangeCond

(* A range over the index. *)
LEMMA GenericMeans ==
  ASSUME PageOK, ~ NamesClash, NEW slack,
         NEW p \in Products, NEW a \in Attributes, filters[a] = "range_generic"
  PROVE  (\A cond \in FilterCondFor(QueryString, a) : PushFilterCond(p, cond))
           <=> Satisfies(p, a, slack)
<1> DEFINE minField == <<"min", a>>
           maxField == <<"max", a>>
           conds == FilterCondFor(QueryString, a)
<1>1. PICK n, min, max :
        n = index[p][a] /\ min = TypedNumber(minField) /\ max = TypedNumber(maxField)
  OBVIOUS
<1>2. /\ min \in Numbers \cup {None} /\ (min \in Numbers <=> min # None)
      /\ max \in Numbers \cup {None} /\ (max \in Numbers <=> max # None)
      /\ Numbers \subseteq Int
  BY <1>1, TypedIs, FilterAssumption
<1>3. Satisfies(p, a, slack)
        <=> (min # None \/ max # None => Respected(n, minField, maxField))
  BY <1>1, <1>2 DEF Satisfies
<1>4. n \in Numbers <=> n \in Int
  BY <1>1, FilterAssumption DEF PageOK, AttrValues
<1>5. Respected(n, minField, maxField) <=> n \in Numbers /\ Between(n, min, max)
  BY <1>1, <1>2, <1>4 DEF Respected, Between
<1>6. \/ min = None /\ max = None /\ conds = {}
      \/ /\ min # None \/ max # None
         /\ conds = {[type |-> "range_generic", attribute |-> a, min |-> min, max |-> max]}
  <2>1. minField \in FieldsOf(a) /\ maxField \in FieldsOf(a)
    BY DEF FieldsOf
  <2>2. conds = RangeCond(QueryString, "range_generic", a, minField, maxField)
    BY DEF FilterCondFor
  <2> HIDE DEF minField, maxField, conds
  <2> QED BY <1>1, <2>1, <2>2, RangeCondIs
<1>7. PushFilterCond(p, [type |-> "range_generic", attribute |-> a, min |-> min, max |-> max])
        <=> n \in Numbers /\ Between(n, min, max)
  BY <1>1 DEF PushFilterCond
<1> HIDE DEF minField, maxField
<1>8. CASE min = None /\ max = None /\ conds = {}
  BY <1>3, <1>8
<1>9. CASE /\ min # None \/ max # None
           /\ conds = {[type |-> "range_generic", attribute |-> a, min |-> min, max |-> max]}
  <2>1. (\A cond \in conds : PushFilterCond(p, cond))
          <=> PushFilterCond(p, [type |-> "range_generic", attribute |-> a,
                                 min |-> min, max |-> max])
    <3> HIDE DEF conds
    <3> QED BY <1>9
  <2> QED BY <1>3, <1>5, <1>7, <1>9, <2>1
<1> QED BY <1>6, <1>8, <1>9

(* A range of prices, as SQL is given it. *)
LEMMA PriceCondIs ==
  ASSUME PageOK, ~ NamesClash, NEW p \in Products, NEW a \in Attributes,
         filters[a] = "range_price"
  PROVE  (\A cond \in FilterCondFor(QueryString, a) : PushFilterCond(p, cond))
           <=> Between(price[p], MinorBound(TypedNumber(<<"price_min">>)),
                       MinorBound(TypedNumber(<<"price_max">>)))
<1> DEFINE minField == <<"price_min">>
           maxField == <<"price_max">>
           conds == FilterCondFor(QueryString, a)
           typed == RangeCond(QueryString, "range_price", a, minField, maxField)
<1>1. PICK n, min, max :
        n = price[p] /\ min = TypedNumber(minField) /\ max = TypedNumber(maxField)
  OBVIOUS
<1>2. n \in Int
  BY <1>1, FilterAssumption DEF PageOK
<1>3. \/ min = None /\ max = None /\ typed = {}
      \/ /\ min # None \/ max # None
         /\ typed = {[type |-> "range_price", attribute |-> a, min |-> min, max |-> max]}
  <2>1. minField \in FieldsOf(a) /\ maxField \in FieldsOf(a)
    BY DEF FieldsOf
  <2> HIDE DEF minField, maxField
  <2> QED BY <1>1, <2>1, RangeCondIs
<1>4. conds = {[type |-> "range_price", attribute |-> a,
                min |-> MinorBound(cond.min), max |-> MinorBound(cond.max)] : cond \in typed}
  BY DEF FilterCondFor, PriceCond
<1>5. CASE min = None /\ max = None /\ typed = {}
  <2>1. conds = {}
    BY <1>4, <1>5
  <2>2. Between(n, MinorBound(min), MinorBound(max))
    BY <1>2, <1>5 DEF Between, MinorBound
  <2> HIDE DEF minField, maxField, conds
  <2> QED BY <1>1, <2>1, <2>2 DEF minField, maxField, conds
<1>6. CASE typed = {[type |-> "range_price", attribute |-> a, min |-> min, max |-> max]}
  <2>1. PICK minMinor, maxMinor : minMinor = MinorBound(min) /\ maxMinor = MinorBound(max)
    OBVIOUS
  <2>2. conds = {[type |-> "range_price", attribute |-> a, min |-> minMinor, max |-> maxMinor]}
    <3>1. PICK cond :
            cond = [type |-> "range_price", attribute |-> a, min |-> min, max |-> max]
      OBVIOUS
    <3>2. typed = {cond}
      BY <1>6, <3>1
    <3>3. cond.min = min /\ cond.max = max
      BY <3>1
    <3> HIDE DEF typed, conds
    <3> QED BY <1>4, <2>1, <3>2, <3>3
  <2>3. PushFilterCond(p, [type |-> "range_price", attribute |-> a,
                           min |-> minMinor, max |-> maxMinor])
          <=> Between(n, minMinor, maxMinor)
    BY <1>1 DEF PushFilterCond
  <2> HIDE DEF minField, maxField, conds
  <2> QED BY <1>1, <2>1, <2>2, <2>3 DEF minField, maxField, conds
<1> HIDE DEF minField, maxField, conds, typed
<1> QED BY <1>3, <1>5, <1>6

(* A range of prices: no price beyond a bound by more than half a minor unit is in
   it, and every price that is within, or beyond by less, is. *)
LEMMA PriceMeans ==
  ASSUME PageOK, ~ NamesClash, NEW p \in Products, NEW a \in Attributes,
         filters[a] = "range_price"
  PROVE  /\ (\A cond \in FilterCondFor(QueryString, a) : PushFilterCond(p, cond))
              => Satisfies(p, a, One)
         /\ Satisfies(p, a, One - 1)
              => \A cond \in FilterCondFor(QueryString, a) : PushFilterCond(p, cond)
<1>1. PICK n, min, max : /\ n = price[p]
                         /\ min = TypedNumber(<<"price_min">>)
                         /\ max = TypedNumber(<<"price_max">>)
  OBVIOUS
<1>2. /\ min \in Numbers \cup {None} /\ (min \in Numbers <=> min # None)
      /\ max \in Numbers \cup {None} /\ (max \in Numbers <=> max # None)
      /\ Numbers \subseteq Int /\ n \in Int /\ One \in Nat \ {0}
  BY <1>1, TypedIs, FilterAssumption DEF PageOK
<1>3. None \notin Int
  BY FilterAssumption
<1>4. \A slack : Satisfies(p, a, slack) <=> PriceRespected(n, slack)
  BY <1>1 DEF Satisfies
<1>5. \A slack : PriceRespected(n, slack)
        <=> (min # None => -slack <= Excess(n, min)) /\ (max # None => Excess(n, max) <= slack)
  BY <1>1, <1>2 DEF PriceRespected
<1>6. ASSUME NEW b \in Int
      PROVE  /\ Excess(n, b) \in Int
             /\ n >= MajorToMinor(b) => -One <= Excess(n, b)
             /\ n <= MajorToMinor(b) => Excess(n, b) <= One
             /\ -(One - 1) <= Excess(n, b) => n >= MajorToMinor(b)
             /\ Excess(n, b) <= One - 1 => n <= MajorToMinor(b)
  <2>1. PICK k \in Int : /\ k = MajorToMinor(b)
                         /\ -One <= Excess(k, b) /\ Excess(k, b) <= One
    BY RoundingIsNear
  <2>2. Excess(k, b) \in Int /\ Excess(n, b) \in Int
    BY <1>2, ExcessGrows
  <2>3. /\ k <= n => Excess(k, b) <= Excess(n, b)
        /\ n < k => Excess(n, b) + 2 * One <= Excess(k, b)
        /\ n <= k => Excess(n, b) <= Excess(k, b)
        /\ k < n => Excess(k, b) + 2 * One <= Excess(n, b)
    BY <1>2, ExcessGrows
  <2> QED BY <1>2, <2>1, <2>2, <2>3
<1>7. /\ min # None => MinorBound(min) = MajorToMinor(min) /\ MajorToMinor(min) \in Int
      /\ max # None => MinorBound(max) = MajorToMinor(max) /\ MajorToMinor(max) \in Int
      /\ MinorBound(None) = None
  BY <1>2, RoundingIsNear DEF MinorBound
<1>8. Between(n, MinorBound(min), MinorBound(max))
        <=> (min # None => n >= MajorToMinor(min)) /\ (max # None => n <= MajorToMinor(max))
  BY <1>2, <1>3, <1>7 DEF Between
<1>9. Between(n, MinorBound(min), MinorBound(max)) => PriceRespected(n, One)
  BY <1>2, <1>5, <1>6, <1>8
<1>10. PriceRespected(n, One - 1) => Between(n, MinorBound(min), MinorBound(max))
  BY <1>2, <1>5, <1>6, <1>8
<1> QED BY <1>1, <1>4, <1>9, <1>10, PriceCondIs

(* checkbox_or and enum_and: the condition there is, if something was ticked. *)
LEMMA ChecksCondIs ==
  ASSUME PageOK, ~ NamesClash, NEW a \in Attributes, NEW type \in {"checkbox_or", "enum_and"},
         filters[a] = type, NEW field, field = <<"attr", a>>
  PROVE  \/ PlacesOf(asked, field) = {} /\ FilterCondFor(QueryString, a) = {}
         \/ \E cond : /\ PlacesOf(asked, field) # {} /\ FilterCondFor(QueryString, a) = {cond}
                      /\ cond.type = type /\ cond.attribute = a
                      /\ cond.values = Typed(field)
                      /\ cond.length = Cardinality(PlacesOf(asked, field))
<1>1. FilterCondFor(QueryString, a) = CheckboxCond(QueryString, type, a)
  BY DEF FilterCondFor
<1>2. field \in FieldsOf(a)
  BY DEF FieldsOf
<1>3. PICK places, values : places = PlacesOf(asked, field) /\ values = Typed(field)
  OBVIOUS
<1>4. /\ PlacesOf(QueryString, Name(field)) = places
      /\ ValuesFor(QueryString, Name(field)) = values
  BY <1>2, <1>3, OwnFields DEF Typed
<1>5. CASE places = {}
  BY <1>1, <1>3, <1>4, <1>5 DEF CheckboxCond
<1>6. CASE places # {}
  <2>1. PICK cond : cond = [type |-> type, attribute |-> a,
                            values |-> values, length |-> Cardinality(places)]
    OBVIOUS
  <2>2. CheckboxCond(QueryString, type, a) = {cond}
    BY <1>4, <1>6, <2>1 DEF CheckboxCond
  <2>3. /\ cond.type = type /\ cond.attribute = a
        /\ cond.values = values /\ cond.length = Cardinality(places)
    BY <2>1
  <2> QED BY <1>1, <1>3, <1>6, <2>2, <2>3
<1> QED BY <1>5, <1>6

(* One of the values ticked. *)
LEMMA OrMeans ==
  ASSUME PageOK, ~ NamesClash, NEW slack,
         NEW p \in Products, NEW a \in Attributes, filters[a] = "checkbox_or"
  PROVE  (\A cond \in FilterCondFor(QueryString, a) : PushFilterCond(p, cond))
           <=> Satisfies(p, a, slack)
<1>1. PICK field : field = <<"attr", a>>
  OBVIOUS
<1>2. PICK conds : conds = FilterCondFor(QueryString, a)
  OBVIOUS
<1>3. Satisfies(p, a, slack) <=> (Typed(field) # {} => index[p][a] \in Typed(field) \cap Texts)
  BY <1>1 DEF Satisfies
<1>4. Typed(field) = {} <=> PlacesOf(asked, field) = {}
  BY DEF Typed, ValuesFor
<1>5. CASE PlacesOf(asked, field) = {} /\ conds = {}
  BY <1>2, <1>3, <1>4, <1>5
<1>6. ASSUME NEW cond, PlacesOf(asked, field) # {}, conds = {cond},
             cond.type = "checkbox_or", cond.attribute = a, cond.values = Typed(field)
      PROVE  (\A c \in conds : PushFilterCond(p, c)) <=> Satisfies(p, a, slack)
  <2>1. PushFilterCond(p, cond) <=> IndexText(p, a) \cap Typed(field) # {}
    BY <1>6 DEF PushFilterCond
  <2>2. IndexText(p, a) \cap Typed(field) # {} <=> index[p][a] \in Typed(field) \cap Texts
    BY DEF IndexText
  <2> QED BY <1>3, <1>4, <1>6, <2>1, <2>2
<1> QED BY <1>1, <1>2, <1>5, <1>6, ChecksCondIs

(* HAVING COUNT(DISTINCT val_text) = the number of values asked for: as an index
   row has one text, only a single value can be found, so that nothing is found
   where a value is asked for twice. *)
LEMMA AndCounts ==
  ASSUME PageOK, NEW p \in Products, NEW a \in Attributes, NEW field,
         PlacesOf(asked, field) # {}
  PROVE  /\ Cardinality(IndexText(p, a) \cap Typed(field)) = Cardinality(PlacesOf(asked, field))
              => \A v \in Typed(field) : v \in Texts /\ index[p][a] = v
         /\ /\ \A v \in Typed(field) : v \in Texts /\ index[p][a] = v
            /\ \A i, j \in PlacesOf(asked, field) : asked[i] = asked[j] => i = j
            => Cardinality(IndexText(p, a) \cap Typed(field)) = Cardinality(PlacesOf(asked, field))
<1>1. PICK places : places = PlacesOf(asked, field)
  OBVIOUS
<1>2. PICK values : values = Typed(field)
  OBVIOUS
<1>3. PICK found : found = IndexText(p, a) \cap values
  OBVIOUS
<1>4. PICK x : x = index[p][a]
  OBVIOUS
<1>5. found = {x} \cap Texts \cap values
  BY <1>3, <1>4 DEF IndexText
<1>6. values = {asked[i][2] : i \in places} /\ places # {} /\ places \subseteq DOMAIN asked
  BY <1>1, <1>2 DEF Typed, ValuesFor, PlacesOf
<1>7. \A i, j \in places : asked[i][2] = asked[j][2] => asked[i] = asked[j]
  <2> SUFFICES ASSUME NEW i \in places, NEW j \in places, asked[i][2] = asked[j][2]
               PROVE  asked[i] = asked[j]
    OBVIOUS
  <2>1. i \in DOMAIN asked /\ j \in DOMAIN asked /\ asked[i][1] = field /\ asked[j][1] = field
    BY <1>1 DEF PlacesOf
  <2>2. asked[i] = <<asked[i][1], asked[i][2]>> /\ asked[j] = <<asked[j][1], asked[j][2]>>
    BY <2>1 DEF PageOK, Inputs
  <2> QED BY <2>1, <2>2
<1>8. IsFiniteSet(places) /\ Cardinality(places) \in Nat /\ Cardinality(places) # 0
  <2>1. IsFiniteSet(1 .. Len(asked)) /\ places \subseteq 1 .. Len(asked)
    BY <1>6, FS_Interval DEF PageOK
  <2> QED BY <1>6, <2>1, FS_Subset, FS_CardinalityType, FS_EmptySet
<1>9. found = {} \/ found = {x}
  BY <1>5
<1>10. Cardinality({x}) = 1 /\ Cardinality({}) = 0
  BY FS_Singleton, FS_EmptySet
<1>11. ASSUME Cardinality(found) = Cardinality(places)
       PROVE  \A v \in values : v \in Texts /\ x = v
  <2>1. found = {x} /\ Cardinality(places) = 1
    BY <1>8, <1>9, <1>10, <1>11
  <2>2. PICK i : places = {i}
    BY <1>8, <2>1, FS_Singleton
  <2> QED BY <1>5, <1>6, <2>1, <2>2
<1>12. ASSUME \A v \in values : v \in Texts /\ x = v,
              \A i, j \in places : asked[i] = asked[j] => i = j
       PROVE  Cardinality(found) = Cardinality(places)
  <2>1. PICK i \in places : TRUE
    BY <1>6
  <2>2. \A j \in places : asked[i][2] = asked[j][2]
    BY <1>6, <1>12, <2>1
  <2>3. places = {i}
    BY <1>7, <1>12, <2>1, <2>2
  <2>4. Cardinality(places) = 1
    BY <2>3, FS_Singleton
  <2>5. found = {x}
    BY <1>5, <1>6, <1>12
  <2> QED BY <1>10, <2>4, <2>5
<1> QED BY <1>1, <1>2, <1>3, <1>4, <1>11, <1>12

(* All of the values ticked. *)
LEMMA AndMeans ==
  ASSUME PageOK, ~ NamesClash, NEW slack,
         NEW p \in Products, NEW a \in Attributes, filters[a] = "enum_and"
  PROVE  /\ (\A cond \in FilterCondFor(QueryString, a) : PushFilterCond(p, cond))
              => Satisfies(p, a, slack)
         /\ Satisfies(p, a, slack) /\ ~ AskedTwice
              => \A cond \in FilterCondFor(QueryString, a) : PushFilterCond(p, cond)
<1>1. PICK field : field = <<"attr", a>>
  OBVIOUS
<1>2. PICK conds : conds = FilterCondFor(QueryString, a)
  OBVIOUS
<1>3. Satisfies(p, a, slack) <=> (\A v \in Typed(field) : v \in Texts /\ index[p][a] = v)
  BY <1>1 DEF Satisfies
<1>4. Typed(field) = {} <=> PlacesOf(asked, field) = {}
  BY DEF Typed, ValuesFor
<1>5. ~ AskedTwice => \A i, j \in PlacesOf(asked, field) : asked[i] = asked[j] => i = j
  BY <1>1 DEF AskedTwice
<1>6. CASE PlacesOf(asked, field) = {} /\ conds = {}
  BY <1>2, <1>3, <1>4, <1>6
<1>7. ASSUME NEW cond, PlacesOf(asked, field) # {}, conds = {cond},
             cond.type = "enum_and", cond.attribute = a, cond.values = Typed(field),
             cond.length = Cardinality(PlacesOf(asked, field))
      PROVE  /\ (\A c \in conds : PushFilterCond(p, c)) => Satisfies(p, a, slack)
             /\ Satisfies(p, a, slack) /\ ~ AskedTwice => \A c \in conds : PushFilterCond(p, c)
  <2>1. PushFilterCond(p, cond) <=> Cardinality(IndexText(p, a) \cap Typed(field))
                                      = Cardinality(PlacesOf(asked, field))
    BY <1>7 DEF PushFilterCond
  <2> QED BY <1>3, <1>5, <1>7, <2>1, AndCounts
<1> QED BY <1>1, <1>2, <1>6, <1>7, ChecksCondIs

-----------------------------------------------------------------------------
(* One filter: no product passes its conditions that it does not mean to list,
   and all that it means to list do. *)
LEMMA FilterMeans ==
  ASSUME PageOK, ~ NamesClash, NEW p \in Products, NEW a \in Attributes
  PROVE  /\ (\A cond \in FilterCondFor(QueryString, a) : PushFilterCond(p, cond))
              => Satisfies(p, a, One)
         /\ Satisfies(p, a, One - 1) /\ ~ AskedTwice
              => \A cond \in FilterCondFor(QueryString, a) : PushFilterCond(p, cond)
<1>1. CASE filters[a] \in {"string", "number"}
  <2>1. FilterCondFor(QueryString, a) = {} /\ Satisfies(p, a, One)
    BY <1>1 DEF FilterCondFor, Satisfies
  <2> QED BY <2>1
<1>2. filters[a] \in FilterTypes
  BY DEF PageOK
<1>3. CASE filters[a] = "checkbox_or"
  BY <1>3, OrMeans
<1>4. CASE filters[a] = "enum_and"
  BY <1>4, AndMeans
<1>5. CASE filters[a] = "range_generic"
  BY <1>5, GenericMeans
<1>6. CASE filters[a] = "range_price"
  BY <1>6, PriceMeans
<1> QED BY <1>1, <1>2, <1>3, <1>4, <1>5, <1>6 DEF FilterTypes

(* A category page lists the published products that satisfy every filter of the
   category, and no other: of search.rs's SQL and category.rs's reading of the
   query string, for any number of filters, products and parameters.  Prices are
   held against bounds in major units of any precision, to the nearest minor unit.
   Left out are fields that share a name; where a value of an enum_and filter is
   asked for twice the page lists no other product, but not all. *)
THEOREM FiltersAreMeant == Spec => []FiltersMeanWhatTheySay
<1>1. PageOK => FiltersMeanWhatTheySay
  <2> SUFFICES ASSUME PageOK, ~ NamesClash
               PROVE  /\ shown \subseteq Wanted(One)
                      /\ ~ AskedTwice => Wanted(One - 1) \subseteq shown
    BY DEF FiltersMeanWhatTheySay
  <2>1. \A p : (\A cond \in BuildFilterConds(QueryString) : PushFilterCond(p, cond))
          <=> \A a \in Attributes :
                \A cond \in FilterCondFor(QueryString, a) : PushFilterCond(p, cond)
    BY DEF BuildFilterConds
  <2>2. onSale \subseteq Products /\ shown = Search(BuildFilterConds(QueryString))
    BY DEF PageOK
  <2>3. shown \subseteq Wanted(One)
    BY <2>1, <2>2, FilterMeans DEF Search, Wanted
  <2>4. ~ AskedTwice => Wanted(One - 1) \subseteq shown
    BY <2>1, <2>2, FilterMeans DEF Search, Wanted
  <2> QED BY <2>3, <2>4
<1> QED BY <1>1, PageAlways, PTL
=============================================================================
