----------------------- MODULE ProductExtras_proofs -----------------------
(***************************************************************************)
(* Theorems about ProductExtras for any number of products, variants and   *)
(* media, and any number of events.                                        *)
(***************************************************************************)
EXTENDS ProductExtras, TLAPS

(* TypeOK is inductive once the tables are functions. *)
ExtrasInv ==
  /\ TypeOK
  /\ products \in [Products -> Rows \cup {None}]
  /\ variants = [v \in Variants |-> variants[v]]
  /\ media = [m \in Media |-> media[m]]

LEMMA InitExtras == Init => ExtrasInv
  BY DEF Init, StoreInit, ExtrasInv, TypeOK

(* A row is not the absence of one. *)
LEMMA RowsExist == \A row \in Rows : row # None
  BY StoreAssumption

LEMMA CreateKeeps ==
  ASSUME ExtrasInv, NEW p \in Products, NEW row \in Rows, CreateProduct(p, row),
         UNCHANGED extraVars
  PROVE  ExtrasInv' /\ \A q \in Products : Exists(q) => Exists(q)'
<1>1. products' = [products EXCEPT ![p] = row] /\ row # None
  BY RowsExist DEF CreateProduct
<1>2. products' \in [Products -> Rows \cup {None}] /\ \A q \in Products : Exists(q) => Exists(q)'
  BY <1>1 DEF ExtrasInv, Exists
<1> QED BY <1>2 DEF ExtrasInv, TypeOK, extraVars

(* The writes that leave the products alone. *)
LEMMA ExtrasKeep ==
  ASSUME ExtrasInv, NEW p \in Products,
         \/ UpsertDigitalConfig(p)
         \/ \E v \in Variants : AddVariant(p, v) \/ UpdateVariant(p, v) \/ RemoveVariant(p, v)
         \/ \E m \in Media : AddMedia(p, m) \/ RemoveMedia(p, m)
         \/ \E entity \in Entities : SetTranslation(p, entity)
  PROVE  ExtrasInv' /\ UNCHANGED products
<1>1. UNCHANGED products
  BY DEF UpsertDigitalConfig, AddVariant, UpdateVariant, RemoveVariant, AddMedia, RemoveMedia,
         SetTranslation, EnqueueProductUpdated
<1>2. \A q \in Products : Exists(q)' <=> Exists(q)
  BY <1>1 DEF Exists
<1>3. CASE UpsertDigitalConfig(p)
  BY <1>1, <1>2, <1>3 DEF UpsertDigitalConfig, ExtrasInv, TypeOK
<1>4. ASSUME NEW v \in Variants, AddVariant(p, v)
      PROVE  ExtrasInv'
  BY <1>1, <1>2, <1>4 DEF AddVariant, ExtrasInv, TypeOK
<1>5. ASSUME NEW v \in Variants, UpdateVariant(p, v)
      PROVE  ExtrasInv'
  BY <1>1, <1>2, <1>5 DEF UpdateVariant, extraVars, ExtrasInv, TypeOK
<1>6. ASSUME NEW v \in Variants, RemoveVariant(p, v)
      PROVE  ExtrasInv'
  BY <1>1, <1>2, <1>6 DEF RemoveVariant, ExtrasInv, TypeOK
<1>7. ASSUME NEW m \in Media, AddMedia(p, m)
      PROVE  ExtrasInv'
  BY <1>1, <1>2, <1>7 DEF AddMedia, ExtrasInv, TypeOK
<1>8. ASSUME NEW m \in Media, RemoveMedia(p, m)
      PROVE  ExtrasInv'
  BY <1>1, <1>2, <1>8 DEF RemoveMedia, ExtrasInv, TypeOK
<1>9. ASSUME NEW entity \in Entities, SetTranslation(p, entity)
      PROVE  ExtrasInv'
  BY <1>1, <1>2, <1>9 DEF SetTranslation, ExtrasInv, TypeOK
<1> QED BY <1>1, <1>3, <1>4, <1>5, <1>6, <1>7, <1>8, <1>9

(* What the cascade leaves refers to other products, which stay. *)
LEMMA DeleteKeeps ==
  ASSUME ExtrasInv, NEW p \in Products, DeleteWithExtras(p)
  PROVE  /\ ExtrasInv'
         /\ \A q \in Products : Exists(q) /\ ~ Exists(q)' => q = p
         /\ <<"product", p>> \notin translations'
         /\ \A v \in VariantsOf(p) : <<"digital_variant", v>> \notin translations'
<1>1. products' = [products EXCEPT ![p] = None]
  <2>1. CASE DeleteProduct(p)
    BY <2>1 DEF DeleteProduct
  <2>2. CASE ~ Exists(p) /\ UNCHANGED storeVars
    BY <2>2 DEF Exists, storeVars, ExtrasInv
  <2> QED BY <2>1, <2>2 DEF DeleteWithExtras, DeleteRow
<1>2. products' \in [Products -> Rows \cup {None}]
  BY <1>1 DEF ExtrasInv
<1>3. \A q \in Products : q # p => (Exists(q)' <=> Exists(q))
  BY <1>1 DEF ExtrasInv, Exists
<1>4. /\ variants' = Cascade(variants, p) /\ media' = Cascade(media, p)
      /\ config' = config \ {p}
      /\ translations' \subseteq translations
      /\ <<"product", p>> \notin translations'
      /\ \A v \in VariantsOf(p) : <<"digital_variant", v>> \notin translations'
  BY DEF DeleteWithExtras
<1>5. /\ variants' = [v \in Variants |-> IF variants[v] = p THEN "removed" ELSE variants[v]]
      /\ media' = [m \in Media |-> IF media[m] = p THEN "removed" ELSE media[m]]
  <2>1. DOMAIN variants = Variants /\ DOMAIN media = Media
    BY DEF ExtrasInv
  <2> QED BY <1>4, <2>1 DEF Cascade
<1>6. config' \subseteq {q \in Products : Exists(q)'}
  BY <1>3, <1>4 DEF ExtrasInv, TypeOK
<1>7. \A v \in Variants : variants'[v] \in {"unused", "removed"} \cup {q \in Products : Exists(q)'}
  BY <1>3, <1>5 DEF ExtrasInv, TypeOK
<1>8. \A m \in Media : media'[m] \in {"unused", "removed"} \cup {q \in Products : Exists(q)'}
  BY <1>3, <1>5 DEF ExtrasInv, TypeOK
<1>9. ExtrasInv'
  BY <1>2, <1>4, <1>5, <1>6, <1>7, <1>8 DEF ExtrasInv, TypeOK
<1> QED BY <1>3, <1>4, <1>9

LEMMA ExtrasStep ==
  ASSUME ExtrasInv, [Next]_vars
  PROVE  /\ ExtrasInv'
         /\ \A p \in Products :
              Exists(p) /\ ~ Exists(p)' =>
                /\ <<"product", p>> \notin translations'
                /\ \A v \in VariantsOf(p) : <<"digital_variant", v>> \notin translations'
<1>1. ASSUME NEW p \in Products, NEW row \in Rows, CreateProduct(p, row), UNCHANGED extraVars
      PROVE  ExtrasInv' /\ \A q \in Products : Exists(q) => Exists(q)'
  BY <1>1, CreateKeeps
<1>2. ASSUME NEW p \in Products,
             \/ UpsertDigitalConfig(p)
             \/ \E v \in Variants : AddVariant(p, v) \/ UpdateVariant(p, v) \/ RemoveVariant(p, v)
             \/ \E m \in Media : AddMedia(p, m) \/ RemoveMedia(p, m)
             \/ \E entity \in Entities : SetTranslation(p, entity)
      PROVE  ExtrasInv' /\ \A q \in Products : Exists(q) => Exists(q)'
  BY <1>2, ExtrasKeep DEF Exists
<1>3. ASSUME NEW p \in Products, DeleteWithExtras(p)
      PROVE  /\ ExtrasInv'
             /\ \A q \in Products :
                  Exists(q) /\ ~ Exists(q)' =>
                    /\ <<"product", q>> \notin translations'
                    /\ \A v \in VariantsOf(q) : <<"digital_variant", v>> \notin translations'
  BY <1>3, DeleteKeeps
<1>4. CASE UNCHANGED vars
  BY <1>4 DEF vars, storeVars, extraVars, ExtrasInv, TypeOK, Exists
<1> QED BY <1>1, <1>2, <1>3, <1>4 DEF Next

LEMMA ExtrasAlways == Spec => []ExtrasInv
  BY InitExtras, ExtrasStep, PTL DEF Spec

(* No digital configuration, variant or media refers to a product that is gone. *)
THEOREM ExtrasTypeCorrect == Spec => []TypeOK
<1>1. ExtrasInv => TypeOK
  BY DEF ExtrasInv
<1> QED BY <1>1, ExtrasAlways, PTL

(* Deleting a product (repository.rs:221) takes its translations along and
   those of its variants, which the cascade is about to take away. *)
THEOREM TranslationsGo == Spec => DeleteTakesTranslations
<1>1. ExtrasInv /\ [Next]_vars =>
        [\A p \in Products :
           Exists(p) /\ ~ Exists(p)' =>
             /\ <<"product", p>> \notin translations'
             /\ \A v \in VariantsOf(p) : <<"digital_variant", v>> \notin translations']_vars
  BY ExtrasStep
<1> QED BY <1>1, ExtrasAlways, PTL DEF Spec, DeleteTakesTranslations
=============================================================================
