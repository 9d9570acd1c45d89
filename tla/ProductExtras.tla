---------------------------- MODULE ProductExtras ----------------------------
(***************************************************************************)
(* What hangs on a product (crates/product/src/extras.rs): its digital     *)
(* configuration, variants, media and the translations of its fields, next *)
(* to the tables of ProductStore.  Variants, media and configuration refer *)
(* to products(id) ON DELETE CASCADE; `translations` is polymorphic, has no *)
(* foreign key, and is kept clean by the code.                             *)
(***************************************************************************)
EXTENDS ProductStore

CONSTANTS Variants, Media  \* ids of variants and media (never used twice)

VARIABLES
  config,       \* products that have a row of digital_config
  variants,     \* variants[v]: the product v belongs to, "unused" or "removed"
  media,        \* media[m]: likewise
  translations  \* rows of `translations`: pairs <<entity_type, entity_id>>

extraVars == <<config, variants, media, translations>>
vars      == <<storeVars, extraVars>>

Entities == ({"product"} \X Products) \cup ({"digital_variant"} \X Variants)

Init ==
  /\ StoreInit
  /\ config = {}
  /\ variants = [v \in Variants |-> "unused"]
  /\ media = [m \in Media |-> "unused"]
  /\ translations = {}

VariantsOf(p) == {v \in Variants : variants[v] = p}

(* Mutant: foreign keys are switched off. *)
Cascade_Off(owner, p) == owner

(* What the rows referring to p become when p goes: ON DELETE CASCADE. *)
Cascade(owner, p) == [x \in DOMAIN owner |-> IF owner[x] = p THEN "removed" ELSE owner[x]]

-----------------------------------------------------------------------------
UpsertDigitalConfig(p) ==
  /\ Exists(p)
  /\ config' = config \cup {p}
  /\ EnqueueProductUpdated(p, "digital_config")
  /\ UNCHANGED <<variants, media, translations>>

AddVariant(p, v) ==
  /\ Exists(p)
  /\ variants[v] = "unused"
  /\ variants' = [variants EXCEPT ![v] = p]
  /\ EnqueueProductUpdated(p, "variant_added")
  /\ UNCHANGED <<config, media, translations>>

(* Label, format and price are not modelled: the event is what is left. *)
UpdateVariant(p, v) ==
  /\ variants[v] # "unused"
  /\ EnqueueProductUpdated(p, "variant_updated")
  /\ UNCHANGED extraVars

(* The translations go by the id of the variant, the row only if the variant
   belongs to the product. *)
RemoveVariant(p, v) ==
  /\ variants[v] # "unused"
  /\ translations' = translations \ {<<"digital_variant", v>>}
  /\ variants' = IF variants[v] = p THEN [variants EXCEPT ![v] = "removed"] ELSE variants
  /\ EnqueueProductUpdated(p, "variant_removed")
  /\ UNCHANGED <<config, media>>

AddMedia(p, m) ==
  /\ Exists(p)
  /\ media[m] = "unused"
  /\ media' = [media EXCEPT ![m] = p]
  /\ EnqueueProductUpdated(p, "media_added")
  /\ UNCHANGED <<config, variants, translations>>

RemoveMedia(p, m) ==
  /\ media[m] # "unused"
  /\ media' = IF media[m] = p THEN [media EXCEPT ![m] = "removed"] ELSE media
  /\ EnqueueProductUpdated(p, "media_removed")
  /\ UNCHANGED <<config, variants, translations>>

(* Neither the product nor the entity is looked up. *)
SetTranslation(p, entity) ==
  /\ entity \in {"digital_variant"} \X Variants => variants[entity[2]] # "unused"
  /\ entity \in {"product"} \X Products => ~ NeverCreated(entity[2])
  /\ translations' = translations \cup {entity}
  /\ EnqueueProductUpdated(p, "translation_set")
  /\ UNCHANGED <<config, variants, media>>

(* The row and its event; without a row there is neither, and what else the
   transaction deletes is committed. *)
DeleteRow(p) == DeleteProduct(p) \/ (~ Exists(p) /\ UNCHANGED storeVars)

(* Mutant: the product row goes first, and with it, by the cascade, the
   variants the second DELETE looks for. *)
DeleteWithExtras_RowFirst(p) ==
  /\ DeleteRow(p)
  /\ translations' = translations \ {<<"product", p>>}
  /\ config' = config \ {p}
  /\ variants' = Cascade(variants, p)
  /\ media' = Cascade(media, p)

(* delete_product in full. *)
DeleteWithExtras(p) ==
  /\ DeleteRow(p)
  /\ translations' = translations \ ({<<"product", p>>}
                       \cup {<<"digital_variant", v>> : v \in VariantsOf(p)})
  /\ config' = config \ {p}
  /\ variants' = Cascade(variants, p)
  /\ media' = Cascade(media, p)

Next ==
  \E p \in Products :
    \/ \E row \in Rows : /\ row.status \in NewStatuses
                         /\ CreateProduct(p, row)
                         /\ UNCHANGED extraVars
    \/ UpsertDigitalConfig(p)
    \/ \E v \in Variants : AddVariant(p, v) \/ UpdateVariant(p, v) \/ RemoveVariant(p, v)
    \/ \E m \in Media : AddMedia(p, m) \/ RemoveMedia(p, m)
    \/ \E entity \in Entities : SetTranslation(p, entity)
    \/ DeleteWithExtras(p)

Spec == Init /\ [][Next]_vars

-----------------------------------------------------------------------------
(* Types, and the foreign keys: nothing refers to a product that is gone. *)
TypeOK ==
  /\ config \subseteq {p \in Products : Exists(p)}
  /\ \A v \in Variants : variants[v] \in {"unused", "removed"} \cup {p \in Products : Exists(p)}
  /\ \A m \in Media : media[m] \in {"unused", "removed"} \cup {p \in Products : Exists(p)}
  /\ translations \subseteq Entities

(* repository.rs:221-224: deleting a product leaves no translation of it or
   of any of its variants behind, though no foreign key removes them. *)
DeleteTakesTranslations ==
  [][\A p \in Products :
       Exists(p) /\ ~ Exists(p)' =>
         /\ <<"product", p>> \notin translations'
         /\ \A v \in VariantsOf(p) : <<"digital_variant", v>> \notin translations']_vars
=============================================================================
