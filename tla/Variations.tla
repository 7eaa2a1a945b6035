----------------------------- MODULE Variations -----------------------------
(***************************************************************************)
(* The variants of one product as combinations of attribute values: staff   *)
(* assign values to the product, select the attributes that make variants,  *)
(* add variants one by one or generate them all, and delete values and      *)
(* attributes.  A request reads first and writes later; no unique index     *)
(* knows combinations, foreign keys know the values.                        *)
(***************************************************************************)
EXTENDS Naturals, FiniteSets, FiniteSetsExt, Functions

CONSTANTS
  AttributeOf,  \* the attribute of each value staff may create
  VariantIds,
  Clerks,       \* back-office requests
  MaxChanges,   \* bound on the requests that commit
  None

Values == DOMAIN AttributeOf
Attributes == {AttributeOf[v] : v \in Values}

VARIABLES
  attrs,        \* attributes there are
  values,       \* attribute_value rows
  assigned,     \* product_attribute rows of the product
  axes,         \* its product_variation_attribute rows
  combo,        \* each variant's values, None where there is no variant
  call,         \* a request: [pc, op, new, drop]
  outgrown,     \* variants that were there when the axes changed
  raced,        \* two requests overlapped
  changes

variationVars == <<attrs, values, assigned, axes, combo, call, outgrown, raced, changes>>

NoCall == [pc |-> "idle", op |-> None, new |-> {}]
Existing == {i \in VariantIds : combo[i] # None}
ValuesIn(vs, a) == {v \in vs : AttributeOf[v] = a}

\* One value for each of the axes, and no other.
Fits(c, as) == \A a \in Attributes : Cardinality(ValuesIn(c, a)) = IF a \in as THEN 1 ELSE 0

\* itertools.product over the assigned values of the axes.
Combinations(vs, as) == {c \in SUBSET vs : Fits(c, as)}

Init ==
  /\ attrs = Attributes
  /\ values = Values
  /\ assigned \in SUBSET Values
  /\ axes \in {{}, Attributes}
  /\ combo = [i \in VariantIds |-> None]
  /\ call = [k \in Clerks |-> NoCall]
  /\ outgrown = {}
  /\ raced = FALSE
  /\ changes = 0

Ops ==
  [kind : {"assign", "create"}, arg : SUBSET Values] \cup
  [kind : {"select", "dropAttribute"}, arg : SUBSET Attributes] \cup
  [kind : {"generate"}, arg : {{}}] \cup
  [kind : {"drop"}, arg : {{i} : i \in VariantIds}] \cup
  [kind : {"dropValue"}, arg : {{v} : v \in Values}]

\* _combo_exists
ComboExists(c) == \E i \in Existing : combo[i] = c

\* What the routes refuse: values and attributes that are not there, axes cleared under
\* variants, a variant without axes, with other values than one per axis or of a
\* combination there already is, and generation with an axis that has no value.
Accepted(op) ==
  CASE op.kind = "assign" -> op.arg \subseteq values
    [] op.kind = "select" -> op.arg \subseteq attrs /\ (op.arg = {} => Existing = {})
    [] op.kind = "create" -> /\ axes # {} /\ op.arg \subseteq values /\ Fits(op.arg, axes)
                             /\ ~ComboExists(op.arg)
    [] op.kind = "generate" -> axes # {} /\ \A a \in axes : ValuesIn(assigned, a) # {}
    [] op.kind = "drop" -> op.arg \subseteq Existing
    [] op.kind = "dropValue" -> op.arg \subseteq values
    [] OTHER -> op.arg \subseteq attrs /\ Cardinality(op.arg) = 1

\* Mutant: generation stops at a product that has variants.
MissingAtFirst == IF Existing = {} THEN Combinations(assigned, axes) ELSE {}

\* generate_variants: combinations that no variant has.
Missing == {c \in Combinations(assigned, axes) : ~ComboExists(c)}

\* A request reads what it needs.
Read(k, op) ==
  /\ call[k].pc = "idle"
  /\ changes + Cardinality({f \in Clerks : call[f].pc # "idle"}) < MaxChanges
  /\ Accepted(op)
  /\ call' = [call EXCEPT ![k] = [pc |-> "read", op |-> op,
       new |-> CASE op.kind = "create" -> {op.arg} [] op.kind = "generate" -> Missing [] OTHER -> {}]]
  /\ raced' = (raced \/ \E f \in Clerks : call[f].pc # "idle")
  /\ UNCHANGED <<attrs, values, assigned, axes, combo, outgrown, changes>>

\* New rows get ids of their own, one for each combination.
Numbered(new) == {f \in [new -> VariantIds \ Existing] : IsInjective(f)}

\* A foreign key has no row to point at, or still points at what is deleted.
Breaks(k) ==
  LET op == call[k].op
  IN  \/ ~(UNION call[k].new \subseteq values)
      \/ op.kind = "assign" /\ ~(op.arg \subseteq values)
      \/ op.kind = "select" /\ ~(op.arg \subseteq attrs)
      \/ op.kind = "dropValue" /\ \E i \in Existing : op.arg \cap combo[i] # {}
      \/ op.kind = "dropAttribute" /\ (op.arg \cap axes # {}
           \/ \E i \in Existing : \E v \in combo[i] : AttributeOf[v] \in op.arg)

GivesUp(k) ==
  /\ call' = [call EXCEPT ![k] = NoCall]
  /\ UNCHANGED <<attrs, values, assigned, axes, combo, outgrown, raced, changes>>

Done(k) ==
  /\ call' = [call EXCEPT ![k] = NoCall]
  /\ changes' = changes + 1
  /\ UNCHANGED raced

\* create_variant and generate_variants
AddVariants(k) ==
  /\ call[k].op.kind \in {"create", "generate"}
  /\ \E f \in Numbered(call[k].new) :
       combo' = [i \in VariantIds |-> IF \E c \in call[k].new : f[c] = i
                                      THEN CHOOSE c \in call[k].new : f[c] = i ELSE combo[i]]
  /\ UNCHANGED <<attrs, values, assigned, axes, outgrown>>

\* set_product_attributes: the links are replaced.
SetProductAttributes(k) ==
  /\ call[k].op.kind = "assign"
  /\ assigned' = call[k].op.arg
  /\ UNCHANGED <<attrs, values, axes, combo, outgrown>>

\* set_variation_attributes: variants made for the old axes stay.
SetVariationAttributes(k) ==
  /\ call[k].op.kind = "select"
  /\ axes' = call[k].op.arg
  /\ outgrown' = IF axes' = axes THEN outgrown ELSE Existing
  /\ UNCHANGED <<attrs, values, assigned, combo>>

\* delete_variant
DeleteVariant(k) ==
  /\ call[k].op.kind = "drop"
  /\ combo' = [i \in VariantIds |-> IF i \in call[k].op.arg THEN None ELSE combo[i]]
  /\ outgrown' = outgrown \ call[k].op.arg
  /\ UNCHANGED <<attrs, values, assigned, axes>>

\* delete_attribute_value: the product's links go with it.
DeleteAttributeValue(k) ==
  /\ call[k].op.kind = "dropValue"
  /\ values' = values \ call[k].op.arg
  /\ assigned' = assigned \ call[k].op.arg
  /\ UNCHANGED <<attrs, axes, combo, outgrown>>

\* delete_attribute: its values, and the product's links to them.
DeleteAttribute(k) ==
  LET gone == {v \in Values : AttributeOf[v] \in call[k].op.arg}
  IN  /\ call[k].op.kind = "dropAttribute"
      /\ attrs' = attrs \ call[k].op.arg
      /\ values' = values \ gone
      /\ assigned' = assigned \ gone
      /\ UNCHANGED <<axes, combo, outgrown>>

Write(k) ==
  /\ call[k].pc = "read"
  /\ IF Breaks(k) \/ Numbered(call[k].new) = {} THEN GivesUp(k)
     ELSE /\ \/ AddVariants(k) \/ SetProductAttributes(k) \/ SetVariationAttributes(k)
             \/ DeleteVariant(k) \/ DeleteAttributeValue(k) \/ DeleteAttribute(k)
          /\ Done(k)

\* create_attribute and create_attribute_value
CreateValue(v) ==
  /\ v \notin values
  /\ changes + Cardinality({f \in Clerks : call[f].pc # "idle"}) < MaxChanges
  /\ attrs' = attrs \cup {AttributeOf[v]}
  /\ values' = values \cup {v}
  /\ changes' = changes + 1
  /\ UNCHANGED <<assigned, axes, combo, call, outgrown, raced>>

Next ==
  \/ \E k \in Clerks, op \in Ops : Read(k, op)
  \/ \E k \in Clerks : Write(k)
  \/ \E v \in Values : CreateValue(v)

Spec == Init /\ [][Next]_variationVars
-----------------------------------------------------------------------------
\* What the product's page offers

\* Mutant: the values the product has been given.
SelectorAssigned(a) == ValuesIn(assigned, a)

\* get_variation_attributes: of each axis the values some variant has.
Selector(a) == ValuesIn(UNION {combo[i] : i \in Existing}, a)

\* _group_variation_attributes: an axis without a value has no selector.
Selectors == {a \in axes : Selector(a) # {}}

\* _group_attributes, and what get_product leaves of it: the rest of the characteristics.
Characteristics == {v \in assigned : AttributeOf[v] \notin Selectors}

\* get_product: what a customer can choose, and the variants the page then has to offer.
Selections == {c \in SUBSET UNION {Selector(a) : a \in Selectors} : Fits(c, Selectors)}
Offered(c) == {i \in Existing : c \subseteq combo[i]}

\* get_variant_option_labels: a variant is named by its values on the axes.
LabelOf(i) == {v \in combo[i] : AttributeOf[v] \in axes}
-----------------------------------------------------------------------------
\* Properties

\* Rows point at rows that exist.
TypeOK ==
  /\ assigned \subseteq values
  /\ \A i \in Existing : combo[i] \subseteq values
  /\ {AttributeOf[v] : v \in values} \cup axes \subseteq attrs
  /\ changes \in 0 .. MaxChanges

\* Every variant made for the axes of today has one value on each, names itself with all of
\* them, and can be told from every other such variant, unless two requests overlapped.
VariantsAreTold ==
  ~raced => /\ \A i \in Existing \ outgrown : Fits(combo[i], axes) /\ LabelOf(i) = combo[i]
            /\ \A i, j \in Existing : i # j => combo[i] # combo[j]

\* On the page of the product one choice of a value on each selector leads to each variant
\* made for the axes of today, and to no second one; and what the product was given is
\* among its characteristics or on a selector, unless two requests overlapped (get_product).
PageLeadsToVariants ==
  ~raced =>
    /\ \A i \in Existing \ outgrown : Cardinality({c \in Selections : i \in Offered(c)}) = 1
    /\ \A c \in Selections : Cardinality(Offered(c) \ outgrown) =< 1
    /\ \A v \in assigned \ Characteristics : \E i \in Existing : ValuesIn(combo[i], AttributeOf[v]) # {}

\* Generation alone leaves a variant for every combination of the assigned values, adds to
\* those there were and takes nothing away: the customer finds each of them.
GeneratesMissing ==
  \A k \in Clerks :
    call[k].pc = "read" /\ call[k].op.kind = "generate" /\ call'[k].pc = "idle" /\ ~raced /\ changes' # changes =>
      /\ {combo'[i] : i \in Existing'} = {combo[i] : i \in Existing} \cup Combinations(assigned, axes)
      /\ \A a \in axes : ValuesIn(assigned, a) \subseteq Selector(a)'
=============================================================================
