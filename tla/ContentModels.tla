---------------------------- MODULE ContentModels ----------------------------
(***************************************************************************)
(* The content model of services/cms.py: data types, field groups          *)
(* (compositions), templates, content types and blueprints, none but the   *)
(* last of which can be deleted, and the pages made with them. A page is   *)
(* created by several calls, each under the lock by itself: the blueprint, *)
(* the type, the types allowed below the parent, the insertion.            *)
(*                                                                         *)
(* A value is the length of its text, 0 if there is none; of the rules a   *)
(* field may have, the model keeps required and max_length.                *)
(***************************************************************************)
EXTENDS Naturals, Sequences, SequencesExt

CONSTANTS
  TypeAliases, DataTypeAliases, CompositionAliases, TemplateAliases,
  FieldAliases, BlueprintIds, PageIds,
  Lengths,    (* of texts                                                  *)
  Limits,     (* values of max_length                                      *)
  Editors,
  Absent

ASSUME ModelAssumption ==
  /\ 0 \in Lengths /\ Lengths \subseteq Nat
  /\ Limits \subseteq Nat \ {0}
  /\ Absent \notin Limits \cup DataTypeAliases \cup TypeAliases

VARIABLES
  model,      (* the tables of the model, each by alias                    *)
  blueprints, (* archub_content_blueprints, by id, or Absent               *)
  pages,      (* type and draft of each page, or Absent                    *)
  forms,      (* what each editor's request has read so far                *)
  schemas,    (* the fields each type has had so far: history              *)
  taken       (* a model report, as a package carries it, or Absent        *)

modelVars == <<model, blueprints, pages, forms, schemas, taken>>

-----------------------------------------------------------------------------
(* Fields.                                                                 *)

Fields == [data: DataTypeAliases \cup {Absent}, limit: Limits \cup {Absent}, required: BOOLEAN]

\* _resolve_content_field_data_types: what the field does not say itself.
Resolvable(m, fields) ==
  \A f \in DOMAIN fields : fields[f].data # Absent => fields[f].data \in DOMAIN m.dataTypes
Resolve(m, fields) ==
  [f \in DOMAIN fields |->
    IF fields[f].data = Absent \/ fields[f].limit # Absent THEN fields[f]
    ELSE [fields[f] EXCEPT !.limit = m.dataTypes[fields[f].data]]]

\* _merge_fields of the groups in their order and the type's own fields: the
\* later one counts. The fields a type has, as _hydrate_content_type finds.
Having(groups, f) == {i \in DOMAIN groups : f \in DOMAIN groups[i]}
Merge(groups) ==
  [f \in UNION {DOMAIN groups[i] : i \in DOMAIN groups} |->
    groups[CHOOSE i \in Having(groups, f) : \A j \in Having(groups, f) : j <= i][f]]
Schema(m, t) ==
  LET row == m.types[t]
      groups == [i \in DOMAIN row.groups |-> m.compositions[row.groups[i]]]
  IN  Resolve(m, Merge(Append(groups, row.fields)))

\* _clean_payload: the fields of the schema, if their values keep its rules.
Clean(schema, payload) == [f \in DOMAIN schema |-> payload[f]]
Fits(schema, payload) ==
  \A f \in DOMAIN schema :
    IF payload[f] = 0 THEN ~schema[f].required
    ELSE schema[f].limit # Absent => payload[f] <= schema[f].limit

Values == [FieldAliases -> Lengths]

-----------------------------------------------------------------------------
(* Saving a part of the model: the model it leaves, or Raised if it raises.  *)

Raised == [raised |-> TRUE]

With(table, alias, row) ==
  [a \in DOMAIN table \cup {alias} |-> IF a = alias THEN row ELSE table[a]]

SaveDataType(m, alias, limit) == [m EXCEPT !.dataTypes = With(@, alias, limit)]

SaveTemplate(m, alias, allowed) ==
  IF allowed \subseteq DOMAIN m.types
  THEN [m EXCEPT !.templates = With(@, alias, allowed)] ELSE Raised

SaveComposition(m, alias, fields) ==
  IF DOMAIN fields # {} /\ Resolvable(m, fields)
  THEN [m EXCEPT !.compositions = With(@, alias, Resolve(m, fields))] ELSE Raised

\* The allow list of the template is asked, and is only asked, here.
SaveType(m, alias, row) ==
  IF /\ Resolvable(m, row.fields)
     /\ row.template \in DOMAIN m.templates
     /\ m.templates[row.template] # {} => alias \in m.templates[row.template]
     /\ ToSet(row.groups) \subseteq DOMAIN m.compositions
  THEN [m EXCEPT !.types = With(@, alias, [row EXCEPT !.fields = Resolve(m, row.fields)])]
  ELSE Raised

-----------------------------------------------------------------------------
(* content_model_report, and _import_package_content_model, which saves    *)
(* what it lists one by one: the fields of a type are listed merged.       *)

Report(m) == [m EXCEPT !.types = [t \in DOMAIN @ |-> [@[t] EXCEPT !.fields = Schema(m, t)]]]

SaveRow(m, table, alias, row) ==
  CASE table = "dataTypes" -> SaveDataType(m, alias, row)
    [] table = "templates" -> SaveTemplate(m, alias, row)
    [] table = "compositions" -> SaveComposition(m, alias, row)
    [] table = "types" -> SaveType(m, alias, row)

\* Saves rows of one table after each other; the first that raises ends it.
SaveAll(m, table, rows) ==
  LET order == SetToSeq(DOMAIN rows)
      saved[k \in 0..Len(order)] ==
        IF k = 0 THEN m
        ELSE IF saved[k-1] = Raised THEN Raised
        ELSE SaveRow(saved[k-1], table, order[k], rows[order[k]])
  IN  IF m = Raised THEN Raised ELSE saved[Len(order)]

ImportModelOnce(report, into) ==
  LET m1 == SaveAll(into, "dataTypes", report.dataTypes)
      m2 == SaveAll(m1, "templates", report.templates)
      m3 == SaveAll(m2, "compositions", report.compositions)
  IN  SaveAll(m3, "types", report.types)
\* Templates are saved twice: no type may be there yet for the allow lists.
ImportModel(report, into) ==
  LET m1 == SaveAll(into, "dataTypes", report.dataTypes)
      m2 == SaveAll(m1, "templates", [t \in DOMAIN report.templates |-> {}])
      m3 == SaveAll(m2, "compositions", report.compositions)
      m4 == SaveAll(m3, "types", report.types)
  IN  SaveAll(m4, "templates", report.templates)

-----------------------------------------------------------------------------
(* Operations on the model.                                                *)

\* A save that raises is rolled back and is no step.
Become(m) ==
  /\ m # Raised
  /\ model' = m
  /\ schemas' = [t \in TypeAliases |->
       schemas[t] \cup (IF t \in DOMAIN m.types THEN {Schema(m, t)} ELSE {})]

\* content_model_report lists one table after the other, each under the lock by
\* itself; quiet says whether nothing was saved in between: a history variable.
ReportOrder == <<"dataTypes", "templates", "compositions", "types", "blueprints">>
IsReported == taken # Absent /\ taken.left = <<>>
EmptyReport == [table \in ToSet(ReportOrder) |-> Absent]

BeginReport ==
  /\ taken = Absent \/ IsReported
  /\ taken' = [left |-> ReportOrder, quiet |-> TRUE, rows |-> EmptyReport]
  /\ UNCHANGED <<model, blueprints, pages, forms, schemas>>

ReadTable ==
  /\ taken # Absent /\ taken.left # <<>>
  /\ LET table == Head(taken.left)
         listed == IF table = "blueprints" THEN blueprints ELSE Report(model)[table]
     IN  taken' = [taken EXCEPT !.left = Tail(@), !.rows[table] = listed]
  /\ UNCHANGED <<model, blueprints, pages, forms, schemas>>

Disturb ==
  taken' = IF taken = Absent \/ IsReported THEN taken ELSE [taken EXCEPT !.quiet = FALSE]

ModelStep ==
  /\ \/ \E d \in DataTypeAliases, limit \in Limits \cup {Absent} :
          Become(SaveDataType(model, d, limit))
     \/ \E t \in TemplateAliases, allowed \in SUBSET TypeAliases :
          Become(SaveTemplate(model, t, allowed))
     \/ \E c \in CompositionAliases, names \in SUBSET FieldAliases :
          \E fields \in [names -> Fields] : Become(SaveComposition(model, c, fields))
     \/ \E t \in TypeAliases, names \in SUBSET FieldAliases, template \in TemplateAliases,
           groups \in {<<>>} \cup {<<c>> : c \in CompositionAliases},
           children \in SUBSET TypeAliases, atRoot, element \in BOOLEAN :
          \E fields \in [names -> Fields] :
            Become(SaveType(model, t,
              [fields |-> fields, groups |-> groups, template |-> template,
               children |-> children, atRoot |-> atRoot, element |-> element]))
  /\ Disturb
  /\ UNCHANGED <<blueprints, pages, forms>>

\* _clean_blueprint_payload gives every field of the type a value, and checks none.
Blueprint(m, t, payload) ==
  [type |-> t, payload |-> [f \in DOMAIN Schema(m, t) |->
                             IF f \in DOMAIN payload THEN payload[f] ELSE 0]]

SaveBlueprint(b, t, payload) ==
  /\ t \in DOMAIN model.types
  /\ blueprints' = [blueprints EXCEPT ![b] = Blueprint(model, t, payload)]
  /\ Disturb
  /\ UNCHANGED <<model, pages, forms, schemas>>

\* The blueprints of a report are saved last; one whose type is not there raises.
Placeable(report, m) ==
  \A b \in BlueprintIds :
    report.blueprints[b] # Absent => report.blueprints[b].type \in DOMAIN m.types

\* An import is many saves. One that raises, or that others interrupt, is to the
\* tables a sequence of the saves above; this is one that runs to its end.
RestoreReport ==
  LET m == ImportModel(taken.rows, model)
  IN  /\ IsReported
      /\ Become(m)
      /\ Placeable(taken.rows, m)
      /\ blueprints' = [b \in BlueprintIds |->
           LET row == taken.rows.blueprints[b]
           IN  IF row = Absent THEN blueprints[b] ELSE Blueprint(m, row.type, row.payload)]
      /\ UNCHANGED <<pages, forms, taken>>

DeleteBlueprint(b) ==
  /\ blueprints[b] # Absent
  /\ blueprints' = [blueprints EXCEPT ![b] = Absent]
  /\ Disturb
  /\ UNCHANGED <<model, pages, forms, schemas>>

-----------------------------------------------------------------------------
(* Pages. Those of this module are never moved or deleted.                 *)

Idle == [at |-> "idle"]
Fill(e, form) == forms' = [forms EXCEPT ![e] = form] /\ UNCHANGED <<model, blueprints, pages, schemas, taken>>

\* The fields a blueprint does not have get the editor's overrides or nothing.
Begin(e, t, parent, payload) ==
  forms[e] = Idle /\ Fill(e, [at |-> "begun", type |-> t, parent |-> parent, payload |-> payload])
BeginFromBlueprint(e, b, parent, overrides) ==
  /\ blueprints[b] # Absent
  /\ Begin(e, blueprints[b].type, parent,
       [f \in FieldAliases |-> IF overrides[f] # 0 THEN overrides[f]
                               ELSE IF f \in DOMAIN blueprints[b].payload
                               THEN blueprints[b].payload[f] ELSE 0])

ReadType(e) ==
  LET form == forms[e]
  IN  /\ form.at = "begun"
      /\ form.type \in DOMAIN model.types /\ ~model.types[form.type].element
      /\ Fill(e, [at |-> "typed", type |-> form.type, parent |-> form.parent,
                  payload |-> form.payload, schema |-> Schema(model, form.type)])

\* allowed_child_types, for the top level and for a page. An unknown type of
\* the parent allows none.
Allowed(t, parent) ==
  /\ t \in DOMAIN model.types /\ ~model.types[t].element
  /\ IF parent = Absent THEN model.types[t].atRoot
     ELSE pages[parent] # Absent /\ t \in model.types[pages[parent].type].children
CheckPlace(e) ==
  /\ forms[e].at = "typed"
  /\ Allowed(forms[e].type, forms[e].parent)
  /\ Fill(e, [forms[e] EXCEPT !.at = "allowed"])

\* The payload is checked with the fields read at first, whatever they are now.
InsertUnchecked(e, p) ==
  /\ forms[e].at = "allowed" /\ pages[p] = Absent
  /\ pages' = [pages EXCEPT ![p] =
       [type |-> forms[e].type, draft |-> Clean(forms[e].schema, forms[e].payload)]]
  /\ forms' = [forms EXCEPT ![e] = Idle]
  /\ UNCHANGED <<model, blueprints, schemas, taken>>
Insert(e, p) ==
  /\ forms[e].at = "allowed" /\ pages[p] = Absent
  /\ Fits(forms[e].schema, forms[e].payload)
  /\ pages' = [pages EXCEPT ![p] =
       [type |-> forms[e].type, draft |-> Clean(forms[e].schema, forms[e].payload)]]
  /\ forms' = [forms EXCEPT ![e] = Idle]
  /\ UNCHANGED <<model, blueprints, schemas, taken>>

\* Any of the checks may raise instead.
Abandon(e) == forms[e] # Idle /\ Fill(e, Idle)

\* update_node reads the type's fields and writes under one lock; without the
\* type it raises.
Edit(p, payload) ==
  /\ pages[p] # Absent /\ pages[p].type \in DOMAIN model.types
  /\ LET schema == Schema(model, pages[p].type)
     IN  /\ Fits(schema, payload)
         /\ pages' = [pages EXCEPT ![p].draft = Clean(schema, payload)]
  /\ UNCHANGED <<model, blueprints, forms, schemas, taken>>

EditorStep(e) ==
  \/ \E t \in TypeAliases, parent \in PageIds \cup {Absent}, payload \in Values :
       Begin(e, t, parent, payload)
  \/ \E b \in BlueprintIds, parent \in PageIds \cup {Absent}, overrides \in Values :
       BeginFromBlueprint(e, b, parent, overrides)
  \/ ReadType(e) \/ CheckPlace(e) \/ Abandon(e)
  \/ \E p \in PageIds : Insert(e, p)

ModelsInit ==
  /\ model = [dataTypes |-> <<>>, compositions |-> <<>>, templates |-> <<>>, types |-> <<>>]
  /\ blueprints = [b \in BlueprintIds |-> Absent]
  /\ pages = [p \in PageIds |-> Absent]
  /\ forms = [e \in Editors |-> Idle]
  /\ schemas = [t \in TypeAliases |-> {}]
  /\ taken = Absent

ModelsNext ==
  \/ ModelStep \/ BeginReport \/ ReadTable \/ RestoreReport
  \/ \E b \in BlueprintIds, t \in TypeAliases, payload \in Values : SaveBlueprint(b, t, payload)
  \/ \E b \in BlueprintIds : DeleteBlueprint(b)
  \/ \E e \in Editors : EditorStep(e)
  \/ \E p \in PageIds, payload \in Values : Edit(p, payload)

ModelsSpec == ModelsInit /\ [][ModelsNext]_modelVars

-----------------------------------------------------------------------------
\* Whatever blueprints were made under other fields, and however the model
\* changes while a page is being created, a draft is never one that no version
\* of its content type would have accepted.
DraftsFitASchema ==
  \A p \in PageIds : pages[p] # Absent =>
    \E s \in schemas[pages[p].type] :
      DOMAIN s = DOMAIN pages[p].draft /\ Fits(s, pages[p].draft)

\* A model that was exported while nobody changed it can be imported: into an
\* empty site and into any that the exporting site may have become, with
\* templates that by now allow other types, without an error half way.
EmptyModel == [dataTypes |-> <<>>, compositions |-> <<>>, templates |-> <<>>, types |-> <<>>]
Importable(report, into) ==
  LET m == ImportModel(report, into) IN m # Raised /\ Placeable(report, m)
ReportsImport ==
  IsReported /\ taken.quiet =>
    Importable(taken.rows, EmptyModel) /\ Importable(taken.rows, model)
=============================================================================
