---------------------------- MODULE ContentBuilder ----------------------------
(***************************************************************************)
(* The content builder (services/content_builder.py): the body of a page   *)
(* is a list of blocks, which an editor's form sends as JSON; a save       *)
(* parses it strictly and stores what it serializes again (services/cms.py,*)
(* _clean_payload), and the public page parses the stored blocks once more *)
(* and renders them. A preview renders the form's own blocks.              *)
(*                                                                         *)
(* A text is empty, "short" (shorter than the audit asks for, and no       *)
(* internal path) or "good". HTML is a text: how it is cleaned is not      *)
(* modelled. A title is its rank in the order titles are sorted in.        *)
(***************************************************************************)
EXTENDS Naturals, FiniteSets, Sequences, SequencesExt

CONSTANT Bodies   (* what a form may send *)

VARIABLES
  body,     (* what the form holds                                         *)
  stored,   (* the body in the page's payload                              *)
  from      (* what it was saved from: history                             *)

bodyVars == <<body, stored, from>>

-----------------------------------------------------------------------------
(* Fields: how a value is normalized, and what stands in for a missing one. *)

Texts == {"", "short", "good"}
Field(editor, required, default) ==
  [editor |-> editor, required |-> required, default |-> default]

NoRows == [as |-> "text", rows |-> <<>>]
Plain(default) == Field("text", FALSE, default)
Asked(default) == Field("text", TRUE, default)
Items == Field("items", FALSE, NoRows)
Names == Field("list", FALSE, <<"good">>)
Flag == Field("checkbox", FALSE, FALSE)

\* A line of an items field: its cells, of which the first five have names.
CellNames == <<"title", "text", "icon", "url", "meta">>
IsBlank(line) == \A i \in DOMAIN line : line[i] = ""
OfLine(line) ==
  LET cells == {i \in DOMAIN line : i <= Len(CellNames) /\ line[i] # ""}
  IN  [name \in {CellNames[i] : i \in cells} |->
         line[CHOOSE i \in cells : CellNames[i] = name]]

\* The elements of s that are among the values, in their order.
Kept(s, values) ==
  LET kept[i \in 0..Len(s)] ==
        IF i = 0 THEN <<>>
        ELSE IF s[i] \in values THEN Append(kept[i-1], s[i]) ELSE kept[i-1]
  IN  kept[Len(s)]

\* _normalize_items: of a text, every line with a cell, even with one that has
\* no name; of a list, the objects and lines that come to something.
NormalItems(value) ==
  CASE value.as = "text" ->
         LET lines == Kept(value.rows, {line \in ToSet(value.rows) : ~IsBlank(line)})
         IN  [i \in DOMAIN lines |-> OfLine(lines[i])]
    [] value.as = "lines" ->
         LET items == [i \in DOMAIN value.rows |-> OfLine(value.rows[i])]
         IN  Kept(items, {item \in ToSet(items) : DOMAIN item # {}})
    [] value.as = "objects" ->
         Kept(value.rows, {item \in ToSet(value.rows) : \E k \in DOMAIN item : item[k] # ""})

Normal(field, value) ==
  CASE field.editor = "items" -> [as |-> "objects", rows |-> NormalItems(value)]
    [] field.editor = "list" -> Kept(value, ToSet(value) \ {""})
    [] OTHER -> value

\* What a form holds of a field.
IsValue(field, value) ==
  CASE field.editor = "items" ->
         value.as \in {"text", "lines", "objects"} /\ value.rows \in Seq(ToSet(value.rows))
    [] field.editor = "list" -> value \in Seq(ToSet(value))
    [] OTHER -> TRUE

\* Only texts are required of anybody.
HasValue(value) == value # ""

-----------------------------------------------------------------------------
(* The block types, and the blueprints made of them.                       *)

PageBlocks ==
  [hero |-> [eyebrow |-> Plain("short"), title |-> Asked("good"), subtitle |-> Plain(""),
             cta_label |-> Plain("short"), cta_url |-> Plain("good"), image_url |-> Plain(""),
             alignment |-> Plain("short"), compact |-> Flag],
   rich_text |-> [body |-> Asked("short")],
   cta |-> [title |-> Asked("good"), text |-> Plain(""), button_label |-> Plain("good"),
            button_url |-> Plain("good"), tone |-> Plain("short")],
   feature_grid |-> [title |-> Plain("good"), items |-> Items],
   faq |-> [title |-> Plain("short"), items |-> Items],
   quote |-> [quote |-> Asked(""), attribution |-> Plain("")]]
RuntimeBlocks ==
  [media |-> [media_url |-> Asked(""), alt_text |-> Plain(""), caption |-> Plain(""),
              layout |-> Plain("short")],
   api_tool |-> [title |-> Asked("good"), endpoint |-> Asked("good"), method |-> Plain("short"),
                 description |-> Plain(""), payload_example |-> Plain("")],
   rag_reference |-> [title |-> Plain("good"), corpus_key |-> Asked("short"),
                      query_hint |-> Plain(""), tags |-> Plain("")],
   expert_cards |-> [title |-> Plain("good"), expert_ids |-> Names],
   pricing_table |-> [title |-> Plain("good"), items |-> Items]]
ReportBlocks ==
  [steps |-> [title |-> Plain("good"), items |-> Items],
   download_card |-> [title |-> Asked("good"), description |-> Plain(""), file_url |-> Asked(""),
                      button_label |-> Plain("good")],
   embed |-> [title |-> Plain(""), html |-> Plain("")],
   metrics |-> [title |-> Plain("short"), items |-> Items]]

BlockTypes == PageBlocks @@ RuntimeBlocks @@ ReportBlocks

\* Of a blueprint's blocks: their types, and the texts each of them fills in.
LandingBlueprints ==
  [bot_landing_full |->
     << <<"hero", {"eyebrow", "title", "subtitle", "cta_label", "cta_url"}>>,
        <<"feature_grid", {"title"}>>,
        <<"api_tool", {"title", "endpoint", "method", "description", "payload_example"}>>,
        <<"rag_reference", {"title", "corpus_key", "query_hint", "tags"}>>,
        <<"faq", {"title"}>>,
        <<"cta", {"title", "text", "button_label", "button_url"}>> >>,
   rag_article |->
     << <<"rich_text", {"body"}>>,
        <<"rag_reference", {"title", "corpus_key", "query_hint", "tags"}>>,
        <<"faq", {"title"}>>,
        <<"cta", {"title", "text", "button_label", "button_url"}>> >>]
ProfileBlueprints ==
  [expert_profile |->
     << <<"hero", {"eyebrow", "title", "subtitle", "cta_label", "cta_url"}>>,
        <<"feature_grid", {"title"}>>,
        <<"expert_cards", {"title"}>>,
        <<"cta", {"title", "text", "button_label", "button_url"}>> >>,
   download_report |->
     << <<"hero", {"eyebrow", "title", "subtitle", "cta_label", "cta_url"}>>,
        <<"api_tool", {"title", "endpoint", "method", "description", "payload_example"}>>,
        <<"download_card", {"title", "description", "file_url", "button_label"}>> >>]

-----------------------------------------------------------------------------
(* Parsing and serializing. A raw block may leave out its title (0), its     *)
(* order ({}), and "settings": then the keys beside those count (flat).      *)

NamesInOrder == <<"api_tool", "cta", "download_card", "embed", "expert_cards", "faq",
                  "feature_grid", "hero", "media", "metrics", "pricing_table", "quote",
                  "rag_reference", "rich_text", "steps">>
NameRank(type) == CHOOSE i \in DOMAIN NamesInOrder : NamesInOrder[i] = type

Reserved == {"id", "block_id", "type", "block_type", "title", "order"}
GivenKeys(block) == IF block.flat THEN DOMAIN block.settings \ Reserved ELSE DOMAIN block.settings
Filled(fields, given, settings) ==
  [f \in DOMAIN fields |->
     Normal(fields[f], IF f \in given THEN settings[f] ELSE fields[f].default)]
Settings(block) == Filled(BlockTypes[block.type], GivenKeys(block), block.settings)

Known(block) == block.type \in DOMAIN BlockTypes
HasRequired(fields, settings) ==
  \A f \in DOMAIN fields : fields[f].required => HasValue(settings[f])
Complete(block) == HasRequired(BlockTypes[block.type], Settings(block))

IsRaw(block) ==
  /\ block.title \in Nat /\ block.order \subseteq Nat
  /\ Known(block) =>
       \A f \in GivenKeys(block) \cap DOMAIN BlockTypes[block.type] :
         IsValue(BlockTypes[block.type][f], block.settings[f])
IsBody(value) ==
  value.shape = "list" =>
    /\ value.blocks \in Seq(ToSet(value.blocks))
    /\ \A i \in DOMAIN value.blocks : IsRaw(value.blocks[i])
ASSUME BodiesAssumption == \A value \in Bodies : IsBody(value)

\* A strict parse raises for what a lenient one leaves out or leaves empty.
Raw(value) == IF value.shape = "list" THEN value.blocks ELSE <<>>
Accepts(value) ==
  /\ value.shape = "list"
  /\ \A i \in DOMAIN value.blocks : Known(value.blocks[i]) /\ Complete(value.blocks[i])

BlockAt(raw, i) ==
  [type |-> raw[i].type,
   title |-> IF raw[i].title = 0 THEN NameRank(raw[i].type) ELSE raw[i].title,
   order |-> IF raw[i].order = {} THEN i - 1 ELSE CHOOSE n \in raw[i].order : TRUE,
   settings |-> Settings(raw[i])]

\* By order, then by title, then as they came.
Before(at, i, j) ==
  \/ at[i].order < at[j].order
  \/ /\ at[i].order = at[j].order
     /\ at[i].title < at[j].title \/ (at[i].title = at[j].title /\ i < j)
Sorted(at) ==
  [k \in 1..Cardinality(DOMAIN at) |->
     at[CHOOSE i \in DOMAIN at : Cardinality({j \in DOMAIN at : Before(at, j, i)}) = k - 1]]
ParseBlocks(raw) == Sorted([i \in {i \in DOMAIN raw : Known(raw[i])} |-> BlockAt(raw, i)])
Parse(value) == ParseBlocks(Raw(value))

RawBlock(type, title, order, flat, settings) ==
  [type |-> type, title |-> title, order |-> order, flat |-> flat, settings |-> settings]
SerializeFilled(blocks) ==
  [shape |-> "list",
   blocks |-> [i \in DOMAIN blocks |->
     LET b == blocks[i]
         filled == {f \in DOMAIN b.settings : BlockTypes[b.type][f].editor # "text" \/ b.settings[f] # ""}
     IN  RawBlock(b.type, b.title, {b.order}, FALSE, [f \in filled |-> b.settings[f]])]]
Serialize(blocks) ==
  [shape |-> "list",
   blocks |-> [i \in DOMAIN blocks |->
     LET b == blocks[i] IN RawBlock(b.type, b.title, {b.order}, FALSE, b.settings)]]

Again(value) == Serialize(Parse(value))

-----------------------------------------------------------------------------
(* What a reader sees of a block, and what the audit says of a body.         *)

Shown ==
  [hero |-> {"eyebrow", "title", "subtitle", "cta_label", "cta_url", "image_url", "compact"},
   rich_text |-> {"body"},
   cta |-> {"title", "text", "button_label", "button_url", "tone"},
   feature_grid |-> {"title", "items"}, faq |-> {"title", "items"},
   quote |-> {"quote", "attribution"}, media |-> {"media_url", "alt_text", "caption"},
   api_tool |-> {"title", "endpoint", "method", "description", "payload_example"},
   rag_reference |-> {"title", "corpus_key", "query_hint", "tags"},
   expert_cards |-> {"title", "expert_ids"}, pricing_table |-> {"title", "items"},
   steps |-> {"title", "items"}, embed |-> {"title", "html"}, metrics |-> {"title", "items"},
   download_card |-> {"title", "description", "file_url", "button_label"}]
CardCells ==
  [feature_grid |-> {"icon", "title", "text"}, faq |-> {"title", "text"},
   pricing_table |-> {"title", "price", "tokens", "text"}, steps |-> {"title", "text"},
   metrics |-> {"title", "text"}]
Buttons == [hero |-> {"cta_label", "cta_url"}, cta |-> {"button_label", "button_url"}]

\* A button has both a label and a link, or is left out.
HiddenButton(block) ==
  IF block.type \in DOMAIN Buttons /\ \E f \in Buttons[block.type] : block.settings[f] = ""
  THEN Buttons[block.type] ELSE {}
Cards(type, value) ==
  LET items == Kept(value.rows, {item \in ToSet(value.rows) : DOMAIN item # {}})
  IN  [i \in DOMAIN items |->
         [c \in CardCells[type] |-> IF c \in DOMAIN items[i] THEN items[i][c] ELSE ""]]
Rendered(block) ==
  [f \in Shown[block.type] \ HiddenButton(block) |->
     IF BlockTypes[block.type][f].editor = "items" THEN Cards(block.type, block.settings[f])
     ELSE block.settings[f]]

\* What the audit finds wrong with a block: the texts it should not have there.
Poor == [hero |-> [field |-> "title", texts |-> {"", "short"}, costs |-> 10],
         media |-> [field |-> "alt_text", texts |-> {""}, costs |-> 10],
         download_card |-> [field |-> "file_url", texts |-> {"", "short"}, costs |-> 10],
         api_tool |-> [field |-> "endpoint", texts |-> {"", "short"}, costs |-> 25],
         rag_reference |-> [field |-> "corpus_key", texts |-> {""}, costs |-> 25],
         rich_text |-> [field |-> "body", texts |-> {"", "short"}, costs |-> 10]]

Cost(block) ==
  IF block.type \in DOMAIN Poor /\ block.settings[Poor[block.type].field] \in Poor[block.type].texts
  THEN Poor[block.type].costs ELSE 0
Total(costs) == FoldLeft(LAMBDA sum, cost : sum + cost, 0, costs)
AuditScore(blocks) ==
  LET types == {blocks[i].type : i \in DOMAIN blocks}
      missing == (IF "hero" \in types THEN 0 ELSE 3) +
                 (IF types \cap {"cta", "download_card"} = {} THEN 10 ELSE 0)
      lost == missing + Total([i \in DOMAIN blocks |-> Cost(blocks[i])])
  IN  IF blocks = <<>> THEN 90 ELSE IF lost > 100 THEN 0 ELSE 100 - lost

View(value) ==
  LET blocks == Parse(value)
  IN  [blocks |-> [i \in DOMAIN blocks |-> <<blocks[i].type, Rendered(blocks[i])>>],
       score |-> AuditScore(blocks)]

\* What is shipped: a required field is shown, and a page made of a blueprint is
\* accepted, with nothing the audit calls an error.
OfBlueprint(blocks) ==
  [shape |-> "list",
   blocks |-> [i \in DOMAIN blocks |->
     RawBlock(blocks[i][1], 1, {}, FALSE, [f \in blocks[i][2] |-> "good"])]]
ASSUME BuilderAssumption ==
  /\ DOMAIN Shown = DOMAIN BlockTypes
  /\ \A t \in DOMAIN BlockTypes :
       /\ NameRank(t) \in DOMAIN NamesInOrder
       /\ Shown[t] \subseteq DOMAIN BlockTypes[t]
       /\ \A f \in DOMAIN BlockTypes[t] :
            /\ IsValue(BlockTypes[t][f], BlockTypes[t][f].default)
            /\ BlockTypes[t][f].required => f \in Shown[t] /\ BlockTypes[t][f].editor = "text"
       /\ t \in DOMAIN Buttons =>
            \A f \in Buttons[t] : f \in DOMAIN BlockTypes[t] /\ BlockTypes[t][f].editor = "text"
       /\ t \in DOMAIN Poor =>
            /\ Poor[t].field \in DOMAIN BlockTypes[t]
            /\ BlockTypes[t][Poor[t].field].editor = "text"
  /\ \A made \in {LandingBlueprints, ProfileBlueprints} : \A name \in DOMAIN made :
       /\ Accepts(OfBlueprint(made[name]))
       /\ AuditScore(Parse(OfBlueprint(made[name]))) > 75

-----------------------------------------------------------------------------
(* Writing, saving and opening again.                                        *)

NoBlocks == [shape |-> "list", blocks |-> <<>>]
BodyInit == body = NoBlocks /\ stored = NoBlocks /\ from = NoBlocks

Fill ==
  /\ body' \in Bodies
  /\ UNCHANGED <<stored, from>>

\* The office's form is parsed and serialized by the handler, and that by the
\* service once more; a payload of the platform's routes by the service only.
SaveForm ==
  /\ Accepts(body) /\ Accepts(Again(body))
  /\ stored' = Again(Again(body))
  /\ from' = body
  /\ UNCHANGED body

SaveCall ==
  /\ Accepts(body)
  /\ stored' = Again(body)
  /\ from' = body
  /\ UNCHANGED body

OpenForm ==
  /\ body' = Again(stored)
  /\ UNCHANGED <<stored, from>>

BodyNext == Fill \/ SaveForm \/ SaveCall \/ OpenForm
BodySpec == BodyInit /\ [][BodyNext]_bodyVars
-----------------------------------------------------------------------------
\* What was previewed is what is published: readers see of the stored body what
\* the form's own blocks showed, cards with nothing in them left out, and the
\* audit says the same of both. An editor who opens it and saves it as it is is
\* not refused, and after that no further such save changes it.
SavedAsPreviewed ==
  /\ View(stored) = View(from)
  /\ Accepts(stored) /\ Again(Again(stored)) = Again(stored)
=============================================================================
