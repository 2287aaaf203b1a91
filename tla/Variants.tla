------------------------------ MODULE Variants ------------------------------
(***************************************************************************)
(* Language variants and audience segments (services/cms.py): copies of a  *)
(* page with a draft and a published payload of their own, laid over the   *)
(* published payload of the page when it is delivered. They are stored per *)
(* node in two tables of the same shape, and only a purge takes them away: *)
(* unpublishing, deleting and restoring the page leave them as they are.   *)
(***************************************************************************)
EXTENDS ContentNodes

CONSTANTS
  Cultures,   (* normalised culture codes                                  *)
  Segments    (* normalised segment aliases                                *)

Base == <<>>   (* the key of the page itself, which no copy has            *)

ASSUME CopyAssumption == Cultures \cap Segments = {} /\ Base \notin Cultures \cup Segments

VARIABLES
  copies,     (* the row of each node and key, or NoCopy                   *)
  released    (* what was ever published, and as what: a history variable  *)

copyVars == <<copies, released>>
variantVars == <<vars, copyVars>>

CopyKeys == Cultures \cup Segments

\* A segment overrides some fields of the page; None is the override of none.
CopyRows == [status: {"draft", "published"}, draft: Payloads \cup {None},
             pub: Payloads \cup {None}]
NoCopy == [status |-> "draft", draft |-> None, pub |-> None]
NoCopies == [k \in CopyKeys |-> NoCopy]

\* upsert_content_variant and upsert_content_segment: a copy that is published
\* stays so, with the payload it was published with.
SaveCopyLive(n, k, payload, actor) ==
  /\ Exists(n) /\ MayWrite(n, actor)
  /\ copies' = [copies EXCEPT ![n][k].draft = payload,
       ![n][k].pub = IF copies[n][k].status = "published" THEN payload ELSE @]
  /\ UNCHANGED <<vars, released>>
SaveCopy(n, k, payload, actor) ==
  /\ Exists(n) /\ MayWrite(n, actor)
  /\ copies' = [copies EXCEPT ![n][k].draft = payload]
  /\ UNCHANGED <<vars, released>>

PublishCopy(n, k, actor) ==
  LET draft == copies[n][k].draft
  IN  /\ Exists(n) /\ MayWrite(n, actor)
      /\ copies[n][k] # NoCopy
      /\ copies' = [copies EXCEPT ![n][k].status = "published", ![n][k].pub = draft]
      /\ released' = released \cup {<<n, k, draft>>}
      /\ UNCHANGED vars

\* A variant is published if the content type accepts its payload, a segment
\* if it overrides anything.
SaveVariant(n, culture, payload, actor) == SaveCopy(n, culture, payload, actor)
PublishVariant(n, culture, actor) ==
  copies[n][culture].draft \in Publishable /\ PublishCopy(n, culture, actor)
SaveSegment(n, segment, payload, actor) == SaveCopy(n, segment, payload, actor)
PublishSegment(n, segment, actor) ==
  copies[n][segment].draft # None /\ PublishCopy(n, segment, actor)

\* What happens to the page: a purge deletes its copies.
FollowPage ==
  /\ copies' = [n \in NodeIds |->
       IF nodes'[n].status = "purged" THEN NoCopies ELSE copies[n]]
  /\ released' = released \cup {<<n, Base, nodes'[n].pub>> : n \in NodeIds}

PageStep == TreeStep /\ FollowPage
CopyStep ==
  \E n \in NodeIds, a \in Actors :
    \/ \E c \in Cultures :
         PublishVariant(n, c, a) \/ \E p \in Payloads : SaveVariant(n, c, p, a)
    \/ \E s \in Segments :
         PublishSegment(n, s, a) \/ \E p \in Payloads \cup {None} : SaveSegment(n, s, p, a)

VariantInit ==
  /\ Init
  /\ copies = [n \in NodeIds |-> NoCopies]
  /\ released = {<<n, Base, nodes[n].pub>> : n \in NodeIds}

VariantNext == PageStep \/ CopyStep
VariantSpec == VariantInit /\ [][VariantNext]_variantVars

-----------------------------------------------------------------------------
(* Delivery.                                                               *)

\* _published_variant and _published_segment.
PublishedCopy(n, k) ==
  IF k \in CopyKeys /\ copies[n][k].status = "published" THEN copies[n][k].pub ELSE None

\* What a reader gets: the page, over it its published copy of the culture, and
\* over both that of the segment; one without a published copy is skipped.
Layer(n, k) == IF PublishedCopy(n, k) = None THEN {} ELSE {<<n, k, PublishedCopy(n, k)>>}

DeliveryPayload(n, culture, segment) ==
  {<<n, Base, nodes[n].pub>>} \cup Layer(n, culture) \cup Layer(n, segment)

-----------------------------------------------------------------------------
\* "Saved variant draft" and "Published variant" are two operations: whatever
\* is saved, deleted, restored and published again around them, a reader gets
\* only payloads somebody published, and each as the copy it was published as.
ServedWasReleased ==
  \A n \in NodeIds, c \in Cultures \cup {None}, s \in Segments \cup {None} :
    nodes[n].status = "published" => DeliveryPayload(n, c, s) \subseteq released

=============================================================================
