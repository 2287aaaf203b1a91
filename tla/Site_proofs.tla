----------------------------- MODULE Site_proofs -----------------------------
(***************************************************************************)
(* What readers of the site may rely on, for any pages, copies, rules and  *)
(* number of requests in progress.                                         *)
(*                                                                         *)
(* That they get only what was published, as the copy it was published as: *)
(* what is served of a copy is set where it is published, and kept or      *)
(* dropped as a whole everywhere else.                                     *)
(*                                                                         *)
(* That the answer to a request, put together by several calls between     *)
(* which everything may change, was live at the address asked for: what a  *)
(* request holds is, at each stage, among what was live since it began.    *)
(*                                                                         *)
(* That nobody is listed a page that was closed to him throughout.         *)
(*                                                                         *)
(* That a preview token that is dead stays so, and one that is not shows   *)
(* the newest version; that one domain at most answers for a host.         *)
(*                                                                         *)
(* That what is stored of a body shows what its preview showed: what a     *)
(* parse makes of a block is changed by a second parse only where nothing  *)
(* is seen, and no further by a third.                                     *)
(***************************************************************************)
EXTENDS PublicReads, PublicListings, ContentBuilder, ContentNodes_proofs

-----------------------------------------------------------------------------
(* Language variants and segments.                                         *)

CopiesWereReleased ==
  /\ copies \in [NodeIds -> [CopyKeys -> CopyRows]]
  /\ \A n \in NodeIds, k \in CopyKeys :
       copies[n][k].status = "published" => <<n, k, copies[n][k].pub>> \in released
  /\ \A n \in NodeIds : <<n, Base, nodes[n].pub>> \in released

LEMMA NoCopyType == NoCopies \in [CopyKeys -> CopyRows] /\ NoCopy.status = "draft"
BY DEF NoCopies, NoCopy, CopyRows

\* Saving keeps the payload that is served; publishing makes it the draft, and
\* notes that.
LEMMA CopyStepKeeps ==
  ASSUME CopiesWereReleased, NEW n \in NodeIds, NEW k \in CopyKeys, NEW row \in CopyRows,
         copies' = [copies EXCEPT ![n] = [copies[n] EXCEPT ![k] = row]], nodes' = nodes, released \subseteq released',
         row.status = "published" => <<n, k, row.pub>> \in released'
  PROVE  CopiesWereReleased'
<1>1. copies' \in [NodeIds -> [CopyKeys -> CopyRows]] /\ copies'[n][k] = row
  BY DEF CopiesWereReleased
<1>2. \A m \in NodeIds, j \in CopyKeys : <<m, j>> # <<n, k>> => copies'[m][j] = copies[m][j]
  BY DEF CopiesWereReleased
<1> QED
  BY <1>1, <1>2 DEF CopiesWereReleased

LEMMA SaveCopyKeeps ==
  ASSUME CopiesWereReleased, NEW n \in NodeIds, NEW k \in CopyKeys, NEW actor,
         NEW payload \in Payloads \cup {None}, SaveCopy(n, k, payload, actor)
  PROVE  CopiesWereReleased'
<1> DEFINE row == [copies[n][k] EXCEPT !.draft = payload]
<1>1. copies[n][k] \in CopyRows
  BY DEF CopiesWereReleased
<1>2. /\ row \in CopyRows /\ row.status = copies[n][k].status
      /\ row.pub = copies[n][k].pub
  BY <1>1 DEF CopyRows
<1>3. copies' = [copies EXCEPT ![n] = [copies[n] EXCEPT ![k] = row]]
  BY DEF SaveCopy, CopiesWereReleased
<1>4. nodes' = nodes /\ released' = released
  BY DEF SaveCopy, vars
<1> HIDE DEF row
<1>5. row.status = "published" => <<n, k, row.pub>> \in released'
  BY <1>2, <1>4 DEF CopiesWereReleased
<1> QED
  BY <1>2, <1>3, <1>4, <1>5, CopyStepKeeps

LEMMA PublishCopyKeeps ==
  ASSUME CopiesWereReleased, NEW n \in NodeIds, NEW k \in CopyKeys, NEW actor,
         PublishCopy(n, k, actor)
  PROVE  CopiesWereReleased'
<1> DEFINE row == [copies[n][k] EXCEPT !.status = "published", !.pub = copies[n][k].draft]
<1>1. copies[n][k] \in CopyRows
  BY DEF CopiesWereReleased
<1>2. row \in CopyRows /\ row.pub = copies[n][k].draft
  BY <1>1 DEF CopyRows
<1>3. copies' = [copies EXCEPT ![n] = [copies[n] EXCEPT ![k] = row]] /\ nodes' = nodes
  BY DEF PublishCopy, CopiesWereReleased, vars
<1>4. released' = released \cup {<<n, k, row.pub>>}
  BY <1>2 DEF PublishCopy
<1> HIDE DEF row
<1>5. released \subseteq released' /\ <<n, k, row.pub>> \in released'
  BY <1>4
<1> QED
  BY <1>2, <1>3, <1>5, CopyStepKeeps

\* A purge takes the copies of a page; every other operation on pages leaves them.
LEMMA FollowPageKeeps ==
  ASSUME CopiesWereReleased, FollowPage
  PROVE  CopiesWereReleased' /\ released \subseteq released'
<1>1. copies' \in [NodeIds -> [CopyKeys -> CopyRows]]
  BY NoCopyType DEF FollowPage, CopiesWereReleased
<1>2. \A n \in NodeIds : copies'[n] = NoCopies \/ copies'[n] = copies[n]
  BY DEF FollowPage
<1>3. released \subseteq released' /\ \A n \in NodeIds : <<n, Base, nodes'[n].pub>> \in released'
  BY DEF FollowPage
<1>4. \A n \in NodeIds, k \in CopyKeys :
        copies'[n][k].status = "published" => <<n, k, copies'[n][k].pub>> \in released'
  BY <1>2, <1>3, NoCopyType DEF CopiesWereReleased, NoCopies
<1> QED
  BY <1>1, <1>3, <1>4 DEF CopiesWereReleased

LEMMA CopyStepKeepsAll ==
  ASSUME CopiesWereReleased, CopyStep
  PROVE  CopiesWereReleased' /\ released \subseteq released' /\ UNCHANGED vars
<1> SUFFICES ASSUME NEW n \in NodeIds, NEW a \in Actors,
                    \/ \E c \in Cultures : \/ PublishVariant(n, c, a)
                                           \/ \E p \in Payloads : SaveVariant(n, c, p, a)
                    \/ \E s \in Segments : \/ PublishSegment(n, s, a)
                                           \/ \E p \in Payloads \cup {None} : SaveSegment(n, s, p, a)
             PROVE  CopiesWereReleased' /\ released \subseteq released' /\ UNCHANGED vars
  BY DEF CopyStep
<1>1. Cultures \subseteq CopyKeys /\ Segments \subseteq CopyKeys
  BY DEF CopyKeys
<1>2. CASE \E k \in CopyKeys : PublishCopy(n, k, a)
  BY <1>2, PublishCopyKeeps DEF PublishCopy
<1>3. CASE \E k \in CopyKeys, p \in Payloads \cup {None} : SaveCopy(n, k, p, a)
  BY <1>3, SaveCopyKeeps DEF SaveCopy
<1> QED
  BY <1>1, <1>2, <1>3 DEF PublishVariant, SaveVariant, PublishSegment, SaveSegment

\* Other tables do not come into it.
LEMMA CopiesStay ==
  ASSUME CopiesWereReleased, UNCHANGED <<nodes, copyVars>>
  PROVE  CopiesWereReleased'
BY DEF copyVars, CopiesWereReleased

LEMMA CopiesStep == CopiesWereReleased /\ [VariantNext]_variantVars => CopiesWereReleased'
BY FollowPageKeeps, CopyStepKeepsAll, CopiesStay DEF VariantNext, PageStep, variantVars, vars

\* What a copy shows was published as that copy.
LEMMA LayerWasReleased ==
  ASSUME CopiesWereReleased, NEW n \in NodeIds, NEW k
  PROVE  \A layer \in Layer(n, k) : layer \in released /\ layer[2] # Base
<1> SUFFICES ASSUME PublishedCopy(n, k) # None
             PROVE  /\ <<n, k, PublishedCopy(n, k)>> \in released
                    /\ k # Base
  BY DEF Layer
<1> QED
  BY CopyAssumption DEF PublishedCopy, CopiesWereReleased, CopyKeys

\* Whatever is saved, published, deleted, restored and purged around them, a reader
\* gets of a page and of its variants and segments only what was published as
\* such, for any pages, cultures, segments and editors.
THEOREM OnlyReleasesAreServed == VariantSpec => []ServedWasReleased
<1>1. VariantInit => CopiesWereReleased
  BY NoCopyType DEF VariantInit, CopiesWereReleased, NoCopies
<1>2. CopiesWereReleased => ServedWasReleased
  <2> SUFFICES ASSUME CopiesWereReleased, NEW n \in NodeIds, NEW c, NEW s
               PROVE  DeliveryPayload(n, c, s) \subseteq released
    BY DEF ServedWasReleased
  <2> QED
    BY LayerWasReleased DEF DeliveryPayload, CopiesWereReleased
<1> QED
  BY <1>1, <1>2, CopiesStep, PTL DEF VariantSpec

-----------------------------------------------------------------------------
(* Operations on pages, under access rules.                                *)

LEMMA PageStepIsTreeStep == PageStepUnderRules => TreeStep
BY DEF PageStepUnderRules, AddPage, CopyPage, ChangePage, TreeStep

-----------------------------------------------------------------------------
(* Requests for a page.                                                    *)

\* What was published of a page, and live at the address if it is its own.
WasLive(layers, live) ==
  \A layer \in layers : layer \in released /\ (layer[2] = Base => layer[3] \in live)

\* What a request knows at each stage, and what was live since it began. The page
\* that was found stays one that was live at the address, whatever becomes of it.
FoundShape(q) ==
  q = [at |-> q.at, node |-> q.node, pub |-> q.pub, route |-> q.route,
       culture |-> q.culture, segment |-> q.segment]
PagedShape(q) ==
  q = [at |-> q.at, node |-> q.node, layers |-> q.layers,
       culture |-> q.culture, segment |-> q.segment]
ReadIsSound(q, live) ==
  /\ q.at \in {"addressed", "found", "admitted"} => LiveAt(q.route) \subseteq live
  /\ q.at \in {"found", "admitted"} =>
       /\ FoundShape(q) /\ q.node \in NodeIds
       /\ <<q.node, Base, q.pub>> \in released /\ q.pub \in live
  /\ q.at \in {"paged", "localized"} => PagedShape(q) /\ q.node \in NodeIds
  /\ q.at \in {"paged", "localized", "shown"} => WasLive(q.layers, live)

ReadsInv ==
  /\ CopiesWereReleased
  /\ reads = [r \in Readers |-> reads[r]]
  /\ shown = [r \in Readers |-> shown[r]]
  /\ \A r \in Readers : ReadIsSound(reads[r], shown[r])

\* A step of one request.
LEMMA ReachKeeps ==
  ASSUME ReadsInv, NEW r \in Readers, NEW q, NEW live,
         reads' = [reads EXCEPT ![r] = q], shown' = [shown EXCEPT ![r] = live],
         UNCHANGED <<nodes, copyVars>>, ReadIsSound(q, live)
  PROVE  ReadsInv'
<1>1. CopiesWereReleased'
  BY CopiesStay DEF ReadsInv
<1>2. /\ reads' = [s \in Readers |-> reads'[s]] /\ shown' = [s \in Readers |-> shown'[s]]
      /\ reads'[r] = q /\ shown'[r] = live
      /\ \A s \in Readers \ {r} : reads'[s] = reads[s] /\ shown'[s] = shown[s]
  BY DEF ReadsInv
<1>3. ASSUME NEW p, NEW l, ReadIsSound(p, l)
      PROVE  ReadIsSound(p, l)'
  BY <1>3 DEF ReadIsSound, LiveAt, PublishedAt, WasLive, FoundShape, PagedShape, copyVars
<1>4. ASSUME NEW s \in Readers
      PROVE  ReadIsSound(reads[s], shown[s])'
  <2>1. CASE s = r
    BY <1>2, <1>3, <2>1
  <2>2. CASE s # r
    <3>1. ReadIsSound(reads[s], shown[s])
      BY DEF ReadsInv
    <3> QED
      BY <1>2, <1>3, <2>2, <3>1
  <2> QED
    BY <2>1, <2>2
<1> QED
  BY <1>1, <1>2, <1>4 DEF ReadsInv

LEMMA PagedUpdate ==
  ASSUME NEW q, PagedShape(q), NEW at, NEW layers
  PROVE  [q EXCEPT !.at = at, !.layers = layers] =
           [at |-> at, node |-> q.node, layers |-> layers,
            culture |-> q.culture, segment |-> q.segment]
<1> DEFINE keys == {"at", "node", "layers", "culture", "segment"}
           new == [q EXCEPT !.at = at, !.layers = layers]
<1>1. q = [k \in keys |-> q[k]]
  BY DEF PagedShape
<1>2. new = [k \in keys |-> IF k = "layers" THEN layers ELSE IF k = "at" THEN at ELSE q[k]]
  BY <1>1
<1> QED
  BY <1>2

LEMMA ReadStepKeeps ==
  ASSUME ReadsInv, NEW r \in Readers, ReadStep(r)
  PROVE  ReadsInv'
<1> DEFINE q == reads[r]
           live == shown[r]
<1>0. ReadIsSound(q, live) /\ CopiesWereReleased
  BY DEF ReadsInv
<1>1. shown = [shown EXCEPT ![r] = live]
  BY DEF ReadsInv
<1>2. ASSUME NEW next, Reach(r, next), UNCHANGED <<tableVars, shown>>, ReadIsSound(next, live)
      PROVE  ReadsInv'
  <2>1. shown' = [shown EXCEPT ![r] = live] /\ UNCHANGED <<nodes, copyVars>>
    BY <1>1, <1>2 DEF tableVars, vars
  <2> QED
    BY <1>2, <2>1, ReachKeeps DEF Reach
<1>3. ASSUME NEW next, next.at \notin {"addressed", "found", "admitted", "paged", "localized", "shown"}
      PROVE  ReadIsSound(next, live)
  BY <1>3 DEF ReadIsSound
<1>4. ASSUME NEW host \in Hosts, NEW path, NEW segment, Arrive(r, host, path, segment)
      PROVE  ReadsInv'
  <2>1. PICK culture : Reach(r, [at |-> "arrived", host |-> host, path |-> path,
                                 culture |-> culture, segment |-> segment])
    BY <1>4 DEF Arrive
  <2> QED
    BY <1>2, <1>3, <1>4, <2>1 DEF Arrive
<1>5. ASSUME FindAddress(r)
      PROVE  ReadsInv'
  <2>1. PICK route :
          /\ Reach(r, [at |-> "addressed", path |-> q.path, route |-> route,
                       culture |-> q.culture, segment |-> q.segment])
          /\ shown' = [shown EXCEPT ![r] = LiveAt(route)]
    BY <1>5 DEF FindAddress
  <2> DEFINE next == [at |-> "addressed", path |-> q.path, route |-> route,
                      culture |-> q.culture, segment |-> q.segment]
  <2>2. ReadIsSound(next, LiveAt(route))
    BY DEF ReadIsSound
  <2>3. UNCHANGED <<nodes, copyVars>>
    BY <1>5 DEF FindAddress, tableVars, vars
  <2> QED
    BY <2>1, <2>2, <2>3, ReachKeeps DEF Reach
<1>6. ASSUME FindPage(r)
      PROVE  ReadsInv'
  <2>1. CASE \E n \in PublishedAt(q.route) :
               Reach(r, [at |-> "found", node |-> n, pub |-> nodes[n].pub, route |-> q.route,
                         culture |-> q.culture, segment |-> q.segment])
    <3>1. PICK n \in PublishedAt(q.route) :
            Reach(r, [at |-> "found", node |-> n, pub |-> nodes[n].pub, route |-> q.route,
                      culture |-> q.culture, segment |-> q.segment])
      BY <2>1
    <3> DEFINE next == [at |-> "found", node |-> n, pub |-> nodes[n].pub, route |-> q.route,
                        culture |-> q.culture, segment |-> q.segment]
    <3>2. LiveAt(q.route) \subseteq live /\ nodes[n].pub \in LiveAt(q.route) /\ n \in NodeIds
      BY <1>0, <1>6 DEF FindPage, ReadIsSound, LiveAt, PublishedAt
    <3>3. <<n, Base, nodes[n].pub>> \in released
      BY <1>0, <3>2 DEF CopiesWereReleased
    <3>4. ReadIsSound(next, live)
      BY <3>2, <3>3 DEF ReadIsSound, FoundShape
    <3> QED
      BY <1>2, <1>6, <3>1, <3>4 DEF FindPage
  <2>2. CASE Reach(r, [at |-> "lost", path |-> q.path])
    BY <1>2, <1>3, <1>6, <2>2 DEF FindPage
  <2> QED
    BY <1>6, <2>1, <2>2 DEF FindPage
<1>7. ASSUME Redirect(r)
      PROVE  ReadsInv'
  BY <1>2, <1>3, <1>7 DEF Redirect
<1>8. ASSUME NEW authenticated, NEW groups, AskAccess(r, authenticated, groups)
      PROVE  ReadsInv'
  <2>1. CASE Reach(r, [q EXCEPT !.at = "admitted"])
    <3> DEFINE next == [at |-> "admitted", node |-> q.node, pub |-> q.pub, route |-> q.route,
                        culture |-> q.culture, segment |-> q.segment]
    <3>1. q.at = "found" /\ FoundShape(q)
      BY <1>0, <1>8 DEF AskAccess, ReadIsSound
    <3>2. [q EXCEPT !.at = "admitted"] = next
      BY <3>1 DEF FoundShape
    <3>3. ReadIsSound(next, live)
      BY <1>0, <3>1 DEF ReadIsSound, FoundShape
    <3> HIDE DEF next
    <3> QED
      BY <1>2, <1>8, <2>1, <3>2, <3>3 DEF AskAccess
  <2>2. CASE Reach(r, [at |-> "denied"]) \/ Reach(r, [at |-> "failed"])
    BY <1>2, <1>3, <1>8, <2>2 DEF AskAccess
  <2> QED
    BY <1>8, <2>1, <2>2 DEF AskAccess
<1>9. ASSUME ReadPage(r)
      PROVE  ReadsInv'
  <2>0. q.at = "admitted"
    BY <1>9 DEF ReadPage
  <2>1. CASE \E n \in PublishedAt(q.route) : ReadAgain(r, n, q)
    <3>1. PICK n \in PublishedAt(q.route) : ReadAgain(r, n, q)
      BY <2>1
    <3> DEFINE next == [at |-> "paged", node |-> n, layers |-> {<<n, Base, nodes[n].pub>>},
                        culture |-> q.culture, segment |-> q.segment]
    <3>2. nodes[n].pub \in live /\ n \in NodeIds
      BY <1>0, <2>0 DEF ReadIsSound, LiveAt, PublishedAt
    <3>3. <<n, Base, nodes[n].pub>> \in released
      BY <1>0, <3>2 DEF CopiesWereReleased
    <3>4. ReadIsSound(next, live)
      BY <3>2, <3>3 DEF ReadIsSound, PagedShape, WasLive
    <3> QED
      BY <1>2, <1>9, <3>1, <3>4 DEF ReadPage, ReadAgain
  <2>2. CASE Reach(r, [at |-> "shown", layers |-> {<<q.node, Base, q.pub>>}])
    <3>1. ReadIsSound([at |-> "shown", layers |-> {<<q.node, Base, q.pub>>}], live)
      BY <1>0, <2>0 DEF ReadIsSound, WasLive
    <3> QED
      BY <1>2, <1>9, <2>2, <3>1 DEF ReadPage
  <2> QED
    BY <1>9, <2>1, <2>2 DEF ReadPage
<1>10. ASSUME NEW k, q.at \in {"paged", "localized"}
       PROVE  WasLive(q.layers \cup Layer(q.node, k), live)
  BY <1>0, <1>10, LayerWasReleased DEF ReadIsSound, WasLive
<1>11. ASSUME ReadVariant(r)
       PROVE  ReadsInv'
  <2> DEFINE next == [at |-> "localized", node |-> q.node,
                      layers |-> q.layers \cup Layer(q.node, q.culture),
                      culture |-> q.culture, segment |-> q.segment]
  <2>1. q.at = "paged" /\ PagedShape(q)
    BY <1>0, <1>11 DEF ReadVariant, ReadIsSound
  <2>2. [q EXCEPT !.at = "localized", !.layers = q.layers \cup Layer(q.node, q.culture)] = next
    BY <2>1, PagedUpdate
  <2>3. WasLive(q.layers \cup Layer(q.node, q.culture), live)
    BY <1>10, <2>1
  <2>4. ReadIsSound(next, live)
    BY <1>0, <2>1, <2>3 DEF ReadIsSound, PagedShape
  <2>5. Reach(r, [q EXCEPT !.at = "localized", !.layers = q.layers \cup Layer(q.node, q.culture)])
    BY <1>11 DEF ReadVariant
  <2> HIDE DEF next
  <2> QED
    BY <1>2, <1>11, <2>2, <2>4, <2>5 DEF ReadVariant
<1>12. ASSUME ReadSegment(r)
       PROVE  ReadsInv'
  <2> DEFINE next == [at |-> "shown", layers |-> q.layers \cup Layer(q.node, q.segment)]
  <2>1. q.at = "localized"
    BY <1>12 DEF ReadSegment
  <2>2. WasLive(q.layers \cup Layer(q.node, q.segment), live)
    BY <1>10, <2>1
  <2>3. ReadIsSound(next, live)
    BY <2>2 DEF ReadIsSound
  <2> QED
    BY <1>2, <1>12, <2>3 DEF ReadSegment
<1>13. ASSUME Finish(r)
       PROVE  ReadsInv'
  <2>1. ReadIsSound(NoRead, {})
    BY DEF ReadIsSound, NoRead
  <2>2. UNCHANGED <<nodes, copyVars>>
    BY <1>13 DEF Finish, tableVars, vars
  <2> QED
    BY <1>13, <2>1, <2>2, ReachKeeps DEF Finish, Reach
<1> QED
  BY <1>4, <1>5, <1>6, <1>7, <1>8, <1>9, <1>11, <1>12, <1>13 DEF ReadStep

\* A step of the site beside the requests in progress: what comes to be live is
\* added to what was.
LEMMA WatchKeeps ==
  ASSUME ReadsInv, Watch, CopiesWereReleased', released \subseteq released'
  PROVE  ReadsInv'
<1>1. /\ reads' = reads
      /\ shown' = [r \in Readers |-> shown'[r]]
      /\ \A r \in Readers : shown[r] \subseteq shown'[r]
  BY DEF Watch
<1>2. \A r \in Readers : reads[r].at \in {"addressed", "found", "admitted"} =>
        LiveAt(reads[r].route)' \subseteq shown'[r]
  <2> SUFFICES ASSUME NEW r \in Readers, reads[r].at \in {"addressed", "found", "admitted"}
               PROVE  LiveAt(reads[r].route)' \subseteq shown'[r]
    OBVIOUS
  <2>1. LiveAt(reads[r].route)' =
          {nodes'[n].pub : n \in {n \in NodeIds :
             nodes'[n].status = "published" /\ nodes'[n].route = reads[r].route}}
    BY <1>1 DEF LiveAt, PublishedAt
  <2> QED
    BY <2>1 DEF Watch
<1>3. ASSUME NEW r \in Readers
      PROVE  ReadIsSound(reads[r], shown[r])'
  <2>1. ReadIsSound(reads[r], shown[r])
    BY DEF ReadsInv
  <2> QED
    BY <1>1, <1>2, <2>1 DEF ReadIsSound, WasLive, FoundShape, PagedShape
<1> QED
  BY <1>1, <1>3 DEF ReadsInv

LEMMA ReadsStep == ReadsInv /\ [SiteNext]_siteVars => ReadsInv'
<1> SUFFICES ASSUME ReadsInv, [SiteNext]_siteVars PROVE ReadsInv'
  OBVIOUS
<1>0. CopiesWereReleased
  BY DEF ReadsInv
<1>1. CASE \E r \in Readers : ReadStep(r)
  BY <1>1, ReadStepKeeps
<1>2. CASE FollowPage /\ Watch
  BY <1>0, <1>2, FollowPageKeeps, WatchKeeps
<1>3. CASE CopyStep /\ Watch
  BY <1>0, <1>3, CopyStepKeepsAll, WatchKeeps
<1>4. CASE UNCHANGED <<nodes, copyVars>> /\ Watch
  BY <1>0, <1>4, CopiesStay, WatchKeeps DEF copyVars
<1>5. CASE UNCHANGED siteVars
  <2>1. UNCHANGED <<nodes, copyVars, readVars>>
    BY <1>5 DEF siteVars, vars
  <2>2. ASSUME NEW r \in Readers
        PROVE  ReadIsSound(reads[r], shown[r])'
    <3>1. ReadIsSound(reads[r], shown[r])
      BY DEF ReadsInv
    <3> QED
      BY <2>1, <3>1 DEF ReadIsSound, LiveAt, PublishedAt, WasLive, FoundShape, PagedShape,
                        copyVars, readVars
  <2> QED
    BY <1>0, <2>1, <2>2, CopiesStay DEF ReadsInv, readVars
<1>6. RuleStep => UNCHANGED nodes
  BY DEF RuleStep, Grant, Revoke, SetAccess, RemoveAccess, vars
<1>7. LinkStep => UNCHANGED nodes
  BY DEF LinkStep, SaveDomain, DeleteDomain, SaveRedirect, IssueToken, RevokeToken, vars
<1>8. Tick => UNCHANGED nodes
  BY DEF Tick
<1> QED
  BY <1>1, <1>2, <1>3, <1>4, <1>5, <1>6, <1>7, <1>8 DEF SiteNext

\* However calls on behalf of a request interleave with everything that happens to
\* pages, copies, domains, redirects and rules, its answer is what was live at the
\* address asked for at some moment of the request, under published copies.
THEOREM AnswersAreLive == SiteSpec => []AnswersWereLive
<1>1. SiteInit => ReadsInv
  <2> SUFFICES ASSUME SiteInit PROVE ReadsInv
    OBVIOUS
  <2>1. CopiesWereReleased
    BY NoCopyType DEF SiteInit, VariantInit, CopiesWereReleased, NoCopies
  <2>2. ReadIsSound(NoRead, {})
    BY DEF ReadIsSound, NoRead
  <2> QED
    BY <2>1, <2>2 DEF SiteInit, ReadsInv
<1>2. ReadsInv => AnswersWereLive
  BY DEF ReadsInv, ReadIsSound, WasLive, AnswersWereLive
<1> QED
  BY <1>1, <1>2, ReadsStep, PTL DEF SiteSpec

-----------------------------------------------------------------------------
(* Requests for more than one page.                                        *)

EntryShape(e) == e = [k \in {"node", "route", "parent", "layers"} |-> e[k]]
EntryIsSound(e) ==
  /\ EntryShape(e)
  /\ e.node \in NodeIds /\ nodes[e.node].status # "absent"
  /\ e.layers \subseteq released

\* Kept is what was open to the reader, or is gone and was asked for by its id.
KeptIsSound(kept, kind, free) ==
  \A k \in kept :
    /\ k[1].layers \subseteq released /\ k[2] \in NodeIds
    /\ \/ k[2] \in free
       \/ kind \in {"search", "tree"} /\ nodes[k[2]].status = "purged"

ListShape(list) ==
  list = [k \in {"at", "kind", "culture", "authenticated", "groups", "unread", "todo",
                 "entry", "subject", "kept"} |-> list[k]]
ListIsSound(list, free) ==
  /\ list.at \in {"listing", "asking"} =>
       /\ ListShape(list)
       /\ OpenPages(list) \subseteq free
       /\ \A e \in list.unread \cup list.todo : EntryIsSound(e)
  /\ list.at \in {"listing", "asking", "listed"} => KeptIsSound(list.kept, list.kind, free)
  /\ list.at = "asking" => EntryIsSound(list.entry) /\ list.subject \in NodeIds

ListsInv ==
  /\ LifecycleInv
  /\ CopiesWereReleased
  /\ lists = [r \in Browsers |-> lists[r]]
  /\ opened = [r \in Browsers |-> opened[r]]
  /\ \A r \in Browsers : ListIsSound(lists[r], opened[r])

\* The same tables, or tables in which rows went one way.
LEMMA EntryStays ==
  ASSUME NEW e, EntryIsSound(e), OneWay, released \subseteq released'
  PROVE  EntryIsSound(e)'
BY DEF EntryIsSound, EntryShape, OneWay

LEMMA SameTables ==
  ASSUME NEW list, NEW free, ListIsSound(list, free), UNCHANGED listTables
  PROVE  ListIsSound(list, free)'
BY DEF ListIsSound, ListShape, EntryIsSound, EntryShape, KeptIsSound, OpenPages, OpenTo, Exists,
       EffectiveRules, Covering, Below, Admits, listTables, vars, copyVars, ruleVars

\* A step of one request.
LEMMA PutKeeps ==
  ASSUME ListsInv, NEW r \in Browsers, NEW list, NEW free,
         lists' = [lists EXCEPT ![r] = list], opened' = [opened EXCEPT ![r] = free],
         UNCHANGED listTables, ListIsSound(list, free)
  PROVE  ListsInv'
<1>1. LifecycleInv' /\ CopiesWereReleased'
  BY LifecycleNext, CopiesStay DEF ListsInv, listTables, vars
<1>2. /\ lists' = [s \in Browsers |-> lists'[s]] /\ opened' = [s \in Browsers |-> opened'[s]]
      /\ lists'[r] = list /\ opened'[r] = free
      /\ \A s \in Browsers \ {r} : lists'[s] = lists[s] /\ opened'[s] = opened[s]
  BY DEF ListsInv
<1>3. ASSUME NEW s \in Browsers
      PROVE  ListIsSound(lists[s], opened[s])'
  <2>1. CASE s = r
    <3>1. ListIsSound(list, free)'
      BY SameTables
    <3> QED
      BY <1>2, <2>1, <3>1
  <2>2. CASE s # r
    <3> DEFINE other == lists[s]
               theirs == opened[s]
    <3>1. ListIsSound(other, theirs)
      BY DEF ListsInv
    <3>2. lists'[s] = other /\ opened'[s] = theirs
      BY <1>2, <2>2
    <3> QED
      BY <3>1, <3>2 DEF ListIsSound, ListShape, EntryIsSound, EntryShape, KeptIsSound, OpenPages,
        OpenTo, Exists, EffectiveRules, Covering, Below, Admits, listTables, vars, copyVars, ruleVars
  <2> QED
    BY <2>1, <2>2
<1> QED
  BY <1>1, <1>2, <1>3 DEF ListsInv

LEMMA EntriesAreSound ==
  ASSUME CopiesWereReleased, NEW pages \in SUBSET NodeIds, NEW parent,
         \A n \in pages : nodes[n].status = "published"
  PROVE  \A e \in Entries(pages, parent) : EntryIsSound(e)
<1> SUFFICES ASSUME NEW n \in pages PROVE EntryIsSound(Entry(n, parent))
  BY DEF Entries
<1> QED
  BY DEF Entry, EntryIsSound, EntryShape, CopiesWereReleased

LEMMA BeginKeeps ==
  ASSUME ListsInv, NEW r \in Browsers, NEW kind, NEW culture, NEW reader, NEW all, NEW unread,
         \A e \in all \cup unread : EntryIsSound(e),
         Begin(r, kind, culture, reader, all, unread)
  PROVE  ListsInv'
<1> DEFINE list == [at |-> "listing", kind |-> kind, culture |-> culture,
                    authenticated |-> reader.authenticated, groups |-> reader.groups,
                    unread |-> unread, todo |-> all, entry |-> None, subject |-> None,
                    kept |-> {}]
<1>1. /\ lists' = [lists EXCEPT ![r] = list]
      /\ opened' = [opened EXCEPT ![r] = OpenPages(list)]
      /\ UNCHANGED listTables
  BY DEF Begin, Put
<1>2. ListIsSound(list, OpenPages(list))
  BY DEF ListIsSound, ListShape, KeptIsSound
<1> HIDE DEF list
<1> QED
  BY <1>1, <1>2, PutKeeps

LEMMA ReaderStepKeeps ==
  ASSUME ListsInv, NEW r \in Browsers, NEW reader, ReaderStep(r, reader)
  PROVE  ListsInv'
<1>0. CopiesWereReleased
  BY DEF ListsInv
<1>1. \A kind : Listed(kind) \subseteq NodeIds /\ \A n \in Listed(kind) : nodes[n].status = "published"
  BY DEF Listed, Reachable
<1>2. \A n \in NodeIds : ChildrenOf(n) \subseteq NodeIds /\ \A m \in ChildrenOf(n) : nodes[m].status = "published"
  BY DEF ChildrenOf
<1>3. \A kind, parent : \A e \in Entries(Listed(kind), parent) : EntryIsSound(e)
  BY <1>0, <1>1, EntriesAreSound
<1>4. CASE StartSitemap(r, reader) \/ StartFeed(r, reader)
  BY <1>3, <1>4, BeginKeeps DEF StartSitemap, StartFeed
<1>5. CASE StartLinks(r, reader)
  <2>1. \A e \in Entries(ChildrenOf(Root), None) : EntryIsSound(e)
    BY <1>0, <1>2, EntriesAreSound, NodeAssumption
  <2> QED
    BY <1>5, <2>1, BeginKeeps DEF StartLinks
<1>6. ASSUME NEW culture, StartSearch(r, culture, reader)
      PROVE  ListsInv'
  <2>1. PICK hits \in SUBSET Entries(Listed("search"), None) :
          Begin(r, "search", culture, reader, hits, hits)
    BY <1>6 DEF StartSearch
  <2> QED
    BY <1>3, <2>1, BeginKeeps
<1>7. ASSUME NEW culture, StartTree(r, culture, reader)
      PROVE  ListsInv'
  <2> DEFINE top == IF nodes[Root].status = "published" THEN Entries({Root}, None) ELSE {}
  <2>1. \A e \in top : EntryIsSound(e)
    BY <1>0, EntriesAreSound, NodeAssumption
  <2>2. Begin(r, "tree", culture, reader, top, top)
    BY <1>7 DEF StartTree
  <2> HIDE DEF top
  <2> QED
    BY <2>1, <2>2, BeginKeeps
<1> QED
  BY <1>4, <1>5, <1>6, <1>7 DEF ReaderStep

LEMMA ListStepKeeps ==
  ASSUME ListsInv, NEW r \in Browsers, ListStep(r)
  PROVE  ListsInv'
<1> DEFINE list == lists[r]
           free == opened[r]
<1>0. ListIsSound(list, free) /\ CopiesWereReleased /\ opened = [opened EXCEPT ![r] = free]
  BY DEF ListsInv
<1>1. ASSUME NEW next, Put(r, next), UNCHANGED <<listTables, opened>>, ListIsSound(next, free)
      PROVE  ListsInv'
  BY <1>0, <1>1, PutKeeps DEF Put
<1>2. ASSUME NEW next, ListShape(next), list.at = "listing", next.at = "listing",
             next.kind = list.kind, next.authenticated = list.authenticated,
             next.groups = list.groups,
             \A e \in next.unread \cup next.todo : EntryIsSound(e),
             KeptIsSound(next.kept, next.kind, free)
      PROVE  ListIsSound(next, free)
  <2>1. OpenPages(next) = OpenPages(list)
    BY <1>2 DEF OpenPages
  <2> QED
    BY <1>0, <1>2, <2>1 DEF ListIsSound
<1>3. ASSUME NEW e, EntryIsSound(e), NEW k
      PROVE  EntryIsSound([e EXCEPT !.layers = @ \cup Layer(e.node, k)])
  <2>1. Layer(e.node, k) \subseteq released
    BY <1>0, <1>3, LayerWasReleased DEF EntryIsSound
  <2> QED
    BY <1>3, <2>1 DEF EntryIsSound, EntryShape
<1>4. CASE ReadResult(r)
  <2>1. PICK e \in list.unread :
          Put(r, [list EXCEPT !.unread = @ \ {e},
                    !.todo = (@ \ {e}) \cup {[e EXCEPT !.layers = @ \cup Layer(e.node, list.culture)]}])
    BY <1>4 DEF ReadResult
  <2> DEFINE unread == list.unread \ {e}
             todo == (list.todo \ {e}) \cup {[e EXCEPT !.layers = @ \cup Layer(e.node, list.culture)]}
             next == [list EXCEPT !.unread = unread, !.todo = todo]
  <2>2. list.at = "listing" /\ ListShape(list)
    BY <1>0, <1>4 DEF ReadResult, ListIsSound
  <2>3. \A x \in unread \cup todo : EntryIsSound(x)
    BY <1>0, <1>3, <2>2 DEF ListIsSound
  <2> HIDE DEF unread, todo
  <2>4. /\ ListShape(next) /\ next.at = list.at /\ next.kind = list.kind
        /\ next.authenticated = list.authenticated /\ next.groups = list.groups
        /\ next.kept = list.kept /\ next.unread = unread /\ next.todo = todo
    BY <2>2 DEF ListShape
  <2>5. Put(r, next)
    BY <2>1 DEF unread, todo
  <2> HIDE DEF next
  <2>6. ListIsSound(next, free)
    BY <1>0, <1>2, <2>2, <2>3, <2>4 DEF ListIsSound
  <2> QED
    BY <1>1, <1>4, <2>5, <2>6 DEF ReadResult
<1>5. CASE ReadBranch(r)
  <2>1. PICK e \in list.unread :
          Put(r, [list EXCEPT !.unread = (@ \ {e}) \cup Entries(ChildrenOf(e.node), e.node),
                    !.todo = ((@ \ {e}) \cup {[e EXCEPT !.layers = @ \cup Layer(e.node, list.culture)]})
                               \cup Entries(ChildrenOf(e.node), e.node)])
    BY <1>5 DEF ReadBranch
  <2> DEFINE below == Entries(ChildrenOf(e.node), e.node)
             unread == (list.unread \ {e}) \cup below
             todo == ((list.todo \ {e}) \cup {[e EXCEPT !.layers = @ \cup Layer(e.node, list.culture)]})
                       \cup below
             next == [list EXCEPT !.unread = unread, !.todo = todo]
  <2>2. list.at = "listing" /\ ListShape(list)
    BY <1>0, <1>5 DEF ReadBranch, ListIsSound
  <2>3. EntryIsSound(e)
    BY <1>0, <2>2 DEF ListIsSound
  <2>4. \A x \in below : EntryIsSound(x)
    BY <1>0, EntriesAreSound DEF ChildrenOf
  <2> HIDE DEF below
  <2>5. \A x \in unread \cup todo : EntryIsSound(x)
    BY <1>0, <1>3, <2>2, <2>4 DEF ListIsSound
  <2>6. Put(r, next)
    BY <2>1 DEF below
  <2> HIDE DEF unread, todo
  <2>7. /\ ListShape(next) /\ next.at = list.at /\ next.kind = list.kind
        /\ next.authenticated = list.authenticated /\ next.groups = list.groups
        /\ next.kept = list.kept /\ next.unread = unread /\ next.todo = todo
    BY <2>2 DEF ListShape
  <2> HIDE DEF next
  <2>8. ListIsSound(next, free)
    BY <1>0, <1>2, <2>2, <2>5, <2>7 DEF ListIsSound
  <2> QED
    BY <1>1, <1>5, <2>6, <2>8 DEF ReadBranch
<1>6. ASSUME NEW e \in list.todo, NEW n \in NodeIds, LookingUp(r), AskFor(r, e, n),
             UNCHANGED <<listTables, opened>>
      PROVE  ListsInv'
  <2> DEFINE next == [list EXCEPT !.at = "asking", !.entry = e, !.subject = n]
  <2>1. list.at = "listing" /\ ListShape(list) /\ Put(r, next)
    BY <1>0, <1>6 DEF LookingUp, AskFor, ListIsSound
  <2>2. /\ ListShape(next) /\ next.at = "asking" /\ next.kind = list.kind
        /\ next.authenticated = list.authenticated /\ next.groups = list.groups
        /\ next.kept = list.kept /\ next.unread = list.unread /\ next.todo = list.todo
        /\ next.entry = e /\ next.subject = n
    BY <2>1 DEF ListShape
  <2> HIDE DEF next
  <2>3. OpenPages(next) = OpenPages(list)
    BY <2>2 DEF OpenPages
  <2>4. ListIsSound(next, free)
    BY <1>0, <2>1, <2>2, <2>3 DEF ListIsSound
  <2> QED
    BY <1>1, <1>6, <2>1, <2>4
<1>7. ASSUME NEW todo \in SUBSET list.todo, NEW kept, list.at = "listing",
             KeptIsSound(kept, list.kind, free),
             Put(r, [list EXCEPT !.todo = todo, !.kept = kept]), UNCHANGED <<listTables, opened>>
      PROVE  ListsInv'
  <2> DEFINE next == [list EXCEPT !.todo = todo, !.kept = kept]
  <2>1. ListShape(list)
    BY <1>0, <1>7 DEF ListIsSound
  <2>2. /\ ListShape(next) /\ next.at = list.at /\ next.kind = list.kind
        /\ next.authenticated = list.authenticated /\ next.groups = list.groups
        /\ next.kept = kept /\ next.unread = list.unread /\ next.todo = todo
    BY <2>1 DEF ListShape
  <2>3. Put(r, next)
    BY <1>7
  <2> HIDE DEF next
  <2>4. ListIsSound(next, free)
    BY <1>0, <1>2, <1>7, <2>2 DEF ListIsSound
  <2> QED
    BY <1>1, <1>7, <2>3, <2>4
<1>8. list.at = "listing" => KeptIsSound(list.kept, list.kind, free) /\ ListShape(list)
  BY <1>0 DEF ListIsSound
<1>9. CASE LookAtRoute(r)
  <2>1. PICK e \in list.todo :
          \/ \E n \in NodeIds : AskFor(r, e, n)
          \/ Put(r, [list EXCEPT !.todo = @ \ {e}])
    BY <1>9 DEF LookAtRoute, Pending
  <2>2. CASE \E n \in NodeIds : AskFor(r, e, n)
    BY <1>6, <1>9, <2>2 DEF LookAtRoute
  <2>3. CASE Put(r, [list EXCEPT !.todo = @ \ {e}])
    <3>1. list.at = "listing"
      BY <1>9 DEF LookAtRoute, LookingUp
    <3>2. [list EXCEPT !.todo = @ \ {e}] = [list EXCEPT !.todo = list.todo \ {e}, !.kept = list.kept]
      BY <1>8, <3>1 DEF ListShape
    <3> QED
      BY <1>7, <1>8, <1>9, <2>3, <3>1, <3>2 DEF LookAtRoute
  <2> QED
    BY <2>1, <2>2, <2>3
<1>10. CASE LookById(r)
  <2>1. PICK e \in list.todo :
          \/ Exists(e.node) /\ AskFor(r, e, e.node)
          \/ /\ ~Exists(e.node)
             /\ Put(r, [list EXCEPT !.todo = @ \ {e}, !.kept = @ \cup {<<e, e.node>>}])
    BY <1>10 DEF LookById, Pending
  <2>2. list.at = "listing" /\ list.kind \in {"search", "tree"} /\ EntryIsSound(e)
    BY <1>0, <1>10 DEF LookById, LookingUp, ListIsSound
  <2>3. CASE AskFor(r, e, e.node)
    BY <1>6, <1>10, <2>2, <2>3 DEF LookById, EntryIsSound
  <2>4. CASE /\ ~Exists(e.node)
             /\ Put(r, [list EXCEPT !.todo = @ \ {e}, !.kept = @ \cup {<<e, e.node>>}])
    <3>1. nodes[e.node].status = "purged"
      BY <2>2, <2>4 DEF EntryIsSound, Exists
    <3>2. KeptIsSound(list.kept \cup {<<e, e.node>>}, list.kind, free)
      BY <1>8, <2>2, <3>1 DEF KeptIsSound, EntryIsSound
    <3> QED
      BY <1>7, <1>10, <2>2, <2>4, <3>2 DEF LookById
  <2> QED
    BY <2>1, <2>3, <2>4
<1>11. CASE LookAtLink(r)
  <2>1. PICK e \in list.todo : AskFor(r, e, e.node)
    BY <1>11 DEF LookAtLink, Pending
  <2>2. e.node \in NodeIds
    BY <1>0, <1>11 DEF LookAtLink, LookingUp, ListIsSound, EntryIsSound
  <2> QED
    BY <1>6, <1>11, <2>1, <2>2 DEF LookAtLink
<1>12. CASE Answer(r)
  <2>0. list.at = "asking" /\ ListShape(list)
    BY <1>0, <1>12 DEF Answer, ListIsSound
  <2>1. CASE Put(r, [at |-> "failed"])
    <3>1. ListIsSound([at |-> "failed"], free)
      BY DEF ListIsSound
    <3> QED
      BY <1>1, <1>12, <2>1, <3>1 DEF Answer
  <2>2. ASSUME Exists(list.subject), NEW rule \in RulesFor(list.subject), NEW more,
               more = IF Admits(rule, list.authenticated, list.groups)
                      THEN {<<list.entry, list.subject>>} ELSE {},
               Put(r, [list EXCEPT !.at = "listing", !.todo = @ \ {list.entry}, !.kept = @ \cup more])
        PROVE  ListsInv'
    <3> DEFINE todo == list.todo \ {list.entry}
               kept == list.kept \cup more
               next == [list EXCEPT !.at = "listing", !.todo = todo, !.kept = kept]
    <3>1. Admits(rule, list.authenticated, list.groups) => list.subject \in OpenPages(list)
      BY <1>0, <2>0, <2>2 DEF ListIsSound, OpenPages, OpenTo, RulesFor
    <3>2. KeptIsSound(kept, list.kind, free)
      BY <1>0, <2>0, <2>2, <3>1 DEF ListIsSound, KeptIsSound, EntryIsSound
    <3> HIDE DEF todo, kept
    <3>3. /\ ListShape(next) /\ next.at = "listing" /\ next.kind = list.kind
          /\ next.authenticated = list.authenticated /\ next.groups = list.groups
          /\ next.kept = kept /\ next.unread = list.unread /\ next.todo = todo
      BY <2>0 DEF ListShape
    <3>4. Put(r, next)
      BY <2>2 DEF todo, kept
    <3> HIDE DEF next
    <3>5. OpenPages(next) = OpenPages(list)
      BY <3>3 DEF OpenPages
    <3>6. ListIsSound(next, free)
      BY <1>0, <2>0, <3>2, <3>3, <3>5 DEF ListIsSound, todo
    <3> QED
      BY <1>1, <1>12, <3>4, <3>6 DEF Answer
  <2> QED
    BY <1>12, <2>1, <2>2 DEF Answer
<1>13. CASE Deliver(r)
  <2> DEFINE next == [at |-> "listed", kind |-> list.kind, kept |-> list.kept]
  <2>1. ListIsSound(next, free)
    BY <1>0, <1>13 DEF Deliver, ListIsSound
  <2> QED
    BY <1>1, <1>13, <2>1 DEF Deliver
<1>14. CASE EndList(r)
  <2>1. ListIsSound(NoList, {})
    BY DEF ListIsSound, NoList
  <2> QED
    BY <1>14, <2>1, PutKeeps DEF EndList, Put
<1> QED
  BY ReaderStepKeeps, <1>4, <1>5, <1>9, <1>10, <1>11, <1>12, <1>13, <1>14 DEF ListStep

\* A step of the site beside the requests in progress: what comes to be open to a
\* reader is added to what was.
LEMMA WatchListsKeep ==
  ASSUME ListsInv, WatchLists, LifecycleInv', CopiesWereReleased', OneWay,
         released \subseteq released'
  PROVE  ListsInv'
<1>1. /\ lists' = lists
      /\ opened' = [r \in Browsers |-> opened'[r]]
      /\ \A r \in Browsers : opened[r] \subseteq opened'[r]
  BY DEF WatchLists
<1>2. \A r \in Browsers : lists[r].at \in {"listing", "asking"} =>
        OpenPages(lists[r])' \subseteq opened'[r]
  BY DEF WatchLists
<1>3. ASSUME NEW r \in Browsers
      PROVE  ListIsSound(lists[r], opened[r])'
  <2> DEFINE list == lists[r]
             free == opened[r]
             more == opened'[r]
  <2>1. ListIsSound(list, free) /\ lists'[r] = list /\ free \subseteq more
    BY <1>1 DEF ListsInv
  <2>2. list.at \in {"listing", "asking"} =>
          \A e \in list.unread \cup list.todo : EntryIsSound(e)'
    BY <2>1, EntryStays DEF ListIsSound
  <2>3. list.at = "asking" => EntryIsSound(list.entry)'
    BY <2>1, EntryStays DEF ListIsSound
  <2>4. KeptIsSound(list.kept, list.kind, free) => KeptIsSound(lists[r].kept, lists[r].kind, opened[r])'
    BY <2>1 DEF KeptIsSound, OneWay
  <2>5. list.at \in {"listing", "asking"} => ListShape(list)
    BY <2>1 DEF ListIsSound
  <2>6. list.at \in {"listing", "asking"} => OpenPages(lists[r])' \subseteq more
    BY <1>2
  <2> QED
    BY <2>1, <2>2, <2>3, <2>4, <2>5, <2>6 DEF ListIsSound, ListShape
<1> QED
  BY <1>1, <1>3 DEF ListsInv

LEMMA ListsStep == ListsInv /\ [ListingNext]_<<listTables, listVars>> => ListsInv'
<1> SUFFICES ASSUME ListsInv, [ListingNext]_<<listTables, listVars>> PROVE ListsInv'
  OBVIOUS
<1>0. LifecycleInv /\ CopiesWereReleased
  BY DEF ListsInv
<1>1. CASE \E r \in Browsers : ListStep(r)
  BY <1>1, ListStepKeeps
<1>2. CASE PageStepUnderRules /\ FollowPage /\ WatchLists
  <2>1. TreeStep
    BY <1>2, PageStepIsTreeStep
  <2>2. LifecycleInv' /\ OneWay
    BY <1>0, <2>1, LifecycleNext, TreeStepKeepsTree DEF Next
  <2> QED
    BY <1>0, <1>2, <2>2, FollowPageKeeps, WatchListsKeep
<1>3. ASSUME UNCHANGED vars
      PROVE  LifecycleInv' /\ OneWay
  BY <1>0, <1>3, LifecycleNext DEF vars, OneWay
<1>4. CASE CopyStep /\ WatchLists
  BY <1>0, <1>3, <1>4, CopyStepKeepsAll, WatchListsKeep
<1>5. CASE RuleStep /\ UNCHANGED copyVars /\ WatchLists
  <2>1. UNCHANGED vars
    BY <1>5 DEF RuleStep, Grant, Revoke, SetAccess, RemoveAccess
  <2> QED
    BY <1>0, <1>3, <1>5, <2>1, CopiesStay, WatchListsKeep DEF vars, copyVars
<1>6. CASE UNCHANGED <<listTables, listVars>>
  <2>1. UNCHANGED <<nodes, copyVars>> /\ UNCHANGED vars
    BY <1>6 DEF listTables, vars
  <2>2. ASSUME NEW r \in Browsers
        PROVE  ListIsSound(lists[r], opened[r])'
    <3>1. ListIsSound(lists[r], opened[r]) /\ lists' = lists /\ opened' = opened
      BY <1>6 DEF ListsInv, listVars
    <3> DEFINE list == lists[r]
               free == opened[r]
    <3>2. UNCHANGED listTables
      BY <1>6
    <3> QED
      BY <3>1, <3>2 DEF ListIsSound, ListShape, EntryIsSound, EntryShape, KeptIsSound, OpenPages,
        OpenTo, Exists, EffectiveRules, Covering, Below, Admits, listTables, vars, copyVars, ruleVars
  <2> QED
    BY <1>0, <1>3, <1>6, <2>1, <2>2, CopiesStay DEF ListsInv, listVars
<1> QED
  BY <1>1, <1>2, <1>4, <1>5, <1>6 DEF ListingNext

\* Whatever happens to pages and rules between the calls a list is put together by,
\* for any number of readers: nobody is listed a page that was closed to him
\* throughout, unless it is gone, and of none what was never published.
THEOREM OnlyOpenIsListed == ListingSpec => []ListedWasOpen
<1>1. ListingInit => ListsInv
  <2> SUFFICES ASSUME ListingInit PROVE ListsInv
    OBVIOUS
  <2>1. LifecycleInv /\ CopiesWereReleased
    BY LifecycleInit, NoCopyType DEF ListingInit, VariantInit, CopiesWereReleased, NoCopies
  <2>2. ListIsSound(NoList, {})
    BY DEF ListIsSound, NoList
  <2> QED
    BY <2>1, <2>2 DEF ListingInit, ListInit, ListsInv
<1>2. ListsInv => ListedWasOpen
  BY DEF ListsInv, ListIsSound, KeptIsSound, ListedWasOpen
<1> QED
  BY <1>1, <1>2, ListsStep, PTL DEF ListingSpec

-----------------------------------------------------------------------------
(* Preview tokens.                                                         *)

TokenRows == [node: NodeIds \cup {None}, expires: Nat, revoked: BOOLEAN]

TokensInv ==
  /\ LifecycleInv
  /\ tokens \in [Tokens -> TokenRows]
  /\ \A t \in Tokens : tokens[t] # NoToken => tokens[t].node \in NodeIds

\* What a step may do to a token: issue one that was none, revoke it, nothing.
LEMMA TokensStep ==
  ASSUME TokensInv, [RoutingNext]_routingVars
  PROVE  /\ TokensInv' /\ OneWay /\ now' \in Nat /\ now <= now'
         /\ \A t \in Tokens : tokens[t] # NoToken =>
              /\ tokens'[t] # NoToken
              /\ tokens'[t].node = tokens[t].node
              /\ tokens'[t].expires = tokens[t].expires
              /\ tokens[t].revoked => tokens'[t].revoked
<1>0. LifecycleInv /\ now \in Nat
  BY DEF TokensInv, LifecycleInv, TypeOK
<1>1. [Next]_vars
  BY DEF RoutingNext, Next, LinkStep, SaveDomain, DeleteDomain, SaveRedirect, IssueToken,
         RevokeToken, routingVars
<1>2. LifecycleInv' /\ OneWay
  BY <1>0, <1>1, LifecycleNext, NextKeepsTree
<1>3. now' \in Nat
  BY <1>2 DEF LifecycleInv, TypeOK
<1>4. now' = now \/ now' = now + 1
  BY <1>1 DEF Next, TreeStep, Create, Update, Publish, Unpublish, Delete, RestoreTrashed, Purge,
    Duplicate, HistoryStep, RestoreVersion, CleanupVersions, LockStep, AcquireLock, ReleaseLock,
    WorkflowStep, UpsertWorkflow, Tick, vars
<1>5. now <= now'
  BY <1>0, <1>3, <1>4
<1>6. ASSUME NEW t \in Tokens, NEW row \in TokenRows, row.node \in NodeIds,
             tokens' = [tokens EXCEPT ![t] = row],
             tokens[t] # NoToken =>
               /\ row.node = tokens[t].node /\ row.expires = tokens[t].expires
               /\ tokens[t].revoked => row.revoked
      PROVE  /\ tokens' \in [Tokens -> TokenRows]
             /\ \A s \in Tokens : tokens'[s] # NoToken => tokens'[s].node \in NodeIds
             /\ \A s \in Tokens : tokens[s] # NoToken =>
                  /\ tokens'[s] # NoToken
                  /\ tokens'[s].node = tokens[s].node
                  /\ tokens'[s].expires = tokens[s].expires
                  /\ tokens[s].revoked => tokens'[s].revoked
  <2>1. row # NoToken
    BY <1>6, NodeAssumption DEF NoToken
  <2>2. tokens'[t] = row /\ \A s \in Tokens \ {t} : tokens'[s] = tokens[s]
    BY <1>6 DEF TokensInv
  <2> QED
    BY <1>6, <2>1, <2>2 DEF TokensInv
<1>7. ASSUME NEW t \in Tokens, NEW n \in NodeIds, NEW ttl \in PreviewTtls, IssueToken(t, n, ttl)
      PROVE  \E row \in TokenRows :
               /\ row.node \in NodeIds /\ tokens' = [tokens EXCEPT ![t] = row]
               /\ tokens[t] = NoToken
  <2> DEFINE row == [node |-> n, expires |-> now + ttl, revoked |-> FALSE]
  <2>1. row \in TokenRows
    BY <1>0, TokenAssumption DEF TokenRows
  <2> QED
    BY <1>7, <2>1 DEF IssueToken
<1>8. ASSUME NEW t \in Tokens, RevokeToken(t)
      PROVE  \E row \in TokenRows :
               /\ row.node \in NodeIds /\ tokens' = [tokens EXCEPT ![t] = row]
               /\ row.node = tokens[t].node /\ row.expires = tokens[t].expires
               /\ row.revoked
  <2> DEFINE row == [tokens[t] EXCEPT !.revoked = TRUE]
  <2>1. tokens[t] \in TokenRows /\ tokens[t].node \in NodeIds
    BY <1>8 DEF RevokeToken, TokensInv
  <2>2. /\ row \in TokenRows /\ row.node = tokens[t].node
        /\ row.expires = tokens[t].expires /\ row.revoked
    BY <2>1 DEF TokenRows
  <2>3. tokens' = [tokens EXCEPT ![t] = row]
    BY <1>8 DEF RevokeToken, TokensInv
  <2> QED
    BY <2>1, <2>2, <2>3
<1>9. CASE \E t \in Tokens, n \in NodeIds, ttl \in PreviewTtls : IssueToken(t, n, ttl)
  BY <1>2, <1>3, <1>5, <1>6, <1>7, <1>9 DEF TokensInv
<1>10. CASE \E t \in Tokens : RevokeToken(t)
  BY <1>2, <1>3, <1>5, <1>6, <1>8, <1>10 DEF TokensInv
<1>11. CASE UNCHANGED tokens
  BY <1>2, <1>3, <1>5, <1>11 DEF TokensInv
<1> QED
  BY <1>9, <1>10, <1>11
  DEF RoutingNext, LinkStep, SaveDomain, DeleteDomain, SaveRedirect, linkVars, routingVars

\* A preview token that has lapsed, was revoked, or whose page was purged shows
\* nothing ever again, whatever happens to pages, for any number of tokens.
THEOREM DeadTokensAreDead == RoutingSpec => DeadTokensStayDead
<1>1. RoutingInit => TokensInv
  <2> SUFFICES ASSUME RoutingInit PROVE TokensInv
    OBVIOUS
  <2>1. NoToken \in TokenRows
    BY DEF NoToken, TokenRows
  <2> QED
    BY <2>1, LifecycleInit DEF RoutingInit, TokensInv
<1>2. TokensInv /\ [RoutingNext]_routingVars => TokensInv'
  BY TokensStep
<1>3. TokensInv /\ [RoutingNext]_routingVars =>
        [\A t \in Tokens :
           (tokens[t] # NoToken /\ (~TokenIsActive(t) \/ nodes[tokens[t].node].status = "purged"))
             => Preview(t)' = None]_routingVars
  <2> SUFFICES ASSUME TokensInv, [RoutingNext]_routingVars, NEW t \in Tokens, tokens[t] # NoToken,
                      ~TokenIsActive(t) \/ nodes[tokens[t].node].status = "purged"
               PROVE  Preview(t)' = None
    OBVIOUS
  <2>1. /\ tokens'[t].node = tokens[t].node /\ tokens'[t].expires = tokens[t].expires
        /\ tokens[t].revoked => tokens'[t].revoked
        /\ OneWay /\ now' \in Nat /\ now <= now'
    BY TokensStep
  <2>2. tokens[t].expires \in Nat /\ tokens[t].node \in NodeIds /\ now \in Nat
    BY DEF TokensInv, TokenRows, LifecycleInv, TypeOK
  <2>3. CASE nodes[tokens[t].node].status = "purged"
    <3>1. nodes'[tokens'[t].node].status = "purged"
      BY <2>1, <2>2, <2>3 DEF OneWay
    <3> QED
      BY <3>1 DEF Preview, Exists
  <2>4. CASE ~TokenIsActive(t)
    <3>1. ~TokenIsActive(t)'
      BY <2>1, <2>2, <2>4 DEF TokenIsActive
    <3> QED
      BY <3>1 DEF Preview
  <2> QED
    BY <2>3, <2>4
<1> QED
  BY <1>1, <1>2, <1>3, PTL DEF RoutingSpec, DeadTokensStayDead
-----------------------------------------------------------------------------
(* Sequences of which some elements are kept.                              *)

\* A run through the elements of s, and that Kept is where it ends.
IsKeptRun(s, values, f) ==
  \A k \in 0..Len(s) : f[k] = (IF k = 0 THEN <<>>
    ELSE IF s[k] \in values THEN Append(f[k-1], s[k]) ELSE f[k-1])

LEMMA KeptRuns ==
  ASSUME NEW T, NEW s \in Seq(T), NEW values
  PROVE  \E f : IsKeptRun(s, values, f) /\ Kept(s, values) = f[Len(s)]
<1> DEFINE n == Len(s)
           Goes(f, k) == f[k] = (IF k = 0 THEN <<>>
             ELSE IF s[k] \in values THEN Append(f[k-1], s[k]) ELSE f[k-1])
           Upto(f, j) == \A k \in 0..j : Goes(f, k)
           H == {j \in Nat : \E f : f = [k \in 0..j |-> f[k]] /\ Upto(f, j)}
           IsRun(f) == f = [i \in 0..n |-> IF i = 0 THEN <<>>
             ELSE IF s[i] \in values THEN Append(f[i-1], s[i]) ELSE f[i-1]]
           run == CHOOSE f : IsRun(f)
<1>1. n \in Nat
  OBVIOUS
<1>2. Kept(s, values) = run[n]
  BY DEF Kept
<1> HIDE DEF n
<1>3. 0 \in H
  <2> DEFINE f == [k \in 0..0 |-> <<>>]
  <2>1. f = [k \in 0..0 |-> f[k]] /\ Upto(f, 0)
    OBVIOUS
  <2> HIDE DEF f, Upto
  <2> QED
    BY <2>1
<1>4. ASSUME NEW j \in Nat, j \in H
      PROVE  j+1 \in H
  <2>1. PICK f : f = [k \in 0..j |-> f[k]] /\ Upto(f, j)
    BY <1>4
  <2> DEFINE next == IF s[j+1] \in values THEN Append(f[j], s[j+1]) ELSE f[j]
             g == [k \in 0..(j+1) |-> IF k = j+1 THEN next ELSE f[k]]
  <2>2. g[j+1] = next /\ (\A k \in 0..j : g[k] = f[k]) /\ g = [k \in 0..(j+1) |-> g[k]]
    OBVIOUS
  <2> HIDE DEF g
  <2>3. ASSUME NEW k \in 0..j
        PROVE  Goes(g, k)
    <3>1. k = 0 \/ k-1 \in 0..j
      OBVIOUS
    <3> QED
      BY <2>1, <2>2, <3>1
  <2>4. Goes(g, j+1)
    <3>1. j+1 # 0 /\ (j+1)-1 = j /\ j \in 0..j
      OBVIOUS
    <3> QED
      BY <2>2, <3>1
  <2>5. Upto(g, j+1)
    <3>1. \A k \in 0..(j+1) : k \in 0..j \/ k = j+1
      OBVIOUS
    <3> HIDE DEF Goes
    <3> QED
      BY <2>3, <2>4, <3>1
  <2> HIDE DEF Upto
  <2> QED
    BY <2>2, <2>5
<1>5. n \in H
  <2> HIDE DEF H
  <2> QED
    BY <1>1, <1>3, <1>4, SetInduction
<1>6. PICK f : f = [k \in 0..n |-> f[k]] /\ Upto(f, n)
  BY <1>5
<1>7. IsRun(f)
  BY <1>6
<1>8. IsRun(run)
  <2> HIDE DEF IsRun
  <2> QED
    BY <1>7
<1>9. IsKeptRun(s, values, run)
  <2> HIDE DEF run
  <2>1. \A k \in 0..n : Goes(run, k)
    BY <1>8
  <2> QED
    BY <2>1 DEF IsKeptRun, n
<1> QED
  BY <1>2, <1>9 DEF n

\* What is kept is some of the elements, all of them among the values.
LEMMA KeptAreSome ==
  ASSUME NEW T, NEW s \in Seq(T), NEW values
  PROVE  Kept(s, values) \in Seq(T \cap values)
<1>1. PICK f : IsKeptRun(s, values, f) /\ Kept(s, values) = f[Len(s)]
  BY KeptRuns
<1> DEFINE H == {k \in Nat : k \in 0..Len(s) => f[k] \in Seq(T \cap values)}
<1>2. 0 \in H
  <2>1. 0 \in 0..Len(s) /\ <<>> \in Seq(T \cap values)
    OBVIOUS
  <2>2. f[0] = <<>>
    BY <1>1, <2>1 DEF IsKeptRun
  <2> QED
    BY <2>1, <2>2
<1>3. ASSUME NEW k \in Nat, k \in H
      PROVE  k+1 \in H
  <2> SUFFICES ASSUME k+1 \in 0..Len(s) PROVE f[k+1] \in Seq(T \cap values)
    OBVIOUS
  <2>1. k \in 0..Len(s) /\ (k+1)-1 = k /\ k+1 # 0 /\ s[k+1] \in T
    OBVIOUS
  <2>2. f[k] \in Seq(T \cap values)
    BY <1>3, <2>1
  <2>3. f[k+1] = IF s[k+1] \in values THEN Append(f[k], s[k+1]) ELSE f[k]
    BY <1>1, <2>1 DEF IsKeptRun
  <2> QED
    BY <2>1, <2>2, <2>3
<1> HIDE DEF H
<1>4. Nat \subseteq H
  BY <1>2, <1>3, SetInduction
<1> QED
  BY <1>1, <1>4 DEF H

\* Only what the values say of the elements counts.
LEMMA KeptAlike ==
  ASSUME NEW T, NEW s \in Seq(T), NEW values, NEW others,
         \A i \in 1..Len(s) : s[i] \in values <=> s[i] \in others
  PROVE  Kept(s, values) = Kept(s, others)
<1>1. PICK f : IsKeptRun(s, values, f) /\ Kept(s, values) = f[Len(s)]
  BY KeptRuns
<1>2. PICK g : IsKeptRun(s, others, g) /\ Kept(s, others) = g[Len(s)]
  BY KeptRuns
<1> DEFINE H == {k \in Nat : k \in 0..Len(s) => f[k] = g[k]}
<1>3. 0 \in H
  BY <1>1, <1>2 DEF IsKeptRun
<1>4. ASSUME NEW k \in Nat, k \in H
      PROVE  k+1 \in H
  <2> SUFFICES ASSUME k+1 \in 0..Len(s) PROVE f[k+1] = g[k+1]
    OBVIOUS
  <2>1. k \in 0..Len(s) /\ (k+1)-1 = k /\ k+1 # 0 /\ k+1 \in 1..Len(s)
    OBVIOUS
  <2>2. f[k] = g[k]
    BY <1>4, <2>1
  <2>3. f[k+1] = IF s[k+1] \in values THEN Append(f[k], s[k+1]) ELSE f[k]
    BY <1>1, <2>1 DEF IsKeptRun
  <2>4. g[k+1] = IF s[k+1] \in others THEN Append(g[k], s[k+1]) ELSE g[k]
    BY <1>2, <2>1 DEF IsKeptRun
  <2> QED
    BY <2>1, <2>2, <2>3, <2>4
<1> HIDE DEF H
<1>5. Nat \subseteq H
  BY <1>3, <1>4, SetInduction
<1> QED
  BY <1>1, <1>2, <1>5 DEF H

LEMMA KeptWhole ==
  ASSUME NEW T, NEW s \in Seq(T), NEW values, \A i \in 1..Len(s) : s[i] \in values
  PROVE  Kept(s, values) = s
<1>1. PICK f : IsKeptRun(s, values, f) /\ Kept(s, values) = f[Len(s)]
  BY KeptRuns
<1> DEFINE P(k, t) == t \in Seq(T) /\ Len(t) = k /\ \A i \in 1..k : t[i] = s[i]
           H == {k \in Nat : k \in 0..Len(s) => P(k, f[k])}
<1>2. 0 \in H
  <2>1. f[0] = <<>>
    <3>1. 0 \in 0..Len(s)
      OBVIOUS
    <3> QED
      BY <1>1, <3>1 DEF IsKeptRun
  <2>2. P(0, <<>>)
    OBVIOUS
  <2> QED
    BY <2>1, <2>2
<1>3. ASSUME NEW k \in Nat, k \in H
      PROVE  k+1 \in H
  <2> SUFFICES ASSUME k+1 \in 0..Len(s) PROVE P(k+1, f[k+1])
    OBVIOUS
  <2>1. k \in 0..Len(s) /\ (k+1)-1 = k /\ k+1 # 0 /\ k+1 \in 1..Len(s) /\ s[k+1] \in T
    OBVIOUS
  <2>2. P(k, f[k])
    BY <1>3, <2>1
  <2>3. f[k+1] = Append(f[k], s[k+1])
    BY <1>1, <2>1 DEF IsKeptRun
  <2>4. /\ Append(f[k], s[k+1]) \in Seq(T) /\ Len(Append(f[k], s[k+1])) = k+1
        /\ \A i \in 1..(k+1) : Append(f[k], s[k+1])[i] = IF i = k+1 THEN s[k+1] ELSE f[k][i]
    BY <2>1, <2>2
  <2> HIDE DEF H
  <2>5. \A i \in 1..(k+1) : i = k+1 \/ i \in 1..k
    OBVIOUS
  <2> QED
    BY <2>2, <2>3, <2>4, <2>5
<1> HIDE DEF H
<1>4. P(Len(s), f[Len(s)])
  <2>1. Nat \subseteq H
    BY <1>2, <1>3, SetInduction
  <2> QED
    BY <2>1 DEF H
<1>5. f[Len(s)] = s
  BY <1>4
<1> QED
  BY <1>1, <1>5

-----------------------------------------------------------------------------
(* The order of blocks.                                                    *)

NotAfter(a, b) == a.order < b.order \/ (a.order = b.order /\ a.title <= b.title)
Ahead(at, i) == {j \in DOMAIN at : Before(at, j, i)}
IsSortable(at) ==
  /\ IsFiniteSet(DOMAIN at) /\ DOMAIN at \subseteq Nat
  /\ \A i \in DOMAIN at : at[i].order \in Nat /\ at[i].title \in Nat

LEMMA BeforeIsOrder ==
  ASSUME NEW at, IsSortable(at)
  PROVE  /\ \A i, j \in DOMAIN at : i = j \/ Before(at, i, j) \/ Before(at, j, i)
         /\ \A i \in DOMAIN at : ~Before(at, i, i)
         /\ \A i, j, k \in DOMAIN at : Before(at, i, j) /\ Before(at, j, k) => Before(at, i, k)
<1>1. \A i, j \in DOMAIN at : i = j \/ Before(at, i, j) \/ Before(at, j, i)
  BY DEF IsSortable, Before
<1>2. \A i \in DOMAIN at : ~Before(at, i, i)
  BY DEF IsSortable, Before
<1>3. \A i, j, k \in DOMAIN at : Before(at, i, j) /\ Before(at, j, k) => Before(at, i, k)
  BY DEF IsSortable, Before
<1> QED
  BY <1>1, <1>2, <1>3

\* How many blocks are ahead of one tells its place, and there is one for each.
LEMMA PlacesAreTaken ==
  ASSUME NEW at, IsSortable(at), NEW N, N = Cardinality(DOMAIN at)
  PROVE  /\ N \in Nat
         /\ \A i \in DOMAIN at : Cardinality(Ahead(at, i)) \in 0..(N-1)
         /\ \A i, j \in DOMAIN at :
              Before(at, i, j) => Cardinality(Ahead(at, i)) < Cardinality(Ahead(at, j))
         /\ \A k \in 1..N : \E i \in DOMAIN at : Cardinality(Ahead(at, i)) = k - 1
<1> DEFINE D == DOMAIN at
           rank(i) == Cardinality(Ahead(at, i))
           f == [i \in D |-> rank(i) + 1]
<1>1. N \in Nat /\ IsFiniteSet(D)
  BY FS_CardinalityType DEF IsSortable
<1>2. ASSUME NEW i \in D
      PROVE  IsFiniteSet(Ahead(at, i)) /\ rank(i) \in Nat /\ i \notin Ahead(at, i)
  <2>1. Ahead(at, i) \subseteq D /\ i \notin Ahead(at, i)
    BY BeforeIsOrder DEF Ahead
  <2> QED
    BY <1>1, <2>1, FS_Subset, FS_CardinalityType
<1>3. ASSUME NEW i \in D
      PROVE  rank(i) \in 0..(N-1)
  <2>1. Ahead(at, i) \subseteq D \ {i} /\ D \ {i} \subseteq D
    BY <1>2 DEF Ahead
  <2>2. IsFiniteSet(D \ {i}) /\ Cardinality(D \ {i}) = N - 1
    BY <1>1, FS_RemoveElement
  <2>3. rank(i) <= N - 1
    BY <2>1, <2>2, FS_Subset
  <2> QED
    BY <1>1, <1>2, <2>3
<1>4. ASSUME NEW i \in D, NEW j \in D, Before(at, i, j)
      PROVE  rank(i) < rank(j)
  <2>1. Ahead(at, i) \cup {i} \subseteq Ahead(at, j)
    BY <1>4, BeforeIsOrder DEF Ahead
  <2>2. Cardinality(Ahead(at, i) \cup {i}) = rank(i) + 1
    BY <1>2, FS_AddElement
  <2>3. Cardinality(Ahead(at, i) \cup {i}) <= rank(j)
    BY <1>2, <2>1, FS_Subset
  <2> QED
    BY <1>2, <2>2, <2>3
<1>5. f \in Injection(D, 1..N)
  <2>1. \A i \in D : rank(i) + 1 \in 1..N
    BY <1>1, <1>3
  <2>2. \A i, j \in D : i # j => rank(i) # rank(j)
    <3> SUFFICES ASSUME NEW i \in D, NEW j \in D, i # j PROVE rank(i) # rank(j)
      OBVIOUS
    <3>1. rank(i) < rank(j) \/ rank(j) < rank(i)
      BY <1>4, BeforeIsOrder
    <3> QED
      BY <1>2, <3>1
  <2>3. \A i, j \in D : f[i] = f[j] => i = j
    BY <1>2, <2>2
  <2>4. f \in [D -> 1..N]
    BY <2>1
  <2> HIDE DEF f
  <2> QED
    BY <2>3, <2>4 DEF Injection, IsInjective
<1>6. f \in Surjection(D, 1..N)
  <2>1. IsFiniteSet(1..N) /\ Cardinality(1..N) = N
    BY <1>1, FS_Interval
  <2> HIDE DEF f
  <2> QED
    BY <1>1, <1>5, <2>1, FS_Injection
<1>7. ASSUME NEW k \in 1..N
      PROVE  \E i \in D : rank(i) = k - 1
  <2>1. \E i \in D : f[i] = k
    <3> HIDE DEF f
    <3> QED
      BY <1>6 DEF Surjection
  <2>2. PICK i \in D : rank(i) + 1 = k
    BY <2>1
  <2> QED
    BY <1>2, <2>2
<1> QED
  BY <1>1, <1>3, <1>4, <1>7

LEMMA SortedIsSorted ==
  ASSUME NEW at, IsSortable(at), NEW N, N = Cardinality(DOMAIN at)
  PROVE  /\ N \in Nat /\ DOMAIN Sorted(at) = 1..N
         /\ Sorted(at) = [k \in 1..N |-> Sorted(at)[k]]
         /\ \A k \in 1..N : \E i \in DOMAIN at : Sorted(at)[k] = at[i]
         /\ \A k, l \in 1..N : k < l => NotAfter(Sorted(at)[k], Sorted(at)[l])
<1> DEFINE D == DOMAIN at
           P(i, k) == i \in D /\ Cardinality(Ahead(at, i)) = k - 1
           place(k) == CHOOSE i : P(i, k)
<1>1. N \in Nat /\ Sorted(at) = [k \in 1..N |-> at[place(k)]]
  BY PlacesAreTaken DEF Sorted, Ahead
<1>2. \A k \in 1..N : P(place(k), k)
  <2> SUFFICES ASSUME NEW k \in 1..N PROVE P(place(k), k)
    OBVIOUS
  <2>1. \E i : P(i, k)
    BY PlacesAreTaken
  <2> HIDE DEF P
  <2> QED
    BY <2>1
<1> HIDE DEF place
<1>3. ASSUME NEW k \in 1..N, NEW l \in 1..N, k < l
      PROVE  NotAfter(Sorted(at)[k], Sorted(at)[l])
  <2>1. ~Before(at, place(l), place(k))
    <3> SUFFICES ASSUME Before(at, place(l), place(k)) PROVE FALSE
      OBVIOUS
    <3>1. l - 1 < k - 1
      BY <1>2, PlacesAreTaken
    <3> QED
      BY <1>1, <1>3, <3>1
  <2>2. place(k) # place(l)
    BY <1>1, <1>2, <1>3
  <2>3. Before(at, place(k), place(l))
    BY <1>2, <2>1, <2>2, BeforeIsOrder
  <2>4. /\ at[place(k)].order \in Nat /\ at[place(k)].title \in Nat
        /\ at[place(l)].order \in Nat /\ at[place(l)].title \in Nat
    BY <1>2 DEF IsSortable
  <2>5. NotAfter(at[place(k)], at[place(l)])
    BY <2>3, <2>4 DEF Before, NotAfter
  <2> QED
    BY <1>1, <2>5
<1> QED
  BY <1>1, <1>2, <1>3

LEMMA SortedStaysSorted ==
  ASSUME NEW at, NEW N \in Nat, at = [k \in 1..N |-> at[k]],
         \A k \in 1..N : at[k].order \in Nat /\ at[k].title \in Nat,
         \A k, l \in 1..N : k < l => NotAfter(at[k], at[l])
  PROVE  Sorted(at) = at
<1>1. IsFiniteSet(1..N) /\ Cardinality(1..N) = N /\ DOMAIN at = 1..N
  BY FS_Interval
<1>2. IsSortable(at)
  BY <1>1 DEF IsSortable
<1>3. \A i, j \in 1..N : Before(at, i, j) <=> i < j
  <2> SUFFICES ASSUME NEW i \in 1..N, NEW j \in 1..N
               PROVE  Before(at, i, j) <=> i < j
    OBVIOUS
  <2>1. i < j => NotAfter(at[i], at[j])
    OBVIOUS
  <2>2. j < i => NotAfter(at[j], at[i])
    OBVIOUS
  <2>3. /\ at[i].order \in Nat /\ at[i].title \in Nat
        /\ at[j].order \in Nat /\ at[j].title \in Nat
    OBVIOUS
  <2> QED
    BY <2>1, <2>2, <2>3 DEF Before, NotAfter
<1>4. ASSUME NEW i \in 1..N
      PROVE  Cardinality(Ahead(at, i)) = i - 1
  <2>1. Ahead(at, i) = 1..(i-1)
    BY <1>1, <1>3 DEF Ahead
  <2>2. Cardinality(1..(i-1)) = i - 1
    <3>1. 1 \in Int /\ i-1 \in Int /\ i-1 \in Nat
      OBVIOUS
    <3>2. Cardinality(1..(i-1)) = IF 1 > i-1 THEN 0 ELSE (i-1)-1+1
      BY <3>1, FS_Interval
    <3> QED
      BY <3>1, <3>2
  <2> QED
    BY <2>1, <2>2
<1> DEFINE P(i, k) == i \in 1..N /\ Cardinality(Ahead(at, i)) = k - 1
           place(k) == CHOOSE i : P(i, k)
<1>5. Sorted(at) = [k \in 1..N |-> at[place(k)]]
  BY <1>1 DEF Sorted, Ahead
<1>6. \A k \in 1..N : place(k) = k
  <2> SUFFICES ASSUME NEW k \in 1..N PROVE place(k) = k
    OBVIOUS
  <2>1. P(k, k)
    BY <1>4
  <2>2. P(place(k), k)
    <3> HIDE DEF P
    <3> QED
      BY <2>1
  <2> HIDE DEF place
  <2>3. place(k) \in 1..N /\ place(k) - 1 = k - 1
    BY <1>4, <2>2
  <2> QED
    BY <2>3
<1> HIDE DEF place
<1> QED
  BY <1>5, <1>6

-----------------------------------------------------------------------------
(* Values, normalized once and more often.                                 *)

\* Each item of normalized ones is empty, or has a cell with something in it.
IsItems(rows) ==
  /\ rows \in Seq(ToSet(rows))
  /\ \A i \in 1..Len(rows) :
       DOMAIN rows[i] # {} <=> \E k \in DOMAIN rows[i] : rows[i][k] # ""

LEMMA ElementsOf == ASSUME NEW S, NEW s \in Seq(S) PROVE \A i \in 1..Len(s) : s[i] \in S
OBVIOUS

LEMMA InItsSet ==
  ASSUME NEW s, NEW S, s \in Seq(S)
  PROVE  s \in Seq(ToSet(s)) /\ ToSet(s) \subseteq S /\ \A i \in 1..Len(s) : s[i] \in ToSet(s)
<1>1. DOMAIN s = 1..Len(s) /\ ToSet(s) = {s[i] : i \in 1..Len(s)}
  BY DEF ToSet
<1> QED
  BY <1>1

LEMMA IsItsSequence ==
  ASSUME NEW n \in Nat, NEW s, s = [k \in 1..n |-> s[k]]
  PROVE  s \in Seq(ToSet(s)) /\ Len(s) = n
<1>1. s \in Seq({s[k] : k \in 1..n}) /\ Len(s) = n
  OBVIOUS
<1> QED
  BY <1>1, InItsSet

LEMMA OfLineHasNoEmptyCell ==
  ASSUME NEW line, NEW k \in DOMAIN OfLine(line)
  PROVE  OfLine(line)[k] # ""
<1> DEFINE cells == {i \in DOMAIN line : i <= Len(CellNames) /\ line[i] # ""}
           P(i) == i \in cells /\ CellNames[i] = k
           which == CHOOSE i : P(i)
<1>1. \E i : P(i)
  BY DEF OfLine
<1>2. P(which)
  <2> HIDE DEF P
  <2> QED
    BY <1>1
<1>3. OfLine(line)[k] = line[which]
  BY DEF OfLine
<1> HIDE DEF which
<1> QED
  BY <1>2, <1>3

LEMMA NormalItemsAreItems ==
  ASSUME NEW value, value.as \in {"text", "lines", "objects"},
         value.rows \in Seq(ToSet(value.rows))
  PROVE  IsItems(NormalItems(value))
<1> DEFINE rows == value.rows
           Full(item) == \E k \in DOMAIN item : item[k] # ""
<1>1. CASE value.as = "text"
  <2> DEFINE lines == Kept(rows, {line \in ToSet(rows) : ~IsBlank(line)})
             items == [i \in DOMAIN lines |-> OfLine(lines[i])]
  <2>1. NormalItems(value) = items
    BY <1>1 DEF NormalItems
  <2>2. lines \in Seq(ToSet(rows))
    <3>1. lines \in Seq(ToSet(rows) \cap {line \in ToSet(rows) : ~IsBlank(line)})
      BY KeptAreSome
    <3> HIDE DEF lines
    <3> QED
      BY <3>1
  <2> HIDE DEF lines
  <2>3. /\ items \in Seq({OfLine(lines[i]) : i \in 1..Len(lines)}) /\ Len(items) = Len(lines)
        /\ \A i \in 1..Len(items) : items[i] = OfLine(lines[i])
    BY <2>2
  <2> HIDE DEF items
  <2>4. \A i \in 1..Len(items) : \A k \in DOMAIN items[i] : items[i][k] # ""
    BY <2>3, OfLineHasNoEmptyCell
  <2> QED
    BY <2>1, <2>3, <2>4, InItsSet DEF IsItems
<1>2. CASE value.as = "lines"
  <2> DEFINE items == [i \in DOMAIN rows |-> OfLine(rows[i])]
             kept == Kept(items, {item \in ToSet(items) : DOMAIN item # {}})
             S == {OfLine(rows[i]) : i \in 1..Len(rows)}
  <2>1. NormalItems(value) = kept
    BY <1>2 DEF NormalItems
  <2>2. items \in Seq(S)
    OBVIOUS
  <2> HIDE DEF items
  <2>3. kept \in Seq(S)
    <3>1. kept \in Seq(S \cap {item \in ToSet(items) : DOMAIN item # {}})
      BY <2>2, KeptAreSome
    <3> HIDE DEF kept, S
    <3> QED
      BY <3>1
  <2> HIDE DEF kept
  <2>4. \A i \in 1..Len(kept) : \A k \in DOMAIN kept[i] : kept[i][k] # ""
    <3>1. \A i \in 1..Len(kept) : kept[i] \in S
      <4> HIDE DEF S
      <4> QED
        BY <2>3, ElementsOf
    <3>2. \A i \in 1..Len(kept) : \E line : kept[i] = OfLine(line)
      BY <3>1
    <3> QED
      BY <3>2, OfLineHasNoEmptyCell
  <2> HIDE DEF S
  <2> QED
    BY <2>1, <2>3, <2>4, InItsSet DEF IsItems
<1>3. CASE value.as = "objects"
  <2> DEFINE kept == Kept(rows, {item \in ToSet(rows) : Full(item)})
             S == ToSet(rows) \cap {item \in ToSet(rows) : Full(item)}
  <2>1. NormalItems(value) = kept
    BY <1>3 DEF NormalItems
  <2>2. kept \in Seq(S)
    BY KeptAreSome
  <2> HIDE DEF kept
  <2>3. \A i \in 1..Len(kept) : Full(kept[i])
    <3>1. \A i \in 1..Len(kept) : kept[i] \in S
      <4> HIDE DEF S
      <4> QED
        BY <2>2, ElementsOf
    <3> QED
      BY <3>1
  <2> QED
    BY <2>1, <2>2, <2>3, InItsSet DEF IsItems
<1> QED
  BY <1>1, <1>2, <1>3

\* Of items, the second time drops the empty ones, and nothing after that.
LEMMA ItemsAgain ==
  ASSUME NEW rows, IsItems(rows), NEW full,
         full = Kept(rows, {item \in ToSet(rows) : \E k \in DOMAIN item : item[k] # ""})
  PROVE  /\ IsItems(full)
         /\ Kept(full, {item \in ToSet(full) : \E k \in DOMAIN item : item[k] # ""}) = full
         /\ Kept(full, {item \in ToSet(full) : DOMAIN item # {}}) = full
         /\ Kept(rows, {item \in ToSet(rows) : DOMAIN item # {}}) = full
<1> DEFINE Full(item) == \E k \in DOMAIN item : item[k] # ""
<1>1. rows \in Seq(ToSet(rows)) /\ \A i \in 1..Len(rows) : rows[i] \in ToSet(rows)
  BY InItsSet DEF IsItems
<1>2. full \in Seq(ToSet(rows) \cap {item \in ToSet(rows) : Full(item)})
  BY <1>1, KeptAreSome
<1>3. \A i \in 1..Len(full) : Full(full[i]) /\ DOMAIN full[i] # {}
  <2> DEFINE S == ToSet(rows) \cap {item \in ToSet(rows) : Full(item)}
  <2>1. full \in Seq(S)
    BY <1>2
  <2>2. \A i \in 1..Len(full) : full[i] \in S
    <3> HIDE DEF S
    <3> QED
      BY <2>1, ElementsOf
  <2>3. \A item \in S : Full(item) /\ DOMAIN item # {}
    OBVIOUS
  <2> HIDE DEF S, Full
  <2> QED
    BY <2>2, <2>3
<1>4. full \in Seq(ToSet(full)) /\ \A i \in 1..Len(full) : full[i] \in ToSet(full)
  BY <1>2, InItsSet
<1>5. Kept(full, {item \in ToSet(full) : Full(item)}) = full
  BY <1>3, <1>4, KeptWhole
<1>6. Kept(full, {item \in ToSet(full) : DOMAIN item # {}}) = full
  BY <1>3, <1>4, KeptWhole
<1>7. Kept(rows, {item \in ToSet(rows) : DOMAIN item # {}}) = full
  <2>1. \A i \in 1..Len(rows) :
          rows[i] \in {item \in ToSet(rows) : DOMAIN item # {}}
            <=> rows[i] \in {item \in ToSet(rows) : Full(item)}
    BY <1>1 DEF IsItems
  <2> QED
    BY <1>1, <2>1, KeptAlike
<1> QED
  BY <1>3, <1>4, <1>5, <1>6, <1>7 DEF IsItems

LEMMA NormalAgain ==
  ASSUME NEW field, NEW value, IsValue(field, value),
         NEW once, once = Normal(field, value), NEW twice, twice = Normal(field, once)
  PROVE  /\ IsValue(field, once) /\ Normal(field, twice) = twice
         /\ field.editor # "items" => twice = once
         /\ field.editor = "text" => once = value
         /\ field.editor = "items" => \A type : Cards(type, twice) = Cards(type, once)
<1>1. CASE field.editor = "items"
  <2> DEFINE rows == NormalItems(value)
             full == Kept(rows, {item \in ToSet(rows) : \E k \in DOMAIN item : item[k] # ""})
  <2>1. IsItems(rows) /\ once = [as |-> "objects", rows |-> rows]
    BY <1>1, NormalItemsAreItems DEF IsValue, Normal
  <2> HIDE DEF rows
  <2>2. once.as = "objects" /\ once.rows = rows
    BY <2>1
  <2>3. NormalItems(once) = full
    BY <2>2 DEF NormalItems
  <2>4. twice = [as |-> "objects", rows |-> full]
    BY <1>1, <2>3 DEF Normal
  <2> DEFINE again == Kept(full, {item \in ToSet(full) : \E k \in DOMAIN item : item[k] # ""})
  <2>5. /\ IsItems(full) /\ again = full
        /\ Kept(full, {item \in ToSet(full) : DOMAIN item # {}}) = full
        /\ Kept(rows, {item \in ToSet(rows) : DOMAIN item # {}}) = full
    BY <2>1, ItemsAgain
  <2> HIDE DEF full
  <2>6. twice.as = "objects" /\ twice.rows = full
    BY <2>4
  <2>7. NormalItems(twice) = again
    BY <2>6 DEF NormalItems, full
  <2> HIDE DEF again
  <2>8. Normal(field, twice) = twice
    BY <1>1, <2>4, <2>5, <2>7 DEF Normal
  <2>9. IsValue(field, once)
    BY <1>1, <2>1, <2>2 DEF IsValue, IsItems
  <2>10. \A type : Cards(type, twice) = Cards(type, once)
    BY <2>2, <2>5, <2>6 DEF Cards
  <2> QED
    BY <1>1, <2>8, <2>9, <2>10
<1>2. CASE field.editor = "list"
  <2>1. value \in Seq(ToSet(value)) /\ once = Kept(value, ToSet(value) \ {""})
    BY <1>2 DEF IsValue, Normal
  <2>2. once \in Seq(ToSet(value) \cap (ToSet(value) \ {""}))
    BY <2>1, KeptAreSome
  <2>3. once \in Seq(ToSet(once)) /\ \A i \in 1..Len(once) : once[i] \in ToSet(once) \ {""}
    <3> DEFINE S == ToSet(value) \cap (ToSet(value) \ {""})
    <3>1. \A i \in 1..Len(once) : once[i] \in S
      <4> HIDE DEF S
      <4> QED
        BY <2>2, ElementsOf DEF S
    <3>2. once \in Seq(ToSet(once)) /\ \A i \in 1..Len(once) : once[i] \in ToSet(once)
      BY <2>2, InItsSet
    <3> QED
      BY <3>1, <3>2
  <2>4. twice = once
    <3>1. twice = Kept(once, ToSet(once) \ {""})
      BY <1>2 DEF Normal
    <3> QED
      BY <2>3, <3>1, KeptWhole
  <2> QED
    BY <1>2, <2>3, <2>4 DEF IsValue
<1>3. CASE field.editor \notin {"items", "list"}
  BY <1>3 DEF IsValue, Normal
<1> QED
  BY <1>1, <1>2, <1>3

-----------------------------------------------------------------------------
(* Parsed blocks, and what another save and parse make of them.            *)

IsSettings(fields, settings) ==
  /\ settings = [f \in DOMAIN fields |-> settings[f]]
  /\ \A f \in DOMAIN fields :
       \E value : IsValue(fields[f], value) /\ settings[f] = Normal(fields[f], value)
IsBlock(b) ==
  /\ b = [type |-> b.type, title |-> b.title, order |-> b.order, settings |-> b.settings]
  /\ b.type \in DOMAIN BlockTypes /\ b.title \in Nat \ {0} /\ b.order \in Nat
  /\ IsSettings(BlockTypes[b.type], b.settings)
IsBlocks(p, N) ==
  /\ N \in Nat /\ p = [k \in 1..N |-> p[k]]
  /\ \A k \in 1..N : IsBlock(p[k])
  /\ \A k, l \in 1..N : k < l => NotAfter(p[k], p[l])

Anew(b) ==
  [type |-> b.type, title |-> b.title, order |-> b.order,
   settings |-> [f \in DOMAIN BlockTypes[b.type] |->
                   Normal(BlockTypes[b.type][f], b.settings[f])]]
AllAnew(p, N) == [k \in 1..N |-> Anew(p[k])]
AllHaveRequired(p, N) ==
  \A k \in 1..N : HasRequired(BlockTypes[p[k].type], p[k].settings)

\* Whatever a raw block of a known type gives, it is parsed to a block.
LEMMA ParsedIsBlock ==
  ASSUME NEW raw, NEW i \in Nat \ {0}, IsRaw(raw[i]), Known(raw[i])
  PROVE  IsBlock(BlockAt(raw, i))
<1> DEFINE block == raw[i]
           t == block.type
           fields == BlockTypes[t]
           b == BlockAt(raw, i)
<1>1. t \in DOMAIN BlockTypes /\ block.title \in Nat /\ block.order \subseteq Nat
  BY DEF IsRaw, Known
<1>2. NameRank(t) \in Nat \ {0}
  <2>1. DOMAIN NamesInOrder = 1..15
    BY DEF NamesInOrder
  <2> QED
    BY <1>1, <2>1, BuilderAssumption
<1>3. /\ b.type = t /\ b.settings = Settings(block)
      /\ b = [type |-> b.type, title |-> b.title, order |-> b.order, settings |-> b.settings]
      /\ b.title = (IF block.title = 0 THEN NameRank(t) ELSE block.title)
      /\ b.order = (IF block.order = {} THEN i - 1 ELSE CHOOSE n \in block.order : TRUE)
  BY DEF BlockAt
<1>4. b.title \in Nat \ {0}
  BY <1>1, <1>2, <1>3
<1>5. b.order \in Nat
  <2>1. CASE block.order = {}
    BY <1>3, <2>1
  <2>2. CASE block.order # {}
    <3> DEFINE n == CHOOSE n \in block.order : TRUE
    <3>1. n \in block.order
      BY <2>2
    <3> QED
      BY <1>1, <1>3, <2>2, <3>1
  <2> QED
    BY <2>1, <2>2
<1>6. IsSettings(fields, Settings(block))
  <2> DEFINE given == GivenKeys(block)
             value(f) == IF f \in given THEN block.settings[f] ELSE fields[f].default
  <2>1. Settings(block) = [f \in DOMAIN fields |-> Normal(fields[f], value(f))]
    BY DEF Settings, Filled
  <2>2. \A f \in DOMAIN fields : IsValue(fields[f], value(f))
    BY <1>1, BuilderAssumption DEF IsRaw, Known
  <2> HIDE DEF value
  <2> QED
    BY <2>1, <2>2 DEF IsSettings
<1> QED
  BY <1>1, <1>3, <1>4, <1>5, <1>6 DEF IsBlock

LEMMA ParsedAreBlocks ==
  ASSUME NEW value, IsBody(value)
  PROVE  \E N : IsBlocks(Parse(value), N) /\ (Accepts(value) => AllHaveRequired(Parse(value), N))
<1> DEFINE raw == Raw(value)
           known == {i \in DOMAIN raw : Known(raw[i])}
           at == [i \in known |-> BlockAt(raw, i)]
           N == Cardinality(known)
<1>1. Parse(value) = Sorted(at)
  BY DEF Parse, ParseBlocks
<1>2. raw \in Seq(ToSet(raw)) /\ \A i \in DOMAIN raw : IsRaw(raw[i])
  <2>1. CASE value.shape = "list"
    BY <2>1 DEF IsBody, Raw
  <2>2. CASE value.shape # "list"
    BY <2>2 DEF Raw
  <2> QED
    BY <2>1, <2>2
<1> HIDE DEF raw
<1>3. DOMAIN raw = 1..Len(raw) /\ Len(raw) \in Nat /\ IsFiniteSet(1..Len(raw))
  BY <1>2, FS_Interval
<1>4. IsFiniteSet(known) /\ known \subseteq Nat \ {0}
  <2>1. known \subseteq 1..Len(raw)
    BY <1>3
  <2> QED
    BY <1>3, <2>1, FS_Subset
<1>5. \A i \in known : IsBlock(at[i])
  BY <1>2, <1>4, ParsedIsBlock
<1> HIDE DEF known
<1>6. DOMAIN at = known
  OBVIOUS
<1> HIDE DEF at
<1>7. IsSortable(at)
  BY <1>4, <1>5, <1>6 DEF IsSortable, IsBlock
<1>8. /\ N \in Nat /\ Sorted(at) = [k \in 1..N |-> Sorted(at)[k]]
      /\ \A k \in 1..N : \E i \in DOMAIN at : Sorted(at)[k] = at[i]
      /\ \A k, l \in 1..N : k < l => NotAfter(Sorted(at)[k], Sorted(at)[l])
  BY <1>6, <1>7, SortedIsSorted
<1>9. \A k \in 1..N : IsBlock(Sorted(at)[k])
  BY <1>5, <1>6, <1>8
<1>10. ASSUME Accepts(value)
       PROVE  AllHaveRequired(Sorted(at), N)
  <2>1. \A i \in DOMAIN at : HasRequired(BlockTypes[at[i].type], at[i].settings)
    BY <1>6, <1>10 DEF Accepts, Complete, Raw, raw, known, at, BlockAt
  <2> QED
    BY <1>8, <2>1 DEF AllHaveRequired
<1>11. IsBlocks(Sorted(at), N)
  BY <1>8, <1>9 DEF IsBlocks
<1> QED
  BY <1>1, <1>10, <1>11

\* A block that is saved comes back with its settings normalized once more, by
\* which they come to what a further save no longer changes.
LEMMA AnewIsBlock ==
  ASSUME NEW b, IsBlock(b)
  PROVE  /\ IsBlock(Anew(b)) /\ Anew(Anew(b)) = Anew(b)
         /\ \A f \in DOMAIN BlockTypes[b.type] :
              /\ IsValue(BlockTypes[b.type][f], b.settings[f])
              /\ BlockTypes[b.type][f].editor # "items" => Anew(b).settings[f] = b.settings[f]
              /\ BlockTypes[b.type][f].editor = "items" =>
                   \A type : Cards(type, Anew(b).settings[f]) = Cards(type, b.settings[f])
<1> DEFINE fields == BlockTypes[b.type]
           again == [f \in DOMAIN fields |-> Normal(fields[f], b.settings[f])]
<1>1. Anew(b) = [type |-> b.type, title |-> b.title, order |-> b.order, settings |-> again]
  BY DEF Anew
<1>2. ASSUME NEW f \in DOMAIN fields
      PROVE  /\ IsValue(fields[f], b.settings[f])
             /\ Normal(fields[f], again[f]) = again[f]
             /\ fields[f].editor # "items" => again[f] = b.settings[f]
             /\ fields[f].editor = "items" =>
                  \A type : Cards(type, again[f]) = Cards(type, b.settings[f])
  <2> DEFINE field == fields[f]
             once == b.settings[f]
             twice == Normal(field, once)
  <2>1. PICK value : IsValue(field, value) /\ once = Normal(field, value)
    BY DEF IsBlock, IsSettings
  <2>2. again[f] = twice
    OBVIOUS
  <2> HIDE DEF field, once
  <2>3. IsValue(field, once)
    BY <2>1, NormalAgain
  <2>4. Normal(field, twice) = twice
    BY <2>1, NormalAgain
  <2>5. field.editor # "items" => twice = once
    BY <2>1, NormalAgain
  <2>6. field.editor = "items" => \A type : Cards(type, twice) = Cards(type, once)
    BY <2>1, NormalAgain
  <2> QED
    BY <2>2, <2>3, <2>4, <2>5, <2>6 DEF field, once
<1>3. IsSettings(fields, again)
  <2>1. \A f \in DOMAIN fields : IsValue(fields[f], b.settings[f])
    BY <1>2
  <2> QED
    BY <2>1 DEF IsSettings
<1> HIDE DEF again
<1>4. /\ Anew(b).type = b.type /\ Anew(b).title = b.title /\ Anew(b).order = b.order
      /\ Anew(b).settings = again
  BY <1>1
<1>5. IsBlock(Anew(b))
  BY <1>1, <1>3, <1>4 DEF IsBlock
<1>6. Anew(Anew(b)) = Anew(b)
  <2>1. [f \in DOMAIN fields |-> Normal(fields[f], again[f])] = again
    <3>1. again = [f \in DOMAIN fields |-> again[f]]
      BY DEF again
    <3>2. \A f \in DOMAIN fields : Normal(fields[f], again[f]) = again[f]
      BY <1>2
    <3> QED
      BY <3>1, <3>2
  <2>2. Anew(Anew(b)) = [type |-> b.type, title |-> b.title, order |-> b.order,
                         settings |-> [f \in DOMAIN fields |-> Normal(fields[f], again[f])]]
    BY <1>4 DEF Anew
  <2> QED
    BY <1>1, <2>1, <2>2
<1> QED
  BY <1>2, <1>4, <1>5, <1>6

LEMMA AllAnewAreBlocks ==
  ASSUME NEW p, NEW N, IsBlocks(p, N)
  PROVE  IsBlocks(AllAnew(p, N), N) /\ AllAnew(AllAnew(p, N), N) = AllAnew(p, N)
<1> DEFINE q == AllAnew(p, N)
<1>1. N \in Nat /\ q = [k \in 1..N |-> Anew(p[k])]
  BY DEF IsBlocks, AllAnew
<1>2. \A k \in 1..N : IsBlock(p[k])
  BY DEF IsBlocks
<1>3. \A k \in 1..N : IsBlock(q[k]) /\ Anew(q[k]) = q[k]
  BY <1>1, <1>2, AnewIsBlock
<1>4. \A k \in 1..N : q[k].order = p[k].order /\ q[k].title = p[k].title
  BY <1>1 DEF Anew
<1>5. \A k, l \in 1..N : k < l => NotAfter(q[k], q[l])
  BY <1>4 DEF IsBlocks, NotAfter
<1>6. q = [k \in 1..N |-> q[k]]
  BY <1>1
<1>7. AllAnew(q, N) = q
  BY <1>3, <1>6 DEF AllAnew
<1> HIDE DEF q
<1>8. IsBlocks(q, N)
  BY <1>1, <1>3, <1>5, <1>6 DEF IsBlocks
<1> QED
  BY <1>7, <1>8 DEF q

\* What is stored of blocks is a body, and parses to them, normalized again.
LEMMA StoredParses ==
  ASSUME NEW p, NEW N, IsBlocks(p, N)
  PROVE  /\ IsBody(Serialize(p)) /\ Serialize(p).shape = "list"
         /\ DOMAIN Serialize(p).blocks = 1..N
         /\ \A k \in 1..N : /\ Known(Serialize(p).blocks[k])
                            /\ Serialize(p).blocks[k].type = p[k].type
                            /\ Settings(Serialize(p).blocks[k]) = Anew(p[k]).settings
         /\ Parse(Serialize(p)) = AllAnew(p, N)
<1> DEFINE raw == [k \in 1..N |-> RawBlock(p[k].type, p[k].title, {p[k].order}, FALSE, p[k].settings)]
           q == AllAnew(p, N)
<1>1. N \in Nat /\ DOMAIN p = 1..N /\ \A k \in 1..N : IsBlock(p[k])
  BY DEF IsBlocks
<1>2. Serialize(p) = [shape |-> "list", blocks |-> raw]
  BY <1>1 DEF Serialize
<1>3. ASSUME NEW k \in 1..N
      PROVE  /\ raw[k].type = p[k].type /\ raw[k].title = p[k].title
             /\ raw[k].order = {p[k].order} /\ raw[k].flat = FALSE
             /\ raw[k].settings = p[k].settings
  BY DEF RawBlock
<1>4. DOMAIN raw = 1..N
  OBVIOUS
<1>5. raw \in Seq(ToSet(raw))
  <2>1. raw = [k \in 1..N |-> raw[k]]
    OBVIOUS
  <2> HIDE DEF raw
  <2> QED
    BY <1>1, <2>1, IsItsSequence
<1> HIDE DEF raw
<1>6. ASSUME NEW k \in 1..N
      PROVE  Known(raw[k]) /\ GivenKeys(raw[k]) = DOMAIN BlockTypes[p[k].type]
  BY <1>1, <1>3 DEF Known, GivenKeys, IsBlock, IsSettings
<1>7. ASSUME NEW k \in 1..N
      PROVE  IsRaw(raw[k])
  <2>1. \A f \in DOMAIN BlockTypes[p[k].type] : IsValue(BlockTypes[p[k].type][f], p[k].settings[f])
    BY <1>1, AnewIsBlock
  <2> QED
    BY <1>1, <1>3, <1>6, <2>1 DEF IsRaw, IsBlock
<1>8. IsBody(Serialize(p))
  BY <1>2, <1>4, <1>5, <1>7 DEF IsBody
<1>9. ASSUME NEW k \in 1..N
      PROVE  Settings(raw[k]) = Anew(p[k]).settings
  <2> DEFINE fields == BlockTypes[p[k].type]
  <2>1. Settings(raw[k]) = [f \in DOMAIN fields |-> Normal(fields[f],
          IF f \in DOMAIN fields THEN p[k].settings[f] ELSE fields[f].default)]
    BY <1>3, <1>6 DEF Settings, Filled
  <2>2. Anew(p[k]).settings = [f \in DOMAIN fields |-> Normal(fields[f], p[k].settings[f])]
    BY DEF Anew
  <2> QED
    BY <2>1, <2>2
<1>10. ASSUME NEW k \in 1..N
       PROVE  BlockAt(raw, k) = Anew(p[k])
  <2>1. (CHOOSE n \in {p[k].order} : TRUE) = p[k].order
    OBVIOUS
  <2>2. BlockAt(raw, k) = [type |-> p[k].type, title |-> p[k].title, order |-> p[k].order,
                           settings |-> Settings(raw[k])]
    BY <1>1, <1>3, <2>1 DEF BlockAt, IsBlock
  <2> QED
    BY <1>9, <2>2 DEF Anew
<1>11. Parse(Serialize(p)) = Sorted(q)
  <2>1. {i \in DOMAIN raw : Known(raw[i])} = 1..N
    BY <1>4, <1>6
  <2>2. [i \in 1..N |-> BlockAt(raw, i)] = q
    BY <1>10 DEF AllAnew
  <2>3. Raw(Serialize(p)) = raw
    BY <1>2 DEF Raw
  <2> QED
    BY <2>1, <2>2, <2>3 DEF Parse, ParseBlocks
<1>12. Sorted(q) = q
  <2>1. IsBlocks(q, N)
    BY AllAnewAreBlocks
  <2> HIDE DEF q
  <2>2. \A k \in 1..N : q[k].order \in Nat /\ q[k].title \in Nat
    BY <2>1 DEF IsBlocks, IsBlock
  <2>3. N \in Nat /\ q = [k \in 1..N |-> q[k]] /\ \A k, l \in 1..N : k < l => NotAfter(q[k], q[l])
    BY <2>1 DEF IsBlocks
  <2> QED
    BY <2>2, <2>3, SortedStaysSorted
<1> HIDE DEF q
<1>13. Serialize(p).blocks = raw /\ Serialize(p).shape = "list"
  BY <1>2
<1>14. DOMAIN Serialize(p).blocks = 1..N
  BY <1>4, <1>13
<1>15. \A k \in 1..N : /\ Known(Serialize(p).blocks[k])
                         /\ Serialize(p).blocks[k].type = p[k].type
                         /\ Settings(Serialize(p).blocks[k]) = Anew(p[k]).settings
  BY <1>3, <1>6, <1>9, <1>13
<1>16. Parse(Serialize(p)) = AllAnew(p, N)
  BY <1>11, <1>12 DEF q
<1> QED
  BY <1>8, <1>13, <1>14, <1>15, <1>16

\* A reader sees no difference in a block that is normalized once more, the
\* audit finds none, and it lacks nothing it had.
LEMMA AnewIsAlike ==
  ASSUME NEW b, IsBlock(b)
  PROVE  /\ Anew(b).type = b.type /\ Rendered(Anew(b)) = Rendered(b) /\ Cost(Anew(b)) = Cost(b)
         /\ HasRequired(BlockTypes[b.type], b.settings) =>
              HasRequired(BlockTypes[b.type], Anew(b).settings)
<1> DEFINE a == Anew(b)
           t == b.type
           fields == BlockTypes[t]
<1>1. a.type = t /\ t \in DOMAIN BlockTypes
  BY DEF Anew, IsBlock
<1>2. \A f \in DOMAIN fields :
        /\ fields[f].editor # "items" => a.settings[f] = b.settings[f]
        /\ fields[f].editor = "items" => \A type : Cards(type, a.settings[f]) = Cards(type, b.settings[f])
  BY AnewIsBlock
<1> HIDE DEF a
<1>3. Rendered(a) = Rendered(b)
  <2>1. HiddenButton(a) = HiddenButton(b)
    <3>1. t \in DOMAIN Buttons => \A f \in Buttons[t] : a.settings[f] = b.settings[f]
      BY <1>1, <1>2, BuilderAssumption
    <3> QED
      BY <1>1, <3>1 DEF HiddenButton
  <2>2. Shown[t] \subseteq DOMAIN fields
    BY <1>1, BuilderAssumption
  <2> DEFINE fs == Shown[t] \ HiddenButton(b)
             part(c, f) == IF fields[f].editor = "items" THEN Cards(t, c.settings[f]) ELSE c.settings[f]
  <2>3. Rendered(a) = [f \in fs |-> part(a, f)] /\ Rendered(b) = [f \in fs |-> part(b, f)]
    BY <1>1, <2>1 DEF Rendered
  <2>4. \A f \in fs : part(a, f) = part(b, f)
    BY <1>2, <2>2
  <2> HIDE DEF part, fs
  <2> QED
    BY <2>3, <2>4
<1>4. Cost(a) = Cost(b)
  <2>1. t \in DOMAIN Poor => a.settings[Poor[t].field] = b.settings[Poor[t].field]
    BY <1>1, <1>2, BuilderAssumption
  <2> QED
    BY <1>1, <2>1 DEF Cost
<1>5. ASSUME HasRequired(fields, b.settings)
      PROVE  HasRequired(fields, a.settings)
  <2>1. \A f \in DOMAIN fields : fields[f].required => a.settings[f] = b.settings[f]
    BY <1>1, <1>2, BuilderAssumption
  <2> QED
    BY <1>5, <2>1 DEF HasRequired
<1> QED
  BY <1>1, <1>3, <1>4, <1>5 DEF a

LEMMA AuditedAlike ==
  ASSUME NEW p, NEW N, IsBlocks(p, N)
  PROVE  AuditScore(AllAnew(p, N)) = AuditScore(p)
<1> DEFINE q == AllAnew(p, N)
           costs(s) == [i \in DOMAIN s |-> Cost(s[i])]
           types(s) == {s[i].type : i \in DOMAIN s}
<1>1. N \in Nat /\ p = [k \in 1..N |-> p[k]] /\ q = [k \in 1..N |-> q[k]]
  BY DEF IsBlocks, AllAnew
<1>2. \A k \in 1..N : q[k].type = p[k].type /\ Cost(q[k]) = Cost(p[k])
  BY AnewIsAlike DEF AllAnew, IsBlocks
<1> HIDE DEF q
<1>3. DOMAIN p = 1..N /\ DOMAIN q = 1..N
  BY <1>1
<1>4. types(q) = types(p) /\ costs(q) = costs(p)
  BY <1>2, <1>3
<1>5. p = <<>> <=> q = <<>>
  <2>1. p \in Seq(ToSet(p)) /\ q \in Seq(ToSet(q)) /\ Len(p) = N /\ Len(q) = N
    BY <1>1, IsItsSequence
  <2> QED
    BY <2>1
<1> HIDE DEF costs, types
<1>6. AuditScore(q) = AuditScore(p)
  <2> DEFINE missing(s) == (IF "hero" \in types(s) THEN 0 ELSE 3) +
                           (IF types(s) \cap {"cta", "download_card"} = {} THEN 10 ELSE 0)
             score(s) == LET lost == missing(s) + Total(costs(s))
                         IN  IF s = <<>> THEN 90 ELSE IF lost > 100 THEN 0 ELSE 100 - lost
  <2>1. AuditScore(q) = score(q) /\ AuditScore(p) = score(p)
    BY DEF AuditScore, types, costs
  <2>2. missing(q) = missing(p) /\ Total(costs(q)) = Total(costs(p))
    BY <1>4
  <2> HIDE DEF missing
  <2> QED
    BY <1>5, <2>1, <2>2
<1> QED
  BY <1>6 DEF q

LEMMA SeenAlike ==
  ASSUME NEW p, NEW N, IsBlocks(p, N), NEW value, NEW other,
         Parse(value) = p, Parse(other) = AllAnew(p, N)
  PROVE  View(other) = View(value)
<1> DEFINE q == AllAnew(p, N)
           seen(s) == [i \in DOMAIN s |-> <<s[i].type, Rendered(s[i])>>]
<1>1. DOMAIN p = 1..N /\ DOMAIN q = 1..N
  BY DEF IsBlocks, AllAnew
<1>2. \A k \in 1..N : q[k].type = p[k].type /\ Rendered(q[k]) = Rendered(p[k])
  BY AnewIsAlike DEF AllAnew, IsBlocks
<1>3. AuditScore(q) = AuditScore(p)
  BY AuditedAlike
<1>4. seen(q) = seen(p)
  BY <1>1, <1>2
<1>5. View(other) = [blocks |-> seen(q), score |-> AuditScore(q)]
  BY DEF View
<1>6. View(value) = [blocks |-> seen(p), score |-> AuditScore(p)]
  BY DEF View
<1> QED
  BY <1>3, <1>4, <1>5, <1>6

LEMMA StoredIsAccepted ==
  ASSUME NEW p, NEW N, IsBlocks(p, N), AllHaveRequired(p, N)
  PROVE  Accepts(Serialize(p)) /\ AllHaveRequired(AllAnew(p, N), N)
<1>1. \A k \in 1..N : /\ AllAnew(p, N)[k] = Anew(p[k]) /\ Anew(p[k]).type = p[k].type
                      /\ HasRequired(BlockTypes[p[k].type], Anew(p[k]).settings)
  BY AnewIsAlike DEF AllHaveRequired, IsBlocks, AllAnew
<1>2. AllHaveRequired(AllAnew(p, N), N)
  BY <1>1 DEF AllHaveRequired
<1>3. \A k \in 1..N : Known(Serialize(p).blocks[k]) /\ Complete(Serialize(p).blocks[k])
  BY <1>1, StoredParses DEF Complete
<1>4. Serialize(p).shape = "list" /\ DOMAIN Serialize(p).blocks = 1..N
  BY StoredParses
<1> QED
  BY <1>2, <1>3, <1>4 DEF Accepts

\* Of an accepted body, a save stores what is seen alike, accepted again, and
\* from the second save on the same.
LEMMA SavedOfAccepted ==
  ASSUME NEW value, IsBody(value), Accepts(value), NEW saved, saved = Again(value)
  PROVE  /\ IsBody(saved) /\ Accepts(saved) /\ View(saved) = View(value)
         /\ Again(Again(saved)) = Again(saved)
<1> DEFINE p == Parse(value)
<1>1. PICK N : IsBlocks(p, N) /\ AllHaveRequired(p, N)
  BY ParsedAreBlocks
<1> DEFINE q == AllAnew(p, N)
<1>2. IsBlocks(q, N) /\ AllAnew(q, N) = q
  BY <1>1, AllAnewAreBlocks
<1>3. saved = Serialize(p)
  BY DEF Again
<1>4. Parse(saved) = q /\ IsBody(saved)
  BY <1>1, <1>3, StoredParses
<1>5. Accepts(saved)
  BY <1>1, <1>3, StoredIsAccepted
<1>6. View(saved) = View(value)
  BY <1>1, <1>4, SeenAlike
<1>7. Again(saved) = Serialize(q)
  BY <1>4 DEF Again
<1> HIDE DEF q, p
<1>8. Parse(Again(saved)) = q
  BY <1>2, <1>7, StoredParses
<1>9. Again(Again(saved)) = Again(saved)
  BY <1>7, <1>8 DEF Again
<1> QED
  BY <1>4, <1>5, <1>6, <1>9

LEMMA AgainIsBody == ASSUME NEW value, IsBody(value) PROVE IsBody(Again(value))
<1>1. PICK N : IsBlocks(Parse(value), N)
  BY ParsedAreBlocks
<1> QED
  BY <1>1, StoredParses DEF Again

\* Only accepted bodies are saved, once or twice serialized.
BodyInv ==
  /\ IsBody(body) /\ IsBody(from) /\ Accepts(from)
  /\ stored \in {Again(from), Again(Again(from))}

LEMMA NothingIsSaved == IsBody(NoBlocks) /\ Accepts(NoBlocks) /\ Again(NoBlocks) = NoBlocks
<1>1. NoBlocks.shape = "list" /\ NoBlocks.blocks = <<>> /\ DOMAIN NoBlocks.blocks = {}
  BY DEF NoBlocks
<1>2. IsBody(NoBlocks) /\ Accepts(NoBlocks)
  BY <1>1 DEF IsBody, Accepts
<1>3. Again(NoBlocks) = NoBlocks
  <2> DEFINE at == [i \in {i \in DOMAIN NoBlocks.blocks : Known(NoBlocks.blocks[i])}
                      |-> BlockAt(NoBlocks.blocks, i)]
  <2>1. Parse(NoBlocks) = Sorted(at)
    BY <1>1 DEF Parse, ParseBlocks, Raw
  <2>2. at = [k \in 1..0 |-> at[k]]
    BY <1>1
  <2> HIDE DEF at
  <2>3. Sorted(at) = at
    <3>1. 0 \in Nat /\ 1..0 = {}
      OBVIOUS
    <3>2. \A k \in 1..0 : at[k].order \in Nat /\ at[k].title \in Nat
      BY <3>1
    <3>3. \A k, l \in 1..0 : k < l => NotAfter(at[k], at[l])
      BY <3>1
    <3> QED
      BY <2>2, <3>1, <3>2, <3>3, SortedStaysSorted
  <2>4. DOMAIN at = {}
    BY <2>2
  <2>5. at = <<>>
    <3>1. at \in Seq(ToSet(at)) /\ Len(at) = 0
      BY <2>2, IsItsSequence
    <3> QED
      BY <3>1
  <2>6. Serialize(<<>>) = NoBlocks
    <3> DEFINE raw == Serialize(<<>>).blocks
    <3>1. Serialize(<<>>) = [shape |-> "list", blocks |-> raw] /\ raw = [k \in 1..0 |-> raw[k]]
      BY DEF Serialize
    <3> HIDE DEF raw
    <3>2. raw \in Seq(ToSet(raw)) /\ Len(raw) = 0
      BY <3>1, IsItsSequence
    <3>3. raw = <<>>
      BY <3>2
    <3> QED
      BY <3>1, <3>3 DEF NoBlocks
  <2> QED
    BY <2>1, <2>3, <2>5, <2>6 DEF Again
<1> QED
  BY <1>2, <1>3

LEMMA BodyInvHolds == BodySpec => []BodyInv
<1>1. BodyInit => BodyInv
  BY NothingIsSaved DEF BodyInit, BodyInv
<1>2. ASSUME BodyInv, [BodyNext]_bodyVars
      PROVE  BodyInv'
  <2> USE DEF BodyInv
  <2>1. CASE Fill
    BY <1>2, <2>1, BodiesAssumption DEF Fill
  <2>2. CASE SaveForm
    BY <1>2, <2>2 DEF SaveForm
  <2>3. CASE SaveCall
    BY <1>2, <2>3 DEF SaveCall
  <2>4. CASE OpenForm
    <3>1. IsBody(stored)
      BY <1>2, AgainIsBody
    <3> QED
      BY <1>2, <2>4, <3>1, AgainIsBody DEF OpenForm
  <2>5. CASE UNCHANGED bodyVars
    BY <1>2, <2>5 DEF bodyVars
  <2> QED
    BY <1>2, <2>1, <2>2, <2>3, <2>4, <2>5 DEF BodyNext
<1> QED
  BY <1>1, <1>2, PTL DEF BodySpec

\* What was previewed is what is published, whatever forms send: what is stored,
\* by the office's two saves or by a platform route's one, is seen by readers and
\* the audit as the form's own blocks were; it can be opened and saved again, and
\* no second such save changes it.
THEOREM SavesShowThePreview == BodySpec => []SavedAsPreviewed
<1>1. BodyInv => SavedAsPreviewed
  <2> SUFFICES ASSUME BodyInv PROVE SavedAsPreviewed
    OBVIOUS
  <2> DEFINE once == Again(from)
             more == Again(once)
  <2>1. IsBody(from) /\ Accepts(from) /\ stored \in {once, more}
    BY DEF BodyInv
  <2>2. /\ IsBody(once) /\ Accepts(once) /\ View(once) = View(from)
        /\ Again(more) = more
    BY <2>1, SavedOfAccepted
  <2> HIDE DEF once
  <2>3. Accepts(more) /\ View(more) = View(once)
    BY <2>2, SavedOfAccepted
  <2> HIDE DEF more
  <2>4. Again(once) = more
    BY DEF more
  <2> QED
    BY <2>1, <2>2, <2>3, <2>4 DEF SavedAsPreviewed
<1> QED
  BY <1>1, BodyInvHolds, PTL
-----------------------------------------------------------------------------
(* Domains. A request is served under the row of its host, of the host's   *)
(* wildcard or of any host, and else under the default row.                *)

\* Rows of different ids have different hostnames, and one of them at most is default.
DomainsInv ==
  /\ domains \in [DomainIds -> [host : Hosts \cup {None}, root : NodeIds \cup {None},
                                default : BOOLEAN]]
  /\ \A d, e \in DomainIds :
       /\ domains[d].host = domains[e].host /\ domains[d].host # None => d = e
       /\ domains[d].default /\ domains[e].default => d = e

LEMMA DomainsStep == DomainsInv /\ [RoutingNext]_routingVars => DomainsInv'
<1> SUFFICES ASSUME DomainsInv, [RoutingNext]_routingVars PROVE DomainsInv'
  OBVIOUS
<1>1. ASSUME NEW id \in DomainIds \cup {None}, NEW h \in Hosts, NEW n \in NodeIds,
             NEW default \in BOOLEAN, SaveDomain(id, h, n, default)
      PROVE  DomainsInv'
  <2>1. PICK d \in RowFor(id, h) :
          /\ \A other \in DomainIds \ {d} : domains[other].host # h
          /\ domains' = [other \in DomainIds |->
               IF other = d THEN [host |-> h, root |-> n, default |-> default]
               ELSE IF default THEN [domains[other] EXCEPT !.default = FALSE]
               ELSE domains[other]]
    BY <1>1 DEF SaveDomain
  <2>2. ASSUME NEW e \in DomainIds
        PROVE  /\ domains'[e] \in [host : Hosts \cup {None}, root : NodeIds \cup {None},
                                   default : BOOLEAN]
               /\ domains'[e].host = IF e = d THEN h ELSE domains[e].host
               /\ domains'[e].default => IF e = d THEN default
                                         ELSE ~default /\ domains[e].default
    <3>1. domains[e] \in [host : Hosts \cup {None}, root : NodeIds \cup {None},
                          default : BOOLEAN]
      BY DEF DomainsInv
    <3>2. CASE e = d
      BY <2>1, <3>2
    <3>3. CASE e # d
      BY <2>1, <3>1, <3>3
    <3> QED
      BY <3>2, <3>3
  <2>3. domains' \in [DomainIds -> [host : Hosts \cup {None}, root : NodeIds \cup {None},
                                    default : BOOLEAN]]
    BY <2>1, <2>2
  <2>4. ASSUME NEW e \in DomainIds, NEW f \in DomainIds
        PROVE  /\ domains'[e].host = domains'[f].host /\ domains'[e].host # None => e = f
               /\ domains'[e].default /\ domains'[f].default => e = f
    BY <2>1, <2>2 DEF DomainsInv
  <2> QED
    BY <2>3, <2>4 DEF DomainsInv
<1>2. ASSUME NEW d \in DomainIds, DeleteDomain(d)
      PROVE  DomainsInv'
  BY <1>2 DEF DeleteDomain, DomainsInv, NoDomain
<1>3. CASE UNCHANGED domains
  BY <1>3 DEF DomainsInv
<1> QED
  BY <1>1, <1>2, <1>3 DEF RoutingNext, LinkStep, SaveRedirect, IssueToken, RevokeToken,
     linkVars, routingVars

LEMMA AtMostOne ==
  ASSUME NEW S, \A x, y \in S : x = y
  PROVE  Cardinality(S) <= 1
<1>1. CASE S = {}
  BY <1>1, FS_EmptySet
<1>2. CASE S # {}
  <2>1. PICK x \in S : TRUE
    BY <1>2
  <2>2. S = {x}
    BY <2>1
  <2> QED
    BY <2>2, FS_Singleton
<1> QED
  BY <1>1, <1>2

\* However rows are saved, renamed and deleted, a host leads to one domain, and an
\* unknown one to the only fallback there is: no sort order decides.
THEOREM FallbackIsOne == ASSUME None \notin Hosts PROVE RoutingSpec => []FallbackIsUnique
<1>1. RoutingInit => DomainsInv
  BY DEF RoutingInit, DomainsInv, NoDomain
<1>2. ASSUME DomainsInv
      PROVE  FallbackIsUnique
  <2>1. \A d, e \in DomainIds : domains[d].default /\ domains[e].default => d = e
    BY <1>2 DEF DomainsInv
  <2>2. ASSUME NEW h \in Hosts
        PROVE  Cardinality(ResolveDomain(h)) <= 1
    <3>1. ASSUME NEW g \in Hosts
          PROVE  \A d, e \in DomainWith({g}) : d = e
      BY <1>2 DEF DomainWith, DomainsInv
    <3>2. WildcardOf[h] \in Hosts /\ AnyHost \in Hosts
      BY HostAssumption
    <3>3. \A d, e \in {d \in DomainIds : domains[d].default} : d = e
      BY <2>1
    <3> DEFINE here == DomainWith({h})
               wild == DomainWith({WildcardOf[h]})
               other == DomainWith({AnyHost})
               either == DomainWith({h, WildcardOf[h]})
               fallback == {d \in DomainIds : domains[d].default}
    <3>4. ResolveDomain(h) = CASE here # {} -> here
                               [] here = {} /\ wild # {} -> wild
                               [] either = {} /\ other # {} -> other
                               [] OTHER -> fallback
      BY DEF ResolveDomain
    <3>5. here = {} /\ wild = {} <=> either = {}
      BY DEF DomainWith
    <3>6. /\ \A d, e \in here : d = e
          /\ \A d, e \in wild : d = e
          /\ \A d, e \in other : d = e
      BY <3>1, <3>2
    <3> HIDE DEF here, wild, other, either, fallback
    <3>7. ResolveDomain(h) \in {here, wild, other, fallback}
      BY <3>4, <3>5
    <3>8. \A d, e \in ResolveDomain(h) : d = e
      BY <3>3, <3>6, <3>7 DEF fallback
    <3> QED
      BY <3>8, AtMostOne
  <2> QED
    BY <2>1, <2>2 DEF FallbackIsUnique
<1> QED
  BY <1>1, <1>2, DomainsStep, PTL DEF RoutingSpec
-----------------------------------------------------------------------------
(* The site and its pages: one database, one behaviour.                    *)

\* Rules, links and the calls of readers leave the tables of the pages alone.
LEMMA BesidePages ==
  /\ CopyStep => UNCHANGED vars
  /\ RuleStep => UNCHANGED vars
  /\ LinkStep => UNCHANGED vars
<1>1. CopyStep => UNCHANGED vars
  BY DEF CopyStep, PublishVariant, PublishSegment, PublishCopy, SaveVariant, SaveSegment, SaveCopy
<1>2. RuleStep => UNCHANGED vars
  BY DEF RuleStep, Grant, Revoke, SetAccess, RemoveAccess
<1>3. LinkStep => UNCHANGED vars
  BY DEF LinkStep, SaveDomain, DeleteDomain, SaveRedirect, IssueToken, RevokeToken
<1> QED
  BY <1>1, <1>2, <1>3

LEMMA ReadingWritesNothing ==
  /\ \A r : ReadStep(r) => UNCHANGED vars
  /\ \A r : ListStep(r) => UNCHANGED vars
<1>1. ASSUME NEW r, ReadStep(r) PROVE UNCHANGED vars
  BY <1>1 DEF ReadStep, Arrive, AskAccess, FindAddress, FindPage, Redirect, ReadPage, ReadVariant,
              ReadSegment, ReadAgain, Finish, tableVars
<1>2. ASSUME NEW r, ListStep(r) PROVE UNCHANGED vars
  BY <1>2 DEF ListStep, ReaderStep, StartSitemap, StartFeed, StartLinks,
              StartSearch, StartTree, Begin, ReadResult, ReadBranch, LookAtRoute, LookById, LookAtLink,
              Answer, Deliver, EndList, listTables
<1> QED
  BY <1>1, <1>2

\* Site visits, with the copies, rules and links they are answered by, do to the
\* tables of the pages what ContentNodes does.
THEOREM VisitsAreOperations == SiteSpec => Spec
<1>1. SiteInit => Init
  BY DEF SiteInit, VariantInit
<1>2. [SiteNext]_siteVars => [Next]_vars
  BY PageStepIsTreeStep, BesidePages, ReadingWritesNothing DEF SiteNext, siteVars, Next
<1> QED
  BY <1>1, <1>2, PTL DEF SiteSpec, Spec

\* So do the lists.
THEOREM ListsAreOperations == ListingSpec => Spec
<1>1. ListingInit => Init
  BY DEF ListingInit, VariantInit
<1>2. [ListingNext]_<<listTables, listVars>> => [Next]_vars
  BY PageStepIsTreeStep, BesidePages, ReadingWritesNothing DEF ListingNext, listTables, Next
<1> QED
  BY <1>1, <1>2, PTL DEF ListingSpec, Spec

\* And domains, redirects and preview tokens.
THEOREM LinksAreOperations == RoutingSpec => Spec
<1>1. RoutingInit => Init
  BY DEF RoutingInit
<1>2. [RoutingNext]_routingVars => [Next]_vars
  BY BesidePages DEF RoutingNext, routingVars, Next
<1> QED
  BY <1>1, <1>2, PTL DEF RoutingSpec, Spec

\* What a preview token shows is the newest version of its page, whatever was saved,
\* restored and pruned since it was issued (resolve_preview_token reads the draft).
PreviewIsNewest ==
  \A t \in Tokens : Preview(t) # None =>
    \E v \in versions[tokens[t].node] :
      v.payload = Preview(t) /\ \A w \in versions[tokens[t].node] : w.no <= v.no

\* However pages are saved, restored and pruned beside them, tokens show the newest.
THEOREM PreviewsShowTheNewest == RoutingSpec => []PreviewIsNewest
<1>1. RoutingInit => TokensInv
  <2>1. NoToken \in TokenRows
    BY DEF NoToken, TokenRows
  <2> QED
    BY <2>1, LifecycleInit DEF RoutingInit, TokensInv
<1>2. TokensInv /\ [RoutingNext]_routingVars => TokensInv'
  BY TokensStep
<1>3. TokensInv => PreviewIsNewest
  <2> SUFFICES ASSUME TokensInv, NEW t \in Tokens, Preview(t) # None
               PROVE  \E v \in versions[tokens[t].node] :
                        /\ v.payload = Preview(t)
                        /\ \A w \in versions[tokens[t].node] : w.no <= v.no
    BY DEF PreviewIsNewest
  <2>1. /\ TokenIsActive(t) /\ Exists(tokens[t].node)
        /\ Preview(t) = nodes[tokens[t].node].draft
    BY DEF Preview
  <2>2. tokens[t].node \in NodeIds
    BY <2>1 DEF TokenIsActive, TokensInv
  <2> QED
    BY <2>1, <2>2 DEF TokensInv, LifecycleInv, NewestVersionIsDraft
<1> QED
  BY <1>1, <1>2, <1>3, PTL DEF RoutingSpec
=============================================================================
