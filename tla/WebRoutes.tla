------------------------------ MODULE WebRoutes ------------------------------
(***************************************************************************)
(* The pages and forms of the editor's office and the public site          *)
(* (web/routes.py), as rows of the same table, and the table of the whole  *)
(* application (app.py): which handler a request comes to. A handler of    *)
(* the office lets in who has any permission at all, asks for the one it   *)
(* needs, reads its form, looks up what it is about, and calls a service;  *)
(* in which order differs from handler to handler.                         *)
(***************************************************************************)
EXTENDS PlatformRoutes

\* _guard: anyone without a permission is sent to the login page.
GuardStep == [kind |-> "guard"]

\* _can: for the action on a page, on the page's parent or on the page a token
\* shows, or, of no page, wherever it may be granted.
AskStep(action, subject) == [kind |-> "ask", action |-> action, subject |-> subject]

\* await parse_form: other requests go on meanwhile.
FormStep == [kind |-> "form"]

\* The page, or the token, must be there.
FindStep(status) == [kind |-> "find", status |-> status]

\* A page or report; a form; a button without a form.
Show(path, handler, action, subject, failures) ==
  Row("GET", path, handler, <<GuardStep, AskStep(action, subject), WorkStep(failures)>>)
Listing(path, handler, action) == Show(path, handler, action, "site", {})
Send(path, handler, action, subject, failures) ==
  Row("POST", path, handler,
      <<GuardStep, AskStep(action, subject), FormStep, WorkStep(failures)>>)
Press(path, handler, action, subject, failures) ==
  Row("POST", path, handler, <<GuardStep, AskStep(action, subject), WorkStep(failures)>>)

\* What is about a page answers 404 if the page is not there.
Shown(path, handler) ==
  Row("GET", path, handler,
      <<GuardStep, AskStep("browse", "page"), FindStep(404), WorkStep({})>>)

-----------------------------------------------------------------------------
(* The office.                                                             *)

OfficeRows == <<
  Listing(<<>>, "archub_dashboard", "browse"),
  Listing(<<"runtime", "audit.json">>, "runtime_audit_json", "settings"),
  Row("GET", <<"content", "health.json">>, "content_health_json", <<GuardStep, WorkStep({})>>),
  Listing(<<"delivery-cache.json">>, "delivery_cache_json", "browse"),
  Show(<<"preview-tokens.json">>, "preview_tokens_json", "browse", "named", {}),
  Listing(<<"runtime", "snapshot.json">>, "runtime_snapshot_json", "settings")>>

PackageRows == <<
  Listing(<<"runtime", "manifest.json">>, "runtime_manifest_json", "settings"),
  Listing(<<"packages", "export.json">>, "export_content_package_json", "settings"),
  Send(<<"packages", "inspect">>, "inspect_content_package", "settings", "site", {400}),
  Send(<<"packages", "plan">>, "plan_content_package_import", "settings", "site", {400}),
  Send(<<"packages", "import">>, "import_content_package", "settings", "site", {400})>>

ModelRows == <<
  Listing(<<"media.json">>, "media_library_json", "media"),
  Listing(<<"dictionary.json">>, "dictionary_items_json", "settings"),
  Listing(<<"content-model.json">>, "content_model_json", "model"),
  Listing(<<"data-types.json">>, "data_types_json", "model"),
  Send(<<"content-model", "data-types">>, "upsert_data_type", "model", "site", {400}),
  Listing(<<"templates.json">>, "templates_json", "model"),
  Send(<<"content-model", "templates">>, "upsert_template", "model", "site", {400}),
  Listing(<<"content-blueprints.json">>, "content_blueprints_json", "model"),
  Send(<<"content-blueprints">>, "upsert_content_blueprint", "model", "site", {400})>>

\* Types, and what leads readers to pages.
TypeRows == <<
  Press(<<"content-blueprints", "*", "delete">>, "delete_content_blueprint", "model", "site", {}),
  Send(<<"content-model", "compositions">>, "upsert_content_composition", "model", "site", {400}),
  Send(<<"content-model", "types">>, "upsert_content_type", "model", "site", {400}),
  Listing(<<"redirects.json">>, "redirects_json", "settings"),
  Listing(<<"domains.json">>, "content_domains_json", "settings"),
  Send(<<"domains">>, "upsert_content_domain", "settings", "site", {400}),
  Press(<<"domains", "*", "delete">>, "delete_content_domain", "settings", "site", {}),
  Send(<<"redirects">>, "upsert_redirect_rule", "settings", "site", {400})>>

\* Who may do what: for administrators, which no permission makes one.
OversightRows == <<
  Listing(<<"content", "references.json">>, "content_reference_graph_json", "browse"),
  Listing(<<"activity.json">>, "activity_json", "browse"),
  Listing(<<"trash.json">>, "trash_json", "delete"),
  Listing(<<"permissions.json">>, "content_permissions_json", "administrator"),
  Send(<<"permissions">>, "grant_content_permission", "administrator", "site", {400}),
  Press(<<"permissions", "*", "delete">>, "revoke_content_permission",
        "administrator", "site", {}),
  Listing(<<"access.json">>, "public_access_rules_json", "settings"),
  Listing(<<"locks.json">>, "content_locks_json", "browse"),
  Listing(<<"webhooks.json">>, "webhooks_json", "settings"),
  Send(<<"webhooks">>, "upsert_webhook", "settings", "site", {400})>>

\* A runtime export that fails answers with a redirect, as one that succeeds.
RuntimeRows == <<
  Listing(<<"webhooks", "deliveries.json">>, "webhook_deliveries_json", "settings"),
  Press(<<"webhooks", "dispatch">>, "dispatch_webhook_deliveries", "settings", "site", {}),
  Listing(<<"workflow.json">>, "workflow_report_json", "workflow"),
  Press(<<"workflow", "apply-due">>, "apply_due_workflows", "workflow", "site", {}),
  Press(<<"runtime", "export">>, "export_runtime_content", "settings", "site", {303}),
  Press(<<"runtime", "sync">>, "sync_runtime_sources", "settings", "site", {303}),
  Send(<<"runtime", "rebuild-rag">>, "rebuild_runtime_rag", "settings", "site", {303})>>

\* The builder asks for nothing but some permission.
KnowledgeRows == <<
  Row("GET", <<"content-builder", "blocks.json">>, "content_builder_blocks_json",
      <<GuardStep, WorkStep({})>>),
  Listing(<<"knowledge", "platform.json">>, "knowledge_platform_json", "browse"),
  Listing(<<"knowledge", "documents.json">>, "knowledge_documents_json", "browse"),
  Listing(<<"knowledge", "graph.json">>, "knowledge_graph_json", "browse"),
  Listing(<<"knowledge", "plugins.json">>, "knowledge_plugins_json", "settings"),
  Listing(<<"knowledge", "vault-export.json">>, "knowledge_vault_export_json", "browse"),
  Send(<<"knowledge", "ask">>, "knowledge_ask", "browse", "site", {400}),
  Row("GET", <<"content-builder", "blueprints.json">>, "content_builder_blueprints_json",
      <<GuardStep, WorkStep({})>>),
  Row("POST", <<"content-builder", "preview">>, "preview_content_builder_blocks",
      <<GuardStep, FormStep, WorkStep({400})>>)>>

\* A new page is asked for of its parent, which a form names.
PageRowsEditFirst == <<
  Row("POST", <<"content-builder", "audit">>, "audit_content_builder_blocks",
      <<GuardStep, FormStep, WorkStep({400})>>),
  Row("POST", <<"content">>, "create_content",
      <<GuardStep, FormStep, AskStep("create", "parent"), WorkStep({303, 400})>>),
  Row("GET", <<"content", "*">>, "edit_content",
      <<GuardStep, FindStep(303), AskStep("browse", "page"), WorkStep({303})>>),
  Show(<<"content", "new">>, "new_content", "create", "parent", {303})>>
PageRows == <<
  Row("POST", <<"content-builder", "audit">>, "audit_content_builder_blocks",
      <<GuardStep, FormStep, WorkStep({400})>>),
  Show(<<"content", "new">>, "new_content", "create", "parent", {303}),
  Row("POST", <<"content">>, "create_content",
      <<GuardStep, FormStep, AskStep("create", "parent"), WorkStep({303, 400})>>),
  Row("GET", <<"content", "*">>, "edit_content",
      <<GuardStep, FindStep(303), AskStep("browse", "page"), WorkStep({303})>>)>>

\* Asked for a token, which is looked up first.
TokenRows == <<
  Row("GET", <<"content", "*", "preview">>, "preview_content_draft",
      <<GuardStep, FindStep(303), AskStep("browse", "page"), WorkStep({303})>>),
  Show(<<"content", "*", "references.json">>, "content_references_json", "browse", "page", {404}),
  Show(<<"content", "*", "workflow.json">>, "content_workflow_json", "browse", "page", {404}),
  Shown(<<"content", "*", "activity.json">>, "content_activity_json"),
  Shown(<<"content", "*", "lock.json">>, "content_lock_json"),
  Shown(<<"content", "*", "preview-tokens.json">>, "content_preview_tokens_json"),
  Send(<<"content", "*", "preview-tokens">>, "create_content_preview_token",
       "update", "page", {400}),
  Row("POST", <<"preview-tokens", "*", "revoke">>, "revoke_content_preview_token",
      <<GuardStep, FindStep(404), AskStep("update", "token"), WorkStep({404}), FormStep>>)>>

\* Rules for readers, locks, and copies: saved with "publish" they are released
\* too, and only "update" is asked for.
AccessRows == <<
  Show(<<"content", "*", "access.json">>, "content_public_access_json", "browse", "page", {404}),
  Send(<<"content", "*", "access">>, "update_content_public_access", "settings", "page", {400}),
  Press(<<"content", "*", "access", "delete">>, "remove_content_public_access",
        "settings", "page", {}),
  Send(<<"content", "*", "lock">>, "acquire_content_lock", "update", "page", {409}),
  Send(<<"content", "*", "unlock">>, "release_content_lock", "update", "page", {409}),
  Show(<<"content", "*", "variants.json">>, "content_variants_json", "browse", "page", {404}),
  Send(<<"content", "*", "variants">>, "upsert_content_variant", "update", "page", {400})>>

CopiedRows == <<
  Press(<<"content", "*", "variants", "*", "publish">>, "publish_content_variant",
        "publish", "page", {400}),
  Show(<<"content", "*", "segments.json">>, "content_segments_json", "browse", "page", {404}),
  Send(<<"content", "*", "segments">>, "upsert_content_segment", "update", "page", {400}),
  Press(<<"content", "*", "segments", "*", "publish">>, "publish_content_segment",
        "publish", "page", {400}),
  Row("POST", <<"content", "*", "blueprints">>, "save_content_as_blueprint",
      <<GuardStep, AskStep("model", "site"), FindStep(404), AskStep("browse", "page"),
        FormStep, WorkStep({400})>>)>>

\* A change that fails sends the editor back to the page, a copy to its source.
ChangeRows == <<
  Show(<<"content", "*", "versions", "*", "json">>, "content_version_json",
       "browse", "page", {404}),
  Row("POST", <<"content", "*">>, "update_content",
      <<GuardStep, FormStep, FindStep(303), AskStep("update", "page"), WorkStep({303, 400})>>),
  Press(<<"content", "*", "publish">>, "publish_content", "publish", "page", {303}),
  Press(<<"content", "*", "unpublish">>, "unpublish_content", "publish", "page", {303}),
  Row("POST", <<"content", "*", "duplicate">>, "duplicate_content",
      <<GuardStep, FindStep(303), AskStep("create", "parent"), WorkStep({303})>>),
  Send(<<"content", "*", "workflow">>, "update_content_workflow", "workflow", "page", {303})>>

BinRows == <<
  Press(<<"content", "*", "versions", "*", "restore">>, "restore_content_version",
        "update", "page", {303}),
  Send(<<"content", "*", "versions", "cleanup">>, "cleanup_content_versions",
       "update", "page", {400}),
  Press(<<"content", "*", "delete">>, "delete_content", "delete", "page", {303}),
  Press(<<"content", "*", "restore-from-trash">>, "restore_content_from_trash",
        "delete", "page", {400}),
  Press(<<"content", "*", "purge">>, "purge_content_from_trash", "delete", "page", {400})>>

-----------------------------------------------------------------------------
(* The public site, whose requests PublicReads and PublicListings follow.  *)

SiteRows == <<
  OnGet(<<"cms", "api", "preview", "*">>, "cms_preview_api", {404}),
  OnGet(<<"cms", "api", "tree">>, "cms_tree_api", {400}),
  OnGet(<<"cms", "api", "search">>, "cms_search_api", {400}),
  OnGet(<<"cms", "api", "tags">>, "cms_tags_api", {}),
  OnGet(<<"cms", "api", "tags", "*">>, "cms_tag_api", {}),
  OnGet(<<"cms", "api", "content">>, "cms_content_api_root", {400, 401, 403, 404}),
  OnGet(<<"cms", "api", "content", "**">>, "cms_content_api", {400, 401, 403, 404}),
  OnGet(<<"cms", "feed.xml">>, "cms_feed_xml", {}),
  OnGet(<<"feed.xml">>, "site_feed_xml", {}),
  OnGet(<<"sitemap.xml">>, "sitemap_xml", {}),
  OnGet(<<"robots.txt">>, "robots_txt", {}),
  OnGet(<<"cms">>, "cms_root", {302, 400, 403, 404}),
  OnGet(<<"cms", "**">>, "cms_page", {302, 400, 403, 404})>>

ConsoleRows == <<OnGet(<<"admin", "platform">>, "platform_admin_dashboard", {})>>

-----------------------------------------------------------------------------
(* The application.                                                        *)

Office ==
  OfficeRows \o PackageRows \o ModelRows \o TypeRows \o OversightRows \o RuntimeRows \o
  KnowledgeRows \o PageRows \o TokenRows \o AccessRows \o CopiedRows \o ChangeRows \o BinRows

Under(prefix, rows) == [i \in DOMAIN rows |-> [rows[i] EXCEPT !.path = prefix \o @]]

\* The routers in the order they are included.
Table ==
  Under(<<"admin", "archub">>, Office) \o SiteRows \o
  Under(<<"api", "platform">>, PlatformRows) \o
  Under(<<"api", "platform", "collaboration">>, CommentRows) \o ConsoleRows \o
  Under(<<"api", "platform", "itsm">>, DeskRows) \o DeskPageRows

PathFits(pattern, path) ==
  LET fixed == IF pattern # <<>> /\ pattern[Len(pattern)] = "**"
               THEN Len(pattern) - 1 ELSE Len(pattern)
  IN  /\ Len(path) >= Len(pattern)
      /\ fixed = Len(pattern) => Len(path) = Len(pattern)
      /\ \A i \in 1..fixed : pattern[i] \in {"*", path[i]}

\* A request comes to the first route that fits its verb and its path.
Takers(verb, path) == {i \in DOMAIN Table : Table[i].verb = verb /\ PathFits(Table[i].path, path)}
Dispatch(verb, path) == CHOOSE i \in Takers(verb, path) : \A j \in Takers(verb, path) : i <= j
Reached == [i \in DOMAIN Table |-> Dispatch(Table[i].verb, Table[i].path)]
=============================================================================
