--------------------------- MODULE PlatformRoutes ----------------------------
(***************************************************************************)
(* The JSON interface of the platform (web/platform_routes.py,             *)
(* collaboration_routes.py, itsm_routes.py): one row per route, in the     *)
(* order of registration, with the steps its handler takes before and      *)
(* around the work of the service it calls. A handler of the platform asks *)
(* for nothing; one of the service desk asks for a permission of the desk  *)
(* and then for the desk. Bodies and results are left out.                 *)
(***************************************************************************)
EXTENDS Integers, Sequences

\* A path is a sequence of segments; "*" stands for any one segment, and "**"
\* for all that follow.
Row(verb, path, handler, steps) ==
  [verb |-> verb, path |-> path, handler |-> handler, steps |-> steps]

\* Steps. The work of a service may fail with one of these statuses; a check of
\* the body may fail with one.
WorkStep(failures) == [kind |-> "work", failures |-> failures]
CheckStep(status) == [kind |-> "check", status |-> status]
PermitStep(action) == [kind |-> "permit", action |-> action]
DeskStep == [kind |-> "desk"]

OnGet(path, handler, failures) == Row("GET", path, handler, <<WorkStep(failures)>>)
OnPost(path, handler, failures) == Row("POST", path, handler, <<WorkStep(failures)>>)
OnDelete(path, handler, failures) == Row("DELETE", path, handler, <<WorkStep(failures)>>)

-----------------------------------------------------------------------------
(* The platform (platform_routes.py).                                      *)

\* What the platform and its plugins are.
OverviewRoutes == <<
  OnGet(<<"capabilities">>, "platform_capabilities", {}),
  OnGet(<<"index">>, "platform_index", {}),
  OnGet(<<"report">>, "platform_report", {}),
  OnGet(<<"plugins">>, "plugin_runtime", {}),
  OnGet(<<"plugins", "catalog">>, "plugin_catalog", {}),
  OnGet(<<"plugins", "manage">>, "plugin_manage", {}),
  OnGet(<<"core-plugins">>, "core_plugins", {}),
  OnGet(<<"core-plugins", "rust-workspace">>,
         "core_plugin_rust_workspace", {}),
  OnGet(<<"modules", "manage">>, "module_manage", {})>>

\* Modules from a file or from a marketplace, under two names each.
InstallRoutes == <<
  OnPost(<<"plugins", "install", "file">>,
         "plugin_install_file", {404, 409, 422}),
  OnPost(<<"modules", "install", "file">>,
         "module_install_file", {404, 409, 422}),
  OnGet(<<"plugins", "marketplace">>, "plugin_marketplace", {404, 422}),
  OnGet(<<"modules", "marketplace">>, "module_marketplace", {404, 422}),
  OnPost(<<"plugins", "marketplace", "install">>,
         "plugin_marketplace_install", {404, 409, 422}),
  OnPost(<<"modules", "marketplace", "install">>,
         "module_marketplace_install", {404, 409, 422})>>

\* Switching plugins on and off, and their settings.
PluginRoutes == <<
  OnPost(<<"plugins", "*", "enable">>, "plugin_enable", {404}),
  OnPost(<<"plugins", "*", "disable">>, "plugin_disable", {404}),
  OnPost(<<"plugins", "*", "settings">>, "plugin_settings", {404})>>

\* Searching, and edit locks.
LockRoutes == <<
  OnGet(<<"search">>, "federated_search", {}),
  OnPost(<<"search">>, "federated_search_post", {}),
  OnGet(<<"locks">>, "locks_list", {}),
  OnGet(<<"locks", "*">>, "lock_detail", {}),
  OnPost(<<"locks", "*", "acquire">>, "lock_acquire", {409, 422}),
  OnPost(<<"locks", "*", "release">>, "lock_release", {409, 422})>>

\* The bin, and blueprints.
TrashRoutes == <<
  OnGet(<<"trash">>, "trash_list", {}),
  OnPost(<<"trash", "*", "restore">>, "trash_restore", {404}),
  OnDelete(<<"trash", "*">>, "trash_purge", {404}),
  OnPost(<<"trash", "empty">>, "trash_empty", {}),
  OnGet(<<"blueprints">>, "blueprints_list", {}),
  OnGet(<<"blueprints", "*">>, "blueprint_detail", {404}),
  OnPost(<<"blueprints">>, "blueprint_create", {422}),
  OnPost(<<"blueprints", "*", "instantiate">>,
         "blueprint_instantiate", {404})>>

\* Knowledge, analytics and the graph.
KnowledgeRoutes == <<
  OnGet(<<"search", "fts">>, "fulltext_search", {}),
  OnPost(<<"search", "fts", "reindex">>, "fulltext_reindex", {}),
  OnGet(<<"knowledge", "search">>, "knowledge_search", {}),
  OnPost(<<"knowledge", "agent-answer">>, "knowledge_agent_answer", {}),
  OnGet(<<"knowledge", "tools">>, "knowledge_tools", {}),
  OnGet(<<"knowledge", "graph">>, "knowledge_graph", {}),
  OnGet(<<"analytics", "dashboard">>, "analytics_dashboard", {}),
  OnGet(<<"analytics", "health">>, "analytics_health", {}),
  OnGet(<<"analytics", "stats">>, "analytics_stats", {}),
  OnGet(<<"analytics", "audit">>, "analytics_audit", {}),
  OnGet(<<"analytics", "cache">>, "analytics_cache", {}),
  OnGet(<<"analytics", "activity">>, "analytics_activity", {}),
  OnGet(<<"graph", "overview">>, "graph_overview", {}),
  OnGet(<<"graph", "backlinks">>, "graph_backlinks", {}),
  OnGet(<<"graph", "backlinks-index">>, "graph_backlinks_index", {}),
  OnGet(<<"graph", "canvas">>, "graph_canvas", {}),
  OnGet(<<"knowledge", "documents">>, "knowledge_documents", {}),
  OnPost(<<"knowledge", "answer">>, "knowledge_answer", {})>>

\* What plugins contribute.
ExtensionRoutes == <<
  OnPost(<<"render">>, "render_content", {}),
  OnGet(<<"extensions">>, "list_extensions", {}),
  OnPost(<<"ingest", "markdown">>, "ingest_markdown", {422}),
  OnPost(<<"import", "*">>, "import_documents", {404}),
  OnPost(<<"export", "*">>, "export_documents", {404}),
  OnPost(<<"tools", "*", "run">>, "run_tool", {404})>>

\* Modelling, and what is delivered.
DeliveryRoutes == <<
  OnGet(<<"modeling", "report">>, "modeling_report", {}),
  OnGet(<<"modeling", "content-types">>, "modeling_content_types", {}),
  OnGet(<<"modeling", "content-types", "*">>, "modeling_content_type", {404}),
  OnGet(<<"modeling", "data-types">>, "modeling_data_types", {}),
  OnGet(<<"modeling", "templates">>, "modeling_templates", {}),
  OnGet(<<"delivery", "sitemap">>, "delivery_sitemap", {}),
  OnGet(<<"delivery", "feed">>, "delivery_feed", {}),
  OnGet(<<"delivery", "tags">>, "delivery_tags", {}),
  OnGet(<<"delivery", "tags", "*">>, "delivery_by_tag", {}),
  OnGet(<<"delivery", "redirects">>, "delivery_redirects", {}),
  OnGet(<<"delivery", "resolve">>, "delivery_resolve", {404})>>

\* Versions and governance.
GovernanceRoutes == <<
  OnGet(<<"versioning", "*", "history">>, "versioning_history", {}),
  OnGet(<<"versioning", "*", "diff">>, "versioning_diff", {404}),
  OnPost(<<"versioning", "*", "restore">>, "versioning_restore", {404}),
  OnGet(<<"governance", "actions">>, "governance_actions", {}),
  OnGet(<<"governance", "permissions">>, "governance_permissions", {}),
  OnGet(<<"governance", "access-rules">>, "governance_access_rules", {}),
  OnPost(<<"governance", "check">>, "governance_check", {}),
  OnPost(<<"governance", "access-check">>, "governance_access_check", {}),
  OnGet(<<"governance", "whoami">>, "governance_whoami", {})>>

\* Workflow, media and storage.
WorkflowRoutes == <<
  OnGet(<<"workflow", "report">>, "workflow_report", {}),
  OnGet(<<"workflow", "*">>, "workflow_state", {}),
  OnGet(<<"workflow", "*", "transitions">>, "workflow_transitions", {}),
  OnPost(<<"workflow", "*", "transition">>, "workflow_transition", {409}),
  OnGet(<<"media">>, "media_assets", {}),
  OnGet(<<"media", "folders">>, "media_folders", {}),
  OnPost(<<"media", "register">>, "media_register", {422}),
  OnGet(<<"storage">>, "storage_backends", {}),
  OnPost(<<"storage", "*", "put">>, "storage_put", {404}),
  OnGet(<<"storage", "*", "get">>, "storage_get", {404})>>

\* Packages, and the runtime export.
PackagingRoutes == <<
  OnPost(<<"packaging", "export">>, "packaging_export", {}),
  OnPost(<<"packaging", "inspect">>, "packaging_inspect", {}),
  OnPost(<<"packaging", "plan">>, "packaging_plan", {}),
  OnPost(<<"packaging", "import">>, "packaging_import", {422}),
  OnGet(<<"runtime", "snapshot">>, "runtime_snapshot", {}),
  OnGet(<<"runtime", "status">>, "runtime_status", {}),
  OnGet(<<"runtime", "search">>, "runtime_search", {}),
  OnPost(<<"runtime", "export">>, "runtime_export", {}),
  OnPost(<<"runtime", "rebuild-index">>, "runtime_rebuild_index", {})>>

\* Cultures.
LocalizationRoutes == <<
  OnGet(<<"localization", "dictionary">>, "localization_dictionary", {}),
  OnGet(<<"localization", "translate">>, "localization_translate", {}),
  OnPost(<<"localization", "dictionary">>,
         "localization_dictionary_upsert", {422}),
  OnGet(<<"localization", "*", "variants">>, "localization_variants", {}),
  OnGet(<<"localization", "*", "cultures">>, "localization_cultures", {}),
  OnPost(<<"localization", "*", "variants">>,
         "localization_variant_upsert", {422}),
  OnPost(<<"localization", "*", "variants", "*", "publish">>,
         "localization_variant_publish", {422})>>

\* Webhooks and subscriptions.
WebhookRoutes == <<
  OnGet(<<"webhooks">>, "webhooks_list", {}),
  OnGet(<<"webhooks", "deliveries">>, "webhooks_deliveries", {}),
  OnGet(<<"webhooks", "report">>, "webhooks_report", {}),
  OnGet(<<"webhooks", "matching">>, "webhooks_matching", {}),
  OnPost(<<"webhooks">>, "webhooks_upsert", {422}),
  OnPost(<<"webhooks", "dispatch">>, "webhooks_dispatch", {}),
  OnGet(<<"notifications", "channels">>, "notification_channels", {}),
  OnPost(<<"subscriptions", "watch">>, "subscriptions_watch", {422}),
  OnDelete(<<"subscriptions", "*">>, "subscriptions_unwatch", {}),
  OnGet(<<"subscriptions">>, "subscriptions_list", {}),
  OnGet(<<"subscriptions", "inbox">>, "subscriptions_inbox", {}),
  OnGet(<<"subscriptions", "watchers", "*">>, "subscriptions_watchers", {})>>

\* Jobs, the audit trail, notifications and bookmarks.
AuditRoutes == <<
  OnGet(<<"scheduler", "jobs">>, "scheduler_list_jobs", {}),
  OnPost(<<"scheduler", "tick">>, "scheduler_tick", {}),
  OnGet(<<"audit-trail">>, "audit_trail_query", {}),
  OnGet(<<"audit-trail", "*">>, "audit_trail_for_aggregate", {}),
  OnGet(<<"notifications", "inbox">>, "notification_inbox", {}),
  OnPost(<<"notifications", "*", "read">>, "notification_mark_read", {}),
  OnGet(<<"notifications", "preferences", "*">>,
         "notification_preferences", {}),
  OnPost(<<"bookmarks">>, "bookmarks_add", {}),
  OnDelete(<<"bookmarks", "*">>, "bookmarks_remove", {}),
  OnGet(<<"bookmarks">>, "bookmarks_list", {}),
  OnGet(<<"bookmarks", "folders">>, "bookmarks_folders", {}),
  OnPost(<<"bookmarks", "folders">>, "bookmarks_create_folder", {})>>

\* Tags, spaces and threads.
SpaceRoutes == <<
  OnGet(<<"tags">>, "tags_list", {}),
  OnGet(<<"tags", "tree">>, "tags_tree", {}),
  OnPost(<<"tags">>, "tags_upsert", {}),
  OnDelete(<<"tags", "*">>, "tags_delete", {}),
  OnGet(<<"spaces">>, "spaces_list", {}),
  OnGet(<<"spaces", "*">>, "spaces_get", {404}),
  OnPost(<<"spaces">>, "spaces_upsert", {}),
  OnDelete(<<"spaces", "*">>, "spaces_delete", {}),
  OnGet(<<"comments", "threads", "*">>, "comment_threads_list", {}),
  OnPost(<<"comments", "threads">>, "comment_threads_create", {}),
  OnPost(<<"comments">>, "comments_add", {})>>

\* Templates, permissions, chats, dashboards and activity.
TemplateRoutes == <<
  OnGet(<<"templates">>, "templates_list", {}),
  OnGet(<<"templates", "*">>, "templates_get", {404}),
  OnPost(<<"templates">>, "templates_create", {}),
  OnGet(<<"permissions">>, "permissions_list", {}),
  OnPost(<<"permissions">>, "permissions_grant", {}),
  OnGet(<<"permissions", "check">>, "permissions_check", {}),
  OnGet(<<"chat", "conversations">>, "chat_conversations_list", {}),
  OnPost(<<"chat", "conversations">>, "chat_conversations_create", {}),
  OnPost(<<"chat", "send">>, "chat_send", {}),
  OnGet(<<"dashboard">>, "dashboard_get", {}),
  OnPost(<<"dashboard", "widgets">>, "dashboard_add_widget", {}),
  OnGet(<<"activity">>, "activity_feed_list", {}),
  OnGet(<<"activity", "user", "*">>, "activity_feed_user", {})>>

\* Custom fields, and copies of pages.
CloneRoutes == <<
  OnGet(<<"custom-fields", "definitions">>, "custom_fields_list", {}),
  OnPost(<<"custom-fields", "definitions">>, "custom_fields_define", {}),
  OnGet(<<"custom-fields", "values", "*">>, "custom_fields_get_values", {}),
  OnPost(<<"pages", "clone">>, "pages_clone", {}),
  OnPost(<<"pages", "clone", "estimate">>, "pages_clone_estimate", {})>>

\* Export jobs, embeddings, revisions, live editing and health.
ExportRoutes == <<
  OnGet(<<"export", "formats">>, "export_formats_list", {}),
  OnPost(<<"export", "jobs">>, "export_jobs_create", {}),
  OnGet(<<"export", "jobs">>, "export_jobs_list", {}),
  OnGet(<<"export", "jobs", "*">>, "export_jobs_get", {}),
  OnGet(<<"embeddings", "stats">>, "embeddings_stats", {}),
  OnGet(<<"embeddings", "stale">>, "embeddings_stale", {}),
  OnGet(<<"revisions", "diff">>, "revisions_diff", {}),
  OnPost(<<"live-edit", "sessions">>, "live_edit_create_session", {}),
  OnPost(<<"live-edit", "join">>, "live_edit_join", {}),
  OnPost(<<"live-edit", "leave">>, "live_edit_leave", {}),
  OnGet(<<"live-edit", "sessions", "*", "users">>, "live_edit_users", {}),
  OnGet(<<"health">>, "health_check", {})>>

PlatformRows ==
  OverviewRoutes \o InstallRoutes \o PluginRoutes \o LockRoutes \o
  TrashRoutes \o KnowledgeRoutes \o ExtensionRoutes \o DeliveryRoutes \o
  GovernanceRoutes \o WorkflowRoutes \o PackagingRoutes \o
  LocalizationRoutes \o WebhookRoutes \o AuditRoutes \o SpaceRoutes \o
  TemplateRoutes \o CloneRoutes \o ExportRoutes

-----------------------------------------------------------------------------
(* Comments (collaboration_routes.py).                                     *)

CommentRows == <<
  OnPost(<<"nodes", "*", "comments">>, "add_comment", {422}),
  OnGet(<<"nodes", "*", "comments">>, "list_comments", {}),
  OnPost(<<"comments", "*", "resolve">>, "resolve_comment", {404, 409}),
  OnPost(<<"comments", "*", "reactions">>, "react", {404, 422}),
  OnDelete(<<"comments", "*">>, "delete_comment", {}),
  OnGet(<<"mentions", "*">>, "mentions_for", {}),
  OnGet(<<"notifications", "*">>, "notifications_for", {})>>

-----------------------------------------------------------------------------
(* The service desk (itsm_routes.py). Of what a row asks for, the desk or  *)
(* its facade is looked up after the permission.                           *)

DeskRead(path, handler, failures) ==
  Row("GET", path, handler, <<PermitStep("read"), DeskStep, WorkStep(failures)>>)
DeskManage(verb, path, handler, failures) ==
  Row(verb, path, handler, <<PermitStep("manage"), DeskStep, WorkStep(failures)>>)

\* A change request asks for one permission more, and so does an approval.
RequestRows == <<
  DeskRead(<<"schemes">>, "list_schemes", {}),
  DeskRead(<<"schemes", "*">>, "scheme_detail", {404}),
  DeskRead(<<"schemes", "*", "bpmn">>, "scheme_bpmn", {404}),
  DeskRead(<<"requests">>, "list_requests", {422}),
  Row("POST", <<"requests">>, "create_request",
      <<PermitStep("create_request"), CheckStep(422), PermitStep("create_change"),
        CheckStep(422), DeskStep, WorkStep({422})>>),
  DeskRead(<<"requests", "*">>, "get_request", {404}),
  DeskRead(<<"requests", "*", "transitions">>, "request_transitions", {404}),
  Row("POST", <<"requests", "*", "transitions">>, "apply_transition",
      <<PermitStep("transition"), DeskStep, CheckStep(422), PermitStep("approve"),
        WorkStep({404, 409})>>),
  Row("POST", <<"requests", "*", "assign">>, "assign_request",
      <<PermitStep("assign"), DeskStep, CheckStep(422), WorkStep({404})>>)>>

\* Reports, the catalogue and its service levels.
CatalogRows == <<
  DeskRead(<<"queue">>, "queue_summary", {}),
  DeskRead(<<"requests", "*", "impact">>, "request_impact", {404}),
  DeskRead(<<"report">>, "itsm_report", {}),
  DeskRead(<<"catalog">>, "list_catalog", {}),
  DeskManage("POST", <<"catalog">>, "create_catalog_service", {422}),
  DeskRead(<<"catalog", "*">>, "get_catalog_service", {404}),
  DeskManage("PUT", <<"catalog", "*">>, "update_catalog_service", {404}),
  DeskManage("DELETE", <<"catalog", "*">>, "delete_catalog_service", {}),
  DeskRead(<<"sla">>, "list_sla", {}),
  DeskManage("POST", <<"sla">>, "create_sla", {422}),
  DeskRead(<<"sla", "*">>, "get_sla", {404}),
  DeskManage("PUT", <<"sla", "*">>, "update_sla", {404})>>

\* The rest of them, and the configuration database.
ItemRows == <<
  DeskManage("DELETE", <<"sla", "*">>, "delete_sla", {}),
  DeskRead(<<"cmdb", "items">>, "list_cmdb_items", {}),
  DeskManage("POST", <<"cmdb", "items">>, "create_cmdb_item", {422}),
  DeskRead(<<"cmdb", "items", "*">>, "get_cmdb_item", {404}),
  DeskManage("PUT", <<"cmdb", "items", "*">>, "update_cmdb_item", {404}),
  DeskManage("DELETE", <<"cmdb", "items", "*">>, "delete_cmdb_item", {}),
  DeskRead(<<"cmdb", "items", "*", "impact">>, "cmdb_impact", {404}),
  DeskRead(<<"cmdb", "relationships">>, "list_cmdb_relationships", {}),
  Row("POST", <<"cmdb", "relationships">>, "create_cmdb_relationship",
      <<PermitStep("manage"), CheckStep(422), DeskStep, WorkStep({404})>>),
  DeskManage("DELETE", <<"cmdb", "relationships", "*">>, "delete_cmdb_relationship", {})>>

\* Schemes of one's own.
SchemeRows == <<
  Row("POST", <<"schemes">>, "create_scheme",
      <<PermitStep("admin"), CheckStep(422), DeskStep, WorkStep({422})>>),
  Row("POST", <<"schemes", "import-bpmn">>, "import_bpmn_scheme",
      <<PermitStep("admin"), CheckStep(422), DeskStep, WorkStep({422})>>),
  Row("DELETE", <<"schemes", "*">>, "delete_scheme",
      <<PermitStep("admin"), DeskStep, WorkStep({409})>>),
  Row("GET", <<"rbac", "roles">>, "rbac_roles", <<PermitStep("read"), WorkStep({})>>)>>

\* Its pages.
DeskPageRows == <<
  DeskRead(<<"admin", "itsm">>, "itsm_dashboard", {}),
  DeskRead(<<"admin", "itsm", "workflow">>, "itsm_workflow_editor", {}),
  OnGet(<<"admin", "itsm", "workflow", "assets", "*">>, "itsm_workflow_asset", {404})>>

DeskRows == RequestRows \o CatalogRows \o ItemRows \o SchemeRows
=============================================================================
